---------------------------- MODULE AllocProofs ----------------------------
(***************************************************************************)
(* The two allocators, of ids and of objects in shared memory, are correct *)
(* for any number of what they give out.                                   *)
(***************************************************************************)
EXTENDS ShmPool, IdAlloc, SeqFacts

---------------------------------------------------------------------------
(* IdAlloc.  The invariant that carries the proofs: the free part of the    *)
(* array holds the ids whose flag is clear, each one once.                  *)

StackFree == \A pos \in FreePart : ~flags[freeids[pos]]

StackDistinct ==
  \A p, q \in FreePart : freeids[p] = freeids[q] => p = q

StackComplete ==
  \A i \in Index : ~flags[i] => \E pos \in FreePart : freeids[pos] = i

StackInv == IdTypeOK /\ StackFree /\ StackDistinct /\ StackComplete

\* The free part without its first place.
LEMMA Interval == ASSUME NEW n \in Int PROVE n + 1 .. N - 1 = (n .. N - 1) \ {n}
  BY IdAssumption

\* At first every id is on the stack.
LEMMA StackInit == ASSUME IdInit PROVE StackInv
<1>1. IdTypeOK
  <2>1. freeids \in [Index -> Index] /\ flags \in [Index -> BOOLEAN]
    BY Zenon DEF IdInit
  <2>2. nalloc = 0 /\ got = MaxN /\ claimed = FALSE
    BY DEF IdInit
  <2>3. nalloc \in 0 .. N /\ got \in Arg
    BY <2>2, IdAssumption DEF Arg
  <2>4. claimed \in BOOLEAN
    BY <2>2
  <2> QED BY <2>1, <2>3, <2>4 DEF IdTypeOK
<1>2. FreePart = Index /\ \A i \in Index : freeids[i] = i /\ ~flags[i]
  BY DEF IdInit, FreePart, Index
<1> QED BY <1>1, <1>2 DEF StackInv, StackFree, StackDistinct, StackComplete

\* The id taken leaves the stack with its flag set.
LEMMA IdAllocKeeps == ASSUME StackInv, alloc PROVE StackInv'
<1> USE IdAssumption DEF StackInv, Index, Arg
<1>1. CASE nalloc < N
  <2> DEFINE i == freeids[nalloc]
  <2>1. /\ i \in Index
        /\ nalloc \in FreePart
        /\ nalloc \in Int
        /\ ~flags[i]
    BY <1>1 DEF IdTypeOK, StackFree, FreePart
  <2>2. /\ nalloc' = nalloc + 1
        /\ freeids' = freeids
        /\ flags' = [flags EXCEPT ![i] = TRUE]
        /\ got' = i + BeginId
        /\ claimed' = claimed
    BY <1>1 DEF alloc
  <2> HIDE DEF i
  <2>3. IdTypeOK'
    <3>1. /\ freeids \in [Index -> Index] /\ flags \in [Index -> BOOLEAN]
          /\ nalloc \in 0 .. N - 1 /\ claimed \in BOOLEAN
      BY <1>1 DEF IdTypeOK
    <3>2. nalloc + 1 \in 0 .. N
      BY <3>1, IdAssumption
    <3>3. i + BeginId \in Arg
      BY <2>1, IdAssumption DEF Arg, Index
    <3>4. [flags EXCEPT ![i] = TRUE] \in [Index -> BOOLEAN]
      BY <3>1
    <3>5. QED BY <2>2, <3>1, <3>2, <3>3, <3>4 DEF IdTypeOK
  <2>4. FreePart' = FreePart \ {nalloc}
    BY <2>1, <2>2, Interval DEF FreePart
  <2>5. \A pos \in FreePart' : pos \in FreePart /\ freeids[pos] # i
    BY <2>1, <2>4 DEF StackDistinct, i
  <2>6. StackFree'
    BY <2>1, <2>2, <2>5 DEF StackFree, IdTypeOK, FreePart
  <2>7. StackDistinct'
    BY <2>2, <2>5 DEF StackDistinct
  <2>8. StackComplete'
    <3> SUFFICES ASSUME NEW j \in Index, ~flags'[j]
                 PROVE  \E pos \in FreePart' : freeids'[pos] = j
      BY DEF StackComplete
    <3>1. ~flags[j] /\ j # i
      BY <2>1, <2>2 DEF IdTypeOK
    <3>2. PICK pos \in FreePart : freeids[pos] = j
      BY <3>1 DEF StackComplete
    <3>3. pos # nalloc
      BY <3>1, <3>2 DEF i
    <3> QED BY <2>2, <2>4, <3>2, <3>3
  <2> QED BY <2>3, <2>6, <2>7, <2>8
<1>2. CASE nalloc >= N
  <2>1. /\ UNCHANGED <<freeids, flags, nalloc, claimed>>
        /\ got' = MaxN
    BY <1>2 DEF alloc, IdTypeOK
  <2> QED BY <2>1 DEF IdTypeOK, StackFree, StackDistinct, StackComplete, FreePart
<1>3. nalloc < N \/ nalloc >= N
  BY DEF IdTypeOK
<1> QED BY <1>1, <1>2, <1>3

\* An id whose flag is set is not on the stack, so that it can be put there.
LEMMA IdFreeKeeps == ASSUME StackInv, NEW id \in Arg, free(id) PROVE StackInv'
<1> USE IdAssumption DEF StackInv, Index, Arg
<1> DEFINE i == id - BeginId
           c == id >= BeginId /\ i < N /\ nalloc > 0 /\ flags[i]
<1>1. CASE c
  <2>1. /\ i \in Index
        /\ flags[i]
        /\ nalloc - 1 \in Index
        /\ nalloc \in Nat
    BY <1>1 DEF IdTypeOK
  <2>2. /\ nalloc' = nalloc - 1
        /\ freeids' = [freeids EXCEPT ![nalloc - 1] = i]
        /\ flags' = [flags EXCEPT ![i] = FALSE]
        /\ got' = got
        /\ claimed' = claimed
    BY <1>1 DEF free
  <2> HIDE DEF i, c
  <2>3. IdTypeOK'
    <3>1. nalloc' \in 0 .. N /\ claimed' \in BOOLEAN /\ got' \in Arg
      BY <2>1, <2>2 DEF IdTypeOK
    <3>2. flags' \in [Index -> BOOLEAN]
      BY <2>1, <2>2 DEF IdTypeOK
    <3>3. freeids' \in [Index -> Index]
      BY <2>1, <2>2 DEF IdTypeOK
    <3> QED BY <3>1, <3>2, <3>3 DEF IdTypeOK
  <2>4. /\ FreePart' = FreePart \cup {nalloc - 1}
        /\ nalloc - 1 \notin FreePart
    BY <2>1, <2>2 DEF FreePart
  <2>5. /\ freeids'[nalloc - 1] = i
        /\ \A pos \in FreePart : freeids'[pos] = freeids[pos] /\ freeids[pos] # i
    <3>1. freeids'[nalloc - 1] = i
      BY <2>1, <2>2 DEF IdTypeOK
    <3>2. ASSUME NEW pos \in FreePart PROVE freeids'[pos] = freeids[pos]
      <4>1. pos \in Index /\ pos # nalloc - 1
        BY <2>1, <2>4 DEF FreePart
      <4> QED BY <2>2, <4>1 DEF IdTypeOK
    <3>3. ASSUME NEW pos \in FreePart PROVE freeids[pos] # i
      BY <2>1 DEF StackFree
    <3> QED BY <3>1, <3>2, <3>3
  <2>6. StackFree'
    <3> SUFFICES ASSUME NEW pos \in FreePart' PROVE ~flags'[freeids'[pos]]
      BY DEF StackFree
    <3>1. CASE pos = nalloc - 1
      BY <2>1, <2>2, <2>5, <3>1 DEF IdTypeOK
    <3>2. CASE pos \in FreePart
      <4>1. pos \in Index
        BY <2>1, <3>2 DEF FreePart
      <4> QED BY <2>1, <2>2, <2>5, <3>2, <4>1 DEF IdTypeOK, StackFree
    <3> QED BY <2>4, <3>1, <3>2
  <2>7. StackDistinct'
    BY <2>4, <2>5 DEF StackDistinct
  <2>8. StackComplete'
    <3> SUFFICES ASSUME NEW j \in Index, ~flags'[j]
                 PROVE  \E pos \in FreePart' : freeids'[pos] = j
      BY DEF StackComplete
    <3>1. CASE j = i
      BY <2>4, <2>5, <3>1
    <3>2. CASE j # i
      <4>1. ~flags[j]
        BY <2>2, <3>2 DEF IdTypeOK
      <4>2. PICK pos \in FreePart : freeids[pos] = j
        BY <4>1 DEF StackComplete
      <4> QED BY <2>4, <2>5, <4>2
    <3> QED BY <3>1, <3>2
  <2> QED BY <2>3, <2>6, <2>7, <2>8
<1>2. CASE ~c
  <2>1. UNCHANGED idVars
    BY <1>2 DEF free, idVars
  <2> QED BY <2>1 DEF idVars, IdTypeOK, StackFree, StackDistinct, StackComplete, FreePart
<1> QED BY <1>1, <1>2

\* Every id whose flag is clear is found, and the exchange keeps the others.
LEMMA IdTakeKeeps ==
  ASSUME StackInv, NEW i \in Index, NEW pos \in FreePart,
         ~flags[i], FoundAt(i, pos), TakeAt(i, pos), got' = got
  PROVE  StackInv'
<1> USE IdAssumption DEF StackInv, Index, Arg
<1>1. /\ nalloc \in FreePart
      /\ nalloc \in Index
      /\ pos \in Index
      /\ nalloc < N
      /\ freeids[pos] = i
  BY DEF FreePart, IdTypeOK, FoundAt
<1>2. /\ freeids' = [freeids EXCEPT ![nalloc] = freeids[pos], ![pos] = freeids[nalloc]]
      /\ nalloc' = nalloc + 1
      /\ flags' = [flags EXCEPT ![i] = TRUE]
      /\ claimed' = TRUE
  BY DEF TakeAt
<1>3. IdTypeOK'
  <2>1. nalloc' \in 0 .. N /\ claimed' \in BOOLEAN /\ got' \in Arg
    BY <1>1, <1>2 DEF IdTypeOK
  <2>2. flags' \in [Index -> BOOLEAN]
    BY <1>2 DEF IdTypeOK
  <2>3. freeids' \in [Index -> Index]
    BY <1>1, <1>2 DEF IdTypeOK
  <2> QED BY <2>1, <2>2, <2>3 DEF IdTypeOK
<1>4. FreePart' = FreePart \ {nalloc}
  <2>1. nalloc \in Int
    BY DEF IdTypeOK
  <2> QED BY <1>2, <2>1, Interval DEF FreePart
\* where the exchange moves the entry of the old place q
<1> DEFINE old(q) == IF q = pos THEN nalloc ELSE q
<1>5. \A q \in FreePart' : /\ old(q) \in FreePart
                           /\ old(q) # pos
                           /\ freeids'[q] = freeids[old(q)]
  <2> SUFFICES ASSUME NEW q \in FreePart'
               PROVE  old(q) \in FreePart /\ old(q) # pos /\ freeids'[q] = freeids[old(q)]
    OBVIOUS
  <2>1. q \in FreePart /\ q # nalloc /\ q \in Index
    <3>1. q \in FreePart /\ q # nalloc
      BY <1>4
    <3> QED BY <1>1, <3>1 DEF FreePart
  <2>2. CASE q = pos
    <3>1. old(q) = nalloc /\ nalloc # pos
      BY <2>1, <2>2
    <3>2. freeids'[q] = freeids[nalloc]
      BY <1>1, <1>2, <2>1, <2>2 DEF IdTypeOK
    <3> QED BY <1>1, <3>1, <3>2
  <2>3. CASE q # pos
    <3>1. freeids'[q] = freeids[q]
      BY <1>1, <1>2, <2>1, <2>3 DEF IdTypeOK
    <3> QED BY <2>1, <2>3, <3>1
  <2> QED BY <2>2, <2>3
<1>6. \A q \in FreePart' : freeids'[q] # i
  BY <1>1, <1>5 DEF StackDistinct
<1>7. StackFree'
  <2> SUFFICES ASSUME NEW q \in FreePart' PROVE ~flags'[freeids'[q]]
    BY DEF StackFree
  <2>1. /\ freeids'[q] = freeids[old(q)]
        /\ old(q) \in FreePart
        /\ freeids'[q] # i
    BY <1>5, <1>6
  <2>2. freeids[old(q)] \in Index /\ ~flags[freeids[old(q)]]
    BY <2>1 DEF IdTypeOK, StackFree, FreePart
  <2> QED BY <1>2, <2>1, <2>2 DEF IdTypeOK
<1>8. StackDistinct'
  <2> SUFFICES ASSUME NEW p \in FreePart', NEW q \in FreePart', freeids'[p] = freeids'[q]
               PROVE  p = q
    BY DEF StackDistinct
  <2>1. old(p) = old(q)
    BY <1>5 DEF StackDistinct
  <2> QED BY <1>4, <2>1
<1>9. StackComplete'
  <2> SUFFICES ASSUME NEW j \in Index, ~flags'[j]
               PROVE  \E q \in FreePart' : freeids'[q] = j
    BY DEF StackComplete
  <2>1. ~flags[j] /\ j # i
    BY <1>2 DEF IdTypeOK
  <2>2. PICK q \in FreePart : freeids[q] = j
    BY <2>1 DEF StackComplete
  <2>3. q # pos /\ q \in Index
    BY <1>1, <2>1, <2>2 DEF FreePart, IdTypeOK
  <2>4. CASE q = nalloc
    <3>1. pos # nalloc
      BY <2>3, <2>4
    <3> QED BY <1>1, <1>2, <1>4, <2>2, <2>4, <3>1 DEF IdTypeOK
  <2>5. CASE q # nalloc
    BY <1>1, <1>2, <1>4, <2>2, <2>3, <2>5 DEF IdTypeOK
  <2> QED BY <2>4, <2>5
<1> QED BY <1>3, <1>7, <1>8, <1>9

\* Every operation keeps the stack correct.
LEMMA StackNext == StackInv /\ [IdNext]_idVars => StackInv'
<1> SUFFICES ASSUME StackInv, [IdNext]_idVars PROVE StackInv'
  OBVIOUS
<1>1. ASSUME NEW id \in Arg, can_used(id) PROVE StackInv'
  <2>1. CASE UNCHANGED <<freeids, nalloc, flags, got>> /\ claimed' \in BOOLEAN
    BY <2>1 DEF StackInv, IdTypeOK, StackFree, StackDistinct, StackComplete, FreePart
  <2>2. CASE \E i \in Index : \E pos \in FreePart :
               ~flags[i] /\ FoundAt(i, pos) /\ TakeAt(i, pos) /\ got' = got
    BY <2>2, IdTakeKeeps
  <2>3. id >= BeginId /\ id - BeginId < N => id - BeginId \in Index
    BY IdAssumption DEF Arg, Index
  <2> QED BY <1>1, <2>1, <2>2, <2>3 DEF can_used, Refuse
<1>2. CASE UNCHANGED idVars
  BY <1>2 DEF idVars, StackInv, IdTypeOK, StackFree, StackDistinct, StackComplete, FreePart
<1> QED BY <1>1, <1>2, IdAllocKeeps, IdFreeKeeps DEF IdNext

\* The stack of free ids always holds each id whose flag is clear, once, and
\* no other (the two arrays of fix_id_alloc.h after alloc, free, can_used).
THEOREM StackCorrect == IdSpec => []StackInv
  BY StackInit, StackNext, PTL DEF IdSpec

\* The variables stay in their ranges.
THEOREM IdTypeCorrect == IdSpec => []IdTypeOK
<1>1. StackInv => IdTypeOK
  BY DEF StackInv
<1> QED BY <1>1, StackCorrect, PTL

---------------------------------------------------------------------------
(* The assertions of to_string *)

\* The free part of the array enumerates the ids whose flag is clear, so
\* that they are as many as its entries.
LEMMA CountFree == ASSUME StackInv PROVE FreeListSound
<1> DEFINE f == [pos \in FreePart |-> freeids[pos]]
<1>1. \A pos \in FreePart : pos \in Index
  BY IdAssumption DEF StackInv, IdTypeOK, FreePart, Index
<1>2. f \in [FreePart -> Unflagged]
  BY <1>1 DEF StackInv, IdTypeOK, StackFree, Unflagged
<1>3. f \in Bijection(FreePart, Unflagged)
  <2>1. IsInjective(f)
    BY DEF IsInjective, StackInv, StackDistinct
  <2>2. \A i \in Unflagged : \E pos \in FreePart : f[pos] = i
    BY DEF StackInv, StackComplete, Unflagged
  <2> HIDE DEF f
  <2> QED BY <1>2, <2>1, <2>2 DEF Bijection, Injection, Surjection
<1>4. nalloc \in Int /\ N - 1 \in Int /\ nalloc <= N
  BY IdAssumption DEF StackInv, IdTypeOK
<1>5. IsFiniteSet(FreePart) /\ Cardinality(FreePart) = N - nalloc
  BY <1>4, FS_Interval, IdAssumption DEF FreePart
<1>6. Cardinality(Unflagged) = N - nalloc
  BY <1>3, <1>5, FS_Bijection DEF ExistsBijection
<1> QED BY <1>6 DEF FreeListSound, StackInv, StackFree

\* The assertions of to_string never fail.
THEOREM AssertionsHold == IdSpec => []FreeListSound
  BY CountFree, StackCorrect, PTL

---------------------------------------------------------------------------
(* The allocator implements the set of ids *)

Range0 == BeginId .. BeginId + N - 1

\* Setting or clearing a flag adds one id to the ids held or takes it away.
LEMMA FlagHeld ==
  ASSUME IdTypeOK, NEW i \in Index, NEW b \in BOOLEAN, flags' = [flags EXCEPT ![i] = b]
  PROVE  /\ i + BeginId \in Range0
         /\ i + BeginId \in Held <=> flags[i]
         /\ Held' = IF b THEN Held \cup {i + BeginId} ELSE Held \ {i + BeginId}
<1>1. /\ i + BeginId \in Range0
      /\ i + BeginId - BeginId = i
      /\ \A x \in Range0 : x - BeginId \in Index /\ (x - BeginId = i <=> x = i + BeginId)
  BY IdAssumption DEF Range0, Index
<1>2. \A j \in Index : flags'[j] = IF j = i THEN b ELSE flags[j]
  BY DEF IdTypeOK
<1>3. /\ \A x : x \in Held <=> x \in Range0 /\ flags[x - BeginId]
      /\ \A x : x \in Held' <=> x \in Range0 /\ flags'[x - BeginId]
  BY DEF Held, Range0
<1>4. i + BeginId \in Held <=> flags[i]
  BY <1>1, <1>3
<1>5. CASE b
  <2>1. \A x : x \in Held' <=> x \in Held \cup {i + BeginId}
    BY <1>1, <1>2, <1>3, <1>5
  <2> QED BY <1>1, <1>4, <1>5, <2>1
<1>6. CASE ~b
  <2>1. \A x : x \in Held' <=> x \in Held \ {i + BeginId}
    BY <1>1, <1>2, <1>3, <1>6
  <2> QED BY <1>1, <1>4, <1>6, <2>1
<1> QED BY <1>5, <1>6

\* Each call does to the ids held what the call of the abstract allocator does.
LEMMA HeldStep ==
  ASSUME StackInv, StackInv', [IdNext]_idVars
  PROVE  [Abstract!Next]_<<Held, got, claimed>>
<1> USE IdAssumption DEF StackInv
<1>1. ASSUME alloc PROVE Abstract!Alloc
  <2>1. CASE nalloc < N
    <3> DEFINE i == freeids[nalloc]
    <3>1. i \in Index /\ ~flags[i]
      <4>1. nalloc \in FreePart /\ nalloc \in Index
        BY <2>1 DEF IdTypeOK, FreePart, Index
      <4> QED BY <4>1 DEF IdTypeOK, StackFree
    <3>2. /\ flags' = [flags EXCEPT ![i] = TRUE]
          /\ got' = i + BeginId
          /\ claimed' = claimed
      BY <1>1, <2>1 DEF alloc
    <3> HIDE DEF i
    <3>3. /\ i + BeginId \in Range0 \ Held
          /\ Held' = Held \cup {i + BeginId}
      BY <3>1, <3>2, FlagHeld
    <3> QED BY <3>2, <3>3 DEF Abstract!Alloc, Range0
  <2>2. CASE nalloc >= N
    <3>1. FreePart = {}
      BY <2>2 DEF FreePart, IdTypeOK
    <3>2. \A i \in Index : flags[i]
      BY <3>1 DEF StackComplete
    <3>3. Held = Range0
      BY <3>2 DEF Held, Range0, Index
    <3>4. got' = MaxN /\ UNCHANGED <<flags, claimed>>
      BY <1>1, <2>2 DEF alloc, IdTypeOK
    <3> QED BY <3>3, <3>4 DEF Abstract!Alloc, Held, Range0
  <2> QED BY <2>1, <2>2 DEF IdTypeOK
<1>2. ASSUME NEW id \in Arg, free(id) PROVE Abstract!Free(id)
  <2> DEFINE i == id - BeginId
  <2>1. CASE id >= BeginId /\ i < N /\ nalloc > 0 /\ flags[i]
    <3>1. i \in Index /\ id = i + BeginId
      BY <2>1 DEF Index, Arg
    <3>2. flags' = [flags EXCEPT ![i] = FALSE] /\ UNCHANGED <<got, claimed>>
      BY <1>2, <2>1 DEF free
    <3>3. Held' = Held \ {id}
      BY <3>1, <3>2, FlagHeld
    <3> QED BY <3>2, <3>3 DEF Abstract!Free
  <2>2. CASE ~(id >= BeginId /\ i < N /\ nalloc > 0 /\ flags[i])
    <3>1. UNCHANGED <<flags, got, claimed>>
      BY <1>2, <2>2 DEF free
    <3>2. id \notin Held
      <4>1. SUFFICES ASSUME id \in Held PROVE FALSE
        OBVIOUS
      <4>2. i \in Index /\ flags[i] /\ id >= BeginId /\ i < N
        BY <4>1 DEF Held, Index
      <4>3. nalloc = 0
        BY <2>2, <4>2 DEF IdTypeOK
      <4>4. Cardinality(Unflagged) = N
        BY <4>3, CountFree DEF FreeListSound
      <4>5. IsFiniteSet(Index) /\ Cardinality(Index) = N
        BY FS_Interval DEF Index
      <4>6. Unflagged = Index
        <5>1. Unflagged \in SUBSET Index
          BY DEF Unflagged
        <5> QED BY <4>4, <4>5, <5>1, FS_Subset
      <4> QED BY <4>2, <4>6 DEF Unflagged
    <3> QED BY <3>1, <3>2 DEF Abstract!Free, Held
  <2> QED BY <2>1, <2>2
<1>3. ASSUME NEW id \in Arg, can_used(id) PROVE Abstract!Claim(id)
  <2> DEFINE i == id - BeginId
  <2>1. CASE ~(id >= BeginId /\ i < N)
    <3>1. claimed' = FALSE /\ UNCHANGED <<flags, got>>
      BY <1>3, <2>1 DEF can_used, Refuse
    <3>2. id \notin Range0
      BY <2>1 DEF Range0, Arg
    <3>3. Held' = Held /\ {id} \cap Range0 = {}
      BY <3>1, <3>2 DEF Held
    <3>4. Held' = Held \cup ({id} \cap Range0)
      BY <3>3
    <3>5. claimed' = (id \in Range0)
      <4>1. (id \in Range0) = FALSE
        BY <3>2
      <4> QED BY <3>1, <4>1
    <3> QED BY <3>1, <3>4, <3>5, Zenon DEF Abstract!Claim, Range0
  <2>2. CASE id >= BeginId /\ i < N
    <3>1. i \in Index /\ id \in Range0 /\ id = i + BeginId
      BY <2>2 DEF Index, Range0, Arg
    <3>2. CASE flags[i]
      <4>1. claimed' = TRUE /\ UNCHANGED <<flags, got>>
        BY <1>3, <2>2, <3>2 DEF can_used
      <4>2. id \in Held
        BY <3>1, <3>2 DEF Held, Range0
      <4> QED BY <3>1, <4>1, <4>2 DEF Abstract!Claim, Held, Range0
    <3>3. CASE ~flags[i]
      <4>1. \E pos \in FreePart : FoundAt(i, pos)
        <5>1. PICK pos \in FreePart : freeids[pos] = i
          BY <3>1, <3>3 DEF StackComplete
        <5>2. \A k \in nalloc .. pos - 1 : freeids[k] # i
          <6>1. \A k \in nalloc .. pos - 1 : k \in FreePart /\ k # pos
            BY DEF FreePart, IdTypeOK
          <6> QED BY <5>1, <6>1 DEF StackDistinct
        <5> QED BY <5>1, <5>2 DEF FoundAt
      <4>2. /\ flags' = [flags EXCEPT ![i] = TRUE]
            /\ claimed' = TRUE
            /\ got' = got
        BY <1>3, <2>2, <3>3, <4>1 DEF can_used, TakeAt
      <4>3. Held' = Held \cup {id}
        BY <3>1, <4>2, FlagHeld
      <4> QED BY <3>1, <4>2, <4>3 DEF Abstract!Claim, Range0
    <3> QED BY <3>2, <3>3
  <2> QED BY <2>1, <2>2
<1>4. CASE UNCHANGED idVars
  BY <1>4 DEF idVars, Held
<1> QED BY <1>1, <1>2, <1>3, <1>4 DEF IdNext, Abstract!Next

\* The array and the flags implement the set of ids: alloc never gives an id
\* that is in use, and fails only when all are.
THEOREM ImplementsIdSet == IdSpec => AllocatesIds
<1>1. IdInit => Abstract!Init
  <2> SUFFICES ASSUME IdInit PROVE Held = {} /\ got = MaxN /\ claimed = FALSE
    BY DEF Abstract!Init
  <2>1. \A x \in Range0 : x - BeginId \in Index
    BY IdAssumption DEF Range0, Index
  <2>2. \A x \in Range0 : ~flags[x - BeginId]
    BY <2>1 DEF IdInit
  <2> QED BY <2>2 DEF Held, Range0, IdInit
<1>2. StackInv /\ StackInv' /\ [IdNext]_idVars => [Abstract!Next]_<<Held, got, claimed>>
  BY HeldStep
<1> QED BY <1>1, <1>2, StackCorrect, PTL DEF IdSpec, AllocatesIds, Abstract!Spec

---------------------------------------------------------------------------
(* ShmPool.  The invariant says of a pool what PoolSound says; each helper  *)
(* of the growth and the release of nodes keeps it, and keeps the objects   *)
(* that are named.                                                          *)

(* Numbers *)

\* What never falls from one place to the next never falls.
LEMMA Monotone ==
  ASSUME NEW b \in Nat, NEW f \in [0 .. b -> Nat], \A k \in 0 .. b - 1 : f[k] <= f[k + 1],
         NEW i \in 0 .. b, NEW j \in 0 .. b, i <= j
  PROVE  f[i] <= f[j]
<1> DEFINE S == {d \in Nat : i + d \in 0 .. b => f[i] <= f[i + d]}
<1>1. 0 \in S
  OBVIOUS
<1>2. ASSUME NEW d \in 0 .. (j - i) - 1, d \in S PROVE d + 1 \in S
  <2>1. /\ i + d \in 0 .. b /\ i + d \in 0 .. b - 1 /\ (i + d) + 1 \in 0 .. b
        /\ i + (d + 1) = (i + d) + 1 /\ d + 1 \in Nat
    OBVIOUS
  <2>2. PICK x \in Nat, y \in Nat, z \in Nat : x = f[i] /\ y = f[i + d] /\ z = f[(i + d) + 1]
    BY <2>1
  <2>3. x <= y /\ y <= z
    BY <1>2, <2>1, <2>2
  <2>4. x <= z
    BY <2>3
  <2>5. QED BY <2>1, <2>2, <2>4
<1>3. j - i \in Nat /\ j - i \in 0 .. j - i /\ i + (j - i) = j
  OBVIOUS
<1>4. j - i \in S
  <2> HIDE DEF S
  <2>1. QED BY <1>1, <1>2, <1>3, SetInduction
<1>5. QED BY <1>3, <1>4

\* The powers of 2 that sizes are made of.
LEMMA ShiftedPositive ==
  /\ Shifted \in [0 .. NodeCount -> Nat \ {0}] /\ Shifted[0] = 1
  /\ \A k \in 0 .. NodeCount - 1 : Shifted[k + 1] = 2 * Shifted[k]
<1> DEFINE V == Nat \ {0}
           R == {p \in Nat \X V \X V : p[3] = 2 * p[2]}
<1>0. NodeCount \in Nat \ {0}
  BY PoolAssumption
<1>1. \A n \in 0 .. NodeCount - 1 : \A w \in V : \E u \in V : <<n, w, u>> \in R
  <2>1. ASSUME NEW n \in 0 .. NodeCount - 1, NEW w \in V PROVE 2 * w \in V /\ <<n, w, 2 * w>> \in R
    BY <1>0
  <2>2. QED BY <2>1
<1> HIDE DEF R
<1>2. PICK g \in [0 .. NodeCount -> V] : Series(g, NodeCount, 1, R)
  <2>1. NodeCount \in Nat /\ 1 \in V
    BY <1>0
  <2> HIDE DEF V
  <2>2. QED BY <1>1, <2>1, RecursionFromZero
<1>3. g[0] = 1 /\ \A n \in 0 .. NodeCount - 1 : g[n + 1] = 2 * g[n]
  BY <1>2 DEF Series, R
<1>4. \A k \in 0 .. NodeCount : k = 0 \/ (k - 1 \in 0 .. NodeCount - 1 /\ (k - 1) + 1 = k)
  BY <1>0
<1>5. g = [k \in 0 .. NodeCount |-> IF k = 0 THEN 1 ELSE 2 * g[k - 1]]
  BY <1>3, <1>4
<1>6. Shifted = [k \in 0 .. NodeCount |-> IF k = 0 THEN 1 ELSE 2 * Shifted[k - 1]]
  BY <1>5 DEF Shifted
<1>7. 0 \in 0 .. NodeCount
  BY <1>0
<1>8. Shifted[0] = 1
  BY <1>6, <1>7
<1>9. ASSUME NEW k \in 0 .. NodeCount - 1 PROVE Shifted[k + 1] = 2 * Shifted[k]
  <2>1. k + 1 \in 0 .. NodeCount /\ k + 1 # 0 /\ (k + 1) - 1 = k
    BY <1>0
  <2>2. QED BY <1>6, <2>1
<1> DEFINE S == {k \in Nat : Shifted[k] \in V}
<1>10. 0 \in S
  BY <1>8
<1>11. ASSUME NEW k \in 0 .. NodeCount - 1, k \in S PROVE k + 1 \in S
  BY <1>9, <1>11
<1>12. 0 .. NodeCount \subseteq S
  <2> HIDE DEF S
  <2>1. QED BY <1>0, <1>10, <1>11, SetInduction
<1>13. Shifted \in [0 .. NodeCount -> V]
  BY <1>6, <1>12
<1>14. QED BY <1>8, <1>9, <1>13

\* Every node has items, and none has more than the last one.
LEMMA NodeSizes ==
  /\ \A k \in 0 .. NodeCount : NodeSize(k) \in Nat \ {0}
  /\ \A k \in Nodes : NodeSize(k) <= NodeSize(NodeCount - 1)
<1>0. NodeCount \in Nat \ {0} /\ Base \in Nat \ {0} /\ Growth \in {"EXP", "LINEAR", "DEFAULT"}
  BY PoolAssumption
<1> DEFINE Sized(k) == NodeSize(k) \in Nat \ {0}
           Grows(k) == NodeSize(k) <= NodeSize(k + 1)
<1>1. ASSUME Growth = "EXP" PROVE \A k \in 0 .. NodeCount - 1 : Grows(k)
  <2>1. ASSUME NEW k \in 0 .. NodeCount - 1 PROVE NodeSize(k) <= NodeSize(k + 1)
    <3>1. k \in 0 .. NodeCount /\ k + 1 \in 0 .. NodeCount
      BY <1>0
    <3>2. PICK s \in Nat : s = Shifted[k] /\ Shifted[k + 1] = 2 * s
      BY <3>1, ShiftedPositive
    <3>3. Base * s <= Base * (2 * s)
      BY <1>0
    <3>4. NodeSize(k) = Base * s /\ NodeSize(k + 1) = Base * (2 * s)
      BY <1>1, <3>1, <3>2 DEF NodeSize
    <3>5. QED BY <3>3, <3>4
  <2>2. QED BY <2>1
<1>2. ASSUME Growth = "EXP" PROVE \A k \in 0 .. NodeCount : Sized(k)
  <2>1. ASSUME NEW k \in 0 .. NodeCount PROVE NodeSize(k) \in Nat \ {0}
    <3>1. PICK s \in Nat \ {0} : s = Shifted[k]
      BY ShiftedPositive
    <3>2. Base * s \in Nat \ {0}
      BY <1>0
    <3>3. NodeSize(k) = Base * s
      BY <1>2, <3>1 DEF NodeSize
    <3>4. QED BY <3>2, <3>3
  <2>2. QED BY <2>1
<1>3. ASSUME Growth = "LINEAR"
      PROVE  /\ \A k \in 0 .. NodeCount : Sized(k)
             /\ \A k \in 0 .. NodeCount - 1 : Grows(k)
  <2>1. \A k \in 0 .. NodeCount + 1 : NodeSize(k) = Base * (k + 1)
    BY <1>3 DEF NodeSize
  <2>2. ASSUME NEW k \in 0 .. NodeCount PROVE Base * (k + 1) \in Nat \ {0} /\ Base * (k + 1) <= Base * ((k + 1) + 1)
    BY <1>0
  <2>3. \A k \in 0 .. NodeCount : k \in 0 .. NodeCount + 1
    BY <1>0
  <2>4. \A k \in 0 .. NodeCount - 1 : k + 1 \in 0 .. NodeCount + 1 /\ k \in 0 .. NodeCount
    BY <1>0
  <2>5. QED BY <2>1, <2>2, <2>3, <2>4
<1>4. ASSUME Growth = "DEFAULT"
      PROVE  /\ \A k \in 0 .. NodeCount : Sized(k)
             /\ \A k \in 0 .. NodeCount - 1 : Grows(k)
  BY <1>0, <1>4 DEF NodeSize
<1>5. /\ \A k \in 0 .. NodeCount : Sized(k)
      /\ \A k \in 0 .. NodeCount - 1 : Grows(k)
  BY <1>0, <1>1, <1>2, <1>3, <1>4
<1> DEFINE f == [k \in 0 .. NodeCount |-> NodeSize(k)]
<1>6. f \in [0 .. NodeCount -> Nat]
  BY <1>5
<1>7. \A k \in 0 .. NodeCount - 1 : f[k] <= f[k + 1]
  <2>1. \A k \in 0 .. NodeCount - 1 : k \in 0 .. NodeCount /\ k + 1 \in 0 .. NodeCount
    BY <1>0
  <2>2. QED BY <1>5, <2>1
<1>8. ASSUME NEW k \in Nodes PROVE NodeSize(k) <= NodeSize(NodeCount - 1)
  <2>1. k \in 0 .. NodeCount /\ NodeCount - 1 \in 0 .. NodeCount /\ k <= NodeCount - 1 /\ NodeCount \in Nat
    BY <1>0 DEF Nodes
  <2>2. f[k] = NodeSize(k) /\ f[NodeCount - 1] = NodeSize(NodeCount - 1)
    BY <2>1
  <2> HIDE DEF f
  <2>3. f[k] <= f[NodeCount - 1]
    BY <1>6, <1>7, <2>1, Monotone
  <2>4. QED BY <2>2, <2>3
<1>9. QED BY <1>5, <1>8

---------------------------------------------------------------------------
(* Sums over the nodes *)

\* A sum grows by what is at each node.
LEMMA SumDefined ==
  ASSUME NEW f \in [Nodes -> Nat]
  PROVE  /\ SumBelow(f) \in [0 .. NodeCount -> Nat] /\ SumBelow(f)[0] = 0
         /\ \A k \in Nodes : SumBelow(f)[k + 1] = SumBelow(f)[k] + f[k]
<1> DEFINE R == {p \in Nat \X Nat \X Nat : p[3] = p[2] + f[p[1]]}
           Sum == SumBelow(f)
<1>0. NodeCount \in Nat \ {0} /\ Nodes = 0 .. NodeCount - 1
  BY PoolAssumption DEF Nodes
<1>1. \A n \in 0 .. NodeCount - 1 : \A w \in Nat : \E u \in Nat : <<n, w, u>> \in R
  <2>1. ASSUME NEW n \in 0 .. NodeCount - 1, NEW w \in Nat
        PROVE  w + f[n] \in Nat /\ <<n, w, w + f[n]>> \in R
    BY <1>0
  <2>2. QED BY <2>1
<1> HIDE DEF R
<1>2. PICK g \in [0 .. NodeCount -> Nat] : Series(g, NodeCount, 0, R)
  BY <1>0, <1>1, RecursionFromZero
<1>3. g[0] = 0 /\ \A n \in 0 .. NodeCount - 1 : g[n + 1] = g[n] + f[n]
  BY <1>2 DEF Series, R
<1>4. \A k \in 0 .. NodeCount : k = 0 \/ (k - 1 \in 0 .. NodeCount - 1 /\ (k - 1) + 1 = k)
  BY <1>0
<1>5. g = [k \in 0 .. NodeCount |-> IF k = 0 THEN 0 ELSE g[k - 1] + f[k - 1]]
  BY <1>3, <1>4
<1>6. Sum = [k \in 0 .. NodeCount |-> IF k = 0 THEN 0 ELSE Sum[k - 1] + f[k - 1]]
  BY <1>5 DEF SumBelow
<1> HIDE DEF Sum
<1>7. 0 \in 0 .. NodeCount
  BY <1>0
<1>8. Sum[0] = 0
  BY <1>6, <1>7
<1>9. ASSUME NEW k \in 0 .. NodeCount - 1 PROVE Sum[k + 1] = Sum[k] + f[k]
  <2>1. k + 1 \in 0 .. NodeCount /\ k + 1 # 0 /\ (k + 1) - 1 = k
    BY <1>0
  <2>2. QED BY <1>6, <2>1
<1> DEFINE S == {k \in Nat : Sum[k] \in Nat}
<1>10. 0 \in S
  BY <1>8
<1>11. ASSUME NEW k \in 0 .. NodeCount - 1, k \in S PROVE k + 1 \in S
  BY <1>0, <1>9, <1>11
<1>12. 0 .. NodeCount \subseteq S
  <2> HIDE DEF S
  <2>1. QED BY <1>0, <1>10, <1>11, SetInduction
<1>13. Sum \in [0 .. NodeCount -> Nat]
  BY <1>6, <1>12
<1>14. QED BY <1>0, <1>8, <1>9, <1>13 DEF Sum

\* The nodes lie one behind the other.
LEMMA SumGrows ==
  ASSUME NEW f \in [Nodes -> Nat], NEW i \in 0 .. NodeCount, NEW j \in 0 .. NodeCount, i <= j
  PROVE  SumBelow(f)[i] <= SumBelow(f)[j]
<1>0. NodeCount \in Nat /\ Nodes = 0 .. NodeCount - 1
  BY PoolAssumption DEF Nodes
<1>1. PICK g \in [0 .. NodeCount -> Nat] : g = SumBelow(f)
  BY SumDefined
<1>2. \A k \in 0 .. NodeCount - 1 : g[k] <= g[k + 1]
  <2>1. ASSUME NEW k \in 0 .. NodeCount - 1 PROVE g[k] <= g[k + 1]
    <3>1. g[k + 1] = g[k] + f[k] /\ f[k] \in Nat
      BY <1>0, <1>1, SumDefined
    <3>2. k \in 0 .. NodeCount
      BY <1>0
    <3>3. QED BY <3>1, <3>2
  <2>2. QED BY <2>1
<1>3. QED BY <1>0, <1>1, <1>2, Monotone

\* One node changes.
LEMMA SumChanges ==
  ASSUME NEW f \in [Nodes -> Nat], NEW g \in [Nodes -> Nat], NEW n \in Nodes,
         \A k \in Nodes : k # n => g[k] = f[k]
  PROVE  SumBelow(g)[NodeCount] = SumBelow(f)[NodeCount] + (g[n] - f[n])
<1>0. NodeCount \in Nat \ {0} /\ Nodes = 0 .. NodeCount - 1
  BY PoolAssumption DEF Nodes
<1>1. PICK F \in [0 .. NodeCount -> Nat], G \in [0 .. NodeCount -> Nat], d \in Int :
        F = SumBelow(f) /\ G = SumBelow(g) /\ d = g[n] - f[n]
  <2>1. g[n] - f[n] \in Int
    OBVIOUS
  <2>2. QED BY <2>1, SumDefined, Zenon
<1>2. /\ F[0] = 0 /\ G[0] = 0
      /\ \A k \in 0 .. NodeCount - 1 : F[k + 1] = F[k] + f[k] /\ G[k + 1] = G[k] + g[k]
  BY <1>0, <1>1, SumDefined
<1> DEFINE S == {k \in Nat : k \in 0 .. NodeCount => G[k] = F[k] + (IF n < k THEN d ELSE 0)}
<1>3. 0 \in S
  BY <1>0, <1>2
<1>4. ASSUME NEW k \in 0 .. NodeCount - 1, k \in S PROVE k + 1 \in S
  <2>1. k \in 0 .. NodeCount /\ k \in Nat /\ k + 1 \in Nat
    BY <1>0
  <2>2. PICK a \in Nat, b \in Nat, x \in Nat, y \in Nat : a = F[k] /\ b = G[k] /\ x = f[k] /\ y = g[k]
    BY <1>0, <2>1
  <2>3. F[k + 1] = a + x /\ G[k + 1] = b + y /\ b = a + (IF n < k THEN d ELSE 0)
    BY <1>2, <1>4, <2>1, <2>2
  <2>4. IF k = n THEN y = x + d ELSE y = x
    <3>1. CASE k = n
      <4>1. d = y - x
        BY <1>1, <2>2, <3>1, Zenon
      <4>2. QED BY <3>1, <4>1
    <3>2. CASE k # n
      <4>1. y = x
        BY <1>0, <2>2, <3>2
      <4>2. QED BY <3>2, <4>1
    <3>3. QED BY <3>1, <3>2
  <2>5. b + y = (a + x) + (IF n < k + 1 THEN d ELSE 0)
    BY <1>0, <2>3, <2>4
  <2>6. QED BY <2>1, <2>3, <2>5
<1>5. NodeCount \in S
  <2>1. NodeCount \in Nat /\ NodeCount \in 0 .. NodeCount
    BY <1>0
  <2> HIDE DEF S
  <2>2. QED BY <1>3, <1>4, <2>1, SetInduction
<1>6. n < NodeCount /\ NodeCount \in 0 .. NodeCount
  BY <1>0
<1>7. G[NodeCount] = F[NodeCount] + d
  BY <1>5, <1>6
<1>8. QED BY <1>1, <1>7, Zenon

---------------------------------------------------------------------------
(* What is true of a pool, and what is kept when one node changes *)

NodeRec == [items : Seq(0 .. SerialMax), free : Seq(Nat), serial : 0 .. SerialMax]

Pools == [node : [Nodes -> NodeRec], cur : Nodes \cup {-1}, dirty : BOOLEAN,
          mapped : Int, free : Int, real : Nat]

\* A node of that size, mapped or not, whose free list holds each free item once.
Sound(n, size) ==
  /\ n \in NodeRec /\ Len(n.items) \in {0, size}
  /\ IsInjective(n.free) /\ ToSet(n.free) = {i \in 1 .. Len(n.items) : n.items[i] = 0}

Counted(p) ==
  /\ p \in Pools /\ \A k \in Nodes : Sound(p.node[k], NodeSize(k))
  /\ p.mapped = SumBelow(Sizes(p))[NodeCount] /\ p.free = SumBelow(Frees(p))[NodeCount]

CurMapped(p) == p.cur = -1 \/ Valid(p, p.cur)

\* The mids whose serial is that of their item.
Live(p) == {m \in Mids : Valid(p, m.node) /\ p.node[m.node].items[m.item] = m.serial}

AllZero(x) == \A i \in 1 .. Len(x.items) : x.items[i] = 0

\* x takes the place of node n, and the counters follow.
Replaces(p, q, n, x) ==
  /\ q.node = [p.node EXCEPT ![n] = x]
  /\ q.mapped = p.mapped + (Len(x.items) - Size(p, n))
  /\ q.free = p.free + (Len(x.free) - FreeItems(p, n))

\* What the assumptions say of nodes and mids.
LEMMA Limits ==
  /\ NodeCount \in Nat \ {0} /\ SerialMax \in Nat \ {0} /\ Total \in Int
  /\ Nodes = 0 .. NodeCount - 1 /\ 0 \in Nodes
  /\ \A k \in Nodes : k \in Nat /\ k < NodeCount /\ NodeSize(k) \in Nat \ {0}
  /\ \A m \in Mids : /\ m.node \in Nodes /\ m.item \in 1 .. NodeSize(m.node)
                      /\ m.serial \in 1 .. SerialMax
<1>1. NodeCount \in Nat \ {0} /\ SerialMax \in Nat \ {0} /\ Total \in Int /\ Nodes = 0 .. NodeCount - 1
  BY PoolAssumption DEF Nodes
<1>2. \A k \in Nodes : k \in Nat /\ k < NodeCount /\ k \in 0 .. NodeCount
  BY <1>1
<1>3. \A k \in Nodes : NodeSize(k) \in Nat \ {0}
  BY <1>2, NodeSizes
<1>4. ASSUME NEW m \in Mids
      PROVE  m.node \in Nodes /\ m.item \in 1 .. NodeSize(m.node) /\ m.serial \in 1 .. SerialMax
  <2>1. /\ m.node \in Nodes /\ m.item \in 1 .. NodeSize(NodeCount - 1) /\ m.serial \in 1 .. SerialMax
        /\ m.item <= NodeSize(m.node)
    BY DEF Mids
  <2>2. NodeCount - 1 \in Nodes
    BY <1>1
  <2>3. NodeSize(m.node) \in Nat /\ NodeSize(NodeCount - 1) \in Nat
    BY <1>3, <2>1, <2>2
  <2>4. QED BY <2>1, <2>3
<1>5. 0 \in Nodes
  BY <1>1
<1>6. QED BY <1>1, <1>2, <1>3, <1>4, <1>5

\* Every item of a node that is mapped has a mid.
LEMMA MidOf ==
  ASSUME NEW k \in Nodes, NEW i \in 1 .. NodeSize(k), NEW s \in 1 .. SerialMax
  PROVE  [node |-> k, item |-> i, serial |-> s] \in Mids
<1>1. NodeSize(k) \in Nat /\ NodeSize(NodeCount - 1) \in Nat /\ NodeSize(k) <= NodeSize(NodeCount - 1)
  <2>1. NodeCount - 1 \in Nodes
    BY Limits
  <2>2. QED BY <2>1, Limits, NodeSizes
<1>2. i \in 1 .. NodeSize(NodeCount - 1) /\ i <= NodeSize(k)
  BY <1>1
<1>3. QED BY <1>2 DEF Mids

\* The types of the parts of a sound node.
LEMMA NodeFacts ==
  ASSUME NEW size \in Nat \ {0}, NEW n, Sound(n, size)
  PROVE  /\ n.items \in Seq(0 .. SerialMax) /\ n.free \in Seq(Nat) /\ n.serial \in 0 .. SerialMax
         /\ Len(n.items) \in Nat /\ Len(n.free) \in Nat
         /\ n.items = <<>> <=> Len(n.items) = 0
         /\ n.items # <<>> <=> Len(n.items) = size
         /\ \A i \in 1 .. Len(n.items) : n.items[i] \in 0 .. SerialMax
<1>1. n.items \in Seq(0 .. SerialMax) /\ n.free \in Seq(Nat) /\ n.serial \in 0 .. SerialMax
      /\ Len(n.items) \in {0, size}
  BY DEF Sound, NodeRec
<1>2. PICK t \in Seq(0 .. SerialMax), f \in Seq(Nat) : t = n.items /\ f = n.free
  BY <1>1
<1>3. /\ Len(t) \in Nat /\ Len(f) \in Nat /\ (t = <<>> <=> Len(t) = 0)
      /\ \A i \in 1 .. Len(t) : t[i] \in 0 .. SerialMax
  <2>1. Len(t) \in Nat /\ Len(f) \in Nat /\ \A i \in 1 .. Len(t) : t[i] \in 0 .. SerialMax
    BY LenProperties, ElementOfSeq
  <2>2. t = <<>> <=> Len(t) = 0
    BY EmptySeq
  <2>3. QED BY <2>1, <2>2
<1>4. t # <<>> <=> Len(t) = size
  BY <1>1, <1>2, <1>3
<1>5. QED BY <1>1, <1>2, <1>3, <1>4

\* A node with as many free items as items has no other.
LEMMA FullyFreeZero ==
  ASSUME NEW size \in Nat \ {0}, NEW n, Sound(n, size), Len(n.free) = Len(n.items)
  PROVE  AllZero(n)
<1>1. PICK len \in Nat, f \in Seq(Nat) : len = Len(n.items) /\ f = n.free /\ Len(f) = len
  BY NodeFacts
<1>2. \A i \in 1 .. len : f[i] \in 1 .. len
  <2>1. ASSUME NEW i \in 1 .. len PROVE f[i] \in 1 .. len
    <3>1. f[i] \in ToSet(f)
      BY <1>1, Elements
    <3>2. QED BY <1>1, <3>1 DEF Sound
  <2>2. QED BY <2>1
<1>3. f \in [1 .. len -> 1 .. len]
  BY <1>1, <1>2
<1>4. f \in Injection(1 .. len, 1 .. len)
  BY <1>1, <1>3 DEF Sound, Injection, IsInjective
<1>5. IsFiniteSet(1 .. len)
  BY FS_Interval
<1>6. f \in Surjection(1 .. len, 1 .. len)
  BY <1>4, <1>5, FS_Injection
<1>7. ASSUME NEW i \in 1 .. len PROVE n.items[i] = 0
  <2>1. PICK j \in 1 .. len : f[j] = i
    BY <1>6 DEF Surjection
  <2>2. i \in ToSet(f)
    BY <1>1, <2>1, Elements
  <2>3. QED BY <1>1, <2>2 DEF Sound
<1>8. QED BY <1>1, <1>7 DEF AllZero

\* A node that is not mapped is sound and has nothing.
LEMMA UnmappedSound ==
  ASSUME NEW size \in Nat
  PROVE  Sound(Unmapped, size) /\ AllZero(Unmapped) /\ Len(Unmapped.items) = 0 /\ Len(Unmapped.free) = 0
<1>1. Unmapped \in NodeRec
  BY Limits DEF Unmapped, NodeRec
<1>2. Len(Unmapped.items) = 0 /\ Len(Unmapped.free) = 0 /\ ToSet(Unmapped.free) = {} /\ IsInjective(Unmapped.free)
  BY DEF Unmapped, ToSet, IsInjective
<1>3. QED BY <1>1, <1>2 DEF Sound, AllZero

\* A sequence that is given place by place.
LEMMA Listed ==
  ASSUME NEW T, NEW len \in Nat, NEW f \in [1 .. len -> T]
  PROVE  f \in Seq(T) /\ Len(f) = len
OBVIOUS

\* A new node is sound, and all its items are free.
LEMMA NewNodeSound ==
  ASSUME NEW k \in Nodes, NEW s \in 0 .. SerialMax
  PROVE  /\ Sound(NewNode(k, s), NodeSize(k)) /\ AllZero(NewNode(k, s))
         /\ Len(NewNode(k, s).items) = NodeSize(k) /\ Len(NewNode(k, s).free) = NodeSize(k)
         /\ NewNode(k, s).items # <<>> /\ NewNode(k, s).free # <<>>
<1>1. PICK len \in Nat \ {0} : len = NodeSize(k)
  BY Limits
<1>2. PICK z \in [1 .. len -> 0 .. SerialMax] : z = [i \in 1 .. len |-> 0]
  <2>1. 0 \in 0 .. SerialMax
    BY Limits
  <2>2. [i \in 1 .. len |-> 0] \in [1 .. len -> 0 .. SerialMax]
    BY <2>1
  <2>3. QED BY <2>2, Zenon
<1>3. PICK e \in [1 .. len -> Nat] : e = [i \in 1 .. len |-> i]
  <2>1. [i \in 1 .. len |-> i] \in [1 .. len -> Nat]
    OBVIOUS
  <2>2. QED BY <2>1, Zenon
<1>4. z \in Seq(0 .. SerialMax) /\ Len(z) = len /\ e \in Seq(Nat) /\ Len(e) = len
  BY Listed
<1>5. NewNode(k, s) = [items |-> z, free |-> e, serial |-> s]
  BY <1>1, <1>2, <1>3 DEF NewNode
<1>6. ToSet(e) = 1 .. len
  <2>1. ASSUME NEW x PROVE x \in ToSet(e) <=> x \in 1 .. len
    <3>1. x \in ToSet(e) <=> \E i \in 1 .. Len(e) : e[i] = x
      BY <1>4, Elements
    <3>2. \A i \in 1 .. len : e[i] = i
      BY <1>3
    <3>3. QED BY <1>4, <3>1, <3>2
  <2>2. QED BY <2>1
<1>7. IsInjective(e)
  BY <1>3 DEF IsInjective
<1>8. z # <<>> /\ e # <<>>
  BY <1>4
<1> DEFINE x == [items |-> z, free |-> e, serial |-> s]
<1>9. x \in NodeRec /\ x.items = z /\ x.free = e
  BY <1>4 DEF NodeRec
<1> HIDE DEF x
<1>10. Sound(x, len)
  BY <1>2, <1>4, <1>6, <1>7, <1>9 DEF Sound
<1>11. AllZero(x)
  BY <1>2, <1>4, <1>9 DEF AllZero
<1>12. QED BY <1>1, <1>4, <1>5, <1>8, <1>9, <1>10, <1>11 DEF x

\* A node without items has no free ones either.
LEMMA NoItems ==
  ASSUME NEW size \in Nat \ {0}, NEW n, Sound(n, size), n.items = <<>>
  PROVE  n.free = <<>> /\ Len(n.items) = 0 /\ Len(n.free) = 0 /\ AllZero(n)
<1>1. n.free \in Seq(Nat) /\ Len(n.items) = 0
  BY NodeFacts
<1>2. ToSet(n.free) = {}
  BY <1>1 DEF Sound
<1>3. n.free = <<>>
  <2>1. PICK f \in Seq(Nat) : f = n.free
    BY <1>1
  <2>2. ASSUME f # <<>> PROVE FALSE
    <3>1. Len(f) \in Nat \ {0}
      BY <2>2, EmptySeq
    <3>2. 1 \in 1 .. Len(f)
      BY <3>1
    <3>3. f[1] \in ToSet(f)
      BY <3>2, Elements
    <3>4. QED BY <1>2, <2>1, <3>3
  <2>3. QED BY <2>1, <2>2
<1>4. QED BY <1>1, <1>3, EmptySeq DEF AllZero

\* What the counts say of the parts of a pool.
LEMMA Counts ==
  ASSUME NEW p, Counted(p)
  PROVE  /\ p \in Pools /\ p.mapped \in Nat /\ p.free \in Nat /\ p.real \in Nat /\ p.dirty \in BOOLEAN
         /\ p.cur \in Nodes \cup {-1} /\ p.node \in [Nodes -> NodeRec]
         /\ Sizes(p) \in [Nodes -> Nat] /\ Frees(p) \in [Nodes -> Nat]
         /\ \A k \in Nodes :
              /\ Sound(p.node[k], NodeSize(k))
              /\ Size(p, k) \in Nat /\ FreeItems(p, k) \in Nat /\ (Valid(p, k) <=> Size(p, k) = NodeSize(k))
              /\ ~Valid(p, k) => Size(p, k) = 0 /\ FreeItems(p, k) = 0 /\ AllZero(p.node[k])
<1>1. /\ p \in Pools /\ p.real \in Nat /\ p.dirty \in BOOLEAN /\ p.cur \in Nodes \cup {-1}
      /\ p.node \in [Nodes -> NodeRec]
  BY DEF Counted, Pools
<1>2. ASSUME NEW k \in Nodes
      PROVE  /\ Sound(p.node[k], NodeSize(k)) /\ NodeSize(k) \in Nat \ {0}
             /\ Size(p, k) \in Nat /\ FreeItems(p, k) \in Nat /\ (Valid(p, k) <=> Size(p, k) = NodeSize(k))
             /\ ~Valid(p, k) => Size(p, k) = 0 /\ FreeItems(p, k) = 0 /\ AllZero(p.node[k])
  <2>1. PICK n : n = p.node[k] /\ Sound(n, NodeSize(k)) /\ NodeSize(k) \in Nat \ {0}
    BY Limits DEF Counted
  <2>2. Len(n.items) \in Nat /\ Len(n.free) \in Nat /\ (n.items # <<>> <=> Len(n.items) = NodeSize(k))
    BY <2>1, NodeFacts
  <2>3. n.items = <<>> => Len(n.items) = 0 /\ Len(n.free) = 0 /\ AllZero(n)
    BY <2>1, NoItems
  <2>4. QED BY <2>1, <2>2, <2>3 DEF Size, FreeItems, Valid
<1>3. Sizes(p) \in [Nodes -> Nat] /\ Frees(p) \in [Nodes -> Nat]
  BY <1>2 DEF Sizes, Frees
<1>4. SumBelow(Sizes(p))[NodeCount] \in Nat /\ SumBelow(Frees(p))[NodeCount] \in Nat
  <2>1. NodeCount \in 0 .. NodeCount
    BY Limits
  <2>2. QED BY <1>3, <2>1, SumDefined
<1>5. p.mapped \in Nat /\ p.free \in Nat
  BY <1>4 DEF Counted
<1>6. QED BY <1>1, <1>2, <1>3, <1>5

\* The counts hold again when the counters have followed.
LEMMA ReplaceCounts ==
  ASSUME NEW p, Counted(p), NEW n \in Nodes, NEW x, Sound(x, NodeSize(n)),
         NEW q \in Pools, Replaces(p, q, n, x)
  PROVE  /\ Counted(q) /\ q.node[n] = x /\ \A k \in Nodes : k # n => q.node[k] = p.node[k]
<1>1. /\ q.node[n] = x /\ \A k \in Nodes : k # n => q.node[k] = p.node[k]
  BY Counts DEF Replaces
<1>2. NodeSize(n) \in Nat \ {0} /\ \A k \in Nodes : Sound(q.node[k], NodeSize(k))
  BY <1>1, Counts, Limits
<1>3. Len(x.items) \in Nat /\ Len(x.free) \in Nat
  BY <1>2, NodeFacts
<1>4. PICK f \in [Nodes -> Nat], g \in [Nodes -> Nat], c \in [Nodes -> Nat], d \in [Nodes -> Nat] :
        f = Sizes(p) /\ g = Sizes(q) /\ c = Frees(p) /\ d = Frees(q)
  <2>1. Sizes(p) \in [Nodes -> Nat] /\ Frees(p) \in [Nodes -> Nat]
    BY Counts
  <2>2. ASSUME NEW k \in Nodes PROVE Size(q, k) \in Nat /\ FreeItems(q, k) \in Nat
    BY <1>2, Limits, NodeFacts DEF Size, FreeItems
  <2>3. Sizes(q) \in [Nodes -> Nat] /\ Frees(q) \in [Nodes -> Nat]
    BY <2>2 DEF Sizes, Frees
  <2>4. QED BY <2>1, <2>3, Zenon
<1>5. /\ \A k \in Nodes : k # n => g[k] = f[k] /\ d[k] = c[k]
      /\ f[n] = Size(p, n) /\ g[n] = Len(x.items) /\ c[n] = FreeItems(p, n) /\ d[n] = Len(x.free)
  BY <1>1, <1>4 DEF Sizes, Frees, Size, FreeItems
<1>6. /\ SumBelow(g)[NodeCount] = SumBelow(f)[NodeCount] + (g[n] - f[n])
      /\ SumBelow(d)[NodeCount] = SumBelow(c)[NodeCount] + (d[n] - c[n])
  <2>1. SumBelow(g)[NodeCount] = SumBelow(f)[NodeCount] + (g[n] - f[n])
    BY <1>5, SumChanges
  <2>2. SumBelow(d)[NodeCount] = SumBelow(c)[NodeCount] + (d[n] - c[n])
    BY <1>5, SumChanges
  <2>3. QED BY <2>1, <2>2
<1>7. p.mapped = SumBelow(f)[NodeCount] /\ p.free = SumBelow(c)[NodeCount]
  BY <1>4 DEF Counted
<1>8. q.mapped = SumBelow(g)[NodeCount] /\ q.free = SumBelow(d)[NodeCount]
  BY <1>5, <1>6, <1>7, Zenon DEF Replaces
<1>9. QED BY <1>1, <1>2, <1>4, <1>8 DEF Counted

\* A node without objects takes the place of another.
LEMMA ReplaceLive ==
  ASSUME NEW p, Counted(p), NEW n \in Nodes, NEW x, Sound(x, NodeSize(n)),
         NEW q \in Pools, Replaces(p, q, n, x), AllZero(x), AllZero(p.node[n])
  PROVE  Live(q) = Live(p)
<1>1. /\ q.node[n] = x /\ \A k \in Nodes : k # n => q.node[k] = p.node[k]
  BY ReplaceCounts
<1>2. ASSUME NEW y, Sound(y, NodeSize(n)), AllZero(y), NEW m \in Mids, m.node = n, y.items # <<>>
      PROVE  y.items[m.item] # m.serial
  <2>1. NodeSize(n) \in Nat \ {0} /\ m.item \in 1 .. NodeSize(n) /\ m.serial # 0
    BY <1>2, Limits
  <2>2. Len(y.items) = NodeSize(n)
    BY <1>2, <2>1, NodeFacts
  <2>3. QED BY <1>2, <2>1, <2>2 DEF AllZero
<1>3. ASSUME NEW m \in Mids PROVE m \in Live(q) <=> m \in Live(p)
  <2>1. CASE m.node = n
    <3>1. Sound(p.node[n], NodeSize(n))
      BY Counts
    <3>2. m \notin Live(p)
      BY <1>2, <2>1, <3>1 DEF Live, Valid
    <3>3. m \notin Live(q)
      BY <1>1, <1>2, <2>1 DEF Live, Valid
    <3>4. QED BY <3>2, <3>3
  <2>2. CASE m.node # n
    <3>1. q.node[m.node] = p.node[m.node]
      BY <1>1, <2>2, Limits
    <3>2. QED BY <3>1 DEF Live, Valid
  <2>3. QED BY <2>1, <2>2
<1>4. QED BY <1>3 DEF Live

\* A set of numbers below a bound has a least element.
LEMMA MinOf ==
  ASSUME NEW b \in Nat, NEW S \in SUBSET (0 .. b), S # {}
  PROVE  Min(S) \in S /\ \A n \in S : Min(S) <= n
<1>1. S \in SUBSET Nat
  OBVIOUS
<1>2. \E m \in S : \A n \in S : m <= n
  BY <1>1, LeastNatural
<1>3. QED BY <1>2 DEF Min

\* And a greatest.
LEMMA MaxOf ==
  ASSUME NEW b \in Nat, NEW S \in SUBSET (0 .. b), S # {}
  PROVE  Max(S) \in S
<1> DEFINE T == {b - n : n \in S}
<1>0. \A n \in S : b - n \in Nat
  OBVIOUS
<1>1. T \in SUBSET Nat /\ T # {}
  <2>1. T \in SUBSET Nat
    BY <1>0
  <2>2. PICK n \in S : TRUE
    OBVIOUS
  <2>3. b - n \in T
    OBVIOUS
  <2>4. QED BY <2>1, <2>3
<1>2. PICK t \in T : \A u \in T : t <= u
  BY <1>1, LeastNatural
<1>3. PICK m \in S : t = b - m
  BY <1>2
<1>4. \A n \in S : m >= n
  <2>1. ASSUME NEW n \in S PROVE m >= n
    <3>1. b - n \in T
      OBVIOUS
    <3>2. b - m <= b - n
      BY <1>2, <1>3, <3>1
    <3>3. QED BY <3>2
  <2>2. QED BY <2>1
<1>5. QED BY <1>4 DEF Max

---------------------------------------------------------------------------
(* The helpers keep the counts and the objects *)

Same(p, q) == Live(q) = Live(p) /\ Used(q) = Used(p)

\* There is an item to be had in the current node.
CurFree(p) == p.cur \in Nodes /\ Valid(p, p.cur) /\ p.node[p.cur].free # <<>>

\* Neither the current node nor the flag says anything of the items.
LEMMA Kept ==
  ASSUME NEW p, Counted(p), NEW q \in Pools,
         q.node = p.node, q.mapped = p.mapped, q.free = p.free
  PROVE  Counted(q) /\ Same(p, q)
<1>1. Sizes(q) = Sizes(p) /\ Frees(q) = Frees(p)
  BY DEF Sizes, Frees, Size, FreeItems
<1>2. Counted(q)
  BY <1>1 DEF Counted
<1>3. QED BY <1>2 DEF Same, Live, Used, Valid

\* _shm_try_to_map_node: when it succeeds there is an item to be had, when it fails nothing
\* but the size computed last is different, and it fails for want of a node or a segment only.
LEMMA MapKeeps ==
  ASSUME NEW p, Counted(p), NEW k \in 0 .. NodeCount, NEW env \in Envs,
         NEW r, r = _shm_try_to_map_node(p, k, env)
  PROVE  /\ r.ok \in BOOLEAN /\ Counted(r.pool) /\ Same(p, r.pool)
         /\ r.ok => CurFree(r.pool)
         /\ ~r.ok => r.pool.node = p.node /\ r.pool.cur = p.cur
         /\ env.creates /\ (\E j \in Nodes : k <= j /\ ~Valid(p, j)) => r.ok
<1> DEFINE S == {j \in k .. NodeCount : j = NodeCount \/ p.node[j].free # <<>> \/ ~Valid(p, j)}
<1>0. NodeCount \in Nat \ {0} /\ Nodes = 0 .. NodeCount - 1 /\ p \in Pools
  BY Limits, Counts
<1>1. S \in SUBSET (0 .. NodeCount) /\ NodeCount \in S
  BY <1>0
<1>2. PICK stop \in 0 .. NodeCount : stop = Min(S) /\ stop \in S /\ \A n \in S : stop <= n
  <2> HIDE DEF S
  <2>1. Min(S) \in S /\ \A n \in S : Min(S) <= n
    BY <1>0, <1>1, MinOf
  <2>2. QED BY <1>1, <2>1
<1>3. \A q \in Pools : /\ Done(q).ok /\ Done(q).pool = q
                       /\ Failed(q).ok = FALSE /\ Failed(q).pool = q
  BY DEF Done, Failed
<1>4. Counted(p) /\ Same(p, p)
  BY DEF Same
<1>5. ASSUME NEW q, q = [p EXCEPT !.real = NodeSize(stop)]
      PROVE  q \in Pools /\ Counted(q) /\ Same(p, q) /\ q.node = p.node /\ q.cur = p.cur
  <2>1. NodeSize(stop) \in Nat
    BY NodeSizes
  <2>2. q \in Pools /\ q.node = p.node /\ q.cur = p.cur /\ q.mapped = p.mapped /\ q.free = p.free
    BY <1>0, <1>5, <2>1 DEF Pools
  <2>3. QED BY <2>2, Kept
<1>6. CASE k >= NodeCount
  <2>1. r = Failed(p)
    <3>1. ~(k < NodeCount) /\ ~(stop < NodeCount)
      BY <1>0, <1>2, <1>6
    <3>2. QED BY <1>2, <1>6, <3>1, Zenon DEF _shm_try_to_map_node
  <2>2. \A j \in Nodes : ~(k <= j)
    BY <1>0, <1>6
  <2>3. QED BY <1>0, <1>3, <1>4, <2>1, <2>2
<1>7. CASE k < NodeCount /\ stop = NodeCount
  <2>1. r = Failed([p EXCEPT !.real = NodeSize(stop)])
    <3>1. ~(k >= NodeCount) /\ ~(stop < NodeCount)
      BY <1>0, <1>7
    <3>2. QED BY <1>2, <1>7, <3>1, Zenon DEF _shm_try_to_map_node
  <2>2. ASSUME NEW j \in Nodes, k <= j PROVE Valid(p, j)
    <3>1. j \in k .. NodeCount /\ j < NodeCount
      BY <1>0, <2>2
    <3>2. ~(stop <= j)
      BY <1>0, <1>7, <3>1
    <3>3. j \notin S
      <4> HIDE DEF S
      <4>1. QED BY <1>2, <3>2, Zenon
    <3>4. QED BY <3>1, <3>3
  <2>3. QED BY <1>3, <1>5, <2>1, <2>2
<1>8. CASE stop < NodeCount /\ Valid(p, stop)
  <2>1. stop \in Nodes /\ p.node[stop].free # <<>> /\ k < NodeCount
    BY <1>0, <1>2, <1>8
  <2>2. PICK q : q = [p EXCEPT !.cur = stop]
    OBVIOUS
  <2>3. q \in Pools /\ q.node = p.node /\ q.cur = stop /\ q.mapped = p.mapped /\ q.free = p.free
    BY <1>0, <2>1, <2>2 DEF Pools
  <2>4. r = Done(q)
    <3>1. ~(k >= NodeCount) /\ stop # NodeCount
      BY <1>0, <1>8, <2>1
    <3>2. QED BY <1>2, <1>8, <2>2, <3>1, Zenon DEF _shm_try_to_map_node
  <2>5. Counted(q) /\ Same(p, q) /\ CurFree(q)
    BY <1>8, <2>1, <2>3, Kept DEF CurFree, Valid
  <2>6. QED BY <1>3, <2>3, <2>4, <2>5
<1>9. CASE stop < NodeCount /\ ~Valid(p, stop)
  <2>1. stop \in Nodes /\ k < NodeCount
    BY <1>0, <1>2, <1>9
  <2>2. CASE ~env.creates
    <3>1. r = Failed([p EXCEPT !.real = NodeSize(stop)])
      <4>1. ~(k >= NodeCount) /\ stop # NodeCount
        BY <1>0, <1>9, <2>1
      <4>2. QED BY <1>2, <1>9, <2>2, <4>1, Zenon DEF _shm_try_to_map_node
    <3>2. QED BY <1>3, <1>5, <2>2, <3>1
  <2>3. CASE env.creates
    <3>1. PICK q, x : q = Mapped(p, stop, env) /\ x = NewNode(stop, env.serial)
      OBVIOUS
    <3>2. r = Done(q)
      <4>1. ~(k >= NodeCount) /\ stop # NodeCount
        BY <1>0, <1>9, <2>1
      <4>2. QED BY <1>2, <1>9, <2>3, <3>1, <4>1, Zenon DEF _shm_try_to_map_node
    <3>3. /\ Sound(x, NodeSize(stop)) /\ AllZero(x) /\ Len(x.items) = NodeSize(stop)
          /\ Len(x.free) = NodeSize(stop) /\ x.items # <<>> /\ x.free # <<>>
      <4>1. env.serial \in 0 .. SerialMax
        BY DEF Envs
      <4>2. QED BY <2>1, <3>1, <4>1, NewNodeSound
    <3>4. PICK size \in Nat : size = NodeSize(stop)
      BY <2>1, Limits
    <3>5. /\ q \in Pools /\ q.cur = stop
          /\ q.node = [p.node EXCEPT ![stop] = x] /\ q.mapped = p.mapped + size
          /\ q.free = p.free + size
      <4>1. p.mapped + size \in Int /\ p.free + size \in Int
        BY <1>0 DEF Pools
      <4>2. x \in NodeRec
        BY <3>3 DEF Sound
      <4>3. QED BY <1>0, <2>1, <3>1, <3>4, <4>1, <4>2 DEF Pools, Mapped
    <3>6. Size(p, stop) = 0 /\ FreeItems(p, stop) = 0 /\ AllZero(p.node[stop])
      BY <1>9, <2>1, Counts
    <3>7. Replaces(p, q, stop, x) /\ Used(q) = Used(p)
      <4>1. p.mapped \in Nat /\ p.free \in Nat
        BY Counts
      <4>2. QED BY <3>3, <3>4, <3>5, <3>6, <4>1 DEF Replaces, Used
    <3>8. Counted(q) /\ q.node[stop] = x
      <4>1. q \in Pools /\ Sound(x, NodeSize(stop)) /\ Replaces(p, q, stop, x)
        BY <3>3, <3>5, <3>7, Zenon
      <4>2. Counted(q)
        BY <2>1, <4>1, ReplaceCounts, Zenon
      <4>3. q.node[stop] = x
        BY <2>1, <3>5, Counts
      <4>4. QED BY <4>2, <4>3
    <3>9. Live(q) = Live(p)
      BY <2>1, <3>3, <3>5, <3>6, <3>7, ReplaceLive, Zenon
    <3>10. CurFree(q)
      BY <2>1, <3>3, <3>5, <3>8 DEF CurFree, Valid
    <3>11. QED BY <1>3, <3>2, <3>5, <3>7, <3>8, <3>9, <3>10 DEF Same
  <2>4. QED BY <2>2, <2>3
<1>10. QED BY <1>0, <1>6, <1>7, <1>8, <1>9

\* The last node below a place that has a property.
LEMMA LastBelow ==
  ASSUME NEW n \in Nodes \cup {-1}, NEW S \in SUBSET (0 .. n - 1), S # {}
  PROVE  Max(S) \in S /\ Max(S) \in Nodes
<1>1. NodeCount \in Nat /\ Nodes = 0 .. NodeCount - 1
  BY Limits
<1>2. n # -1
  <2>1. PICK s \in 0 .. n - 1 : TRUE
    OBVIOUS
  <2>2. n \in Int
    BY <1>1
  <2>3. QED BY <2>1, <2>2
<1>3. n \in Nat /\ S \in SUBSET (0 .. n) /\ S \subseteq Nodes
  <2>1. n \in Nat /\ n < NodeCount /\ \A s \in 0 .. n - 1 : s \in 0 .. n /\ s \in Nodes
    BY <1>1, <1>2
  <2>2. QED BY <2>1
<1>4. Max(S) \in S
  BY <1>3, MaxOf
<1>5. QED BY <1>3, <1>4

\* Another node that is mapped, or none, becomes the current one.
LEMMA CurKeeps ==
  ASSUME NEW p, Counted(p), NEW k \in Nodes \cup {-1}, k = -1 \/ Valid(p, k),
         NEW q, q = [p EXCEPT !.cur = k]
  PROVE  Counted(q) /\ Same(p, q) /\ CurMapped(q) /\ q.cur = k /\ q.node = p.node
<1>1. q \in Pools /\ q.node = p.node /\ q.cur = k /\ q.mapped = p.mapped /\ q.free = p.free
  BY Counts DEF Pools
<1>2. QED BY <1>1, Kept DEF CurMapped, Valid

\* _shm_try_to_move_backward_node.
LEMMA BackwardKeeps ==
  ASSUME NEW p, Counted(p), CurMapped(p), NEW q, q = _shm_try_to_move_backward_node(p)
  PROVE  Counted(q) /\ Same(p, q) /\ CurMapped(q) /\ q.node = p.node
<1> DEFINE lower == {i \in 0 .. p.cur - 1 : Valid(p, i) /\ HalfFree(p, i)}
<1>1. CASE lower # {} /\ ~HalfFree(p, p.cur)
  <2>1. q = [p EXCEPT !.cur = Max(lower)]
    BY <1>1 DEF _shm_try_to_move_backward_node
  <2>2. p.cur \in Nodes \cup {-1} /\ lower \in SUBSET (0 .. p.cur - 1) /\ lower # {}
    BY <1>1, Counts
  <2>3. Max(lower) \in lower /\ Max(lower) \in Nodes
    <3> HIDE DEF lower
    <3>1. QED BY <2>2, LastBelow
  <2>4. Valid(p, Max(lower))
    BY <2>3
  <2> HIDE DEF lower
  <2>5. PICK k \in Nodes \cup {-1} : k = Max(lower) /\ Valid(p, k)
    BY <2>3, <2>4
  <2>6. QED BY <2>1, <2>5, CurKeeps
<1>2. CASE ~(lower # {} /\ ~HalfFree(p, p.cur))
  <2>1. q = p
    BY <1>2 DEF _shm_try_to_move_backward_node
  <2>2. QED BY <2>1 DEF Same
<1>3. QED BY <1>1, <1>2

\* A node that is released has no object in it.
LEMMA ReleaseKeeps ==
  ASSUME NEW p, Counted(p), NEW n \in Nodes, FullyFree(p, n), NEW q, q = Release(p, n)
  PROVE  /\ Counted(q) /\ Same(p, q) /\ q.cur = p.cur
         /\ \A k \in Nodes : k # n => q.node[k] = p.node[k]
<1>1. NodeSize(n) \in Nat \ {0} /\ Sound(p.node[n], NodeSize(n)) /\ p \in Pools
      /\ p.mapped \in Nat /\ p.free \in Nat /\ p.node \in [Nodes -> NodeRec]
  BY Counts, Limits
<1>2. AllZero(p.node[n])
  BY <1>1, FullyFreeZero DEF FullyFree, FreeItems, Size
<1>3. PICK x : x = Unmapped
  OBVIOUS
<1>4. Sound(x, NodeSize(n)) /\ AllZero(x) /\ Len(x.items) = 0 /\ Len(x.free) = 0
  BY <1>1, <1>3, UnmappedSound
<1>5. x \in NodeRec
  BY <1>4 DEF Sound
<1>6. PICK s \in Nat : s = Size(p, n) /\ s = FreeItems(p, n)
  BY Counts DEF FullyFree
<1>7. /\ q \in Pools /\ q.cur = p.cur /\ q.node = [p.node EXCEPT ![n] = x]
      /\ q.mapped = p.mapped - s /\ q.free = p.free - s
  <2>1. p.mapped - s \in Int /\ p.free - s \in Int
    BY <1>1
  <2>2. q = [p EXCEPT !.node[n] = x, !.mapped = p.mapped - s, !.free = p.free - s]
    BY <1>1, <1>3, <1>6 DEF Release, Pools
  <2>3. QED BY <1>1, <1>5, <2>1, <2>2 DEF Pools
<1>8. Replaces(p, q, n, x) /\ Used(q) = Used(p)
  BY <1>1, <1>4, <1>6, <1>7 DEF Replaces, Used
<1>9. q \in Pools /\ Sound(x, NodeSize(n)) /\ AllZero(x) /\ Replaces(p, q, n, x)
  BY <1>4, <1>7, <1>8, Zenon
<1>10. Counted(q)
  BY <1>9, ReplaceCounts, Zenon
<1>11. Live(q) = Live(p)
  BY <1>2, <1>9, ReplaceLive, Zenon
<1>12. QED BY <1>1, <1>7, <1>8, <1>10, <1>11 DEF Same

\* After the current node was released.
LEMMA NewCurrentKeeps ==
  ASSUME NEW p, Counted(p), NEW n \in Nodes, NEW env \in Envs, NEW q, q = NewCurrent(p, n, env)
  PROVE  Counted(q) /\ Same(p, q) /\ CurMapped(q)
<1> DEFINE below == {i \in 0 .. n - 1 : Valid(p, i)}
<1>1. CASE below # {}
  <2>1. q = [p EXCEPT !.cur = Max(below)]
    BY <1>1 DEF NewCurrent
  <2>2. below \in SUBSET (0 .. n - 1)
    OBVIOUS
  <2>3. Max(below) \in below /\ Max(below) \in Nodes
    <3> HIDE DEF below
    <3>1. n \in Nodes \cup {-1}
      OBVIOUS
    <3>2. QED BY <1>1, <2>2, <3>1, LastBelow
  <2>4. Valid(p, Max(below))
    BY <2>3
  <2> HIDE DEF below
  <2>5. PICK k \in Nodes \cup {-1} : k = Max(below) /\ Valid(p, k)
    BY <2>3, <2>4
  <2>6. QED BY <2>1, <2>5, CurKeeps
<1>2. CASE below = {}
  <2>1. PICK r : r = _shm_try_to_map_node(p, 0, env)
    OBVIOUS
  <2>2. 0 \in 0 .. NodeCount
    BY Limits
  <2>3. /\ r.ok \in BOOLEAN /\ Counted(r.pool) /\ Same(p, r.pool) /\ (r.ok => CurFree(r.pool))
    BY <2>1, <2>2, MapKeeps, Zenon
  <2>4. CASE r.ok
    <3>1. q = r.pool
      BY <1>2, <2>1, <2>4 DEF NewCurrent
    <3>2. QED BY <2>3, <2>4, <3>1 DEF CurFree, CurMapped
  <2>5. CASE ~r.ok
    <3>1. q = [r.pool EXCEPT !.cur = -1]
      BY <1>2, <2>1, <2>5 DEF NewCurrent
    <3>2. -1 \in Nodes \cup {-1}
      OBVIOUS
    <3>3. Counted(q) /\ Same(r.pool, q) /\ CurMapped(q)
      BY <2>3, <3>1, <3>2, CurKeeps
    <3>4. QED BY <2>3, <3>3 DEF Same
  <2>6. QED BY <2>4, <2>5
<1>3. QED BY <1>1, <1>2

\* _shm_try_to_unmap_node.
LEMMA UnmapKeeps ==
  ASSUME NEW p, Counted(p), CurMapped(p), NEW n \in Nodes, NEW env \in Envs,
         NEW r, r = _shm_try_to_unmap_node(p, n, env)
  PROVE  Counted(r) /\ Same(p, r) /\ CurMapped(r)
<1>1. PICK q : q = _shm_try_to_move_backward_node(p)
  OBVIOUS
<1>2. Counted(q) /\ Same(p, q) /\ CurMapped(q)
  BY <1>1, BackwardKeeps
<1>3. CASE r = q
  BY <1>2, <1>3
<1>4. CASE FullyFree(q, n) /\ n # q.cur /\ r = Release(q, n)
  <2>1. Counted(r) /\ Same(q, r) /\ r.cur = q.cur /\ \A k \in Nodes : k # n => r.node[k] = q.node[k]
    BY <1>2, <1>4, ReleaseKeeps
  <2>2. q.cur \in Nodes \cup {-1}
    BY <1>2, Counts
  <2>3. QED BY <1>2, <1>4, <2>1, <2>2 DEF Same, CurMapped, Valid
<1>5. CASE FullyFree(q, n) /\ r = NewCurrent(Release(q, n), n, env)
  <2>1. PICK s : s = Release(q, n)
    OBVIOUS
  <2>2. Counted(s) /\ Same(q, s)
    BY <1>2, <1>5, <2>1, ReleaseKeeps
  <2>3. Counted(r) /\ Same(s, r) /\ CurMapped(r)
    BY <1>5, <2>1, <2>2, NewCurrentKeeps
  <2>4. QED BY <1>2, <2>2, <2>3 DEF Same
<1>6. \/ r = q
      \/ FullyFree(q, n) /\ n # q.cur /\ r = Release(q, n)
      \/ FullyFree(q, n) /\ r = NewCurrent(Release(q, n), n, env)
  BY <1>1, Zenon DEF _shm_try_to_unmap_node
<1>7. QED BY <1>3, <1>4, <1>5, <1>6, Zenon

---------------------------------------------------------------------------
(* The operations *)

\* What alloc_x does before it takes an item.
LEMMA ReadyKeeps ==
  ASSUME NEW p, Counted(p), CurMapped(p), NEW env \in Envs, NEW r, r = Ready(p, env)
  PROVE  /\ r.ok \in BOOLEAN /\ Counted(r.pool) /\ Same(p, r.pool) /\ CurMapped(r.pool)
         /\ r.ok => CurFree(r.pool) /\ (Total >= 0 => Used(p) < Total)
<1>1. PICK first : first = IF p.cur = -1 THEN _shm_try_to_map_node(p, 0, env) ELSE Done(p)
  OBVIOUS
<1>2. PICK q : q = first.pool
  OBVIOUS
<1>3. /\ first.ok \in BOOLEAN /\ Counted(q) /\ Same(p, q)
      /\ CurMapped(q) /\ (first.ok => q.cur \in Nodes /\ Valid(q, q.cur))
  <2>1. CASE p.cur = -1
    <3>1. first = _shm_try_to_map_node(p, 0, env)
      BY <1>1, <2>1
    <3>2. 0 \in 0 .. NodeCount
      BY Limits
    <3>3. /\ first.ok \in BOOLEAN /\ Counted(q) /\ Same(p, q) /\ (first.ok => CurFree(q))
          /\ (~first.ok => q.node = p.node /\ q.cur = p.cur)
      BY <1>2, <3>1, <3>2, MapKeeps, Zenon
    <3>4. QED BY <2>1, <3>3 DEF CurFree, CurMapped
  <2>2. CASE p.cur # -1
    <3>1. first = Done(p)
      BY <1>1, <2>2
    <3>2. first.ok = TRUE /\ q = p
      BY <1>2, <3>1 DEF Done
    <3>3. p.cur \in Nodes
      BY <2>2, Counts
    <3>4. QED BY <2>2, <3>2, <3>3 DEF CurMapped, Same
  <2>3. QED BY <2>1, <2>2
<1>4. CASE ~first.ok \/ ~Valid(q, q.cur) \/ (Total >= 0 /\ Used(q) >= Total)
  <2>1. r = Failed(q)
    BY <1>1, <1>2, <1>4 DEF Ready
  <2>2. r.ok = FALSE /\ r.pool = q
    BY <2>1 DEF Failed
  <2>3. QED BY <1>3, <2>2
<1>5. CASE ~(~first.ok \/ ~Valid(q, q.cur) \/ (Total >= 0 /\ Used(q) >= Total))
  <2>1. r = IF q.node[q.cur].free = <<>> THEN _shm_try_to_map_node(q, q.cur + 1, env) ELSE Done(q)
    BY <1>1, <1>2, <1>5 DEF Ready
  <2>2. q.cur \in Nodes /\ Valid(q, q.cur) /\ Used(q) = Used(p)
    BY <1>3, <1>5 DEF Same
  <2>3. Total >= 0 => Used(p) < Total
    <3>1. Total \in Int /\ Used(q) \in Int
      <4>1. q.mapped \in Nat /\ q.free \in Nat
        BY <1>3, Counts
      <4>2. QED BY <4>1, Limits DEF Used
    <3>2. QED BY <1>5, <2>2, <3>1
  <2>4. CASE q.node[q.cur].free = <<>>
    <3>1. PICK k \in 0 .. NodeCount : k = q.cur + 1
      BY <2>2, Limits
    <3>2. r = _shm_try_to_map_node(q, k, env)
      BY <2>1, <2>4, <3>1
    <3>3. /\ r.ok \in BOOLEAN /\ Counted(r.pool) /\ Same(q, r.pool) /\ (r.ok => CurFree(r.pool))
          /\ (~r.ok => r.pool.node = q.node /\ r.pool.cur = q.cur)
      BY <1>3, <3>2, MapKeeps, Zenon
    <3>4. CurMapped(r.pool)
      BY <1>3, <3>3 DEF CurFree, CurMapped, Valid
    <3>5. QED BY <1>3, <2>3, <3>3, <3>4 DEF Same
  <2>5. CASE q.node[q.cur].free # <<>>
    <3>1. r.ok = TRUE /\ r.pool = q
      BY <2>1, <2>5 DEF Done
    <3>2. QED BY <1>3, <2>2, <2>3, <2>5, <3>1 DEF CurFree
  <2>6. QED BY <2>4, <2>5
<1>6. QED BY <1>4, <1>5

\* x takes the place of node n, which is mapped, and differs at item i only.
Alters(p, q, n, x, i) ==
  /\ Counted(p) /\ Sound(x, NodeSize(n)) /\ q \in Pools /\ Replaces(p, q, n, x)
  /\ i \in 1 .. NodeSize(n) /\ Valid(p, n) /\ x.items # <<>>
  /\ \A j \in 1 .. NodeSize(n) : j # i => x.items[j] = p.node[n].items[j]

\* What that does to a mid.
Alike(p, q, n, x, i, m) ==
  IF m.node = n /\ m.item = i
    THEN /\ m \in Live(p) <=> p.node[n].items[i] = m.serial
         /\ m \in Live(q) <=> x.items[i] = m.serial
    ELSE m \in Live(q) <=> m \in Live(p)

\* The other mids lead where they led.
LEMMA ItemChanges ==
  ASSUME NEW p, NEW q, NEW n \in Nodes, NEW x, NEW i, Alters(p, q, n, x, i), NEW m \in Mids
  PROVE  Alike(p, q, n, x, i, m)
<1>0. /\ Counted(p) /\ Sound(x, NodeSize(n)) /\ q \in Pools /\ Replaces(p, q, n, x)
      /\ i \in 1 .. NodeSize(n) /\ Valid(p, n) /\ x.items # <<>>
      /\ \A j \in 1 .. NodeSize(n) : j # i => x.items[j] = p.node[n].items[j]
  BY DEF Alters
<1>1. /\ q.node[n] = x /\ \A k \in Nodes : k # n => q.node[k] = p.node[k]
  BY <1>0, ReplaceCounts
<1>2. m.node \in Nodes /\ m.item \in 1 .. NodeSize(m.node)
  BY Limits
<1>3. CASE m.node = n /\ m.item = i
  BY <1>0, <1>1, <1>3 DEF Live, Valid, Alike
<1>4. CASE m.node = n /\ m.item # i
  <2>1. x.items[m.item] = p.node[n].items[m.item]
    BY <1>0, <1>2, <1>4
  <2>2. QED BY <1>0, <1>1, <1>4, <2>1 DEF Live, Valid, Alike
<1>5. CASE m.node # n
  <2>1. q.node[m.node] = p.node[m.node]
    BY <1>1, <1>2, <1>5
  <2>2. QED BY <1>0, <1>5, <2>1 DEF Live, Valid, Alike
<1>6. QED BY <1>3, <1>4, <1>5 DEF Alike

\* One element of a sequence changes.
LEMMA OneChanges ==
  ASSUME NEW T, NEW s \in Seq(T), NEW i \in 1 .. Len(s), NEW v \in T,
         NEW t, t = [s EXCEPT ![i] = v]
  PROVE  /\ t \in Seq(T) /\ Len(t) = Len(s) /\ t[i] = v
         /\ \A j \in 1 .. Len(s) : j # i => t[j] = s[j]
OBVIOUS

\* A mid is its three numbers.
LEMMA MidEquals ==
  ASSUME NEW m \in Mids, NEW k, NEW i, NEW s
  PROVE  m = [node |-> k, item |-> i, serial |-> s] <=> m.node = k /\ m.item = i /\ m.serial = s
<1>1. m \in [node : Nodes, item : 1 .. NodeSize(NodeCount - 1), serial : 1 .. SerialMax]
  BY DEF Mids
<1>2. QED BY <1>1

\* The same for two mids.
LEMMA SameMid ==
  ASSUME NEW m \in Mids, NEW w \in Mids, m.node = w.node, m.item = w.item, m.serial = w.serial
  PROVE  m = w
<1>1. /\ m \in [node : Nodes, item : 1 .. NodeSize(NodeCount - 1), serial : 1 .. SerialMax]
      /\ w \in [node : Nodes, item : 1 .. NodeSize(NodeCount - 1), serial : 1 .. SerialMax]
  BY DEF Mids
<1>2. QED BY <1>1

\* The item that is taken had no mid, and has one then.
LEMMA TakeKeeps ==
  ASSUME NEW p, Counted(p), CurFree(p), NEW t, t = Take(p)
  PROVE  /\ Counted(t.pool) /\ CurMapped(t.pool) /\ Used(t.pool) = Used(p) + 1
         /\ t.mid \in Mids \ Live(p) /\ Live(t.pool) = Live(p) \cup {t.mid}
<1>1. PICK k \in Nodes, size \in Nat \ {0} : k = p.cur /\ size = NodeSize(k)
  BY Limits DEF CurFree
<1>2. PICK n \in NodeRec : n = p.node[k] /\ Sound(n, size) /\ n.items # <<>> /\ n.free # <<>>
  BY <1>1, Counts DEF CurFree, Valid
<1>3. PICK items \in Seq(0 .. SerialMax), frees \in Seq(Nat) : items = n.items /\ frees = n.free
  BY DEF NodeRec
<1>4. Len(items) = size /\ frees # <<>> /\ IsInjective(frees) /\ ToSet(frees) = {i \in 1 .. size : items[i] = 0}
  BY <1>2, <1>3, NodeFacts DEF Sound
<1>5. PICK item \in Nat, rest \in Seq(Nat) :
        /\ item = Head(frees) /\ rest = Tail(frees) /\ item \in ToSet(frees)
        /\ ToSet(rest) = ToSet(frees) \ {item} /\ IsInjective(rest)
  BY <1>4, TailElements
<1>6. item \in 1 .. size /\ items[item] = 0
  BY <1>4, <1>5
<1>7. PICK serial \in 0 .. SerialMax : serial = NextSerial(n.serial) /\ serial \in 1 .. SerialMax
  <2>1. n.serial \in 0 .. SerialMax /\ SerialMax \in Nat \ {0}
    BY Limits DEF NodeRec
  <2>2. NextSerial(n.serial) \in 1 .. SerialMax /\ NextSerial(n.serial) \in 0 .. SerialMax
    BY <2>1 DEF NextSerial
  <2>3. QED BY <2>2
<1>8. PICK given \in Seq(0 .. SerialMax) :
        /\ given = [items EXCEPT ![item] = serial] /\ Len(given) = size /\ given[item] = serial
        /\ \A j \in 1 .. size : j # item => given[j] = items[j]
  <2> DEFINE g == [items EXCEPT ![item] = serial]
  <2>1. item \in 1 .. Len(items)
    BY <1>4, <1>6
  <2>2. /\ g \in Seq(0 .. SerialMax) /\ Len(g) = Len(items) /\ g[item] = serial
        /\ \A j \in 1 .. Len(items) : j # item => g[j] = items[j]
    BY <2>1, OneChanges
  <2> HIDE DEF g
  <2>3. QED BY <1>4, <2>2 DEF g
<1>9. PICK x \in NodeRec : x = [items |-> given, free |-> rest, serial |-> serial]
  BY DEF NodeRec
<1>10. Sound(x, size)
  <2>1. ASSUME NEW i \in 1 .. size PROVE i \in ToSet(rest) <=> given[i] = 0
    <3>1. serial # 0
      BY <1>7, Limits
    <3>2. CASE i = item
      BY <1>5, <1>8, <3>1, <3>2
    <3>3. CASE i # item
      BY <1>4, <1>5, <1>8, <3>3
    <3>4. QED BY <3>2, <3>3
  <2>2. ToSet(rest) = {i \in 1 .. size : given[i] = 0}
    BY <1>4, <1>5, <2>1
  <2>3. QED BY <1>5, <1>8, <1>9, <2>2 DEF Sound
<1>11. PICK q, mid : q = t.pool /\ mid = t.mid
  OBVIOUS
<1>12. mid = [node |-> k, item |-> item, serial |-> serial]
  BY <1>1, <1>2, <1>3, <1>5, <1>7, <1>11 DEF Take
<1>13. mid \in Mids
  BY <1>1, <1>6, <1>7, <1>12, MidOf
<1>14. q \in Pools /\ q.cur = k /\ q.node = [p.node EXCEPT ![k] = x] /\ q.mapped = p.mapped /\ q.free = p.free - 1
  <2>1. p \in Pools /\ p.free \in Nat /\ p.node \in [Nodes -> NodeRec] /\ p.free - 1 \in Int
    BY Counts
  <2>2. q = [p EXCEPT !.node[k] = x, !.free = @ - 1]
    BY <1>1, <1>2, <1>3, <1>5, <1>7, <1>8, <1>9, <1>11 DEF Take
  <2>3. QED BY <1>1, <2>1, <2>2 DEF Pools
<1>15. Replaces(p, q, k, x) /\ Used(q) = Used(p) + 1
  <2>1. p.mapped \in Nat /\ p.free \in Nat
    BY Counts
  <2>2. Len(x.items) = Size(p, k) /\ Size(p, k) \in Nat
    BY <1>2, <1>3, <1>4, <1>8, <1>9 DEF Size
  <2>3. Len(x.free) = FreeItems(p, k) - 1 /\ FreeItems(p, k) \in Nat
    <3>1. Len(rest) = Len(frees) - 1 /\ Len(frees) \in Nat
      BY <1>4, <1>5
    <3>2. QED BY <1>2, <1>3, <1>9, <3>1 DEF FreeItems
  <2>4. Len(x.free) - FreeItems(p, k) = -1 /\ Len(x.items) - Size(p, k) = 0
    BY <2>2, <2>3
  <2>5. Replaces(p, q, k, x)
    <3>1. p.mapped = p.mapped + 0 /\ p.free - 1 = p.free + (-1)
      BY <2>1
    <3>2. QED BY <1>14, <2>4, <3>1, Zenon DEF Replaces
  <2>6. Used(q) = Used(p) + 1
    <3>1. p.mapped - (p.free - 1) = (p.mapped - p.free) + 1
      BY <2>1
    <3>2. QED BY <1>14, <3>1, Zenon DEF Used
  <2>7. QED BY <2>5, <2>6
<1>16. Counted(q) /\ q.node[k] = x
  <2>1. Counted(q)
    BY <1>1, <1>10, <1>14, <1>15, ReplaceCounts
  <2>2. QED BY <1>14, <2>1, Counts
<1>17. CurMapped(q)
  <2>1. given # <<>>
    BY <1>8
  <2>2. QED BY <1>9, <1>14, <1>16, <2>1 DEF CurMapped, Valid
<1>18. ASSUME NEW m \in Mids
       PROVE  m \in Live(q) <=> m \in Live(p) \/ m = mid
  <2>1. /\ item \in 1 .. NodeSize(k) /\ Valid(p, k) /\ x.items # <<>>
        /\ \A j \in 1 .. NodeSize(k) : j # item => x.items[j] = p.node[k].items[j]
        /\ p.node[k].items[item] = 0 /\ x.items[item] = serial /\ Sound(x, NodeSize(k))
    BY <1>1, <1>2, <1>3, <1>6, <1>8, <1>9, <1>10 DEF Valid
  <2>2. IF m.node = k /\ m.item = item
          THEN (m \in Live(p) <=> 0 = m.serial) /\ (m \in Live(q) <=> serial = m.serial)
          ELSE m \in Live(q) <=> m \in Live(p)
    <3>1. Alters(p, q, k, x, item)
      BY <1>14, <1>15, <2>1 DEF Alters
    <3>2. Alike(p, q, k, x, item, m)
      BY <3>1, ItemChanges, Zenon
    <3>3. QED BY <2>1, <3>2 DEF Alike
  <2>3. m = mid <=> m.node = k /\ m.item = item /\ m.serial = serial
    <3>1. m = [node |-> k, item |-> item, serial |-> serial]
            <=> m.node = k /\ m.item = item /\ m.serial = serial
      BY MidEquals, Zenon
    <3>2. QED BY <1>12, <3>1, Zenon
  <2>4. m.serial # 0
    BY Limits
  <2>5. QED BY <2>2, <2>3, <2>4
<1>19. mid \notin Live(p)
  <2>1. p.node[k].items[item] = 0 /\ mid.node = k /\ mid.item = item /\ mid.serial # 0
    BY <1>2, <1>3, <1>6, <1>7, <1>12, Limits
  <2>2. QED BY <2>1 DEF Live
<1>20. QED BY <1>11, <1>13, <1>15, <1>16, <1>17, <1>18, <1>19 DEF Live

\* The item that is freed loses its mid.
LEMMA FreedKeeps ==
  ASSUME NEW p, Counted(p), CurMapped(p), NEW mid \in Live(p), NEW q, q = Freed(p, mid)
  PROVE  /\ Counted(q) /\ CurMapped(q) /\ Used(q) = Used(p) - 1
         /\ Live(q) = Live(p) \ {mid}
<1>0. PICK k \in Nodes, size \in Nat \ {0} : k = mid.node /\ size = NodeSize(k)
  BY Limits DEF Live
<1>1. PICK item \in 1 .. size :
        /\ k = mid.node /\ size = NodeSize(k) /\ item = mid.item
        /\ mid \in Mids /\ Valid(p, k) /\ p.node[k].items[item] = mid.serial /\ mid.serial # 0
  BY <1>0, Limits DEF Live
<1>2. PICK n \in NodeRec : n = p.node[k] /\ Sound(n, size) /\ n.items # <<>>
  BY <1>1, Counts DEF Valid
<1>3. PICK items \in Seq(0 .. SerialMax), frees \in Seq(Nat), serial \in 0 .. SerialMax :
        items = n.items /\ frees = n.free /\ serial = n.serial
  BY DEF NodeRec
<1>4. Len(items) = size /\ IsInjective(frees) /\ ToSet(frees) = {i \in 1 .. size : items[i] = 0}
  BY <1>2, <1>3, NodeFacts DEF Sound
<1>5. item \in Nat /\ items[item] # 0 /\ item \notin ToSet(frees)
  BY <1>1, <1>2, <1>3, <1>4
<1>6. PICK more \in Seq(Nat) :
        /\ more = <<item>> \o frees /\ Len(more) = Len(frees) + 1 /\ IsInjective(more)
        /\ ToSet(more) = ToSet(frees) \cup {item}
  <2> DEFINE g == <<item>> \o frees
  <2>1. Len(g) = Len(frees) + 1
    BY <1>5
  <2>2. g \in Seq(Nat) /\ ToSet(g) = ToSet(frees) \cup {item} /\ IsInjective(g)
    BY <1>4, <1>5, AddedElements
  <2> HIDE DEF g
  <2>3. QED BY <2>1, <2>2 DEF g
<1>7. PICK given \in Seq(0 .. SerialMax) :
        /\ given = [items EXCEPT ![item] = 0] /\ Len(given) = size /\ given[item] = 0
        /\ \A j \in 1 .. size : j # item => given[j] = items[j]
  <2> DEFINE g == [items EXCEPT ![item] = 0]
  <2>1. item \in 1 .. Len(items) /\ 0 \in 0 .. SerialMax
    BY <1>4, Limits
  <2>2. /\ g \in Seq(0 .. SerialMax) /\ Len(g) = Len(items) /\ g[item] = 0
        /\ \A j \in 1 .. Len(items) : j # item => g[j] = items[j]
    BY <2>1, OneChanges
  <2> HIDE DEF g
  <2>3. QED BY <1>4, <2>2 DEF g
<1>8. PICK x \in NodeRec : x = [items |-> given, free |-> more, serial |-> serial]
  BY DEF NodeRec
<1>9. Sound(x, size)
  <2>1. ASSUME NEW i \in 1 .. size PROVE i \in ToSet(more) <=> given[i] = 0
    <3>1. CASE i = item
      BY <1>6, <1>7, <3>1
    <3>2. CASE i # item
      BY <1>4, <1>6, <1>7, <3>2
    <3>3. QED BY <3>1, <3>2
  <2>2. ToSet(more) = {i \in 1 .. size : given[i] = 0}
    BY <1>4, <1>6, <2>1
  <2>3. QED BY <1>6, <1>7, <1>8, <2>2 DEF Sound
<1>10. q \in Pools /\ q.cur = p.cur /\ q.node = [p.node EXCEPT ![k] = x] /\ q.mapped = p.mapped /\ q.free = p.free + 1
  <2>1. p \in Pools /\ p.free \in Nat /\ p.node \in [Nodes -> NodeRec] /\ p.free + 1 \in Int
    BY Counts
  <2>2. q = [p EXCEPT !.node[k] = x, !.free = @ + 1]
    BY <1>1, <1>2, <1>3, <1>6, <1>7, <1>8 DEF Freed
  <2>3. QED BY <2>1, <2>2 DEF Pools
<1>11. Replaces(p, q, k, x) /\ Used(q) = Used(p) - 1
  <2>1. p.mapped \in Nat /\ p.free \in Nat
    BY Counts
  <2>2. Len(x.items) = Size(p, k) /\ Size(p, k) \in Nat
    BY <1>2, <1>3, <1>4, <1>7, <1>8 DEF Size
  <2>3. Len(x.free) = FreeItems(p, k) + 1 /\ FreeItems(p, k) \in Nat
    BY <1>2, <1>3, <1>6, <1>8 DEF FreeItems
  <2>4. Len(x.free) - FreeItems(p, k) = 1 /\ Len(x.items) - Size(p, k) = 0
    BY <2>2, <2>3
  <2>5. Replaces(p, q, k, x)
    <3>1. p.mapped = p.mapped + 0
      BY <2>1
    <3>2. QED BY <1>10, <2>4, <3>1, Zenon DEF Replaces
  <2>6. Used(q) = Used(p) - 1
    <3>1. p.mapped - (p.free + 1) = (p.mapped - p.free) - 1
      BY <2>1
    <3>2. QED BY <1>10, <3>1, Zenon DEF Used
  <2>7. QED BY <2>5, <2>6
<1>12. Counted(q) /\ q.node[k] = x /\ \A j \in Nodes : j # k => q.node[j] = p.node[j]
  <2>1. Counted(q)
    BY <1>1, <1>9, <1>10, <1>11, ReplaceCounts
  <2>2. QED BY <1>10, <2>1, Counts
<1>13. CurMapped(q)
  <2>1. given # <<>> /\ p.cur \in Nodes \cup {-1}
    BY <1>7, Counts
  <2>2. QED BY <1>8, <1>10, <1>12, <2>1 DEF CurMapped, Valid
<1>14. ASSUME NEW m \in Mids
       PROVE  m \in Live(q) <=> m \in Live(p) /\ m # mid
  <2>1. /\ item \in 1 .. NodeSize(k) /\ Valid(p, k) /\ x.items # <<>>
        /\ \A j \in 1 .. NodeSize(k) : j # item => x.items[j] = p.node[k].items[j]
        /\ p.node[k].items[item] = mid.serial /\ x.items[item] = 0 /\ Sound(x, NodeSize(k))
    BY <1>1, <1>2, <1>3, <1>7, <1>8, <1>9 DEF Valid
  <2>2. IF m.node = k /\ m.item = item
          THEN (m \in Live(p) <=> mid.serial = m.serial) /\ (m \in Live(q) <=> 0 = m.serial)
          ELSE m \in Live(q) <=> m \in Live(p)
    <3>1. Alters(p, q, k, x, item)
      BY <1>10, <1>11, <2>1 DEF Alters
    <3>2. Alike(p, q, k, x, item, m)
      BY <3>1, ItemChanges, Zenon
    <3>3. QED BY <2>1, <3>2 DEF Alike
  <2>3. m = mid <=> m.node = k /\ m.item = item /\ m.serial = mid.serial
    <3>1. mid \in Mids /\ mid.node = k /\ mid.item = item
      BY <1>1
    <3>2. QED BY <3>1, SameMid
  <2>4. m.serial # 0
    BY Limits
  <2>5. QED BY <2>2, <2>3, <2>4
<1>15. QED BY <1>1, <1>11, <1>12, <1>13, <1>14 DEF Live

---------------------------------------------------------------------------
(* The loop over the nodes *)

\* What there is to say of a pool that follows p in an operation.
Follows(p, q) == Counted(q) /\ CurMapped(q) /\ Same(p, q)

\* One turn of the loop.
LEMMA VisitKeeps ==
  ASSUME NEW p, Counted(p), CurMapped(p), NEW j \in Nodes, NEW env \in Envs
  PROVE  Follows(p, Visit(p, j, env))
<1>1. CASE j <= p.cur /\ Valid(p, j)
  <2>1. PICK r : r = _shm_try_to_unmap_node(p, j, env)
    OBVIOUS
  <2>2. Counted(r) /\ Same(p, r) /\ CurMapped(r)
    BY <2>1, UnmapKeeps
  <2>3. Visit(p, j, env) = r
    BY <1>1, <2>1 DEF Visit
  <2>4. QED BY <2>2, <2>3 DEF Follows
<1>2. CASE ~(j <= p.cur /\ Valid(p, j))
  BY <1>2 DEF Visit, Follows, Same
<1>3. QED BY <1>1, <1>2

\* The whole loop, for any number of nodes.
LEMMA SweptKeeps ==
  ASSUME Counted(pool), CurMapped(pool), NEW env \in Envs
  PROVE  Follows(pool, Swept(env)[NodeCount])
<1> DEFINE V == {p \in Pools : Follows(pool, p)}
           R == {t \in Nat \X V \X V : t[3] = Visit(t[2], t[1], env)}
           S == Swept(env)
<1>0. NodeCount \in Nat \ {0} /\ Nodes = 0 .. NodeCount - 1
  BY Limits
<1>1. pool \in V
  BY Counts DEF Follows, Same
<1>2. ASSUME NEW n \in Nodes, NEW w \in V PROVE Visit(w, n, env) \in V
  <2>1. PICK u : u = Visit(w, n, env)
    OBVIOUS
  <2>2. Counted(w) /\ CurMapped(w) /\ Same(pool, w)
    BY DEF Follows
  <2>3. Follows(w, u)
    BY <2>1, <2>2, VisitKeeps
  <2>4. u \in Pools /\ Follows(pool, u)
    BY <2>2, <2>3, Counts DEF Follows, Same
  <2>5. QED BY <2>1, <2>4
<1>3. \A n \in 0 .. NodeCount - 1 : \A w \in V : \E u \in V : <<n, w, u>> \in R
  <2>1. ASSUME NEW n \in 0 .. NodeCount - 1, NEW w \in V PROVE <<n, w, Visit(w, n, env)>> \in R
    <3>1. n \in Nat /\ Visit(w, n, env) \in V
      BY <1>0, <1>2
    <3> HIDE DEF V
    <3>2. QED BY <3>1
  <2>2. QED BY <1>0, <1>2, <2>1
<1> HIDE DEF R, V
<1>4. PICK g \in [0 .. NodeCount -> V] : Series(g, NodeCount, pool, R)
  BY <1>0, <1>1, <1>3, RecursionFromZero
<1>5. g[0] = pool /\ \A n \in 0 .. NodeCount - 1 : g[n + 1] = Visit(g[n], n, env)
  BY <1>4 DEF Series, R
<1>6. \A k \in 0 .. NodeCount : k = 0 \/ (k - 1 \in 0 .. NodeCount - 1 /\ (k - 1) + 1 = k)
  BY <1>0
<1>7. g = [k \in 0 .. NodeCount |-> IF k = 0 THEN pool ELSE Visit(g[k - 1], k - 1, env)]
  BY <1>5, <1>6
<1>8. S = [k \in 0 .. NodeCount |-> IF k = 0 THEN pool ELSE Visit(S[k - 1], k - 1, env)]
  BY <1>7 DEF Swept
<1> HIDE DEF S
<1> DEFINE T == {k \in Nat : S[k] \in V}
<1>9. 0 \in T
  BY <1>0, <1>1, <1>8
<1>10. ASSUME NEW k \in 0 .. NodeCount - 1, k \in T PROVE k + 1 \in T
  <2>1. k + 1 \in 0 .. NodeCount /\ k + 1 # 0 /\ (k + 1) - 1 = k /\ k \in Nodes
    BY <1>0
  <2>2. S[k + 1] = Visit(S[k], k, env)
    BY <1>8, <2>1
  <2>3. QED BY <1>2, <1>10, <2>1, <2>2
<1>11. NodeCount \in T
  <2>1. NodeCount \in Nat /\ NodeCount \in 0 .. NodeCount
    BY <1>0
  <2> HIDE DEF T
  <2>2. QED BY <1>9, <1>10, <2>1, SetInduction
<1>12. QED BY <1>11 DEF S, V

---------------------------------------------------------------------------
(* A pool that starts afresh *)

\* A sum of zeros.
LEMMA SumOfNone ==
  ASSUME NEW f \in [Nodes -> Nat], \A k \in Nodes : f[k] = 0
  PROVE  SumBelow(f)[NodeCount] = 0
<1>0. NodeCount \in Nat \ {0} /\ Nodes = 0 .. NodeCount - 1
  BY Limits
<1> DEFINE T == {k \in Nat : SumBelow(f)[k] = 0}
<1>1. 0 \in T
  BY SumDefined
<1>2. ASSUME NEW k \in 0 .. NodeCount - 1, k \in T PROVE k + 1 \in T
  <2>1. SumBelow(f)[k + 1] = SumBelow(f)[k] + f[k] /\ f[k] = 0 /\ SumBelow(f)[k] = 0
    BY <1>0, <1>2, SumDefined
  <2>2. QED BY <1>0, <2>1
<1>3. NodeCount \in T
  <2>1. NodeCount \in Nat /\ NodeCount \in 0 .. NodeCount
    BY <1>0
  <2> HIDE DEF T
  <2>2. QED BY <1>1, <1>2, <2>1, SetInduction
<1>4. QED BY <1>3

\* The pool before its first node is mapped.
LEMMA EmptyCounted ==
  Counted(Empty) /\ Live(Empty) = {} /\ Used(Empty) = 0 /\ ~Valid(Empty, 0)
<1>1. \A k \in Nodes : Empty.node[k] = Unmapped
  BY DEF Empty
<1>2. /\ Unmapped \in NodeRec /\ Unmapped.items = <<>> /\ Len(Unmapped.items) = 0 /\ Len(Unmapped.free) = 0
      /\ \A k \in Nodes : Sound(Unmapped, NodeSize(k))
  BY Limits, UnmappedSound DEF Sound, Unmapped
<1>3. Empty \in Pools
  <2>1. 0 \in Nodes /\ [k \in Nodes |-> Unmapped] \in [Nodes -> NodeRec]
    BY <1>2, Limits
  <2>2. QED BY <2>1 DEF Empty, Pools
<1>4. PICK f \in [Nodes -> Nat], g \in [Nodes -> Nat] :
        f = Sizes(Empty) /\ g = Frees(Empty) /\ \A k \in Nodes : f[k] = 0 /\ g[k] = 0
  <2>1. \A k \in Nodes : Size(Empty, k) = 0 /\ FreeItems(Empty, k) = 0
    BY <1>1, <1>2 DEF Size, FreeItems
  <2>2. /\ Sizes(Empty) \in [Nodes -> Nat] /\ Frees(Empty) \in [Nodes -> Nat]
        /\ \A k \in Nodes : Sizes(Empty)[k] = 0 /\ Frees(Empty)[k] = 0
    BY <2>1 DEF Sizes, Frees
  <2>3. QED BY <2>2, Zenon
<1>5. SumBelow(f)[NodeCount] = 0 /\ SumBelow(g)[NodeCount] = 0
  BY <1>4, SumOfNone
<1>6. Empty.mapped = 0 /\ Empty.free = 0
  BY DEF Empty
<1>7. Counted(Empty)
  BY <1>1, <1>2, <1>3, <1>4, <1>5, <1>6 DEF Counted
<1>8. \A k \in Nodes : ~Valid(Empty, k)
  BY <1>1, <1>2 DEF Valid
<1>9. Live(Empty) = {}
  BY <1>8, Limits DEF Live
<1>10. QED BY <1>6, <1>7, <1>8, <1>9, Limits DEF Used

\* The pool when the first node is mapped.
LEMMA FreshKeeps ==
  ASSUME NEW env \in Envs, env.creates, NEW p, p = _shm_try_to_map_node(Empty, 0, env).pool
  PROVE  Counted(p) /\ CurMapped(p) /\ Live(p) = {} /\ Used(p) = 0
<1>1. 0 \in 0 .. NodeCount /\ 0 \in Nodes /\ 0 <= 0
  BY Limits
<1>2. PICK r : r = _shm_try_to_map_node(Empty, 0, env)
  OBVIOUS
<1>3. \E j \in Nodes : 0 <= j /\ ~Valid(Empty, j)
  BY <1>1, EmptyCounted
<1>4. /\ Counted(r.pool) /\ Same(Empty, r.pool) /\ (r.ok => CurFree(r.pool))
      /\ (env.creates /\ (\E j \in Nodes : 0 <= j /\ ~Valid(Empty, j)) => r.ok)
  BY <1>1, <1>2, EmptyCounted, MapKeeps, Zenon
<1>5. QED BY <1>2, <1>3, <1>4, EmptyCounted DEF CurFree, CurMapped, Same

---------------------------------------------------------------------------
(* The invariant *)

\* The mids that were given and not freed are those whose serial is that of their item.
PoolInv ==
  /\ Counted(pool) /\ CurMapped(pool)
  /\ owned = Live(pool) /\ IsFiniteSet(owned) /\ Used(pool) = Cardinality(owned)
  /\ Total >= 0 => Used(pool) <= Total
  /\ torn \subseteq Nodes

\* Only nodes are torn.
LEMMA TornNodes ==
  ASSUME torn \subseteq Nodes, NEW p, NEW q, NEW t \in TornAfter(p, q)
  PROVE  t \subseteq Nodes
BY DEF TornAfter

\* A pool that was just made.
LEMMA InitHolds == Init => PoolInv
<1> SUFFICES ASSUME Init PROVE PoolInv
  OBVIOUS
<1>1. PICK env \in Envs : env.creates /\ pool = _shm_try_to_map_node(Empty, 0, env).pool
  BY DEF Init
<1>2. Counted(pool) /\ CurMapped(pool) /\ Live(pool) = {} /\ Used(pool) = 0
  BY <1>1, FreshKeeps
<1>3. owned = {} /\ torn = {}
  BY DEF Init
<1>4. IsFiniteSet({}) /\ Cardinality({}) = 0
  BY FS_EmptySet
<1>5. Total >= 0 => 0 <= Total
  BY Limits
<1>6. QED BY <1>2, <1>3, <1>4, <1>5 DEF PoolInv

\* alloc_x, whether it fails or not.
LEMMA AllocKeeps ==
  ASSUME PoolInv, NEW env \in Envs, alloc_x(env)
  PROVE  PoolInv'
<1>1. PICK r : r = Ready(pool, env)
  OBVIOUS
<1>2. /\ r.ok \in BOOLEAN /\ Counted(r.pool) /\ Same(pool, r.pool) /\ CurMapped(r.pool)
      /\ r.ok => CurFree(r.pool) /\ (Total >= 0 => Used(pool) < Total)
  BY <1>1, ReadyKeeps DEF PoolInv
<1>3. torn' = torn
  BY DEF alloc_x
<1>4. CASE ~r.ok
  <2>1. pool' = r.pool /\ owned' = owned
    BY <1>1, <1>4 DEF alloc_x
  <2>2. QED BY <1>2, <1>3, <2>1, Zenon DEF PoolInv, Same, Counted, CurMapped, Live, Used
<1>5. CASE r.ok
  <2>1. PICK t : t = Take(r.pool)
    OBVIOUS
  <2>2. pool' = t.pool /\ owned' = owned \cup {t.mid}
    BY <1>1, <1>5, <2>1 DEF alloc_x
  <2>3. /\ Counted(t.pool) /\ CurMapped(t.pool) /\ Used(t.pool) = Used(pool) + 1
        /\ t.mid \notin owned /\ Live(t.pool) = owned \cup {t.mid}
    BY <1>2, <1>5, <2>1, TakeKeeps DEF PoolInv, Same
  <2>4. IsFiniteSet(owned') /\ Cardinality(owned') = Cardinality(owned) + 1
    BY <2>2, <2>3, FS_AddElement DEF PoolInv
  <2>5. Used(pool) \in Int /\ Total \in Int
    <3>1. pool.mapped \in Nat /\ pool.free \in Nat
      BY Counts DEF PoolInv
    <3>2. QED BY <3>1, Limits DEF Used
  <2>6. Total >= 0 => Used(pool) + 1 <= Total
    BY <1>2, <1>5, <2>5
  <2>7. QED BY <1>3, <2>2, <2>3, <2>4, <2>6 DEF PoolInv
<1>6. QED BY <1>2, <1>4, <1>5

\* free_x, with the release of nodes that may follow.
LEMMA FreeKeeps ==
  ASSUME PoolInv, NEW env \in Envs, NEW mid \in Mids, free_x(mid, env)
  PROVE  PoolInv'
<1>1. PICK p, q : /\ p = Freed(pool, mid)
                  /\ q = [p EXCEPT !.dirty = p.dirty \/ FullyFree(p, mid.node)]
  OBVIOUS
<1>2. mid \in Live(pool) /\ mid \in owned
  BY DEF free_x, SerialMatches, Live, PoolInv
<1>3. Counted(p) /\ CurMapped(p) /\ Used(p) = Used(pool) - 1 /\ Live(p) = Live(pool) \ {mid}
  BY <1>1, <1>2, FreedKeeps DEF PoolInv
<1>4. Counted(q) /\ Same(p, q) /\ CurMapped(q)
  <2>1. p \in Pools /\ p.dirty \in BOOLEAN
    BY <1>3, Counts
  <2>2. p.dirty \/ FullyFree(p, mid.node) \in BOOLEAN
    BY <2>1 DEF FullyFree
  <2>3. /\ q \in Pools /\ q.node = p.node /\ q.cur = p.cur /\ q.mapped = p.mapped /\ q.free = p.free
    BY <1>1, <2>1, <2>2 DEF Pools
  <2>4. QED BY <1>3, <2>3, Kept DEF CurMapped, Valid
<1>5. Counted(pool') /\ CurMapped(pool') /\ Same(p, pool')
  <2>1. CASE pool' = q
    BY <1>4, <2>1 DEF Same
  <2>2. CASE pool' = _shm_try_to_unmap_node(q, mid.node, env)
    <3>1. mid.node \in Nodes
      BY Limits
    <3>2. PICK r : r = _shm_try_to_unmap_node(q, mid.node, env)
      OBVIOUS
    <3>3. Counted(r) /\ Same(q, r) /\ CurMapped(r)
      BY <1>4, <3>1, <3>2, UnmapKeeps
    <3>4. QED BY <1>4, <2>2, <3>2, <3>3 DEF Same
  <2>3. QED BY <1>1, <2>1, <2>2 DEF free_x
<1>6. owned' = owned \ {mid} /\ torn' \in TornAfter(pool, pool')
  BY DEF free_x
<1>7. IsFiniteSet(owned') /\ Cardinality(owned') = Cardinality(owned) - 1
  BY <1>2, <1>6, FS_RemoveElement DEF PoolInv
<1>8. Used(pool') = Used(pool) - 1 /\ Live(pool') = owned'
  BY <1>3, <1>5, <1>6 DEF Same, PoolInv
<1>9. Total >= 0 => Used(pool) - 1 <= Total
  <2>1. pool.mapped \in Nat /\ pool.free \in Nat
    BY Counts DEF PoolInv
  <2>2. Used(pool) \in Int
    BY <2>1 DEF Used
  <2>3. QED BY <2>2, Limits DEF PoolInv
<1>10. torn' \subseteq Nodes
  BY <1>6, TornNodes DEF PoolInv
<1>11. QED BY <1>5, <1>7, <1>8, <1>9, <1>10 DEF PoolInv

\* main_loop.
LEMMA MainLoopKeeps ==
  ASSUME PoolInv, NEW env \in Envs, main_loop(env)
  PROVE  PoolInv'
<1>1. PICK p : p = Swept(env)[NodeCount]
  OBVIOUS
<1>2. Counted(p) /\ CurMapped(p) /\ Same(pool, p)
  BY <1>1, SweptKeeps DEF Follows, PoolInv
<1>3. PICK q : q = [p EXCEPT !.dirty = FALSE]
  OBVIOUS
<1>4. pool' = q /\ owned' = owned /\ torn' \in TornAfter(pool, pool')
  BY <1>1, <1>3 DEF main_loop
<1>5. /\ q \in Pools /\ q.node = p.node /\ q.cur = p.cur /\ q.mapped = p.mapped /\ q.free = p.free
  BY <1>2, <1>3, Counts DEF Pools
<1>6. Counted(q) /\ Same(pool, q) /\ CurMapped(q)
  BY <1>2, <1>5, Kept DEF CurMapped, Valid, Same
<1>7. torn' \subseteq Nodes
  BY <1>4, TornNodes DEF PoolInv
<1>8. QED BY <1>4, <1>6, <1>7 DEF PoolInv, Same

\* The next process begins with an empty pool.
LEMMA StartKeeps ==
  ASSUME PoolInv, NEW env \in Envs, Start(env)
  PROVE  PoolInv'
<1>1. Counted(pool') /\ CurMapped(pool') /\ Live(pool') = {} /\ Used(pool') = 0
  <2>1. PICK p : p = _shm_try_to_map_node(Empty, 0, env).pool
    OBVIOUS
  <2>2. pool' = p /\ env.creates
    BY <2>1 DEF Start
  <2>3. QED BY <2>1, <2>2, FreshKeeps
<1>2. owned' = {} /\ torn' = {}
  BY DEF Start
<1>3. IsFiniteSet({}) /\ Cardinality({}) = 0
  BY FS_EmptySet
<1>4. Total >= 0 => 0 <= Total
  BY Limits
<1>5. QED BY <1>1, <1>2, <1>3, <1>4 DEF PoolInv

\* Each step keeps the invariant.
LEMMA StepKeeps == PoolInv /\ [Next]_vars => PoolInv'
<1> SUFFICES ASSUME PoolInv, [Next]_vars PROVE PoolInv'
  OBVIOUS
<1>1. ASSUME NEW env \in Envs, alloc_x(env) PROVE PoolInv'
  BY <1>1, AllocKeeps
<1>2. ASSUME NEW env \in Envs, NEW mid \in Mids, free_x(mid, env) PROVE PoolInv'
  BY <1>2, FreeKeeps
<1>3. ASSUME NEW env \in Envs, main_loop(env) PROVE PoolInv'
  BY <1>3, MainLoopKeeps
<1>4. ASSUME NEW env \in Envs, Start(env) PROVE PoolInv'
  BY <1>4, StartKeeps
<1>5. CASE Resume
  BY <1>5 DEF Resume, PoolInv
<1>6. CASE UNCHANGED vars
  BY <1>6 DEF vars, PoolInv
<1>7. QED BY <1>1, <1>2, <1>3, <1>4, <1>5, <1>6 DEF Next

\* The pool counts its items and knows its objects in every state.
THEOREM PoolHolds == Spec => []PoolInv
<1>1. QED BY InitHolds, StepKeeps, PTL DEF Spec

---------------------------------------------------------------------------
(* The properties *)

\* Every variable of the pool has its type, and no free list names what is not an item.
THEOREM TypeCorrect == Spec => []TypeOK
<1>1. PoolInv => TypeOK
  <2> SUFFICES ASSUME PoolInv PROVE TypeOK
    OBVIOUS
  <2>1. ASSUME NEW k \in Nodes, NEW n, n = pool.node[k]
        PROVE  /\ Len(n.items) \in {0, NodeSize(k)}
               /\ \A i \in 1 .. Len(n.items) : n.items[i] \in 0 .. SerialMax
               /\ ToSet(n.free) \subseteq 1 .. Len(n.items)
               /\ n.serial \in 0 .. SerialMax
    <3>1. Sound(n, NodeSize(k)) /\ NodeSize(k) \in Nat \ {0}
      BY <2>1, Counts, Limits DEF PoolInv
    <3>2. /\ \A i \in 1 .. Len(n.items) : n.items[i] \in 0 .. SerialMax
          /\ n.serial \in 0 .. SerialMax
      BY <3>1, NodeFacts
    <3>3. Len(n.items) \in {0, NodeSize(k)} /\ ToSet(n.free) \subseteq 1 .. Len(n.items)
      BY <3>1 DEF Sound
    <3>4. QED BY <3>2, <3>3
  <2>2. /\ pool.cur \in Nodes \cup {-1} /\ pool.dirty \in BOOLEAN
        /\ pool.mapped \in Nat /\ pool.free \in Nat /\ pool.real \in Nat
    BY Counts DEF PoolInv
  <2>3. owned \subseteq Mids
    BY DEF PoolInv, Live
  <2>4. torn \subseteq Nodes
    BY DEF PoolInv
  <2>5. QED BY <2>1, <2>2, <2>3, <2>4, Zenon DEF TypeOK
<1>2. QED BY <1>1, PoolHolds, PTL

\* A mid resolves while its object lives and not after, through every release and resume,
\* short of the serials coming round (shm_mgr.cpp:610 to 660).
THEOREM MidsNameThem == Spec => []MidsNameObjects
<1>1. PoolInv => MidsNameObjects
  BY DEF PoolInv, MidsNameObjects, SerialMatches, Live
<1>2. QED BY <1>1, PoolHolds, PTL

\* The counters of the pool agree with its nodes, the free lists with the items, and what is
\* used with the objects that are out, within the limit.
THEOREM PoolIsSound == Spec => []PoolSound
<1>1. PoolInv => PoolSound
  <2> SUFFICES ASSUME PoolInv PROVE PoolSound
    OBVIOUS
  <2>1. ASSUME NEW k \in Nodes, NEW n, n = pool.node[k]
        PROVE  /\ IsInjective(n.free)
               /\ ToSet(n.free) = {i \in 1 .. Len(n.items) : n.items[i] = 0}
    BY <2>1 DEF PoolInv, Counted, Sound
  <2>2. QED BY <2>1, Zenon DEF PoolSound, PoolInv, CurMapped, Counted
<1>2. QED BY <1>1, PoolHolds, PTL

\* Where the object of a mid is among all the items.
LEMMA PlaceOf ==
  ASSUME PoolInv, NEW m \in Mids, SerialMatches(m)
  PROVE  /\ ItemsBelow(m.node) \in Nat /\ m.item \in Nat \ {0} /\ m.node \in Nat
         /\ ItemsBelow(m.node) + m.item <= pool.mapped
         /\ \A k \in Nodes : m.node < k => ItemsBelow(m.node) + m.item <= ItemsBelow(k)
<1>1. /\ Sizes(pool) \in [Nodes -> Nat] /\ pool.mapped = ItemsBelow(NodeCount)
      /\ Size(pool, m.node) = NodeSize(m.node)
  BY Counts, Limits DEF PoolInv, Counted, SerialMatches, ItemsBelow
<1>2. PICK j \in Nodes, f \in [Nodes -> Nat], s \in [0 .. NodeCount -> Nat] :
        j = m.node /\ f = Sizes(pool) /\ s = SumBelow(f)
  BY <1>1, Limits, SumDefined
<1>3. PICK size \in Nat, item \in Nat \ {0} :
        size = NodeSize(j) /\ item = m.item /\ item <= size /\ f[j] = size
  <2>1. f[j] = NodeSize(j) /\ NodeSize(j) \in Nat
    BY <1>1, <1>2, Limits DEF Sizes
  <2>2. m.item \in 1 .. NodeSize(j)
    BY <1>2, Limits
  <2>3. m.item \in Nat \ {0} /\ m.item <= NodeSize(j)
    BY <2>1, <2>2
  <2>4. QED BY <2>1, <2>3, Zenon
<1>4. NodeCount \in Nat /\ Nodes = 0 .. NodeCount - 1
  BY Limits
<1>5. j \in 0 .. NodeCount /\ j + 1 \in 0 .. NodeCount /\ NodeCount \in 0 .. NodeCount
  BY <1>4
<1>6. s[j + 1] = s[j] + size
  BY <1>2, <1>3, SumDefined
<1>7. ASSUME NEW k \in 0 .. NodeCount, j < k PROVE s[j] + item <= s[k]
  <2>1. j + 1 <= k
    BY <1>4, <1>7
  <2>2. s[j + 1] <= s[k]
    BY <1>2, <1>5, <2>1, SumGrows
  <2>3. PICK a \in Nat, b \in Nat : a = s[j] /\ b = s[k] /\ a + size <= b
    BY <1>5, <1>6, <2>2
  <2>4. a + item <= b
    BY <1>3, <2>3
  <2>5. QED BY <2>3, <2>4
<1>8. \A k \in 0 .. NodeCount : ItemsBelow(k) = s[k]
  BY <1>2 DEF ItemsBelow
<1>9. j < NodeCount /\ \A k \in Nodes : k \in 0 .. NodeCount
  BY <1>4
<1>10. QED BY <1>1, <1>2, <1>3, <1>4, <1>5, <1>7, <1>8, <1>9

\* A walk by index meets every object, each once, and no free item (shm_mgr.cpp:784 to 813).
THEOREM IndexCovers == Spec => []IndexCoversAll
<1>1. PoolInv => IndexCoversAll
  <2> SUFFICES ASSUME PoolInv PROVE IndexCoversAll
    OBVIOUS
  <2>1. pool.mapped \in Nat
    BY Counts DEF PoolInv
  <2>2. \A m \in Mids : m \in owned <=> SerialMatches(m)
    BY DEF PoolInv, Live, SerialMatches
  <2>3. owned \subseteq Mids
    BY DEF PoolInv, Live
  <2>4. ASSUME NEW m \in owned PROVE \E i \in 0 .. pool.mapped - 1 : m \in idx2mid(i)
    <3>1. m \in Mids /\ SerialMatches(m)
      BY <2>2, <2>3
    <3>2. /\ ItemsBelow(m.node) \in Nat /\ m.item \in Nat \ {0}
          /\ ItemsBelow(m.node) + m.item <= pool.mapped
      BY <3>1, PlaceOf
    <3>3. ItemsBelow(m.node) + m.item - 1 \in 0 .. pool.mapped - 1
      BY <2>1, <3>2
    <3>4. QED BY <3>1, <3>3 DEF idx2mid
  <2>5. UNION {idx2mid(i) : i \in 0 .. pool.mapped - 1} = owned
    <3>1. \A i : idx2mid(i) \subseteq owned
      BY <2>2 DEF idx2mid
    <3>2. QED BY <2>4, <3>1
  <2>6. ASSUME NEW i \in 0 .. pool.mapped - 1, NEW m \in idx2mid(i), NEW w \in idx2mid(i)
        PROVE  m = w
    <3>1. /\ m \in Mids /\ SerialMatches(m) /\ ItemsBelow(m.node) + m.item - 1 = i
          /\ w \in Mids /\ SerialMatches(w) /\ ItemsBelow(w.node) + w.item - 1 = i
      BY DEF idx2mid
    <3>2. PICK a \in Nat, b \in Nat, c \in Nat \ {0}, d \in Nat \ {0}, k \in Nodes, l \in Nodes :
            /\ a = ItemsBelow(m.node) /\ b = ItemsBelow(w.node) /\ c = m.item /\ d = w.item
            /\ k = m.node /\ l = w.node
      BY <3>1, PlaceOf, Limits
    <3>3. (k < l => a + c <= b) /\ (l < k => b + d <= a)
      BY <3>1, <3>2, PlaceOf
    <3>4. a + c - 1 = i /\ b + d - 1 = i
      BY <3>1, <3>2
    <3>5. k \in Nat /\ l \in Nat
      BY Limits
    <3>6. k = l
      BY <3>3, <3>4, <3>5
    <3>7. c = d
      BY <3>2, <3>4, <3>6
    <3>8. m.serial = w.serial
      BY <3>1, <3>2, <3>6, <3>7 DEF SerialMatches
    <3>9. m.node = w.node /\ m.item = w.item
      BY <3>2, <3>6, <3>7, Zenon
    <3>10. m \in Mids /\ w \in Mids
      BY <3>1
    <3>11. QED BY <3>8, <3>9, <3>10, SameMid
  <2>7. ASSUME NEW i \in 0 .. pool.mapped - 1 PROVE Cardinality(idx2mid(i)) <= 1
    <3>1. CASE idx2mid(i) = {}
      BY <3>1, FS_EmptySet
    <3>2. CASE idx2mid(i) # {}
      <4>1. PICK m : m \in idx2mid(i)
        BY <3>2
      <4>2. idx2mid(i) = {m}
        BY <2>6, <4>1
      <4>3. Cardinality(idx2mid(i)) = 1
        BY <4>2, FS_Singleton, Zenon
      <4>4. QED BY <4>3
    <3>3. QED BY <3>1, <3>2
  <2>8. QED BY <2>5, <2>7 DEF IndexCoversAll
<1>2. QED BY <1>1, PoolHolds, PTL
=============================================================================
