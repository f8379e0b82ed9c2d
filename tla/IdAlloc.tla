------------------------------ MODULE IdAlloc ------------------------------
(***************************************************************************)
(* fix_id_alloc (container/fix_id_alloc.h), which numbers the connections  *)
(* of an IO thread: an array of ids whose part from _nalloc on is the      *)
(* stack of the free ones, and a flag per id.  What the array holds before *)
(* _nalloc is left over and need not be the ids in use.                    *)
(***************************************************************************)
EXTENDS Integers, FiniteSets

CONSTANTS
  N,        \* _nall, the number of ids
  BeginId,  \* _beginid, the first id
  MaxN      \* MAX_N, the largest value of the id type T

\* What init checks, and that the last id fits in T below MAX_N, which it
\* does not check; the one allocator of the program has BeginId = 0.
ASSUME IdAssumption ==
  /\ N \in Nat \ {0}
  /\ BeginId \in Nat
  /\ MaxN \in Nat
  /\ BeginId + N <= MaxN

VARIABLES
  freeids,  \* _pfreeids
  nalloc,   \* _nalloc
  flags,    \* _pflags
  got,      \* the result of the last alloc
  claimed   \* the result of the last can_used

idVars == <<freeids, nalloc, flags, got, claimed>>

Index == 0 .. N - 1

\* The ids a caller passes: any value of T.
Arg == 0 .. MaxN

\* The part of the array alloc takes from.
FreePart == nalloc .. N - 1

IdInit ==
  /\ freeids = [i \in Index |-> i]
  /\ nalloc = 0
  /\ flags = [i \in Index |-> FALSE]
  /\ got = MaxN
  /\ claimed = FALSE

---------------------------------------------------------------------------
(* Operators named X_Y are mutants of X: plausible errors, which no action *)
(* uses, that the properties at the end must be able to tell from X.       *)

\* _nalloc is counted up whether there is an id left or not.
alloc_CountsFailure ==
  /\ IF nalloc < N
       THEN /\ flags' = [flags EXCEPT ![freeids[nalloc]] = TRUE]
            /\ got' = freeids[nalloc] + BeginId
       ELSE got' = MaxN /\ UNCHANGED flags
  /\ nalloc' = nalloc + 1
  /\ UNCHANGED <<freeids, claimed>>

\* The first id of the free part, or MAX_N when there is none.
alloc ==
  /\ IF nalloc < N
       THEN /\ flags' = [flags EXCEPT ![freeids[nalloc]] = TRUE]
            /\ got' = freeids[nalloc] + BeginId
            /\ nalloc' = nalloc + 1
       ELSE got' = MaxN /\ UNCHANGED <<flags, nalloc>>
  /\ UNCHANGED <<freeids, claimed>>

\* The flag is not tested, so an id can be freed twice.
free_Twice(id) ==
  /\ IF id >= BeginId /\ id - BeginId < N /\ nalloc > 0
       THEN /\ nalloc' = nalloc - 1
            /\ freeids' = [freeids EXCEPT ![nalloc - 1] = id - BeginId]
            /\ flags' = [flags EXCEPT ![id - BeginId] = FALSE]
       ELSE UNCHANGED <<freeids, nalloc, flags>>
  /\ UNCHANGED <<got, claimed>>

\* An id out of the range or not in use is ignored.
free(id) ==
  /\ IF /\ id >= BeginId
        /\ id - BeginId < N
        /\ nalloc > 0
        /\ flags[id - BeginId]
       THEN /\ nalloc' = nalloc - 1
            /\ freeids' = [freeids EXCEPT ![nalloc - 1] = id - BeginId]
            /\ flags' = [flags EXCEPT ![id - BeginId] = FALSE]
       ELSE UNCHANGED <<freeids, nalloc, flags>>
  /\ UNCHANGED <<got, claimed>>

\* The entry std::find stops at: the first one of the free part that holds
\* index i (the search runs to the last entry, whose value is tested too).
FoundAt(i, pos) ==
  /\ pos \in FreePart
  /\ freeids[pos] = i
  /\ \A k \in nalloc .. pos - 1 : freeids[k] # i

\* The entry is not exchanged.
TakeAt_NoSwap(i, pos) ==
  /\ nalloc' = nalloc + 1
  /\ flags' = [flags EXCEPT ![i] = TRUE]
  /\ claimed' = TRUE
  /\ UNCHANGED freeids

\* Exchange the entry pos with the first of the free part, and take it.
TakeAt(i, pos) ==
  /\ freeids' = [freeids EXCEPT ![nalloc] = freeids[pos], ![pos] = freeids[nalloc]]
  /\ nalloc' = nalloc + 1
  /\ flags' = [flags EXCEPT ![i] = TRUE]
  /\ claimed' = TRUE

\* The id is out of the range, or not found.
Refuse == claimed' = FALSE /\ UNCHANGED <<freeids, nalloc, flags>>

\* The test for a full allocator is not needed for its own sake: the free
\* part is then empty.
can_used(id) ==
  /\ IF ~(id >= BeginId /\ id - BeginId < N)
       THEN Refuse
       ELSE LET i == id - BeginId
            IN IF flags[i] THEN claimed' = TRUE /\ UNCHANGED <<freeids, nalloc, flags>>
               ELSE IF \E pos \in FreePart : FoundAt(i, pos)
                 THEN \E pos \in FreePart : FoundAt(i, pos) /\ TakeAt(i, pos)
                 ELSE Refuse
  /\ UNCHANGED got

IdNext == alloc \/ (\E id \in Arg : free(id) \/ can_used(id))

IdSpec == IdInit /\ [][IdNext]_idVars

---------------------------------------------------------------------------
(* Properties *)

IdTypeOK ==
  /\ freeids \in [Index -> Index]
  /\ nalloc \in 0 .. N
  /\ flags \in [Index -> BOOLEAN]
  /\ got \in Arg
  /\ claimed \in BOOLEAN

Unflagged == {i \in Index : ~flags[i]}

\* The two assertions of to_string: nothing on the free stack is in use, and
\* there are as many entries on it as ids not in use.  An id freed twice, or
\* claimed by can_used and left on the stack, would break them, and the next
\* alloc would give the id of a live connection to a second one.
FreeListSound ==
  /\ \A pos \in FreePart : ~flags[freeids[pos]]
  /\ Cardinality(Unflagged) = N - nalloc

\* The allocator as the set of the ids it has given out.
Held == {id \in BeginId .. BeginId + N - 1 : flags[id - BeginId]}

Abstract == INSTANCE IdSet WITH
  Ids <- BeginId .. BeginId + N - 1, Args <- Arg, NoId <- MaxN,
  used <- Held, got <- got, claimed <- claimed

\* alloc never returns an id in use and fails only when all are; free and
\* can_used do to the set what their names say.
AllocatesIds == Abstract!Spec

=============================================================================
