------------------------------- MODULE IdSet -------------------------------
(***************************************************************************)
(* What an id allocator (container/fix_id_alloc.h) promises: alloc returns *)
(* an id nobody holds whenever there is one, an id is held until it is     *)
(* freed, can_used claims any id of the range.  IdAlloc implements it.     *)
(***************************************************************************)
CONSTANTS
  Ids,      \* the ids of the range
  Args,     \* the values a caller may pass as an id
  NoId      \* what alloc returns when every id is held (MAX_N)

VARIABLES
  used,     \* the ids held
  got,      \* the result of the last alloc
  claimed   \* the result of the last can_used

Init == used = {} /\ got = NoId /\ claimed = FALSE

Alloc ==
  /\ \/ used = Ids /\ got' = NoId /\ UNCHANGED used
     \/ \E id \in Ids \ used : got' = id /\ used' = used \cup {id}
  /\ UNCHANGED claimed

\* Freeing an id nobody holds, or one out of the range, does nothing.
Free(id) ==
  /\ used' = used \ {id}
  /\ UNCHANGED <<got, claimed>>

\* can_used succeeds for every id of the range, held or not.
Claim(id) ==
  /\ claimed' = (id \in Ids)
  /\ used' = used \cup ({id} \cap Ids)
  /\ UNCHANGED got

Next == Alloc \/ (\E id \in Args : Free(id) \/ Claim(id))

Spec == Init /\ [][Next]_<<used, got, claimed>>
=============================================================================
