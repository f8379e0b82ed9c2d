----------------------------- MODULE MsgChannel -----------------------------
(***************************************************************************)
(* What a MsgQueue (net/base/MsgQueue.cpp) promises to the threads that    *)
(* use it: every message a Push accepts is handed to the callback once,    *)
(* in the order in which the pushes were accepted, until the consumer      *)
(* closes the channel.  Nothing is said of rings, locks or wake-ups: that  *)
(* is MsgQueue, which implements this specification.                       *)
(***************************************************************************)
EXTENDS Naturals, Sequences

CONSTANT Message    \* the messages that may be pushed

VARIABLES
  accepted,   \* every message accepted so far, oldest first
  ran,        \* every message the callback has been run on, oldest first
  open        \* FALSE once the consumer has released its end

chan == <<accepted, ran, open>>

Init ==
  /\ accepted = <<>>
  /\ ran = <<>>
  /\ open = TRUE

\* Push has stored the message.
Accept(m) ==
  /\ accepted' = Append(accepted, m)
  /\ UNCHANGED <<ran, open>>

\* The callback runs on the oldest message it has not seen.
Run ==
  /\ open
  /\ Len(ran) < Len(accepted)
  /\ ran' = Append(ran, accepted[Len(ran) + 1])
  /\ UNCHANGED <<accepted, open>>

Close ==
  /\ open' = FALSE
  /\ UNCHANGED <<accepted, ran>>

Next ==
  \/ \E m \in Message : Accept(m)
  \/ Run
  \/ Close

Safety == Init /\ [][Next]_chan

Spec == Safety /\ WF_chan(Run)
=============================================================================
