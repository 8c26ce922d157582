------------------------------- MODULE Mailbox -------------------------------
(***************************************************************************)
(* What the mailbox of a session promises, whoever reads it and wherever a *)
(* reader dies: a message that was put there stays until it was answered.  *)
(* It may be answered again, and come back after it was answered: delivery *)
(* is at least once.                                                       *)
(***************************************************************************)
CONSTANT Msgs

VARIABLES held,     \* messages that the mailbox holds, claimed or not
          answered  \* messages with an answer in the history

Init == held = {} /\ answered = {}

Put(m) == held' = held \cup {m} /\ UNCHANGED answered

\* Messages are answered, and what has an answer may leave, then or later.
Settle ==
  /\ answered \subseteq answered' /\ answered' \subseteq answered \cup Msgs
  /\ held' \subseteq held /\ held \ held' \subseteq answered'

Next == Settle \/ \E m \in Msgs : Put(m)

Spec == Init /\ [][Next]_<<held, answered>>
=============================================================================
