------------------------------ MODULE TaskBoard ------------------------------
(***************************************************************************)
(* What the task queue of the Hub promises to the agents that share it.  A *)
(* task is handed to one agent at a time, after what it depends on; the    *)
(* agent keeps it until it gives it up, finishes it, is late, or somebody  *)
(* else finishes the last of its parts.  A task that was finished or       *)
(* withdrawn is never handed out again.                                    *)
(***************************************************************************)
CONSTANTS Agents, Tasks, None

VARIABLES asked,     \* the tasks asked for: what each depends on and is part of
          holder,    \* who has each task, or None
          late,      \* tasks whose holder has let its lease run out
          finished,  \* tasks that were done at some time
          closed     \* tasks finished or withdrawn

vars == <<asked, holder, late, finished, closed>>

Init ==
  /\ DOMAIN asked = {} /\ holder = [t \in Tasks |-> None]
  /\ late = {} /\ finished = {} /\ closed = {}

Parts(p) == {c \in DOMAIN asked : asked[c].parent = p}

\* New tasks refer to tasks that are there; nothing that was asked changes.
Ask ==
  /\ \A t \in DOMAIN asked : t \in DOMAIN asked' /\ asked'[t] = asked[t]
  /\ \A t \in DOMAIN asked' \ DOMAIN asked :
       /\ asked'[t].deps \subseteq DOMAIN asked
       /\ asked'[t].parent \in DOMAIN asked \cup {None}
  /\ UNCHANGED <<holder, late, finished, closed>>

\* What late holders had is taken from them, and from nobody else.
TakeBack(S) ==
  /\ late' = {}
  /\ \A t \in Tasks \ S : holder'[t] = IF t \in late THEN None ELSE holder[t]
  /\ UNCHANGED <<asked, finished, closed>>

Reclaim == TakeBack({})

HandOut(a, t) ==
  /\ t \in DOMAIN asked \ closed /\ asked[t].deps \subseteq finished
  /\ holder[t] = None \/ t \in late
  /\ TakeBack({t}) /\ holder'[t] = a

Lapse(t) ==
  /\ holder[t] # None /\ late' = late \cup {t}
  /\ UNCHANGED <<asked, holder, finished, closed>>

Renew(t) == late' = late \ {t} /\ UNCHANGED <<asked, holder, finished, closed>>

\* A task ends: nobody has it any more.
Close(D) ==
  /\ \A t \in Tasks : holder'[t] = IF t \in D THEN None ELSE holder[t]
  /\ late' = late \ D /\ closed' = closed \cup D
  /\ UNCHANGED asked

Withdraw(a, t) ==
  /\ t \in DOMAIN asked /\ holder[t] \in {None, a}
  /\ Close({t}) /\ UNCHANGED finished

\* The holder finishes t, and with t whatever has no other part unfinished.
Finish(a, t) ==
  /\ holder[t] = a
  /\ \E D \in SUBSET DOMAIN asked :
       /\ t \in D /\ finished' = finished \cup D /\ Close(D)
       /\ \A p \in D \ {t} : Parts(p) \cap D # {} /\ Parts(p) \subseteq finished'

Next ==
  \/ Ask \/ Reclaim
  \/ \E t \in Tasks : Lapse(t) \/ Renew(t)
  \/ \E a \in Agents, t \in Tasks : HandOut(a, t) \/ Withdraw(a, t) \/ Finish(a, t)

Spec == Init /\ [][Next]_vars
=============================================================================
