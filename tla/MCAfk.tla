------------------------------- MODULE MCAfk -------------------------------
\* The tasks that run at the start, and their masters.
EXTENDS Afk, TLC
CONSTANTS t1, t2, m1, m2
Both == [t \in Tasks |-> IF t = t1 THEN m1 ELSE m2]

\* Each task with its master can be taken for the other.
Swap == {p \in Permutations(Tasks \cup Masters) :
            \A t \in Tasks : p[t] \in Tasks /\ p[Both[t]] = Both[p[t]]}
=============================================================================
