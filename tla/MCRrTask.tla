------------------------------ MODULE MCRrTask ------------------------------
(* Instances of RrTask for TLC: one subagent, tasks dispatched one after the *)
(* other or at once, recovery in the Hub and in the subagent's own process.  *)
EXTENDS RrTask, TLC

CONSTANTS m1, s1, t1, t2, c1, c2

\* Task ids and panel messages are interchangeable; sound for the invariants.
Interchangeable == Permutations(Tasks) \cup Permutations(Chats)
=============================================================================
