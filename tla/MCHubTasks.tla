----------------------------- MODULE MCHubTasks -----------------------------
(* Small instances of HubTasks: the tasks that callers may ask for. *)
EXTENDS HubTasks, TLC

CONSTANTS a1, a2, t1, t2, t3, t4, m1, k1

Ask(parent, deps, stage, priority, module) ==
  [parent |-> parent, deps |-> deps, stage |-> stage, priority |-> priority,
   module |-> module]

\* Three levels, t1 > t2 > t3, and t4 that compiles what its sibling t2
\* executes, once t3 is done.
TreeRequests ==
  (t1 :> {Ask(None, {}, "execute", 0, None)}) @@
  (t2 :> {Ask(t1, {}, "execute", 0, None)}) @@
  (t3 :> {Ask(t2, {}, "execute", 0, None)}) @@
  (t4 :> {Ask(t1, {t3}, "compile", 1, None)})

\* Two tasks of a module: t2 is a part of t1, or waits for it, or both.
ModuleRequests ==
  (t1 :> {Ask(None, {}, "execute", 0, m1)}) @@
  (t2 :> {Ask(t1, {}, "execute", 0, None), Ask(None, {t1}, "execute", 1, m1),
          Ask(t1, {t1}, "execute", 0, None)})

AgentSymmetry == Permutations(Agents)
=============================================================================
