------------------------------ MODULE HubTasks ------------------------------
(***************************************************************************)
(* The task queue of the Hub: hub/src/tasks (service, lease, scheduler,    *)
(* affinity) over the tables tasks, task_dependencies, module_affinity and *)
(* idempotency_keys.                                                       *)
(*                                                                         *)
(* Agents call the Hub through MCP tools.  The Hub is one process and a    *)
(* handler is synchronous, so a call is one step; the calls of different   *)
(* agents come in any order.  completeTask and createTask issue several    *)
(* statements outside a transaction: a crash of the Hub between two of     *)
(* them is an action.                                                      *)
(*                                                                         *)
(* Time is abstracted to two events: a lease runs out, and an idempotency  *)
(* key runs out.  Nothing in hub/src calls SafetyLimiter.recordToolCall,   *)
(* so every agent's token count is 0, checkTokenYield always returns null  *)
(* and the last tie-break of findBestAgent is the order of the rows, left  *)
(* open here.  Titles, descriptions and updated_at are left out.           *)
(***************************************************************************)
EXTENDS Integers, FiniteSets

CONSTANTS Agents,
          Steady,       \* agents that keep polling; the others may stop
          Withdrawers,  \* agents that block or cancel tasks
          Tasks,        \* task ids
          Modules, Stages, None,
          Requests,     \* Requests[t]: what a caller may ask for under id t
          Keys,         \* idempotency keys; a caller makes one for one request
          ReadyLimit,   \* LIMIT of the ready query (20)
          MaxLapses,    \* leases a steady agent lets run out
          MaxCrashes    \* crashes of the Hub inside a call

Rows == [parent : Tasks \cup {None}, deps : SUBSET Tasks, stage : Stages,
         priority : Int, module : Modules \cup {None}]

ASSUME ConstantsAssumption ==
  /\ Steady \subseteq Agents /\ Withdrawers \subseteq Agents
  /\ None \notin Agents \cup Tasks \cup Modules \cup Stages \cup Keys
  /\ "execute" \in Stages
  /\ Requests \in [Tasks -> SUBSET Rows]
  /\ ReadyLimit \in Nat \ {0} /\ MaxLapses \in Nat /\ MaxCrashes \in Nat

VARIABLES
  status, owner,   \* columns of tasks
  row,             \* the columns that never change: parent, deps, stage, ...
  createdAt,
  expired,         \* the lease of a claimed task has run out
  affinity,        \* module_affinity: [source, count] per agent and module
  cache,           \* idempotency_keys: an answer is stored under the key
  clock,
  alive,           \* the agent still polls
  lapses, crashes, \* counters for the bounds
  completions,     \* complete_task calls accepted for a task
  everDone,        \* tasks that were done at some time
  interrupted,     \* the Hub died while it was completing parents
  acted, forgotten \* calls that took effect under a key; keys that were lost

rowVars == <<status, owner, row, createdAt, expired, clock>>
toldVars == <<completions, everDone, interrupted>>
keyVars == <<cache, acted, forgotten>>
vars == <<rowVars, affinity, keyVars, alive, lapses, crashes, toldVars>>

NoRow == [parent |-> None, deps |-> {}, stage |-> "execute", priority |-> 0,
          module |-> None]

Init ==
  /\ status = [t \in Tasks |-> "absent"]
  /\ owner = [t \in Tasks |-> None]
  /\ row = [t \in Tasks |-> NoRow]
  /\ createdAt = [t \in Tasks |-> 0]
  /\ expired = [t \in Tasks |-> FALSE]
  /\ affinity = [a \in Agents |-> [m \in Modules |-> [source |-> "none", count |-> 0]]]
  /\ cache = [k \in Keys |-> FALSE]
  /\ clock = 0 /\ lapses = 0 /\ crashes = 0
  /\ alive = [a \in Agents |-> TRUE]
  /\ completions = [t \in Tasks |-> 0]
  /\ everDone = {} /\ interrupted = FALSE /\ forgotten = {}
  /\ acted = [k \in Keys |-> 0]

-----------------------------------------------------------------------------
Exists(t)   == status[t] # "absent"
Absent      == {t \in Tasks : ~Exists(t)}
Children(p) == {c \in Tasks : Exists(c) /\ row[c].parent = p}

\* The caller gave key k (None: no key) and no answer is stored under it;
\* otherwise the call returns that answer and changes nothing.
NewRequest(k) == k \in Keys => ~cache[k]

\* Mutant of Remember: the answer is not stored.
MutantRememberNothing(k, died) ==
  /\ died => crashes < MaxCrashes
  /\ crashes' = IF died THEN crashes + 1 ELSE crashes
  /\ acted' = [j \in Keys |-> IF j = k THEN acted[j] + 1 ELSE acted[j]]
  /\ UNCHANGED <<cache, forgotten>>

\* The call has taken effect; its answer is stored unless the Hub dies first.
Remember(k, died) ==
  /\ died => crashes < MaxCrashes
  /\ crashes' = IF died THEN crashes + 1 ELSE crashes
  /\ cache' = [j \in Keys |-> cache[j] \/ (j = k /\ ~died)]
  /\ acted' = [j \in Keys |-> IF j = k THEN acted[j] + 1 ELSE acted[j]]
  /\ forgotten' = IF died THEN forgotten \cup ({k} \ {None}) ELSE forgotten

\* Insert the rows ask[t] under one time stamp; two calls may share a tick.
Insert(ask) ==
  /\ clock' \in {clock, clock + 1}
  /\ status' = [t \in Tasks |-> IF t \in DOMAIN ask THEN "open" ELSE status[t]]
  /\ row' = [t \in Tasks |-> IF t \in DOMAIN ask THEN ask[t] ELSE row[t]]
  /\ createdAt' = [t \in Tasks |-> IF t \in DOMAIN ask THEN clock' ELSE createdAt[t]]
  /\ UNCHANGED <<owner, expired, affinity, alive, lapses, toldVars>>

CreateTask(t, k, died) ==
  /\ t \in Absent /\ NewRequest(k)
  /\ \E r \in Requests[t] :
       /\ r.deps \cap Absent = {}
       /\ r.parent \notin Absent
       /\ Insert([u \in {t} |-> r])
  /\ Remember(k, died)

SplitTask(p, kids, k, died) ==
  /\ Exists(p) /\ NewRequest(k)
  /\ kids # {} /\ kids \subseteq Absent
  /\ \E ask \in [kids -> UNION {Requests[c] : c \in kids}] :
       /\ \A c \in kids : ask[c] \in Requests[c] /\ ask[c].parent = p /\ ask[c].deps = {}
       /\ Insert([c \in kids |-> [ask[c] EXCEPT !.module = row[p].module]])
  /\ Remember(k, died)

-----------------------------------------------------------------------------
(* claimTask.  It first reopens every claimed task whose lease has run out. *)

\* Mutant of Released: a lease that is still good ends too.
MutantReleasedAll == {t \in Tasks : status[t] = "claimed"}

Released == {t \in Tasks : status[t] = "claimed" /\ expired[t]}
StatusAfterRelease == [t \in Tasks |-> IF t \in Released THEN "open" ELSE status[t]]

\* Mutant of Ready: a task that has parts is never handed out.
MutantReadyLeaves(st, stage) ==
  {t \in Tasks :
     /\ st[t] = "open"
     /\ \A d \in row[t].deps : st[d] = "done"
     /\ Children(t) = {}
     /\ stage \in {None, row[t].stage}}

Ready(st, stage) ==
  {t \in Tasks :
     /\ st[t] = "open"
     /\ \A d \in row[t].deps : st[d] = "done"
     /\ \A c \in Children(t) : st[c] = "done"
     /\ stage \in {None, row[t].stage}}

Before(t, u) == \/ row[t].priority > row[u].priority
                \/ row[t].priority = row[u].priority /\ createdAt[t] < createdAt[u]

First(S) == {t \in S : \A u \in S : ~Before(u, t)}

\* The results ORDER BY priority DESC, created_at ASC LIMIT ReadyLimit allows.
Windows(R) ==
  {W \in SUBSET R :
     /\ Cardinality(W) <= ReadyLimit
     /\ W # R => Cardinality(W) = ReadyLimit
     /\ \A t \in W, u \in R \ W : ~Before(u, t)}

Owns(a, m) == m # None /\ affinity[a][m].source # "none"
Owned(m)   == \E a \in Agents : Owns(a, m)

\* The tasks claimTask may settle on.  A task of a's own modules goes first;
\* otherwise only the first task counts, and it is left to its module's owner.
Picks(a, W) ==
  LET mine == {t \in W : Owns(a, row[t].module)}
  IN IF mine # {} THEN First(mine)
     ELSE {t \in First(W) : ~Owned(row[t].module)}

GateOpen(t) ==
  row[t].stage = "execute" =>
    /\ row[t].parent # None =>
         \A s \in Children(row[t].parent) : row[s].stage = "compile" => status[s] = "done"
    /\ \A d \in row[t].deps : row[d].stage = "compile" => status[d] = "done"

ClaimTask(a, stage, t) ==
  /\ alive[a]
  /\ LET R == Ready(StatusAfterRelease, stage) IN
     t \in R /\ \E W \in Windows(R) : t \in Picks(a, W)
  /\ GateOpen(t)
  /\ status' = [StatusAfterRelease EXCEPT ![t] = "claimed"]
  /\ owner' = [u \in Tasks |-> IF u = t THEN a ELSE IF u \in Released THEN None ELSE owner[u]]
  /\ expired' = [u \in Tasks |-> expired[u] /\ u \notin Released]
  /\ UNCHANGED <<row, createdAt, clock, affinity, keyVars, alive, lapses, crashes, toldVars>>

\* No task is handed out: none is ready, an owner is preferred, or the gate is shut.
ClaimNothing(a, stage) ==
  /\ alive[a]
  /\ \E W \in Windows(Ready(StatusAfterRelease, stage)) :
       \/ W = {}
       \/ First(W) \ Picks(a, W) # {} /\ \A t \in W : ~Owns(a, row[t].module)
       \/ \E t \in Picks(a, W) : ~GateOpen(t)
  /\ status' = StatusAfterRelease
  /\ owner' = [u \in Tasks |-> IF u \in Released THEN None ELSE owner[u]]
  /\ expired' = [u \in Tasks |-> expired[u] /\ u \notin Released]
  /\ UNCHANGED <<row, createdAt, clock, affinity, keyVars, alive, lapses, crashes, toldVars>>

-----------------------------------------------------------------------------
(* The calls of the agent that holds a task. *)

Holds(a, t) == alive[a] /\ status[t] = "claimed" /\ owner[t] = a

\* The new expiry is max(now, base + extend): the lease is good again, or it
\* ends now.  Whether it had already run out is not asked.
Heartbeat(a, t) ==
  /\ Holds(a, t)
  /\ expired[t]
  /\ expired' = [expired EXCEPT ![t] = FALSE]
  /\ UNCHANGED <<status, owner, row, createdAt, clock, affinity, keyVars, alive,
                 lapses, crashes, toldVars>>

\* maybeAutocompleteParent: once the tasks in S are done, the parent p of one is
\* done if all the children of p are, and so on upward.
Follows(p, S) ==
  /\ \E c \in S : row[c].parent = p
  /\ \A c \in Children(p) : c \in S \/ status[c] = "done"

Upward(S) == \A p \in Tasks : Follows(p, S) => p \in S

\* Mutant of Completed: the recursion upward is missing.
MutantCompletedOneLevel(t) ==
  {t} \cup {p \in Tasks : row[t].parent = p /\ \A c \in Children(p) : c = t \/ status[c] = "done"}

Completed(t) ==
  LET Closed == {S \in SUBSET Tasks : t \in S /\ Upward(S)}
  IN {u \in Tasks : \A S \in Closed : u \in S}

\* What is done if the Hub dies on the way up: the chain from t to some ancestor.
Partial(t, all) == {D \in SUBSET all : t \in D /\ \A p \in D \ {t} : Follows(p, D)}

RecordCompletion(a, m) ==
  affinity' = [affinity EXCEPT ![a][m] =
    [source |-> IF @.source = "none" THEN "earned" ELSE @.source, count |-> @.count + 1]]

CompleteTask(a, t, k, died) ==
  /\ Holds(a, t) /\ NewRequest(k)
  /\ LET all == Completed(t) IN
     \E D \in IF died THEN Partial(t, all) ELSE {all} :
       /\ status' = [u \in Tasks |-> IF u \in D THEN "done" ELSE status[u]]
       /\ owner' = [u \in Tasks |-> IF u \in D THEN None ELSE owner[u]]
       /\ expired' = [u \in Tasks |-> expired[u] /\ u \notin D]
       /\ everDone' = everDone \cup D
       /\ interrupted' = (interrupted \/ D # all)
  /\ completions' = [completions EXCEPT ![t] = @ + 1]
  /\ \/ row[t].module # None /\ RecordCompletion(a, row[t].module)
     \/ (row[t].module = None \/ died) /\ UNCHANGED affinity
  /\ Remember(k, died)
  /\ UNCHANGED <<row, createdAt, clock, alive, lapses>>

\* Mutant of Withdraw: the owner is not cleared.
MutantWithdrawKeepsOwner(a, t, to) ==
  /\ alive[a] /\ Exists(t)
  /\ owner[t] \in {None, a}
  /\ status' = [status EXCEPT ![t] = to]
  /\ expired' = [expired EXCEPT ![t] = FALSE]
  /\ UNCHANGED <<owner, row, createdAt, clock, affinity, keyVars, alive, lapses, crashes, toldVars>>

\* Mutant of Withdraw: the task goes back to the queue.
MutantWithdrawReopens(a, t, to) ==
  /\ alive[a] /\ Exists(t)
  /\ owner[t] \in {None, a}
  /\ status' = [status EXCEPT ![t] = "open"]
  /\ owner' = [owner EXCEPT ![t] = None]
  /\ expired' = [expired EXCEPT ![t] = FALSE]
  /\ UNCHANGED <<row, createdAt, clock, affinity, keyVars, alive, lapses, crashes, toldVars>>

\* blockTask and cancelTask: only a task held by another agent is refused.
Withdraw(a, t, to) ==
  /\ alive[a] /\ Exists(t)
  /\ owner[t] \in {None, a}
  /\ status' = [status EXCEPT ![t] = to]
  /\ owner' = [owner EXCEPT ![t] = None]
  /\ expired' = [expired EXCEPT ![t] = FALSE]
  /\ UNCHANGED <<row, createdAt, clock, affinity, keyVars, alive, lapses, crashes, toldVars>>

BlockTask(a, t)  == Withdraw(a, t, "blocked")
CancelTask(a, t) == Withdraw(a, t, "cancelled")

-----------------------------------------------------------------------------
DeclareOwnership(a, m) ==
  /\ alive[a]
  /\ affinity' = [affinity EXCEPT ![a][m].source = "declared"]
  /\ UNCHANGED <<rowVars, keyVars, alive, lapses, crashes, toldVars>>

\* Mutant of ForgetAgent: the rows of module_affinity stay.
MutantForgetAgentNot(a) ==
  /\ ~alive[a]
  /\ UNCHANGED vars

\* slidingWindowGC: the agent has not pinged for a week.
ForgetAgent(a) ==
  /\ ~alive[a]
  /\ affinity' = [affinity EXCEPT ![a] = [m \in Modules |-> [source |-> "none", count |-> 0]]]
  /\ UNCHANGED <<rowVars, keyVars, alive, lapses, crashes, toldVars>>

\* A steady agent sends its heartbeats in time, except MaxLapses times.
LeaseLapses(t) ==
  /\ status[t] = "claimed" /\ ~expired[t]
  /\ owner[t] \in Steady => lapses < MaxLapses
  /\ lapses' = IF owner[t] \in Steady THEN lapses + 1 ELSE lapses
  /\ expired' = [expired EXCEPT ![t] = TRUE]
  /\ UNCHANGED <<status, owner, row, createdAt, clock, affinity, keyVars, alive,
                 crashes, toldVars>>

\* 24 hours after the call, purgeExpiredIdempotencyKeys drops its answer.
KeyExpires(k) ==
  /\ cache[k]
  /\ cache' = [cache EXCEPT ![k] = FALSE]
  /\ forgotten' = forgotten \cup {k}
  /\ UNCHANGED <<rowVars, affinity, acted, alive, lapses, crashes, toldVars>>

AgentStops(a) ==
  /\ alive[a] /\ a \notin Steady
  /\ alive' = [alive EXCEPT ![a] = FALSE]
  /\ UNCHANGED <<rowVars, affinity, keyVars, lapses, crashes, toldVars>>

Next ==
  \/ \E t \in Tasks, k \in Keys \cup {None}, died \in BOOLEAN :
       CreateTask(t, k, died)
  \/ \E p \in Tasks, kids \in SUBSET Tasks, k \in Keys \cup {None}, died \in BOOLEAN :
       SplitTask(p, kids, k, died)
  \/ \E a \in Agents, stage \in Stages \cup {None} :
       ClaimNothing(a, stage) \/ \E t \in Tasks : ClaimTask(a, stage, t)
  \/ \E a \in Agents, t \in Tasks, k \in Keys \cup {None}, died \in BOOLEAN :
       CompleteTask(a, t, k, died)
  \/ \E a \in Agents, t \in Tasks : Heartbeat(a, t)
  \/ \E a \in Withdrawers, t \in Tasks : BlockTask(a, t) \/ CancelTask(a, t)
  \/ \E a \in Agents, m \in Modules : DeclareOwnership(a, m)
  \/ \E a \in Agents : ForgetAgent(a) \/ AgentStops(a)
  \/ \E t \in Tasks : LeaseLapses(t)
  \/ \E k \in Keys : KeyExpires(k)

Spec == Init /\ [][Next]_vars

\* Steady agents poll for work of any stage and complete what they hold; the
\* others stop some day, time passes, and the Hub runs its weekly collection.
Fairness ==
  /\ \A a \in Steady :
       /\ WF_vars(ClaimNothing(a, None) \/ \E t \in Tasks : ClaimTask(a, None, t))
       /\ \A t \in Tasks : WF_vars(CompleteTask(a, t, None, FALSE))
  /\ \A a \in Agents : WF_vars(AgentStops(a)) /\ WF_vars(ForgetAgent(a))
  /\ \A t \in Tasks : WF_vars(owner[t] \notin Steady /\ LeaseLapses(t))

FairSpec == Spec /\ Fairness

-----------------------------------------------------------------------------
(* Properties. *)

\* Every column has its type, and a task has an owner exactly while it is
\* claimed: releaseExpiredTaskLeases, completeTask, blockTask, cancelTask and
\* maybeAutocompleteParent all clear the owner with the status.
TypeOK ==
  /\ status \in [Tasks -> {"absent", "open", "claimed", "done", "blocked", "cancelled"}]
  /\ owner \in [Tasks -> Agents \cup {None}]
  /\ row \in [Tasks -> Rows]
  /\ createdAt \in [Tasks -> Nat]
  /\ expired \in [Tasks -> BOOLEAN]
  /\ affinity \in [Agents -> [Modules ->
                     [source : {"none", "earned", "declared"}, count : Nat]]]
  /\ cache \in [Keys -> BOOLEAN] /\ acted \in [Keys -> Nat] /\ forgotten \subseteq Keys
  /\ clock \in Nat /\ lapses \in Nat /\ crashes \in Nat
  /\ alive \in [Agents -> BOOLEAN]
  /\ completions \in [Tasks -> Nat]
  /\ everDone \subseteq Tasks /\ interrupted \in BOOLEAN
  /\ \A t \in Tasks : owner[t] # None <=> status[t] = "claimed"

\* However often its lease runs out and other agents claim it, a task is
\* completed once: of all the agents that worked on it, one is told so.
CompletedOnce == \A t \in Tasks : completions[t] <= 1

\* A task is claimed only after every task it depends on was done; a
\* dependency withdrawn since then does not call the work back.
ClaimedAfterDependencies ==
  \A t \in Tasks : status[t] = "claimed" => row[t].deps \subseteq everDone

\* A parent is never left behind: once all its children are done it has been
\* done too, at every level, unless the Hub died between the two updates.
NoStrandedParent ==
  \A p \in Tasks :
    Children(p) # {} /\ (\A c \in Children(p) : status[c] = "done")
      => p \in everDone \/ interrupted

\* The parts of p, their parts, and so on.
Inside(p) ==
  {u \in Tasks : \A S \in SUBSET Tasks :
     (\A c \in Tasks : Exists(c) /\ row[c].parent \in S \cup {p} => c \in S) => u \in S}

\* A part that waits for something outside of the whole it is a part of.
Entangled(u) ==
  /\ status[u] = "open" /\ row[u].parent # None
  /\ \E d \in row[u].deps : status[d] = "open" /\ d \notin Inside(row[u].parent)

\* Unfinished work that nobody holds does not wait for itself: the ready query
\* (service.ts 178-193) finds a task, a parent that a crash kept from being
\* completed too, though tasks wait for their dependencies and for their parts.
\* Excepted are a withdrawn task and an entangled part: createTask accepts a
\* part that depends on the whole, and neither is ready then.  Whether the compile
\* gate and the affinity tier give out what the query finds is not said here.
WorkIsReady ==
  /\ \E t \in Tasks : status[t] = "open"
  /\ \A t \in Tasks : status[t] \in {"absent", "open", "done"}
  => Ready(status, None) # {} \/ \E u \in Tasks : Entangled(u)

\* A caller that repeats a request under its key makes it happen once, as long
\* as the answer has not expired and the Hub did not die before storing it.
KeyActsOnce == \A k \in Keys : acted[k] > 1 => k \in forgotten

\* The queue keeps what TaskBoard promises: whoever claims, renews, completes or
\* withdraws meanwhile, a task leaves an agent whose lease is good only when its
\* parts are done, and none that is over is handed out again.
Board == INSTANCE TaskBoard WITH
  asked <- [t \in Tasks \ Absent |-> row[t]], holder <- owner,
  late <- {t \in Tasks : expired[t]}, finished <- everDone,
  closed <- {t \in Tasks : status[t] \in {"done", "blocked", "cancelled"}}
ImplementsBoard == Board!Spec

\* Every task is done in the end: no lease of a dead agent, no owner of a module
\* that has left, no crash of the Hub keeps it.  Only a part that waits for what
\* is outside of its whole may stay, and what waits for such a part.
AllWorkIsDone ==
  \A t \in Tasks : Exists(t) ~> (status[t] = "done" \/ \E u \in Tasks : Entangled(u))
=============================================================================
