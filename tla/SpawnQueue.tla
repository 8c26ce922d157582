----------------------------- MODULE SpawnQueue -----------------------------
(***************************************************************************)
(* The queue that starts Cursor agents for chat sessions: CursorSpawnQueue *)
(* (hub/src/rr/spawn-queue.ts), with what it awaits: the budget gate and   *)
(* its leases, the calls to PolarProcess that stop and start the agent's   *)
(* process, and the removal of a session in the middle of any of them.     *)
(*                                                                         *)
(* The Hub is one process: what runs between two awaits is one step, and   *)
(* `phase` says which await the active job is at.  Jobs run one after      *)
(* another (the promise chain), in the order of enqueue.  PolarProcess     *)
(* keeps one process per session.  A request to it is handled at any time  *)
(* after it was sent, also after its caller stopped waiting (15 s), and    *)
(* two requests in flight come in any order.                               *)
(*                                                                         *)
(* An agent is named by the number of the job that started it, so its pid  *)
(* is never reused.  cancelledSessionIds is left out: the one handler that *)
(* fills it removes the session file in the same tick, and every test of   *)
(* it also tests sessionExists.  Notifications and labels are left out.    *)
(***************************************************************************)
EXTENDS Integers, Sequences, FiniteSets, Functions

CONSTANTS Sessions,
          MaxJobs,     \* bound on the calls of enqueue
          KeptBatches, \* batches that getBatch still finds (10)
          MaxCrashes   \* crashes of the Hub

ASSUME ConstantsAssumption ==
  IsFiniteSet(Sessions) /\ MaxJobs \in Nat /\ KeptBatches \in Nat \ {0} /\ MaxCrashes \in Nat

VARIABLES
  session,   \* the session file: not there yet, there, or removed
  tracked,   \* cursorAgentPid (and polarProcessServiceId) in that file
  job,       \* every job ever enqueued, in order
  batch,     \* status of every batch ever created, in order
  active,    \* activeJob
  begun,     \* jobs of the chain that have begun
  phase,     \* the await that the active job is at
  kills,     \* agents to be signalled when the stop call before it returns
  suspects,  \* agents the sweep at start-up found neither tracked nor managed yet
  stops,     \* stop requests on their way to PolarProcess, per session
  start,     \* the job's register-and-start request at PolarProcess
  running,   \* agents whose process runs
  leases,    \* jobs that know of a lease PolarBudget holds for them
  lost,      \* agents whose start, or kill, the Hub knows nothing of any more
  stray,     \* jobs with a lease that only its time to live ends
  crashes

jobVars == <<job, batch, active, begun, phase>>
hubVars == <<jobVars, kills, suspects>>
fileVars == <<session, tracked>>
outside == <<stops, start, running>>
leaseVars == <<leases, stray>>
vars == <<hubVars, fileVars, outside, leaseVars, lost, crashes>>

Jobs == 1..MaxJobs
Waiting == {"pending", "budget_waiting", "waiting_online"}
Settled == {"done", "failed"}
Phases == {"idle", "gate", "stop", "start", "undo", "online", "finish"}
Requests == {"none", "sent", "started", "refused"}

\* The type invariant.  "forgotten" is what a crash leaves of a job or a batch
\* that was not over; batch 0 stands for a job without one, agent 0 for none.
TypeOK ==
  /\ session \in [Sessions -> {"new", "live", "removed"}]
  /\ tracked \in [Sessions -> 0..MaxJobs]
  /\ job \in Seq([session : Sessions, batch : 0..MaxJobs, wait : BOOLEAN,
                  status : Waiting \cup Settled \cup {"forgotten"}])
  /\ batch \in Seq({"queued", "running", "completed", "failed", "forgotten"})
  /\ Len(batch) <= Len(job) /\ Len(job) <= MaxJobs /\ begun \in 0..Len(job)
  /\ active \in 0..Len(job) /\ phase \in Phases
  /\ (active = 0) = (phase = "idle")
  /\ kills \subseteq Jobs /\ suspects \subseteq Jobs
  /\ stops \in [Sessions -> Nat] /\ start \in [Jobs -> Requests]
  /\ running \subseteq Jobs /\ leases \subseteq Jobs
  /\ lost \subseteq Jobs /\ stray \subseteq Jobs
  /\ crashes \in 0..MaxCrashes

Init ==
  /\ session = [s \in Sessions |-> "new"] /\ tracked = [s \in Sessions |-> 0]
  /\ job = <<>> /\ batch = <<>> /\ active = 0 /\ begun = 0 /\ phase = "idle"
  /\ kills = {} /\ suspects = {}
  /\ stops = [s \in Sessions |-> 0] /\ start = [j \in Jobs |-> "none"]
  /\ running = {} /\ leases = {} /\ lost = {} /\ stray = {} /\ crashes = 0

-----------------------------------------------------------------------------
SessionOf(j) == job[j].session
AgentsOf(s) == {j \in DOMAIN job : SessionOf(j) = s}
Gone(s) == session[s] # "live"

WithStatus(j, status) == [job EXCEPT ![j].status = status]

MutantTouchedEarly(b, js) ==
  LET mine == {j \in DOMAIN js : js[j].batch = b}
  IN  IF \E j \in mine : js[j].status = "failed" THEN "failed"
      ELSE IF \E j \in mine : js[j].status \notin Settled THEN batch[b]
      ELSE "completed"

\* touchBatch: the status of batch b once the jobs are js.
Touched(b, js) ==
  LET mine == {j \in DOMAIN js : js[j].batch = b}
  IN  IF \E j \in mine : js[j].status \notin Settled THEN batch[b]
      ELSE IF \E j \in mine : js[j].status = "failed" THEN "failed"
      ELSE "completed"

\* createBatch drops the oldest batch when there are more than KeptBatches.
Known(b) == b > Len(batch) - KeptBatches /\ batch[b] # "forgotten"

MutantKillTrackedStays(s) ==
  kills' = kills \cup ({tracked[s]} \ {0}) /\ tracked' = tracked

\* killCursorAgentForSession: the stop call is not awaited, its caller only
\* remembers the pid; nothing happens when the file tracks no agent.
KillTracked(s) ==
  /\ kills' = kills \cup ({tracked[s]} \ {0})
  /\ tracked' = [tracked EXCEPT ![s] = 0]
StopsOfKill(s) == IF tracked[s] = 0 THEN 0 ELSE 1

-----------------------------------------------------------------------------
(* The handlers of the router.                                             *)

NewJob(s, b, wait) == [session |-> s, batch |-> b, wait |-> wait, status |-> "pending"]

\* Spawn an agent for a session that is there, or for one registered first.
SpawnCursor(s, wait) ==
  /\ session[s] # "removed" /\ Len(job) < MaxJobs
  /\ session' = [session EXCEPT ![s] = "live"]
  /\ job' = Append(job, NewJob(s, 0, wait))
  /\ UNCHANGED <<tracked, batch, active, begun, phase, kills, suspects,
                 outside, leaseVars, lost, crashes>>

\* spawn-process: a main agent and its subagents, as one batch.
SpawnProcess(fleet) ==
  /\ \A i \in DOMAIN fleet : session[fleet[i]] = "new"
  /\ Len(job) + Len(fleet) <= MaxJobs
  /\ session' = [s \in Sessions |-> IF s \in Range(fleet) THEN "live" ELSE session[s]]
  /\ batch' = Append(batch, "queued")
  /\ job' = job \o [i \in DOMAIN fleet |-> NewJob(fleet[i], Len(batch'), TRUE)]
  /\ UNCHANGED <<tracked, active, begun, phase, kills, suspects,
                 outside, leaseVars, lost, crashes>>

\* DELETE of a session: cancelJobsForSession, then removeSession.
RemoveSession(s) ==
  /\ session[s] = "live"
  /\ LET cancelled == {j \in DOMAIN job : /\ SessionOf(j) = s
                                          /\ job[j].status = "pending"
                                          /\ job[j].batch # 0 /\ Known(job[j].batch)}
         js == [j \in DOMAIN job |->
                 IF j \in cancelled THEN [job[j] EXCEPT !.status = "failed"] ELSE job[j]]
     IN  /\ job' = js
         /\ batch' = [b \in DOMAIN batch |-> IF Known(b) THEN Touched(b, js) ELSE batch[b]]
  /\ session' = [session EXCEPT ![s] = "removed"]
  /\ KillTracked(s)
  /\ stops' = [stops EXCEPT ![s] = @ + StopsOfKill(s)]
  /\ UNCHANGED <<active, begun, phase, suspects, start, running, leaseVars, lost, crashes>>

-----------------------------------------------------------------------------
(* runJob, from one await to the next.                                     *)

MutantBeginUnchecked ==
  /\ active = 0 /\ begun < Len(job)
  /\ LET j == begun + 1
         b == job[j].batch
     IN  /\ active' = j /\ begun' = j /\ phase' = "gate"
         /\ job' = WithStatus(j, "budget_waiting")
         /\ batch' = IF b # 0 /\ batch[b] = "queued"
                       THEN [batch EXCEPT ![b] = "running"] ELSE batch
  /\ UNCHANGED <<kills, suspects, fileVars, outside, leaseVars, lost, crashes>>

\* The next job of the chain begins: it fails at once when its session is gone.
BeginJob ==
  /\ active = 0 /\ begun < Len(job)
  /\ LET j == begun + 1
         b == job[j].batch
         gone == Gone(SessionOf(j))
     IN  /\ active' = j /\ begun' = j
         /\ phase' = IF gone THEN "finish" ELSE "gate"
         /\ job' = WithStatus(j, IF gone THEN "failed" ELSE "budget_waiting")
         /\ batch' = IF b # 0 /\ batch[b] = "queued"
                       THEN [batch EXCEPT ![b] = "running"] ELSE batch
  /\ UNCHANGED <<kills, suspects, fileVars, outside, leaseVars, lost, crashes>>

Fail(j) == job' = WithStatus(j, "failed") /\ phase' = "finish"

\* canSpawnAgent says no: PolarBudget denies, the wait ran out, or the answer
\* that granted a lease was lost.
GateDenies(j) ==
  /\ active = j /\ phase = "gate"
  /\ Fail(j) /\ stray' \in {stray, stray \cup {j}}
  /\ UNCHANGED <<batch, active, begun, kills, suspects, fileVars, outside, leases,
                 lost, crashes>>

\* canSpawnAgent says yes, with a lease or, when jobs are few, without one; an
\* earlier grant may have been lost on the way.  The agent that the session
\* tracks is killed.  A second check finds a session
\* removed during the wait; else the old process is stopped, and awaited, unless
\* no cursor binary is found.
GateAllows(j) ==
  LET s == SessionOf(j)
  IN  /\ active = j /\ phase = "gate"
      /\ \/ UNCHANGED leaseVars
         \/ leases' = leases \cup {j} /\ stray' \in {stray, stray \cup {j}}
      /\ IF Gone(s) THEN UNCHANGED <<kills, tracked>> ELSE KillTracked(s)
      /\ \/ /\ Fail(j)
            /\ stops' = [stops EXCEPT ![s] = @ + IF Gone(s) THEN 0 ELSE StopsOfKill(s)]
         \/ /\ ~Gone(s)
            /\ phase' = "stop" /\ job' = job
            /\ stops' = [stops EXCEPT ![s] = @ + StopsOfKill(s) + 1]
      /\ UNCHANGED <<batch, active, begun, suspects, session, start, running,
                     lost, crashes>>

\* registerAndStartRrCursorAgent: its stop call has returned, or given up.
StopReturns(j) ==
  /\ active = j /\ phase = "stop"
  /\ phase' = "start" /\ start' = [start EXCEPT ![j] = "sent"]
  /\ UNCHANGED <<job, batch, active, begun, kills, suspects, fileVars,
                 stops, running, leaseVars, lost, crashes>>

MutantStartReturnsUnchecked(j) ==
  LET s == SessionOf(j)
  IN  /\ active = j /\ phase = "start" /\ start[j] = "started"
      /\ \/ Gone(s) /\ Fail(j) /\ UNCHANGED tracked
         \/ /\ ~Gone(s)
            /\ tracked' = [tracked EXCEPT ![s] = j]
            /\ phase' = IF job[j].wait THEN "online" ELSE "finish"
            /\ job' = WithStatus(j, IF job[j].wait THEN "waiting_online" ELSE "done")
      /\ UNCHANGED <<batch, active, begun, kills, suspects, session, outside,
                     leaseVars, lost, crashes>>

\* The third check: the agent of a session removed meanwhile is stopped again;
\* else it is tracked, and the job is over or waits for the agent to come online.
StartReturns(j) ==
  LET s == SessionOf(j)
  IN  /\ active = j /\ phase = "start" /\ start[j] = "started"
      /\ \/ /\ Gone(s)
            /\ phase' = "undo" /\ stops' = [stops EXCEPT ![s] = @ + 1]
            /\ UNCHANGED <<job, tracked>>
         \/ /\ ~Gone(s)
            /\ tracked' = [tracked EXCEPT ![s] = j]
            /\ phase' = IF job[j].wait THEN "online" ELSE "finish"
            /\ job' = WithStatus(j, IF job[j].wait THEN "waiting_online" ELSE "done")
            /\ UNCHANGED stops
      /\ UNCHANGED <<batch, active, begun, kills, suspects, session, start, running,
                     leaseVars, lost, crashes>>

\* The start is refused, or its answer is late or lost: the agent may run, now or
\* later, and nothing tracks it.
StartFails(j) ==
  /\ active = j /\ phase = "start"
  /\ Fail(j)
  /\ lost' = IF start[j] = "refused" THEN lost ELSE lost \cup {j}
  /\ UNCHANGED <<batch, active, begun, kills, suspects, fileVars, outside, leaseVars, crashes>>

MutantUndoTrustsStop(j) ==
  /\ active = j /\ phase = "undo"
  /\ Fail(j)
  /\ UNCHANGED <<batch, active, begun, kills, suspects, fileVars, outside,
                 leaseVars, lost, crashes>>

\* stopCursorAgentForSession was awaited: it ends by killing the pid.
UndoReturns(j) ==
  /\ active = j /\ phase = "undo"
  /\ Fail(j) /\ running' = running \ {j}
  /\ UNCHANGED <<batch, active, begun, kills, suspects, fileVars, stops, start,
                 leaseVars, lost, crashes>>

\* waitForOnline: true, or false when time is up; getSession throws when a poll
\* finds the session removed.
OnlineReturns(j) ==
  /\ active = j /\ phase = "online"
  /\ \/ job' = WithStatus(j, "done")
     \/ Gone(SessionOf(j)) /\ job' = WithStatus(j, "failed")
  /\ phase' = "finish"
  /\ UNCHANGED <<batch, active, begun, kills, suspects, fileVars, outside,
                 leaseVars, lost, crashes>>

MutantFinishKeepsLease(j) ==
  /\ active = j /\ phase = "finish"
  /\ leases' = (IF job[j].status = "done" THEN leases \ {j} ELSE leases)
  /\ active' = 0 /\ phase' = "idle"
  /\ batch' = LET b == job[j].batch
              IN  IF b = 0 THEN batch ELSE [batch EXCEPT ![b] = Touched(b, job)]
  /\ UNCHANGED <<job, begun, kills, suspects, fileVars, outside, stray, lost, crashes>>

MutantFinishStaysActive(j) ==
  /\ active = j /\ phase = "finish"
  /\ \/ job[j].status = "done" /\ active' = 0
     \/ job[j].status = "failed" /\ UNCHANGED active
  /\ phase' = "idle"
  /\ leases' = leases \ {j}
  /\ UNCHANGED <<job, batch, begun, kills, suspects, fileVars, outside, stray,
                 lost, crashes>>

\* The finally block: a lease is given back, which may fail, and the batch is
\* settled when this was its last job.
FinishJob(j) ==
  /\ active = j /\ phase = "finish"
  /\ leases' = leases \ {j}
  /\ stray' \in {stray, stray \cup (leases \cap {j})}
  /\ active' = 0 /\ phase' = "idle"
  /\ batch' = LET b == job[j].batch
              IN  IF b = 0 THEN batch ELSE [batch EXCEPT ![b] = Touched(b, job)]
  /\ UNCHANGED <<job, begun, kills, suspects, fileVars, outside, lost, crashes>>

\* stopCursorAgentForSession, not awaited: its stop call returned or gave up.
KillAgent(j) ==
  /\ j \in kills
  /\ kills' = kills \ {j} /\ running' = running \ {j}
  /\ UNCHANGED <<jobVars, suspects, fileVars, stops, start, leaseVars, lost, crashes>>

-----------------------------------------------------------------------------
(* What the Hub does not do: PolarProcess, PolarBudget, the agents, crashes. *)

\* A start replaces the process that the service still has.
PolarStarts(j) ==
  /\ start[j] = "sent"
  /\ start' = [start EXCEPT ![j] = "started"]
  /\ running' = (running \ AgentsOf(SessionOf(j))) \cup {j}
  /\ UNCHANGED <<hubVars, fileVars, stops, leaseVars, lost, crashes>>

PolarRefuses(j) ==
  /\ start[j] = "sent"
  /\ start' = [start EXCEPT ![j] = "refused"]
  /\ UNCHANGED <<hubVars, fileVars, stops, running, leaseVars, lost, crashes>>

\* A stop is handled, or is lost.
PolarStops(s) ==
  /\ stops[s] > 0
  /\ stops' = [stops EXCEPT ![s] = @ - 1]
  /\ running' \in {running, running \ AgentsOf(s)}
  /\ UNCHANGED <<hubVars, fileVars, start, leaseVars, lost, crashes>>

AgentExits(j) ==
  /\ j \in running /\ running' = running \ {j}
  /\ UNCHANGED <<hubVars, fileVars, stops, start, leaseVars, lost, crashes>>

LeaseExpires(j) ==
  /\ j \in stray /\ stray' = stray \ {j}
  /\ UNCHANGED <<hubVars, fileVars, outside, leases, lost, crashes>>

\* The Hub dies and starts again: what it held in memory is gone, the files stay.
\* The constructor looks for agents that no session tracks.
Crash ==
  /\ crashes < MaxCrashes /\ crashes' = crashes + 1
  /\ job' = [j \in DOMAIN job |-> IF job[j].status \in Settled THEN job[j]
                                  ELSE [job[j] EXCEPT !.status = "forgotten"]]
  /\ batch' = [b \in DOMAIN batch |-> "forgotten"]
  /\ active' = 0 /\ phase' = "idle" /\ begun' = Len(job)
  /\ lost' = lost \cup kills \cup (IF phase \in {"start", "undo"} THEN {active} ELSE {})
  /\ stray' = stray \cup leases /\ leases' = {}
  /\ kills' = {} /\ suspects' = running \ Range(tracked)
  /\ UNCHANGED <<fileVars, outside>>

\* sweepOrphanCursorAgents after its await: PolarProcess manages every agent that
\* still runs, or does not answer; what is not managed is killed.
Sweep ==
  /\ suspects # {} /\ suspects' = {}
  /\ running' \in {running, running \ suspects}
  /\ UNCHANGED <<jobVars, kills, fileVars, stops, start, leaseVars, lost, crashes>>

-----------------------------------------------------------------------------
Fleets == {f \in UNION {[1..n -> Sessions] : n \in 1..Cardinality(Sessions)} :
             IsInjective(f)}

JobStep(j) ==
  \/ GateDenies(j) \/ GateAllows(j) \/ StopReturns(j) \/ StartReturns(j)
  \/ StartFails(j) \/ UndoReturns(j) \/ OnlineReturns(j) \/ FinishJob(j)

Next ==
  \/ \E s \in Sessions : \/ \E wait \in BOOLEAN : SpawnCursor(s, wait)
                         \/ RemoveSession(s) \/ PolarStops(s)
  \/ \E fleet \in Fleets : SpawnProcess(fleet)
  \/ BeginJob
  \/ \E j \in DOMAIN job :
       \/ JobStep(j) \/ KillAgent(j) \/ PolarStarts(j) \/ PolarRefuses(j)
       \/ AgentExits(j) \/ LeaseExpires(j)
  \/ Crash \/ Sweep

Spec == Init /\ [][Next]_vars

\* Every await of the queue returns: the calls to PolarProcess give up after 15 s,
\* the wait for the budget after 30 min, the wait for the agent after 90 s.
FairSpec ==
  /\ Spec /\ WF_vars(BeginJob)
  /\ \A j \in Jobs : WF_vars(j \in DOMAIN job /\ JobStep(j)) /\ WF_vars(KillAgent(j))

-----------------------------------------------------------------------------
\* An agent that runs is tracked by its session, about to be killed, or in the
\* hands of the active job; what is left are the agents whose start or kill was
\* lost in a crash or with an answer.  Removal, respawn and the three checks of
\* runJob meet in any order (spawn-queue.ts:234-308, store.ts:565).
AgentIsAccountedFor ==
  \A j \in running \ lost :
    \/ tracked[SessionOf(j)] = j
    \/ j \in kills
    \/ active = j /\ phase \in {"start", "undo"}

\* What the Hub signals by a pid it read before an await is never the agent that a
\* session tracks by then: not the kill that a respawn or a removal leaves behind
\* (store.ts:575), not the undo of the third check (spawn-queue.ts:282), not the
\* sweep after a crash.  A tracked agent ends by itself, or by a request that
\* PolarProcess handles late: a stop request names the session's service and not
\* the pid, so that one sent for the agent before may stop it.
TrackedAgentIsSpared ==
  [][\A s \in Sessions :
       LET a == tracked[s]
       IN  a \in running \ running' /\ tracked'[s] = a
             => AgentExits(a) \/ stops'[s] < stops[s] \/ start' # start]_vars

\* The outcome of a job is final, also when the job is cancelled first and its
\* turn in the chain comes later (spawn-queue.ts:125, 234).
SettledIsFinal ==
  [][\A j \in DOMAIN job : job[j].status \in Settled => job'[j].status = job[j].status]_vars

\* A batch is completed exactly when all its jobs are done, failed when all are
\* over and one failed, and while it is open one of its jobs is at work or still has
\* its turn: cancellation settles batches early, later jobs of them still run through
\* the chain, and an evicted batch is settled too (spawn-queue.ts:190, 327-337).
BatchVerdict ==
  \A b \in DOMAIN batch :
    LET mine == {j \in DOMAIN job : job[j].batch = b}
        outcomes == {job[j].status : j \in mine}
    IN  /\ batch[b] = "completed" => outcomes = {"done"}
        /\ batch[b] = "failed" => outcomes \subseteq Settled /\ "failed" \in outcomes
        /\ batch[b] \in {"queued", "running"} => \E j \in mine : j > begun \/ j = active

\* A budget lease that a job knows of is given back before the job is over: every
\* way out of runJob releases it (spawn-queue.ts:327), so that only a lost grant, a
\* failed release or a crash leaves a lease to its time to live.
LeasesAreReturned == leases \subseteq {active}

\* Every job that is enqueued is settled, unless the Hub dies: one job that fails
\* or hangs does not stop the chain (spawn-queue.ts:174, 327-337).
EveryJobSettles ==
  \A j \in Jobs : (j \in DOMAIN job) ~>
    (j \in DOMAIN job /\ job[j].status \in Settled \cup {"forgotten"})

\* Once a session is removed its agents stop for good, whatever the queue was
\* awaiting, except those the Hub lost sight of (spawn-queue.ts:282, store.ts:529).
RemovedAgentStops ==
  \A s \in Sessions : (session[s] = "removed") ~>
    [](AgentsOf(s) \cap running \subseteq lost)
=============================================================================
