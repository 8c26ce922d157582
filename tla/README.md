# A verification project for PolarCopilot

TLA+ models of the parts of PolarCopilot in which several agents, processes and
failures meet, checked with TLC and, for the central invariants, proved with
TLAPS. The reference is the TypeScript under `hub/src`; every definition that
models code is listed with its lines in `PROJECT.json` (`map`).

Contents: [the system](#the-system) - [modules](#modules) -
[runs](#runs-and-their-bounds) - [fairness](#fairness) - [proofs](#proofs) -
[disagreements found](#where-code-and-documentation-disagree) -
[what is not modelled](#what-is-not-modelled) - [plan](#plan)

## The system

The **Hub** is one Node.js process with a SQLite database. Agents (Cursor
sessions driven by a language model) call it through MCP tools; a web panel
calls it through HTTP. The **RR** subsystem serves sessions that talk to the
panel through files: every Cursor agent has its own **stdio MCP server**
process, and all of these and the Hub share one data directory.

| Component | State | Operations | Interacts through | Hard behaviour |
|---|---|---|---|---|
| RR session store (`rr/store.ts`) | files: `sessions`, `inbox`, `processing`, `task-locks`, `tasks`, tombstones | register, wait, reply, dispatch, report, complete, recover, remove | shared directory, no locks except `open(..., 'wx')` and `rename` | every file operation interleaves with other processes; crashes between two of them; stale reads; time-outs |
| RR MCP server (`rr/mcp-server.ts`, `stdio-server.ts`) | none of its own | the store's operations as tools, a recovery timer | the store | dies and is restarted by Cursor; calls are retried |
| Task queue (`tasks/*.ts`) | tables `tasks`, `task_dependencies`, `module_affinity` | create, split, claim, heartbeat, complete, block, cancel, declare ownership | SQLite, one process | leases that run out, late completions, agents that never return, crashes between statements, head-of-line blocking |
| Persistence (`persistence/store.ts`, `db.ts`) | all tables | sessions, messages, events and cursors, idempotency keys, weekly collection | SQLite | retention windows against agents that come back |
| Spawning (`rr/spawn-queue.ts`, `cursor-spawn.ts`, `polar-budget.ts`, ...) | promise chain, batches, cancelled sessions; budget leases; processes | enqueue, cancel, run, wait for budget, sweep orphans | HTTP to PolarProcess and PolarBudget | a session is deleted while its spawn is awaited; lost answers; leaked budget |
| Resume leases (`rr/store.ts`) | files: `resume-leases`, their `.lock`, the mark on a claim | acquire, assert, redeliver, claim, acknowledge | shared directory | two owners of one session; a refresh of what was taken over; a claim put back under a worker |
| XJ import and cleanup (`rr/xj-migration.ts`, `xj-cleanup.ts`) | the XJ tree, the RR tree and the raw copy in it, manifest, two lock files, quarantine, snapshots of settings, gate report | plan, import, verify, gate, apply, roll back | files, with XJ, Cursor and the RR agents running | what was verified changes before it is moved; an error half way; the rollback meets a source that came back |
| AFK service (`rr/afk-service.ts`, `rr/afk/*`) | task index, state and summary files, the master's binding, task locks | one click, arm, pause, resume, done, halt, manual tick | files, the store, the service manager | state read before an await and written after it |
| AFK orchestrator (`rr/orchestrator/*`) | its state file: prompts so far, the subagent pool | tick: plan the pool, read the tasks, plan, prompt, save | HTTP to the Hub | every call of a tick is an await; it fails or the process dies between two of them |
| Path leases (`persistence/path-leases.ts`) | table `path_leases` | acquire, release, expire | SQLite | expiry under a live holder |
| Broadcast (`broadcast/*`) | table `events`, cursors, SSE clients | publish, subscribe, catch up | SQLite, SSE | gaps and duplicates at reconnect |
| Questions (`questions/service.ts`) | tables `questions`, `question_dependencies` | ask, claim, answer, escalate, expire | SQLite | escalation and revision in two statements |
| Roles (`roles/manager.ts`, `clk.ts`) | tables `agent_roles`, `reserve_pool`, `clk_state` | assign, succeed, reserve, tick | SQLite | none in the running Hub: only tests construct them |
| Web handlers (`transport/http.ts`) | tables `ui_prompts`, `sessions`; maps of processes, streams and chats | ask, answer, wait, start, kill, sweep, forward | HTTP, SSE, child processes, fetch to PolarClaw | answers for sessions that ended; agents taken for dead while they wait |
| Lifecycle, safety, pilot, runner, evolution, checkup, UI, web, extension | see `PROJECT.json` | | | not concurrent, or input and output |

What makes each correct, in a sentence: the store never loses a task between
its master and its target, nor a panel message; the queue hands a task to one
agent, in order, once, and hands out everything in the end; spawning starts one
agent per session and none for a deleted one, and returns its budget; an imported
session has a mailbox that loses nothing, whoever serves it; leaving XJ loses no
record and no setting; unattended work prompts a task neither too often nor after
it was put aside, and forgets none; a path has one writer; an event is seen once
by every subscriber; a question gets an answer or an end; a role has one holder.

## Modules

| Module | Models | Level |
|---|---|---|
| `Mailbox` | what a session's mailbox promises: a message stays until it was answered | abstract |
| `RrTask` | the subagent task lock and the mailboxes of `rr/store.ts`; implements `Mailbox` | one action per file operation of one process |
| `RrTaskProofs` | theorems about `RrTask`, the refinement among them | |
| `TaskBoard` | what the task queue promises to the agents that share it | abstract |
| `HubTasks` | `tasks/service.ts`, `lease.ts`, `scheduler.ts`, `affinity.ts`, the idempotency keys; implements `TaskBoard` | one action per tool call, cut where a crash leaves a partial effect |
| `HubTasksProofs` | theorems about `HubTasks`, the refinement among them | |
| `SpawnQueue` | `rr/spawn-queue.ts` with the kill and removal of `rr/store.ts`, `cursor-spawn.ts`, `polar-process-client.ts`, `cursor-agent-orphans.ts`, the budget gate | one action from one `await` to the next |
| `SpawnQueueProofs` | theorems about `SpawnQueue` | |
| `RrResume` | the resume lease, claims and replies under it, in `rr/store.ts`; implements `Mailbox` | one action per file operation of one process |
| `RrResumeProofs` | theorems about `RrResume`, the refinement among them | |
| `Xj` | `rr/xj-migration.ts` and `rr/xj-cleanup.ts` with XJ, Cursor and RR beside them | one action per check or change of a tree, record by record where it may be cut short |
| `XjProofs` | theorems about `Xj` | |
| `Afk` | `rr/afk-service.ts`, `rr/afk/store.ts`, `rr/orchestrator/*` together | one action per HTTP call of a tick, and per synchronous function of the Hub |
| `AfkProofs` | theorems about `Afk` | |
| `MCRrTask`, `MCHubTasks`, `MCSpawnQueue`, `MCXj`, `MCAfk` | instances for TLC | |

`RrTask` and `RrResume` are the same mailbox under two protocols: task messages,
removal and one client per session in the first, two clients and the mark of the
lease in the second; both implement `Mailbox`. `SpawnQueue` shares with them the session's removal, `Afk`
the message it places in a master's inbox.

### RrTask

Processes are the masters (which dispatch), the targets (subagents) and the
Hub. `pc[p]` names the next file operation of `p`, `arg`/`at` are the task and
session it works on, `todo` the directory listing a recovery still goes through.

| Variable | In the code |
|---|---|
| `lock[s]`, `written` | `task-locks/<s>.json` and whether its content was written: an empty file reads as no lock (`readTaskLock`) but refuses `open('wx')` |
| `stale[s]` | `updatedAt` and the file's `mtime` are both older than `taskStaleAfterMs` |
| `box[m]`, `home[m]`, `createdAt[m]`, `old` | directory of a message file, its session, the stamp in its name, its age |
| `results`, `notices` | messages to the master: from the target, from `rr-recovery` |
| `session[s]`, `deleted[s]` | `sessions/<s>.json`, tombstone |
| `work[s]`, `waiting[s]` | what the agent behind the MCP server is doing |

Auxiliary variables, which no guard of the code reads: `refused`, `everStale`,
`clobbered`, `answered`, `crashes`, `errors`. `faults` and `reports` are counters for
the bounds.

Actions follow the methods: `Dispatch*` (`dispatchSubagentTask`: `open('wx')`,
write, enqueue, save), `Report*`, `Complete*`, `Recover*`
(`recoverStaleTasks`, with `recoverStaleClaims` at the end), `Wait*`/`Claim*`
(`waitMessage`, `claimNext`), `Reply`, `EnqueueUserMessage`, `Remove*`. `Crash`
kills a process between two file operations; `DispatchWriteFails`, `DispatchFails`,
`CallFails` and `RecoverFails` are file operations that throw, in a dispatch, a report
or a completion, and a recovery: a call of a target fails with what it did so far, and
its agent may call again or let the task drop. Claims, replies and the panel's messages
do not fail in the model, and an error inside the removal of a session is a crash
between its steps. `LockAges` and `MessageAges` are the clock.

`Held(s)`, the panel messages of a session in one of its directories, and `answered`
are its `Mailbox`. `UndisturbedMailbox` says, for every session, that each step is a
step of `Mailbox` or a stutter, up to a restart of the session's agent or the
deletion of the session: task locks, claims given up, recoveries and crashes of the
others take no message away. With a restart the property is false: the agent
has forgotten its claim, and its next reply acknowledges it without an answer.

Simplifications. Files that these protocols write and never read (history,
`tasks/<id>.json`, most session fields) are left out, and a run of operations
that only touches such files is one step with its neighbour. So the write-back of the
session file by a report, a reply or `touchWaiting` is left out, and with it the
return of a deleted session that way. A target reports at most `MaxReports` times, so
what is said of the end of a task holds for targets that stop reporting. A target has one
client. Making a message and writing it is one step; two messages made in the
same millisecond may come in either order.

### HubTasks

The Hub is one process and its handlers are synchronous, so a tool call is one
action. Two calls write several times outside a transaction; `died` and
`Partial` model a crash in between: before the answer is stored under the
idempotency key, and on the way up the tree of parents. Time is two events:
`LeaseLapses` and `KeyExpires`.

| Variable | In the code |
|---|---|
| `status`, `owner`, `row`, `createdAt`, `expired` | the columns of `tasks` (the lease as: has it run out) and `task_dependencies` |
| `affinity` | `module_affinity` |
| `cache` | `idempotency_keys` |
| `alive` | the agent still calls the Hub |

Auxiliary: `completions`, `everDone`, `interrupted`, `acted`, `forgotten`.

`Ready`, `Before` and `Windows` are the ready query with its `ORDER BY` and
`LIMIT`; `Picks` is the module-affinity tier, `GateOpen` the compile gate;
`Completed` is the recursion of `maybeAutocompleteParent` as the least set that
is closed upward, which for a finite table is what the recursion reaches.
`Board` is the refinement mapping to `TaskBoard`: the rows that exist are what was
asked, `owner` is the holder, `expired` who is late, `everDone` what was finished, and
what is done, blocked or cancelled is closed. `claimTask` is there two things at
once, the late holders lose what they had and one task is handed out; the completion
of parents is the set `D` of `Finish`, each with no part unfinished.

`SafetyLimiter.recordToolCall` has no caller in `hub/src`, so the token tier of
`claimTask` never yields and is left out.

### SpawnQueue

`runJob` is cut at its awaits: `phase` is the await that `active` is at (`gate`,
`stop`, `start`, `undo`, `online`, `finish`), and every action is the code from
one await to the next. The router's handlers (`SpawnCursor`, `SpawnProcess`,
`RemoveSession`) and the delayed kills come in between.

| Variable | In the code |
|---|---|
| `session[s]`, `tracked[s]` | the session file, `cursorAgentPid` and `polarProcessServiceId` in it |
| `job`, `begun`, `active` | the jobs in the order of the promise chain, how far it is, `activeJob` |
| `batch` | the batches in the order of `createBatch` (0: a job without batch) |
| `kills` | pids that `stopCursorAgentForSession`, not awaited, kills when its stop call is over |
| `suspects` | what the start-up sweep found before it awaits PolarProcess |
| `stops[s]`, `start[j]`, `running` | PolarProcess: requests on their way, processes |
| `leases`, `stray` | PolarBudget: leases a job knows of, leases that only expire |

`lost` is auxiliary: the agents whose start was never answered, or whose kill a
crash forgot. An agent is named by its job. A caller may stop waiting for
PolarProcess at any time and its request may still be handled later; a start
replaces the process the service has. `cancelledSessionIds` is implied by the
removal of the file, in the same tick. That removal is one step: a crash inside
it, and other processes that write back a session file, are left out here.

The model shows what `AgentIsAccountedFor` has to except: a start that times
out but happens, and a crash between start and record, leave an agent that no
later removal stops. It also reaches a stop request of the old agent that is
handled after the start of the new one and stops that: the request names the
service, not the pid. `TrackedAgentIsSpared` excepts it and says the rest: no signal
by pid, of a kill, an undo or the sweep, hits an agent that a session tracks by then.

### RrResume and Mailbox

An imported XJ session is taken over by the agent that registers as "continue".
Each of `Owners` is an MCP server with one agent; `pc[o]` names its next file
operation, `seen[o]` the lease it read last, `list[o]` the directory entries it
has still to look at, `work[o]` the message its agent works on.

| Variable | In the code |
|---|---|
| `lease`, `issued` | `resume-leases/<session>.json`: owner, id, and `live` for an expiry that has not passed |
| `guard` | the `.lock` file beside it |
| `inbox[m]`, `processing[m]` | the message file with its claim mark (`Unmarked`, or a lease id); a rename takes the mark along |
| `answers[m]` | answers to a message in the history |

`Resume*` and `Redeliver*` are `acquireResumeLease` and
`redeliverExpiredResumeClaims`; `Assert*` is `assertResumeOwner`, which takes no
lock, before each claim, after it and in `reply`; `Claim*` is `claimNext`,
`Ack*` is `acknowledgeOne`. `Lapse` is the clock, `RecoverStale` is
`recoverStaleClaims` of any process. A write to a path makes the file anew there,
also when it was renamed away: `RedeliverWrite` and `ClaimMark` may leave a
message in both directories, which is why delivery is at least once.

`Mailbox` has two sets, the messages held and the messages answered. `Put` is a
message that comes or comes back; in `Settle` messages are answered, and what has an
answer may leave, in that step or later. `Held` and `Answered` are the refinement mapping of `RrResume`; `TimelyMailbox` says that
every step is a step of `Mailbox` or a stutter, up to the first lapse of a living
owner's lease. `rr_resume_isolation` shows what happens after it.

### Xj

A tree is the set of the records in it, `{}` for none: audits and hashes compare
contents, here sets. `Records` is all that XJ may ever write.

| Variable | In the code |
|---|---|
| `place`, `xjUp` | `~/.xj-cursor`; is XJ or Cursor running |
| `archive`, `gate` | the offline archive; the tree of the gate report |
| `raw`, `manifest`, `dest[r]` | `compat/xj/raw`, `import-manifest.json`, what is at the place of a record in the RR tree |
| `importLock`, `cleanupLock` | `.xj-import.lock`, `.xj-cleanup.lock`; `Stale`: its writer is gone |
| `ipc`, `plan`, `todo` | an import: its step, planned tree, records still to be written |
| `cpc`, `evidence`, `saved`, `left`, `late`, `outcome` | the cleanup: its step and locals |
| `quarantine`, `journal` | `quarantined-xj` of this cleanup; records in journals that were left behind |
| `config[t]`, `backup[t]` | a settings file, registry or database with XJ entries, and its copy in a journal |

`written`, `inserted`, `taken` and `deleting` are auxiliary. The import is
`PlanImport` to `UnlockImport`; it copies and writes record by record, and
`ImportFails` and `CrashImport` cut it anywhere. The cleanup is `ApplyLock` to
`ApplyUnlock`: gate, recheck, snapshot, rename, check, mutate, check, delete. The
rollback is `RollbackLate` (a source that came back goes into the journal),
`RollbackReturn`, then `RestoreRemove` and `RestoreCopy` for each target.
`RawMatches`, `ManifestMatches` and `NativeMatches` are the comparisons of
`verifyXjImport`. `XjStartStop`, `XjWrite`, `CursorFlush`, `RrCreate` and
`RrRemove` are everybody else, at any moment: the code checks that Cursor is
stopped, it does not keep it from starting. `RrRemove` is an agent of RR that takes
an imported message, or the panel that deletes a session with its files
(`removeSession`), an imported one or one of RR's own. The one assumption about the operator
is that the archive is not replaced once the deletion has begun (`MakeArchive`).

The takeover rehearsal of the gate works on a clone of the RR tree and leaves no
state; it is not modelled step by step.

### Afk

| Variable | In the code |
|---|---|
| `index`, `status[t]`, `master[t]` | `index.json`; `state.json` and `summary.json` of a task |
| `bound[m]`, `inbox[m]`, `claim[m]`, `presence[m]` | `afkTaskId` of a session, its inbox by the origin of a message, the message in its processing directory, its presence |
| `click`, `enabled` | a one-click start that awaits the service; the orchestrator's flag file |
| `step`, `todo`, `cand`, `batch`, `current` | where the tick is, and the copies it works from |
| `lock` | the task lock files |
| `file`, `mem` | the orchestrator's state on disk and in the tick: prompts of a task (`loops`) and the order of the last ones (`at`) |
| `known`, `fresh`, `missing`, `stray` | the subagent pool: listed, created in this tick, still to create, forgotten |

`sent`, `late`, `passed`, `faults` and `commands` are auxiliary. `Begin`, `Prune`,
`Create`, `ReadTasks`, `LookDue` or `LookAway`, `Choose`, `Acquire` or `LockHeld`,
`Send` and `Save` are `tickOnce` in order. `Due` is the planner's gates; cooldown
and idle time depend on the clock, so a task that is due may also be passed over
(`LookAway`). `Throw` is a failing call, `Stop` the end of the process at any
step, `Tear` its end inside the write of the state file. `TakeMessage`, `Answer` and
`PutBack` are the claim of a master, its reply and `recoverStaleClaims`, which any
process may run; `RemovePooled` is a pooled session that is removed, or whose
subagent switch is turned off. `OneClick` and
`OneClickDone` are the two sides of its await.

At this commit some files import functions that the modules they name do not
export (`markTaskDone`, `readActiveTaskSnapshots`, the per-task slices of the
orchestrator's state, the admission cap, the budget shedder). What they do is
modelled from how they are used, and marked external in the map.

## Runs and their bounds

| Run | Shows | Bounds |
|---|---|---|
| `rr_task_safety` | `TypeOK`, `TimelyTargetIsUndisturbed`, `AcknowledgedWasAnswered`, `UndisturbedMailbox` | 1 master, 1 target, 2 tasks, a panel message: two tasks are needed for one lock to follow another, the panel message for a reply to meet the claim of a task; no fault |
| `rr_task_live` | `ReleasedImpliesTold`, `ResultRepeatsOnlyAfterFailure`, `AcceptedLeadsToTold`, `LockLeadsToFree` | 1 task, 1 fault (crash or failing operation), 1 progress report, deletion of the target: one fault reaches every point between two file operations |
| `rr_task_foreign` | `NoForeignRelease` is violated | 2 tasks, 1 progress report, no fault |
| `rr_task_deadletter` | `ChatLeadsToDelivered` is violated even by agents that always call their tools | 1 task, 1 panel message, no fault |
| `hub_tasks_safety` | `TypeOK`, `CompletedOnce`, `NoStrandedParent`, `ImplementsBoard` | a tree of three levels with a compile task that depends on its leaf, 2 agents that also withdraw tasks, 1 lapse, a window of 2 |
| `hub_tasks_live` | `KeyActsOnce`, `WorkIsReady`, `AllWorkIsDone` | 2 tasks of a module (the second a part of the first, or dependent on it, or both, which is a circle), an agent that stops for good, 1 lapse of the steady agent, 1 crash, 1 key |
| `spawn_queue_safety` | `TypeOK`, `AgentIsAccountedFor`, `TrackedAgentIsSpared`, `BatchVerdict`, `LeasesAreReturned`, `SettledIsFinal` | 2 sessions, 2 jobs (a respawn, two singles or batches, a batch of two), 1 kept batch, so that a second evicts the first, 1 crash |
| `spawn_queue_live` | `EveryJobSettles`, `RemovedAgentStops` | 1 session, 2 jobs, 1 crash: a respawn and a removal at every await |
| `rr_resume` | `TypeOK`, `AnsweredOnce`, `SentLeadsToAnswered`, `TimelyMailbox` | 2 owners, one of which never dies, 2 messages, 1 crash anywhere, 2 claims recovered under a worker, no lapse of a living owner: the second owner serves what the first left, the second message may be taken for the first |
| `rr_resume_isolation` | `AcksOwnClaim` is violated | 2 owners, 2 messages, 1 lapse |
| `xj` | `TypeOK`, `SourceIsKept`, `SettingsAreKept`, `ManifestMeansImported`, `InsertedOnce`, `NothingIsOverwritten`, `RolledBackIsRestored` | 3 records (session, message, history line), of which XJ starts with two and may write the third at any moment, 2 imports, 1 settings file, 1 fault; one imported record leaves RR once, records of RR come and go freely |
| `afk` | `TypeOK`, `PromptsDoNotPile`, `PauseHolds`, `LoopsAreBounded`, `PoolIsBounded`, `RotationIsFair` | 2 running tasks of 2 masters, a cap of 1, so that one task is put off, a pool of 1, `MaxLoops` 2, 1 command or fault, and what follows it (the end of a one-click start, a resumption, starts); masters take, answer and leave messages freely, and claims are put back at any moment |

`SYMMETRY` is used in the runs that check safety only, over task ids, panel
messages, agents, sessions or importers, none of which the specifications name, and
in `afk` over the two tasks each with its master.
Deadlock is checked in `xj`; the other systems stop when every id, message or
command is used.

The bounds are counters in the guards: `MaxFaults`, `MaxReports` (`RrTask`);
`MaxLapses`, `MaxCrashes`, `ReadyLimit` (`HubTasks`; the code's limit is 20);
`MaxJobs`, `MaxCrashes`, `KeptBatches` (`SpawnQueue`; the code keeps 10);
`MaxMsgs`, `MaxLapses`, `MaxStale`, `MaxCrashes` (`RrResume`); `MaxFaults`,
`MaxTaken` (`Xj`: once an imported record left RR that often, none does);
`MaxEvents` (`Afk`, commands and faults together, but not what follows them), where
`MaxLoops`, `Cap` and `Desired` are limits of the code itself and `passed` is
counted up to `PassLimit`.
Ids are not reused, as in the code.

## Fairness

`RrTask!Fairness`: a method that has begun runs on (Node does not stop in the
middle of synchronous code; a crash is an action and is bounded), the Hub's
bridge timer calls `listSessions`, hence recovery, again and again, and locks
age. Nothing is assumed of agents, of the user or of further dispatches, so
`AcceptedLeadsToTold` holds for a target that never calls a tool again.
`DiligentAgents` is assumed only where a violation is shown: it makes the agents
as cooperative as their instructions ask, and the property still fails.

`HubTasks!Fairness`: steady agents poll with no stage filter and complete what
they hold; other agents stop some day; the leases of agents that stop run out;
the weekly collection of `server.ts` runs. These are what the agents'
instructions and the timers provide.

`RrResume!Fairness`: a server that lives goes on, an agent does not leave every
message it is given unanswered, the lease of a dead owner runs out, and a claim
that nobody works on is recovered, by the Hub or by any server that waits.
`SentLeadsToAnswered` makes two exceptions: a lapse of a living owner, and
`StuckGuard`, a server that died inside `acquireResumeLease` and left its `.lock`
file, which no code removes.

`SpawnQueue!FairSpec`: every await of the queue ends, because each has a time-out
(15 s for PolarProcess, 30 min for the budget, 90 s for the agent), the chain
goes on, and a kill that was scheduled happens. PolarProcess and the agents owe
nothing.

## Proofs

`tlapm` checks all of the six `*Proofs` modules. The only assumptions are the
named ones on the constants of each model (`ConstantsAssumption`,
`ResumeAssumption`, `XjAssumption`, `AfkAssumption`, and `TasksAssumption`: the
tasks of `Afk` are finitely many), which TLC evaluates in
every run of that model.

**RrTask.** The invariant is `TypeInv /\ HomeInv /\ ToldInv /\ RepeatInv /\ TimelyInv /\
AnswerInv`. `HomeInv` says which process may hold a task id: a dispatcher alone before the
message is sent, and only the process of the target or a recovery that read it
from the target's lock afterwards. Without it a step of one task could not be
told from a step of another. `ToldInv` carries the crash safety through the
program points: whoever stands behind the enqueue of a result or notice has
told the master. `RepeatInv` counts the results already sent by a process in
the middle of a completion against its crashes and the calls that failed after
they had sent one. `TimelyInv` says that no
recovery stands at a lock that never went stale. `AnswerInv`: while its agent
does not restart, a target has in `processing` only what it answered or is at work
on, and a process that completes a task has that task in hand and no panel
message. From these follow

* `TypeCorrect`, `ReleaseIsTold`, `TimelyIsUndisturbed`, `RepeatNeedsFailure`,
  `AcknowledgesAnswered` for any number of sessions, tasks, messages, faults and reports.
* `OneAtATime`: a session has one accepted task at most that its master was not told
  the end of. Two such tasks would share the lock.
* `MailboxKept` (`UndisturbedMailbox`). A claim and a claim put back leave `Held` as it
  is, a panel message is `Put`, and a reply is `Settle`, by `AnswerInv`: what it
  removes is what it answered.

**HubTasks.** The invariant is `TypeOK`, `CompletedOnce`, `ClaimedAfterDependencies`,
`NoStrandedParent`, `KeyActsOnce`, and `RowInv` (a row refers to rows that exist),
`OnceInv` (a task that can still be completed has not been), `DoneInv` (a done task was
done at some time), `KeyInv` (a key with no answer has not acted unless its answer was
lost). `NoStrandedParent` is inductive because `Completed` is closed upward
(`CompletedIsUpward`).

* `TaskTableTypes`, `OneCompletion`, `DependenciesFirst`, `ParentsFollow`,
  `KeysActOnce` for any agents, tasks, modules, requests and bounds.
* `InOrder`: what was completed was completed after all it depends on was done.
* `BoardIsKept` (`ImplementsBoard`), action by action. A task that `claimTask` picks
  is not closed and its holder is late or gone (`LateInv`: only a claimed task is
  late). The completion is `Finish`: each parent that follows has a part among those
  completed and none left (`CompletedFollows`, from the closure that defines
  `Completed`).
* `SomeWorkIsReady` (`WorkIsReady`), for any requests. Rows refer to rows that were
  there before (`OrderedInv`): any set of rows has one that is no part of another in it,
  and one that depends on none of it. Go down from an open whole to open parts: the lowest
  whole with open work inside has open parts with no open part of their own; unless one
  of them is entangled with work outside of the whole, they depend on each other at
  most, and one of them is ready. The theorem is about the ready query; whether
  the compile gate and the affinity tier hand out what it finds is not claimed.

**SpawnQueue.** Three invariants, on top of the types. `AgentInv` carries the
accounting of agents: a session tracks nothing while its own job stops, starts or
undoes, which is why a late answer cannot overwrite a tracked agent; every tracked
or doomed agent has started and its job let it go (`LetGo`), so a kill never hits
an agent still to be tracked; a request to start is `lost` as soon as its job moves
on without the answer. `JobInv` says where a job stands: behind `begun` it waits or
was cancelled with its session, between the awaits it is not settled, and only the
active job has a lease. `BatchInv` is the verdict of `BatchVerdict` job by job, with the fact that no batch is
empty and no later job joins one. `TurnInv`: a job behind the active one is over. From
it follows `OpenInv`, the other half of `BatchVerdict`: the turn of the last job that
was not over settles its batch, so an open one has a job ahead. `SweepInv`: what the
sweep looks for began before the active job and is tracked by no session.

* `TypeCorrect`, `AgentsAreAccountedFor`, `TrackedIsSpared`, `LeasesReturned`,
  `SettledFinal`, `VerdictsCorrect` for any number of sessions, jobs, batches that
  are kept, and crashes.
* The safety halves of the two liveness properties. Of `EveryJobSettles`:
  `NoneLeftBehind`, a job that is not over is ahead, and an idle queue has settled
  all. Of `RemovedAgentStops`: `RemovedAreDoomed`, what still runs of a removed
  session is about to be killed, comes to the check that undoes it, or is `lost`;
  and `RemovedStayQuiet`, once nothing of it runs or is on its way, no step brings an
  agent back. What is left to TLC is that the queue and the kills go on.

**RrResume.** The invariant comes in layers. `ListInv` and `GuardInv`: a server
that looks at a name has one, and one that resumes holds the `.lock` file. While
no living owner's lease lapsed, `TimelyInv`: the owner is the only server at
work, its lease is the one it read, it is taken over only when dead, it finds no
claim when it takes one, and later none but its own, and what it acknowledges was
answered. While also no claim was recovered under a worker, `HandInv`: the claim
in hand is there with its mark, a message is in one directory, and `Counted`, the
answers of a message and one more while it can still be answered are at most one
more than the crashes.

* `TypesHold`, `Once` (`AnsweredOnce`) for any servers, messages and faults.
* `Implements` (`TimelyMailbox`): the initial state maps to that of `Mailbox`; a
  claim and a claim put back stutter, a message sent or written anew is `Put`, and an
  answer and a removal are `Settle`, the removal only because `TimelyInv` says that
  the message was answered.
* `AsksAlone`: the `.lock` file keeps all but one server out of `acquireResumeLease`,
  also when leases lapse. `ServesAlone`, `AcksOwnInTime`: until the first lapse of a
  living owner's lease one server serves the session, and no reply removes the claim of
  another's agent. So a lapse is the only cause of what `rr_resume_isolation` shows.

**Xj.** `ImportInv`: the lock has one holder, an importer's account of what it has
still to write is right (`WorkInv`), and a record was imported at most once more
than it left RR (`CountInv`); nobody else writes while the holder is inside,
which makes its check good until its last write. `SourceInv`: a record that is
nowhere was deleted, and is in archive, raw copy and manifest, which only grow
then; with `CountInv`, RR has such a record or it was consumed or deleted there
(`SourceIsKept`). `CleanupInv`: where the copies of the settings are, what has been restored,
and where the tree of the gate is at each step of the cleanup and the rollback.

* `TypesHold`, `SourceKept`, `SettingsKept`, `ManifestImported`, `Inserted`,
  `NothingOverwritten`, `RolledBack` for any records, importers, settings and faults;
  `OneImports`, that only the holder of the lock is inside the import.

**Afk.** What a tick holds depends on how far it is (`StageInv`). A prompt is
prepared for a master whose inbox was empty, so that one of that task is with the
master at most, in its hand, and a claim that is put back changes the place of a
prompt and not the number (`PromptInv`); for a task that was active when it was read
(`PauseInv`); for a task whose count is below the limit, in a copy that a fault
can only set back to a state within it (`LoopsInv`). What a tick creates fills up
the pool the file lists, and a fault forgets at most one (`PoolInv`).

The turns have an invariant of their own, `RotationInv`. Behind a task `t` are
those that may still be preferred to it: not chosen in this tick and last prompted
no later. Each tick that puts `t` off takes `Cap` tasks out of that set, and a prompt
puts its task above every time in the file, so nobody joins it until a fault sets
the times back. Hence `Cap` times the ticks that put `t` off, plus the number of
those behind it, is at most the number of other tasks, once more for every fault.

* `TypesHold`, `PromptsAreFew`, `PauseIsKept`, `Bounded`, `PoolBounded`,
  `TurnsAreTaken` for any tasks, masters, limits and faults.

Only model-checked: the liveness properties (`AcceptedLeadsToTold`,
`LockLeadsToFree`, `AllWorkIsDone`, `EveryJobSettles`, `RemovedAgentStops`,
`SentLeadsToAnswered`), which need fairness and `ENABLED`, out of the prover's
reach, and the violations.

## Where code and documentation disagree

Each is a run that must fail; `PROJECT.json` (`findings`) quotes the lines.

1. `rr_task_foreign`: the task lock is removed by path, without asking which
   task it holds, so an overtaken recovery or completion frees the target of
   the task dispatched next.
2. `rr_task_deadletter`: the message of a task recovered before it was claimed
   stays at the head of the mailbox; the agent can neither work on it nor
   acknowledge it, and the panel messages behind it are never delivered.
3. `rr_resume_isolation`: a claim that was put back keeps the mark of the lease
   it was claimed under, and an owner whose lease was taken over brings it back
   by refreshing what it read; the reply of one owner then removes the claim the
   other's agent works on.

Other weaknesses that the models show. The properties name them as exceptions:

* a start of an agent that times out and happens all the same, or whose answer a
  crash loses, leaves an agent that nothing can find (`lost` in `SpawnQueue`);
* a server that dies inside `acquireResumeLease` closes the session to every later
  "continue" (`StuckGuard`), and an import or a cleanup that dies leaves a lock
  file that somebody has to remove by hand;
* the task lock of a subagent is created and then written (`rr/store.ts:408`). A crash
  or a failed write in between leaves an empty file, which refuses every later
  dispatch, while `readTaskLock` and `recoverStaleTasks` take it for no lock and the
  target is listed as idle. `LockLeadsToFree` excepts it (`EmptyLock`);
* a task lock left by an orchestrator that was stopped is never taken over. Its
  task takes a slot of every tick, so with a cap of one no other task is ever
  prompted. `RotationIsFair` is stated for ticks without such a lock;
* the inbox is looked at and the prompt placed some calls later, and a claimed prompt
  may come back in between: a prompt may be placed on top of others, although the
  comment at the gate (`planner.ts:206`) says "never pile into a non-empty inbox".
  `PromptsDoNotPile` is what does hold: two prompts of a task at most, the one a
  master had claimed and the one that was to wake it;
* `claimTask` returns for the first candidate in every branch of its loop: when the
  compile gate refuses it (`tasks/service.ts:315`), an execute task hides the compile
  task it waits for. `AllWorkIsDone` is checked for tasks of one stage;
* `createTask` checks that the dependencies and the parent exist, not that they do not
  wait for the new task (`tasks/service.ts:103`). A part that depends on its whole is
  accepted, neither of the two is ever ready, and nothing but a withdrawal ends
  that. `Entangled` excepts it in `WorkIsReady` and `AllWorkIsDone`, and the
  requests of `hub_tasks_live` include one;
* a stop request that PolarProcess handles late stops the agent started since, for
  it names the service (`TrackedAgentIsSpared` excepts it);
* a crash of the Hub between a completion and that of the parents (`interrupted`), or
  before the answer of a keyed call is stored (`forgotten`), has its effect: the
  properties name it and do not exclude it;
* one click writes back, after its await, the state it made before it: a task
  paused meanwhile becomes READY, while the index leaves it out.

## What is not modelled

`components` in `PROJECT.json` says it for each part.

* Questions: a synchronous service of the one Hub process over tables of its own.
  Claim and lease repeat the pattern of `HubTasks`; escalation and revision are
  two statements each.
* Roles and the runner are constructed by tests only, and nothing in `hub/src`
  imports the pilot engine: they are no part of the running Hub. Session lifecycle
  classifies heartbeats by age.
* Handlers of `transport/http.ts` with state of their own: prompts and their
  streams, processes of agents started from the page, PolarClaw chats. No
  property is about these hazards: the answer of a chat whose session ended
  leaves a card no collection closes; the sweep kills an agent once 90 seconds
  have passed since it connected, however often it beats; the weekly collection closes the prompt of an
  agent that waits on its stream, and tells nobody.
* Path leases and broadcast: an operation on a path is one statement after the
  deletion of what expired, so exclusion would hold by the shape of a model; what
  a subscriber can lose is decided by the lengths of retention windows.
* In the modelled parts: registration, renaming and the subagent switches of the
  store, a pid in the session file under the write-back of another process,
  heartbeats, path grants and the legacy branch of the AFK code, budget shedding,
  the polling loop of PolarBudget, the takeover rehearsal of the cleanup gate. The
  token tier of the scheduler is dead code.
* User interfaces (web panel, VS Code extension, HTML of the Hub), schemas,
  routing, scripts and deployment keep no state of the system; they are most of
  the repository's lines.

## Plan

Done: `RrTask` and `RrResume` with `Mailbox`, `HubTasks` with `TaskBoard`,
`SpawnQueue`, `Xj`, `Afk`; every invariant and every action property of their runs is
proved. What is left, in this order:

1. An abstract specification of the subagent task lock, told once after it was accepted,
   that `RrTask` implements up to the disagreements found; one of the spawned
   agents, for `SpawnQueue`.
2. The session file under the write-back of several processes: pid and service
   of `SpawnQueue` with the registration of `RrTask`.
3. `Questions`, and with them an abstract lease that `TaskBoard`
   and they implement.
4. `UiPrompts`: a prompt is answered once and its waiter told, over streams that
   drop; agents started, swept and killed; chats that end while a forward waits.
