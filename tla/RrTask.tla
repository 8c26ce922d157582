------------------------------- MODULE RrTask -------------------------------
(***************************************************************************)
(* The subagent task lock of hub/src/rr/store.ts.                          *)
(*                                                                         *)
(* Several operating-system processes share one directory: the Hub, and    *)
(* one stdio MCP server per Cursor agent.  A store method is synchronous,  *)
(* so a process runs one method at a time, but other processes interleave  *)
(* at every file operation.  Each action below is therefore one file       *)
(* operation of one process; pc[p] says which one comes next.              *)
(*                                                                         *)
(* Left out: texts, and the files this protocol writes and never reads     *)
(* (history, tasks/<id>.json, the session fields other than existence).    *)
(***************************************************************************)
EXTENDS Integers

CONSTANTS Masters,      \* sessions that dispatch, each with its own process
          Targets,      \* subagent sessions, each with its own process
          Hub,          \* the Hub process
          Tasks,        \* task ids; the message of a task has the same name
          Chats,        \* messages typed by the user in the panel
          None,
          Recoverers,   \* processes whose recovery timer is modelled
          Removable,    \* sessions the user may delete
          MaxFaults,    \* crashes and failing file operations, together
          MaxReports    \* progress reports of one target

Msgs  == Tasks \cup Chats
Procs == Masters \cup Targets \cup {Hub}

Labels == {"idle", "d_create", "d_write", "d_enqueue", "d_session",
           "r_lock", "c_notify", "c_ack", "c_unlock",
           "v_scan", "v_notify", "v_ack", "v_unlock", "claim",
           "x_inbox", "x_processing", "x_lock"}

ASSUME ConstantsAssumption ==
  /\ None \notin Msgs \cup Procs
  /\ Tasks \cap Chats = {}
  /\ Masters \cap Targets = {}
  /\ Hub \notin Masters \cup Targets
  /\ Recoverers \subseteq Procs
  /\ Removable \subseteq Targets
  /\ MaxFaults \in Nat
  /\ MaxReports \in Nat

VARIABLES
  lock,      \* task-locks/<s>.json: the task that created or rewrote it, or None
  written,   \* tasks whose lock file received its content after openSync
  stale,     \* the lock of s has not been refreshed for taskStaleAfterMs
  box,       \* where the message file is
  home,      \* the session a message is addressed to
  createdAt, \* the time stamp that begins a message file's name
  old,       \* messages whose file is older than taskStaleAfterMs
  results,   \* subagent_result messages from the target, per task
  notices,   \* subagent_result messages from rr-recovery, per task
  session,   \* sessions/<s>.json exists
  deleted,   \* s has a tombstone
  pc, arg, at, todo,  \* per process: next file operation and its operands
  work,      \* the message the agent of s believes it is working on
  waiting,   \* the agent of s is inside wait_message
  now,       \* the largest time stamp given out
  crashes,   \* crashes of each process
  errors,    \* completions of each target that failed after sending the result
  faults, reports,    \* counters for the bounds
  refused,   \* tasks whose dispatch threw after the lock was created
  everStale, \* some lock of s has gone stale
  clobbered, \* tasks whose lock an operation on another task took away
  answered   \* user messages the agent replied to while working on them

taskVars  == <<lock, written, stale, refused, everStale, clobbered>>
msgVars   == <<box, home, createdAt, old, now>>
toldVars  == <<results, notices>>
sessVars  == <<session, deleted>>
procVars  == <<pc, arg, at, todo>>
agentVars == <<work, waiting, reports, answered>>
faultVars == <<crashes, errors, faults>>
vars == <<taskVars, msgVars, toldVars, sessVars, procVars, agentVars, faultVars>>

Init ==
  /\ lock = [s \in Targets |-> None]
  /\ written = {} /\ refused = {} /\ clobbered = {} /\ old = {} /\ answered = {}
  /\ stale = [s \in Targets |-> FALSE]
  /\ everStale = [s \in Targets |-> FALSE]
  /\ box = [m \in Msgs |-> "none"]
  /\ home = [m \in Msgs |-> None]
  /\ createdAt = [m \in Msgs |-> 0]
  /\ now = 0
  /\ results = [t \in Tasks |-> 0]
  /\ notices = [t \in Tasks |-> 0]
  /\ session = [s \in Targets |-> TRUE]
  /\ deleted = [s \in Targets |-> FALSE]
  /\ pc = [p \in Procs |-> "idle"]
  /\ arg = [p \in Procs |-> None]
  /\ at = [p \in Procs |-> None]
  /\ todo = [p \in Procs |-> {}]
  /\ work = [s \in Targets |-> None]
  /\ waiting = [s \in Targets |-> FALSE]
  /\ crashes = [p \in Procs |-> 0] /\ errors = [s \in Targets |-> 0] /\ faults = 0
  /\ reports = [s \in Targets |-> 0]

-----------------------------------------------------------------------------
(* File operations and control flow shared by the methods. *)

\* readTaskLock: an empty lock file does not parse and reads as no lock.
ReadLock(s) == IF lock[s] \in written THEN lock[s] ELSE None

\* rmSync(lock, {force: true}) by an operation on t: whatever the file holds.
RemoveLock(s, t) ==
  /\ lock' = [lock EXCEPT ![s] = None]
  /\ clobbered' = clobbered \cup ({lock[s]} \ {t, None})

Goto(p, label) == pc' = [pc EXCEPT ![p] = label] /\ UNCHANGED <<arg, at, todo>>

Call(p, label, t, s) ==
  /\ pc' = [pc EXCEPT ![p] = label]
  /\ arg' = [arg EXCEPT ![p] = t]
  /\ at' = [at EXCEPT ![p] = s]
  /\ UNCHANGED todo

Return(p) == Call(p, "idle", None, None)

Holds(s, place) == {m \in Msgs : box[m] = place /\ home[m] = s}

\* makeMessage + enqueue of message m to session s.  Messages of one millisecond
\* are in the order of their random ids: a claim may take either first.
Enqueue(m, s) ==
  /\ box' = [box EXCEPT ![m] = "inbox"]
  /\ home' = [home EXCEPT ![m] = s]
  /\ \/ now' = now + 1
     \/ now' = now /\ Holds(s, "inbox") \cup Holds(s, "processing") # {}
  /\ createdAt' = [createdAt EXCEPT ![m] = now']
  /\ UNCHANGED old

\* acknowledgeOne(s, claim => claim.metadata.taskId = t).
AckTask(s, t) ==
  /\ box' = [box EXCEPT ![t] = IF @ = "processing" /\ home[t] = s THEN "gone" ELSE @]
  /\ UNCHANGED <<home, createdAt, old, now>>

-----------------------------------------------------------------------------
(* dispatchSubagentTask, in the process of master p. *)

\* getSession(target) and the checks on it; t is a fresh uuid.
DispatchStart(p, t, s) ==
  /\ pc[p] = "idle" /\ session[s]
  /\ home[t] = None /\ \A q \in Procs : arg[q] # t
  /\ Call(p, "d_create", t, s)
  /\ UNCHANGED <<taskVars, msgVars, toldVars, sessVars, agentVars, faultVars>>

\* openSync(lock, 'wx') fails: target_busy.
DispatchBusy(p) ==
  /\ pc[p] = "d_create" /\ lock[at[p]] # None
  /\ Return(p)
  /\ UNCHANGED <<taskVars, msgVars, toldVars, sessVars, agentVars, faultVars>>

\* openSync(lock, 'wx') succeeds: the file exists and is empty.
DispatchCreate(p) ==
  /\ pc[p] = "d_create" /\ lock[at[p]] = None
  /\ lock' = [lock EXCEPT ![at[p]] = arg[p]]
  /\ stale' = [stale EXCEPT ![at[p]] = FALSE]
  /\ home' = [home EXCEPT ![arg[p]] = at[p]]
  /\ Goto(p, "d_write")
  /\ UNCHANGED <<written, refused, everStale, clobbered, box, createdAt, old,
                 now, toldVars, sessVars, agentVars, faultVars>>

\* writeFileSync(fd, task): reaches the file the descriptor names, linked or not.
DispatchWrite(p) ==
  /\ pc[p] = "d_write"
  /\ written' = written \cup {arg[p]}
  /\ Goto(p, "d_enqueue")
  /\ UNCHANGED <<lock, stale, refused, everStale, clobbered, msgVars,
                 toldVars, sessVars, agentVars, faultVars>>

\* writeFileSync throws: the catch reports target_busy and leaves the file.
DispatchWriteFails(p) ==
  /\ pc[p] = "d_write"
  /\ refused' = refused \cup {arg[p]}
  /\ faults < MaxFaults /\ faults' = faults + 1
  /\ Return(p)
  /\ UNCHANGED <<lock, written, stale, everStale, clobbered, msgVars,
                 toldVars, sessVars, agentVars, crashes, errors>>

DispatchEnqueue(p) ==
  /\ pc[p] = "d_enqueue"
  /\ Enqueue(arg[p], at[p])
  /\ Goto(p, "d_session")
  /\ UNCHANGED <<taskVars, toldVars, sessVars, agentVars, faultVars>>

\* saveSession({...target, activeTask}): writes the copy read at the start.
DispatchSession(p) ==
  /\ pc[p] = "d_session"
  /\ session' = [session EXCEPT ![at[p]] = TRUE]
  /\ Return(p)
  /\ UNCHANGED <<taskVars, msgVars, toldVars, deleted, agentVars, faultVars>>

\* A later write throws: the catch removes the lock and rethrows.
DispatchFails(p) ==
  /\ pc[p] \in {"d_enqueue", "d_session"}
  /\ RemoveLock(at[p], arg[p])
  /\ refused' = refused \cup {arg[p]}
  /\ faults < MaxFaults /\ faults' = faults + 1
  /\ Return(p)
  /\ UNCHANGED <<written, stale, everStale, msgVars, toldVars, sessVars,
                 agentVars, crashes, errors>>

-----------------------------------------------------------------------------
(* reportTaskProgress and completeSubagentTask, in the process of target s. *)

\* requireActiveTask: the lock names the task the agent works on.
ReportStart(s) ==
  /\ pc[s] = "idle" /\ ~waiting[s] /\ reports[s] < MaxReports
  /\ work[s] \in Tasks /\ ReadLock(s) = work[s]
  /\ reports' = [reports EXCEPT ![s] = @ + 1]
  /\ Call(s, "r_lock", work[s], s)
  /\ UNCHANGED <<taskVars, msgVars, toldVars, sessVars, work, waiting,
                 faultVars, answered>>

\* atomicJson(lock, next): creates or replaces the file.
ReportLock(s) ==
  /\ pc[s] = "r_lock"
  /\ lock' = [lock EXCEPT ![s] = arg[s]]
  /\ clobbered' = clobbered \cup ({lock[s]} \ {arg[s], None})
  /\ stale' = [stale EXCEPT ![s] = FALSE]
  /\ Return(s)
  /\ UNCHANGED <<written, refused, everStale, msgVars, toldVars, sessVars,
                 agentVars, faultVars>>

\* Mutant of CompleteStart: requireActiveTask is left out.
MutantCompleteUnchecked(s) ==
  /\ pc[s] = "idle" /\ ~waiting[s] /\ work[s] \in Tasks
  /\ Call(s, "c_notify", work[s], s)
  /\ UNCHANGED <<taskVars, msgVars, toldVars, sessVars, agentVars, faultVars>>

CompleteStart(s) ==
  /\ pc[s] = "idle" /\ ~waiting[s]
  /\ work[s] \in Tasks /\ ReadLock(s) = work[s]
  /\ Call(s, "c_notify", work[s], s)
  /\ UNCHANGED <<taskVars, msgVars, toldVars, sessVars, agentVars, faultVars>>

\* task_not_active or task_id_mismatch: the agent drops the task.
TaskRejected(s) ==
  /\ pc[s] = "idle" /\ ~waiting[s]
  /\ work[s] \in Tasks /\ ReadLock(s) # work[s]
  /\ work' = [work EXCEPT ![s] = None]
  /\ UNCHANGED <<taskVars, msgVars, toldVars, sessVars, procVars, waiting,
                 faultVars, reports, answered>>

CompleteNotify(s) ==
  /\ pc[s] = "c_notify"
  /\ results' = [results EXCEPT ![arg[s]] = @ + 1]
  /\ Goto(s, "c_ack")
  /\ UNCHANGED <<taskVars, msgVars, notices, sessVars, agentVars, faultVars>>

CompleteAck(s) ==
  /\ pc[s] = "c_ack"
  /\ AckTask(s, arg[s])
  /\ Goto(s, "c_unlock")
  /\ UNCHANGED <<taskVars, toldVars, sessVars, agentVars, faultVars>>

\* If the answer to the call is lost the agent still works on the task, and retries.
CompleteUnlock(s) ==
  /\ pc[s] = "c_unlock"
  /\ RemoveLock(s, arg[s])
  /\ work' = [work EXCEPT ![s] = None] \/ UNCHANGED work
  /\ Return(s)
  /\ UNCHANGED <<written, stale, refused, everStale, msgVars, toldVars,
                 sessVars, waiting, faultVars, reports, answered>>

\* A write, the search for the claim or the removal of the lock throws: the tool
\* call fails and leaves what it did so far.  The lock stands, so that the agent
\* may call again, or it lets the task drop.
CallFails(s) ==
  /\ pc[s] \in {"r_lock", "c_notify", "c_ack", "c_unlock"}
  /\ errors' = [errors EXCEPT ![s] = IF pc[s] \in {"c_ack", "c_unlock"} THEN @ + 1 ELSE @]
  /\ faults < MaxFaults /\ faults' = faults + 1
  /\ work' = [work EXCEPT ![s] = None] \/ UNCHANGED work
  /\ Return(s)
  /\ UNCHANGED <<taskVars, msgVars, toldVars, sessVars, waiting, reports,
                 answered, crashes>>

-----------------------------------------------------------------------------
(* recoverStaleTasks, in any process: on the timer of stdio-server.ts and of *)
(* router.ts, and in every iteration of waitMessage.                         *)

\* recoverStaleClaims: a claim whose file is old goes back to the inbox, unless
\* it is a task's and its session is still locked.
Abandoned(m) ==
  /\ box[m] = "processing" /\ m \in old
  /\ m \in Chats \/ ReadLock(home[m]) = None

\* A run of the timer that finds nothing to look at changes nothing.
RecoverStart(p) ==
  /\ pc[p] = "idle"
  /\ \/ /\ p \in Recoverers
        /\ (\E s \in Targets : lock[s] # None) \/ (\E m \in Msgs : Abandoned(m))
     \/ p \in Targets /\ waiting[p]
  /\ pc' = [pc EXCEPT ![p] = "v_scan"]
  /\ todo' = [todo EXCEPT ![p] = {s \in Targets : lock[s] # None}]
  /\ UNCHANGED <<arg, at, taskVars, msgVars, toldVars, sessVars, agentVars,
                 faultVars>>

\* readJson throws (removed or empty file), or the heartbeat is recent.
RecoverSkip(p, s) ==
  /\ pc[p] = "v_scan" /\ s \in todo[p]
  /\ ReadLock(s) = None \/ ~stale[s]
  /\ todo' = [todo EXCEPT ![p] = @ \ {s}]
  /\ UNCHANGED <<pc, arg, at, taskVars, msgVars, toldVars, sessVars,
                 agentVars, faultVars>>

\* Mutant of RecoverHit: every lock is recovered, recent heartbeat or not.
MutantRecoverFresh(p, s) ==
  /\ pc[p] = "v_scan" /\ s \in todo[p] /\ ReadLock(s) # None
  /\ pc' = [pc EXCEPT ![p] = "v_notify"]
  /\ arg' = [arg EXCEPT ![p] = lock[s]]
  /\ at' = [at EXCEPT ![p] = s]
  /\ todo' = [todo EXCEPT ![p] = @ \ {s}]
  /\ UNCHANGED <<taskVars, msgVars, toldVars, sessVars, agentVars, faultVars>>

\* Mutant of RecoverHit: the lock is released before the master is told.
MutantRecoverSilent(p, s) ==
  /\ pc[p] = "v_scan" /\ s \in todo[p] /\ ReadLock(s) # None /\ stale[s]
  /\ pc' = [pc EXCEPT ![p] = "v_unlock"]
  /\ arg' = [arg EXCEPT ![p] = lock[s]]
  /\ at' = [at EXCEPT ![p] = s]
  /\ todo' = [todo EXCEPT ![p] = @ \ {s}]
  /\ UNCHANGED <<taskVars, msgVars, toldVars, sessVars, agentVars, faultVars>>

\* Mutant of RecoverHit: a lock that could not be read is recovered all the same.
MutantRecoverUnread(p, s) ==
  /\ pc[p] = "v_scan" /\ s \in todo[p] /\ stale[s]
  /\ pc' = [pc EXCEPT ![p] = "v_notify"]
  /\ arg' = [arg EXCEPT ![p] = lock[s]]
  /\ at' = [at EXCEPT ![p] = s]
  /\ todo' = [todo EXCEPT ![p] = @ \ {s}]
  /\ UNCHANGED <<taskVars, msgVars, toldVars, sessVars, agentVars, faultVars>>

\* Mutant of RecoverHit: only a task that was claimed is recovered.
MutantRecoverClaimed(p, s) ==
  /\ pc[p] = "v_scan" /\ s \in todo[p] /\ ReadLock(s) # None /\ stale[s]
  /\ box[lock[s]] = "processing"
  /\ pc' = [pc EXCEPT ![p] = "v_notify"]
  /\ arg' = [arg EXCEPT ![p] = lock[s]]
  /\ at' = [at EXCEPT ![p] = s]
  /\ todo' = [todo EXCEPT ![p] = @ \ {s}]
  /\ UNCHANGED <<taskVars, msgVars, toldVars, sessVars, agentVars, faultVars>>

RecoverHit(p, s) ==
  /\ pc[p] = "v_scan" /\ s \in todo[p]
  /\ ReadLock(s) # None /\ stale[s]
  /\ pc' = [pc EXCEPT ![p] = "v_notify"]
  /\ arg' = [arg EXCEPT ![p] = lock[s]]
  /\ at' = [at EXCEPT ![p] = s]
  /\ todo' = [todo EXCEPT ![p] = @ \ {s}]
  /\ UNCHANGED <<taskVars, msgVars, toldVars, sessVars, agentVars, faultVars>>

RecoverNotify(p) ==
  /\ pc[p] = "v_notify"
  /\ notices' = [notices EXCEPT ![arg[p]] = @ + 1]
  /\ Goto(p, "v_ack")
  /\ UNCHANGED <<taskVars, msgVars, results, sessVars, agentVars, faultVars>>

RecoverAck(p) ==
  /\ pc[p] = "v_ack"
  /\ AckTask(at[p], arg[p])
  /\ Goto(p, "v_unlock")
  /\ UNCHANGED <<taskVars, toldVars, sessVars, agentVars, faultVars>>

RecoverUnlock(p) ==
  /\ pc[p] = "v_unlock"
  /\ RemoveLock(at[p], arg[p])
  /\ Call(p, "v_scan", None, None)
  /\ UNCHANGED <<written, stale, refused, everStale, msgVars, toldVars,
                 sessVars, agentVars, faultVars>>

\* A file operation throws: the catch goes on with the next lock.
RecoverFails(p) ==
  /\ pc[p] \in {"v_notify", "v_ack", "v_unlock"}
  /\ faults < MaxFaults /\ faults' = faults + 1
  /\ Call(p, "v_scan", None, None)
  /\ UNCHANGED <<taskVars, msgVars, toldVars, sessVars, agentVars, crashes, errors>>

\* Mutant of RecoverClaim: the abandoned claim is dropped.
MutantRecoverDrops(p, m) ==
  /\ pc[p] = "v_scan" /\ todo[p] = {} /\ Abandoned(m)
  /\ box' = [box EXCEPT ![m] = "gone"]
  /\ UNCHANGED <<home, createdAt, old, now, taskVars, toldVars, sessVars,
                 procVars, agentVars, faultVars>>

RecoverClaim(p, m) ==
  /\ pc[p] = "v_scan" /\ todo[p] = {} /\ Abandoned(m)
  /\ box' = [box EXCEPT ![m] = "inbox"]
  /\ UNCHANGED <<home, createdAt, old, now, taskVars, toldVars, sessVars,
                 procVars, agentVars, faultVars>>

\* The method returns; an iteration of waitMessage goes on to claimNext.
RecoverEnd(p) ==
  /\ pc[p] = "v_scan" /\ todo[p] = {} /\ \A m \in Msgs : ~Abandoned(m)
  /\ Goto(p, IF p \in Targets /\ waiting[p] THEN "claim" ELSE "idle")
  /\ UNCHANGED <<taskVars, msgVars, toldVars, sessVars, agentVars, faultVars>>

-----------------------------------------------------------------------------
(* waitMessage and reply, by the agent of target s. *)

WaitStart(s) ==
  /\ pc[s] = "idle" /\ ~waiting[s] /\ session[s]
  /\ waiting' = [waiting EXCEPT ![s] = TRUE]
  /\ UNCHANGED <<taskVars, msgVars, toldVars, sessVars, procVars, work,
                 faultVars, reports, answered>>

\* Mutant of ClaimNext: an open claim does not hold back the next one.
MutantClaimMany(s, m) ==
  /\ pc[s] = "claim"
  /\ m \in Holds(s, "inbox")
  /\ \A n \in Holds(s, "inbox") : createdAt[m] <= createdAt[n]
  /\ box' = [box EXCEPT ![m] = "processing"]
  /\ work' = [work EXCEPT ![s] = m]
  /\ waiting' = [waiting EXCEPT ![s] = FALSE]
  /\ Return(s)
  /\ UNCHANGED <<home, createdAt, old, now, taskVars, toldVars, sessVars,
                 faultVars, reports, answered>>

\* claimNext: nothing while a claim is open, else the first name of the inbox.
ClaimNext(s, m) ==
  /\ pc[s] = "claim" /\ Holds(s, "processing") = {}
  /\ m \in Holds(s, "inbox")
  /\ \A n \in Holds(s, "inbox") : createdAt[m] <= createdAt[n]
  /\ box' = [box EXCEPT ![m] = "processing"]
  /\ work' = [work EXCEPT ![s] = m]
  /\ waiting' = [waiting EXCEPT ![s] = FALSE]
  /\ Return(s)
  /\ UNCHANGED <<home, createdAt, old, now, taskVars, toldVars, sessVars,
                 faultVars, reports, answered>>

ClaimNothing(s) ==
  /\ pc[s] = "claim"
  /\ Holds(s, "processing") # {} \/ Holds(s, "inbox") = {}
  /\ Return(s)
  /\ UNCHANGED <<taskVars, msgVars, toldVars, sessVars, agentVars, faultVars>>

\* The deadline passes: the tool answers with a [POLL_TICK].
WaitTimeout(s) ==
  /\ pc[s] = "idle" /\ waiting[s]
  /\ waiting' = [waiting EXCEPT ![s] = FALSE]
  /\ UNCHANGED <<taskVars, msgVars, toldVars, sessVars, procVars, work,
                 faultVars, reports, answered>>

\* reply acknowledges one claim that is not a task, whatever the agent answers.
Reply(s) ==
  /\ pc[s] = "idle" /\ ~waiting[s] /\ session[s]
  /\ LET open == Holds(s, "processing") \cap Chats
     IN  \/ /\ open = {} /\ UNCHANGED box
         \/ \E m \in open :
              /\ \A n \in open : createdAt[m] <= createdAt[n]
              /\ box' = [box EXCEPT ![m] = "gone"]
  /\ answered' = answered \cup ({work[s]} \cap Chats)
  /\ work' = [work EXCEPT ![s] = IF @ \in Chats THEN None ELSE @]
  /\ UNCHANGED <<home, createdAt, old, now, taskVars, toldVars, sessVars,
                 procVars, waiting, faultVars, reports>>

-----------------------------------------------------------------------------
(* The panel: enqueueUserMessage and removeSession, in the Hub. *)

EnqueueUserMessage(c, s) ==
  /\ pc[Hub] = "idle" /\ session[s] /\ home[c] = None
  /\ Enqueue(c, s)
  /\ UNCHANGED <<taskVars, toldVars, sessVars, procVars, agentVars, faultVars>>

\* tombstoneSession, then the files one after the other, the lock last.
RemoveStart(s) ==
  /\ pc[Hub] = "idle" /\ s \in Removable /\ ~deleted[s]
  /\ deleted' = [deleted EXCEPT ![s] = TRUE]
  /\ session' = [session EXCEPT ![s] = FALSE]
  /\ Call(Hub, "x_inbox", None, s)
  /\ UNCHANGED <<taskVars, msgVars, toldVars, agentVars, faultVars>>

RemoveDir(label, place, next) ==
  /\ pc[Hub] = label
  /\ box' = [m \in Msgs |-> IF m \in Holds(at[Hub], place) THEN "gone" ELSE box[m]]
  /\ Goto(Hub, next)
  /\ UNCHANGED <<home, createdAt, old, now, taskVars, toldVars, sessVars,
                 agentVars, faultVars>>

RemoveLockFile ==
  /\ pc[Hub] = "x_lock"
  /\ RemoveLock(at[Hub], lock[at[Hub]])
  /\ Return(Hub)
  /\ UNCHANGED <<written, stale, refused, everStale, msgVars, toldVars,
                 sessVars, agentVars, faultVars>>

-----------------------------------------------------------------------------
(* Time and failures. *)

\* taskStaleAfterMs pass without a progress report.
LockAges(s) ==
  /\ ReadLock(s) # None /\ ~stale[s]
  /\ stale' = [stale EXCEPT ![s] = TRUE]
  /\ everStale' = [everStale EXCEPT ![s] = TRUE]
  /\ UNCHANGED <<lock, written, refused, clobbered, msgVars, toldVars,
                 sessVars, procVars, agentVars, faultVars>>

\* renameSync keeps the modification time, so a claim may be old from the start;
\* the age is read of claims only, and may as well be decided there.
MessageAges(m) ==
  /\ box[m] = "processing" /\ m \notin old
  /\ old' = old \cup {m}
  /\ UNCHANGED <<box, home, createdAt, now, taskVars, toldVars, sessVars,
                 procVars, agentVars, faultVars>>

\* Process p dies between two file operations.  The agent behind an MCP server
\* may survive it (Cursor restarts the server and the call is retried) or not.
Crash(p) ==
  /\ faults < MaxFaults /\ faults' = faults + 1
  /\ crashes' = [crashes EXCEPT ![p] = @ + 1]
  /\ pc[p] # "idle" \/ p \in Targets
  /\ pc' = [pc EXCEPT ![p] = "idle"]
  /\ arg' = [arg EXCEPT ![p] = None]
  /\ at' = [at EXCEPT ![p] = None]
  /\ todo' = [todo EXCEPT ![p] = {}]
  /\ waiting' = [s \in Targets |-> IF s = p THEN FALSE ELSE waiting[s]]
  /\ \/ work' = [s \in Targets |-> IF s = p THEN None ELSE work[s]]
     \/ UNCHANGED work
  /\ UNCHANGED <<taskVars, msgVars, toldVars, sessVars, reports, answered, errors>>

-----------------------------------------------------------------------------
DispatchStep(p) ==
  \/ DispatchBusy(p) \/ DispatchCreate(p) \/ DispatchWrite(p)
  \/ DispatchEnqueue(p) \/ DispatchSession(p)

RecoverStep(p) ==
  \/ \E s \in Targets : RecoverSkip(p, s) \/ RecoverHit(p, s)
  \/ RecoverNotify(p) \/ RecoverAck(p) \/ RecoverUnlock(p)
  \/ \E m \in Msgs : RecoverClaim(p, m)
  \/ RecoverEnd(p)

TargetStep(s) ==
  \/ ReportLock(s)
  \/ CompleteNotify(s) \/ CompleteAck(s) \/ CompleteUnlock(s)
  \/ ClaimNothing(s) \/ \E m \in Msgs : ClaimNext(s, m)

RemoveStep ==
  \/ RemoveDir("x_inbox", "inbox", "x_processing")
  \/ RemoveDir("x_processing", "processing", "x_lock")
  \/ RemoveLockFile

AgentStep(s) ==
  \/ ReportStart(s) \/ CompleteStart(s) \/ TaskRejected(s)
  \/ WaitStart(s) \/ WaitTimeout(s) \/ Reply(s)

PanelStep ==
  \/ \E c \in Chats, s \in Targets : EnqueueUserMessage(c, s)
  \/ \E s \in Targets : RemoveStart(s)

Environment ==
  \/ \E s \in Targets : LockAges(s)
  \/ \E m \in Msgs : MessageAges(m)
  \/ \E p \in Procs : Crash(p)

Next ==
  \/ \E p \in Masters : \/ \E t \in Tasks, s \in Targets : DispatchStart(p, t, s)
                        \/ DispatchStep(p)
                        \/ DispatchWriteFails(p) \/ DispatchFails(p)
  \/ \E p \in Procs : RecoverStart(p) \/ RecoverStep(p) \/ RecoverFails(p)
  \/ \E s \in Targets : AgentStep(s) \/ TargetStep(s) \/ CallFails(s)
  \/ PanelStep \/ RemoveStep
  \/ Environment

Spec == Init /\ [][Next]_vars

\* A method that has begun runs on; the Hub's timer keeps firing; time passes.
\* Nothing is assumed of agents, of the user or of further dispatches.
Fairness ==
  /\ \A p \in Masters : WF_vars(DispatchStep(p))
  /\ \A p \in Procs : WF_vars(RecoverStep(p))
  /\ \A s \in Targets : WF_vars(TargetStep(s)) /\ WF_vars(LockAges(s))
  /\ WF_vars(RecoverStart(Hub)) /\ WF_vars(RemoveStep)

FairSpec == Spec /\ Fairness

\* An agent that keeps calling its tools, one that is handed what is claimed.
DiligentAgents ==
  \A s \in Targets :
    /\ WF_vars(WaitStart(s)) /\ SF_vars(RecoverStart(s))
    /\ SF_vars(\E m \in Msgs : ClaimNext(s, m))
    /\ SF_vars(CompleteStart(s)) /\ SF_vars(TaskRejected(s)) /\ SF_vars(Reply(s))
    /\ \A m \in Msgs : WF_vars(MessageAges(m))

DiligentSpec == FairSpec /\ DiligentAgents

TaskLabels == {"d_create", "d_write", "d_enqueue", "d_session", "r_lock", "c_notify",
               "c_ack", "c_unlock", "v_notify", "v_ack", "v_unlock"}

\* A method that acts on a task has one, and a session: the lock it found was
\* read, and a report or a completion acts on the caller's own session.
OperandsOK ==
  \A p \in Procs :
    /\ pc[p] \in TaskLabels => arg[p] \in Tasks /\ at[p] \in Targets
    /\ pc[p] \in {"x_inbox", "x_processing", "x_lock"} => at[p] \in Targets
    /\ pc[p] \in {"r_lock", "c_notify", "c_ack", "c_unlock"} => at[p] = p

\* Every variable has its type, and a process inside a method has the method's
\* operands: recovery never goes on with a lock that was gone or not to be read.
TypeOK ==
  /\ OperandsOK
  /\ lock \in [Targets -> Tasks \cup {None}]
  /\ written \subseteq Tasks /\ refused \subseteq Tasks /\ clobbered \subseteq Tasks
  /\ stale \in [Targets -> BOOLEAN] /\ everStale \in [Targets -> BOOLEAN]
  /\ box \in [Msgs -> {"none", "inbox", "processing", "gone"}]
  /\ home \in [Msgs -> Targets \cup {None}]
  /\ createdAt \in [Msgs -> Nat] /\ now \in Nat
  /\ old \subseteq Msgs /\ answered \subseteq Chats
  /\ results \in [Tasks -> Nat] /\ notices \in [Tasks -> Nat]
  /\ session \in [Targets -> BOOLEAN] /\ deleted \in [Targets -> BOOLEAN]
  /\ pc \in [Procs -> Labels]
  /\ arg \in [Procs -> Tasks \cup {None}]
  /\ at \in [Procs -> Targets \cup {None}]
  /\ todo \in [Procs -> SUBSET Targets]
  /\ work \in [Targets -> Msgs \cup {None}]
  /\ waiting \in [Targets -> BOOLEAN]
  /\ crashes \in [Procs -> Nat] /\ errors \in [Targets -> Nat]
  /\ faults \in Nat /\ reports \in [Targets -> Nat]

-----------------------------------------------------------------------------
(* What the protocol promises. *)

\* The dispatch of t returned a task id, or still may.
Accepted(t) == t \in written \ refused

Told(t) == results[t] + notices[t] > 0

\* Crash safety of completeSubagentTask and recoverStaleTasks: both tell the
\* master before they remove the lock, so an accepted task never disappears
\* between two file operations.  Exempt: a deleted target, and a task whose
\* lock an operation on another task removed.
ReleasedImpliesTold ==
  \A t \in Tasks : \A s \in Targets :
    Accepted(t) /\ home[t] = s /\ lock[s] # t /\ ~deleted[s] /\ t \notin clobbered
      => Told(t)

\* No lock of s went stale, no dispatch to s failed half-way, and s is not deleted.
Undisturbed(s) ==
  ~everStale[s] /\ ~deleted[s] /\ \A r \in refused : home[r] # s

\* While the heartbeat of a target never runs out, recovery in the other
\* processes leaves it alone whatever the interleaving: no notice is sent, and a
\* task keeps the lock until its own result is delivered.
TimelyTargetIsUndisturbed ==
  \A t \in Tasks : \A s \in Targets :
    home[t] = s /\ Undisturbed(s) =>
      /\ notices[t] = 0 /\ t \notin clobbered
      /\ Accepted(t) /\ lock[s] # t => results[t] > 0

\* A result is delivered again only when an earlier call of completeSubagentTask
\* did not get through: the target's process crashed, or a file operation after
\* the delivery threw and the lock stayed.  Recovery, reports and dispatches in
\* other processes never make a target repeat itself.
ResultRepeatsOnlyAfterFailure ==
  \A t \in Tasks : \A s \in Targets :
    home[t] = s => results[t] <= 1 + crashes[s] + errors[s]

\* reply acknowledges a claim by its type only.  As long as the agent of the
\* session does not restart, the claim it removes is the message it answers,
\* even when recovery puts claims back meanwhile.
AcknowledgedWasAnswered ==
  \A c \in Chats : \A s \in Targets :
    box[c] = "gone" /\ home[c] = s /\ ~deleted[s] /\ crashes[s] = 0
      => c \in answered

\* The chats of session s that wait to be claimed or answered, by file.
Held(s) == {c \in Chats : home[c] = s /\ box[c] \in {"inbox", "processing"}}
MailboxOf(s) == INSTANCE Mailbox WITH Msgs <- Chats, held <- Held(s)

\* While the agent of a session does not restart and the session is not deleted,
\* its directories are a mailbox: of claims, replies, put-backs, task locks and
\* recoveries in other processes, none takes a message away without an answer.
UndisturbedMailbox ==
  /\ \A s \in Targets : MailboxOf(s)!Init
  /\ [][\A s \in Targets : crashes'[s] = 0 /\ ~deleted'[s] =>
           [MailboxOf(s)!Next]_<<Held(s), answered>>]_vars

\* Whatever the target does or fails to do, the master hears the end of every
\* task it was given an id for: from the target, or from recovery.
AcceptedLeadsToTold ==
  \A t \in Tasks :
    Accepted(t) ~> \/ Told(t) \/ t \in clobbered \cup refused
                   \/ \E s \in Targets : home[t] = s /\ deleted[s]

\* A crash or a failed write between openSync and writeFileSync (store.ts 408-409)
\* leaves an empty lock file.  No dispatch gets past it, readTaskLock reads no lock
\* there and recoverStaleTasks skips it: it stays.
EmptyLock(s) == lock[s] # None /\ lock[s] \notin written

\* No other lock file stays: its task is completed, or recovery releases it.
LockLeadsToFree ==
  \A s \in Targets : \A t \in Tasks :
    lock[s] = t ~> lock[s] # t \/ EmptyLock(s)

\* The documented contract of wait_message: it blocks for the next panel
\* message, so an agent that keeps calling it gets every message.
ChatLeadsToDelivered ==
  \A c \in Chats : box[c] = "inbox" ~> box[c] # "inbox"

\* The documented contract of dispatch_subagent_task: the target stays locked
\* until its own task is completed or recovered.
NoForeignRelease == clobbered = {}
=============================================================================
