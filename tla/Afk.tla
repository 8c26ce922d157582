-------------------------------- MODULE Afk --------------------------------
(***************************************************************************)
(* Unattended work: the AFK tasks the Hub keeps (src/hub/src/rr/           *)
(* afk-service.ts, afk/store.ts) and the orchestrator, a process of its    *)
(* own that polls the Hub over HTTP and prompts the master session of each *)
(* active task (src/hub/src/rr/orchestrator/).                             *)
(*                                                                         *)
(* Everything the orchestrator knows during a tick is a copy: its state    *)
(* file (read at the start, written back only when the tick ends well),    *)
(* the sessions it listed, the tasks it read, the inboxes it looked at.    *)
(* Between any two of its HTTP calls the user, the Hub and the masters go  *)
(* on.  A synchronous function of the Hub is one action.                   *)
(***************************************************************************)
EXTENDS Naturals, FiniteSets

CONSTANTS Tasks,
          Masters,      \* sessions that can be the master of a task
          None,
          First,        \* the masters of the tasks that are running at the start
          Cap,          \* how many prompts one tick may place
          Desired,      \* the size the pool of subagents is kept at
          MaxLoops,     \* how often one task is prompted at most
          MaxEvents     \* bound: commands of the user, calls that fail, deaths of
                        \*        the orchestrator

Kinds == {"inject", "wake", "dispatch"}
Other == "other"     \* a message that is not the orchestrator's prompt

ASSUME AfkAssumption ==
    /\ None \notin Tasks \cup Masters \cup {Other} \cup [master : Masters, kind : Kinds]
    /\ Other \notin Tasks
    /\ First \in [Tasks -> Masters \cup {None}]
    /\ \A t, u \in Tasks : First[t] = First[u] => t = u \/ First[t] = None
    /\ Cap \in Nat \ {0} /\ Desired \in Nat /\ MaxLoops \in Nat
    /\ MaxEvents \in Nat

ASSUME TasksAssumption == IsFiniteSet(Tasks)

Statuses == {"none", "PLANNING", "READY", "PAUSED", "DONE"}
Steps    == {"down", "idle", "pool", "look", "commit", "send"}

VARIABLES index,     \* index.json: the active tasks
          status,    \* of a task, in its state.json and summary.json
          master,    \* master_session_id of a task
          bound,     \* afkTaskId of a session
          click,     \* the one-click start that awaits the service (one at a time)
          enabled,   \* the flag file of the orchestrator
          inbox,     \* of a master: how many messages wait, by their origin
          presence,  \* of a master: waiting in wait_message, working, offline
          claim,     \* of a master: the origin of the message in its processing
                     \* directory, or None
          step,      \* where the orchestrator's tick is
          todo,      \* the tasks it has yet to look at, with their masters
          cand,      \* the prompts it has prepared
          batch,     \* those it is going to place
          current,   \* the one it is placing
          lock,      \* tasks whose lock file is there
          file, mem, \* its state, on disk and in the tick
          known,     \* pool subagents that the file lists
          fresh,     \* subagents created in this tick
          missing,   \* subagents this tick has yet to create
          stray,     \* subagents created and forgotten
          sent, late, passed, faults, commands   \* history, see Bookkeeping

\* Bookkeeping: prompts placed, those placed since the task was put aside,
\* ticks in a row that put the task off, faults so far, commands so far.

hub  == <<index, status, master, bound, click, enabled, commands>>
tick == <<step, todo, cand, batch, current, mem>>
pool == <<known, fresh, missing, stray>>
agents == <<presence, claim>>
vars == <<hub, tick, pool, inbox, agents, lock, file, sent, late, passed, faults>>

NoState == [loops |-> [t \in Tasks |-> 0], at |-> [t \in Tasks |-> 0]]
Nothing == [t \in Tasks |-> None]

Running == {t \in Tasks : First[t] # None}

Init ==
    /\ index = Running /\ master = First
    /\ status = [t \in Tasks |-> IF t \in Running THEN "READY" ELSE "none"]
    /\ bound = [m \in Masters |-> IF \E t \in Tasks : First[t] = m
                                 THEN CHOOSE t \in Tasks : First[t] = m ELSE None]
    /\ click = None /\ commands = 0
    /\ enabled = (Running # {})
    /\ inbox = [m \in Masters |-> [o \in Tasks \cup {Other} |-> 0]]
    /\ presence = [m \in Masters |-> "waiting"] /\ claim = [m \in Masters |-> None]
    /\ step = IF Running = {} THEN "down" ELSE "idle"
    /\ todo = Nothing /\ cand = Nothing /\ batch = {} /\ current = None
    /\ lock = {} /\ file = NoState /\ mem = NoState
    /\ known = 0 /\ fresh = 0 /\ missing = 0 /\ stray = 0
    /\ sent = [t \in Tasks |-> 0] /\ late = [t \in Tasks |-> 0]
    /\ passed = [t \in Tasks |-> 0] /\ faults = 0

-----------------------------------------------------------------------------
(* The Hub: commands of the user.                                          *)

\* What follows a command or a fault (the end of a one-click start, a resumption,
\* a start by hand) is not counted again.
Command == commands + faults < MaxEvents /\ commands' = commands + 1
Fault   == commands + faults < MaxEvents /\ faults' = faults + 1

\* A task is served when it is listed and neither paused nor done.
Active(t) == t \in index /\ status[t] \notin {"PAUSED", "DONE"}

\* A task served again has not been put aside.
Recount(t) == late' = [late EXCEPT ![t] = IF Active(t)' THEN 0 ELSE @]

\* One click: take a master no other task is bound to, write the artifacts,
\* list the task, enable the orchestrator and ask for its process.
OneClick(t, m) ==
    /\ Command /\ click = None /\ bound[m] \in {None, t}
    /\ bound' = [bound EXCEPT ![m] = t]
    /\ master' = [master EXCEPT ![t] = m]
    /\ status' = [status EXCEPT ![t] = "PLANNING"]
    /\ index' = index \cup {t}
    /\ Recount(t)
    /\ click' = [task |-> t, master |-> m] /\ enabled' = TRUE
    /\ UNCHANGED <<tick, pool, inbox, agents, lock, file, sent, passed, faults>>

\* The service runs: place the first message and write the artifacts' copy
\* of the state back as READY, whatever became of the task meanwhile.
OneClickDone ==
    /\ click # None
    /\ inbox' = [inbox EXCEPT ![click.master][Other] = @ + 1]
    /\ status' = [status EXCEPT ![click.task] = "READY"]
    /\ master' = [master EXCEPT ![click.task] = click.master]
    /\ late' = [late EXCEPT ![click.task] = IF click.task \in index THEN 0 ELSE @]
    /\ click' = None
    /\ step' = IF step = "down" THEN "idle" ELSE step
    /\ UNCHANGED <<index, bound, enabled, commands, todo, cand, batch, current, mem, pool,
                   agents, lock, file, sent, passed, faults>>

\* The service manager refuses: the call throws where it stands.
OneClickFails ==
    /\ click # None
    /\ click' = None
    /\ UNCHANGED <<index, status, master, bound, enabled, commands, tick, pool, inbox,
                   agents, lock, file, sent, late, passed, faults>>

\* Arm lists a task as it is, and may give it any master.
Arm(t, m) ==
    /\ Command /\ status[t] # "none" /\ (t \notin index \/ m # None)
    /\ index' = index \cup {t}
    /\ master' = [master EXCEPT ![t] = IF m = None THEN @ ELSE m]
    /\ UNCHANGED <<status, bound, click, enabled, tick, pool, inbox, agents, lock, file,
                   sent, passed, faults>>
    /\ Recount(t)

SetAside(ts, s) ==
    /\ index' = index \ ts
    /\ status' = [t \in Tasks |-> IF t \in ts THEN s ELSE status[t]]
    /\ UNCHANGED <<master, bound, click, inbox, agents, lock, file, tick, pool, sent, late,
                   passed, faults>>

Pause(t) == Command /\ status[t] # "none" /\ SetAside({t}, "PAUSED") /\ UNCHANGED enabled
Done(t)  == Command /\ status[t] # "none" /\ SetAside({t}, "DONE") /\ UNCHANGED enabled

\* Halt pauses every listed task and disables the orchestrator; its process
\* is stopped later, wherever its tick is then (Stop).
Halt == Command /\ enabled /\ SetAside(index, "PAUSED") /\ enabled' = FALSE

Resume(t) ==
    /\ status[t] # "none"
    /\ status' = [status EXCEPT ![t] = IF @ = "PAUSED" THEN "READY" ELSE @]
    /\ index' = index \cup {t}
    /\ Recount(t)
    /\ UNCHANGED <<master, bound, click, enabled, commands, tick, pool, inbox, agents, lock, file,
                   sent, passed, faults>>

\* A manual tick of a task, or a message of the user: nothing is asked of
\* the inbox.
Post(m) ==
    /\ Command
    /\ inbox' = [inbox EXCEPT ![m][Other] = @ + 1]
    /\ UNCHANGED <<index, status, master, bound, click, enabled, tick, pool, agents,
                   lock, file, sent, late, passed, faults>>

\* The service is started by hand, which enables it.
StartService ==
    /\ step = "down"
    /\ enabled' = TRUE /\ step' = "idle"
    /\ UNCHANGED <<index, status, master, bound, click, commands, todo, cand, batch, current, mem,
                   pool, inbox, agents, lock, file, sent, late, passed, faults>>

-----------------------------------------------------------------------------
(* The masters, and the subagents of the pool.                             *)

IsEmpty(m) == \A o \in Tasks \cup {Other} : inbox[m][o] = 0

\* claimNext moves a message to processing, where one may be at a time.
TakeMessage(m, o) ==
    /\ presence[m] = "waiting" /\ claim[m] = None /\ inbox[m][o] > 0
    /\ inbox' = [inbox EXCEPT ![m][o] = @ - 1]
    /\ claim' = [claim EXCEPT ![m] = o]
    /\ presence' = [presence EXCEPT ![m] = "working"]
    /\ UNCHANGED <<hub, tick, pool, lock, file, sent, late, passed, faults>>

\* The master replies, which acknowledges the claim.
Answer(m) ==
    /\ presence[m] = "working" /\ claim[m] # None
    /\ claim' = [claim EXCEPT ![m] = None]
    /\ UNCHANGED <<hub, tick, pool, inbox, presence, lock, file, sent, late, passed, faults>>

\* recoverStaleClaims, in any process that lists sessions or runs the timer: a
\* claim whose file is old returns to the inbox.
PutBack(m) ==
    /\ claim[m] # None
    /\ inbox' = [inbox EXCEPT ![m][claim[m]] = @ + 1]
    /\ claim' = [claim EXCEPT ![m] = None]
    /\ UNCHANGED <<hub, tick, pool, presence, lock, file, sent, late, passed, faults>>

Turn(m, from, to) ==
    /\ presence[m] = from
    /\ presence' = [presence EXCEPT ![m] = to]
    /\ UNCHANGED <<hub, tick, pool, inbox, claim, lock, file, sent, late, passed, faults>>

WaitAgain(m) == Turn(m, "working", "waiting")
GoOffline(m) == Turn(m, "working", "offline")
ComeBack(m)  == Turn(m, "offline", "waiting")

\* A session the pool file lists is removed, or its subagent switch turned off:
\* the pool no longer counts it.
RemovePooled ==
    /\ known > 0 /\ Command
    /\ known' = known - 1
    /\ UNCHANGED <<index, status, master, bound, click, enabled, tick, fresh, missing, stray,
                   inbox, agents, lock, file, sent, late, passed, faults>>

-----------------------------------------------------------------------------
(* The orchestrator.                                                       *)

world   == <<hub, inbox, agents>>
history == <<sent, late, passed, faults>>

\* Mutant: the tick creates a whole pool, whatever the state file lists.
MutantBegin ==
    /\ step = "idle" /\ enabled /\ index # {}
    /\ step' = "pool" /\ mem' = file
    /\ missing' = Desired
    /\ UNCHANGED <<world, history, lock, file, todo, cand, batch, current, known, fresh, stray>>

\* tickOnce starts: read the state file, list the sessions, plan the pool.
Begin ==
    /\ step = "idle" /\ enabled /\ index # {}
    /\ step' = "pool" /\ mem' = file
    /\ missing' = IF known < Desired THEN Desired - known ELSE 0
    /\ UNCHANGED <<world, history, lock, file, todo, cand, batch, current, known, fresh, stray>>

\* A listed subagent has been offline for too long: it is removed, and
\* replaced in the same tick when the pool is short of it.
Prune ==
    /\ step = "pool" /\ fresh = 0 /\ known > 0
    /\ known' = known - 1
    /\ missing' = IF known - 1 < Desired THEN Desired - (known - 1) ELSE 0
    /\ UNCHANGED <<world, history, lock, file, tick, fresh, stray>>

Create ==
    /\ step = "pool" /\ missing > 0
    /\ fresh' = fresh + 1 /\ missing' = missing - 1
    /\ UNCHANGED <<world, history, lock, file, tick, known, stray>>

\* Mutant: a task is served for as long as it has a master.
MutantReadTasks ==
    /\ step = "pool" /\ missing = 0
    /\ step' = "look" /\ todo' = master
    /\ UNCHANGED <<world, history, lock, file, cand, batch, current, mem, pool>>

\* The pool is in order: read the active tasks.
ReadTasks ==
    /\ step = "pool" /\ missing = 0
    /\ step' = "look"
    /\ todo' = [t \in Tasks |-> IF Active(t) THEN master[t] ELSE None]
    /\ UNCHANGED <<world, history, lock, file, cand, batch, current, mem, pool>>

\* Mutant: the inbox is not looked at.
MutantDueInbox(t, m) ==
    /\ mem.loops[t] < MaxLoops
    /\ presence[m] \in {"waiting", "offline"}

\* Mutant: the prompts are not counted.
MutantDueLoops(t, m) ==
    /\ IsEmpty(m)
    /\ presence[m] \in {"waiting", "offline"}

\* Look at a task's master, whose inbox must be empty: prompt it when it
\* waits (or have a subagent look into something), wake it when it is gone.
Due(t, m) ==
    /\ mem.loops[t] < MaxLoops
    /\ IsEmpty(m)
    /\ presence[m] \in {"waiting", "offline"}

LookDue(t, k) ==
    /\ step = "look" /\ todo[t] # None /\ Due(t, todo[t])
    /\ IF presence[todo[t]] = "offline" THEN k = "wake" ELSE k \in {"inject", "dispatch"}
    /\ cand' = [cand EXCEPT ![t] = [master |-> todo[t], kind |-> k]]
    /\ todo' = [todo EXCEPT ![t] = None]
    /\ UNCHANGED <<world, history, lock, file, step, batch, current, mem, pool>>

\* Nothing to do, or not yet: the master has not been idle for long enough,
\* or the last prompt is too fresh.
LookAway(t) ==
    /\ step = "look" /\ todo[t] # None
    /\ todo' = [todo EXCEPT ![t] = None]
    /\ UNCHANGED <<world, history, lock, file, step, cand, batch, current, mem, pool>>

\* Bound: deferrals are counted up to here.
PassLimit == Cardinality(Tasks) * (1 + MaxEvents)

\* Mutant: the tasks are not ordered by their last prompt.
MutantChoose ==
    /\ step = "look" /\ todo = Nothing
    /\ LET due == {t \in Tasks : cand[t] # None}
       IN  \E ts \in SUBSET due :
             /\ ts = due \/ Cardinality(ts) = Cap
             /\ Cardinality(ts) <= Cap
             /\ batch' = ts
             /\ cand' = [t \in Tasks |-> IF t \in ts THEN cand[t] ELSE None]
             /\ passed' = [t \in Tasks |-> IF t \in ts THEN 0
                                           ELSE IF t \in due /\ passed[t] < PassLimit THEN passed[t] + 1
                                           ELSE passed[t]]
    /\ step' = "commit"
    /\ UNCHANGED <<world, sent, late, faults, lock, file, todo, current, mem, pool>>

\* Least recently prompted first, up to Cap of them; the rest is put off to
\* the next tick.
Choose ==
    /\ step = "look" /\ todo = Nothing
    /\ LET due == {t \in Tasks : cand[t] # None}
       IN  \E ts \in SUBSET due :
             /\ ts = due \/ Cardinality(ts) = Cap
             /\ Cardinality(ts) <= Cap
             /\ \A t \in ts, u \in due \ ts : mem.at[t] <= mem.at[u]
             /\ batch' = ts
             /\ cand' = [t \in Tasks |-> IF t \in ts THEN cand[t] ELSE None]
             /\ passed' = [t \in Tasks |-> IF t \in ts THEN 0
                                           ELSE IF t \in due /\ passed[t] < PassLimit THEN passed[t] + 1
                                           ELSE passed[t]]
    /\ step' = "commit"
    /\ UNCHANGED <<world, sent, late, faults, lock, file, todo, current, mem, pool>>

Acquire(t) ==
    /\ step = "commit" /\ t \in batch /\ t \notin lock
    /\ lock' = lock \cup {t}
    /\ current' = t /\ batch' = batch \ {t}
    /\ step' = "send"
    /\ UNCHANGED <<world, history, file, todo, cand, mem, pool>>

\* The lock file is there: this tick does nothing for the task.
LockHeld(t) ==
    /\ step = "commit" /\ t \in batch /\ t \in lock
    /\ batch' = batch \ {t} /\ cand' = [cand EXCEPT ![t] = None]
    /\ UNCHANGED <<world, history, lock, file, step, todo, current, mem, pool>>

\* The prompt of task t arrives.
Arrive(t) ==
    /\ inbox' = IF cand[t].kind = "dispatch" THEN inbox
                ELSE [inbox EXCEPT ![cand[t].master][t] = @ + 1]
    /\ sent' = [sent EXCEPT ![t] = @ + 1]
    /\ late' = [late EXCEPT ![t] = IF Active(t) THEN @ ELSE @ + 1]

Latest == CHOOSE n \in {file.at[t] : t \in Tasks} : \A t \in Tasks : file.at[t] <= n

\* Mutant: the tick goes on as if the prompt were still under way.
MutantSend ==
    /\ step = "send"
    /\ Arrive(current)
    /\ mem' = [loops |-> [mem.loops EXCEPT ![current] = @ + 1],
               at    |-> [mem.at EXCEPT ![current] = Latest + 1]]
    /\ lock' = lock \ {current}
    /\ cand' = [cand EXCEPT ![current] = None]
    /\ step' = "commit"
    /\ UNCHANGED <<hub, agents, file, todo, current, batch, pool, passed, faults>>

Send ==
    /\ step = "send"
    /\ Arrive(current)
    /\ mem' = [loops |-> [mem.loops EXCEPT ![current] = @ + 1],
               at    |-> [mem.at EXCEPT ![current] = Latest + 1]]
    /\ lock' = lock \ {current}
    /\ cand' = [cand EXCEPT ![current] = None]
    /\ current' = None /\ step' = "commit"
    /\ UNCHANGED <<hub, agents, file, todo, batch, pool, passed, faults>>

\* The tick ends well: its state is written back.
Save ==
    /\ step = "commit" /\ batch = {}
    /\ file' = mem
    /\ known' = known + fresh /\ fresh' = 0
    /\ step' = "idle"
    /\ UNCHANGED <<world, history, lock, todo, cand, batch, current, mem, missing, stray>>

\* What a tick that is cut short leaves: the state file as it was.  The call
\* in flight may have had its effect on the Hub.
Forget(created) ==
    /\ todo' = Nothing /\ cand' = Nothing /\ batch' = {} /\ current' = None /\ mem' = file
    /\ fresh' = 0 /\ missing' = 0
    /\ stray' = stray + fresh + created
    /\ UNCHANGED known

CutShort ==
    \/ /\ step \in {"pool", "look"}
       /\ \E n \in {0, 1} : n <= missing /\ Forget(n)
       /\ UNCHANGED <<inbox, sent, late>>
    \/ step \in {"commit", "send"} /\ Forget(0) /\ UNCHANGED <<inbox, sent, late>>
    \/ step = "send" /\ Forget(0) /\ Arrive(current)

\* An HTTP call fails: the tick throws, through the finally that releases
\* the task lock.
Throw ==
    /\ step \in {"pool", "look", "send"} /\ Fault
    /\ CutShort
    /\ step' = "idle"
    /\ lock' = IF step = "send" THEN lock \ {current} ELSE lock
    /\ UNCHANGED <<hub, agents, file, passed>>

\* The process stops: halted, or dead.  A task lock it held stays.
Stop ==
    /\ step # "down" /\ Fault
    /\ IF step = "idle" THEN Forget(0) /\ UNCHANGED <<inbox, sent, late>> ELSE CutShort
    /\ step' = "down"
    /\ UNCHANGED <<hub, agents, lock, file, passed>>

\* It dies inside the write of the state file, which is then unreadable and
\* read as the default: no subagent, no prompt so far.
Tear ==
    /\ step = "commit" /\ batch = {} /\ Fault
    /\ file' = NoState /\ mem' = NoState
    /\ stray' = stray + known + fresh /\ known' = 0 /\ fresh' = 0
    /\ step' = "down"
    /\ UNCHANGED <<world, sent, late, passed, lock, todo, cand, batch, current, missing>>

Start ==
    /\ step = "down" /\ enabled
    /\ step' = "idle"
    /\ UNCHANGED <<world, history, lock, file, todo, cand, batch, current, mem, pool>>

-----------------------------------------------------------------------------
Users ==
    \/ \E t \in Tasks :
         \/ \E m \in Masters : OneClick(t, m)
         \/ \E m \in Masters \cup {None} : Arm(t, m)
         \/ Pause(t)
         \/ Done(t)
         \/ Resume(t)
    \/ OneClickDone
    \/ OneClickFails
    \/ Halt
    \/ StartService
    \/ RemovePooled
    \/ \E m \in Masters :
         \/ Post(m)
         \/ \E o \in Tasks \cup {Other} : TakeMessage(m, o)
         \/ Answer(m)
         \/ PutBack(m)
         \/ WaitAgain(m)
         \/ GoOffline(m)
         \/ ComeBack(m)

Runner ==
    \/ Begin
    \/ Create
    \/ ReadTasks
    \/ \E t \in Tasks : LookAway(t) \/ (\E k \in Kinds : LookDue(t, k))
    \/ Choose
    \/ \E t \in Tasks : Acquire(t) \/ LockHeld(t)
    \/ Send
    \/ Save

Next == Users \/ Runner \/ Prune \/ Throw \/ Stop \/ Tear \/ Start

Spec == Init /\ [][Next]_vars

-----------------------------------------------------------------------------
Counts == [loops : [Tasks -> Nat], at : [Tasks -> Nat]]

HubTypes ==
    /\ index \subseteq Tasks
    /\ status \in [Tasks -> Statuses]
    /\ master \in [Tasks -> Masters \cup {None}]
    /\ bound \in [Masters -> Tasks \cup {None}]
    /\ click \in [task : Tasks, master : Masters] \cup {None}
    /\ enabled \in BOOLEAN /\ commands \in Nat
    /\ presence \in [Masters -> {"waiting", "working", "offline"}]
    /\ claim \in [Masters -> Tasks \cup {Other, None}]

TickTypes ==
    /\ step \in Steps
    /\ todo \in [Tasks -> Masters \cup {None}]
    /\ cand \in [Tasks -> [master : Masters, kind : Kinds] \cup {None}]
    /\ batch \subseteq {t \in Tasks : cand[t] # None}
    /\ current \in Tasks \cup {None}
    /\ step = "send" <=> current # None
    /\ step = "send" => current \in lock /\ cand[current] # None
    /\ lock \subseteq Tasks
    /\ file \in Counts /\ mem \in Counts

PoolTypes ==
    known \in Nat /\ fresh \in Nat /\ missing \in Nat /\ stray \in Nat /\ faults \in Nat

Inboxes == [Masters -> [Tasks \cup {Other} -> Nat]]

PromptTypes ==
    /\ inbox \in Inboxes
    /\ sent \in [Tasks -> Nat] /\ late \in [Tasks -> Nat] /\ passed \in [Tasks -> Nat]

TypeOK == HubTypes /\ TickTypes /\ PoolTypes /\ PromptTypes

\* The prompts of task t that master m has not answered.
Unanswered(m, t) == inbox[m][t] + (IF claim[m] = t THEN 1 ELSE 0)

\* The gate of planner.ts 207 looks at the inbox some calls before the prompt is
\* placed, and a claimed prompt is not in it.  So the prompt of a master that died can
\* return beside the one that was to wake it; but these two are the most: prompts
\* of a task do not pile up, whatever dies, fails or is put back.
PromptsDoNotPile == \A m \in Masters, t \in Tasks : Unanswered(m, t) <= 2

\* A task that was paused or done gets at most the prompt under way.
PauseHolds == \A t \in Tasks : late[t] <= 1

\* Prompts are bounded by maxLoops, but for those whose count was lost.
LoopsAreBounded == \A t \in Tasks : sent[t] <= MaxLoops * (1 + faults)

\* The pool is bounded, but for the subagents a tick cut short forgot.
PoolIsBounded == known + fresh + stray <= Desired * (1 + faults)

\* A due task is put off at most as long as there are others: each tick that
\* puts it off prompts Cap of them that have waited for as long.  A fault may
\* lose what the file knows of their order.
FairRotation ==
    \A t \in Tasks : Cap * passed[t] <= (Cardinality(Tasks) - 1) * (1 + faults)

\* So it is as long as no dead process has left its lock.
RotationIsFair == lock \subseteq {current} => FairRotation
=============================================================================
