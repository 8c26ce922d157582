---------------------------- MODULE RrTaskProofs ----------------------------
(***************************************************************************)
(* Type correctness of RrTask, and its safety invariants for any number of *)
(* masters, subagents, tasks, crashes and reports.                         *)
(***************************************************************************)
EXTENDS RrTask, TLAPS

\* The initial state is well typed.
LEMMA TypeInit == Init => TypeOK
  BY ConstantsAssumption DEF Init, TypeOK, OperandsOK, TaskLabels, Labels, Procs, Msgs

\* A step of any process keeps the types.
LEMMA TypeStep == ASSUME TypeOK, [Next]_vars PROVE TypeOK'
<1> USE ConstantsAssumption DEF TypeOK, OperandsOK, TaskLabels, Labels, Msgs, Procs, taskVars, msgVars, toldVars,
                                sessVars, procVars, agentVars, faultVars
<1>1. ASSUME NEW p \in Masters, NEW t \in Tasks, NEW s \in Targets, DispatchStart(p, t, s) PROVE TypeOK'
  BY <1>1 DEF DispatchStart, Call
<1>2. ASSUME NEW p \in Masters, DispatchBusy(p) PROVE TypeOK'
  BY <1>2 DEF DispatchBusy, Return, Call
<1>3. ASSUME NEW p \in Masters, DispatchCreate(p) PROVE TypeOK'
  BY <1>3 DEF DispatchCreate, Goto
<1>4. ASSUME NEW p \in Masters, DispatchWrite(p) PROVE TypeOK'
  BY <1>4 DEF DispatchWrite, Goto
<1>5. ASSUME NEW p \in Masters, DispatchEnqueue(p) PROVE TypeOK'
  BY <1>5 DEF DispatchEnqueue, Goto, Enqueue
<1>6. ASSUME NEW p \in Masters, DispatchSession(p) PROVE TypeOK'
  BY <1>6 DEF DispatchSession, Return, Call
<1>7. ASSUME NEW p \in Masters, DispatchWriteFails(p) PROVE TypeOK'
  BY <1>7 DEF DispatchWriteFails, Return, Call
<1>8. ASSUME NEW p \in Masters, DispatchFails(p) PROVE TypeOK'
  BY <1>8 DEF DispatchFails, Return, Call, RemoveLock
<1>9. ASSUME NEW p \in Procs, RecoverStart(p) PROVE TypeOK'
  BY <1>9 DEF RecoverStart
<1>10. ASSUME NEW p \in Procs, NEW s \in Targets, RecoverSkip(p, s) PROVE TypeOK'
  BY <1>10 DEF RecoverSkip
<1>11. ASSUME NEW p \in Procs, NEW s \in Targets, RecoverHit(p, s) PROVE TypeOK'
  BY <1>11 DEF RecoverHit, ReadLock
<1>12. ASSUME NEW p \in Procs, RecoverNotify(p) PROVE TypeOK'
  BY <1>12 DEF RecoverNotify, Goto
<1>13. ASSUME NEW p \in Procs, RecoverAck(p) PROVE TypeOK'
  BY <1>13 DEF RecoverAck, Goto, AckTask
<1>14. ASSUME NEW p \in Procs, RecoverUnlock(p) PROVE TypeOK'
  BY <1>14 DEF RecoverUnlock, Call, RemoveLock
<1>15. ASSUME NEW p \in Procs, NEW m \in Msgs, RecoverClaim(p, m) PROVE TypeOK'
  BY <1>15 DEF RecoverClaim
<1>16. ASSUME NEW p \in Procs, RecoverEnd(p) PROVE TypeOK'
  BY <1>16 DEF RecoverEnd, Goto
<1>17. ASSUME NEW s \in Targets, ReportStart(s) PROVE TypeOK'
  BY <1>17 DEF ReportStart, Call
<1>18. ASSUME NEW s \in Targets, CompleteStart(s) PROVE TypeOK'
  BY <1>18 DEF CompleteStart, Call
<1>19. ASSUME NEW s \in Targets, TaskRejected(s) PROVE TypeOK'
  BY <1>19 DEF TaskRejected
<1>20. ASSUME NEW s \in Targets, WaitStart(s) PROVE TypeOK'
  BY <1>20 DEF WaitStart
<1>21. ASSUME NEW s \in Targets, WaitTimeout(s) PROVE TypeOK'
  BY <1>21 DEF WaitTimeout
<1>22. ASSUME NEW s \in Targets, Reply(s) PROVE TypeOK'
  <2>1. box' \in [Msgs -> {"none", "inbox", "processing", "gone"}]
    <3>1. box' = box \/ \E m \in Msgs : box' = [box EXCEPT ![m] = "gone"]
      BY <1>22 DEF Reply, Holds
    <3> QED
      BY <3>1
  <2>2. work' \in [Targets -> Msgs \cup {None}] /\ answered' \subseteq Chats
    BY <1>22 DEF Reply
  <2> QED
    BY <1>22, <2>1, <2>2 DEF Reply
<1>23. ASSUME NEW s \in Targets, ReportLock(s) PROVE TypeOK'
  BY <1>23 DEF ReportLock, Return, Call
<1>24. ASSUME NEW s \in Targets, CompleteNotify(s) PROVE TypeOK'
  BY <1>24 DEF CompleteNotify, Goto
<1>25. ASSUME NEW s \in Targets, CompleteAck(s) PROVE TypeOK'
  BY <1>25 DEF CompleteAck, Goto, AckTask
<1>26. ASSUME NEW s \in Targets, CompleteUnlock(s) PROVE TypeOK'
  BY <1>26 DEF CompleteUnlock, Return, Call, RemoveLock
<1>27. ASSUME NEW s \in Targets, ClaimNothing(s) PROVE TypeOK'
  BY <1>27 DEF ClaimNothing, Return, Call
<1>28. ASSUME NEW s \in Targets, NEW m \in Msgs, ClaimNext(s, m) PROVE TypeOK'
  BY <1>28 DEF ClaimNext, Return, Call, Holds
<1>29. ASSUME NEW c \in Chats, NEW s \in Targets, EnqueueUserMessage(c, s) PROVE TypeOK'
  BY <1>29 DEF EnqueueUserMessage, Enqueue
<1>30. ASSUME NEW s \in Targets, RemoveStart(s) PROVE TypeOK'
  BY <1>30 DEF RemoveStart, Call
<1>31. ASSUME RemoveDir("x_inbox", "inbox", "x_processing") PROVE TypeOK'
  BY <1>31 DEF RemoveDir, Goto, Holds
<1>32. ASSUME RemoveDir("x_processing", "processing", "x_lock") PROVE TypeOK'
  BY <1>32 DEF RemoveDir, Goto, Holds
<1>33. ASSUME RemoveLockFile PROVE TypeOK'
  BY <1>33 DEF RemoveLockFile, Return, Call, RemoveLock
<1>34. ASSUME NEW s \in Targets, LockAges(s) PROVE TypeOK'
  BY <1>34 DEF LockAges
<1>35. ASSUME NEW m \in Msgs, MessageAges(m) PROVE TypeOK'
  BY <1>35 DEF MessageAges
<1>36. ASSUME NEW p \in Procs, Crash(p) PROVE TypeOK'
  <2>0. waiting' \in [Targets -> BOOLEAN]
    <3>1. waiting' = [s \in Targets |-> IF s = p THEN FALSE ELSE waiting[s]]
      BY <1>36 DEF Crash
    <3>2. \A s \in Targets : waiting[s] \in BOOLEAN
      OBVIOUS
    <3> HIDE DEF TypeOK
    <3> QED
      BY <3>1, <3>2, Zenon
  <2>1. work' \in [Targets -> Msgs \cup {None}]
    BY <1>36 DEF Crash
  <2>2. /\ pc' \in [Procs -> Labels] /\ arg' \in [Procs -> Tasks \cup {None}]
        /\ at' \in [Procs -> Targets \cup {None}] /\ todo' \in [Procs -> SUBSET Targets]
        /\ crashes' \in [Procs -> Nat] /\ faults' \in Nat
    BY <1>36 DEF Crash
  <2>3. OperandsOK'
    BY <1>36 DEF Crash
  <2> QED
    BY <1>36, <2>0, <2>1, <2>2, <2>3 DEF Crash
<1>38. ASSUME NEW s \in Targets, CallFails(s) PROVE TypeOK'
  <2>1. work' \in [Targets -> Msgs \cup {None}]
    BY <1>38 DEF CallFails
  <2>2. errors' \in [Targets -> Nat] /\ faults' \in Nat
    BY <1>38 DEF CallFails
  <2>3. /\ pc' \in [Procs -> Labels] /\ arg' \in [Procs -> Tasks \cup {None}]
        /\ at' \in [Procs -> Targets \cup {None}] /\ OperandsOK'
    BY <1>38 DEF CallFails, Return, Call
  <2> QED
    BY <1>38, <2>1, <2>2, <2>3 DEF CallFails, Return, Call
<1>39. ASSUME NEW p \in Procs, RecoverFails(p) PROVE TypeOK'
  BY <1>39 DEF RecoverFails, Call
<1>37. CASE UNCHANGED vars
  BY <1>37 DEF vars
<1> HIDE ConstantsAssumption DEF TypeOK, Msgs, Procs, taskVars, msgVars, toldVars,
                                 sessVars, procVars, agentVars, faultVars
<1> QED
  BY <1>1, <1>2, <1>3, <1>4, <1>5, <1>6, <1>7, <1>8, <1>9, <1>10, <1>11, <1>12,
     <1>13, <1>14, <1>15, <1>16, <1>17, <1>18, <1>19, <1>20, <1>21, <1>22, <1>23,
     <1>24, <1>25, <1>26, <1>27, <1>28, <1>29, <1>30, <1>31, <1>32, <1>33, <1>34,
     <1>35, <1>36, <1>37, <1>38, <1>39
  DEF Next, DispatchStep, RecoverStep, TargetStep, RemoveStep, AgentStep, PanelStep,
      Environment

\* Every variable keeps its type: in particular a process only ever holds a
\* task id it read from a lock, a claim or its own dispatch.
THEOREM TypeCorrect == Spec => []TypeOK
<1>1. TypeOK /\ [Next]_vars => TypeOK'
  BY TypeStep
<1> QED
  BY TypeInit, <1>1, PTL DEF Spec

-----------------------------------------------------------------------------
(* The inductive invariant: who owns a task id, and what its lock implies. *)

Created == {"d_write", "d_enqueue", "d_session"}
Recovering == {"v_notify", "v_ack", "v_unlock"}
Working == {"r_lock", "c_notify", "c_ack", "c_unlock"}

\* A task id is bound to its target when the lock file is created, by one dispatcher.
HomeInv ==
  /\ \A p \in Masters : pc[p] = "d_create" => home[arg[p]] = None
  /\ \A p, q \in Masters :
       pc[p] = "d_create" /\ pc[q] = "d_create" /\ arg[p] = arg[q] => p = q
  /\ \A p \in Masters : pc[p] \in Created => home[arg[p]] = at[p]
  /\ \A p \in Procs : pc[p] \in Recovering => home[arg[p]] = at[p]
  /\ \A s \in Targets : pc[s] \in Working => home[arg[s]] = s
  /\ \A s \in Targets : lock[s] # None => home[lock[s]] = s
  /\ \A t \in Tasks : home[t] = None =>
       results[t] = 0 /\ notices[t] = 0 /\ t \notin clobbered \cup refused

\* Each method tells the master before it goes on to release.
ToldInv ==
  /\ \A s \in Targets : pc[s] \in {"c_ack", "c_unlock"} => results[arg[s]] > 0
  /\ \A p \in Procs : pc[p] \in {"v_ack", "v_unlock"} => notices[arg[p]] > 0
  /\ pc[Hub] \in {"x_inbox", "x_processing", "x_lock"} => deleted[at[Hub]]
  /\ \A t \in Tasks : \A s \in Targets :
       home[t] = s /\ lock[s] # t =>
         deleted[s] \/ t \in clobbered \cup refused \/ results[t] > 0 \/ notices[t] > 0

\* As long as a target can still complete t, every delivered result cost a crash or
\* a call that failed.
RepeatInv ==
  \A t \in Tasks : \A s \in Targets :
    /\ home[t] = s => results[t] <= 1 + crashes[s] + errors[s]
    /\ arg[s] = t /\ pc[s] \in {"r_lock", "c_notify"} => results[t] <= crashes[s] + errors[s]
    /\ lock[s] = t /\ ~(arg[s] = t /\ pc[s] \in {"c_ack", "c_unlock"})
         => results[t] <= crashes[s] + errors[s]

\* No recovery of target s is under way, and none was.
Alone(s) ==
  /\ \A p \in Procs : pc[p] \in Recovering => at[p] # s
  /\ pc[s] \in Working => lock[s] = arg[s]
  /\ \A t \in Tasks : home[t] = s => notices[t] = 0 /\ t \notin clobbered

TimelyInv ==
  \A s \in Targets : (stale[s] => everStale[s]) /\ (Undisturbed(s) => Alone(s))

\* No claim of a message is the agent's but the one it works on, and what it
\* acknowledged it had answered, until it crashes.
InHand(s) ==
  /\ \A c \in Chats : home[c] = s /\ box[c] = "processing" => c \in answered \/ work[s] = c
  /\ \A c \in Chats : home[c] = s /\ box[c] = "gone" /\ ~deleted[s] => c \in answered
  /\ pc[s] \in Working => work[s] \in Tasks

AnswerInv == \A s \in Targets : crashes[s] = 0 => InHand(s)

IInv == TypeOK /\ HomeInv /\ ToldInv /\ RepeatInv /\ TimelyInv /\ AnswerInv

\* A task id never changes hands: not between dispatchers, nor between targets.
LEMMA HomeStep ==
  ASSUME TypeOK, HomeInv, [Next]_vars PROVE HomeInv'
<1> USE ConstantsAssumption, TypeStep DEF HomeInv, Created, Recovering, Working,
     TypeOK, OperandsOK, TaskLabels, Msgs, Procs, taskVars, msgVars, toldVars,
     sessVars, procVars, agentVars, faultVars
<1>1. ASSUME NEW p \in Masters, NEW t \in Tasks, NEW s \in Targets, DispatchStart(p, t, s) PROVE HomeInv'
  BY <1>1 DEF DispatchStart, Call
<1>2. ASSUME NEW p \in Masters, DispatchBusy(p) PROVE HomeInv'
  BY <1>2 DEF DispatchBusy, Return, Call
<1>3. ASSUME NEW p \in Masters, DispatchCreate(p) PROVE HomeInv'
  BY <1>3 DEF DispatchCreate, Goto
<1>4. ASSUME NEW p \in Masters, DispatchWrite(p) PROVE HomeInv'
  BY <1>4 DEF DispatchWrite, Goto
<1>5. ASSUME NEW p \in Masters, DispatchEnqueue(p) PROVE HomeInv'
  BY <1>5 DEF DispatchEnqueue, Goto, Enqueue
<1>6. ASSUME NEW p \in Masters, DispatchSession(p) PROVE HomeInv'
  BY <1>6 DEF DispatchSession, Return, Call
<1>7. ASSUME NEW p \in Masters, DispatchWriteFails(p) PROVE HomeInv'
  BY <1>7 DEF DispatchWriteFails, Return, Call
<1>8. ASSUME NEW p \in Masters, DispatchFails(p) PROVE HomeInv'
  BY <1>8 DEF DispatchFails, Return, Call, RemoveLock
<1>9. ASSUME NEW p \in Procs, RecoverStart(p) PROVE HomeInv'
  BY <1>9 DEF RecoverStart
<1>10. ASSUME NEW p \in Procs, NEW s \in Targets, RecoverSkip(p, s) PROVE HomeInv'
  BY <1>10 DEF RecoverSkip
<1>11. ASSUME NEW p \in Procs, NEW s \in Targets, RecoverHit(p, s) PROVE HomeInv'
  BY <1>11 DEF RecoverHit, ReadLock
<1>12. ASSUME NEW p \in Procs, RecoverNotify(p) PROVE HomeInv'
  BY <1>12 DEF RecoverNotify, Goto
<1>13. ASSUME NEW p \in Procs, RecoverAck(p) PROVE HomeInv'
  BY <1>13 DEF RecoverAck, Goto, AckTask
<1>14. ASSUME NEW p \in Procs, RecoverUnlock(p) PROVE HomeInv'
  BY <1>14 DEF RecoverUnlock, Call, RemoveLock
<1>15. ASSUME NEW p \in Procs, NEW m \in Msgs, RecoverClaim(p, m) PROVE HomeInv'
  BY <1>15 DEF RecoverClaim
<1>16. ASSUME NEW p \in Procs, RecoverEnd(p) PROVE HomeInv'
  BY <1>16 DEF RecoverEnd, Goto
<1>17. ASSUME NEW s \in Targets, ReportStart(s) PROVE HomeInv'
  BY <1>17 DEF ReportStart, Call, ReadLock
<1>18. ASSUME NEW s \in Targets, CompleteStart(s) PROVE HomeInv'
  BY <1>18 DEF CompleteStart, Call, ReadLock
<1>19. ASSUME NEW s \in Targets, TaskRejected(s) PROVE HomeInv'
  BY <1>19 DEF TaskRejected
<1>20. ASSUME NEW s \in Targets, WaitStart(s) PROVE HomeInv'
  BY <1>20 DEF WaitStart
<1>21. ASSUME NEW s \in Targets, WaitTimeout(s) PROVE HomeInv'
  BY <1>21 DEF WaitTimeout
<1>22. ASSUME NEW s \in Targets, Reply(s) PROVE HomeInv'
  BY <1>22 DEF Reply
<1>23. ASSUME NEW s \in Targets, ReportLock(s) PROVE HomeInv'
  BY <1>23 DEF ReportLock, Return, Call
<1>24. ASSUME NEW s \in Targets, CompleteNotify(s) PROVE HomeInv'
  BY <1>24 DEF CompleteNotify, Goto
<1>25. ASSUME NEW s \in Targets, CompleteAck(s) PROVE HomeInv'
  BY <1>25 DEF CompleteAck, Goto, AckTask
<1>26. ASSUME NEW s \in Targets, CompleteUnlock(s) PROVE HomeInv'
  BY <1>26 DEF CompleteUnlock, Return, Call, RemoveLock
<1>27. ASSUME NEW s \in Targets, ClaimNothing(s) PROVE HomeInv'
  BY <1>27 DEF ClaimNothing, Return, Call
<1>28. ASSUME NEW s \in Targets, NEW m \in Msgs, ClaimNext(s, m) PROVE HomeInv'
  BY <1>28 DEF ClaimNext, Return, Call
<1>29. ASSUME NEW c \in Chats, NEW s \in Targets, EnqueueUserMessage(c, s) PROVE HomeInv'
  BY <1>29 DEF EnqueueUserMessage, Enqueue
<1>30. ASSUME NEW s \in Targets, RemoveStart(s) PROVE HomeInv'
  BY <1>30 DEF RemoveStart, Call
<1>31. ASSUME RemoveDir("x_inbox", "inbox", "x_processing") PROVE HomeInv'
  BY <1>31 DEF RemoveDir, Goto
<1>32. ASSUME RemoveDir("x_processing", "processing", "x_lock") PROVE HomeInv'
  BY <1>32 DEF RemoveDir, Goto
<1>33. ASSUME RemoveLockFile PROVE HomeInv'
  BY <1>33 DEF RemoveLockFile, Return, Call, RemoveLock
<1>34. ASSUME NEW s \in Targets, LockAges(s) PROVE HomeInv'
  BY <1>34 DEF LockAges
<1>35. ASSUME NEW m \in Msgs, MessageAges(m) PROVE HomeInv'
  BY <1>35 DEF MessageAges
<1>36. ASSUME NEW p \in Procs, Crash(p) PROVE HomeInv'
  BY <1>36 DEF Crash
<1>38. ASSUME NEW s \in Targets, CallFails(s) PROVE HomeInv'
  BY <1>38 DEF CallFails, Return, Call
<1>39. ASSUME NEW p \in Procs, RecoverFails(p) PROVE HomeInv'
  BY <1>39 DEF RecoverFails, Call
<1>37. CASE UNCHANGED vars
  BY <1>37 DEF vars
<1> HIDE ConstantsAssumption, TypeStep DEF HomeInv, Created, Recovering, Working,
     TypeOK, OperandsOK, TaskLabels, Msgs, Procs, taskVars, msgVars, toldVars,
     sessVars, procVars, agentVars, faultVars
<1> QED
  BY <1>1, <1>2, <1>3, <1>4, <1>5, <1>6, <1>7, <1>8, <1>9, <1>10, <1>11, <1>12,
     <1>13, <1>14, <1>15, <1>16, <1>17, <1>18, <1>19, <1>20, <1>21, <1>22, <1>23,
     <1>24, <1>25, <1>26, <1>27, <1>28, <1>29, <1>30, <1>31, <1>32, <1>33, <1>34,
     <1>35, <1>36, <1>37, <1>38, <1>39
  DEF Next, DispatchStep, RecoverStep, TargetStep, RemoveStep, AgentStep, PanelStep,
      Environment

\* Every release is preceded by a message to the master.
LEMMA ToldStep ==
  ASSUME TypeOK, HomeInv, ToldInv, [Next]_vars PROVE ToldInv'
<1> USE ConstantsAssumption, TypeStep DEF HomeInv, ToldInv, Created, Recovering, Working,
     TypeOK, OperandsOK, TaskLabels, Msgs, Procs, taskVars, msgVars, toldVars,
     sessVars, procVars, agentVars, faultVars
<1>1. ASSUME NEW p \in Masters, NEW t \in Tasks, NEW s \in Targets, DispatchStart(p, t, s) PROVE ToldInv'
  BY <1>1 DEF DispatchStart, Call
<1>2. ASSUME NEW p \in Masters, DispatchBusy(p) PROVE ToldInv'
  BY <1>2 DEF DispatchBusy, Return, Call
<1>3. ASSUME NEW p \in Masters, DispatchCreate(p) PROVE ToldInv'
  BY <1>3 DEF DispatchCreate, Goto
<1>4. ASSUME NEW p \in Masters, DispatchWrite(p) PROVE ToldInv'
  BY <1>4 DEF DispatchWrite, Goto
<1>5. ASSUME NEW p \in Masters, DispatchEnqueue(p) PROVE ToldInv'
  BY <1>5 DEF DispatchEnqueue, Goto, Enqueue
<1>6. ASSUME NEW p \in Masters, DispatchSession(p) PROVE ToldInv'
  BY <1>6 DEF DispatchSession, Return, Call
<1>7. ASSUME NEW p \in Masters, DispatchWriteFails(p) PROVE ToldInv'
  BY <1>7 DEF DispatchWriteFails, Return, Call
<1>8. ASSUME NEW p \in Masters, DispatchFails(p) PROVE ToldInv'
  BY <1>8 DEF DispatchFails, Return, Call, RemoveLock
<1>9. ASSUME NEW p \in Procs, RecoverStart(p) PROVE ToldInv'
  BY <1>9 DEF RecoverStart
<1>10. ASSUME NEW p \in Procs, NEW s \in Targets, RecoverSkip(p, s) PROVE ToldInv'
  BY <1>10 DEF RecoverSkip
<1>11. ASSUME NEW p \in Procs, NEW s \in Targets, RecoverHit(p, s) PROVE ToldInv'
  BY <1>11 DEF RecoverHit, ReadLock
<1>12. ASSUME NEW p \in Procs, RecoverNotify(p) PROVE ToldInv'
  BY <1>12 DEF RecoverNotify, Goto
<1>13. ASSUME NEW p \in Procs, RecoverAck(p) PROVE ToldInv'
  BY <1>13 DEF RecoverAck, Goto, AckTask
<1>14. ASSUME NEW p \in Procs, RecoverUnlock(p) PROVE ToldInv'
  BY <1>14 DEF RecoverUnlock, Call, RemoveLock
<1>15. ASSUME NEW p \in Procs, NEW m \in Msgs, RecoverClaim(p, m) PROVE ToldInv'
  BY <1>15 DEF RecoverClaim
<1>16. ASSUME NEW p \in Procs, RecoverEnd(p) PROVE ToldInv'
  BY <1>16 DEF RecoverEnd, Goto
<1>17. ASSUME NEW s \in Targets, ReportStart(s) PROVE ToldInv'
  BY <1>17 DEF ReportStart, Call, ReadLock
<1>18. ASSUME NEW s \in Targets, CompleteStart(s) PROVE ToldInv'
  BY <1>18 DEF CompleteStart, Call, ReadLock
<1>19. ASSUME NEW s \in Targets, TaskRejected(s) PROVE ToldInv'
  BY <1>19 DEF TaskRejected
<1>20. ASSUME NEW s \in Targets, WaitStart(s) PROVE ToldInv'
  BY <1>20 DEF WaitStart
<1>21. ASSUME NEW s \in Targets, WaitTimeout(s) PROVE ToldInv'
  BY <1>21 DEF WaitTimeout
<1>22. ASSUME NEW s \in Targets, Reply(s) PROVE ToldInv'
  BY <1>22 DEF Reply
<1>23. ASSUME NEW s \in Targets, ReportLock(s) PROVE ToldInv'
  BY <1>23 DEF ReportLock, Return, Call
<1>24. ASSUME NEW s \in Targets, CompleteNotify(s) PROVE ToldInv'
  BY <1>24 DEF CompleteNotify, Goto
<1>25. ASSUME NEW s \in Targets, CompleteAck(s) PROVE ToldInv'
  BY <1>25 DEF CompleteAck, Goto, AckTask
<1>26. ASSUME NEW s \in Targets, CompleteUnlock(s) PROVE ToldInv'
  BY <1>26 DEF CompleteUnlock, Return, Call, RemoveLock
<1>27. ASSUME NEW s \in Targets, ClaimNothing(s) PROVE ToldInv'
  BY <1>27 DEF ClaimNothing, Return, Call
<1>28. ASSUME NEW s \in Targets, NEW m \in Msgs, ClaimNext(s, m) PROVE ToldInv'
  BY <1>28 DEF ClaimNext, Return, Call
<1>29. ASSUME NEW c \in Chats, NEW s \in Targets, EnqueueUserMessage(c, s) PROVE ToldInv'
  BY <1>29 DEF EnqueueUserMessage, Enqueue
<1>30. ASSUME NEW s \in Targets, RemoveStart(s) PROVE ToldInv'
  BY <1>30 DEF RemoveStart, Call
<1>31. ASSUME RemoveDir("x_inbox", "inbox", "x_processing") PROVE ToldInv'
  BY <1>31 DEF RemoveDir, Goto
<1>32. ASSUME RemoveDir("x_processing", "processing", "x_lock") PROVE ToldInv'
  BY <1>32 DEF RemoveDir, Goto
<1>33. ASSUME RemoveLockFile PROVE ToldInv'
  BY <1>33 DEF RemoveLockFile, Return, Call, RemoveLock
<1>34. ASSUME NEW s \in Targets, LockAges(s) PROVE ToldInv'
  BY <1>34 DEF LockAges
<1>35. ASSUME NEW m \in Msgs, MessageAges(m) PROVE ToldInv'
  BY <1>35 DEF MessageAges
<1>36. ASSUME NEW p \in Procs, Crash(p) PROVE ToldInv'
  BY <1>36 DEF Crash
<1>38. ASSUME NEW s \in Targets, CallFails(s) PROVE ToldInv'
  BY <1>38 DEF CallFails, Return, Call
<1>39. ASSUME NEW p \in Procs, RecoverFails(p) PROVE ToldInv'
  BY <1>39 DEF RecoverFails, Call
<1>37. CASE UNCHANGED vars
  BY <1>37 DEF vars
<1> HIDE ConstantsAssumption, TypeStep DEF HomeInv, ToldInv, Created, Recovering, Working,
     TypeOK, OperandsOK, TaskLabels, Msgs, Procs, taskVars, msgVars, toldVars,
     sessVars, procVars, agentVars, faultVars
<1> QED
  BY <1>1, <1>2, <1>3, <1>4, <1>5, <1>6, <1>7, <1>8, <1>9, <1>10, <1>11, <1>12,
     <1>13, <1>14, <1>15, <1>16, <1>17, <1>18, <1>19, <1>20, <1>21, <1>22, <1>23,
     <1>24, <1>25, <1>26, <1>27, <1>28, <1>29, <1>30, <1>31, <1>32, <1>33, <1>34,
     <1>35, <1>36, <1>37, <1>38, <1>39
  DEF Next, DispatchStep, RecoverStep, TargetStep, RemoveStep, AgentStep, PanelStep,
      Environment

\* A result is delivered again only after a crash of the target or a failed call.
LEMMA RepeatStep ==
  ASSUME TypeOK, HomeInv, RepeatInv, [Next]_vars PROVE RepeatInv'
<1> USE ConstantsAssumption, TypeStep DEF HomeInv, RepeatInv, Created, Recovering, Working,
     TypeOK, OperandsOK, TaskLabels, Msgs, Procs, taskVars, msgVars, toldVars,
     sessVars, procVars, agentVars, faultVars
<1>1. ASSUME NEW p \in Masters, NEW t \in Tasks, NEW s \in Targets, DispatchStart(p, t, s) PROVE RepeatInv'
  BY <1>1 DEF DispatchStart, Call
<1>2. ASSUME NEW p \in Masters, DispatchBusy(p) PROVE RepeatInv'
  BY <1>2 DEF DispatchBusy, Return, Call
<1>3. ASSUME NEW p \in Masters, DispatchCreate(p) PROVE RepeatInv'
  BY <1>3 DEF DispatchCreate, Goto
<1>4. ASSUME NEW p \in Masters, DispatchWrite(p) PROVE RepeatInv'
  BY <1>4 DEF DispatchWrite, Goto
<1>5. ASSUME NEW p \in Masters, DispatchEnqueue(p) PROVE RepeatInv'
  BY <1>5 DEF DispatchEnqueue, Goto, Enqueue
<1>6. ASSUME NEW p \in Masters, DispatchSession(p) PROVE RepeatInv'
  BY <1>6 DEF DispatchSession, Return, Call
<1>7. ASSUME NEW p \in Masters, DispatchWriteFails(p) PROVE RepeatInv'
  BY <1>7 DEF DispatchWriteFails, Return, Call
<1>8. ASSUME NEW p \in Masters, DispatchFails(p) PROVE RepeatInv'
  BY <1>8 DEF DispatchFails, Return, Call, RemoveLock
<1>9. ASSUME NEW p \in Procs, RecoverStart(p) PROVE RepeatInv'
  BY <1>9 DEF RecoverStart
<1>10. ASSUME NEW p \in Procs, NEW s \in Targets, RecoverSkip(p, s) PROVE RepeatInv'
  BY <1>10 DEF RecoverSkip
<1>11. ASSUME NEW p \in Procs, NEW s \in Targets, RecoverHit(p, s) PROVE RepeatInv'
  BY <1>11 DEF RecoverHit, ReadLock
<1>12. ASSUME NEW p \in Procs, RecoverNotify(p) PROVE RepeatInv'
  BY <1>12 DEF RecoverNotify, Goto
<1>13. ASSUME NEW p \in Procs, RecoverAck(p) PROVE RepeatInv'
  BY <1>13 DEF RecoverAck, Goto, AckTask
<1>14. ASSUME NEW p \in Procs, RecoverUnlock(p) PROVE RepeatInv'
  BY <1>14 DEF RecoverUnlock, Call, RemoveLock
<1>15. ASSUME NEW p \in Procs, NEW m \in Msgs, RecoverClaim(p, m) PROVE RepeatInv'
  BY <1>15 DEF RecoverClaim
<1>16. ASSUME NEW p \in Procs, RecoverEnd(p) PROVE RepeatInv'
  BY <1>16 DEF RecoverEnd, Goto
<1>17. ASSUME NEW s \in Targets, ReportStart(s) PROVE RepeatInv'
  BY <1>17 DEF ReportStart, Call, ReadLock
<1>18. ASSUME NEW s \in Targets, CompleteStart(s) PROVE RepeatInv'
  BY <1>18 DEF CompleteStart, Call, ReadLock
<1>19. ASSUME NEW s \in Targets, TaskRejected(s) PROVE RepeatInv'
  BY <1>19 DEF TaskRejected
<1>20. ASSUME NEW s \in Targets, WaitStart(s) PROVE RepeatInv'
  BY <1>20 DEF WaitStart
<1>21. ASSUME NEW s \in Targets, WaitTimeout(s) PROVE RepeatInv'
  BY <1>21 DEF WaitTimeout
<1>22. ASSUME NEW s \in Targets, Reply(s) PROVE RepeatInv'
  BY <1>22 DEF Reply
<1>23. ASSUME NEW s \in Targets, ReportLock(s) PROVE RepeatInv'
  BY <1>23 DEF ReportLock, Return, Call
<1>24. ASSUME NEW s \in Targets, CompleteNotify(s) PROVE RepeatInv'
  BY <1>24 DEF CompleteNotify, Goto
<1>25. ASSUME NEW s \in Targets, CompleteAck(s) PROVE RepeatInv'
  BY <1>25 DEF CompleteAck, Goto, AckTask
<1>26. ASSUME NEW s \in Targets, CompleteUnlock(s) PROVE RepeatInv'
  BY <1>26 DEF CompleteUnlock, Return, Call, RemoveLock
<1>27. ASSUME NEW s \in Targets, ClaimNothing(s) PROVE RepeatInv'
  BY <1>27 DEF ClaimNothing, Return, Call
<1>28. ASSUME NEW s \in Targets, NEW m \in Msgs, ClaimNext(s, m) PROVE RepeatInv'
  BY <1>28 DEF ClaimNext, Return, Call
<1>29. ASSUME NEW c \in Chats, NEW s \in Targets, EnqueueUserMessage(c, s) PROVE RepeatInv'
  BY <1>29 DEF EnqueueUserMessage, Enqueue
<1>30. ASSUME NEW s \in Targets, RemoveStart(s) PROVE RepeatInv'
  BY <1>30 DEF RemoveStart, Call
<1>31. ASSUME RemoveDir("x_inbox", "inbox", "x_processing") PROVE RepeatInv'
  BY <1>31 DEF RemoveDir, Goto
<1>32. ASSUME RemoveDir("x_processing", "processing", "x_lock") PROVE RepeatInv'
  BY <1>32 DEF RemoveDir, Goto
<1>33. ASSUME RemoveLockFile PROVE RepeatInv'
  BY <1>33 DEF RemoveLockFile, Return, Call, RemoveLock
<1>34. ASSUME NEW s \in Targets, LockAges(s) PROVE RepeatInv'
  BY <1>34 DEF LockAges
<1>35. ASSUME NEW m \in Msgs, MessageAges(m) PROVE RepeatInv'
  BY <1>35 DEF MessageAges
<1>36. ASSUME NEW p \in Procs, Crash(p) PROVE RepeatInv'
  BY <1>36 DEF Crash
<1>38. ASSUME NEW s \in Targets, CallFails(s) PROVE RepeatInv'
  BY <1>38 DEF CallFails, Return, Call
<1>39. ASSUME NEW p \in Procs, RecoverFails(p) PROVE RepeatInv'
  BY <1>39 DEF RecoverFails, Call
<1>37. CASE UNCHANGED vars
  BY <1>37 DEF vars
<1> HIDE ConstantsAssumption, TypeStep DEF HomeInv, RepeatInv, Created, Recovering, Working,
     TypeOK, OperandsOK, TaskLabels, Msgs, Procs, taskVars, msgVars, toldVars,
     sessVars, procVars, agentVars, faultVars
<1> QED
  BY <1>1, <1>2, <1>3, <1>4, <1>5, <1>6, <1>7, <1>8, <1>9, <1>10, <1>11, <1>12,
     <1>13, <1>14, <1>15, <1>16, <1>17, <1>18, <1>19, <1>20, <1>21, <1>22, <1>23,
     <1>24, <1>25, <1>26, <1>27, <1>28, <1>29, <1>30, <1>31, <1>32, <1>33, <1>34,
     <1>35, <1>36, <1>37, <1>38, <1>39
  DEF Next, DispatchStep, RecoverStep, TargetStep, RemoveStep, AgentStep, PanelStep,
      Environment

\* A step that leaves the locks alone and starts neither a recovery nor a
\* completion keeps the invariant.
LEMMA QuietKeepsTimely ==
  ASSUME TimelyInv, Targets \subseteq Procs,
         UNCHANGED <<lock, stale, refused, everStale, clobbered, home, notices,
                     deleted, arg, at>>,
         \A p \in Procs : pc'[p] = pc[p] \/ pc'[p] \notin Recovering \cup Working
  PROVE TimelyInv'
<1> SUFFICES ASSUME NEW s \in Targets
             PROVE (stale[s] => everStale[s]) /\ (Undisturbed(s) => Alone(s)')
  BY DEF TimelyInv, Undisturbed
<1>1. (stale[s] => everStale[s]) /\ (Undisturbed(s) => Alone(s))
  BY DEF TimelyInv
<1>2. Alone(s) => Alone(s)'
  BY DEF Alone
<1> QED
  BY <1>1, <1>2

\* Recovery stays away from a target whose heartbeat is timely.
LEMMA TimelyStep ==
  ASSUME TypeOK, HomeInv, ToldInv, TimelyInv, [Next]_vars PROVE TimelyInv'
<1>4. ASSUME NEW p \in Masters, DispatchWrite(p) PROVE TimelyInv'
  <2>1. /\ UNCHANGED <<lock, stale, refused, everStale, clobbered, home, notices, deleted, arg, at>>
        /\ pc' = [pc EXCEPT ![p] = "d_enqueue"]
    BY <1>4 DEF DispatchWrite, Goto, msgVars, toldVars, sessVars
  <2>2. \A q \in Procs : pc'[q] = pc[q] \/ pc'[q] \notin Recovering \cup Working
    BY <2>1 DEF TypeOK, Recovering, Working
  <2> QED
    BY <2>1, <2>2, QuietKeepsTimely DEF Procs
<1>9. ASSUME NEW p \in Procs, RecoverStart(p) PROVE TimelyInv'
  BY <1>9, QuietKeepsTimely
  DEF RecoverStart, Goto, Recovering, Working, TypeOK, Procs, taskVars, msgVars, toldVars, sessVars, procVars
<1>10. ASSUME NEW p \in Procs, NEW s \in Targets, RecoverSkip(p, s) PROVE TimelyInv'
  BY <1>10, QuietKeepsTimely
  DEF RecoverSkip, Goto, TypeOK, Procs, taskVars, msgVars, toldVars, sessVars, procVars
<1>15. ASSUME NEW p \in Procs, NEW m \in Msgs, RecoverClaim(p, m) PROVE TimelyInv'
  BY <1>15, QuietKeepsTimely
  DEF RecoverClaim, Goto, TypeOK, Procs, taskVars, msgVars, toldVars, sessVars, procVars
<1>16. ASSUME NEW p \in Procs, RecoverEnd(p) PROVE TimelyInv'
  BY <1>16, QuietKeepsTimely
  DEF RecoverEnd, Goto, Recovering, Working, TypeOK, Procs, taskVars, msgVars, toldVars, sessVars, procVars
<1>19. ASSUME NEW s \in Targets, TaskRejected(s) PROVE TimelyInv'
  BY <1>19, QuietKeepsTimely
  DEF TaskRejected, Goto, TypeOK, Procs, taskVars, msgVars, toldVars, sessVars, procVars
<1>20. ASSUME NEW s \in Targets, WaitStart(s) PROVE TimelyInv'
  BY <1>20, QuietKeepsTimely
  DEF WaitStart, Goto, TypeOK, Procs, taskVars, msgVars, toldVars, sessVars, procVars
<1>21. ASSUME NEW s \in Targets, WaitTimeout(s) PROVE TimelyInv'
  BY <1>21, QuietKeepsTimely
  DEF WaitTimeout, Goto, TypeOK, Procs, taskVars, msgVars, toldVars, sessVars, procVars
<1>22. ASSUME NEW s \in Targets, Reply(s) PROVE TimelyInv'
  BY <1>22, QuietKeepsTimely
  DEF Reply, Goto, TypeOK, Procs, taskVars, msgVars, toldVars, sessVars, procVars
<1>35. ASSUME NEW m \in Msgs, MessageAges(m) PROVE TimelyInv'
  BY <1>35, QuietKeepsTimely
  DEF MessageAges, Goto, TypeOK, Procs, taskVars, msgVars, toldVars, sessVars, procVars
<1>25. ASSUME NEW s \in Targets, CompleteAck(s) PROVE TimelyInv'
  <2>1. /\ UNCHANGED <<lock, stale, refused, everStale, clobbered, home, notices, deleted, arg, at>>
        /\ pc' = [pc EXCEPT ![s] = "c_unlock"] /\ pc[s] = "c_ack"
    BY <1>25 DEF CompleteAck, Goto, AckTask, taskVars, toldVars, sessVars
  <2> SUFFICES ASSUME NEW r \in Targets
               PROVE  (stale'[r] => everStale'[r]) /\ (Undisturbed(r)' => Alone(r)')
    BY DEF TimelyInv
  <2>2. (stale[r] => everStale[r]) /\ (Undisturbed(r) => Alone(r)) /\ (Undisturbed(r)' => Undisturbed(r))
    BY <2>1 DEF TimelyInv, Undisturbed
  <2>3. \A p \in Procs : pc'[p] \in Recovering => pc[p] \in Recovering
    BY <2>1 DEF Recovering, TypeOK
  <2>4. pc'[r] \in Working => pc[r] \in Working
    BY <2>1 DEF Working, TypeOK, Procs
  <2> QED
    BY <2>1, <2>2, <2>3, <2>4 DEF Alone
<1>31. ASSUME NEW label, NEW place, NEW next, RemoveDir(label, place, next),
              next \in {"x_processing", "x_lock"}
       PROVE  TimelyInv'
  <2>1. /\ UNCHANGED <<lock, stale, refused, everStale, clobbered, home, notices, deleted, arg, at>>
        /\ pc' = [pc EXCEPT ![Hub] = next]
    BY <1>31 DEF RemoveDir, Goto, taskVars, toldVars, sessVars
  <2>2. \A p \in Procs : pc'[p] = pc[p] \/ pc'[p] \notin Recovering \cup Working
    BY <1>31, <2>1 DEF TypeOK, Recovering, Working
  <2> QED
    BY <2>1, <2>2, QuietKeepsTimely DEF Procs
<1>32. ASSUME RemoveDir("x_inbox", "inbox", "x_processing")
              \/ RemoveDir("x_processing", "processing", "x_lock")
       PROVE  TimelyInv'
  BY <1>31, <1>32
<1>40. ASSUME NEW p \in Procs, NEW label \in {"idle", "v_scan"},
              UNCHANGED <<lock, stale, refused, everStale, clobbered, home, notices, deleted>>,
              pc' = [pc EXCEPT ![p] = label], arg' = [arg EXCEPT ![p] = None],
              at' = [at EXCEPT ![p] = None]
       PROVE  TimelyInv'
  <2>1. \A q \in Procs : pc'[q] \in Recovering \cup Working =>
          pc'[q] = pc[q] /\ arg'[q] = arg[q] /\ at'[q] = at[q]
    BY <1>40 DEF TypeOK, Recovering, Working
  <2>2. \A s \in Targets : Alone(s) => Alone(s)'
    BY <1>40, <2>1 DEF Alone, Procs
  <2> QED
    BY <1>40, <2>2 DEF TimelyInv, Undisturbed
<1>38. ASSUME NEW s \in Targets, CallFails(s) PROVE TimelyInv'
  <2>1. /\ UNCHANGED <<lock, stale, refused, everStale, clobbered, home, notices, deleted>>
        /\ pc' = [pc EXCEPT ![s] = "idle"] /\ arg' = [arg EXCEPT ![s] = None]
        /\ at' = [at EXCEPT ![s] = None]
    BY <1>38 DEF CallFails, Return, Call, taskVars, msgVars, toldVars, sessVars
  <2> QED
    BY <1>40, <2>1 DEF Procs
<1>39. ASSUME NEW p \in Procs, RecoverFails(p) PROVE TimelyInv'
  <2>1. /\ UNCHANGED <<lock, stale, refused, everStale, clobbered, home, notices, deleted>>
        /\ pc' = [pc EXCEPT ![p] = "v_scan"] /\ arg' = [arg EXCEPT ![p] = None]
        /\ at' = [at EXCEPT ![p] = None]
    BY <1>39 DEF RecoverFails, Call, taskVars, msgVars, toldVars, sessVars
  <2> QED
    BY <1>40, <2>1
<1> USE ConstantsAssumption, TypeStep DEF HomeInv, TimelyInv, Alone, Undisturbed, Created, Recovering, Working,
     TypeOK, OperandsOK, TaskLabels, Msgs, Procs, taskVars, msgVars, toldVars,
     sessVars, procVars, agentVars, faultVars
<1>1. ASSUME NEW p \in Masters, NEW t \in Tasks, NEW s \in Targets, DispatchStart(p, t, s) PROVE TimelyInv'
  BY <1>1 DEF DispatchStart, Call
<1>2. ASSUME NEW p \in Masters, DispatchBusy(p) PROVE TimelyInv'
  BY <1>2 DEF DispatchBusy, Return, Call
<1>3. ASSUME NEW p \in Masters, DispatchCreate(p) PROVE TimelyInv'
  BY <1>3 DEF DispatchCreate, Goto
<1>5. ASSUME NEW p \in Masters, DispatchEnqueue(p) PROVE TimelyInv'
  BY <1>5 DEF DispatchEnqueue, Goto, Enqueue
<1>6. ASSUME NEW p \in Masters, DispatchSession(p) PROVE TimelyInv'
  BY <1>6 DEF DispatchSession, Return, Call
<1>7. ASSUME NEW p \in Masters, DispatchWriteFails(p) PROVE TimelyInv'
  BY <1>7 DEF DispatchWriteFails, Return, Call
<1>8. ASSUME NEW p \in Masters, DispatchFails(p) PROVE TimelyInv'
  BY <1>8 DEF DispatchFails, Return, Call, RemoveLock
<1>11. ASSUME NEW p \in Procs, NEW s \in Targets, RecoverHit(p, s) PROVE TimelyInv'
  BY <1>11 DEF RecoverHit, ReadLock
<1>12. ASSUME NEW p \in Procs, RecoverNotify(p) PROVE TimelyInv'
  BY <1>12 DEF RecoverNotify, Goto
<1>13. ASSUME NEW p \in Procs, RecoverAck(p) PROVE TimelyInv'
  BY <1>13 DEF RecoverAck, Goto, AckTask
<1>14. ASSUME NEW p \in Procs, RecoverUnlock(p) PROVE TimelyInv'
  <2> SUFFICES ASSUME NEW r \in Targets
               PROVE (stale'[r] => everStale'[r]) /\ (Undisturbed(r)' => Alone(r)')
    OBVIOUS
  <2>1. Undisturbed(r)' => Undisturbed(r) /\ Alone(r) /\ at[p] # r
    BY <1>14 DEF RecoverUnlock, Call, RemoveLock
  <2>2. stale'[r] => everStale'[r]
    BY <1>14 DEF RecoverUnlock
  <2>3. Undisturbed(r)' => lock'[r] = lock[r] /\ \A t \in Tasks : home[t] = r => t \notin clobbered'
    BY <1>14, <2>1 DEF RecoverUnlock, RemoveLock
  <2> QED
    BY <1>14, <2>1, <2>2, <2>3 DEF RecoverUnlock, Call
<1>17. ASSUME NEW s \in Targets, ReportStart(s) PROVE TimelyInv'
  BY <1>17 DEF ReportStart, Call, ReadLock
<1>18. ASSUME NEW s \in Targets, CompleteStart(s) PROVE TimelyInv'
  BY <1>18 DEF CompleteStart, Call, ReadLock
<1>23. ASSUME NEW s \in Targets, ReportLock(s) PROVE TimelyInv'
  <2> SUFFICES ASSUME NEW r \in Targets
               PROVE (stale'[r] => everStale'[r]) /\ (Undisturbed(r)' => Alone(r)')
    OBVIOUS
  <2>1. Undisturbed(r)' => Undisturbed(r) /\ Alone(r)
    BY <1>23 DEF ReportLock, Return, Call
  <2>2. stale'[r] => everStale'[r]
    BY <1>23 DEF ReportLock, Return, Call
  <2>3. CASE r = s
    BY <1>23, <2>1, <2>2, <2>3 DEF ReportLock, Return, Call
  <2>4. CASE r # s
    BY <1>23, <2>1, <2>2, <2>4 DEF ReportLock, Return, Call
  <2> QED
    BY <2>3, <2>4
<1>24. ASSUME NEW s \in Targets, CompleteNotify(s) PROVE TimelyInv'
  BY <1>24 DEF CompleteNotify, Goto
<1>26. ASSUME NEW s \in Targets, CompleteUnlock(s) PROVE TimelyInv'
  <2> SUFFICES ASSUME NEW r \in Targets
               PROVE (stale'[r] => everStale'[r]) /\ (Undisturbed(r)' => Alone(r)')
    OBVIOUS
  <2>1. Undisturbed(r)' => Undisturbed(r) /\ Alone(r)
    BY <1>26 DEF CompleteUnlock
  <2>2. stale'[r] => everStale'[r]
    BY <1>26 DEF CompleteUnlock
  <2>3. /\ pc' = [pc EXCEPT ![s] = "idle"] /\ arg' = [arg EXCEPT ![s] = None]
        /\ at' = [at EXCEPT ![s] = None] /\ pc[s] = "c_unlock"
        /\ lock' = [lock EXCEPT ![s] = None] /\ UNCHANGED <<home, notices>>
        /\ clobbered' = clobbered \cup ({lock[s]} \ {arg[s], None})
    BY <1>26 DEF CompleteUnlock, Return, Call, RemoveLock
  <2>4. Undisturbed(r)' => \A t \in Tasks : home[t] = r => t \notin clobbered'
    <3>1. CASE r = s
      BY <2>1, <2>3, <3>1
    <3>2. CASE r # s
      BY <2>1, <2>3, <3>2
    <3> QED
      BY <3>1, <3>2
  <2>5. \A p \in Procs : pc'[p] \in Recovering => pc[p] \in Recovering /\ at'[p] = at[p]
    BY <2>3
  <2>6. pc'[r] \in Working => r # s
    BY <2>3
  <2> HIDE DEF Undisturbed
  <2> QED
    BY <2>1, <2>2, <2>3, <2>4, <2>5, <2>6
<1>27. ASSUME NEW s \in Targets, ClaimNothing(s) PROVE TimelyInv'
  BY <1>27 DEF ClaimNothing, Return, Call
<1>28. ASSUME NEW s \in Targets, NEW m \in Msgs, ClaimNext(s, m) PROVE TimelyInv'
  BY <1>28 DEF ClaimNext, Return, Call
<1>29. ASSUME NEW c \in Chats, NEW s \in Targets, EnqueueUserMessage(c, s) PROVE TimelyInv'
  BY <1>29 DEF EnqueueUserMessage, Enqueue
<1>30. ASSUME NEW s \in Targets, RemoveStart(s) PROVE TimelyInv'
  <2> SUFFICES ASSUME NEW r \in Targets
               PROVE (stale'[r] => everStale'[r]) /\ (Undisturbed(r)' => Alone(r)')
    OBVIOUS
  <2>1. Undisturbed(r)' => Undisturbed(r) /\ Alone(r)
    BY <1>30 DEF RemoveStart, Call
  <2>2. stale'[r] => everStale'[r]
    BY <1>30 DEF RemoveStart, Call
  <2>3. CASE r = s
    BY <1>30, <2>1, <2>2, <2>3 DEF RemoveStart, Call
  <2>4. CASE r # s
    BY <1>30, <2>1, <2>2, <2>4 DEF RemoveStart, Call
  <2> QED
    BY <2>3, <2>4
<1>33. ASSUME RemoveLockFile PROVE TimelyInv'
  <2> SUFFICES ASSUME NEW r \in Targets
               PROVE (stale'[r] => everStale'[r]) /\ (Undisturbed(r)' => Alone(r)')
    OBVIOUS
  <2>0. /\ pc[Hub] = "x_lock" /\ UNCHANGED <<stale, refused, everStale, home, notices, deleted>>
        /\ pc' = [pc EXCEPT ![Hub] = "idle"] /\ arg' = [arg EXCEPT ![Hub] = None]
        /\ at' = [at EXCEPT ![Hub] = None]
        /\ lock' = [lock EXCEPT ![at[Hub]] = None]
        /\ clobbered' = clobbered
    BY <1>33 DEF RemoveLockFile, Return, Call, RemoveLock
  <2>1. Undisturbed(r)' => Undisturbed(r) /\ Alone(r)
    BY <2>0
  <2>2. stale'[r] => everStale'[r]
    BY <2>0
  <2>3. Undisturbed(r)' => at[Hub] # r
    BY <2>0 DEF ToldInv
  <2>4. at[Hub] # r => lock'[r] = lock[r]
    BY <2>0
  <2>5. \A p \in Procs : pc'[p] \in Recovering \cup Working =>
          pc'[p] = pc[p] /\ arg'[p] = arg[p] /\ at'[p] = at[p]
    BY <2>0
  <2> HIDE DEF Undisturbed
  <2> QED
    BY <2>0, <2>1, <2>2, <2>3, <2>4, <2>5
<1>34. ASSUME NEW s \in Targets, LockAges(s) PROVE TimelyInv'
  BY <1>34 DEF LockAges
<1>36. ASSUME NEW p \in Procs, Crash(p) PROVE TimelyInv'
  BY <1>36 DEF Crash
<1>37. CASE UNCHANGED vars
  BY <1>37 DEF vars
<1> HIDE ConstantsAssumption, TypeStep DEF HomeInv, TimelyInv, Alone, Undisturbed, Created, Recovering, Working,
     TypeOK, OperandsOK, TaskLabels, Msgs, Procs, taskVars, msgVars, toldVars,
     sessVars, procVars, agentVars, faultVars
<1> QED
  BY <1>1, <1>2, <1>3, <1>4, <1>5, <1>6, <1>7, <1>8, <1>9, <1>10, <1>11, <1>12,
     <1>13, <1>14, <1>15, <1>16, <1>17, <1>18, <1>19, <1>20, <1>21, <1>22, <1>23,
     <1>24, <1>25, <1>26, <1>27, <1>28, <1>29, <1>30, <1>31, <1>32, <1>33, <1>34,
     <1>35, <1>36, <1>37, <1>38, <1>39
  DEF Next, DispatchStep, RecoverStep, TargetStep, RemoveStep, AgentStep, PanelStep,
      Environment

\* A step that claims and acknowledges no panel message and answers none.
LEMMA ElsewhereKeepsAnswers ==
  ASSUME AnswerInv, UNCHANGED <<work, answered, crashes>>,
         \A c \in Chats : home'[c] = home[c] /\ box'[c] \in {box[c], "inbox"},
         \A s \in Targets : deleted[s] => deleted'[s],
         \A s \in Targets : pc'[s] \in Working => pc[s] \in Working \/ work[s] \in Tasks
  PROVE AnswerInv'
  BY DEF AnswerInv, InHand

\* What a target acknowledges it has answered.
LEMMA AnswerStep ==
  ASSUME TypeOK, ToldInv, AnswerInv, [Next]_vars PROVE AnswerInv'
<1> USE ConstantsAssumption DEF TypeOK, OperandsOK, TaskLabels, Labels, Msgs, Procs, taskVars, msgVars, toldVars,
     sessVars, procVars, agentVars, faultVars
<1>1. ASSUME NEW p \in Masters, NEW t \in Tasks, NEW s \in Targets, DispatchStart(p, t, s) PROVE AnswerInv'
  BY <1>1, ElsewhereKeepsAnswers DEF DispatchStart, Call, Working
<1>2. ASSUME NEW p \in Masters, DispatchBusy(p) PROVE AnswerInv'
  BY <1>2, ElsewhereKeepsAnswers DEF DispatchBusy, Return, Call, Working
<1>3. ASSUME NEW p \in Masters, DispatchCreate(p) PROVE AnswerInv'
  BY <1>3, ElsewhereKeepsAnswers DEF DispatchCreate, Goto, Working
<1>4. ASSUME NEW p \in Masters, DispatchWrite(p) PROVE AnswerInv'
  BY <1>4, ElsewhereKeepsAnswers DEF DispatchWrite, Goto, Working
<1>5. ASSUME NEW p \in Masters, DispatchEnqueue(p) PROVE AnswerInv'
  BY <1>5, ElsewhereKeepsAnswers DEF DispatchEnqueue, Goto, Enqueue, Working
<1>6. ASSUME NEW p \in Masters, DispatchSession(p) PROVE AnswerInv'
  BY <1>6, ElsewhereKeepsAnswers DEF DispatchSession, Return, Call, Working
<1>7. ASSUME NEW p \in Masters, DispatchWriteFails(p) PROVE AnswerInv'
  BY <1>7, ElsewhereKeepsAnswers DEF DispatchWriteFails, Return, Call, Working
<1>8. ASSUME NEW p \in Masters, DispatchFails(p) PROVE AnswerInv'
  BY <1>8, ElsewhereKeepsAnswers DEF DispatchFails, Return, Call, Working
<1>9. ASSUME NEW p \in Procs, RecoverStart(p) PROVE AnswerInv'
  BY <1>9, ElsewhereKeepsAnswers DEF RecoverStart, Working
<1>10. ASSUME NEW p \in Procs, NEW s \in Targets, RecoverSkip(p, s) PROVE AnswerInv'
  BY <1>10, ElsewhereKeepsAnswers DEF RecoverSkip, Working
<1>11. ASSUME NEW p \in Procs, NEW s \in Targets, RecoverHit(p, s) PROVE AnswerInv'
  BY <1>11, ElsewhereKeepsAnswers DEF RecoverHit, Working
<1>12. ASSUME NEW p \in Procs, RecoverNotify(p) PROVE AnswerInv'
  BY <1>12, ElsewhereKeepsAnswers DEF RecoverNotify, Goto, Working
<1>13. ASSUME NEW p \in Procs, RecoverAck(p) PROVE AnswerInv'
  BY <1>13, ElsewhereKeepsAnswers DEF RecoverAck, Goto, AckTask, Working
<1>14. ASSUME NEW p \in Procs, RecoverUnlock(p) PROVE AnswerInv'
  BY <1>14, ElsewhereKeepsAnswers DEF RecoverUnlock, Call, Working
<1>15. ASSUME NEW p \in Procs, NEW m \in Msgs, RecoverClaim(p, m) PROVE AnswerInv'
  BY <1>15, ElsewhereKeepsAnswers DEF RecoverClaim, Working
<1>16. ASSUME NEW p \in Procs, RecoverEnd(p) PROVE AnswerInv'
  BY <1>16, ElsewhereKeepsAnswers DEF RecoverEnd, Goto, Working
<1>17. ASSUME NEW s \in Targets, ReportStart(s) PROVE AnswerInv'
  BY <1>17, ElsewhereKeepsAnswers DEF ReportStart, Call, Working
<1>18. ASSUME NEW s \in Targets, CompleteStart(s) PROVE AnswerInv'
  BY <1>18, ElsewhereKeepsAnswers DEF CompleteStart, Call, Working
<1>20. ASSUME NEW s \in Targets, WaitStart(s) PROVE AnswerInv'
  BY <1>20, ElsewhereKeepsAnswers DEF WaitStart, Working
<1>21. ASSUME NEW s \in Targets, WaitTimeout(s) PROVE AnswerInv'
  BY <1>21, ElsewhereKeepsAnswers DEF WaitTimeout, Working
<1>23. ASSUME NEW s \in Targets, ReportLock(s) PROVE AnswerInv'
  BY <1>23, ElsewhereKeepsAnswers DEF ReportLock, Return, Call, Working
<1>24. ASSUME NEW s \in Targets, CompleteNotify(s) PROVE AnswerInv'
  BY <1>24, ElsewhereKeepsAnswers DEF CompleteNotify, Goto, Working
<1>25. ASSUME NEW s \in Targets, CompleteAck(s) PROVE AnswerInv'
  BY <1>25, ElsewhereKeepsAnswers DEF CompleteAck, Goto, AckTask, Working
<1>27. ASSUME NEW s \in Targets, ClaimNothing(s) PROVE AnswerInv'
  BY <1>27, ElsewhereKeepsAnswers DEF ClaimNothing, Return, Call, Working
<1>30. ASSUME NEW s \in Targets, RemoveStart(s) PROVE AnswerInv'
  BY <1>30, ElsewhereKeepsAnswers DEF RemoveStart, Call, Working
<1>33. ASSUME RemoveLockFile PROVE AnswerInv'
  BY <1>33, ElsewhereKeepsAnswers DEF RemoveLockFile, Return, Call, Working
<1>34. ASSUME NEW s \in Targets, LockAges(s) PROVE AnswerInv'
  BY <1>34, ElsewhereKeepsAnswers DEF LockAges, Working
<1>35. ASSUME NEW m \in Msgs, MessageAges(m) PROVE AnswerInv'
  BY <1>35, ElsewhereKeepsAnswers DEF MessageAges, Working
<1>19. ASSUME NEW s \in Targets, TaskRejected(s) PROVE AnswerInv'
  BY <1>19 DEF TaskRejected, AnswerInv, InHand, Working, ToldInv
<1>22. ASSUME NEW s \in Targets, Reply(s) PROVE AnswerInv'
  <2>1. \/ UNCHANGED box
        \/ \E m \in Chats : /\ box[m] = "processing" /\ home[m] = s
                            /\ box' = [box EXCEPT ![m] = "gone"]
    BY <1>22 DEF Reply, Holds
  <2>2. /\ answered' = answered \cup ({work[s]} \cap Chats)
        /\ work' = [work EXCEPT ![s] = IF @ \in Chats THEN None ELSE @]
        /\ UNCHANGED <<home, deleted, pc, crashes>> /\ pc[s] = "idle"
    BY <1>22 DEF Reply
  <2> SUFFICES ASSUME NEW r \in Targets, crashes[r] = 0 PROVE InHand(r)'
    BY <2>2 DEF AnswerInv
  <2>3. InHand(r)
    BY DEF AnswerInv
  <2>4. r = s => \A c \in Chats : home[c] = s /\ box[c] = "processing" => c \in answered'
    BY <2>2, <2>3 DEF InHand
  <2>5. r # s => work'[r] = work[r] /\ \A c \in Chats : home[c] = r => box'[c] = box[c]
    BY <2>1, <2>2
  <2>6. CASE r = s
    BY <2>1, <2>2, <2>3, <2>4, <2>6 DEF InHand, Working
  <2>7. CASE r # s
    BY <2>2, <2>3, <2>5, <2>7 DEF InHand
  <2> QED
    BY <2>6, <2>7
<1>26. ASSUME NEW s \in Targets, CompleteUnlock(s) PROVE AnswerInv'
  BY <1>26 DEF CompleteUnlock, Return, Call, AnswerInv, InHand, Working, ToldInv
<1>28. ASSUME NEW s \in Targets, NEW m \in Msgs, ClaimNext(s, m) PROVE AnswerInv'
  BY <1>28 DEF ClaimNext, Return, Call, Holds, AnswerInv, InHand, Working, ToldInv
<1>29. ASSUME NEW c \in Chats, NEW s \in Targets, EnqueueUserMessage(c, s) PROVE AnswerInv'
  BY <1>29 DEF EnqueueUserMessage, Enqueue, AnswerInv, InHand, Working, ToldInv
<1>31. ASSUME RemoveDir("x_inbox", "inbox", "x_processing") PROVE AnswerInv'
  BY <1>31 DEF RemoveDir, Goto, Holds, AnswerInv, InHand, Working, ToldInv
<1>32. ASSUME RemoveDir("x_processing", "processing", "x_lock") PROVE AnswerInv'
  BY <1>32 DEF RemoveDir, Goto, Holds, AnswerInv, InHand, Working, ToldInv
<1>36. ASSUME NEW p \in Procs, Crash(p) PROVE AnswerInv'
  BY <1>36 DEF Crash, AnswerInv, InHand, Working, ToldInv
<1>38. ASSUME NEW s \in Targets, CallFails(s) PROVE AnswerInv'
  <2>1. /\ pc' = [pc EXCEPT ![s] = "idle"] /\ pc[s] \in {"r_lock", "c_notify", "c_ack", "c_unlock"}
        /\ UNCHANGED <<home, box, answered, deleted, crashes>>
        /\ work' = [work EXCEPT ![s] = None] \/ UNCHANGED work
    BY <1>38 DEF CallFails, Return, Call
  <2> SUFFICES ASSUME NEW r \in Targets, crashes[r] = 0 PROVE InHand(r)'
    BY <2>1 DEF AnswerInv
  <2>2. InHand(r)
    BY DEF AnswerInv
  <2>3. r = s => work[r] \in Tasks
    BY <2>1, <2>2 DEF InHand, Working
  <2> QED
    BY <2>1, <2>2, <2>3 DEF InHand, Working
<1>39. ASSUME NEW p \in Procs, RecoverFails(p) PROVE AnswerInv'
  BY <1>39, ElsewhereKeepsAnswers DEF RecoverFails, Call, Working
<1>37. CASE UNCHANGED vars
  BY <1>37 DEF vars, AnswerInv, InHand
<1> HIDE ConstantsAssumption DEF TypeOK, OperandsOK, TaskLabels, Labels, Msgs, Procs, taskVars, msgVars, toldVars,
     sessVars, procVars, agentVars, faultVars
<1> QED
  BY <1>1, <1>2, <1>3, <1>4, <1>5, <1>6, <1>7, <1>8, <1>9, <1>10, <1>11, <1>12,
     <1>13, <1>14, <1>15, <1>16, <1>17, <1>18, <1>19, <1>20, <1>21, <1>22, <1>23,
     <1>24, <1>25, <1>26, <1>27, <1>28, <1>29, <1>30, <1>31, <1>32, <1>33, <1>34,
     <1>35, <1>36, <1>37, <1>38, <1>39
  DEF Next, DispatchStep, RecoverStep, TargetStep, RemoveStep, AgentStep, PanelStep,
      Environment

-----------------------------------------------------------------------------
\* The conjuncts are inductive together.
LEMMA InvariantHolds == Spec => []IInv
<1>1. Init => IInv
  <2>1. Init => TypeOK
    BY TypeInit
  <2>2. Init => HomeInv /\ ToldInv /\ RepeatInv /\ TimelyInv /\ AnswerInv
    BY ConstantsAssumption
    DEF Init, HomeInv, ToldInv, RepeatInv, TimelyInv, Alone, Undisturbed, Created,
        Recovering, Working, Procs, Msgs, AnswerInv, InHand, Working
  <2> QED
    BY <2>1, <2>2 DEF IInv
<1>2. IInv /\ [Next]_vars => IInv'
  BY TypeStep, HomeStep, ToldStep, RepeatStep, TimelyStep, AnswerStep DEF IInv
<1> QED
  BY <1>1, <1>2, PTL DEF Spec

\* completeSubagentTask and recoverStaleTasks tell the master before they let the
\* lock go: whatever the interleaving and the crashes, a task whose lock is gone
\* has been reported, or an operation on another task removed the lock.
THEOREM ReleaseIsTold == Spec => []ReleasedImpliesTold
<1>1. IInv => ReleasedImpliesTold
  BY DEF IInv, TypeOK, ToldInv, ReleasedImpliesTold, Accepted, Told
<1> QED
  BY <1>1, InvariantHolds, PTL

\* acquireTaskLock gives a target one task at a time: of the tasks a master was given
\* an id for and has heard no end of, at most one is at work at a session, whichever
\* masters dispatched them and whatever recovery and crashes did in between.
Pending(t, s) ==
  Accepted(t) /\ home[t] = s /\ ~deleted[s] /\ t \notin clobbered /\ ~Told(t)

OnePendingTask ==
  \A s \in Targets : \A t, u \in Tasks : Pending(t, s) /\ Pending(u, s) => t = u

\* For any number of sessions, masters, tasks and faults.
THEOREM OneAtATime == Spec => []OnePendingTask
<1>1. ReleasedImpliesTold => OnePendingTask
  <2> SUFFICES ASSUME ReleasedImpliesTold, NEW s \in Targets, NEW t \in Tasks, NEW u \in Tasks,
                      Pending(t, s), Pending(u, s)
               PROVE  t = u
    BY DEF OnePendingTask
  <2>1. lock[s] = t /\ lock[s] = u
    BY DEF ReleasedImpliesTold, Pending
  <2> QED
    BY <2>1
<1> QED
  BY <1>1, ReleaseIsTold, PTL

\* recoverStaleTasks in other processes never disturbs a target that reports in
\* time: no notice, and the lock stays until the target's own result is delivered.
THEOREM TimelyIsUndisturbed == Spec => []TimelyTargetIsUndisturbed
<1>1. IInv => TimelyTargetIsUndisturbed
  BY DEF IInv, TypeOK, ToldInv, TimelyInv, Alone, Undisturbed, Accepted,
         TimelyTargetIsUndisturbed
<1> QED
  BY <1>1, InvariantHolds, PTL

\* completeSubagentTask delivers a result again only if the target crashed, or a call
\* failed between the delivery and the removal of the lock.
THEOREM RepeatNeedsFailure == Spec => []ResultRepeatsOnlyAfterFailure
<1>1. IInv => ResultRepeatsOnlyAfterFailure
  BY DEF IInv, RepeatInv, ResultRepeatsOnlyAfterFailure
<1> QED
  BY <1>1, InvariantHolds, PTL

\* reply acknowledges by the type of a claim, and yet, while its agent does not
\* restart, only what the agent answered, whatever recovery puts back meanwhile.
THEOREM AcknowledgesAnswered == Spec => []AcknowledgedWasAnswered
<1>1. IInv => AcknowledgedWasAnswered
  BY DEF IInv, AnswerInv, InHand, AcknowledgedWasAnswered
<1> QED
  BY <1>1, InvariantHolds, PTL
-----------------------------------------------------------------------------
(* The refinement: the directories of a session implement Mailbox.         *)

\* A step that touches the file of no panel message.
LEMMA ElsewhereKeepsMailbox ==
  ASSUME NEW s \in Targets, UNCHANGED answered,
         \A c \in Chats : home'[c] = home[c] /\ box'[c] = box[c]
  PROVE  UNCHANGED <<Held(s), answered>>
BY DEF Held

\* A claim or a put-back moves a file between the two directories.
LEMMA MoveKeepsMailbox ==
  ASSUME TypeOK, NEW s \in Targets, UNCHANGED <<home, answered>>, NEW m \in Msgs,
         NEW from \in {"inbox", "processing"}, NEW to \in {"inbox", "processing"},
         box[m] = from, box' = [box EXCEPT ![m] = to]
  PROVE  UNCHANGED <<Held(s), answered>>
<1>1. \A c \in Chats : box'[c] \in {"inbox", "processing"} <=> box[c] \in {"inbox", "processing"}
  BY DEF TypeOK, Msgs
<1> QED
  BY <1>1 DEF Held

\* The removal of another session empties no directory of this one.
LEMMA RemovalKeepsMailbox ==
  ASSUME TypeOK, ToldInv, NEW s \in Targets, ~deleted'[s], NEW place, NEW label, NEW next,
         label \in {"x_inbox", "x_processing"}, RemoveDir(label, place, next)
  PROVE  UNCHANGED <<Held(s), answered>>
<1>1. UNCHANGED <<home, answered, deleted>>
  BY DEF RemoveDir, sessVars, agentVars
<1>2. at[Hub] # s
  BY <1>1 DEF RemoveDir, ToldInv
<1>3. \A c \in Chats : home[c] = s => box'[c] = box[c]
  BY <1>2 DEF RemoveDir, Holds, Msgs
<1> QED
  BY <1>1, <1>3 DEF Held

\* A panel message is put into the inbox of its session.
LEMMA EnqueuePuts ==
  ASSUME TypeOK, NEW s \in Targets, NEW c \in Chats, NEW r \in Targets,
         EnqueueUserMessage(c, r)
  PROVE  [MailboxOf(s)!Next]_<<Held(s), answered>>
<1>1. /\ box' = [box EXCEPT ![c] = "inbox"] /\ home' = [home EXCEPT ![c] = r]
      /\ UNCHANGED answered /\ home[c] = None /\ None \notin Targets
  BY ConstantsAssumption DEF EnqueueUserMessage, Enqueue, agentVars, Procs
<1>2. /\ home'[c] = r /\ box'[c] = "inbox"
      /\ \A d \in Chats \ {c} : home'[d] = home[d] /\ box'[d] = box[d]
  BY <1>1 DEF TypeOK, Msgs
<1>3. Held(s)' = IF r = s THEN Held(s) \cup {c} ELSE Held(s)
  BY <1>1, <1>2 DEF Held
<1>4. CASE r = s
  BY <1>1, <1>3, <1>4 DEF MailboxOf!Next, MailboxOf!Put
<1>5. CASE r # s
  BY <1>1, <1>3, <1>5
<1> QED
  BY <1>4, <1>5

\* What a reply removes is answered by it or was before.
LEMMA ReplySettles ==
  ASSUME TypeOK, AnswerInv, AnswerInv', NEW s \in Targets, crashes'[s] = 0, ~deleted'[s],
         NEW r \in Targets, Reply(r)
  PROVE  MailboxOf(s)!Next
<1>1. \/ UNCHANGED box
      \/ \E m \in Chats : box' = [box EXCEPT ![m] = "gone"]
  BY DEF Reply, Holds
<1>2. answered \subseteq answered' /\ answered' \subseteq answered \cup Chats /\ UNCHANGED home
  BY DEF Reply
<1>3. \A c \in Chats : box'[c] \in {box[c], "gone"}
  BY <1>1 DEF TypeOK, Msgs
<1>4. Held(s)' \subseteq Held(s)
  BY <1>2, <1>3 DEF Held
<1>5. Held(s) \ Held(s)' \subseteq answered'
  <2> SUFFICES ASSUME NEW c \in Held(s), c \notin Held(s)' PROVE c \in answered'
    OBVIOUS
  <2>1. c \in Chats /\ home'[c] = s /\ box'[c] = "gone"
    BY <1>2, <1>3 DEF Held
  <2> QED
    BY <2>1 DEF AnswerInv, InHand
<1> QED
  BY <1>2, <1>4, <1>5 DEF MailboxOf!Next, MailboxOf!Settle

\* A step of any process is a step of the mailbox of s, or none.
LEMMA MailboxStep ==
  ASSUME TypeOK, ToldInv, AnswerInv, AnswerInv', [Next]_vars,
         NEW s \in Targets, crashes'[s] = 0, ~deleted'[s]
  PROVE  [MailboxOf(s)!Next]_<<Held(s), answered>>
<1> USE ConstantsAssumption DEF taskVars, msgVars, toldVars, sessVars, procVars, agentVars, faultVars
<1>1. ASSUME NEW p \in Masters,
             (\E t \in Tasks, r \in Targets : DispatchStart(p, t, r)) \/ DispatchBusy(p) \/ DispatchWrite(p) \/ DispatchSession(p)
             \/ DispatchWriteFails(p) \/ DispatchFails(p)
      PROVE  UNCHANGED <<box, home, answered>>
  BY <1>1 DEF DispatchStart, DispatchBusy, DispatchWrite, DispatchSession, DispatchWriteFails,
              DispatchFails
<1>2. ASSUME NEW p \in Masters, DispatchCreate(p) \/ DispatchEnqueue(p)
      PROVE  UNCHANGED <<Held(s), answered>>
  <2>1. arg[p] \in Tasks
    BY <1>2 DEF DispatchCreate, DispatchEnqueue, TypeOK, OperandsOK, TaskLabels, Procs
  <2>2. UNCHANGED answered /\ \A c \in Chats : home'[c] = home[c] /\ box'[c] = box[c]
    BY <1>2, <2>1 DEF DispatchCreate, DispatchEnqueue, Enqueue, TypeOK, Msgs
  <2> QED
    BY <2>2, ElsewhereKeepsMailbox
<1>3. ASSUME NEW p \in Procs,
             RecoverStart(p) \/ (\E r \in Targets : RecoverSkip(p, r) \/ RecoverHit(p, r))
             \/ RecoverNotify(p) \/ RecoverUnlock(p) \/ RecoverEnd(p) \/ RecoverFails(p)
      PROVE  UNCHANGED <<box, home, answered>>
  BY <1>3 DEF RecoverStart, RecoverSkip, RecoverHit, RecoverNotify, RecoverUnlock, RecoverEnd,
              RecoverFails
<1>4. ASSUME NEW p \in Procs, RecoverAck(p) PROVE UNCHANGED <<Held(s), answered>>
  <2>1. arg[p] \in Tasks
    BY <1>4 DEF RecoverAck, TypeOK, OperandsOK, TaskLabels
  <2>2. UNCHANGED answered /\ \A c \in Chats : home'[c] = home[c] /\ box'[c] = box[c]
    BY <1>4, <2>1 DEF RecoverAck, AckTask, TypeOK, Msgs
  <2> QED
    BY <2>2, ElsewhereKeepsMailbox
<1>5. ASSUME NEW p \in Procs, NEW m \in Msgs, RecoverClaim(p, m) PROVE UNCHANGED <<Held(s), answered>>
  BY <1>5, MoveKeepsMailbox DEF RecoverClaim, Abandoned
<1>6. ASSUME NEW r \in Targets,
             ReportStart(r) \/ CompleteStart(r) \/ TaskRejected(r) \/ WaitStart(r) \/ WaitTimeout(r)
             \/ ReportLock(r) \/ CompleteNotify(r) \/ CompleteUnlock(r) \/ ClaimNothing(r)
             \/ CallFails(r)
      PROVE  UNCHANGED <<box, home, answered>>
  BY <1>6 DEF ReportStart, CompleteStart, TaskRejected, WaitStart, WaitTimeout, ReportLock,
              CompleteNotify, CompleteUnlock, ClaimNothing, CallFails
<1>7. ASSUME NEW r \in Targets, CompleteAck(r) PROVE UNCHANGED <<Held(s), answered>>
  <2>1. arg[r] \in Tasks
    BY <1>7 DEF CompleteAck, TypeOK, OperandsOK, TaskLabels, Procs
  <2>2. UNCHANGED answered /\ \A c \in Chats : home'[c] = home[c] /\ box'[c] = box[c]
    BY <1>7, <2>1 DEF CompleteAck, AckTask, TypeOK, Msgs
  <2> QED
    BY <2>2, ElsewhereKeepsMailbox
<1>8. ASSUME NEW r \in Targets, NEW m \in Msgs, ClaimNext(r, m) PROVE UNCHANGED <<Held(s), answered>>
  BY <1>8, MoveKeepsMailbox DEF ClaimNext, Holds
<1>9. ASSUME NEW r \in Targets, Reply(r) PROVE MailboxOf(s)!Next
  BY <1>9, ReplySettles
<1>10. ASSUME NEW c \in Chats, NEW r \in Targets, EnqueueUserMessage(c, r)
       PROVE  [MailboxOf(s)!Next]_<<Held(s), answered>>
  BY <1>10, EnqueuePuts
<1>11. ASSUME RemoveDir("x_inbox", "inbox", "x_processing")
              \/ RemoveDir("x_processing", "processing", "x_lock")
       PROVE  UNCHANGED <<Held(s), answered>>
  BY <1>11, RemovalKeepsMailbox
<1>12. ASSUME (\E r \in Targets : RemoveStart(r)) \/ RemoveLockFile \/ Environment
       PROVE  UNCHANGED <<box, home, answered>>
  BY <1>12 DEF RemoveStart, RemoveLockFile, Environment, LockAges, MessageAges, Crash
<1>13. CASE UNCHANGED vars
  BY <1>13, ElsewhereKeepsMailbox DEF vars
<1>14. UNCHANGED <<box, home, answered>> => UNCHANGED <<Held(s), answered>>
  BY ElsewhereKeepsMailbox
<1> HIDE ConstantsAssumption DEF taskVars, msgVars, toldVars, sessVars, procVars, agentVars, faultVars
<1> DEFINE Step == [MailboxOf(s)!Next]_<<Held(s), answered>>
<1>15. (UNCHANGED <<Held(s), answered>> => Step) /\ (MailboxOf(s)!Next => Step)
  OBVIOUS
<1>16. UNCHANGED <<box, home, answered>> => Step
  BY <1>14, <1>15
<1>17. (\E c \in Chats, r \in Targets : EnqueueUserMessage(c, r)) => Step
  BY <1>10
<1> HIDE DEF Step
<1>21. ASSUME NEW p \in Masters,
              (\E t \in Tasks, r \in Targets : DispatchStart(p, t, r)) \/ DispatchStep(p)
              \/ DispatchWriteFails(p) \/ DispatchFails(p)
       PROVE  Step
  BY <1>21, <1>1, <1>2, <1>15, <1>16 DEF DispatchStep
<1>22. ASSUME NEW p \in Procs, RecoverStart(p) \/ RecoverStep(p) \/ RecoverFails(p) PROVE Step
  BY <1>22, <1>3, <1>4, <1>5, <1>15, <1>16 DEF RecoverStep
<1>23. ASSUME NEW r \in Targets, AgentStep(r) \/ TargetStep(r) \/ CallFails(r) PROVE Step
  BY <1>23, <1>6, <1>7, <1>8, <1>9, <1>15, <1>16 DEF AgentStep, TargetStep
<1>24. ASSUME PanelStep \/ RemoveStep \/ Environment PROVE Step
  BY <1>24, <1>11, <1>12, <1>15, <1>16, <1>17 DEF PanelStep, RemoveStep
<1>25. Step
  BY <1>13, <1>15, <1>21, <1>22, <1>23, <1>24 DEF Next
<1> QED
  BY <1>25 DEF Step

\* The directories of a session implement Mailbox while its agent does not restart
\* and nobody deletes it: recovery by any process, task traffic and crashes of
\* everybody else take no panel message away that has no answer.
THEOREM MailboxKept == Spec => UndisturbedMailbox
<1>1. Init => \A s \in Targets : MailboxOf(s)!Init
  BY DEF Init, Held, Msgs, MailboxOf!Init
<1>2. IInv /\ IInv' /\ [Next]_vars =>
        \A s \in Targets : crashes'[s] = 0 /\ ~deleted'[s] =>
          [MailboxOf(s)!Next]_<<Held(s), answered>>
  BY MailboxStep DEF IInv
<1> QED
  BY <1>1, <1>2, InvariantHolds, PTL DEF Spec, UndisturbedMailbox

=============================================================================
