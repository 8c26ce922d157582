-------------------------- MODULE SpawnQueueProofs --------------------------
(***************************************************************************)
(* The safety properties of SpawnQueue, for any number of sessions, jobs,  *)
(* kept batches and crashes.                                               *)
(***************************************************************************)
EXTENDS SpawnQueue, SequenceTheorems, FiniteSetTheorems, TLAPS

Statuses == Waiting \cup Settled \cup {"forgotten"}
JobRecord == [session : Sessions, batch : 0..MaxJobs, wait : BOOLEAN, status : Statuses]
BatchStatus == {"queued", "running", "completed", "failed", "forgotten"}

\* A function on 1..n is a sequence of length n.
LEMMA FunctionIsSeq ==
  ASSUME NEW S, NEW n \in Nat, NEW f \in [1..n -> S]
  PROVE  f \in Seq(S) /\ Len(f) = n
OBVIOUS

\* What a job keeps in every step: its session and its batch.
Kept == /\ job' \in Seq(JobRecord) /\ Len(job') = Len(job)
        /\ \A i \in 1..Len(job) : /\ job'[i].session = job[i].session
                                  /\ job'[i].batch = job[i].batch

StatusSet(j, st) ==
  Kept /\ \A i \in 1..Len(job) : job'[i].status = IF i = j THEN st ELSE job[i].status

\* WithStatus changes one status and nothing else.
LEMMA StatusChange ==
  ASSUME TypeOK, NEW j \in 1..Len(job), NEW st \in Statuses, job' = WithStatus(j, st)
  PROVE  StatusSet(j, st)
<1> DEFINE new == [job[j] EXCEPT !.status = st]
<1>1. job \in Seq(JobRecord)
  BY DEF TypeOK, JobRecord, Statuses
<1>2. job[j] \in JobRecord
  BY <1>1, ElementOfSeq
<1>3. new \in JobRecord
  BY <1>2 DEF JobRecord
<1>4. job' = [job EXCEPT ![j] = new]
  BY DEF WithStatus
<1>5. /\ job' \in Seq(JobRecord) /\ Len(job') = Len(job)
      /\ \A i \in 1..Len(job) : job'[i] = IF i = j THEN new ELSE job[i]
  BY <1>1, <1>3, <1>4, ExceptSeq
<1>6. new.session = job[j].session /\ new.batch = job[j].batch /\ new.status = st
  BY <1>2 DEF JobRecord
<1> QED
  BY <1>5, <1>6 DEF StatusSet, Kept

\* RemoveSession makes some jobs fail and leaves the others.
LEMMA JobsFail ==
  ASSUME TypeOK, NEW C,
         job' = [j \in DOMAIN job |->
                  IF j \in C THEN [job[j] EXCEPT !.status = "failed"] ELSE job[j]]
  PROVE  Kept /\ \A i \in 1..Len(job) :
                   job'[i].status = IF i \in C THEN "failed" ELSE job[i].status
<1>1. job \in Seq(JobRecord) /\ Len(job) \in Nat /\ DOMAIN job = 1..Len(job)
  BY DEF TypeOK, JobRecord, Statuses
<1>2. \A j \in 1..Len(job) : job[j] \in JobRecord
  BY <1>1, ElementOfSeq
<1>3. \A j \in 1..Len(job) : [job[j] EXCEPT !.status = "failed"] \in JobRecord
  BY <1>2 DEF JobRecord, Statuses, Settled
<1>4. job' \in [1..Len(job) -> JobRecord]
  BY <1>1, <1>2, <1>3
<1>5. job' \in Seq(JobRecord) /\ Len(job') = Len(job)
  BY <1>1, <1>4, FunctionIsSeq
<1>6. \A i \in 1..Len(job) :
        job'[i] = IF i \in C THEN [job[i] EXCEPT !.status = "failed"] ELSE job[i]
  BY <1>1
<1>7. \A i \in 1..Len(job) : /\ job'[i].session = job[i].session
                             /\ job'[i].batch = job[i].batch
                             /\ job'[i].status = IF i \in C THEN "failed" ELSE job[i].status
  BY <1>2, <1>6 DEF JobRecord
<1> QED
  BY <1>5, <1>7 DEF Kept

\* Crash forgets the jobs that are not settled.
LEMMA JobsForgotten ==
  ASSUME TypeOK, Crash
  PROVE  Kept /\ \A i \in 1..Len(job) :
                   job[i].status \in Settled => job'[i].status = job[i].status
<1>1. job \in Seq(JobRecord) /\ Len(job) \in Nat /\ DOMAIN job = 1..Len(job)
  BY DEF TypeOK, JobRecord, Statuses
<1>2. \A j \in 1..Len(job) : job[j] \in JobRecord
  BY <1>1, ElementOfSeq
<1>3. \A j \in 1..Len(job) : [job[j] EXCEPT !.status = "forgotten"] \in JobRecord
  BY <1>2 DEF JobRecord, Statuses
<1>4. \A i \in 1..Len(job) :
        job'[i] = IF job[i].status \in Settled THEN job[i]
                  ELSE [job[i] EXCEPT !.status = "forgotten"]
  BY <1>1 DEF Crash
<1>5. job' = [j \in 1..Len(job) |-> job'[j]]
  BY <1>1 DEF Crash
<1>6. job' \in [1..Len(job) -> JobRecord]
  BY <1>2, <1>3, <1>4, <1>5
<1>7. job' \in Seq(JobRecord) /\ Len(job') = Len(job)
  BY <1>1, <1>6, FunctionIsSeq
<1>8. \A i \in 1..Len(job) : /\ job'[i].session = job[i].session
                             /\ job'[i].batch = job[i].batch
  BY <1>2, <1>4 DEF JobRecord
<1> QED
  BY <1>4, <1>7, <1>8 DEF Kept

\* A single spawn appends a pending job without a batch.
LEMMA JobAppended ==
  ASSUME TypeOK, NEW s \in Sessions, NEW w \in BOOLEAN, job' = Append(job, NewJob(s, 0, w))
  PROVE  /\ job' \in Seq(JobRecord) /\ Len(job') = Len(job) + 1
         /\ \A i \in 1..Len(job) : job'[i] = job[i]
         /\ job'[Len(job) + 1] = NewJob(s, 0, w)
<1>1. job \in Seq(JobRecord) /\ Len(job) \in Nat
  BY DEF TypeOK, JobRecord, Statuses
<1>2. NewJob(s, 0, w) \in JobRecord
  BY ConstantsAssumption DEF NewJob, JobRecord, Statuses, Waiting
<1> QED
  BY <1>1, <1>2, AppendProperties

\* A fleet appends one pending job for each of its sessions, in the new batch.
LEMMA FleetAppended ==
  ASSUME TypeOK, NEW fleet \in Fleets, SpawnProcess(fleet)
  PROVE  /\ Len(fleet) \in Nat \ {0} /\ DOMAIN fleet = 1..Len(fleet)
         /\ \A i \in 1..Len(fleet) : fleet[i] \in Sessions
         /\ Len(batch) \in Nat /\ Len(batch') = Len(batch) + 1
         /\ job' \in Seq(JobRecord) /\ Len(job') = Len(job) + Len(fleet)
         /\ \A i \in 1..Len(job) : job'[i] = job[i]
         /\ \A i \in 1..Len(fleet) :
              job'[Len(job) + i] = NewJob(fleet[i], Len(batch) + 1, TRUE)
<1>1. PICK n \in 1..Cardinality(Sessions) : fleet \in [1..n -> Sessions]
  BY DEF Fleets
<1>2. n \in Nat \ {0}
  BY ConstantsAssumption, FS_CardinalityType
<1>3. Len(fleet) = n /\ DOMAIN fleet = 1..n /\ \A i \in 1..n : fleet[i] \in Sessions
  BY <1>1, <1>2, FunctionIsSeq
<1>4. job \in Seq(JobRecord) /\ Len(job) \in Nat /\ Len(batch) \in Nat
      /\ Len(batch) <= Len(job) /\ Len(job) + n <= MaxJobs
  <2>1. job \in Seq(JobRecord) /\ batch \in Seq(BatchStatus) /\ Len(batch) <= Len(job)
    BY DEF TypeOK, JobRecord, Statuses, BatchStatus
  <2>2. Len(job) + n <= MaxJobs
    BY <1>3 DEF SpawnProcess
  <2> QED
    BY <2>1, <2>2, LenProperties
<1>5. Len(batch') = Len(batch) + 1
  <2>1. batch \in Seq(BatchStatus) /\ "queued" \in BatchStatus
    BY DEF TypeOK, BatchStatus
  <2> QED
    BY <2>1, AppendProperties DEF SpawnProcess
<1> DEFINE more == [i \in DOMAIN fleet |-> NewJob(fleet[i], Len(batch'), TRUE)]
<1>6. \A i \in 1..n : NewJob(fleet[i], Len(batch) + 1, TRUE) \in JobRecord
  BY <1>2, <1>3, <1>4, ConstantsAssumption DEF NewJob, JobRecord, Statuses, Waiting
<1>7. more \in [1..n -> JobRecord]
  BY <1>3, <1>5, <1>6
<1>8. more \in Seq(JobRecord) /\ Len(more) = n
  BY <1>2, <1>7, FunctionIsSeq
<1>9. job' = job \o more
  BY DEF SpawnProcess
<1>10. /\ job' \in Seq(JobRecord) /\ Len(job') = Len(job) + n
       /\ \A i \in 1..Len(job) + n :
            job'[i] = IF i <= Len(job) THEN job[i] ELSE more[i - Len(job)]
  <2> HIDE DEF more
  <2> QED
    BY <1>4, <1>8, <1>9, ConcatProperties
<1>11. \A i \in 1..n : more[i] = NewJob(fleet[i], Len(batch) + 1, TRUE)
  BY <1>3, <1>5
<1>12. \A i \in 1..n : job'[Len(job) + i] = more[i]
  <2> HIDE DEF more
  <2> QED
    BY <1>2, <1>4, <1>10
<1>13. \A i \in 1..Len(job) : job'[i] = job[i]
  <2> HIDE DEF more
  <2> QED
    BY <1>2, <1>4, <1>10
<1> QED
  BY <1>2, <1>3, <1>4, <1>5, <1>10, <1>11, <1>12, <1>13

-----------------------------------------------------------------------------
\* A job belongs to a batch that exists.
TypeInv == TypeOK /\ \A j \in 1..Len(job) : job[j].batch \in 0..Len(batch)

\* What the types say about jobs and batches.
LEMMA Shapes ==
  ASSUME TypeInv
  PROVE  /\ job \in Seq(JobRecord) /\ Len(job) \in Nat /\ DOMAIN job = 1..Len(job)
         /\ batch \in Seq(BatchStatus) /\ Len(batch) \in Nat /\ DOMAIN batch = 1..Len(batch)
         /\ Len(batch) <= Len(job) /\ Len(job) <= MaxJobs
         /\ \A j \in 1..Len(job) : /\ j \in Jobs /\ SessionOf(j) \in Sessions
                                   /\ job[j].status \in Statuses
                                   /\ job[j].batch \in 0..Len(batch)
<1>1. job \in Seq(JobRecord) /\ batch \in Seq(BatchStatus)
      /\ Len(batch) <= Len(job) /\ Len(job) <= MaxJobs
  BY DEF TypeInv, TypeOK, JobRecord, Statuses, BatchStatus
<1>2. Len(job) \in Nat /\ DOMAIN job = 1..Len(job)
      /\ Len(batch) \in Nat /\ DOMAIN batch = 1..Len(batch)
  BY <1>1, LenProperties
<1>3. \A j \in 1..Len(job) : job[j] \in JobRecord
  BY <1>1, ElementOfSeq
<1>4. \A j \in 1..Len(job) : j \in Jobs
  BY <1>1, <1>2, ConstantsAssumption DEF Jobs
<1> QED
  BY <1>1, <1>2, <1>3, <1>4 DEF JobRecord, SessionOf, TypeInv

\* What the types say about the other variables.
LEMMA StepTypes == ASSUME TypeInv PROVE
  /\ tracked \in [Sessions -> 0..MaxJobs]
  /\ session \in [Sessions -> {"new", "live", "removed"}]
  /\ begun \in 0..Len(job) /\ active \in 0..Len(job) /\ phase \in Phases
  /\ (active = 0) = (phase = "idle")
  /\ kills \subseteq Jobs /\ suspects \subseteq Jobs
  /\ stops \in [Sessions -> Nat] /\ start \in [Jobs -> Requests]
  /\ running \subseteq Jobs /\ leases \subseteq Jobs
  /\ lost \subseteq Jobs /\ stray \subseteq Jobs /\ crashes \in 0..MaxCrashes
BY DEF TypeInv, TypeOK

\* What is left to show of the types when the jobs are known to keep theirs.
LEMMA TypesChange ==
  ASSUME TypeInv, Kept, batch' \in Seq(BatchStatus), Len(batch') = Len(batch),
         crashes' \in 0..MaxCrashes,
         tracked' \in [Sessions -> 0..MaxJobs],
         session' \in [Sessions -> {"new", "live", "removed"}],
         begun' \in 0..Len(job), active' \in 0..Len(job), phase' \in Phases,
         (active' = 0) = (phase' = "idle"),
         kills' \subseteq Jobs, suspects' \subseteq Jobs,
         stops' \in [Sessions -> Nat], start' \in [Jobs -> Requests],
         running' \subseteq Jobs, leases' \subseteq Jobs,
         lost' \subseteq Jobs, stray' \subseteq Jobs
  PROVE  TypeInv'
<1>1. TypeOK'
  BY Shapes DEF TypeOK, Kept, JobRecord, Statuses, BatchStatus
<1>2. \A j \in 1..Len(job') : job'[j].batch \in 0..Len(batch')
  BY Shapes DEF Kept
<1> QED
  BY <1>1, <1>2 DEF TypeInv

\* The same when the batches and the crashes stay as they are.
LEMMA TypesKept ==
  ASSUME TypeInv, Kept, UNCHANGED <<batch, crashes>>,
         tracked' \in [Sessions -> 0..MaxJobs],
         session' \in [Sessions -> {"new", "live", "removed"}],
         begun' \in 0..Len(job), active' \in 0..Len(job), phase' \in Phases,
         (active' = 0) = (phase' = "idle"),
         kills' \subseteq Jobs, suspects' \subseteq Jobs,
         stops' \in [Sessions -> Nat], start' \in [Jobs -> Requests],
         running' \subseteq Jobs, leases' \subseteq Jobs,
         lost' \subseteq Jobs, stray' \subseteq Jobs
  PROVE  TypeInv'
<1>1. batch' \in Seq(BatchStatus) /\ Len(batch') = Len(batch) /\ crashes' \in 0..MaxCrashes
  BY Shapes, StepTypes
<1> QED
  BY <1>1, TypesChange

\* An unchanged table keeps its jobs.
LEMMA UnchangedKept == ASSUME TypeInv, UNCHANGED job PROVE Kept
  BY Shapes DEF Kept

\* A job that fails changes its own status only.
LEMMA FailKept ==
  ASSUME TypeInv, NEW j \in DOMAIN job, Fail(j)
  PROVE  StatusSet(j, "failed") /\ phase' = "finish"
  BY Shapes, StatusChange DEF Fail, TypeInv, Statuses, Settled

\* The initial state is well typed.
LEMMA TypeInit == Init => TypeInv
<1>1. Init => TypeOK
  BY ConstantsAssumption, EmptySeq DEF Init, TypeOK, Jobs, Phases, Requests
<1>2. Init => 1..Len(job) = {}
  BY DEF Init
<1> QED
  BY <1>1, <1>2 DEF TypeInv

\* The agents of a session are jobs.
LEMMA AgentsAreJobs == ASSUME TypeInv, NEW s \in Sessions PROVE AgentsOf(s) \subseteq Jobs
BY Shapes DEF AgentsOf

\* Killing what the session tracks keeps the types.
LEMMA KillTypes ==
  ASSUME TypeInv, NEW s \in Sessions, KillTracked(s)
  PROVE  /\ kills' \subseteq Jobs /\ tracked' \in [Sessions -> 0..MaxJobs]
         /\ StopsOfKill(s) \in Nat
BY StepTypes, ConstantsAssumption DEF KillTracked, StopsOfKill, Jobs

\* The steps of the active job keep the types.
LEMMA JobStepTypes ==
  ASSUME TypeInv, NEW j \in DOMAIN job, JobStep(j) PROVE TypeInv'
<1> DEFINE s == SessionOf(j)
<1>0. /\ j \in 1..Len(job) /\ j \in Jobs /\ s \in Sessions /\ "finish" \in Phases
      /\ Len(job) \in Nat /\ j # 0
  BY Shapes DEF Phases
<1> HIDE DEF s
<1>1. CASE GateDenies(j)
  BY <1>0, <1>1, FailKept, StepTypes, TypesKept DEF GateDenies, StatusSet, fileVars, outside
<1>2. CASE GateAllows(j)
  <2>1. Kept
    BY <1>0, <1>2, FailKept, UnchangedKept DEF GateAllows, StatusSet
  <2>2. /\ kills' \subseteq Jobs /\ tracked' \in [Sessions -> 0..MaxJobs]
        /\ StopsOfKill(s) \in Nat
    BY <1>0, <1>2, KillTypes, StepTypes DEF GateAllows, s, StopsOfKill
  <2>3. stops' \in [Sessions -> Nat]
    <3>1. \E n \in Nat : stops' = [stops EXCEPT ![s] = @ + n]
      <4>1. CASE stops' = [stops EXCEPT ![s] = @ + IF Gone(s) THEN 0 ELSE StopsOfKill(s)]
        BY <2>2, <4>1
      <4>2. CASE stops' = [stops EXCEPT ![s] = @ + StopsOfKill(s) + 1]
        <5>1. StopsOfKill(s) + 1 \in Nat /\ stops[s] \in Nat
          BY <1>0, <2>2, StepTypes
        <5>2. stops[s] + StopsOfKill(s) + 1 = stops[s] + (StopsOfKill(s) + 1)
          BY <2>2, <5>1
        <5> QED
          BY <4>2, <5>1, <5>2
      <4> QED
        BY <1>2, <4>1, <4>2 DEF GateAllows, s
    <3> QED
      BY <1>0, <3>1, StepTypes
  <2>4. leases' \subseteq Jobs /\ stray' \subseteq Jobs
    BY <1>0, <1>2, StepTypes DEF GateAllows, leaseVars
  <2>5. phase' \in {"stop", "finish"} /\ UNCHANGED <<batch, active, begun, suspects, session,
                                              start, running, lost, crashes>>
    BY <1>2 DEF GateAllows, Fail
  <2>6. active # 0
    BY <1>0, <1>2 DEF GateAllows
  <2> QED
    BY <2>1, <2>2, <2>3, <2>4, <2>5, <2>6, StepTypes, TypesKept DEF Phases
<1>3. CASE StopReturns(j)
  BY <1>0, <1>3, UnchangedKept, StepTypes, TypesKept
  DEF StopReturns, fileVars, leaseVars, Phases, Requests
<1>4. CASE StartReturns(j)
  <2>1. Kept
    BY <1>0, <1>4, UnchangedKept, StatusChange
    DEF StartReturns, StatusSet, TypeInv, Statuses, Waiting, Settled
  <2>2. tracked' \in [Sessions -> 0..MaxJobs]
    <3>1. j \in 0..MaxJobs
      BY <1>0, ConstantsAssumption DEF Jobs
    <3>2. tracked' = tracked \/ tracked' = [tracked EXCEPT ![s] = j]
      BY <1>4 DEF StartReturns, s
    <3> QED
      BY <3>1, <3>2, StepTypes
  <2>3. stops' \in [Sessions -> Nat]
    BY <1>0, <1>4, StepTypes DEF StartReturns, s
  <2>4. phase' \in {"undo", "online", "finish"} /\ active # 0
        /\ UNCHANGED <<batch, active, begun, kills, suspects, session, start, running,
                     leases, stray, lost, crashes>>
    BY <1>0, <1>4 DEF StartReturns, leaseVars
  <2> QED
    BY <2>1, <2>2, <2>3, <2>4, StepTypes, TypesKept DEF Phases
<1>5. CASE StartFails(j)
  BY <1>0, <1>5, FailKept, StepTypes, TypesKept
  DEF StartFails, StatusSet, fileVars, outside, leaseVars
<1>6. CASE UndoReturns(j)
  BY <1>0, <1>6, FailKept, StepTypes, TypesKept DEF UndoReturns, StatusSet, fileVars, leaseVars
<1>7. CASE OnlineReturns(j)
  <2>1. Kept
    BY <1>0, <1>7, StatusChange DEF OnlineReturns, StatusSet, TypeInv, Statuses, Settled
  <2> QED
    BY <1>0, <1>7, <2>1, StepTypes, TypesKept DEF OnlineReturns, fileVars, outside, leaseVars
<1>8. CASE FinishJob(j)
  <2> DEFINE b == job[j].batch
  <2>1. b \in 0..Len(batch) /\ Kept
    BY <1>0, <1>8, Shapes, UnchangedKept DEF FinishJob
  <2>2. batch' \in Seq(BatchStatus) /\ Len(batch') = Len(batch)
    <3>1. CASE b = 0
      BY <1>8, <3>1, Shapes DEF FinishJob
    <3>2. CASE b # 0
      <4>1. b \in 1..Len(batch)
        BY <2>1, <3>2, Shapes
      <4>2. Touched(b, job) \in BatchStatus
        BY <4>1, Shapes, ElementOfSeq DEF Touched, BatchStatus
      <4>3. batch' = [batch EXCEPT ![b] = Touched(b, job)]
        BY <1>8, <3>2 DEF FinishJob
      <4> HIDE DEF b
      <4> QED
        BY <4>1, <4>2, <4>3, Shapes, ExceptSeq
    <3> QED
      BY <3>1, <3>2
  <2>3. /\ leases' \subseteq Jobs /\ stray' \subseteq Jobs
        /\ active' = 0 /\ phase' = "idle"
        /\ UNCHANGED <<begun, kills, suspects, session, tracked, stops, start, running,
                     lost, crashes>>
    BY <1>8, StepTypes DEF FinishJob, fileVars, outside
  <2> QED
    BY <1>0, <2>1, <2>2, <2>3, StepTypes, TypesChange DEF Phases
<1> QED
  BY <1>1, <1>2, <1>3, <1>4, <1>5, <1>6, <1>7, <1>8 DEF JobStep

\* The steps of everyone else keep the types.
LEMMA TypeStep == ASSUME TypeInv, [Next]_vars PROVE TypeInv'
<1> USE DEF hubVars, jobVars, fileVars, outside, leaseVars
<1>1. ASSUME NEW s \in Sessions, NEW w \in BOOLEAN, SpawnCursor(s, w) PROVE TypeInv'
  <2>1. /\ job' \in Seq(JobRecord) /\ Len(job') = Len(job) + 1
        /\ \A i \in 1..Len(job) : job'[i] = job[i]
        /\ job'[Len(job) + 1] = NewJob(s, 0, w)
    BY <1>1, JobAppended DEF SpawnCursor, TypeInv
  <2>2. Len(job') <= MaxJobs /\ Len(batch) <= Len(job') /\ begun \in 0..Len(job')
        /\ active \in 0..Len(job')
    BY <1>1, <2>1, Shapes, StepTypes, ConstantsAssumption DEF SpawnCursor
  <2>3. TypeOK'
    BY <1>1, <2>1, <2>2, Shapes, StepTypes
    DEF SpawnCursor, TypeOK, JobRecord, Statuses, BatchStatus
  <2>4. \A j \in 1..Len(job') : job'[j].batch \in 0..Len(batch)
    BY <2>1, Shapes DEF NewJob
  <2> QED
    BY <1>1, <2>3, <2>4 DEF TypeInv, SpawnCursor
<1>2. ASSUME NEW fleet \in Fleets, SpawnProcess(fleet) PROVE TypeInv'
  <2>1. /\ Len(fleet) \in Nat \ {0} /\ Len(batch') = Len(batch) + 1
        /\ job' \in Seq(JobRecord) /\ Len(job') = Len(job) + Len(fleet)
        /\ \A i \in 1..Len(job) : job'[i] = job[i]
        /\ \A i \in 1..Len(fleet) :
             job'[Len(job) + i] = NewJob(fleet[i], Len(batch) + 1, TRUE)
    BY <1>2, FleetAppended DEF TypeInv
  <2>2. Len(job') <= MaxJobs /\ Len(batch') <= Len(job') /\ begun \in 0..Len(job')
        /\ active \in 0..Len(job')
    BY <1>2, <2>1, Shapes, StepTypes, ConstantsAssumption DEF SpawnProcess
  <2>3. batch' \in Seq(BatchStatus)
    BY <1>2, Shapes, AppendProperties DEF SpawnProcess, BatchStatus
  <2>4. session' \in [Sessions -> {"new", "live", "removed"}]
    BY <1>2, StepTypes DEF SpawnProcess
  <2>5. TypeOK'
    BY <1>2, <2>1, <2>2, <2>3, <2>4, StepTypes
    DEF SpawnProcess, TypeOK, JobRecord, Statuses, BatchStatus
  <2>6. ASSUME NEW j \in 1..Len(job') PROVE job'[j].batch \in 0..Len(batch')
    <3>1. CASE j <= Len(job)
      BY <2>1, <2>6, <3>1, Shapes
    <3>2. CASE ~ j <= Len(job)
      <4>1. PICK i \in 1..Len(fleet) : j = Len(job) + i
        <5>1. j - Len(job) \in 1..Len(fleet) /\ j = Len(job) + (j - Len(job))
          BY <2>1, <2>6, <3>2, Shapes
        <5> QED
          BY <5>1
      <4>2. job'[j] = NewJob(fleet[i], Len(batch) + 1, TRUE)
        BY <2>1, <4>1
      <4>3. job'[j].batch = Len(batch) + 1
        BY <4>2 DEF NewJob
      <4> QED
        BY <2>1, <4>3, Shapes
    <3> QED
      BY <3>1, <3>2
  <2> QED
    BY <2>5, <2>6 DEF TypeInv
<1>3. ASSUME NEW s \in Sessions, RemoveSession(s) PROVE TypeInv'
  <2>1. PICK C : job' = [j \in DOMAIN job |->
                           IF j \in C THEN [job[j] EXCEPT !.status = "failed"] ELSE job[j]]
    BY <1>3 DEF RemoveSession
  <2>2. Kept
    BY <2>1, JobsFail DEF TypeInv
  <2>3. batch' \in Seq(BatchStatus) /\ Len(batch') = Len(batch)
    <3>1. batch' = [b \in 1..Len(batch) |-> IF Known(b) THEN Touched(b, job') ELSE batch[b]]
      BY <1>3, Shapes DEF RemoveSession
    <3>2. \A b \in 1..Len(batch) : batch[b] \in BatchStatus
      BY Shapes, ElementOfSeq
    <3>3. \A b \in 1..Len(batch) : Touched(b, job') \in BatchStatus
      BY <3>2 DEF Touched, BatchStatus
    <3>4. batch' \in [1..Len(batch) -> BatchStatus]
      BY <3>1, <3>2, <3>3
    <3> QED
      BY <3>4, Shapes, FunctionIsSeq
  <2>4. kills' \subseteq Jobs /\ tracked' \in [Sessions -> 0..MaxJobs] /\ StopsOfKill(s) \in Nat
    BY <1>3, KillTypes DEF RemoveSession
  <2>5. stops' \in [Sessions -> Nat] /\ session' \in [Sessions -> {"new", "live", "removed"}]
    BY <1>3, <2>4, StepTypes DEF RemoveSession
  <2> QED
    BY <1>3, <2>2, <2>3, <2>4, <2>5, StepTypes, TypesChange DEF RemoveSession
<1>4. CASE BeginJob
  <2> DEFINE j == begun + 1  b == job[j].batch
             st == IF Gone(SessionOf(j)) THEN "failed" ELSE "budget_waiting"
  <2>1. j \in 1..Len(job) /\ j # 0
    BY <1>4, Shapes, StepTypes DEF BeginJob
  <2>2. job' = WithStatus(j, st) /\ st \in Statuses
    BY <1>4 DEF BeginJob, Statuses, Waiting, Settled
  <2>3. b \in 0..Len(batch)
    BY <2>1, Shapes
  <2>4. batch' = IF b # 0 /\ batch[b] = "queued" THEN [batch EXCEPT ![b] = "running"] ELSE batch
    BY <1>4 DEF BeginJob
  <2>5. /\ active' = j /\ begun' = j /\ phase' \in Phases /\ phase' # "idle"
        /\ UNCHANGED <<session, tracked, kills, suspects, stops, start, running,
                     leases, stray, lost, crashes>>
    BY <1>4 DEF BeginJob, Phases
  <2> HIDE DEF j, b, st
  <2>6. Kept
    BY <2>1, <2>2, StatusChange DEF StatusSet, TypeInv
  <2>7. batch' \in Seq(BatchStatus) /\ Len(batch') = Len(batch)
    <3>1. CASE b # 0 /\ batch[b] = "queued"
      BY <2>3, <2>4, <3>1, Shapes, ExceptSeq DEF BatchStatus
    <3>2. CASE ~ (b # 0 /\ batch[b] = "queued")
      BY <2>4, <3>2, Shapes
    <3> QED
      BY <3>1, <3>2
  <2> QED
    BY <2>1, <2>5, <2>6, <2>7, StepTypes, Shapes, TypesChange
<1>5. ASSUME NEW j \in DOMAIN job, JobStep(j) PROVE TypeInv'
  BY <1>5, JobStepTypes
<1>6. ASSUME NEW j \in DOMAIN job, KillAgent(j) PROVE TypeInv'
  BY <1>6, UnchangedKept, StepTypes, TypesKept DEF KillAgent
<1>7. ASSUME NEW j \in DOMAIN job, PolarStarts(j) PROVE TypeInv'
  BY <1>7, Shapes, UnchangedKept, StepTypes, TypesKept DEF PolarStarts, Requests
<1>8. ASSUME NEW j \in DOMAIN job, PolarRefuses(j) PROVE TypeInv'
  BY <1>8, UnchangedKept, StepTypes, TypesKept DEF PolarRefuses, Requests
<1>9. ASSUME NEW s \in Sessions, PolarStops(s) PROVE TypeInv'
  BY <1>9, UnchangedKept, StepTypes, TypesKept DEF PolarStops
<1>10. ASSUME NEW j \in DOMAIN job, AgentExits(j) PROVE TypeInv'
  BY <1>10, UnchangedKept, StepTypes, TypesKept DEF AgentExits
<1>11. ASSUME NEW j \in DOMAIN job, LeaseExpires(j) PROVE TypeInv'
  BY <1>11, UnchangedKept, StepTypes, TypesKept DEF LeaseExpires
<1>12. CASE Crash
  <2>1. Kept
    BY <1>12, JobsForgotten DEF TypeInv
  <2>2. batch' \in Seq(BatchStatus) /\ Len(batch') = Len(batch)
    <3>1. batch' \in [1..Len(batch) -> BatchStatus]
      BY <1>12, Shapes DEF Crash, BatchStatus
    <3> QED
      BY <3>1, Shapes, FunctionIsSeq
  <2>3. active \in Jobs \/ phase = "idle"
    BY StepTypes, Shapes
  <2>4. lost' \subseteq Jobs
    BY <1>12, <2>3, StepTypes DEF Crash
  <2>5. crashes' \in 0..MaxCrashes
    BY <1>12, StepTypes, ConstantsAssumption DEF Crash
  <2>6. /\ active' = 0 /\ phase' = "idle" /\ begun' = Len(job) /\ leases' = {}
        /\ kills' = {} /\ suspects' \subseteq Jobs /\ stray' \subseteq Jobs
        /\ UNCHANGED <<session, tracked, stops, start, running>>
    BY <1>12, StepTypes DEF Crash
  <2> QED
    BY <2>1, <2>2, <2>4, <2>5, <2>6, StepTypes, Shapes, TypesChange DEF Phases
<1>13. CASE Sweep
  BY <1>13, UnchangedKept, StepTypes, TypesKept DEF Sweep
<1>14. CASE UNCHANGED vars
  BY <1>14, UnchangedKept, StepTypes, TypesKept DEF vars
<1> QED
  BY <1>1, <1>2, <1>3, <1>4, <1>5, <1>6, <1>7, <1>8, <1>9, <1>10, <1>11, <1>12, <1>13,
     <1>14 DEF Next

-----------------------------------------------------------------------------
\* Every variable keeps to its type, for any number of sessions, jobs and crashes.
THEOREM TypeCorrect == Spec => []TypeOK
<1>1. TypeInv => TypeOK
  BY DEF TypeInv
<1> QED
  BY <1>1, TypeInit, TypeStep, PTL DEF Spec

-----------------------------------------------------------------------------
\* Only a spawn makes the table of jobs longer.
LEMMA OtherStepsKeepJobs ==
  ASSUME TypeInv, [Next]_vars,
         ~ \/ \E s \in Sessions, w \in BOOLEAN : SpawnCursor(s, w)
           \/ \E fleet \in Fleets : SpawnProcess(fleet)
  PROVE  Kept
<1> USE DEF hubVars, jobVars
<1>1. ASSUME NEW s \in Sessions, RemoveSession(s) PROVE Kept
  BY <1>1, JobsFail DEF RemoveSession, TypeInv
<1>2. ASSUME BeginJob PROVE Kept
  <2>1. PICK st \in Statuses : job' = WithStatus(begun + 1, st)
    BY <1>2 DEF BeginJob, Statuses, Waiting, Settled
  <2>2. begun + 1 \in 1..Len(job)
    BY <1>2, Shapes, StepTypes DEF BeginJob
  <2> QED
    BY <2>1, <2>2, StatusChange DEF StatusSet, TypeInv
<1>3. ASSUME NEW j \in DOMAIN job, JobStep(j) PROVE Kept
  <2>1. job' = job \/ \E st \in Statuses : job' = WithStatus(j, st)
    BY <1>3 DEF JobStep, GateDenies, GateAllows, StopReturns, StartReturns, StartFails,
                UndoReturns, OnlineReturns, FinishJob, Fail, Statuses, Waiting, Settled
  <2> QED
    BY <2>1, Shapes, UnchangedKept, StatusChange DEF StatusSet, TypeInv
<1>4. ASSUME Crash PROVE Kept
  BY <1>4, JobsForgotten DEF TypeInv
<1>5. ASSUME \/ \E j \in DOMAIN job : \/ KillAgent(j) \/ PolarStarts(j) \/ PolarRefuses(j)
                                      \/ AgentExits(j) \/ LeaseExpires(j)
             \/ \E s \in Sessions : PolarStops(s)
             \/ Sweep \/ UNCHANGED vars
      PROVE  Kept
  BY <1>5, UnchangedKept DEF KillAgent, PolarStarts, PolarRefuses, AgentExits, LeaseExpires,
                             PolarStops, Sweep, vars
<1> QED
  BY <1>1, <1>2, <1>3, <1>4, <1>5 DEF Next

\* No step takes a job away or moves it to another session or batch.
LEMMA JobsStay ==
  ASSUME TypeInv, [Next]_vars
  PROVE  /\ Len(job) \in Nat /\ Len(job') \in Nat /\ Len(job) <= Len(job')
         /\ DOMAIN job = 1..Len(job) /\ DOMAIN job' = 1..Len(job')
         /\ \A i \in 1..Len(job) : /\ SessionOf(i)' = SessionOf(i)
                                   /\ job'[i].batch = job[i].batch
<1>1. ASSUME NEW s \in Sessions, NEW w \in BOOLEAN, SpawnCursor(s, w)
      PROVE  Len(job) <= Len(job') /\ \A i \in 1..Len(job) : job'[i] = job[i]
  BY <1>1, JobAppended, Shapes DEF SpawnCursor, TypeInv
<1>2. ASSUME NEW fleet \in Fleets, SpawnProcess(fleet)
      PROVE  Len(job) <= Len(job') /\ \A i \in 1..Len(job) : job'[i] = job[i]
  <2>1. /\ Len(fleet) \in Nat \ {0} /\ Len(job') = Len(job) + Len(fleet)
        /\ \A i \in 1..Len(job) : job'[i] = job[i]
    BY <1>2, FleetAppended DEF TypeInv
  <2> QED
    BY <2>1, Shapes
<1>3. \/ Kept
      \/ Len(job) <= Len(job') /\ \A i \in 1..Len(job) : job'[i] = job[i]
  BY <1>1, <1>2, OtherStepsKeepJobs
<1>4. job' \in Seq(JobRecord)
  BY TypeStep DEF TypeInv, TypeOK, JobRecord, Statuses
<1> QED
  BY <1>3, <1>4, Shapes, LenProperties DEF Kept, SessionOf

\* An agent that was let go has started, and its job is past the start.
LetGo(k) == start[k] = "started" /\ (k = active => phase \in {"online", "finish"})

\* No session tracks an agent that is about to be killed.
NoKillAimsAtTracked == \A s \in Sessions : tracked[s] \notin kills

\* What the accounting of agents rests on.
AgentInv ==
  /\ AgentIsAccountedFor /\ NoKillAimsAtTracked
  /\ \A s \in Sessions : tracked[s] # 0 =>
       /\ tracked[s] \in 1..Len(job) /\ SessionOf(tracked[s]) = s /\ session[s] = "live"
       /\ LetGo(tracked[s])
  /\ \A k \in kills : LetGo(k)
  /\ phase \in {"stop", "start", "undo"} => tracked[SessionOf(active)] = 0
  /\ \A j \in Jobs :
       /\ start[j] = "sent" => j \in lost \/ (j = active /\ phase = "start")
       /\ start[j] # "none" => j <= begun
       /\ j \in running => start[j] = "started"
  /\ active \in {0, begun}
  /\ phase \in {"gate", "stop"} => start[active] = "none"

\* Every step keeps the agents accounted for.
LEMMA AgentStep == ASSUME TypeInv, AgentInv, [Next]_vars PROVE AgentInv'
<1> USE DEF hubVars, jobVars, fileVars, outside, leaseVars
<1> DEFINE Stay == \A i \in 1..Len(job) : SessionOf(i)' = SessionOf(i)
<1>0. /\ Stay /\ Len(job) <= Len(job') /\ Len(job) \in Nat /\ Len(job') \in Nat
      /\ DOMAIN job = 1..Len(job) /\ Len(job) <= MaxJobs
      /\ \A i \in 1..Len(job) : i \in Jobs /\ SessionOf(i) \in Sessions
  BY JobsStay, Shapes
<1>a. \A j \in running : j \in 1..Len(job)
  BY <1>0, StepTypes, ConstantsAssumption DEF AgentInv, Jobs
<1>1. ASSUME NEW s \in Sessions, NEW w \in BOOLEAN, SpawnCursor(s, w) PROVE AgentInv'
  BY <1>0, <1>a, <1>1, StepTypes
  DEF AgentInv, AgentIsAccountedFor, NoKillAimsAtTracked, LetGo, SpawnCursor
<1>2. ASSUME NEW fleet \in Fleets, SpawnProcess(fleet) PROVE AgentInv'
  <2>1. \A s \in Sessions : session[s] = "live" => session'[s] = "live"
    BY <1>2, StepTypes DEF SpawnProcess
  <2>2. UNCHANGED <<tracked, active, begun, phase, kills, start, running, lost>>
    BY <1>2 DEF SpawnProcess
  <2> QED
    BY <1>0, <1>a, <2>1, <2>2, StepTypes
    DEF AgentInv, AgentIsAccountedFor, NoKillAimsAtTracked, LetGo
<1>3. ASSUME NEW s \in Sessions, RemoveSession(s) PROVE AgentInv'
  BY <1>0, <1>a, <1>3, StepTypes
  DEF AgentInv, AgentIsAccountedFor, NoKillAimsAtTracked, LetGo, RemoveSession, KillTracked, Jobs
<1>4. CASE BeginJob
  BY <1>0, <1>a, <1>4, StepTypes
  DEF AgentInv, AgentIsAccountedFor, NoKillAimsAtTracked, LetGo, BeginJob, Jobs
<1>5. ASSUME NEW j \in DOMAIN job, GateDenies(j) PROVE AgentInv'
  BY <1>0, <1>a, <1>5, StepTypes
  DEF AgentInv, AgentIsAccountedFor, NoKillAimsAtTracked, LetGo, GateDenies, Fail
<1>6. ASSUME NEW j \in DOMAIN job, GateAllows(j) PROVE AgentInv'
  <2> DEFINE s == SessionOf(j)
  <2>1. /\ active = j /\ phase = "gate" /\ phase' \in {"finish", "stop"}
        /\ UNCHANGED <<active, begun, session, start, running, lost>>
        /\ phase' = "stop" => ~Gone(s)
    BY <1>6 DEF GateAllows, Fail
  <2>2. s \in Sessions /\ start[j] = "none" /\ j \in Jobs
    BY <1>0, <2>1 DEF AgentInv
  <2>3. CASE Gone(s)
    <3>1. UNCHANGED <<kills, tracked>> /\ phase' = "finish"
      BY <1>6, <2>1, <2>3 DEF GateAllows
    <3> QED
      BY <1>0, <1>a, <2>1, <2>2, <3>1, StepTypes
      DEF AgentInv, AgentIsAccountedFor, NoKillAimsAtTracked, LetGo
  <2>4. CASE ~Gone(s)
    <3>1. /\ kills' = kills \cup ({tracked[s]} \ {0})
          /\ tracked' = [tracked EXCEPT ![s] = 0]
      BY <1>6, <2>4 DEF GateAllows, KillTracked
    <3> QED
      BY <1>0, <1>a, <2>1, <2>2, <3>1, StepTypes
      DEF AgentInv, AgentIsAccountedFor, NoKillAimsAtTracked, LetGo, Jobs
  <2> QED
    BY <2>3, <2>4
<1>7. ASSUME NEW j \in DOMAIN job, StopReturns(j) PROVE AgentInv'
  BY <1>0, <1>a, <1>7, StepTypes
  DEF AgentInv, AgentIsAccountedFor, NoKillAimsAtTracked, LetGo, StopReturns
<1>8. ASSUME NEW j \in DOMAIN job, StartReturns(j) PROVE AgentInv'
  <2> DEFINE s == SessionOf(j)
  <2>1. /\ active = j /\ phase = "start" /\ start[j] = "started"
        /\ UNCHANGED <<active, begun, kills, session, start, running, lost>>
    BY <1>8 DEF StartReturns
  <2>2. s \in Sessions /\ j \in 1..Len(job) /\ j \in Jobs /\ j # 0 /\ tracked[s] = 0
        /\ j \notin kills
    BY <1>0, <2>1 DEF AgentInv, LetGo
  <2>3. CASE Gone(s)
    <3>1. UNCHANGED tracked /\ phase' = "undo"
      BY <1>8, <2>3 DEF StartReturns
    <3> QED
      BY <1>0, <1>a, <2>1, <2>2, <3>1, StepTypes
      DEF AgentInv, AgentIsAccountedFor, NoKillAimsAtTracked, LetGo
  <2>4. CASE ~Gone(s)
    <3>1. tracked' = [tracked EXCEPT ![s] = j] /\ phase' \in {"online", "finish"}
      BY <1>8, <2>4 DEF StartReturns
    <3>2. session[s] = "live"
      BY <2>4 DEF Gone
    <3> QED
      BY <1>0, <1>a, <2>1, <2>2, <3>1, <3>2, StepTypes
      DEF AgentInv, AgentIsAccountedFor, NoKillAimsAtTracked, LetGo
  <2> QED
    BY <2>3, <2>4
<1>9. ASSUME NEW j \in DOMAIN job, StartFails(j) PROVE AgentInv'
  BY <1>0, <1>a, <1>9, StepTypes
  DEF AgentInv, AgentIsAccountedFor, NoKillAimsAtTracked, LetGo, StartFails, Fail
<1>10. ASSUME NEW j \in DOMAIN job, UndoReturns(j) PROVE AgentInv'
  BY <1>0, <1>a, <1>10, StepTypes
  DEF AgentInv, AgentIsAccountedFor, NoKillAimsAtTracked, LetGo, UndoReturns, Fail
<1>11. ASSUME NEW j \in DOMAIN job, OnlineReturns(j) PROVE AgentInv'
  BY <1>0, <1>a, <1>11, StepTypes
  DEF AgentInv, AgentIsAccountedFor, NoKillAimsAtTracked, LetGo, OnlineReturns
<1>12. ASSUME NEW j \in DOMAIN job, FinishJob(j) PROVE AgentInv'
  <2>1. /\ active = j /\ phase = "finish" /\ active' = 0 /\ phase' = "idle"
        /\ UNCHANGED <<session, tracked, begun, kills, start, running, lost>>
    BY <1>12 DEF FinishJob
  <2>2. 0 \notin kills /\ 0 \notin running
    BY StepTypes DEF Jobs
  <2> QED
    BY <1>0, <1>a, <2>1, <2>2, StepTypes
    DEF AgentInv, AgentIsAccountedFor, NoKillAimsAtTracked, LetGo
<1>13. ASSUME NEW j \in DOMAIN job, KillAgent(j) PROVE AgentInv'
  BY <1>0, <1>a, <1>13, StepTypes
  DEF AgentInv, AgentIsAccountedFor, NoKillAimsAtTracked, LetGo, KillAgent
<1>14. ASSUME NEW j \in DOMAIN job, PolarStarts(j) PROVE AgentInv'
  BY <1>0, <1>a, <1>14, StepTypes
  DEF AgentInv, AgentIsAccountedFor, NoKillAimsAtTracked, LetGo, PolarStarts
<1>15. ASSUME NEW j \in DOMAIN job, PolarRefuses(j) PROVE AgentInv'
  BY <1>0, <1>a, <1>15, StepTypes
  DEF AgentInv, AgentIsAccountedFor, NoKillAimsAtTracked, LetGo, PolarRefuses
<1>16. ASSUME NEW s \in Sessions, PolarStops(s) PROVE AgentInv'
  BY <1>0, <1>a, <1>16, StepTypes
  DEF AgentInv, AgentIsAccountedFor, NoKillAimsAtTracked, LetGo, PolarStops
<1>17. ASSUME NEW j \in DOMAIN job, AgentExits(j) PROVE AgentInv'
  BY <1>0, <1>a, <1>17, StepTypes
  DEF AgentInv, AgentIsAccountedFor, NoKillAimsAtTracked, LetGo, AgentExits
<1>18. ASSUME NEW j \in DOMAIN job, LeaseExpires(j) PROVE AgentInv'
  BY <1>0, <1>a, <1>18, StepTypes
  DEF AgentInv, AgentIsAccountedFor, NoKillAimsAtTracked, LetGo, LeaseExpires
<1>19. CASE Crash
  BY <1>0, <1>a, <1>19, StepTypes
  DEF AgentInv, AgentIsAccountedFor, NoKillAimsAtTracked, LetGo, Crash, Jobs
<1>20. CASE Sweep
  BY <1>0, <1>a, <1>20, StepTypes
  DEF AgentInv, AgentIsAccountedFor, NoKillAimsAtTracked, LetGo, Sweep
<1>21. CASE UNCHANGED vars
  BY <1>0, <1>a, <1>21, StepTypes
  DEF AgentInv, AgentIsAccountedFor, NoKillAimsAtTracked, LetGo, vars
<1> QED
  BY <1>1, <1>2, <1>3, <1>4, <1>5, <1>6, <1>7, <1>8, <1>9, <1>10, <1>11, <1>12, <1>13,
     <1>14, <1>15, <1>16, <1>17, <1>18, <1>19, <1>20, <1>21 DEF Next, JobStep

\* In the initial state there are no agents.
LEMMA AgentInit == Init => AgentInv
BY DEF Init, AgentInv, AgentIsAccountedFor, NoKillAimsAtTracked, LetGo

\* Types and accounting hold together in every state.
THEOREM AgentsInvariant == Spec => [](TypeInv /\ AgentInv)
BY TypeInit, TypeStep, AgentInit, AgentStep, PTL DEF Spec

\* No agent runs that the Hub neither tracks, nor is killing, nor is starting, apart
\* from those it lost with an answer or in a crash: for any number of sessions, jobs
\* and crashes, and any order of removals, respawns and late answers.
THEOREM AgentsAreAccountedFor == Spec => []AgentIsAccountedFor
<1>1. AgentInv => AgentIsAccountedFor
  BY DEF AgentInv
<1> QED
  BY <1>1, AgentsInvariant, PTL

\* What the sweep looks for was there before the active job began, untracked.
SweepInv == \A k \in suspects :
              k <= begun /\ k # active /\ \A s \in Sessions : tracked[s] # k

\* Every step keeps the suspects apart from the agents that are tracked.
LEMMA SweepStep == ASSUME TypeInv, AgentInv, SweepInv, [Next]_vars PROVE SweepInv'
<1> USE DEF hubVars, jobVars, fileVars, outside, leaseVars
<1>0. /\ suspects \subseteq Jobs /\ running \subseteq Jobs /\ 0 \notin Jobs
      /\ begun \in Nat /\ active \in Nat /\ DOMAIN job = 1..Len(job) /\ Len(job) \in Nat
      /\ tracked \in [Sessions -> 0..MaxJobs]
      /\ \A j \in 1..Len(job) : SessionOf(j) \in Sessions
      /\ Jobs \subseteq Nat
  <2>1. Len(job) \in Nat /\ begun \in 0..Len(job) /\ active \in 0..Len(job)
    BY StepTypes, Shapes
  <2>2. begun \in Nat /\ active \in Nat /\ 0 \notin Jobs /\ Jobs \subseteq Nat
    BY <2>1, ConstantsAssumption DEF Jobs
  <2> QED
    BY <2>1, <2>2, StepTypes, Shapes
<1>1. CASE UNCHANGED <<suspects, active, begun, tracked>>
  BY <1>1 DEF SweepInv
<1>2. ASSUME NEW s \in Sessions, RemoveSession(s) PROVE SweepInv'
  BY <1>0, <1>2 DEF SweepInv, RemoveSession, KillTracked
<1>3. CASE BeginJob
  BY <1>0, <1>3 DEF SweepInv, BeginJob
<1>4. ASSUME NEW j \in DOMAIN job, GateAllows(j) PROVE SweepInv'
  BY <1>0, <1>4 DEF SweepInv, GateAllows, KillTracked
<1>5. ASSUME NEW j \in DOMAIN job, StartReturns(j) PROVE SweepInv'
  BY <1>0, <1>5 DEF SweepInv, StartReturns
<1>6. ASSUME NEW j \in DOMAIN job, FinishJob(j) PROVE SweepInv'
  BY <1>0, <1>6 DEF SweepInv, FinishJob
<1>7. CASE Crash
  <2>1. \A k \in running : k \in 1..Len(job) /\ k # 0
    BY <1>0, StepTypes DEF AgentInv
  <2>2. \A s \in Sessions : tracked[s] \in Range(tracked)
    BY <1>0 DEF Range
  <2> QED
    BY <1>0, <1>7, <2>1, <2>2 DEF SweepInv, Crash
<1>8. CASE Sweep
  BY <1>8 DEF SweepInv, Sweep
<1>9. ASSUME \/ \E s \in Sessions : (\E w \in BOOLEAN : SpawnCursor(s, w)) \/ PolarStops(s)
             \/ \E fleet \in Fleets : SpawnProcess(fleet)
             \/ \E j \in DOMAIN job :
                  \/ GateDenies(j) \/ StopReturns(j) \/ StartFails(j) \/ UndoReturns(j)
                  \/ OnlineReturns(j) \/ KillAgent(j) \/ PolarStarts(j) \/ PolarRefuses(j)
                  \/ AgentExits(j) \/ LeaseExpires(j)
             \/ UNCHANGED vars
      PROVE  UNCHANGED <<suspects, active, begun, tracked>>
  BY <1>9 DEF SpawnCursor, PolarStops, SpawnProcess, GateDenies, StopReturns, StartFails,
              UndoReturns, OnlineReturns, KillAgent, PolarStarts, PolarRefuses, AgentExits,
              LeaseExpires, vars
<1> QED
  BY <1>1, <1>2, <1>3, <1>4, <1>5, <1>6, <1>7, <1>8, <1>9 DEF Next, JobStep

\* A tracked agent is in nobody's sights.
LEMMA SparedStep ==
  ASSUME TypeInv, AgentInv, SweepInv, [Next]_vars, NEW s \in Sessions,
         tracked[s] \in running, tracked[s] \notin running', tracked'[s] = tracked[s]
  PROVE  AgentExits(tracked[s]) \/ stops'[s] < stops[s] \/ start' # start
<1> USE DEF hubVars, jobVars, fileVars, outside, leaseVars
<1> DEFINE a == tracked[s]
<1>0. /\ a # 0 /\ a \in 1..Len(job) /\ SessionOf(a) = s /\ a \notin kills
      /\ DOMAIN job = 1..Len(job) /\ stops \in [Sessions -> Nat]
      /\ start \in [Jobs -> Requests] /\ \A j \in 1..Len(job) : j \in Jobs
  <2>1. 0 \notin running
    BY StepTypes, ConstantsAssumption DEF Jobs
  <2> QED
    BY <2>1, StepTypes, Shapes DEF AgentInv, NoKillAimsAtTracked
<1>1. ASSUME NEW j \in DOMAIN job, KillAgent(j) PROVE FALSE
  BY <1>0, <1>1 DEF KillAgent
<1>2. ASSUME NEW j \in DOMAIN job, UndoReturns(j) PROVE FALSE
  <2>1. a = active /\ tracked[SessionOf(active)] = 0
    BY <1>2 DEF UndoReturns, AgentInv
  <2> QED
    BY <1>0, <2>1
<1>3. CASE Sweep
  BY <1>3 DEF Sweep, SweepInv
<1>4. ASSUME NEW r \in Sessions, PolarStops(r) PROVE stops'[s] < stops[s]
  <2>1. r = s
    <3>1. a \in AgentsOf(r)
      BY <1>4 DEF PolarStops
    <3> QED
      BY <1>0, <3>1 DEF AgentsOf
  <2> QED
    BY <1>0, <1>4, <2>1 DEF PolarStops
<1>5. ASSUME NEW j \in DOMAIN job, PolarStarts(j) PROVE start' # start
  BY <1>0, <1>5 DEF PolarStarts
<1>6. ASSUME NEW j \in DOMAIN job, AgentExits(j) PROVE AgentExits(a)
  <2>1. a = j
    BY <1>6 DEF AgentExits
  <2> QED
    BY <1>6, <2>1
<1>7. ASSUME \/ \E r \in Sessions : (\E w \in BOOLEAN : SpawnCursor(r, w)) \/ RemoveSession(r)
             \/ \E fleet \in Fleets : SpawnProcess(fleet)
             \/ BeginJob \/ Crash \/ UNCHANGED vars
             \/ \E j \in DOMAIN job :
                  \/ GateDenies(j) \/ GateAllows(j) \/ StopReturns(j) \/ StartReturns(j)
                  \/ StartFails(j) \/ OnlineReturns(j) \/ FinishJob(j) \/ PolarRefuses(j)
                  \/ LeaseExpires(j)
      PROVE  running' = running
  BY <1>7 DEF SpawnCursor, RemoveSession, SpawnProcess, BeginJob, Crash, GateDenies, GateAllows,
              StopReturns, StartReturns, StartFails, OnlineReturns, FinishJob, PolarRefuses,
              LeaseExpires, vars
<1> QED
  BY <1>1, <1>2, <1>3, <1>4, <1>5, <1>6, <1>7 DEF Next, JobStep

\* No kill, undo or sweep that was waiting hits an agent that a session tracks by
\* then: such an agent ends by itself or by a late request at PolarProcess.
THEOREM TrackedIsSpared == Spec => TrackedAgentIsSpared
<1>1. Init => SweepInv
  BY DEF Init, SweepInv
<1>2. TypeInv /\ AgentInv /\ SweepInv /\ [Next]_vars =>
        [\A s \in Sessions :
           LET a == tracked[s]
           IN  a \in running \ running' /\ tracked'[s] = a
                 => AgentExits(a) \/ stops'[s] < stops[s] \/ start' # start]_vars
  BY SparedStep
<1>3. TypeInv /\ AgentInv /\ SweepInv /\ [Next]_vars => SweepInv'
  BY SweepStep
<1> QED
  BY <1>1, <1>2, <1>3, AgentsInvariant, PTL DEF Spec, TrackedAgentIsSpared

-----------------------------------------------------------------------------
(* Removal: the safety half of RemovedAgentStops.                          *)

\* What still runs for a removed session is about to be killed, or the active job
\* will come to its third check; the rest the Hub lost sight of.
OnlyDoomedRemain ==
  \A s \in Sessions : session[s] = "removed" =>
    \A j \in (AgentsOf(s) \cap running) \ lost :
      j \in kills \/ (active = j /\ phase \in {"start", "undo"})

\* Removal leaves no way for an agent to escape the kill.
THEOREM RemovedAreDoomed == Spec => []OnlyDoomedRemain
<1>1. TypeInv /\ AgentInv => OnlyDoomedRemain
  <2> SUFFICES ASSUME TypeInv, AgentInv, NEW s \in Sessions, session[s] = "removed",
                      NEW j \in (AgentsOf(s) \cap running) \ lost
               PROVE  j \in kills \/ (active = j /\ phase \in {"start", "undo"})
    BY DEF OnlyDoomedRemain
  <2>1. SessionOf(j) = s /\ j # 0 /\ session[s] # "live"
    BY StepTypes DEF AgentsOf, Jobs
  <2> QED
    BY <2>1 DEF AgentInv, AgentIsAccountedFor
<1> QED
  BY <1>1, AgentsInvariant, PTL

\* No agent of the removed session s runs, but lost ones, and the active job is not
\* between its second check and its third.
Quiet(s) ==
  /\ session[s] = "removed" /\ AgentsOf(s) \cap running \subseteq lost
  /\ phase \in {"stop", "start", "undo"} => SessionOf(active) # s

\* Once the last agent of a removed session has ended, none runs again.
RemovedStaysQuiet == [][\A s \in Sessions : Quiet(s) => Quiet(s)']_vars

\* Once quiet, always quiet: no job that waited, no request that was on its way and
\* no crash brings an agent of a removed session back.
LEMMA QuietStep ==
  ASSUME TypeInv, AgentInv, [Next]_vars, NEW s \in Sessions, Quiet(s) PROVE Quiet(s)'
<1> USE DEF hubVars, jobVars, fileVars, outside, leaseVars
<1>0. /\ \A i \in 1..Len(job) : SessionOf(i)' = SessionOf(i)
      /\ Len(job) \in Nat /\ DOMAIN job = 1..Len(job) /\ DOMAIN job' = 1..Len(job')
      /\ Len(job) <= Len(job') /\ Len(job') \in Nat
  BY JobsStay
<1>a. \A j \in running : j \in 1..Len(job)
  BY <1>0, StepTypes, ConstantsAssumption DEF AgentInv, Jobs
<1>b. \A j \in 1..Len(job) : j \in AgentsOf(s)' <=> j \in AgentsOf(s)
  BY <1>0 DEF AgentsOf
<1>c. \A i \in DOMAIN job : SessionOf(i)' = SessionOf(i)
  BY <1>0
\* A step that starts no agent, loses sight of none found, and leaves the job alone.
<1>d. ASSUME UNCHANGED <<active, session>>, running' \subseteq running, lost \subseteq lost',
             phase' = phase \/ phase' \notin {"stop", "start", "undo"}
      PROVE  Quiet(s)'
  <2>1. (AgentsOf(s) \cap running)' \subseteq lost'
    BY <1>a, <1>b, <1>d DEF Quiet
  <2>2. phase' \in {"stop", "start", "undo"} => active \in 1..Len(job)
    BY <1>0, <1>d, StepTypes
  <2> QED
    BY <1>0, <1>d, <2>1, <2>2 DEF Quiet
<1>1. ASSUME (\E r \in Sessions, w \in BOOLEAN : SpawnCursor(r, w))
             \/ (\E fleet \in Fleets : SpawnProcess(fleet))
             \/ \E r \in Sessions : RemoveSession(r)
      PROVE  Quiet(s)'
  <2>1. UNCHANGED <<active, phase, running, lost>> /\ session'[s] = "removed"
    <3>1. ASSUME NEW fleet \in Fleets, SpawnProcess(fleet) PROVE session'[s] = "removed"
      <4>1. s \notin Range(fleet)
        BY <3>1 DEF SpawnProcess, Quiet, Range
      <4> QED
        BY <3>1, <4>1 DEF SpawnProcess, Quiet
    <3>2. ASSUME NEW r \in Sessions,
                 (\E w \in BOOLEAN : SpawnCursor(r, w)) \/ RemoveSession(r)
          PROVE  session'[s] = "removed"
      BY <3>2, StepTypes DEF SpawnCursor, RemoveSession, Quiet
    <3>3. UNCHANGED <<active, phase, running, lost>>
      BY <1>1 DEF SpawnCursor, SpawnProcess, RemoveSession
    <3> QED
      BY <1>1, <3>1, <3>2, <3>3
  <2>2. (AgentsOf(s) \cap running)' \subseteq lost'
    BY <1>a, <1>b, <2>1 DEF Quiet
  <2>3. phase \in {"stop", "start", "undo"} => active \in 1..Len(job)
    BY <1>0, StepTypes
  <2> QED
    BY <1>0, <2>1, <2>2, <2>3 DEF Quiet
<1>2. ASSUME BeginJob \/ Crash PROVE Quiet(s)'
  <2>1. UNCHANGED <<running, session>> /\ lost \subseteq lost'
        /\ phase' \notin {"stop", "start", "undo"}
    BY <1>2 DEF BeginJob, Crash
  <2>2. (AgentsOf(s) \cap running)' \subseteq lost'
    BY <1>a, <1>b, <2>1 DEF Quiet
  <2> QED
    BY <2>1, <2>2 DEF Quiet
<1>3. ASSUME NEW j \in DOMAIN job, GateAllows(j) PROVE Quiet(s)'
  <2>1. /\ SessionOf(j)' = SessionOf(j) /\ active = j
        /\ UNCHANGED <<active, session, running, lost>>
        /\ phase' = "finish" \/ (phase' = "stop" /\ session[SessionOf(j)] = "live")
    BY <1>3, <1>0 DEF GateAllows, Fail, Gone
  <2>2. (AgentsOf(s) \cap running)' \subseteq lost'
    BY <1>a, <1>b, <2>1 DEF Quiet
  <2> QED
    BY <2>1, <2>2 DEF Quiet
<1>4. ASSUME NEW j \in DOMAIN job, StopReturns(j) \/ StartReturns(j) PROVE Quiet(s)'
  <2>1. /\ active = j /\ phase \in {"stop", "start", "undo"}
        /\ UNCHANGED <<active, session, running, lost>>
    BY <1>4 DEF StopReturns, StartReturns
  <2>2. SessionOf(active)' # s
    BY <1>0, <2>1 DEF Quiet
  <2>3. (AgentsOf(s) \cap running)' \subseteq lost'
    BY <1>a, <1>b, <2>1 DEF Quiet
  <2> QED
    BY <2>1, <2>2, <2>3 DEF Quiet
<1>5. ASSUME NEW j \in DOMAIN job,
             GateDenies(j) \/ StartFails(j) \/ UndoReturns(j) \/ OnlineReturns(j)
      PROVE  Quiet(s)'
  <2>1. UNCHANGED <<active, session>> /\ running' \subseteq running /\ lost \subseteq lost'
        /\ phase' \notin {"stop", "start", "undo"}
    BY <1>5 DEF GateDenies, StartFails, UndoReturns, OnlineReturns, Fail
  <2> QED
    BY <1>d, <2>1
<1>6. ASSUME NEW j \in DOMAIN job, FinishJob(j) PROVE Quiet(s)'
  <2>1. UNCHANGED <<running, lost, session>> /\ phase' = "idle"
    BY <1>6 DEF FinishJob
  <2>2. (AgentsOf(s) \cap running)' \subseteq lost'
    BY <1>a, <1>b, <2>1 DEF Quiet
  <2> QED
    BY <2>1, <2>2 DEF Quiet
<1>7. ASSUME NEW j \in DOMAIN job, PolarStarts(j) PROVE Quiet(s)'
  <2>1. /\ UNCHANGED <<active, phase, session, lost>> /\ running' \subseteq running \cup {j}
        /\ j \in lost \/ (active = j /\ phase = "start")
    BY <1>7, <1>0, Shapes DEF PolarStarts, AgentInv
  <2>2. j \in AgentsOf(s)' => j \in lost
    BY <1>0, <2>1 DEF Quiet, AgentsOf
  <2>3. (AgentsOf(s) \cap running)' \subseteq lost'
    BY <1>a, <1>b, <2>1, <2>2 DEF Quiet
  <2>4. phase \in {"stop", "start", "undo"} => active \in 1..Len(job)
    BY <1>0, StepTypes
  <2> QED
    BY <1>0, <2>1, <2>3, <2>4 DEF Quiet
<1>8. ASSUME \/ \E j \in DOMAIN job : KillAgent(j) \/ PolarRefuses(j) \/ AgentExits(j) \/ LeaseExpires(j)
             \/ \E r \in Sessions : PolarStops(r)
             \/ Sweep \/ UNCHANGED vars
      PROVE  Quiet(s)'
  <2>1. UNCHANGED <<active, session, phase, lost>> /\ running' \subseteq running
    BY <1>8 DEF KillAgent, PolarRefuses, AgentExits, LeaseExpires, PolarStops, Sweep, vars
  <2> QED
    BY <1>d, <2>1
<1> QED
  BY <1>1, <1>2, <1>3, <1>4, <1>5, <1>6, <1>7, <1>8 DEF Next, JobStep

\* For any number of sessions, jobs, removals and crashes of the Hub.
THEOREM RemovedStayQuiet == Spec => RemovedStaysQuiet
<1>1. TypeInv /\ AgentInv /\ [Next]_vars => \A s \in Sessions : Quiet(s) => Quiet(s)'
  BY QuietStep
<1> QED
  BY <1>1, AgentsInvariant, PTL DEF Spec, RemovedStaysQuiet

-----------------------------------------------------------------------------
\* Where a job stands: its session exists or was removed, it waits in the chain, or
\* was cancelled there, until its turn, and is not settled before its last step; only
\* the active job knows of a lease.
JobInv ==
  /\ \A j \in 1..Len(job) : session[SessionOf(j)] # "new"
  /\ \A j \in 1..Len(job) : j > begun =>
       \/ job[j].status = "pending"
       \/ job[j].status = "failed" /\ session[SessionOf(j)] = "removed"
  /\ phase \in Phases \ {"idle", "finish"} =>
       job[active].status \in {"budget_waiting", "waiting_online"}
  /\ active \in {0, begun}
  /\ LeasesAreReturned

Final == \A i \in 1..Len(job) : job[i].status \in Settled => job'[i].status = job[i].status

\* Every step keeps where the jobs stand, and the settled ones as they are.
LEMMA JobInvStep == ASSUME TypeInv, JobInv, [Next]_vars PROVE JobInv' /\ Final
<1> USE DEF hubVars, jobVars, fileVars, outside, leaseVars
<1>0. /\ \A i \in 1..Len(job) : SessionOf(i)' = SessionOf(i)
      /\ Len(job) <= Len(job') /\ Len(job) \in Nat /\ Len(job') \in Nat
      /\ DOMAIN job = 1..Len(job)
      /\ \A i \in 1..Len(job) : i \in Jobs /\ SessionOf(i) \in Sessions
  BY JobsStay, Shapes
<1>b. phase \in Phases \ {"idle", "finish"} => active \in 1..Len(job)
  BY <1>0, StepTypes
<1>1. ASSUME NEW s \in Sessions, NEW w \in BOOLEAN, SpawnCursor(s, w)
      PROVE  JobInv' /\ Final
  <2>1. /\ Len(job') = Len(job) + 1 /\ \A i \in 1..Len(job) : job'[i] = job[i]
        /\ job'[Len(job) + 1] = NewJob(s, 0, w)
    BY <1>1, JobAppended DEF SpawnCursor, TypeInv
  <2>2. /\ session' = [session EXCEPT ![s] = "live"] /\ session[s] # "removed"
        /\ UNCHANGED <<active, begun, phase, leases>>
    BY <1>1 DEF SpawnCursor
  <2>3. job'[Len(job) + 1].session = s /\ job'[Len(job) + 1].status = "pending"
    BY <2>1 DEF NewJob
  <2>4. \A j \in 1..Len(job) : /\ session'[SessionOf(j)'] # "new"
                               /\ session[SessionOf(j)] = "removed" =>
                                    session'[SessionOf(j)'] = "removed"
    BY <1>0, <2>2, StepTypes DEF JobInv
  <2>5. \A j \in 1..Len(job') : j > Len(job) => /\ session'[SessionOf(j)'] # "new"
                                               /\ job'[j].status = "pending"
    <3>1. \A j \in 1..Len(job') : j > Len(job) => j = Len(job) + 1
      BY <1>0, <2>1
    <3>2. session'[s] = "live"
      BY <2>2, StepTypes
    <3> QED
      BY <2>3, <3>1, <3>2 DEF SessionOf
  <2>6. \A j \in 1..Len(job') : j \in 1..Len(job) \/ j > Len(job)
    BY <1>0
  <2> QED
    BY <1>0, <1>b, <2>1, <2>2, <2>4, <2>5, <2>6 DEF JobInv, Final, LeasesAreReturned
<1>2. ASSUME NEW fleet \in Fleets, SpawnProcess(fleet) PROVE JobInv' /\ Final
  <2>1. /\ Len(fleet) \in Nat \ {0} /\ Len(job') = Len(job) + Len(fleet)
        /\ DOMAIN fleet = 1..Len(fleet) /\ \A i \in 1..Len(fleet) : fleet[i] \in Sessions
        /\ \A i \in 1..Len(job) : job'[i] = job[i]
        /\ \A i \in 1..Len(fleet) :
             job'[Len(job) + i] = NewJob(fleet[i], Len(batch) + 1, TRUE)
    BY <1>2, FleetAppended DEF TypeInv
  <2>2. /\ \A s \in Sessions : /\ session'[s] = IF s \in Range(fleet) THEN "live" ELSE session[s]
                               /\ s \in Range(fleet) => session[s] = "new"
        /\ UNCHANGED <<active, begun, phase, leases>>
    BY <1>2 DEF SpawnProcess, Range
  <2>3. ASSUME NEW j \in 1..Len(job'), j > Len(job)
        PROVE  job'[j].status = "pending" /\ session'[SessionOf(j)'] # "new"
    <3>1. PICK i \in 1..Len(fleet) : j = Len(job) + i
      <4>1. j - Len(job) \in 1..Len(fleet) /\ j = Len(job) + (j - Len(job))
        BY <1>0, <2>1, <2>3
      <4> QED
        BY <4>1
    <3>2. job'[j] = NewJob(fleet[i], Len(batch) + 1, TRUE)
      BY <2>1, <3>1
    <3>3. job'[j].status = "pending" /\ job'[j].session = fleet[i]
      BY <3>2 DEF NewJob
    <3>4. fleet[i] \in Range(fleet) /\ fleet[i] \in Sessions
      BY <2>1 DEF Range
    <3> QED
      BY <2>2, <3>3, <3>4 DEF SessionOf
  <2>4. \A j \in 1..Len(job) : /\ session'[SessionOf(j)'] # "new"
                               /\ session[SessionOf(j)] = "removed" =>
                                    session'[SessionOf(j)'] = "removed"
    BY <1>0, <2>2 DEF JobInv
  <2>5. \A j \in 1..Len(job') : j \in 1..Len(job) \/ j > Len(job)
    BY <1>0
  <2> QED
    BY <1>0, <1>b, <2>1, <2>2, <2>3, <2>4, <2>5 DEF JobInv, Final, LeasesAreReturned
<1>3. ASSUME NEW s \in Sessions, RemoveSession(s) PROVE JobInv' /\ Final
  <2> DEFINE C == {j \in DOMAIN job : /\ SessionOf(j) = s
                                      /\ job[j].status = "pending"
                                      /\ job[j].batch # 0 /\ Known(job[j].batch)}
  <2>1. job' = [j \in DOMAIN job |->
                 IF j \in C THEN [job[j] EXCEPT !.status = "failed"] ELSE job[j]]
    BY <1>3 DEF RemoveSession
  <2>2. \A j \in C : SessionOf(j) = s /\ job[j].status = "pending"
    OBVIOUS
  <2> HIDE DEF C
  <2>3. Kept /\ \A i \in 1..Len(job) :
                  job'[i].status = IF i \in C THEN "failed" ELSE job[i].status
    BY <2>1, JobsFail DEF TypeInv
  <2>4. session' = [session EXCEPT ![s] = "removed"] /\ UNCHANGED <<active, begun, phase, leases>>
    BY <1>3 DEF RemoveSession
  <2>5. phase \in Phases \ {"idle", "finish"} => job'[active].status = job[active].status
    BY <1>0, <2>2, <2>3, StepTypes DEF JobInv
  <2>6. \A i \in 1..Len(job) : /\ session'[SessionOf(i)] # "new"
                               /\ session[SessionOf(i)] = "removed" =>
                                    session'[SessionOf(i)] = "removed"
    BY <1>0, <2>4, StepTypes DEF JobInv
  <2>7. \A i \in C : session'[SessionOf(i)] = "removed"
    BY <1>3, <2>2, <2>4, StepTypes
  <2>8. \A i \in 1..Len(job) : job[i].status \in Settled => job'[i].status = job[i].status
    BY <2>2, <2>3 DEF Settled
  <2>9. /\ Len(job') = Len(job)
        /\ \A i \in 1..Len(job) : job'[i].status = IF i \in C THEN "failed" ELSE job[i].status
    BY <2>3 DEF Kept
  <2>10. \A i \in 1..Len(job') : i > begun' =>
            \/ job'[i].status = "pending"
            \/ job'[i].status = "failed" /\ session'[SessionOf(i)'] = "removed"
    BY <1>0, <2>4, <2>6, <2>7, <2>9 DEF JobInv
  <2>11. \A i \in 1..Len(job') : session'[SessionOf(i)'] # "new"
    BY <1>0, <2>6, <2>9
  <2>12. phase' \in Phases \ {"idle", "finish"} =>
           job'[active'].status \in {"budget_waiting", "waiting_online"}
    BY <2>4, <2>5 DEF JobInv
  <2> QED
    BY <2>4, <2>8, <2>10, <2>11, <2>12 DEF JobInv, Final, LeasesAreReturned
<1>4. CASE BeginJob
  <2> DEFINE j == begun + 1  gone == Gone(SessionOf(j))
             st == IF gone THEN "failed" ELSE "budget_waiting"
  <2>1. /\ j \in 1..Len(job) /\ active = 0 /\ active' = j /\ begun' = j
        /\ phase' = IF gone THEN "finish" ELSE "gate"
        /\ UNCHANGED <<session, leases>>
    BY <1>4, <1>0, StepTypes DEF BeginJob
  <2>2. job' = WithStatus(j, st) /\ st \in Statuses
    BY <1>4 DEF BeginJob, Statuses, Waiting, Settled
  <2>3. StatusSet(j, st)
    BY <2>1, <2>2, StatusChange DEF TypeInv
  <2>4. leases = {}
    BY <2>1, StepTypes DEF JobInv, LeasesAreReturned, Jobs
  <2>5. job[j].status \in Settled => gone /\ job[j].status = "failed"
    BY <1>0, <2>1, StepTypes DEF JobInv, Settled, Gone
  <2> HIDE DEF gone, st
  <2>6. /\ Len(job') = Len(job)
        /\ \A i \in 1..Len(job) : job'[i].status = IF i = j THEN st ELSE job[i].status
    BY <2>3 DEF StatusSet, Kept
  <2>7. \A i \in 1..Len(job) : i > begun' => i > begun /\ i # j
    BY <1>0, <2>1, StepTypes DEF j
  <2>8. st = (IF gone THEN "failed" ELSE "budget_waiting")
    BY DEF st
  <2>9. phase' \in Phases \ {"idle", "finish"} =>
          job'[active'].status \in {"budget_waiting", "waiting_online"}
    BY <2>1, <2>6, <2>8
  <2>10. \A i \in 1..Len(job') : i > begun' =>
            \/ job'[i].status = "pending"
            \/ job'[i].status = "failed" /\ session'[SessionOf(i)'] = "removed"
    BY <1>0, <2>1, <2>6, <2>7 DEF JobInv
  <2>11. \A i \in 1..Len(job') : session'[SessionOf(i)'] # "new"
    BY <1>0, <2>1, <2>6 DEF JobInv
  <2>12. Final
    BY <2>5, <2>6, <2>8 DEF Final
  <2> QED
    BY <2>1, <2>4, <2>9, <2>10, <2>11, <2>12 DEF JobInv, LeasesAreReturned
<1>5. ASSUME NEW j \in DOMAIN job, JobStep(j) PROVE JobInv' /\ Final
  <2>1. j \in 1..Len(job) /\ active = j /\ begun = j /\ j \in Jobs
    BY <1>0, <1>5 DEF JobInv, JobStep, GateDenies, GateAllows, StopReturns, StartReturns,
                      StartFails, UndoReturns, OnlineReturns, FinishJob
  <2>2. UNCHANGED <<session, begun>>
    BY <1>5 DEF JobStep, GateDenies, GateAllows, StopReturns, StartReturns,
                StartFails, UndoReturns, OnlineReturns, FinishJob
  <2>3. leases' \subseteq {active'}
    BY <1>5 DEF JobStep, GateDenies, GateAllows, StopReturns, StartReturns, StartFails,
                UndoReturns, OnlineReturns, FinishJob, JobInv, LeasesAreReturned
  <2>4. CASE FinishJob(j)
    BY <1>0, <2>1, <2>2, <2>3, <2>4, StepTypes DEF FinishJob, JobInv, Final, LeasesAreReturned
  <2>5. CASE ~FinishJob(j)
    <3>1. phase \in Phases \ {"idle", "finish"} /\ active' = j
      BY <1>5, <2>5, StepTypes
      DEF JobStep, GateDenies, GateAllows, StopReturns, StartReturns,
          StartFails, UndoReturns, OnlineReturns, Phases
    <3>2. \/ UNCHANGED job
          \/ phase' = "finish" /\ \E st \in Settled : job' = WithStatus(j, st)
          \/ job' = WithStatus(j, "waiting_online")
      BY <1>5, <2>5 DEF JobStep, GateDenies, GateAllows, StopReturns, StartReturns,
                        StartFails, UndoReturns, OnlineReturns, Fail, Settled
    <3>3. CASE UNCHANGED job
      BY <1>0, <2>1, <2>2, <2>3, <3>1, <3>3, StepTypes DEF JobInv, Final, LeasesAreReturned
    <3>4. ASSUME NEW st \in Statuses, job' = WithStatus(j, st),
                 phase' = "finish" \/ st = "waiting_online"
          PROVE  JobInv' /\ Final
      <4>1. StatusSet(j, st)
        BY <2>1, <3>4, StatusChange DEF TypeInv
      <4>2. job[j].status \notin Settled
        BY <2>1, <3>1 DEF JobInv, Settled
      <4>3. /\ Len(job') = Len(job)
            /\ \A i \in 1..Len(job) : job'[i].status = IF i = j THEN st ELSE job[i].status
        BY <4>1 DEF StatusSet, Kept
      <4>4. phase' \in Phases \ {"idle", "finish"} =>
              job'[active'].status \in {"budget_waiting", "waiting_online"}
        BY <2>1, <3>1, <3>4, <4>3
      <4>5. \A i \in 1..Len(job') : i > begun' =>
              \/ job'[i].status = "pending"
              \/ job'[i].status = "failed" /\ session'[SessionOf(i)'] = "removed"
        BY <1>0, <2>1, <2>2, <4>3 DEF JobInv
      <4>6. \A i \in 1..Len(job') : session'[SessionOf(i)'] # "new"
        BY <1>0, <2>2, <4>3 DEF JobInv
      <4>7. Final
        BY <4>2, <4>3 DEF Final
      <4> QED
        BY <2>1, <2>2, <2>3, <3>1, <4>4, <4>5, <4>6, <4>7 DEF JobInv, LeasesAreReturned
    <3> QED
      BY <3>2, <3>3, <3>4 DEF Statuses, Settled, Waiting
  <2> QED
    BY <2>4, <2>5
<1>6. CASE Crash
  <2>1. Kept /\ \A i \in 1..Len(job) :
                  job[i].status \in Settled => job'[i].status = job[i].status
    BY <1>6, JobsForgotten DEF TypeInv
  <2>2. /\ active' = 0 /\ phase' = "idle" /\ begun' = Len(job) /\ leases' = {}
        /\ UNCHANGED session
    BY <1>6 DEF Crash
  <2> QED
    BY <1>0, <2>1, <2>2 DEF Kept, JobInv, Final, LeasesAreReturned
<1>7. ASSUME \/ \E j \in DOMAIN job : \/ KillAgent(j) \/ PolarStarts(j) \/ PolarRefuses(j)
                                      \/ AgentExits(j) \/ LeaseExpires(j)
             \/ \E s \in Sessions : PolarStops(s)
             \/ Sweep \/ UNCHANGED vars
      PROVE  JobInv' /\ Final
  <2>1. UNCHANGED <<job, session, active, begun, phase, leases>>
    BY <1>7 DEF KillAgent, PolarStarts, PolarRefuses, AgentExits, LeaseExpires,
                PolarStops, Sweep, vars
  <2> QED
    BY <1>0, <2>1 DEF JobInv, Final, LeasesAreReturned
<1> QED
  BY <1>1, <1>2, <1>3, <1>4, <1>5, <1>6, <1>7 DEF Next

\* In the initial state there are no jobs.
LEMMA JobInit == Init => JobInv
BY DEF Init, JobInv, LeasesAreReturned, Phases

\* Types and the standing of the jobs hold together in every state.
THEOREM JobsInvariant == Spec => [](TypeInv /\ JobInv)
BY TypeInit, TypeStep, JobInit, JobInvStep, PTL DEF Spec

\* A lease that a job knows of never outlives the job, on every way out of runJob.
THEOREM LeasesReturned == Spec => []LeasesAreReturned
<1>1. JobInv => LeasesAreReturned
  BY DEF JobInv
<1> QED
  BY <1>1, JobsInvariant, PTL

\* A settled job is never settled again, nor reopened: a job that is cancelled while it
\* waits stays failed when its turn in the chain comes.
THEOREM SettledFinal == Spec => SettledIsFinal
<1>1. TypeInv /\ JobInv /\ [Next]_vars =>
        [\A j \in DOMAIN job : job[j].status \in Settled => job'[j].status = job[j].status]_vars
  BY JobInvStep, Shapes DEF Final
<1> QED
  BY <1>1, JobsInvariant, PTL DEF Spec, SettledIsFinal

-----------------------------------------------------------------------------
(* No job is left behind, and no batch stays open without one.             *)

\* A job is ahead until its turn is over: it waits in the chain or is at work.
Ahead(j) == j > begun \/ j = active

\* What is behind is over, and the active job is settled before its turn ends.
TurnInv ==
  /\ \A j \in 1..Len(job) : ~Ahead(j) => job[j].status \in Settled \cup {"forgotten"}
  /\ phase = "finish" => job[active].status \in Settled

\* The turn of a job ends with FinishJob or a crash, and only a crash forgets a job.
LEMMA StaysAhead ==
  ASSUME TypeInv, JobInv, [Next]_vars, ~Crash, NEW i \in 1..Len(job)
  PROVE  /\ Ahead(i) /\ ~FinishJob(i) => Ahead(i)'
         /\ ~Ahead(i) => ~Ahead(i)' /\ job'[i].status \in {job[i].status, "failed"}
         /\ job[i].status # "forgotten" => job'[i].status # "forgotten"
         /\ job[i].status = "forgotten" /\ ~Ahead(i) => job'[i].status = "forgotten"
<1> USE DEF hubVars, jobVars, Ahead
<1>0. /\ Len(job) \in Nat /\ DOMAIN job = 1..Len(job) /\ active \in {0, begun}
      /\ begun \in 0..Len(job) /\ active \in 0..Len(job)
  BY Shapes, StepTypes DEF JobInv
<1>1. CASE \E s \in Sessions, w \in BOOLEAN : SpawnCursor(s, w)
  <2>1. job'[i] = job[i] /\ UNCHANGED <<active, begun>>
    BY <1>1, JobAppended DEF SpawnCursor, TypeInv
  <2> QED
    BY <2>1
<1>2. CASE \E fleet \in Fleets : SpawnProcess(fleet)
  <2>1. job'[i] = job[i] /\ UNCHANGED <<active, begun>>
    BY <1>2, FleetAppended DEF SpawnProcess, TypeInv
  <2> QED
    BY <2>1
<1>3. ASSUME NEW s \in Sessions, RemoveSession(s)
      PROVE  /\ UNCHANGED <<active, begun>>
             /\ job'[i].status \in {job[i].status, "failed"}
             /\ job[i].status = "forgotten" => job'[i].status = "forgotten"
  <2> DEFINE C == {j \in DOMAIN job : /\ SessionOf(j) = s
                                      /\ job[j].status = "pending"
                                      /\ job[j].batch # 0 /\ Known(job[j].batch)}
  <2>1. job' = [j \in DOMAIN job |->
                 IF j \in C THEN [job[j] EXCEPT !.status = "failed"] ELSE job[j]]
    BY <1>3 DEF RemoveSession
  <2>2. \A j \in C : job[j].status = "pending"
    OBVIOUS
  <2> HIDE DEF C
  <2>3. job'[i].status = IF i \in C THEN "failed" ELSE job[i].status
    BY <2>1, JobsFail DEF TypeInv
  <2> QED
    BY <1>3, <2>2, <2>3 DEF RemoveSession
<1>4. CASE BeginJob
  <2>1. begun + 1 \in 1..Len(job) /\ active = 0 /\ begun' = begun + 1 /\ active' = begun + 1
    BY <1>0, <1>4 DEF BeginJob
  <2>2. \E st \in Statuses \ {"forgotten"} : job' = WithStatus(begun + 1, st)
    BY <1>4 DEF BeginJob, Statuses, Waiting, Settled
  <2>3. PICK st \in Statuses \ {"forgotten"} : StatusSet(begun + 1, st)
    BY <2>1, <2>2, StatusChange DEF TypeInv
  <2>4. job'[i].status = IF i = begun + 1 THEN st ELSE job[i].status
    BY <2>3 DEF StatusSet
  <2> QED
    BY <1>0, <2>1, <2>3, <2>4
<1>5. ASSUME NEW j \in DOMAIN job, JobStep(j), ~FinishJob(j)
      PROVE  /\ UNCHANGED <<active, begun>>
             /\ i # active => job'[i].status = job[i].status
             /\ job[i].status # "forgotten" => job'[i].status # "forgotten"
  <2>1. UNCHANGED <<active, begun>> /\ j = active
    BY <1>5 DEF JobStep, GateDenies, GateAllows, StopReturns, StartReturns,
                StartFails, UndoReturns, OnlineReturns
  <2>2. \/ UNCHANGED job
        \/ \E st \in Statuses \ {"forgotten"} : job' = WithStatus(j, st)
    BY <1>5 DEF JobStep, GateDenies, GateAllows, StopReturns, StartReturns, Fail,
                StartFails, UndoReturns, OnlineReturns, Statuses, Waiting, Settled
  <2>3. \/ UNCHANGED job
        \/ \E st \in Statuses \ {"forgotten"} : StatusSet(j, st)
    BY <1>0, <2>2, StatusChange DEF TypeInv
  <2> QED
    BY <2>1, <2>3 DEF StatusSet
<1>6. ASSUME NEW j \in DOMAIN job, FinishJob(j)
      PROVE  UNCHANGED <<job, begun>> /\ j = active /\ active' = 0
  BY <1>6 DEF FinishJob
<1>7. ASSUME \/ \E j \in DOMAIN job : \/ KillAgent(j) \/ PolarStarts(j) \/ PolarRefuses(j)
                                      \/ AgentExits(j) \/ LeaseExpires(j)
             \/ \E s \in Sessions : PolarStops(s)
             \/ Sweep \/ UNCHANGED vars
      PROVE  UNCHANGED <<job, active, begun>>
  BY <1>7 DEF KillAgent, PolarStarts, PolarRefuses, AgentExits, LeaseExpires,
              PolarStops, Sweep, vars
<1> QED
  BY <1>0, <1>1, <1>2, <1>3, <1>4, <1>5, <1>6, <1>7 DEF Next

\* Every step keeps what is behind over.
LEMMA TurnStep == ASSUME TypeInv, JobInv, TurnInv, [Next]_vars PROVE TurnInv'
<1> USE DEF hubVars, jobVars
<1>0. /\ Len(job) \in Nat /\ Len(job') \in Nat /\ Len(job) <= Len(job')
      /\ DOMAIN job = 1..Len(job)
      /\ begun \in 0..Len(job) /\ active \in 0..Len(job) /\ active \in {0, begun}
      /\ (active = 0) = (phase = "idle")
  BY JobsStay, StepTypes DEF JobInv
<1>f. Final
  BY JobInvStep
<1>1. CASE Crash
  <2>1. /\ job' = [j \in DOMAIN job |-> IF job[j].status \in Settled THEN job[j]
                                        ELSE [job[j] EXCEPT !.status = "forgotten"]]
        /\ phase' = "idle"
    BY <1>1 DEF Crash
  <2>2. \A j \in 1..Len(job) : job'[j].status \in Settled \cup {"forgotten"}
    <3> SUFFICES ASSUME NEW j \in 1..Len(job)
                 PROVE  job'[j].status \in Settled \cup {"forgotten"}
      OBVIOUS
    <3>1. job[j] \in JobRecord
      BY Shapes, <1>0, ElementOfSeq
    <3> QED
      BY <1>0, <2>1, <3>1 DEF JobRecord
  <2>3. Len(job') = Len(job)
    BY <1>1, JobsForgotten DEF TypeInv, Crash, Kept
  <2> QED
    BY <2>1, <2>2, <2>3 DEF TurnInv
<1>2. ASSUME ~Crash, NEW j \in 1..Len(job'), ~Ahead(j)'
      PROVE  job'[j].status \in Settled \cup {"forgotten"}
  <2>1. begun' \in 0..Len(job)
    <3>1. CASE BeginJob
      BY <1>0, <3>1 DEF BeginJob
    <3>2. CASE ~BeginJob
      <4>1. begun' = begun
        BY <1>2, <3>2 DEF Next, SpawnCursor, SpawnProcess, RemoveSession, JobStep, GateDenies,
          GateAllows, StopReturns, StartReturns, StartFails, UndoReturns, OnlineReturns,
          FinishJob, KillAgent, PolarStarts, PolarRefuses, AgentExits, LeaseExpires,
          PolarStops, Sweep, vars
      <4> QED
        BY <1>0, <4>1
    <3> QED
      BY <3>1, <3>2
  <2>2. j \in 1..Len(job)
    BY <1>0, <1>2, <2>1 DEF Ahead
  <2>3. CASE Ahead(j)
    <3>1. FinishJob(j)
      BY <1>2, <2>2, <2>3, StaysAhead
    <3> QED
      BY <3>1 DEF FinishJob, TurnInv
  <2>4. CASE ~Ahead(j)
    BY <1>2, <1>f, <2>2, <2>4, StaysAhead DEF TurnInv, Final
  <2> QED
    BY <2>3, <2>4
<1>3. ASSUME phase' = "finish" PROVE job'[active'].status \in Settled
  <2>1. CASE BeginJob
    <3> DEFINE j == begun + 1
    <3>1. j \in 1..Len(job) /\ active' = j
      BY <1>0, <2>1 DEF BeginJob
    <3>2. job' = WithStatus(j, "failed")
      BY <1>3, <2>1 DEF BeginJob
    <3>3. StatusSet(j, "failed")
      BY <3>1, <3>2, StatusChange DEF TypeInv, Statuses, Settled
    <3> QED
      BY <3>1, <3>3 DEF StatusSet, Settled
  <2>2. ASSUME NEW j \in DOMAIN job, JobStep(j) PROVE job'[active'].status \in Settled
    <3>1. active' = j /\ j \in 1..Len(job) /\ \E st \in Settled : job' = WithStatus(j, st)
      BY <1>0, <1>3, <2>2 DEF JobStep, GateDenies, GateAllows, StopReturns, StartReturns, Fail,
                StartFails, UndoReturns, OnlineReturns, FinishJob, Settled
    <3>2. PICK st \in Settled : StatusSet(j, st)
      BY <3>1, StatusChange DEF TypeInv, Statuses
    <3> QED
      BY <3>1, <3>2 DEF StatusSet
  <2>3. CASE ~BeginJob /\ ~\E j \in DOMAIN job : JobStep(j)
    <3>1. UNCHANGED <<active, phase>>
      BY <1>3, <2>3 DEF Next, SpawnCursor, SpawnProcess, RemoveSession, KillAgent, PolarStarts,
        PolarRefuses, AgentExits, LeaseExpires, PolarStops, Crash, Sweep, vars
    <3>2. active \in 1..Len(job)
      BY <1>0, <1>3, <3>1
    <3> QED
      BY <1>3, <1>f, <3>1, <3>2 DEF TurnInv, Final
  <2> QED
    BY <2>1, <2>2, <2>3
<1> QED
  BY <1>1, <1>2, <1>3 DEF TurnInv

\* The jobs that are not over are ahead, however the one before them ended, and
\* whatever was cancelled: none is skipped, and an idle queue has settled them all.
NoJobLeftBehind ==
  /\ \A j \in DOMAIN job : job[j].status \in Waiting => Ahead(j)
  /\ active = 0 /\ begun = Len(job) => \A j \in DOMAIN job : job[j].status \notin Waiting

\* In the initial state there are no jobs.
LEMMA TurnInit == Init => TurnInv
BY DEF Init, TurnInv

\* For any number of sessions, jobs, removals and crashes of the Hub.
THEOREM NoneLeftBehind == Spec => []NoJobLeftBehind
<1>1. ASSUME TypeInv, TurnInv PROVE NoJobLeftBehind
  <2>1. DOMAIN job = 1..Len(job) /\ Len(job) \in Nat
    BY <1>1, Shapes
  <2>2. \A j \in DOMAIN job : job[j].status \in Waiting => Ahead(j)
    BY <1>1, <2>1 DEF TurnInv, Waiting, Settled
  <2>3. active = 0 /\ begun = Len(job) => \A j \in DOMAIN job : ~Ahead(j)
    BY <2>1 DEF Ahead
  <2> QED
    BY <2>2, <2>3 DEF NoJobLeftBehind
<1> QED
  BY <1>1, TypeInit, TypeStep, JobInit, JobInvStep, TurnInit, TurnStep, PTL DEF Spec

-----------------------------------------------------------------------------
\* BatchVerdict, one batch and one job at a time, and no batch is empty.
Verdict(b) ==
  /\ batch[b] = "completed" => \A j \in 1..Len(job) : job[j].batch = b => job[j].status = "done"
  /\ batch[b] = "failed" =>
       /\ \A j \in 1..Len(job) : job[j].batch = b => job[j].status \in Settled
       /\ \E j \in 1..Len(job) : job[j].batch = b /\ job[j].status = "failed"
HasJob(b) == \E j \in 1..Len(job) : job[j].batch = b
BatchInv == \A b \in 1..Len(batch) : Verdict(b) /\ HasJob(b)

\* Later jobs never join a batch that exists.
LEMMA MembersStay ==
  ASSUME TypeInv, [Next]_vars
  PROVE  /\ Len(job) \in Nat /\ Len(job') \in Nat /\ Len(job) <= Len(job')
         /\ \A j \in 1..Len(job) : job'[j].batch = job[j].batch
         /\ \A j \in 1..Len(job') : job'[j].batch \in 1..Len(batch) => j \in 1..Len(job)
<1>0. /\ Len(job) \in Nat /\ Len(job') \in Nat /\ Len(job) <= Len(job')
      /\ \A i \in 1..Len(job) : job'[i].batch = job[i].batch
  BY JobsStay
<1>1. ASSUME Len(job') # Len(job), NEW j \in 1..Len(job'), j > Len(job)
      PROVE  job'[j].batch \notin 1..Len(batch)
  <2>1. CASE \E s \in Sessions, w \in BOOLEAN : SpawnCursor(s, w)
    <3>1. PICK s \in Sessions, w \in BOOLEAN : SpawnCursor(s, w)
      BY <2>1
    <3>2. Len(job') = Len(job) + 1 /\ job'[Len(job) + 1] = NewJob(s, 0, w)
      BY <3>1, JobAppended DEF SpawnCursor, TypeInv
    <3>3. job'[j].batch = 0
      BY <1>0, <1>1, <3>2 DEF NewJob
    <3> QED
      BY <3>3, Shapes
  <2>2. CASE \E fleet \in Fleets : SpawnProcess(fleet)
    <3>1. PICK fleet \in Fleets : SpawnProcess(fleet)
      BY <2>2
    <3>2. /\ Len(fleet) \in Nat /\ Len(job') = Len(job) + Len(fleet)
          /\ \A i \in 1..Len(fleet) :
               job'[Len(job) + i] = NewJob(fleet[i], Len(batch) + 1, TRUE)
      BY <3>1, FleetAppended DEF TypeInv
    <3>3. PICK i \in 1..Len(fleet) : j = Len(job) + i
      <4>1. j - Len(job) \in 1..Len(fleet) /\ j = Len(job) + (j - Len(job))
        BY <1>0, <1>1, <3>2
      <4> QED
        BY <4>1
    <3>4. job'[j] = NewJob(fleet[i], Len(batch) + 1, TRUE)
      BY <3>2, <3>3
    <3>5. job'[j].batch = Len(batch) + 1
      BY <3>4 DEF NewJob
    <3> QED
      BY <3>5, Shapes
  <2>3. CASE ~ \/ \E s \in Sessions, w \in BOOLEAN : SpawnCursor(s, w)
               \/ \E fleet \in Fleets : SpawnProcess(fleet)
    BY <1>1, <2>3, OtherStepsKeepJobs DEF Kept
  <2> QED
    BY <2>1, <2>2, <2>3
<1> QED
  BY <1>0, <1>1

\* A verdict stays right when the batch keeps its status, leaves it, or is settled by
\* the outcomes of its jobs.
LEMMA VerdictKept ==
  ASSUME TypeInv, JobInv, [Next]_vars, NEW b \in 1..Len(batch), Verdict(b), HasJob(b),
         batch'[b] \in {batch[b], Touched(b, job'), "running", "forgotten"}
  PROVE  Verdict(b)' /\ HasJob(b)'
<1>1. /\ Len(job) \in Nat /\ Len(job') \in Nat /\ Len(job) <= Len(job')
      /\ \A j \in 1..Len(job) : job'[j].batch = job[j].batch
      /\ \A j \in 1..Len(job') : job'[j].batch = b => j \in 1..Len(job)
  BY MembersStay
<1>2. Final
  BY JobInvStep
<1>3. HasJob(b)'
  BY <1>1 DEF HasJob
<1>4. CASE batch'[b] = batch[b]
  <2>1. \A j \in 1..Len(job') : job'[j].batch = b => j \in 1..Len(job) /\ job[j].batch = b
    BY <1>1
  <2>2. ASSUME batch[b] = "completed", NEW j \in 1..Len(job'), job'[j].batch = b
        PROVE  job'[j].status = "done"
    <3>1. j \in 1..Len(job) /\ job[j].status = "done"
      BY <2>1, <2>2 DEF Verdict
    <3> QED
      BY <1>2, <3>1 DEF Final, Settled
  <2>3. ASSUME batch[b] = "failed", NEW j \in 1..Len(job'), job'[j].batch = b
        PROVE  job'[j].status \in Settled
    <3>1. j \in 1..Len(job) /\ job[j].status \in Settled
      BY <2>1, <2>3 DEF Verdict
    <3> QED
      BY <1>2, <3>1 DEF Final
  <2>4. ASSUME batch[b] = "failed"
        PROVE  \E j \in 1..Len(job') : job'[j].batch = b /\ job'[j].status = "failed"
    <3>1. PICK j \in 1..Len(job) : job[j].batch = b /\ job[j].status = "failed"
      BY <2>4 DEF Verdict
    <3>2. j \in 1..Len(job') /\ job'[j].batch = b
      BY <1>1, <3>1
    <3>3. job'[j].status = "failed"
      BY <1>2, <3>1 DEF Final, Settled
    <3> QED
      BY <3>2, <3>3
  <2> QED
    BY <1>3, <1>4, <2>2, <2>3, <2>4 DEF Verdict
<1>5. CASE batch'[b] \in {"running", "forgotten"}
  BY <1>3, <1>5 DEF Verdict
<1>6. CASE batch'[b] = Touched(b, job') /\ batch'[b] # batch[b]
  <2>1. DOMAIN job' = 1..Len(job')
    BY JobsStay
  <2>2. \A j \in 1..Len(job') : job'[j].batch = b => job'[j].status \in Settled
    BY <1>6, <2>1 DEF Touched
  <2>3. CASE \E j \in 1..Len(job') : job'[j].batch = b /\ job'[j].status = "failed"
    <3>1. batch'[b] = "failed"
      BY <1>6, <2>1, <2>2, <2>3 DEF Touched
    <3> QED
      BY <1>3, <2>2, <2>3, <3>1 DEF Verdict
  <2>4. CASE ~ \E j \in 1..Len(job') : job'[j].batch = b /\ job'[j].status = "failed"
    <3>1. batch'[b] = "completed"
      BY <1>6, <2>1, <2>2, <2>4 DEF Touched
    <3> QED
      BY <1>3, <2>2, <2>4, <3>1 DEF Verdict, Settled
  <2> QED
    BY <2>3, <2>4
<1> QED
  BY <1>4, <1>5, <1>6

\* Every step keeps the verdicts.
LEMMA BatchStep == ASSUME TypeInv, JobInv, BatchInv, [Next]_vars PROVE BatchInv'
<1> USE DEF hubVars, jobVars
<1>1. ASSUME Len(batch') = Len(batch),
             \A b \in 1..Len(batch) :
               batch'[b] \in {batch[b], Touched(b, job'), "running", "forgotten"}
      PROVE  BatchInv'
  BY <1>1, VerdictKept DEF BatchInv
<1>2. CASE UNCHANGED batch
  BY <1>1, <1>2
<1>3. ASSUME NEW fleet \in Fleets, SpawnProcess(fleet) PROVE BatchInv'
  <2>1. /\ Len(fleet) \in Nat \ {0} /\ Len(job') = Len(job) + Len(fleet)
        /\ \A i \in 1..Len(fleet) :
             job'[Len(job) + i] = NewJob(fleet[i], Len(batch) + 1, TRUE)
    BY <1>3, FleetAppended DEF TypeInv
  <2>2. /\ Len(batch) \in Nat /\ Len(batch') = Len(batch) + 1
        /\ \A b \in 1..Len(batch) : batch'[b] = batch[b]
        /\ batch'[Len(batch) + 1] = "queued"
    BY <1>3, Shapes, AppendProperties DEF SpawnProcess, BatchStatus
  <2>3. ASSUME NEW b \in 1..Len(batch'), b \notin 1..Len(batch) PROVE Verdict(b)' /\ HasJob(b)'
    <3>1. b = Len(batch) + 1
      BY <2>2, <2>3
    <3>2. Len(job) + 1 \in 1..Len(job') /\ job'[Len(job) + 1] = NewJob(fleet[1], b, TRUE)
      <4>1. 1 \in 1..Len(fleet)
        BY <2>1
      <4>2. job'[Len(job) + 1] = NewJob(fleet[1], Len(batch) + 1, TRUE)
        BY ONLY <2>1, <4>1
      <4> QED
        BY <2>1, <3>1, <4>2, Shapes
    <3>3. job'[Len(job) + 1].batch = b
      BY <3>2 DEF NewJob
    <3> QED
      BY <2>2, <3>1, <3>2, <3>3 DEF Verdict, HasJob
  <2>4. \A b \in 1..Len(batch) : Verdict(b)' /\ HasJob(b)'
    BY <2>2, VerdictKept DEF BatchInv
  <2> QED
    BY <2>3, <2>4 DEF BatchInv
<1>4. ASSUME NEW s \in Sessions, RemoveSession(s) PROVE BatchInv'
  <2>1. batch' = [b \in 1..Len(batch) |-> IF Known(b) THEN Touched(b, job') ELSE batch[b]]
    BY <1>4, Shapes DEF RemoveSession
  <2>2. Len(batch') = Len(batch)
    BY <2>1, Shapes
  <2> QED
    BY <1>1, <2>1, <2>2
<1>5. CASE BeginJob
  <2>1. PICK b \in 0..Len(batch) :
          batch' = IF b # 0 /\ batch[b] = "queued" THEN [batch EXCEPT ![b] = "running"] ELSE batch
    <3>1. begun + 1 \in 1..Len(job)
      BY <1>5, Shapes, StepTypes DEF BeginJob
    <3>2. job[begun + 1].batch \in 0..Len(batch)
      BY <3>1, Shapes
    <3> QED
      BY <1>5, <3>2 DEF BeginJob
  <2>2. CASE b # 0
    BY <1>1, <2>1, <2>2, Shapes, ExceptSeq DEF BatchStatus
  <2>3. CASE b = 0
    BY <1>2, <2>1, <2>3
  <2> QED
    BY <2>2, <2>3
<1>6. ASSUME NEW j \in DOMAIN job, FinishJob(j) PROVE BatchInv'
  <2> DEFINE b == job[j].batch
  <2>1. b \in 0..Len(batch) /\ job' = job
        /\ batch' = IF b = 0 THEN batch ELSE [batch EXCEPT ![b] = Touched(b, job)]
    BY <1>6, Shapes DEF FinishJob
  <2> HIDE DEF b
  <2>2. CASE b = 0
    BY <1>2, <2>1, <2>2
  <2>3. CASE b # 0
    <3>1. batch[b] \in BatchStatus
      BY <2>1, <2>3, Shapes, ElementOfSeq
    <3>2. Touched(b, job) \in BatchStatus
      BY <3>1 DEF Touched, BatchStatus
    <3> QED
      BY <1>1, <2>1, <2>3, <3>2, Shapes, ExceptSeq
  <2> QED
    BY <2>2, <2>3
<1>7. CASE Crash
  <2>1. batch' = [b \in 1..Len(batch) |-> "forgotten"]
    BY <1>7, Shapes DEF Crash
  <2>2. Len(batch') = Len(batch)
    BY <2>1, Shapes
  <2> QED
    BY <1>1, <2>1, <2>2
<1>8. ASSUME NEW j \in DOMAIN job, JobStep(j), ~FinishJob(j) PROVE UNCHANGED batch
  BY <1>8 DEF JobStep, GateDenies, GateAllows, StopReturns, StartReturns, StartFails,
              UndoReturns, OnlineReturns
<1>9. ASSUME \/ \E s \in Sessions : \/ \E w \in BOOLEAN : SpawnCursor(s, w)
                                    \/ PolarStops(s)
             \/ \E j \in DOMAIN job : \/ KillAgent(j) \/ PolarStarts(j) \/ PolarRefuses(j)
                                      \/ AgentExits(j) \/ LeaseExpires(j)
             \/ Sweep \/ UNCHANGED vars
      PROVE  UNCHANGED batch
  BY <1>9 DEF SpawnCursor, KillAgent, PolarStarts, PolarRefuses, AgentExits, LeaseExpires,
              PolarStops, Sweep, vars
<1> QED
  BY <1>2, <1>3, <1>4, <1>5, <1>6, <1>7, <1>8, <1>9 DEF Next

\* While a batch is open a job of it is ahead, and no crash forgot one.
Open == {"queued", "running"}
HasTurn(b) ==
  batch[b] \in Open =>
    /\ \A j \in 1..Len(job) : job[j].batch = b => job[j].status # "forgotten"
    /\ \E j \in 1..Len(job) : job[j].batch = b /\ Ahead(j)
OpenInv == \A b \in 1..Len(batch) : HasTurn(b)

\* A batch that stays open keeps a job ahead: the turn of its last one closes it.
LEMMA TurnKept ==
  ASSUME TypeInv, JobInv, TurnInv, [Next]_vars, ~Crash, NEW b \in 1..Len(batch), HasTurn(b),
         batch'[b] \in Open => batch[b] \in Open,
         \A k \in 1..Len(job) :
           FinishJob(k) /\ job[k].batch = b /\ batch'[b] \in Open =>
             \E i \in 1..Len(job) : job[i].batch = b /\ job[i].status \notin Settled
  PROVE  HasTurn(b)'
<1>0. /\ Len(job) \in Nat /\ Len(job') \in Nat /\ Len(job) <= Len(job')
      /\ \A j \in 1..Len(job) : job'[j].batch = job[j].batch
      /\ \A j \in 1..Len(job') : job'[j].batch = b => j \in 1..Len(job)
  BY MembersStay
<1> SUFFICES ASSUME batch'[b] \in Open
             PROVE  /\ \A j \in 1..Len(job') : job'[j].batch = b => job'[j].status # "forgotten"
                    /\ \E j \in 1..Len(job') : job'[j].batch = b /\ Ahead(j)'
  BY DEF HasTurn
<1>1. \A j \in 1..Len(job) : job[j].batch = b => job[j].status # "forgotten"
  BY DEF HasTurn
<1>2. \A j \in 1..Len(job') : job'[j].batch = b => job'[j].status # "forgotten"
  BY <1>0, <1>1, StaysAhead
<1>3. PICK k \in 1..Len(job) : job[k].batch = b /\ Ahead(k)
  BY DEF HasTurn
<1>4. CASE ~FinishJob(k)
  <2>1. k \in 1..Len(job') /\ job'[k].batch = b /\ Ahead(k)'
    BY <1>0, <1>3, <1>4, StaysAhead
  <2> QED
    BY <1>2, <2>1
<1>5. CASE FinishJob(k)
  <2>1. PICK i \in 1..Len(job) : job[i].batch = b /\ job[i].status \notin Settled
    BY <1>3, <1>5
  <2>2. i \in 1..Len(job') /\ job'[i].batch = b /\ job'[i].status \notin Settled
    BY <1>0, <1>5, <2>1 DEF FinishJob
  <2>3. Ahead(i)'
    BY <1>2, <2>2, TurnStep DEF TurnInv
  <2> QED
    BY <1>2, <2>2, <2>3
<1> QED
  BY <1>4, <1>5

\* Every step keeps a job ahead of every open batch.
LEMMA OpenStep == ASSUME TypeInv, JobInv, TurnInv, OpenInv, [Next]_vars PROVE OpenInv'
<1> USE DEF hubVars, jobVars
<1>1. ASSUME ~Crash, Len(batch') = Len(batch), ~\E k \in 1..Len(job) : FinishJob(k),
             \A b \in 1..Len(batch) : batch'[b] \in Open => batch[b] \in Open
      PROVE  OpenInv'
  BY <1>1, TurnKept DEF OpenInv
<1>2. CASE Crash
  <2>1. batch' = [b \in 1..Len(batch) |-> "forgotten"]
    BY <1>2, Shapes DEF Crash
  <2>2. Len(batch') = Len(batch)
    BY <2>1, Shapes
  <2> QED
    BY <2>1, <2>2 DEF OpenInv, HasTurn, Open
<1>3. ASSUME NEW k \in 1..Len(job), FinishJob(k), ~Crash PROVE OpenInv'
  <2> DEFINE c == job[k].batch
  <2>1. c \in 0..Len(batch) /\ job' = job
        /\ batch' = IF c = 0 THEN batch ELSE [batch EXCEPT ![c] = Touched(c, job)]
    BY <1>3, Shapes DEF FinishJob
  <2>2. DOMAIN job = 1..Len(job) /\ Len(batch) \in Nat
    BY Shapes
  <2>3. /\ Len(batch') = Len(batch)
        /\ \A b \in 1..Len(batch) : batch'[b] = IF b = c THEN Touched(b, job) ELSE batch[b]
    <3>1. CASE c = 0
      BY <2>1, <2>2, <3>1
    <3>2. CASE c # 0
      <4>1. batch[c] \in BatchStatus
        BY <2>1, <3>2, Shapes, ElementOfSeq
      <4>2. Touched(c, job) \in BatchStatus
        BY <4>1 DEF Touched, BatchStatus
      <4> QED
        BY <2>1, <3>2, <4>2, Shapes, ExceptSeq
    <3> QED
      BY <3>1, <3>2
  <2>4. ASSUME NEW b \in 1..Len(batch) PROVE HasTurn(b)'
    <3>1. batch'[b] \in Open => batch[b] \in Open
      BY <2>3 DEF Touched, Open
    <3>2. ASSUME NEW j \in 1..Len(job), FinishJob(j), job[j].batch = b, batch'[b] \in Open
          PROVE  \E i \in 1..Len(job) : job[i].batch = b /\ job[i].status \notin Settled
      <4>1. b = c
        BY <1>3, <3>2 DEF FinishJob
      <4> QED
        BY <2>2, <2>3, <3>2, <4>1 DEF Touched, Open
    <3> QED
      BY <1>3, <3>1, <3>2, TurnKept DEF OpenInv
  <2> QED
    BY <2>3, <2>4 DEF OpenInv
<1>4. ASSUME NEW fleet \in Fleets, SpawnProcess(fleet), ~Crash PROVE OpenInv'
  <2>1. /\ Len(fleet) \in Nat \ {0} /\ Len(job') = Len(job) + Len(fleet)
        /\ \A i \in 1..Len(fleet) :
             job'[Len(job) + i] = NewJob(fleet[i], Len(batch) + 1, TRUE)
    BY <1>4, FleetAppended DEF TypeInv
  <2>2. /\ Len(batch) \in Nat /\ Len(batch') = Len(batch) + 1
        /\ \A b \in 1..Len(batch) : batch'[b] = batch[b]
    BY <1>4, Shapes, AppendProperties DEF SpawnProcess, BatchStatus
  <2>3. ASSUME NEW b \in 1..Len(batch'), b \notin 1..Len(batch) PROVE HasTurn(b)'
    <3>1. b = Len(batch) + 1
      BY <2>2, <2>3
    <3>2. \A j \in 1..Len(job) : job'[j].batch # b
      BY <3>1, MembersStay, Shapes
    <3>3. \A j \in 1..Len(job') : j > Len(job) => job'[j] = NewJob(fleet[j - Len(job)], b, TRUE)
      <4> SUFFICES ASSUME NEW j \in 1..Len(job'), j > Len(job)
                   PROVE  job'[j] = NewJob(fleet[j - Len(job)], b, TRUE)
        OBVIOUS
      <4>1. j - Len(job) \in 1..Len(fleet) /\ j = Len(job) + (j - Len(job))
        BY <2>1, Shapes
      <4> QED
        BY <2>1, <3>1, <4>1
    <3>4. \A j \in 1..Len(job') : job'[j].batch = b => job'[j].status # "forgotten"
      BY <2>1, <3>2, <3>3, Shapes DEF NewJob
    <3>5. PICK n \in 1..Len(job') : n = Len(job) + 1 /\ n > Len(job)
      BY <2>1, Shapes
    <3>6. job'[n].batch = b
      <4>1. job'[n] = NewJob(fleet[n - Len(job)], b, TRUE)
        BY ONLY <3>3, <3>5
      <4> QED
        BY ONLY <4>1 DEF NewJob
    <3>7. Ahead(n)'
      BY <1>4, <3>5, Shapes, StepTypes DEF SpawnProcess, Ahead
    <3> QED
      BY <3>4, <3>6, <3>7 DEF HasTurn
  <2>4. \A b \in 1..Len(batch) : HasTurn(b)'
    <3>1. ~\E k \in 1..Len(job) : FinishJob(k)
      BY <1>4, <2>2 DEF SpawnProcess, FinishJob
    <3> QED
      BY <1>4, <2>2, <3>1, TurnKept DEF OpenInv
  <2> QED
    BY <2>3, <2>4 DEF OpenInv
<1>5. CASE /\ ~Crash /\ ~\E k \in 1..Len(job) : FinishJob(k)
           /\ ~\E fleet \in Fleets : SpawnProcess(fleet)
  <2>1. CASE UNCHANGED batch
    BY <1>1, <1>5, <2>1
  <2>2. ASSUME NEW s \in Sessions, RemoveSession(s) PROVE OpenInv'
    <3>1. batch' = [b \in 1..Len(batch) |-> IF Known(b) THEN Touched(b, job') ELSE batch[b]]
      BY <2>2, Shapes DEF RemoveSession
    <3>2. Len(batch') = Len(batch)
      BY <3>1, Shapes
    <3>3. \A b \in 1..Len(batch) : batch'[b] \in Open => batch[b] \in Open
      BY <3>1 DEF Touched, Open
    <3> QED
      BY <1>1, <1>5, <3>2, <3>3
  <2>3. CASE BeginJob
    <3>1. PICK b \in 0..Len(batch) :
            batch' = IF b # 0 /\ batch[b] = "queued" THEN [batch EXCEPT ![b] = "running"] ELSE batch
      <4>1. begun + 1 \in 1..Len(job)
        BY <2>3, Shapes, StepTypes DEF BeginJob
      <4>2. job[begun + 1].batch \in 0..Len(batch)
        BY <4>1, Shapes
      <4> QED
        BY <2>3, <4>2 DEF BeginJob
    <3>2. /\ Len(batch') = Len(batch)
          /\ \A c \in 1..Len(batch) : batch'[c] = batch[c] \/ batch[c] = "queued"
      BY <3>1, Shapes, ExceptSeq DEF BatchStatus
    <3> QED
      BY <1>1, <1>5, <3>2 DEF Open
  <2>4. ASSUME NEW j \in DOMAIN job, JobStep(j) PROVE UNCHANGED batch
    BY <1>5, <2>4, Shapes DEF JobStep, GateDenies, GateAllows, StopReturns, StartReturns,
                      StartFails, UndoReturns, OnlineReturns
  <2>5. ASSUME \/ \E s \in Sessions : \/ \E w \in BOOLEAN : SpawnCursor(s, w)
                                      \/ PolarStops(s)
               \/ \E j \in DOMAIN job : \/ KillAgent(j) \/ PolarStarts(j) \/ PolarRefuses(j)
                                        \/ AgentExits(j) \/ LeaseExpires(j)
               \/ Sweep \/ UNCHANGED vars
        PROVE  UNCHANGED batch
    BY <2>5 DEF SpawnCursor, KillAgent, PolarStarts, PolarRefuses, AgentExits, LeaseExpires,
                PolarStops, Sweep, vars
  <2> QED
    BY <1>5, <2>1, <2>2, <2>3, <2>4, <2>5 DEF Next
<1> QED
  BY <1>2, <1>3, <1>4, <1>5

\* The pointwise form is what the property says.
LEMMA VerdictsRight == TypeInv /\ BatchInv /\ OpenInv => BatchVerdict
<1> SUFFICES ASSUME TypeInv, BatchInv, OpenInv, NEW b \in 1..Len(batch)
             PROVE  LET mine == {j \in DOMAIN job : job[j].batch = b}
                        outcomes == {job[j].status : j \in mine}
                    IN  /\ batch[b] = "completed" => outcomes = {"done"}
                        /\ batch[b] = "failed" => outcomes \subseteq Settled /\ "failed" \in outcomes
                        /\ batch[b] \in {"queued", "running"} =>
                             \E j \in mine : j > begun \/ j = active
  BY Shapes DEF BatchVerdict
<1>1. DOMAIN job = 1..Len(job) /\ Verdict(b) /\ HasJob(b) /\ HasTurn(b)
  BY Shapes DEF BatchInv, OpenInv
<1> QED
  BY <1>1 DEF Verdict, HasJob, HasTurn, Open, Ahead

\* In the initial state there are no batches.
LEMMA BatchInit == Init => BatchInv /\ OpenInv
BY DEF Init, BatchInv, OpenInv

\* A batch is reported completed only when all its jobs are done, and failed only when
\* all are over and one failed, whatever was cancelled in between.
THEOREM VerdictsCorrect == Spec => []BatchVerdict
BY TypeInit, TypeStep, JobInit, JobInvStep, TurnInit, TurnStep, BatchInit, BatchStep,
   OpenStep, VerdictsRight, PTL DEF Spec
=============================================================================
