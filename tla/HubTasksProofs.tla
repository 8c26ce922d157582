--------------------------- MODULE HubTasksProofs ---------------------------
(* The safety of the Hub's task queue, for any tasks, agents and requests. *)
EXTENDS HubTasks, TLAPS

\* A task id that was never used has the empty row, and a parent exists.
RowInv == \A t \in Tasks : IF Exists(t) THEN row[t].parent \notin Absent ELSE row[t] = NoRow

\* A completed task left the queue for good.
OnceInv ==
  \A t \in Tasks :
    completions[t] = 0 \/ (completions[t] = 1 /\ status[t] \in {"done", "blocked", "cancelled"})

\* everDone remembers what is done; work in hand started after its dependencies.
DoneInv == \A t \in Tasks : status[t] = "done" => t \in everDone

\* A key under which a call took effect still has its answer, or has lost it.
KeyInv == \A k \in Keys : \/ acted[k] = 0
                          \/ acted[k] = 1 /\ cache[k]
                          \/ k \in forgotten

IInv ==
  /\ TypeOK /\ RowInv /\ OnceInv /\ DoneInv /\ KeyInv
  /\ ClaimedAfterDependencies /\ NoStrandedParent

\* What Init establishes.
LEMMA InitHolds == Init => IInv
<1> SUFFICES ASSUME Init PROVE IInv
  OBVIOUS
<1> USE ConstantsAssumption DEF Init
<1>1. NoRow \in Rows
  BY DEF NoRow, Rows
<1>2. TypeOK
  BY <1>1 DEF TypeOK
<1>3. RowInv /\ OnceInv /\ DoneInv /\ KeyInv /\ ClaimedAfterDependencies
  BY DEF RowInv, Exists, NoRow, OnceInv, DoneInv, KeyInv, ClaimedAfterDependencies
<1>4. NoStrandedParent
  BY DEF NoStrandedParent, Children, Exists
<1>5. QED
  BY <1>2, <1>3, <1>4 DEF IInv

\* Remember keeps KeyInv: a key acts again only after its answer is lost.
LEMMA RememberKeys ==
  ASSUME TypeOK, KeyInv, NEW k \in Keys \cup {None}, NEW died \in BOOLEAN,
         NewRequest(k), Remember(k, died)
  PROVE  /\ KeyInv'
         /\ cache' \in [Keys -> BOOLEAN] /\ acted' \in [Keys -> Nat]
         /\ forgotten' \subseteq Keys /\ crashes' \in Nat
<1> USE ConstantsAssumption DEF TypeOK, Remember
<1>1. cache' \in [Keys -> BOOLEAN] /\ acted' \in [Keys -> Nat]
  OBVIOUS
<1>2. forgotten' \subseteq Keys /\ crashes' \in Nat
  OBVIOUS
<1>3. KeyInv'
  <2> SUFFICES ASSUME NEW j \in Keys
               PROVE  acted'[j] = 0 \/ (acted'[j] = 1 /\ cache'[j]) \/ j \in forgotten'
    BY DEF KeyInv
  <2>1. CASE j # k
    BY <2>1 DEF KeyInv
  <2>2. CASE j = k
    <3>1. acted[j] = 0 \/ j \in forgotten
      BY <2>2 DEF KeyInv, NewRequest
    <3>2. CASE died
      BY <2>2, <3>2
    <3>3. CASE ~died
      <4>1. cache'[j]
        BY <2>2, <3>3
      <4>2. acted'[j] = acted[j] + 1
        BY <2>2
      <4>3. j \in forgotten => j \in forgotten'
        BY <3>3
      <4>4. QED
        BY <3>1, <4>1, <4>2, <4>3
    <3>4. QED
      BY <3>2, <3>3
  <2>3. QED
    BY <2>1, <2>2
<1>4. QED
  BY <1>1, <1>2, <1>3

\* No child is added and no task becomes done: no parent is newly left behind.
LEMMA StrandedUnchanged ==
  ASSUME TypeOK, NoStrandedParent, row' = row,
         \A t \in Tasks : Exists(t) <=> Exists(t)',
         \A t \in Tasks : status'[t] = "done" => status[t] = "done",
         everDone \subseteq everDone', interrupted => interrupted'
  PROVE  NoStrandedParent'
<1> SUFFICES ASSUME NEW p \in Tasks, Children(p)' # {},
                    \A c \in Children(p)' : status'[c] = "done"
             PROVE  p \in everDone' \/ interrupted'
  BY DEF NoStrandedParent
<1>1. Children(p)' = Children(p)
  BY DEF Children
<1>2. \A c \in Children(p) : status[c] = "done"
  BY <1>1 DEF Children
<1>3. QED
  BY <1>1, <1>2 DEF NoStrandedParent

\* New rows are open, so they neither hide nor finish a parent.
LEMMA InsertStep ==
  ASSUME IInv, NEW K \in SUBSET Tasks, K \subseteq Absent,
         NEW ask \in [K -> Rows], \A c \in K : ask[c].parent \notin Absent, Insert(ask),
         NEW k \in Keys \cup {None}, NEW died \in BOOLEAN, NewRequest(k), Remember(k, died)
  PROVE  IInv'
<1> USE ConstantsAssumption DEF IInv, Insert, toldVars
<1>1. DOMAIN ask = K /\ \A t \in K : ask[t] \in Rows /\ status[t] = "absent"
  BY DEF Absent, Exists
<1>2. KeyInv' /\ TypeOK'
  <2>1. /\ KeyInv'
        /\ cache' \in [Keys -> BOOLEAN] /\ acted' \in [Keys -> Nat]
        /\ forgotten' \subseteq Keys /\ crashes' \in Nat
    BY RememberKeys
  <2>2. row' \in [Tasks -> Rows]
    BY <1>1 DEF TypeOK
  <2>3. clock' \in Nat /\ createdAt' \in [Tasks -> Nat]
    BY <1>1 DEF TypeOK
  <2>4. QED
    BY <1>1, <2>1, <2>2, <2>3 DEF TypeOK
<1>3. RowInv'
  <2>1. Absent' \subseteq Absent
    BY <1>1 DEF Absent, Exists, TypeOK
  <2>2. QED
    BY <1>1, <2>1 DEF RowInv, Exists, TypeOK
<1>4. OnceInv' /\ DoneInv'
  BY <1>1 DEF OnceInv, DoneInv, TypeOK
<1>5. ClaimedAfterDependencies'
  BY <1>1 DEF ClaimedAfterDependencies, TypeOK
<1>6. NoStrandedParent'
  <2> SUFFICES ASSUME NEW p \in Tasks, Children(p)' # {},
                      \A c \in Children(p)' : status'[c] = "done"
               PROVE  p \in everDone \/ interrupted
    BY DEF NoStrandedParent
  <2>1. \A c \in Children(p)' : c \notin K
    BY <1>1 DEF Children, TypeOK
  <2>2. Children(p)' = Children(p)
    BY <1>1, <2>1 DEF Children, Exists, TypeOK
  <2>3. \A c \in Children(p) : status[c] = "done"
    BY <1>1, <2>1, <2>2 DEF Children
  <2>4. QED
    BY <2>2, <2>3 DEF NoStrandedParent
<1>7. QED
  BY <1>2, <1>3, <1>4, <1>5, <1>6

\* createTask and splitTask insert well-formed rows.
LEMMA CreateStep ==
  ASSUME IInv, NEW t \in Tasks, NEW k \in Keys \cup {None}, NEW died \in BOOLEAN,
         CreateTask(t, k, died)
  PROVE  IInv'
<1>1. PICK r \in Requests[t] : r.parent \notin Absent /\ Insert([u \in {t} |-> r])
  BY DEF CreateTask
<1>2. [u \in {t} |-> r] \in [{t} -> Rows] /\ [u \in {t} |-> r][t] = r
  BY ConstantsAssumption
<1>3. {t} \subseteq Absent /\ NewRequest(k) /\ Remember(k, died)
  BY DEF CreateTask
<1>4. QED
  BY <1>1, <1>2, <1>3, InsertStep

\* splitTask adds open children, also under a parent that is done already.
LEMMA SplitStep ==
  ASSUME IInv, NEW p \in Tasks, NEW kids \in SUBSET Tasks, NEW k \in Keys \cup {None},
         NEW died \in BOOLEAN, SplitTask(p, kids, k, died)
  PROVE  IInv'
<1> DEFINE Under(ask) == [c \in kids |-> [ask[c] EXCEPT !.module = row[p].module]]
<1>1. PICK ask : /\ \A c \in kids : ask[c] \in Requests[c] /\ ask[c].parent = p
                 /\ Insert(Under(ask))
  BY DEF SplitTask
<1>2. Under(ask) \in [kids -> Rows]
  <2> SUFFICES ASSUME NEW c \in kids PROVE [ask[c] EXCEPT !.module = row[p].module] \in Rows
    OBVIOUS
  <2>1. ask[c] \in Rows /\ row[p] \in Rows
    BY <1>1, ConstantsAssumption DEF IInv, TypeOK
  <2>2. QED
    BY <2>1 DEF Rows
<1>3. kids \subseteq Absent /\ p \notin Absent /\ NewRequest(k) /\ Remember(k, died)
  BY DEF SplitTask, Absent
<1>4. \A c \in kids : Under(ask)[c].parent \notin Absent
  <2> SUFFICES ASSUME NEW c \in kids PROVE [ask[c] EXCEPT !.module = row[p].module].parent = p
    BY <1>3
  <2>1. ask[c] \in Rows
    BY <1>1, ConstantsAssumption
  <2>2. QED
    BY <1>1, <2>1 DEF Rows
<1> HIDE DEF Under
<1>5. QED
  BY <1>1, <1>2, <1>3, <1>4, InsertStep

\* claimTask reopens what has run out and hands out at most one ready task.
LEMMA ClaimStep ==
  ASSUME IInv, NEW a \in Agents, NEW stage \in Stages \cup {None}, NEW t \in Tasks,
         ClaimTask(a, stage, t)
  PROVE  IInv'
<1> USE ConstantsAssumption DEF IInv, ClaimTask, keyVars, toldVars
<1>1. StatusAfterRelease \in [Tasks -> {"absent", "open", "claimed", "done", "blocked", "cancelled"}]
  BY DEF StatusAfterRelease, TypeOK
<1>2. \A u \in Tasks : /\ StatusAfterRelease[u] = "done" <=> status[u] = "done"
                       /\ StatusAfterRelease[u] = "absent" <=> status[u] = "absent"
                       /\ StatusAfterRelease[u] = "claimed" => status[u] = "claimed" /\ u \notin Released
                       /\ status[u] # "claimed" => StatusAfterRelease[u] = status[u]
                       /\ u \in Released => StatusAfterRelease[u] = "open"
                       /\ u \notin Released => StatusAfterRelease[u] = status[u]
  BY DEF StatusAfterRelease, Released, TypeOK
<1>3. StatusAfterRelease[t] = "open" /\ \A d \in row[t].deps : StatusAfterRelease[d] = "done"
  BY DEF Ready
<1>4. row[t].deps \subseteq Tasks
  BY DEF TypeOK, Rows
<1>5. TypeOK'
  <2>1. \A u \in Tasks : owner'[u] # None <=> status'[u] = "claimed"
    BY <1>1, <1>2 DEF TypeOK
  <2>2. QED
    BY <1>1, <2>1 DEF TypeOK
<1>6. RowInv'
  BY <1>1, <1>2, <1>3 DEF RowInv, Exists, Absent
<1>7. OnceInv' /\ DoneInv' /\ KeyInv'
  BY <1>1, <1>2, <1>3 DEF OnceInv, DoneInv, KeyInv
<1>8. ClaimedAfterDependencies'
  <2> SUFFICES ASSUME NEW u \in Tasks, status'[u] = "claimed" PROVE row[u].deps \subseteq everDone
    BY DEF ClaimedAfterDependencies
  <2>1. CASE u = t
    BY <2>1, <1>2, <1>3, <1>4 DEF DoneInv
  <2>2. CASE u # t
    BY <2>2, <1>1, <1>2 DEF ClaimedAfterDependencies
  <2>3. QED
    BY <2>1, <2>2
<1>9. NoStrandedParent'
  <2>1. \A u \in Tasks : Exists(u) <=> Exists(u)'
    BY <1>1, <1>2, <1>3 DEF Exists
  <2>2. \A u \in Tasks : status'[u] = "done" => status[u] = "done"
    BY <1>1, <1>2
  <2>3. QED
    BY <2>1, <2>2, StrandedUnchanged
<1>10. QED
  BY <1>5, <1>6, <1>7, <1>8, <1>9

\* A claimTask that hands out nothing still reopens what has run out.
LEMMA ClaimNothingStep ==
  ASSUME IInv, NEW a \in Agents, NEW stage \in Stages \cup {None}, ClaimNothing(a, stage)
  PROVE  IInv'
<1> USE ConstantsAssumption DEF IInv, ClaimNothing, keyVars, toldVars
<1>1. \A u \in Tasks : status'[u] = IF u \in Released THEN "open" ELSE status[u]
  BY DEF StatusAfterRelease
<1>2. \A u \in Released : status[u] = "claimed"
  BY DEF Released
<1>3. status' \in [Tasks -> {"absent", "open", "claimed", "done", "blocked", "cancelled"}]
  BY DEF StatusAfterRelease, TypeOK
<1>4. TypeOK'
  <2>1. \A u \in Tasks : owner'[u] # None <=> status'[u] = "claimed"
    BY <1>1, <1>2 DEF TypeOK
  <2>2. QED
    BY <1>3, <2>1 DEF TypeOK
<1>5. RowInv'
  BY <1>1, <1>2 DEF RowInv, Exists, Absent
<1>6. OnceInv' /\ DoneInv' /\ KeyInv' /\ ClaimedAfterDependencies'
  BY <1>1, <1>2 DEF OnceInv, DoneInv, KeyInv, ClaimedAfterDependencies
<1>7. NoStrandedParent'
  <2>1. \A u \in Tasks : Exists(u) <=> Exists(u)'
    BY <1>1, <1>2 DEF Exists
  <2>2. \A u \in Tasks : status'[u] = "done" => status[u] = "done"
    BY <1>1, <1>2
  <2>3. QED
    BY <2>1, <2>2, StrandedUnchanged
<1>8. QED
  BY <1>4, <1>5, <1>6, <1>7

\* blockTask and cancelTask take a task out of the queue.
LEMMA WithdrawStep ==
  ASSUME IInv, NEW a \in Agents, NEW t \in Tasks, NEW to \in {"blocked", "cancelled"},
         Withdraw(a, t, to)
  PROVE  IInv'
<1> USE ConstantsAssumption DEF IInv, Withdraw, keyVars, toldVars
<1>1. TypeOK'
  BY DEF TypeOK
<1>2. RowInv'
  BY DEF RowInv, Exists, Absent, TypeOK
<1>3. OnceInv' /\ DoneInv' /\ KeyInv' /\ ClaimedAfterDependencies'
  BY DEF OnceInv, DoneInv, KeyInv, ClaimedAfterDependencies, TypeOK
<1>4. NoStrandedParent'
  <2>1. \A u \in Tasks : Exists(u) <=> Exists(u)'
    BY DEF Exists, TypeOK
  <2>2. \A u \in Tasks : status'[u] = "done" => status[u] = "done"
    BY DEF TypeOK
  <2>3. QED
    BY <2>1, <2>2, StrandedUnchanged
<1>5. QED
  BY <1>1, <1>2, <1>3, <1>4

\* What maybeAutocompleteParent finishes is closed: it holds the completed task,
\* and every parent whose children are all in it or done.
LEMMA CompletedIsUpward ==
  ASSUME NEW t \in Tasks
  PROVE  t \in Completed(t) /\ Upward(Completed(t)) /\ Completed(t) \subseteq Tasks
<1> DEFINE all == Completed(t)
<1>1. t \in all /\ all \subseteq Tasks
  BY DEF Completed
<1>2. ASSUME NEW p \in Tasks, NEW c \in all, row[c].parent = p,
             \A d \in Children(p) : d \in all \/ status[d] = "done"
      PROVE  p \in all
  <2> SUFFICES ASSUME NEW S \in SUBSET Tasks, t \in S, Upward(S) PROVE p \in S
    BY DEF Completed
  <2>1. all \subseteq S
    BY DEF Completed
  <2>2. c \in S /\ \A d \in Children(p) : d \in S \/ status[d] = "done"
    BY <1>2, <2>1
  <2>3. QED
    BY <1>2, <2>2 DEF Upward, Follows
<1> HIDE DEF all
<1>3. Upward(all)
  BY <1>2 DEF Upward, Follows
<1>4. QED
  BY <1>1, <1>3 DEF all

\* Only tasks that exist are finished.
LEMMA CompletedExists ==
  ASSUME RowInv, NEW t \in Tasks, Exists(t)
  PROVE  \A u \in Completed(t) : Exists(u)
<1> DEFINE S == {u \in Tasks : Exists(u)}
<1>1. Upward(S)
  BY DEF Upward, Follows, RowInv, Absent
<1>2. Completed(t) \subseteq S
  BY <1>1 DEF Completed
<1>3. QED
  BY <1>2

\* completeTask, with or without a crash on the way up.
LEMMA CompleteStep ==
  ASSUME IInv, NEW a \in Agents, NEW t \in Tasks, NEW k \in Keys \cup {None},
         NEW died \in BOOLEAN, CompleteTask(a, t, k, died)
  PROVE  IInv'
<1> USE ConstantsAssumption DEF IInv
<1>1. status[t] = "claimed" /\ Exists(t)
  BY DEF CompleteTask, Holds, Exists
<1> DEFINE all == Completed(t)
<1>2. t \in all /\ Upward(all) /\ all \subseteq Tasks /\ \A u \in all : Exists(u)
  BY <1>1, CompletedIsUpward, CompletedExists
<1>3. PICK D : /\ D \subseteq all /\ t \in D
               /\ status' = [u \in Tasks |-> IF u \in D THEN "done" ELSE status[u]]
               /\ owner' = [u \in Tasks |-> IF u \in D THEN None ELSE owner[u]]
               /\ expired' = [u \in Tasks |-> expired[u] /\ u \notin D]
               /\ everDone' = everDone \cup D
               /\ interrupted' = (interrupted \/ D # all)
  BY <1>2 DEF CompleteTask, Partial
<1>4. /\ completions' = [completions EXCEPT ![t] = @ + 1]
      /\ UNCHANGED <<row, createdAt, clock, alive, lapses>>
      /\ NewRequest(k) /\ Remember(k, died)
  BY DEF CompleteTask
<1>5. affinity' \in [Agents -> [Modules -> [source : {"none", "earned", "declared"}, count : Nat]]]
  <2>1. CASE row[t].module # None /\ RecordCompletion(a, row[t].module)
    <3>1. row[t].module \in Modules
      BY <2>1 DEF TypeOK, Rows
    <3>2. QED
      BY <2>1, <3>1 DEF TypeOK, RecordCompletion
  <2>2. CASE UNCHANGED affinity
    BY <2>2 DEF TypeOK
  <2>3. QED
    BY <2>1, <2>2 DEF CompleteTask
<1> HIDE DEF all
<1>6. D \subseteq Tasks /\ \A u \in Tasks : Exists(u) <=> Exists(u)'
  BY <1>2, <1>3 DEF Exists
<1>7. TypeOK' /\ KeyInv'
  <2>1. /\ KeyInv'
        /\ cache' \in [Keys -> BOOLEAN] /\ acted' \in [Keys -> Nat]
        /\ forgotten' \subseteq Keys /\ crashes' \in Nat
    BY <1>4, RememberKeys
  <2>2. status' \in [Tasks -> {"absent", "open", "claimed", "done", "blocked", "cancelled"}]
    BY <1>3 DEF TypeOK
  <2>3. expired' \in [Tasks -> BOOLEAN]
    BY <1>3
  <2>4. interrupted' \in BOOLEAN
    BY <1>3
  <2>5. \A u \in Tasks : owner'[u] # None <=> status'[u] = "claimed"
    BY <1>3 DEF TypeOK
  <2>6. owner' \in [Tasks -> Agents \cup {None}] /\ completions' \in [Tasks -> Nat]
    BY <1>3, <1>4 DEF TypeOK
  <2>7. everDone' \subseteq Tasks
    BY <1>3, <1>6 DEF TypeOK
  <2>8. QED
    BY <1>4, <1>5, <2>1, <2>2, <2>3, <2>4, <2>5, <2>6, <2>7 DEF TypeOK
<1>8. RowInv'
  BY <1>4, <1>6 DEF RowInv, Absent
<1>9. OnceInv' /\ DoneInv'
  BY <1>1, <1>3, <1>4 DEF OnceInv, DoneInv, TypeOK
<1>10. ClaimedAfterDependencies'
  BY <1>3, <1>4 DEF ClaimedAfterDependencies
<1>11. NoStrandedParent'
  <2> SUFFICES ASSUME NEW p \in Tasks, Children(p)' # {},
                      \A c \in Children(p)' : status'[c] = "done"
               PROVE  p \in everDone' \/ interrupted'
    BY DEF NoStrandedParent
  <2>1. Children(p)' = Children(p)
    BY <1>4, <1>6 DEF Children
  <2>2. \A c \in Children(p) : c \in D \/ status[c] = "done"
    BY <1>3, <2>1 DEF Children
  <2>3. CASE Children(p) \cap D = {}
    BY <1>3, <2>1, <2>2, <2>3 DEF NoStrandedParent
  <2>4. CASE Children(p) \cap D # {} /\ D = all
    BY <1>2, <1>3, <2>2, <2>4 DEF Upward, Follows, Children
  <2>5. CASE D # all
    BY <1>3, <2>5
  <2>6. QED
    BY <2>3, <2>4, <2>5
<1>12. QED
  BY <1>7, <1>8, <1>9, <1>10, <1>11

\* The steps that leave status, rows and answers alone.
LEMMA QuietStep ==
  ASSUME IInv, TypeOK', UNCHANGED <<status, row, completions, everDone, interrupted, acted>>,
         \/ UNCHANGED <<cache, forgotten>>
         \/ \E k \in Keys : KeyExpires(k)
  PROVE  IInv'
<1> USE DEF IInv
<1>1. RowInv' /\ OnceInv' /\ DoneInv' /\ ClaimedAfterDependencies'
  BY DEF RowInv, Exists, Absent, OnceInv, DoneInv, ClaimedAfterDependencies
<1>2. KeyInv'
  <2>1. CASE UNCHANGED <<cache, forgotten>>
    BY <2>1 DEF KeyInv
  <2>2. ASSUME NEW k \in Keys, KeyExpires(k) PROVE KeyInv'
    <3> SUFFICES ASSUME NEW j \in Keys
                 PROVE  acted[j] = 0 \/ (acted[j] = 1 /\ cache'[j]) \/ j \in forgotten'
      BY DEF KeyInv
    <3>1. CASE j = k
      BY <2>2, <3>1 DEF KeyExpires
    <3>2. CASE j # k
      BY <2>2, <3>2 DEF KeyExpires, KeyInv, TypeOK
    <3>3. QED
      BY <3>1, <3>2
  <2>3. QED
    BY <2>1, <2>2
<1>3. NoStrandedParent'
  BY StrandedUnchanged DEF Exists
<1>4. QED
  BY <1>1, <1>2, <1>3

Affinities == [source : {"none", "earned", "declared"}, count : Nat]

\* Every step of the system keeps the invariant.
LEMMA NextHolds == ASSUME IInv, [Next]_vars PROVE IInv'
<1> USE ConstantsAssumption DEF rowVars, keyVars, toldVars
<1>1. ASSUME NEW t \in Tasks, NEW k \in Keys \cup {None}, NEW died \in BOOLEAN,
             CreateTask(t, k, died)
      PROVE  IInv'
  BY <1>1, CreateStep
<1>2. ASSUME NEW p \in Tasks, NEW kids \in SUBSET Tasks, NEW k \in Keys \cup {None},
             NEW died \in BOOLEAN, SplitTask(p, kids, k, died)
      PROVE  IInv'
  BY <1>2, SplitStep
<1>3. ASSUME NEW a \in Agents, NEW stage \in Stages \cup {None}, ClaimNothing(a, stage) PROVE IInv'
  BY <1>3, ClaimNothingStep
<1>4. ASSUME NEW a \in Agents, NEW stage \in Stages \cup {None}, NEW t \in Tasks,
             ClaimTask(a, stage, t)
      PROVE  IInv'
  BY <1>4, ClaimStep
<1>5. ASSUME NEW a \in Agents, NEW t \in Tasks, NEW k \in Keys \cup {None},
             NEW died \in BOOLEAN, CompleteTask(a, t, k, died)
      PROVE  IInv'
  BY <1>5, CompleteStep
<1>6. ASSUME NEW a \in Agents, NEW t \in Tasks, Heartbeat(a, t) PROVE IInv'
  <2>1. TypeOK'
    BY <1>6 DEF Heartbeat, TypeOK, IInv
  <2>2. QED
    BY <1>6, <2>1, QuietStep DEF Heartbeat
<1>7. ASSUME NEW a \in Withdrawers, NEW t \in Tasks, BlockTask(a, t) \/ CancelTask(a, t) PROVE IInv'
  BY <1>7, WithdrawStep DEF BlockTask, CancelTask
<1>8. ASSUME NEW a \in Agents, NEW m \in Modules, DeclareOwnership(a, m) PROVE IInv'
  <2>1. affinity' \in [Agents -> [Modules -> Affinities]]
    <3>1. affinity[a] \in [Modules -> Affinities] /\ affinity[a][m] \in Affinities
      BY DEF TypeOK, IInv, Affinities
    <3>2. [affinity[a][m] EXCEPT !.source = "declared"] \in Affinities
      BY <3>1 DEF Affinities
    <3>3. affinity' = [affinity EXCEPT ![a] = [affinity[a] EXCEPT ![m] =
                        [affinity[a][m] EXCEPT !.source = "declared"]]]
      BY <1>8 DEF DeclareOwnership
    <3>4. QED
      BY <3>1, <3>2, <3>3 DEF TypeOK, IInv, Affinities
  <2>2. TypeOK'
    BY <1>8, <2>1 DEF DeclareOwnership, TypeOK, IInv, Affinities
  <2>3. QED
    BY <1>8, <2>2, QuietStep DEF DeclareOwnership
<1>9. ASSUME NEW a \in Agents, ForgetAgent(a) \/ AgentStops(a) PROVE IInv'
  <2>1. [m \in Modules |-> [source |-> "none", count |-> 0]] \in [Modules -> Affinities]
    BY DEF Affinities
  <2>2. affinity' \in [Agents -> [Modules -> Affinities]]
    BY <1>9, <2>1 DEF ForgetAgent, AgentStops, TypeOK, IInv, Affinities
  <2>3. alive' \in [Agents -> BOOLEAN]
    BY <1>9 DEF ForgetAgent, AgentStops, TypeOK, IInv
  <2>4. TypeOK'
    BY <1>9, <2>2, <2>3 DEF ForgetAgent, AgentStops, TypeOK, IInv, Affinities
  <2>5. QED
    BY <1>9, <2>4, QuietStep DEF ForgetAgent, AgentStops
<1>10. ASSUME NEW t \in Tasks, LeaseLapses(t) PROVE IInv'
  <2>1. TypeOK'
    BY <1>10 DEF LeaseLapses, TypeOK, IInv
  <2>2. QED
    BY <1>10, <2>1, QuietStep DEF LeaseLapses
<1>11. ASSUME NEW k \in Keys, KeyExpires(k) PROVE IInv'
  <2>1. TypeOK'
    BY <1>11 DEF KeyExpires, TypeOK, IInv
  <2>2. QED
    BY <1>11, <2>1, QuietStep DEF KeyExpires
<1>12. CASE UNCHANGED vars
  <2>1. TypeOK'
    BY <1>12 DEF vars, TypeOK, IInv
  <2>2. QED
    BY <1>12, <2>1, QuietStep DEF vars
<1>13. QED
  BY <1>1, <1>2, <1>3, <1>4, <1>5, <1>6, <1>7, <1>8, <1>9, <1>10, <1>11, <1>12 DEF Next

\* The invariant holds throughout: initially, and after every step.
LEMMA IInvHolds == Spec => []IInv
<1>1. Init => IInv
  BY InitHolds
<1>2. IInv /\ [Next]_vars => IInv'
  BY NextHolds
<1>3. QED
  BY <1>1, <1>2, PTL DEF Spec

\* The columns of the task table stay well typed, and only a claimed task has an owner.
THEOREM TaskTableTypes == Spec => []TypeOK
<1>1. IInv => TypeOK
  BY DEF IInv
<1>2. QED
  BY <1>1, IInvHolds, PTL

\* completeTask accepts one completion of a task, whatever leases run out before.
THEOREM OneCompletion == Spec => []CompletedOnce
<1>1. IInv => CompletedOnce
  BY DEF IInv, OnceInv, CompletedOnce
<1>2. QED
  BY <1>1, IInvHolds, PTL

\* claimTask hands out a task only after all its dependencies were done.
THEOREM DependenciesFirst == Spec => []ClaimedAfterDependencies
<1>1. IInv => ClaimedAfterDependencies
  BY DEF IInv
<1>2. QED
  BY <1>1, IInvHolds, PTL

\* maybeAutocompleteParent leaves no parent behind, for a tree of any depth.
THEOREM ParentsFollow == Spec => []NoStrandedParent
<1>1. IInv => NoStrandedParent
  BY DEF IInv
<1>2. QED
  BY <1>1, IInvHolds, PTL

\* A keyed request takes effect once while its answer is kept.
THEOREM KeysActOnce == Spec => []KeyActsOnce
<1>1. IInv => KeyActsOnce
  BY DEF IInv, KeyInv, KeyActsOnce
<1>2. QED
  BY <1>1, IInvHolds, PTL

-----------------------------------------------------------------------------
(* The work happens in order.                                              *)

\* A completed task was done after what it depends on: together with
\* ClaimedAfterDependencies, no agent finishes work ahead of its turn either,
\* though its lease may have run out and its dependencies been withdrawn since.
WorkInOrder == \A t \in Tasks : completions[t] > 0 => row[t].deps \subseteq everDone

\* The row of a completed task stays, and everDone grows.
LEMMA OrderStep == ASSUME IInv, IInv', WorkInOrder, [Next]_vars PROVE WorkInOrder'
<1> USE DEF rowVars, keyVars, toldVars
<1>1. ASSUME NEW a \in Agents, NEW t \in Tasks, NEW k \in Keys \cup {None},
             NEW died \in BOOLEAN, CompleteTask(a, t, k, died)
      PROVE  WorkInOrder'
  <2>1. row[t].deps \subseteq everDone
    BY <1>1 DEF CompleteTask, Holds, IInv, ClaimedAfterDependencies
  <2>2. everDone \subseteq everDone' /\ row' = row
        /\ completions' = [completions EXCEPT ![t] = @ + 1]
    BY <1>1 DEF CompleteTask
  <2>3. \A u \in Tasks : u # t => completions'[u] = completions[u]
    BY <2>2 DEF IInv, TypeOK
  <2> QED
    BY <2>1, <2>2, <2>3 DEF WorkInOrder
<1>2. ASSUME UNCHANGED <<completions, everDone>>,
             \A u \in Tasks : row'[u] = row[u] \/ status[u] = "absent"
      PROVE  WorkInOrder'
  <2> SUFFICES ASSUME NEW u \in Tasks, completions'[u] > 0 PROVE row'[u].deps \subseteq everDone'
    BY DEF WorkInOrder
  <2>1. completions[u] # 0
    BY <1>2 DEF IInv, TypeOK
  <2>2. row'[u] = row[u]
    BY <1>2, <2>1 DEF IInv, OnceInv
  <2> QED
    BY <1>2, <2>2 DEF WorkInOrder
<1>3. ASSUME NEW K, NEW ask, DOMAIN ask = K, K \subseteq Absent, Insert(ask) PROVE WorkInOrder'
  BY <1>2, <1>3 DEF Insert, Absent, Exists
<1>4. ASSUME NEW t \in Tasks, NEW k \in Keys \cup {None}, NEW died \in BOOLEAN,
             CreateTask(t, k, died)
      PROVE  WorkInOrder'
  <2>1. PICK r \in Requests[t] : Insert([u \in {t} |-> r])
    BY <1>4 DEF CreateTask
  <2> QED
    BY <1>3, <1>4, <2>1 DEF CreateTask
<1>5. ASSUME NEW p \in Tasks, NEW kids \in SUBSET Tasks, NEW k \in Keys \cup {None},
             NEW died \in BOOLEAN, SplitTask(p, kids, k, died)
      PROVE  WorkInOrder'
  <2>1. PICK ask : Insert([c \in kids |-> [ask[c] EXCEPT !.module = row[p].module]])
    BY <1>5 DEF SplitTask
  <2> QED
    BY <1>3, <1>5, <2>1 DEF SplitTask
<1>6. ASSUME \/ \E a \in Agents, stage \in Stages \cup {None} :
                  ClaimNothing(a, stage) \/ \E t \in Tasks : ClaimTask(a, stage, t)
             \/ \E a \in Agents, t \in Tasks : Heartbeat(a, t)
             \/ \E a \in Withdrawers, t \in Tasks : BlockTask(a, t) \/ CancelTask(a, t)
             \/ \E a \in Agents, m \in Modules : DeclareOwnership(a, m)
             \/ \E a \in Agents : ForgetAgent(a) \/ AgentStops(a)
             \/ \E t \in Tasks : LeaseLapses(t)
             \/ \E k \in Keys : KeyExpires(k)
             \/ UNCHANGED vars
      PROVE  UNCHANGED <<completions, everDone, row>>
  BY <1>6 DEF ClaimNothing, ClaimTask, Heartbeat, BlockTask, CancelTask, Withdraw,
              DeclareOwnership, ForgetAgent, AgentStops, LeaseLapses, KeyExpires, vars
<1> QED
  BY <1>1, <1>2, <1>4, <1>5, <1>6 DEF Next

\* For any dependencies, leases and crashes.
THEOREM InOrder == Spec => []WorkInOrder
<1>1. Init => WorkInOrder
  BY DEF Init, WorkInOrder
<1> QED
  BY <1>1, OrderStep, IInvHolds, PTL DEF Spec

-----------------------------------------------------------------------------
(* Unfinished work does not wait for itself.  A part comes after the whole *)
(* and a task after what it depends on.  So of any tasks some one has no   *)
(* part among them, and some one depends on none of them.  Go down from    *)
(* wholes to parts as long as there is open work inside: the lowest whole  *)
(* has open parts that have no open parts themselves.  Where no part is    *)
(* entangled they depend on each other at most, and one of them is ready.  *)

\* Rows refer to rows that were there before them.
OrderedInv ==
  /\ \A t \in Tasks \ Absent : row[t].deps \cap Absent = {}
  /\ \A S \in SUBSET (Tasks \ Absent) : S # {} =>
       /\ \E t \in S : \A u \in S : row[u].parent # t
       /\ \E t \in S : \A u \in S : u \notin row[t].deps

\* New rows refer to old ones.
LEMMA InsertOrdered ==
  ASSUME RowInv, OrderedInv, NEW K \in SUBSET Absent, NEW ask, DOMAIN ask = K, Insert(ask),
         \A t \in K : ask[t].deps \cap Absent = {} /\ ask[t].parent \notin Absent
  PROVE  OrderedInv'
<1>1. /\ \A t \in Tasks : row'[t] = IF t \in K THEN ask[t] ELSE row[t]
      /\ Absent' = Absent \ K /\ Absent \subseteq Tasks
  BY DEF Insert, Absent, Exists
<1>2. \A t \in Tasks \ Absent : row[t].parent \notin Absent /\ row[t].deps \cap Absent = {}
  BY DEF RowInv, OrderedInv, Absent
<1>3. ASSUME NEW t \in Tasks \ (Absent \ K) PROVE row'[t].deps \cap (Absent \ K) = {}
  BY <1>1, <1>2
<1>4. ASSUME NEW S \in SUBSET (Tasks \ (Absent \ K)), S # {}
      PROVE  \E t \in S : \A u \in S : row'[u].parent # t
  <2>1. CASE S \cap K = {}
    <3>1. S \in SUBSET (Tasks \ Absent) /\ \A u \in S : row'[u] = row[u]
      BY <1>1, <2>1
    <3>2. PICK t \in S : \A u \in S : row[u].parent # t
      BY <1>4, <3>1 DEF OrderedInv
    <3>3. QED
      BY <3>1, <3>2
  <2>2. ASSUME NEW t \in S \cap K, NEW u \in S PROVE row'[u].parent # t
    BY <1>1, <1>2
  <2>3. QED
    BY <2>1, <2>2
<1>5. ASSUME NEW S \in SUBSET (Tasks \ (Absent \ K)), S # {}
      PROVE  \E t \in S : \A u \in S : u \notin row'[t].deps
  <2>1. CASE S \subseteq K
    BY <1>1, <1>5, <2>1
  <2>2. CASE S \ K # {}
    <3>1. S \ K \in SUBSET (Tasks \ Absent) /\ \A t \in S \ K : row'[t] = row[t]
      BY <1>1
    <3>2. PICK t \in S \ K : \A u \in S \ K : u \notin row[t].deps
      BY <2>2, <3>1 DEF OrderedInv
    <3>3. \A u \in K : u \notin row[t].deps
      BY <1>2, <3>1
    <3>4. QED
      BY <3>1, <3>2, <3>3
  <2>3. QED
    BY <2>1, <2>2
<1>6. Tasks \ Absent' = Tasks \ (Absent \ K)
  BY <1>1
<1>7. \A t \in Tasks \ Absent' : row'[t].deps \cap Absent' = {}
  BY <1>1, <1>3, <1>6
<1>8. \A S \in SUBSET (Tasks \ Absent') : S # {} =>
        /\ \E t \in S : \A u \in S : row'[u].parent # t
        /\ \E t \in S : \A u \in S : u \notin row'[t].deps
  BY <1>4, <1>5, <1>6
<1>9. QED
  BY <1>7, <1>8 DEF OrderedInv

\* Rows stay as they are.
LEMMA OrderedStep == ASSUME IInv, OrderedInv, [Next]_vars PROVE OrderedInv'
<1> USE DEF rowVars, keyVars, toldVars
<1>1. ASSUME UNCHANGED row, Absent' = Absent PROVE OrderedInv'
  BY <1>1 DEF OrderedInv
<1>2. RowInv /\ None \notin Absent
  BY ConstantsAssumption DEF IInv, Absent
<1>3. ASSUME NEW t \in Tasks, NEW k \in Keys \cup {None}, NEW died \in BOOLEAN,
             CreateTask(t, k, died)
      PROVE  OrderedInv'
  <2>1. PICK r \in Requests[t] :
          r.deps \cap Absent = {} /\ r.parent \notin Absent /\ Insert([u \in {t} |-> r])
    BY <1>3 DEF CreateTask
  <2>2. {t} \in SUBSET Absent
    BY <1>3 DEF CreateTask
  <2> QED
    BY <1>2, <2>1, <2>2, InsertOrdered
<1>4. ASSUME NEW p \in Tasks, NEW kids \in SUBSET Tasks, NEW k \in Keys \cup {None},
             NEW died \in BOOLEAN, SplitTask(p, kids, k, died)
      PROVE  OrderedInv'
  <2>1. PICK ask \in [kids -> UNION {Requests[c] : c \in kids}] :
          /\ \A c \in kids : ask[c] \in Requests[c] /\ ask[c].parent = p /\ ask[c].deps = {}
          /\ Insert([c \in kids |-> [ask[c] EXCEPT !.module = row[p].module]])
    BY <1>4 DEF SplitTask
  <2> DEFINE rows == [c \in kids |-> [ask[c] EXCEPT !.module = row[p].module]]
  <2>2. ASSUME NEW c \in kids PROVE rows[c].parent = p /\ rows[c].deps = {}
    <3>1. ask[c] \in Rows
      BY <2>1, ConstantsAssumption
    <3> QED
      BY <2>1, <3>1 DEF Rows
  <2>3. DOMAIN rows = kids /\ Insert(rows) /\ kids \in SUBSET Absent /\ p \notin Absent
    BY <1>4, <2>1 DEF SplitTask, Absent
  <2> HIDE DEF rows
  <2>4. \A c \in kids : rows[c].deps \cap Absent = {} /\ rows[c].parent \notin Absent
    BY <2>2, <2>3
  <2> QED
    BY <1>2, <2>3, <2>4, InsertOrdered
<1>5. ASSUME NEW a \in Agents, NEW t \in Tasks, NEW k \in Keys \cup {None},
             NEW died \in BOOLEAN, CompleteTask(a, t, k, died)
      PROVE  UNCHANGED row /\ Absent' = Absent
  <2>1. UNCHANGED row /\ Exists(t)
    BY <1>5 DEF CompleteTask, Holds, Exists
  <2>2. \A u \in Completed(t) : Exists(u)
    BY <2>1, CompletedExists DEF IInv
  <2>3. PICK D : D \subseteq Completed(t)
                 /\ status' = [u \in Tasks |-> IF u \in D THEN "done" ELSE status[u]]
    BY <1>5 DEF CompleteTask, Partial
  <2>4. \A u \in Tasks : Exists(u)' <=> Exists(u)
    BY <2>2, <2>3 DEF Exists
  <2> QED
    BY <2>1, <2>4 DEF Absent
<1>6. ASSUME \/ \E a \in Agents, t \in Tasks : Heartbeat(a, t)
             \/ \E a \in Agents, m \in Modules : DeclareOwnership(a, m)
             \/ \E a \in Agents : ForgetAgent(a) \/ AgentStops(a)
             \/ \E t \in Tasks : LeaseLapses(t)
             \/ \E k \in Keys : KeyExpires(k)
             \/ UNCHANGED vars
      PROVE  UNCHANGED <<row, status>>
  BY <1>6 DEF Heartbeat, DeclareOwnership, ForgetAgent, AgentStops, LeaseLapses, KeyExpires, vars
<1>7. \A u \in Tasks : (StatusAfterRelease[u] # "absent") <=> Exists(u)
  BY DEF StatusAfterRelease, Released, Exists
<1>8. ASSUME NEW a \in Agents, NEW stage \in Stages \cup {None},
             ClaimNothing(a, stage) \/ \E t \in Tasks : ClaimTask(a, stage, t)
      PROVE  UNCHANGED row /\ Absent' = Absent
  <2>1. CASE ClaimNothing(a, stage)
    BY <1>7, <2>1 DEF ClaimNothing, Absent, Exists
  <2>2. ASSUME NEW t \in Tasks, ClaimTask(a, stage, t) PROVE UNCHANGED row /\ Absent' = Absent
    <3>1. /\ status' = [StatusAfterRelease EXCEPT ![t] = "claimed"] /\ UNCHANGED row
          /\ StatusAfterRelease[t] = "open"
      BY <2>2 DEF ClaimTask, Ready
    <3>2. \A u \in Tasks : Exists(u)' <=> Exists(u)
      BY <1>7, <3>1 DEF Exists, StatusAfterRelease
    <3> QED
      BY <3>1, <3>2 DEF Absent
  <2> QED
    BY <1>8, <2>1, <2>2
<1>9. ASSUME NEW a \in Withdrawers, NEW t \in Tasks, BlockTask(a, t) \/ CancelTask(a, t)
      PROVE  UNCHANGED row /\ Absent' = Absent
  BY <1>9 DEF BlockTask, CancelTask, Withdraw, Absent, Exists, IInv, TypeOK
<1> QED
  BY <1>1, <1>3, <1>4, <1>5, <1>6, <1>8, <1>9 DEF Next, Absent, Exists

\* A part is inside the whole, and so are the parts of what is inside.
LEMMA PartIsInside ==
  ASSUME NEW p, NEW c \in Tasks, Exists(c), row[c].parent \in Inside(p) \cup {p}
  PROVE  c \in Inside(p)
<1>1. ASSUME NEW S \in SUBSET Tasks,
             \A u \in Tasks : Exists(u) /\ row[u].parent \in S \cup {p} => u \in S
      PROVE  c \in S
  <2>1. row[c].parent \in S \cup {p}
    BY <1>1 DEF Inside
  <2> QED
    BY <1>1, <2>1
<1> QED
  BY <1>1 DEF Inside

\* What is inside is a part, or inside of one.
LEMMA InsideAPart ==
  ASSUME NEW p, NEW x \in Inside(p)
  PROVE  x \in Children(p) \/ \E c \in Children(p) : x \in Inside(c)
<1> DEFINE X == Children(p) \cup {u \in Tasks : \E c \in Children(p) : u \in Inside(c)}
<1>1. X \in SUBSET Tasks
  BY DEF Children
<1>2. ASSUME NEW c \in Tasks, Exists(c), row[c].parent \in X \cup {p} PROVE c \in X
  <2>1. CASE row[c].parent = p
    BY <1>2, <2>1 DEF Children
  <2>2. CASE row[c].parent \in Children(p)
    BY <1>2, <2>2, PartIsInside
  <2>3. ASSUME NEW k \in Children(p), row[c].parent \in Inside(k) PROVE c \in X
    BY <1>2, <2>3, PartIsInside
  <2> QED
    BY <1>2, <2>1, <2>2, <2>3
<1> HIDE DEF X
<1>3. x \in X
  BY <1>1, <1>2 DEF Inside
<1> QED
  BY <1>3 DEF X

\* For any tasks and requests, agents, leases, withdrawals and crashes: what is
\* left of the work never waits for itself, but where a part waits for what is
\* outside of its whole (createTask, service.ts 95-158).
THEOREM SomeWorkIsReady == Spec => []WorkIsReady
<1>1. ASSUME TypeOK, OrderedInv,
             \E t \in Tasks : status[t] = "open",
             \A t \in Tasks : status[t] \in {"absent", "open", "done"},
             \A u \in Tasks : ~Entangled(u)
      PROVE  Ready(status, None) # {}
  <2> DEFINE S == {t \in Tasks : status[t] = "open"}
             Q == {q \in Tasks \ Absent : Inside(q) \cap S # {}}
  <2>1. /\ S # {} /\ S \in SUBSET (Tasks \ Absent) /\ None \notin Tasks
        /\ \A u \in Tasks \ Absent : status[u] = "done" \/ u \in S
    BY <1>1, ConstantsAssumption DEF Absent, Exists
  <2>2. \A t \in S : row[t].deps \subseteq Tasks \ Absent
    BY <1>1, <2>1 DEF OrderedInv, TypeOK, Rows
  <2>3. \A p : Children(p) \subseteq Tasks \ Absent
    BY DEF Children, Absent
  <2>4. \A p : Children(p) \subseteq Inside(p)
    BY PartIsInside DEF Children
  <2>5. ASSUME NEW t \in S, \A d \in row[t].deps : d \notin S, t \notin Q
        PROVE  t \in Ready(status, None)
    <3>1. \A d \in row[t].deps : status[d] = "done"
      BY <2>1, <2>2, <2>5
    <3>2. \A c \in Children(t) : status[c] = "done"
      BY <2>1, <2>3, <2>4, <2>5
    <3> QED
      BY <3>1, <3>2 DEF Ready
  <2>6. CASE Q = {}
    <3>1. PICK t \in S : \A u \in S : u \notin row[t].deps
      BY <1>1, <2>1 DEF OrderedInv
    <3> QED
      BY <2>5, <2>6, <3>1
  <2>7. CASE Q # {}
    <3>1. PICK q \in Q : \A u \in Q : row[u].parent # q
      <4>1. Q \in SUBSET (Tasks \ Absent)
        OBVIOUS
      <4> QED
        BY <1>1, <2>7, <4>1 DEF OrderedInv
    <3>2. \A c \in Children(q) : c \notin Q
      BY <3>1 DEF Children
    <3>3. Inside(q) \cap S \subseteq Children(q)
      BY <2>3, <3>2, InsideAPart
    <3>4. PICK t \in Children(q) \cap S : \A u \in Children(q) \cap S : u \notin row[t].deps
      <4>1. Children(q) \cap S # {} /\ Children(q) \cap S \in SUBSET (Tasks \ Absent)
        BY <2>1, <3>1, <3>3
      <4> QED
        BY <1>1, <4>1 DEF OrderedInv
    <3>5. ASSUME NEW d \in row[t].deps PROVE d \notin S
      <4>1. row[t].parent = q /\ q # None /\ status[t] = "open" /\ t \in Tasks
        BY <2>1, <3>1, <3>4 DEF Children
      <4>2. status[d] = "open" => d \in Inside(q)
        BY <1>1, <4>1 DEF Entangled
      <4> QED
        BY <3>3, <3>4, <4>2
    <3> QED
      BY <2>5, <3>2, <3>4, <3>5
  <2> QED
    BY <2>6, <2>7
<1>2. TypeOK /\ OrderedInv => WorkIsReady
  BY <1>1 DEF WorkIsReady
<1>3. Init => OrderedInv
  BY DEF Init, OrderedInv, Absent, Exists
<1>4. IInv => TypeOK
  BY DEF IInv
<1> QED
  BY <1>2, <1>3, <1>4, OrderedStep, IInvHolds, PTL DEF Spec

-----------------------------------------------------------------------------
(* The refinement: the task table implements TaskBoard.                    *)

\* Only the lease of a claimed task can have run out.
LateInv == \A t \in Tasks : expired[t] => status[t] = "claimed"

LEMMA LateStep == ASSUME TypeOK, LateInv, [Next]_vars PROVE LateInv'
<1> USE DEF rowVars, keyVars, toldVars, LateInv
<1>1. ASSUME NEW K, NEW ask, DOMAIN ask = K, K \subseteq Absent, Insert(ask) PROVE LateInv'
  BY <1>1 DEF Insert, Absent, Exists
<1>2. ASSUME NEW t \in Tasks, NEW k \in Keys \cup {None}, NEW died \in BOOLEAN,
             CreateTask(t, k, died)
      PROVE  LateInv'
  <2>1. PICK r \in Requests[t] : Insert([u \in {t} |-> r])
    BY <1>2 DEF CreateTask
  <2> QED
    BY <1>1, <1>2, <2>1 DEF CreateTask
<1>3. ASSUME NEW p \in Tasks, NEW kids \in SUBSET Tasks, NEW k \in Keys \cup {None},
             NEW died \in BOOLEAN, SplitTask(p, kids, k, died)
      PROVE  LateInv'
  <2>1. PICK ask : Insert([c \in kids |-> [ask[c] EXCEPT !.module = row[p].module]])
    BY <1>3 DEF SplitTask
  <2> QED
    BY <1>1, <1>3, <2>1 DEF SplitTask
<1>4. ASSUME NEW a \in Agents, NEW stage \in Stages \cup {None},
             ClaimNothing(a, stage) \/ \E t \in Tasks : ClaimTask(a, stage, t)
      PROVE  LateInv'
  BY <1>4 DEF ClaimNothing, ClaimTask, Released, TypeOK
<1>5. ASSUME NEW a \in Agents, NEW t \in Tasks, NEW k \in Keys \cup {None},
             NEW died \in BOOLEAN, CompleteTask(a, t, k, died)
      PROVE  LateInv'
  BY <1>5 DEF CompleteTask
<1>6. ASSUME NEW t \in Tasks,
             LeaseLapses(t) \/ \E a \in Agents : Heartbeat(a, t) \/ BlockTask(a, t) \/ CancelTask(a, t)
      PROVE  LateInv'
  BY <1>6 DEF Heartbeat, BlockTask, CancelTask, Withdraw, LeaseLapses, TypeOK
<1>7. ASSUME \/ \E a \in Agents, m \in Modules : DeclareOwnership(a, m)
             \/ \E a \in Agents : ForgetAgent(a) \/ AgentStops(a)
             \/ \E k \in Keys : KeyExpires(k)
             \/ UNCHANGED vars
      PROVE  LateInv'
  BY <1>7 DEF DeclareOwnership, ForgetAgent, AgentStops, KeyExpires, vars
<1>8. Withdrawers \subseteq Agents
  BY ConstantsAssumption
<1> HIDE DEF LateInv
<1> QED
  BY <1>2, <1>3, <1>4, <1>5, <1>6, <1>7, <1>8 DEF Next

\* Of a completed parent, the last part completed just now and the others before.
LEMMA CompletedFollows ==
  ASSUME NEW t \in Tasks, NEW p \in Completed(t), p # t
  PROVE  Follows(p, Completed(t))
<1> DEFINE all == Completed(t)
           S == all \ {p}
<1>1. t \in all /\ Upward(all) /\ all \subseteq Tasks
  BY CompletedIsUpward
<1> SUFFICES ASSUME ~Follows(p, all) PROVE FALSE
  OBVIOUS
<1>2. Upward(S)
  <2> SUFFICES ASSUME NEW q \in Tasks, Follows(q, S) PROVE q \in S
    BY DEF Upward
  <2> HIDE DEF all
  <2>1. Follows(q, all)
    BY DEF Follows
  <2> QED
    BY <1>1, <2>1 DEF Upward
<1>3. all \subseteq S
  BY <1>1, <1>2 DEF Completed
<1> QED
  BY <1>3

\* What the caller may see of the rows, as the board has it.
Asked  == [t \in Tasks \ Absent |-> row[t]]
Late   == {t \in Tasks : expired[t]}
Closed == {t \in Tasks : status[t] \in {"done", "blocked", "cancelled"}}

LEMMA AskedStays == ASSUME UNCHANGED row, Absent' = Absent PROVE UNCHANGED Asked
BY DEF Asked

\* Insert asks for new tasks.
LEMMA InsertAsks ==
  ASSUME TypeOK, NEW K \in SUBSET Tasks, K \subseteq Absent, NEW ask \in [K -> Rows], Insert(ask),
         \A c \in K : ask[c].parent \notin Absent /\ ask[c].deps \cap Absent = {}
  PROVE  Board!Ask
<1>1. /\ Tasks \ Absent' = (Tasks \ Absent) \cup K /\ DOMAIN ask = K
      /\ \A t \in Tasks : row'[t] = IF t \in K THEN ask[t] ELSE row[t]
  BY DEF Insert, Absent, Exists
<1>2. \A c \in K : ask[c].deps \subseteq Tasks /\ ask[c].parent \in Tasks \cup {None}
  BY DEF Rows
<1>3. Closed' = Closed /\ UNCHANGED <<owner, expired, everDone>>
  BY <1>1 DEF Closed, Insert, Absent, Exists, toldVars
<1>4. Late' = Late
  BY <1>3 DEF Late
<1>5. \A t \in K : t \notin Tasks \ Absent
  OBVIOUS
<1> QED
  BY <1>1, <1>2, <1>3, <1>4, <1>5 DEF Board!Ask, Late, Closed

\* A claim takes back what is late, and may hand out one task.
LEMMA ClaimHandsOut ==
  ASSUME IInv, LateInv, NEW a \in Agents, NEW stage \in Stages \cup {None}, NEW t \in Tasks,
         ClaimTask(a, stage, t)
  PROVE  Board!HandOut(a, t)
<1> USE DEF IInv
<1>1. StatusAfterRelease[t] = "open" /\ \A d \in row[t].deps : StatusAfterRelease[d] = "done"
  BY DEF ClaimTask, Ready
<1>2. Released = Late /\ row[t].deps \subseteq Tasks
  BY DEF Released, Late, LateInv, TypeOK, Rows
<1>3. status[t] = "open" \/ (status[t] = "claimed" /\ t \in Late)
  BY <1>1, <1>2 DEF StatusAfterRelease, Late, LateInv
<1>4. row[t].deps \subseteq everDone
  BY <1>1, <1>2 DEF StatusAfterRelease, DoneInv
<1>5. owner[t] = None \/ t \in Late
  BY <1>3 DEF TypeOK
<1>6. /\ \A u \in Tasks : owner'[u] = IF u = t THEN a ELSE IF u \in Late THEN None ELSE owner[u]
      /\ UNCHANGED <<row, everDone>>
  BY <1>2 DEF ClaimTask, toldVars
<1>7. Late' = {}
  BY <1>2 DEF ClaimTask, Late
<1>8. \A u \in Tasks : /\ status'[u] = IF u = t THEN "claimed" ELSE IF u \in Late THEN "open" ELSE status[u]
                       /\ u \in Late => status[u] = "claimed"
  BY <1>2 DEF ClaimTask, StatusAfterRelease, Late, LateInv
<1>9. Absent' = Absent /\ Closed' = Closed /\ t \notin Absent /\ t \notin Closed
  BY <1>3, <1>8 DEF Absent, Exists, Closed
<1>10. UNCHANGED Asked /\ DOMAIN Asked = Tasks \ Absent /\ Asked[t] = row[t]
  BY <1>6, <1>9, AskedStays DEF Asked
<1>11. Board!TakeBack({t})
  BY <1>6, <1>7, <1>9, <1>10 DEF Board!TakeBack, Asked, Late, Closed
<1> QED
  BY <1>4, <1>5, <1>6, <1>9, <1>10, <1>11 DEF Board!HandOut, Asked, Late, Closed

LEMMA ClaimTakesBack ==
  ASSUME IInv, LateInv, NEW a \in Agents, NEW stage \in Stages \cup {None}, ClaimNothing(a, stage)
  PROVE  Board!Reclaim
<1>1. Released = Late
  BY DEF Released, Late, LateInv
<1>2. /\ \A u \in Tasks : owner'[u] = IF u \in Late THEN None ELSE owner[u]
      /\ UNCHANGED <<row, everDone>>
  BY <1>1 DEF ClaimNothing, toldVars
<1>3. Late' = {}
  BY <1>1 DEF ClaimNothing, Late
<1>4. \A u \in Tasks : /\ status'[u] = IF u \in Late THEN "open" ELSE status[u]
                       /\ u \in Late => status[u] = "claimed"
  BY <1>1 DEF ClaimNothing, StatusAfterRelease, Late, LateInv
<1>5. Absent' = Absent /\ Closed' = Closed
  BY <1>4 DEF Absent, Exists, Closed
<1>6. UNCHANGED Asked
  BY <1>2, <1>5, AskedStays
<1> QED
  BY <1>2, <1>3, <1>5, <1>6 DEF Board!Reclaim, Board!TakeBack, Asked, Late, Closed

\* A completion finishes the task, and parents whose parts are all finished by then,
\* whether or not the Hub dies on the way up.
LEMMA CompletionFinishes ==
  ASSUME IInv, NEW a \in Agents, NEW t \in Tasks, NEW k \in Keys \cup {None},
         NEW died \in BOOLEAN, CompleteTask(a, t, k, died)
  PROVE  Board!Finish(a, t)
<1> USE DEF IInv
<1> DEFINE all == Completed(t)
<1>1. status[t] = "claimed" /\ owner[t] = a /\ Exists(t)
  BY DEF CompleteTask, Holds, Exists
<1>2. t \in all /\ all \subseteq Tasks /\ \A u \in all : Exists(u)
  BY <1>1, CompletedIsUpward, CompletedExists
<1>3. \A p \in all : p # t => Follows(p, all)
  BY CompletedFollows
<1>4. PICK D : /\ D \subseteq all /\ t \in D
               /\ \A p \in D \ {t} : Follows(p, D)
               /\ status' = [u \in Tasks |-> IF u \in D THEN "done" ELSE status[u]]
               /\ owner' = [u \in Tasks |-> IF u \in D THEN None ELSE owner[u]]
               /\ expired' = [u \in Tasks |-> expired[u] /\ u \notin D]
               /\ everDone' = everDone \cup D
  <2>1. PICK D \in (IF died THEN Partial(t, all) ELSE {all}) :
               /\ status' = [u \in Tasks |-> IF u \in D THEN "done" ELSE status[u]]
               /\ owner' = [u \in Tasks |-> IF u \in D THEN None ELSE owner[u]]
               /\ expired' = [u \in Tasks |-> expired[u] /\ u \notin D]
               /\ everDone' = everDone \cup D
    BY DEF CompleteTask
  <2>2. D \subseteq all /\ t \in D /\ \A p \in D \ {t} : Follows(p, D)
    BY <1>2, <1>3 DEF Partial
  <2> QED
    BY <2>1, <2>2
<1> HIDE DEF all
<1>5. D \subseteq Tasks \ Absent /\ UNCHANGED row
  BY <1>2, <1>4 DEF Absent, CompleteTask
<1>6. Absent' = Absent /\ Closed' = Closed \cup D /\ Late' = Late \ D
  BY <1>4, <1>5 DEF Absent, Exists, Closed, Late
<1>7. UNCHANGED Asked
  BY <1>5, <1>6, AskedStays
<1>8. ASSUME NEW p \in D \ {t} PROVE Board!Parts(p) \cap D # {} /\ Board!Parts(p) \subseteq everDone'
  <2>1. Board!Parts(p) = Children(p)
    BY DEF Board!Parts, Children, Absent
  <2>2. Follows(p, D)
    BY <1>4
  <2>3. PICK c \in D : row[c].parent = p
    BY <2>2 DEF Follows
  <2>4. c \in Children(p)
    BY <1>5, <2>3 DEF Children, Absent
  <2>5. \A c2 \in Children(p) : c2 \in D \/ c2 \in everDone
    BY <2>2 DEF Follows, DoneInv, Children
  <2> QED
    BY <1>4, <2>1, <2>3, <2>4, <2>5
<1>9. Board!Close(D)
  BY <1>4, <1>6, <1>7 DEF Board!Close, Asked, Late, Closed
<1> QED
  BY <1>1, <1>4, <1>5, <1>8, <1>9 DEF Board!Finish, Asked

\* Every step of the queue is a step of the board, or none.
LEMMA BoardStep == ASSUME IInv, LateInv, [Next]_vars PROVE [Board!Next]_(Board!vars)
<1> USE DEF rowVars, keyVars, toldVars
<1> DEFINE Step == [Board!Next]_(Board!vars)
<1>0. Board!Next => Step
  OBVIOUS
<1>a. ASSUME UNCHANGED <<status, owner, row, expired, everDone>> PROVE Step
  BY <1>a DEF Board!vars, Absent, Exists
<1> HIDE DEF Step
<1>1. ASSUME NEW t \in Tasks, NEW k \in Keys \cup {None}, NEW died \in BOOLEAN,
             CreateTask(t, k, died)
      PROVE  Board!Ask
  <2>1. PICK r \in Requests[t] : r.deps \cap Absent = {} /\ r.parent \notin Absent
                                /\ Insert([u \in {t} |-> r])
    BY <1>1 DEF CreateTask
  <2>2. t \in Absent /\ r \in Rows
    BY <1>1, ConstantsAssumption DEF CreateTask
  <2>3. [u \in {t} |-> r] \in [{t} -> Rows]
    BY <2>2
  <2> QED
    BY <2>1, <2>2, <2>3, InsertAsks DEF IInv
<1>2. ASSUME NEW p \in Tasks, NEW kids \in SUBSET Tasks, NEW k \in Keys \cup {None},
             NEW died \in BOOLEAN, SplitTask(p, kids, k, died)
      PROVE  Board!Ask
  <2> DEFINE Under(ask) == [c \in kids |-> [ask[c] EXCEPT !.module = row[p].module]]
  <2>1. PICK ask : /\ \A c \in kids : ask[c] \in Requests[c] /\ ask[c].parent = p /\ ask[c].deps = {}
                   /\ Insert(Under(ask))
    BY <1>2 DEF SplitTask
  <2>2. kids \subseteq Absent /\ p \notin Absent /\ row[p] \in Rows
    BY <1>2 DEF SplitTask, Absent, IInv, TypeOK
  <2>3. \A c \in kids : /\ [ask[c] EXCEPT !.module = row[p].module] \in Rows
                        /\ [ask[c] EXCEPT !.module = row[p].module].parent = p
                        /\ [ask[c] EXCEPT !.module = row[p].module].deps = {}
    <3> SUFFICES ASSUME NEW c \in kids
                 PROVE  /\ [ask[c] EXCEPT !.module = row[p].module] \in Rows
                        /\ [ask[c] EXCEPT !.module = row[p].module].parent = p
                        /\ [ask[c] EXCEPT !.module = row[p].module].deps = {}
      OBVIOUS
    <3>1. ask[c] \in Rows /\ row[p].module \in Modules \cup {None}
      BY <2>1, <2>2, ConstantsAssumption DEF Rows
    <3> QED
      BY <2>1, <3>1 DEF Rows
  <2>4. Under(ask) \in [kids -> Rows] /\ \A c \in kids : Under(ask)[c].parent = p /\ Under(ask)[c].deps = {}
    BY <2>3
  <2> HIDE DEF Under
  <2> QED
    BY <2>1, <2>2, <2>4, InsertAsks DEF IInv
<1>3. ASSUME NEW a \in Agents, NEW t \in Tasks, Heartbeat(a, t) PROVE Board!Renew(t)
  <2>1. Late' = Late \ {t} /\ UNCHANGED <<status, owner, row, everDone>>
    BY <1>3 DEF Heartbeat, Late, IInv, TypeOK
  <2>2. Absent' = Absent /\ Closed' = Closed
    BY <2>1 DEF Absent, Exists, Closed
  <2>3. UNCHANGED Asked
    BY <2>1, <2>2, AskedStays
  <2> QED
    BY <2>1, <2>2, <2>3 DEF Board!Renew, Asked, Late, Closed
<1>4. ASSUME NEW a \in Agents, NEW t \in Tasks, NEW to \in {"blocked", "cancelled"}, Withdraw(a, t, to)
      PROVE  Board!Withdraw(a, t)
  <2>1. /\ status' = [status EXCEPT ![t] = to] /\ owner' = [owner EXCEPT ![t] = None]
        /\ expired' = [expired EXCEPT ![t] = FALSE] /\ UNCHANGED <<row, everDone>>
        /\ t \notin Absent /\ owner[t] \in {None, a}
    BY <1>4 DEF Withdraw, Absent
  <2>2. Absent' = Absent /\ Closed' = Closed \cup {t} /\ Late' = Late \ {t}
    BY <2>1 DEF Absent, Exists, Closed, Late, IInv, TypeOK
  <2>3. UNCHANGED Asked
    BY <2>1, <2>2, AskedStays
  <2>4. Board!Close({t})
    BY <2>1, <2>2, <2>3 DEF Board!Close, Asked, Late, Closed, IInv, TypeOK
  <2> QED
    BY <2>1, <2>4 DEF Board!Withdraw, Asked
<1>5. ASSUME NEW t \in Tasks, LeaseLapses(t) PROVE Board!Lapse(t)
  <2>1. Late' = Late \cup {t} /\ UNCHANGED <<status, owner, row, everDone>> /\ owner[t] # None
    BY <1>5 DEF LeaseLapses, Late, IInv, TypeOK
  <2>2. Absent' = Absent /\ Closed' = Closed
    BY <2>1 DEF Absent, Exists, Closed
  <2>3. UNCHANGED Asked
    BY <2>1, <2>2, AskedStays
  <2> QED
    BY <2>1, <2>2, <2>3 DEF Board!Lapse, Asked, Late, Closed
<1>6. ASSUME \/ \E a \in Agents, m \in Modules : DeclareOwnership(a, m)
             \/ \E a \in Agents : ForgetAgent(a) \/ AgentStops(a)
             \/ \E k \in Keys : KeyExpires(k)
             \/ UNCHANGED vars
      PROVE  Step
  BY <1>6, <1>a DEF DeclareOwnership, ForgetAgent, AgentStops, KeyExpires, vars
<1>11. ASSUME Board!Ask \/ Board!Reclaim PROVE Step
  BY <1>0, <1>11 DEF Board!Next
<1>12. ASSUME NEW t \in Tasks, Board!Lapse(t) \/ Board!Renew(t) PROVE Step
  BY <1>0, <1>12 DEF Board!Next
<1>13. ASSUME NEW a \in Agents, NEW t \in Tasks,
              Board!HandOut(a, t) \/ Board!Withdraw(a, t) \/ Board!Finish(a, t)
       PROVE  Step
  BY <1>0, <1>13 DEF Board!Next
<1>21. ASSUME \/ \E t \in Tasks, k \in Keys \cup {None}, died \in BOOLEAN : CreateTask(t, k, died)
              \/ \E p \in Tasks, kids \in SUBSET Tasks, k \in Keys \cup {None}, died \in BOOLEAN :
                   SplitTask(p, kids, k, died)
       PROVE  Step
  BY <1>1, <1>2, <1>11, <1>21
<1>22. ASSUME NEW a \in Agents, NEW stage \in Stages \cup {None},
              ClaimNothing(a, stage) \/ \E t \in Tasks : ClaimTask(a, stage, t)
       PROVE  Step
  BY <1>11, <1>13, <1>22, ClaimHandsOut, ClaimTakesBack
<1>23. ASSUME NEW a \in Agents, NEW t \in Tasks, NEW k \in Keys \cup {None},
              NEW died \in BOOLEAN, CompleteTask(a, t, k, died)
       PROVE  Step
  BY <1>13, <1>23, CompletionFinishes
<1>24. ASSUME NEW a \in Withdrawers, NEW t \in Tasks, BlockTask(a, t) \/ CancelTask(a, t) PROVE Step
  BY <1>4, <1>13, <1>24, ConstantsAssumption DEF BlockTask, CancelTask
<1>25. Step
  BY <1>3, <1>5, <1>6, <1>12, <1>21, <1>22, <1>23, <1>24 DEF Next
<1> QED
  BY <1>25 DEF Step

\* The queue keeps the promise of TaskBoard for any agents, tasks, dependencies,
\* trees of parts, leases and crashes.
THEOREM BoardIsKept == Spec => ImplementsBoard
<1>1. Init => Board!Init
  BY DEF Init, Board!Init, Absent, Exists
<1>2. Init => LateInv
  BY DEF Init, LateInv
<1>3. IInv /\ LateInv /\ [Next]_vars => LateInv'
  BY LateStep DEF IInv
<1> QED
  BY <1>1, <1>2, <1>3, BoardStep, IInvHolds, PTL DEF Spec, ImplementsBoard, Board!Spec
=============================================================================
