----------------------------- MODULE AfkProofs ------------------------------
(***************************************************************************)
(* Unattended work is bounded, for any tasks and masters, any pool and any *)
(* number of faults.                                                       *)
(*                                                                         *)
(* The argument.  What a tick holds depends on how far it is (StageInv).   *)
(* A prompt is prepared for a master whose inbox has none of that task and *)
(* who may have claimed one; claiming, answering and putting back make no  *)
(* more of them (PromptInv).  It is prepared for a task that was active    *)
(* when the tick read it, and of which one prompt at most is under way     *)
(* when it is put aside (PauseInv); for a task whose count is              *)
(* below the limit, in a copy of the counts that a fault can only set back *)
(* to a state that was within it (LoopsInv).  Likewise the subagents a     *)
(* tick creates fill up what the file lists, and a fault forgets at most   *)
(* one pool of them (PoolInv).                                             *)
(***************************************************************************)
EXTENDS Afk, FiniteSetTheorems, WellFoundedInduction, TLAPS

StageInv ==
    /\ step # "look" => todo = Nothing
    /\ step \in {"down", "idle", "pool"} => cand = Nothing
    /\ step \in {"commit", "send"} => \A t \in Tasks : cand[t] # None => t \in batch \cup {current}
    /\ step \notin {"commit", "send"} => batch = {} /\ mem = file
    /\ current \notin batch
    /\ step \in {"down", "idle"} => fresh = 0
    /\ step # "pool" => missing = 0

PromptInv ==
    /\ PromptsDoNotPile
    /\ \A t \in Tasks : cand[t] # None => Unanswered(cand[t].master, t) <= 1

PauseInv ==
    \A t \in Tasks :
      /\ late[t] <= 1
      /\ Active(t) \/ todo[t] # None \/ cand[t] # None => late[t] = 0

LoopsInv ==
    \A t \in Tasks :
      /\ file.loops[t] <= MaxLoops /\ mem.loops[t] <= MaxLoops
      /\ cand[t] # None => mem.loops[t] < MaxLoops
      /\ sent[t] <= mem.loops[t] + MaxLoops * faults

PoolInv == known + fresh + missing <= Desired /\ stray <= Desired * faults

\* The times of the last prompts have an upper bound, so that there is a
\* latest one.
TimeInv == \E b \in Nat : \A t \in Tasks : file.at[t] <= b /\ mem.at[t] <= b

IInv == TypeOK /\ StageInv /\ PromptInv /\ PauseInv /\ LoopsInv /\ PoolInv /\ TimeInv

-----------------------------------------------------------------------------
(* Arithmetic and data.                                                    *)

\* The bounds are numbers.
LEMMA Sizes == Cap \in Nat \ {0} /\ Desired \in Nat /\ MaxLoops \in Nat
  BY AfkAssumption

\* Fewer pooled sessions fit as well.
LEMMA FewerFit ==
    ASSUME NEW a \in Nat, NEW b \in Nat, NEW c \in Nat, NEW d \in Nat, NEW e \in Nat,
           e <= a, a + b + c <= d
    PROVE  e + b + c <= d
  OBVIOUS

\* What is at most b is at most what b is at most.
LEMMA AtMost ==
    ASSUME NEW a \in Nat, NEW b \in Nat, NEW c \in Nat, a <= b, b <= c
    PROVE  a <= c
  OBVIOUS

\* Adding nothing changes nothing.
LEMMA Padded == ASSUME NEW a \in Nat, NEW c \in Nat, a <= c PROVE a + 0 + 0 <= c
  OBVIOUS

\* More on the right does no harm.
LEMMA Shift ==
    ASSUME NEW a \in Nat, NEW b \in Nat, NEW c \in Nat, a <= c
    PROVE  a <= b + c
  OBVIOUS

\* One fault more allows for as much again.
LEMMA OneMore ==
    ASSUME NEW k \in Nat, NEW n \in Nat
    PROVE  k * n \in Nat /\ k * (n + 1) = k * n + k /\ k * n <= k * (n + 1)
  OBVIOUS

\* More faults allow for no less.
LEMMA MoreFaults ==
    ASSUME NEW k \in Nat, NEW n \in Nat, NEW p \in Nat, n <= p
    PROVE  k * n \in Nat /\ k * p \in Nat /\ k * n <= k * p
<1>1. PICK d \in Nat : p = n + d
  <2>1. p - n \in Nat /\ p = n + (p - n)
    OBVIOUS
  <2>2. QED
    BY <2>1
<1>2. k * (n + d) = k * n + k * d /\ k * d \in Nat /\ k * n \in Nat
  OBVIOUS
<1>3. QED
  BY <1>1, <1>2

\* The number of messages of one origin in an inbox becomes n.
Becomes(m, o, n) == inbox' = [inbox EXCEPT ![m][o] = n]

\* A message more or less in an inbox leaves the other inboxes as they are.
LEMMA InboxStep ==
    ASSUME inbox \in Inboxes,
           NEW m \in Masters, NEW o \in Tasks \cup {Other}, NEW n \in Nat,
           Becomes(m, o, n)
    PROVE  /\ inbox' \in Inboxes
           /\ \A p \in Masters, r \in Tasks \cup {Other} :
                inbox'[p][r] = IF p = m /\ r = o THEN n ELSE inbox[p][r]
<1> USE DEF Inboxes
<1>1. inbox[m] \in [Tasks \cup {Other} -> Nat]
  OBVIOUS
<1>2. [inbox[m] EXCEPT ![o] = n] \in [Tasks \cup {Other} -> Nat]
  BY <1>1
<1>3. inbox' = [inbox EXCEPT ![m] = [inbox[m] EXCEPT ![o] = n]]
  BY DEF Becomes
<1>4. inbox' \in Inboxes
  BY <1>2, <1>3
<1>5. ASSUME NEW p \in Masters, NEW r \in Tasks \cup {Other}
      PROVE  inbox'[p][r] = IF p = m /\ r = o THEN n ELSE inbox[p][r]
  <2>1. CASE p = m
    BY <1>1, <1>3, <2>1
  <2>2. CASE p # m
    BY <1>3, <2>2
  <2>3. QED
    BY <2>1, <2>2
<1>6. QED
  BY <1>4, <1>5

\* Prompts are counted.
LEMMA UnansweredIsNat ==
    /\ inbox \in Inboxes =>
         \A m \in Masters, t \in Tasks : Unanswered(m, t) \in Nat
    /\ inbox' \in Inboxes =>
         \A m \in Masters, t \in Tasks : Unanswered(m, t)' \in Nat
  BY DEF Inboxes, Unanswered

Smaller == {ss \in Nat \X Nat : ss[1] < ss[2]}

\* A set of natural numbers that is not empty has a least element.
LEMMA LeastNatural ==
    ASSUME NEW S, S \subseteq Nat, S # {}
    PROVE  \E n \in S : \A k \in S : n <= k
<1>1. IsWellFoundedOn(Smaller, Nat)
  BY NatLessThanWellFounded DEF OpToRel, Smaller
<1>2. PICK n \in S : \A k \in S : <<k, n>> \notin Smaller
  BY <1>1, WFMin
<1>3. \A x, y \in Nat : <<x,y>> \in Smaller <=> x < y
  BY DEF Smaller
<1>4. ASSUME NEW k \in S PROVE n <= k
  <2>1. k \in Nat /\ n \in Nat
    OBVIOUS
  <2>2. ~ (k < n)
    BY <1>2, <1>3, <2>1
  <2>3. QED
    BY <2>1, <2>2
<1>5. QED
  BY <1>4

\* There is a latest prompt.
LEMMA LatestIsNat ==
    ASSUME file \in Counts, Tasks # {}, TimeInv
    PROVE  Latest \in Nat /\ \A t \in Tasks : file.at[t] <= Latest
<1>1. file.at \in [Tasks -> Nat]
  BY DEF Counts
<1> DEFINE Above == {n \in Nat : \A t \in Tasks : file.at[t] <= n}
<1>2. PICK n \in Above : \A k \in Above : n <= k
  <2>1. Above # {} /\ Above \in SUBSET Nat
    BY DEF TimeInv
  <2>2. QED
    BY <2>1, LeastNatural
<1>3. \E t \in Tasks : file.at[t] = n
  <2> SUFFICES ASSUME \A t \in Tasks : file.at[t] # n PROVE FALSE
    OBVIOUS
  <2>1. n \in Nat /\ \A t \in Tasks : file.at[t] < n /\ file.at[t] \in Nat
    BY <1>1, <1>2
  <2>2. n - 1 \in Nat /\ \A t \in Tasks : file.at[t] <= n - 1
    BY <2>1
  <2>3. n - 1 \in Above
    BY <2>2
  <2>4. QED
    BY <1>2, <2>1, <2>3
<1>4. \E k \in {file.at[t] : t \in Tasks} : \A t \in Tasks : file.at[t] <= k
  BY <1>2, <1>3
<1>5. Latest \in {file.at[t] : t \in Tasks} /\ \A t \in Tasks : file.at[t] <= Latest
  BY <1>4 DEF Latest
<1>6. QED
  BY <1>1, <1>5

-----------------------------------------------------------------------------
(* The initial state.                                                      *)

\* Nothing is prepared, placed or created in an initial state.
LEMMA InitInv == Init => IInv
<1> SUFFICES ASSUME Init PROVE IInv
  OBVIOUS
<1> USE AfkAssumption
<1>1. HubTypes
  BY DEF Init, Running, HubTypes, Statuses
<1>2. NoState \in Counts
  BY DEF NoState, Counts
<1>3. TickTypes
  BY <1>2 DEF Init, Running, Nothing, TickTypes, Steps
<1>4. PoolTypes /\ PoolInv
  BY DEF Init, PoolTypes, PoolInv
<1>5. PromptTypes
  BY DEF Init, PromptTypes, Inboxes
<1>6. StageInv /\ PauseInv
  BY DEF Init, StageInv, Nothing, PauseInv
<1>7. PromptInv
  BY DEF Init, Nothing, PromptInv, PromptsDoNotPile, Unanswered
<1>8. LoopsInv /\ TimeInv
  BY DEF Init, LoopsInv, TimeInv, NoState, Nothing
<1>9. QED
  BY <1>1, <1>3, <1>4, <1>5, <1>6, <1>7, <1>8 DEF IInv, TypeOK

-----------------------------------------------------------------------------
(* The Hub, its users and the masters.                                     *)

\* What a step outside the orchestrator may do to its data: nothing but
\* claim, answer or put back a prompt, place a message of another kind, start
\* the idle process, forget a pooled session, count a fault, serve a task anew.
Outside ==
    /\ UNCHANGED <<todo, cand, batch, current, mem, lock, file, fresh, missing, stray,
                   sent, passed>>
    /\ step' = step \/ (step = "down" /\ step' = "idle")
    /\ known' \in Nat /\ known' <= known
    /\ faults' \in Nat /\ faults' >= faults

\* Of the prompts that wait for an answer and of the tasks put aside.
Kept ==
    /\ \A m \in Masters, t \in Tasks : Unanswered(m, t)' <= Unanswered(m, t)
    /\ inbox' \in Inboxes
    /\ late' \in [Tasks -> Nat]
    /\ \A t \in Tasks : late'[t] \in {0, late[t]}
    /\ \A t \in Tasks : Active(t)' => Active(t) \/ late'[t] = 0

\* The invariant withstands such steps.
LEMMA OutsideInv ==
    ASSUME IInv, Outside, Kept, HubTypes'
    PROVE  IInv'
<1>1. TypeOK'
  BY DEF IInv, TypeOK, Outside, Kept, TickTypes, PoolTypes, PromptTypes, Steps
<1>2. StageInv'
  BY DEF IInv, StageInv, Outside
<1>3. PromptInv'
  <2>0. \A m \in Masters, t \in Tasks : Unanswered(m, t) \in Nat /\ Unanswered(m, t)' \in Nat
    BY UnansweredIsNat DEF IInv, TypeOK, PromptTypes, Kept
  <2>1. PromptsDoNotPile'
    <3> SUFFICES ASSUME NEW m \in Masters, NEW t \in Tasks PROVE Unanswered(m, t)' <= 2
      BY DEF PromptsDoNotPile
    <3>1. Unanswered(m, t) <= 2 /\ Unanswered(m, t)' <= Unanswered(m, t)
      BY DEF IInv, PromptInv, PromptsDoNotPile, Kept
    <3>2. Unanswered(m, t) \in Nat /\ Unanswered(m, t)' \in Nat
      BY <2>0
    <3>3. QED
      BY <3>1, <3>2
  <2>2. ASSUME NEW t \in Tasks, cand'[t] # None
        PROVE  inbox'[cand'[t].master][t] + (IF claim'[cand'[t].master] = t THEN 1 ELSE 0) <= 1
    <3>1. cand' = cand /\ cand[t].master \in Masters
      BY <2>2 DEF Outside, IInv, TypeOK, TickTypes
    <3> DEFINE m == cand[t].master
    <3>2. Unanswered(m, t) <= 1 /\ Unanswered(m, t)' <= Unanswered(m, t)
      BY <2>2, <3>1 DEF IInv, PromptInv, Kept
    <3>3. Unanswered(m, t) \in Nat /\ Unanswered(m, t)' \in Nat
      BY <2>0, <3>1
    <3>4. Unanswered(m, t)' <= 1
      BY <3>2, <3>3
    <3>5. QED
      BY <3>1, <3>4 DEF Unanswered
  <2>3. QED
    BY <2>1, <2>2 DEF PromptInv, Unanswered
<1>4. PauseInv'
  <2> SUFFICES ASSUME NEW t \in Tasks
               PROVE  /\ late'[t] <= 1
                      /\ Active(t)' \/ todo'[t] # None \/ cand'[t] # None => late'[t] = 0
    BY DEF PauseInv
  <2>1. /\ late[t] <= 1 /\ late'[t] \in {0, late[t]}
        /\ Active(t) \/ todo[t] # None \/ cand[t] # None => late[t] = 0
    BY DEF IInv, PauseInv, Kept
  <2>2. todo' = todo /\ cand' = cand /\ (Active(t)' => Active(t) \/ late'[t] = 0)
    BY DEF Outside, Kept
  <2>3. QED
    BY <2>1, <2>2
<1>5. LoopsInv'
  <2> SUFFICES ASSUME NEW t \in Tasks
               PROVE  /\ file'.loops[t] <= MaxLoops /\ mem'.loops[t] <= MaxLoops
                      /\ cand'[t] # None => mem'.loops[t] < MaxLoops
                      /\ sent'[t] <= mem'.loops[t] + MaxLoops * faults'
    BY DEF LoopsInv
  <2>1. MaxLoops * faults \in Nat /\ MaxLoops * faults' \in Nat
        /\ MaxLoops * faults <= MaxLoops * faults'
    BY AfkAssumption, MoreFaults DEF IInv, TypeOK, PoolTypes, Outside
  <2>2. sent[t] \in Nat /\ mem.loops[t] \in Nat
    BY DEF IInv, TypeOK, PromptTypes, TickTypes, Counts
  <2>3. QED
    BY <2>1, <2>2 DEF IInv, LoopsInv, Outside
<1>6. PoolInv'
  <2>1. Desired * faults \in Nat /\ Desired * faults' \in Nat
        /\ Desired * faults <= Desired * faults'
    BY AfkAssumption, MoreFaults DEF IInv, TypeOK, PoolTypes, Outside
  <2>2. QED
    <3>0. known + fresh + missing <= Desired
      BY DEF IInv, PoolInv
    <3>1. stray <= Desired * faults
      BY DEF IInv, PoolInv
    <3>2. /\ known' <= known /\ known' \in Nat /\ known \in Nat /\ fresh' = fresh /\ fresh \in Nat
          /\ missing' = missing /\ missing \in Nat /\ stray' = stray /\ stray \in Nat
      BY DEF IInv, TypeOK, PoolTypes, Outside
    <3>3. stray' <= Desired * faults'
      BY <2>1, <3>1, <3>2
    <3>4. known' + fresh' + missing' <= Desired
      <4>1. known' + fresh + missing <= Desired
        BY <3>0, <3>2, Sizes, FewerFit
      <4>2. QED
        BY <3>2, <4>1
    <3>5. QED
      BY <3>3, <3>4 DEF PoolInv
<1>7. TimeInv'
  BY DEF IInv, TimeInv, Outside
<1>8. QED
  BY <1>1, <1>2, <1>3, <1>4, <1>5, <1>6, <1>7 DEF IInv

\* A command of the user or of the Hub is such a step.
LEMMA UsersInv == ASSUME IInv, Users PROVE IInv'
<1> USE DEF hub, tick, pool, agents, Command, Fault
<1>0. HubTypes /\ commands \in Nat /\ late \in [Tasks -> Nat]
  BY DEF IInv, TypeOK, PromptTypes, HubTypes
<1>n. known \in Nat /\ faults \in Nat
  BY DEF IInv, TypeOK, PoolTypes
<1>i. inbox \in Inboxes /\ \A m \in Masters, o \in Tasks \cup {Other} : inbox[m][o] \in Nat
  BY DEF IInv, TypeOK, PromptTypes, Inboxes
<1>o. Other \notin Tasks /\ None \notin Tasks \cup {Other}
  BY AfkAssumption
<1>s. ASSUME claim' = claim, \A m \in Masters, t \in Tasks : inbox'[m][t] = inbox[m][t]
      PROVE  \A m \in Masters, t \in Tasks : Unanswered(m, t)' <= Unanswered(m, t)
  BY <1>i, <1>s DEF Unanswered
<1> DEFINE Same == UNCHANGED <<inbox, claim, late>> /\ \A t \in Tasks : Active(t)' => Active(t)
<1>a. ASSUME Same PROVE Kept
  BY <1>0, <1>i, <1>a, <1>s DEF Kept
<1>b. ASSUME NEW t \in Tasks, Recount(t), UNCHANGED <<inbox, claim>>,
             \A u \in Tasks : u # t => (Active(u)' => Active(u))
      PROVE  Kept
  BY <1>0, <1>i, <1>b, <1>s DEF Kept, Recount
<1>c. ASSUME NEW m \in Masters, NEW n \in Nat, Becomes(m, Other, n)
      PROVE  /\ inbox' \in Inboxes
             /\ \A p \in Masters, t \in Tasks : inbox'[p][t] = inbox[p][t]
  <2>1. /\ inbox' \in Inboxes
        /\ \A p \in Masters, r \in Tasks \cup {Other} :
             inbox'[p][r] = IF p = m /\ r = Other THEN n ELSE inbox[p][r]
    BY <1>i, <1>c, InboxStep
  <2>2. QED
    BY <1>i, <1>o, <2>1
<1>1. ASSUME NEW t \in Tasks, NEW m \in Masters, OneClick(t, m) PROVE IInv'
  <2>1. Outside
    BY <1>n, <1>1 DEF OneClick, Outside
  <2>2. HubTypes'
    BY <1>0, <1>1 DEF OneClick, HubTypes, Statuses
  <2>3. Kept
    BY <1>b, <1>0, <1>1 DEF OneClick, Active, HubTypes
  <2>4. QED
    BY <2>1, <2>2, <2>3, OutsideInv
<1>2. ASSUME OneClickDone PROVE IInv'
  <2>1. Outside
    BY <1>n, <1>2 DEF OneClickDone, Outside
  <2>2. HubTypes' /\ click.task \in Tasks /\ click.master \in Masters
    BY <1>0, <1>2 DEF OneClickDone, HubTypes, Statuses
  <2>3. inbox[click.master][Other] + 1 \in Nat
    BY <1>i, <2>2
  <2>4. /\ inbox' \in Inboxes
        /\ \A p \in Masters, t \in Tasks : inbox'[p][t] = inbox[p][t]
    <3>1. Becomes(click.master, Other, inbox[click.master][Other] + 1)
      BY <1>2 DEF OneClickDone, Becomes
    <3>2. QED
      BY <1>c, <2>2, <2>3, <3>1
  <2>5. /\ late' \in [Tasks -> Nat] /\ \A t \in Tasks : late'[t] \in {0, late[t]}
        /\ \A t \in Tasks : Active(t)' => Active(t) \/ late'[t] = 0
    BY <1>0, <1>2, <2>2 DEF OneClickDone, Active, HubTypes
  <2>6. QED
    BY <1>2, <1>s, <2>1, <2>2, <2>4, <2>5, OutsideInv DEF Kept, OneClickDone
<1>3. ASSUME OneClickFails PROVE IInv'
  <2>1. Outside
    BY <1>n, <1>3 DEF OneClickFails, Outside
  <2>1h. HubTypes'
    BY <1>0, <1>3 DEF OneClickFails, HubTypes
  <2>2. Same
    BY <1>3 DEF OneClickFails, Active
  <2>3. QED
    BY <1>a, <2>1, <2>1h, <2>2, OutsideInv
<1>4. ASSUME NEW t \in Tasks, NEW m \in Masters \cup {None}, Arm(t, m) PROVE IInv'
  <2>1. Outside
    BY <1>n, <1>4 DEF Arm, Outside
  <2>1h. HubTypes'
    BY <1>0, <1>4 DEF Arm, HubTypes
  <2>2. Kept
    BY <1>b, <1>4 DEF Arm, Active
  <2>3. QED
    BY <2>1, <2>1h, <2>2, OutsideInv
<1>5. ASSUME NEW ts, ts \subseteq index, NEW s \in {"PAUSED", "DONE"}, Command, SetAside(ts, s),
             enabled' \in BOOLEAN
      PROVE  IInv'
  <2>1. Outside
    BY <1>n, <1>5 DEF SetAside, Outside
  <2>1h. HubTypes'
    BY <1>0, <1>5 DEF SetAside, HubTypes, Statuses
  <2>2. Same
    BY <1>0, <1>5 DEF SetAside, Active, HubTypes
  <2>3. QED
    BY <1>a, <2>1, <2>1h, <2>2, OutsideInv
<1>6. ASSUME NEW t \in Tasks, Pause(t) \/ Done(t) PROVE IInv'
  <2>1. PICK s \in {"PAUSED", "DONE"} : Command /\ SetAside({t}, s) /\ enabled' = enabled
    BY <1>6 DEF Pause, Done
  <2>2. Outside
    BY <1>n, <2>1 DEF SetAside, Outside
  <2>2h. HubTypes'
    BY <1>0, <2>1 DEF SetAside, HubTypes, Statuses
  <2>3. Same
    BY <1>0, <2>1 DEF SetAside, Active, HubTypes
  <2>4. QED
    BY <1>a, <2>2, <2>2h, <2>3, OutsideInv
<1>7. ASSUME Halt PROVE IInv'
  BY <1>5, <1>7 DEF Halt
<1>8. ASSUME NEW t \in Tasks, Resume(t) PROVE IInv'
  <2>1. Outside
    BY <1>n, <1>8 DEF Resume, Outside
  <2>1h. HubTypes'
    BY <1>0, <1>8 DEF Resume, HubTypes, Statuses
  <2>2. Kept
    BY <1>b, <1>0, <1>8 DEF Resume, Active, HubTypes
  <2>3. QED
    BY <2>1, <2>1h, <2>2, OutsideInv
<1>9. ASSUME StartService PROVE IInv'
  <2>1. Outside
    BY <1>n, <1>9 DEF StartService, Outside
  <2>1h. HubTypes'
    BY <1>0, <1>9 DEF StartService, HubTypes
  <2>2. Same
    BY <1>9 DEF StartService, Active
  <2>3. QED
    BY <1>a, <2>1, <2>1h, <2>2, OutsideInv
<1>10. ASSUME RemovePooled PROVE IInv'
  <2>1. Outside
    BY <1>n, <1>10 DEF RemovePooled, Outside
  <2>1h. HubTypes'
    BY <1>0, <1>10 DEF RemovePooled, HubTypes
  <2>2. Same
    BY <1>10 DEF RemovePooled, Active
  <2>3. QED
    BY <1>a, <2>1, <2>1h, <2>2, OutsideInv
<1>11. ASSUME NEW m \in Masters, Post(m) PROVE IInv'
  <2>1. Outside
    BY <1>n, <1>11 DEF Post, Outside
  <2>1h. HubTypes'
    BY <1>0, <1>11 DEF Post, HubTypes
  <2>2. inbox[m][Other] + 1 \in Nat
    BY <1>i
  <2>4. Becomes(m, Other, inbox[m][Other] + 1)
    BY <1>11 DEF Post, Becomes
  <2>5. /\ inbox' \in Inboxes
        /\ \A p \in Masters, t \in Tasks : inbox'[p][t] = inbox[p][t]
    BY <1>c, <2>2, <2>4
  <2>3. Kept
    BY <1>0, <1>11, <1>s, <2>5 DEF Post, Kept, Active
  <2>6. QED
    BY <2>1, <2>1h, <2>3, OutsideInv
<1>12. ASSUME NEW m \in Masters, NEW o \in Tasks \cup {Other}, TakeMessage(m, o) PROVE IInv'
  <2>1. Outside
    BY <1>n, <1>12 DEF TakeMessage, Outside
  <2>1h. HubTypes'
    BY <1>0, <1>12 DEF TakeMessage, HubTypes
  <2>2. inbox[m][o] \in Nat /\ inbox[m][o] - 1 \in Nat
    BY <1>i, <1>12 DEF TakeMessage
  <2>3. /\ inbox' \in Inboxes
        /\ \A p \in Masters, r \in Tasks \cup {Other} :
             inbox'[p][r] = IF p = m /\ r = o THEN inbox[m][o] - 1 ELSE inbox[p][r]
    <3>1. Becomes(m, o, inbox[m][o] - 1)
      BY <1>12 DEF TakeMessage, Becomes
    <3>2. QED
      BY <1>i, <2>2, <3>1, InboxStep
  <2>4. /\ claim[m] = None /\ claim' = [claim EXCEPT ![m] = o]
        /\ claim \in [Masters -> Tasks \cup {Other, None}]
    BY <1>0, <1>12 DEF TakeMessage, HubTypes
  <2>5. ASSUME NEW p \in Masters, NEW t \in Tasks PROVE Unanswered(p, t)' <= Unanswered(p, t)
    BY <1>i, <1>o, <2>2, <2>3, <2>4 DEF Unanswered
  <2>6. Kept
    BY <1>0, <1>12, <2>3, <2>5 DEF TakeMessage, Kept, Active
  <2>7. QED
    BY <2>1, <2>1h, <2>6, OutsideInv
<1>13. ASSUME NEW m \in Masters, WaitAgain(m) \/ GoOffline(m) \/ ComeBack(m) PROVE IInv'
  <2>1. /\ UNCHANGED <<hub, tick, pool, inbox, claim, lock, file, sent, late, passed, faults>>
        /\ \E p \in {"waiting", "working", "offline"} : presence' = [presence EXCEPT ![m] = p]
    BY <1>13 DEF WaitAgain, GoOffline, ComeBack, Turn
  <2>2. Outside
    BY <1>n, <2>1 DEF Outside
  <2>2h. HubTypes'
    BY <1>0, <2>1 DEF HubTypes
  <2>3. Same
    BY <2>1 DEF Active
  <2>4. QED
    BY <1>a, <2>2, <2>2h, <2>3, OutsideInv
<1>14. ASSUME NEW m \in Masters, Answer(m) PROVE IInv'
  <2>1. Outside
    BY <1>n, <1>14 DEF Answer, Outside
  <2>2. HubTypes' /\ claim' = [claim EXCEPT ![m] = None]
        /\ claim \in [Masters -> Tasks \cup {Other, None}]
    BY <1>0, <1>14 DEF Answer, HubTypes
  <2>3. ASSUME NEW p \in Masters, NEW t \in Tasks PROVE Unanswered(p, t)' <= Unanswered(p, t)
    BY <1>i, <1>o, <1>14, <2>2 DEF Answer, Unanswered
  <2>4. Kept
    BY <1>0, <1>i, <1>14, <2>3 DEF Answer, Kept, Active
  <2>5. QED
    BY <2>1, <2>2, <2>4, OutsideInv
<1>15. ASSUME NEW m \in Masters, PutBack(m) PROVE IInv'
  <2> DEFINE o == claim[m]
  <2>1. Outside
    BY <1>n, <1>15 DEF PutBack, Outside
  <2>2. /\ HubTypes' /\ claim' = [claim EXCEPT ![m] = None]
        /\ claim \in [Masters -> Tasks \cup {Other, None}] /\ o \in Tasks \cup {Other}
    BY <1>0, <1>15 DEF PutBack, HubTypes
  <2>3. inbox[m][o] + 1 \in Nat
    BY <1>i, <2>2
  <2>4. Becomes(m, o, inbox[m][o] + 1)
    BY <1>15 DEF PutBack, Becomes
  <2>i. o \in Tasks \cup {Other}
    BY <2>2
  <2> HIDE DEF o
  <2>5. /\ inbox' \in Inboxes
        /\ \A p \in Masters, r \in Tasks \cup {Other} :
             inbox'[p][r] = IF p = m /\ r = o THEN inbox[m][o] + 1 ELSE inbox[p][r]
    BY <1>i, <2>i, <2>3, <2>4, InboxStep
  <2>6. ASSUME NEW p \in Masters, NEW t \in Tasks PROVE Unanswered(p, t)' <= Unanswered(p, t)
    <3>1. CASE p = m /\ t = o
      <4>1. claim[p] = t /\ claim'[p] = None /\ t # None
        BY <1>o, <2>2, <3>1 DEF o
      <4>2. inbox'[p][t] = inbox[p][t] + 1 /\ inbox[p][t] \in Nat
        BY <1>i, <2>5, <3>1
      <4>3. QED
        BY <4>1, <4>2 DEF Unanswered
    <3>2. CASE ~(p = m /\ t = o)
      <4>1. inbox'[p][t] = inbox[p][t] /\ inbox[p][t] \in Nat /\ (claim'[p] = t => claim[p] = t)
        BY <1>i, <1>o, <2>2, <2>5, <3>2
      <4>2. QED
        BY <4>1 DEF Unanswered
    <3>3. QED
      BY <3>1, <3>2
  <2>7. Kept
    BY <1>0, <1>15, <2>5, <2>6 DEF PutBack, Kept, Active
  <2>8. QED
    BY <2>1, <2>2, <2>7, OutsideInv
<1>16. QED
  BY <1>1, <1>2, <1>3, <1>4, <1>6, <1>7, <1>8, <1>9, <1>10, <1>11, <1>12, <1>13, <1>14,
     <1>15 DEF Users

-----------------------------------------------------------------------------
(* The orchestrator.  A step that places no prompt leaves the Hub, the     *)
(* inboxes and the history alone.                                          *)

\* The types a step of the orchestrator needs.
LEMMA TickFacts ==
    ASSUME IInv
    PROVE  /\ HubTypes /\ TickTypes /\ PoolTypes /\ PromptTypes
           /\ mem.loops \in [Tasks -> Nat] /\ file.loops \in [Tasks -> Nat]
           /\ None \notin Masters /\ None \notin Tasks
  BY AfkAssumption DEF IInv, TypeOK, TickTypes, Counts

\* A quiet step disturbs the tick or the pool only.
Quiet == UNCHANGED <<world, sent, late, faults, file>> /\ passed' \in [Tasks -> Nat]

\* A step that keeps to the copies the tick has, and takes up at most the
\* tasks that are active.
Holds ==
    \A t \in Tasks :
      /\ cand'[t] # None =>
           /\ mem'.loops[t] < MaxLoops
           /\ Unanswered(cand'[t].master, t) <= 1
           /\ cand[t] # None \/ todo[t] # None
      /\ todo'[t] # None => todo[t] # None \/ Active(t)


\* A quiet step keeps the invariant when it keeps the shape of the tick.
LEMMA QuietInv ==
    ASSUME IInv, Quiet, Holds, mem' = mem, TickTypes', StageInv', PoolTypes', PoolInv'
    PROVE  IInv'
<1>1. TypeOK'
  BY DEF IInv, TypeOK, Quiet, world, hub, agents, HubTypes, PromptTypes
<1>2. inbox' = inbox /\ claim' = claim /\ late' = late /\ sent' = sent /\ faults' = faults /\ file' = file
      /\ \A t \in Tasks : Active(t)' = Active(t)
  BY DEF Quiet, world, hub, agents, Active
<1>3. PromptInv'
  BY <1>2 DEF IInv, PromptInv, PromptsDoNotPile, Unanswered, Holds
<1>4. PauseInv'
  <2> SUFFICES ASSUME NEW t \in Tasks
               PROVE  /\ late[t] <= 1
                      /\ Active(t) \/ todo'[t] # None \/ cand'[t] # None => late[t] = 0
    BY <1>2 DEF PauseInv
  <2>1. /\ late[t] <= 1
        /\ Active(t) \/ todo[t] # None \/ cand[t] # None => late[t] = 0
    BY DEF IInv, PauseInv
  <2>2. /\ cand'[t] # None => cand[t] # None \/ todo[t] # None
        /\ todo'[t] # None => todo[t] # None \/ Active(t)
    BY DEF Holds
  <2>3. QED
    BY <2>1, <2>2
<1>5. LoopsInv'
  BY <1>2 DEF IInv, LoopsInv, Holds
<1>6. TimeInv'
  BY <1>2 DEF IInv, TimeInv
<1>7. QED
  BY <1>1, <1>3, <1>4, <1>5, <1>6 DEF IInv

\* The tick starts, and brings the pool in order.
LEMMA PoolStepInv == ASSUME IInv, Begin \/ Prune \/ Create PROVE IInv'
<1> USE TickFacts DEF world, history, tick
<1>1. Quiet
  BY DEF Begin, Prune, Create, Quiet, PromptTypes
<1>2. Holds
  BY DEF Begin, Prune, Create, Holds, IInv, StageInv, LoopsInv, PromptInv
<1>3. mem' = mem
  BY DEF Begin, Prune, Create, IInv, StageInv
<1>4. TickTypes'
  BY <1>3 DEF Begin, Prune, Create, TickTypes, Steps
<1>5. StageInv'
  BY <1>3 DEF Begin, Prune, Create, IInv, StageInv
<1>6. PoolTypes' /\ PoolInv'
  <2>0. /\ known \in Nat /\ fresh \in Nat /\ missing \in Nat /\ stray \in Nat
        /\ Desired \in Nat
    BY Sizes DEF PoolTypes
  <2>1. known + fresh + missing <= Desired
    BY DEF IInv, PoolInv
  <2>2. CASE Begin
    <3>1. fresh = 0 /\ known <= Desired
      BY <2>0, <2>1, <2>2 DEF Begin, IInv, StageInv
    <3>2. missing' = Desired - known /\ known' = known /\ fresh' = 0 /\ stray' = stray
          /\ faults' = faults
      BY <2>0, <2>2, <3>1 DEF Begin
    <3>3. Desired - known \in Nat /\ known + 0 + (Desired - known) <= Desired
      BY <2>0, <3>1
    <3>4. QED
      BY <2>0, <3>2, <3>3 DEF PoolTypes, PoolInv, IInv
  <2>3. CASE Prune
    <3>1. /\ fresh = 0 /\ known' = known - 1 /\ fresh' = 0 /\ stray' = stray /\ faults' = faults
          /\ known - 1 \in Nat /\ known - 1 < Desired
      BY <2>0, <2>1, <2>3 DEF Prune
    <3>2. missing' = Desired - (known - 1)
      BY <2>3, <3>1 DEF Prune
    <3>3. Desired - (known - 1) \in Nat /\ (known - 1) + 0 + (Desired - (known - 1)) <= Desired
      BY <2>0, <3>1
    <3>4. QED
      BY <2>0, <3>1, <3>2, <3>3 DEF PoolTypes, PoolInv, IInv
  <2>4. CASE Create
    <3>1. /\ known' = known /\ fresh' = fresh + 1 /\ missing' = missing - 1 /\ stray' = stray
          /\ faults' = faults /\ missing > 0
      BY <2>4 DEF Create
    <3>2. /\ fresh + 1 \in Nat /\ missing - 1 \in Nat
          /\ known + (fresh + 1) + (missing - 1) <= Desired
      BY <2>0, <2>1, <3>1
    <3>3. QED
      BY <2>0, <3>1, <3>2 DEF PoolTypes, PoolInv, IInv
  <2>5. QED
    BY <2>2, <2>3, <2>4
<1>7. QED
  BY <1>1, <1>2, <1>3, <1>4, <1>5, <1>6, QuietInv

\* It reads the tasks, looks at their masters, chooses and locks.
LEMMA TickStepInv ==
    ASSUME IInv,
           \/ ReadTasks \/ Choose \/ Start
           \/ \E t \in Tasks : LookAway(t) \/ (\E k \in Kinds : LookDue(t, k))
           \/ \E t \in Tasks : Acquire(t) \/ LockHeld(t)
    PROVE  IInv'
<1> USE TickFacts DEF world, history, tick, pool, Nothing
<1>1. ASSUME UNCHANGED pool, faults' = faults PROVE PoolTypes' /\ PoolInv'
  BY <1>1 DEF PoolTypes, PoolInv, IInv
<1>2. CASE ReadTasks
  <2>1. Quiet /\ UNCHANGED <<mem, pool, faults>>
    BY <1>2 DEF ReadTasks, Quiet, PromptTypes
  <2>2. Holds
    BY <1>2 DEF ReadTasks, Holds, IInv, StageInv
  <2>3. TickTypes'
    BY <1>2 DEF ReadTasks, TickTypes, Steps, HubTypes
  <2>4. StageInv'
    BY <1>2 DEF ReadTasks, IInv, StageInv
  <2>5. QED
    BY <1>1, <2>1, <2>2, <2>3, <2>4, QuietInv
<1>3. CASE Start
  <2>1. Quiet /\ UNCHANGED <<mem, pool, faults>>
    BY <1>3 DEF Start, Quiet, PromptTypes
  <2>2. Holds
    BY <1>3 DEF Start, Holds, IInv, StageInv
  <2>3. TickTypes'
    BY <1>3 DEF Start, TickTypes, Steps
  <2>4. StageInv'
    BY <1>3 DEF Start, IInv, StageInv
  <2>5. QED
    BY <1>1, <2>1, <2>2, <2>3, <2>4, QuietInv
<1>4. ASSUME NEW t \in Tasks, LookAway(t) PROVE IInv'
  <2>1. Quiet /\ UNCHANGED <<mem, pool, faults>>
    BY <1>4 DEF LookAway, Quiet, PromptTypes
  <2>2. Holds
    BY <1>4 DEF LookAway, Holds, IInv, LoopsInv, PromptInv, TickTypes
  <2>3. TickTypes'
    BY <1>4 DEF LookAway, TickTypes, Steps
  <2>4. StageInv'
    BY <1>4 DEF LookAway, IInv, StageInv
  <2>5. QED
    BY <1>1, <2>1, <2>2, <2>3, <2>4, QuietInv
<1>5. ASSUME NEW t \in Tasks, NEW k \in Kinds, LookDue(t, k) PROVE IInv'
  <2>1. Quiet /\ UNCHANGED <<mem, pool, faults>>
    BY <1>5 DEF LookDue, Quiet, PromptTypes
  <2>2. /\ todo[t] \in Masters /\ mem.loops[t] < MaxLoops /\ inbox[todo[t]][t] = 0
        /\ Unanswered(todo[t], t) <= 1
        /\ step = "look" /\ batch' = batch /\ step' = step /\ current' = current
        /\ cand' = [cand EXCEPT ![t] = [master |-> todo[t], kind |-> k]]
        /\ todo' = [todo EXCEPT ![t] = None] /\ lock' = lock /\ mem' = mem /\ file' = file
    BY <1>5 DEF LookDue, Due, IsEmpty, TickTypes, Unanswered
  <2>3. /\ cand'[t] = [master |-> todo[t], kind |-> k] /\ cand'[t] # None
        /\ \A u \in Tasks : u # t => cand'[u] = cand[u] /\ todo'[u] = todo[u]
    <3>1. [master |-> todo[t], kind |-> k] # None
      <4>1. [master |-> todo[t], kind |-> k] \in [master : Masters, kind : Kinds]
        BY <2>2
      <4>2. QED
        BY <4>1, AfkAssumption
    <3>2. QED
      BY <2>2, <3>1 DEF TickTypes
  <2>4. Holds
    BY <1>5, <2>2, <2>3 DEF LookDue, Holds, IInv, LoopsInv, PromptInv, TickTypes
  <2>5. TickTypes'
    BY <2>2, <2>3 DEF TickTypes, Steps
  <2>6. StageInv'
    BY <1>5, <2>2 DEF LookDue, IInv, StageInv
  <2>7. QED
    BY <1>1, <2>1, <2>4, <2>5, <2>6, QuietInv
<1>6. CASE Choose
  <2>1. PICK ts \in SUBSET {t \in Tasks : cand[t] # None} :
          /\ batch' = ts
          /\ cand' = [t \in Tasks |-> IF t \in ts THEN cand[t] ELSE None]
    BY <1>6 DEF Choose
  <2>2. /\ step = "look" /\ step' = "commit" /\ todo = Nothing
        /\ UNCHANGED <<world, sent, late, faults, lock, file, todo, current, mem, pool>>
    BY <1>6 DEF Choose
  <2>3. Quiet
    BY <1>6, <2>2 DEF Choose, Quiet, PromptTypes
  <2>4. Holds
    BY <2>1, <2>2 DEF Holds, IInv, LoopsInv, PromptInv
  <2>5. TickTypes'
    BY <2>1, <2>2 DEF TickTypes, Steps
  <2>6. StageInv'
    BY <2>1, <2>2 DEF IInv, StageInv, TickTypes
  <2>7. QED
    BY <1>1, <2>2, <2>3, <2>4, <2>5, <2>6, QuietInv
<1>7. ASSUME NEW t \in Tasks, Acquire(t) PROVE IInv'
  <2>1. Quiet /\ UNCHANGED <<mem, pool, faults>>
    BY <1>7 DEF Acquire, Quiet, PromptTypes
  <2>2. Holds
    BY <1>7 DEF Acquire, Holds, IInv, LoopsInv, PromptInv
  <2>3. TickTypes'
    BY <1>7 DEF Acquire, TickTypes, Steps
  <2>4. StageInv'
    BY <1>7 DEF Acquire, IInv, StageInv, TickTypes
  <2>5. QED
    BY <1>1, <2>1, <2>2, <2>3, <2>4, QuietInv
<1>8. ASSUME NEW t \in Tasks, LockHeld(t) PROVE IInv'
  <2>1. Quiet /\ UNCHANGED <<mem, pool, faults>>
    BY <1>8 DEF LockHeld, Quiet, PromptTypes
  <2>2. Holds
    BY <1>8 DEF LockHeld, Holds, IInv, LoopsInv, PromptInv, TickTypes
  <2>3. TickTypes'
    BY <1>8 DEF LockHeld, TickTypes, Steps
  <2>4. StageInv'
    BY <1>8 DEF LockHeld, IInv, StageInv, TickTypes
  <2>5. QED
    BY <1>1, <2>1, <2>2, <2>3, <2>4, QuietInv
<1>9. QED
  BY <1>2, <1>3, <1>4, <1>5, <1>6, <1>7, <1>8

-----------------------------------------------------------------------------
(* The prompt, and the ways a tick ends.                                   *)

\* A prompt that arrives finds at most one of its task unanswered and is, for
\* a task put aside meanwhile, the only one since.
LEMMA ArriveInv ==
    ASSUME IInv, step = "send", Arrive(current), UNCHANGED <<hub, agents>>
    PROVE  /\ current \in Tasks /\ mem.loops[current] < MaxLoops /\ todo = Nothing
           /\ inbox' \in Inboxes /\ PromptsDoNotPile'
           /\ \A m \in Masters, t \in Tasks :
                t # current => Unanswered(m, t)' = Unanswered(m, t)
           /\ late' \in [Tasks -> Nat]
           /\ \A t \in Tasks : late'[t] <= 1 /\ (Active(t)' => late'[t] = 0)
           /\ \A t \in Tasks : t # current => late'[t] = late[t]
           /\ sent' = [sent EXCEPT ![current] = sent[current] + 1]
<1> USE TickFacts
<1>1. /\ current \in Tasks /\ cand[current] # None
      /\ cand[current] \in [master : Masters, kind : Kinds]
  BY DEF TickTypes
<1>2. mem.loops[current] < MaxLoops /\ todo = Nothing
  BY <1>1 DEF IInv, LoopsInv, StageInv
<1> DEFINE m == cand[current].master
<1> DEFINE n == inbox[m][current] + 1
<1>3. /\ m \in Masters /\ inbox \in Inboxes /\ Unanswered(m, current) <= 1
      /\ current \in Tasks \cup {Other} /\ n \in Nat
  <2>1. m \in Masters /\ inbox \in Inboxes /\ Unanswered(m, current) <= 1
    BY <1>1 DEF IInv, PromptInv, PromptTypes
  <2> HIDE DEF m
  <2>2. inbox[m][current] \in Nat
    BY <1>1, <2>1 DEF Inboxes
  <2>3. QED
    BY <1>1, <2>1, <2>2
<1>4. /\ inbox' \in Inboxes
      /\ \A p \in Masters, t \in Tasks :
           inbox'[p][t] = inbox[p][t] \/ (p = m /\ t = current /\ inbox'[p][t] = n)
  <2>1. CASE inbox' = inbox
    BY <1>3, <2>1
  <2>2. CASE Becomes(m, current, n)
    <3> HIDE DEF m, n
    <3>1. /\ inbox' \in Inboxes
          /\ \A p \in Masters, r \in Tasks \cup {Other} :
               inbox'[p][r] = IF p = m /\ r = current THEN n ELSE inbox[p][r]
      BY <1>3, <2>2, InboxStep
    <3>2. QED
      BY <3>1
  <2>3. inbox' = inbox \/ Becomes(m, current, n)
    BY DEF Arrive, Becomes
  <2>4. QED
    BY <2>1, <2>2, <2>3
<1>c. claim' = claim
  BY DEF agents
<1>5. PromptsDoNotPile'
  <2> SUFFICES ASSUME NEW p \in Masters, NEW t \in Tasks PROVE Unanswered(p, t)' <= 2
    BY DEF PromptsDoNotPile
  <2>1. CASE inbox'[p][t] = inbox[p][t]
    BY <1>c, <2>1 DEF IInv, PromptInv, PromptsDoNotPile, Unanswered
  <2>2. CASE p = m /\ t = current /\ inbox'[p][t] = n
    <3> HIDE DEF m
    <3>1. inbox[m][current] \in Nat /\ inbox'[m][current] = inbox[m][current] + 1
      BY <1>1, <1>3, <2>2 DEF Inboxes
    <3>2. QED
      BY <1>3, <1>c, <2>2, <3>1 DEF Unanswered
  <2>3. QED
    BY <1>4, <2>1, <2>2
<1>6. \A p \in Masters, t \in Tasks : t # current => Unanswered(p, t)' = Unanswered(p, t)
  BY <1>4, <1>c DEF Unanswered
<1>7. /\ late' \in [Tasks -> Nat]
      /\ \A t \in Tasks : late'[t] <= 1 /\ (Active(t)' => late'[t] = 0)
      /\ \A t \in Tasks : t # current => late'[t] = late[t]
  <2>1. late[current] = 0 /\ late \in [Tasks -> Nat]
    BY <1>1 DEF IInv, PauseInv, PromptTypes
  <2>2. late' = [late EXCEPT ![current] = IF Active(current) THEN 0 ELSE 1]
    BY <2>1 DEF Arrive
  <2>3. \A t \in Tasks : (Active(t)' <=> Active(t)) /\ late[t] <= 1 /\ (Active(t) => late[t] = 0)
    BY DEF IInv, PauseInv, Active, hub
  <2>4. QED
    BY <1>1, <2>1, <2>2, <2>3
<1>8. sent' = [sent EXCEPT ![current] = sent[current] + 1]
  BY DEF Arrive
<1>9. QED
  BY <1>1, <1>2, <1>4, <1>5, <1>6, <1>7, <1>8

\* The orchestrator places a prompt.
LEMMA SendInv == ASSUME IInv, Send PROVE IInv'
<1> USE TickFacts
<1>1. /\ step = "send" /\ Arrive(current) /\ UNCHANGED <<hub, agents>>
      /\ step' = "commit" /\ current' = None /\ todo' = todo /\ batch' = batch
      /\ cand' = [cand EXCEPT ![current] = None] /\ lock' = lock \ {current}
      /\ mem' = [loops |-> [mem.loops EXCEPT ![current] = mem.loops[current] + 1],
                 at    |-> [mem.at EXCEPT ![current] = Latest + 1]]
      /\ UNCHANGED <<file, pool, passed, faults>>
  BY DEF Send
<1>2. /\ current \in Tasks /\ mem.loops[current] < MaxLoops /\ todo = Nothing
      /\ inbox' \in Inboxes /\ PromptsDoNotPile'
      /\ \A m \in Masters, t \in Tasks :
           t # current => Unanswered(m, t)' = Unanswered(m, t)
      /\ late' \in [Tasks -> Nat]
      /\ \A t \in Tasks : late'[t] <= 1 /\ (Active(t)' => late'[t] = 0)
      /\ \A t \in Tasks : t # current => late'[t] = late[t]
      /\ sent' = [sent EXCEPT ![current] = sent[current] + 1]
  BY <1>1, ArriveInv
<1>3. \A t \in Tasks : cand'[t] # None => t # current /\ cand'[t] = cand[t]
  BY <1>1, <1>2 DEF TickTypes
<1>4. Latest \in Nat /\ \A t \in Tasks : file.at[t] <= Latest
  BY <1>2, LatestIsNat DEF IInv, TickTypes
<1>5. mem' \in Counts /\ mem.at \in [Tasks -> Nat]
  BY <1>1, <1>2, <1>4 DEF TickTypes, Counts
<1>6. TickTypes'
  <2>1. cand' \in [Tasks -> [master : Masters, kind : Kinds] \cup {None}]
    BY <1>1 DEF TickTypes
  <2>2. batch' \subseteq {t \in Tasks : cand'[t] # None}
    BY <1>1, <1>2 DEF TickTypes, IInv, StageInv
  <2>3. QED
    BY <1>1, <1>5, <2>1, <2>2 DEF TickTypes, Steps
<1>7. HubTypes' /\ PoolTypes'
  BY <1>1 DEF HubTypes, PoolTypes, hub, agents, pool
<1>8. PromptTypes'
  BY <1>1, <1>2 DEF PromptTypes
<1>9. StageInv'
  BY <1>1, <1>2, <1>3 DEF IInv, StageInv, TickTypes, pool
<1>10. PromptInv'
  <2>1. ASSUME NEW t \in Tasks, cand'[t] # None
        PROVE  inbox'[cand'[t].master][t] + (IF claim'[cand'[t].master] = t THEN 1 ELSE 0) <= 1
    <3>1. t # current /\ cand'[t] = cand[t] /\ cand[t] # None /\ cand[t].master \in Masters
      BY <1>3, <2>1 DEF TickTypes
    <3> DEFINE m == cand[t].master
    <3>2. Unanswered(m, t)' = Unanswered(m, t) /\ Unanswered(m, t) <= 1
      BY <1>2, <3>1 DEF IInv, PromptInv
    <3>3. QED
      BY <3>1, <3>2 DEF Unanswered
  <2>2. QED
    BY <1>2, <2>1 DEF PromptInv, Unanswered
<1>11. PauseInv'
  <2>1. ASSUME NEW t \in Tasks, cand'[t] # None PROVE late'[t] = 0
    BY <1>2, <1>3, <2>1 DEF IInv, PauseInv
  <2>2. \A t \in Tasks : todo'[t] = None
    BY <1>1, <1>2 DEF Nothing
  <2>3. QED
    BY <1>2, <2>1, <2>2 DEF PauseInv
<1>12. LoopsInv'
  <2> SUFFICES ASSUME NEW t \in Tasks
               PROVE  /\ file'.loops[t] <= MaxLoops /\ mem'.loops[t] <= MaxLoops
                      /\ cand'[t] # None => mem'.loops[t] < MaxLoops
                      /\ sent'[t] <= mem'.loops[t] + MaxLoops * faults'
    BY DEF LoopsInv
  <2>1. /\ file.loops[t] <= MaxLoops /\ mem.loops[t] <= MaxLoops
        /\ cand[t] # None => mem.loops[t] < MaxLoops
        /\ sent[t] <= mem.loops[t] + MaxLoops * faults
    BY DEF IInv, LoopsInv
  <2>2. MaxLoops * faults \in Nat /\ MaxLoops \in Nat
    BY Sizes, OneMore DEF PoolTypes
  <2>3. sent[t] \in Nat /\ mem.loops[t] \in Nat /\ sent \in [Tasks -> Nat]
    BY DEF PromptTypes
  <2>4. CASE t = current
    <3>1. mem'.loops[t] = mem.loops[t] + 1 /\ sent'[t] = sent[t] + 1 /\ cand'[t] = None
      BY <1>1, <1>2, <1>3, <2>3, <2>4
    <3>2. mem.loops[t] + 1 <= MaxLoops
      BY <1>2, <2>2, <2>3, <2>4
    <3>3. sent[t] + 1 <= (mem.loops[t] + 1) + MaxLoops * faults
      BY <2>1, <2>2, <2>3
    <3>4. QED
      BY <1>1, <2>1, <3>1, <3>2, <3>3
  <2>5. CASE t # current
    BY <1>1, <1>2, <1>3, <2>1, <2>3, <2>5
  <2>6. QED
    BY <2>4, <2>5
<1>13. PoolInv'
  BY <1>1 DEF IInv, PoolInv, pool
<1>14. TimeInv'
  <2>1. PICK b \in Nat : \A t \in Tasks : file.at[t] <= b /\ mem.at[t] <= b
    BY DEF IInv, TimeInv
  <2>2. PICK c \in Nat : b <= c /\ Latest + 1 <= c
    <3>1. CASE b <= Latest + 1
      BY <1>4, <3>1
    <3>2. CASE Latest + 1 <= b
      BY <3>2
    <3>3. QED
      BY <1>4, <2>1, <3>1, <3>2
  <2>3. file.at \in [Tasks -> Nat]
    BY DEF TickTypes, Counts
  <2>4. \A t \in Tasks : file.at[t] <= c /\ mem.at[t] <= c
    BY <1>5, <2>1, <2>2, <2>3
  <2>5. \A t \in Tasks : mem'.at[t] = IF t = current THEN Latest + 1 ELSE mem.at[t]
    BY <1>1, <1>5
  <2>6. QED
    BY <1>1, <2>2, <2>4, <2>5 DEF TimeInv
<1>15. QED
  BY <1>6, <1>7, <1>8, <1>9, <1>10, <1>11, <1>12, <1>13, <1>14 DEF IInv, TypeOK

\* The tick ends well.
LEMMA SaveInv == ASSUME IInv, Save PROVE IInv'
<1> USE TickFacts DEF world, history, hub, agents
<1>1. /\ step = "commit" /\ batch = {} /\ step' = "idle"
      /\ UNCHANGED <<world, history, lock, todo, cand, batch, current, mem, missing, stray>>
      /\ file' = mem /\ known' = known + fresh /\ fresh' = 0
  BY DEF Save
<1>2. cand = Nothing /\ todo = Nothing /\ current = None
  BY <1>1 DEF IInv, StageInv, TickTypes, Nothing
<1>3. TickTypes' /\ StageInv'
  BY <1>1, <1>2 DEF TickTypes, Steps, StageInv, IInv
<1>4. HubTypes' /\ PromptTypes'
  BY <1>1 DEF HubTypes, PromptTypes
<1>5. PoolTypes' /\ PoolInv'
  <2>1. /\ known \in Nat /\ fresh \in Nat /\ missing \in Nat
        /\ known + fresh + missing <= Desired /\ stray <= Desired * faults
    BY DEF IInv, PoolTypes, PoolInv
  <2>2. known + fresh \in Nat /\ (known + fresh) + 0 + missing <= Desired
    BY <2>1
  <2>3. QED
    BY <1>1, <2>1, <2>2 DEF PoolTypes, PoolInv
<1>6. PromptInv' /\ PauseInv'
  BY <1>1, <1>2 DEF IInv, PromptInv, PromptsDoNotPile, Unanswered, PauseInv, Active, Nothing
<1>7. LoopsInv' /\ TimeInv'
  BY <1>1, <1>2 DEF IInv, LoopsInv, TimeInv, Nothing
<1>8. QED
  BY <1>3, <1>4, <1>5, <1>6, <1>7 DEF IInv, TypeOK

\* What any end that is cut short leaves to the next tick.
Broken ==
    /\ todo' = Nothing /\ cand' = Nothing /\ batch' = {} /\ current' = None
    /\ fresh' = 0 /\ missing' = 0
    /\ mem' = file' /\ step' \in {"down", "idle"} /\ faults' = faults + 1
    /\ lock' \subseteq Tasks /\ UNCHANGED <<hub, agents, passed>>

\* The prompt under way arrives, or it does not.
Landed ==
    \/ UNCHANGED <<inbox, sent, late>>
    \/ step = "send" /\ Arrive(current)

\* The invariant survives a tick that is cut short.
LEMMA BrokenInv ==
    ASSUME IInv, Broken, Landed,
           file' \in Counts, \A t \in Tasks : file'.loops[t] <= MaxLoops,
           \E b \in Nat : \A t \in Tasks : file'.at[t] <= b,
           known' \in Nat, known' <= Desired, stray' \in Nat,
           stray' <= stray + Desired
    PROVE  IInv'
<1> USE TickFacts
<1>1. /\ Nothing \in [Tasks -> {None}] /\ \A t \in Tasks : cand'[t] = None /\ todo'[t] = None
      /\ HubTypes' /\ TickTypes'
  <2>1. Nothing \in [Tasks -> {None}]
    BY DEF Nothing
  <2>2. HubTypes'
    BY DEF Broken, HubTypes, hub, agents
  <2>3. TickTypes'
    BY <2>1 DEF Broken, TickTypes, Steps
  <2>4. QED
    BY <2>1, <2>2, <2>3 DEF Broken
<1>2. PoolTypes' /\ PoolInv'
  <2>1. /\ stray \in Nat /\ faults \in Nat /\ Desired \in Nat /\ stray <= Desired * faults
        /\ faults + 1 \in Nat
    BY Sizes DEF IInv, PoolTypes, PoolInv
  <2>2. stray + Desired <= Desired * (faults + 1)
    BY <2>1, OneMore
  <2>3. stray' <= Desired * (faults + 1)
    BY <2>1, <2>2, OneMore, AtMost
  <2>4. known' + 0 + 0 <= Desired
    BY <2>1, Padded
  <2>5. QED
    BY <2>1, <2>3, <2>4 DEF Broken, PoolTypes, PoolInv
<1>3. StageInv'
  BY DEF Broken, StageInv
<1>4. /\ inbox' \in Inboxes /\ PromptsDoNotPile'
      /\ late' \in [Tasks -> Nat]
      /\ \A t \in Tasks : late'[t] <= 1 /\ (Active(t)' => late'[t] = 0)
      /\ \/ sent' = sent
         \/ current \in Tasks /\ sent' = [sent EXCEPT ![current] = sent[current] + 1]
            /\ mem.loops[current] < MaxLoops
  <2>1. CASE UNCHANGED <<inbox, sent, late>>
    BY <2>1 DEF Broken, hub, agents, Active, PromptTypes, IInv, PromptInv, PromptsDoNotPile,
                Unanswered, PauseInv
  <2>2. CASE step = "send" /\ Arrive(current)
    BY <2>2, ArriveInv DEF Broken
  <2>3. QED
    BY <2>1, <2>2 DEF Landed
<1>5. PromptTypes' /\ PromptInv' /\ PauseInv'
  BY <1>1, <1>4 DEF Broken, PromptTypes, PromptInv, PauseInv
<1>6. LoopsInv'
  <2> SUFFICES \A t \in Tasks : sent'[t] <= MaxLoops * (faults + 1)
    <3> SUFFICES ASSUME NEW t \in Tasks, sent'[t] <= MaxLoops * (faults + 1)
                 PROVE  sent'[t] <= mem'.loops[t] + MaxLoops * (faults + 1)
      BY <1>1 DEF Broken, LoopsInv
    <3>1. sent'[t] \in Nat /\ mem'.loops[t] \in Nat /\ MaxLoops * (faults + 1) \in Nat
      BY <1>1, <1>5, Sizes, OneMore DEF PromptTypes, PoolTypes, TickTypes, Counts
    <3>2. QED
      BY <3>1, Shift
  <2> TAKE t \in Tasks
  <2>1. /\ sent[t] \in Nat /\ mem.loops[t] \in Nat /\ faults \in Nat /\ MaxLoops \in Nat
        /\ sent[t] <= mem.loops[t] + MaxLoops * faults /\ mem.loops[t] <= MaxLoops
        /\ sent \in [Tasks -> Nat]
    BY Sizes DEF IInv, LoopsInv, PromptTypes, PoolTypes
  <2>2. /\ MaxLoops * faults \in Nat
        /\ MaxLoops * (faults + 1) = MaxLoops * faults + MaxLoops
    BY <2>1, OneMore
  <2>3. sent[t] <= MaxLoops * faults + MaxLoops
    BY <2>1, <2>2
  <2>4. CASE sent'[t] = sent[t]
    BY <2>2, <2>3, <2>4
  <2>5. CASE sent'[t] = sent[t] + 1 /\ mem.loops[t] < MaxLoops
    <3>1. sent[t] + 1 <= MaxLoops * faults + MaxLoops
      BY <2>1, <2>2, <2>5
    <3>2. QED
      BY <2>2, <2>5, <3>1
  <2>6. QED
    BY <1>4, <2>1, <2>4, <2>5
<1>7. TimeInv'
  BY DEF Broken, TimeInv
<1>8. QED
  BY <1>1, <1>2, <1>3, <1>5, <1>6, <1>7 DEF IInv, TypeOK

\* An HTTP call fails, the process stops, or dies in a write.
LEMMA FaultInv == ASSUME IInv, Throw \/ Stop \/ Tear PROVE IInv'
<1> USE TickFacts DEF Fault
<1>1. /\ known \in Nat /\ fresh \in Nat /\ missing \in Nat /\ stray \in Nat
      /\ known + fresh + missing <= Desired /\ Desired \in Nat
  BY Sizes DEF IInv, PoolTypes, PoolInv
<1>2. /\ file \in Counts /\ \A t \in Tasks : file.loops[t] <= MaxLoops
      /\ \E b \in Nat : \A t \in Tasks : file.at[t] <= b
  BY DEF IInv, LoopsInv, TimeInv, TickTypes
<1>3. ASSUME Throw \/ Stop, NEW n \in {0, 1}, n <= missing, Forget(n), Landed PROVE IInv'
  <2>1. Broken /\ file' = file
    BY <1>3 DEF Throw, Stop, Forget, Broken, TickTypes
  <2>2. known' = known /\ stray' = stray + fresh + n
    BY <1>3 DEF Forget
  <2>3. known <= Desired
    BY <1>1
  <2>4. stray + fresh + n \in Nat /\ stray + fresh + n <= stray + Desired
    BY <1>1, <1>3
  <2>5. QED
    BY <1>1, <1>2, <1>3, <2>1, <2>2, <2>3, <2>4, BrokenInv
<1>4. ASSUME Throw \/ Stop PROVE IInv'
  <2>1. CutShort \/ (Forget(0) /\ UNCHANGED <<inbox, sent, late>>)
    BY <1>4 DEF Throw, Stop
  <2>2. \E n \in {0, 1} : n <= missing /\ Forget(n) /\ Landed
    <3>1. 0 <= missing
      BY <1>1
    <3>2. QED
      BY <2>1, <3>1 DEF CutShort, Landed
  <2>3. QED
    BY <1>3, <1>4, <2>2
<1>5. ASSUME Tear PROVE IInv'
  <2>1. /\ step = "commit" /\ batch = {} /\ file' = NoState /\ mem' = NoState
        /\ stray' = stray + known + fresh /\ known' = 0 /\ fresh' = 0 /\ step' = "down"
        /\ faults' = faults + 1
        /\ UNCHANGED <<world, sent, late, passed, lock, todo, cand, batch, current, missing>>
    BY <1>5 DEF Tear
  <2>2. cand = Nothing /\ todo = Nothing /\ current = None
    BY <2>1 DEF IInv, StageInv, TickTypes, Nothing
  <2>3. Broken /\ Landed
    BY <2>1, <2>2 DEF Broken, Landed, IInv, StageInv, TickTypes, world, hub
  <2>4. file' \in Counts /\ \A t \in Tasks : file'.loops[t] <= MaxLoops
    BY <2>1, Sizes DEF NoState, Counts
  <2>5. \E b \in Nat : \A t \in Tasks : file'.at[t] <= b
    BY <2>1 DEF NoState
  <2>6. /\ stray + known + fresh \in Nat /\ stray + known + fresh <= stray + Desired
        /\ 0 <= Desired
    BY <1>1
  <2>7. QED
    BY <2>1, <2>3, <2>4, <2>5, <2>6, BrokenInv
<1>6. QED
  BY <1>4, <1>5

-----------------------------------------------------------------------------
(* Turns.  While no dead process has left its lock, every tick that puts a *)
(* due task off moves Cap others, last prompted no later than it, ahead of *)
(* it.  There are only so many, until a fault loses the order.             *)

\* The tasks this tick is going to prompt.
Coming == batch \cup {current}

\* The tasks that may still be preferred to t.
Behind(t) == {u \in Tasks \ {t} : u \notin Coming /\ mem.at[u] <= mem.at[t]}

Others == Cardinality(Tasks) - 1

\* A task that was put off since its last prompt has not been prompted in
\* this tick.
TurnInv ==
    \A t \in Tasks :
      /\ t \in Coming => passed[t] = 0
      /\ passed[t] = 0 \/ mem.at[t] = file.at[t]
      /\ Cap * passed[t] + Cardinality(Behind(t)) <= Others * (1 + faults)

RotationInv == lock \subseteq {current} => TurnInv

\* Others are at most all the others.
LEMMA OthersAreFew ==
    ASSUME NEW t \in Tasks, NEW S, S \subseteq Tasks \ {t}
    PROVE  /\ IsFiniteSet(S) /\ Cardinality(S) \in Nat
           /\ Others \in Nat /\ Cardinality(S) <= Others
<1>1. IsFiniteSet(Tasks) /\ Cardinality(Tasks) \in Nat
  BY TasksAssumption, FS_CardinalityType
<1>2. IsFiniteSet(Tasks \ {t}) /\ Cardinality(Tasks \ {t}) = Others
  BY <1>1, FS_RemoveElement DEF Others
<1>3. IsFiniteSet(S) /\ Cardinality(S) <= Others
  BY <1>2, FS_Subset
<1>4. Cardinality(S) \in Nat /\ Others \in Nat
  BY <1>2, <1>3, FS_CardinalityType
<1>5. QED
  BY <1>3, <1>4

\* Fewer behind, no more put off, and no fewer faults keep the bound.
LEMMA TurnKept ==
    ASSUME NEW t \in Tasks, NEW S, NEW R, S \subseteq R, R \subseteq Tasks \ {t},
           NEW p \in Nat, NEW f \in Nat, NEW g \in Nat, f <= g,
           Cap * p + Cardinality(R) <= Others * (1 + f)
    PROVE  Cap * p + Cardinality(S) <= Others * (1 + g)
<1>1. /\ IsFiniteSet(R) /\ Cardinality(S) \in Nat /\ Cardinality(R) \in Nat /\ Others \in Nat
  BY OthersAreFew
<1>2. Cardinality(S) <= Cardinality(R)
  BY <1>1, FS_Subset
<1>3. 1 + f \in Nat /\ 1 + g \in Nat /\ 1 + f <= 1 + g
  OBVIOUS
<1>4. /\ Others * (1 + f) \in Nat /\ Others * (1 + g) \in Nat
      /\ Others * (1 + f) <= Others * (1 + g)
  BY <1>1, <1>3, MoreFaults
<1>5. Cap * p \in Nat
  BY Sizes, OneMore
<1>6. QED
  BY <1>1, <1>2, <1>4, <1>5

\* A task that was just prompted may stand behind all the others.
LEMMA TurnAnew ==
    ASSUME NEW t \in Tasks, NEW S, S \subseteq Tasks \ {t}, NEW f \in Nat
    PROVE  Cap * 0 + Cardinality(S) <= Others * (1 + f)
<1>1. Cardinality(S) \in Nat /\ Others \in Nat /\ Cardinality(S) <= Others
  BY OthersAreFew
<1>2. Cap * 0 = 0 /\ Others * (f + 1) = Others * f + Others /\ Others * f \in Nat /\ 1 + f = f + 1
  BY <1>1, Sizes, OneMore
<1>3. QED
  BY <1>1, <1>2

\* Once more put off, Cap fewer behind.
LEMMA TurnPassed ==
    ASSUME NEW t \in Tasks, NEW R, R \subseteq Tasks \ {t}, NEW T, T \subseteq R,
           Cardinality(T) = Cap, NEW p \in Nat, NEW f \in Nat,
           Cap * p + Cardinality(R) <= Others * (1 + f)
    PROVE  Cap * (p + 1) + Cardinality(R \ T) <= Others * (1 + f)
<1>1. IsFiniteSet(R) /\ IsFiniteSet(T) /\ IsFiniteSet(R \ T)
  BY OthersAreFew
<1>2. Cardinality(R \ T) = Cardinality(R) - Cardinality(T)
  <2>1. R \cap T = T
    OBVIOUS
  <2>2. QED
    BY <1>1, <2>1, FS_Difference
<1>3. Cap * (p + 1) = Cap * p + Cap /\ Cap * p \in Nat /\ Cap \in Nat
  BY Sizes, OneMore
<1>4. Cardinality(R) \in Nat /\ Cardinality(R \ T) \in Nat /\ Others * (1 + f) \in Nat
  <2>1. Cardinality(R) \in Nat /\ Cardinality(R \ T) \in Nat /\ Others \in Nat
    BY OthersAreFew
  <2>2. QED
    BY <2>1, MoreFaults
<1>5. QED
  BY <1>2, <1>3, <1>4

\* A fault that loses the order pays for all the others once more.
LEMMA TurnLost ==
    ASSUME NEW t \in Tasks, NEW R, R \subseteq Tasks \ {t}, NEW S, S \subseteq Tasks \ {t},
           NEW p \in Nat, NEW f \in Nat,
           Cap * p + Cardinality(R) <= Others * (1 + f)
    PROVE  Cap * p + Cardinality(S) <= Others * (1 + (f + 1))
<1>1. /\ Cardinality(R) \in Nat /\ Cardinality(S) \in Nat /\ Others \in Nat
      /\ Cardinality(S) <= Others
  BY OthersAreFew
<1>2. /\ 1 + f \in Nat /\ 1 + (f + 1) = (1 + f) + 1
  OBVIOUS
<1>3. /\ Others * ((1 + f) + 1) = Others * (1 + f) + Others /\ Others * (1 + f) \in Nat
  BY <1>1, <1>2, OneMore
<1>4. Cap * p \in Nat
  BY Sizes, OneMore
<1>5. QED
  BY <1>1, <1>2, <1>3, <1>4

\* Nothing has been put off at the start.
LEMMA TurnInit == Init => RotationInv
<1> SUFFICES ASSUME Init PROVE TurnInv
  BY DEF RotationInv
<1>1. /\ batch = {} /\ current = None /\ mem = file /\ faults = 0
      /\ \A t \in Tasks : passed[t] = 0
  BY DEF Init
<1>2. \A t \in Tasks : Behind(t) \subseteq Tasks \ {t}
  BY DEF Behind
<1>3. \A t \in Tasks : Cap * passed[t] + Cardinality(Behind(t)) <= Others * (1 + faults)
  BY <1>1, <1>2, TurnAnew
<1>4. QED
  BY <1>1, <1>3 DEF TurnInv

\* What neither prompts nor plans to keeps the turns; a fault may happen.
Steady ==
    /\ UNCHANGED <<batch, current, mem, file, passed, lock>>
    /\ faults' \in Nat /\ faults' >= faults

LEMMA SteadyTurns == ASSUME IInv, RotationInv, Steady PROVE RotationInv'
<1> SUFFICES ASSUME TurnInv PROVE TurnInv'
  BY DEF RotationInv, Steady
<1>1. \A t \in Tasks : Behind(t)' = Behind(t) /\ Behind(t) \subseteq Tasks \ {t}
  BY DEF Behind, Coming, Steady
<1>2. faults \in Nat /\ faults' \in Nat /\ faults <= faults' /\ \A t \in Tasks : passed[t] \in Nat
  BY TickFacts DEF Steady, PoolTypes, PromptTypes
<1>3. ASSUME NEW t \in Tasks
      PROVE  Cap * passed[t] + Cardinality(Behind(t)) <= Others * (1 + faults')
  BY <1>1, <1>2, TurnKept DEF TurnInv
<1>4. QED
  BY <1>1, <1>3 DEF Steady, TurnInv, Coming

\* Commands, masters, the pool and a look at a task are such steps.
LEMMA ManySteady ==
    ASSUME IInv, Users \/ Prune \/ Start \/ Begin \/ Create \/ ReadTasks
                 \/ \E t \in Tasks : LookAway(t) \/ \E k \in Kinds : LookDue(t, k)
    PROVE  Steady
<1> USE TickFacts DEF PoolTypes, world, history, tick, pool, hub, Fault
<1>1. CASE Users
  BY <1>1 DEF Users, OneClick, OneClickDone, OneClickFails, Arm, SetAside, Pause, Done, Halt,
              Resume, Post, StartService, RemovePooled, TakeMessage, Answer, PutBack, Turn,
              WaitAgain, GoOffline, ComeBack, Command, Steady
<1>2. CASE Prune \/ Start \/ Create \/ ReadTasks
  BY <1>2 DEF Prune, Start, Create, ReadTasks, Steady
<1>3. CASE Begin
  BY <1>3 DEF Begin, Steady, IInv, StageInv
<1>4. CASE \E t \in Tasks : LookAway(t) \/ \E k \in Kinds : LookDue(t, k)
  BY <1>4 DEF LookAway, LookDue, Steady
<1>5. QED
  BY <1>1, <1>2, <1>3, <1>4

\* The tick chooses: who is put off has Cap tasks fewer behind.
LEMMA ChooseTurns == ASSUME IInv, RotationInv, Choose PROVE RotationInv'
<1> SUFFICES ASSUME TurnInv PROVE TurnInv'
  BY DEF RotationInv, Choose
<1> DEFINE due == {t \in Tasks : cand[t] # None}
<1>1. PICK ts \in SUBSET due :
        /\ ts = due \/ Cardinality(ts) = Cap
        /\ \A t \in ts, u \in due \ ts : mem.at[t] <= mem.at[u]
        /\ batch' = ts
        /\ passed' = [t \in Tasks |-> IF t \in ts THEN 0
                                      ELSE IF t \in due /\ passed[t] < PassLimit
                                           THEN passed[t] + 1 ELSE passed[t]]
  BY DEF Choose
<1>2. /\ batch = {} /\ current = None /\ None \notin Tasks /\ mem = file
      /\ UNCHANGED <<current, mem, file, faults>>
  BY TickFacts DEF Choose, IInv, StageInv, TickTypes, world
<1>3. faults \in Nat /\ \A t \in Tasks : passed[t] \in Nat
  BY TickFacts DEF PoolTypes, PromptTypes
<1>4. \A t \in Tasks : Behind(t)' = Behind(t) \ ts /\ Behind(t) \subseteq Tasks \ {t}
  BY <1>1, <1>2 DEF Behind, Coming
<1>5. ASSUME NEW t \in Tasks
      PROVE  Cap * passed'[t] + Cardinality(Behind(t)') <= Others * (1 + faults')
  <2>1. CASE t \in ts
    <3>1. passed'[t] = 0
      BY <1>1, <2>1
    <3>2. Behind(t)' \subseteq Tasks \ {t}
      BY <1>4
    <3>3. QED
      BY <1>2, <1>3, <3>1, <3>2, TurnAnew
  <2>2. CASE t \notin ts /\ passed'[t] = passed[t]
    <3>1. Behind(t)' \subseteq Behind(t) /\ faults <= faults /\ faults' = faults
      BY <1>2, <1>3, <1>4
    <3>2. QED
      BY <1>3, <1>4, <2>2, <3>1, TurnKept DEF TurnInv
  <2>3. CASE t \in due \ ts /\ passed'[t] = passed[t] + 1
    <3>1. Cardinality(ts) = Cap /\ ts \subseteq Behind(t)
      BY <1>1, <1>2, <2>3 DEF Behind, Coming
    <3>2. QED
      BY <1>2, <1>3, <1>4, <2>3, <3>1, TurnPassed DEF TurnInv
  <2>4. t \in ts \/ passed'[t] = passed[t] \/ (t \in due \ ts /\ passed'[t] = passed[t] + 1)
    BY <1>1
  <2>5. QED
    BY <2>1, <2>2, <2>3, <2>4
<1>6. \A t \in Tasks : (t \in Coming' => passed'[t] = 0) /\ mem'.at[t] = file'.at[t]
  BY <1>1, <1>2 DEF Coming
<1>7. QED
  BY <1>5, <1>6 DEF TurnInv

\* A lock that is taken moves a task from the batch to the one under way; one
\* that cannot be taken was left by a dead process.
LEMMA LockTurns ==
    ASSUME IInv, RotationInv, NEW t \in Tasks, Acquire(t) \/ LockHeld(t)
    PROVE  RotationInv'
<1> USE TickFacts
<1>1. current = None /\ None \notin Tasks /\ UNCHANGED <<mem, file, passed, faults>>
  BY DEF Acquire, LockHeld, TickTypes, world, history
<1>2. CASE Acquire(t)
  <2>1. lock' \subseteq {current'} => lock \subseteq {current}
    BY <1>2 DEF Acquire
  <2>2. \A u \in Tasks : u \in Coming' <=> u \in Coming
    BY <1>1, <1>2 DEF Acquire, Coming
  <2>3. \A u \in Tasks : Behind(u)' = Behind(u)
    BY <1>1, <2>2 DEF Behind
  <2>4. TurnInv => TurnInv'
    BY <1>1, <2>2, <2>3 DEF TurnInv
  <2>5. QED
    BY <2>1, <2>4 DEF RotationInv
<1>3. CASE LockHeld(t)
  BY <1>1, <1>3 DEF LockHeld, RotationInv
<1>4. QED
  BY <1>2, <1>3

\* The prompt of a task puts it ahead of all that have been put off.
LEMMA SendTurns == ASSUME IInv, RotationInv, Send PROVE RotationInv'
<1> USE TickFacts
<1>1. /\ current \in Tasks /\ current' = None /\ None \notin Tasks
      /\ lock' = lock \ {current} /\ lock \subseteq Tasks
      /\ mem'.at = [mem.at EXCEPT ![current] = Latest + 1]
      /\ UNCHANGED <<batch, file, passed, faults>>
  BY DEF Send, TickTypes
<1>2. mem.at \in [Tasks -> Nat] /\ file.at \in [Tasks -> Nat]
  BY DEF TickTypes, Counts
<1>3. Latest \in Nat /\ \A t \in Tasks : file.at[t] <= Latest
  BY <1>1, LatestIsNat DEF IInv, TickTypes
<1>4. faults \in Nat /\ \A t \in Tasks : passed[t] \in Nat
  BY DEF PoolTypes, PromptTypes
<1> SUFFICES ASSUME TurnInv PROVE TurnInv'
  BY <1>1 DEF RotationInv
<1>5. passed[current] = 0
  BY <1>1 DEF TurnInv, Coming
<1>6. ASSUME NEW t \in Tasks
      PROVE  /\ t \in Coming' => passed'[t] = 0
             /\ passed'[t] = 0 \/ mem'.at[t] = file'.at[t]
  BY <1>1, <1>2, <1>5 DEF TurnInv, Coming
<1>7. ASSUME NEW t \in Tasks
      PROVE  Cap * passed'[t] + Cardinality(Behind(t)') <= Others * (1 + faults')
  <2>1. Behind(t) \subseteq Tasks \ {t} /\ Behind(t)' \subseteq Tasks \ {t}
    BY DEF Behind
  <2>2. CASE passed[t] = 0
    BY <1>1, <1>4, <2>1, <2>2, TurnAnew
  <2>3. CASE passed[t] # 0
    <3>1. t # current /\ mem.at[t] = file.at[t] /\ mem'.at[t] = mem.at[t]
      BY <1>1, <1>2, <1>5, <2>3 DEF TurnInv
    <3>2. mem'.at[current] = Latest + 1 /\ ~(Latest + 1 <= mem.at[t])
      BY <1>1, <1>2, <1>3, <3>1
    <3>3. \A u \in Tasks \ {current} : mem'.at[u] = mem.at[u] /\ (u \in Coming' <=> u \in Coming)
      BY <1>1, <1>2 DEF Coming
    <3>4. Behind(t)' \subseteq Behind(t)
      BY <3>1, <3>2, <3>3 DEF Behind
    <3>5. passed'[t] = passed[t] /\ faults' = faults /\ faults <= faults
      BY <1>1, <1>4
    <3>6. Cap * passed[t] + Cardinality(Behind(t)) <= Others * (1 + faults)
      BY DEF TurnInv
    <3>7. Cap * passed[t] + Cardinality(Behind(t)') <= Others * (1 + faults)
      BY <1>4, <2>1, <3>4, <3>5, <3>6, TurnKept
    <3>8. QED
      BY <3>5, <3>7
  <2>4. QED
    BY <2>2, <2>3
<1>8. QED
  BY <1>6, <1>7 DEF TurnInv

\* What was prompted is written down.
LEMMA SaveTurns == ASSUME IInv, RotationInv, Save PROVE RotationInv'
<1>1. file' = mem /\ UNCHANGED <<batch, current, mem, passed, lock, faults>>
  BY DEF Save, history
<1>2. \A t \in Tasks : Behind(t)' = Behind(t)
  BY <1>1 DEF Behind, Coming
<1>3. QED
  BY <1>1, <1>2 DEF RotationInv, TurnInv, Coming

\* A tick that is cut short forgets the order.
LEMMA FaultTurns == ASSUME IInv, RotationInv, Throw \/ Stop \/ Tear PROVE RotationInv'
<1> USE TickFacts
<1>1. /\ batch' = {} /\ current' = None /\ mem' = file' /\ passed' = passed
      /\ faults' = faults + 1
  <2>1. CASE Throw \/ Stop
    BY <2>1 DEF Throw, Stop, CutShort, Forget, Fault
  <2>2. CASE Tear
    BY <2>2 DEF Tear, TickTypes, Fault
  <2>3. QED
    BY <2>1, <2>2
<1>2. lock' \subseteq {current'} => lock \subseteq {current}
  <2>1. lock \subseteq Tasks /\ None \notin Tasks
    BY DEF TickTypes
  <2>2. lock' = lock \/ lock' = lock \ {current}
    BY DEF Throw, Stop, Tear
  <2>3. QED
    BY <1>1, <2>1, <2>2
<1>3. faults \in Nat /\ \A t \in Tasks : passed[t] \in Nat
  BY DEF PoolTypes, PromptTypes
<1> SUFFICES ASSUME TurnInv PROVE TurnInv'
  BY <1>2 DEF RotationInv
<1>4. ASSUME NEW t \in Tasks
      PROVE  Cap * passed'[t] + Cardinality(Behind(t)') <= Others * (1 + faults')
  <2>1. Behind(t) \subseteq Tasks \ {t} /\ Behind(t)' \subseteq Tasks \ {t}
    BY DEF Behind
  <2>2. Cap * passed[t] + Cardinality(Behind(t)) <= Others * (1 + faults)
    BY DEF TurnInv
  <2>3. QED
    BY <1>1, <1>3, <2>1, <2>2, TurnLost
<1>5. QED
  BY <1>1, <1>4 DEF TurnInv, Coming

\* Every step keeps the turns.
LEMMA NextTurns == ASSUME IInv, RotationInv, [Next]_vars PROVE RotationInv'
<1>1. CASE Users \/ Prune \/ Start
  BY <1>1, ManySteady, SteadyTurns
<1>2. CASE Runner
  BY <1>2, ManySteady, SteadyTurns, ChooseTurns, LockTurns, SendTurns, SaveTurns DEF Runner
<1>3. CASE Throw \/ Stop \/ Tear
  BY <1>3, FaultTurns
<1>4. CASE UNCHANGED vars
  <2>1. Steady
    BY <1>4, TickFacts DEF vars, hub, tick, pool, Steady, PoolTypes
  <2>2. QED
    BY <2>1, SteadyTurns
<1>5. QED
  BY <1>1, <1>2, <1>3, <1>4 DEF Next

-----------------------------------------------------------------------------
(* The theorems.                                                           *)

\* Every step keeps the invariant.
LEMMA NextInv == ASSUME IInv, [Next]_vars PROVE IInv'
<1>1. CASE Users
  BY <1>1, UsersInv
<1>2. CASE Runner \/ Prune \/ Start
  BY <1>2, PoolStepInv, TickStepInv, SendInv, SaveInv DEF Runner
<1>3. CASE Throw \/ Stop \/ Tear
  BY <1>3, FaultInv
<1>4. CASE UNCHANGED vars
  <2>1. /\ UNCHANGED <<index, status, master, bound, click, enabled, commands, presence, claim>>
        /\ UNCHANGED <<step, todo, cand, batch, current, mem, known, fresh, missing, stray>>
        /\ UNCHANGED <<inbox, lock, file, sent, late, passed, faults>>
    BY <1>4 DEF vars, hub, tick, pool, agents
  <2>2. TypeOK'
    BY <2>1 DEF IInv, TypeOK, HubTypes, TickTypes, PoolTypes, PromptTypes
  <2>3. StageInv' /\ PromptInv' /\ PauseInv' /\ LoopsInv' /\ PoolInv' /\ TimeInv'
    BY <2>1 DEF IInv, StageInv, PromptInv, PromptsDoNotPile, Unanswered, PauseInv, Active,
                LoopsInv, PoolInv, TimeInv
  <2>4. QED
    BY <2>2, <2>3 DEF IInv
<1>5. QED
  BY <1>1, <1>2, <1>3, <1>4 DEF Next

\* Every reachable state satisfies the invariant.
THEOREM Invariant == Spec => []IInv
<1>1. Init => IInv
  BY InitInv
<1>2. IInv /\ [Next]_vars => IInv'
  BY NextInv
<1>3. QED
  BY <1>1, <1>2, PTL DEF Spec

\* Types: the Hub's records, the tick's copies and the counters keep their shape.
THEOREM TypesHold == Spec => []TypeOK
<1>1. IInv => TypeOK
  BY DEF IInv
<1>2. QED
  BY <1>1, Invariant, PTL

\* A master has at most two prompts of a task to answer, whatever fails between
\* the look and the prompt and whenever a claimed prompt is put back: the one
\* it had claimed, which planner.ts 207 does not see, and the one that wakes it.
THEOREM PromptsAreFew == Spec => []PromptsDoNotPile
<1>1. IInv => PromptsDoNotPile
  BY DEF IInv, PromptInv
<1>2. QED
  BY <1>1, Invariant, PTL

\* A task that was paused or done receives the prompt under way and no other,
\* though the tick goes on with the copy of the task it has read.
THEOREM PauseIsKept == Spec => []PauseHolds
<1>1. IInv => PauseHolds
  BY DEF IInv, PauseInv, PauseHolds
<1>2. QED
  BY <1>1, Invariant, PTL

\* maxLoops bounds the prompts of a task, up to one more such allowance for
\* every failed call or death of the orchestrator, which lose the count.
THEOREM Bounded == Spec => []LoopsAreBounded
<1>1. IInv => LoopsAreBounded
  <2> SUFFICES ASSUME IInv, NEW t \in Tasks PROVE sent[t] <= MaxLoops * (1 + faults)
    BY DEF LoopsAreBounded
  <2>1. /\ sent[t] \in Nat /\ mem.loops[t] \in Nat /\ faults \in Nat /\ MaxLoops \in Nat
    BY TickFacts, Sizes DEF PromptTypes, PoolTypes
  <2>2. sent[t] <= mem.loops[t] + MaxLoops * faults /\ mem.loops[t] <= MaxLoops
    BY DEF IInv, LoopsInv
  <2>3. MaxLoops * faults \in Nat /\ MaxLoops * (faults + 1) = MaxLoops * faults + MaxLoops
    BY <2>1, OneMore
  <2>4. 1 + faults = faults + 1
    BY <2>1
  <2>5. QED
    BY <2>1, <2>2, <2>3, <2>4
<1>2. QED
  BY <1>1, Invariant, PTL

\* The subagents the orchestrator has created and not removed are one pool,
\* and at most one forgotten pool more for every fault.
THEOREM PoolBounded == Spec => []PoolIsBounded
<1>1. IInv => PoolIsBounded
  <2> SUFFICES ASSUME IInv PROVE known + fresh + stray <= Desired * (1 + faults)
    BY DEF PoolIsBounded
  <2>1. /\ known \in Nat /\ fresh \in Nat /\ missing \in Nat /\ stray \in Nat
        /\ faults \in Nat /\ Desired \in Nat
    BY TickFacts, Sizes DEF PoolTypes
  <2>2. known + fresh + missing <= Desired /\ stray <= Desired * faults
    BY DEF IInv, PoolInv
  <2>3. Desired * faults \in Nat /\ Desired * (faults + 1) = Desired * faults + Desired
    BY <2>1, OneMore
  <2>4. known + fresh <= Desired /\ 1 + faults = faults + 1
    BY <2>1, <2>2
  <2>5. QED
    BY <2>1, <2>2, <2>3, <2>4
<1>2. QED
  BY <1>1, Invariant, PTL

\* A due task is not put off for ever: the tasks take turns by their last
\* prompt, unless a process that died has left its lock (afk/store.ts).
THEOREM TurnsAreTaken == Spec => []RotationIsFair
<1>1. IInv /\ RotationInv => RotationIsFair
  <2> SUFFICES ASSUME IInv, TurnInv, NEW t \in Tasks
               PROVE  Cap * passed[t] <= (Cardinality(Tasks) - 1) * (1 + faults)
    BY DEF RotationInv, RotationIsFair, FairRotation
  <2>1. Behind(t) \subseteq Tasks \ {t}
    BY DEF Behind
  <2>2. Cardinality(Behind(t)) \in Nat /\ Others \in Nat
    BY <2>1, OthersAreFew
  <2>3. passed[t] \in Nat /\ faults \in Nat /\ 1 + faults \in Nat
    BY TickFacts DEF PoolTypes, PromptTypes
  <2>4. Cap * passed[t] \in Nat /\ Others * (1 + faults) \in Nat
    BY <2>2, <2>3, Sizes, OneMore
  <2>5. Cap * passed[t] <= Others * (1 + faults)
    BY <2>2, <2>4 DEF TurnInv
  <2>6. QED
    BY <2>5 DEF Others
<1>2. IInv /\ RotationInv /\ [Next]_vars => (IInv /\ RotationInv)'
  BY NextInv, NextTurns
<1>3. Init => IInv /\ RotationInv
  BY InitInv, TurnInit
<1>4. QED
  BY <1>1, <1>2, <1>3, PTL DEF Spec
=============================================================================
