--------------------------- MODULE RrResumeProofs ---------------------------
(***************************************************************************)
(* Theorems about RrResume, for any number of servers, messages, lapses,   *)
(* recovered claims and crashes: types, and, as long as the living owners  *)
(* refresh their leases in time, that the session keeps the promise of     *)
(* Mailbox, that one server serves it and acknowledges what it answered,   *)
(* and that only a crash has a message answered again.                     *)
(***************************************************************************)
EXTENDS RrResume, NaturalsInduction, WellFoundedInduction, TLAPS

-----------------------------------------------------------------------------
(* The inductive invariant.                                                *)

\* A server that is resuming the session holds its .lock file.
Asking == {"lease", "redeliver", "move", "rewrite", "granted", "refused"}

\* The work of a server that has the lease: before it has a claim, with one,
\* and after its answer was written.
Claimer  == {"wait_write", "claim", "take", "claimed"}
Replying == {"settle", "settle_write", "working", "reply", "reply_write", "answer"}
Working  == Replying \cup {"mark", "ack", "remove"}
Granted  == {"granted", "ready", "wait"} \cup Claimer \cup Working

\* A server that looks at a name has one.
ListInv == \A o \in Owners : pc[o] \in {"claimed", "move", "rewrite", "remove"} => list[o] # {}

GuardInv == \A o \in Owners : pc[o] \in Asking => guard = o

\* As long as no living owner's lease has lapsed, the owner is the only server
\* at work: it has the lease it read ...
HoldsLease  == \A o \in Owners : pc[o] \in Granted => lease.owner = o /\ lease.live
OwnerWorks  == \A o \in Owners : lease.owner = o => pc[o] \in Granted \cup {"dead"}
KnowsLease  == \A o \in Owners :
                 pc[o] \in Claimer \cup Working => seen[o].owner = o /\ seen[o].id = lease.id
\* ... it is taken over after it died only ...
HeirOfDead  == \A o \in Owners :
                 pc[o] \in {"redeliver", "move", "rewrite"} /\ lease.owner \in Owners =>
                   pc[lease.owner] = "dead"
\* ... it finds no claim when it takes one, and later none but its own.
FreshStart  == \A o \in Owners :
                 pc[o] \in (Granted \cup Asking \cup {"idle"}) \ Working => work[o] = 0
TakesAlone  == \A o \in Owners :
                 /\ pc[o] = "take" => Present(processing) = {}
                 /\ pc[o] = "claimed" => Present(processing) \subseteq {Oldest(list[o])}
WorksAlone  == \A o \in Owners :
                 pc[o] \in Working => work[o] \in Msgs /\ Present(processing) \subseteq {work[o]}
AckAnswered == \A o \in Owners : pc[o] \in {"ack", "remove"} => answers[work[o]] > 0
AckOwn      == \A o \in Owners : pc[o] = "remove" => list[o] = {work[o]}

TimelyInv == /\ HoldsLease /\ OwnerWorks /\ KnowsLease /\ HeirOfDead /\ FreshStart
             /\ TakesAlone /\ WorksAlone /\ AckAnswered /\ AckOwn

\* As long as no claim was recovered from a hand, it is there with its mark;
\* a message is never in inbox/ and in processing/ at once, nor in either, nor
\* answered, before it was sent.
ClaimThere == \A o \in Owners :
                /\ pc[o] = "claimed" => processing[Oldest(list[o])] # Absent
                /\ pc[o] = "mark" => processing[work[o]] # Absent
                /\ pc[o] \in Working \ {"mark"} => processing[work[o]] = seen[o].id
BackThere  == \A o \in Owners : pc[o] = "rewrite" => inbox[Oldest(list[o])] # Absent
OnePlace   == \A m \in Msgs : inbox[m] = Absent \/ processing[m] = Absent
NotYet     == \A m \in Msgs :
                m > sent => inbox[m] = Absent /\ processing[m] = Absent /\ answers[m] = 0

\* A message that can still be answered: one server fewer can crash with it.
Open(m) ==
    /\ inbox[m] # Absent \/ processing[m] # Absent
    /\ \A o \in Owners : pc[o] \in {"ack", "remove"} => work[o] # m
Counted == \A m \in Msgs : answers[m] + (IF Open(m) THEN 1 ELSE 0) <= 1 + crashes

HandInv == ClaimThere /\ BackThere /\ OnePlace /\ NotYet /\ Counted

IInv ==
    /\ TypeOK /\ ListInv /\ GuardInv
    /\ lapses = 0 => TimelyInv
    /\ lapses = 0 /\ stale = 0 => HandInv

-----------------------------------------------------------------------------
(* Facts about names and marks.                                            *)

\* The order of the natural numbers, as a relation.
Smaller == {ss \in Nat \X Nat : ss[1] < ss[2]}

\* A set of natural numbers that is not empty has a least element.
LEMMA LeastNatural ==
    ASSUME NEW S, S \subseteq Nat, S # {}
    PROVE  \E n \in S : \A k \in S : n <= k
<1>1. IsWellFoundedOn(Smaller, Nat)
  BY NatLessThanWellFounded DEF OpToRel, Smaller
<1>2. PICK n \in S : \A k \in S : <<k, n>> \notin Smaller
  BY <1>1, WFMin
<1>3. \A x, y \in Nat : <<x,y>> \in Smaller <=> x < y
  BY DEF Smaller
<1>4. ASSUME NEW k \in S PROVE n <= k
  <2>1. k \in Nat /\ n \in Nat
    OBVIOUS
  <2>2. ~ (k < n)
    BY <1>2, <1>3, <2>1
  <2>3. QED
    BY <2>1, <2>2
<1>5. QED
  BY <1>4

\* The oldest of some messages is one of them.
LEMMA OldestIn ==
    ASSUME NEW S \in SUBSET Msgs, S # {}
    PROVE  Oldest(S) \in S /\ Oldest(S) \in Msgs
<1>1. S \subseteq Nat
  BY ResumeAssumption DEF Msgs
<1>2. \E n \in S : \A k \in S : n <= k
  BY <1>1, LeastNatural
<1>3. QED
  BY <1>2 DEF Oldest

\* And of one message it is that one.
LEMMA OldestOne ==
    ASSUME NEW m \in Msgs
    PROVE  Oldest({m}) = m
BY OldestIn

\* Lease ids are counted up: a mark and a lease stay well typed.
LEMMA Grows ==
    ASSUME TypeOK, issued' \in {issued, issued + 1}
    PROVE  /\ issued' \in Nat
           /\ \A x \in Marks : x \in Marks'
           /\ \A x \in Leases : x \in Leases'
<1>1. issued \in Nat
  BY DEF TypeOK, LeaseTypes
<1>2. /\ issued + 1 \in Nat
      /\ (-1)..issued \subseteq (-1)..(issued + 1) /\ 0..issued \subseteq 0..(issued + 1)
  BY <1>1
<1>3. CASE issued' = issued
  BY <1>1, <1>3 DEF Marks, Leases, Absent
<1>4. CASE issued' = issued + 1
  BY <1>2, <1>4 DEF Marks, Leases, Absent
<1>5. QED
  BY <1>3, <1>4

\* Only a grant makes an id, one at a time.
LEMMA CountsUp ==
    ASSUME TypeOK, Next
    PROVE  issued' \in {issued, issued + 1}
<1>1. ASSUME NEW o \in Owners,
           ResumeLock(o) \/ ResumeRead(o) \/ RedeliverRead(o) \/ RedeliverMove(o) \/
           RedeliverWrite(o) \/ ResumeGrant(o) \/ ResumeUnlock(o) \/ ClaimLook(o) \/
           ClaimNothing(o) \/ ClaimTake(o) \/ ClaimRead(o) \/ ClaimMark(o) \/ Wait(o) \/
           StartReply(o) \/ AssertRead(o) \/ AssertWrite(o) \/ Answer(o) \/ AckLook(o) \/
           AckRemove(o) \/ Crash(o)
      PROVE  issued' \in {issued, issued + 1}
  BY <1>1 DEF ResumeLock, ResumeRead, RedeliverRead, RedeliverMove, RedeliverWrite, ResumeGrant,
     ResumeUnlock, ClaimLook, ClaimNothing, ClaimTake, ClaimRead, ClaimMark, Wait, StartReply,
     AssertRead, AssertWrite, Answer, AckLook, AckRemove, Crash, Goto, Drop, Move, Checks
<1>2. ASSUME
           Enqueue \/ Lapse
      PROVE  issued' \in {issued, issued + 1}
  BY <1>2 DEF Enqueue, Lapse
<1>3. ASSUME NEW m \in Msgs, RecoverStale(m) PROVE issued' \in {issued, issued + 1}
  BY <1>3 DEF RecoverStale, Move
<1>4. QED
  BY <1>1, <1>2, <1>3 DEF Next, Step, Resume, Claim, Serve

\* Leases, and what the servers know of them, keep their types.
LEMMA LeaseStep ==
    ASSUME TypeOK, Next
    PROVE  LeaseTypes'
<1>a. LeaseTypes /\ issued \in Nat
  BY DEF TypeOK, LeaseTypes
<1>b. issued' \in Nat /\ \A x \in Leases : x \in Leases'
  BY CountsUp, Grows
<1>c. \A x \in Leases, b \in BOOLEAN : [x EXCEPT !.live = b] \in Leases
  BY DEF Leases
<1>1. ASSUME NEW o \in Owners, ResumeGrant(o) PROVE LeaseTypes'
  <2>1. seen[o].id \in 0..issued
    BY <1>a DEF LeaseTypes, Leases
  <2>2. issued + 1 \in 0..(issued + 1) /\ seen[o].id \in 0..(issued + 1) /\ seen[o].id \in 0..issued
    BY <1>a, <2>1
  <2>3. lease' \in Leases'
    BY <1>1, <2>2 DEF ResumeGrant, Leases
  <2>4. QED
    BY <1>1, <1>a, <1>b, <2>3 DEF ResumeGrant, Goto, LeaseTypes, files, local, counters
<1>2. ASSUME NEW o \in Owners,
           ResumeRead(o) \/ AssertRead(o)
      PROVE  LeaseTypes'
  BY <1>2, <1>a, <1>b DEF ResumeRead, AssertRead, Goto, Checks, LeaseTypes, files
<1>3. ASSUME NEW o \in Owners, AssertWrite(o) PROVE LeaseTypes'
  BY <1>3, <1>a, <1>b, <1>c DEF AssertWrite, Goto, Checks, LeaseTypes, files, local
<1>4. ASSUME Lapse PROVE LeaseTypes'
  BY <1>4, <1>a, <1>b, <1>c DEF Lapse, LeaseTypes, files, local
<1>5. ASSUME NEW o \in Owners,
           ResumeLock(o) \/ RedeliverRead(o) \/ RedeliverMove(o) \/ RedeliverWrite(o) \/
           ResumeUnlock(o) \/ ClaimLook(o) \/ ClaimNothing(o) \/ ClaimTake(o) \/ ClaimRead(o) \/
           ClaimMark(o) \/ Wait(o) \/ StartReply(o) \/ Answer(o) \/ AckLook(o) \/ AckRemove(o)
           \/ Crash(o)
      PROVE  LeaseTypes'
  BY <1>5, <1>a, <1>b DEF ResumeLock, RedeliverRead, RedeliverMove, RedeliverWrite,
     ResumeUnlock, ClaimLook, ClaimNothing, ClaimTake, ClaimRead, ClaimMark, Wait, StartReply,
     Answer, AckLook, AckRemove, Crash, Goto, Drop, Move, LeaseTypes, files, local, counters
<1>6. ASSUME Enqueue PROVE LeaseTypes'
  BY <1>6, <1>a, <1>b DEF Enqueue, LeaseTypes, files, local, counters
<1>7. ASSUME NEW m \in Msgs, RecoverStale(m) PROVE LeaseTypes'
  BY <1>7, <1>a, <1>b DEF RecoverStale, Move, LeaseTypes, files, local, counters
<1>8. QED
  BY <1>1, <1>2, <1>3, <1>4, <1>5, <1>6, <1>7 DEF Next, Step, Resume, Claim, Serve

\* The files of the mailbox keep their types.
LEMMA FileStep ==
    ASSUME TypeOK, ListInv, Next
    PROVE  FileTypes'
<1>a. /\ inbox \in [Msgs -> Marks] /\ processing \in [Msgs -> Marks]
      /\ sent \in 0..MaxMsgs /\ answers \in [Msgs -> Nat]
  BY DEF TypeOK, FileTypes
<1>b. \A x \in Marks : x \in Marks'
  BY CountsUp, Grows
<1>c. 0 \in Marks /\ Absent \in Marks /\ \A p \in Owners : seen[p].id \in Marks
  <2>1. issued \in Nat /\ \A p \in Owners : seen[p].id \in 0..issued
    BY DEF TypeOK, LeaseTypes, Leases
  <2>2. QED
    <3>1. -1 \in (-1)..issued /\ \A x \in 0..issued : x \in (-1)..issued
      BY <2>1
    <3>2. 0 \in 0..issued
      BY <2>1
    <3>3. QED
      BY <2>1, <3>1, <3>2 DEF Marks, Absent
<1>d. SUFFICES /\ inbox' \in [Msgs -> Marks] /\ processing' \in [Msgs -> Marks]
               /\ sent' \in 0..MaxMsgs /\ answers' \in [Msgs -> Nat]
  BY <1>b DEF FileTypes
<1> DEFINE Good == /\ inbox' \in [Msgs -> Marks] /\ processing' \in [Msgs -> Marks]
                   /\ sent' \in 0..MaxMsgs /\ answers' \in [Msgs -> Nat]
<1>e. ASSUME NEW o \in Owners, pc[o] \in {"claimed", "move", "rewrite", "remove"}
      PROVE  Oldest(list[o]) \in Msgs
  BY <1>e, OldestIn DEF ListInv, TypeOK, ServerTypes
<1>m. ASSUME NEW m \in Msgs, Move(m)
      PROVE  inbox' \in [Msgs -> Marks] /\ processing' \in [Msgs -> Marks]
  <2>1. processing[m] \in Marks
    BY <1>a
  <2>2. QED
    BY <1>m, <1>a, <1>c, <2>1 DEF Move
<1>1. ASSUME NEW o \in Owners, RedeliverMove(o) PROVE Good
  BY <1>1, <1>a, <1>c, <1>e, <1>m DEF RedeliverMove, Goto, Move, files
<1>2. ASSUME NEW o \in Owners, RedeliverWrite(o) PROVE Good
  BY <1>2, <1>a, <1>c, <1>e DEF RedeliverWrite, Goto, Drop, Unmarked
<1>3. ASSUME NEW o \in Owners, ClaimTake(o) PROVE Good
  <2>1. Oldest(list[o]) \in Msgs
    BY <1>3, OldestIn DEF ClaimTake, TypeOK, ServerTypes
  <2>2. QED
    BY <1>3, <1>a, <1>c, <2>1 DEF ClaimTake, Drop, files
<1>4. ASSUME NEW o \in Owners, ClaimMark(o) PROVE Good
  BY <1>4, <1>a, <1>c DEF ClaimMark, Goto
<1>5. ASSUME NEW o \in Owners, AckRemove(o) PROVE Good
  BY <1>5, <1>a, <1>c, <1>e DEF AckRemove, Goto
<1>6. ASSUME NEW o \in Owners, Answer(o) PROVE Good
  <2>1. work[o] \in Msgs => answers[work[o]] + 1 \in Nat
    BY <1>a
  <2>2. QED
    BY <1>6, <1>a, <2>1 DEF Answer, files
<1>7. ASSUME Enqueue PROVE Good
  <2>1. sent + 1 \in 0..MaxMsgs
    BY <1>7, <1>a, ResumeAssumption DEF Enqueue
  <2>2. QED
    BY <1>7, <1>a, <1>c, <2>1 DEF Enqueue, Unmarked
<1>8. ASSUME NEW m \in Msgs, RecoverStale(m) PROVE Good
  <2>1. Move(m) /\ UNCHANGED <<sent, answers>>
    BY <1>8 DEF RecoverStale
  <2>2. QED
    BY <1>a, <1>m, <2>1
<1>9. ASSUME NEW o \in Owners,
           ResumeLock(o) \/ ResumeRead(o) \/ RedeliverRead(o) \/ ResumeGrant(o) \/
           ResumeUnlock(o) \/ ClaimLook(o) \/ ClaimNothing(o) \/ ClaimRead(o) \/ Wait(o) \/
           StartReply(o) \/ AssertRead(o) \/ AssertWrite(o) \/ AckLook(o) \/ Crash(o)
      PROVE  Good
  BY <1>9, <1>a, <1>c DEF ResumeLock, ResumeRead, RedeliverRead, ResumeGrant, ResumeUnlock,
     ClaimLook, ClaimNothing, ClaimRead, Wait, StartReply, AssertRead, AssertWrite, AckLook,
     Crash, Goto, Drop, Checks, files, local, counters
<1>10. ASSUME Lapse PROVE Good
  BY <1>10, <1>a, <1>c DEF Lapse, files, local, counters
<1>11. QED
  BY <1>1, <1>2, <1>3, <1>4, <1>5, <1>6, <1>7, <1>8, <1>9, <1>10 DEF Next, Step, Resume, Claim,
     Serve

\* Servers are at a label, with names of messages at hand.
LEMMA ServerStep ==
    ASSUME TypeOK, ListInv, Next
    PROVE  ServerTypes'
<1>a. ServerTypes /\ 0 \in 0..MaxMsgs
  BY ResumeAssumption DEF TypeOK
<1>1. ASSUME NEW o \in Owners,
           ResumeRead(o) \/ ClaimLook(o)
      PROVE  ServerTypes'
  BY <1>1, <1>a DEF ResumeRead, ClaimLook, Goto, ServerTypes, Labels, Present
<1>2. ASSUME NEW o \in Owners, AckLook(o) PROVE ServerTypes'
  <2> DEFINE mine == {m \in Msgs : processing[m] = seen[o].id}
  <2>1. mine # {} => {Oldest(mine)} \in SUBSET Msgs
    BY OldestIn
  <2>2. QED
    BY <1>2, <1>a, <2>1 DEF AckLook, Goto, ServerTypes, Labels
<1>3. ASSUME NEW o \in Owners, ClaimRead(o) PROVE ServerTypes'
  <2>1. list[o] \in SUBSET Msgs /\ list[o] # {}
    BY <1>3, <1>a DEF ClaimRead, ListInv, ServerTypes
  <2>2. Oldest(list[o]) \in 0..MaxMsgs
    BY <2>1, OldestIn, ResumeAssumption DEF Msgs
  <2>3. QED
    BY <1>3, <1>a, <2>2 DEF ClaimRead, Goto, Drop, ServerTypes, Labels
<1>4. ASSUME NEW o \in Owners,
           AssertRead(o) \/ AssertWrite(o)
      PROVE  ServerTypes'
  BY <1>4, <1>a DEF AssertRead, AssertWrite, Goto, Checks, ServerTypes, Labels, files, local
<1>5. ASSUME NEW o \in Owners,
           ResumeLock(o) \/ RedeliverRead(o) \/ RedeliverMove(o) \/ RedeliverWrite(o) \/
           ResumeGrant(o) \/ ResumeUnlock(o) \/ ClaimNothing(o) \/ ClaimTake(o) \/ ClaimMark(o)
           \/ Wait(o) \/ StartReply(o) \/ Answer(o) \/ AckRemove(o) \/ Crash(o)
      PROVE  ServerTypes'
  BY <1>5, <1>a DEF ResumeLock, RedeliverRead, RedeliverMove, RedeliverWrite, ResumeGrant,
     ResumeUnlock, ClaimNothing, ClaimTake, ClaimMark, Wait, StartReply, Answer, AckRemove,
     Crash, Goto, Drop, Move, ServerTypes, Labels, files, local, counters
<1>6. ASSUME
           Enqueue \/ Lapse
      PROVE  ServerTypes'
  BY <1>6, <1>a DEF Enqueue, Lapse, ServerTypes, Labels, files, local, counters
<1>7. ASSUME NEW m \in Msgs, RecoverStale(m) PROVE ServerTypes'
  BY <1>7, <1>a DEF RecoverStale, Move, ServerTypes, Labels, files, local, counters
<1>8. QED
  BY <1>1, <1>2, <1>3, <1>4, <1>5, <1>6, <1>7 DEF Next, Step, Resume, Claim, Serve

\* The bounds are kept.
LEMMA CounterStep ==
    ASSUME TypeOK, Next
    PROVE  CounterTypes'
<1>a. CounterTypes
  BY DEF TypeOK
<1>b. MaxStale \in Nat /\ MaxCrashes \in Nat
  BY ResumeAssumption
<1>1. ASSUME NEW o \in Owners,
           ResumeLock(o) \/ ResumeRead(o) \/ RedeliverRead(o) \/ RedeliverMove(o) \/
           RedeliverWrite(o) \/ ResumeGrant(o) \/ ResumeUnlock(o) \/ ClaimLook(o) \/
           ClaimNothing(o) \/ ClaimTake(o) \/ ClaimRead(o) \/ ClaimMark(o) \/ Wait(o) \/
           StartReply(o) \/ AssertRead(o) \/ AssertWrite(o) \/ Answer(o) \/ AckLook(o) \/
           AckRemove(o) \/ Crash(o)
      PROVE  CounterTypes'
  BY <1>1, <1>a, <1>b DEF ResumeLock, ResumeRead, RedeliverRead, RedeliverMove, RedeliverWrite,
     ResumeGrant, ResumeUnlock, ClaimLook, ClaimNothing, ClaimTake, ClaimRead, ClaimMark, Wait,
     StartReply, AssertRead, AssertWrite, Answer, AckLook, AckRemove, Crash, Goto, Drop, Move,
     Checks, CounterTypes, counters, local
<1>2. ASSUME
           Enqueue \/ Lapse
      PROVE  CounterTypes'
  BY <1>2, <1>a, <1>b DEF Enqueue, Lapse, CounterTypes, counters, local
<1>3. ASSUME NEW m \in Msgs, RecoverStale(m) PROVE CounterTypes'
  BY <1>3, <1>a, <1>b DEF RecoverStale, Move, CounterTypes, counters, local
<1>4. QED
  BY <1>1, <1>2, <1>3 DEF Next, Step, Resume, Claim, Serve

\* A server keeps the name it looks at.
LEMMA ListStep ==
    ASSUME TypeOK, ListInv, Next
    PROVE  ListInv'
<1>a. ServerTypes
  BY DEF TypeOK
<1>1. ASSUME NEW o \in Owners,
           ResumeRead(o) \/ ClaimLook(o)
      PROVE  ListInv'
  BY <1>1, <1>a DEF ResumeRead, ClaimLook, Goto, ListInv, ServerTypes
<1>2. ASSUME NEW o \in Owners,
           RedeliverRead(o) \/ RedeliverMove(o) \/ RedeliverWrite(o)
      PROVE  ListInv'
  BY <1>2, <1>a DEF RedeliverRead, RedeliverMove, RedeliverWrite, Goto, Drop, Move, ListInv,
     ServerTypes, local
<1>3. ASSUME NEW o \in Owners,
           ClaimTake(o) \/ ClaimRead(o)
      PROVE  ListInv'
  BY <1>3, <1>a DEF ClaimTake, ClaimRead, Goto, Drop, ListInv, ServerTypes
<1>4. ASSUME NEW o \in Owners, AckLook(o) PROVE ListInv'
  BY <1>4, <1>a DEF AckLook, Goto, ListInv, ServerTypes
<1>5. ASSUME NEW o \in Owners, AckRemove(o) PROVE ListInv'
  BY <1>5, <1>a DEF AckRemove, Goto, ListInv, ServerTypes
<1>6. ASSUME NEW o \in Owners,
           AssertRead(o) \/ AssertWrite(o)
      PROVE  ListInv'
  BY <1>6, <1>a DEF AssertRead, AssertWrite, Goto, Checks, ListInv, ServerTypes, local
<1>7. ASSUME NEW o \in Owners,
           ResumeLock(o) \/ ResumeGrant(o) \/ ResumeUnlock(o) \/ ClaimNothing(o) \/ ClaimMark(o)
           \/ Wait(o) \/ StartReply(o) \/ Answer(o) \/ Crash(o)
      PROVE  ListInv'
  BY <1>7, <1>a DEF ResumeLock, ResumeGrant, ResumeUnlock, ClaimNothing, ClaimMark, Wait,
     StartReply, Answer, Crash, Goto, ListInv, ServerTypes, counters, local
<1>8. ASSUME
           Enqueue \/ Lapse
      PROVE  ListInv'
  BY <1>8, <1>a DEF Enqueue, Lapse, ListInv, ServerTypes, counters, local
<1>9. ASSUME NEW m \in Msgs, RecoverStale(m) PROVE ListInv'
  BY <1>9, <1>a DEF RecoverStale, Move, ListInv, ServerTypes, counters, local
<1>10. QED
  BY <1>1, <1>2, <1>3, <1>4, <1>5, <1>6, <1>7, <1>8, <1>9 DEF Next, Step, Resume, Claim, Serve

\* The .lock file keeps out every other server that resumes.
LEMMA GuardStep ==
    ASSUME TypeOK, GuardInv, Next
    PROVE  GuardInv'
<1>a. ServerTypes
  BY DEF TypeOK
<1>1. ASSUME NEW o \in Owners, ResumeLock(o) PROVE GuardInv'
  BY <1>1, <1>a, ResumeAssumption DEF ResumeLock, Goto, GuardInv, Asking, ServerTypes
<1>2. ASSUME NEW o \in Owners, ResumeUnlock(o) PROVE GuardInv'
  BY <1>2, <1>a DEF ResumeUnlock, Goto, GuardInv, Asking, ServerTypes
<1>3. ASSUME NEW o \in Owners,
           ResumeRead(o) \/ RedeliverRead(o)
      PROVE  GuardInv'
  BY <1>3, <1>a DEF ResumeRead, RedeliverRead, Goto, Drop, GuardInv, Asking, ServerTypes
<1>4. ASSUME NEW o \in Owners,
           RedeliverMove(o) \/ RedeliverWrite(o) \/ ResumeGrant(o)
      PROVE  GuardInv'
  BY <1>4, <1>a DEF RedeliverMove, RedeliverWrite, ResumeGrant, Goto, Move, Drop, GuardInv,
     Asking, ServerTypes
<1>5. ASSUME NEW o \in Owners,
           AssertRead(o) \/ AssertWrite(o)
      PROVE  GuardInv'
  BY <1>5, <1>a DEF AssertRead, AssertWrite, Goto, Checks, GuardInv, Asking, ServerTypes, local
<1>6. ASSUME NEW o \in Owners,
           ClaimLook(o) \/ ClaimNothing(o) \/ ClaimTake(o) \/ ClaimRead(o) \/ ClaimMark(o)
      PROVE  GuardInv'
  BY <1>6, <1>a DEF ClaimLook, ClaimNothing, ClaimTake, ClaimRead, ClaimMark, Goto, Drop,
     GuardInv, Asking, ServerTypes, local
<1>7. ASSUME NEW o \in Owners,
           Wait(o) \/ StartReply(o) \/ Answer(o) \/ AckLook(o) \/ AckRemove(o) \/ Crash(o)
      PROVE  GuardInv'
  BY <1>7, <1>a DEF Wait, StartReply, Answer, AckLook, AckRemove, Crash, Goto, GuardInv, Asking,
     ServerTypes, counters, local
<1>8. ASSUME
           Enqueue \/ Lapse
      PROVE  GuardInv'
  BY <1>8, <1>a DEF Enqueue, Lapse, GuardInv, Asking, ServerTypes, counters, local
<1>9. ASSUME NEW m \in Msgs, RecoverStale(m) PROVE GuardInv'
  BY <1>9, <1>a DEF RecoverStale, Move, GuardInv, Asking, ServerTypes, counters, local
<1>10. QED
  BY <1>1, <1>2, <1>3, <1>4, <1>5, <1>6, <1>7, <1>8, <1>9 DEF Next, Step, Resume, Claim, Serve

-----------------------------------------------------------------------------
(* While the living owners refresh their leases in time.                   *)

\* The invariant of this part.
Base == TypeOK /\ ListInv /\ GuardInv /\ TimelyInv /\ lapses = 0

\* Only one server is at work, and none resumes the session then.
LEMMA OneAtWork ==
    ASSUME HoldsLease, HeirOfDead, NEW o \in Owners, pc[o] \in Granted, NEW p \in Owners
    PROVE  /\ pc[p] \in Granted => p = o
           /\ pc[p] \notin {"redeliver", "move", "rewrite"}
<1>1. lease.owner = o /\ pc[o] # "dead"
  BY DEF HoldsLease, Granted, Claimer, Working, Replying
<1>2. QED
  BY <1>1 DEF HoldsLease, HeirOfDead

\* The lease of a server that lives does not lapse.
LEMMA OnlyDeadLapse ==
    ASSUME Base, lapses' = 0, Lapse
    PROVE  lease.owner \in Owners /\ pc[lease.owner] = "dead"
<1>1. lapses' # lapses + 1
  BY DEF Base
<1>2. QED
  BY <1>1 DEF Lapse, Dead

\* Who is at work has the lease.
LEMMA HoldsLeaseStep ==
    ASSUME Base, lapses' = 0, Next
    PROVE  HoldsLease'
<1>a. ServerTypes /\ seen \in [Owners -> Leases]
  BY DEF Base, TypeOK, LeaseTypes
<1>b. HoldsLease /\ HeirOfDead /\ KnowsLease
  BY DEF Base, TimelyInv
<1>1. ASSUME NEW o \in Owners,
           ResumeLock(o) \/ ResumeRead(o) \/ RedeliverRead(o) \/ RedeliverMove(o) \/
           RedeliverWrite(o)
      PROVE  HoldsLease'
  BY <1>1, <1>a, <1>b DEF ResumeLock, ResumeRead, RedeliverRead, RedeliverMove, RedeliverWrite,
     Goto, Drop, Move, HoldsLease, Granted, Claimer, Working, Replying, ServerTypes, local
<1>2. ASSUME NEW o \in Owners, ResumeGrant(o) PROVE HoldsLease'
  BY <1>2, <1>a, <1>b DEF ResumeGrant, Goto, HoldsLease, HeirOfDead, Granted, Claimer, Working,
     Replying, ServerTypes, local
<1>3. ASSUME NEW o \in Owners, ResumeUnlock(o) PROVE HoldsLease'
  BY <1>3, <1>a, <1>b DEF ResumeUnlock, Goto, HoldsLease, Granted, Claimer, Working, Replying,
     ServerTypes, local
<1>4. ASSUME NEW o \in Owners, AssertRead(o) PROVE HoldsLease'
  BY <1>4, <1>a, <1>b DEF AssertRead, Goto, Checks, HoldsLease, Granted, Claimer, Working,
     Replying, ServerTypes, local
<1>5. ASSUME NEW o \in Owners, AssertWrite(o) PROVE HoldsLease'
  BY <1>5, <1>a, <1>b DEF AssertWrite, Goto, Checks, HoldsLease, KnowsLease, Granted, Claimer,
     Working, Replying, ServerTypes, local
<1>6. ASSUME NEW o \in Owners,
           ClaimLook(o) \/ ClaimNothing(o) \/ ClaimTake(o) \/ ClaimRead(o) \/ ClaimMark(o)
      PROVE  HoldsLease'
  BY <1>6, <1>a, <1>b DEF ClaimLook, ClaimNothing, ClaimTake, ClaimRead, ClaimMark, Goto, Drop,
     HoldsLease, Granted, Claimer, Working, Replying, ServerTypes, local
<1>7. ASSUME Lapse PROVE HoldsLease'
  BY <1>7, <1>b, OnlyDeadLapse DEF Lapse, HoldsLease, Granted, Claimer, Working, Replying,
     ServerTypes, local
<1>8. ASSUME NEW o \in Owners,
           Wait(o) \/ StartReply(o) \/ Answer(o) \/ AckLook(o) \/ AckRemove(o) \/ Crash(o)
      PROVE  HoldsLease'
  BY <1>8, <1>a, <1>b DEF Wait, StartReply, Answer, AckLook, AckRemove, Crash, Goto, HoldsLease,
     Granted, Claimer, Working, Replying, ServerTypes, local, counters
<1>9. ASSUME Enqueue PROVE HoldsLease'
  BY <1>9, <1>a, <1>b DEF Enqueue, HoldsLease, Granted, Claimer, Working, Replying, ServerTypes,
     local, counters
<1>10. ASSUME NEW m \in Msgs, RecoverStale(m) PROVE HoldsLease'
  BY <1>10, <1>a, <1>b DEF RecoverStale, Move, HoldsLease, Granted, Claimer, Working, Replying,
     ServerTypes, local, counters
<1>11. QED
  BY <1>1, <1>2, <1>3, <1>4, <1>5, <1>6, <1>7, <1>8, <1>9, <1>10 DEF Next, Step, Resume, Claim,
     Serve

\* The owner of the lease is at work, or died.
LEMMA OwnerWorksStep ==
    ASSUME Base, lapses' = 0, Next
    PROVE  OwnerWorks'
<1>a. ServerTypes /\ seen \in [Owners -> Leases]
  BY DEF Base, TypeOK, LeaseTypes
<1>b. HoldsLease /\ OwnerWorks /\ KnowsLease
  BY DEF Base, TimelyInv
<1>1. ASSUME NEW o \in Owners,
           ResumeLock(o) \/ ResumeRead(o) \/ RedeliverRead(o) \/ RedeliverMove(o) \/
           RedeliverWrite(o)
      PROVE  OwnerWorks'
  BY <1>1, <1>a, <1>b DEF ResumeLock, ResumeRead, RedeliverRead, RedeliverMove, RedeliverWrite,
     Goto, Drop, Move, OwnerWorks, Granted, Claimer, Working, Replying, ServerTypes, local
<1>2. ASSUME NEW o \in Owners, ResumeGrant(o) PROVE OwnerWorks'
  BY <1>2, <1>a, <1>b DEF ResumeGrant, Goto, OwnerWorks, Granted, Claimer, Working, Replying,
     ServerTypes, local
<1>3. ASSUME NEW o \in Owners, ResumeUnlock(o) PROVE OwnerWorks'
  BY <1>3, <1>a, <1>b DEF ResumeUnlock, Goto, OwnerWorks, Granted, Claimer, Working, Replying,
     ServerTypes, local
<1>4. ASSUME NEW o \in Owners, AssertRead(o) PROVE OwnerWorks'
  BY <1>4, <1>a, <1>b DEF AssertRead, Goto, Checks, HoldsLease, OwnerWorks, Granted, Claimer,
     Working, Replying, ServerTypes, local
<1>5. ASSUME NEW o \in Owners, AssertWrite(o) PROVE OwnerWorks'
  BY <1>5, <1>a, <1>b DEF AssertWrite, Goto, Checks, OwnerWorks, KnowsLease, Granted, Claimer,
     Working, Replying, ServerTypes, local
<1>6. ASSUME NEW o \in Owners,
           ClaimLook(o) \/ ClaimNothing(o) \/ ClaimTake(o) \/ ClaimRead(o) \/ ClaimMark(o)
      PROVE  OwnerWorks'
  BY <1>6, <1>a, <1>b DEF ClaimLook, ClaimNothing, ClaimTake, ClaimRead, ClaimMark, Goto, Drop,
     OwnerWorks, Granted, Claimer, Working, Replying, ServerTypes, local
<1>7. ASSUME Lapse PROVE OwnerWorks'
  BY <1>7, <1>b DEF Lapse, OwnerWorks, Granted, Claimer, Working, Replying, ServerTypes, local
<1>8. ASSUME NEW o \in Owners,
           Wait(o) \/ StartReply(o) \/ Answer(o) \/ AckLook(o) \/ AckRemove(o) \/ Crash(o)
      PROVE  OwnerWorks'
  BY <1>8, <1>a, <1>b DEF Wait, StartReply, Answer, AckLook, AckRemove, Crash, Goto, OwnerWorks,
     Granted, Claimer, Working, Replying, ServerTypes, local, counters
<1>9. ASSUME Enqueue PROVE OwnerWorks'
  BY <1>9, <1>a, <1>b DEF Enqueue, OwnerWorks, Granted, Claimer, Working, Replying, ServerTypes,
     local, counters
<1>10. ASSUME NEW m \in Msgs, RecoverStale(m) PROVE OwnerWorks'
  BY <1>10, <1>a, <1>b DEF RecoverStale, Move, OwnerWorks, Granted, Claimer, Working, Replying,
     ServerTypes, local, counters
<1>11. QED
  BY <1>1, <1>2, <1>3, <1>4, <1>5, <1>6, <1>7, <1>8, <1>9, <1>10 DEF Next, Step, Resume, Claim,
     Serve

\* A server at work has read the lease that is in force.
LEMMA KnowsLeaseStep ==
    ASSUME Base, lapses' = 0, Next
    PROVE  KnowsLease'
<1>a. ServerTypes /\ seen \in [Owners -> Leases]
  BY DEF Base, TypeOK, LeaseTypes
<1>b. HoldsLease /\ HeirOfDead /\ KnowsLease /\ FreshStart
  BY DEF Base, TimelyInv
<1>1. ASSUME NEW o \in Owners,
           ResumeLock(o) \/ ResumeRead(o) \/ RedeliverRead(o) \/ RedeliverMove(o) \/
           RedeliverWrite(o)
      PROVE  KnowsLease'
  BY <1>1, <1>a, <1>b DEF ResumeLock, ResumeRead, RedeliverRead, RedeliverMove, RedeliverWrite,
     Goto, Drop, Move, KnowsLease, Granted, Claimer, Working, Replying, ServerTypes, local
<1>2. ASSUME NEW o \in Owners, ResumeGrant(o) PROVE KnowsLease'
  BY <1>2, <1>a, <1>b, OneAtWork DEF ResumeGrant, Goto, KnowsLease, Granted, Claimer, Working,
     Replying, ServerTypes, local
<1>3. ASSUME NEW o \in Owners, AssertRead(o) PROVE KnowsLease'
  BY <1>3, <1>a, <1>b DEF AssertRead, Goto, Checks, HoldsLease, KnowsLease, Granted, Claimer,
     Working, Replying, ServerTypes, local
<1>4. ASSUME NEW o \in Owners, AssertWrite(o) PROVE KnowsLease'
  BY <1>4, <1>a, <1>b, OneAtWork DEF AssertWrite, Goto, Checks, KnowsLease, Granted, Claimer,
     Working, Replying, ServerTypes, local
<1>5. ASSUME NEW o \in Owners,
           ClaimLook(o) \/ ClaimNothing(o) \/ ClaimTake(o) \/ ClaimRead(o) \/ ClaimMark(o)
      PROVE  KnowsLease'
  BY <1>5, <1>a, <1>b DEF ClaimLook, ClaimNothing, ClaimTake, ClaimRead, ClaimMark, Goto, Drop,
     KnowsLease, Granted, Claimer, Working, Replying, ServerTypes, local
<1>6. ASSUME NEW o \in Owners, StartReply(o) PROVE KnowsLease'
  BY <1>6, <1>a, <1>b DEF StartReply, Goto, KnowsLease, FreshStart, Granted, Claimer, Working,
     Replying, ServerTypes, local
<1>7. ASSUME Lapse PROVE KnowsLease'
  BY <1>7, <1>b DEF Lapse, KnowsLease, Granted, Claimer, Working, Replying, ServerTypes, local
<1>8. ASSUME NEW o \in Owners,
           ResumeUnlock(o) \/ Wait(o) \/ Answer(o) \/ AckLook(o) \/ AckRemove(o) \/ Crash(o)
      PROVE  KnowsLease'
  BY <1>8, <1>a, <1>b DEF ResumeUnlock, Wait, Answer, AckLook, AckRemove, Crash, Goto,
     KnowsLease, Granted, Claimer, Working, Replying, ServerTypes, local, counters
<1>9. ASSUME Enqueue PROVE KnowsLease'
  BY <1>9, <1>a, <1>b DEF Enqueue, KnowsLease, Granted, Claimer, Working, Replying, ServerTypes,
     local, counters
<1>10. ASSUME NEW m \in Msgs, RecoverStale(m) PROVE KnowsLease'
  BY <1>10, <1>a, <1>b DEF RecoverStale, Move, KnowsLease, Granted, Claimer, Working, Replying,
     ServerTypes, local, counters
<1>11. QED
  BY <1>1, <1>2, <1>3, <1>4, <1>5, <1>6, <1>7, <1>8, <1>9, <1>10 DEF Next, Step, Resume, Claim,
     Serve

\* A server takes the session over when the owner has died.
LEMMA HeirOfDeadStep ==
    ASSUME Base, lapses' = 0, Next
    PROVE  HeirOfDead'
<1>a. ServerTypes /\ seen \in [Owners -> Leases]
  BY DEF Base, TypeOK, LeaseTypes
<1>b. HoldsLease /\ OwnerWorks /\ KnowsLease /\ HeirOfDead
  BY DEF Base, TimelyInv
<1>1. ASSUME NEW o \in Owners, ResumeRead(o) PROVE HeirOfDead'
  BY <1>1, <1>a, <1>b DEF ResumeRead, Goto, HeirOfDead, HoldsLease, OwnerWorks, Granted,
     Claimer, Working, Replying, ServerTypes, local
<1>2. ASSUME NEW o \in Owners,
           RedeliverRead(o) \/ RedeliverMove(o) \/ RedeliverWrite(o)
      PROVE  HeirOfDead'
  BY <1>2, <1>a, <1>b DEF RedeliverRead, RedeliverMove, RedeliverWrite, Goto, Drop, Move,
     HeirOfDead, Granted, Claimer, Working, Replying, ServerTypes, local
<1>3. ASSUME NEW o \in Owners, ResumeGrant(o) PROVE HeirOfDead'
  <2>1. \A p \in Owners : p # o => pc[p] \notin {"redeliver", "move", "rewrite"}
    BY <1>3 DEF ResumeGrant, Base, GuardInv, Asking
  <2>2. QED
    BY <1>3, <1>a, <2>1 DEF ResumeGrant, Goto, HeirOfDead, ServerTypes
<1>4. ASSUME NEW o \in Owners, AssertWrite(o) PROVE HeirOfDead'
  <2>1. pc[o] \in Granted /\ pc'[o] # "rewrite" /\ pc'[o] # "move" /\ pc'[o] # "redeliver"
    BY <1>4, <1>a DEF AssertWrite, Checks, Goto, ServerTypes, Granted, Claimer, Working, Replying
  <2>2. \A p \in Owners : pc[p] \notin {"redeliver", "move", "rewrite"}
    BY <1>b, <2>1, OneAtWork
  <2>3. QED
    BY <1>4, <1>a, <2>1, <2>2 DEF AssertWrite, Goto, HeirOfDead, ServerTypes
<1>5. ASSUME NEW o \in Owners, AssertRead(o) PROVE HeirOfDead'
  BY <1>5, <1>a, <1>b DEF AssertRead, Goto, Checks, HeirOfDead, Granted, Claimer, Working,
     Replying, ServerTypes, local
<1>6. ASSUME NEW o \in Owners,
           ClaimLook(o) \/ ClaimNothing(o) \/ ClaimTake(o) \/ ClaimRead(o) \/ ClaimMark(o)
      PROVE  HeirOfDead'
  BY <1>6, <1>a, <1>b DEF ClaimLook, ClaimNothing, ClaimTake, ClaimRead, ClaimMark, Goto, Drop,
     HeirOfDead, Granted, Claimer, Working, Replying, ServerTypes, local
<1>7. ASSUME Lapse PROVE HeirOfDead'
  BY <1>7, <1>b DEF Lapse, HeirOfDead, Granted, Claimer, Working, Replying, ServerTypes, local
<1>8. ASSUME NEW o \in Owners,
           ResumeLock(o) \/ ResumeUnlock(o) \/ Wait(o) \/ StartReply(o) \/ Answer(o) \/
           AckLook(o) \/ AckRemove(o) \/ Crash(o)
      PROVE  HeirOfDead'
  BY <1>8, <1>a, <1>b DEF ResumeLock, ResumeUnlock, Wait, StartReply, Answer, AckLook,
     AckRemove, Crash, Goto, HeirOfDead, Granted, Claimer, Working, Replying, ServerTypes,
     local, counters
<1>9. ASSUME Enqueue PROVE HeirOfDead'
  BY <1>9, <1>a, <1>b DEF Enqueue, HeirOfDead, Granted, Claimer, Working, Replying, ServerTypes,
     local, counters
<1>10. ASSUME NEW m \in Msgs, RecoverStale(m) PROVE HeirOfDead'
  BY <1>10, <1>a, <1>b DEF RecoverStale, Move, HeirOfDead, Granted, Claimer, Working, Replying,
     ServerTypes, local, counters
<1>11. QED
  BY <1>1, <1>2, <1>3, <1>4, <1>5, <1>6, <1>7, <1>8, <1>9, <1>10 DEF Next, Step, Resume, Claim,
     Serve

\* Putting a claim back or acknowledging it adds none.
LEMMA Shrinks ==
    ASSUME TypeOK,
           \/ \E o \in Owners : RedeliverMove(o) \/ AckRemove(o)
           \/ \E m \in Msgs : RecoverStale(m)
    PROVE  Present(processing') \subseteq Present(processing)
<1>1. processing \in [Msgs -> Marks]
  BY DEF TypeOK, FileTypes
<1>2. ASSUME NEW o \in Owners, RedeliverMove(o)
      PROVE  Present(processing') \subseteq Present(processing)
  BY <1>1, <1>2 DEF RedeliverMove, Move, files, Present
<1>3. ASSUME NEW o \in Owners, AckRemove(o) PROVE Present(processing') \subseteq Present(processing)
  BY <1>1, <1>3 DEF AckRemove, Present
<1>4. ASSUME NEW m \in Msgs, RecoverStale(m)
      PROVE  Present(processing') \subseteq Present(processing)
  BY <1>1, <1>4 DEF RecoverStale, Move, Present
<1>5. QED
  BY <1>2, <1>3, <1>4

\* A server without a claim works on no message.
LEMMA FreshStartStep ==
    ASSUME Base, lapses' = 0, Next
    PROVE  FreshStart'
<1>a. ServerTypes /\ seen \in [Owners -> Leases]
  BY DEF Base, TypeOK, LeaseTypes
<1>b. FreshStart /\ HoldsLease
  BY DEF Base, TimelyInv
<1>1. ASSUME NEW o \in Owners,
           ResumeLock(o) \/ ResumeRead(o) \/ RedeliverRead(o) \/ RedeliverMove(o) \/
           RedeliverWrite(o) \/ ResumeGrant(o) \/ ResumeUnlock(o)
      PROVE  FreshStart'
  BY <1>1, <1>a, <1>b DEF ResumeLock, ResumeRead, RedeliverRead, RedeliverMove, RedeliverWrite,
     ResumeGrant, ResumeUnlock, Goto, Drop, Move, FreshStart, Asking, Granted, Claimer, Working,
     Replying, ServerTypes, local
<1>2. ASSUME NEW o \in Owners,
           ClaimLook(o) \/ ClaimNothing(o) \/ ClaimTake(o) \/ ClaimRead(o) \/ ClaimMark(o)
      PROVE  FreshStart'
  BY <1>2, <1>a, <1>b DEF ClaimLook, ClaimNothing, ClaimTake, ClaimRead, ClaimMark, Goto, Drop,
     FreshStart, Asking, Granted, Claimer, Working, Replying, ServerTypes, local
<1>3. ASSUME NEW o \in Owners, AssertRead(o) PROVE FreshStart'
  BY <1>3, <1>a, <1>b DEF AssertRead, Goto, Checks, FreshStart, HoldsLease, Asking, Granted,
     Claimer, Working, Replying, ServerTypes, local
<1>4. ASSUME NEW o \in Owners,
           AckLook(o) \/ AckRemove(o) \/ Wait(o)
      PROVE  FreshStart'
  BY <1>4, <1>a, <1>b DEF AckLook, AckRemove, Wait, Goto, FreshStart, Asking, Granted, Claimer,
     Working, Replying, ServerTypes, local
<1>5. ASSUME NEW o \in Owners,
           StartReply(o) \/ AssertWrite(o) \/ Answer(o) \/ Crash(o)
      PROVE  FreshStart'
  BY <1>5, <1>a, <1>b DEF StartReply, AssertWrite, Answer, Crash, Goto, Checks, FreshStart,
     Asking, ServerTypes, counters, Granted, Claimer, Working, Replying, ServerTypes, local
<1>6. ASSUME
           Enqueue \/ Lapse
      PROVE  FreshStart'
  BY <1>6, <1>a, <1>b DEF Enqueue, Lapse, FreshStart, Asking, ServerTypes, counters, Granted,
     Claimer, Working, Replying, ServerTypes, local
<1>7. ASSUME NEW m \in Msgs, RecoverStale(m) PROVE FreshStart'
  BY <1>7, <1>a, <1>b DEF RecoverStale, Move, FreshStart, Asking, ServerTypes, counters,
     Granted, Claimer, Working, Replying, ServerTypes, local
<1>8. QED
  BY <1>1, <1>2, <1>3, <1>4, <1>5, <1>6, <1>7 DEF Next, Step, Resume, Claim, Serve

\* A server that takes a claim finds no other.
LEMMA TakesAloneStep ==
    ASSUME Base, lapses' = 0, Next
    PROVE  TakesAlone'
<1>a. ServerTypes /\ seen \in [Owners -> Leases]
  BY DEF Base, TypeOK, LeaseTypes
<1>b. TakesAlone /\ HoldsLease /\ HeirOfDead
  BY DEF Base, TimelyInv
<1>p. processing \in [Msgs -> Marks]
  BY DEF Base, TypeOK, FileTypes
<1>s. \A o \in Owners : RedeliverMove(o) \/ AckRemove(o) =>
        Present(processing') \subseteq Present(processing)
  BY Shrinks DEF Base
<1>1. ASSUME NEW o \in Owners, ClaimTake(o) PROVE TakesAlone'
  <2>1. Present(processing) = {} /\ pc[o] \in Granted
    BY <1>1, <1>b DEF ClaimTake, TakesAlone, Granted, Claimer
  <2>2. \A p \in Owners : pc[p] \in {"take", "claimed"} => p = o
    BY <1>b, <2>1, OneAtWork DEF Granted, Claimer
  <2>3. CASE inbox[Oldest(list[o])] = Absent
    BY <1>1, <1>a, <1>b, <2>1, <2>2, <2>3 DEF ClaimTake, Drop, files, TakesAlone, ServerTypes
  <2>4. CASE inbox[Oldest(list[o])] # Absent
    <3>1. \A p \in Owners : /\ pc'[p] # "take"
                            /\ pc'[p] = "claimed" => p = o /\ list'[p] = list[o]
      BY <1>1, <1>a, <2>2, <2>4 DEF ClaimTake, Goto, ServerTypes
    <3>2. \A n \in Msgs : n # Oldest(list[o]) => processing'[n] = processing[n]
      BY <1>1, <1>p, <2>4 DEF ClaimTake
    <3>3. Present(processing') \subseteq {Oldest(list[o])}
      BY <2>1, <3>2 DEF Present
    <3>4. QED
      BY <3>1, <3>3 DEF TakesAlone
  <2>5. QED
    BY <2>3, <2>4
<1>2. ASSUME NEW o \in Owners, ClaimMark(o) PROVE TakesAlone'
  <2>1. \A p \in Owners : pc[p] \notin {"take", "claimed"}
    BY <1>2, <1>b, OneAtWork DEF ClaimMark, Granted, Claimer, Working
  <2>2. QED
    BY <1>2, <1>a, <2>1 DEF ClaimMark, Goto, TakesAlone, ServerTypes
<1>3. ASSUME NEW o \in Owners, ClaimLook(o) PROVE TakesAlone'
  <2>1. pc'[o] = "take" => Present(processing) = {}
    BY <1>3, <1>a DEF ClaimLook, Goto, ServerTypes
  <2>2. QED
    BY <1>3, <1>a, <1>b, <2>1 DEF ClaimLook, Goto, TakesAlone, files, ServerTypes
<1>4. ASSUME NEW o \in Owners, ClaimRead(o) PROVE TakesAlone'
  <2>1. pc'[o] # "claimed" /\ (pc'[o] = "take" => processing[Oldest(list[o])] = Absent)
    BY <1>4, <1>a DEF ClaimRead, Goto, ServerTypes
  <2>2. pc'[o] = "take" => Present(processing) = {}
    BY <1>4, <1>b, <2>1 DEF ClaimRead, TakesAlone, Present
  <2>3. QED
    BY <1>4, <1>a, <1>b, <2>1, <2>2 DEF ClaimRead, Goto, Drop, TakesAlone, files, ServerTypes
<1>5. ASSUME NEW o \in Owners, ClaimNothing(o) PROVE TakesAlone'
  BY <1>5, <1>a, <1>b DEF ClaimNothing, Goto, TakesAlone, files, Granted, Claimer, Working,
     Replying, ServerTypes, local
<1>6. ASSUME NEW o \in Owners,
           RedeliverMove(o) \/ AckRemove(o)
      PROVE  TakesAlone'
  <2>1. Present(processing') \subseteq Present(processing)
    BY <1>6, <1>s
  <2>2. \A p \in Owners : /\ pc'[p] \in {"take", "claimed"} => pc'[p] = pc[p]
                          /\ list'[p] = list[p]
    BY <1>6, <1>a DEF RedeliverMove, AckRemove, Goto, ServerTypes, files, local
  <2>3. QED
    BY <1>b, <2>1, <2>2 DEF TakesAlone
<1>7. ASSUME NEW o \in Owners,
           ResumeLock(o) \/ ResumeRead(o) \/ RedeliverRead(o) \/ RedeliverWrite(o) \/
           ResumeGrant(o) \/ ResumeUnlock(o)
      PROVE  TakesAlone'
  BY <1>7, <1>a, <1>b DEF ResumeLock, ResumeRead, RedeliverRead, RedeliverWrite, ResumeGrant,
     ResumeUnlock, Goto, Drop, TakesAlone, files, ServerTypes, local
<1>8. ASSUME NEW o \in Owners,
           Wait(o) \/ StartReply(o) \/ Answer(o) \/ AckLook(o) \/ Crash(o)
      PROVE  TakesAlone'
  BY <1>8, <1>a, <1>b DEF Wait, StartReply, Answer, AckLook, Crash, Goto, TakesAlone, files,
     ServerTypes, local
<1>9. ASSUME NEW o \in Owners,
           AssertRead(o) \/ AssertWrite(o)
      PROVE  TakesAlone'
  BY <1>9, <1>a, <1>b DEF AssertRead, AssertWrite, Goto, Checks, TakesAlone, files, ServerTypes,
     local
<1>10. ASSUME
           Enqueue \/ Lapse
      PROVE  TakesAlone'
  BY <1>10, <1>b DEF Enqueue, Lapse, TakesAlone, files, local
<1>11. ASSUME NEW m \in Msgs, RecoverStale(m) PROVE TakesAlone'
  <2>1. Present(processing') \subseteq Present(processing)
    BY <1>11, Shrinks DEF Base
  <2>2. pc' = pc /\ list' = list
    BY <1>11 DEF RecoverStale, local
  <2>3. QED
    BY <1>b, <2>1, <2>2 DEF TakesAlone
<1>12. QED
  BY <1>1, <1>2, <1>3, <1>4, <1>5, <1>6, <1>7, <1>8, <1>9, <1>10, <1>11 DEF Next, Step, Resume,
     Claim, Serve

\* A server that works on a message has its claim, if any, and no other is there.
LEMMA WorksAloneStep ==
    ASSUME Base, lapses' = 0, Next
    PROVE  WorksAlone'
<1>a. ServerTypes /\ seen \in [Owners -> Leases]
  BY DEF Base, TypeOK, LeaseTypes
<1>b. WorksAlone /\ TakesAlone /\ HoldsLease /\ HeirOfDead /\ FreshStart
  BY DEF Base, TimelyInv
<1>p. processing \in [Msgs -> Marks]
  BY DEF Base, TypeOK, FileTypes
<1>1. ASSUME NEW o \in Owners, ClaimTake(o) PROVE WorksAlone'
  <2>1. pc[o] \in Granted /\ pc'[o] \notin Working
    BY <1>1, <1>a DEF ClaimTake, Goto, ServerTypes, Granted, Claimer, Working, Replying
  <2>2. \A p \in Owners : p # o => pc[p] \notin Working
    BY <1>b, <2>1, OneAtWork DEF Granted
  <2>3. \A p \in Owners : p # o => pc'[p] = pc[p]
    BY <1>1, <1>a DEF ClaimTake, Goto, ServerTypes
  <2>4. QED
    BY <2>1, <2>2, <2>3 DEF WorksAlone
<1>2. ASSUME NEW o \in Owners, ClaimRead(o) PROVE WorksAlone'
  <2>1. list[o] \in SUBSET Msgs /\ list[o] # {} /\ Present(processing) \subseteq {Oldest(list[o])}
    BY <1>2, <1>a, <1>b DEF ClaimRead, Base, ListInv, TakesAlone, ServerTypes
  <2>2. Oldest(list[o]) \in Msgs
    BY <2>1, OldestIn
  <2>3. pc'[o] \in Working => work'[o] = Oldest(list[o])
    BY <1>2, <1>a DEF ClaimRead, Goto, ServerTypes, Working, Replying
  <2>4. processing' = processing /\ \A p \in Owners : p # o => pc'[p] = pc[p] /\ work'[p] = work[p]
    BY <1>2, <1>a DEF ClaimRead, Goto, ServerTypes, files
  <2>5. QED
    BY <1>b, <2>1, <2>2, <2>3, <2>4 DEF WorksAlone
<1>3. ASSUME NEW o \in Owners, ClaimMark(o) PROVE WorksAlone'
  <2>1. pc[o] \in Granted /\ pc[o] \in Working
    BY <1>3 DEF ClaimMark, Granted, Claimer, Working, Replying
  <2>2. \A p \in Owners : p # o => pc[p] \notin Working
    BY <1>b, <2>1, OneAtWork DEF Granted
  <2>3. work' = work /\ \A p \in Owners : p # o => pc'[p] = pc[p]
    BY <1>3, <1>a DEF ClaimMark, Goto, ServerTypes, local
  <2>4. work[o] \in Msgs /\ Present(processing) \subseteq {work[o]}
    BY <1>b, <2>1 DEF WorksAlone
  <2>5. Present(processing') \subseteq {work[o]}
    BY <1>3, <1>p, <2>4 DEF ClaimMark, Present
  <2>6. QED
    BY <2>2, <2>3, <2>4, <2>5 DEF WorksAlone
<1>4. ASSUME NEW o \in Owners,
           RedeliverMove(o) \/ AckRemove(o)
      PROVE  WorksAlone'
  <2>1. Present(processing') \subseteq Present(processing)
    BY <1>4, Shrinks DEF Base
  <2>2. \A p \in Owners : pc'[p] \in Working => pc[p] \in Working /\ work'[p] = work[p]
    BY <1>4, <1>a DEF RedeliverMove, AckRemove, Goto, ServerTypes, files, local, Working, Replying
  <2>3. QED
    BY <1>b, <2>1, <2>2 DEF WorksAlone
<1>5. ASSUME NEW m \in Msgs, RecoverStale(m) PROVE WorksAlone'
  <2>1. Present(processing') \subseteq Present(processing)
    BY <1>5, Shrinks DEF Base
  <2>2. pc' = pc /\ work' = work
    BY <1>5 DEF RecoverStale, local
  <2>3. QED
    BY <1>b, <2>1, <2>2 DEF WorksAlone
<1>6. ASSUME NEW o \in Owners,
           ResumeLock(o) \/ ResumeRead(o) \/ RedeliverRead(o) \/ RedeliverWrite(o) \/
           ResumeGrant(o) \/ ResumeUnlock(o)
      PROVE  WorksAlone'
  BY <1>6, <1>a, <1>b DEF ResumeLock, ResumeRead, RedeliverRead, RedeliverWrite, ResumeGrant,
     ResumeUnlock, Goto, Drop, WorksAlone, ServerTypes, files, local, Granted, Claimer, Working,
     Replying
<1>7. ASSUME NEW o \in Owners,
           ClaimLook(o) \/ ClaimNothing(o) \/ Wait(o) \/ AckLook(o)
      PROVE  WorksAlone'
  BY <1>7, <1>a, <1>b DEF ClaimLook, ClaimNothing, Wait, AckLook, Goto, WorksAlone, ServerTypes,
     files, local, Granted, Claimer, Working, Replying
<1>8. ASSUME NEW o \in Owners, StartReply(o) PROVE WorksAlone'
  BY <1>8, <1>a, <1>b DEF StartReply, Goto, FreshStart, WorksAlone, ServerTypes, files, local,
     Granted, Claimer, Working, Replying
<1>9. ASSUME NEW o \in Owners, Answer(o) PROVE WorksAlone'
  BY <1>9, <1>a, <1>b DEF Answer, Goto, WorksAlone, ServerTypes, files, local, Granted, Claimer,
     Working, Replying
<1>10. ASSUME NEW o \in Owners, Crash(o) PROVE WorksAlone'
  BY <1>10, <1>a, <1>b DEF Crash, Goto, WorksAlone, ServerTypes, files, local, Granted, Claimer,
     Working, Replying
<1>11. ASSUME NEW o \in Owners, AssertRead(o) PROVE WorksAlone'
  BY <1>11, <1>a, <1>b DEF AssertRead, Goto, Checks, WorksAlone, ServerTypes, files, local,
     Granted, Claimer, Working, Replying
<1>12. ASSUME NEW o \in Owners, AssertWrite(o) PROVE WorksAlone'
  BY <1>12, <1>a, <1>b DEF AssertWrite, Goto, Checks, WorksAlone, ServerTypes, files, local,
     Granted, Claimer, Working, Replying
<1>13. ASSUME
           Enqueue \/ Lapse
      PROVE  WorksAlone'
  BY <1>13, <1>b DEF Enqueue, Lapse, WorksAlone, ServerTypes, files, local, Granted, Claimer,
     Working, Replying
<1>14. QED
  BY <1>1, <1>2, <1>3, <1>4, <1>5, <1>6, <1>7, <1>8, <1>9, <1>10, <1>11, <1>12, <1>13 DEF Next,
     Step, Resume, Claim, Serve

\* What is acknowledged was answered.
LEMMA AckAnsweredStep ==
    ASSUME Base, lapses' = 0, Next
    PROVE  AckAnswered'
<1>a. ServerTypes /\ seen \in [Owners -> Leases]
  BY DEF Base, TypeOK, LeaseTypes
<1>b. AckAnswered /\ WorksAlone
  BY DEF Base, TimelyInv
<1>q. answers \in [Msgs -> Nat]
  BY DEF Base, TypeOK, FileTypes
<1>1. ASSUME NEW o \in Owners, Answer(o) PROVE AckAnswered'
  <2>1. work[o] \in Msgs
    BY <1>1, <1>b DEF Answer, WorksAlone, Working, Replying
  <2>2. \A k \in Nat : k + 1 > 0 /\ (k > 0 => k + 1 > 0)
    OBVIOUS
  <2>3. answers'[work[o]] > 0 /\ \A n \in Msgs : answers[n] > 0 => answers'[n] > 0
    BY <1>1, <1>q, <2>1, <2>2 DEF Answer
  <2>4. work' = work /\ \A p \in Owners : p # o => pc'[p] = pc[p]
    BY <1>1, <1>a DEF Answer, Goto, ServerTypes, local
  <2>5. \A p \in Owners : pc[p] \in {"ack", "remove"} => work[p] \in Msgs
    BY <1>b DEF WorksAlone, Working
  <2>6. QED
    BY <1>b, <2>3, <2>4, <2>5 DEF AckAnswered
<1>2. ASSUME NEW o \in Owners,
           ResumeLock(o) \/ ResumeRead(o) \/ RedeliverRead(o) \/ RedeliverMove(o) \/
           RedeliverWrite(o) \/ ResumeGrant(o) \/ ResumeUnlock(o)
      PROVE  AckAnswered'
  BY <1>2, <1>a, <1>b DEF ResumeLock, ResumeRead, RedeliverRead, RedeliverMove, RedeliverWrite,
     ResumeGrant, ResumeUnlock, Goto, Drop, Move, AckAnswered, ServerTypes, files, local
<1>3. ASSUME NEW o \in Owners,
           ClaimLook(o) \/ ClaimNothing(o) \/ ClaimTake(o) \/ ClaimRead(o) \/ ClaimMark(o)
      PROVE  AckAnswered'
  BY <1>3, <1>a, <1>b DEF ClaimLook, ClaimNothing, ClaimTake, ClaimRead, ClaimMark, Goto, Drop,
     AckAnswered, ServerTypes, files, local
<1>4. ASSUME NEW o \in Owners, AckLook(o) PROVE AckAnswered'
  BY <1>4, <1>a, <1>b DEF AckLook, Goto, AckAnswered, ServerTypes, files, local
<1>5. ASSUME NEW o \in Owners, AckRemove(o) PROVE AckAnswered'
  BY <1>5, <1>a, <1>b DEF AckRemove, Goto, AckAnswered, ServerTypes, files, local
<1>6. ASSUME NEW o \in Owners,
           AssertRead(o) \/ AssertWrite(o)
      PROVE  AckAnswered'
  BY <1>6, <1>a, <1>b DEF AssertRead, AssertWrite, Goto, Checks, AckAnswered, ServerTypes,
     files, local
<1>7. ASSUME
           Enqueue \/ Lapse
      PROVE  AckAnswered'
  BY <1>7, <1>b DEF Enqueue, Lapse, AckAnswered, ServerTypes, files, local
<1>8. ASSUME NEW o \in Owners,
           Wait(o) \/ StartReply(o) \/ Crash(o)
      PROVE  AckAnswered'
  BY <1>8, <1>a, <1>b DEF Wait, StartReply, Crash, Goto, AckAnswered, ServerTypes, files, local,
     counters
<1>9. ASSUME NEW m \in Msgs, RecoverStale(m) PROVE AckAnswered'
  BY <1>9, <1>a, <1>b DEF RecoverStale, Move, AckAnswered, ServerTypes, files, local, counters
<1>10. QED
  BY <1>1, <1>2, <1>3, <1>4, <1>5, <1>6, <1>7, <1>8, <1>9 DEF Next, Step, Resume, Claim, Serve

\* The claim that is acknowledged is the one of the answer.
LEMMA AckOwnStep ==
    ASSUME Base, lapses' = 0, Next
    PROVE  AckOwn'
<1>a. ServerTypes /\ seen \in [Owners -> Leases]
  BY DEF Base, TypeOK, LeaseTypes
<1>b. AckOwn /\ WorksAlone
  BY DEF Base, TimelyInv
<1>1. ASSUME NEW o \in Owners, AckLook(o) PROVE AckOwn'
  <2> DEFINE mine == {m \in Msgs : processing[m] = seen[o].id}
  <2>1. Present(processing) \subseteq {work[o]} /\ work[o] \in Msgs
    BY <1>1, <1>b DEF AckLook, WorksAlone, Working
  <2>2. seen[o].id # Absent
    <3>1. seen[o].id \in 0..issued /\ issued \in Nat
      BY <1>a DEF Leases, Base, TypeOK, LeaseTypes
    <3>2. QED
      BY <3>1 DEF Absent
  <2>3. mine \subseteq {work[o]}
    BY <2>1, <2>2 DEF Present
  <2>4. mine # {} => Oldest(mine) = work[o]
    BY <2>1, <2>3, OldestIn
  <2>5. \A p \in Owners : pc'[p] = "remove" =>
          /\ work'[p] = work[p]
          /\ \/ p = o /\ mine # {} /\ list'[p] = {Oldest(mine)}
             \/ pc[p] = "remove" /\ list'[p] = list[p]
    BY <1>1, <1>a DEF AckLook, Goto, ServerTypes
  <2>6. QED
    BY <1>b, <2>4, <2>5 DEF AckOwn
<1>2. ASSUME NEW o \in Owners,
           ResumeLock(o) \/ ResumeRead(o) \/ RedeliverRead(o) \/ RedeliverMove(o) \/
           RedeliverWrite(o) \/ ResumeGrant(o) \/ ResumeUnlock(o)
      PROVE  AckOwn'
  BY <1>2, <1>a, <1>b DEF ResumeLock, ResumeRead, RedeliverRead, RedeliverMove, RedeliverWrite,
     ResumeGrant, ResumeUnlock, Goto, Drop, Move, AckOwn, ServerTypes, files, local
<1>3. ASSUME NEW o \in Owners,
           ClaimLook(o) \/ ClaimNothing(o) \/ ClaimTake(o) \/ ClaimRead(o) \/ ClaimMark(o)
      PROVE  AckOwn'
  BY <1>3, <1>a, <1>b DEF ClaimLook, ClaimNothing, ClaimTake, ClaimRead, ClaimMark, Goto, Drop,
     AckOwn, ServerTypes, files, local
<1>4. ASSUME NEW o \in Owners, AckRemove(o) PROVE AckOwn'
  BY <1>4, <1>a, <1>b DEF AckRemove, Goto, AckOwn, ServerTypes, files, local
<1>5. ASSUME NEW o \in Owners,
           AssertRead(o) \/ AssertWrite(o)
      PROVE  AckOwn'
  BY <1>5, <1>a, <1>b DEF AssertRead, AssertWrite, Goto, Checks, AckOwn, ServerTypes, files,
     local
<1>6. ASSUME
           Enqueue \/ Lapse
      PROVE  AckOwn'
  BY <1>6, <1>b DEF Enqueue, Lapse, AckOwn, ServerTypes, files, local
<1>7. ASSUME NEW o \in Owners,
           Wait(o) \/ StartReply(o) \/ Answer(o) \/ Crash(o)
      PROVE  AckOwn'
  BY <1>7, <1>a, <1>b DEF Wait, StartReply, Answer, Crash, Goto, AckOwn, ServerTypes, files,
     local, counters
<1>8. ASSUME NEW m \in Msgs, RecoverStale(m) PROVE AckOwn'
  BY <1>8, <1>a, <1>b DEF RecoverStale, Move, AckOwn, ServerTypes, files, local, counters
<1>9. QED
  BY <1>1, <1>2, <1>3, <1>4, <1>5, <1>6, <1>7, <1>8 DEF Next, Step, Resume, Claim, Serve

-----------------------------------------------------------------------------
(* While, moreover, no claim is recovered from the hand of its server.     *)

\* The invariant of this part.
Gentle == Base /\ HandInv /\ stale = 0

\* A claim that is recovered then is in nobody's hand.
LEMMA OnlyLeftBehind ==
    ASSUME Gentle, stale' = 0, NEW m \in Msgs, RecoverStale(m)
    PROVE  ~InHand(m)
<1>1. stale' # stale + 1
  BY DEF Gentle
<1>2. QED
  BY <1>1 DEF RecoverStale

\* No lease has the id that stands for no file.
LEMMA MarksAreMarks ==
    ASSUME TypeOK
    PROVE  Unmarked # Absent /\ \A o \in Owners : seen[o].id # Absent
<1>1. \A o \in Owners : seen[o].id \in 0..issued /\ issued \in Nat
  BY DEF TypeOK, LeaseTypes, Leases
<1>2. QED
  BY <1>1 DEF Absent, Unmarked

\* A claim stays, with its mark, until it is acknowledged.
LEMMA ClaimThereStep ==
    ASSUME Gentle, lapses' = 0, stale' = 0, Next
    PROVE  ClaimThere'
<1>a. ServerTypes /\ seen \in [Owners -> Leases]
  BY DEF Gentle, Base, TypeOK, LeaseTypes
<1>f. inbox \in [Msgs -> Marks] /\ processing \in [Msgs -> Marks]
  BY DEF Gentle, Base, TypeOK, FileTypes
<1>b. ClaimThere /\ HoldsLease /\ HeirOfDead /\ KnowsLease /\ WorksAlone /\ FreshStart
  BY DEF Gentle, Base, TimelyInv, HandInv
<1>1. ASSUME NEW o \in Owners, ClaimTake(o) PROVE ClaimThere'
  <2>1. pc[o] \in Granted /\ Oldest(list[o]) \in Msgs
    BY <1>1, <1>a, OldestIn DEF ClaimTake, ServerTypes, Granted, Claimer
  <2>2. \A p \in Owners : p # o => pc'[p] = pc[p] /\ pc[p] # "claimed" /\ pc[p] \notin Working
    BY <1>1, <1>a, <1>b, <2>1, OneAtWork DEF ClaimTake, Goto, ServerTypes, Granted, Claimer
  <2>3. /\ pc'[o] \in {"take", "claimed"}
        /\ pc'[o] = "claimed" => list'[o] = list[o] /\ processing'[Oldest(list[o])] # Absent
    BY <1>1, <1>a, <1>f, <2>1 DEF ClaimTake, Goto, ServerTypes
  <2>4. QED
    BY <2>2, <2>3 DEF ClaimThere, Working, Replying
<1>2. ASSUME NEW o \in Owners, ClaimRead(o) PROVE ClaimThere'
  <2>1. processing[Oldest(list[o])] # Absent
    BY <1>2, <1>b DEF ClaimRead, ClaimThere
  <2>2. pc' = [pc EXCEPT ![o] = "mark"] /\ work' = [work EXCEPT ![o] = Oldest(list[o])]
        /\ UNCHANGED <<list, seen, processing>>
    BY <1>2, <2>1 DEF ClaimRead, Goto, files
  <2>3. Oldest(list[o]) \in Msgs
    BY <1>2, <1>a, OldestIn DEF ClaimRead, Gentle, Base, ListInv, ServerTypes
  <2>4. QED
    BY <1>a, <1>b, <2>1, <2>2, <2>3 DEF ClaimThere, ServerTypes, Working, Replying
<1>3. ASSUME NEW o \in Owners, ClaimMark(o) PROVE ClaimThere'
  <2>1. pc[o] \in Granted /\ work[o] \in Msgs
    BY <1>3, <1>b DEF ClaimMark, WorksAlone, Granted, Claimer, Working
  <2>2. \A p \in Owners : p # o => pc'[p] = pc[p] /\ pc[p] # "claimed" /\ pc[p] \notin Working
    BY <1>3, <1>a, <1>b, <2>1, OneAtWork DEF ClaimMark, Goto, ServerTypes, Granted, Claimer
  <2>3. pc'[o] = "settle" /\ work' = work /\ seen' = seen /\ processing'[work[o]] = seen[o].id
    BY <1>3, <1>a, <1>f, <2>1 DEF ClaimMark, Goto, ServerTypes, local
  <2>4. QED
    BY <2>2, <2>3 DEF ClaimThere, Working, Replying
<1>4. ASSUME NEW o \in Owners, AckRemove(o) PROVE ClaimThere'
  <2>1. pc[o] \in Granted /\ pc'[o] = "ready"
    BY <1>4, <1>a DEF AckRemove, Goto, ServerTypes, Granted, Claimer, Working
  <2>2. \A p \in Owners : p # o => pc'[p] = pc[p] /\ pc[p] # "claimed" /\ pc[p] \notin Working
    BY <1>4, <1>a, <1>b, <2>1, OneAtWork DEF AckRemove, Goto, ServerTypes, Granted, Claimer
  <2>3. QED
    BY <2>1, <2>2 DEF ClaimThere, Working, Replying
<1>5. ASSUME NEW o \in Owners, RedeliverMove(o) PROVE ClaimThere'
  <2>1. \A p \in Owners : pc[p] \notin Granted
    BY <1>5, <1>b, OneAtWork DEF RedeliverMove
  <2>2. \A p \in Owners : pc'[p] = pc[p] \/ pc'[p] \in {"refused", "rewrite"}
    BY <1>5, <1>a DEF RedeliverMove, Goto, ServerTypes
  <2>3. QED
    BY <2>1, <2>2 DEF ClaimThere, Granted, Claimer, Working, Replying
<1>6. ASSUME NEW m \in Msgs, RecoverStale(m) PROVE ClaimThere'
  <2>1. ~InHand(m) /\ UNCHANGED <<pc, list, work, seen>>
    BY <1>6, OnlyLeftBehind DEF RecoverStale, local
  <2>2. \A n \in Msgs : n # m => processing'[n] = processing[n]
    BY <1>6, <1>f DEF RecoverStale, Move
  <2>3. ASSUME NEW p \in Owners, pc[p] = "claimed"
        PROVE  Oldest(list[p]) \in Msgs /\ Oldest(list[p]) # m
    <3>1. Oldest(list[p]) \in list[p] /\ Oldest(list[p]) \in Msgs
      BY <1>a, <2>3, OldestIn DEF Gentle, Base, ListInv, ServerTypes
    <3>2. QED
      BY <2>1, <2>3, <3>1 DEF InHand
  <2>4. ASSUME NEW p \in Owners, pc[p] \in Working
        PROVE  work[p] \in Msgs /\ work[p] # m
    <3>1. work[p] \in Msgs /\ (pc[p] = "remove" => work[p] \in list[p])
      BY <2>4 DEF Gentle, Base, TimelyInv, WorksAlone, AckOwn
    <3>2. QED
      BY <2>1, <2>4, <3>1 DEF InHand, Working, Replying
  <2>5. QED
    BY <1>b, <2>1, <2>2, <2>3, <2>4 DEF ClaimThere, Working
<1>7. ASSUME NEW o \in Owners, AssertRead(o) PROVE ClaimThere'
  <2>1. /\ pc[o] \in {"settle", "reply", "settle_write", "reply_write"} => pc[o] \in Working
        /\ pc[o] = "wait" => pc[o] \in Granted
    BY DEF Granted, Working, Replying
  <2>2. /\ UNCHANGED <<list, work, processing>>
        /\ \A p \in Owners : p # o => pc'[p] = pc[p] /\ seen'[p] = seen[p]
    BY <1>7, <1>a DEF AssertRead, Goto, ServerTypes, files
  <2>3. \/ pc[o] = "wait" /\ pc'[o] \in {"idle", "wait_write"}
        \/ /\ pc[o] \in {"settle", "reply"} /\ pc'[o] \in {"settle_write", "reply_write"}
           /\ seen'[o] = lease
    BY <1>7, <1>a, <1>b DEF AssertRead, Checks, Goto, ServerTypes, HoldsLease, Granted, Working,
       Replying
  <2>4. pc[o] \in {"settle", "reply"} => lease.id = seen[o].id /\ processing[work[o]] = seen[o].id
    BY <1>b DEF KnowsLease, ClaimThere, Working, Replying
  <2>5. QED
    BY <1>b, <2>2, <2>3, <2>4 DEF ClaimThere, Working, Replying
<1>8. ASSUME NEW o \in Owners, StartReply(o) PROVE ClaimThere'
  BY <1>8, <1>a, <1>b DEF StartReply, Goto, FreshStart, ClaimThere, ServerTypes, files, local,
     Granted, Claimer, Working, Replying
<1>9. ASSUME NEW o \in Owners, AssertWrite(o) PROVE ClaimThere'
  BY <1>9, <1>a, <1>b DEF AssertWrite, Goto, Checks, ClaimThere, ServerTypes, files, local,
     Granted, Claimer, Working, Replying
<1>10. ASSUME NEW o \in Owners,
           ResumeLock(o) \/ ResumeRead(o) \/ RedeliverRead(o) \/ RedeliverWrite(o) \/
           ResumeGrant(o) \/ ResumeUnlock(o)
      PROVE  ClaimThere'
  BY <1>10, <1>a, <1>b DEF ResumeLock, ResumeRead, RedeliverRead, RedeliverWrite, ResumeGrant,
     ResumeUnlock, Goto, Drop, ClaimThere, ServerTypes, files, local, Granted, Claimer, Working,
     Replying
<1>11. ASSUME NEW o \in Owners,
           ClaimLook(o) \/ ClaimNothing(o)
      PROVE  ClaimThere'
  BY <1>11, <1>a, <1>b DEF ClaimLook, ClaimNothing, Goto, ClaimThere, ServerTypes, files, local,
     Granted, Claimer, Working, Replying
<1>12. ASSUME NEW o \in Owners,
           Wait(o) \/ Answer(o) \/ AckLook(o) \/ Crash(o)
      PROVE  ClaimThere'
  BY <1>12, <1>a, <1>b DEF Wait, Answer, AckLook, Crash, Goto, ClaimThere, ServerTypes, files,
     local, Granted, Claimer, Working, Replying
<1>13. ASSUME
           Enqueue \/ Lapse
      PROVE  ClaimThere'
  BY <1>13, <1>b DEF Enqueue, Lapse, ClaimThere, files, local
<1>14. QED
  BY <1>1, <1>2, <1>3, <1>4, <1>5, <1>6, <1>7, <1>8, <1>9, <1>10, <1>11, <1>12, <1>13 DEF Next,
     Step, Resume, Claim, Serve

\* A message that is put back stays in the inbox until it is written anew.
LEMMA BackThereStep ==
    ASSUME Gentle, lapses' = 0, stale' = 0, Next
    PROVE  BackThere'
<1>a. ServerTypes /\ seen \in [Owners -> Leases]
  BY DEF Gentle, Base, TypeOK, LeaseTypes
<1>f. inbox \in [Msgs -> Marks] /\ processing \in [Msgs -> Marks]
  BY DEF Gentle, Base, TypeOK, FileTypes
<1>b. BackThere /\ HoldsLease /\ HeirOfDead
  BY DEF Gentle, Base, TimelyInv, HandInv
<1>1. ASSUME NEW o \in Owners, RedeliverMove(o) PROVE BackThere'
  <2>1. list' = list /\ \A p \in Owners : p # o => pc'[p] = pc[p]
    BY <1>1, <1>a DEF RedeliverMove, Goto, ServerTypes, local
  <2>2. Oldest(list[o]) \in Msgs
    BY <1>1, <1>a, OldestIn DEF RedeliverMove, Gentle, Base, ListInv, ServerTypes
  <2>3. \A n \in Msgs : inbox[n] # Absent => inbox'[n] # Absent
    BY <1>1, <1>f, <2>2 DEF RedeliverMove, Move, files
  <2>4. pc'[o] = "rewrite" => inbox'[Oldest(list[o])] # Absent
    BY <1>1, <1>a, <1>f, <2>2 DEF RedeliverMove, Move, Goto, ServerTypes
  <2>5. \A p \in Owners : pc[p] = "rewrite" => Oldest(list[p]) \in Msgs
    BY <1>a, OldestIn DEF Gentle, Base, ListInv, ServerTypes
  <2>6. QED
    BY <1>b, <2>1, <2>3, <2>4, <2>5 DEF BackThere
<1>2. ASSUME NEW o \in Owners, RedeliverWrite(o) PROVE BackThere'
  <2>1. /\ pc'[o] # "rewrite"
        /\ \A p \in Owners : p # o => pc'[p] = pc[p] /\ list'[p] = list[p]
    BY <1>2, <1>a DEF RedeliverWrite, Goto, Drop, ServerTypes
  <2>2. \A n \in Msgs : inbox[n] # Absent => inbox'[n] # Absent
    BY <1>2, <1>f, MarksAreMarks DEF RedeliverWrite, Gentle, Base
  <2>3. \A p \in Owners : pc[p] = "rewrite" => Oldest(list[p]) \in Msgs
    BY <1>a, OldestIn DEF Gentle, Base, ListInv, ServerTypes
  <2>4. QED
    BY <1>b, <2>1, <2>2, <2>3 DEF BackThere
<1>3. ASSUME NEW o \in Owners, ClaimTake(o) PROVE BackThere'
  <2>1. \A p \in Owners : pc[p] # "rewrite"
    BY <1>3, <1>b, OneAtWork DEF ClaimTake, Granted, Claimer
  <2>2. \A p \in Owners : pc'[p] # "rewrite"
    BY <1>3, <1>a, <2>1 DEF ClaimTake, Goto, ServerTypes
  <2>3. QED
    BY <2>2 DEF BackThere
<1>4. ASSUME Enqueue PROVE BackThere'
  <2>1. \A n \in Msgs : inbox[n] # Absent => inbox'[n] # Absent
    BY <1>4, <1>f, MarksAreMarks DEF Enqueue, Gentle, Base
  <2>2. \A p \in Owners : pc[p] = "rewrite" => Oldest(list[p]) \in Msgs
    BY <1>a, OldestIn DEF Gentle, Base, ListInv, ServerTypes
  <2>3. QED
    BY <1>4, <1>b, <2>1, <2>2 DEF BackThere, Enqueue, local
<1>5. ASSUME NEW m \in Msgs, RecoverStale(m) PROVE BackThere'
  <2>1. \A n \in Msgs : inbox[n] # Absent => inbox'[n] # Absent
    BY <1>5, <1>f DEF RecoverStale, Move
  <2>2. \A p \in Owners : pc[p] = "rewrite" => Oldest(list[p]) \in Msgs
    BY <1>a, OldestIn DEF Gentle, Base, ListInv, ServerTypes
  <2>3. QED
    BY <1>5, <1>b, <2>1, <2>2 DEF BackThere, RecoverStale, local
<1>6. ASSUME NEW o \in Owners,
           ResumeLock(o) \/ ResumeRead(o) \/ RedeliverRead(o) \/ ResumeGrant(o) \/
           ResumeUnlock(o)
      PROVE  BackThere'
  BY <1>6, <1>a, <1>b DEF ResumeLock, ResumeRead, RedeliverRead, ResumeGrant, ResumeUnlock,
     Goto, Drop, BackThere, ServerTypes, files, local
<1>7. ASSUME NEW o \in Owners,
           ClaimLook(o) \/ ClaimNothing(o) \/ ClaimRead(o) \/ ClaimMark(o)
      PROVE  BackThere'
  BY <1>7, <1>a, <1>b DEF ClaimLook, ClaimNothing, ClaimRead, ClaimMark, Goto, Drop, BackThere,
     ServerTypes, files, local
<1>8. ASSUME NEW o \in Owners,
           Wait(o) \/ Answer(o) \/ AckLook(o) \/ AckRemove(o) \/ Crash(o) \/ StartReply(o)
      PROVE  BackThere'
  BY <1>8, <1>a, <1>b DEF Wait, Answer, AckLook, AckRemove, Crash, StartReply, Goto, BackThere,
     ServerTypes, files, local
<1>9. ASSUME NEW o \in Owners,
           AssertRead(o) \/ AssertWrite(o)
      PROVE  BackThere'
  BY <1>9, <1>a, <1>b DEF AssertRead, AssertWrite, Goto, Checks, BackThere, ServerTypes, files,
     local
<1>10. ASSUME Lapse PROVE BackThere'
  BY <1>10, <1>b DEF Lapse, BackThere, ServerTypes, files, local
<1>11. QED
  BY <1>1, <1>2, <1>3, <1>4, <1>5, <1>6, <1>7, <1>8, <1>9, <1>10 DEF Next, Step, Resume, Claim,
     Serve

\* A message is in one directory.
LEMMA OnePlaceStep ==
    ASSUME Gentle, lapses' = 0, stale' = 0, Next
    PROVE  OnePlace'
<1>a. ServerTypes /\ seen \in [Owners -> Leases]
  BY DEF Gentle, Base, TypeOK, LeaseTypes
<1>f. inbox \in [Msgs -> Marks] /\ processing \in [Msgs -> Marks]
  BY DEF Gentle, Base, TypeOK, FileTypes
<1>b. OnePlace /\ BackThere /\ ClaimThere /\ NotYet /\ WorksAlone
  BY DEF Gentle, Base, TimelyInv, HandInv
<1>1. ASSUME NEW o \in Owners, RedeliverMove(o) PROVE OnePlace'
  BY <1>1, <1>f, <1>b DEF RedeliverMove, Goto, Move, OnePlace, files
<1>2. ASSUME NEW o \in Owners, RedeliverWrite(o) PROVE OnePlace'
  BY <1>2, <1>f, <1>b DEF RedeliverWrite, Goto, Drop, OnePlace, BackThere
<1>3. ASSUME NEW o \in Owners, ClaimTake(o) PROVE OnePlace'
  BY <1>3, <1>f, <1>b DEF ClaimTake, Goto, Drop, OnePlace, files
<1>4. ASSUME NEW o \in Owners, ClaimMark(o) PROVE OnePlace'
  <2>1. work[o] \in Msgs /\ processing[work[o]] # Absent /\ inbox[work[o]] = Absent
    BY <1>4, <1>b DEF ClaimMark, WorksAlone, ClaimThere, OnePlace, Working
  <2>2. QED
    BY <1>4, <1>f, <1>b, <2>1 DEF ClaimMark, OnePlace
<1>5. ASSUME NEW o \in Owners, AckRemove(o) PROVE OnePlace'
  BY <1>5, <1>f, <1>b DEF AckRemove, Goto, OnePlace
<1>6. ASSUME Enqueue PROVE OnePlace'
  <2>1. sent + 1 > sent
    BY DEF Gentle, Base, TypeOK, FileTypes
  <2>2. sent + 1 \in Msgs => processing[sent + 1] = Absent
    BY <1>b, <2>1 DEF NotYet
  <2>3. QED
    BY <1>6, <1>f, <1>b, <2>2 DEF Enqueue, OnePlace
<1>7. ASSUME NEW m \in Msgs, RecoverStale(m) PROVE OnePlace'
  BY <1>7, <1>f, <1>b DEF RecoverStale, Move, OnePlace
<1>8. ASSUME Lapse PROVE OnePlace'
  BY <1>8, <1>b DEF Lapse, OnePlace, files
<1>9. ASSUME NEW o \in Owners,
           ResumeLock(o) \/ ResumeRead(o) \/ RedeliverRead(o) \/ ResumeGrant(o) \/
           ResumeUnlock(o) \/ ClaimLook(o) \/ ClaimNothing(o) \/ ClaimRead(o) \/ Wait(o) \/
           StartReply(o) \/ AssertRead(o) \/ AssertWrite(o) \/ Answer(o) \/ AckLook(o) \/
           Crash(o)
      PROVE  OnePlace'
  BY <1>9, <1>b DEF ResumeLock, ResumeRead, RedeliverRead, ResumeGrant, ResumeUnlock, ClaimLook,
     ClaimNothing, ClaimRead, Wait, StartReply, AssertRead, AssertWrite, Answer, AckLook, Crash,
     Goto, Drop, Checks, OnePlace, files, local, counters
<1>10. QED
  BY <1>1, <1>2, <1>3, <1>4, <1>5, <1>6, <1>7, <1>8, <1>9 DEF Next, Step, Resume, Claim, Serve

\* A message that was not sent is nowhere and has no answer.
LEMMA NotYetStep ==
    ASSUME Gentle, lapses' = 0, stale' = 0, Next
    PROVE  NotYet'
<1>a. ServerTypes /\ seen \in [Owners -> Leases]
  BY DEF Gentle, Base, TypeOK, LeaseTypes
<1>f. inbox \in [Msgs -> Marks] /\ processing \in [Msgs -> Marks]
  BY DEF Gentle, Base, TypeOK, FileTypes
<1>b. NotYet /\ BackThere /\ ClaimThere /\ WorksAlone
  BY DEF Gentle, Base, TimelyInv, HandInv
<1>q. answers \in [Msgs -> Nat]
  BY DEF Gentle, Base, TypeOK, FileTypes
<1>1. ASSUME NEW o \in Owners, RedeliverMove(o) PROVE NotYet'
  BY <1>1, <1>f, <1>b DEF RedeliverMove, Goto, Move, NotYet, files
<1>2. ASSUME NEW o \in Owners, RedeliverWrite(o) PROVE NotYet'
  BY <1>2, <1>f, <1>b DEF RedeliverWrite, Goto, Drop, NotYet, BackThere
<1>3. ASSUME NEW o \in Owners, ClaimTake(o) PROVE NotYet'
  BY <1>3, <1>f, <1>b DEF ClaimTake, Goto, Drop, NotYet, files
<1>4. ASSUME NEW o \in Owners, ClaimMark(o) PROVE NotYet'
  <2>1. work[o] \in Msgs /\ processing[work[o]] # Absent
    BY <1>4, <1>b DEF ClaimMark, WorksAlone, ClaimThere, Working
  <2>2. QED
    BY <1>4, <1>f, <1>b, <2>1 DEF ClaimMark, NotYet
<1>5. ASSUME NEW o \in Owners, Answer(o) PROVE NotYet'
  <2>1. work[o] \in Msgs /\ processing[work[o]] # Absent
    BY <1>5, <1>b, MarksAreMarks DEF Answer, WorksAlone, ClaimThere, Working, Replying, Gentle, Base
  <2>2. /\ UNCHANGED <<inbox, processing, sent>>
        /\ \A n \in Msgs : n # work[o] => answers'[n] = answers[n]
    BY <1>5, <1>q DEF Answer, files
  <2>3. QED
    BY <1>b, <2>1, <2>2 DEF NotYet
<1>6. ASSUME NEW o \in Owners, AckRemove(o) PROVE NotYet'
  BY <1>6, <1>f, <1>b DEF AckRemove, Goto, NotYet
<1>7. ASSUME Enqueue PROVE NotYet'
  <2>1. sent \in Nat
    BY DEF Gentle, Base, TypeOK, FileTypes
  <2>2. \A n \in Msgs : n > sent + 1 => n > sent /\ n # sent + 1
    BY <2>1 DEF Msgs
  <2>3. QED
    BY <1>7, <1>f, <1>b, <2>2 DEF Enqueue, NotYet
<1>8. ASSUME NEW m \in Msgs, RecoverStale(m) PROVE NotYet'
  BY <1>8, <1>f, <1>b DEF RecoverStale, Move, NotYet
<1>9. ASSUME Lapse PROVE NotYet'
  BY <1>9, <1>b DEF Lapse, NotYet, files
<1>10. ASSUME NEW o \in Owners,
           ResumeLock(o) \/ ResumeRead(o) \/ RedeliverRead(o) \/ ResumeGrant(o) \/
           ResumeUnlock(o) \/ ClaimLook(o) \/ ClaimNothing(o) \/ ClaimRead(o) \/ Wait(o) \/
           StartReply(o) \/ AssertRead(o) \/ AssertWrite(o) \/ AckLook(o) \/ Crash(o)
      PROVE  NotYet'
  BY <1>10, <1>b DEF ResumeLock, ResumeRead, RedeliverRead, ResumeGrant, ResumeUnlock,
     ClaimLook, ClaimNothing, ClaimRead, Wait, StartReply, AssertRead, AssertWrite, AckLook,
     Crash, Goto, Drop, Checks, NotYet, files, local, counters
<1>11. QED
  BY <1>1, <1>2, <1>3, <1>4, <1>5, <1>6, <1>7, <1>8, <1>9, <1>10 DEF Next, Step, Resume, Claim,
     Serve

\* A count that fits still does where nothing was added, or a server crashed.
LEMMA Fits ==
    ASSUME NEW a \in Nat, NEW c \in Nat, NEW P \in BOOLEAN, NEW Q \in BOOLEAN,
           a + (IF P THEN 1 ELSE 0) <= 1 + c
    PROVE  /\ (Q => P) => a + (IF Q THEN 1 ELSE 0) <= 1 + c
           /\ a + (IF Q THEN 1 ELSE 0) <= 1 + (c + 1)
           /\ P => a + 1 <= 1 + c
           /\ 0 + (IF Q THEN 1 ELSE 0) <= 1 + c
OBVIOUS

\* A message neither appears nor loses the server that acknowledges it.
Still(m) == /\ inbox'[m] # Absent \/ processing'[m] # Absent =>
                 inbox[m] # Absent \/ processing[m] # Absent
            /\ \A p \in Owners : pc[p] \in {"ack", "remove"} =>
                 \/ pc'[p] \in {"ack", "remove"} /\ work'[p] = work[p]
                 \/ work[p] # m

\* A message that becomes open was sent again, or its server left it.
LEMMA OpenKept ==
    ASSUME NEW m \in Msgs, Still(m), Open(m)'
    PROVE  Open(m)
BY DEF Open, Still

\* The answers a message can still get are paid by the crashes.
LEMMA CountedStep ==
    ASSUME Gentle, lapses' = 0, stale' = 0, Next
    PROVE  Counted'
<1>a. ServerTypes /\ seen \in [Owners -> Leases]
  BY DEF Gentle, Base, TypeOK, LeaseTypes
<1>f. inbox \in [Msgs -> Marks] /\ processing \in [Msgs -> Marks]
  BY DEF Gentle, Base, TypeOK, FileTypes
<1>b. ClaimThere /\ BackThere /\ OnePlace /\ NotYet /\ WorksAlone /\ HoldsLease /\ HeirOfDead
  BY DEF Gentle, Base, TimelyInv, HandInv
<1>q. answers \in [Msgs -> Nat] /\ crashes \in Nat
  BY ResumeAssumption DEF Gentle, Base, TypeOK, FileTypes, CounterTypes
<1>c. \A n \in Msgs : answers[n] + (IF Open(n) THEN 1 ELSE 0) <= 1 + crashes
  BY DEF Gentle, HandInv, Counted
<1>k. ASSUME NEW n \in Msgs, answers'[n] = answers[n], crashes' = crashes, Still(n)
      PROVE  answers'[n] + (IF Open(n)' THEN 1 ELSE 0) <= 1 + crashes'
  <2>1. Open(n)' => Open(n)
    BY <1>k, OpenKept
  <2>2. Open(n) \in BOOLEAN /\ Open(n)' \in BOOLEAN
    BY DEF Open
  <2>3. answers[n] + (IF Open(n)' THEN 1 ELSE 0) <= 1 + crashes
    BY <1>q, <1>c, <2>1, <2>2, Fits
  <2>4. QED
    BY <1>k, <2>3
<1>s. ASSUME UNCHANGED <<answers, crashes>>, \A n \in Msgs : Still(n)
      PROVE  Counted'
  BY <1>s, <1>k DEF Counted
<1>1. ASSUME NEW o \in Owners,
           RedeliverMove(o) \/ ClaimTake(o)
      PROVE  Counted'
  BY <1>1, <1>a, <1>f, <1>s DEF RedeliverMove, ClaimTake, Goto, Move, Drop, Still, ServerTypes,
     files, local, counters
<1>2. ASSUME NEW o \in Owners, RedeliverWrite(o) PROVE Counted'
  <2>1. inbox[Oldest(list[o])] # Absent
    BY <1>2, <1>b DEF RedeliverWrite, BackThere
  <2>2. QED
    BY <1>2, <1>a, <1>f, <1>s, <2>1 DEF RedeliverWrite, Goto, Drop, Still, ServerTypes, counters
<1>3. ASSUME NEW o \in Owners, ClaimMark(o) PROVE Counted'
  <2>1. processing[work[o]] # Absent
    BY <1>3, <1>b DEF ClaimMark, ClaimThere
  <2>2. QED
    BY <1>3, <1>a, <1>f, <1>s, <2>1 DEF ClaimMark, Goto, Still, ServerTypes, local, counters
<1>4. ASSUME NEW o \in Owners, AckLook(o) PROVE Counted'
  <2>1. work[o] \in Msgs /\ processing[work[o]] = seen[o].id
    BY <1>4, <1>b DEF AckLook, ClaimThere, WorksAlone, Working
  <2>2. {m \in Msgs : processing[m] = seen[o].id} # {}
    BY <2>1
  <2>3. QED
    BY <1>4, <1>a, <1>s, <2>2 DEF AckLook, Goto, Still, ServerTypes, files, counters
<1>5. ASSUME NEW o \in Owners, AckRemove(o) PROVE Counted'
  <2>1. work[o] \in Msgs /\ Oldest(list[o]) = work[o] /\ processing[work[o]] # Absent
    BY <1>5, <1>b, OldestOne, MarksAreMarks
       DEF AckRemove, ClaimThere, WorksAlone, Working, Gentle, Base, TimelyInv, AckOwn
  <2>2. processing'[work[o]] = Absent /\ inbox'[work[o]] = Absent
    BY <1>5, <1>b, <1>f, <2>1 DEF AckRemove, OnePlace
  <2>3. UNCHANGED <<answers, crashes>>
    BY <1>5 DEF AckRemove, counters
  <2>4. \A n \in Msgs : n # work[o] => Still(n)
    BY <1>5, <1>a, <1>f, <2>1 DEF AckRemove, Goto, Still, ServerTypes
  <2>5. ASSUME NEW n \in Msgs PROVE answers'[n] + (IF Open(n)' THEN 1 ELSE 0) <= 1 + crashes'
    <3>1. CASE n = work[o]
      <4>1. ~Open(n)'
        BY <2>2, <3>1 DEF Open
      <4>2. answers[n] + 0 <= 1 + crashes
        BY <1>q, <1>c, Fits DEF Open
      <4>3. QED
        BY <2>3, <4>1, <4>2
    <3>2. CASE n # work[o]
      BY <1>k, <2>3, <2>4, <3>2
    <3>3. QED
      BY <3>1, <3>2
  <2>6. QED
    BY <2>5 DEF Counted
<1>6. ASSUME NEW o \in Owners, Answer(o) PROVE Counted'
  <2>1. work[o] \in Msgs /\ processing[work[o]] # Absent
    BY <1>6, <1>b, MarksAreMarks DEF Answer, WorksAlone, ClaimThere, Working, Replying, Gentle, Base
  <2>2. \A p \in Owners : pc[p] \notin {"ack", "remove"}
    BY <1>6, <1>b, OneAtWork DEF Answer, Granted, Working, Replying
  <2>3. Open(work[o])
    BY <2>1, <2>2 DEF Open
  <2>4. pc'[o] = "ack" /\ work' = work /\ crashes' = crashes
    BY <1>6, <1>a DEF Answer, Goto, ServerTypes, local, counters
  <2>6. /\ answers'[work[o]] = answers[work[o]] + 1
        /\ \A n \in Msgs : n # work[o] => answers'[n] = answers[n]
    BY <1>6, <1>q, <2>1 DEF Answer
  <2>7. \A n \in Msgs : Still(n)
    BY <1>6, <2>2 DEF Answer, files, Still
  <2>8. ASSUME NEW n \in Msgs PROVE answers'[n] + (IF Open(n)' THEN 1 ELSE 0) <= 1 + crashes'
    <3>1. CASE n = work[o]
      <4>1. answers[n] \in Nat /\ answers[n] + 1 <= 1 + crashes
        <5>1. answers[n] \in Nat /\ Open(n) = TRUE
          BY <1>q, <2>3, <3>1 DEF Open
        <5>2. answers[n] + (IF TRUE THEN 1 ELSE 0) <= 1 + crashes
          BY <1>c, <5>1
        <5>3. QED
          BY <5>1, <5>2
      <4>2. answers'[n] = answers[n] + 1 /\ ~Open(n)'
        BY <2>4, <2>6, <3>1 DEF Open
      <4>3. QED
        <5>1. (answers[n] + 1) + 0 <= 1 + crashes
          BY <4>1, <1>q
        <5>2. QED
          BY <2>4, <4>2, <5>1
    <3>2. CASE n # work[o]
      BY <1>k, <2>4, <2>6, <2>7, <3>2
    <3>3. QED
      BY <3>1, <3>2
  <2>9. QED
    BY <2>8 DEF Counted
<1>7. ASSUME NEW o \in Owners, Crash(o) PROVE Counted'
  <2>1. answers' = answers /\ crashes' = crashes + 1
    BY <1>7 DEF Crash
  <2>2. ASSUME NEW n \in Msgs PROVE answers[n] + (IF Open(n)' THEN 1 ELSE 0) <= 1 + (crashes + 1)
    <3>1. Open(n) \in BOOLEAN /\ Open(n)' \in BOOLEAN
      BY DEF Open
    <3>2. QED
      BY <1>q, <1>c, <3>1, Fits
  <2>3. QED
    BY <2>1, <2>2 DEF Counted
<1>8. ASSUME Enqueue PROVE Counted'
  <2>1. sent + 1 > sent
    BY DEF Gentle, Base, TypeOK, FileTypes
  <2>2. UNCHANGED <<answers, crashes>> /\ \A n \in Msgs : n # sent + 1 => Still(n)
    BY <1>8, <1>f DEF Enqueue, Still, local, counters
  <2>3. ASSUME NEW n \in Msgs PROVE answers'[n] + (IF Open(n)' THEN 1 ELSE 0) <= 1 + crashes'
    <3>1. CASE n = sent + 1
      <4>1. answers[n] = 0
        BY <1>b, <2>1, <3>1 DEF NotYet
      <4>2. Open(n) \in BOOLEAN /\ Open(n)' \in BOOLEAN
        BY DEF Open
      <4>3. 0 + (IF Open(n)' THEN 1 ELSE 0) <= 1 + crashes
        BY <1>q, <1>c, <4>2, Fits
      <4>4. QED
        BY <2>2, <4>1, <4>3
    <3>2. CASE n # sent + 1
      BY <1>k, <2>2, <3>2
    <3>3. QED
      BY <3>1, <3>2
  <2>4. QED
    BY <2>3 DEF Counted
<1>9. ASSUME Lapse PROVE Counted'
  BY <1>9, <1>s DEF Lapse, Still, files, local
<1>10. ASSUME NEW m \in Msgs, RecoverStale(m) PROVE Counted'
  BY <1>10, <1>f, <1>s DEF RecoverStale, Move, Still, local
<1>11. ASSUME NEW o \in Owners,
           ResumeLock(o) \/ ResumeRead(o) \/ RedeliverRead(o) \/ ResumeGrant(o) \/
           ResumeUnlock(o)
      PROVE  Counted'
  BY <1>11, <1>a, <1>s DEF ResumeLock, ResumeRead, RedeliverRead, ResumeGrant, ResumeUnlock,
     Goto, Drop, Still, ServerTypes, files, local, counters
<1>12. ASSUME NEW o \in Owners,
           ClaimLook(o) \/ ClaimNothing(o) \/ ClaimRead(o)
      PROVE  Counted'
  BY <1>12, <1>a, <1>s DEF ClaimLook, ClaimNothing, ClaimRead, Goto, Drop, Still, ServerTypes,
     files, local, counters
<1>13. ASSUME NEW o \in Owners,
           Wait(o) \/ StartReply(o)
      PROVE  Counted'
  BY <1>13, <1>a, <1>s DEF Wait, StartReply, Goto, Still, ServerTypes, files, local, counters
<1>14. ASSUME NEW o \in Owners,
           AssertRead(o) \/ AssertWrite(o)
      PROVE  Counted'
  BY <1>14, <1>a, <1>s DEF AssertRead, AssertWrite, Goto, Checks, Still, ServerTypes, files,
     local, counters
<1>15. QED
  BY <1>1, <1>2, <1>3, <1>4, <1>5, <1>6, <1>7, <1>8, <1>9, <1>10, <1>11, <1>12, <1>13, <1>14 DEF
     Next, Step, Resume, Claim, Serve

-----------------------------------------------------------------------------
(* The invariant, and what follows from it.                                *)

\* The number of lapses, or of recovered claims, is never 0 again.
LEMMA CountersGrow ==
    ASSUME TypeOK, [Next]_vars
    PROVE  /\ lapses' = 0 => lapses = 0
           /\ stale' = 0 => stale = 0
<1>1. lapses \in Nat /\ stale \in Nat
  BY ResumeAssumption DEF TypeOK, CounterTypes
<1>2. lapses + 1 # 0 /\ stale + 1 # 0
  BY <1>1
<1>3. lapses' \in {lapses, lapses + 1} /\ stale' \in {stale, stale + 1}
  BY DEF ResumeLock, ResumeRead, RedeliverRead, RedeliverMove, RedeliverWrite, ResumeGrant,
     ResumeUnlock, ClaimLook, ClaimNothing, ClaimTake, ClaimRead, ClaimMark, Wait, StartReply,
     AssertRead, AssertWrite, Answer, AckLook, AckRemove, Crash, Enqueue, Lapse, RecoverStale,
     Next, Step, Resume, Claim, Serve, counters, vars
<1>4. QED
  BY <1>2, <1>3

\* Initially everything is empty.
LEMMA InitInv == Init => IInv
<1> SUFFICES ASSUME Init PROVE IInv
  OBVIOUS
<1>0. Absent \in Marks /\ NoLease \in Leases
  BY DEF Init, Marks, Absent, Leases, NoLease
<1>1. TypeOK
  <2>1. LeaseTypes
    BY <1>0 DEF Init, LeaseTypes
  <2>2. FileTypes
    BY <1>0, ResumeAssumption DEF Init, FileTypes
  <2>3. ServerTypes
    BY ResumeAssumption DEF Init, ServerTypes, Labels
  <2>4. CounterTypes
    BY ResumeAssumption DEF Init, CounterTypes
  <2>5. QED
    BY <2>1, <2>2, <2>3, <2>4 DEF TypeOK
<1>2. ListInv /\ GuardInv
  BY DEF Init, ListInv, GuardInv, Asking
<1>3. TimelyInv
  <2>1. HoldsLease /\ OwnerWorks /\ KnowsLease /\ HeirOfDead
    BY ResumeAssumption DEF Init, HoldsLease, OwnerWorks, KnowsLease, HeirOfDead, NoLease,
       Granted, Claimer, Working, Replying
  <2>2. FreshStart /\ TakesAlone /\ WorksAlone /\ AckAnswered /\ AckOwn
    BY DEF Init, FreshStart, TakesAlone, WorksAlone, AckAnswered, AckOwn, Working, Replying
  <2>3. QED
    BY <2>1, <2>2 DEF TimelyInv
<1>4. HandInv
  <2>1. ClaimThere /\ BackThere /\ OnePlace /\ NotYet
    BY DEF Init, ClaimThere, BackThere, OnePlace, NotYet, Working, Replying
  <2>2. ASSUME NEW m \in Msgs PROVE answers[m] + (IF Open(m) THEN 1 ELSE 0) <= 1 + crashes
    <3>1. ~Open(m) /\ answers[m] = 0 /\ crashes = 0
      BY DEF Init, Open
    <3>2. QED
      BY <3>1
  <2>3. QED
    BY <2>1, <2>2 DEF HandInv, Counted
<1>5. QED
  BY <1>1, <1>2, <1>3, <1>4 DEF IInv

\* A step that changes nothing.
LEMMA StutterInv == IInv /\ UNCHANGED vars => IInv'
<1> SUFFICES ASSUME IInv, UNCHANGED vars PROVE IInv'
  OBVIOUS
<1> USE DEF vars, files, local, counters
<1>1. TypeOK'
  BY DEF IInv, TypeOK, LeaseTypes, FileTypes, ServerTypes, CounterTypes, Leases, Marks
<1>2. ListInv' /\ GuardInv'
  BY DEF IInv, ListInv, GuardInv
<1>3. TimelyInv => TimelyInv'
  BY DEF TimelyInv, HoldsLease, OwnerWorks, KnowsLease, HeirOfDead, FreshStart,
     TakesAlone, WorksAlone, AckAnswered, AckOwn
<1>4. HandInv => HandInv'
  BY DEF HandInv, ClaimThere, BackThere, OnePlace, NotYet, Counted, Open
<1>5. QED
  BY <1>1, <1>2, <1>3, <1>4 DEF IInv

\* Every step keeps the invariant.
LEMMA StepInv == IInv /\ [Next]_vars => IInv'
<1> SUFFICES ASSUME IInv, Next PROVE IInv'
  BY StutterInv
<1>1. TypeOK /\ ListInv /\ GuardInv
  BY DEF IInv
<1>2. TypeOK'
  BY <1>1, LeaseStep, FileStep, ServerStep, CounterStep DEF TypeOK
<1>3. ListInv' /\ GuardInv'
  BY <1>1, ListStep, GuardStep
<1>4. (lapses' = 0 => lapses = 0) /\ (stale' = 0 => stale = 0)
  BY <1>1, CountersGrow
<1>5. ASSUME lapses' = 0 PROVE Base
  BY <1>4, <1>5 DEF IInv, Base
<1>6. ASSUME lapses' = 0 PROVE TimelyInv'
  BY <1>5, <1>6, HoldsLeaseStep, OwnerWorksStep, KnowsLeaseStep, HeirOfDeadStep, FreshStartStep,
     TakesAloneStep, WorksAloneStep, AckAnsweredStep, AckOwnStep DEF TimelyInv
<1>7. ASSUME lapses' = 0, stale' = 0 PROVE HandInv'
  <2>1. Gentle
    BY <1>4, <1>5, <1>7 DEF IInv, Gentle
  <2>2. QED
    BY <1>7, <2>1, ClaimThereStep, BackThereStep, OnePlaceStep, NotYetStep, CountedStep
       DEF HandInv
<1>8. QED
  BY <1>2, <1>3, <1>6, <1>7 DEF IInv

\* The invariant holds in every reachable state.
LEMMA Invariant == Spec => []IInv
BY InitInv, StepInv, PTL DEF Spec

\* The lease, the files and the servers keep their types, for any number of
\* servers, messages and faults.
THEOREM TypesHold == Spec => []TypeOK
<1>1. IInv => TypeOK
  BY DEF IInv
<1>2. QED
  BY <1>1, Invariant, PTL

\* "redelivers an expired owner claim once": while living owners keep lease and
\* claim, a message is answered once, and once more for every server that died.
THEOREM Once == Spec => []AnsweredOnce
<1>1. IInv => AnsweredOnce
  <2> SUFFICES ASSUME IInv, lapses = 0, stale = 0, NEW m \in Msgs
               PROVE  answers[m] <= 1 + crashes
    BY DEF AnsweredOnce
  <2>1. answers[m] + (IF Open(m) THEN 1 ELSE 0) <= 1 + crashes
    BY DEF IInv, HandInv, Counted
  <2>2. answers[m] \in Nat /\ crashes \in Nat
    BY ResumeAssumption DEF IInv, TypeOK, FileTypes, CounterTypes
  <2>3. QED
    BY <2>1, <2>2
<1>2. QED
  BY <1>1, Invariant, PTL

-----------------------------------------------------------------------------
(* The refinement.                                                         *)

\* A message is put, whether or not it is held already.
LEMMA PutHeld ==
    ASSUME NEW m \in Msgs, Held' = Held \cup {m}, UNCHANGED answers
    PROVE  M!Next
BY DEF M!Next, M!Put, Answered

\* So is an answer, and the removal of a message that has one.
LEMMA SettleHeld ==
    ASSUME Answered \subseteq Answered', Answered' \subseteq Answered \cup Msgs,
           Held' \subseteq Held, Held \ Held' \subseteq Answered'
    PROVE  M!Next
BY DEF M!Next, M!Settle

\* A step of the code is a step of the mailbox or none, as long as no lease of
\* a living owner lapsed: a claim that is put back stays held, one that is
\* written anew is put there, and what is removed was answered.
LEMMA Refines ==
    ASSUME Base, lapses' = 0, Next
    PROVE  [M!Next]_<<Held, Answered>>
<1>a. inbox \in [Msgs -> Marks] /\ processing \in [Msgs -> Marks] /\ answers \in [Msgs -> Nat]
  BY DEF Base, TypeOK, FileTypes
<1>b. Unmarked # Absent /\ \A o \in Owners : seen[o].id # Absent
  BY MarksAreMarks DEF Base
<1>c. \A o \in Owners : pc[o] \in {"rewrite", "move", "claimed"} => Oldest(list[o]) \in Msgs
  BY OldestIn DEF Base, ListInv, TypeOK, ServerTypes
<1>d. \A o \in Owners : pc[o] \in Working => work[o] \in Msgs
  BY DEF Base, TimelyInv, WorksAlone
<1>m. ASSUME NEW m \in Msgs, Move(m), processing[m] # Absent, UNCHANGED answers
      PROVE  UNCHANGED <<Held, Answered>>
  <2>1. \A n \in Msgs : /\ inbox'[n] # Absent \/ processing'[n] # Absent
                           <=> inbox[n] # Absent \/ processing[n] # Absent
    BY <1>m, <1>a DEF Move
  <2>2. QED
    BY <1>m, <2>1 DEF Held, Present, Answered
<1>1. ASSUME NEW o \in Owners, RedeliverMove(o) PROVE UNCHANGED <<Held, Answered>>
  <2>1. CASE processing[Oldest(list[o])] = Absent
    BY <1>1, <2>1 DEF RedeliverMove, files, Held, Answered
  <2>2. CASE processing[Oldest(list[o])] # Absent
    BY <1>1, <1>c, <1>m, <2>2 DEF RedeliverMove
  <2>3. QED
    BY <2>1, <2>2
<1>2. ASSUME NEW o \in Owners, RedeliverWrite(o) PROVE M!Next
  <2>1. Oldest(list[o]) \in Msgs
    BY <1>2, <1>c DEF RedeliverWrite
  <2>2. Held' = Held \cup {Oldest(list[o])}
    BY <1>2, <1>a, <1>b, <2>1 DEF RedeliverWrite, Held, Present
  <2>3. QED
    BY <1>2, <2>1, <2>2, PutHeld DEF RedeliverWrite
<1>3. ASSUME NEW o \in Owners, ClaimTake(o) PROVE UNCHANGED <<Held, Answered>>
  <2>1. CASE inbox[Oldest(list[o])] = Absent
    BY <1>3, <2>1 DEF ClaimTake, files, Held, Answered
  <2>2. CASE inbox[Oldest(list[o])] # Absent
    <3>1. \A n \in Msgs : /\ inbox'[n] # Absent \/ processing'[n] # Absent
                             <=> inbox[n] # Absent \/ processing[n] # Absent
      BY <1>3, <1>a, <2>2 DEF ClaimTake
    <3>2. QED
      BY <1>3, <3>1 DEF ClaimTake, Held, Present, Answered
  <2>3. QED
    BY <2>1, <2>2
<1>4. ASSUME NEW o \in Owners, ClaimMark(o) PROVE M!Next
  <2>1. work[o] \in Msgs
    BY <1>4, <1>d DEF ClaimMark, Working
  <2>2. Held' = Held \cup {work[o]}
    BY <1>4, <1>a, <1>b, <2>1 DEF ClaimMark, Held, Present
  <2>3. QED
    BY <1>4, <2>1, <2>2, PutHeld DEF ClaimMark
<1>5. ASSUME NEW o \in Owners, Answer(o) PROVE M!Next
  <2>1. work[o] \in Msgs
    BY <1>5, <1>d DEF Answer, Working, Replying
  <2>2. answers[work[o]] + 1 > 0
    BY <1>a, <2>1
  <2>3. Answered' = Answered \cup {work[o]}
    BY <1>5, <1>a, <2>1, <2>2 DEF Answer, Answered
  <2>4. UNCHANGED Held
    BY <1>5 DEF Answer, files, Held
  <2>5. QED
    BY <2>1, <2>3, <2>4, SettleHeld
<1>6. ASSUME NEW o \in Owners, AckRemove(o) PROVE [M!Next]_<<Held, Answered>>
  <2>1. work[o] \in Msgs /\ Oldest(list[o]) = work[o] /\ work[o] \in Answered
    BY <1>6, <1>d, OldestOne DEF AckRemove, Working, Base, TimelyInv, AckOwn, AckAnswered, Answered
  <2>2. UNCHANGED Answered
    BY <1>6 DEF AckRemove, Answered
  <2>3. CASE inbox[work[o]] = Absent
    <3>1. Held' = Held \ {work[o]}
      BY <1>6, <1>a, <2>1, <2>3 DEF AckRemove, Held, Present
    <3>2. QED
      BY <2>1, <2>2, <3>1, SettleHeld
  <2>4. CASE inbox[work[o]] # Absent
    <3>1. Held' = Held
      BY <1>6, <1>a, <2>1, <2>4 DEF AckRemove, Held, Present
    <3>2. QED
      BY <2>2, <3>1
  <2>5. QED
    BY <2>3, <2>4
<1>7. ASSUME Enqueue PROVE M!Next
  <2>1. sent + 1 \in Msgs
    BY <1>7, ResumeAssumption DEF Enqueue, Base, TypeOK, FileTypes, Msgs
  <2>2. Held' = Held \cup {sent + 1}
    BY <1>7, <1>a, <1>b, <2>1 DEF Enqueue, Held, Present
  <2>3. QED
    BY <1>7, <2>1, <2>2, PutHeld DEF Enqueue
<1>8. ASSUME NEW m \in Msgs, RecoverStale(m) PROVE UNCHANGED <<Held, Answered>>
  BY <1>8, <1>m DEF RecoverStale
<1>9. ASSUME NEW o \in Owners,
             ResumeLock(o) \/ ResumeRead(o) \/ RedeliverRead(o) \/ ResumeGrant(o) \/
             ResumeUnlock(o) \/ ClaimLook(o) \/ ClaimNothing(o) \/ ClaimRead(o) \/ Wait(o) \/
             StartReply(o) \/ AssertRead(o) \/ AssertWrite(o) \/ AckLook(o) \/ Crash(o)
      PROVE  UNCHANGED <<inbox, processing, answers>>
  BY <1>9 DEF ResumeLock, ResumeRead, RedeliverRead, ResumeGrant, ResumeUnlock, ClaimLook,
     ClaimNothing, ClaimRead, Wait, StartReply, AssertRead, AssertWrite, AckLook, Crash, files
<1>10. ASSUME Lapse PROVE UNCHANGED <<inbox, processing, answers>>
  BY <1>10 DEF Lapse, files
<1>11. UNCHANGED <<inbox, processing, answers>> => UNCHANGED <<Held, Answered>>
  BY DEF Held, Answered
<1>12. QED
  BY <1>1, <1>2, <1>3, <1>4, <1>5, <1>6, <1>7, <1>8, <1>9, <1>10, <1>11
     DEF Next, Step, Resume, Claim, Serve

\* As long as every living owner refreshes its lease in time, the session's
\* mailbox implements Mailbox, whatever dies and whatever is recovered.
THEOREM Implements == Spec => TimelyMailbox
<1>1. Init => M!Init
  BY DEF Init, M!Init, Held, Answered, Present
<1>2. IInv /\ [Next]_vars => (lapses' = 0 => [M!Next]_<<Held, Answered>>)
  <2> SUFFICES ASSUME IInv, [Next]_vars, lapses' = 0 PROVE [M!Next]_<<Held, Answered>>
    OBVIOUS
  <2>1. CASE Next
    <3>1. Base
      BY CountersGrow DEF IInv, Base
    <3>2. QED
      BY <2>1, <3>1, Refines
  <2>2. CASE UNCHANGED vars
    BY <2>2 DEF vars, files, Held, Answered
  <2>3. QED
    BY <2>1, <2>2
<1>3. QED
  BY <1>1, <1>2, Invariant, PTL DEF Spec, TimelyMailbox

-----------------------------------------------------------------------------
(* Who serves the session.                                                 *)

\* acquireResumeLease excludes itself, whatever lapses, is recovered or dies: at
\* most one server is between the creation and the removal of the .lock file.
OneAsks == \A o, p \in Owners : pc[o] \in Asking /\ pc[p] \in Asking => o = p

\* As long as every living owner refreshes its lease in time, two servers never
\* claim or answer for a session at once, and none takes it over then.
OneServes ==
    lapses = 0 => \A o, p \in Owners :
                    pc[o] \in Granted /\ pc[p] \in Granted \cup {"redeliver", "move", "rewrite"}
                    => o = p

\* The lock of acquireResumeLease is one.
THEOREM AsksAlone == Spec => []OneAsks
<1>1. IInv => OneAsks
  BY DEF IInv, GuardInv, OneAsks
<1>2. QED
  BY <1>1, Invariant, PTL

\* The lease gives the session to one server, though assertResumeOwner looks at it
\* without the lock.
THEOREM ServesAlone == Spec => []OneServes
<1>1. IInv => OneServes
  BY OneAtWork DEF IInv, TimelyInv, OneServes
<1>2. QED
  BY <1>1, Invariant, PTL

\* A lease that lapses under a living owner is the only way for a reply to remove
\* the claim of another: without one, claims are isolated by instance although
\* servers die and claims are recovered from under them.
THEOREM AcksOwnInTime == Spec => [][lapses' = 0 => \A o \in Owners : AcksOwn(o)]_vars
<1>1. IInv /\ [Next]_vars => (lapses' = 0 => \A o \in Owners : AcksOwn(o))
  <2> SUFFICES ASSUME IInv, [Next]_vars, lapses' = 0, NEW o \in Owners,
                      pc[o] = "remove", pc'[o] = "ready"
               PROVE  Oldest(list[o]) = work[o]
    BY DEF AcksOwn
  <2>1. Next
    BY DEF vars
  <2>2. TimelyInv
    BY <2>1, CountersGrow DEF IInv
  <2>3. list[o] = {work[o]} /\ work[o] \in Msgs
    BY <2>2 DEF TimelyInv, AckOwn, WorksAlone, Working
  <2>4. QED
    BY <2>3, OldestOne
<1>2. QED
  BY <1>1, Invariant, PTL DEF Spec

=============================================================================
