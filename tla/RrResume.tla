------------------------------ MODULE RrResume ------------------------------
(***************************************************************************)
(* The lease on an imported session, and the messages claimed under it     *)
(* (hub/src/rr/store.ts).  Every MCP server is a process of its own, called*)
(* by one agent; an agent that says "continue" takes the session over.     *)
(* The processes share the directory only: a step is one file operation,   *)
(* and what was read before may be old when it is used.                    *)
(*                                                                         *)
(* The lease's clock is `live`: it turns false at any moment, and every    *)
(* write of the lease sets it.  A message is a file in inbox/ or in        *)
(* processing/, with the mark of the lease it was claimed under; messages  *)
(* are numbered in the order of their file names.  The session's own file, *)
(* tasks and removal are the subject of RrTask.                            *)
(***************************************************************************)
EXTENDS Integers

CONSTANTS Owners,     \* the MCP servers, each called by one agent
          None,
          Steady,     \* the ones that do not crash
          MaxMsgs,    \* bound on the messages sent
          MaxLapses,  \* times a lease ends although its owner is alive
          MaxStale,   \* times a claim is recovered while somebody is at work on it
          MaxCrashes

ASSUME ResumeAssumption ==
  /\ None \notin Owners /\ Steady \subseteq Owners
  /\ MaxMsgs \in Nat /\ MaxLapses \in Nat /\ MaxStale \in Nat /\ MaxCrashes \in Nat

VARIABLES
  lease,       \* resume-leases/<session>.json
  guard,       \* who created the .lock file beside it
  issued,      \* number of lease ids ever made
  inbox,       \* mark of each file in inbox/, or Absent
  processing,  \* mark of each file in processing/, or Absent
  sent,        \* messages enqueued so far
  pc,          \* where each server is
  seen,        \* the lease it read last
  list,        \* names of a directory it has still to look at
  work,        \* the message its agent is working on, 0 for none
  answers,     \* answers to each message in the history
  lapses, stale, crashes

files == <<inbox, processing>>
local == <<seen, list, work>>
counters == <<lapses, stale, crashes>>
vars == <<lease, guard, issued, files, sent, pc, local, answers, counters>>

Msgs == 1..MaxMsgs
Absent == -1
Unmarked == 0
NoLease == [owner |-> None, id |-> 0, live |-> FALSE]
Present(dir) == {m \in Msgs : dir[m] # Absent}
Oldest(S) == CHOOSE m \in S : \A n \in S : m <= n

Init ==
  /\ lease = NoLease /\ guard = None /\ issued = 0
  /\ inbox = [m \in Msgs |-> Absent] /\ processing = [m \in Msgs |-> Absent] /\ sent = 0
  /\ pc = [o \in Owners |-> "idle"] /\ seen = [o \in Owners |-> NoLease]
  /\ list = [o \in Owners |-> {}] /\ work = [o \in Owners |-> 0]
  /\ answers = [m \in Msgs |-> 0] /\ lapses = 0 /\ stale = 0 /\ crashes = 0

Goto(o, label) == pc' = [pc EXCEPT ![o] = label]
Drop(o, m) == list' = [list EXCEPT ![o] = @ \ {m}]

\* renameSync: the file takes its mark along.
Move(m) ==
  /\ processing' = [processing EXCEPT ![m] = Absent]
  /\ inbox' = [inbox EXCEPT ![m] = processing[m]]

-----------------------------------------------------------------------------
(* acquireResumeLease, for register_session with the name "continue".      *)

\* The .lock file is created exclusively; the caller is refused if it is there.
ResumeLock(o) ==
  /\ pc[o] = "idle" /\ guard = None
  /\ guard' = o /\ Goto(o, "lease")
  /\ UNCHANGED <<lease, issued, files, sent, local, answers, counters>>

\* Another owner's lease in force refuses the caller; one that ran out has its
\* claims put back first; the caller's own, or none, is just written anew.
ResumeRead(o) ==
  LET other == lease.owner \in Owners \ {o}
  IN  /\ pc[o] = "lease" /\ seen' = [seen EXCEPT ![o] = lease]
      /\ Goto(o, IF other /\ lease.live THEN "refused" ELSE "redeliver")
      /\ list' = [list EXCEPT ![o] = IF other THEN Present(processing) ELSE {}]
      /\ UNCHANGED <<lease, guard, issued, files, sent, work, answers, counters>>

\* redeliverExpiredResumeClaims reads a claim: a vanished one is an error that
\* ends the call, one of a third lease is passed over.
RedeliverRead(o) ==
  /\ pc[o] = "redeliver" /\ list[o] # {}
  /\ LET m == Oldest(list[o])
     IN  \/ processing[m] = Absent /\ Goto(o, "refused") /\ UNCHANGED list
         \/ /\ processing[m] \notin {Absent, Unmarked, seen[o].id}
            /\ Drop(o, m) /\ UNCHANGED pc
         \/ /\ processing[m] \in {Unmarked, seen[o].id}
            /\ Goto(o, "move") /\ UNCHANGED list
  /\ UNCHANGED <<lease, guard, issued, files, sent, seen, work, answers, counters>>

\* Mutant: the claim is removed first and written to the inbox afterwards.
MutantRedeliverMove(o) ==
  /\ pc[o] = "move"
  /\ LET m == Oldest(list[o])
     IN  IF processing[m] = Absent
           THEN Goto(o, "refused") /\ UNCHANGED files
           ELSE /\ processing' = [processing EXCEPT ![m] = Absent] /\ UNCHANGED inbox
                /\ Goto(o, "rewrite")
  /\ UNCHANGED <<lease, guard, issued, sent, local, answers, counters>>

RedeliverMove(o) ==
  /\ pc[o] = "move"
  /\ LET m == Oldest(list[o])
     IN  IF processing[m] = Absent
           THEN Goto(o, "refused") /\ UNCHANGED files
           ELSE Move(m) /\ Goto(o, "rewrite")
  /\ UNCHANGED <<lease, guard, issued, sent, local, answers, counters>>

\* The file is written anew without the mark, wherever it is by now.
RedeliverWrite(o) ==
  /\ pc[o] = "rewrite"
  /\ inbox' = [inbox EXCEPT ![Oldest(list[o])] = Unmarked]
  /\ Drop(o, Oldest(list[o])) /\ Goto(o, "redeliver")
  /\ UNCHANGED <<lease, guard, issued, processing, sent, seen, work, answers, counters>>

\* Mutant: the new id is not counted.
MutantResumeGrant(o) ==
  /\ pc[o] = "redeliver" /\ list[o] = {}
  /\ lease' = [owner |-> o, id |-> issued + 1, live |-> TRUE]
  /\ Goto(o, "granted")
  /\ UNCHANGED <<guard, issued, files, sent, local, answers, counters>>

\* The caller's own lease keeps its id, a new owner gets a new one.
ResumeGrant(o) ==
  /\ pc[o] = "redeliver" /\ list[o] = {}
  /\ LET own == seen[o].owner = o
     IN  /\ issued' = IF own THEN issued ELSE issued + 1
         /\ lease' = [owner |-> o, id |-> IF own THEN seen[o].id ELSE issued + 1,
                      live |-> TRUE]
  /\ Goto(o, "granted")
  /\ UNCHANGED <<guard, files, sent, local, answers, counters>>

\* Mutant: the .lock file is removed after a grant only.
MutantResumeUnlock(o) ==
  /\ pc[o] \in {"granted", "refused"}
  /\ guard' = IF pc[o] = "granted" THEN None ELSE guard
  /\ Goto(o, IF pc[o] = "granted" THEN "ready" ELSE "idle")
  /\ UNCHANGED <<lease, issued, files, sent, local, answers, counters>>

\* finally: the .lock file is removed.
ResumeUnlock(o) ==
  /\ pc[o] \in {"granted", "refused"}
  /\ guard' = None /\ Goto(o, IF pc[o] = "granted" THEN "ready" ELSE "idle")
  /\ UNCHANGED <<lease, issued, files, sent, local, answers, counters>>

-----------------------------------------------------------------------------
(* assertResumeOwner, which takes no lock, in front of every call.         *)

\* The calls that begin with it, where they go on, and where a refusal leads:
\* waitMessage before each claim, its finally after one, and reply.
Checks ==
  {[at |-> "wait", write |-> "wait_write", then |-> "claim", refused |-> "idle"],
   [at |-> "settle", write |-> "settle_write", then |-> "working", refused |-> "working"],
   [at |-> "reply", write |-> "reply_write", then |-> "answer", refused |-> "idle"]}

\* The agent waits for the next message, also if it never answered the last.
Wait(o) ==
  /\ pc[o] \in {"ready", "working"}
  /\ Goto(o, "wait") /\ work' = [work EXCEPT ![o] = 0]
  /\ UNCHANGED <<lease, guard, issued, files, sent, seen, list, answers, counters>>

\* The agent answers, at the first attempt or after it had to continue.
StartReply(o) ==
  /\ pc[o] \in {"working", "ready"} /\ work[o] # 0
  /\ Goto(o, "reply")
  /\ UNCHANGED <<lease, guard, issued, files, sent, local, answers, counters>>

AssertRead(o) ==
  \E c \in Checks :
    /\ pc[o] = c.at
    /\ IF lease.owner = o /\ lease.live
         THEN seen' = [seen EXCEPT ![o] = lease] /\ Goto(o, c.write)
         ELSE Goto(o, c.refused) /\ UNCHANGED seen
    /\ UNCHANGED <<lease, guard, issued, files, sent, list, work, answers, counters>>

\* What was read is written back refreshed, over whatever is there now.
AssertWrite(o) ==
  \E c \in Checks :
    /\ pc[o] = c.write
    /\ lease' = [seen[o] EXCEPT !.live = TRUE] /\ Goto(o, c.then)
    /\ UNCHANGED <<guard, issued, files, sent, local, answers, counters>>

-----------------------------------------------------------------------------
(* claimNext, and the acknowledgement by a reply.                          *)

\* A claim in processing/ holds back the others; the waiter tries again.
ClaimLook(o) ==
  /\ pc[o] = "claim"
  /\ IF Present(processing) # {}
       THEN Goto(o, "wait") /\ UNCHANGED list
       ELSE list' = [list EXCEPT ![o] = Present(inbox)] /\ Goto(o, "take")
  /\ UNCHANGED <<lease, guard, issued, files, sent, seen, work, answers, counters>>

ClaimNothing(o) ==
  /\ pc[o] = "take" /\ list[o] = {} /\ Goto(o, "wait")
  /\ UNCHANGED <<lease, guard, issued, files, sent, local, answers, counters>>

\* The oldest name is renamed; a name that is gone is passed over.
ClaimTake(o) ==
  /\ pc[o] = "take" /\ list[o] # {}
  /\ LET m == Oldest(list[o])
     IN  IF inbox[m] = Absent
           THEN Drop(o, m) /\ UNCHANGED <<pc, files>>
           ELSE /\ inbox' = [inbox EXCEPT ![m] = Absent]
                /\ processing' = [processing EXCEPT ![m] = inbox[m]]
                /\ Goto(o, "claimed") /\ UNCHANGED list
  /\ UNCHANGED <<lease, guard, issued, sent, seen, work, answers, counters>>

\* The claim is read; if it was put back meanwhile the next name is tried.
ClaimRead(o) ==
  /\ pc[o] = "claimed"
  /\ LET m == Oldest(list[o])
     IN  IF processing[m] = Absent
           THEN Drop(o, m) /\ Goto(o, "take") /\ UNCHANGED work
           ELSE /\ Goto(o, "mark") /\ UNCHANGED list
                /\ work' = [work EXCEPT ![o] = m]
  /\ UNCHANGED <<lease, guard, issued, files, sent, seen, answers, counters>>

\* It is written anew with the mark of the lease, wherever it is by now.
ClaimMark(o) ==
  /\ pc[o] = "mark"
  /\ processing' = [processing EXCEPT ![work[o]] = seen[o].id]
  /\ Goto(o, "settle")
  /\ UNCHANGED <<lease, guard, issued, inbox, sent, local, answers, counters>>

\* reply: the answer is in the history first.
Answer(o) ==
  /\ pc[o] = "answer"
  /\ answers' = [answers EXCEPT ![work[o]] = @ + 1] /\ Goto(o, "ack")
  /\ UNCHANGED <<lease, guard, issued, files, sent, local, counters>>

\* acknowledgeOne looks for the first claim with the mark of the lease ...
AckLook(o) ==
  /\ pc[o] = "ack"
  /\ LET mine == {m \in Msgs : processing[m] = seen[o].id}
     IN  IF mine = {}
           THEN Goto(o, "ready") /\ work' = [work EXCEPT ![o] = 0] /\ UNCHANGED list
           ELSE /\ list' = [list EXCEPT ![o] = {Oldest(mine)}]
                /\ Goto(o, "remove") /\ UNCHANGED work
  /\ UNCHANGED <<lease, guard, issued, files, sent, seen, answers, counters>>

\* Mutant: the file is looked for in the inbox.
MutantAckRemove(o) ==
  /\ pc[o] = "remove"
  /\ inbox' = [inbox EXCEPT ![Oldest(list[o])] = Absent]
  /\ Goto(o, "ready") /\ work' = [work EXCEPT ![o] = 0]
  /\ UNCHANGED <<lease, guard, issued, processing, sent, seen, list, answers, counters>>

\* ... and removes the file of that name, whoever's claim it is by now.
AckRemove(o) ==
  /\ pc[o] = "remove"
  /\ processing' = [processing EXCEPT ![Oldest(list[o])] = Absent]
  /\ Goto(o, "ready") /\ work' = [work EXCEPT ![o] = 0]
  /\ UNCHANGED <<lease, guard, issued, inbox, sent, seen, list, answers, counters>>

-----------------------------------------------------------------------------
(* The panel, the clock, stale claims, and the death of a server.          *)

Enqueue ==
  /\ sent < MaxMsgs /\ sent' = sent + 1
  /\ inbox' = [inbox EXCEPT ![sent + 1] = Unmarked]
  /\ UNCHANGED <<lease, guard, issued, processing, pc, local, answers, counters>>

Dead(o) == o \in Owners /\ pc[o] = "dead"

\* Five minutes without a refresh.
Lapse ==
  /\ lease.live /\ lease' = [lease EXCEPT !.live = FALSE]
  /\ \/ Dead(lease.owner) /\ UNCHANGED lapses
     \/ lapses < MaxLapses /\ lapses' = lapses + 1
  /\ UNCHANGED <<guard, issued, files, sent, pc, local, answers, stale, crashes>>

\* Somebody is at work on the claim; not an agent that was refused.
InHand(m) ==
  \E o \in Owners :
    \/ work[o] = m /\ pc[o] \in {"mark", "settle", "settle_write", "working", "reply",
                                "reply_write", "answer", "ack"}
    \/ m \in list[o] /\ pc[o] \in {"claimed", "move", "remove"}

\* recoverStaleClaims, run by any process: half an hour after the last write.
RecoverStale(m) ==
  /\ processing[m] # Absent
  /\ \/ ~InHand(m) /\ UNCHANGED stale
     \/ stale < MaxStale /\ stale' = stale + 1
  /\ Move(m)
  /\ UNCHANGED <<lease, guard, issued, sent, pc, local, answers, lapses, crashes>>

Crash(o) ==
  /\ o \notin Steady /\ pc[o] # "dead" /\ crashes < MaxCrashes
  /\ Goto(o, "dead") /\ crashes' = crashes + 1
  /\ UNCHANGED <<lease, guard, issued, files, sent, local, answers, lapses, stale>>

Resume(o) == \/ ResumeLock(o) \/ ResumeRead(o) \/ RedeliverRead(o) \/ RedeliverMove(o)
             \/ RedeliverWrite(o) \/ ResumeGrant(o) \/ ResumeUnlock(o)
Claim(o) == \/ ClaimLook(o) \/ ClaimNothing(o) \/ ClaimTake(o) \/ ClaimRead(o)
            \/ ClaimMark(o)
Serve(o) == \/ Wait(o) \/ StartReply(o) \/ AssertRead(o) \/ AssertWrite(o) \/ Answer(o)
            \/ AckLook(o) \/ AckRemove(o)
Step(o) == Resume(o) \/ Claim(o) \/ Serve(o)

Next ==
  \/ \E o \in Owners : Step(o) \/ Crash(o)
  \/ Enqueue \/ Lapse \/ \E m \in Msgs : RecoverStale(m)

Spec == Init /\ [][Next]_vars

\* Servers that live go on, an agent does not leave every message unanswered, a
\* dead owner's lease runs out, and what nobody works on is recovered by the Hub
\* or by any server that waits.
Fairness ==
  /\ \A o \in Owners : WF_vars(Step(o)) /\ SF_vars(StartReply(o))
  /\ WF_vars(Dead(lease.owner) /\ Lapse)
  /\ \A m \in Msgs : WF_vars(~InHand(m) /\ RecoverStale(m))

FairSpec == Spec /\ Fairness

-----------------------------------------------------------------------------
(* Properties. *)

Labels == {"idle", "lease", "redeliver", "move", "rewrite", "refused", "granted", "ready",
           "wait", "wait_write", "claim", "take", "claimed", "mark", "settle",
           "settle_write", "working", "reply", "reply_write", "answer", "ack", "remove",
           "dead"}

Leases == [owner : Owners \cup {None}, id : 0..issued, live : BOOLEAN]
Marks  == Absent..issued

LeaseTypes ==
  /\ issued \in Nat /\ guard \in Owners \cup {None}
  /\ lease \in Leases /\ seen \in [Owners -> Leases]

FileTypes ==
  /\ inbox \in [Msgs -> Marks] /\ processing \in [Msgs -> Marks]
  /\ sent \in 0..MaxMsgs /\ answers \in [Msgs -> Nat]

ServerTypes ==
  /\ pc \in [Owners -> Labels]
  /\ list \in [Owners -> SUBSET Msgs] /\ work \in [Owners -> 0..MaxMsgs]

CounterTypes == lapses \in Nat /\ stale \in 0..MaxStale /\ crashes \in 0..MaxCrashes

TypeOK == LeaseTypes /\ FileTypes /\ ServerTypes /\ CounterTypes

\* As long as every living owner refreshes its lease in time, the session's
\* mailbox keeps its promise, whatever dies and whatever is recovered: a message
\* is in inbox/ or processing/ until its answer is written.
Held == Present(inbox) \cup Present(processing)
Answered == {m \in Msgs : answers[m] > 0}
M == INSTANCE Mailbox WITH held <- Held, answered <- Answered
TimelyMailbox ==
  M!Init /\ [][lapses' = 0 => [M!Next]_<<Held, Answered>>]_vars

\* "redelivers an expired owner claim once": as long as no owner outlives its
\* lease or its claim, only a server that died can have a message answered again,
\* and once for each.
AnsweredOnce ==
  lapses = 0 /\ stale = 0 => \A m \in Msgs : answers[m] <= 1 + crashes

\* Every message is answered in the end while living owners refresh in time,
\* unless a server died inside acquireResumeLease: then its .lock file refuses
\* every later "continue".
StuckGuard == Dead(guard)
SentLeadsToAnswered ==
  \A m \in Msgs : (m <= sent) ~> (answers[m] > 0 \/ StuckGuard \/ lapses > 0)

\* Claims are isolated by instance: the reply of one acknowledges the message it
\* answers and never the claim of another.  Violated: the mark of a lease stays on
\* a recovered claim, and assertResumeOwner brings a lease back that was taken
\* over; the old owner's reply then removes the new owner's unmarked claim.
AcksOwn(o) == pc[o] = "remove" /\ pc'[o] = "ready" => Oldest(list[o]) = work[o]
AcksOwnClaim == [][\A o \in Owners : AcksOwn(o)]_vars
=============================================================================
