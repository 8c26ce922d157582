--------------------------------- MODULE Xj ---------------------------------
(***************************************************************************)
(* Leaving XJ: the import of an XJ chat tree into the RR store             *)
(* (src/hub/src/rr/xj-migration.ts) and the cleanup that removes XJ from   *)
(* the machine afterwards (src/hub/src/rr/xj-cleanup.ts), with XJ, Cursor  *)
(* and the RR runtime running beside them.                                 *)
(*                                                                         *)
(* A tree is the set of the records in it; {} is a tree that is not there  *)
(* (or holds no file).  A record keeps its content: XJ only adds records.  *)
(* Audits, hashes and projections compare contents, so here they compare   *)
(* sets.  The takeover and idempotence checks of the gate run on a clone   *)
(* of the RR tree and leave no state; they hold when the comparison does.  *)
(***************************************************************************)
EXTENDS Naturals, FiniteSets

CONSTANTS Records,    \* everything XJ may ever write
          History,    \* the history lines among them: appended, never linked
          First,      \* what XJ has written at the start
          Importers,  \* processes that run the import
          Targets,    \* settings, registries and databases with XJ entries
          MaxFaults,  \* bound: I/O errors and crashes
          MaxTaken    \* bound: once an imported record left RR that often, none does

Free  == "free"
Stale == "stale"    \* a lock file whose writer is gone
Taken == "cleanup"

ASSUME XjAssumption ==
    /\ Free \notin Importers /\ Stale \notin Importers
    /\ History \subseteq Records
    /\ First \subseteq Records /\ First # {}
    /\ MaxFaults \in Nat /\ MaxTaken \in Nat

ImportSteps  == {"idle", "planned", "check", "copy", "write", "unlock"}
CleanupSteps == {"idle", "gate", "recheck", "snapshot", "move", "moved", "clean",
                 "delete", "late", "return", "restore", "copyback", "unlock"}
Outcomes     == {"none", "refused", "cleaned", "rolled_back", "rollback_failed"}

VARIABLES place,       \* ~/.xj-cursor
          written,     \* every record XJ ever wrote
          xjUp,        \* XJ or Cursor runs
          archive,     \* the offline archive
          gate,        \* the tree the gate report was made for; {} none
          raw,         \* compat/xj/raw of the RR tree
          manifest,    \* the tree import-manifest.json lists; {} none
          dest,        \* dest[r]: what is at r's place in the RR tree
          inserted,    \* inserted[r]: how often an import wrote r
          taken,       \* taken[r]: how often an imported r left the RR tree
          importLock,  \* .xj-import.lock
          ipc, plan, todo,             \* an importer's step, plan and writes left
          cleanupLock, \* .xj-cleanup.lock
          cpc, evidence, saved, left, late, outcome,  \* the cleanup's own state
          quarantine,  \* quarantined-xj of its journal
          journal,     \* records in journals that were left behind
          config,      \* config[t]: "xj", "clean" or "gone"
          backup,      \* backup[t]: the copy of t in a journal
          deleting,    \* the deletion of a journal has begun
          faults

xjVars      == <<place, written, xjUp, archive, gate>>
rrVars      == <<raw, manifest, dest, inserted, taken>>
importVars  == <<importLock, ipc, plan, todo>>
cleanupVars == <<cleanupLock, cpc, evidence, saved, left, late, outcome,
                 quarantine, journal, config, backup, deleting>>
vars == <<xjVars, rrVars, importVars, cleanupVars, faults>>

TypeOK ==
    /\ place \in SUBSET Records /\ written \in SUBSET Records /\ xjUp \in BOOLEAN
    /\ archive \in SUBSET Records /\ gate \in SUBSET Records
    /\ raw \in SUBSET Records /\ manifest \in SUBSET Records
    /\ dest \in [Records -> {"none", "xj", "rr"}]
    /\ inserted \in [Records -> Nat] /\ taken \in [Records -> Nat]
    /\ importLock \in Importers \cup {Free, Stale}
    /\ ipc \in [Importers -> ImportSteps]
    /\ plan \in [Importers -> SUBSET Records] /\ todo \in [Importers -> SUBSET Records]
    /\ cleanupLock \in {Free, Stale, Taken}
    /\ cpc \in CleanupSteps /\ outcome \in Outcomes
    /\ evidence \in SUBSET Records
    /\ saved \in SUBSET Targets /\ left \in SUBSET Targets /\ late \in BOOLEAN
    /\ quarantine \in SUBSET Records /\ journal \in SUBSET Records
    /\ config \in [Targets -> {"xj", "clean", "gone"}]
    /\ backup \in [Targets -> {"none", "xj", "clean"}]
    /\ deleting \in BOOLEAN
    /\ faults \in Nat

Init ==
    /\ place = First /\ written = First /\ xjUp = TRUE
    /\ archive = {} /\ gate = {}
    /\ raw = {} /\ manifest = {}
    /\ dest = [r \in Records |-> "none"]
    /\ inserted = [r \in Records |-> 0] /\ taken = [r \in Records |-> 0]
    /\ importLock = Free
    /\ ipc = [i \in Importers |-> "idle"]
    /\ plan = [i \in Importers |-> {}] /\ todo = [i \in Importers |-> {}]
    /\ cleanupLock = Free /\ cpc = "idle" /\ outcome = "none"
    /\ evidence = {} /\ saved = {} /\ left = {} /\ late = FALSE
    /\ quarantine = {} /\ journal = {}
    /\ config = [t \in Targets |-> "xj"] /\ backup = [t \in Targets |-> "none"]
    /\ deleting = FALSE
    /\ faults = 0

Fault == faults < MaxFaults /\ faults' = faults + 1

----------------------------------------------------------------------------
(* XJ and Cursor, the RR runtime, and the operator's archive.              *)

XjStartStop ==
    /\ xjUp' = ~xjUp
    /\ UNCHANGED <<place, written, archive, gate, rrVars, importVars, cleanupVars, faults>>

XjWrite(r) ==
    /\ xjUp /\ r \notin written
    /\ place' = place \cup {r} /\ written' = written \cup {r}
    /\ UNCHANGED <<xjUp, archive, gate, rrVars, importVars, cleanupVars, faults>>

\* Cursor flushes its own copy of a registry or a state database.
CursorFlush(t) ==
    /\ xjUp /\ config[t] = "clean"
    /\ config' = [config EXCEPT ![t] = "xj"]
    /\ UNCHANGED <<xjVars, rrVars, importVars, cleanupLock, cpc, evidence, saved, left, late,
                   outcome, quarantine, journal, backup, deleting, faults>>

\* A record leaves the RR tree: an agent takes a message from the inbox of an
\* imported session, or the panel deletes a session with its files, one by one,
\* be it an imported one or one of RR's own.
RrRemove(r) ==
    /\ dest[r] # "none" /\ dest' = [dest EXCEPT ![r] = "none"]
    /\ \/ dest[r] = "rr" /\ taken' = taken
       \/ /\ dest[r] = "xj" /\ \A q \in Records : taken[q] < MaxTaken
          /\ taken' = [taken EXCEPT ![r] = @ + 1]
    /\ UNCHANGED <<xjVars, raw, manifest, inserted, importVars, cleanupVars, faults>>

\* The RR store holds a record of its own where the import would put r.
RrCreate(r) ==
    /\ dest[r] = "none"
    /\ dest' = [dest EXCEPT ![r] = "rr"]
    /\ UNCHANGED <<xjVars, raw, manifest, inserted, taken, importVars, cleanupVars, faults>>

\* The operator keeps the archive once the deletion has begun.
MakeArchive ==
    /\ place # {} /\ ~deleting
    /\ archive' = place
    /\ UNCHANGED <<place, written, xjUp, gate, rrVars, importVars, cleanupVars, faults>>

----------------------------------------------------------------------------
(* The import.                                                             *)

PlanImport(i) ==
    /\ ipc[i] = "idle" /\ place # {}
    /\ ipc' = [ipc EXCEPT ![i] = "planned"] /\ plan' = [plan EXCEPT ![i] = place]
    /\ UNCHANGED <<xjVars, rrVars, importLock, todo, cleanupVars, faults>>

\* Mutant: the lock file is opened, not created.
MutantLockImport(i) ==
    /\ ipc[i] = "planned"
    /\ IF importLock # Stale
       THEN importLock' = i /\ ipc' = [ipc EXCEPT ![i] = "check"]
       ELSE importLock' = importLock /\ ipc' = [ipc EXCEPT ![i] = "idle"]
    /\ UNCHANGED <<xjVars, rrVars, plan, todo, cleanupVars, faults>>

\* A lock file that is there, whoever left it, refuses the import.
LockImport(i) ==
    /\ ipc[i] = "planned"
    /\ IF importLock = Free
       THEN importLock' = i /\ ipc' = [ipc EXCEPT ![i] = "check"]
       ELSE importLock' = importLock /\ ipc' = [ipc EXCEPT ![i] = "idle"]
    /\ UNCHANGED <<xjVars, rrVars, plan, todo, cleanupVars, faults>>

\* The file is made and the write into it fails: nobody removes it.
LockImportFails(i) ==
    /\ ipc[i] = "planned" /\ importLock = Free /\ Fault
    /\ importLock' = Stale /\ ipc' = [ipc EXCEPT ![i] = "idle"]
    /\ UNCHANGED <<xjVars, rrVars, plan, todo, cleanupVars>>

Importable(tree) ==
    /\ raw \in {{}, tree}
    /\ \A r \in tree : dest[r] # "rr"

\* Mutant: the history lines that are there are not looked up.
MutantCheckImport(i) ==
    /\ ipc[i] = "check"
    /\ IF place = plan[i] /\ Importable(plan[i])
       THEN /\ ipc' = [ipc EXCEPT ![i] = "copy"]
            /\ todo' = [todo EXCEPT ![i] = {r \in plan[i] : dest[r] = "none" \/ r \in History}]
       ELSE ipc' = [ipc EXCEPT ![i] = "unlock"] /\ todo' = todo
    /\ UNCHANGED <<xjVars, rrVars, importLock, plan, cleanupVars, faults>>

\* Every destination is looked at before the first write.
CheckImport(i) ==
    /\ ipc[i] = "check"
    /\ IF place = plan[i] /\ Importable(plan[i])
       THEN /\ ipc' = [ipc EXCEPT ![i] = "copy"]
            /\ todo' = [todo EXCEPT ![i] = {r \in plan[i] : dest[r] = "none"}]
       ELSE ipc' = [ipc EXCEPT ![i] = "unlock"] /\ todo' = todo
    /\ UNCHANGED <<xjVars, rrVars, importLock, plan, cleanupVars, faults>>

\* One file of the source tree, as it is found when the walk comes to it.
CopyRaw(i) ==
    /\ ipc[i] = "copy"
    /\ \E r \in place \ raw : raw' = raw \cup {r}
    /\ UNCHANGED <<xjVars, manifest, dest, inserted, taken, importVars, cleanupVars, faults>>

CopyRawEnds(i) ==
    /\ ipc[i] = "copy"
    /\ plan[i] \subseteq raw \/ ~(plan[i] \ raw \subseteq place)
    /\ ipc' = [ipc EXCEPT ![i] = IF raw = plan[i] THEN "write" ELSE "unlock"]
    /\ UNCHANGED <<xjVars, rrVars, importLock, plan, todo, cleanupVars, faults>>

\* Mutant: a JSON record is renamed into place.
MutantWriteNative(i) ==
    /\ ipc[i] = "write"
    /\ \E r \in todo[i] :
         /\ r \in History => todo[i] \subseteq History
         /\ IF r \in History \/ dest[r] # "xj"
            THEN /\ dest' = [dest EXCEPT ![r] = "xj"]
                 /\ inserted' = [inserted EXCEPT ![r] = @ + 1]
                 /\ todo' = [todo EXCEPT ![i] = @ \ {r}]
                 /\ ipc' = ipc
            ELSE ipc' = [ipc EXCEPT ![i] = "unlock"] /\ UNCHANGED <<dest, inserted, todo>>
    /\ UNCHANGED <<xjVars, raw, manifest, taken, importLock, plan, cleanupVars, faults>>

\* A JSON record is linked into place and fails if one is there; the history
\* lines come after them and are appended.
WriteNative(i) ==
    /\ ipc[i] = "write"
    /\ \E r \in todo[i] :
         /\ r \in History => todo[i] \subseteq History
         /\ IF r \in History \/ dest[r] = "none"
            THEN /\ dest' = [dest EXCEPT ![r] = "xj"]
                 /\ inserted' = [inserted EXCEPT ![r] = @ + 1]
                 /\ todo' = [todo EXCEPT ![i] = @ \ {r}]
                 /\ ipc' = ipc
            ELSE ipc' = [ipc EXCEPT ![i] = "unlock"] /\ UNCHANGED <<dest, inserted, todo>>
    /\ UNCHANGED <<xjVars, raw, manifest, taken, importLock, plan, cleanupVars, faults>>

\* Mutant: the manifest is written first.
MutantWriteManifest(i) ==
    /\ ipc[i] = "write"
    /\ manifest' = plan[i] /\ ipc' = [ipc EXCEPT ![i] = "unlock"]
    /\ UNCHANGED <<xjVars, raw, dest, inserted, taken, importLock, plan, todo, cleanupVars, faults>>

WriteManifest(i) ==
    /\ ipc[i] = "write" /\ todo[i] = {}
    /\ manifest' = plan[i] /\ ipc' = [ipc EXCEPT ![i] = "unlock"]
    /\ UNCHANGED <<xjVars, raw, dest, inserted, taken, importLock, plan, todo, cleanupVars, faults>>

ImportFails(i) ==
    /\ ipc[i] \in {"check", "copy", "write"} /\ Fault
    /\ ipc' = [ipc EXCEPT ![i] = "unlock"]
    /\ UNCHANGED <<xjVars, rrVars, importLock, plan, todo, cleanupVars>>

UnlockImport(i) ==
    /\ ipc[i] = "unlock"
    /\ importLock' = Free /\ ipc' = [ipc EXCEPT ![i] = "idle"]
    /\ plan' = [plan EXCEPT ![i] = {}] /\ todo' = [todo EXCEPT ![i] = {}]
    /\ UNCHANGED <<xjVars, rrVars, cleanupVars, faults>>

CrashImport(i) ==
    /\ ipc[i] # "idle" /\ Fault
    /\ importLock' = IF importLock = i THEN Stale ELSE importLock
    /\ ipc' = [ipc EXCEPT ![i] = "idle"]
    /\ plan' = [plan EXCEPT ![i] = {}] /\ todo' = [todo EXCEPT ![i] = {}]
    /\ UNCHANGED <<xjVars, rrVars, cleanupVars>>

----------------------------------------------------------------------------
(* The cleanup.                                                            *)

\* What verifyXjImport compares for a source tree, wherever the cleanup has
\* put it: the raw copy, the manifest, and the records of the RR tree that an
\* import made.
RawMatches(tree)      == raw = tree
ManifestMatches(tree) == manifest = tree
NativeMatches(tree)   == {r \in Records : dest[r] = "xj"} = tree
Verified(tree) ==
    tree # {} /\ RawMatches(tree) /\ ManifestMatches(tree) /\ NativeMatches(tree)

CreateGate ==
    /\ Verified(place) /\ archive = place
    /\ gate' = place
    /\ UNCHANGED <<place, written, xjUp, archive, rrVars, importVars, cleanupVars, faults>>

\* The cleanup's locals change; the files it works on do not.
Step(pc) == cpc' = pc
KeepFiles == UNCHANGED <<xjVars, rrVars, importVars, quarantine, journal, config, backup, deleting>>

ApplyLock ==
    /\ cpc = "idle" /\ gate # {} /\ cleanupLock = Free
    /\ cleanupLock' = Taken /\ Step("gate") /\ outcome' = "none"
    /\ UNCHANGED <<evidence, saved, left, late, faults>> /\ KeepFiles

\* As for the import: the file is made and the write into it fails.
ApplyLockFails ==
    /\ cpc = "idle" /\ cleanupLock = Free /\ Fault
    /\ cleanupLock' = Stale
    /\ UNCHANGED <<cpc, evidence, saved, left, late, outcome>> /\ KeepFiles

ApplyGate ==
    /\ cpc = "gate"
    /\ IF gate = place /\ Verified(place) /\ archive = place /\ ~xjUp
       THEN Step("recheck") /\ evidence' = place /\ outcome' = outcome
       ELSE Step("unlock") /\ outcome' = "refused" /\ evidence' = evidence
    /\ UNCHANGED <<cleanupLock, saved, left, late, faults>> /\ KeepFiles

ApplyRecheck ==
    /\ cpc = "recheck"
    /\ IF place = evidence /\ Verified(place) /\ archive = evidence
       THEN Step("snapshot") /\ outcome' = outcome
       ELSE Step("unlock") /\ outcome' = "refused"
    /\ UNCHANGED <<cleanupLock, evidence, saved, left, late, faults>> /\ KeepFiles

Cleanable == {t \in Targets : config[t] # "gone"}

\* Mutant: the copies are not made.
MutantSnapshot ==
    /\ cpc = "snapshot"
    /\ saved' = Cleanable
    /\ backup' = backup
    /\ Step("move")
    /\ UNCHANGED <<xjVars, rrVars, importVars, cleanupLock, evidence, left, late, outcome,
                   quarantine, journal, config, deleting, faults>>

Snapshot ==
    /\ cpc = "snapshot"
    /\ saved' = Cleanable
    /\ backup' = [t \in Targets |-> IF t \in Cleanable THEN config[t] ELSE backup[t]]
    /\ Step("move")
    /\ UNCHANGED <<xjVars, rrVars, importVars, cleanupLock, evidence, left, late, outcome,
                   quarantine, journal, config, deleting, faults>>

Quarantine ==
    /\ cpc = "move"
    /\ quarantine' = place /\ place' = {} /\ Step("moved")
    /\ UNCHANGED <<written, xjUp, archive, gate, rrVars, importVars, cleanupLock, evidence, saved,
                   left, late, outcome, journal, config, backup, deleting, faults>>

\* Cursor is stopped, the source is not back, and the quarantined tree is
\* still the tree the gate was made for.
Unchanged ==
    /\ ~xjUp /\ place = {}
    /\ quarantine = evidence /\ Verified(quarantine) /\ archive = evidence

CheckQuarantined ==
    /\ cpc = "moved"
    /\ IF Unchanged THEN Step("clean") /\ left' = saved ELSE Step("late") /\ left' = left
    /\ UNCHANGED <<cleanupLock, evidence, saved, late, outcome, faults>> /\ KeepFiles

CleanTarget(t) ==
    /\ cpc = "clean" /\ t \in left
    /\ config' = [config EXCEPT ![t] = "clean"] /\ left' = left \ {t}
    /\ UNCHANGED <<xjVars, rrVars, importVars, cleanupLock, cpc, evidence, saved, late, outcome,
                   quarantine, journal, backup, deleting, faults>>

Residue == {t \in Targets : config[t] = "xj"}

\* The last look, with the scan for XJ entries that came back.
CheckFinal ==
    /\ cpc = "clean" /\ left = {}
    /\ IF Unchanged /\ Residue = {}
       THEN Step("delete") /\ deleting' = TRUE
       ELSE Step("late") /\ deleting' = deleting
    /\ UNCHANGED <<xjVars, rrVars, importVars, cleanupLock, evidence, saved, left, late, outcome,
                   quarantine, journal, config, backup, faults>>

\* A database is busy, or the copies cannot be made: nothing was touched yet.
ApplyAborts ==
    /\ cpc \in {"gate", "recheck", "snapshot"} /\ Fault
    /\ Step("unlock") /\ outcome' = "refused"
    /\ UNCHANGED <<cleanupLock, evidence, saved, left, late>> /\ KeepFiles

\* The rename, a mutation or the deletion of the journal throws.
ApplyFails ==
    /\ cpc \in {"move", "moved", "clean", "delete"} /\ Fault
    /\ Step("late")
    /\ UNCHANGED <<cleanupLock, evidence, saved, left, late, outcome>> /\ KeepFiles

\* The journal is deleted one entry at a time.
DeleteBackup(t) ==
    /\ cpc = "delete" /\ t \in saved /\ backup[t] # "none"
    /\ backup' = [backup EXCEPT ![t] = "none"]
    /\ UNCHANGED <<xjVars, rrVars, importVars, cleanupLock, cpc, evidence, saved, left, late, outcome,
                   quarantine, journal, config, deleting, faults>>

DeleteRecord(r) ==
    /\ cpc = "delete" /\ r \in quarantine
    /\ quarantine' = quarantine \ {r}
    /\ UNCHANGED <<xjVars, rrVars, importVars, cleanupLock, cpc, evidence, saved, left, late, outcome,
                   journal, config, backup, deleting, faults>>

Deleted ==
    /\ cpc = "delete" /\ quarantine = {} /\ \A t \in saved : backup[t] = "none"
    /\ Step("unlock") /\ outcome' = "cleaned"
    /\ UNCHANGED <<cleanupLock, evidence, saved, left, late, faults>> /\ KeepFiles

\* Mutant: the tree that came back is removed.
MutantRollbackLate ==
    /\ cpc = "late"
    /\ journal' = journal /\ late' = (place # {}) /\ place' = {}
    /\ Step("return")
    /\ UNCHANGED <<written, xjUp, archive, gate, rrVars, importVars, cleanupLock, evidence, saved,
                   left, outcome, quarantine, config, backup, deleting, faults>>

\* A source tree that is there again goes into the journal as a late write.
RollbackLate ==
    /\ cpc = "late"
    /\ journal' = journal \cup place /\ late' = (place # {}) /\ place' = {}
    /\ Step("return")
    /\ UNCHANGED <<written, xjUp, archive, gate, rrVars, importVars, cleanupLock, evidence, saved,
                   left, outcome, quarantine, config, backup, deleting, faults>>

\* Mutant: what was still to be cleaned is restored.
MutantRollbackReturn ==
    /\ cpc = "return"
    /\ quarantine # {} => place = {}
    /\ place' = place \cup quarantine /\ quarantine' = {}
    /\ Step("restore") /\ left' = left
    /\ UNCHANGED <<written, xjUp, archive, gate, rrVars, importVars, cleanupLock, evidence, saved,
                   late, outcome, journal, config, backup, deleting, faults>>

\* The quarantined tree goes back, unless XJ has made a new one meanwhile.
RollbackReturn ==
    /\ cpc = "return"
    /\ quarantine # {} => place = {}
    /\ place' = place \cup quarantine /\ quarantine' = {}
    /\ Step("restore") /\ left' = saved
    /\ UNCHANGED <<written, xjUp, archive, gate, rrVars, importVars, cleanupLock, evidence, saved,
                   late, outcome, journal, config, backup, deleting, faults>>

\* The journal stays behind with whatever is in it.
RollbackAborts ==
    /\ journal' = journal \cup quarantine /\ quarantine' = {}
    /\ Step("unlock") /\ outcome' = "rollback_failed"
    /\ UNCHANGED <<xjVars, rrVars, importVars, cleanupLock, evidence, saved, left, late,
                   config, backup, deleting>>

RollbackCollides ==
    /\ cpc = "return" /\ quarantine # {} /\ place # {}
    /\ RollbackAborts /\ UNCHANGED faults

RollbackFails ==
    /\ cpc \in {"late", "return", "restore", "copyback"} /\ Fault
    /\ RollbackAborts

RestoreRemove(t) ==
    /\ cpc = "restore" /\ t \in left
    /\ config' = [config EXCEPT ![t] = "gone"] /\ left' = left \ {t}
    /\ Step("copyback")
    /\ UNCHANGED <<xjVars, rrVars, importVars, cleanupLock, evidence, saved, late, outcome,
                   quarantine, journal, backup, deleting, faults>>

\* Mutant: the copy is not looked for.
MutantRestoreCopy(t) ==
    /\ cpc = "copyback" /\ t \in saved \ left /\ config[t] = "gone"
    /\ config' = [config EXCEPT ![t] = backup[t]] /\ Step("restore")
    /\ UNCHANGED <<xjVars, rrVars, importVars, cleanupLock, evidence, saved, left, late, outcome,
                   quarantine, journal, backup, deleting, faults>>

\* t is the target of the removal just made.
RestoreCopy(t) ==
    /\ cpc = "copyback" /\ t \in saved \ left /\ config[t] = "gone" /\ backup[t] # "none"
    /\ config' = [config EXCEPT ![t] = backup[t]] /\ Step("restore")
    /\ UNCHANGED <<xjVars, rrVars, importVars, cleanupLock, evidence, saved, left, late, outcome,
                   quarantine, journal, backup, deleting, faults>>

RestoreBreaks(t) ==
    /\ cpc = "copyback" /\ t \in saved \ left /\ config[t] = "gone" /\ backup[t] = "none"
    /\ RollbackAborts /\ UNCHANGED faults

\* With a late write in it the journal is kept, and the rollback is reported failed.
RollbackEnds ==
    /\ cpc = "restore" /\ left = {}
    /\ outcome' = IF late THEN "rollback_failed" ELSE "rolled_back"
    /\ backup' = IF late THEN backup ELSE [t \in Targets |-> IF t \in saved THEN "none" ELSE backup[t]]
    /\ Step("unlock")
    /\ UNCHANGED <<xjVars, rrVars, importVars, cleanupLock, evidence, saved, left, late,
                   quarantine, journal, config, deleting, faults>>

ApplyUnlock ==
    /\ cpc = "unlock"
    /\ cleanupLock' = Free /\ Step("idle")
    /\ evidence' = {} /\ saved' = {} /\ left' = {} /\ late' = FALSE
    /\ UNCHANGED <<outcome, faults>> /\ KeepFiles

CrashCleanup ==
    /\ cpc # "idle" /\ Fault
    /\ cleanupLock' = Stale /\ Step("idle")
    /\ journal' = journal \cup quarantine /\ quarantine' = {}
    /\ evidence' = {} /\ saved' = {} /\ left' = {} /\ late' = FALSE
    /\ UNCHANGED <<xjVars, rrVars, importVars, outcome, config, backup, deleting>>

----------------------------------------------------------------------------
Around ==
    \/ XjStartStop \/ MakeArchive \/ CreateGate
    \/ \E r \in Records : XjWrite(r)
    \/ \E r \in Records \ History : RrCreate(r)
    \/ \E r \in Records : RrRemove(r)
    \/ \E t \in Targets : CursorFlush(t)

Import(i) ==
    \/ PlanImport(i) \/ LockImport(i) \/ LockImportFails(i) \/ CheckImport(i)
    \/ CopyRaw(i) \/ CopyRawEnds(i) \/ WriteNative(i) \/ WriteManifest(i)
    \/ ImportFails(i) \/ UnlockImport(i) \/ CrashImport(i)

Cleanup ==
    \/ ApplyLock \/ ApplyLockFails \/ ApplyAborts \/ ApplyGate \/ ApplyRecheck \/ Snapshot \/ Quarantine \/ CheckQuarantined
    \/ CheckFinal \/ ApplyFails \/ Deleted
    \/ RollbackLate \/ RollbackReturn \/ RollbackCollides \/ RollbackFails \/ RollbackEnds
    \/ ApplyUnlock \/ CrashCleanup
    \/ \E t \in Targets : CleanTarget(t) \/ DeleteBackup(t) \/ RestoreRemove(t)
                          \/ RestoreCopy(t) \/ RestoreBreaks(t)
    \/ \E r \in Records : DeleteRecord(r)

Next == Around \/ (\E i \in Importers : Import(i)) \/ Cleanup

Spec == Init /\ [][Next]_vars

----------------------------------------------------------------------------
(* Whatever XJ wrote is somewhere: in place, in a quarantine or a journal, *)
(* or, where the cleanup deleted it, in the archive and in the raw copy of *)
(* an import whose manifest lists it, and then RR has it at its place, or  *)
(* has had it there and an agent has consumed it, or the user deleted it.  *)
(* (xj-cleanup.ts:823-858)                                                 *)
SourceIsKept ==
    \A r \in written :
        \/ r \in place \cup quarantine \cup journal
        \/ r \in archive \cap raw \cap manifest /\ (dest[r] = "xj" \/ taken[r] > 0)

(* A cleanup that reports cleanup_rolled_back has put everything back: the *)
(* settings it saved are as they were (or as Cursor has written them       *)
(* since), and no record of the tree its gate is for is missing from       *)
(* ~/.xj-cursor, unless the deletion of the journal had begun.             *)
(* (xj-cleanup.ts:845-859)                                                 *)
RolledBackIsRestored ==
    [][cpc = "restore" /\ outcome' = "rolled_back" =>
         /\ \A t \in saved : config[t] \in {backup[t], "xj"}
         /\ deleting \/ evidence \subseteq place]_vars

(* A settings file that the rollback removed and has not copied back still *)
(* has its copy in a journal, unless the deletion of a journal had begun.  *)
(* (xj-cleanup.ts:613-619)                                                 *)
SettingsAreKept ==
    \A t \in Targets : config[t] = "gone" => backup[t] # "none" \/ deleting

(* The import manifest is written last: each record it lists is in the raw *)
(* copy and was imported, whatever imports were cut short before or run    *)
(* now, and whatever XJ wrote while they ran.  (xj-migration.ts:724-756)   *)
ManifestMeansImported ==
    \A r \in manifest : r \in raw /\ inserted[r] > 0

(* Imports running against each other and imports repeated after one that  *)
(* was cut short write a record once; only one that was consumed since, or *)
(* deleted with its session, may be written again.                         *)
(* (xj-migration.ts:650-679, 759-777)                                      *)
InsertedOnce == \A r \in Records : inserted[r] <= 1 + taken[r]

(* An import never overwrites a record RR made, in whatever order the two  *)
(* come to its place.  (xj-migration.ts:137-150, 607-618)                  *)
NothingIsOverwritten ==
    [][\A r \in Records : dest[r] = "rr" => dest'[r] # "xj"]_vars

(* A lock nobody holds is left only by a crash or an I/O error, and a held *)
(* one has one holder inside.  (xj-migration.ts:759-777)                   *)
OneImporter ==
    /\ \A i \in Importers : ipc[i] \in {"check", "copy", "write", "unlock"} => importLock = i
    /\ importLock = Stale => faults > 0
=============================================================================
