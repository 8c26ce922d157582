------------------------------ MODULE XjProofs ------------------------------
(* The import from XJ and the cleanup lose nothing, for any tree, any number *)
(* of importers and any faults.                                              *)
EXTENDS Xj, TLAPS

----------------------------------------------------------------------------
(* Types.                                                                   *)

\* Init gives every variable a value of its type.
LEMMA InitTypes == Init => TypeOK
<1> SUFFICES ASSUME Init PROVE TypeOK
  OBVIOUS
<1>1. /\ place \in SUBSET Records /\ written \in SUBSET Records /\ xjUp \in BOOLEAN
      /\ archive \in SUBSET Records /\ gate \in SUBSET Records
      /\ raw \in SUBSET Records /\ manifest \in SUBSET Records
  BY XjAssumption DEF Init
<1>2. /\ dest \in [Records -> {"none", "xj", "rr"}]
      /\ inserted \in [Records -> Nat] /\ taken \in [Records -> Nat]
  BY DEF Init
<1>3. /\ importLock \in Importers \cup {Free, Stale}
      /\ ipc \in [Importers -> ImportSteps]
      /\ plan \in [Importers -> SUBSET Records] /\ todo \in [Importers -> SUBSET Records]
  BY DEF Init, ImportSteps
<1>4. /\ cleanupLock \in {Free, Stale, Taken}
      /\ cpc \in CleanupSteps /\ outcome \in Outcomes
      /\ evidence \in SUBSET Records
      /\ saved \in SUBSET Targets /\ left \in SUBSET Targets /\ late \in BOOLEAN
      /\ quarantine \in SUBSET Records /\ journal \in SUBSET Records
  BY DEF Init, CleanupSteps, Outcomes
<1>5. /\ config \in [Targets -> {"xj", "clean", "gone"}]
      /\ backup \in [Targets -> {"none", "xj", "clean"}]
      /\ deleting \in BOOLEAN /\ faults \in Nat
  BY DEF Init
<1>6. QED
  BY <1>1, <1>2, <1>3, <1>4, <1>5 DEF TypeOK

\* XJ, Cursor, the RR runtime and the operator keep the types.
LEMMA AroundTypes == ASSUME TypeOK, Around PROVE TypeOK'
<1> USE XjAssumption DEF TypeOK, Fault, Free, Stale, Taken, ImportSteps, CleanupSteps,
    Outcomes, vars, xjVars, rrVars, importVars, cleanupVars, Step, KeepFiles
<1>1. ASSUME XjStartStop PROVE TypeOK'
  BY <1>1 DEF XjStartStop
<1>2. ASSUME MakeArchive PROVE TypeOK'
  BY <1>2 DEF MakeArchive
<1>3. ASSUME CreateGate PROVE TypeOK'
  BY <1>3 DEF CreateGate, Verified
<1>4. ASSUME NEW r \in Records, XjWrite(r) PROVE TypeOK'
  BY <1>4 DEF XjWrite
<1>5. ASSUME NEW r \in Records \ History, RrCreate(r) PROVE TypeOK'
  BY <1>5 DEF RrCreate
<1>6. ASSUME NEW r \in Records, RrRemove(r) PROVE TypeOK'
  BY <1>6 DEF RrRemove
<1>7. ASSUME NEW t \in Targets, CursorFlush(t) PROVE TypeOK'
  BY <1>7 DEF CursorFlush
<1>8. QED
  BY <1>1, <1>2, <1>3, <1>4, <1>5, <1>6, <1>7 DEF Around

\* So does the import.
LEMMA ImportTypes == ASSUME TypeOK, NEW i \in Importers, Import(i) PROVE TypeOK'
<1> USE XjAssumption DEF TypeOK, Fault, Free, Stale, Taken, ImportSteps, CleanupSteps,
    Outcomes, vars, xjVars, rrVars, importVars, cleanupVars, Step, KeepFiles
<1>1. ASSUME PlanImport(i) PROVE TypeOK'
  BY <1>1 DEF PlanImport
<1>2. ASSUME LockImport(i) PROVE TypeOK'
  BY <1>2 DEF LockImport
<1>3. ASSUME LockImportFails(i) PROVE TypeOK'
  BY <1>3 DEF LockImportFails
<1>4. ASSUME CheckImport(i) PROVE TypeOK'
  BY <1>4 DEF CheckImport
<1>5. ASSUME CopyRaw(i) PROVE TypeOK'
  BY <1>5 DEF CopyRaw
<1>6. ASSUME CopyRawEnds(i) PROVE TypeOK'
  BY <1>6 DEF CopyRawEnds
<1>7. ASSUME WriteNative(i) PROVE TypeOK'
  BY <1>7 DEF WriteNative
<1>8. ASSUME WriteManifest(i) PROVE TypeOK'
  BY <1>8 DEF WriteManifest
<1>9. ASSUME ImportFails(i) PROVE TypeOK'
  BY <1>9 DEF ImportFails
<1>10. ASSUME UnlockImport(i) PROVE TypeOK'
  BY <1>10 DEF UnlockImport
<1>11. ASSUME CrashImport(i) PROVE TypeOK'
  BY <1>11 DEF CrashImport
<1>12. QED
  BY <1>1, <1>2, <1>3, <1>4, <1>5, <1>6, <1>7, <1>8, <1>9, <1>10, <1>11 DEF Import

\* So does the cleanup.
LEMMA CleanupTypes == ASSUME TypeOK, Cleanup PROVE TypeOK'
<1> USE XjAssumption DEF TypeOK, Fault, Free, Stale, Taken, ImportSteps, CleanupSteps,
    Outcomes, vars, xjVars, rrVars, importVars, cleanupVars, Step, KeepFiles
<1>1. ASSUME ApplyLock PROVE TypeOK'
  BY <1>1 DEF ApplyLock
<1>2. ASSUME ApplyLockFails PROVE TypeOK'
  BY <1>2 DEF ApplyLockFails
<1>3. ASSUME ApplyAborts PROVE TypeOK'
  BY <1>3 DEF ApplyAborts
<1>4. ASSUME ApplyGate PROVE TypeOK'
  BY <1>4 DEF ApplyGate
<1>5. ASSUME ApplyRecheck PROVE TypeOK'
  BY <1>5 DEF ApplyRecheck
<1>6. ASSUME Snapshot PROVE TypeOK'
  BY <1>6 DEF Snapshot, Cleanable
<1>7. ASSUME Quarantine PROVE TypeOK'
  BY <1>7 DEF Quarantine
<1>8. ASSUME CheckQuarantined PROVE TypeOK'
  BY <1>8 DEF CheckQuarantined, Unchanged
<1>9. ASSUME CheckFinal PROVE TypeOK'
  BY <1>9 DEF CheckFinal, Unchanged, Residue
<1>10. ASSUME ApplyFails PROVE TypeOK'
  BY <1>10 DEF ApplyFails
<1>11. ASSUME Deleted PROVE TypeOK'
  BY <1>11 DEF Deleted
<1>12. ASSUME RollbackLate PROVE TypeOK'
  BY <1>12 DEF RollbackLate
<1>13. ASSUME RollbackReturn PROVE TypeOK'
  BY <1>13 DEF RollbackReturn
<1>14. ASSUME RollbackCollides PROVE TypeOK'
  BY <1>14 DEF RollbackCollides, RollbackAborts
<1>15. ASSUME RollbackFails PROVE TypeOK'
  BY <1>15 DEF RollbackFails, RollbackAborts
<1>16. ASSUME RollbackEnds PROVE TypeOK'
  BY <1>16 DEF RollbackEnds
<1>17. ASSUME ApplyUnlock PROVE TypeOK'
  BY <1>17 DEF ApplyUnlock
<1>18. ASSUME CrashCleanup PROVE TypeOK'
  <2>1. /\ evidence' = {} /\ saved' = {} /\ left' = {} /\ late' = FALSE /\ quarantine' = {}
        /\ faults' = faults + 1 /\ cleanupLock' = Stale /\ cpc' = "idle"
    BY <1>18 DEF CrashCleanup
  <2>2. journal' \in SUBSET Records
    BY <1>18 DEF CrashCleanup
  <2>3. UNCHANGED <<xjVars, rrVars, importVars, outcome, config, backup, deleting>>
    BY <1>18 DEF CrashCleanup
  <2>4. /\ evidence' \in SUBSET Records /\ saved' \in SUBSET Targets
        /\ left' \in SUBSET Targets /\ late' \in BOOLEAN /\ quarantine' \in SUBSET Records
    BY <2>1
  <2>5. faults' \in Nat /\ cleanupLock' \in {Free, Stale, Taken} /\ cpc' \in CleanupSteps
    BY <2>1
  <2>6. QED
    BY <2>2, <2>3, <2>4, <2>5
<1>19. ASSUME NEW t \in Targets, CleanTarget(t) PROVE TypeOK'
  BY <1>19 DEF CleanTarget
<1>20. ASSUME NEW t \in Targets, DeleteBackup(t) PROVE TypeOK'
  BY <1>20 DEF DeleteBackup
<1>21. ASSUME NEW t \in Targets, RestoreRemove(t) PROVE TypeOK'
  BY <1>21 DEF RestoreRemove
<1>22. ASSUME NEW t \in Targets, RestoreCopy(t) PROVE TypeOK'
  BY <1>22 DEF RestoreCopy
<1>23. ASSUME NEW t \in Targets, RestoreBreaks(t) PROVE TypeOK'
  BY <1>23 DEF RestoreBreaks, RollbackAborts
<1>24. ASSUME NEW r \in Records, DeleteRecord(r) PROVE TypeOK'
  BY <1>24 DEF DeleteRecord
<1>25. QED
  BY <1>1, <1>2, <1>3, <1>4, <1>5, <1>6, <1>7, <1>8, <1>9, <1>10, <1>11, <1>12, <1>13,
     <1>14, <1>15, <1>16, <1>17, <1>18, <1>19, <1>20, <1>21, <1>22, <1>23, <1>24 DEF Cleanup

----------------------------------------------------------------------------
(* The import.                                                              *)

Inside(i)  == ipc[i] \in {"check", "copy", "write", "unlock"}
Writing(i) == ipc[i] \in {"copy", "write"}

\* A record was imported once more than it was removed while it is there.
CountInv ==
    \A r \in Records :
        /\ inserted[r] <= taken[r] + (IF dest[r] = "xj" THEN 1 ELSE 0)
        /\ dest[r] = "xj" => inserted[r] > 0

\* What an importer has yet to write, and what it need not write.
WorkInv ==
    \A i \in Importers :
        /\ Writing(i) => /\ \A r \in plan[i] \ todo[i] : inserted[r] > 0
                         /\ \A r \in todo[i] \cap History : dest[r] = "none"
        /\ ipc[i] = "write" => raw = plan[i]

ImportInv == OneImporter /\ CountInv /\ WorkInv /\ ManifestMeansImported

\* An import touches neither the source tree nor the cleanup.
LEMMA ImportFrame ==
    ASSUME NEW i \in Importers, Import(i)
    PROVE  UNCHANGED <<xjVars, cleanupVars>>
<1> USE DEF vars, xjVars, rrVars, importVars, cleanupVars, Step, KeepFiles, Fault
<1>1. ASSUME PlanImport(i) PROVE UNCHANGED <<xjVars, cleanupVars>>
  BY <1>1 DEF PlanImport
<1>2. ASSUME LockImport(i) PROVE UNCHANGED <<xjVars, cleanupVars>>
  BY <1>2 DEF LockImport
<1>3. ASSUME LockImportFails(i) PROVE UNCHANGED <<xjVars, cleanupVars>>
  BY <1>3 DEF LockImportFails
<1>4. ASSUME CheckImport(i) PROVE UNCHANGED <<xjVars, cleanupVars>>
  BY <1>4 DEF CheckImport
<1>5. ASSUME CopyRaw(i) PROVE UNCHANGED <<xjVars, cleanupVars>>
  BY <1>5 DEF CopyRaw
<1>6. ASSUME CopyRawEnds(i) PROVE UNCHANGED <<xjVars, cleanupVars>>
  BY <1>6 DEF CopyRawEnds
<1>7. ASSUME WriteNative(i) PROVE UNCHANGED <<xjVars, cleanupVars>>
  BY <1>7 DEF WriteNative
<1>8. ASSUME WriteManifest(i) PROVE UNCHANGED <<xjVars, cleanupVars>>
  BY <1>8 DEF WriteManifest
<1>9. ASSUME ImportFails(i) PROVE UNCHANGED <<xjVars, cleanupVars>>
  BY <1>9 DEF ImportFails
<1>10. ASSUME UnlockImport(i) PROVE UNCHANGED <<xjVars, cleanupVars>>
  BY <1>10 DEF UnlockImport
<1>11. ASSUME CrashImport(i) PROVE UNCHANGED <<xjVars, cleanupVars>>
  BY <1>11 DEF CrashImport
<1>12. QED
  BY <1>1, <1>2, <1>3, <1>4, <1>5, <1>6, <1>7, <1>8, <1>9, <1>10, <1>11 DEF Import

\* A cleanup does not touch the RR tree or an import.
LEMMA CleanupFrame ==
    ASSUME TypeOK, Cleanup
    PROVE  UNCHANGED <<rrVars, importVars>> /\ faults <= faults'
<1> DEFINE Keeps == UNCHANGED <<rrVars, importVars>> /\ faults <= faults'
<1> USE DEF TypeOK, vars, xjVars, rrVars, importVars, cleanupVars, Step, KeepFiles, Fault
<1>1. ASSUME ApplyLock PROVE Keeps
  BY <1>1 DEF ApplyLock
<1>2. ASSUME ApplyLockFails PROVE Keeps
  BY <1>2 DEF ApplyLockFails
<1>3. ASSUME ApplyAborts PROVE Keeps
  BY <1>3 DEF ApplyAborts
<1>4. ASSUME ApplyGate PROVE Keeps
  BY <1>4 DEF ApplyGate
<1>5. ASSUME ApplyRecheck PROVE Keeps
  BY <1>5 DEF ApplyRecheck
<1>6. ASSUME Snapshot PROVE Keeps
  BY <1>6 DEF Snapshot, Cleanable
<1>7. ASSUME Quarantine PROVE Keeps
  BY <1>7 DEF Quarantine
<1>8. ASSUME CheckQuarantined PROVE Keeps
  BY <1>8 DEF CheckQuarantined, Unchanged
<1>9. ASSUME CheckFinal PROVE Keeps
  BY <1>9 DEF CheckFinal, Unchanged
<1>10. ASSUME ApplyFails PROVE Keeps
  BY <1>10 DEF ApplyFails
<1>11. ASSUME Deleted PROVE Keeps
  BY <1>11 DEF Deleted
<1>12. ASSUME RollbackLate PROVE Keeps
  BY <1>12 DEF RollbackLate
<1>13. ASSUME RollbackReturn PROVE Keeps
  BY <1>13 DEF RollbackReturn
<1>14. ASSUME RollbackCollides PROVE Keeps
  BY <1>14 DEF RollbackCollides, RollbackAborts
<1>15. ASSUME RollbackFails PROVE Keeps
  BY <1>15 DEF RollbackFails, RollbackAborts
<1>16. ASSUME RollbackEnds PROVE Keeps
  BY <1>16 DEF RollbackEnds
<1>17. ASSUME ApplyUnlock PROVE Keeps
  BY <1>17 DEF ApplyUnlock
<1>18. ASSUME CrashCleanup PROVE Keeps
  BY <1>18 DEF CrashCleanup
<1>19. ASSUME NEW t \in Targets, CleanTarget(t) PROVE Keeps
  BY <1>19 DEF CleanTarget
<1>20. ASSUME NEW t \in Targets, DeleteBackup(t) PROVE Keeps
  BY <1>20 DEF DeleteBackup
<1>21. ASSUME NEW t \in Targets, RestoreRemove(t) PROVE Keeps
  BY <1>21 DEF RestoreRemove
<1>22. ASSUME NEW t \in Targets, RestoreCopy(t) PROVE Keeps
  BY <1>22 DEF RestoreCopy
<1>23. ASSUME NEW t \in Targets, RestoreBreaks(t) PROVE Keeps
  BY <1>23 DEF RestoreBreaks, RollbackAborts
<1>24. ASSUME NEW r \in Records, DeleteRecord(r) PROVE Keeps
  BY <1>24 DEF DeleteRecord
<1>25. QED
  BY <1>1, <1>2, <1>3, <1>4, <1>5, <1>6, <1>7, <1>8, <1>9, <1>10, <1>11, <1>12, <1>13,
     <1>14, <1>15, <1>16, <1>17, <1>18, <1>19, <1>20, <1>21, <1>22, <1>23, <1>24 DEF Cleanup

\* What runs beside the two leaves their own state alone.
LEMMA AroundFrame ==
    ASSUME Around
    PROVE  UNCHANGED <<raw, manifest, inserted, importVars, cleanupLock, cpc, evidence, saved,
                       left, late, outcome, quarantine, journal, backup, deleting, faults>>
<1> DEFINE Keeps ==
      UNCHANGED <<raw, manifest, inserted, importVars, cleanupLock, cpc, evidence, saved,
                  left, late, outcome, quarantine, journal, backup, deleting, faults>>
<1> USE DEF vars, xjVars, rrVars, importVars, cleanupVars, Step, KeepFiles, Fault
<1>1. ASSUME XjStartStop PROVE Keeps
  BY <1>1 DEF XjStartStop
<1>2. ASSUME MakeArchive PROVE Keeps
  BY <1>2 DEF MakeArchive
<1>3. ASSUME CreateGate PROVE Keeps
  BY <1>3 DEF CreateGate, Verified
<1>4. ASSUME NEW r \in Records, XjWrite(r) PROVE Keeps
  BY <1>4 DEF XjWrite
<1>5. ASSUME NEW r \in Records \ History, RrCreate(r) PROVE Keeps
  BY <1>5 DEF RrCreate
<1>6. ASSUME NEW r \in Records, RrRemove(r) PROVE Keeps
  BY <1>6 DEF RrRemove
<1>7. ASSUME NEW t \in Targets, CursorFlush(t) PROVE Keeps
  BY <1>7 DEF CursorFlush
<1>8. QED
  BY <1>1, <1>2, <1>3, <1>4, <1>5, <1>6, <1>7 DEF Around

\* The RR runtime makes records elsewhere than an importer has yet to append,
\* and counts what it removes.
LEMMA AroundImport == ASSUME TypeOK, ImportInv, Around PROVE ImportInv'
<1>1. UNCHANGED <<raw, manifest, inserted, importLock, ipc, plan, todo, faults>>
  BY AroundFrame DEF importVars
<1>2. \/ UNCHANGED <<dest, taken>>
      \/ \E r \in Records \ History : RrCreate(r)
      \/ \E r \in Records : RrRemove(r)
  BY DEF Around, XjStartStop, MakeArchive, CreateGate, XjWrite, CursorFlush, rrVars
<1>3. CountInv'
  <2>1. CASE UNCHANGED <<dest, taken>>
    BY <1>1, <2>1 DEF ImportInv, CountInv
  <2>2. ASSUME NEW r \in Records \ History, RrCreate(r) PROVE CountInv'
    BY <1>1, <2>2 DEF ImportInv, CountInv, RrCreate, TypeOK
  <2>3. ASSUME NEW r \in Records, RrRemove(r) PROVE CountInv'
    BY <1>1, <2>3, XjAssumption DEF ImportInv, CountInv, RrRemove, TypeOK
  <2>4. QED
    BY <1>2, <2>1, <2>2, <2>3
<1>4. WorkInv'
  <2>1. \A r \in History : dest[r] = "none" => dest'[r] = "none"
    BY <1>2, XjAssumption DEF RrCreate, RrRemove, TypeOK
  <2>2. QED
    BY <1>1, <2>1 DEF ImportInv, WorkInv, Writing
<1>5. OneImporter' /\ ManifestMeansImported'
  BY <1>1 DEF ImportInv, OneImporter, ManifestMeansImported
<1>6. QED
  BY <1>3, <1>4, <1>5 DEF ImportInv

\* The lock has one holder, and a lock left behind is a fault's.
LEMMA ImportLocks ==
    ASSUME TypeOK, OneImporter, NEW i \in Importers, Import(i)
    PROVE  OneImporter'
<1> USE XjAssumption DEF TypeOK, OneImporter, ImportSteps, Stale, Free, vars, xjVars,
    rrVars, importVars, cleanupVars, Step, KeepFiles, Fault
<1>1. ASSUME PlanImport(i) PROVE OneImporter'
  BY <1>1 DEF PlanImport
<1>2. ASSUME LockImport(i) PROVE OneImporter'
  BY <1>2 DEF LockImport
<1>3. ASSUME LockImportFails(i) PROVE OneImporter'
  BY <1>3 DEF LockImportFails
<1>4. ASSUME CheckImport(i) PROVE OneImporter'
  BY <1>4 DEF CheckImport
<1>5. ASSUME CopyRaw(i) PROVE OneImporter'
  BY <1>5 DEF CopyRaw
<1>6. ASSUME CopyRawEnds(i) PROVE OneImporter'
  BY <1>6 DEF CopyRawEnds
<1>7. ASSUME WriteNative(i) PROVE OneImporter'
  BY <1>7 DEF WriteNative
<1>8. ASSUME WriteManifest(i) PROVE OneImporter'
  BY <1>8 DEF WriteManifest
<1>9. ASSUME ImportFails(i) PROVE OneImporter'
  BY <1>9 DEF ImportFails
<1>10. ASSUME UnlockImport(i) PROVE OneImporter'
  BY <1>10 DEF UnlockImport
<1>11. ASSUME CrashImport(i) PROVE OneImporter'
  BY <1>11 DEF CrashImport
<1>12. QED
  BY <1>1, <1>2, <1>3, <1>4, <1>5, <1>6, <1>7, <1>8, <1>9, <1>10, <1>11 DEF Import

\* Whoever works on the RR tree holds the lock, so nobody else does.
LEMMA Alone ==
    ASSUME OneImporter, NEW i \in Importers, NEW j \in Importers, Inside(i), Inside(j)
    PROVE  i = j
  BY DEF OneImporter, Inside

\* An importer counts what it writes, and what it leaves out is there.
LEMMA ImportCounts == ASSUME TypeOK, ImportInv, NEW i \in Importers, Import(i) PROVE CountInv'
<1>1. CASE UNCHANGED <<dest, inserted, taken>>
  BY <1>1 DEF ImportInv, CountInv
<1>2. CASE WriteNative(i)
  <2>1. PICK r \in todo[i] : WriteNative(i)!2!(r)
    BY <1>2 DEF WriteNative
  <2>2. r \in Records /\ taken' = taken
    BY <1>2 DEF WriteNative, TypeOK
  <2>3. CASE r \in History \/ dest[r] = "none"
    <3>1. dest[r] = "none"
      BY <1>2, <2>1, <2>3 DEF ImportInv, WorkInv, Writing, WriteNative
    <3>2. dest' = [dest EXCEPT ![r] = "xj"] /\ inserted' = [inserted EXCEPT ![r] = @ + 1]
      BY <2>1, <2>3
    <3>3. QED
      BY <2>2, <3>1, <3>2 DEF ImportInv, CountInv, TypeOK
  <2>4. CASE ~(r \in History \/ dest[r] = "none")
    BY <2>1, <2>2, <2>4 DEF ImportInv, CountInv
  <2>5. QED
    BY <2>3, <2>4
<1>3. QED
  BY <1>1, <1>2 DEF Import, PlanImport, LockImport, LockImportFails, CheckImport, CopyRaw,
     CopyRawEnds, WriteManifest, ImportFails, UnlockImport, CrashImport, rrVars

\* An importer keeps its account of what is still to be written; the others are
\* not inside.
LEMMA ImportWork == ASSUME TypeOK, ImportInv, NEW i \in Importers, Import(i) PROVE WorkInv'
<1> SUFFICES ASSUME NEW j \in Importers
             PROVE  /\ Writing(j)' => /\ \A r \in plan'[j] \ todo'[j] : inserted'[r] > 0
                                      /\ \A r \in todo'[j] \cap History : dest'[r] = "none"
                    /\ ipc'[j] = "write" => raw' = plan'[j]
  BY DEF WorkInv, Writing
<1> USE DEF Writing
<1>1. /\ Writing(j) => /\ \A r \in plan[j] \ todo[j] : inserted[r] > 0
                       /\ \A r \in todo[j] \cap History : dest[r] = "none"
      /\ ipc[j] = "write" => raw = plan[j]
  BY DEF ImportInv, WorkInv
<1>2. CASE j # i
  <2>1. ipc'[j] = ipc[j] /\ plan'[j] = plan[j] /\ todo'[j] = todo[j]
    BY <1>2 DEF TypeOK, Import, PlanImport, LockImport, LockImportFails, CheckImport, CopyRaw,
       CopyRawEnds, WriteNative, WriteManifest, ImportFails, UnlockImport, CrashImport, importVars
  <2>2. Writing(j) => UNCHANGED <<raw, dest, inserted>>
    <3>1. Writing(j) => ~Inside(i)
      BY <1>2, Alone DEF Inside, ImportInv
    <3>2. QED
      BY <3>1 DEF Inside, Import, PlanImport, LockImport, LockImportFails, CheckImport, CopyRaw,
         CopyRawEnds, WriteNative, WriteManifest, ImportFails, UnlockImport, CrashImport, rrVars
  <2>3. QED
    BY <1>1, <2>1, <2>2
<1>3. CASE j = i
  <2>1. CASE CheckImport(i)
    <3>1. SUFFICES ASSUME place = plan[i], Importable(plan[i])
                   PROVE  /\ \A r \in plan'[j] \ todo'[j] : inserted'[r] > 0
                          /\ \A r \in todo'[j] \cap History : dest'[r] = "none"
                          /\ ipc'[j] # "write"
      BY <1>3, <2>1 DEF CheckImport, TypeOK
    <3>2. todo'[i] = {r \in plan[i] : dest[r] = "none"} /\ ipc'[i] = "copy"
      BY <2>1, <3>1 DEF CheckImport, TypeOK
    <3>3. UNCHANGED <<raw, manifest, dest, inserted, taken, plan>>
      BY <2>1 DEF CheckImport, rrVars
    <3>4. \A r \in plan[i] : dest[r] \in {"none", "xj"} /\ (dest[r] = "xj" => inserted[r] > 0)
      BY <3>1 DEF Importable, TypeOK, ImportInv, CountInv
    <3>5. QED
      BY <1>3, <3>2, <3>3, <3>4
  <2>2. CASE CopyRaw(i) \/ CopyRawEnds(i)
    BY <1>1, <1>3, <2>2 DEF CopyRaw, CopyRawEnds, TypeOK, rrVars, importVars
  <2>3. CASE WriteNative(i)
    <3>1. PICK r \in todo[i] : WriteNative(i)!2!(r)
      BY <2>3 DEF WriteNative
    <3>2. UNCHANGED <<raw, plan>> /\ r \in Records /\ ipc[i] = "write"
      BY <2>3, <3>1 DEF WriteNative, TypeOK
    <3>3. CASE r \in History \/ dest[r] = "none"
      <4>1. /\ dest' = [dest EXCEPT ![r] = "xj"] /\ inserted' = [inserted EXCEPT ![r] = @ + 1]
            /\ todo' = [todo EXCEPT ![i] = @ \ {r}] /\ ipc' = ipc
        BY <3>1, <3>3
      <4>2. \A u \in Records : inserted'[u] >= inserted[u] /\ inserted'[r] > 0
        BY <3>2, <4>1 DEF TypeOK
      <4>3. \A u \in todo'[i] : dest'[u] = dest[u] /\ u \in todo[i]
        BY <3>2, <4>1 DEF TypeOK
      <4>4. plan[i] \subseteq Records /\ inserted \in [Records -> Nat] /\ inserted' \in [Records -> Nat]
        BY <4>1 DEF TypeOK
      <4>5. \A u \in plan[i] \ todo'[i] : u = r \/ u \in plan[i] \ todo[i]
        BY <4>1 DEF TypeOK
      <4>6. \A u \in plan'[i] \ todo'[i] : inserted'[u] > 0
        BY <1>1, <1>3, <3>2, <4>2, <4>4, <4>5
      <4>7. QED
        BY <1>1, <1>3, <3>2, <4>1, <4>3, <4>6
    <3>4. CASE ~(r \in History \/ dest[r] = "none")
      BY <1>3, <3>1, <3>2, <3>4 DEF TypeOK
    <3>5. QED
      BY <3>3, <3>4
  <2>4. CASE ~(CheckImport(i) \/ CopyRaw(i) \/ CopyRawEnds(i) \/ WriteNative(i))
    <3>1. ipc'[i] \notin {"copy", "write"}
      BY <2>4 DEF TypeOK, Import, PlanImport, LockImport, LockImportFails, WriteManifest,
         ImportFails, UnlockImport, CrashImport
    <3>2. QED
      BY <1>3, <3>1
  <2>5. QED
    BY <2>1, <2>2, <2>3, <2>4
<1>4. QED
  BY <1>2, <1>3

\* The raw copy and the manifest only grow, and the manifest follows the rest.
LEMMA ImportGrows ==
    ASSUME TypeOK, ImportInv, NEW i \in Importers, Import(i)
    PROVE  /\ ManifestMeansImported'
           /\ raw \subseteq raw' /\ manifest \subseteq manifest'
<1>1. raw \subseteq raw' /\ \A r \in Records : inserted[r] > 0 => inserted'[r] > 0
  <2>1. CASE WriteNative(i)
    <3>1. /\ raw' = raw
          /\ \/ inserted' = inserted
             \/ \E r \in todo[i] : inserted' = [inserted EXCEPT ![r] = @ + 1]
      BY <2>1 DEF WriteNative
    <3>2. QED
      BY <3>1 DEF TypeOK
  <2>2. CASE ~WriteNative(i)
    BY <2>2 DEF Import, PlanImport, LockImport, LockImportFails, CheckImport, CopyRaw, CopyRawEnds,
       WriteManifest, ImportFails, UnlockImport, CrashImport, rrVars
  <2>3. QED
    BY <2>1, <2>2
<1>2. manifest \subseteq Records
  BY DEF TypeOK
<1>3. CASE manifest' = manifest
  BY <1>1, <1>2, <1>3 DEF ImportInv, ManifestMeansImported
<1>4. CASE WriteManifest(i)
  <2>1. raw = plan[i] /\ manifest' = plan[i] /\ raw' = raw /\ inserted' = inserted
    BY <1>4 DEF WriteManifest, ImportInv, WorkInv
  <2>2. \A r \in plan[i] : inserted[r] > 0
    BY <1>4 DEF WriteManifest, ImportInv, WorkInv, Writing
  <2>3. manifest \subseteq raw
    BY DEF ImportInv, ManifestMeansImported
  <2>4. QED
    BY <2>1, <2>2, <2>3 DEF ManifestMeansImported
<1>5. manifest' = manifest \/ WriteManifest(i)
  BY DEF Import, PlanImport, LockImport, LockImportFails, CheckImport, CopyRaw, CopyRawEnds,
     WriteNative, ImportFails, UnlockImport, CrashImport, rrVars
<1>6. QED
  BY <1>1, <1>3, <1>4, <1>5

\* The import keeps its invariant.
LEMMA ImportStep == ASSUME TypeOK, ImportInv, NEW i \in Importers, Import(i) PROVE ImportInv'
  BY ImportLocks, ImportCounts, ImportWork, ImportGrows DEF ImportInv

----------------------------------------------------------------------------
(* The source tree.                                                         *)

Moved == {"moved", "clean", "delete", "late", "return"}

\* A record is deleted only once the archive and the import have it, and
\* nobody makes another archive then.
SourceInv ==
    /\ \A r \in written : r \notin place \cup quarantine \cup journal
          => deleting /\ r \in archive \cap raw \cap manifest
    /\ cpc \notin Moved => quarantine = {}
    /\ cpc = "delete" => deleting /\ quarantine \subseteq archive \cap raw \cap manifest

\* XJ only adds records, and no archive is made once a deletion has begun.
LEMMA AroundSource == ASSUME TypeOK, SourceInv, Around PROVE SourceInv'
<1> USE DEF TypeOK, SourceInv, Moved, vars, xjVars, rrVars, importVars, cleanupVars, Step,
    KeepFiles, Fault
<1>1. ASSUME XjStartStop PROVE SourceInv'
  BY <1>1 DEF XjStartStop
<1>2. ASSUME MakeArchive PROVE SourceInv'
  BY <1>2 DEF MakeArchive
<1>3. ASSUME CreateGate PROVE SourceInv'
  BY <1>3 DEF CreateGate, Verified
<1>4. ASSUME NEW r \in Records, XjWrite(r) PROVE SourceInv'
  BY <1>4 DEF XjWrite
<1>5. ASSUME NEW r \in Records \ History, RrCreate(r) PROVE SourceInv'
  BY <1>5 DEF RrCreate
<1>6. ASSUME NEW r \in Records, RrRemove(r) PROVE SourceInv'
  BY <1>6 DEF RrRemove
<1>7. ASSUME NEW t \in Targets, CursorFlush(t) PROVE SourceInv'
  BY <1>7 DEF CursorFlush
<1>8. QED
  BY <1>1, <1>2, <1>3, <1>4, <1>5, <1>6, <1>7 DEF Around

\* The raw copy and the manifest grow.
LEMMA ImportSource ==
    ASSUME TypeOK, ImportInv, SourceInv, NEW i \in Importers, Import(i)
    PROVE  SourceInv'
  BY ImportFrame, ImportGrows DEF SourceInv, Moved, xjVars, cleanupVars

\* The cleanup moves the tree, and deletes it only after the last look.
LEMMA CleanupSource == ASSUME TypeOK, SourceInv, Cleanup PROVE SourceInv'
<1> USE DEF TypeOK, SourceInv, Moved, vars, xjVars, rrVars, importVars, cleanupVars, Step,
    KeepFiles, Fault
<1>1. ASSUME ApplyLock PROVE SourceInv'
  BY <1>1 DEF ApplyLock
<1>2. ASSUME ApplyLockFails PROVE SourceInv'
  BY <1>2 DEF ApplyLockFails
<1>3. ASSUME ApplyAborts PROVE SourceInv'
  BY <1>3 DEF ApplyAborts
<1>4. ASSUME ApplyGate PROVE SourceInv'
  BY <1>4 DEF ApplyGate
<1>5. ASSUME ApplyRecheck PROVE SourceInv'
  BY <1>5 DEF ApplyRecheck
<1>6. ASSUME Snapshot PROVE SourceInv'
  BY <1>6 DEF Snapshot, Cleanable
<1>7. ASSUME Quarantine PROVE SourceInv'
  BY <1>7 DEF Quarantine
<1>8. ASSUME CheckQuarantined PROVE SourceInv'
  BY <1>8 DEF CheckQuarantined, Unchanged
<1>9. ASSUME CheckFinal PROVE SourceInv'
  BY <1>9 DEF CheckFinal, Unchanged, Verified, RawMatches, ManifestMatches
<1>10. ASSUME ApplyFails PROVE SourceInv'
  BY <1>10 DEF ApplyFails
<1>11. ASSUME Deleted PROVE SourceInv'
  BY <1>11 DEF Deleted
<1>12. ASSUME RollbackLate PROVE SourceInv'
  BY <1>12 DEF RollbackLate
<1>13. ASSUME RollbackReturn PROVE SourceInv'
  BY <1>13 DEF RollbackReturn
<1>14. ASSUME RollbackCollides PROVE SourceInv'
  BY <1>14 DEF RollbackCollides, RollbackAborts
<1>15. ASSUME RollbackFails PROVE SourceInv'
  BY <1>15 DEF RollbackFails, RollbackAborts
<1>16. ASSUME RollbackEnds PROVE SourceInv'
  BY <1>16 DEF RollbackEnds
<1>17. ASSUME ApplyUnlock PROVE SourceInv'
  BY <1>17 DEF ApplyUnlock
<1>18. ASSUME CrashCleanup PROVE SourceInv'
  BY <1>18 DEF CrashCleanup
<1>19. ASSUME NEW t \in Targets, CleanTarget(t) PROVE SourceInv'
  BY <1>19 DEF CleanTarget
<1>20. ASSUME NEW t \in Targets, DeleteBackup(t) PROVE SourceInv'
  BY <1>20 DEF DeleteBackup
<1>21. ASSUME NEW t \in Targets, RestoreRemove(t) PROVE SourceInv'
  BY <1>21 DEF RestoreRemove
<1>22. ASSUME NEW t \in Targets, RestoreCopy(t) PROVE SourceInv'
  BY <1>22 DEF RestoreCopy
<1>23. ASSUME NEW t \in Targets, RestoreBreaks(t) PROVE SourceInv'
  BY <1>23 DEF RestoreBreaks, RollbackAborts
<1>24. ASSUME NEW r \in Records, DeleteRecord(r) PROVE SourceInv'
  BY <1>24 DEF DeleteRecord
<1>25. QED
  BY <1>1, <1>2, <1>3, <1>4, <1>5, <1>6, <1>7, <1>8, <1>9, <1>10, <1>11, <1>12, <1>13,
     <1>14, <1>15, <1>16, <1>17, <1>18, <1>19, <1>20, <1>21, <1>22, <1>23, <1>24 DEF Cleanup

----------------------------------------------------------------------------
(* The settings, and the way back.                                          *)

Saving == {"move", "moved", "clean", "delete", "late", "return", "restore", "copyback"}

\* While there are copies of the settings, none is missing but the one that
\* is being restored.
SettingsInv ==
    /\ SettingsAreKept
    /\ cpc \in {"idle", "gate", "recheck", "snapshot"} => left = {}
    /\ left \subseteq saved
    /\ cpc \in Saving => deleting \/ \A t \in saved : backup[t] # "none"
    /\ cpc \in Saving \ {"copyback"} => \A t \in saved : config[t] # "gone"
    /\ cpc = "copyback" => \A t, u \in saved : config[t] = "gone" /\ config[u] = "gone" => t = u

\* What has been restored is as it was saved, or as Cursor wrote it since.
RestoredInv ==
    cpc \in {"restore", "copyback"} => \A t \in saved \ left :
        config[t] \in {backup[t], "xj"} \/ (cpc = "copyback" /\ config[t] = "gone")

\* Where the tree of the gate is, until a deletion has begun.
ReturnInv ==
    /\ outcome = "rolled_back" => cpc \in {"idle", "unlock"}
    /\ cpc \in {"recheck", "snapshot", "move"} => evidence # {} /\ evidence \subseteq place
    /\ cpc \in {"moved", "clean"} => evidence \subseteq quarantine
    /\ cpc = "delete" => deleting
    /\ cpc = "late" => deleting \/ evidence \subseteq quarantine \/ place # {}
    /\ cpc = "return" => deleting \/ late \/ evidence \subseteq quarantine
    /\ cpc \in {"restore", "copyback"} => deleting \/ late \/ evidence \subseteq place

CleanupInv == SettingsInv /\ RestoredInv /\ ReturnInv

\* Cursor writes settings only where they are clean.
LEMMA AroundCleanup == ASSUME TypeOK, CleanupInv, Around PROVE CleanupInv'
<1> USE DEF TypeOK, CleanupInv, SettingsInv, SettingsAreKept, RestoredInv, ReturnInv,
    Saving, vars, xjVars, rrVars, importVars, cleanupVars, Step, KeepFiles, Fault
<1>1. ASSUME XjStartStop PROVE CleanupInv'
  BY <1>1 DEF XjStartStop
<1>2. ASSUME MakeArchive PROVE CleanupInv'
  BY <1>2 DEF MakeArchive
<1>3. ASSUME CreateGate PROVE CleanupInv'
  BY <1>3 DEF CreateGate, Verified
<1>4. ASSUME NEW r \in Records, XjWrite(r) PROVE CleanupInv'
  BY <1>4 DEF XjWrite
<1>5. ASSUME NEW r \in Records \ History, RrCreate(r) PROVE CleanupInv'
  BY <1>5 DEF RrCreate
<1>6. ASSUME NEW r \in Records, RrRemove(r) PROVE CleanupInv'
  BY <1>6 DEF RrRemove
<1>7. ASSUME NEW t \in Targets, CursorFlush(t) PROVE CleanupInv'
  BY <1>7 DEF CursorFlush
<1>8. QED
  BY <1>1, <1>2, <1>3, <1>4, <1>5, <1>6, <1>7 DEF Around

\* An import does not matter here.
LEMMA ImportCleanup ==
    ASSUME CleanupInv, NEW i \in Importers, Import(i)
    PROVE  CleanupInv'
  BY ImportFrame
     DEF CleanupInv, SettingsInv, SettingsAreKept, RestoredInv, ReturnInv, xjVars, cleanupVars

\* Each saved setting is there, or its copy is.
LEMMA CleanupSettings == ASSUME TypeOK, SettingsInv, ReturnInv, Cleanup PROVE SettingsInv'
<1> USE DEF TypeOK, SettingsInv, SettingsAreKept, Saving, CleanupSteps, vars, xjVars,
    rrVars, importVars, cleanupVars, Step, KeepFiles, Fault
<1>1. ASSUME ApplyLock PROVE SettingsInv'
  BY <1>1 DEF ApplyLock
<1>2. ASSUME ApplyLockFails PROVE SettingsInv'
  BY <1>2 DEF ApplyLockFails
<1>3. ASSUME ApplyAborts PROVE SettingsInv'
  BY <1>3 DEF ApplyAborts
<1>4. ASSUME ApplyGate PROVE SettingsInv'
  BY <1>4 DEF ApplyGate
<1>5. ASSUME ApplyRecheck PROVE SettingsInv'
  BY <1>5 DEF ApplyRecheck
<1>6. ASSUME Snapshot PROVE SettingsInv'
  BY <1>6 DEF Snapshot, Cleanable
<1>7. ASSUME Quarantine PROVE SettingsInv'
  BY <1>7 DEF Quarantine
<1>8. ASSUME CheckQuarantined PROVE SettingsInv'
  BY <1>8 DEF CheckQuarantined, Unchanged
<1>9. ASSUME CheckFinal PROVE SettingsInv'
  BY <1>9 DEF CheckFinal, Unchanged
<1>10. ASSUME ApplyFails PROVE SettingsInv'
  BY <1>10 DEF ApplyFails
<1>11. ASSUME Deleted PROVE SettingsInv'
  BY <1>11 DEF Deleted
<1>12. ASSUME RollbackLate PROVE SettingsInv'
  BY <1>12 DEF RollbackLate
<1>13. ASSUME RollbackReturn PROVE SettingsInv'
  BY <1>13 DEF RollbackReturn
<1>14. ASSUME RollbackCollides PROVE SettingsInv'
  BY <1>14 DEF RollbackCollides, RollbackAborts
<1>15. ASSUME RollbackFails PROVE SettingsInv'
  BY <1>15 DEF RollbackFails, RollbackAborts
<1>16. ASSUME RollbackEnds PROVE SettingsInv'
  BY <1>16 DEF RollbackEnds
<1>17. ASSUME ApplyUnlock PROVE SettingsInv'
  BY <1>17 DEF ApplyUnlock
<1>18. ASSUME CrashCleanup PROVE SettingsInv'
  BY <1>18 DEF CrashCleanup
<1>19. ASSUME NEW t \in Targets, CleanTarget(t) PROVE SettingsInv'
  BY <1>19 DEF CleanTarget
<1>20. ASSUME NEW t \in Targets, DeleteBackup(t) PROVE SettingsInv'
  BY <1>20 DEF DeleteBackup, ReturnInv
<1>21. ASSUME NEW t \in Targets, RestoreRemove(t) PROVE SettingsInv'
  BY <1>21 DEF RestoreRemove
<1>22. ASSUME NEW t \in Targets, RestoreCopy(t) PROVE SettingsInv'
  BY <1>22 DEF RestoreCopy
<1>23. ASSUME NEW t \in Targets, RestoreBreaks(t) PROVE SettingsInv'
  BY <1>23 DEF RestoreBreaks, RollbackAborts
<1>24. ASSUME NEW r \in Records, DeleteRecord(r) PROVE SettingsInv'
  BY <1>24 DEF DeleteRecord
<1>25. QED
  BY <1>1, <1>2, <1>3, <1>4, <1>5, <1>6, <1>7, <1>8, <1>9, <1>10, <1>11, <1>12, <1>13,
     <1>14, <1>15, <1>16, <1>17, <1>18, <1>19, <1>20, <1>21, <1>22, <1>23, <1>24 DEF Cleanup

\* A restored setting is not touched again by the rollback.
LEMMA CleanupRestored == ASSUME TypeOK, SettingsInv, RestoredInv, Cleanup PROVE RestoredInv'
<1> USE DEF TypeOK, SettingsInv, RestoredInv, Saving, CleanupSteps, vars, xjVars, rrVars,
    importVars, cleanupVars, Step, KeepFiles, Fault
<1>1. ASSUME ApplyLock PROVE RestoredInv'
  BY <1>1 DEF ApplyLock
<1>2. ASSUME ApplyLockFails PROVE RestoredInv'
  BY <1>2 DEF ApplyLockFails
<1>3. ASSUME ApplyAborts PROVE RestoredInv'
  BY <1>3 DEF ApplyAborts
<1>4. ASSUME ApplyGate PROVE RestoredInv'
  BY <1>4 DEF ApplyGate
<1>5. ASSUME ApplyRecheck PROVE RestoredInv'
  BY <1>5 DEF ApplyRecheck
<1>6. ASSUME Snapshot PROVE RestoredInv'
  BY <1>6 DEF Snapshot, Cleanable
<1>7. ASSUME Quarantine PROVE RestoredInv'
  BY <1>7 DEF Quarantine
<1>8. ASSUME CheckQuarantined PROVE RestoredInv'
  BY <1>8 DEF CheckQuarantined, Unchanged
<1>9. ASSUME CheckFinal PROVE RestoredInv'
  BY <1>9 DEF CheckFinal, Unchanged
<1>10. ASSUME ApplyFails PROVE RestoredInv'
  BY <1>10 DEF ApplyFails
<1>11. ASSUME Deleted PROVE RestoredInv'
  BY <1>11 DEF Deleted
<1>12. ASSUME RollbackLate PROVE RestoredInv'
  BY <1>12 DEF RollbackLate
<1>13. ASSUME RollbackReturn PROVE RestoredInv'
  BY <1>13 DEF RollbackReturn
<1>14. ASSUME RollbackCollides PROVE RestoredInv'
  BY <1>14 DEF RollbackCollides, RollbackAborts
<1>15. ASSUME RollbackFails PROVE RestoredInv'
  BY <1>15 DEF RollbackFails, RollbackAborts
<1>16. ASSUME RollbackEnds PROVE RestoredInv'
  BY <1>16 DEF RollbackEnds
<1>17. ASSUME ApplyUnlock PROVE RestoredInv'
  BY <1>17 DEF ApplyUnlock
<1>18. ASSUME CrashCleanup PROVE RestoredInv'
  BY <1>18 DEF CrashCleanup
<1>19. ASSUME NEW t \in Targets, CleanTarget(t) PROVE RestoredInv'
  BY <1>19 DEF CleanTarget
<1>20. ASSUME NEW t \in Targets, DeleteBackup(t) PROVE RestoredInv'
  BY <1>20 DEF DeleteBackup
<1>21. ASSUME NEW t \in Targets, RestoreRemove(t) PROVE RestoredInv'
  BY <1>21 DEF RestoreRemove
<1>22. ASSUME NEW t \in Targets, RestoreCopy(t) PROVE RestoredInv'
  BY <1>22 DEF RestoreCopy
<1>23. ASSUME NEW t \in Targets, RestoreBreaks(t) PROVE RestoredInv'
  BY <1>23 DEF RestoreBreaks, RollbackAborts
<1>24. ASSUME NEW r \in Records, DeleteRecord(r) PROVE RestoredInv'
  BY <1>24 DEF DeleteRecord
<1>25. QED
  BY <1>1, <1>2, <1>3, <1>4, <1>5, <1>6, <1>7, <1>8, <1>9, <1>10, <1>11, <1>12, <1>13,
     <1>14, <1>15, <1>16, <1>17, <1>18, <1>19, <1>20, <1>21, <1>22, <1>23, <1>24 DEF Cleanup

\* The tree of the gate goes to the quarantine and comes back whole.
LEMMA CleanupReturn == ASSUME TypeOK, ReturnInv, Cleanup PROVE ReturnInv'
<1> USE DEF TypeOK, ReturnInv, CleanupSteps, vars, xjVars, rrVars, importVars,
    cleanupVars, Step, KeepFiles, Fault
<1>1. ASSUME ApplyLock PROVE ReturnInv'
  BY <1>1 DEF ApplyLock
<1>2. ASSUME ApplyLockFails PROVE ReturnInv'
  BY <1>2 DEF ApplyLockFails
<1>3. ASSUME ApplyAborts PROVE ReturnInv'
  BY <1>3 DEF ApplyAborts
<1>4. ASSUME ApplyGate PROVE ReturnInv'
  BY <1>4 DEF ApplyGate, Verified
<1>5. ASSUME ApplyRecheck PROVE ReturnInv'
  BY <1>5 DEF ApplyRecheck
<1>6. ASSUME Snapshot PROVE ReturnInv'
  BY <1>6 DEF Snapshot, Cleanable
<1>7. ASSUME Quarantine PROVE ReturnInv'
  BY <1>7 DEF Quarantine
<1>8. ASSUME CheckQuarantined PROVE ReturnInv'
  BY <1>8 DEF CheckQuarantined, Unchanged
<1>9. ASSUME CheckFinal PROVE ReturnInv'
  BY <1>9 DEF CheckFinal, Unchanged
<1>10. ASSUME ApplyFails PROVE ReturnInv'
  BY <1>10 DEF ApplyFails
<1>11. ASSUME Deleted PROVE ReturnInv'
  BY <1>11 DEF Deleted
<1>12. ASSUME RollbackLate PROVE ReturnInv'
  BY <1>12 DEF RollbackLate
<1>13. ASSUME RollbackReturn PROVE ReturnInv'
  BY <1>13 DEF RollbackReturn
<1>14. ASSUME RollbackCollides PROVE ReturnInv'
  BY <1>14 DEF RollbackCollides, RollbackAborts
<1>15. ASSUME RollbackFails PROVE ReturnInv'
  BY <1>15 DEF RollbackFails, RollbackAborts
<1>16. ASSUME RollbackEnds PROVE ReturnInv'
  BY <1>16 DEF RollbackEnds
<1>17. ASSUME ApplyUnlock PROVE ReturnInv'
  BY <1>17 DEF ApplyUnlock
<1>18. ASSUME CrashCleanup PROVE ReturnInv'
  BY <1>18 DEF CrashCleanup
<1>19. ASSUME NEW t \in Targets, CleanTarget(t) PROVE ReturnInv'
  BY <1>19 DEF CleanTarget
<1>20. ASSUME NEW t \in Targets, DeleteBackup(t) PROVE ReturnInv'
  BY <1>20 DEF DeleteBackup
<1>21. ASSUME NEW t \in Targets, RestoreRemove(t) PROVE ReturnInv'
  BY <1>21 DEF RestoreRemove
<1>22. ASSUME NEW t \in Targets, RestoreCopy(t) PROVE ReturnInv'
  BY <1>22 DEF RestoreCopy
<1>23. ASSUME NEW t \in Targets, RestoreBreaks(t) PROVE ReturnInv'
  BY <1>23 DEF RestoreBreaks, RollbackAborts
<1>24. ASSUME NEW r \in Records, DeleteRecord(r) PROVE ReturnInv'
  BY <1>24 DEF DeleteRecord
<1>25. QED
  BY <1>1, <1>2, <1>3, <1>4, <1>5, <1>6, <1>7, <1>8, <1>9, <1>10, <1>11, <1>12, <1>13,
     <1>14, <1>15, <1>16, <1>17, <1>18, <1>19, <1>20, <1>21, <1>22, <1>23, <1>24 DEF Cleanup

----------------------------------------------------------------------------
(* The theorems.                                                            *)

IInv == TypeOK /\ ImportInv /\ SourceInv /\ CleanupInv

\* The invariant holds at the start.
LEMMA InitHolds == Init => IInv
<1> SUFFICES ASSUME Init PROVE IInv
  OBVIOUS
<1>1. ImportInv
  BY XjAssumption DEF Init, ImportInv, OneImporter, CountInv, WorkInv, Writing,
     ManifestMeansImported, Free, Stale
<1>2. SourceInv
  BY DEF Init, SourceInv, Moved
<1>3. CleanupInv
  BY DEF Init, CleanupInv, SettingsInv, SettingsAreKept, RestoredInv, ReturnInv, Saving
<1>4. QED
  BY <1>1, <1>2, <1>3, InitTypes DEF IInv

\* Every step keeps it.
LEMMA NextHolds == IInv /\ [Next]_vars => IInv'
<1> SUFFICES ASSUME IInv, [Next]_vars PROVE IInv'
  OBVIOUS
<1> USE DEF IInv
<1>1. CASE Around
  BY <1>1, AroundTypes, AroundImport, AroundSource, AroundCleanup
<1>2. ASSUME NEW i \in Importers, Import(i) PROVE IInv'
  BY <1>2, ImportTypes, ImportStep, ImportSource, ImportCleanup
<1>3. CASE Cleanup
  <2>1. ImportInv'
    <3>1. UNCHANGED <<rrVars, importVars>> /\ faults <= faults'
      BY <1>3, CleanupFrame
    <3>2. CountInv' /\ WorkInv' /\ ManifestMeansImported'
      BY <3>1 DEF ImportInv, CountInv, WorkInv, Writing, ManifestMeansImported, rrVars, importVars
    <3>3. faults \in Nat /\ faults' \in Nat
      BY <1>3, CleanupTypes DEF TypeOK
    <3>4. OneImporter'
      BY <3>1, <3>3 DEF ImportInv, OneImporter, importVars
    <3>5. QED
      BY <3>2, <3>4 DEF ImportInv
  <2>2. QED
    BY <1>3, <2>1, CleanupTypes, CleanupSource, CleanupSettings, CleanupRestored, CleanupReturn
       DEF CleanupInv
<1>4. CASE UNCHANGED vars
  <2>1. TypeOK' /\ ImportInv'
    BY <1>4 DEF vars, xjVars, rrVars, importVars, cleanupVars, TypeOK, ImportInv, OneImporter,
       CountInv, WorkInv, Writing, ManifestMeansImported
  <2>2. SourceInv' /\ CleanupInv'
    BY <1>4 DEF vars, xjVars, rrVars, importVars, cleanupVars, SourceInv, Moved, CleanupInv,
       SettingsInv, SettingsAreKept, RestoredInv, ReturnInv, Saving
  <2>3. QED
    BY <2>1, <2>2
<1>5. QED
  BY <1>1, <1>2, <1>3, <1>4 DEF Next

\* So it always holds.
LEMMA Invariance == Spec => []IInv
  BY InitHolds, NextHolds, PTL DEF Spec

\* Every variable has its type.
THEOREM TypesHold == Spec => []TypeOK
  BY Invariance, PTL DEF IInv

\* Nothing XJ wrote is lost: what the cleanup deletes is in the archive, in the raw
\* copy of a completed import, and with RR.
THEOREM SourceKept == Spec => []SourceIsKept
<1>1. ASSUME IInv, NEW r \in written, r \notin place \cup quarantine \cup journal
      PROVE  r \in archive \cap raw \cap manifest /\ (dest[r] = "xj" \/ taken[r] > 0)
  <2>1. r \in Records /\ r \in archive \cap raw \cap manifest
    BY <1>1 DEF IInv, SourceInv, TypeOK
  <2>2. inserted[r] > 0 /\ inserted[r] <= taken[r] + (IF dest[r] = "xj" THEN 1 ELSE 0)
    BY <1>1, <2>1 DEF IInv, ImportInv, ManifestMeansImported, CountInv
  <2>3. inserted[r] \in Nat /\ taken[r] \in Nat
    BY <1>1, <2>1 DEF IInv, TypeOK
  <2>4. QED
    BY <2>1, <2>2, <2>3
<1>2. IInv => SourceIsKept
  BY <1>1 DEF SourceIsKept
<1>3. QED
  BY <1>2, Invariance, PTL

\* A settings file that a rollback has removed has its copy.
THEOREM SettingsKept == Spec => []SettingsAreKept
  BY Invariance, PTL DEF IInv, CleanupInv, SettingsInv

\* What the manifest lists was imported, whatever was cut short.
THEOREM ManifestImported == Spec => []ManifestMeansImported
  BY Invariance, PTL DEF IInv, ImportInv

\* No record is imported again that was not removed.
THEOREM Inserted == Spec => []InsertedOnce
<1>1. IInv => InsertedOnce
  BY DEF IInv, TypeOK, ImportInv, CountInv, InsertedOnce
<1>2. QED
  BY <1>1, Invariance, PTL

\* The import lock has one holder.
THEOREM OneImports == Spec => []OneImporter
  BY Invariance, PTL DEF IInv, ImportInv

\* An import leaves the records of RR alone.
THEOREM NothingOverwritten == Spec => NothingIsOverwritten
<1>1. IInv /\ [Next]_vars => [\A r \in Records : dest[r] = "rr" => dest'[r] # "xj"]_vars
  <2> SUFFICES ASSUME IInv, [Next]_vars, NEW r \in Records, dest[r] = "rr"
               PROVE  dest'[r] # "xj"
    OBVIOUS
  <2>1. TypeOK /\ WorkInv
    BY DEF IInv, ImportInv
  <2>2. CASE Around
    BY <2>1, <2>2 DEF Around, XjStartStop, MakeArchive, CreateGate, XjWrite, RrCreate, RrRemove,
       CursorFlush, rrVars, TypeOK
  <2>3. ASSUME NEW i \in Importers, WriteNative(i) PROVE dest'[r] # "xj"
    <3>1. PICK u \in todo[i] : WriteNative(i)!2!(u)
      BY <2>3 DEF WriteNative
    <3>2. u \in History => dest[u] = "none"
      BY <2>1, <2>3 DEF WorkInv, Writing, WriteNative
    <3>3. u # r \/ dest' = dest
      BY <3>1, <3>2
    <3>4. dest' = dest \/ dest' = [dest EXCEPT ![u] = "xj"]
      BY <3>1
    <3>5. QED
      BY <2>1, <3>3, <3>4 DEF TypeOK
  <2>4. ASSUME NEW i \in Importers, Import(i), ~WriteNative(i) PROVE dest'[r] # "xj"
    BY <2>4 DEF Import, PlanImport, LockImport, LockImportFails, CheckImport, CopyRaw, CopyRawEnds,
       WriteManifest, ImportFails, UnlockImport, CrashImport, rrVars
  <2>5. CASE Cleanup
    BY <2>1, <2>5, CleanupFrame DEF rrVars
  <2>6. CASE UNCHANGED vars
    BY <2>6 DEF vars, rrVars
  <2>7. QED
    BY <2>2, <2>3, <2>4, <2>5, <2>6 DEF Next
<1>2. QED
  BY <1>1, Invariance, PTL DEF Spec, NothingIsOverwritten

\* A reported rollback has restored the settings and the tree.
THEOREM RolledBack == Spec => RolledBackIsRestored
<1> DEFINE A == cpc = "restore" /\ outcome' = "rolled_back" =>
                  /\ \A t \in saved : config[t] \in {backup[t], "xj"}
                  /\ deleting \/ evidence \subseteq place
<1>1. IInv /\ [Next]_vars => [A]_vars
  <2> SUFFICES ASSUME IInv, [Next]_vars, cpc = "restore", outcome' = "rolled_back"
               PROVE  /\ \A t \in saved : config[t] \in {backup[t], "xj"}
                      /\ deleting \/ evidence \subseteq place
    OBVIOUS
  <2>1. outcome # "rolled_back"
    BY DEF IInv, CleanupInv, ReturnInv
  <2>2. Cleanup
    BY <2>1, AroundFrame, ImportFrame DEF Next, vars, cleanupVars
  <2>3. RollbackEnds
    BY <2>1, <2>2 DEF Cleanup, ApplyLock, ApplyLockFails, ApplyAborts, ApplyGate, ApplyRecheck,
       Snapshot, Quarantine, CheckQuarantined, CheckFinal, ApplyFails, Deleted, RollbackLate,
       RollbackReturn, RollbackCollides, RollbackFails, RollbackAborts, ApplyUnlock, CrashCleanup,
       CleanTarget, DeleteBackup, RestoreRemove, RestoreCopy, RestoreBreaks, DeleteRecord, KeepFiles
  <2>4. left = {} /\ ~late
    BY <2>3 DEF RollbackEnds
  <2>5. QED
    BY <2>4 DEF IInv, CleanupInv, RestoredInv, ReturnInv
<1>2. QED
  BY <1>1, Invariance, PTL DEF Spec, RolledBackIsRestored
=============================================================================
