--------------------------- MODULE RollbackProofs ---------------------------
(***************************************************************************)
(* As long as no other verb races with it, a rollback is crash safe and    *)
(* fault safe, for every number of attempts, failed commands and crashes.  *)
(***************************************************************************)
EXTENDS Rollback, TLAPS

Finishing == {"look", "rename", "retag"}

\* What lvm holds until a verb races: the volume, or the copy that replaces it.
Held ==
  /\ vstate \in {"absent", "ready", "attached", "rollback"}
  /\ vstate = "absent" => vdata = "none" /\ temp = "rollback"
  /\ vstate # "absent" => vdata \in {"old", "snap"}
  /\ vstate = "rollback" => vdata = "snap"

\* What the handler of RollbackVolume knows at its steps.
RollbackKnows ==
  /\ pc = "sweepRemove" => vstate # "absent"
  /\ pc \in {"create", "remove", "undo"} => vstate = "ready"
  /\ pc = "remove" => temp = "rollback"
  /\ pc = "renamed" => temp = "absent"
  /\ pc \in {"look", "rename"} => next # "begin"
  /\ pc \in Finishing => vstate \in {"absent", "rollback"}
  /\ pc = "retag" => vstate = "rollback" /\ temp = "absent"

\* What Recover knows at its steps.
BootKnows ==
  /\ pc \in {"bootVolume", "bootTemp"} => (listed <=> vstate # "absent")
  /\ pc = "bootRename" => vstate = "absent"
  /\ pc = "bootRetag" => vstate = "rollback" /\ temp = "absent"

\* The volume is usable and nothing is left over.
Healthy == vstate \in {"ready", "attached"} /\ temp = "absent"

\* As long as no lvm command has failed.
NoFaultYet ==
  faults = 0 =>
    /\ pc \in {"idle", "sweep", "renamed", "begin", "create"} => Healthy
    /\ pc \notin {"sweepExists", "sweepRemove", "undo"}
    /\ pc \in {"look", "rename"} => vstate = "absent"
    /\ pc = "bootTemp" => vstate # "rollback"

Safe == Held /\ RollbackKnows /\ BootKnows /\ NoFaultYet

\* The inductive invariant.
IInv == TypeOK /\ (~raced => Safe)

\* The invariant holds before the first call.
LEMMA InitIInv == Init => IInv
<1>. SUFFICES ASSUME Init PROVE IInv
  OBVIOUS
<1>1. Flags
  BY Zenon DEF Init, Flags
<1>. QED  BY <1>1, RollbackAssumption DEF Init, CreatorSteps, IInv, Safe, TypeOK, Held,
   RollbackKnows, BootKnows, NoFaultYet, Healthy, Finishing, RollbackSteps, BootSteps

\* The Boolean variables stay Boolean, in every step of every caller.
LEMMA NextFlags ==
  ASSUME Flags, [Next]_vars
  PROVE  Flags'
<1>1. CASE Call \/ Crash
  BY <1>1, Zenon DEF Call, Reserves, Crash, other_vars, Flags
<1>2. CASE Sweep \/ SweepExists \/ SweepRemove \/ SweepRenamed
  BY <1>2, Zenon DEF Sweep, SweepExists, SweepRemove, SweepRenamed, Goes, Return,
     StartFinish, other_vars, Flags
<1>3. CASE Begin \/ CreateCopy \/ RemoveOriginal \/ Undo
  BY <1>3, Zenon DEF Begin, CreateCopy, RemoveOriginal, Undo, Goes, Return, StartFinish,
     other_vars, Flags
<1>4. CASE Look \/ RenameCopy \/ RetagCopy
  BY <1>4, Zenon DEF Look, RenameCopy, RetagCopy, Goes, Return, TryAgain, other_vars, Flags
<1>5. CASE Boot
  BY <1>5, Zenon DEF Boot, List, BootVolume, BootTemp, BootRename, BootRetag, other_vars, Flags
<1>6. CASE Verbs
  BY <1>6, Zenon DEF Verbs, Attach, Detach, DeleteSnapshot, Checks,
     Creator, PrepareUnreserved, PrepareLooksUp, CreateLooksUp, CreateUnreserved,
     FromSnapshotLooksUp, CreatorRefused, Creates, Races, other_vars, Flags
<1>7. CASE UNCHANGED vars
  BY <1>7 DEF vars, Flags
<1>. QED  BY <1>1, <1>2, <1>3, <1>4, <1>5, <1>6, <1>7 DEF Next, Steps

\* A failed command counts, the others do not.
LEMMA FaultEffect ==
  ASSUME TypeOK
  PROVE  /\ Fault => faults' \in 0..MaxFaults /\ faults' # 0 /\ crashes' = crashes
         /\ NoFault => faults' = faults /\ crashes' = crashes
  BY RollbackAssumption DEF TypeOK, Fault, NoFault, bounds

\* finishRollback tries at least once.
LEMMA FirstTry == 1 \in 1..Tries
  BY RollbackAssumption

\* A failed attempt is followed by the next one or by the end of the call.
LEMMA TryEffect ==
  ASSUME TypeOK, TryAgain
  PROVE  try' \in 1..Tries /\ (Goes(Attempt(next)) \/ Return("failed"))
  BY RollbackAssumption DEF TypeOK, TryAgain

\* The check of a creating verb changes nothing but that verb's step.
LEMMA CheckEffect ==
  ASSUME Checks
  PROVE  /\ creator' \in CreatorSteps
         /\ UNCHANGED <<lvm_vars, snapshot, reserved, pc, next, try, listed, answer, raced, bounds>>
  BY DEF Checks, Creator, PrepareUnreserved, PrepareLooksUp, CreateLooksUp,
     CreateUnreserved, FromSnapshotLooksUp, CreatorRefused, CreatorSteps

\* Once a verb has raced, the history says so.
LEMMA RacedStays ==
  ASSUME raced = TRUE, [Next]_vars
  PROVE  raced' = TRUE
<1>1. CASE Call \/ Crash \/ Steps
  BY <1>1, Zenon DEF Call, Crash, Steps, Sweep, SweepExists, SweepRemove, SweepRenamed, Begin,
     CreateCopy, RemoveOriginal, Undo, Look, RenameCopy, RetagCopy, other_vars
<1>2. CASE Boot
  BY <1>2, Zenon DEF Boot, List, BootVolume, BootTemp, BootRename, BootRetag, other_vars
<1>3. CASE Verbs
  BY <1>3 DEF Verbs, Attach, Detach, DeleteSnapshot, Checks, Creator,
     PrepareUnreserved, PrepareLooksUp, CreateLooksUp, CreateUnreserved,
     FromSnapshotLooksUp, CreatorRefused, Creates, Races, other_vars
<1>4. CASE UNCHANGED vars
  BY <1>4 DEF vars
<1>. QED  BY <1>1, <1>2, <1>3, <1>4 DEF Next

\* Every step keeps the types, also when verbs race.
LEMMA NextType ==
  ASSUME TypeOK, [Next]_vars
  PROVE  TypeOK'
<1>. Flags'
  BY NextFlags DEF TypeOK
<1>. USE DEF TypeOK, RollbackSteps, BootSteps, Attempt
<1>1. CASE Call
  BY <1>1 DEF Call, Reserves, Goto, lvm_vars, other_vars, bounds
<1>2. CASE Sweep
  BY <1>2, FaultEffect DEF Sweep, Goes, Return, lvm_vars, other_vars
<1>3. CASE SweepExists
  BY <1>3, FaultEffect, FirstTry DEF SweepExists, Goes, Return, StartFinish, lvm_vars,
     other_vars
<1>4. CASE SweepRemove
  BY <1>4, FaultEffect DEF SweepRemove, Goes, Return, RemoveTemp, lvm_vars, other_vars
<1>5. CASE SweepRenamed
  BY <1>5, FaultEffect, FirstTry DEF SweepRenamed, Goes, Return, StartFinish, lvm_vars,
     other_vars
<1>6. CASE Begin
  BY <1>6, FaultEffect DEF Begin, Goes, Return, FailsIf, lvm_vars, other_vars
<1>7. CASE CreateCopy
  BY <1>7, FaultEffect DEF CreateCopy, Goes, Return, FailsIf, lvm_vars, other_vars
<1>8. CASE RemoveOriginal
  BY <1>8, FaultEffect, FirstTry DEF RemoveOriginal, Goes, StartFinish, FailsIf,
     RemoveVolume, lvm_vars, other_vars
<1>9. CASE Undo
  BY <1>9, FaultEffect DEF Undo, Return, RemoveTemp, lvm_vars, other_vars
<1>10. CASE Look
  <2>1. CASE Goes(IF temp # "absent" THEN "rename" ELSE "retag") /\ NoFault /\ UNCHANGED try
    BY <1>10, <2>1, FaultEffect DEF Look, Goes, lvm_vars, other_vars
  <2>2. CASE Fault /\ TryAgain
    BY <1>10, <2>2, FaultEffect, TryEffect DEF Look, Goes, Return, lvm_vars, other_vars
  <2>. QED  BY <1>10, <2>1, <2>2 DEF Look
<1>11. CASE RenameCopy
  BY <1>11, FaultEffect, TryEffect DEF RenameCopy, Goes, Return, FailsIf, Rename,
     lvm_vars, other_vars
<1>12. CASE RetagCopy
  BY <1>12, FaultEffect, TryEffect DEF RetagCopy, Goes, Return, FailsIf, RetagReady,
     Readied, lvm_vars, other_vars
<1>13. CASE Crash
  BY <1>13, RollbackAssumption DEF Crash, CreatorSteps, lvm_vars, other_vars
<1>14. CASE List
  BY <1>14 DEF List, Goto, lvm_vars, other_vars, bounds
<1>15. CASE BootVolume
  BY <1>15, FaultEffect DEF BootVolume, Goto, FailsIf, RemoveVolume, RetagReady, Readied,
     lvm_vars, other_vars
<1>16. CASE BootTemp
  BY <1>16, FaultEffect DEF BootTemp, Goto, AbortsCopy, RemoveTemp, lvm_vars, other_vars
<1>17. CASE BootRename
  BY <1>17, FaultEffect DEF BootRename, Goto, FailsIf, Rename, lvm_vars, other_vars
<1>18. CASE BootRetag
  BY <1>18, FaultEffect DEF BootRetag, Goto, RetagReady, Readied, lvm_vars, other_vars
<1>19. CASE Attach
  BY <1>19 DEF Attach, Serving, Races, lvm_vars, other_vars, bounds
<1>20. CASE Detach
  BY <1>20 DEF Detach, Serving, Races, lvm_vars, other_vars, bounds
<1>21. CASE DeleteSnapshot
  BY <1>21 DEF DeleteSnapshot, lvm_vars, other_vars, bounds
<1>22. CASE Checks
  BY <1>22, CheckEffect DEF lvm_vars, bounds
<1>23. CASE Creates
  BY <1>23 DEF Creates, CreatorSteps, lvm_vars, other_vars, bounds
<1>24. CASE UNCHANGED vars
  BY <1>24 DEF vars
<1>. QED  BY <1>1, <1>2, <1>3, <1>4, <1>5, <1>6, <1>7, <1>8, <1>9, <1>10, <1>11, <1>12,
   <1>13, <1>14, <1>15, <1>16, <1>17, <1>18, <1>19, <1>20, <1>21, <1>22, <1>23, <1>23,
   <1>24 DEF Next, Steps, Boot, Verbs

\* A step that does not race keeps the invariant.
LEMMA NextSafe ==
  ASSUME TypeOK, TypeOK', Safe, [Next]_vars, raced = FALSE, raced' = FALSE
  PROVE  Safe'
<1>. USE DEF Safe, TypeOK, Held, RollbackKnows, BootKnows, NoFaultYet, Healthy,
             Finishing, RollbackSteps, BootSteps, Attempt
<1>1. CASE Call
  BY <1>1 DEF Call, Reserves, Goto, lvm_vars, other_vars, bounds
<1>2. CASE Sweep
  BY <1>2, FaultEffect DEF Sweep, Goes, Return, lvm_vars, other_vars
<1>3. CASE SweepExists
  BY <1>3, FaultEffect, FirstTry DEF SweepExists, Goes, Return, StartFinish, lvm_vars,
     other_vars
<1>4. CASE SweepRemove
  BY <1>4, FaultEffect DEF SweepRemove, Goes, Return, RemoveTemp, lvm_vars, other_vars
<1>5. CASE SweepRenamed
  BY <1>5, FaultEffect, FirstTry DEF SweepRenamed, Goes, Return, StartFinish, lvm_vars,
     other_vars
<1>6. CASE Begin
  BY <1>6, FaultEffect DEF Begin, Goes, Return, FailsIf, lvm_vars, other_vars
<1>7. CASE CreateCopy
  BY <1>7, FaultEffect DEF CreateCopy, Goes, Return, FailsIf, lvm_vars, other_vars
<1>8. CASE RemoveOriginal
  BY <1>8, FaultEffect, FirstTry DEF RemoveOriginal, Goes, StartFinish, FailsIf,
     RemoveVolume, lvm_vars, other_vars
<1>9. CASE Undo
  BY <1>9, FaultEffect DEF Undo, Return, RemoveTemp, lvm_vars, other_vars
<1>10. CASE Look
  BY <1>10, FaultEffect, TryEffect DEF Look, Goes, Return, lvm_vars, other_vars
<1>11. CASE RenameCopy
  BY <1>11, FaultEffect, TryEffect DEF RenameCopy, Goes, Return, FailsIf, Rename,
     lvm_vars, other_vars
<1>12. CASE RetagCopy
  BY <1>12, FaultEffect, TryEffect DEF RetagCopy, Goes, Return, FailsIf, RetagReady,
     Readied, lvm_vars, other_vars
<1>13. CASE Crash
  BY <1>13, RollbackAssumption DEF Crash, CreatorSteps, lvm_vars, other_vars
<1>14. CASE List
  BY <1>14 DEF List, Goto, lvm_vars, other_vars, bounds
<1>15. CASE BootVolume
  BY <1>15, FaultEffect DEF BootVolume, Goto, FailsIf, RemoveVolume, RetagReady, Readied,
     lvm_vars, other_vars
<1>16. CASE BootTemp
  BY <1>16, FaultEffect DEF BootTemp, Goto, AbortsCopy, RemoveTemp, lvm_vars, other_vars
<1>17. CASE BootRename
  BY <1>17, FaultEffect DEF BootRename, Goto, FailsIf, Rename, lvm_vars, other_vars
<1>18. CASE BootRetag
  BY <1>18, FaultEffect DEF BootRetag, Goto, RetagReady, Readied, lvm_vars, other_vars
<1>19. CASE Attach
  BY <1>19 DEF Attach, Serving, Races, lvm_vars, other_vars, bounds
<1>20. CASE Detach
  BY <1>20 DEF Detach, Serving, Races, lvm_vars, other_vars, bounds
<1>21. CASE DeleteSnapshot
  BY <1>21 DEF DeleteSnapshot, lvm_vars, other_vars, bounds
<1>22. CASE Checks
  BY <1>22, CheckEffect DEF lvm_vars, bounds
<1>23. CASE Creates
  BY <1>23 DEF Creates, CreatorSteps, lvm_vars, other_vars, bounds
<1>24. CASE UNCHANGED vars
  BY <1>24 DEF vars
<1>. QED  BY <1>1, <1>2, <1>3, <1>4, <1>5, <1>6, <1>7, <1>8, <1>9, <1>10, <1>11, <1>12,
   <1>13, <1>14, <1>15, <1>16, <1>17, <1>18, <1>19, <1>20, <1>21, <1>22, <1>23, <1>23,
   <1>24 DEF Next, Steps, Boot, Verbs

\* Every step keeps the inductive invariant.
LEMMA NextIInv ==
  ASSUME IInv, [Next]_vars
  PROVE  IInv'
<1>1. TypeOK /\ TypeOK'
  BY NextType DEF IInv
<1>2. (raced = TRUE \/ raced = FALSE) /\ (raced' = TRUE \/ raced' = FALSE)
  BY <1>1, Zenon DEF TypeOK, Flags
<1>3. CASE raced' = TRUE
  BY <1>1, <1>3 DEF IInv
<1>4. CASE raced' = FALSE
  <2>1. raced = FALSE
    BY <1>2, <1>4, RacedStays
  <2>. QED  BY <1>1, <1>4, <2>1, NextSafe DEF IInv
<1>. QED  BY <1>2, <1>3, <1>4

-----------------------------------------------------------------------------
\* The invariant that carries the other theorems.
THEOREM Invariance == Spec => []IInv
<1>1. IInv /\ [Next]_vars => IInv'
  BY NextIInv
<1>. QED  BY <1>1, InitIInv, PTL DEF Spec

\* Type correctness of the rollback and of the recovery.
THEOREM RollbackTypeCorrect == Spec => []TypeOK
<1>1. IInv => TypeOK
  BY DEF IInv
<1>. QED  BY <1>1, Invariance, PTL

\* NothingLost: wherever lvm fails or the daemon crashes between BeginRollback,
\* RemoveVolume and FinishRollback, the content of the volume or its copy
\* survives.
THEOREM RollbackLosesNothing == Spec => []NothingLost
<1>1. IInv => NothingLost
  BY DEF IInv, Safe, TypeOK, Held, NothingLost
<1>. QED  BY <1>1, Invariance, PTL

\* CrashesHeal: without failing lvm commands, recoverRollback settles whatever
\* a crash at any step left behind.
THEOREM RecoveryHeals == Spec => []CrashesHeal
<1>1. IInv => CrashesHeal
  BY DEF IInv, Safe, NoFaultYet, Healthy, CrashesHeal
<1>. QED  BY <1>1, Invariance, PTL

\* OKMeansDone: RollbackVolume answers OK only after the retag, and RemoveVolume
\* takes the old content only when the copy exists.
THEOREM OKIsDone == Spec => OKMeansDone
<1>. DEFINE Answered == ~raced /\ reserved /\ ~reserved' /\ answer' = "ok" /\ crashes' = crashes
                          => vdata' = "snap" /\ vstate' = "ready" /\ temp' = "absent"
            Replaced == ~raced /\ vdata = "old" /\ vdata' # "old" => temp = "rollback"
<1>1. ASSUME IInv, [Next]_vars
      PROVE  Replaced
  <2>. SUFFICES ASSUME ~raced, vdata = "old", vdata' # vdata
                PROVE  temp = "rollback"
    OBVIOUS
  <2>1. vstate # "absent" /\ vstate # "creating"
    BY <1>1 DEF IInv, Safe, Held
  <2>2. CASE RemoveOriginal
    BY <1>1, <2>2 DEF RemoveOriginal, IInv, Safe, RollbackKnows
  <2>3. CASE Steps /\ ~RemoveOriginal
    BY <2>1, <2>3 DEF Steps, Sweep, SweepExists, SweepRemove, SweepRenamed, Begin,
       CreateCopy,
       Undo, Look, RenameCopy, RetagCopy, lvm_vars, RemoveTemp, RetagReady
  <2>4. CASE Call \/ Crash
    BY <2>4 DEF Call, Crash, lvm_vars
  <2>5. CASE Boot
    BY <2>1, <2>5 DEF Boot, List, BootVolume, BootTemp, BootRename, BootRetag, lvm_vars,
       RemoveTemp, RetagReady
  <2>6. CASE Verbs
    BY <2>1, <2>6, CheckEffect DEF Verbs, Attach, Detach, DeleteSnapshot, Creates, lvm_vars
  <2>. QED  BY <1>1, <2>2, <2>3, <2>4, <2>5, <2>6 DEF Next, vars
<1>2. ASSUME IInv, [Next]_vars
      PROVE  Answered
  <2>. SUFFICES ASSUME ~raced, reserved, ~reserved', answer' = "ok", crashes' = crashes
                PROVE  vdata' = "snap" /\ vstate' = "ready" /\ temp' = "absent"
    OBVIOUS
  <2>1. CASE RetagCopy
    BY <1>2, <2>1, TryEffect DEF RetagCopy, RetagReady, Readied, Goes, Return, lvm_vars,
       IInv, Safe, Held, RollbackKnows
  <2>2. CASE Steps /\ ~RetagCopy
    BY <1>2, <2>2, TryEffect DEF Steps, Sweep, SweepExists, SweepRemove, SweepRenamed,
       Begin,
       CreateCopy, RemoveOriginal, Undo, Look, RenameCopy, Goes, Return, StartFinish, IInv
  <2>3. CASE Call
    BY <2>3 DEF Call, Reserves
  <2>4. CASE Crash
    BY <1>2, <2>4, RollbackAssumption DEF Crash, IInv, TypeOK
  <2>5. CASE Boot
    BY <2>5 DEF Boot, List, BootVolume, BootTemp, BootRename, BootRetag
  <2>6. CASE Verbs
    BY <2>6, CheckEffect DEF Verbs, Attach, Detach, DeleteSnapshot, Creates
  <2>. QED  BY <1>2, <2>1, <2>2, <2>3, <2>4, <2>5, <2>6 DEF Next, vars
<1>. QED  BY <1>1, <1>2, Invariance, PTL DEF Spec, OKMeansDone
=============================================================================
