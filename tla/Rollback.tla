------------------------------ MODULE Rollback ------------------------------
(***************************************************************************)
(* RollbackVolume replaces a READY volume by a writable copy of one of its *)
(* snapshots: create the copy under a temporary name, remove the volume,   *)
(* rename the copy, retag it.  Sources: internal/api/rollback.go,          *)
(* internal/storage/rollback.go and the rollback part of recover.go.       *)
(*                                                                         *)
(* One volume id, its temporary name, and one snapshot.  Every lvm command *)
(* is a step; any of them may fail, and the daemon may crash between two.  *)
(***************************************************************************)
EXTENDS Naturals

CONSTANTS
  Tries,       \* attempts of finishRollback, 3 in the code
  MaxFaults,   \* bound: failed lvm commands
  MaxCrashes   \* bound: crashes of the daemon

ASSUME RollbackAssumption ==
  Tries \in Nat \ {0} /\ MaxFaults \in Nat /\ MaxCrashes \in Nat

VARIABLES
  vstate,    \* the lv named like the volume: its state, or "absent"
  vdata,     \* whose content it holds
  temp,      \* the lv under the temporary name: "absent" or "rollback"
  snapshot,  \* the snapshot exists
  reserved,  \* both names are in nameReservations
  pc,        \* the step of the rollback or of the recovery
  next,      \* what follows finishRollback
  try,       \* its loop counter
  listed,    \* Recover's byName holds the volume
  answer,    \* the answer of the latest call
  creator,   \* another verb that creates an lv named like the volume: its step
  raced,     \* history: a verb ran into a rollback, or took the id of a failed one
  faults, crashes

lvm_vars == <<vstate, vdata, temp>>
other_vars == <<creator, raced>>
bounds == <<faults, crashes>>
vars == <<vstate, vdata, temp, snapshot, reserved, pc, next, try, listed, answer,
          creator, raced, faults, crashes>>

RollbackSteps == {"sweep", "sweepExists", "sweepRemove", "renamed", "begin", "create",
                  "remove", "undo", "look", "rename", "retag"}
BootSteps == {"list", "bootVolume", "bootTemp", "bootRename", "bootRetag"}

CreatorSteps == {"idle", "unreserved", "missing", "checked", "lookedUp"}

Flags == /\ snapshot \in BOOLEAN /\ reserved \in BOOLEAN
         /\ listed \in BOOLEAN /\ raced \in BOOLEAN

\* Type of the state.
TypeOK ==
  /\ vstate \in {"absent", "ready", "attached", "rollback", "creating", "mixed"}
  /\ vdata \in {"none", "old", "snap", "other"}
  /\ temp \in {"absent", "rollback"}
  /\ Flags
  /\ pc \in {"idle"} \cup RollbackSteps \cup BootSteps
  /\ next \in {"renamed", "begin", "ok"}
  /\ try \in 1..Tries
  /\ answer \in {"none", "ok", "failed"}
  /\ creator \in CreatorSteps
  /\ faults \in 0..MaxFaults /\ crashes \in 0..MaxCrashes

Init ==
  /\ vstate = "ready" /\ vdata = "old" /\ temp = "absent" /\ snapshot = TRUE
  /\ reserved = FALSE /\ pc = "idle" /\ next = "ok" /\ try = 1 /\ listed = FALSE
  /\ answer = "none" /\ creator = "idle" /\ raced = FALSE /\ faults = 0 /\ crashes = 0

-----------------------------------------------------------------------------
Fault == faults < MaxFaults /\ faults' = faults + 1 /\ UNCHANGED crashes
NoFault == UNCHANGED bounds

\* An lvm command fails, certainly so under p.
FailsIf(p) == (p /\ NoFault) \/ Fault

Goto(l) == pc' = l

\* The call ends with an error or with OK, and the names are released.
Return(a) == pc' = "idle" /\ answer' = a /\ reserved' = FALSE

Goes(l) == pc' = l /\ UNCHANGED <<answer, reserved>>

\* An attempt of finishRollback starts with a look at the temporary name, one
\* of sweepRenamedRollback, which goes on with begin, with the retag.
Attempt(l) == IF l = "begin" THEN "retag" ELSE "look"

\* finishRollback starts its loop and goes on with l when it succeeds.
StartFinish(l) == Goes(Attempt(l)) /\ next' = l /\ try' = 1

\* lvm commands.
RemoveTemp == temp' = "absent" /\ UNCHANGED <<vstate, vdata>>
RemoveVolume == vstate' = "absent" /\ vdata' = "none" /\ UNCHANGED temp
Rename == vstate' = temp /\ vdata' = "snap" /\ temp' = "absent"

\* Mutant of Readied: the rollback tag stays.
ReadiedNot(s) == s

\* The retag of FinishRollback adds the ready tag to whatever has the name.
Readied(s) == IF s \in {"rollback", "ready"} THEN "ready" ELSE "mixed"
RetagReady == vstate' = Readied(vstate) /\ UNCHANGED <<vdata, temp>>

-----------------------------------------------------------------------------
\* RollbackVolume.

\* Reserve claims both names; a second call meanwhile is refused.
Reserves == reserved' = TRUE

Call ==
  /\ pc = "idle" /\ ~reserved
  /\ Reserves
  /\ Goto("sweep")
  /\ UNCHANGED <<lvm_vars, snapshot, next, try, listed, answer, other_vars, bounds>>

\* sweepRollback looks for a leftover copy.
Sweep ==
  /\ pc = "sweep"
  /\ \/ Goes(IF temp = "absent" THEN "renamed" ELSE "sweepExists") /\ NoFault
     \/ Fault /\ Return("failed")
  /\ UNCHANGED <<lvm_vars, snapshot, next, try, listed, other_vars>>

\* A copy whose volume still exists is removed, the others are finished.
SweepExists ==
  /\ pc = "sweepExists"
  /\ \/ vstate # "absent" /\ Goes("sweepRemove") /\ NoFault /\ UNCHANGED <<next, try>>
     \/ vstate = "absent" /\ StartFinish("renamed") /\ NoFault
     \/ Fault /\ Return("failed") /\ UNCHANGED <<next, try>>
  /\ UNCHANGED <<lvm_vars, snapshot, listed, other_vars>>

SweepRemove ==
  /\ pc = "sweepRemove"
  /\ \/ RemoveTemp /\ Goes("renamed") /\ NoFault
     \/ Fault /\ Return("failed") /\ UNCHANGED lvm_vars
  /\ UNCHANGED <<snapshot, next, try, listed, other_vars>>

\* sweepRenamedRollback settles a copy that only misses its retag.
SweepRenamed ==
  /\ pc = "renamed"
  /\ \/ vstate = "rollback" /\ StartFinish("begin") /\ NoFault
     \/ vstate # "rollback" /\ Goes("begin") /\ NoFault /\ UNCHANGED <<next, try>>
     \/ Fault /\ Return("failed") /\ UNCHANGED <<next, try>>
  /\ UNCHANGED <<lvm_vars, snapshot, listed, other_vars>>

\* BeginRollback: a READY volume and a snapshot of it.
Begin ==
  /\ pc = "begin"
  /\ \/ vstate = "ready" /\ snapshot /\ Goes("create") /\ NoFault
     \/ FailsIf(vstate # "ready" \/ ~snapshot) /\ Return("failed")
  /\ UNCHANGED <<lvm_vars, snapshot, next, try, listed, other_vars>>

CreateCopy ==
  /\ pc = "create"
  /\ \/ /\ temp = "absent" /\ snapshot
        /\ temp' = "rollback" /\ Goes("remove") /\ NoFault
     \/ FailsIf(temp # "absent" \/ ~snapshot) /\ Return("failed") /\ UNCHANGED temp
  /\ UNCHANGED <<vstate, vdata, snapshot, next, try, listed, other_vars>>

\* The point of no return: the volume is removed by name.
RemoveOriginal ==
  /\ pc = "remove"
  /\ \/ vstate # "absent" /\ RemoveVolume /\ StartFinish("ok") /\ NoFault
     \/ FailsIf(vstate = "absent") /\ Goes("undo") /\ UNCHANGED <<lvm_vars, next, try>>
  /\ UNCHANGED <<snapshot, listed, other_vars>>

\* A failed removal undoes the copy, or logs that it could not.
Undo ==
  /\ pc = "undo"
  /\ Return("failed")
  /\ \/ RemoveTemp /\ NoFault
     \/ Fault /\ UNCHANGED lvm_vars
  /\ UNCHANGED <<snapshot, next, try, listed, other_vars>>

\* Mutants of TryAgain: one attempt too many; attempts without end.
TryOnceMore ==
  IF try <= Tries THEN Goes(Attempt(next)) /\ try' = try + 1
  ELSE Return("failed") /\ UNCHANGED try

TryForever == Goes(Attempt(next)) /\ UNCHANGED try

\* A failed attempt of finishRollback: the next one, or the call fails.
TryAgain ==
  IF try < Tries THEN Goes(Attempt(next)) /\ try' = try + 1
  ELSE Return("failed") /\ UNCHANGED try

\* Every attempt looks whether the rename has landed already.
Look ==
  /\ pc = "look"
  /\ \/ Goes(IF temp # "absent" THEN "rename" ELSE "retag") /\ NoFault /\ UNCHANGED try
     \/ Fault /\ TryAgain
  /\ UNCHANGED <<lvm_vars, snapshot, next, listed, other_vars>>

RenameCopy ==
  /\ pc = "rename"
  /\ \/ temp # "absent" /\ vstate = "absent" /\ Rename /\ Goes("retag") /\ NoFault /\ UNCHANGED try
     \/ FailsIf(temp = "absent" \/ vstate # "absent") /\ TryAgain /\ UNCHANGED lvm_vars
  /\ UNCHANGED <<snapshot, next, listed, other_vars>>

RetagCopy ==
  /\ pc = "retag"
  /\ \/ /\ vstate # "absent" /\ RetagReady /\ NoFault /\ UNCHANGED try
        /\ IF next = "ok" THEN Return("ok") ELSE Goes(next)
     \/ FailsIf(vstate = "absent") /\ TryAgain /\ UNCHANGED lvm_vars
  /\ UNCHANGED <<snapshot, next, listed, other_vars>>

-----------------------------------------------------------------------------
\* Crash and recovery (recover.go).

\* A crash at any step, also during recovery.
Crash ==
  /\ crashes < MaxCrashes /\ crashes' = crashes + 1
  /\ pc' = "list" /\ reserved' = FALSE /\ creator' = "idle"
  /\ UNCHANGED <<lvm_vars, snapshot, next, try, listed, answer, raced, faults>>

\* Recover lists the volumes once.
List ==
  /\ pc = "list"
  /\ listed' = (vstate # "absent")
  /\ Goto("bootVolume")
  /\ UNCHANGED <<lvm_vars, snapshot, reserved, next, try, answer, other_vars, bounds>>

\* The lv named like the volume comes first in the list: unfinished ones are
\* removed, a renamed copy gets its retag.
BootVolume ==
  /\ pc = "bootVolume"
  /\ Goto("bootTemp")
  /\ \/ vstate = "creating" /\ RemoveVolume /\ NoFault
     \/ vstate = "rollback" /\ RetagReady /\ NoFault
     \/ FailsIf(vstate \in {"absent", "ready", "attached", "mixed"}) /\ UNCHANGED lvm_vars
  /\ UNCHANGED <<snapshot, reserved, next, try, listed, answer, other_vars>>

\* Mutants of AbortsCopy: every copy is garbage; every copy is finished.
AbortsAlways == TRUE
AbortsNever == FALSE

\* recoverRollback: abort when the volume was listed, finish otherwise.
AbortsCopy == listed

BootTemp ==
  /\ pc = "bootTemp"
  /\ \/ temp = "absent" /\ Goto("idle") /\ NoFault /\ UNCHANGED lvm_vars
     \/ temp # "absent" /\ AbortsCopy /\ RemoveTemp /\ Goto("idle") /\ NoFault
     \/ temp # "absent" /\ AbortsCopy /\ Fault /\ Goto("idle") /\ UNCHANGED lvm_vars
     \/ temp # "absent" /\ ~AbortsCopy /\ Goto("bootRename") /\ NoFault /\ UNCHANGED lvm_vars
  /\ UNCHANGED <<snapshot, reserved, next, try, listed, answer, other_vars>>

BootRename ==
  /\ pc = "bootRename"
  /\ \/ vstate = "absent" /\ Rename /\ Goto("bootRetag") /\ NoFault
     \/ FailsIf(vstate # "absent") /\ Goto("idle") /\ UNCHANGED lvm_vars
  /\ UNCHANGED <<snapshot, reserved, next, try, listed, answer, other_vars>>

BootRetag ==
  /\ pc = "bootRetag"
  /\ Goto("idle")
  /\ \/ RetagReady /\ NoFault
     \/ Fault /\ UNCHANGED lvm_vars
  /\ UNCHANGED <<snapshot, reserved, next, try, listed, answer, other_vars>>

-----------------------------------------------------------------------------
\* Other verbs, served after the recovery.  A reservation does not stop Attach
\* and Detach: when one comes between two steps of a rollback, it races.
Serving == pc \notin BootSteps
Races == raced' = IF pc = "idle" THEN raced ELSE TRUE

Attach ==
  /\ Serving /\ vstate = "ready" /\ vstate' = "attached" /\ Races
  /\ UNCHANGED <<vdata, temp, snapshot, reserved, pc, next, try, listed, answer, creator, bounds>>

Detach ==
  /\ Serving /\ vstate = "attached" /\ vstate' = "ready" /\ Races
  /\ UNCHANGED <<vdata, temp, snapshot, reserved, pc, next, try, listed, answer, creator, bounds>>

\* DeleteSnapshot may come at any time, a rollback does not pin.
DeleteSnapshot ==
  /\ Serving /\ snapshot
  /\ snapshot' = FALSE
  /\ UNCHANGED <<lvm_vars, reserved, pc, next, try, listed, answer, other_vars, bounds>>

\* The verbs that create an lv named like the volume each make two checks and
\* an lvcreate, as three steps.  What a check found may be stale at the next.
Creator(from, to) ==
  /\ Serving /\ creator = from /\ creator' = to
  /\ UNCHANGED <<lvm_vars, snapshot, reserved, pc, next, try, listed, answer, raced, bounds>>

\* PrepareReceive asks for the reservation and then looks for the lv.
PrepareUnreserved == ~reserved /\ Creator("idle", "unreserved")
PrepareLooksUp == vstate = "absent" /\ Creator("unreserved", "checked")

\* CreateVolume looks for the lv and then asks for the reservation.
CreateLooksUp == vstate = "absent" /\ Creator("idle", "missing")
CreateUnreserved == ~reserved /\ Creator("missing", "checked")

\* CreateVolumeFromSnapshot and CreateSnapshot only look for the lv.
FromSnapshotLooksUp == vstate = "absent" /\ Creator("idle", "lookedUp")

\* A check refuses the call, or its lookup fails.
CreatorRefused == creator \in {"unreserved", "missing"} /\ Creator(creator, "idle")

\* lvcreate takes the name, also when a rollback has just freed it or a failed
\* one has left it free, or finds it taken.
Creates ==
  /\ creator \in {"checked", "lookedUp"} /\ creator' = "idle"
  /\ \/ vstate = "absent" /\ vstate' = "creating" /\ vdata' = "other" /\ raced' = TRUE
     \/ vstate # "absent" /\ UNCHANGED <<vstate, vdata, raced>>
  /\ UNCHANGED <<temp, snapshot, reserved, pc, next, try, listed, answer, bounds>>

-----------------------------------------------------------------------------
Steps == Sweep \/ SweepExists \/ SweepRemove \/ SweepRenamed \/ Begin \/ CreateCopy
         \/ RemoveOriginal \/ Undo \/ Look \/ RenameCopy \/ RetagCopy

Boot == List \/ BootVolume \/ BootTemp \/ BootRename \/ BootRetag

Checks == PrepareUnreserved \/ PrepareLooksUp \/ CreateLooksUp \/ CreateUnreserved
          \/ FromSnapshotLooksUp \/ CreatorRefused

Verbs == Attach \/ Detach \/ DeleteSnapshot \/ Checks \/ Creates

Next == Call \/ Steps \/ Crash \/ Boot \/ Verbs

Spec == Init /\ [][Next]_vars

\* The handler and the recovery run on.
FairSpec == Spec /\ WF_vars(Steps) /\ WF_vars(Boot)

-----------------------------------------------------------------------------
\* Properties.

\* Until another verb races with it, the volume is never lost: at every step,
\* whatever failed before and wherever the daemon crashed, its lv exists with
\* its own or the snapshot's content, or a tagged copy exists that a sweep or
\* the next boot finishes.
NothingLost ==
  ~raced => vdata \in {"old", "snap"} \/ (temp = "rollback" /\ vstate = "absent")

\* Crashes alone leave nothing behind: once the daemon serves again the
\* volume is usable under its name and the copy is gone.
CrashesHeal ==
  ~raced /\ pc = "idle" /\ faults = 0 => vstate \in {"ready", "attached"} /\ temp = "absent"

\* An OK answer means the snapshot's content is READY under the volume's id,
\* and old content is gone for good only when the copy can replace it.
OKMeansDone ==
  [][~raced =>
     /\ reserved /\ ~reserved' /\ answer' = "ok" /\ crashes' = crashes =>
          vdata' = "snap" /\ vstate' = "ready" /\ temp' = "absent"
     /\ vdata = "old" /\ vdata' # "old" => temp = "rollback"]_vars

\* "so the creating verbs cannot take an id while it is briefly unclaimed in
\* lvm" (the comment of nameReservations), of the verbs that ask for the
\* reservation: while RollbackVolume runs they do not take the name.  False:
\* PrepareReceive asks before it looks for the lv, and the rollback may reserve
\* the name and remove the lv in between.
NameHeld ==
  [][vstate = "absent" /\ pc \in RollbackSteps /\ creator # "lookedUp"
       => vstate' \in {"absent", "rollback"}]_vars

\* A handler returns and a boot completes.
CallEnds == pc # "idle" ~> pc = "idle"
=============================================================================
