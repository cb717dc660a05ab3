------------------------------ MODULE Volumes ------------------------------
(***************************************************************************)
(* The verbs of one node on a volume, its snapshot and a copy made from    *)
(* that snapshot: attach, detach, snapshot, delete, create, clone, export. *)
(* Sources: internal/api/api.go, createfromsnapshot.go, pushsnapshot.go,   *)
(* internal/storage/volumes.go, exports.go, recover.go and                 *)
(* internal/operations/table.go.                                           *)
(*                                                                         *)
(* A handler first looks, then changes: lookups that directly follow each  *)
(* other are one step, every lvm command that changes something is one.    *)
(* There is no lock per volume: what a handler saw may be stale when it    *)
(* acts.                                                                   *)
(***************************************************************************)
EXTENDS Naturals, FiniteSets

CONSTANTS
  Exports,        \* handlers of Export and PushSnapshot
  ExportTargets,  \* the lvs callers name in them
  MaxFaults,      \* bound: failed lvm commands
  MaxCrashes,     \* bound: crashes of the daemon
  Callers         \* when the orchestrator makes its next call, see MayCall

Names == {"vol", "snap", "copy"}

Verbs == {"attach", "detach", "csnap", "dsnap", "delete", "create", "clone"}
LongRunning == {"delete", "create", "clone"}
Readers == Exports \cup {"clone"}
Workers == Verbs \cup Exports

ASSUME VolumesAssumption ==
  /\ ExportTargets \subseteq {"vol", "snap"}
  /\ Exports \cap Verbs = {} /\ IsFiniteSet(Exports)
  /\ MaxFaults \in Nat /\ MaxCrashes \in Nat
  /\ Callers \in {"polling", "racing"}

VARIABLES
  tags,    \* tags[x]: the state tags of lv x, {} when there is no such lv
  active,  \* the lvs whose device exists
  pins,    \* pins[x]: ExportPins
  at,      \* at[w]: the step of handler w
  lv,      \* lv[r]: the lv reader r was called with
  snaps,   \* the running DeleteVolume found the snapshot
  op,      \* op[w]: the operation of the latest call of w
  maker,   \* history: who created the lv named copy
  faults, crashes

bounds == <<faults, crashes>>
vars == <<tags, active, pins, at, lv, snaps, op, maker, faults, crashes>>

States == {"creating", "ready", "attached", "retired", "deleting", "snapshot"}

Steps == {"idle", "tag", "activate", "deactivate", "check", "make", "ready", "pin",
          "remove", "markSnap", "markVol", "removeSnap", "open", "read", "close",
          "cleanup", "release"}

\* Type of the state.
TypeOK ==
  /\ tags \in [Names -> SUBSET States]
  /\ active \subseteq {x \in Names : tags[x] # {}}
  /\ pins \in [Names -> 0..Cardinality(Readers)]
  /\ at \in [Workers -> Steps]
  /\ lv \in [Readers -> Names]
  /\ snaps \in BOOLEAN
  /\ op \in [LongRunning -> {"none", "pending", "done", "failed"}]
  /\ maker \in {"none", "create", "clone"}
  /\ faults \in 0..MaxFaults /\ crashes \in 0..MaxCrashes

\* A READY volume, or one that a push has RETIRED, with or without a snapshot.
Init ==
  /\ \E v \in {"ready", "retired"}, s \in {{}, {"snapshot"}} :
       tags = [x \in Names |-> IF x = "vol" THEN {v} ELSE IF x = "snap" THEN s ELSE {}]
  /\ active = {} /\ pins = [x \in Names |-> 0]
  /\ at = [w \in Workers |-> "idle"] /\ lv = [r \in Readers |-> "snap"]
  /\ snaps = FALSE /\ op = [w \in LongRunning |-> "none"] /\ maker = "none"
  /\ faults = 0 /\ crashes = 0

-----------------------------------------------------------------------------
Fault == faults < MaxFaults /\ faults' = faults + 1 /\ UNCHANGED crashes
NoFault == UNCHANGED bounds

\* An lvm command fails, certainly so under p.
FailsIf(p) == (p /\ NoFault) \/ Fault

Present(x) == tags[x] # {}

\* stateOf takes the first state tag it finds.
CanBe(x, s) == s \in tags[x]
CanBeOther(x, s) == tags[x] # {s}

\* A device that some handler reads is open.
Reading(x) == \E r \in Readers : at[r] = "read" /\ lv[r] = x

Go(w, l) == at' = [at EXCEPT ![w] = l]
Finish(w, o) == op' = [op EXCEPT ![w] = o]

\* lvcreate with a state tag, lvchange of that tag, lvremove, activation.
CreateThin(x, s) == tags' = [tags EXCEPT ![x] = {s}]
Retag(x, from, to) == tags' = [tags EXCEPT ![x] = (@ \ {from}) \cup {to}]
Remove(x) == tags' = [tags EXCEPT ![x] = {}] /\ active' = active \ {x}
Activate(x) == active' = active \cup {x} /\ UNCHANGED tags
Deactivate(x) == active' = active \ {x} /\ UNCHANGED tags

\* What the callers see of a handler: its answer, or the end of its operation.
Answered(w) == at[w] = "idle" \/ (w \in LongRunning /\ op[w] # "pending")

\* Racing callers do not wait for each other, polling ones wait for the answer
\* of every verb before.  Nobody waits for an export.
MayCall(w) ==
  at[w] = "idle" /\ (Callers = "racing" \/ \A v \in Verbs : Answered(v))

-----------------------------------------------------------------------------
\* Attach: tag, then activate.
AttachCheck ==
  /\ MayCall("attach") /\ CanBe("vol", "ready")
  /\ Go("attach", "tag")
  /\ UNCHANGED <<tags, active, pins, lv, snaps, op, maker, bounds>>

AttachTag ==
  /\ at["attach"] = "tag"
  /\ \/ Present("vol") /\ Retag("vol", "ready", "attached") /\ Go("attach", "activate") /\ NoFault
     \/ FailsIf(~Present("vol")) /\ Go("attach", "idle") /\ UNCHANGED tags
  /\ UNCHANGED <<active, pins, lv, snaps, op, maker>>

\* Mutant of AttachActivate: activation is left to the next boot.
AttachNoActivate ==
  /\ at["attach"] = "activate"
  /\ Go("attach", "idle")
  /\ UNCHANGED <<tags, active, pins, lv, snaps, op, maker, bounds>>

AttachActivate ==
  /\ at["attach"] = "activate"
  /\ Go("attach", "idle")
  /\ \/ Present("vol") /\ Activate("vol") /\ NoFault
     \/ FailsIf(~Present("vol")) /\ UNCHANGED <<tags, active>>
  /\ UNCHANGED <<pins, lv, snaps, op, maker>>

\* Detach: deactivate, refused while the device is in use, then tag.
DetachCheck ==
  /\ MayCall("detach") /\ CanBe("vol", "attached")
  /\ Go("detach", "deactivate")
  /\ UNCHANGED <<tags, active, pins, lv, snaps, op, maker, bounds>>

DetachDeactivate ==
  /\ at["detach"] = "deactivate"
  /\ \/ Present("vol") /\ Deactivate("vol") /\ Go("detach", "tag")
     \/ Go("detach", "idle") /\ UNCHANGED <<tags, active>>
  /\ UNCHANGED <<pins, lv, snaps, op, maker, bounds>>

DetachTag ==
  /\ at["detach"] = "tag"
  /\ Go("detach", "idle")
  /\ \/ Present("vol") /\ Retag("vol", "attached", "ready") /\ NoFault
     \/ FailsIf(~Present("vol")) /\ UNCHANGED tags
  /\ UNCHANGED <<active, pins, lv, snaps, op, maker>>

-----------------------------------------------------------------------------
\* CreateSnapshot of a READY or ATTACHED volume.
SnapshotCheck ==
  /\ MayCall("csnap") /\ ~Present("snap")
  /\ CanBe("vol", "ready") \/ CanBe("vol", "attached")
  /\ Go("csnap", "make")
  /\ UNCHANGED <<tags, active, pins, lv, snaps, op, maker, bounds>>

SnapshotMake ==
  /\ at["csnap"] = "make"
  /\ Go("csnap", "idle")
  /\ \/ /\ Present("vol") /\ ~Present("snap")
        /\ CreateThin("snap", "snapshot") /\ NoFault
     \/ FailsIf(~Present("vol") \/ Present("snap")) /\ UNCHANGED tags
  /\ UNCHANGED <<active, pins, lv, snaps, op, maker>>

\* DeleteSnapshot refuses a pinned snapshot, then removes it.
Unpinned(x) == pins[x] = 0

DeleteSnapshotCheck ==
  /\ MayCall("dsnap") /\ CanBe("snap", "snapshot") /\ Unpinned("snap")
  /\ Go("dsnap", "remove")
  /\ UNCHANGED <<tags, active, pins, lv, snaps, op, maker, bounds>>

\* lvremove refuses an open device.
DeleteSnapshotRemove ==
  /\ at["dsnap"] = "remove"
  /\ Go("dsnap", "idle")
  /\ \/ Present("snap") /\ ~Reading("snap") /\ Remove("snap") /\ NoFault
     \/ FailsIf(~Present("snap") \/ Reading("snap")) /\ UNCHANGED <<tags, active>>
  /\ UNCHANGED <<pins, lv, snaps, op, maker>>

-----------------------------------------------------------------------------
\* DeleteVolume: the lookups of MarkDeleting.
Refused(force) ==
  \/ ~CanBe("vol", "ready") /\ ~CanBe("vol", "retired")
  \/ CanBe("snap", "snapshot") /\ (~force \/ ~Unpinned("snap"))

DeleteCheck(force) ==
  /\ MayCall("delete")
  /\ snaps' = CanBe("snap", "snapshot")
  /\ \/ Refused(force) /\ Finish("delete", "failed") /\ UNCHANGED at
     \/ /\ ~Refused(force) /\ Finish("delete", "pending")
        /\ Go("delete", IF snaps' THEN "markSnap" ELSE "markVol")
  /\ UNCHANGED <<tags, active, pins, lv, maker, bounds>>

\* Snapshots are marked before the volume; a failure leaves what is marked.
DeleteMark(x, l, from, then) ==
  /\ at["delete"] = l
  /\ \/ Present(x) /\ Retag(x, from, "deleting") /\ Go("delete", then) /\ NoFault /\ UNCHANGED op
     \/ FailsIf(~Present(x)) /\ Go("delete", "idle") /\ Finish("delete", "failed") /\ UNCHANGED tags
  /\ UNCHANGED <<active, pins, lv, snaps, maker>>

DeleteMarkSnap == DeleteMark("snap", "markSnap", "snapshot", "markVol")

\* The state tag MarkDeleting removes is the one it found; no verb but a delete
\* changes a RETIRED volume.
FoundState == IF CanBe("vol", "retired") THEN "retired" ELSE "ready"
DeleteMarkVol ==
  DeleteMark("vol", "markVol", FoundState, IF snaps THEN "removeSnap" ELSE "remove")

\* Mutant of DeleteRemoveSnap: the failure is not recorded.
DeleteRemoveSnapSilent ==
  /\ at["delete"] = "removeSnap"
  /\ \/ Present("snap") /\ ~Reading("snap") /\ Remove("snap") /\ Go("delete", "remove") /\ NoFault
     \/ /\ FailsIf(~Present("snap") \/ Reading("snap"))
        /\ Go("delete", "idle") /\ UNCHANGED <<tags, active>>
  /\ UNCHANGED <<pins, lv, snaps, op, maker>>

\* runDelete removes the snapshot, then the volume, and stops at a failure.
DeleteRemoveSnap ==
  /\ at["delete"] = "removeSnap"
  /\ \/ /\ Present("snap") /\ ~Reading("snap") /\ Remove("snap")
        /\ Go("delete", "remove") /\ NoFault /\ UNCHANGED op
     \/ /\ FailsIf(~Present("snap") \/ Reading("snap"))
        /\ Go("delete", "idle") /\ Finish("delete", "failed") /\ UNCHANGED <<tags, active>>
  /\ UNCHANGED <<pins, lv, snaps, maker>>

\* The device of a volume attached meanwhile may be open.
DeleteRemoveVol ==
  /\ at["delete"] = "remove"
  /\ Go("delete", "idle")
  /\ \/ Present("vol") /\ Remove("vol") /\ Finish("delete", "done") /\ NoFault
     \/ FailsIf(~Present("vol") \/ "vol" \in active) /\ Finish("delete", "failed") /\ UNCHANGED <<tags, active>>
  /\ UNCHANGED <<pins, lv, snaps, maker>>

-----------------------------------------------------------------------------
\* CreateVolume under the name of the copy: lookup, lvcreate, retag.
CreateCheck ==
  /\ MayCall("create") /\ ~Present("copy")
  /\ Go("create", "make") /\ Finish("create", "pending")
  /\ UNCHANGED <<tags, active, pins, lv, snaps, maker, bounds>>

CreateMake ==
  /\ at["create"] = "make"
  /\ \/ /\ ~Present("copy")
        /\ CreateThin("copy", "creating") /\ maker' = "create"
        /\ Go("create", "ready") /\ NoFault /\ UNCHANGED op
     \/ /\ FailsIf(Present("copy"))
        /\ Go("create", "idle") /\ Finish("create", "failed") /\ UNCHANGED <<tags, maker>>
  /\ UNCHANGED <<active, pins, lv, snaps>>

\* Mutant of CreateReady: a failed retag ends the operation as done.
CreateReadyAlways ==
  /\ at["create"] = "ready"
  /\ Go("create", "idle") /\ Finish("create", "done")
  /\ \/ Present("copy") /\ Retag("copy", "creating", "ready") /\ NoFault
     \/ FailsIf(~Present("copy")) /\ UNCHANGED tags
  /\ UNCHANGED <<active, pins, lv, snaps, maker>>

CreateReady ==
  /\ at["create"] = "ready"
  /\ Go("create", "idle")
  /\ \/ Present("copy") /\ Retag("copy", "creating", "ready") /\ Finish("create", "done") /\ NoFault
     \/ FailsIf(~Present("copy")) /\ Finish("create", "failed") /\ UNCHANGED tags
  /\ UNCHANGED <<active, pins, lv, snaps, maker>>

-----------------------------------------------------------------------------
\* Readers of a snapshot: Export, PushSnapshot and CreateVolumeFromSnapshot.

\* Acquire comes before the state check.
Acquire(x) == pins' = [pins EXCEPT ![x] = @ + 1]
Release(x) == pins' = [pins EXCEPT ![x] = @ - 1]

ExportPin(e, x) ==
  /\ at[e] = "idle"
  /\ Acquire(x)
  /\ lv' = [lv EXCEPT ![e] = x] /\ Go(e, "check")
  /\ UNCHANGED <<tags, active, snaps, op, maker, bounds>>

\* Anything but a snapshot is refused; the deferred release runs all the same.
ExportCheck(e) ==
  /\ at[e] = "check"
  /\ \/ CanBe(lv[e], "snapshot") /\ Go(e, "activate") /\ NoFault
     \/ FailsIf(CanBeOther(lv[e], "snapshot")) /\ Go(e, "release")
  /\ UNCHANGED <<tags, active, pins, lv, snaps, op, maker>>

\* Mutant of ClonePin: the clone reads unpinned, its deferred release runs.
CloneUnpinned ==
  /\ MayCall("clone")
  /\ Go("clone", "check") /\ Finish("clone", "pending")
  /\ UNCHANGED <<tags, active, pins, lv, snaps, maker, bounds>>

ClonePin ==
  /\ MayCall("clone")
  /\ Acquire("snap")
  /\ Go("clone", "check") /\ Finish("clone", "pending")
  /\ UNCHANGED <<tags, active, lv, snaps, maker, bounds>>

\* The snapshot must be one, the name of the copy free.
CloneAccepts == CanBe("snap", "snapshot") /\ ~Present("copy")

CloneCheck ==
  /\ at["clone"] = "check"
  /\ \/ CloneAccepts /\ Go("clone", "make") /\ NoFault /\ UNCHANGED op
     \/ FailsIf(~CloneAccepts) /\ Go("clone", "release") /\ Finish("clone", "failed")
  /\ UNCHANGED <<tags, active, pins, lv, snaps, maker>>

\* A reader whose step failed ends.  A clone first answers, then cleans up.
Fails(r) ==
  \/ r = "clone" /\ Go(r, "cleanup") /\ Finish(r, "failed")
  \/ r # "clone" /\ Go(r, "release") /\ UNCHANGED op

GoesOn(r, l) == Go(r, l) /\ UNCHANGED op

\* The copy is born active and tagged creating.
CloneMake ==
  /\ at["clone"] = "make"
  /\ \/ /\ ~Present("copy")
        /\ CreateThin("copy", "creating") /\ active' = active \cup {"copy"}
        /\ maker' = "clone" /\ GoesOn("clone", "activate") /\ NoFault
     \/ FailsIf(Present("copy")) /\ Fails("clone") /\ UNCHANGED <<tags, active, maker>>
  /\ UNCHANGED <<pins, lv, snaps>>

ReaderActivate(r) ==
  /\ at[r] = "activate" /\ r # "attach"
  /\ \/ Present(lv[r]) /\ Activate(lv[r]) /\ GoesOn(r, "open") /\ NoFault
     \/ FailsIf(~Present(lv[r])) /\ Fails(r) /\ UNCHANGED <<tags, active>>
  /\ UNCHANGED <<pins, lv, snaps, maker>>

\* Opening fails when the device is gone, and when the lookup of its path does.
ReaderOpen(r) ==
  /\ at[r] = "open"
  /\ \/ lv[r] \in active /\ GoesOn(r, "read") /\ NoFault
     \/ FailsIf(lv[r] \notin active) /\ Fails(r)
  /\ UNCHANGED <<tags, active, pins, lv, snaps, maker>>

ReaderEnds(r) ==
  /\ at[r] = "read"
  /\ \/ GoesOn(r, IF r = "clone" THEN "close" ELSE "release") /\ NoFault
     \/ Fault /\ Fails(r)
  /\ UNCHANGED <<tags, active, pins, lv, snaps, maker>>

\* The copy is deactivated, then retagged ready.
CloneDeactivate ==
  /\ at["clone"] = "close"
  /\ \/ Present("copy") /\ Deactivate("copy") /\ GoesOn("clone", "ready") /\ NoFault
     \/ FailsIf(~Present("copy")) /\ Fails("clone") /\ UNCHANGED <<tags, active>>
  /\ UNCHANGED <<pins, lv, snaps, maker>>

CloneReady ==
  /\ at["clone"] = "ready"
  /\ \/ /\ Present("copy") /\ Retag("copy", "creating", "ready")
        /\ Finish("clone", "done") /\ Go("clone", "release") /\ NoFault
     \/ FailsIf(~Present("copy")) /\ Fails("clone") /\ UNCHANGED tags
  /\ UNCHANGED <<active, pins, lv, snaps, maker>>

\* A failed clone removes the lv named like its target, after its answer.
CloneCleanup ==
  /\ at["clone"] = "cleanup"
  /\ Go("clone", "release")
  /\ \/ Present("copy") /\ Remove("copy") /\ NoFault
     \/ FailsIf(~Present("copy")) /\ UNCHANGED <<tags, active>>
  /\ UNCHANGED <<pins, lv, snaps, op, maker>>

\* Mutant of ReaderRelease: the last one out does not deactivate.
ReaderOnlyReleases(r) ==
  /\ at[r] = "release"
  /\ Release(lv[r])
  /\ Go(r, "idle")
  /\ UNCHANGED <<tags, active, lv, snaps, op, maker, bounds>>

\* releaseExport: the last one out deactivates.
ReaderRelease(r) ==
  /\ at[r] = "release"
  /\ Release(lv[r])
  /\ Go(r, IF pins[lv[r]] = 1 THEN "deactivate" ELSE "idle")
  /\ UNCHANGED <<tags, active, lv, snaps, op, maker, bounds>>

\* An open device is not deactivated.
ReaderDeactivate(r) ==
  /\ at[r] = "deactivate"
  /\ Go(r, "idle")
  /\ \/ ~Reading(lv[r]) /\ Deactivate(lv[r]) /\ NoFault
     \/ FailsIf(Reading(lv[r])) /\ UNCHANGED <<tags, active>>
  /\ UNCHANGED <<pins, lv, snaps, op, maker>>

-----------------------------------------------------------------------------
\* The daemon crashes, with its host or alone, and Recover runs: unfinished
\* lvs are removed, the attached volume is activated, the snapshot is not.
Recovered(x, failed) ==
  IF x \notin failed /\ tags[x] \cap {"creating", "deleting"} # {} THEN {} ELSE tags[x]

Crash(reboot, failed) ==
  LET found == IF reboot THEN {} ELSE active
  IN /\ crashes < MaxCrashes /\ crashes' = crashes + 1
     /\ \/ failed = {} /\ UNCHANGED faults
        \/ failed # {} /\ faults < MaxFaults /\ faults' = faults + 1
     /\ tags' = [x \in Names |-> Recovered(x, failed)]
     /\ active' = {x \in Names :
                     /\ tags'[x] # {}
                     /\ \/ x \in found /\ (x \in failed \/ "snapshot" \notin tags[x])
                        \/ "attached" \in tags[x] /\ x \notin failed}
     /\ pins' = [x \in Names |-> 0]
     /\ at' = [w \in Workers |-> "idle"]
     /\ op' = [w \in LongRunning |-> "none"]
     /\ UNCHANGED <<lv, snaps, maker>>

-----------------------------------------------------------------------------
AttachDetach == AttachCheck \/ AttachTag \/ AttachActivate
                \/ DetachCheck \/ DetachDeactivate \/ DetachTag

SnapshotVerbs == SnapshotCheck \/ SnapshotMake \/ DeleteSnapshotCheck \/ DeleteSnapshotRemove

DeleteSteps == DeleteMarkSnap \/ DeleteMarkVol \/ DeleteRemoveSnap \/ DeleteRemoveVol

CreateSteps == CreateMake \/ CreateReady

ReaderSteps(r) == ReaderActivate(r) \/ ReaderOpen(r) \/ ReaderEnds(r)
                  \/ ReaderRelease(r) \/ ReaderDeactivate(r)

CloneSteps == CloneCheck \/ CloneMake \/ CloneDeactivate \/ CloneReady \/ CloneCleanup
              \/ ReaderSteps("clone")

ExportSteps(e) == ExportCheck(e) \/ ReaderSteps(e)

Next ==
  \/ AttachDetach \/ SnapshotVerbs
  \/ \E force \in BOOLEAN : DeleteCheck(force)
  \/ DeleteSteps
  \/ CreateCheck \/ CreateSteps
  \/ ClonePin \/ CloneSteps
  \/ \E e \in Exports : ExportSteps(e) \/ \E x \in ExportTargets : ExportPin(e, x)
  \/ \E reboot \in BOOLEAN, failed \in SUBSET Names : Crash(reboot, failed)

Spec == Init /\ [][Next]_vars

\* The goroutines of operations run on; callers need not call, and an export may
\* wait for its client for ever.
FairSpec ==
  Spec /\ WF_vars(DeleteSteps) /\ WF_vars(CreateSteps) /\ WF_vars(CloneSteps)

-----------------------------------------------------------------------------
\* Properties.

\* "a verb in the wrong state is refused, never absorbed" (README): an lv has
\* one state, so every verb sees whether it may run.  False: two verbs that saw
\* the same state both retag, and leave two state tags.
OneState == \A x \in Names : Cardinality(tags[x]) <= 1

\* An attached volume keeps its block device until it is detached, whatever
\* else is called on the node, and has it again after a reboot.
AttachedActive ==
  faults = 0 /\ tags["vol"] = {"attached"} /\ at["attach"] = "idle" /\ at["detach"] = "idle"
    => "vol" \in active

\* "pin before the state check ... so a racing delete cannot slip between": a
\* snapshot that passed a reader's check stays one until the reader is done.
\* False: the delete looks at the pins before it removes, and an export that
\* pins in between finds the snapshot still there.
ReaderKeepsSnapshot ==
  \A r \in Readers : r # "clone" /\ at[r] \in {"activate", "open", "read"}
    => tags[lv[r]] = {"snapshot"}

\* Snapshots rest inactive: after any overlap of exports, the last one out
\* has deactivated the device, unless lvm refused to.
SnapshotsRest ==
  faults = 0 /\ (\A r \in Readers : at[r] = "idle") => "snap" \notin active

\* "remove the half-made target now instead of at the next boot": the cleanup
\* of a failed clone removes that target, never an lv that another verb created
\* under the same name.  False: it runs after FAILED is answered.
OwnCopy ==
  [][at["clone"] = "cleanup" /\ tags["copy"] # {} /\ tags'["copy"] = {} /\ crashes' = crashes
       => maker = "clone"]_vars

\* An operation that ends as DONE has done it: the created lv is READY, the
\* deleted volume is gone and no snapshot of it is left to be used (one that an
\* earlier, failed delete had marked waits for the next boot).  For callers that
\* wait for answers: a CreateSnapshot that overlaps a delete leaves a snapshot.
DoneMeansDone ==
  [][\A w \in LongRunning : op[w] # "done" /\ op'[w] = "done" =>
       IF w = "delete" THEN tags'["vol"] = {} /\ "snapshot" \notin tags'["snap"]
       ELSE tags'["copy"] = {"ready"}]_vars

\* Every operation a caller polls ends, or a restart forgets it.
OperationsEnd == \A w \in LongRunning : op[w] = "pending" ~> op[w] # "pending"
-----------------------------------------------------------------------------
\* The inductive invariant behind these properties, for every kind of caller.

\* Handlers are at steps of their own.
StepsInv ==
  /\ at["attach"] \in {"idle", "tag", "activate"}
  /\ at["detach"] \in {"idle", "deactivate", "tag"}
  /\ at["csnap"] \in {"idle", "make"}
  /\ at["dsnap"] \in {"idle", "remove"}
  /\ at["delete"] \in {"idle", "markSnap", "markVol", "removeSnap", "remove"}
  /\ at["create"] \in {"idle", "make", "ready"}
  /\ at["clone"] \in {"idle", "check", "make", "activate", "open", "read", "close", "ready",
                      "cleanup", "release", "deactivate"}
  /\ \A e \in Exports :
       at[e] \in {"idle", "check", "activate", "open", "read", "release", "deactivate"}

\* A clone reads the snapshot, an export what its caller named.
ReadersInv ==
  lv["clone"] = "snap" /\ \A e \in Exports : lv[e] \in ExportTargets \cup {"snap"}

\* The state tags an lv may have.  Verbs that race leave two on the volume only.
VolStates == {"ready", "retired", "attached", "deleting"}
TagsInv ==
  /\ tags["vol"] \subseteq VolStates
  /\ tags["snap"] \in {{}, {"snapshot"}, {"deleting"}}
  /\ tags["copy"] \in {{}, {"creating"}, {"ready"}}

\* The readers that hold a pin on x, and the count of them.
Holding(x) == {r \in Readers : at[r] \notin {"idle", "deactivate"} /\ lv[r] = x}
PinsInv == \A x \in Names : pins[x] = Cardinality(Holding(x))

\* The device of the attached volume is there unless a verb is about to make it
\* or has just removed it; that of the snapshot only while a reader is there.
VolDevice ==
  faults = 0 /\ tags["vol"] = {"attached"} /\ at["attach"] # "activate" /\ at["detach"] # "tag"
    /\ "vol" \notin ExportTargets
    => "vol" \in active
SnapDevice ==
  faults = 0 /\ "snap" \in active => \E r \in Readers : at[r] # "idle" /\ lv[r] = "snap"

VerbsInv == TypeOK /\ StepsInv /\ ReadersInv /\ TagsInv /\ PinsInv /\ VolDevice /\ SnapDevice

\* What callers that wait for answers add: they run one verb at a time, but for
\* what a clone does behind its answer, and see which one runs.
Behind == {"cleanup", "release", "deactivate"}
Resting(w) == at[w] = "idle" \/ (w = "clone" /\ at[w] \in Behind)
OneVerb == \A v, w \in Verbs : Resting(v) \/ Resting(w) \/ v = w
PendingInv == \A w \in LongRunning : at[w] = "idle" \/ at[w] \in Behind \/ op[w] = "pending"

\* A delete that has marked the snapshots leaves none to be used.
MarkedInv == at["delete"] \in {"markVol", "removeSnap", "remove"} => tags["snap"] # {"snapshot"}

CallsInv == VerbsInv /\ OneVerb /\ PendingInv /\ MarkedInv
=============================================================================
