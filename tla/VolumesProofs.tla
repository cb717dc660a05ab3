--------------------------- MODULE VolumesProofs ---------------------------
(***************************************************************************)
(* TLAPS proofs about Volumes, for every number of exports, failures and   *)
(* crashes.  What the devices and the pins promise holds whatever callers  *)
(* do (VerbsInv); that DONE means done needs callers that wait for the     *)
(* answer of a verb before they call the next one (CallsInv).              *)
(***************************************************************************)
EXTENDS Volumes, FiniteSetTheorems, TLAPS

OtherVerbs == Verbs \ {"clone"}
Outside == {"idle", "deactivate"}
Ops == {"none", "pending", "done", "failed"}

-----------------------------------------------------------------------------
\* Pointwise effect of the assignments the actions are made of.

LEMMA GoEffect ==
  ASSUME TypeOK, NEW w \in Workers, NEW l \in Steps, Go(w, l)
  PROVE  /\ at' \in [Workers -> Steps]
         /\ \A u \in Workers : at'[u] = IF u = w THEN l ELSE at[u]
  BY DEF TypeOK, Go

LEMMA FinishEffect ==
  ASSUME TypeOK, NEW w \in LongRunning, NEW o \in {"none", "pending", "done", "failed"},
         Finish(w, o)
  PROVE  /\ op' \in [LongRunning -> {"none", "pending", "done", "failed"}]
         /\ \A u \in LongRunning : op'[u] = IF u = w THEN o ELSE op[u]
  BY DEF TypeOK, Finish

LEMMA TagEffect ==
  ASSUME TypeOK, NEW x \in Names, NEW S \in SUBSET States, tags' = [tags EXCEPT ![x] = S]
  PROVE  /\ tags' \in [Names -> SUBSET States]
         /\ \A y \in Names : tags'[y] = IF y = x THEN S ELSE tags[y]
  BY DEF TypeOK

LEMMA CreateEffect ==
  ASSUME TypeOK, NEW x \in Names, NEW s \in States, CreateThin(x, s)
  PROVE  /\ tags' \in [Names -> SUBSET States]
         /\ \A y \in Names : tags'[y] = IF y = x THEN {s} ELSE tags[y]
  BY TagEffect DEF CreateThin

LEMMA RetagEffect ==
  ASSUME TypeOK, NEW x \in Names, NEW from \in States, NEW to \in States, Retag(x, from, to)
  PROVE  /\ tags' \in [Names -> SUBSET States]
         /\ \A y \in Names : tags'[y] = IF y = x THEN (tags[x] \ {from}) \cup {to} ELSE tags[y]
<1>1. (tags[x] \ {from}) \cup {to} \in SUBSET States
  BY DEF TypeOK
<1>2. tags' = [tags EXCEPT ![x] = (tags[x] \ {from}) \cup {to}]
  BY DEF Retag
<1>3. QED
  BY <1>1, <1>2, TagEffect

LEMMA RemoveEffect ==
  ASSUME TypeOK, NEW x \in Names, Remove(x)
  PROVE  /\ tags' \in [Names -> SUBSET States]
         /\ \A y \in Names : tags'[y] = IF y = x THEN {} ELSE tags[y]
         /\ active' = active \ {x}
  BY TagEffect DEF Remove

LEMMA FaultEffect ==
  ASSUME TypeOK, Fault \/ NoFault
  PROVE  /\ faults' \in 0..MaxFaults /\ crashes' \in 0..MaxCrashes
         /\ faults' = 0 => faults = 0 /\ NoFault
         /\ Fault => faults' # 0
  BY VolumesAssumption DEF TypeOK, Fault, NoFault, bounds

-----------------------------------------------------------------------------
\* Counting pins.

LEMMA Constants ==
  /\ Readers \subseteq Workers /\ OtherVerbs \subseteq Workers /\ Verbs \subseteq Workers
  /\ Readers \cap OtherVerbs = {} /\ "clone" \in Readers /\ "clone" \notin Exports
  /\ Exports \subseteq Readers
  BY VolumesAssumption DEF Readers, Workers, Verbs, OtherVerbs

LEMMA SomeReaders ==
  ASSUME NEW S \in SUBSET Readers
  PROVE  IsFiniteSet(S) /\ Cardinality(S) \in 0..Cardinality(Readers)
<1>1. IsFiniteSet(Readers)
  BY FS_AddElement, VolumesAssumption DEF Readers
<1>2. IsFiniteSet(S) /\ Cardinality(S) <= Cardinality(Readers)
  BY <1>1, FS_Subset
<1>3. Cardinality(S) \in Nat /\ Cardinality(Readers) \in Nat
  BY <1>1, <1>2, FS_CardinalityType
<1>4. QED
  BY <1>2, <1>3

\* A step that pins and releases nothing.
LEMMA PinsKept ==
  ASSUME PinsInv, UNCHANGED <<pins, lv>>,
         \A r \in Readers : at'[r] \in Outside <=> at[r] \in Outside
  PROVE  PinsInv'
<1>1. \A x \in Names : Holding(x)' = Holding(x)
  BY DEF Holding, Outside
<1>2. QED
  BY <1>1 DEF PinsInv

LEMMA PinAdded ==
  ASSUME TypeOK, PinsInv, NEW r \in Readers, NEW x \in Names, at[r] = "idle",
         Go(r, "check"), Acquire(x), lv' = [lv EXCEPT ![r] = x]
  PROVE  PinsInv' /\ pins' \in [Names -> 0..Cardinality(Readers)]
<1>1. \A u \in Workers : at'[u] = IF u = r THEN "check" ELSE at[u]
  BY GoEffect, Constants DEF Steps
<1>2. \A u \in Readers : lv'[u] = IF u = r THEN x ELSE lv[u]
  BY DEF TypeOK
<1>3. /\ \A y \in Names : Holding(y)' = IF y = x THEN Holding(x) \cup {r} ELSE Holding(y)
      /\ r \notin Holding(x)
  BY <1>1, <1>2, Constants DEF Holding
<1>4. /\ IsFiniteSet(Holding(x))
      /\ Cardinality(Holding(x)') = Cardinality(Holding(x)) + 1
  BY <1>3, SomeReaders, FS_AddElement DEF Holding
<1>5. \A y \in Names : pins'[y] = IF y = x THEN pins[x] + 1 ELSE pins[y]
  BY DEF TypeOK, Acquire
<1>6. PinsInv'
  BY <1>3, <1>4, <1>5 DEF PinsInv
<1>7. \A y \in Names : Cardinality(Holding(y)') \in 0..Cardinality(Readers)
  BY SomeReaders DEF Holding
<1>8. QED
  BY <1>6, <1>7 DEF PinsInv, Acquire, TypeOK

LEMMA PinDropped ==
  ASSUME TypeOK, PinsInv, NEW r \in Readers, at[r] = "release", ReaderRelease(r)
  PROVE  /\ PinsInv' /\ pins' \in [Names -> 0..Cardinality(Readers)]
         /\ at' \in [Workers -> Steps]
         /\ \A u \in Workers : u # r => at'[u] = at[u]
         /\ \/ at'[r] = "deactivate"
            \/ /\ at'[r] = "idle"
               /\ \E q \in Readers : q # r /\ at[q] \notin Outside /\ lv[q] = lv[r]
<1>0. PICK x \in Names : x = lv[r]
  BY DEF TypeOK
<1>1. r \in Holding(x)
  BY <1>0 DEF Holding
<1>2. /\ at' \in [Workers -> Steps]
      /\ at'[r] = IF pins[x] = 1 THEN "deactivate" ELSE "idle"
      /\ \A u \in Workers : u # r => at'[u] = at[u]
  BY <1>0, GoEffect, Constants DEF ReaderRelease, Steps
<1>3. \A y \in Names : Holding(y)' = IF y = x THEN Holding(x) \ {r} ELSE Holding(y)
  BY <1>0, <1>1, <1>2, Constants DEF Holding, ReaderRelease
<1>4. /\ IsFiniteSet(Holding(x)) /\ Cardinality(Holding(x)) \in Nat
      /\ Cardinality(Holding(x)') = Cardinality(Holding(x)) - 1
  <2>1. IsFiniteSet(Holding(x)) /\ Cardinality(Holding(x)) \in Nat
    BY SomeReaders DEF Holding
  <2>2. QED
    BY <2>1, <1>1, <1>3, FS_RemoveElement
<1>5. \A y \in Names : pins'[y] = IF y = x THEN pins[x] - 1 ELSE pins[y]
  BY <1>0 DEF TypeOK, ReaderRelease, Release
<1>6. PinsInv'
  BY <1>1, <1>3, <1>4, <1>5 DEF PinsInv
<1>7. \A y \in Names : Cardinality(Holding(y)') \in 0..Cardinality(Readers)
  BY SomeReaders DEF Holding
<1>8. pins' \in [Names -> 0..Cardinality(Readers)]
  BY <1>6, <1>7 DEF PinsInv, ReaderRelease, Release, TypeOK
<1>9. pins[x] # 1 => \E q \in Readers : q # r /\ at[q] \notin Outside /\ lv[q] = x
  <2>1. SUFFICES ASSUME pins[x] # 1, Holding(x) = {r} PROVE FALSE
    BY <1>1 DEF Holding, Outside
  <2>2. QED
    BY <2>1, FS_Singleton DEF PinsInv
<1>10. QED
  BY <1>0, <1>2, <1>6, <1>8, <1>9

-----------------------------------------------------------------------------
\* The verbs other than a clone.

\* A step of verb v touches no pin and makes no device of the snapshot.  What is
\* left to see is its own steps, the tags and the device of the volume.
LEMMA VerbMoves ==
  ASSUME VerbsInv, NEW v \in OtherVerbs, at' \in [Workers -> Steps],
         \A u \in Workers : u # v => at'[u] = at[u], StepsInv',
         UNCHANGED <<pins, lv>>, tags' \in [Names -> SUBSET States], TagsInv', VolDevice',
         \A x \in active' : x \in Names /\ tags'[x] # {},
         "snap" \in active' => "snap" \in active,
         snaps' \in BOOLEAN, op' \in [LongRunning -> Ops], maker' \in {"none", "create", "clone"},
         faults' \in 0..MaxFaults, crashes' \in 0..MaxCrashes, faults' = 0 => faults = 0
  PROVE  VerbsInv'
<1>1. \A r \in Readers : at'[r] = at[r]
  BY Constants
<1>2. PinsInv' /\ ReadersInv'
  BY <1>1, PinsKept DEF VerbsInv, ReadersInv
<1>3. SnapDevice'
  BY <1>1 DEF VerbsInv, SnapDevice
<1>4. TypeOK'
  BY DEF VerbsInv, TypeOK, Ops
<1>5. QED
  BY <1>2, <1>3, <1>4 DEF VerbsInv

\* The steps of verb v as its actions write them.
LEMMA VerbGoes ==
  ASSUME VerbsInv, NEW v \in OtherVerbs, NEW l \in Steps, Go(v, l),
         l \in CASE v = "attach" -> {"idle", "tag", "activate"}
                 [] v = "detach" -> {"idle", "deactivate", "tag"}
                 [] v = "csnap" -> {"idle", "make"}
                 [] v = "dsnap" -> {"idle", "remove"}
                 [] v = "delete" -> {"idle", "markSnap", "markVol", "removeSnap", "remove"}
                 [] v = "create" -> {"idle", "make", "ready"}
  PROVE  /\ at' \in [Workers -> Steps] /\ at'[v] = l
         /\ \A u \in Workers : u # v => at'[u] = at[u]
         /\ StepsInv'
<1>1. v \in Workers
  BY Constants
<1>2. /\ at' \in [Workers -> Steps] /\ at'[v] = l
      /\ \A u \in Workers : u # v => at'[u] = at[u]
  BY <1>1, GoEffect DEF VerbsInv
<1>3. \A e \in Exports : at'[e] = at[e]
  BY <1>2, Constants
<1>4. \A w \in Verbs : at'[w] = IF w = v THEN l ELSE at[w]
  BY <1>2, Constants
<1>5. StepsInv'
  BY <1>3, <1>4 DEF VerbsInv, StepsInv, OtherVerbs, Verbs
<1>6. QED
  BY <1>2, <1>5

\* What no step of a handler changes besides its own.
LEMMA FaultTyped ==
  ASSUME VerbsInv, Fault \/ NoFault
  PROVE  /\ faults' \in 0..MaxFaults /\ crashes' \in 0..MaxCrashes /\ (faults' = 0 => faults = 0)
         /\ Fault => faults' # 0
  BY FaultEffect DEF VerbsInv

LEMMA Typed ==
  ASSUME VerbsInv
  PROVE  /\ TypeOK /\ tags \in [Names -> SUBSET States] /\ op \in [LongRunning -> Ops]
         /\ snaps \in BOOLEAN /\ maker \in {"none", "create", "clone"}
         /\ faults \in 0..MaxFaults /\ crashes \in 0..MaxCrashes
         /\ \A x \in active : x \in Names /\ tags[x] # {}
  BY DEF VerbsInv, TypeOK, Ops

\* The effect of an operation's end on the table.
LEMMA OpTyped ==
  ASSUME VerbsInv, NEW w \in LongRunning, NEW o \in Ops, Finish(w, o) \/ UNCHANGED op
  PROVE  op' \in [LongRunning -> Ops]
  BY FinishEffect DEF VerbsInv, TypeOK, Ops

\* A lookup changes nothing but the handler's step.
LEMMA VerbLooks ==
  ASSUME VerbsInv, NEW v \in OtherVerbs, at' \in [Workers -> Steps],
         \A u \in Workers : u # v => at'[u] = at[u], StepsInv', at[v] = "idle",
         snaps' \in BOOLEAN, op' \in [LongRunning -> Ops],
         at'["attach"] # "activate" => at["attach"] # "activate",
         at'["detach"] # "tag" => at["detach"] # "tag",
         UNCHANGED <<tags, active, pins, lv, maker, faults, crashes>>
  PROVE  VerbsInv'
<1>1. TagsInv' /\ VolDevice'
  BY DEF VerbsInv, TagsInv, VolDevice
<1>2. QED
  BY <1>1, VerbMoves, Typed

LEMMA AttachCheckStep ==
  ASSUME VerbsInv, AttachCheck PROVE VerbsInv'
<1>1. "attach" \in OtherVerbs /\ "tag" \in Steps /\ Go("attach", "tag") /\ at["attach"] = "idle"
      /\ UNCHANGED <<tags, active, pins, lv, snaps, op, maker, faults, crashes>>
  BY DEF AttachCheck, MayCall, OtherVerbs, Verbs, Steps, bounds
<1>2. /\ at' \in [Workers -> Steps] /\ at'["attach"] = "tag" /\ StepsInv'
      /\ \A u \in Workers : u # "attach" => at'[u] = at[u]
  BY <1>1, VerbGoes
<1>3. op' \in [LongRunning -> Ops]
  BY <1>1, Typed
<1>4. /\ at'["attach"] # "activate" => at["attach"] # "activate"
      /\ at'["detach"] # "tag" => at["detach"] # "tag"
  BY <1>1, <1>2 DEF Workers, Verbs
<1>5. QED
  BY <1>1, <1>2, <1>3, <1>4, VerbLooks, Typed

LEMMA AttachTagStep ==
  ASSUME VerbsInv, AttachTag PROVE VerbsInv'
<1>1. /\ at["attach"] = "tag" /\ "attach" \in OtherVerbs /\ {"idle", "activate"} \subseteq Steps
      /\ UNCHANGED <<active, pins, lv, snaps, op, maker>> /\ (Fault \/ NoFault)
  BY DEF AttachTag, FailsIf, OtherVerbs, Verbs, Steps
<1>2. CASE Present("vol") /\ Retag("vol", "ready", "attached") /\ Go("attach", "activate")
  <2>1. /\ at' \in [Workers -> Steps] /\ at'["attach"] = "activate" /\ StepsInv'
        /\ \A u \in Workers : u # "attach" => at'[u] = at[u]
    BY <1>1, <1>2, VerbGoes
  <2>2. /\ tags' \in [Names -> SUBSET States]
        /\ tags'["vol"] = (tags["vol"] \ {"ready"}) \cup {"attached"}
        /\ tags'["snap"] = tags["snap"] /\ tags'["copy"] = tags["copy"]
    BY <1>2, RetagEffect, Typed DEF Names, States
  <2>3. TagsInv' /\ VolDevice'
    BY <2>1, <2>2 DEF VerbsInv, TagsInv, VolStates, VolDevice
  <2>4. \A x \in active' : x \in Names /\ tags'[x] # {}
    BY <1>1, <2>2, Typed DEF Names
  <2>5. QED
    BY <1>1, <2>1, <2>2, <2>3, <2>4, VerbMoves, Typed, FaultTyped
<1>3. CASE Go("attach", "idle") /\ UNCHANGED tags
  <2>1. /\ at' \in [Workers -> Steps] /\ at'["attach"] = "idle" /\ StepsInv'
        /\ \A u \in Workers : u # "attach" => at'[u] = at[u]
    BY <1>1, <1>3, VerbGoes
  <2>2. at'["detach"] = at["detach"]
    BY <2>1 DEF Workers, Verbs
  <2>3. TagsInv' /\ VolDevice'
    BY <1>1, <1>3, <2>1, <2>2, FaultTyped DEF VerbsInv, TagsInv, VolDevice
  <2>4. QED
    BY <1>1, <1>3, <2>1, <2>3, VerbMoves, Typed, FaultTyped
<1>4. QED
  BY <1>2, <1>3 DEF AttachTag

LEMMA AttachActivateStep ==
  ASSUME VerbsInv, AttachActivate PROVE VerbsInv'
<1>1. /\ at["attach"] = "activate" /\ "attach" \in OtherVerbs /\ "idle" \in Steps
      /\ Go("attach", "idle") /\ UNCHANGED <<tags, pins, lv, snaps, op, maker>>
      /\ (Fault \/ NoFault)
      /\ \/ Present("vol") /\ active' = active \cup {"vol"}
         \/ UNCHANGED active /\ (tags["vol"] = {} \/ Fault)
  BY DEF AttachActivate, Activate, FailsIf, Present, OtherVerbs, Verbs, Steps
<1>2. /\ at' \in [Workers -> Steps] /\ at'["attach"] = "idle" /\ StepsInv'
      /\ \A u \in Workers : u # "attach" => at'[u] = at[u]
  BY <1>1, VerbGoes
<1>3. TagsInv' /\ VolDevice'
  BY <1>1, FaultTyped DEF VerbsInv, TagsInv, VolDevice
<1>4. \A x \in active' : x \in Names /\ tags'[x] # {}
  BY <1>1, Typed DEF Names, Present
<1>5. QED
  BY <1>1, <1>2, <1>3, <1>4, VerbMoves, Typed, FaultTyped

LEMMA DetachCheckStep ==
  ASSUME VerbsInv, DetachCheck PROVE VerbsInv'
<1>1. "detach" \in OtherVerbs /\ "deactivate" \in Steps /\ Go("detach", "deactivate") /\ at["detach"] = "idle"
      /\ UNCHANGED <<tags, active, pins, lv, snaps, op, maker, faults, crashes>>
  BY DEF DetachCheck, MayCall, OtherVerbs, Verbs, Steps, bounds
<1>2. /\ at' \in [Workers -> Steps] /\ at'["detach"] = "deactivate" /\ StepsInv'
      /\ \A u \in Workers : u # "detach" => at'[u] = at[u]
  BY <1>1, VerbGoes
<1>3. op' \in [LongRunning -> Ops]
  BY <1>1, Typed
<1>4. /\ at'["attach"] # "activate" => at["attach"] # "activate"
      /\ at'["detach"] # "tag" => at["detach"] # "tag"
  BY <1>1, <1>2 DEF Workers, Verbs
<1>5. QED
  BY <1>1, <1>2, <1>3, <1>4, VerbLooks, Typed

LEMMA DetachDeactivateStep ==
  ASSUME VerbsInv, DetachDeactivate PROVE VerbsInv'
<1>1. /\ at["detach"] = "deactivate" /\ "detach" \in OtherVerbs /\ {"idle", "tag"} \subseteq Steps
      /\ UNCHANGED <<tags, pins, lv, snaps, op, maker, faults, crashes>>
      /\ \/ Go("detach", "tag") /\ active' = active \ {"vol"}
         \/ Go("detach", "idle") /\ UNCHANGED active
  BY DEF DetachDeactivate, Deactivate, OtherVerbs, Verbs, Steps, bounds
<1>2. /\ at' \in [Workers -> Steps] /\ StepsInv'
      /\ \A u \in Workers : u # "detach" => at'[u] = at[u]
      /\ at'["detach"] = "tag" \/ UNCHANGED active
  BY <1>1, VerbGoes
<1>3. at'["attach"] = at["attach"]
  BY <1>2 DEF Workers, Verbs
<1>4. TagsInv' /\ VolDevice'
  BY <1>1, <1>2, <1>3 DEF VerbsInv, TagsInv, VolDevice
<1>5. \A x \in active' : x \in Names /\ tags'[x] # {}
  BY <1>1, Typed
<1>6. QED
  BY <1>1, <1>2, <1>4, <1>5, VerbMoves, Typed

LEMMA DetachTagStep ==
  ASSUME VerbsInv, DetachTag PROVE VerbsInv'
<1>1. /\ at["detach"] = "tag" /\ "detach" \in OtherVerbs /\ "idle" \in Steps
      /\ Go("detach", "idle") /\ UNCHANGED <<active, pins, lv, snaps, op, maker>>
      /\ (Fault \/ NoFault)
  BY DEF DetachTag, FailsIf, OtherVerbs, Verbs, Steps
<1>2. /\ at' \in [Workers -> Steps] /\ at'["detach"] = "idle" /\ StepsInv'
      /\ \A u \in Workers : u # "detach" => at'[u] = at[u]
  BY <1>1, VerbGoes
<1>3. CASE Present("vol") /\ Retag("vol", "attached", "ready")
  <2>1. /\ tags' \in [Names -> SUBSET States]
        /\ tags'["vol"] = (tags["vol"] \ {"attached"}) \cup {"ready"}
        /\ tags'["snap"] = tags["snap"] /\ tags'["copy"] = tags["copy"]
    BY <1>3, RetagEffect, Typed DEF Names, States
  <2>2. TagsInv' /\ VolDevice'
    BY <2>1 DEF VerbsInv, TagsInv, VolStates, VolDevice
  <2>3. \A x \in active' : x \in Names /\ tags'[x] # {}
    BY <1>1, <2>1, Typed DEF Names
  <2>4. QED
    BY <1>1, <1>2, <2>1, <2>2, <2>3, VerbMoves, Typed, FaultTyped
<1>4. CASE FailsIf(~Present("vol")) /\ UNCHANGED tags
  <2>1. tags["vol"] = {} \/ faults' # 0
    BY <1>1, <1>4, FaultTyped DEF FailsIf, Present
  <2>2. TagsInv' /\ VolDevice'
    BY <1>4, <2>1 DEF VerbsInv, TagsInv, VolDevice
  <2>3. QED
    BY <1>1, <1>2, <1>4, <2>2, VerbMoves, Typed, FaultTyped
<1>5. QED
  BY <1>3, <1>4 DEF DetachTag

\* A step of a verb that is neither Attach nor Detach, and leaves the attached
\* volume's device and tags alone or adds to its tags.
LEMMA OtherMoves ==
  ASSUME VerbsInv, NEW v \in OtherVerbs \ {"attach", "detach"}, at' \in [Workers -> Steps],
         \A u \in Workers : u # v => at'[u] = at[u], StepsInv',
         UNCHANGED <<pins, lv>>, tags' \in [Names -> SUBSET States], TagsInv',
         \/ tags'["vol"] = tags["vol"] /\ ("vol" \in active => "vol" \in active')
         \/ tags'["vol"] # {"attached"},
         \A x \in active' : x \in active /\ tags'[x] # {},
         snaps' \in BOOLEAN, op' \in [LongRunning -> Ops], maker' \in {"none", "create", "clone"},
         Fault \/ NoFault
  PROVE  VerbsInv'
<1>1. at'["attach"] = at["attach"] /\ at'["detach"] = at["detach"]
  BY DEF Workers, Verbs
<1>2. VolDevice'
  BY <1>1, FaultTyped DEF VerbsInv, VolDevice
<1>3. \A x \in active' : x \in Names /\ tags'[x] # {}
  BY Typed
<1>4. QED
  BY <1>2, <1>3, VerbMoves, FaultTyped

-----------------------------------------------------------------------------
\* Snapshots.

LEMMA SnapshotCheckStep ==
  ASSUME VerbsInv, SnapshotCheck PROVE VerbsInv'
<1>1. "csnap" \in OtherVerbs /\ "make" \in Steps /\ Go("csnap", "make") /\ at["csnap"] = "idle"
      /\ UNCHANGED <<tags, active, pins, lv, snaps, op, maker, faults, crashes>>
  BY DEF SnapshotCheck, MayCall, OtherVerbs, Verbs, Steps, bounds
<1>2. /\ at' \in [Workers -> Steps] /\ at'["csnap"] = "make" /\ StepsInv'
      /\ \A u \in Workers : u # "csnap" => at'[u] = at[u]
  BY <1>1, VerbGoes
<1>3. op' \in [LongRunning -> Ops]
  BY <1>1, Typed
<1>4. /\ at'["attach"] # "activate" => at["attach"] # "activate"
      /\ at'["detach"] # "tag" => at["detach"] # "tag"
  BY <1>1, <1>2 DEF Workers, Verbs
<1>5. QED
  BY <1>1, <1>2, <1>3, <1>4, VerbLooks, Typed

LEMMA SnapshotMakeStep ==
  ASSUME VerbsInv, SnapshotMake PROVE VerbsInv'
<1>1. /\ "csnap" \in OtherVerbs \ {"attach", "detach"} /\ "idle" \in Steps
      /\ Go("csnap", "idle") /\ UNCHANGED <<active, pins, lv, snaps, op, maker>>
      /\ (Fault \/ NoFault)
  BY DEF SnapshotMake, FailsIf, OtherVerbs, Verbs, Steps
<1>2. /\ at' \in [Workers -> Steps] /\ StepsInv'
      /\ \A u \in Workers : u # "csnap" => at'[u] = at[u]
  BY <1>1, VerbGoes
<1>3. CASE CreateThin("snap", "snapshot")
  <2>1. /\ tags' \in [Names -> SUBSET States] /\ tags'["snap"] = {"snapshot"}
        /\ tags'["vol"] = tags["vol"] /\ tags'["copy"] = tags["copy"]
    BY <1>3, CreateEffect, Typed DEF Names, States
  <2>2. TagsInv'
    BY <2>1 DEF VerbsInv, TagsInv
  <2>3. \A x \in active' : x \in active /\ tags'[x] # {}
    BY <1>1, <2>1, Typed DEF Names
  <2>4. QED
    BY <1>1, <1>2, <2>1, <2>2, <2>3, OtherMoves, Typed
<1>4. CASE UNCHANGED tags
  <2>1. TagsInv'
    BY <1>4 DEF VerbsInv, TagsInv
  <2>2. QED
    BY <1>1, <1>2, <1>4, <2>1, OtherMoves, Typed
<1>5. QED
  BY <1>3, <1>4 DEF SnapshotMake

LEMMA DeleteSnapshotCheckStep ==
  ASSUME VerbsInv, DeleteSnapshotCheck PROVE VerbsInv'
<1>1. "dsnap" \in OtherVerbs /\ "remove" \in Steps /\ Go("dsnap", "remove") /\ at["dsnap"] = "idle"
      /\ UNCHANGED <<tags, active, pins, lv, snaps, op, maker, faults, crashes>>
  BY DEF DeleteSnapshotCheck, MayCall, OtherVerbs, Verbs, Steps, bounds
<1>2. /\ at' \in [Workers -> Steps] /\ at'["dsnap"] = "remove" /\ StepsInv'
      /\ \A u \in Workers : u # "dsnap" => at'[u] = at[u]
  BY <1>1, VerbGoes
<1>3. op' \in [LongRunning -> Ops]
  BY <1>1, Typed
<1>4. /\ at'["attach"] # "activate" => at["attach"] # "activate"
      /\ at'["detach"] # "tag" => at["detach"] # "tag"
  BY <1>1, <1>2 DEF Workers, Verbs
<1>5. QED
  BY <1>1, <1>2, <1>3, <1>4, VerbLooks, Typed

\* lvremove of an lv other than the volume, or its failure.
LEMMA RemovesOther ==
  ASSUME VerbsInv, NEW x \in {"snap", "copy"}, Remove(x) \/ UNCHANGED <<tags, active>>
  PROVE  /\ tags' \in [Names -> SUBSET States] /\ TagsInv'
         /\ tags'["vol"] = tags["vol"] /\ ("vol" \in active => "vol" \in active')
         /\ \A y \in active' : y \in active /\ tags'[y] # {}
<1>1. CASE Remove(x)
  <2>1. /\ tags' \in [Names -> SUBSET States]
        /\ \A y \in Names : tags'[y] = IF y = x THEN {} ELSE tags[y]
        /\ active' = active \ {x}
    BY <1>1, RemoveEffect, Typed DEF Names
  <2>2. TagsInv'
    BY <2>1 DEF VerbsInv, TagsInv, Names
  <2>3. QED
    BY <2>1, <2>2, Typed DEF Names
<1>2. CASE UNCHANGED <<tags, active>>
  BY <1>2, Typed DEF VerbsInv, TagsInv
<1>3. QED
  BY <1>1, <1>2

LEMMA DeleteSnapshotRemoveStep ==
  ASSUME VerbsInv, DeleteSnapshotRemove PROVE VerbsInv'
<1>1. /\ "dsnap" \in OtherVerbs \ {"attach", "detach"} /\ "idle" \in Steps
      /\ Go("dsnap", "idle") /\ UNCHANGED <<pins, lv, snaps, op, maker>>
      /\ (Fault \/ NoFault) /\ (Remove("snap") \/ UNCHANGED <<tags, active>>)
  BY DEF DeleteSnapshotRemove, FailsIf, OtherVerbs, Verbs, Steps
<1>2. /\ at' \in [Workers -> Steps] /\ StepsInv'
      /\ \A u \in Workers : u # "dsnap" => at'[u] = at[u]
  BY <1>1, VerbGoes
<1>3. /\ tags' \in [Names -> SUBSET States] /\ TagsInv'
      /\ tags'["vol"] = tags["vol"] /\ ("vol" \in active => "vol" \in active')
      /\ \A y \in active' : y \in active /\ tags'[y] # {}
  BY <1>1, RemovesOther
<1>4. QED
  BY <1>1, <1>2, <1>3, OtherMoves, Typed

-----------------------------------------------------------------------------
\* DeleteVolume.

LEMMA DeleteCheckStep ==
  ASSUME VerbsInv, NEW force \in BOOLEAN, DeleteCheck(force) PROVE VerbsInv'
<1>1. /\ "delete" \in OtherVerbs /\ {"markSnap", "markVol"} \subseteq Steps
      /\ at["delete"] = "idle" /\ UNCHANGED <<tags, active, pins, lv, maker, faults, crashes>>
  BY DEF DeleteCheck, MayCall, OtherVerbs, Verbs, Steps, bounds
<1>2. snaps' \in BOOLEAN /\ op' \in [LongRunning -> Ops]
  BY OpTyped DEF DeleteCheck, CanBe, LongRunning, Ops
<1>3. CASE UNCHANGED at
  <2>1. at' \in [Workers -> Steps] /\ StepsInv' /\ \A u \in Workers : u # "delete" => at'[u] = at[u]
    BY <1>3 DEF VerbsInv, TypeOK, StepsInv
  <2>2. QED
    BY <1>1, <1>2, <1>3, <2>1, VerbLooks
<1>4. CASE \E l \in {"markSnap", "markVol"} : Go("delete", l)
  <2>1. /\ at' \in [Workers -> Steps] /\ StepsInv'
        /\ \A u \in Workers : u # "delete" => at'[u] = at[u]
    BY <1>1, <1>4, VerbGoes
  <2>2. at'["attach"] = at["attach"] /\ at'["detach"] = at["detach"]
    BY <2>1 DEF Workers, Verbs
  <2>3. QED
    BY <1>1, <1>2, <2>1, <2>2, VerbLooks
<1>5. QED
  BY <1>3, <1>4 DEF DeleteCheck

\* A mark of an lv, or its failure.
LEMMA MarkEffect ==
  ASSUME VerbsInv, NEW x \in Names, NEW from \in States, Retag(x, from, "deleting")
  PROVE  /\ tags' \in [Names -> SUBSET States]
         /\ \A y \in Names : tags'[y] = IF y = x THEN (tags[x] \ {from}) \cup {"deleting"} ELSE tags[y]
         /\ \A y \in active : tags'[y] # {}
<1>1. "deleting" \in States
  BY DEF States
<1>2. /\ tags' \in [Names -> SUBSET States]
      /\ \A y \in Names : tags'[y] = IF y = x THEN (tags[x] \ {from}) \cup {"deleting"} ELSE tags[y]
  BY <1>1, RetagEffect, Typed
<1>3. QED
  BY <1>2, Typed

\* The step of a mark: to l, or to the end with a failure.
LEMMA DeleteGoes ==
  ASSUME VerbsInv, NEW l \in {"markVol", "removeSnap", "remove", "idle"}, Go("delete", l),
         UNCHANGED op \/ \E o \in {"done", "failed"} : Finish("delete", o)
  PROVE  /\ at' \in [Workers -> Steps] /\ StepsInv' /\ at'["delete"] = l
         /\ \A u \in Workers : u # "delete" => at'[u] = at[u]
         /\ op' \in [LongRunning -> Ops] /\ "delete" \in OtherVerbs \ {"attach", "detach"}
<1>1. /\ "delete" \in OtherVerbs \ {"attach", "detach"} /\ l \in Steps
      /\ "delete" \in LongRunning /\ {"done", "failed"} \subseteq Ops
  BY DEF OtherVerbs, Verbs, Steps, LongRunning, Ops
<1>2. op' \in [LongRunning -> Ops]
  BY <1>1, OpTyped, Typed
<1>3. QED
  BY <1>1, <1>2, VerbGoes

LEMMA DeleteMarkSnapStep ==
  ASSUME VerbsInv, DeleteMarkSnap PROVE VerbsInv'
<1>1. UNCHANGED <<active, pins, lv, snaps, maker>> /\ (Fault \/ NoFault)
  BY DEF DeleteMarkSnap, DeleteMark, FailsIf
<1>2. CASE Retag("snap", "snapshot", "deleting") /\ Go("delete", "markVol") /\ UNCHANGED op
  <2>1. /\ tags' \in [Names -> SUBSET States] /\ \A x \in active : tags'[x] # {}
        /\ \A y \in Names : tags'[y] = IF y = "snap" THEN (tags["snap"] \ {"snapshot"}) \cup {"deleting"}
                                       ELSE tags[y]
    BY <1>2, MarkEffect DEF Names, States
  <2>2. TagsInv'
    BY <2>1 DEF VerbsInv, TagsInv, Names
  <2>3. tags'["vol"] = tags["vol"]
    BY <2>1 DEF Names
  <2>4. QED
    BY <1>1, <1>2, <2>1, <2>2, <2>3, OtherMoves, DeleteGoes, Typed
<1>3. CASE Go("delete", "idle") /\ Finish("delete", "failed") /\ UNCHANGED tags
  <2>1. TagsInv'
    BY <1>3 DEF VerbsInv, TagsInv
  <2>2. QED
    BY <1>1, <1>3, <2>1, OtherMoves, DeleteGoes, Typed
<1>4. QED
  BY <1>2, <1>3 DEF DeleteMarkSnap, DeleteMark

LEMMA DeleteMarkVolStep ==
  ASSUME VerbsInv, DeleteMarkVol PROVE VerbsInv'
<1>1. UNCHANGED <<active, pins, lv, snaps, maker>> /\ (Fault \/ NoFault)
  BY DEF DeleteMarkVol, DeleteMark, FailsIf
<1>2. CASE /\ Retag("vol", FoundState, "deleting") /\ UNCHANGED op
           /\ \E l \in {"removeSnap", "remove"} : Go("delete", l)
  <2>1. FoundState \in States
    BY DEF FoundState, States
  <2>2. /\ tags' \in [Names -> SUBSET States] /\ \A x \in active : tags'[x] # {}
        /\ \A y \in Names : tags'[y] = IF y = "vol" THEN (tags["vol"] \ {FoundState}) \cup {"deleting"}
                                       ELSE tags[y]
    BY <1>2, <2>1, MarkEffect DEF Names
  <2>3. TagsInv' /\ tags'["vol"] # {"attached"}
    BY <2>2 DEF VerbsInv, TagsInv, VolStates, Names
  <2>4. QED
    BY <1>1, <1>2, <2>2, <2>3, OtherMoves, DeleteGoes, Typed
<1>3. CASE Go("delete", "idle") /\ Finish("delete", "failed") /\ UNCHANGED tags
  <2>1. TagsInv'
    BY <1>3 DEF VerbsInv, TagsInv
  <2>2. QED
    BY <1>1, <1>3, <2>1, OtherMoves, DeleteGoes, Typed
<1>4. QED
  BY <1>2, <1>3 DEF DeleteMarkVol, DeleteMark

LEMMA DeleteRemoveSnapStep ==
  ASSUME VerbsInv, DeleteRemoveSnap PROVE VerbsInv'
<1>1. /\ UNCHANGED <<pins, lv, snaps, maker>> /\ (Fault \/ NoFault)
      /\ \E l \in {"remove", "idle"} : Go("delete", l)
      /\ UNCHANGED op \/ \E o \in {"done", "failed"} : Finish("delete", o)
      /\ Remove("snap") \/ UNCHANGED <<tags, active>>
  BY DEF DeleteRemoveSnap, FailsIf
<1>2. /\ tags' \in [Names -> SUBSET States] /\ TagsInv'
      /\ tags'["vol"] = tags["vol"] /\ ("vol" \in active => "vol" \in active')
      /\ \A y \in active' : y \in active /\ tags'[y] # {}
  BY <1>1, RemovesOther
<1>3. QED
  BY <1>1, <1>2, OtherMoves, DeleteGoes, Typed

LEMMA DeleteRemoveVolStep ==
  ASSUME VerbsInv, DeleteRemoveVol PROVE VerbsInv'
<1>1. /\ UNCHANGED <<pins, lv, snaps, maker>> /\ (Fault \/ NoFault) /\ Go("delete", "idle")
      /\ \E o \in {"done", "failed"} : Finish("delete", o)
  BY DEF DeleteRemoveVol, FailsIf
<1>2. CASE Remove("vol")
  <2>1. /\ tags' \in [Names -> SUBSET States] /\ active' = active \ {"vol"}
        /\ \A y \in Names : tags'[y] = IF y = "vol" THEN {} ELSE tags[y]
    BY <1>2, RemoveEffect, Typed DEF Names
  <2>2. TagsInv' /\ tags'["vol"] # {"attached"}
    BY <2>1 DEF VerbsInv, TagsInv, Names
  <2>3. \A y \in active' : y \in active /\ tags'[y] # {}
    BY <2>1, Typed
  <2>4. QED
    BY <1>1, <2>1, <2>2, <2>3, OtherMoves, DeleteGoes, Typed
<1>3. CASE UNCHANGED <<tags, active>>
  <2>1. TagsInv'
    BY <1>3 DEF VerbsInv, TagsInv
  <2>2. QED
    BY <1>1, <1>3, <2>1, OtherMoves, DeleteGoes, Typed
<1>4. QED
  BY <1>2, <1>3 DEF DeleteRemoveVol

-----------------------------------------------------------------------------
\* CreateVolume.

LEMMA CreateCheckStep ==
  ASSUME VerbsInv, CreateCheck PROVE VerbsInv'
<1>1. "create" \in OtherVerbs /\ "make" \in Steps /\ Go("create", "make") /\ at["create"] = "idle"
      /\ UNCHANGED <<tags, active, pins, lv, snaps, maker, faults, crashes>>
  BY DEF CreateCheck, MayCall, OtherVerbs, Verbs, Steps, bounds
<1>2. /\ at' \in [Workers -> Steps] /\ at'["create"] = "make" /\ StepsInv'
      /\ \A u \in Workers : u # "create" => at'[u] = at[u]
  BY <1>1, VerbGoes
<1>3. op' \in [LongRunning -> Ops]
  BY <1>1, Typed, OpTyped DEF CreateCheck, LongRunning, Ops
<1>4. /\ at'["attach"] # "activate" => at["attach"] # "activate"
      /\ at'["detach"] # "tag" => at["detach"] # "tag"
  BY <1>1, <1>2 DEF Workers, Verbs
<1>5. QED
  BY <1>1, <1>2, <1>3, <1>4, VerbLooks, Typed

LEMMA CreateMakeStep ==
  ASSUME VerbsInv, CreateMake PROVE VerbsInv'
<1>1. /\ "create" \in OtherVerbs \ {"attach", "detach"} /\ {"ready", "idle"} \subseteq Steps
      /\ "create" \in LongRunning /\ "failed" \in Ops
      /\ UNCHANGED <<active, pins, lv, snaps>> /\ (Fault \/ NoFault)
      /\ \E l \in {"ready", "idle"} : Go("create", l)
      /\ UNCHANGED op \/ Finish("create", "failed")
  BY DEF CreateMake, FailsIf, OtherVerbs, Verbs, Steps, LongRunning, Ops
<1>2. /\ at' \in [Workers -> Steps] /\ StepsInv'
      /\ \A u \in Workers : u # "create" => at'[u] = at[u]
  BY <1>1, VerbGoes
<1>3. op' \in [LongRunning -> Ops] /\ maker' \in {"none", "create", "clone"}
  BY <1>1, OpTyped, Typed DEF CreateMake
<1>4. CASE CreateThin("copy", "creating")
  <2>1. /\ tags' \in [Names -> SUBSET States] /\ tags'["copy"] = {"creating"}
        /\ tags'["vol"] = tags["vol"] /\ tags'["snap"] = tags["snap"]
    BY <1>4, CreateEffect, Typed DEF Names, States
  <2>2. TagsInv'
    BY <2>1 DEF VerbsInv, TagsInv
  <2>3. \A x \in active' : x \in active /\ tags'[x] # {}
    BY <1>1, <2>1, Typed DEF Names
  <2>4. QED
    BY <1>1, <1>2, <1>3, <2>1, <2>2, <2>3, OtherMoves, Typed
<1>5. CASE UNCHANGED tags
  <2>1. TagsInv'
    BY <1>5 DEF VerbsInv, TagsInv
  <2>2. QED
    BY <1>1, <1>2, <1>3, <1>5, <2>1, OtherMoves, Typed
<1>6. QED
  BY <1>4, <1>5 DEF CreateMake

\* The retag that ends a create or a clone leaves the copy READY, whoever made it.
LEMMA ReadyEffect ==
  ASSUME VerbsInv, Present("copy"), Retag("copy", "creating", "ready")
  PROVE  /\ tags' \in [Names -> SUBSET States] /\ tags'["copy"] = {"ready"} /\ TagsInv'
         /\ tags'["vol"] = tags["vol"] /\ tags'["snap"] = tags["snap"]
         /\ \A x \in active : tags'[x] # {}
<1>1. /\ tags' \in [Names -> SUBSET States]
      /\ tags'["copy"] = (tags["copy"] \ {"creating"}) \cup {"ready"}
      /\ tags'["vol"] = tags["vol"] /\ tags'["snap"] = tags["snap"]
  BY RetagEffect, Typed DEF Names, States
<1>2. tags["copy"] \in {{"creating"}, {"ready"}}
  BY DEF VerbsInv, TagsInv, Present
<1>3. tags'["copy"] = {"ready"}
  BY <1>1, <1>2
<1>4. TagsInv'
  BY <1>1, <1>3 DEF VerbsInv, TagsInv
<1>5. QED
  BY <1>1, <1>3, <1>4, Typed DEF Names

LEMMA CreateReadyStep ==
  ASSUME VerbsInv, CreateReady PROVE VerbsInv'
<1>1. /\ "create" \in OtherVerbs \ {"attach", "detach"} /\ "idle" \in Steps
      /\ "create" \in LongRunning /\ {"done", "failed"} \subseteq Ops
      /\ UNCHANGED <<active, pins, lv, snaps, maker>> /\ (Fault \/ NoFault)
      /\ Go("create", "idle") /\ \E o \in {"done", "failed"} : Finish("create", o)
  BY DEF CreateReady, FailsIf, OtherVerbs, Verbs, Steps, LongRunning, Ops
<1>2. /\ at' \in [Workers -> Steps] /\ StepsInv'
      /\ \A u \in Workers : u # "create" => at'[u] = at[u]
  BY <1>1, VerbGoes
<1>3. op' \in [LongRunning -> Ops]
  BY <1>1, OpTyped
<1>4. CASE Present("copy") /\ Retag("copy", "creating", "ready")
  BY <1>1, <1>2, <1>3, <1>4, ReadyEffect, OtherMoves, Typed
<1>5. CASE UNCHANGED tags
  <2>1. TagsInv'
    BY <1>5 DEF VerbsInv, TagsInv
  <2>2. QED
    BY <1>1, <1>2, <1>3, <1>5, <2>1, OtherMoves, Typed
<1>6. QED
  BY <1>4, <1>5 DEF CreateReady

-----------------------------------------------------------------------------
\* The readers: clones and exports.

\* The steps of reader r as its actions write them.
LEMMA ReaderGoes ==
  ASSUME VerbsInv, NEW r \in Readers, NEW l \in Steps, Go(r, l),
         l \in {"idle", "check", "activate", "open", "read", "release", "deactivate"}
           \/ (r = "clone" /\ l \in {"make", "close", "ready", "cleanup"})
  PROVE  /\ at' \in [Workers -> Steps] /\ at'[r] = l
         /\ \A u \in Workers : u # r => at'[u] = at[u]
         /\ StepsInv' /\ at'["attach"] = at["attach"] /\ at'["detach"] = at["detach"]
<1>1. /\ at' \in [Workers -> Steps] /\ at'[r] = l
      /\ \A u \in Workers : u # r => at'[u] = at[u]
  BY GoEffect, Constants DEF VerbsInv
<1>2. \A w \in OtherVerbs : at'[w] = at[w]
  BY <1>1, Constants
<1>3. \A e \in Exports : at'[e] = IF e = r THEN l ELSE at[e]
  BY <1>1, Constants
<1>4. at'["clone"] = IF r = "clone" THEN l ELSE at["clone"]
  BY <1>1, Constants
<1>5. /\ UNCHANGED <<at["attach"], at["detach"], at["csnap"], at["dsnap"], at["delete"]>>
      /\ UNCHANGED at["create"]
  BY <1>2 DEF OtherVerbs, Verbs
<1>6. \A e \in Exports : e # "clone"
  BY Constants
<1>7. StepsInv'
  BY <1>3, <1>4, <1>5, <1>6 DEF VerbsInv, StepsInv
<1>8. QED
  BY <1>1, <1>5, <1>7

\* A step of a reader between its pin and its release: whatever it does to the
\* copy and the devices, the reader keeps the snapshot busy.
LEMMA ReaderMoves ==
  ASSUME VerbsInv, NEW r \in Readers, at' \in [Workers -> Steps],
         \A u \in Workers : u # r => at'[u] = at[u], StepsInv',
         at'["attach"] = at["attach"], at'["detach"] = at["detach"],
         at[r] \notin Outside, at'[r] \notin Outside, UNCHANGED <<pins, lv, snaps>>,
         tags' \in [Names -> SUBSET States], TagsInv', tags'["vol"] = tags["vol"],
         "vol" \in active => "vol" \in active',
         \A x \in active' : x \in Names /\ tags'[x] # {},
         "snap" \in active' => "snap" \in active \/ lv[r] = "snap",
         op' \in [LongRunning -> Ops], maker' \in {"none", "create", "clone"},
         Fault \/ NoFault
  PROVE  VerbsInv'
<1>1. /\ faults' \in 0..MaxFaults /\ crashes' \in 0..MaxCrashes /\ (faults' = 0 => faults = 0)
  BY FaultTyped
<1>2. PinsInv'
  BY PinsKept, Constants DEF VerbsInv
<1>3. VolDevice' /\ ReadersInv'
  BY <1>1 DEF VerbsInv, VolDevice, ReadersInv
<1>4. SnapDevice'
  <2>1. \A q \in Readers : at[q] # "idle" => at'[q] # "idle"
    BY Constants DEF Outside
  <2>2. at'[r] # "idle"
    BY DEF Outside
  <2>3. QED
    BY <1>1, <2>1, <2>2 DEF VerbsInv, SnapDevice
<1>5. TypeOK'
  BY <1>1 DEF VerbsInv, TypeOK, Ops
<1>6. QED
  BY <1>2, <1>3, <1>4, <1>5 DEF VerbsInv

\* A reader goes on, or it fails: a clone then cleans up, an export releases.
LEMMA ReaderOn ==
  ASSUME VerbsInv, NEW r \in Readers,
         NEW l \in {"activate", "open", "read", "close", "ready", "release"},
         l \in {"close", "ready"} => r = "clone", GoesOn(r, l) \/ Fails(r)
  PROVE  /\ at' \in [Workers -> Steps] /\ at'[r] \notin Outside
         /\ \A u \in Workers : u # r => at'[u] = at[u]
         /\ StepsInv' /\ at'["attach"] = at["attach"] /\ at'["detach"] = at["detach"]
         /\ op' \in [LongRunning -> Ops]
<1>1. l \in Steps /\ "cleanup" \in Steps /\ "release" \in Steps
  BY DEF Steps
<1>2. op' \in [LongRunning -> Ops]
  BY OpTyped, Typed DEF GoesOn, Fails, LongRunning, Ops
<1>3. PICK m \in {l, "cleanup", "release"} : Go(r, m) /\ (m = "cleanup" => r = "clone")
  BY DEF GoesOn, Fails
<1>4. m \notin Outside /\ m \in Steps
  BY <1>1, <1>3 DEF Outside
<1>5. QED
  BY <1>2, <1>3, <1>4, ReaderGoes

LEMMA ReaderActivateStep ==
  ASSUME VerbsInv, NEW r \in Readers, ReaderActivate(r) PROVE VerbsInv'
<1>1. /\ at[r] \notin Outside /\ UNCHANGED <<tags, pins, lv, snaps, maker>> /\ (Fault \/ NoFault)
      /\ GoesOn(r, "open") \/ Fails(r)
      /\ UNCHANGED active \/ (active' = active \cup {lv[r]} /\ tags[lv[r]] # {})
  BY DEF ReaderActivate, Activate, Present, FailsIf, Outside
<1>2. TagsInv' /\ lv[r] \in Names
  BY <1>1 DEF VerbsInv, TagsInv, TypeOK
<1>3. QED
  BY <1>1, <1>2, ReaderOn, ReaderMoves, Typed

LEMMA ReaderOpenStep ==
  ASSUME VerbsInv, NEW r \in Readers, ReaderOpen(r) PROVE VerbsInv'
<1>1. /\ at[r] \notin Outside /\ UNCHANGED <<tags, active, pins, lv, snaps, maker>>
      /\ (Fault \/ NoFault) /\ (GoesOn(r, "read") \/ Fails(r))
  BY DEF ReaderOpen, FailsIf, Outside
<1>2. TagsInv'
  BY <1>1 DEF VerbsInv, TagsInv
<1>3. QED
  BY <1>1, <1>2, ReaderOn, ReaderMoves, Typed

LEMMA ReaderEndsStep ==
  ASSUME VerbsInv, NEW r \in Readers, ReaderEnds(r) PROVE VerbsInv'
<1>1. /\ at[r] \notin Outside /\ UNCHANGED <<tags, active, pins, lv, snaps, maker>>
      /\ (Fault \/ NoFault)
      /\ GoesOn(r, IF r = "clone" THEN "close" ELSE "release") \/ Fails(r)
  BY DEF ReaderEnds, Outside
<1>2. TagsInv'
  BY <1>1 DEF VerbsInv, TagsInv
<1>3. QED
  BY <1>1, <1>2, ReaderOn, ReaderMoves, Typed

\* The end of a clone and of an export: whoever else holds the pin, or the last
\* one out, keeps or ends the device.
LEMMA ReaderReleaseStep ==
  ASSUME VerbsInv, NEW r \in Readers, ReaderRelease(r) PROVE VerbsInv'
<1>1. /\ at[r] = "release" /\ TypeOK /\ PinsInv
      /\ UNCHANGED <<tags, active, lv, snaps, op, maker, faults, crashes>>
  BY DEF ReaderRelease, VerbsInv, bounds
<1>2. /\ PinsInv' /\ pins' \in [Names -> 0..Cardinality(Readers)]
      /\ at' \in [Workers -> Steps] /\ at'[r] \in Outside
      /\ \A u \in Workers : u # r => at'[u] = at[u]
      /\ \/ at'[r] = "deactivate"
         \/ \E q \in Readers : q # r /\ at[q] \notin Outside /\ lv[q] = lv[r]
  BY <1>1, PinDropped DEF Outside
<1>3. StepsInv' /\ at'["attach"] = at["attach"] /\ at'["detach"] = at["detach"]
  <2>1. \E l \in Outside : Go(r, l)
    BY DEF ReaderRelease, Outside
  <2>2. QED
    BY <2>1, ReaderGoes DEF Outside, Steps
<1>4. SnapDevice'
  <2>1. "snap" \in active /\ faults = 0 => \E q \in Readers : at'[q] # "idle" /\ lv[q] = "snap"
    BY <1>1, <1>2, Constants DEF VerbsInv, SnapDevice, Outside
  <2>2. QED
    BY <1>1, <2>1 DEF SnapDevice
<1>5. VolDevice' /\ ReadersInv' /\ TagsInv'
  BY <1>1, <1>3 DEF VerbsInv, VolDevice, ReadersInv, TagsInv
<1>6. TypeOK'
  BY <1>1, <1>2 DEF TypeOK
<1>7. QED
  BY <1>2, <1>3, <1>4, <1>5, <1>6 DEF VerbsInv

LEMMA ReaderDeactivateStep ==
  ASSUME VerbsInv, NEW r \in Readers, ReaderDeactivate(r) PROVE VerbsInv'
<1>1. /\ at' \in [Workers -> Steps] /\ at'[r] = "idle" /\ at[r] = "deactivate" /\ StepsInv'
      /\ \A u \in Workers : u # r => at'[u] = at[u]
      /\ at'["attach"] = at["attach"] /\ at'["detach"] = at["detach"]
  BY ReaderGoes DEF ReaderDeactivate, Steps
<1>2. /\ faults' \in 0..MaxFaults /\ crashes' \in 0..MaxCrashes /\ (faults' = 0 => faults = 0)
      /\ Fault => faults' # 0
  BY FaultTyped DEF ReaderDeactivate, FailsIf
<1>3. UNCHANGED <<tags, pins, lv, snaps, op, maker>> /\ active' \in {active, active \ {lv[r]}}
  BY DEF ReaderDeactivate, Deactivate
<1>4. \A x \in active' : x \in Names /\ tags'[x] # {}
  BY <1>3, Typed
<1>5. lv[r] = "snap" \/ (lv[r] = "vol" /\ "vol" \in ExportTargets)
  BY VolumesAssumption DEF VerbsInv, ReadersInv, Readers
<1>6. SnapDevice'
  <2>1. ASSUME faults' = 0, "snap" \in active'
        PROVE  \E q \in Readers : at'[q] # "idle" /\ lv[q] = "snap"
    <3>1. PICK q \in Readers : at[q] # "idle" /\ lv[q] = "snap"
      BY <1>2, <1>3, <2>1 DEF VerbsInv, SnapDevice
    <3>2. CASE lv[r] = "vol"
      BY <1>1, <3>1, <3>2, Constants
    <3>3. CASE lv[r] = "snap"
      <4>1. Reading("snap")
        BY <1>2, <2>1, <3>3 DEF ReaderDeactivate, Deactivate, FailsIf
      <4>2. QED
        BY <1>1, <4>1, Constants DEF Reading
    <3>4. QED
      BY <1>5, <3>2, <3>3
  <2>2. QED
    BY <1>3, <2>1 DEF SnapDevice
<1>7. VolDevice' /\ ReadersInv' /\ TagsInv'
  BY <1>1, <1>2, <1>3, <1>5 DEF VerbsInv, VolDevice, ReadersInv, TagsInv
<1>8. PinsInv'
  BY <1>1, <1>3, PinsKept, Constants DEF VerbsInv, Outside
<1>9. TypeOK'
  BY <1>1, <1>2, <1>3, <1>4 DEF VerbsInv, TypeOK
<1>10. QED
  BY <1>1, <1>6, <1>7, <1>8, <1>9 DEF VerbsInv

\* A pin, of a clone or of an export.
LEMMA ReaderPins ==
  ASSUME VerbsInv, NEW r \in Readers, NEW x \in Names, at[r] = "idle",
         Go(r, "check"), Acquire(x), lv' = [lv EXCEPT ![r] = x], ReadersInv',
         op' \in [LongRunning -> Ops],
         UNCHANGED <<tags, active, snaps, maker, faults, crashes>>
  PROVE  VerbsInv'
<1>1. /\ at' \in [Workers -> Steps] /\ at'[r] = "check" /\ StepsInv'
      /\ \A u \in Workers : u # r => at'[u] = at[u]
      /\ at'["attach"] = at["attach"] /\ at'["detach"] = at["detach"]
  BY ReaderGoes DEF Steps
<1>2. PinsInv' /\ pins' \in [Names -> 0..Cardinality(Readers)]
  BY PinAdded DEF VerbsInv
<1>3. lv' \in [Readers -> Names] /\ \A q \in Readers : q # r => lv'[q] = lv[q]
  BY DEF VerbsInv, TypeOK
<1>4. SnapDevice'
  BY <1>1, <1>3, Constants DEF VerbsInv, SnapDevice
<1>5. VolDevice' /\ TagsInv'
  BY <1>1 DEF VerbsInv, VolDevice, TagsInv
<1>6. TypeOK'
  BY <1>1, <1>2, <1>3 DEF VerbsInv, TypeOK, Ops
<1>7. QED
  BY <1>1, <1>2, <1>4, <1>5, <1>6 DEF VerbsInv

LEMMA ExportPinStep ==
  ASSUME VerbsInv, NEW e \in Exports, NEW x \in ExportTargets, ExportPin(e, x) PROVE VerbsInv'
<1>1. /\ e \in Readers /\ e # "clone" /\ x \in Names /\ at[e] = "idle"
      /\ Go(e, "check") /\ Acquire(x) /\ lv' = [lv EXCEPT ![e] = x]
      /\ UNCHANGED <<tags, active, snaps, op, maker, faults, crashes>>
  BY Constants, VolumesAssumption DEF ExportPin, Names, bounds
<1>2. ReadersInv'
  BY <1>1, Constants DEF VerbsInv, TypeOK, ReadersInv
<1>3. QED
  BY <1>1, <1>2, ReaderPins, Typed

LEMMA ClonePinStep ==
  ASSUME VerbsInv, ClonePin PROVE VerbsInv'
<1>1. /\ "clone" \in Readers /\ "snap" \in Names /\ at["clone"] = "idle"
      /\ Go("clone", "check") /\ Acquire("snap") /\ lv' = lv
      /\ UNCHANGED <<tags, active, snaps, maker, faults, crashes>>
  BY Constants DEF ClonePin, MayCall, Names, bounds
<1>2. ReadersInv' /\ lv' = [lv EXCEPT !["clone"] = "snap"]
  BY <1>1 DEF VerbsInv, TypeOK, ReadersInv
<1>3. op' \in [LongRunning -> Ops]
  BY OpTyped DEF ClonePin, LongRunning, Ops
<1>4. QED
  BY <1>1, <1>2, <1>3, ReaderPins

LEMMA ExportCheckStep ==
  ASSUME VerbsInv, NEW e \in Exports, ExportCheck(e) PROVE VerbsInv'
<1>1. /\ at[e] \notin Outside /\ UNCHANGED <<tags, active, pins, lv, snaps, op, maker>>
      /\ (Fault \/ NoFault) /\ (Go(e, "activate") \/ Go(e, "release"))
  BY DEF ExportCheck, FailsIf, Outside
<1>2. TagsInv' /\ e \in Readers
  BY <1>1, Constants DEF VerbsInv, TagsInv
<1>3. GoesOn(e, "activate") \/ GoesOn(e, "release")
  BY <1>1 DEF GoesOn
<1>4. QED
  BY <1>1, <1>2, <1>3, ReaderOn, ReaderMoves, Typed

LEMMA CloneCheckStep ==
  ASSUME VerbsInv, CloneCheck PROVE VerbsInv'
<1>1. /\ at["clone"] \notin Outside /\ UNCHANGED <<tags, active, pins, lv, snaps, maker>>
      /\ (Fault \/ NoFault) /\ (\E l \in {"make", "release"} : Go("clone", l))
      /\ UNCHANGED op \/ Finish("clone", "failed")
  BY DEF CloneCheck, FailsIf, Outside
<1>2. TagsInv' /\ "clone" \in Readers
  BY <1>1, Constants DEF VerbsInv, TagsInv
<1>3. op' \in [LongRunning -> Ops]
  BY <1>1, OpTyped, Typed DEF LongRunning, Ops
<1>4. /\ at' \in [Workers -> Steps] /\ at'["clone"] \notin Outside /\ StepsInv'
      /\ \A u \in Workers : u # "clone" => at'[u] = at[u]
      /\ at'["attach"] = at["attach"] /\ at'["detach"] = at["detach"]
  BY <1>1, <1>2, ReaderGoes DEF Steps, Outside
<1>5. QED
  BY <1>1, <1>2, <1>3, <1>4, ReaderMoves, Typed

LEMMA CloneMakeStep ==
  ASSUME VerbsInv, CloneMake PROVE VerbsInv'
<1>1. /\ at["clone"] \notin Outside /\ UNCHANGED <<pins, lv, snaps>> /\ "clone" \in Readers
      /\ (Fault \/ NoFault) /\ (GoesOn("clone", "activate") \/ Fails("clone"))
      /\ maker' \in {"none", "create", "clone"}
  BY Typed, Constants DEF CloneMake, FailsIf, Outside
<1>2. CASE CreateThin("copy", "creating") /\ active' = active \cup {"copy"}
  <2>1. /\ tags' \in [Names -> SUBSET States] /\ tags'["copy"] = {"creating"}
        /\ tags'["vol"] = tags["vol"] /\ tags'["snap"] = tags["snap"]
    BY <1>2, CreateEffect, Typed DEF Names, States
  <2>2. TagsInv'
    BY <2>1 DEF VerbsInv, TagsInv
  <2>3. \A x \in active' : x \in Names /\ tags'[x] # {}
    BY <1>2, <2>1, Typed DEF Names
  <2>4. QED
    BY <1>1, <1>2, <2>1, <2>2, <2>3, ReaderOn, ReaderMoves
<1>3. CASE UNCHANGED <<tags, active>>
  <2>1. TagsInv'
    BY <1>3 DEF VerbsInv, TagsInv
  <2>2. QED
    BY <1>1, <1>3, <2>1, ReaderOn, ReaderMoves, Typed
<1>4. QED
  BY <1>2, <1>3 DEF CloneMake

LEMMA CloneDeactivateStep ==
  ASSUME VerbsInv, CloneDeactivate PROVE VerbsInv'
<1>1. /\ at["clone"] \notin Outside /\ UNCHANGED <<tags, pins, lv, snaps, maker>>
      /\ (Fault \/ NoFault) /\ (GoesOn("clone", "ready") \/ Fails("clone"))
      /\ active' \in {active, active \ {"copy"}} /\ "clone" \in Readers
  BY Constants DEF CloneDeactivate, Deactivate, FailsIf, Outside
<1>2. TagsInv'
  BY <1>1 DEF VerbsInv, TagsInv
<1>3. /\ "vol" \in active => "vol" \in active'
      /\ \A x \in active' : x \in Names /\ tags'[x] # {}
      /\ "snap" \in active' => "snap" \in active
  BY <1>1, Typed
<1>4. QED
  BY <1>1, <1>2, <1>3, ReaderOn, ReaderMoves, Typed

LEMMA CloneReadyStep ==
  ASSUME VerbsInv, CloneReady PROVE VerbsInv'
<1>1. /\ at["clone"] \notin Outside /\ UNCHANGED <<active, pins, lv, snaps, maker>>
      /\ (Fault \/ NoFault) /\ "clone" \in Readers
  BY Constants DEF CloneReady, FailsIf, Outside
<1>2. CASE /\ Present("copy") /\ Retag("copy", "creating", "ready")
           /\ Finish("clone", "done") /\ Go("clone", "release")
  <2>1. op' \in [LongRunning -> Ops]
    BY <1>2, OpTyped DEF LongRunning, Ops
  <2>2. /\ at' \in [Workers -> Steps] /\ at'["clone"] = "release" /\ StepsInv'
        /\ \A u \in Workers : u # "clone" => at'[u] = at[u]
        /\ at'["attach"] = at["attach"] /\ at'["detach"] = at["detach"]
    BY <1>1, <1>2, ReaderGoes DEF Steps
  <2>3. at'["clone"] \notin Outside
    BY <2>2 DEF Outside
  <2>4. QED
    BY <1>1, <1>2, <2>1, <2>2, <2>3, ReadyEffect, ReaderMoves, Typed
<1>3. CASE Fails("clone") /\ UNCHANGED tags
  <2>1. TagsInv'
    BY <1>3 DEF VerbsInv, TagsInv
  <2>2. QED
    BY <1>1, <1>3, <2>1, ReaderOn, ReaderMoves, Typed
<1>4. QED
  BY <1>2, <1>3 DEF CloneReady

LEMMA CloneCleanupStep ==
  ASSUME VerbsInv, CloneCleanup PROVE VerbsInv'
<1>1. /\ at["clone"] \notin Outside /\ UNCHANGED <<pins, lv, snaps, op, maker>>
      /\ (Fault \/ NoFault) /\ GoesOn("clone", "release") /\ "clone" \in Readers
      /\ Remove("copy") \/ UNCHANGED <<tags, active>>
  BY Constants DEF CloneCleanup, GoesOn, FailsIf, Outside
<1>2. /\ tags' \in [Names -> SUBSET States] /\ TagsInv'
      /\ tags'["vol"] = tags["vol"] /\ ("vol" \in active => "vol" \in active')
      /\ \A y \in active' : y \in active /\ tags'[y] # {}
  BY <1>1, RemovesOther
<1>3. QED
  BY <1>1, <1>2, ReaderOn, ReaderMoves, Typed

-----------------------------------------------------------------------------
\* The crash, and the invariant.

LEMMA CrashStep ==
  ASSUME VerbsInv, NEW reboot \in BOOLEAN, NEW failed \in SUBSET Names, Crash(reboot, failed)
  PROVE  VerbsInv'
<1>1. /\ tags' = [x \in Names |-> Recovered(x, failed)] /\ pins' = [x \in Names |-> 0]
      /\ at' = [w \in Workers |-> "idle"] /\ op' = [w \in LongRunning |-> "none"]
      /\ UNCHANGED <<lv, snaps, maker>>
      /\ faults' \in 0..MaxFaults /\ crashes' \in 0..MaxCrashes
      /\ faults' = 0 => failed = {}
  BY VolumesAssumption DEF Crash, VerbsInv, TypeOK
<1>2. /\ \A x \in Names : tags'[x] \in {tags[x], {}}
      /\ tags' \in [Names -> SUBSET States]
  BY <1>1 DEF Recovered, VerbsInv, TypeOK
<1>3. \A w \in Workers : at'[w] = "idle"
  BY <1>1
<1>4. /\ at'["attach"] = "idle" /\ at'["detach"] = "idle" /\ at'["csnap"] = "idle"
      /\ at'["dsnap"] = "idle" /\ at'["delete"] = "idle" /\ at'["create"] = "idle"
      /\ at'["clone"] = "idle" /\ \A r \in Readers : at'[r] = "idle"
  BY <1>3, Constants DEF Workers, Verbs
<1>5. StepsInv'
  BY <1>3, <1>4, Constants DEF StepsInv
<1>6. TagsInv' /\ ReadersInv'
  BY <1>1, <1>2 DEF VerbsInv, TagsInv, ReadersInv, Names
<1>7. PinsInv'
  <2>1. \A x \in Names : Holding(x)' = {}
    BY <1>4 DEF Holding
  <2>2. QED
    BY <1>1, <2>1, FS_EmptySet DEF PinsInv
<1>8. \A x \in active' : x \in Names /\ tags'[x] # {}
  BY DEF Crash
<1>9. VolDevice' /\ SnapDevice'
  <2>1. ASSUME faults' = 0, tags'["vol"] = {"attached"} PROVE "vol" \in active'
    BY <1>1, <1>2, <2>1 DEF Crash, Names
  <2>2. ASSUME faults' = 0, "snap" \in active' PROVE FALSE
    <3>1. tags'["snap"] # {} /\ ("snapshot" \notin tags["snap"] \/ "attached" \in tags["snap"])
      BY <1>1, <2>2 DEF Crash
    <3>2. tags["snap"] = {"deleting"}
      BY <1>2, <3>1 DEF VerbsInv, TagsInv, Names
    <3>3. QED
      BY <1>1, <2>2, <3>1, <3>2 DEF Recovered, Names
  <2>3. QED
    BY <2>1, <2>2 DEF VolDevice, SnapDevice
<1>10. TypeOK'
  <2>1. pins' \in [Names -> 0..Cardinality(Readers)]
    BY <1>1, SomeReaders
  <2>2. at' \in [Workers -> Steps] /\ op' \in [LongRunning -> {"none", "pending", "done", "failed"}]
    BY <1>1 DEF Steps
  <2>3. QED
    BY <1>1, <1>2, <1>8, <2>1, <2>2 DEF VerbsInv, TypeOK
<1>11. QED
  BY <1>5, <1>6, <1>7, <1>9, <1>10 DEF VerbsInv

LEMMA VerbsInvInit == Init => VerbsInv
<1>1. SUFFICES ASSUME Init PROVE VerbsInv
  OBVIOUS
<1>2. /\ \A w \in Workers : at[w] = "idle"
      /\ \A r \in Readers : at[r] = "idle" /\ lv[r] = "snap"
      /\ active = {} /\ \A x \in Names : pins[x] = 0
  BY <1>1, Constants DEF Init
<1>3. PICK v \in {"ready", "retired"}, s \in {{}, {"snapshot"}} :
        tags = [x \in Names |-> IF x = "vol" THEN {v} ELSE IF x = "snap" THEN s ELSE {}]
  BY <1>1 DEF Init
<1>4. /\ tags["vol"] = {v} /\ tags["snap"] = s /\ tags["copy"] = {}
      /\ tags \in [Names -> SUBSET States]
  BY <1>3 DEF Names, States
<1>5. /\ at["attach"] = "idle" /\ at["detach"] = "idle" /\ at["csnap"] = "idle"
      /\ at["dsnap"] = "idle" /\ at["delete"] = "idle" /\ at["create"] = "idle"
      /\ at["clone"] = "idle"
  BY <1>2 DEF Workers, Verbs
<1>6. StepsInv /\ ReadersInv
  BY <1>2, <1>5, Constants DEF StepsInv, ReadersInv
<1>7. TagsInv /\ VolDevice /\ SnapDevice
  BY <1>2, <1>4 DEF TagsInv, VolStates, VolDevice, SnapDevice
<1>8. PinsInv
  <2>1. \A x \in Names : Holding(x) = {}
    BY <1>2 DEF Holding
  <2>2. QED
    BY <1>2, <2>1, FS_EmptySet DEF PinsInv
<1>9. TypeOK
  <2>1. active = {} /\ lv \in [Readers -> Names]
    BY <1>1 DEF Init, Names
  <2>2. at \in [Workers -> Steps] /\ op \in [LongRunning -> {"none", "pending", "done", "failed"}]
    BY <1>1 DEF Init, Steps
  <2>3. pins \in [Names -> 0..Cardinality(Readers)]
    BY <1>1, SomeReaders DEF Init
  <2>4. maker \in {"none", "create", "clone"} /\ faults \in 0..MaxFaults /\ crashes \in 0..MaxCrashes
    BY <1>1, VolumesAssumption DEF Init
  <2>5. snaps \in BOOLEAN
    BY <1>1, Zenon DEF Init
  <2>6. QED
    BY <1>4, <2>1, <2>2, <2>3, <2>4, <2>5 DEF TypeOK
<1>10. QED
  BY <1>6, <1>7, <1>8, <1>9 DEF VerbsInv

LEMMA VerbsInvStutter == VerbsInv /\ UNCHANGED vars => VerbsInv'
<1>1. SUFFICES ASSUME VerbsInv, UNCHANGED vars PROVE VerbsInv'
  OBVIOUS
<1>2. UNCHANGED <<tags, active, pins, at, lv, snaps, op, maker, faults, crashes>>
  BY <1>1 DEF vars
<1>3. TypeOK' /\ StepsInv' /\ ReadersInv' /\ TagsInv'
  BY <1>1, <1>2 DEF VerbsInv, TypeOK, StepsInv, ReadersInv, TagsInv
<1>4. VolDevice' /\ SnapDevice'
  BY <1>1, <1>2 DEF VerbsInv, VolDevice, SnapDevice
<1>5. PinsInv'
  BY <1>1, <1>2, PinsKept DEF VerbsInv
<1>6. QED
  BY <1>3, <1>4, <1>5 DEF VerbsInv

LEMMA VerbsInvStep == VerbsInv /\ [Next]_vars => VerbsInv'
<1>1. SUFFICES ASSUME VerbsInv, [Next]_vars PROVE VerbsInv'
  OBVIOUS
<1>2. CASE AttachDetach
  BY <1>1, <1>2, AttachCheckStep, AttachTagStep, AttachActivateStep, DetachCheckStep,
     DetachDeactivateStep, DetachTagStep DEF AttachDetach
<1>3. CASE SnapshotVerbs
  BY <1>1, <1>3, SnapshotCheckStep, SnapshotMakeStep, DeleteSnapshotCheckStep,
     DeleteSnapshotRemoveStep DEF SnapshotVerbs
<1>4. CASE DeleteSteps \/ \E force \in BOOLEAN : DeleteCheck(force)
  BY <1>1, <1>4, DeleteCheckStep, DeleteMarkSnapStep, DeleteMarkVolStep, DeleteRemoveSnapStep,
     DeleteRemoveVolStep DEF DeleteSteps
<1>5. CASE CreateCheck \/ CreateSteps
  BY <1>1, <1>5, CreateCheckStep, CreateMakeStep, CreateReadyStep DEF CreateSteps
<1>6. ASSUME NEW r \in Readers, ReaderSteps(r) PROVE VerbsInv'
  BY <1>1, <1>6, ReaderActivateStep, ReaderOpenStep, ReaderEndsStep, ReaderReleaseStep,
     ReaderDeactivateStep DEF ReaderSteps
<1>7. CASE ClonePin \/ CloneSteps
  BY <1>1, <1>6, <1>7, Constants, ClonePinStep, CloneCheckStep, CloneMakeStep, CloneDeactivateStep,
     CloneReadyStep, CloneCleanupStep DEF CloneSteps
<1>8. ASSUME NEW e \in Exports, ExportSteps(e) \/ \E x \in ExportTargets : ExportPin(e, x)
      PROVE  VerbsInv'
  BY <1>1, <1>6, <1>8, Constants, ExportPinStep, ExportCheckStep DEF ExportSteps
<1>9. ASSUME NEW reboot \in BOOLEAN, NEW failed \in SUBSET Names, Crash(reboot, failed)
      PROVE  VerbsInv'
  BY <1>1, <1>9, CrashStep
<1>10. CASE UNCHANGED vars
  BY <1>1, <1>10, VerbsInvStutter
<1>11. QED
  BY <1>1, <1>2, <1>3, <1>4, <1>5, <1>7, <1>8, <1>9, <1>10 DEF Next

\* Whatever callers do: handlers are at their own steps, the pins count the
\* readers, and the devices follow the handlers.
THEOREM VerbsInvariant == Spec => []VerbsInv
<1>1. VerbsInv /\ [Next]_vars => VerbsInv'
  BY VerbsInvStep
<1>2. QED
  BY <1>1, VerbsInvInit, PTL DEF Spec

\* Type correctness, whatever callers do.
THEOREM VolumesTyped == Spec => []TypeOK
<1>1. VerbsInv => TypeOK
  BY DEF VerbsInv
<1>2. QED
  BY <1>1, VerbsInvariant, PTL

\* Without a failed command, the device of a snapshot is gone when its last
\* reader is: the release that brings the pins to zero deactivates it, whatever
\* exports, clones, deletes and crashes overlap.
THEOREM SnapshotsComeToRest == Spec => []SnapshotsRest
<1>1. VerbsInv => SnapshotsRest
  BY DEF VerbsInv, SnapDevice, SnapshotsRest
<1>2. QED
  BY <1>1, VerbsInvariant, PTL

\* An attached volume has its device, whatever verbs race, unless a caller
\* exports the volume itself: the release of that refused export deactivates it.
THEOREM AttachedIsActive ==
  ASSUME "vol" \notin ExportTargets PROVE Spec => []AttachedActive
<1>1. VerbsInv => AttachedActive
  BY DEF VerbsInv, VolDevice, AttachedActive
<1>2. QED
  BY <1>1, VerbsInvariant, PTL

-----------------------------------------------------------------------------
\* Callers that wait for answers: one verb at a time.

\* An answered verb is idle, or a clone behind its answer.
LEMMA CallAlone ==
  ASSUME CallsInv, Callers # "racing", NEW v \in Verbs, MayCall(v)
  PROVE  at[v] = "idle" /\ \A w \in Verbs : Resting(w)
<1>1. SUFFICES ASSUME NEW w \in Verbs PROVE Resting(w)
  BY DEF MayCall
<1>2. at[w] = "idle" \/ (w \in LongRunning /\ op[w] # "pending")
  BY <1>1 DEF MayCall, Answered
<1>3. at[w] = "idle" \/ (w \in LongRunning /\ at[w] \in Behind)
  BY <1>2 DEF CallsInv, PendingInv
<1>4. at["delete"] \notin Behind /\ at["create"] \notin Behind
  BY DEF CallsInv, VerbsInv, StepsInv, Behind
<1>5. QED
  BY <1>3, <1>4 DEF Resting, LongRunning

\* A verb starts when all others rest, runs while they do, or comes to rest.
LEMMA VerbRuns ==
  ASSUME VerbsInv, OneVerb, NEW v \in Verbs, NEW l \in Steps, Go(v, l),
         \/ \A w \in Verbs : Resting(w)
         \/ ~Resting(v)
         \/ l = "idle" \/ (v = "clone" /\ l \in Behind)
  PROVE  OneVerb'
<1>1. v \in Workers /\ Verbs \subseteq Workers
  BY Constants
<1>2. at'[v] = l /\ \A w \in Verbs : w # v => at'[w] = at[w]
  BY <1>1, GoEffect DEF VerbsInv
<1>3. \A w \in Verbs : w # v => (Resting(w)' <=> Resting(w))
  BY <1>2 DEF Resting
<1>4. CASE l = "idle" \/ (v = "clone" /\ l \in Behind)
  <2>1. Resting(v)'
    BY <1>2, <1>4 DEF Resting
  <2>2. QED
    BY <1>3, <2>1 DEF OneVerb
<1>5. CASE \A w \in Verbs : Resting(w)
  BY <1>3, <1>5 DEF OneVerb
<1>6. CASE ~Resting(v)
  BY <1>3, <1>6 DEF OneVerb
<1>7. QED
  BY <1>4, <1>5, <1>6

\* The verbs that have not called: their first step.
LEMMA CallsOne ==
  ASSUME CallsInv, Callers # "racing",
         \/ AttachCheck \/ DetachCheck \/ SnapshotCheck \/ DeleteSnapshotCheck
         \/ CreateCheck \/ ClonePin \/ \E force \in BOOLEAN : DeleteCheck(force)
  PROVE  OneVerb'
<1>1. VerbsInv /\ OneVerb
  BY DEF CallsInv
<1>2. CASE \E v \in Verbs, l \in Steps : MayCall(v) /\ Go(v, l)
  <2>1. PICK v \in Verbs, l \in Steps : MayCall(v) /\ Go(v, l)
    BY <1>2
  <2>2. \A w \in Verbs : Resting(w)
    BY <2>1, CallAlone
  <2>3. QED
    BY <1>1, <2>1, <2>2, VerbRuns
<1>3. CASE UNCHANGED at
  BY <1>1, <1>3 DEF OneVerb, Resting
<1>4. CASE AttachCheck \/ DetachCheck \/ SnapshotCheck \/ DeleteSnapshotCheck
  BY <1>2, <1>4 DEF AttachCheck, DetachCheck, SnapshotCheck, DeleteSnapshotCheck, Verbs, Steps
<1>5. CASE CreateCheck \/ ClonePin
  BY <1>2, <1>5 DEF CreateCheck, ClonePin, Verbs, Steps
<1>6. ASSUME NEW force \in BOOLEAN, DeleteCheck(force) PROVE OneVerb'
  <2>1. /\ MayCall("delete") /\ "delete" \in Verbs /\ {"markSnap", "markVol"} \subseteq Steps
        /\ UNCHANGED at \/ \E l \in {"markSnap", "markVol"} : Go("delete", l)
    BY <1>6 DEF DeleteCheck, Verbs, Steps
  <2>2. QED
    BY <1>2, <1>3, <2>1
<1>7. QED
  BY <1>4, <1>5, <1>6

\* A handler under way is alone, or comes to rest.
LEMMA OthersOne ==
  ASSUME VerbsInv, OneVerb,
         \/ AttachTag \/ AttachActivate \/ DetachDeactivate \/ DetachTag
         \/ SnapshotMake \/ DeleteSnapshotRemove \/ DeleteSteps \/ CreateSteps
  PROVE  OneVerb'
<1>1. ASSUME NEW v \in OtherVerbs, NEW l \in Steps, at[v] # "idle", Go(v, l) PROVE OneVerb'
  <2>1. v \in Verbs /\ ~Resting(v)
    BY <1>1 DEF Resting, OtherVerbs
  <2>2. QED
    BY <1>1, <2>1, VerbRuns
<1>2. /\ OtherVerbs = {"attach", "detach", "csnap", "dsnap", "delete", "create"}
      /\ {"idle", "activate", "tag", "markVol", "removeSnap", "remove", "ready"} \subseteq Steps
  BY DEF OtherVerbs, Verbs, Steps
<1>3. CASE AttachTag \/ AttachActivate \/ DetachDeactivate \/ DetachTag
  BY <1>1, <1>2, <1>3 DEF AttachTag, AttachActivate, DetachDeactivate, DetachTag
<1>4. CASE SnapshotMake \/ DeleteSnapshotRemove
  BY <1>1, <1>2, <1>4 DEF SnapshotMake, DeleteSnapshotRemove
<1>5. CASE DeleteSteps
  <2>1. /\ at["delete"] # "idle"
        /\ \E l \in {"idle", "markVol", "removeSnap", "remove"} : Go("delete", l)
    BY <1>5 DEF DeleteSteps, DeleteMarkSnap, DeleteMarkVol, DeleteMark, DeleteRemoveSnap,
       DeleteRemoveVol
  <2>2. QED
    BY <1>1, <1>2, <2>1
<1>6. CASE CreateSteps
  BY <1>1, <1>2, <1>6 DEF CreateSteps, CreateMake, CreateReady
<1>7. QED
  BY <1>3, <1>4, <1>5, <1>6

LEMMA CloneOne ==
  ASSUME VerbsInv, OneVerb, CloneSteps
  PROVE  OneVerb'
<1>1. "clone" \in Verbs /\ Behind \subseteq Steps /\ "idle" \in Steps
  BY DEF Verbs, Behind, Steps
<1>2. ASSUME at["clone"] \notin Behind, at["clone"] # "idle", NEW l \in Steps, Go("clone", l)
      PROVE  OneVerb'
  <2>1. ~Resting("clone")
    BY <1>2 DEF Resting
  <2>2. QED
    BY <1>1, <1>2, <2>1, VerbRuns
<1>3. CASE CloneCheck \/ CloneMake \/ CloneDeactivate \/ CloneReady
  <2>1. /\ at["clone"] \notin Behind /\ at["clone"] # "idle"
        /\ \E l \in {"make", "release", "activate", "cleanup", "ready"} : Go("clone", l)
    BY <1>3 DEF CloneCheck, CloneMake, CloneDeactivate, CloneReady, Fails, GoesOn, Behind
  <2>2. QED
    BY <1>2, <2>1 DEF Steps
<1>4. CASE ReaderActivate("clone") \/ ReaderOpen("clone") \/ ReaderEnds("clone")
  <2>1. /\ at["clone"] \notin Behind /\ at["clone"] # "idle"
        /\ \E l \in {"open", "read", "close", "cleanup"} : Go("clone", l)
    BY <1>4 DEF ReaderActivate, ReaderOpen, ReaderEnds, Fails, GoesOn, Behind
  <2>2. QED
    BY <1>2, <2>1 DEF Steps
<1>5. CASE CloneCleanup \/ ReaderRelease("clone") \/ ReaderDeactivate("clone")
  <2>1. \E l \in {"idle"} \cup Behind : Go("clone", l)
    BY <1>5 DEF CloneCleanup, ReaderRelease, ReaderDeactivate, Behind
  <2>2. QED
    BY <1>1, <2>1, VerbRuns
<1>6. QED
  BY <1>3, <1>4, <1>5 DEF CloneSteps, ReaderSteps

\* Exports are no verbs; a crash ends all.
LEMMA ExportsApart ==
  ASSUME VerbsInv, NEW e \in Exports, ExportSteps(e) \/ \E x \in ExportTargets : ExportPin(e, x)
  PROVE  (\A v \in Verbs : at'[v] = at[v]) /\ UNCHANGED tags
<1>1. e \in Workers /\ e \notin Verbs /\ e # "clone" /\ Verbs \subseteq Workers
  BY Constants, VolumesAssumption DEF Workers, Verbs
<1>2. \E l \in Steps : Go(e, l)
  BY <1>1 DEF ExportSteps, ExportPin, ExportCheck, ReaderSteps, ReaderActivate, ReaderOpen,
     ReaderEnds, ReaderRelease, ReaderDeactivate, Fails, GoesOn, Steps
<1>3. \A v \in Verbs : at'[v] = at[v]
  BY <1>1, <1>2, GoEffect DEF VerbsInv
<1>4. UNCHANGED tags
  BY DEF ExportSteps, ExportPin, ExportCheck, ReaderSteps, ReaderActivate, ReaderOpen,
     ReaderEnds, ReaderRelease, ReaderDeactivate, Activate, Deactivate
<1>5. QED
  BY <1>3, <1>4

LEMMA OneVerbStep ==
  ASSUME CallsInv, Callers # "racing", [Next]_vars PROVE OneVerb'
<1>1. VerbsInv /\ OneVerb
  BY DEF CallsInv
<1>2. ASSUME NEW e \in Exports, ExportSteps(e) \/ \E x \in ExportTargets : ExportPin(e, x)
      PROVE  OneVerb'
  <2>1. \A v \in Verbs : at'[v] = at[v]
    BY <1>1, <1>2, ExportsApart
  <2>2. QED
    BY <1>1, <2>1 DEF OneVerb, Resting
<1>3. ASSUME NEW reboot \in BOOLEAN, NEW failed \in SUBSET Names, Crash(reboot, failed)
      PROVE  OneVerb'
  <2>1. \A v \in Verbs : at'[v] = "idle"
    BY <1>3, Constants DEF Crash
  <2>2. QED
    BY <2>1 DEF OneVerb, Resting
<1>4. CASE UNCHANGED vars
  BY <1>1, <1>4 DEF vars, OneVerb, Resting
<1>5. QED
  BY <1>1, <1>2, <1>3, <1>4, CallsOne, OthersOne, CloneOne DEF Next, AttachDetach, SnapshotVerbs

\* A delete in flight meets no new snapshot.
LEMMA MarkedKept ==
  ASSUME MarkedInv, at'["delete"] \in {at["delete"], "idle"}, tags'["snap"] \in {tags["snap"], {}}
  PROVE  MarkedInv'
  BY DEF MarkedInv

LEMMA DeleteUntouched ==
  ASSUME VerbsInv, NEW w \in Workers, w # "delete", NEW l \in Steps, Go(w, l)
  PROVE  at'["delete"] = at["delete"]
<1>1. "delete" \in Workers
  BY DEF Workers, Verbs
<1>2. QED
  BY <1>1, GoEffect DEF VerbsInv

LEMMA VerbsMark ==
  ASSUME VerbsInv, OneVerb, MarkedInv, AttachDetach \/ SnapshotVerbs \/ CreateCheck \/ CreateSteps
  PROVE  MarkedInv'
<1>1. TypeOK /\ {"vol", "snap", "copy"} \subseteq Names
      /\ {"ready", "attached", "creating", "snapshot"} \subseteq States
  BY DEF VerbsInv, Names, States
<1>2. at'["delete"] = at["delete"]
  <2>1. \E w \in {"attach", "detach", "csnap", "dsnap", "create"}, l \in Steps : Go(w, l)
    BY DEF AttachDetach, AttachCheck, AttachTag, AttachActivate, DetachCheck, DetachDeactivate,
       DetachTag, SnapshotVerbs, SnapshotCheck, SnapshotMake, DeleteSnapshotCheck,
       DeleteSnapshotRemove, CreateCheck, CreateSteps, CreateMake, CreateReady, Steps
  <2>2. {"attach", "detach", "csnap", "dsnap", "create"} \subseteq Workers
    BY DEF Workers, Verbs
  <2>3. QED
    BY <2>1, <2>2, DeleteUntouched
<1>3. CASE SnapshotMake
  <2>1. ~Resting("csnap") /\ "csnap" \in Verbs /\ "delete" \in Verbs
    BY <1>3 DEF SnapshotMake, Resting, Verbs
  <2>2. at["delete"] = "idle"
    BY <2>1 DEF OneVerb, Resting
  <2>3. QED
    BY <1>2, <2>2 DEF MarkedInv
<1>4. CASE AttachDetach
  <2>1. \/ Retag("vol", "ready", "attached") \/ Retag("vol", "attached", "ready")
        \/ UNCHANGED tags
    BY <1>4
       DEF AttachDetach, AttachCheck, AttachTag, AttachActivate, DetachCheck, DetachDeactivate,
           DetachTag, Activate, Deactivate
  <2>2. CASE Retag("vol", "ready", "attached")
    <3>1. tags'["snap"] = tags["snap"]
      BY <1>1, <2>2, RetagEffect
    <3>2. QED
      BY <1>2, <3>1, MarkedKept
  <2>3. CASE Retag("vol", "attached", "ready")
    <3>1. tags'["snap"] = tags["snap"]
      BY <1>1, <2>3, RetagEffect
    <3>2. QED
      BY <1>2, <3>1, MarkedKept
  <2>4. QED
    BY <1>2, <2>1, <2>2, <2>3, MarkedKept
<1>5. CASE SnapshotCheck \/ DeleteSnapshotCheck \/ DeleteSnapshotRemove \/ CreateCheck
  <2>1. tags'["snap"] \in {tags["snap"], {}}
    BY <1>1, <1>5, RemoveEffect
       DEF SnapshotCheck, DeleteSnapshotCheck, DeleteSnapshotRemove, CreateCheck
  <2>2. QED
    BY <1>2, <2>1, MarkedKept
<1>6. CASE CreateSteps
  <2>1. CreateThin("copy", "creating") \/ Retag("copy", "creating", "ready") \/ UNCHANGED tags
    BY <1>6 DEF CreateSteps, CreateMake, CreateReady
  <2>2. tags'["snap"] = tags["snap"]
    BY <1>1, <2>1, RetagEffect, CreateEffect
  <2>3. QED
    BY <1>2, <2>2, MarkedKept
<1>7. QED
  BY <1>3, <1>4, <1>5, <1>6 DEF SnapshotVerbs

LEMMA CloneMark ==
  ASSUME VerbsInv, MarkedInv, ClonePin \/ CloneSteps
  PROVE  MarkedInv'
<1>1. TypeOK /\ "snap" \in Names /\ "copy" \in Names /\ {"ready", "creating"} \subseteq States
  BY DEF VerbsInv, Names, States
<1>2. at'["delete"] = at["delete"]
  <2>1. \E l \in Steps : Go("clone", l)
    BY DEF ClonePin, CloneSteps, CloneCheck, CloneMake, CloneDeactivate, CloneReady, CloneCleanup,
       ReaderSteps, ReaderActivate, ReaderOpen, ReaderEnds, ReaderRelease, ReaderDeactivate,
       Fails, GoesOn, Steps
  <2>2. "clone" \in Workers
    BY Constants
  <2>3. QED
    BY <2>1, <2>2, DeleteUntouched
<1>3. CASE ClonePin \/ CloneCheck \/ CloneDeactivate \/ ReaderSteps("clone")
  <2>1. UNCHANGED tags
    BY <1>3 DEF ClonePin, CloneCheck, CloneDeactivate, ReaderSteps, ReaderActivate, ReaderOpen,
       ReaderEnds, ReaderRelease, ReaderDeactivate, Activate, Deactivate
  <2>2. QED
    BY <1>2, <2>1, MarkedKept
<1>4. CASE CloneMake \/ CloneReady \/ CloneCleanup
  <2>1. \/ CreateThin("copy", "creating") \/ Retag("copy", "creating", "ready")
        \/ Remove("copy") \/ UNCHANGED tags
    BY <1>4 DEF CloneMake, CloneReady, CloneCleanup
  <2>2. CASE CreateThin("copy", "creating")
    <3>1. tags'["snap"] = tags["snap"]
      BY <1>1, <2>2, CreateEffect
    <3>2. QED
      BY <1>2, <3>1, MarkedKept
  <2>3. CASE Retag("copy", "creating", "ready")
    <3>1. tags'["snap"] = tags["snap"]
      BY <1>1, <2>3, RetagEffect
    <3>2. QED
      BY <1>2, <3>1, MarkedKept
  <2>4. CASE Remove("copy")
    <3>1. tags'["snap"] = tags["snap"]
      BY <1>1, <2>4, RemoveEffect
    <3>2. QED
      BY <1>2, <3>1, MarkedKept
  <2>5. QED
    BY <1>2, <2>1, <2>2, <2>3, <2>4, MarkedKept
<1>5. QED
  BY <1>3, <1>4 DEF CloneSteps

LEMMA DeleteMarks ==
  ASSUME VerbsInv, MarkedInv, DeleteSteps \/ \E force \in BOOLEAN : DeleteCheck(force)
  PROVE  MarkedInv'
<1>1. /\ TypeOK /\ "snap" \in Names /\ "vol" \in Names /\ FoundState \in States
      /\ {"snapshot", "deleting"} \subseteq States /\ "delete" \in Workers
      /\ {"idle", "markSnap", "markVol", "removeSnap", "remove"} \subseteq Steps
  BY DEF VerbsInv, Names, States, FoundState, Workers, Verbs, Steps
<1>2. ASSUME NEW force \in BOOLEAN, DeleteCheck(force) PROVE MarkedInv'
  <2>1. CASE UNCHANGED at
    BY <1>2, <2>1, MarkedKept DEF DeleteCheck
  <2>2. CASE Go("delete", IF snaps' THEN "markSnap" ELSE "markVol")
    <3>1. CASE "snapshot" \in tags["snap"]
      <4>1. Go("delete", "markSnap")
        BY <1>2, <2>2, <3>1 DEF DeleteCheck, CanBe
      <4>2. at'["delete"] = "markSnap"
        BY <1>1, <4>1, GoEffect
      <4>3. QED
        BY <4>2 DEF MarkedInv
    <3>2. CASE "snapshot" \notin tags["snap"]
      BY <1>2, <3>2 DEF DeleteCheck, MarkedInv
    <3>3. QED
      BY <3>1, <3>2
  <2>3. QED
    BY <1>2, <2>1, <2>2 DEF DeleteCheck
<1>3. CASE DeleteMarkSnap
  <2>1. CASE Present("snap") /\ Retag("snap", "snapshot", "deleting")
    <3>1. tags'["snap"] = (tags["snap"] \ {"snapshot"}) \cup {"deleting"}
      BY <1>1, <2>1, RetagEffect
    <3>2. QED
      BY <3>1 DEF MarkedInv
  <2>2. CASE Go("delete", "idle")
    <3>1. at'["delete"] = "idle"
      BY <1>1, <2>2, GoEffect
    <3>2. QED
      BY <3>1 DEF MarkedInv
  <2>3. QED
    BY <1>3, <2>1, <2>2 DEF DeleteMarkSnap, DeleteMark
<1>4. CASE DeleteMarkVol \/ DeleteRemoveSnap \/ DeleteRemoveVol
  <2>1. tags["snap"] # {"snapshot"}
    BY <1>4 DEF DeleteMarkVol, DeleteMark, DeleteRemoveSnap, DeleteRemoveVol, MarkedInv
  <2>2. tags'["snap"] \in {tags["snap"], {}}
    BY <1>1, <1>4, RetagEffect, RemoveEffect
       DEF DeleteMarkVol, DeleteMark, DeleteRemoveSnap, DeleteRemoveVol
  <2>3. QED
    BY <2>1, <2>2 DEF MarkedInv
<1>5. QED
  BY <1>2, <1>3, <1>4 DEF DeleteSteps

LEMMA MarkedStep ==
  ASSUME VerbsInv, OneVerb, MarkedInv, [Next]_vars PROVE MarkedInv'
<1>1. ASSUME NEW e \in Exports, ExportSteps(e) \/ \E x \in ExportTargets : ExportPin(e, x)
      PROVE  MarkedInv'
  <2>1. at'["delete"] = at["delete"] /\ UNCHANGED tags
    BY <1>1, ExportsApart DEF Verbs
  <2>2. QED
    BY <2>1, MarkedKept
<1>2. ASSUME NEW reboot \in BOOLEAN, NEW failed \in SUBSET Names, Crash(reboot, failed)
      PROVE  MarkedInv'
  <2>1. at'["delete"] = "idle"
    BY <1>2 DEF Crash, Workers, Verbs
  <2>2. QED
    BY <2>1 DEF MarkedInv
<1>3. CASE UNCHANGED vars
  BY <1>3 DEF vars, MarkedInv
<1>4. QED
  BY <1>1, <1>2, <1>3, VerbsMark, CloneMark, DeleteMarks DEF Next

\* A long-running verb w that ends, answers, or goes on unanswered.
LEMMA PendingKept ==
  ASSUME TypeOK, PendingInv, NEW w \in LongRunning, NEW l \in Steps, Go(w, l),
         \/ l = "idle" \/ l \in Behind
         \/ UNCHANGED op /\ at[w] # "idle" /\ at[w] \notin Behind
         \/ Finish(w, "pending"),
         UNCHANGED op \/ \E o \in {"none", "pending", "done", "failed"} : Finish(w, o)
  PROVE  PendingInv'
<1>1. w \in Workers /\ LongRunning \subseteq Workers
  BY DEF LongRunning, Workers, Verbs
<1>2. \A u \in LongRunning : at'[u] = IF u = w THEN l ELSE at[u]
  BY <1>1, GoEffect
<1>3. \A u \in LongRunning : u # w => op'[u] = op[u]
  BY FinishEffect
<1>4. \/ l = "idle" \/ l \in Behind \/ op'[w] = "pending"
  BY FinishEffect DEF PendingInv
<1>5. QED
  BY <1>2, <1>3, <1>4 DEF PendingInv

\* The steps of everything but a long-running verb.
LEMMA OthersPending ==
  ASSUME TypeOK, PendingInv, NEW w \in Workers \ LongRunning, NEW l \in Steps, Go(w, l),
         UNCHANGED op
  PROVE  PendingInv'
<1>1. LongRunning \subseteq Workers
  BY DEF LongRunning, Workers, Verbs
<1>2. \A u \in LongRunning : at'[u] = at[u]
  BY <1>1, GoEffect
<1>3. QED
  BY <1>2 DEF PendingInv

LEMMA VerbsPending ==
  ASSUME TypeOK, PendingInv,
         \/ AttachDetach \/ SnapshotVerbs \/ (\E force \in BOOLEAN : DeleteCheck(force))
         \/ DeleteSteps \/ CreateCheck \/ CreateSteps
  PROVE  PendingInv'
<1>1. CASE AttachDetach \/ SnapshotVerbs
  <2>1. UNCHANGED op
    BY <1>1 DEF AttachDetach, AttachCheck, AttachTag, AttachActivate, DetachCheck, DetachDeactivate,
       DetachTag, SnapshotVerbs, SnapshotCheck, SnapshotMake, DeleteSnapshotCheck,
       DeleteSnapshotRemove
  <2>2. \E w \in {"attach", "detach", "csnap", "dsnap"}, l \in Steps : Go(w, l)
    BY <1>1 DEF AttachDetach, AttachCheck, AttachTag, AttachActivate, DetachCheck, DetachDeactivate,
       DetachTag, SnapshotVerbs, SnapshotCheck, SnapshotMake, DeleteSnapshotCheck,
       DeleteSnapshotRemove, Steps
  <2>3. {"attach", "detach", "csnap", "dsnap"} \subseteq Workers \ LongRunning
    BY DEF Workers, Verbs, LongRunning
  <2>4. QED
    BY <2>1, <2>2, <2>3, OthersPending
<1>2. ASSUME NEW force \in BOOLEAN, DeleteCheck(force) PROVE PendingInv'
  <2>1. at["delete"] = "idle" /\ "delete" \in LongRunning
    BY <1>2 DEF DeleteCheck, MayCall, LongRunning
  <2>2. CASE Finish("delete", "failed") /\ UNCHANGED at
    BY <2>1, <2>2, FinishEffect DEF PendingInv
  <2>3. CASE Finish("delete", "pending") /\ \E l \in {"markSnap", "markVol"} : Go("delete", l)
    BY <2>1, <2>3, PendingKept DEF Steps
  <2>4. QED
    BY <1>2, <2>2, <2>3 DEF DeleteCheck
<1>3. CASE DeleteMarkSnap \/ DeleteMarkVol
  <2>1. PICK then \in {"markVol", "removeSnap", "remove"} :
          /\ \/ Go("delete", then) /\ UNCHANGED op
             \/ Go("delete", "idle") /\ Finish("delete", "failed")
          /\ at["delete"] \in {"markSnap", "markVol"}
    BY <1>3 DEF DeleteMarkSnap, DeleteMarkVol, DeleteMark
  <2>2. /\ "delete" \in LongRunning /\ then \in Steps /\ "idle" \in Steps
        /\ at["delete"] # "idle" /\ at["delete"] \notin Behind
    BY <2>1 DEF LongRunning, Steps, Behind
  <2>3. QED
    BY <2>1, <2>2, PendingKept
<1>4. CASE DeleteRemoveSnap \/ DeleteRemoveVol
  <2>1. /\ "delete" \in LongRunning /\ {"remove", "idle"} \subseteq Steps
        /\ at["delete"] # "idle" /\ at["delete"] \notin Behind
    BY <1>4 DEF DeleteRemoveSnap, DeleteRemoveVol, LongRunning, Steps, Behind
  <2>2. QED
    BY <1>4, <2>1, PendingKept DEF DeleteRemoveSnap, DeleteRemoveVol
<1>5. CASE CreateCheck
  BY <1>5, PendingKept DEF CreateCheck, LongRunning, Steps
<1>6. CASE CreateSteps
  <2>1. /\ "create" \in LongRunning /\ {"ready", "idle"} \subseteq Steps
        /\ at["create"] # "idle" /\ at["create"] \notin Behind
    BY <1>6 DEF CreateSteps, CreateMake, CreateReady, LongRunning, Steps, Behind
  <2>2. QED
    BY <1>6, <2>1, PendingKept DEF CreateSteps, CreateMake, CreateReady
<1>7. QED
  BY <1>1, <1>2, <1>3, <1>4, <1>5, <1>6 DEF DeleteSteps

LEMMA ClonePending ==
  ASSUME TypeOK, PendingInv, ClonePin \/ CloneSteps
  PROVE  PendingInv'
<1> DEFINE Asking == {"check", "make", "activate", "open", "read", "close", "ready"}
<1>1. /\ "clone" \in LongRunning /\ Asking \subseteq Steps /\ Behind \subseteq Steps
      /\ "idle" \in Steps /\ \A l \in Asking : l # "idle" /\ l \notin Behind
  BY DEF LongRunning, Steps, Behind
<1>2. CASE ClonePin
  BY <1>1, <1>2, PendingKept DEF ClonePin
<1>3. ASSUME at["clone"] \in Asking, Fails("clone") PROVE PendingInv'
  BY <1>1, <1>3, PendingKept DEF Fails, Behind
<1>4. ASSUME at["clone"] \in Asking, NEW l \in Asking, GoesOn("clone", l) PROVE PendingInv'
  BY <1>1, <1>4, PendingKept DEF GoesOn
<1>5. CASE CloneCheck
  <2>1. CASE Go("clone", "make") /\ UNCHANGED op
    BY <1>4, <1>5, <2>1 DEF GoesOn, CloneCheck
  <2>2. CASE Go("clone", "release") /\ Finish("clone", "failed")
    BY <1>1, <2>2, PendingKept DEF Behind
  <2>3. QED
    BY <1>5, <2>1, <2>2 DEF CloneCheck
<1>6. CASE CloneMake \/ CloneDeactivate \/ ReaderActivate("clone") \/ ReaderOpen("clone")
           \/ ReaderEnds("clone")
  BY <1>3, <1>4, <1>6 DEF CloneMake, CloneDeactivate, ReaderActivate, ReaderOpen, ReaderEnds
<1>7. CASE CloneReady
  <2>1. CASE Go("clone", "release") /\ Finish("clone", "done")
    BY <1>1, <2>1, PendingKept DEF Behind
  <2>2. CASE Fails("clone")
    BY <1>3, <1>7, <2>2 DEF CloneReady
  <2>3. QED
    BY <1>7, <2>1, <2>2 DEF CloneReady
<1>8. CASE CloneCleanup \/ ReaderRelease("clone") \/ ReaderDeactivate("clone")
  <2>1. UNCHANGED op /\ \E l \in {"idle"} \cup Behind : Go("clone", l)
    BY <1>8 DEF CloneCleanup, ReaderRelease, ReaderDeactivate, Behind
  <2>2. QED
    BY <1>1, <2>1, PendingKept
<1>9. QED
  BY <1>2, <1>5, <1>6, <1>7, <1>8 DEF CloneSteps, ReaderSteps

LEMMA PendingStep ==
  ASSUME TypeOK, PendingInv, [Next]_vars PROVE PendingInv'
<1>1. ASSUME NEW e \in Exports, ExportSteps(e) \/ \E x \in ExportTargets : ExportPin(e, x)
      PROVE  PendingInv'
  <2>1. e \in Workers \ LongRunning /\ e # "clone"
    BY VolumesAssumption DEF Workers, Verbs, LongRunning
  <2>2. UNCHANGED op /\ \E l \in Steps : Go(e, l)
    BY <1>1, <2>1 DEF ExportSteps, ExportPin, ExportCheck, ReaderSteps, ReaderActivate, ReaderOpen,
       ReaderEnds, ReaderRelease, ReaderDeactivate, Fails, GoesOn, Steps
  <2>3. QED
    BY <2>1, <2>2, OthersPending
<1>2. ASSUME NEW reboot \in BOOLEAN, NEW failed \in SUBSET Names, Crash(reboot, failed)
      PROVE  PendingInv'
  BY <1>2 DEF Crash, PendingInv, LongRunning, Workers, Verbs
<1>3. CASE UNCHANGED vars
  BY <1>3 DEF vars, PendingInv
<1>4. QED
  BY <1>1, <1>2, <1>3, VerbsPending, ClonePending DEF Next

\* Callers that wait for answers run one verb at a time, but for what a clone
\* does behind its answer, and a delete that has marked leaves no snapshot.
THEOREM CallsInvariant == ASSUME Callers # "racing" PROVE Spec => []CallsInv
<1>1. Init => CallsInv
  <2>1. SUFFICES ASSUME Init PROVE CallsInv
    OBVIOUS
  <2>2. \A w \in Verbs : at[w] = "idle"
    BY <2>1, Constants DEF Init
  <2>3. PendingInv /\ OneVerb /\ MarkedInv
    BY <2>2 DEF PendingInv, OneVerb, MarkedInv, Resting, LongRunning, Verbs
  <2>4. QED
    BY <2>1, <2>3, VerbsInvInit DEF CallsInv
<1>2. CallsInv /\ [Next]_vars => CallsInv'
  <2>1. SUFFICES ASSUME CallsInv, [Next]_vars PROVE CallsInv'
    OBVIOUS
  <2>2. VerbsInv' /\ PendingInv'
    BY <2>1, VerbsInvStep, PendingStep DEF CallsInv, VerbsInv
  <2>3. OneVerb' /\ MarkedInv'
    BY <2>1, OneVerbStep, MarkedStep DEF CallsInv
  <2>4. QED
    BY <2>2, <2>3 DEF CallsInv
<1>3. QED
  BY <1>1, <1>2, PTL DEF Spec

\* The value an operation ends with in every other step.
Unfinished(w) == op'[w] \in {op[w], "none", "pending", "failed"}

LEMMA VerbsFinishNothing ==
  ASSUME TypeOK, NEW w \in LongRunning,
         \/ AttachDetach \/ SnapshotVerbs \/ (\E force \in BOOLEAN : DeleteCheck(force))
         \/ DeleteMarkSnap \/ DeleteMarkVol \/ DeleteRemoveSnap \/ CreateCheck \/ CreateMake
  PROVE  Unfinished(w)
<1>1. CASE AttachDetach \/ SnapshotVerbs
  BY <1>1 DEF AttachDetach, AttachCheck, AttachTag, AttachActivate, DetachCheck, DetachDeactivate,
     DetachTag, SnapshotVerbs, SnapshotCheck, SnapshotMake, DeleteSnapshotCheck,
     DeleteSnapshotRemove, Unfinished
<1>2. CASE \E force \in BOOLEAN : DeleteCheck(force)
  BY <1>2, FinishEffect DEF DeleteCheck, Unfinished, LongRunning
<1>3. CASE DeleteMarkSnap \/ DeleteMarkVol \/ DeleteRemoveSnap
  BY <1>3, FinishEffect
     DEF DeleteMarkSnap, DeleteMarkVol, DeleteMark, DeleteRemoveSnap, Unfinished, LongRunning
<1>4. CASE CreateCheck \/ CreateMake
  BY <1>4, FinishEffect DEF CreateCheck, CreateMake, Unfinished, LongRunning
<1>5. QED
  BY <1>1, <1>2, <1>3, <1>4

LEMMA ReadersFinishNothing ==
  ASSUME TypeOK, NEW w \in LongRunning,
         \/ ClonePin \/ CloneCheck \/ CloneMake \/ CloneDeactivate \/ CloneCleanup
         \/ ReaderSteps("clone")
         \/ \E e \in Exports : ExportSteps(e) \/ \E x \in ExportTargets : ExportPin(e, x)
         \/ \E reboot \in BOOLEAN, failed \in SUBSET Names : Crash(reboot, failed)
  PROVE  Unfinished(w)
<1>1. ASSUME NEW r \in Readers, Fails(r) PROVE Unfinished(w)
  BY <1>1, FinishEffect DEF Fails, Unfinished, LongRunning
<1>2. ASSUME NEW r \in Readers, NEW l, GoesOn(r, l) PROVE Unfinished(w)
  BY <1>2 DEF GoesOn, Unfinished
<1>3. ASSUME NEW r \in Readers, ReaderSteps(r) PROVE Unfinished(w)
  <2>1. CASE ReaderRelease(r) \/ ReaderDeactivate(r)
    BY <2>1 DEF ReaderRelease, ReaderDeactivate, Unfinished
  <2>2. CASE ReaderActivate(r) \/ ReaderOpen(r) \/ ReaderEnds(r)
    BY <1>1, <1>2, <2>2 DEF ReaderActivate, ReaderOpen, ReaderEnds
  <2>3. QED
    BY <1>3, <2>1, <2>2 DEF ReaderSteps
<1>4. CASE ClonePin \/ CloneCheck
  BY <1>4, FinishEffect DEF ClonePin, CloneCheck, Unfinished, LongRunning
<1>5. CASE CloneMake \/ CloneDeactivate \/ CloneCleanup
  BY <1>1, <1>2, <1>5, Constants DEF CloneMake, CloneDeactivate, CloneCleanup, Unfinished
<1>6. CASE \E e \in Exports : ExportSteps(e) \/ \E x \in ExportTargets : ExportPin(e, x)
  BY <1>3, <1>6, Constants DEF ExportSteps, ExportCheck, ExportPin, Unfinished
<1>7. CASE \E reboot \in BOOLEAN, failed \in SUBSET Names : Crash(reboot, failed)
  BY <1>7 DEF Crash, Unfinished
<1>8. QED
  BY <1>3, <1>4, <1>5, <1>6, <1>7, Constants

\* An operation becomes DONE in the step that leaves what it promised: the
\* created or cloned lv READY, the deleted volume gone and its snapshots with it.
\* For callers that wait for answers, in every number of overlapping exports,
\* failed commands and crashes.
THEOREM DoneIsDone == ASSUME Callers # "racing" PROVE Spec => DoneMeansDone
<1> DEFINE Promised(w) == IF w = "delete" THEN tags'["vol"] = {} /\ "snapshot" \notin tags'["snap"]
                          ELSE tags'["copy"] = {"ready"}
<1>1. ASSUME CallsInv, Next, NEW w \in LongRunning, op[w] # "done", op'[w] = "done"
      PROVE  Promised(w)
  <2>1. VerbsInv /\ TypeOK /\ ~Unfinished(w)
    BY <1>1 DEF CallsInv, VerbsInv, Unfinished
  <2>2. CASE DeleteRemoveVol
    <3>1. Remove("vol") /\ w = "delete"
      BY <1>1, <2>1, <2>2, FinishEffect DEF DeleteRemoveVol, LongRunning
    <3>2. tags["snap"] \in {{}, {"deleting"}}
      BY <1>1, <2>2 DEF DeleteRemoveVol, CallsInv, VerbsInv, MarkedInv, TagsInv
    <3>3. QED
      BY <2>1, <3>1, <3>2, RemoveEffect DEF Names
  <2>3. CASE CreateReady
    <3>1. Present("copy") /\ Retag("copy", "creating", "ready") /\ w = "create"
      BY <1>1, <2>1, <2>3, FinishEffect DEF CreateReady, LongRunning
    <3>2. QED
      BY <2>1, <3>1, ReadyEffect
  <2>4. CASE CloneReady
    <3>1. Present("copy") /\ Retag("copy", "creating", "ready") /\ w = "clone"
      BY <1>1, <2>1, <2>4, FinishEffect DEF CloneReady, Fails, LongRunning
    <3>2. QED
      BY <2>1, <3>1, ReadyEffect
  <2>5. DeleteRemoveVol \/ CreateReady \/ CloneReady
    BY <1>1, <2>1, VerbsFinishNothing, ReadersFinishNothing
       DEF Next, DeleteSteps, CreateSteps, CloneSteps
  <2>6. QED
    BY <2>2, <2>3, <2>4, <2>5
<1>2. CallsInv /\ [Next]_vars =>
        [\A w \in LongRunning : op[w] # "done" /\ op'[w] = "done" => Promised(w)]_vars
  BY <1>1
<1>3. QED
  BY <1>2, CallsInvariant, PTL DEF Spec, DoneMeansDone
=============================================================================
