--------------------------- MODULE MoveOwnerProofs ---------------------------
(***************************************************************************)
(* What a step of Move does to the owner of the volume: it hands it on,    *)
(* deletes it, attaches or detaches it, or leaves it alone.  From this     *)
(* follow the action property NeverLost and the refinement of Authority.   *)
(***************************************************************************)
EXTENDS MoveSafetyProofs

USE DEF MoveInv, TagsInv, JobInv, CallInv, TypeOK, lv
USE DEF Pushing, PushStates, Quiet, Target, Running, Owners, Serving

\* Node m stays the owner, or stays one of the others.
Kept(m) ==
  \/ state'[m] = state[m] /\ transfer'[m] = transfer[m]
  \/ m \notin Owners /\ state'[m] \in {"absent", "incoming", "retired", "deleting"}
  \/ /\ m \in Owners /\ state[m] # "attached"
     /\ \/ state'[m] \in {"ready", "pushing"}
        \/ state'[m] = "committing" /\ transfer'[m] \notin landed

\* The steps that leave ownership and attachment alone.
KeepsOwner == UNCHANGED landed /\ \A m \in Nodes : Kept(m)

\* The steps that change them, each at one node.
Flips(n, s, r) ==
  /\ state[n] = s /\ state' = [state EXCEPT ![n] = r]
  /\ UNCHANGED <<transfer, landed>>

\* The commit of t makes its target the owner.
Lands(t) ==
  /\ t \notin landed /\ landed' = landed \cup {t}
  /\ state[prepared[t]] = "incoming" /\ prepared[t] \in Nodes
  /\ \E n \in Nodes : state[n] = "committing" /\ transfer[n] = t
  /\ \A m \in Nodes : state'[m] = IF m = prepared[t] THEN "ready" ELSE state[m]
  /\ \A m \in Nodes \ {prepared[t]} : transfer'[m] = transfer[m]

OwnerStep ==
  \/ KeepsOwner
  \/ \E n \in Nodes : \/ Flips(n, "ready", "attached") \/ Flips(n, "attached", "ready")
                      \/ Flips(n, "ready", "deleting")
  \/ \E t \in TransferIDs : Lands(t)

-----------------------------------------------------------------------------
LEMMA VerbsOwner ==
  ASSUME MoveInv, NEW n \in Nodes, Verbs(n) PROVE OwnerStep
<1>1. ASSUME NEW t \in TransferIDs, PrepareReceive(n, t) PROVE KeepsOwner
  BY <1>1, RetagEffect, TransferEffect DEF PrepareReceive, VolumeStates, KeepsOwner, Kept
<1>2. ASSUME NEW t \in TransferIDs, PushVolume(n, t) PROVE KeepsOwner
  BY <1>2, RetagEffect, TransferEffect
     DEF PushVolume, MarkPushing, VolumeStates, KeepsOwner, Kept
<1>3. CASE Attach(n)
  BY <1>3 DEF Attach, Retag, Flips, OwnerStep
<1>4. CASE Detach(n)
  BY <1>4 DEF Detach, Retag, Flips, OwnerStep, KeepsOwner, Kept
<1>5. CASE DeleteVolume(n)
  <2>1. CASE state[n] = "ready"
    BY <1>5, <2>1 DEF DeleteVolume, Retag, Flips, OwnerStep
  <2>2. CASE state[n] = "retired"
    BY <1>5, <2>2, RetagEffect DEF DeleteVolume, VolumeStates, OwnerStep, KeepsOwner, Kept
  <2>3. QED
    BY <1>5, <2>1, <2>2 DEF DeleteVolume, Deletable
<1>6. QED
  BY <1>1, <1>2, <1>3, <1>4, <1>5 DEF Verbs, OwnerStep

\* destroy removes a volume nobody owns.
LEMMA DropOwner ==
  ASSUME MoveInv, NEW t \in TransferIDs, Destroyed(t) \/ Abandoned(t), UNCHANGED landed,
         session[t] = "live" => state[prepared[t]] = "incoming" /\ transfer[prepared[t]] = t
  PROVE  KeepsOwner
  BY DropEffect DEF KeepsOwner, Kept

LEMMA PushOwner ==
  ASSUME MoveInv, NEW n \in Nodes, PushSteps(n) PROVE KeepsOwner
<1>1. CASE \/ Activate(n) \/ StreamEnds(n) \/ StreamDrops(n) \/ CommitArrives(n)
           \/ CommitReply(n) \/ CommitCallFails(n) \/ Query(n) \/ QueryFails(n)
  BY <1>1 DEF Activate, StreamEnds, StreamDrops, CommitArrives, CommitReply,
              CommitCallFails, Query, QueryFails, KeepsOwner, Kept
<1>2. CASE MarkCommitting(n)
  BY <1>2, RetagEffect
     DEF MarkCommitting, VolumeStates, JobStateInv, TargetInv, KeepsOwner, Kept
<1>3. CASE AbortTransfer(n)
  <2>1. transfer[n] \in TransferIDs /\ Quiet(transfer[n])
    BY <1>3, WorksOnPush DEF AbortTransfer, JobCallInv
  <2>2. CASE Destroy(transfer[n])
    BY <1>3, <2>1, <2>2, DropOwner DEF AbortTransfer, Destroy, SessionInv
  <2>3. CASE UNCHANGED lv
    BY <1>3, <2>3 DEF AbortTransfer, KeepsOwner, Kept
  <2>4. QED
    BY <1>3, <2>2, <2>3 DEF AbortTransfer
<1>4. CASE AbortPush(n)
  <2>1. n \in Owners /\ state[n] # "attached"
    BY <1>4 DEF AbortPush, JobStateInv, JobCallInv
  <2>2. QED
    BY <1>4, <2>1, RetagEffect, TransferEffect
       DEF AbortPush, SettlePush, Settled, VolumeStates, KeepsOwner, Kept
<1>5. CASE RetirePushed(n)
  <2>1. n \notin Owners
    BY <1>5 DEF RetirePushed, JobStateInv, JobCallInv
  <2>2. QED
    BY <1>5, <2>1, RetagEffect, TransferEffect
       DEF RetirePushed, SettlePush, Settled, VolumeStates, KeepsOwner, Kept
<1>6. QED
  BY <1>1, <1>2, <1>3, <1>4, <1>5 DEF PushSteps

LEMMA NodeOwner ==
  ASSUME MoveInv, NEW n \in Nodes, RunDelete(n) \/ Crash(n) \/ Restart(n)
  PROVE  KeepsOwner
<1>1. CASE RunDelete(n)
  BY <1>1, RetagEffect, TransferEffect
     DEF RunDelete, Remove, VolumeStates, JobStateInv, KeepsOwner, Kept
<1>2. CASE Crash(n)
  BY <1>2 DEF Crash, KeepsOwner, Kept
<1>3. CASE Restart(n)
  BY <1>3, RetagEffect, TransferEffect
     DEF Restart, Recover, Settled, Remove, VolumeStates, KeepsOwner, Kept
<1>4. QED
  BY <1>1, <1>2, <1>3

LEMMA CommitOwner ==
  ASSUME MoveInv, NEW t \in TransferIDs, NEW k \in Attempts, CommitSteps(t, k)
  PROVE  KeepsOwner \/ Lands(t)
<1>1. CASE CommitVerifies(t, k) \/ CommitFinishes(t, k)
  BY <1>1 DEF CommitVerifies, CommitFinishes, KeepsOwner, Kept
<1>2. CASE CommitRefused(t, k) \/ CommitFails(t, k)
  BY <1>2, DropOwner DEF CommitRefused, CommitFails, Destroy, ProgressInv
<1>3. CASE CommitLands(t, k)
  <2>1. /\ t \notin landed /\ prepared[t] \in Nodes /\ state[prepared[t]] = "incoming"
        /\ \E n \in Nodes : state[n] = "committing" /\ transfer[n] = t
    BY <1>3 DEF CommitLands, ProgressInv, RunningInv, SessionInv
  <2>2. QED
    BY <1>3, <2>1, RetagEffect, TransferEffect DEF CommitLands, VolumeStates, Lands
<1>4. QED
  BY <1>1, <1>2, <1>3 DEF CommitSteps

LEMMA NextOwner ==
  ASSUME Calm, MoveInv, [Next]_vars PROVE OwnerStep
<1>1. ASSUME NEW t \in TransferIDs, GraceExpires(t) PROVE KeepsOwner
  BY <1>1, DropOwner DEF GraceExpires, Destroy, Calm, SessionInv
<1>2. CASE UNCHANGED vars
  BY <1>2 DEF vars, OwnerStep, KeepsOwner, Kept
<1>3. QED
  BY <1>1, <1>2, VerbsOwner, PushOwner, NodeOwner, CommitOwner DEF Next, OwnerStep

-----------------------------------------------------------------------------
\* What the owner steps mean for the set of owners.

LEMMA KeptOwners ==
  ASSUME MoveInv, KeepsOwner
  PROVE  /\ Owners' = Owners
         /\ \A m \in Nodes : state'[m] = "attached" <=> state[m] = "attached"
<1>1. ASSUME NEW m \in Nodes
      PROVE  /\ m \in Owners' <=> m \in Owners
             /\ state'[m] = "attached" <=> state[m] = "attached"
  <2>1. Kept(m) /\ UNCHANGED landed
    BY DEF KeepsOwner
  <2>2. QED
    BY <2>1 DEF Kept
<1>2. QED
  BY <1>1

LEMMA OnlyOwner ==
  ASSUME MoveInv, NEW n \in Nodes, n \in Owners PROVE Owners = {n}
  BY DEF OwnerInv

LEMMA FlippedOwner ==
  ASSUME MoveInv, MoveInv', NEW n \in Nodes, NEW s \in {"ready", "attached"},
         NEW r \in {"ready", "attached", "deleting"}, Flips(n, s, r)
  PROVE  /\ Owners = {n}
         /\ Owners' = IF r = "deleting" THEN {} ELSE {n}
         /\ \A m \in Nodes : state[m] = "attached" <=> m = n /\ s = "attached"
         /\ \A m \in Nodes : state'[m] = "attached" <=> m = n /\ r = "attached"
<1>1. Owners = {n}
  BY OnlyOwner DEF Flips
<1>2. \A m \in Nodes : state'[m] = IF m = n THEN r ELSE state[m]
  BY DEF Flips
<1>3. state[n] = s /\ UNCHANGED <<transfer, landed>>
  BY DEF Flips
<1>4. \A m \in Nodes : state[m] = "attached" => m = n
  BY <1>1
<1>5. Owners' = IF r = "deleting" THEN {} ELSE {n}
  BY <1>1, <1>2, <1>3
<1>6. QED
  BY <1>1, <1>2, <1>3, <1>4, <1>5

LEMMA LandedOwner ==
  ASSUME MoveInv, MoveInv', NEW t \in TransferIDs, Lands(t)
  PROVE  /\ \E n \in Nodes : n # prepared[t] /\ Owners = {n}
         /\ prepared[t] \in Nodes /\ Owners' = {prepared[t]}
         /\ \A m \in Nodes : state[m] # "attached" /\ state'[m] # "attached"
<1>1. PICK n \in Nodes : state[n] = "committing" /\ transfer[n] = t
  BY DEF Lands
<1>2. Owners = {n} /\ n # prepared[t]
  BY <1>1, OnlyOwner DEF Lands
<1>3. prepared[t] \in Nodes /\ state'[prepared[t]] = "ready"
  BY DEF Lands
<1>4. Owners' = {prepared[t]}
  BY <1>3 DEF OwnerInv
<1>5. \A m \in Nodes : state[m] # "attached" /\ state'[m] # "attached"
  BY <1>1, <1>2, <1>3, <1>4
<1>6. QED
  BY <1>2, <1>3, <1>4, <1>5

-----------------------------------------------------------------------------
\* A commit that landed is final and the last copy never vanishes: the owner
\* disappears only when a READY volume is deleted, and a source goes back to
\* READY only when its commit did not land (AbortPush, settlePush).
THEOREM LastCopyStays ==
  ASSUME Calm PROVE Spec => NeverLost
<1> DEFINE Step == /\ Owners # {} /\ Owners' = {} =>
                        \E n \in Nodes : state[n] = "ready" /\ state'[n] = "deleting"
                   /\ \A n \in Nodes : state[n] = "committing" /\ state'[n] = "ready" =>
                        transfer[n] \notin landed'
<1>1. ASSUME MoveInv, MoveInv', [Next]_vars PROVE Step
  <2>1. OwnerStep
    BY <1>1, NextOwner
  <2>2. CASE KeepsOwner
    <3>1. Owners' = Owners
      BY <1>1, <2>2, KeptOwners
    <3>2. QED
      BY <3>1, <2>2 DEF KeepsOwner, Kept
  <2>3. ASSUME NEW n \in Nodes, NEW s \in {"ready", "attached"},
               NEW r \in {"ready", "attached", "deleting"}, Flips(n, s, r),
               r = "deleting" => s = "ready"
        PROVE  Step
    <3>1. \A m \in Nodes : state'[m] = IF m = n THEN r ELSE state[m]
      BY <1>1, <2>3 DEF Flips
    <3>2. state[n] = s
      BY <2>3 DEF Flips
    <3>3. Owners' = {} => r = "deleting" /\ s = "ready"
      BY <1>1, <2>3, FlippedOwner
    <3>4. QED
      BY <3>1, <3>2, <3>3
  <2>4. ASSUME NEW t \in TransferIDs, Lands(t) PROVE Step
    BY <1>1, <2>4, LandedOwner DEF Lands
  <2>5. QED
    BY <2>1, <2>2, <2>3, <2>4 DEF OwnerStep
<1>2. QED
  BY <1>1, MoveInvariant, PTL DEF Spec, NeverLost

-----------------------------------------------------------------------------
\* The refinement of Authority.

LEMMA OwnerIs ==
  ASSUME NEW n \in Nodes, Owners = {n} PROVE Owner = n
  BY DEF Owner

LEMMA NextOwnerIs ==
  ASSUME NEW n \in Nodes, Owners' = {n} PROVE Owner' = n
  BY DEF Owner

\* The move protocol implements single ownership (Authority): at every moment
\* one node owns the volume, it hands it on only while nobody has it attached,
\* and the volume disappears only because its owner was told to delete it.
THEOREM MoveRefinesAuthority ==
  ASSUME Calm PROVE Spec => OneOwner
<1>1. Init => A!Init
  <2> SUFFICES ASSUME Init PROVE A!Init
    OBVIOUS
  <2>1. PICK home \in Nodes :
          state = [n \in Nodes |-> IF n = home THEN "ready" ELSE "absent"]
    BY DEF Init
  <2>2. Owners = {home}
    BY <2>1
  <2>3. Owner = home /\ ~\E n \in Nodes : state[n] = "attached"
    BY <2>1, <2>2, OwnerIs
  <2>4. QED
    BY <2>3 DEF A!Init
<1>2. ASSUME MoveInv, MoveInv', [Next]_vars PROVE [A!Next]_(A!vars)
  <2> DEFINE inUse == \E n \in Nodes : state[n] = "attached"
  <2>1. OwnerStep
    BY <1>2, NextOwner
  <2>2. CASE KeepsOwner
    <3>1. Owners' = Owners /\ inUse' = inUse
      BY <1>2, <2>2, KeptOwners
    <3> HIDE DEF Owners
    <3>2. Owner' = Owner
      BY <3>1 DEF Owner
    <3>3. QED
      BY <3>1, <3>2 DEF A!vars
  <2>3. ASSUME NEW n \in Nodes, Flips(n, "ready", "attached") PROVE A!Attach
    <3>1. Owners = {n} /\ Owners' = {n} /\ ~inUse /\ inUse'
      BY <1>2, <2>3, FlippedOwner
    <3>2. Owner = n /\ Owner' = n /\ n # NoNode
      BY <3>1, OwnerIs, NextOwnerIs, MoveAssumption
    <3>3. QED
      BY <3>1, <3>2 DEF A!Attach
  <2>4. ASSUME NEW n \in Nodes, Flips(n, "attached", "ready") PROVE A!Detach
    <3>1. Owners = {n} /\ Owners' = {n} /\ inUse /\ ~inUse'
      BY <1>2, <2>4, FlippedOwner
    <3>2. Owner' = Owner
      BY <3>1, OwnerIs, NextOwnerIs
    <3>3. QED
      BY <3>1, <3>2 DEF A!Detach
  <2>5. ASSUME NEW n \in Nodes, Flips(n, "ready", "deleting") PROVE A!Delete
    <3>1. Owners = {n} /\ Owners' = {} /\ ~inUse /\ ~inUse'
      BY <1>2, <2>5, FlippedOwner
    <3>2. Owner = n /\ n # NoNode /\ Owner' = NoNode
      BY <3>1, OwnerIs, MoveAssumption DEF Owner
    <3>3. QED
      BY <3>1, <3>2 DEF A!Delete
  <2>6. ASSUME NEW t \in TransferIDs, Lands(t) PROVE A!Move
    <3>1. PICK n \in Nodes : n # prepared[t] /\ Owners = {n}
      BY <1>2, <2>6, LandedOwner
    <3>2. prepared[t] \in Nodes /\ Owners' = {prepared[t]} /\ ~inUse /\ ~inUse'
      BY <1>2, <2>6, LandedOwner
    <3>3. Owner = n /\ n # NoNode /\ Owner' = prepared[t]
      BY <3>1, <3>2, OwnerIs, NextOwnerIs, MoveAssumption
    <3>4. QED
      BY <3>1, <3>2, <3>3 DEF A!Move
  <2>7. QED
    BY <2>1, <2>2, <2>3, <2>4, <2>5, <2>6 DEF OwnerStep, A!Next
<1>3. QED
  BY <1>1, <1>2, MoveInvariant, PTL DEF Spec, OneOwner, A!Spec
=============================================================================
