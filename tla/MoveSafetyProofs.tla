-------------------------- MODULE MoveSafetyProofs --------------------------
(***************************************************************************)
(* Why two nodes never serve one volume: the proof that MoveInv of module  *)
(* Move is inductive, and what follows from it.  Every theorem is about    *)
(* all sets of nodes and transfers and all numbers of attempts and faults, *)
(* under Calm: no call outlives its caller, nothing destroys a session     *)
(* during its commit, and a copy is deleted only once its source is done.  *)
(*                                                                         *)
(* One lemma per action.  Its first step says what the action does to each *)
(* node, transfer and call; the others take the parts of MoveInv in turn.  *)
(* The type invariant alone needs no Calm.                                 *)
(***************************************************************************)
EXTENDS Move, TLAPS

-----------------------------------------------------------------------------
\* What the actions are made of, and types.

CallStates == {"none"} \cup Running \cup Answers
SessionStates == {"none", "live", "dead", "committed"}

LEMMA AttemptFacts == 1 \in Attempts
  BY MoveAssumption DEF Attempts

\* Pointwise effect of the assignments the actions are made of.
LEMMA RetagEffect ==
  ASSUME TypeOK, NEW n, NEW s \in VolumeStates, Retag(n, s)
  PROVE  /\ state' \in [Nodes -> VolumeStates]
         /\ \A m \in Nodes : state'[m] = IF m = n THEN s ELSE state[m]
  BY DEF TypeOK, Retag

LEMMA TransferEffect ==
  ASSUME TypeOK, NEW n, NEW t, SetTransfer(n, t),
         n \in Nodes => t \in TransferIDs \cup {NoTransfer}
  PROVE  /\ transfer' \in [Nodes -> TransferIDs \cup {NoTransfer}]
         /\ \A m \in Nodes : transfer'[m] = IF m = n THEN t ELSE transfer[m]
  BY DEF TypeOK, SetTransfer

LEMMA GotoEffect ==
  ASSUME TypeOK, NEW n, NEW pc \in JobStates, Goto(n, pc)
  PROVE  /\ job' \in [Nodes -> JobStates]
         /\ \A m \in Nodes : job'[m] = IF m = n THEN pc ELSE job[m]
  BY DEF TypeOK, Goto

LEMMA AttemptEffect ==
  ASSUME TypeOK, NEW n, NEW k \in Attempts, SetAttempt(n, k)
  PROVE  /\ attempt' \in [Nodes -> Attempts]
         /\ \A m \in Nodes : attempt'[m] = IF m = n THEN k ELSE attempt[m]
  BY DEF TypeOK, SetAttempt

LEMMA SessionEffect ==
  ASSUME TypeOK, NEW t, NEW s \in SessionStates, SetSession(t, s)
  PROVE  /\ session' \in [TransferIDs -> SessionStates]
         /\ \A u \in TransferIDs : session'[u] = IF u = t THEN s ELSE session[u]
  BY DEF TypeOK, SetSession, SessionStates

LEMMA CallEffect ==
  ASSUME TypeOK, NEW t, NEW k \in Attempts, NEW c \in CallStates, SetCall(t, k, c)
  PROVE  /\ call' \in [TransferIDs -> [Attempts -> CallStates]]
         /\ \A u \in TransferIDs, j \in Attempts :
              call'[u][j] = IF u = t /\ j = k THEN c ELSE call[u][j]
  BY DEF TypeOK, SetCall, CallStates

LEMMA RetryEffect ==
  ASSUME TypeOK, NEW n \in Nodes, NEW pc \in JobStates, RetryOr(n, pc)
  PROVE  /\ job' \in [Nodes -> JobStates]
         /\ attempt' \in [Nodes -> Attempts]
         /\ \A m \in Nodes : m # n => job'[m] = job[m] /\ attempt'[m] = attempt[m]
         /\ job'[n] = pc \/ job'[n] = job[n]
<1>1. CASE attempt[n] < PushAttempts
  <2>1. attempt[n] + 1 \in Attempts
    BY <1>1, MoveAssumption DEF TypeOK, Attempts
  <2>2. SetAttempt(n, attempt[n] + 1) /\ UNCHANGED job
    BY <1>1 DEF RetryOr
  <2>3. QED
    BY <2>1, <2>2, AttemptEffect DEF TypeOK
<1>2. CASE ~(attempt[n] < PushAttempts)
  BY <1>2, GotoEffect DEF TypeOK, RetryOr
<1>3. QED
  BY <1>1, <1>2

\* destroy, whether or not the removal of the volume works.
LEMMA DestroyEffect ==
  ASSUME TypeOK, NEW t \in TransferIDs \cup {NoTransfer}, Destroyed(t) \/ Abandoned(t)
  PROVE  /\ session' \in [TransferIDs -> SessionStates]
         /\ state' \in [Nodes -> VolumeStates]
         /\ transfer' \in [Nodes -> TransferIDs \cup {NoTransfer}]
         /\ active' \subseteq active
         /\ \A u \in TransferIDs : session'[u] =
              IF u = t /\ session[t] = "live" THEN "dead" ELSE session[u]
         /\ \/ UNCHANGED lv
            \/ /\ session[t] = "live"
               /\ \A m \in Nodes :
                    IF m = prepared[t] THEN state'[m] = "absent" /\ transfer'[m] = NoTransfer
                    ELSE state'[m] = state[m] /\ transfer'[m] = transfer[m]
<1> USE DEF TypeOK, VolumeStates, SessionStates
<1>1. CASE Destroyed(t) /\ session[t] = "live"
  BY <1>1, RetagEffect, TransferEffect, SessionEffect DEF Destroyed, Remove, DeactivateLV
<1>2. CASE Destroyed(t) /\ session[t] # "live"
  BY <1>2 DEF Destroyed, lv
<1>3. CASE Abandoned(t)
  <2>1. session' \in [TransferIDs -> SessionStates] /\ UNCHANGED <<state, transfer, active>>
    BY <1>3 DEF Abandoned, SetSession, lv
  <2>2. ASSUME NEW u \in TransferIDs
        PROVE  session'[u] = IF u = t /\ session[t] = "live" THEN "dead" ELSE session[u]
    BY <1>3 DEF Abandoned, SetSession
  <2>3. QED
    BY <2>1, <2>2 DEF lv
<1>4. QED
  BY <1>1, <1>2, <1>3

LEMMA FaultEffect ==
  ASSUME TypeOK, Fault \/ NoFault PROVE faults' \in 0..MaxFaults
  BY MoveAssumption DEF TypeOK, Fault, NoFault

\* Every step keeps the types.
LEMMA TypeStep ==
  ASSUME TypeOK, [Next]_vars PROVE TypeOK'
<1> USE AttemptFacts, RetagEffect, TransferEffect, GotoEffect,
        AttemptEffect, SessionEffect, CallEffect, RetryEffect, DestroyEffect, FaultEffect
<1> USE DEF TypeOK, VolumeStates, JobStates, CallStates, SessionStates, Running,
            Answers, lv, ActivateLV, DeactivateLV
<1>1. ASSUME NEW n \in Nodes, NEW t \in TransferIDs, PrepareReceive(n, t) PROVE TypeOK'
  BY <1>1 DEF PrepareReceive
<1>2. ASSUME NEW n \in Nodes, NEW t \in TransferIDs, PushVolume(n, t) PROVE TypeOK'
  BY <1>2 DEF PushVolume, MarkPushing
<1>3. ASSUME NEW n \in Nodes, Attach(n) PROVE TypeOK'
  BY <1>3 DEF Attach
<1>4. ASSUME NEW n \in Nodes, Detach(n) PROVE TypeOK'
  BY <1>4 DEF Detach
<1>5. ASSUME NEW n \in Nodes, DeleteVolume(n) PROVE TypeOK'
  BY <1>5 DEF DeleteVolume
<1>6. ASSUME NEW n \in Nodes, RunDelete(n) PROVE TypeOK'
  BY <1>6 DEF RunDelete, Remove
<1>7. ASSUME NEW n \in Nodes, Activate(n) PROVE TypeOK'
  BY <1>7 DEF Activate
<1>8. ASSUME NEW n \in Nodes, StreamEnds(n) PROVE TypeOK'
  BY <1>8 DEF StreamEnds
<1>9. ASSUME NEW n \in Nodes, StreamDrops(n) PROVE TypeOK'
  BY <1>9 DEF StreamDrops, CallLost
<1>10. ASSUME NEW n \in Nodes, MarkCommitting(n) PROVE TypeOK'
  BY <1>10 DEF MarkCommitting
<1>11. ASSUME NEW n \in Nodes, CommitArrives(n) PROVE TypeOK'
  BY <1>11 DEF CommitArrives, CommitAnswer
<1>12. ASSUME NEW n \in Nodes, CommitReply(n) PROVE TypeOK'
  BY <1>12 DEF CommitReply
<1>13. ASSUME NEW n \in Nodes, CommitCallFails(n) PROVE TypeOK'
  BY <1>13 DEF CommitCallFails, CallLost
<1>14. ASSUME NEW n \in Nodes, Query(n) PROVE TypeOK'
  BY <1>14 DEF Query
<1>15. ASSUME NEW n \in Nodes, QueryFails(n) PROVE TypeOK'
  BY <1>15 DEF QueryFails, CallLost
<1>16. ASSUME NEW n \in Nodes, AbortTransfer(n) PROVE TypeOK'
  BY <1>16 DEF AbortTransfer, CallLost, Destroy
<1>17. ASSUME NEW n \in Nodes, AbortPush(n) PROVE TypeOK'
  BY <1>17 DEF AbortPush, SettlePush, Settled
<1>18. ASSUME NEW n \in Nodes, RetirePushed(n) PROVE TypeOK'
  BY <1>18 DEF RetirePushed, SettlePush, Settled
<1>19. ASSUME NEW n \in Nodes, Crash(n) PROVE TypeOK'
  BY <1>19 DEF Crash
<1>20. ASSUME NEW n \in Nodes, Restart(n) PROVE TypeOK'
  BY <1>20 DEF Restart, Recover, Settled, Remove
<1>21. ASSUME NEW t \in TransferIDs, GraceExpires(t) PROVE TypeOK'
  BY <1>21 DEF GraceExpires, Destroy
<1>22. ASSUME NEW t \in TransferIDs, NEW k \in Attempts, CommitVerifies(t, k) PROVE TypeOK'
  BY <1>22 DEF CommitVerifies
<1>23. ASSUME NEW t \in TransferIDs, NEW k \in Attempts, CommitRefused(t, k) PROVE TypeOK'
  BY <1>23 DEF CommitRefused, Destroy
<1>24. ASSUME NEW t \in TransferIDs, NEW k \in Attempts, CommitFails(t, k) PROVE TypeOK'
  BY <1>24 DEF CommitFails
<1>25. ASSUME NEW t \in TransferIDs, NEW k \in Attempts, CommitLands(t, k) PROVE TypeOK'
  BY <1>25 DEF CommitLands
<1>26. ASSUME NEW t \in TransferIDs, NEW k \in Attempts, CommitFinishes(t, k) PROVE TypeOK'
  BY <1>26 DEF CommitFinishes
<1>27. CASE UNCHANGED vars
  BY <1>27 DEF vars
<1>28. QED
  BY <1>1, <1>2, <1>3, <1>4, <1>5, <1>6, <1>7, <1>8, <1>9, <1>10, <1>11, <1>12, <1>13,
     <1>14, <1>15, <1>16, <1>17, <1>18, <1>19, <1>20, <1>21, <1>22, <1>23, <1>24,
     <1>25, <1>26, <1>27 DEF Next, Verbs, PushSteps, CommitSteps

\* The type invariant holds in every reachable state.
THEOREM TypeCorrect == Spec => []TypeOK
<1>1. Init => TypeOK
  BY AttemptFacts, MoveAssumption DEF Init, TypeOK, VolumeStates, JobStates
<1>2. TypeOK /\ [Next]_vars => TypeOK'
  BY TypeStep
<1>3. QED
  BY <1>1, <1>2, PTL DEF Spec

-----------------------------------------------------------------------------
\* The inductive invariant.

USE DEF MoveInv, TagsInv, JobInv, CallInv, TypeOK, lv
USE DEF Pushing, PushStates, Quiet, Target, Running, Owners, Serving

-----------------------------------------------------------------------------
\* The verbs of the orchestrator.

LEMMA PrepareReceiveStep ==
  ASSUME MoveInv, TypeOK', NEW n \in Nodes, NEW t \in TransferIDs, PrepareReceive(n, t)
  PROVE  MoveInv'
<1>1. /\ n \in up /\ prepared[t] = NoNode /\ state[n] = "absent"
      /\ \A u \in TransferIDs : prepared'[u] = IF u = t THEN n ELSE prepared[u]
      /\ \A u \in TransferIDs \ {t} : session'[u] = session[u]
      /\ \A m \in Nodes \ {n} : state'[m] = state[m] /\ transfer'[m] = transfer[m]
      /\ active' \subseteq active \cup {n}
      /\ UNCHANGED <<up, job, attempt, pushed, call, landed>>
  BY RetagEffect, TransferEffect, SessionEffect
     DEF PrepareReceive, VolumeStates, SessionStates, ActivateLV
<1>2. \/ session'[t] = "live" /\ state'[n] = "incoming" /\ transfer'[n] = t
      \/ /\ session'[t] = "dead" /\ state'[n] = "absent" /\ active' = active
         /\ transfer'[n] = transfer[n]
  BY RetagEffect, TransferEffect, SessionEffect
     DEF PrepareReceive, VolumeStates, SessionStates
<1>3. OwnTransfer'
  <2>1. \A m \in Nodes : Pushing(m)' => m # n /\ Pushing(m) /\ transfer[m] # t
    BY <1>1, <1>2 DEF OwnTransfer, FreshTransfers
  <2>2. QED
    BY <2>1, <1>1 DEF OwnTransfer
<1>4. FreshTransfers'
  BY <1>1, MoveAssumption DEF FreshTransfers
<1>5. JobInv'
  <2>1. job[n] = "idle"
    BY <1>1 DEF JobStateInv, JobStates
  <2>2. QED
    BY <2>1, <1>1, <1>2 DEF JobStateInv, JobCallInv
<1>6. CallInv'
  <2>1. t \notin landed /\ \A k \in Attempts : call[t][k] = "none"
    BY <1>1 DEF FreshTransfers
  <2>2. SessionInv'
    BY <2>1, <1>1, <1>2 DEF SessionInv
  <2>3. RunningInv'
    BY <2>1, <1>1, <1>2 DEF RunningInv
  <2>4. ProgressInv'
    BY <2>1, <1>1, <1>2 DEF ProgressInv, SessionInv, RunningInv
  <2>5. QED
    BY <2>2, <2>3, <2>4
<1>7. TargetInv'
  BY <1>1, <1>2 DEF TargetInv, OwnTransfer, FreshTransfers, JobStateInv
<1>8. OwnerInv' /\ RestsInactive'
  BY <1>1, <1>2 DEF OwnerInv, RestsInactive
<1>9. QED
  BY <1>3, <1>4, <1>5, <1>6, <1>7, <1>8

LEMMA PushVolumeStep ==
  ASSUME MoveInv, TypeOK', NEW n \in Nodes, NEW t \in TransferIDs, PushVolume(n, t)
  PROVE  MoveInv'
<1>1. /\ n \in up /\ prepared[t] # NoNode /\ t \notin pushed /\ state[n] = "ready"
      /\ pushed' = pushed \cup {t}
      /\ \A m \in Nodes : state'[m] = IF m = n THEN "pushing" ELSE state[m]
      /\ \A m \in Nodes : transfer'[m] = IF m = n THEN t ELSE transfer[m]
      /\ \A m \in Nodes : job'[m] = IF m = n THEN "activate" ELSE job[m]
      /\ \A m \in Nodes \ {n} : attempt'[m] = attempt[m]
      /\ UNCHANGED <<up, active, prepared, session, call, landed>>
  BY AttemptFacts, RetagEffect, TransferEffect, GotoEffect, AttemptEffect
     DEF PushVolume, MarkPushing, VolumeStates, JobStates
<1>2. TagsInv'
  BY <1>1 DEF OwnTransfer, FreshTransfers
<1>3. JobInv'
  BY <1>1 DEF JobStateInv, JobCallInv, FreshTransfers
<1>4. CallInv'
  <2>1. SessionInv'
    BY <1>1 DEF SessionInv
  <2>2. RunningInv'
    BY <1>1 DEF RunningInv
  <2>3. ProgressInv'
    BY <1>1 DEF ProgressInv, SessionInv, RunningInv
  <2>4. QED
    BY <2>1, <2>2, <2>3
<1>5. TargetInv' /\ OwnerInv' /\ RestsInactive'
  BY <1>1 DEF TargetInv, OwnerInv, RestsInactive, FreshTransfers, OwnTransfer, JobStateInv
<1>6. QED
  BY <1>2, <1>3, <1>4, <1>5

LEMMA AttachStep ==
  ASSUME MoveInv, TypeOK', NEW n \in Nodes, Attach(n)
  PROVE  MoveInv'
<1>1. /\ state[n] = "ready"
      /\ \A m \in Nodes : state'[m] = IF m = n THEN "attached" ELSE state[m]
      /\ active' \subseteq active \cup {n}
      /\ UNCHANGED <<up, transfer, job, attempt, prepared, pushed, session, call, landed>>
  BY RetagEffect DEF Attach, VolumeStates, ActivateLV
<1>2. TagsInv' /\ JobInv'
  BY <1>1 DEF OwnTransfer, FreshTransfers, JobStateInv, JobCallInv
<1>3. CallInv'
  BY <1>1 DEF SessionInv, RunningInv, ProgressInv
<1>4. TargetInv' /\ OwnerInv' /\ RestsInactive'
  BY <1>1 DEF TargetInv, OwnerInv, RestsInactive, OwnTransfer, JobStateInv
<1>5. QED
  BY <1>2, <1>3, <1>4

LEMMA DetachStep ==
  ASSUME MoveInv, TypeOK', NEW n \in Nodes, Detach(n)
  PROVE  MoveInv'
<1>1. /\ state[n] = "attached"
      /\ state'[n] \in {"ready", "attached"}
      /\ \A m \in Nodes \ {n} : state'[m] = state[m]
      /\ active' = active \ {n}
      /\ UNCHANGED <<up, transfer, job, attempt, prepared, pushed, session, call, landed>>
  BY RetagEffect DEF Detach, VolumeStates, DeactivateLV
<1>2. TagsInv' /\ JobInv'
  BY <1>1 DEF OwnTransfer, FreshTransfers, JobStateInv, JobCallInv
<1>3. CallInv'
  BY <1>1 DEF SessionInv, RunningInv, ProgressInv
<1>4. TargetInv' /\ OwnerInv' /\ RestsInactive'
  BY <1>1 DEF TargetInv, OwnerInv, RestsInactive, OwnTransfer, JobStateInv
<1>5. QED
  BY <1>2, <1>3, <1>4

\* The guard of DeleteVolume is where an early delete would break TargetInv.
LEMMA DeleteVolumeStep ==
  ASSUME MoveInv, TypeOK', Calm, NEW n \in Nodes, DeleteVolume(n)
  PROVE  MoveInv'
<1>1. /\ n \in up /\ state[n] \in {"ready", "retired"}
      /\ \A m \in Nodes : state[m] = "committing" => Target(m) # n
      /\ \A m \in Nodes : state'[m] = IF m = n THEN "deleting" ELSE state[m]
      /\ \A m \in Nodes : job'[m] = IF m = n THEN "delete" ELSE job[m]
      /\ UNCHANGED <<up, transfer, active, attempt, prepared, pushed, session, call, landed>>
  BY RetagEffect, GotoEffect DEF DeleteVolume, Deletable, VolumeStates, JobStates, Calm
<1>2. TagsInv' /\ JobInv'
  BY <1>1 DEF OwnTransfer, FreshTransfers, JobStateInv, JobCallInv
<1>3. CallInv'
  BY <1>1 DEF SessionInv, RunningInv, ProgressInv
<1>4. TargetInv'
  BY <1>1 DEF TargetInv, OwnTransfer, JobStateInv
<1>5. OwnerInv' /\ RestsInactive'
  BY <1>1 DEF OwnerInv, RestsInactive
<1>6. QED
  BY <1>2, <1>3, <1>4, <1>5

LEMMA RunDeleteStep ==
  ASSUME MoveInv, TypeOK', NEW n \in Nodes, RunDelete(n)
  PROVE  MoveInv'
<1>1. /\ job[n] = "delete"
      /\ \A m \in Nodes : job'[m] = IF m = n THEN "idle" ELSE job[m]
      /\ \A m \in Nodes \ {n} : state'[m] = state[m] /\ transfer'[m] = transfer[m]
      /\ state'[n] \in {state[n], "absent"}
      /\ active' \subseteq active
      /\ UNCHANGED <<up, attempt, prepared, pushed, session, call, landed>>
  BY RetagEffect, TransferEffect, GotoEffect
     DEF RunDelete, Remove, VolumeStates, JobStates, DeactivateLV
<1>2. state[n] = "deleting" /\ state'[n] \in {"deleting", "absent"}
  BY <1>1 DEF JobStateInv
<1>3. TagsInv'
  <2>1. \A m \in Nodes : Pushing(m)' => m # n /\ Pushing(m)
    BY <1>1, <1>2
  <2>2. OwnTransfer'
    BY <2>1, <1>1 DEF OwnTransfer
  <2>3. FreshTransfers'
    BY <1>1 DEF FreshTransfers
  <2>4. QED
    BY <2>2, <2>3
<1>4. JobInv'
  BY <1>1, <1>2 DEF JobStateInv, JobCallInv
<1>5. CallInv'
  BY <1>1, <1>2 DEF SessionInv, RunningInv, ProgressInv
<1>6. TargetInv'
  BY <1>1, <1>2 DEF TargetInv, OwnTransfer, JobStateInv
<1>7. OwnerInv' /\ RestsInactive'
  BY <1>1, <1>2 DEF OwnerInv, RestsInactive
<1>8. QED
  BY <1>3, <1>4, <1>5, <1>6, <1>7
-----------------------------------------------------------------------------
\* The push goroutine of a source.

\* A goroutine other than a delete works on a push, and on its transfer.
LEMMA WorksOnPush ==
  ASSUME MoveInv, NEW m \in Nodes, job[m] \notin {"idle", "delete"}
  PROVE  Pushing(m) /\ transfer[m] \in TransferIDs /\ Target(m) \in Nodes
  BY DEF JobStateInv, JobStates, OwnTransfer

\* A step that moves goroutines only has to keep the parts about them.
LEMMA JobOnly ==
  ASSUME MoveInv, TypeOK', JobInv', TargetInv',
         UNCHANGED <<up, lv, prepared, pushed, session, call, landed>>
  PROVE  MoveInv'
<1>1. TagsInv'
  BY DEF OwnTransfer, FreshTransfers
<1>2. CallInv'
  BY DEF SessionInv, RunningInv, ProgressInv
<1>3. OwnerInv' /\ RestsInactive'
  BY DEF OwnerInv, RestsInactive
<1>4. QED
  BY <1>1, <1>2, <1>3

LEMMA ActivateStep ==
  ASSUME MoveInv, TypeOK', NEW n \in Nodes, Activate(n)
  PROVE  MoveInv'
<1>1. /\ job[n] = "activate" /\ job'[n] \in {"stream", "giveup", "revert"}
      /\ \A m \in Nodes \ {n} : job'[m] = job[m]
      /\ active' \subseteq active \cup {n}
      /\ UNCHANGED <<up, state, transfer, attempt, prepared, pushed, session, call, landed>>
  BY GotoEffect DEF Activate, JobStates, ActivateLV
<1>2. state[n] = "pushing" /\ transfer[n] \notin landed
  BY <1>1 DEF JobStateInv, TargetInv
<1>3. TagsInv'
  BY <1>1 DEF OwnTransfer, FreshTransfers
<1>4. JobInv'
  BY <1>1, <1>2 DEF JobStateInv, JobCallInv
<1>5. CallInv'
  BY <1>1, <1>2 DEF SessionInv, RunningInv, ProgressInv
<1>6. TargetInv'
  BY <1>1 DEF TargetInv
<1>7. OwnerInv' /\ RestsInactive'
  BY <1>1, <1>2 DEF OwnerInv, RestsInactive
<1>8. QED
  BY <1>3, <1>4, <1>5, <1>6, <1>7

\* A stream that ends well found a live session: the target is INCOMING.
LEMMA StreamEndsStep ==
  ASSUME MoveInv, TypeOK', NEW n \in Nodes, StreamEnds(n)
  PROVE  MoveInv'
<1>1. /\ job[n] = "stream"
      /\ job'[n] = IF session[transfer[n]] = "live" THEN "mark" ELSE "giveup"
      /\ \A m \in Nodes \ {n} : job'[m] = job[m]
      /\ UNCHANGED <<up, lv, attempt, prepared, pushed, session, call, landed>>
  BY GotoEffect DEF StreamEnds, JobStates
<1>2. state[n] = "pushing" /\ transfer[n] \in TransferIDs /\ transfer[n] \notin landed
  BY <1>1 DEF JobStateInv, TargetInv, OwnTransfer
<1>3. session[transfer[n]] = "live" => state[Target(n)] = "incoming"
  BY <1>1, <1>2 DEF SessionInv, JobCallInv
<1>4. JobInv'
  BY <1>1, <1>2 DEF JobStateInv, JobCallInv
<1>5. TargetInv'
  BY <1>1, <1>3 DEF TargetInv
<1>6. QED
  BY <1>1, <1>4, <1>5, JobOnly

LEMMA StreamDropsStep ==
  ASSUME MoveInv, TypeOK', NEW n \in Nodes, StreamDrops(n)
  PROVE  MoveInv'
<1>1. /\ job[n] = "stream" /\ job'[n] \in {"stream", "giveup"}
      /\ \A m \in Nodes \ {n} : job'[m] = job[m] /\ attempt'[m] = attempt[m]
      /\ UNCHANGED <<up, lv, prepared, pushed, session, call, landed>>
  BY RetryEffect DEF StreamDrops, JobStates
<1>2. state[n] = "pushing" /\ transfer[n] \notin landed
  BY <1>1 DEF JobStateInv, TargetInv
<1>3. JobInv'
  BY <1>1, <1>2 DEF JobStateInv, JobCallInv
<1>4. TargetInv'
  BY <1>1 DEF TargetInv
<1>5. QED
  BY <1>1, <1>3, <1>4, JobOnly

LEMMA MarkCommittingStep ==
  ASSUME MoveInv, TypeOK', NEW n \in Nodes, MarkCommitting(n)
  PROVE  MoveInv'
<1>1. /\ job[n] = "mark"
      /\ \/ state'[n] = "committing" /\ job'[n] = "commit"
         \/ state'[n] = state[n] /\ job'[n] = "giveup"
      /\ \A m \in Nodes \ {n} :
           state'[m] = state[m] /\ job'[m] = job[m] /\ attempt'[m] = attempt[m]
      /\ UNCHANGED <<up, transfer, active, prepared, pushed, session, call, landed>>
  BY AttemptFacts, RetagEffect, GotoEffect, AttemptEffect
     DEF MarkCommitting, VolumeStates, JobStates
<1>2. state[n] = "pushing" /\ transfer[n] \notin landed
  BY <1>1 DEF JobStateInv, TargetInv
<1>3. TagsInv'
  BY <1>1, <1>2 DEF OwnTransfer, FreshTransfers
<1>4. JobInv'
  BY <1>1, <1>2 DEF JobStateInv, JobCallInv
<1>5. CallInv'
  BY <1>1, <1>2 DEF SessionInv, RunningInv, ProgressInv
<1>6. TargetInv'
  BY <1>1, <1>2 DEF TargetInv, OwnTransfer, JobStateInv
<1>7. OwnerInv' /\ RestsInactive'
  BY <1>1, <1>2 DEF OwnerInv, RestsInactive
<1>8. QED
  BY <1>3, <1>4, <1>5, <1>6, <1>7

\* The only step that starts a call: no other call of the transfer runs.
LEMMA CommitArrivesStep ==
  ASSUME MoveInv, TypeOK', NEW n \in Nodes, CommitArrives(n)
  PROVE  MoveInv'
<1> DEFINE t == transfer[n]
           k == attempt[n]
<1>1. job[n] = "commit" /\ call[t][k] = "none" /\ state[n] = "committing"
  BY DEF CommitArrives, JobStateInv
<1>2. t \in TransferIDs /\ t \in pushed /\ k \in Attempts /\ Quiet(t)
  BY <1>1 DEF OwnTransfer, JobCallInv
<1>3. PICK c \in {"verify", "ok", "notfound", "error"} :
        /\ \A u \in TransferIDs, j \in Attempts :
             call'[u][j] = IF u = t /\ j = k THEN c ELSE call[u][j]
        /\ c = "verify" => session[t] = "live"
        /\ c = "ok" => session[t] = "committed"
  BY <1>2, CallEffect DEF CommitArrives, CommitAnswer, CallStates, Answers
<1>4. UNCHANGED <<up, lv, job, attempt, prepared, pushed, session, landed>>
  BY DEF CommitArrives
<1> HIDE DEF t, k
<1>5. TagsInv'
  BY <1>2, <1>3, <1>4 DEF OwnTransfer, FreshTransfers
<1>6. JobInv'
  <2>1. ASSUME NEW m \in Nodes, job[m] \notin {"idle", "delete"}, m # n
        PROVE  transfer[m] \in TransferIDs /\ transfer[m] # t
    BY <2>1, <1>1, WorksOnPush DEF OwnTransfer, t
  <2>2. JobStateInv'
    BY <1>4 DEF JobStateInv
  <2>3. JobCallInv'
    BY <2>1, <1>1, <1>2, <1>3, <1>4 DEF JobCallInv, t, k
  <2>4. QED
    BY <2>2, <2>3
<1>7. CallInv'
  <2>1. SessionInv'
    BY <1>2, <1>3, <1>4 DEF SessionInv
  <2>2. RunningInv'
    <3>1. ASSUME NEW u \in TransferIDs, NEW j \in Attempts, call'[u][j] \in Running
          PROVE  \/ call[u][j] \in Running /\ u # t
                 \/ u = t /\ j = k /\ c = "verify"
      BY <3>1, <1>2, <1>3 DEF Running, Quiet
    <3>2. ASSUME NEW u \in TransferIDs, NEW j \in Attempts, u # t
          PROVE  call'[u][j] = call[u][j]
      BY <3>2, <1>3
    <3>3. \E m \in Nodes : state[m] = "committing" /\ transfer[m] = t
      BY <1>1 DEF t
    <3>4. c = "verify" => \A j \in Attempts : call'[t][j] \in Running => j = k
      BY <1>2, <3>1
    <3>5. QED
      BY <1>2, <1>3, <1>4, <3>1, <3>2, <3>3, <3>4 DEF RunningInv
  <2>3. ProgressInv'
    BY <1>2, <1>3, <1>4 DEF ProgressInv, SessionInv
  <2>4. QED
    BY <2>1, <2>2, <2>3
<1>8. TargetInv' /\ OwnerInv' /\ RestsInactive'
  BY <1>4 DEF TargetInv, OwnerInv, RestsInactive
<1>9. QED
  BY <1>5, <1>6, <1>7, <1>8

\* An answer tells the source whether its commit landed.
LEMMA CommitReplyStep ==
  ASSUME MoveInv, TypeOK', NEW n \in Nodes, CommitReply(n)
  PROVE  MoveInv'
<1>1. job[n] = "commit" /\ call[transfer[n]][attempt[n]] \in Answers
  BY DEF CommitReply, Answers
<1>2. state[n] = "committing" /\ transfer[n] \in TransferIDs /\ attempt[n] \in Attempts
  BY <1>1 DEF JobStateInv, OwnTransfer
<1>3. Quiet(transfer[n])
  BY <1>1, <1>2 DEF JobCallInv, Answers
<1>4. /\ job'[n] \in {"retire", "revert", "query", "commit"}
      /\ job'[n] = "retire" => transfer[n] \in landed
      /\ job'[n] = "revert" => transfer[n] \notin landed
      /\ \A m \in Nodes \ {n} : job'[m] = job[m] /\ attempt'[m] = attempt[m]
      /\ UNCHANGED <<up, lv, prepared, pushed, session, call, landed>>
  BY <1>1, <1>2, GotoEffect, RetryEffect DEF CommitReply, JobStates, ProgressInv
<1>5. JobInv'
  BY <1>1, <1>2, <1>3, <1>4 DEF JobStateInv, JobCallInv
<1>6. TargetInv'
  BY <1>4 DEF TargetInv
<1>7. QED
  BY <1>4, <1>5, <1>6, JobOnly

\* Calm is needed here: a call given up on is over.
LEMMA CommitCallFailsStep ==
  ASSUME MoveInv, TypeOK', Calm, NEW n \in Nodes, CommitCallFails(n)
  PROVE  MoveInv'
<1>1. /\ job[n] = "commit" /\ job'[n] \in {"commit", "query"} /\ Quiet(transfer[n])
      /\ \A m \in Nodes \ {n} : job'[m] = job[m] /\ attempt'[m] = attempt[m]
      /\ UNCHANGED <<up, lv, prepared, pushed, session, call, landed>>
  BY RetryEffect DEF CommitCallFails, Over, Calm, JobStates
<1>2. state[n] = "committing"
  BY <1>1 DEF JobStateInv
<1>3. JobInv'
  BY <1>1, <1>2 DEF JobStateInv, JobCallInv
<1>4. TargetInv'
  BY <1>1 DEF TargetInv
<1>5. QED
  BY <1>1, <1>3, <1>4, JobOnly

\* TargetInv is what makes the answer of QueryVolume conclusive.
LEMMA QueryStep ==
  ASSUME MoveInv, TypeOK', Calm, NEW n \in Nodes, Query(n)
  PROVE  MoveInv'
<1>1. /\ job[n] \in {"query", "resolve"} /\ Quiet(transfer[n])
      /\ job'[n] = IF Committed(Target(n)) THEN "retire" ELSE "abort"
      /\ \A m \in Nodes \ {n} : job'[m] = job[m]
      /\ UNCHANGED <<up, lv, attempt, prepared, pushed, session, call, landed>>
  BY GotoEffect DEF Query, Over, Calm, JobStates
<1>2. state[n] = "committing"
  BY <1>1 DEF JobStateInv
<1>3. Committed(Target(n)) <=> transfer[n] \in landed
  BY <1>2 DEF TargetInv, Committed
<1>4. JobInv'
  BY <1>1, <1>2, <1>3 DEF JobStateInv, JobCallInv
<1>5. TargetInv'
  BY <1>1 DEF TargetInv
<1>6. QED
  BY <1>1, <1>4, <1>5, JobOnly

LEMMA QueryFailsStep ==
  ASSUME MoveInv, TypeOK', NEW n \in Nodes, QueryFails(n)
  PROVE  MoveInv'
<1>1. /\ \A m \in Nodes : job'[m] = IF m = n THEN "idle" ELSE job[m]
      /\ active' \subseteq active
      /\ UNCHANGED <<up, state, transfer, attempt, prepared, pushed, session, call, landed>>
  BY GotoEffect DEF QueryFails, JobStates, DeactivateLV
<1>2. TagsInv' /\ JobInv'
  BY <1>1 DEF OwnTransfer, FreshTransfers, JobStateInv, JobCallInv
<1>3. CallInv'
  BY <1>1 DEF SessionInv, RunningInv, ProgressInv
<1>4. TargetInv' /\ OwnerInv' /\ RestsInactive'
  BY <1>1 DEF TargetInv, OwnerInv, RestsInactive
<1>5. QED
  BY <1>2, <1>3, <1>4
-----------------------------------------------------------------------------
\* The end of a push.

LEMMA AbortPushStep ==
  ASSUME MoveInv, TypeOK', NEW n \in Nodes, AbortPush(n)
  PROVE  MoveInv'
<1>1. /\ job[n] = "revert"
      /\ \/ state'[n] = "ready" /\ n \notin active'
         \/ state'[n] = state[n] /\ transfer'[n] = transfer[n]
      /\ \A m \in Nodes \ {n} : state'[m] = state[m] /\ transfer'[m] = transfer[m]
      /\ \A m \in Nodes : job'[m] = IF m = n THEN "idle" ELSE job[m]
      /\ active' \subseteq active
      /\ UNCHANGED <<up, attempt, prepared, pushed, session, call, landed>>
  BY RetagEffect, TransferEffect, GotoEffect
     DEF AbortPush, SettlePush, Settled, VolumeStates, JobStates, DeactivateLV
<1>2. Pushing(n) /\ transfer[n] \in TransferIDs /\ Quiet(transfer[n])
  BY <1>1, WorksOnPush DEF JobCallInv
<1>3. transfer[n] \notin landed
  BY <1>1 DEF JobCallInv
<1>4. TagsInv'
  <2>1. \A m \in Nodes : Pushing(m)' => Pushing(m) /\ transfer'[m] = transfer[m]
    BY <1>1
  <2>2. OwnTransfer'
    BY <2>1, <1>1 DEF OwnTransfer
  <2>3. FreshTransfers'
    BY <1>1 DEF FreshTransfers
  <2>4. QED
    BY <2>2, <2>3
<1>5. JobInv'
  BY <1>1 DEF JobStateInv, JobCallInv
<1>6. CallInv'
  <2>1. SessionInv'
    BY <1>1, <1>2 DEF SessionInv
  <2>2. RunningInv'
    BY <1>1, <1>2 DEF RunningInv
  <2>3. ProgressInv'
    BY <1>1, <1>2 DEF ProgressInv, SessionInv, RunningInv
  <2>4. QED
    BY <2>1, <2>2, <2>3
<1>7. TargetInv'
  BY <1>1, <1>2 DEF TargetInv, OwnTransfer, JobStateInv
<1>8. OwnerInv' /\ RestsInactive'
  BY <1>1, <1>2, <1>3 DEF OwnerInv, RestsInactive
<1>9. QED
  BY <1>4, <1>5, <1>6, <1>7, <1>8

LEMMA RetirePushedStep ==
  ASSUME MoveInv, TypeOK', NEW n \in Nodes, RetirePushed(n)
  PROVE  MoveInv'
<1>1. /\ job[n] = "retire"
      /\ \/ state'[n] = "retired" /\ n \notin active'
         \/ state'[n] = state[n] /\ transfer'[n] = transfer[n]
      /\ \A m \in Nodes \ {n} : state'[m] = state[m] /\ transfer'[m] = transfer[m]
      /\ \A m \in Nodes : job'[m] = IF m = n THEN "idle" ELSE job[m]
      /\ active' \subseteq active
      /\ UNCHANGED <<up, attempt, prepared, pushed, session, call, landed>>
  BY RetagEffect, TransferEffect, GotoEffect
     DEF RetirePushed, SettlePush, Settled, VolumeStates, JobStates, DeactivateLV
<1>2. Pushing(n) /\ transfer[n] \in TransferIDs /\ Quiet(transfer[n])
  BY <1>1, WorksOnPush DEF JobCallInv
<1>3. transfer[n] \in landed /\ state[n] = "committing"
  BY <1>1 DEF JobCallInv, JobStateInv
<1>4. TagsInv'
  <2>1. \A m \in Nodes : Pushing(m)' => Pushing(m) /\ transfer'[m] = transfer[m]
    BY <1>1
  <2>2. OwnTransfer'
    BY <2>1, <1>1 DEF OwnTransfer
  <2>3. FreshTransfers'
    BY <1>1 DEF FreshTransfers
  <2>4. QED
    BY <2>2, <2>3
<1>5. JobInv'
  BY <1>1 DEF JobStateInv, JobCallInv
<1>6. CallInv'
  <2>1. SessionInv'
    BY <1>1, <1>2 DEF SessionInv
  <2>2. RunningInv'
    BY <1>1, <1>2 DEF RunningInv
  <2>3. ProgressInv'
    BY <1>1, <1>2 DEF ProgressInv, SessionInv, RunningInv
  <2>4. QED
    BY <2>1, <2>2, <2>3
<1>7. TargetInv'
  BY <1>1, <1>3 DEF TargetInv, OwnTransfer, JobStateInv
<1>8. OwnerInv' /\ RestsInactive'
  BY <1>1, <1>3 DEF OwnerInv, RestsInactive
<1>9. QED
  BY <1>4, <1>5, <1>6, <1>7, <1>8

-----------------------------------------------------------------------------
\* Crash and restart.

\* Crash ends the goroutine of its node and the calls its node serves.
LEMMA CrashStep ==
  ASSUME MoveInv, TypeOK', NEW n \in Nodes, Crash(n)
  PROVE  MoveInv'
<1>1. /\ \A m \in Nodes : job'[m] = IF m = n THEN "idle" ELSE job[m]
      /\ up' = up \ {n}
      /\ active' \subseteq active
      /\ \A t \in TransferIDs : session'[t] = IF prepared[t] = n THEN "none" ELSE session[t]
      /\ \A t \in TransferIDs, k \in Attempts : call'[t][k] =
           IF prepared[t] = n /\ call[t][k] \in Running THEN "error" ELSE call[t][k]
      /\ UNCHANGED <<state, transfer, attempt, prepared, pushed, landed>>
  BY GotoEffect DEF Crash, JobStates, DeactivateLV
<1>2. TagsInv'
  <2>1. OwnTransfer'
    BY <1>1 DEF OwnTransfer
  <2>2. FreshTransfers'
    BY <1>1 DEF FreshTransfers
  <2>3. QED
    BY <2>1, <2>2
<1>3. JobInv'
  <2>1. JobStateInv'
    BY <1>1 DEF JobStateInv
  <2>2. ASSUME NEW m \in Nodes, job[m] \notin {"idle", "delete"}
        PROVE  transfer[m] \in TransferIDs
    BY <2>2, WorksOnPush
  <2>3. JobCallInv'
    BY <2>2, <1>1 DEF JobCallInv
  <2>4. QED
    BY <2>1, <2>3
<1>4. CallInv'
  <2>1. SessionInv'
    BY <1>1 DEF SessionInv
  <2>2. RunningInv'
    BY <1>1 DEF RunningInv
  <2>3. ProgressInv'
    BY <1>1 DEF ProgressInv
  <2>4. QED
    BY <2>1, <2>2, <2>3
<1>5. TargetInv' /\ OwnerInv' /\ RestsInactive'
  BY <1>1 DEF TargetInv, OwnerInv, RestsInactive
<1>6. QED
  BY <1>2, <1>3, <1>4, <1>5

\* Recovery removes an INCOMING volume only once its session is gone.
LEMMA RestartStep ==
  ASSUME MoveInv, TypeOK', NEW n \in Nodes, Restart(n)
  PROVE  MoveInv'
<1>1. /\ n \notin up /\ up' = up \cup {n}
      /\ \A m \in Nodes \ {n} : state'[m] = state[m] /\ transfer'[m] = transfer[m]
      /\ active' \subseteq active \cup {n}
      /\ \A m \in Nodes : job'[m] =
           IF m = n THEN IF state[n] = "committing" THEN "resolve" ELSE "idle" ELSE job[m]
      /\ UNCHANGED <<attempt, prepared, pushed, session, call, landed>>
  BY RetagEffect, TransferEffect, GotoEffect
     DEF Restart, Recover, Settled, Remove, VolumeStates, JobStates, ActivateLV, DeactivateLV
<1>2. \/ /\ state'[n] = state[n] /\ transfer'[n] = transfer[n]
         /\ state[n] = "attached" \/ n \notin active' \/ n \in active
      \/ state[n] \in {"incoming", "deleting"} /\ state'[n] = "absent"
      \/ state[n] = "pushing" /\ state'[n] = "ready" /\ n \notin active'
  BY RetagEffect, TransferEffect
     DEF Restart, Recover, Settled, Remove, VolumeStates, ActivateLV, DeactivateLV
<1>3. \A t \in TransferIDs : session[t] = "live" => prepared[t] # n
  BY <1>1 DEF SessionInv
<1>4. TagsInv'
  <2>1. \A m \in Nodes : Pushing(m)' => Pushing(m) /\ transfer'[m] = transfer[m]
    BY <1>1, <1>2
  <2>2. OwnTransfer'
    BY <2>1, <1>1 DEF OwnTransfer
  <2>3. FreshTransfers'
    BY <1>1 DEF FreshTransfers
  <2>4. QED
    BY <2>2, <2>3
<1>5. JobInv'
  BY <1>1, <1>2 DEF JobStateInv, JobCallInv
<1>6. CallInv'
  <2>1. SessionInv'
    BY <1>1, <1>3 DEF SessionInv
  <2>2. RunningInv'
    BY <1>1, <1>2 DEF RunningInv
  <2>3. ProgressInv'
    BY <1>1, <1>3 DEF ProgressInv, SessionInv, RunningInv
  <2>4. QED
    BY <2>1, <2>2, <2>3
<1>7. TargetInv'
  BY <1>1, <1>2 DEF TargetInv, OwnTransfer, JobStateInv
<1>8. OwnerInv'
  <2>1. Owners' = Owners
    BY <1>1, <1>2 DEF TargetInv
  <2>2. QED
    BY <2>1 DEF OwnerInv
<1>9. RestsInactive'
  BY <1>1, <1>2 DEF RestsInactive
<1>10. QED
  BY <1>4, <1>5, <1>6, <1>7, <1>8, <1>9

-----------------------------------------------------------------------------
\* The transfer table of a target.

\* destroy takes away at most the INCOMING volume of its own transfer.
LEMMA DropEffect ==
  ASSUME MoveInv, NEW t \in TransferIDs, Destroyed(t) \/ Abandoned(t),
         session[t] = "live" => state[prepared[t]] = "incoming" /\ transfer[prepared[t]] = t
  PROVE  /\ \A u \in TransferIDs : session'[u] =
              IF u = t /\ session[t] = "live" THEN "dead" ELSE session[u]
         /\ \A m \in Nodes :
              \/ state'[m] = state[m] /\ transfer'[m] = transfer[m]
              \/ /\ m = prepared[t] /\ session[t] = "live"
                 /\ state[m] = "incoming" /\ transfer[m] = t
                 /\ state'[m] = "absent"
         /\ active' \subseteq active
  BY DestroyEffect

\* A step that ends the session of t, and at most its running call, keeps
\* MoveInv but for the parts about goroutines and calls.
LEMMA DropStep ==
  ASSUME MoveInv, NEW t \in TransferIDs, Destroyed(t) \/ Abandoned(t),
         session[t] = "live" => state[prepared[t]] = "incoming" /\ transfer[prepared[t]] = t,
         UNCHANGED <<up, attempt, prepared, pushed, landed>>,
         \A m \in Nodes : job'[m] \in {job[m], "revert"}
  PROVE  OwnTransfer' /\ TargetInv' /\ OwnerInv' /\ RestsInactive'
<1>1. \A m \in Nodes :
        /\ Pushing(m)' => state'[m] = state[m] /\ transfer'[m] = transfer[m]
        /\ Serving(m)' => Serving(m)
  BY DropEffect
<1>2. OwnTransfer'
  BY <1>1 DEF OwnTransfer
<1>3. TargetInv'
  <2>1. ASSUME NEW m \in Nodes, Pushing(m)'
        PROVE  /\ Target(m)' = Target(m) /\ Target(m) \in Nodes
               /\ state'[m] = state[m] /\ transfer'[m] = transfer[m]
               /\ state'[Target(m)] \in {state[Target(m)], "absent"}
               /\ state[Target(m)] # "incoming" => state'[Target(m)] = state[Target(m)]
    BY <2>1, <1>1, DropEffect DEF OwnTransfer
  <2>2. ASSUME NEW m \in Nodes, job'[m] = "mark" PROVE job[m] = "mark" /\ Pushing(m)'
    BY <2>2, DropEffect DEF JobStateInv
  <2>3. UNCHANGED landed
    OBVIOUS
  <2>4. QED
    BY <2>1, <2>2, <2>3 DEF TargetInv
<1>4. OwnerInv'
  <2>1. Owners' \subseteq Owners
    BY <1>1
  <2>2. QED
    BY <2>1 DEF OwnerInv
<1>5. RestsInactive'
  BY DropEffect DEF RestsInactive
<1>6. QED
  BY <1>2, <1>3, <1>4, <1>5

LEMMA AbortTransferStep ==
  ASSUME MoveInv, TypeOK', NEW n \in Nodes, AbortTransfer(n)
  PROVE  MoveInv'
<1> DEFINE t == transfer[n]
<1>1. job[n] \in {"giveup", "abort"} /\ UNCHANGED <<up, attempt, prepared, pushed, call, landed>>
  BY DEF AbortTransfer
<1>2. \A m \in Nodes : job'[m] = IF m = n THEN "revert" ELSE job[m]
  BY GotoEffect DEF AbortTransfer, JobStates
<1>3. Pushing(n) /\ t \in TransferIDs /\ Quiet(t) /\ t \notin landed
  BY <1>1, WorksOnPush DEF JobCallInv
<1>4. session[t] = "live" => state[prepared[t]] = "incoming" /\ transfer[prepared[t]] = t
  BY <1>3 DEF SessionInv
<1>5. CASE UNCHANGED <<session, lv>>
  <2>1. JobInv'
    BY <1>5, <1>1, <1>2, <1>3 DEF JobStateInv, JobCallInv
  <2>2. TargetInv'
    BY <1>5, <1>1, <1>2 DEF TargetInv
  <2>3. QED
    BY <2>1, <2>2, <1>5, <1>1, JobOnly
<1>6. CASE Destroyed(t) \/ Abandoned(t)
  <2>1. OwnTransfer' /\ TargetInv' /\ OwnerInv' /\ RestsInactive'
    BY <1>6, <1>1, <1>2, <1>3, <1>4, DropStep
  <2>2. FreshTransfers'
    BY <1>1 DEF FreshTransfers
  <2> HIDE DEF t
  <2>3. /\ \A u \in TransferIDs : session'[u] =
             IF u = t /\ session[t] = "live" THEN "dead" ELSE session[u]
        /\ \A m \in Nodes :
             \/ state'[m] = state[m] /\ transfer'[m] = transfer[m]
             \/ /\ m = prepared[t] /\ session[t] = "live"
                /\ state[m] = "incoming" /\ transfer[m] = t
        /\ active' \subseteq active
    BY <1>3, <1>4, <1>6, DropEffect
  <2>4. JobInv'
    <3>1. \A m \in Nodes : state[m] # "incoming" =>
            state'[m] = state[m] /\ transfer'[m] = transfer[m]
      BY <2>3
    <3>2. \A m \in Nodes : job[m] # "idle" => state[m] # "incoming"
      BY DEF JobStateInv, JobStates
    <3>3. QED
      BY <3>1, <3>2, <1>1, <1>2, <1>3 DEF JobStateInv, JobCallInv, t
  <2>5. SessionInv'
    BY <2>3, <1>1 DEF SessionInv
  <2>6. RunningInv'
    BY <2>3, <1>1, <1>3 DEF RunningInv
  <2>7. ProgressInv'
    BY <2>3, <1>1, <1>3 DEF ProgressInv, SessionInv, RunningInv
  <2>8. QED
    BY <2>1, <2>2, <2>4, <2>5, <2>6, <2>7
<1>7. QED
  BY <1>5, <1>6 DEF AbortTransfer, Destroy

\* Calm is needed here: the timer does not fire during a commit.
LEMMA GraceExpiresStep ==
  ASSUME MoveInv, TypeOK', Calm, NEW t \in TransferIDs, GraceExpires(t)
  PROVE  MoveInv'
<1>1. /\ session[t] = "live" /\ Quiet(t) /\ (Destroyed(t) \/ Abandoned(t))
      /\ UNCHANGED <<up, job, attempt, prepared, pushed, call, landed>>
  BY DEF GraceExpires, Destroy, Calm
<1>2. state[prepared[t]] = "incoming" /\ transfer[prepared[t]] = t
  BY <1>1 DEF SessionInv
<1>3. OwnTransfer' /\ TargetInv' /\ OwnerInv' /\ RestsInactive'
  BY <1>1, <1>2, DropStep
<1>4. FreshTransfers'
  BY <1>1 DEF FreshTransfers
<1>5. /\ \A u \in TransferIDs : session'[u] = IF u = t THEN "dead" ELSE session[u]
      /\ \A m \in Nodes :
           \/ state'[m] = state[m] /\ transfer'[m] = transfer[m]
           \/ m = prepared[t] /\ state[m] = "incoming" /\ transfer[m] = t
      /\ active' \subseteq active
  BY <1>1, <1>2, DropEffect
<1>6. JobInv'
  <2>1. \A m \in Nodes : job[m] # "idle" => state[m] # "incoming"
    BY DEF JobStateInv, JobStates
  <2>2. \A m \in Nodes : job[m] # "idle" => state'[m] = state[m] /\ transfer'[m] = transfer[m]
    BY <2>1, <1>5
  <2>3. QED
    BY <2>2, <1>1 DEF JobStateInv, JobCallInv
<1>7. SessionInv'
  BY <1>1, <1>5 DEF SessionInv
<1>8. RunningInv'
  BY <1>1, <1>5 DEF RunningInv
<1>9. ProgressInv'
  BY <1>1, <1>5 DEF ProgressInv, SessionInv, RunningInv
<1>10. QED
  BY <1>3, <1>4, <1>6, <1>7, <1>8, <1>9

\* A commit that fails takes the session and its INCOMING volume with it.
LEMMA CommitDropsStep ==
  ASSUME MoveInv, TypeOK', NEW t \in TransferIDs, NEW k \in Attempts,
         NEW c \in {"dataloss", "error"},
         call[t][k] \in {"verify", "retag"}, SetCall(t, k, c),
         Destroyed(t) \/ Abandoned(t),
         UNCHANGED <<up, job, attempt, prepared, pushed, landed>>
  PROVE  MoveInv'
<1>1. /\ session[t] = "live" /\ t \notin landed /\ t \in pushed
      /\ state[prepared[t]] = "incoming" /\ transfer[prepared[t]] = t
      /\ \A j \in Attempts \ {k} : call[t][j] \notin Running
  BY DEF RunningInv, ProgressInv, FreshTransfers
<1>2. OwnTransfer' /\ TargetInv' /\ OwnerInv' /\ RestsInactive'
  BY <1>1, DropStep
<1>3. /\ \A u \in TransferIDs : session'[u] = IF u = t THEN "dead" ELSE session[u]
      /\ \A m \in Nodes :
           \/ state'[m] = state[m] /\ transfer'[m] = transfer[m]
           \/ m = prepared[t] /\ state[m] = "incoming" /\ transfer[m] = t
      /\ active' \subseteq active
  BY <1>1, DropEffect
<1>4. \A u \in TransferIDs, j \in Attempts :
        call'[u][j] = IF u = t /\ j = k THEN c ELSE call[u][j]
  BY CallEffect DEF CallStates, Answers
<1>5. FreshTransfers'
  BY <1>1, <1>4 DEF FreshTransfers
<1>6. JobInv'
  <2>1. \A m \in Nodes : job[m] # "idle" => state[m] # "incoming"
    BY DEF JobStateInv, JobStates
  <2>2. \A m \in Nodes : job[m] # "idle" => state'[m] = state[m] /\ transfer'[m] = transfer[m]
    BY <2>1, <1>3
  <2>3. JobStateInv'
    BY <2>2 DEF JobStateInv
  <2>4. ASSUME NEW m \in Nodes, job[m] \notin {"idle", "delete"}
        PROVE  transfer[m] \in TransferIDs
    BY <2>4, WorksOnPush
  <2>5. JobCallInv'
    BY <2>2, <2>4, <1>4 DEF JobCallInv
  <2>6. QED
    BY <2>3, <2>5
<1>7. SessionInv'
  BY <1>3, <1>4 DEF SessionInv
<1>8. RunningInv'
  <2>1. \A m \in Nodes : state[m] = "committing" =>
          state'[m] = state[m] /\ transfer'[m] = transfer[m]
    BY <1>3
  <2>2. QED
    BY <2>1, <1>1, <1>3, <1>4 DEF RunningInv
<1>9. ProgressInv'
  BY <1>1, <1>3, <1>4 DEF ProgressInv, SessionInv, RunningInv
<1>10. QED
  BY <1>2, <1>5, <1>6, <1>7, <1>8, <1>9

LEMMA CommitRefusedStep ==
  ASSUME MoveInv, TypeOK', NEW t \in TransferIDs, NEW k \in Attempts, CommitRefused(t, k)
  PROVE  MoveInv'
  BY CommitDropsStep DEF CommitRefused, Destroy

LEMMA CommitFailsStep ==
  ASSUME MoveInv, TypeOK', NEW t \in TransferIDs, NEW k \in Attempts, CommitFails(t, k)
  PROVE  MoveInv'
  BY CommitDropsStep DEF CommitFails

LEMMA CommitVerifiesStep ==
  ASSUME MoveInv, TypeOK', NEW t \in TransferIDs, NEW k \in Attempts, CommitVerifies(t, k)
  PROVE  MoveInv'
<1>1. /\ call[t][k] = "verify"
      /\ \A u \in TransferIDs, j \in Attempts :
           call'[u][j] = IF u = t /\ j = k THEN "retag" ELSE call[u][j]
      /\ active' = active \ {prepared[t]}
      /\ UNCHANGED <<up, state, transfer, job, attempt, prepared, pushed, session, landed>>
  BY CallEffect DEF CommitVerifies, CallStates, DeactivateLV
<1>2. t \in pushed
  BY <1>1 DEF FreshTransfers
<1>3. \A u \in TransferIDs, j \in Attempts : call'[u][j] \in Running <=> call[u][j] \in Running
  BY <1>1
<1>4. TagsInv'
  BY <1>1, <1>2 DEF OwnTransfer, FreshTransfers
<1>5. JobInv'
  <2>1. JobStateInv'
    BY <1>1 DEF JobStateInv
  <2>2. ASSUME NEW m \in Nodes, job[m] \notin {"idle", "delete"}
        PROVE  transfer[m] \in TransferIDs
    BY <2>2, WorksOnPush
  <2>3. JobCallInv'
    BY <2>2, <1>1, <1>3 DEF JobCallInv
  <2>4. QED
    BY <2>1, <2>3
<1>6. CallInv'
  <2>1. SessionInv'
    BY <1>1, <1>3 DEF SessionInv
  <2>2. RunningInv'
    BY <1>1, <1>3 DEF RunningInv
  <2>3. ProgressInv'
    BY <1>1 DEF ProgressInv
  <2>4. QED
    BY <2>1, <2>2, <2>3
<1>7. TargetInv' /\ OwnerInv' /\ RestsInactive'
  BY <1>1 DEF TargetInv, OwnerInv, RestsInactive
<1>8. QED
  BY <1>4, <1>5, <1>6, <1>7

\* The authority moves: the source that waits for this call was the only
\* owner, and the target is the only one afterwards.
LEMMA CommitLandsStep ==
  ASSUME MoveInv, TypeOK', NEW t \in TransferIDs, NEW k \in Attempts, CommitLands(t, k)
  PROVE  MoveInv'
<1> DEFINE x == prepared[t]
<1>1. /\ call[t][k] = "retag" /\ session[t] = "live" /\ x \in Nodes /\ x \notin active
      /\ state[x] = "incoming" /\ transfer[x] = t /\ t \notin landed /\ t \in pushed
  BY DEF CommitLands, RunningInv, ProgressInv, SessionInv, FreshTransfers
<1>2. /\ \A u \in TransferIDs, j \in Attempts :
           call'[u][j] = IF u = t /\ j = k THEN "finish" ELSE call[u][j]
      /\ \A m \in Nodes : state'[m] = IF m = x THEN "ready" ELSE state[m]
      /\ \A m \in Nodes : transfer'[m] = IF m = x THEN NoTransfer ELSE transfer[m]
      /\ landed' = landed \cup {t}
      /\ UNCHANGED <<up, active, job, attempt, prepared, pushed, session>>
  BY <1>1, CallEffect, RetagEffect, TransferEffect DEF CommitLands, CallStates, VolumeStates
<1> HIDE DEF x
<1>3. \A u \in TransferIDs, j \in Attempts : call'[u][j] \in Running <=> call[u][j] \in Running
  BY <1>1, <1>2
<1>4. PICK n \in Nodes : state[n] = "committing" /\ transfer[n] = t
  BY <1>1 DEF RunningInv
<1>5. n \in Owners /\ n # x
  BY <1>1, <1>4
<1>6. \A m \in Nodes : Pushing(m) /\ transfer[m] = t => m = n
  BY <1>4 DEF OwnTransfer
<1>7. TagsInv'
  <2>1. \A m \in Nodes : Pushing(m)' => m # x /\ Pushing(m)
    BY <1>2
  <2>2. OwnTransfer'
    BY <2>1, <1>2 DEF OwnTransfer
  <2>3. FreshTransfers'
    BY <1>1, <1>2 DEF FreshTransfers
  <2>4. QED
    BY <2>2, <2>3
<1>8. JobInv'
  <2>1. \A m \in Nodes : job[m] # "idle" => m # x
    BY <1>1 DEF JobStateInv, JobStates
  <2>2. JobStateInv'
    BY <2>1, <1>2 DEF JobStateInv
  <2>3. ASSUME NEW m \in Nodes, job[m] \notin {"idle", "delete"}
        PROVE  transfer[m] \in TransferIDs
    BY <2>3, WorksOnPush
  <2>4. ~Quiet(t)
    BY <1>1
  <2>5. JobCallInv'
    BY <2>1, <2>3, <2>4, <1>2, <1>3 DEF JobCallInv
  <2>6. QED
    BY <2>2, <2>5
<1>9. CallInv'
  <2>1. \A u \in TransferIDs : u # t /\ prepared[u] = x => transfer[x] # u
    BY <1>1
  <2>2. SessionInv'
    BY <2>1, <1>1, <1>2, <1>3 DEF SessionInv, x
  <2>3. RunningInv'
    BY <1>1, <1>2, <1>3 DEF RunningInv
  <2>4. ProgressInv'
    BY <2>1, <1>1, <1>2 DEF ProgressInv, SessionInv, RunningInv, x
  <2>5. QED
    BY <2>2, <2>3, <2>4
<1>10. TargetInv'
  <2>1. \A m \in Nodes : m \in Owners => m = n
    BY <1>5 DEF OwnerInv
  <2>2. QED
    BY <2>1, <1>1, <1>2, <1>4, <1>6 DEF TargetInv, OwnTransfer, JobStateInv, x
<1>11. OwnerInv'
  BY <1>2, <1>4, <1>5 DEF OwnerInv
<1>12. RestsInactive'
  BY <1>1, <1>2 DEF RestsInactive
<1>13. QED
  BY <1>7, <1>8, <1>9, <1>10, <1>11, <1>12

LEMMA CommitFinishesStep ==
  ASSUME MoveInv, TypeOK', NEW t \in TransferIDs, NEW k \in Attempts, CommitFinishes(t, k)
  PROVE  MoveInv'
<1>1. /\ call[t][k] = "finish"
      /\ \A u \in TransferIDs, j \in Attempts :
           call'[u][j] = IF u = t /\ j = k THEN "ok" ELSE call[u][j]
      /\ \A u \in TransferIDs : session'[u] = IF u = t THEN "committed" ELSE session[u]
      /\ UNCHANGED <<up, lv, job, attempt, prepared, pushed, landed>>
  BY CallEffect, SessionEffect DEF CommitFinishes, CallStates, SessionStates, Answers
<1>2. /\ t \in landed /\ t \in pushed
      /\ \A j \in Attempts \ {k} : call[t][j] \notin Running
  BY <1>1 DEF ProgressInv, FreshTransfers, RunningInv
<1>3. TagsInv'
  <2>1. OwnTransfer'
    BY <1>1 DEF OwnTransfer
  <2>2. FreshTransfers'
    BY <1>1, <1>2 DEF FreshTransfers
  <2>3. QED
    BY <2>1, <2>2
<1>4. JobInv'
  <2>1. JobStateInv'
    BY <1>1 DEF JobStateInv
  <2>2. ASSUME NEW m \in Nodes, job[m] \notin {"idle", "delete"}
        PROVE  transfer[m] \in TransferIDs
    BY <2>2, WorksOnPush
  <2>3. \A u \in TransferIDs, j \in Attempts : call'[u][j] \in Running => call[u][j] \in Running
    BY <1>1
  <2>4. JobCallInv'
    BY <2>2, <2>3, <1>1 DEF JobCallInv
  <2>5. QED
    BY <2>1, <2>4
<1>5. CallInv'
  <2>1. SessionInv'
    BY <1>1, <1>2 DEF SessionInv
  <2>2. RunningInv'
    BY <1>1, <1>2 DEF RunningInv
  <2>3. \A u \in TransferIDs, j \in Attempts :
          \/ u = t /\ j = k /\ call'[u][j] = "ok"
          \/ call'[u][j] = call[u][j] /\ (session'[u] = "live" => session[u] = "live")
    BY <1>1
  <2>4. UNCHANGED <<state, transfer, active, prepared, landed>>
    BY <1>1
  <2> HIDE DEF TypeOK
  <2>5. ProgressInv'
    BY <2>3, <2>4, <1>2 DEF ProgressInv
  <2>6. QED
    BY <2>1, <2>2, <2>5
<1>6. TargetInv' /\ OwnerInv' /\ RestsInactive'
  BY <1>1 DEF TargetInv, OwnerInv, RestsInactive
<1>7. QED
  BY <1>3, <1>4, <1>5, <1>6

-----------------------------------------------------------------------------
\* The invariant.

LEMMA MoveInvInit == Init => MoveInv
<1> SUFFICES ASSUME Init PROVE MoveInv
  OBVIOUS
<1>1. TypeOK
  BY AttemptFacts, MoveAssumption DEF Init, VolumeStates, JobStates
<1>2. TagsInv
  BY MoveAssumption DEF Init, OwnTransfer, FreshTransfers
<1>3. JobInv
  BY DEF Init, JobStateInv, JobCallInv
<1>4. CallInv
  BY DEF Init, SessionInv, RunningInv, ProgressInv
<1>5. TargetInv /\ OwnerInv /\ RestsInactive
  BY DEF Init, TargetInv, OwnerInv, RestsInactive
<1>6. QED
  BY <1>1, <1>2, <1>3, <1>4, <1>5

LEMMA MoveInvStep ==
  ASSUME Calm, MoveInv, [Next]_vars PROVE MoveInv'
<1>1. TypeOK'
  BY TypeStep
<1>2. ASSUME NEW n \in Nodes, Verbs(n) PROVE MoveInv'
  BY <1>1, <1>2, PrepareReceiveStep, PushVolumeStep, AttachStep, DetachStep,
     DeleteVolumeStep DEF Verbs
<1>3. ASSUME NEW n \in Nodes, PushSteps(n) PROVE MoveInv'
  BY <1>1, <1>3, ActivateStep, StreamEndsStep, StreamDropsStep, MarkCommittingStep,
     CommitArrivesStep, CommitReplyStep, CommitCallFailsStep, QueryStep, QueryFailsStep,
     AbortTransferStep, AbortPushStep, RetirePushedStep DEF PushSteps
<1>4. ASSUME NEW n \in Nodes, RunDelete(n) \/ Crash(n) \/ Restart(n) PROVE MoveInv'
  BY <1>1, <1>4, RunDeleteStep, CrashStep, RestartStep
<1>5. ASSUME NEW t \in TransferIDs, GraceExpires(t) PROVE MoveInv'
  BY <1>1, <1>5, GraceExpiresStep
<1>6. ASSUME NEW t \in TransferIDs, NEW k \in Attempts, CommitSteps(t, k) PROVE MoveInv'
  BY <1>1, <1>6, CommitVerifiesStep, CommitRefusedStep, CommitFailsStep, CommitLandsStep,
     CommitFinishesStep DEF CommitSteps
<1>7. CASE UNCHANGED vars
  <2>1. TagsInv' /\ JobInv'
    BY <1>7 DEF vars, OwnTransfer, FreshTransfers, JobStateInv, JobCallInv
  <2>2. CallInv'
    BY <1>7 DEF vars, SessionInv, RunningInv, ProgressInv
  <2>3. TargetInv' /\ OwnerInv' /\ RestsInactive'
    BY <1>7 DEF vars, TargetInv, OwnerInv, RestsInactive
  <2>4. QED
    BY <1>1, <2>1, <2>2, <2>3
<1>8. QED
  BY <1>2, <1>3, <1>4, <1>5, <1>6, <1>7 DEF Next

\* Tags, goroutines, sessions and calls of a move agree with each other, with
\* the copy on the target and with the one owner of the volume, in every
\* interleaving of push.go, resolve.go and transfers.go with crashes, lost
\* calls and failed lvm commands.
THEOREM MoveInvariant ==
  ASSUME Calm PROVE Spec => []MoveInv
<1>1. MoveInv /\ [Next]_vars => MoveInv'
  BY MoveInvStep
<1>2. QED
  BY <1>1, MoveInvInit, PTL DEF Spec

\* At most one node holds an authoritative copy of the volume (README.md),
\* and while a source waits for a commit that did not land nobody else
\* serves it.
THEOREM OneCopyServes ==
  ASSUME Calm PROVE Spec => []SingleCopy
<1>1. MoveInv => SingleCopy
  BY DEF SingleCopy, OwnerInv
<1>2. QED
  BY <1>1, MoveInvariant, PTL

\* READY and RETIRED volumes are inactive (deactivatePushed of pushes.go).
THEOREM RestingIsInactive ==
  ASSUME Calm PROVE Spec => []RestsInactive
<1>1. MoveInv => RestsInactive
  OBVIOUS
<1>2. QED
  BY <1>1, MoveInvariant, PTL
=============================================================================
