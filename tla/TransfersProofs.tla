--------------------------- MODULE TransfersProofs ---------------------------
(***************************************************************************)
(* TLAPS proofs about Transfers, for every set of transfers and calls and  *)
(* every limit.  TypeCorrect, LimitIsKept, OkIsTrue and IdsAreSpent hold   *)
(* for handlers that interleave in any way (Overlap or not); the theorems  *)
(* about the volume for handlers of one transfer that do not overlap.      *)
(***************************************************************************)
EXTENDS Transfers, FiniteSetTheorems, TLAPS

CommitStates == {"none"} \cup Serving \cup Ended
DestroyStates == {"none", "check", "finish", "remove"}
PrepareStates == {"idle", "reserve", "create", "arm", "done"}

-----------------------------------------------------------------------------
\* Pointwise effect of the assignments the actions are made of.

LEMMA CommitEffect ==
  ASSUME TypeOK, NEW t \in TransferIDs, NEW k \in Calls, NEW c \in CommitStates,
         SetCommit(t, k, c)
  PROVE  /\ commit' \in [TransferIDs -> [Calls -> CommitStates]]
         /\ \A u \in TransferIDs, j \in Calls :
              commit'[u][j] = IF u = t /\ j = k THEN c ELSE commit[u][j]
         /\ \A u \in TransferIDs : u # t => commit'[u] = commit[u]
  BY DEF TypeOK, SetCommit, CommitStates

LEMMA DestroyEffect ==
  ASSUME TypeOK, NEW t \in TransferIDs, NEW c \in Callers, NEW pc \in DestroyStates,
         SetDestroy(t, c, pc)
  PROVE  /\ destroy' \in [TransferIDs -> [Callers -> DestroyStates]]
         /\ \A u \in TransferIDs, d \in Callers :
              destroy'[u][d] = IF u = t /\ d = c THEN pc ELSE destroy[u][d]
         /\ \A u \in TransferIDs : u # t => destroy'[u] = destroy[u]
  BY DEF TypeOK, SetDestroy, DestroyStates

LEMMA StartEffect ==
  ASSUME TypeOK, NEW t \in TransferIDs, NEW c \in Callers, StartDestroy(t, c)
  PROVE  /\ destroy' \in [TransferIDs -> [Callers -> DestroyStates]]
         /\ \A u \in TransferIDs, d \in Callers :
              destroy'[u][d] = IF u = t /\ d = c THEN "check" ELSE destroy[u][d]
         /\ \A u \in TransferIDs : u # t => destroy'[u] = destroy[u]
  BY DEF TypeOK, StartDestroy, DestroyStates

LEMMA PrepareEffect ==
  ASSUME TypeOK, NEW t \in TransferIDs, NEW pc \in PrepareStates,
         prepare' = [prepare EXCEPT ![t] = pc]
  PROVE  /\ prepare' \in [TransferIDs -> PrepareStates]
         /\ \A u \in TransferIDs : prepare'[u] = IF u = t THEN pc ELSE prepare[u]
  BY DEF TypeOK, PrepareStates

LEMMA TimerEffect ==
  ASSUME TypeOK, NEW t \in TransferIDs, NEW S \in SUBSET {"current", "leaked"},
         timer' = [timer EXCEPT ![t] = S]
  PROVE  /\ timer' \in [TransferIDs -> SUBSET {"current", "leaked"}]
         /\ \A u \in TransferIDs : timer'[u] = IF u = t THEN S ELSE timer[u]
  BY DEF TypeOK

LEMMA StopEffect ==
  ASSUME TypeOK, NEW t \in TransferIDs, NEW x, timer' = [timer EXCEPT ![t] = @ \ {x}]
  PROVE  /\ timer' \in [TransferIDs -> SUBSET {"current", "leaked"}]
         /\ \A u \in TransferIDs : timer'[u] = IF u = t THEN timer[u] \ {x} ELSE timer[u]
<1>1. timer[t] \ {x} \in SUBSET {"current", "leaked"}
  BY DEF TypeOK
<1>2. timer' = [timer EXCEPT ![t] = timer[t] \ {x}]
  OBVIOUS
<1>3. QED
  BY <1>1, <1>2, TimerEffect

LEMMA FinishEffect ==
  ASSUME TypeOK, NEW t \in TransferIDs, Finish(t)
  PROVE  /\ table' \in [TransferIDs -> {"none", "live", "dead"}]
         /\ timer' \in [TransferIDs -> SUBSET {"current", "leaked"}]
         /\ open' \subseteq TransferIDs
         /\ \A u \in TransferIDs :
              table'[u] = IF u = t /\ table[t] = "live" THEN "dead" ELSE table[u]
         /\ \A u \in TransferIDs : u # t => timer'[u] = timer[u]
         /\ open' = IF table[t] = "live" THEN open \ {t} ELSE open
<1>1. CASE table[t] = "live"
  <2>1. /\ table' = [table EXCEPT ![t] = "dead"]
        /\ timer' = [timer EXCEPT ![t] = @ \ {"current"}]
        /\ open' = open \ {t}
    BY <1>1 DEF Finish
  <2>2. /\ timer' \in [TransferIDs -> SUBSET {"current", "leaked"}]
        /\ \A u \in TransferIDs : u # t => timer'[u] = timer[u]
    BY <2>1, StopEffect
  <2>3. /\ table' \in [TransferIDs -> {"none", "live", "dead"}]
        /\ \A u \in TransferIDs : table'[u] = IF u = t THEN "dead" ELSE table[u]
    BY <2>1 DEF TypeOK
  <2>4. QED
    BY <1>1, <2>1, <2>2, <2>3 DEF TypeOK
<1>2. CASE table[t] # "live"
  BY <1>2 DEF Finish, TypeOK
<1>3. QED
  BY <1>1, <1>2

LEMMA ArmEffect ==
  ASSUME TypeOK, NEW t \in TransferIDs, ArmGrace(t)
  PROVE  /\ timer' \in [TransferIDs -> SUBSET {"current", "leaked"}]
         /\ \A u \in TransferIDs : u # t => timer'[u] = timer[u]
<1> DEFINE S == {"current"} \cup {x \in {"leaked"} : timer[t] # {}}
<1>1. S \in SUBSET {"current", "leaked"} /\ timer' = [timer EXCEPT ![t] = S]
  BY DEF TypeOK, ArmGrace
<1> HIDE DEF S
<1>2. QED
  BY <1>1, TimerEffect

LEMMA FaultEffect ==
  ASSUME TypeOK, Fault \/ NoFault
  PROVE  faults' \in 0..MaxFaults /\ restarts' = restarts
  BY TransfersAssumption DEF TypeOK, Fault, NoFault, bounds

-----------------------------------------------------------------------------
\* Every step keeps the types.
LEMMA TypeStep ==
  ASSUME TypeOK, [Next]_vars PROVE TypeOK'
<1> USE DEF TypeOK, CommitStates, DestroyStates, PrepareStates, Serving, Ended, Callers,
            table_vars, stream_vars, lvm_vars, bounds
<1>1. ASSUME NEW t \in TransferIDs, PrepareLookup(t) PROVE TypeOK'
  BY <1>1, PrepareEffect DEF PrepareLookup
<1>2. ASSUME NEW t \in TransferIDs, PrepareReserve(t) PROVE TypeOK'
  BY <1>2, PrepareEffect DEF PrepareReserve
<1>3. ASSUME NEW t \in TransferIDs, PrepareCreate(t) PROVE TypeOK'
  <2>1. prepare' \in [TransferIDs -> PrepareStates] /\ faults' \in 0..MaxFaults /\ restarts' = restarts
    BY <1>3, PrepareEffect, FaultEffect DEF PrepareCreate, FailsIf
  <2>2. CASE UNCHANGED <<table, timer, open>>
    BY <1>3, <2>1, <2>2 DEF PrepareCreate
  <2>3. CASE Finish(t) /\ UNCHANGED lvm_vars
    BY <1>3, <2>1, <2>3, FinishEffect DEF PrepareCreate
  <2>4. QED
    BY <1>3, <2>2, <2>3 DEF PrepareCreate
<1>4. ASSUME NEW t \in TransferIDs, PrepareArm(t) PROVE TypeOK'
  BY <1>4, PrepareEffect, ArmEffect, StartEffect, FaultEffect DEF PrepareArm, FailsIf
<1>5. ASSUME NEW t \in TransferIDs, Attach(t) PROVE TypeOK'
  <2>1. timer' \in [TransferIDs -> SUBSET {"current", "leaked"}]
    BY <1>5, StopEffect DEF Attach
  <2>2. streams' \in [TransferIDs -> 0..MaxStreams]
    BY <1>5, TransfersAssumption DEF Attach
  <2>3. QED
    BY <1>5, <2>1, <2>2 DEF Attach
<1>6. ASSUME NEW t \in TransferIDs, WriteLookup(t) PROVE TypeOK'
  BY <1>6 DEF WriteLookup
<1>7. ASSUME NEW t \in TransferIDs, WriteFrame(t) PROVE TypeOK'
  BY <1>7 DEF WriteFrame
<1>8. ASSUME NEW t \in TransferIDs, Detach(t) PROVE TypeOK'
  BY <1>8, ArmEffect DEF Detach
<1>9. ASSUME NEW t \in TransferIDs, NEW k \in Calls, Commit(t, k) PROVE TypeOK'
  BY <1>9, CommitEffect DEF Commit, CommitAnswer
<1>10. ASSUME NEW t \in TransferIDs, NEW k \in Calls, CommitSum(t, k) PROVE TypeOK'
  BY <1>10, CommitEffect, StartEffect DEF CommitSum, CommitFails
<1>11. ASSUME NEW t \in TransferIDs, NEW k \in Calls, CommitSync(t, k) PROVE TypeOK'
  BY <1>11, CommitEffect, StartEffect, FaultEffect DEF CommitSync, CommitFails
<1>12. ASSUME NEW t \in TransferIDs, NEW k \in Calls, CommitDeactivate(t, k) PROVE TypeOK'
  BY <1>12, CommitEffect, StartEffect, FaultEffect DEF CommitDeactivate, CommitFails, FailsIf
<1>13. ASSUME NEW t \in TransferIDs, NEW k \in Calls, CommitRetag(t, k) PROVE TypeOK'
  BY <1>13, CommitEffect, StartEffect, FaultEffect DEF CommitRetag, CommitFails, FailsIf
<1>14. ASSUME NEW t \in TransferIDs, NEW k \in Calls, CommitMark(t, k) PROVE TypeOK'
  BY <1>14, CommitEffect DEF CommitMark
<1>15. ASSUME NEW t \in TransferIDs, NEW k \in Calls, CommitFinish(t, k) PROVE TypeOK'
  BY <1>15, CommitEffect, FinishEffect DEF CommitFinish
<1>16. ASSUME NEW t \in TransferIDs, Abort(t) PROVE TypeOK'
  BY <1>16, StartEffect DEF Abort
<1>17. ASSUME NEW t \in TransferIDs, NEW x \in {"current", "leaked"}, GraceFires(t, x)
       PROVE  TypeOK'
  BY <1>17, StartEffect, StopEffect DEF GraceFires
<1>18. ASSUME NEW t \in TransferIDs, NEW c \in Callers, DestroyCheck(t, c) PROVE TypeOK'
  BY <1>18, DestroyEffect DEF DestroyCheck
<1>19. ASSUME NEW t \in TransferIDs, NEW c \in Callers, DestroyFinish(t, c) PROVE TypeOK'
  BY <1>19, DestroyEffect, FinishEffect DEF DestroyFinish
<1>20. ASSUME NEW t \in TransferIDs, NEW c \in Callers, DestroyRemove(t, c) PROVE TypeOK'
  BY <1>20, DestroyEffect, FaultEffect DEF DestroyRemove, FailsIf
<1>21. CASE VolumeLeaves
  BY <1>21 DEF VolumeLeaves
<1>22. CASE Restart
  BY <1>22, TransfersAssumption DEF Restart
<1>23. CASE UNCHANGED vars
  BY <1>23 DEF vars
<1> HIDE DEF TypeOK, Callers
<1>24. QED
  BY <1>1, <1>2, <1>3, <1>4, <1>5, <1>6, <1>7, <1>8, <1>9, <1>10, <1>11, <1>12, <1>13,
     <1>14, <1>15, <1>16, <1>17, <1>18, <1>19, <1>20, <1>21, <1>22, <1>23
     DEF Next, PrepareSteps, CommitSteps, DestroySteps

LEMMA TypeInit == Init => TypeOK
  BY TransfersAssumption DEF Init, TypeOK

-----------------------------------------------------------------------------
\* The limit of inbound transfers.

\* The limit with what its induction needs: Cardinality speaks of finite sets.
LimitInv == TypeOK /\ IsFiniteSet(Live) /\ Cardinality(Live) <= MaxInbound

\* What a step does to the table: finish ends a session, a prepare that Admits
\* lets through starts one, a restart forgets them all.
LEMMA TableStep ==
  ASSUME [Next]_vars
  PROVE  \/ UNCHANGED table
         \/ \E t \in TransferIDs : Finish(t)
         \/ \E t \in TransferIDs : Admits(t) /\ table' = [table EXCEPT ![t] = "live"]
         \/ Restart
<1> USE DEF table_vars
<1>1. ASSUME NEW t \in TransferIDs, PrepareReserve(t)
      PROVE  UNCHANGED table \/ (Admits(t) /\ table' = [table EXCEPT ![t] = "live"])
  BY <1>1 DEF PrepareReserve
<1>2. ASSUME NEW t \in TransferIDs,
             \/ PrepareLookup(t) \/ PrepareCreate(t) \/ PrepareArm(t)
             \/ Attach(t) \/ WriteLookup(t) \/ WriteFrame(t) \/ Detach(t) \/ Abort(t)
             \/ \E x \in {"current", "leaked"} : GraceFires(t, x)
      PROVE  Finish(t) \/ UNCHANGED table
  BY <1>2 DEF PrepareLookup, PrepareCreate, PrepareArm, Attach, WriteLookup, WriteFrame,
              Detach, Abort, GraceFires
<1>3. ASSUME NEW t \in TransferIDs, NEW k \in Calls, Commit(t, k) \/ CommitSteps(t, k)
      PROVE  Finish(t) \/ UNCHANGED table
  BY <1>3 DEF Commit, CommitSteps, CommitSum, CommitSync, CommitDeactivate, CommitRetag,
              CommitMark, CommitFinish
<1>4. ASSUME NEW t \in TransferIDs, NEW c \in Callers, DestroySteps(t, c)
      PROVE  Finish(t) \/ UNCHANGED table
  BY <1>4 DEF DestroySteps, DestroyCheck, DestroyFinish, DestroyRemove
<1>5. CASE VolumeLeaves \/ UNCHANGED vars
  BY <1>5 DEF VolumeLeaves, vars
<1>6. QED
  BY <1>1, <1>2, <1>3, <1>4, <1>5 DEF Next, PrepareSteps

\* Sessions come into the table one at a time, through Admits.
LEMMA LiveStep ==
  ASSUME TypeOK, [Next]_vars
  PROVE  \/ Live' \subseteq Live
         \/ Cardinality(Live) < MaxInbound /\ \E t \in TransferIDs : Live' = Live \cup {t}
<1>1. ASSUME NEW t \in TransferIDs, Admits(t), table' = [table EXCEPT ![t] = "live"]
      PROVE  Cardinality(Live) < MaxInbound /\ Live' = Live \cup {t}
  BY <1>1 DEF Admits, TypeOK, Live
<1>2. ASSUME NEW t \in TransferIDs, Finish(t) PROVE Live' \subseteq Live
  BY <1>2, FinishEffect DEF Live
<1>3. CASE UNCHANGED table \/ Restart
  BY <1>3 DEF Restart, Live
<1>4. QED
  BY <1>1, <1>2, <1>3, TableStep

LEMMA LimitInvariant == Spec => []LimitInv
<1>1. Init => LimitInv
  <2> SUFFICES ASSUME Init PROVE LimitInv
    OBVIOUS
  <2>1. Live = {}
    BY DEF Init, Live
  <2>2. IsFiniteSet(Live) /\ Cardinality(Live) = 0
    BY <2>1, FS_EmptySet
  <2>3. QED
    BY <2>2, TypeInit, TransfersAssumption DEF LimitInv
<1>2. LimitInv /\ [Next]_vars => LimitInv'
  <2> SUFFICES ASSUME LimitInv, [Next]_vars PROVE LimitInv'
    OBVIOUS
  <2>1. TypeOK'
    BY TypeStep DEF LimitInv
  <2>2. Cardinality(Live) \in Nat
    BY FS_CardinalityType DEF LimitInv
  <2>3. CASE Live' \subseteq Live
    <3>1. IsFiniteSet(Live') /\ Cardinality(Live') <= Cardinality(Live)
      BY <2>3, FS_Subset DEF LimitInv
    <3>2. Cardinality(Live') \in Nat
      BY <3>1, FS_CardinalityType
    <3>3. QED
      BY <2>1, <2>2, <3>1, <3>2, TransfersAssumption DEF LimitInv
  <2>4. ASSUME NEW t \in TransferIDs, Cardinality(Live) < MaxInbound, Live' = Live \cup {t}
        PROVE  LimitInv'
    <3>1. /\ IsFiniteSet(Live')
          /\ Cardinality(Live') = Cardinality(Live) \/ Cardinality(Live') = Cardinality(Live) + 1
      BY <2>4, FS_AddElement DEF LimitInv
    <3>2. QED
      BY <2>1, <2>2, <2>4, <3>1, TransfersAssumption DEF LimitInv
  <2>5. QED
    BY <2>3, <2>4, LiveStep DEF LimitInv
<1>3. QED
  BY <1>1, <1>2, PTL DEF Spec

\* The table is well formed and never holds more than cfg.MaxInboundTransfers
\* sessions, however prepares, streams, commits, timers and restarts interleave
\* (PrepareReceive reserves the id before its lvm calls).
THEOREM LimitIsKept == Spec => []LimitHolds
<1>1. LimitInv => LimitHolds
  BY DEF LimitInv, LimitHolds
<1>2. QED
  BY <1>1, LimitInvariant, PTL

-----------------------------------------------------------------------------
\* What an OK answer means.

LEMMA CommittedStep ==
  ASSUME TypeOK, CommittedInv, [Next]_vars PROVE CommittedInv'
<1> USE DEF CommittedInv, table_vars
<1>1. ASSUME NEW t \in TransferIDs, NEW k \in Calls, Commit(t, k) PROVE CommittedInv'
  <2>1. PICK c \in {"sum", "ok", "busy", "unknown"} :
          SetCommit(t, k, c) /\ (c = "ok" => t \in committed)
    BY <1>1 DEF Commit, CommitAnswer
  <2>2. QED
    BY <1>1, <2>1, CommitEffect DEF Commit, CommitStates, Serving, Ended
<1>2. ASSUME NEW t \in TransferIDs, NEW k \in Calls,
             CommitSum(t, k) \/ CommitSync(t, k) \/ CommitDeactivate(t, k)
      PROVE  CommittedInv'
  <2>1. PICK c \in {"sync", "deactivate", "retag", "dataloss", "error"} : SetCommit(t, k, c)
    BY <1>2 DEF CommitSum, CommitSync, CommitDeactivate, CommitFails
  <2>2. UNCHANGED <<committed, landed>>
    BY <1>2 DEF CommitSum, CommitSync, CommitDeactivate
  <2>3. QED
    BY <2>1, <2>2, CommitEffect DEF CommitStates, Serving, Ended
<1>3. ASSUME NEW t \in TransferIDs, NEW k \in Calls, CommitRetag(t, k) PROVE CommittedInv'
  <2>1. PICK c \in {"mark", "error"} :
          /\ SetCommit(t, k, c) /\ landed \subseteq landed'
          /\ (c = "mark" => t \in landed') /\ UNCHANGED committed
    BY <1>3 DEF CommitRetag, CommitFails
  <2>2. QED
    BY <2>1, CommitEffect DEF CommitStates, Serving, Ended
<1>4. ASSUME NEW t \in TransferIDs, NEW k \in Calls, CommitMark(t, k) PROVE CommittedInv'
  <2>1. t \in landed
    BY <1>4 DEF CommitMark
  <2>2. QED
    BY <1>4, <2>1, CommitEffect DEF CommitMark, CommitStates, Serving
<1>5. ASSUME NEW t \in TransferIDs, NEW k \in Calls, CommitFinish(t, k) PROVE CommittedInv'
  <2>1. t \in landed
    BY <1>5 DEF CommitFinish
  <2>2. QED
    BY <1>5, <2>1, CommitEffect DEF CommitFinish, CommitStates, Ended
<1>6. ASSUME NEW t \in TransferIDs,
             \/ PrepareLookup(t) \/ PrepareSteps(t)
             \/ Attach(t) \/ WriteLookup(t) \/ WriteFrame(t) \/ Detach(t) \/ Abort(t)
             \/ \E x \in {"current", "leaked"} : GraceFires(t, x)
             \/ \E c \in Callers : DestroySteps(t, c)
      PROVE  UNCHANGED <<committed, commit, landed>>
  BY <1>6 DEF PrepareLookup, PrepareSteps, PrepareReserve, PrepareCreate, PrepareArm, Attach,
              WriteLookup, WriteFrame, Detach, Abort, GraceFires, DestroySteps, DestroyCheck,
              DestroyFinish, DestroyRemove
<1>7. CASE VolumeLeaves \/ UNCHANGED vars
  BY <1>7 DEF VolumeLeaves, vars
<1>8. CASE Restart
  BY <1>8 DEF Restart
<1>9. ASSUME UNCHANGED <<committed, commit, landed>> PROVE CommittedInv'
  BY <1>9
<1> HIDE DEF CommittedInv
<1>10. QED
  BY <1>1, <1>2, <1>3, <1>4, <1>5, <1>6, <1>7, <1>8, <1>9 DEF Next, CommitSteps

\* Commit answers OK only for a transfer that retagged its volume READY,
\* whatever aborts, timers and repeated calls ran in between.
THEOREM OkIsTrue == Spec => []AnswersTrue
<1>1. Init => TypeOK /\ CommittedInv
  BY TypeInit DEF Init, CommittedInv
<1>2. TypeOK /\ CommittedInv /\ [Next]_vars => TypeOK' /\ CommittedInv'
  BY TypeStep, CommittedStep
<1>3. CommittedInv => AnswersTrue
  BY DEF CommittedInv, AnswersTrue
<1>4. QED
  BY <1>1, <1>2, <1>3, PTL DEF Spec

\* The types, which the other theorems start from.
THEOREM TypeCorrect == Spec => []TypeOK
<1>1. TypeOK /\ [Next]_vars => TypeOK'
  BY TypeStep
<1>2. QED
  BY <1>1, TypeInit, PTL DEF Spec

\* While the daemon runs an ended transfer id stays dead (transfer.proto:
\* ids are single use), in every interleaving.
THEOREM IdsAreSpent == Spec => IdsSpent
<1> DEFINE Step == \A t \in TransferIDs :
                     table[t] = "dead" /\ restarts' = restarts => table'[t] = "dead"
<1>1. ASSUME TypeOK, [Next]_vars PROVE Step
  <2>1. ASSUME NEW t \in TransferIDs, Finish(t) PROVE Step
    BY <1>1, <2>1, FinishEffect
  <2>2. ASSUME NEW t \in TransferIDs, Admits(t), table' = [table EXCEPT ![t] = "live"]
        PROVE  Step
    BY <1>1, <2>2 DEF Admits, TypeOK
  <2>3. CASE Restart
    BY <1>1, <2>3 DEF Restart, TypeOK
  <2>4. QED
    BY <1>1, <2>1, <2>2, <2>3, TableStep
<1>2. QED
  BY <1>1, TypeCorrect, PTL DEF Spec, IdsSpent

-----------------------------------------------------------------------------
\* The volume of a transfer, for handlers that do not overlap.

\* Nothing of transfer u is touched.
Same(u) ==
  /\ table'[u] = table[u] /\ prepare'[u] = prepare[u] /\ timer'[u] = timer[u]
  /\ commit'[u] = commit[u] /\ destroy'[u] = destroy[u]
  /\ u \in writing' <=> u \in writing
  /\ u \in open' <=> u \in open

\* The volume is left alone, or changes hands between others.
NotMine(u) == UNCHANGED lvm_vars \/ (~(state = "incoming" /\ origin = u) /\ origin' # u)

\* What another transfer does leaves the row of u intact.
LEMMA FrameRow ==
  ASSUME NEW u \in TransferIDs, Row(u), Same(u), NotMine(u), faults' = 0 => faults = 0
  PROVE  Row(u)'
<1> USE DEF Preparing, Committing, Destroying, Landing, Same
<1>1. OneHandler(u)' /\ Unused(u)'
  BY DEF Row, OneHandler, Unused, Undisturbed
<1>2. InTable(u)' /\ Closed(u)'
  BY DEF Row, InTable, Closed
<1>3. HasVolume(u)'
  BY DEF Row, HasVolume, NotMine, lvm_vars
<1>4. NotOrphaned(u)'
  BY DEF Row, NotOrphaned, NotMine, lvm_vars
<1>5. QED
  BY <1>1, <1>2, <1>3, <1>4 DEF Row

LEMMA FaultsGrow ==
  ASSUME TypeOK, Fault \/ NoFault PROVE faults' = 0 => faults = 0 /\ NoFault
  BY DEF TypeOK, Fault, NoFault, bounds

\* A handler that is half way is the only one.
LEMMA CommitAlone ==
  ASSUME NEW t \in TransferIDs, Row(t), NEW k \in Calls, commit[t][k] \in Serving
  PROVE  /\ ~Preparing(t) /\ t \notin writing /\ table[t] = "live"
         /\ \A j \in Calls : j # k => commit[t][j] \notin Serving
         /\ \A c \in Callers : destroy[t][c] = "none"
  BY DEF Row, OneHandler, InTable, Committing, Destroying

LEMMA DestroyAlone ==
  ASSUME NEW t \in TransferIDs, Row(t), NEW c \in Callers, destroy[t][c] # "none"
  PROVE  /\ ~Preparing(t) /\ t \notin writing
         /\ \A k \in Calls : commit[t][k] \notin Serving
         /\ \A d \in Callers : d # c => destroy[t][d] = "none"
  BY DEF Row, OneHandler, Committing, Destroying

LEMMA PrepareAlone ==
  ASSUME NEW t \in TransferIDs, Row(t), Preparing(t)
  PROVE  /\ t \notin writing /\ table[t] = "live"
         /\ \A k \in Calls : commit[t][k] \notin Serving
         /\ \A d \in Callers : destroy[t][d] = "none"
  BY DEF Row, OneHandler, InTable, Committing, Destroying

\* While a destroy is about to remove its volume no device is open.
LEMMA RemoveUnopened ==
  ASSUME TableInv, NEW t \in TransferIDs, NEW c \in Callers, destroy[t][c] = "remove"
  PROVE  ~InUse
<1> SUFFICES ASSUME NEW u \in open PROVE FALSE
  BY DEF InUse
<1>1. u \in TransferIDs /\ Row(u) /\ Row(t)
  BY DEF TableInv, TypeOK
<1>2. table[u] = "live" /\ prepare[u] # "create" /\ ~Landing(u)
  BY <1>1 DEF Row, InTable, Closed, Landing
<1>3. origin = u /\ origin = t /\ table[t] = "dead"
  BY <1>1, <1>2 DEF Row, HasVolume, InTable
<1>4. QED
  BY <1>2, <1>3

\* A step of transfer t, from the row of t and what it leaves to the others.
LEMMA RowStep ==
  ASSUME TableInv, TypeOK', NEW t \in TransferIDs, Row(t)',
         \A u \in TransferIDs : u # t => Same(u) /\ NotMine(u),
         faults' = 0 => faults = 0,
         UNCHANGED lvm_vars \/ (state' = "absent" <=> origin' = NoTransfer)
  PROVE  TableInv'
<1>1. ASSUME NEW u \in TransferIDs, u # t PROVE Row(u)'
  BY <1>1, FrameRow DEF TableInv
<1>2. state' = "absent" <=> origin' = NoTransfer
  BY DEF TableInv, lvm_vars
<1>3. QED
  BY <1>1, <1>2 DEF TableInv

LEMMA PrepareLookupStep ==
  ASSUME TableInv, TypeOK', ~Overlap, NEW t \in TransferIDs, PrepareLookup(t)
  PROVE  TableInv'
<1>1. /\ Undisturbed(t) /\ state = "absent" /\ origin = NoTransfer /\ origin # t /\ Row(t)
      /\ prepare'[t] = "reserve"
      /\ \A u \in TransferIDs : u # t => prepare'[u] = prepare[u]
      /\ UNCHANGED <<table, writing, open, timer, lvm_vars, commit, destroy, faults>>
  BY PrepareEffect, TransfersAssumption
     DEF PrepareLookup, MayStart, TableInv, PrepareStates, table_vars, stream_vars, bounds
<1>2. OneHandler(t)' /\ Unused(t)'
  BY <1>1 DEF Row, OneHandler, Unused, Undisturbed, Preparing, Committing, Destroying
<1>3. InTable(t)' /\ Closed(t)'
  BY <1>1 DEF Row, InTable, Closed, Undisturbed, Preparing, Committing
<1>4. HasVolume(t)' /\ NotOrphaned(t)'
  <2>1. table[t] # "live"
    BY <1>1 DEF Row, HasVolume, Undisturbed, Preparing, Committing, Landing, Serving
  <2>2. QED
    BY <1>1, <2>1 DEF Row, HasVolume, NotOrphaned, Landing, lvm_vars
<1>5. QED
  BY <1>1, <1>2, <1>3, <1>4, RowStep DEF Row, Same, NotMine

LEMMA PrepareReserveStep ==
  ASSUME TableInv, TypeOK', NEW t \in TransferIDs, PrepareReserve(t)
  PROVE  TableInv'
<1>1. /\ Row(t) /\ prepare[t] = "reserve"
      /\ \/ table[t] = "none" /\ table'[t] = "live" /\ prepare'[t] = "create"
         \/ table'[t] = table[t] /\ prepare'[t] = "done"
      /\ \A u \in TransferIDs : u # t => table'[u] = table[u] /\ prepare'[u] = prepare[u]
      /\ UNCHANGED <<writing, open, timer, lvm_vars, commit, destroy, faults>>
  BY PrepareEffect
     DEF PrepareReserve, Admits, TableInv, TypeOK, PrepareStates, stream_vars, bounds
<1>2. OneHandler(t)' /\ Unused(t)'
  BY <1>1 DEF Row, OneHandler, Unused, Undisturbed, Preparing, Committing, Destroying
<1>3. Closed(t)'
  BY <1>1 DEF Row, Closed, Unused
<1>4. InTable(t)'
  BY <1>1 DEF Row, InTable, Unused, Undisturbed, Preparing, Committing, Destroying
<1>5. HasVolume(t)' /\ NotOrphaned(t)'
  <2>1. table[t] = "none" => ~Landing(t)
    BY <1>1 DEF Row, Unused, Undisturbed, Committing, Landing, Serving
  <2>2. QED
    BY <1>1, <2>1 DEF Row, HasVolume, NotOrphaned, Landing, Unused, Undisturbed, Destroying, lvm_vars
<1>6. QED
  BY <1>1, <1>2, <1>3, <1>4, <1>5, RowStep DEF Row, Same, NotMine

LEMMA PrepareCreateStep ==
  ASSUME TableInv, TypeOK', NEW t \in TransferIDs, PrepareCreate(t)
  PROVE  TableInv'
<1> USE DEF table_vars, stream_vars, lvm_vars, bounds, PrepareStates
<1>1. /\ Row(t) /\ prepare[t] = "create" /\ table[t] = "live" /\ t \notin open /\ origin # t
      /\ \A u \in TransferIDs : u # t => prepare'[u] = prepare[u]
      /\ UNCHANGED <<writing, commit, destroy>>
  BY PrepareEffect DEF PrepareCreate, TableInv, Row, InTable, Closed, HasVolume, Preparing
<1>2. /\ t \notin writing /\ \A k \in Calls : commit[t][k] \notin Serving
      /\ \A c \in Callers : destroy[t][c] = "none"
  BY <1>1, PrepareAlone DEF Preparing
<1>3. CASE /\ state = "absent" /\ state' = "incoming" /\ origin' = t
           /\ prepare'[t] = "arm" /\ UNCHANGED <<table, timer, open, faults>>
  <2>1. OneHandler(t)' /\ Unused(t)'
    BY <1>1, <1>2, <1>3 DEF OneHandler, Unused, Preparing, Committing, Destroying
  <2>2. InTable(t)' /\ Closed(t)'
    BY <1>1, <1>2, <1>3 DEF InTable, Closed, Serving
  <2>3. HasVolume(t)' /\ NotOrphaned(t)'
    BY <1>1, <1>2, <1>3 DEF HasVolume, NotOrphaned, Landing, Serving
  <2>4. QED
    BY <1>1, <1>3, <2>1, <2>2, <2>3, RowStep, TransfersAssumption
       DEF Row, Same, NotMine, TableInv
<1>4. CASE Finish(t) /\ prepare'[t] = "done" /\ FailsIf(state # "absent") /\ UNCHANGED lvm_vars
  <2>1. /\ table'[t] = "dead" /\ open' = open \ {t}
        /\ \A u \in TransferIDs : u # t => table'[u] = table[u] /\ timer'[u] = timer[u]
        /\ faults' = 0 => faults = 0
    BY <1>1, <1>4, FinishEffect, FaultsGrow DEF TableInv, FailsIf
  <2>2. OneHandler(t)' /\ Unused(t)'
    BY <1>1, <1>2, <1>4, <2>1 DEF OneHandler, Unused, Preparing, Committing, Destroying
  <2>3. InTable(t)' /\ Closed(t)'
    BY <1>1, <1>2, <1>4, <2>1 DEF InTable, Closed, Preparing, Committing
  <2>4. HasVolume(t)' /\ NotOrphaned(t)'
    BY <1>1, <1>2, <1>4, <2>1 DEF HasVolume, NotOrphaned, Landing, Serving
  <2>5. QED
    BY <1>1, <1>4, <2>1, <2>2, <2>3, <2>4, RowStep DEF Row, Same, NotMine
<1>5. QED
  <2>1. TypeOK
    BY DEF TableInv
  <2>2. CASE prepare' = [prepare EXCEPT ![t] = "arm"]
    BY <2>1, <2>2, <1>3, PrepareEffect DEF PrepareCreate, NoFault
  <2>3. QED
    BY <2>1, <2>2, <1>3, <1>4, PrepareEffect DEF PrepareCreate, NoFault

LEMMA PrepareArmStep ==
  ASSUME TableInv, TypeOK', NEW t \in TransferIDs, PrepareArm(t)
  PROVE  TableInv'
<1> USE DEF table_vars, stream_vars, lvm_vars
<1>1. /\ Row(t) /\ prepare[t] = "arm" /\ prepare'[t] = "done" /\ TypeOK
      /\ \A u \in TransferIDs : u # t => prepare'[u] = prepare[u]
      /\ UNCHANGED <<table, writing, open, lvm_vars, commit>>
  BY PrepareEffect DEF PrepareArm, TableInv, PrepareStates
<1>2. /\ t \notin writing /\ table[t] = "live" /\ \A k \in Calls : commit[t][k] \notin Serving
      /\ \A c \in Callers : destroy[t][c] = "none"
  BY <1>1, PrepareAlone DEF Preparing
<1>3. /\ \A c \in Callers : destroy'[t][c] = "none" \/ (c = "prepare" /\ destroy'[t][c] = "check")
      /\ \A u \in TransferIDs : u # t => destroy'[u] = destroy[u] /\ timer'[u] = timer[u]
      /\ faults' = 0 => faults = 0
  <2>1. faults' = 0 => faults = 0
    BY <1>1, FaultsGrow DEF PrepareArm, FailsIf
  <2>2. CASE ArmGrace(t) /\ UNCHANGED destroy
    BY <1>1, <1>2, <2>1, <2>2, ArmEffect
  <2>3. CASE StartDestroy(t, "prepare") /\ UNCHANGED timer
    BY <1>1, <1>2, <2>1, <2>3, StartEffect DEF Callers
  <2>4. QED
    BY <2>2, <2>3 DEF PrepareArm
<1>4. OneHandler(t)' /\ Unused(t)'
  BY <1>1, <1>2, <1>3 DEF OneHandler, Unused, Preparing, Committing
<1>5. InTable(t)' /\ Closed(t)'
  BY <1>1, <1>2, <1>3 DEF Row, InTable, Closed
<1>6. HasVolume(t)' /\ NotOrphaned(t)'
  BY <1>1, <1>2, <1>3 DEF Row, HasVolume, NotOrphaned, Landing
<1>7. QED
  BY <1>1, <1>3, <1>4, <1>5, <1>6, RowStep DEF Row, Same, NotMine

-----------------------------------------------------------------------------
\* Streams.

LEMMA StreamStep ==
  ASSUME TableInv, TypeOK', ~Overlap, NEW t \in TransferIDs,
         Attach(t) \/ WriteLookup(t) \/ WriteFrame(t) \/ Detach(t)
  PROVE  TableInv'
<1> USE DEF table_vars, stream_vars, lvm_vars, bounds
<1>1. TypeOK /\ Row(t) /\ UNCHANGED <<table, prepare, commit, destroy, lvm_vars, faults>>
  BY DEF TableInv, Attach, WriteLookup, WriteFrame, Detach
<1>2. /\ \A u \in TransferIDs : u # t => timer'[u] = timer[u]
      /\ timer'[t] = timer[t] \/ table[t] = "live"
  BY <1>1, StopEffect, ArmEffect DEF Attach, WriteLookup, WriteFrame, Detach
<1>3. \/ UNCHANGED <<writing, open>>
      \/ /\ writing' = writing \cup {t} /\ UNCHANGED open
         /\ table[t] = "live" /\ Undisturbed(t)
      \/ t \in writing /\ writing' = writing \ {t} /\ open' \in {open, open \cup {t}}
  BY DEF Attach, WriteLookup, WriteFrame, Detach, MayStart
<1>4. t \in writing => /\ table[t] = "live" /\ ~Preparing(t)
                      /\ ~Committing(t) /\ ~Destroying(t)
  BY <1>1 DEF Row, OneHandler, InTable
<1>5. OneHandler(t)'
  BY <1>1, <1>3 DEF Row, OneHandler, Undisturbed, Preparing, Committing, Destroying
<1>6. Unused(t)' /\ InTable(t)'
  BY <1>1, <1>2, <1>3, <1>4
     DEF Row, Unused, InTable, Undisturbed, Preparing, Committing, Destroying
<1>7. Closed(t)'
  BY <1>1, <1>3, <1>4 DEF Row, Closed, Preparing, Committing, Serving
<1>8. HasVolume(t)' /\ NotOrphaned(t)'
  BY <1>1 DEF Row, HasVolume, NotOrphaned, Landing
<1>9. \A u \in TransferIDs : u # t => Same(u)
  BY <1>1, <1>2, <1>3 DEF Same
<1>10. QED
  BY <1>1, <1>5, <1>6, <1>7, <1>8, <1>9, RowStep DEF Row, NotMine

-----------------------------------------------------------------------------
\* Commit.

LEMMA CommitStep ==
  ASSUME TableInv, TypeOK', ~Overlap, NEW t \in TransferIDs, NEW k \in Calls, Commit(t, k)
  PROVE  TableInv'
<1> USE DEF table_vars, stream_vars, lvm_vars, bounds
<1>1. /\ TypeOK /\ Row(t) /\ Undisturbed(t)
      /\ UNCHANGED <<table, prepare, destroy, writing, open, timer, lvm_vars, faults>>
  BY DEF TableInv, Commit, MayStart
<1>2. PICK c \in {"sum", "ok", "busy", "unknown"} :
        SetCommit(t, k, c) /\ (c = "sum" => table[t] = "live")
  BY DEF Commit, CommitAnswer
<1>3. /\ \A j \in Calls : commit'[t][j] = IF j = k THEN c ELSE commit[t][j]
      /\ \A u \in TransferIDs : u # t => commit'[u] = commit[u]
  BY <1>1, <1>2, CommitEffect DEF CommitStates, Serving, Ended
<1>4. /\ ~Preparing(t) /\ t \notin writing
      /\ \A j \in Calls : commit[t][j] \notin Serving
      /\ \A d \in Callers : destroy[t][d] = "none"
  BY <1>1 DEF Undisturbed, Committing, Destroying
<1>5. OneHandler(t)' /\ Unused(t)'
  BY <1>1, <1>2, <1>3, <1>4
     DEF Row, OneHandler, Unused, Undisturbed, Preparing, Committing, Destroying, Serving
<1>6. InTable(t)' /\ Closed(t)'
  BY <1>1, <1>2, <1>3, <1>4 DEF Row, InTable, Closed, Preparing, Committing, Serving
<1>7. HasVolume(t)' /\ NotOrphaned(t)'
  <2>1. ~Landing(t) /\ ~Landing(t)'
    BY <1>3, <1>4 DEF Landing, Serving
  <2>2. QED
    BY <2>1, <1>1 DEF Row, HasVolume, NotOrphaned
<1>8. QED
  BY <1>1, <1>3, <1>5, <1>6, <1>7, RowStep DEF Row, Same, NotMine

\* A step of a commit that is being served, up to its retag: it goes on to c, or
\* fails and hands over to its destroy.
LEMMA CommitServes ==
  ASSUME TableInv, TypeOK', NEW t \in TransferIDs, NEW k \in Calls,
         NEW c \in {"sync", "deactivate", "retag"},
         commit[t][k] \in {"sum", "sync", "deactivate", "retag"},
         \/ SetCommit(t, k, c) /\ UNCHANGED destroy
         \/ \E a \in {"dataloss", "error"} : CommitFails(t, k, a),
         c \in {"deactivate", "retag"} /\ UNCHANGED destroy => t \notin open',
         open' \in {open, open \ {t}}, faults' = 0 => faults = 0,
         UNCHANGED <<table, prepare, writing, timer, lvm_vars>>
  PROVE  TableInv'
<1> USE DEF lvm_vars
<1>1. TypeOK /\ Row(t)
  BY DEF TableInv
<1>2. /\ ~Preparing(t) /\ t \notin writing /\ table[t] = "live"
      /\ \A j \in Calls : j # k => commit[t][j] \notin Serving
      /\ \A d \in Callers : destroy[t][d] = "none"
  BY <1>1, CommitAlone DEF Serving
<1>3. ~Landing(t) /\ prepare[t] # "create"
  BY <1>2 DEF Landing, Serving, Preparing
<1>4. CASE SetCommit(t, k, c) /\ UNCHANGED destroy
  <2>1. /\ \A j \in Calls : commit'[t][j] = IF j = k THEN c ELSE commit[t][j]
        /\ \A u \in TransferIDs : u # t => commit'[u] = commit[u]
    BY <1>1, <1>4, CommitEffect DEF CommitStates, Serving
  <2>2. OneHandler(t)' /\ Unused(t)'
    BY <2>1, <1>2, <1>4 DEF OneHandler, Unused, Preparing, Destroying
  <2>3. InTable(t)' /\ Closed(t)'
    BY <2>1, <1>2, <1>3, <1>4 DEF InTable, Closed, Serving
  <2>4. HasVolume(t)' /\ NotOrphaned(t)'
    BY <2>1, <1>1, <1>2, <1>3, <1>4 DEF Row, HasVolume, NotOrphaned, Landing, Serving
  <2>5. \A u \in TransferIDs : u # t => Same(u)
    BY <2>1, <1>4 DEF Same
  <2>6. QED
    BY <2>2, <2>3, <2>4, <2>5, <1>1, RowStep DEF Row, NotMine
<1>5. ASSUME NEW a \in {"dataloss", "error"}, CommitFails(t, k, a) PROVE TableInv'
  <2>1. /\ \A j \in Calls : commit'[t][j] = IF j = k THEN a ELSE commit[t][j]
        /\ \A u \in TransferIDs : u # t => commit'[u] = commit[u]
    BY <1>1, <1>5, CommitEffect DEF CommitFails, CommitStates, Ended
  <2>2. /\ \A d \in Callers : destroy'[t][d] = IF d = k THEN "check" ELSE destroy[t][d]
        /\ \A u \in TransferIDs : u # t => destroy'[u] = destroy[u]
    <3>1. k \in Callers
      BY DEF Callers
    <3>2. StartDestroy(t, k)
      BY <1>5 DEF CommitFails
    <3>3. QED
      BY <1>1, <3>1, <3>2, StartEffect
  <2>3. \A j \in Calls : commit'[t][j] \notin Serving
    BY <2>1, <1>2 DEF Serving
  <2>4. OneHandler(t)' /\ Unused(t)'
    BY <2>2, <2>3, <1>2 DEF OneHandler, Unused, Preparing, Committing
  <2>5. InTable(t)' /\ Closed(t)'
    BY <2>2, <2>3, <1>2, <1>3 DEF InTable, Closed, Serving
  <2>6. HasVolume(t)' /\ NotOrphaned(t)'
    BY <2>2, <2>3, <1>1, <1>2, <1>3 DEF Row, HasVolume, NotOrphaned, Landing, Serving
  <2>7. \A u \in TransferIDs : u # t => Same(u)
    BY <2>1, <2>2 DEF Same
  <2>8. QED
    BY <2>4, <2>5, <2>6, <2>7, <1>1, RowStep DEF Row, NotMine
<1>6. QED
  BY <1>4, <1>5

LEMMA CommitSumStep ==
  ASSUME TableInv, TypeOK', NEW t \in TransferIDs, NEW k \in Calls, CommitSum(t, k)
  PROVE  TableInv'
<1>1. \/ SetCommit(t, k, "sync") /\ UNCHANGED destroy
      \/ \E a \in {"dataloss", "error"} : CommitFails(t, k, a)
  BY DEF CommitSum
<1>2. QED
  BY <1>1, CommitServes DEF CommitSum, table_vars, stream_vars, lvm_vars, bounds

LEMMA CommitSyncStep ==
  ASSUME TableInv, TypeOK', NEW t \in TransferIDs, NEW k \in Calls, CommitSync(t, k)
  PROVE  TableInv'
<1>1. /\ \/ SetCommit(t, k, "deactivate") /\ UNCHANGED destroy
         \/ \E a \in {"dataloss", "error"} : CommitFails(t, k, a)
      /\ faults' = 0 => faults = 0
      /\ open' \in {open, open \ {t}}
  BY FaultsGrow DEF CommitSync, TableInv
<1>2. UNCHANGED destroy => t \notin open'
  <2>1. \A c \in Callers : destroy[t][c] = "none"
    BY CommitAlone DEF CommitSync, TableInv, Serving
  <2>2. CommitFails(t, k, "error") => destroy'[t][k] = "check"
    BY StartEffect DEF CommitFails, Callers, TableInv
  <2>3. QED
    BY <2>1, <2>2 DEF CommitSync, Callers
<1>3. QED
  BY <1>1, <1>2, CommitServes DEF CommitSync, table_vars, stream_vars, lvm_vars

LEMMA CommitDeactivateStep ==
  ASSUME TableInv, TypeOK', NEW t \in TransferIDs, NEW k \in Calls, CommitDeactivate(t, k)
  PROVE  TableInv'
<1>1. /\ \/ SetCommit(t, k, "retag") /\ UNCHANGED destroy
         \/ \E a \in {"dataloss", "error"} : CommitFails(t, k, a)
      /\ faults' = 0 => faults = 0
  BY FaultsGrow DEF CommitDeactivate, FailsIf, TableInv
<1>2. t \notin open
  BY DEF CommitDeactivate, TableInv, Row, Closed
<1>3. QED
  BY <1>1, <1>2, CommitServes DEF CommitDeactivate, table_vars, stream_vars, lvm_vars

LEMMA CommitRetagStep ==
  ASSUME TableInv, TypeOK', NEW t \in TransferIDs, NEW k \in Calls, CommitRetag(t, k)
  PROVE  TableInv'
<1> USE DEF table_vars, stream_vars, lvm_vars
<1>1. /\ TypeOK /\ Row(t) /\ commit[t][k] = "retag"
      /\ UNCHANGED <<table, prepare, writing, open, timer, origin>>
      /\ faults' = 0 => faults = 0
  BY FaultsGrow DEF CommitRetag, FailsIf, TableInv
<1>2. /\ ~Preparing(t) /\ t \notin writing /\ table[t] = "live" /\ t \notin open
      /\ \A j \in Calls : j # k => commit[t][j] \notin Serving
      /\ \A d \in Callers : destroy[t][d] = "none"
  BY <1>1, CommitAlone DEF Serving, Row, Closed
<1>3. prepare[t] # "create" /\ state = "incoming" /\ origin = t
  <2>1. ~Landing(t) /\ prepare[t] # "create"
    BY <1>1, <1>2 DEF Landing, Serving, Preparing
  <2>2. QED
    BY <2>1, <1>1, <1>2 DEF Row, HasVolume
<1>4. CASE state' = "ready" /\ SetCommit(t, k, "mark") /\ UNCHANGED destroy
  <2>1. /\ \A j \in Calls : commit'[t][j] = IF j = k THEN "mark" ELSE commit[t][j]
        /\ \A u \in TransferIDs : u # t => commit'[u] = commit[u]
    BY <1>1, <1>4, CommitEffect DEF CommitStates, Serving
  <2>2. OneHandler(t)' /\ Unused(t)'
    BY <2>1, <1>1, <1>2, <1>4 DEF OneHandler, Unused, Preparing, Destroying
  <2>3. InTable(t)' /\ Closed(t)'
    BY <2>1, <1>1, <1>2, <1>3, <1>4 DEF InTable, Closed
  <2>4. Landing(t)'
    BY <2>1 DEF Landing
  <2>5. HasVolume(t)' /\ NotOrphaned(t)'
    BY <2>4, <1>1, <1>2, <1>3, <1>4 DEF HasVolume, NotOrphaned
  <2>6. \A u \in TransferIDs : u # t => Same(u) /\ NotMine(u)
    BY <2>1, <1>1, <1>3, <1>4 DEF Same, NotMine
  <2>7. QED
    BY <2>2, <2>3, <2>5, <2>6, <1>1, <1>3, <1>4, RowStep, TransfersAssumption DEF Row
<1>5. CASE CommitFails(t, k, "error") /\ UNCHANGED lvm_vars
  BY <1>1, <1>2, <1>5, CommitServes
<1>6. QED
  BY <1>4, <1>5 DEF CommitRetag

LEMMA CommitMarkStep ==
  ASSUME TableInv, TypeOK', NEW t \in TransferIDs, NEW k \in Calls, CommitMark(t, k)
  PROVE  TableInv'
<1> USE DEF stream_vars, lvm_vars, bounds
<1>1. /\ TypeOK /\ Row(t) /\ commit[t][k] = "mark" /\ SetCommit(t, k, "finish")
      /\ UNCHANGED <<table, prepare, destroy, writing, open, timer, state, origin, faults>>
  BY DEF CommitMark, TableInv
<1>2. /\ ~Preparing(t) /\ t \notin writing /\ table[t] = "live" /\ t \notin open
      /\ \A j \in Calls : j # k => commit[t][j] \notin Serving
      /\ \A d \in Callers : destroy[t][d] = "none"
  BY <1>1, CommitAlone DEF Serving, Row, Closed
<1>3. /\ \A j \in Calls : commit'[t][j] = IF j = k THEN "finish" ELSE commit[t][j]
      /\ \A u \in TransferIDs : u # t => commit'[u] = commit[u]
  BY <1>1, CommitEffect DEF CommitStates, Serving
<1>4. OneHandler(t)' /\ Unused(t)'
  BY <1>1, <1>2, <1>3 DEF OneHandler, Unused, Preparing, Destroying
<1>5. InTable(t)' /\ Closed(t)'
  BY <1>1, <1>2, <1>3 DEF InTable, Closed, Preparing
<1>6. Landing(t) /\ Landing(t)'
  BY <1>1, <1>3 DEF Landing
<1>7. HasVolume(t)' /\ NotOrphaned(t)'
  BY <1>1, <1>2, <1>6 DEF Row, HasVolume, NotOrphaned
<1>8. QED
  BY <1>1, <1>3, <1>4, <1>5, <1>7, RowStep DEF Row, Same, NotMine

LEMMA CommitFinishStep ==
  ASSUME TableInv, TypeOK', NEW t \in TransferIDs, NEW k \in Calls, CommitFinish(t, k)
  PROVE  TableInv'
<1> USE DEF stream_vars, lvm_vars, bounds
<1>1. /\ TypeOK /\ Row(t) /\ commit[t][k] = "finish" /\ SetCommit(t, k, "ok") /\ Finish(t)
      /\ UNCHANGED <<prepare, destroy, writing, state, origin, faults>>
  BY DEF CommitFinish, TableInv
<1>2. /\ ~Preparing(t) /\ t \notin writing /\ table[t] = "live" /\ Landing(t)
      /\ \A j \in Calls : j # k => commit[t][j] \notin Serving
      /\ \A d \in Callers : destroy[t][d] = "none"
  BY <1>1, CommitAlone DEF Serving, Landing
<1>3. /\ \A j \in Calls : commit'[t][j] \notin Serving
      /\ \A u \in TransferIDs : u # t => commit'[u] = commit[u]
  BY <1>1, <1>2, CommitEffect DEF CommitStates, Serving, Ended
<1>4. /\ table'[t] = "dead" /\ open' = open \ {t}
      /\ \A u \in TransferIDs : u # t => table'[u] = table[u] /\ timer'[u] = timer[u]
  BY <1>1, <1>2, FinishEffect
<1>5. OneHandler(t)' /\ Unused(t)'
  BY <1>1, <1>2, <1>3, <1>4 DEF OneHandler, Unused, Preparing, Committing, Destroying
<1>6. InTable(t)' /\ Closed(t)'
  BY <1>1, <1>2, <1>3, <1>4 DEF InTable, Closed, Preparing, Committing, Serving
<1>7. HasVolume(t)' /\ NotOrphaned(t)'
  BY <1>1, <1>2, <1>3, <1>4 DEF Row, HasVolume, NotOrphaned, Preparing, Landing, Serving
<1>8. \A u \in TransferIDs : u # t => Same(u) /\ NotMine(u)
  BY <1>1, <1>3, <1>4 DEF Same, NotMine
<1>9. QED
  BY <1>1, <1>5, <1>6, <1>7, <1>8, RowStep DEF Row

-----------------------------------------------------------------------------
\* Aborts, grace timers and destroy.

\* A destroy starts on an undisturbed transfer the table knows.
LEMMA DestroyStarts ==
  ASSUME TableInv, TypeOK', NEW t \in TransferIDs, NEW c \in Callers,
         StartDestroy(t, c), Undisturbed(t), table[t] # "none",
         \A u \in TransferIDs : u # t => timer'[u] = timer[u],
         UNCHANGED <<table, prepare, commit, writing, open, lvm_vars, faults>>
  PROVE  TableInv'
<1> USE DEF lvm_vars
<1>1. TypeOK /\ Row(t)
  BY DEF TableInv
<1>2. /\ ~Preparing(t) /\ t \notin writing
      /\ \A j \in Calls : commit[t][j] \notin Serving
      /\ \A d \in Callers : destroy[t][d] = "none"
  BY DEF Undisturbed, Committing, Destroying
<1>3. /\ \A d \in Callers : destroy'[t][d] = IF d = c THEN "check" ELSE destroy[t][d]
      /\ \A u \in TransferIDs : u # t => destroy'[u] = destroy[u]
  BY <1>1, StartEffect
<1>4. OneHandler(t)' /\ Unused(t)'
  BY <1>2, <1>3 DEF OneHandler, Unused, Preparing, Committing
<1>5. InTable(t)' /\ Closed(t)'
  BY <1>1, <1>2, <1>3 DEF Row, InTable, Closed, Preparing, Committing
<1>6. HasVolume(t)' /\ NotOrphaned(t)'
  BY <1>1, <1>2, <1>3 DEF Row, HasVolume, NotOrphaned, Landing
<1>7. \A u \in TransferIDs : u # t => Same(u) /\ NotMine(u)
  BY <1>3 DEF Same, NotMine
<1>8. QED
  BY <1>4, <1>5, <1>6, <1>7, RowStep DEF Row

LEMMA AbortStep ==
  ASSUME TableInv, TypeOK', ~Overlap, NEW t \in TransferIDs, Abort(t)
  PROVE  TableInv'
  BY DestroyStarts DEF Abort, MayStart, Callers, table_vars, stream_vars, bounds

LEMMA GraceFiresStep ==
  ASSUME TableInv, TypeOK', ~Overlap, NEW t \in TransferIDs,
         NEW x \in {"current", "leaked"}, GraceFires(t, x)
  PROVE  TableInv'
<1>1. TypeOK /\ table[t] # "none"
  BY DEF GraceFires, TableInv, Row, Unused
<1>2. \A u \in TransferIDs : u # t => timer'[u] = timer[u]
  BY <1>1, StopEffect DEF GraceFires
<1>3. QED
  BY <1>1, <1>2, DestroyStarts DEF GraceFires, MayStart, Callers, table_vars, stream_vars, bounds

\* What the steps of a destroy have in common.
LEMMA DestroyGoesOn ==
  ASSUME TableInv, NEW t \in TransferIDs, NEW c \in Callers, NEW pc \in DestroyStates,
         destroy[t][c] # "none", SetDestroy(t, c, pc)
  PROVE  /\ TypeOK /\ Row(t)
         /\ ~Preparing(t) /\ t \notin writing
         /\ \A j \in Calls : commit[t][j] \notin Serving
         /\ \A d \in Callers : d # c => destroy[t][d] = "none"
         /\ \A d \in Callers : destroy'[t][d] = IF d = c THEN pc ELSE "none"
         /\ \A u \in TransferIDs : u # t => destroy'[u] = destroy[u]
<1>1. TypeOK /\ Row(t)
  BY DEF TableInv
<1>2. \A d \in Callers : d # c => destroy[t][d] = "none"
  BY <1>1, DestroyAlone
<1>3. QED
  BY <1>1, <1>2, DestroyAlone, DestroyEffect

LEMMA DestroyCheckStep ==
  ASSUME TableInv, TypeOK', NEW t \in TransferIDs, NEW c \in Callers, DestroyCheck(t, c)
  PROVE  TableInv'
<1> USE DEF table_vars, stream_vars, lvm_vars, bounds
<1>1. /\ destroy[t][c] = "check"
      /\ UNCHANGED <<table, prepare, commit, writing, open, timer, state, origin, faults>>
  BY DEF DestroyCheck
<1>2. PICK pc \in {"finish", "none"} :
        SetDestroy(t, c, pc) /\ (pc = "finish" => table[t] = "live")
  BY DEF DestroyCheck
<1>3. /\ Row(t) /\ ~Preparing(t) /\ t \notin writing
      /\ \A j \in Calls : commit[t][j] \notin Serving
      /\ \A d \in Callers : d # c => destroy[t][d] = "none"
      /\ \A d \in Callers : destroy'[t][d] = IF d = c THEN pc ELSE "none"
      /\ \A u \in TransferIDs : u # t => destroy'[u] = destroy[u]
  BY <1>1, <1>2, DestroyGoesOn DEF DestroyStates
<1>4. OneHandler(t)'
  BY <1>1, <1>2, <1>3 DEF OneHandler, Preparing, Committing
<1>5. Unused(t)'
  BY <1>1, <1>2, <1>3
     DEF Row, Unused, Undisturbed, Preparing, Committing, Destroying
<1>6. InTable(t)' /\ Closed(t)'
  BY <1>1, <1>2, <1>3 DEF Row, InTable, Closed, Preparing, Committing
<1>7. HasVolume(t)' /\ NotOrphaned(t)'
  BY <1>1, <1>2, <1>3 DEF Row, HasVolume, NotOrphaned, Landing
<1>8. \A u \in TransferIDs : u # t => Same(u) /\ NotMine(u)
  BY <1>1, <1>3 DEF Same, NotMine
<1>9. QED
  BY <1>1, <1>4, <1>5, <1>6, <1>7, <1>8, RowStep DEF Row

LEMMA DestroyFinishStep ==
  ASSUME TableInv, TypeOK', NEW t \in TransferIDs, NEW c \in Callers, DestroyFinish(t, c)
  PROVE  TableInv'
<1> USE DEF stream_vars, lvm_vars, bounds
<1>1. /\ destroy[t][c] = "finish" /\ SetDestroy(t, c, "remove") /\ Finish(t)
      /\ UNCHANGED <<prepare, commit, writing, state, origin, faults>>
  BY DEF DestroyFinish
<1>2. /\ TypeOK /\ Row(t) /\ ~Preparing(t) /\ t \notin writing
      /\ \A j \in Calls : commit[t][j] \notin Serving
      /\ \A d \in Callers : destroy'[t][d] = IF d = c THEN "remove" ELSE "none"
      /\ \A u \in TransferIDs : u # t => destroy'[u] = destroy[u]
  BY <1>1, DestroyGoesOn DEF DestroyStates
<1>3. table[t] = "live"
  BY <1>1, <1>2 DEF Row, InTable
<1>4. /\ table'[t] = "dead" /\ open' = open \ {t}
      /\ \A u \in TransferIDs : u # t => table'[u] = table[u] /\ timer'[u] = timer[u]
  BY <1>1, <1>2, <1>3, FinishEffect
<1>5. OneHandler(t)' /\ Unused(t)'
  BY <1>1, <1>2, <1>4 DEF OneHandler, Unused, Preparing, Committing
<1>6. InTable(t)' /\ Closed(t)'
  BY <1>1, <1>2, <1>4 DEF InTable, Closed, Preparing, Committing, Serving
<1>7. state = "incoming" /\ origin = t
  BY <1>2, <1>3 DEF Row, HasVolume, Preparing, Landing, Serving
<1>8. HasVolume(t)' /\ NotOrphaned(t)'
  BY <1>1, <1>2, <1>4, <1>7 DEF HasVolume, NotOrphaned, Preparing, Landing, Serving
<1>9. \A u \in TransferIDs : u # t => Same(u) /\ NotMine(u)
  BY <1>1, <1>2, <1>4 DEF Same, NotMine
<1>10. QED
  BY <1>1, <1>5, <1>6, <1>8, <1>9, RowStep DEF Row

LEMMA DestroyRemoveStep ==
  ASSUME TableInv, TypeOK', NEW t \in TransferIDs, NEW c \in Callers, DestroyRemove(t, c)
  PROVE  TableInv'
<1> USE DEF table_vars, stream_vars, lvm_vars
<1>1. /\ destroy[t][c] = "remove" /\ SetDestroy(t, c, "none")
      /\ UNCHANGED <<table, prepare, commit, writing, open, timer>>
  BY DEF DestroyRemove
<1>2. /\ TypeOK /\ Row(t) /\ ~Preparing(t) /\ t \notin writing
      /\ \A j \in Calls : commit[t][j] \notin Serving
      /\ \A d \in Callers : destroy'[t][d] = "none"
      /\ \A u \in TransferIDs : u # t => destroy'[u] = destroy[u]
  BY <1>1, DestroyGoesOn DEF DestroyStates
<1>3. state = "incoming" /\ origin = t /\ table[t] = "dead" /\ ~InUse
  BY <1>1, <1>2, RemoveUnopened DEF Row, HasVolume, InTable
<1>4. /\ faults' = 0 => faults = 0
      /\ \/ state' = "absent" /\ origin' = NoTransfer
         \/ UNCHANGED lvm_vars /\ faults' # 0
  <2>1. CASE NoFault /\ state' = "absent" /\ origin' = NoTransfer
    BY <2>1, <1>2, FaultsGrow
  <2>2. CASE Fault /\ UNCHANGED lvm_vars
    BY <2>2, <1>2 DEF Fault, TypeOK
  <2>3. QED
    BY <2>1, <2>2, <1>3 DEF DestroyRemove, FailsIf
<1>5. OneHandler(t)' /\ Unused(t)'
  BY <1>1, <1>2, <1>3 DEF OneHandler, Unused, Preparing, Committing, Destroying
<1>6. InTable(t)' /\ Closed(t)'
  BY <1>1, <1>2 DEF Row, InTable, Closed, Preparing, Committing
<1>7. HasVolume(t)' /\ NotOrphaned(t)'
  BY <1>1, <1>2, <1>3, <1>4, TransfersAssumption
     DEF HasVolume, NotOrphaned, Preparing, Landing, Serving
<1>8. \A u \in TransferIDs : u # t => Same(u) /\ NotMine(u)
  BY <1>1, <1>2, <1>3, <1>4, TransfersAssumption DEF Same, NotMine
<1>9. QED
  BY <1>1, <1>4, <1>5, <1>6, <1>7, <1>8, RowStep DEF Row

-----------------------------------------------------------------------------
\* The volume's other ways out, and restarts.

LEMMA VolumeLeavesStep ==
  ASSUME TableInv, TypeOK', VolumeLeaves PROVE TableInv'
<1>1. ASSUME NEW u \in TransferIDs PROVE Row(u)'
  <2>1. Row(u) /\ Same(u) /\ NotMine(u) /\ UNCHANGED faults
    BY TransfersAssumption
       DEF VolumeLeaves, TableInv, Same, NotMine, table_vars, stream_vars, bounds
  <2>2. QED
    BY <2>1, FrameRow
<1>2. QED
  BY <1>1 DEF VolumeLeaves, TableInv

LEMMA RestartStep ==
  ASSUME TableInv, TypeOK', Restart PROVE TableInv'
<1>1. ASSUME NEW u \in TransferIDs PROVE Row(u)'
  <2>1. /\ table'[u] = "none" /\ timer'[u] = {} /\ prepare'[u] = "idle"
        /\ u \notin writing' /\ u \notin open'
        /\ \A k \in Calls : commit'[u][k] = "none"
        /\ \A c \in Callers : destroy'[u][c] = "none"
    BY DEF Restart
  <2>2. state' = "incoming" => faults' # 0
    BY DEF Restart, TableInv, TypeOK, lvm_vars
  <2>3. OneHandler(u)' /\ Unused(u)' /\ InTable(u)' /\ Closed(u)'
    BY <2>1 DEF OneHandler, Unused, InTable, Closed, Undisturbed, Preparing, Committing,
                Destroying, Serving
  <2>4. HasVolume(u)' /\ NotOrphaned(u)'
    BY <2>1, <2>2 DEF HasVolume, NotOrphaned, Landing
  <2>5. QED
    BY <2>3, <2>4 DEF Row
<1>2. QED
  BY <1>1 DEF Restart, TableInv, lvm_vars

-----------------------------------------------------------------------------
LEMMA TableInvInit == Init => TableInv
<1> SUFFICES ASSUME Init PROVE TableInv
  OBVIOUS
<1>1. ASSUME NEW u \in TransferIDs PROVE Row(u)
  <2>1. /\ table[u] = "none" /\ timer[u] = {} /\ prepare[u] = "idle"
        /\ u \notin writing /\ u \notin open /\ state = "absent"
        /\ \A k \in Calls : commit[u][k] = "none"
        /\ \A c \in Callers : destroy[u][c] = "none"
    BY DEF Init
  <2>2. OneHandler(u) /\ Unused(u) /\ InTable(u) /\ Closed(u)
    BY <2>1 DEF OneHandler, Unused, InTable, Closed, Undisturbed, Preparing, Committing,
                Destroying, Serving
  <2>3. HasVolume(u) /\ NotOrphaned(u)
    BY <2>1 DEF HasVolume, NotOrphaned, Landing
  <2>4. QED
    BY <2>2, <2>3 DEF Row
<1>2. QED
  BY <1>1, TypeInit DEF Init, TableInv

LEMMA TableInvStep ==
  ASSUME TableInv, ~Overlap, [Next]_vars PROVE TableInv'
<1>1. TypeOK'
  BY TypeStep DEF TableInv
<1>2. ASSUME NEW t \in TransferIDs, PrepareLookup(t) \/ PrepareSteps(t) PROVE TableInv'
  BY <1>1, <1>2, PrepareLookupStep, PrepareReserveStep, PrepareCreateStep, PrepareArmStep
     DEF PrepareSteps
<1>3. ASSUME NEW t \in TransferIDs, NEW k \in Calls, Commit(t, k) \/ CommitSteps(t, k)
      PROVE  TableInv'
  BY <1>1, <1>3, CommitStep, CommitSumStep, CommitSyncStep, CommitDeactivateStep,
     CommitRetagStep, CommitMarkStep, CommitFinishStep DEF CommitSteps
<1>4. ASSUME NEW t \in TransferIDs, NEW c \in Callers, DestroySteps(t, c) PROVE TableInv'
  BY <1>1, <1>4, DestroyCheckStep, DestroyFinishStep, DestroyRemoveStep DEF DestroySteps
<1>5. CASE UNCHANGED vars
  <2>1. ASSUME NEW u \in TransferIDs PROVE Row(u)'
    BY <2>1, <1>5, FrameRow DEF vars, TableInv, Same, NotMine, lvm_vars
  <2>2. QED
    BY <1>1, <1>5, <2>1 DEF vars, TableInv
<1>6. QED
  BY <1>1, <1>2, <1>3, <1>4, <1>5, StreamStep, AbortStep, GraceFiresStep, VolumeLeavesStep,
     RestartStep DEF Next

\* The invariant of the transfer table, for handlers of one transfer that do not
\* run between each other's steps: who is half way, and whose the volume is.
THEOREM TableInvariant ==
  ASSUME ~Overlap PROVE Spec => []TableInv
<1>1. TableInv /\ [Next]_vars => TableInv'
  BY TableInvStep
<1>2. QED
  BY <1>1, TableInvInit, PTL DEF Spec

\* While lvm does what it is told no INCOMING volume is left without the session
\* or the destroy that ends it (Abort, the grace timer and a failed Commit).
THEOREM NoOrphanLeft ==
  ASSUME ~Overlap PROVE Spec => []NoOrphan
<1>1. TableInv => NoOrphan
  <2> SUFFICES ASSUME TableInv PROVE NoOrphan
    OBVIOUS
  <2>1. state = "incoming" => origin \in TransferIDs
    BY DEF TableInv, TypeOK
  <2>2. QED
    BY <2>1 DEF TableInv, NoOrphan, Row, NotOrphaned, Destroying
<1>2. QED
  BY <1>1, TableInvariant, PTL

\* Only a commit's retag lands a transfer, and it lands the one that created
\* the volume.
LEMMA LandsOwn ==
  ASSUME TableInv, [Next]_vars, NEW t \in landed' \ landed
  PROVE  origin = t
<1>1. ASSUME NEW u \in TransferIDs, NEW k \in Calls, CommitRetag(u, k) PROVE origin = t
  <2>1. Row(u) /\ commit[u][k] = "retag" /\ landed' \in {landed, landed \cup {u}}
    BY <1>1 DEF CommitRetag, TableInv
  <2>2. /\ ~Preparing(u) /\ table[u] = "live"
        /\ \A j \in Calls : j # k => commit[u][j] \notin Serving
    BY <2>1, CommitAlone DEF Serving
  <2>3. prepare[u] # "create" /\ ~Landing(u)
    BY <2>1, <2>2 DEF Preparing, Landing, Serving
  <2>4. QED
    BY <2>1, <2>2, <2>3 DEF Row, HasVolume
<1>2. ASSUME NEW u \in TransferIDs,
             \/ PrepareLookup(u) \/ PrepareSteps(u)
             \/ Attach(u) \/ WriteLookup(u) \/ WriteFrame(u) \/ Detach(u) \/ Abort(u)
             \/ \E x \in {"current", "leaked"} : GraceFires(u, x)
             \/ \E c \in Callers : DestroySteps(u, c)
      PROVE  UNCHANGED landed
  BY <1>2 DEF PrepareLookup, PrepareSteps, PrepareReserve, PrepareCreate, PrepareArm, Attach,
              WriteLookup, WriteFrame, Detach, Abort, GraceFires, DestroySteps, DestroyCheck,
              DestroyFinish, DestroyRemove
<1>3. ASSUME NEW u \in TransferIDs, NEW k \in Calls,
             \/ Commit(u, k) \/ CommitSum(u, k) \/ CommitSync(u, k) \/ CommitDeactivate(u, k)
             \/ CommitMark(u, k) \/ CommitFinish(u, k)
      PROVE  UNCHANGED landed
  BY <1>3 DEF Commit, CommitSum, CommitSync, CommitDeactivate, CommitMark, CommitFinish
<1>4. CASE VolumeLeaves \/ Restart \/ UNCHANGED vars
  BY <1>4 DEF VolumeLeaves, Restart, vars
<1>5. QED
  BY <1>1, <1>2, <1>3, <1>4 DEF Next, CommitSteps

\* destroy removes, and Commit readies, only the volume that its own transfer
\* created.
THEOREM OnlyItsOwn ==
  ASSUME ~Overlap PROVE Spec => OwnVolume
<1> DEFINE Step ==
      /\ \A t \in TransferIDs, c \in Callers :
           destroy[t][c] = "remove" /\ destroy'[t][c] = "none" /\ origin' # origin
             => origin = t \/ restarts' # restarts
      /\ \A t \in landed' \ landed : origin = t
<1>1. ASSUME TableInv, [Next]_vars PROVE Step
  BY <1>1, LandsOwn DEF TableInv, Row, HasVolume
<1>2. QED
  BY <1>1, TableInvariant, PTL DEF Spec, OwnVolume

\* No destroy of the table removes a volume that a commit has made READY: the
\* volume a destroy is about to remove is still INCOMING.
THEOREM ReadyIsKept ==
  ASSUME ~Overlap PROVE Spec => LandedStays
<1> DEFINE Step ==
      \A t \in TransferIDs, c \in Callers :
        destroy[t][c] = "remove" /\ destroy'[t][c] = "none" /\ state = "ready"
          => state' = "ready"
<1>1. ASSUME TableInv PROVE Step
  BY <1>1 DEF TableInv, Row, HasVolume
<1>2. QED
  BY <1>1, TableInvariant, PTL DEF Spec, LandedStays
=============================================================================
