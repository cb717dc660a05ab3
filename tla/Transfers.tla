----------------------------- MODULE Transfers -----------------------------
(***************************************************************************)
(* The transfer table of one receiving node, internal/storage/transfers.go *)
(* with its handlers in internal/api/api.go, for transfers that all carry  *)
(* the same volume id.  Every critical section of the table's mutex and    *)
(* every lvm command is a step of its own: prepares, streams, commits,     *)
(* aborts and grace timers of one transfer interleave between them, as     *)
(* their goroutines do.  What the streams carry is the subject of module   *)
(* Stream; here a commit's digest matches or not.                          *)
(***************************************************************************)
EXTENDS Naturals, FiniteSets

CONSTANTS
  TransferIDs,
  Calls,         \* CommitTransfer calls per transfer, repeated ones included
  MaxInbound,    \* cfg.MaxInboundTransfers
  MaxStreams,    \* bound: streams the source opens per transfer
  MaxFaults,     \* bound: failed lvm commands
  MaxRestarts,   \* bound: restarts of the daemon
  Overlap,       \* handlers of one transfer run between each other's steps
  NoTransfer

ASSUME TransfersAssumption ==
  /\ MaxInbound \in Nat /\ MaxStreams \in Nat /\ MaxFaults \in Nat /\ MaxRestarts \in Nat
  /\ Overlap \in BOOLEAN
  /\ NoTransfer \notin TransferIDs
  /\ Calls \cap {"prepare", "grace", "abort"} = {}

VARIABLES
  table,      \* table[t]: "none", "live" in sessions, or "dead"
  committed,  \* the committed map
  streaming,  \* transfers whose stream slot is taken
  streams,    \* streams[t]: streams opened so far
  writing,    \* transfers with a Write past its table lookup
  open,       \* transfers whose session holds the device open
  timer,      \* timer[t]: the running grace timers of t
  summed,     \* transfers whose digest was closed by Sum
  state,      \* the volume: "absent", "incoming" or "ready"
  origin,     \* the transfer whose PrepareReceive created the lv
  prepare,    \* prepare[t]: its PrepareReceive call
  commit,     \* commit[t][k]: its k-th CommitTransfer call
  destroy,    \* destroy[t][c]: the destroy that caller c of t runs
  landed,     \* history: sessions that retagged the volume READY
  faults, restarts

table_vars == <<table, committed>>
stream_vars == <<streaming, streams, writing>>
lvm_vars == <<state, origin>>
bounds == <<faults, restarts>>
vars == <<table, committed, streaming, streams, writing, open, timer, summed,
          state, origin, prepare, commit, destroy, landed, faults, restarts>>

\* Who runs destroy: a failed prepare, the grace timer, an abort, a commit.
Callers == {"prepare", "grace", "abort"} \cup Calls

Ended == {"ok", "busy", "unknown", "dataloss", "error"}
Serving == {"sum", "sync", "deactivate", "retag", "mark", "finish"}

\* Type of the state.
TypeOK ==
  /\ table \in [TransferIDs -> {"none", "live", "dead"}]
  /\ committed \subseteq TransferIDs
  /\ streaming \subseteq TransferIDs
  /\ streams \in [TransferIDs -> 0..MaxStreams]
  /\ writing \subseteq streaming
  /\ open \subseteq TransferIDs
  /\ timer \in [TransferIDs -> SUBSET {"current", "leaked"}]
  /\ summed \subseteq TransferIDs
  /\ state \in {"absent", "incoming", "ready"}
  /\ origin \in TransferIDs \cup {NoTransfer}
  /\ prepare \in [TransferIDs -> {"idle", "reserve", "create", "arm", "done"}]
  /\ commit \in [TransferIDs -> [Calls -> {"none"} \cup Serving \cup Ended]]
  /\ destroy \in [TransferIDs -> [Callers -> {"none", "check", "finish", "remove"}]]
  /\ landed \subseteq TransferIDs
  /\ faults \in 0..MaxFaults
  /\ restarts \in 0..MaxRestarts

Init ==
  /\ table = [t \in TransferIDs |-> "none"]
  /\ committed = {} /\ streaming = {} /\ writing = {} /\ open = {} /\ summed = {}
  /\ streams = [t \in TransferIDs |-> 0]
  /\ timer = [t \in TransferIDs |-> {}]
  /\ state = "absent" /\ origin = NoTransfer
  /\ prepare = [t \in TransferIDs |-> "idle"]
  /\ commit = [t \in TransferIDs |-> [k \in Calls |-> "none"]]
  /\ destroy = [t \in TransferIDs |-> [c \in Callers |-> "none"]]
  /\ landed = {} /\ faults = 0 /\ restarts = 0

-----------------------------------------------------------------------------
Live == {t \in TransferIDs : table[t] = "live"}

\* Handlers of t that are between two of their steps.
Preparing(t) == prepare[t] \in {"create", "arm"}
Committing(t) == \E k \in Calls : commit[t][k] \in Serving
Destroying(t) == \E c \in Callers : destroy[t][c] # "none"
Undisturbed(t) == /\ ~Preparing(t) /\ ~Committing(t) /\ ~Destroying(t)
                  /\ t \notin writing

\* A handler of t starts only when no other is half way, unless they overlap.
MayStart(t) == Overlap \/ Undisturbed(t)

\* An lvm command fails.
Fault == faults < MaxFaults /\ faults' = faults + 1 /\ UNCHANGED restarts
NoFault == UNCHANGED bounds

\* It certainly fails under condition p.
FailsIf(p) == (p /\ NoFault) \/ Fault

\* lvremove and the deactivation of an lv refuse while its device is open.
InUse == open # {}

-----------------------------------------------------------------------------
\* finish ends the session: timer stopped, device closed, id dead.
Finish(t) ==
  IF table[t] = "live"
  THEN /\ table' = [table EXCEPT ![t] = "dead"]
       /\ timer' = [timer EXCEPT ![t] = @ \ {"current"}]
       /\ open' = open \ {t}
  ELSE UNCHANGED <<table, timer, open>>

\* armGrace overwrites the pointer: a timer still running can no longer be
\* stopped.
ArmGrace(t) ==
  timer' = [timer EXCEPT ![t] = {"current"} \cup {x \in {"leaked"} : @ # {}}]

StartDestroy(t, c) == destroy' = [destroy EXCEPT ![t][c] = "check"]

-----------------------------------------------------------------------------
\* PrepareReceive.

\* The handler finds no volume of the name.  A caller that missed the answer
\* calls again.
PrepareLookup(t) ==
  /\ prepare[t] \in {"idle", "done"} /\ MayStart(t)
  /\ state = "absent"
  /\ prepare' = [prepare EXCEPT ![t] = "reserve"]
  /\ UNCHANGED <<table_vars, stream_vars, open, timer, summed, lvm_vars, commit,
                 destroy, landed, bounds>>

\* Mutants of Admits: one session too many; dead ids forgotten.
AdmitsOneMore(t) == table[t] = "none" /\ Cardinality(Live) <= MaxInbound
AdmitsDead(t) == table[t] # "live" /\ Cardinality(Live) < MaxInbound

\* Used ids are refused, and so is everything above the limit.
Admits(t) == table[t] = "none" /\ Cardinality(Live) < MaxInbound

\* The id is reserved before the lvm calls.
PrepareReserve(t) ==
  /\ prepare[t] = "reserve"
  /\ \/ /\ Admits(t)
        /\ table' = [table EXCEPT ![t] = "live"]
        /\ prepare' = [prepare EXCEPT ![t] = "create"]
     \/ /\ ~Admits(t)
        /\ prepare' = [prepare EXCEPT ![t] = "done"]
        /\ UNCHANGED table
  /\ UNCHANGED <<committed, stream_vars, open, timer, summed, lvm_vars, commit,
                 destroy, landed, bounds>>

\* Mutant of PrepareCreate: a failed create destroys the transfer.
PrepareCreateDestroys(t) ==
  /\ prepare[t] = "create"
  /\ \/ /\ state = "absent"
        /\ state' = "incoming" /\ origin' = t
        /\ prepare' = [prepare EXCEPT ![t] = "arm"]
        /\ NoFault /\ UNCHANGED destroy
     \/ /\ FailsIf(state # "absent")
        /\ StartDestroy(t, "prepare")
        /\ prepare' = [prepare EXCEPT ![t] = "done"]
        /\ UNCHANGED lvm_vars
  /\ UNCHANGED <<table_vars, timer, open, stream_vars, summed, commit, landed>>

\* lvcreate tags the volume incoming; a failure consumes the id.
PrepareCreate(t) ==
  /\ prepare[t] = "create"
  /\ \/ /\ state = "absent"
        /\ state' = "incoming" /\ origin' = t
        /\ prepare' = [prepare EXCEPT ![t] = "arm"]
        /\ NoFault /\ UNCHANGED <<table, timer, open>>
     \/ /\ FailsIf(state # "absent")
        /\ Finish(t)
        /\ prepare' = [prepare EXCEPT ![t] = "done"]
        /\ UNCHANGED lvm_vars
  /\ UNCHANGED <<committed, stream_vars, summed, commit, destroy, landed>>

\* The path is looked up and the grace timer armed; a failed lookup destroys.
PrepareArm(t) ==
  /\ prepare[t] = "arm"
  /\ prepare' = [prepare EXCEPT ![t] = "done"]
  /\ \/ state # "absent" /\ ArmGrace(t) /\ NoFault /\ UNCHANGED destroy
     \/ /\ FailsIf(state = "absent")
        /\ StartDestroy(t, "prepare")
        /\ UNCHANGED timer
  /\ UNCHANGED <<table_vars, stream_vars, open, summed, lvm_vars, commit, landed>>

-----------------------------------------------------------------------------
\* Receive: Attach, Writes, Detach.

\* Attach claims the stream slot and stops the current timer.
Attach(t) ==
  /\ table[t] = "live" /\ t \notin streaming /\ streams[t] < MaxStreams
  /\ MayStart(t)
  /\ streaming' = streaming \cup {t}
  /\ streams' = [streams EXCEPT ![t] = @ + 1]
  /\ timer' = [timer EXCEPT ![t] = @ \ {"current"}]
  /\ UNCHANGED <<table_vars, writing, open, summed, lvm_vars, prepare, commit,
                 destroy, landed, bounds>>

\* Write looks the session up under the lock and goes on without it.
WriteLookup(t) ==
  /\ t \in streaming \ writing /\ table[t] = "live" /\ MayStart(t)
  /\ writing' = writing \cup {t}
  /\ UNCHANGED <<table_vars, streaming, streams, open, timer, summed, lvm_vars,
                 prepare, commit, destroy, landed, bounds>>

\* The first frame opens the device, also when finish has closed it meanwhile.
WriteFrame(t) ==
  /\ t \in writing
  /\ writing' = writing \ {t}
  /\ open' = IF state = "absent" THEN open ELSE open \cup {t}
  /\ UNCHANGED <<table_vars, streaming, streams, timer, summed, lvm_vars, prepare,
                 commit, destroy, landed, bounds>>

\* Mutant of Detach: the grace timer is not armed again.
DetachUnarmed(t) ==
  /\ t \in streaming \ writing
  /\ streaming' = streaming \ {t}
  /\ UNCHANGED <<table_vars, streams, writing, open, timer, summed, lvm_vars, prepare,
                 commit, destroy, landed, bounds>>

\* The stream ends and the grace timer runs again.
Detach(t) ==
  /\ t \in streaming \ writing
  /\ streaming' = streaming \ {t}
  /\ IF table[t] = "live" THEN ArmGrace(t) ELSE UNCHANGED timer
  /\ UNCHANGED <<table_vars, streams, writing, open, summed, lvm_vars, prepare,
                 commit, destroy, landed, bounds>>

-----------------------------------------------------------------------------
\* Commit, call k.

SetCommit(t, k, c) == commit' = [commit EXCEPT ![t][k] = c]

\* Mutant of CommitAnswer: every ended transfer counts as committed.
CommitAnswerDead(t) ==
  CASE table[t] = "live" /\ t \notin streaming -> "sum"
    [] table[t] = "live" /\ t \in streaming -> "busy"
    [] OTHER -> IF table[t] = "dead" THEN "ok" ELSE "unknown"

\* The check under the lock: an idle live session is served, an already
\* committed transfer succeeds again.
CommitAnswer(t) ==
  CASE table[t] = "live" /\ t \notin streaming -> "sum"
    [] t \in committed -> "ok"
    [] t \notin committed /\ table[t] = "live" /\ t \in streaming -> "busy"
    [] OTHER -> "unknown"

Commit(t, k) ==
  /\ commit[t][k] = "none" /\ prepare[t] # "idle" /\ MayStart(t)
  /\ SetCommit(t, k, CommitAnswer(t))
  /\ UNCHANGED <<table_vars, stream_vars, open, timer, summed, lvm_vars, prepare,
                 destroy, landed, bounds>>

\* Every failure after the check destroys the transfer.
CommitFails(t, k, answer) == SetCommit(t, k, answer) /\ StartDestroy(t, k)

\* The digest matches or not; a second Sum of one digest never does.
CommitSum(t, k) ==
  /\ commit[t][k] = "sum"
  /\ summed' = summed \cup {t}
  /\ \/ t \notin summed /\ SetCommit(t, k, "sync") /\ UNCHANGED destroy
     \/ CommitFails(t, k, "dataloss")
  /\ UNCHANGED <<table_vars, stream_vars, open, timer, lvm_vars, prepare, landed, bounds>>

\* An open device is synced and closed.
CommitSync(t, k) ==
  /\ commit[t][k] = "sync"
  /\ \/ open' = open \ {t} /\ SetCommit(t, k, "deactivate") /\ NoFault /\ UNCHANGED destroy
     \/ t \in open /\ Fault /\ CommitFails(t, k, "error") /\ UNCHANGED open
  /\ UNCHANGED <<table_vars, stream_vars, timer, summed, lvm_vars, prepare, landed>>

CommitDeactivate(t, k) ==
  /\ commit[t][k] = "deactivate"
  /\ \/ /\ state # "absent" /\ ~InUse
        /\ SetCommit(t, k, "retag") /\ NoFault /\ UNCHANGED destroy
     \/ /\ FailsIf(state = "absent" \/ InUse)
        /\ CommitFails(t, k, "error")
  /\ UNCHANGED <<table_vars, stream_vars, open, timer, summed, lvm_vars, prepare, landed>>

\* The retag to READY.
CommitRetag(t, k) ==
  /\ commit[t][k] = "retag"
  /\ \/ /\ state # "absent"
        /\ state' = "ready" /\ landed' = landed \cup {t}
        /\ SetCommit(t, k, "mark") /\ NoFault /\ UNCHANGED destroy
     \/ /\ FailsIf(state = "absent")
        /\ CommitFails(t, k, "error")
        /\ UNCHANGED <<state, landed>>
  /\ UNCHANGED <<table_vars, stream_vars, open, timer, summed, origin, prepare>>

\* The committed map is written before the session is finished.
CommitMark(t, k) ==
  /\ commit[t][k] = "mark"
  /\ committed' = committed \cup {t}
  /\ SetCommit(t, k, "finish")
  /\ UNCHANGED <<table, stream_vars, open, timer, summed, lvm_vars, prepare, destroy,
                 landed, bounds>>

\* Mutant of CommitFinish: the committed session stays in the table.
CommitNoFinish(t, k) ==
  /\ commit[t][k] = "finish"
  /\ SetCommit(t, k, "ok")
  /\ UNCHANGED <<table_vars, open, timer, stream_vars, summed, lvm_vars, prepare,
                 destroy, landed, bounds>>

CommitFinish(t, k) ==
  /\ commit[t][k] = "finish"
  /\ Finish(t)
  /\ SetCommit(t, k, "ok")
  /\ UNCHANGED <<committed, stream_vars, summed, lvm_vars, prepare, destroy, landed, bounds>>

-----------------------------------------------------------------------------
\* Abort, the grace timer, and destroy.

Abort(t) ==
  /\ table[t] = "live" /\ destroy[t]["abort"] = "none" /\ MayStart(t)
  /\ StartDestroy(t, "abort")
  /\ UNCHANGED <<table_vars, stream_vars, open, timer, summed, lvm_vars, prepare,
                 commit, landed, bounds>>

\* A fired timer can no longer be stopped.
GraceFires(t, x) ==
  /\ x \in timer[t] /\ destroy[t]["grace"] = "none" /\ MayStart(t)
  /\ timer' = [timer EXCEPT ![t] = @ \ {x}]
  /\ StartDestroy(t, "grace")
  /\ UNCHANGED <<table_vars, stream_vars, open, summed, lvm_vars, prepare, commit,
                 landed, bounds>>

SetDestroy(t, c, pc) == destroy' = [destroy EXCEPT ![t][c] = pc]

\* The check under the lock.
DestroyCheck(t, c) ==
  /\ destroy[t][c] = "check"
  /\ SetDestroy(t, c, IF table[t] = "live" THEN "finish" ELSE "none")
  /\ UNCHANGED <<table_vars, stream_vars, open, timer, summed, lvm_vars, prepare,
                 commit, landed, bounds>>

\* Mutant of DestroyFinish: the volume is not removed.
DestroyOnlyFinish(t, c) ==
  /\ destroy[t][c] = "finish"
  /\ Finish(t)
  /\ SetDestroy(t, c, "none")
  /\ UNCHANGED <<committed, stream_vars, summed, lvm_vars, prepare, commit, landed, bounds>>

DestroyFinish(t, c) ==
  /\ destroy[t][c] = "finish"
  /\ Finish(t)
  /\ SetDestroy(t, c, "remove")
  /\ UNCHANGED <<committed, stream_vars, summed, lvm_vars, prepare, commit, landed, bounds>>

\* RemoveVolume by name; its failure is only logged.
DestroyRemove(t, c) ==
  /\ destroy[t][c] = "remove"
  /\ SetDestroy(t, c, "none")
  /\ \/ state # "absent" /\ ~InUse /\ state' = "absent" /\ origin' = NoTransfer /\ NoFault
     \/ /\ FailsIf(state = "absent" \/ InUse)
        /\ UNCHANGED lvm_vars
  /\ UNCHANGED <<table_vars, stream_vars, open, timer, summed, prepare, commit, landed>>

-----------------------------------------------------------------------------
\* A READY volume is deleted or moved away by the verbs of module Volumes.
VolumeLeaves ==
  /\ state = "ready"
  /\ state' = "absent" /\ origin' = NoTransfer
  /\ UNCHANGED <<table_vars, stream_vars, open, timer, summed, prepare, commit,
                 destroy, landed, bounds>>

\* A restart forgets the table and its goroutines; Recover removes what was
\* INCOMING, if lvm lets it.
Restart ==
  /\ restarts < MaxRestarts /\ restarts' = restarts + 1
  /\ table' = [t \in TransferIDs |-> "none"]
  /\ committed' = {} /\ streaming' = {} /\ writing' = {} /\ open' = {} /\ summed' = {}
  /\ timer' = [t \in TransferIDs |-> {}]
  /\ prepare' = [t \in TransferIDs |-> "idle"]
  /\ commit' = [t \in TransferIDs |-> [k \in Calls |-> "none"]]
  /\ destroy' = [t \in TransferIDs |-> [c \in Callers |-> "none"]]
  /\ landed' = {}
  /\ \/ /\ state = "incoming" /\ state' = "absent" /\ origin' = NoTransfer
        /\ UNCHANGED faults
     \/ state # "incoming" /\ UNCHANGED <<state, origin, faults>>
     \/ /\ state = "incoming" /\ faults < MaxFaults /\ faults' = faults + 1
        /\ UNCHANGED lvm_vars
  /\ UNCHANGED streams

-----------------------------------------------------------------------------
PrepareSteps(t) == PrepareReserve(t) \/ PrepareCreate(t) \/ PrepareArm(t)

CommitSteps(t, k) ==
  \/ CommitSum(t, k) \/ CommitSync(t, k) \/ CommitDeactivate(t, k)
  \/ CommitRetag(t, k) \/ CommitMark(t, k) \/ CommitFinish(t, k)

DestroySteps(t, c) == DestroyCheck(t, c) \/ DestroyFinish(t, c) \/ DestroyRemove(t, c)

Next ==
  \/ \E t \in TransferIDs :
       \/ PrepareLookup(t) \/ PrepareSteps(t)
       \/ Attach(t) \/ WriteLookup(t) \/ WriteFrame(t) \/ Detach(t)
       \/ \E k \in Calls : Commit(t, k) \/ CommitSteps(t, k)
       \/ Abort(t)
       \/ \E x \in {"current", "leaked"} : GraceFires(t, x)
       \/ \E c \in Callers : DestroySteps(t, c)
  \/ VolumeLeaves
  \/ Restart

Spec == Init /\ [][Next]_vars

\* Goroutines run on, timers fire, and every stream ends: its frames advance
\* the offset, so their number is bounded.
Fairness ==
  \A t \in TransferIDs :
    /\ WF_vars(PrepareSteps(t)) /\ WF_vars(WriteFrame(t)) /\ SF_vars(Detach(t))
    /\ \A x \in {"current", "leaked"} : WF_vars(GraceFires(t, x))
    /\ \A k \in Calls : WF_vars(CommitSteps(t, k))
    /\ \A c \in Callers : WF_vars(DestroySteps(t, c))

FairSpec == Spec /\ Fairness

-----------------------------------------------------------------------------
\* Properties.

\* An OK answer is true: whatever aborts, timers and repeated calls did in
\* between, some commit of the session has retagged the volume READY.
AnswersTrue ==
  \A t \in TransferIDs, k \in Calls : commit[t][k] = "ok" => t \in landed

\* The table is well formed, and its sessions never exceed
\* cfg.MaxInboundTransfers, however prepares, failures and restarts interleave.
LimitHolds == TypeOK /\ Cardinality(Live) <= MaxInbound

\* A transfer id is single use while the daemon runs (transfer.proto): an
\* ended session never comes back, so a late call cannot hit a later one.
IdsSpent ==
  [][\A t \in TransferIDs : table[t] = "dead" /\ restarts' = restarts => table'[t] = "dead"]_vars

\* No INCOMING volume is left without the session that would end it, as long
\* as lvm did what it was told ("Abort destroys the transfer and its volume").
NoOrphan ==
  faults = 0 /\ state = "incoming" /\ prepare[origin] # "arm" =>
    table[origin] = "live" \/ Destroying(origin)

\* "destroy ends the session and removes its volume", and Commit readies its
\* volume: neither touches a volume that another transfer created.
OwnVolume ==
  [][/\ \A t \in TransferIDs, c \in Callers :
          destroy[t][c] = "remove" /\ destroy'[t][c] = "none" /\ origin' # origin
            => origin = t \/ restarts' # restarts
     /\ \A t \in landed' \ landed : origin = t]_vars

\* A volume that is READY is never removed by the table that received it.
LandedStays ==
  [][\A t \in TransferIDs, c \in Callers :
       destroy[t][c] = "remove" /\ destroy'[t][c] = "none" /\ state = "ready"
         => state' = "ready"]_vars

\* Every session ends, whichever goroutine the source or the orchestrator left
\* behind: the grace timer runs whenever no stream, commit or abort does.
SessionsEnd == \A t \in TransferIDs : table[t] = "live" ~> table[t] # "live"

-----------------------------------------------------------------------------
\* The inductive invariant behind AnswersTrue, for handlers in any order.

\* What is remembered as committed has landed, and so has what a commit call
\* is past its retag with.
CommittedInv ==
  \A t \in TransferIDs :
    /\ t \in committed => t \in landed
    /\ \A k \in Calls : commit[t][k] \in {"mark", "finish", "ok"} => t \in landed

\* The inductive invariant behind NoOrphan, OwnVolume and LandedStays, for
\* handlers of one transfer that do not overlap.

\* One handler of a transfer is half way at a time.
OneHandler(t) ==
  /\ Preparing(t) => ~Committing(t) /\ ~Destroying(t) /\ t \notin writing
  /\ Committing(t) => ~Destroying(t) /\ t \notin writing
  /\ Destroying(t) => t \notin writing
  /\ \A j, k \in Calls : commit[t][j] \in Serving /\ commit[t][k] \in Serving => j = k
  /\ \A c, d \in Callers : destroy[t][c] # "none" /\ destroy[t][d] # "none" => c = d

\* An id without an entry has no handler, no device and no timer.
Unused(t) == table[t] = "none" => Undisturbed(t) /\ t \notin open /\ timer[t] = {}

\* Handlers that rely on the session find it in the table.
InTable(t) ==
  /\ Preparing(t) \/ Committing(t) \/ t \in writing \/ t \in open => table[t] = "live"
  /\ \A c \in Callers : /\ destroy[t][c] = "finish" => table[t] = "live"
                        /\ destroy[t][c] = "remove" => table[t] = "dead"

\* A commit that closed the device keeps it closed.
Closed(t) ==
  /\ prepare[t] = "create" => t \notin open
  /\ \A k \in Calls :
       commit[t][k] \in {"deactivate", "retag", "mark", "finish"} => t \notin open

\* A commit of t is past its retag.
Landing(t) == \E k \in Calls : commit[t][k] \in {"mark", "finish"}

\* A session past its create has the INCOMING volume it created until its
\* commit lands, and so has a destroy that is about to remove it.
HasVolume(t) ==
  /\ prepare[t] = "create" \/ (prepare[t] = "reserve" /\ table[t] = "none") => origin # t
  /\ table[t] = "live" /\ prepare[t] # "create" /\ ~Landing(t) =>
       state = "incoming" /\ origin = t
  /\ Landing(t) /\ origin = t => state = "ready"
  /\ \A c \in Callers : destroy[t][c] = "remove" => state = "incoming" /\ origin = t

\* NoOrphan for one transfer: the destroy that is left is past its checks.
NotOrphaned(t) ==
  faults = 0 /\ state = "incoming" /\ origin = t /\ prepare[t] # "arm" =>
    table[t] = "live" \/ \E c \in Callers : destroy[t][c] = "remove"

Row(t) == /\ OneHandler(t) /\ Unused(t) /\ InTable(t) /\ Closed(t)
          /\ HasVolume(t) /\ NotOrphaned(t)

TableInv ==
  /\ TypeOK
  /\ state = "absent" <=> origin = NoTransfer
  /\ \A t \in TransferIDs : Row(t)
=============================================================================
