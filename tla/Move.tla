-------------------------------- MODULE Move --------------------------------
(***************************************************************************)
(* The move protocol of beanstore for one volume: the source pushes a      *)
(* READY volume to a target that prepared an INCOMING one, and a commit    *)
(* call hands the authority over.  Sources: internal/api/push.go,          *)
(* internal/api/resolve.go, internal/storage/pushes.go, the commit side of *)
(* internal/storage/transfers.go and the volume states of recover.go.      *)
(*                                                                         *)
(* What a node writes to lvm survives a crash (lv); its goroutines and its *)
(* transfer table do not (job, session, call).  An orchestrator outside    *)
(* beanstore calls the verbs in any order.  The concurrency inside one     *)
(* node's transfer table is the subject of module Transfers.               *)
(***************************************************************************)
EXTENDS Naturals, FiniteSets

CONSTANTS
  Nodes,         \* the nodes, also the addresses they are dialled at
  TransferIDs,   \* the transfer ids the orchestrator mints
  PushAttempts,  \* pushAttempts of push.go, 5 in the code
  MaxFaults,     \* bound: crashes, lost calls and failed commands in total
  Linger,        \* a commit may still run on the target after its caller gave up
  DestroyRaces,  \* grace timer or orchestrator may destroy during a commit
  EarlyDelete,   \* orchestrator deletes a copy some source is not done pushing to
  NoNode, NoTransfer

ASSUME MoveAssumption ==
  /\ PushAttempts \in Nat \ {0}
  /\ MaxFaults \in Nat
  /\ Linger \in BOOLEAN /\ DestroyRaces \in BOOLEAN /\ EarlyDelete \in BOOLEAN
  /\ NoNode \notin Nodes
  /\ NoTransfer \notin TransferIDs

VARIABLES
  up,        \* the nodes whose daemon runs
  state,     \* state[n]: the state tag of the volume's lv on n, or "absent"
  transfer,  \* transfer[n]: its transfer tag
  active,    \* the nodes where the volume's device exists
  job,       \* job[n]: where node n's goroutine for the volume is
  attempt,   \* attempt[n]: the loop counter of that goroutine
  prepared,  \* prepared[t]: the node the orchestrator prepared transfer t on
  pushed,    \* the transfers some PushVolume was called with
  session,   \* session[t]: t in the transfer table of that node
  call,      \* call[t][k]: the k-th CommitTransfer call of the push with t
  landed,    \* history: the transfers whose volume was retagged READY
  faults     \* faults so far

lv == <<state, transfer, active>>
vars == <<up, state, transfer, active, job, attempt, prepared, pushed, session,
          call, landed, faults>>

Attempts == 1..PushAttempts

VolumeStates == {"absent", "ready", "attached", "pushing", "committing",
                 "incoming", "retired", "deleting"}

JobStates == {"idle", "activate", "stream", "giveup", "mark", "commit",
              "query", "resolve", "abort", "revert", "retire", "delete"}

Running == {"verify", "retag", "finish"}
Answers == {"ok", "dataloss", "notfound", "error"}

\* Type of the state.
TypeOK ==
  /\ up \subseteq Nodes
  /\ state \in [Nodes -> VolumeStates]
  /\ transfer \in [Nodes -> TransferIDs \cup {NoTransfer}]
  /\ active \subseteq Nodes
  /\ job \in [Nodes -> JobStates]
  /\ attempt \in [Nodes -> Attempts]
  /\ prepared \in [TransferIDs -> Nodes \cup {NoNode}]
  /\ pushed \subseteq TransferIDs
  /\ session \in [TransferIDs -> {"none", "live", "dead", "committed"}]
  /\ call \in [TransferIDs -> [Attempts -> {"none"} \cup Running \cup Answers]]
  /\ landed \subseteq TransferIDs
  /\ faults \in 0..MaxFaults

\* One node starts with the created volume.
Init ==
  /\ up = Nodes
  /\ \E home \in Nodes :
       state = [n \in Nodes |-> IF n = home THEN "ready" ELSE "absent"]
  /\ transfer = [n \in Nodes |-> NoTransfer]
  /\ active = {}
  /\ job = [n \in Nodes |-> "idle"]
  /\ attempt = [n \in Nodes |-> 1]
  /\ prepared = [t \in TransferIDs |-> NoNode]
  /\ pushed = {}
  /\ session = [t \in TransferIDs |-> "none"]
  /\ call = [t \in TransferIDs |-> [k \in Attempts |-> "none"]]
  /\ landed = {}
  /\ faults = 0

-----------------------------------------------------------------------------
\* Every crash, lost call and failed lvm command is one fault.
Fault == faults < MaxFaults /\ faults' = faults + 1

NoFault == UNCHANGED faults

\* The node a push goes to: the target tag is the address the orchestrator
\* prepared the transfer on.
Target(n) == prepared[transfer[n]]

\* A call to node n fails: it is down, or the network loses call or answer.
CallLost(n) == IF n \in up THEN Fault ELSE NoFault

\* No commit of t is being served.
Quiet(t) == \A k \in Attempts : call[t][k] \notin Running

\* The source moves on only after the calls it gave up on have ended, unless
\* they may linger.
Over(t) == Linger \/ Quiet(t)

\* lvm commands on the volume of node n: lvchange of its tags, lvchange of its
\* activation, lvremove.
Retag(n, s) == state' = [state EXCEPT ![n] = s]
SetTransfer(n, t) == transfer' = [transfer EXCEPT ![n] = t]
ActivateLV(n) == active' = active \cup {n}
DeactivateLV(n) == active' = active \ {n}
Remove(n) == Retag(n, "absent") /\ SetTransfer(n, NoTransfer) /\ DeactivateLV(n)

\* The goroutine of n continues at pc, in attempt k of its loop.
Goto(n, pc) == job' = [job EXCEPT ![n] = pc]
SetAttempt(n, k) == attempt' = [attempt EXCEPT ![n] = k]

\* The table entry of t, and the progress of its k-th commit call.
SetSession(t, s) == session' = [session EXCEPT ![t] = s]
SetCall(t, k, c) == call' = [call EXCEPT ![t][k] = c]

-----------------------------------------------------------------------------
\* The transfer table of the target (transfers.go).

\* destroy: ends a live session and removes its volume.
Destroyed(t) ==
  IF session[t] = "live"
  THEN SetSession(t, "dead") /\ Remove(prepared[t])
  ELSE UNCHANGED <<session, lv>>

\* A failed removal is logged and leaves the INCOMING volume behind.
Abandoned(t) ==
  /\ SetSession(t, IF session[t] = "live" THEN "dead" ELSE session[t])
  /\ UNCHANGED lv

Destroy(t) == \/ Destroyed(t) /\ NoFault
              \/ Abandoned(t) /\ Fault

\* PrepareReceive: the id is fresh, the volume must not exist here.  The new
\* lv is active and tagged incoming; a failed create consumes the id.
PrepareReceive(n, t) ==
  /\ n \in up /\ prepared[t] = NoNode /\ state[n] = "absent"
  /\ prepared' = [prepared EXCEPT ![t] = n]
  /\ \/ /\ SetSession(t, "live")
        /\ Retag(n, "incoming") /\ SetTransfer(n, t) /\ ActivateLV(n)
        /\ NoFault
     \/ Fault /\ SetSession(t, "dead") /\ UNCHANGED lv
  /\ UNCHANGED <<up, job, attempt, pushed, call, landed>>

\* Mutant of CommitAnswer: an unknown transfer is taken for a committed one.
CommitAnswerUnknown(t) == IF session[t] = "live" THEN "verify" ELSE "ok"

\* The check at the head of Commit: an already committed transfer answers OK
\* again.
CommitAnswer(t) == CASE session[t] = "live" -> "verify"
                     [] session[t] = "committed" -> "ok"
                     [] OTHER -> "notfound"

\* The request of source n's current attempt arrives; it is turned away when
\* the stream is not detached yet (ErrTransferBusy).
CommitArrives(n) ==
  LET t == transfer[n]
      k == attempt[n]
  IN /\ job[n] = "commit" /\ call[t][k] = "none" /\ Target(n) \in up
     /\ \/ SetCall(t, k, CommitAnswer(t))
        \/ session[t] = "live" /\ Quiet(t) /\ SetCall(t, k, "error")
     /\ UNCHANGED <<up, lv, job, attempt, prepared, pushed, session, landed, faults>>

\* Sum changes the digest it closes: of two commits of one session only the
\* first to sum can match.
FirstToSum(t, k) ==
  \A j \in Attempts \ {k} : call[t][j] \in {"none", "verify", "notfound"}

\* The digest matches, the device is synced, closed and deactivated.
CommitVerifies(t, k) ==
  /\ call[t][k] = "verify"
  /\ FirstToSum(t, k) /\ state[prepared[t]] # "absent"
  /\ SetCall(t, k, "retag")
  /\ DeactivateLV(prepared[t])
  /\ UNCHANGED <<up, state, transfer, job, attempt, prepared, pushed, session,
                 landed, faults>>

\* The digest does not match: the transfer is destroyed.
CommitRefused(t, k) ==
  /\ call[t][k] = "verify"
  /\ SetCall(t, k, "dataloss")
  /\ Destroy(t)
  /\ UNCHANGED <<up, job, attempt, prepared, pushed, landed>>

\* Sync, deactivation or retag fails, certainly so when the volume is gone.
CommitFails(t, k) ==
  /\ call[t][k] \in {"verify", "retag"}
  /\ SetCall(t, k, "error")
  /\ \/ state[prepared[t]] = "absent" /\ Destroyed(t) /\ NoFault
     \/ Fault /\ (Destroyed(t) \/ Abandoned(t))
  /\ UNCHANGED <<up, job, attempt, prepared, pushed, landed>>

\* The retag that makes the target's copy authoritative.
CommitLands(t, k) ==
  /\ call[t][k] = "retag" /\ state[prepared[t]] # "absent"
  /\ SetCall(t, k, "finish")
  /\ Retag(prepared[t], "ready")
  /\ SetTransfer(prepared[t], IF transfer[prepared[t]] = t THEN NoTransfer
                               ELSE transfer[prepared[t]])
  /\ landed' = landed \cup {t}
  /\ UNCHANGED <<up, active, job, attempt, prepared, pushed, session, faults>>

\* The table remembers the commit and the call answers.
CommitFinishes(t, k) ==
  /\ call[t][k] = "finish"
  /\ SetCall(t, k, "ok")
  /\ SetSession(t, "committed")
  /\ UNCHANGED <<up, lv, job, attempt, prepared, pushed, landed, faults>>

\* Mutant of GraceExpires: the timer is not re-armed once a stream was attached.
GraceOnce(t) ==
  /\ session[t] = "live" /\ t \notin pushed
  /\ Destroy(t)
  /\ UNCHANGED <<up, job, attempt, prepared, pushed, call, landed>>

\* The grace timer fires, or the orchestrator calls AbortTransfer.
GraceExpires(t) ==
  /\ session[t] = "live" /\ (DestroyRaces \/ Quiet(t))
  /\ Destroy(t)
  /\ UNCHANGED <<up, job, attempt, prepared, pushed, call, landed>>

-----------------------------------------------------------------------------
\* The push goroutine of source n (push.go, pushes.go).

\* MarkPushing: a READY volume gets the tags of its push.
MarkPushing(n, t) ==
  /\ state[n] = "ready"
  /\ Retag(n, "pushing") /\ SetTransfer(n, t)

\* PushVolume marks the volume and starts the goroutine.  Transfer ids are
\* single use (transfer.proto): the orchestrator pushes with an id once.
PushVolume(n, t) ==
  /\ n \in up /\ prepared[t] # NoNode /\ t \notin pushed
  /\ pushed' = pushed \cup {t}
  /\ MarkPushing(n, t)
  /\ Goto(n, "activate") /\ SetAttempt(n, 1)
  /\ UNCHANGED <<up, active, prepared, session, call, landed, faults>>

\* runPush dials (a bad address reverts at once) and activates the volume.
Activate(n) ==
  /\ job[n] = "activate"
  /\ \/ Goto(n, "stream") /\ ActivateLV(n) /\ NoFault
     \/ Fault /\ UNCHANGED active /\ (Goto(n, "giveup") \/ Goto(n, "revert"))
  /\ UNCHANGED <<up, state, transfer, attempt, prepared, pushed, session, call, landed>>

\* One stream attempt: a live session takes the frames, anything else is a
\* definitive refusal.
StreamEnds(n) ==
  /\ job[n] = "stream" /\ Target(n) \in up
  /\ Goto(n, IF session[transfer[n]] = "live" THEN "mark" ELSE "giveup")
  /\ UNCHANGED <<up, lv, attempt, prepared, pushed, session, call, landed, faults>>

\* Mutant of RetryOr: one attempt too many.
RetryOnceMore(n, pc) ==
  IF attempt[n] <= PushAttempts
  THEN SetAttempt(n, attempt[n] + 1) /\ UNCHANGED job
  ELSE Goto(n, pc) /\ UNCHANGED attempt

\* The next attempt of a loop over pushAttempts, or what follows the last.
RetryOr(n, pc) ==
  IF attempt[n] < PushAttempts
  THEN SetAttempt(n, attempt[n] + 1) /\ UNCHANGED job
  ELSE Goto(n, pc) /\ UNCHANGED attempt

\* A dropped stream is tried again.
StreamDrops(n) ==
  /\ job[n] = "stream"
  /\ CallLost(Target(n))
  /\ RetryOr(n, "giveup")
  /\ UNCHANGED <<up, lv, prepared, pushed, session, call, landed>>

\* MarkCommitting, before the first CommitTransfer is sent.
MarkCommitting(n) ==
  /\ job[n] = "mark"
  /\ \/ Retag(n, "committing") /\ Goto(n, "commit") /\ NoFault
     \/ Fault /\ Goto(n, "giveup") /\ UNCHANGED state
  /\ SetAttempt(n, 1)
  /\ UNCHANGED <<up, transfer, active, prepared, pushed, session, call, landed>>

\* commitPush reads the answer of the current attempt.
CommitReply(n) ==
  LET answer == call[transfer[n]][attempt[n]]
  IN /\ job[n] = "commit"
     /\ \/ answer = "ok" /\ Goto(n, "retire") /\ UNCHANGED attempt
        \/ answer = "dataloss" /\ Goto(n, "revert") /\ UNCHANGED attempt
        \/ answer = "notfound" /\ Goto(n, "query") /\ UNCHANGED attempt
        \/ answer = "error" /\ RetryOr(n, "query")
     /\ UNCHANGED <<up, lv, prepared, pushed, session, call, landed, faults>>

\* The current attempt fails in transport: request or answer is lost, or the
\* target is down.
CommitCallFails(n) ==
  /\ job[n] = "commit" /\ Over(transfer[n])
  /\ CallLost(Target(n))
  /\ RetryOr(n, "query")
  /\ UNCHANGED <<up, lv, prepared, pushed, session, call, landed>>

\* Mutant of Committed: a target that was attached since does not count.
CommittedIfReady(n) == state[n] = "ready"

\* QueryVolume on node n: present and not INCOMING means committed.
Committed(n) == state[n] \notin {"absent", "incoming"}

\* resolvePush and tryResolve ask the target.
Query(n) ==
  /\ job[n] \in {"query", "resolve"} /\ Target(n) \in up /\ Over(transfer[n])
  /\ Goto(n, IF Committed(Target(n)) THEN "retire" ELSE "abort")
  /\ UNCHANGED <<up, lv, attempt, prepared, pushed, session, call, landed, faults>>

\* An unreachable target: the push goroutine deactivates the volume if lvm lets
\* it and leaves it COMMITTING; the resolver of a restarted node would just ask again.
QueryFails(n) ==
  /\ job[n] = "query"
  /\ CallLost(Target(n))
  /\ Goto(n, "idle")
  /\ DeactivateLV(n) \/ UNCHANGED active
  /\ UNCHANGED <<up, state, transfer, attempt, prepared, pushed, session, call, landed>>

\* abortTransfer on the target; its error is only logged.
AbortTransfer(n) ==
  /\ job[n] \in {"giveup", "abort"}
  /\ \/ Target(n) \in up /\ Destroy(transfer[n])
     \/ CallLost(Target(n)) /\ UNCHANGED <<session, lv>>
  /\ Goto(n, "revert")
  /\ UNCHANGED <<up, attempt, prepared, pushed, call, landed>>

\* Mutant of Settled: the device is left active.
SettledActive(n, s) == Retag(n, s) /\ SetTransfer(n, NoTransfer) /\ UNCHANGED active

\* AbortPush and RetirePushed: deactivate, then retag and drop the push tags.
Settled(n, s) == Retag(n, s) /\ SetTransfer(n, NoTransfer) /\ DeactivateLV(n)

\* Either command may fail, which ends the goroutine with the tags unchanged.
SettlePush(n, s) ==
  /\ \/ Settled(n, s) /\ NoFault
     \/ /\ Fault /\ UNCHANGED <<state, transfer>>
        /\ UNCHANGED active \/ DeactivateLV(n)
  /\ Goto(n, "idle")
  /\ UNCHANGED <<up, attempt, prepared, pushed, session, call, landed>>

AbortPush(n) == job[n] = "revert" /\ SettlePush(n, "ready")

RetirePushed(n) == job[n] = "retire" /\ SettlePush(n, "retired")

-----------------------------------------------------------------------------
\* The other verbs the orchestrator calls on node n (volumes.go).

\* Attach: the tag flips before activation.
Attach(n) ==
  /\ n \in up /\ state[n] = "ready"
  /\ Retag(n, "attached")
  /\ \/ ActivateLV(n) /\ NoFault
     \/ Fault /\ UNCHANGED active
  /\ UNCHANGED <<up, transfer, job, attempt, prepared, pushed, session, call, landed>>

\* Detach: deactivation runs before the retag.
Detach(n) ==
  /\ n \in up /\ state[n] = "attached"
  /\ DeactivateLV(n)
  /\ \/ Retag(n, "ready") /\ NoFault
     \/ Fault /\ UNCHANGED state
  /\ UNCHANGED <<up, transfer, job, attempt, prepared, pushed, session, call, landed>>

\* Mutant of Deletable: an attached volume may be deleted.
DeletableAttached(n) == state[n] \in {"ready", "attached", "retired"}

\* The states MarkDeleting accepts.
Deletable(n) == state[n] \in {"ready", "retired"}

\* DeleteVolume and MarkDeleting.  The orchestrator waits until no source is
\* still COMMITTING towards this copy, unless EarlyDelete.
DeleteVolume(n) ==
  /\ n \in up /\ Deletable(n)
  /\ EarlyDelete \/ \A m \in Nodes : state[m] = "committing" => Target(m) # n
  /\ Retag(n, "deleting") /\ Goto(n, "delete")
  /\ UNCHANGED <<up, transfer, active, attempt, prepared, pushed, session, call,
                 landed, faults>>

\* runDelete: a failed removal leaves the volume DELETING.
RunDelete(n) ==
  /\ job[n] = "delete"
  /\ \/ Remove(n) /\ NoFault
     \/ Fault /\ UNCHANGED lv
  /\ Goto(n, "idle")
  /\ UNCHANGED <<up, attempt, prepared, pushed, session, call, landed>>

-----------------------------------------------------------------------------
\* Crash and restart.

\* The daemon dies: goroutines and transfer table are gone, a commit it was
\* serving fails.  With a reboot the device is gone as well.
Crash(n) ==
  /\ n \in up /\ Fault
  /\ up' = up \ {n}
  /\ UNCHANGED active \/ DeactivateLV(n)
  /\ Goto(n, "idle")
  /\ session' = [t \in TransferIDs |-> IF prepared[t] = n THEN "none" ELSE session[t]]
  /\ call' = [t \in TransferIDs |-> [k \in Attempts |->
                IF prepared[t] = n /\ call[t][k] \in Running THEN "error"
                ELSE call[t][k]]]
  /\ UNCHANGED <<state, transfer, attempt, prepared, pushed, landed>>

\* What Recover does with the volume it finds on n.
Recover(n) ==
  CASE state[n] \in {"incoming", "deleting"} -> Remove(n)
    [] state[n] = "attached" -> ActivateLV(n) /\ UNCHANGED <<state, transfer>>
    [] state[n] = "pushing" -> Settled(n, "ready")
    [] OTHER -> UNCHANGED lv

\* Recover, whose failures leave the volume in its state, then the resolver of
\* a COMMITTING volume with the transfer and the target its tags name.
Restart(n) ==
  /\ n \notin up
  /\ up' = up \cup {n}
  /\ \/ Recover(n) /\ NoFault
     \/ Fault /\ UNCHANGED lv
  /\ Goto(n, IF state[n] = "committing" THEN "resolve" ELSE "idle")
  /\ UNCHANGED <<attempt, prepared, pushed, session, call, landed>>

-----------------------------------------------------------------------------
PushSteps(n) ==
  \/ Activate(n) \/ StreamEnds(n) \/ StreamDrops(n) \/ MarkCommitting(n)
  \/ CommitArrives(n) \/ CommitReply(n) \/ CommitCallFails(n)
  \/ Query(n) \/ QueryFails(n) \/ AbortTransfer(n)
  \/ AbortPush(n) \/ RetirePushed(n)

CommitSteps(t, k) ==
  \/ CommitVerifies(t, k) \/ CommitRefused(t, k) \/ CommitFails(t, k)
  \/ CommitLands(t, k) \/ CommitFinishes(t, k)

Verbs(n) ==
  \/ \E t \in TransferIDs : PrepareReceive(n, t) \/ PushVolume(n, t)
  \/ Attach(n) \/ Detach(n) \/ DeleteVolume(n)

Next ==
  \/ \E n \in Nodes : Verbs(n) \/ PushSteps(n) \/ RunDelete(n) \/ Crash(n) \/ Restart(n)
  \/ \E t \in TransferIDs : GraceExpires(t)
  \/ \E t \in TransferIDs, k \in Attempts : CommitSteps(t, k)

Spec == Init /\ [][Next]_vars

\* Goroutines run on, timers fire, a crashed daemon is restarted (systemd
\* restarts it); the orchestrator need not do anything.
Fairness ==
  /\ \A n \in Nodes : /\ WF_vars(PushSteps(n)) /\ WF_vars(RunDelete(n))
                      /\ WF_vars(Restart(n))
  /\ \A t \in TransferIDs :
       /\ WF_vars(GraceExpires(t))
       /\ \A k \in Attempts : WF_vars(CommitSteps(t, k))

FairSpec == Spec /\ Fairness

-----------------------------------------------------------------------------
\* Properties.

\* Copies an orchestrator may use, or that a node is free to hand on.
Serving(n) == state[n] \in {"ready", "attached", "pushing"}

\* At most one node ever holds an authoritative copy of the volume
\* (README.md): two nodes never serve it at once, and nobody serves it while
\* a source waits for a commit that has not landed.
SingleCopy ==
  \A m, n \in Nodes :
    Serving(m) /\ m # n =>
      ~Serving(n) /\ (state[n] = "committing" => transfer[n] \in landed)

\* The nodes whose copy counts: a COMMITTING source until its commit lands.
Owners == {n \in Nodes : \/ Serving(n)
                         \/ state[n] = "committing" /\ transfer[n] \notin landed}

\* "READY and RETIRED volumes are inactive" (deactivatePushed in pushes.go):
\* whatever attach, push, crash and recovery did, no device is left behind.
RestsInactive ==
  \A n \in Nodes : state[n] \in {"ready", "retired"} => n \notin active

\* A commit that landed is final and the last copy never vanishes: the set of
\* owners becomes empty only by deleting a READY volume, and a source that
\* reverts to READY does so before its commit lands.
NeverLost ==
  [][ /\ Owners # {} /\ Owners' = {} =>
           \E n \in Nodes : state[n] = "ready" /\ state'[n] = "deleting"
      /\ \A n \in Nodes : state[n] = "committing" /\ state'[n] = "ready" =>
           transfer[n] \notin landed' ]_vars

\* A goroutine that works on a volume ends: streams and commits run out of
\* attempts, the resolver gets its answer once the target is back.
JobsEnd == \A n \in Nodes : job[n] # "idle" ~> job[n] = "idle"

\* A prepared transfer does not occupy its target for ever: it commits, or
\* the grace timer, an abort or a crash ends it.
SessionsEnd == \A t \in TransferIDs : session[t] = "live" ~> session[t] # "live"

\* A move ends on both sides, whatever is lost and whoever crashes: the push
\* goroutine of the source and the session of the target.
MovesEnd == JobsEnd /\ SessionsEnd

-----------------------------------------------------------------------------
\* The inductive invariant behind SingleCopy, for an orchestrator that waits
\* and calls that do not outlive their caller.

Calm == ~Linger /\ ~DestroyRaces /\ ~EarlyDelete

PushStates == {"pushing", "committing"}

Pushing(n) == state[n] \in PushStates

\* A push names a prepared transfer, its own, and spends it.
OwnTransfer ==
  /\ \A n \in Nodes : Pushing(n) => transfer[n] \in pushed /\ Target(n) \in Nodes
  /\ \A m, n \in Nodes :
       Pushing(m) /\ Pushing(n) /\ transfer[m] = transfer[n] => m = n

FreshTransfers ==
  \A t \in TransferIDs :
    /\ prepared[t] = NoNode => t \notin pushed
    /\ t \notin pushed => t \notin landed /\ \A k \in Attempts : call[t][k] = "none"

TagsInv == OwnTransfer /\ FreshTransfers

\* A goroutine works on the state its node's lvm is in.
JobStateInv ==
  \A n \in Nodes :
    /\ job[n] # "idle" => n \in up
    /\ job[n] = "delete" => state[n] = "deleting"
    /\ job[n] \in {"activate", "stream", "mark", "giveup"} => state[n] = "pushing"
    /\ job[n] \in {"commit", "query", "resolve", "abort", "retire"} => state[n] = "committing"
    /\ job[n] = "revert" => Pushing(n)

\* It leaves a commit only when the call is over, and knows how it ended.
JobCallInv ==
  \A n \in Nodes :
    /\ job[n] \notin {"idle", "delete", "commit", "query", "resolve"} => Quiet(transfer[n])
    /\ job[n] = "commit" =>
         \A k \in Attempts \ {attempt[n]} : call[transfer[n]][k] \notin Running
    /\ job[n] = "retire" => transfer[n] \in landed
    /\ job[n] \in {"giveup", "abort", "revert"} => transfer[n] \notin landed

JobInv == JobStateInv /\ JobCallInv

\* A live session has its INCOMING volume on a node that runs, and until its
\* commit runs nothing has landed.
SessionInv ==
  \A t \in TransferIDs :
    /\ session[t] = "live" => prepared[t] \in up
    /\ session[t] = "live" /\ Quiet(t) =>
         /\ state[prepared[t]] = "incoming" /\ transfer[prepared[t]] = t
         /\ t \notin landed
    /\ session[t] = "committed" => t \in landed

\* At most one commit of a transfer runs, on a live session, for a source that
\* is COMMITTING.
RunningInv ==
  \A t \in TransferIDs, k \in Attempts : call[t][k] \in Running =>
    /\ session[t] = "live"
    /\ \A j \in Attempts : call[t][j] \in Running => j = k
    /\ \E n \in Nodes : state[n] = "committing" /\ transfer[n] = t

\* What is true where a commit call is.
ProgressInv ==
  \A t \in TransferIDs, k \in Attempts :
    /\ call[t][k] \in {"verify", "retag"} =>
         /\ state[prepared[t]] = "incoming" /\ transfer[prepared[t]] = t
         /\ t \notin landed
    /\ call[t][k] = "retag" => prepared[t] \notin active
    /\ call[t][k] \in {"finish", "ok"} => t \in landed
    /\ call[t][k] = "dataloss" => t \notin landed /\ session[t] # "live"

CallInv == SessionInv /\ RunningInv /\ ProgressInv

\* What QueryVolume would answer about a push: its target holds the volume
\* exactly when the commit landed.
TargetInv ==
  \A n \in Nodes :
    /\ state[n] = "pushing" => transfer[n] \notin landed
    /\ (state[n] = "committing" \/ job[n] = "mark") /\ transfer[n] \notin landed
         => state[Target(n)] \in {"absent", "incoming"}
    /\ state[n] = "committing" /\ transfer[n] \in landed
         => state[Target(n)] \notin {"absent", "incoming", "deleting"}

OwnerInv == \A m, n \in Nodes : m \in Owners /\ n \in Owners => m = n

MoveInv == TypeOK /\ TagsInv /\ JobInv /\ CallInv /\ TargetInv /\ OwnerInv /\ RestsInactive

-----------------------------------------------------------------------------
\* The owner of the volume as the abstract specification sees it.
Owner == IF Owners = {} THEN NoNode ELSE CHOOSE n \in Nodes : n \in Owners

A == INSTANCE Authority WITH owner <- Owner,
       inUse <- \E n \in Nodes : state[n] = "attached"

\* The move protocol implements single ownership.
OneOwner == A!Spec
=============================================================================
