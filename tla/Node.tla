-------------------------------- MODULE Node --------------------------------
(***************************************************************************)
(* The daemon of one node as a process: cmd/beanstore/main.go from the     *)
(* configuration to the graceful stop, internal/config/config.go,          *)
(* storage.Setup, the transport and roles of internal/api/authz.go and     *)
(* tls.go, and the two verbs about capacity, ResizeVolume and              *)
(* GetNodeStatus.  The commands it hands to lvm are those of module Lvm.   *)
(*                                                                         *)
(* Sizes are scaled: Width stands for 2^64 and Unit for 2^10.              *)
(***************************************************************************)
EXTENDS Lvm

CONSTANTS
  Width,          \* an unsigned word holds 0..Width-1
  Unit,           \* the factor of the suffix K
  Hundred,        \* the whole of a percentage
  PoolSizes,      \* values of pool_size: a number and a suffix
  FreeSpaces,     \* what lvm reports as free in the vg
  TransferChunk,  \* TransferChunkBytes
  Chunks,         \* chunk sizes of pools the daemon finds
  LargePool,      \* lvm gives a pool above this size a chunk above TransferChunk
  Resizers,       \* handlers of ResizeVolume
  MaxFaults       \* bound: failed commands, crashes

ASSUME NodeAssumption ==
  /\ Width \in Nat \ {0, 1} /\ Unit \in Nat \ {0} /\ Hundred \in 1..Width /\ TransferChunk \in Nat \ {0}
  /\ PoolSizes \subseteq [n : Nat, suffix : {"none", "K", "M", "G", "T", "%"}]
  /\ FreeSpaces \subseteq 0..Width - 1 /\ Chunks \subseteq 0..2 * TransferChunk
  /\ MaxFaults \in Nat

VARIABLES
  pc,         \* where run() is; "off" before the first start
  cfg,        \* the Config, Unread before the first load, Invalid when refused
  vg,         \* does the volume group exist?
  pool,       \* the lv named ThinPool: its kind ("none", "pool", "other"), chunk and size
  seen,       \* FreeBytes as Setup read it
  transport,  \* the server's credentials: "none", "plain" or "mtls"
  cancelled,  \* the context of run() is cancelled: SIGTERM arrived
  vols,       \* the lvs in the pool: tag, size and whether the device exists
  at,         \* at[h]: the step of handler h
  want,       \* want[h]: the size asked of h
  answer,     \* answer[h]: the last answer of h
  status,     \* the volumes GetNodeStatus counted, by state, or its failure
  peer,       \* the call whose handler runs, see Serve
  faults

nodeVars == <<pc, cfg, vg, pool, seen, transport, cancelled, vols, at, want, answer, status,
              peer, faults>>

Handlers == Resizers \cup {"status"}

-----------------------------------------------------------------------------
\* Configuration.

\* Functions by their pairs; where two are joined the first decides (as in module
\* TLC, whose operators the proofs could not use).
d :> e == [x \in {d} |-> e]
f @@ g == [x \in DOMAIN f \cup DOMAIN g |-> IF x \in DOMAIN f THEN f[x] ELSE g[x]]

Nothing == <<>>

TLSFiles == {"tls.ca_file", "tls.cert_file", "tls.key_file"}
\* The keys whose value is only checked: "good" or "bad", absent is no value.
Checked == {"listen_address", "log_level", "volume_group", "thin_pool",
            "max_inbound_transfers", "transfer_grace"}

defaults == [listen_address |-> "good", log_level |-> "good",
             max_inbound_transfers |-> "good", transfer_grace |-> "good"]

\* A config file: at most one checked key is bad or missing.
Files ==
  LET checked == {[k \in Checked |-> "good"]}
                   \cup {[[k \in Checked |-> "good"] EXCEPT ![j] = "bad"] : j \in Checked}
                   \cup {[k \in Checked \ {j} |-> "good"] : j \in Checked}
      sized == {Nothing} \cup {[pool_size |-> p] : p \in PoolSizes}
      tls == {[f \in fs |-> "file"] : fs \in SUBSET TLSFiles}
      flag(k) == {Nothing, k :> "true"}
  IN  {c @@ s @@ t @@ i @@ p : c \in checked, s \in sized, t \in tls,
                               i \in flag("insecure"), p \in flag("create_pool")}

\* The BEANSTORE_ environment: nothing, one key, or enough without a file.  The
\* name BEANSTORE_TLS_CA_FILE becomes the key tls_ca_file, which no field reads.
Environments ==
  {Nothing, [volume_group |-> "good", thin_pool |-> "good", insecure |-> "true"],
   [tls_ca_file |-> "file"], [insecure |-> "true"], [insecure |-> "false"],
   [create_pool |-> "false"]} \cup {k :> "bad" : k \in Checked}

\* Load: the environment over the file over the defaults.
Merged(file, environment) == environment @@ file @@ defaults

Get(raw, key) == IF key \in DOMAIN raw THEN raw[key] ELSE "unset"

\* TLS.Enabled: any of the three files is set.
Enabled(tls) == tls # {}

Multiplier(suffix) ==
  CASE suffix = "K" -> Unit
    [] suffix = "M" -> Unit * Unit
    [] suffix = "G" -> Unit * Unit * Unit
    [] suffix = "T" -> Unit * Unit * Unit * Unit
    [] OTHER -> 1

\* Mutant of ParsesPoolSize: no upper bound on the percentage.
ParsesAnyPercent(value) == value.n \in 1..Width - 1

\* parsePoolSize: which values it takes, and the PoolSize; the product wraps.
ParsesPoolSize(value) ==
  IF value.suffix = "%" THEN value.n \in 1..Hundred ELSE value.n \in 1..Width - 1

PoolSize(value) ==
  IF value.suffix = "%"
    THEN [bytes |-> 0, percent |-> value.n]
    ELSE [bytes |-> (value.n * Multiplier(value.suffix)) % Width, percent |-> 0]

NoPoolSize == [bytes |-> 0, percent |-> 0]
Unread == [ok |-> FALSE, read |-> FALSE]
Invalid == [ok |-> FALSE, read |-> TRUE]

validate(raw) ==
  LET tls == {f \in TLSFiles : Get(raw, f) # "unset"}
      insecure == Get(raw, "insecure") = "true"
      create == Get(raw, "create_pool") = "true"
      sized == "pool_size" \in DOMAIN raw
  IN  IF /\ \A k \in Checked : Get(raw, k) = "good"
         /\ sized = create
         /\ sized => ParsesPoolSize(raw["pool_size"])
         /\ ~(Enabled(tls) /\ insecure)
         /\ Enabled(tls) => tls = TLSFiles
         /\ ~Enabled(tls) => insecure
        THEN [ok |-> TRUE, create |-> create, asked |-> IF sized THEN {raw["pool_size"]} ELSE {},
              poolSize |-> IF create THEN PoolSize(raw["pool_size"]) ELSE NoPoolSize,
              tls |-> tls, insecure |-> insecure]
        ELSE Invalid

-----------------------------------------------------------------------------
\* Startup.  A step whose commands take the context fails once it is cancelled;
\* main exits with 1 and systemd starts it again unless it was stopped.

\* An lv in the pool.
Lv(tag, bytes, live) == [tag |-> tag, size |-> bytes, live |-> live]

\* An answer of GetNodeStatus.
Counted(ok, volumes) == [ok |-> ok, volumes |-> volumes]

Fault == faults < MaxFaults /\ faults' = faults + 1
NoFault == UNCHANGED faults

Commanding == {"setup", "pool", "create", "reread", "recover"}
Starting == Commanding \cup {"listen", "creds", "register", "ready"}
Serving == {"serve", "drain"}

node == <<pc, cfg, vg, pool, seen, transport, cancelled>>
verbs == <<vols, at, want, answer, status, peer>>

Idle == (\A h \in Handlers : at[h] = "idle") /\ peer = Nothing

Start ==
  /\ pc \in {"off", "stopped"} \/ (pc = "failed" /\ cancelled)
  /\ pc' = "load" /\ cancelled' = FALSE
  /\ UNCHANGED <<cfg, vg, pool, seen, transport, faults, verbs>>

\* loadConfig and Load: the layers stay what they are, so a later load is the
\* same as the first.  A given path must exist, the default one need not.
Load ==
  /\ pc = "load"
  /\ IF cfg = Unread
       THEN \/ cfg' = Invalid
            \/ \E file \in Files \cup {Nothing}, environment \in Environments :
                 cfg' = validate(Merged(file, environment))
       ELSE UNCHANGED cfg
  /\ pc' = IF cfg'.ok THEN "setup" ELSE "failed"
  /\ UNCHANGED <<vg, pool, seen, transport, cancelled, faults, verbs>>

Fails ==
  /\ pc \in Starting
  /\ \/ pc \in Commanding /\ cancelled /\ NoFault
     \/ Fault
  /\ pc' = "failed"
  /\ UNCHANGED <<cfg, vg, pool, seen, transport, cancelled, verbs>>

\* One step of startup from here to there.
Step(from, to) ==
  /\ pc = from /\ pc' = to
  /\ from \in Commanding => ~cancelled
  /\ UNCHANGED <<cfg, vg, cancelled, faults, verbs>>

checkChunkSize(p) == p.chunk # 0 /\ TransferChunk % p.chunk = 0

LookUpVG ==
  /\ Step("setup", IF vg THEN "pool" ELSE "failed")
  /\ seen' \in IF cfg.create THEN FreeSpaces ELSE {0}
  /\ UNCHANGED <<pool, transport>>

\* Mutant of LookUpPool: with create_pool an existing pool is in the way.
LookUpPoolStrict ==
  /\ Step("pool", IF cfg.create THEN IF pool.kind = "none" THEN "create" ELSE "failed"
                  ELSE IF pool.kind = "pool" /\ checkChunkSize(pool) THEN "recover" ELSE "failed")
  /\ UNCHANGED <<pool, seen, transport>>

LookUpPool ==
  /\ Step("pool", IF pool.kind = "none" THEN IF cfg.create THEN "create" ELSE "failed"
                  ELSE IF pool.kind = "pool" /\ checkChunkSize(pool) THEN "recover" ELSE "failed")
  /\ UNCHANGED <<pool, seen, transport>>

\* Mutant of PoolBytes: multiplies before it divides.
PoolBytesWrapping(ps, free) ==
  IF ps.percent > 0 THEN ((free * ps.percent) % Width) \div Hundred ELSE ps.bytes

PoolBytes(ps, free) ==
  IF ps.percent > 0 THEN (free \div Hundred) * ps.percent ELSE ps.bytes

\* lvm: the chunk of a new pool grows with its size.
DefaultChunk(bytes) == IF bytes > LargePool THEN 2 * TransferChunk ELSE 1

\* lvm refuses a name that is taken, a size of zero and one above the free space.
CreatePool ==
  LET bytes == PoolBytes(cfg.poolSize, seen)
  IN  \/ /\ Step("create", "reread")
         /\ \E free \in FreeSpaces : bytes <= free
         /\ pool.kind = "none" /\ bytes > 0
         /\ pool' = [kind |-> "pool", chunk |-> DefaultChunk(bytes), size |-> bytes]
         /\ UNCHANGED <<seen, transport>>
      \/ /\ Step("create", "failed")
         /\ pool.kind # "none" \/ bytes = 0 \/ \E free \in FreeSpaces : bytes > free
         /\ UNCHANGED <<pool, seen, transport>>

Reread ==
  /\ Step("reread", IF pool.kind # "none" /\ checkChunkSize(pool) THEN "recover" ELSE "failed")
  /\ seen' = 0
  /\ UNCHANGED <<pool, transport>>

\* storage.Recover, see Rollback, Volumes and Move.
Recover == Step("recover", "listen") /\ UNCHANGED <<pool, seen, transport>>

Listen == Step("listen", "creds") /\ UNCHANGED <<pool, seen, transport>>

\* ServerOptions and ServerCredentials.
ServerOptions ==
  /\ Step("creds", "register")
  /\ transport' = IF Enabled(cfg.tls) THEN "mtls" ELSE "plain"
  /\ UNCHANGED <<pool, seen>>

Register == Step("register", "ready") /\ UNCHANGED <<pool, seen, transport>>

\* Serve, unless GracefulStop came first: Serve then returns an error.
Ready ==
  /\ \/ Step("ready", "serve")
     \/ cancelled /\ Step("ready", "failed")
  /\ UNCHANGED <<pool, seen, transport>>

Signal ==
  /\ pc \in Starting \cup {"serve"} /\ ~cancelled
  /\ cancelled' = TRUE
  /\ UNCHANGED <<pc, cfg, vg, pool, seen, transport, faults, verbs>>

\* Mutant of Drain: calls are accepted until none runs.
DrainWhenIdle ==
  /\ pc = "serve" /\ cancelled /\ Idle
  /\ pc' = "drain"
  /\ UNCHANGED <<cfg, vg, pool, seen, transport, cancelled, faults, verbs>>

\* The goroutine that waits for the context.
Drain ==
  /\ pc = "serve" /\ cancelled
  /\ pc' = "drain"
  /\ UNCHANGED <<cfg, vg, pool, seen, transport, cancelled, faults, verbs>>

\* GracefulStop returns when the last handler has, and Serve with it.
Stop ==
  /\ pc = "drain" /\ Idle
  /\ pc' = "stopped" /\ transport' = "none"
  /\ UNCHANGED <<cfg, vg, pool, seen, cancelled, faults, verbs>>

Crash ==
  /\ pc \in Starting \cup Serving /\ Fault
  /\ pc' = "failed" /\ transport' = "none" /\ cancelled' = FALSE
  /\ at' = [h \in Handlers |-> "idle"] /\ peer' = Nothing
  /\ answer' = [h \in Resizers |-> "none"] /\ want' = [h \in Resizers |-> 0]
  /\ status' = Counted(FALSE, Nothing)
  /\ UNCHANGED <<cfg, vg, pool, seen, vols>>

\* Restart=on-failure.
Restart ==
  /\ pc = "failed" /\ ~cancelled
  /\ pc' = "load" /\ transport' = "none"
  /\ UNCHANGED <<cfg, vg, pool, seen, cancelled, faults, verbs>>

\* Someone else uses lvm: the pool's name is taken before Setup takes it, or the
\* pool is removed, before Setup reads what it made or under the daemon.
OtherAdmin ==
  /\ Fault
  /\ \/ /\ pc = "create" /\ pool.kind = "none"
        /\ \E kind \in {"pool", "other"} :
             pool' = [kind |-> kind, chunk |-> IF kind = "pool" THEN 1 ELSE 0, size |-> 1]
     \/ /\ pc \in {"reread", "serve"} /\ pool.kind = "pool"
        /\ pool' = [kind |-> "none", chunk |-> 0, size |-> 0]
  /\ UNCHANGED <<pc, cfg, vg, seen, transport, cancelled, verbs>>
-----------------------------------------------------------------------------
\* Calls.  bound: they arrive where the configuration creates no pool, and only
\* the two resizes overlap.

Accepting == pc = "serve" /\ ~cfg.create

\* A client certificate: verified against the ca or not, with its OUs in order.
Certificates ==
  [verified : BOOLEAN,
   ous : {<<>>, <<"node">>, <<"orchestrator">>, <<"other">>, <<"other", "node">>,
          <<"node", "orchestrator">>}]
NoCertificate == [verified |-> FALSE, ous |-> <<>>]

Services == {"volume", "operation", "transfer", "reflection"}

\* peerRole: the first OU that is a role, of the verified certificate.
peerRole(cert) ==
  LET roles == {i \in 1..Len(cert.ous) : cert.ous[i] \in {"node", "orchestrator"}}
  IN  IF cert.verified /\ roles # {} THEN cert.ous[First(roles)] ELSE "none"

authorize(cert, service) ==
  \/ peerRole(cert) = "orchestrator"
  \/ peerRole(cert) = "node" /\ service = "transfer"

\* Mutant of Admitted: the stream interceptor is missing.
AdmittedUnaryOnly(cert, service, streaming) ==
  transport = "mtls" => cert.verified /\ (streaming \/ authorize(cert, service))

\* The handshake of RequireAndVerifyClientCert, and the interceptors ServerOptions
\* installs with TLS.
Admitted(cert, service, streaming) ==
  transport = "mtls" => cert.verified /\ authorize(cert, service)

\* A handler of any service runs for a caller.
Serve ==
  /\ Accepting /\ Idle
  /\ \E cert \in Certificates \cup {NoCertificate}, service \in Services, streaming \in BOOLEAN :
       /\ Admitted(cert, service, streaming)
       /\ peer' = [cert |-> cert, service |-> service, streaming |-> streaming]
  /\ UNCHANGED <<node, vols, at, want, answer, status, faults>>

\* A handler of a stream waits for its client to read or to send.
WaitsForClient == peer # Nothing /\ peer.streaming

Served ==
  /\ peer # Nothing /\ ~peer.streaming
  /\ peer' = Nothing
  /\ UNCHANGED <<node, vols, at, want, answer, status, faults>>

StreamServed ==
  /\ WaitsForClient
  /\ peer' = Nothing
  /\ UNCHANGED <<node, vols, at, want, answer, status, faults>>

\* The api's checks of a ResizeVolume request.
ResizeVolume(h) ==
  /\ Accepting /\ peer = Nothing /\ at["status"] = "idle" /\ at[h] = "idle"
  /\ \E bytes \in 0..MaxSize :
       /\ want' = [want EXCEPT ![h] = bytes]
       /\ at' = [at EXCEPT ![h] = IF bytes = 0 THEN "idle" ELSE "look"]
       /\ answer' = [answer EXCEPT ![h] = IF bytes = 0 THEN "InvalidArgument" ELSE "none"]
  /\ UNCHANGED <<node, vols, status, peer, faults>>

\* volumeError, with "Internal" for every failure of a command.  The size asked is
\* kept only to compare it with an OK.
Answer(h, code) ==
  /\ at' = [at EXCEPT ![h] = "idle"]
  /\ answer' = [answer EXCEPT ![h] = code]
  /\ want' = [want EXCEPT ![h] = IF code = "OK" THEN @ ELSE 0]

\* storage.ResizeVolume up to the command: GetVolume and the two refusals.
LookUp(h) ==
  /\ at[h] = "look"
  /\ \/ /\ vols["v1"].tag \in {"ready", "attached"} /\ want[h] > vols["v1"].size
        /\ at' = [at EXCEPT ![h] = "resize"]
        /\ UNCHANGED <<answer, want>>
        /\ NoFault
     \/ /\ vols["v1"].tag \notin {"ready", "attached"} \/ want[h] <= vols["v1"].size
        /\ Answer(h, "FailedPrecondition")
        /\ NoFault
     \/ Fault /\ Answer(h, "Internal")
  /\ UNCHANGED <<node, vols, status, peer>>

\* The command ResizeLogicalVolume renders for a size in bytes.
ResizeLine(bytes) ==
  Render([op |-> "ResizeLogicalVolume", opts |-> {}, listed |-> FALSE,
          target |-> [kind |-> "name", ds |-> Devices],
          size |-> [unit |-> "bytes", n |-> bytes, signs |-> <<>>],
          devices |-> [given |-> FALSE, list |-> {}], autobackup |-> "nil"])

\* Mutant of Resize: the error of the command is dropped.
ResizeIgnored(h) ==
  /\ at[h] = "resize"
  /\ \/ /\ \E new \in Resized(ResizeLine(want[h]), vols["v1"].size, vols["v1"].live) :
             vols' = [vols EXCEPT !["v1"].size = new]
        /\ NoFault
     \/ Fault /\ UNCHANGED vols
  /\ Answer(h, "OK")
  /\ UNCHANGED <<node, status, peer>>

Resize(h) ==
  /\ at[h] = "resize"
  /\ \/ \E new \in Resized(ResizeLine(want[h]), vols["v1"].size, vols["v1"].live) :
          /\ vols' = [vols EXCEPT !["v1"].size = new]
          /\ Answer(h, IF new # vols["v1"].size THEN "OK" ELSE "Internal")
          /\ NoFault
     \/ Fault /\ Answer(h, "Internal") /\ UNCHANGED vols
  /\ UNCHANGED <<node, status, peer>>

\* GetNodeStatus: the pool, then the scan; a pool that is gone is an error.
GetNodeStatus ==
  /\ Accepting /\ Idle
  /\ at' = [at EXCEPT !["status"] = IF pool.kind = "none" THEN "idle" ELSE "scan"]
  /\ status' = Counted(FALSE, Nothing)
  /\ UNCHANGED <<node, vols, want, answer, peer, faults>>

\* stateOf: the state of an lv's tag, none for a foreign lv.
stateOf(tag) ==
  CASE tag \in {"ready", "attached", "pushing"} -> {tag}
    [] tag = "broken" -> {"unknown"}
    [] tag = "foreign" -> {}

\* ListVolumes and the counts by state.
Scan ==
  /\ at["status"] = "scan"
  /\ at' = [at EXCEPT !["status"] = "sent"]
  /\ \/ /\ status' = Counted(TRUE, [v \in {v \in DOMAIN vols : stateOf(vols[v].tag) # {}} |->
                                      [state |-> stateOf(vols[v].tag), size |-> vols[v].size]])
        /\ NoFault
     \/ Fault /\ status' = Counted(FALSE, Nothing)
  /\ UNCHANGED <<node, vols, want, answer, peer>>

\* GetVersion, and the answer.
Sent ==
  /\ at["status"] = "sent"
  /\ at' = [at EXCEPT !["status"] = "idle"] /\ status' = Counted(FALSE, Nothing)
  /\ UNCHANGED <<node, vols, want, answer, peer, faults>>

\* The other verbs of the volume: attach, detach and the start and end of a push
\* change its tag or its device; a READY volume has no device.
OtherVerb ==
  /\ Accepting
  /\ \E tag \in {"ready", "attached", "pushing"}, live \in BOOLEAN :
       /\ tag # vols["v1"].tag => "ready" \in {tag, vols["v1"].tag}
       /\ tag = "ready" => ~live
       /\ vols' = [vols EXCEPT !["v1"] = Lv(tag, @.size, live)]
  /\ UNCHANGED <<node, at, want, answer, status, peer, faults>>

-----------------------------------------------------------------------------
NodeInit ==
  /\ pc = "off" /\ cfg = Unread /\ seen = 0 /\ transport = "none" /\ cancelled = FALSE
  /\ vg \in BOOLEAN
  /\ pool \in {[kind |-> k, chunk |-> 0, size |-> 0] : k \in {"none", "other"}}
                \cup {[kind |-> "pool", chunk |-> c, size |-> 1] : c \in Chunks}
  /\ \E tag \in {"ready", "broken", "foreign"} :
       vols = [v1 |-> Lv("ready", 1, FALSE), v2 |-> Lv(tag, 1, FALSE)]
  /\ at = [h \in Handlers |-> "idle"] /\ want = [h \in Resizers |-> 0]
  /\ answer = [h \in Resizers |-> "none"] /\ status = Counted(FALSE, Nothing) /\ peer = Nothing /\ faults = 0

Startup == Load \/ LookUpVG \/ LookUpPool \/ CreatePool \/ Reread \/ Recover \/ Listen
             \/ ServerOptions \/ Register \/ Ready

Handler == Served \/ StreamServed \/ Scan \/ Sent \/ (\E h \in Resizers : LookUp(h) \/ Resize(h))

Calls == Serve \/ GetNodeStatus \/ OtherVerb \/ (\E h \in Resizers : ResizeVolume(h))

NodeNext == Start \/ Startup \/ Fails \/ Signal \/ Drain \/ Stop \/ Crash \/ Restart
              \/ OtherAdmin \/ Calls \/ Handler

\* The daemon, and a program that uses the library; they share no state.
NodeSpec ==
  /\ NodeInit /\ LvmInit
  /\ [][\/ NodeNext /\ UNCHANGED lvmVars
        \/ LvmNext /\ UNCHANGED nodeVars]_<<nodeVars, lvmVars>>

\* The process runs, systemd restarts it, and lvm commands end.  A stream ends
\* when its client lets it.
NodeFairness ==
  /\ WF_nodeVars(Startup \/ Fails) /\ WF_nodeVars(Restart) /\ WF_nodeVars(Drain)
  /\ WF_nodeVars(Stop) /\ WF_nodeVars(Served) /\ WF_nodeVars(Scan \/ Sent)
  /\ \A h \in Resizers : WF_nodeVars(LookUp(h) \/ Resize(h))

-----------------------------------------------------------------------------
\* Properties.

\* The types of the variables, those of the library included.
NodeTypeOK ==
  /\ LvmTypeOK
  /\ pc \in {"off", "load", "failed", "stopped"} \cup Starting \cup Serving
  /\ cfg.ok => cfg.poolSize \in [bytes : 0..Width - 1, percent : 0..Hundred]
  /\ vg \in BOOLEAN /\ cancelled \in BOOLEAN
  /\ pool \in [kind : {"none", "pool", "other"}, chunk : 0..2 * TransferChunk, size : 0..Width - 1]
  /\ seen \in FreeSpaces \cup {0}
  /\ transport \in {"none", "plain", "mtls"}
  /\ \A v \in DOMAIN vols : vols[v].size \in 1..MaxSize
  /\ at \in [Handlers -> {"idle", "look", "resize", "scan", "sent"}]
  /\ want \in [Resizers -> 0..MaxSize] /\ faults \in 0..MaxFaults

\* A daemon that serves has a thin pool whose chunks transfer frames cover whole,
\* whether it found the pool or made it, as checkChunkSize says transfers need.
ChunksFit ==
  (pc \in Serving /\ pool.kind # "none") =>
    pool.kind = "pool" /\ \E k \in 1..TransferChunk : k * pool.chunk = TransferChunk

\* The pool Setup created has the size pool_size asks for, to a rounding of the
\* percentage that never exceeds it; only a byte count that does not fit a word
\* gives another size, because parsePoolSize does not look at the product.
PoolAsAsked ==
  (pc = "reread" /\ pool.kind # "none") =>
    \A a \in cfg.asked :
      LET percent == a.suffix = "%"
          exact == IF percent THEN (seen * a.n) \div Hundred ELSE a.n * Multiplier(a.suffix)
      IN  exact < Width => pool.size \in exact - (IF percent THEN a.n ELSE 0)..exact

\* Whatever Setup finds, creates, is interrupted at or races with, the pool is
\* one the operator asked for and transfers are safe in.
SafePool == ChunksFit /\ PoolAsAsked

\* Plaintext is served only where the configuration opts in and names no TLS
\* file, and TLS only with all of its files: no layer of the configuration turns
\* configured TLS off in silence.
Secured ==
  pc \in Serving => IF transport = "plain" THEN cfg.insecure /\ cfg.tls = {}
                                           ELSE ~cfg.insecure /\ cfg.tls = TLSFiles

\* The transport is the configured one, and with TLS a handler of any service,
\* streaming or not, runs only for a verified certificate with a role, and for
\* the node role only on the transfer plane.
Authorised ==
  /\ Secured
  /\ (peer # Nothing /\ cfg.tls # {}) =>
       /\ peer.cert.verified
       /\ \E i \in 1..Len(peer.cert.ous) :
            \/ peer.cert.ous[i] = "orchestrator"
            \/ peer.cert.ous[i] = "node" /\ peer.service = "transfer"

\* "volumes cannot shrink": a resize answered OK stays done.  False: the check of
\* the size is stale when the command runs, and the device that would make lvm
\* ask before it shrinks is not there while the volume is READY.
ResizeKept == \A h \in Resizers : answer[h] = "OK" => vols["v1"].size >= want[h]

\* However many resizes with stale checks overlap, and whatever verbs run beside
\* them, a volume does not get smaller under its user, and a resize that answers
\* OK leaves the size that was asked for.
ResizeSafe ==
  [][/\ vols["v1"].live => vols'["v1"].size >= vols["v1"].size
     /\ \A h \in Resizers :
          answer[h] # "OK" /\ answer'[h] = "OK" => vols'["v1"].size = want[h]]_nodeVars

\* A status counts every volume with a state tag, an unreadable one as unknown,
\* and no foreign lv.
ScanWhole ==
  status.ok => DOMAIN status.volumes = {v \in DOMAIN vols : vols[v].tag # "foreign"}

\* No answer hides an object that is there, since recovery, rollback and the
\* orchestrator act on absence: not a list, not the scan, and not ErrNotFound for
\* what was merely denied.
AbsenceReal == PermissionNotAbsence /\ ListWhole /\ ScanWhole

\* A node whose configuration and pool are good comes up, through crashes at any
\* step of Setup and failed commands, unless it is told to stop.
StartsWhenSafe ==
  LET good == cfg.ok /\ vg /\ pool.kind = "pool" /\ checkChunkSize(pool)
  IN  (pc = "setup" /\ good) ~> (pc = "serve" \/ cancelled \/ ~good)

\* A daemon told to stop ends if its clients let their streams end: GracefulStop
\* waits for every handler, without a limit.
StopEnds ==
  []<>~WaitsForClient =>
    ((pc = "serve" /\ cancelled) ~> (pc \in {"stopped", "failed", "load"}))

-----------------------------------------------------------------------------
\* The inductive invariant behind SafePool, Authorised, ResizeSafe, AbsenceReal
\* and the properties of the library.

\* A configuration that validate took.
Validated(c) ==
  /\ c.ok = TRUE /\ c.create \in BOOLEAN
  /\ c.tls \in {{}, TLSFiles} /\ c.insecure = (c.tls = {})
  /\ c.poolSize \in [bytes : 0..Width - 1, percent : 0..Hundred]
  /\ \A a \in c.asked : a \in PoolSizes /\ ParsesPoolSize(a) /\ c.poolSize = PoolSize(a)
ConfigInv ==
  /\ cfg \in {Unread, Invalid} \/ Validated(cfg)
  /\ pc \in Starting \cup Serving => Validated(cfg)

\* What Setup has established by the time it is at pc.
PoolInv ==
  /\ pc = "reread" =>
       pool.kind = "none" \/ (pool.kind = "pool" /\ pool.size = PoolBytes(cfg.poolSize, seen))
  /\ pc \in {"recover", "listen", "creds", "register", "ready"} =>
       pool.kind = "pool" /\ checkChunkSize(pool)
  /\ pc \in Serving /\ pool.kind # "none" => pool.kind = "pool" /\ checkChunkSize(pool)
TransportInv ==
  pc \in {"register", "ready"} \cup Serving =>
    transport = IF Enabled(cfg.tls) THEN "mtls" ELSE "plain"

\* A handler runs while the daemon serves, for a caller it admitted.
PeerInv ==
  peer # Nothing =>
    pc \in Serving /\ (cfg.tls # {} => peer.cert.verified /\ authorize(peer.cert, peer.service)
                                       /\ peer.cert \in Certificates)

\* The lvs in the pool; the volume of the verbs is never foreign.
VolumesInv ==
  /\ vols \in [{"v1", "v2"} -> [tag : {"ready", "attached", "pushing", "broken", "foreign"},
                                size : 1..MaxSize, live : BOOLEAN]]
  /\ vols["v1"].tag # "foreign"
  /\ answer \in [Resizers -> {"none", "OK", "InvalidArgument", "FailedPrecondition", "Internal"}]
  /\ status.ok \in BOOLEAN

NodeInv ==
  /\ NodeTypeOK /\ ConfigInv /\ PoolInv /\ TransportInv /\ PeerInv /\ VolumesInv
  /\ ScanWhole /\ ReplyInv /\ CallInv
=============================================================================
