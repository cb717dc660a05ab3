----------------------------- MODULE NodeProofs -----------------------------
(***************************************************************************)
(* TLAPS proofs about Node; those about the library are in LvmProofs.      *)
(***************************************************************************)
EXTENDS Node, LvmProofs

LEMMA NothingDomain == DOMAIN Nothing = {}
  BY DEF Nothing

-----------------------------------------------------------------------------
\* The configuration.

LEMMA Product ==
  ASSUME NEW a \in Nat, NEW b \in Nat PROVE a * b \in Nat
  BY SMT

LEMMA Remainder ==
  ASSUME NEW a \in Nat, NEW w \in Nat \ {0}
  PROVE  a % w \in 0..w - 1 /\ (a < w => a % w = a)
  BY SMT

LEMMA MultiplierNat == ASSUME NEW suffix PROVE Multiplier(suffix) \in Nat
<1>1. Unit \in Nat /\ Unit * Unit \in Nat /\ Unit * Unit * Unit \in Nat /\ Unit * Unit * Unit * Unit \in Nat
  BY Product, NodeAssumption
<1>2. QED
  BY <1>1 DEF Multiplier

\* What parsePoolSize makes of a value it takes.
LEMMA PoolSizeType ==
  ASSUME NEW a \in PoolSizes, ParsesPoolSize(a)
  PROVE  PoolSize(a) \in [bytes : 0..Width - 1, percent : 0..Hundred]
<1>1. a.n \in Nat /\ Width \in Nat \ {0} /\ Hundred \in Nat /\ 0 \in 0..Width - 1 /\ 0 \in 0..Hundred
  BY NodeAssumption
<1>2. CASE a.suffix = "%"
  <2>1. a.n \in 0..Hundred
    BY <1>1, <1>2 DEF ParsesPoolSize
  <2>2. QED
    BY <1>1, <1>2, <2>1 DEF PoolSize
<1>3. CASE a.suffix # "%"
  <2>1. (a.n * Multiplier(a.suffix)) % Width \in 0..Width - 1
    BY <1>1, MultiplierNat, Product, Remainder
  <2>2. QED
    BY <1>1, <1>3, <2>1 DEF PoolSize
<1>4. QED
  BY <1>2, <1>3

\* Whatever the layers are, the pool size is one of the operator's.
SizeKnown(f) == "pool_size" \in DOMAIN f => f["pool_size"] \in PoolSizes

LEMMA JoinKnown ==
  ASSUME NEW f, NEW g, SizeKnown(f), SizeKnown(g) PROVE SizeKnown(f @@ g)
  BY DEF @@, SizeKnown

LEMMA SingleKnown ==
  ASSUME NEW k, NEW v, k # "pool_size" PROVE SizeKnown(k :> v)
  BY DEF :>, SizeKnown

LEMMA FileKnown == ASSUME NEW file \in Files \cup {Nothing} PROVE SizeKnown(file)
<1>1. SizeKnown(Nothing)
  BY NothingDomain DEF SizeKnown
<1>2. CASE file \in Files
  <2> DEFINE checked == {[k \in Checked |-> "good"]}
                   \cup {[[k \in Checked |-> "good"] EXCEPT ![j] = "bad"] : j \in Checked}
                   \cup {[k \in Checked \ {j} |-> "good"] : j \in Checked}
             sized == {Nothing} \cup {[pool_size |-> p] : p \in PoolSizes}
             tls == {[f \in fs |-> "file"] : fs \in SUBSET TLSFiles}
             flag(k) == {Nothing, k :> "true"}
  <2>1. PICK c \in checked, s \in sized, t \in tls, i \in flag("insecure"), p \in flag("create_pool") :
          file = c @@ s @@ t @@ i @@ p
    <3>1. Files = {c @@ s @@ t @@ i @@ p : c \in checked, s \in sized, t \in tls,
                                           i \in flag("insecure"), p \in flag("create_pool")}
      BY DEF Files
    <3> HIDE DEF checked, sized, tls, flag
    <3>2. QED
      BY <1>2, <3>1, SMT
  <2>2. SizeKnown(c)
    <3>1. DOMAIN c \subseteq Checked
      BY <2>1
    <3>2. QED
      BY <3>1 DEF Checked, SizeKnown
  <2>3. SizeKnown(s)
    BY <1>1, <2>1 DEF SizeKnown
  <2>4. SizeKnown(t)
    <3>1. DOMAIN t \subseteq TLSFiles
      BY <2>1
    <3>2. QED
      BY <3>1 DEF TLSFiles, SizeKnown
  <2>5. SizeKnown(i) /\ SizeKnown(p)
    <3>1. SizeKnown("insecure" :> "true") /\ SizeKnown("create_pool" :> "true")
      BY SingleKnown
    <3>2. QED
      BY <1>1, <2>1, <3>1, Zenon
  <2> HIDE DEF checked, sized, tls, flag
  <2>6. QED
    BY <2>1, <2>2, <2>3, <2>4, <2>5, JoinKnown, Zenon
<1>3. QED
  BY <1>1, <1>2

LEMMA EnvironmentKnown == ASSUME NEW environment \in Environments PROVE SizeKnown(environment)
<1>1. CASE environment \in {k :> "bad" : k \in Checked}
  <2>1. PICK k \in Checked : environment = k :> "bad"
    BY <1>1, Zenon
  <2>2. k # "pool_size"
    BY <2>1 DEF Checked
  <2>3. QED
    BY <2>1, <2>2, SingleKnown, Zenon
<1>2. CASE environment \notin {k :> "bad" : k \in Checked}
  <2>1. environment \in {Nothing, [volume_group |-> "good", thin_pool |-> "good", insecure |-> "true"],
          [tls_ca_file |-> "file"], [insecure |-> "true"], [insecure |-> "false"], [create_pool |-> "false"]}
    BY <1>2, Zenon DEF Environments
  <2>2. QED
    BY <2>1, NothingDomain DEF SizeKnown
<1>3. QED
  BY <1>1, <1>2

LEMMA MergedKnown ==
  ASSUME NEW file \in Files \cup {Nothing}, NEW environment \in Environments
  PROVE  SizeKnown(Merged(file, environment))
<1>1. SizeKnown(defaults)
  BY DEF defaults, SizeKnown
<1>2. QED
  BY <1>1, FileKnown, EnvironmentKnown, JoinKnown, Zenon DEF Merged

\* Configured TLS is never off, and the size is the one asked for.
LEMMA ValidateSafe ==
  ASSUME NEW raw, SizeKnown(raw)
  PROVE  validate(raw) = Invalid \/ Validated(validate(raw))
<1> DEFINE tls == {f \in TLSFiles : Get(raw, f) # "unset"}
           insecure == Get(raw, "insecure") = "true"
           create == Get(raw, "create_pool") = "true"
           sized == "pool_size" \in DOMAIN raw
           taken == /\ \A k \in Checked : Get(raw, k) = "good"
                    /\ sized = create
                    /\ sized => ParsesPoolSize(raw["pool_size"])
                    /\ ~(Enabled(tls) /\ insecure)
                    /\ Enabled(tls) => tls = TLSFiles
                    /\ ~Enabled(tls) => insecure
           c == [ok |-> TRUE, create |-> create, asked |-> IF sized THEN {raw["pool_size"]} ELSE {},
                 poolSize |-> IF create THEN PoolSize(raw["pool_size"]) ELSE NoPoolSize,
                 tls |-> tls, insecure |-> insecure]
<1>1. validate(raw) = IF taken THEN c ELSE Invalid
  BY DEF validate
<1>2. ASSUME taken PROVE Validated(c)
  <2>1. c.ok = TRUE /\ c.create = create /\ c.tls = tls /\ c.insecure = insecure
        /\ c.asked = (IF sized THEN {raw["pool_size"]} ELSE {})
        /\ c.poolSize = (IF create THEN PoolSize(raw["pool_size"]) ELSE NoPoolSize)
    OBVIOUS
  <2>2. c.create \in BOOLEAN
    BY <2>1
  <2>3. c.tls \in {{}, TLSFiles} /\ c.insecure = (c.tls = {})
    BY <1>2, <2>1, Zenon DEF Enabled
  <2>4. CASE sized
    <3>1. create /\ raw["pool_size"] \in PoolSizes /\ ParsesPoolSize(raw["pool_size"])
      BY <1>2, <2>4 DEF SizeKnown
    <3>2. c.asked = {raw["pool_size"]} /\ c.poolSize = PoolSize(raw["pool_size"])
      BY <2>1, <2>4, <3>1
    <3>3. c.poolSize \in [bytes : 0..Width - 1, percent : 0..Hundred]
      BY <3>1, <3>2, PoolSizeType
    <3> HIDE DEF c
    <3>4. QED
      BY <2>1, <2>2, <2>3, <3>1, <3>2, <3>3, Zenon DEF Validated
  <2>5. CASE ~sized
    <3>1. ~create
      BY <1>2, <2>5
    <3>2. c.asked = {} /\ c.poolSize = NoPoolSize
      BY <2>1, <2>5, <3>1
    <3>3. c.poolSize \in [bytes : 0..Width - 1, percent : 0..Hundred]
      BY <3>2, NodeAssumption DEF NoPoolSize
    <3> HIDE DEF c
    <3>4. QED
      BY <2>1, <2>2, <2>3, <3>2, <3>3, Zenon DEF Validated
  <2>6. QED
    BY <2>4, <2>5
<1> HIDE DEF c, taken
<1>3. QED
  BY <1>1, <1>2

-----------------------------------------------------------------------------
\* The pool.

LEMMA Divide ==
  ASSUME NEW s \in Nat, NEW h \in Nat \ {0}
  PROVE  \E q \in Nat, r \in Nat : s = q * h + r /\ r < h /\ q = s \div h
  BY SMT

LEMMA Quotient ==
  ASSUME NEW m \in Nat, NEW h \in Nat \ {0}, NEW e \in Nat, e < h
  PROVE  (m * h + e) \div h = m
  BY SMT

LEMMA BelowFactor ==
  ASSUME NEW d \in Nat, NEW h \in Nat \ {0}, NEW e \in Nat, NEW r \in Nat, r < h, NEW n \in Nat \ {0},
         r * n = d * h + e
  PROVE  d < n
  BY SMT

\* Dividing before multiplying loses less than the percentage.
LEMMA PercentClose ==
  ASSUME NEW s \in Nat, NEW h \in Nat \ {0}, NEW n \in Nat \ {0}
  PROVE  /\ (s \div h) * n \in Nat /\ (s * n) \div h \in Nat
         /\ (s \div h) * n <= (s * n) \div h
         /\ (s * n) \div h - n <= (s \div h) * n
<1>1. PICK q \in Nat, r \in Nat : s = q * h + r /\ r < h /\ q = s \div h
  BY Divide
<1>2. r * n \in Nat /\ q * n \in Nat
  BY Product
<1>3. PICK d \in Nat, e \in Nat : r * n = d * h + e /\ e < h
  BY <1>2, Divide
<1>4. s * n = (q * n + d) * h + e
  <2>1. s * n = q * h * n + r * n
    BY <1>1, SMT
  <2>2. (q * n + d) * h + e = q * n * h + (d * h + e)
    BY SMT
  <2>3. q * h * n = q * n * h
    BY SMT
  <2>4. QED
    BY <1>3, <2>1, <2>2, <2>3
<1>5. (s * n) \div h = q * n + d
  BY <1>2, <1>3, <1>4, Quotient
<1>6. d < n
  BY <1>1, <1>3, BelowFactor
<1>7. QED
  BY <1>1, <1>2, <1>5, <1>6

\* A pool whose chunk divides a frame.
LEMMA ChunkDivides ==
  ASSUME NEW p, p.chunk \in Nat, checkChunkSize(p)
  PROVE  \E k \in 1..TransferChunk : k * p.chunk = TransferChunk
<1>1. p.chunk \in Nat \ {0} /\ TransferChunk % p.chunk = 0 /\ TransferChunk \in Nat \ {0}
  BY NodeAssumption DEF checkChunkSize
<1>2. ASSUME NEW c \in Nat \ {0}, NEW a \in Nat \ {0}, a % c = 0 PROVE \E k \in 1..a : k * c = a
  <2>1. PICK k \in Nat : a = k * c
    BY <1>2, SMT
  <2>2. k # 0
    BY <1>2, <2>1, SMT
  <2>3. k <= k * c
    BY <1>2, <2>1, SMT
  <2>4. QED
    BY <1>2, <2>1, <2>2, <2>3
<1>3. QED
  BY <1>1, <1>2

\* The size of the pool that is created, against the size asked for.
LEMMA BytesAsked ==
  ASSUME NEW a \in PoolSizes, ParsesPoolSize(a), NEW free \in 0..Width - 1
  PROVE  LET percent == a.suffix = "%"
             exact == IF percent THEN (free * a.n) \div Hundred ELSE a.n * Multiplier(a.suffix)
         IN  exact < Width => PoolBytes(PoolSize(a), free) \in exact - (IF percent THEN a.n ELSE 0)..exact
<1>1. a.n \in Nat /\ Width \in Nat \ {0} /\ Hundred \in Nat \ {0} /\ free \in Nat
  BY NodeAssumption
<1>2. CASE a.suffix = "%"
  <2>1. a.n \in Nat \ {0} /\ PoolSize(a) = [bytes |-> 0, percent |-> a.n]
    BY <1>1, <1>2 DEF ParsesPoolSize, PoolSize
  <2>2. PoolBytes(PoolSize(a), free) = (free \div Hundred) * a.n
    BY <2>1 DEF PoolBytes
  <2>3. /\ (free \div Hundred) * a.n \in Nat /\ (free * a.n) \div Hundred \in Nat
        /\ (free \div Hundred) * a.n <= (free * a.n) \div Hundred
        /\ (free * a.n) \div Hundred - a.n <= (free \div Hundred) * a.n
    BY <1>1, <2>1, PercentClose
  <2>4. PoolBytes(PoolSize(a), free) \in (free * a.n) \div Hundred - a.n..(free * a.n) \div Hundred
    BY <2>1, <2>2, <2>3
  <2>5. QED
    BY <1>2, <2>4
<1>3. CASE a.suffix # "%"
  <2> DEFINE exact == a.n * Multiplier(a.suffix)
  <2>1. exact \in Nat
    BY <1>1, MultiplierNat, Product
  <2>2. PoolSize(a) = [bytes |-> exact % Width, percent |-> 0]
    BY <1>3 DEF PoolSize
  <2>3. PoolBytes(PoolSize(a), free) = exact % Width
    BY <2>2 DEF PoolBytes
  <2> HIDE DEF exact
  <2>4. exact < Width => exact % Width = exact
    BY <1>1, <2>1, Remainder
  <2>5. exact < Width => PoolBytes(PoolSize(a), free) \in exact - 0..exact
    BY <2>1, <2>3, <2>4
  <2>6. QED
    BY <1>3, <2>5 DEF exact
<1>4. QED
  BY <1>2, <1>3

LEMMA BytesNat ==
  ASSUME NEW ps \in [bytes : 0..Width - 1, percent : 0..Hundred], NEW free \in 0..Width - 1
  PROVE  PoolBytes(ps, free) \in Nat
<1>1. ps.bytes \in Nat /\ ps.percent \in Nat /\ free \in Nat /\ Hundred \in Nat \ {0}
  BY NodeAssumption
<1>2. PICK q \in Nat : q = free \div Hundred
  BY <1>1, Divide
<1>3. (free \div Hundred) * ps.percent \in Nat
  BY <1>1, <1>2, Product
<1>4. QED
  BY <1>1, <1>3 DEF PoolBytes

-----------------------------------------------------------------------------
\* Startup and stop.

SetupInv ==
  /\ pc \in {"off", "load", "failed", "stopped"} \cup Starting \cup Serving
  /\ vg \in BOOLEAN /\ cancelled \in BOOLEAN
  /\ pool \in [kind : {"none", "pool", "other"}, chunk : 0..2 * TransferChunk, size : 0..Width - 1]
  /\ seen \in FreeSpaces \cup {0}
  /\ transport \in {"none", "plain", "mtls"}
  /\ ConfigInv /\ PoolInv /\ TransportInv

VerbsInv ==
  /\ at \in [Handlers -> {"idle", "look", "resize", "scan", "sent"}]
  /\ want \in [Resizers -> 0..MaxSize]
  /\ VolumesInv /\ ScanWhole

DaemonInv == SetupInv /\ VerbsInv /\ PeerInv /\ faults \in 0..MaxFaults

LEMMA NodeInvParts == NodeInv <=> LvmInv /\ DaemonInv
<1>1. ConfigInv => (cfg.ok => cfg.poolSize \in [bytes : 0..Width - 1, percent : 0..Hundred])
  BY DEF ConfigInv, Unread, Invalid, Validated
<1>2. VolumesInv => \A v \in DOMAIN vols : vols[v].size \in 1..MaxSize
  BY DEF VolumesInv
<1>3. ASSUME NodeInv PROVE LvmInv /\ DaemonInv
  BY <1>3, Zenon DEF NodeInv, LvmInv, DaemonInv, SetupInv, VerbsInv, NodeTypeOK
<1>4. ASSUME LvmInv, DaemonInv PROVE NodeInv
  <2>1. /\ ConfigInv /\ PoolInv /\ TransportInv /\ PeerInv /\ VolumesInv /\ ScanWhole
        /\ ReplyInv /\ CallInv
    BY <1>4, Zenon DEF LvmInv, DaemonInv, SetupInv, VerbsInv
  <2>2. NodeTypeOK
    BY <1>1, <1>2, <1>4, <2>1, Zenon DEF LvmInv, DaemonInv, SetupInv, VerbsInv, NodeTypeOK
  <2>3. QED
    BY <2>1, <2>2, Zenon DEF NodeInv
<1>5. QED
  BY <1>3, <1>4

\* A step that is not a verb's.
LEMMA SetupStep ==
  ASSUME DaemonInv, SetupInv', UNCHANGED verbs, faults' \in 0..MaxFaults,
         peer = Nothing \/ (pc' \in Serving /\ UNCHANGED cfg)
  PROVE  DaemonInv'
<1>1. UNCHANGED <<vols, at, want, answer, status, peer>>
  BY DEF verbs
<1>2. VerbsInv'
  BY <1>1 DEF DaemonInv, VerbsInv, VolumesInv, ScanWhole
<1>3. PeerInv'
  BY <1>1 DEF DaemonInv, PeerInv
<1>4. QED
  BY <1>2, <1>3 DEF DaemonInv

LEMMA NoPeer == ASSUME DaemonInv, pc \notin Serving PROVE peer = Nothing
  BY DEF DaemonInv, PeerInv

LEMMA FaultStep == ASSUME DaemonInv, Fault \/ NoFault PROVE faults' \in 0..MaxFaults
  BY NodeAssumption DEF DaemonInv, Fault, NoFault

\* A process that stands still knows nothing of the pool.
LEMMA AtRest ==
  ASSUME SetupInv, pc' \in {"load", "failed", "stopped"}, transport' \in {transport, "none"},
         cancelled' \in BOOLEAN, UNCHANGED <<cfg, vg, pool, seen>>
  PROVE  SetupInv'
<1>1. pc' \notin Starting \cup Serving
  BY DEF Starting, Commanding, Serving
<1>2. ConfigInv' /\ PoolInv' /\ TransportInv'
  BY <1>1 DEF SetupInv, ConfigInv, PoolInv, TransportInv, Starting, Commanding, Serving, Validated
<1>3. QED
  BY <1>2 DEF SetupInv

LEMMA StartStep == ASSUME DaemonInv, Start PROVE DaemonInv'
<1>1. /\ pc \in {"off", "stopped", "failed"} /\ pc' = "load" /\ cancelled' = FALSE
      /\ UNCHANGED <<cfg, vg, pool, seen, transport, faults, verbs>>
  BY DEF Start
<1>2. SetupInv'
  BY <1>1, AtRest DEF DaemonInv
<1>3. QED
  BY <1>1, <1>2, NoPeer, SetupStep DEF DaemonInv, Serving

LEMMA FailsStep == ASSUME DaemonInv, Fails PROVE DaemonInv'
<1>1. /\ pc \in Starting /\ pc' = "failed" /\ (Fault \/ NoFault)
      /\ UNCHANGED <<cfg, vg, pool, seen, transport, cancelled, verbs>>
  BY DEF Fails
<1>2. SetupInv'
  BY <1>1, AtRest DEF DaemonInv, SetupInv
<1>3. QED
  BY <1>1, <1>2, NoPeer, SetupStep, FaultStep DEF Serving, Starting, Commanding

LEMMA RestartStep == ASSUME DaemonInv, Restart PROVE DaemonInv'
<1>1. /\ pc = "failed" /\ pc' = "load" /\ transport' = "none"
      /\ UNCHANGED <<cfg, vg, pool, seen, cancelled, faults, verbs>>
  BY DEF Restart
<1>2. SetupInv'
  BY <1>1, AtRest DEF DaemonInv, SetupInv
<1>3. QED
  BY <1>1, <1>2, NoPeer, SetupStep DEF DaemonInv, Serving

LEMMA StopStep == ASSUME DaemonInv, Stop PROVE DaemonInv'
<1>1. /\ pc = "drain" /\ peer = Nothing /\ pc' = "stopped" /\ transport' = "none"
      /\ UNCHANGED <<cfg, vg, pool, seen, cancelled, faults, verbs>>
  BY DEF Stop, Idle
<1>2. SetupInv'
  BY <1>1, AtRest DEF DaemonInv, SetupInv
<1>3. QED
  BY <1>1, <1>2, SetupStep DEF DaemonInv

LEMMA CrashStep == ASSUME DaemonInv, Crash PROVE DaemonInv'
<1>1. /\ pc' = "failed" /\ transport' = "none" /\ cancelled' = FALSE /\ Fault
      /\ at' = [h \in Handlers |-> "idle"] /\ peer' = Nothing
      /\ answer' = [h \in Resizers |-> "none"] /\ want' = [h \in Resizers |-> 0]
      /\ status' = Counted(FALSE, Nothing)
      /\ UNCHANGED <<cfg, vg, pool, seen, vols>>
  BY DEF Crash
<1>2. SetupInv'
  BY <1>1, AtRest DEF DaemonInv
<1>3. status'.ok = FALSE
  BY <1>1 DEF Counted
<1>4. VolumesInv' /\ ScanWhole'
  <2>1. answer' \in [Resizers -> {"none", "OK", "InvalidArgument", "FailedPrecondition", "Internal"}]
    BY <1>1
  <2>2. ScanWhole'
    BY <1>3 DEF ScanWhole
  <2>3. QED
    BY <1>1, <1>3, <2>1, <2>2 DEF DaemonInv, VerbsInv, VolumesInv
<1>5. at' \in [Handlers -> {"idle", "look", "resize", "scan", "sent"}] /\ want' \in [Resizers -> 0..MaxSize]
  BY <1>1, LvmAssumption
<1>6. QED
  BY <1>1, <1>2, <1>4, <1>5, FaultStep DEF DaemonInv, VerbsInv, PeerInv

LEMMA SignalStep == ASSUME DaemonInv, Signal PROVE DaemonInv'
<1>1. cancelled' = TRUE /\ UNCHANGED <<pc, cfg, vg, pool, seen, transport, faults, verbs>>
  BY DEF Signal
<1>2. SetupInv'
  BY <1>1 DEF DaemonInv, SetupInv, ConfigInv, PoolInv, TransportInv, Validated
<1>3. QED
  BY <1>1, <1>2, NoPeer, SetupStep DEF DaemonInv

LEMMA DrainStep == ASSUME DaemonInv, Drain PROVE DaemonInv'
<1>1. pc = "serve" /\ pc' = "drain" /\ UNCHANGED <<cfg, vg, pool, seen, transport, cancelled, faults, verbs>>
  BY DEF Drain
<1>2. ConfigInv' /\ PoolInv' /\ TransportInv'
  BY <1>1 DEF DaemonInv, SetupInv, ConfigInv, PoolInv, TransportInv, Validated, Starting, Commanding, Serving
<1>3. SetupInv'
  BY <1>1, <1>2 DEF DaemonInv, SetupInv, Serving
<1>4. QED
  BY <1>1, <1>3, SetupStep DEF DaemonInv, Serving

LEMMA LoadStep == ASSUME DaemonInv, Load PROVE DaemonInv'
<1>1. pc = "load" /\ pc' = (IF cfg'.ok THEN "setup" ELSE "failed")
      /\ UNCHANGED <<vg, pool, seen, transport, cancelled, faults, verbs>>
  BY DEF Load
<1>2. cfg' \in {Unread, Invalid} \/ Validated(cfg')
  <2>1. CASE cfg = Unread
    <3>1. \/ cfg' = Invalid
          \/ \E file \in Files \cup {Nothing}, environment \in Environments :
               cfg' = validate(Merged(file, environment))
      BY <2>1, Zenon DEF Load
    <3>2. ASSUME NEW file \in Files \cup {Nothing}, NEW environment \in Environments,
                 cfg' = validate(Merged(file, environment))
          PROVE  cfg' = Invalid \/ Validated(cfg')
      BY <3>2, MergedKnown, ValidateSafe, Zenon
    <3>3. QED
      BY <3>1, <3>2, Zenon
  <2>2. CASE cfg # Unread
    <3>1. cfg' = cfg
      BY <2>2 DEF Load
    <3>2. QED
      BY <3>1, Zenon DEF DaemonInv, SetupInv, ConfigInv
  <2>3. QED
    BY <2>1, <2>2
<1>3. cfg'.ok => Validated(cfg')
  BY <1>2 DEF Unread, Invalid
<1>4. pc' \in {"setup", "failed"} /\ (pc' = "setup" => Validated(cfg'))
  BY <1>1, <1>3
<1>5. ConfigInv' /\ PoolInv' /\ TransportInv'
  BY <1>2, <1>4 DEF ConfigInv, PoolInv, TransportInv, Starting, Commanding, Serving
<1>6. SetupInv'
  BY <1>1, <1>4, <1>5 DEF DaemonInv, SetupInv, Starting, Commanding
<1>7. QED
  BY <1>1, <1>6, NoPeer, SetupStep DEF DaemonInv, Serving

\* A step of Setup or of what follows it: what it must establish at its new place.
LEMMA StartupStep ==
  ASSUME DaemonInv, NEW from \in Starting, NEW to \in Starting \cup {"serve", "failed"}, Step(from, to),
         pool' \in [kind : {"none", "pool", "other"}, chunk : 0..2 * TransferChunk, size : 0..Width - 1],
         seen' \in FreeSpaces \cup {0}, transport' \in {"none", "plain", "mtls"},
         PoolInv', TransportInv'
  PROVE  DaemonInv'
<1>1. pc = from /\ pc' = to /\ UNCHANGED <<cfg, vg, cancelled, faults, verbs>>
  BY DEF Step
<1>2. ConfigInv'
  BY <1>1 DEF DaemonInv, SetupInv, ConfigInv, Validated
<1>3. SetupInv'
  BY <1>1, <1>2 DEF DaemonInv, SetupInv, Serving
<1>4. pc \notin Serving
  BY <1>1 DEF Starting, Commanding, Serving
<1>5. QED
  BY <1>1, <1>3, <1>4, NoPeer, SetupStep DEF DaemonInv

LEMMA LookUpVGStep == ASSUME DaemonInv, LookUpVG PROVE DaemonInv'
<1>1. /\ Step("setup", IF vg THEN "pool" ELSE "failed") /\ UNCHANGED <<pool, transport>>
      /\ seen' \in FreeSpaces \cup {0}
  BY DEF LookUpVG
<1>2. pc' \in {"pool", "failed"}
  BY <1>1 DEF Step
<1>3. PoolInv' /\ TransportInv'
  BY <1>2 DEF PoolInv, TransportInv, Serving
<1>4. QED
  BY <1>1, <1>3, StartupStep DEF DaemonInv, SetupInv, Starting, Commanding

LEMMA LookUpPoolStep == ASSUME DaemonInv, LookUpPool PROVE DaemonInv'
<1> DEFINE to == IF pool.kind = "none" THEN IF cfg.create THEN "create" ELSE "failed"
                 ELSE IF pool.kind = "pool" /\ checkChunkSize(pool) THEN "recover" ELSE "failed"
<1>1. Step("pool", to) /\ UNCHANGED <<pool, seen, transport>>
  BY DEF LookUpPool
<1>2. to \in {"create", "failed"} \/ (to = "recover" /\ pool.kind = "pool" /\ checkChunkSize(pool))
  OBVIOUS
<1> HIDE DEF to
<1>3. pc' = to
  BY <1>1 DEF Step
<1>4. PoolInv' /\ TransportInv'
  BY <1>1, <1>2, <1>3 DEF PoolInv, TransportInv, Serving, checkChunkSize
<1>5. QED
  BY <1>1, <1>2, <1>4, StartupStep DEF DaemonInv, SetupInv, Starting, Commanding

LEMMA CreatePoolStep == ASSUME DaemonInv, CreatePool PROVE DaemonInv'
<1> DEFINE bytes == PoolBytes(cfg.poolSize, seen)
<1>1. CASE Step("create", "reread")
  <2>1. /\ \E free \in FreeSpaces : bytes <= free
        /\ pool' = [kind |-> "pool", chunk |-> DefaultChunk(bytes), size |-> bytes]
        /\ UNCHANGED <<seen, transport>> /\ pc = "create" /\ pc' = "reread" /\ UNCHANGED cfg
    BY <1>1 DEF CreatePool, Step
  <2>2. Validated(cfg)
    BY <2>1 DEF DaemonInv, SetupInv, ConfigInv, Starting, Commanding
  <2>3. seen \in 0..Width - 1
    BY NodeAssumption DEF DaemonInv, SetupInv
  <2>4. bytes \in Nat
    BY <2>2, <2>3, BytesNat DEF Validated
  <2>5. bytes \in 0..Width - 1
    <3> HIDE DEF bytes
    <3>1. QED
      BY <2>1, <2>4, NodeAssumption
  <2>6. DefaultChunk(bytes) \in 0..2 * TransferChunk
    BY NodeAssumption DEF DefaultChunk
  <2>7. pool'.kind = "pool" /\ pool'.size = PoolBytes(cfg'.poolSize, seen')
    BY <2>1
  <2>8. PoolInv' /\ TransportInv'
    BY <2>1, <2>7 DEF PoolInv, TransportInv, Serving
  <2>9. pool' \in [kind : {"none", "pool", "other"}, chunk : 0..2 * TransferChunk, size : 0..Width - 1]
    <3> HIDE DEF bytes
    <3>1. QED
      BY <2>1, <2>5, <2>6
  <2>10. QED
    BY <1>1, <2>1, <2>8, <2>9, StartupStep DEF DaemonInv, SetupInv, Starting, Commanding
<1>2. CASE Step("create", "failed") /\ UNCHANGED <<pool, seen, transport>>
  <2>1. PoolInv' /\ TransportInv'
    BY <1>2 DEF PoolInv, TransportInv, Serving, Step
  <2>2. QED
    BY <1>2, <2>1, StartupStep DEF DaemonInv, SetupInv, Starting, Commanding
<1>3. QED
  BY <1>1, <1>2 DEF CreatePool

LEMMA RereadStep == ASSUME DaemonInv, Reread PROVE DaemonInv'
<1>1. /\ Step("reread", IF pool.kind # "none" /\ checkChunkSize(pool) THEN "recover" ELSE "failed")
      /\ seen' = 0 /\ UNCHANGED <<pool, transport>>
  BY DEF Reread
<1>2. pc = "reread" /\ (pc' = "failed" \/ (pc' = "recover" /\ pool.kind # "none" /\ checkChunkSize(pool)))
  BY <1>1 DEF Step
<1>3. pool.kind # "none" => pool.kind = "pool"
  BY <1>2 DEF DaemonInv, SetupInv, PoolInv
<1>4. PoolInv' /\ TransportInv'
  BY <1>1, <1>2, <1>3 DEF PoolInv, TransportInv, Serving, checkChunkSize
<1>5. QED
  BY <1>1, <1>4, StartupStep DEF DaemonInv, SetupInv, Starting, Commanding

LEMMA ComeUpStep ==
  ASSUME DaemonInv, Recover \/ Listen \/ ServerOptions \/ Register \/ Ready
  PROVE  DaemonInv'
<1>1. CASE Recover \/ Listen
  <2>1. UNCHANGED <<pool, seen, transport>>
    BY <1>1 DEF Recover, Listen
  <2>2. Step("recover", "listen") \/ Step("listen", "creds")
    BY <1>1 DEF Recover, Listen
  <2>3. PoolInv' /\ TransportInv'
    BY <2>1, <2>2 DEF DaemonInv, SetupInv, PoolInv, TransportInv, Serving, checkChunkSize, Step
  <2>4. QED
    BY <2>1, <2>2, <2>3, StartupStep DEF DaemonInv, SetupInv, Starting, Commanding
<1>2. CASE ServerOptions
  <2>1. /\ Step("creds", "register") /\ UNCHANGED <<pool, seen>>
        /\ transport' = IF Enabled(cfg.tls) THEN "mtls" ELSE "plain"
    BY <1>2 DEF ServerOptions
  <2>2. PoolInv'
    BY <2>1 DEF DaemonInv, SetupInv, PoolInv, Serving, checkChunkSize, Step
  <2>3. TransportInv'
    BY <2>1 DEF TransportInv, Step, Enabled
  <2>4. QED
    BY <2>1, <2>2, <2>3, StartupStep DEF DaemonInv, SetupInv, Starting, Commanding
<1>3. CASE Register \/ Ready
  <2>1. UNCHANGED <<pool, seen, transport>>
    BY <1>3 DEF Register, Ready
  <2>2. Step("register", "ready") \/ Step("ready", "serve") \/ Step("ready", "failed")
    BY <1>3 DEF Register, Ready
  <2>3. PoolInv'
    BY <2>1, <2>2 DEF DaemonInv, SetupInv, PoolInv, Serving, checkChunkSize, Step
  <2>4. TransportInv'
    BY <2>1, <2>2 DEF DaemonInv, SetupInv, TransportInv, Serving, Enabled, Step
  <2>5. QED
    BY <2>1, <2>2, <2>3, <2>4, StartupStep DEF DaemonInv, SetupInv, Starting, Commanding
<1>4. QED
  BY <1>1, <1>2, <1>3

LEMMA OtherAdminStep == ASSUME DaemonInv, OtherAdmin PROVE DaemonInv'
<1>1. /\ Fault /\ pc \in {"create", "reread", "serve"}
      /\ UNCHANGED <<pc, cfg, vg, seen, transport, cancelled, verbs>>
  BY DEF OtherAdmin
<1>2. /\ pool' \in [kind : {"none", "pool", "other"}, chunk : 0..2 * TransferChunk, size : 0..Width - 1]
      /\ pc # "create" => pool'.kind = "none"
  <2>1. CASE pc = "create"
    <3>1. PICK kind \in {"pool", "other"} :
            pool' = [kind |-> kind, chunk |-> IF kind = "pool" THEN 1 ELSE 0, size |-> 1]
      BY <2>1 DEF OtherAdmin
    <3>2. QED
      BY <2>1, <3>1, NodeAssumption
  <2>2. CASE pc # "create"
    <3>1. pool' = [kind |-> "none", chunk |-> 0, size |-> 0]
      BY <2>2 DEF OtherAdmin
    <3>2. QED
      BY <3>1, NodeAssumption
  <2>3. QED
    BY <2>1, <2>2
<1>3. PoolInv' /\ TransportInv'
  BY <1>1, <1>2 DEF DaemonInv, SetupInv, PoolInv, TransportInv, Serving, Enabled
<1>4. ConfigInv'
  BY <1>1 DEF DaemonInv, SetupInv, ConfigInv, Validated
<1>5. SetupInv'
  BY <1>1, <1>2, <1>3, <1>4 DEF DaemonInv, SetupInv
<1>6. QED
  BY <1>1, <1>5, NoPeer, SetupStep, FaultStep DEF Serving

-----------------------------------------------------------------------------
\* The verbs.

\* A step that is a verb's.
LEMMA VerbStep ==
  ASSUME DaemonInv, UNCHANGED node, Fault \/ NoFault, VerbsInv', PeerInv' PROVE DaemonInv'
<1>1. UNCHANGED <<pc, cfg, vg, pool, seen, transport, cancelled>>
  BY DEF node
<1>2. SetupInv'
  BY <1>1 DEF DaemonInv, SetupInv, ConfigInv, PoolInv, TransportInv, Validated, Enabled, checkChunkSize
<1>3. QED
  BY <1>2, FaultStep DEF DaemonInv

\* Most of them leave the caller's record alone.
LEMMA SamePeer == ASSUME DaemonInv, UNCHANGED node, peer' \in {peer, Nothing} PROVE PeerInv'
  BY DEF DaemonInv, PeerInv, node

LEMMA ServeStep == ASSUME DaemonInv, Serve PROVE DaemonInv'
<1>1. pc = "serve" /\ UNCHANGED <<node, vols, at, want, answer, status, faults>>
  BY DEF Serve, Accepting
<1>2. PICK cert \in Certificates \cup {NoCertificate}, service \in Services, streaming \in BOOLEAN :
        /\ Admitted(cert, service, streaming)
        /\ peer' = [cert |-> cert, service |-> service, streaming |-> streaming]
  BY DEF Serve
<1>3. peer'.cert = cert /\ peer'.service = service
  BY <1>2
<1>4. cfg.tls # {} => cert.verified /\ authorize(cert, service)
  <2>1. cfg.tls # {} => transport = "mtls"
    BY <1>1 DEF DaemonInv, SetupInv, TransportInv, Serving, Enabled
  <2>2. QED
    BY <1>2, <2>1, Zenon DEF Admitted
<1>5. cert.verified => cert \in Certificates
  <2>1. ~NoCertificate.verified
    BY DEF NoCertificate
  <2>2. QED
    BY <2>1, Zenon
<1>6. PeerInv'
  BY <1>1, <1>3, <1>4, <1>5 DEF PeerInv, node, Serving
<1>7. VerbsInv'
  BY <1>1 DEF DaemonInv, VerbsInv, VolumesInv, ScanWhole
<1>8. QED
  BY <1>1, <1>6, <1>7, VerbStep DEF NoFault

LEMMA ServedStep == ASSUME DaemonInv, Served \/ StreamServed PROVE DaemonInv'
<1>1. peer' = Nothing /\ UNCHANGED <<node, vols, at, want, answer, status, faults>>
  BY DEF Served, StreamServed
<1>2. VerbsInv'
  BY <1>1 DEF DaemonInv, VerbsInv, VolumesInv, ScanWhole
<1>3. QED
  BY <1>1, <1>2, SamePeer, VerbStep DEF NoFault

LEMMA ResizeVolumeStep == ASSUME DaemonInv, NEW h \in Resizers, ResizeVolume(h) PROVE DaemonInv'
<1>1. UNCHANGED <<node, vols, status, peer, faults>>
  BY DEF ResizeVolume
<1>2. PICK bytes \in 0..MaxSize :
        /\ want' = [want EXCEPT ![h] = bytes]
        /\ at' = [at EXCEPT ![h] = IF bytes = 0 THEN "idle" ELSE "look"]
        /\ answer' = [answer EXCEPT ![h] = IF bytes = 0 THEN "InvalidArgument" ELSE "none"]
  BY DEF ResizeVolume
<1>3. /\ at \in [Handlers -> {"idle", "look", "resize", "scan", "sent"}] /\ h \in Handlers
      /\ want \in [Resizers -> 0..MaxSize] /\ VolumesInv /\ ScanWhole
  BY DEF DaemonInv, VerbsInv, Handlers
<1>4. at' \in [Handlers -> {"idle", "look", "resize", "scan", "sent"}]
  BY <1>2, <1>3
<1>5. want' \in [Resizers -> 0..MaxSize]
  BY <1>2, <1>3
<1>6. answer' \in [Resizers -> {"none", "OK", "InvalidArgument", "FailedPrecondition", "Internal"}]
  BY <1>2, <1>3 DEF VolumesInv
<1>7. VolumesInv' /\ ScanWhole'
  BY <1>1, <1>3, <1>6 DEF VolumesInv, ScanWhole
<1>8. VerbsInv'
  BY <1>4, <1>5, <1>7 DEF VerbsInv
<1>9. QED
  BY <1>1, <1>8, SamePeer, VerbStep DEF NoFault

Lvs == [tag : {"ready", "attached", "pushing", "broken", "foreign"}, size : 1..MaxSize, live : BOOLEAN]

\* An answer of ResizeVolume, with the size its command left.
LEMMA AnswerStep ==
  ASSUME DaemonInv, NEW h \in Resizers, NEW code \in {"OK", "FailedPrecondition", "Internal"},
         Answer(h, code), UNCHANGED <<node, status, peer>>, Fault \/ NoFault,
         NEW new \in 1..MaxSize, vols' = [vols EXCEPT !["v1"].size = new]
  PROVE  DaemonInv'
<1>1. /\ at' = [at EXCEPT ![h] = "idle"] /\ answer' = [answer EXCEPT ![h] = code]
      /\ want' = [want EXCEPT ![h] = IF code = "OK" THEN want[h] ELSE 0]
  BY DEF Answer
<1>2. /\ at \in [Handlers -> {"idle", "look", "resize", "scan", "sent"}] /\ h \in Handlers
      /\ want \in [Resizers -> 0..MaxSize] /\ VolumesInv /\ ScanWhole
  BY DEF DaemonInv, VerbsInv, Handlers
<1>3. at' \in [Handlers -> {"idle", "look", "resize", "scan", "sent"}]
  BY <1>1, <1>2
<1>4. want' \in [Resizers -> 0..MaxSize]
  BY <1>1, <1>2, LvmAssumption
<1>5. answer' \in [Resizers -> {"none", "OK", "InvalidArgument", "FailedPrecondition", "Internal"}]
  BY <1>1, <1>2 DEF VolumesInv
<1>6. /\ vols' \in [{"v1", "v2"} -> Lvs]
      /\ vols'["v1"].tag = vols["v1"].tag /\ vols'["v2"].tag = vols["v2"].tag
  BY <1>2 DEF VolumesInv, Lvs
<1>7. VolumesInv'
  BY <1>2, <1>5, <1>6 DEF VolumesInv, Lvs
<1>8. ScanWhole'
  BY <1>2, <1>6 DEF VolumesInv, ScanWhole
<1>9. VerbsInv'
  BY <1>3, <1>4, <1>7, <1>8 DEF VerbsInv
<1>10. QED
  BY <1>9, SamePeer, VerbStep

\* A command that fails leaves the size.
LEMMA SameSize ==
  ASSUME DaemonInv
  PROVE  vols["v1"].size \in 1..MaxSize /\ vols = [vols EXCEPT !["v1"].size = vols["v1"].size]
<1>1. vols \in [{"v1", "v2"} -> Lvs]
  BY DEF DaemonInv, VerbsInv, VolumesInv, Lvs
<1>2. vols["v1"] = [vols["v1"] EXCEPT !.size = vols["v1"].size]
  BY <1>1 DEF Lvs
<1>3. QED
  BY <1>1, <1>2 DEF Lvs

LEMMA LookUpStep == ASSUME DaemonInv, NEW h \in Resizers, LookUp(h) PROVE DaemonInv'
<1>1. /\ UNCHANGED <<node, vols, status, peer>> /\ vols["v1"].size \in 1..MaxSize
      /\ vols = [vols EXCEPT !["v1"].size = vols["v1"].size]
  BY SameSize DEF LookUp
<1>2. CASE at' = [at EXCEPT ![h] = "resize"] /\ UNCHANGED <<answer, want>> /\ NoFault
  <2>1. at' \in [Handlers -> {"idle", "look", "resize", "scan", "sent"}]
    BY <1>2 DEF DaemonInv, VerbsInv, Handlers
  <2>2. VerbsInv'
    BY <1>1, <1>2, <2>1 DEF DaemonInv, VerbsInv, VolumesInv, ScanWhole
  <2>3. QED
    BY <1>1, <1>2, <2>2, SamePeer, VerbStep
<1>3. CASE Answer(h, "FailedPrecondition") /\ NoFault
  BY <1>1, <1>3, AnswerStep
<1>4. CASE Answer(h, "Internal") /\ Fault
  BY <1>1, <1>4, AnswerStep
<1>5. QED
  BY <1>2, <1>3, <1>4 DEF LookUp

\* The command of a resize never shrinks an active volume, and changes the size
\* only to the one that was asked for.
LEMMA ResizeGrows ==
  ASSUME NEW bytes \in 0..MaxSize, NEW old \in 1..MaxSize, NEW live \in BOOLEAN,
         NEW new \in Resized(ResizeLine(bytes), old, live)
  PROVE  new \in 1..MaxSize /\ (live => new >= old) /\ (new # old => new = bytes)
<1> DEFINE c == [op |-> "ResizeLogicalVolume", opts |-> {}, listed |-> FALSE,
                 target |-> [kind |-> "name", ds |-> Devices],
                 size |-> [unit |-> "bytes", n |-> bytes, signs |-> <<>>],
                 devices |-> [given |-> FALSE, list |-> {}], autobackup |-> "nil"]
<1>1. ResizeLine(bytes) = Render(c)
  BY DEF ResizeLine
<1>2. c.op = "ResizeLogicalVolume" /\ Column(c.opts) = {}
  BY DEF Column
<1>3. "-f" \notin Column(Render(c).flags) /\ "-r" \notin Column(Render(c).flags)
  BY <1>2, ResizeUnforced
<1>4. \A s \in Render(c).size : s.unit # "%" /\ s.n = bytes /\ s.sign \notin {"+", "-"}
  <2>1. sizeArg(c.size) = [flag |-> "-L", sign |-> "none", n |-> bytes, unit |-> "b"]
    BY DEF sizeArg, Sign
  <2>2. Render(c).size = {sizeArg(c.size)}
    BY DEF Render, Sized
  <2>3. QED
    BY <2>1, <2>2
<1> HIDE DEF c
<1>5. new \in 1..MaxSize
  BY <1>1, Sizes
<1>6. live => new >= old
  <2>1. SUFFICES ASSUME live PROVE new >= old
    OBVIOUS
  <2>2. live <=> TRUE
    BY <2>1
  <2>3. new \in Resized(Render(c), old, TRUE)
    BY <1>1, <2>2
  <2>4. QED
    BY <1>3, <2>3, NotForced
<1>7. new # old => new = bytes
  BY <1>1, <1>4 DEF Resized
<1>8. QED
  BY <1>5, <1>6, <1>7

\* What a resize does: its command fails, or leaves a size and says so.
LEMMA ResizeEffect ==
  ASSUME DaemonInv, NEW h \in Resizers, Resize(h)
  PROVE  /\ UNCHANGED <<node, status, peer>>
         /\ \E new \in 1..MaxSize, code \in {"OK", "Internal"} :
              /\ vols' = [vols EXCEPT !["v1"].size = new] /\ Answer(h, code) /\ (Fault \/ NoFault)
              /\ vols["v1"].live => new >= vols["v1"].size
              /\ code = "OK" => new = want[h]
<1>1. /\ UNCHANGED <<node, status, peer>> /\ want[h] \in 0..MaxSize /\ vols["v1"].live \in BOOLEAN
      /\ vols["v1"].size \in 1..MaxSize /\ vols = [vols EXCEPT !["v1"].size = vols["v1"].size]
  BY SameSize DEF Resize, DaemonInv, VerbsInv, VolumesInv
<1>2. CASE Fault /\ Answer(h, "Internal") /\ UNCHANGED vols
  <2>1. vols["v1"].size >= vols["v1"].size
    BY <1>1, LvmAssumption
  <2>2. QED
    BY <1>1, <1>2, <2>1
<1>3. ASSUME NEW new \in Resized(ResizeLine(want[h]), vols["v1"].size, vols["v1"].live),
             vols' = [vols EXCEPT !["v1"].size = new],
             Answer(h, IF new # vols["v1"].size THEN "OK" ELSE "Internal"), NoFault
      PROVE  \E size2 \in 1..MaxSize, code \in {"OK", "Internal"} :
               /\ vols' = [vols EXCEPT !["v1"].size = size2] /\ Answer(h, code) /\ (Fault \/ NoFault)
               /\ vols["v1"].live => size2 >= vols["v1"].size
               /\ code = "OK" => size2 = want[h]
  <2>1. /\ new \in 1..MaxSize /\ (vols["v1"].live => new >= vols["v1"].size)
        /\ new # vols["v1"].size => new = want[h]
    BY <1>1, ResizeGrows
  <2>2. PICK code \in {"OK", "Internal"} :
          Answer(h, code) /\ (code = "OK" => new # vols["v1"].size)
    BY <1>3
  <2>3. QED
    BY <1>3, <2>1, <2>2
<1>4. QED
  BY <1>1, <1>2, <1>3 DEF Resize

LEMMA ResizeStep == ASSUME DaemonInv, NEW h \in Resizers, Resize(h) PROVE DaemonInv'
  BY ResizeEffect, AnswerStep

LEMMA StatusStep ==
  ASSUME DaemonInv, UNCHANGED <<node, vols, want, answer, peer>>, Fault \/ NoFault,
         at' \in [Handlers -> {"idle", "look", "resize", "scan", "sent"}],
         status'.ok \in BOOLEAN, ScanWhole'
  PROVE  DaemonInv'
<1>1. VerbsInv'
  BY DEF DaemonInv, VerbsInv, VolumesInv
<1>2. QED
  BY <1>1, SamePeer, VerbStep

LEMMA NoStatus == ASSUME status' = Counted(FALSE, Nothing) PROVE status'.ok \in BOOLEAN /\ ScanWhole'
<1>1. status'.ok = FALSE
  BY DEF Counted
<1>2. QED
  BY <1>1, Zenon DEF ScanWhole

LEMMA GetNodeStatusStep == ASSUME DaemonInv, GetNodeStatus PROVE DaemonInv'
<1>1. /\ at' = [at EXCEPT !["status"] = IF pool.kind = "none" THEN "idle" ELSE "scan"]
      /\ status' = Counted(FALSE, Nothing) /\ UNCHANGED <<node, vols, want, answer, peer, faults>>
  BY DEF GetNodeStatus
<1>2. at' \in [Handlers -> {"idle", "look", "resize", "scan", "sent"}]
  BY <1>1 DEF DaemonInv, VerbsInv, Handlers
<1>3. QED
  BY <1>1, <1>2, NoStatus, StatusStep DEF NoFault

LEMMA StateKnown ==
  ASSUME NEW tag \in {"ready", "attached", "pushing", "broken", "foreign"}
  PROVE  stateOf(tag) # {} <=> tag # "foreign"
<1>1. CASE tag \in {"ready", "attached", "pushing"}
  BY <1>1 DEF stateOf
<1>2. CASE tag = "broken"
  BY <1>2 DEF stateOf
<1>3. CASE tag = "foreign"
  BY <1>3 DEF stateOf
<1>4. QED
  BY <1>1, <1>2, <1>3

LEMMA ScanStep == ASSUME DaemonInv, Scan PROVE DaemonInv'
<1>1. at' = [at EXCEPT !["status"] = "sent"] /\ UNCHANGED <<node, vols, want, answer, peer>>
  BY DEF Scan
<1>2. at' \in [Handlers -> {"idle", "look", "resize", "scan", "sent"}]
  BY <1>1 DEF DaemonInv, VerbsInv, Handlers
<1> DEFINE found == {v \in DOMAIN vols : stateOf(vols[v].tag) # {}}
           volumes == [v \in found |-> [state |-> stateOf(vols[v].tag), size |-> vols[v].size]]
<1>3. CASE status' = Counted(TRUE, volumes) /\ NoFault
  <2>1. \A v \in DOMAIN vols : vols[v].tag \in {"ready", "attached", "pushing", "broken", "foreign"}
    BY DEF DaemonInv, VerbsInv, VolumesInv
  <2>2. found = {v \in DOMAIN vols : vols[v].tag # "foreign"}
    BY <2>1, StateKnown
  <2>3. DOMAIN volumes = found
    OBVIOUS
  <2> HIDE DEF found, volumes
  <2>4. status'.ok = TRUE /\ status'.volumes = volumes
    BY <1>3 DEF Counted
  <2>5. status'.ok \in BOOLEAN /\ ScanWhole'
    BY <1>1, <2>2, <2>3, <2>4 DEF ScanWhole
  <2>6. QED
    BY <1>1, <1>2, <1>3, <2>5, StatusStep
<1>4. CASE status' = Counted(FALSE, Nothing) /\ Fault
  BY <1>1, <1>2, <1>4, NoStatus, StatusStep
<1>5. QED
  BY <1>3, <1>4 DEF Scan

LEMMA SentStep == ASSUME DaemonInv, Sent PROVE DaemonInv'
<1>1. /\ at' = [at EXCEPT !["status"] = "idle"] /\ status' = Counted(FALSE, Nothing)
      /\ UNCHANGED <<node, vols, want, answer, peer, faults>>
  BY DEF Sent
<1>2. at' \in [Handlers -> {"idle", "look", "resize", "scan", "sent"}]
  BY <1>1 DEF DaemonInv, VerbsInv, Handlers
<1>3. QED
  BY <1>1, <1>2, NoStatus, StatusStep DEF NoFault

LEMMA OtherVerbStep == ASSUME DaemonInv, OtherVerb PROVE DaemonInv'
<1>1. UNCHANGED <<node, at, want, answer, status, peer, faults>>
  BY DEF OtherVerb
<1>2. PICK tag \in {"ready", "attached", "pushing"}, live \in BOOLEAN :
        vols' = [vols EXCEPT !["v1"] = Lv(tag, vols["v1"].size, live)]
  BY DEF OtherVerb
<1>3. /\ vols' \in [{"v1", "v2"} -> Lvs]
      /\ vols'["v1"].tag # "foreign" /\ vols'["v2"] = vols["v2"] /\ vols'["v1"].size = vols["v1"].size
  BY <1>2 DEF DaemonInv, VerbsInv, VolumesInv, Lv, Lvs
<1>4. VolumesInv'
  BY <1>1, <1>3 DEF DaemonInv, VerbsInv, VolumesInv, Lvs
<1>5. ScanWhole'
  BY <1>1, <1>3 DEF DaemonInv, VerbsInv, VolumesInv, ScanWhole
<1>6. VerbsInv'
  BY <1>1, <1>4, <1>5 DEF DaemonInv, VerbsInv
<1>7. QED
  BY <1>1, <1>6, SamePeer, VerbStep DEF NoFault

LEMMA DaemonStep == ASSUME DaemonInv, NodeNext PROVE DaemonInv'
<1>1. ASSUME Startup PROVE DaemonInv'
  BY <1>1, LoadStep, LookUpVGStep, LookUpPoolStep, CreatePoolStep, RereadStep, ComeUpStep DEF Startup
<1>2. ASSUME Calls PROVE DaemonInv'
  BY <1>2, ServeStep, GetNodeStatusStep, OtherVerbStep, ResizeVolumeStep DEF Calls
<1>3. ASSUME Handler PROVE DaemonInv'
  BY <1>3, ServedStep, ScanStep, SentStep, LookUpStep, ResizeStep DEF Handler
<1>4. QED
  BY <1>1, <1>2, <1>3, StartStep, FailsStep, SignalStep, DrainStep, StopStep, CrashStep, RestartStep,
     OtherAdminStep DEF NodeNext

LEMMA DaemonInitInv == NodeInit => DaemonInv
<1>1. SUFFICES ASSUME NodeInit PROVE DaemonInv
  OBVIOUS
<1>2. /\ pc = "off" /\ cfg = Unread /\ seen = 0 /\ transport = "none" /\ cancelled = FALSE /\ vg \in BOOLEAN
      /\ at = [h \in Handlers |-> "idle"] /\ want = [h \in Resizers |-> 0]
      /\ answer = [h \in Resizers |-> "none"] /\ status = Counted(FALSE, Nothing) /\ peer = Nothing /\ faults = 0
  BY <1>1 DEF NodeInit
<1>3. pool \in [kind : {"none", "pool", "other"}, chunk : 0..2 * TransferChunk, size : 0..Width - 1]
  <2>1. CASE pool \in {[kind |-> k, chunk |-> 0, size |-> 0] : k \in {"none", "other"}}
    <3>1. PICK k \in {"none", "other"} : pool = [kind |-> k, chunk |-> 0, size |-> 0]
      BY <2>1
    <3>2. QED
      BY <3>1, NodeAssumption
  <2>2. CASE pool \in {[kind |-> "pool", chunk |-> c, size |-> 1] : c \in Chunks}
    <3>1. PICK c \in Chunks : pool = [kind |-> "pool", chunk |-> c, size |-> 1]
      BY <2>2
    <3>2. QED
      BY <3>1, NodeAssumption
  <2>3. QED
    BY <1>1, <2>1, <2>2 DEF NodeInit
<1>4. SetupInv
  BY <1>2, <1>3 DEF SetupInv, ConfigInv, PoolInv, TransportInv, Starting, Commanding, Serving
<1>5. PICK tag \in {"ready", "broken", "foreign"} : 
        vols = [v1 |-> Lv("ready", 1, FALSE), v2 |-> Lv(tag, 1, FALSE)]
  BY <1>1 DEF NodeInit
<1>6. vols \in [{"v1", "v2"} -> Lvs] /\ vols["v1"].tag # "foreign"
  <2>1. \A t \in {"ready", "broken", "foreign"} : Lv(t, 1, FALSE) \in Lvs /\ Lv(t, 1, FALSE).tag = t
    BY LvmAssumption DEF Lv, Lvs
  <2>2. /\ DOMAIN vols = {"v1", "v2"} /\ vols = [v \in {"v1", "v2"} |-> vols[v]]
        /\ vols["v1"] = Lv("ready", 1, FALSE) /\ vols["v2"] = Lv(tag, 1, FALSE)
    BY <1>5
  <2>3. \A v \in {"v1", "v2"} : vols[v] \in Lvs
    BY <1>5, <2>1, <2>2
  <2>4. QED
    BY <2>1, <2>2, <2>3
<1>7. status.ok = FALSE
  BY <1>2 DEF Counted
<1>8. VolumesInv
  BY <1>2, <1>6, <1>7 DEF VolumesInv, Lvs
<1>9. ScanWhole
  BY <1>2, <1>7 DEF ScanWhole
<1>10. VerbsInv
  BY <1>2, <1>8, <1>9, LvmAssumption DEF VerbsInv
<1>11. QED
  BY <1>2, <1>4, <1>10, NodeAssumption DEF DaemonInv, PeerInv

LEMMA DaemonStutter == ASSUME DaemonInv, UNCHANGED nodeVars PROVE DaemonInv'
<1>1. UNCHANGED node /\ NoFault /\ UNCHANGED <<vols, at, want, answer, status, peer>>
  BY DEF nodeVars, node, NoFault
<1>2. VerbsInv'
  BY <1>1 DEF DaemonInv, VerbsInv, VolumesInv, ScanWhole
<1>3. QED
  BY <1>1, <1>2, SamePeer, VerbStep


-----------------------------------------------------------------------------
\* The theorems.

\* The inductive invariant holds of the daemon of main.go and of a program that
\* uses internal/lvm, for every word width, unit, set of sizes and number of faults.
THEOREM NodeInvariant == NodeSpec => []NodeInv
<1>1. NodeInit /\ LvmInit => NodeInv
  BY DaemonInitInv, LvmInitInv, NodeInvParts
<1>2. NodeInv /\ [\/ NodeNext /\ UNCHANGED lvmVars
                  \/ LvmNext /\ UNCHANGED nodeVars]_<<nodeVars, lvmVars>> => NodeInv'
  <2>1. NodeInv' <=> LvmInv' /\ DaemonInv'
    BY NodeInvParts, PTL
  <2>2. SUFFICES ASSUME NodeInv, [\/ NodeNext /\ UNCHANGED lvmVars
                                  \/ LvmNext /\ UNCHANGED nodeVars]_<<nodeVars, lvmVars>>
                 PROVE  LvmInv' /\ DaemonInv'
    BY <2>1
  <2>3. LvmInv /\ DaemonInv
    BY <2>2, NodeInvParts
  <2>4. CASE NodeNext /\ UNCHANGED lvmVars
    BY <2>3, <2>4, DaemonStep, LvmStutter
  <2>5. CASE LvmNext /\ UNCHANGED nodeVars
    BY <2>3, <2>5, LvmStep, DaemonStutter
  <2>6. CASE UNCHANGED nodeVars /\ UNCHANGED lvmVars
    BY <2>3, <2>6, DaemonStutter, LvmStutter
  <2>7. QED
    BY <2>2, <2>4, <2>5, <2>6
<1>3. QED
  BY <1>1, <1>2, PTL DEF NodeSpec

\* Every variable of the daemon and of the library keeps its type; the parsed
\* pool size of parsePoolSize fits a word and a percentage is at most the whole.
THEOREM NodeTyped == NodeSpec => []NodeTypeOK
<1>1. NodeInv => NodeTypeOK
  BY DEF NodeInv
<1>2. QED
  BY <1>1, NodeInvariant, PTL

\* storage.Setup: a daemon that serves has a pool whose chunk divides a transfer
\* frame, found or made, and a pool it made has the size that pool_size asked for,
\* unless the product of parsePoolSize wrapped.
THEOREM PoolSafety == NodeSpec => []SafePool
<1>1. NodeInv => SafePool
  <2>1. SUFFICES ASSUME NodeInv PROVE ChunksFit /\ PoolAsAsked
    BY DEF SafePool
  <2>2. SetupInv
    BY <2>1, NodeInvParts DEF DaemonInv
  <2>3. ChunksFit
    <3>1. SUFFICES ASSUME pc \in Serving, pool.kind # "none"
                   PROVE  pool.kind = "pool" /\ \E k \in 1..TransferChunk : k * pool.chunk = TransferChunk
      BY DEF ChunksFit
    <3>2. pool.kind = "pool" /\ checkChunkSize(pool)
      BY <2>2, <3>1 DEF SetupInv, PoolInv
    <3>3. pool.chunk \in Nat
      BY <2>2, NodeAssumption DEF SetupInv
    <3>4. QED
      BY <3>2, <3>3, ChunkDivides
  <2>4. PoolAsAsked
    <3>1. SUFFICES ASSUME pc = "reread", pool.kind # "none", NEW a \in cfg.asked
                   PROVE  LET percent == a.suffix = "%"
                              exact == IF percent THEN (seen * a.n) \div Hundred ELSE a.n * Multiplier(a.suffix)
                          IN  exact < Width => pool.size \in exact - (IF percent THEN a.n ELSE 0)..exact
      BY DEF PoolAsAsked
    <3>2. Validated(cfg) /\ pool.size = PoolBytes(cfg.poolSize, seen)
      BY <2>2, <3>1 DEF SetupInv, ConfigInv, PoolInv, Starting, Commanding
    <3>3. a \in PoolSizes /\ ParsesPoolSize(a) /\ cfg.poolSize = PoolSize(a)
      BY <3>1, <3>2 DEF Validated
    <3>4. seen \in 0..Width - 1
      BY <2>2, NodeAssumption DEF SetupInv
    <3>5. pool.size = PoolBytes(PoolSize(a), seen)
      BY <3>2, <3>3
    <3>6. QED
      BY <3>3, <3>4, <3>5, BytesAsked
  <2>5. QED
    BY <2>3, <2>4
<1>2. QED
  BY <1>1, NodeInvariant, PTL

\* The role peerRole reads of a certificate is one of its OUs.
LEMMA RoleNamed ==
  ASSUME NEW cert \in Certificates, NEW service, authorize(cert, service)
  PROVE  \E i \in 1..Len(cert.ous) :
           \/ cert.ous[i] = "orchestrator"
           \/ cert.ous[i] = "node" /\ service = "transfer"
<1> DEFINE roles == {i \in 1..Len(cert.ous) : cert.ous[i] \in {"node", "orchestrator"}}
<1>1. peerRole(cert) = IF cert.verified /\ roles # {} THEN cert.ous[First(roles)] ELSE "none"
  BY Zenon DEF peerRole
<1>2. Len(cert.ous) \in 0..2
  <2>1. cert.ous \in {<<>>, <<"node">>, <<"orchestrator">>, <<"other">>, <<"other", "node">>,
                      <<"node", "orchestrator">>}
    BY DEF Certificates
  <2>2. QED
    BY <2>1
<1>3. roles \subseteq 1..9 /\ roles \subseteq 1..Len(cert.ous)
  BY <1>2
<1> HIDE DEF roles
<1>4. peerRole(cert) = "orchestrator" \/ (peerRole(cert) = "node" /\ service = "transfer")
  BY DEF authorize
<1>5. roles # {} /\ peerRole(cert) = cert.ous[First(roles)]
  BY <1>1, <1>4
<1>6. First(roles) \in 1..Len(cert.ous)
  BY <1>3, <1>5, FirstOf
<1>7. QED
  BY <1>4, <1>5, <1>6

\* ServerOptions, the interceptors and peerRole: configured TLS is never off in
\* silence, and with TLS a handler runs only for a verified certificate whose OU
\* gives it a role for the service.
THEOREM AccessSafety == NodeSpec => []Authorised
<1>1. NodeInv => Authorised
  <2>1. SUFFICES ASSUME NodeInv PROVE Authorised
    OBVIOUS
  <2>2. SetupInv /\ PeerInv
    BY <2>1, NodeInvParts DEF DaemonInv
  <2>3. Secured
    <3>1. SUFFICES ASSUME pc \in Serving
                   PROVE  IF transport = "plain" THEN cfg.insecure /\ cfg.tls = {}
                                                 ELSE ~cfg.insecure /\ cfg.tls = TLSFiles
      BY DEF Secured
    <3>2. Validated(cfg) /\ transport = IF cfg.tls # {} THEN "mtls" ELSE "plain"
      BY <2>2, <3>1 DEF SetupInv, ConfigInv, TransportInv, Enabled
    <3>3. cfg.tls \in {{}, TLSFiles} /\ cfg.insecure = (cfg.tls = {}) /\ TLSFiles # {}
      BY <3>2 DEF Validated, TLSFiles
    <3>4. QED
      BY <3>2, <3>3
  <2>4. ASSUME peer # Nothing, cfg.tls # {}
        PROVE  /\ peer.cert.verified
               /\ \E i \in 1..Len(peer.cert.ous) :
                    \/ peer.cert.ous[i] = "orchestrator"
                    \/ peer.cert.ous[i] = "node" /\ peer.service = "transfer"
    <3>1. peer.cert.verified /\ authorize(peer.cert, peer.service) /\ peer.cert \in Certificates
      BY <2>2, <2>4, Zenon DEF PeerInv
    <3>2. QED
      BY <3>1, RoleNamed
  <2>5. QED
    BY <2>3, <2>4, Zenon DEF Authorised
<1>2. QED
  BY <1>1, NodeInvariant, PTL

\* What a step of the daemon does to the volume of the verbs and the answers.
LEMMA SizeStep ==
  ASSUME DaemonInv, NodeNext
  PROVE  /\ vols["v1"].live => vols'["v1"].size >= vols["v1"].size
         /\ \A h \in Resizers :
              answer[h] # "OK" /\ answer'[h] = "OK" => vols'["v1"].size = want[h]
<1>1. /\ vols \in [{"v1", "v2"} -> Lvs] /\ vols["v1"].size \in 1..MaxSize
      /\ answer \in [Resizers -> {"none", "OK", "InvalidArgument", "FailedPrecondition", "Internal"}]
  BY DEF DaemonInv, VerbsInv, VolumesInv, Lvs
<1>2. ASSUME vols'["v1"].size = vols["v1"].size,
             \A h \in Resizers : answer'[h] = "OK" => answer[h] = "OK"
      PROVE  /\ vols["v1"].live => vols'["v1"].size >= vols["v1"].size
             /\ \A h \in Resizers :
                  answer[h] # "OK" /\ answer'[h] = "OK" => vols'["v1"].size = want[h]
  BY <1>1, <1>2, LvmAssumption
<1>3. CASE UNCHANGED <<vols, answer>>
  BY <1>2, <1>3
<1>4. CASE Crash
  BY <1>2, <1>4 DEF Crash
<1>5. CASE OtherVerb
  <2>1. PICK tag \in {"ready", "attached", "pushing"}, live \in BOOLEAN :
          vols' = [vols EXCEPT !["v1"] = Lv(tag, vols["v1"].size, live)]
    BY <1>5 DEF OtherVerb
  <2>2. vols'["v1"].size = vols["v1"].size /\ UNCHANGED answer
    BY <1>1, <1>5, <2>1 DEF OtherVerb, Lv
  <2>3. QED
    BY <1>2, <2>2
<1>6. ASSUME NEW h \in Resizers, ResizeVolume(h) \/ LookUp(h)
      PROVE  UNCHANGED vols /\ \A r \in Resizers : answer'[r] = "OK" => answer[r] = "OK"
  <2>1. CASE ResizeVolume(h)
    BY <1>1, <2>1 DEF ResizeVolume
  <2>2. CASE LookUp(h)
    BY <1>1, <2>2 DEF LookUp, Answer
  <2>3. QED
    BY <1>6, <2>1, <2>2
<1>7. ASSUME NEW h \in Resizers, Resize(h)
      PROVE  /\ vols["v1"].live => vols'["v1"].size >= vols["v1"].size
             /\ \A r \in Resizers :
                  answer[r] # "OK" /\ answer'[r] = "OK" => vols'["v1"].size = want[r]
  <2>1. PICK new \in 1..MaxSize, code \in {"OK", "Internal"} :
              /\ vols' = [vols EXCEPT !["v1"].size = new] /\ Answer(h, code)
              /\ vols["v1"].live => new >= vols["v1"].size
              /\ code = "OK" => new = want[h]
    BY <1>7, ResizeEffect
  <2>2. vols'["v1"].size = new
    BY <1>1, <2>1 DEF Lvs
  <2>3. answer' = [answer EXCEPT ![h] = code]
    BY <2>1 DEF Answer
  <2>4. QED
    BY <1>1, <2>1, <2>2, <2>3
<1>8. ASSUME Startup \/ Start \/ Fails \/ Signal \/ Drain \/ Stop \/ Restart \/ OtherAdmin
      PROVE  UNCHANGED <<vols, answer>>
  <2>1. CASE Startup
    BY <2>1 DEF Startup, Load, LookUpVG, LookUpPool, CreatePool, Reread, Recover, Listen, ServerOptions,
                Register, Ready, Step, verbs
  <2>2. QED
    BY <1>8, <2>1 DEF Start, Fails, Signal, Drain, Stop, Restart, OtherAdmin, verbs
<1>9. ASSUME Serve \/ GetNodeStatus \/ Served \/ StreamServed \/ Scan \/ Sent
      PROVE  UNCHANGED <<vols, answer>>
  BY <1>9 DEF Serve, GetNodeStatus, Served, StreamServed, Scan, Sent
<1>10. QED
  BY <1>2, <1>3, <1>4, <1>5, <1>6, <1>7, <1>8, <1>9 DEF NodeNext, Calls, Handler

\* storage.ResizeVolume: however stale its check of the size is when its lvresize
\* runs, a volume with a device does not get smaller, and an OK means the size
\* that was asked for.
THEOREM ResizeSafety == NodeSpec => ResizeSafe
<1>1. NodeInv /\ [\/ NodeNext /\ UNCHANGED lvmVars
                  \/ LvmNext /\ UNCHANGED nodeVars]_<<nodeVars, lvmVars>>
        => [/\ vols["v1"].live => vols'["v1"].size >= vols["v1"].size
            /\ \A h \in Resizers :
                 answer[h] # "OK" /\ answer'[h] = "OK" => vols'["v1"].size = want[h]]_nodeVars
  <2>1. SUFFICES ASSUME NodeInv, NodeNext
                 PROVE  /\ vols["v1"].live => vols'["v1"].size >= vols["v1"].size
                        /\ \A h \in Resizers :
                             answer[h] # "OK" /\ answer'[h] = "OK" => vols'["v1"].size = want[h]
    OBVIOUS
  <2>2. QED
    BY <2>1, NodeInvParts, SizeStep
<1>2. QED
  BY <1>1, NodeInvariant, PTL DEF NodeSpec, ResizeSafe

\* No answer of the library or of GetNodeStatus hides what is there: "not found" is
\* never a denial, and a list has every row lvm reported.
THEOREM AbsenceSafety == NodeSpec => []AbsenceReal
<1>1. NodeInv => AbsenceReal
  BY NodeInvParts, LvmAnswers DEF NodeInv, AbsenceReal
<1>2. QED
  BY <1>1, NodeInvariant, PTL

\* The command and metadataCommand of the library: a command handed to lvm makes
\* the settings its caller asked for, every option read back as itself by the
\* subcommand it goes to, and reaches the objects addressed, in the scope of the
\* call or else the client.
THEOREM CommandSafety == NodeSpec => []AsAsked
<1>1. NodeInv => AsAsked
  BY NodeInvParts, LvmAsAsked
<1>2. QED
  BY <1>1, NodeInvariant, PTL

\* The checks before a command: lvm rejects a command line of the library only
\* where the caller named no device, or All for a subcommand that has no such
\* form, or asked for one of the three forms lv.go and the integration test know
\* lvm 2.03.16 not to take.
THEOREM CommandAccepted == NodeSpec => []NeverInvalid
<1>1. NodeInv => NeverInvalid
  BY NodeInvParts, LvmNeverInvalid
<1>2. QED
  BY <1>1, NodeInvariant, PTL

\* The size operations of lv.go: lvextend makes no volume smaller, and lvresize an
\* active one only together with its filesystem; ReduceLogicalVolume is the one
\* that forces it.
THEOREM ShrinkSafety == NodeSpec => ShrinkOnlyAsked
<1>1. NodeInv /\ [\/ NodeNext /\ UNCHANGED lvmVars
                  \/ LvmNext /\ UNCHANGED nodeVars]_<<nodeVars, lvmVars>>
        => [size' < size =>
              \/ call.op = "ReduceLogicalVolume"
              \/ /\ call.op = "ResizeLogicalVolume"
                 /\ ~call.live \/ "ResizeFilesystem" \in Column(call.opts)]_lvmVars
  <2>1. SUFFICES ASSUME NodeInv, LvmNext PROVE size' < size => Shrinks
    BY DEF Shrinks
  <2>2. QED
    BY <2>1, NodeInvParts, LvmStep
<1>2. QED
  BY <1>1, NodeInvariant, PTL DEF NodeSpec, ShrinkOnlyAsked
=============================================================================
