----------------------------- MODULE LvmProofs ------------------------------
(***************************************************************************)
(* TLAPS proofs about Lvm: every operation's command line says to lvm what *)
(* the caller asked for, and lvm accepts it.                               *)
(***************************************************************************)
EXTENDS Lvm, FiniteSetTheorems, SequenceTheorems, TLAPS

-----------------------------------------------------------------------------
\* How lvm reads a flag.

\* A table with one row for each entry of its first column.
Once(table) == \A p, q \in table : p[1] = q[1] => p[2] = q[2]

\* The flag f of sub stands for the option o.
Says(sub, f, o) ==
  <<f, o>> \in Own(sub) \/ (<<f, o>> \in Common /\ \A p \in Own(sub) : p[1] # f)

LEMMA CommonOnce == Once(Common)
  BY DEF Common, Once

\* The rows of Own, one subcommand at a time.
LEMMA OwnTables ==
  /\ Own("lvcreate") =
       {<<"-n", "name">>, <<"-L", "sizeBytes">>, <<"-s", "snapshot">>, <<"-a", "Activate">>,
        <<"-p", "Permission">>, <<"-r", "Readahead">>, <<"--poolmetadatasize", "MetadataSizeBytes">>}
  /\ Own("lvchange") = {<<"-a", "Activate">>, <<"-p", "Permission">>, <<"-r", "Readahead">>}
  /\ Own("vgchange") =
       {<<"-a", "Activate">>, <<"-x", "Resizeable">>, <<"-l", "MaxLogicalVolumes">>,
        <<"-p", "MaxPhysicalVolumes">>, <<"-s", "ExtentSizeBytes">>}
  /\ \A sub \in {"lvextend", "lvreduce", "lvresize"} :
       Own(sub) = {<<"-r", "ResizeFilesystem">>, <<"--poolmetadatasize", "PoolMetadataSizeBytes">>}
  /\ Own("vgcreate") = {<<"-s", "ExtentSizeBytes">>} /\ Own("vgreduce") = {<<"-a", "RemoveUnused">>}
  /\ Own("vgdisplay") = {<<"-s", "Short">>} /\ Own("vgcfgbackup") = {<<"-f", "File">>}
  /\ Own("vgcfgrestore") = {<<"-f", "File">>, <<"-l", "list">>}
  /\ Own("vgsplit") = {<<"-n", "LVName">>} /\ Own("vgimportclone") = {<<"-n", "BaseName">>}
  /\ Own("pvchange") = {<<"-x", "Allocatable">>}
  /\ \A sub \in {"lvremove", "lvrename", "lvdisplay", "lvscan", "lvs", "vgs", "vgremove", "vgextend",
                 "vgrename", "vgck", "vgscan", "vgexport", "vgimport", "vgmerge", "vgmknodes",
                 "vgimportdevices", "pvcreate", "pvs", "pvremove", "pvresize", "pvdisplay", "pvscan",
                 "pvck", "version"} : Own(sub) = {}
<1>1. Own("lvcreate") =
        {<<"-n", "name">>, <<"-L", "sizeBytes">>, <<"-s", "snapshot">>, <<"-a", "Activate">>,
         <<"-p", "Permission">>, <<"-r", "Readahead">>, <<"--poolmetadatasize", "MetadataSizeBytes">>}
  BY DEF Own
<1>2. Own("lvchange") = {<<"-a", "Activate">>, <<"-p", "Permission">>, <<"-r", "Readahead">>}
  BY DEF Own
<1>3. Own("vgchange") =
        {<<"-a", "Activate">>, <<"-x", "Resizeable">>, <<"-l", "MaxLogicalVolumes">>,
         <<"-p", "MaxPhysicalVolumes">>, <<"-s", "ExtentSizeBytes">>}
  BY DEF Own
<1>4. \A sub \in {"lvextend", "lvreduce", "lvresize"} :
        Own(sub) = {<<"-r", "ResizeFilesystem">>, <<"--poolmetadatasize", "PoolMetadataSizeBytes">>}
  BY DEF Own
<1>5. Own("vgcreate") = {<<"-s", "ExtentSizeBytes">>} /\ Own("vgreduce") = {<<"-a", "RemoveUnused">>}
  BY DEF Own
<1>6. Own("vgdisplay") = {<<"-s", "Short">>} /\ Own("vgcfgbackup") = {<<"-f", "File">>}
  BY DEF Own
<1>7. Own("vgcfgrestore") = {<<"-f", "File">>, <<"-l", "list">>}
  BY DEF Own
<1>8. Own("vgsplit") = {<<"-n", "LVName">>} /\ Own("vgimportclone") = {<<"-n", "BaseName">>}
  BY DEF Own
<1>9. Own("pvchange") = {<<"-x", "Allocatable">>}
  BY DEF Own
<1>10. \A sub \in {"lvremove", "lvrename", "lvdisplay", "lvscan", "lvs", "vgs", "vgremove", "vgextend",
                   "vgrename", "vgck", "vgscan", "vgexport", "vgimport", "vgmerge", "vgmknodes",
                   "vgimportdevices", "pvcreate", "pvs", "pvremove", "pvresize", "pvdisplay", "pvscan",
                   "pvck", "version"} : Own(sub) = {}
  BY DEF Own
<1>11. QED
  BY <1>1, <1>2, <1>3, <1>4, <1>5, <1>6, <1>7, <1>8, <1>9, <1>10

LEMMA ImageOne ==
  ASSUME NEW table, NEW x, NEW y, <<x, y>> \in table, Once(table)
  PROVE  Image(table, x) = {y}
  BY DEF Image, Once

LEMMA ImageNone ==
  ASSUME NEW table, NEW x, \A p \in table : p[1] # x
  PROVE  Image(table, x) = {}
  BY DEF Image

\* A flag that says an option is read as that option and no other.
LEMMA ReadsOne ==
  ASSUME NEW sub, NEW f, NEW o, Says(sub, f, o), Once(Own(sub))
  PROVE  Reads(sub, f) = {o}
<1>1. CASE <<f, o>> \in Own(sub)
  <2>1. Image(Own(sub), f) = {o}
    BY <1>1, ImageOne
  <2>2. QED
    BY <2>1 DEF Reads
<1>2. CASE <<f, o>> \in Common /\ \A p \in Own(sub) : p[1] # f
  <2>1. Image(Own(sub), f) = {} /\ Image(Common, f) = {o}
    BY <1>2, ImageOne, ImageNone, CommonOnce
  <2>2. QED
    BY <2>1 DEF Reads
<1>3. QED
  BY <1>1, <1>2 DEF Says

LEMMA OptionKinds ==
  /\ \A o \in Pointers : o \notin Counts /\ o \notin Switches /\ o \notin ByteOptions
  /\ \A o \in Switches : o \notin Counts /\ o \notin Pointers /\ o \notin ByteOptions
  /\ \A o \in Counts : o \notin ByteOptions /\ o \notin Pointers /\ o \notin Switches
  BY DEF Pointers, Counts, Switches, ByteOptions

\* lvm takes a rendered value for the value it was.
LEMMA TakenRendered ==
  ASSUME NEW o, NEW v \in ValuesOf(o)
  PROVE  Taken(o, Rendered(o, v)) = v
<1>1. CASE o \in Pointers
  <2>1. v \in {"true", "false"}
    BY <1>1, OptionKinds DEF ValuesOf
  <2>2. Rendered(o, v) = Plain(flagValue(v))
    BY <1>1, OptionKinds DEF Rendered
  <2>3. \A arg : Taken(o, arg) = IF arg.val = "y" THEN "true" ELSE "false"
    BY <1>1, OptionKinds DEF Taken
  <2>4. QED
    BY <2>1, <2>2, <2>3 DEF Plain, flagValue
<1>2. CASE o \in Switches
  <2>1. v = "true"
    BY <1>2, OptionKinds DEF ValuesOf
  <2>2. \A arg : Taken(o, arg) = "true"
    BY <1>2, OptionKinds DEF Taken
  <2>3. QED
    BY <2>1, <2>2
<1>3. CASE o \in ByteOptions
  <2>1. Rendered(o, v) = [val |-> v, unit |-> "b"]
    BY <1>3, OptionKinds DEF Rendered
  <2>2. \A arg : arg.unit = "b" => Taken(o, arg) = arg.val
    BY <1>3, OptionKinds DEF Taken
  <2>3. QED
    BY <2>1, <2>2
<1>4. CASE o \notin Pointers /\ o \notin Switches /\ o \notin ByteOptions
  <2>1. Rendered(o, v) = Plain(v)
    BY <1>4 DEF Rendered
  <2>2. \A arg : Taken(o, arg) = arg.val
    BY <1>4 DEF Taken
  <2>3. QED
    BY <2>1, <2>2 DEF Plain
<1>5. QED
  BY <1>1, <1>2, <1>3, <1>4

-----------------------------------------------------------------------------
\* The rows of the table of operations.

\* Every option's flag says that option, and the all flag All; no option is the
\* type of an lv or the kind of a dump.
Readable(op) ==
  /\ Once(Own(op.sub))
  /\ \A r \in op.flags : Says(op.sub, r[2], r[1]) /\ r[1] \notin {"type", "dump"}
  /\ op.all # "none" => Says(op.sub, op.all, "All")

\* The flag a, rendered by every call, makes the setting i.
Sets(sub, a, i) == Says(sub, a[1], i[1]) /\ Taken(i[1], Rendered(a[2], a[2])) = i[2]

\* The flags rendered by every call make the settings of intent.
Means(op, intent) ==
  /\ \A a \in op.always : \E i \in intent : Sets(op.sub, a, i)
  /\ \A i \in intent : i = <<i[1], i[2]>> /\ \E a \in op.always : Sets(op.sub, a, i)

LEMMA LVCreateRows ==
  /\ Readable(CreateLogicalVolume) /\ Readable(CreateThinPool) /\ Readable(CreateThinVolume)
  /\ Readable(CreateSnapshot) /\ Readable(CreateThinSnapshot)
<1> USE OwnTables DEF Readable, Once, Says, Common, NewLV, Metadata, Operation
<1>1. Readable(CreateLogicalVolume)
  BY DEF CreateLogicalVolume
<1>2. Readable(CreateThinPool)
  BY DEF CreateThinPool
<1>3. Readable(CreateThinVolume)
  BY DEF CreateThinVolume
<1>4. Readable(CreateSnapshot)
  BY DEF CreateSnapshot
<1>5. Readable(CreateThinSnapshot)
  BY DEF CreateThinSnapshot
<1> HIDE DEF Readable
<1>6. QED
  BY <1>1, <1>2, <1>3, <1>4, <1>5

LEMMA LVRows ==
  /\ Readable(RemoveLogicalVolume) /\ Readable(ChangeLogicalVolume)
  /\ Readable(ActivateLogicalVolume) /\ Readable(DeactivateLogicalVolume)
  /\ Readable(ExtendLogicalVolume) /\ Readable(ExtendLogicalVolumeByPolicy)
  /\ Readable(ReduceLogicalVolume) /\ Readable(ResizeLogicalVolume)
  /\ Readable(RenameLogicalVolume) /\ Readable(DisplayLogicalVolume)
  /\ Readable(ScanLogicalVolumes) /\ Readable(ListLogicalVolumes)
<1> USE OwnTables DEF Readable, Once, Says, Common, GrowLV, Metadata, Selected, QueryAny, QueryAll, Operation
<1>1. /\ Readable(RemoveLogicalVolume) /\ Readable(ChangeLogicalVolume)
      /\ Readable(ActivateLogicalVolume) /\ Readable(DeactivateLogicalVolume)
  BY DEF RemoveLogicalVolume, ChangeLogicalVolume, ActivateLogicalVolume, DeactivateLogicalVolume
<1>2. /\ Readable(ExtendLogicalVolume) /\ Readable(ExtendLogicalVolumeByPolicy)
      /\ Readable(ReduceLogicalVolume) /\ Readable(ResizeLogicalVolume)
  BY DEF ExtendLogicalVolume, ExtendLogicalVolumeByPolicy, ReduceLogicalVolume, ResizeLogicalVolume
<1>3. /\ Readable(RenameLogicalVolume) /\ Readable(DisplayLogicalVolume)
      /\ Readable(ScanLogicalVolumes) /\ Readable(ListLogicalVolumes)
  BY DEF RenameLogicalVolume, DisplayLogicalVolume, ScanLogicalVolumes, ListLogicalVolumes
<1> HIDE DEF Readable
<1>4. QED
  BY <1>1, <1>2, <1>3

LEMMA VGRows ==
  /\ Readable(CreateVolumeGroup) /\ Readable(ListVolumeGroups) /\ Readable(RemoveVolumeGroup)
  /\ Readable(ExtendVolumeGroup) /\ Readable(ReduceVolumeGroup) /\ Readable(RenameVolumeGroup)
  /\ Readable(ChangeVolumeGroup) /\ Readable(ActivateVolumeGroup)
  /\ Readable(DeactivateVolumeGroup) /\ Readable(CheckVolumeGroup)
  /\ Readable(DisplayVolumeGroup) /\ Readable(ScanVolumeGroups)
  /\ Readable(BackupVolumeGroupMetadata) /\ Readable(RestoreVolumeGroupMetadata)
  /\ Readable(ListVolumeGroupMetadataBackups) /\ Readable(ExportVolumeGroup)
  /\ Readable(ImportVolumeGroup) /\ Readable(MergeVolumeGroups) /\ Readable(SplitVolumeGroup)
  /\ Readable(MakeVolumeGroupNodes) /\ Readable(ImportClonedVolumeGroup)
  /\ Readable(ImportVolumeGroupDevices)
<1> USE OwnTables DEF Readable, Once, Says, Common, Metadata, Query, QueryAny, QueryAll, Selected, Operation
<1>1. /\ Readable(CreateVolumeGroup) /\ Readable(ListVolumeGroups)
      /\ Readable(RemoveVolumeGroup) /\ Readable(ExtendVolumeGroup)
  BY DEF CreateVolumeGroup, ListVolumeGroups, RemoveVolumeGroup, ExtendVolumeGroup
<1>2. /\ Readable(ReduceVolumeGroup) /\ Readable(RenameVolumeGroup)
      /\ Readable(ChangeVolumeGroup) /\ Readable(ActivateVolumeGroup)
  BY DEF ReduceVolumeGroup, RenameVolumeGroup, ChangeVolumeGroup, ActivateVolumeGroup
<1>3. /\ Readable(DeactivateVolumeGroup) /\ Readable(CheckVolumeGroup)
      /\ Readable(DisplayVolumeGroup) /\ Readable(ScanVolumeGroups)
  BY DEF DeactivateVolumeGroup, CheckVolumeGroup, DisplayVolumeGroup, ScanVolumeGroups
<1>4. /\ Readable(BackupVolumeGroupMetadata) /\ Readable(RestoreVolumeGroupMetadata)
      /\ Readable(ListVolumeGroupMetadataBackups) /\ Readable(ExportVolumeGroup)
  BY DEF BackupVolumeGroupMetadata, RestoreVolumeGroupMetadata, ListVolumeGroupMetadataBackups, ExportVolumeGroup
<1>5. /\ Readable(ImportVolumeGroup) /\ Readable(MergeVolumeGroups)
      /\ Readable(SplitVolumeGroup) /\ Readable(MakeVolumeGroupNodes)
  BY DEF ImportVolumeGroup, MergeVolumeGroups, SplitVolumeGroup, MakeVolumeGroupNodes
<1>6. /\ Readable(ImportClonedVolumeGroup) /\ Readable(ImportVolumeGroupDevices)
  BY DEF ImportClonedVolumeGroup, ImportVolumeGroupDevices
<1> HIDE DEF Readable
<1>7. QED
  BY <1>1, <1>2, <1>3, <1>4, <1>5, <1>6

LEMMA PVRows ==
  /\ Readable(CreatePhysicalVolume) /\ Readable(ListPhysicalVolumes)
  /\ Readable(RemovePhysicalVolume) /\ Readable(ChangePhysicalVolume)
  /\ Readable(ResizePhysicalVolume) /\ Readable(DisplayPhysicalVolume)
  /\ Readable(ScanPhysicalVolumes) /\ Readable(CheckPhysicalVolume)
  /\ Readable(DumpPhysicalVolume) /\ Readable(GetVersion)
<1> USE OwnTables DEF Readable, Once, Says, Common, Metadata, Query, QueryAny, QueryAll, Selected, Operation
<1>1. /\ Readable(CreatePhysicalVolume) /\ Readable(ListPhysicalVolumes)
      /\ Readable(RemovePhysicalVolume) /\ Readable(ChangePhysicalVolume)
  BY DEF CreatePhysicalVolume, ListPhysicalVolumes, RemovePhysicalVolume, ChangePhysicalVolume
<1>2. /\ Readable(ResizePhysicalVolume) /\ Readable(DisplayPhysicalVolume)
      /\ Readable(ScanPhysicalVolumes) /\ Readable(CheckPhysicalVolume)
  BY DEF ResizePhysicalVolume, DisplayPhysicalVolume, ScanPhysicalVolumes, CheckPhysicalVolume
<1>3. /\ Readable(DumpPhysicalVolume) /\ Readable(GetVersion)
  BY DEF DumpPhysicalVolume, GetVersion
<1> HIDE DEF Readable
<1>4. QED
  BY <1>1, <1>2, <1>3

\* The row of an operation, by its name.
LEMMA OpsRows ==
  /\ Ops["CreateLogicalVolume"] = CreateLogicalVolume /\ Ops["CreateThinPool"] = CreateThinPool
  /\ Ops["CreateThinVolume"] = CreateThinVolume /\ Ops["CreateSnapshot"] = CreateSnapshot
  /\ Ops["CreateThinSnapshot"] = CreateThinSnapshot
  /\ Ops["RemoveLogicalVolume"] = RemoveLogicalVolume
  /\ Ops["ChangeLogicalVolume"] = ChangeLogicalVolume
  /\ Ops["ActivateLogicalVolume"] = ActivateLogicalVolume
  /\ Ops["DeactivateLogicalVolume"] = DeactivateLogicalVolume
  /\ Ops["ExtendLogicalVolume"] = ExtendLogicalVolume
  /\ Ops["ExtendLogicalVolumeByPolicy"] = ExtendLogicalVolumeByPolicy
  /\ Ops["ReduceLogicalVolume"] = ReduceLogicalVolume
  /\ Ops["ResizeLogicalVolume"] = ResizeLogicalVolume
  /\ Ops["RenameLogicalVolume"] = RenameLogicalVolume
  /\ Ops["DisplayLogicalVolume"] = DisplayLogicalVolume
  /\ Ops["ScanLogicalVolumes"] = ScanLogicalVolumes
  /\ Ops["ListLogicalVolumes"] = ListLogicalVolumes
  /\ Ops["CreateVolumeGroup"] = CreateVolumeGroup /\ Ops["ListVolumeGroups"] = ListVolumeGroups
  /\ Ops["RemoveVolumeGroup"] = RemoveVolumeGroup
  /\ Ops["ExtendVolumeGroup"] = ExtendVolumeGroup
  /\ Ops["ReduceVolumeGroup"] = ReduceVolumeGroup
  /\ Ops["RenameVolumeGroup"] = RenameVolumeGroup
  /\ Ops["ChangeVolumeGroup"] = ChangeVolumeGroup
  /\ Ops["ActivateVolumeGroup"] = ActivateVolumeGroup
  /\ Ops["DeactivateVolumeGroup"] = DeactivateVolumeGroup
  /\ Ops["CheckVolumeGroup"] = CheckVolumeGroup
  /\ Ops["DisplayVolumeGroup"] = DisplayVolumeGroup
  /\ Ops["ScanVolumeGroups"] = ScanVolumeGroups
  /\ Ops["BackupVolumeGroupMetadata"] = BackupVolumeGroupMetadata
  /\ Ops["RestoreVolumeGroupMetadata"] = RestoreVolumeGroupMetadata
  /\ Ops["ListVolumeGroupMetadataBackups"] = ListVolumeGroupMetadataBackups
  /\ Ops["ExportVolumeGroup"] = ExportVolumeGroup
  /\ Ops["ImportVolumeGroup"] = ImportVolumeGroup
  /\ Ops["MergeVolumeGroups"] = MergeVolumeGroups /\ Ops["SplitVolumeGroup"] = SplitVolumeGroup
  /\ Ops["MakeVolumeGroupNodes"] = MakeVolumeGroupNodes
  /\ Ops["ImportClonedVolumeGroup"] = ImportClonedVolumeGroup
  /\ Ops["ImportVolumeGroupDevices"] = ImportVolumeGroupDevices
  /\ Ops["CreatePhysicalVolume"] = CreatePhysicalVolume
  /\ Ops["ListPhysicalVolumes"] = ListPhysicalVolumes
  /\ Ops["RemovePhysicalVolume"] = RemovePhysicalVolume
  /\ Ops["ChangePhysicalVolume"] = ChangePhysicalVolume
  /\ Ops["ResizePhysicalVolume"] = ResizePhysicalVolume
  /\ Ops["DisplayPhysicalVolume"] = DisplayPhysicalVolume
  /\ Ops["ScanPhysicalVolumes"] = ScanPhysicalVolumes
  /\ Ops["CheckPhysicalVolume"] = CheckPhysicalVolume
  /\ Ops["DumpPhysicalVolume"] = DumpPhysicalVolume /\ Ops["GetVersion"] = GetVersion
  BY DEF Ops

LEMMA Names ==
  DOMAIN Ops =
    {"CreateLogicalVolume", "CreateThinPool", "CreateThinVolume", "CreateSnapshot",
     "CreateThinSnapshot", "RemoveLogicalVolume", "ChangeLogicalVolume",
     "ActivateLogicalVolume", "DeactivateLogicalVolume", "ExtendLogicalVolume",
     "ExtendLogicalVolumeByPolicy", "ReduceLogicalVolume", "ResizeLogicalVolume",
     "RenameLogicalVolume", "DisplayLogicalVolume", "ScanLogicalVolumes", "ListLogicalVolumes",
     "CreateVolumeGroup", "ListVolumeGroups", "RemoveVolumeGroup", "ExtendVolumeGroup",
     "ReduceVolumeGroup", "RenameVolumeGroup", "ChangeVolumeGroup", "ActivateVolumeGroup",
     "DeactivateVolumeGroup", "CheckVolumeGroup", "DisplayVolumeGroup", "ScanVolumeGroups",
     "BackupVolumeGroupMetadata", "RestoreVolumeGroupMetadata",
     "ListVolumeGroupMetadataBackups", "ExportVolumeGroup", "ImportVolumeGroup",
     "MergeVolumeGroups", "SplitVolumeGroup", "MakeVolumeGroupNodes", "ImportClonedVolumeGroup",
     "ImportVolumeGroupDevices", "CreatePhysicalVolume", "ListPhysicalVolumes",
     "RemovePhysicalVolume", "ChangePhysicalVolume", "ResizePhysicalVolume",
     "DisplayPhysicalVolume", "ScanPhysicalVolumes", "CheckPhysicalVolume",
     "DumpPhysicalVolume", "GetVersion"}
  BY DEF Ops

LEMMA AllReadable == ASSUME NEW op \in DOMAIN Ops PROVE Readable(Ops[op])
<1>1. op \in DOMAIN Ops
  OBVIOUS
<1>2. QED
  BY <1>1, Names, OpsRows, LVCreateRows, LVRows, VGRows, PVRows

-----------------------------------------------------------------------------
\* What the flags of every call mean.

LEMMA TakenSame ==
  ASSUME NEW o, NEW a, o \notin Pointers \cup Switches, a \notin Pointers \cup Switches,
         o \in ByteOptions <=> a \in ByteOptions
  PROVE  Taken(o, Rendered(a, a)) = a
<1>1. CASE a \in ByteOptions
  <2>1. Rendered(a, a) = [val |-> a, unit |-> "b"]
    BY <1>1 DEF Rendered
  <2>2. \A arg : arg.unit = "b" => Taken(o, arg) = arg.val
    BY <1>1 DEF Taken
  <2>3. QED
    BY <2>1, <2>2
<1>2. CASE a \notin ByteOptions
  <2>1. Rendered(a, a) = Plain(a)
    BY <1>2 DEF Rendered
  <2>2. \A arg : Taken(o, arg) = arg.val
    BY <1>2 DEF Taken
  <2>3. QED
    BY <2>1, <2>2 DEF Plain
<1>3. QED
  BY <1>1, <1>2

LEMMA TakenAlways ==
  /\ Taken("name", Rendered("name", "name")) = "name"
  /\ Taken("sizeBytes", Rendered("sizeBytes", "sizeBytes")) = "sizeBytes"
  /\ Taken("type", Rendered("thin-pool", "thin-pool")) = "thin-pool"
  /\ Taken("virtualSizeBytes", Rendered("virtualSizeBytes", "virtualSizeBytes")) = "virtualSizeBytes"
  /\ Taken("type", Rendered("thin", "thin")) = "thin"
  /\ Taken("Pool", Rendered("pool", "pool")) = "pool"
  /\ Taken("snapshot", Rendered("set", "set")) = "set"
  /\ Taken("Activate", Rendered("y", "y")) = "true"
  /\ Taken("Activate", Rendered("n", "n")) = "false"
  /\ Taken("usepolicies", Rendered("set", "set")) = "set"
  /\ Taken("Force", Rendered("set", "set")) = "true"
  /\ Taken("list", Rendered("set", "set")) = "set"
  /\ Taken("cache", Rendered("set", "set")) = "set"
  /\ Taken("dump", Rendered("kind", "kind")) = "kind"
  /\ Taken("format", Rendered("json", "json")) = "json"
  /\ Taken("units", Rendered("b", "b")) = "b"
  /\ Taken("nosuffix", Rendered("set", "set")) = "set"
  /\ Taken("binary", Rendered("set", "set")) = "set"
  /\ Taken("fields", Rendered("fields", "fields")) = "fields"
<1>1. /\ Taken("name", Rendered("name", "name")) = "name"
      /\ Taken("sizeBytes", Rendered("sizeBytes", "sizeBytes")) = "sizeBytes"
      /\ Taken("type", Rendered("thin-pool", "thin-pool")) = "thin-pool"
      /\ Taken("virtualSizeBytes", Rendered("virtualSizeBytes", "virtualSizeBytes")) = "virtualSizeBytes"
      /\ Taken("type", Rendered("thin", "thin")) = "thin"
      /\ Taken("Pool", Rendered("pool", "pool")) = "pool"
      /\ Taken("snapshot", Rendered("set", "set")) = "set"
      /\ Taken("usepolicies", Rendered("set", "set")) = "set"
      /\ Taken("list", Rendered("set", "set")) = "set"
      /\ Taken("cache", Rendered("set", "set")) = "set"
      /\ Taken("dump", Rendered("kind", "kind")) = "kind"
      /\ Taken("format", Rendered("json", "json")) = "json"
      /\ Taken("units", Rendered("b", "b")) = "b"
      /\ Taken("nosuffix", Rendered("set", "set")) = "set"
      /\ Taken("binary", Rendered("set", "set")) = "set"
      /\ Taken("fields", Rendered("fields", "fields")) = "fields"
  BY TakenSame DEF Pointers, Switches, ByteOptions
<1>2. Rendered("y", "y") = Plain("y") /\ Rendered("n", "n") = Plain("n") /\ Rendered("set", "set") = Plain("set")
  BY DEF Rendered, Pointers, Switches, ByteOptions
<1>3. "Activate" \in Pointers /\ "Force" \in Switches
  BY DEF Pointers, Switches
<1>4. \A arg : Taken("Activate", arg) = IF arg.val = "y" THEN "true" ELSE "false"
  BY <1>3, OptionKinds DEF Taken
<1>5. \A arg : Taken("Force", arg) = "true"
  BY <1>3, OptionKinds DEF Taken
<1>6. QED
  BY <1>1, <1>2, <1>4, <1>5 DEF Plain

LEMMA SetsAlways ==
  /\ Sets("lvcreate", <<"-n", "name">>, <<"name", "name">>)
  /\ Sets("lvcreate", <<"-L", "sizeBytes">>, <<"sizeBytes", "sizeBytes">>)
  /\ Sets("lvcreate", <<"--type", "thin-pool">>, <<"type", "thin-pool">>)
  /\ Sets("lvcreate", <<"--type", "thin">>, <<"type", "thin">>)
  /\ Sets("lvcreate", <<"--thinpool", "pool">>, <<"Pool", "pool">>)
  /\ Sets("lvcreate", <<"-V", "virtualSizeBytes">>, <<"virtualSizeBytes", "virtualSizeBytes">>)
  /\ Sets("lvcreate", <<"-s", "set">>, <<"snapshot", "set">>)
  /\ Sets("lvchange", <<"-a", "y">>, <<"Activate", "true">>)
  /\ Sets("vgchange", <<"-a", "y">>, <<"Activate", "true">>)
  /\ Sets("lvchange", <<"-a", "n">>, <<"Activate", "false">>)
  /\ Sets("vgchange", <<"-a", "n">>, <<"Activate", "false">>)
  /\ Sets("lvextend", <<"--usepolicies", "set">>, <<"usepolicies", "set">>)
  /\ Sets("lvreduce", <<"-f", "set">>, <<"Force", "true">>)
  /\ Sets("vgcfgrestore", <<"-l", "set">>, <<"list", "set">>)
  /\ Sets("pvscan", <<"--cache", "set">>, <<"cache", "set">>)
  /\ Sets("pvck", <<"--dump", "kind">>, <<"dump", "kind">>)
  /\ Sets("lvs", <<"--reportformat", "json">>, <<"format", "json">>)
  /\ Sets("lvs", <<"--units", "b">>, <<"units", "b">>)
  /\ Sets("lvs", <<"--nosuffix", "set">>, <<"nosuffix", "set">>)
  /\ Sets("lvs", <<"--binary", "set">>, <<"binary", "set">>)
  /\ Sets("lvs", <<"-o", "fields">>, <<"fields", "fields">>)
  /\ Sets("vgs", <<"--reportformat", "json">>, <<"format", "json">>)
  /\ Sets("vgs", <<"--units", "b">>, <<"units", "b">>)
  /\ Sets("vgs", <<"--nosuffix", "set">>, <<"nosuffix", "set">>)
  /\ Sets("vgs", <<"--binary", "set">>, <<"binary", "set">>)
  /\ Sets("vgs", <<"-o", "fields">>, <<"fields", "fields">>)
  /\ Sets("pvs", <<"--reportformat", "json">>, <<"format", "json">>)
  /\ Sets("pvs", <<"--units", "b">>, <<"units", "b">>)
  /\ Sets("pvs", <<"--nosuffix", "set">>, <<"nosuffix", "set">>)
  /\ Sets("pvs", <<"--binary", "set">>, <<"binary", "set">>)
  /\ Sets("pvs", <<"-o", "fields">>, <<"fields", "fields">>)
<1>1. /\ Sets("lvcreate", <<"-n", "name">>, <<"name", "name">>)
      /\ Sets("lvcreate", <<"-L", "sizeBytes">>, <<"sizeBytes", "sizeBytes">>)
      /\ Sets("lvcreate", <<"--type", "thin-pool">>, <<"type", "thin-pool">>)
      /\ Sets("lvcreate", <<"--type", "thin">>, <<"type", "thin">>)
      /\ Sets("lvcreate", <<"--thinpool", "pool">>, <<"Pool", "pool">>)
      /\ Sets("lvcreate", <<"-V", "virtualSizeBytes">>, <<"virtualSizeBytes", "virtualSizeBytes">>)
      /\ Sets("lvcreate", <<"-s", "set">>, <<"snapshot", "set">>)
  <2>1. /\ Says("lvcreate", "-n", "name") /\ Says("lvcreate", "-L", "sizeBytes")
        /\ Says("lvcreate", "--type", "type") /\ Says("lvcreate", "--thinpool", "Pool")
        /\ Says("lvcreate", "-V", "virtualSizeBytes") /\ Says("lvcreate", "-s", "snapshot")
    BY OwnTables DEF Says, Common
  <2>2. QED
    BY <2>1, TakenAlways DEF Sets
<1>2. /\ Sets("lvchange", <<"-a", "y">>, <<"Activate", "true">>)
      /\ Sets("lvchange", <<"-a", "n">>, <<"Activate", "false">>)
  <2>1. /\ Says("lvchange", "-a", "Activate")
    BY OwnTables DEF Says, Common
  <2>2. QED
    BY <2>1, TakenAlways DEF Sets
<1>3. /\ Sets("vgchange", <<"-a", "y">>, <<"Activate", "true">>)
      /\ Sets("vgchange", <<"-a", "n">>, <<"Activate", "false">>)
  <2>1. /\ Says("vgchange", "-a", "Activate")
    BY OwnTables DEF Says, Common
  <2>2. QED
    BY <2>1, TakenAlways DEF Sets
<1>4. /\ Sets("lvextend", <<"--usepolicies", "set">>, <<"usepolicies", "set">>)
  <2>1. /\ Says("lvextend", "--usepolicies", "usepolicies")
    BY OwnTables DEF Says, Common
  <2>2. QED
    BY <2>1, TakenAlways DEF Sets
<1>5. /\ Sets("lvreduce", <<"-f", "set">>, <<"Force", "true">>)
  <2>1. /\ Says("lvreduce", "-f", "Force")
    BY OwnTables DEF Says, Common
  <2>2. QED
    BY <2>1, TakenAlways DEF Sets
<1>6. /\ Sets("vgcfgrestore", <<"-l", "set">>, <<"list", "set">>)
  <2>1. /\ Says("vgcfgrestore", "-l", "list")
    BY OwnTables DEF Says, Common
  <2>2. QED
    BY <2>1, TakenAlways DEF Sets
<1>7. /\ Sets("pvscan", <<"--cache", "set">>, <<"cache", "set">>)
  <2>1. /\ Says("pvscan", "--cache", "cache")
    BY OwnTables DEF Says, Common
  <2>2. QED
    BY <2>1, TakenAlways DEF Sets
<1>8. /\ Sets("pvck", <<"--dump", "kind">>, <<"dump", "kind">>)
  <2>1. /\ Says("pvck", "--dump", "dump")
    BY OwnTables DEF Says, Common
  <2>2. QED
    BY <2>1, TakenAlways DEF Sets
<1>9. /\ Sets("lvs", <<"--reportformat", "json">>, <<"format", "json">>)
      /\ Sets("lvs", <<"--units", "b">>, <<"units", "b">>)
      /\ Sets("lvs", <<"--nosuffix", "set">>, <<"nosuffix", "set">>)
      /\ Sets("lvs", <<"--binary", "set">>, <<"binary", "set">>)
      /\ Sets("lvs", <<"-o", "fields">>, <<"fields", "fields">>)
  <2>1. /\ Says("lvs", "--reportformat", "format") /\ Says("lvs", "--units", "units")
        /\ Says("lvs", "--nosuffix", "nosuffix") /\ Says("lvs", "--binary", "binary")
        /\ Says("lvs", "-o", "fields")
    BY OwnTables DEF Says, Common
  <2>2. QED
    BY <2>1, TakenAlways DEF Sets
<1>10. /\ Sets("vgs", <<"--reportformat", "json">>, <<"format", "json">>)
      /\ Sets("vgs", <<"--units", "b">>, <<"units", "b">>)
      /\ Sets("vgs", <<"--nosuffix", "set">>, <<"nosuffix", "set">>)
      /\ Sets("vgs", <<"--binary", "set">>, <<"binary", "set">>)
      /\ Sets("vgs", <<"-o", "fields">>, <<"fields", "fields">>)
  <2>1. /\ Says("vgs", "--reportformat", "format") /\ Says("vgs", "--units", "units")
        /\ Says("vgs", "--nosuffix", "nosuffix") /\ Says("vgs", "--binary", "binary")
        /\ Says("vgs", "-o", "fields")
    BY OwnTables DEF Says, Common
  <2>2. QED
    BY <2>1, TakenAlways DEF Sets
<1>11. /\ Sets("pvs", <<"--reportformat", "json">>, <<"format", "json">>)
      /\ Sets("pvs", <<"--units", "b">>, <<"units", "b">>)
      /\ Sets("pvs", <<"--nosuffix", "set">>, <<"nosuffix", "set">>)
      /\ Sets("pvs", <<"--binary", "set">>, <<"binary", "set">>)
      /\ Sets("pvs", <<"-o", "fields">>, <<"fields", "fields">>)
  <2>1. /\ Says("pvs", "--reportformat", "format") /\ Says("pvs", "--units", "units")
        /\ Says("pvs", "--nosuffix", "nosuffix") /\ Says("pvs", "--binary", "binary")
        /\ Says("pvs", "-o", "fields")
    BY OwnTables DEF Says, Common
  <2>2. QED
    BY <2>1, TakenAlways DEF Sets
<1>12. QED
  BY <1>1, <1>2, <1>3, <1>4, <1>5, <1>6, <1>7, <1>8, <1>9, <1>10, <1>11

\* The settings of an operation besides the caller's options and the answer to
\* the prompt of pvresize.
Stated(c) == IF c.op = "ResizePhysicalVolume" THEN {} ELSE Intent(c)

LEMMA AlwaysMean == ASSUME NEW c, c.op \in DOMAIN Ops PROVE Means(Ops[c.op], Stated(c))
<1> DEFINE quiet ==
      {"RemoveLogicalVolume", "ChangeLogicalVolume", "ExtendLogicalVolume",
       "ResizeLogicalVolume", "RenameLogicalVolume", "DisplayLogicalVolume",
       "ScanLogicalVolumes", "CreateVolumeGroup", "RemoveVolumeGroup", "ExtendVolumeGroup",
       "ReduceVolumeGroup", "RenameVolumeGroup", "ChangeVolumeGroup", "CheckVolumeGroup",
       "DisplayVolumeGroup", "ScanVolumeGroups", "BackupVolumeGroupMetadata",
       "RestoreVolumeGroupMetadata", "ExportVolumeGroup", "ImportVolumeGroup",
       "MergeVolumeGroups", "SplitVolumeGroup", "MakeVolumeGroupNodes",
       "ImportClonedVolumeGroup", "ImportVolumeGroupDevices", "CreatePhysicalVolume",
       "RemovePhysicalVolume", "ChangePhysicalVolume", "ResizePhysicalVolume",
       "DisplayPhysicalVolume", "CheckPhysicalVolume", "GetVersion"}
<1>1. CASE c.op \in quiet
  <2>1. Ops[c.op].always = {}
    BY <1>1, OpsRows DEF Metadata, Query, QueryAny, QueryAll, Selected, Operation,
      RemoveLogicalVolume, ChangeLogicalVolume, ExtendLogicalVolume, ResizeLogicalVolume,
      RenameLogicalVolume, DisplayLogicalVolume, ScanLogicalVolumes, CreateVolumeGroup,
      RemoveVolumeGroup, ExtendVolumeGroup, ReduceVolumeGroup, RenameVolumeGroup,
      ChangeVolumeGroup, CheckVolumeGroup, DisplayVolumeGroup, ScanVolumeGroups,
      BackupVolumeGroupMetadata, RestoreVolumeGroupMetadata, ExportVolumeGroup,
      ImportVolumeGroup, MergeVolumeGroups, SplitVolumeGroup, MakeVolumeGroupNodes,
      ImportClonedVolumeGroup, ImportVolumeGroupDevices, CreatePhysicalVolume,
      RemovePhysicalVolume, ChangePhysicalVolume, ResizePhysicalVolume, DisplayPhysicalVolume,
      CheckPhysicalVolume, GetVersion
  <2>2. Stated(c) = {}
    BY <1>1 DEF Stated, Intent, Lists
  <2>3. QED
    BY <2>1, <2>2 DEF Means
<1>2. CASE c.op = "CreateLogicalVolume"
  <2>1. Stated(c) = {<<"name", "name">>, <<"sizeBytes", "sizeBytes">>}
    BY <1>2 DEF Stated, Intent, Lists
  <2>2. /\ Ops[c.op].always = {<<"-n", "name">>, <<"-L", "sizeBytes">>}
        /\ Ops[c.op].sub = "lvcreate"
    BY <1>2, OpsRows DEF CreateLogicalVolume, Named, Metadata, Operation
  <2>3. QED
    BY <2>1, <2>2, SetsAlways DEF Means
<1>3. CASE c.op = "CreateThinPool"
  <2>1. Stated(c) = {<<"name", "name">>, <<"sizeBytes", "sizeBytes">>, <<"type", "thin-pool">>}
    BY <1>3 DEF Stated, Intent, Lists
  <2>2. /\ Ops[c.op].always = {<<"-n", "name">>, <<"--type", "thin-pool">>, <<"-L", "sizeBytes">>}
        /\ Ops[c.op].sub = "lvcreate"
    BY <1>3, OpsRows DEF CreateThinPool, Named, Metadata, Operation
  <2>3. QED
    BY <2>1, <2>2, SetsAlways DEF Means
<1>4. CASE c.op = "CreateThinVolume"
  <2>1. Stated(c) = {<<"name", "name">>, <<"virtualSizeBytes", "virtualSizeBytes">>, <<"type", "thin">>, <<"Pool", "pool">>}
    BY <1>4 DEF Stated, Intent, Lists
  <2>2. /\ Ops[c.op].always = {<<"-n", "name">>, <<"--type", "thin">>, <<"--thinpool", "pool">>, <<"-V", "virtualSizeBytes">>}
        /\ Ops[c.op].sub = "lvcreate"
    BY <1>4, OpsRows DEF CreateThinVolume, Named, Metadata, Operation
  <2>3. QED
    BY <2>1, <2>2, SetsAlways DEF Means
<1>5. CASE c.op = "CreateSnapshot"
  <2>1. Stated(c) = {<<"name", "name">>, <<"sizeBytes", "sizeBytes">>, <<"snapshot", "set">>}
    BY <1>5 DEF Stated, Intent, Lists
  <2>2. /\ Ops[c.op].always = {<<"-n", "name">>, <<"-s", "set">>, <<"-L", "sizeBytes">>}
        /\ Ops[c.op].sub = "lvcreate"
    BY <1>5, OpsRows DEF CreateSnapshot, Named, Metadata, Operation
  <2>3. QED
    BY <2>1, <2>2, SetsAlways DEF Means
<1>6. CASE c.op = "CreateThinSnapshot"
  <2>1. Stated(c) = {<<"name", "name">>, <<"snapshot", "set">>}
    BY <1>6 DEF Stated, Intent, Lists
  <2>2. /\ Ops[c.op].always = {<<"-n", "name">>, <<"-s", "set">>}
        /\ Ops[c.op].sub = "lvcreate"
    BY <1>6, OpsRows DEF CreateThinSnapshot, Named, Metadata, Operation
  <2>3. QED
    BY <2>1, <2>2, SetsAlways DEF Means
<1>7. CASE c.op \in {"ActivateLogicalVolume", "ActivateVolumeGroup"}
  <2>1. Stated(c) = {<<"Activate", "true">>}
    BY <1>7 DEF Stated, Intent, Lists
  <2>2. /\ Ops[c.op].always = {<<"-a", "y">>}
        /\ Ops[c.op].sub \in {"lvchange", "vgchange"}
    BY <1>7, OpsRows DEF ActivateLogicalVolume, ActivateVolumeGroup, Selected, Operation
  <2>3. QED
    BY <2>1, <2>2, SetsAlways DEF Means
<1>8. CASE c.op \in {"DeactivateLogicalVolume", "DeactivateVolumeGroup"}
  <2>1. Stated(c) = {<<"Activate", "false">>}
    BY <1>8 DEF Stated, Intent, Lists
  <2>2. /\ Ops[c.op].always = {<<"-a", "n">>}
        /\ Ops[c.op].sub \in {"lvchange", "vgchange"}
    BY <1>8, OpsRows DEF DeactivateLogicalVolume, DeactivateVolumeGroup, Selected, Operation
  <2>3. QED
    BY <2>1, <2>2, SetsAlways DEF Means
<1>9. CASE c.op = "ExtendLogicalVolumeByPolicy"
  <2>1. Stated(c) = {<<"usepolicies", "set">>}
    BY <1>9 DEF Stated, Intent, Lists
  <2>2. /\ Ops[c.op].always = {<<"--usepolicies", "set">>}
        /\ Ops[c.op].sub = "lvextend"
    BY <1>9, OpsRows DEF ExtendLogicalVolumeByPolicy, Metadata, Operation
  <2>3. QED
    BY <2>1, <2>2, SetsAlways DEF Means
<1>10. CASE c.op = "ReduceLogicalVolume"
  <2>1. Stated(c) = {<<"Force", "true">>}
    BY <1>10 DEF Stated, Intent, Lists
  <2>2. /\ Ops[c.op].always = {<<"-f", "set">>}
        /\ Ops[c.op].sub = "lvreduce"
    BY <1>10, OpsRows DEF ReduceLogicalVolume, Metadata, Operation
  <2>3. QED
    BY <2>1, <2>2, SetsAlways DEF Means
<1>11. CASE c.op = "ListVolumeGroupMetadataBackups"
  <2>1. Stated(c) = {<<"list", "set">>}
    BY <1>11 DEF Stated, Intent, Lists
  <2>2. /\ Ops[c.op].always = {<<"-l", "set">>}
        /\ Ops[c.op].sub = "vgcfgrestore"
    BY <1>11, OpsRows DEF ListVolumeGroupMetadataBackups, Query, Operation
  <2>3. QED
    BY <2>1, <2>2, SetsAlways DEF Means
<1>12. CASE c.op = "ScanPhysicalVolumes"
  <2>1. Stated(c) = {<<"cache", "set">>}
    BY <1>12 DEF Stated, Intent, Lists
  <2>2. /\ Ops[c.op].always = {<<"--cache", "set">>}
        /\ Ops[c.op].sub = "pvscan"
    BY <1>12, OpsRows DEF ScanPhysicalVolumes, QueryAny, Operation
  <2>3. QED
    BY <2>1, <2>2, SetsAlways DEF Means
<1>13. CASE c.op = "DumpPhysicalVolume"
  <2>1. Stated(c) = {<<"dump", "kind">>}
    BY <1>13 DEF Stated, Intent, Lists
  <2>2. /\ Ops[c.op].always = {<<"--dump", "kind">>}
        /\ Ops[c.op].sub = "pvck"
    BY <1>13, OpsRows DEF DumpPhysicalVolume, Query, Operation
  <2>3. QED
    BY <2>1, <2>2, SetsAlways DEF Means
<1>14. CASE c.op \in {"ListLogicalVolumes", "ListVolumeGroups", "ListPhysicalVolumes"}
  <2>1. Stated(c) = {<<"format", "json">>, <<"units", "b">>, <<"nosuffix", "set">>, <<"binary", "set">>, <<"fields", "fields">>}
    BY <1>14 DEF Stated, Intent, Lists
  <2>2. /\ Ops[c.op].always = {<<"--reportformat", "json">>, <<"--units", "b">>, <<"--nosuffix", "set">>, <<"--binary", "set">>, <<"-o", "fields">>}
        /\ Ops[c.op].sub \in {"lvs", "vgs", "pvs"}
    BY <1>14, OpsRows DEF ListLogicalVolumes, ListVolumeGroups, ListPhysicalVolumes, Report, Operation
  <2>3. QED
    BY <2>1, <2>2, SetsAlways DEF Means
<1> HIDE DEF quiet
<1>15. QED
  <2>1. c.op \in quiet \/ c.op \in {"CreateLogicalVolume", "CreateThinPool", "CreateThinVolume",
                                  "CreateSnapshot", "CreateThinSnapshot",
                                  "ActivateLogicalVolume", "ActivateVolumeGroup",
                                  "DeactivateLogicalVolume", "DeactivateVolumeGroup",
                                  "ExtendLogicalVolumeByPolicy", "ReduceLogicalVolume",
                                  "ListVolumeGroupMetadataBackups", "ScanPhysicalVolumes",
                                  "DumpPhysicalVolume", "ListLogicalVolumes",
                                  "ListVolumeGroups", "ListPhysicalVolumes"}
    BY Names DEF quiet
  <2>2. QED
    BY <2>1, <1>1, <1>2, <1>3, <1>4, <1>5, <1>6, <1>7, <1>8, <1>9, <1>10, <1>11, <1>12, <1>13, <1>14

-----------------------------------------------------------------------------
\* The settings of a command line are those its caller asked for.

\* The settings some flags of a subcommand make.
Settings(sub, flags) == UNION {{<<o, Taken(o, a[2])>> : o \in Reads(sub, a[1])} : a \in flags}

LEMMA SettingsJoin ==
  ASSUME NEW sub, NEW A, NEW B
  PROVE  Settings(sub, A \cup B) = Settings(sub, A) \cup Settings(sub, B)
  BY DEF Settings

LEMMA SettingsNone == ASSUME NEW sub PROVE Settings(sub, {}) = {}
  BY DEF Settings

LEMMA SettingsOne ==
  ASSUME NEW sub, NEW f, NEW v, NEW o, Reads(sub, f) = {o}
  PROVE  Settings(sub, {<<f, v>>}) = {<<o, Taken(o, v)>>}
  BY DEF Settings

\* The flags that options are rendered to.
Flags(op, opts) == UNION {{<<f, Rendered(g[1], g[2])>> : f \in Image(op.flags, g[1])} : g \in opts}

\* The options a caller gives come back, whatever their number.
LEMMA OptionsBack ==
  ASSUME NEW op, Readable(op), NEW opts, Options(op, opts)
  PROVE  Settings(op.sub, Flags(op, opts)) = opts
<1> DEFINE flags == Flags(op, opts)
<1>1. ASSUME NEW o, NEW f \in Image(op.flags, o) PROVE Reads(op.sub, f) = {o}
  <2>1. PICK r \in op.flags : r[1] = o /\ r[2] = f
    BY <1>1 DEF Image
  <2>2. Says(op.sub, f, o)
    BY <2>1 DEF Readable
  <2>3. QED
    BY <2>2, ReadsOne DEF Readable
<1>2. \A a \in flags : \E g \in opts : \E f \in Image(op.flags, g[1]) : a = <<f, Rendered(g[1], g[2])>>
  BY DEF Flags
<1>3. \A g \in opts : \A f \in Image(op.flags, g[1]) : <<f, Rendered(g[1], g[2])>> \in flags
  BY DEF Flags
<1>4. \A g \in opts : Taken(g[1], Rendered(g[1], g[2])) = g[2] /\ g = <<g[1], g[2]>>
  BY TakenRendered DEF Options
<1> HIDE DEF flags
<1>5. \A x : x \in Settings(op.sub, flags) <=> \E a \in flags : \E o \in Reads(op.sub, a[1]) : x = <<o, Taken(o, a[2])>>
  BY DEF Settings
<1>6. ASSUME NEW x \in Settings(op.sub, flags) PROVE x \in opts
  <2>1. PICK a \in flags : \E o \in Reads(op.sub, a[1]) : x = <<o, Taken(o, a[2])>>
    BY <1>5, <1>6
  <2>2. PICK g \in opts : \E f \in Image(op.flags, g[1]) : a = <<f, Rendered(g[1], g[2])>>
    BY <1>2, <2>1
  <2>3. PICK f \in Image(op.flags, g[1]) : a = <<f, Rendered(g[1], g[2])>>
    BY <2>2
  <2>4. a[1] = f /\ a[2] = Rendered(g[1], g[2])
    BY <2>3
  <2>5. Reads(op.sub, f) = {g[1]}
    BY <1>1, <2>3
  <2>6. x = <<g[1], Taken(g[1], Rendered(g[1], g[2]))>>
    BY <2>1, <2>4, <2>5
  <2>7. QED
    BY <2>6, <1>4
<1>7. ASSUME NEW g \in opts PROVE g \in Settings(op.sub, flags)
  <2>1. PICK f : f \in Image(op.flags, g[1])
    BY <1>7 DEF Options, Column, Image
  <2>2. <<f, Rendered(g[1], g[2])>> \in flags
    BY <1>3, <1>7, <2>1
  <2>3. Reads(op.sub, f) = {g[1]}
    BY <1>1, <2>1
  <2>4. <<g[1], Taken(g[1], Rendered(g[1], g[2]))>> \in Settings(op.sub, flags)
    BY <1>5, <2>2, <2>3
  <2>5. QED
    BY <1>4, <1>7, <2>4
<1>8. QED
  BY <1>6, <1>7 DEF flags

\* The flags of every call make the settings the operation states.
LEMMA AlwaysBack ==
  ASSUME NEW op, Readable(op), NEW intent, Means(op, intent)
  PROVE  Settings(op.sub, {<<a[1], Rendered(a[2], a[2])>> : a \in op.always}) = intent
<1> DEFINE flags == {<<a[1], Rendered(a[2], a[2])>> : a \in op.always}
<1>1. \A x : x \in Settings(op.sub, flags) <=> \E b \in flags : \E o \in Reads(op.sub, b[1]) : x = <<o, Taken(o, b[2])>>
  BY DEF Settings
<1>2. ASSUME NEW a \in op.always, NEW i \in intent, Sets(op.sub, a, i)
      PROVE  /\ Reads(op.sub, a[1]) = {i[1]} /\ Taken(i[1], Rendered(a[2], a[2])) = i[2]
             /\ i = <<i[1], i[2]>>
  <2>1. Reads(op.sub, a[1]) = {i[1]}
    BY <1>2, ReadsOne DEF Sets, Readable
  <2>2. QED
    BY <1>2, <2>1 DEF Sets, Means
<1>3. \A b \in flags : \E a \in op.always : b = <<a[1], Rendered(a[2], a[2])>>
  OBVIOUS
<1>4. \A a \in op.always : <<a[1], Rendered(a[2], a[2])>> \in flags
  OBVIOUS
<1> HIDE DEF flags
<1>5. ASSUME NEW x \in Settings(op.sub, flags) PROVE x \in intent
  <2>1. PICK b \in flags : \E o \in Reads(op.sub, b[1]) : x = <<o, Taken(o, b[2])>>
    BY <1>1, <1>5
  <2>2. PICK a \in op.always : b = <<a[1], Rendered(a[2], a[2])>>
    BY <1>3, <2>1
  <2>3. PICK i \in intent : Sets(op.sub, a, i)
    BY <2>2 DEF Means
  <2>4. b[1] = a[1] /\ b[2] = Rendered(a[2], a[2])
    BY <2>2
  <2>5. x = <<i[1], i[2]>>
    BY <1>2, <2>1, <2>2, <2>3, <2>4
  <2>6. QED
    BY <1>2, <2>2, <2>3, <2>5
<1>6. ASSUME NEW i \in intent PROVE i \in Settings(op.sub, flags)
  <2>1. PICK a \in op.always : Sets(op.sub, a, i)
    BY <1>6 DEF Means
  <2>2. <<a[1], Rendered(a[2], a[2])>> \in flags
    BY <1>4, <2>1
  <2>3. <<i[1], Taken(i[1], Rendered(a[2], a[2]))>> \in Settings(op.sub, flags)
    BY <1>1, <1>2, <1>6, <2>1, <2>2
  <2>4. QED
    BY <1>2, <1>6, <2>1, <2>3
<1>7. QED
  BY <1>5, <1>6 DEF flags

\* A call as its operation can be given it.
Given(c) ==
  /\ c.op \in DOMAIN Ops /\ Options(Ops[c.op], c.opts)
  /\ c.target \in Targets(c.op) /\ c.size \in SizeChoices(c.op)
  /\ c.listed \in BOOLEAN /\ (c.listed => TakesDevices(c.op))

\* pvresize answers its prompt where a size is given.
LEMMA PromptBack ==
  ASSUME NEW c
  PROVE  Settings("pvresize", {<<"-y", Plain("set")>>}) = {<<"yes", "set">>}
<1>1. Says("pvresize", "-y", "yes") /\ Once(Own("pvresize"))
  BY OwnTables DEF Says, Once, Common
<1>2. Taken("yes", Plain("set")) = "set"
  <2>1. "yes" \notin Pointers /\ "yes" \notin Switches /\ "yes" \notin ByteOptions
    BY DEF Pointers, Switches, ByteOptions
  <2>2. \A arg : Taken("yes", arg) = arg.val
    BY <2>1 DEF Taken
  <2>3. QED
    BY <2>2 DEF Plain
<1>3. QED
  BY <1>1, <1>2, ReadsOne, SettingsOne

\* All is said with the all flag.
LEMMA AllBack ==
  ASSUME NEW op, Readable(op), op.all # "none"
  PROVE  Settings(op.sub, {<<op.all, Plain("set")>>}) = {<<"All", "true">>}
<1>1. Reads(op.sub, op.all) = {"All"}
  BY ReadsOne DEF Readable
<1>2. Taken("All", Plain("set")) = "true"
  <2>1. "All" \in Switches
    BY DEF Switches
  <2>2. QED
    BY <2>1, OptionKinds DEF Taken
<1>3. QED
  BY <1>1, <1>2, SettingsOne

LEMMA MeaningAsAsked ==
  ASSUME NEW c, Given(c)
  PROVE  SettingsAsAsked(c)
<1> DEFINE op == Ops[c.op]
           given == Flags(op, c.opts)
           prompt == IF c.op = "ResizePhysicalVolume" /\ c.opts # {} THEN {<<"-y", Plain("set")>>} ELSE {}
           all == IF c.target.kind = "all" /\ op.all # "none" THEN {<<"All", "true">>} ELSE {}
<1>1. Readable(op) /\ Means(op, Stated(c)) /\ Options(op, c.opts)
  BY AllReadable, AlwaysMean DEF Given
<1>2. Settings(op.sub, AlwaysFlags(c)) = Stated(c)
  BY <1>1, AlwaysBack DEF AlwaysFlags
<1>3. Settings(op.sub, given) = c.opts
  BY <1>1, OptionsBack
<1>4. Stated(c) \cup Settings(op.sub, prompt) = Intent(c)
  <2>1. CASE c.op = "ResizePhysicalVolume" /\ c.opts # {}
    <3>1. op.sub = "pvresize"
      BY <2>1, OpsRows DEF ResizePhysicalVolume, Metadata, Operation
    <3>2. Intent(c) = {<<"yes", "set">>}
      BY <2>1 DEF Intent, Lists
    <3>3. QED
      BY <2>1, <3>1, <3>2, PromptBack DEF Stated
  <2>2. CASE c.op = "ResizePhysicalVolume" /\ c.opts = {}
    <3>1. Intent(c) = {}
      BY <2>2 DEF Intent, Lists
    <3>2. QED
      BY <2>2, <3>1, SettingsNone DEF Stated
  <2>3. CASE c.op # "ResizePhysicalVolume"
    BY <2>3, SettingsNone DEF Stated
  <2>4. QED
    BY <2>1, <2>2, <2>3
<1>5. Settings(op.sub, TargetFlag(c)) = all
  BY <1>1, AllBack, SettingsNone DEF TargetFlag
<1>6. /\ Render(c).flags = (AlwaysFlags(c) \cup (given \cup prompt)) \cup TargetFlag(c)
      /\ Render(c).sub = op.sub
  BY DEF Render, OptionFlags, Flags
<1> HIDE DEF op, given, prompt, all
<1>7. Settings(op.sub, Render(c).flags) = (Stated(c) \cup (c.opts \cup Settings(op.sub, prompt))) \cup all
  <2>1. Settings(op.sub, given \cup prompt) = c.opts \cup Settings(op.sub, prompt)
    BY <1>3, SettingsJoin
  <2>2. Settings(op.sub, AlwaysFlags(c) \cup (given \cup prompt))
          = Stated(c) \cup Settings(op.sub, given \cup prompt)
    BY <1>2, SettingsJoin
  <2>3. Settings(op.sub, Render(c).flags)
          = Settings(op.sub, AlwaysFlags(c) \cup (given \cup prompt)) \cup all
    BY <1>5, <1>6, SettingsJoin
  <2>4. QED
    BY <2>1, <2>2, <2>3
<1>8. Meaning(Render(c)) = c.opts \cup Intent(c) \cup all
  <2>1. Meaning(Render(c)) = Settings(op.sub, Render(c).flags)
    BY <1>6 DEF Meaning, Settings
  <2>2. QED
    BY <1>4, <1>7, <2>1
<1>9. Render(c).backup = IF ~op.meta THEN "nil" ELSE IF c.autobackup # "nil" THEN c.autobackup
                         ELSE client.autobackup
  BY DEF Render, Backup, op
<1>10. QED
  BY <1>8, <1>9 DEF SettingsAsAsked, all, op

LEMMA TargetForms ==
  ASSUME NEW op \in DOMAIN Ops
  PROVE  Ops[op].target \in {"name", "optional", "none", "selector", "list", "report"}
  BY Names, OpsRows DEF Metadata, Query, QueryAny, QueryAll, Selected, Operation,
    CreateLogicalVolume, CreateThinPool, CreateThinVolume, CreateSnapshot, CreateThinSnapshot,
    RemoveLogicalVolume, ChangeLogicalVolume, ActivateLogicalVolume, DeactivateLogicalVolume,
    ExtendLogicalVolume, ExtendLogicalVolumeByPolicy, ReduceLogicalVolume, ResizeLogicalVolume,
    RenameLogicalVolume, DisplayLogicalVolume, ScanLogicalVolumes, ListLogicalVolumes,
    CreateVolumeGroup, ListVolumeGroups, RemoveVolumeGroup, ExtendVolumeGroup,
    ReduceVolumeGroup, RenameVolumeGroup, ChangeVolumeGroup, ActivateVolumeGroup,
    DeactivateVolumeGroup, CheckVolumeGroup, DisplayVolumeGroup, ScanVolumeGroups,
    BackupVolumeGroupMetadata, RestoreVolumeGroupMetadata, ListVolumeGroupMetadataBackups,
    ExportVolumeGroup, ImportVolumeGroup, MergeVolumeGroups, SplitVolumeGroup,
    MakeVolumeGroupNodes, ImportClonedVolumeGroup, ImportVolumeGroupDevices,
    CreatePhysicalVolume, ListPhysicalVolumes, RemovePhysicalVolume, ChangePhysicalVolume,
    ResizePhysicalVolume, DisplayPhysicalVolume, ScanPhysicalVolumes, CheckPhysicalVolume,
    DumpPhysicalVolume, GetVersion

\* The kinds of target of an operation, and what goes with a kind.
LEMMA TargetKinds ==
  ASSUME NEW op \in DOMAIN Ops, NEW t \in Targets(op)
  PROVE  /\ t.kind \in {"none", "name", "select", "both", "nil", "all"}
         /\ t.kind = "name" => \E d \in Devices : t.ds = {d}
         /\ Ops[op].target = "name" => t.kind = "name"
         /\ t.kind \in {"nil", "all"} => Ops[op].target = "selector"
         /\ Ops[op].target = "selector" => t.kind \in {"nil", "name", "select", "all"}
<1> DEFINE sets(kind) == CASE kind = "name" -> {{d} : d \in Devices}
                           [] kind \in {"select", "both"} -> SUBSET Devices
                           [] OTHER -> {{}}
<1>1. ASSUME NEW kinds, Targets(op) = UNION {{[kind |-> k, ds |-> ds] : ds \in sets(k)} : k \in kinds}
      PROVE  t.kind \in kinds /\ (t.kind = "name" => \E d \in Devices : t.ds = {d})
  <2>1. PICK k \in kinds : t \in {[kind |-> k, ds |-> ds] : ds \in sets(k)}
    BY <1>1
  <2>2. PICK ds \in sets(k) : t = [kind |-> k, ds |-> ds]
    BY <2>1
  <2>3. k = "name" => sets(k) = {{d} : d \in Devices}
    OBVIOUS
  <2> HIDE DEF sets
  <2>4. QED
    BY <2>1, <2>2, <2>3
<1>2. Ops[op].target \in {"name", "optional", "none", "selector", "list", "report"}
  BY TargetForms
<1>3. CASE Ops[op].target = "name"
  <2>1. Targets(op) = UNION {{[kind |-> k, ds |-> ds] : ds \in sets(k)} : k \in {"name"}}
    BY <1>3 DEF Targets
  <2>2. QED
    BY <1>1, <1>3, <2>1
<1>4. CASE Ops[op].target = "selector"
  <2>1. Targets(op) = UNION {{[kind |-> k, ds |-> ds] : ds \in sets(k)} : k \in {"nil", "name", "select", "all"}}
    BY <1>4 DEF Targets
  <2>2. QED
    BY <1>1, <1>4, <2>1
<1>5. CASE Ops[op].target \in {"optional", "none", "list", "report"}
  <2>1. \E kinds \in SUBSET {"none", "name", "select", "both"} :
          Targets(op) = UNION {{[kind |-> k, ds |-> ds] : ds \in sets(k)} : k \in kinds}
    BY <1>5 DEF Targets
  <2>2. QED
    BY <1>1, <1>5, <2>1
<1>6. QED
  BY <1>2, <1>3, <1>4, <1>5

\* A call that is not refused reaches what it addresses.
LEMMA ReachAsAsked ==
  ASSUME NEW c, Given(c), ~Refused(c)
  PROVE  OnlyTargets(c)
<1>1. /\ c.target.kind \in {"none", "name", "select", "both", "all"}
      /\ c.target.kind = "name" => \E d \in Devices : c.target.ds = {d}
  BY TargetKinds DEF Given, Refused, RefusesSelector
<1>2. /\ Render(c).scope = Scope(c) /\ Render(c).select = (c.target.kind \in {"select", "both"})
      /\ Render(c).objects = IF c.target.kind \in {"name", "select", "both"} THEN c.target.ds ELSE {}
  BY DEF Render
<1> DEFINE visible == IF Scope(c) = {} THEN Tracked ELSE Scope(c)
<1>3. CASE c.target.kind \in {"none", "all"}
  <2>1. Reach(Render(c)) = visible \cap Devices
    BY <1>2, <1>3 DEF Reach
  <2>2. QED
    BY <1>3, <2>1 DEF OnlyTargets, Scope
<1>4. CASE c.target.kind \in {"name", "select", "both"}
  <2>1. Render(c).objects = c.target.ds /\ ~(Render(c).objects = {} /\ ~Render(c).select)
    BY <1>1, <1>2, <1>4
  <2>2. Reach(Render(c)) = visible \cap c.target.ds
    BY <1>2, <2>1 DEF Reach
  <2>3. QED
    BY <1>4, <2>2 DEF OnlyTargets, Scope
<1>5. QED
  BY <1>1, <1>3, <1>4

-----------------------------------------------------------------------------
\* lvm accepts a call that is not refused.

\* The forms that have no device list and no all flag where the caller may want them.
Unformed(c) ==
  \/ c.op \in {"CreateVolumeGroup", "ExtendVolumeGroup", "ImportClonedVolumeGroup"} /\ ~c.listed
  \/ c.target.kind = "all" /\ Ops[c.op].sub \in {"lvremove", "lvchange"}

LEMMA Arities ==
  /\ \A sub \in {"vgcreate", "vgextend", "vgrename", "vgmerge"} : Arity(sub) = 2
  /\ Arity("lvrename") = 3
  /\ \A sub : sub \notin {"vgcreate", "vgextend", "vgrename", "vgmerge", "lvrename"} => Arity(sub) = 1
  BY DEF Arity

\* Every flag of a command line is one its subcommand knows.
LEMMA FlagsKnown ==
  ASSUME NEW c, Given(c)
  PROVE  \A a \in Render(c).flags : Reads(Render(c).sub, a[1]) # {}
<1> DEFINE op == Ops[c.op]
<1>1. Readable(op) /\ Means(op, Stated(c))
  BY AllReadable, AlwaysMean DEF Given
<1>2. Render(c).sub = op.sub /\ Render(c).flags = (AlwaysFlags(c) \cup OptionFlags(c)) \cup TargetFlag(c)
  BY DEF Render
<1>3. ASSUME NEW f, NEW o, Says(op.sub, f, o) PROVE Reads(op.sub, f) # {}
  BY <1>1, <1>3, ReadsOne DEF Readable
<1>4. ASSUME NEW a \in AlwaysFlags(c) PROVE Reads(op.sub, a[1]) # {}
  <2>1. PICK b \in op.always : a = <<b[1], Rendered(b[2], b[2])>>
    BY <1>4 DEF AlwaysFlags
  <2>2. PICK i \in Stated(c) : Says(op.sub, b[1], i[1])
    BY <1>1, <2>1 DEF Means, Sets
  <2>3. QED
    BY <1>3, <2>1, <2>2
<1>5. ASSUME NEW a \in OptionFlags(c) PROVE Reads(op.sub, a[1]) # {}
  <2>1. CASE a \in Flags(op, c.opts)
    <3>1. PICK g \in c.opts : \E f \in Image(op.flags, g[1]) : a = <<f, Rendered(g[1], g[2])>>
      BY <2>1 DEF Flags
    <3>2. PICK r \in op.flags : a = <<r[2], Rendered(g[1], g[2])>>
      BY <3>1 DEF Image
    <3>3. QED
      BY <1>1, <1>3, <3>2 DEF Readable
  <2>2. CASE c.op = "ResizePhysicalVolume" /\ a = <<"-y", Plain("set")>>
    <3>1. op.sub = "pvresize"
      BY <2>2, OpsRows DEF ResizePhysicalVolume, Metadata, Operation
    <3>2. Says("pvresize", "-y", "yes")
      BY OwnTables DEF Says, Common
    <3>3. QED
      BY <1>3, <2>2, <3>1, <3>2
  <2>3. QED
    BY <1>5, <2>1, <2>2 DEF OptionFlags, Flags
<1>6. ASSUME NEW a \in TargetFlag(c) PROVE Reads(op.sub, a[1]) # {}
  BY <1>1, <1>3, <1>6 DEF TargetFlag, Readable
<1>7. QED
  BY <1>2, <1>4, <1>5, <1>6

\* The positional arguments.
Arguments == {"vg", "vg/origin", "name", "oldName", "newName", "destination", "source", "device",
              "devices", "target"}

\* The operation's subcommand has the form its rows give it.
Formed(name, op) ==
  /\ op.meta \in BOOLEAN /\ (op.meta => op.sub \in ChangeMetadata)
  /\ op.target \notin {"name", "selector"} => op.sub \in MayOmit
  /\ op.target = "selector" => /\ op.sub \in MayOmit \/ op.sub \in {"lvremove", "lvchange"} \/ op.all # "none"
                               /\ op.sub \notin {"vgcreate", "vgextend", "vgrename", "vgmerge", "lvrename"}
  /\ op.sub \in {"lvchange", "vgchange", "pvchange"} =>
       \/ name \in Changes /\ \A r \in op.flags : r[1] # "All"
       \/ name \in {"ActivateLogicalVolume", "DeactivateLogicalVolume", "ActivateVolumeGroup",
                   "DeactivateVolumeGroup"}
  /\ op.sub = "vgreduce" <=> name = "ReduceVolumeGroup"
  /\ op.sub = "vgsplit" <=> name = "SplitVolumeGroup"
  /\ op.sub = "lvextend" <=> name \in {"ExtendLogicalVolume", "ExtendLogicalVolumeByPolicy"}
  /\ op.sub = "lvreduce" <=> name = "ReduceLogicalVolume"

\* It has the arguments its subcommand wants, but for one device.
Argued(name, op) ==
  /\ op.args \in Seq(Arguments)
  /\ op.target = "name" =>
       Len(op.args) + (IF name \in {"CreateVolumeGroup", "ExtendVolumeGroup", "ImportClonedVolumeGroup"}
                        THEN 1 ELSE 0) >= Arity(op.sub)
  /\ name = "ReduceVolumeGroup" => Len(op.args) = 1 /\ op.target = "name"
  /\ name = "SplitVolumeGroup" => Len(op.args) = 2 /\ op.target = "name"

LEMMA LVFormed ==
  /\ Formed("CreateLogicalVolume", CreateLogicalVolume)
  /\ Formed("CreateThinPool", CreateThinPool) /\ Formed("CreateThinVolume", CreateThinVolume)
  /\ Formed("CreateSnapshot", CreateSnapshot)
  /\ Formed("CreateThinSnapshot", CreateThinSnapshot)
  /\ Formed("RemoveLogicalVolume", RemoveLogicalVolume)
  /\ Formed("ChangeLogicalVolume", ChangeLogicalVolume)
  /\ Formed("ActivateLogicalVolume", ActivateLogicalVolume)
  /\ Formed("DeactivateLogicalVolume", DeactivateLogicalVolume)
  /\ Formed("ExtendLogicalVolume", ExtendLogicalVolume)
  /\ Formed("ExtendLogicalVolumeByPolicy", ExtendLogicalVolumeByPolicy)
  /\ Formed("ReduceLogicalVolume", ReduceLogicalVolume)
  /\ Formed("ResizeLogicalVolume", ResizeLogicalVolume)
  /\ Formed("RenameLogicalVolume", RenameLogicalVolume)
  /\ Formed("DisplayLogicalVolume", DisplayLogicalVolume)
  /\ Formed("ScanLogicalVolumes", ScanLogicalVolumes)
  /\ Formed("ListLogicalVolumes", ListLogicalVolumes)
<1> USE DEF Formed, ChangeMetadata, MayOmit, Changes,
      Metadata, Query, QueryAny, QueryAll, Selected, Operation
<1>1. /\ Formed("CreateLogicalVolume", CreateLogicalVolume)
      /\ Formed("CreateThinPool", CreateThinPool)
      /\ Formed("CreateThinVolume", CreateThinVolume)
      /\ Formed("CreateSnapshot", CreateSnapshot)
  BY DEF CreateLogicalVolume, CreateThinPool, CreateThinVolume, CreateSnapshot
<1>2. /\ Formed("CreateThinSnapshot", CreateThinSnapshot)
      /\ Formed("RemoveLogicalVolume", RemoveLogicalVolume)
      /\ Formed("ChangeLogicalVolume", ChangeLogicalVolume)
      /\ Formed("ActivateLogicalVolume", ActivateLogicalVolume)
  BY DEF CreateThinSnapshot, RemoveLogicalVolume, ChangeLogicalVolume, ActivateLogicalVolume
<1>3. /\ Formed("DeactivateLogicalVolume", DeactivateLogicalVolume)
      /\ Formed("ExtendLogicalVolume", ExtendLogicalVolume)
      /\ Formed("ExtendLogicalVolumeByPolicy", ExtendLogicalVolumeByPolicy)
      /\ Formed("ReduceLogicalVolume", ReduceLogicalVolume)
  BY DEF DeactivateLogicalVolume, ExtendLogicalVolume, ExtendLogicalVolumeByPolicy, ReduceLogicalVolume
<1>4. /\ Formed("ResizeLogicalVolume", ResizeLogicalVolume)
      /\ Formed("RenameLogicalVolume", RenameLogicalVolume)
      /\ Formed("DisplayLogicalVolume", DisplayLogicalVolume)
      /\ Formed("ScanLogicalVolumes", ScanLogicalVolumes)
  BY DEF ResizeLogicalVolume, RenameLogicalVolume, DisplayLogicalVolume, ScanLogicalVolumes
<1>5. /\ Formed("ListLogicalVolumes", ListLogicalVolumes)
  BY DEF ListLogicalVolumes
<1> HIDE DEF Formed
<1>6. QED
  BY <1>1, <1>2, <1>3, <1>4, <1>5

LEMMA LVArgued ==
  /\ Argued("CreateLogicalVolume", CreateLogicalVolume)
  /\ Argued("CreateThinPool", CreateThinPool) /\ Argued("CreateThinVolume", CreateThinVolume)
  /\ Argued("CreateSnapshot", CreateSnapshot)
  /\ Argued("CreateThinSnapshot", CreateThinSnapshot)
  /\ Argued("RemoveLogicalVolume", RemoveLogicalVolume)
  /\ Argued("ChangeLogicalVolume", ChangeLogicalVolume)
  /\ Argued("ActivateLogicalVolume", ActivateLogicalVolume)
  /\ Argued("DeactivateLogicalVolume", DeactivateLogicalVolume)
  /\ Argued("ExtendLogicalVolume", ExtendLogicalVolume)
  /\ Argued("ExtendLogicalVolumeByPolicy", ExtendLogicalVolumeByPolicy)
  /\ Argued("ReduceLogicalVolume", ReduceLogicalVolume)
  /\ Argued("ResizeLogicalVolume", ResizeLogicalVolume)
  /\ Argued("RenameLogicalVolume", RenameLogicalVolume)
  /\ Argued("DisplayLogicalVolume", DisplayLogicalVolume)
  /\ Argued("ScanLogicalVolumes", ScanLogicalVolumes)
  /\ Argued("ListLogicalVolumes", ListLogicalVolumes)
<1> USE Arities DEF Argued, Arguments,
      Metadata, Query, QueryAny, QueryAll, Selected, Operation
<1>1. /\ Argued("CreateLogicalVolume", CreateLogicalVolume)
      /\ Argued("CreateThinPool", CreateThinPool)
      /\ Argued("CreateThinVolume", CreateThinVolume)
      /\ Argued("CreateSnapshot", CreateSnapshot)
  BY DEF CreateLogicalVolume, CreateThinPool, CreateThinVolume, CreateSnapshot
<1>2. /\ Argued("CreateThinSnapshot", CreateThinSnapshot)
      /\ Argued("RemoveLogicalVolume", RemoveLogicalVolume)
      /\ Argued("ChangeLogicalVolume", ChangeLogicalVolume)
      /\ Argued("ActivateLogicalVolume", ActivateLogicalVolume)
  BY DEF CreateThinSnapshot, RemoveLogicalVolume, ChangeLogicalVolume, ActivateLogicalVolume
<1>3. /\ Argued("DeactivateLogicalVolume", DeactivateLogicalVolume)
      /\ Argued("ExtendLogicalVolume", ExtendLogicalVolume)
      /\ Argued("ExtendLogicalVolumeByPolicy", ExtendLogicalVolumeByPolicy)
      /\ Argued("ReduceLogicalVolume", ReduceLogicalVolume)
  BY DEF DeactivateLogicalVolume, ExtendLogicalVolume, ExtendLogicalVolumeByPolicy, ReduceLogicalVolume
<1>4. /\ Argued("ResizeLogicalVolume", ResizeLogicalVolume)
      /\ Argued("RenameLogicalVolume", RenameLogicalVolume)
      /\ Argued("DisplayLogicalVolume", DisplayLogicalVolume)
      /\ Argued("ScanLogicalVolumes", ScanLogicalVolumes)
  BY DEF ResizeLogicalVolume, RenameLogicalVolume, DisplayLogicalVolume, ScanLogicalVolumes
<1>5. /\ Argued("ListLogicalVolumes", ListLogicalVolumes)
  BY DEF ListLogicalVolumes
<1> HIDE DEF Argued
<1>6. QED
  BY <1>1, <1>2, <1>3, <1>4, <1>5

LEMMA VGFormed ==
  /\ Formed("CreateVolumeGroup", CreateVolumeGroup)
  /\ Formed("ListVolumeGroups", ListVolumeGroups)
  /\ Formed("RemoveVolumeGroup", RemoveVolumeGroup)
  /\ Formed("ExtendVolumeGroup", ExtendVolumeGroup)
  /\ Formed("ReduceVolumeGroup", ReduceVolumeGroup)
  /\ Formed("RenameVolumeGroup", RenameVolumeGroup)
  /\ Formed("ChangeVolumeGroup", ChangeVolumeGroup)
  /\ Formed("ActivateVolumeGroup", ActivateVolumeGroup)
  /\ Formed("DeactivateVolumeGroup", DeactivateVolumeGroup)
  /\ Formed("CheckVolumeGroup", CheckVolumeGroup)
  /\ Formed("DisplayVolumeGroup", DisplayVolumeGroup)
  /\ Formed("ScanVolumeGroups", ScanVolumeGroups)
  /\ Formed("BackupVolumeGroupMetadata", BackupVolumeGroupMetadata)
  /\ Formed("RestoreVolumeGroupMetadata", RestoreVolumeGroupMetadata)
  /\ Formed("ListVolumeGroupMetadataBackups", ListVolumeGroupMetadataBackups)
  /\ Formed("ExportVolumeGroup", ExportVolumeGroup)
  /\ Formed("ImportVolumeGroup", ImportVolumeGroup)
  /\ Formed("MergeVolumeGroups", MergeVolumeGroups)
  /\ Formed("SplitVolumeGroup", SplitVolumeGroup)
  /\ Formed("MakeVolumeGroupNodes", MakeVolumeGroupNodes)
  /\ Formed("ImportClonedVolumeGroup", ImportClonedVolumeGroup)
  /\ Formed("ImportVolumeGroupDevices", ImportVolumeGroupDevices)
<1> USE DEF Formed, ChangeMetadata, MayOmit, Changes,
      Metadata, Query, QueryAny, QueryAll, Selected, Operation
<1>1. /\ Formed("CreateVolumeGroup", CreateVolumeGroup)
      /\ Formed("ListVolumeGroups", ListVolumeGroups)
      /\ Formed("RemoveVolumeGroup", RemoveVolumeGroup)
      /\ Formed("ExtendVolumeGroup", ExtendVolumeGroup)
  BY DEF CreateVolumeGroup, ListVolumeGroups, RemoveVolumeGroup, ExtendVolumeGroup
<1>2. /\ Formed("ReduceVolumeGroup", ReduceVolumeGroup)
      /\ Formed("RenameVolumeGroup", RenameVolumeGroup)
      /\ Formed("ChangeVolumeGroup", ChangeVolumeGroup)
      /\ Formed("ActivateVolumeGroup", ActivateVolumeGroup)
  BY DEF ReduceVolumeGroup, RenameVolumeGroup, ChangeVolumeGroup, ActivateVolumeGroup
<1>3. /\ Formed("DeactivateVolumeGroup", DeactivateVolumeGroup)
      /\ Formed("CheckVolumeGroup", CheckVolumeGroup)
      /\ Formed("DisplayVolumeGroup", DisplayVolumeGroup)
      /\ Formed("ScanVolumeGroups", ScanVolumeGroups)
  BY DEF DeactivateVolumeGroup, CheckVolumeGroup, DisplayVolumeGroup, ScanVolumeGroups
<1>4. /\ Formed("BackupVolumeGroupMetadata", BackupVolumeGroupMetadata)
      /\ Formed("RestoreVolumeGroupMetadata", RestoreVolumeGroupMetadata)
      /\ Formed("ListVolumeGroupMetadataBackups", ListVolumeGroupMetadataBackups)
      /\ Formed("ExportVolumeGroup", ExportVolumeGroup)
  BY DEF BackupVolumeGroupMetadata, RestoreVolumeGroupMetadata, ListVolumeGroupMetadataBackups, ExportVolumeGroup
<1>5. /\ Formed("ImportVolumeGroup", ImportVolumeGroup)
      /\ Formed("MergeVolumeGroups", MergeVolumeGroups)
      /\ Formed("SplitVolumeGroup", SplitVolumeGroup)
      /\ Formed("MakeVolumeGroupNodes", MakeVolumeGroupNodes)
  BY DEF ImportVolumeGroup, MergeVolumeGroups, SplitVolumeGroup, MakeVolumeGroupNodes
<1>6. /\ Formed("ImportClonedVolumeGroup", ImportClonedVolumeGroup)
      /\ Formed("ImportVolumeGroupDevices", ImportVolumeGroupDevices)
  BY DEF ImportClonedVolumeGroup, ImportVolumeGroupDevices
<1> HIDE DEF Formed
<1>7. QED
  BY <1>1, <1>2, <1>3, <1>4, <1>5, <1>6

LEMMA VGArgued ==
  /\ Argued("CreateVolumeGroup", CreateVolumeGroup)
  /\ Argued("ListVolumeGroups", ListVolumeGroups)
  /\ Argued("RemoveVolumeGroup", RemoveVolumeGroup)
  /\ Argued("ExtendVolumeGroup", ExtendVolumeGroup)
  /\ Argued("ReduceVolumeGroup", ReduceVolumeGroup)
  /\ Argued("RenameVolumeGroup", RenameVolumeGroup)
  /\ Argued("ChangeVolumeGroup", ChangeVolumeGroup)
  /\ Argued("ActivateVolumeGroup", ActivateVolumeGroup)
  /\ Argued("DeactivateVolumeGroup", DeactivateVolumeGroup)
  /\ Argued("CheckVolumeGroup", CheckVolumeGroup)
  /\ Argued("DisplayVolumeGroup", DisplayVolumeGroup)
  /\ Argued("ScanVolumeGroups", ScanVolumeGroups)
  /\ Argued("BackupVolumeGroupMetadata", BackupVolumeGroupMetadata)
  /\ Argued("RestoreVolumeGroupMetadata", RestoreVolumeGroupMetadata)
  /\ Argued("ListVolumeGroupMetadataBackups", ListVolumeGroupMetadataBackups)
  /\ Argued("ExportVolumeGroup", ExportVolumeGroup)
  /\ Argued("ImportVolumeGroup", ImportVolumeGroup)
  /\ Argued("MergeVolumeGroups", MergeVolumeGroups)
  /\ Argued("SplitVolumeGroup", SplitVolumeGroup)
  /\ Argued("MakeVolumeGroupNodes", MakeVolumeGroupNodes)
  /\ Argued("ImportClonedVolumeGroup", ImportClonedVolumeGroup)
  /\ Argued("ImportVolumeGroupDevices", ImportVolumeGroupDevices)
<1> USE Arities DEF Argued, Arguments,
      Metadata, Query, QueryAny, QueryAll, Selected, Operation
<1>1. /\ Argued("CreateVolumeGroup", CreateVolumeGroup)
      /\ Argued("ListVolumeGroups", ListVolumeGroups)
      /\ Argued("RemoveVolumeGroup", RemoveVolumeGroup)
      /\ Argued("ExtendVolumeGroup", ExtendVolumeGroup)
  BY DEF CreateVolumeGroup, ListVolumeGroups, RemoveVolumeGroup, ExtendVolumeGroup
<1>2. /\ Argued("ReduceVolumeGroup", ReduceVolumeGroup)
      /\ Argued("RenameVolumeGroup", RenameVolumeGroup)
      /\ Argued("ChangeVolumeGroup", ChangeVolumeGroup)
      /\ Argued("ActivateVolumeGroup", ActivateVolumeGroup)
  BY DEF ReduceVolumeGroup, RenameVolumeGroup, ChangeVolumeGroup, ActivateVolumeGroup
<1>3. /\ Argued("DeactivateVolumeGroup", DeactivateVolumeGroup)
      /\ Argued("CheckVolumeGroup", CheckVolumeGroup)
      /\ Argued("DisplayVolumeGroup", DisplayVolumeGroup)
      /\ Argued("ScanVolumeGroups", ScanVolumeGroups)
  BY DEF DeactivateVolumeGroup, CheckVolumeGroup, DisplayVolumeGroup, ScanVolumeGroups
<1>4. /\ Argued("BackupVolumeGroupMetadata", BackupVolumeGroupMetadata)
      /\ Argued("RestoreVolumeGroupMetadata", RestoreVolumeGroupMetadata)
      /\ Argued("ListVolumeGroupMetadataBackups", ListVolumeGroupMetadataBackups)
      /\ Argued("ExportVolumeGroup", ExportVolumeGroup)
  BY DEF BackupVolumeGroupMetadata, RestoreVolumeGroupMetadata, ListVolumeGroupMetadataBackups, ExportVolumeGroup
<1>5. /\ Argued("ImportVolumeGroup", ImportVolumeGroup)
      /\ Argued("MergeVolumeGroups", MergeVolumeGroups)
      /\ Argued("SplitVolumeGroup", SplitVolumeGroup)
      /\ Argued("MakeVolumeGroupNodes", MakeVolumeGroupNodes)
  BY DEF ImportVolumeGroup, MergeVolumeGroups, SplitVolumeGroup, MakeVolumeGroupNodes
<1>6. /\ Argued("ImportClonedVolumeGroup", ImportClonedVolumeGroup)
      /\ Argued("ImportVolumeGroupDevices", ImportVolumeGroupDevices)
  BY DEF ImportClonedVolumeGroup, ImportVolumeGroupDevices
<1> HIDE DEF Argued
<1>7. QED
  BY <1>1, <1>2, <1>3, <1>4, <1>5, <1>6

LEMMA PVFormed ==
  /\ Formed("CreatePhysicalVolume", CreatePhysicalVolume)
  /\ Formed("ListPhysicalVolumes", ListPhysicalVolumes)
  /\ Formed("RemovePhysicalVolume", RemovePhysicalVolume)
  /\ Formed("ChangePhysicalVolume", ChangePhysicalVolume)
  /\ Formed("ResizePhysicalVolume", ResizePhysicalVolume)
  /\ Formed("DisplayPhysicalVolume", DisplayPhysicalVolume)
  /\ Formed("ScanPhysicalVolumes", ScanPhysicalVolumes)
  /\ Formed("CheckPhysicalVolume", CheckPhysicalVolume)
  /\ Formed("DumpPhysicalVolume", DumpPhysicalVolume) /\ Formed("GetVersion", GetVersion)
<1> USE DEF Formed, ChangeMetadata, MayOmit, Changes,
      Metadata, Query, QueryAny, QueryAll, Selected, Operation
<1>1. /\ Formed("CreatePhysicalVolume", CreatePhysicalVolume)
      /\ Formed("ListPhysicalVolumes", ListPhysicalVolumes)
      /\ Formed("RemovePhysicalVolume", RemovePhysicalVolume)
      /\ Formed("ChangePhysicalVolume", ChangePhysicalVolume)
  BY DEF CreatePhysicalVolume, ListPhysicalVolumes, RemovePhysicalVolume, ChangePhysicalVolume
<1>2. /\ Formed("ResizePhysicalVolume", ResizePhysicalVolume)
      /\ Formed("DisplayPhysicalVolume", DisplayPhysicalVolume)
      /\ Formed("ScanPhysicalVolumes", ScanPhysicalVolumes)
      /\ Formed("CheckPhysicalVolume", CheckPhysicalVolume)
  BY DEF ResizePhysicalVolume, DisplayPhysicalVolume, ScanPhysicalVolumes, CheckPhysicalVolume
<1>3. /\ Formed("DumpPhysicalVolume", DumpPhysicalVolume) /\ Formed("GetVersion", GetVersion)
  BY DEF DumpPhysicalVolume, GetVersion
<1> HIDE DEF Formed
<1>4. QED
  BY <1>1, <1>2, <1>3

LEMMA PVArgued ==
  /\ Argued("CreatePhysicalVolume", CreatePhysicalVolume)
  /\ Argued("ListPhysicalVolumes", ListPhysicalVolumes)
  /\ Argued("RemovePhysicalVolume", RemovePhysicalVolume)
  /\ Argued("ChangePhysicalVolume", ChangePhysicalVolume)
  /\ Argued("ResizePhysicalVolume", ResizePhysicalVolume)
  /\ Argued("DisplayPhysicalVolume", DisplayPhysicalVolume)
  /\ Argued("ScanPhysicalVolumes", ScanPhysicalVolumes)
  /\ Argued("CheckPhysicalVolume", CheckPhysicalVolume)
  /\ Argued("DumpPhysicalVolume", DumpPhysicalVolume) /\ Argued("GetVersion", GetVersion)
<1> USE Arities DEF Argued, Arguments,
      Metadata, Query, QueryAny, QueryAll, Selected, Operation
<1>1. /\ Argued("CreatePhysicalVolume", CreatePhysicalVolume)
      /\ Argued("ListPhysicalVolumes", ListPhysicalVolumes)
      /\ Argued("RemovePhysicalVolume", RemovePhysicalVolume)
      /\ Argued("ChangePhysicalVolume", ChangePhysicalVolume)
  BY DEF CreatePhysicalVolume, ListPhysicalVolumes, RemovePhysicalVolume, ChangePhysicalVolume
<1>2. /\ Argued("ResizePhysicalVolume", ResizePhysicalVolume)
      /\ Argued("DisplayPhysicalVolume", DisplayPhysicalVolume)
      /\ Argued("ScanPhysicalVolumes", ScanPhysicalVolumes)
      /\ Argued("CheckPhysicalVolume", CheckPhysicalVolume)
  BY DEF ResizePhysicalVolume, DisplayPhysicalVolume, ScanPhysicalVolumes, CheckPhysicalVolume
<1>3. /\ Argued("DumpPhysicalVolume", DumpPhysicalVolume) /\ Argued("GetVersion", GetVersion)
  BY DEF DumpPhysicalVolume, GetVersion
<1> HIDE DEF Argued
<1>4. QED
  BY <1>1, <1>2, <1>3

LEMMA AllFormed ==
  ASSUME NEW op \in DOMAIN Ops
  PROVE  Formed(op, Ops[op]) /\ Argued(op, Ops[op])
<1>1. Formed(op, Ops[op])
  BY Names, OpsRows, LVFormed, VGFormed, PVFormed
<1>2. Argued(op, Ops[op])
  BY Names, OpsRows, LVArgued, VGArgued, PVArgued
<1>3. QED
  BY <1>1, <1>2

LEMMA CountNat ==
  ASSUME NEW S PROVE Cardinality({"RemoveUnused", "RemoveMissing"} \cap S) \in Nat
<1>1. IsFiniteSet({"RemoveUnused", "RemoveMissing"})
  <2>1. IsFiniteSet({"RemoveUnused"})
    BY FS_Singleton
  <2>2. {"RemoveUnused", "RemoveMissing"} = {"RemoveUnused"} \cup {"RemoveMissing"}
    OBVIOUS
  <2>3. QED
    BY <2>1, <2>2, FS_AddElement
<1>2. IsFiniteSet({"RemoveUnused", "RemoveMissing"} \cap S)
  BY <1>1, FS_Intersection
<1>3. QED
  BY <1>2, FS_CardinalityType

LEMMA CountOne ==
  ASSUME NEW S PROVE Cardinality({"LVName"} \cap S) = IF "LVName" \in S THEN 1 ELSE 0
<1>1. CASE "LVName" \in S
  <2>1. {"LVName"} \cap S = {"LVName"}
    BY <1>1
  <2>2. QED
    BY <1>1, <2>1, FS_Singleton
<1>2. CASE "LVName" \notin S
  <2>1. {"LVName"} \cap S = {}
    BY <1>2
  <2>2. QED
    BY <1>2, <2>1, FS_EmptySet
<1>3. QED
  BY <1>1, <1>2

\* The number of positional arguments of a command line.
LEMMA ArgsLength ==
  ASSUME NEW c, c.op \in DOMAIN Ops
  PROVE  LET n == Len(Render(c).args)
             row == Ops[c.op]
         IN  /\ Len(row.args) \in Nat /\ n \in Nat
             /\ row.target = "name" /\ c.listed => n = Len(row.args) + 1
             /\ row.target = "name" /\ ~c.listed => n = Len(row.args)
             /\ row.target # "name" /\ c.target.kind = "name" => n >= 1
<1> DEFINE args == Ops[c.op].args
           devices == IF c.listed THEN <<"devices">> ELSE <<>>
           named == Ops[c.op].target # "name" /\ c.target.kind \in {"name", "both"}
           target == IF named THEN <<"target">> ELSE <<>>
<1>1. args \in Seq(Arguments)
  BY AllFormed DEF Argued
<1>2. /\ <<"devices">> \in Seq(Arguments) /\ <<"target">> \in Seq(Arguments) /\ <<>> \in Seq(Arguments)
      /\ Len(<<"devices">>) = 1 /\ Len(<<"target">>) = 1 /\ Len(<<>>) = 0
  BY DEF Arguments
<1>3. devices \in Seq(Arguments) /\ (c.listed => Len(devices) = 1) /\ (~c.listed => Len(devices) = 0)
  <2>1. CASE c.listed
    BY <1>2, <2>1
  <2>2. CASE ~c.listed
    BY <1>2, <2>2
  <2>3. QED
    BY <2>1, <2>2
<1>4. target \in Seq(Arguments) /\ (named => Len(target) = 1) /\ (~named => Len(target) = 0)
  <2>1. CASE named
    BY <1>2, <2>1
  <2>2. CASE ~named
    BY <1>2, <2>2
  <2>3. QED
    BY <2>1, <2>2
<1>5. Render(c).args = (args \o devices) \o target
  BY DEF Render
<1> HIDE DEF args, devices, target
<1>6. args \o devices \in Seq(Arguments) /\ Len(args \o devices) = Len(args) + Len(devices)
  BY <1>1, <1>3, ConcatProperties
<1>7. Len((args \o devices) \o target) = Len(args \o devices) + Len(target)
  BY <1>4, <1>6, ConcatProperties
<1>8. Len(args) \in Nat /\ Len(devices) \in Nat /\ Len(target) \in Nat
  BY <1>1, <1>3, <1>4, LenProperties
<1>9. \A k, m, l \in Nat : /\ (k + m) + l \in Nat /\ (l = 1 => (k + m) + l >= 1)
                           /\ (m = 1 /\ l = 0 => (k + m) + l = k + 1)
                           /\ (m = 0 /\ l = 0 => (k + m) + l = k)
  OBVIOUS
<1>10. Len(Render(c).args) = (Len(args) + Len(devices)) + Len(target)
  BY <1>5, <1>6, <1>7
<1>11. /\ Len(Render(c).args) \in Nat /\ (named => Len(Render(c).args) >= 1)
       /\ (~named /\ c.listed => Len(Render(c).args) = Len(args) + 1)
       /\ (~named /\ ~c.listed => Len(Render(c).args) = Len(args))
  <2> HIDE DEF named
  <2>1. Len(Render(c).args) \in Nat
    BY <1>8, <1>9, <1>10
  <2>2. ASSUME named PROVE Len(Render(c).args) >= 1
    BY <1>4, <1>8, <1>9, <1>10, <2>2
  <2>3. ASSUME ~named, c.listed PROVE Len(Render(c).args) = Len(args) + 1
    <3>1. Len(devices) = 1 /\ Len(target) = 0
      BY <1>3, <1>4, <2>3
    <3>2. QED
      BY <1>8, <1>9, <1>10, <3>1
  <2>4. ASSUME ~named, ~c.listed PROVE Len(Render(c).args) = Len(args)
    <3>1. Len(devices) = 0 /\ Len(target) = 0
      BY <1>3, <1>4, <2>4
    <3>2. QED
      BY <1>8, <1>9, <1>10, <3>1
  <2>5. QED
    BY <2>1, <2>2, <2>3, <2>4
<1>12. QED
  BY <1>8, <1>11 DEF args

\* The options lvm sees are the caller's and the operation's own.
LEMMA SetOptions ==
  ASSUME NEW c, Given(c)
  PROVE  /\ Column(c.opts) \subseteq Column(Meaning(Render(c)))
         /\ Column(Intent(c)) \subseteq Column(Meaning(Render(c)))
         /\ c.target.kind = "all" /\ Ops[c.op].all # "none" => "All" \in Column(Meaning(Render(c)))
         /\ Column(Meaning(Render(c))) \subseteq Column(c.opts) \cup Column(Intent(c)) \cup {"All"}
<1> DEFINE all == IF c.target.kind = "all" /\ Ops[c.op].all # "none" THEN {<<"All", "true">>} ELSE {}
<1>1. Meaning(Render(c)) = c.opts \cup Intent(c) \cup all
  BY MeaningAsAsked DEF SettingsAsAsked
<1>2. Column(all) = IF c.target.kind = "all" /\ Ops[c.op].all # "none" THEN {"All"} ELSE {}
  <2>1. Column({<<"All", "true">>}) = {"All"} /\ Column({}) = {}
    BY DEF Column
  <2>2. QED
    BY <2>1
<1> HIDE DEF all
<1>3. Column(Meaning(Render(c))) = Column(c.opts) \cup Column(Intent(c)) \cup Column(all)
  BY <1>1 DEF Column
<1>4. QED
  BY <1>2, <1>3

\* The calls whose command lines lvm 2.03.16 rejects.
Newer(c) ==
  \/ c.op = "CreateThinPool" /\ "ErrorWhenFull" \in Column(c.opts)
  \/ c.op = "CreateThinVolume" /\ "SetAutoactivation" \in Column(c.opts)
  \/ c.op = "DumpPhysicalVolume" /\ Scope(c) # {}

\* Which operations state a type or a dump; none states the two options.
LEMMA IntentForms ==
  ASSUME NEW c, NEW i \in Intent(c)
  PROVE  /\ i[1] \notin {"ErrorWhenFull", "SetAutoactivation", "All"}
         /\ i = <<"type", "thin-pool">> => c.op = "CreateThinPool"
         /\ i = <<"type", "thin">> => c.op = "CreateThinVolume"
         /\ i[1] = "dump" => c.op = "DumpPhysicalVolume"
  BY DEF Intent, Lists

LEMMA OldForms ==
  ASSUME NEW c, Given(c), OldRejects(Render(c))
  PROVE  Newer(c)
<1> DEFINE all == IF c.target.kind = "all" /\ Ops[c.op].all # "none" THEN {<<"All", "true">>} ELSE {}
<1>1. Meaning(Render(c)) = c.opts \cup Intent(c) \cup all
  BY MeaningAsAsked DEF SettingsAsAsked
<1>2. ASSUME NEW g \in c.opts PROVE g[1] \notin {"type", "dump"}
  <2>1. g[1] \in Column(Ops[c.op].flags)
    BY <1>2 DEF Given, Options
  <2>2. QED
    BY <2>1, AllReadable DEF Given, Readable, Column
<1>3. \A g \in all : g[1] = "All"
  OBVIOUS
<1> HIDE DEF all
<1>4. ASSUME NEW g \in Meaning(Render(c)), g[1] \in {"type", "dump"} PROVE g \in Intent(c)
  BY <1>1, <1>2, <1>3, <1>4
<1>5. ASSUME NEW o \in {"ErrorWhenFull", "SetAutoactivation"}, o \in Column(Meaning(Render(c)))
      PROVE  o \in Column(c.opts)
  <2>1. PICK g \in Meaning(Render(c)) : g[1] = o
    BY <1>5 DEF Column
  <2>2. g \in c.opts
    BY <1>1, <1>3, <2>1, IntentForms
  <2>3. QED
    BY <2>1, <2>2 DEF Column
<1>6. Render(c).scope = Scope(c)
  BY DEF Render
<1>7. CASE <<"type", "thin-pool">> \in Meaning(Render(c)) /\ "ErrorWhenFull" \in Column(Meaning(Render(c)))
  <2>1. <<"type", "thin-pool">> \in Intent(c)
    BY <1>4, <1>7
  <2>2. QED
    BY <1>5, <1>7, <2>1, IntentForms DEF Newer
<1>8. CASE <<"type", "thin">> \in Meaning(Render(c)) /\ "SetAutoactivation" \in Column(Meaning(Render(c)))
  <2>1. <<"type", "thin">> \in Intent(c)
    BY <1>4, <1>8
  <2>2. QED
    BY <1>5, <1>8, <2>1, IntentForms DEF Newer
<1>9. CASE "dump" \in Column(Meaning(Render(c))) /\ Render(c).scope # {}
  <2>1. PICK g \in Meaning(Render(c)) : g[1] = "dump"
    BY <1>9 DEF Column
  <2>2. g \in Intent(c)
    BY <1>4, <2>1
  <2>3. QED
    BY <1>6, <1>9, <2>1, <2>2, IntentForms DEF Newer
<1>10. QED
  BY <1>7, <1>8, <1>9 DEF OldRejects

LEMMA Accepted ==
  ASSUME NEW c, Given(c), ~Refused(c), ~Unformed(c)
  PROVE  Parses(Render(c))
<1> DEFINE op == Ops[c.op]
           line == Render(c)
           set == Column(Meaning(line))
<1>1. /\ c.op \in DOMAIN Ops /\ Formed(c.op, op) /\ Argued(c.op, op)
      /\ Options(op, c.opts) /\ (c.listed => TakesDevices(c.op))
  BY AllFormed DEF Given
<1>2. /\ line.sub = op.sub /\ line.backup = (IF op.meta THEN Backup(c) ELSE "nil")
      /\ line.select = (c.target.kind \in {"select", "both"})
      /\ line.size = IF c.op \in Sized THEN {sizeArg(c.size)} ELSE {}
  BY DEF Render
<1>3. /\ Len(op.args) \in Nat /\ Len(line.args) \in Nat
      /\ op.target = "name" /\ c.listed => Len(line.args) = Len(op.args) + 1
      /\ op.target = "name" /\ ~c.listed => Len(line.args) = Len(op.args)
      /\ op.target # "name" /\ c.target.kind = "name" => Len(line.args) >= 1
  BY <1>1, ArgsLength
<1>4. /\ Column(c.opts) \subseteq set /\ Column(Intent(c)) \subseteq set
      /\ c.target.kind = "all" /\ op.all # "none" => "All" \in set
      /\ set \subseteq Column(c.opts) \cup Column(Intent(c)) \cup {"All"}
  BY SetOptions
<1>5. /\ c.target.kind # "nil" /\ (op.target = "name" => c.target.kind = "name")
      /\ op.target = "selector" => c.target.kind \in {"name", "select", "all"}
  BY <1>1, TargetKinds DEF Given, Refused, RefusesSelector
<1>6. \A a \in line.flags : Reads(line.sub, a[1]) # {}
  BY FlagsKnown
<1> HIDE DEF op, line, set
<1>7. line.backup # "nil" => line.sub \in ChangeMetadata
  BY <1>1, <1>2 DEF Formed
<1>8. \/ line.sub \in MayOmit \/ line.select \/ "All" \in set
      \/ Len(line.args) >= Arity(line.sub)
  <2>1. CASE op.target = "name"
    <3>1. Arity(op.sub) \in Nat
      BY Arities
    <3>2. CASE c.op \in {"CreateVolumeGroup", "ExtendVolumeGroup", "ImportClonedVolumeGroup"}
      <4>1. c.listed
        BY <3>2 DEF Unformed
      <4>2. Len(op.args) + 1 >= Arity(op.sub)
        BY <1>1, <2>1, <3>2 DEF Argued
      <4>3. QED
        BY <1>2, <1>3, <2>1, <4>1, <4>2
    <3>3. CASE c.op \notin {"CreateVolumeGroup", "ExtendVolumeGroup", "ImportClonedVolumeGroup"}
      <4>1. Len(op.args) >= Arity(op.sub)
        BY <1>1, <1>3, <2>1, <3>3 DEF Argued
      <4>2. Len(line.args) >= Len(op.args)
        BY <1>3, <2>1
      <4>3. QED
        BY <1>2, <1>3, <3>1, <4>1, <4>2
    <3>4. QED
      BY <3>2, <3>3
  <2>2. CASE op.target = "selector"
    <3>1. Arity(op.sub) = 1
      BY <1>1, <2>2, Arities DEF Formed
    <3>2. CASE c.target.kind = "name"
      BY <1>2, <1>3, <2>2, <3>1, <3>2
    <3>3. CASE c.target.kind = "all"
      BY <1>1, <1>2, <1>4, <2>2, <3>3 DEF Formed, Unformed, op
    <3>4. QED
      BY <1>2, <1>5, <2>2, <3>2, <3>3
  <2>3. CASE op.target \notin {"name", "selector"}
    BY <1>1, <1>2, <2>3 DEF Formed
  <2>4. QED
    BY <2>1, <2>2, <2>3
<1>9. line.sub \in {"lvchange", "vgchange", "pvchange"} => set \ {"All"} # {}
  <2>1. SUFFICES ASSUME op.sub \in {"lvchange", "vgchange", "pvchange"} PROVE set \ {"All"} # {}
    BY <1>2
  <2>2. CASE c.op \in Changes /\ \A r \in op.flags : r[1] # "All"
    <3>1. c.opts # {}
      BY <2>2 DEF Refused, RefusesChange
    <3>2. PICK g : g \in c.opts
      BY <3>1
    <3>3. g[1] \in Column(c.opts) /\ g[1] # "All"
      BY <1>1, <2>2, <3>2 DEF Options, Column
    <3>4. QED
      BY <1>4, <3>3
  <2>3. CASE c.op \in {"ActivateLogicalVolume", "DeactivateLogicalVolume", "ActivateVolumeGroup",
                       "DeactivateVolumeGroup"}
    <3>1. Intent(c) = {<<"Activate", "true">>} \/ Intent(c) = {<<"Activate", "false">>}
      BY <2>3 DEF Intent, Lists
    <3>2. "Activate" \in Column(Intent(c))
      BY <3>1 DEF Column
    <3>3. QED
      BY <1>4, <3>2
  <2>4. QED
    BY <1>1, <2>1, <2>2, <2>3 DEF Formed
<1>10. ASSUME c.op \in {"ReduceVolumeGroup", "SplitVolumeGroup"}
       PROVE  \A o : o # "All" => (o \in set <=> o \in Column(c.opts))
  <2>1. Column(Intent(c)) = {}
    <3>1. Intent(c) = {}
      BY <1>10 DEF Intent, Lists
    <3>2. QED
      BY <3>1 DEF Column
  <2>2. QED
    BY <1>4, <2>1
<1>11. line.sub = "vgreduce" =>
         Cardinality({"RemoveUnused", "RemoveMissing"} \cap set) + Len(line.args) = 2
  <2>1. SUFFICES ASSUME op.sub = "vgreduce"
                 PROVE  Cardinality({"RemoveUnused", "RemoveMissing"} \cap set) + Len(line.args) = 2
    BY <1>2
  <2>2. c.op = "ReduceVolumeGroup" /\ Len(op.args) = 1 /\ op.target = "name"
    BY <1>1, <2>1 DEF Formed, Argued
  <2>3. {"RemoveUnused", "RemoveMissing"} \cap set = {"RemoveUnused", "RemoveMissing"} \cap Column(c.opts)
    BY <1>10, <2>2
  <2> DEFINE flagged == Cardinality({"RemoveUnused", "RemoveMissing"} \cap Column(c.opts))
  <2>4. flagged + (IF c.listed THEN 1 ELSE 0) = 1
    BY <2>2 DEF Refused, RefusesReduce
  <2>5. flagged \in Nat
    BY CountNat
  <2>6. Cardinality({"RemoveUnused", "RemoveMissing"} \cap set) = flagged
    BY <2>3
  <2> HIDE DEF flagged
  <2>7. CASE c.listed
    <3>1. Len(line.args) = 2
      BY <1>3, <2>2, <2>7
    <3>2. flagged = 0
      BY <2>4, <2>5, <2>7
    <3>3. QED
      BY <2>6, <3>1, <3>2
  <2>8. CASE ~c.listed
    <3>1. Len(line.args) = 1
      BY <1>3, <2>2, <2>8
    <3>2. flagged = 1
      BY <2>4, <2>5, <2>8
    <3>3. QED
      BY <2>6, <3>1, <3>2
  <2>9. QED
    BY <2>7, <2>8
<1>12. line.sub = "vgsplit" => Len(line.args) + Cardinality({"LVName"} \cap set) = 3
  <2>1. SUFFICES ASSUME op.sub = "vgsplit"
                 PROVE  Len(line.args) + Cardinality({"LVName"} \cap set) = 3
    BY <1>2
  <2>2. c.op = "SplitVolumeGroup" /\ Len(op.args) = 2 /\ op.target = "name"
    BY <1>1, <2>1 DEF Formed, Argued
  <2>3. ~(c.listed <=> "LVName" \in set)
    BY <1>10, <2>2 DEF Refused, RefusesSplit
  <2>4. CASE c.listed
    <3>1. Len(line.args) = 3
      BY <1>3, <2>2, <2>4
    <3>2. Cardinality({"LVName"} \cap set) = 0
      BY <2>3, <2>4, CountOne
    <3>3. QED
      BY <3>1, <3>2
  <2>5. CASE ~c.listed
    <3>1. Len(line.args) = 2
      BY <1>3, <2>2, <2>5
    <3>2. "LVName" \in set
      BY <2>3, <2>5
    <3>3. Cardinality({"LVName"} \cap set) = 1
      BY <3>2, CountOne
    <3>4. QED
      BY <3>1, <3>3
  <2>6. QED
    BY <2>4, <2>5
<1>13. line.sub = "lvextend" => \A sz \in line.size : sz.sign # "-"
  BY <1>1, <1>2 DEF Formed, Sized, Refused, RefusesSize, sizeArg
<1>14. line.sub = "lvreduce" => \A sz \in line.size : sz.sign # "+"
  BY <1>1, <1>2 DEF Formed, Sized, Refused, RefusesSize, sizeArg
<1>15. QED
  BY <1>6, <1>7, <1>8, <1>9, <1>11, <1>12, <1>13, <1>14 DEF Parses, set, line

-----------------------------------------------------------------------------
\* Sizes.

\* The table's rows of the operations that grow an lv: no option is -f, and -r
\* is the one that resizes the filesystem.
LEMMA GrowRows ==
  /\ Ops["ResizeLogicalVolume"].sub = "lvresize" /\ Ops["ExtendLogicalVolume"].sub = "lvextend"
  /\ Ops["ResizeLogicalVolume"].always = {} /\ Ops["ResizeLogicalVolume"].all = "none"
  /\ Ops["ResizeLogicalVolume"].flags = GrowLV
  BY OpsRows DEF ResizeLogicalVolume, ExtendLogicalVolume, Metadata, Operation

LEMMA GrowFlags == \A r \in GrowLV : r[2] # "-f" /\ (r[2] = "-r" => r[1] = "ResizeFilesystem")
  BY DEF GrowLV

\* ResizeLogicalVolume never says -f, and -r only with ResizeFilesystem: without
\* it the prompt before a shrink of an active lv fails.
LEMMA ResizeUnforced ==
  ASSUME NEW c, c.op = "ResizeLogicalVolume"
  PROVE  /\ "-f" \notin Column(Render(c).flags) /\ Render(c).sub = "lvresize"
         /\ "-r" \in Column(Render(c).flags) => "ResizeFilesystem" \in Column(c.opts)
<1>1. AlwaysFlags(c) = {} /\ TargetFlag(c) = {}
  BY GrowRows DEF AlwaysFlags, TargetFlag
<1>2. \A a \in OptionFlags(c) : a[1] # "-f" /\ (a[1] = "-r" => "ResizeFilesystem" \in Column(c.opts))
  <2>1. TAKE a \in OptionFlags(c)
  <2>2. PICK g \in c.opts : \E f \in Image(GrowLV, g[1]) : a = <<f, Rendered(g[1], g[2])>>
    BY GrowRows, <2>1 DEF OptionFlags
  <2>3. PICK f \in Image(GrowLV, g[1]) : a = <<f, Rendered(g[1], g[2])>>
    BY <2>2
  <2>4. f # "-f" /\ (f = "-r" => g[1] = "ResizeFilesystem")
    BY <2>3, GrowFlags DEF Image
  <2>5. QED
    BY <2>3, <2>4 DEF Column
<1>3. Render(c).flags = OptionFlags(c) /\ Render(c).sub = "lvresize"
  BY <1>1, GrowRows DEF Render
<1>4. QED
  BY <1>2, <1>3 DEF Column

\* What is neither forced nor resized with its filesystem shrinks only inactive.
LEMMA NotForced ==
  ASSUME NEW line, "-f" \notin Column(line.flags), "-r" \notin Column(line.flags),
         NEW old \in 1..MaxSize
  PROVE  \A new \in Resized(line, old, TRUE) : new \in 1..MaxSize /\ new >= old
  BY LvmAssumption DEF Resized

LEMMA ExtendGrows ==
  ASSUME NEW line, line.sub = "lvextend", NEW old \in 1..MaxSize, NEW live
  PROVE  \A new \in Resized(line, old, live) : new \in 1..MaxSize /\ new >= old
  BY LvmAssumption DEF Resized

LEMMA Sizes ==
  ASSUME NEW line, NEW old \in 1..MaxSize, NEW live
  PROVE  Resized(line, old, live) \subseteq 1..MaxSize
  BY LvmAssumption DEF Resized

\* The first of some indices.
LEMMA FirstOf ==
  ASSUME NEW S, S # {}, S \subseteq 1..9
  PROVE  First(S) \in S /\ \A j \in S : First(S) <= j
<1>1. \E i \in S : \A j \in S : i <= j
  <2>1. ASSUME \A i \in S : \E j \in S : j < i PROVE FALSE
    <3>1. \A i \in 1..9 : i \notin S
      <4>1. 1 \notin S  BY <2>1
      <4>2. 2 \notin S  BY <2>1, <4>1
      <4>3. 3 \notin S  BY <2>1, <4>1, <4>2
      <4>4. 4 \notin S  BY <2>1, <4>1, <4>2, <4>3
      <4>5. 5 \notin S  BY <2>1, <4>1, <4>2, <4>3, <4>4
      <4>6. 6 \notin S  BY <2>1, <4>1, <4>2, <4>3, <4>4, <4>5
      <4>7. 7 \notin S  BY <2>1, <4>1, <4>2, <4>3, <4>4, <4>5, <4>6
      <4>8. 8 \notin S  BY <2>1, <4>1, <4>2, <4>3, <4>4, <4>5, <4>6, <4>7
      <4>9. 9 \notin S  BY <2>1, <4>1, <4>2, <4>3, <4>4, <4>5, <4>6, <4>7, <4>8
      <4>10. QED
        BY <4>1, <4>2, <4>3, <4>4, <4>5, <4>6, <4>7, <4>8, <4>9
    <3>2. QED
      BY <3>1
  <2>2. QED
    BY <2>1
<1>2. QED
  BY <1>1 DEF First

\* Access that is denied is reported as such, whatever else lvm says.
LEMMA DeniedFirst ==
  ASSUME NEW e, NEW stderr, "Permission_denied" \in stderr
  PROVE  classify(e, stderr) # "NotFound"
<1>1. stderrPatterns[1] = [substring |-> "Permission_denied", kind |-> "Permission"]
      /\ Len(stderrPatterns) = 9
  BY DEF stderrPatterns
<1>2. 1 \in Matches(stderr) /\ Matches(stderr) \subseteq 1..9
  BY <1>1 DEF Matches
<1>3. First(Matches(stderr)) = 1
  <2>1. First(Matches(stderr)) \in Matches(stderr) /\ First(Matches(stderr)) <= 1
    BY <1>2, FirstOf
  <2>2. QED
    BY <1>2, <2>1
<1>4. QED
  BY <1>1, <1>2, <1>3 DEF classify

\* No failure is read as a success.
LEMMA KindsOfErrors ==
  ASSUME NEW e, NEW stderr PROVE classify(e, stderr) # "ok"
<1>1. \A i \in 1..9 : stderrPatterns[i].kind # "ok"
  BY DEF stderrPatterns
<1>2. CASE e # 3 /\ Matches(stderr) # {}
  <2>1. Matches(stderr) \subseteq 1..9
    BY DEF Matches, stderrPatterns
  <2>2. First(Matches(stderr)) \in Matches(stderr)
    BY <1>2, <2>1, FirstOf
  <2>3. QED
    BY <1>1, <1>2, <2>1, <2>2 DEF classify
<1>3. CASE e = 3 \/ Matches(stderr) = {}
  BY <1>3 DEF classify
<1>4. QED
  BY <1>2, <1>3

\* A report becomes a list of its length, or an error.
LEMMA ParsedWhole ==
  ASSUME NEW rows \in Seq({"n", "empty", "x"}), NEW taken, taken \subseteq {"n", "empty"}
  PROVE  LET r == Parsed(rows, taken)
         IN  /\ r.kind \in {"ok", "parse"}
             /\ r.kind = "ok" => Len(r.rows) = Len(rows)
             /\ \A i \in 1..Len(r.rows) : r.rows[i] \in {"n", "0"}
<1>1. CASE \A i \in 1..Len(rows) : rows[i] \in taken
  <2> DEFINE list == [i \in 1..Len(rows) |-> IF rows[i] = "empty" THEN "0" ELSE rows[i]]
  <2>1. Parsed(rows, taken) = [kind |-> "ok", rows |-> list]
    BY <1>1 DEF Parsed, Answered
  <2>2. list \in Seq({"n", "0"}) /\ Len(list) = Len(rows)
    BY <1>1
  <2>3. \A i \in 1..Len(list) : list[i] \in {"n", "0"}
    BY <2>2
  <2> HIDE DEF list
  <2>4. QED
    BY <2>1, <2>2, <2>3
<1>2. CASE ~\A i \in 1..Len(rows) : rows[i] \in taken
  <2>1. Parsed(rows, taken) = [kind |-> "parse", rows |-> <<>>]
    BY <1>2 DEF Parsed, Answered
  <2>2. QED
    BY <2>1
<1>3. QED
  BY <1>1, <1>2

Outcomes == [how : {"none", "refused", "cancelled", "exited"}, exitCode : {0, 3, 5},
             stderr : SUBSET Messages, rows : Seq({"n", "empty", "x"})]

\* What the caller hears of an outcome.
LEMMA RepliesTrue ==
  ASSUME NEW op, NEW o \in Outcomes
  PROVE  LET r == Translated(op, o)
         IN  /\ \A i \in 1..Len(r.rows) : r.rows[i] \in {"n", "0"}
             /\ r.kind = "NotFound" => "Permission_denied" \notin o.stderr
             /\ r.kind = "ok" /\ op \in Lists => Len(r.rows) = Len(o.rows)
<1> DEFINE r == Translated(op, o)
<1>1. CASE o.how # "exited"
  <2>1. r = [kind |-> o.how, rows |-> <<>>] /\ o.how \in {"none", "refused", "cancelled"}
    BY <1>1 DEF Translated, Answered, Outcomes
  <2>2. QED
    BY <2>1
<1>2. CASE o.how = "exited" /\ o.exitCode # 0
  <2>1. r = [kind |-> classify(o.exitCode, o.stderr), rows |-> <<>>]
    BY <1>2 DEF Translated, Answered
  <2>2. classify(o.exitCode, o.stderr) # "ok"
    BY KindsOfErrors
  <2>3. r.kind = "NotFound" => "Permission_denied" \notin o.stderr
    BY <2>1, DeniedFirst
  <2>4. r.rows = <<>> /\ r.kind # "ok"
    BY <2>1, <2>2
  <2>5. QED
    BY <2>3, <2>4
<1>3. CASE o.how = "exited" /\ o.exitCode = 0
  <2>1. o.rows \in Seq({"n", "empty", "x"})
    BY DEF Outcomes
  <2>2. CASE op \in Lists
    <3>1. r = Parsed(o.rows, {"n", "empty"}) \/ r = Parsed(o.rows, {"n"})
      BY <1>3, <2>2 DEF Translated, Lists, parseLVReport, parseVGReport, parsePVReport
    <3>2. QED
      BY <2>1, <3>1, ParsedWhole
  <2>3. CASE op \notin Lists
    <3>1. r = [kind |-> "ok", rows |-> <<>>]
      BY <1>3, <2>3 DEF Translated, Lists, Answered
    <3>2. QED
      BY <2>3, <3>1
  <2>4. QED
    BY <2>2, <2>3
<1>4. QED
  BY <1>1, <1>2, <1>3 DEF Outcomes

-----------------------------------------------------------------------------
\* The library's steps.

LvmInv == LvmTypeOK /\ ReplyInv /\ CallInv

LEMMA LvmInitInv == LvmInit => LvmInv
<1>1. SUFFICES ASSUME LvmInit PROVE LvmInv
  OBVIOUS
<1>2. /\ phase = "new" /\ client = [devices |-> {}, autobackup |-> "nil"] /\ call = NoCall
      /\ outcome = NoOutcome /\ reply = [kind |-> "none", rows |-> <<>>] /\ size \in 1..MaxSize
      /\ NoReply = reply
  BY <1>1 DEF LvmInit, NoReply, Answered
<1>3. NoOutcome.how = "none" /\ NoOutcome \in Outcomes
  BY DEF NoOutcome, Outcome, Outcomes
<1>4. LvmTypeOK
  BY <1>2, <1>3 DEF LvmTypeOK
<1>5. ReplyInv
  BY <1>2, <1>3 DEF ReplyInv, Outcomes
<1>6. CallInv
  BY <1>2 DEF CallInv
<1>7. QED
  BY <1>4, <1>5, <1>6 DEF LvmInv

LEMMA NoOperation == "none" \notin DOMAIN Ops
  BY DEF Ops

LEMMA NewStep == ASSUME LvmInv, New PROVE LvmInv'
<1>1. phase' = "idle" /\ phase = "new" /\ UNCHANGED <<call, outcome, reply, size>>
  BY DEF New
<1>2. client' \in [devices : SUBSET Devices, autobackup : {"nil", "true", "false"}]
  <2>1. PICK devices \in DeviceLists, autobackup \in {"nil", "true", "false"} :
          client' = [devices |-> devices, autobackup |-> autobackup]
    BY DEF New
  <2>2. devices \in SUBSET Devices
    BY <2>1, LvmAssumption
  <2>3. QED
    BY <2>1, <2>2
<1>3. LvmTypeOK'
  BY <1>1, <1>2 DEF LvmInv, LvmTypeOK
<1>4. ReplyInv'
  BY <1>1 DEF LvmInv, ReplyInv
<1>5. CallInv'
  BY <1>1 DEF LvmInv, CallInv
<1>6. QED
  BY <1>3, <1>4, <1>5 DEF LvmInv

LEMMA CallStep == ASSUME LvmInv, NEW op \in DOMAIN Ops, Call(op) PROVE LvmInv'
<1>1. phase' = "called" /\ phase = "idle" /\ UNCHANGED <<client, outcome, reply, size>>
  BY DEF Call
<1>2. call'.op = op /\ Options(Ops[op], call'.opts)
  BY RequestsAssumption DEF Call
<1>3. call' # NoCall
  BY <1>2, NoOperation DEF NoCall
<1>4. LvmTypeOK'
  BY <1>1, <1>2 DEF LvmInv, LvmTypeOK
<1>5. ReplyInv'
  BY <1>1, <1>3 DEF LvmInv, ReplyInv
<1>6. CallInv'
  <2>1. PICK r \in Requests, target \in Targets(op), sz \in SizeChoices(op),
             listed \in IF TakesDevices(op) THEN BOOLEAN ELSE {FALSE},
             live \in IF op \in Sized THEN BOOLEAN ELSE {FALSE} :
          call' = [op |-> op, opts |-> r.opts, target |-> target, size |-> sz, live |-> live,
                   listed |-> listed, devices |-> r.devices, autobackup |-> r.autobackup]
    BY DEF Call
  <2>2. /\ call'.op = op /\ call'.target = target /\ call'.size = sz /\ call'.listed = listed
    BY <2>1
  <2>3. listed \in BOOLEAN /\ (listed => TakesDevices(op))
    BY <2>1
  <2>4. QED
    BY <1>1, <2>1, <2>2, <2>3 DEF CallInv
<1>7. QED
  BY <1>4, <1>5, <1>6 DEF LvmInv

\* The command line depends on the call and the client only.
LEMMA SameLine == ASSUME UNCHANGED <<client, call>> PROVE Render(call)' = Render(call)
  BY DEF Render, Scope, Backup, AlwaysFlags, OptionFlags, TargetFlag

\* What a step that makes the lv smaller is a step of.
Shrinks ==
  \/ call.op = "ReduceLogicalVolume"
  \/ /\ call.op = "ResizeLogicalVolume"
     /\ ~call.live \/ "ResizeFilesystem" \in Column(call.opts)

LEMMA RunSize ==
  ASSUME LvmTypeOK, call # NoCall, call.op \in Sized, call.live \in BOOLEAN,
         size' \in Resized(Render(call), size, call.live)
  PROVE  size' \in 1..MaxSize /\ (size' < size => Shrinks)
<1>1. size \in 1..MaxSize /\ call.op \in DOMAIN Ops
  BY DEF LvmTypeOK
<1>2. size' \in 1..MaxSize
  BY <1>1, Sizes
<1>3. CASE call.op = "ResizeLogicalVolume"
  <2>1. SUFFICES ASSUME call.live, "ResizeFilesystem" \notin Column(call.opts) PROVE ~(size' < size)
    BY <1>2, <1>3 DEF Shrinks
  <2>2. "-f" \notin Column(Render(call).flags) /\ "-r" \notin Column(Render(call).flags)
    BY <1>3, <2>1, ResizeUnforced
  <2>3. call.live <=> TRUE
    BY <2>1
  <2>4. size' \in Resized(Render(call), size, TRUE)
    BY <2>3
  <2>5. size' >= size
    BY <1>1, <2>2, <2>4, NotForced
  <2>6. QED
    BY <1>1, <1>2, <2>5, LvmAssumption
<1>4. CASE call.op = "ExtendLogicalVolume"
  <2>1. Render(call).sub = "lvextend"
    BY <1>4, GrowRows DEF Render
  <2>2. QED
    BY <1>1, <1>2, <2>1, ExtendGrows, LvmAssumption
<1>5. QED
  BY <1>2, <1>3, <1>4 DEF Sized, Shrinks

LEMMA RunStep ==
  ASSUME LvmInv, Run
  PROVE  LvmInv' /\ (size' < size => Shrinks)
<1>1. /\ phase = "called" /\ phase' = "ran" /\ UNCHANGED <<client, call, reply>> /\ call # NoCall
      /\ size \in 1..MaxSize
  BY DEF Run, LvmInv, ReplyInv, LvmTypeOK
<1>2. outcome' \in Outcomes
  <2>1. \/ \E how \in {"refused", "cancelled", "exited"}, e \in {0, 3} :
             outcome' = Outcome(how, e, {}, <<>>)
        \/ \E a, b \in Messages : outcome' = Outcome("exited", 5, {a, b}, <<>>)
        \/ \E rows \in {<<>>} \cup ({"n", "empty", "x"} \X {"n", "empty", "x"}) :
             outcome' = Outcome("exited", 0, {}, rows)
    BY DEF Run
  <2>2. \A rows \in {"n", "empty", "x"} \X {"n", "empty", "x"} : rows \in Seq({"n", "empty", "x"})
    <3>1. TAKE rows \in {"n", "empty", "x"} \X {"n", "empty", "x"}
    <3>2. PICK a \in {"n", "empty", "x"}, b \in {"n", "empty", "x"} : rows = <<a, b>>
      BY <3>1
    <3>3. <<a, b>> \in Seq({"n", "empty", "x"})
      OBVIOUS
    <3>4. QED
      BY <3>2, <3>3
  <2>3. ASSUME NEW how \in {"refused", "cancelled", "exited"}, NEW e \in {0, 3, 5},
               NEW ms \in SUBSET Messages, NEW rows \in Seq({"n", "empty", "x"})
        PROVE  Outcome(how, e, ms, rows) \in Outcomes
    BY DEF Outcome, Outcomes
  <2>4. \A a, b \in Messages : {a, b} \in SUBSET Messages
    OBVIOUS
  <2>5. \A rows \in {<<>>} \cup ({"n", "empty", "x"} \X {"n", "empty", "x"}) : rows \in Seq({"n", "empty", "x"})
    <3>1. <<>> \in Seq({"n", "empty", "x"})
      OBVIOUS
    <3>2. QED
      BY <2>2, <3>1, Zenon
  <2>6. <<>> \in Seq({"n", "empty", "x"}) /\ {} \in SUBSET Messages
    OBVIOUS
  <2>7. CASE \E how \in {"refused", "cancelled", "exited"}, e \in {0, 3} : outcome' = Outcome(how, e, {}, <<>>)
    BY <2>3, <2>6, <2>7
  <2>8. CASE \E a, b \in Messages : outcome' = Outcome("exited", 5, {a, b}, <<>>)
    BY <2>3, <2>4, <2>6, <2>8
  <2>9. CASE \E rows \in {<<>>} \cup ({"n", "empty", "x"} \X {"n", "empty", "x"}) :
               outcome' = Outcome("exited", 0, {}, rows)
    BY <2>3, <2>5, <2>6, <2>9
  <2>10. QED
    BY <2>1, <2>7, <2>8, <2>9
<1>3. size' \in 1..MaxSize /\ (size' < size => Shrinks)
  <2>1. UNCHANGED size \/ (call.op \in Sized /\ size' \in Resized(Render(call), size, call.live))
    BY DEF Run
  <2>2. QED
    BY <1>1, <2>1, RunSize, LvmAssumption DEF LvmInv, CallInv
<1>4. LvmTypeOK'
  BY <1>1, <1>2, <1>3 DEF LvmInv, LvmTypeOK, Outcomes
<1>5. ReplyInv'
  BY <1>1, <1>2 DEF LvmInv, ReplyInv, Outcomes
<1>6. CallInv'
  <2>1. outcome'.how = "exited" =>
          ~Refused(call) /\ (outcome'.exitCode = 3 => ~Parses(Render(call)) \/ OldRejects(Render(call)))
    BY DEF Run, Outcome
  <2>2. Render(call)' = Render(call)
    BY <1>1, SameLine
  <2>3. QED
    BY <1>1, <2>1, <2>2 DEF LvmInv, CallInv
<1>7. QED
  BY <1>3, <1>4, <1>5, <1>6 DEF LvmInv

LEMMA ReturnStep == ASSUME LvmInv, Return PROVE LvmInv'
<1>1. /\ phase = "ran" /\ phase' = "answered" /\ reply' = Translated(call.op, outcome)
      /\ UNCHANGED <<client, call, outcome, size>>
  BY DEF Return
<1>2. outcome \in Outcomes
  BY DEF LvmInv, ReplyInv, Outcomes
<1>3. \A i \in 1..Len(reply'.rows) : reply'.rows[i] \in {"n", "0"}
  BY <1>1, <1>2, RepliesTrue
<1>4. LvmTypeOK'
  BY <1>1, <1>3 DEF LvmInv, LvmTypeOK
<1>5. ReplyInv'
  BY <1>1 DEF LvmInv, ReplyInv
<1>6. CallInv'
  BY <1>1, SameLine DEF LvmInv, CallInv
<1>7. QED
  BY <1>4, <1>5, <1>6 DEF LvmInv

LEMMA DoneStep == ASSUME LvmInv, Done PROVE LvmInv'
<1>1. /\ phase' = "idle" /\ call' = NoCall /\ outcome' = NoOutcome
      /\ reply' = NoReply /\ UNCHANGED <<client, size>>
  BY DEF Done
<1>2. NoReply.rows = <<>>
  BY DEF NoReply, Answered
<1>3. NoOutcome.how = "none" /\ NoOutcome \in Outcomes
  BY DEF NoOutcome, Outcome, Outcomes
<1>4. LvmTypeOK'
  BY <1>1, <1>2, <1>3 DEF LvmInv, LvmTypeOK
<1>5. ReplyInv'
  BY <1>1, <1>3 DEF ReplyInv, Outcomes
<1>6. CallInv'
  BY <1>1 DEF CallInv
<1>7. QED
  BY <1>4, <1>5, <1>6 DEF LvmInv

LEMMA LvmStutter == ASSUME LvmInv, UNCHANGED lvmVars PROVE LvmInv'
<1>1. CallInv'
  BY SameLine DEF LvmInv, CallInv, lvmVars
<1>2. QED
  BY <1>1 DEF LvmInv, LvmTypeOK, ReplyInv, lvmVars

LEMMA LvmStep ==
  ASSUME LvmInv, LvmNext
  PROVE  LvmInv' /\ (size' < size => Shrinks)
<1>1. ASSUME UNCHANGED size PROVE ~(size' < size)
  BY <1>1, LvmAssumption DEF LvmInv, LvmTypeOK
<1>2. QED
  BY <1>1, NewStep, CallStep, RunStep, ReturnStep, DoneStep DEF LvmNext, New, Call, Return, Done

\* What is answered is true.
LEMMA LvmAnswers ==
  ASSUME LvmInv PROVE PermissionNotAbsence /\ ListWhole
<1>1. outcome \in Outcomes /\ (phase # "answered" => reply = [kind |-> "none", rows |-> <<>>])
  BY DEF LvmInv, ReplyInv, Outcomes, NoReply, Answered
<1>2. CASE phase # "answered"
  BY <1>1, <1>2 DEF PermissionNotAbsence, ListWhole
<1>3. CASE phase = "answered"
  <2>1. reply = Translated(call.op, outcome)
    BY <1>3 DEF LvmInv, ReplyInv
  <2>2. QED
    BY <1>1, <2>1, RepliesTrue DEF PermissionNotAbsence, ListWhole
<1>4. QED
  BY <1>2, <1>3

\* Every running call is one its operation can be given.
LEMMA CallGiven == ASSUME LvmInv, phase \in {"called", "ran", "answered"} PROVE Given(call)
<1>1. call # NoCall /\ call.op \in DOMAIN Ops /\ Options(Ops[call.op], call.opts)
  BY DEF LvmInv, LvmTypeOK, ReplyInv
<1>2. QED
  BY <1>1 DEF LvmInv, CallInv, Given

LEMMA LvmAsAsked == ASSUME LvmInv PROVE AsAsked
<1>1. SUFFICES ASSUME Runs PROVE SettingsAsAsked(call) /\ OnlyTargets(call)
  BY DEF AsAsked
<1>2. Given(call)
  BY <1>1, CallGiven DEF Runs
<1>3. ~Refused(call)
  BY <1>1 DEF Runs, LvmInv, CallInv
<1>4. QED
  BY <1>2, <1>3, MeaningAsAsked, ReachAsAsked

\* Only an exit with 3 is an invalid command.
LEMMA InvalidExit ==
  ASSUME NEW op, NEW o \in Outcomes, Translated(op, o).kind = "InvalidCommand"
  PROVE  o.how = "exited" /\ o.exitCode = 3
<1>1. CASE o.how # "exited"
  <2>1. Translated(op, o).kind = o.how /\ o.how \in {"none", "refused", "cancelled"}
    BY <1>1 DEF Translated, Answered, Outcomes
  <2>2. QED
    BY <2>1
<1>2. CASE o.how = "exited" /\ o.exitCode = 0
  <2>1. \/ Translated(op, o) = Parsed(o.rows, {"n", "empty"})
        \/ Translated(op, o) = Parsed(o.rows, {"n"})
        \/ Translated(op, o) = [kind |-> "ok", rows |-> <<>>]
    BY <1>2 DEF Translated, parseLVReport, parseVGReport, parsePVReport, Answered
  <2>2. o.rows \in Seq({"n", "empty", "x"})
    BY DEF Outcomes
  <2>3. QED
    BY <2>1, <2>2, ParsedWhole
<1>3. CASE o.how = "exited" /\ o.exitCode \notin {0, 3}
  <2>1. Translated(op, o).kind = classify(o.exitCode, o.stderr)
    BY <1>3 DEF Translated, Answered
  <2>2. \A i \in 1..9 : stderrPatterns[i].kind # "InvalidCommand"
    BY DEF stderrPatterns
  <2>3. Matches(o.stderr) \subseteq 1..9
    BY DEF Matches, stderrPatterns
  <2>4. CASE Matches(o.stderr) = {}
    BY <1>3, <2>1, <2>4 DEF classify
  <2>5. CASE Matches(o.stderr) # {}
    <3>1. First(Matches(o.stderr)) \in 1..9
      BY <2>3, <2>5, FirstOf
    <3>2. QED
      BY <1>3, <2>1, <2>2, <2>5, <3>1 DEF classify
  <2>6. QED
    BY <2>4, <2>5
<1>4. QED
  BY <1>1, <1>2, <1>3

LEMMA LvmNeverInvalid == ASSUME LvmInv PROVE NeverInvalid
<1>1. SUFFICES ASSUME reply.kind = "InvalidCommand" PROVE Unformed(call) \/ Newer(call)
  BY DEF NeverInvalid, Unformed, Newer, Scope
<1>2. phase = "answered" /\ reply = Translated(call.op, outcome) /\ outcome \in Outcomes
  BY <1>1 DEF LvmInv, ReplyInv, Outcomes, NoReply, Answered
<1>3. outcome.how = "exited" /\ outcome.exitCode = 3
  BY <1>1, <1>2, InvalidExit
<1>4. ~Refused(call) /\ (~Parses(Render(call)) \/ OldRejects(Render(call)))
  BY <1>2, <1>3 DEF LvmInv, CallInv
<1>5. Given(call)
  BY <1>2, CallGiven
<1>6. QED
  BY <1>4, <1>5, Accepted, OldForms
=============================================================================
