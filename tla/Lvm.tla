-------------------------------- MODULE Lvm --------------------------------
(***************************************************************************)
(* The lvm client library, package lvm: every operation as a row of a      *)
(* table, the rules that turn a call into one lvm command line or refuse   *)
(* it, and the translation of what the command answers.                    *)
(*                                                                         *)
(* lvm itself is external: Meaning, Parses, OldRejects, Reach and Resized  *)
(* say how it reads a command line, after its manual pages.  Each device   *)
(* of Devices carries one pv, one vg and one lv, so an object is named by  *)
(* its device.  A value is "v" or, where zero differs from absent, "0",    *)
(* and "set" for a flag without one; a size in bytes carries its unit,     *)
(* because lvm reads a bare size as mebibytes.                             *)
(***************************************************************************)
EXTENDS Integers, Sequences, FiniteSets

CONSTANTS
  Devices,      \* the block devices of the host
  Tracked,      \* those in the host's devices file
  DeviceLists,  \* bound: the lists of devices callers scope to
  Requests,     \* bound: the operations, options and environments of calls
  MaxSize       \* bound: sizes of the lvs

ASSUME LvmAssumption ==
  Tracked \subseteq Devices /\ DeviceLists \subseteq SUBSET Devices /\ MaxSize \in Nat \ {0}

VARIABLES
  phase,    \* "new", "idle", "called", "ran", "answered"
  client,   \* the Client: devices (empty for nil) and autobackup
  call,     \* the running call
  outcome,  \* how its command ended
  reply,    \* what the caller is answered
  size      \* size of the lv the operations that take a Size address

lvmVars == <<phase, client, call, outcome, reply, size>>

\* A table is a set of pairs: what it has in its first column, and beside x.
Column(table) == {p[1] : p \in table}
Image(table, x) == {p[2] : p \in {q \in table : q[1] = x}}

First(indices) == CHOOSE i \in indices : \A j \in indices : i <= j

-----------------------------------------------------------------------------
\* Options and how their values are rendered.

\* Options of type *bool.
Pointers == {"Activate", "Contiguous", "SetActivationSkip", "SetAutoactivation", "Zero",
             "WipeSignatures", "ErrorWhenFull", "PoolMetadataSpare", "Allocatable",
             "MetadataIgnore", "Resizeable"}
\* Options of type *uint64: zero is a value.
Counts == {"MaxLogicalVolumes", "MaxPhysicalVolumes"}
\* Options of type bool.
Switches == {"IgnoreActivationSkip", "Force", "RemoveUnused", "RemoveMissing", "RestoreMissing",
             "RegenerateUUID", "NoHistory", "ResizeFilesystem", "Maps", "Short", "MkNodes",
             "All", "History", "Autoactivate"}
\* Options and parameters that count bytes.
ByteOptions == {"sizeBytes", "virtualSizeBytes", "ExtentSizeBytes", "ChunkSizeBytes",
                "MetadataSizeBytes", "PoolMetadataSizeBytes", "StripeSizeBytes", "SizeBytes"}

ValuesOf(option) ==
  CASE option \in Pointers -> {"true", "false"}
    [] option \in Counts -> {"0", "v"}
    [] option \in Switches -> {"true"}
    [] OTHER -> {"v"}

flagValue(value) == IF value = "true" THEN "y" ELSE "n"

Plain(value) == [val |-> value, unit |-> "bare"]

Rendered(option, value) ==
  CASE option \in Pointers -> Plain(flagValue(value))
    [] option \in Switches -> Plain("set")
    [] option \in ByteOptions -> [val |-> value, unit |-> "b"]
    [] OTHER -> Plain(value)

-----------------------------------------------------------------------------
\* The operations.  "always" are the flags every call renders, "flags" the flag
\* of each option, "args" the positional arguments in order, before the devices.
\* "target" says how the object is addressed: by name, by an optional name, by a
\* selector with the all flag "all", or not at all.

Operation(sub, meta, target, all, always, flags, args) ==
  [sub |-> sub, meta |-> meta, target |-> target, all |-> all, always |-> always,
   flags |-> flags, args |-> args]

\* Operations of metadataCommand and of command, for one named object.
Metadata(sub, always, flags, args) ==
  Operation(sub, TRUE, "name", "none", always, flags, args)
Query(sub, always, flags, args) ==
  Operation(sub, FALSE, "name", "none", always, flags, args)
\* An empty name means every object.
QueryAny(sub, always, flags) ==
  Operation(sub, FALSE, "optional", "none", always, flags, <<>>)
QueryAll(sub, always, flags) ==
  Operation(sub, FALSE, "none", "none", always, flags, <<>>)
\* Operations that address their objects through a Selector.
Selected(sub, meta, all, always, flags) ==
  Operation(sub, meta, "selector", all, always, flags, <<>>)

\* The options every lvcreate form takes.
NewLV ==
  {<<"AddTags", "--addtag">>, <<"Activate", "-a">>, <<"Permission", "-p">>, <<"Readahead", "-r">>,
   <<"Contiguous", "-C">>, <<"Allocation", "--alloc">>, <<"SetActivationSkip", "-k">>,
   <<"IgnoreActivationSkip", "-K">>, <<"SetAutoactivation", "--setautoactivation">>}

Named == <<"-n", "name">>

CreateLogicalVolume ==
  Metadata("lvcreate", {Named, <<"-L", "sizeBytes">>},
    NewLV \cup {<<"Zero", "-Z">>, <<"WipeSignatures", "-W">>}, <<"vg">>)

CreateThinPool ==
  Metadata("lvcreate", {Named, <<"--type", "thin-pool">>, <<"-L", "sizeBytes">>},
    NewLV \cup {<<"ChunkSizeBytes", "-c">>, <<"MetadataSizeBytes", "--poolmetadatasize">>,
                <<"Zero", "-Z">>, <<"Discards", "--discards">>,
                <<"ErrorWhenFull", "--errorwhenfull">>,
                <<"PoolMetadataSpare", "--poolmetadataspare">>}, <<"vg">>)

CreateThinVolume ==
  Metadata("lvcreate",
    {Named, <<"--type", "thin">>, <<"--thinpool", "pool">>, <<"-V", "virtualSizeBytes">>},
    NewLV \cup {<<"Zero", "-Z">>, <<"WipeSignatures", "-W">>}, <<"vg">>)

CreateSnapshot ==
  Metadata("lvcreate", {Named, <<"-s", "set">>, <<"-L", "sizeBytes">>},
    NewLV \cup {<<"ChunkSizeBytes", "-c">>}, <<"vg/origin">>)

CreateThinSnapshot ==
  Metadata("lvcreate", {Named, <<"-s", "set">>},
    NewLV \cup {<<"Pool", "--thinpool">>}, <<"vg/origin">>)

RemoveLogicalVolume ==
  Selected("lvremove", FALSE, "none", {}, {<<"Force", "-f">>, <<"NoHistory", "--nohistory">>})

ChangeLogicalVolume ==
  Selected("lvchange", TRUE, "none", {},
    {<<"AddTags", "--addtag">>, <<"RemoveTags", "--deltag">>, <<"Permission", "-p">>,
     <<"Contiguous", "-C">>, <<"Zero", "-Z">>, <<"Discards", "--discards">>,
     <<"ErrorWhenFull", "--errorwhenfull">>, <<"SetActivationSkip", "-k">>, <<"Readahead", "-r">>,
     <<"Allocation", "--alloc">>, <<"SetAutoactivation", "--setautoactivation">>})

ActivateLogicalVolume ==
  Selected("lvchange", TRUE, "none", {<<"-a", "y">>}, {<<"IgnoreActivationSkip", "-K">>})

DeactivateLogicalVolume == Selected("lvchange", TRUE, "none", {<<"-a", "n">>}, {})

\* The options of the forms that grow an lv.
GrowLV ==
  {<<"ResizeFilesystem", "-r">>, <<"PoolMetadataSizeBytes", "--poolmetadatasize">>,
   <<"Stripes", "-i">>, <<"StripeSizeBytes", "-I">>, <<"Allocation", "--alloc">>}

ExtendLogicalVolume == Metadata("lvextend", {}, GrowLV, <<"name">>)

ExtendLogicalVolumeByPolicy ==
  Metadata("lvextend", {<<"--usepolicies", "set">>}, {}, <<"name">>)

ReduceLogicalVolume ==
  Metadata("lvreduce", {<<"-f", "set">>}, {<<"ResizeFilesystem", "-r">>}, <<"name">>)

\* Mutant of ResizeLogicalVolume: the prompt before a shrink is answered.
ResizeForced == Metadata("lvresize", {<<"-f", "set">>}, GrowLV, <<"name">>)

ResizeLogicalVolume == Metadata("lvresize", {}, GrowLV, <<"name">>)

RenameLogicalVolume == Metadata("lvrename", {}, {}, <<"vg", "oldName", "newName">>)

DisplayLogicalVolume == QueryAny("lvdisplay", {}, {<<"Maps", "-m">>})

ScanLogicalVolumes == QueryAll("lvscan", {}, {<<"All", "-a">>})

\* The report flags of the three list operations.
Report ==
  {<<"--reportformat", "json">>, <<"--units", "b">>, <<"--nosuffix", "set">>,
   <<"--binary", "set">>, <<"-o", "fields">>}

ListLogicalVolumes ==
  Operation("lvs", FALSE, "list", "none", Report, {<<"All", "-a">>, <<"History", "-H">>}, <<>>)

-----------------------------------------------------------------------------
\* Volume groups.

CreateVolumeGroup ==
  Metadata("vgcreate", {},
    {<<"AddTags", "--addtag">>, <<"ExtentSizeBytes", "-s">>,
     <<"SetAutoactivation", "--setautoactivation">>, <<"Force", "-f">>}, <<"name">>)

ListVolumeGroups == Operation("vgs", FALSE, "report", "none", Report, {}, <<>>)

RemoveVolumeGroup == Query("vgremove", {}, {<<"Force", "-f">>}, <<"name">>)

ExtendVolumeGroup ==
  Metadata("vgextend", {}, {<<"Force", "-f">>, <<"RestoreMissing", "--restoremissing">>},
    <<"name">>)

ReduceVolumeGroup ==
  Metadata("vgreduce", {},
    {<<"RemoveUnused", "-a">>, <<"RemoveMissing", "--removemissing">>, <<"Force", "-f">>},
    <<"name">>)

RenameVolumeGroup == Metadata("vgrename", {}, {}, <<"oldName", "newName">>)

ChangeVolumeGroup ==
  Selected("vgchange", TRUE, "none", {},
    {<<"AddTags", "--addtag">>, <<"RemoveTags", "--deltag">>, <<"Resizeable", "-x">>,
     <<"MaxLogicalVolumes", "-l">>, <<"MaxPhysicalVolumes", "-p">>, <<"ExtentSizeBytes", "-s">>,
     <<"RegenerateUUID", "-u">>, <<"SetAutoactivation", "--setautoactivation">>,
     <<"Allocation", "--alloc">>})

ActivateVolumeGroup ==
  Selected("vgchange", TRUE, "none", {<<"-a", "y">>},
    {<<"IgnoreActivationSkip", "-K">>, <<"Mode", "--activationmode">>})

DeactivateVolumeGroup == Selected("vgchange", TRUE, "none", {<<"-a", "n">>}, {})

CheckVolumeGroup == QueryAny("vgck", {}, {})

DisplayVolumeGroup == QueryAny("vgdisplay", {}, {<<"Short", "-s">>})

ScanVolumeGroups == QueryAll("vgscan", {}, {<<"MkNodes", "--mknodes">>})

BackupVolumeGroupMetadata == QueryAny("vgcfgbackup", {}, {<<"File", "-f">>})

RestoreVolumeGroupMetadata ==
  Metadata("vgcfgrestore", {}, {<<"File", "-f">>, <<"Force", "--force">>}, <<"name">>)

ListVolumeGroupMetadataBackups == Query("vgcfgrestore", {<<"-l", "set">>}, {}, <<"name">>)

ExportVolumeGroup == Selected("vgexport", FALSE, "-a", {}, {})

ImportVolumeGroup == Selected("vgimport", FALSE, "-a", {}, {})

MergeVolumeGroups == Metadata("vgmerge", {}, {}, <<"destination", "source">>)

SplitVolumeGroup ==
  Metadata("vgsplit", {}, {<<"LVName", "-n">>}, <<"source", "destination">>)

MakeVolumeGroupNodes == QueryAny("vgmknodes", {}, {})

ImportClonedVolumeGroup ==
  Query("vgimportclone", {}, {<<"BaseName", "-n">>}, <<>>)

ImportVolumeGroupDevices == Selected("vgimportdevices", FALSE, "-a", {}, {})

-----------------------------------------------------------------------------
\* Physical volumes, and the version.

CreatePhysicalVolume == Query("pvcreate", {}, {<<"Force", "-f">>}, <<"device">>)

ListPhysicalVolumes == Operation("pvs", FALSE, "report", "none", Report, {}, <<>>)

RemovePhysicalVolume == Query("pvremove", {}, {}, <<"device">>)

ChangePhysicalVolume ==
  Selected("pvchange", TRUE, "-a", {},
    {<<"AddTags", "--addtag">>, <<"RemoveTags", "--deltag">>, <<"Allocatable", "-x">>,
     <<"MetadataIgnore", "--metadataignore">>, <<"RegenerateUUID", "-u">>})

\* SizeBytes also answers the prompt, see Flags.
ResizePhysicalVolume ==
  Metadata("pvresize", {}, {<<"SizeBytes", "--setphysicalvolumesize">>}, <<"device">>)

DisplayPhysicalVolume == Query("pvdisplay", {}, {<<"Maps", "-m">>}, <<"device">>)

ScanPhysicalVolumes ==
  QueryAny("pvscan", {<<"--cache", "set">>}, {<<"Autoactivate", "-aay">>})

CheckPhysicalVolume == Query("pvck", {}, {}, <<"device">>)

DumpPhysicalVolume == Query("pvck", {<<"--dump", "kind">>}, {}, <<"device">>)

GetVersion == QueryAll("version", {}, {})

Ops ==
  [CreateLogicalVolume |-> CreateLogicalVolume, CreateThinPool |-> CreateThinPool,
   CreateThinVolume |-> CreateThinVolume, CreateSnapshot |-> CreateSnapshot,
   CreateThinSnapshot |-> CreateThinSnapshot, RemoveLogicalVolume |-> RemoveLogicalVolume,
   ChangeLogicalVolume |-> ChangeLogicalVolume,
   ActivateLogicalVolume |-> ActivateLogicalVolume,
   DeactivateLogicalVolume |-> DeactivateLogicalVolume,
   ExtendLogicalVolume |-> ExtendLogicalVolume,
   ExtendLogicalVolumeByPolicy |-> ExtendLogicalVolumeByPolicy,
   ReduceLogicalVolume |-> ReduceLogicalVolume, ResizeLogicalVolume |-> ResizeLogicalVolume,
   RenameLogicalVolume |-> RenameLogicalVolume,
   DisplayLogicalVolume |-> DisplayLogicalVolume, ScanLogicalVolumes |-> ScanLogicalVolumes,
   ListLogicalVolumes |-> ListLogicalVolumes, CreateVolumeGroup |-> CreateVolumeGroup,
   ListVolumeGroups |-> ListVolumeGroups, RemoveVolumeGroup |-> RemoveVolumeGroup,
   ExtendVolumeGroup |-> ExtendVolumeGroup, ReduceVolumeGroup |-> ReduceVolumeGroup,
   RenameVolumeGroup |-> RenameVolumeGroup, ChangeVolumeGroup |-> ChangeVolumeGroup,
   ActivateVolumeGroup |-> ActivateVolumeGroup,
   DeactivateVolumeGroup |-> DeactivateVolumeGroup, CheckVolumeGroup |-> CheckVolumeGroup,
   DisplayVolumeGroup |-> DisplayVolumeGroup, ScanVolumeGroups |-> ScanVolumeGroups,
   BackupVolumeGroupMetadata |-> BackupVolumeGroupMetadata,
   RestoreVolumeGroupMetadata |-> RestoreVolumeGroupMetadata,
   ListVolumeGroupMetadataBackups |-> ListVolumeGroupMetadataBackups,
   ExportVolumeGroup |-> ExportVolumeGroup, ImportVolumeGroup |-> ImportVolumeGroup,
   MergeVolumeGroups |-> MergeVolumeGroups, SplitVolumeGroup |-> SplitVolumeGroup,
   MakeVolumeGroupNodes |-> MakeVolumeGroupNodes,
   ImportClonedVolumeGroup |-> ImportClonedVolumeGroup,
   ImportVolumeGroupDevices |-> ImportVolumeGroupDevices,
   CreatePhysicalVolume |-> CreatePhysicalVolume, ListPhysicalVolumes |-> ListPhysicalVolumes,
   RemovePhysicalVolume |-> RemovePhysicalVolume,
   ChangePhysicalVolume |-> ChangePhysicalVolume,
   ResizePhysicalVolume |-> ResizePhysicalVolume,
   DisplayPhysicalVolume |-> DisplayPhysicalVolume,
   ScanPhysicalVolumes |-> ScanPhysicalVolumes, CheckPhysicalVolume |-> CheckPhysicalVolume,
   DumpPhysicalVolume |-> DumpPhysicalVolume, GetVersion |-> GetVersion]

-----------------------------------------------------------------------------
\* Calls.  "devices" and "autobackup" are the CommonOptions, "listed" whether
\* the devices argument has an element, "size" the Size argument.  "live" is no
\* argument: it says whether the lv a Sized operation addresses is active.

\* The operations that take a Size.
Sized == {"ExtendLogicalVolume", "ReduceLogicalVolume", "ResizeLogicalVolume"}
\* The operations that end in a list of devices.
TakesDevices(op) ==
  op \in {"CreateVolumeGroup", "ExtendVolumeGroup", "ReduceVolumeGroup", "SplitVolumeGroup",
         "ImportClonedVolumeGroup"}
\* The operations that require a property.
Changes == {"ChangeLogicalVolume", "ChangeVolumeGroup", "ChangePhysicalVolume"}

\* The sign left by GrowBy and ShrinkBy: the last one, absolute strips the others.
Sign(signs) == IF signs = <<>> THEN "none" ELSE signs[Len(signs)]

sizeArg(sz) ==
  [flag |-> IF sz.unit = "bytes" THEN "-L" ELSE "-l",
   sign |-> Sign(sz.signs), n |-> sz.n,
   unit |-> CASE sz.unit = "bytes" -> "b" [] sz.unit = "percent" -> "%" [] OTHER -> "bare"]

\* The checks made before a command runs.

RefusesAutobackup(c) == ~Ops[c.op].meta /\ c.autobackup # "nil"

RefusesChange(c) == c.op \in Changes /\ c.opts = {}

RefusesSelector(c) == c.target.kind = "nil"

RefusesReduce(c) ==
  LET forms == Cardinality({"RemoveUnused", "RemoveMissing"} \cap Column(c.opts))
                 + (IF c.listed THEN 1 ELSE 0)
  IN  c.op = "ReduceVolumeGroup" /\ forms # 1

RefusesSplit(c) == c.op = "SplitVolumeGroup" /\ (c.listed <=> "LVName" \in Column(c.opts))

\* Mutant of RefusesSize: the direction is left to lvm.
RefusesNoSize(c) == FALSE

RefusesSize(c) ==
  \/ c.op = "ExtendLogicalVolume" /\ Sign(c.size.signs) = "-"
  \/ c.op = "ReduceLogicalVolume" /\ Sign(c.size.signs) = "+"
  \/ c.op = "ResizeLogicalVolume" /\ c.size.signs # <<>>

Refused(c) ==
  \/ RefusesAutobackup(c) \/ RefusesChange(c) \/ RefusesSelector(c)
  \/ RefusesReduce(c) \/ RefusesSplit(c) \/ RefusesSize(c)

-----------------------------------------------------------------------------
\* From a call to a command line.

\* Mutant of Scope: an empty override is taken for none.
ScopeByLength(c) == IF c.devices.given /\ c.devices.list # {} THEN c.devices.list ELSE client.devices

\* The --devices of command; empty for no flag.
Scope(c) == IF c.devices.given THEN c.devices.list ELSE client.devices

\* The -A of metadataCommand; "nil" for no flag.
Backup(c) == IF c.autobackup # "nil" THEN c.autobackup ELSE client.autobackup

\* The flags of the options given; pvresize also answers the prompt.
OptionFlags(c) ==
  (UNION {{<<f, Rendered(g[1], g[2])>> : f \in Image(Ops[c.op].flags, g[1])} : g \in c.opts})
    \cup IF c.op = "ResizePhysicalVolume" /\ c.opts # {} THEN {<<"-y", Plain("set")>>} ELSE {}

AlwaysFlags(c) == {<<a[1], Rendered(a[2], a[2])>> : a \in Ops[c.op].always}

\* appendSelector and the optional names: the flag of the target.
TargetFlag(c) ==
  IF c.target.kind = "all" /\ Ops[c.op].all # "none" THEN {<<Ops[c.op].all, Plain("set")>>} ELSE {}

\* The command line of a call that is not refused.
Render(c) ==
  LET op == Ops[c.op]
  IN  [sub |-> op.sub, scope |-> Scope(c), backup |-> IF op.meta THEN Backup(c) ELSE "nil",
       flags |-> AlwaysFlags(c) \cup OptionFlags(c) \cup TargetFlag(c),
       size |-> IF c.op \in Sized THEN {sizeArg(c.size)} ELSE {},
       select |-> c.target.kind \in {"select", "both"},
       objects |-> IF c.target.kind \in {"name", "select", "both"} THEN c.target.ds ELSE {},
       args |-> op.args \o (IF c.listed THEN <<"devices">> ELSE <<>>)
                  \o (IF op.target # "name" /\ c.target.kind \in {"name", "both"}
                        THEN <<"target">> ELSE <<>>)]

-----------------------------------------------------------------------------
\* lvm, which is external: what a command line means to it.

\* The meaning of a flag that is the same in every subcommand.
Common ==
  {<<"--addtag", "AddTags">>, <<"--deltag", "RemoveTags">>, <<"-C", "Contiguous">>,
   <<"--alloc", "Allocation">>, <<"-k", "SetActivationSkip">>,
   <<"-K", "IgnoreActivationSkip">>, <<"--setautoactivation", "SetAutoactivation">>,
   <<"-Z", "Zero">>, <<"-W", "WipeSignatures">>, <<"-c", "ChunkSizeBytes">>,
   <<"--discards", "Discards">>, <<"--errorwhenfull", "ErrorWhenFull">>,
   <<"--poolmetadataspare", "PoolMetadataSpare">>, <<"--nohistory", "NoHistory">>,
   <<"--usepolicies", "usepolicies">>, <<"-i", "Stripes">>, <<"-I", "StripeSizeBytes">>,
   <<"-m", "Maps">>, <<"-f", "Force">>, <<"--force", "Force">>, <<"-y", "yes">>,
   <<"-H", "History">>, <<"--restoremissing", "RestoreMissing">>,
   <<"-u", "RegenerateUUID">>, <<"--removemissing", "RemoveMissing">>,
   <<"--activationmode", "Mode">>, <<"--mknodes", "MkNodes">>,
   <<"--metadataignore", "MetadataIgnore">>, <<"--setphysicalvolumesize", "SizeBytes">>,
   <<"--cache", "cache">>, <<"-aay", "Autoactivate">>, <<"--dump", "dump">>,
   <<"--type", "type">>, <<"-V", "virtualSizeBytes">>, <<"--thinpool", "Pool">>,
   <<"--reportformat", "format">>, <<"--units", "units">>, <<"--nosuffix", "nosuffix">>,
   <<"--binary", "binary">>, <<"-o", "fields">>, <<"-a", "All">>}

\* The flags a subcommand reads in its own way.
Own(sub) ==
  CASE sub = "lvcreate" ->
         {<<"-n", "name">>, <<"-L", "sizeBytes">>, <<"-s", "snapshot">>,
          <<"-a", "Activate">>, <<"-p", "Permission">>, <<"-r", "Readahead">>,
          <<"--poolmetadatasize", "MetadataSizeBytes">>}
    [] sub = "lvchange" ->
         {<<"-a", "Activate">>, <<"-p", "Permission">>, <<"-r", "Readahead">>}
    [] sub = "vgchange" ->
         {<<"-a", "Activate">>, <<"-x", "Resizeable">>, <<"-l", "MaxLogicalVolumes">>,
          <<"-p", "MaxPhysicalVolumes">>, <<"-s", "ExtentSizeBytes">>}
    [] sub \in {"lvextend", "lvreduce", "lvresize"} ->
         {<<"-r", "ResizeFilesystem">>, <<"--poolmetadatasize", "PoolMetadataSizeBytes">>}
    [] sub = "vgcreate" -> {<<"-s", "ExtentSizeBytes">>}
    [] sub = "vgreduce" -> {<<"-a", "RemoveUnused">>}
    [] sub = "vgdisplay" -> {<<"-s", "Short">>}
    [] sub = "vgcfgbackup" -> {<<"-f", "File">>}
    [] sub = "vgcfgrestore" -> {<<"-f", "File">>, <<"-l", "list">>}
    [] sub = "vgsplit" -> {<<"-n", "LVName">>}
    [] sub = "vgimportclone" -> {<<"-n", "BaseName">>}
    [] sub = "pvchange" -> {<<"-x", "Allocatable">>}
    [] OTHER -> {}

\* What a flag sets; nothing when the subcommand does not know it.
Reads(sub, f) == IF Image(Own(sub), f) # {} THEN Image(Own(sub), f) ELSE Image(Common, f)

\* The value of a flag as lvm takes it.
Taken(option, arg) ==
  CASE option \in Pointers -> IF arg.val = "y" THEN "true" ELSE "false"
    [] option \in Switches -> "true"
    [] option \in ByteOptions /\ arg.unit # "b" -> "mebibytes"
    [] OTHER -> arg.val

\* The settings a command line makes.
Meaning(line) ==
  UNION {{<<o, Taken(o, a[2])>> : o \in Reads(line.sub, a[1])} : a \in line.flags}

\* The subcommands that address every object when none is named.
MayOmit == {"vgchange", "vgck", "vgdisplay", "vgmknodes", "vgcfgbackup", "lvdisplay", "lvs",
            "vgs", "pvs", "lvscan", "vgscan", "pvscan", "version"}
\* The subcommands that read -A.
ChangeMetadata == {"lvcreate", "lvchange", "lvextend", "lvreduce", "lvresize", "lvrename",
                   "lvremove", "vgcreate", "vgextend", "vgreduce", "vgrename", "vgchange",
                   "vgcfgrestore", "vgmerge", "vgsplit", "vgremove", "pvchange", "pvresize"}
\* The number of positional arguments of the forms that need more than one.
Arity(sub) ==
  CASE sub \in {"vgcreate", "vgextend", "vgrename", "vgmerge"} -> 2
    [] sub = "lvrename" -> 3
    [] OTHER -> 1

\* Does some lvm accept the command line?  It exits with 3 when not.
Parses(line) ==
  LET set == Column(Meaning(line))
  IN  /\ \A a \in line.flags : Reads(line.sub, a[1]) # {}
      /\ line.backup # "nil" => line.sub \in ChangeMetadata
      /\ \/ line.sub \in MayOmit
         \/ line.select
         \/ "All" \in set
         \/ Len(line.args) >= Arity(line.sub)
      /\ line.sub \in {"lvchange", "vgchange", "pvchange"} => set \ {"All"} # {}
      /\ line.sub = "vgreduce" =>
           Cardinality({"RemoveUnused", "RemoveMissing"} \cap set) + Len(line.args) = 2
      /\ line.sub = "vgsplit" =>
           Len(line.args) + Cardinality({"LVName"} \cap set) = 3
      /\ line.sub = "lvextend" => \A sz \in line.size : sz.sign # "-"
      /\ line.sub = "lvreduce" => \A sz \in line.size : sz.sign # "+"

\* What lvm 2.03.16 rejects all the same, as the library's comments and tests
\* record; later versions accept it.
OldRejects(line) ==
  LET set == Column(Meaning(line))
  IN  \/ <<"type", "thin-pool">> \in Meaning(line) /\ "ErrorWhenFull" \in set
      \/ <<"type", "thin">> \in Meaning(line) /\ "SetAutoactivation" \in set
      \/ "dump" \in set /\ line.scope # {}

\* The objects a command line reaches.
Reach(line) ==
  LET visible == IF line.scope = {} THEN Tracked ELSE line.scope
      named == IF line.objects = {} /\ ~line.select THEN Devices ELSE line.objects
  IN  visible \cap named

\* The sizes a parsed command line can leave, from old; old when it fails.  A
\* percentage stands for any size.  Unless -f or -r is given, a shrink of an
\* active lv prompts, and the prompt fails on the closed stdin; whether an lv
\* that is not active, or one resized with its filesystem, shrinks without -f
\* depends on the version and on the filesystem.
Resized(line, old, live) ==
  LET given == Column(line.flags)
      asked(sz) ==
        IF sz.unit = "%" THEN 0..MaxSize
        ELSE CASE sz.sign = "+" -> {old + sz.n}
               [] sz.sign = "-" -> {old - sz.n}
               [] OTHER -> {sz.n}
      allowed(new) ==
        /\ new \in 1..MaxSize
        /\ line.sub = "lvextend" => new > old
        /\ line.sub = "lvreduce" => new < old
        /\ new < old => "-f" \in given \/ "-r" \in given \/ ~live
      mayFail(new) == ~allowed(new) \/ (new < old /\ "-f" \notin given)
      sizes == UNION {asked(sz) : sz \in line.size}
  IN  {new \in sizes : allowed(new)} \cup {n \in {old} : \E new \in sizes : mayFail(new)}

-----------------------------------------------------------------------------
\* What a command answers.  A failure leaves messages on stderr, a list
\* operation a report whose rows hold a number ("n"), nothing ("empty") or text ("x").
\* An underscore in a message stands for a blank.

stderrPatterns ==
  <<[substring |-> "Permission_denied", kind |-> "Permission"],
    [substring |-> "device_not_found", kind |-> "NotFound"],
    [substring |-> "not_in_devices_file", kind |-> "NotFound"],
    [substring |-> "not_found", kind |-> "NotFound"],
    [substring |-> "already_exists", kind |-> "AlreadyExists"],
    [substring |-> "already_in_volume_group", kind |-> "AlreadyExists"],
    [substring |-> "used_by_VG", kind |-> "InUse"],
    [substring |-> "not_resizeable", kind |-> "NotAllowed"],
    [substring |-> "without_-ff", kind |-> "InUse"]>>

\* The patterns the messages contain.
Matches(stderr) == {i \in 1..Len(stderrPatterns) : stderrPatterns[i].substring \in stderr}

\* Mutant of classify: the last match wins.
classifyLast(exitCode, stderr) ==
  IF exitCode = 3 THEN "InvalidCommand"
  ELSE IF Matches(stderr) = {} THEN "unclassified"
  ELSE stderrPatterns[CHOOSE i \in Matches(stderr) : \A j \in Matches(stderr) : i >= j].kind

classify(exitCode, stderr) ==
  IF exitCode = 3 THEN "InvalidCommand"
  ELSE IF Matches(stderr) = {} THEN "unclassified"
  ELSE stderrPatterns[First(Matches(stderr))].kind

\* lvm's messages; the last one no pattern knows.
Messages == {stderrPatterns[i].substring : i \in 1..Len(stderrPatterns)} \cup {"internal_error"}

Lists == {"ListLogicalVolumes", "ListVolumeGroups", "ListPhysicalVolumes"}

Answered(kind, rows) == [kind |-> kind, rows |-> rows]

\* The objects of a report whose rows all are among the values taken; one row
\* that is not fails the list.  An empty number becomes zero.
Parsed(rows, taken) ==
  IF \A i \in 1..Len(rows) : rows[i] \in taken
    THEN Answered("ok", [i \in 1..Len(rows) |-> IF rows[i] = "empty" THEN "0" ELSE rows[i]])
    ELSE Answered("parse", <<>>)

\* A historical lv reports no size, an lv that is no pool no percentages.
parseLVReport(rows) == Parsed(rows, {"n", "empty"})

parseVGReport(rows) == Parsed(rows, {"n"})

parsePVReport(rows) == Parsed(rows, {"n"})

\* Client.run and what its caller does with the output.
Translated(op, o) ==
  IF o.how # "exited" THEN Answered(o.how, <<>>)
  ELSE IF o.exitCode # 0 THEN Answered(classify(o.exitCode, o.stderr), <<>>)
  ELSE IF op = "ListLogicalVolumes" THEN parseLVReport(o.rows)
  ELSE IF op = "ListVolumeGroups" THEN parseVGReport(o.rows)
  ELSE IF op = "ListPhysicalVolumes" THEN parsePVReport(o.rows)
  ELSE Answered("ok", <<>>)

-----------------------------------------------------------------------------
\* The program that uses the library.

Outcome(how, exitCode, stderr, rows) ==
  [how |-> how, exitCode |-> exitCode, stderr |-> stderr, rows |-> rows]
NoOutcome == Outcome("none", 0, {}, <<>>)
NoReply == Answered("none", <<>>)
NoCall == [op |-> "none"]

\* The options of a call are options of its operation, with values they take.
Options(op, opts) ==
  \A g \in opts : g = <<g[1], g[2]>> /\ g[1] \in Column(op.flags) /\ g[2] \in ValuesOf(g[1])

Targets(op) ==
  LET kinds == CASE Ops[op].target = "name" -> {"name"}
                 [] Ops[op].target = "optional" -> {"name", "none"}
                 [] Ops[op].target = "none" -> {"none"}
                 [] Ops[op].target = "selector" -> {"nil", "name", "select", "all"}
                 [] Ops[op].target = "list" -> {"none", "name", "select", "both"}
                 [] Ops[op].target = "report" -> {"none", "select"}
      sets(kind) == CASE kind = "name" -> {{d} : d \in Devices}
                      [] kind \in {"select", "both"} -> SUBSET Devices
                      [] OTHER -> {{}}
  IN  UNION {{[kind |-> kind, ds |-> ds] : ds \in sets(kind)} : kind \in kinds}

SizeChoices(op) ==
  IF op \in Sized
    THEN [unit : {"bytes", "extents", "percent"}, n : 0..MaxSize,
          signs : {<<>>, <<"+">>, <<"-">>, <<"-", "+">>, <<"+", "-">>}]
    ELSE {[unit |-> "bytes", n |-> 0, signs |-> <<>>]}

\* The devices of a call: those of a list, or left nil.
Overrides == {[given |-> FALSE, list |-> {}]} \cup {[given |-> TRUE, list |-> ds] : ds \in DeviceLists}

\* A request sets options of its operation, each to one value.
ASSUME RequestsAssumption ==
  \A r \in Requests :
    /\ r.op \in DOMAIN Ops /\ Options(Ops[r.op], r.opts)
    /\ \A g, h \in r.opts : g[1] = h[1] => g = h
    /\ r.devices \in Overrides /\ r.autobackup \in {"nil", "true", "false"}

LvmInit ==
  /\ phase = "new"
  /\ client = [devices |-> {}, autobackup |-> "nil"]
  /\ call = NoCall
  /\ outcome = NoOutcome
  /\ reply = NoReply
  /\ size \in 1..MaxSize

\* New, with WithDevices and WithAutobackup or without.
New ==
  /\ phase = "new"
  /\ phase' = "idle"
  /\ \E devices \in DeviceLists, autobackup \in {"nil", "true", "false"} :
       client' = [devices |-> devices, autobackup |-> autobackup]
  /\ UNCHANGED <<call, outcome, reply, size>>

Call(op) ==
  /\ phase = "idle"
  /\ phase' = "called"
  /\ \E r \in Requests, target \in Targets(op), sz \in SizeChoices(op),
        listed \in IF TakesDevices(op) THEN BOOLEAN ELSE {FALSE},
        live \in IF op \in Sized THEN BOOLEAN ELSE {FALSE} :
       /\ r.op = op
       /\ call' = [op |-> op, opts |-> r.opts, target |-> target, size |-> sz, live |-> live,
                   listed |-> listed, devices |-> r.devices, autobackup |-> r.autobackup]
  /\ UNCHANGED <<client, outcome, reply, size>>

\* One lvm command, or none for a refused call.
Run ==
  /\ phase = "called"
  /\ phase' = "ran"
  /\ \/ /\ Refused(call)
        /\ outcome' = Outcome("refused", 0, {}, <<>>)
        /\ UNCHANGED size
     \/ /\ ~Refused(call)
        /\ outcome' = Outcome("cancelled", 0, {}, <<>>)
        /\ UNCHANGED size
     \/ /\ ~Refused(call) /\ (~Parses(Render(call)) \/ OldRejects(Render(call)))
        /\ outcome' = Outcome("exited", 3, {}, <<>>)
        /\ UNCHANGED size
     \/ /\ ~Refused(call) /\ Parses(Render(call))
        \* bound: what a failure says does not depend on the environment
        /\ call.opts = {} /\ ~call.devices.given /\ call.autobackup = "nil"
        /\ client.devices = {} /\ client.autobackup = "nil"
        /\ \E a, b \in Messages : outcome' = Outcome("exited", 5, {a, b}, <<>>)
        /\ UNCHANGED size
     \/ /\ ~Refused(call) /\ Parses(Render(call))
        /\ \E rows \in IF call.op \in Lists THEN {<<>>} \cup ({"n", "empty", "x"} \X {"n", "empty", "x"})
                                            ELSE {<<>>} :
             outcome' = Outcome("exited", 0, {}, rows)
        /\ IF call.op \in Sized THEN size' \in Resized(Render(call), size, call.live) ELSE UNCHANGED size
  /\ UNCHANGED <<client, call, reply>>

Return ==
  /\ phase = "ran"
  /\ phase' = "answered"
  /\ reply' = Translated(call.op, outcome)
  /\ UNCHANGED <<client, call, outcome, size>>

Done ==
  /\ phase = "answered"
  /\ phase' = "idle"
  /\ call' = NoCall /\ outcome' = NoOutcome /\ reply' = NoReply
  /\ UNCHANGED <<client, size>>

LvmNext == New \/ (\E op \in DOMAIN Ops : Call(op)) \/ Run \/ Return \/ Done

-----------------------------------------------------------------------------
\* Properties.

\* The types of the variables.
LvmTypeOK ==
  /\ phase \in {"new", "idle", "called", "ran", "answered"}
  /\ client \in [devices : SUBSET Devices, autobackup : {"nil", "true", "false"}]
  /\ call # NoCall => call.op \in DOMAIN Ops /\ Options(Ops[call.op], call.opts)
  /\ outcome.how \in {"none", "refused", "cancelled", "exited"}
  /\ \A i \in 1..Len(reply.rows) : reply.rows[i] \in {"n", "0"}
  /\ size \in 1..MaxSize

\* A command is handed to lvm.
Runs == phase = "ran" /\ outcome.how = "exited"

\* What an operation says to lvm besides the caller's options, from its comment.
Intent(c) ==
  CASE c.op = "CreateLogicalVolume" -> {<<"name", "name">>, <<"sizeBytes", "sizeBytes">>}
    [] c.op = "CreateThinPool" ->
         {<<"name", "name">>, <<"sizeBytes", "sizeBytes">>, <<"type", "thin-pool">>}
    [] c.op = "CreateThinVolume" ->
         {<<"name", "name">>, <<"virtualSizeBytes", "virtualSizeBytes">>, <<"type", "thin">>,
          <<"Pool", "pool">>}
    [] c.op = "CreateSnapshot" ->
         {<<"name", "name">>, <<"sizeBytes", "sizeBytes">>, <<"snapshot", "set">>}
    [] c.op = "CreateThinSnapshot" -> {<<"name", "name">>, <<"snapshot", "set">>}
    [] c.op \in {"ActivateLogicalVolume", "ActivateVolumeGroup"} -> {<<"Activate", "true">>}
    [] c.op \in {"DeactivateLogicalVolume", "DeactivateVolumeGroup"} -> {<<"Activate", "false">>}
    [] c.op = "ExtendLogicalVolumeByPolicy" -> {<<"usepolicies", "set">>}
    [] c.op = "ReduceLogicalVolume" -> {<<"Force", "true">>}
    [] c.op = "ListVolumeGroupMetadataBackups" -> {<<"list", "set">>}
    [] c.op = "ResizePhysicalVolume" /\ c.opts # {} -> {<<"yes", "set">>}
    [] c.op = "ScanPhysicalVolumes" -> {<<"cache", "set">>}
    [] c.op = "DumpPhysicalVolume" -> {<<"dump", "kind">>}
    [] c.op \in Lists -> {<<"format", "json">>, <<"units", "b">>, <<"nosuffix", "set">>,
                          <<"binary", "set">>, <<"fields", "fields">>}
    [] OTHER -> {}

\* Every setting the caller asked for reaches lvm as the setting it reads, in
\* bytes where the option counts bytes, and no other: a short flag stands for
\* different options in different subcommands.  The metadata backup follows the
\* call before the client.
SettingsAsAsked(c) ==
  LET all == IF c.target.kind = "all" /\ Ops[c.op].all # "none" THEN {<<"All", "true">>} ELSE {}
  IN  /\ Meaning(Render(c)) = c.opts \cup Intent(c) \cup all
      /\ Render(c).backup = IF ~Ops[c.op].meta THEN "nil"
                            ELSE IF c.autobackup # "nil" THEN c.autobackup
                            ELSE client.autobackup

\* A command reaches only what its caller addressed, in the devices the call or
\* else the client scopes it to; an empty override lifts the client's scoping
\* and a forgotten selector addresses nothing.
OnlyTargets(c) ==
  LET scoped == IF c.devices.given THEN c.devices.list ELSE client.devices
  IN  Reach(Render(c)) =
        (IF scoped = {} THEN Tracked ELSE scoped) \cap
        (CASE c.target.kind \in {"none", "all"} -> Devices
           [] c.target.kind = "nil" -> {}
           [] OTHER -> c.target.ds)

\* The command handed to lvm is the one the caller asked for: with its settings
\* and on its objects, for every operation.
AsAsked == Runs => SettingsAsAsked(call) /\ OnlyTargets(call)

\* ErrInvalidCommand is a bug of the library or bad criteria, says its comment:
\* the checks before a command leave only the caller who names no device for an
\* operation that has no other form, All with a subcommand that has none, and
\* the three forms the library's comments and tests know lvm 2.03.16 to reject.
NeverInvalid ==
  reply.kind = "InvalidCommand" =>
    \/ /\ call.op \in {"CreateVolumeGroup", "ExtendVolumeGroup", "ImportClonedVolumeGroup"}
       /\ ~call.listed
    \/ call.target.kind = "all" /\ Ops[call.op].sub \in {"lvremove", "lvchange"}
    \/ call.op = "CreateThinPool" /\ "ErrorWhenFull" \in Column(call.opts)
    \/ call.op = "CreateThinVolume" /\ "SetAutoactivation" \in Column(call.opts)
    \/ /\ call.op = "DumpPhysicalVolume"
       /\ IF call.devices.given THEN call.devices.list # {} ELSE client.devices # {}

\* An active lv is made smaller only by ReduceLogicalVolume, or with its
\* filesystem; ExtendLogicalVolume makes none smaller, whatever its size
\* expression and its options.
ShrinkOnlyAsked ==
  [][size' < size =>
       \/ call.op = "ReduceLogicalVolume"
       \/ /\ call.op = "ResizeLogicalVolume"
          /\ ~call.live \/ "ResizeFilesystem" \in Column(call.opts)]_lvmVars

\* A caller told that an object does not exist was not merely denied access to
\* it: recovery and rollback take ErrNotFound for absence.
PermissionNotAbsence ==
  reply.kind = "NotFound" => "Permission_denied" \notin outcome.stderr

\* A list that is answered without an error has every object lvm reported.
ListWhole ==
  (reply.kind = "ok" /\ call.op \in Lists) => Len(reply.rows) = Len(outcome.rows)

-----------------------------------------------------------------------------
\* The part of the inductive invariant that is about the library.

\* The answer is what the library made of the outcome.
ReplyInv ==
  /\ outcome \in [how : {"none", "refused", "cancelled", "exited"}, exitCode : {0, 3, 5},
                  stderr : SUBSET Messages, rows : Seq({"n", "empty", "x"})]
  /\ reply = IF phase = "answered" THEN Translated(call.op, outcome) ELSE NoReply
  /\ phase \in {"called", "ran", "answered"} => call # NoCall
\* The call is one its operation can be given, and lvm only hears of a call that
\* passed the checks.
CallInv ==
  /\ call # NoCall =>
       /\ call.target \in Targets(call.op) /\ call.size \in SizeChoices(call.op)
       /\ call.listed \in BOOLEAN /\ (call.listed => TakesDevices(call.op))
       /\ call.live \in BOOLEAN
  /\ phase \in {"ran", "answered"} /\ outcome.how = "exited" =>
       /\ ~Refused(call)
       /\ outcome.exitCode = 3 => ~Parses(Render(call)) \/ OldRejects(Render(call))
=============================================================================
