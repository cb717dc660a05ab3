------------------------------- MODULE MCNode -------------------------------
(* The daemon and a program that uses the lvm library, for TLC.  The two share *)
(* no state, so a behaviour is one of either.                                  *)
EXTENDS Node

SmallSizes ==
  {[n |-> n, suffix |-> "%"] : n \in {0, 1, 9, 10, 11}}
    \cup {[n |-> 3, suffix |-> "K"], [n |-> 40, suffix |-> "M"], [n |-> 3, suffix |-> "G"],
          [n |-> 4, suffix |-> "T"], [n |-> 5, suffix |-> "T"], [n |-> 0, suffix |-> "none"],
          [n |-> 1024, suffix |-> "none"]}

SmallFree == {0, 9, 105, 1000}

\* Every option alone with each of its values, all of them together, and none.
SmallOptions(op) ==
  LET options == Column(Ops[op].flags)
  IN  {{}} \cup (UNION {{{<<o, v>>} : v \in ValuesOf(o)} : o \in options})
        \cup {{<<o, CHOOSE v \in ValuesOf(o) : TRUE>> : o \in options}}

\* Options and sizes vary under the client's own environment.
SmallRequests ==
  {[op |-> op, opts |-> opts, devices |-> [given |-> FALSE, list |-> {}], autobackup |-> "nil"] :
     <<op, opts>> \in UNION {{<<op, opts>> : opts \in SmallOptions(op)} : op \in DOMAIN Ops}}
  \cup [op : DOMAIN Ops \ Sized, opts : {{}}, devices : Overrides, autobackup : {"nil", "true", "false"}]

\* bound: options only with a client that has no devices, and an lv size other
\* than 1 only for the operations it matters to
SmallCall ==
  phase = "idle" =>
    /\ call'.opts # {} => client.devices = {}
    /\ call'.op \in Sized \/ size = 1

\* bound: a call that is only admitted comes before any call that changes the
\* volume, and no verb runs beside it
SmallServe ==
  peer' # Nothing =>
    UNCHANGED vols /\ vols["v1"] = Lv("ready", 1, FALSE) /\ \A h \in Resizers : answer[h] = "none"

\* One of the daemon's initial states goes with the library.
Canonical == pc = "off" /\ vg /\ pool.kind = "none" /\ vols["v2"].tag = "foreign"

MCInit == NodeInit /\ LvmInit /\ (size > 1 => Canonical)

MCNext ==
  \/ phase = "new" /\ size = 1 /\ NodeNext /\ SmallServe /\ UNCHANGED lvmVars
  \/ Canonical /\ LvmNext /\ SmallCall /\ UNCHANGED nodeVars

MCSpec == MCInit /\ [][MCNext]_<<nodeVars, lvmVars>> /\ NodeFairness
=============================================================================
