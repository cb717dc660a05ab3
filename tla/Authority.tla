----------------------------- MODULE Authority -----------------------------
(***************************************************************************)
(* What a cluster of beanstore nodes promises about one volume: at every   *)
(* moment at most one node is its owner (README: "At most one node ever    *)
(* holds an authoritative copy of a volume").  The owner hands the volume  *)
(* to another node only while nobody has it attached (README: "Moves       *)
(* require the volume to be detached"), and the volume disappears only     *)
(* because its owner was told to delete it.                                *)
(***************************************************************************)
CONSTANTS Nodes, NoNode

VARIABLES owner,   \* the node whose copy counts, NoNode once deleted
          inUse    \* the owner's copy is attached

vars == <<owner, inUse>>

Init == owner \in Nodes /\ inUse = FALSE

Attach == owner # NoNode /\ ~inUse /\ inUse' = TRUE /\ UNCHANGED owner

Detach == inUse /\ inUse' = FALSE /\ UNCHANGED owner

Move == /\ owner # NoNode /\ ~inUse
        /\ owner' \in Nodes \ {owner}
        /\ UNCHANGED inUse

Delete == /\ owner # NoNode /\ ~inUse
          /\ owner' = NoNode
          /\ UNCHANGED inUse

Next == Attach \/ Detach \/ Move \/ Delete

Spec == Init /\ [][Next]_vars
=============================================================================
