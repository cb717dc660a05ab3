------------------------------- MODULE MCMove -------------------------------
(* Instances of Move for TLC. *)
EXTENDS Move, TLC

\* Transfer ids are interchangeable, the nodes as well (safety runs only).
Symmetry == Permutations(Nodes) \cup Permutations(TransferIDs)
=============================================================================
