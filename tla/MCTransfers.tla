---------------------------- MODULE MCTransfers ----------------------------
(* Instances of Transfers for TLC. *)
EXTENDS Transfers, TLC

\* Transfers are interchangeable, and so are the calls of one transfer.
Symmetry == Permutations(TransferIDs) \cup Permutations(Calls)
=============================================================================
