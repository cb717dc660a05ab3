------------------------------ MODULE MCStream ------------------------------
(* Instances of Stream for TLC. *)
EXTENDS Stream

\* One full chunk and its part that ends a device: all zero, or not.
Full == {<<0, 0>>, <<0, 1>>}
Short == {<<0>>, <<1>>}

\* Every placement of zero chunks: a device shorter than a chunk, one that ends
\* with a short chunk after a run of two, and (for the failed write) two chunks.
SmallContents == Short \cup {x \o y \o z : x \in Full, y \in Full, z \in Short}
TwoChunks == {x \o y : x \in Full, y \in Short}
=============================================================================
