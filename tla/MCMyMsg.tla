------------------------------ MODULE MCMyMsg ------------------------------
(* Instances of MyMsg for TLC. *)
EXTENDS MyMsg, TLC

\* Readers are interchangeable: the safety runs use this.
Symmetry == Permutations(Readers)
=============================================================================
