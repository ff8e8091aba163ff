------------------------------ MODULE MCButtons26 ------------------------------
(* Instances of Buttons26 for TLC. *)
EXTENDS Buttons26, TLC

\* Processes and files are interchangeable: the runs of safety properties use
\* this, the run of the liveness property does not.
Symmetry == Permutations(Procs) \union Permutations(Files)
===============================================================================
