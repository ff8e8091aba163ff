------------------------------ MODULE MCAntiShakeKeys ------------------------------
(* Instances of AntiShakeKeys for TLC. *)
EXTENDS AntiShakeKeys, TLC

\* Processes and files are interchangeable: the runs of safety properties use
\* this, the run of the liveness property does not.
Symmetry == Permutations(Procs) \union Permutations(Files)
===================================================================================
