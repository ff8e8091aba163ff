--------------------------- MODULE MCTouchScreen ---------------------------
(* Instances of TouchScreen for TLC. *)
EXTENDS TouchScreen

\* A place, one exactly ERR_LIMIT away on the first axis, and one just further
\* away on the second than a single sample may be in a reported point.
Places == {<<0, 0>>, <<10, 0>>, <<0, 22>>}
=============================================================================
