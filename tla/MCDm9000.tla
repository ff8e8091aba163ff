------------------------------ MODULE MCDm9000 ------------------------------
(* Instance of Dm9000 for TLC; its constants are numbers given in the cfg. *)
EXTENDS Dm9000
=============================================================================
