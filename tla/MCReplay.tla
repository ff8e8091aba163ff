------------------------------ MODULE MCReplay ------------------------------
(* Instance of Replay for TLC: a file with a pause, and one that was recorded *)
(* while jiffies wrapped round.                                               *)
EXTENDS Replay

At(t, e) == [time |-> t, ev |-> e]

MCFiles == {<<At(5, "down"), At(5, "sync"), At(7, "up")>>, <<At(6, "down"), At(0, "up"), At(1, "sync")>>}

MCEvents == {"down", "up", "sync", "stray"}

MCDigits == {1}
=============================================================================
