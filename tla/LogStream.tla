----------------------------- MODULE LogStream -----------------------------
(***************************************************************************)
(* What the ring log promises its readers.  Characters are numbered in the *)
(* order they are written.  The log keeps the newest Capacity of them; one *)
(* cursor, shared by all readers, walks over what it keeps, in order and   *)
(* without gaps except for characters that were dropped before the cursor  *)
(* reached them, and an open moves it back to the oldest character kept.   *)
(***************************************************************************)
EXTENDS Integers

CONSTANT Capacity

VARIABLES
  lo,   \* number of the oldest character kept
  hi,   \* number of the next character to be written
  cur,  \* number of the next character to be read
  out   \* the character read last

logVars == <<lo, hi, cur, out>>

Init == lo = 0 /\ hi = 0 /\ cur = 0 /\ out = -1

Write ==
  /\ hi' = hi + 1
  /\ lo' = IF hi - lo = Capacity THEN lo + 1 ELSE lo
  /\ cur' = IF cur < lo' THEN lo' ELSE cur
  /\ out' = out

Take ==
  /\ cur < hi
  /\ out' = cur
  /\ cur' = cur + 1
  /\ UNCHANGED <<lo, hi>>

Rewind == cur' = lo /\ UNCHANGED <<lo, hi, out>>

Next == Write \/ Take \/ Rewind

Spec == Init /\ [][Next]_logVars
=============================================================================
