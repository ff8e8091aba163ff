------------------------------ MODULE MCSound ------------------------------
(* The sound driver with threads and files as model values. *)
EXTENDS Sound, DspSettings, TLC

CONSTANTS p1, p2, f1, f2

TwoProcs == {p1, p2}
TwoFiles == {f1, f2}
SomeCounts == {3}

\* Files are interchangeable, no property and no fairness condition names one:
\* the run opens a fixed one of those that are not open.
OpensFirst ==
  \A p \in Procs :
    fd[p] = None /\ fd'[p] # None /\ mode[fd'[p]] = {}
      => fd'[p] = CHOOSE f \in Files : mode[f] = {}

MCNext == Next /\ OpensFirst

MCFairSpec == Init /\ [][MCNext]_vars /\ Fairness

-----------------------------------------------------------------------------
(* The driver's arithmetic, on all of its inputs or the interesting ones *)

\* Whatever pieces the allocator has: no two fragments share memory, and the
\* pieces that audio_clear_buf frees are those that were allocated, each once
\* and with its size (s3c-wm8976.c:344-396, :327-334).
ASSUME FragmentsApart ==
  \A n \in 2 .. 5 : \A avail \in [0 .. n - 1 -> 1 .. n] :
    LET at == FragmentLayout(n, avail)
    IN \A f \in 0 .. n - 1 :
         /\ f = at[f].piece + at[f].start
         /\ at[f].start < at[at[f].piece].master
         /\ at[f].master > 0 <=> at[f].piece = f

\* The divider chosen is the nearest one whose clock is not above the rate, and
\* prescaler 0, the fastest clock, when there is none within 65534 Hz; PCLK is
\* 50 MHz.  Rates in between the dividers' are played too slowly, never too
\* fast, although a faster one may be nearer (s3c-wm8976.c:758-779).
NearestBelow(clock, rate) ==
  LET near == {i \in 0 .. 31 : clock \div (i + 1) <= rate
                               /\ rate - clock \div (i + 1) < 65535}
  IN IF near = {} THEN 0 ELSE CHOOSE i \in near : \A j \in near : i <= j

ASSUME ClockFromBelow ==
  LET clock == 50000000 \div 384
  IN \A rate \in {-44100, -1, 0, 1} \union {125 * k : k \in 32 .. 1600} :
       iispsr_value(clock, rate) = NearestBelow(clock, rate)

\* Example: 32000 Hz is played at 26041 Hz, though 32552 Hz is nearer.
ASSUME SlowClock ==
  LET clock == 50000000 \div 384
  IN clock \div (iispsr_value(clock, 32000) + 1) = 26041 /\ clock \div 4 = 32552

\* The codec receives the register and the contents that it is sent, for every
\* register number and every 9 bits (s3c-wm8976.c:218-256).
ASSUME CodecReceives ==
  \A reg \in 0 .. 127 : \A contents \in 0 .. 511 :
    LET bits == wm8976_write_reg(reg, contents)
    IN Word(bits, 0, 6) = reg /\ Word(bits, 7, 15) = contents

\* Writing back the input gain that was read loses a step each time, down to
\* silence, except at full gain (s3c-wm8976.c:733-741).
ASSUME IgainDrifts ==
  \A igain \in 1 .. 30 : WriteIgain(ReadIgain(igain)) = igain + 1
=============================================================================
