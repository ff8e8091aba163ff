----------------------------- MODULE DspSettings -----------------------------
(***************************************************************************)
(* What the sound driver (s3c-wm8976.c) computes from the numbers that     *)
(* applications give it: the geometry of the fragments, where they lie in  *)
(* memory, the volume and the input gain of the mixer, the divider of the  *)
(* sample clock, and the wires of the codec's serial port.                 *)
(***************************************************************************)
EXTENDS Integers

Low(m, n) == IF m < n THEN m ELSE n

-----------------------------------------------------------------------------
(* SNDCTL_DSP_SETFRAGMENT *)

MaxFragsize == 16384
MaxBytes == 128 * 1024

\* audio_fragsize, when 1 << (val & 0xFFFF) gives `shifted'.  A shift by 32 or
\* more is undefined, so that `shifted' may be any unsigned int.
Fragsize(shifted) ==
  IF shifted < 16 THEN 16 ELSE Low(shifted, MaxFragsize)

\* audio_nbfrags, for what the application asks for, (val >> 16) & 0x7FFF.
Nbfrags(asked, fragsize) ==
  LET n == IF asked < 2 THEN 2 ELSE asked
  IN IF n * fragsize > MaxBytes THEN MaxBytes \div fragsize ELSE n

-----------------------------------------------------------------------------
(* audio_setup_buf *)

\* Where the n fragments lie, counted in fragments.  The memory left may not
\* hold all of them in one piece: avail[f] is the largest piece that the
\* allocator has when fragment f needs a new one.  `master' is the size that
\* audio_clear_buf frees at this fragment; a new piece of size 0 is a failure.
FragmentLayout(n, avail) ==
  LET at[f \in 0 .. n - 1] ==
        LET prev == at[f - 1]
            size == Low(n - f, avail[f])
        IN IF f = 0 \/ prev.left = 0
           THEN [piece |-> f, start |-> 0, master |-> size, left |-> size - 1]
           ELSE [piece |-> prev.piece, start |-> prev.start + 1,
                 master |-> 0, left |-> prev.left - 1]
  IN at

-----------------------------------------------------------------------------
(* The mixer *)

\* SOUND_MIXER_WRITE_VOLUME: the codec's volume, six bits of registers 52, 53.
WriteVolume(val) == (((val % 256) + 1) * 63) \div 100

\* SOUND_MIXER_READ_VOLUME
ReadVolume(volume) == (volume * 100) \div 63

\* SOUND_MIXER_WRITE_IGAIN of a value in 0..100, and SOUND_MIXER_READ_IGAIN.
WriteIgain(val) == 31 - (val * 31) \div 100
ReadIgain(igain) == ((31 - igain) * 100) \div 31

-----------------------------------------------------------------------------
(* The sample clock *)

\* The loop over the 32 dividers of `clock', the bit clock's share of PCLK.
\* The difference that PCM_ABS is applied to is unsigned: it is never negative,
\* and a divided clock above the rate wraps around to a number that exceeds
\* every `min', however close it is.
iispsr_value(clock, rate) ==
  LET best[i \in 0 .. 32] ==
        IF i = 0
        THEN [prescaler |-> 0, min |-> 65535]
        ELSE LET tmp == clock \div i
                 prev == best[i - 1]
             IN IF tmp <= rate /\ rate - tmp < prev.min
                THEN [prescaler |-> i - 1, min |-> rate - tmp]
                ELSE prev
  IN best[32].prescaler

-----------------------------------------------------------------------------
(* The codec's serial port *)

\* The levels of the data pin GPB3 at the rising edges of the clock pin GPB4:
\* `val' is shifted left in 16 bits and its top bit is put out.
wm8976_write_reg(reg, data) ==
  LET val == (reg * 512 + (data % 512)) % 65536
      shifted[i \in 0 .. 15] ==
        IF i = 0 THEN val ELSE (2 * shifted[i - 1]) % 65536
  IN [i \in 0 .. 15 |-> IF shifted[i] >= 32768 THEN 1 ELSE 0]

\* The codec (external) takes the first 7 bits of the 16 before the latch pin
\* rises for the register and the other 9 for its contents, top bit first.
Word(bits, first, last) ==
  LET w[i \in first .. last] ==
        bits[i] + (IF i = first THEN 0 ELSE 2 * w[i - 1])
  IN w[last]
=============================================================================
