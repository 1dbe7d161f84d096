------------------------------ MODULE Passband ------------------------------
(***************************************************************************)
(* The bins a measurement looks at (measure.rs start_window and finalize,  *)
(* config.rs passband_for): which FFT bins carry the signal, which ones    *)
(* are kept clear of it, and which ones are left to tell the noise.        *)
(*                                                                         *)
(* Frequencies are integers in one unit throughout; a quotient is rounded  *)
(* half away from zero, as f64::round does.                                *)
(***************************************************************************)
EXTENDS Integers, FiniteSetsExt

CONSTANT FFT_SIZE   \* samples in a frame, and bins in its spectrum

ASSUME FftAssumption == FFT_SIZE \in Nat /\ FFT_SIZE >= 4 /\ FFT_SIZE % 2 = 0

Center == FFT_SIZE \div 2

(* A quotient of an integer and a positive integer, rounded.               *)
Rounded(a, b) == IF a >= 0 THEN (2 * a + b) \div (2 * b) ELSE -((2 * (-a) + b) \div (2 * b))

OffsetBins(offset, rate) == Rounded(offset * FFT_SIZE, rate)
HalfWidthBins(width, rate) == Max({1, Rounded(width * FFT_SIZE, 2 * rate)})

(* sig_lo, sig_hi and half_width_bins.  A passband that ends below bin 0,  *)
(* which an accepted config does not have, would wrap in the code.         *)
BinRange(offset, width, rate) ==
    LET middle == Center + OffsetBins(offset, rate)
        half == HalfWidthBins(width, rate)
    IN [lo |-> Max({0, middle - half}),
        hi |-> Min({FFT_SIZE - 1, middle + half}),
        half |-> half]

GuardNone(range) == 0  \* mutant: the noise is told right beside the signal

(* The guard on each side is as wide as half the passband.                 *)
Guard(range) == range.half
GuardLo(range) == Max({0, range.lo - Guard(range)})
GuardHi(range) == Min({FFT_SIZE - 1, range.hi + Guard(range)})

SignalBins(range) == range.lo .. range.hi
NoiseBins(range) == (0 .. FFT_SIZE - 1) \ (GuardLo(range) .. GuardHi(range))

(* finalize answers None unless both are there; decided from the bounds,   *)
(* which is the same as NoiseBins(range) # {}.                             *)
HasNoiseBins(range) == GuardLo(range) > 0 \/ GuardHi(range) < FFT_SIZE - 1
Measurable(range) == range.hi > range.lo /\ HasNoiseBins(range)
=============================================================================
