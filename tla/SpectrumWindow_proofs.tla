------------------------ MODULE SpectrumWindow_proofs ------------------------
(***************************************************************************)
(* Proofs about SpectrumWindow, for every FFT size, set of passbands, ring *)
(* and signal: the frames are the window cut up, the figures are those of  *)
(* its frames, the rows of the waterfall are in order.                     *)
(*                                                                         *)
(* Sums and the samples of a read are recursive, so the first part has     *)
(* what it takes to reason about them: that a set of numbers has a least   *)
(* one, hence induction on a set, hence that a sum over a finite set does  *)
(* not depend on the order.  Then one part for each of the code's: bins,   *)
(* spectrum, analyzer (Accumulates: what its accumulators are of the       *)
(* frames it got), waterfall (Draws: what the ring holds), and at the end  *)
(* the invariant and the steps of run_inner.                               *)
(***************************************************************************)
EXTENDS SpectrumWindow, FiniteSetTheorems, TLAPS

-----------------------------------------------------------------------------
(* Induction, over sets.                                                   *)

(* A set of numbers has a least one: of the intervals up to them, one      *)
(* contains no other.                                                      *)
LEMMA Least ==
    ASSUME NEW T \in SUBSET Nat, T # {}
    PROVE  \E x \in T : \A y \in T : x <= y
<1>. DEFINE F == {1..k : k \in T}
<1>1. F # {} /\ F \subseteq FiniteSubsetsOf(Nat)
  <2>1. ASSUME NEW k \in T PROVE 1..k \in FiniteSubsetsOf(Nat)
    BY FS_Interval DEF FiniteSubsetsOf
  <2>2. QED BY <2>1
<1>2. PICK s \in F : \A t \in F : ~(<<t, s>> \in StrictSubsetOrdering(Nat))
  BY <1>1, FS_StrictSubsetOrderingWellFounded, WFMin
<1>3. PICK x \in T : s = 1..x
  BY <1>2
<1>4. ASSUME NEW y \in T, y < x PROVE FALSE
  <2>1. 1..y \subseteq 1..x /\ x \in 1..x /\ x \notin 1..y
    BY <1>4
  <2>2. <<1..y, s>> \in StrictSubsetOrdering(Nat)
    BY <1>3, <2>1 DEF StrictSubsetOrdering
  <2>3. QED BY <1>2, <2>2
<1>5. QED BY <1>3, <1>4

(* So what holds of 0, and of each number after one it holds of, holds of  *)
(* all of them.                                                            *)
LEMMA Induction ==
    ASSUME NEW P, 0 \in P, \A n \in Nat : n \in P => n + 1 \in P
    PROVE  \A n \in Nat : n \in P
<1>1. SUFFICES ASSUME Nat \ P # {} PROVE FALSE
  OBVIOUS
<1>2. PICK x \in Nat \ P : \A y \in Nat \ P : x <= y
  BY <1>1, Least
<1>3. x # 0 /\ x - 1 \in Nat
  BY <1>2
<1>4. x - 1 \in P
  BY <1>2, <1>3
<1>5. QED BY <1>2, <1>3, <1>4

-----------------------------------------------------------------------------
(* Sums over finite sets                                                   *)

(* Counting, with an element taken out.                                    *)
LEMMA OneLess ==
    ASSUME NEW S, IsFiniteSet(S), NEW x \in S, NEW n \in Nat, Cardinality(S) = n + 1
    PROVE  Cardinality(S \ {x}) = n
<1>1. Cardinality(S \ {x}) \in Nat
  BY FS_RemoveElement, FS_CardinalityType
<1>2. Cardinality(S \ {x}) = Cardinality(S) - 1
  BY FS_RemoveElement
<1>3. QED BY <1>1, <1>2

(* What the sum of f computes for each subset of S.                        *)
Summed(g, f, S) ==
    g = [s \in SUBSET S |->
            IF s = {} THEN 0 ELSE LET x == CHOOSE x \in s : TRUE IN f[x] + g[s \ {x}]]

(* And what it has to be, whichever element is taken out first.            *)
Additive(g, f, S) ==
    /\ g \in [SUBSET S -> Nat] /\ g[{}] = 0
    /\ \A s \in SUBSET S : \A x \in s : g[s] = f[x] + g[s \ {x}]

(* It is that, where there is such a function.                             *)
LEMMA SumOf ==
    ASSUME NEW S, IsFiniteSet(S), NEW f, NEW g, Additive(g, f, S)
    PROVE  SumFunctionOnSet(f, S) = g[S]
<1>1. Summed(g, f, S)
  <2>1. ASSUME NEW s \in SUBSET S
        PROVE  g[s] = IF s = {} THEN 0 ELSE LET x == CHOOSE x \in s : TRUE IN f[x] + g[s \ {x}]
    <3>1. CASE s = {}
      BY <3>1 DEF Additive
    <3>2. CASE s # {}
      <4>1. (CHOOSE x \in s : TRUE) \in s
        BY <3>2
      <4>2. QED BY <3>2, <4>1 DEF Additive
    <3>3. QED BY <3>1, <3>2
  <2>2. QED BY <2>1 DEF Additive, Summed
<1>. DEFINE h == CHOOSE k : Summed(k, f, S)
<1>2. SumFunctionOnSet(f, S) = h[S]
  BY DEF SumFunctionOnSet, FoldFunctionOnSet, MapThenFoldSet, Summed
<1>3. Summed(h, f, S)
  BY <1>1
<1>. HIDE DEF h
<1>. DEFINE P == {n \in Nat : \A s \in SUBSET S : Cardinality(s) = n => h[s] = g[s]}
<1>4. 0 \in P
  <2>1. \A s \in SUBSET S : Cardinality(s) = 0 => s = {}
    BY FS_Subset, FS_EmptySet
  <2>2. QED BY <1>3, <2>1 DEF Summed, Additive
<1>5. ASSUME NEW n \in Nat, n \in P PROVE n + 1 \in P
  <2>1. SUFFICES ASSUME NEW s \in SUBSET S, Cardinality(s) = n + 1 PROVE h[s] = g[s]
    OBVIOUS
  <2>2. s # {} /\ IsFiniteSet(s)
    BY <2>1, FS_Subset, FS_EmptySet
  <2>. DEFINE x == CHOOSE x \in s : TRUE
  <2>3. x \in s
    BY <2>2
  <2>4. Cardinality(s \ {x}) = n
    BY <2>1, <2>2, <2>3, OneLess
  <2>5. h[s \ {x}] = g[s \ {x}]
    BY <1>5, <2>4
  <2>6. h[s] = f[x] + h[s \ {x}]
    BY <1>3, <2>2 DEF Summed
  <2>7. g[s] = f[x] + g[s \ {x}]
    BY <2>3 DEF Additive
  <2>8. QED BY <2>5, <2>6, <2>7
<1>. HIDE DEF P
<1>6. \A n \in Nat : n \in P
  BY <1>4, <1>5, Induction
<1>7. Cardinality(S) \in P
  BY <1>6, FS_CardinalityType
<1>8. QED BY <1>2, <1>7 DEF P

(* There is one for every finite set: one more element, by the one it has. *)
LEMMA SumExists ==
    ASSUME NEW U, IsFiniteSet(U), NEW f, \A x \in U : f[x] \in Nat
    PROVE  \E g : Additive(g, f, U)
<1>. DEFINE P == {n \in Nat : \A S \in SUBSET U : Cardinality(S) = n => \E g : Additive(g, f, S)}
<1>1. 0 \in P
  <2>1. \A S \in SUBSET U : Cardinality(S) = 0 => S = {}
    BY FS_Subset, FS_EmptySet
  <2>2. Additive([s \in SUBSET {} |-> 0], f, {})
    BY DEF Additive
  <2>3. QED BY <2>1, <2>2
<1>2. ASSUME NEW n \in Nat, n \in P PROVE n + 1 \in P
  <2>1. SUFFICES ASSUME NEW S \in SUBSET U, Cardinality(S) = n + 1 PROVE \E g : Additive(g, f, S)
    OBVIOUS
  <2>2. S # {} /\ IsFiniteSet(S)
    BY <2>1, FS_Subset, FS_EmptySet
  <2>3. PICK x : x \in S
    BY <2>2
  <2>4. Cardinality(S \ {x}) = n
    BY <2>1, <2>2, <2>3, OneLess
  <2>5. PICK g : Additive(g, f, S \ {x})
    BY <1>2, <2>4
  <2>. DEFINE h == [s \in SUBSET S |-> IF x \in s THEN f[x] + g[s \ {x}] ELSE g[s]]
  <2>6. \A s \in SUBSET S : s \ {x} \in SUBSET (S \ {x}) /\ g[s \ {x}] \in Nat
    BY <2>5 DEF Additive
  <2>7. h \in [SUBSET S -> Nat] /\ h[{}] = 0
    BY <2>3, <2>5, <2>6 DEF Additive
  <2>8. ASSUME NEW s \in SUBSET S, NEW y \in s PROVE h[s] = f[y] + h[s \ {y}]
    <3>1. CASE x \notin s
      BY <2>5, <3>1 DEF Additive
    <3>2. CASE y = x
      BY <3>2
    <3>3. CASE x \in s /\ y # x
      <4>1. y \in s \ {x} /\ (s \ {x}) \ {y} = (s \ {y}) \ {x} /\ s \ {y} \in SUBSET S /\ x \in s \ {y}
        BY <3>3
      <4>2. g[s \ {x}] = f[y] + g[(s \ {x}) \ {y}]
        BY <2>5, <2>6, <4>1 DEF Additive
      <4>3. h[s] = f[x] + g[s \ {x}] /\ h[s \ {y}] = f[x] + g[(s \ {y}) \ {x}]
        BY <3>3, <4>1
      <4>4. f[x] \in Nat /\ f[y] \in Nat /\ g[(s \ {y}) \ {x}] \in Nat
        BY <2>3, <2>6, <4>1
      <4>. HIDE DEF h
      <4>5. f[x] + (f[y] + g[(s \ {y}) \ {x}]) = f[y] + (f[x] + g[(s \ {y}) \ {x}])
        BY <4>4
      <4>6. QED BY <4>1, <4>2, <4>3, <4>5
    <3>4. QED BY <3>1, <3>2, <3>3
  <2>9. Additive(h, f, S)
    BY <2>7, <2>8 DEF Additive
  <2>10. QED BY <2>9
<1>. HIDE DEF P
<1>3. \A n \in Nat : n \in P
  BY <1>1, <1>2, Induction
<1>4. Cardinality(U) \in P
  BY <1>3, FS_CardinalityType
<1>5. QED BY <1>4 DEF P

(* What the sums need to be known by.                                      *)
LEMMA Sums ==
    ASSUME NEW S, IsFiniteSet(S), NEW f, \A x \in S : f[x] \in Nat
    PROVE  SumFunctionOnSet(f, S) \in Nat
<1>1. PICK g : Additive(g, f, S)
  BY SumExists
<1>2. S \in SUBSET S /\ SumFunctionOnSet(f, S) = g[S]
  BY <1>1, SumOf
<1>3. QED BY <1>1, <1>2 DEF Additive

(* A sum looks at nothing but the elements.                                *)
LEMMA SumsAgree ==
    ASSUME NEW S, IsFiniteSet(S), NEW f, NEW h, \A x \in S : f[x] \in Nat /\ f[x] = h[x]
    PROVE  SumFunctionOnSet(f, S) = SumFunctionOnSet(h, S)
<1>1. PICK g : Additive(g, f, S)
  BY SumExists
<1>2. Additive(g, h, S)
  BY <1>1 DEF Additive
<1>3. QED BY <1>1, <1>2, SumOf

(* One element more.                                                       *)
LEMMA SumOneMore ==
    ASSUME NEW S, IsFiniteSet(S), NEW x, x \notin S, NEW f, NEW h,
           \A y \in S : f[y] \in Nat /\ f[y] = h[y], f[x] \in Nat
    PROVE  SumFunctionOnSet(f, S \cup {x}) = SumFunctionOnSet(h, S) + f[x]
<1>. DEFINE T == S \cup {x}
<1>1. IsFiniteSet(T) /\ x \in T /\ T \ {x} = S /\ \A y \in T : f[y] \in Nat
  BY FS_AddElement
<1>. HIDE DEF T
<1>2. PICK g : Additive(g, f, T)
  BY <1>1, SumExists
<1>. DEFINE r == [s \in SUBSET S |-> g[s]]
<1>3. SUBSET S \subseteq SUBSET T
  BY <1>1
<1>4. Additive(r, h, S)
  <2>1. r \in [SUBSET S -> Nat] /\ r[{}] = 0
    BY <1>2, <1>3 DEF Additive
  <2>2. ASSUME NEW s \in SUBSET S, NEW y \in s PROVE r[s] = h[y] + r[s \ {y}]
    BY <1>2, <1>3 DEF Additive
  <2>3. QED BY <2>1, <2>2 DEF Additive
<1>5. SumFunctionOnSet(f, T) = g[T] /\ SumFunctionOnSet(h, S) = g[S]
  BY <1>1, <1>2, <1>4, SumOf
<1>6. g[T] = f[x] + g[S] /\ g[S] \in Nat
  BY <1>1, <1>2, <1>3 DEF Additive
<1>7. QED BY <1>5, <1>6 DEF T

(* Nothing to add.                                                         *)
LEMMA SumOfNone == \A f : SumFunctionOnSet(f, {}) = 0
<1>1. SUFFICES ASSUME NEW f PROVE SumFunctionOnSet(f, {}) = 0
  OBVIOUS
<1>2. Additive([s \in SUBSET {} |-> 0], f, {})
  BY DEF Additive
<1>3. QED BY <1>2, SumOf, FS_EmptySet

(* The same, so many times.                                                *)
LEMMA SumOfSame ==
    ASSUME NEW S, IsFiniteSet(S), NEW c \in Nat, NEW f, \A x \in S : f[x] = c
    PROVE  SumFunctionOnSet(f, S) = Cardinality(S) * c
<1>. DEFINE g == [s \in SUBSET S |-> Cardinality(s) * c]
<1>1. \A s \in SUBSET S : IsFiniteSet(s) /\ Cardinality(s) \in Nat
  BY FS_Subset, FS_CardinalityType
<1>2. g \in [SUBSET S -> Nat] /\ g[{}] = 0
  BY <1>1, FS_EmptySet
<1>3. ASSUME NEW s \in SUBSET S, NEW x \in s PROVE g[s] = f[x] + g[s \ {x}]
  <2>1. Cardinality(s) = Cardinality(s \ {x}) + 1 /\ Cardinality(s \ {x}) \in Nat
    BY <1>1, FS_RemoveElement
  <2>2. (Cardinality(s \ {x}) + 1) * c = c + Cardinality(s \ {x}) * c
    BY <2>1
  <2>3. QED BY <2>1, <2>2
<1>4. Additive(g, f, S)
  BY <1>2, <1>3 DEF Additive
<1>5. QED BY <1>4, SumOf

-----------------------------------------------------------------------------
(* The larger and the smaller                                              *)

(* Of two numbers.                                                         *)
LEMMA OfTwo ==
    ASSUME NEW a \in Int, NEW b \in Int
    PROVE  /\ Max({a, b}) = IF a >= b THEN a ELSE b
           /\ Min({a, b}) = IF a <= b THEN a ELSE b
<1>1. \A m \in {a, b} : (\A y \in {a, b} : m >= y) => m = IF a >= b THEN a ELSE b
  OBVIOUS
<1>2. \A m \in {a, b} : (\A y \in {a, b} : m <= y) => m = IF a <= b THEN a ELSE b
  OBVIOUS
<1>3. \E m \in {a, b} : \A y \in {a, b} : m >= y
  OBVIOUS
<1>4. \E m \in {a, b} : \A y \in {a, b} : m <= y
  OBVIOUS
<1>5. Max({a, b}) = IF a >= b THEN a ELSE b
  BY <1>1, <1>3 DEF Max
<1>6. Min({a, b}) = IF a <= b THEN a ELSE b
  BY <1>2, <1>4 DEF Min
<1>7. QED BY <1>5, <1>6

(* What is in a set and no less than the others is its maximum.            *)
LEMMA IsMax ==
    ASSUME NEW S \in SUBSET Int, NEW m \in S, \A y \in S : m >= y
    PROVE  Max(S) = m
<1>1. \A x \in S : (\A y \in S : x >= y) => x = m
  OBVIOUS
<1>2. QED BY <1>1 DEF Max

-----------------------------------------------------------------------------
(* The bins (Passband)                                                     *)

(* A quotient by a positive number, rounded, is an integer.                *)
LEMMA RoundedIsInt ==
    ASSUME NEW a \in Int, NEW b \in Nat \ {0}
    PROVE  Rounded(a, b) \in Int
<1>1. 2 * a + b \in Int /\ 2 * (-a) + b \in Int /\ 2 * b \in Nat /\ 2 * b > 0
  OBVIOUS
<1>2. \A x \in Int, y \in Nat : y > 0 => x \div y \in Int
  OBVIOUS
<1>3. QED BY <1>1, <1>2 DEF Rounded

(* The passband of a band is a range of bins, as far as it is one, and the *)
(* guard is at least one bin wide.                                         *)
LEMMA RangeOfBand ==
    ASSUME NEW b \in Bands
    PROVE  LET r == BinRange(b.offset, b.width, b.rate)
           IN /\ r \in [lo : Nat, hi : Int, half : Nat]
              /\ r.hi < FFT_SIZE
<1>1. b.offset \in Int /\ b.width \in Nat /\ b.rate \in Nat \ {0} /\ FFT_SIZE \in Nat
  BY BandsAssumption, FftAssumption
<1>2. b.offset * FFT_SIZE \in Int /\ b.width * FFT_SIZE \in Int /\ 2 * b.rate \in Nat \ {0}
  BY <1>1
<1>3. OffsetBins(b.offset, b.rate) \in Int
  BY <1>1, <1>2, RoundedIsInt DEF OffsetBins
<1>4. Rounded(b.width * FFT_SIZE, 2 * b.rate) \in Int
  BY <1>2, RoundedIsInt
<1>5. HalfWidthBins(b.width, b.rate) \in Nat
  <2>. DEFINE r == Rounded(b.width * FFT_SIZE, 2 * b.rate)
  <2>1. r \in Int
    BY <1>4
  <2>. HIDE DEF r
  <2>2. Max({1, r}) = IF 1 >= r THEN 1 ELSE r
    BY <2>1, OfTwo
  <2>3. QED BY <2>1, <2>2 DEF HalfWidthBins, r
<1>6. Center \in Int
  BY <1>1 DEF Center
<1>. DEFINE low == (Center + OffsetBins(b.offset, b.rate)) - HalfWidthBins(b.width, b.rate)
            high == (Center + OffsetBins(b.offset, b.rate)) + HalfWidthBins(b.width, b.rate)
<1>7. low \in Int /\ high \in Int
  BY <1>3, <1>5, <1>6
<1>8. BinRange(b.offset, b.width, b.rate)
        = [lo |-> Max({0, low}), hi |-> Min({FFT_SIZE - 1, high}), half |-> HalfWidthBins(b.width, b.rate)]
  BY DEF BinRange
<1>. HIDE DEF low, high
<1>9. Max({0, low}) \in Nat
  BY <1>7, OfTwo
<1>10. Min({FFT_SIZE - 1, high}) \in Int /\ Min({FFT_SIZE - 1, high}) < FFT_SIZE
  <2>. DEFINE last == FFT_SIZE - 1
  <2>1. last \in Int
    BY <1>1
  <2>. HIDE DEF last
  <2>2. Min({last, high}) = IF last <= high THEN last ELSE high
    BY <1>7, <2>1, OfTwo
  <2>3. Min({last, high}) \in Int /\ Min({last, high}) <= last
    BY <1>7, <2>1, <2>2
  <2>4. QED BY <1>1, <2>3 DEF last
<1>11. QED BY <1>5, <1>8, <1>9, <1>10

(* What the analyzer needs of the range it was started with.               *)
Fits(range) == range \in [lo : Nat, hi : Int, half : Nat] /\ range.hi < FFT_SIZE

(* The bins of the signal are bins of the spectrum; as many as there seem. *)
LEMMA SignalBinsFit ==
    ASSUME NEW range, Fits(range)
    PROVE  /\ SignalBins(range) \subseteq Bins
           /\ IsFiniteSet(SignalBins(range)) /\ Cardinality(SignalBins(range)) \in Nat
           /\ range.hi > range.lo => Cardinality(SignalBins(range)) = range.hi - range.lo + 1
<1>1. FFT_SIZE \in Nat /\ range.lo \in Nat /\ range.hi \in Int
  BY FftAssumption DEF Fits
<1>2. SignalBins(range) \subseteq Bins
  BY <1>1 DEF SignalBins, Bins, Fits
<1>3. IsFiniteSet(SignalBins(range)) /\ Cardinality(SignalBins(range)) \in Nat
  <2>1. IsFiniteSet(SignalBins(range))
    BY <1>1, FS_Interval DEF SignalBins
  <2>2. QED BY <2>1, FS_CardinalityType
<1>4. ASSUME range.hi > range.lo
      PROVE  Cardinality(SignalBins(range)) = range.hi - range.lo + 1
  BY <1>1, <1>4, FS_Interval DEF SignalBins
<1>5. QED BY <1>2, <1>3, <1>4

(* The bins left to tell the noise are off the signal and its guard, and   *)
(* where the bounds say that there is one, there is.                       *)
LEMMA NoiseBinsApart ==
    ASSUME NEW range, Fits(range)
    PROVE  /\ NoiseBins(range) \subseteq Bins
           /\ NoiseBins(range) \cap (range.lo - range.half .. range.hi + range.half) = {}
           /\ HasNoiseBins(range) => NoiseBins(range) # {}
<1>1. FFT_SIZE \in Nat /\ FFT_SIZE >= 4 /\ range.lo \in Nat /\ range.hi \in Int /\ range.half \in Nat
  BY FftAssumption DEF Fits
<1>2. GuardLo(range) = IF 0 >= range.lo - range.half THEN 0 ELSE range.lo - range.half
  BY <1>1, OfTwo DEF GuardLo, Guard
<1>3. GuardHi(range)
        = IF FFT_SIZE - 1 <= range.hi + range.half THEN FFT_SIZE - 1 ELSE range.hi + range.half
  <2>. DEFINE a == FFT_SIZE - 1
              b == range.hi + range.half
  <2>1. a \in Int /\ b \in Int
    BY <1>1
  <2>. HIDE DEF a, b
  <2>2. Min({a, b}) = IF a <= b THEN a ELSE b
    BY <2>1, OfTwo
  <2>3. QED BY <2>2 DEF GuardHi, Guard, a, b
<1>4. NoiseBins(range) \subseteq Bins
  BY DEF NoiseBins, Bins
<1>5. NoiseBins(range) \cap (range.lo - range.half .. range.hi + range.half) = {}
  BY <1>1, <1>2, <1>3 DEF NoiseBins
<1>6. ASSUME HasNoiseBins(range) PROVE NoiseBins(range) # {}
  <2>1. CASE GuardLo(range) > 0
    <3>1. 0 \in NoiseBins(range)
      BY <1>1, <1>2, <2>1 DEF NoiseBins
    <3>2. QED BY <3>1
  <2>2. CASE GuardHi(range) < FFT_SIZE - 1
    <3>1. FFT_SIZE - 1 \in NoiseBins(range)
      BY <1>1, <1>3, <2>2 DEF NoiseBins
    <3>2. QED BY <3>1
  <2>3. QED BY <1>6, <2>1, <2>2 DEF HasNoiseBins
<1>7. QED BY <1>4, <1>5, <1>6

(* The middle of what is the same everywhere.                              *)
LEMMA MedianOfSame ==
    ASSUME NEW bins, IsFiniteSet(bins), bins # {}, NEW c \in Nat,
           NEW psd, \A k \in bins : psd[k] = c
    PROVE  Median(bins, psd) = c
<1>1. {psd[k] : k \in bins} = {c}
  OBVIOUS
<1>2. {k \in bins : psd[k] < c} = {} /\ {k \in bins : psd[k] <= c} = bins
  OBVIOUS
<1>3. Cardinality(bins) \in Nat /\ Cardinality(bins) # 0 /\ Cardinality({}) = 0
  BY FS_CardinalityType, FS_EmptySet
<1>4. 0 <= Cardinality(bins) \div 2 /\ Cardinality(bins) > Cardinality(bins) \div 2
  BY <1>3
<1>5. QED BY <1>1, <1>2, <1>3, <1>4 DEF Median

-----------------------------------------------------------------------------
(* A frame and its spectrum                                                *)

(* The passband the analyzer is started with.                              *)
LEMMA SignalRangeFits ==
    ASSUME band \in Bands
    PROVE  Fits(SignalRange)
BY RangeOfBand DEF SignalRange, Fits

(* How often the beacon was on the air in a frame is a number.             *)
LEMMA OnAirIsNat ==
    ASSUME NEW frame \in Frame
    PROVE  OnAir(frame) \in Nat
<1>1. IsFiniteSet(1 .. FFT_SIZE)
  BY FftAssumption, FS_Interval
<1>2. {i \in DOMAIN frame : frame[i].on} \subseteq 1 .. FFT_SIZE
  BY DEF Frame
<1>3. QED BY <1>1, <1>2, FS_Subset, FS_CardinalityType DEF OnAir

(* The spectrum of a frame: a number in each bin, the noise alone in those *)
(* the noise is told from, and in the passband what the sum over it takes  *)
(* as often as it has bins.                                                *)
LEMMA SpectrumOfFrame ==
    ASSUME band \in Bands, NEW frame \in Frame
    PROVE  /\ Spectrum(frame) \in [Bins -> Nat]
           /\ \A k \in NoiseBins(SignalRange) : Spectrum(frame)[k] = Floor
           /\ SumFunctionOnSet(Spectrum(frame), SignalBins(SignalRange)) = TruePower(frame)
           /\ TruePower(frame) \in Nat
<1>1. Floor \in Nat /\ Strength \in Nat /\ Leak \in Nat
  BY SizesAssumption
<1>2. OnAir(frame) \in Nat
  BY OnAirIsNat
<1>3. /\ SignalBins(SignalRange) \subseteq Bins /\ NoiseBins(SignalRange) \subseteq Bins
      /\ NoiseBins(SignalRange) \cap Near = {}
      /\ IsFiniteSet(SignalBins(SignalRange)) /\ SignalBinCount \in Nat
  BY SignalRangeFits, SignalBinsFit, NoiseBinsApart DEF Near, SignalBinCount
<1>4. SignalBins(SignalRange) \subseteq Near
  BY SignalRangeFits DEF Fits, SignalBins, Near
<1>5. \A k \in Bins : Received(k) \in Nat
  BY <1>1 DEF Received
<1>6. \A k \in Bins : Floor + OnAir(frame) * Received(k) \in Nat
  BY <1>1, <1>2, <1>5
<1>7. \A k \in NoiseBins(SignalRange) : Received(k) = 0
  BY <1>3, <1>4 DEF Received
<1>8. Floor + OnAir(frame) * 0 = Floor
  BY <1>1, <1>2
<1>. DEFINE c == Floor + OnAir(frame) * Strength
<1>9. c \in Nat
  BY <1>1, <1>2
<1>10. \A k \in SignalBins(SignalRange) : Spectrum(frame)[k] = c
  BY <1>3 DEF Spectrum, Received
<1>. HIDE DEF c
<1>11. SumFunctionOnSet(Spectrum(frame), SignalBins(SignalRange)) = SignalBinCount * c
  BY <1>3, <1>9, <1>10, SumOfSame DEF SignalBinCount
<1>12. TruePower(frame) = SignalBinCount * c
  BY DEF TruePower, c
<1>13. TruePower(frame) \in Nat
  BY <1>3, <1>9, <1>12
<1>14. Spectrum(frame) \in [Bins -> Nat]
  BY <1>6 DEF Spectrum
<1>15. \A k \in NoiseBins(SignalRange) : Spectrum(frame)[k] = Floor
  BY <1>3, <1>7, <1>8 DEF Spectrum
<1>16. QED BY <1>11, <1>12, <1>13, <1>14, <1>15

-----------------------------------------------------------------------------
(* The analyzer                                                            *)

(* What its accumulators are of the frames it was given.                   *)
Accumulates(a, frames) ==
    /\ a.window_open /\ a.sig = SignalRange
    /\ a.frame_count = Len(frames) /\ Len(a.frame_powers) = Len(frames)
    /\ \A i \in DOMAIN frames : a.frame_powers[i] = TruePower(frames[i])
    /\ \A k \in NoiseBins(SignalRange) : a.psd_sum[k] = Floor * Len(frames)
    /\ \A i \in DOMAIN frames : a.sig_peak_power >= a.frame_powers[i]
    /\ IF frames = <<>> THEN a.sig_peak_power = 0
       ELSE \E i \in DOMAIN frames : a.sig_peak_power = a.frame_powers[i]
    /\ a.sig_sum_power = SumFunctionOnSet(a.frame_powers, DOMAIN a.frame_powers)

(* start_window begins with nothing.                                       *)
LEMMA StartsWithNothing ==
    ASSUME band \in Bands, NEW a
    PROVE  StartedOver(a) \in Analyzer /\ Accumulates(StartedOver(a), <<>>)
<1>1. StartedOver(a) \in Analyzer
  BY SignalRangeFits DEF StartedOver, Analyzer, Fits
<1>2. DOMAIN StartedOver(a).frame_powers = {} /\ StartedOver(a).sig_sum_power = 0
  BY DEF StartedOver
<1>3. StartedOver(a).sig_sum_power
        = SumFunctionOnSet(StartedOver(a).frame_powers, DOMAIN StartedOver(a).frame_powers)
  BY <1>2, SumOfNone
<1>4. Floor * 0 = 0
  BY SizesAssumption
<1>5. \A k \in NoiseBins(SignalRange) : StartedOver(a).psd_sum[k] = Floor * Len(<<>>)
  BY <1>4, SignalRangeFits, NoiseBinsApart DEF StartedOver
<1>6. QED BY <1>1, <1>3, <1>5 DEF StartedOver, Accumulates

(* add_frame adds one.                                                     *)
LEMMA AddsOne ==
    ASSUME band \in Bands, NEW a \in Analyzer, NEW frames \in Seq(Frame), NEW frame \in Frame,
           Accumulates(a, frames)
    PROVE  /\ AddFrame(a, frame) \in Analyzer
           /\ Accumulates(AddFrame(a, frame), Append(frames, frame))
<1>. DEFINE spectrum == Spectrum(frame)
            power == TruePower(frame)
            b == AddFrame(a, frame)
            more == Append(frames, frame)
            n == Len(frames)
<1>1. /\ spectrum \in [Bins -> Nat] /\ power \in Nat
      /\ \A k \in NoiseBins(SignalRange) : spectrum[k] = Floor
      /\ SumFunctionOnSet(spectrum, SignalBins(a.sig)) = power
  BY SpectrumOfFrame DEF Accumulates
<1>2. power \in Nat
  BY <1>1
<1>3. /\ b.window_open = a.window_open /\ b.sig = a.sig
      /\ b.sig_peak_power = Max({a.sig_peak_power, power})
      /\ b.sig_sum_power = a.sig_sum_power + power
      /\ b.frame_count = a.frame_count + 1
  BY <1>1 DEF AddFrame, Analyzer
<1>4. b.psd_sum = [k \in Bins |-> a.psd_sum[k] + spectrum[k]]
  BY <1>1 DEF AddFrame, Analyzer
<1>5. b.frame_powers = Append(a.frame_powers, power)
  BY <1>1 DEF AddFrame, Analyzer
<1>6. b \in [window_open : {b.window_open}, sig : {b.sig}, psd_sum : {b.psd_sum},
             sig_peak_power : {b.sig_peak_power}, sig_sum_power : {b.sig_sum_power},
             frame_powers : {b.frame_powers}, frame_count : {b.frame_count}]
  BY DEF AddFrame, Analyzer
<1>. HIDE DEF spectrum, power, b
<1>7. /\ a.window_open \in BOOLEAN /\ a.sig \in [lo : Int, hi : Int, half : Int]
      /\ a.psd_sum \in [Bins -> Nat] /\ a.sig_peak_power \in Nat /\ a.sig_sum_power \in Nat
      /\ a.frame_powers \in Seq(Nat) /\ a.frame_count \in Nat
  BY DEF Analyzer
<1>8. b.sig_peak_power = IF a.sig_peak_power >= power THEN a.sig_peak_power ELSE power
  <2>. DEFINE x == a.sig_peak_power
  <2>1. x \in Int /\ power \in Int
    BY <1>7, <1>2
  <2>. HIDE DEF x
  <2>2. Max({x, power}) = IF x >= power THEN x ELSE power
    BY <2>1, OfTwo
  <2>3. QED BY <1>3, <2>2 DEF x
<1>9. b.psd_sum \in [Bins -> Nat]
  <2>1. \A k \in Bins : a.psd_sum[k] \in Nat /\ spectrum[k] \in Nat
    BY <1>1, <1>7
  <2>2. QED BY <1>4, <2>1
<1>10. b \in Analyzer
  <2>1. b.sig_peak_power \in Nat /\ b.sig_sum_power \in Nat /\ b.frame_count \in Nat
    <3>1. a.sig_peak_power \in Nat /\ a.sig_sum_power \in Nat /\ a.frame_count \in Nat
      BY <1>7
    <3>2. b.sig_sum_power = a.sig_sum_power + power /\ b.frame_count = a.frame_count + 1
      BY <1>3
    <3>3. QED BY <1>8, <1>2, <3>1, <3>2
  <2>2. b.frame_powers \in Seq(Nat)
    BY <1>7, <1>2, <1>5
  <2>3. QED BY <1>3, <1>6, <1>7, <1>9, <2>1, <2>2 DEF Analyzer
<1>11. n \in Nat /\ Len(more) = n + 1 /\ DOMAIN more = 1 .. n + 1 /\ DOMAIN frames = 1 .. n
  OBVIOUS
<1>12. /\ Len(b.frame_powers) = n + 1 /\ b.frame_powers[n + 1] = power
       /\ \A i \in 1 .. n : b.frame_powers[i] = a.frame_powers[i] /\ a.frame_powers[i] \in Nat
       /\ DOMAIN a.frame_powers = 1 .. n /\ DOMAIN b.frame_powers = 1 .. n + 1
  <2>. DEFINE ps == a.frame_powers
  <2>1. ps \in Seq(Nat) /\ Len(ps) = n /\ b.frame_powers = Append(ps, power)
    BY <1>7, <1>5 DEF Accumulates
  <2>. HIDE DEF ps, n
  <2>2. /\ Len(Append(ps, power)) = n + 1 /\ Append(ps, power)[n + 1] = power
        /\ \A i \in 1 .. n : Append(ps, power)[i] = ps[i] /\ ps[i] \in Nat
        /\ DOMAIN ps = 1 .. n /\ DOMAIN Append(ps, power) = 1 .. n + 1
    BY <1>11, <1>2, <2>1
  <2>3. QED BY <2>1, <2>2 DEF ps
<1>13. more[n + 1] = frame /\ \A i \in 1 .. n : more[i] = frames[i]
  OBVIOUS
<1>. HIDE DEF more, n
<1>14. \A i \in DOMAIN more : b.frame_powers[i] = TruePower(more[i])
  BY <1>11, <1>12, <1>13 DEF Accumulates, power
<1>15. \A k \in NoiseBins(SignalRange) : b.psd_sum[k] = Floor * Len(more)
  <2>1. Floor * (n + 1) = Floor * n + Floor
    BY <1>11, SizesAssumption
  <2>2. NoiseBins(SignalRange) \subseteq Bins
    BY SignalRangeFits, NoiseBinsApart
  <2>3. \A k \in NoiseBins(SignalRange) : b.psd_sum[k] = Floor * n + Floor
    <3>1. \A k \in NoiseBins(SignalRange) : a.psd_sum[k] = Floor * n /\ spectrum[k] = Floor
      BY <1>1 DEF Accumulates, n
    <3>2. \A k \in NoiseBins(SignalRange) : b.psd_sum[k] = a.psd_sum[k] + spectrum[k]
      BY <1>4, <2>2
    <3>3. QED BY <3>1, <3>2
  <2>4. QED BY <1>11, <2>1, <2>3
<1>16. \A i \in DOMAIN more : b.sig_peak_power >= b.frame_powers[i]
  <2>1. \A i \in 1 .. n : a.sig_peak_power >= a.frame_powers[i]
    BY <1>11 DEF Accumulates
  <2>2. \A i \in 1 .. n : a.frame_powers[i] \in Nat
    BY <1>12
  <2>3. \A i \in 1 .. n : b.sig_peak_power >= a.frame_powers[i]
    BY <1>8, <1>7, <1>2, <2>1, <2>2
  <2>4. b.sig_peak_power >= power
    BY <1>8, <1>7, <1>2
  <2>5. QED BY <1>11, <1>12, <2>3, <2>4
<1>17. \E i \in DOMAIN more : b.sig_peak_power = b.frame_powers[i]
  <2>1. CASE b.sig_peak_power = power
    BY <1>11, <1>12, <2>1
  <2>2. CASE b.sig_peak_power # power
    <3>1. b.sig_peak_power = a.sig_peak_power /\ a.sig_peak_power > power
      BY <1>1, <1>8, <1>7, <2>2
    <3>2. a.sig_peak_power # 0
      BY <1>1, <1>7, <3>1
    <3>3. PICK i \in DOMAIN frames : a.sig_peak_power = a.frame_powers[i]
      BY <3>2 DEF Accumulates
    <3>4. QED BY <1>11, <1>12, <3>1, <3>3
  <2>3. QED BY <2>1, <2>2
<1>18. b.sig_sum_power = SumFunctionOnSet(b.frame_powers, DOMAIN b.frame_powers)
  <2>1. IsFiniteSet(1 .. n)
    BY <1>11, FS_Interval
  <2>2. n + 1 \notin 1 .. n /\ 1 .. n + 1 = (1 .. n) \cup {n + 1}
    BY <1>11
  <2>3. \A i \in 1 .. n : a.frame_powers[i] \in Nat
    BY <1>12
  <2>4. \A i \in 1 .. n : b.frame_powers[i] \in Nat /\ b.frame_powers[i] = a.frame_powers[i]
    BY <1>12, <2>3
  <2>5. SumFunctionOnSet(b.frame_powers, (1 .. n) \cup {n + 1})
          = SumFunctionOnSet(a.frame_powers, 1 .. n) + b.frame_powers[n + 1]
    <3>1. b.frame_powers[n + 1] \in Nat
      BY <1>12, <1>2
    <3>. DEFINE f == b.frame_powers
                h == a.frame_powers
                S == 1 .. n
                x == n + 1
    <3>2. IsFiniteSet(S) /\ x \notin S /\ f[x] \in Nat /\ \A y \in S : f[y] \in Nat /\ f[y] = h[y]
      BY <2>1, <2>4, <2>2, <3>1
    <3>. HIDE DEF f, h, S, x
    <3>3. SumFunctionOnSet(f, S \cup {x}) = SumFunctionOnSet(h, S) + f[x]
      BY <3>2, SumOneMore
    <3>4. QED BY <3>3 DEF f, h, S, x
  <2>6. a.sig_sum_power = SumFunctionOnSet(a.frame_powers, 1 .. n)
    <3>1. a.sig_sum_power = SumFunctionOnSet(a.frame_powers, DOMAIN a.frame_powers)
      BY DEF Accumulates
    <3>2. QED BY <1>12, <3>1
  <2>7. DOMAIN b.frame_powers = (1 .. n) \cup {n + 1} /\ b.frame_powers[n + 1] = power
    BY <1>12, <2>2
  <2>8. b.sig_sum_power = a.sig_sum_power + power
    BY <1>3
  <2>9. QED BY <2>5, <2>6, <2>7, <2>8
<1>19. more # <<>>
  BY <1>11 DEF more
<1>20. Accumulates(b, more)
  <2>1. b.window_open /\ b.sig = SignalRange /\ b.frame_count = Len(more) /\ Len(b.frame_powers) = Len(more)
    BY <1>3, <1>11, <1>12 DEF Accumulates, n
  <2>2. QED BY <1>14, <1>15, <1>16, <1>17, <1>18, <1>19, <2>1 DEF Accumulates
<1>21. QED BY <1>10, <1>20 DEF b, more

(* An inequality, with both sides so many times as large.                  *)
LEMMA Scaled ==
    ASSUME NEW n \in Nat \ {0}, NEW x \in Int, NEW y \in Int
    PROVE  x * n > y * n <=> x > y
<1>1. ASSUME NEW u \in Int, NEW v \in Int, u > v PROVE u * n > v * n
  <2>1. u - v \in Nat \ {0}
    BY <1>1
  <2>2. (u - v) * n > 0
    BY <2>1
  <2>3. (u - v) * n = u * n - v * n /\ u * n \in Int /\ v * n \in Int
    OBVIOUS
  <2>4. QED BY <2>2, <2>3
<1>2. CASE x > y
  BY <1>1, <1>2
<1>3. CASE x = y
  BY <1>3
<1>4. CASE y > x
  <2>1. y * n > x * n /\ x * n \in Int /\ y * n \in Int
    BY <1>1, <1>4
  <2>2. QED BY <1>4, <2>1
<1>5. QED BY <1>2, <1>3, <1>4

(* What MeasuresItsWindow says of a measurement and its frames.            *)
Tells(m, frames) ==
    LET powers == [i \in DOMAIN frames |-> TruePower(frames[i])]
        active == {i \in DOMAIN frames : Audible(frames[i])}
        counted == IF active = {} THEN DOMAIN frames ELSE active
    IN /\ m.noise = TrueNoise * Len(frames)
       /\ m.active = Cardinality(active) /\ m.of = Cardinality(counted)
       /\ m.frames = Len(frames)
       /\ m.peak = Max({powers[i] : i \in counted})
       /\ m.sum = SumFunctionOnSet(powers, counted)

(* finalize: the noise bins all hold the noise of so many frames, so their *)
(* median times the bins of the passband is what the passband holds of it, *)
(* and a frame is told active where it is; with none active, the running   *)
(* peak and sum are those of all frames.                                   *)
LEMMA TellsTheFrames ==
    ASSUME band \in Bands, NEW a \in Analyzer, NEW frames \in Seq(Frame), Accumulates(a, frames),
           frames # <<>>, Measurable(a.sig)
    PROVE  Tells(Measured(a), frames)
<1>. DEFINE n == Len(frames)
            p == a.frame_powers
            powers == [i \in DOMAIN frames |-> TruePower(frames[i])]
            audible == {i \in DOMAIN frames : Audible(frames[i])}
            counted == IF audible = {} THEN DOMAIN frames ELSE audible
            noise == Median(NoiseBins(a.sig), a.psd_sum) * (a.sig.hi - a.sig.lo + 1)
            active == {i \in DOMAIN a.frame_powers : a.frame_powers[i] * a.frame_count > 2 * noise}
<1>1. n \in Nat \ {0} /\ DOMAIN frames = 1 .. n /\ a.frame_count = n
  BY DEF Accumulates
<1>2. /\ DOMAIN p = DOMAIN frames
      /\ \A i \in DOMAIN frames : p[i] \in Nat /\ p[i] = TruePower(frames[i])
  <2>1. p \in Seq(Nat) /\ Len(p) = Len(frames)
    BY DEF Analyzer, Accumulates
  <2>2. DOMAIN p = 1 .. Len(p) /\ \A i \in 1 .. Len(p) : p[i] \in Nat
    BY <2>1
  <2>3. QED BY <1>1, <2>1, <2>2 DEF Accumulates
<1>3. SignalBinCount \in Nat /\ SignalBinCount = a.sig.hi - a.sig.lo + 1 /\ Floor \in Nat
  BY SignalRangeFits, SignalBinsFit, SizesAssumption DEF Measurable, Accumulates, SignalBinCount
<1>4. Median(NoiseBins(a.sig), a.psd_sum) = Floor * n
  <2>1. NoiseBins(SignalRange) # {} /\ NoiseBins(SignalRange) \subseteq Bins
    BY SignalRangeFits, NoiseBinsApart DEF Measurable, Accumulates
  <2>2. IsFiniteSet(NoiseBins(SignalRange))
    <3>1. IsFiniteSet(Bins)
      BY FS_Interval, FftAssumption DEF Bins
    <3>2. QED BY <2>1, <3>1, FS_Subset
  <2>3. Floor * n \in Nat
    BY <1>1, <1>3
  <2>4. a.sig = SignalRange /\ \A k \in NoiseBins(SignalRange) : a.psd_sum[k] = Floor * n
    BY DEF Accumulates
  <2>. HIDE DEF n
  <2>5. QED BY <2>1, <2>2, <2>3, <2>4, MedianOfSame
<1>5. TrueNoise \in Nat /\ noise = TrueNoise * n
  <2>1. (Floor * n) * SignalBinCount = (SignalBinCount * Floor) * n /\ SignalBinCount * Floor \in Nat
    BY <1>1, <1>3
  <2>2. QED BY <1>3, <1>4, <2>1 DEF TrueNoise
<1>. HIDE DEF noise
<1>6. active = audible
  <2>1. ASSUME NEW i \in DOMAIN frames
        PROVE  p[i] * a.frame_count > 2 * noise <=> Audible(frames[i])
    <3>1. 2 * (TrueNoise * n) = (2 * TrueNoise) * n /\ 2 * TrueNoise \in Int
      BY <1>1, <1>5
    <3>2. p[i] \in Int /\ p[i] = TruePower(frames[i])
      BY <1>2
    <3>. HIDE DEF n, p
    <3>3. p[i] * n > (2 * TrueNoise) * n <=> p[i] > 2 * TrueNoise
      BY <1>1, <3>1, <3>2, Scaled
    <3>4. QED BY <1>1, <1>5, <3>1, <3>2, <3>3 DEF Audible
  <2>2. QED BY <1>2, <2>1
<1>7. /\ Measured(a).noise = noise /\ Measured(a).frames = n
      /\ Measured(a).active = Cardinality(active)
      /\ Measured(a).peak = IF active = {} THEN a.sig_peak_power ELSE Max({p[i] : i \in active})
      /\ Measured(a).sum = IF active = {} THEN a.sig_sum_power ELSE SumFunctionOnSet(p, active)
      /\ Measured(a).of = IF active = {} THEN n ELSE Cardinality(active)
  BY <1>1 DEF Measured, noise
<1>. HIDE DEF active
<1>8. IsFiniteSet(DOMAIN frames) /\ Cardinality(DOMAIN frames) = n /\ IsFiniteSet(counted)
  <2>1. IsFiniteSet(DOMAIN frames) /\ Cardinality(DOMAIN frames) = n
    BY <1>1, FS_Interval
  <2>2. QED BY <2>1, FS_Subset
<1>9. SumFunctionOnSet(p, counted) = SumFunctionOnSet(powers, counted)
  <2>1. \A i \in counted : p[i] \in Nat /\ p[i] = powers[i]
    BY <1>2
  <2>. HIDE DEF p, powers, counted
  <2>2. QED BY <1>8, <2>1, SumsAgree
<1>10. {p[i] : i \in counted} = {powers[i] : i \in counted}
  BY <1>2
<1>11. Measured(a).sum = SumFunctionOnSet(powers, counted)
  <2>1. a.sig_sum_power = SumFunctionOnSet(p, DOMAIN p)
    BY DEF Accumulates
  <2>2. Measured(a).sum = SumFunctionOnSet(p, counted)
    BY <1>2, <1>6, <1>7, <2>1
  <2>3. QED BY <1>9, <2>2
<1>12. Measured(a).peak = Max({powers[i] : i \in counted})
  <2>1. CASE audible = {}
    <3>1. \A i \in DOMAIN frames : a.sig_peak_power >= p[i]
      BY DEF Accumulates
    <3>2. \E i \in DOMAIN frames : a.sig_peak_power = p[i]
      BY DEF Accumulates
    <3>. DEFINE T == {p[i] : i \in DOMAIN frames}
    <3>3. T \in SUBSET Int /\ a.sig_peak_power \in T /\ \A y \in T : a.sig_peak_power >= y
      BY <1>2, <3>1, <3>2
    <3>. HIDE DEF T
    <3>4. Max(T) = a.sig_peak_power
      BY <3>3, IsMax
    <3>5. QED BY <1>6, <1>7, <1>10, <2>1, <3>4 DEF T
  <2>2. CASE audible # {}
    BY <1>6, <1>7, <1>10, <2>2
  <2>3. QED BY <2>1, <2>2
<1>13. Measured(a).of = Cardinality(counted)
  BY <1>6, <1>7, <1>8
<1>. HIDE DEF powers, audible, counted
<1>14. /\ Measured(a).noise = TrueNoise * Len(frames) /\ Measured(a).frames = Len(frames)
       /\ Measured(a).active = Cardinality(audible)
  BY <1>5, <1>6, <1>7
<1>15. QED BY <1>11, <1>12, <1>13, <1>14 DEF Tells, powers, audible, counted

-----------------------------------------------------------------------------
(* The waterfall                                                           *)

(* The ring has the places 0 .. N - 1; one time round is taken off.        *)
LEMMA Wraps ==
    ASSUME NEW a \in Nat, a < 2 * WATERFALL_FFT_N
    PROVE  a % WATERFALL_FFT_N = IF a < WATERFALL_FFT_N THEN a ELSE a - WATERFALL_FFT_N
<1>1. WATERFALL_FFT_N \in Nat \ {0}
  BY SizesAssumption
<1>2. QED BY <1>1

(* The ring, as far as it is filled, holds the latest of the samples so    *)
(* far, of which there are `total`: the newest just behind pos.            *)
Latest(w, total) ==
    \A i \in WATERFALL_FFT_N - w.filled + 1 .. WATERFALL_FFT_N :
        w.ring[(w.pos + i - 1) % WATERFALL_FFT_N] = total - WATERFALL_FFT_N + i

(* And the row sent, if there is one, is what was there when it was sent.  *)
RowSent(w) ==
    /\ Len(w.row) <= 1
    /\ \A row \in ToSet(w.row) :
          row.samples = [i \in 1 .. WATERFALL_FFT_N |-> row.at - WATERFALL_FFT_N + i]

Draws(w, total) == w \in Waterfall /\ Latest(w, total) /\ RowSent(w)

(* Both stay so with the next sample.                                      *)
LEMMA DrawsNext ==
    ASSUME NEW total \in Nat, NEW w, Draws(w, total)
    PROVE  Draws(Drawn(w, total + 1), total + 1)
<1>. DEFINE N == WATERFALL_FFT_N
            next == [w EXCEPT !.ring[w.pos] = total + 1,
                              !.pos = (@ + 1) % N,
                              !.filled = Min({@ + 1, N}),
                              !.since = @ + 1]
            row == [samples |-> Linearized(next), at |-> total + 1]
<1>1. N \in Nat \ {0}
  BY SizesAssumption
<1>2. /\ w.ring \in [0 .. N - 1 -> Nat] /\ w.pos \in 0 .. N - 1 /\ w.filled \in 0 .. N /\ w.since \in Nat
      /\ w.row \in Seq([samples : [1 .. N -> Nat], at : Nat])
  BY DEF Draws, Waterfall
<1>3. /\ next.ring = [w.ring EXCEPT ![w.pos] = total + 1] /\ next.pos = (w.pos + 1) % N
      /\ next.filled = Min({w.filled + 1, N}) /\ next.since = w.since + 1 /\ next.row = w.row
  BY DEF Draws, Waterfall
<1>4. next \in [ring : {next.ring}, pos : {next.pos}, filled : {next.filled}, since : {next.since},
                row : {next.row}]
  BY DEF Draws, Waterfall
<1>. HIDE DEF next
<1>5. next.filled = IF w.filled + 1 <= N THEN w.filled + 1 ELSE N
  <2>. DEFINE x == w.filled + 1
  <2>1. x \in Int /\ N \in Int
    BY <1>1, <1>2
  <2>. HIDE DEF x, N
  <2>2. Min({x, N}) = IF x <= N THEN x ELSE N
    BY <2>1, OfTwo
  <2>3. QED BY <1>3, <2>2 DEF x
<1>6. next.pos = IF w.pos + 1 < N THEN w.pos + 1 ELSE w.pos + 1 - N
  <2>. DEFINE x == w.pos + 1
  <2>1. x \in Nat /\ x < 2 * N
    <3>1. w.pos \in Nat /\ N \in Nat /\ w.pos < N
      BY <1>1, <1>2
    <3>. HIDE DEF N
    <3>2. QED BY <3>1
  <2>. HIDE DEF x
  <2>2. x % N = IF x < N THEN x ELSE x - N
    BY <2>1, Wraps
  <2>3. QED BY <1>1, <1>2, <1>3, <2>2 DEF x
<1>7. next.pos \in 0 .. N - 1
  BY <1>1, <1>2, <1>6
<1>8. /\ next.ring \in [0 .. N - 1 -> Nat] /\ next.ring[w.pos] = total + 1
      /\ \A j \in 0 .. N - 1 : j # w.pos => next.ring[j] = w.ring[j]
  <2>. DEFINE D == 0 .. N - 1
              r == w.ring
              p == w.pos
              s == total + 1
  <2>1. r \in [D -> Nat] /\ p \in D /\ s \in Nat
    BY <1>2
  <2>. HIDE DEF D, r, p, s
  <2>2. /\ [r EXCEPT ![p] = s] \in [D -> Nat] /\ [r EXCEPT ![p] = s][p] = s
        /\ \A j \in D : j # p => [r EXCEPT ![p] = s][j] = r[j]
    BY <2>1
  <2>3. QED BY <1>3, <2>2 DEF D, r, p, s
<1>9. next \in Waterfall
  <2>1. next.filled \in 0 .. N /\ next.since \in Nat
    <3>1. w.filled \in 0 .. N /\ next.since = w.since + 1 /\ w.since \in Nat
      BY <1>2, <1>3
    <3>2. QED BY <1>1, <1>5, <3>1
  <2>2. next.row \in Seq([samples : [1 .. N -> Nat], at : Nat])
    BY <1>2, <1>3
  <2>3. QED BY <1>8, <1>4, <1>7, <2>1, <2>2 DEF Waterfall
<1>10. ASSUME NEW i \in N - next.filled + 1 .. N
       PROVE  next.ring[(next.pos + i - 1) % N] = (total + 1) - N + i
  <2>1. i \in 1 .. N
    BY <1>1, <1>2, <1>5, <1>10
  <2>2. (next.pos + i - 1) % N
          = IF next.pos + i - 1 < N THEN next.pos + i - 1 ELSE next.pos + i - 1 - N
    <3>. DEFINE x == next.pos + i - 1
    <3>1. x \in Nat /\ x < 2 * N
      BY <1>1, <1>7, <2>1
    <3>. HIDE DEF x
    <3>2. x % N = IF x < N THEN x ELSE x - N
      BY <3>1, Wraps
    <3>3. QED BY <1>1, <1>7, <2>1, <3>2 DEF x
  <2>3. CASE i = N
    <3>1. (next.pos + i - 1) % N = w.pos
      BY <1>1, <1>2, <1>6, <2>2, <2>3
    <3>2. QED BY <1>1, <1>8, <2>3, <3>1
  <2>4. CASE i # N
    <3>1. i + 1 \in N - w.filled + 1 .. N
      BY <1>1, <1>2, <1>5, <1>10, <2>1, <2>4
    <3>2. w.ring[(w.pos + (i + 1) - 1) % N] = total - N + (i + 1)
      BY <3>1 DEF Draws, Latest
    <3>3. (w.pos + (i + 1) - 1) % N = IF w.pos + i < N THEN w.pos + i ELSE w.pos + i - N
      <4>1. w.pos + (i + 1) - 1 = w.pos + i /\ w.pos + i \in Nat /\ w.pos + i < 2 * N
        BY <1>1, <1>2, <2>1
      <4>. DEFINE x == w.pos + i
      <4>2. x \in Nat /\ x < 2 * N
        BY <4>1
      <4>. HIDE DEF x
      <4>3. x % N = IF x < N THEN x ELSE x - N
        BY <4>2, Wraps
      <4>4. QED BY <1>1, <1>2, <2>1, <4>1, <4>3 DEF x
    <3>4. (next.pos + i - 1) % N = IF w.pos + i < N THEN w.pos + i ELSE w.pos + i - N
      <4>1. i < N /\ w.pos \in Nat /\ w.pos < N /\ i \in Nat /\ i >= 1 /\ N \in Nat
        BY <1>1, <1>2, <2>1, <2>4
      <4>2. CASE w.pos + 1 < N
        <5>1. next.pos = w.pos + 1
          BY <1>6, <4>2
        <5>2. next.pos + i - 1 = w.pos + i /\ next.pos + i - 1 - N = w.pos + i - N
          BY <4>1, <5>1
        <5>. DEFINE y == next.pos + i - 1
        <5>3. y = w.pos + i /\ y % N = IF y < N THEN y ELSE y - N
          BY <1>1, <1>7, <2>1, <2>2, <5>2
        <5>. HIDE DEF y
        <5>4. y % N = IF w.pos + i < N THEN w.pos + i ELSE w.pos + i - N
          BY <4>1, <5>3
        <5>5. QED BY <5>4 DEF y
      <4>3. CASE ~(w.pos + 1 < N)
        <5>1. next.pos = 0 /\ w.pos = N - 1
          BY <1>6, <4>1, <4>3
        <5>2. QED BY <2>2, <4>1, <5>1
      <4>4. QED BY <4>2, <4>3
    <3>5. /\ (next.pos + i - 1) % N \in 0 .. N - 1
          /\ (next.pos + i - 1) % N # w.pos
      <4>1. i \in Int /\ 1 <= i /\ i < N /\ w.pos \in Int /\ 0 <= w.pos /\ w.pos < N /\ N \in Int
        BY <1>1, <1>2, <2>1, <2>4
      <4>. DEFINE y == IF w.pos + i < N THEN w.pos + i ELSE w.pos + i - N
      <4>2. y \in 0 .. N - 1 /\ y # w.pos
        BY <4>1
      <4>3. QED BY <3>4, <4>2
    <3>6. next.ring[(next.pos + i - 1) % N] = w.ring[(w.pos + (i + 1) - 1) % N]
      BY <1>8, <3>3, <3>4, <3>5
    <3>7. total - N + (i + 1) = (total + 1) - N + i
      BY <1>1, <2>1
    <3>8. QED BY <3>2, <3>6, <3>7
  <2>5. QED BY <2>3, <2>4
<1>11. Latest(next, total + 1)
  BY <1>10 DEF Latest
<1>12. CASE next.since >= RowEvery /\ next.filled >= N
  <2>1. Drawn(w, total + 1) = [next EXCEPT !.since = 0, !.row = <<row>>]
    BY <1>12 DEF Drawn, next
  <2>2. next.filled = N
    BY <1>1, <1>2, <1>5, <1>12
  <2>3. Linearized(next) = [i \in 1 .. N |-> (total + 1) - N + i]
    <3>1. ASSUME NEW i \in 1 .. N PROVE next.ring[(next.pos + i - 1) % N] = (total + 1) - N + i
      BY <1>1, <1>10, <2>2
    <3>2. QED BY <3>1 DEF Linearized
  <2>4. Linearized(next) \in [1 .. N -> Nat]
    <3>1. ASSUME NEW i \in 1 .. N PROVE (next.pos + i - 1) % N \in 0 .. N - 1
      <4>1. next.pos \in 0 .. N - 1
        BY <1>9 DEF Waterfall
      <4>2. next.pos + i - 1 \in Nat /\ next.pos + i - 1 < 2 * N
        BY <1>1, <4>1
      <4>. DEFINE x == next.pos + i - 1
      <4>. HIDE DEF x
      <4>3. x % N = IF x < N THEN x ELSE x - N
        BY <4>2, Wraps DEF x
      <4>4. x % N \in 0 .. N - 1
        BY <1>1, <4>2, <4>3 DEF x
      <4>5. QED BY <4>4 DEF x
    <3>2. QED BY <1>8, <3>1 DEF Linearized
  <2>5. /\ Drawn(w, total + 1).ring = next.ring /\ Drawn(w, total + 1).pos = next.pos
        /\ Drawn(w, total + 1).filled = next.filled
        /\ Drawn(w, total + 1).since = 0 /\ Drawn(w, total + 1).row = <<row>>
        /\ Drawn(w, total + 1) \in [ring : {next.ring}, pos : {next.pos}, filled : {next.filled},
                                    since : {0}, row : {<<row>>}]
    <3>. HIDE DEF row
    <3>1. QED BY <1>4, <2>1
  <2>6. <<row>> \in Seq([samples : [1 .. N -> Nat], at : Nat])
    BY <2>4
  <2>7. Drawn(w, total + 1) \in Waterfall
    <3>1. /\ next.ring \in [0 .. N - 1 -> Nat] /\ next.pos \in 0 .. N - 1
          /\ next.filled \in 0 .. N
      BY <1>9 DEF Waterfall
    <3>. HIDE DEF row
    <3>2. \A ring \in [0 .. N - 1 -> Nat], pos \in 0 .. N - 1, filled \in 0 .. N,
             last \in Seq([samples : [1 .. N -> Nat], at : Nat]) :
            [ring : {ring}, pos : {pos}, filled : {filled}, since : {0}, row : {last}] \subseteq Waterfall
      BY DEF Waterfall
    <3>3. QED BY <2>5, <2>6, <3>1, <3>2
  <2>8. Latest(Drawn(w, total + 1), total + 1)
    BY <1>11, <2>5 DEF Latest
  <2>9. RowSent(Drawn(w, total + 1))
    <3>1. Len(<<row>>) <= 1 /\ ToSet(<<row>>) = {row}
      BY DEF ToSet
    <3>2. row.samples = [i \in 1 .. N |-> row.at - N + i]
      BY <2>3
    <3>. HIDE DEF row
    <3>3. QED BY <2>5, <3>1, <3>2 DEF RowSent
  <2>10. QED BY <2>7, <2>8, <2>9 DEF Draws
<1>13. CASE ~(next.since >= RowEvery /\ next.filled >= N)
  <2>1. Drawn(w, total + 1) = next
    BY <1>13 DEF Drawn, next
  <2>2. RowSent(next)
    BY <1>3 DEF Draws, RowSent
  <2>3. QED BY <1>9, <1>11, <2>1, <2>2 DEF Draws
<1>14. QED BY <1>12, <1>13

(* And with all the samples of a read: what DrawnAll computes for fewer of *)
(* them there is, so there is what it computes for one more.               *)
LEMMA DrawsRead ==
    ASSUME NEW total \in Nat, NEW w, Draws(w, total), NEW n \in Nat
    PROVE  Draws(DrawnAll(w, total, n), total + n)
<1>. DEFINE Is(f, m) == f = [i \in 0 .. m |-> IF i = 0 THEN w ELSE Drawn(f[i - 1], total + i)]
            P == {m \in Nat : \E f : Is(f, m)}
<1>1. 0 \in P
  <2>1. Is([i \in 0 .. 0 |-> w], 0)
    OBVIOUS
  <2>2. QED BY <2>1
<1>2. ASSUME NEW m \in Nat, m \in P PROVE m + 1 \in P
  <2>1. PICK f : Is(f, m)
    BY <1>2
  <2>. DEFINE g == [i \in 0 .. m + 1 |-> IF i = m + 1 THEN Drawn(f[m], total + (m + 1)) ELSE f[i]]
  <2>2. ASSUME NEW i \in 0 .. m + 1
        PROVE  g[i] = IF i = 0 THEN w ELSE Drawn(g[i - 1], total + i)
    <3>1. CASE i = m + 1
      BY <3>1
    <3>2. CASE i # m + 1
      <4>1. i \in 0 .. m /\ (i # 0 => i - 1 \in 0 .. m)
        BY <3>2
      <4>2. f[i] = IF i = 0 THEN w ELSE Drawn(f[i - 1], total + i)
        BY <2>1, <4>1
      <4>3. g[i] = f[i] /\ (i # 0 => g[i - 1] = f[i - 1])
        BY <4>1
      <4>4. QED BY <4>2, <4>3
    <3>3. QED BY <3>1, <3>2
  <2>3. Is(g, m + 1)
    BY <2>2
  <2>. HIDE DEF g, Is
  <2>4. m + 1 \in Nat /\ \E h : Is(h, m + 1)
    BY <2>3
  <2>5. QED BY <2>4
<1>. DEFINE d == CHOOSE f : Is(f, n)
<1>3. Is(d, n)
  <2>. HIDE DEF Is
  <2>1. \E f : Is(f, n)
    <3>. HIDE DEF P
    <3>1. n \in P
      BY <1>1, <1>2, Induction
    <3>2. QED BY <3>1 DEF P
  <2>2. QED BY <2>1
<1>4. DrawnAll(w, total, n) = d[n]
  BY DEF DrawnAll
<1>. HIDE DEF d
<1>. DEFINE Q == {m \in Nat : m <= n => Draws(d[m], total + m)}
<1>5. 0 \in Q
  <2>1. d[0] = w /\ total + 0 = total
    BY <1>3
  <2>2. QED BY <2>1
<1>6. ASSUME NEW m \in Nat, m \in Q PROVE m + 1 \in Q
  <2>1. SUFFICES ASSUME m + 1 <= n PROVE Draws(d[m + 1], total + (m + 1))
    OBVIOUS
  <2>2. Draws(d[m], total + m)
    BY <1>6, <2>1
  <2>3. d[m + 1] = Drawn(d[m], total + (m + 1))
    BY <1>3, <2>1
  <2>4. total + m \in Nat /\ total + (m + 1) = total + m + 1
    OBVIOUS
  <2>5. QED BY <2>2, <2>3, <2>4, DrawsNext
<1>7. n \in Q
  <2>. HIDE DEF Q
  <2>1. QED BY <1>5, <1>6, Induction
<1>8. QED BY <1>4, <1>7

-----------------------------------------------------------------------------
(* The inductive invariant: besides the properties themselves, what the    *)
(* accumulators hold while a window is open, and what the ring holds.      *)

Accumulated == phase = "window" => Accumulates(analyzer, heard)

Drawing == Draws(wf, taken)

Inv == TypeOK /\ FramesAreTheWindow /\ Accumulated /\ MeasuresItsWindow /\ Drawing

(* The same as Tells, of a named band.                                     *)
TellsIn(b, m, frames) ==
    LET bins == Cardinality(SignalBins(BinRange(b.offset, b.width, b.rate)))
        powers == [i \in DOMAIN frames |-> bins * (Floor + OnAir(frames[i]) * Strength)]
        active == {i \in DOMAIN frames :
                      bins * (Floor + OnAir(frames[i]) * Strength) > 2 * (bins * Floor)}
        counted == IF active = {} THEN DOMAIN frames ELSE active
    IN /\ m.noise = (bins * Floor) * Len(frames)
       /\ m.active = Cardinality(active) /\ m.of = Cardinality(counted)
       /\ m.frames = Len(frames)
       /\ m.peak = Max({powers[i] : i \in counted})
       /\ m.sum = SumFunctionOnSet(powers, counted)

(* So that what MeasuresItsWindow says after a step can be compared with   *)
(* what it said before.                                                    *)
LEMMA TellsInBand ==
    /\ \A m, frames : Tells(m, frames) <=> TellsIn(band, m, frames)
    /\ MeasuresItsWindow <=> \A s \in ToSet(sent) : TellsIn(band, s.measurement, s.frames)
    /\ MeasuresItsWindow' <=> \A s \in ToSet(sent') : TellsIn(band', s.measurement, s.frames)
<1>1. ASSUME NEW m, NEW frames PROVE Tells(m, frames) <=> TellsIn(band, m, frames)
  BY DEF Tells, TellsIn, TrueNoise, TruePower, Audible, SignalBinCount, SignalRange
<1>2. MeasuresItsWindow <=> \A s \in ToSet(sent) : TellsIn(band, s.measurement, s.frames)
  BY DEF MeasuresItsWindow, TellsIn, TrueNoise, TruePower, Audible, SignalBinCount, SignalRange
<1>3. MeasuresItsWindow' <=> \A s \in ToSet(sent') : TellsIn(band', s.measurement, s.frames)
  BY DEF MeasuresItsWindow, TellsIn, TrueNoise, TruePower, Audible, SignalBinCount, SignalRange
<1>4. QED BY <1>1, <1>2, <1>3

(* It is told of the last measurement, and says the same as long as        *)
(* neither that nor the passband changes.                                  *)
LEMMA TellsOn ==
    ASSUME MeasuresItsWindow, UNCHANGED <<sent, band>>
    PROVE  MeasuresItsWindow'
BY TellsInBand

(* At first                                                                *)
LEMMA InvInit == Init => Inv
<1>1. SUFFICES ASSUME Init PROVE Inv
  OBVIOUS
<1>2. WATERFALL_FFT_N \in Nat \ {0} /\ FFT_SIZE \in Nat /\ FFT_SIZE >= 4
  BY SizesAssumption, FftAssumption
<1>3. NewAnalyzer \in Analyzer
  BY DEF NewAnalyzer, Analyzer
<1>4. NewWaterfall \in Waterfall
  BY <1>2 DEF NewWaterfall, Waterfall, None
<1>5. TypeOK
  BY <1>1, <1>2, <1>3, <1>4 DEF Init, TypeOK, NewAnalyzer, NewWaterfall, None, Samples
<1>6. FramesAreTheWindow /\ Accumulated
  BY <1>1 DEF Init, FramesAreTheWindow, Accumulated
<1>7. MeasuresItsWindow
  BY <1>1 DEF Init, MeasuresItsWindow, ToSet, None
<1>8. Drawing
  <2>1. \A i \in WATERFALL_FFT_N - 0 + 1 .. WATERFALL_FFT_N : FALSE
    BY <1>2
  <2>2. Latest(NewWaterfall, 0)
    BY <2>1 DEF Latest, NewWaterfall
  <2>3. RowSent(NewWaterfall)
    BY DEF RowSent, NewWaterfall, None, ToSet
  <2>4. QED BY <1>1, <1>4, <2>2, <2>3 DEF Init, Drawing, Draws
<1>9. QED BY <1>5, <1>6, <1>7, <1>8 DEF Inv

(* start_window                                                            *)
LEMMA InvStartWindow ==
    ASSUME Inv, StartWindow
    PROVE  Inv'
<1>1. /\ phase' = "window" /\ analyzer' = StartedOver(analyzer) /\ frame_buf' = <<>>
      /\ heard' = <<>> /\ start' = taken /\ windows' = windows + 1
      /\ UNCHANGED <<band, taken, wf, sent>>
  BY DEF StartWindow
<1>2. TypeOK /\ band \in Bands /\ taken \in Nat /\ FFT_SIZE \in Nat /\ FFT_SIZE >= 4
  BY FftAssumption DEF Inv, TypeOK
<1>3. StartedOver(analyzer) \in Analyzer /\ Accumulates(StartedOver(analyzer), <<>>)
  BY <1>2, StartsWithNothing
<1>4. TypeOK'
  BY <1>1, <1>2, <1>3 DEF TypeOK, Samples, StartedOver
<1>5. FramesAreTheWindow'
  <2>1. 0 * FFT_SIZE = 0
    BY <1>2
  <2>2. QED BY <1>1, <1>2, <2>1 DEF FramesAreTheWindow, Cut
<1>6. SignalRange' = SignalRange
  BY <1>1 DEF SignalRange
<1>7. Accumulated'
  BY <1>1, <1>3, <1>6 DEF Accumulated, Accumulates
<1>8. MeasuresItsWindow'
  BY <1>1, TellsOn DEF Inv
<1>9. Drawing'
  BY <1>1 DEF Inv, Drawing
<1>10. QED BY <1>4, <1>5, <1>7, <1>8, <1>9 DEF Inv

(* The deadline                                                            *)
LEMMA InvCloseWindow ==
    ASSUME Inv, CloseWindow
    PROVE  Inv'
<1>1. /\ phase = "window" /\ phase' = "between"
      /\ analyzer' = [analyzer EXCEPT !.window_open = FALSE]
      /\ UNCHANGED <<band, frame_buf, taken, wf, heard, start, windows>>
  BY DEF CloseWindow
<1>2. TypeOK /\ band \in Bands /\ analyzer \in Analyzer /\ heard \in Seq(Frame) /\ Accumulates(analyzer, heard)
  BY <1>1 DEF Inv, TypeOK, Accumulated
<1>3. CASE Finalize(analyzer) = None
  <2>1. sent' = sent
    BY <1>3 DEF CloseWindow
  <2>2. MeasuresItsWindow' /\ Len(sent') <= 1
    BY <1>1, <1>2, <2>1, TellsOn DEF Inv, TypeOK
  <2>3. QED BY <1>1, <1>2, <2>2 DEF Inv, TypeOK, Analyzer, FramesAreTheWindow, Accumulated, Drawing
<1>4. CASE Finalize(analyzer) # None
  <2>. DEFINE s == [measurement |-> Measured(analyzer), frames |-> heard]
  <2>1. /\ Finalize(analyzer) = <<Measured(analyzer)>>
        /\ analyzer.frame_count # 0 /\ Measurable(analyzer.sig)
    BY <1>4 DEF Finalize
  <2>2. sent' = <<s>>
    BY <1>4, <2>1 DEF CloseWindow
  <2>3. heard # <<>>
    BY <2>1, <1>2 DEF Accumulates
  <2>4. Tells(Measured(analyzer), heard)
    BY <1>2, <2>1, <2>3, TellsTheFrames
  <2>5. MeasuresItsWindow'
    <3>1. \A r \in ToSet(sent') : r = s
      BY <2>2 DEF ToSet
    <3>2. Tells(s.measurement, s.frames)
      BY <2>4
    <3>. HIDE DEF s
    <3>3. \A r \in ToSet(sent') : Tells(r.measurement, r.frames)
      BY <3>1, <3>2
    <3>4. QED BY <1>1, <3>3, TellsInBand
  <2>6. Len(sent') <= 1
    BY <2>2
  <2>7. QED BY <1>1, <1>2, <2>5, <2>6 DEF Inv, TypeOK, Analyzer, FramesAreTheWindow, Accumulated, Drawing
<1>5. QED BY <1>3, <1>4

(* The thread ends                                                         *)
LEMMA InvReturn ==
    ASSUME Inv, Return
    PROVE  Inv'
<1>1. phase' = "ended" /\ UNCHANGED <<band, analyzer, frame_buf, taken, wf, sent, heard, start, windows>>
  BY DEF Return
<1>2. MeasuresItsWindow'
  BY <1>1, TellsOn DEF Inv
<1>3. QED BY <1>1, <1>2 DEF Inv, TypeOK, FramesAreTheWindow, Accumulated, Drawing

(* Nothing happens                                                         *)
LEMMA InvStutter ==
    ASSUME Inv, UNCHANGED vars
    PROVE  Inv'
<1>1. UNCHANGED <<phase, band, analyzer, frame_buf, taken, wf, sent, heard, start, windows>>
  BY DEF vars
<1>2. MeasuresItsWindow'
  BY <1>1, TellsOn DEF Inv
<1>3. SignalRange' = SignalRange
  BY <1>1 DEF SignalRange
<1>4. Accumulated'
  BY <1>1, <1>3 DEF Inv, Accumulated, Accumulates, TruePower, SignalBinCount
<1>5. QED BY <1>1, <1>2, <1>4 DEF Inv, TypeOK, FramesAreTheWindow, Drawing

(* A read, which brings what the frame still needs at the most.            *)
LEMMA InvRead ==
    ASSUME Inv, NEW n \in Chunks, NEW on \in BOOLEAN, Read(n, on)
    PROVE  Inv'
<1>. DEFINE N == FFT_SIZE
            chunk == [i \in 1 .. n |-> [number |-> taken + i, on |-> on]]
            buffered == frame_buf \o chunk
            frame == SubSeq(buffered, 1, N)
            from == start + Len(heard) * N
            b == Len(frame_buf)
<1>1. /\ phase = "window" /\ n <= Want /\ taken' = taken + n /\ wf' = DrawnAll(wf, taken, n)
      /\ analyzer' = IF Len(buffered) >= N THEN AddFrame(analyzer, frame) ELSE analyzer
      /\ frame_buf' = IF Len(buffered) >= N THEN SubSeq(buffered, N + 1, Len(buffered)) ELSE buffered
      /\ heard' = IF Len(buffered) >= N THEN Append(heard, frame) ELSE heard
      /\ UNCHANGED <<phase, band, sent, start, windows>>
  BY DEF Read
<1>2. /\ TypeOK /\ band \in Bands /\ analyzer \in Analyzer /\ heard \in Seq(Frame)
      /\ frame_buf \in Samples /\ taken \in Nat /\ start \in 0 .. taken /\ b < N /\ b \in Nat
      /\ Accumulates(analyzer, heard)
  BY <1>1 DEF Inv, TypeOK, Accumulated, Samples
<1>3. N \in Nat /\ N >= 4 /\ n \in Nat \ {0} /\ MTU \in Nat
  BY FftAssumption, SizesAssumption
<1>4. b + n <= N
  <2>. DEFINE need == N - b
  <2>1. need \in Int
    BY <1>2, <1>3
  <2>. HIDE DEF need
  <2>2. Min({need, MTU}) = IF need <= MTU THEN need ELSE MTU
    BY <1>3, <2>1, OfTwo
  <2>3. n <= Min({need, MTU})
    BY <1>1 DEF Want, need
  <2>4. n <= need
    BY <1>3, <2>1, <2>2, <2>3
  <2>5. QED BY <1>2, <1>3, <2>4 DEF need
<1>5. \A j \in DOMAIN heard : Cut(heard[j], start + (j - 1) * N)
  BY <1>1 DEF Inv, FramesAreTheWindow
<1>6. Cut(frame_buf, from) /\ taken = from + b /\ from \in Nat
  <2>1. Cut(frame_buf, from) /\ taken = start + Len(heard) * N + b
    BY <1>1 DEF Inv, FramesAreTheWindow
  <2>2. Len(heard) \in Nat /\ Len(heard) * N \in Nat
    BY <1>2, <1>3
  <2>3. QED BY <1>2, <2>1, <2>2
<1>7. chunk \in Samples /\ Len(chunk) = n
  BY <1>2, <1>3 DEF Samples, Sample
<1>8. /\ buffered \in Samples /\ Len(buffered) = b + n /\ DOMAIN buffered = 1 .. b + n
      /\ \A i \in 1 .. b : buffered[i] = frame_buf[i]
      /\ \A i \in b + 1 .. b + n : buffered[i] = chunk[i - b]
  <2>. HIDE DEF chunk
  <2>1. QED BY <1>2, <1>3, <1>7 DEF Samples
<1>9. \A j \in 1 .. n : chunk[j].number = taken + j
  OBVIOUS
<1>. HIDE DEF chunk, buffered
<1>10. \A i \in DOMAIN buffered : buffered[i].number = from + i
  <2>. HIDE DEF from
  <2>1. ASSUME NEW i \in 1 .. b PROVE buffered[i].number = from + i
    BY <1>2, <1>6, <1>8 DEF Cut, Samples
  <2>2. ASSUME NEW i \in b + 1 .. b + n PROVE buffered[i].number = from + i
    <3>1. i - b \in 1 .. n
      BY <1>2, <1>3
    <3>2. buffered[i].number = taken + (i - b)
      BY <1>8, <1>9, <3>1
    <3>3. taken = from + b /\ from \in Nat /\ b \in Nat /\ i \in Nat
      BY <1>2, <1>6, <1>3
    <3>4. QED BY <3>2, <3>3
  <2>3. QED BY <1>2, <1>3, <1>8, <2>1, <2>2
<1>11. Drawing'
  BY <1>1, <1>2, <1>3, DrawsRead DEF Inv, Drawing
<1>12. MeasuresItsWindow'
  BY <1>1, TellsOn DEF Inv
<1>13. SignalRange' = SignalRange
  BY <1>1 DEF SignalRange
<1>14. wf' \in Waterfall /\ Len(wf.row)' <= 1
  BY <1>11 DEF Drawing, Draws, RowSent
<1>15. /\ taken' \in Nat /\ start' \in 0 .. taken' /\ windows' \in Nat /\ band' \in Bands
       /\ Len(sent') <= 1 /\ phase' = "window"
  BY <1>1, <1>2, <1>3 DEF TypeOK
<1>16. CASE Len(buffered) < N
  <2>1. analyzer' = analyzer /\ frame_buf' = buffered /\ heard' = heard
    BY <1>1, <1>3, <1>8, <1>2, <1>16
  <2>2. TypeOK'
    BY <1>1, <1>2, <1>8, <1>14, <1>15, <1>16, <2>1 DEF TypeOK, Samples
  <2>3. FramesAreTheWindow'
    <3>1. Cut(frame_buf, from)' 
      BY <1>1, <1>10, <2>1 DEF Cut
    <3>2. taken' = from + Len(buffered)
      BY <1>1, <1>2, <1>3, <1>6, <1>8
    <3>3. QED BY <1>1, <1>5, <2>1, <3>1, <3>2 DEF FramesAreTheWindow, Cut
  <2>4. Accumulated'
    BY <1>2, <1>13, <1>1, <2>1 DEF Accumulated, Accumulates, TruePower, SignalBinCount
  <2>5. QED BY <1>11, <1>12, <2>2, <2>3, <2>4 DEF Inv
<1>17. CASE Len(buffered) >= N
  <2>1. Len(buffered) = N /\ DOMAIN buffered = 1 .. N
    BY <1>2, <1>3, <1>4, <1>8, <1>17
  <2>2. frame \in Frame /\ DOMAIN frame = 1 .. N /\ \A i \in 1 .. N : frame[i] = buffered[i]
    <3>1. buffered \in Seq(Sample)
      BY <1>8 DEF Samples
    <3>2. Len(frame) = N /\ frame \in Seq(Sample) /\ \A i \in 1 .. N : frame[i] = buffered[i]
      BY <1>3, <2>1, <3>1
    <3>. HIDE DEF frame
    <3>3. frame \in [1 .. Len(frame) -> Sample]
      BY <3>2
    <3>4. QED BY <3>2, <3>3 DEF Frame
  <2>3. frame_buf' = <<>>
    BY <1>1, <1>3, <1>8, <1>17, <2>1 DEF Samples
  <2>. HIDE DEF frame
  <2>4. analyzer' = AddFrame(analyzer, frame) /\ heard' = Append(heard, frame)
    BY <1>1, <1>17
  <2>5. AddFrame(analyzer, frame) \in Analyzer /\ Accumulates(AddFrame(analyzer, frame), Append(heard, frame))
    BY <1>2, <2>2, AddsOne
  <2>6. heard' \in Seq(Frame) /\ Len(heard') = Len(heard) + 1 /\ Len(heard) \in Nat
        /\ DOMAIN heard' = 1 .. Len(heard) + 1 /\ DOMAIN heard = 1 .. Len(heard)
        /\ heard'[Len(heard) + 1] = frame /\ \A j \in 1 .. Len(heard) : heard'[j] = heard[j]
    BY <1>2, <2>2, <2>4
  <2>7. TypeOK'
    BY <1>3, <1>14, <1>15, <2>3, <2>4, <2>5, <2>6 DEF TypeOK, Samples, Accumulates
  <2>8. FramesAreTheWindow'
    <3>1. ASSUME NEW j \in DOMAIN heard' PROVE Cut(heard'[j], start + (j - 1) * N)
      <4>1. CASE j = Len(heard) + 1
        <5>1. heard'[j] = frame /\ start + (j - 1) * N = from
          BY <2>6, <4>1
        <5>2. Cut(frame, from)
          BY <1>10, <2>1, <2>2 DEF Cut
        <5>3. QED BY <5>1, <5>2
      <4>2. CASE j # Len(heard) + 1
        BY <1>5, <2>6, <4>2
      <4>3. QED BY <4>1, <4>2
    <3>2. taken' = start + (Len(heard) + 1) * N
      <4>1. taken' = from + N
        <5>. HIDE DEF from
        <5>1. b + n = N
          BY <1>8, <2>1
        <5>2. taken' = taken + n /\ taken = from + b /\ from \in Nat
          BY <1>1, <1>6
        <5>3. b \in Nat /\ n \in Nat /\ N \in Nat
          BY <1>2, <1>3
        <5>. HIDE DEF b
        <5>4. QED BY <5>1, <5>2, <5>3
      <4>2. from + N = start + (Len(heard) + 1) * N
        BY <1>2, <1>3, <2>6
      <4>3. QED BY <4>1, <4>2
    <3>3. (Len(heard) + 1) * N \in Nat
      BY <1>3, <2>6
    <3>4. Cut(frame_buf, start + Len(heard) * N)'
      BY <2>3 DEF Cut
    <3>5. taken' = start' + Len(heard') * N + Len(frame_buf')
      <4>1. Len(frame_buf') = 0 /\ Len(heard') = Len(heard) + 1
        BY <2>3, <2>6
      <4>2. start' = start /\ start \in Nat
        BY <1>1, <1>2
      <4>3. QED BY <3>2, <3>3, <4>1, <4>2
    <3>6. QED BY <1>1, <3>1, <3>4, <3>5 DEF FramesAreTheWindow, Cut
  <2>9. Accumulated'
    <3>. DEFINE a == AddFrame(analyzer, frame)
                frames == Append(heard, frame)
    <3>1. Accumulates(a, frames) /\ analyzer' = a /\ heard' = frames
      BY <2>4, <2>5
    <3>. HIDE DEF a, frames
    <3>2. QED BY <1>13, <3>1 DEF Accumulated, Accumulates, TruePower, SignalBinCount
  <2>10. QED BY <1>11, <1>12, <2>7, <2>8, <2>9 DEF Inv
<1>18. QED BY <1>2, <1>3, <1>8, <1>16, <1>17

(* Every step keeps it.                                                    *)
LEMMA InvNext == Inv /\ [Next]_vars => Inv'
<1>1. SUFFICES ASSUME Inv, [Next]_vars PROVE Inv'
  OBVIOUS
<1>2. CASE StartWindow
  BY <1>1, <1>2, InvStartWindow
<1>3. ASSUME NEW n \in Chunks, NEW on \in BOOLEAN, Read(n, on) PROVE Inv'
  BY <1>1, <1>3, InvRead
<1>4. CASE CloseWindow
  BY <1>1, <1>4, InvCloseWindow
<1>5. CASE Return
  BY <1>1, <1>5, InvReturn
<1>6. CASE UNCHANGED vars
  BY <1>1, <1>6, InvStutter
<1>7. QED BY <1>1, <1>2, <1>3, <1>4, <1>5, <1>6 DEF Next

LEMMA Invariance == Spec => []Inv
<1>1. QED BY InvInit, InvNext, PTL DEF Spec

-----------------------------------------------------------------------------
(* The theorems                                                            *)

(* The accumulators, the buffers and the ring keep their kinds and their   *)
(* sizes; in particular less than a frame waits for its rest.              *)
THEOREM TypeCorrect == Spec => []TypeOK
<1>1. Inv => TypeOK
  BY DEF Inv
<1>2. QED BY <1>1, Invariance, PTL

(* However the samples arrive, the frames of a window and the buffer are   *)
(* what was read since it began, cut up (run_inner).                       *)
THEOREM FramesCut == Spec => []FramesAreTheWindow
<1>1. Inv => FramesAreTheWindow
  BY DEF Inv
<1>2. QED BY <1>1, Invariance, PTL

(* The figures sent are those of the window's frames: the noise without    *)
(* the leakage, the active frames, their peak and their sum (start_window, *)
(* add_frame, finalize).                                                   *)
THEOREM MeasuresRight == Spec => []MeasuresItsWindow
<1>1. Inv => MeasuresItsWindow
  BY DEF Inv
<1>2. QED BY <1>1, Invariance, PTL

(* A row of the waterfall is the latest samples in order, wherever the     *)
(* ring has wrapped (compute_waterfall_bins).                              *)
THEOREM RowsInOrder == Spec => []RowIsLatest
<1>1. Inv => RowIsLatest
  BY DEF Inv, Drawing, Draws, RowSent, RowIsLatest
<1>2. QED BY <1>1, Invariance, PTL
=============================================================================
