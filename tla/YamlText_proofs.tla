--------------------------- MODULE YamlText_proofs ---------------------------
(***************************************************************************)
(* Proofs about YamlText: a quoted text comes back, whatever its length.   *)
(*                                                                         *)
(* The code reads and writes texts character by character, in folds of the *)
(* library.  The first part shows that such a fold is a run: a first state *)
(* and a step for each character (StripRuns, UnescapeRuns; FoldExists is   *)
(* why there is one).  The second describes what write_quoted puts between *)
(* the quotes as the run unquote has to make over it (Reads).  The third   *)
(* follows strip_comment, trim and unquote over a line that opens so, up   *)
(* to its end (ReadsWhole) or to a line break in it (ReadsCut).            *)
(***************************************************************************)
EXTENDS YamlText, FiniteSetTheorems, SequenceTheorems, TLAPS

-----------------------------------------------------------------------------
(* Induction up to a place, and folds                                      *)

(* A set of numbers has a least one: of the intervals up to them, one      *)
(* contains no other.                                                      *)
LEMMA Least ==
    ASSUME NEW T \in SUBSET Nat, T # {}
    PROVE  \E x \in T : \A y \in T : x <= y
<1>. DEFINE F == {1..k : k \in T}
<1>1. F # {} /\ F \subseteq FiniteSubsetsOf(Nat)
  <2>1. ASSUME NEW k \in T PROVE 1..k \in FiniteSubsetsOf(Nat)
    BY FS_Interval DEF FiniteSubsetsOf
  <2>2. QED BY <2>1
<1>2. PICK s \in F : \A t \in F : ~(<<t, s>> \in StrictSubsetOrdering(Nat))
  BY <1>1, FS_StrictSubsetOrderingWellFounded, WFMin
<1>3. PICK x \in T : s = 1..x
  BY <1>2
<1>4. ASSUME NEW y \in T, y < x PROVE FALSE
  <2>1. 1..y \subseteq 1..x /\ x \in 1..x /\ x \notin 1..y
    BY <1>4
  <2>2. <<1..y, s>> \in StrictSubsetOrdering(Nat)
    BY <1>3, <2>1 DEF StrictSubsetOrdering
  <2>3. QED BY <1>2, <2>2
<1>5. QED BY <1>3, <1>4

(* What holds of 0, and of each number up to n after one it holds of,      *)
(* holds of all numbers up to n.                                           *)
LEMMA Counting ==
    ASSUME NEW n \in Nat, NEW P, 0 \in P, \A k \in 0 .. (n - 1) : k \in P => k + 1 \in P
    PROVE  \A k \in 0 .. n : k \in P
<1>. DEFINE Q == (0 .. n) \ P
<1>1. SUFFICES ASSUME Q # {} PROVE FALSE
  OBVIOUS
<1>2. PICK x \in Q : \A y \in Q : x <= y
  <2>1. Q \in SUBSET Nat
    OBVIOUS
  <2>2. QED BY <1>1, <2>1, Least
<1>3. x # 0 /\ x - 1 \in 0 .. (n - 1)
  BY <1>2
<1>4. x - 1 \in P
  BY <1>2, <1>3
<1>5. QED BY <1>2, <1>3, <1>4

(* A set of places in a sequence has a first and a last one.               *)
LEMMA FirstAndLast ==
    ASSUME NEW n \in Nat, NEW T \in SUBSET (1 .. n), T # {}
    PROVE  /\ Min(T) \in T /\ \A i \in T : Min(T) <= i
           /\ Max(T) \in T /\ \A i \in T : Max(T) >= i
<1>1. \E x \in T : \A y \in T : x <= y
  BY Least
<1>2. \E x \in T : \A y \in T : x >= y
  <2>. DEFINE U == {n - i : i \in T}
  <2>1. U \in SUBSET Nat /\ U # {}
    <3>1. \A i \in T : n - i \in Nat
      OBVIOUS
    <3>2. QED BY <3>1
  <2>2. PICK u \in U : \A v \in U : u <= v
    BY <2>1, Least
  <2>3. PICK x \in T : u = n - x
    BY <2>2
  <2>4. ASSUME NEW y \in T PROVE x >= y
    <3>1. n - x <= n - y
      BY <2>2, <2>3
    <3>2. QED BY <3>1
  <2>5. QED BY <2>4
<1>3. QED BY <1>1, <1>2 DEF Min, Max

(* What a fold computes for each set of places in a sequence, the last     *)
(* place last, the step given as a function.                               *)
Folded(f, g, base, seq) ==
    f = [s \in SUBSET DOMAIN seq |->
            IF s = {} THEN base ELSE g[f[s \ {Max(s)}], seq[Max(s)]]]

(* There is such a function.                                               *)
LEMMA FoldExists ==
    ASSUME NEW S, NEW A, NEW g \in [S \X A -> S], NEW base \in S, NEW seq \in Seq(A)
    PROVE  \E f \in [SUBSET DOMAIN seq -> S] : Folded(f, g, base, seq)
<1>. DEFINE Upto(f, k) ==
              /\ f \in [SUBSET (1 .. k) -> S] /\ f[{}] = base
              /\ \A s \in SUBSET (1 .. k) :
                    s # {} => f[s] = g[f[s \ {Max(s)}], seq[Max(s)]]
            P == {k \in 0 .. Len(seq) : \E f : Upto(f, k)}
<1>1. 0 \in P
  <2>1. 1 .. 0 = {}
    OBVIOUS
  <2>2. Upto([s \in SUBSET {} |-> base], 0)
    BY <2>1
  <2>3. 0 \in 0 .. Len(seq)
    BY LenProperties
  <2>. HIDE DEF Upto
  <2>4. QED BY <2>2, <2>3
<1>2. ASSUME NEW k \in 0 .. (Len(seq) - 1), k \in P PROVE k + 1 \in P
  <2>1. PICK f : Upto(f, k)
    BY <1>2
  <2>. DEFINE h == [s \in SUBSET (1 .. (k + 1)) |->
                      IF k + 1 \in s THEN g[f[s \ {k + 1}], seq[k + 1]] ELSE f[s]]
  <2>2. \A s \in SUBSET (1 .. (k + 1)) :
           /\ s \ {k + 1} \in SUBSET (1 .. k)
           /\ k + 1 \notin s => s \in SUBSET (1 .. k)
    OBVIOUS
  <2>3. seq[k + 1] \in A /\ k + 1 \in 0 .. Len(seq) /\ k + 1 \in Nat
    OBVIOUS
  <2>4. h \in [SUBSET (1 .. (k + 1)) -> S]
    <3>1. ASSUME NEW s \in SUBSET (1 .. (k + 1)) PROVE h[s] \in S
      <4>1. f[s \ {k + 1}] \in S /\ (k + 1 \notin s => f[s] \in S)
        BY <2>1, <2>2
      <4>2. QED BY <2>3, <4>1
    <3>2. QED BY <3>1
  <2>5. h[{}] = base
    BY <2>1
  <2>6. ASSUME NEW s \in SUBSET (1 .. (k + 1)), s # {}
        PROVE  h[s] = g[h[s \ {Max(s)}], seq[Max(s)]]
    <3>1. Max(s) \in s /\ \A i \in s : Max(s) >= i
      BY <2>3, <2>6, FirstAndLast
    <3>2. s \ {Max(s)} \in SUBSET (1 .. (k + 1))
      OBVIOUS
    <3>3. CASE k + 1 \in s
      <4>1. Max(s) = k + 1
        <5>1. Max(s) \in 1 .. (k + 1) /\ Max(s) >= k + 1
          BY <3>1, <3>3
        <5>2. QED BY <5>1
      <4>2. h[s \ {k + 1}] = f[s \ {k + 1}]
        BY <3>2, <4>1
      <4>3. h[s] = g[f[s \ {k + 1}], seq[k + 1]]
        BY <3>3
      <4>. HIDE DEF h
      <4>4. QED BY <4>1, <4>2, <4>3
    <3>4. CASE k + 1 \notin s
      <4>1. s \in SUBSET (1 .. k) /\ k + 1 \notin s \ {Max(s)}
        BY <2>2, <3>4
      <4>2. h[s] = f[s] /\ h[s \ {Max(s)}] = f[s \ {Max(s)}]
        BY <3>2, <3>4, <4>1
      <4>3. f[s] = g[f[s \ {Max(s)}], seq[Max(s)]]
        BY <2>1, <2>6, <4>1
      <4>. HIDE DEF h
      <4>4. QED BY <4>2, <4>3
    <3>5. QED BY <3>3, <3>4
  <2>. HIDE DEF h
  <2>7. Upto(h, k + 1)
    BY <2>4, <2>5, <2>6
  <2>8. QED BY <2>3, <2>7
<1>. HIDE DEF P
<1>3. Len(seq) \in P
  <2>1. Len(seq) \in Nat /\ Len(seq) \in 0 .. Len(seq)
    BY LenProperties
  <2>2. QED BY <1>1, <1>2, <2>1, Counting
<1>. USE DEF P
<1>4. PICK f : Upto(f, Len(seq))
  BY <1>3
<1>5. DOMAIN seq = 1 .. Len(seq)
  BY LenProperties
<1>6. QED BY <1>4, <1>5 DEF Folded

(* Of the places up to k the last is k.                                    *)
LEMMA UpToPlace ==
    ASSUME NEW A, NEW seq \in Seq(A), NEW k \in 1 .. Len(seq)
    PROVE  /\ 1 .. k \in SUBSET DOMAIN seq /\ 1 .. k # {}
           /\ Max(1 .. k) = k /\ (1 .. k) \ {Max(1 .. k)} = 1 .. (k - 1)
<1>1. 1 .. k \in SUBSET DOMAIN seq /\ 1 .. k # {} /\ k \in Nat /\ k \in 1 .. k
  <2>1. Len(seq) \in Nat /\ DOMAIN seq = 1 .. Len(seq)
    BY LenProperties
  <2>2. k \in Nat /\ k \in 1 .. k
    BY <2>1
  <2>3. ASSUME NEW i \in 1 .. k PROVE i \in DOMAIN seq
    BY <2>1, <2>2
  <2>4. QED BY <2>2, <2>3
<1>2. Max(1 .. k) = k
  <2>1. Max(1 .. k) \in 1 .. k /\ Max(1 .. k) >= k
    BY <1>1, FirstAndLast
  <2>2. QED BY <1>1, <2>1
<1>3. (1 .. k) \ {k} = 1 .. (k - 1)
  OBVIOUS
<1>4. QED BY <1>1, <1>2, <1>3

(* A set of places has its last in it.                                     *)
LEMMA LastPlace ==
    ASSUME NEW A, NEW seq \in Seq(A), NEW s \in SUBSET DOMAIN seq, s # {}
    PROVE  Max(s) \in DOMAIN seq /\ seq[Max(s)] \in A
<1>1. Len(seq) \in Nat /\ DOMAIN seq = 1 .. Len(seq)
  BY LenProperties
<1>2. Max(s) \in s
  BY <1>1, FirstAndLast
<1>3. QED BY <1>1, <1>2

(* The step of strip_comment.                                              *)
Stripped == [kept : Seq(Char), in_quotes : BOOLEAN, escaped : BOOLEAN, cut : BOOLEAN]
Strip(s, c) ==
    CASE s.cut -> s
      [] ~s.cut /\ ~s.escaped /\ c = "hash" /\ ~s.in_quotes -> [s EXCEPT !.cut = TRUE]
      [] OTHER -> [s EXCEPT
            !.kept = Append(@, c),
            !.escaped = ~s.escaped /\ s.in_quotes /\ c = "backslash",
            !.in_quotes = IF ~s.escaped /\ c = "quote" THEN ~@ ELSE @]
Stripping(r, line) ==
    /\ r[0] = [kept |-> <<>>, in_quotes |-> FALSE, escaped |-> FALSE, cut |-> FALSE]
    /\ \A k \in 1 .. Len(line) : r[k] = Strip(r[k - 1], line[k])

(* strip_comment reads character by character.                             *)
LEMMA StripRuns ==
    ASSUME NEW line \in Seq(Char)
    PROVE  \E r : Stripping(r, line) /\ StripComment(line) = r[Len(line)].kept
<1>. DEFINE base == [kept |-> <<>>, in_quotes |-> FALSE, escaped |-> FALSE, cut |-> FALSE]
            g == [p \in Stripped \X Char |-> Strip(p[1], p[2])]
            Is(f) == f = [s \in SUBSET DOMAIN line |->
                            IF s = {} THEN base ELSE Strip(f[s \ {Max(s)}], line[Max(s)])]
            h == CHOOSE f : Is(f)
            r == [k \in 0 .. Len(line) |-> h[1 .. k]]
<1>1. base \in Stripped
  BY DEF Stripped
<1>2. \A s \in Stripped, c \in Char : Strip(s, c) \in Stripped
  <2>1. SUFFICES ASSUME NEW s \in Stripped, NEW c \in Char PROVE Strip(s, c) \in Stripped
    OBVIOUS
  <2>2. Append(s.kept, c) \in Seq(Char)
    BY DEF Stripped
  <2>3. QED BY <2>2 DEF Strip, Stripped
<1>3. g \in [Stripped \X Char -> Stripped]
  BY <1>2
<1>4. PICK f \in [SUBSET DOMAIN line -> Stripped] : Folded(f, g, base, line)
  <2>. HIDE DEF g, base
  <2>1. QED BY <1>1, <1>3, FoldExists
<1>5. Is(f)
  <2>1. ASSUME NEW s \in SUBSET DOMAIN line, s # {}
        PROVE  g[f[s \ {Max(s)}], line[Max(s)]] = Strip(f[s \ {Max(s)}], line[Max(s)])
    <3>1. Max(s) \in DOMAIN line /\ line[Max(s)] \in Char
      BY <2>1, LastPlace
    <3>2. f[s \ {Max(s)}] \in Stripped
      BY <1>4
    <3>3. QED BY <3>1, <3>2
  <2>. HIDE DEF g, base
  <2>2. QED BY <1>4, <2>1 DEF Folded
<1>6. StripComment(line) = h[DOMAIN line].kept
  BY DEF StripComment, FoldLeft, MapThenFoldSet, Strip
<1>7. Is(h)
  BY <1>5
<1>. HIDE DEF h
<1>8. h[{}] = base
  BY <1>7
<1>9. ASSUME NEW k \in 1 .. Len(line) PROVE h[1 .. k] = Strip(h[1 .. (k - 1)], line[k])
  <2>1. /\ 1 .. k \in SUBSET DOMAIN line /\ 1 .. k # {}
        /\ Max(1 .. k) = k /\ (1 .. k) \ {Max(1 .. k)} = 1 .. (k - 1)
    BY UpToPlace
  <2>. HIDE DEF base
  <2>2. QED BY <1>7, <2>1
<1>10. r[0] = base /\ r[Len(line)] = h[DOMAIN line]
  <2>1. 1 .. 0 = {} /\ DOMAIN line = 1 .. Len(line) /\ Len(line) \in Nat
    OBVIOUS
  <2>. HIDE DEF base
  <2>2. QED BY <1>8, <2>1
<1>11. \A k \in 1 .. Len(line) : r[k] = h[1 .. k] /\ r[k - 1] = h[1 .. (k - 1)]
  OBVIOUS
<1>. HIDE DEF r
<1>12. Stripping(r, line)
  BY <1>9, <1>10, <1>11 DEF Stripping
<1>13. QED BY <1>6, <1>10, <1>12

(* The step of unquote.                                                    *)
Unescaped == [out : Seq(Char), escaped : BOOLEAN, ok : BOOLEAN]
Take(s, c) ==
    IF s.escaped
    THEN [s EXCEPT !.escaped = FALSE, !.out = Append(@, c),
                   !.ok = @ /\ c \in {"quote", "backslash"}]
    ELSE IF c = "backslash" THEN [s EXCEPT !.escaped = TRUE]
    ELSE [s EXCEPT !.out = Append(@, c)]
Taking(r, inner) ==
    /\ r[0] = [out |-> <<>>, escaped |-> FALSE, ok |-> TRUE]
    /\ \A k \in 1 .. Len(inner) : r[k] = Take(r[k - 1], inner[k])

(* unquote reads what is between the quotes character by character.        *)
LEMMA UnescapeRuns ==
    ASSUME NEW inner \in Seq(Char)
    PROVE  \E r : /\ Taking(r, inner)
                  /\ LET end == r[Len(inner)]
                     IN Unescape(inner) = IF end.ok /\ ~end.escaped THEN <<end.out>> ELSE <<>>
<1>. DEFINE base == [out |-> <<>>, escaped |-> FALSE, ok |-> TRUE]
            g == [p \in Unescaped \X Char |-> Take(p[1], p[2])]
            Is(f) == f = [s \in SUBSET DOMAIN inner |->
                            IF s = {} THEN base ELSE Take(f[s \ {Max(s)}], inner[Max(s)])]
            h == CHOOSE f : Is(f)
            r == [k \in 0 .. Len(inner) |-> h[1 .. k]]
<1>1. base \in Unescaped
  BY DEF Unescaped
<1>2. \A s \in Unescaped, c \in Char : Take(s, c) \in Unescaped
  <2>1. SUFFICES ASSUME NEW s \in Unescaped, NEW c \in Char PROVE Take(s, c) \in Unescaped
    OBVIOUS
  <2>2. Append(s.out, c) \in Seq(Char)
    BY DEF Unescaped
  <2>3. QED BY <2>2 DEF Take, Unescaped
<1>3. g \in [Unescaped \X Char -> Unescaped]
  BY <1>2
<1>4. PICK f \in [SUBSET DOMAIN inner -> Unescaped] : Folded(f, g, base, inner)
  <2>. HIDE DEF g, base
  <2>1. QED BY <1>1, <1>3, FoldExists
<1>5. Is(f)
  <2>1. ASSUME NEW s \in SUBSET DOMAIN inner, s # {}
        PROVE  g[f[s \ {Max(s)}], inner[Max(s)]] = Take(f[s \ {Max(s)}], inner[Max(s)])
    <3>1. Max(s) \in DOMAIN inner /\ inner[Max(s)] \in Char
      BY <2>1, LastPlace
    <3>2. f[s \ {Max(s)}] \in Unescaped
      BY <1>4
    <3>3. QED BY <3>1, <3>2
  <2>. HIDE DEF g, base
  <2>2. QED BY <1>4, <2>1 DEF Folded
<1>6. LET end == h[DOMAIN inner]
      IN Unescape(inner) = IF end.ok /\ ~end.escaped THEN <<end.out>> ELSE <<>>
  BY DEF Unescape, FoldLeft, MapThenFoldSet, Take
<1>7. Is(h)
  BY <1>5
<1>. HIDE DEF h
<1>8. h[{}] = base
  BY <1>7
<1>9. ASSUME NEW k \in 1 .. Len(inner) PROVE h[1 .. k] = Take(h[1 .. (k - 1)], inner[k])
  <2>1. /\ 1 .. k \in SUBSET DOMAIN inner /\ 1 .. k # {}
        /\ Max(1 .. k) = k /\ (1 .. k) \ {Max(1 .. k)} = 1 .. (k - 1)
    BY UpToPlace
  <2>. HIDE DEF base
  <2>2. QED BY <1>7, <2>1
<1>10. r[0] = base /\ r[Len(inner)] = h[DOMAIN inner]
  <2>1. 1 .. 0 = {} /\ DOMAIN inner = 1 .. Len(inner) /\ Len(inner) \in Nat
    OBVIOUS
  <2>. HIDE DEF base
  <2>2. QED BY <1>8, <2>1
<1>11. \A k \in 1 .. Len(inner) : r[k] = h[1 .. k] /\ r[k - 1] = h[1 .. (k - 1)]
  OBVIOUS
<1>. HIDE DEF r
<1>12. Taking(r, inner)
  BY <1>9, <1>10, <1>11 DEF Taking
<1>13. QED BY <1>6, <1>10, <1>12

-----------------------------------------------------------------------------
(* What write_quoted writes                                                *)

(* A text between the quotes, read character by character: the places      *)
(* before which a backslash stands that escapes, and what has been read    *)
(* up to each.                                                             *)
Reads(E, after, out, value) ==
    /\ E \in Seq(Char) /\ value \in Seq(Char) /\ out \in [0 .. Len(E) -> Seq(Char)]
    /\ 0 \notin after /\ Len(E) \notin after
    /\ out[0] = <<>> /\ out[Len(E)] = value
    /\ \A i \in 1 .. Len(E) :
          /\ i \in after <=> i - 1 \notin after /\ E[i] = "backslash"
          /\ out[i] = IF i \in after THEN out[i - 1] ELSE Append(out[i - 1], E[i])
          /\ E[i] = "quote" => i - 1 \in after
          /\ i - 1 \in after => E[i] \in {"quote", "backslash"}
    /\ (\E i \in 1 .. Len(E) : E[i] = "break") <=> (\E i \in DOMAIN value : value[i] = "break")

(* One character more.                                                     *)
LEMMA ReadsOneMore ==
    ASSUME NEW E, NEW after, NEW out, NEW value, Reads(E, after, out, value), NEW c \in Char
    PROVE  \E a, o : Reads(E \o Escaped(c), a, o, Append(value, c))
<1>. DEFINE n == Len(E)
<1>1. E \in Seq(Char) /\ value \in Seq(Char) /\ n \in Nat
  BY DEF Reads
<1>2. /\ Append(value, c) \in Seq(Char)
      /\ \A b \in Char : (\E i \in DOMAIN Append(value, c) : Append(value, c)[i] = b)
                            <=> (b = c \/ \E i \in DOMAIN value : value[i] = b)
  <2>1. Len(Append(value, c)) = Len(value) + 1 /\ Append(value, c)[Len(value) + 1] = c
    BY <1>1
  <2>2. \A i \in 1 .. Len(value) : Append(value, c)[i] = value[i]
    BY <1>1
  <2>3. DOMAIN value = 1 .. Len(value) /\ DOMAIN Append(value, c) = 1 .. (Len(value) + 1)
        /\ Len(value) \in Nat
    BY <1>1
  <2>4. QED BY <1>1, <2>1, <2>2, <2>3
<1>3. CASE c \in {"quote", "backslash"}
  <2>. DEFINE F == E \o <<"backslash", c>>
              o == [i \in 0 .. (n + 2) |->
                      IF i <= n THEN out[i] ELSE IF i = n + 1 THEN value ELSE Append(value, c)]
  <2>1. E \o Escaped(c) = F
    BY <1>3 DEF Escaped
  <2>2. /\ F \in Seq(Char) /\ Len(F) = n + 2
        /\ F[n + 1] = "backslash" /\ F[n + 2] = c /\ \A i \in 1 .. n : F[i] = E[i]
    BY <1>1 DEF Char
  <2>. HIDE DEF F
  <2>3. Reads(F, (after \cap (0 .. n)) \cup {n + 1}, o, Append(value, c))
    <3>1. o \in [0 .. (n + 2) -> Seq(Char)]
      BY <1>1, <1>2 DEF Reads
    <3>2. o[0] = <<>> /\ o[n + 2] = Append(value, c) /\ o[n + 1] = value /\ o[n] = value
      BY <1>1 DEF Reads
    <3>3. \A i \in 1 .. n : o[i] = out[i] /\ o[i - 1] = out[i - 1]
      BY <1>1
    <3>. HIDE DEF o
    <3>. DEFINE b == (after \cap (0 .. n)) \cup {n + 1}
    <3>4. 0 \notin b /\ n \notin b /\ n + 1 \in b /\ n + 2 \notin b
          /\ \A i \in 0 .. n : i \in b <=> i \in after
      BY <1>1 DEF Reads
    <3>. HIDE DEF b
    <3>5. ASSUME NEW i \in 1 .. (n + 2)
          PROVE  /\ i \in b <=> i - 1 \notin b /\ F[i] = "backslash"
                 /\ o[i] = IF i \in b THEN o[i - 1] ELSE Append(o[i - 1], F[i])
                 /\ F[i] = "quote" => i - 1 \in b
                 /\ i - 1 \in b => F[i] \in {"quote", "backslash"}
      <4>1. CASE i \in 1 .. n
        <5>1. i - 1 \in 0 .. n /\ i \in 0 .. n
          BY <1>1, <4>1
        <5>2. QED BY <2>2, <3>3, <3>4, <4>1, <5>1 DEF Reads
      <4>2. CASE i = n + 1
        <5>1. i - 1 = n
          BY <1>1, <4>2
        <5>2. QED BY <2>2, <3>2, <3>4, <4>2, <5>1
      <4>3. CASE i = n + 2
        <5>1. i - 1 = n + 1
          BY <1>1, <4>3
        <5>2. QED BY <1>3, <2>2, <3>2, <3>4, <4>3, <5>1
      <4>4. QED BY <1>1, <4>1, <4>2, <4>3
    <3>6. (\E i \in 1 .. Len(F) : F[i] = "break")
             <=> (\E i \in DOMAIN Append(value, c) : Append(value, c)[i] = "break")
      <4>1. \A i \in 1 .. (n + 2) : i \in 1 .. n \/ i = n + 1 \/ i = n + 2
        BY <1>1
      <4>2. \A i \in 1 .. n : i \in 1 .. (n + 2)
        BY <1>1
      <4>3. (\E i \in 1 .. Len(F) : F[i] = "break") <=> (\E i \in 1 .. n : E[i] = "break")
        BY <1>3, <2>2, <4>1, <4>2
      <4>4. QED BY <1>2, <1>3, <4>3 DEF Reads, Char
    <3>7. o \in [0 .. Len(F) -> Seq(Char)] /\ 0 \notin b /\ Len(F) \notin b
          /\ o[0] = <<>> /\ o[Len(F)] = Append(value, c)
      BY <2>2, <3>1, <3>2, <3>4
    <3>8. \A i \in 1 .. Len(F) :
             /\ i \in b <=> i - 1 \notin b /\ F[i] = "backslash"
             /\ o[i] = IF i \in b THEN o[i - 1] ELSE Append(o[i - 1], F[i])
             /\ F[i] = "quote" => i - 1 \in b
             /\ i - 1 \in b => F[i] \in {"quote", "backslash"}
      BY <2>2, <3>5
    <3>9. Reads(F, b, o, Append(value, c))
      BY <1>1, <1>2, <2>2, <3>6, <3>7, <3>8 DEF Reads
    <3>10. QED BY <3>9 DEF b
  <2>4. QED BY <2>1, <2>3
<1>4. CASE c \notin {"quote", "backslash"}
  <2>. DEFINE F == E \o <<c>>
              o == [i \in 0 .. (n + 1) |-> IF i <= n THEN out[i] ELSE Append(value, c)]
  <2>1. E \o Escaped(c) = F
    BY <1>4 DEF Escaped
  <2>2. F \in Seq(Char) /\ Len(F) = n + 1 /\ F[n + 1] = c /\ \A i \in 1 .. n : F[i] = E[i]
    BY <1>1
  <2>. HIDE DEF F
  <2>3. Reads(F, after \cap (0 .. n), o, Append(value, c))
    <3>1. o \in [0 .. (n + 1) -> Seq(Char)]
      BY <1>1, <1>2 DEF Reads
    <3>2. o[0] = <<>> /\ o[n + 1] = Append(value, c) /\ o[n] = value
      BY <1>1 DEF Reads
    <3>3. \A i \in 1 .. n : o[i] = out[i] /\ o[i - 1] = out[i - 1]
      BY <1>1
    <3>. HIDE DEF o
    <3>. DEFINE b == after \cap (0 .. n)
    <3>4. 0 \notin b /\ n \notin b /\ n + 1 \notin b /\ \A i \in 0 .. n : i \in b <=> i \in after
      BY <1>1 DEF Reads
    <3>. HIDE DEF b
    <3>5. ASSUME NEW i \in 1 .. (n + 1)
          PROVE  /\ i \in b <=> i - 1 \notin b /\ F[i] = "backslash"
                 /\ o[i] = IF i \in b THEN o[i - 1] ELSE Append(o[i - 1], F[i])
                 /\ F[i] = "quote" => i - 1 \in b
                 /\ i - 1 \in b => F[i] \in {"quote", "backslash"}
      <4>1. CASE i \in 1 .. n
        <5>1. i - 1 \in 0 .. n /\ i \in 0 .. n
          BY <1>1, <4>1
        <5>2. QED BY <2>2, <3>3, <3>4, <4>1, <5>1 DEF Reads
      <4>2. CASE i = n + 1
        <5>1. i - 1 = n
          BY <1>1, <4>2
        <5>2. QED BY <1>4, <2>2, <3>2, <3>4, <4>2, <5>1
      <4>3. QED BY <1>1, <4>1, <4>2
    <3>6. (\E i \in 1 .. Len(F) : F[i] = "break")
             <=> (\E i \in DOMAIN Append(value, c) : Append(value, c)[i] = "break")
      <4>1. \A i \in 1 .. (n + 1) : i \in 1 .. n \/ i = n + 1
        BY <1>1
      <4>2. n + 1 \in 1 .. (n + 1) /\ \A i \in 1 .. n : i \in 1 .. (n + 1)
        BY <1>1
      <4>3. (\E i \in 1 .. Len(F) : F[i] = "break")
               <=> (c = "break" \/ \E i \in 1 .. n : E[i] = "break")
        BY <2>2, <4>1, <4>2
      <4>4. QED BY <1>2, <4>3 DEF Reads, Char
    <3>7. o \in [0 .. Len(F) -> Seq(Char)] /\ 0 \notin b /\ Len(F) \notin b
          /\ o[0] = <<>> /\ o[Len(F)] = Append(value, c)
      BY <2>2, <3>1, <3>2, <3>4
    <3>8. \A i \in 1 .. Len(F) :
             /\ i \in b <=> i - 1 \notin b /\ F[i] = "backslash"
             /\ o[i] = IF i \in b THEN o[i - 1] ELSE Append(o[i - 1], F[i])
             /\ F[i] = "quote" => i - 1 \in b
             /\ i - 1 \in b => F[i] \in {"quote", "backslash"}
      BY <2>2, <3>5
    <3>9. Reads(F, b, o, Append(value, c))
      BY <1>1, <1>2, <2>2, <3>6, <3>7, <3>8 DEF Reads
    <3>10. QED BY <3>9 DEF b
  <2>4. QED BY <2>1, <2>3
<1>5. QED BY <1>3, <1>4

(* What FlattenSeq computes up to each of a sequence's places.             *)
Flattens(f, n, seqs) ==
    f = [i \in 1 .. n |-> IF i = 1 THEN seqs[i] ELSE f[i - 1] \o seqs[i]]

(* It computes something.                                                  *)
LEMMA FlattenExists ==
    ASSUME NEW n \in Nat, NEW seqs PROVE \E f : Flattens(f, n, seqs)
<1>. DEFINE P == {k \in 0 .. n : \E f : Flattens(f, k, seqs)}
<1>1. 0 \in P
  <2>1. Flattens([i \in 1 .. 0 |-> seqs[i]], 0, seqs)
    BY DEF Flattens
  <2>2. QED BY <2>1
<1>2. ASSUME NEW k \in 0 .. (n - 1), k \in P PROVE k + 1 \in P
  <2>1. PICK f : Flattens(f, k, seqs)
    BY <1>2
  <2>. DEFINE h == [i \in 1 .. (k + 1) |->
                      IF i = k + 1 THEN IF i = 1 THEN seqs[i] ELSE f[k] \o seqs[i] ELSE f[i]]
  <2>2. ASSUME NEW i \in 1 .. (k + 1)
        PROVE  h[i] = IF i = 1 THEN seqs[i] ELSE h[i - 1] \o seqs[i]
    <3>1. CASE i = k + 1
      <4>1. i # 1 => i - 1 = k /\ k \in 1 .. (k + 1) /\ k # k + 1
        BY <3>1
      <4>2. i # 1 => h[i - 1] = f[k]
        BY <4>1
      <4>3. h[i] = IF i = 1 THEN seqs[i] ELSE f[k] \o seqs[i]
        BY <3>1
      <4>. HIDE DEF h
      <4>4. QED BY <4>2, <4>3
    <3>2. CASE i # k + 1
      <4>1. i \in 1 .. k /\ i - 1 \in 0 .. k /\ i - 1 # k + 1
        BY <3>2
      <4>2. h[i] = f[i] /\ (i # 1 => h[i - 1] = f[i - 1])
        BY <3>2, <4>1
      <4>3. f[i] = IF i = 1 THEN seqs[i] ELSE f[i - 1] \o seqs[i]
        BY <2>1, <4>1 DEF Flattens
      <4>. HIDE DEF h
      <4>4. QED BY <4>2, <4>3
    <3>3. QED BY <3>1, <3>2
  <2>3. h = [i \in 1 .. (k + 1) |-> h[i]]
    OBVIOUS
  <2>. HIDE DEF h
  <2>4. Flattens(h, k + 1, seqs)
    BY <2>2, <2>3 DEF Flattens
  <2>5. k + 1 \in 0 .. n
    OBVIOUS
  <2>6. QED BY <2>4, <2>5
<1>. HIDE DEF P
<1>3. n \in P
  BY <1>1, <1>2, Counting
<1>4. QED BY <1>3 DEF P

(* What stands between the quotes is read back as the text.                *)
LEMMA QuotedReads ==
    ASSUME NEW value \in Seq(Char)
    PROVE  \E E, after, out : /\ Reads(E, after, out, value)
                              /\ WriteQuoted(value) = <<"quote">> \o E \o <<"quote">>
<1>. DEFINE n == Len(value)
            seqs == [i \in DOMAIN value |-> Escaped(value[i])]
            f == CHOOSE f : Flattens(f, n, seqs)
<1>1. n \in Nat /\ DOMAIN value = 1 .. n /\ \A i \in 1 .. n : value[i] \in Char
  BY LenProperties
<1>2. Len(seqs) = n
  <2>1. seqs \in Seq({Escaped(value[i]) : i \in DOMAIN value})
    BY <1>1
  <2>2. QED BY <1>1, <2>1
<1>3. Flattens(f, n, seqs)
  <2>. HIDE DEF seqs, n
  <2>1. QED BY <1>1, FlattenExists
<1>4. WriteQuoted(value) =
         <<"quote">> \o (IF n = 0 THEN seqs ELSE f[n]) \o <<"quote">>
  <2>1. FlattenSeq(seqs) = IF n = 0 THEN seqs ELSE f[n]
    <3>. HIDE DEF seqs, n
    <3>1. QED BY <1>2 DEF FlattenSeq, Flattens
  <2>2. QED BY <2>1 DEF WriteQuoted
<1>5. n = 0 => seqs = <<>>
  BY <1>1
<1>6. \A i \in 1 .. n : seqs[i] = Escaped(value[i])
  BY <1>1
<1>. HIDE DEF f, seqs
<1>. DEFINE G(k) == IF k = 0 THEN <<>> ELSE f[k]
            P == {k \in 0 .. n : \E a, o : Reads(G(k), a, o, SubSeq(value, 1, k))}
<1>7. 0 \in P
  <2>1. SubSeq(value, 1, 0) = <<>>
    BY <1>1
  <2>2. Reads(<<>>, {}, [i \in 0 .. 0 |-> <<>>], <<>>)
    BY DEF Reads
  <2>3. \E a, o : Reads(G(0), a, o, SubSeq(value, 1, 0))
    BY <2>1, <2>2
  <2>4. QED BY <1>1, <2>3
<1>8. ASSUME NEW k \in 0 .. (n - 1), k \in P PROVE k + 1 \in P
  <2>1. PICK a, o : Reads(G(k), a, o, SubSeq(value, 1, k))
    BY <1>8
  <2>. DEFINE c == value[k + 1]
  <2>2. k + 1 \in 1 .. n /\ k + 1 # 0 /\ k + 1 - 1 = k /\ c \in Char
    BY <1>1
  <2>3. PICK b, p : Reads(G(k) \o Escaped(c), b, p, Append(SubSeq(value, 1, k), c))
    <3>. HIDE DEF G, c
    <3>1. QED BY <2>1, <2>2, ReadsOneMore
  <2>4. G(k + 1) = G(k) \o Escaped(c)
    <3>. HIDE DEF c
    <3>1. f[k + 1] = IF k = 0 THEN seqs[k + 1] ELSE f[k] \o seqs[k + 1]
      <4>1. \A i \in 1 .. n : f[i] = IF i = 1 THEN seqs[i] ELSE f[i - 1] \o seqs[i]
        <5>. HIDE DEF n
        <5>1. QED BY <1>3 DEF Flattens
      <4>2. k + 1 = 1 <=> k = 0
        OBVIOUS
      <4>3. QED BY <2>2, <4>1, <4>2
    <3>2. seqs[k + 1] = Escaped(c)
      BY <1>6, <2>2 DEF c
    <3>3. CASE k = 0
      <4>1. Escaped(c) \in Seq(Char)
        <5>1. "backslash" \in Char
          BY DEF Char
        <5>2. QED BY <2>2, <5>1 DEF Escaped
      <4>2. <<>> \o Escaped(c) = Escaped(c)
        BY <4>1, ConcatEmptySeq
      <4>3. QED BY <3>1, <3>2, <3>3, <4>2
    <3>4. CASE k # 0
      <4>1. k + 1 # 1
        BY <3>4
      <4>2. QED BY <2>2, <3>1, <3>2, <3>4, <4>1
    <3>5. QED BY <3>3, <3>4
  <2>5. SubSeq(value, 1, k + 1) = Append(SubSeq(value, 1, k), c)
    BY <1>1, <2>2
  <2>6. k + 1 \in 0 .. n
    BY <2>2
  <2>. HIDE DEF G, c, n
  <2>7. QED BY <2>3, <2>4, <2>5, <2>6
<1>. HIDE DEF P
<1>9. n \in P
  <2>. HIDE DEF n
  <2>1. QED BY <1>1, <1>7, <1>8, Counting
<1>10. PICK a, o : Reads(G(n), a, o, value)
  <2>1. SubSeq(value, 1, n) = value
    BY <1>1
  <2>2. QED BY <1>9, <2>1 DEF P
<1>11. WriteQuoted(value) = <<"quote">> \o G(n) \o <<"quote">>
  BY <1>4, <1>5
<1>12. QED BY <1>10, <1>11

-----------------------------------------------------------------------------
(* Reading it                                                              *)

(* Inside quotes strip_comment keeps every character.                      *)
LEMMA StripsNothing ==
    ASSUME NEW s \in Stripped, NEW c \in Char, ~s.cut, s.in_quotes \/ c # "hash"
    PROVE  /\ Strip(s, c) \in Stripped
           /\ Strip(s, c).kept = Append(s.kept, c) /\ ~Strip(s, c).cut
           /\ Strip(s, c).escaped <=> ~s.escaped /\ s.in_quotes /\ c = "backslash"
           /\ Strip(s, c).in_quotes <=> IF ~s.escaped /\ c = "quote" THEN ~s.in_quotes
                                                                     ELSE s.in_quotes
<1>1. Append(s.kept, c) \in Seq(Char)
  BY DEF Stripped
<1>2. Strip(s, c) = [s EXCEPT
            !.kept = Append(@, c),
            !.escaped = ~s.escaped /\ s.in_quotes /\ c = "backslash",
            !.in_quotes = IF ~s.escaped /\ c = "quote" THEN ~@ ELSE @]
  BY DEF Strip
<1>3. QED BY <1>1, <1>2 DEF Stripped

(* A line that starts with a quote and goes on as a quoted text does,      *)
(* to its end or to some place in it.                                      *)
Opens(L, m, E) ==
    /\ L \in Seq(Char) /\ m \in 0 .. Len(E) /\ L[1] = "quote"
    /\ \A i \in 1 .. m : L[i + 1] = E[i]
    /\ \/ Len(L) = m + 1
       \/ m = Len(E) /\ Len(L) = m + 2 /\ L[m + 2] = "quote"

LEMMA StripKeeps ==
    ASSUME NEW E, NEW after, NEW out, NEW value, Reads(E, after, out, value),
           NEW L, NEW m, Opens(L, m, E)
    PROVE  StripComment(L) = L
<1>1. /\ E \in Seq(Char) /\ L \in Seq(Char) /\ Len(E) \in Nat /\ m \in 0 .. Len(E) /\ m \in Nat
      /\ Len(L) \in Nat /\ Len(L) \in {m + 1, m + 2}
  BY DEF Reads, Opens
<1>2. PICK r : Stripping(r, L) /\ StripComment(L) = r[Len(L)].kept
  BY <1>1, StripRuns
<1>. DEFINE Good(k) == /\ r[k + 1] \in Stripped
                       /\ r[k + 1].kept = SubSeq(L, 1, k + 1) /\ ~r[k + 1].cut
                       /\ r[k + 1].in_quotes /\ (r[k + 1].escaped <=> k \in after)
            P == {k \in 0 .. m : Good(k)}
<1>3. \A k \in 0 .. (Len(L) - 1) :
         /\ L[k + 1] \in Char /\ r[k + 1] = Strip(r[k], L[k + 1])
         /\ SubSeq(L, 1, k + 1) = Append(SubSeq(L, 1, k), L[k + 1])
  <2>1. ASSUME NEW k \in 0 .. (Len(L) - 1)
        PROVE  /\ L[k + 1] \in Char /\ r[k + 1] = Strip(r[k], L[k + 1])
               /\ SubSeq(L, 1, k + 1) = Append(SubSeq(L, 1, k), L[k + 1])
    <3>1. k + 1 \in 1 .. Len(L) /\ k + 1 - 1 = k
      BY <1>1
    <3>2. r[k + 1] = Strip(r[k + 1 - 1], L[k + 1])
      BY <1>2, <3>1 DEF Stripping
    <3>3. QED BY <1>1, <3>1, <3>2
  <2>2. QED BY <2>1
<1>4. 0 \in P
  <2>1. SubSeq(L, 1, 0) = <<>>
    BY <1>1
  <2>2. r[0] \in Stripped /\ r[0].kept = <<>> /\ ~r[0].in_quotes /\ ~r[0].escaped /\ ~r[0].cut
    BY <1>2 DEF Stripping, Stripped
  <2>3. 0 \in 0 .. (Len(L) - 1)
    BY <1>1
  <2>4. L[0 + 1] = "quote" /\ L[0 + 1] \in Char
    BY <1>3, <2>3 DEF Opens
  <2>5. Good(0)
    <3>. DEFINE t == Strip(r[0], L[0 + 1])
    <3>1. /\ t \in Stripped /\ t.kept = Append(r[0].kept, L[0 + 1]) /\ ~t.cut
          /\ t.escaped <=> ~r[0].escaped /\ r[0].in_quotes /\ L[0 + 1] = "backslash"
          /\ t.in_quotes <=> IF ~r[0].escaped /\ L[0 + 1] = "quote" THEN ~r[0].in_quotes
                                                                    ELSE r[0].in_quotes
      BY <2>2, <2>4, StripsNothing
    <3>2. 0 \notin after
      BY DEF Reads
    <3>3. r[0 + 1] = t /\ SubSeq(L, 1, 0 + 1) = Append(SubSeq(L, 1, 0), L[0 + 1])
      BY <1>3, <2>3
    <3>. HIDE DEF t
    <3>4. QED BY <2>1, <2>2, <2>4, <3>1, <3>2, <3>3
  <2>6. QED BY <1>1, <2>5
<1>5. ASSUME NEW k \in 0 .. (m - 1), k \in P PROVE k + 1 \in P
  <2>. DEFINE j == k + 1
              c == E[k + 1]
              t == Strip(r[j], L[j + 1])
  <2>1. j \in 1 .. m /\ j \in 0 .. m /\ j \in 1 .. Len(E) /\ j \in 0 .. (Len(L) - 1) /\ j - 1 = k
    BY <1>1
  <2>2. /\ r[j] \in Stripped /\ r[j].kept = SubSeq(L, 1, j) /\ ~r[j].cut
        /\ r[j].in_quotes /\ (r[j].escaped <=> k \in after)
    BY <1>5
  <2>3. L[j + 1] = c /\ c \in Char
    BY <1>1, <2>1 DEF Opens
  <2>4. /\ j \in after <=> k \notin after /\ c = "backslash"
        /\ c = "quote" => k \in after
    <3>1. /\ j \in after <=> j - 1 \notin after /\ E[j] = "backslash"
          /\ E[j] = "quote" => j - 1 \in after
      <4>. HIDE DEF j
      <4>1. QED BY <2>1 DEF Reads
    <3>2. QED BY <2>1, <3>1
  <2>5. r[j + 1] = t /\ SubSeq(L, 1, j + 1) = Append(SubSeq(L, 1, j), L[j + 1])
    <3>. HIDE DEF j
    <3>1. QED BY <1>3, <2>1
  <2>. HIDE DEF c, j
  <2>6. /\ t \in Stripped /\ t.kept = Append(r[j].kept, L[j + 1]) /\ ~t.cut
        /\ t.escaped <=> ~r[j].escaped /\ r[j].in_quotes /\ L[j + 1] = "backslash"
        /\ t.in_quotes <=> IF ~r[j].escaped /\ L[j + 1] = "quote" THEN ~r[j].in_quotes
                                                                  ELSE r[j].in_quotes
    <3>1. /\ r[j] \in Stripped /\ ~r[j].cut
          /\ L[j + 1] \in Char /\ (r[j].in_quotes \/ L[j + 1] # "hash")
      BY <2>2, <2>3
    <3>2. QED BY <3>1, StripsNothing
  <2>. HIDE DEF t
  <2>7. Good(j)
    BY <2>2, <2>3, <2>4, <2>5, <2>6
  <2>8. j \in P
    BY <2>1, <2>7
  <2>9. QED BY <2>8 DEF j
<1>. HIDE DEF P
<1>6. m \in P
  <2>1. m \in Nat
    BY <1>1
  <2>2. \A k \in 0 .. m : k \in P
    BY <1>4, <1>5, <2>1, Counting
  <2>3. QED BY <2>1, <2>2
<1>7. Good(m)
  BY <1>6 DEF P
<1>8. r[Len(L)].kept = SubSeq(L, 1, Len(L))
  <2>1. CASE Len(L) = m + 1
    BY <1>7, <2>1
  <2>2. CASE Len(L) # m + 1
    <3>1. Len(L) = m + 2 /\ m + 1 \in 0 .. (Len(L) - 1) /\ m + 1 + 1 = m + 2
      BY <1>1, <2>2
    <3>. DEFINE j == m + 1
    <3>2. r[j + 1] = Strip(r[j], L[j + 1]) /\ L[j + 1] \in Char
          /\ SubSeq(L, 1, j + 1) = Append(SubSeq(L, 1, j), L[j + 1])
      BY <1>3, <3>1
    <3>3. Strip(r[j], L[j + 1]).kept = Append(r[j].kept, L[j + 1])
      <4>1. r[j] \in Stripped /\ ~r[j].cut /\ (r[j].in_quotes \/ L[j + 1] # "hash")
        BY <1>7
      <4>. HIDE DEF j
      <4>2. QED BY <3>2, <4>1, StripsNothing
    <3>4. QED BY <1>7, <3>1, <3>2, <3>3
  <2>3. QED BY <2>1, <2>2
<1>9. SubSeq(L, 1, Len(L)) = L
  BY <1>1
<1>10. QED BY <1>2, <1>8, <1>9

(* unquote takes a character, or what a backslash stands before.           *)
LEMMA Takes ==
    ASSUME NEW s \in Unescaped, NEW c \in Char, s.ok, s.escaped => c \in {"quote", "backslash"}
    PROVE  /\ Take(s, c) \in Unescaped /\ Take(s, c).ok
           /\ Take(s, c).escaped <=> ~s.escaped /\ c = "backslash"
           /\ Take(s, c).out = IF ~s.escaped /\ c = "backslash" THEN s.out ELSE Append(s.out, c)
<1>1. Append(s.out, c) \in Seq(Char)
  BY DEF Unescaped
<1>2. QED BY <1>1 DEF Take, Unescaped

(* Up to any place it has read what stands there, and ends in an error     *)
(* just after a backslash that escapes.                                    *)
LEMMA UnescapeReads ==
    ASSUME NEW E, NEW after, NEW out, NEW value, Reads(E, after, out, value),
           NEW m \in 0 .. Len(E), NEW I \in Seq(Char), Len(I) = m, \A i \in 1 .. m : I[i] = E[i]
    PROVE  Unescape(I) = IF m \in after THEN <<>> ELSE <<out[m]>>
<1>1. E \in Seq(Char) /\ Len(E) \in Nat /\ m \in Nat
  BY DEF Reads
<1>2. PICK r : /\ Taking(r, I)
               /\ LET end == r[Len(I)]
                  IN Unescape(I) = IF end.ok /\ ~end.escaped THEN <<end.out>> ELSE <<>>
  BY UnescapeRuns
<1>. DEFINE Good(k) == /\ r[k] \in Unescaped /\ r[k].ok /\ r[k].out = out[k]
                       /\ (r[k].escaped <=> k \in after)
            P == {k \in 0 .. m : Good(k)}
<1>3. 0 \in P
  <2>1. r[0] \in Unescaped /\ r[0].ok /\ r[0].out = <<>> /\ ~r[0].escaped
    BY <1>2 DEF Taking, Unescaped
  <2>2. 0 \notin after /\ out[0] = <<>>
    BY DEF Reads
  <2>3. QED BY <1>1, <2>1, <2>2
<1>4. ASSUME NEW k \in 0 .. (m - 1), k \in P PROVE k + 1 \in P
  <2>. DEFINE j == k + 1
              c == E[j]
              t == Take(r[k], c)
  <2>1. j \in 1 .. m /\ j \in 0 .. m /\ j \in 1 .. Len(E) /\ j - 1 = k
    BY <1>1
  <2>2. r[k] \in Unescaped /\ r[k].ok /\ r[k].out = out[k] /\ (r[k].escaped <=> k \in after)
    BY <1>4
  <2>. HIDE DEF j
  <2>3. I[j] = c /\ c \in Char
    BY <1>1, <2>1
  <2>4. /\ j \in after <=> j - 1 \notin after /\ c = "backslash"
        /\ out[j] = IF j \in after THEN out[j - 1] ELSE Append(out[j - 1], c)
        /\ j - 1 \in after => c \in {"quote", "backslash"}
    BY <2>1 DEF Reads
  <2>5. r[j] = t
    <3>1. r[j] = Take(r[j - 1], I[j])
      BY <1>2, <2>1 DEF Taking
    <3>2. QED BY <2>1, <2>3, <3>1
  <2>. HIDE DEF c
  <2>6. /\ t \in Unescaped /\ t.ok
        /\ t.escaped <=> ~r[k].escaped /\ c = "backslash"
        /\ t.out = IF ~r[k].escaped /\ c = "backslash" THEN r[k].out ELSE Append(r[k].out, c)
    BY <2>1, <2>2, <2>3, <2>4, Takes
  <2>. HIDE DEF t
  <2>7. Good(j)
    BY <2>1, <2>2, <2>4, <2>5, <2>6
  <2>8. j \in P
    BY <2>1, <2>7
  <2>9. QED BY <2>8 DEF j
<1>. HIDE DEF P
<1>5. m \in P
  BY <1>1, <1>3, <1>4, Counting
<1>6. Good(m)
  BY <1>5 DEF P
<1>7. QED BY <1>2, <1>6

(* Trim leaves what starts with a quote where it starts.                   *)
LEMMA TrimOpens ==
    ASSUME NEW L \in Seq(Char), Len(L) \in Nat \ {0}, L[1] = "quote"
    PROVE  \E z \in 1 .. Len(L) :
              Trim(L) = SubSeq(L, 1, z) /\ \A i \in 1 .. Len(L) : L[i] # "space" => i <= z
<1>. DEFINE ink == {i \in DOMAIN L : L[i] # "space"}
<1>1. DOMAIN L = 1 .. Len(L) /\ 1 \in ink /\ ink \in SUBSET (1 .. Len(L))
  OBVIOUS
<1>2. /\ Min(ink) \in ink /\ \A i \in ink : Min(ink) <= i
      /\ Max(ink) \in ink /\ \A i \in ink : Max(ink) >= i
  <2>. HIDE DEF ink
  <2>1. ink # {}
    BY <1>1
  <2>2. QED BY <1>1, <2>1, FirstAndLast
<1>3. Min(ink) = 1
  <2>1. Min(ink) \in 1 .. Len(L) /\ Min(ink) <= 1
    BY <1>1, <1>2
  <2>2. QED BY <2>1
<1>4. Trim(L) = SubSeq(L, 1, Max(ink))
  BY <1>1, <1>3 DEF Trim
<1>5. Max(ink) \in 1 .. Len(L) /\ \A i \in 1 .. Len(L) : L[i] # "space" => i <= Max(ink)
  <2>1. Max(ink) \in 1 .. Len(L)
    BY <1>1, <1>2
  <2>2. ASSUME NEW i \in 1 .. Len(L), L[i] # "space" PROVE i <= Max(ink)
    <3>1. i \in ink
      BY <1>1, <2>2
    <3>2. Max(ink) >= i
      BY <1>2, <3>1
    <3>3. QED BY <2>1, <3>2
  <2>3. QED BY <2>1, <2>2
<1>6. QED BY <1>4, <1>5

(* A whole line reads as the text.                                         *)
LEMMA ReadsWhole ==
    ASSUME NEW E, NEW after, NEW out, NEW value, Reads(E, after, out, value),
           NEW L, Opens(L, Len(E), E), Len(L) = Len(E) + 2
    PROVE  Unquote(Trim(StripComment(L))) = <<value>>
<1>. DEFINE n == Len(E)
<1>1. /\ E \in Seq(Char) /\ L \in Seq(Char) /\ n \in Nat /\ Len(L) = n + 2
      /\ L[1] = "quote" /\ L[n + 2] = "quote" /\ \A i \in 1 .. n : L[i + 1] = E[i]
  BY DEF Reads, Opens
<1>2. StripComment(L) = L
  BY StripKeeps
<1>3. Trim(L) = L
  <2>1. PICK z \in 1 .. Len(L) :
           Trim(L) = SubSeq(L, 1, z) /\ \A i \in 1 .. Len(L) : L[i] # "space" => i <= z
    BY <1>1, TrimOpens
  <2>2. n + 2 <= z
    BY <1>1, <2>1
  <2>3. z = Len(L)
    BY <1>1, <2>1, <2>2
  <2>4. QED BY <1>1, <2>1, <2>3
<1>4. Unquote(L) = Unescape(SubSeq(L, 2, n + 1))
  <2>1. L # <<>> /\ Len(L) >= 2 /\ Len(L) - 1 = n + 1 /\ L[Len(L)] = "quote"
    BY <1>1
  <2>2. QED BY <1>1, <2>1 DEF Unquote
<1>5. SubSeq(L, 2, n + 1) = E
  <2>1. Len(SubSeq(L, 2, n + 1)) = n /\ SubSeq(L, 2, n + 1) \in Seq(Char)
    BY <1>1
  <2>2. \A i \in 1 .. n : SubSeq(L, 2, n + 1)[i] = L[i + 1]
    BY <1>1
  <2>3. QED BY <1>1, <2>1, <2>2, SeqEqual
<1>6. Unescape(E) = <<value>>
  <2>1. n \in 0 .. n /\ n \notin after /\ out[n] = value
    BY <1>1 DEF Reads
  <2>2. QED BY <1>1, <2>1, UnescapeReads
<1>7. QED BY <1>2, <1>3, <1>4, <1>5, <1>6

(* One that is cut off is an error: a quote that then stands at its end is *)
(* one the text had, so a backslash stands before it that escapes nothing. *)
LEMMA ReadsCut ==
    ASSUME NEW E, NEW after, NEW out, NEW value, Reads(E, after, out, value),
           NEW L, NEW m, Opens(L, m, E), Len(L) = m + 1
    PROVE  Unquote(Trim(StripComment(L))) = <<>>
<1>1. /\ E \in Seq(Char) /\ L \in Seq(Char) /\ Len(E) \in Nat /\ m \in 0 .. Len(E) /\ m \in Nat
      /\ L[1] = "quote" /\ \A i \in 1 .. m : L[i + 1] = E[i]
  BY DEF Reads, Opens
<1>2. StripComment(L) = L
  BY StripKeeps
<1>3. PICK z \in 1 .. (m + 1) : Trim(L) = SubSeq(L, 1, z)
  BY <1>1, TrimOpens
<1>. DEFINE V == SubSeq(L, 1, z)
<1>4. /\ V \in Seq(Char) /\ Len(V) = z /\ V # <<>> /\ V[1] = "quote" /\ z \in Nat
      /\ \A i \in 1 .. z : V[i] = L[i]
  BY <1>1, <1>3
<1>. HIDE DEF V
<1>5. CASE z < 2 \/ V[z] # "quote"
  BY <1>2, <1>3, <1>4, <1>5 DEF Unquote, V
<1>6. CASE z >= 2 /\ V[z] = "quote"
  <2>1. Unquote(V) = Unescape(SubSeq(V, 2, z - 1))
    BY <1>4, <1>6 DEF Unquote
  <2>. DEFINE i == z - 1
  <2>2. i \in 1 .. m /\ i + 1 = z /\ i \in 1 .. Len(E)
    BY <1>1, <1>3, <1>6
  <2>3. E[i] = "quote"
    BY <1>1, <1>4, <1>6, <2>2
  <2>. HIDE DEF i
  <2>4. i - 1 \in after
    BY <2>2, <2>3 DEF Reads
  <2>5. i - 1 \in 0 .. Len(E) /\ i - 1 \in Nat
    BY <1>1, <2>2
  <2>. DEFINE I == SubSeq(V, 2, i)
  <2>6. I \in Seq(Char) /\ Len(I) = i - 1 /\ \A k \in 1 .. (i - 1) : I[k] = V[k + 1]
    BY <1>4, <2>2, <2>5
  <2>7. \A k \in 1 .. (i - 1) : I[k] = E[k]
    <3>1. \A k \in 1 .. (i - 1) : k + 1 \in 1 .. z /\ k \in 1 .. m
      BY <1>1, <2>2
    <3>. HIDE DEF I
    <3>2. QED BY <1>1, <1>4, <2>6, <3>1
  <2>. HIDE DEF I
  <2>8. Unescape(I) = <<>>
    BY <2>4, <2>5, <2>6, <2>7, UnescapeReads
  <2>9. QED BY <1>2, <1>3, <2>1, <2>8 DEF I, V, i
<1>7. QED BY <1>3, <1>4, <1>5, <1>6

(* What write_quoted writes is read as what it was given.                  *)
LEMMA QuotedBack ==
    ASSUME NEW value \in Seq(Char)
    PROVE  ReadValue(WriteQuoted(value)) =
              IF \E i \in DOMAIN value : value[i] = "break" THEN <<>> ELSE <<value>>
<1>1. PICK E, after, out : /\ Reads(E, after, out, value)
                           /\ WriteQuoted(value) = <<"quote">> \o E \o <<"quote">>
  BY QuotedReads
<1>. DEFINE W == WriteQuoted(value)
            n == Len(E)
            I == {i \in 1 .. Len(W) : W[i] = "break"}
<1>2. E \in Seq(Char) /\ n \in Nat /\ "quote" \in Char
      /\ ((\E i \in 1 .. n : E[i] = "break") <=> \E i \in DOMAIN value : value[i] = "break")
  BY <1>1 DEF Reads, Char
<1>3. /\ W \in Seq(Char) /\ Len(W) = n + 2 /\ W[1] = "quote" /\ W[n + 2] = "quote"
      /\ \A i \in 1 .. n : W[i + 1] = E[i]
  BY <1>1, <1>2
<1>4. FirstLine(W) = IF I # {} THEN Min(I) ELSE 0
  BY DEF FirstLine, SelectInSeq
<1>5. I # {} <=> \E i \in DOMAIN value : value[i] = "break"
  <2>. HIDE DEF W
  <2>1. ASSUME NEW i \in I PROVE i - 1 \in 1 .. n /\ E[i - 1] = "break"
    <3>1. i \in 1 .. (n + 2) /\ W[i] = "break" /\ i # 1 /\ i # n + 2
      BY <1>3, <2>1
    <3>2. i - 1 \in 1 .. n /\ i - 1 + 1 = i
      BY <1>2, <3>1
    <3>3. W[i - 1 + 1] = E[i - 1]
      BY <1>3, <3>2
    <3>4. QED BY <3>1, <3>2, <3>3
  <2>2. ASSUME NEW i \in 1 .. n, E[i] = "break" PROVE i + 1 \in I
    <3>1. i + 1 \in 1 .. (n + 2)
      BY <1>2
    <3>2. QED BY <1>3, <2>2, <3>1
  <2>3. QED BY <1>2, <2>1, <2>2
<1>6. CASE I = {}
  <2>1. OnItsLine(W) = W
    BY <1>4, <1>6 DEF OnItsLine
  <2>. HIDE DEF W, I
  <2>2. Opens(W, n, E)
    BY <1>2, <1>3 DEF Opens
  <2>3. Unquote(Trim(StripComment(W))) = <<value>>
    BY <1>1, <1>3, <2>2, ReadsWhole
  <2>4. QED BY <1>5, <1>6, <2>1, <2>3 DEF ReadValue, W
<1>7. CASE I # {}
  <2>. DEFINE p == Min(I)
              L == SubSeq(W, 1, p - 1)
              m == p - 2
  <2>1. p \in I /\ p \in 1 .. (n + 2) /\ W[p] = "break"
    <3>1. I \in SUBSET (1 .. (n + 2)) /\ n + 2 \in Nat
      BY <1>2, <1>3
    <3>. HIDE DEF I
    <3>2. p \in I
      BY <1>7, <3>1, FirstAndLast
    <3>3. QED BY <3>1, <3>2 DEF I
  <2>2. OnItsLine(W) = L
    <3>1. FirstLine(W) = p /\ p # 0
      BY <1>2, <1>4, <1>7, <2>1
    <3>2. QED BY <3>1 DEF OnItsLine
  <2>. HIDE DEF W, I, p
  <2>3. p \in 2 .. (n + 1)
    BY <1>2, <1>3, <2>1
  <2>4. m \in 0 .. n /\ p - 1 \in 1 .. (n + 2) /\ p - 1 = m + 1
    BY <1>2, <2>3
  <2>5. L \in Seq(Char) /\ Len(L) = m + 1 /\ \A i \in 1 .. (m + 1) : L[i] = W[i]
    BY <1>3, <2>4
  <2>. HIDE DEF L, m
  <2>6. Opens(L, m, E)
    <3>1. 1 \in 1 .. (m + 1)
          /\ \A i \in 1 .. m : i + 1 \in 1 .. (m + 1) /\ i \in 1 .. n
      BY <1>2, <2>4
    <3>2. QED BY <1>3, <2>4, <2>5, <3>1 DEF Opens
  <2>7. Unquote(Trim(StripComment(L))) = <<>>
    BY <1>1, <2>5, <2>6, ReadsCut
  <2>8. QED BY <1>5, <1>7, <2>2, <2>7 DEF ReadValue, W
<1>8. QED BY <1>6, <1>7

-----------------------------------------------------------------------------
(* The theorem                                                             *)

(* What was typed is a text of characters.                                 *)
LEMMA TypedText == Typing => [](text \in Seq(Char))
<1>1. Untyped => text \in Seq(Char)
  BY DEF Untyped
<1>2. text \in Seq(Char) /\ [Clear \/ \E c \in Char : Type(c)]_text => (text \in Seq(Char))'
  <2>1. SUFFICES ASSUME text \in Seq(Char), [Clear \/ \E c \in Char : Type(c)]_text
                 PROVE  text' \in Seq(Char)
    OBVIOUS
  <2>2. CASE Clear
    BY <2>2 DEF Clear
  <2>3. ASSUME NEW c \in Char, Type(c) PROVE text' \in Seq(Char)
    BY <2>1, <2>3, AppendProperties DEF Type
  <2>4. QED BY <2>1, <2>2, <2>3
<1>3. QED BY <1>1, <1>2, PTL DEF Typing

(* A text of any length and any characters is read back as it was written, *)
(* and one with a line break in it is an error and never some other text   *)
(* (yaml.rs write_quoted, strip_comment, split_kv, unquote).               *)
THEOREM TextsComeBack == Typing => []QuotedComesBack
<1>1. text \in Seq(Char) => QuotedComesBack
  BY QuotedBack DEF QuotedComesBack
<1>2. QED BY <1>1, TypedText, PTL
=============================================================================
