------------------------ MODULE BlockDecodersProofs ------------------------
(***************************************************************************)
(* Proofs about BlockDecoders, for bytes, messages, polynoms and limits of *)
(* all sizes: the decoders report what the digits they read mean, and of a *)
(* command that was keyed the selflearning one reports the command, and    *)
(* the others what they take it for.  First come the recursive functions,  *)
(* the rows of digits and of pulses, and the division of polynomials that  *)
(* the checksum is; then the two invariants.                               *)
(***************************************************************************)
EXTENDS BlockDecoders, StreamBitsProofs, SequenceTheorems, FiniteSetTheorems

-----------------------------------------------------------------------------
(* Functions defined by recursion.                                         *)

\* A function on 0 .. N that starts at base and goes on by steps, and that there
\* is one.
IsRecursive(f, N, S, base, step) ==
  /\ f \in [0 .. N -> S]
  /\ f[0] = base
  /\ \A n \in 1 .. N : f[n] = step[<<n, f[n - 1]>>]

LEMMA Recursion ==
  ASSUME NEW N \in Nat, NEW S, NEW base \in S, NEW step \in [(1 .. N) \X S -> S]
  PROVE  \E f : IsRecursive(f, N, S, base, step)
<1> DEFINE Goes(f, m) ==
             f[0] = base /\ \A n \in 1 .. m : f[n] = step[<<n, f[n - 1]>>]
           Reaches(m) == \E f \in [0 .. m -> S] : Goes(f, m)
           T == {m \in 0 .. N : Reaches(m)}
<1>1. 0 \in T
  <2>1. Reaches(0)
    <3> DEFINE g == [n \in 0 .. 0 |-> base]
    <3>1. g \in [0 .. 0 -> S] /\ Goes(g, 0)
      OBVIOUS
    <3> HIDE DEF g
    <3>2. QED
      BY <3>1
  <2> HIDE DEF Reaches
  <2>2. QED
    BY <2>1
<1>2. ASSUME NEW m \in T, m < N PROVE m + 1 \in T
  <2>1. Reaches(m)
    <3> HIDE DEF Reaches
    <3>1. QED
      OBVIOUS
  <2>2. m \in Nat /\ m + 1 \in 1 .. N /\ m + 1 \in 0 .. N
    <3> HIDE DEF Reaches
    <3>1. QED
      BY <1>2
  <2>10. PICK f \in [0 .. m -> S] : Goes(f, m)
    BY <2>1
  <2> DEFINE last == step[<<m + 1, f[m]>>]
             g == [n \in 0 .. m + 1 |-> IF n = m + 1 THEN last ELSE f[n]]
  <2>3. f[m] \in S
    BY <2>2
  <2>4. last \in S
    BY <2>2, <2>3
  <2> HIDE DEF last
  <2>5. g \in [0 .. m + 1 -> S]
    BY <2>2, <2>4
  <2>6. \A n \in 0 .. m : g[n] = f[n]
    BY <2>2
  <2>7. g[m + 1] = last
    BY <2>2
  <2> HIDE DEF g
  <2>8. Goes(g, m + 1)
    <3>1. g[0] = base
      BY <2>10, <2>2, <2>6
    <3>2. ASSUME NEW n \in 1 .. m + 1 PROVE g[n] = step[<<n, g[n - 1]>>]
      <4>1. CASE n = m + 1
        <5>1. (m + 1) - 1 = m /\ m \in 0 .. m
          BY <2>2
        <5>2. QED
          BY <4>1, <5>1, <2>6, <2>7 DEF last
      <4>2. CASE n # m + 1
        <5>1. n \in 1 .. m /\ n \in 0 .. m /\ n - 1 \in 0 .. m
          BY <2>2, <4>2
        <5>2. QED
          BY <5>1, <2>10, <2>6
      <4>3. QED
        BY <4>1, <4>2
    <3>3. QED
      BY <3>1, <3>2
  <2>9. Reaches(m + 1)
    BY <2>5, <2>8
  <2> HIDE DEF Reaches
  <2>11. QED
    BY <2>2, <2>9
<1>3. T \subseteq 0 .. N
  OBVIOUS
<1> HIDE DEF T
<1>4. N \in T
  <2>1. \A n \in 0 .. N : n \in T
    BY <1>1, <1>2, <1>3, BoundedInduction
  <2>2. QED
    BY <2>1
<1>5. QED
  BY <1>4 DEF T, IsRecursive

LEMMA BlockSizes ==
  /\ ByteBits \in Nat \ {0}
  /\ {MaxCount, MaxSignal, SignalLength, HouseBits, UnitBits,
      CodeSwitchDigits, EverflourishDigits, Pt2262Digits, MandolynDigits}
       \subseteq Nat
  /\ CodeSwitchDigits # 0 /\ EverflourishDigits # 0 /\ Pt2262Digits # 0
  /\ SignalLength = HouseBits + UnitBits + 1
  /\ SignalLength < MaxSignal
  BY StreamBitsAssumption, BlockAssumption

\* The digits of PT2262 count 1, 3, 9 ...
LEMMA PowerDef ==
  /\ power \in [0 .. Pt2262Digits -> Nat \ {0}]
  /\ power[0] = 1
  /\ \A n \in 1 .. Pt2262Digits : power[n] = 3 * power[n - 1]
<1> DEFINE N == Pt2262Digits
           S == Nat \ {0}
           Def(f) == f = [n \in 0 .. N |-> IF n = 0 THEN 1 ELSE 3 * f[n - 1]]
<1>1. N \in Nat
  BY BlockSizes
<1>2. \E f \in [0 .. N -> S] : f[0] = 1 /\ \A n \in 1 .. N : f[n] = 3 * f[n - 1]
  <2> DEFINE step == [t \in (1 .. N) \X S |-> 3 * t[2]]
  <2>1. step \in [(1 .. N) \X S -> S]
    OBVIOUS
  <2>2. \A n \in 1 .. N, s \in S : step[<<n, s>>] = 3 * s
    OBVIOUS
  <2> HIDE DEF step
  <2>3. PICK f : IsRecursive(f, N, S, 1, step)
    <3>1. 1 \in S
      OBVIOUS
    <3> HIDE DEF S, N
    <3>2. QED
      BY <1>1, <2>1, <3>1, Recursion
  <2>4. /\ f \in [0 .. N -> S] /\ f[0] = 1
        /\ \A n \in 1 .. N : f[n] = step[<<n, f[n - 1]>>]
    BY <2>3 DEF IsRecursive
  <2>5. \A n \in 1 .. N : f[n - 1] \in S
    BY <1>1, <2>4
  <2>6. QED
    BY <2>2, <2>4, <2>5
<1>3. PICK f \in [0 .. N -> S] : f[0] = 1 /\ \A n \in 1 .. N : f[n] = 3 * f[n - 1]
  BY <1>2
<1>4. Def(f)
  BY <1>1, <1>3
<1>5. power = CHOOSE g : Def(g)
  BY DEF power
<1>6. Def(power)
  BY <1>4, <1>5
<1>7. \A g : Def(g) => g[0] = 1 /\ \A n \in 1 .. N : g[n] = 3 * g[n - 1]
  BY <1>1
<1>8. power[0] = 1 /\ \A n \in 1 .. N : power[n] = 3 * power[n - 1]
  BY <1>6, <1>7
<1>9. \A n \in 0 .. N : power[n] = f[n]
  <2> DEFINE T == {n \in 0 .. N : power[n] = f[n]}
  <2>1. 0 \in T
    BY <1>1, <1>3, <1>8
  <2>2. ASSUME NEW n \in T, n < N PROVE n + 1 \in T
    <3>1. n + 1 \in 1 .. N /\ (n + 1) - 1 = n /\ n + 1 \in 0 .. N
      BY <1>1, <2>2
    <3>2. power[n + 1] = 3 * power[n] /\ f[n + 1] = 3 * f[n]
      BY <3>1, <1>3, <1>8
    <3>3. QED
      BY <3>1, <3>2
  <2>3. T \subseteq 0 .. N
    OBVIOUS
  <2> HIDE DEF T, N
  <2>4. \A n \in 0 .. N : n \in T
    BY <1>1, <2>1, <2>2, <2>3, BoundedInduction
  <2>5. QED
    BY <2>4 DEF T
<1>10. power = [n \in 0 .. N |-> power[n]]
  <2>1. \A g : Def(g) => g = [n \in 0 .. N |-> g[n]]
    OBVIOUS
  <2>2. QED
    BY <2>1, <1>6
<1>11. power = f
  BY <1>9, <1>10
<1>12. QED
  BY <1>8, <1>11

-----------------------------------------------------------------------------
(* The value of a row of digits, and of one more.                          *)

Digits == 0 .. 2

\* The positions of the ones, a position for each place.
LEMMA OnesPlaces ==
  ASSUME NEW s \in Seq(Digits)
  PROVE  /\ Ones(s) = {p \in 0 .. Len(s) - 1 : s[p + 1] = 1}
         /\ \A p : p \in Ones(s) <=> p \in 0 .. Len(s) - 1 /\ s[p + 1] = 1
<1>1. DOMAIN s = 1 .. Len(s) /\ Len(s) \in Nat
  OBVIOUS
<1>2. ASSUME NEW p \in Ones(s) PROVE p \in 0 .. Len(s) - 1 /\ s[p + 1] = 1
  <2>1. PICK k \in DOMAIN s : p = k - 1 /\ s[k] = 1
    BY DEF Ones
  <2>2. p + 1 = k
    BY <1>1, <2>1
  <2>3. QED
    BY <1>1, <2>1, <2>2
<1>3. ASSUME NEW p \in 0 .. Len(s) - 1, s[p + 1] = 1 PROVE p \in Ones(s)
  <2>1. p + 1 \in DOMAIN s /\ p = (p + 1) - 1
    BY <1>1
  <2>2. QED
    BY <1>3, <2>1 DEF Ones
<1>4. QED
  BY <1>2, <1>3

LEMMA OnesAppend ==
  ASSUME NEW s \in Seq(Digits), NEW x \in Digits
  PROVE  Ones(Append(s, x)) = Ones(s) \cup OnlyIf({Len(s)}, x)
<1> DEFINE t == Append(s, x)
           n == Len(s)
<1>1. /\ t \in Seq(Digits) /\ Len(t) = n + 1 /\ n \in Nat /\ t[n + 1] = x
      /\ \A k \in 1 .. n : t[k] = s[k]
  BY AppendProperties
<1> HIDE DEF t
<1>2. ASSUME NEW p PROVE p \in Ones(t) <=> p \in Ones(s) \cup OnlyIf({n}, x)
  <2>1. CASE p \in 0 .. n - 1
    <3>1. p # n /\ p \in 0 .. (n + 1) - 1 /\ t[p + 1] = s[p + 1]
      BY <1>1, <2>1
    <3>2. QED
      BY <1>1, <2>1, <3>1, OnesPlaces DEF OnlyIf
  <2>2. CASE p = n
    <3>1. p \in 0 .. (n + 1) - 1 /\ p \notin 0 .. n - 1
      BY <1>1, <2>2
    <3>2. QED
      BY <1>1, <2>2, <3>1, OnesPlaces DEF OnlyIf
  <2>3. CASE p \notin 0 .. n - 1 /\ p # n
    <3>1. p \notin 0 .. (n + 1) - 1
      BY <1>1, <2>3
    <3>2. QED
      BY <1>1, <2>3, <3>1, OnesPlaces DEF OnlyIf
  <2>4. QED
    BY <2>1, <2>2, <2>3
<1>3. Ones(t) = Ones(s) \cup OnlyIf({n}, x)
  BY <1>2
<1>4. QED
  BY <1>3 DEF t

LEMMA ReversePlaces ==
  ASSUME NEW s \in Seq(Digits)
  PROVE  /\ Reverse(s) \in Seq(Digits) /\ Len(Reverse(s)) = Len(s)
         /\ \A k \in 1 .. Len(s) : Reverse(s)[k] = s[(Len(s) - k) + 1]
<1>1. Len(s) \in Nat /\ \A k \in 1 .. Len(s) : (Len(s) - k) + 1 \in 1 .. Len(s)
  OBVIOUS
<1>2. \A k \in 1 .. Len(s) : s[(Len(s) - k) + 1] \in Digits
  BY <1>1
<1>3. QED
  BY <1>1, <1>2, IsASeq DEF Reverse

LEMMA OnesReverseAppend ==
  ASSUME NEW s \in Seq(Digits), NEW x \in Digits
  PROVE  Ones(Reverse(Append(s, x))) = Up(Ones(Reverse(s))) \cup OnlyIf({0}, x)
<1> DEFINE t == Append(s, x)
           n == Len(s)
<1>1. /\ t \in Seq(Digits) /\ Len(t) = n + 1 /\ n \in Nat /\ t[n + 1] = x
      /\ \A k \in 1 .. n : t[k] = s[k]
  BY AppendProperties
<1> HIDE DEF t
<1> DEFINE u == Reverse(t)
           r == Reverse(s)
<1>2. /\ u \in Seq(Digits) /\ Len(u) = n + 1
      /\ \A k \in 1 .. n + 1 : u[k] = t[((n + 1) - k) + 1]
  BY <1>1, ReversePlaces
<1>3. /\ r \in Seq(Digits) /\ Len(r) = n
      /\ \A k \in 1 .. n : r[k] = s[(n - k) + 1]
  BY ReversePlaces
<1> HIDE DEF u, r
<1>4. u[1] = x
  <2>1. 1 \in 1 .. n + 1 /\ ((n + 1) - 1) + 1 = n + 1
    BY <1>1
  <2>2. QED
    BY <1>1, <1>2, <2>1
<1>5. ASSUME NEW p \in 0 .. n - 1 PROVE u[(p + 1) + 1] = r[p + 1]
  <2>1. /\ (p + 1) + 1 \in 1 .. n + 1 /\ p + 1 \in 1 .. n
        /\ ((n + 1) - ((p + 1) + 1)) + 1 = (n - (p + 1)) + 1
        /\ (n - (p + 1)) + 1 \in 1 .. n
    BY <1>1
  <2>2. u[(p + 1) + 1] = t[((n + 1) - ((p + 1) + 1)) + 1]
    BY <1>2, <2>1
  <2>3. r[p + 1] = s[(n - (p + 1)) + 1]
    BY <1>3, <2>1
  <2>4. QED
    BY <1>1, <2>1, <2>2, <2>3
<1>6. ASSUME NEW p PROVE p \in Ones(u) <=> p \in Up(Ones(r)) \cup OnlyIf({0}, x)
  <2>1. CASE p = 0
    <3>1. 0 \notin Up(Ones(r))
      <4>1. \A q \in Ones(r) : q \in Nat
        BY <1>3, OnesPlaces
      <4>2. \A q \in Ones(r) : q + 1 # 0
        BY <4>1
      <4>3. QED
        BY <4>2 DEF Up
    <3>2. 0 \in 0 .. (n + 1) - 1 /\ 0 + 1 = 1
      BY <1>1
    <3>3. QED
      BY <1>2, <1>4, <2>1, <3>1, <3>2, OnesPlaces DEF OnlyIf
  <2>2. CASE p \in 1 .. n
    <3> DEFINE q == p - 1
    <3>1. q \in 0 .. n - 1 /\ p = q + 1 /\ p # 0 /\ p \in 0 .. (n + 1) - 1
      BY <1>1, <2>2
    <3> HIDE DEF q
    <3>2. u[p + 1] = r[q + 1]
      BY <1>5, <3>1
    <3>3. p \in Ones(u) <=> q \in Ones(r)
      BY <1>2, <1>3, <3>1, <3>2, OnesPlaces
    <3>4. p \in Up(Ones(r)) <=> q \in Ones(r)
      <4>1. \A o \in Ones(r) : o \in Nat
        BY <1>3, OnesPlaces
      <4>2. \A o \in Ones(r) : p = o + 1 => o = q
        BY <4>1, <3>1
      <4>3. QED
        BY <4>2, <3>1 DEF Up
    <3>5. QED
      BY <3>1, <3>3, <3>4 DEF OnlyIf
  <2>3. CASE p \notin 0 .. n
    <3>1. p \notin 0 .. (n + 1) - 1 /\ p # 0
      BY <1>1, <2>3
    <3>2. p \notin Up(Ones(r))
      <4>1. \A o \in Ones(r) : o + 1 \in 0 .. n
        BY <1>1, <1>3, OnesPlaces
      <4>2. QED
        BY <4>1, <2>3 DEF Up
    <3>3. QED
      BY <1>2, <3>1, <3>2, OnesPlaces DEF OnlyIf
  <2>4. p = 0 \/ p \in 1 .. n \/ p \notin 0 .. n
    BY <1>1
  <2>5. QED
    BY <2>1, <2>2, <2>3, <2>4
<1>7. Ones(u) = Up(Ones(r)) \cup OnlyIf({0}, x)
  BY <1>6
<1>8. QED
  BY <1>7 DEF u, r, t

\* The digits that selflearning has room for: the last ones.
Window(s) ==
  IF Len(s) <= SignalLength + 1 THEN s
  ELSE SubSeq(s, Len(s) - SignalLength, Len(s))

\* How many are before them.
Lost(n) == IF n <= SignalLength + 1 THEN 0 ELSE (n - SignalLength) - 1

LEMMA WindowPlaces ==
  ASSUME NEW s \in Seq(Digits)
  PROVE  /\ Window(s) \in Seq(Digits) /\ Lost(Len(s)) \in Nat
         /\ Len(Window(s)) = Len(s) - Lost(Len(s))
         /\ Len(Window(s)) <= SignalLength + 1
         /\ \A p : p \in Ones(Window(s)) <=>
                     /\ p \in 0 .. (Len(s) - Lost(Len(s))) - 1
                     /\ s[(Lost(Len(s)) + p) + 1] = 1
<1> DEFINE n == Len(s)
           f == Lost(n)
           w == Window(s)
<1>1. n \in Nat /\ SignalLength \in Nat
  BY BlockSizes
<1>2. f \in Nat /\ n - f <= SignalLength + 1 /\ f <= n
  <2>1. CASE n <= SignalLength + 1
    BY <1>1, <2>1 DEF Lost
  <2>2. CASE n > SignalLength + 1
    <3>1. f = (n - SignalLength) - 1
      BY <1>1, <2>2 DEF Lost
    <3> HIDE DEF f, n
    <3>2. QED
      BY <1>1, <2>2, <3>1
  <2>3. QED
    BY <1>1, <2>1, <2>2
<1>3. /\ w \in Seq(Digits) /\ Len(w) = n - f
      /\ \A k \in 1 .. n - f : w[k] = s[f + k]
  <2>1. CASE n <= SignalLength + 1
    BY <1>1, <2>1 DEF Lost, Window
  <2>2. CASE ~ (n <= SignalLength + 1)
    <3>1. /\ w = SubSeq(s, n - SignalLength, n) /\ f = (n - SignalLength) - 1
          /\ n - SignalLength \in Int /\ n - SignalLength <= n
          /\ \A i \in n - SignalLength .. n : i \in 1 .. n
      BY <1>1, <2>2 DEF Lost, Window
    <3>2. \A i \in n - SignalLength .. n : s[i] \in Digits
      BY <3>1
    <3> DEFINE m == n - SignalLength
    <3>3. /\ w \in Seq(Digits)
          /\ Len(w) = IF m <= n THEN n - m + 1 ELSE 0
          /\ \A i \in 1 .. n - m + 1 : w[i] = s[m + i - 1]
      <4>1. m \in Int /\ n \in Int
        BY <1>1, <3>1
      <4> HIDE DEF m, w
      <4>2. w = SubSeq(s, m, n)
        BY <3>1 DEF m
      <4>3. \A i \in m .. n : s[i] \in Digits
        BY <3>2 DEF m
      <4>4. QED
        BY <4>1, <4>2, <4>3, SubSeqProperties
    <3>4. /\ n - m + 1 = n - f
          /\ \A i \in 1 .. n - f : m + i - 1 = f + i
      BY <1>1, <3>1
    <3>5. QED
      BY <3>1, <3>3, <3>4
  <2>3. QED
    BY <2>1, <2>2
<1> HIDE DEF w, f
<1>4. \A p \in 0 .. (n - f) - 1 : w[p + 1] = s[(f + p) + 1]
  <2>1. \A p \in 0 .. (n - f) - 1 : p + 1 \in 1 .. n - f /\ f + (p + 1) = (f + p) + 1
    BY <1>1, <1>2
  <2>2. QED
    BY <1>3, <2>1
<1>5. \A p : p \in Ones(w) <=> p \in 0 .. (n - f) - 1 /\ w[p + 1] = 1
  BY <1>3, OnesPlaces
<1>6. QED
  BY <1>2, <1>3, <1>4, <1>5 DEF w, f

LEMMA OnesWindowAppend ==
  ASSUME NEW s \in Seq(Digits), NEW x \in Digits
  PROVE  Ones(Window(Append(s, x))) = ArctechStored(Ones(Window(s)), Len(s), x)
<1> DEFINE t == Append(s, x)
           n == Len(s)
           f == Lost(n)
           g == Lost(n + 1)
           SL == SignalLength
<1>1. /\ t \in Seq(Digits) /\ Len(t) = n + 1 /\ n \in Nat /\ t[n + 1] = x
      /\ \A k \in 1 .. n : t[k] = s[k]
  BY AppendProperties
<1>2. SL \in Nat
  BY BlockSizes
<1> HIDE DEF t
<1>3. \A p : p \in Ones(Window(s)) <=>
               p \in 0 .. (n - f) - 1 /\ s[(f + p) + 1] = 1
  BY WindowPlaces
<1>4. \A p : p \in Ones(Window(t)) <=>
               p \in 0 .. ((n + 1) - g) - 1 /\ t[(g + p) + 1] = 1
  <2>1. \A p : p \in Ones(Window(t)) <=>
                 /\ p \in 0 .. (Len(t) - Lost(Len(t))) - 1
                 /\ t[(Lost(Len(t)) + p) + 1] = 1
    BY <1>1, WindowPlaces
  <2>2. QED
    BY <1>1, <2>1
<1>5. CASE n <= SL
  <2>1. f = 0 /\ g = 0
    BY <1>1, <1>2, <1>5 DEF Lost
  <2> DEFINE o == Ones(Window(s))
  <2>2. ASSUME NEW p PROVE p \in Ones(Window(t)) <=> p \in o \cup OnlyIf({n}, x)
    <3>1. CASE p \in 0 .. n - 1
      <4>1. /\ p # n /\ p \in 0 .. ((n + 1) - 0) - 1 /\ t[(0 + p) + 1] = s[(0 + p) + 1]
            /\ p \in 0 .. (n - 0) - 1
        BY <1>1, <3>1
      <4>2. QED
        BY <1>3, <1>4, <2>1, <3>1, <4>1 DEF OnlyIf
    <3>2. CASE p = n
      <4>1. /\ p \in 0 .. ((n + 1) - 0) - 1 /\ p \notin 0 .. (n - 0) - 1
            /\ (0 + p) + 1 = n + 1
        BY <1>1, <3>2
      <4>2. QED
        BY <1>1, <1>3, <1>4, <2>1, <3>2, <4>1 DEF OnlyIf
    <3>3. CASE p \notin 0 .. n - 1 /\ p # n
      <4>1. p \notin 0 .. ((n + 1) - 0) - 1 /\ p \notin 0 .. (n - 0) - 1
        BY <1>1, <3>3
      <4>2. QED
        BY <1>3, <1>4, <2>1, <3>3, <4>1 DEF OnlyIf
    <3>4. QED
      BY <3>1, <3>2, <3>3
  <2>3. Ones(Window(t)) = o \cup OnlyIf({n}, x)
    BY <2>2
  <2>4. ~ (n > SL)
    BY <1>1, <1>2, <1>5
  <2>5. QED
    BY <2>3, <2>4 DEF ArctechStored, t
<1>6. CASE n > SL
  <2>1. g = n - SL /\ f = (n - SL) - 1 /\ f \in Nat
    BY <1>1, <1>2, <1>6 DEF Lost
  <2> DEFINE o == Ones(Window(s))
  <2>2. \A p : p \in o <=> p \in 0 .. SL /\ s[(f + p) + 1] = 1
    <3>1. (n - f) - 1 = SL
      BY <1>1, <1>2, <2>1
    <3>2. QED
      BY <1>3, <3>1
  <2>3. \A p : p \in Ones(Window(t)) <=> p \in 0 .. SL /\ t[(g + p) + 1] = 1
    <3>1. ((n + 1) - g) - 1 = SL
      BY <1>1, <1>2, <2>1
    <3>2. QED
      BY <1>4, <3>1
  <2> HIDE DEF o
  <2>4. \A p : p \in Down(o) <=> p \in Int /\ p + 1 \in o /\ p + 1 # 0
    <3>1. \A q \in o : q \in Nat
      BY <1>2, <2>2
    <3>2. ASSUME NEW p \in Down(o) PROVE p \in Int /\ p + 1 \in o /\ p + 1 # 0
      <4>1. PICK q \in o \ {0} : p = q - 1
        BY DEF Down
      <4>2. q \in Nat /\ p + 1 = q
        BY <3>1, <4>1
      <4>3. QED
        BY <4>1, <4>2
    <3>3. ASSUME NEW p \in Int, p + 1 \in o, p + 1 # 0 PROVE p \in Down(o)
      <4>1. p = (p + 1) - 1
        OBVIOUS
      <4>2. QED
        BY <3>3, <4>1 DEF Down
    <3>4. QED
      BY <3>2, <3>3
  <2>5. ASSUME NEW p PROVE p \in Ones(Window(t)) <=> p \in Down(o) \cup OnlyIf({SL}, x)
    <3>1. CASE p \in 0 .. SL - 1
      <4>1. p \in Int /\ p + 1 # 0 /\ p + 1 \in 0 .. SL /\ p \in 0 .. SL /\ p # SL
        BY <1>2, <3>1
      <4>2. (g + p) + 1 = (f + (p + 1)) + 1 /\ (g + p) + 1 \in 1 .. n
        <5> HIDE DEF f, g, n
        <5>1. QED
          BY <1>1, <1>2, <1>6, <2>1, <3>1
      <4>3. t[(g + p) + 1] = s[(f + (p + 1)) + 1]
        BY <1>1, <4>2
      <4>4. QED
        BY <2>2, <2>3, <2>4, <4>1, <4>3 DEF OnlyIf
    <3>2. CASE p = SL
      <4>1. p \in 0 .. SL /\ p + 1 \notin 0 .. SL /\ (g + p) + 1 = n + 1
        BY <1>1, <1>2, <2>1, <3>2
      <4>2. QED
        BY <1>1, <2>2, <2>3, <2>4, <3>2, <4>1 DEF OnlyIf
    <3>3. CASE p \notin 0 .. SL
      <4>1. p # SL
        BY <1>2, <3>3
      <4>2. p \notin Down(o)
        <5>1. SUFFICES ASSUME p \in Int, p + 1 \in 0 .. SL, p + 1 # 0 PROVE FALSE
          BY <2>2, <2>4
        <5>2. QED
          BY <1>2, <3>3, <5>1
      <4>3. QED
        BY <2>3, <3>3, <4>1, <4>2 DEF OnlyIf
    <3>4. p \in 0 .. SL - 1 \/ p = SL \/ p \notin 0 .. SL
      BY <1>2
    <3>5. QED
      BY <3>1, <3>2, <3>3, <3>4
  <2>6. Ones(Window(t)) = Down(o) \cup OnlyIf({SL}, x)
    BY <2>5
  <2>7. QED
    BY <1>6, <2>6 DEF ArctechStored, t, o
<1>7. QED
  BY <1>1, <1>2, <1>5, <1>6

\* The steps of Ternary, from the last digit to the first.
Horner(v, s) ==
  /\ v \in [0 .. Len(s) -> Nat] /\ v[0] = 0
  /\ \A n \in 1 .. Len(s) : v[n] = s[(Len(s) - n) + 1] + 3 * v[n - 1]

LEMMA TernaryDef ==
  ASSUME NEW s \in Seq(Digits)
  PROVE  \E v : Horner(v, s) /\ Ternary(s) = v[Len(s)]
<1> DEFINE N == Len(s)
           Digit0(n) == s[(N - n) + 1]
           Def(g) == g = [n \in 0 .. N |->
                            IF n = 0 THEN 0 ELSE Digit0(n) + 3 * g[n - 1]]
           step == [a \in (1 .. N) \X Nat |-> Digit0(a[1]) + 3 * a[2]]
<1>1. N \in Nat /\ \A n \in 1 .. N : (N - n) + 1 \in 1 .. N
  OBVIOUS
<1>2. \A n \in 1 .. N : Digit0(n) \in Nat
  BY <1>1 DEF Digits
<1> HIDE DEF Digit0, N
<1>3. step \in [(1 .. N) \X Nat -> Nat]
  BY <1>2
<1>4. \A n \in 1 .. N, a \in Nat : step[<<n, a>>] = Digit0(n) + 3 * a
  OBVIOUS
<1> HIDE DEF step
<1>5. PICK f : IsRecursive(f, N, Nat, 0, step)
  <2>1. 0 \in Nat
    OBVIOUS
  <2>2. QED
    BY <1>1, <1>3, <2>1, Recursion
<1>6. /\ f \in [0 .. N -> Nat] /\ f[0] = 0
      /\ \A n \in 1 .. N : f[n] = step[<<n, f[n - 1]>>]
  BY <1>5 DEF IsRecursive
<1>7. \A n \in 1 .. N : f[n - 1] \in Nat
  BY <1>1, <1>6
<1>8. \A n \in 1 .. N : f[n] = Digit0(n) + 3 * f[n - 1]
  BY <1>4, <1>6, <1>7
<1>9. Def(f)
  BY <1>1, <1>6, <1>8
<1> DEFINE v == CHOOSE g : Def(g)
<1>10. Def(v)
  <2> HIDE DEF Def
  <2>1. QED
    BY <1>9
<1>11. Ternary(s) = v[N]
  BY DEF Ternary, Digit0, N
<1> HIDE DEF v
<1>12. v[0] = 0 /\ \A n \in 1 .. N : v[n] = Digit0(n) + 3 * v[n - 1]
  <2>1. \A g : Def(g) => g[0] = 0 /\ \A n \in 1 .. N : g[n] = Digit0(n) + 3 * g[n - 1]
    BY <1>1
  <2>2. QED
    BY <1>10, <2>1
<1>13. \A n \in 0 .. N : v[n] \in Nat
  <2> DEFINE T == {n \in 0 .. N : v[n] \in Nat}
  <2>1. 0 \in T
    BY <1>1, <1>12
  <2>2. ASSUME NEW n \in T, n < N PROVE n + 1 \in T
    <3>1. n + 1 \in 1 .. N /\ (n + 1) - 1 = n /\ n + 1 \in 0 .. N
      BY <1>1, <2>2
    <3>2. v[n + 1] = Digit0(n + 1) + 3 * v[n] /\ v[n] \in Nat
      BY <3>1, <1>12
    <3>3. QED
      BY <1>2, <3>1, <3>2
  <2>3. T \subseteq 0 .. N
    OBVIOUS
  <2> HIDE DEF T
  <2>4. \A n \in 0 .. N : n \in T
    BY <1>1, <2>1, <2>2, <2>3, BoundedInduction
  <2>5. QED
    BY <2>4 DEF T
<1>14. v \in [0 .. N -> Nat]
  <2>1. \A g : Def(g) => g = [n \in 0 .. N |-> g[n]]
    OBVIOUS
  <2>2. v = [n \in 0 .. N |-> v[n]]
    BY <2>1, <1>10
  <2>3. QED
    BY <2>2, <1>13
<1>15. QED
  BY <1>11, <1>12, <1>14 DEF Horner, N, Digit0

LEMMA TernaryAppend ==
  ASSUME NEW s \in Seq(Digits), NEW x \in Digits, Len(s) < Pt2262Digits
  PROVE  Ternary(Append(s, x)) = Ternary(s) + x * power[Len(s)]
<1> DEFINE t == Append(s, x)
           n == Len(s)
<1>1. /\ t \in Seq(Digits) /\ Len(t) = n + 1 /\ n \in Nat /\ t[n + 1] = x
      /\ \A k \in 1 .. n : t[k] = s[k]
  BY AppendProperties
<1>2. n < Pt2262Digits /\ Pt2262Digits \in Nat
  BY BlockSizes
<1>3. \A k \in 1 .. n : s[k] \in Nat
  BY DEF Digits
<1> HIDE DEF t, n
<1>4. PICK v : Horner(v, s) /\ Ternary(s) = v[n]
  BY TernaryDef DEF n
<1>5. PICK u : Horner(u, t) /\ Ternary(t) = u[n + 1]
  BY <1>1, TernaryDef
<1>6. /\ v \in [0 .. n -> Nat] /\ v[0] = 0
      /\ \A i \in 1 .. n : v[i] = s[(n - i) + 1] + 3 * v[i - 1]
  BY <1>4 DEF Horner, n
<1>7. /\ u \in [0 .. n + 1 -> Nat] /\ u[0] = 0
      /\ \A i \in 1 .. n + 1 : u[i] = t[((n + 1) - i) + 1] + 3 * u[i - 1]
  BY <1>1, <1>5 DEF Horner
<1> DEFINE T == {i \in 0 .. n : u[i + 1] = v[i] + x * power[i]}
<1>8. 0 \in T
  <2>1. 1 \in 1 .. n + 1 /\ ((n + 1) - 1) + 1 = n + 1 /\ 1 - 1 = 0
    BY <1>1
  <2>2. u[1] = x + 3 * 0
    BY <1>1, <1>7, <2>1
  <2>3. power[0] = 1
    BY PowerDef
  <2>4. x * 1 = x /\ x + 3 * 0 = x /\ 0 + x = x
    BY DEF Digits
  <2>5. u[0 + 1] = v[0] + x * power[0]
    BY <1>6, <2>2, <2>3, <2>4
  <2>6. QED
    BY <1>1, <2>5
<1>9. ASSUME NEW i \in T, i < n PROVE i + 1 \in T
  <2>1. /\ i \in Nat /\ i + 1 \in 0 .. n /\ i + 1 \in 1 .. n /\ (i + 1) + 1 \in 1 .. n + 1
        /\ ((n + 1) - ((i + 1) + 1)) + 1 = (n - (i + 1)) + 1
        /\ (n - (i + 1)) + 1 \in 1 .. n
        /\ (i + 1) - 1 = i /\ ((i + 1) + 1) - 1 = i + 1
        /\ i \in 0 .. Pt2262Digits /\ i + 1 \in 1 .. Pt2262Digits /\ i \in 0 .. n
    BY <1>1, <1>2, <1>9
  <2> DEFINE d == s[(n - (i + 1)) + 1]
  <2>2. u[(i + 1) + 1] = d + 3 * u[i + 1]
    BY <1>1, <1>7, <2>1
  <2>3. v[i + 1] = d + 3 * v[i]
    BY <1>6, <2>1
  <2>4. power[i + 1] = 3 * power[i] /\ power[i] \in Nat
    BY <2>1, PowerDef
  <2>5. u[i + 1] = v[i] + x * power[i]
    OBVIOUS
  <2>6. d \in Nat /\ v[i] \in Nat
    BY <1>3, <1>6, <2>1
  <2> HIDE DEF d
  <2>7. x * (3 * power[i]) = 3 * (x * power[i])
    <3>1. x = 0 \/ x = 1 \/ x = 2
      BY DEF Digits
    <3>2. QED
      BY <2>4, <3>1
  <2>8. x * power[i] \in Nat
    BY <2>4 DEF Digits
  <2>9. u[(i + 1) + 1] = v[i + 1] + x * power[i + 1]
    <3> DEFINE xp == x * power[i]
               vi == v[i]
    <3>1. u[(i + 1) + 1] = d + 3 * (vi + xp)
      BY <2>2, <2>5
    <3>2. v[i + 1] + x * power[i + 1] = (d + 3 * vi) + 3 * xp
      BY <2>3, <2>4, <2>7
    <3>3. xp \in Nat /\ vi \in Nat
      BY <2>6, <2>8
    <3> HIDE DEF xp, vi
    <3>4. QED
      BY <3>1, <3>2, <3>3, <2>6
  <2>10. QED
    BY <2>1, <2>9
<1>10. n \in T
  <2>1. T \subseteq 0 .. n
    OBVIOUS
  <2> HIDE DEF T
  <2>2. \A i \in 0 .. n : i \in T
    BY <1>1, <1>8, <1>9, <2>1, BoundedInduction
  <2>3. QED
    BY <1>1, <2>2
<1>11. QED
  BY <1>4, <1>5, <1>10 DEF t, n

\* A value of PT2262 has room in its digits.
LEMMA TernaryBound ==
  ASSUME NEW s \in Seq(Digits), Len(s) <= Pt2262Digits
  PROVE  Ternary(s) \in 0 .. power[Pt2262Digits] - 1
<1> DEFINE n == Len(s)
           N == Pt2262Digits
<1>1. n \in Nat /\ N \in Nat /\ n <= N
  BY BlockSizes
<1>2. \A k \in 1 .. n : s[k] \in 0 .. 2
  BY DEF Digits
<1> HIDE DEF n, N
<1>3. PICK v : Horner(v, s) /\ Ternary(s) = v[n]
  BY TernaryDef DEF n
<1>4. /\ v \in [0 .. n -> Nat] /\ v[0] = 0
      /\ \A i \in 1 .. n : v[i] = s[(n - i) + 1] + 3 * v[i - 1]
  BY <1>3 DEF Horner, n
<1>5. /\ power \in [0 .. N -> Nat \ {0}] /\ power[0] = 1
      /\ \A i \in 1 .. N : power[i] = 3 * power[i - 1]
  BY PowerDef DEF N
<1> DEFINE T == {i \in 0 .. n : v[i] < power[i]}
           U == {j \in 0 .. N - n : power[n] <= power[n + j]}
<1>6. 0 \in T
  BY <1>1, <1>4, <1>5
<1>7. ASSUME NEW i \in T, i < n PROVE i + 1 \in T
  <2>1. /\ i \in 0 .. n /\ i + 1 \in 0 .. n /\ i + 1 \in 1 .. n /\ (i + 1) - 1 = i
        /\ (n - (i + 1)) + 1 \in 1 .. n /\ i \in 0 .. N /\ i + 1 \in 1 .. N
    BY <1>1, <1>7
  <2>2. v[i + 1] = s[(n - (i + 1)) + 1] + 3 * v[i]
    BY <1>4, <2>1
  <2>3. power[i + 1] = 3 * power[i] /\ power[i] \in Nat
    BY <1>5, <2>1
  <2>4. s[(n - (i + 1)) + 1] \in 0 .. 2 /\ v[i] \in Nat /\ v[i] < power[i]
    BY <1>2, <1>4, <2>1
  <2>5. v[i + 1] < power[i + 1]
    BY <2>2, <2>3, <2>4
  <2>6. QED
    BY <2>1, <2>5
<1>8. 0 \in U
  <2>1. n + 0 = n /\ power[n] \in Nat
    BY <1>1, <1>5
  <2>2. QED
    BY <1>1, <2>1
<1>9. ASSUME NEW j \in U, j < N - n PROVE j + 1 \in U
  <2>1. /\ j + 1 \in 0 .. N - n /\ n + (j + 1) \in 1 .. N /\ (n + (j + 1)) - 1 = n + j
        /\ n + j \in 0 .. N /\ n \in 0 .. N
    BY <1>1, <1>9
  <2>2. /\ power[n + (j + 1)] = 3 * power[n + j] /\ power[n + j] \in Nat
        /\ power[n] \in Nat
    BY <1>5, <2>1
  <2>3. power[n] <= power[n + j]
    OBVIOUS
  <2>4. power[n] <= power[n + (j + 1)]
    BY <2>2, <2>3
  <2>5. QED
    BY <2>1, <2>4
<1>10. T \subseteq 0 .. n /\ U \subseteq 0 .. N - n /\ N - n \in Nat
  BY <1>1
<1> HIDE DEF T, U
<1>11. n \in T
  <2>1. \A i \in 0 .. n : i \in T
    BY <1>1, <1>6, <1>7, <1>10, BoundedInduction
  <2>2. QED
    BY <1>1, <2>1
<1>12. N - n \in U
  <2>1. \A i \in 0 .. N - n : i \in U
    BY <1>8, <1>9, <1>10, BoundedInduction
  <2>2. QED
    BY <1>10, <2>1
<1>13. v[n] < power[n] /\ power[n] <= power[N] /\ v[n] \in Nat
  <2>1. n + (N - n) = N /\ n \in 0 .. n
    BY <1>1
  <2>2. QED
    BY <1>4, <1>11, <1>12, <2>1 DEF T, U
<1>14. power[n] \in Nat /\ power[N] \in Nat
  <2>1. n \in 0 .. N /\ N \in 0 .. N
    BY <1>1
  <2>2. QED
    BY <1>5, <2>1
<1>15. QED
  BY <1>3, <1>13, <1>14 DEF N

-----------------------------------------------------------------------------
(* The pulses of a command.                                                *)

\* Sequences of four, one after the other.
LEMMA FlattenFours ==
  ASSUME NEW S, NEW seqs \in Seq(Seq(S)),
         \A k \in 1 .. Len(seqs) : Len(seqs[k]) = 4
  PROVE  /\ FlattenSeq(seqs) \in Seq(S) /\ Len(FlattenSeq(seqs)) = 4 * Len(seqs)
         /\ \A k \in 1 .. Len(seqs), i \in 1 .. 4 :
              FlattenSeq(seqs)[4 * (k - 1) + i] = seqs[k][i]
<1> DEFINE m == Len(seqs)
           Flat(n) == [x \in 1 .. 4 * n |->
                         seqs[((x - 1) \div 4) + 1][((x - 1) % 4) + 1]]
           Def(g) == g = [i \in 1 .. m |-> IF i = 1 THEN seqs[i]
                                           ELSE g[i - 1] \o seqs[i]]
<1>1. m \in Nat /\ \A k \in 1 .. m : seqs[k] \in Seq(S) /\ Len(seqs[k]) = 4
  OBVIOUS
<1>2. ASSUME NEW x \in Int
      PROVE  /\ (x - 1) % 4 \in 0 .. 3 /\ (x - 1) \div 4 \in Int
             /\ x - 1 = 4 * ((x - 1) \div 4) + ((x - 1) % 4)
  <2>1. x - 1 \in Int /\ 4 \in Nat \ {0} /\ 4 - 1 = 3
    OBVIOUS
  <2>2. QED
    BY <2>1, DivMod
<1>3. ASSUME NEW k \in Int, NEW i \in 1 .. 4
      PROVE  /\ ((4 * (k - 1) + i) - 1) \div 4 = k - 1
             /\ ((4 * (k - 1) + i) - 1) % 4 = i - 1
  <2> DEFINE q == k - 1
             r == i - 1
             n == (4 * (k - 1) + i) - 1
  <2>1. /\ q \in Int /\ r \in 0 .. 4 - 1 /\ 4 \in Nat \ {0}
        /\ n = 4 * q + r
    OBVIOUS
  <2> HIDE DEF q, r, n
  <2>2. n \div 4 = q /\ n % 4 = r
    BY <2>1, DivModUnique
  <2>3. QED
    BY <2>2 DEF q, r, n
<1> HIDE DEF m
<1>4. ASSUME NEW n \in 0 .. m
      PROVE  /\ Flat(n) \in Seq(S) /\ Len(Flat(n)) = 4 * n
             /\ \A k \in 1 .. n, i \in 1 .. 4 : Flat(n)[4 * (k - 1) + i] = seqs[k][i]
  <2>1. ASSUME NEW x \in 1 .. 4 * n
        PROVE  seqs[((x - 1) \div 4) + 1][((x - 1) % 4) + 1] \in S
    <3>1. ((x - 1) \div 4) + 1 \in 1 .. m /\ ((x - 1) % 4) + 1 \in 1 .. 4
      BY <1>1, <1>2
    <3>2. QED
      BY <1>1, <3>1
  <2>2. Flat(n) \in Seq(S) /\ Len(Flat(n)) = 4 * n
    <3>1. 4 * n \in Nat
      BY <1>1
    <3>2. Flat(n) \in [1 .. 4 * n -> S]
      BY <2>1
    <3> HIDE DEF Flat
    <3>3. Flat(n) \in Seq(S)
      BY <3>1, <3>2, IsASeq
    <3>4. QED
      BY <3>1, <3>2, <3>3, LenProperties
  <2>3. ASSUME NEW k \in 1 .. n, NEW i \in 1 .. 4
        PROVE  Flat(n)[4 * (k - 1) + i] = seqs[k][i]
    <3> DEFINE x == 4 * (k - 1) + i
    <3>1. /\ x \in 1 .. 4 * n /\ k \in Int
          /\ (k - 1) + 1 = k /\ (i - 1) + 1 = i
      BY <1>1
    <3>2. (x - 1) \div 4 = k - 1 /\ (x - 1) % 4 = i - 1
      BY <1>3, <3>1
    <3> HIDE DEF x
    <3>3. Flat(n)[x] = seqs[((x - 1) \div 4) + 1][((x - 1) % 4) + 1]
      BY <3>1
    <3>4. Flat(n)[x] = seqs[k][i]
      BY <3>1, <3>2, <3>3
    <3>5. QED
      BY <3>4 DEF x
  <2>4. QED
    BY <2>2, <2>3
<1> HIDE DEF Flat
<1>5. ASSUME NEW n \in 1 .. m PROVE Flat(n) = Flat(n - 1) \o seqs[n]
  <2> DEFINE a == Flat(n - 1)
             b == seqs[n]
             c == a \o b
  <2>1. /\ n - 1 \in 0 .. m /\ n \in 0 .. m /\ n \in Nat
        /\ a \in Seq(S) /\ Len(a) = 4 * (n - 1)
        /\ b \in Seq(S) /\ Len(b) = 4
        /\ Flat(n) \in Seq(S) /\ Len(Flat(n)) = 4 * n
    BY <1>1, <1>4
  <2>2. /\ c \in Seq(S) /\ Len(c) = 4 * n
        /\ \A x \in 1 .. 4 * (n - 1) : c[x] = a[x]
        /\ \A i \in 1 .. 4 : c[4 * (n - 1) + i] = b[i]
    <3> HIDE DEF a, b
    <3>1. /\ c \in Seq(S) /\ Len(c) = 4 * (n - 1) + 4
          /\ \A x \in 1 .. 4 * (n - 1) + 4 :
               c[x] = IF x <= 4 * (n - 1) THEN a[x] ELSE b[x - 4 * (n - 1)]
      <4>1. /\ c \in Seq(S) /\ Len(c) = Len(a) + Len(b)
            /\ \A x \in 1 .. Len(a) + Len(b) :
                 c[x] = IF x <= Len(a) THEN a[x] ELSE b[x - Len(a)]
        BY <2>1, ConcatProperties
      <4> HIDE DEF c
      <4>2. QED
        BY <2>1, <4>1
    <3>2. \A i \in 1 .. 4 : /\ 4 * (n - 1) + i \in 1 .. 4 * (n - 1) + 4
                            /\ ~ (4 * (n - 1) + i <= 4 * (n - 1))
                            /\ (4 * (n - 1) + i) - 4 * (n - 1) = i
      BY <2>1
    <3>3. \A x \in 1 .. 4 * (n - 1) : x \in 1 .. 4 * (n - 1) + 4 /\ x <= 4 * (n - 1)
      BY <2>1
    <3>4. 4 * (n - 1) + 4 = 4 * n
      BY <2>1
    <3> HIDE DEF c
    <3>5. QED
      BY <3>1, <3>2, <3>3, <3>4
  <2>3. ASSUME NEW x \in 1 .. 4 * n PROVE Flat(n)[x] = c[x]
    <3> DEFINE k == ((x - 1) \div 4) + 1
               i == ((x - 1) % 4) + 1
    <3>1. k \in 1 .. n /\ i \in 1 .. 4 /\ x = 4 * (k - 1) + i
      BY <1>2, <2>1
    <3> HIDE DEF k, i
    <3>2. Flat(n)[x] = seqs[k][i]
      BY <1>4, <2>1, <3>1
    <3>3. CASE k = n
      BY <2>2, <3>1, <3>2, <3>3
    <3>4. CASE k # n
      <4>1. k \in 1 .. n - 1 /\ x \in 1 .. 4 * (n - 1)
        BY <2>1, <3>1, <3>4
      <4>2. a[x] = seqs[k][i]
        BY <1>4, <2>1, <3>1, <4>1
      <4>3. QED
        BY <2>2, <3>2, <4>1, <4>2
    <3>5. QED
      BY <3>3, <3>4
  <2> HIDE DEF c
  <2>4. Flat(n) = c
    BY <2>1, <2>2, <2>3, SeqEqual
  <2>5. QED
    BY <2>4 DEF c
<1>6. CASE m = 0
  <2>1. FlattenSeq(seqs) = seqs /\ seqs = <<>>
    BY <1>6 DEF FlattenSeq, m
  <2>2. QED
    BY <2>1
<1>7. CASE m # 0
  <2> DEFINE flat == [i \in 1 .. m |-> Flat(i)]
             f == CHOOSE g : Def(g)
  <2>1. Flat(1) = seqs[1]
    <3>1. 1 \in 0 .. m /\ 1 \in 1 .. m
      BY <1>1, <1>7
    <3>2. /\ Flat(1) \in Seq(S) /\ Len(Flat(1)) = 4
          /\ \A i \in 1 .. 4 : Flat(1)[i] = seqs[1][i]
      <4>1. /\ Flat(1) \in Seq(S) /\ Len(Flat(1)) = 4 * 1
            /\ \A i \in 1 .. 4 : Flat(1)[4 * (1 - 1) + i] = seqs[1][i]
        <5>1. 1 \in 1 .. 1
          OBVIOUS
        <5>2. QED
          BY <1>4, <3>1, <5>1
      <4>2. \A i \in 1 .. 4 : 4 * (1 - 1) + i = i
        OBVIOUS
      <4>3. QED
        BY <4>1, <4>2
    <3>3. seqs[1] \in Seq(S) /\ Len(seqs[1]) = 4
      BY <1>1, <3>1
    <3>4. QED
      BY <3>2, <3>3, SeqEqual
  <2>2. Def(flat)
    <3>1. \A i \in 1 .. m : i # 1 => i - 1 \in 1 .. m
      BY <1>1
    <3>2. \A i \in 1 .. m : i # 1 => flat[i - 1] = Flat(i - 1)
      BY <3>1
    <3>3. \A i \in 1 .. m : Flat(i) = IF i = 1 THEN seqs[i]
                                      ELSE flat[i - 1] \o seqs[i]
      BY <1>5, <2>1, <3>2
    <3>4. QED
      BY <3>3
  <2>3. Def(f)
    <3> HIDE DEF Def, flat
    <3>1. QED
      BY <2>2
  <2>4. FlattenSeq(seqs) = f[m]
    BY <1>7 DEF FlattenSeq, m
  <2> HIDE DEF f
  <2>5. \A i \in 1 .. m : f[i] = IF i = 1 THEN seqs[i] ELSE f[i - 1] \o seqs[i]
    <3>1. \A g : Def(g) => \A i \in 1 .. m :
                             g[i] = IF i = 1 THEN seqs[i] ELSE g[i - 1] \o seqs[i]
      OBVIOUS
    <3>2. QED
      BY <2>3, <3>1
  <2> DEFINE T == {n \in 0 .. m - 1 : f[n + 1] = Flat(n + 1)}
  <2>6. 0 \in T
    BY <1>1, <1>7, <2>1, <2>5
  <2>7. ASSUME NEW n \in T, n < m - 1 PROVE n + 1 \in T
    <3>1. /\ n + 1 \in 0 .. m - 1 /\ (n + 1) + 1 \in 1 .. m /\ (n + 1) + 1 # 1
          /\ ((n + 1) + 1) - 1 = n + 1
      BY <1>1, <2>7
    <3>2. f[(n + 1) + 1] = f[n + 1] \o seqs[(n + 1) + 1]
      BY <2>5, <3>1
    <3>3. Flat((n + 1) + 1) = Flat(n + 1) \o seqs[(n + 1) + 1]
      BY <1>5, <3>1
    <3>4. f[(n + 1) + 1] = Flat((n + 1) + 1)
      BY <3>2, <3>3
    <3>5. QED
      BY <3>1, <3>4
  <2>8. m - 1 \in Nat /\ (m - 1) + 1 = m /\ T \subseteq 0 .. m - 1
    BY <1>1, <1>7
  <2> HIDE DEF T
  <2>9. m - 1 \in T
    <3>1. \A n \in 0 .. m - 1 : n \in T
      BY <2>6, <2>7, <2>8, BoundedInduction
    <3>2. QED
      BY <2>8, <3>1
  <2>10. FlattenSeq(seqs) = Flat(m)
    BY <2>4, <2>8, <2>9 DEF T
  <2>11. m \in 0 .. m
    BY <1>1
  <2>12. QED
    BY <1>4, <2>10, <2>11 DEF m
<1>8. QED
  BY <1>6, <1>7

\* A sequence of m elements followed by one of n.
IsConcat(c, a, b, S, m, n) ==
  /\ c \in Seq(S) /\ Len(c) = m + n
  /\ \A x \in 1 .. m : c[x] = a[x]
  /\ \A x \in m + 1 .. m + n : c[x] = b[x - m]

LEMMA ConcatPlaces ==
  ASSUME NEW S, NEW a \in Seq(S), NEW b \in Seq(S),
         NEW m, NEW n, m = Len(a), n = Len(b)
  PROVE  IsConcat(a \o b, a, b, S, m, n)
<1> DEFINE c == a \o b
<1>1. /\ c \in Seq(S) /\ Len(c) = Len(a) + Len(b)
      /\ \A x \in 1 .. Len(a) + Len(b) :
           c[x] = IF x <= Len(a) THEN a[x] ELSE b[x - Len(a)]
  BY ConcatProperties
<1>2. m \in Nat /\ n \in Nat
  OBVIOUS
<1> HIDE DEF c
<1>3. /\ Len(c) = m + n
      /\ \A x \in 1 .. m + n : c[x] = IF x <= m THEN a[x] ELSE b[x - m]
  BY <1>1
<1>4. ASSUME NEW x \in 1 .. m PROVE c[x] = a[x]
  BY <1>2, <1>3
<1>5. ASSUME NEW x \in m + 1 .. m + n PROVE c[x] = b[x - m]
  BY <1>2, <1>3
<1>6. QED
  BY <1>1, <1>3, <1>4, <1>5 DEF c, IsConcat

\* The four pulses of a bit.
Keyed(one) == IF one THEN sendOne ELSE sendZero

Lens == SUBSET Nat

LEMMA PulseTypes ==
  /\ Short \in Lens /\ Long \in Lens /\ Pulses["start"] \in Lens
  /\ \A one : Keyed(one) \in Seq(Lens) /\ Len(Keyed(one)) = 4
  /\ sendZero = Keyed(FALSE)
<1>1. Short \in Lens /\ Long \in Lens /\ Pulses["start"] \in Lens
  BY CommandAssumption, BlockSizes DEF Short, Long, Lens
<1>2. /\ sendOne \in Seq(Lens) /\ Len(sendOne) = 4
      /\ sendZero \in Seq(Lens) /\ Len(sendZero) = 4
  BY <1>1 DEF sendOne, sendZero
<1>3. QED
  BY <1>1, <1>2 DEF Keyed

LEMMA SendBits ==
  ASSUME NEW n, NEW bits \in Nat
  PROVE  /\ sendBits(n, bits) \in Seq(Lens) /\ Len(sendBits(n, bits)) = 4 * bits
         /\ \A k \in 1 .. bits, i \in 1 .. 4 :
              sendBits(n, bits)[4 * (k - 1) + i] = Keyed(BitOf(n, bits - k) = 1)[i]
<1> DEFINE seqs == [k \in 1 .. bits |->
                      IF BitOf(n, bits - k) = 1 THEN sendOne ELSE sendZero]
<1>1. \A k \in 1 .. bits : seqs[k] = Keyed(BitOf(n, bits - k) = 1)
  BY DEF Keyed
<1>2. seqs \in Seq(Seq(Lens)) /\ Len(seqs) = bits
  <2>1. \A k \in 1 .. bits : seqs[k] \in Seq(Lens)
    BY <1>1, PulseTypes
  <2>2. seqs \in [1 .. bits -> Seq(Lens)]
    BY <2>1
  <2> HIDE DEF seqs
  <2>3. seqs \in Seq(Seq(Lens))
    BY <2>2, IsASeq
  <2>4. QED
    BY <2>2, <2>3, LenProperties
<1>3. sendBits(n, bits) = FlattenSeq(seqs)
  BY DEF sendBits
<1> HIDE DEF seqs
<1>4. \A k \in 1 .. Len(seqs) : Len(seqs[k]) = 4
  BY <1>1, <1>2, PulseTypes
<1>5. /\ FlattenSeq(seqs) \in Seq(Lens) /\ Len(FlattenSeq(seqs)) = 4 * Len(seqs)
      /\ \A k \in 1 .. Len(seqs), i \in 1 .. 4 :
           FlattenSeq(seqs)[4 * (k - 1) + i] = seqs[k][i]
  BY <1>2, <1>4, FlattenFours
<1>6. ASSUME NEW k \in 1 .. bits, NEW i \in 1 .. 4
      PROVE  FlattenSeq(seqs)[4 * (k - 1) + i] = Keyed(BitOf(n, bits - k) = 1)[i]
  <2>1. FlattenSeq(seqs)[4 * (k - 1) + i] = seqs[k][i]
    BY <1>2, <1>5
  <2>2. QED
    BY <1>1, <2>1
<1>7. QED
  BY <1>2, <1>3, <1>5, <1>6

LEMMA CommandBits ==
  ASSUME NEW c
  PROVE  /\ CommandValue(c) \subseteq 0 .. SignalLength
         /\ \A p \in 0 .. UnitBits - 1 : p \in CommandValue(c) <=> BitOf(c.unit, p) = 1
         /\ UnitBits \in CommandValue(c) <=> c.method = 1
         /\ UnitBits + 1 \notin CommandValue(c)
         /\ \A h \in 0 .. HouseBits - 1 :
              h + UnitBits + 2 \in CommandValue(c) <=> BitOf(c.house, h) = 1
<1>1. /\ UnitBits \in Nat /\ HouseBits \in Nat
      /\ SignalLength = HouseBits + UnitBits + 1
  BY BlockSizes
<1> DEFINE v == CommandValue(c)
<1>2. ASSUME NEW p
      PROVE  p \in v <=> \/ p \in 0 .. UnitBits - 1 /\ BitOf(c.unit, p) = 1
                         \/ p = UnitBits /\ c.method = 1
                         \/ \E h \in 0 .. HouseBits - 1 :
                              BitOf(c.house, h) = 1 /\ p = h + UnitBits + 2
  BY DEF CommandValue
<1> HIDE DEF v
<1>3. v \subseteq 0 .. SignalLength
  BY <1>1, <1>2
<1>4. ASSUME NEW p \in 0 .. UnitBits - 1
      PROVE  p \in v <=> BitOf(c.unit, p) = 1
  <2>1. p # UnitBits /\ \A h \in 0 .. HouseBits - 1 : p # h + UnitBits + 2
    BY <1>1
  <2>2. QED
    BY <1>2, <2>1
<1>5. UnitBits \in v <=> c.method = 1
  <2>1. /\ UnitBits \notin 0 .. UnitBits - 1
        /\ \A h \in 0 .. HouseBits - 1 : UnitBits # h + UnitBits + 2
    BY <1>1
  <2>2. QED
    BY <1>2, <2>1
<1>6. UnitBits + 1 \notin v
  <2>1. /\ UnitBits + 1 \notin 0 .. UnitBits - 1 /\ UnitBits + 1 # UnitBits
        /\ \A h \in 0 .. HouseBits - 1 : UnitBits + 1 # h + UnitBits + 2
    BY <1>1
  <2>2. QED
    BY <1>2, <2>1
<1>7. ASSUME NEW h \in 0 .. HouseBits - 1
      PROVE  h + UnitBits + 2 \in v <=> BitOf(c.house, h) = 1
  <2> DEFINE p == h + UnitBits + 2
  <2>1. /\ p \notin 0 .. UnitBits - 1 /\ p # UnitBits
        /\ \A g \in 0 .. HouseBits - 1 : p = g + UnitBits + 2 => g = h
    BY <1>1
  <2>2. QED
    BY <1>2, <2>1
<1>8. QED
  BY <1>3, <1>4, <1>5, <1>6, <1>7 DEF v

\* Where the pulses of a command are in what is keyed.
LEMMA KeyedPlaces ==
  ASSUME NEW c
  PROVE  /\ KeyedCommand(c) \in Seq(Lens)
         /\ Len(KeyedCommand(c)) = 4 * (SignalLength + 1) + 3
         /\ KeyedCommand(c)[1] = Short /\ KeyedCommand(c)[2] = Pulses["start"]
         /\ KeyedCommand(c)[4 * (SignalLength + 1) + 3] = Short
         /\ \A p \in 0 .. SignalLength, i \in 1 .. 4 :
              KeyedCommand(c)[2 + 4 * (SignalLength - p) + i]
                = Keyed(p \in CommandValue(c))[i]
<1> DEFINE H == HouseBits
           U == UnitBits
           L == SignalLength
           v == CommandValue(c)
           a1 == <<Short, Pulses["start"]>>
           a2 == sendBits(c.house, H)
           a3 == Keyed(FALSE)
           a4 == Keyed(c.method = 1)
           a5 == sendBits(c.unit, U)
           a6 == <<Short>>
           b2 == a1 \o a2
           b3 == b2 \o a3
           b4 == b3 \o a4
           b5 == b4 \o a5
           b6 == b5 \o a6
<1>1. H \in Nat /\ U \in Nat /\ L = H + U + 1 /\ L \in Nat
  BY BlockSizes
<1>2. KeyedCommand(c) = b6
  BY PulseTypes DEF KeyedCommand, Keyed
<1>3. /\ a1 \in Seq(Lens) /\ Len(a1) = 2 /\ a1[1] = Short /\ a1[2] = Pulses["start"]
      /\ a6 \in Seq(Lens) /\ Len(a6) = 1 /\ a6[1] = Short
  BY PulseTypes
<1>4. /\ a2 \in Seq(Lens) /\ Len(a2) = 4 * H
      /\ \A k \in 1 .. H, i \in 1 .. 4 :
           a2[4 * (k - 1) + i] = Keyed(BitOf(c.house, H - k) = 1)[i]
  BY <1>1, SendBits
<1>5. /\ a5 \in Seq(Lens) /\ Len(a5) = 4 * U
      /\ \A k \in 1 .. U, i \in 1 .. 4 :
           a5[4 * (k - 1) + i] = Keyed(BitOf(c.unit, U - k) = 1)[i]
  BY <1>1, SendBits
<1>6. a3 \in Seq(Lens) /\ Len(a3) = 4 /\ a4 \in Seq(Lens) /\ Len(a4) = 4
  BY PulseTypes
<1> HIDE DEF a1, a2, a3, a4, a5, a6, H, U, L, v
<1> DEFINE m2 == 2 + 4 * H
           m3 == m2 + 4
           m4 == m3 + 4
           m5 == m4 + 4 * U
<1>16. /\ m2 \in Nat /\ m3 \in Nat /\ m4 \in Nat /\ m5 \in Nat
       /\ m5 + 1 = 4 * (L + 1) + 3
       /\ 1 .. 2 \subseteq 1 .. m2 /\ 1 .. m2 \subseteq 1 .. m3
       /\ 1 .. m3 \subseteq 1 .. m4 /\ 1 .. m4 \subseteq 1 .. m5
       /\ 4 * H \in Nat /\ 4 * U \in Nat
  BY <1>1
<1>7. /\ b2 \in Seq(Lens) /\ Len(b2) = m2
      /\ \A x \in 1 .. 2 : b2[x] = a1[x]
      /\ \A x \in 2 + 1 .. 2 + 4 * H : b2[x] = a2[x - 2]
  <2>1. /\ a1 \in Seq(Lens) /\ a2 \in Seq(Lens)
        /\ 2 = Len(a1) /\ 4 * H = Len(a2)
    BY <1>3, <1>4
  <2>2. IsConcat(b2, a1, a2, Lens, 2, 4 * H)
    BY <2>1, ConcatPlaces
  <2>3. QED
    BY <2>2 DEF IsConcat
<1> HIDE DEF b2
<1> HIDE DEF m2
<1>8. /\ b3 \in Seq(Lens) /\ Len(b3) = m3
      /\ \A x \in 1 .. m2 : b3[x] = b2[x]
      /\ \A x \in m2 + 1 .. m2 + 4 : b3[x] = a3[x - m2]
  <2>1. /\ b2 \in Seq(Lens) /\ a3 \in Seq(Lens)
        /\ m2 = Len(b2) /\ 4 = Len(a3)
    BY <1>6, <1>7
  <2>2. IsConcat(b3, b2, a3, Lens, m2, 4)
    BY <2>1, ConcatPlaces
  <2>3. QED
    BY <2>2 DEF IsConcat
<1> HIDE DEF b3
<1> HIDE DEF m3
<1>9. /\ b4 \in Seq(Lens) /\ Len(b4) = m4
      /\ \A x \in 1 .. m3 : b4[x] = b3[x]
      /\ \A x \in m3 + 1 .. m3 + 4 : b4[x] = a4[x - m3]
  <2>1. /\ b3 \in Seq(Lens) /\ a4 \in Seq(Lens)
        /\ m3 = Len(b3) /\ 4 = Len(a4)
    BY <1>6, <1>8
  <2>2. IsConcat(b4, b3, a4, Lens, m3, 4)
    BY <2>1, ConcatPlaces
  <2>3. QED
    BY <2>2 DEF IsConcat
<1> HIDE DEF b4
<1> HIDE DEF m4
<1>10. /\ b5 \in Seq(Lens) /\ Len(b5) = m5
       /\ \A x \in 1 .. m4 : b5[x] = b4[x]
       /\ \A x \in m4 + 1 .. m4 + 4 * U : b5[x] = a5[x - m4]
  <2>1. /\ b4 \in Seq(Lens) /\ a5 \in Seq(Lens)
        /\ m4 = Len(b4) /\ 4 * U = Len(a5)
    BY <1>5, <1>9
  <2>2. IsConcat(b5, b4, a5, Lens, m4, 4 * U)
    BY <2>1, ConcatPlaces
  <2>3. QED
    BY <2>2 DEF IsConcat
<1> HIDE DEF b5
<1> HIDE DEF m5
<1>11. /\ b6 \in Seq(Lens) /\ Len(b6) = m5 + 1
       /\ \A x \in 1 .. m5 : b6[x] = b5[x]
       /\ \A x \in m5 + 1 .. m5 + 1 : b6[x] = a6[x - m5]
  <2>1. /\ b5 \in Seq(Lens) /\ a6 \in Seq(Lens)
        /\ m5 = Len(b5) /\ 1 = Len(a6)
    BY <1>3, <1>10
  <2>2. IsConcat(b6, b5, a6, Lens, m5, 1)
    BY <2>1, ConcatPlaces
  <2>3. QED
    BY <2>2 DEF IsConcat
<1> HIDE DEF b6
<1>12. ASSUME NEW x \in 1 .. m4 PROVE b6[x] = b4[x]
  <2>1. x \in 1 .. m5
    BY <1>16
  <2>2. QED
    BY <1>10, <1>11, <2>1
<1>17. ASSUME NEW x \in 1 .. m2 PROVE b6[x] = b2[x]
  <2>1. x \in 1 .. m3 /\ x \in 1 .. m4
    BY <1>16
  <2>2. QED
    BY <1>8, <1>9, <1>12, <2>1
<1>13. b6[1] = Short /\ b6[2] = Pulses["start"] /\ b6[4 * (L + 1) + 3] = Short
  <2>1. ASSUME NEW x \in 1 .. 2 PROVE b6[x] = a1[x]
    <3>1. x \in 1 .. m2
      BY <1>16
    <3>2. QED
      BY <1>7, <1>17, <3>1
  <2>2. b6[m5 + 1] = a6[1]
    <3>1. m5 + 1 \in m5 + 1 .. m5 + 1 /\ (m5 + 1) - m5 = 1
      BY <1>16
    <3>2. b6[m5 + 1] = a6[(m5 + 1) - m5]
      BY <1>11, <3>1
    <3>3. QED
      BY <3>1, <3>2
  <2>3. QED
    BY <1>3, <1>16, <2>1, <2>2
<1>14. ASSUME NEW p \in 0 .. L, NEW i \in 1 .. 4
       PROVE  b6[2 + 4 * (L - p) + i] = Keyed(p \in v)[i]
  <2> DEFINE x == 2 + 4 * (L - p) + i
  <2>1. CASE p \in 0 .. U - 1
    <3> DEFINE k == U - p
               y == 4 * (k - 1) + i
    <3>1. /\ k \in 1 .. U /\ y \in 1 .. 4 * U /\ x \in m4 + 1 .. m4 + 4 * U /\ x - m4 = y
          /\ x \in 1 .. m5
          /\ U - k = p
      BY <1>1, <1>16, <2>1 DEF m5, m4, m3, m2
    <3>2. a5[y] = Keyed(BitOf(c.unit, U - k) = 1)[i]
      BY <1>5, <3>1
    <3> HIDE DEF k, y, x
    <3>3. b6[x] = Keyed(BitOf(c.unit, p) = 1)[i]
      <4>1. b6[x] = b5[x] /\ b5[x] = a5[y]
        <5>1. b6[x] = b5[x]
          BY <1>11, <3>1
        <5>2. b5[x] = a5[x - m4]
          BY <1>10, <3>1
        <5>3. QED
          BY <3>1, <5>1, <5>2
      <4>2. a5[y] = Keyed(BitOf(c.unit, p) = 1)[i]
        BY <3>1, <3>2
      <4>3. QED
        BY <3>1, <4>1, <4>2
    <3>4. (p \in v) = (BitOf(c.unit, p) = 1)
      BY <2>1, CommandBits DEF U, v
    <3>5. QED
      BY <3>3, <3>4 DEF x
  <2>2. CASE p = U
    <3>1. x \in m3 + 1 .. m3 + 4 /\ x - m3 = i /\ x \in 1 .. m4
      BY <1>1, <2>2 DEF m4, m3, m2
    <3> HIDE DEF x
    <3>2. b6[x] = a4[i]
      BY <1>9, <1>12, <3>1
    <3>3. (p \in v) = (c.method = 1)
      BY <2>2, CommandBits DEF U, v
    <3>4. QED
      BY <3>2, <3>3 DEF a4, x
  <2>3. CASE p = U + 1
    <3>1. /\ x \in m2 + 1 .. m2 + 4 /\ x - m2 = i
          /\ x \in 1 .. m3 /\ x \in 1 .. m4
      BY <1>1, <2>3 DEF m4, m3, m2
    <3> HIDE DEF x
    <3>2. b6[x] = a3[i]
      BY <1>8, <1>9, <1>12, <3>1
    <3>3. (p \in v) = FALSE
      BY <2>3, CommandBits DEF U, v
    <3>4. QED
      BY <3>2, <3>3 DEF a3, x
  <2>4. CASE p \in U + 2 .. L
    <3> DEFINE h == p - (U + 2)
               k == H - h
               y == 4 * (k - 1) + i
    <3>1. /\ h \in 0 .. H - 1 /\ p = h + U + 2
          /\ k \in 1 .. H /\ y \in 1 .. 4 * H /\ x \in 2 + 1 .. 2 + 4 * H /\ x - 2 = y
          /\ x \in 1 .. m2
          /\ H - k = h
      BY <1>1, <2>4 DEF m2
    <3>2. a2[y] = Keyed(BitOf(c.house, H - k) = 1)[i]
      BY <1>4, <3>1
    <3> HIDE DEF k, y, x, h
    <3>3. b6[x] = Keyed(BitOf(c.house, h) = 1)[i]
      BY <1>7, <1>17, <3>1, <3>2
    <3>4. (p \in v) = (BitOf(c.house, h) = 1)
      BY <3>1, CommandBits DEF U, H, v
    <3>5. QED
      BY <3>3, <3>4 DEF x
  <2>5. p \in 0 .. U - 1 \/ p = U \/ p = U + 1 \/ p \in U + 2 .. L
    BY <1>1
  <2>6. QED
    BY <2>1, <2>2, <2>3, <2>4, <2>5
<1>15. QED
  BY <1>2, <1>11, <1>13, <1>14, <1>16 DEF L, v

-----------------------------------------------------------------------------
(* The checksum of Fine Offset.  A set of positions is a polynomial over   *)
(* the numbers 0 and 1, and the checksum a remainder: the algorithm of     *)
(* fineoffset.c:5-18 is a division by CRCPOLYNOM, from the highest bit on. *)

Polynom == CrcPolynom \cup {ByteBits}
TermsOf(q, n) == {t \in q \X Polynom : t[1] + t[2] = n}

\* The coefficient of a product at a position.
Odd(q, n) == Cardinality(TermsOf(q, n)) % 2 = 1
Product(q) == {n \in 0 .. 5 * ByteBits - 1 : Odd(q, n)}

LEMMA PolynomType ==
  /\ ByteBits \in Nat \ {0} /\ CrcPolynom \subseteq 0 .. ByteBits - 1
  /\ Polynom \subseteq 0 .. ByteBits
  /\ \A i : i \in Polynom <=> i \in CrcPolynom \/ i = ByteBits
<1>1. ByteBits \in Nat \ {0} /\ CrcPolynom \subseteq 0 .. ByteBits - 1
  BY StreamBitsAssumption, BlockAssumption
<1>2. QED
  BY <1>1 DEF Polynom

LEMMA MultiplesAre ==
  Multiples = {Product(q) : q \in SUBSET (0 .. 4 * ByteBits - 1)}
  BY DEF Multiples, Product, Odd, TermsOf, Polynom

\* A position has no more terms than the factor has.
LEMMA TermsFinite ==
  ASSUME NEW q \in SUBSET Nat, IsFiniteSet(q), NEW n
  PROVE  IsFiniteSet(TermsOf(q, n)) /\ Cardinality(TermsOf(q, n)) \in Nat
<1> DEFINE T == TermsOf(q, n)
           f == [t \in T |-> t[1]]
<1>1. ASSUME NEW t \in T
      PROVE  t = <<t[1], t[2]>> /\ t[1] \in q /\ t[2] \in Int /\ t[1] \in Int
             /\ t[1] + t[2] = n
  <2>1. t \in q \X Polynom /\ t[1] + t[2] = n
    BY DEF TermsOf
  <2>2. t = <<t[1], t[2]>> /\ t[1] \in q /\ t[2] \in Polynom
    BY <2>1
  <2>3. Polynom \subseteq Int
    BY PolynomType
  <2>4. ASSUME NEW a \in q, NEW b \in Polynom PROVE a \in Int /\ b \in Int
    BY <2>3
  <2>5. t[1] \in Int /\ t[2] \in Int
    BY <2>2, <2>4
  <2>6. QED
    BY <2>1, <2>2, <2>5, Zenon
<1>2. f \in [T -> q]
  BY <1>1
<1>3. ASSUME NEW t \in T, NEW u \in T, f[t] = f[u] PROVE t = u
  <2>1. t[1] = u[1]
    BY <1>3
  <2>2. t[2] = u[2]
    BY <1>1, <2>1
  <2>3. QED
    BY <1>1, <2>1, <2>2
<1>4. f \in Injection(T, q)
  BY <1>2, <1>3 DEF Injection, IsInjective
<1>5. IsFiniteSet(T)
  BY <1>4, FS_Injection
<1>6. QED
  BY <1>5, FS_CardinalityType

LEMMA OddEmpty == ASSUME NEW n PROVE ~ Odd({}, n)
<1>1. TermsOf({}, n) = {}
  BY DEF TermsOf
<1>2. QED
  BY <1>1, FS_EmptySet DEF Odd

\* One more term of a factor adds the polynomial at its place.
LEMMA OddAdd ==
  ASSUME NEW q \in SUBSET Nat, IsFiniteSet(q), NEW i \in Nat, i \notin q,
         NEW n \in Int
  PROVE  Odd(q \cup {i}, n) <=> ~ (Odd(q, n) <=> n - i \in Polynom)
<1> DEFINE T == TermsOf(q, n)
           U == TermsOf(q \cup {i}, n)
           x == <<i, n - i>>
<1>1. Polynom \subseteq Int /\ q \subseteq Int
  BY PolynomType
<1>2. IsFiniteSet(T) /\ Cardinality(T) \in Nat
  BY TermsFinite
<1>3. CASE n - i \in Polynom
  <2>1. U = T \cup {x}
    <3>1. ASSUME NEW t \in U PROVE t \in T \/ t = x
      <4>1. t = <<t[1], t[2]>> /\ t[1] \in q \cup {i} /\ t[2] \in Polynom
            /\ t[1] + t[2] = n
        BY DEF TermsOf
      <4>2. CASE t[1] = i
        <5>1. t[2] = n - i
          BY <1>1, <4>1, <4>2
        <5>2. QED
          BY <4>1, <4>2, <5>1
      <4>3. CASE t[1] # i
        BY <4>1, <4>3 DEF TermsOf
      <4>4. QED
        BY <4>2, <4>3
    <3>2. T \subseteq U
      BY DEF TermsOf
    <3>3. x \in U
      <4>1. x[1] = i /\ x[2] = n - i /\ i + (n - i) = n
        BY <1>1
      <4>2. QED
        BY <1>3, <4>1 DEF TermsOf
    <3>4. QED
      BY <3>1, <3>2, <3>3
  <2>2. x \notin T
    BY DEF TermsOf
  <2>3. Cardinality(U) = Cardinality(T) + 1
    BY <1>2, <2>1, <2>2, FS_AddElement
  <2>4. ASSUME NEW k \in Nat PROVE (k + 1) % 2 = 1 <=> ~ (k % 2 = 1)
    OBVIOUS
  <2>5. QED
    BY <1>2, <1>3, <2>3, <2>4 DEF Odd
<1>4. CASE n - i \notin Polynom
  <2>1. U = T
    <3>1. ASSUME NEW t \in U PROVE t \in T
      <4>1. t = <<t[1], t[2]>> /\ t[1] \in q \cup {i} /\ t[2] \in Polynom
            /\ t[1] + t[2] = n
        BY DEF TermsOf
      <4>2. t[1] # i
        <5>1. ASSUME t[1] = i PROVE FALSE
          <6>1. t[2] = n - i
            BY <1>1, <4>1, <5>1
          <6>2. QED
            BY <1>4, <4>1, <6>1
        <5>2. QED
          BY <5>1
      <4>3. QED
        BY <4>1, <4>2 DEF TermsOf
    <3>2. T \subseteq U
      BY DEF TermsOf
    <3>3. QED
      BY <3>1, <3>2
  <2>2. QED
    BY <1>4, <2>1 DEF Odd
<1>5. QED
  BY <1>3, <1>4

\* The places below that of the highest term do not matter at a place that
\* only the highest bit of the polynomial reaches.
LEMMA OddHigh ==
  ASSUME NEW q \in SUBSET Nat, NEW m \in Nat
  PROVE  Odd(q, m + ByteBits) <=> Odd({x \in q : x >= m}, m + ByteBits)
<1> DEFINE h == {x \in q : x >= m}
           n == m + ByteBits
<1>1. TermsOf(q, n) = TermsOf(h, n)
  <2>1. ASSUME NEW t \in TermsOf(q, n) PROVE t \in TermsOf(h, n)
    <3>1. t \in q \X Polynom /\ t[1] + t[2] = n
      BY DEF TermsOf
    <3>2. t[1] \in q /\ t[2] \in Polynom
      BY <3>1
    <3>3. t[1] \in Nat /\ t[2] \in 0 .. ByteBits
      BY <3>2, PolynomType
    <3>4. t[1] >= m
      BY <3>1, <3>3, PolynomType
    <3>5. t \in h \X Polynom
      BY <3>1, <3>4
    <3> HIDE DEF h
    <3>6. QED
      BY <3>1, <3>5 DEF TermsOf
  <2>2. TermsOf(h, n) \subseteq TermsOf(q, n)
    BY DEF TermsOf
  <2>3. QED
    BY <2>1, <2>2
<1>2. QED
  BY <1>1 DEF Odd

LEMMA BelowIsFinite ==
  ASSUME NEW N \in Int, NEW q \in SUBSET (0 .. N)
  PROVE  IsFiniteSet(q)
<1>1. ASSUME NEW S, IsFiniteSet(S), NEW T \in SUBSET S PROVE IsFiniteSet(T)
  BY <1>1, FS_Subset
<1>2. IsFiniteSet(0 .. N)
  BY FS_Interval
<1>3. QED
  BY <1>1, <1>2

High(q, m) == {x \in q : x >= m}

\* Two factors whose products are the same above the lowest byte are the same.
LEMMA SameFactor ==
  ASSUME NEW N \in Nat, NEW q \in SUBSET (0 .. N), NEW r \in SUBSET (0 .. N),
         \A m \in 0 .. N : Odd(q, m + ByteBits) <=> Odd(r, m + ByteBits)
  PROVE  q = r
<1> DEFINE T == {k \in 0 .. N + 1 : High(q, (N + 1) - k) = High(r, (N + 1) - k)}
<1>1. q \in SUBSET Nat /\ r \in SUBSET Nat /\ ByteBits \in Nat
  BY PolynomType
<1>2. 0 \in T
  <2>1. \A x \in 0 .. N : ~ (x >= N + 1)
    OBVIOUS
  <2>4. High(q, N + 1) = {} /\ High(r, N + 1) = {}
    BY <2>1 DEF High
  <2>2. (N + 1) - 0 = N + 1 /\ 0 \in 0 .. N + 1
    OBVIOUS
  <2>3. QED
    BY <2>2, <2>4
<1>3. ASSUME NEW k \in T, k < N + 1 PROVE k + 1 \in T
  <2> DEFINE m == N - k
             h == High(q, m + 1)
  <2>1. k \in 0 .. N + 1 /\ m \in 0 .. N /\ (N + 1) - k = m + 1
        /\ (N + 1) - (k + 1) = m /\ k + 1 \in 0 .. N + 1
    BY <1>3
  <2>2. h = High(r, m + 1)
    BY <2>1
  <2> HIDE DEF m
  <2>3. ASSUME NEW s \in SUBSET (0 .. N), High(s, m + 1) = h
        PROVE  /\ Odd(s, m + ByteBits) <=> ~ (Odd(h, m + ByteBits) <=> m \in s)
               /\ High(s, m) = IF m \in s THEN h \cup {m} ELSE h
    <3>1. s \in SUBSET Nat /\ m \in Nat /\ \A x \in s : x >= m <=> x >= m + 1 \/ x = m
      BY <2>1
    <3>2. High(s, m) = IF m \in s THEN h \cup {m} ELSE h
      BY <2>3, <3>1 DEF High
    <3>3. h \in SUBSET Nat /\ IsFiniteSet(h) /\ m \notin h
      <4>1. h \in SUBSET (0 .. N) /\ m \notin h
        <5>1. ~ (m >= m + 1)
          BY <2>1
        <5>2. QED
          BY <5>1 DEF High
      <4> HIDE DEF h
      <4>2. h \in SUBSET Nat
        BY <4>1
      <4>3. N \in Int
        OBVIOUS
      <4>4. IsFiniteSet(h)
        BY <4>1, <4>3, BelowIsFinite
      <4>5. QED
        BY <4>1, <4>2, <4>4
    <3>4. Odd(s, m + ByteBits) <=> Odd(High(s, m), m + ByteBits)
      BY <3>1, OddHigh DEF High
    <3> HIDE DEF h
    <3>5. CASE m \in s
      <4>1. (m + ByteBits) - m \in Polynom /\ m + ByteBits \in Int
        BY <1>1, <3>1 DEF Polynom
      <4>2. Odd(h \cup {m}, m + ByteBits) <=> ~ Odd(h, m + ByteBits)
        BY <3>1, <3>3, <4>1, OddAdd
      <4>3. QED
        BY <3>2, <3>4, <3>5, <4>2
    <3>6. CASE m \notin s
      BY <3>2, <3>4, <3>6
    <3>7. QED
      BY <3>2, <3>5, <3>6
  <2>4. /\ Odd(q, m + ByteBits) <=> ~ (Odd(h, m + ByteBits) <=> m \in q)
        /\ High(q, m) = IF m \in q THEN h \cup {m} ELSE h
    BY <2>3
  <2>5. /\ Odd(r, m + ByteBits) <=> ~ (Odd(h, m + ByteBits) <=> m \in r)
        /\ High(r, m) = IF m \in r THEN h \cup {m} ELSE h
    BY <2>2, <2>3
  <2>6. Odd(q, m + ByteBits) <=> Odd(r, m + ByteBits)
    BY <2>1
  <2> HIDE DEF h
  <2>7. High(q, m) = High(r, m)
    BY <2>4, <2>5, <2>6
  <2>8. QED
    BY <2>1, <2>7
<1>4. T \subseteq 0 .. N + 1
  OBVIOUS
<1>5. N + 1 \in T
  <2> HIDE DEF T
  <2> DEFINE M == N + 1
  <2>3. M \in Nat /\ T \subseteq 0 .. M /\ \A k \in T : k < M => k + 1 \in T
    BY <1>3, <1>4
  <2> HIDE DEF M
  <2>1. \A k \in 0 .. M : k \in T
    BY <1>2, <2>3, BoundedInduction
  <2>2. QED
    BY <2>1, <2>3 DEF M
<1>6. High(q, 0) = High(r, 0)
  <2>1. (N + 1) - (N + 1) = 0
    OBVIOUS
  <2>2. QED
    BY <1>5, <2>1
<1>7. \A x \in 0 .. N : x >= 0
  OBVIOUS
<1>8. QED
  BY <1>6, <1>7 DEF High

\* Down to the bit at s, the factor q and the remainder c of the data.
Divided(data, s, q, c) ==
  /\ q \in SUBSET (s - ByteBits .. 4 * ByteBits - 1)
  /\ c \in SUBSET (0 .. ByteBits - 1)
  /\ \A n \in Int : Odd(q, n) <=> ~ (n \in data /\ n >= s
                                       <=> n - (s - ByteBits) \in c)

LEMMA DivideBit ==
  ASSUME NEW data, NEW s \in ByteBits + 1 .. 5 * ByteBits, NEW q, NEW c,
         Divided(data, s, q, c)
  PROVE  \E r : Divided(data, s - 1, r, CrcBit(c, s - 1 \in data))
<1> DEFINE B == ByteBits
           bit == (s - 1 \in data)
           onebit == ~ (B - 1 \in c <=> bit)
           i == (s - 1) - B
           shifted == Up(c) \ {B}
           d == CrcBit(c, bit)
           r == IF onebit THEN q \cup {i} ELSE q
<1>1. /\ B \in Nat \ {0} /\ CrcPolynom \subseteq 0 .. B - 1
      /\ \A x : x \in Polynom <=> x \in CrcPolynom \/ x = B
      /\ s \in Int /\ i \in 0 .. 4 * B - 1 /\ i = (s - B) - 1 /\ s >= B + 1
  BY PolynomType
<1>2. /\ q \in SUBSET (s - B .. 4 * B - 1) /\ c \in SUBSET (0 .. B - 1)
      /\ \A n \in Int : Odd(q, n) <=> ~ (n \in data /\ n >= s <=> n - (s - B) \in c)
  BY DEF Divided
<1>3. q \in SUBSET Nat /\ IsFiniteSet(q) /\ i \notin q
  <2>1. q \in SUBSET (0 .. 4 * B - 1) /\ i \notin q
    BY <1>1, <1>2
  <2>2. 4 * B - 1 \in Int
    BY <1>1
  <2>3. IsFiniteSet(q)
    BY <2>1, <2>2, BelowIsFinite
  <2>4. q \in SUBSET Nat
    BY <2>1
  <2>5. QED
    BY <2>1, <2>3, <2>4
<1>4. r \in SUBSET (i .. 4 * B - 1)
  BY <1>1, <1>2
<1>5. shifted \in SUBSET (0 .. B - 1)
      /\ \A x \in Int : x \in shifted <=> x - 1 \in c /\ x # B
  <2>1. ASSUME NEW x PROVE x \in Up(c) <=> \E p \in c : x = p + 1
    BY DEF Up
  <2>2. \A p \in c : p \in 0 .. B - 1
    BY <1>2
  <2>3. ASSUME NEW x \in Int PROVE x \in Up(c) <=> x - 1 \in c
    <3>1. ASSUME NEW p \in c, x = p + 1 PROVE x - 1 \in c
      <4>1. x - 1 = p
        BY <2>2, <3>1
      <4>2. QED
        BY <4>1
    <3>2. x = (x - 1) + 1
      OBVIOUS
    <3>3. QED
      BY <2>1, <3>1, <3>2
  <2>4. ASSUME NEW x \in Up(c), x # B PROVE x \in 0 .. B - 1
    BY <1>1, <2>1, <2>2, <2>4
  <2>5. QED
    BY <2>3, <2>4
<1>6. d = IF onebit THEN (shifted \ CrcPolynom) \cup (CrcPolynom \ shifted)
          ELSE shifted
  <2>1. ((B - 1 \in c) # bit) = onebit
    OBVIOUS
  <2>2. QED
    BY <2>1 DEF CrcBit
<1> HIDE DEF d, shifted, r
<1>7. d \in SUBSET (0 .. B - 1)
  BY <1>1, <1>5, <1>6
<1>8. ASSUME NEW n \in Int
      PROVE  Odd(r, n) <=> ~ (n \in data /\ n >= s - 1 <=> n - i \in d)
  <2> DEFINE x == n - i
  <2>1. /\ x \in Int /\ x - 1 = n - (s - B)
        /\ x = B <=> n = s - 1
        /\ n >= s - 1 <=> n >= s \/ n = s - 1
    BY <1>1
  <2> HIDE DEF x, i
  <2>2. Odd(q, n) <=> ~ (n \in data /\ n >= s <=> x - 1 \in c)
    BY <1>2, <2>1
  <2>3. x \in shifted <=> x - 1 \in c /\ x # B
    BY <1>5, <2>1
  <2>4. CASE onebit
    <3>1. Odd(r, n) <=> ~ (Odd(q, n) <=> x \in Polynom)
      <4>1. i \in Nat
        BY <1>1
      <4>2. Odd(q \cup {i}, n) <=> ~ (Odd(q, n) <=> n - i \in Polynom)
        BY <1>3, <4>1, OddAdd
      <4>3. QED
        BY <2>4, <4>2 DEF r, x
    <3>2. x \in d <=> ~ (x \in shifted <=> x \in CrcPolynom)
      BY <1>6, <2>4
    <3>3. CASE n = s - 1
      <4>1. x = B /\ ~ (n >= s) /\ x - 1 = B - 1 /\ x \notin CrcPolynom /\ x \in Polynom
            /\ n >= s - 1 /\ (n \in data <=> bit)
        BY <1>1, <2>1, <3>3
      <4>2. Odd(r, n) <=> ~ (n \in data /\ n >= s - 1 <=> x \in d)
        BY <2>2, <2>3, <2>4, <3>1, <3>2, <4>1, Zenon
      <4>3. QED
        BY <4>2 DEF x
    <3>4. CASE n # s - 1
      <4>1. x # B /\ (n >= s - 1 <=> n >= s) /\ (x \in Polynom <=> x \in CrcPolynom)
        BY <1>1, <2>1, <3>4
      <4>2. Odd(r, n) <=> ~ (n \in data /\ n >= s - 1 <=> x \in d)
        BY <2>2, <2>3, <3>1, <3>2, <4>1, Zenon
      <4>3. QED
        BY <4>2 DEF x
    <3>5. QED
      BY <3>3, <3>4
  <2>5. CASE ~ onebit
    <3>1. r = q /\ d = shifted
      BY <1>6, <2>5 DEF r
    <3>2. CASE n = s - 1
      <4>1. x = B /\ ~ (n >= s) /\ x - 1 = B - 1 /\ n >= s - 1 /\ (n \in data <=> bit)
        BY <1>1, <2>1, <3>2
      <4>2. QED
        BY <2>2, <2>3, <2>5, <3>1, <4>1 DEF x
    <3>3. CASE n # s - 1
      <4>1. x # B /\ (n >= s - 1 <=> n >= s)
        BY <1>1, <2>1, <3>3
      <4>2. QED
        BY <2>2, <2>3, <3>1, <4>1 DEF x
    <3>4. QED
      BY <3>2, <3>3
  <2>6. QED
    BY <2>4, <2>5
<1>9. Divided(data, s - 1, r, d)
  BY <1>4, <1>7, <1>8 DEF Divided
<1>10. QED
  BY <1>9 DEF d

LEMMA CrcBitType ==
  ASSUME NEW c \in SUBSET (0 .. ByteBits - 1), NEW bit
  PROVE  CrcBit(c, bit) \in SUBSET (0 .. ByteBits - 1)
<1>1. ByteBits \in Nat \ {0} /\ CrcPolynom \subseteq 0 .. ByteBits - 1
  BY PolynomType
<1>2. Up(c) \ {ByteBits} \subseteq 0 .. ByteBits - 1
  BY <1>1 DEF Up
<1>3. QED
  BY <1>1, <1>2 DEF CrcBit

\* The steps of calculateCrc8.
CrcSteps(a, c, byte) ==
  /\ a[0] = c
  /\ \A k \in 1 .. ByteBits : a[k] = CrcBit(a[k - 1], ByteBits - k \in byte)

LEMMA CrcByteDef ==
  ASSUME NEW c \in SUBSET (0 .. ByteBits - 1), NEW byte
  PROVE  \E a : CrcSteps(a, c, byte) /\ calculateCrc8(c, byte) = a[ByteBits]
<1> DEFINE N == ByteBits
           S == SUBSET (0 .. ByteBits - 1)
           Def(g) == g = [k \in 0 .. N |->
                            IF k = 0 THEN c ELSE CrcBit(g[k - 1], N - k \in byte)]
           step == [t \in (1 .. N) \X S |-> CrcBit(t[2], N - t[1] \in byte)]
<1>1. N \in Nat
  BY PolynomType
<1>2. step \in [(1 .. N) \X S -> S]
  BY CrcBitType
<1>3. \A k \in 1 .. N, x \in S : step[<<k, x>>] = CrcBit(x, N - k \in byte)
  OBVIOUS
<1>4. c \in S
  OBVIOUS
<1> HIDE DEF step, N, S
<1>5. PICK f : IsRecursive(f, N, S, c, step)
  BY <1>1, <1>2, <1>4, Recursion
<1>6. /\ f \in [0 .. N -> S] /\ f[0] = c
      /\ \A k \in 1 .. N : f[k] = step[<<k, f[k - 1]>>]
  BY <1>5 DEF IsRecursive
<1>7. \A k \in 1 .. N : f[k - 1] \in S
  BY <1>1, <1>6
<1>8. \A k \in 1 .. N : f[k] = CrcBit(f[k - 1], N - k \in byte)
  BY <1>3, <1>6, <1>7
<1>9. Def(f)
  BY <1>1, <1>6, <1>8
<1> DEFINE a == CHOOSE g : Def(g)
<1>10. Def(a)
  <2> HIDE DEF Def
  <2>1. QED
    BY <1>9
<1>11. calculateCrc8(c, byte) = a[N]
  BY DEF calculateCrc8, N
<1> HIDE DEF a
<1>12. a[0] = c /\ \A k \in 1 .. N : a[k] = CrcBit(a[k - 1], N - k \in byte)
  <2>1. \A g : Def(g) => /\ g[0] = c
                         /\ \A k \in 1 .. N : g[k] = CrcBit(g[k - 1], N - k \in byte)
    BY <1>1
  <2>2. QED
    BY <1>10, <2>1
<1>13. QED
  BY <1>11, <1>12 DEF CrcSteps, N

\* A byte more of the division.
LEMMA DivideByte ==
  ASSUME NEW data, NEW place \in 1 .. 4, NEW q, NEW c,
         Divided(data, (place + 1) * ByteBits, q, c)
  PROVE  \E r : Divided(data, place * ByteBits, r,
                        calculateCrc8(c, ByteAt(data, place)))
<1> DEFINE B == ByteBits
           byte == ByteAt(data, place)
           s == (place + 1) * B
<1>1. B \in Nat \ {0} /\ s \in Int /\ s - B = place * B /\ s <= 5 * B /\ s - B >= B
  <2>1. B \in Nat \ {0}
    BY PolynomType
  <2>2. place = 1 \/ place = 2 \/ place = 3 \/ place = 4
    OBVIOUS
  <2>3. QED
    BY <2>1, <2>2
<1>2. c \in SUBSET (0 .. B - 1)
  BY DEF Divided
<1>3. PICK a : CrcSteps(a, c, byte) /\ calculateCrc8(c, byte) = a[B]
  BY <1>2, CrcByteDef
<1>4. a[0] = c /\ \A k \in 1 .. B : a[k] = CrcBit(a[k - 1], B - k \in byte)
  BY <1>3 DEF CrcSteps
<1>5. ASSUME NEW k \in 1 .. B PROVE B - k \in byte <=> s - k \in data
  <2>1. B - k \in 0 .. B - 1 /\ place * B + (B - k) = s - k
    BY <1>1
  <2> HIDE DEF s
  <2>2. QED
    BY <2>1 DEF ByteAt
<1> HIDE DEF byte
<1> DEFINE T == {k \in 0 .. B : \E r : Divided(data, s - k, r, a[k])}
<1>6. 0 \in T
  <2>1. s - 0 = s /\ 0 \in 0 .. B
    BY <1>1
  <2>2. QED
    BY <1>4, <2>1
<1>7. ASSUME NEW k \in T, k < B PROVE k + 1 \in T
  <2>1. /\ k \in 0 .. B /\ k + 1 \in 1 .. B /\ (k + 1) - 1 = k /\ k + 1 \in 0 .. B
        /\ s - k \in B + 1 .. 5 * B /\ (s - k) - 1 = s - (k + 1)
    BY <1>1, <1>7
  <2>2. PICK r : Divided(data, s - k, r, a[k])
    OBVIOUS
  <2>3. \E u : Divided(data, (s - k) - 1, u, CrcBit(a[k], (s - k) - 1 \in data))
    <3> DEFINE z == s - k
    <3> HIDE DEF z, s
    <3>1. z \in B + 1 .. 5 * B /\ Divided(data, z, r, a[k])
      BY <2>1, <2>2 DEF z
    <3>2. \E u : Divided(data, z - 1, u, CrcBit(a[k], z - 1 \in data))
      BY <3>1, DivideBit
    <3>3. QED
      BY <3>2 DEF z
  <2> HIDE DEF s
  <2>4. a[k + 1] = CrcBit(a[k], B - (k + 1) \in byte)
    BY <1>4, <2>1
  <2>5. (B - (k + 1) \in byte) = (s - (k + 1) \in data)
    BY <1>5, <2>1
  <2>6. QED
    BY <2>1, <2>3, <2>4, <2>5
<1>8. T \subseteq 0 .. B
  OBVIOUS
<1>9. B \in T
  <2> HIDE DEF T
  <2>1. \A k \in 0 .. B : k \in T
    BY <1>1, <1>6, <1>7, <1>8, BoundedInduction
  <2>2. QED
    BY <1>1, <2>1
<1>10. QED
  BY <1>1, <1>3, <1>9 DEF byte

LEMMA CrcFitsDef ==
  ASSUME NEW data
  PROVE  CrcFits(data) <=>
           calculateCrc8(calculateCrc8(calculateCrc8(calculateCrc8(
             {}, ByteAt(data, 4)), ByteAt(data, 3)), ByteAt(data, 2)),
               ByteAt(data, 1)) = ByteAt(data, 0)
<1> DEFINE Step(c, n) == calculateCrc8(c, ByteAt(data, n))
           c1 == Step({}, 4)
           c2 == Step(c1, 3)
           c3 == Step(c2, 2)
           c4 == Step(c3, 1)
           Def(g) == g = [n \in 0 .. 4 |->
                            IF n = 0 THEN {} ELSE Step(g[n - 1], 5 - n)]
           f == [n \in 0 .. 4 |-> IF n = 0 THEN {} ELSE IF n = 1 THEN c1
                                  ELSE IF n = 2 THEN c2 ELSE IF n = 3 THEN c3
                                  ELSE c4]
           crc == CHOOSE g : Def(g)
<1>1. CrcFits(data) <=> crc[4] = ByteAt(data, 0)
  BY DEF CrcFits
<1> HIDE DEF Step
<1>2. Def(f)
  <2> DEFINE G(n) == IF n = 0 THEN {} ELSE Step(f[n - 1], 5 - n)
  <2>1. f[0] = {} /\ f[1] = c1 /\ f[2] = c2 /\ f[3] = c3 /\ f[4] = c4
    OBVIOUS
  <2>2. G(0) = {} /\ G(1) = c1 /\ G(2) = c2 /\ G(3) = c3 /\ G(4) = c4
    <3> HIDE DEF f
    <3>1. QED
      BY <2>1
  <2>3. \A n \in 0 .. 4 : n = 0 \/ n = 1 \/ n = 2 \/ n = 3 \/ n = 4
    OBVIOUS
  <2>4. f = [n \in 0 .. 4 |-> f[n]]
    OBVIOUS
  <2>5. \A n \in 0 .. 4 : f[n] = G(n)
    <3> HIDE DEF f, G
    <3>1. QED
      BY <2>1, <2>2, <2>3
  <2>6. QED
    <3> HIDE DEF f
    <3>1. QED
      BY <2>4, <2>5
<1>3. Def(crc)
  <2> HIDE DEF Def, f
  <2>1. QED
    BY <1>2
<1> HIDE DEF crc, f
<1>4. crc[0] = {} /\ crc[1] = Step(crc[0], 4) /\ crc[2] = Step(crc[1], 3)
      /\ crc[3] = Step(crc[2], 2) /\ crc[4] = Step(crc[3], 1)
  <2>1. \A g : Def(g) => /\ g[0] = {} /\ g[1] = Step(g[0], 4)
                         /\ g[2] = Step(g[1], 3) /\ g[3] = Step(g[2], 2)
                         /\ g[4] = Step(g[3], 1)
    OBVIOUS
  <2>2. QED
    BY <1>3, <2>1
<1>5. crc[4] = c4
  BY <1>4
<1>6. QED
  BY <1>1, <1>5 DEF Step

\* The checksum fits if the digits are a multiple of the polynomial.
LEMMA CrcMultiples ==
  ASSUME NEW data \in SUBSET (0 .. 5 * ByteBits - 1)
  PROVE  CrcFits(data) <=> data \in Multiples
<1> DEFINE B == ByteBits
           N == 4 * B - 1
           low == ByteAt(data, 0)
           c == calculateCrc8(calculateCrc8(calculateCrc8(calculateCrc8(
                  {}, ByteAt(data, 4)), ByteAt(data, 3)), ByteAt(data, 2)),
                    ByteAt(data, 1))
<1>1. B \in Nat \ {0} /\ N \in Nat
  BY PolynomType
<1>2. \A n \in Int : n \in low <=> n \in data /\ n < B
  BY <1>1 DEF ByteAt
<1>3. \E r : Divided(data, B, r, c)
  <2>1. Divided(data, (4 + 1) * B, {}, {})
    <3>1. (4 + 1) * B = 5 * B
      BY <1>1
    <3>2. \A n \in Int : ~ (n \in data /\ n >= 5 * B)
      BY <1>1
    <3>3. \A n \in Int : ~ Odd({}, n)
      BY OddEmpty
    <3>4. QED
      BY <3>1, <3>2, <3>3 DEF Divided
  <2> DEFINE c1 == calculateCrc8({}, ByteAt(data, 4))
             c2 == calculateCrc8(c1, ByteAt(data, 3))
             c3 == calculateCrc8(c2, ByteAt(data, 2))
             c4 == calculateCrc8(c3, ByteAt(data, 1))
  <2>2. c = c4 /\ 3 + 1 = 4 /\ 2 + 1 = 3 /\ 1 + 1 = 2 /\ 1 * B = B
        /\ 4 \in 1 .. 4 /\ 3 \in 1 .. 4 /\ 2 \in 1 .. 4 /\ 1 \in 1 .. 4
    BY <1>1
  <2>3. PICK r1 : Divided(data, 4 * B, r1, c1)
    BY <2>1, <2>2, DivideByte
  <2>4. PICK r2 : Divided(data, 3 * B, r2, c2)
    <3> HIDE DEF c1
    <3>1. Divided(data, (3 + 1) * B, r1, c1)
      BY <2>2, <2>3
    <3>2. QED
      BY <2>2, <3>1, DivideByte
  <2>5. PICK r3 : Divided(data, 2 * B, r3, c3)
    <3> HIDE DEF c2
    <3>1. Divided(data, (2 + 1) * B, r2, c2)
      BY <2>2, <2>4
    <3>2. QED
      BY <2>2, <3>1, DivideByte
  <2>6. PICK r4 : Divided(data, 1 * B, r4, c4)
    <3> HIDE DEF c3
    <3>1. Divided(data, (1 + 1) * B, r3, c3)
      BY <2>2, <2>5
    <3>2. QED
      BY <2>2, <3>1, DivideByte
  <2> HIDE DEF c, c4
  <2>7. QED
    BY <2>2, <2>6
<1>4. CrcFits(data) <=> c = low
  BY CrcFitsDef
<1> HIDE DEF c, low
<1>5. PICK r : Divided(data, B, r, c)
  BY <1>3
<1>6. /\ r \in SUBSET (0 .. N) /\ c \in SUBSET (0 .. B - 1)
      /\ \A n \in Int : Odd(r, n) <=> ~ (n \in data /\ n >= B <=> n \in c)
  <2>1. B - B = 0 /\ \A n \in Int : n - (B - B) = n
    BY <1>1
  <2>2. QED
    BY <1>5, <2>1 DEF Divided
<1>7. \A n \in Int : n >= B => (Odd(r, n) <=> n \in data)
  <2>1. \A n \in c : n < B
    BY <1>1, <1>6
  <2>2. QED
    BY <1>1, <1>6, <2>1
<1>8. \A n \in Int : n < B => (Odd(r, n) <=> n \in c)
  BY <1>1, <1>6
<1>9. low \subseteq 0 .. B - 1 /\ data \subseteq Int
  BY DEF low, ByteAt
<1>10. ASSUME c = low PROVE data = Product(r)
  <2>1. ASSUME NEW n \in 0 .. 5 * B - 1 PROVE n \in data <=> Odd(r, n)
    <3>1. n \in Int /\ (n < B \/ n >= B)
      BY <1>1
    <3>2. QED
      BY <1>2, <1>7, <1>8, <1>10, <3>1
  <2>2. QED
    BY <2>1 DEF Product
<1>11. ASSUME NEW q \in SUBSET (0 .. N), data = Product(q) PROVE c = low
  <2>1. \A n \in 0 .. 5 * B - 1 : n \in data <=> Odd(q, n)
    BY <1>11 DEF Product
  <2>2. ASSUME NEW m \in 0 .. N PROVE Odd(q, m + B) <=> Odd(r, m + B)
    <3>1. m + B \in 0 .. 5 * B - 1 /\ m + B \in Int /\ m + B >= B
      BY <1>1
    <3>2. QED
      BY <1>7, <2>1, <3>1
  <2> HIDE DEF N
  <2>3. q = r
    BY <1>1, <1>6, <2>2, SameFactor
  <2>4. ASSUME NEW n \in 0 .. B - 1 PROVE n \in c <=> n \in low
    <3>1. n \in 0 .. 5 * B - 1 /\ n \in Int /\ n < B
      BY <1>1
    <3>2. QED
      BY <1>2, <1>8, <2>1, <2>3, <3>1
  <2>5. QED
    BY <1>6, <1>9, <2>4
<1>12. QED
  BY <1>4, <1>6, <1>10, <1>11, MultiplesAre

-----------------------------------------------------------------------------
(* What the digits read mean, and what the decoders make of them.          *)

\* The meaning of the digits, for Fine Offset with its checksum calculated.
Heard(d, s) ==
  IF d = "fineoffset"
    THEN IF Len(s) = DigitsOf(d) /\ CrcFits(Ones(s)) THEN Report(d, Ones(s))
         ELSE Nothing
    ELSE Meaning(d, s)

\* What is stored of the digits read.
Collected(d, s) ==
  CASE d = "pt2262" -> Ternary(s)
    [] d = "codeswitch" -> Ones(Reverse(s))
    [] d = "selflearning" -> Ones(Window(s))
    [] OTHER -> Ones(s)

LEMMA DigitsOfType == \A d \in Decoders : DigitsOf(d) \in Nat \ {0}
<1>1. 5 * ByteBits \in Nat \ {0} /\ 4 * ByteBits \in Nat \ {0}
  BY BlockSizes
<1>2. MandolynDigits + 4 \in Nat \ {0} /\ MaxSignal \in Nat \ {0}
  BY BlockSizes
<1>3. ASSUME NEW d \in Decoders PROVE DigitsOf(d) \in Nat \ {0}
  <2>1. CASE d \in {"fineoffset", "x10"}
    BY <1>1, <2>1 DEF DigitsOf
  <2>2. CASE d \in {"mandolyn", "selflearning"}
    BY <1>2, <2>2 DEF DigitsOf
  <2>3. CASE d \in {"codeswitch", "everflourish", "pt2262"}
    BY BlockSizes, <2>3 DEF DigitsOf
  <2>4. QED
    BY <2>1, <2>2, <2>3 DEF Decoders
<1>4. QED
  BY <1>3

LEMMA CollectedEmpty ==
  ASSUME NEW d \in Decoders
  PROVE  Collected(d, <<>>) = IF d = "pt2262" THEN 0 ELSE {}
<1>1. <<>> \in Seq(Digits) /\ Len(<<>>) = 0
  OBVIOUS
<1>2. Ones(<<>>) = {}
  <2>1. \A p \in Ones(<<>>) : p \in 0 .. 0 - 1
    BY <1>1, OnesPlaces
  <2>2. QED
    BY <2>1
<1>3. Reverse(<<>>) = <<>>
  <2>1. Reverse(<<>>) \in Seq(Digits) /\ Len(Reverse(<<>>)) = 0
    BY <1>1, ReversePlaces
  <2>2. QED
    BY <2>1
<1>4. Window(<<>>) = <<>>
  BY <1>1, BlockSizes DEF Window
<1>5. Ternary(<<>>) = 0
  <2>1. PICK v : Horner(v, <<>>) /\ Ternary(<<>>) = v[Len(<<>>)]
    BY <1>1, TernaryDef
  <2>2. QED
    BY <1>1, <2>1 DEF Horner
<1>6. QED
  BY <1>2, <1>3, <1>4, <1>5 DEF Collected

LEMMA CollectedAppend ==
  ASSUME NEW d \in Decoders, NEW s \in Seq(Digits), NEW x \in Digits,
         Len(s) < DigitsOf(d)
  PROVE  Collected(d, Append(s, x)) = Stored(d, Collected(d, s), Len(s), x)
<1>1. CASE d = "pt2262"
  <2>1. Len(s) < Pt2262Digits
    BY <1>1 DEF DigitsOf
  <2>2. QED
    BY <1>1, <2>1, TernaryAppend DEF Collected, Stored
<1>2. CASE d = "codeswitch"
  BY <1>2, OnesReverseAppend DEF Collected, Stored
<1>3. CASE d = "selflearning"
  BY <1>3, OnesWindowAppend DEF Collected, Stored
<1>4. CASE d \notin {"pt2262", "codeswitch", "selflearning"}
  BY <1>4, OnesAppend DEF Collected, Stored
<1>5. QED
  BY <1>1, <1>2, <1>3, <1>4

\* Too few digits mean nothing, but selflearning may miss one.
LEMMA ShortMeans ==
  ASSUME NEW d \in Decoders, NEW s \in Seq(Digits), Len(s) < DigitsOf(d)
  PROVE  Heard(d, s) = IF d = "selflearning" /\ Len(s) >= SignalLength
                         THEN Report(d, Collected(d, s)) ELSE Nothing
<1>1. Len(s) \in Nat /\ SignalLength \in Nat /\ DigitsOf(d) \in Nat
  BY BlockSizes, DigitsOfType
<1>2. CASE d = "selflearning"
  <2>1. CASE Len(s) < SignalLength
    BY <1>1, <1>2, <2>1 DEF Heard, Meaning
  <2>2. CASE Len(s) = SignalLength
    <3>1. Window(s) = s
      BY <1>1, <2>2 DEF Window
    <3>2. QED
      BY <1>1, <1>2, <2>2, <3>1 DEF Heard, Meaning, Collected
  <2>3. CASE Len(s) > SignalLength
    <3>1. Window(s) = SubSeq(s, Len(s) - SignalLength, Len(s))
      <4>1. CASE Len(s) = SignalLength + 1
        <5>1. Len(s) - SignalLength = 1 /\ SubSeq(s, 1, Len(s)) = s
          BY <1>1, <4>1, SubSeqFull
        <5>2. Window(s) = s
          BY <1>1, <4>1 DEF Window
        <5>3. QED
          BY <5>1, <5>2
      <4>2. CASE Len(s) # SignalLength + 1
        BY <1>1, <2>3, <4>2 DEF Window
      <4>3. QED
        BY <4>1, <4>2
    <3>2. ~ (Len(s) < SignalLength) /\ Len(s) # SignalLength /\ Len(s) >= SignalLength
      BY <1>1, <2>3
    <3>3. QED
      BY <1>2, <3>1, <3>2 DEF Heard, Meaning, Collected
  <2>4. QED
    BY <1>1, <2>1, <2>2, <2>3
<1>3. CASE d = "fineoffset"
  BY <1>1, <1>3 DEF Heard
<1>4. CASE d \notin {"selflearning", "fineoffset"}
  <2>1. d # "selflearning" /\ Len(s) < DigitsOf(d)
    BY <1>4
  <2>2. Len(s) # DigitsOf(d)
    BY <1>1
  <2>3. Meaning(d, s) = Nothing
    BY <2>1, <2>2 DEF Meaning
  <2>4. QED
    BY <1>4, <2>3 DEF Heard
<1>5. QED
  BY <1>2, <1>3, <1>4

\* The bytes of X10.
LEMMA ComplementsAre ==
  ASSUME NEW s \in Seq(Bit), Len(s) = 4 * ByteBits, NEW m \in 0 .. 2
  PROVE  Complements(ByteAt(Ones(s), m + 1), ByteAt(Ones(s), m)) <=>
           \A k \in 1 .. ByteBits : s[k + m * ByteBits] # s[k + (m + 1) * ByteBits]
<1> DEFINE B == ByteBits
           upper == ByteAt(Ones(s), m + 1)
           lower == ByteAt(Ones(s), m)
<1>1. B \in Nat \ {0} /\ s \in Seq(Digits)
  BY BlockSizes, SeqMonotonic DEF Digits, Bit
<1>2. ASSUME NEW n \in 0 .. 3, NEW b
      PROVE  b \in ByteAt(Ones(s), n) <=> b \in 0 .. B - 1 /\ s[n * B + b + 1] = 1
  <2>1. ASSUME b \in 0 .. B - 1 PROVE n * B + b \in 0 .. 4 * B - 1
    <3>1. n = 0 \/ n = 1 \/ n = 2 \/ n = 3
      OBVIOUS
    <3>2. QED
      BY <1>1, <2>1, <3>1
  <2>2. b \in ByteAt(Ones(s), n) <=> b \in 0 .. B - 1 /\ n * B + b \in Ones(s)
    BY DEF ByteAt
  <2>3. n * B + b \in Ones(s) <=>
          n * B + b \in 0 .. Len(s) - 1 /\ s[(n * B + b) + 1] = 1
    BY <1>1, OnesPlaces
  <2>4. QED
    BY <2>1, <2>2, <2>3
<1>3. m \in 0 .. 3 /\ m + 1 \in 0 .. 3
  OBVIOUS
<1>4. /\ \A b : b \in upper <=> b \in 0 .. B - 1 /\ s[(m + 1) * B + b + 1] = 1
      /\ \A b : b \in lower <=> b \in 0 .. B - 1 /\ s[m * B + b + 1] = 1
  BY <1>2, <1>3
<1> HIDE DEF upper, lower
<1>5. Complements(upper, lower) <=>
        \A b \in 0 .. B - 1 : b \in upper <=> b \notin lower
  <2>1. upper \subseteq 0 .. B - 1
    BY <1>4
  <2>2. QED
    BY <2>1 DEF Complements
<1>6. ASSUME NEW b \in 0 .. B - 1
      PROVE  (b \in upper <=> b \notin lower) <=>
               s[(b + 1) + m * B] # s[(b + 1) + (m + 1) * B]
  <2> DEFINE x == m * B + b + 1
             y == (m + 1) * B + b + 1
  <2>1. /\ x \in 1 .. 4 * B /\ y \in 1 .. 4 * B
        /\ (b + 1) + m * B = x /\ (b + 1) + (m + 1) * B = y
    <3>1. m = 0 \/ m = 1 \/ m = 2
      OBVIOUS
    <3>2. QED
      BY <1>1, <3>1
  <2> HIDE DEF x, y
  <2>2. s[x] \in {0, 1} /\ s[y] \in {0, 1}
    BY <2>1 DEF Bit
  <2>3. (b \in upper <=> s[y] = 1) /\ (b \in lower <=> s[x] = 1)
    BY <1>4 DEF x, y
  <2>4. QED
    BY <2>1, <2>2, <2>3
<1>7. (\A b \in 0 .. B - 1 : s[(b + 1) + m * B] # s[(b + 1) + (m + 1) * B]) <=>
        \A k \in 1 .. B : s[k + m * B] # s[k + (m + 1) * B]
  <2>1. ASSUME NEW k \in 1 .. B,
               \A b \in 0 .. B - 1 : s[(b + 1) + m * B] # s[(b + 1) + (m + 1) * B]
        PROVE  s[k + m * B] # s[k + (m + 1) * B]
    <3>1. k - 1 \in 0 .. B - 1 /\ (k - 1) + 1 = k
      BY <1>1
    <3>2. QED
      BY <2>1, <3>1
  <2>2. ASSUME NEW b \in 0 .. B - 1,
               \A k \in 1 .. B : s[k + m * B] # s[k + (m + 1) * B]
        PROVE  s[(b + 1) + m * B] # s[(b + 1) + (m + 1) * B]
    <3>1. b + 1 \in 1 .. B
      BY <1>1
    <3>2. QED
      BY <2>2, <3>1
  <2>3. QED
    BY <2>1, <2>2
<1>8. QED
  BY <1>5, <1>6, <1>7 DEF upper, lower

LEMMA X10Accepts ==
  ASSUME NEW s \in Seq(Bit), Len(s) = 4 * ByteBits
  PROVE  Accepted("x10", Ones(s)) <=>
           \A k \in 1 .. ByteBits : /\ s[k] # s[k + ByteBits]
                                    /\ s[k + 2 * ByteBits] # s[k + 3 * ByteBits]
<1>1. Accepted("x10", Ones(s)) <=>
        /\ Complements(ByteAt(Ones(s), 2 + 1), ByteAt(Ones(s), 2))
        /\ Complements(ByteAt(Ones(s), 0 + 1), ByteAt(Ones(s), 0))
  BY DEF Accepted
<1>2. /\ Complements(ByteAt(Ones(s), 2 + 1), ByteAt(Ones(s), 2)) <=>
           \A k \in 1 .. ByteBits : s[k + 2 * ByteBits] # s[k + (2 + 1) * ByteBits]
      /\ Complements(ByteAt(Ones(s), 0 + 1), ByteAt(Ones(s), 0)) <=>
           \A k \in 1 .. ByteBits : s[k + 0 * ByteBits] # s[k + (0 + 1) * ByteBits]
  <2>1. 2 \in 0 .. 2 /\ 0 \in 0 .. 2
    OBVIOUS
  <2>2. QED
    BY <2>1, ComplementsAre
<1>3. \A k \in 1 .. ByteBits : /\ k + 0 * ByteBits = k
                               /\ k + (0 + 1) * ByteBits = k + ByteBits
                               /\ k + (2 + 1) * ByteBits = k + 3 * ByteBits
  BY BlockSizes
<1>4. QED
  BY <1>1, <1>2, <1>3

\* The preamble of Mandolyn, and what is before it.
LEMMA MandolynAccepts ==
  ASSUME NEW s \in Seq(Bit), Len(s) = MandolynDigits + 4
  PROVE  /\ Accepted("mandolyn", Ones(s)) <=>
              SubSeq(s, MandolynDigits + 1, Len(s)) = <<0, 0, 1, 1>>
         /\ Report("mandolyn", Ones(s)) =
              Report("mandolyn", Ones(SubSeq(s, 1, MandolynDigits)))
<1> DEFINE M == MandolynDigits
           t == SubSeq(s, M + 1, Len(s))
           u == SubSeq(s, 1, M)
<1>1. M \in Nat /\ s \in Seq(Digits)
  BY BlockSizes, SeqMonotonic DEF Digits, Bit
<1>2. /\ t \in Seq(Digits) /\ Len(t) = 4
      /\ t[1] = s[M + 1] /\ t[2] = s[M + 2] /\ t[3] = s[M + 3] /\ t[4] = s[M + 4]
  <2>1. \A i \in M + 1 .. M + 4 : s[i] \in Digits
    BY <1>1
  <2> DEFINE m == M + 1
             n == M + 4
  <2>2. m \in Int /\ n \in Int /\ m <= n /\ n - m + 1 = 4
    BY <1>1
  <2>3. \A i \in m .. n : s[i] \in Digits
    BY <2>1
  <2>4. t = SubSeq(s, m, n)
    OBVIOUS
  <2>5. \A i \in 1 .. 4 : m + i - 1 = M + i
    BY <1>1
  <2> HIDE DEF t, m, n
  <2>6. t \in Seq(Digits) /\ Len(t) = 4 /\ \A i \in 1 .. 4 : t[i] = s[m + i - 1]
    BY <2>2, <2>3, <2>4, SubSeqProperties
  <2>7. QED
    BY <2>5, <2>6
<1>3. /\ u \in Seq(Digits) /\ Len(u) = M /\ \A i \in 1 .. M : u[i] = s[i]
  <2>1. \A i \in 1 .. M : s[i] \in Digits
    BY <1>1
  <2>2. M - 1 + 1 = M /\ \A i \in 1 .. M : 1 + i - 1 = i
    BY <1>1
  <2>3. 1 \in Int /\ M \in Int /\ (1 <= M \/ M = 0)
    BY <1>1
  <2> HIDE DEF u, M
  <2>4. /\ u \in Seq(Digits) /\ Len(u) = IF 1 <= M THEN M - 1 + 1 ELSE 0
        /\ \A i \in 1 .. M - 1 + 1 : u[i] = s[1 + i - 1]
    BY <2>1, <2>3, SubSeqProperties DEF u
  <2>5. QED
    BY <2>2, <2>3, <2>4
<1> HIDE DEF t, u
<1>4. /\ M + 1 \in 1 .. M + 4 /\ M + 2 \in 1 .. M + 4
      /\ M + 3 \in 1 .. M + 4 /\ M + 4 \in 1 .. M + 4
  BY <1>1
<1>5. /\ s[M + 1] \in {0, 1} /\ s[M + 2] \in {0, 1}
      /\ s[M + 3] \in {0, 1} /\ s[M + 4] \in {0, 1}
  BY <1>4 DEF Bit
<1>6. t = <<0, 0, 1, 1>> <=>
        s[M + 1] = 0 /\ s[M + 2] = 0 /\ s[M + 3] = 1 /\ s[M + 4] = 1
  <2> DEFINE w == <<0, 0, 1, 1>>
  <2>1. w \in Seq(Digits) /\ Len(w) = 4 /\ w[1] = 0 /\ w[2] = 0 /\ w[3] = 1 /\ w[4] = 1
    BY DEF Digits
  <2> HIDE DEF w
  <2>2. ASSUME t[1] = 0, t[2] = 0, t[3] = 1, t[4] = 1 PROVE t = w
    <3>1. \A i \in 1 .. 4 : i = 1 \/ i = 2 \/ i = 3 \/ i = 4
      OBVIOUS
    <3>2. \A i \in 1 .. 4 : t[i] = w[i]
      BY <2>1, <2>2, <3>1
    <3>3. QED
      BY <1>2, <2>1, <3>2, SeqEqual
  <2>3. QED
    BY <1>2, <2>1, <2>2 DEF w
<1> DEFINE o == Ones(s)
<1>7. \A p : p \in o <=> p \in 0 .. (M + 4) - 1 /\ s[p + 1] = 1
  BY <1>1, OnesPlaces
<1> HIDE DEF o
<1>8. /\ M \in o <=> s[M + 1] = 1
      /\ M + 1 \in o <=> s[M + 2] = 1
      /\ M + 2 \in o <=> s[M + 3] = 1
      /\ M + 3 \in o <=> s[M + 4] = 1
  <2>1. /\ M \in 0 .. (M + 4) - 1 /\ M + 1 \in 0 .. (M + 4) - 1
        /\ M + 2 \in 0 .. (M + 4) - 1 /\ M + 3 \in 0 .. (M + 4) - 1
        /\ (M + 1) + 1 = M + 2 /\ (M + 2) + 1 = M + 3 /\ (M + 3) + 1 = M + 4
    BY <1>1
  <2>2. \A p \in 0 .. (M + 4) - 1 : p \in o <=> s[p + 1] = 1
    BY <1>7
  <2>3. (M \in o <=> s[M + 1] = 1) /\ (M + 1 \in o <=> s[(M + 1) + 1] = 1)
    BY <2>1, <2>2
  <2>4. (M + 2 \in o <=> s[(M + 2) + 1] = 1) /\ (M + 3 \in o <=> s[(M + 3) + 1] = 1)
    BY <2>1, <2>2
  <2>5. QED
    BY <2>1, <2>3, <2>4
<1>9. {p \in o : p >= M} = {M + 2, M + 3} <=>
        M \notin o /\ M + 1 \notin o /\ M + 2 \in o /\ M + 3 \in o
  <2>1. \A p \in o : p >= M => p = M \/ p = M + 1 \/ p = M + 2 \/ p = M + 3
    BY <1>1, <1>7
  <2>2. M >= M /\ M + 1 >= M /\ M + 2 >= M /\ M + 3 >= M
    BY <1>1
  <2>3. M # M + 2 /\ M # M + 3 /\ M + 1 # M + 2 /\ M + 1 # M + 3
    BY <1>1
  <2>4. QED
    BY <2>1, <2>2, <2>3
<1>10. Accepted("mandolyn", o) <=> {p \in o : p >= M} = {M + 2, M + 3}
  BY DEF Accepted, MandolynPreamble
<1>11. {p \in o : p < M} = {p \in Ones(u) : p < M}
  <2>1. \A p : p \in Ones(u) <=> p \in 0 .. M - 1 /\ u[p + 1] = 1
    BY <1>3, OnesPlaces
  <2>2. \A p : p \in o /\ p < M => p \in 0 .. M - 1 /\ p + 1 \in 1 .. M
    BY <1>1, <1>7
  <2>3. \A p : p \in 0 .. M - 1 => p + 1 \in 1 .. M /\ p \in 0 .. (M + 4) - 1 /\ p < M
    BY <1>1
  <2>4. \A p : p \in o /\ p < M <=> p \in Ones(u) /\ p < M
    BY <1>3, <1>7, <2>1, <2>2, <2>3
  <2>5. QED
    BY <2>4
<1>12. Report("mandolyn", o) = Report("mandolyn", Ones(u))
  BY <1>11 DEF Report
<1>13. QED
  BY <1>5, <1>6, <1>8, <1>9, <1>10, <1>12 DEF o, t, u

\* All digits, and what is checked of them.
LEMMA FullMeans ==
  ASSUME NEW d \in Decoders, NEW s \in Seq(Digits), Len(s) = DigitsOf(d),
         d # "pt2262" => s \in Seq(Bit)
  PROVE  Heard(d, s) = IF Accepted(d, Collected(d, s))
                         THEN Report(d, Collected(d, s)) ELSE Nothing
<1>1. CASE d = "selflearning"
  <2>1. Len(s) = MaxSignal /\ SignalLength \in Nat /\ MaxSignal \in Nat
        /\ SignalLength < MaxSignal
    BY <1>1, BlockSizes DEF DigitsOf
  <2>2. Window(s) = SubSeq(s, Len(s) - SignalLength, Len(s))
    <3>1. CASE Len(s) = SignalLength + 1
      <4>1. Len(s) - SignalLength = 1 /\ SubSeq(s, 1, Len(s)) = s
        BY <2>1, <3>1, SubSeqFull
      <4>2. Window(s) = s
        BY <2>1, <3>1 DEF Window
      <4>3. QED
        BY <4>1, <4>2
    <3>2. CASE Len(s) # SignalLength + 1
      BY <2>1, <3>2 DEF Window
    <3>3. QED
      BY <3>1, <3>2
  <2>3. ~ (Len(s) < SignalLength) /\ Len(s) # SignalLength
    BY <2>1
  <2>4. QED
    BY <1>1, <2>2, <2>3 DEF Heard, Meaning, Collected, Accepted
<1>2. CASE d = "codeswitch"
  <2>1. Len(Reverse(s)) = Len(s) /\ Reverse(s) \in Seq(Digits)
        /\ \A k \in 1 .. Len(s) : Reverse(s)[k] = s[(Len(s) - k) + 1]
    BY ReversePlaces
  <2>2. Ones(s) = {} <=> Ones(Reverse(s)) = {}
    <3>1. ASSUME NEW p \in Ones(s) PROVE Ones(Reverse(s)) # {}
      <4>1. p \in 0 .. Len(s) - 1 /\ s[p + 1] = 1
        BY OnesPlaces
      <4> DEFINE q == (Len(s) - 1) - p
      <4>2. /\ q \in 0 .. Len(s) - 1 /\ q + 1 \in 1 .. Len(s)
            /\ (Len(s) - (q + 1)) + 1 = p + 1
        BY <4>1
      <4>3. q \in Ones(Reverse(s))
        BY <2>1, <4>1, <4>2, OnesPlaces
      <4>4. QED
        BY <4>3
    <3>2. ASSUME NEW p \in Ones(Reverse(s)) PROVE Ones(s) # {}
      <4>1. p \in 0 .. Len(s) - 1 /\ Reverse(s)[p + 1] = 1
        BY <2>1, OnesPlaces
      <4> DEFINE q == (Len(s) - 1) - p
      <4>2. /\ q \in 0 .. Len(s) - 1 /\ p + 1 \in 1 .. Len(s)
            /\ (Len(s) - (p + 1)) + 1 = q + 1
        BY <4>1
      <4>3. q \in Ones(s)
        BY <2>1, <4>1, <4>2, OnesPlaces
      <4>4. QED
        BY <4>3
    <3>3. QED
      BY <3>1, <3>2
  <2>3. d # "selflearning" /\ ~ (Len(s) < DigitsOf(d)) /\ d # "fineoffset"
    BY <1>2, DigitsOfType
  <2>4. Heard(d, s) = IF Ones(s) = {} THEN Nothing ELSE Report(d, Ones(Reverse(s)))
    BY <1>2, <2>3 DEF Heard, Meaning
  <2>5. QED
    BY <1>2, <2>2, <2>4 DEF Collected, Accepted
<1>3. CASE d = "fineoffset"
  BY <1>3 DEF Heard, Collected, Accepted
<1>4. CASE d \in {"x10", "mandolyn", "everflourish", "pt2262"}
  <2>1. d # "selflearning" /\ ~ (Len(s) < DigitsOf(d)) /\ d # "fineoffset"
        /\ d # "codeswitch"
    BY <1>4, DigitsOfType
  <2>2. CASE d = "x10"
    <3>1. Len(s) = 4 * ByteBits /\ s \in Seq(Bit)
      BY <2>2 DEF DigitsOf
    <3>2. Heard(d, s) =
            IF \A k \in 1 .. ByteBits : /\ s[k] # s[k + ByteBits]
                                        /\ s[k + 2 * ByteBits] # s[k + 3 * ByteBits]
              THEN Report(d, Ones(s)) ELSE Nothing
      BY <2>1, <2>2 DEF Heard, Meaning
    <3>3. Collected(d, s) = Ones(s)
      BY <2>2 DEF Collected
    <3>4. QED
      BY <2>2, <3>1, <3>2, <3>3, X10Accepts
  <2>3. CASE d = "mandolyn"
    <3>1. Len(s) = MandolynDigits + 4 /\ s \in Seq(Bit)
      BY <2>3 DEF DigitsOf
    <3>2. Heard(d, s) =
            IF SubSeq(s, MandolynDigits + 1, Len(s)) = <<0, 0, 1, 1>>
              THEN Report(d, Ones(SubSeq(s, 1, MandolynDigits))) ELSE Nothing
      BY <2>1, <2>3 DEF Heard, Meaning
    <3>3. Collected(d, s) = Ones(s)
      BY <2>3 DEF Collected
    <3>4. QED
      BY <2>3, <3>1, <3>2, <3>3, MandolynAccepts
  <2>4. CASE d \in {"everflourish", "pt2262"}
    BY <2>1, <2>4 DEF Heard, Meaning, Collected, Accepted
  <2>5. QED
    BY <1>4, <2>2, <2>3, <2>4
<1>5. QED
  BY <1>1, <1>2, <1>3, <1>4 DEF Decoders

-----------------------------------------------------------------------------
(* The invariant.                                                          *)

BitPlaces == {"idle", "skip", "digit", "over"}
Counts == 0 .. MaxCount

\* The most counts that are a digit.
CountsOf(d) == IF d \in {"x10", "mandolyn", "fineoffset"} THEN 2 ELSE 4

ParseTypes ==
  /\ parse = [decoder |-> parse.decoder, at |-> parse.at, counts |-> parse.counts,
              read |-> parse.read, data |-> parse.data]
  /\ parse.at \in BitPlaces
  /\ IF parse.at = "idle" THEN parse.decoder = "none"
                          ELSE parse.decoder \in Decoders
  /\ parse.counts \in Seq(Counts) /\ Len(parse.counts) < CountsOf(parse.decoder)
  /\ digits \in Seq(Digits)
  /\ parse.decoder # "pt2262" => digits \in Seq(Bit)
  /\ air \in Seq(Lens)
  /\ parse.at \in {"idle", "skip"} => digits = <<>> /\ parse.counts = <<>>
  /\ parse.at # "over" => reported = Nothing

\* What is stored is what the digits read come to.
CollectInv ==
  parse.at \in {"skip", "digit"} =>
    /\ parse.read = Len(digits) /\ Len(digits) < DigitsOf(parse.decoder)
    /\ parse.data = Collected(parse.decoder, digits)

\* It has room where it is stored.
RoomInv ==
  /\ parse.decoder = "pt2262" => parse.data \in 0 .. power[Pt2262Digits] - 1
  /\ parse.decoder = "selflearning" => parse.data \subseteq 0 .. SignalLength

\* What is reported is what the digits mean.
HeardInv ==
  parse.at = "over" =>
    /\ Len(digits) <= DigitsOf(parse.decoder)
    /\ reported = Heard(parse.decoder, digits)

BlockInv == ParseTypes /\ CollectInv /\ RoomInv /\ HeardInv

LEMMA DigitTypes ==
  ASSUME NEW d \in Decoders, NEW b
  PROVE  /\ Digit(d, b) \in Digits \cup {Invalid}
         /\ d # "pt2262" => Digit(d, b) \in Bit \cup {Invalid}
<1>1. CASE d = "codeswitch"
  BY <1>1 DEF Digit, arctechCodeSwitchBit, Digits, Bit
<1>2. CASE d = "selflearning"
  BY <1>2 DEF Digit, arctechSelflearningBit, Digits, Bit
<1>3. CASE d = "everflourish"
  BY <1>3 DEF Digit, everflourishBit, Digits, Bit
<1>4. CASE d = "x10"
  BY <1>4 DEF Digit, x10Bit, Digits, Bit
<1>5. CASE d = "pt2262"
  BY <1>5 DEF Digit, pt2262Bit, Digits
<1>6. CASE d = "mandolyn"
  BY <1>6 DEF Digit, mandolynBit, Digits, Bit
<1>7. CASE d = "fineoffset"
  BY <1>7 DEF Digit, fineOffsetBit, Digits, Bit
<1>8. QED
  BY <1>1, <1>2, <1>3, <1>4, <1>5, <1>6, <1>7 DEF Decoders

\* What is collected of digits that are no more than are read has room.
LEMMA CollectedRoom ==
  ASSUME NEW d \in Decoders, NEW s \in Seq(Digits), Len(s) <= DigitsOf(d)
  PROVE  /\ d = "pt2262" => Collected(d, s) \in 0 .. power[Pt2262Digits] - 1
         /\ d = "selflearning" => Collected(d, s) \subseteq 0 .. SignalLength
<1>1. CASE d = "pt2262"
  BY <1>1, TernaryBound DEF Collected, DigitsOf
<1>2. CASE d = "selflearning"
  <2>1. Window(s) \in Seq(Digits) /\ Len(Window(s)) <= SignalLength + 1
    BY WindowPlaces
  <2>2. Len(Window(s)) \in Nat /\ SignalLength \in Nat
    BY <2>1, BlockSizes
  <2>3. \A p \in Ones(Window(s)) : p \in 0 .. Len(Window(s)) - 1
    BY <2>1, OnesPlaces
  <2>4. Ones(Window(s)) \subseteq 0 .. SignalLength
    BY <2>1, <2>2, <2>3
  <2>5. QED
    BY <1>2, <2>4 DEF Collected
<1>3. QED
  BY <1>1, <1>2

LEMMA FrontPlaces ==
  ASSUME NEW S, NEW s \in Seq(S), s # <<>>
  PROVE  /\ Len(s) \in Nat \ {0}
         /\ Front(s) \in Seq(S) /\ Len(Front(s)) = Len(s) - 1
         /\ \A x \in 1 .. Len(s) - 1 : Front(s)[x] = s[x]
         /\ Last(s) = s[Len(s)] /\ Last(s) \in S
<1>1. Len(s) \in Nat \ {0}
  OBVIOUS
<1>2. Front(s) \in Seq(S) /\ Len(Front(s)) = Len(s) - 1
      /\ \A x \in 1 .. Len(s) - 1 : Front(s)[x] = s[x]
  <2> DEFINE n == Len(s) - 1
  <2>1. n \in Int /\ 1 \in Int /\ \A i \in 1 .. n : s[i] \in S
    BY <1>1
  <2>2. /\ SubSeq(s, 1, n) \in Seq(S)
        /\ Len(SubSeq(s, 1, n)) = IF 1 <= n THEN (n - 1) + 1 ELSE 0
        /\ \A i \in 1 .. (n - 1) + 1 : SubSeq(s, 1, n)[i] = s[(1 + i) - 1]
    <3> HIDE DEF n
    <3>1. QED
      BY <2>1, SubSeqProperties
  <2>3. Front(s) = SubSeq(s, 1, n)
    BY DEF Front
  <2>4. Len(Front(s)) = n
    <3>1. n \in Nat /\ (n - 1) + 1 = n /\ (1 <= n \/ n = 0)
      <4>1. ASSUME NEW m \in Nat \ {0}
            PROVE  m - 1 \in Nat /\ ((m - 1) - 1) + 1 = m - 1 /\ (1 <= m - 1 \/ m - 1 = 0)
        OBVIOUS
      <4>2. QED
        BY <1>1, <4>1
    <3>2. Len(SubSeq(s, 1, n)) = n
      <4> HIDE DEF n
      <4>1. ASSUME NEW k, k = IF 1 <= n THEN (n - 1) + 1 ELSE 0 PROVE k = n
        BY <3>1, <4>1
      <4>2. QED
        BY <2>2, <4>1
    <3>3. QED
      <4> HIDE DEF n
      <4>1. QED
        BY <2>3, <3>2
  <2>5. ASSUME NEW x \in 1 .. n PROVE Front(s)[x] = s[x]
    <3>1. x \in 1 .. (n - 1) + 1 /\ (1 + x) - 1 = x
      BY <1>1
    <3>2. QED
      BY <2>2, <2>3, <3>1
  <2>6. QED
    BY <2>2, <2>3, <2>4, <2>5
<1>3. QED
  BY <1>1, <1>2 DEF Last

\* What a run that is read may be.
LEMMA ReadTypes ==
  ASSUME ParseTypes, parse.decoder \in Decoders,
         NEW length \in Lengths, rfCountSimilar(length)
  PROVE  length \in Nat /\ Count(length) \in Counts /\ air' \in Seq(Lens)
<1>1. MaxCount \in Nat /\ air \in Seq(Lens)
  BY BlockSizes DEF ParseTypes
<1>2. length \in Nat
  <2>1. CASE air = <<>>
    <3>1. BlockCounts[parse.decoder] \subseteq 0 .. MaxCount
      BY BlockAssumption
    <3>2. QED
      BY <1>1, <2>1, <3>1 DEF Lengths
  <2>2. CASE air # <<>>
    <3>1. Last(air) \in Lens
      BY <1>1, <2>2, FrontPlaces
    <3>2. QED
      BY <2>2, <3>1 DEF Lengths, Lens
  <2>3. QED
    BY <2>1, <2>2
<1>3. Count(length) \in Counts
  BY <1>1, <1>2 DEF Count, Counts
<1>4. air' \in Seq(Lens)
  <2>1. CASE air = <<>>
    BY <1>1, <2>1 DEF rfCountSimilar
  <2>2. CASE air # <<>> /\ length <= MaxCount
    <3>1. air' = Front(air)
      BY <1>1, <1>2, <2>2 DEF rfCountSimilar
    <3>2. Front(air) \in Seq(Lens)
      BY <1>1, <2>2, FrontPlaces
    <3>3. QED
      BY <3>1, <3>2
  <2>3. CASE air # <<>> /\ length > MaxCount
    <3>1. air' = Append(Front(air), {length - MaxCount})
      BY <1>1, <1>2, <2>3 DEF rfCountSimilar
    <3>2. Front(air) \in Seq(Lens)
      BY <1>1, <2>3, FrontPlaces
    <3>3. {length - MaxCount} \in Lens
      BY <1>1, <1>2, <2>3 DEF Lens
    <3>4. QED
      BY <3>1, <3>2, <3>3
  <2>4. QED
    BY <1>1, <1>2, <2>1, <2>2, <2>3
<1>5. QED
  BY <1>2, <1>3, <1>4

LEMMA BlockInitInv == BlockInit => BlockInv
<1> SUFFICES ASSUME BlockInit PROVE BlockInv
  OBVIOUS
<1>1. ParseTypes
  BY DEF BlockInit, Idle, ParseTypes, BitPlaces, CountsOf
<1>2. CollectInv /\ RoomInv /\ HeardInv
  BY DEF BlockInit, Idle, CollectInv, RoomInv, HeardInv
<1>3. QED
  BY <1>1, <1>2 DEF BlockInv

LEMMA CallKeeps ==
  ASSUME BlockInv, NEW d \in Decoders, Call(d), air' \in Seq(Lens)
  PROVE  BlockInv'
<1>1. parse.at = "idle" /\ digits = <<>> /\ reported = Nothing
  BY DEF BlockInv, ParseTypes, Call
<1>2. /\ parse' = [decoder |-> d, counts |-> <<>>, read |-> 0,
                   data |-> Collected(d, <<>>),
                   at |-> IF d \in {"everflourish", "fineoffset"} THEN "digit"
                          ELSE "skip"]
      /\ digits' = <<>> /\ reported' = Nothing
  BY <1>1, CollectedEmpty DEF Call
<1>3. Len(<<>>) = 0 /\ <<>> \in Seq(Digits) /\ <<>> \in Seq(Counts)
      /\ <<>> \in Seq(Bit) /\ 0 < DigitsOf(d) /\ 0 < CountsOf(d)
  BY DigitsOfType DEF CountsOf
<1>4. ParseTypes'
  <2>1. /\ parse'.decoder = d /\ parse'.at \in {"skip", "digit"}
        /\ parse'.counts = <<>> /\ parse'.read = 0
        /\ parse'.data = Collected(d, <<>>)
    BY <1>2
  <2>2. parse' = [decoder |-> parse'.decoder, at |-> parse'.at,
                  counts |-> parse'.counts, read |-> parse'.read,
                  data |-> parse'.data]
    BY <1>2
  <2>3. QED
    BY <1>2, <1>3, <2>1, <2>2 DEF ParseTypes, BitPlaces
<1>5. CollectInv'
  BY <1>2, <1>3 DEF CollectInv
<1>6. RoomInv'
  <2>1. Len(<<>>) <= DigitsOf(d)
    BY <1>3, DigitsOfType
  <2>2. /\ d = "pt2262" => Collected(d, <<>>) \in 0 .. power[Pt2262Digits] - 1
        /\ d = "selflearning" => Collected(d, <<>>) \subseteq 0 .. SignalLength
    BY <1>3, <2>1, CollectedRoom
  <2>3. parse'.decoder = d /\ parse'.data = Collected(d, <<>>)
    BY <1>2
  <2>4. QED
    BY <2>2, <2>3 DEF RoomInv
<1>7. HeardInv'
  BY <1>2 DEF HeardInv
<1>8. QED
  BY <1>4, <1>5, <1>6, <1>7 DEF BlockInv

LEMMA CommandAir ==
  ASSUME NEW c, NEW silence \in Silences
  PROVE  /\ << {silence} >> \o KeyedCommand(c) \in Seq(Lens)
         /\ silence \in Nat /\ silence > 9
<1>1. silence \in Nat /\ silence > 9
  BY CommandAssumption
<1>2. {silence} \in Lens
  BY <1>1 DEF Lens
<1>3. << {silence} >> \in Seq(Lens) /\ KeyedCommand(c) \in Seq(Lens)
  BY <1>2, KeyedPlaces
<1>4. QED
  BY <1>1, <1>3

LEMMA SkipLastKeeps ==
  ASSUME BlockInv, SkipLast
  PROVE  BlockInv'
<1>1. parse.at = "skip" /\ parse.decoder \in Decoders
  BY DEF BlockInv, ParseTypes, SkipLast
<1>2. air' \in Seq(Lens)
  BY <1>1, ReadTypes DEF BlockInv, SkipLast
<1>3. /\ parse' = [decoder |-> parse.decoder, at |-> "digit",
                   counts |-> parse.counts, read |-> parse.read,
                   data |-> parse.data]
      /\ UNCHANGED <<digits, reported>>
  BY DEF BlockInv, ParseTypes, SkipLast
<1>4. ParseTypes'
  BY <1>1, <1>2, <1>3 DEF BlockInv, ParseTypes, BitPlaces
<1>5. CollectInv' /\ RoomInv' /\ HeardInv'
  BY <1>1, <1>3 DEF BlockInv, CollectInv, RoomInv, HeardInv
<1>6. QED
  BY <1>4, <1>5 DEF BlockInv

\* What is true of a run that is read.
LEMMA ReadStep ==
  ASSUME BlockInv, NEW length \in Lengths, Read(length)
  PROVE  /\ parse.at = "digit" /\ parse.decoder \in Decoders
         /\ length \in Nat /\ Count(length) \in Counts /\ air' \in Seq(Lens)
         /\ Counted(length) \in Seq(Counts)
         /\ Len(Counted(length)) = Len(parse.counts) + 1
         /\ Len(parse.counts) \in Nat
<1>1. parse.at = "digit" /\ parse.decoder \in Decoders
      /\ parse.counts \in Seq(Counts)
  BY DEF BlockInv, ParseTypes, Read
<1>2. length \in Nat /\ Count(length) \in Counts /\ air' \in Seq(Lens)
  BY <1>1, ReadTypes DEF BlockInv, Read
<1>3. QED
  BY <1>1, <1>2 DEF Counted

LEMMA InDigitKeeps ==
  ASSUME BlockInv, NEW length \in Lengths, InDigit(length)
  PROVE  BlockInv'
<1>1. Read(length)
  BY DEF InDigit
<1>2. /\ parse' = [decoder |-> parse.decoder, at |-> parse.at,
                   counts |-> Counted(length), read |-> parse.read,
                   data |-> parse.data]
      /\ UNCHANGED <<digits, reported>>
  BY DEF BlockInv, ParseTypes, InDigit
<1>3. Len(Counted(length)) < CountsOf(parse.decoder)
  <2>1. Len(Counted(length)) # CountsOf(parse.decoder)
    BY DEF InDigit, IsDigit, CountsOf
  <2>2. Len(parse.counts) < CountsOf(parse.decoder) /\ CountsOf(parse.decoder) \in Nat
    BY DEF BlockInv, ParseTypes, CountsOf
  <2>3. QED
    BY <1>1, <2>1, <2>2, ReadStep
<1>4. ParseTypes'
  BY <1>1, <1>2, <1>3, ReadStep DEF BlockInv, ParseTypes
<1>5. CollectInv' /\ RoomInv' /\ HeardInv'
  BY <1>2 DEF BlockInv, CollectInv, RoomInv, HeardInv
<1>6. QED
  BY <1>4, <1>5 DEF BlockInv

\* The end of a call that reports what the digits mean.
LEMMA EndsKeeps ==
  ASSUME BlockInv, parse.at = "digit", NEW report, Ends(report),
         air' \in Seq(Lens), digits' \in Seq(Digits),
         parse.decoder # "pt2262" => digits' \in Seq(Bit),
         report = Heard(parse.decoder, digits'),
         Len(digits') <= DigitsOf(parse.decoder)
  PROVE  BlockInv'
<1>1. /\ parse' = [decoder |-> parse.decoder, at |-> "over",
                   counts |-> <<>>, read |-> parse.read, data |-> parse.data]
      /\ reported' = report /\ parse.decoder \in Decoders
  BY DEF BlockInv, ParseTypes, Ends
<1>2. <<>> \in Seq(Counts) /\ Len(<<>>) = 0 /\ 0 < CountsOf(parse.decoder)
  BY DEF CountsOf
<1>3. ParseTypes'
  BY <1>1, <1>2 DEF ParseTypes, BitPlaces
<1>4. CollectInv' /\ RoomInv' /\ HeardInv'
  BY <1>1 DEF BlockInv, CollectInv, RoomInv, HeardInv
<1>5. QED
  BY <1>3, <1>4 DEF BlockInv

LEMMA NoDigitKeeps ==
  ASSUME BlockInv, NEW length \in Lengths, NoDigit(length)
  PROVE  BlockInv'
<1> DEFINE d == parse.decoder
           report == IF d = "selflearning" /\ parse.read >= SignalLength
                       THEN Report(d, parse.data) ELSE Nothing
<1>1. Read(length) /\ digits' = digits /\ Ends(report)
  BY DEF NoDigit
<1>2. /\ parse.at = "digit" /\ d \in Decoders /\ air' \in Seq(Lens)
      /\ digits \in Seq(Digits) /\ (d # "pt2262" => digits \in Seq(Bit))
  BY <1>1, ReadStep DEF BlockInv, ParseTypes
<1>3. parse.read = Len(digits) /\ Len(digits) < DigitsOf(d)
      /\ parse.data = Collected(d, digits)
  BY <1>2 DEF BlockInv, CollectInv
<1>4. report = Heard(d, digits) /\ Len(digits) <= DigitsOf(d)
  <2>1. Len(digits) \in Nat /\ DigitsOf(d) \in Nat
    BY <1>2, DigitsOfType
  <2>2. QED
    BY <1>2, <1>3, <2>1, ShortMeans
<1> HIDE DEF report
<1>5. QED
  BY <1>1, <1>2, <1>4, EndsKeeps

LEMMA TakeDigitKeeps ==
  ASSUME BlockInv, NEW length \in Lengths, TakeDigit(length)
  PROVE  BlockInv'
<1> DEFINE d == parse.decoder
           x == DigitWith(length)
           data == Stored(d, parse.data, parse.read, x)
           s == Append(digits, x)
<1>1. Read(length) /\ digits' = s /\ x # Invalid
  BY DEF TakeDigit
<1>2. /\ parse.at = "digit" /\ d \in Decoders /\ air' \in Seq(Lens)
      /\ digits \in Seq(Digits) /\ (d # "pt2262" => digits \in Seq(Bit))
  BY <1>1, ReadStep DEF BlockInv, ParseTypes
<1>3. parse.read = Len(digits) /\ Len(digits) < DigitsOf(d)
      /\ parse.data = Collected(d, digits)
  BY <1>2 DEF BlockInv, CollectInv
<1>4. x \in Digits /\ (d # "pt2262" => x \in Bit)
  BY <1>1, <1>2, DigitTypes DEF DigitWith
<1>5. data = Collected(d, s)
  BY <1>2, <1>3, <1>4, CollectedAppend
<1>6. /\ s \in Seq(Digits) /\ (d # "pt2262" => s \in Seq(Bit))
      /\ Len(s) = parse.read + 1 /\ Len(digits) \in Nat /\ DigitsOf(d) \in Nat
  BY <1>2, <1>3, <1>4, DigitsOfType
<1>7. CASE parse.read + 1 < DigitsOf(d)
  <2>1. /\ parse' = [decoder |-> d, at |-> parse.at, counts |-> <<>>,
                     read |-> parse.read + 1, data |-> data]
        /\ reported' = reported
    BY <1>7 DEF BlockInv, ParseTypes, TakeDigit
  <2>2. <<>> \in Seq(Counts) /\ Len(<<>>) = 0 /\ 0 < CountsOf(d)
    BY DEF CountsOf
  <2> HIDE DEF data, s, x
  <2>3. ParseTypes'
    BY <1>1, <1>2, <1>6, <2>1, <2>2 DEF BlockInv, ParseTypes, BitPlaces
  <2>4. CollectInv'
    BY <1>1, <1>5, <1>6, <1>7, <2>1 DEF CollectInv
  <2>5. RoomInv'
    <3>1. Len(s) <= DigitsOf(d)
      BY <1>3, <1>6
    <3>2. QED
      BY <1>2, <1>5, <1>6, <2>1, <3>1, CollectedRoom DEF RoomInv
  <2>6. HeardInv'
    BY <1>2, <2>1 DEF HeardInv
  <2>7. QED
    BY <2>3, <2>4, <2>5, <2>6 DEF BlockInv
<1>8. CASE ~ (parse.read + 1 < DigitsOf(d))
  <2> DEFINE report == IF Accepted(d, data) THEN Report(d, data) ELSE Nothing
  <2>1. Ends(report)
    BY <1>8 DEF TakeDigit
  <2> HIDE DEF data, s, x
  <2>2. Len(s) = DigitsOf(d)
    BY <1>3, <1>6, <1>8
  <2>3. report = Heard(d, s) /\ Len(s) <= DigitsOf(d)
    BY <1>2, <1>5, <1>6, <2>2, FullMeans
  <2> HIDE DEF report
  <2>4. QED
    BY <1>1, <1>2, <1>6, <2>1, <2>3, EndsKeeps
<1>9. QED
  BY <1>7, <1>8

LEMMA ReturnKeeps ==
  ASSUME BlockInv, Return
  PROVE  BlockInv'
<1>1. /\ parse' = Idle /\ air' = <<>> /\ digits' = <<>> /\ reported' = Nothing
  BY DEF Return
<1>2. ParseTypes'
  BY <1>1 DEF Idle, ParseTypes, BitPlaces, CountsOf
<1>3. CollectInv' /\ RoomInv' /\ HeardInv'
  BY <1>1 DEF Idle, CollectInv, RoomInv, HeardInv
<1>4. QED
  BY <1>2, <1>3 DEF BlockInv

LEMMA BlockStep == BlockInv /\ [BlockNext]_blockVars => BlockInv'
<1> SUFFICES ASSUME BlockInv, [BlockNext]_blockVars PROVE BlockInv'
  OBVIOUS
<1>1. CASE \E d \in Decoders : CallOnAny(d)
  <2>1. PICK d \in Decoders : CallOnAny(d)
    BY <1>1
  <2>2. Call(d) /\ air' \in Seq(Lens)
    BY <2>1 DEF CallOnAny
  <2>3. QED
    BY <2>2, CallKeeps
<1>2. CASE \E d \in Decoders, c \in Commands, silence \in Silences :
             CallOnCommand(d, c, silence)
  <2>1. PICK d \in Decoders, c \in Commands, silence \in Silences :
               CallOnCommand(d, c, silence)
    BY <1>2
  <2>2. Call(d) /\ air' \in Seq(Lens)
    BY <2>1, CommandAir DEF CallOnCommand
  <2>3. QED
    BY <2>2, CallKeeps
<1>3. CASE SkipLast
  BY <1>3, SkipLastKeeps
<1>4. CASE Return
  BY <1>4, ReturnKeeps
<1>5. CASE \E length \in Lengths :
             InDigit(length) \/ NoDigit(length) \/ TakeDigit(length)
  BY <1>5, InDigitKeeps, NoDigitKeeps, TakeDigitKeeps
<1>6. CASE UNCHANGED blockVars
  BY <1>6 DEF blockVars, BlockInv, ParseTypes, CollectInv, RoomInv, HeardInv
<1>7. QED
  BY <1>1, <1>2, <1>3, <1>4, <1>5, <1>6 DEF BlockNext

LEMMA BlockAlways == BlockSpec => []BlockInv
  BY BlockInitInv, BlockStep, PTL DEF BlockSpec

\* The checksum that is calculated is the one that is meant.
LEMMA HeardMeans ==
  ASSUME NEW d \in Decoders, NEW s \in Seq(Digits), Len(s) <= DigitsOf(d)
  PROVE  Heard(d, s) = Meaning(d, s)
<1>1. CASE d = "fineoffset"
  <2>1. DigitsOf(d) = 5 * ByteBits /\ DigitsOf(d) \in Nat /\ Len(s) \in Nat
    BY <1>1, DigitsOfType DEF DigitsOf
  <2>2. CASE Len(s) = DigitsOf(d)
    <3>1. Ones(s) \in SUBSET (0 .. 5 * ByteBits - 1)
      BY <2>1, <2>2, OnesPlaces
    <3>2. CrcFits(Ones(s)) <=> Ones(s) \in Multiples
      BY <3>1, CrcMultiples
    <3>3. ~ (Len(s) < DigitsOf(d))
      BY <2>1, <2>2
    <3>4. QED
      BY <1>1, <2>2, <3>2, <3>3 DEF Heard, Meaning
  <2>3. CASE Len(s) < DigitsOf(d)
    BY <1>1, <2>1, <2>3 DEF Heard, Meaning
  <2>4. QED
    BY <2>1, <2>2, <2>3
<1>2. CASE d # "fineoffset"
  BY <1>2 DEF Heard
<1>3. QED
  BY <1>1, <1>2

\* The decoders stay within their places and their types, and what they store
\* has room: 32 bits, and the twelve digits to base 3.
THEOREM BlockTypes == BlockSpec => []BlockTypeOK
<1>1. BlockInv => BlockTypeOK
  <2> SUFFICES ASSUME BlockInv PROVE BlockTypeOK
    OBVIOUS
  <2>1. Len(parse.counts) < 4
    <3>1. Len(parse.counts) \in Nat /\ Len(parse.counts) < CountsOf(parse.decoder)
      BY DEF BlockInv, ParseTypes
    <3>2. CountsOf(parse.decoder) = 2 \/ CountsOf(parse.decoder) = 4
      BY DEF CountsOf
    <3>3. QED
      BY <3>1, <3>2
  <2>2. QED
    BY <2>1 DEF BlockInv, ParseTypes, RoomInv, BitPlaces, BlockTypeOK
<1>2. QED
  BY <1>1, BlockAlways, PTL

\* Every block decoder reports exactly what the digits it has read mean: every
\* bit is where it belongs, of up to 36 digits of selflearning the last 32, and a
\* burst whose checksum, complement or preamble is wrong in any bit is not
\* reported (arctech.c:78-123, x10.c:44-50, mandolyn.c:49-60,
\* fineoffset.c:54-61).
THEOREM DecodersHear == BlockSpec => []BlockHears
<1>1. BlockInv => BlockHears
  <2> SUFFICES ASSUME BlockInv, parse.at = "over"
               PROVE  reported = Meaning(parse.decoder, digits)
    BY DEF BlockHears
  <2>1. /\ parse.decoder \in Decoders /\ digits \in Seq(Digits)
        /\ Len(digits) <= DigitsOf(parse.decoder)
        /\ reported = Heard(parse.decoder, digits)
    BY DEF BlockInv, ParseTypes, HeardInv
  <2>2. QED
    BY <2>1, HeardMeans
<1>2. QED
  BY <1>1, BlockAlways, PTL

-----------------------------------------------------------------------------
(* The runs of a command, in the order in which they are read: backwards.  *)

Signal(c, silence) == << {silence} >> \o KeyedCommand(c)
Runs == 4 * (SignalLength + 1) + 4
Nth(c, silence, j) == Signal(c, silence)[(Runs + 1) - j]

LEMMA PulseLengths ==
  /\ Short \subseteq 0 .. 9 /\ Long \subseteq 25 .. MaxCount
  /\ Pulses["start"] \subseteq 25 .. MaxCount
  /\ MaxCount \in Nat /\ MaxCount >= 25
  BY CommandAssumption, BlockSizes DEF Short, Long

LEMMA RunsSize ==
  /\ SignalLength \in Nat /\ SignalLength >= 1 /\ Runs \in Nat
  /\ Runs = 4 * SignalLength + 8
  BY BlockSizes DEF Runs

LEMMA SignalPlaces ==
  ASSUME NEW c, NEW silence \in Silences
  PROVE  /\ Signal(c, silence) \in Seq(Lens) /\ Len(Signal(c, silence)) = Runs
         /\ Signal(c, silence)[1] = {silence}
         /\ \A x \in 2 .. Runs : Signal(c, silence)[x] = KeyedCommand(c)[x - 1]
<1> DEFINE k == KeyedCommand(c)
           one == << {silence} >>
<1>1. k \in Seq(Lens) /\ Len(k) = 4 * (SignalLength + 1) + 3
  BY KeyedPlaces
<1>2. one \in Seq(Lens) /\ Len(one) = 1 /\ one[1] = {silence}
  BY CommandAir DEF Lens
<1>3. Runs = 1 + (4 * (SignalLength + 1) + 3) /\ Runs \in Nat
      /\ 4 * (SignalLength + 1) + 3 \in Nat
  BY RunsSize
<1> HIDE DEF k, one
<1>4. one \o k \in Seq(Lens) /\ Len(one \o k) = Runs
      /\ \A x \in 1 .. Runs : (one \o k)[x] = IF x <= 1 THEN one[x] ELSE k[x - 1]
  <2> DEFINE n == 4 * (SignalLength + 1) + 3
  <2>1. IsConcat(one \o k, one, k, Lens, 1, n)
    <3> HIDE DEF n
    <3>1. Len(one) = 1 /\ Len(k) = n /\ n \in Nat
      BY <1>1, <1>2, <1>3 DEF n
    <3>2. QED
      BY <1>1, <1>2, <3>1, ConcatPlaces
  <2>2. Runs = 1 + n
    BY <1>3
  <2> HIDE DEF n
  <2>3. Len(one) = 1
    BY <1>2
  <2>4. QED
    BY <1>1, <1>2, <1>3, <2>1, <2>2 DEF IsConcat
<1>5. 1 \in 1 .. Runs
  BY <1>3
<1>6. (one \o k)[1] = {silence}
  BY <1>2, <1>4, <1>5
<1>7. ASSUME NEW x \in 2 .. Runs PROVE (one \o k)[x] = k[x - 1]
  BY <1>3, <1>4
<1>8. QED
  BY <1>4, <1>6, <1>7 DEF Signal, one, k

\* Read backwards, a bit that is 1 is short, short, long and short, and one that
\* is 0 long, short, short and short.
LEMMA NthBit ==
  ASSUME NEW c, NEW silence \in Silences, NEW p \in 0 .. SignalLength
  PROVE  /\ Nth(c, silence, 4 * p + 2) = IF p \in CommandValue(c) THEN Short ELSE Long
         /\ Nth(c, silence, 4 * p + 3) = Short
         /\ Nth(c, silence, 4 * p + 4) = IF p \in CommandValue(c) THEN Long ELSE Short
         /\ Nth(c, silence, 4 * p + 5) = Short
<1> DEFINE one == p \in CommandValue(c)
           s == Signal(c, silence)
           base == 2 + 4 * (SignalLength - p)
<1>1. /\ SignalLength \in Nat /\ Runs = 4 * SignalLength + 8 /\ p \in Nat
      /\ p <= SignalLength
  BY RunsSize
<1>2. \A i \in 1 .. 4 : KeyedCommand(c)[base + i] = Keyed(one)[i]
  BY KeyedPlaces
<1>3. \A x \in 2 .. Runs : s[x] = KeyedCommand(c)[x - 1]
  BY SignalPlaces
<1>4. ASSUME NEW i \in 1 .. 4 PROVE Nth(c, silence, 4 * p + (6 - i)) = Keyed(one)[i]
  <2> DEFINE x == (Runs + 1) - (4 * p + (6 - i))
  <2>1. x \in 2 .. Runs /\ x - 1 = base + i
    BY <1>1
  <2>2. Nth(c, silence, 4 * p + (6 - i)) = s[x]
    BY DEF Nth
  <2> HIDE DEF x, base, s
  <2>3. QED
    BY <1>2, <1>3, <2>1, <2>2
<1>5. 6 - 4 = 2 /\ 6 - 3 = 3 /\ 6 - 2 = 4 /\ 6 - 1 = 5
  OBVIOUS
<1>6. /\ Keyed(one)[4] = IF one THEN Short ELSE Long
      /\ Keyed(one)[3] = Short
      /\ Keyed(one)[2] = IF one THEN Long ELSE Short
      /\ Keyed(one)[1] = Short
  BY DEF Keyed, sendOne, sendZero
<1> HIDE DEF one
<1>7. /\ Nth(c, silence, 4 * p + 2) = Keyed(one)[4]
      /\ Nth(c, silence, 4 * p + 3) = Keyed(one)[3]
      /\ Nth(c, silence, 4 * p + 4) = Keyed(one)[2]
      /\ Nth(c, silence, 4 * p + 5) = Keyed(one)[1]
  BY <1>4, <1>5
<1>8. QED
  BY <1>6, <1>7 DEF one

LEMMA NthEnds ==
  ASSUME NEW c, NEW silence \in Silences
  PROVE  /\ Nth(c, silence, 1) = Short
         /\ Nth(c, silence, Runs - 2) = Pulses["start"]
         /\ Nth(c, silence, Runs - 1) = Short
         /\ Nth(c, silence, Runs) = {silence}
<1> DEFINE s == Signal(c, silence)
           k == KeyedCommand(c)
<1>1. /\ SignalLength \in Nat /\ Runs = 4 * SignalLength + 8
  BY RunsSize
<1>2. \A x \in 2 .. Runs : s[x] = k[x - 1]
  BY SignalPlaces
<1>3. s[1] = {silence}
  BY SignalPlaces
<1>4. /\ k[1] = Short /\ k[2] = Pulses["start"]
      /\ k[4 * (SignalLength + 1) + 3] = Short
  BY KeyedPlaces
<1>5. /\ (Runs + 1) - 1 = Runs /\ (Runs + 1) - (Runs - 2) = 3
      /\ (Runs + 1) - (Runs - 1) = 2 /\ (Runs + 1) - Runs = 1
      /\ Runs - 1 = 4 * (SignalLength + 1) + 3 /\ 3 - 1 = 2 /\ 2 - 1 = 1
      /\ 2 \in 2 .. Runs /\ 3 \in 2 .. Runs /\ Runs \in 2 .. Runs
  BY <1>1
<1>6. /\ Nth(c, silence, 1) = s[Runs] /\ Nth(c, silence, Runs - 2) = s[3]
      /\ Nth(c, silence, Runs - 1) = s[2] /\ Nth(c, silence, Runs) = s[1]
  BY <1>5 DEF Nth
<1> HIDE DEF s, k
<1>7. s[Runs] = k[Runs - 1] /\ s[3] = k[2] /\ s[2] = k[1]
  BY <1>2, <1>5
<1>8. QED
  BY <1>3, <1>4, <1>5, <1>6, <1>7

\* All but the silence are counted at once.
LEMMA NthCounts ==
  ASSUME NEW c, NEW silence \in Silences, NEW j \in 1 .. Runs - 1
  PROVE  Nth(c, silence, j) \subseteq 0 .. MaxCount
<1>1. SignalLength \in Nat /\ Runs = 4 * SignalLength + 8 /\ j \in Nat
  BY RunsSize
<1>2. Short \subseteq 0 .. MaxCount /\ Long \subseteq 0 .. MaxCount
      /\ Pulses["start"] \subseteq 0 .. MaxCount
  BY PulseLengths
<1>3. CASE j = 1
  BY <1>2, <1>3, NthEnds
<1>4. CASE j = Runs - 2
  <2>1. Nth(c, silence, Runs - 2) = Pulses["start"]
    BY NthEnds
  <2>2. QED
    BY <1>2, <1>4, <2>1, Zenon
<1>7. CASE j = Runs - 1
  <2>1. Nth(c, silence, Runs - 1) = Short
    BY NthEnds
  <2>2. QED
    BY <1>2, <1>7, <2>1, Zenon
<1>5. CASE j \in 2 .. 4 * SignalLength + 5
  <2>1. PICK p \in Int, r \in 0 .. 3 : j - 2 = 4 * p + r
    <3>1. ASSUME NEW z \in Int, NEW d \in Nat \ {0}
          PROVE  \E q \in Int, r \in 0 .. d - 1 : z = d * q + r
      BY DivMod
    <3>2. j - 2 \in Int /\ 4 \in Nat \ {0} /\ 4 - 1 = 3
      BY <1>1
    <3>3. \E q \in Int, r \in 0 .. 4 - 1 : j - 2 = 4 * q + r
      BY <3>1, <3>2
    <3>4. QED
      BY <3>2, <3>3
  <2>2. /\ p \in 0 .. SignalLength
        /\ \/ j = 4 * p + 2 \/ j = 4 * p + 3 \/ j = 4 * p + 4 \/ j = 4 * p + 5
    BY <1>1, <1>5, <2>1
  <2>3. \A i \in {2, 3, 4, 5} : Nth(c, silence, 4 * p + i) \subseteq 0 .. MaxCount
    <3>1. /\ Nth(c, silence, 4 * p + 2) \in {Short, Long}
          /\ Nth(c, silence, 4 * p + 3) = Short
          /\ Nth(c, silence, 4 * p + 4) \in {Short, Long}
          /\ Nth(c, silence, 4 * p + 5) = Short
      BY <2>2, NthBit
    <3>2. QED
      BY <1>2, <3>1
  <2>4. QED
    BY <2>2, <2>3
<1>6. QED
  BY <1>1, <1>3, <1>4, <1>5, <1>7

-----------------------------------------------------------------------------
(* The digits that the decoders make of a command.                         *)

LEMMA FitsFour ==
  ASSUME NEW b, NEW s1, NEW s2, NEW s3, NEW s4
  PROVE  Fits(b, <<s1, s2, s3, s4>>) <=>
           b[1] \in s1 /\ b[2] \in s2 /\ b[3] \in s3 /\ b[4] \in s4
  BY DEF Fits

LEMMA FitsTwo ==
  ASSUME NEW b, NEW s1, NEW s2
  PROVE  Fits(b, <<s1, s2>>) <=> b[1] \in s1 /\ b[2] \in s2
  BY DEF Fits

\* How many runs a decoder reads for a digit of a command, and how many it has
\* read before a digit.
StepOf(d) == IF d = "mandolyn" THEN 1 ELSE CountsOf(d)
Skips(d) == IF d \in {"everflourish", "fineoffset"} THEN 0 ELSE 1
Start(d, m) == Skips(d) + StepOf(d) * m

\* How many digits of a command a decoder reads, and which ones are 1: for X10
\* every bit is two digits, the other one and the bit.
Regular(d) ==
  CASE d = "selflearning" -> SignalLength + 1
    [] d \in {"everflourish", "x10"} -> DigitsOf(d)
    [] d \in {"codeswitch", "pt2262"} -> 0
    [] OTHER -> 1

X10One(v, m) ==
  \E p \in 0 .. SignalLength :
    (m = 2 * p /\ p \notin v) \/ (m = 2 * p + 1 /\ p \in v)

KeyedOne(d, v, m) ==
  CASE d = "x10" -> X10One(v, m)
    [] d = "fineoffset" -> TRUE
    [] d = "mandolyn" -> FALSE
    [] OTHER -> m \in v

LEMMA RegularSize ==
  /\ Regular("selflearning") = SignalLength + 1
  /\ Regular("everflourish") = EverflourishDigits
  /\ EverflourishDigits \in 1 .. SignalLength + 1
  /\ Regular("x10") = 4 * ByteBits /\ 2 * ByteBits \in 1 .. SignalLength + 1
  /\ Regular("codeswitch") = 0 /\ Regular("pt2262") = 0
  /\ Regular("fineoffset") = 1 /\ Regular("mandolyn") = 1
  BY CommandAssumption DEF Regular, DigitsOf

LEMMA RegularType == \A d \in Decoders : Regular(d) \in Nat
<1>1. ASSUME NEW d \in Decoders PROVE Regular(d) \in Nat
  BY RegularSize, BlockSizes, RunsSize DEF Decoders
<1>2. QED
  BY <1>1

\* The runs of a digit.
Hears(c, silence, start, b) ==
  \A i \in 1 .. Len(b) : b[i] \in Nth(c, silence, start + i)

LEMMA SelflearningDigit ==
  ASSUME NEW c, NEW silence \in Silences, NEW m \in 0 .. SignalLength,
         NEW b \in Seq(Counts), Len(b) = 4, Hears(c, silence, 1 + 4 * m, b)
  PROVE  Digit("selflearning", b) = IF m \in CommandValue(c) THEN 1 ELSE 0
<1>1. /\ (1 + 4 * m) + 1 = 4 * m + 2 /\ (1 + 4 * m) + 2 = 4 * m + 3
      /\ (1 + 4 * m) + 3 = 4 * m + 4 /\ (1 + 4 * m) + 4 = 4 * m + 5
  BY RunsSize
<1>2. /\ b[1] \in Nth(c, silence, 4 * m + 2) /\ b[2] \in Nth(c, silence, 4 * m + 3)
      /\ b[3] \in Nth(c, silence, 4 * m + 4) /\ b[4] \in Nth(c, silence, 4 * m + 5)
  BY <1>1 DEF Hears
<1>3. /\ b[1] \in IF m \in CommandValue(c) THEN Short ELSE Long
      /\ b[3] \in IF m \in CommandValue(c) THEN Long ELSE Short
      /\ b[2] \in Short /\ b[4] \in Short
  BY <1>2, NthBit
<1> DEFINE S == 0 .. 9   L == 16 .. MaxCount
<1>4. /\ \A n \in Short : n \in S /\ n \notin L
      /\ \A n \in Long : n \in L /\ n \notin S
  BY PulseLengths
<1>5. Digit("selflearning", b) = CASE Fits(b, <<L, S, S, S>>) -> 0
                                   [] Fits(b, <<S, S, L, S>>) -> 1
                                   [] OTHER -> Invalid
  BY DEF Digit, arctechSelflearningBit
<1> HIDE DEF S, L
<1>6. /\ Fits(b, <<L, S, S, S>>) <=>
           b[1] \in L /\ b[2] \in S /\ b[3] \in S /\ b[4] \in S
      /\ Fits(b, <<S, S, L, S>>) <=>
           b[1] \in S /\ b[2] \in S /\ b[3] \in L /\ b[4] \in S
  BY FitsFour
<1>7. CASE m \in CommandValue(c)
  <2>1. /\ b[1] \notin L /\ b[1] \in S /\ b[2] \in S /\ b[3] \in L /\ b[4] \in S
    BY <1>3, <1>4, <1>7
  <2>2. QED
    BY <1>5, <1>6, <1>7, <2>1
<1>8. CASE m \notin CommandValue(c)
  <2>1. /\ b[1] \in L /\ b[1] \notin S /\ b[2] \in S /\ b[3] \in S /\ b[4] \in S
    BY <1>3, <1>4, <1>8
  <2>2. QED
    BY <1>5, <1>6, <1>8, <2>1
<1>9. QED
  BY <1>7, <1>8

LEMMA EverflourishDigit ==
  ASSUME NEW c, NEW silence \in Silences, NEW m \in 0 .. SignalLength,
         NEW b \in Seq(Counts), Len(b) = 4, Hears(c, silence, 4 * m, b)
  PROVE  Digit("everflourish", b) = IF m \in CommandValue(c) THEN 1 ELSE 0
<1>1. /\ b[1] \in Nth(c, silence, 4 * m + 1) /\ b[2] \in Nth(c, silence, 4 * m + 2)
      /\ b[3] \in Nth(c, silence, 4 * m + 3) /\ b[4] \in Nth(c, silence, 4 * m + 4)
  BY DEF Hears
<1>2. Nth(c, silence, 4 * m + 1) = Short
  <2>1. CASE m = 0
    <3>1. 4 * m + 1 = 1
      BY <2>1
    <3>2. QED
      BY <3>1, NthEnds
  <2>2. CASE m # 0
    <3>1. m - 1 \in 0 .. SignalLength /\ 4 * (m - 1) + 5 = 4 * m + 1
      BY <2>2, RunsSize
    <3>2. Nth(c, silence, 4 * (m - 1) + 5) = Short
      BY <3>1, NthBit
    <3>3. QED
      BY <3>1, <3>2
  <2>3. QED
    BY <2>1, <2>2
<1>3. /\ b[1] \in Short /\ b[3] \in Short
      /\ b[2] \in IF m \in CommandValue(c) THEN Short ELSE Long
      /\ b[4] \in IF m \in CommandValue(c) THEN Long ELSE Short
  BY <1>1, <1>2, NthBit
<1> DEFINE S == 0 .. 12   L == 17 .. MaxCount
<1>4. /\ \A n \in Short : n \in S /\ n \notin L
      /\ \A n \in Long : n \in L /\ n \notin S
  BY PulseLengths
<1>5. Digit("everflourish", b) = CASE Fits(b, <<S, S, S, L>>) -> 1
                                   [] Fits(b, <<S, L, S, S>>) -> 0
                                   [] OTHER -> Invalid
  BY DEF Digit, everflourishBit
<1> HIDE DEF S, L
<1>6. QED
  BY <1>3, <1>4, <1>5, FitsFour

LEMMA X10Digit ==
  ASSUME NEW c, NEW silence \in Silences, NEW p \in 0 .. SignalLength,
         NEW m \in {2 * p, 2 * p + 1},
         NEW b \in Seq(Counts), Len(b) = 2, Hears(c, silence, 1 + 2 * m, b)
  PROVE  Digit("x10", b) = IF (m = 2 * p /\ p \notin CommandValue(c))
                                \/ (m = 2 * p + 1 /\ p \in CommandValue(c))
                             THEN 1 ELSE 0
<1> DEFINE v == CommandValue(c)
           S == 0 .. 12   L == 25 .. MaxCount
<1>1. /\ \A n \in Short : n \in S /\ n \notin L
      /\ \A n \in Long : n \in L /\ n \notin S
  BY PulseLengths
<1>2. Digit("x10", b) = CASE Fits(b, <<S, S>>) -> 0
                          [] Fits(b, <<L, S>>) -> 1
                          [] OTHER -> Invalid
  BY DEF Digit, x10Bit
<1>3. /\ b[1] \in Nth(c, silence, (1 + 2 * m) + 1)
      /\ b[2] \in Nth(c, silence, (1 + 2 * m) + 2)
  BY DEF Hears
<1> HIDE DEF S, L, v
<1>4. CASE m = 2 * p
  <2>1. (1 + 2 * m) + 1 = 4 * p + 2 /\ (1 + 2 * m) + 2 = 4 * p + 3 /\ m # 2 * p + 1
    BY <1>4, RunsSize
  <2>2. b[1] \in Nth(c, silence, 4 * p + 2) /\ b[2] \in Nth(c, silence, 4 * p + 3)
    BY <1>3, <2>1
  <2>4. b[1] \in (IF p \in v THEN Short ELSE Long) /\ b[2] \in Short
    <3>1. Nth(c, silence, 4 * p + 2) = IF p \in v THEN Short ELSE Long
      BY NthBit DEF v
    <3>2. Nth(c, silence, 4 * p + 3) = Short
      BY NthBit
    <3>3. QED
      BY <2>2, <3>1, <3>2
  <2>3. QED
    BY <1>1, <1>2, <1>4, <2>1, <2>4, FitsTwo DEF v
<1>5. CASE m = 2 * p + 1
  <2>1. (1 + 2 * m) + 1 = 4 * p + 4 /\ (1 + 2 * m) + 2 = 4 * p + 5 /\ m # 2 * p
    BY <1>5, RunsSize
  <2>2. b[1] \in Nth(c, silence, 4 * p + 4) /\ b[2] \in Nth(c, silence, 4 * p + 5)
    BY <1>3, <2>1
  <2>4. b[1] \in (IF p \in v THEN Long ELSE Short) /\ b[2] \in Short
    <3>1. Nth(c, silence, 4 * p + 4) = IF p \in v THEN Long ELSE Short
      BY NthBit DEF v
    <3>2. Nth(c, silence, 4 * p + 5) = Short
      BY NthBit
    <3>3. QED
      BY <2>2, <3>1, <3>2
  <2>3. QED
    BY <1>1, <1>2, <1>5, <2>1, <2>4, FitsTwo DEF v
<1>6. QED
  BY <1>4, <1>5

\* What the first two bits read are for the decoders that hear no command.
LEMMA FirstRuns ==
  ASSUME NEW c, NEW silence \in Silences
  PROVE  /\ Nth(c, silence, 1) = Short
         /\ Nth(c, silence, 2) = IF 0 \in CommandValue(c) THEN Short ELSE Long
         /\ Nth(c, silence, 3) = Short
         /\ Nth(c, silence, 4) = IF 0 \in CommandValue(c) THEN Long ELSE Short
         /\ Nth(c, silence, 5) = Short
<1>1. 0 \in 0 .. SignalLength /\ 4 * 0 + 2 = 2 /\ 4 * 0 + 3 = 3 /\ 4 * 0 + 4 = 4
      /\ 4 * 0 + 5 = 5
  BY RunsSize
<1>2. /\ Nth(c, silence, 4 * 0 + 2) = IF 0 \in CommandValue(c) THEN Short ELSE Long
      /\ Nth(c, silence, 4 * 0 + 3) = Short
      /\ Nth(c, silence, 4 * 0 + 4) = IF 0 \in CommandValue(c) THEN Long ELSE Short
      /\ Nth(c, silence, 4 * 0 + 5) = Short
  BY <1>1, NthBit
<1>3. QED
  BY <1>1, <1>2, NthEnds

LEMMA ForeignDigit ==
  ASSUME NEW c, NEW silence \in Silences, NEW d \in {"codeswitch", "pt2262"},
         NEW b \in Seq(Counts), Len(b) = 4, Hears(c, silence, 1, b)
  PROVE  Digit(d, b) = Invalid
<1>1. /\ b[1] \in Nth(c, silence, 2) /\ b[2] \in Nth(c, silence, 3)
      /\ b[3] \in Nth(c, silence, 4) /\ b[4] \in Nth(c, silence, 5)
  BY DEF Hears
<1>2. /\ b[1] \in IF 0 \in CommandValue(c) THEN Short ELSE Long
      /\ b[3] \in IF 0 \in CommandValue(c) THEN Long ELSE Short
      /\ b[2] \in Short /\ b[4] \in Short
  BY <1>1, FirstRuns
<1>3. CASE d = "codeswitch"
  <2> DEFINE S == 0 .. 9   L == 16 .. MaxCount
  <2>1. /\ \A n \in Short : n \notin L
        /\ \A n \in Long : n \notin S
    BY PulseLengths
  <2>2. Digit(d, b) = CASE Fits(b, <<L, S, L, S>>) -> 0
                        [] Fits(b, <<S, L, L, S>>) -> 1
                        [] OTHER -> Invalid
    BY <1>3 DEF Digit, arctechCodeSwitchBit
  <2> HIDE DEF S, L
  <2>3. QED
    BY <1>2, <2>1, <2>2, FitsFour
<1>4. CASE d = "pt2262"
  <2> DEFINE S == 6 .. 14   L == 21 .. 29
  <2>1. /\ \A n \in Short : n \notin L
        /\ \A n \in Long : n \notin S
    BY PulseLengths
  <2>2. Digit(d, b) = CASE Fits(b, <<L, S, L, S>>) -> 0
                        [] Fits(b, <<S, L, S, L>>) -> 1
                        [] Fits(b, <<S, L, L, S>>) -> 2
                        [] OTHER -> Invalid
    BY <1>4 DEF Digit, pt2262Bit
  <2> HIDE DEF S, L
  <2>3. QED
    BY <1>2, <2>1, <2>2, FitsFour
<1>5. QED
  BY <1>3, <1>4

LEMMA FineOffsetDigit ==
  ASSUME NEW c, NEW silence \in Silences, NEW m \in {0, 1},
         m = 1 => 0 \notin CommandValue(c),
         NEW b \in Seq(Counts), Len(b) = 2, Hears(c, silence, 2 * m, b),
         Digit("fineoffset", b) # Invalid
  PROVE  m = 0 /\ 0 \notin CommandValue(c) /\ Digit("fineoffset", b) = 1
<1> DEFINE S == 0 .. 10   L == 14 .. MaxCount
<1>1. /\ \A n \in Short : n \notin L
      /\ \A n \in Long : n \notin S
  BY PulseLengths
<1>2. Digit("fineoffset", b) = CASE Fits(b, <<L, L>>) -> 0
                                 [] Fits(b, <<S, L>>) -> 1
                                 [] OTHER -> Invalid
  BY DEF Digit, fineOffsetBit
<1>3. /\ b[1] \in Nth(c, silence, 2 * m + 1) /\ b[2] \in Nth(c, silence, 2 * m + 2)
  BY DEF Hears
<1> HIDE DEF S, L
<1>4. b[1] \in Short
  <2>1. 2 * m + 1 = 1 \/ 2 * m + 1 = 3
    OBVIOUS
  <2>2. QED
    BY <1>3, <2>1, FirstRuns
<1>5. CASE m = 0
  <2>1. b[2] \in Nth(c, silence, 2)
    BY <1>3, <1>5
  <2>2. b[2] \in IF 0 \in CommandValue(c) THEN Short ELSE Long
    BY <2>1, FirstRuns
  <2>3. QED
    BY <1>1, <1>2, <1>4, <1>5, <2>2, FitsTwo
<1>6. CASE m = 1
  <2>1. b[2] \in Nth(c, silence, 4)
    BY <1>3, <1>6
  <2>2. b[2] \in Short
    BY <1>6, <2>1, FirstRuns
  <2>3. QED
    BY <1>1, <1>2, <2>2, FitsTwo
<1>7. QED
  BY <1>5, <1>6

LEMMA MandolynDigit ==
  ASSUME NEW c, NEW silence \in Silences, NEW m \in {0, 1},
         m = 1 => 0 \notin CommandValue(c),
         NEW b \in Seq(Counts), Len(b) \in {1, 2}, IsDigit("mandolyn", b),
         Hears(c, silence, 1 + m, b), Digit("mandolyn", b) # Invalid
  PROVE  /\ m = 0 /\ 0 \notin CommandValue(c) /\ Digit("mandolyn", b) = 0
         /\ MandolynZero(b[1])
<1> DEFINE S == 10 .. 20
<1>1. \A n \in Short : n \notin S /\ ~ MandolynZero(n)
  BY PulseLengths DEF MandolynZero
<1>2. Digit("mandolyn", b) = CASE MandolynZero(b[1]) -> 0
                               [] ~ MandolynZero(b[1]) /\ Fits(b, <<S, S>>) -> 1
                               [] OTHER -> Invalid
  BY DEF Digit, mandolynBit
<1> HIDE DEF S
<1>3. CASE MandolynZero(b[1])
  <2>1. b[1] \in Nth(c, silence, (1 + m) + 1)
    BY DEF Hears
  <2>2. CASE m = 0
    <3>1. b[1] \in Nth(c, silence, 2)
      BY <2>1, <2>2
    <3>2. 0 \notin CommandValue(c)
      BY <1>1, <1>3, <3>1, FirstRuns
    <3>3. QED
      BY <1>2, <1>3, <2>2, <3>2
  <2>3. CASE m = 1
    <3>1. b[1] \in Nth(c, silence, 3)
      BY <2>1, <2>3
    <3>2. QED
      BY <1>1, <1>3, <3>1, FirstRuns
  <2>4. QED
    BY <2>2, <2>3
<1>4. CASE ~ MandolynZero(b[1])
  <2>1. Len(b) = 2
    BY <1>4 DEF IsDigit
  <2>2. b[2] \in Nth(c, silence, (1 + m) + 2)
    BY <2>1 DEF Hears
  <2>3. b[2] \in Short
    <3>1. CASE m = 0
      <4>1. b[2] \in Nth(c, silence, 3)
        BY <2>2, <3>1
      <4>2. QED
        BY <4>1, FirstRuns
    <3>2. CASE m = 1
      <4>1. b[2] \in Nth(c, silence, 4)
        BY <2>2, <3>2
      <4>2. QED
        BY <3>2, <4>1, FirstRuns
    <3>3. QED
      BY <3>1, <3>2
  <2>4. QED
    BY <1>1, <1>2, <1>4, <2>3, FitsTwo
<1>5. QED
  BY <1>3, <1>4

\* The start pulse is no digit, unless the silence looks like the end of one.
LEMMA StartDigit ==
  ASSUME NEW c, NEW silence \in Silences, ~ LooksLikeDigit(silence),
         NEW b \in Seq(Counts), Len(b) = 4,
         b[1] \in Pulses["start"], b[3] = Count(silence),
         silence > MaxCount => b[4] = Count(silence - MaxCount)
  PROVE  Digit("selflearning", b) = Invalid
<1> DEFINE S == 0 .. 9   L == 16 .. MaxCount
<1>1. \A n \in Pulses["start"] : n \notin S
  BY PulseLengths
<1>2. Digit("selflearning", b) = CASE Fits(b, <<L, S, S, S>>) -> 0
                                   [] Fits(b, <<S, S, L, S>>) -> 1
                                   [] OTHER -> Invalid
  BY DEF Digit, arctechSelflearningBit
<1>3. b[3] \notin S \/ b[4] \notin S
  <2>1. silence \in Nat /\ silence > 9 /\ MaxCount \in Nat
    BY CommandAir, PulseLengths
  <2>2. CASE silence <= MaxCount
    BY <2>1, <2>2 DEF Count
  <2>3. CASE silence > MaxCount
    <3>1. ~ (Count(silence - MaxCount) < 10)
      BY <2>3 DEF LooksLikeDigit
    <3>2. Count(silence - MaxCount) \in Nat
      BY <2>1, <2>3 DEF Count
    <3>3. b[4] \notin S
      BY <2>3, <3>1, <3>2
    <3>4. QED
      BY <3>3
  <2>4. QED
    BY <2>1, <2>2, <2>3
<1> HIDE DEF S, L
<1>4. QED
  BY <1>1, <1>2, <1>3, FitsFour

-----------------------------------------------------------------------------
(* A command is read run by run.                                           *)

\* So many runs of it have been read.
Ahead(c, silence, j) ==
  /\ Len(air) = Runs - j
  /\ \A x \in 1 .. Runs - j : air[x] = Signal(c, silence)[x]

LEMMA RunRead ==
  ASSUME air \in Seq(Lens), NEW c, NEW silence \in Silences,
         NEW j \in 0 .. Runs - 1, Ahead(c, silence, j),
         NEW length \in Lengths, rfCountSimilar(length)
  PROVE  /\ j + 1 < Runs => /\ Count(length) \in Nth(c, silence, j + 1)
                            /\ Ahead(c, silence, j + 1)'
         /\ j + 1 = Runs => /\ Count(length) = Count(silence)
                            /\ silence > MaxCount =>
                                 air' = << {silence - MaxCount} >>
<1> DEFINE s == Signal(c, silence)
           n == Runs - j
<1>1. /\ Runs \in Nat /\ j \in Nat /\ n \in 1 .. Runs /\ n - 1 = Runs - (j + 1)
      /\ (Runs + 1) - (j + 1) = n /\ MaxCount \in Nat
  BY RunsSize, PulseLengths
<1>2. Len(air) = n /\ \A x \in 1 .. n : air[x] = s[x]
  BY DEF Ahead
<1> HIDE DEF s, n
<1>3. air # <<>>
  <2>1. Len(air) # 0
    BY <1>1, <1>2
  <2>2. QED
    BY <2>1
<1>4. /\ Front(air) \in Seq(Lens) /\ Len(Front(air)) = n - 1
      /\ \A x \in 1 .. n - 1 : Front(air)[x] = air[x]
      /\ Last(air) = air[n]
  BY <1>2, <1>3, FrontPlaces
<1>5. length \in Nth(c, silence, j + 1)
  <2>1. Nth(c, silence, j + 1) = s[n]
    BY <1>1 DEF Nth, s
  <2>2. length \in air[n]
    BY <1>3, <1>4 DEF Lengths
  <2>3. n \in 1 .. n
    BY <1>1
  <2>4. QED
    BY <1>2, <2>1, <2>2, <2>3
<1>6. ASSUME j + 1 < Runs
      PROVE  Count(length) \in Nth(c, silence, j + 1) /\ Ahead(c, silence, j + 1)'
  <2>1. length \in 0 .. MaxCount
    <3>1. j + 1 \in 1 .. Runs - 1
      BY <1>1, <1>6
    <3>2. QED
      BY <1>5, <3>1, NthCounts
  <2>2. Count(length) = length /\ length <= MaxCount
    BY <1>1, <2>1 DEF Count
  <2>3. air' = Front(air)
    BY <1>1, <1>3, <2>1, <2>2 DEF rfCountSimilar
  <2>4. \A x \in 1 .. n - 1 : air'[x] = s[x]
    <3>1. \A x \in 1 .. n - 1 : x \in 1 .. n
      BY <1>1
    <3>2. QED
      BY <1>2, <1>4, <2>3, <3>1
  <2>5. Len(air') = n - 1
    BY <1>4, <2>3
  <2>6. QED
    BY <1>1, <1>5, <2>2, <2>4, <2>5 DEF Ahead, s
<1>7. ASSUME j + 1 = Runs
      PROVE  /\ Count(length) = Count(silence)
             /\ silence > MaxCount => air' = << {silence - MaxCount} >>
  <2>1. length = silence
    <3>1. Nth(c, silence, j + 1) = {silence}
      BY <1>7, NthEnds
    <3>2. QED
      BY <1>5, <3>1
  <2>2. ASSUME silence > MaxCount PROVE air' = << {silence - MaxCount} >>
    <3>1. silence \in Nat
      BY CommandAir
    <3>5. ~ (length <= MaxCount) /\ length > MaxCount
      BY <1>1, <2>1, <2>2, <3>1
    <3>2. air' = Append(Front(air), {silence - MaxCount})
      BY <1>3, <2>1, <2>2, <3>5 DEF rfCountSimilar
    <3>3. Front(air) = <<>>
      <4>1. n = 1
        BY <1>1, <1>7
      <4>2. Len(Front(air)) = 0
        BY <1>4, <4>1
      <4>3. QED
        BY <1>4, <4>2
    <3>4. QED
      BY <3>2, <3>3
  <2>3. QED
    BY <2>1, <2>2
<1>8. QED
  BY <1>6, <1>7

\* A command is followed, unless selflearning takes its silence for a digit.
Followed ==
  command # Nothing
    /\ ~ (parse.decoder = "selflearning" /\ LooksLikeDigit(command.silence))

SilenceInv == command # Nothing => command.silence \in Silences

CountsInv ==
  parse.decoder = "mandolyn" =>
    \A i \in 1 .. Len(parse.counts) : ~ MandolynZero(parse.counts[i])

\* What is left to read, and the counts read, are those of the command.
AirInv ==
  LET start == Start(parse.decoder, Len(digits))
      n == Len(parse.counts)
      c == command.keyed
      silence == command.silence
  IN  Followed =>
        /\ parse.at = "skip" => Ahead(c, silence, 0) /\ Skips(parse.decoder) = 1
        /\ parse.at = "digit" =>
             /\ start + n < Runs => Ahead(c, silence, start + n)
             /\ \A i \in 1 .. n :
                  start + i < Runs => parse.counts[i] \in Nth(c, silence, start + i)
             /\ start + n = Runs =>
                  /\ parse.counts[n] = Count(silence)
                  /\ silence > MaxCount => air = << {silence - MaxCount} >>

\* So are the digits read.
KeyedInv ==
  LET d == parse.decoder
      v == CommandValue(command.keyed)
  IN  Followed /\ parse.at # "idle" =>
        /\ Len(digits) <= Regular(d)
        /\ \A m \in 0 .. Len(digits) - 1 :
             digits[m + 1] = IF KeyedOne(d, v, m) THEN 1 ELSE 0
        /\ d \in {"fineoffset", "mandolyn"} /\ digits # <<>> => 0 \notin v
        /\ parse.at = "over" /\ d \in {"selflearning", "everflourish", "x10"} =>
             Len(digits) = Regular(d)

CommandInv == SilenceInv /\ CountsInv /\ AirInv /\ KeyedInv

\* No decoder reads further than the first digit that is none, selflearning up
\* to the silence.
LEMMA PositionBound ==
  ASSUME NEW d \in Decoders, NEW m \in Nat, NEW n \in Nat, n < CountsOf(d),
         m <= Regular(d), m < DigitsOf(d)
  PROVE  /\ Start(d, m) \in Nat
         /\ IF d = "selflearning" /\ m = SignalLength + 1
              THEN n < 4 /\ Start(d, m) = Runs - 3
              ELSE Start(d, m) + n < Runs - 3
<1>1. SignalLength \in Nat /\ SignalLength >= 1 /\ Runs = 4 * SignalLength + 8
  BY RunsSize
<1>2. CASE d = "selflearning"
  <2>1. Start(d, m) = 1 + 4 * m /\ n < 4 /\ m <= SignalLength + 1
    BY <1>2, RegularSize DEF Start, StepOf, Skips, CountsOf
  <2>2. CASE m = SignalLength + 1
    BY <1>1, <1>2, <2>1, <2>2
  <2>3. CASE m # SignalLength + 1
    BY <1>1, <2>1, <2>3
  <2>4. QED
    BY <2>2, <2>3
<1>3. CASE d = "everflourish"
  <2>1. Start(d, m) = 0 + 4 * m /\ n < 4 /\ m < EverflourishDigits
        /\ EverflourishDigits \in 1 .. SignalLength + 1
    BY <1>3, RegularSize DEF Start, StepOf, Skips, CountsOf, DigitsOf
  <2>2. QED
    BY <1>1, <1>3, <2>1
<1>4. CASE d = "x10"
  <2>1. Start(d, m) = 1 + 2 * m /\ n < 2 /\ m < 4 * ByteBits
        /\ 2 * ByteBits \in 1 .. SignalLength + 1 /\ ByteBits \in Nat
    BY <1>4, RegularSize, BlockSizes DEF Start, StepOf, Skips, CountsOf, DigitsOf
  <2>2. QED
    BY <1>1, <1>4, <2>1
<1>5. CASE d \in {"codeswitch", "pt2262"}
  <2>1. Start(d, m) = 1 + 4 * m /\ n < 4 /\ m <= 0
    BY <1>5, RegularSize DEF Start, StepOf, Skips, CountsOf
  <2>2. QED
    BY <1>1, <1>5, <2>1
<1>6. CASE d = "fineoffset"
  <2>1. Start(d, m) = 0 + 2 * m /\ n < 2 /\ m <= 1
    BY <1>6, RegularSize DEF Start, StepOf, Skips, CountsOf
  <2>2. QED
    BY <1>1, <1>6, <2>1
<1>7. CASE d = "mandolyn"
  <2>1. Start(d, m) = 1 + 1 * m /\ n < 2 /\ m <= 1
    BY <1>7, RegularSize DEF Start, StepOf, Skips, CountsOf
  <2>2. QED
    BY <1>1, <1>7, <2>1
<1>8. QED
  BY <1>2, <1>3, <1>4, <1>5, <1>6, <1>7 DEF Decoders

\* A run more of a digit.
NextRun(d, m, start, n, b, c, silence) ==
  /\ silence \in Silences /\ start \in Nat /\ n \in Nat
  /\ b \in Seq(Counts) /\ Len(b) = n + 1
  /\ start + (n + 1) < Runs => Ahead(c, silence, start + (n + 1))'
  /\ \A i \in 1 .. n + 1 :
       start + i < Runs => b[i] \in Nth(c, silence, start + i)
  /\ start + (n + 1) = Runs =>
       /\ b[n + 1] = Count(silence)
       /\ silence > MaxCount => air' = << {silence - MaxCount} >>
  /\ IF d = "selflearning" /\ m = SignalLength + 1
       THEN /\ start = Runs - 3 /\ n < 4
            /\ n = 3 => /\ b[3] = Count(silence)
                        /\ silence > MaxCount => b[4] = Count(silence - MaxCount)
       ELSE start + (n + 1) < Runs

LEMMA ReadAhead ==
  ASSUME BlockInv, CommandInv, Followed, NEW length \in Lengths, Read(length),
         NEW start, start = Start(parse.decoder, Len(digits)),
         NEW n, n = Len(parse.counts), NEW b, b = Counted(length),
         NEW c, c = command.keyed, NEW silence, silence = command.silence
  PROVE  NextRun(parse.decoder, Len(digits), start, n, b, c, silence)
<1> DEFINE d == parse.decoder
           m == Len(digits)
<1>1. /\ parse.at = "digit" /\ d \in Decoders /\ m \in Nat /\ n \in Nat
      /\ n < CountsOf(d) /\ m < DigitsOf(d) /\ m <= Regular(d)
      /\ silence \in Silences /\ air \in Seq(Lens) /\ rfCountSimilar(length)
  BY ReadStep DEF BlockInv, ParseTypes, CollectInv, CommandInv, KeyedInv,
                  SilenceInv, Followed, Read
<1>2. /\ b = Append(parse.counts, Count(length)) /\ b \in Seq(Counts) /\ Len(b) = n + 1
      /\ parse.counts \in Seq(Counts)
  BY ReadStep DEF BlockInv, ParseTypes, Counted
<1>3. (\A i \in 1 .. n : b[i] = parse.counts[i]) /\ b[n + 1] = Count(length)
  BY <1>2
<1>4. /\ start \in Nat /\ Runs \in Nat
      /\ IF d = "selflearning" /\ m = SignalLength + 1
           THEN n < 4 /\ start = Runs - 3 ELSE start + n < Runs - 3
  BY <1>1, PositionBound, RunsSize
<1>5. /\ start + n < Runs => Ahead(c, silence, start + n)
      /\ \A i \in 1 .. n :
           start + i < Runs => parse.counts[i] \in Nth(c, silence, start + i)
      /\ start + n = Runs => /\ parse.counts[n] = Count(silence)
                             /\ silence > MaxCount => air = << {silence - MaxCount} >>
  BY <1>1 DEF CommandInv, AirInv
<1> HIDE DEF d, m
<1>6. ASSUME start + n < Runs
      PROVE  /\ start + (n + 1) < Runs =>
                  /\ Count(length) \in Nth(c, silence, start + (n + 1))
                  /\ Ahead(c, silence, start + (n + 1))'
             /\ start + (n + 1) = Runs =>
                  /\ Count(length) = Count(silence)
                  /\ silence > MaxCount => air' = << {silence - MaxCount} >>
  <2> DEFINE j == start + n
  <2>1. j \in 0 .. Runs - 1 /\ j + 1 = start + (n + 1)
    <3>1. start \in Nat /\ n \in Nat /\ Runs \in Nat
      BY <1>1, <1>4
    <3>2. QED
      BY <1>6, <3>1
  <2>2. Ahead(c, silence, j)
    BY <1>5, <1>6
  <2> HIDE DEF j
  <2>3. /\ j + 1 < Runs => /\ Count(length) \in Nth(c, silence, j + 1)
                           /\ Ahead(c, silence, j + 1)'
        /\ j + 1 = Runs => /\ Count(length) = Count(silence)
                           /\ silence > MaxCount =>
                                air' = << {silence - MaxCount} >>
    BY <1>1, <2>1, <2>2, RunRead
  <2>4. QED
    BY <2>1, <2>3
<1>7. start + (n + 1) < Runs \/ start + (n + 1) = Runs => start + n < Runs
  BY <1>1, <1>4
<1>8. ASSUME NEW i \in 1 .. n + 1, start + i < Runs
      PROVE  b[i] \in Nth(c, silence, start + i)
  <2>1. CASE i \in 1 .. n
    BY <1>3, <1>5, <1>8, <2>1
  <2>2. CASE i = n + 1
    BY <1>3, <1>6, <1>7, <1>8, <2>2
  <2>3. QED
    BY <1>1, <2>1, <2>2
<1>9. ASSUME d = "selflearning" /\ m = SignalLength + 1, n = 3
      PROVE  b[3] = Count(silence)
             /\ (silence > MaxCount => b[4] = Count(silence - MaxCount))
  <2>1. start + n = Runs
    BY <1>4, <1>9
  <2>2. b[3] = Count(silence)
    <3>1. 3 \in 1 .. n
      BY <1>9
    <3>2. QED
      BY <1>3, <1>5, <1>9, <2>1, <3>1
  <2>3. ASSUME silence > MaxCount PROVE b[4] = Count(silence - MaxCount)
    <3>1. air = << {silence - MaxCount} >>
      BY <1>5, <2>1, <2>3
    <3>2. length \in {silence - MaxCount}
      BY <3>1 DEF Lengths, Last
    <3>3. QED
      BY <1>3, <1>9, <3>2
  <2>4. QED
    BY <2>2, <2>3
<1>10. start + (n + 1) < Runs => Ahead(c, silence, start + (n + 1))'
  BY <1>6, <1>7
<1>11. start + (n + 1) = Runs =>
         b[n + 1] = Count(silence)
           /\ (silence > MaxCount => air' = << {silence - MaxCount} >>)
  BY <1>3, <1>6, <1>7
<1>12. ASSUME ~ (d = "selflearning" /\ m = SignalLength + 1)
       PROVE  start + (n + 1) < Runs
  BY <1>1, <1>4, <1>12
<1>13. QED
  BY <1>1, <1>2, <1>4, <1>8, <1>9, <1>10, <1>11, <1>12 DEF d, m, NextRun

LEMMA HalvesOf ==
  ASSUME NEW m \in Nat
  PROVE  \E q \in Int : m = 2 * q \/ m = 2 * q + 1
<1>1. m \div 2 \in Int /\ (m = 2 * (m \div 2) \/ m = 2 * (m \div 2) + 1)
  OBVIOUS
<1>2. QED
  BY <1>1

\* A decoder reads the digits of the command, and then none.
LEMMA CommandDigit ==
  ASSUME BlockInv, CommandInv, Followed, NEW length \in Lengths, Read(length),
         NEW d, d = parse.decoder, NEW m, m = Len(digits),
         NEW b, b = Counted(length), IsDigit(d, b),
         NEW v, v = CommandValue(command.keyed)
  PROVE  /\ Digit(d, b) # Invalid =>
              /\ m < Regular(d) /\ Len(b) = StepOf(d)
              /\ Digit(d, b) = IF KeyedOne(d, v, m) THEN 1 ELSE 0
              /\ d \in {"fineoffset", "mandolyn"} => 0 \notin v
         /\ Digit(d, b) = Invalid =>
              /\ d \notin {"everflourish", "x10"}
              /\ d = "selflearning" => m = Regular(d)
<1>1. PICK c, silence : c = command.keyed /\ silence = command.silence
  OBVIOUS
<1>2. PICK start, n : start = Start(d, m) /\ n = Len(parse.counts)
  OBVIOUS
<1>3. /\ silence \in Silences /\ start \in Nat /\ n \in Nat
      /\ b \in Seq(Counts) /\ Len(b) = n + 1
      /\ \A i \in 1 .. n + 1 :
           start + i < Runs => b[i] \in Nth(c, silence, start + i)
      /\ IF d = "selflearning" /\ m = SignalLength + 1
           THEN /\ start = Runs - 3 /\ n < 4
                /\ n = 3 => /\ b[3] = Count(silence)
                            /\ silence > MaxCount =>
                                 b[4] = Count(silence - MaxCount)
           ELSE start + (n + 1) < Runs
  <2>1. start = Start(parse.decoder, Len(digits))
    BY <1>2
  <2>2. NextRun(parse.decoder, Len(digits), start, n, b, c, silence)
    BY <1>1, <1>2, <2>1, ReadAhead
  <2>3. QED
    BY <2>2 DEF NextRun
<1>4. /\ d \in Decoders /\ m \in Nat /\ m < DigitsOf(d) /\ m <= Regular(d)
      /\ n < CountsOf(d) /\ v = CommandValue(c)
      /\ d \in {"fineoffset", "mandolyn"} /\ m # 0 => 0 \notin v
  <2>1. parse.at = "digit"
    BY ReadStep
  <2>2. digits \in Seq(Digits) /\ (Len(digits) # 0 => digits # <<>>)
    BY DEF BlockInv, ParseTypes
  <2>3. QED
    BY <1>1, <1>2, <2>1, <2>2
       DEF BlockInv, ParseTypes, CollectInv, CommandInv, KeyedInv
<1>5. SignalLength \in Nat /\ Runs \in Nat
  BY RunsSize
<1>6. ASSUME ~ (d = "selflearning" /\ m = SignalLength + 1)
      PROVE  Hears(c, silence, start, b)
  <2>1. \A i \in 1 .. n + 1 : start + i < Runs
    BY <1>3, <1>5, <1>6
  <2>2. QED
    BY <1>3, <2>1 DEF Hears
<1>7. d # "mandolyn" => Len(b) = CountsOf(d)
  BY DEF IsDigit, CountsOf
<1>8. CASE d = "selflearning"
  <2>1. CASE m = SignalLength + 1
    <3>1. Len(b) = 4 /\ n = 3
      BY <1>3, <1>7, <1>8 DEF CountsOf
    <3>2. b[1] \in Pulses["start"]
      <4>1. start + 1 = Runs - 2 /\ start + 1 < Runs /\ 1 \in 1 .. n + 1
        BY <1>3, <1>5, <1>8, <2>1, <3>1
      <4>2. b[1] \in Nth(c, silence, Runs - 2)
        BY <1>3, <4>1
      <4>3. QED
        BY <1>3, <4>2, NthEnds
    <3>3. ~ LooksLikeDigit(silence)
      BY <1>1, <1>8 DEF Followed
    <3>4. Digit(d, b) = Invalid
      BY <1>3, <1>8, <2>1, <3>1, <3>2, <3>3, StartDigit
    <3>5. QED
      BY <1>8, <2>1, <3>4, RegularSize
  <2>2. CASE m # SignalLength + 1
    <3>1. m \in 0 .. SignalLength /\ start = 1 + 4 * m /\ Len(b) = 4
          /\ StepOf(d) = 4 /\ m < Regular(d)
      BY <1>2, <1>4, <1>5, <1>7, <1>8, <2>2, RegularSize
         DEF Start, StepOf, Skips, CountsOf
    <3>2. Digit(d, b) = IF m \in v THEN 1 ELSE 0
      BY <1>3, <1>4, <1>6, <1>8, <2>2, <3>1, SelflearningDigit
    <3>3. QED
      BY <1>8, <3>1, <3>2 DEF KeyedOne, Invalid
  <2>3. QED
    BY <2>1, <2>2
<1>9. CASE d = "everflourish"
  <2>1. m \in 0 .. SignalLength /\ start = 4 * m /\ Len(b) = 4
        /\ StepOf(d) = 4 /\ m < Regular(d)
    <3>1. m < EverflourishDigits /\ EverflourishDigits \in 1 .. SignalLength + 1
          /\ Regular(d) = EverflourishDigits
      BY <1>4, <1>9, RegularSize DEF DigitsOf
    <3>2. start = 0 + 4 * m /\ StepOf(d) = 4 /\ Len(b) = 4
      BY <1>2, <1>7, <1>9 DEF Start, StepOf, Skips, CountsOf
    <3>3. QED
      BY <1>4, <1>5, <3>1, <3>2
  <2>2. Digit(d, b) = IF m \in v THEN 1 ELSE 0
    BY <1>3, <1>4, <1>6, <1>9, <2>1, EverflourishDigit
  <2>3. QED
    BY <1>9, <2>1, <2>2 DEF KeyedOne, Invalid
<1>10. CASE d = "x10"
  <2>1. start = 1 + 2 * m /\ Len(b) = 2 /\ StepOf(d) = 2 /\ m < Regular(d)
    BY <1>2, <1>4, <1>7, <1>10, RegularSize
       DEF Start, StepOf, Skips, CountsOf, DigitsOf
  <2>2. \E p \in 0 .. SignalLength : m \in {2 * p, 2 * p + 1}
    <3>1. m < 4 * ByteBits /\ 2 * ByteBits <= SignalLength + 1 /\ ByteBits \in Nat
      BY <1>10, <2>1, RegularSize, BlockSizes
    <3>2. m \in Nat
      BY <1>4
    <3>3. PICK q \in Int : m = 2 * q \/ m = 2 * q + 1
      BY <3>2, HalvesOf
    <3>5. q \in 0 .. SignalLength
      BY <1>4, <1>5, <3>1, <3>3
    <3>6. QED
      BY <3>3, <3>5
  <2>3. PICK p \in 0 .. SignalLength : m \in {2 * p, 2 * p + 1}
    BY <2>2
  <2>4. Digit(d, b) = IF (m = 2 * p /\ p \notin v) \/ (m = 2 * p + 1 /\ p \in v)
                        THEN 1 ELSE 0
    <3>1. Hears(c, silence, 1 + 2 * m, b)
      BY <1>6, <1>10, <2>1
    <3>2. Digit("x10", b) = IF (m = 2 * p /\ p \notin CommandValue(c))
                                 \/ (m = 2 * p + 1 /\ p \in CommandValue(c))
                              THEN 1 ELSE 0
      BY <1>3, <2>1, <2>3, <3>1, X10Digit
    <3>3. QED
      BY <1>4, <1>10, <3>2
  <2>5. KeyedOne(d, v, m) <=> (m = 2 * p /\ p \notin v) \/ (m = 2 * p + 1 /\ p \in v)
    <3>1. \A u \in 0 .. SignalLength : (m = 2 * u \/ m = 2 * u + 1) => u = p
      BY <1>5, <2>3
    <3>2. KeyedOne(d, v, m) <=>
            \E u \in 0 .. SignalLength :
              (m = 2 * u /\ u \notin v) \/ (m = 2 * u + 1 /\ u \in v)
      BY <1>10 DEF KeyedOne, X10One
    <3>3. ASSUME NEW u \in 0 .. SignalLength,
                 (m = 2 * u /\ u \notin v) \/ (m = 2 * u + 1 /\ u \in v)
          PROVE  (m = 2 * p /\ p \notin v) \/ (m = 2 * p + 1 /\ p \in v)
      <4>1. u = p
        BY <3>1, <3>3
      <4>2. QED
        BY <3>3, <4>1
    <3>4. QED
      BY <2>3, <3>2, <3>3
  <2>6. QED
    BY <1>10, <2>1, <2>4, <2>5 DEF Invalid
<1>11. CASE d \in {"codeswitch", "pt2262"}
  <2>1. m = 0 /\ start = 1 /\ Len(b) = 4
    <3>1. m = 0
      BY <1>4, <1>11, RegularSize
    <3>2. start = 1 + 4 * m /\ Len(b) = 4
      BY <1>2, <1>7, <1>11 DEF Start, StepOf, Skips, CountsOf
    <3>3. QED
      BY <3>1, <3>2
  <2>2. Digit(d, b) = Invalid
    BY <1>3, <1>6, <1>11, <2>1, ForeignDigit
  <2>3. QED
    BY <1>11, <2>2
<1>12. CASE d = "fineoffset"
  <2>1. m \in {0, 1} /\ start = 2 * m /\ Len(b) = 2 /\ StepOf(d) = 2
        /\ Regular(d) = 1
    <3>1. m <= 1 /\ Regular(d) = 1
      BY <1>4, <1>12, RegularSize
    <3>2. start = 0 + 2 * m /\ Len(b) = 2 /\ StepOf(d) = 2
      BY <1>2, <1>7, <1>12 DEF Start, StepOf, Skips, CountsOf
    <3>3. QED
      BY <1>4, <3>1, <3>2
  <2>2. ASSUME Digit(d, b) # Invalid PROVE m = 0 /\ 0 \notin v /\ Digit(d, b) = 1
    <3>1. m = 1 => 0 \notin CommandValue(c)
      BY <1>4, <1>12
    <3>2. Hears(c, silence, 2 * m, b)
      BY <1>6, <1>12, <2>1
    <3>3. QED
      BY <1>3, <1>4, <1>12, <2>1, <2>2, <3>1, <3>2, FineOffsetDigit
  <2>3. QED
    BY <1>12, <2>1, <2>2 DEF KeyedOne
<1>13. CASE d = "mandolyn"
  <2>1. m \in {0, 1} /\ start = 1 + m /\ StepOf(d) = 1 /\ Regular(d) = 1
    <3>1. m <= 1 /\ Regular(d) = 1
      BY <1>4, <1>13, RegularSize
    <3>2. start = 1 + 1 * m /\ StepOf(d) = 1
      BY <1>2, <1>13 DEF Start, StepOf, Skips, CountsOf
    <3>3. QED
      BY <1>4, <3>1, <3>2
  <2>2. n \in {0, 1} /\ Len(b) \in {1, 2}
    BY <1>3, <1>4, <1>13 DEF CountsOf
  <2>3. n = 1 => ~ MandolynZero(b[1])
    <3>1. parse.counts \in Seq(Counts) /\ b = Append(parse.counts, Count(length))
      BY DEF BlockInv, ParseTypes, Counted
    <3>4. Count(length) \in Counts
      BY ReadStep
    <3>5. \A i \in 1 .. Len(parse.counts) :
            Append(parse.counts, Count(length))[i] = parse.counts[i]
      BY <3>1, <3>4, AppendProperties
    <3>2. n = 1 => b[1] = parse.counts[1]
      <4>1. n = 1 => 1 \in 1 .. Len(parse.counts)
        BY <1>2
      <4>2. QED
        BY <3>1, <3>5, <4>1
    <3>3. QED
      BY <1>2, <1>13, <3>2 DEF CommandInv, CountsInv
  <2>4. ASSUME Digit(d, b) # Invalid
        PROVE  m = 0 /\ 0 \notin v /\ Digit(d, b) = 0 /\ MandolynZero(b[1])
    <3>1. m = 1 => 0 \notin CommandValue(c)
      BY <1>4, <1>13
    <3>2. Hears(c, silence, 1 + m, b) /\ IsDigit("mandolyn", b)
      BY <1>6, <1>13, <2>1
    <3>3. QED
      BY <1>3, <1>4, <1>13, <2>1, <2>2, <2>4, <3>1, <3>2, MandolynDigit
  <2>5. ASSUME Digit(d, b) # Invalid PROVE Len(b) = 1
    BY <1>3, <2>2, <2>3, <2>4, <2>5
  <2>6. ~ KeyedOne(d, v, m)
    BY <1>13 DEF KeyedOne
  <2>7. m < Regular(d) <=> m = 0
    BY <2>1
  <2>8. QED
    BY <1>13, <2>1, <2>4, <2>5, <2>6, <2>7
<1>14. QED
  BY <1>4, <1>8, <1>9, <1>10, <1>11, <1>12, <1>13 DEF Decoders

LEMMA CommandInitInv == BlockInit => CommandInv
  BY DEF BlockInit, Idle, CommandInv, SilenceInv, CountsInv, AirInv, KeyedInv, Followed

LEMMA CallOnAnyFollows ==
  ASSUME BlockInv, NEW d \in Decoders, CallOnAny(d)
  PROVE  CommandInv'
<1>1. command' = Nothing /\ parse'.counts = <<>>
  BY DEF CallOnAny, Call
<1>2. QED
  BY <1>1 DEF CommandInv, SilenceInv, CountsInv, AirInv, KeyedInv, Followed

LEMMA CallOnCommandFollows ==
  ASSUME BlockInv, NEW d \in Decoders, NEW c, NEW silence \in Silences,
         CallOnCommand(d, c, silence)
  PROVE  CommandInv'
<1>1. /\ parse'.decoder = d /\ parse'.counts = <<>>
      /\ parse'.at = (IF d \in {"everflourish", "fineoffset"} THEN "digit" ELSE "skip")
      /\ digits' = <<>>
  <2>1. parse.at = "idle" /\ digits = <<>>
    BY DEF BlockInv, ParseTypes, CallOnCommand, Call
  <2>2. QED
    BY <2>1 DEF CallOnCommand, Call
<1>2. /\ air' = Signal(c, silence) /\ command'.keyed = c /\ command'.silence = silence
  BY DEF CallOnCommand, Signal
<1>3. Ahead(c, silence, 0)'
  <2>1. Len(Signal(c, silence)) = Runs /\ Runs - 0 = Runs
    BY SignalPlaces, RunsSize
  <2>2. QED
    BY <1>2, <2>1 DEF Ahead
<1>4. /\ d \in {"everflourish", "fineoffset"} => Start(d, 0) = 0
      /\ Skips(d) = IF d \in {"everflourish", "fineoffset"} THEN 0 ELSE 1
  BY DEF Start, Skips, StepOf, CountsOf
<1>5. Regular(d) \in Nat
  BY RegularSize, BlockSizes, RunsSize DEF Decoders
<1>6. Len(<<>>) = 0 /\ 0 < Runs /\ 0 # Runs /\ 0 + 0 = 0
  BY RunsSize
<1>7. AirInv'
  <2>1. ASSUME parse'.at = "skip"
        PROVE  Ahead(c, silence, 0)' /\ Skips(d) = 1
    BY <1>1, <1>3, <1>4, <2>1
  <2>2. ASSUME parse'.at = "digit"
        PROVE  Start(d, 0) + 0 = 0 /\ Ahead(c, silence, Start(d, 0) + 0)'
    <3>1. Start(d, 0) + 0 = 0
      BY <1>1, <1>4, <2>2
    <3>2. QED
      BY <1>3, <3>1
  <2>3. Len(digits') = 0 /\ Len(parse'.counts) = 0
    BY <1>1, <1>6
  <2>4. AirInv' <=>
          (Followed' =>
             /\ parse'.at = "skip" => Ahead(c, silence, 0)' /\ Skips(d) = 1
             /\ parse'.at = "digit" =>
                  /\ Start(d, 0) + 0 < Runs => Ahead(c, silence, Start(d, 0) + 0)'
                  /\ \A i \in 1 .. 0 :
                       Start(d, 0) + i < Runs =>
                         parse'.counts[i] \in Nth(c, silence, Start(d, 0) + i)
                  /\ Start(d, 0) + 0 = Runs =>
                       /\ parse'.counts[0] = Count(silence)
                       /\ silence > MaxCount => air' = << {silence - MaxCount} >>)
    BY <1>1, <1>2, <2>3 DEF AirInv, Ahead
  <2>5. QED
    BY <1>6, <2>1, <2>2, <2>4
<1>8. KeyedInv'
  BY <1>1, <1>5, <1>6 DEF KeyedInv
<1>9. SilenceInv' /\ CountsInv'
  BY <1>1, <1>2, <1>6 DEF SilenceInv, CountsInv
<1>10. QED
  BY <1>7, <1>8, <1>9 DEF CommandInv

\* While a digit is read, this much is to be shown of what is left.
LEMMA AirFollows ==
  ASSUME parse'.at = "digit",
         NEW c, c = command'.keyed, NEW silence, silence = command'.silence,
         NEW start, start = Start(parse'.decoder, Len(digits')),
         NEW n, n = Len(parse'.counts), NEW b, b = parse'.counts,
         start + n < Runs => Ahead(c, silence, start + n)',
         \A i \in 1 .. n : start + i < Runs => b[i] \in Nth(c, silence, start + i),
         start + n = Runs => /\ b[n] = Count(silence)
                             /\ silence > MaxCount => air' = << {silence - MaxCount} >>
  PROVE  AirInv'
  BY DEF AirInv, Ahead

LEMMA SkipLastFollows ==
  ASSUME BlockInv, CommandInv, SkipLast
  PROVE  CommandInv'
<1>1. /\ parse.at = "skip" /\ digits = <<>> /\ parse.counts = <<>>
      /\ parse'.at = "digit" /\ parse'.counts = <<>>
      /\ parse'.decoder = parse.decoder /\ digits' = <<>> /\ command' = command
      /\ air \in Seq(Lens)
  BY DEF BlockInv, ParseTypes, SkipLast
<1>2. SilenceInv' /\ CountsInv'
  BY <1>1 DEF CommandInv, SilenceInv, CountsInv
<1>3. KeyedInv'
  BY <1>1 DEF CommandInv, KeyedInv, Followed
<1>4. AirInv'
  <2> SUFFICES ASSUME Followed' PROVE AirInv'
    BY DEF AirInv
  <2> DEFINE d == parse.decoder
  <2>1. PICK c, silence : c = command.keyed /\ silence = command.silence
    OBVIOUS
  <2>2. Followed /\ silence \in Silences
    BY <1>1, <2>1 DEF Followed, CommandInv, SilenceInv
  <2>3. Ahead(c, silence, 0) /\ Skips(d) = 1
    BY <1>1, <2>1, <2>2 DEF CommandInv, AirInv
  <2>4. PICK length \in Lengths : rfCountSimilar(length)
    BY DEF SkipLast
  <2>5. 0 \in 0 .. Runs - 1 /\ 0 + 1 < Runs /\ 0 + 1 = 1
    BY RunsSize
  <2>6. Ahead(c, silence, 1)'
    <3>1. Ahead(c, silence, 0 + 1)'
      BY <1>1, <2>2, <2>3, <2>4, <2>5, RunRead
    <3>2. QED
      BY <2>5, <3>1
  <2>7. Start(d, 0) + 0 = 1 /\ Len(<<>>) = 0
    <3>1. StepOf(d) \in Nat
      BY DEF StepOf, CountsOf
    <3>2. QED
      BY <2>3, <3>1 DEF Start
  <2> HIDE DEF d
  <2>8. PICK start, n, b : start = Start(d, 0) /\ n = 0 /\ b = <<>>
    OBVIOUS
  <2>9. start + n = 1 /\ start + n < Runs /\ start + n # Runs
    BY <2>7, <2>8, RunsSize
  <2>10. Ahead(c, silence, start + n)'
    BY <2>6, <2>9
  <2>11. /\ c = command'.keyed /\ silence = command'.silence /\ b = parse'.counts
         /\ start = Start(parse'.decoder, Len(digits')) /\ n = Len(parse'.counts)
    BY <1>1, <2>1, <2>7, <2>8 DEF d
  <2>12. \A i \in 1 .. n : start + i < Runs => b[i] \in Nth(c, silence, start + i)
    BY <2>8
  <2>13. QED
    BY <1>1, <2>9, <2>10, <2>11, <2>12, AirFollows
<1>5. QED
  BY <1>2, <1>3, <1>4 DEF CommandInv

LEMMA ReturnFollows ==
  ASSUME Return
  PROVE  CommandInv'
<1>1. command' = Nothing /\ parse' = Idle
  BY DEF Return
<1>2. QED
  BY <1>1 DEF Idle, CommandInv, SilenceInv, CountsInv, AirInv, KeyedInv, Followed

LEMMA InDigitFollows ==
  ASSUME BlockInv, CommandInv, NEW length \in Lengths, InDigit(length)
  PROVE  CommandInv'
<1> DEFINE d == parse.decoder
<1>1. Read(length)
  BY DEF InDigit
<1>2. /\ parse'.decoder = d /\ parse'.at = parse.at /\ parse.at = "digit"
      /\ parse'.counts = Counted(length) /\ digits' = digits /\ command' = command
  BY ReadStep DEF BlockInv, ParseTypes, InDigit, Read
<1>3. SilenceInv'
  BY <1>2 DEF CommandInv, SilenceInv
<1>4. CountsInv'
  <2> SUFFICES ASSUME d = "mandolyn", NEW i \in 1 .. Len(Counted(length))
               PROVE  ~ MandolynZero(Counted(length)[i])
    BY <1>2 DEF CountsInv
  <2>1. BlockInv'
    BY InDigitKeeps
  <2>2. Len(Counted(length)) \in Nat /\ Len(Counted(length)) < 2
    BY <1>2, <2>1 DEF BlockInv, ParseTypes, CountsOf
  <2>3. ~ MandolynZero(Counted(length)[1])
    BY DEF InDigit, IsDigit
  <2>4. QED
    BY <2>2, <2>3
<1>5. KeyedInv'
  BY <1>2 DEF CommandInv, KeyedInv, Followed
<1>6. AirInv'
  <2> SUFFICES ASSUME Followed' PROVE AirInv'
    BY DEF AirInv
  <2>1. PICK c, silence : c = command.keyed /\ silence = command.silence
    OBVIOUS
  <2>2. PICK start, n, b : /\ start = Start(d, Len(digits)) /\ n = Len(parse.counts)
                           /\ b = Counted(length)
    OBVIOUS
  <2>3. Followed
    BY <1>2 DEF Followed
  <2>4. NextRun(parse.decoder, Len(digits), start, n, b, c, silence)
    BY <1>1, <2>1, <2>2, <2>3, ReadAhead
  <2>5. PICK k : k = n + 1
    OBVIOUS
  <2>6. /\ Len(b) = k
        /\ start + k < Runs => Ahead(c, silence, start + k)'
        /\ \A i \in 1 .. k : start + i < Runs => b[i] \in Nth(c, silence, start + i)
        /\ start + k = Runs => /\ b[k] = Count(silence)
                               /\ silence > MaxCount => air' = << {silence - MaxCount} >>
    BY <2>4, <2>5 DEF NextRun
  <2>7. /\ c = command'.keyed /\ silence = command'.silence
        /\ start = Start(parse'.decoder, Len(digits')) /\ k = Len(parse'.counts)
        /\ b = parse'.counts
    BY <1>2, <2>1, <2>2, <2>6
  <2>8. QED
    BY <1>2, <2>6, <2>7, AirFollows
<1>7. QED
  BY <1>3, <1>4, <1>5, <1>6 DEF CommandInv

LEMMA NoDigitFollows ==
  ASSUME BlockInv, CommandInv, NEW length \in Lengths, NoDigit(length)
  PROVE  CommandInv'
<1> DEFINE d == parse.decoder
<1>1. Read(length) /\ IsDigit(d, Counted(length)) /\ Digit(d, Counted(length)) = Invalid
  BY DEF NoDigit, DigitWith
<1>2. /\ parse'.decoder = d /\ parse'.at = "over" /\ parse'.counts = <<>>
      /\ digits' = digits /\ command' = command /\ parse.at = "digit"
  BY <1>1, ReadStep DEF BlockInv, ParseTypes, NoDigit, Read, Ends
<1>3. SilenceInv' /\ CountsInv'
  BY <1>2 DEF CommandInv, SilenceInv, CountsInv
<1>4. AirInv'
  BY <1>2 DEF AirInv
<1>5. KeyedInv'
  <2> SUFFICES ASSUME Followed' PROVE KeyedInv'
    BY DEF KeyedInv
  <2>1. Followed
    BY <1>2 DEF Followed
  <2>2. PICK m, b, e : m = Len(digits) /\ b = Counted(length) /\ e = d
    OBVIOUS
  <2>3. PICK v : v = CommandValue(command.keyed)
    OBVIOUS
  <2>4. d \notin {"everflourish", "x10"} /\ (d = "selflearning" => m = Regular(d))
    BY <1>1, <2>1, <2>2, <2>3, CommandDigit
  <2>5. QED
    BY <1>2, <2>1, <2>2, <2>4 DEF CommandInv, KeyedInv
<1>6. QED
  BY <1>3, <1>4, <1>5 DEF CommandInv

LEMMA TakeDigitFollows ==
  ASSUME BlockInv, CommandInv, NEW length \in Lengths, TakeDigit(length)
  PROVE  CommandInv'
<1> DEFINE d == parse.decoder
           x == Digit(d, Counted(length))
<1>1. Read(length) /\ IsDigit(d, Counted(length)) /\ x # Invalid
  BY DEF TakeDigit, DigitWith
<1>2. /\ parse'.decoder = d /\ parse'.at \in {"digit", "over"} /\ parse'.counts = <<>>
      /\ digits' = Append(digits, x) /\ command' = command /\ parse.at = "digit"
      /\ parse'.at = "over" <=> ~ (Len(digits) + 1 < DigitsOf(d))
  <2>1. parse.at = "digit" /\ command' = command /\ parse.read = Len(digits)
    BY <1>1, ReadStep DEF Read, BlockInv, CollectInv
  <2>2. /\ parse'.decoder = d /\ parse'.counts = <<>> /\ digits' = Append(digits, x)
        /\ parse'.at = IF parse.read + 1 < DigitsOf(d) THEN "digit" ELSE "over"
    BY <2>1 DEF BlockInv, ParseTypes, TakeDigit, DigitWith, Ends
  <2>3. QED
    BY <2>1, <2>2
<1>3. SilenceInv' /\ CountsInv'
  BY <1>2 DEF CommandInv, SilenceInv, CountsInv
<1>4. ASSUME Followed' PROVE AirInv' /\ KeyedInv'
  <2>1. PICK c, silence : c = command.keyed /\ silence = command.silence
    OBVIOUS
  <2>2. PICK start, n, b : /\ start = Start(d, Len(digits)) /\ n = Len(parse.counts)
                           /\ b = Counted(length)
    OBVIOUS
  <2>3. Followed
    BY <1>2, <1>4 DEF Followed
  <2>4. NextRun(parse.decoder, Len(digits), start, n, b, c, silence)
    BY <1>1, <2>1, <2>2, <2>3, ReadAhead
  <2>5. PICK m, e, v : m = Len(digits) /\ e = d /\ v = CommandValue(command.keyed)
    OBVIOUS
  <2>6. /\ m < Regular(e) /\ Len(b) = StepOf(e)
        /\ x = IF KeyedOne(e, v, m) THEN 1 ELSE 0
        /\ e \in {"fineoffset", "mandolyn"} => 0 \notin v
    BY <1>1, <2>2, <2>3, <2>5, CommandDigit
  <2>7. /\ e \in Decoders /\ m \in Nat /\ digits \in Seq(Digits) /\ x \in Digits
        /\ m < DigitsOf(e)
    BY <1>1, <1>2, <2>5, ReadStep, DigitTypes DEF BlockInv, ParseTypes, CollectInv
  <2>8. /\ Len(digits') = m + 1 /\ digits'[m + 1] = x
        /\ \A k \in 1 .. m : digits'[k] = digits[k]
    BY <1>2, <2>5, <2>7, AppendProperties
  <2>9. ASSUME parse'.at = "digit" PROVE AirInv'
    <3>1. PICK next, k, none : /\ next = Start(e, m + 1) /\ k = 0 /\ none = <<>>
      OBVIOUS
    <3>2. next = start + (n + 1) /\ n \in Nat /\ start \in Nat
      <4>1. Len(b) = n + 1 /\ n \in Nat /\ start \in Nat
        BY <2>4 DEF NextRun
      <4>2. StepOf(e) = n + 1 /\ Skips(e) \in Nat
        BY <2>6, <4>1 DEF Skips
      <4>3. ASSUME NEW s \in Nat, NEW t \in Nat PROVE s + t * (m + 1) = (s + t * m) + t
        BY <2>7
      <4>4. Start(e, m + 1) = Start(e, m) + (n + 1)
        BY <4>1, <4>2, <4>3 DEF Start
      <4>5. QED
        BY <2>2, <2>5, <3>1, <4>1, <4>4
    <3>3. start + (n + 1) < Runs
      <4>1. ~ (e = "selflearning" /\ m = SignalLength + 1)
        BY <2>6, RegularSize, RunsSize
      <4>2. QED
        BY <2>4, <2>5, <4>1 DEF NextRun
    <3>4. next + k < Runs /\ next + k = start + (n + 1) /\ next + k # Runs
      BY <3>1, <3>2, <3>3, RunsSize
    <3>5. Ahead(c, silence, next + k)'
      <4>1. Ahead(c, silence, start + (n + 1))'
        BY <2>4, <3>3 DEF NextRun
      <4>2. QED
        BY <3>4, <4>1
    <3>6. /\ c = command'.keyed /\ silence = command'.silence /\ none = parse'.counts
          /\ next = Start(parse'.decoder, Len(digits')) /\ k = Len(parse'.counts)
      BY <1>2, <2>1, <2>5, <2>8, <3>1
    <3>7. \A i \in 1 .. k : next + i < Runs => none[i] \in Nth(c, silence, next + i)
      BY <3>1
    <3>8. QED
      BY <2>9, <3>4, <3>5, <3>6, <3>7, AirFollows
  <2>10. AirInv'
    <3>1. parse'.at # "digit" => AirInv'
      BY <1>2 DEF AirInv
    <3>2. QED
      BY <2>9, <3>1
  <2>11. KeyedInv'
    <3>1. Regular(e) \in Nat
      BY <2>7, RegularType
    <3>2. \A k \in 0 .. m - 1 : digits[k + 1] = IF KeyedOne(e, v, k) THEN 1 ELSE 0
      BY <1>2, <2>3, <2>5 DEF CommandInv, KeyedInv
    <3>3. ASSUME NEW k \in 0 .. (m + 1) - 1
          PROVE  digits'[k + 1] = IF KeyedOne(e, v, k) THEN 1 ELSE 0
      <4>1. CASE k = m
        BY <2>6, <2>8, <4>1
      <4>2. CASE k # m
        <5>1. k \in 0 .. m - 1 /\ k + 1 \in 1 .. m
          BY <2>7, <4>2
        <5>2. QED
          BY <2>8, <3>2, <5>1
      <4>3. QED
        BY <4>1, <4>2
    <3>4. m + 1 <= Regular(e)
      BY <2>6, <2>7, <3>1
    <3>5. ASSUME parse'.at = "over", e \in {"selflearning", "everflourish", "x10"}
          PROVE  m + 1 = Regular(e)
      <4>1. ~ (m + 1 < DigitsOf(e))
        BY <1>2, <2>5, <3>5
      <4>2. CASE e \in {"everflourish", "x10"}
        <5>1. Regular(e) = DigitsOf(e)
          BY <4>2 DEF Regular
        <5>2. QED
          BY <2>7, <3>1, <3>4, <4>1, <5>1
      <4>3. CASE e = "selflearning"
        <5>1. DigitsOf(e) = MaxSignal /\ Regular(e) = SignalLength + 1
              /\ MaxSignal \in Nat /\ SignalLength < MaxSignal /\ SignalLength \in Nat
          BY <4>3, RegularSize, RunsSize, BlockSizes, BlockAssumption DEF DigitsOf
        <5>2. QED
          BY <2>7, <3>4, <4>1, <5>1
      <4>4. QED
        BY <3>5, <4>2, <4>3
    <3> HIDE DEF x
    <3>6. /\ parse'.decoder = e /\ CommandValue(command'.keyed) = v
          /\ Len(digits') = m + 1
      BY <1>2, <2>5, <2>8
    <3>7. KeyedInv' <=>
            (Followed' /\ parse'.at # "idle" =>
               /\ m + 1 <= Regular(e)
               /\ \A k \in 0 .. (m + 1) - 1 :
                    digits'[k + 1] = IF KeyedOne(e, v, k) THEN 1 ELSE 0
               /\ e \in {"fineoffset", "mandolyn"} /\ digits' # <<>> => 0 \notin v
               /\ parse'.at = "over" /\ e \in {"selflearning", "everflourish", "x10"}
                    => m + 1 = Regular(e))
      BY <3>6 DEF KeyedInv
    <3>8. QED
      BY <2>6, <3>3, <3>4, <3>5, <3>7
  <2>12. QED
    BY <2>10, <2>11
<1>5. ASSUME ~ Followed' PROVE AirInv' /\ KeyedInv'
  BY <1>5 DEF AirInv, KeyedInv
<1>6. QED
  BY <1>3, <1>4, <1>5 DEF CommandInv

LEMMA CommandStep ==
  BlockInv /\ CommandInv /\ [BlockNext]_blockVars => CommandInv'
<1> SUFFICES ASSUME BlockInv, CommandInv, [BlockNext]_blockVars PROVE CommandInv'
  OBVIOUS
<1>1. CASE \E d \in Decoders : CallOnAny(d)
  BY <1>1, CallOnAnyFollows
<1>2. CASE \E d \in Decoders, c \in Commands, silence \in Silences :
             CallOnCommand(d, c, silence)
  BY <1>2, CallOnCommandFollows
<1>3. CASE SkipLast
  BY <1>3, SkipLastFollows
<1>4. CASE Return
  BY <1>4, ReturnFollows
<1>5. CASE \E length \in Lengths :
             InDigit(length) \/ NoDigit(length) \/ TakeDigit(length)
  BY <1>5, InDigitFollows, NoDigitFollows, TakeDigitFollows
<1>6. CASE UNCHANGED blockVars
  BY <1>6 DEF blockVars, CommandInv, SilenceInv, CountsInv, AirInv, KeyedInv,
              Followed, Ahead
<1>7. QED
  BY <1>1, <1>2, <1>3, <1>4, <1>5, <1>6 DEF BlockNext

LEMMA CommandAlways == BlockSpec => [](BlockInv /\ CommandInv)
<1>1. BlockInit => BlockInv /\ CommandInv
  BY BlockInitInv, CommandInitInv
<1>2. BlockInv /\ CommandInv /\ [BlockNext]_blockVars => (BlockInv /\ CommandInv)'
  BY BlockStep, CommandStep
<1>3. QED
  BY <1>1, <1>2, PTL DEF BlockSpec

\* What is followed is reported as what the digits of the command mean.
LEMMA FollowedMeans ==
  ASSUME BlockInv, CommandInv, Followed, parse.at = "over",
         NEW d, d = parse.decoder, NEW s, s = digits,
         NEW v, v = CommandValue(command.keyed)
  PROVE  /\ d \in Decoders /\ s \in Seq(Digits) /\ Len(s) \in Nat
         /\ reported = Meaning(d, s)
         /\ Len(s) <= Regular(d) /\ Regular(d) \in Nat
         /\ \A m \in 0 .. Len(s) - 1 : s[m + 1] = IF KeyedOne(d, v, m) THEN 1 ELSE 0
         /\ d \in {"selflearning", "everflourish", "x10"} => Len(s) = Regular(d)
         /\ v \subseteq 0 .. SignalLength
<1>1. /\ d \in Decoders /\ s \in Seq(Digits) /\ Len(s) <= DigitsOf(d)
      /\ reported = Heard(d, s)
  BY DEF BlockInv, ParseTypes, HeardInv
<1>2. /\ Len(s) <= Regular(d)
      /\ \A m \in 0 .. Len(s) - 1 : s[m + 1] = IF KeyedOne(d, v, m) THEN 1 ELSE 0
      /\ d \in {"selflearning", "everflourish", "x10"} => Len(s) = Regular(d)
  BY DEF CommandInv, KeyedInv
<1>3. v \subseteq 0 .. SignalLength
  BY CommandBits
<1>4. QED
  BY <1>1, <1>2, <1>3, HeardMeans, RegularType

\* A decoder that follows a command reads the bits of it from the lowest on.
LEMMA OnesOfCommand ==
  ASSUME NEW v, NEW s \in Seq(Digits),
         \A m \in 0 .. Len(s) - 1 : s[m + 1] = IF m \in v THEN 1 ELSE 0
  PROVE  \A p : p \in Ones(s) <=> p \in 0 .. Len(s) - 1 /\ p \in v
<1>1. ASSUME NEW p PROVE p \in Ones(s) <=> p \in 0 .. Len(s) - 1 /\ p \in v
  <2>1. p \in Ones(s) <=> p \in 0 .. Len(s) - 1 /\ s[p + 1] = 1
    BY OnesPlaces
  <2>2. p \in 0 .. Len(s) - 1 => s[p + 1] = IF p \in v THEN 1 ELSE 0
    OBVIOUS
  <2>3. QED
    BY <2>1, <2>2
<1>2. QED
  BY <1>1

\* A command that a TellStick Net keys is reported by the selflearning decoder
\* of another one as the house, method and unit it was keyed for, whatever they
\* are and however long its pulses are within the limits that tell them apart,
\* unless the silence before it looks like a digit (transmit_arctech.c:65-95,
\* receive.c:106, arctech.c:84-105).
THEOREM CommandsHeard == BlockSpec => []CommandHeard
<1>1. BlockInv /\ CommandInv => CommandHeard
  <2> SUFFICES ASSUME BlockInv, CommandInv, Over("selflearning"),
                      ~ LooksLikeDigit(command.silence)
               PROVE  reported = Report("selflearning", CommandValue(command.keyed))
    BY DEF CommandHeard
  <2>1. PICK d, s, v : /\ d = parse.decoder /\ s = digits
                       /\ v = CommandValue(command.keyed)
    OBVIOUS
  <2>2. Followed /\ parse.at = "over" /\ d = "selflearning"
    BY <2>1 DEF Followed, Over
  <2>3. /\ s \in Seq(Digits) /\ reported = Meaning(d, s)
        /\ \A m \in 0 .. Len(s) - 1 : s[m + 1] = IF KeyedOne(d, v, m) THEN 1 ELSE 0
        /\ Len(s) = Regular(d) /\ v \subseteq 0 .. SignalLength
    BY <2>1, <2>2, FollowedMeans
  <2>4. Len(s) = SignalLength + 1 /\ SignalLength \in Nat
    BY <2>2, <2>3, RegularSize, RunsSize
  <2>5. Ones(s) = v
    <3>1. \A m \in 0 .. Len(s) - 1 : s[m + 1] = IF m \in v THEN 1 ELSE 0
      BY <2>2, <2>3 DEF KeyedOne
    <3>2. \A p : p \in Ones(s) <=> p \in 0 .. Len(s) - 1 /\ p \in v
      BY <2>3, <3>1, OnesOfCommand
    <3>3. 0 .. Len(s) - 1 = 0 .. SignalLength
      BY <2>4
    <3>4. QED
      BY <2>3, <3>2, <3>3
  <2>6. SubSeq(s, Len(s) - SignalLength, Len(s)) = s
    <3>1. Len(s) - SignalLength = 1
      BY <2>4
    <3>2. SubSeq(s, 1, Len(s)) = s
      BY <2>3, SubSeqFull
    <3>3. QED
      BY <3>1, <3>2
  <2>7. Meaning(d, s) = Report(d, Ones(SubSeq(s, Len(s) - SignalLength, Len(s))))
    <3>1. ~ (Len(s) < SignalLength) /\ Len(s) # SignalLength
      BY <2>4
    <3>2. QED
      BY <2>2, <3>1 DEF Meaning
  <2>8. QED
    BY <2>1, <2>2, <2>3, <2>5, <2>6, <2>7
<1>2. QED
  BY <1>1, CommandAlways, PTL

LEMMA X10Bits ==
  ASSUME NEW v, NEW p \in 0 .. SignalLength
  PROVE  (X10One(v, 2 * p) <=> p \notin v) /\ (X10One(v, 2 * p + 1) <=> p \in v)
<1>1. \A q \in 0 .. SignalLength : /\ 2 * p = 2 * q <=> q = p
                                   /\ 2 * p + 1 = 2 * q + 1 <=> q = p
                                   /\ 2 * p # 2 * q + 1 /\ 2 * p + 1 # 2 * q
  BY RunsSize
<1>2. QED
  BY <1>1 DEF X10One

\* The bytes of digits that start at twice a place, and the halves of a byte of the
\* command that starts there.
BytesDiffer(s, place) ==
  \A k \in 1 .. ByteBits : s[k + 2 * place] # s[(k + 2 * place) + ByteBits]

HalvesDiffer(v, half, place) ==
  \A q \in 0 .. half - 1 : ~ (place + q \in v <=> (place + q) + half \in v)

\* Two bytes of X10 are each other's complement if so many bits of the command
\* differ from those half a byte further on.
LEMMA X10Complements ==
  ASSUME NEW v, NEW s, NEW h \in Nat, ByteBits = 2 * h,
         NEW base \in {0, ByteBits},
         \A m \in 0 .. 4 * ByteBits - 1 : s[m + 1] = IF X10One(v, m) THEN 1 ELSE 0
  PROVE  BytesDiffer(s, base) <=> HalvesDiffer(v, h, base)
<1>1. /\ SignalLength \in Nat /\ 2 * ByteBits <= SignalLength + 1
      /\ ByteBits \in Nat /\ base \in Nat /\ base <= ByteBits
  BY RunsSize, RegularSize, BlockSizes
<1>2. ASSUME NEW q \in 0 .. h - 1
      PROVE  /\ s[2 * (base + q) + 1] = IF base + q \in v THEN 0 ELSE 1
             /\ s[2 * (base + q) + 2] = IF base + q \in v THEN 1 ELSE 0
             /\ s[2 * ((base + q) + h) + 1] = IF (base + q) + h \in v THEN 0 ELSE 1
             /\ s[2 * ((base + q) + h) + 2] = IF (base + q) + h \in v THEN 1 ELSE 0
  <2>1. ASSUME NEW p \in 0 .. 2 * ByteBits - 1
        PROVE  /\ s[2 * p + 1] = IF p \in v THEN 0 ELSE 1
               /\ s[2 * p + 2] = IF p \in v THEN 1 ELSE 0
    <3>1. /\ p \in 0 .. SignalLength
          /\ 2 * p \in 0 .. 4 * ByteBits - 1 /\ 2 * p + 1 \in 0 .. 4 * ByteBits - 1
          /\ (2 * p + 1) + 1 = 2 * p + 2
      BY <1>1
    <3>2. (X10One(v, 2 * p) <=> p \notin v) /\ (X10One(v, 2 * p + 1) <=> p \in v)
      BY <3>1, X10Bits
    <3>3. /\ s[2 * p + 1] = IF X10One(v, 2 * p) THEN 1 ELSE 0
          /\ s[(2 * p + 1) + 1] = IF X10One(v, 2 * p + 1) THEN 1 ELSE 0
      BY <3>1
    <3>4. QED
      BY <3>1, <3>2, <3>3
  <2>2. base + q \in 0 .. 2 * ByteBits - 1 /\ (base + q) + h \in 0 .. 2 * ByteBits - 1
    BY <1>1
  <2>3. QED
    BY <2>1, <2>2
<1>3. ASSUME NEW q \in 0 .. h - 1
      PROVE  /\ 2 * q + 1 \in 1 .. ByteBits /\ 2 * q + 2 \in 1 .. ByteBits
             /\ (2 * q + 1) + 2 * base = 2 * (base + q) + 1
             /\ ((2 * q + 1) + 2 * base) + ByteBits = 2 * ((base + q) + h) + 1
             /\ (2 * q + 2) + 2 * base = 2 * (base + q) + 2
             /\ ((2 * q + 2) + 2 * base) + ByteBits = 2 * ((base + q) + h) + 2
  BY <1>1
<1>4. ASSUME \A k \in 1 .. ByteBits : s[k + 2 * base] # s[(k + 2 * base) + ByteBits],
             NEW q \in 0 .. h - 1
      PROVE  ~ (base + q \in v <=> (base + q) + h \in v)
  <2>1. s[2 * (base + q) + 1] # s[2 * ((base + q) + h) + 1]
    BY <1>3, <1>4
  <2>2. QED
    BY <1>2, <2>1
<1>5. ASSUME \A q \in 0 .. h - 1 : ~ (base + q \in v <=> (base + q) + h \in v),
             NEW k \in 1 .. ByteBits
      PROVE  s[k + 2 * base] # s[(k + 2 * base) + ByteBits]
  <2>1. PICK q \in Int : k - 1 = 2 * q \/ k - 1 = 2 * q + 1
    <3>1. k - 1 \in Nat
      BY <1>1
    <3>2. QED
      BY <3>1, HalvesOf
  <2>2. q \in 0 .. h - 1 /\ (k = 2 * q + 1 \/ k = 2 * q + 2)
    BY <1>1, <2>1
  <2>3. ~ (base + q \in v <=> (base + q) + h \in v)
    BY <1>5, <2>2
  <2>4. CASE k = 2 * q + 1
    BY <1>2, <1>3, <2>2, <2>3, <2>4
  <2>5. CASE k = 2 * q + 2
    BY <1>2, <1>3, <2>2, <2>3, <2>5
  <2>6. QED
    BY <2>2, <2>4, <2>5
<1>6. QED
  BY <1>4, <1>5 DEF BytesDiffer, HalvesDiffer

\* Every other decoder takes a command for exactly this: Everflourish always for
\* a message of its own, made of the lowest bits, X10 if two pairs of half bytes
\* of the command differ in every bit, and the others never for a message
\* (transmit_arctech.c:65-95, receive.c:206-214).
THEOREM CommandsTakenFor == BlockSpec => []AlsoTakenFor
<1>1. BlockInv /\ CommandInv => AlsoTakenFor
  <2> SUFFICES ASSUME BlockInv, CommandInv PROVE AlsoTakenFor
    OBVIOUS
  <2>1. PICK d, s, v : /\ d = parse.decoder /\ s = digits
                       /\ v = CommandValue(command.keyed)
    OBVIOUS
  <2>2. ASSUME Over(d), d # "selflearning"
        PROVE  /\ d \in Decoders /\ s \in Seq(Digits) /\ Len(s) \in Nat
               /\ reported = Meaning(d, s)
               /\ Len(s) <= Regular(d)
               /\ \A m \in 0 .. Len(s) - 1 :
                    s[m + 1] = IF KeyedOne(d, v, m) THEN 1 ELSE 0
               /\ d \in {"everflourish", "x10"} => Len(s) = Regular(d)
               /\ v \subseteq 0 .. SignalLength
    <3>1. Followed /\ parse.at = "over"
      BY <2>1, <2>2 DEF Followed, Over
    <3>2. QED
      BY <2>1, <3>1, FollowedMeans
  <2>3. ASSUME NEW e \in {"codeswitch", "fineoffset", "mandolyn", "pt2262"}, Over(e)
        PROVE  reported = Nothing
    <3>1. d = e /\ d # "selflearning" /\ Over(d)
      BY <2>1, <2>3 DEF Over
    <3>2. Len(s) \in Nat /\ Len(s) <= Regular(d) /\ reported = Meaning(d, s)
      BY <2>2, <3>1
    <3>3. Len(s) < DigitsOf(d)
      <4>1. CASE d \in {"codeswitch", "pt2262"}
        <5>1. Regular(d) = 0 /\ DigitsOf(d) \in Nat \ {0}
          BY <4>1, RegularSize, DigitsOfType DEF Decoders
        <5>2. QED
          BY <3>2, <5>1
      <4>2. CASE d \in {"fineoffset", "mandolyn"}
        <5>1. Regular(d) = 1 /\ DigitsOf(d) \in Nat /\ DigitsOf(d) > 1
          BY <4>2, RegularSize, BlockSizes DEF DigitsOf
        <5>2. QED
          BY <3>2, <5>1
      <4>3. QED
        BY <3>1, <4>1, <4>2
    <3>4. QED
      BY <3>1, <3>2, <3>3 DEF Meaning
  <2>4. ASSUME Over("everflourish")
        PROVE  reported = Report("everflourish", {p \in v : p < EverflourishDigits})
    <3>1. d = "everflourish" /\ Over(d)
      BY <2>1, <2>4 DEF Over
    <3>2. /\ s \in Seq(Digits) /\ reported = Meaning(d, s)
          /\ \A m \in 0 .. Len(s) - 1 : s[m + 1] = IF m \in v THEN 1 ELSE 0
          /\ Len(s) = EverflourishDigits /\ v \subseteq 0 .. SignalLength
      BY <2>2, <3>1, RegularSize DEF KeyedOne
    <3>3. \A p : p \in Ones(s) <=> p \in 0 .. Len(s) - 1 /\ p \in v
      BY <3>2, OnesOfCommand
    <3>4. \A p \in v : p \in 0 .. Len(s) - 1 <=> p < EverflourishDigits
      BY <3>2, RegularSize, RunsSize
    <3>5. Ones(s) = {p \in v : p < EverflourishDigits}
      BY <3>3, <3>4
    <3>6. Meaning(d, s) = Report(d, Ones(s))
      <4>1. Len(s) = DigitsOf(d) /\ ~ (Len(s) < DigitsOf(d))
        BY <3>1, <3>2, RegularSize DEF DigitsOf
      <4>2. QED
        BY <3>1, <4>1 DEF Meaning
    <3>7. QED
      BY <3>1, <3>2, <3>5, <3>6
  <2> DEFINE half == ByteBits \div 2
             Differ(p) == (p \in v) # (p + half \in v)
  <2>5. ASSUME Over("x10")
        PROVE  (reported # Nothing) =
                 \A k \in 0 .. half - 1 : Differ(k) /\ Differ(ByteBits + k)
    <3>1. d = "x10" /\ Over(d)
      BY <2>1, <2>5 DEF Over
    <3>2. /\ s \in Seq(Digits) /\ reported = Meaning(d, s)
          /\ \A m \in 0 .. Len(s) - 1 : s[m + 1] = IF X10One(v, m) THEN 1 ELSE 0
          /\ Len(s) = 4 * ByteBits
      BY <2>2, <3>1, RegularSize DEF KeyedOne
    <3>3. half \in Nat /\ ByteBits = 2 * half /\ ByteBits \in Nat
      BY CommandAssumption, BlockSizes
    <3>4. Meaning(d, s) =
            IF \A k \in 1 .. ByteBits : /\ s[k] # s[k + ByteBits]
                                        /\ s[k + 2 * ByteBits] # s[k + 3 * ByteBits]
              THEN Report(d, Ones(s)) ELSE Nothing
      <4>1. Len(s) = DigitsOf(d) /\ ~ (Len(s) < DigitsOf(d))
        BY <3>1, <3>2, <3>3 DEF DigitsOf
      <4>2. QED
        BY <3>1, <4>1 DEF Meaning
    <3>5. Report(d, Ones(s)) # Nothing
      <4>1. DOMAIN Report(d, Ones(s)) = {"decoder", "data"}
        BY DEF Report
      <4>2. DOMAIN Nothing = {}
        BY DEF Nothing
      <4>3. QED
        BY <4>1, <4>2
    <3> HIDE DEF half
    <3>6. ASSUME NEW base \in {0, ByteBits}
          PROVE  BytesDiffer(s, base) <=> HalvesDiffer(v, half, base)
      <4>1. \A m \in 0 .. 4 * ByteBits - 1 :
              s[m + 1] = IF X10One(v, m) THEN 1 ELSE 0
        BY <3>2
      <4>2. QED
        BY <3>3, <4>1, X10Complements
    <3>7. (\A k \in 1 .. ByteBits : s[k] # s[k + ByteBits]) <=>
            \A q \in 0 .. half - 1 : Differ(q)
      <4>1. BytesDiffer(s, 0) <=> HalvesDiffer(v, half, 0)
        BY <3>6
      <4>2. /\ \A k \in 1 .. ByteBits : k + 2 * 0 = k
            /\ \A q \in 0 .. half - 1 : 0 + q = q
        BY <3>3
      <4>3. QED
        BY <4>1, <4>2 DEF BytesDiffer, HalvesDiffer
    <3>8. (\A k \in 1 .. ByteBits : s[k + 2 * ByteBits] # s[k + 3 * ByteBits]) <=>
            \A q \in 0 .. half - 1 : Differ(ByteBits + q)
      <4>1. BytesDiffer(s, ByteBits) <=> HalvesDiffer(v, half, ByteBits)
        BY <3>6
      <4>2. \A k \in 1 .. ByteBits : (k + 2 * ByteBits) + ByteBits = k + 3 * ByteBits
        BY <3>3
      <4>3. QED
        BY <4>1, <4>2 DEF BytesDiffer, HalvesDiffer
    <3>9. (\A k \in 1 .. ByteBits : /\ s[k] # s[k + ByteBits]
                                    /\ s[k + 2 * ByteBits] # s[k + 3 * ByteBits]) <=>
            \A q \in 0 .. half - 1 : Differ(q) /\ Differ(ByteBits + q)
      BY <3>7, <3>8
    <3> HIDE DEF Differ
    <3>10. QED
      BY <3>2, <3>4, <3>5, <3>9
  <2>6. QED
    BY <2>1, <2>3, <2>4, <2>5 DEF AlsoTakenFor
<1>2. QED
  BY <1>1, CommandAlways, PTL

=============================================================================
