-------------------------- MODULE ReceptionProofs --------------------------
(***************************************************************************)
(* Proofs about LiveMessage for every alphabet, every size of its buffers  *)
(* and every set of names, keys and values a message has room for; and,    *)
(* with the proofs of the other parts, about Reception as a whole.         *)
(*                                                                         *)
(* A message is a list of fields, and the text is where each of them ends  *)
(* (Laid).  From there the proof follows the reader: what stands at a      *)
(* place is taken from it (StringTaken, ValueTaken), a search goes from    *)
(* field to field to the first one with its key (FindGives), and every     *)
(* call leaves an answer that is right for the fields (Answers).           *)
(***************************************************************************)
EXTENDS Reception, StreamDecodersProofs, BlockDecodersProofs, RfReceiveProofs

-----------------------------------------------------------------------------
(* The digits and the numbers of a message.                                *)

\* A set of numbers has a least one.
LEMMA LeastIs ==
  ASSUME NEW S, S \subseteq Nat, S # {}
  PROVE  Min(S) \in S /\ \A n \in S : Min(S) <= n
<1>1. PICK x \in S : \A y \in S : ~ (<<y, x>> \in {r \in Nat \X Nat : r[1] < r[2]})
  BY NatWellFounded, WFMin
<1>2. ASSUME NEW y \in S PROVE x <= y
  <2>1. x \in Nat /\ y \in Nat
    OBVIOUS
  <2>2. ~ (y < x)
    BY <1>1, <2>1
  <2>3. QED
    BY <2>1, <2>2
<1>3. QED
  BY <1>2 DEF Min

LEMMA Joining ==
  ASSUME NEW s \in Seq(Chars), NEW t \in Seq(Chars)
  PROVE  /\ s \o t \in Seq(Chars) /\ Len(s \o t) = Len(s) + Len(t)
         /\ Len(s) \in Nat /\ Len(t) \in Nat
<1>1. s \o t \in Seq(Chars) /\ Len(s \o t) = Len(s) + Len(t)
  BY ConcatProperties
<1>2. Len(s) \in Nat /\ Len(t) \in Nat
  BY LenProperties
<1>3. QED
  BY <1>1, <1>2

LEMMA JoiningThree ==
  ASSUME NEW s \in Seq(Chars), NEW t \in Seq(Chars), NEW u \in Seq(Chars)
  PROVE  (s \o t) \o u = s \o (t \o u)
  BY ConcatAssociative

LEMMA MessageSizes ==
  /\ HexDigits \in Seq(Chars) /\ Radix \in Nat \ {0} /\ Radix = Len(HexDigits)
  /\ DOMAIN HexDigits = 1 .. Radix
  /\ BufferSize \in Nat \ {0} /\ KeySize \in Nat \ {0} /\ TakeSize \in Nat \ {0}
  /\ LongDigits \in Nat \ {0} /\ MaxFields \in Nat \ {0}
<1>1. HexDigits \in Seq(Chars) /\ HexDigits # <<>>
  BY MessageAssumption
<1>2. Len(HexDigits) \in Nat \ {0} /\ DOMAIN HexDigits = 1 .. Len(HexDigits)
  BY <1>1, LenProperties, EmptySeq
<1>3. QED
  BY <1>1, <1>2, MessageAssumption DEF Radix

\* The digit of a number below the radix.
DigitOf(n) == HexDigits[n + 1]

LEMMA DigitsRead ==
  /\ \A n \in 0 .. Radix - 1 :
       /\ DigitOf(n) \in ToSet(HexDigits) /\ DigitOf(n) \in Chars
       /\ hexToByte(DigitOf(n)) = n
       /\ DigitOf(n) = "0" <=> n = 0
  /\ \A c \in ToSet(HexDigits) : c # "h" /\ c # "i" /\ c # "s" /\ c # ":"
  /\ \A c : hexToByte(c) \in Nat
<1>1. \A n \in 0 .. Radix - 1 : n + 1 \in 1 .. Radix
  BY MessageSizes
<1>2. ToSet(HexDigits) = {HexDigits[n] : n \in 1 .. Radix}
  BY MessageSizes DEF ToSet
<1>3. ToSet(LowerDigits) = {LowerDigits[n] : n \in 1 .. Radix}
  <2>1. LowerDigits \in Seq(Chars) /\ Len(LowerDigits) = Radix
    BY MessageSizes, MessageAssumption
  <2>2. DOMAIN LowerDigits = 1 .. Radix
    BY <2>1, LenProperties
  <2>3. QED
    BY <2>2 DEF ToSet
<1>4. ASSUME NEW n \in 0 .. Radix - 1
      PROVE  /\ DigitOf(n) \in ToSet(HexDigits) /\ DigitOf(n) \in Chars
             /\ hexToByte(DigitOf(n)) = n
             /\ DigitOf(n) = "0" <=> n = 0
  <2>1. n + 1 \in 1 .. Radix /\ 1 \in 1 .. Radix
    BY MessageSizes
  <2>2. DigitOf(n) \in ToSet(HexDigits)
    BY <1>2, <2>1 DEF DigitOf
  <2>3. DigitOf(n) \in Chars
    BY <2>1, MessageSizes, ElementOfSeq DEF DigitOf
  <2> DEFINE m == CHOOSE k \in DOMAIN HexDigits :
                    DigitOf(n) \in {HexDigits[k], LowerDigits[k]}
  <2>4. m \in DOMAIN HexDigits /\ DigitOf(n) \in {HexDigits[m], LowerDigits[m]}
    BY <2>1, MessageSizes DEF DigitOf
  <2>5. m = n + 1
    BY <2>1, <2>4, MessageSizes, MessageAssumption DEF DigitOf
  <2>6. hexToByte(DigitOf(n)) = m - 1
    BY <2>2 DEF hexToByte
  <2> HIDE DEF m
  <2>7. hexToByte(DigitOf(n)) = n
    BY <2>5, <2>6
  <2>8. HexDigits[1] = "0"
    BY MessageAssumption
  <2>9. DigitOf(n) = "0" <=> n + 1 = 1
    BY <2>1, <2>8, MessageSizes, MessageAssumption DEF DigitOf
  <2>10. DigitOf(n) = "0" <=> n = 0
    BY <2>9
  <2>11. QED
    BY <2>2, <2>3, <2>7, <2>10
<1>5. \A c \in ToSet(HexDigits) : c # "h" /\ c # "i" /\ c # "s" /\ c # ":"
  BY MessageAssumption
<1>6. ASSUME NEW c PROVE hexToByte(c) \in Nat
  <2> DEFINE isDigit == c \in ToSet(HexDigits) \cup ToSet(LowerDigits)
  <2>1. CASE isDigit
    <3> DEFINE m == CHOOSE k \in DOMAIN HexDigits : c \in {HexDigits[k], LowerDigits[k]}
    <3>1. \E k \in DOMAIN HexDigits : c \in {HexDigits[k], LowerDigits[k]}
      BY <1>2, <1>3, <2>1, MessageSizes
    <3>2. m \in 1 .. Radix
      BY <3>1, MessageSizes
    <3>3. hexToByte(c) = m - 1
      BY <2>1 DEF hexToByte
    <3> HIDE DEF m
    <3>4. QED
      BY <3>2, <3>3, MessageSizes
  <2>2. CASE ~ isDigit
    BY <2>2 DEF hexToByte
  <2>3. QED
    BY <2>1, <2>2
<1>7. QED
  BY <1>4, <1>5, <1>6

LEMMA PlaceDef ==
  /\ \A n \in 0 .. LongDigits : place[n] \in Nat \ {0}
  /\ place[0] = 1
  /\ \A n \in 1 .. LongDigits : place[n] = Radix * place[n - 1]
<1> DEFINE N == LongDigits
           S == Nat \ {0}
           Def(f) == f = [n \in 0 .. N |-> IF n = 0 THEN 1 ELSE Radix * f[n - 1]]
           step == [t \in (1 .. N) \X S |-> Radix * t[2]]
<1>1. N \in Nat
  BY MessageSizes
<1>2. step \in [(1 .. N) \X S -> S]
  BY MessageSizes
<1>3. \A n \in 1 .. N, s \in S : step[<<n, s>>] = Radix * s
  OBVIOUS
<1> HIDE DEF step
<1>4. PICK f : IsRecursive(f, N, S, 1, step)
  <2>1. 1 \in S
    OBVIOUS
  <2> HIDE DEF S, N
  <2>2. QED
    BY <1>1, <1>2, <2>1, Recursion
<1>5. /\ f \in [0 .. N -> S] /\ f[0] = 1
      /\ \A n \in 1 .. N : f[n] = step[<<n, f[n - 1]>>]
  BY <1>4 DEF IsRecursive
<1>6. \A n \in 1 .. N : f[n - 1] \in S
  BY <1>1, <1>5
<1>7. \A n \in 1 .. N : f[n] = Radix * f[n - 1]
  BY <1>3, <1>5, <1>6
<1>8. Def(f)
  BY <1>1, <1>5, <1>7
<1>9. Def(place)
  BY <1>8 DEF place
<1>10. place[0] = 1 /\ \A n \in 1 .. N : place[n] = Radix * place[n - 1]
  BY <1>1, <1>9
<1> DEFINE T == {n \in 0 .. N : place[n] \in S}
<1>11. 0 \in T
  BY <1>1, <1>10
<1>12. ASSUME NEW n \in T, n < N PROVE n + 1 \in T
  <2>1. n + 1 \in 1 .. N /\ (n + 1) - 1 = n /\ n + 1 \in 0 .. N
    BY <1>1, <1>12
  <2>2. place[n + 1] = Radix * place[n]
    BY <2>1, <1>10
  <2>3. QED
    BY <2>1, <2>2, MessageSizes
<1>13. T \subseteq 0 .. N
  OBVIOUS
<1> HIDE DEF T, N
<1>14. \A n \in 0 .. N : n \in T
  BY <1>1, <1>11, <1>12, <1>13, BoundedInduction
<1>15. QED
  BY <1>10, <1>14 DEF T, N

\* How a number is put together from its digits.
IsNumber(number, chars, limit) ==
  /\ number \in [0 .. Len(chars) -> 0 .. limit - 1]
  /\ number[0] = 0
  /\ \A n \in 1 .. Len(chars) :
       number[n] = (number[n - 1] * Radix + hexToByte(chars[n])) % limit

LEMMA HexNumberDef ==
  ASSUME NEW S, NEW chars \in Seq(S), NEW limit \in Nat \ {0}
  PROVE  \E number : /\ IsNumber(number, chars, limit)
                     /\ HexNumber(chars, limit) = number[Len(chars)]
<1> DEFINE N == Len(chars)
           V == 0 .. limit - 1
           Def(f) == f = [n \in 0 .. N |->
                            IF n = 0 THEN 0
                            ELSE (f[n - 1] * Radix + hexToByte(chars[n])) % limit]
           step == [t \in (1 .. N) \X V |->
                      (t[2] * Radix + hexToByte(chars[t[1]])) % limit]
<1>1. N \in Nat
  BY LenProperties
<1>2. ASSUME NEW n \in 1 .. N, NEW v \in V
      PROVE  (v * Radix + hexToByte(chars[n])) % limit \in V
  <2>1. hexToByte(chars[n]) \in Nat /\ Radix \in Nat
    BY DigitsRead, MessageSizes
  <2>2. v * Radix + hexToByte(chars[n]) \in Int
    BY <2>1
  <2>3. QED
    BY <2>2, DivMod
<1>3. step \in [(1 .. N) \X V -> V]
  BY <1>2
<1>4. \A n \in 1 .. N, v \in V :
        step[<<n, v>>] = (v * Radix + hexToByte(chars[n])) % limit
  OBVIOUS
<1> HIDE DEF step
<1>5. PICK f : IsRecursive(f, N, V, 0, step)
  <2>1. 0 \in V
    OBVIOUS
  <2> HIDE DEF V, N
  <2>2. QED
    BY <1>1, <1>3, <2>1, Recursion
<1>6. /\ f \in [0 .. N -> V] /\ f[0] = 0
      /\ \A n \in 1 .. N : f[n] = step[<<n, f[n - 1]>>]
  BY <1>5 DEF IsRecursive
<1>7. \A n \in 1 .. N : f[n - 1] \in V
  BY <1>1, <1>6
<1>8. \A n \in 1 .. N : f[n] = (f[n - 1] * Radix + hexToByte(chars[n])) % limit
  BY <1>4, <1>6, <1>7
<1>9. Def(f)
  BY <1>1, <1>6, <1>8
<1> DEFINE number == CHOOSE g : Def(g)
<1>10. Def(number)
  BY <1>9
<1>11. HexNumber(chars, limit) = number[N]
  BY DEF HexNumber
<1> HIDE DEF number
<1>12. /\ number[0] = 0
       /\ \A n \in 1 .. N :
            number[n] = (number[n - 1] * Radix + hexToByte(chars[n])) % limit
  BY <1>1, <1>10
<1>17. number = [n \in 0 .. N |-> number[n]]
  BY <1>10
<1> DEFINE T == {n \in 0 .. N : number[n] \in V}
<1>13. 0 \in T
  BY <1>1, <1>12
<1>14. ASSUME NEW n \in T, n < N PROVE n + 1 \in T
  <2>1. n + 1 \in 1 .. N /\ (n + 1) - 1 = n /\ n + 1 \in 0 .. N
    BY <1>1, <1>14
  <2>2. number[n + 1] = (number[n] * Radix + hexToByte(chars[n + 1])) % limit
    BY <2>1, <1>12
  <2>3. number[n] \in V
    OBVIOUS
  <2> HIDE DEF V
  <2>4. QED
    BY <2>1, <2>2, <2>3, <1>2
<1>15. T \subseteq 0 .. N
  OBVIOUS
<1> HIDE DEF T, N, V
<1>16. \A n \in 0 .. N : n \in T
  BY <1>1, <1>13, <1>14, <1>15, BoundedInduction
<1>18. number \in [0 .. N -> V]
  BY <1>16, <1>17 DEF T
<1>19. QED
  BY <1>11, <1>12, <1>18 DEF N, V, IsNumber

\* What is cut to a limit on the way can as well be cut at the end.
LEMMA TimesModulo ==
  ASSUME NEW x \in Nat, NEW r \in Nat, NEW h \in Nat, NEW limit \in Nat \ {0}
  PROVE  ((x % limit) * r + h) % limit = (x * r + h) % limit
<1>1. PICK q \in Int, s \in 0 .. limit - 1 : s = x % limit /\ x = limit * q + s
  <2>1. /\ x \div limit \in Int /\ x % limit \in 0 .. limit - 1
        /\ x = limit * (x \div limit) + (x % limit)
    BY DivMod
  <2>2. QED
    BY <2>1
<1>2. s * r + h \in Int /\ q * r \in Int
  OBVIOUS
<1>3. PICK p \in Int, t \in 0 .. limit - 1 :
        t = (s * r + h) % limit /\ s * r + h = limit * p + t
  BY <1>2, DivMod
<1>4. x * r + h = limit * (q * r + p) + t
  <2>1. PICK y \in Int : y = limit * q
    OBVIOUS
  <2>2. PICK z \in Int : z = q * r
    BY <1>2
  <2>3. y * r = limit * z
    BY <2>1, <2>2, Times
  <2>4. x * r = y * r + s * r
    BY <1>1, <2>1
  <2>5. limit * (z + p) = limit * z + limit * p
    OBVIOUS
  <2>6. PICK a \in Int : a = s * r
    OBVIOUS
  <2>7. PICK b \in Int : b = limit * p
    OBVIOUS
  <2>8. PICK c \in Int : c = limit * z
    OBVIOUS
  <2>9. x * r = c + a /\ a + h = b + t /\ limit * (z + p) = c + b
    BY <1>3, <2>3, <2>4, <2>5, <2>6, <2>7, <2>8
  <2>10. x * r + h = limit * (z + p) + t
    BY <2>9
  <2>11. QED
    BY <2>2, <2>10
<1>5. PICK k \in Int : k = q * r + p
  BY <1>2
<1>6. (limit * k + t) % limit = t
  BY DivModUnique
<1>7. QED
  BY <1>1, <1>3, <1>4, <1>5, <1>6

\* A number is what its digits count, as far as the limit has room for it.
LEMMA NumberModulo ==
  ASSUME NEW S, NEW chars \in Seq(S), NEW limit \in Nat \ {0},
         NEW value \in [0 .. Len(chars) -> Nat], value[0] = 0,
         \A n \in 1 .. Len(chars) :
           value[n] = value[n - 1] * Radix + hexToByte(chars[n])
  PROVE  HexNumber(chars, limit) = value[Len(chars)] % limit
<1> DEFINE N == Len(chars)
<1>1. N \in Nat
  BY LenProperties
<1>2. PICK number : /\ IsNumber(number, chars, limit)
                    /\ HexNumber(chars, limit) = number[Len(chars)]
  BY HexNumberDef
<1> DEFINE T == {n \in 0 .. N : number[n] = value[n] % limit}
<1>3. 0 \in T
  <2>1. 0 % limit = 0
    BY NearMod
  <2>2. QED
    BY <1>1, <1>2, <2>1 DEF IsNumber
<1>4. ASSUME NEW n \in T, n < N PROVE n + 1 \in T
  <2>1. n + 1 \in 1 .. N /\ (n + 1) - 1 = n /\ n + 1 \in 0 .. N /\ n \in 0 .. N
    BY <1>1, <1>4
  <2>2. number[n + 1] = (number[n] * Radix + hexToByte(chars[n + 1])) % limit
    BY <2>1, <1>2 DEF IsNumber
  <2>3. value[n + 1] = value[n] * Radix + hexToByte(chars[n + 1])
    BY <2>1
  <2>4. PICK v \in Nat : v = value[n]
    BY <2>1
  <2>5. PICK h \in Nat : h = hexToByte(chars[n + 1])
    BY DigitsRead
  <2>6. PICK r \in Nat : r = Radix
    BY MessageSizes
  <2>7. number[n] = v % limit
    BY <2>4
  <2>8. ((v % limit) * r + h) % limit = (v * r + h) % limit
    BY TimesModulo, ZenonT(30)
  <2>9. number[n + 1] = ((v % limit) * r + h) % limit
    BY <2>2, <2>5, <2>6, <2>7
  <2>10. value[n + 1] = v * r + h
    BY <2>3, <2>4, <2>5, <2>6
  <2>11. number[n + 1] = value[n + 1] % limit
    BY <2>8, <2>9, <2>10
  <2>12. QED
    BY <2>1, <2>11
<1>5. T \subseteq 0 .. N
  OBVIOUS
<1> HIDE DEF T, N
<1>6. \A n \in 0 .. N : n \in T
  BY <1>1, <1>3, <1>4, <1>5, BoundedInduction
<1>7. N \in T
  BY <1>1, <1>6
<1>8. QED
  BY <1>2, <1>7 DEF N, T

LEMMA NumberIs ==
  ASSUME NEW S, NEW chars \in Seq(S), NEW limit \in Nat \ {0},
         NEW value \in [0 .. Len(chars) -> 0 .. limit - 1], value[0] = 0,
         \A n \in 1 .. Len(chars) :
           value[n] = value[n - 1] * Radix + hexToByte(chars[n])
  PROVE  HexNumber(chars, limit) = value[Len(chars)]
<1>1. value \in [0 .. Len(chars) -> Nat]
  OBVIOUS
<1>2. HexNumber(chars, limit) = value[Len(chars)] % limit
  BY <1>1, NumberModulo
<1>3. PICK v \in 0 .. limit - 1 : v = value[Len(chars)]
  <2>1. Len(chars) \in 0 .. Len(chars)
    BY LenProperties
  <2>2. QED
    BY <2>1
<1>4. v % limit = v
  BY NearMod
<1>5. QED
  BY <1>2, <1>3, <1>4

\* The digits of a length.
LengthDigits(n) ==
  IF btohexa_high(n) = "0" THEN <<btohexa_low(n)>>
  ELSE <<btohexa_high(n), btohexa_low(n)>>

LEMMA HalfBytes ==
  ASSUME NEW n \in 0 .. Radix * Radix - 1
  PROVE  /\ n \div Radix \in 0 .. Radix - 1 /\ n % Radix \in 0 .. Radix - 1
         /\ btohexa_high(n) = DigitOf(n \div Radix)
         /\ btohexa_low(n) = DigitOf(n % Radix)
         /\ n = (n \div Radix) * Radix + (n % Radix)
<1> DEFINE R == Radix
           q == n \div R
           r == n % R
<1>1. R \in Nat \ {0}
  BY MessageSizes
<1>2. n \in Int /\ 0 <= n /\ n < R * R
  <2>1. R * R \in Int
    BY <1>1
  <2>2. QED
    BY <2>1
<1>3. q \in Int /\ r \in 0 .. R - 1 /\ n = R * q + r
  BY <1>1, <1>2, DivMod
<1> HIDE DEF q, r, R
<1>4. q >= 0
  <2>1. CASE q <= -1
    <3>1. R * q <= R * (-1)
      BY <1>1, <1>3, <2>1
    <3>2. QED
      BY <1>1, <1>2, <1>3, <3>1
  <2>2. QED
    BY <1>3, <2>1
<1>5. q < R
  <2>1. CASE q >= R
    <3>1. R * q >= R * R
      BY <1>1, <1>3, <2>1
    <3>2. QED
      BY <1>1, <1>2, <1>3, <3>1
  <2>2. QED
    BY <1>1, <1>3, <2>1
<1>6. q \in 0 .. R - 1
  BY <1>1, <1>3, <1>4, <1>5
<1>7. q % R = q
  BY <1>1, <1>6, NearMod
<1>8. btohexa_high(n) = DigitOf(q) /\ btohexa_low(n) = DigitOf(r)
  BY <1>7 DEF btohexa_high, btohexa_low, DigitOf, q, r, R
<1>9. n = q * R + r
  BY <1>1, <1>3
<1>10. QED
  BY <1>3, <1>6, <1>8, <1>9 DEF q, r, R

LEMMA LengthIs ==
  ASSUME NEW n \in 0 .. Radix * Radix - 1
  PROVE  /\ LengthDigits(n) \in Seq(ToSet(HexDigits))
         /\ Len(LengthDigits(n)) \in {1, 2}
         /\ HexNumber(LengthDigits(n), Radix * Radix) = n
<1> DEFINE R == Radix
           D == ToSet(HexDigits)
           q == n \div R
           r == n % R
<1>1. R \in Nat \ {0} /\ R * R \in Nat \ {0} /\ n \in Nat /\ R <= R * R
  BY MessageSizes
<1>2. /\ q \in 0 .. R - 1 /\ r \in 0 .. R - 1 /\ n = q * R + r
      /\ btohexa_high(n) = DigitOf(q) /\ btohexa_low(n) = DigitOf(r)
  BY HalfBytes
<1> HIDE DEF q, r, D, R
<1>3. /\ DigitOf(q) \in D /\ DigitOf(r) \in D
      /\ hexToByte(DigitOf(q)) = q /\ hexToByte(DigitOf(r)) = r
      /\ DigitOf(q) = "0" <=> q = 0
  BY <1>2, DigitsRead DEF D, R
<1>4. CASE q = 0
  <2>1. LengthDigits(n) = <<DigitOf(r)>>
    BY <1>2, <1>3, <1>4 DEF LengthDigits
  <2> DEFINE s == <<DigitOf(r)>>
             value == [k \in 0 .. 1 |-> IF k = 0 THEN 0 ELSE n]
  <2>2. s \in Seq(D) /\ Len(s) = 1 /\ s[1] = DigitOf(r)
    BY <1>3
  <2>3. value \in [0 .. 1 -> 0 .. R * R - 1] /\ value[0] = 0 /\ value[1] = n
    BY <1>1 DEF R
  <2>4. n = r
    BY <1>1, <1>2, <1>4
  <2> HIDE DEF s, value
  <2>5. \A k \in 1 .. Len(s) : value[k] = value[k - 1] * R + hexToByte(s[k])
    <3>1. value[1] = value[1 - 1] * R + hexToByte(s[1])
      BY <1>1, <1>3, <2>2, <2>3, <2>4
    <3>2. \A k \in 1 .. Len(s) : k = 1
      BY <2>2
    <3>3. QED
      BY <3>1, <3>2
  <2>6. HexNumber(s, R * R) = value[Len(s)]
    BY <1>1, <2>2, <2>3, <2>5, NumberIs DEF R
  <2>7. HexNumber(s, R * R) = n
    BY <2>2, <2>3, <2>6
  <2>8. QED
    BY <2>1, <2>2, <2>7 DEF s, D, R
<1>5. CASE q # 0
  <2>1. LengthDigits(n) = <<DigitOf(q), DigitOf(r)>>
    BY <1>2, <1>3, <1>5 DEF LengthDigits
  <2> DEFINE s == <<DigitOf(q), DigitOf(r)>>
             value == [k \in 0 .. 2 |-> IF k = 0 THEN 0 ELSE IF k = 1 THEN q ELSE n]
  <2>2. s \in Seq(D) /\ Len(s) = 2 /\ s[1] = DigitOf(q) /\ s[2] = DigitOf(r)
    BY <1>3
  <2>3. q \in 0 .. R * R - 1
    BY <1>1, <1>2
  <2>4. /\ value \in [0 .. 2 -> 0 .. R * R - 1]
        /\ value[0] = 0 /\ value[1] = q /\ value[2] = n
    BY <1>1, <2>3 DEF R
  <2> HIDE DEF s, value
  <2>5. \A k \in 1 .. Len(s) : value[k] = value[k - 1] * R + hexToByte(s[k])
    <3>1. value[1] = value[1 - 1] * R + hexToByte(s[1])
      BY <1>1, <1>2, <1>3, <2>2, <2>4
    <3>2. value[2] = value[2 - 1] * R + hexToByte(s[2])
      BY <1>1, <1>2, <1>3, <2>2, <2>4
    <3>3. \A k \in 1 .. Len(s) : k = 1 \/ k = 2
      BY <2>2
    <3>4. QED
      BY <3>1, <3>2, <3>3
  <2>6. HexNumber(s, R * R) = value[Len(s)]
    BY <1>1, <2>2, <2>4, <2>5, NumberIs DEF R
  <2>7. HexNumber(s, R * R) = n
    BY <2>2, <2>4, <2>6
  <2>8. QED
    BY <2>1, <2>2, <2>7 DEF s, D, R
<1>6. QED
  BY <1>4, <1>5

\* A written string is its length in digits, ':' and its characters.
LEMMA StringShape ==
  ASSUME NEW s \in Seq(Chars), Len(s) < Radix * Radix
  PROVE  /\ LMAppendString(s) = LengthDigits(Len(s)) \o (<<":">> \o s)
         /\ LengthDigits(Len(s)) \in Seq(Chars)
         /\ LMAppendString(s) \in Seq(Chars)
         /\ Len(LMAppendString(s)) = Len(LengthDigits(Len(s))) + 1 + Len(s)
         /\ LMAppendString(s)[1] \in ToSet(HexDigits)
<1> DEFINE n == Len(s)
           D == ToSet(HexDigits)
           d == LengthDigits(n)
<1>1. n \in Nat /\ n \in 0 .. Radix * Radix - 1
  <2>1. n \in Nat /\ Radix * Radix \in Int
    BY LenProperties, MessageSizes
  <2>2. QED
    BY <2>1
<1>2. d \in Seq(D) /\ Len(d) \in {1, 2}
  BY <1>1, LengthIs
<1>3. D \subseteq Chars
  <2>1. D = {HexDigits[k] : k \in 1 .. Radix}
    BY MessageSizes DEF ToSet
  <2>2. \A k \in 1 .. Radix : HexDigits[k] \in Chars
    BY MessageSizes, ElementOfSeq
  <2>3. QED
    BY <2>1, <2>2
<1>4. LMAppendString(s) = d \o (<<":">> \o s)
  <2>1. PICK hb : hb = btohexa_high(n)
    OBVIOUS
  <2>2. PICK lb : lb = btohexa_low(n)
    OBVIOUS
  <2>3. LMAppendString(s) = (IF hb = "0" THEN <<>> ELSE <<hb>>) \o <<lb, ":">> \o s
    BY <2>1, <2>2 DEF LMAppendString
  <2>4. d = IF hb = "0" THEN <<lb>> ELSE <<hb, lb>>
    BY <2>1, <2>2 DEF LengthDigits
  <2>5. ":" \in Chars
    BY MessageAssumption
  <2>6. d[1] \in D /\ (hb # "0" => d[2] \in D)
    <3>4. hb # "0" => Len(d) = 2
      BY <2>4
    <3> HIDE DEF d, D
    <3>1. 1 \in 1 .. Len(d) /\ (hb # "0" => Len(d) = 2)
      BY <1>2, <3>4
    <3>2. hb # "0" => 2 \in 1 .. Len(d)
      BY <3>1
    <3>3. QED
      BY <1>2, <3>1, <3>2, ElementOfSeq
  <2>7. lb \in Chars /\ (hb # "0" => hb \in Chars)
    BY <1>3, <2>4, <2>6
  <2> HIDE DEF d, n, D
  <2>8. CASE hb = "0"
    <3>1. <<>> \o <<lb, ":">> = <<lb>> \o <<":">>
      BY <2>5, <2>7
    <3>2. (<<lb>> \o <<":">>) \o s = <<lb>> \o (<<":">> \o s)
      BY <2>5, <2>7
    <3>3. QED
      BY <2>3, <2>4, <2>8, <3>1, <3>2
  <2>9. CASE hb # "0"
    <3>1. <<hb>> \o <<lb, ":">> = <<hb, lb>> \o <<":">>
      BY <2>5, <2>7, <2>9
    <3>2. (<<hb, lb>> \o <<":">>) \o s = <<hb, lb>> \o (<<":">> \o s)
      BY <2>5, <2>7, <2>9
    <3>3. QED
      BY <2>3, <2>4, <2>9, <3>1, <3>2
  <2>10. QED
    BY <2>8, <2>9
<1> HIDE DEF n, D, d
<1>5. d \in Seq(Chars)
  BY <1>2, <1>3
<1>6. PICK c : c = <<":">>
  OBVIOUS
<1>7. c \in Seq(Chars) /\ Len(c) = 1
  <2>1. ":" \in Chars
    BY MessageAssumption
  <2>2. QED
    BY <1>6, <2>1
<1>8. PICK t : t = c \o s
  OBVIOUS
<1>9. t \in Seq(Chars) /\ Len(t) = 1 + n
  <2>1. c \o s \in Seq(Chars) /\ Len(c \o s) = Len(c) + Len(s)
    BY <1>7, Joining
  <2>2. QED
    BY <1>7, <1>8, <2>1 DEF n
<1>10. /\ d \o t \in Seq(Chars)
       /\ Len(d \o t) = Len(d) + Len(t)
       /\ \A k \in 1 .. Len(d) + Len(t) :
            (d \o t)[k] = IF k <= Len(d) THEN d[k] ELSE t[k - Len(d)]
  BY <1>5, <1>9, ConcatProperties
<1>11. (d \o t)[1] = d[1] /\ d[1] \in D
  <2>1. 1 \in 1 .. Len(d) + Len(t) /\ 1 <= Len(d) /\ 1 \in 1 .. Len(d)
    <3>1. PICK a : a = Len(d)
      OBVIOUS
    <3>2. PICK b : b = Len(t)
      OBVIOUS
    <3>3. (a = 1 \/ a = 2) /\ b \in Nat
      <4>1. a \in {1, 2}
        BY <1>2, <3>1
      <4>2. b \in Nat
        BY <1>9, <3>2, LenProperties
      <4>3. QED
        BY <4>1, <4>2
    <3>4. 1 \in 1 .. a + b /\ 1 <= a /\ 1 \in 1 .. a
      BY <3>3
    <3>5. QED
      BY <3>1, <3>2, <3>4
  <2>2. (d \o t)[1] = d[1]
    BY <1>10, <2>1
  <2>3. d[1] \in D
    BY <1>2, <2>1, ElementOfSeq
  <2>4. QED
    BY <2>2, <2>3
<1>12. Len(d \o t) = Len(d) + 1 + n
  BY <1>1, <1>2, <1>9, <1>10
<1>13. LMAppendString(s) = d \o t
  BY <1>4, <1>6, <1>8
<1>14. QED
  BY <1>4, <1>5, <1>10, <1>11, <1>12, <1>13 DEF n, d, D

-----------------------------------------------------------------------------
(* What is written at a place of the text is taken from there.             *)

StandsIn(t, p, s) ==
  /\ p + Len(s) <= Len(t)
  /\ \A i \in 1 .. Len(s) : t[p + i] = s[i]

Stands(p, s) == StandsIn(text, p, s)

LEMMA StandsParts ==
  ASSUME text \in Seq(Chars), NEW p \in Nat, NEW s \in Seq(Chars), NEW t \in Seq(Chars)
  PROVE  Stands(p, s \o t) <=> Stands(p, s) /\ Stands(p + Len(s), t)
<1>1. /\ Len(s) \in Nat /\ Len(t) \in Nat /\ Len(text) \in Nat
      /\ Len(s \o t) = Len(s) + Len(t)
      /\ \A i \in 1 .. Len(s) + Len(t) :
           (s \o t)[i] = IF i <= Len(s) THEN s[i] ELSE t[i - Len(s)]
  BY LenProperties, ConcatProperties
<1>2. ASSUME Stands(p, s \o t) PROVE Stands(p, s) /\ Stands(p + Len(s), t)
  <2>1. p + Len(s) <= Len(text) /\ (p + Len(s)) + Len(t) <= Len(text)
    BY <1>1, <1>2 DEF Stands, StandsIn
  <2>2. ASSUME NEW i \in 1 .. Len(s) PROVE text[p + i] = s[i]
    <3>1. i \in 1 .. Len(s) + Len(t) /\ i <= Len(s)
      BY <1>1
    <3>2. QED
      BY <1>1, <1>2, <3>1 DEF Stands, StandsIn
  <2>3. ASSUME NEW i \in 1 .. Len(t) PROVE text[(p + Len(s)) + i] = t[i]
    <3>1. /\ Len(s) + i \in 1 .. Len(s) + Len(t) /\ ~ (Len(s) + i <= Len(s))
          /\ (Len(s) + i) - Len(s) = i /\ p + (Len(s) + i) = (p + Len(s)) + i
      BY <1>1
    <3>2. text[p + (Len(s) + i)] = (s \o t)[Len(s) + i]
      BY <1>1, <1>2, <3>1 DEF Stands, StandsIn
    <3>3. QED
      BY <1>1, <3>1, <3>2
  <2>4. QED
    BY <2>1, <2>2, <2>3 DEF Stands, StandsIn
<1>3. ASSUME Stands(p, s), Stands(p + Len(s), t) PROVE Stands(p, s \o t)
  <2>1. p + Len(s \o t) <= Len(text)
    BY <1>1, <1>3 DEF Stands, StandsIn
  <2>2. ASSUME NEW i \in 1 .. Len(s) + Len(t) PROVE text[p + i] = (s \o t)[i]
    <3>1. CASE i <= Len(s)
      <4>1. i \in 1 .. Len(s)
        BY <1>1, <3>1
      <4>2. QED
        BY <1>1, <1>3, <3>1, <4>1 DEF Stands, StandsIn
    <3>2. CASE ~ (i <= Len(s))
      <4>1. i - Len(s) \in 1 .. Len(t) /\ (p + Len(s)) + (i - Len(s)) = p + i
        BY <1>1, <3>2
      <4>2. text[(p + Len(s)) + (i - Len(s))] = t[i - Len(s)]
        BY <1>3, <4>1 DEF Stands, StandsIn
      <4>3. QED
        BY <1>1, <3>2, <4>1, <4>2
    <3>3. QED
      BY <3>1, <3>2
  <2>3. QED
    BY <1>1, <2>1, <2>2 DEF Stands, StandsIn
<1>4. QED
  BY <1>2, <1>3

LEMMA UpToIs ==
  ASSUME text \in Seq(Chars), NEW p \in Nat, NEW s \in Seq(Chars), NEW stop \in Chars,
         Stands(p, s \o <<stop>>), \A i \in 1 .. Len(s) : s[i] # stop
  PROVE  UpTo(p, stop) = s
<1> DEFINE stops == {q \in p .. Len(text) - 1 : text[q + 1] = stop}
           e == p + Len(s)
<1>1. <<stop>> \in Seq(Chars) /\ Len(<<stop>>) = 1 /\ <<stop>>[1] = stop
  OBVIOUS
<1>2. Stands(p, s) /\ Stands(e, <<stop>>)
  BY <1>1, StandsParts
<1>3. Len(text) \in Nat /\ Len(s) \in Nat /\ e \in Nat /\ e - p = Len(s)
  BY LenProperties
<1>4. e + 1 <= Len(text) /\ text[e + 1] = stop
  BY <1>1, <1>2 DEF Stands, StandsIn
<1>5. e \in stops
  BY <1>3, <1>4
<1>6. ASSUME NEW q \in stops PROVE e <= q
  <2>1. CASE q < e
    <3>1. q + 1 - p \in 1 .. Len(s) /\ p + (q + 1 - p) = q + 1
      BY <1>3, <2>1
    <3>2. text[p + (q + 1 - p)] = s[q + 1 - p]
      BY <1>2, <3>1 DEF Stands, StandsIn
    <3>3. QED
      BY <3>1, <3>2
  <2>2. QED
    BY <1>3, <2>1
<1>7. stops \subseteq Int
  OBVIOUS
<1>8. Min(stops) = e
  <2> HIDE DEF stops, e
  <2>1. \A x \in stops : (\A y \in stops : x <= y) => x = e
    BY <1>3, <1>5, <1>6, <1>7
  <2>2. QED
    BY <1>5, <1>6, <2>1 DEF Min
<1>9. UpTo(p, stop) = SubSeq(text, p + 1, e)
  BY <1>5, <1>8 DEF UpTo
<1> HIDE DEF stops, e
<1>10. \A i \in p + 1 .. e : text[i] \in Chars
  <2>1. \A i \in p + 1 .. e : i \in 1 .. Len(text)
    BY <1>3, <1>4
  <2>2. QED
    BY <2>1, ElementOfSeq
<1>11. /\ SubSeq(text, p + 1, e) \in Seq(Chars)
       /\ Len(SubSeq(text, p + 1, e)) = IF p + 1 <= e THEN e - (p + 1) + 1 ELSE 0
       /\ \A i \in 1 .. e - (p + 1) + 1 :
            SubSeq(text, p + 1, e)[i] = text[(p + 1) + i - 1]
  BY <1>3, <1>10, SubSeqProperties
<1>12. Len(SubSeq(text, p + 1, e)) = Len(s)
  BY <1>3, <1>11
<1>13. ASSUME NEW i \in 1 .. Len(s) PROVE SubSeq(text, p + 1, e)[i] = s[i]
  <2>1. i \in 1 .. e - (p + 1) + 1 /\ (p + 1) + i - 1 = p + i
    BY <1>3
  <2>2. QED
    BY <1>2, <1>11, <2>1 DEF Stands, StandsIn
<1>14. QED
  BY <1>9, <1>11, <1>12, <1>13, SeqEqual

LEMMA UpToType ==
  ASSUME text \in Seq(Chars), NEW p \in Nat, NEW stop
  PROVE  UpTo(p, stop) \in Seq(Chars)
<1> DEFINE stops == {q \in p .. Len(text) - 1 : text[q + 1] = stop}
           e == IF stops = {} THEN Len(text) ELSE Min(stops)
<1>1. Len(text) \in Nat
  BY LenProperties
<1>2. e \in Int /\ e <= Len(text)
  <2>1. CASE stops = {}
    BY <1>1, <2>1
  <2>2. CASE stops # {}
    <3>1. stops \subseteq Nat
      OBVIOUS
    <3>3. Min(stops) \in stops
      <4> HIDE DEF stops
      <4>1. QED
        BY <2>2, <3>1, LeastIs
    <3>4. e = Min(stops)
      BY <2>2
    <3>5. \A x \in stops : x \in Int /\ x <= Len(text)
      BY <1>1
    <3> HIDE DEF stops, e
    <3>6. QED
      BY <3>3, <3>4, <3>5
  <2>3. QED
    BY <2>1, <2>2
<1>3. UpTo(p, stop) = SubSeq(text, p + 1, e)
  BY DEF UpTo
<1> HIDE DEF e
<1>4. \A i \in p + 1 .. e : text[i] \in Chars
  <2>1. \A i \in p + 1 .. e : i \in 1 .. Len(text)
    BY <1>1, <1>2
  <2>2. QED
    BY <2>1, ElementOfSeq
<1>5. SubSeq(text, p + 1, e) \in Seq(Chars)
  BY <1>2, <1>4, SubSeqProperties
<1>6. QED
  BY <1>3, <1>5

\* Whatever is there, taking goes forward.
LEMMA TakingAdvances ==
  ASSUME text \in Seq(Chars), NEW p \in Nat, NEW count
  PROVE  /\ LMTakeString(p, count).next \in Nat /\ LMTakeString(p, count).next > p
         /\ LMTakeInt(p).next \in Nat /\ LMTakeInt(p).next >= p
<1>1. ASSUME NEW chars \in Seq(Chars), NEW limit \in Nat \ {0}
      PROVE  Len(chars) \in Nat /\ HexNumber(chars, limit) \in Nat
  <2>1. PICK number : /\ IsNumber(number, chars, limit)
                      /\ HexNumber(chars, limit) = number[Len(chars)]
    BY HexNumberDef
  <2>2. Len(chars) \in Nat
    BY LenProperties
  <2>3. number[Len(chars)] \in 0 .. limit - 1
    BY <2>1, <2>2 DEF IsNumber
  <2>4. QED
    BY <2>1, <2>2, <2>3
<1>2. LMTakeString(p, count).next \in Nat /\ LMTakeString(p, count).next > p
  <2>1. PICK chars \in Seq(Chars) : chars = UpTo(p, ":")
    BY UpToType
  <2>2. Radix * Radix \in Nat \ {0}
    BY MessageSizes
  <2>3. PICK length : length = HexNumber(chars, Radix * Radix)
    OBVIOUS
  <2>4. Len(chars) \in Nat /\ length \in Nat
    BY <1>1, <2>2, <2>3
  <2>5. LMTakeString(p, count).next = (p + Len(chars) + 1) + length
    BY <2>1, <2>3 DEF LMTakeString
  <2>6. QED
    BY <2>4, <2>5
<1>3. LMTakeInt(p).next \in Nat /\ LMTakeInt(p).next >= p
  <2>1. CASE LMNextIsInt(p)
    <3>1. PICK chars \in Seq(Chars) : chars = UpTo(p + 1, "s")
      <4>1. p + 1 \in Nat
        OBVIOUS
      <4>2. QED
        BY <4>1, UpToType
    <3>2. Len(chars) \in Nat
      BY LenProperties
    <3>3. LMTakeInt(p).next = p + 1 + Len(chars) + 1
      BY <2>1, <3>1 DEF LMTakeInt
    <3>4. QED
      BY <3>2, <3>3
  <2>2. CASE ~ LMNextIsInt(p)
    BY <2>2 DEF LMTakeInt
  <2>3. QED
    BY <2>1, <2>2
<1>4. QED
  BY <1>2, <1>3

\* A string is taken as it was written, if there is room for it.
LEMMA StringTaken ==
  ASSUME text \in Seq(Chars), NEW p \in Nat, NEW s \in Seq(Chars),
         Len(s) < Radix * Radix, Stands(p, LMAppendString(s)), NEW count \in Nat
  PROVE  /\ LMTakeString(p, count).ok <=> Len(s) <= count - 1
         /\ LMTakeString(p, count).ok => LMTakeString(p, count).value = s
         /\ LMTakeString(p, count).next = p + Len(LMAppendString(s))
         /\ ~ LMNextIsInt(p) /\ At(p) # "s"
<1>1. PICK n \in Nat : n = Len(s) /\ n \in 0 .. Radix * Radix - 1
  <2>1. Len(s) \in Nat /\ Radix * Radix \in Int
    BY LenProperties, MessageSizes
  <2>2. QED
    BY <2>1
<1>2. PICK d : d = LengthDigits(n)
  OBVIOUS
<1>3. /\ d \in Seq(ToSet(HexDigits)) /\ Len(d) \in {1, 2}
      /\ HexNumber(d, Radix * Radix) = n
  BY <1>1, <1>2, LengthIs
<1>4. /\ LMAppendString(s) = d \o (<<":">> \o s)
      /\ d \in Seq(Chars) /\ Len(LMAppendString(s)) = Len(d) + 1 + n
      /\ LMAppendString(s)[1] \in ToSet(HexDigits)
  BY <1>1, <1>2, StringShape
<1>18. d \in Seq(Chars) /\ Len(d) \in Nat \ {0}
  <2>1. d \in Seq(Chars)
    BY <1>4
  <2>2. \A k \in {1, 2} : k \in Nat \ {0}
    OBVIOUS
  <2>3. QED
    BY <1>3, <2>1, <2>2
<1>19. PICK w : w = LMAppendString(s)
  OBVIOUS
<1>20. Len(w) = Len(d) + 1 + n
  BY <1>4, <1>19
<1>5. PICK c : c = <<":">>
  OBVIOUS
<1>21. ":" \in Chars
  BY MessageAssumption
<1>6. c \in Seq(Chars) /\ Len(c) = 1
  BY <1>5, <1>21
<1>7. /\ d \o (c \o s) = (d \o c) \o s
      /\ d \o c \in Seq(Chars) /\ Len(d \o c) = Len(d) + 1
  <2>4. d \in Seq(Chars)
    BY <1>18
  <2>5. c \in Seq(Chars)
    BY <1>6
  <2>1. d \o c \in Seq(Chars) /\ Len(d \o c) = Len(d) + Len(c)
    BY <2>4, <2>5, ConcatProperties
  <2>6. s \in Seq(Chars)
    OBVIOUS
  <2>2. (d \o c) \o s = d \o (c \o s)
    BY <2>4, <2>5, <2>6, JoiningThree
  <2>3. QED
    BY <2>1, <2>2, <1>6
<1>8. Stands(p, d \o c) /\ Stands(p + (Len(d) + 1), s)
  <2>1. Stands(p, (d \o c) \o s)
    BY <1>4, <1>5, <1>7
  <2>2. QED
    BY <1>7, <2>1, StandsParts
<1>9. \A i \in 1 .. Len(d) : d[i] # ":" /\ d[i] \in ToSet(HexDigits)
  BY <1>3, ElementOfSeq, DigitsRead
<1>10. UpTo(p, ":") = d
  BY <1>4, <1>5, <1>21, <1>8, <1>9, UpToIs
<1>11. PICK start \in Nat : start = p + Len(d) + 1 /\ start = p + (Len(d) + 1)
  <2>1. Len(d) \in Nat
    BY <1>3, LenProperties
  <2>2. QED
    BY <2>1
<1>13. SubSeq(text, start + 1, start + n) = s
  <2>1. start + n <= Len(text) /\ \A i \in 1 .. n : text[start + i] = s[i]
    BY <1>1, <1>8, <1>11 DEF Stands, StandsIn
  <2>2. \A i \in start + 1 .. start + n : text[i] \in Chars
    <3>1. Len(text) \in Nat
      BY LenProperties
    <3>2. \A i \in start + 1 .. start + n : i \in 1 .. Len(text)
      BY <2>1, <3>1
    <3>3. QED
      BY <3>2, ElementOfSeq
  <2>3. PICK t : t = SubSeq(text, start + 1, start + n)
    OBVIOUS
  <2>4. start + 1 \in Int /\ start + n \in Int
    OBVIOUS
  <2>5. /\ t \in Seq(Chars)
        /\ Len(t) = IF start + 1 <= start + n THEN (start + n) - (start + 1) + 1 ELSE 0
        /\ \A i \in 1 .. (start + n) - (start + 1) + 1 : t[i] = text[(start + 1) + i - 1]
    BY <2>2, <2>3, <2>4, SubSeqProperties
  <2>6. Len(t) = n
    BY <2>5
  <2>7. ASSUME NEW i \in 1 .. n PROVE t[i] = s[i]
    <3>1. /\ i \in 1 .. (start + n) - (start + 1) + 1
          /\ (start + 1) + i - 1 = start + i
      OBVIOUS
    <3>2. QED
      BY <2>1, <2>5, <3>1
  <2>8. t = s
    BY <1>1, <2>5, <2>6, <2>7, SeqEqual
  <2>9. QED
    BY <2>3, <2>8
<1>12. LMTakeString(p, count) =
         [ok |-> n <= count - 1,
          value |-> IF n <= count - 1 THEN s ELSE <<>>,
          next |-> start + n]
  BY <1>3, <1>10, <1>11, <1>13 DEF LMTakeString
<1>14. start + n = p + Len(LMAppendString(s))
  <2>1. start + n = p + Len(w)
    BY <1>11, <1>18, <1>20
  <2>2. QED
    BY <1>19, <2>1
<1>15. At(p) \in ToSet(HexDigits)
  <2>1. p < Len(text) /\ text[p + 1] = w[1]
    <3>1. Len(text) \in Nat
      BY LenProperties
    <3>2. 1 \in 1 .. Len(w) /\ p + Len(w) > p
      BY <1>18, <1>20
    <3>3. p + Len(w) <= Len(text) /\ \A i \in 1 .. Len(w) : text[p + i] = w[i]
      BY <1>19 DEF Stands, StandsIn
    <3>4. QED
      BY <3>1, <3>2, <3>3
  <2>2. QED
    BY <1>4, <1>19, <2>1 DEF At
<1>16. ~ LMNextIsInt(p) /\ At(p) # "s"
  BY <1>15, DigitsRead DEF LMNextIsInt
<1>17. QED
  <2>1. PICK taken : taken = LMTakeString(p, count)
    OBVIOUS
  <2>2. /\ taken.value = IF n <= count - 1 THEN s ELSE <<>>
        /\ taken.next = start + n
    BY <1>12, <2>1
  <2>3. taken.ok <=> n <= count - 1
    <3>1. PICK b : b = (n <= count - 1)
      OBVIOUS
    <3>2. PICK v : v = IF n <= count - 1 THEN s ELSE <<>>
      OBVIOUS
    <3>3. taken = [ok |-> b, value |-> v, next |-> start + n]
      BY <1>12, <2>1, <3>1, <3>2
    <3>4. taken.ok = b
      BY <3>3
    <3>5. QED
      BY <3>1, <3>4
  <2>4. QED
    BY <1>1, <1>14, <1>16, <2>1, <2>2, <2>3

IntText(d) == <<"i">> \o d \o <<"s">>

LEMMA DigitsInChars == ToSet(HexDigits) \subseteq Chars
<1>1. ToSet(HexDigits) = {HexDigits[k] : k \in 1 .. Radix}
  BY MessageSizes DEF ToSet
<1>2. \A k \in 1 .. Radix : HexDigits[k] \in Chars
  BY MessageSizes, ElementOfSeq
<1>3. QED
  BY <1>1, <1>2

LEMMA IntShape ==
  ASSUME NEW d \in Seq(ToSet(HexDigits))
  PROVE  /\ d \in Seq(Chars) /\ IntText(d) \in Seq(Chars)
         /\ Len(IntText(d)) = Len(d) + 2
<1>1. d \in Seq(Chars) /\ Len(d) \in Nat
  BY DigitsInChars, LenProperties
<1>2. PICK i : i = <<"i">>
  OBVIOUS
<1>3. PICK e : e = <<"s">>
  OBVIOUS
<1>4. "i" \in Chars /\ "s" \in Chars
  BY MessageAssumption
<1>5. i \in Seq(Chars) /\ Len(i) = 1
  BY <1>2, <1>4
<1>6. e \in Seq(Chars) /\ Len(e) = 1
  BY <1>3, <1>4
<1>7. i \o d \in Seq(Chars) /\ Len(i \o d) = Len(i) + Len(d)
  BY <1>1, <1>5, ConcatProperties
<1>8. PICK w : w = i \o d
  OBVIOUS
<1>9. w \o e \in Seq(Chars) /\ Len(w \o e) = Len(w) + Len(e)
  BY <1>6, <1>7, <1>8, ConcatProperties
<1>10. IntText(d) = w \o e
  BY <1>2, <1>3, <1>8 DEF IntText
<1>11. Len(w) = 1 + Len(d)
  BY <1>1, <1>5, <1>7, <1>8
<1>12. Len(w) + Len(e) = Len(d) + 2
  BY <1>1, <1>6, <1>11
<1>13. QED
  BY <1>1, <1>9, <1>10, <1>12

LEMMA NumberTaken ==
  ASSUME text \in Seq(Chars), NEW p \in Nat, NEW d \in Seq(ToSet(HexDigits)),
         Stands(p, IntText(d))
  PROVE  /\ LMNextIsInt(p)
         /\ LMTakeInt(p).value = HexNumber(d, place[LongDigits])
         /\ LMTakeInt(p).next = p + Len(IntText(d))
<1>1. d \in Seq(Chars) /\ Len(d) \in Nat /\ Len(IntText(d)) = Len(d) + 2
  BY IntShape, LenProperties
<1>2. PICK i : i = <<"i">>
  OBVIOUS
<1>3. PICK e : e = <<"s">>
  OBVIOUS
<1>4. "i" \in Chars /\ "s" \in Chars
  BY MessageAssumption
<1>5. i \in Seq(Chars) /\ Len(i) = 1 /\ e \in Seq(Chars) /\ Len(e) = 1
  BY <1>2, <1>3, <1>4
<1>6. d \o e \in Seq(Chars) /\ (i \o d) \o e = i \o (d \o e)
  <2>1. d \in Seq(Chars) /\ e \in Seq(Chars) /\ i \in Seq(Chars)
    BY <1>1, <1>5
  <2>2. d \o e \in Seq(Chars)
    BY <2>1, ConcatProperties
  <2>3. (i \o d) \o e = i \o (d \o e)
    BY <2>1, JoiningThree
  <2>4. QED
    BY <2>2, <2>3
<1>7. Stands(p, i) /\ Stands(p + 1, d \o e)
  <2>1. Stands(p, i \o (d \o e))
    BY <1>2, <1>3, <1>6 DEF IntText
  <2>2. PICK t : t = d \o e
    OBVIOUS
  <2>3. Stands(p, i) /\ Stands(p + Len(i), t)
    BY <1>5, <1>6, <2>1, <2>2, StandsParts
  <2>4. QED
    BY <1>5, <2>2, <2>3
<1>8. At(p) = "i"
  <2>1. Len(text) \in Nat /\ 1 \in 1 .. Len(i)
    BY <1>5, LenProperties
  <2>2. p + 1 <= Len(text) /\ text[p + 1] = i[1]
    BY <1>5, <1>7, <2>1 DEF Stands, StandsIn
  <2>3. i[1] = "i"
    BY <1>2
  <2>4. QED
    BY <2>1, <2>2, <2>3 DEF At
<1>9. \A k \in 1 .. Len(d) : d[k] # "s"
  BY ElementOfSeq, DigitsRead
<1>10. UpTo(p + 1, "s") = d
  <2>1. p + 1 \in Nat
    OBVIOUS
  <2>2. Stands(p + 1, d \o <<"s">>)
    BY <1>3, <1>7
  <2>3. QED
    BY <1>1, <1>4, <1>9, <2>1, <2>2, UpToIs
<1>11. LMTakeInt(p) = [value |-> HexNumber(d, place[LongDigits]),
                       next |-> p + 1 + Len(d) + 1]
  BY <1>8, <1>10 DEF LMTakeInt, LMNextIsInt
<1>12. p + 1 + Len(d) + 1 = p + Len(IntText(d))
  BY <1>1
<1>13. QED
  BY <1>8, <1>11, <1>12 DEF LMNextIsInt

\* The quotients of a number.
LEMMA QuotientIn ==
  ASSUME NEW v \in Nat, NEW a \in Nat \ {0}, NEW n \in Nat, v < n * a
  PROVE  v \div a \in 0 .. n - 1
<1>1. /\ v \div a \in Int /\ v % a \in 0 .. a - 1
      /\ v = a * (v \div a) + (v % a)
  BY DivMod
<1>2. PICK q \in Int : q = v \div a
  BY <1>1
<1>3. PICK r \in 0 .. a - 1 : r = v % a
  BY <1>1
<1>4. v = a * q + r
  BY <1>1, <1>2, <1>3
<1>5. a * q + r >= 0 /\ a * q + r < n * a
  BY <1>4
<1>6. q \in 0 .. n - 1
  BY <1>5, Quotient
<1>7. QED
  BY <1>2, <1>6

LEMMA QuotientOfQuotient ==
  ASSUME NEW v \in Nat, NEW a \in Nat \ {0}, NEW b \in Nat \ {0}
  PROVE  v \div (b * a) = (v \div a) \div b
<1>1. PICK x \in Int, r \in 0 .. a - 1 : x = v \div a /\ v = a * x + r
  BY DivMod
<1>2. PICK y \in Int, t \in 0 .. b - 1 : y = x \div b /\ x = b * y + t
  BY DivMod
<1>3. b * a \in Nat \ {0}
  OBVIOUS
<1>4. a * x = (b * a) * y + a * t
  <2>1. b * y \in Int /\ t \in Int
    OBVIOUS
  <2>2. PICK z \in Int : z = b * y
    BY <2>1
  <2>3. a * x = a * z + a * t
    BY <1>2, <2>1, <2>2
  <2>4. a * z = (b * a) * y
    BY <2>2, Times
  <2>5. QED
    BY <2>3, <2>4
<1>5. a * t + r \in 0 .. (b * a) - 1
  <2>1. t \in Nat /\ t <= b - 1 /\ r \in Nat /\ r <= a - 1
    OBVIOUS
  <2>2. a * t \in Nat /\ a * t <= a * (b - 1)
    <3>1. PICK k \in Nat : k = (b - 1) - t
      BY <2>1
    <3>2. a * k \in Nat /\ a * t \in Nat
      BY <2>1
    <3>3. b - 1 = t + k
      BY <2>1, <3>1
    <3>4. a * (b - 1) = a * t + a * k
      BY <2>1, <3>3
    <3>5. QED
      BY <3>2, <3>4
  <2>3. a * (b - 1) = b * a - a /\ b * a \in Int
    OBVIOUS
  <2>4. QED
    BY <2>1, <2>2, <2>3
<1>6. PICK m \in Nat \ {0} : m = b * a
  BY <1>3
<1>7. PICK s \in 0 .. m - 1 : s = a * t + r
  BY <1>5, <1>6
<1>8. v = m * y + s
  <2>1. a * t \in Int /\ m * y \in Int /\ r \in Int
    OBVIOUS
  <2>2. QED
    BY <1>1, <1>4, <1>6, <1>7, <2>1
<1>9. v \div m = y
  BY <1>8, DivModUnique
<1>10. QED
  BY <1>1, <1>2, <1>6, <1>9

\* The digits of a number, from the highest place on.
DigitsFrom(v, n) == v \div place[LongDigits - n]

LEMMA ShiftedDigits ==
  ASSUME NEW v \in 0 .. place[LongDigits] - 1
  PROVE  /\ v \in Nat
         /\ DigitsFrom(v, 0) = 0 /\ DigitsFrom(v, LongDigits) = v
         /\ \A n \in 0 .. LongDigits : DigitsFrom(v, n) \in 0 .. place[LongDigits] - 1
         /\ \A n \in 1 .. LongDigits :
              /\ DigitsFrom(v, n) % Radix \in 0 .. Radix - 1
              /\ DigitsFrom(v, n) = DigitsFrom(v, n - 1) * Radix + (DigitsFrom(v, n) % Radix)
<1> DEFINE L == LongDigits
<1>1. L \in Nat \ {0} /\ Radix \in Nat \ {0}
  BY MessageSizes
<1>2. place[L] \in Nat \ {0} /\ v \in Nat /\ v < place[L]
  <2>1. place[L] \in Nat \ {0}
    BY <1>1, PlaceDef
  <2>2. QED
    BY <2>1
<1>3. DigitsFrom(v, L) = v
  <2>1. L - L = 0 /\ place[0] = 1 /\ v = 1 * v + 0 /\ 0 \in 0 .. 1 - 1
    BY <1>1, <1>2, PlaceDef
  <2>2. v \div 1 = v
    BY <1>2, <2>1, DivModUnique
  <2>3. QED
    BY <2>1, <2>2 DEF DigitsFrom
<1>4. ASSUME NEW n \in 0 .. L PROVE DigitsFrom(v, n) \in 0 .. place[L] - 1
  <2>1. L - n \in 0 .. L
    BY <1>1
  <2>2. PICK a \in Nat \ {0} : a = place[L - n]
    BY <2>1, PlaceDef
  <2>3. PICK b \in Nat \ {0} : b = place[L] /\ v < b
    BY <1>2
  <2>4. b * a >= b
    OBVIOUS
  <2>5. v < b * a
    BY <1>2, <2>3, <2>4
  <2>6. v \div a \in 0 .. b - 1
    BY <1>2, <2>5, QuotientIn
  <2>7. QED
    BY <2>2, <2>3, <2>6 DEF DigitsFrom
<1>5. DigitsFrom(v, 0) = 0
  <2>1. L - 0 = L
    BY <1>1
  <2>2. PICK b \in Nat \ {0} : b = place[L] /\ v < b
    BY <1>2
  <2>3. v < 1 * b
    BY <2>2
  <2>4. v \div b \in 0 .. 1 - 1
    BY <1>2, <2>3, QuotientIn
  <2>5. v \div b = 0
    BY <2>4
  <2>6. QED
    BY <2>1, <2>2, <2>5 DEF DigitsFrom
<1>6. ASSUME NEW n \in 1 .. L
      PROVE  /\ DigitsFrom(v, n) % Radix \in 0 .. Radix - 1
             /\ DigitsFrom(v, n) = DigitsFrom(v, n - 1) * Radix + (DigitsFrom(v, n) % Radix)
  <2>1. /\ L - n \in 0 .. L /\ L - (n - 1) \in 1 .. L
        /\ (L - (n - 1)) - 1 = L - n /\ n \in 0 .. L
    BY <1>1
  <2>2. place[L - (n - 1)] = Radix * place[(L - (n - 1)) - 1]
    BY <2>1, PlaceDef
  <2>3. PICK a \in Nat \ {0} : a = place[L - n]
    BY <2>1, PlaceDef
  <2>4. PICK x \in Int : x = DigitsFrom(v, n) /\ x = v \div a
    BY <2>1, <2>3, <1>4 DEF DigitsFrom
  <2>5. v \div (Radix * a) = x \div Radix
    BY <1>1, <1>2, <2>4, QuotientOfQuotient
  <2>6. DigitsFrom(v, n - 1) = x \div Radix
    BY <2>1, <2>2, <2>3, <2>5 DEF DigitsFrom
  <2>7. PICK R \in Nat \ {0} : R = Radix
    BY <1>1
  <2>8. x \div R \in Int /\ x % R \in 0 .. R - 1 /\ x = R * (x \div R) + (x % R)
    BY DivMod
  <2>9. PICK y \in Int : y = x \div R
    BY <2>8
  <2>10. PICK r \in Int : r = x % R
    BY <2>8
  <2>11. R * y = y * R
    OBVIOUS
  <2>12. x = y * R + r
    BY <2>8, <2>9, <2>10, <2>11
  <2>13. QED
    BY <2>4, <2>6, <2>7, <2>8, <2>9, <2>10, <2>12
<1>7. QED
  BY <1>2, <1>3, <1>4, <1>5, <1>6

\* A number is written in digits that give it back.
LEMMA IntWritten ==
  ASSUME NEW v \in 0 .. place[LongDigits] - 1
  PROVE  \E d \in Seq(ToSet(HexDigits)) :
           LMAppendInt(v) = IntText(d) /\ HexNumber(d, place[LongDigits]) = v
<1> DEFINE L == LongDigits
           D == ToSet(HexDigits)
           limit == place[L]
<1>1. L \in Nat \ {0} /\ Radix \in Nat \ {0}
  BY MessageSizes
<1>2. limit \in Nat \ {0} /\ v \in Nat /\ v < limit
  <2>1. limit \in Nat \ {0}
    BY <1>1, PlaceDef
  <2>2. QED
    BY <2>1
<1>3. CASE v = 0
  <2>1. PICK z : z = DigitOf(0)
    OBVIOUS
  <2>2. z \in D /\ hexToByte(z) = 0 /\ z = "0"
    <3>1. 0 \in 0 .. Radix - 1
      BY <1>1
    <3>2. QED
      BY <2>1, <3>1, DigitsRead
  <2>3. PICK d : d = <<z>>
    OBVIOUS
  <2>4. d \in Seq(D) /\ Len(d) = 1 /\ d[1] = z
    <3> HIDE DEF D
    <3>1. z \in D
      BY <2>2
    <3>2. QED
      BY <2>3, <3>1
  <2>5. LMAppendInt(v) = IntText(d)
    <3>1. d = <<"0">>
      BY <2>2, <2>3
    <3>2. QED
      BY <1>3, <3>1 DEF LMAppendInt, IntText
  <2>6. PICK value : value = [k \in 0 .. 1 |-> 0]
    OBVIOUS
  <2>7. value \in [0 .. 1 -> 0 .. limit - 1] /\ value[0] = 0 /\ value[1] = 0
    <3>1. 0 \in 0 .. limit - 1
      BY <1>2
    <3> HIDE DEF limit
    <3>2. QED
      BY <2>6, <3>1
  <2>8. \A k \in 1 .. Len(d) : value[k] = value[k - 1] * Radix + hexToByte(d[k])
    <3>1. value[1] = value[1 - 1] * Radix + hexToByte(d[1])
      BY <1>1, <2>2, <2>4, <2>7
    <3>2. \A k \in 1 .. Len(d) : k = 1
      BY <2>4
    <3>3. QED
      BY <3>1, <3>2
  <2> HIDE DEF limit, D
  <2>9. HexNumber(d, limit) = value[Len(d)]
    BY <1>2, <2>4, <2>7, <2>8, NumberIs
  <2>10. HexNumber(d, limit) = v
    BY <1>3, <2>4, <2>7, <2>9
  <2>11. QED
    BY <2>4, <2>5, <2>10 DEF limit, D
<1>4. CASE v # 0
  <2> DEFINE q(n) == DigitsFrom(v, n)
             hex == [n \in 1 .. L |-> btohexa_low(v \div place[L - n])]
             others == {n \in 1 .. L : hex[n] # "0"}
             first == Min(others)
             d == SubSeq(hex, first, L)
  <2>1. /\ q(0) = 0 /\ q(L) = v
        /\ \A n \in 0 .. L : q(n) \in 0 .. limit - 1
        /\ \A n \in 1 .. L : /\ q(n) % Radix \in 0 .. Radix - 1
                             /\ q(n) = q(n - 1) * Radix + (q(n) % Radix)
    BY ShiftedDigits
  <2>2. \A n \in 1 .. L : hex[n] = DigitOf(q(n) % Radix)
    BY DEF btohexa_low, DigitOf, DigitsFrom
  <2>3. \A n \in 1 .. L : /\ hex[n] \in D
                          /\ hexToByte(hex[n]) = q(n) % Radix
                          /\ hex[n] = "0" <=> q(n) % Radix = 0
    BY <2>1, <2>2, DigitsRead
  <2>4. LMAppendInt(v) = IntText(d)
    BY <1>4 DEF LMAppendInt, IntText
  <2> HIDE DEF q, hex, limit, D
  <2>5. \A n \in 0 .. L : (\A k \in 1 .. n : k \notin others) => q(n) = 0
    <3> DEFINE T == {n \in 0 .. L : (\A k \in 1 .. n : k \notin others) => q(n) = 0}
    <3>1. 0 \in T
      BY <1>1, <2>1
    <3>2. ASSUME NEW n \in T, n < L PROVE n + 1 \in T
      <4>1. n \in 0 .. L /\ n + 1 \in 1 .. L /\ (n + 1) - 1 = n /\ n + 1 \in 0 .. L
        BY <1>1, <3>2
      <4>2. SUFFICES ASSUME \A k \in 1 .. n + 1 : k \notin others PROVE q(n + 1) = 0
        BY <4>1
      <4>3. \A k \in 1 .. n : k \in 1 .. n + 1
        BY <4>1
      <4>4. q(n) = 0
        BY <4>2, <4>3
      <4>5. n + 1 \in 1 .. n + 1
        BY <4>1
      <4>6. q(n + 1) % Radix = 0
        BY <2>3, <4>1, <4>2, <4>5
      <4>7. q(n + 1) = q(n) * Radix + (q(n + 1) % Radix)
        BY <2>1, <4>1
      <4>8. QED
        BY <1>1, <4>4, <4>6, <4>7
    <3>3. T \subseteq 0 .. L
      OBVIOUS
    <3> HIDE DEF T
    <3>4. \A n \in 0 .. L : n \in T
      BY <1>1, <3>1, <3>2, <3>3, BoundedInduction
    <3>5. QED
      BY <3>4 DEF T
  <2>6. others \subseteq 1 .. L
    OBVIOUS
  <2>7. others # {}
    <3>1. L \in 0 .. L
      BY <1>1
    <3>2. ~ \A k \in 1 .. L : k \notin others
      BY <1>4, <2>1, <2>5, <3>1
    <3>3. QED
      BY <3>2
  <2>8. first \in others /\ \A n \in others : first <= n
    <3> HIDE DEF others
    <3>1. others \subseteq Nat
      BY <2>6
    <3>2. QED
      BY <2>7, <3>1, LeastIs
  <2>9. first \in 1 .. L
    BY <2>6, <2>8
  <2>10. q(first - 1) = 0
    <3>1. first - 1 \in 0 .. L
      BY <1>1, <2>9
    <3>2. \A k \in 1 .. first - 1 : ~ (first <= k)
      BY <2>9
    <3> HIDE DEF others, first
    <3>3. QED
      BY <2>5, <2>8, <3>1, <3>2
  <2> HIDE DEF others, first
  <2>11. \A i \in first .. L : hex[i] \in D
    BY <1>1, <2>3, <2>9
  <2>12. PICK m \in Nat : m = (L - first) + 1 /\ first + m - 1 = L
    BY <1>1, <2>9
  <2>13. /\ d \in Seq(D) /\ Len(d) = m
         /\ \A i \in 1 .. m : d[i] = hex[first + i - 1]
    <3>1. /\ d \in Seq(D)
          /\ Len(d) = IF first <= L THEN L - first + 1 ELSE 0
          /\ \A i \in 1 .. L - first + 1 : d[i] = hex[first + i - 1]
      BY <1>1, <2>9, <2>11, SubSeqProperties
    <3> HIDE DEF d
    <3>2. QED
      BY <1>1, <2>9, <2>12, <3>1
  <2> HIDE DEF d
  <2> DEFINE value == [k \in 0 .. m |-> q(first + k - 1)]
  <2>14. value \in [0 .. m -> 0 .. limit - 1]
    <3>1. ASSUME NEW k \in 0 .. m PROVE q(first + k - 1) \in 0 .. limit - 1
      <4>1. first + k - 1 \in 0 .. L
        BY <1>1, <2>9, <2>12
      <4>2. QED
        BY <2>1, <4>1
    <3>2. QED
      BY <3>1
  <2>15. value[0] = 0 /\ value[m] = v
    <3>1. 0 \in 0 .. m /\ m \in 0 .. m /\ first + 0 - 1 = first - 1
      BY <2>9
    <3>2. QED
      BY <2>1, <2>10, <2>12, <3>1
  <2>16. ASSUME NEW k \in 1 .. m
         PROVE  value[k] = value[k - 1] * Radix + hexToByte(d[k])
    <3>1. /\ first + k - 1 \in 1 .. L /\ k \in 0 .. m /\ k - 1 \in 0 .. m
          /\ first + (k - 1) - 1 = (first + k - 1) - 1
      BY <1>1, <2>9, <2>12
    <3>2. value[k] = q(first + k - 1) /\ value[k - 1] = q((first + k - 1) - 1)
      BY <3>1
    <3>3. hexToByte(d[k]) = q(first + k - 1) % Radix
      BY <2>3, <2>13, <3>1
    <3>4. q(first + k - 1)
            = q((first + k - 1) - 1) * Radix + (q(first + k - 1) % Radix)
      BY <2>1, <3>1
    <3> HIDE DEF value
    <3>5. QED
      BY <3>2, <3>3, <3>4
  <2> HIDE DEF value
  <2>17. HexNumber(d, limit) = value[Len(d)]
    BY <1>2, <2>13, <2>14, <2>15, <2>16, NumberIs
  <2>18. HexNumber(d, limit) = v
    BY <2>13, <2>15, <2>17
  <2>19. QED
    BY <2>4, <2>13, <2>18 DEF limit, D
<1>5. QED
  BY <1>3, <1>4

\* What bytes count, byte after byte.
BytesSoFar(value, bytes) ==
  /\ value \in [0 .. Len(bytes) -> Nat]
  /\ value[0] = 0
  /\ \A n \in 1 .. Len(bytes) :
       value[n] = value[n - 1] * (Radix * Radix) + bytes[n]

LEMMA BytesDef ==
  ASSUME NEW bytes \in Seq(Nat)
  PROVE  \E value : BytesSoFar(value, bytes) /\ BytesValue(bytes) = value[Len(bytes)]
<1> DEFINE N == Len(bytes)
           B == Radix * Radix
           Def(f) == f = [n \in 0 .. N |->
                            IF n = 0 THEN 0
                            ELSE f[n - 1] * (Radix * Radix) + bytes[n]]
           step == [t \in (1 .. N) \X Nat |-> t[2] * B + bytes[t[1]]]
<1>1. N \in Nat /\ B \in Nat
  BY LenProperties, MessageSizes
<1>2. \A n \in 1 .. N : bytes[n] \in Nat
  BY ElementOfSeq
<1> HIDE DEF B, N
<1>3. ASSUME NEW n \in 1 .. N, NEW v \in Nat PROVE v * B + bytes[n] \in Nat
  BY <1>1, <1>2
<1>4. step \in [(1 .. N) \X Nat -> Nat]
  BY <1>3
<1>5. \A n \in 1 .. N, v \in Nat : step[<<n, v>>] = v * B + bytes[n]
  OBVIOUS
<1> HIDE DEF step
<1>6. PICK f : IsRecursive(f, N, Nat, 0, step)
  BY <1>1, <1>4, Recursion
<1>7. /\ f \in [0 .. N -> Nat] /\ f[0] = 0
      /\ \A n \in 1 .. N : f[n] = step[<<n, f[n - 1]>>]
  BY <1>6 DEF IsRecursive
<1>8. \A n \in 1 .. N : f[n - 1] \in Nat
  BY <1>1, <1>7
<1>9. \A n \in 1 .. N : f[n] = f[n - 1] * B + bytes[n]
  BY <1>5, <1>7, <1>8
<1>10. Def(f)
  <2>1. f = [n \in 0 .. N |-> IF n = 0 THEN 0 ELSE f[n - 1] * B + bytes[n]]
    <3>1. \A n \in 0 .. N : f[n] = IF n = 0 THEN 0 ELSE f[n - 1] * B + bytes[n]
      BY <1>1, <1>7, <1>9
    <3>2. f = [n \in 0 .. N |-> f[n]]
      BY <1>7
    <3>3. QED
      BY <3>1, <3>2
  <2>2. QED
    BY <2>1 DEF B
<1> DEFINE value == CHOOSE g : Def(g)
<1>11. Def(value)
  BY <1>10
<1>12. BytesValue(bytes) = value[Len(bytes)]
  BY DEF BytesValue, N
<1> HIDE DEF value
<1>13. value = [n \in 0 .. N |-> IF n = 0 THEN 0 ELSE value[n - 1] * B + bytes[n]]
  BY <1>11 DEF B
<1>14. value[0] = 0 /\ \A n \in 1 .. N : value[n] = value[n - 1] * B + bytes[n]
  BY <1>1, <1>13
<1>15. value = [n \in 0 .. N |-> value[n]]
  BY <1>13
<1> DEFINE T == {n \in 0 .. N : value[n] \in Nat}
<1>16. 0 \in T
  BY <1>1, <1>14
<1>17. ASSUME NEW n \in T, n < N PROVE n + 1 \in T
  <2>1. n + 1 \in 1 .. N /\ (n + 1) - 1 = n /\ n + 1 \in 0 .. N
    BY <1>1, <1>17
  <2>2. value[n + 1] = value[n] * B + bytes[n + 1] /\ value[n] \in Nat
    BY <2>1, <1>14
  <2>3. value[n + 1] \in Nat
    BY <2>1, <2>2, <1>3
  <2>4. QED
    BY <2>1, <2>3
<1>18. T \subseteq 0 .. N
  OBVIOUS
<1> HIDE DEF T
<1>19. \A n \in 0 .. N : n \in T
  BY <1>1, <1>16, <1>17, <1>18, BoundedInduction
<1>20. value \in [0 .. N -> Nat]
  BY <1>15, <1>19 DEF T
<1>21. QED
  BY <1>12, <1>14, <1>20 DEF N, B, BytesSoFar

\* Bytes in digits: two for each.
BytesText(kept) ==
  [n \in 1 .. 2 * Len(kept) |->
     IF n % 2 = 1 THEN btohexa_high(kept[(n + 1) \div 2])
                  ELSE btohexa_low(kept[n \div 2])]

LEMMA EvenOrOdd ==
  ASSUME NEW n \in Nat \ {0}
  PROVE  \E k \in Nat \ {0} : \/ n = 2 * k /\ n % 2 = 0 /\ n \div 2 = k
                              \/ n = 2 * k - 1 /\ n % 2 = 1 /\ (n + 1) \div 2 = k
<1>1. PICK q \in Int, r \in 0 .. 1 : q = n \div 2 /\ r = n % 2 /\ n = 2 * q + r
  <2>1. n \div 2 \in Int /\ n % 2 \in 0 .. 2 - 1 /\ n = 2 * (n \div 2) + (n % 2)
    BY DivMod
  <2>2. QED
    BY <2>1
<1>2. CASE r = 0
  <2>1. q \in Nat \ {0}
    BY <1>1, <1>2
  <2>2. n = 2 * q
    BY <1>1, <1>2
  <2>3. QED
    BY <1>1, <1>2, <2>1, <2>2
<1>3. CASE r = 1
  <2>1. q + 1 \in Nat \ {0} /\ n = 2 * (q + 1) - 1 /\ n + 1 = 2 * (q + 1) + 0
    BY <1>1, <1>3
  <2>2. PICK k \in Nat \ {0} : k = q + 1
    BY <2>1
  <2>3. (2 * k + 0) \div 2 = k
    BY DivModUnique
  <2>4. QED
    BY <1>1, <1>3, <2>1, <2>2, <2>3
<1>4. QED
  BY <1>2, <1>3

LEMMA BytesDigits ==
  ASSUME NEW kept \in Seq(0 .. Radix * Radix - 1)
  PROVE  /\ BytesText(kept) \in Seq(ToSet(HexDigits))
         /\ Len(BytesText(kept)) = 2 * Len(kept)
         /\ \A k \in 1 .. Len(kept) :
              /\ kept[k] \in 0 .. Radix * Radix - 1
              /\ BytesText(kept)[2 * k - 1] = DigitOf(kept[k] \div Radix)
              /\ BytesText(kept)[2 * k] = DigitOf(kept[k] % Radix)
<1> DEFINE N == Len(kept)
           D == ToSet(HexDigits)
           w == BytesText(kept)
<1>1. N \in Nat
  BY LenProperties
<1>2. \A k \in 1 .. N : kept[k] \in 0 .. Radix * Radix - 1
  BY ElementOfSeq
<1>3. ASSUME NEW k \in 1 .. N
      PROVE  /\ btohexa_high(kept[k]) = DigitOf(kept[k] \div Radix)
             /\ btohexa_low(kept[k]) = DigitOf(kept[k] % Radix)
             /\ btohexa_high(kept[k]) \in D /\ btohexa_low(kept[k]) \in D
  <2>1. PICK b \in 0 .. Radix * Radix - 1 : b = kept[k]
    BY <1>2
  <2>2. /\ b \div Radix \in 0 .. Radix - 1 /\ b % Radix \in 0 .. Radix - 1
        /\ btohexa_high(b) = DigitOf(b \div Radix) /\ btohexa_low(b) = DigitOf(b % Radix)
    BY HalfBytes
  <2>3. DigitOf(b \div Radix) \in D /\ DigitOf(b % Radix) \in D
    BY <2>2, DigitsRead
  <2> HIDE DEF D
  <2>4. QED
    BY <2>1, <2>2, <2>3
<1>4. ASSUME NEW n \in 1 .. 2 * N
      PROVE  \E k \in 1 .. N :
               \/ n = 2 * k /\ w[n] = btohexa_low(kept[k])
               \/ n = 2 * k - 1 /\ w[n] = btohexa_high(kept[k])
  <2>1. w[n] = IF n % 2 = 1 THEN btohexa_high(kept[(n + 1) \div 2])
                            ELSE btohexa_low(kept[n \div 2])
    BY DEF BytesText
  <2>2. n \in Nat \ {0}
    BY <1>1
  <2>3. PICK k \in Nat \ {0} : \/ n = 2 * k /\ n % 2 = 0 /\ n \div 2 = k
                               \/ n = 2 * k - 1 /\ n % 2 = 1 /\ (n + 1) \div 2 = k
    BY <2>2, EvenOrOdd
  <2> HIDE DEF w, N
  <2>4. k \in 1 .. N
    BY <1>1, <2>3
  <2>5. QED
    BY <2>1, <2>3, <2>4
<1>5. w = [n \in 1 .. 2 * N |-> w[n]]
  BY DEF BytesText
<1>6. \A n \in 1 .. 2 * N : w[n] \in D
  <2> HIDE DEF w, D, N
  <2>1. QED
    BY <1>3, <1>4
<1>7. w \in Seq(D) /\ Len(w) = 2 * N
  <2>1. PICK M \in Nat : M = 2 * N
    BY <1>1
  <2>2. w = [n \in 1 .. M |-> w[n]] /\ \A n \in 1 .. M : w[n] \in D
    BY <1>5, <1>6, <2>1
  <2> HIDE DEF w, D, N
  <2>3. w \in [1 .. M -> D]
    BY <2>2
  <2>4. w \in Seq(D) /\ Len(w) = M
    BY <2>3
  <2>5. QED
    BY <2>1, <2>4
<1>8. ASSUME NEW k \in 1 .. N
      PROVE  w[2 * k - 1] = btohexa_high(kept[k]) /\ w[2 * k] = btohexa_low(kept[k])
  <2>1. 2 * k - 1 \in 1 .. 2 * N /\ 2 * k \in 1 .. 2 * N
    BY <1>1
  <2> HIDE DEF w, N
  <2>2. PICK j \in 1 .. N : \/ 2 * k - 1 = 2 * j /\ w[2 * k - 1] = btohexa_low(kept[j])
                            \/ /\ 2 * k - 1 = 2 * j - 1
                               /\ w[2 * k - 1] = btohexa_high(kept[j])
    BY <1>4, <2>1
  <2>3. j = k /\ w[2 * k - 1] = btohexa_high(kept[j])
    BY <2>2
  <2>4. PICK i \in 1 .. N : \/ 2 * k = 2 * i /\ w[2 * k] = btohexa_low(kept[i])
                            \/ 2 * k = 2 * i - 1 /\ w[2 * k] = btohexa_high(kept[i])
    BY <1>4, <2>1
  <2>5. i = k /\ w[2 * k] = btohexa_low(kept[i])
    BY <2>4
  <2>6. QED
    BY <2>3, <2>5
<1> HIDE DEF w, N, D
<1>9. \A k \in 1 .. N : /\ w[2 * k - 1] = DigitOf(kept[k] \div Radix)
                        /\ w[2 * k] = DigitOf(kept[k] % Radix)
  BY <1>3, <1>8
<1>10. QED
  BY <1>2, <1>7, <1>9 DEF w, N, D

LEMMA BytesNumber ==
  ASSUME NEW bytes \in Seq(0 .. Radix * Radix - 1)
  PROVE  HexNumber(BytesText(bytes), place[LongDigits])
           = BytesValue(bytes) % place[LongDigits]
<1> DEFINE N == Len(bytes)
           B == Radix * Radix
           limit == place[LongDigits]
           d == BytesText(bytes)
<1>1. /\ N \in Nat /\ B \in Nat \ {0} /\ Radix \in Nat \ {0}
      /\ limit \in Nat \ {0}
  <2>1. LongDigits \in 0 .. LongDigits
    BY MessageSizes
  <2>2. QED
    BY <2>1, LenProperties, MessageSizes, PlaceDef
<1>2. bytes \in Seq(Nat)
  <2>1. PICK C : C = 0 .. Radix * Radix - 1
    OBVIOUS
  <2>2. C \subseteq Nat
    BY <2>1, MessageSizes
  <2>3. bytes \in Seq(C)
    BY <2>1
  <2>4. PICK m \in Nat : bytes \in [1 .. m -> C]
    BY <2>3, LenProperties
  <2>5. bytes \in [1 .. m -> Nat]
    BY <2>2, <2>4
  <2>6. QED
    BY <2>5
<1>3. PICK value : BytesSoFar(value, bytes) /\ BytesValue(bytes) = value[Len(bytes)]
  BY <1>2, BytesDef
<1>4. /\ value \in [0 .. N -> Nat] /\ value[0] = 0
      /\ \A n \in 1 .. N : value[n] = value[n - 1] * B + bytes[n]
  BY <1>3 DEF BytesSoFar
<1>6. /\ d \in Seq(ToSet(HexDigits)) /\ Len(d) = 2 * N
      /\ \A k \in 1 .. N : /\ bytes[k] \in 0 .. B - 1
                           /\ d[2 * k - 1] = DigitOf(bytes[k] \div Radix)
                           /\ d[2 * k] = DigitOf(bytes[k] % Radix)
  BY BytesDigits
<1> DEFINE hi(k) == bytes[k] \div Radix
           lo(k) == bytes[k] % Radix
<1>7. ASSUME NEW k \in 1 .. N
      PROVE  /\ hi(k) \in 0 .. Radix - 1 /\ lo(k) \in 0 .. Radix - 1
             /\ bytes[k] = hi(k) * Radix + lo(k)
             /\ hexToByte(d[2 * k - 1]) = hi(k) /\ hexToByte(d[2 * k]) = lo(k)
  <2>1. PICK b \in 0 .. Radix * Radix - 1 : b = bytes[k]
    BY <1>6
  <2>2. /\ b \div Radix \in 0 .. Radix - 1 /\ b % Radix \in 0 .. Radix - 1
        /\ b = (b \div Radix) * Radix + (b % Radix)
    BY HalfBytes
  <2>3. /\ hexToByte(DigitOf(b \div Radix)) = b \div Radix
        /\ hexToByte(DigitOf(b % Radix)) = b % Radix
    BY <2>2, DigitsRead
  <2>4. QED
    BY <1>6, <2>1, <2>2, <2>3
<1> HIDE DEF N, B, limit, d, hi, lo
<1> DEFINE half(k) == value[k - 1] * Radix + hi(k)
<1>8. ASSUME NEW k \in 1 .. N
      PROVE  /\ k \in 0 .. N /\ k - 1 \in 0 .. N
             /\ value[k] = half(k) * Radix + lo(k)
             /\ half(k) \in Nat /\ value[k] \in Nat /\ value[k - 1] \in Nat
  <2>1. k \in 0 .. N /\ k - 1 \in 0 .. N
    BY <1>1
  <2>2. PICK v \in Nat : v = value[k - 1]
    BY <1>4, <2>1
  <2>3. PICK h \in Nat : h = hi(k)
    BY <1>7
  <2>4. PICK l \in Nat : l = lo(k)
    BY <1>7
  <2>5. PICK R \in Nat \ {0} : R = Radix
    BY <1>1
  <2>6. value[k] = v * (R * R) + (h * R + l)
    BY <1>4, <1>7, <2>2, <2>3, <2>4, <2>5 DEF B
  <2>7. v * (R * R) + (h * R + l) = (v * R + h) * R + l
    <3>1. v * (R * R) = (v * R) * R
      BY Times
    <3>2. PICK x \in Nat : x = v * R
      OBVIOUS
    <3>3. (x + h) * R + l = x * R + (h * R + l)
      OBVIOUS
    <3>4. QED
      BY <3>1, <3>2, <3>3
  <2>8. PICK x \in Nat : x = v * R + h
    OBVIOUS
  <2>9. half(k) = x
    BY <2>2, <2>3, <2>5, <2>8
  <2>10. value[k] = x * R + l
    BY <2>6, <2>7, <2>8
  <2>11. value[k] \in Nat
    BY <1>4, <2>1
  <2> HIDE DEF half
  <2>12. value[k] = half(k) * Radix + lo(k)
    BY <2>4, <2>5, <2>9, <2>10
  <2>13. QED
    BY <2>1, <2>2, <2>8, <2>9, <2>11, <2>12
<1> HIDE DEF half
<1> DEFINE number == [n \in 0 .. 2 * N |->
                        IF n % 2 = 0 THEN value[n \div 2] ELSE half((n + 1) \div 2)]
<1>9. number[0] = 0
  <2>1. 0 = 2 * 0 + 0 /\ 0 \in 0 .. 2 - 1
    OBVIOUS
  <2>2. 0 % 2 = 0 /\ 0 \div 2 = 0
    BY <2>1, DivModUnique
  <2>3. 0 \in 0 .. 2 * N
    BY <1>1
  <2>4. QED
    BY <1>4, <2>2, <2>3
<1>10. ASSUME NEW k \in 1 .. N
       PROVE  number[2 * k - 1] = half(k) /\ number[2 * k] = value[k]
  <2>1. /\ 2 * k - 1 \in 0 .. 2 * N /\ 2 * k \in 0 .. 2 * N
        /\ 2 * k - 1 \in Nat \ {0} /\ 2 * k \in Nat \ {0}
    BY <1>1
  <2>2. (2 * k - 1) % 2 = 1 /\ ((2 * k - 1) + 1) \div 2 = k
    <3>1. PICK n \in Nat \ {0} : n = 2 * k - 1
      BY <2>1
    <3>2. PICK j \in Nat \ {0} : \/ n = 2 * j /\ n % 2 = 0 /\ n \div 2 = j
                                 \/ n = 2 * j - 1 /\ n % 2 = 1 /\ (n + 1) \div 2 = j
      BY EvenOrOdd
    <3>3. j = k /\ n % 2 = 1 /\ (n + 1) \div 2 = j
      BY <3>1, <3>2
    <3>4. QED
      BY <3>1, <3>3
  <2>3. (2 * k) % 2 = 0 /\ (2 * k) \div 2 = k
    <3>1. PICK n \in Nat \ {0} : n = 2 * k
      BY <2>1
    <3>2. PICK j \in Nat \ {0} : \/ n = 2 * j /\ n % 2 = 0 /\ n \div 2 = j
                                 \/ n = 2 * j - 1 /\ n % 2 = 1 /\ (n + 1) \div 2 = j
      BY EvenOrOdd
    <3>3. j = k /\ n % 2 = 0 /\ n \div 2 = j
      BY <3>1, <3>2
    <3>4. QED
      BY <3>1, <3>3
  <2>4. QED
    BY <2>1, <2>2, <2>3
<1>11. number = [n \in 0 .. 2 * N |-> number[n]]
  OBVIOUS
<1> HIDE DEF number
<1>12. ASSUME NEW k \in 1 .. N PROVE number[2 * k - 2] = value[k - 1]
  <2>1. CASE k = 1
    BY <1>4, <1>9, <2>1
  <2>2. CASE k # 1
    <3>1. k - 1 \in 1 .. N /\ 2 * (k - 1) = 2 * k - 2
      BY <1>1, <2>2
    <3>2. QED
      BY <1>10, <3>1
  <2>3. QED
    BY <2>1, <2>2
<1>13. ASSUME NEW n \in 1 .. 2 * N
       PROVE  /\ number[n] \in Nat
              /\ number[n] = number[n - 1] * Radix + hexToByte(d[n])
  <2>1. n \in Nat \ {0}
    BY <1>1
  <2>2. PICK k \in Nat \ {0} : n = 2 * k \/ n = 2 * k - 1
    BY <2>1, EvenOrOdd
  <2>3. k \in 1 .. N /\ (2 * k - 1) - 1 = 2 * k - 2
    BY <1>1, <2>2
  <2>4. CASE n = 2 * k
    BY <1>7, <1>8, <1>10, <2>3, <2>4
  <2>5. CASE n = 2 * k - 1
    BY <1>7, <1>8, <1>10, <1>12, <2>3, <2>5 DEF half
  <2>6. QED
    BY <2>2, <2>4, <2>5
<1>14. number \in [0 .. 2 * N -> Nat]
  <2>1. ASSUME NEW n \in 0 .. 2 * N PROVE number[n] \in Nat
    <3>1. CASE n = 0
      BY <1>1, <1>9, <3>1
    <3>2. CASE n # 0
      <4>1. n \in 1 .. 2 * N
        BY <1>1, <3>2
      <4>2. QED
        BY <1>13, <4>1
    <3>3. QED
      BY <3>1, <3>2
  <2>2. QED
    BY <1>11, <2>1
<1>15. HexNumber(d, limit) = number[Len(d)] % limit
  BY <1>1, <1>6, <1>9, <1>13, <1>14, NumberModulo
<1>16. number[2 * N] = value[N]
  <2>1. CASE N = 0
    BY <1>4, <1>9, <2>1
  <2>2. CASE N # 0
    <3>1. N \in 1 .. N
      BY <1>1, <2>2
    <3>2. QED
      BY <1>10, <3>1
  <2>3. QED
    BY <2>1, <2>2
<1>17. HexNumber(d, limit) = value[N] % limit
  BY <1>6, <1>15, <1>16
<1>18. QED
  BY <1>3, <1>17 DEF d, limit, N

LEMMA BytesWritten ==
  ASSUME NEW bytes \in Seq(0 .. Radix * Radix - 1), bytes # <<>>
  PROVE  \E d \in Seq(ToSet(HexDigits)) :
           /\ LMAppendHashHexString(bytes) = IntText(d)
           /\ bytes[1] # ZeroChar =>
                HexNumber(d, place[LongDigits]) = BytesValue(bytes) % place[LongDigits]
<1> DEFINE others == {n \in DOMAIN bytes : bytes[n] # ZeroChar}
           kept == IF others = {} THEN <<>> ELSE SubSeq(bytes, Min(others), Len(bytes))
<1>1. LMAppendHashHexString(bytes) = IntText(BytesText(kept))
  BY DEF LMAppendHashHexString, IntText, BytesText
<1>2. PICK C : C = 0 .. Radix * Radix - 1
  OBVIOUS
<1>3. bytes \in Seq(C)
  BY <1>2
<1>4. Len(bytes) \in Nat \ {0} /\ DOMAIN bytes = 1 .. Len(bytes)
  BY <1>3, LenProperties, EmptySeq
<1>5. others \subseteq 1 .. Len(bytes)
  BY <1>4
<1>6. others # {} => /\ Min(others) \in others
                     /\ \A n \in others : Min(others) <= n
  <2> HIDE DEF others
  <2>1. others \subseteq Nat
    BY <1>5
  <2>2. QED
    BY <2>1, LeastIs
<1>7. kept \in Seq(C)
  <2>1. CASE others = {}
    <3>1. <<>> \in Seq(C)
      BY EmptySeq
    <3>2. QED
      BY <2>1, <3>1
  <2>2. CASE others # {}
    <3>1. PICK m \in 1 .. Len(bytes) : m = Min(others)
      <4> HIDE DEF others
      <4>1. QED
        BY <1>5, <1>6, <2>2
    <3>2. \A i \in m .. Len(bytes) : bytes[i] \in C
      <4>1. \A i \in m .. Len(bytes) : i \in 1 .. Len(bytes)
        BY <1>4
      <4>2. QED
        BY <1>3, <4>1, ElementOfSeq
    <3>3. SubSeq(bytes, m, Len(bytes)) \in Seq(C)
      BY <1>4, <3>2, SubSeqProperties
    <3>4. QED
      BY <2>2, <3>1, <3>3
  <2>3. QED
    BY <2>1, <2>2
<1>8. ASSUME bytes[1] # ZeroChar PROVE kept = bytes
  <2>1. 1 \in others
    BY <1>4, <1>8
  <2>2. Min(others) = 1
    <3> HIDE DEF others
    <3>1. Min(others) \in 1 .. Len(bytes) /\ Min(others) <= 1
      BY <1>5, <1>6, <2>1
    <3>2. QED
      BY <1>4, <3>1
  <2>3. kept = SubSeq(bytes, 1, Len(bytes))
    BY <2>1, <2>2
  <2>4. SubSeq(bytes, 1, Len(bytes)) = bytes
    BY <1>3, SubSeqFull
  <2>5. QED
    BY <2>3, <2>4
<1> HIDE DEF kept
<1>9. PICK w : w = kept /\ w \in Seq(0 .. Radix * Radix - 1)
  BY <1>2, <1>7
<1>10. BytesText(w) \in Seq(ToSet(HexDigits))
  BY <1>9, BytesDigits
<1>11. bytes[1] # ZeroChar =>
         HexNumber(BytesText(w), place[LongDigits])
           = BytesValue(bytes) % place[LongDigits]
  BY <1>8, <1>9, BytesNumber
<1>12. QED
  BY <1>1, <1>9, <1>10, <1>11

-----------------------------------------------------------------------------
(* Fields.                                                                 *)

IsInt(value) == value.kind \in {"int", "bytes"}

\* A number is what a value gives as digits; its leading zeros may be missed.
LEMMA NumberWritten ==
  ASSUME NEW value \in Values, IsInt(value)
  PROVE  \E d \in Seq(ToSet(HexDigits)) :
           /\ AppendedValue(value) = IntText(d)
           /\ (value.kind = "bytes" => value.value[1] # ZeroChar) =>
                HexNumber(d, place[LongDigits]) = NumberOf(value)
<1>1. CASE value.kind = "int"
  <2>1. value.value \in 0 .. place[LongDigits] - 1
    BY <1>1, ValuesAssumption
  <2>2. AppendedValue(value) = LMAppendInt(value.value)
    BY <1>1 DEF AppendedValue
  <2>3. NumberOf(value) = value.value
    BY <1>1 DEF NumberOf
  <2>4. PICK v \in 0 .. place[LongDigits] - 1 : v = value.value
    BY <2>1
  <2>5. PICK d \in Seq(ToSet(HexDigits)) :
          LMAppendInt(v) = IntText(d) /\ HexNumber(d, place[LongDigits]) = v
    BY IntWritten
  <2>6. QED
    BY <2>2, <2>3, <2>4, <2>5
<1>2. CASE value.kind = "bytes"
  <2>1. value.value \in Seq(0 .. Radix * Radix - 1) /\ value.value # <<>>
    BY <1>2, ValuesAssumption
  <2>2. AppendedValue(value) = LMAppendHashHexString(value.value)
    BY <1>2 DEF AppendedValue
  <2>3. NumberOf(value) = BytesValue(value.value) % place[LongDigits]
    BY <1>2 DEF NumberOf
  <2>4. PICK bytes \in Seq(0 .. Radix * Radix - 1) : bytes = value.value
    BY <2>1
  <2>5. bytes # <<>>
    BY <2>1, <2>4
  <2>6. PICK d \in Seq(ToSet(HexDigits)) :
           /\ LMAppendHashHexString(bytes) = IntText(d)
           /\ bytes[1] # ZeroChar =>
                HexNumber(d, place[LongDigits])
                  = BytesValue(bytes) % place[LongDigits]
    BY <2>5, BytesWritten
  <2>7. QED
    BY <1>2, <2>2, <2>3, <2>4, <2>6
<1>3. QED
  BY <1>1, <1>2 DEF IsInt

LEMMA StringWritten ==
  ASSUME NEW value \in Values, ~ IsInt(value)
  PROVE  /\ AppendedValue(value) = LMAppendString(value.value)
         /\ value.value \in Seq(Chars) /\ Len(value.value) < Radix * Radix
         /\ NumberOf(value) = 0 /\ value.kind = "string"
<1>1. value.kind = "string"
  BY ValuesAssumption DEF IsInt
<1>2. QED
  BY <1>1, ValuesAssumption DEF AppendedValue, NumberOf

LEMMA ValueShape ==
  ASSUME NEW value \in Values
  PROVE  AppendedValue(value) \in Seq(Chars) /\ Len(AppendedValue(value)) \in Nat \ {0}
<1>1. CASE IsInt(value)
  <2>1. PICK d \in Seq(ToSet(HexDigits)) : AppendedValue(value) = IntText(d)
    BY <1>1, NumberWritten
  <2>2. IntText(d) \in Seq(Chars) /\ Len(IntText(d)) = Len(d) + 2 /\ Len(d) \in Nat
    BY IntShape, LenProperties
  <2>3. QED
    BY <2>1, <2>2
<1>2. CASE ~ IsInt(value)
  <2>1. PICK s \in Seq(Chars) : s = value.value /\ Len(s) < Radix * Radix
    BY <1>2, StringWritten
  <2>2. PICK n \in Nat : n = Len(LMAppendString(s)) /\ n # 0
    <3>1. /\ Len(LMAppendString(s)) = Len(LengthDigits(Len(s))) + 1 + Len(s)
          /\ LengthDigits(Len(s)) \in Seq(Chars)
      BY <2>1, StringShape
    <3>2. PICK a \in Nat : a = Len(LengthDigits(Len(s)))
      BY <3>1, LenProperties
    <3>3. PICK b \in Nat : b = Len(s)
      BY LenProperties
    <3>4. QED
      BY <3>1, <3>2, <3>3
  <2>3. LMAppendString(s) \in Seq(Chars)
    BY <2>1, StringShape
  <2>4. AppendedValue(value) = LMAppendString(s)
    BY <1>2, <2>1, StringWritten
  <2>5. QED
    BY <2>2, <2>3, <2>4
<1>3. QED
  BY <1>1, <1>2

\* What reading a value that stands there gives.
LEMMA ValueTaken ==
  ASSUME text \in Seq(Chars), NEW p \in Nat, NEW value \in Values,
         Stands(p, AppendedValue(value))
  PROVE  /\ LMNextIsInt(p) <=> IsInt(value)
         /\ PastValue(p) = p + Len(AppendedValue(value))
         /\ (value.kind = "bytes" => value.value[1] # ZeroChar) =>
              LMTakeInt(p).value = NumberOf(value)
         /\ LMTakeInt(p).next \in {p, p + Len(AppendedValue(value))}
         /\ ~ IsInt(value) =>
              /\ LMTakeString(p, TakeSize).ok <=> Len(value.value) < TakeSize
              /\ LMTakeString(p, TakeSize).ok =>
                   LMTakeString(p, TakeSize).value = value.value
              /\ LMTakeString(p, TakeSize).next = p + Len(AppendedValue(value))
<1>1. CASE IsInt(value)
  <2>1. PICK d \in Seq(ToSet(HexDigits)) :
           /\ AppendedValue(value) = IntText(d)
           /\ (value.kind = "bytes" => value.value[1] # ZeroChar) =>
                HexNumber(d, place[LongDigits]) = NumberOf(value)
    BY <1>1, NumberWritten
  <2>2. Stands(p, IntText(d))
    BY <2>1
  <2>3. /\ LMNextIsInt(p)
        /\ LMTakeInt(p).value = HexNumber(d, place[LongDigits])
        /\ LMTakeInt(p).next = p + Len(IntText(d))
    BY <2>2, NumberTaken
  <2>4. PastValue(p) = LMTakeInt(p).next
    BY <2>3 DEF PastValue
  <2>5. QED
    BY <1>1, <2>1, <2>3, <2>4
<1>2. CASE ~ IsInt(value)
  <2>1. PICK s \in Seq(Chars) : s = value.value /\ Len(s) < Radix * Radix
    BY <1>2, StringWritten
  <2>2. AppendedValue(value) = LMAppendString(s) /\ NumberOf(value) = 0
    BY <1>2, <2>1, StringWritten
  <2>3. Stands(p, LMAppendString(s))
    BY <2>2
  <2>4. 0 \in Nat /\ TakeSize \in Nat
    BY MessageSizes
  <2>5. /\ LMTakeString(p, 0).next = p + Len(LMAppendString(s))
        /\ ~ LMNextIsInt(p)
    BY <2>1, <2>3, <2>4, StringTaken
  <2>6. /\ LMTakeString(p, TakeSize).ok <=> Len(s) <= TakeSize - 1
        /\ LMTakeString(p, TakeSize).ok => LMTakeString(p, TakeSize).value = s
        /\ LMTakeString(p, TakeSize).next = p + Len(LMAppendString(s))
    BY <2>1, <2>3, <2>4, StringTaken
  <2>7. Len(s) <= TakeSize - 1 <=> Len(s) < TakeSize
    <3>1. Len(s) \in Nat
      BY LenProperties
    <3>2. QED
      BY <2>4, <3>1
  <2>8. PastValue(p) = LMTakeString(p, 0).next
    BY <2>5 DEF PastValue
  <2>9. LMTakeInt(p).value = 0 /\ LMTakeInt(p).next = p
    BY <2>5 DEF LMTakeInt
  <2>10. LMTakeString(p, TakeSize).ok <=> Len(s) < TakeSize
    BY <2>6, <2>7
  <2>11. QED
    BY <1>2, <2>1, <2>2, <2>5, <2>6, <2>8, <2>9, <2>10
<1>3. QED
  BY <1>1, <1>2

-----------------------------------------------------------------------------
(* The search for a key, as a function that goes forward.                  *)

\* A function that each place takes from a later one, or settles.
Forward(B, ends, past) == \A p \in 0 .. B : p \notin ends => past[p] \in p + 1 .. B

IsBackward(f, B, S, ends, result, past) ==
  /\ f \in [0 .. B -> S]
  /\ \A p \in 0 .. B : f[p] = IF p \in ends THEN result[p] ELSE f[past[p]]

LEMMA BackwardRecursion ==
  ASSUME NEW B \in Nat, NEW S, NEW ends, NEW result \in [0 .. B -> S], NEW past,
         Forward(B, ends, past)
  PROVE  \E f : IsBackward(f, B, S, ends, result, past)
<1> DEFINE Goes(f, m) ==
             \A p \in B - m .. B : f[p] = IF p \in ends THEN result[p] ELSE f[past[p]]
           Reaches(m) == \E f \in [0 .. B -> S] : Goes(f, m)
           T == {m \in 0 .. B : Reaches(m)}
<1>1. \A p \in 0 .. B : p \notin ends => past[p] \in p + 1 .. B
  BY DEF Forward
<1>2. 0 \in T
  <2>1. \A p \in B - 0 .. B : p = B /\ p \in ends
    <3>1. \A p \in B - 0 .. B : p = B
      OBVIOUS
    <3>2. B \in ends
      <4>1. B \in 0 .. B /\ ~ \E x : x \in B + 1 .. B
        OBVIOUS
      <4>2. QED
        BY <1>1, <4>1
    <3>3. QED
      BY <3>1, <3>2
  <2>2. Goes(result, 0)
    BY <2>1
  <2>3. QED
    BY <2>2
<1>3. ASSUME NEW m \in T, m < B PROVE m + 1 \in T
  <2>1. m \in Nat /\ m + 1 \in 0 .. B
    BY <1>3
  <2>2. PICK f \in [0 .. B -> S] : Goes(f, m)
    BY <1>3
  <2>3. PICK q \in 0 .. B : q = B - (m + 1)
    BY <2>1
  <2>4. PICK last : last = IF q \in ends THEN result[q] ELSE f[past[q]]
    OBVIOUS
  <2>5. last \in S
    <3>1. CASE q \in ends
      BY <2>4, <3>1
    <3>2. CASE q \notin ends
      <4>1. past[q] \in 0 .. B
        BY <1>1, <3>2
      <4>2. QED
        BY <2>4, <3>2, <4>1
    <3>3. QED
      BY <3>1, <3>2
  <2>6. PICK g : g = [p \in 0 .. B |-> IF p = q THEN last ELSE f[p]]
    OBVIOUS
  <2>7. g \in [0 .. B -> S]
    BY <2>5, <2>6
  <2>8. g[q] = last /\ \A p \in 0 .. B : p # q => g[p] = f[p]
    BY <2>6
  <2>9. Goes(g, m + 1)
    <3>1. ASSUME NEW p \in B - (m + 1) .. B
          PROVE  g[p] = IF p \in ends THEN result[p] ELSE g[past[p]]
      <4>1. p \in 0 .. B
        BY <2>1
      <4>2. p \notin ends => past[p] \in 0 .. B /\ past[p] # q
        BY <1>1, <2>3, <4>1
      <4>3. CASE p = q
        BY <2>4, <2>8, <4>2, <4>3
      <4>4. CASE p # q
        <5>1. p \in B - m .. B
          BY <2>1, <2>3, <4>4
        <5>2. f[p] = IF p \in ends THEN result[p] ELSE f[past[p]]
          BY <2>2, <5>1
        <5>3. QED
          BY <2>8, <4>1, <4>2, <4>4, <5>2
      <4>5. QED
        BY <4>3, <4>4
    <3>2. QED
      BY <3>1
  <2>10. Reaches(m + 1)
    BY <2>7, <2>9
  <2> HIDE DEF Reaches
  <2>11. QED
    BY <2>1, <2>10
<1>4. T \subseteq 0 .. B
  OBVIOUS
<1> HIDE DEF T
<1>5. \A m \in 0 .. B : m \in T
  BY <1>2, <1>3, <1>4, BoundedInduction
<1>6. B \in T
  BY <1>5
<1>7. PICK f \in [0 .. B -> S] : Goes(f, B)
  BY <1>6 DEF T
<1>8. B - B = 0
  OBVIOUS
<1>9. QED
  BY <1>7, <1>8 DEF IsBackward

\* Where the key at a place ends, and where its value ends.
KeyAt(p) == LMTakeString(p, KeySize)
NextFrom(p) == PastValue(KeyAt(p).next)

\* What a search from a place gives.
Searches(find, p, key) ==
  /\ ~ KeyAt(p).ok => find[p] = [found |-> FALSE, next |-> KeyAt(p).next]
  /\ KeyAt(p).ok /\ KeyAt(p).value = key =>
       find[p] = [found |-> TRUE, next |-> KeyAt(p).next]
  /\ KeyAt(p).ok /\ KeyAt(p).value # key =>
       IF At(NextFrom(p)) = "s" \/ NextFrom(p) >= BufferSize
         THEN find[p] = [found |-> FALSE, next |-> NextFrom(p)]
         ELSE find[p] = find[NextFrom(p)]

LEMMA SearchDef ==
  ASSUME text \in Seq(Chars), NEW key
  PROVE  \E find : /\ LMFindHashString(key) = find[hashStartP]
                   /\ \A p \in 0 .. BufferSize : Searches(find, p, key)
<1> DEFINE B == BufferSize
           S == [found : BOOLEAN, next : Nat]
           AtEnd(p) == At(NextFrom(p)) = "s" \/ NextFrom(p) >= B
           ends == {p \in 0 .. B : ~ KeyAt(p).ok \/ KeyAt(p).value = key \/ AtEnd(p)}
           result == [p \in 0 .. B |->
                        IF ~ KeyAt(p).ok THEN [found |-> FALSE, next |-> KeyAt(p).next]
                        ELSE IF KeyAt(p).value = key
                          THEN [found |-> TRUE, next |-> KeyAt(p).next]
                        ELSE [found |-> FALSE, next |-> NextFrom(p)]]
           past == [p \in 0 .. B |-> NextFrom(p)]
           Def(f) == f = [p \in 0 .. B |->
                            IF ~ KeyAt(p).ok
                              THEN [found |-> FALSE, next |-> KeyAt(p).next]
                            ELSE IF KeyAt(p).value = key
                              THEN [found |-> TRUE, next |-> KeyAt(p).next]
                            ELSE IF At(NextFrom(p)) = "s" \/ NextFrom(p) >= B
                              THEN [found |-> FALSE, next |-> NextFrom(p)]
                            ELSE f[NextFrom(p)]]
<1>1. B \in Nat
  BY MessageSizes
<1>2. ASSUME NEW p \in 0 .. B
      PROVE  KeyAt(p).next \in Nat /\ NextFrom(p) \in Nat /\ NextFrom(p) > p
  <2>1. p \in Nat
    OBVIOUS
  <2>2. KeyAt(p).next \in Nat /\ KeyAt(p).next > p
    BY <2>1, TakingAdvances DEF KeyAt
  <2>3. PICK n \in Nat : n = KeyAt(p).next /\ n > p
    BY <2>2
  <2>4. /\ LMTakeString(n, 0).next \in Nat /\ LMTakeString(n, 0).next > n
        /\ LMTakeInt(n).next \in Nat /\ LMTakeInt(n).next >= n
    BY TakingAdvances
  <2>5. NextFrom(p) \in {LMTakeString(n, 0).next, LMTakeInt(n).next}
    BY <2>3 DEF NextFrom, PastValue
  <2>6. QED
    BY <2>1, <2>2, <2>3, <2>4, <2>5
<1>3. result \in [0 .. B -> S]
  <2>1. \A p \in 0 .. B : /\ [found |-> FALSE, next |-> KeyAt(p).next] \in S
                          /\ [found |-> TRUE, next |-> KeyAt(p).next] \in S
                          /\ [found |-> FALSE, next |-> NextFrom(p)] \in S
    BY <1>2
  <2> HIDE DEF S
  <2>2. QED
    BY <2>1
<1>4. ASSUME NEW p \in 0 .. B, p \notin ends PROVE past[p] \in p + 1 .. B
  <2>1. ~ (NextFrom(p) >= B) /\ past[p] = NextFrom(p)
    BY <1>4
  <2>2. QED
    BY <1>1, <1>2, <2>1
<1> HIDE DEF S
<1>5. \E f \in [0 .. B -> S] :
        \A p \in 0 .. B : f[p] = IF p \in ends THEN result[p] ELSE f[past[p]]
  <2> HIDE DEF B, ends, result, past
  <2>1. PICK E : E = ends
    OBVIOUS
  <2>2. PICK r \in [0 .. B -> S] : r = result
    BY <1>3
  <2>3. PICK q : q = past
    OBVIOUS
  <2>4. Forward(B, E, q)
    BY <1>4, <2>1, <2>3 DEF Forward
  <2>5. \E f : IsBackward(f, B, S, E, r, q)
    BY <1>1, <2>4, BackwardRecursion
  <2>6. QED
    BY <2>1, <2>2, <2>3, <2>5 DEF IsBackward
<1>6. PICK f \in [0 .. B -> S] :
        \A p \in 0 .. B : f[p] = IF p \in ends THEN result[p] ELSE f[past[p]]
  <2> HIDE DEF B, ends, result, past
  <2>1. QED
    BY <1>5
<1>7. Def(f)
  <2>1. ASSUME NEW p \in 0 .. B
        PROVE  f[p] = IF ~ KeyAt(p).ok
                        THEN [found |-> FALSE, next |-> KeyAt(p).next]
                      ELSE IF KeyAt(p).value = key
                        THEN [found |-> TRUE, next |-> KeyAt(p).next]
                      ELSE IF At(NextFrom(p)) = "s" \/ NextFrom(p) >= B
                        THEN [found |-> FALSE, next |-> NextFrom(p)]
                      ELSE f[NextFrom(p)]
    <3>1. f[p] = IF p \in ends THEN result[p] ELSE f[past[p]]
      BY <1>6
    <3>2. past[p] = NextFrom(p)
      OBVIOUS
    <3>3. p \in ends <=> ~ KeyAt(p).ok \/ KeyAt(p).value = key \/ AtEnd(p)
      OBVIOUS
    <3>4. result[p] = IF ~ KeyAt(p).ok
                        THEN [found |-> FALSE, next |-> KeyAt(p).next]
                      ELSE IF KeyAt(p).value = key
                        THEN [found |-> TRUE, next |-> KeyAt(p).next]
                      ELSE [found |-> FALSE, next |-> NextFrom(p)]
      OBVIOUS
    <3> HIDE DEF ends, result, past
    <3>5. QED
      BY <3>1, <3>2, <3>3, <3>4
  <2>2. f = [p \in 0 .. B |-> f[p]]
    BY <1>6
  <2>3. QED
    BY <2>1, <2>2
<1> DEFINE find == CHOOSE g : Def(g)
<1>8. Def(find)
  <2> HIDE DEF Def
  <2>1. QED
    BY <1>7
<1>9. LMFindHashString(key) = find[hashStartP]
  BY DEF LMFindHashString, KeyAt, NextFrom
<1> HIDE DEF find
<1>10. ASSUME NEW p \in 0 .. B PROVE Searches(find, p, key)
  <2>1. find[p] = IF ~ KeyAt(p).ok
                    THEN [found |-> FALSE, next |-> KeyAt(p).next]
                  ELSE IF KeyAt(p).value = key
                    THEN [found |-> TRUE, next |-> KeyAt(p).next]
                  ELSE IF At(NextFrom(p)) = "s" \/ NextFrom(p) >= B
                    THEN [found |-> FALSE, next |-> NextFrom(p)]
                  ELSE find[NextFrom(p)]
    BY <1>8
  <2>2. QED
    BY <2>1 DEF Searches
<1>11. QED
  BY <1>9, <1>10

-----------------------------------------------------------------------------
(* A message as it was written: the name, 'h', the fields and 's'.         *)

Field == [key : Keys, value : Values]

FieldAt(fields, k) == FieldText(fields[k].key, fields[k].value)

\* Where each field ends.
Laid(t, name, fields, off) ==
  /\ off \in [0 .. Len(fields) -> Nat]
  /\ off[0] = Len(LMAppendString(name)) + 1
  /\ StandsIn(t, 0, LMAppendString(name) \o <<"h">>)
  /\ \A k \in 1 .. Len(fields) :
       /\ off[k] = off[k - 1] + Len(FieldAt(fields, k))
       /\ StandsIn(t, off[k - 1], FieldAt(fields, k))

Ended(t, fields, off) ==
  /\ fields # <<>>
  /\ Len(t) = off[Len(fields)] + 1
  /\ StandsIn(t, off[Len(fields)], <<"s">>)

LEMMA FieldShape ==
  ASSUME NEW key \in Keys, NEW value \in Values
  PROVE  /\ key \in Seq(Chars) /\ Len(key) < Radix * Radix
         /\ LMAppendString(key) \in Seq(Chars) /\ AppendedValue(value) \in Seq(Chars)
         /\ FieldText(key, value) \in Seq(Chars)
         /\ Len(FieldText(key, value))
              = Len(LMAppendString(key)) + Len(AppendedValue(value))
<1>1. key \in Seq(Chars) /\ Len(key) < Radix * Radix
  BY ValuesAssumption
<1>2. LMAppendString(key) \in Seq(Chars)
  BY <1>1, StringShape
<1>3. AppendedValue(value) \in Seq(Chars)
  BY ValueShape
<1>4. PICK s \in Seq(Chars) : s = LMAppendString(key)
  BY <1>2
<1>5. PICK t \in Seq(Chars) : t = AppendedValue(value)
  BY <1>3
<1>6. s \o t \in Seq(Chars) /\ Len(s \o t) = Len(s) + Len(t)
  BY ConcatProperties
<1>7. FieldText(key, value) = s \o t
  BY <1>4, <1>5 DEF FieldText
<1>8. QED
  BY <1>1, <1>4, <1>5, <1>6, <1>7

\* What is read where a field begins.
LEMMA FieldRead ==
  ASSUME text \in Seq(Chars), NEW p \in Nat, NEW key \in Keys, NEW value \in Values,
         Stands(p, FieldText(key, value))
  PROVE  /\ KeyAt(p).ok <=> Len(key) < KeySize
         /\ KeyAt(p).ok => KeyAt(p).value = key
         /\ KeyAt(p).next \in Nat /\ KeyAt(p).next <= Len(text)
         /\ Stands(KeyAt(p).next, AppendedValue(value))
         /\ NextFrom(p) = p + Len(FieldText(key, value))
         /\ At(p) # "s"
<1>1. PICK s \in Seq(Chars) : s = LMAppendString(key)
  BY FieldShape
<1>2. PICK t \in Seq(Chars) : t = AppendedValue(value)
  BY FieldShape
<1>3. FieldText(key, value) = s \o t
  BY <1>1, <1>2 DEF FieldText
<1>4. Stands(p, s) /\ Stands(p + Len(s), t)
  BY <1>3, StandsParts
<1>5. key \in Seq(Chars) /\ Len(key) < Radix * Radix /\ KeySize \in Nat
  BY FieldShape, MessageSizes
<1>6. Stands(p, LMAppendString(key))
  BY <1>1, <1>4
<1>7. /\ KeyAt(p).ok <=> Len(key) <= KeySize - 1
      /\ KeyAt(p).ok => KeyAt(p).value = key
      /\ KeyAt(p).next = p + Len(LMAppendString(key))
      /\ At(p) # "s"
  BY <1>5, <1>6, StringTaken DEF KeyAt
<1>8. Len(key) <= KeySize - 1 <=> Len(key) < KeySize
  <2>1. Len(key) \in Nat
    BY <1>5, LenProperties
  <2>2. QED
    BY <1>5, <2>1
<1>9. PICK n \in Nat : n = KeyAt(p).next /\ n = p + Len(s)
  <2>1. Len(s) \in Nat
    BY LenProperties
  <2>2. QED
    BY <1>1, <1>7, <2>1
<1>10. n <= Len(text)
  BY <1>4, <1>9 DEF Stands, StandsIn
<1>11. Stands(n, AppendedValue(value))
  BY <1>2, <1>4, <1>9
<1>12. PastValue(n) = n + Len(AppendedValue(value))
  BY <1>11, ValueTaken
<1>13. NextFrom(p) = p + Len(FieldText(key, value))
  <2>1. Len(FieldText(key, value)) = Len(s) + Len(t)
    BY <1>1, <1>2, FieldShape
  <2>2. Len(s) \in Nat /\ Len(t) \in Nat
    BY LenProperties
  <2>3. NextFrom(p) = n + Len(t)
    BY <1>2, <1>9, <1>12 DEF NextFrom
  <2>4. QED
    BY <1>9, <2>1, <2>2, <2>3
<1>14. QED
  BY <1>7, <1>8, <1>9, <1>10, <1>11, <1>13

\* The first field with a key.
LEMMA FieldOfIs ==
  ASSUME message.fields \in Seq(Field), NEW key
  PROVE  /\ FieldOf(key) \in 0 .. Len(message.fields)
         /\ \A h \in 1 .. Len(message.fields) :
              FieldOf(key) = h <=>
                /\ message.fields[h].key = key
                /\ \A k \in 1 .. h : Len(message.fields[k].key) < KeySize
                /\ \A k \in 1 .. h - 1 : message.fields[k].key # key
<1> DEFINE fields == message.fields
           N == Len(fields)
           ShortTo(n) == \A k \in 1 .. n : Len(fields[k].key) < KeySize
           hits == {n \in DOMAIN fields : fields[n].key = key /\ ShortTo(n)}
<1>1. N \in Nat /\ DOMAIN fields = 1 .. N
  BY LenProperties
<1>2. FieldOf(key) = IF hits = {} THEN 0 ELSE Min(hits)
  BY DEF FieldOf
<1>3. hits \subseteq 1 .. N /\ hits \subseteq Nat
  BY <1>1
<1>4. \A n \in 1 .. N : n \in hits <=> fields[n].key = key /\ ShortTo(n)
  BY <1>1
<1>5. ASSUME NEW m \in 1 .. N, NEW n \in 1 .. m, ShortTo(m) PROVE ShortTo(n)
  <2>1. \A k \in 1 .. n : k \in 1 .. m
    BY <1>1
  <2>2. QED
    BY <1>5, <2>1
<1> HIDE DEF hits, N, ShortTo
<1>6. hits # {} => Min(hits) \in hits /\ \A n \in hits : Min(hits) <= n
  BY <1>3, LeastIs
<1>7. FieldOf(key) \in 0 .. N
  <2>1. N \in Nat
    BY <1>1
  <2>2. CASE hits = {}
    BY <1>2, <2>1, <2>2
  <2>3. CASE hits # {}
    <3>1. FieldOf(key) \in 1 .. N
      BY <1>2, <1>3, <1>6, <2>3
    <3>2. QED
      BY <2>1, <3>1
  <2>4. QED
    BY <2>2, <2>3
<1>8. ASSUME NEW h \in 1 .. N, FieldOf(key) = h
      PROVE  fields[h].key = key /\ ShortTo(h) /\ \A k \in 1 .. h - 1 : fields[k].key # key
  <2>1. h \in hits /\ \A n \in hits : h <= n
    BY <1>2, <1>6, <1>8
  <2>2. ASSUME NEW k \in 1 .. h - 1, fields[k].key = key PROVE FALSE
    <3>1. k \in 1 .. N /\ k \in 1 .. h /\ ~ (h <= k)
      BY <1>1
    <3>2. ShortTo(k)
      BY <1>4, <1>5, <2>1, <3>1
    <3>3. k \in hits
      BY <1>4, <2>2, <3>1, <3>2
    <3>4. QED
      BY <2>1, <3>1, <3>3
  <2>3. QED
    BY <1>4, <2>1, <2>2
<1>9. ASSUME NEW h \in 1 .. N, fields[h].key = key, ShortTo(h),
             \A k \in 1 .. h - 1 : fields[k].key # key
      PROVE  FieldOf(key) = h
  <2>1. h \in hits
    BY <1>4, <1>9
  <2>2. PICK m \in 1 .. N : m = FieldOf(key) /\ m \in hits /\ m <= h
    BY <1>2, <1>3, <1>6, <2>1
  <2>3. ~ (m \in 1 .. h - 1)
    BY <1>4, <1>9, <2>2
  <2>4. m = h
    BY <1>1, <2>2, <2>3
  <2>5. QED
    BY <2>2, <2>4
<1>10. QED
  BY <1>7, <1>8, <1>9 DEF N, ShortTo

\* What a search for a key has to give.
Gives(result, key) ==
  /\ result.next \in 0 .. Len(text)
  /\ result.found \in BOOLEAN
  /\ result.found <=> FieldOf(key) # 0
  /\ result.found =>
       /\ FieldOf(key) \in 1 .. Len(message.fields)
       /\ Stands(result.next, AppendedValue(message.fields[FieldOf(key)].value))

LEMMA FindGives ==
  ASSUME text \in Seq(Chars), Len(text) < BufferSize,
         message.fields \in Seq(Field), NEW off,
         Laid(text, message.name, message.fields, off), Ended(text, message.fields, off),
         hashStartP = off[0], NEW key \in Keys
  PROVE  Gives(LMFindHashString(key), key)
<1> DEFINE fields == message.fields
           N == Len(fields)
           Passed(k) == \A i \in 1 .. k : Len(fields[i].key) < KeySize /\ fields[i].key # key
<1>1. /\ N \in Nat \ {0} /\ Len(text) \in Nat /\ BufferSize \in Nat
      /\ Len(text) = off[N] + 1 /\ At(off[N]) = "s"
  <2>1. N \in Nat /\ N # 0
    BY LenProperties, EmptySeq DEF Ended
  <2>2. Len(text) \in Nat /\ Len(text) = off[N] + 1
    BY LenProperties DEF Ended
  <2>3. PICK e : e = <<"s">>
    OBVIOUS
  <2>4. Len(e) = 1 /\ e[1] = "s"
    BY <2>3
  <2>5. StandsIn(text, off[N], e) /\ 1 \in 1 .. Len(e)
    BY <2>3, <2>4 DEF Ended
  <2>6. PICK q \in Nat : q = off[N]
    <3>1. N \in 0 .. N
      BY <2>1
    <3>2. QED
      BY <3>1 DEF Laid
  <2>7. text[q + 1] = "s" /\ q < Len(text)
    BY <2>2, <2>4, <2>5, <2>6 DEF StandsIn
  <2>8. QED
    BY <2>1, <2>2, <2>6, <2>7, MessageSizes DEF At
<1>2. \A k \in 1 .. N : fields[k].key \in Keys /\ fields[k].value \in Values
  <2>1. \A k \in 1 .. N : fields[k] \in Field
    BY ElementOfSeq
  <2>2. QED
    BY <2>1 DEF Field
<1>3. /\ off \in [0 .. N -> Nat]
      /\ \A k \in 1 .. N : /\ off[k] = off[k - 1] + Len(FieldAt(fields, k))
                           /\ Stands(off[k - 1], FieldAt(fields, k))
  BY DEF Laid, Stands
<1>4. PICK find : /\ LMFindHashString(key) = find[hashStartP]
                  /\ \A p \in 0 .. BufferSize : Searches(find, p, key)
  BY SearchDef
<1>5. PICK result : result = find[hashStartP]
  OBVIOUS
<1> HIDE DEF N
<1>6. ASSUME NEW k \in 1 .. N
      PROVE  /\ off[k - 1] \in 0 .. BufferSize
             /\ KeyAt(off[k - 1]).ok <=> Len(fields[k].key) < KeySize
             /\ KeyAt(off[k - 1]).ok => KeyAt(off[k - 1]).value = fields[k].key
             /\ KeyAt(off[k - 1]).next \in 0 .. Len(text)
             /\ Stands(KeyAt(off[k - 1]).next, AppendedValue(fields[k].value))
             /\ NextFrom(off[k - 1]) = off[k]
             /\ At(off[k - 1]) # "s"
  <2>1. k - 1 \in 0 .. N
    BY <1>1
  <2>2. PICK p \in Nat : p = off[k - 1]
    BY <1>3, <2>1
  <2>3. PICK name : name = fields[k].key /\ name \in Keys
    BY <1>2
  <2>4. PICK value : value = fields[k].value /\ value \in Values
    BY <1>2
  <2>5. Stands(p, FieldText(name, value))
    BY <1>3, <2>2, <2>3, <2>4 DEF FieldAt
  <2>6. /\ KeyAt(p).ok <=> Len(name) < KeySize
        /\ KeyAt(p).ok => KeyAt(p).value = name
        /\ KeyAt(p).next \in Nat /\ KeyAt(p).next <= Len(text)
        /\ Stands(KeyAt(p).next, AppendedValue(value))
        /\ NextFrom(p) = p + Len(FieldText(name, value))
        /\ At(p) # "s"
    BY <2>3, <2>4, <2>5, FieldRead
  <2>7. off[k] = p + Len(FieldText(name, value))
    BY <1>3, <2>2, <2>3, <2>4 DEF FieldAt
  <2>8. p <= Len(text)
    <3>1. PICK s \in Seq(Chars) : s = FieldText(name, value)
      BY <2>3, <2>4, FieldShape
    <3>2. Len(s) \in Nat
      BY LenProperties
    <3>3. p + Len(s) <= Len(text)
      BY <2>5, <3>1 DEF Stands, StandsIn
    <3>4. QED
      BY <1>1, <3>2, <3>3
  <2>9. p \in 0 .. BufferSize
    BY <1>1, <2>8
  <2>10. KeyAt(p).next \in 0 .. Len(text)
    BY <1>1, <2>6
  <2>11. QED
    BY <2>2, <2>3, <2>4, <2>6, <2>7, <2>9, <2>10
<1>7. /\ FieldOf(key) \in 0 .. N
      /\ \A h \in 1 .. N :
           FieldOf(key) = h <=>
             /\ fields[h].key = key
             /\ \A i \in 1 .. h : Len(fields[i].key) < KeySize
             /\ \A i \in 1 .. h - 1 : fields[i].key # key
  BY FieldOfIs DEF N
<1>8. ASSUME NEW k \in 0 .. N - 1, Passed(k), result = find[off[k]]
      PROVE  \/ Gives(result, key)
             \/ k + 1 <= N - 1 /\ Passed(k + 1) /\ result = find[off[k + 1]]
  <2>1. /\ k + 1 \in 1 .. N /\ (k + 1) - 1 = k /\ k \in 0 .. N /\ k + 1 \in 0 .. N
    BY <1>1
  <2>2. PICK p \in 0 .. BufferSize : p = off[k]
    BY <1>6, <2>1
  <2>3. Searches(find, p, key)
    BY <1>4
  <2>4. /\ KeyAt(p).ok <=> Len(fields[k + 1].key) < KeySize
        /\ KeyAt(p).ok => KeyAt(p).value = fields[k + 1].key
        /\ KeyAt(p).next \in 0 .. Len(text)
        /\ Stands(KeyAt(p).next, AppendedValue(fields[k + 1].value))
        /\ NextFrom(p) = off[k + 1]
    BY <1>6, <2>1, <2>2
  <2>5. CASE ~ KeyAt(p).ok
    <3>1. result = [found |-> FALSE, next |-> KeyAt(p).next]
      BY <1>8, <2>2, <2>3, <2>5 DEF Searches
    <3>2. ASSUME NEW h \in 1 .. N, FieldOf(key) = h PROVE FALSE
      <4>1. fields[h].key = key /\ \A i \in 1 .. h : Len(fields[i].key) < KeySize
        BY <1>7, <3>2
      <4>2. ~ (h \in 1 .. k)
        BY <1>8, <4>1
      <4>3. k + 1 \in 1 .. h
        BY <1>1, <4>2
      <4>4. QED
        BY <2>4, <2>5, <4>1, <4>3
    <3>3. FieldOf(key) = 0
      BY <1>1, <1>7, <3>2
    <3>4. QED
      BY <2>4, <3>1, <3>3 DEF Gives
  <2>6. CASE KeyAt(p).ok /\ fields[k + 1].key = key
    <3>1. result = [found |-> TRUE, next |-> KeyAt(p).next]
      BY <1>8, <2>2, <2>3, <2>4, <2>6 DEF Searches
    <3>2. \A i \in 1 .. k + 1 : Len(fields[i].key) < KeySize
      <4>1. \A i \in 1 .. k + 1 : i \in 1 .. k \/ i = k + 1
        BY <2>1
      <4>2. QED
        BY <1>8, <2>4, <2>6, <4>1
    <3>3. FieldOf(key) = k + 1
      BY <1>7, <1>8, <2>1, <2>6, <3>2
    <3>4. k + 1 # 0 /\ k + 1 \in 1 .. Len(message.fields)
      BY <1>1, <2>1 DEF N
    <3>5. QED
      BY <2>4, <3>1, <3>3, <3>4 DEF Gives
  <2>7. CASE KeyAt(p).ok /\ fields[k + 1].key # key
    <3>1. IF At(off[k + 1]) = "s" \/ off[k + 1] >= BufferSize
            THEN result = [found |-> FALSE, next |-> off[k + 1]]
            ELSE result = find[off[k + 1]]
      BY <1>8, <2>2, <2>3, <2>4, <2>7 DEF Searches
    <3>2. Passed(k + 1)
      <4>1. \A i \in 1 .. k + 1 : i \in 1 .. k \/ i = k + 1
        BY <2>1
      <4>2. QED
        BY <1>8, <2>4, <2>7, <4>1
    <3>3. CASE k + 1 = N
      <4>1. result = [found |-> FALSE, next |-> off[N]]
        BY <1>1, <3>1, <3>3
      <4>2. ASSUME NEW h \in 1 .. N, FieldOf(key) = h PROVE FALSE
        BY <1>7, <3>2, <3>3, <4>2
      <4>3. FieldOf(key) = 0
        BY <1>1, <1>7, <4>2
      <4>4. off[N] \in 0 .. Len(text)
        <5>1. off[N] \in Nat
          BY <1>3, <2>1, <3>3
        <5>2. QED
          BY <1>1, <5>1
      <4>5. QED
        BY <4>1, <4>3, <4>4 DEF Gives
    <3>4. CASE k + 1 # N
      <4>1. k + 2 \in 1 .. N /\ (k + 2) - 1 = k + 1 /\ k + 1 <= N - 1
        BY <1>1, <2>1, <3>4
      <4>2. At(off[k + 1]) # "s" /\ off[k + 1] \in 0 .. BufferSize
        BY <1>6, <4>1
      <4>3. off[k + 1] < BufferSize
        <5>1. PICK q \in Nat : q = off[k + 1]
          BY <4>2
        <5>2. Stands(q, FieldAt(fields, k + 2))
          BY <1>3, <4>1, <5>1
        <5>3. FieldAt(fields, k + 2) \in Seq(Chars)
          BY <1>2, <4>1, FieldShape DEF FieldAt
        <5>4. Len(FieldAt(fields, k + 2)) \in Nat
          BY <5>3, LenProperties
        <5>5. q <= Len(text)
          BY <1>1, <5>2, <5>4 DEF Stands, StandsIn
        <5>6. QED
          BY <1>1, <5>1, <5>5
      <4>4. ~ (off[k + 1] >= BufferSize)
        BY <1>1, <4>2, <4>3
      <4>5. QED
        BY <3>1, <3>2, <4>1, <4>2, <4>4
    <3>5. QED
      BY <3>3, <3>4
  <2>8. QED
    BY <2>5, <2>6, <2>7
<1> DEFINE T == {k \in 0 .. N - 1 : Passed(k) /\ result = find[off[k]]}
<1>9. 0 \in T
  <2>1. 0 \in 0 .. N - 1 /\ Passed(0)
    BY <1>1
  <2>2. result = find[off[0]]
    BY <1>5
  <2> HIDE DEF Passed
  <2>3. QED
    BY <2>1, <2>2
<1> HIDE DEF Passed
<1>10. ASSUME ~ Gives(result, key) PROVE FALSE
  <2>1. ASSUME NEW k \in T, k < N - 1 PROVE k + 1 \in T
    <3>1. k \in 0 .. N - 1 /\ Passed(k) /\ result = find[off[k]]
      OBVIOUS
    <3>2. k + 1 \in 0 .. N - 1
      BY <1>1, <2>1, <3>1
    <3>3. Passed(k + 1) /\ result = find[off[k + 1]]
      BY <1>8, <1>10, <3>1
    <3>4. QED
      BY <3>2, <3>3
  <2>2. T \subseteq 0 .. N - 1
    OBVIOUS
  <2> HIDE DEF T
  <2>3. N - 1 \in Nat
    BY <1>1
  <2>4. \A k \in 0 .. N - 1 : k \in T
    BY <1>9, <2>1, <2>2, <2>3, BoundedInduction
  <2>5. N - 1 \in 0 .. N - 1 /\ ~ ((N - 1) + 1 <= N - 1)
    BY <1>1
  <2>6. Passed(N - 1) /\ result = find[off[N - 1]]
    BY <2>4, <2>5 DEF T
  <2>7. QED
    BY <1>8, <1>10, <2>5, <2>6
<1>11. QED
  BY <1>4, <1>5, <1>10

-----------------------------------------------------------------------------
(* The invariant.                                                          *)

\* FieldOf and TakenBack, of any fields, any name and any answer.
FieldIn(fields, key) ==
  LET hits == {n \in DOMAIN fields :
                 /\ fields[n].key = key
                 /\ \A k \in 1 .. n : Len(fields[k].key) < KeySize}
  IN  IF hits = {} THEN 0 ELSE Min(hits)

ValueIn(fields, key) == fields[FieldIn(fields, key)].value

Answers(given, name, fields) ==
  /\ given.call = "name" =>
       /\ given.ok = (Len(name) < TakeSize)
       /\ given.ok => given.value = name
  /\ given.call = "find" => given.ok = (FieldIn(fields, given.key) # 0)
  /\ given.call = "int" =>
       LET value == ValueIn(fields, given.key)
       IN  (value.kind = "bytes" => value.value[1] # ZeroChar) =>
             given.value = NumberOf(value)
  /\ given.call = "string" =>
       /\ given.ok = (Len(ValueIn(fields, given.key).value) < TakeSize)
       /\ given.ok => given.value = ValueIn(fields, given.key).value

LEMMA AnswersTakenBack == Answers(answer, message.name, message.fields) => TakenBack
<1>1. \A key : FieldOf(key) = FieldIn(message.fields, key)
  BY DEF FieldOf, FieldIn
<1>2. \A key : Taken(key) = ValueIn(message.fields, key)
  BY <1>1 DEF Taken, ValueIn
<1>3. QED
  BY <1>1, <1>2 DEF Answers, TakenBack

Stages == {"cleared", "fields", "ended", "named", "entered", "refused"}

\* The text is the message as far as it is written.
Written(t, name, fields, at) ==
  \E off : /\ Laid(t, name, fields, off)
           /\ IF at = "fields" THEN Len(t) = off[Len(fields)] ELSE Ended(t, fields, off)

TextInv ==
  /\ text \in Seq(Chars)
  /\ message \in [at : Stages, name : Names \cup {<<>>}, fields : Seq(Field)]
  /\ Len(message.fields) <= MaxFields
  /\ message.at = "cleared" => text = <<>>
  /\ message.at # "cleared" =>
       /\ message.name \in Names
       /\ Written(text, message.name, message.fields, message.at)

\* Where the reader is.
PlaceInv ==
  /\ bufferP \in 0 .. Len(text)
  /\ hashStartP \in 0 .. BufferSize - 1
  /\ message.at \in {"cleared", "fields", "ended"} => bufferP = 0
  /\ message.at = "named" => bufferP = Len(LMAppendString(message.name))
  /\ message.at = "entered" => hashStartP = Len(LMAppendString(message.name)) + 1

\* A key that was found is followed by the value of its first field.
AnswerInv ==
  /\ answer.call \in {"none", "name", "find", "int", "string"}
  /\ message.at \in {"cleared", "fields", "ended"} => answer.call = "none"
  /\ answer.call \in {"find", "int", "string"} => message.at = "entered"
  /\ KeyFound =>
       /\ FieldIn(message.fields, answer.key) \in 1 .. Len(message.fields)
       /\ StandsIn(text, bufferP, AppendedValue(ValueIn(message.fields, answer.key)))
  /\ Answers(answer, message.name, message.fields)

MessageInv == TextInv /\ PlaceInv /\ AnswerInv

\* A message fits its buffer.
LEMMA TextFits ==
  ASSUME NEW t \in Seq(Chars), NEW name \in Names, NEW fields \in Seq(Field), NEW at,
         Len(fields) <= MaxFields, Written(t, name, fields, at)
  PROVE  Len(t) < BufferSize
<1> DEFINE N == Len(fields)
<1>1. PICK off : /\ Laid(t, name, fields, off)
                 /\ Len(t) \in {off[N], off[N] + 1}
  BY DEF Written, Ended
<1>2. PICK most \in 0 .. BufferSize :
        /\ \A key \in Keys, value \in Values : Len(FieldText(key, value)) <= most
        /\ \A s \in Names : Len(LMAppendString(s)) + 2 + MaxFields * most < BufferSize
  BY BufferAssumption
<1>3. N \in Nat /\ MaxFields \in Nat /\ BufferSize \in Nat /\ most \in Nat
  BY LenProperties, MessageSizes
<1>4. PICK a \in Nat : a = Len(LMAppendString(name))
  <2>1. name \in Seq(Chars) /\ Len(name) < Radix * Radix
    BY ValuesAssumption
  <2>2. PICK s \in Seq(Chars) : s = LMAppendString(name)
    BY <2>1, StringShape
  <2>3. Len(s) \in Nat
    BY LenProperties
  <2>4. QED
    BY <2>2, <2>3
<1>5. /\ off \in [0 .. N -> Nat] /\ off[0] = a + 1
      /\ \A k \in 1 .. N : off[k] = off[k - 1] + Len(FieldAt(fields, k))
  BY <1>1, <1>4 DEF Laid
<1>6. \A k \in 1 .. N : Len(FieldAt(fields, k)) \in Nat /\ Len(FieldAt(fields, k)) <= most
  <2>1. ASSUME NEW k \in 1 .. N
        PROVE  Len(FieldAt(fields, k)) \in Nat /\ Len(FieldAt(fields, k)) <= most
    <3>1. fields[k] \in Field
      BY ElementOfSeq
    <3>2. PICK key \in Keys : key = fields[k].key
      BY <3>1 DEF Field
    <3>3. PICK value \in Values : value = fields[k].value
      BY <3>1 DEF Field
    <3>4. FieldAt(fields, k) = FieldText(key, value)
      BY <3>2, <3>3 DEF FieldAt
    <3>5. FieldText(key, value) \in Seq(Chars)
      BY FieldShape
    <3>6. PICK s \in Seq(Chars) : s = FieldText(key, value)
      BY <3>5
    <3>7. Len(s) \in Nat /\ Len(s) <= most
      BY <1>2, <3>6, LenProperties
    <3>8. QED
      BY <3>4, <3>6, <3>7
  <2>2. QED
    BY <2>1
<1> HIDE DEF N
<1> DEFINE T == {k \in 0 .. N : off[k] <= a + 1 + k * most}
<1>7. 0 \in T
  BY <1>3, <1>5
<1>8. ASSUME NEW k \in T, k < N PROVE k + 1 \in T
  <2>1. k \in 0 .. N /\ k + 1 \in 1 .. N /\ (k + 1) - 1 = k /\ k + 1 \in 0 .. N
    BY <1>3, <1>8
  <2>2. PICK l \in Nat : l = Len(FieldAt(fields, k + 1)) /\ l <= most
    BY <1>6, <2>1
  <2>3. PICK o \in Nat : o = off[k] /\ o <= a + 1 + k * most
    BY <1>5, <2>1
  <2>4. off[k + 1] = o + l
    BY <1>5, <2>1, <2>2, <2>3
  <2>5. (k + 1) * most = k * most + most /\ k * most \in Int
    BY <1>3, <2>1
  <2>6. o + l <= a + 1 + (k + 1) * most
    BY <1>3, <2>2, <2>3, <2>5
  <2>7. QED
    BY <2>1, <2>4, <2>6
<1>9. T \subseteq 0 .. N
  OBVIOUS
<1> HIDE DEF T
<1>10. \A k \in 0 .. N : k \in T
  BY <1>3, <1>7, <1>8, <1>9, BoundedInduction
<1>11. off[N] \in Nat /\ off[N] <= a + 1 + N * most
  <2>1. N \in 0 .. N
    BY <1>3
  <2>2. QED
    BY <1>5, <1>10, <2>1 DEF T
<1>12. N * most <= MaxFields * most
  <2>1. N <= MaxFields
    BY DEF N
  <2>2. PICK d \in Nat : MaxFields = N + d
    <3>1. MaxFields - N \in Nat /\ MaxFields = N + (MaxFields - N)
      BY <1>3, <2>1
    <3>2. QED
      BY <3>1
  <2>3. (N + d) * most = N * most + d * most /\ d * most \in Nat /\ N * most \in Nat
    BY <1>3
  <2>4. QED
    BY <2>2, <2>3
<1>13. a + 2 + MaxFields * most < BufferSize
  BY <1>2, <1>4
<1>14. PICK x \in Nat : x = MaxFields * most
  BY <1>3
<1>15. PICK y \in Nat : y = N * most
  BY <1>3
<1>16. off[N] + 1 < BufferSize
  <2>1. PICK o \in Nat : o = off[N]
    BY <1>11
  <2>2. o <= a + 1 + y
    BY <1>11, <1>15, <2>1
  <2>3. y <= x /\ a + 2 + x < BufferSize
    BY <1>12, <1>13, <1>14, <1>15
  <2>4. o + 1 < BufferSize
    BY <1>3, <2>2, <2>3
  <2>5. QED
    BY <2>1, <2>4
<1>17. QED
  BY <1>1, <1>3, <1>11, <1>16 DEF N

\* What stands in a text still does when something is written after it.
LEMMA StandsMore ==
  ASSUME NEW t \in Seq(Chars), NEW u \in Seq(Chars), NEW p \in Nat,
         NEW s \in Seq(Chars)
  PROVE  /\ StandsIn(t, p, s) => StandsIn(t \o u, p, s)
         /\ StandsIn(t \o u, Len(t), u)
         /\ t \o u \in Seq(Chars) /\ Len(t \o u) = Len(t) + Len(u)
<1>1. /\ Len(t) \in Nat /\ Len(u) \in Nat /\ Len(s) \in Nat
      /\ t \o u \in Seq(Chars) /\ Len(t \o u) = Len(t) + Len(u)
      /\ \A i \in 1 .. Len(t) + Len(u) :
           (t \o u)[i] = IF i <= Len(t) THEN t[i] ELSE u[i - Len(t)]
  BY LenProperties, ConcatProperties
<1>2. PICK w : w = t \o u
  OBVIOUS
<1>3. ASSUME StandsIn(t, p, s) PROVE StandsIn(w, p, s)
  <2>1. p + Len(s) <= Len(w)
    BY <1>1, <1>2, <1>3 DEF StandsIn
  <2>2. ASSUME NEW i \in 1 .. Len(s) PROVE w[p + i] = s[i]
    <3>1. t[p + i] = s[i] /\ p + i <= Len(t)
      BY <1>1, <1>3 DEF StandsIn
    <3>2. p + i \in 1 .. Len(t) + Len(u)
      BY <1>1, <3>1
    <3>3. QED
      BY <1>1, <1>2, <3>1, <3>2
  <2>3. QED
    BY <2>1, <2>2 DEF StandsIn
<1>4. StandsIn(w, Len(t), u)
  <2>1. ASSUME NEW i \in 1 .. Len(u) PROVE w[Len(t) + i] = u[i]
    <3>1. /\ Len(t) + i \in 1 .. Len(t) + Len(u)
          /\ ~ (Len(t) + i <= Len(t)) /\ (Len(t) + i) - Len(t) = i
      BY <1>1
    <3>2. QED
      BY <1>1, <1>2, <3>1
  <2>2. QED
    BY <1>1, <1>2, <2>1 DEF StandsIn
<1>5. QED
  BY <1>1, <1>2, <1>3, <1>4

LEMMA NameShape ==
  ASSUME NEW name \in Names
  PROVE  /\ name \in Seq(Chars) /\ Len(name) < Radix * Radix
         /\ LMAppendString(name) \o <<"h">> \in Seq(Chars)
         /\ Len(LMAppendString(name)) \in Nat
         /\ Len(LMAppendString(name) \o <<"h">>) = Len(LMAppendString(name)) + 1
<1>1. name \in Seq(Chars) /\ Len(name) < Radix * Radix
  BY ValuesAssumption
<1>2. PICK s \in Seq(Chars) : s = LMAppendString(name)
  BY <1>1, StringShape
<1>3. PICK h : h = <<"h">>
  OBVIOUS
<1>4. "h" \in Chars
  BY MessageAssumption
<1>5. h \in Seq(Chars) /\ Len(h) = 1
  BY <1>3, <1>4
<1>6. s \o h \in Seq(Chars) /\ Len(s \o h) = Len(s) + Len(h) /\ Len(s) \in Nat
  BY <1>5, ConcatProperties, LenProperties
<1>7. QED
  BY <1>1, <1>2, <1>3, <1>5, <1>6

\* A message as it begins.
LEMMA WrittenFirst ==
  ASSUME NEW name \in Names
  PROVE  Written(LMAppendString(name) \o <<"h">>, name, <<>>, "fields")
<1>1. PICK t \in Seq(Chars) : t = LMAppendString(name) \o <<"h">>
  BY NameShape
<1>2. PICK a \in Nat : a = Len(LMAppendString(name)) /\ Len(t) = a + 1
  BY <1>1, NameShape
<1>3. PICK off : off = [k \in 0 .. 0 |-> a + 1]
  OBVIOUS
<1>4. off \in [0 .. 0 -> Nat] /\ off[0] = a + 1
  BY <1>3
<1>5. StandsIn(t, 0, t)
  <2>1. Len(t) \in Nat
    BY LenProperties
  <2>2. QED
    BY <2>1 DEF StandsIn
<1>6. PICK fields : fields = <<>>
  OBVIOUS
<1>7. Len(fields) = 0
  BY <1>6
<1>8. Laid(t, name, fields, off)
  <2>1. ~ \E k : k \in 1 .. Len(fields)
    BY <1>7
  <2>2. QED
    BY <1>1, <1>2, <1>4, <1>5, <1>7, <2>1 DEF Laid
<1>9. Len(t) = off[Len(fields)]
  BY <1>2, <1>4, <1>7
<1>10. Written(t, name, fields, "fields")
  BY <1>8, <1>9 DEF Written
<1>11. QED
  BY <1>1, <1>6, <1>10

\* The places of a message stay when something is written after it.
LEMMA LaidMore ==
  ASSUME NEW t \in Seq(Chars), NEW u \in Seq(Chars), NEW name \in Names,
         NEW fields \in Seq(Field), NEW off, Laid(t, name, fields, off)
  PROVE  Laid(t \o u, name, fields, off)
<1>1. PICK w : w = t \o u
  OBVIOUS
<1>2. /\ off \in [0 .. Len(fields) -> Nat]
      /\ off[0] = Len(LMAppendString(name)) + 1
      /\ StandsIn(t, 0, LMAppendString(name) \o <<"h">>)
      /\ \A k \in 1 .. Len(fields) :
           /\ off[k] = off[k - 1] + Len(FieldAt(fields, k))
           /\ StandsIn(t, off[k - 1], FieldAt(fields, k))
  BY DEF Laid
<1>3. StandsIn(w, 0, LMAppendString(name) \o <<"h">>)
  <2>1. PICK s \in Seq(Chars) : s = LMAppendString(name) \o <<"h">>
    BY NameShape
  <2>2. QED
    BY <1>1, <1>2, <2>1, StandsMore
<1>4. ASSUME NEW k \in 1 .. Len(fields)
      PROVE  StandsIn(w, off[k - 1], FieldAt(fields, k))
  <2>1. fields[k] \in Field
    BY ElementOfSeq
  <2>2. PICK s \in Seq(Chars) : s = FieldAt(fields, k)
    BY <2>1, FieldShape DEF FieldAt, Field
  <2>3. PICK p \in Nat : p = off[k - 1]
    <3>1. Len(fields) \in Nat
      BY LenProperties
    <3>2. k - 1 \in 0 .. Len(fields)
      BY <3>1
    <3>3. QED
      BY <1>2, <3>2
  <2>4. StandsIn(t, p, s)
    BY <1>2, <2>2, <2>3
  <2>5. StandsIn(w, p, s)
    BY <1>1, <2>4, StandsMore
  <2>6. QED
    BY <2>2, <2>3, <2>5
<1>5. Laid(w, name, fields, off)
  BY <1>2, <1>3, <1>4 DEF Laid
<1>6. QED
  BY <1>1, <1>5

\* A field more.
LEMMA WrittenMore ==
  ASSUME NEW t \in Seq(Chars), NEW name \in Names, NEW fields \in Seq(Field),
         NEW key \in Keys, NEW value \in Values, Written(t, name, fields, "fields")
  PROVE  Written(t \o FieldText(key, value), name,
                 Append(fields, [key |-> key, value |-> value]), "fields")
<1> DEFINE N == Len(fields)
<1>1. PICK off : Laid(t, name, fields, off) /\ Len(t) = off[N]
  BY DEF Written
<1>2. PICK u \in Seq(Chars) : u = FieldText(key, value)
  BY FieldShape
<1>3. PICK f \in Field : f = [key |-> key, value |-> value]
  BY DEF Field
<1>4. PICK more : more = Append(fields, f)
  OBVIOUS
<1>5. N \in Nat /\ Len(t) \in Nat /\ Len(u) \in Nat
  BY LenProperties
<1>6. /\ more \in Seq(Field) /\ Len(more) = N + 1 /\ more[N + 1] = f
      /\ \A k \in 1 .. N : more[k] = fields[k]
  BY <1>4, AppendProperties
<1>7. Laid(t \o u, name, fields, off)
  BY <1>1, LaidMore
<1>8. PICK w : w = t \o u
  OBVIOUS
<1>9. w \in Seq(Chars) /\ Len(w) = Len(t) + Len(u) /\ StandsIn(w, Len(t), u)
  <2>1. 0 \in Nat
    OBVIOUS
  <2>2. QED
    BY <1>8, <2>1, StandsMore
<1>10. /\ off \in [0 .. N -> Nat]
       /\ off[0] = Len(LMAppendString(name)) + 1
       /\ StandsIn(w, 0, LMAppendString(name) \o <<"h">>)
       /\ \A k \in 1 .. N :
            /\ off[k] = off[k - 1] + Len(FieldAt(fields, k))
            /\ StandsIn(w, off[k - 1], FieldAt(fields, k))
  BY <1>7, <1>8 DEF Laid
<1>11. /\ \A k \in 1 .. N : FieldAt(more, k) = FieldAt(fields, k)
       /\ FieldAt(more, N + 1) = u
  BY <1>2, <1>3, <1>6 DEF FieldAt
<1>12. PICK to : to = [k \in 0 .. N + 1 |-> IF k = N + 1 THEN off[N] + Len(u) ELSE off[k]]
  OBVIOUS
<1> HIDE DEF N
<1>13. /\ to \in [0 .. N + 1 -> Nat] /\ to[N + 1] = off[N] + Len(u)
       /\ \A k \in 0 .. N : to[k] = off[k]
  <2>1. off[N] \in Nat
    BY <1>5, <1>10
  <2>2. \A k \in 0 .. N : k # N + 1 /\ k \in 0 .. N + 1
    BY <1>5
  <2>3. \A k \in 0 .. N + 1 : k # N + 1 => off[k] \in Nat
    BY <1>5, <1>10
  <2>4. off[N] + Len(u) \in Nat /\ N + 1 \in 0 .. N + 1
    BY <1>5, <2>1
  <2>5. QED
    BY <1>12, <2>2, <2>3, <2>4
<1>14. ASSUME NEW k \in 1 .. N + 1
       PROVE  /\ to[k] = to[k - 1] + Len(FieldAt(more, k))
              /\ StandsIn(w, to[k - 1], FieldAt(more, k))
  <2>1. CASE k = N + 1
    <3>1. k - 1 = N /\ N \in 0 .. N
      BY <1>5, <2>1
    <3>2. QED
      BY <1>1, <1>9, <1>11, <1>13, <2>1, <3>1 DEF N
  <2>2. CASE k # N + 1
    <3>1. k \in 1 .. N /\ k \in 0 .. N /\ k - 1 \in 0 .. N
      BY <1>5, <2>2
    <3>2. QED
      BY <1>10, <1>11, <1>13, <3>1
  <2>3. QED
    BY <2>1, <2>2
<1>15. to[0] = off[0]
  <2>1. 0 \in 0 .. N
    BY <1>5
  <2>2. QED
    BY <1>13, <2>1
<1>16. Laid(w, name, more, to)
  BY <1>6, <1>10, <1>13, <1>14, <1>15 DEF Laid
<1>17. Len(w) = to[Len(more)]
  BY <1>1, <1>6, <1>9, <1>13 DEF N
<1>18. Written(w, name, more, "fields")
  BY <1>16, <1>17 DEF Written
<1>19. QED
  BY <1>2, <1>3, <1>4, <1>8, <1>18

\* The end of a message.
LEMMA WrittenLast ==
  ASSUME NEW t \in Seq(Chars), NEW name \in Names, NEW fields \in Seq(Field),
         fields # <<>>, Written(t, name, fields, "fields")
  PROVE  /\ Append(t, "s") \in Seq(Chars)
         /\ Written(Append(t, "s"), name, fields, "ended")
<1>1. PICK off : Laid(t, name, fields, off) /\ Len(t) = off[Len(fields)]
  BY DEF Written
<1>2. PICK e : e = <<"s">>
  OBVIOUS
<1>3. "s" \in Chars
  BY MessageAssumption
<1>4. e \in Seq(Chars) /\ Len(e) = 1
  BY <1>2, <1>3
<1>5. PICK w : w = t \o e
  OBVIOUS
<1>6. w = Append(t, "s")
  BY <1>2, <1>3, <1>5, AppendIsConcat
<1>7. w \in Seq(Chars) /\ Len(w) = Len(t) + 1 /\ StandsIn(w, Len(t), e)
  <2>1. 0 \in Nat
    OBVIOUS
  <2>2. QED
    BY <1>4, <1>5, <2>1, StandsMore
<1>8. Laid(w, name, fields, off)
  BY <1>1, <1>4, <1>5, LaidMore
<1>9. Ended(w, fields, off)
  BY <1>1, <1>2, <1>7 DEF Ended
<1>10. Written(w, name, fields, "ended")
  BY <1>8, <1>9 DEF Written
<1>11. QED
  BY <1>6, <1>7, <1>10

LEMMA WrittenEnded ==
  ASSUME NEW t, NEW name, NEW fields, NEW a \in Stages \ {"fields"},
         NEW b \in Stages \ {"fields"}, Written(t, name, fields, a)
  PROVE  Written(t, name, fields, b)
  BY DEF Written

-----------------------------------------------------------------------------
(* Every step keeps it.                                                    *)

\* Outside of the searches, an answer holds whatever else the message is.
LEMMA NoAnswer ==
  ASSUME NEW name, NEW fields
  PROVE  Answers(None, name, fields) /\ None.call = "none"
BY DEF Answers, None

LEMMA MessageStart == MessageInit => MessageInv
<1> SUFFICES ASSUME MessageInit PROVE MessageInv
  OBVIOUS
<1>1. /\ text = <<>> /\ bufferP = 0 /\ hashStartP = 0 /\ answer = None
      /\ message = [at |-> "cleared", name |-> <<>>, fields |-> <<>>]
  BY DEF MessageInit
<1>2. Len(text) = 0 /\ text \in Seq(Chars)
  BY <1>1
<1>3. BufferSize \in Nat /\ BufferSize # 0 /\ MaxFields \in Nat
  BY MessageSizes
<1>4. message.at = "cleared" /\ message.fields \in Seq(Field) /\ Len(message.fields) = 0
  BY <1>1
<1>5. TextInv
  <2>1. message \in [at : Stages, name : Names \cup {<<>>}, fields : Seq(Field)]
    BY <1>1, <1>4 DEF Stages
  <2>2. Len(message.fields) <= MaxFields
    BY <1>3, <1>4
  <2>3. QED
    BY <1>1, <1>2, <1>4, <2>1, <2>2 DEF TextInv
<1>6. PlaceInv
  BY <1>1, <1>2, <1>3, <1>4 DEF PlaceInv
<1>7. AnswerInv
  BY <1>1, <1>4, NoAnswer DEF AnswerInv, KeyFound
<1>8. QED
  BY <1>5, <1>6, <1>7 DEF MessageInv

LEMMA BeginKeeps ==
  ASSUME MessageInv, NEW name \in Names, rfMessageBegin(name)
  PROVE  MessageInv'
<1>1. /\ message.at = "cleared"
      /\ text' = LMAppendString(name) \o <<"h">>
      /\ bufferP' = 0
      /\ message' = [at |-> "fields", name |-> name, fields |-> <<>>]
      /\ hashStartP' = hashStartP /\ answer' = answer
  BY DEF rfMessageBegin
<1>2. /\ message'.at = "fields" /\ message'.name = name
      /\ message'.fields = <<>> /\ message'.fields \in Seq(Field)
      /\ Len(message'.fields) = 0
      /\ message' \in [at : Stages, name : Names \cup {<<>>}, fields : Seq(Field)]
  BY <1>1 DEF Stages
<1>3. text' \in Seq(Chars) /\ Len(text') \in Nat
  <2>1. text' \in Seq(Chars)
    BY <1>1, NameShape
  <2>2. PICK t \in Seq(Chars) : t = text'
    BY <2>1
  <2>3. Len(t) \in Nat
    BY LenProperties
  <2>4. QED
    BY <2>1, <2>2, <2>3
<1>4. Written(text', message'.name, message'.fields, "fields")
  <2>1. Written(LMAppendString(name) \o <<"h">>, name, <<>>, "fields")
    BY WrittenFirst
  <2>2. QED
    BY <1>1, <1>2, <2>1
<1>5. TextInv'
  <2>1. MaxFields \in Nat
    BY MessageSizes
  <2>2. QED
    BY <1>2, <1>3, <1>4, <2>1 DEF TextInv
<1>6. PlaceInv'
  BY <1>1, <1>2, <1>3 DEF PlaceInv, MessageInv
<1>7. AnswerInv'
  <2>1. answer.call = "none"
    BY <1>1 DEF MessageInv, AnswerInv
  <2>2. QED
    BY <1>1, <1>2, <2>1 DEF AnswerInv, Answers, KeyFound
<1>8. QED
  BY <1>5, <1>6, <1>7 DEF MessageInv

LEMMA AddKeeps ==
  ASSUME MessageInv, NEW key \in Keys, NEW value \in Values, rfMessageAdd(key, value)
  PROVE  MessageInv'
<1>1. /\ message.at = "fields" /\ Len(message.fields) < MaxFields
      /\ text' = text \o FieldText(key, value)
      /\ message' = [message EXCEPT !.fields =
                       Append(@, [key |-> key, value |-> value])]
      /\ bufferP' = bufferP /\ hashStartP' = hashStartP /\ answer' = answer
  BY DEF rfMessageAdd
<1>2. /\ text \in Seq(Chars)
      /\ message \in [at : Stages, name : Names \cup {<<>>}, fields : Seq(Field)]
      /\ message.name \in Names
      /\ Written(text, message.name, message.fields, "fields")
  BY <1>1 DEF MessageInv, TextInv
<1>3. PICK fields \in Seq(Field) : fields = message.fields
  BY <1>2
<1>4. PICK f \in Field : f = [key |-> key, value |-> value]
  BY DEF Field
<1>5. /\ Append(fields, f) \in Seq(Field) /\ Len(Append(fields, f)) = Len(fields) + 1
      /\ Len(fields) \in Nat
  BY AppendProperties, LenProperties
<1>6. PICK more \in Seq(Field) : more = Append(fields, f)
  BY <1>5
<1>7. /\ message' = [message EXCEPT !.fields = more]
      /\ message'.at = "fields" /\ message'.name = message.name
      /\ message'.fields = more
      /\ message' \in [at : Stages, name : Names \cup {<<>>}, fields : Seq(Field)]
  <2>1. message' = [message EXCEPT !.fields = more]
    BY <1>1, <1>3, <1>4, <1>6
  <2>2. QED
    BY <1>1, <1>2, <2>1
<1>8. Written(text', message'.name, more, "fields")
  <2>1. PICK t \in Seq(Chars) : t = text
    BY <1>2
  <2>2. PICK name \in Names : name = message.name
    BY <1>2
  <2>3. Written(t \o FieldText(key, value), name,
                Append(fields, [key |-> key, value |-> value]), "fields")
    BY <1>2, <1>3, <2>1, <2>2, WrittenMore
  <2>4. QED
    BY <1>1, <1>4, <1>6, <1>7, <2>1, <2>2, <2>3
<1>9. text' \in Seq(Chars) /\ Len(text') \in Nat
  <2>1. PICK s \in Seq(Chars) : s = FieldText(key, value)
    BY FieldShape
  <2>2. text \o s \in Seq(Chars) /\ Len(text \o s) = Len(text) + Len(s)
        /\ Len(text) \in Nat /\ Len(s) \in Nat
    BY <1>2, ConcatProperties, LenProperties
  <2>3. QED
    BY <1>1, <2>1, <2>2
<1>10. TextInv'
  <2>1. Len(more) <= MaxFields
    BY <1>1, <1>3, <1>5, <1>6, MessageSizes
  <2>2. QED
    BY <1>2, <1>7, <1>8, <1>9, <2>1 DEF TextInv
<1>11. PlaceInv'
  BY <1>1, <1>7, <1>9 DEF PlaceInv, MessageInv
<1>12. AnswerInv'
  <2>1. answer.call = "none"
    BY <1>1 DEF MessageInv, AnswerInv
  <2>2. QED
    BY <1>1, <1>7, <2>1 DEF AnswerInv, Answers, KeyFound
<1>13. QED
  BY <1>10, <1>11, <1>12 DEF MessageInv

LEMMA EndKeeps ==
  ASSUME MessageInv, rfMessageEnd
  PROVE  MessageInv'
<1>1. /\ message.at = "fields" /\ message.fields # <<>>
      /\ text' = Append(text, "s")
      /\ message' = [message EXCEPT !.at = "ended"]
      /\ bufferP' = bufferP /\ hashStartP' = hashStartP /\ answer' = answer
  BY DEF rfMessageEnd
<1>2. /\ text \in Seq(Chars)
      /\ message \in [at : Stages, name : Names \cup {<<>>}, fields : Seq(Field)]
      /\ message.name \in Names /\ Len(message.fields) <= MaxFields
      /\ Written(text, message.name, message.fields, "fields")
  BY <1>1 DEF MessageInv, TextInv
<1>3. /\ message'.at = "ended" /\ message'.name = message.name
      /\ message'.fields = message.fields
      /\ message' \in [at : Stages, name : Names \cup {<<>>}, fields : Seq(Field)]
  BY <1>1, <1>2 DEF Stages
<1>4. text' \in Seq(Chars) /\ Written(text', message.name, message.fields, "ended")
  <2>1. PICK t \in Seq(Chars) : t = text
    BY <1>2
  <2>2. PICK name \in Names : name = message.name
    BY <1>2
  <2>3. PICK fields \in Seq(Field) : fields = message.fields
    BY <1>2
  <2>4. Append(t, "s") \in Seq(Chars) /\ Written(Append(t, "s"), name, fields, "ended")
    BY <1>1, <1>2, <2>1, <2>2, <2>3, WrittenLast
  <2>5. QED
    BY <1>1, <2>1, <2>2, <2>3, <2>4
<1>5. Len(text') \in Nat
  BY <1>4, LenProperties
<1>6. TextInv'
  BY <1>2, <1>3, <1>4 DEF TextInv
<1>7. PlaceInv'
  BY <1>1, <1>3, <1>5 DEF PlaceInv, MessageInv
<1>8. AnswerInv'
  <2>1. answer.call = "none"
    BY <1>1 DEF MessageInv, AnswerInv
  <2>2. QED
    BY <1>1, <1>3, <2>1 DEF AnswerInv, Answers, KeyFound
<1>9. QED
  BY <1>6, <1>7, <1>8 DEF MessageInv

\* A message that is ended stays as it is until it is cleared.
Reading == {"ended", "named", "entered", "refused"}

LEMMA TextStays ==
  ASSUME TextInv, message.at \in Reading, text' = text,
         NEW at \in Reading, message' = [message EXCEPT !.at = at]
  PROVE  /\ TextInv'
         /\ message'.at = at /\ message'.name = message.name
         /\ message'.fields = message.fields
<1>1. /\ text \in Seq(Chars)
      /\ message \in [at : Stages, name : Names \cup {<<>>}, fields : Seq(Field)]
      /\ message.name \in Names /\ Len(message.fields) <= MaxFields
      /\ Written(text, message.name, message.fields, message.at)
  BY DEF TextInv, Reading
<1>2. at \in Stages \ {"fields"} /\ message.at \in Stages \ {"fields"} /\ at # "cleared"
  BY DEF Reading, Stages
<1>3. /\ message'.at = at /\ message'.name = message.name
      /\ message'.fields = message.fields
      /\ message' \in [at : Stages, name : Names \cup {<<>>}, fields : Seq(Field)]
  BY <1>1, <1>2
<1>4. Written(text, message.name, message.fields, at)
  BY <1>1, <1>2 DEF Written
<1>5. TextInv'
  BY <1>1, <1>2, <1>3, <1>4 DEF TextInv
<1>6. QED
  BY <1>3, <1>5

\* The text begins with the name and 'h'.
LEMMA TextBegins ==
  ASSUME TextInv, message.at \in Reading
  PROVE  /\ text \in Seq(Chars) /\ message.name \in Names /\ Len(text) \in Nat
         /\ Stands(0, LMAppendString(message.name))
         /\ Len(LMAppendString(message.name)) \in Nat
         /\ Len(LMAppendString(message.name)) + 1 <= Len(text)
         /\ Len(text) < BufferSize
<1>1. /\ text \in Seq(Chars) /\ message.name \in Names
      /\ message.fields \in Seq(Field) /\ Len(message.fields) <= MaxFields
      /\ Written(text, message.name, message.fields, message.at)
  BY DEF TextInv, Reading
<1>2. PICK off : Laid(text, message.name, message.fields, off)
  BY <1>1 DEF Written
<1>3. PICK name \in Names : name = message.name
  BY <1>1
<1>4. name \in Seq(Chars) /\ Len(name) < Radix * Radix
  BY NameShape
<1>5. PICK s \in Seq(Chars) : s = LMAppendString(name)
  BY <1>4, StringShape
<1>6. PICK h : h = <<"h">>
  OBVIOUS
<1>7. "h" \in Chars
  BY MessageAssumption
<1>8. h \in Seq(Chars) /\ Len(h) = 1
  BY <1>6, <1>7
<1>9. Len(s) \in Nat /\ Len(text) \in Nat /\ Len(s \o h) = Len(s) + 1
  <2>1. Len(s) \in Nat /\ Len(text) \in Nat
    BY <1>1, LenProperties
  <2>2. Len(s \o h) = Len(s) + Len(h)
    BY <1>8, ConcatProperties
  <2>3. QED
    BY <1>8, <2>1, <2>2
<1>10. Stands(0, s \o h)
  BY <1>2, <1>3, <1>5, <1>6 DEF Laid, Stands
<1>11. Stands(0, s)
  <2>1. 0 \in Nat
    OBVIOUS
  <2>2. QED
    BY <1>1, <1>8, <1>10, <2>1, StandsParts
<1>12. Len(s) + 1 <= Len(text)
  BY <1>9, <1>10 DEF Stands, StandsIn
<1>13. Len(text) < BufferSize
  BY <1>1, TextFits
<1>14. QED
  BY <1>1, <1>3, <1>5, <1>9, <1>11, <1>12, <1>13

LEMMA TakenOrNot ==
  ASSUME NEW p, NEW count
  PROVE  LMTakeString(p, count).ok \in BOOLEAN
<1>1. PICK n : n = HexNumber(UpTo(p, ":"), Radix * Radix)
  OBVIOUS
<1>2. LMTakeString(p, count).ok = (n <= count - 1)
  BY <1>1 DEF LMTakeString
<1>3. (n <= count - 1) \in BOOLEAN
  OBVIOUS
<1>4. QED
  BY <1>2, <1>3

LEMMA NameKeeps ==
  ASSUME MessageInv, TakeName
  PROVE  MessageInv'
<1>1. /\ message.at = "ended" /\ text' = text /\ hashStartP' = hashStartP
      /\ bufferP' = LMTakeString(bufferP, TakeSize).next
      /\ answer' = [call |-> "name", ok |-> LMTakeString(bufferP, TakeSize).ok,
                    value |-> LMTakeString(bufferP, TakeSize).value]
      /\ message' = [message EXCEPT !.at =
                       IF LMTakeString(bufferP, TakeSize).ok THEN "named" ELSE "refused"]
  BY DEF TakeName
<1>2. TextInv /\ PlaceInv /\ bufferP = 0 /\ message.at \in Reading
  BY <1>1 DEF MessageInv, PlaceInv, Reading
<1>3. PICK name \in Names : name = message.name
  BY <1>2, TextBegins
<1>4. name \in Seq(Chars) /\ Len(name) < Radix * Radix /\ Len(name) \in Nat
  BY NameShape, LenProperties
<1>5. /\ text \in Seq(Chars) /\ Stands(0, LMAppendString(name))
      /\ Len(text) \in Nat /\ Len(LMAppendString(name)) \in Nat
      /\ Len(LMAppendString(name)) + 1 <= Len(text)
  BY <1>2, <1>3, TextBegins
<1>7. PICK ok \in BOOLEAN : ok = LMTakeString(0, TakeSize).ok
  BY TakenOrNot
<1>8. /\ ok <=> Len(name) <= TakeSize - 1
      /\ ok => LMTakeString(0, TakeSize).value = name
      /\ LMTakeString(0, TakeSize).next = 0 + Len(LMAppendString(name))
  <2>1. 0 \in Nat /\ TakeSize \in Nat
    BY MessageSizes
  <2>2. QED
    BY <1>4, <1>5, <1>7, <2>1, StringTaken
<1>9. PICK at \in {"named", "refused"} : at = IF ok THEN "named" ELSE "refused"
  OBVIOUS
<1>10. /\ message' = [message EXCEPT !.at = at]
       /\ bufferP' = Len(LMAppendString(name))
  BY <1>1, <1>2, <1>5, <1>7, <1>8, <1>9
<1>11. /\ TextInv' /\ message'.at = at /\ message'.name = message.name
       /\ message'.fields = message.fields
  <2>1. at \in Reading
    BY DEF Reading
  <2>2. QED
    BY <1>1, <1>2, <1>10, <2>1, TextStays
<1>12. PlaceInv'
  <2>1. bufferP' \in 0 .. Len(text')
    BY <1>1, <1>5, <1>10
  <2>2. hashStartP' \in 0 .. BufferSize - 1
    BY <1>1, <1>2 DEF PlaceInv
  <2>3. QED
    BY <1>3, <1>10, <1>11, <2>1, <2>2 DEF PlaceInv
<1>13. answer'.call = "name" /\ answer'.ok = ok
       /\ answer'.value = LMTakeString(0, TakeSize).value
  BY <1>1, <1>2, <1>7
<1>14. ok = (Len(name) < TakeSize)
  <2>1. Len(name) <= TakeSize - 1 <=> Len(name) < TakeSize
    BY <1>4, MessageSizes
  <2>2. QED
    BY <1>8, <2>1
<1>15. Answers(answer', name, message'.fields)
  BY <1>8, <1>13, <1>14 DEF Answers
<1>16. AnswerInv'
  BY <1>3, <1>9, <1>11, <1>13, <1>15 DEF AnswerInv, KeyFound
<1>17. QED
  BY <1>11, <1>12, <1>16 DEF MessageInv

LEMMA EnterKeeps ==
  ASSUME MessageInv, LMEnterHash
  PROVE  MessageInv'
<1>1. /\ message.at = "named" /\ At(bufferP) = "h" /\ hashStartP' = bufferP + 1
      /\ message' = [message EXCEPT !.at = "entered"]
      /\ text' = text /\ bufferP' = bufferP /\ answer' = answer
  BY DEF LMEnterHash
<1>2. TextInv /\ PlaceInv /\ AnswerInv /\ message.at \in Reading
  BY <1>1 DEF MessageInv, Reading
<1>3. /\ TextInv' /\ message'.at = "entered" /\ message'.name = message.name
      /\ message'.fields = message.fields
  <2>1. "entered" \in Reading
    BY DEF Reading
  <2>2. QED
    BY <1>1, <1>2, <2>1, TextStays
<1>4. /\ Len(text) \in Nat /\ Len(text) < BufferSize
      /\ Len(LMAppendString(message.name)) + 1 <= Len(text)
      /\ Len(LMAppendString(message.name)) \in Nat
      /\ bufferP = Len(LMAppendString(message.name))
  BY <1>1, <1>2, TextBegins DEF PlaceInv
<1>5. PlaceInv'
  <2>1. hashStartP' = Len(LMAppendString(message'.name)) + 1
    BY <1>1, <1>3, <1>4
  <2>2. hashStartP' \in 0 .. BufferSize - 1
    BY <1>1, <1>4, MessageSizes
  <2>3. bufferP' \in 0 .. Len(text')
    BY <1>1, <1>2 DEF PlaceInv
  <2>4. QED
    BY <1>3, <2>1, <2>2, <2>3 DEF PlaceInv
<1>6. AnswerInv'
  <2>1. answer.call \in {"none", "name"}
    BY <1>1, <1>2 DEF AnswerInv
  <2>2. QED
    BY <1>1, <1>2, <1>3, <2>1 DEF AnswerInv, Answers, KeyFound
<1>7. QED
  BY <1>3, <1>5, <1>6 DEF MessageInv

LEMMA ClearKeeps ==
  ASSUME MessageInv, LMClear
  PROVE  MessageInv'
<1>1. /\ text' = <<>> /\ bufferP' = 0 /\ answer' = None
      /\ message' = [at |-> "cleared", name |-> <<>>, fields |-> <<>>]
      /\ hashStartP' = hashStartP
  BY DEF LMClear
<1>2. Len(text') = 0 /\ text' \in Seq(Chars)
  BY <1>1
<1>3. BufferSize \in Nat /\ BufferSize # 0 /\ MaxFields \in Nat
  BY MessageSizes
<1>4. message'.at = "cleared" /\ message'.fields \in Seq(Field) /\ Len(message'.fields) = 0
  BY <1>1
<1>5. TextInv'
  <2>1. message' \in [at : Stages, name : Names \cup {<<>>}, fields : Seq(Field)]
    BY <1>1, <1>4 DEF Stages
  <2>2. Len(message'.fields) <= MaxFields
    BY <1>3, <1>4
  <2>3. QED
    BY <1>1, <1>2, <1>4, <2>1, <2>2 DEF TextInv
<1>6. PlaceInv'
  BY <1>1, <1>2, <1>3, <1>4 DEF PlaceInv, MessageInv
<1>7. AnswerInv'
  BY <1>1, <1>4 DEF AnswerInv, KeyFound, Answers, None
<1>8. QED
  BY <1>5, <1>6, <1>7 DEF MessageInv

\* What a search and a taking give of a message that is read.
LEMMA SearchGives ==
  ASSUME TextInv, PlaceInv, message.at = "entered", NEW key \in Keys
  PROVE  Gives(LMFindHashString(key), key)
<1>1. message.at \in Reading
  BY DEF Reading
<1>2. /\ text \in Seq(Chars) /\ message.fields \in Seq(Field)
      /\ Written(text, message.name, message.fields, message.at)
  BY DEF TextInv
<1>3. PICK off : /\ Laid(text, message.name, message.fields, off)
                 /\ Ended(text, message.fields, off)
  BY <1>2 DEF Written
<1>4. hashStartP = off[0]
  BY <1>3 DEF PlaceInv, Laid
<1>5. Len(text) < BufferSize
  BY <1>1, TextBegins
<1>6. QED
  BY <1>2, <1>3, <1>4, <1>5, FindGives

LEMMA FindKeeps ==
  ASSUME MessageInv, NEW key \in Keys, Find(key)
  PROVE  MessageInv'
<1>1. PICK find : find = LMFindHashString(key)
  OBVIOUS
<1>2. /\ message.at = "entered" /\ bufferP' = find.next
      /\ answer' = [call |-> "find", key |-> key, ok |-> find.found]
      /\ text' = text /\ hashStartP' = hashStartP /\ message' = message
  BY <1>1 DEF Find
<1>3. TextInv /\ PlaceInv
  BY DEF MessageInv
<1>4. Gives(find, key)
  BY <1>1, <1>2, <1>3, SearchGives
<1>5. FieldOf(key) = FieldIn(message.fields, key)
  BY DEF FieldOf, FieldIn
<1>6. PICK hit : hit = FieldIn(message.fields, key)
  OBVIOUS
<1>7. PICK fields : fields = message.fields
  OBVIOUS
<1>8. /\ find.next \in 0 .. Len(text)
      /\ find.found = (hit # 0)
      /\ find.found => /\ hit \in 1 .. Len(fields)
                       /\ StandsIn(text, find.next, AppendedValue(fields[hit].value))
  BY <1>4, <1>5, <1>6, <1>7 DEF Gives, Stands
<1>9. TextInv'
  BY <1>2, <1>3 DEF TextInv
<1>10. PlaceInv'
  BY <1>2, <1>3, <1>8 DEF PlaceInv
<1>11. answer'.call = "find" /\ answer'.key = key /\ answer'.ok = find.found
  BY <1>2
<1>12. Answers(answer', message'.name, message'.fields)
  <2>1. answer'.ok = (FieldIn(message'.fields, answer'.key) # 0)
    BY <1>2, <1>6, <1>8, <1>11
  <2>2. QED
    BY <1>11, <2>1 DEF Answers
<1>13. KeyFound' =>
         /\ FieldIn(message'.fields, answer'.key) \in 1 .. Len(message'.fields)
         /\ StandsIn(text', bufferP', AppendedValue(ValueIn(message'.fields, answer'.key)))
  <2>1. SUFFICES ASSUME find.found
                 PROVE  /\ hit \in 1 .. Len(fields)
                        /\ StandsIn(text, find.next, AppendedValue(ValueIn(fields, key)))
    BY <1>2, <1>6, <1>7, <1>11 DEF KeyFound
  <2>2. ValueIn(fields, key) = fields[hit].value
    BY <1>6, <1>7 DEF ValueIn
  <2>3. QED
    BY <1>8, <2>1, <2>2
<1>14. AnswerInv'
  BY <1>2, <1>11, <1>12, <1>13 DEF AnswerInv
<1>15. QED
  BY <1>9, <1>10, <1>14 DEF MessageInv

\* The value of a key that was found is the next to be taken.
LEMMA FoundStands ==
  ASSUME MessageInv, KeyFound
  PROVE  /\ message.at = "entered" /\ text \in Seq(Chars) /\ Len(text) \in Nat
         /\ bufferP \in Nat
         /\ ValueIn(message.fields, answer.key) \in Values
         /\ Stands(bufferP, AppendedValue(ValueIn(message.fields, answer.key)))
<1>1. /\ message.at = "entered"
      /\ FieldIn(message.fields, answer.key) \in 1 .. Len(message.fields)
      /\ StandsIn(text, bufferP, AppendedValue(ValueIn(message.fields, answer.key)))
  BY DEF MessageInv, AnswerInv, KeyFound
<1>2. text \in Seq(Chars) /\ message.fields \in Seq(Field)
  BY DEF MessageInv, TextInv
<1>3. bufferP \in Nat /\ Len(text) \in Nat
  BY <1>2, LenProperties DEF MessageInv, PlaceInv
<1>4. message.fields[FieldIn(message.fields, answer.key)] \in Field
  BY <1>1, <1>2, ElementOfSeq
<1>5. ValueIn(message.fields, answer.key) \in Values
  BY <1>4 DEF ValueIn, Field
<1>6. QED
  BY <1>1, <1>2, <1>3, <1>5 DEF Stands

\* What stands at a place ends within the text.
LEMMA PlaceAfter ==
  ASSUME text \in Seq(Chars), NEW p \in Nat, NEW value \in Values,
         Stands(p, AppendedValue(value)),
         NEW next \in {p, p + Len(AppendedValue(value))}
  PROVE  next \in 0 .. Len(text)
<1>1. Len(AppendedValue(value)) \in Nat /\ Len(text) \in Nat
  BY ValueShape, LenProperties
<1>2. p + Len(AppendedValue(value)) <= Len(text)
  BY DEF Stands, StandsIn
<1>3. QED
  BY <1>1, <1>2

LEMMA TakeIntKeeps ==
  ASSUME MessageInv, TakeInt
  PROVE  MessageInv'
<1>1. PICK taken : taken = LMTakeInt(bufferP)
  OBVIOUS
<1>2. /\ KeyFound /\ bufferP' = taken.next
      /\ answer' = [call |-> "int", key |-> answer.key, value |-> taken.value]
      /\ text' = text /\ hashStartP' = hashStartP /\ message' = message
  BY <1>1 DEF TakeInt
<1>3. PICK value : value = ValueIn(message.fields, answer.key)
  OBVIOUS
<1>4. /\ message.at = "entered" /\ text \in Seq(Chars) /\ bufferP \in Nat
      /\ value \in Values /\ Stands(bufferP, AppendedValue(value))
  BY <1>2, <1>3, FoundStands
<1>5. PICK p \in Nat : p = bufferP
  BY <1>4
<1>6. /\ (value.kind = "bytes" => value.value[1] # ZeroChar) =>
           LMTakeInt(p).value = NumberOf(value)
      /\ LMTakeInt(p).next \in {p, p + Len(AppendedValue(value))}
  BY <1>4, <1>5, ValueTaken
<1>7. taken.next \in 0 .. Len(text)
  BY <1>1, <1>4, <1>5, <1>6, PlaceAfter
<1>8. TextInv'
  BY <1>2 DEF TextInv, MessageInv
<1>9. PlaceInv'
  BY <1>2, <1>4, <1>7 DEF PlaceInv, MessageInv
<1>10. answer'.call = "int" /\ answer'.key = answer.key /\ answer'.value = taken.value
  BY <1>2
<1>11. Answers(answer', message'.name, message'.fields)
  <2>1. ValueIn(message'.fields, answer'.key) = value
    BY <1>2, <1>3, <1>10
  <2>2. QED
    BY <1>1, <1>5, <1>6, <1>10, <2>1 DEF Answers
<1>12. AnswerInv'
  BY <1>2, <1>4, <1>10, <1>11 DEF AnswerInv, KeyFound
<1>13. QED
  BY <1>8, <1>9, <1>12 DEF MessageInv

LEMMA TakeStringKeeps ==
  ASSUME MessageInv, TakeString
  PROVE  MessageInv'
<1>1. PICK taken : taken = LMTakeString(bufferP, TakeSize)
  OBVIOUS
<1>2. /\ KeyFound /\ ~ LMNextIsInt(bufferP) /\ bufferP' = taken.next
      /\ answer' = [call |-> "string", key |-> answer.key, ok |-> taken.ok,
                    value |-> taken.value]
      /\ text' = text /\ hashStartP' = hashStartP /\ message' = message
  BY <1>1 DEF TakeString
<1>3. PICK value : value = ValueIn(message.fields, answer.key)
  OBVIOUS
<1>4. /\ message.at = "entered" /\ text \in Seq(Chars) /\ bufferP \in Nat
      /\ value \in Values /\ Stands(bufferP, AppendedValue(value))
  BY <1>2, <1>3, FoundStands
<1>5. PICK p \in Nat : p = bufferP
  BY <1>4
<1>6. /\ LMTakeString(p, TakeSize).ok <=> Len(value.value) < TakeSize
      /\ LMTakeString(p, TakeSize).ok => LMTakeString(p, TakeSize).value = value.value
      /\ LMTakeString(p, TakeSize).next = p + Len(AppendedValue(value))
  BY <1>2, <1>4, <1>5, ValueTaken
<1>7. PICK ok \in BOOLEAN : ok = taken.ok
  BY <1>1, TakenOrNot
<1>8. taken.next \in 0 .. Len(text)
  BY <1>1, <1>4, <1>5, <1>6, PlaceAfter
<1>9. TextInv'
  BY <1>2 DEF TextInv, MessageInv
<1>10. PlaceInv'
  BY <1>2, <1>4, <1>8 DEF PlaceInv, MessageInv
<1>11. /\ answer'.call = "string" /\ answer'.key = answer.key
       /\ answer'.ok = ok /\ answer'.value = taken.value
  BY <1>2, <1>7
<1>12. ok = (Len(value.value) < TakeSize) /\ (ok => taken.value = value.value)
  BY <1>1, <1>5, <1>6, <1>7
<1>13. Answers(answer', message'.name, message'.fields)
  <2>1. ValueIn(message'.fields, answer'.key) = value
    BY <1>2, <1>3, <1>11
  <2>2. QED
    BY <1>11, <1>12, <2>1 DEF Answers
<1>14. AnswerInv'
  BY <1>2, <1>4, <1>11, <1>13 DEF AnswerInv, KeyFound
<1>15. QED
  BY <1>9, <1>10, <1>14 DEF MessageInv

LEMMA MessageStep == MessageInv /\ [MessageNext]_messageVars => MessageInv'
<1> SUFFICES ASSUME MessageInv, [MessageNext]_messageVars PROVE MessageInv'
  OBVIOUS
<1>1. CASE \E name \in Names : rfMessageBegin(name)
  BY <1>1, BeginKeeps
<1>2. CASE \E key \in Keys, value \in Values : rfMessageAdd(key, value)
  BY <1>2, AddKeeps
<1>3. CASE rfMessageEnd
  BY <1>3, EndKeeps
<1>4. CASE TakeName
  BY <1>4, NameKeeps
<1>5. CASE LMEnterHash
  BY <1>5, EnterKeeps
<1>6. CASE \E key \in Keys : Find(key)
  BY <1>6, FindKeeps
<1>7. CASE TakeInt
  BY <1>7, TakeIntKeeps
<1>8. CASE TakeString
  BY <1>8, TakeStringKeeps
<1>9. CASE LMClear
  BY <1>9, ClearKeeps
<1>10. CASE UNCHANGED messageVars
  BY <1>10 DEF MessageInv, TextInv, PlaceInv, AnswerInv, KeyFound, messageVars
<1>11. QED
  BY <1>1, <1>2, <1>3, <1>4, <1>5, <1>6, <1>7, <1>8, <1>9, <1>10 DEF MessageNext

LEMMA MessageFits == MessageInv => MessageTypeOK
<1> SUFFICES ASSUME MessageInv PROVE MessageTypeOK
  OBVIOUS
<1>1. BufferSize \in Nat \ {0}
  BY MessageSizes
<1>2. text \in Seq(Chars) /\ Len(text) \in Nat
  BY LenProperties DEF MessageInv, TextInv
<1>3. Len(text) < BufferSize
  <2>1. CASE message.at = "cleared"
    <3>1. text = <<>>
      BY <2>1 DEF MessageInv, TextInv
    <3>2. Len(text) = 0
      BY <3>1
    <3>3. QED
      BY <1>1, <3>2
  <2>2. CASE message.at # "cleared"
    <3>1. /\ message.name \in Names /\ message.fields \in Seq(Field)
          /\ Len(message.fields) <= MaxFields
          /\ Written(text, message.name, message.fields, message.at)
      BY <2>2 DEF MessageInv, TextInv
    <3>2. QED
      BY <1>2, <3>1, TextFits
  <2>3. QED
    BY <2>1, <2>2
<1>4. bufferP \in 0 .. Len(text) /\ hashStartP < BufferSize
  BY <1>1 DEF MessageInv, PlaceInv
<1>5. message.at \in Stages
  BY DEF MessageInv, TextInv
<1>6. ASSUME message.at = "entered" PROVE hashStartP <= Len(text)
  <2>1. message.at \in Reading
    BY <1>6 DEF Reading
  <2>2. QED
    BY <1>6, <2>1, TextBegins DEF MessageInv, PlaceInv
<1>7. QED
  BY <1>3, <1>4, <1>5, <1>6 DEF MessageTypeOK, Stages

LEMMA MessageInvariant == MessageSpec => []MessageInv
  BY MessageStart, MessageStep, PTL DEF MessageSpec

\* A message that is written ends within its buffer, and what is taken of it, by
\* any calls in any order, never reads past its end: bufferP and hashStartP stay
\* within the text (livemessage.c:24-26, 120-205).
THEOREM MessageTypes == MessageSpec => []MessageTypeOK
  BY MessageInvariant, MessageFits, PTL

\* Whatever order its fields are looked for in, and however often, a message is
\* taken back as it was written (livemessage.c:133-205).
THEOREM MessageTakenBack == MessageSpec => []TakenBack
<1>1. MessageInv => TakenBack
  BY AnswersTakenBack DEF MessageInv, AnswerInv
<1>2. QED
  BY <1>1, MessageInvariant, PTL
-----------------------------------------------------------------------------
(* The parts together.                                                     *)

LEMMA ReceptionStart ==
  ReceptionInit => StreamInit /\ FilterInit /\ BlockInit /\ MessageInit
  BY DEF ReceptionInit

LEMMA ReceptionStep ==
  [ReceptionNext]_receptionVars =>
    /\ [StreamNext]_streamVars /\ [FilterNext]_filterVars
    /\ [BlockNext]_blockVars /\ [MessageNext]_messageVars
<1> SUFFICES ASSUME [ReceptionNext]_receptionVars
             PROVE  /\ [StreamNext]_streamVars /\ [FilterNext]_filterVars
                    /\ [BlockNext]_blockVars /\ [MessageNext]_messageVars
  OBVIOUS
<1>1. CASE part = "filter" /\ FilterNext /\ UNCHANGED <<streamVars, blockVars, messageVars>>
  BY <1>1
<1>2. CASE part = "streams" /\ StreamNext /\ UNCHANGED <<filterVars, blockVars, messageVars>>
  BY <1>2
<1>3. CASE part = "blocks" /\ BlockNext /\ UNCHANGED <<streamVars, filterVars, messageVars>>
  BY <1>3
<1>4. CASE part = "message" /\ MessageNext /\ UNCHANGED <<streamVars, filterVars, blockVars>>
  BY <1>4
<1>5. CASE UNCHANGED receptionVars
  BY <1>5 DEF receptionVars
<1>6. QED
  BY <1>1, <1>2, <1>3, <1>4, <1>5 DEF ReceptionNext

\* The device as a whole does, part by part, what each part's specification
\* allows and nothing else: a part is left alone or takes a step of its own (the
\* interrupt of rf/receive.c, the decoders its task calls, and the functions of
\* livemessage.c share no variable).
THEOREM ReceptionOfParts ==
  ReceptionSpec => StreamSpec /\ FilterSpec /\ BlockSpec /\ MessageSpec
  BY ReceptionStart, ReceptionStep, PTL
     DEF ReceptionSpec, StreamSpec, FilterSpec, BlockSpec, MessageSpec

\* In the whole way of a message, from the antenna to the report, every buffer,
\* ring, counter and read position stays within its bounds: no decoder writes
\* past its bytes, and no message past the 200 of livemessage.c.
THEOREM ReceptionTypes == ReceptionSpec => []ReceptionTypeOK
<1>1. /\ FilterTypeOK /\ OregonTypeOK /\ V3TypeOK /\ HastaTypeOK /\ BlockTypeOK
      /\ MessageTypeOK
      => ReceptionTypeOK
  BY DEF ReceptionTypeOK
<1>2. QED
  BY <1>1, ReceptionOfParts, FilterTypes, OregonTypes, V3Types, HastaTypes,
     BlockTypes, MessageTypes, PTL

\* What is heard, told and taken back in each part is so in the whole.
THEOREM ReceptionHears ==
  ReceptionSpec => [](/\ FilterOpens /\ RingInOrder
                      /\ OregonHears /\ V3Hears /\ HastaHears
                      /\ BlockHears /\ CommandHeard /\ AlsoTakenFor
                      /\ TakenBack)
  BY ReceptionOfParts, FilterPasses, RingKeepsOrder, OregonHeard, OregonV3Heard,
     HastaHeard, DecodersHear, CommandsHeard, CommandsTakenFor, MessageTakenBack, PTL
=============================================================================
