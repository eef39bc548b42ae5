-------------------------- MODULE StreamBitsProofs --------------------------
(***************************************************************************)
(* Facts about counts that wrap, about places in a row of bytes, and about *)
(* Joined, that the proofs about the sampling and the decoders share.      *)
(***************************************************************************)
EXTENDS StreamBits, SequenceTheorems, WellFoundedInduction, TLAPS

\* A quotient and a remainder determine a number, and the other way round.
LEMMA DivMod ==
  ASSUME NEW n \in Int, NEW d \in Nat \ {0}
  PROVE  /\ n \div d \in Int /\ n % d \in 0 .. d - 1
         /\ n = d * (n \div d) + (n % d)
  OBVIOUS

LEMMA DivModUnique ==
  ASSUME NEW d \in Nat \ {0}, NEW q \in Int, NEW r \in 0 .. d - 1
  PROVE  (d * q + r) \div d = q /\ (d * q + r) % d = r
  OBVIOUS

\* A remainder, of numbers up to a turn away.
LEMMA NearMod ==
  ASSUME NEW d \in Nat \ {0}, NEW n \in Int
  PROVE  /\ n \in 0 .. d - 1 => n % d = n
         /\ n \in d .. 2 * d - 1 => n % d = n - d
         /\ n \in -d .. -1 => n % d = n + d
<1>1. n = d * 0 + n /\ n = d * 1 + (n - d) /\ n = d * (-1) + (n + d)
  OBVIOUS
<1>2. CASE n \in 0 .. d - 1
  BY <1>1, <1>2, DivModUnique
<1>3. CASE n \in d .. 2 * d - 1
  <2>1. n - d \in 0 .. d - 1 /\ n \notin 0 .. d - 1 /\ n \notin -d .. -1
    BY <1>3
  <2>2. (d * 1 + (n - d)) % d = n - d
    BY <2>1, DivModUnique
  <2>3. QED
    BY <1>1, <2>1, <2>2
<1>4. CASE n \in -d .. -1
  <2>1. n + d \in 0 .. d - 1 /\ n \notin 0 .. d - 1 /\ n \notin d .. 2 * d - 1
    BY <1>4
  <2>2. (d * (-1) + (n + d)) % d = n + d
    BY <2>1, DivModUnique
  <2>3. QED
    BY <1>1, <2>1, <2>2
<1>5. QED
  BY <1>2, <1>3, <1>4

\* A counter that wraps counts on.
LEMMA ModStep ==
  ASSUME NEW d \in Nat \ {0}, NEW n \in Int
  PROVE  (n + 1) % d = IF n % d = d - 1 THEN 0 ELSE (n % d) + 1
<1> DEFINE q == n \div d
           r == n % d
<1>1. n = d * q + r /\ r \in 0 .. d - 1 /\ q \in Int
  BY DivMod
<1> HIDE DEF q, r
<1>2. CASE r = d - 1
  <2>1. n + 1 = d * (q + 1) + 0
    BY <1>1, <1>2
  <2>2. (n + 1) % d = 0
    BY <2>1, <1>1, DivModUnique
  <2>3. QED
    BY <2>2, <1>2 DEF r
<1>3. CASE r # d - 1
  <2>1. n + 1 = d * q + (r + 1) /\ r + 1 \in 0 .. d - 1
    BY <1>1, <1>3
  <2>2. (n + 1) % d = r + 1
    BY <2>1, <1>1, DivModUnique, SMTT(30)
  <2>3. QED
    BY <2>2, <1>3 DEF r
<1>4. QED
  BY <1>2, <1>3

\* Adding to a remainder is adding to the number.
LEMMA ModAdd ==
  ASSUME NEW d \in Nat \ {0}, NEW n \in Int, NEW k \in Int
  PROVE  ((n % d) + k) % d = (n + k) % d
<1> DEFINE q == n \div d
           r == n % d
<1>1. n = d * q + r /\ r \in 0 .. d - 1 /\ q \in Int
  BY DivMod
<1> HIDE DEF q, r
<1> DEFINE p == (r + k) \div d
           s == (r + k) % d
<1>2. r + k = d * p + s /\ s \in 0 .. d - 1 /\ p \in Int
  <2>1. r + k \in Int
    BY <1>1
  <2>2. QED
    BY <2>1, DivMod
<1> HIDE DEF p, s
<1>3. n + k = d * (q + p) + s /\ q + p \in Int
  BY <1>1, <1>2
<1>4. (n + k) % d = s
  BY <1>2, <1>3, DivModUnique
<1>5. QED
  BY <1>4 DEF r, s

\* A number below n turns has a quotient below n.
LEMMA Quotient ==
  ASSUME NEW d \in Nat \ {0}, NEW n \in Nat, NEW q \in Int,
         NEW r \in 0 .. d - 1, d * q + r >= 0, d * q + r < n * d
  PROVE  q \in 0 .. n - 1
<1>1. CASE q < 0
  <2>1. (-1) - q \in Nat
    BY <1>1
  <2>2. ((-1) - q) * d \in Nat
    BY <2>1
  <2>3. ((-1) - q) * d = (-d) - (d * q) /\ d * q \in Int
    OBVIOUS
  <2>4. QED
    BY <2>2, <2>3
<1>2. CASE q >= n
  <2>1. q - n \in Nat
    BY <1>2
  <2>2. (q - n) * d \in Nat
    BY <2>1
  <2>3. (q - n) * d = (d * q) - (n * d) /\ d * q \in Int /\ n * d \in Int
    OBVIOUS
  <2>4. QED
    BY <2>2, <2>3
<1>3. QED
  BY <1>1, <1>2

-----------------------------------------------------------------------------
(* Bytes and their bits.                                                   *)

LEMMA ByteSizes == ByteBits \in Nat \ {0} /\ CountMod \in Nat \ {0}
  BY StreamBitsAssumption

\* A byte is a sequence of ByteBits bits.
LEMMA ByteIsSeq ==
  /\ Byte \subseteq Seq(Bit) /\ \A b \in Byte : Len(b) = ByteBits
  /\ \A s \in Seq(Bit) : Len(s) = ByteBits => s \in Byte
  /\ Zero \in Byte
<1>1. ASSUME NEW b \in Byte PROVE b \in Seq(Bit) /\ Len(b) = ByteBits
  <2>1. b \in Seq(Bit)
    BY ByteSizes, IsASeq DEF Byte
  <2>2. DOMAIN b = 1 .. ByteBits
    BY DEF Byte
  <2>3. QED
    BY <2>1, <2>2, ByteSizes, LenProperties
<1>2. ASSUME NEW s \in Seq(Bit), Len(s) = ByteBits PROVE s \in Byte
  BY <1>2, LenProperties DEF Byte
<1>3. Zero \in Byte
  BY DEF Zero, Byte, Bit
<1>4. QED
  BY <1>1, <1>2, <1>3

LEMMA JoinedType ==
  ASSUME NEW bytes \in Seq(Byte)
  PROVE  /\ Joined(bytes) \in Seq(Bit)
         /\ Len(Joined(bytes)) = Len(bytes) * ByteBits
         /\ Len(bytes) * ByteBits \in Nat
<1> DEFINE n == Len(bytes)
           m == n * ByteBits
<1>1. n \in Nat /\ bytes \in [1 .. n -> Byte]
  BY LenProperties
<1> HIDE DEF n
<1>2. m \in Nat
  BY <1>1, ByteSizes
<1>3. ASSUME NEW k \in 1 .. m
      PROVE  bytes[((k - 1) \div ByteBits) + 1][((k - 1) % ByteBits) + 1] \in Bit
  <2> DEFINE q == (k - 1) \div ByteBits
             r == (k - 1) % ByteBits
  <2>1. k - 1 \in Int /\ k \in Int /\ k >= 1 /\ k <= m
    BY <1>2
  <2>2. q \in Int /\ r \in 0 .. ByteBits - 1 /\ k - 1 = ByteBits * q + r
    BY <2>1, ByteSizes, DivMod
  <2> HIDE DEF q, r
  <2>3. q \in 0 .. n - 1
    BY <1>1, <2>1, <2>2, ByteSizes, Quotient
  <2>4. q + 1 \in 1 .. n /\ r + 1 \in 1 .. ByteBits
    BY <1>1, <2>2, <2>3, ByteSizes
  <2>5. bytes[q + 1][r + 1] \in Bit
    BY <1>1, <2>4 DEF Byte
  <2>6. QED
    BY <2>5 DEF q, r
<1>4. Joined(bytes) \in [1 .. m -> Bit]
  BY <1>3 DEF Joined, n
<1> HIDE DEF m
<1>5. Joined(bytes) \in Seq(Bit)
  BY <1>2, <1>4, IsASeq
<1>6. DOMAIN Joined(bytes) = 1 .. m
  BY <1>4
<1>7. Len(Joined(bytes)) = m
  BY <1>2, <1>5, <1>6, LenProperties
<1>8. QED
  BY <1>2, <1>5, <1>7 DEF m, n

\* The bit k of a sequence of bytes, when the quotient and the remainder are
\* known.
LEMMA JoinedAt ==
  ASSUME NEW bytes \in Seq(Byte), NEW q \in Nat, NEW r \in 0 .. ByteBits - 1,
         q < Len(bytes)
  PROVE  /\ (ByteBits * q + r) + 1 \in 1 .. Len(bytes) * ByteBits
         /\ Joined(bytes)[(ByteBits * q + r) + 1] = bytes[q + 1][r + 1]
<1> DEFINE n == Len(bytes)
           x == ByteBits * q
           k == (x + r) + 1
<1>1. n \in Nat /\ x \in Nat /\ r \in Int /\ ByteBits \in Nat
  BY ByteSizes
<1>2. x + ByteBits <= n * ByteBits /\ n * ByteBits \in Nat
  <2>1. n - (q + 1) \in Nat
    BY <1>1
  <2>2. (n - (q + 1)) * ByteBits \in Nat /\ n * ByteBits \in Nat
    BY <1>1, <2>1
  <2>3. (n - (q + 1)) * ByteBits = n * ByteBits - (x + ByteBits)
    BY <1>1
  <2>4. QED
    BY <1>1, <2>2, <2>3
<1>3. (x + r) \div ByteBits = q /\ (x + r) % ByteBits = r
  BY ByteSizes, DivModUnique
<1> HIDE DEF x
<1>4. k \in 1 .. n * ByteBits /\ k - 1 = x + r
  BY <1>1, <1>2
<1>5. Joined(bytes)[k] =
        bytes[((k - 1) \div ByteBits) + 1][((k - 1) % ByteBits) + 1]
  BY <1>4 DEF Joined
<1>6. QED
  BY <1>3, <1>4, <1>5 DEF x

\* A byte behind a sequence of bytes is its bits behind their bits.
LEMMA JoinedAppend ==
  ASSUME NEW bytes \in Seq(Byte), NEW b \in Byte
  PROVE  Joined(Append(bytes, b)) = Joined(bytes) \o b
<1> DEFINE n == Len(bytes)
           s == Joined(Append(bytes, b))
           t == Joined(bytes)
           more == Append(bytes, b)
<1>1. /\ n \in Nat /\ more \in Seq(Byte) /\ Len(more) = n + 1
      /\ \A i \in 1 .. n : more[i] = bytes[i]
      /\ more[n + 1] = b
  BY AppendProperties, LenProperties
<1>2. /\ t \in Seq(Bit) /\ Len(t) = n * ByteBits /\ n * ByteBits \in Nat
      /\ s \in Seq(Bit) /\ Len(s) = (n + 1) * ByteBits
  BY <1>1, JoinedType
<1>3. b \in Seq(Bit) /\ Len(b) = ByteBits
  BY ByteIsSeq
<1>4. /\ t \o b \in Seq(Bit) /\ Len(t \o b) = n * ByteBits + ByteBits
      /\ \A i \in 1 .. n * ByteBits + ByteBits :
           (t \o b)[i] = IF i <= n * ByteBits THEN t[i] ELSE b[i - n * ByteBits]
  BY <1>2, <1>3, ConcatProperties, SMTT(30)
<1>5. (n + 1) * ByteBits = n * ByteBits + ByteBits
  BY <1>1, ByteSizes
<1>6. ASSUME NEW k \in 1 .. Len(s) PROVE s[k] = (t \o b)[k]
  <2> DEFINE q == (k - 1) \div ByteBits
             r == (k - 1) % ByteBits
  <2>1. k - 1 \in Int /\ k \in Int /\ k >= 1 /\ k <= (n + 1) * ByteBits
    BY <1>1, <1>2, ByteSizes
  <2>2. q \in Int /\ r \in 0 .. ByteBits - 1 /\ k - 1 = ByteBits * q + r
    BY <2>1, ByteSizes, DivMod
  <2> HIDE DEF q, r
  <2>3. ByteBits * q + r >= 0 /\ ByteBits * q + r < (n + 1) * ByteBits
    BY <2>1, <2>2, <1>2, <1>5, ByteSizes
  <2>4. q \in 0 .. n
    <3>1. n + 1 \in Nat
      BY <1>1
    <3>2. q \in 0 .. (n + 1) - 1
      BY <3>1, <2>2, <2>3, ByteSizes, Quotient
    <3>3. QED
      BY <3>2, <1>1
  <2>5. k = (ByteBits * q + r) + 1
    BY <2>1, <2>2, ByteSizes
  <2>6. s[k] = more[q + 1][r + 1]
    <3>1. more \in Seq(Byte) /\ q \in Nat /\ q < Len(more)
      BY <2>4, <1>1
    <3>2. Joined(more)[(ByteBits * q + r) + 1] = more[q + 1][r + 1]
      BY <3>1, <2>2, JoinedAt
    <3>3. QED
      BY <3>2, <2>5
  <2>7. CASE q < n
    <3>1. k \in 1 .. n * ByteBits /\ t[k] = bytes[q + 1][r + 1]
      BY <2>2, <2>4, <2>5, <2>7, JoinedAt
    <3>2. (t \o b)[k] = t[k]
      BY <3>1, <1>2, <1>4, ByteSizes
    <3>3. more[q + 1] = bytes[q + 1]
      BY <2>4, <2>7, <1>1
    <3>4. QED
      BY <2>6, <3>1, <3>2, <3>3
  <2>8. CASE q = n
    <3>1. ByteBits * q = n * ByteBits
      BY <2>8, <1>1, ByteSizes
    <3>2. /\ k \in 1 .. n * ByteBits + ByteBits /\ ~ (k <= n * ByteBits)
          /\ k - n * ByteBits = r + 1
      BY <3>1, <2>2, <2>5, <2>1, <1>2, <1>5, ByteSizes
    <3>3. (t \o b)[k] = b[r + 1]
      BY <3>2, <1>4
    <3>4. QED
      BY <2>6, <2>8, <3>3, <1>1
  <2>9. q < n \/ q = n
    BY <2>4, <1>1
  <2>10. QED
    BY <2>9, <2>7, <2>8
<1>7. Len(s) = Len(t \o b)
  BY <1>2, <1>4, <1>5
<1> HIDE DEF s, t
<1>8. s = t \o b
  BY <1>2, <1>4, <1>6, <1>7, SeqEqual
<1>9. QED
  BY <1>8 DEF s, t

LEMMA JoinedEmpty == Joined(<<>>) = <<>> /\ <<>> \in Seq(Byte) /\ <<>> \in Seq(Bit)
<1>1. <<>> \in Seq(Byte) /\ Len(<<>>) = 0 /\ <<>> \in Seq(Bit)
  BY EmptySeq
<1>2. 0 * ByteBits = 0
  BY ByteSizes
<1>3. Joined(<<>>) \in Seq(Bit) /\ Len(Joined(<<>>)) = Len(<<>>) * ByteBits
  BY <1>1, JoinedType
<1>4. QED
  BY <1>1, <1>2, <1>3, EmptySeq

\* A bit behind the bits of bytes and a part of a byte.
LEMMA HeardBit ==
  ASSUME NEW bytes \in Seq(Byte), NEW t \in Seq(Bit), NEW e \in Bit
  PROVE  /\ Append(t, e) \in Seq(Bit) /\ Len(Append(t, e)) = Len(t) + 1
         /\ Len(t) \in Nat
         /\ Append(Joined(bytes) \o t, e) = Joined(bytes) \o Append(t, e)
<1> DEFINE s == Joined(bytes)
<1>1. s \in Seq(Bit) /\ s \o t \in Seq(Bit)
  BY JoinedType, ConcatProperties
<1> HIDE DEF s
<1>2. Append(s \o t, e) = (s \o t) \o <<e>> /\ Append(t, e) = t \o <<e>>
  BY <1>1, AppendIsConcat
<1>3. <<e>> \in Seq(Bit)
  OBVIOUS
<1>4. (s \o t) \o <<e>> = s \o (t \o <<e>>)
  BY <1>1, <1>3, ConcatAssociative
<1>5. QED
  BY <1>2, <1>4, AppendProperties, LenProperties DEF s

\* The last bit of a byte makes it one byte more.
LEMMA HeardByte ==
  ASSUME NEW bytes \in Seq(Byte), NEW t \in Seq(Bit), NEW e \in Bit,
         Len(t) + 1 = ByteBits
  PROVE  /\ Append(t, e) \in Byte
         /\ Append(bytes, Append(t, e)) \in Seq(Byte)
         /\ Append(Joined(bytes) \o t, e) = Joined(Append(bytes, Append(t, e)))
         /\ Joined(Append(bytes, Append(t, e))) \o <<>>
              = Joined(Append(bytes, Append(t, e)))
<1>1. Append(t, e) \in Seq(Bit) /\ Len(Append(t, e)) = ByteBits
  BY AppendProperties
<1>2. Append(t, e) \in Byte
  BY <1>1, ByteIsSeq
<1>3. Append(bytes, Append(t, e)) \in Seq(Byte)
  BY <1>2, AppendProperties
<1>4. Joined(Append(bytes, Append(t, e))) = Joined(bytes) \o Append(t, e)
  BY <1>2, JoinedAppend
<1>5. Joined(Append(bytes, Append(t, e))) \in Seq(Bit)
  BY <1>3, JoinedType
<1>6. QED
  BY <1>2, <1>3, <1>4, <1>5, HeardBit, ConcatEmptySeq, ZenonT(60)

\* A buffer with one byte more.
LEMMA FirstBytesMore ==
  ASSUME NEW N \in Nat, NEW buffer \in [0 .. N - 1 -> Byte],
         NEW n \in 0 .. N - 1, NEW b \in Byte
  PROVE  /\ FirstBytes(buffer, n) \in Seq(Byte)
         /\ Len(FirstBytes(buffer, n)) = n
         /\ FirstBytes([buffer EXCEPT ![n] = b], n + 1)
              = Append(FirstBytes(buffer, n), b)
<1> DEFINE more == [buffer EXCEPT ![n] = b]
           s == FirstBytes(buffer, n)
           t == FirstBytes(more, n + 1)
<1>1. /\ more \in [0 .. N - 1 -> Byte] /\ more[n] = b
      /\ \A i \in 0 .. n - 1 : more[i] = buffer[i]
  OBVIOUS
<1> HIDE DEF more
<1>2. /\ s \in [1 .. n -> Byte] /\ t \in [1 .. n + 1 -> Byte]
      /\ \A i \in 1 .. n : s[i] = buffer[i - 1]
      /\ \A i \in 1 .. n + 1 : t[i] = more[i - 1]
  BY <1>1 DEF FirstBytes
<1> HIDE DEF s, t
<1>3. s \in Seq(Byte) /\ t \in Seq(Byte)
  BY <1>2, IsASeq
<1>4. Len(s) = n /\ Len(t) = n + 1
  BY <1>2, <1>3, LenProperties
<1>5. /\ Append(s, b) \in Seq(Byte) /\ Len(Append(s, b)) = n + 1
      /\ \A i \in 1 .. n : Append(s, b)[i] = s[i]
      /\ Append(s, b)[n + 1] = b
  BY <1>3, <1>4, AppendProperties
<1>6. \A i \in 1 .. n + 1 : t[i] = Append(s, b)[i]
  BY <1>1, <1>2, <1>5
<1>7. t = Append(s, b)
  BY <1>3, <1>4, <1>5, <1>6, SeqEqual
<1>8. QED
  BY <1>3, <1>4, <1>7 DEF s, t, more

\* No byte of a buffer.
LEMMA FirstBytesNone ==
  ASSUME NEW buffer
  PROVE  FirstBytes(buffer, 0) = <<>>
  BY DEF FirstBytes

-----------------------------------------------------------------------------
(* Induction, for a set of numbers: that < is well-founded says it without *)
(* an operator as a parameter.                                             *)

LEMMA NatWellFounded == IsWellFoundedOn({p \in Nat \X Nat : p[1] < p[2]}, Nat)
  BY NatLessThanWellFounded DEF OpToRel

LEMMA SetInduction ==
  ASSUME NEW T, T \subseteq Nat, 0 \in T, \A n \in T : n + 1 \in T
  PROVE  T = Nat
<1> SUFFICES ASSUME NEW m \in Nat, m \notin T PROVE FALSE
  OBVIOUS
<1> DEFINE U == Nat \ T
           R == {p \in Nat \X Nat : p[1] < p[2]}
<1>1. U # {} /\ U \subseteq Nat
  OBVIOUS
<1>2. PICK x \in U : \A y \in U : ~ (<<y, x>> \in R)
  <2> HIDE DEF U
  <2>1. QED
    BY <1>1, NatWellFounded, WFMin
<1>3. x # 0 /\ x - 1 \in Nat
  OBVIOUS
<1>4. <<x - 1, x>> \in R
  BY <1>3
<1>5. x - 1 \in T
  BY <1>2, <1>3, <1>4
<1>6. (x - 1) + 1 \in T
  BY <1>5
<1>7. QED
  BY <1>6

\* The same up to a bound.
LEMMA BoundedInduction ==
  ASSUME NEW N \in Nat, NEW T, T \subseteq 0 .. N, 0 \in T,
         \A n \in T : n < N => n + 1 \in T
  PROVE  \A n \in 0 .. N : n \in T
<1> DEFINE U == T \cup {n \in Nat : n > N}
<1>1. U \subseteq Nat /\ 0 \in U
  <2>1. 0 \in U
    OBVIOUS
  <2>2. 0 .. N \subseteq Nat
    OBVIOUS
  <2>3. T \subseteq Nat
    BY <2>2
  <2>4. QED
    BY <2>1, <2>3
<1>2. ASSUME NEW n \in U PROVE n + 1 \in U
  <2>1. CASE n \in T /\ n < N
    BY <2>1
  <2>2. CASE ~ (n \in T /\ n < N)
    <3>1. n \in Nat /\ n + 1 > N
      BY <2>2
    <3>2. QED
      BY <3>1
  <2>3. QED
    BY <2>1, <2>2
<1> HIDE DEF U
<1>3. U = Nat
  BY <1>1, <1>2, SetInduction
<1>4. QED
  BY <1>3 DEF U

-----------------------------------------------------------------------------
(* The bytes of a row of bits.                                             *)

\* The bytes of a sequence of bits, the last ones dropped if they are not a byte.
BytesOf(bits) == [k \in 1 .. Len(bits) \div ByteBits |->
                    SubSeq(bits, (k - 1) * ByteBits + 1, k * ByteBits)]

LEMMA BytesOfType ==
  ASSUME NEW bits \in Seq(Bit), NEW n \in Nat, NEW r \in 0 .. ByteBits - 1,
         Len(bits) = ByteBits * n + r
  PROVE  /\ Len(bits) \div ByteBits = n
         /\ BytesOf(bits) \in Seq(Byte) /\ Len(BytesOf(bits)) = n
         /\ \A k \in 1 .. n : \A i \in 1 .. ByteBits :
              BytesOf(bits)[k][i] = bits[(ByteBits * (k - 1) + (i - 1)) + 1]
<1>1. Len(bits) \div ByteBits = n
  BY ByteSizes, DivModUnique
<1>2. ASSUME NEW k \in 1 .. n
      PROVE  LET s == SubSeq(bits, (k - 1) * ByteBits + 1, k * ByteBits)
             IN  /\ s \in Byte
                 /\ \A i \in 1 .. ByteBits :
                      s[i] = bits[(ByteBits * (k - 1) + (i - 1)) + 1]
  <2> DEFINE a == (k - 1) * ByteBits + 1
             z == k * ByteBits
             x == ByteBits * (k - 1)
  <2>1. a = x + 1 /\ z = x + ByteBits /\ x \in Nat /\ ByteBits \in Nat \ {0}
    BY ByteSizes
  <2>2. x + ByteBits <= Len(bits)
    <3>1. n - k \in Nat /\ k \in Nat
      OBVIOUS
    <3>2. (n - k) * ByteBits \in Nat
      BY <3>1, ByteSizes
    <3>3. (n - k) * ByteBits = ByteBits * n - (x + ByteBits)
          /\ ByteBits * n \in Nat
      BY <3>1, ByteSizes
    <3>4. QED
      BY <2>1, <3>2, <3>3
  <2> HIDE DEF a, z, x
  <2>3. a \in Int /\ z \in Int /\ a <= z /\ (z - a) + 1 = ByteBits
    BY <2>1
  <2>4. \A i \in a .. z : bits[i] \in Bit
    BY <2>1, <2>2, ElementOfSeq
  <2> DEFINE s == SubSeq(bits, a, z)
  <2>5. /\ s \in Seq(Bit)
        /\ Len(s) = IF a <= z THEN z - a + 1 ELSE 0
        /\ \A i \in 1 .. z - a + 1 : s[i] = bits[a + i - 1]
    BY <2>3, <2>4, SubSeqProperties
  <2> HIDE DEF s
  <2>6. Len(s) = ByteBits /\ s \in Byte
    BY <2>3, <2>5, ByteIsSeq
  <2>7. ASSUME NEW i \in 1 .. ByteBits
        PROVE  s[i] = bits[(x + (i - 1)) + 1]
    <3>1. i \in 1 .. z - a + 1 /\ a + i - 1 = (x + (i - 1)) + 1
      BY <2>1, <2>3
    <3>2. QED
      BY <2>5, <3>1
  <2>8. QED
    BY <2>6, <2>7 DEF s, a, z, x
<1> DEFINE B == BytesOf(bits)
<1>3. /\ B \in [1 .. n -> Byte]
      /\ \A k \in 1 .. n : B[k] = SubSeq(bits, (k - 1) * ByteBits + 1, k * ByteBits)
  BY <1>1, <1>2 DEF BytesOf
<1> HIDE DEF B
<1>4. B \in Seq(Byte)
  BY <1>3, IsASeq
<1>5. Len(B) = n
  BY <1>3, <1>4, LenProperties
<1>6. \A k \in 1 .. n : \A i \in 1 .. ByteBits :
        B[k][i] = bits[(ByteBits * (k - 1) + (i - 1)) + 1]
  BY <1>2, <1>3
<1>7. QED
  BY <1>1, <1>4, <1>5, <1>6 DEF B

\* The bytes of the bits of bytes are those bytes.
LEMMA BytesOfJoined ==
  ASSUME NEW bytes \in Seq(Byte)
  PROVE  BytesOf(Joined(bytes)) = bytes
<1> DEFINE n == Len(bytes)
           bits == Joined(bytes)
           B == BytesOf(bits)
<1>1. n \in Nat /\ bits \in Seq(Bit) /\ Len(bits) = n * ByteBits
      /\ 0 \in 0 .. ByteBits - 1
  BY LenProperties, JoinedType, ByteSizes
<1>2. Len(bits) = ByteBits * n + 0
  BY <1>1, ByteSizes
<1>3. /\ B \in Seq(Byte) /\ Len(B) = n
      /\ \A k \in 1 .. n : \A i \in 1 .. ByteBits :
           B[k][i] = bits[(ByteBits * (k - 1) + (i - 1)) + 1]
  <2> HIDE DEF n, bits
  <2>1. QED
    BY <1>1, <1>2, BytesOfType
<1> HIDE DEF B
<1>4. ASSUME NEW k \in 1 .. n PROVE B[k] = bytes[k]
  <2>1. B[k] \in Byte /\ bytes[k] \in Byte
    BY <1>3, ElementOfSeq
  <2>2. ASSUME NEW i \in 1 .. ByteBits PROVE B[k][i] = bytes[k][i]
    <3> DEFINE q == k - 1
               r == i - 1
    <3>1. q \in Nat /\ r \in 0 .. ByteBits - 1 /\ q < Len(bytes)
          /\ q + 1 = k /\ r + 1 = i
      BY <1>1, ByteSizes
    <3>2. B[k][i] = bits[(ByteBits * q + r) + 1]
      BY <1>3
    <3> HIDE DEF q, r
    <3>3. bits[(ByteBits * q + r) + 1] = bytes[q + 1][r + 1]
      BY <3>1, JoinedAt
    <3>4. QED
      BY <3>1, <3>2, <3>3
  <2>3. /\ B[k] \in Seq(Bit) /\ bytes[k] \in Seq(Bit)
        /\ Len(B[k]) = ByteBits /\ Len(bytes[k]) = ByteBits
    BY <2>1, ByteIsSeq
  <2>4. QED
    BY <2>2, <2>3, SeqEqual
<1>5. B = bytes
  BY <1>3, <1>4, SeqEqual
<1>6. QED
  BY <1>5 DEF B

-----------------------------------------------------------------------------
(* Half cells, and parts of rows of bytes.                                 *)

LEMMA Times == \A a, b, c \in Int : (a * b) * c = a * (b * c) /\ a * b = b * a
  OBVIOUS

\* A remainder of a remainder.
LEMMA ModMod ==
  ASSUME NEW d \in Nat \ {0}, NEW m \in Nat \ {0}, m % d = 0, NEW n \in Int
  PROVE  (n % m) % d = n % d
<1> DEFINE e == m \div d
           q == n \div m
           r == n % m
           p == r \div d
           s == r % d
<1>1. m = d * e /\ e \in Int
  BY DivMod
<1>2. n = m * q + r /\ q \in Int /\ r \in Int
  BY DivMod
<1> HIDE DEF e, q, r
<1>3. r = d * p + s /\ p \in Int /\ s \in 0 .. d - 1
  BY <1>2, DivMod
<1> HIDE DEF p, s
<1>4. m * q = d * (e * q) /\ e * q \in Int
  BY <1>1, <1>2, Times
<1> DEFINE x == e * q
<1>5. x \in Int /\ n = (d * x + d * p) + s
  BY <1>2, <1>3, <1>4
<1> HIDE DEF x
<1>6. n = d * (x + p) + s /\ x + p \in Int
  BY <1>3, <1>5
<1>7. n % d = s
  BY <1>3, <1>6, DivModUnique
<1>8. QED
  BY <1>7 DEF r, s

\* A row of bytes begins with the bits of the bytes it begins with.
LEMMA JoinedPrefix ==
  ASSUME NEW few \in Seq(Byte), NEW bytes \in Seq(Byte), NEW t \in Seq(Bit),
         Len(few) <= Len(bytes), \A k \in 1 .. Len(few) : few[k] = bytes[k]
  PROVE  LET heard == Joined(bytes) \o t
         IN  /\ Len(Joined(few)) <= Len(heard)
             /\ Joined(few) = SubSeq(heard, 1, Len(Joined(few)))
<1> DEFINE n == Len(few)
           m == Len(bytes)
           s == Joined(few)
           u == Joined(bytes)
           heard == u \o t
<1>1. n \in Nat /\ m \in Nat /\ n <= m
  BY LenProperties
<1>2. /\ s \in Seq(Bit) /\ Len(s) = n * ByteBits /\ n * ByteBits \in Nat
      /\ u \in Seq(Bit) /\ Len(u) = m * ByteBits /\ m * ByteBits \in Nat
  BY JoinedType
<1>3. n * ByteBits <= m * ByteBits
  <2> HIDE DEF n, m
  <2>1. m - n \in Nat
    BY <1>1
  <2>2. (m - n) * ByteBits \in Nat
    BY <2>1, ByteSizes
  <2>3. (m - n) * ByteBits = m * ByteBits - n * ByteBits
    BY <1>1, ByteSizes
  <2>4. QED
    BY <1>2, <2>2, <2>3
<1>4. ASSUME NEW k \in 1 .. n * ByteBits PROVE s[k] = u[k]
  <2> DEFINE q == (k - 1) \div ByteBits
             r == (k - 1) % ByteBits
  <2>1. k - 1 \in Int /\ k \in Int /\ k >= 1 /\ k <= n * ByteBits
    BY <1>2
  <2>2. q \in Int /\ r \in 0 .. ByteBits - 1 /\ k - 1 = ByteBits * q + r
    BY <2>1, ByteSizes, DivMod
  <2> HIDE DEF q, r
  <2>3. q \in 0 .. n - 1
    <3>1. ByteBits * q + r >= 0 /\ ByteBits * q + r < n * ByteBits
      BY <2>1, <2>2, <1>2, ByteSizes
    <3> HIDE DEF n
    <3>2. QED
      BY <1>1, <2>2, <3>1, ByteSizes, Quotient
  <2>4. k = (ByteBits * q + r) + 1 /\ q \in Nat /\ q < n /\ q < m /\ q + 1 \in 1 .. n
    BY <1>1, <2>1, <2>2, <2>3, ByteSizes
  <2>5. s[(ByteBits * q + r) + 1] = few[q + 1][r + 1]
    BY <2>2, <2>4, JoinedAt
  <2>6. u[(ByteBits * q + r) + 1] = bytes[q + 1][r + 1]
    BY <2>2, <2>4, JoinedAt
  <2>7. few[q + 1] = bytes[q + 1]
    BY <2>4
  <2>8. QED
    BY <2>4, <2>5, <2>6, <2>7
<1> DEFINE l == n * ByteBits
<1> HIDE DEF s, u
<1>5. /\ heard \in Seq(Bit) /\ Len(heard) = Len(u) + Len(t) /\ Len(t) \in Nat
      /\ \A i \in 1 .. Len(u) + Len(t) :
           heard[i] = IF i <= Len(u) THEN u[i] ELSE t[i - Len(u)]
  BY <1>2, ConcatProperties, LenProperties
<1> HIDE DEF heard
<1>6. l \in Nat /\ l <= Len(u) /\ l <= Len(heard) /\ Len(u) \in Nat
  BY <1>2, <1>3, <1>5
<1> HIDE DEF l
<1>7. \A k \in 1 .. l : heard[k] = s[k] /\ heard[k] \in Bit
  <2> SUFFICES ASSUME NEW k \in 1 .. l PROVE heard[k] = s[k] /\ heard[k] \in Bit
    OBVIOUS
  <2>1. k \in 1 .. Len(u) + Len(t) /\ k <= Len(u) /\ k \in 1 .. Len(heard)
    BY <1>5, <1>6
  <2>2. heard[k] = u[k] /\ heard[k] \in Bit
    BY <1>5, <2>1, ElementOfSeq
  <2>3. s[k] = u[k]
    BY <1>4 DEF l
  <2>4. QED
    BY <2>2, <2>3
<1> DEFINE z == SubSeq(heard, 1, l)
<1>8. /\ z \in Seq(Bit) /\ Len(z) = l
      /\ \A k \in 1 .. l : z[k] = heard[k]
  <2>1. /\ z \in Seq(Bit)
        /\ Len(z) = IF 1 <= l THEN l - 1 + 1 ELSE 0
        /\ \A k \in 1 .. l - 1 + 1 : z[k] = heard[1 + k - 1]
    BY <1>6, <1>7, SubSeqProperties
  <2>2. l - 1 + 1 = l /\ \A k \in 1 .. l : 1 + k - 1 = k
    BY <1>6
  <2> HIDE DEF z
  <2>3. \A k \in 1 .. l : z[k] = heard[k]
    BY <2>1, <2>2
  <2>4. Len(z) = l
    BY <1>6, <2>1
  <2>5. QED
    BY <2>1, <2>3, <2>4
<1> HIDE DEF z
<1>9. Len(s) = l
  BY <1>2 DEF l
<1>10. s = z
  BY <1>2, <1>7, <1>8, <1>9, SeqEqual
<1>11. QED
  BY <1>6, <1>9, <1>10 DEF z, s, u, heard

\* What follows a sequence in a longer one.
LEMMA Behind ==
  ASSUME NEW s \in Seq(Bit), NEW t \in Seq(Bit)
  PROVE  /\ Len(s \o t) = Len(s) + Len(t)
         /\ SubSeq(s \o t, Len(s) + 1, Len(s \o t)) = t
<1>1. Len(s \o t) = Len(s) + Len(t) /\ Len(s) \in Nat /\ Len(t) \in Nat
  BY ConcatProperties, LenProperties
<1>2. CASE t = <<>>
  <2>1. Len(t) = 0
    BY <1>2, EmptySeq
  <2>2. Len(s) + 1 \in Int /\ Len(s \o t) \in Int /\ Len(s \o t) < Len(s) + 1
    BY <1>1, <2>1
  <2>3. QED
    BY <1>1, <1>2, <2>2, SubSeqEmpty
<1>3. CASE t # <<>>
  <2>1. Len(t) \in Nat \ {0}
    BY <1>3, EmptySeq
  <2> DEFINE a == Len(s) + 1
             z == Len(s) + Len(t)
  <2>2. a \in Len(s) + 1 .. Len(s) + Len(t) /\ z \in Len(s) + 1 .. Len(s) + Len(t)
        /\ a - Len(s) = 1 /\ z - Len(s) = Len(t)
    BY <1>1, <2>1
  <2> HIDE DEF a, z
  <2>3. SubSeq(s \o t, a, z) = SubSeq(t, a - Len(s), z - Len(s))
    BY <2>2, SubSeqOfConcat2
  <2>4. SubSeq(s \o t, a, z) = t
    BY <2>2, <2>3, SubSeqFull
  <2>5. QED
    BY <1>1, <2>4 DEF a, z
<1>4. QED
  BY <1>2, <1>3
=============================================================================
