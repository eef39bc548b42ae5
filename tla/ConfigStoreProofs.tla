------------------------- MODULE ConfigStoreProofs -------------------------
(***************************************************************************)
(* Proofs about ConfigStore for every size of the fields, every setting    *)
(* and a power failure after any byte.                                     *)
(***************************************************************************)
EXTENDS ConfigStore, SequenceTheorems, TLAPS

Image == [1 .. Size -> Byte]
Mac == [1 .. MacBytes -> Byte]
App == [dhcp : BOOLEAN, mac : Mac, words : [Words -> Word]]

\* How many bytes there are before each of the words.
IpAt == MacBytes + SecretBytes
NetmaskAt == IpAt + WordBytes
GatewayAt == NetmaskAt + WordBytes
Dns1At == GatewayAt + WordBytes
Dns2At == Dns1At + WordBytes

\* The bytes hold the words at their places.
Holds(bytes, words) ==
  \A j \in 1 .. WordBytes :
    /\ bytes[IpAt + j] = words.ip[j]
    /\ bytes[NetmaskAt + j] = words.netmask[j]
    /\ bytes[GatewayAt + j] = words.gateway[j]
    /\ bytes[Dns1At + j] = words.dns1[j]
    /\ bytes[Dns2At + j] = words.dns2[j]

TypeInv ==
  /\ eeprom \in Image /\ factory \in Image /\ before \in Image
  /\ config \in Config
  /\ app \in App /\ asked \in App
  /\ written \in -1 .. Size

\* The EEPROM has the bytes of config up to the last one written, and behind it
\* those from before the save; a save changes the five words of config only.
SaveInv ==
  /\ \A b \in 1 .. Size :
       eeprom[b] = IF b <= written THEN Flat(config)[b] ELSE before[b]
  /\ config.mac = LoadedConfig(before).mac
  /\ config.secret = loadEEPROM(before).secret
  /\ written >= 0 =>
       config.words = IF asked.dhcp THEN [w \in Words |-> ErasedWord]
                                    ELSE asked.words

\* The secret is that of the factory, and so is the address, but for the first
\* bytes of one that was erased and is being replaced by the fallback.
KeepsIdentity(bytes) ==
  /\ loadEEPROM(bytes).secret = loadEEPROM(factory).secret
  /\ \E k \in 0 .. MacBytes :
       /\ k = 0 \/ factory[1] = Erased
       /\ \A b \in 1 .. MacBytes :
            bytes[b] = IF b <= k THEN FallbackMac[b] ELSE factory[b]

IdentityInv == KeepsIdentity(before) /\ app.mac = config.mac

Inv == TypeInv /\ SaveInv /\ IdentityInv

-----------------------------------------------------------------------------
LEMMA Sizes ==
  /\ MacBytes \in Nat \ {0} /\ SecretBytes \in Nat \ {0}
  /\ WordBytes \in Nat \ {0}
  /\ Size = MacBytes + SecretBytes + 5 * WordBytes /\ Size \in Nat
BY ConfigAssumption DEF Size

\* A function over the bytes of a field is a sequence of that length.
LEMMA FieldIsSeq ==
  ASSUME NEW n \in Nat, NEW f \in [1 .. n -> Byte]
  PROVE  f \in Seq(Byte) /\ Len(f) = n
OBVIOUS

LEMMA SameFunction ==
  ASSUME NEW D, NEW f \in [D -> Byte], NEW g \in [D -> Byte],
         \A d \in D : f[d] = g[d]
  PROVE  f = g
OBVIOUS

LEMMA FieldAt ==
  ASSUME NEW bytes \in Image, NEW first \in Nat \ {0}, NEW size \in Nat,
         first + size - 1 <= Size
  PROVE  /\ Field(bytes, first, size) \in [1 .. size -> Byte]
         /\ \A j \in 1 .. size :
              Field(bytes, first, size)[j] = bytes[first + j - 1]
<1>1. Field(bytes, first, size)
        = [j \in 1 .. size |-> bytes[first + j - 1]]
  BY DEF Field
<1>2. \A j \in 1 .. size : bytes[first + j - 1] \in Byte
  BY Sizes DEF Image
<1>3. QED
  BY <1>1, <1>2

LEMMA Offsets ==
  /\ IpAt \in Nat /\ IpAt = MacBytes + SecretBytes
  /\ NetmaskAt \in Nat /\ NetmaskAt = IpAt + WordBytes
  /\ GatewayAt \in Nat /\ GatewayAt = NetmaskAt + WordBytes
  /\ Dns1At \in Nat /\ Dns1At = GatewayAt + WordBytes
  /\ Dns2At \in Nat /\ Dns2At = Dns1At + WordBytes
  /\ Size = Dns2At + WordBytes
BY Sizes DEF IpAt, NetmaskAt, GatewayAt, Dns1At, Dns2At

\* The fields of an EEPROM.
LEMMA WordField ==
  ASSUME NEW bytes \in Image, NEW at \in Nat, at + WordBytes <= Size
  PROVE  /\ Field(bytes, at + 1, WordBytes) \in Word
         /\ \A j \in 1 .. WordBytes :
              Field(bytes, at + 1, WordBytes)[j] = bytes[at + j]
<1>1. at + 1 \in Nat \ {0} /\ at + 1 + WordBytes - 1 <= Size
  BY Sizes
<1>2. /\ Field(bytes, at + 1, WordBytes) \in [1 .. WordBytes -> Byte]
      /\ \A j \in 1 .. WordBytes :
           Field(bytes, at + 1, WordBytes)[j] = bytes[at + 1 + j - 1]
  BY <1>1, FieldAt, Sizes
<1>3. \A j \in 1 .. WordBytes : at + 1 + j - 1 = at + j
  BY Sizes
<1>4. QED
  BY <1>2, <1>3 DEF Word

LEMMA LoadedMac ==
  ASSUME NEW bytes \in Image
  PROVE  /\ loadEEPROM(bytes).mac \in Mac
         /\ \A j \in 1 .. MacBytes : loadEEPROM(bytes).mac[j] = bytes[j]
<1>1. /\ Field(bytes, 1, MacBytes) \in [1 .. MacBytes -> Byte]
      /\ \A j \in 1 .. MacBytes :
           Field(bytes, 1, MacBytes)[j] = bytes[1 + j - 1]
  BY FieldAt, Sizes
<1>2. QED
  BY <1>1, Sizes DEF loadEEPROM, Mac

LEMMA LoadedSecret ==
  ASSUME NEW bytes \in Image
  PROVE  /\ loadEEPROM(bytes).secret \in [1 .. SecretBytes -> Byte]
         /\ \A j \in 1 .. SecretBytes :
              loadEEPROM(bytes).secret[j] = bytes[MacBytes + j]
<1>1. /\ Field(bytes, MacBytes + 1, SecretBytes) \in [1 .. SecretBytes -> Byte]
      /\ \A j \in 1 .. SecretBytes :
           Field(bytes, MacBytes + 1, SecretBytes)[j]
             = bytes[MacBytes + 1 + j - 1]
  BY FieldAt, Sizes
<1>2. QED
  BY <1>1, Sizes DEF loadEEPROM

LEMMA LoadedWords ==
  ASSUME NEW bytes \in Image
  PROVE  LET words == loadEEPROM(bytes).words
         IN  /\ words \in [Words -> Word]
             /\ words.ip = WordAt(bytes, 0)
             /\ Holds(bytes, words)
<1> DEFINE ip == Field(bytes, IpAt + 1, WordBytes)
           netmask == Field(bytes, NetmaskAt + 1, WordBytes)
           gateway == Field(bytes, GatewayAt + 1, WordBytes)
           dns1 == Field(bytes, Dns1At + 1, WordBytes)
           dns2 == Field(bytes, Dns2At + 1, WordBytes)
           words == loadEEPROM(bytes).words
<1>1. words = [ip |-> ip, netmask |-> netmask, gateway |-> gateway,
               dns1 |-> dns1, dns2 |-> dns2]
  <2>1. /\ MacBytes + SecretBytes + 0 * WordBytes = IpAt
        /\ MacBytes + SecretBytes + 1 * WordBytes = NetmaskAt
        /\ MacBytes + SecretBytes + 2 * WordBytes = GatewayAt
        /\ MacBytes + SecretBytes + 3 * WordBytes = Dns1At
        /\ MacBytes + SecretBytes + 4 * WordBytes = Dns2At
    BY Offsets, Sizes
  <2>2. QED
    BY <2>1 DEF loadEEPROM, WordAt
<1>2. words.ip = WordAt(bytes, 0)
  BY DEF loadEEPROM
<1>3. /\ IpAt \in Nat /\ IpAt + WordBytes <= Size
      /\ NetmaskAt \in Nat /\ NetmaskAt + WordBytes <= Size
      /\ GatewayAt \in Nat /\ GatewayAt + WordBytes <= Size
      /\ Dns1At \in Nat /\ Dns1At + WordBytes <= Size
      /\ Dns2At \in Nat /\ Dns2At + WordBytes <= Size
  BY Offsets, Sizes
<1>4. /\ ip \in Word
      /\ \A j \in 1 .. WordBytes : ip[j] = bytes[IpAt + j]
  BY <1>3, WordField
<1>5. /\ netmask \in Word
      /\ \A j \in 1 .. WordBytes : netmask[j] = bytes[NetmaskAt + j]
  BY <1>3, WordField
<1>6. /\ gateway \in Word
      /\ \A j \in 1 .. WordBytes : gateway[j] = bytes[GatewayAt + j]
  BY <1>3, WordField
<1>7. /\ dns1 \in Word
      /\ \A j \in 1 .. WordBytes : dns1[j] = bytes[Dns1At + j]
  BY <1>3, WordField
<1>8. /\ dns2 \in Word
      /\ \A j \in 1 .. WordBytes : dns2[j] = bytes[Dns2At + j]
  BY <1>3, WordField
<1> HIDE DEF ip, netmask, gateway, dns1, dns2, words
<1>9. words \in [Words -> Word]
  BY <1>1, <1>4, <1>5, <1>6, <1>7, <1>8 DEF Words
<1>10. Holds(bytes, words)
  BY <1>1, <1>4, <1>5, <1>6, <1>7, <1>8 DEF Holds
<1>11. QED
  BY <1>2, <1>9, <1>10 DEF words

LEMMA SameWord ==
  ASSUME NEW v, NEW w, v \in Word, w \in Word,
         \A j \in 1 .. WordBytes : v[j] = w[j]
  PROVE  v = w
BY SameFunction DEF Word

LEMMA SameMac ==
  ASSUME NEW v, NEW w, v \in Mac, w \in Mac,
         \A b \in 1 .. MacBytes : v[b] = w[b]
  PROVE  v = w
BY SameFunction DEF Mac

\* Settings are the same when their bytes are.
LEMMA SameSettings ==
  ASSUME NEW v, NEW w, v \in [Words -> Word], w \in [Words -> Word],
         \A j \in 1 .. WordBytes :
           /\ v.ip[j] = w.ip[j] /\ v.netmask[j] = w.netmask[j]
           /\ v.gateway[j] = w.gateway[j] /\ v.dns1[j] = w.dns1[j]
           /\ v.dns2[j] = w.dns2[j]
  PROVE  v = w
<1>1. /\ v.ip = w.ip /\ v.netmask = w.netmask /\ v.gateway = w.gateway
      /\ v.dns1 = w.dns1 /\ v.dns2 = w.dns2
  BY SameWord DEF Words
<1>2. \A x \in Words : v[x] = w[x]
  BY <1>1 DEF Words
<1>3. QED
  BY <1>2

\* Two EEPROMs with the same words hold the same settings.
LEMMA SameWords ==
  ASSUME NEW bytes \in Image, NEW other \in Image,
         \A b \in (IpAt + 1) .. Size : bytes[b] = other[b]
  PROVE  loadEEPROM(bytes).words = loadEEPROM(other).words
<1> DEFINE v == loadEEPROM(bytes).words
           w == loadEEPROM(other).words
<1>1. \A j \in 1 .. WordBytes :
        /\ IpAt + j \in (IpAt + 1) .. Size
        /\ NetmaskAt + j \in (IpAt + 1) .. Size
        /\ GatewayAt + j \in (IpAt + 1) .. Size
        /\ Dns1At + j \in (IpAt + 1) .. Size
        /\ Dns2At + j \in (IpAt + 1) .. Size
  BY Offsets, Sizes
<1>2. /\ v \in [Words -> Word] /\ w \in [Words -> Word]
      /\ \A j \in 1 .. WordBytes :
           /\ v.ip[j] = w.ip[j] /\ v.netmask[j] = w.netmask[j]
           /\ v.gateway[j] = w.gateway[j] /\ v.dns1[j] = w.dns1[j]
           /\ v.dns2[j] = w.dns2[j]
  BY <1>1, LoadedWords DEF Holds
<1> HIDE DEF v, w
<1>3. v = w
  BY <1>2, SameSettings
<1>4. QED
  BY <1>3 DEF v, w

\* The fallback replaces the address only.
LEMMA Loaded ==
  ASSUME NEW bytes \in Image
  PROVE  /\ LoadedConfig(bytes) \in Config
         /\ LoadedConfig(bytes).mac = IF bytes[1] = Erased
                                        THEN FallbackMac
                                        ELSE loadEEPROM(bytes).mac
         /\ LoadedConfig(bytes).secret = loadEEPROM(bytes).secret
         /\ LoadedConfig(bytes).words = loadEEPROM(bytes).words
<1> DEFINE c == loadEEPROM(bytes)
<1>1. c \in Config
  BY LoadedMac, LoadedSecret, LoadedWords DEF Config, Mac, loadEEPROM
<1>2. c.mac[1] = bytes[1] /\ FallbackMac \in Mac
  BY LoadedMac, Sizes, ConfigAssumption DEF Mac
<1> HIDE DEF c
<1>3. LoadedConfig(bytes) = IF c.mac[1] = Erased
                              THEN [c EXCEPT !.mac = FallbackMac] ELSE c
  BY DEF LoadedConfig, c
<1>4. QED
  BY <1>1, <1>2, <1>3 DEF Config, Mac, c

\* What a device boots with is decided by the first word, and is the default
\* or the five words.
LEMMA Booted ==
  ASSUME NEW bytes \in Image
  PROVE  /\ AppOf(bytes).mac = LoadedConfig(bytes).mac
         /\ AppOf(bytes).dhcp = UsesDhcp(WordAt(bytes, 0))
         /\ AppOf(bytes).words = IF UsesDhcp(WordAt(bytes, 0))
                                   THEN Default ELSE loadEEPROM(bytes).words
         /\ AppOf(bytes) \in App
<1>1. LoadedConfig(bytes).words.ip = WordAt(bytes, 0)
  BY Loaded, LoadedWords
<1>2. /\ AppOf(bytes).mac = LoadedConfig(bytes).mac
      /\ AppOf(bytes).dhcp = UsesDhcp(WordAt(bytes, 0))
  BY <1>1 DEF AppOf
<1>3. AppOf(bytes).words = IF UsesDhcp(WordAt(bytes, 0))
                             THEN Default ELSE loadEEPROM(bytes).words
  BY <1>1, Loaded DEF AppOf
<1>4. AppOf(bytes) = [dhcp |-> AppOf(bytes).dhcp, mac |-> AppOf(bytes).mac,
                      words |-> AppOf(bytes).words]
  BY DEF AppOf
<1>5. AppOf(bytes).mac \in Mac /\ AppOf(bytes).words \in [Words -> Word]
  BY <1>2, <1>3, Loaded, LoadedWords, ConfigAssumption DEF Config, Mac
<1>6. AppOf(bytes).dhcp \in BOOLEAN
  BY <1>2 DEF UsesDhcp
<1>7. QED
  BY <1>2, <1>3, <1>4, <1>5, <1>6 DEF App

-----------------------------------------------------------------------------
\* One sequence behind another.
LEMMA Appended ==
  ASSUME NEW s \in Seq(Byte), NEW t \in Seq(Byte)
  PROVE  /\ s \o t \in Seq(Byte)
         /\ Len(s \o t) = Len(s) + Len(t)
         /\ \A j \in 1 .. Len(s) : (s \o t)[j] = s[j]
         /\ \A j \in 1 .. Len(t) : (s \o t)[Len(s) + j] = t[j]
<1>1. Len(s) \in Nat /\ Len(t) \in Nat
  BY LenProperties
<1>2. /\ s \o t \in Seq(Byte)
      /\ Len(s \o t) = Len(s) + Len(t)
      /\ \A j \in 1 .. Len(s) + Len(t) :
           (s \o t)[j] = IF j <= Len(s) THEN s[j] ELSE t[j - Len(s)]
  BY ConcatProperties
<1>3. \A j \in 1 .. Len(s) : (s \o t)[j] = s[j]
  BY <1>1, <1>2
<1>4. ASSUME NEW j \in 1 .. Len(t)
      PROVE  (s \o t)[Len(s) + j] = t[j]
  <2>1. /\ Len(s) + j \in 1 .. Len(s) + Len(t)
        /\ ~ (Len(s) + j <= Len(s))
        /\ (Len(s) + j) - Len(s) = j
    BY <1>1
  <2>2. QED
    BY <1>2, <2>1
<1>5. QED
  BY <1>2, <1>3, <1>4

LEMMA WordAppended ==
  ASSUME NEW s \in Seq(Byte), NEW w \in Word
  PROVE  /\ s \o w \in Seq(Byte)
         /\ Len(s \o w) = Len(s) + WordBytes
         /\ \A j \in 1 .. Len(s) : (s \o w)[j] = s[j]
         /\ \A j \in 1 .. WordBytes : (s \o w)[Len(s) + j] = w[j]
<1>1. w \in Seq(Byte) /\ Len(w) = WordBytes
  BY FieldIsSeq, Sizes DEF Word
<1>2. QED
  BY <1>1, Appended

\* Five words behind a sequence.
LEMMA FiveWords ==
  ASSUME NEW s1 \in Seq(Byte), Len(s1) = IpAt,
         NEW words \in [Words -> Word]
  PROVE  LET s == s1 \o words.ip \o words.netmask \o words.gateway
                     \o words.dns1 \o words.dns2
         IN  /\ s \in [1 .. Size -> Byte]
             /\ \A j \in 1 .. IpAt : s[j] = s1[j]
             /\ Holds(s, words)
<1> DEFINE w1 == words.ip
           w2 == words.netmask
           w3 == words.gateway
           w4 == words.dns1
           w5 == words.dns2
<1>0. w1 \in Word /\ w2 \in Word /\ w3 \in Word /\ w4 \in Word /\ w5 \in Word
  BY DEF Words
<1> HIDE DEF w1, w2, w3, w4, w5
<1> DEFINE s2 == s1 \o w1
           s3 == s2 \o w2
           s4 == s3 \o w3
           s5 == s4 \o w4
           s6 == s5 \o w5
<1> HIDE DEF s2, s3, s4, s5, s6
<1>1. /\ s2 \in Seq(Byte) /\ Len(s2) = NetmaskAt
      /\ \A j \in 1 .. IpAt : s2[j] = s1[j]
      /\ \A j \in 1 .. WordBytes : s2[IpAt + j] = w1[j]
  <2>1. IpAt \in Nat /\ NetmaskAt \in Nat /\ NetmaskAt = IpAt + WordBytes
    BY Offsets, Sizes
  <2>2. /\ s2 \in Seq(Byte) /\ Len(s2) = Len(s1) + WordBytes
        /\ \A j \in 1 .. Len(s1) : s2[j] = s1[j]
        /\ \A j \in 1 .. WordBytes : s2[Len(s1) + j] = w1[j]
    BY <1>0, WordAppended DEF s2
  <2>3. QED
    BY <2>1, <2>2
<1>2. /\ s3 \in Seq(Byte) /\ Len(s3) = GatewayAt
      /\ \A j \in 1 .. NetmaskAt : s3[j] = s2[j]
      /\ \A j \in 1 .. WordBytes : s3[NetmaskAt + j] = w2[j]
  <2>1. NetmaskAt \in Nat /\ GatewayAt \in Nat /\ GatewayAt = NetmaskAt + WordBytes
    BY Offsets, Sizes
  <2>2. s2 \in Seq(Byte) /\ Len(s2) = NetmaskAt
    BY <1>1
  <2>3. QED
    BY <1>0, <2>1, <2>2, WordAppended DEF s3
<1>3. /\ s4 \in Seq(Byte) /\ Len(s4) = Dns1At
      /\ \A j \in 1 .. GatewayAt : s4[j] = s3[j]
      /\ \A j \in 1 .. WordBytes : s4[GatewayAt + j] = w3[j]
  <2>1. GatewayAt \in Nat /\ Dns1At \in Nat /\ Dns1At = GatewayAt + WordBytes
    BY Offsets, Sizes
  <2>2. s3 \in Seq(Byte) /\ Len(s3) = GatewayAt
    BY <1>2
  <2>3. QED
    BY <1>0, <2>1, <2>2, WordAppended DEF s4
<1>4. /\ s5 \in Seq(Byte) /\ Len(s5) = Dns2At
      /\ \A j \in 1 .. Dns1At : s5[j] = s4[j]
      /\ \A j \in 1 .. WordBytes : s5[Dns1At + j] = w4[j]
  <2>1. Dns1At \in Nat /\ Dns2At \in Nat /\ Dns2At = Dns1At + WordBytes
    BY Offsets, Sizes
  <2>2. s4 \in Seq(Byte) /\ Len(s4) = Dns1At
    BY <1>3
  <2>3. QED
    BY <1>0, <2>1, <2>2, WordAppended DEF s5
<1>5. /\ s6 \in Seq(Byte) /\ Len(s6) = Size
      /\ \A j \in 1 .. Dns2At : s6[j] = s5[j]
      /\ \A j \in 1 .. WordBytes : s6[Dns2At + j] = w5[j]
  <2>1. Dns2At \in Nat /\ Size \in Nat /\ Size = Dns2At + WordBytes
    BY Offsets, Sizes
  <2>2. s5 \in Seq(Byte) /\ Len(s5) = Dns2At
    BY <1>4
  <2>3. QED
    BY <1>0, <2>1, <2>2, WordAppended DEF s6
<1>6. s6 \in [1 .. Size -> Byte]
  BY <1>5, LenProperties
<1>7. /\ \A j \in 1 .. IpAt : s3[j] = s1[j]
      /\ \A j \in 1 .. WordBytes : s3[IpAt + j] = w1[j]
  <2>1. IpAt \in Nat /\ NetmaskAt = IpAt + WordBytes /\ WordBytes \in Nat
    BY Offsets, Sizes
  <2>2. QED
    BY <1>1, <1>2, <2>1
<1>8. /\ \A j \in 1 .. Dns1At : s6[j] = s4[j]
      /\ \A j \in 1 .. WordBytes : s6[Dns1At + j] = w4[j]
  <2>1. Dns1At \in Nat /\ WordBytes \in Nat /\ Dns2At = Dns1At + WordBytes
    BY Offsets, Sizes
  <2>2. QED
    BY <1>4, <1>5, <2>1
<1>9. /\ \A j \in 1 .. GatewayAt : s6[j] = s3[j]
      /\ \A j \in 1 .. WordBytes : s6[GatewayAt + j] = w3[j]
  <2>1. GatewayAt \in Nat /\ WordBytes \in Nat /\ Dns1At = GatewayAt + WordBytes
    BY Offsets, Sizes
  <2>2. \A j \in 1 .. GatewayAt : s6[j] = s3[j]
    BY <1>3, <1>8, <2>1
  <2>3. \A j \in 1 .. WordBytes : s6[GatewayAt + j] = w3[j]
    BY <1>3, <1>8, <2>1
  <2>4. QED
    BY <2>2, <2>3
<1>10. /\ \A j \in 1 .. IpAt : s6[j] = s1[j]
       /\ \A j \in 1 .. WordBytes :
            s6[IpAt + j] = w1[j] /\ s6[NetmaskAt + j] = w2[j]
  <2>1. /\ IpAt \in Nat /\ WordBytes \in Nat
        /\ NetmaskAt = IpAt + WordBytes /\ GatewayAt = NetmaskAt + WordBytes
    BY Offsets, Sizes
  <2>2. QED
    BY <1>2, <1>7, <1>9, <2>1
<1>11. QED
  <2>1. Holds(s6, words)
    BY <1>5, <1>8, <1>9, <1>10 DEF Holds, w1, w2, w3, w4, w5
  <2>2. QED
    BY <1>6, <1>10, <2>1 DEF s2, s3, s4, s5, s6, w1, w2, w3, w4, w5

\* Where each field is in the bytes that are written.
LEMMA FlatAt ==
  ASSUME NEW c \in Config
  PROVE  /\ Flat(c) \in Image
         /\ \A j \in 1 .. MacBytes : Flat(c)[j] = c.mac[j]
         /\ \A j \in 1 .. SecretBytes : Flat(c)[MacBytes + j] = c.secret[j]
         /\ Holds(Flat(c), c.words)
<1>1. /\ c.mac \in Seq(Byte) /\ Len(c.mac) = MacBytes
      /\ c.secret \in Seq(Byte) /\ Len(c.secret) = SecretBytes
      /\ c.words \in [Words -> Word]
  BY FieldIsSeq, Sizes DEF Config
<1> DEFINE s1 == c.mac \o c.secret
           words == c.words
<1>2. /\ s1 \in Seq(Byte) /\ Len(s1) = IpAt
      /\ \A j \in 1 .. MacBytes : s1[j] = c.mac[j]
      /\ \A j \in 1 .. SecretBytes : s1[MacBytes + j] = c.secret[j]
  BY <1>1, Appended, Offsets, Sizes
<1>3. Flat(c) = s1 \o words.ip \o words.netmask \o words.gateway
                  \o words.dns1 \o words.dns2
  BY DEF Flat
<1>4. words \in [Words -> Word]
  BY <1>1
<1> HIDE DEF s1, words
<1>5. /\ Flat(c) \in [1 .. Size -> Byte]
      /\ \A j \in 1 .. IpAt : Flat(c)[j] = s1[j]
      /\ Holds(Flat(c), words)
  <2> DEFINE s == s1 \o words.ip \o words.netmask \o words.gateway
                    \o words.dns1 \o words.dns2
  <2>1. /\ s \in [1 .. Size -> Byte]
        /\ \A j \in 1 .. IpAt : s[j] = s1[j]
        /\ Holds(s, words)
    BY <1>2, <1>4, FiveWords, Zenon
  <2>2. QED
    BY <1>3, <2>1, Zenon
<1>6. /\ \A j \in 1 .. MacBytes : Flat(c)[j] = c.mac[j]
      /\ \A j \in 1 .. SecretBytes : Flat(c)[MacBytes + j] = c.secret[j]
  <2>1. MacBytes \in Nat /\ SecretBytes \in Nat /\ IpAt = MacBytes + SecretBytes
    BY Offsets, Sizes
  <2>2. QED
    BY <1>2, <1>5, <2>1
<1>7. QED
  BY <1>5, <1>6 DEF Image, words

-----------------------------------------------------------------------------
(***************************************************************************)
(* The invariant holds after every step, a reset in the middle of a save   *)
(* among them.                                                             *)
(***************************************************************************)

\* What is loaded from an EEPROM at a reset.
LEMMA Reset ==
  ASSUME NEW bytes \in Image, eeprom' = bytes, before' = bytes,
         config' = LoadedConfig(bytes), app' = AppOf(bytes), asked' = app',
         written' = -1, factory' \in Image, KeepsIdentity(bytes)'
  PROVE  Inv'
<1>1. TypeInv'
  BY Sizes, Loaded, Booted DEF TypeInv
<1>2. SaveInv'
  <2>1. \A b \in 1 .. Size : eeprom'[b] = IF b <= written' THEN Flat(config')[b]
                                                           ELSE before'[b]
    BY Sizes
  <2>2. config'.secret = loadEEPROM(before').secret
    BY Loaded
  <2>3. ~ (written' >= 0)
    OBVIOUS
  <2>4. config'.mac = LoadedConfig(before').mac
    OBVIOUS
  <2>5. QED
    BY <2>1, <2>2, <2>3, <2>4 DEF SaveInv
<1>3. IdentityInv'
  <2>1. app'.mac = config'.mac
    BY Booted
  <2>2. KeepsIdentity(before)'
    BY DEF KeepsIdentity
  <2>3. QED
    BY <2>1, <2>2 DEF IdentityInv
<1>4. QED
  BY <1>1, <1>2, <1>3 DEF Inv

LEMMA InitInv ==
  ASSUME ConfigInit
  PROVE  Inv
<1>1. /\ eeprom \in Image /\ before = eeprom /\ factory = eeprom
      /\ config = LoadedConfig(eeprom) /\ app = AppOf(eeprom) /\ asked = app
      /\ written = -1
  BY ConfigAssumption DEF ConfigInit, Image
<1>2. TypeInv
  BY <1>1, Sizes, Loaded, Booted DEF TypeInv
<1>3. SaveInv
  <2>1. \A b \in 1 .. Size : eeprom[b] = IF b <= written THEN Flat(config)[b]
                                                         ELSE before[b]
    BY <1>1, Sizes
  <2>2. config.secret = loadEEPROM(before).secret
    BY <1>1, Loaded
  <2>3. ~ (written >= 0) /\ config.mac = LoadedConfig(before).mac
    BY <1>1
  <2>4. QED
    BY <2>1, <2>2, <2>3 DEF SaveInv
<1>4. IdentityInv
  <2>1. app.mac = config.mac
    BY <1>1, Booted
  <2>2. KeepsIdentity(before)
    BY <1>1, Sizes DEF KeepsIdentity
  <2>3. QED
    BY <2>1, <2>2 DEF IdentityInv
<1>5. QED
  BY <1>2, <1>3, <1>4 DEF Inv

\* The EEPROM keeps the identity at every byte of a save: the secret is written
\* over itself, and so is the address unless it was erased.
LEMMA EepromKeeps ==
  ASSUME Inv
  PROVE  KeepsIdentity(eeprom)
<1>1. /\ eeprom \in Image /\ before \in Image /\ factory \in Image
      /\ config \in Config /\ written \in -1 .. Size
      /\ FallbackMac[1] # Erased
  BY ConfigAssumption DEF Inv, TypeInv
<1>2. \A b \in 1 .. Size :
        eeprom[b] = IF b <= written THEN Flat(config)[b] ELSE before[b]
  BY DEF Inv, SaveInv
<1>3. loadEEPROM(eeprom).secret = loadEEPROM(before).secret
  <2> DEFINE e == loadEEPROM(eeprom).secret
             f == loadEEPROM(before).secret
  <2>1. \A j \in 1 .. SecretBytes : MacBytes + j \in 1 .. Size
    BY Sizes
  <2>2. \A j \in 1 .. SecretBytes : Flat(config)[MacBytes + j] = f[j]
    BY <1>1, FlatAt DEF Inv, SaveInv
  <2>3. \A j \in 1 .. SecretBytes :
          e[j] = eeprom[MacBytes + j] /\ f[j] = before[MacBytes + j]
    BY <1>1, LoadedSecret
  <2>4. e \in [1 .. SecretBytes -> Byte] /\ f \in [1 .. SecretBytes -> Byte]
    BY <1>1, LoadedSecret
  <2> HIDE DEF e, f
  <2>5. \A j \in 1 .. SecretBytes : e[j] = f[j]
    BY <1>2, <2>1, <2>2, <2>3
  <2>6. e = f
    BY <2>4, <2>5, SameFunction
  <2>7. QED
    BY <2>6 DEF e, f
<1>4. PICK k \in 0 .. MacBytes :
        /\ k = 0 \/ factory[1] = Erased
        /\ \A b \in 1 .. MacBytes :
             before[b] = IF b <= k THEN FallbackMac[b] ELSE factory[b]
  BY DEF Inv, IdentityInv, KeepsIdentity
<1>5. \A b \in 1 .. MacBytes :
        eeprom[b] = IF b <= written
                      THEN IF before[1] = Erased THEN FallbackMac[b]
                                                 ELSE before[b]
                      ELSE before[b]
  <2>1. \A b \in 1 .. MacBytes : b \in 1 .. Size
    BY Sizes
  <2>2. \A b \in 1 .. MacBytes :
          Flat(config)[b] = IF before[1] = Erased THEN FallbackMac[b]
                                                  ELSE before[b]
    <3>1. config.mac = IF before[1] = Erased THEN FallbackMac
                                             ELSE loadEEPROM(before).mac
      BY <1>1, Loaded DEF Inv, SaveInv
    <3>2. \A b \in 1 .. MacBytes : Flat(config)[b] = config.mac[b]
      BY <1>1, FlatAt
    <3>3. \A b \in 1 .. MacBytes : loadEEPROM(before).mac[b] = before[b]
      BY <1>1, LoadedMac
    <3>4. QED
      BY <3>1, <3>2, <3>3
  <2>3. QED
    BY <1>2, <2>1, <2>2
<1>6. \E l \in 0 .. MacBytes :
        /\ l = 0 \/ factory[1] = Erased
        /\ \A b \in 1 .. MacBytes :
             eeprom[b] = IF b <= l THEN FallbackMac[b] ELSE factory[b]
  <2>1. CASE before[1] # Erased
    BY <1>4, <1>5, <2>1
  <2>2. CASE before[1] = Erased
    <3>1. k = 0 /\ factory[1] = Erased
      BY <1>1, <1>4, <2>2, Sizes
    <3>2. \A b \in 1 .. MacBytes :
            eeprom[b] = IF b <= written THEN FallbackMac[b] ELSE factory[b]
      BY <1>4, <1>5, <2>2, <3>1
    <3> DEFINE l == IF written < 0 THEN 0
                    ELSE IF written > MacBytes THEN MacBytes ELSE written
    <3>3. /\ l \in 0 .. MacBytes
          /\ \A b \in 1 .. MacBytes : b <= l <=> b <= written
      BY <1>1, Sizes
    <3> HIDE DEF l
    <3>4. QED
      BY <3>1, <3>2, <3>3
  <2>3. QED
    BY <2>1, <2>2
<1>7. loadEEPROM(eeprom).secret = loadEEPROM(factory).secret
  BY <1>3 DEF Inv, IdentityInv, KeepsIdentity
<1>8. QED
  BY <1>6, <1>7 DEF KeepsIdentity

LEMMA RestartInv ==
  ASSUME Inv, Restart
  PROVE  Inv'
<1>1. KeepsIdentity(eeprom)'
  BY EepromKeeps DEF Restart, KeepsIdentity
<1>2. eeprom \in Image /\ factory' \in Image
  BY DEF Inv, TypeInv, Restart
<1>3. QED
  BY <1>1, <1>2, Reset DEF Restart

\* A message or a lease changes the settings in use, not what is stored.
LEMMA SettingsInv ==
  ASSUME Inv, UNCHANGED <<eeprom, config, written, historyVars>>,
         app' \in App, app'.mac = app.mac
  PROVE  Inv'
BY DEF Inv, TypeInv, SaveInv, IdentityInv, KeepsIdentity, historyVars

LEMMA AppChanged ==
  ASSUME app \in App, NEW words \in [Words -> Word], NEW d \in BOOLEAN
  PROVE  /\ [app EXCEPT !.dhcp = d, !.words = words] \in App
         /\ [app EXCEPT !.dhcp = d] \in App
         /\ [app EXCEPT !.words = words] \in App
         /\ [app EXCEPT !.dhcp = d, !.words = words].mac = app.mac
         /\ [app EXCEPT !.dhcp = d].mac = app.mac
         /\ [app EXCEPT !.words = words].mac = app.mac
BY DEF App

LEMMA SaveStarts ==
  ASSUME Inv, saveIp
  PROVE  Inv'
<1>1. eeprom = before
  <2>1. /\ eeprom \in [1 .. Size -> Byte] /\ before \in [1 .. Size -> Byte]
        /\ written = -1
    BY DEF Inv, TypeInv, Image, saveIp
  <2>2. \A b \in 1 .. Size : eeprom[b] = before[b]
    BY <2>1, Sizes DEF Inv, SaveInv
  <2>3. QED
    BY <2>1, <2>2, SameFunction
<1>2. /\ config' = [config EXCEPT !.words = WordsToSave]
      /\ config \in Config /\ app \in App
  BY DEF Inv, TypeInv, saveIp
<1>3. WordsToSave \in [Words -> Word]
  <2>1. ErasedWord \in Word
    BY ConfigAssumption DEF ErasedWord, Word
  <2>2. QED
    BY <1>2, <2>1 DEF WordsToSave, App
<1>4. /\ config' \in Config /\ config'.mac = config.mac
      /\ config'.secret = config.secret /\ config'.words = WordsToSave
  BY <1>2, <1>3 DEF Config
<1>5. /\ eeprom' = eeprom /\ before' = before /\ factory' = factory
      /\ app' = app /\ asked' = app /\ written' = 0
  BY <1>1 DEF saveIp
<1>6. TypeInv'
  BY <1>4, <1>5, Sizes DEF Inv, TypeInv
<1>7. SaveInv'
  <2>1. \A b \in 1 .. Size : eeprom'[b] = IF b <= written' THEN Flat(config')[b]
                                                           ELSE before'[b]
    BY <1>1, <1>5, Sizes
  <2>2. /\ config'.mac = LoadedConfig(before').mac
        /\ config'.secret = loadEEPROM(before').secret
    BY <1>4, <1>5 DEF Inv, SaveInv
  <2>3. config'.words = IF asked'.dhcp THEN [w \in Words |-> ErasedWord]
                                       ELSE asked'.words
    BY <1>4, <1>5 DEF WordsToSave
  <2>4. QED
    BY <2>1, <2>2, <2>3 DEF SaveInv
<1>8. IdentityInv'
  BY <1>4, <1>5 DEF Inv, IdentityInv, KeepsIdentity
<1>9. QED
  BY <1>6, <1>7, <1>8 DEF Inv

LEMMA WriteByteInv ==
  ASSUME Inv, WriteByte
  PROVE  Inv'
<1>1. /\ written \in 0 .. Size - 1 /\ written' = written + 1
      /\ eeprom' = [eeprom EXCEPT ![written + 1] = Flat(config)[written + 1]]
      /\ UNCHANGED <<config, app, factory, before, asked>>
  BY DEF WriteByte, historyVars
<1>2. eeprom \in Image /\ config \in Config /\ Flat(config) \in Image
  BY FlatAt DEF Inv, TypeInv
<1>3. TypeInv'
  BY <1>1, <1>2, Sizes DEF Inv, TypeInv, Image
<1>4. \A b \in 1 .. Size :
        eeprom'[b] = IF b <= written' THEN Flat(config)[b] ELSE before[b]
  <2>1. \A b \in 1 .. Size :
          eeprom[b] = IF b <= written THEN Flat(config)[b] ELSE before[b]
    BY DEF Inv, SaveInv
  <2>2. \A b \in 1 .. Size :
          eeprom'[b] = IF b = written + 1 THEN Flat(config)[b] ELSE eeprom[b]
    BY <1>1, <1>2 DEF Image
  <2>3. QED
    BY <1>1, <2>1, <2>2, Sizes
<1>5. Flat(config)' = Flat(config)
  BY <1>1 DEF Flat
<1>6. SaveInv'
  BY <1>1, <1>4, <1>5 DEF Inv, SaveInv
<1>7. IdentityInv'
  BY <1>1 DEF Inv, IdentityInv, KeepsIdentity
<1>8. QED
  BY <1>3, <1>6, <1>7 DEF Inv

LEMMA StepInv ==
  ASSUME Inv, [ConfigNext]_configVars
  PROVE  Inv'
<1>1. app \in App /\ Settings \subseteq [Words -> Word]
  BY ConfigAssumption DEF Inv, TypeInv
<1>2. ASSUME NEW words \in Settings, setIpStatic(words)
      PROVE  Inv'
  <2>1. app' \in App /\ app'.mac = app.mac
    BY <1>1, <1>2, AppChanged DEF setIpStatic
  <2>2. QED
    BY <1>2, <2>1, SettingsInv DEF setIpStatic
<1>3. ASSUME NEW words \in Settings, Lease(words)
      PROVE  Inv'
  <2>1. app' \in App /\ app'.mac = app.mac
    BY <1>1, <1>3, AppChanged DEF Lease
  <2>2. QED
    BY <1>3, <2>1, SettingsInv DEF Lease
<1>4. CASE setIpDhcp
  <2>1. app' \in App /\ app'.mac = app.mac
    BY <1>1, <1>4 DEF setIpDhcp, App
  <2>2. QED
    BY <1>4, <2>1, SettingsInv DEF setIpDhcp
<1>5. CASE saveIp
  BY <1>5, SaveStarts
<1>6. CASE WriteByte
  BY <1>6, WriteByteInv
<1>7. CASE SaveEnds \/ Restart
  BY <1>7, RestartInv DEF SaveEnds
<1>8. CASE UNCHANGED configVars
  BY <1>1, <1>8, SettingsInv DEF configVars
<1>9. QED
  BY <1>2, <1>3, <1>4, <1>5, <1>6, <1>7, <1>8 DEF ConfigNext

LEMMA StoreSafe == ConfigSpec => []Inv
<1>1. ConfigInit => Inv
  BY InitInv
<1>2. Inv /\ [ConfigNext]_configVars => Inv'
  BY StepInv
<1>3. QED
  BY <1>1, <1>2, PTL DEF ConfigSpec

-----------------------------------------------------------------------------
(***************************************************************************)
(* What the invariant says of a device that restarts.                      *)
(***************************************************************************)
LEMMA BootsAs ==
  ASSUME NEW bytes \in Image
  PROVE  /\ UsesDhcp(WordAt(bytes, 0)) => Boots(bytes) = DhcpBoots
         /\ ~ UsesDhcp(WordAt(bytes, 0))
              => Boots(bytes) = [dhcp |-> FALSE,
                                 words |-> loadEEPROM(bytes).words]
<1>1. /\ AppOf(bytes).dhcp = UsesDhcp(WordAt(bytes, 0))
      /\ AppOf(bytes).words = IF UsesDhcp(WordAt(bytes, 0))
                                THEN Default ELSE loadEEPROM(bytes).words
      /\ UsesDhcp(WordAt(bytes, 0)) \in BOOLEAN
  BY Booted DEF UsesDhcp
<1>2. CASE UsesDhcp(WordAt(bytes, 0))
  <2>1. AppOf(bytes).dhcp = TRUE /\ AppOf(bytes).words = Default
    BY <1>1, <1>2
  <2>2. QED
    BY <1>2, <2>1 DEF Boots, DhcpBoots
<1>3. CASE ~ UsesDhcp(WordAt(bytes, 0))
  <2>1. /\ AppOf(bytes).dhcp = FALSE
        /\ AppOf(bytes).words = loadEEPROM(bytes).words
    BY <1>1, <1>3
  <2>2. QED
    BY <1>3, <2>1 DEF Boots
<1>4. QED
  BY <1>2, <1>3

\* One erased byte of the address is enough.
LEMMA ErasedUsesDhcp ==
  ASSUME NEW bytes \in Image, NEW j \in 1 .. WordBytes,
         bytes[IpAt + j] = Erased
  PROVE  UsesDhcp(WordAt(bytes, 0))
<1>1. WordAt(bytes, 0)[j] = bytes[IpAt + j]
  BY LoadedWords DEF Holds
<1>2. QED
  BY <1>1 DEF UsesDhcp

\* The bytes stay bytes, and the loop of saveEEPROM stays within the EEPROM.
THEOREM ConfigTypes == ConfigSpec => []ConfigTypeOK
<1>1. Inv => ConfigTypeOK
  BY DEF Inv, TypeInv, ConfigTypeOK, Image, App, Mac
<1>2. QED
  BY <1>1, StoreSafe, PTL

\* A save that has come to its end boots with what was in use when it began,
\* or as DHCP.
THEOREM BootsWhatWasSaved == ConfigSpec => []SavedBootsBack
<1>1. ASSUME Inv, written = Size
      PROVE  Boots(eeprom) = IF asked.dhcp \/ UsesDhcp(asked.words.ip)
                               THEN DhcpBoots
                               ELSE [dhcp |-> FALSE, words |-> asked.words]
  <2>1. /\ eeprom \in Image /\ config \in Config
        /\ config.words \in [Words -> Word]
    BY <1>1 DEF Inv, TypeInv, Config
  <2>2. config.words = IF asked.dhcp THEN [w \in Words |-> ErasedWord]
                                     ELSE asked.words
    BY <1>1, Sizes DEF Inv, SaveInv
  <2>3. Holds(eeprom, config.words)
    <3>1. \A b \in 1 .. Size : eeprom[b] = Flat(config)[b]
      BY <1>1, Sizes DEF Inv, SaveInv
    <3>2. \A j \in 1 .. WordBytes :
            /\ IpAt + j \in 1 .. Size /\ NetmaskAt + j \in 1 .. Size
            /\ GatewayAt + j \in 1 .. Size /\ Dns1At + j \in 1 .. Size
            /\ Dns2At + j \in 1 .. Size
      BY Offsets, Sizes
    <3>3. Holds(Flat(config), config.words)
      BY <2>1, FlatAt
    <3>4. QED
      BY <3>1, <3>2, <3>3 DEF Holds
  <2>4. loadEEPROM(eeprom).words = config.words
    <3> DEFINE v == loadEEPROM(eeprom).words
               w == config.words
    <3>1. Holds(eeprom, v) /\ Holds(eeprom, w)
      BY <2>1, <2>3, LoadedWords
    <3>2. v \in [Words -> Word] /\ w \in [Words -> Word]
      BY <2>1, LoadedWords
    <3> HIDE DEF v, w
    <3>3. v = w
      BY <3>1, <3>2, SameSettings DEF Holds
    <3>4. QED
      BY <3>3 DEF v, w
  <2>5. WordAt(eeprom, 0) = config.words.ip
    BY <2>1, <2>4, LoadedWords
  <2>6. CASE asked.dhcp
    <3>1. config.words.ip = ErasedWord
      BY <2>2, <2>6 DEF Words
    <3>2. UsesDhcp(config.words.ip)
      BY <3>1, Sizes DEF UsesDhcp, ErasedWord
    <3>3. QED
      BY <2>1, <2>5, <2>6, <3>2, BootsAs
  <2>7. CASE ~ asked.dhcp
    BY <2>1, <2>2, <2>4, <2>5, <2>7, BootsAs
  <2>8. QED
    BY <2>6, <2>7
<1>2. Inv => SavedBootsBack
  BY <1>1 DEF SavedBootsBack
<1>3. QED
  BY <1>2, StoreSafe, PTL

\* A power failure after any byte of a save of DHCP leaves the settings from
\* before or DHCP: the first byte of the address decides.
THEOREM DhcpSavesAtomically == ConfigSpec => []DhcpSaveIsAtomic
<1>1. ASSUME Inv, written >= 0, asked.dhcp
      PROVE  Boots(eeprom) \in {Boots(before), DhcpBoots}
  <2>1. /\ eeprom \in Image /\ before \in Image /\ config \in Config
        /\ written \in -1 .. Size
    BY <1>1 DEF Inv, TypeInv
  <2>2. \A b \in 1 .. Size :
          eeprom[b] = IF b <= written THEN Flat(config)[b] ELSE before[b]
    BY <1>1 DEF Inv, SaveInv
  <2>3. 1 \in 1 .. WordBytes /\ IpAt \in Nat /\ IpAt + 1 \in 1 .. Size
    BY Offsets, Sizes
  <2>4. CASE written > IpAt
    <3>1. config.words.ip = ErasedWord
      BY <1>1 DEF Inv, SaveInv, Words
    <3>2. Flat(config)[IpAt + 1] = Erased
      <4>1. Holds(Flat(config), config.words)
        BY <2>1, FlatAt
      <4>2. Flat(config)[IpAt + 1] = config.words.ip[1]
        BY <2>3, <4>1 DEF Holds
      <4>3. ErasedWord[1] = Erased
        BY <2>3 DEF ErasedWord
      <4>4. QED
        BY <3>1, <4>2, <4>3
    <3>3. eeprom[IpAt + 1] = Erased
      BY <2>1, <2>2, <2>3, <2>4, <3>2
    <3>4. QED
      BY <2>1, <2>3, <3>3, ErasedUsesDhcp, BootsAs
  <2>5. CASE written <= IpAt
    <3>1. \A b \in (IpAt + 1) .. Size : eeprom[b] = before[b]
      BY <2>1, <2>2, <2>3, <2>5, Sizes
    <3>2. loadEEPROM(eeprom).words = loadEEPROM(before).words
      BY <2>1, <3>1, SameWords
    <3>3. WordAt(eeprom, 0) = WordAt(before, 0)
      BY <2>1, <3>2, LoadedWords
    <3>4. Boots(eeprom) = Boots(before)
      BY <2>1, <3>2, <3>3, BootsAs
    <3>5. QED
      BY <3>4
  <2>6. QED
    BY <2>1, <2>3, <2>4, <2>5
<1>2. Inv => DhcpSaveIsAtomic
  BY <1>1 DEF DhcpSaveIsAtomic
<1>3. QED
  BY <1>2, StoreSafe, PTL

\* A power failure during the first save of an address leaves DHCP or the whole
\* address: until its last byte is written, that byte is erased.
THEOREM NeverHalfAnAddress == ConfigSpec => []NoHalfAddress
<1>1. ASSUME Inv, written >= 0, ~ asked.dhcp, WordAt(before, 0) = ErasedWord
      PROVE  AppOf(eeprom).dhcp \/ AppOf(eeprom).words.ip = asked.words.ip
  <2>1. /\ eeprom \in Image /\ before \in Image /\ config \in Config
        /\ written \in -1 .. Size
    BY <1>1 DEF Inv, TypeInv
  <2>2. \A b \in 1 .. Size :
          eeprom[b] = IF b <= written THEN Flat(config)[b] ELSE before[b]
    BY <1>1 DEF Inv, SaveInv
  <2>3. /\ WordBytes \in 1 .. WordBytes /\ IpAt \in Nat
        /\ \A j \in 1 .. WordBytes : IpAt + j \in 1 .. Size
    BY Offsets, Sizes
  <2>4. CASE written < IpAt + WordBytes
    <3>1. before[IpAt + WordBytes] = Erased
      BY <1>1, <2>1, <2>3, LoadedWords DEF Holds, ErasedWord
    <3>2. eeprom[IpAt + WordBytes] = Erased
      BY <2>1, <2>2, <2>3, <2>4, <3>1
    <3>3. UsesDhcp(WordAt(eeprom, 0))
      BY <2>1, <2>3, <3>2, ErasedUsesDhcp
    <3>4. QED
      BY <2>1, <3>3, Booted
  <2>5. CASE written >= IpAt + WordBytes
    <3> DEFINE v == WordAt(eeprom, 0)
               w == asked.words.ip
    <3>1. config.words = asked.words
      BY <1>1 DEF Inv, SaveInv
    <3>2. v \in Word /\ w \in Word
      BY <1>1, <2>1, LoadedWords DEF Inv, TypeInv, App, Words
    <3>3. \A j \in 1 .. WordBytes : v[j] = eeprom[IpAt + j]
      BY <2>1, LoadedWords DEF Holds
    <3>4. \A j \in 1 .. WordBytes : Flat(config)[IpAt + j] = w[j]
      BY <2>1, <3>1, FlatAt DEF Holds
    <3>5. \A j \in 1 .. WordBytes : eeprom[IpAt + j] = w[j]
      BY <2>1, <2>2, <2>3, <2>5, <3>4, Sizes
    <3> HIDE DEF v, w
    <3>6. v = w
      BY <3>2, <3>3, <3>5, SameWord
    <3>7. AppOf(eeprom).dhcp \/ AppOf(eeprom).words.ip = v
      BY <2>1, Booted, LoadedWords DEF v
    <3>8. QED
      BY <3>6, <3>7 DEF w
  <2>6. QED
    BY <2>1, <2>3, <2>4, <2>5, Sizes
<1>2. Inv => NoHalfAddress
  BY <1>1 DEF NoHalfAddress
<1>3. QED
  BY <1>2, StoreSafe, PTL

\* The address and the secret of the factory survive every save and every
\* failure; an erased address is replaced by the fallback, byte by byte.
THEOREM IdentitySurvives == ConfigSpec => []IdentityKept
<1>1. ASSUME Inv
      PROVE  IdentityKept
  <2>1. loadEEPROM(eeprom).secret = loadEEPROM(factory).secret
    BY <1>1, EepromKeeps DEF KeepsIdentity
  <2>2. PICK k \in 0 .. MacBytes :
          /\ k = 0 \/ factory[1] = Erased
          /\ \A b \in 1 .. MacBytes :
               before[b] = IF b <= k THEN FallbackMac[b] ELSE factory[b]
    BY <1>1 DEF Inv, IdentityInv, KeepsIdentity
  <2>3. /\ before \in Image /\ factory \in Image /\ app.mac \in Mac
        /\ FallbackMac[1] # Erased /\ 1 \in 1 .. MacBytes
    BY <1>1, ConfigAssumption, Sizes DEF Inv, TypeInv, App
  <2>4. \A b \in 1 .. MacBytes :
          app.mac[b] = IF before[1] = Erased THEN FallbackMac[b] ELSE before[b]
    <3>1. app.mac = LoadedConfig(before).mac
      BY <1>1 DEF Inv, IdentityInv, SaveInv
    <3>2. QED
      BY <2>3, <3>1, Loaded, LoadedMac
  <2>5. CASE factory[1] # Erased
    <3> DEFINE v == app.mac
               w == loadEEPROM(factory).mac
    <3>1. \A b \in 1 .. MacBytes : v[b] = factory[b]
      BY <2>2, <2>3, <2>4, <2>5
    <3>2. /\ \A b \in 1 .. MacBytes : w[b] = factory[b]
          /\ v \in Mac /\ w \in Mac
      BY <2>3, LoadedMac
    <3> HIDE DEF v, w
    <3>3. \A b \in 1 .. MacBytes : v[b] = w[b]
      BY <3>1, <3>2
    <3>4. v = w
      BY <3>2, <3>3, SameMac
    <3>5. QED
      BY <2>1, <2>5, <3>4 DEF IdentityKept, v, w
  <2>6. CASE factory[1] = Erased
    <3>1. \E l \in 1 .. MacBytes : \A b \in 1 .. MacBytes :
            app.mac[b] = IF b <= l THEN FallbackMac[b] ELSE factory[b]
      <4>1. CASE before[1] = Erased
        BY <2>4, <4>1, Sizes
      <4>2. CASE before[1] # Erased
        BY <2>2, <2>3, <2>4, <2>6, <4>2
      <4>3. QED
        BY <4>1, <4>2
    <3>2. QED
      BY <2>1, <2>6, <3>1 DEF IdentityKept
  <2>7. QED
    BY <2>5, <2>6
<1>2. QED
  BY <1>1, StoreSafe, PTL
=============================================================================
