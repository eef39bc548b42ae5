---------------------------- MODULE LiveMessage ----------------------------
(***************************************************************************)
(* The message format, firmware/livemessage.c and message.c: a message is  *)
(* a name and a hash of fields, written into one buffer and taken out of   *)
(* it again by functions that share the place they read at.  A string is   *)
(* its length in hex, ':' and its characters; a number is 'i', its digits  *)
(* and 's'; a hash is 'h', keys and values in turn, and 's'.  The device   *)
(* writes the messages it reports, and takes those of a client, which      *)
(* writes them in the same way.                                            *)
(***************************************************************************)
EXTENDS Integers, Sequences, SequencesExt

CONSTANTS
  Chars,       (* the characters                                           *)
  HexDigits,   (* the digits of a byte's half: "0" to "F"                  *)
  LowerDigits, (* what is read as well: "0" to "f"                         *)
  BufferSize,  (* sizeof(buffer), 200                                      *)
  KeySize,     (* the buffer of LMFindHashString for a key, 12             *)
  TakeSize,    (* the buffer a string is taken into, 20                    *)
  LongDigits,  (* the digits of an unsigned long, 8                        *)
  ZeroChar,    (* the character code of "0", 48                            *)
  Names, Keys, (* of messages and of fields                                *)
  Values,      (* of fields: of kind "int", "string" or "bytes"            *)
  MaxFields    (* bound: the fields of a message                           *)

Radix == Len(HexDigits)

\* What the digits of an unsigned long count, from the last one on.
place[n \in 0 .. LongDigits] == IF n = 0 THEN 1 ELSE Radix * place[n - 1]

ASSUME MessageAssumption ==
  /\ HexDigits \in Seq(Chars)
  /\ HexDigits # <<>> /\ HexDigits[1] = "0"
  /\ \A m, n \in DOMAIN HexDigits : HexDigits[m] = HexDigits[n] => m = n
  /\ LowerDigits \in Seq(Chars) /\ Len(LowerDigits) = Len(HexDigits)
  /\ \A m, n \in DOMAIN HexDigits :
       LowerDigits[m] \in {HexDigits[n], LowerDigits[n]} => m = n
  /\ {"h", "i", "s", ":"} \subseteq Chars \ (ToSet(HexDigits) \cup ToSet(LowerDigits))
  /\ {BufferSize, KeySize, TakeSize, LongDigits, MaxFields} \subseteq Nat \ {0}

\* A length has two digits at most, and a number fits an unsigned long; the
\* bytes of a sensor may be more than an unsigned long has.
ASSUME ValuesAssumption ==
  /\ \A s \in Names \cup Keys : s \in Seq(Chars) /\ Len(s) < Radix * Radix
  /\ \A value \in Values :
       \/ value.kind = "int" /\ value.value \in 0 .. place[LongDigits] - 1
       \/ /\ value.kind = "string"
          /\ value.value \in Seq(Chars) /\ Len(value.value) < Radix * Radix
       \/ /\ value.kind = "bytes"
          /\ value.value \in Seq(0 .. Radix * Radix - 1) /\ value.value # <<>>

VARIABLES
  text,        (* the characters of buffer before its first '\0'           *)
  bufferP,     (* where the next character is taken                        *)
  hashStartP,  (* where the fields of the hash begin                       *)
  message,     (* history: where the caller is, the name and the fields    *)
  answer       (* history: the last call that looked for a key or took a   *)
               (* value, and what it gave                                  *)

messageVars == <<text, bufferP, hashStartP, message, answer>>

None == [call |-> "none"]

-----------------------------------------------------------------------------
\* Writing: what each function appends.
btohexa_low(n) == HexDigits[(n % Radix) + 1]
btohexa_high(n) == HexDigits[((n \div Radix) % Radix) + 1]

LMAppendString(string) ==
  LET hb == btohexa_high(Len(string))
      lb == btohexa_low(Len(string))
  IN  (IF hb = "0" THEN <<>> ELSE <<hb>>) \o <<lb, ":">> \o string

\* The digits without the zeros before them.
LMAppendInt(value) ==
  LET hex == [n \in 1 .. LongDigits |-> btohexa_low(value \div place[LongDigits - n])]
      first == Min({n \in 1 .. LongDigits : hex[n] # "0"})
  IN  <<"i">> \o (IF value = 0 THEN <<"0">> ELSE SubSeq(hex, first, LongDigits))
        \o <<"s">>

\* Leading bytes are skipped if they are the character "0".
LMAppendHashHexString(bytes) ==
  LET others == {n \in DOMAIN bytes : bytes[n] # ZeroChar}
      kept == IF others = {} THEN <<>> ELSE SubSeq(bytes, Min(others), Len(bytes))
  IN  <<"i">>
        \o [n \in 1 .. 2 * Len(kept) |->
             IF n % 2 = 1 THEN btohexa_high(kept[(n + 1) \div 2])
                          ELSE btohexa_low(kept[n \div 2])]
        \o <<"s">>

AppendedValue(value) ==
  CASE value.kind = "int" -> LMAppendInt(value.value)
    [] value.kind = "string" -> LMAppendString(value.value)
    [] value.kind = "bytes" -> LMAppendHashHexString(value.value)

FieldText(key, value) == LMAppendString(key) \o AppendedValue(value)

\* A message that fills its buffer is not followed.
ASSUME BufferAssumption ==
  \E most \in 0 .. BufferSize :
    /\ \A key \in Keys, value \in Values : Len(FieldText(key, value)) <= most
    /\ \A name \in Names :
         Len(LMAppendString(name)) + 2 + MaxFields * most < BufferSize

-----------------------------------------------------------------------------
\* Taking: what each function gives, and where it leaves bufferP.
At(p) == IF p < Len(text) THEN text[p + 1] ELSE ""

hexToByte(char) ==
  IF char \in ToSet(HexDigits) \cup ToSet(LowerDigits)
    THEN (CHOOSE n \in DOMAIN HexDigits : char \in {HexDigits[n], LowerDigits[n]}) - 1
    ELSE 0

\* The characters from p up to the first one that is stop.
UpTo(p, stop) ==
  LET stops == {q \in p .. Len(text) - 1 : text[q + 1] = stop}
  IN  SubSeq(text, p + 1, IF stops = {} THEN Len(text) ELSE Min(stops))

HexNumber(chars, limit) ==
  LET number[n \in 0 .. Len(chars)] ==
        IF n = 0 THEN 0 ELSE (number[n - 1] * Radix + hexToByte(chars[n])) % limit
  IN  number[Len(chars)]

LMNextIsInt(p) == At(p) = "i"

LMTakeInt(p) ==
  LET chars == UpTo(p + 1, "s")
  IN  IF LMNextIsInt(p)
        THEN [value |-> HexNumber(chars, place[LongDigits]),
              next |-> p + 1 + Len(chars) + 1]
        ELSE [value |-> 0, next |-> p]

\* A string that does not fit with its '\0' is passed over and refused.
LMTakeString(p, count) ==
  LET chars == UpTo(p, ":")
      length == HexNumber(chars, Radix * Radix)
      start == p + Len(chars) + 1
  IN  [ok |-> length <= count - 1,
       value |-> IF length <= count - 1
                   THEN SubSeq(text, start + 1, start + length) ELSE <<>>,
       next |-> start + length]

\* Mutant of PastValue: a string is left to be read as the next key.
PastNumbersOnly(p) == LMTakeInt(p).next

PastValue(p) ==
  IF LMNextIsInt(p) THEN LMTakeInt(p).next ELSE LMTakeString(p, 0).next

\* From the first field on, over the values of other keys.
LMFindHashString(key) ==
  LET find[p \in 0 .. BufferSize] ==
        LET k == LMTakeString(p, KeySize)
            past == PastValue(k.next)
        IN  IF ~ k.ok THEN [found |-> FALSE, next |-> k.next]
            ELSE IF k.value = key THEN [found |-> TRUE, next |-> k.next]
            ELSE IF At(past) = "s" \/ past >= BufferSize
                   THEN [found |-> FALSE, next |-> past]
            ELSE find[past]
  IN  find[hashStartP]

-----------------------------------------------------------------------------
MessageInit ==
  /\ text = <<>>
  /\ bufferP = 0
  /\ hashStartP = 0
  /\ message = [at |-> "cleared", name |-> <<>>, fields |-> <<>>]
  /\ answer = None

\* rfMessageBegin and rfMessageBeginRaw: LMClear, the name, LMStartHash.
rfMessageBegin(name) ==
  /\ message.at = "cleared"
  /\ text' = LMAppendString(name) \o <<"h">>
  /\ bufferP' = 0
  /\ message' = [at |-> "fields", name |-> name, fields |-> <<>>]
  /\ UNCHANGED <<hashStartP, answer>>

\* rfMessageAddLong, rfMessageAddString and rfMessageAddHexString.
rfMessageAdd(key, value) ==
  /\ message.at = "fields"
  /\ Len(message.fields) < MaxFields
  /\ text' = text \o FieldText(key, value)
  /\ message' = [message EXCEPT !.fields =
                   Append(@, [key |-> key, value |-> value])]
  /\ UNCHANGED <<bufferP, hashStartP, answer>>

rfMessageEnd ==
  /\ message.at = "fields"
  /\ message.fields # <<>>
  /\ text' = Append(text, "s")
  /\ message' = [message EXCEPT !.at = "ended"]
  /\ UNCHANGED <<bufferP, hashStartP, answer>>

\* handleMessage takes the name.
TakeName ==
  /\ message.at = "ended"
  /\ LET name == LMTakeString(bufferP, TakeSize)
     IN  /\ bufferP' = name.next
         /\ answer' = [call |-> "name", ok |-> name.ok, value |-> name.value]
         /\ message' = [message EXCEPT !.at = IF name.ok THEN "named" ELSE "refused"]
  /\ UNCHANGED <<text, hashStartP>>

LMEnterHash ==
  /\ message.at = "named"
  /\ At(bufferP) = "h"
  /\ hashStartP' = bufferP + 1
  /\ message' = [message EXCEPT !.at = "entered"]
  /\ UNCHANGED <<text, bufferP, answer>>

\* Keys are looked for in any order, any number of times.
Find(key) ==
  /\ message.at = "entered"
  /\ LET find == LMFindHashString(key)
     IN  /\ bufferP' = find.next
         /\ answer' = [call |-> "find", key |-> key, ok |-> find.found]
  /\ UNCHANGED <<text, hashStartP, message>>

KeyFound == answer.call = "find" /\ answer.ok

TakeInt ==
  /\ KeyFound
  /\ LET taken == LMTakeInt(bufferP)
     IN  /\ bufferP' = taken.next
         /\ answer' = [call |-> "int", key |-> answer.key, value |-> taken.value]
  /\ UNCHANGED <<text, hashStartP, message>>

\* The callers take a string only where their client writes one.
TakeString ==
  /\ KeyFound
  /\ ~ LMNextIsInt(bufferP)
  /\ LET taken == LMTakeString(bufferP, TakeSize)
     IN  /\ bufferP' = taken.next
         /\ answer' = [call |-> "string", key |-> answer.key, ok |-> taken.ok,
                       value |-> taken.value]
  /\ UNCHANGED <<text, hashStartP, message>>

LMClear ==
  /\ message.at \in {"refused", "entered"}
  /\ text' = <<>>
  /\ bufferP' = 0
  /\ message' = [at |-> "cleared", name |-> <<>>, fields |-> <<>>]
  /\ answer' = None
  /\ UNCHANGED hashStartP

MessageNext ==
  \/ \E name \in Names : rfMessageBegin(name)
  \/ \E key \in Keys, value \in Values : rfMessageAdd(key, value)
  \/ rfMessageEnd \/ TakeName \/ LMEnterHash
  \/ \E key \in Keys : Find(key)
  \/ TakeInt \/ TakeString \/ LMClear

MessageSpec == MessageInit /\ [][MessageNext]_messageVars

-----------------------------------------------------------------------------
MessageTypeOK ==
  /\ Len(text) < BufferSize
  /\ bufferP \in 0 .. Len(text)
  /\ hashStartP < BufferSize
  /\ message.at \in {"cleared", "fields", "ended", "named", "entered", "refused"}
  /\ message.at = "entered" => hashStartP <= Len(text)

\* The first field with the key, or 0; a longer key than LMFindHashString has
\* room for ends the search.
FieldOf(key) ==
  LET fields == message.fields
      hits == {n \in DOMAIN fields :
                 /\ fields[n].key = key
                 /\ \A k \in 1 .. n : Len(fields[k].key) < KeySize}
  IN  IF hits = {} THEN 0 ELSE Min(hits)

BytesValue(bytes) ==
  LET value[n \in 0 .. Len(bytes)] ==
        IF n = 0 THEN 0 ELSE value[n - 1] * (Radix * Radix) + bytes[n]
  IN  value[Len(bytes)]

\* What an unsigned long has room for of a number: its last digits.
NumberOf(value) ==
  CASE value.kind = "int" -> value.value
    [] value.kind = "bytes" -> BytesValue(value.value) % place[LongDigits]
    [] value.kind = "string" -> 0

Taken(key) == message.fields[FieldOf(key)].value

\* Whatever order its fields are looked for in, and however often, a message is
\* taken back as it was written: a key is found exactly if it is there, over any
\* values before it, and gives the value of its first field; a string that does
\* not fit is refused and a number in the place of a string is 0
\* (livemessage.c:133-205).
TakenBack ==
  /\ answer.call = "name" =>
       /\ answer.ok = (Len(message.name) < TakeSize)
       /\ answer.ok => answer.value = message.name
  /\ answer.call = "find" => answer.ok = (FieldOf(answer.key) # 0)
  /\ answer.call = "int" =>
       LET value == Taken(answer.key)
       IN  (value.kind = "bytes" => value.value[1] # ZeroChar) =>
             answer.value = NumberOf(value)
  /\ answer.call = "string" =>
       LET string == Taken(answer.key).value
       IN  /\ answer.ok = (Len(string) < TakeSize)
           /\ answer.ok => answer.value = string

\* "Skip all prepending zeros" (livemessage.c:106): bytes that are skipped do not
\* change the number.
OnlyZerosSkipped ==
  answer.call = "int" => answer.value = NumberOf(Taken(answer.key))
=============================================================================
