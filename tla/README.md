# A verification of the TellStick Net firmware

The TellStick Net is a small network device with a 433 MHz radio. Its firmware
(PIC18, one main loop, two interrupt priorities) receives radio messages of
wireless sensors and switches and reports them over UDP, and sends radio
messages that it is asked for over UDP. This directory holds TLA+ models of it,
the TLC configurations that check them, and proofs that the TLA+ proof system
checks. Paths below are relative to the repository.

## 1. Inventory

`main.c` initialises the hardware and loops: TCP/IP stack, debug output,
`rfReceiveTask`, `discoveryTask`, `localAccessTask`, watchdog. No task is
pre-empted by another task. Three interrupts pre-empt all of them: timer 4
(`rfReceiveUpdate`) and timer 3 (`rfTransmitUpdate`) at high priority, and
timer 2 (`pwmUpdate`) at low priority. There are no locks; interrupts and the
main loop share plain variables.

| Component | State | Operations | What is hard about it | What makes it correct |
|---|---|---|---|---|
| Pulse transmitter, `rf/transmit.c` | `rfNextTime`, `rfCurrentTime`, `rfNewTime`, `rfNextIsZero`, the SENDER pin | `rfSend` (main loop), `rfTransmitUpdate` (interrupt) | a handshake on shared flags without a lock; deadlines; busy waits | every pulse on the air, in order, for its length; no wait hangs; quiet afterwards |
| Send session, `firmware/tellsticknet.c`, `rf.c`, `transmit_arctech.c` | antenna pins, timer registers, repeats and pauses | `send`, `sendArctechSelflearning`, `rfStartTransmit`, `rfStopTransmit` | order of register writes under interrupts; counts cut to a byte | the radio never hears itself; it always returns to listening |
| LEDs, `firmware/pwm.c` | `duty`, `dir`, `pulses` | `pwmUpdate`, `setTXPulses`, `setRXPulses` | set in the middle of a pulse, interrupt masked by `rfSend` | brightness moves by steps and ends dark |
| Sampling, `rf/receive.c` | `preFilterBuffer`, `buffer`, `data`, `dataP` | `rfReceiveUpdate` | byte counters that wrap; the ring | exactly the long runs pass; the ring keeps them in order |
| Receive task, `rf/receive.c` | `scanP`, `scanBit`, `count0`, `count1`, the two silence marks, `parsed` | `rfReceiveTask` | two-byte `dataP` read and written while the interrupt moves it; laps; wraps | scans what was stored; marks the burst; tells the decoders every run |
| Stream decoders, `rf/oregon.c`, `oregonv3.c`, `hasta.c` | static bit, byte and buffer counters | `streamOregon`, `streamOregonV3`, `streamHasta` | counters that survive a reset of the state machine; fixed buffers | a message only from a whole transmission; no index out of its buffer |
| Block decoders, `rf/arctech.c`, `everflourish.c`, `fineoffset.c`, `mandolyn.c`, `x10.c`, `pt2262.c` | none | `parse...`, `rfCountSimilar` | a burst is read backwards, bit orders differ, runs longer than a byte counts, all seven are tried on the same burst | report what the digits mean; hear what a TellStick Net keys |
| Message format, `firmware/livemessage.c`, `message.c` | one buffer of 200 bytes and two indexes | append and take ints, strings, hashes | one position that every function moves; a search over values of two kinds | what was written is taken back, in any order |
| Configuration, `firmware/eeprom.c`, `main.c`, `tellsticknet.c` | EEPROM, `config`, `AppConfig` | `initAppConfig`, `setIp`, `saveIp` | power failure between two bytes | old or new settings after a restart; the identity is never lost |
| Local access, listeners, discovery, debug, `localaccess.c`, `tellsticknet.c`, `discovery.c`, `debug.c` | `localSocket`, `s`, `remote`, `MySocket`, `DiscoverySM`, `p`, and five UDP sockets | `localAccessTask`, `registerListener`, `sendToLocalListeners`, `discoveryTask`, `debugTask` | sockets at their limit; a stack that is busy; destinations that others change; two sockets on one port | no socket is lost, none is missing; the last client that registered is told; requests are answered |

How they interact: `localAccessTask` reads a datagram into the message buffer
and calls `handleMessage`, which calls `send`, `setIp`, `saveIp` or
`registerListener`. `send` runs a session: it turns sampling off, hands the
packet to `rfSend`, and turns sampling on again. The timer 4 interrupt fills the
ring that `rfReceiveTask` scans; the task tells every run to the stream decoders
and, after a silence, tries the block decoders; a decoder builds a message in the
same message buffer and sends it to the listener.

The hazards, each at its line, are in `PROJECT.json`.

## 2. Modules

| Module | Models | Uses |
|---|---|---|
| `PulseTrain` | what `rfSend` promises: pulses in order, each for its length | |
| `RfTransmit` | `rfSend` and `rfTransmitUpdate`, one action for each step between which the interrupt may come | `PulseTrain` (refined) |
| `Pwm` | one LED | |
| `SendSession` | `send`, `sendArctechSelflearning`, the registers they switch, and the three interrupts | `RfTransmit`, `Pwm` |
| `SendSessionProofs` | proofs about `RfTransmit` and `SendSession` | these |
| `RfRing` | the ring: `Pack`, the second half of `rfReceiveUpdate` | `StreamBits` |
| `RfFilter` | `rfReceiveUpdate`: the pre-filter and `Pack` | `RfRing` |
| `RfReceive` | `rfReceiveTask` against the timer interrupt | `RfRing` |
| `RfReceiveProofs` | proofs about `RfFilter` and `RfReceive` | these, `StreamBitsProofs` |
| `ConfigStore` | `initAppConfig`, `setIp`, `saveIp`, `saveEEPROM` under power failures | |
| `ConfigStoreProofs` | proofs about `ConfigStore` | `ConfigStore` |
| `StreamBits` | bytes as sequences of bits, and the width of counts | |
| `OregonDecoder`, `OregonV3Decoder`, `HastaDecoder` | `streamOregon`, `streamOregonV3`, `streamHasta` | `StreamBits` |
| `StreamBitsProofs` | facts about counts that wrap, rows of bytes, and induction over numbers | `StreamBits` |
| `StreamDecoders` | the three, told runs by `rfReceiveTask` | the three |
| `StreamDecodersProofs` | proofs about the three | `StreamDecoders`, `StreamBitsProofs` |
| `BlockDecoders` | the seven `parse...` functions, `rfCountSimilar`, `calculateCrc8`, and the pulses that `sendArctechCommand` keys | `StreamBits` |
| `BlockDecodersProofs` | proofs about `BlockDecoders` | `BlockDecoders`, `StreamBitsProofs` |
| `LiveMessage` | `livemessage.c`: a message is written (`rfMessage...`) and taken apart | |
| `Reception` | the filter, the stream decoders, the block decoders and the message, one after the other | `RfFilter`, `StreamDecoders`, `BlockDecoders`, `LiveMessage` |
| `ReceptionProofs` | proofs about `LiveMessage`, and about `Reception` from those of its parts | `Reception`, `RfReceiveProofs`, `StreamDecodersProofs`, `BlockDecodersProofs` |
| `LocalAccess` | the main loop's tasks that use UDP sockets | |
| `LocalAccessProofs` | proofs about `LocalAccess` | `LocalAccess` |
| `MCRfTransmit`, `MCSendSession`, `MCConfigStore`, `MCStreamDecoders`, `MCLiveMessage`, `MCReception`, `MCLocalAccess` | values of the constants for TLC | |

Definitions called "Mutant of X" are plausible mistakes in X. No specification
uses them; each property is tested by checking that it fails when a mutant
stands in for X.

### State and code

*RfTransmit.* `nextTime`, `currentTime`, `newTime`, `nextIsZero` are the four
shared variables, `string` the packet buffer with its stale tail, `pc` and `i`
the place and index of `rfSend`. One action of `rfSend` is one statement that
touches shared state; an action of the interrupt is the whole handler, which
nothing pre-empts. Time is the sequence of timer interrupts. `MainQuota` is how
many steps `rfSend` certainly takes between two interrupts when it is not
spinning: 0 assumes nothing. `nextPos`, `onAir` and `age` are history: which byte
is on offer, which is on the air, for how many interrupts.

*SendSession.* Every write of a register is a step. The pause counts down as in
the code; counts are taken modulo `ByteMod` as an `unsigned char` does.
A command keyed by hand (`sendArctechCommand`) is any number of level changes
and a low level at the end.

*RfFilter, RfRing.* A byte of the ring is a sequence of `ByteBits` samples.
`run` and `passed` are history: how long the run of each sample in the filter
is, and what has left the filter.

*RfReceive.* One action is one iteration of the scan loop; only reading and
clearing `dataP` are split, since it is the only variable the interrupt shares
besides the ring, whose slots it fills before it moves `dataP`. The bytes of
`dataP` are accessed in either order, which the compiler chooses. The samples are
any sequence, those the filter passes among them. The answer of the block
decoders is free; the stream decoders are represented by what they are told
(`Told`), which is what `StreamDecoders` starts from. `fresh`, `torn`,
`current`, `gap`, `burst`, `burstEnd` and `since` are history.

*OregonDecoder, OregonV3Decoder, HastaDecoder.* `oregon`, `v3` and `hasta` are
records of the static variables of each file. A byte is the sequence of its bits
in the order received, so `byteCnt` is its length and the shifts and masks of the
code are the order. An action is a call of `streamOregon`, `streamOregonV3` or
`streamHasta` that takes one of its branches. `...Heard` (the bits since the
preamble) and `...Sent` (the message that the last call has sent) are history. The
decoders share nothing, so a behaviour of `StreamDecoders` follows one of them,
chosen at the start. Runs of the same level may follow each other: one between
them whose length is a multiple of 256 is not told. Which ids Oregon 3 knows is
left open: any id may have any length or none. The write behind the end of
`bufferV3` (finding 3) is counted, what it overwrites is not modelled. `hasta.c` is
modelled as built for the TellStick Net, not for the Duo.

*BlockDecoders.* `parse` holds the local variables of the decoder that is called:
what it has read of a digit, how many digits, and the data, which is the set of
the positions of its bits that are 1, so that `mask <<= 1` and shifts are the
positions; for PT2262 it is a number. An action reads one run: it goes on inside a
digit, takes a digit, or finds that it is none and returns. What a burst may be is
decided as it is read: any count of `BlockCounts`, or, after `CallOnCommand`, the
runs of a command, the stop pulse last in time and first read, each with the
lengths that its pulse may have, and before it a silence (`air`). `digits`,
`command` and `reported` are history. A decoder changes nothing another one reads,
so each is followed alone; the order they are called in does not matter.

*LiveMessage.* `text` is the buffer up to its first zero byte, a sequence of
characters; `bufferP` and `hashStartP` count from 0 as in the code. `message` says
what the caller has written and how far it is, `answer` what the last call gave. A
message has at least one field, as all of the firmware have. A message fits the
buffer, so that the positions never reach the end of it.
`LMAppendHashHexString` is called by the decoders with bytes, never with 0.

*Reception.* One behaviour follows one part of the way of a message, and the
others stay in their initial state: each part takes anything the one before it
can give, so nothing is lost, and all are checked in one run.

*LocalAccess.* `at` is the task of the main loop that runs next; a task is one
action, for nothing that pre-empts it uses sockets, but for `rfReceiveTask`, which
may report any number of times (`Report`) before it returns. `pool`, `rx` and the
actions of `StackTask` are the external TCP/IP stack, as the code uses it: at most
one datagram is there to be read in a round of the loop, and is gone in the next;
its sender becomes the remote end of the socket (which is what `registerListener`
and `discovery.c:56` copy); whether something can be sent is decided anew at each
call. A client is a host and the port it sends from, and sends to any port that is
open. `registerListener` keeps both as `remote` and `localPort`, and the next report
opens `s` on that port and to it, as `tellsticknet.c:27` and `41` do. So that socket is
open for everybody; and as `client/send.py` sends from 42314, which is
`LOCAL_ACCESS_PORT`, it can have the port of `localSocket`, or of `MySocket`: which of two
sockets with one port gets a datagram is then up to the stack. `guests` records who
else has sent to the listener's socket since the registration. DHCP
and the reboot server hold up to `StackSockets` sockets. `Reset` is any restart;
what the messages `send`, `setip` and `saveip` do is in their own modules.

*ConfigStore.* The EEPROM is a sequence of bytes in the layout of
`eepromConfig`. `Restart` is any reset: power, watchdog, the `disconnect`
message, the reset at the end of a save. The DHCP client is external: it gives an
address whenever DHCP is on. A byte is written whole or not at all.

## 3. Runs

| Run | Question | Result |
|---|---|---|
| `timely` | Does an `rfSend` that is on time play every packet as promised? | yes: `PlaysThePacket` (refinement of `PulseTrain`, with its fairness), and `HandshakeInv`, the invariant of the proof |
| `late` | What holds however late it is? | no pulse is cut short by the next, every call returns, and leaves the antenna quiet |
| `retry` | Does a stored length wait until it is loaded? | no: `StoredTimeIsLoaded` fails (finding 1) |
| `session` | Does a session switch the radio in a safe order, end, and leave the LED right? | yes |
| `reception` | What becomes of a radio message on its way from the antenna to the report? | the filter passes exactly the runs of `TriggerLevel`, but for the wrap of the counter, and the ring keeps their order (`FilterOpens`, `RingInOrder`); a stream decoder sends the bits since the preamble, all and in order, with the right checksum (`OregonHears`, `V3Hears`, `HastaHears`); a block decoder reports what the digits mean, against a definition of its own (`BlockHears`); a command of a TellStick Net is heard by another one, but after some silences (`CommandHeard`), and by which other decoders (`AlsoTakenFor`); a message is taken back as it was written (`TakenBack`) |
| `lag` | Is the race on the two bytes of `dataP` harmless? | the read is; the reset is not, `ReadsWhatWasStored` says until when |
| `marks` | Are the marks, the length check and the runs right across wraps? | yes, after a silence whose length the counter can tell |
| `start` | Is the start of data marked after every silence? | no: `StartOfDataMarked` fails (finding 2) |
| `buffer` | Does the data of an Oregon 3 message fit its buffer? | no: `V3FitsBuffer` fails (finding 3) |
| `zeros` | Are only zeros skipped in front of a byte string? | no: `OnlyZerosSkipped` fails (finding 4) |
| `sockets` | Do the tasks keep, find and use their sockets? | none is lost and none is missing in a release build; a report goes to who registered last, or to a host that has sent to the listener's socket since, and a registration is taken, unless the client registered before sends from `LOCAL_ACCESS_PORT` (`ServesTheLatest`); who has registered is told and who has asked is answered, unless another host gets hold of the socket first (`ListenerTold`, `DiscoveryAnswered`) |
| `config` | What does a power failure during a save leave? | for DHCP old or new; for a static address a mixture, within the stated limits |

### Findings

1. `rf/transmit.c:12`. The interrupt sets `rfNewTime` before it knows that there
   is a pulse to load. If that happens between `rfNewTime = 0` and
   `rfNextTime = ...` of a late `rfSend`, the flag is taken for the new pulse's,
   which is then overwritten: a pulse of the packet is lost and the levels of the
   rest are inverted. On time (`timely`, and the theorems) it never happens.
2. `rf/receive.c:139`. A silence is enough to decode at exactly 150 samples, but
   the data after it is marked as starting there only from 151, and the counter
   begins again at 256. The length check then uses the start of an older burst.
3. `rf/oregonv3.c:195`. `bufferV3` has nine bytes, for the longest known message.
   The data of an id that is not known is stored until a silence, or until 400 half
   cells, 24 bytes of data.
4. `firmware/livemessage.c:108`. To "skip all prepending zeros" of a byte string, its
   bytes are compared with the character '0', 0x30. A Fine Offset or Hasta report whose
   data begins with the byte 0x30 loses it; bytes that are zero are sent.

The runs also show, without contradicting anything the repository says: a
byte stored while `dataP = 0` is half done makes the task scan up to 256 old
bytes as if they were new (`lag`); a save of the fallback address that fails
half way leaves a device with an address that is partly erased (`config`,
`IdentityKept`); a static address with a byte 255 boots as DHCP (`config`,
`SavedBootsBack`); `cnt` of `oregon.c` counts the pulses of a preamble and the bytes
of data and is not cleared after a message, so that the next preamble needs up to
eight pulses less (`reception`, last part of `OregonHears`). A command is reported
shifted by one bit, without its lowest one, if the silence before it is 256 to 264
samples or longer than 510: it is counted as 0 and a short rest, or as 0 and 0,
which with the start pulse reads as a 33rd digit
(`reception`, `LooksLikeDigit`); the repeats of `sendArctechSelflearning` follow
after 11 ms, some 211 samples, and are heard right. Every command of arctech
selflearning is also reported as one of Everflourish, and by `x10.c` when its
bytes happen to complement each other (`AlsoTakenFor`). A host that sends to the
discovery port while a reply waits gets the reply (`sockets`, `DiscoveryAnswered`). The listener's socket is open on the port
the client has sent from. Whoever sends to that port gets the reports from then on,
although it has not registered; and if the port is 42314, as with `send.py`, this happens to
hosts that mean to send a message to the device, which is then not read, a `reglistener`
among them (`sockets`: `guests` and the exceptions in `ServesTheLatest`). Reports before any
client has registered go to nobody; a debug build loses a socket whenever the stack
is busy (`SocketsAccounted`, `lost`), until it has none for reports.

### Bounds, and why they are enough

- `timely`: a buffer of 6 bytes, bytes up to 4, two steps per interrupt. All
  timely packets of up to four bytes are sent in any order: every arrangement of pulses
  and markers around a pulse, deadlines that are met exactly, and stale tails.
  The theorems cover the rest.
- `late`: seven packets, among them the empty one and the shortest pulses, with
  no deadline at all.
- `session`: bytes modulo 3, so that a count of 3 is cut to 0; two repeats, so
  that there is a pause between and after; an LED of two steps that a repeat
  finds in the middle of a pulse.
- `reception`, the filter: the real one (8 samples, level 3); the counter wraps at
  48, so that a carrier of up to `MaxCarrier` = 99 samples wraps it twice. The ring has
  two bytes of two samples.
- `reception`, the block decoders: the real limits of the pulses, with a count on
  both sides of each, and counts of 0. Bytes of two bits; 6 to 9 digits of
  selflearning instead of 32 to 36, 3 or 4 of the others, 8 or 10 of those with bytes; the
  CRC polynomial x^2 + x + 1, every bit pattern of data and checksum. Commands with two
  bits of house and of unit, numbers that are longer than that among them; pulses as
  long as the code's delays and as its comments say (5 or 6, 25 or 29, 52 or 60
  samples of 52 us); silences on both sides of what looks like a digit.
- `reception`, the messages, and `zeros`: hex digits to base 4, the last one with a lower case that is read
  as well, so that lengths from 4 on have two
  digits, as from 16 on in the code; up to `MaxFields` = 2 fields, the same key twice
  among them; names, keys and strings that look like parts of a message or are one
  character too long; a string of three bytes where an unsigned long has two; 0x30 is 12.
- `sockets`: two clients, of which one sends from `LOCAL_ACCESS_PORT` as `send.py`
  does and the other from `DISCOVERY_PORT`, so that the listener's socket shares a port
  with each of the others; a port that the firmware does not use makes less happen (it
  has been checked in the place of `DISCOVERY_PORT`, and as that of a third client
  without liveness). Four sockets, of which the stack uses one (five and two in the
  code: what is left for the three tasks is the same; the invariants have been checked
  with the real numbers, too, and are proved for all).
- `lag`: a ring of four slots with `dataP` of two halves of two values each: as
  in the code, one bit of the high byte is used. The task may be `MaxLag` = 3
  bytes behind, all the ring allows. Silences and messages come as often as possible.
- `marks`, `start`: a ring of three slots of two samples, counters modulo 4, a
  silence of 2: silences that are exact, longer, wrapped, and wrapped into the
  range again; bursts longer than a lap; bursts across the end of the ring. The
  histories count runs up to two turns of the counter.
- `reception`, the stream decoders, and `buffer`: bytes of two bits, preambles of three pulses, buffers of two
  bytes; two Oregon ids with one and two bytes of data; the give-up limit set so
  that, as in the code, it is beyond the buffer; the byte counters wrap at 48 and
  `halfTime` at 32. The limits of the pulses are the real ones, with a run length
  between any two that a decoder tells apart. No bound on the number of runs.
- `config`: fields of one or two bytes, three settings (two addresses without a
  common byte, one with 255 in it), a programmed and an erased EEPROM, any number
  of failures.

`RfTransmit`'s constants `Packets` and `MainQuota`, `SendSession`'s `Counts`,
`RfFilter`'s `MaxCarrier`, `RfReceive`'s `MaxLag`, `ConfigStore`'s `Settings`
and `Programmed`, `BlockDecoders`' `Commands` and `Silences`, and `LiveMessage`'s
`Names`, `Keys`, `Values` and `MaxFields` are the only bounds on behaviours.

### Fairness

- `RfTransmit`: weak fairness of `rfSend` inside a call (the main loop has the
  processor whenever no handler runs, and a handler is short) and of the transmit
  interrupt (timer 3 interrupts while `TMR3ON` is set).
- `SendSession`: the same, and of the LED interrupt; a command keyed by hand has
  finitely many pulses, hence strong fairness of its end. A new message is never
  forced to come.
- `RfReceive`: weak fairness of the task, which the main loop calls over and
  over. The interrupt needs none.
- `LocalAccess`: weak fairness of each task and of the stack's turn, since the main
  loop goes around and none of its calls blocks. Strong fairness of a reply that
  can be sent, and of a report that can be sent: the stack is not busy for ever, whenever
  the code asks, and the radio is not silent for ever. Nothing makes a client
  send, and the device may restart at any time.
- `ConfigStore` and `Reception` have no liveness property: power may fail, and
  the radio be silent, for ever.

Deadlock is checked in every run.

## 4. Proofs

`SendSessionProofs` proves, about `RfTransmit`, for all packets, buffer sizes, byte sizes and speeds:

- without any assumption, `TypeCorrect` (`TypeOK`), `LateHandshake` (`LateInv`),
  `LeavesQuiet` (`QuietWhenIdle`) and `PulsesLast` (`NeverCutShort`). The inductive invariant is
  `SafeInv`, that is `TypeOK` and `LateInv`: `TypeOK` alone is not inductive, since
  that `i` stays in the buffer rests on the terminator at its end, and that a
  pulse is not cut short rests on `age + currentTime` being at least its length;
- assuming `Timely` (each pulse is long enough for the steps that `rfSend` owes
  while it lasts), `Handshake` (`HandshakeInv`) and `PlaysInOrder`: `Spec`
  implements `PulseTrain`'s `Spec`. The invariant has one part for each place of
  `rfSend`, saying which pulse is on the air and on offer, and `DeadlineInv`, the heart of the
  argument: what `rfSend` owes before it has stored the next pulse fits into what is
  left of the pulse on the air. Each step of `rfSend` lowers the debt by one
  and raises `ran`; an interrupt lowers `currentTime` by one and sets `ran`
  back, but only if `rfSend` has had its quota. `BufferTimely` carries the
  deadlines of the packets over to the buffer they are copied to.

It proves, about `SendSession`, for all packets, counts, sizes of a byte, peaks of the LED
and interleavings, `SessionTypes` (`SessionTypeOK`), `HearsNothingOwn` (`NeverHearsItself`),
`KeysIntoAntenna` (`KeyedIntoAntenna`) and `LedClimbs` (`LedNeverJumps`). None
of the four is inductive: each speaks of registers that the session writes one
by one. `RadioInv` says for each step which registers have been switched, and that
`rfSend`, timer 3 and a high pin belong to `sending` and `key` only; `LoopInv`, that
`calls` is below `repeats` where the loop sends and that nothing is left of a
pause elsewhere; `LedInv`, that the LED shows its duty, climbs below its peak and
descends above the dark, and is dark without pulses. The speed of `rfSend` does not matter.

`ConfigStoreProofs` proves, for all sizes of the fields, all settings and a power
failure after any byte, `ConfigTypes` (`ConfigTypeOK`), `BootsWhatWasSaved`
(`SavedBootsBack`), `DhcpSavesAtomically` (`DhcpSaveIsAtomic`), `NeverHalfAnAddress`
(`NoHalfAddress`) and `IdentitySurvives` (`IdentityKept`). The invariant is
`TypeInv`, `SaveInv` (up to `written` the EEPROM has the bytes of `config`, behind it those
from before the save, and only the words of `config` differ from what was loaded)
and `IdentityInv` (the address is the factory's, or a prefix of the fallback over an erased
one: a failure may come at each byte of each of several saves). The lemmas `FlatAt`
and `LoadedWords` say where each field is in the bytes. That the address is the first of the words,
and is written from its first byte on, is what `DhcpSavesAtomically` and
`NeverHalfAnAddress` rest on.

`LocalAccessProofs` proves, for all numbers of sockets and hosts, for clients on any ports, those of
the firmware included, and whichever free
socket the stack hands out, `SocketTypes` (`SocketTypeOK`), `NoSocketLost`
(`SocketsAccounted`), `LatestServed` (`ServesTheLatest`) and, if
`MaxSockets >= StackSockets + 3` as in the code (5 and 2), `SocketsSuffice`
(`EnoughSockets`). The invariant behind the first two is the two themselves and
`TaskInv`: `discoveryTask` has a socket exactly when it is past `DISCOVERY_HOME`, and what can
be read has come to a socket that is open, a registration to one on `LOCAL_ACCESS_PORT`. For
`EnoughSockets` `StackInv` adds that the stack has at most `StackSockets`; the sockets in
use are then counted. `RouteInv` (the address kept is that of who registered last, the
listener's socket leads there or to a guest, and the sender of what `localAccessTask` can read
is the remote end of its socket) and `RequestInv` (a
reply is owed exactly where the task is about to send one) are behind
the part of `ServesTheLatest` about what is sent. For its part about registrations all of
them meet: a registration is in an open
socket on `LOCAL_ACCESS_PORT`, which, if the listener's socket has another port, can only be
`localSocket`, whose remote end is the sender.

`RfReceiveProofs` proves, for filters, levels, rings and counters of every size,
`FilterPasses` (`FilterOpens`), `RingKeepsOrder` (`RingInOrder`) and the types. `TapInv` says
of each tap of the filter how long the run of its sample was, and that it is high exactly
if, on the sample's way to the tap, the counter reached the level in its run
(`Opened`); that a run which is followed stays followed as it moves on is the whole argument.
`OrderInv` is `RingInOrder` by bytes: a byte that is packed moves every slot one place
back.

It proves, for every ring, width of `dataP`, counter and silence,
`ReceiveTypes` (`ReceiveTypeOK`), `ReadsStored` (`ReadsWhatWasStored`), `RunsTold`
(`ToldTheRuns`), `BurstMarked` (`MarksTheBurst`) and `ShortSkipped` (`ShortBurstsSkipped`). The
invariant `ReceiveInv` has, besides the types,

- `WindowInv` and `TestInv`: the slots from the task up to `dataP` are filled, unless a reset
  was torn; the loop test reads the two halves at different
  times, and goes on rightly because a half that differed when it was read shows,
  whatever the interrupt does before the other half is read, that there is a byte to scan;
- `CountInv`: a counter is the length of the current run modulo `CountMod`, and the
  other one is 0; with `LongInv`, that what is parsed is a silence;
- `MarkInv` and `BurstInv`: the mark of the start of data is kept until the scan comes
  round to it, and is as many samples back as have been scanned since; the start of the
  silence is as many back as the counter says. From these two `MarksTheBurst`
  follows, which is not inductive: a mark becomes part of it only when the silence is long.

`StreamDecodersProofs` proves, for bytes, buffers, preambles and messages of every
length and every sequence of runs, `OregonHeard` (`OregonHears`), `HastaHeard`
(`HastaHears`), `OregonV3Heard` (`V3Hears`) and the types of the three. What is sent is compared
with the bits heard, bit by bit; the invariants say how the static variables split
those bits into the id, the bytes stored and the part of a byte:

- Oregon: what is stored and what is still to come is the length of the id's data, and the
  count is at most `OregonBuffer` ahead of the pulses of the preamble;
- Hasta: the sum is that of the values of the bytes stored. `Value` is a recursive function, and
  that it has a value at all is proved by induction (`ValueFunction`);
- Oregon 3: `V3DataHeard` speaks of all the bytes of data, those for which there is no room
  as well, and says that the buffer has the first of them (finding 3 lets it overflow);
  the half cells modulo two bytes' bits tell the place in a byte even where `halfTime`
  wraps.

`BlockDecodersProofs` proves, for bytes, numbers of digits, limits and polynoms of
every size and every burst, `DecodersHear` (`BlockHears`) and the types
(`BlockTypes`), and, for every command keyed, `CommandsHeard`
(`CommandHeard`) and `CommandsTakenFor` (`AlsoTakenFor`):

- `BlockInv` says that what is stored is what the digits read so far amount to:
  their ones, for selflearning those of the last 32 (`OnesWindowAppend`: shifting the oldest
  out and the new one in), for codeswitch those of the digits in reverse, for
  PT2262 the number to base 3. `HeardMeans` then compares what is checked at the end with
  what the digits mean.
- For Fine Offset that is `CrcMultiples`: the loop of `calculateCrc8` over the
  bytes accepts exactly the multiples of the polynom. `DivideBit` is one step of a long
  division (the bits read so far are a multiple plus the checksum), and two
  multiples that differ by less than the polynom are one (`SameFactor`).
- `CommandInv` follows a command backwards: so many of its runs have been read, the counts
  of the digit being read are of the next ones, and the digits read are its bits from the lowest
  on. `CommandDigit` says for each decoder which digits it makes of the runs, and
  where it meets the first one that is none: codeswitch and PT2262 at once, Fine Offset
  and Mandolyn after one at most, selflearning at the start pulse, with
  the silence as the end of that digit; Everflourish and X10 have all
  their digits before. `NthBit` says which runs are those of a bit, `FlattenFours` where
  they are in what `sendBits` keys.

`ReceptionProofs` proves, for every alphabet, every number of hex digits, all sizes of the
buffers and every set of names, keys and values, `MessageTakenBack` (`TakenBack`) and
the types (`MessageTypes`):

- `TextInv` says what has been written: the fields are laid one behind the other
  (`Laid`), and the offsets where they begin are a witness that the reader
  does not have. `PlaceInv` says where `bufferP` and `hashStartP` stand: after a search that has found
  its key, exactly at the value of that field; after any other call they are only
  known to be in the text, which is enough, since every search starts again from `hashStartP`.
  `AnswerInv` says that the last answer is right for the fields.
- What stands at a place is taken from it: `StringTaken` (the length, whether of one or two
  digits, and whether it fits or not), `NumberTaken`, and `ValueTaken`, whichever function passes
  over the value. `IntWritten` and `BytesWritten` say what number the digits written count;
  `NumberModulo`, that the digits that do not fit an unsigned long are those lost.
- `FindGives`: the search ends at the first field with its key, at a key that is too
  long, or behind the last field. Since it is a function defined from its values
  further on, `BackwardRecursion` proves first, from the end of the buffer down, that there is one.

And it proves about `Reception` that each of its steps is a step or a stutter of each of its parts,
hence `ReceptionOfParts`: it implements the specifications of all of them. From this and the
theorems about the parts, `ReceptionTypes` (`ReceptionTypeOK`) follows, and `ReceptionHears`:
the nine other invariants of the run `reception`.

The proofs about the receiver rest on `StreamBitsProofs`: quotients and remainders, what appending a bit or a byte does
to a row of bits (`Joined`), that cutting a row into bytes takes it back (`BytesOfJoined`),
and `SetInduction`: induction over numbers for a set instead of a predicate, from the
library's theorem that < is well-founded, since the library's own induction theorems
take an operator as a parameter.

The constants' assumptions are named in the modules (`TransmitAssumption`,
`SessionAssumption`, `ConfigAssumption`, ...) and hold in the code: lengths and
byte sizes are positive, packets contain no zero byte (`LMAppendChar` cannot
append one) and fit their buffer (`LMTakeString` refuses longer ones), the two
pulses of the LED fit a byte, an address in the settings is not all 255, the data of
an Oregon message and the pulses of the sync of Oregon 3 can be counted in a byte (8 and 3
of 256), `halfTime` wraps at a multiple of a byte's half cells (65536 of 16).
`CommandAssumption` is about the lengths of a command's pulses in samples: short ones are at most
9, long ones and the start at least 25 and at most 255 (at about 52 us a sample they are 5 or
6, 25 to 29, and 52 to 60), and the digits of Everflourish and half of those of X10 are not more
than the command's (24 and 16 of 32). `MessageAssumption` says that the hex digits, of either case, differ and
are none of `h`, `i`, `s` and `:`, `ValuesAssumption` that the length of a string has two hex digits
at most (a buffer of 200 has no longer ones), that a number fits an unsigned long, and that a
byte string is not empty; it may have more bytes than an unsigned long (those of Oregon and Fine Offset have
up to nine), and is then taken without the first of them. `BufferAssumption` says that a
message of the longest name and fields fits its buffer: `MessageTypes` is about
reading and says nothing of a message that does not (section 5).

Only model-checked: liveness (`PlaysThePacket`'s fairness, `EveryCallReturns`, `BackToListening`,
  `LedGoesDark`, `EveryByteScanned`, `ListenerTold`, `DiscoveryAnswered`), which is
beyond the prover.

## 5. Not modelled

- Dead code: `rfSendExtended`, `rfDebugPrint...`, the senders of `send.c`, `clearEEPROM`,
  `LMParseChar`, `LMHasPendingMessage` and the signature of a message, and the fixed and blinking
  LED types. No code calls them, or nothing depends on them.
- `usart.c`, delays, hardware and TCP/IP settings: register writes and constants.
- A message that fills its buffer: the write behind the end, and what a
  string without a terminator then contains, depend on what the linker
  put there.
- The TCP/IP stack and the server are not in the repository: `LocalAccess` has the
  stack as an external component, with the sockets and answers that the code asks it for.
- The text of messages where no property is about it, and `send.py`, which sends one
  message.

## 6. Plan

Done: all modules of section 2 and the proofs of section 4.

All invariants and action properties of the passing runs are theorems; liveness is left to TLC.
