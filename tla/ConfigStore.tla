---------------------------- MODULE ConfigStore ----------------------------
(***************************************************************************)
(* The configuration: kept in an EEPROM that is written a byte at a time   *)
(* (eeprom.c), loaded at boot (initAppConfig of main.c), changed and saved *)
(* by messages (setIp and saveIp of tellsticknet.c).  Power may fail, or   *)
(* the watchdog reset the processor, at any time, between any two bytes.   *)
(***************************************************************************)
EXTENDS Integers, Sequences

CONSTANTS
  Byte,        (* the values of a byte                                     *)
  Erased,      (* 0xFF, the value of a byte that was never written         *)
  MacBytes, SecretBytes, WordBytes,
               (* the sizes 6, 11 and 4 of the fields of eepromConfig      *)
  FallbackMac, (* the address of a device without one                      *)
  Default,     (* MY_DEFAULT_...: the settings before DHCP has answered    *)
  Settings,    (* the settings that messages and the DHCP server give      *)
  Programmed   (* the EEPROMs as they leave the factory                    *)

Words == {"ip", "netmask", "gateway", "dns1", "dns2"}
Word == [1 .. WordBytes -> Byte]
ErasedWord == [b \in 1 .. WordBytes |-> Erased]
Size == MacBytes + SecretBytes + 5 * WordBytes

ASSUME ConfigAssumption ==
  /\ {MacBytes, SecretBytes, WordBytes} \subseteq Nat \ {0}
  /\ Erased \in Byte
  /\ FallbackMac \in [1 .. MacBytes -> Byte] /\ FallbackMac[1] # Erased
  /\ Settings \cup {Default} \subseteq [Words -> Word]
  /\ \A s \in Settings : s.ip # ErasedWord
  /\ Programmed \subseteq [1 .. Size -> Byte]

VARIABLES
  eeprom,      (* its bytes                                                *)
  config,      (* the copy in RAM                                          *)
  app,         (* AppConfig: dhcp, mac and the five words                  *)
  written,     (* the bytes saveEEPROM has written; -1 when it is not      *)
               (* running                                                  *)
  factory,     (* history: the EEPROM as it left the factory               *)
  before,      (* history: the EEPROM when the latest save or boot began   *)
  asked        (* history: app when the latest save or boot began          *)

historyVars == <<factory, before, asked>>
configVars == <<eeprom, config, app, written, historyVars>>

-----------------------------------------------------------------------------
\* The layout of eepromConfig, one field after the other.
Field(bytes, first, size) == SubSeq(bytes, first, first + size - 1)
WordAt(bytes, k) ==
  Field(bytes, MacBytes + SecretBytes + k * WordBytes + 1, WordBytes)

Flat(c) == c.mac \o c.secret \o c.words.ip \o c.words.netmask
             \o c.words.gateway \o c.words.dns1 \o c.words.dns2

loadEEPROM(bytes) ==
  [mac    |-> Field(bytes, 1, MacBytes),
   secret |-> Field(bytes, MacBytes + 1, SecretBytes),
   words  |-> [ip      |-> WordAt(bytes, 0),
               netmask |-> WordAt(bytes, 1),
               gateway |-> WordAt(bytes, 2),
               dns1    |-> WordAt(bytes, 3),
               dns2    |-> WordAt(bytes, 4)]]

\* Mutant of LoadedConfig: an address counts as erased when its last byte is.
LoadedConfigByLast(bytes) ==
  LET c == loadEEPROM(bytes)
  IN  IF c.mac[MacBytes] = Erased THEN [c EXCEPT !.mac = FallbackMac] ELSE c

\* A device whose address is erased uses the fallback, in RAM only.
LoadedConfig(bytes) ==
  LET c == loadEEPROM(bytes)
  IN  IF c.mac[1] = Erased THEN [c EXCEPT !.mac = FallbackMac] ELSE c

\* Mutant of UsesDhcp: an erased first byte is not enough.
UsesDhcpWhenErased(ip) == \A b \in 1 .. WordBytes : ip[b] = Erased

UsesDhcp(ip) == \E b \in 1 .. WordBytes : ip[b] = Erased

\* What initAppConfig makes of an EEPROM.
AppOf(bytes) ==
  LET c == LoadedConfig(bytes)
      dhcp == UsesDhcp(c.words.ip)
  IN  [dhcp  |-> dhcp,
       mac   |-> c.mac,
       words |-> IF dhcp THEN Default ELSE c.words]

ConfigInit ==
  /\ eeprom \in Programmed
  /\ config = LoadedConfig(eeprom)
  /\ app = AppOf(eeprom)
  /\ written = -1
  /\ factory = eeprom
  /\ before = eeprom
  /\ asked = app

-----------------------------------------------------------------------------
\* A reset, whatever its reason: RAM is lost and initAppConfig runs.
Restart ==
  /\ config' = LoadedConfig(eeprom)
  /\ app' = AppOf(eeprom)
  /\ written' = -1
  /\ before' = eeprom
  /\ asked' = app'
  /\ UNCHANGED <<eeprom, factory>>

\* setIp with the five words; a message that lacks one changes nothing.
setIpStatic(words) ==
  /\ written = -1
  /\ app' = [app EXCEPT !.dhcp = FALSE, !.words = words]
  /\ UNCHANGED <<eeprom, config, written, historyVars>>

\* setIp with the address 0xFFFFFFFF.
setIpDhcp ==
  /\ written = -1
  /\ app' = [app EXCEPT !.dhcp = TRUE]
  /\ UNCHANGED <<eeprom, config, written, historyVars>>

\* The DHCP client of the TCP/IP stack has been given an address.
Lease(words) ==
  /\ written = -1
  /\ app.dhcp
  /\ app' = [app EXCEPT !.words = words]
  /\ UNCHANGED <<eeprom, config, written, historyVars>>

\* Mutant of WordsToSave: the leased address is saved.
WordsInUse == app.words

WordsToSave == IF app.dhcp THEN [w \in Words |-> ErasedWord] ELSE app.words

saveIp ==
  /\ written = -1
  /\ config' = [config EXCEPT !.words = WordsToSave]
  /\ written' = 0
  /\ before' = eeprom
  /\ asked' = app
  /\ UNCHANGED <<eeprom, app, factory>>

\* Mutant of WriteByte: the bytes are written from the last to the first.
WriteByteBackwards ==
  /\ written \in 0 .. Size - 1
  /\ eeprom' = [eeprom EXCEPT ![Size - written] = Flat(config)[Size - written]]
  /\ written' = written + 1
  /\ UNCHANGED <<config, app, historyVars>>

\* Mutant of WriteByte: the loop ends a byte too late.
WriteByteTooMany ==
  /\ written \in 0 .. Size
  /\ eeprom' = IF written = Size THEN Append(eeprom, Erased)
               ELSE [eeprom EXCEPT ![written + 1] = Flat(config)[written + 1]]
  /\ written' = written + 1
  /\ UNCHANGED <<config, app, historyVars>>

\* One round of saveEEPROM.
WriteByte ==
  /\ written \in 0 .. Size - 1
  /\ eeprom' = [eeprom EXCEPT ![written + 1] = Flat(config)[written + 1]]
  /\ written' = written + 1
  /\ UNCHANGED <<config, app, historyVars>>

\* saveIp resets the processor when everything is written.
SaveEnds == written = Size /\ Restart

ConfigNext ==
  \/ \E words \in Settings : setIpStatic(words) \/ Lease(words)
  \/ setIpDhcp \/ saveIp \/ WriteByte \/ SaveEnds
  \/ Restart

ConfigSpec == ConfigInit /\ [][ConfigNext]_configVars

-----------------------------------------------------------------------------
Config == [mac : [1 .. MacBytes -> Byte], secret : [1 .. SecretBytes -> Byte],
           words : [Words -> Word]]

ConfigTypeOK ==
  /\ eeprom \in [1 .. Size -> Byte]
  /\ config \in Config
  /\ app \in [dhcp : BOOLEAN, mac : [1 .. MacBytes -> Byte],
              words : [Words -> Word]]
  /\ written \in -1 .. Size

\* What the network settings would be if the device restarted now.
Boots(bytes) == [dhcp |-> AppOf(bytes).dhcp, words |-> AppOf(bytes).words]
DhcpBoots == [dhcp |-> TRUE, words |-> Default]

\* A save that has come to its end boots with what was in use when it began;
\* except that an address with a byte 0xFF in it boots as DHCP.
SavedBootsBack ==
  written = Size =>
    Boots(eeprom) = IF asked.dhcp \/ UsesDhcp(asked.words.ip) THEN DhcpBoots
                    ELSE [dhcp |-> FALSE, words |-> asked.words]

\* A power failure while DHCP is being saved leaves the settings of before or
\* DHCP, never a mixture: the address comes before the other words.
DhcpSaveIsAtomic ==
  written >= 0 /\ asked.dhcp => Boots(eeprom) \in {Boots(before), DhcpBoots}

\* A power failure during the first save of an address leaves DHCP or the whole
\* new address; what is behind the address in the EEPROM may still be erased.
NoHalfAddress ==
  written >= 0 /\ ~ asked.dhcp /\ WordAt(before, 0) = ErasedWord =>
    AppOf(eeprom).dhcp \/ AppOf(eeprom).words.ip = asked.words.ip

\* The address and the secret that were programmed in the factory survive every
\* save and every failure.  Without an address the device has the fallback, or,
\* when a save failed between two bytes of it, one that is erased from there on.
IdentityKept ==
  /\ loadEEPROM(eeprom).secret = loadEEPROM(factory).secret
  /\ IF factory[1] # Erased
       THEN app.mac = loadEEPROM(factory).mac
       ELSE \E k \in 1 .. MacBytes : \A b \in 1 .. MacBytes :
              app.mac[b] = IF b <= k THEN FallbackMac[b] ELSE factory[b]
=============================================================================
