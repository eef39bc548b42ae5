--------------------------- MODULE MCConfigStore ---------------------------
(***************************************************************************)
(* Small values for ConfigStore: two bytes for each field.                 *)
(***************************************************************************)
EXTENDS ConfigStore

MCByte == {0, 1, 2, 255}

MCFallback == <<2, 0>>

SettingsFrom(ip, netmask) ==
  [w \in Words |-> CASE w = "ip" -> ip
                     [] w = "netmask" -> netmask
                     [] OTHER -> <<1, 0>>]

MCDefault == SettingsFrom(<<0, 0>>, <<0, 1>>)

\* Two addresses that share no byte, and one with a byte 0xFF in it.
MCSettings == { SettingsFrom(<<1, 1>>, <<1, 0>>),
                SettingsFrom(<<2, 2>>, <<0, 2>>),
                SettingsFrom(<<1, 255>>, <<1, 0>>) }

\* An EEPROM with an address, which has a byte 0xFF, and a secret, and one
\* that is erased.
MCProgrammed ==
  { <<1, 255, 0>> \o [b \in 1 .. 10 |-> 255], [b \in 1 .. 13 |-> 255] }
=============================================================================
