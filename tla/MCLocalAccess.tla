--------------------------- MODULE MCLocalAccess ---------------------------
(***************************************************************************)
(* Clients for LocalAccess: each sends from a port of the firmware, as     *)
(* client/send.py does from LOCAL_ACCESS_PORT.                             *)
(***************************************************************************)
EXTENDS LocalAccess

CONSTANTS h1, h2

MCClients == {[host |-> h1, port |-> "local"], [host |-> h2, port |-> "discovery"]}
=============================================================================
