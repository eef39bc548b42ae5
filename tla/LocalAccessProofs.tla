------------------------- MODULE LocalAccessProofs -------------------------
(***************************************************************************)
(* Proofs about LocalAccess, for any clients, whatever ports they send     *)
(* from, and any number of sockets.                                        *)
(* SocketInv says who holds which socket, and is inductive; StackInv       *)
(* counts the sockets of the stack; RouteInv and RequestInv say where      *)
(* reports and replies go.  Each has one lemma for a step, with one step   *)
(* per action.                                                             *)
(***************************************************************************)
EXTENDS LocalAccess, FiniteSetTheorems, TLAPS

\* discoveryTask has a socket exactly when it is past DISCOVERY_HOME, what can be
\* read has come to an open socket, a registration to LOCAL_ACCESS_PORT, and only a
\* debug build prints.
TaskInv ==
  /\ discoverySM = "HOME" <=> mySocket = InvalidSocket
  /\ at # "stack" /\ rx.socket # InvalidSocket => pool[rx.socket] # Closed
  /\ at # "stack" /\ rx.says = "reglistener" =>
       rx.socket # InvalidSocket /\ pool[rx.socket].port = "local"
  /\ printed => debugBuild

\* Types, who holds which socket, and the above.
SocketInv == SocketTypeOK /\ SocketsAccounted /\ TaskInv

\* The address kept for the listener is who registered last; its socket leads
\* there, or to a guest; and the sender of what can be read is the remote end of
\* the socket of localAccessTask.
RouteInv ==
  /\ registered = [host |-> remote, port |-> localPort]
  /\ s # InvalidSocket => pool[s].remote \in {registered} \cup guests
  /\ localSocket # InvalidSocket /\ rx.socket = localSocket =>
       pool[localSocket].remote = rx.from

\* A request that can still be read or that waits for its reply has been asked.
RequestInv ==
  /\ /\ at \in {"debug", "receive", "discovery"}
     /\ rx.socket # InvalidSocket /\ rx.socket = mySocket
     /\ rx.says = "D"
     => asked
  /\ discoverySM = "REQUEST_RECEIVED" => asked

\* The stack holds no more sockets than are set aside for it.
StackInv == Cardinality(stackOpen) <= StackSockets

-----------------------------------------------------------------------------
\* A socket that the stack hands out was free, and is open afterwards; no other
\* one changes.
LEMMA OpenedSocket ==
  ASSUME pool \in Pools, NEW port \in Ports, NEW address \in Addresses
  PROVE  /\ Opened(port, address) \in Pools
         /\ UDPOpen \in Sockets \cup {InvalidSocket}
         /\ UDPOpen = InvalidSocket <=> Free = {}
         /\ UDPOpen = InvalidSocket => Opened(port, address) = pool
         /\ UDPOpen # InvalidSocket =>
              /\ pool[UDPOpen] = Closed
              /\ Opened(port, address)[UDPOpen] = [port |-> port, remote |-> address]
              /\ \A n \in Sockets \ {UDPOpen} : Opened(port, address)[n] = pool[n]
<1>1. Free # {} => AFree \in Free
  BY DEF AFree
<1>2. Free \subseteq Sockets /\ \A n \in Free : pool[n] = Closed
  BY DEF Free, Open
<1>3. InvalidSocket \notin Sockets
  BY SocketAssumption DEF Sockets, InvalidSocket
<1> QED
  BY <1>1, <1>2, <1>3 DEF Opened, UDPOpen, Pools

\* A socket that is open stays as it is when another one is opened.
LEMMA OpenedKeeps ==
  ASSUME pool \in Pools, NEW port, NEW address, NEW n \in Sockets, pool[n] # Closed
  PROVE  Opened(port, address)[n] = pool[n]
BY DEF Pools, Opened, AFree, Free, Open

\* The constants have their types; no socket is the invalid one.
LEMMA ConstantFacts ==
  /\ InvalidSocket \notin Sockets
  /\ NoAddress \in Addresses /\ Clients \subseteq Addresses
  /\ [n \in Sockets |-> Closed] \in Pools
  /\ NoDatagram \in Datagrams /\ NoDatagram.socket = InvalidSocket
  /\ NoDatagram.says = "nothing"
  /\ "none" \notin Ports
  /\ {"any", "stack", "local", "discovery"} \subseteq Ports
BY SocketAssumption DEF Sockets, InvalidSocket, Addresses, NoAddress, Closed, Pools,
   Ports, FirmwarePorts, NoDatagram, Datagrams, Texts

\* Only LOCAL_ACCESS_PORT is told of registrations, and DISCOVERY_PORT of requests.
LEMMA SaidTexts ==
  ASSUME NEW port, NEW says \in Said(port)
  PROVE  says \in Texts /\ (says = "reglistener" => port = "local")
<1>1. CASE port = "local"
  BY <1>1 DEF Said, Texts
<1>2. CASE port = "discovery"
  BY <1>2 DEF Said, Texts
<1>3. CASE port # "local" /\ port # "discovery"
  BY <1>3 DEF Said, Texts
<1> QED
  BY <1>1, <1>2, <1>3

\* Who sends is an address, and so are its parts.
LEMMA AddressParts ==
  /\ \A a \in Addresses :
       /\ a.host \in Hosts \cup {Nobody} /\ a.port \in Ports
       /\ a = [host |-> a.host, port |-> a.port]
  /\ \A h \in Hosts \cup {Nobody}, p \in Ports : [host |-> h, port |-> p] \in Addresses
BY DEF Addresses

-----------------------------------------------------------------------------
\* The boot has no socket open.
LEMMA InitSocketInv == SocketInit => SocketInv
<1> SUFFICES ASSUME SocketInit PROVE SocketInv
  OBVIOUS
<1>1. SocketTypeOK
  BY ConstantFacts DEF SocketInit, SocketTypeOK
<1>2. SocketsAccounted
  BY DEF SocketInit, SocketsAccounted, Open, Valid, Closed
<1> QED
  BY <1>1, <1>2 DEF SocketInit, SocketInv, TaskInv, NoDatagram

\* Every task keeps track of its sockets.
LEMMA NextSocketInv == SocketInv /\ [SocketNext]_socketVars => SocketInv'
<1> SUFFICES ASSUME SocketInv, [SocketNext]_socketVars PROVE SocketInv'
  OBVIOUS
<1> USE DEF SocketInv, SocketTypeOK, taskVars, listenerVars, requests, reports
<1>1. CASE NoPacket
  <2>1. SocketTypeOK'
    BY <1>1, ConstantFacts DEF NoPacket, StackDone, Goto
  <2>2. SocketsAccounted'
    BY <1>1, ConstantFacts DEF NoPacket, StackDone, Goto, SocketsAccounted, Open, Valid, Closed, Pools
  <2>3. TaskInv'
    BY <1>1, ConstantFacts DEF NoPacket, StackDone, Goto, TaskInv
  <2> QED
    BY <2>1, <2>2, <2>3
<1>2. ASSUME NEW client \in Clients, NEW port \in FirmwarePorts \cup ClientPorts,
            NEW says \in Said(port), Packet(client, port, says)
     PROVE  SocketInv'
  <2>0. PICK n \in Sockets :
          /\ pool[n].port = port
          /\ rx' = [socket |-> n, from |-> client, says |-> says]
          /\ pool' = [pool EXCEPT ![n].remote = client]
          /\ guests' \subseteq guests \cup {client}
          /\ asked' \in BOOLEAN /\ asker' \in {asker, client, NoAddress}
    BY <1>2 DEF Packet, Open
  <2>1. /\ UNCHANGED <<debugBuild, stackOpen, taskVars, lost, registered>>
        /\ at' \in {"debug", "receive"}
    BY <1>2 DEF Packet, StackDone, Goto
  <2>2. port \in Ports /\ says \in Texts /\ client \in Addresses
    BY ConstantFacts, SaidTexts DEF Ports
  <2>3. /\ pool' \in Pools
        /\ \A k \in Sockets : pool'[k].port = pool[k].port
        /\ \A k \in Sockets \ {n} : pool'[k] = pool[k]
    BY <2>0, <2>2 DEF Pools
  <2>4. Open' = Open
    BY <2>0, <2>2, <2>3, ConstantFacts DEF Open, Closed
  <2>5. SocketTypeOK'
    BY <2>0, <2>1, <2>2, <2>3, ConstantFacts DEF Datagrams
  <2>6. SocketsAccounted'
    BY <2>1, <2>3, <2>4 DEF SocketsAccounted, Valid
  <2>7. TaskInv'
    <3>1. pool'[n] # Closed /\ pool'[n].port = port
      BY <2>0, <2>2, <2>3, ConstantFacts DEF Closed
    <3>2. says = "reglistener" => port = "local"
      BY SaidTexts
    <3> QED
      BY <2>0, <2>1, <3>1, <3>2, ConstantFacts DEF TaskInv
  <2> QED
    BY <2>5, <2>6, <2>7
<1>3. CASE StackOpens
  <2>0. /\ UDPOpen \in Sockets /\ pool[UDPOpen] = Closed
        /\ pool' \in Pools
        /\ pool'[UDPOpen] = [port |-> "stack", remote |-> NoAddress]
        /\ \A n \in Sockets \ {UDPOpen} : pool'[n] = pool[n]
    BY <1>3, ConstantFacts, OpenedSocket DEF StackOpens, Ports
  <2>1. SocketTypeOK'
    BY <1>3, ConstantFacts, <2>0 DEF StackOpens
  <2>2. SocketsAccounted'
    BY <1>3, ConstantFacts, <2>0 DEF StackOpens, SocketsAccounted, Open, Valid, Closed, Pools
  <2>3. TaskInv'
    BY <1>3, ConstantFacts, <2>0 DEF StackOpens, Closed, Datagrams,
       TaskInv
  <2> QED
    BY <2>1, <2>2, <2>3
<1>4. CASE StackCloses
  <2>1. SocketTypeOK'
    BY <1>4, ConstantFacts DEF StackCloses, UDPClose, Open, Closed,
       Pools, Ports
  <2>2. SocketsAccounted'
    BY <1>4, ConstantFacts DEF StackCloses, UDPClose, SocketsAccounted, Open, Valid, Closed, Pools
  <2>3. TaskInv'
    BY <1>4, ConstantFacts DEF StackCloses, UDPClose, Open, Pools,
       Datagrams, TaskInv
  <2> QED
    BY <2>1, <2>2, <2>3
<1>5. ASSUME NEW bound \in BOOLEAN, NEW putReady \in BOOLEAN,
            debugTask(bound, putReady)
     PROVE  SocketInv'
  <2>0. /\ pool' \in Pools
        /\ \/ pool' = pool /\ lost' = lost
           \/ /\ UDPOpen \in Sockets /\ pool[UDPOpen] = Closed
              /\ printed /\ lost' = lost \cup {UDPOpen}
              /\ pool'[UDPOpen] = [port |-> "any", remote |-> NoAddress]
              /\ \A n \in Sockets \ {UDPOpen} : pool'[n] = pool[n]
    BY <1>5, ConstantFacts, OpenedSocket DEF debugTask, Ports
  <2>1. SocketTypeOK'
    BY <1>5, ConstantFacts, <2>0 DEF debugTask, Goto
  <2>2. SocketsAccounted'
    BY <1>5, ConstantFacts, <2>0 DEF debugTask, Goto, SocketsAccounted, TaskInv,
       Open, Valid, Closed, Pools
  <2>3. TaskInv'
    BY <1>5, ConstantFacts, <2>0 DEF debugTask, Goto, Closed, Datagrams,
       TaskInv
  <2> QED
    BY <2>1, <2>2, <2>3
<1>6. ASSUME NEW putReady \in BOOLEAN, Report(putReady)
     PROVE  SocketInv'
  <2>0. /\ pool' \in Pools
        /\ s' \in Sockets \cup {InvalidSocket}
        /\ \/ pool' = pool /\ s' = s
           \/ /\ s = InvalidSocket /\ s' \in Sockets /\ pool[s'] = Closed
              /\ pool'[s'] = [port |-> localPort,
                             remote |-> [host |-> remote, port |-> localPort]]
              /\ \A n \in Sockets \ {s'} : pool'[n] = pool[n]
    <3>1. PICK address \in Addresses : address = [host |-> remote, port |-> localPort]
      BY AddressParts
    <3>2. CASE s # InvalidSocket
      BY <1>6, <3>2 DEF Report
    <3>3. CASE s = InvalidSocket
      <4>1. s' = UDPOpen /\ pool' = Opened(localPort, address)
        BY <1>6, <3>1, <3>3 DEF Report
      <4> QED
        BY <3>1, <3>3, <4>1, OpenedSocket
    <3> QED
      BY <3>2, <3>3
  <2>1. SocketTypeOK'
    BY <1>6, ConstantFacts, <2>0 DEF Report
  <2>2. SocketsAccounted'
    BY <1>6, ConstantFacts, <2>0 DEF Report, SocketsAccounted, Open,
       Valid, Closed, Pools
  <2>3. TaskInv'
    BY <1>6, ConstantFacts, <2>0 DEF Report, Closed, Datagrams, TaskInv
  <2> QED
    BY <2>1, <2>2, <2>3
<1>7. CASE Received
  <2>1. SocketTypeOK'
    BY <1>7, ConstantFacts DEF Received, Goto, stackVars
  <2>2. SocketsAccounted'
    BY <1>7, ConstantFacts DEF Received, Goto, stackVars, SocketsAccounted, Open, Valid, Closed, Pools
  <2>3. TaskInv'
    BY <1>7, ConstantFacts DEF Received, Goto, stackVars, TaskInv
  <2> QED
    BY <2>1, <2>2, <2>3
<1>8. CASE DiscoveryOpens
  <2>0. /\ pool' \in Pools
        /\ mySocket' \in Sockets \cup {InvalidSocket}
        /\ \/ mySocket' = InvalidSocket /\ pool' = pool /\ discoverySM' = "HOME"
           \/ /\ mySocket' \in Sockets /\ pool[mySocket'] = Closed
              /\ discoverySM' = "LISTEN"
              /\ pool'[mySocket'] = [port |-> "discovery", remote |-> NoAddress]
              /\ \A n \in Sockets \ {mySocket'} : pool'[n] = pool[n]
    BY <1>8, ConstantFacts, OpenedSocket DEF DiscoveryOpens, Ports
  <2>1. SocketTypeOK'
    BY <1>8, ConstantFacts, <2>0 DEF DiscoveryOpens, Discovered, Goto
  <2>2. SocketsAccounted'
    BY <1>8, ConstantFacts, <2>0 DEF DiscoveryOpens, Discovered, Goto,
       TaskInv, SocketsAccounted, Open, Valid, Closed, Pools
  <2>3. TaskInv'
    BY <1>8, ConstantFacts, <2>0 DEF DiscoveryOpens, Discovered, Goto, Closed,
       Datagrams, TaskInv
  <2> QED
    BY <2>1, <2>2, <2>3
<1>9. CASE DiscoveryListens
  <2>1. SocketTypeOK'
    BY <1>9, ConstantFacts DEF DiscoveryListens, Discovered, Goto, UDPIsGetReady
  <2>2. SocketsAccounted'
    BY <1>9, ConstantFacts DEF DiscoveryListens, Discovered, Goto,
       SocketsAccounted, Open, Valid, Closed, Pools
  <2>3. TaskInv'
    BY <1>9, ConstantFacts DEF DiscoveryListens, Discovered, Goto, TaskInv
  <2> QED
    BY <2>1, <2>2, <2>3
<1>10. ASSUME NEW putReady \in BOOLEAN, DiscoveryAnswers(putReady)
     PROVE  SocketInv'
  <2>0. /\ pool' \in Pools
        /\ mySocket \in Sockets
        /\ pool' = pool \/ pool' = [pool EXCEPT ![mySocket].remote.host = rx.from.host]
    <3>1. /\ mySocket \in Sockets
          /\ pool' = pool \/ pool' = [pool EXCEPT ![mySocket].remote.host = rx.from.host]
      BY <1>10 DEF DiscoveryAnswers, Requested, TaskInv
    <3>2. rx.from.host \in Hosts \cup {Nobody}
      BY AddressParts DEF Datagrams
    <3>3. PICK h \in Hosts \cup {Nobody} : h = rx.from.host
      BY <3>2
    <3>4. [pool EXCEPT ![mySocket].remote.host = h] \in Pools
      BY <3>1 DEF Pools, Addresses
    <3> QED
      BY <3>1, <3>3, <3>4
  <2>1. SocketTypeOK'
    BY <1>10, ConstantFacts, <2>0 DEF DiscoveryAnswers, Discovered, Requested,
       UDPIsGetReady, AfterAnswer, Goto
  <2>2. SocketsAccounted'
    BY <1>10, ConstantFacts, <2>0 DEF DiscoveryAnswers, Discovered, Requested,
       UDPIsGetReady, AfterAnswer, Goto, SocketsAccounted, Open,
       Valid, Closed, Pools
  <2>3. TaskInv'
    BY <1>10, ConstantFacts, <2>0 DEF DiscoveryAnswers, Discovered, Requested,
       UDPIsGetReady, AfterAnswer, Goto, Pools, TaskInv
  <2> QED
    BY <2>1, <2>2, <2>3
<1>11. CASE LocalOpens
  <2>0. /\ pool' \in Pools
        /\ localSocket' \in Sockets \cup {InvalidSocket}
        /\ \/ localSocket' = InvalidSocket /\ pool' = pool
           \/ /\ localSocket' \in Sockets /\ pool[localSocket'] = Closed
              /\ pool'[localSocket'] = [port |-> "local", remote |-> NoAddress]
              /\ \A n \in Sockets \ {localSocket'} : pool'[n] = pool[n]
    BY <1>11, ConstantFacts, OpenedSocket DEF LocalOpens, Ports
  <2>1. SocketTypeOK'
    BY <1>11, ConstantFacts, <2>0 DEF LocalOpens, LocalDone, Goto
  <2>2. SocketsAccounted'
    BY <1>11, ConstantFacts, <2>0 DEF LocalOpens, LocalDone, Goto,
       SocketsAccounted, Open, Valid, Closed, Pools
  <2>3. TaskInv'
    BY <1>11, ConstantFacts, <2>0 DEF LocalOpens, LocalDone, Goto, Closed,
       Datagrams, TaskInv
  <2> QED
    BY <2>1, <2>2, <2>3
<1>12. CASE LocalListens
  <2>1. SocketTypeOK'
    BY <1>12, ConstantFacts DEF LocalListens, LocalDone, Goto
  <2>2. SocketsAccounted'
    BY <1>12, ConstantFacts DEF LocalListens, LocalDone, Goto, SocketsAccounted,
       Open, Valid, Closed, Pools
  <2>3. TaskInv'
    BY <1>12, ConstantFacts DEF LocalListens, LocalDone, Goto, TaskInv
  <2> QED
    BY <2>1, <2>2, <2>3
<1>13. CASE LocalRegisters
  <2>0. /\ localSocket \in Sockets
        /\ remote' = pool[localSocket].remote.host
        /\ localPort' = pool[localSocket].remote.port
        /\ pool' = IF s # InvalidSocket THEN [pool EXCEPT ![s] = Closed] ELSE pool
        /\ s' = InvalidSocket /\ guests' = {} /\ registered' = rx.from /\ at' = "stack"
        /\ UNCHANGED <<debugBuild, stackOpen, localSocket, mySocket, discoverySM, printed,
                       lost, requests>>
        /\ rx' = NoDatagram
    BY <1>13 DEF LocalRegisters, LocalDone, LocalReads, registerListener, Listener,
       UDPClose, Goto
  <2>1. SocketTypeOK'
    <3>1. pool[localSocket].remote \in Addresses /\ rx.from \in Addresses
      BY <2>0 DEF Pools, Datagrams
    <3>2. remote' \in Hosts \cup {Nobody} /\ localPort' \in Ports
      BY <2>0, <3>1, AddressParts
    <3>3. pool' \in Pools
      BY <2>0, ConstantFacts DEF Pools, Closed, NoAddress
    <3> QED
      BY <2>0, <3>1, <3>2, <3>3, ConstantFacts
  <2>2. SocketsAccounted'
    BY <2>0, ConstantFacts DEF SocketsAccounted, Open, Valid, Closed, Pools
  <2>3. TaskInv'
    BY <2>0, ConstantFacts DEF TaskInv
  <2> QED
    BY <2>1, <2>2, <2>3
<1>14. CASE Reset
  <2>1. SocketTypeOK'
    BY <1>14, ConstantFacts DEF Reset, Booted
  <2>2. SocketsAccounted'
    BY <1>14, ConstantFacts DEF Reset, Booted, SocketsAccounted, Open,
       Valid, Closed, Pools
  <2>3. TaskInv'
    BY <1>14, ConstantFacts DEF Reset, Booted, TaskInv
  <2> QED
    BY <2>1, <2>2, <2>3
<1>15. CASE UNCHANGED socketVars
  <2>1. SocketTypeOK'
    BY <1>15, ConstantFacts DEF socketVars, stackVars, history
  <2>2. SocketsAccounted'
    BY <1>15, ConstantFacts DEF socketVars, stackVars, history, SocketsAccounted,
       Open, Valid, Closed, Pools
  <2>3. TaskInv'
    BY <1>15, ConstantFacts DEF socketVars, stackVars, history, TaskInv
  <2> QED
    BY <2>1, <2>2, <2>3
<1> QED
  BY <1>1, <1>2, <1>3, <1>4, <1>5, <1>6, <1>7, <1>8, <1>9, <1>10, <1>11, <1>12,
     <1>13, <1>14, <1>15
  DEF SocketNext, StackTask, discoveryTask, localAccessTask, LocalDisconnects

-----------------------------------------------------------------------------
\* One more element, or the same set.
LEMMA AddOne ==
  ASSUME NEW S, NEW x, IsFiniteSet(S)
  PROVE  /\ IsFiniteSet(S \cup {x})
         /\ Cardinality(S) \in Nat /\ Cardinality(S \cup {x}) \in Nat
         /\ Cardinality(S \cup {x}) <= Cardinality(S) + 1
<1>1. Cardinality(S) \in Nat
  BY FS_CardinalityType
<1>2. /\ IsFiniteSet(S \cup {x})
      /\ Cardinality(S \cup {x}) =
           IF x \in S THEN Cardinality(S) ELSE Cardinality(S) + 1
  BY FS_AddElement
<1> QED
  BY <1>1, <1>2

\* The sockets of the stack can be counted.
LEMMA StackOpenFinite ==
  ASSUME SocketTypeOK
  PROVE  IsFiniteSet(stackOpen) /\ Cardinality(stackOpen) \in Nat
<1>1. IsFiniteSet(Sockets) /\ stackOpen \in SUBSET Sockets
  BY SocketAssumption, FS_Interval DEF Sockets, SocketTypeOK
<1> QED
  BY <1>1, FS_Subset, FS_CardinalityType

\* Only StackOpens raises the number of sockets the stack holds.
LEMMA NextStackInv ==
  SocketInv /\ StackInv /\ [SocketNext]_socketVars => StackInv'
<1> SUFFICES ASSUME SocketInv, StackInv, [SocketNext]_socketVars PROVE StackInv'
  OBVIOUS
<1>1. IsFiniteSet(stackOpen) /\ Cardinality(stackOpen) \in Nat
  BY StackOpenFinite DEF SocketInv
<1>2. CASE StackOpens
  <2>1. PICK n : stackOpen' = stackOpen \cup {n}
    BY <1>2 DEF StackOpens
  <2>2. /\ Cardinality(stackOpen \cup {n}) \in Nat
        /\ Cardinality(stackOpen \cup {n}) <= Cardinality(stackOpen) + 1
    BY <1>1, AddOne
  <2>3. Cardinality(stackOpen) < StackSockets /\ StackSockets \in Nat
    BY <1>2, SocketAssumption DEF StackOpens
  <2> QED
    BY <1>1, <2>1, <2>2, <2>3 DEF StackInv
<1>3. ASSUME stackOpen' \in SUBSET stackOpen
      PROVE  StackInv'
  <2>1. /\ Cardinality(stackOpen') \in Nat
        /\ Cardinality(stackOpen') <= Cardinality(stackOpen)
    BY <1>1, <1>3, FS_Subset, FS_CardinalityType
  <2> QED
    BY <1>1, <2>1, SocketAssumption DEF StackInv
<1>4. ~ StackOpens => stackOpen' \in SUBSET stackOpen
  BY DEF SocketNext, StackTask, NoPacket, StackCloses, Packet, debugTask, Report,
     Received, discoveryTask, DiscoveryOpens, DiscoveryListens, DiscoveryAnswers,
     localAccessTask, LocalOpens, LocalListens, LocalRegisters, LocalDisconnects,
     Reset, Booted, socketVars, stackVars
<1> QED
  BY <1>2, <1>3, <1>4

\* The boot leaves no socket to the stack.
LEMMA InitStackInv == SocketInit => StackInv
<1> SUFFICES ASSUME SocketInit PROVE StackInv
  OBVIOUS
<1>1. stackOpen = {}
  BY DEF SocketInit
<1> QED
  BY <1>1, FS_EmptySet, SocketAssumption DEF StackInv

-----------------------------------------------------------------------------
\* The boot has neither a listener nor a request.
LEMMA InitRoutes == SocketInit => RouteInv /\ RequestInv
BY DEF SocketInit, RouteInv, RequestInv, NoDatagram, NoAddress, InvalidSocket

\* That a step keeps the routes and the requests, and what it sends.
Routed == RouteInv' /\ RequestInv' /\ SendsRight

\* The listener kept is the sender of the message that registers it.
LEMMA RegistersSender ==
  ASSUME SocketTypeOK, RouteInv, LocalRegisters
  PROVE  registered' = rx.from /\ rx.from = [host |-> remote', port |-> localPort']
<1>1. /\ localSocket \in Sockets /\ rx.socket = localSocket
      /\ remote' = pool[localSocket].remote.host
      /\ localPort' = pool[localSocket].remote.port
      /\ registered' = rx.from
  BY DEF SocketTypeOK, LocalRegisters, LocalReads, UDPIsGetReady, registerListener,
     Listener
<1>2. pool[localSocket].remote = rx.from /\ rx.from \in Addresses
  BY <1>1, ConstantFacts DEF RouteInv, SocketTypeOK, Datagrams
<1> QED
  BY <1>1, <1>2, AddressParts

\* Every step does what Routed says.
LEMMA NextRouted ==
  ASSUME SocketInv, RouteInv, RequestInv, SocketNext
  PROVE  Routed
<1> USE ConstantFacts DEF SocketInv, SocketTypeOK, SocketsAccounted, TaskInv, RouteInv,
      RequestInv, Routed, SendsRight, Valid, taskVars, listenerVars, requests, reports, Nothing, Goto
<1>1. CASE NoPacket
  BY <1>1 DEF NoPacket, StackDone
<1>2. ASSUME NEW client \in Clients, NEW port \in FirmwarePorts \cup ClientPorts,
             NEW says \in Said(port), Packet(client, port, says)
      PROVE  Routed
  <2>1. PICK n \in Sockets :
          /\ pool[n].port = port
          /\ rx' = [socket |-> n, from |-> client, says |-> says]
          /\ pool' = [pool EXCEPT ![n].remote = client]
          /\ guests' = IF n = s THEN guests \cup ({client} \ {registered}) ELSE guests
          /\ asked' = (asked \/ (n = mySocket /\ says = "D"))
    BY <1>2 DEF Packet, Open
  <2>2. /\ UNCHANGED <<localSocket, s, remote, localPort, mySocket, discoverySM,
                       registered>>
        /\ sent' = Nothing
    BY <1>2 DEF Packet, StackDone
  <2>3. RouteInv'
    <3>1. /\ pool'[n].remote = client
          /\ \A k \in Sockets \ {n} : pool'[k] = pool[k]
      BY <2>1 DEF Pools
    <3>2. s # InvalidSocket => pool'[s].remote \in {registered} \cup guests'
      BY <2>1, <3>1
    <3>3. localSocket # InvalidSocket /\ n = localSocket => pool'[localSocket].remote = client
      BY <3>1
    <3> QED
      BY <2>1, <2>2, <3>2, <3>3
  <2>4. RequestInv'
    BY <2>1, <2>2
  <2> QED
    BY <2>2, <2>3, <2>4
<1>3. CASE StackOpens
  <2>1. \A n \in Sockets : pool[n] # Closed => pool'[n] = pool[n]
    BY <1>3, OpenedKeeps DEF StackOpens
  <2> QED
    BY <1>3, <2>1 DEF StackOpens, Closed, Datagrams
<1>4. CASE StackCloses
  BY <1>4 DEF StackCloses, UDPClose, Open, Pools, Datagrams
<1>5. ASSUME NEW bound \in BOOLEAN, NEW putReady \in BOOLEAN,
             debugTask(bound, putReady)
      PROVE  Routed
  <2>1. \A n \in Sockets : pool[n] # Closed => pool'[n] = pool[n]
    BY <1>5, OpenedKeeps DEF debugTask
  <2> QED
    BY <1>5, <2>1 DEF debugTask, Closed, Datagrams
<1>6. ASSUME NEW putReady \in BOOLEAN, Report(putReady)
      PROVE  Routed
  <2>1. \A n \in Sockets : pool[n] # Closed => pool'[n] = pool[n]
    BY <1>6, OpenedKeeps DEF Report
  <2>2. s' # InvalidSocket => pool'[s'].remote \in {registered} \cup guests
    <3>1. CASE s = InvalidSocket
      <4>1. PICK address \in Addresses : address = [host |-> remote, port |-> localPort]
        BY AddressParts
      <4>2. s' = UDPOpen /\ pool' = Opened(localPort, address)
        BY <1>6, <3>1, <4>1 DEF Report
      <4>3. s' # InvalidSocket => pool'[s'] = [port |-> localPort, remote |-> address]
        BY <4>2, OpenedSocket
      <4> QED
        BY <4>1, <4>3
    <3>2. CASE s # InvalidSocket
      BY <1>6, <3>2 DEF Report
    <3> QED
      BY <3>1, <3>2
  <2>3. /\ UNCHANGED <<at, rx, localSocket, remote, localPort, mySocket, discoverySM,
                       reports, requests>>
        /\ \/ sent' = Nothing
           \/ /\ s' # InvalidSocket
              /\ sent' = [what |-> "report", to |-> pool'[s'].remote]
    <3>1. CASE s = InvalidSocket
      BY <1>6, <3>1 DEF Report
    <3>2. CASE s # InvalidSocket
      BY <1>6, <3>2 DEF Report
    <3> QED
      BY <3>1, <3>2 DEF Report
  <2>4. RouteInv'
    BY <2>1, <2>2, <2>3, <1>6 DEF Report, Closed
  <2>5. RequestInv'
    BY <2>3
  <2> QED
    BY <2>2, <2>3, <2>4, <2>5
<1>7. CASE Received
  BY <1>7 DEF Received, stackVars
<1>8. CASE DiscoveryOpens
  <2>1. \A n \in Sockets : pool[n] # Closed => pool'[n] = pool[n]
    BY <1>8, OpenedKeeps DEF DiscoveryOpens, Discovered
  <2>2. mySocket' # InvalidSocket => pool[mySocket'] = Closed
    BY <1>8, OpenedSocket DEF DiscoveryOpens
  <2>3. /\ UNCHANGED <<rx, localSocket, s, remote, localPort, reports, requests>>
        /\ at = "discovery" /\ at' = "local" /\ sent' = Nothing
        /\ discoverySM' \in {"HOME", "LISTEN"}
    BY <1>8 DEF DiscoveryOpens, Discovered
  <2>4. RouteInv'
    BY <2>1, <2>3 DEF Closed
  <2> QED
    BY <2>3, <2>4
<1>9. CASE DiscoveryListens
  BY <1>9 DEF DiscoveryListens, Discovered
<1>10. ASSUME NEW putReady \in BOOLEAN, DiscoveryAnswers(putReady)
       PROVE  Routed
  BY <1>10 DEF DiscoveryAnswers, Discovered, Requested, UDPIsGetReady, AfterAnswer,
     Pools, Datagrams
<1>11. CASE LocalOpens
  <2>1. \A n \in Sockets : pool[n] # Closed => pool'[n] = pool[n]
    BY <1>11, OpenedKeeps DEF LocalOpens, LocalDone
  <2>2. localSocket' # InvalidSocket => pool[localSocket'] = Closed
    BY <1>11, OpenedSocket DEF LocalOpens
  <2>3. /\ UNCHANGED <<rx, s, remote, localPort, mySocket, discoverySM, reports, requests>>
        /\ at = "local" /\ at' = "stack" /\ sent' = Nothing
    BY <1>11 DEF LocalOpens, LocalDone
  <2>4. rx.socket # InvalidSocket => pool[rx.socket] # Closed
    BY <2>3
  <2>5. localSocket' # InvalidSocket => rx.socket # localSocket'
    BY <2>2, <2>4
  <2>6. s # InvalidSocket => pool'[s] = pool[s]
    BY <2>1 DEF Closed
  <2> QED
    BY <2>3, <2>5, <2>6
<1>12. CASE LocalListens
  <2>1. /\ UNCHANGED <<pool, localSocket, s, remote, localPort, mySocket, discoverySM,
                       reports, requests>>
        /\ at' = "stack" /\ sent' = Nothing /\ rx' \in {rx, NoDatagram}
    BY <1>12 DEF LocalListens, LocalDone
  <2> QED
    BY <2>1
<1>13. CASE LocalRegisters
  <2>1. /\ s' = InvalidSocket /\ registered' = rx.from /\ guests' = {}
        /\ rx' = NoDatagram /\ sent' = Nothing /\ at' = "stack"
        /\ UNCHANGED <<localSocket, mySocket, discoverySM, requests>>
    BY <1>13 DEF LocalRegisters, LocalDone, registerListener
  <2>2. registered' = [host |-> remote', port |-> localPort']
    BY <1>13, RegistersSender
  <2> QED
    BY <2>1, <2>2
<1>14. CASE Reset
  <2>1. registered' = [host |-> remote', port |-> localPort']
    BY <1>14 DEF Reset, Booted, NoAddress
  <2>2. /\ s' = InvalidSocket /\ localSocket' = InvalidSocket /\ rx' = NoDatagram
        /\ discoverySM' = "HOME" /\ sent' = Nothing
    BY <1>14 DEF Reset, Booted
  <2> QED
    BY <2>1, <2>2
<1> QED
  BY <1>1, <1>2, <1>3, <1>4, <1>5, <1>6, <1>7, <1>8, <1>9, <1>10, <1>11, <1>12,
     <1>13, <1>14
  DEF SocketNext, StackTask, discoveryTask, localAccessTask, LocalDisconnects

\* Nor does a step that changes nothing disturb them.
LEMMA StutterRoutes ==
  RouteInv /\ RequestInv /\ UNCHANGED socketVars => RouteInv' /\ RequestInv'
BY DEF socketVars, stackVars, taskVars, listenerVars, requests, reports, history,
   RouteInv, RequestInv

-----------------------------------------------------------------------------
\* The device keeps to its sockets and states, for any number of clients and
\* sockets.
THEOREM SocketTypes == SocketSpec => []SocketTypeOK
<1>1. SocketInv => SocketTypeOK
  BY DEF SocketInv
<1> QED
  BY InitSocketInv, NextSocketInv, <1>1, PTL DEF SocketSpec

\* Every open socket is known to the task that uses it, or was left open by
\* putchflush of a debug build.
THEOREM NoSocketLost == SocketSpec => []SocketsAccounted
<1>1. SocketInv => SocketsAccounted
  BY DEF SocketInv
<1> QED
  BY InitSocketInv, NextSocketInv, <1>1, PTL DEF SocketSpec

\* Three sockets besides those of the stack are enough for a release build.
THEOREM SocketsSuffice ==
  ASSUME MaxSockets >= StackSockets + 3
  PROVE  SocketSpec => []EnoughSockets
<1>1. SocketInv /\ StackInv => EnoughSockets
  <2> SUFFICES ASSUME SocketInv, StackInv, ~ debugBuild, Free = {},
                      ~ (Valid(localSocket) /\ Valid(mySocket) /\ Valid(s))
               PROVE  FALSE
    BY DEF EnoughSockets
  <2>1. PICK a, b : {localSocket, s, mySocket} \ {InvalidSocket} \subseteq {a, b}
    BY DEF Valid
  <2>2. Sockets \subseteq (stackOpen \cup {a}) \cup {b}
    BY <2>1 DEF SocketInv, SocketsAccounted, Free
  <2> DEFINE withA == stackOpen \cup {a}
             withB == withA \cup {b}
  <2>0. IsFiniteSet(stackOpen) /\ Cardinality(stackOpen) \in Nat
    BY StackOpenFinite DEF SocketInv
  <2>3. /\ IsFiniteSet(withB)
        /\ Cardinality(withB) \in Nat
        /\ Cardinality(withB) <= Cardinality(stackOpen) + 2
    <3>1. /\ IsFiniteSet(withA)
          /\ Cardinality(withA) \in Nat
          /\ Cardinality(withA) <= Cardinality(stackOpen) + 1
      BY <2>0, AddOne
    <3> HIDE DEF withA
    <3>2. /\ IsFiniteSet(withB)
          /\ Cardinality(withB) \in Nat
          /\ Cardinality(withB) <= Cardinality(withA) + 1
      BY <3>1, AddOne
    <3> QED
      BY <2>0, <3>1, <3>2
  <2>4. Cardinality(Sockets) = MaxSockets
    BY SocketAssumption, FS_Interval DEF Sockets
  <2>5. Cardinality(Sockets) <= Cardinality(withB)
    BY <2>2, <2>3, FS_Subset
  <2> QED
    BY <2>0, <2>3, <2>4, <2>5, SocketAssumption DEF StackInv
<1> QED
  BY InitSocketInv, NextSocketInv, InitStackInv, NextStackInv, <1>1, PTL
  DEF SocketSpec

\* While the registered client does not send from LOCAL_ACCESS_PORT, there is only
\* one socket a registration can come to, and localAccessTask takes it there.
LEMMA NextRegistrationTaken ==
  ASSUME SocketInv, RouteInv, SocketNext
  PROVE  RegistrationTaken
<1> SUFFICES ASSUME at = "local", at' # at, rx.says = "reglistener", localPort # "local"
             PROVE  \/ /\ registered' = rx.from
                       /\ rx.from = [host |-> remote', port |-> localPort']
                    \/ Reset
  BY DEF RegistrationTaken
<1>1. rx.socket \in Sockets /\ pool[rx.socket].port = "local"
  BY ConstantFacts DEF SocketInv, SocketTypeOK, TaskInv, Datagrams
<1>2. rx.socket = localSocket /\ localSocket # InvalidSocket
  <2>1. pool[rx.socket] # Closed
    BY <1>1 DEF Closed
  <2>2. rx.socket \in {localSocket, s, mySocket} \cup stackOpen \cup lost
    BY <1>1, <2>1 DEF SocketInv, SocketsAccounted, Open
  <2> QED
    BY <1>1, <2>2, ConstantFacts DEF SocketInv, SocketsAccounted, Valid
<1>3. ~ LocalOpens /\ ~ LocalListens
  BY <1>2 DEF LocalOpens, LocalListens, LocalReads, UDPIsGetReady
<1>4. LocalRegisters \/ Reset
  BY <1>3 DEF SocketNext, StackTask, NoPacket, Packet, StackOpens, StackCloses,
     debugTask, Report, Received, discoveryTask, DiscoveryOpens, DiscoveryListens,
     DiscoveryAnswers, Discovered, localAccessTask, LocalDisconnects
<1> QED
  BY <1>4, RegistersSender DEF SocketInv

\* A report goes to the client that registered last, or to somebody who has sent to
\* its socket since; a reply is sent once for a request; and no registration is lost
\* between two sockets, unless the client that is registered sends from
\* LOCAL_ACCESS_PORT.
THEOREM LatestServed == SocketSpec => ServesTheLatest
<1> DEFINE Inv == SocketInv /\ RouteInv /\ RequestInv
<1>1. SocketInit => Inv
  BY InitSocketInv, InitRoutes
<1>2. Inv /\ [SocketNext]_socketVars => Inv'
  BY NextSocketInv, NextRouted, StutterRoutes DEF Routed
<1>3. Inv /\ [SocketNext]_socketVars => [SendsRight /\ RegistrationTaken]_socketVars
  BY NextRouted, NextRegistrationTaken DEF Routed
<1> QED
  BY <1>1, <1>2, <1>3, PTL DEF SocketSpec, ServesTheLatest
=============================================================================
