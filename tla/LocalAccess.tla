---------------------------- MODULE LocalAccess ----------------------------
(***************************************************************************)
(* The UDP sockets of the firmware and the tasks of the main loop that     *)
(* share them: localAccessTask takes messages, discoveryTask answers       *)
(* discovery requests, rfReceiveTask reports to the client that has        *)
(* registered, and in a debug build debugTask sends what was printed.      *)
(*                                                                         *)
(* The TCP/IP stack is external: it has a small pool of sockets, uses some *)
(* of them itself, hands at most one datagram to the tasks in each round   *)
(* of the main loop, makes its sender the remote end of the socket it came *)
(* to, and tells whether a datagram can be sent now.                       *)
(*                                                                         *)
(* The socket to the listener has the port the listener sends from.  If    *)
(* that is a port of the firmware, as with client/send.py, two sockets     *)
(* share it, and it is up to the stack to which a datagram comes.          *)
(***************************************************************************)
EXTENDS Integers, FiniteSets

CONSTANTS
  Hosts,        (* that send to the device                                 *)
  ClientPorts,  (* the ports they send from                                *)
  Clients,      (* the addresses of programs on them: a host and a port    *)
  Nobody,       (* the host of a socket that has no remote end yet         *)
  MaxSockets,   (* MAX_UDP_SOCKETS, 5                                      *)
  StackSockets  (* how many of them the stack uses itself, 2: DHCP and     *)
                (* the one that waits for a request to restart             *)

ASSUME SocketAssumption ==
  /\ MaxSockets \in Nat \ {0}
  /\ StackSockets \in 0 .. MaxSockets
  /\ Clients \subseteq [host : Hosts, port : ClientPorts]
  /\ Nobody \notin Hosts
  /\ "none" \notin ClientPorts

VARIABLES
  debugBuild,  (* DEBUG is defined                                         *)
  at,          (* the task of the main loop whose turn it is               *)
  pool,        (* the open sockets: their local port and remote end        *)
  stackOpen,   (* the sockets that the stack uses itself                   *)
  rx,          (* the datagram that the tasks can read                     *)
  localSocket, (* localaccess.c                                            *)
  s, remote, localPort, (* tellsticknet.c: the socket to the listener, its *)
               (* host, and the port it has sent from, "any" if none has   *)
  mySocket, discoverySM,   (* discovery.c                                  *)
  printed,     (* debug.c: its buffer is not empty                         *)
  lost,        (* history: the sockets that putchflush did not close       *)
  registered,  (* history: who has registered last                         *)
  guests,      (* history: who else has sent to the listener's socket      *)
  asked,       (* history: there is a request without a reply              *)
  asker,       (* history: who sent it, if nobody else has sent to the     *)
               (* socket of discoveryTask after it                         *)
  sent         (* history: what this step has sent, and to whom            *)

stackVars == <<pool, stackOpen, rx>>
listenerVars == <<s, remote, localPort>>
taskVars == <<localSocket, listenerVars, mySocket, discoverySM, printed>>
requests == <<asked, asker>>
reports == <<registered, guests>>
history == <<lost, reports, requests, sent>>
socketVars == <<debugBuild, at, stackVars, taskVars, history>>

Sockets == 1 .. MaxSockets
InvalidSocket == 0

\* LOCAL_ACCESS_PORT is "local" and DISCOVERY_PORT "discovery"; "any" is the port
\* 0, for which the stack chooses one, and a socket with port "none" is closed.
FirmwarePorts == {"local", "discovery"}
NoAddress == [host |-> Nobody, port |-> "any"]
Closed == [port |-> "none", remote |-> NoAddress]
NoDatagram == [socket |-> InvalidSocket, from |-> NoAddress, says |-> "nothing"]
Nothing == [what |-> "nothing", to |-> NoAddress]

Open == {n \in Sockets : pool[n] # Closed}

-----------------------------------------------------------------------------
\* UDPOpen, UDPClose, UDPIsGetReady.  Which free socket is taken is up to the
\* stack.
Free == Sockets \ Open
AFree == CHOOSE n \in Free : TRUE
UDPOpen == IF Free = {} THEN InvalidSocket ELSE AFree
Opened(port, address) ==
  IF Free = {} THEN pool
  ELSE [pool EXCEPT ![AFree] = [port |-> port, remote |-> address]]
UDPClose(n) == [pool EXCEPT ![n] = Closed]
UDPIsGetReady(n) == rx.socket = n

\* The variables after a restart; it forgets the listener.
Booted ==
  /\ at' = "stack"
  /\ pool' = [n \in Sockets |-> Closed] /\ stackOpen' = {}
  /\ rx' = NoDatagram
  /\ localSocket' = InvalidSocket
  /\ s' = InvalidSocket /\ remote' = Nobody /\ localPort' = "any"
  /\ mySocket' = InvalidSocket /\ discoverySM' = "HOME"
  /\ printed' = debugBuild
  /\ lost' = {} /\ registered' = NoAddress /\ guests' = {}
  /\ asked' = FALSE /\ asker' = NoAddress
  /\ sent' = Nothing

SocketInit ==
  /\ debugBuild \in BOOLEAN
  /\ at = "stack"
  /\ pool = [n \in Sockets |-> Closed] /\ stackOpen = {}
  /\ rx = NoDatagram
  /\ localSocket = InvalidSocket
  /\ s = InvalidSocket /\ remote = Nobody /\ localPort = "any"
  /\ mySocket = InvalidSocket /\ discoverySM = "HOME"
  /\ printed = debugBuild
  /\ lost = {} /\ registered = NoAddress /\ guests = {}
  /\ asked = FALSE /\ asker = NoAddress
  /\ sent = Nothing

Goto(task) == at' = task /\ UNCHANGED debugBuild

-----------------------------------------------------------------------------
\* StackTask: what was not read of the last datagram is gone.
StackDone == Goto(IF debugBuild THEN "debug" ELSE "receive") /\ sent' = Nothing

NoPacket ==
  /\ at = "stack"
  /\ StackDone
  /\ rx' = NoDatagram
  /\ UNCHANGED <<pool, stackOpen, taskVars, lost, reports, requests>>

\* A datagram comes to one of the sockets that have the port it was sent to.
Packet(client, port, says) ==
  /\ at = "stack"
  /\ \E n \in Open :
       /\ pool[n].port = port
       /\ rx' = [socket |-> n, from |-> client, says |-> says]
       /\ pool' = [pool EXCEPT ![n].remote = client]
       /\ guests' = IF n = s THEN guests \cup ({client} \ {registered}) ELSE guests
       /\ asked' = (asked \/ (n = mySocket /\ says = "D"))
       /\ asker' = IF n # mySocket \/ client = asker THEN asker
                   ELSE IF says = "D" THEN client ELSE NoAddress
  /\ StackDone
  /\ UNCHANGED <<stackOpen, taskVars, lost, registered>>

\* DHCP and the like take a socket or give one back.
StackOpens ==
  /\ at = "stack"
  /\ Cardinality(stackOpen) < StackSockets
  /\ Free # {}
  /\ pool' = Opened("stack", NoAddress)
  /\ stackOpen' = stackOpen \cup {UDPOpen}
  /\ sent' = Nothing
  /\ UNCHANGED <<debugBuild, at, rx, taskVars, lost, reports, requests>>

StackCloses ==
  /\ at = "stack"
  /\ \E n \in stackOpen : pool' = UDPClose(n) /\ stackOpen' = stackOpen \ {n}
  /\ sent' = Nothing
  /\ UNCHANGED <<debugBuild, at, rx, taskVars, lost, reports, requests>>

\* What is told apart of what is sent to a port.
Said(port) ==
  CASE port = "local" -> {"reglistener", "disconnect", "other"}
    [] port = "discovery" -> {"D", "other"}
    [] OTHER -> {"other"}

StackTask ==
  \/ NoPacket \/ StackOpens \/ StackCloses
  \/ \E client \in Clients, port \in FirmwarePorts \cup ClientPorts :
       \E says \in Said(port) : Packet(client, port, says)

-----------------------------------------------------------------------------
\* debugTask: nothing to do before the network is up; putchflush leaves its
\* socket open when the stack cannot send yet.
debugTask(bound, putReady) ==
  /\ at = "debug"
  /\ Goto("receive")
  /\ LET n == UDPOpen
         flush == bound /\ printed /\ n # InvalidSocket
     IN  /\ pool' = IF flush /\ ~ putReady THEN Opened("any", NoAddress) ELSE pool
         /\ lost' = IF flush /\ ~ putReady THEN lost \cup {n} ELSE lost
         /\ printed' = (printed /\ ~ (flush /\ putReady))
  /\ sent' = Nothing
  /\ UNCHANGED <<stackOpen, rx, localSocket, listenerVars, mySocket, discoverySM,
                 reports, requests>>

\* A decoder has built a message: sendToLocalListeners.
Report(putReady) ==
  /\ at = "receive"
  /\ LET n == IF s = InvalidSocket THEN UDPOpen ELSE s
         after == IF s = InvalidSocket
                    THEN Opened(localPort, [host |-> remote, port |-> localPort])
                    ELSE pool
     IN  /\ s' = n
         /\ pool' = after
         /\ sent' = IF n # InvalidSocket /\ putReady
                      THEN [what |-> "report", to |-> after[n].remote]
                      ELSE Nothing
  /\ printed' = debugBuild
  /\ UNCHANGED <<debugBuild, at, stackOpen, rx, localSocket, remote, localPort,
                 mySocket, discoverySM, lost, reports, requests>>

\* rfReceiveTask returns.
Received ==
  /\ at = "receive"
  /\ Goto("discovery")
  /\ sent' = Nothing
  /\ UNCHANGED <<stackVars, taskVars, lost, reports, requests>>

-----------------------------------------------------------------------------
\* discoveryTask.
Discovered == at = "discovery" /\ Goto("local")

DiscoveryOpens ==
  /\ Discovered
  /\ discoverySM = "HOME"
  /\ mySocket' = UDPOpen
  /\ pool' = Opened("discovery", NoAddress)
  /\ discoverySM' = IF UDPOpen = InvalidSocket THEN "HOME" ELSE "LISTEN"
  /\ sent' = Nothing
  /\ UNCHANGED <<stackOpen, rx, localSocket, listenerVars, printed, lost, reports,
                 requests>>

\* Nothing to read, or something that is not a request.
DiscoveryListens ==
  /\ Discovered
  /\ discoverySM = "LISTEN"
  /\ ~ (UDPIsGetReady(mySocket) /\ rx.says = "D")
  /\ rx' = IF UDPIsGetReady(mySocket) THEN NoDatagram ELSE rx
  /\ sent' = Nothing
  /\ UNCHANGED <<pool, stackOpen, taskVars, lost, reports, requests>>

Requested ==
  discoverySM = "LISTEN" /\ UDPIsGetReady(mySocket) /\ rx.says = "D"

\* Mutants of AfterAnswer: the next of the states; a busy stack ends the request.
AfterAnswerNext(putReady) ==
  IF putReady THEN "DISABLED" ELSE "REQUEST_RECEIVED"
AfterAnswerDropped(putReady) == "LISTEN"

AfterAnswer(putReady) == IF putReady THEN "LISTEN" ELSE "REQUEST_RECEIVED"

\* The request, whose sender has become the remote end and whose host is copied
\* over once more, is answered, now or in a later round; then nothing that has
\* come in between is read.
DiscoveryAnswers(putReady) ==
  /\ Discovered
  /\ Requested \/ discoverySM = "REQUEST_RECEIVED"
  /\ rx' = IF Requested THEN NoDatagram ELSE rx
  /\ discoverySM' = AfterAnswer(putReady)
  /\ pool' = IF Requested
               THEN [pool EXCEPT ![mySocket].remote.host = rx.from.host] ELSE pool
  /\ sent' = IF putReady
               THEN [what |-> "reply", to |-> pool'[mySocket].remote] ELSE Nothing
  /\ asked' = (asked /\ ~ putReady)
  /\ asker' = IF sent'.to = asker THEN NoAddress ELSE asker
  /\ UNCHANGED <<stackOpen, localSocket, listenerVars, mySocket, printed, lost, reports>>

discoveryTask ==
  \/ DiscoveryOpens \/ DiscoveryListens
  \/ \E putReady \in BOOLEAN : DiscoveryAnswers(putReady)

-----------------------------------------------------------------------------
\* localAccessTask and handleMessage.
LocalDone == at = "local" /\ Goto("stack") /\ sent' = Nothing

LocalOpens ==
  /\ LocalDone
  /\ localSocket = InvalidSocket
  /\ localSocket' = UDPOpen
  /\ pool' = Opened("local", NoAddress)
  /\ UNCHANGED <<stackOpen, rx, listenerVars, mySocket, discoverySM, printed, lost,
                 reports, requests>>

LocalReads == localSocket # InvalidSocket /\ UDPIsGetReady(localSocket)

\* Nothing to read, or a message that is no concern of the sockets.
LocalListens ==
  /\ LocalDone
  /\ localSocket # InvalidSocket
  /\ LocalReads => rx.says = "other"
  /\ rx' = IF LocalReads THEN NoDatagram ELSE rx
  /\ UNCHANGED <<pool, stackOpen, taskVars, lost, reports, requests>>

\* The listener is the sender of the message, at the port it has sent from.
Listener ==
  /\ remote' = pool[localSocket].remote.host
  /\ localPort' = pool[localSocket].remote.port

\* Mutants of registerListener: the old socket is kept, or not closed.
RegisterKeeping == Listener /\ UNCHANGED <<pool, s>>
RegisterForgetting == Listener /\ s' = InvalidSocket /\ UNCHANGED pool

\* The next report will open a socket to the new listener.
registerListener ==
  /\ Listener
  /\ s' = InvalidSocket
  /\ pool' = IF s # InvalidSocket THEN UDPClose(s) ELSE pool

LocalRegisters ==
  /\ LocalDone
  /\ LocalReads /\ rx.says = "reglistener"
  /\ registerListener
  /\ rx' = NoDatagram
  /\ registered' = rx.from /\ guests' = {}
  /\ UNCHANGED <<stackOpen, localSocket, mySocket, discoverySM, printed, lost, requests>>

\* The message disconnect, a save of the settings, the watchdog, or power.
Reset == Booted /\ UNCHANGED debugBuild

LocalDisconnects == at = "local" /\ LocalReads /\ rx.says = "disconnect" /\ Reset

localAccessTask ==
  LocalOpens \/ LocalListens \/ LocalRegisters \/ LocalDisconnects

-----------------------------------------------------------------------------
SocketNext ==
  \/ StackTask
  \/ \E bound, putReady \in BOOLEAN : debugTask(bound, putReady)
  \/ \E putReady \in BOOLEAN : Report(putReady)
  \/ Received \/ discoveryTask \/ localAccessTask \/ Reset

\* The loop goes around; the stack is able to send again and again, and the
\* decoders have something to report again and again.
SocketFairness ==
  /\ WF_socketVars(at = "stack" /\ StackTask /\ at' # "stack")
  /\ WF_socketVars(\E bound, putReady \in BOOLEAN : debugTask(bound, putReady))
  /\ WF_socketVars(Received)
  /\ WF_socketVars(discoveryTask)
  /\ WF_socketVars(localAccessTask)
  /\ SF_socketVars(DiscoveryAnswers(TRUE))
  /\ SF_socketVars(Report(TRUE))

SocketSpec == SocketInit /\ [][SocketNext]_socketVars
FairSocketSpec == SocketSpec /\ SocketFairness

-----------------------------------------------------------------------------
Ports == {"any", "stack"} \cup FirmwarePorts \cup ClientPorts
Texts == {"nothing", "reglistener", "disconnect", "D", "other"}
Addresses == [host : Hosts \cup {Nobody}, port : Ports]
Pools == [Sockets -> [port : Ports \cup {"none"}, remote : Addresses]]
Datagrams == [socket : Sockets \cup {InvalidSocket}, from : Addresses, says : Texts]

SocketTypeOK ==
  /\ debugBuild \in BOOLEAN
  /\ at \in {"stack", "debug", "receive", "discovery", "local"}
  /\ pool \in Pools
  /\ rx \in Datagrams
  /\ {localSocket, s, mySocket} \subseteq Sockets \cup {InvalidSocket}
  /\ remote \in Hosts \cup {Nobody} /\ localPort \in Ports
  /\ discoverySM \in {"HOME", "LISTEN", "REQUEST_RECEIVED"}
  /\ {printed, asked} \subseteq BOOLEAN
  /\ lost \cup stackOpen \subseteq Sockets
  /\ {registered, asker} \cup guests \subseteq Addresses

Valid(n) == n # InvalidSocket

\* Every open socket belongs to one task, which still knows it, or to the stack:
\* none is lost or held twice, whoever registers from whatever port and in
\* whatever order sockets are opened and closed, but for those that putchflush
\* leaves open in a debug build (debug.c:28).
SocketsAccounted ==
  LET held == {localSocket, s, mySocket} \ {InvalidSocket}
  IN  /\ Open = held \cup stackOpen \cup lost
      /\ held \cap (stackOpen \cup lost) = {} /\ stackOpen \cap lost = {}
      /\ Valid(s) => s # localSocket /\ s # mySocket /\ pool[s].port = localPort
      /\ Valid(localSocket) => localSocket # mySocket /\ pool[localSocket].port = "local"
      /\ Valid(mySocket) => pool[mySocket].port = "discovery"
      /\ \A n \in stackOpen : pool[n].port = "stack"
      /\ \A n \in lost : pool[n].port = "any"
      /\ lost # {} => debugBuild

\* MAX_UDP_SOCKETS of TCPIPConfig.h is just enough: in a release build no UDPOpen
\* of the firmware fails, even while the stack has all its own sockets open.
EnoughSockets ==
  ~ debugBuild /\ Free = {} =>
    Valid(localSocket) /\ Valid(mySocket) /\ Valid(s)

\* What a step sends: a report to who is registered or has sent to the listener's
\* socket since, a reply only for a request.
SendsRight ==
  /\ sent'.what = "report" => sent'.to \in {registered} \cup guests
  /\ sent'.what = "reply" => asked

\* The task that reads for the listener takes the registration that has come.
RegistrationTaken ==
  at = "local" /\ at' # at /\ rx.says = "reglistener" /\ localPort # "local" =>
    \/ registered' = rx.from /\ rx.from = [host |-> remote', port |-> localPort']
    \/ Reset

\* A registration is taken in the round of the loop in which it comes, unless
\* the client that is registered sends from LOCAL_ACCESS_PORT: only then can the
\* listener's socket get it, which nobody reads (tellsticknet.c:27, 41).  A report
\* goes to the client that registered last, at the port it registered from, and
\* to nobody before it (tellsticknet.c:24-55); or, since that port is open for
\* everybody, to somebody who has sent to the listener's socket after it.
\* Nobody gets a reply without a request, or two for one.
ServesTheLatest == [][SendsRight /\ RegistrationTaken]_socketVars

\* A registered client is told: in a release build, one of the reports that keep
\* coming reaches it, unless another one registers or sends to the listener's
\* socket, or the device restarts.
ListenerTold ==
  \A c \in Clients :
    ~ debugBuild /\ registered = c ~>
      sent = [what |-> "report", to |-> c] \/ registered # c \/ guests # {}

\* A discovery request is answered to who sent it, in a later round if the stack
\* is busy, unless somebody else sends to the socket of discoveryTask before that,
\* who then gets the reply (discovery.c:52-63), or the device restarts.
DiscoveryAnswered ==
  \A c \in Clients :
    asker = c ~> sent = [what |-> "reply", to |-> c] \/ asker # c
=============================================================================
