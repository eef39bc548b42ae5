SPECIFICATION FairSocketSpec
CONSTANTS
  h1 = h1
  h2 = h2
  Hosts = {h1, h2}
  ClientPorts = {"local", "discovery"}
  Clients <- MCClients
  Nobody = Nobody
  MaxSockets = 4
  StackSockets = 1
INVARIANT SocketTypeOK
INVARIANT SocketsAccounted
INVARIANT EnoughSockets
PROPERTY ServesTheLatest
PROPERTY ListenerTold
PROPERTY DiscoveryAnswered
