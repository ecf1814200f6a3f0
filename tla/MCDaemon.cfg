\* One stop and one crash; a drain, a channel and a channel request.
SPECIFICATION DaemonSpec
CONSTANTS
  Channels = {c1, c2}
  Peers = {lsp}
  Lsp = lsp
  Public = {lsp}
  Mainnet = TRUE
  ChannelSats = 1
  Sends = {1}
  MaxWallet = 2
  MaxRequests = 3
  EventKinds = {"ok", "missing", "old"}
  MaxKeys = 2
  MaxPayments = 1
  MaxEvents = 1
  MaxStops = 1
  MaxCrashes = 1
  MaxWork = 3
INVARIANTS
  ReserveKept
  OrderReachable
  StopLeavesNoOrphan
  RedeliveredOnlyAfterCrash
  IdentityStable
  PublicNodesTried
PROPERTIES ShutdownCompletes EventsHandled
CHECK_DEADLOCK FALSE
