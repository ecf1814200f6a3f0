\* One watched user with a deposit, an external payment and a transfer to or
\* from another user: three payments and a snapshot of two.
SPECIFICATION FeedSpec
CONSTANTS
  Users = {u1, u2}
  ExtInvoices = {x1}
  OfferDescribed = {}
  InvoiceOwners = {u1}
  OfferOwners = {}
  RecoveryUsers = {u1}
  InvoiceAmounts = {1000000}
  ReceiveAmounts = {2100000}
  SendAmounts = {1000000}
  OnchainSats = {}
  RoutingFees = {500}
  OnchainFees = {}
  min_amount_sats = 1
  max_amount_sats = 3000
  fee_ppm = 500
  base_fee_msat = 1000
  onchain_base_fee_msat = 1000
  max_pending_payments_per_user = 2
  U64 = 1073741824
  MaxRetries = 0
  MaxIds = 2
  MaxCrashes = 1
  NULL = NULL
  Watcher = u1
  SnapshotLimit = 2
  MaxClock = 1
  MaxConnects = 2
INVARIANTS ShowsTheLedger AnnouncedOnce
CHECK_DEADLOCK FALSE
