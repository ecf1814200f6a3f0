SPECIFICATION Spec
CONSTANTS
  Users = {u1, u2}
  ExtInvoices = {x1}
  OfferDescribed = {TRUE}
  InvoiceOwners = {u1}
  OfferOwners = {}
  RecoveryUsers = {}
  InvoiceAmounts = {110500}
  ReceiveAmounts = {110500}
  SendAmounts = {100000}
  OnchainSats = {}
  RoutingFees = {0, 12000}
  OnchainFees = {}
  min_amount_sats = 1
  max_amount_sats = 100000
  fee_ppm = 5000
  base_fee_msat = 10000
  onchain_base_fee_msat = 5000000
  max_pending_payments_per_user = 10
  U64 = 1073741824
  MaxRetries = 0
  MaxIds = 2
  MaxCrashes = 0
  NULL = NULL
INVARIANT ReportedBalanceTrue
CHECK_DEADLOCK FALSE
