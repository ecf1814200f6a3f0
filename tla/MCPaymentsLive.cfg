SPECIFICATION FairSpec
CONSTANTS
  Users = {u1, u2}
  ExtInvoices = {x1}
  OfferDescribed = {TRUE, FALSE}
  InvoiceOwners = {u1}
  OfferOwners = {}
  RecoveryUsers = {}
  InvoiceAmounts = {4100000}
  ReceiveAmounts = {4100000}
  SendAmounts = {2000000}
  OnchainSats = {}
  RoutingFees = {1000}
  OnchainFees = {}
  min_amount_sats = 1
  max_amount_sats = 5000
  fee_ppm = 500
  base_fee_msat = 1000
  onchain_base_fee_msat = 1000
  max_pending_payments_per_user = 2
  U64 = 1073741824
  MaxRetries = 1
  MaxIds = 2
  MaxCrashes = 2
  NULL = NULL
PROPERTIES SendsResolve ReceiptsResolve
CHECK_DEADLOCK FALSE
