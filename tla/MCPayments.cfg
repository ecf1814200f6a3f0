SPECIFICATION Spec
CONSTANTS
  Users = {u1, u2}
  ExtInvoices = {x1}
  OfferDescribed = {TRUE, FALSE}
  InvoiceOwners = {u1, u2}
  OfferOwners = {u1}
  RecoveryUsers = {}
  InvoiceAmounts = {1000000}
  ReceiveAmounts = {1100000}
  SendAmounts = {1000000}
  OnchainSats = {}
  RoutingFees = {4000}
  OnchainFees = {500}
  min_amount_sats = 1
  max_amount_sats = 2000
  fee_ppm = 500
  base_fee_msat = 1000
  onchain_base_fee_msat = 1000
  max_pending_payments_per_user = 1
  U64 = 1073741824
  MaxRetries = 1
  MaxIds = 3
  MaxCrashes = 1
  NULL = NULL
INVARIANTS TypeOK PendingHasOutcome ReceiptsCredited FeedCurrent
CHECK_DEADLOCK FALSE
