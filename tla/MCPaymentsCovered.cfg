SPECIFICATION Spec
CONSTANTS
  Users = {u1, u2}
  ExtInvoices = {x1}
  OfferDescribed = {TRUE}
  InvoiceOwners = {u1}
  OfferOwners = {u2}
  RecoveryUsers = {u1}
  InvoiceAmounts = {2100000}
  ReceiveAmounts = {2100000}
  SendAmounts = {1000000}
  OnchainSats = {1000}
  RoutingFees = {0, 1500}
  OnchainFees = {500}
  min_amount_sats = 1
  max_amount_sats = 3000
  fee_ppm = 500
  base_fee_msat = 1000
  onchain_base_fee_msat = 1000
  max_pending_payments_per_user = 2
  U64 = 1073741824
  MaxRetries = 0
  MaxIds = 3
  MaxCrashes = 1
  NULL = NULL
INVARIANTS TransfersPaired RowMatchesNode OrphansBounded NoOverdraft Solvent
PROPERTY ImplementsWallet
CHECK_DEADLOCK FALSE
