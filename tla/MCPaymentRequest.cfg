\* Every text of up to three schemes; amounts on both sides of a satoshi and of
\* the smallest on-chain payment.
SPECIFICATION Spec
CONSTANTS
  Amounts = {0, 999, 1000, 1500, 1000999}
  Sendable = {0, 1000, 2000000}
  MaxSchemes = 3
  NULL = NULL
INVARIANTS
  TypeOK
  PaysWhatWasAgreed
  ParsersPartition
CHECK_DEADLOCK FALSE
