SPECIFICATION FairSpec
CONSTANTS
  order = order
  payment = payment
  sku = sku
  full = full
  oversized = oversized
  message = message
  refundKey = refundKey
  confirmKey = confirmKey
  Blank = Blank
  NoKey = NoKey
  NoRule = NoRule
  Raised = Raised
  None = None
  garbage = garbage
  understated = understated
  overstated = overstated
  Replacements = {garbage}
  Passing <- ValidatorPasses
  Reading <- QuantityIn
  Orders = {order}
  Payments = {payment}
  Skus = {sku}
  Amounts = {full}
  OversizedAmounts = {oversized}
  Texts = {refundKey, confirmKey, message, Blank}
  Strip <- Same
  Profiles <- PersistentProfiles
  RuleTools = {"refund_payment", "restore_inventory", "get_inventory"}
  RuleNumbers = {1, 2, 3}
  RuleTypes = {"exception", "timeout_after_commit"}
  MaxRules = 3
  Budgets = {3, 5, 50}
  MaxOthers = 0
INVARIANTS
  BaselinesAreValid
PROPERTY
  ExperimentsEnd
CHECK_DEADLOCK FALSE
