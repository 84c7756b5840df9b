SPECIFICATION Spec
CONSTANTS
  order = order
  payment = payment
  sku = sku
  full = full
  oversized = oversized
  message = message
  refundKey = refundKey
  confirmKey = confirmKey
  Blank = Blank
  NoKey = NoKey
  NoRule = NoRule
  Raised = Raised
  None = None
  garbage = garbage
  understated = understated
  overstated = overstated
  Replacements = {garbage}
  Passing <- ValidatorPasses
  Reading <- QuantityIn
  Orders = {order}
  Payments = {payment}
  Skus = {sku}
  Amounts = {full}
  OversizedAmounts = {oversized}
  Texts = {refundKey, confirmKey, message, Blank}
  Strip <- Same
  Profiles <- OnlyReconciling
  RuleTools = {"restore_inventory", "get_inventory"}
  RuleNumbers = {1}
  RuleTypes = {"rate_limit", "timeout_after_commit"}
  MaxRules = 2
  Budgets = {50}
  MaxOthers = 0
INVARIANT
  RetriesAreProbed
CHECK_DEADLOCK FALSE
