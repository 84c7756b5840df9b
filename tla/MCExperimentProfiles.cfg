SPECIFICATION Spec
CONSTANTS
  order = order
  payment = payment
  sku = sku
  full = full
  oversized = oversized
  message = message
  refundKey = refundKey
  confirmKey = confirmKey
  Blank = Blank
  NoKey = NoKey
  NoRule = NoRule
  Raised = Raised
  None = None
  garbage = garbage
  understated = understated
  overstated = overstated
  Replacements <- Forgeries
  Passing <- ValidatorPasses
  Reading <- QuantityIn
  Orders = {order}
  Payments = {payment}
  Skus = {sku}
  Amounts = {full}
  OversizedAmounts = {oversized}
  Texts = {refundKey, confirmKey, message, Blank}
  Strip <- Same
  Profiles <- AgentProfiles
  RuleTools <- Tools
  RuleNumbers = {1, 2, 3}
  RuleTypes <- FaultTypes
  MaxRules = 2
  Budgets = {50}
  MaxOthers = 1
INVARIANTS
  TypeOK
  KeyedEffectsHappenOnce
  KeyedSilentFailuresAreInventory
  ReconciledStockIsRestoredOnce
  RulesFireWhenReached
  FaultsAreIsolated
  HonestClaimsAreBacked
  AbortingAgentsKeepTheOrder
CHECK_DEADLOCK FALSE
