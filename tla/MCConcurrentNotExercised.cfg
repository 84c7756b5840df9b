SPECIFICATION Spec
CONSTANTS
  c1 = c1
  c2 = c2
  c3 = c3
  order = order
  payment = payment
  sku = sku
  full = full
  half = half
  key = key
  done = done
  unknownOrder = unknownOrder
  Blank = Blank
  NoKey = NoKey
  NoRule = NoRule
  Raised = Raised
  None = None
  forged = forged
  Replacements = {forged}
  Malformed = Malformed
  NoFrame = NoFrame
  NoReply = NoReply
  Orders = {order}
  Payments = {payment}
  Skus = {sku}
  Amounts = {full, half}
  OversizedAmounts = {}
  Texts = {key, done, Blank}
  Strip <- Same
  Calls = {c1, c2, c3}
  Requests <- OrderRequests
  FaultRules <- OrderRules
  MaxRules = 1
  Budgets = {50}
INVARIANT
  NotExercisedMeansNotInjected
CHECK_DEADLOCK FALSE
