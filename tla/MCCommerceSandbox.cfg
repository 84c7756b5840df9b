SPECIFICATION Spec
CONSTANTS
  order = order
  payment = payment
  sku = sku
  unknown = unknown
  full = full
  oversized = oversized
  invalid = invalid
  k1 = k1
  k1padded = k1padded
  k2 = k2
  message = message
  messagePadded = messagePadded
  Blank = Blank
  NoKey = NoKey
  Raised = Raised
  Orders = {order}
  Payments = {payment}
  Skus = {sku}
  Amounts = {full}
  OversizedAmounts = {oversized}
  Texts = {k1, k1padded, k2, message, messagePadded, Blank}
  Strip <- StripPadding
  OrderIds = {order, unknown}
  PaymentIds = {payment, unknown}
  SkuIds = {sku, unknown}
  Quantities = {0, 1}
  Money = {full, oversized, invalid}
  KeyArguments = {k1, k1padded, k2, Blank, NoKey}
  Messages = {messagePadded, message, Blank}
  MaxEntries = 2
  MaxStock = 10
INVARIANTS
  TypeOK
  IndexesMatchState
  RefundedPaymentsHaveRefunds
PROPERTIES
  EntriesAreFinal
  ImplementsRefundEffects
  ImplementsConfirmationEffects
CHECK_DEADLOCK FALSE
