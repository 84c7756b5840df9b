---------------------------- MODULE CommerceSandbox ----------------------------
(***************************************************************************)
(* The commerce system under test as its callers meet it: any number of    *)
(* them send any requests in any order, repeat them, with keys and         *)
(* without, and the runner resets the state between runs.                  *)
(***************************************************************************)
EXTENDS CommerceOperations

CONSTANTS
  OrderIds, PaymentIds, SkuIds,   \* the identifiers that callers pass
  Quantities,                     \* the quantities that callers pass
  Money,                          \* the amounts that callers pass
  KeyArguments,                   \* the keys that callers pass
  Messages,                       \* the messages that callers pass
  MaxEntries,                     \* bound on the numbers of refunds and of notifications
  MaxStock                        \* bound on the stock

ASSUME ArgumentsAssumption ==
  /\ KeyArguments \subseteq Texts \cup {NoKey}
  /\ Messages \subseteq Texts
  /\ Quantities \subseteq Int

VARIABLES db,      \* the repository
          last     \* the last call: operation, and for the keyed ones request and answer

vars == <<db, last>>

RefundRequests == [payment : PaymentIds, amount : Money]
ConfirmationRequests == [order : OrderIds, message : {Strip[m] : m \in Messages}]

IsLedger(l, requests) ==
  /\ l.next \in Nat \ {0}
  /\ DOMAIN l.entries \subseteq 1..(l.next - 1)
  /\ \A i \in DOMAIN l.entries :
        l.entries[i] \in [request : requests, key : Keys \cup {NoKey}]
  /\ DOMAIN l.index \subseteq Keys
  /\ \A k \in DOMAIN l.index : l.index[k] \in [request : requests, id : Nat]

TypeOK ==
  /\ db.orders \in [Orders -> {"confirmed", "cancelled"}]
  /\ db.payments \in [Payments -> {"captured", "refunded"}]
  /\ db.stock \in [Skus -> Nat]
  /\ IsLedger(db.refunds, RefundRequests)
  /\ IsLedger(db.notifications, ConfirmationRequests)

Call(op) == [op |-> op]
KeyedCall(op, q, rawKey, answer) ==
  [op |-> op, exchange |-> [request |-> q, key |-> NormalKey(rawKey), answer |-> answer]]

Init == db = InitialState /\ last = Call("reset")

Cancel(o) == db' = CancelOrder(db, o).db /\ last' = Call("cancel")

Refund(q, k) ==
  LET result == RefundPayment(db, q, k)
  IN  /\ result.db.refunds.next <= MaxEntries + 1
      /\ db' = result.db
      /\ last' = KeyedCall("refund", q, k, result.answer)

Restore(s, n) ==
  /\ s \in Skus => db.stock[s] + n <= MaxStock
  /\ db' = RestoreInventory(db, s, n).db
  /\ last' = Call("restore")

Confirm(o, m, k) ==
  LET result == SendConfirmation(db, o, m, k)
      q == [order |-> o, message |-> Strip[m]]
  IN  /\ result.db.notifications.next <= MaxEntries + 1
      /\ db' = result.db
      /\ last' = KeyedCall("confirm", q, k, result.answer)

Reset == db' = InitialState /\ last' = Call("reset")

Next ==
  \/ \E o \in OrderIds : Cancel(o)
  \/ \E q \in RefundRequests, k \in KeyArguments : Refund(q, k)
  \/ \E s \in SkuIds, n \in Quantities : Restore(s, n)
  \/ \E o \in OrderIds, m \in Messages, k \in KeyArguments : Confirm(o, m, k)
  \/ Reset

Spec == Init /\ [][Next]_vars

-----------------------------------------------------------------------------
\* Properties.

IndexMatchesEntries(l) ==
  /\ \A k \in DOMAIN l.index :
        /\ l.index[k].id \in DOMAIN l.entries
        /\ l.entries[l.index[k].id] = [request |-> l.index[k].request, key |-> k]
  /\ \A i \in DOMAIN l.entries : l.entries[i].key # NoKey =>
        l.entries[i].key \in DOMAIN l.index /\ l.index[l.entries[i].key].id = i

\* The indexes and the entries never part, whatever was refused in between: the
\* RuntimeError "idempotency index references missing state" cannot be raised, and no
\* entry made under a key can be made again.
IndexesMatchState ==
  IndexMatchesEntries(db.refunds) /\ IndexMatchesEntries(db.notifications)

\* A payment is marked refunded exactly when a refund of it exists: what an agent reads
\* in the one place never contradicts the other.
RefundedPaymentsHaveRefunds ==
  \A p \in Payments :
    db.payments[p] = "refunded" <=>
      \E i \in DOMAIN db.refunds.entries : db.refunds.entries[i].request.payment = p

Kept(l, m) ==
  /\ \A i \in DOMAIN l.entries : i \in DOMAIN m.entries /\ m.entries[i] = l.entries[i]
  /\ \A i \in DOMAIN m.entries \ DOMAIN l.entries : i >= l.next
  /\ m.next >= l.next

\* Until the next reset no entry is changed or lost, and no number is given twice, not
\* even one whose refund was refused after the number was taken.
EntriesAreFinal ==
  [][\/ db' = InitialState
     \/ Kept(db.refunds, db'.refunds) /\ Kept(db.notifications, db'.notifications)]_vars

ExchangeOf(op) == IF last.op = op THEN last.exchange ELSE Raised
AsEffects(l) == {EntryAt(l, i) : i \in DOMAIN l.entries}

Refunds == INSTANCE IdempotentEffects WITH
  Requests <- RefundRequests, Ids <- Nat, NotAKey <- Blank, Nothing <- Raised,
  effects <- AsEffects(db.refunds), exchange <- ExchangeOf("refund")

Confirmations == INSTANCE IdempotentEffects WITH
  Requests <- ConfirmationRequests, Ids <- Nat, NotAKey <- Blank, Nothing <- Raised,
  effects <- AsEffects(db.notifications), exchange <- ExchangeOf("confirm")

\* A refund key is good for one refund: whoever repeats a request under a key is told of
\* the refund that was made for it, and a different request under the key is refused.
ImplementsRefundEffects == Refunds!Spec

\* The same of confirmations, whose messages are compared after stripping.
ImplementsConfirmationEffects == Confirmations!Spec
===============================================================================
