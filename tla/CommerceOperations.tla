-------------------------- MODULE CommerceOperations --------------------------
(***************************************************************************)
(* The operations of CommerceSandbox (sandbox.py) on the state that        *)
(* InMemoryCommerceStateRepository (repository.py) keeps, behind the       *)
(* argument checks of the tool handlers (tools.py).                        *)
(*                                                                         *)
(* An operation takes the state and the request and gives the new state    *)
(* and the answer.  No operation suspends, so each is one step of whoever  *)
(* calls it.  The typed errors all reach a caller in the same way and are  *)
(* one value here, Raised.                                                *)
(***************************************************************************)
EXTENDS Integers

CONSTANTS
  Orders, Payments, Skus,   \* the identifiers the fixture holds
  Amounts,                  \* amounts of money that the Refund model accepts
  OversizedAmounts,         \* positive amounts of at most two decimals that it rejects
  Texts,                    \* what callers pass as a key or a message
  Strip,                    \* Python's str.strip on Texts
  Blank,                    \* the empty string
  NoKey,                    \* Python's None for a key
  Raised                   \* the operation raised

ASSUME StripAssumption ==
  /\ Blank \in Texts /\ NoKey \notin Texts
  /\ Strip \in [Texts -> Texts]
  /\ \A t \in Texts : Strip[Strip[t]] = Strip[t]

ASSUME AmountsAssumption == Amounts \cap OversizedAmounts = {}

Keys == {Strip[t] : t \in Texts} \ {Blank}

Put(f, x, v) == [y \in DOMAIN f \cup {x} |-> IF y = x THEN v ELSE f[y]]
Nowhere == [x \in {} |-> Blank]

\* Mutant: the key is used as it was given.
NormalKey_asGiven(k) == k

\* _normalize_idempotency_key; Blank stands for the error.
NormalKey(k) == IF k = NoKey THEN NoKey ELSE Strip[k]

-----------------------------------------------------------------------------
\* Refunds and notifications are kept alike: entries by number, an index from keys to the
\* requests they were used for, and the number of the next entry.

EmptyLedger == [entries |-> Nowhere, index |-> Nowhere, next |-> 1]

EntryAt(l, i) == [id |-> i, request |-> l.entries[i].request, key |-> l.entries[i].key]

\* Mutant: the number of the next entry does not move.
Create_numberNotTaken(l, q, k) ==
  [entries |-> Put(l.entries, l.next, [request |-> q, key |-> k]),
   index   |-> IF k = NoKey THEN l.index
               ELSE Put(l.index, k, [request |-> q, id |-> l.next]),
   next    |-> l.next]

\* Mutant: the index is written with the number that comes after the entry's.
Create_indexesNext(l, q, k) ==
  [entries |-> Put(l.entries, l.next, [request |-> q, key |-> k]),
   index   |-> IF k = NoKey THEN l.index
               ELSE Put(l.index, k, [request |-> q, id |-> l.next + 1]),
   next    |-> l.next + 1]

\* Mutant: the key is not remembered.
Create_forgetsKey(l, q, k) ==
  [entries |-> Put(l.entries, l.next, [request |-> q, key |-> k]),
   index   |-> l.index,
   next    |-> l.next + 1]

Create(l, q, k) ==
  [entries |-> Put(l.entries, l.next, [request |-> q, key |-> k]),
   index   |-> IF k = NoKey THEN l.index
               ELSE Put(l.index, k, [request |-> q, id |-> l.next]),
   next    |-> l.next + 1]

\* Mutant: a key answers any request with what it was first used for.
Replayed_unchecked(l, q, k) == EntryAt(l, l.index[k].id)

\* The answer under a key that the index holds: a different request is a conflict, and an
\* index entry that refers to nothing is a RuntimeError.
Replayed(l, q, k) ==
  IF l.index[k].request = q /\ l.index[k].id \in DOMAIN l.entries
  THEN EntryAt(l, l.index[k].id)
  ELSE Raised

-----------------------------------------------------------------------------
\* The state and its operations.

\* repository.reset
InitialState ==
  [orders        |-> [o \in Orders |-> "confirmed"],
   payments      |-> [p \in Payments |-> "captured"],
   stock         |-> [s \in Skus |-> 9],
   refunds       |-> EmptyLedger,
   notifications |-> EmptyLedger]

Answer(db, answer) == [db |-> db, answer |-> answer]

\* Cancelling a cancelled order saves nothing and answers alike.
CancelOrder(db, o) ==
  IF o \in Orders
  THEN Answer([db EXCEPT !.orders[o] = "cancelled"], "cancelled")
  ELSE Answer(db, Raised)

\* Mutant: the payment keeps its status.
NewRefund_paymentNotSaved(db, q, k) ==
  LET ledger == Create(db.refunds, q, k)
  IN  Answer([db EXCEPT !.refunds = ledger], EntryAt(ledger, db.refunds.next))

\* The model refuses an oversized amount only after the number was taken.
NewRefund(db, q, k) ==
  IF q.amount \in OversizedAmounts
  THEN Answer([db EXCEPT !.refunds.next = @ + 1], Raised)
  ELSE LET ledger == Create(db.refunds, q, k)
       IN  Answer([db EXCEPT !.refunds = ledger, !.payments[q.payment] = "refunded"],
                  EntryAt(ledger, db.refunds.next))

\* The amount and the key are checked first, the payment only if there is nothing to replay.
RefundPayment(db, q, rawKey) ==
  LET k == NormalKey(rawKey)
  IN  IF q.amount \notin Amounts \cup OversizedAmounts \/ k = Blank
      THEN Answer(db, Raised)
      ELSE IF k \in DOMAIN db.refunds.index
      THEN Answer(db, Replayed(db.refunds, q, k))
      ELSE IF q.payment \notin Payments
      THEN Answer(db, Raised)
      ELSE NewRefund(db, q, k)

\* restore_inventory takes any positive quantity and adds it every time it is called.
RestoreInventory(db, s, n) ==
  IF n > 0 /\ s \in Skus
  THEN Answer([db EXCEPT !.stock[s] = @ + n], db.stock[s] + n)
  ELSE Answer(db, Raised)

GetInventory(db, s) == Answer(db, IF s \in Skus THEN db.stock[s] ELSE Raised)

SendConfirmation(db, o, message, rawKey) ==
  LET k == NormalKey(rawKey)
      q == [order |-> o, message |-> Strip[message]]
      ledger == Create(db.notifications, q, k)
  IN  IF q.message = Blank \/ k = Blank
      THEN Answer(db, Raised)
      ELSE IF k \in DOMAIN db.notifications.index
      THEN Answer(db, Replayed(db.notifications, q, k))
      ELSE IF o \notin Orders
      THEN Answer(db, Raised)
      ELSE Answer([db EXCEPT !.notifications = ledger],
                  EntryAt(ledger, db.notifications.next))
===============================================================================
