------------------------ MODULE CommerceSandboxProofs ------------------------
(***************************************************************************)
(* What holds of the sandbox for all identifiers, amounts and texts: its   *)
(* indexes, its entries and its payments agree, entries are final, and it  *)
(* implements IdempotentEffects for refunds and for confirmations.         *)
(*                                                                         *)
(* The properties are inductive together.  An operation gives the new      *)
(* state as a value, so the argument is about operations on states: every  *)
(* operation takes a good state to a good state.                           *)
(***************************************************************************)
EXTENDS CommerceSandbox, TLAPS

GoodLedger(l, requests) ==
  /\ DOMAIN l = {"entries", "index", "next"}
  /\ IsLedger(l, requests)
  /\ IndexMatchesEntries(l)

\* What an entry is never made for is not in the ledger either; that a request repeated
\* under its key cannot be refused for its arguments rests on this.
AcceptedRefunds == {q \in RefundRequests : q.payment \in Payments /\ q.amount \in Amounts}
AcceptedConfirmations ==
  {q \in ConfirmationRequests : q.order \in Orders /\ q.message # Blank}

PaymentsMatchRefunds(payments, l) ==
  \A p \in Payments :
    payments[p] = "refunded" <=>
      \E i \in DOMAIN l.entries : l.entries[i].request.payment = p

Good(d) ==
  /\ DOMAIN d = {"orders", "payments", "stock", "refunds", "notifications"}
  /\ d.orders \in [Orders -> {"confirmed", "cancelled"}]
  /\ d.payments \in [Payments -> {"captured", "refunded"}]
  /\ d.stock \in [Skus -> Nat]
  /\ GoodLedger(d.refunds, AcceptedRefunds)
  /\ GoodLedger(d.notifications, AcceptedConfirmations)
  /\ PaymentsMatchRefunds(d.payments, d.refunds)

-----------------------------------------------------------------------------
\* Ledgers.

\* A key that is not blank is kept in its normal form, or there is none.
LEMMA NormalKeyType ==
  ASSUME NEW k \in Texts \cup {NoKey}
  PROVE  /\ NormalKey(k) \in Keys \cup {NoKey, Blank}
         /\ Blank \notin Keys
         /\ NoKey \notin Keys
         /\ Blank # NoKey
BY StripAssumption DEF NormalKey, Keys

LEMMA EmptyLedgerIsGood ==
  ASSUME NEW R
  PROVE  GoodLedger(EmptyLedger, R)
BY DEF GoodLedger, IsLedger, IndexMatchesEntries, EmptyLedger, Nowhere

LEMMA CreateIsGood ==
  ASSUME NEW R, NEW l, GoodLedger(l, R), NEW q \in R, NEW k \in Keys \cup {NoKey},
         k \notin DOMAIN l.index
  PROVE  /\ GoodLedger(Create(l, q, k), R)
         /\ Kept(l, Create(l, q, k))
         /\ l.next \in Nat \ {0}
         /\ l.next \notin DOMAIN l.entries
         /\ DOMAIN Create(l, q, k).entries = DOMAIN l.entries \cup {l.next}
         /\ Create(l, q, k).entries[l.next] = [request |-> q, key |-> k]
         /\ \A i \in DOMAIN l.entries : Create(l, q, k).entries[i] = l.entries[i]
<1>. DEFINE m == Create(l, q, k)
<1>1. /\ DOMAIN m = {"entries", "index", "next"}
      /\ m.entries = Put(l.entries, l.next, [request |-> q, key |-> k])
      /\ m.index = IF k = NoKey THEN l.index
                   ELSE Put(l.index, k, [request |-> q, id |-> l.next])
      /\ m.next = l.next + 1
  BY DEF Create
<1>2. /\ l.next \in Nat \ {0}
      /\ l.next \notin DOMAIN l.entries
      /\ DOMAIN l.entries \subseteq 1..(l.next - 1)
  BY DEF GoodLedger, IsLedger
<1>. HIDE DEF m
<1>3. /\ DOMAIN m.entries = DOMAIN l.entries \cup {l.next}
      /\ m.entries[l.next] = [request |-> q, key |-> k]
      /\ \A i \in DOMAIN l.entries : m.entries[i] = l.entries[i]
  <2>. DEFINE v == [request |-> q, key |-> k]
  <2>1. m.entries = Put(l.entries, l.next, v)
    BY <1>1
  <2>. HIDE DEF v
  <2>2. /\ DOMAIN m.entries = DOMAIN l.entries \cup {l.next}
        /\ m.entries[l.next] = v
        /\ \A i \in DOMAIN l.entries : i # l.next => m.entries[i] = l.entries[i]
    BY <2>1 DEF Put
  <2>. QED
    BY <2>2, <1>2 DEF v
<1>4. /\ k = NoKey => m.index = l.index
      /\ k # NoKey => /\ DOMAIN m.index = DOMAIN l.index \cup {k}
                      /\ m.index[k] = [request |-> q, id |-> l.next]
      /\ \A j \in DOMAIN l.index : j \in DOMAIN m.index /\ m.index[j] = l.index[j]
  <2>1. CASE k = NoKey
    BY <1>1, <2>1
  <2>2. CASE k # NoKey
    <3>. DEFINE v == [request |-> q, id |-> l.next]
    <3>1. m.index = Put(l.index, k, v)
      BY <1>1, <2>2
    <3>. HIDE DEF v
    <3>2. /\ DOMAIN m.index = DOMAIN l.index \cup {k}
          /\ m.index[k] = v
          /\ \A j \in DOMAIN l.index : j # k => m.index[j] = l.index[j]
      BY <3>1 DEF Put
    <3>. QED
      BY <3>2, <2>2 DEF v
  <2>. QED
    BY <2>1, <2>2
<1>5. IsLedger(m, R)
  <2>1. m.next \in Nat \ {0} /\ DOMAIN m.entries \subseteq 1..(m.next - 1)
    BY <1>1, <1>2, <1>3
  <2>2. \A i \in DOMAIN m.entries : m.entries[i] \in [request : R, key : Keys \cup {NoKey}]
    BY <1>3 DEF GoodLedger, IsLedger
  <2>3. DOMAIN m.index \subseteq Keys
    BY <1>4 DEF GoodLedger, IsLedger
  <2>4. \A j \in DOMAIN m.index : m.index[j] \in [request : R, id : Nat]
    BY <1>2, <1>4 DEF GoodLedger, IsLedger
  <2>. QED
    BY <2>1, <2>2, <2>3, <2>4 DEF IsLedger
<1>6. IndexMatchesEntries(m)
  <2>1. ASSUME NEW j \in DOMAIN m.index
        PROVE  /\ m.index[j].id \in DOMAIN m.entries
               /\ m.entries[m.index[j].id] = [request |-> m.index[j].request, key |-> j]
    <3>1. CASE j \in DOMAIN l.index
      BY <3>1, <1>3, <1>4 DEF GoodLedger, IndexMatchesEntries
    <3>2. CASE j \notin DOMAIN l.index
      BY <3>2, <1>3, <1>4
    <3>. QED
      BY <3>1, <3>2
  <2>2. ASSUME NEW i \in DOMAIN m.entries, m.entries[i].key # NoKey
        PROVE  m.entries[i].key \in DOMAIN m.index /\ m.index[m.entries[i].key].id = i
    <3>1. CASE i = l.next
      BY <2>2, <3>1, <1>3, <1>4
    <3>2. CASE i # l.next
      <4>1. i \in DOMAIN l.entries /\ m.entries[i] = l.entries[i]
        BY <3>2, <1>3
      <4>2. l.entries[i].key \in DOMAIN l.index /\ l.index[l.entries[i].key].id = i
        BY <2>2, <4>1 DEF GoodLedger, IndexMatchesEntries
      <4>. QED
        BY <4>1, <4>2, <1>4
    <3>. QED
      BY <3>1, <3>2
  <2>. QED
    BY <2>1, <2>2 DEF IndexMatchesEntries
<1>7. Kept(l, m)
  BY <1>1, <1>2, <1>3 DEF Kept
<1>. QED
  BY <1>1, <1>2, <1>3, <1>5, <1>6, <1>7 DEF GoodLedger, m

\* A number that was taken for a refund that is then refused.
LEMMA SkippedNumberIsGood ==
  ASSUME NEW R, NEW l, GoodLedger(l, R)
  PROVE  /\ GoodLedger([l EXCEPT !.next = @ + 1], R)
         /\ Kept(l, [l EXCEPT !.next = @ + 1])
         /\ [l EXCEPT !.next = @ + 1].entries = l.entries
<1>. DEFINE m == [l EXCEPT !.next = @ + 1]
<1>1. /\ DOMAIN m = {"entries", "index", "next"}
      /\ m.entries = l.entries /\ m.index = l.index /\ m.next = l.next + 1
  BY DEF GoodLedger
<1>. HIDE DEF m
<1>2. IsLedger(m, R)
  <2>1. l.next \in Nat \ {0} /\ DOMAIN l.entries \subseteq 1..(l.next - 1)
    BY DEF GoodLedger, IsLedger
  <2>2. m.next \in Nat \ {0} /\ DOMAIN m.entries \subseteq 1..(m.next - 1)
    BY <1>1, <2>1
  <2>. QED
    BY <1>1, <2>2 DEF GoodLedger, IsLedger
<1>3. IndexMatchesEntries(m)
  BY <1>1 DEF GoodLedger, IndexMatchesEntries
<1>4. Kept(l, m)
  BY <1>1 DEF GoodLedger, IsLedger, Kept
<1>. QED
  BY <1>1, <1>2, <1>3, <1>4 DEF GoodLedger, m

LEMMA KeptByItself ==
  ASSUME NEW R, NEW l, GoodLedger(l, R)
  PROVE  Kept(l, l)
BY DEF Kept, GoodLedger, IsLedger

-----------------------------------------------------------------------------
\* The operations.

RefundIsRefused(d, q, k, result) ==
  /\ result = Answer(d, Raised)
  /\ k = Blank \/ q \notin AcceptedRefunds

RefundIsReplayed(d, q, k, result) ==
  /\ k \in DOMAIN d.refunds.index
  /\ result = Answer(d, Replayed(d.refunds, q, k))

RefundIsOversized(d, q, k, result) ==
  /\ q \notin AcceptedRefunds
  /\ result = Answer([d EXCEPT !.refunds = [d.refunds EXCEPT !.next = @ + 1]], Raised)

RefundIsMade(d, q, k, result) ==
  /\ q \in AcceptedRefunds
  /\ k \in Keys \cup {NoKey} /\ k \notin DOMAIN d.refunds.index
  /\ result = Answer([d EXCEPT !.refunds = Create(d.refunds, q, k),
                               !.payments = [d.payments EXCEPT ![q.payment] = "refunded"]],
                     EntryAt(Create(d.refunds, q, k), d.refunds.next))

\* The ways through refund_payment.
LEMMA RefundCases ==
  ASSUME NEW d, NEW q \in RefundRequests, NEW rawKey \in KeyArguments
  PROVE  LET k == NormalKey(rawKey)
             result == RefundPayment(d, q, rawKey)
         IN  \/ RefundIsRefused(d, q, k, result)
             \/ RefundIsReplayed(d, q, k, result)
             \/ RefundIsOversized(d, q, k, result)
             \/ RefundIsMade(d, q, k, result)
<1>. DEFINE k == NormalKey(rawKey)
            result == RefundPayment(d, q, rawKey)
<1>. SUFFICES \/ RefundIsRefused(d, q, k, result)
              \/ RefundIsReplayed(d, q, k, result)
              \/ RefundIsOversized(d, q, k, result)
              \/ RefundIsMade(d, q, k, result)
  OBVIOUS
<1>1. k \in Keys \cup {NoKey, Blank}
  BY NormalKeyType, ArgumentsAssumption
<1>2. result = IF q.amount \notin Amounts \cup OversizedAmounts \/ k = Blank
               THEN Answer(d, Raised)
               ELSE IF k \in DOMAIN d.refunds.index
               THEN Answer(d, Replayed(d.refunds, q, k))
               ELSE IF q.payment \notin Payments
               THEN Answer(d, Raised)
               ELSE NewRefund(d, q, k)
  BY DEF RefundPayment
<1>3. NewRefund(d, q, k) =
        IF q.amount \in OversizedAmounts
        THEN Answer([d EXCEPT !.refunds = [d.refunds EXCEPT !.next = @ + 1]], Raised)
        ELSE Answer([d EXCEPT !.refunds = Create(d.refunds, q, k),
                              !.payments = [d.payments EXCEPT ![q.payment] = "refunded"]],
                    EntryAt(Create(d.refunds, q, k), d.refunds.next))
  BY DEF NewRefund
<1>. HIDE DEF k, result
<1>4. CASE q.amount \notin Amounts \cup OversizedAmounts \/ k = Blank
  BY <1>2, <1>4 DEF RefundIsRefused, AcceptedRefunds
<1>5. CASE /\ q.amount \in Amounts \cup OversizedAmounts /\ k # Blank
           /\ k \in DOMAIN d.refunds.index
  BY <1>2, <1>5 DEF RefundIsReplayed
<1>6. CASE /\ q.amount \in Amounts \cup OversizedAmounts /\ k # Blank
           /\ k \notin DOMAIN d.refunds.index
           /\ q.payment \notin Payments
  BY <1>2, <1>6 DEF RefundIsRefused, AcceptedRefunds
<1>7. CASE /\ q.amount \in Amounts \cup OversizedAmounts /\ k # Blank
           /\ k \notin DOMAIN d.refunds.index
           /\ q.payment \in Payments
  <2>1. result = NewRefund(d, q, k)
    BY <1>2, <1>7
  <2>2. CASE q.amount \in OversizedAmounts
    <3>1. q \notin AcceptedRefunds
      BY <2>2, AmountsAssumption DEF AcceptedRefunds
    <3>. QED
      BY <2>1, <2>2, <3>1, <1>3 DEF RefundIsOversized
  <2>3. CASE q.amount \notin OversizedAmounts
    <3>1. q \in AcceptedRefunds
      BY <2>3, <1>7 DEF AcceptedRefunds
    <3>. QED
      BY <2>1, <2>3, <3>1, <1>1, <1>3, <1>7 DEF RefundIsMade
  <2>. QED
    BY <2>2, <2>3
<1>. QED
  BY <1>4, <1>5, <1>6, <1>7

ConfirmationIsRefused(d, q, k, result) ==
  /\ result = Answer(d, Raised)
  /\ k = Blank \/ q \notin AcceptedConfirmations

ConfirmationIsReplayed(d, q, k, result) ==
  /\ k \in DOMAIN d.notifications.index
  /\ result = Answer(d, Replayed(d.notifications, q, k))

ConfirmationIsMade(d, q, k, result) ==
  /\ q \in AcceptedConfirmations
  /\ k \in Keys \cup {NoKey} /\ k \notin DOMAIN d.notifications.index
  /\ result = Answer([d EXCEPT !.notifications = Create(d.notifications, q, k)],
                     EntryAt(Create(d.notifications, q, k), d.notifications.next))

\* The ways through send_confirmation.
LEMMA ConfirmationCases ==
  ASSUME NEW d, NEW o \in OrderIds, NEW m \in Messages, NEW rawKey \in KeyArguments
  PROVE  LET k == NormalKey(rawKey)
             q == [order |-> o, message |-> Strip[m]]
             result == SendConfirmation(d, o, m, rawKey)
         IN  \/ ConfirmationIsRefused(d, q, k, result)
             \/ ConfirmationIsReplayed(d, q, k, result)
             \/ ConfirmationIsMade(d, q, k, result)
<1>. DEFINE k == NormalKey(rawKey)
            q == [order |-> o, message |-> Strip[m]]
            result == SendConfirmation(d, o, m, rawKey)
<1>. SUFFICES \/ ConfirmationIsRefused(d, q, k, result)
              \/ ConfirmationIsReplayed(d, q, k, result)
              \/ ConfirmationIsMade(d, q, k, result)
  OBVIOUS
<1>1. k \in Keys \cup {NoKey, Blank}
  BY NormalKeyType, ArgumentsAssumption
<1>2. q \in ConfirmationRequests /\ q.order = o
  BY DEF ConfirmationRequests
<1>3. result = IF q.message = Blank \/ k = Blank
               THEN Answer(d, Raised)
               ELSE IF k \in DOMAIN d.notifications.index
               THEN Answer(d, Replayed(d.notifications, q, k))
               ELSE IF o \notin Orders
               THEN Answer(d, Raised)
               ELSE Answer([d EXCEPT !.notifications = Create(d.notifications, q, k)],
                           EntryAt(Create(d.notifications, q, k), d.notifications.next))
  BY DEF SendConfirmation
<1>. HIDE DEF k, q, result
<1>4. q \in AcceptedConfirmations <=> o \in Orders /\ q.message # Blank
  BY <1>2 DEF AcceptedConfirmations
<1>5. CASE q.message = Blank \/ k = Blank
  BY <1>3, <1>4, <1>5 DEF ConfirmationIsRefused
<1>6. CASE q.message # Blank /\ k # Blank /\ k \in DOMAIN d.notifications.index
  BY <1>3, <1>6 DEF ConfirmationIsReplayed
<1>7. CASE /\ q.message # Blank /\ k # Blank /\ k \notin DOMAIN d.notifications.index
           /\ o \notin Orders
  BY <1>3, <1>4, <1>7 DEF ConfirmationIsRefused
<1>8. CASE /\ q.message # Blank /\ k # Blank /\ k \notin DOMAIN d.notifications.index
           /\ o \in Orders
  BY <1>1, <1>3, <1>4, <1>8 DEF ConfirmationIsMade
<1>. QED
  BY <1>5, <1>6, <1>7, <1>8

-----------------------------------------------------------------------------
\* Every operation takes a good state to a good state and keeps the entries.

LedgersKept(d, e) == Kept(d.refunds, e.refunds) /\ Kept(d.notifications, e.notifications)

LEMMA LedgersKeptByThemselves ==
  ASSUME NEW d, Good(d)
  PROVE  LedgersKept(d, d)
BY KeptByItself DEF Good, LedgersKept

LEMMA InitialStateIsGood == Good(InitialState)
<1>1. /\ DOMAIN InitialState = {"orders", "payments", "stock", "refunds", "notifications"}
      /\ InitialState.orders \in [Orders -> {"confirmed", "cancelled"}]
      /\ InitialState.payments = [p \in Payments |-> "captured"]
      /\ InitialState.stock \in [Skus -> Nat]
      /\ InitialState.refunds = EmptyLedger
      /\ InitialState.notifications = EmptyLedger
  BY DEF InitialState
<1>2. PaymentsMatchRefunds(InitialState.payments, EmptyLedger)
  BY <1>1 DEF PaymentsMatchRefunds, EmptyLedger, Nowhere
<1>. QED
  BY <1>1, <1>2, EmptyLedgerIsGood DEF Good

LEMMA CancelIsGood ==
  ASSUME NEW d, Good(d), NEW o
  PROVE  /\ Good(CancelOrder(d, o).db)
         /\ CancelOrder(d, o).db.refunds = d.refunds
         /\ CancelOrder(d, o).db.notifications = d.notifications
<1>1. CASE o \in Orders
  <2>. DEFINE e == [d EXCEPT !.orders = [d.orders EXCEPT ![o] = "cancelled"]]
  <2>1. CancelOrder(d, o).db = e
    BY <1>1 DEF CancelOrder, Answer
  <2>2. /\ DOMAIN e = DOMAIN d
        /\ e.orders = [d.orders EXCEPT ![o] = "cancelled"]
        /\ e.payments = d.payments /\ e.stock = d.stock
        /\ e.refunds = d.refunds /\ e.notifications = d.notifications
    BY DEF Good
  <2>. HIDE DEF e
  <2>3. e.orders \in [Orders -> {"confirmed", "cancelled"}]
    BY <2>2 DEF Good
  <2>. QED
    BY <2>1, <2>2, <2>3 DEF Good
<1>2. CASE o \notin Orders
  BY <1>2 DEF CancelOrder, Answer
<1>. QED
  BY <1>1, <1>2

LEMMA RestoreIsGood ==
  ASSUME NEW d, Good(d), NEW s, NEW n \in Int
  PROVE  /\ Good(RestoreInventory(d, s, n).db)
         /\ RestoreInventory(d, s, n).db.refunds = d.refunds
         /\ RestoreInventory(d, s, n).db.notifications = d.notifications
<1>1. CASE n > 0 /\ s \in Skus
  <2>. DEFINE e == [d EXCEPT !.stock = [d.stock EXCEPT ![s] = @ + n]]
  <2>1. RestoreInventory(d, s, n).db = e
    BY <1>1 DEF RestoreInventory, Answer
  <2>2. /\ DOMAIN e = DOMAIN d
        /\ e.stock = [d.stock EXCEPT ![s] = @ + n]
        /\ e.orders = d.orders /\ e.payments = d.payments
        /\ e.refunds = d.refunds /\ e.notifications = d.notifications
    BY DEF Good
  <2>. HIDE DEF e
  <2>3. e.stock \in [Skus -> Nat]
    BY <1>1, <2>2 DEF Good
  <2>. QED
    BY <2>1, <2>2, <2>3 DEF Good
<1>2. CASE ~(n > 0 /\ s \in Skus)
  BY <1>2 DEF RestoreInventory, Answer
<1>. QED
  BY <1>1, <1>2

LEMMA RefundIsGood ==
  ASSUME NEW d, Good(d), NEW q \in RefundRequests, NEW rawKey \in KeyArguments
  PROVE  /\ Good(RefundPayment(d, q, rawKey).db)
         /\ LedgersKept(d, RefundPayment(d, q, rawKey).db)
         /\ RefundPayment(d, q, rawKey).db.notifications = d.notifications
<1>. DEFINE k == NormalKey(rawKey)
            result == RefundPayment(d, q, rawKey)
<1>1. \/ RefundIsRefused(d, q, k, result)
      \/ RefundIsReplayed(d, q, k, result)
      \/ RefundIsOversized(d, q, k, result)
      \/ RefundIsMade(d, q, k, result)
  BY RefundCases
<1>. HIDE DEF k, result
<1>. SUFFICES /\ Good(result.db)
              /\ LedgersKept(d, result.db)
              /\ result.db.notifications = d.notifications
  BY DEF result
<1>2. CASE RefundIsRefused(d, q, k, result) \/ RefundIsReplayed(d, q, k, result)
  <2>1. result.db = d
    BY <1>2 DEF RefundIsRefused, RefundIsReplayed, Answer
  <2>. QED
    BY <2>1, LedgersKeptByThemselves
<1>3. CASE RefundIsOversized(d, q, k, result)
  <2>. DEFINE l == [d.refunds EXCEPT !.next = @ + 1]
              e == [d EXCEPT !.refunds = l]
  <2>1. result.db = e
    BY <1>3 DEF RefundIsOversized, Answer
  <2>2. /\ DOMAIN e = DOMAIN d
        /\ e.refunds = l
        /\ e.orders = d.orders /\ e.payments = d.payments /\ e.stock = d.stock
        /\ e.notifications = d.notifications
    BY DEF Good
  <2>3. GoodLedger(l, AcceptedRefunds) /\ Kept(d.refunds, l) /\ l.entries = d.refunds.entries
    BY SkippedNumberIsGood DEF Good
  <2>. HIDE DEF l, e
  <2>4. Good(e)
    BY <2>2, <2>3 DEF Good, PaymentsMatchRefunds
  <2>. QED
    BY <2>1, <2>2, <2>3, <2>4, LedgersKeptByThemselves DEF LedgersKept
<1>4. CASE RefundIsMade(d, q, k, result)
  <2>. DEFINE l == Create(d.refunds, q, k)
              p == [d.payments EXCEPT ![q.payment] = "refunded"]
              e == [d EXCEPT !.refunds = l, !.payments = p]
  <2>1. result.db = e
    BY <1>4 DEF RefundIsMade, Answer
  <2>2. /\ DOMAIN e = DOMAIN d
        /\ e.refunds = l /\ e.payments = p
        /\ e.orders = d.orders /\ e.stock = d.stock
        /\ e.notifications = d.notifications
    BY DEF Good
  <2>3. /\ q \in AcceptedRefunds /\ q.payment \in Payments
        /\ k \in Keys \cup {NoKey} /\ k \notin DOMAIN d.refunds.index
    BY <1>4 DEF RefundIsMade, AcceptedRefunds
  <2>4. /\ GoodLedger(l, AcceptedRefunds)
        /\ Kept(d.refunds, l)
        /\ DOMAIN l.entries = DOMAIN d.refunds.entries \cup {d.refunds.next}
        /\ l.entries[d.refunds.next] = [request |-> q, key |-> k]
        /\ \A i \in DOMAIN d.refunds.entries : l.entries[i] = d.refunds.entries[i]
    BY <2>3, CreateIsGood DEF Good
  <2>5. p \in [Payments -> {"captured", "refunded"}]
    BY <2>3 DEF Good
  <2>6. PaymentsMatchRefunds(p, l)
    <3>1. ASSUME NEW x \in Payments
          PROVE  p[x] = "refunded" <=>
                   \E i \in DOMAIN l.entries : l.entries[i].request.payment = x
      <4>1. CASE x = q.payment
        BY <4>1, <2>4 DEF Good
      <4>2. CASE x # q.payment
        <5>1. p[x] = d.payments[x]
          BY <4>2 DEF Good
        <5>2. l.entries[d.refunds.next].request.payment # x
          BY <4>2, <2>4
        <5>3. (\E i \in DOMAIN l.entries : l.entries[i].request.payment = x)
              <=> \E i \in DOMAIN d.refunds.entries : d.refunds.entries[i].request.payment = x
          BY <5>2, <2>4
        <5>. QED
          BY <5>1, <5>3 DEF Good, PaymentsMatchRefunds
      <4>. QED
        BY <4>1, <4>2
    <3>. QED
      BY <3>1 DEF PaymentsMatchRefunds
  <2>. HIDE DEF l, p, e
  <2>7. Good(e)
    BY <2>2, <2>4, <2>5, <2>6 DEF Good
  <2>. QED
    BY <2>1, <2>2, <2>4, <2>7, LedgersKeptByThemselves DEF LedgersKept
<1>. QED
  BY <1>1, <1>2, <1>3, <1>4

LEMMA ConfirmIsGood ==
  ASSUME NEW d, Good(d), NEW o \in OrderIds, NEW m \in Messages, NEW rawKey \in KeyArguments
  PROVE  /\ Good(SendConfirmation(d, o, m, rawKey).db)
         /\ LedgersKept(d, SendConfirmation(d, o, m, rawKey).db)
         /\ SendConfirmation(d, o, m, rawKey).db.refunds = d.refunds
<1>. DEFINE k == NormalKey(rawKey)
            q == [order |-> o, message |-> Strip[m]]
            result == SendConfirmation(d, o, m, rawKey)
<1>1. \/ ConfirmationIsRefused(d, q, k, result)
      \/ ConfirmationIsReplayed(d, q, k, result)
      \/ ConfirmationIsMade(d, q, k, result)
  BY ConfirmationCases
<1>. HIDE DEF k, q, result
<1>. SUFFICES /\ Good(result.db)
              /\ LedgersKept(d, result.db)
              /\ result.db.refunds = d.refunds
  BY DEF result
<1>2. CASE ConfirmationIsRefused(d, q, k, result) \/ ConfirmationIsReplayed(d, q, k, result)
  <2>1. result.db = d
    BY <1>2 DEF ConfirmationIsRefused, ConfirmationIsReplayed, Answer
  <2>. QED
    BY <2>1, LedgersKeptByThemselves
<1>3. CASE ConfirmationIsMade(d, q, k, result)
  <2>. DEFINE l == Create(d.notifications, q, k)
              e == [d EXCEPT !.notifications = l]
  <2>1. result.db = e
    BY <1>3 DEF ConfirmationIsMade, Answer
  <2>2. /\ DOMAIN e = DOMAIN d
        /\ e.notifications = l
        /\ e.orders = d.orders /\ e.payments = d.payments /\ e.stock = d.stock
        /\ e.refunds = d.refunds
    BY DEF Good
  <2>3. GoodLedger(l, AcceptedConfirmations) /\ Kept(d.notifications, l)
    BY <1>3, CreateIsGood DEF ConfirmationIsMade, Good
  <2>. HIDE DEF l, e
  <2>4. Good(e)
    BY <2>2, <2>3 DEF Good
  <2>. QED
    BY <2>1, <2>2, <2>3, <2>4, LedgersKeptByThemselves DEF LedgersKept
<1>. QED
  BY <1>1, <1>2, <1>3

-----------------------------------------------------------------------------
\* The invariants.

GoodState == Good(db)

LEMMA GoodStateHolds == Spec => []GoodState
<1>1. Init => GoodState
  BY InitialStateIsGood DEF Init, GoodState
<1>2. GoodState /\ [Next]_vars => GoodState'
  <2>. SUFFICES ASSUME Good(db), [Next]_vars
                PROVE  Good(db')
    BY DEF GoodState
  <2>1. CASE \E o \in OrderIds : Cancel(o)
    BY <2>1, CancelIsGood DEF Cancel
  <2>2. CASE \E q \in RefundRequests, k \in KeyArguments : Refund(q, k)
    BY <2>2, RefundIsGood DEF Refund
  <2>3. CASE \E s \in SkuIds, n \in Quantities : Restore(s, n)
    BY <2>3, RestoreIsGood, ArgumentsAssumption DEF Restore
  <2>4. CASE \E o \in OrderIds, m \in Messages, k \in KeyArguments : Confirm(o, m, k)
    BY <2>4, ConfirmIsGood DEF Confirm
  <2>5. CASE Reset
    BY <2>5, InitialStateIsGood DEF Reset
  <2>6. CASE UNCHANGED vars
    BY <2>6 DEF vars
  <2>. QED
    BY <2>1, <2>2, <2>3, <2>4, <2>5, <2>6 DEF Next
<1>. QED
  BY <1>1, <1>2, PTL DEF Spec

LEMMA WiderLedger ==
  ASSUME NEW l, NEW R, NEW S, R \subseteq S, IsLedger(l, R)
  PROVE  IsLedger(l, S)
<1>1. \A i \in DOMAIN l.entries : l.entries[i] \in [request : S, key : Keys \cup {NoKey}]
  BY DEF IsLedger
<1>2. \A k \in DOMAIN l.index : l.index[k] \in [request : S, id : Nat]
  BY DEF IsLedger
<1>. QED
  BY <1>1, <1>2 DEF IsLedger

\* The repository keeps its types: in particular entries are numbered below the next
\* number and only normal keys are ever indexed (reset, and every operation of sandbox.py).
THEOREM TypeCorrect == Spec => []TypeOK
<1>1. GoodState => TypeOK
  <2>. SUFFICES ASSUME Good(db) PROVE TypeOK
    BY DEF GoodState
  <2>1. AcceptedRefunds \subseteq RefundRequests
    BY DEF AcceptedRefunds
  <2>2. AcceptedConfirmations \subseteq ConfirmationRequests
    BY DEF AcceptedConfirmations
  <2>3. IsLedger(db.refunds, RefundRequests)
    BY <2>1, WiderLedger DEF Good, GoodLedger
  <2>4. IsLedger(db.notifications, ConfirmationRequests)
    BY <2>2, WiderLedger DEF Good, GoodLedger
  <2>. QED
    BY <2>3, <2>4 DEF TypeOK, Good
<1>. QED
  BY <1>1, GoodStateHolds, PTL

\* The idempotency indexes and the entries agree in every state between two operations,
\* so that refund_payment and send_confirmation never meet an index that refers to nothing.
THEOREM IndexesAgree == Spec => []IndexesMatchState
<1>1. GoodState => IndexesMatchState
  BY DEF GoodState, Good, GoodLedger, IndexesMatchState
<1>. QED
  BY <1>1, GoodStateHolds, PTL

\* A payment is refunded exactly when a refund of it is kept (save_payment follows
\* add_refund in refund_payment, and nothing else writes either).
THEOREM PaymentsAgree == Spec => []RefundedPaymentsHaveRefunds
<1>1. GoodState => RefundedPaymentsHaveRefunds
  BY DEF GoodState, Good, PaymentsMatchRefunds, RefundedPaymentsHaveRefunds
<1>. QED
  BY <1>1, GoodStateHolds, PTL

\* No operation changes or drops an entry, or gives a number again, until the next reset.
THEOREM FinalEntries == Spec => EntriesAreFinal
<1>. DEFINE Step == \/ db' = InitialState
                    \/ Kept(db.refunds, db'.refunds) /\ Kept(db.notifications, db'.notifications)
<1>1. GoodState /\ [Next]_vars => [Step]_vars
  <2>. SUFFICES ASSUME Good(db), [Next]_vars
                PROVE  db' = InitialState \/ LedgersKept(db, db')
    BY DEF GoodState, LedgersKept
  <2>1. CASE \E o \in OrderIds : Cancel(o)
    BY <2>1, CancelIsGood, LedgersKeptByThemselves DEF Cancel, LedgersKept
  <2>2. CASE \E q \in RefundRequests, k \in KeyArguments : Refund(q, k)
    BY <2>2, RefundIsGood DEF Refund
  <2>3. CASE \E s \in SkuIds, n \in Quantities : Restore(s, n)
    BY <2>3, RestoreIsGood, LedgersKeptByThemselves, ArgumentsAssumption
       DEF Restore, LedgersKept
  <2>4. CASE \E o \in OrderIds, m \in Messages, k \in KeyArguments : Confirm(o, m, k)
    BY <2>4, ConfirmIsGood DEF Confirm
  <2>5. CASE Reset
    BY <2>5 DEF Reset
  <2>6. CASE UNCHANGED vars
    BY <2>6, LedgersKeptByThemselves DEF vars
  <2>. QED
    BY <2>1, <2>2, <2>3, <2>4, <2>5, <2>6 DEF Next
<1>. QED
  BY <1>1, GoodStateHolds, PTL DEF Spec, EntriesAreFinal

-----------------------------------------------------------------------------
\* A ledger as a set of effects.

LEMMA CreatedEffect ==
  ASSUME NEW R, NEW l, GoodLedger(l, R), NEW q \in R, NEW k \in Keys \cup {NoKey},
         k \notin DOMAIN l.index
  PROVE  LET m == Create(l, q, k)
             e == EntryAt(m, l.next)
         IN  /\ e = [id |-> l.next, request |-> q, key |-> k]
             /\ AsEffects(m) = AsEffects(l) \cup {e}
             /\ l.next \in Nat
             /\ \A d \in AsEffects(l) : d.id # l.next
             /\ k # NoKey => \A d \in AsEffects(l) : d.key # k
<1>. DEFINE m == Create(l, q, k)
            e == EntryAt(m, l.next)
<1>1. /\ l.next \in Nat \ {0} /\ l.next \notin DOMAIN l.entries
      /\ DOMAIN m.entries = DOMAIN l.entries \cup {l.next}
      /\ m.entries[l.next] = [request |-> q, key |-> k]
      /\ \A i \in DOMAIN l.entries : m.entries[i] = l.entries[i]
  BY CreateIsGood
<1>. HIDE DEF m
<1>2. e = [id |-> l.next, request |-> q, key |-> k]
  BY <1>1 DEF EntryAt
<1>3. \A i \in DOMAIN l.entries : EntryAt(m, i) = EntryAt(l, i)
  BY <1>1 DEF EntryAt
<1>4. AsEffects(m) = AsEffects(l) \cup {e}
  BY <1>1, <1>3 DEF AsEffects
<1>5. \A d \in AsEffects(l) : d.id # l.next
  BY <1>1 DEF AsEffects, EntryAt
<1>6. ASSUME k # NoKey, NEW d \in AsEffects(l)
      PROVE  d.key # k
  <2>1. PICK i \in DOMAIN l.entries : d = EntryAt(l, i)
    BY DEF AsEffects
  <2>2. d.key = l.entries[i].key
    BY <2>1 DEF EntryAt
  <2>. QED
    BY <1>6, <2>2 DEF GoodLedger, IndexMatchesEntries
<1>. QED
  BY <1>1, <1>2, <1>4, <1>5, <1>6 DEF m

\* A key that the index holds answers with the one effect under it, or conflicts with it.
LEMMA ReplayedEffect ==
  ASSUME NEW R, NEW l, GoodLedger(l, R), NEW q, NEW k \in DOMAIN l.index
  PROVE  /\ k \in Keys
         /\ \/ /\ Replayed(l, q, k) \in AsEffects(l)
               /\ Replayed(l, q, k).key = k /\ Replayed(l, q, k).request = q
            \/ /\ Replayed(l, q, k) = Raised
               /\ \A d \in AsEffects(l) : d.key = k => d.request # q
<1>. DEFINE i == l.index[k].id
<1>1. k \in Keys /\ k # NoKey
  BY NormalKeyType, StripAssumption DEF GoodLedger, IsLedger, Keys
<1>2. i \in DOMAIN l.entries /\ l.entries[i] = [request |-> l.index[k].request, key |-> k]
  BY DEF GoodLedger, IndexMatchesEntries
<1>3. \A d \in AsEffects(l) : d.key = k => d = EntryAt(l, i)
  <2>1. ASSUME NEW j \in DOMAIN l.entries, l.entries[j].key = k
        PROVE  j = i
    BY <1>1, <2>1 DEF GoodLedger, IndexMatchesEntries
  <2>. QED
    BY <2>1 DEF AsEffects, EntryAt
<1>4. EntryAt(l, i) \in AsEffects(l)
  BY <1>2 DEF AsEffects
<1>5. EntryAt(l, i).request = l.index[k].request /\ EntryAt(l, i).key = k
  BY <1>2 DEF EntryAt
<1>6. CASE l.index[k].request = q
  BY <1>1, <1>2, <1>4, <1>5, <1>6 DEF Replayed
<1>7. CASE l.index[k].request # q
  BY <1>1, <1>3, <1>5, <1>7 DEF Replayed
<1>. QED
  BY <1>6, <1>7

\* A request that is refused for its arguments was not performed under its key before.
LEMMA RefusedEffect ==
  ASSUME NEW R, NEW l, GoodLedger(l, R), NEW q, NEW k, k = Blank \/ q \notin R
  PROVE  k # NoKey => \A d \in AsEffects(l) : d.key = k => d.request # q
<1>1. \A d \in AsEffects(l) : d.key \in Keys \cup {NoKey} /\ d.request \in R
  BY DEF AsEffects, EntryAt, GoodLedger, IsLedger
<1>2. Blank \notin Keys
  BY DEF Keys
<1>. QED
  BY <1>1, <1>2

LEMMA NoEffects == AsEffects(EmptyLedger) = {}
BY DEF AsEffects, EmptyLedger, Nowhere

-----------------------------------------------------------------------------
\* The refinements.

LEMMA RefundsStep ==
  ASSUME Good(db), [Next]_vars
  PROVE  [Refunds!Next]_<<AsEffects(db.refunds), ExchangeOf("refund")>>
<1>1. ASSUME AsEffects(db.refunds)' = AsEffects(db.refunds), last'.op # "refund"
      PROVE  Refunds!Next
  BY <1>1 DEF ExchangeOf, Refunds!Next, Refunds!Other
<1>2. CASE \E o \in OrderIds : Cancel(o)
  BY <1>1, <1>2, CancelIsGood DEF Cancel, Call
<1>3. ASSUME NEW q \in RefundRequests, NEW rawKey \in KeyArguments, Refund(q, rawKey)
      PROVE  Refunds!Next
  <2>. DEFINE k == NormalKey(rawKey)
              result == RefundPayment(db, q, rawKey)
  <2>1. /\ db' = result.db
        /\ ExchangeOf("refund")' = [request |-> q, key |-> k, answer |-> result.answer]
    BY <1>3 DEF Refund, KeyedCall, ExchangeOf
  <2>2. \/ RefundIsRefused(db, q, k, result)
        \/ RefundIsReplayed(db, q, k, result)
        \/ RefundIsOversized(db, q, k, result)
        \/ RefundIsMade(db, q, k, result)
    BY RefundCases
  <2>3. k \in Keys \cup {NoKey, Blank}
    BY NormalKeyType, ArgumentsAssumption
  <2>. HIDE DEF k, result
  <2>4. ASSUME AsEffects(db.refunds)' = AsEffects(db.refunds), result.answer = Raised,
               k # NoKey => \A d \in AsEffects(db.refunds) : d.key = k => d.request # q
        PROVE  Refunds!Next
    <3>1. Refunds!Refuse(q, k)
      BY <2>1, <2>4 DEF Refunds!Refuse, Refunds!Made, Refunds!Answered
    <3>. QED
      BY <2>3, <3>1 DEF Refunds!Next
  <2>5. CASE RefundIsRefused(db, q, k, result)
    <3>1. db' = db /\ result.answer = Raised
      BY <2>1, <2>5 DEF RefundIsRefused, Answer
    <3>2. k # NoKey => \A d \in AsEffects(db.refunds) : d.key = k => d.request # q
      BY <2>5, RefusedEffect DEF RefundIsRefused, Good
    <3>. QED
      BY <2>4, <3>1, <3>2
  <2>6. CASE RefundIsReplayed(db, q, k, result)
    <3>1. db' = db /\ result.answer = Replayed(db.refunds, q, k)
      BY <2>1, <2>6 DEF RefundIsReplayed, Answer
    <3>2. /\ k \in Keys
          /\ \/ /\ result.answer \in AsEffects(db.refunds)
                /\ result.answer.key = k /\ result.answer.request = q
             \/ /\ result.answer = Raised
                /\ \A d \in AsEffects(db.refunds) : d.key = k => d.request # q
      BY <2>6, <3>1, ReplayedEffect DEF RefundIsReplayed, Good
    <3>3. CASE /\ result.answer \in AsEffects(db.refunds)
               /\ result.answer.key = k /\ result.answer.request = q
      <4>1. k # NoKey
        BY <3>2, NormalKeyType, ArgumentsAssumption
      <4>2. Refunds!Replay(q, k)
        BY <2>1, <3>1, <3>3, <4>1
           DEF Refunds!Replay, Refunds!Made, Refunds!Answered
      <4>. QED
        BY <3>2, <4>2 DEF Refunds!Next
    <3>. QED
      BY <2>4, <3>1, <3>2, <3>3
  <2>7. CASE RefundIsOversized(db, q, k, result)
    <3>1. /\ db' = [db EXCEPT !.refunds = [db.refunds EXCEPT !.next = @ + 1]]
          /\ result.answer = Raised
          /\ q \notin AcceptedRefunds
      BY <2>1, <2>7 DEF RefundIsOversized, Answer
    <3>2. db'.refunds = [db.refunds EXCEPT !.next = @ + 1]
      BY <3>1 DEF Good
    <3>3. db'.refunds.entries = db.refunds.entries
      BY <3>2, SkippedNumberIsGood DEF Good
    <3>4. AsEffects(db.refunds)' = AsEffects(db.refunds)
      BY <3>3 DEF AsEffects, EntryAt
    <3>5. k # NoKey => \A d \in AsEffects(db.refunds) : d.key = k => d.request # q
      BY <3>1, RefusedEffect DEF Good
    <3>. QED
      BY <2>4, <3>1, <3>4, <3>5
  <2>8. CASE RefundIsMade(db, q, k, result)
    <3>. DEFINE m == Create(db.refunds, q, k)
                e == EntryAt(m, db.refunds.next)
    <3>1. /\ q \in AcceptedRefunds /\ k \in Keys \cup {NoKey}
          /\ k \notin DOMAIN db.refunds.index
          /\ db' = [db EXCEPT !.refunds = m,
                             !.payments = [db.payments EXCEPT ![q.payment] = "refunded"]]
          /\ result.answer = e
      BY <2>1, <2>8 DEF RefundIsMade, Answer
    <3>2. db'.refunds = m
      BY <3>1 DEF Good
    <3>3. /\ e = [id |-> db.refunds.next, request |-> q, key |-> k]
          /\ AsEffects(m) = AsEffects(db.refunds) \cup {e}
          /\ db.refunds.next \in Nat
          /\ \A d \in AsEffects(db.refunds) : d.id # db.refunds.next
          /\ k # NoKey => \A d \in AsEffects(db.refunds) : d.key # k
      BY <3>1, CreatedEffect DEF Good
    <3>. HIDE DEF m, e
    <3>4. AsEffects(db.refunds)' = AsEffects(db.refunds) \cup {e}
      BY <3>2, <3>3
    <3>5. e \in Refunds!Effects
      BY <3>1, <3>3 DEF Refunds!Effects
    <3>6. Refunds!Perform(q, k)
      BY <2>1, <3>1, <3>3, <3>4, <3>5
         DEF Refunds!Perform, Refunds!Made, Refunds!Answered
    <3>. QED
      BY <3>1, <3>6 DEF Refunds!Next
  <2>. QED
    BY <2>2, <2>5, <2>6, <2>7, <2>8
<1>4. CASE \E s \in SkuIds, n \in Quantities : Restore(s, n)
  BY <1>1, <1>4, RestoreIsGood, ArgumentsAssumption DEF Restore, Call
<1>5. CASE \E o \in OrderIds, m \in Messages, k \in KeyArguments : Confirm(o, m, k)
  BY <1>1, <1>5, ConfirmIsGood DEF Confirm, KeyedCall
<1>6. CASE Reset
  <2>1. AsEffects(db.refunds)' = {} /\ ExchangeOf("refund")' = Raised
    BY <1>6, NoEffects DEF Reset, InitialState, Call, ExchangeOf
  <2>. QED
    BY <2>1 DEF Refunds!Next, Refunds!Reset
<1>7. CASE UNCHANGED vars
  BY <1>7 DEF vars, ExchangeOf
<1>. QED
  BY <1>2, <1>3, <1>4, <1>5, <1>6, <1>7 DEF Next

\* The sandbox implements IdempotentEffects for refunds: the index of keys in
\* refund_payment is worth one refund per key, told again to whoever repeats the request.
THEOREM RefundEffects == Spec => ImplementsRefundEffects
<1>1. Init => Refunds!Init
  BY NoEffects DEF Init, InitialState, Call, ExchangeOf, Refunds!Init
<1>2. GoodState /\ [Next]_vars
      => [Refunds!Next]_<<AsEffects(db.refunds), ExchangeOf("refund")>>
  BY RefundsStep DEF GoodState
<1>. QED
  BY <1>1, <1>2, GoodStateHolds, PTL DEF Spec, ImplementsRefundEffects, Refunds!Spec

LEMMA ConfirmationsStep ==
  ASSUME Good(db), [Next]_vars
  PROVE  [Confirmations!Next]_<<AsEffects(db.notifications), ExchangeOf("confirm")>>
<1>1. ASSUME AsEffects(db.notifications)' = AsEffects(db.notifications), last'.op # "confirm"
      PROVE  Confirmations!Next
  BY <1>1 DEF ExchangeOf, Confirmations!Next, Confirmations!Other
<1>2. CASE \E o \in OrderIds : Cancel(o)
  BY <1>1, <1>2, CancelIsGood DEF Cancel, Call
<1>3. CASE \E q \in RefundRequests, k \in KeyArguments : Refund(q, k)
  BY <1>1, <1>3, RefundIsGood DEF Refund, KeyedCall
<1>4. CASE \E s \in SkuIds, n \in Quantities : Restore(s, n)
  BY <1>1, <1>4, RestoreIsGood, ArgumentsAssumption DEF Restore, Call
<1>5. ASSUME NEW o \in OrderIds, NEW text \in Messages, NEW rawKey \in KeyArguments,
             Confirm(o, text, rawKey)
      PROVE  Confirmations!Next
  <2>. DEFINE k == NormalKey(rawKey)
              q == [order |-> o, message |-> Strip[text]]
              result == SendConfirmation(db, o, text, rawKey)
  <2>1. /\ db' = result.db
        /\ ExchangeOf("confirm")' = [request |-> q, key |-> k, answer |-> result.answer]
    BY <1>5 DEF Confirm, KeyedCall, ExchangeOf
  <2>2. \/ ConfirmationIsRefused(db, q, k, result)
        \/ ConfirmationIsReplayed(db, q, k, result)
        \/ ConfirmationIsMade(db, q, k, result)
    BY ConfirmationCases
  <2>3. k \in Keys \cup {NoKey, Blank} /\ q \in ConfirmationRequests
    BY NormalKeyType, ArgumentsAssumption DEF ConfirmationRequests
  <2>. HIDE DEF k, q, result
  <2>4. ASSUME db' = db, result.answer = Raised,
               k # NoKey => \A d \in AsEffects(db.notifications) : d.key = k => d.request # q
        PROVE  Confirmations!Next
    <3>1. Confirmations!Refuse(q, k)
      BY <2>1, <2>4 DEF Confirmations!Refuse, Confirmations!Made, Confirmations!Answered
    <3>. QED
      BY <2>3, <3>1 DEF Confirmations!Next
  <2>5. CASE ConfirmationIsRefused(db, q, k, result)
    <3>1. db' = db /\ result.answer = Raised
      BY <2>1, <2>5 DEF ConfirmationIsRefused, Answer
    <3>2. k # NoKey => \A d \in AsEffects(db.notifications) : d.key = k => d.request # q
      BY <2>5, RefusedEffect DEF ConfirmationIsRefused, Good
    <3>. QED
      BY <2>4, <3>1, <3>2
  <2>6. CASE ConfirmationIsReplayed(db, q, k, result)
    <3>1. db' = db /\ result.answer = Replayed(db.notifications, q, k)
      BY <2>1, <2>6 DEF ConfirmationIsReplayed, Answer
    <3>2. /\ k \in Keys
          /\ \/ /\ result.answer \in AsEffects(db.notifications)
                /\ result.answer.key = k /\ result.answer.request = q
             \/ /\ result.answer = Raised
                /\ \A d \in AsEffects(db.notifications) : d.key = k => d.request # q
      BY <2>6, <3>1, ReplayedEffect DEF ConfirmationIsReplayed, Good
    <3>3. CASE /\ result.answer \in AsEffects(db.notifications)
               /\ result.answer.key = k /\ result.answer.request = q
      <4>1. k # NoKey
        BY <3>2, NormalKeyType, ArgumentsAssumption
      <4>2. Confirmations!Replay(q, k)
        BY <2>1, <3>1, <3>3, <4>1
           DEF Confirmations!Replay, Confirmations!Made, Confirmations!Answered
      <4>. QED
        BY <2>3, <3>2, <4>2 DEF Confirmations!Next
    <3>. QED
      BY <2>4, <3>1, <3>2, <3>3
  <2>7. CASE ConfirmationIsMade(db, q, k, result)
    <3>. DEFINE m == Create(db.notifications, q, k)
                e == EntryAt(m, db.notifications.next)
    <3>1. /\ q \in AcceptedConfirmations /\ k \in Keys \cup {NoKey}
          /\ k \notin DOMAIN db.notifications.index
          /\ db' = [db EXCEPT !.notifications = m]
          /\ result.answer = e
      BY <2>1, <2>7 DEF ConfirmationIsMade, Answer
    <3>2. db'.notifications = m
      BY <3>1 DEF Good
    <3>3. /\ e = [id |-> db.notifications.next, request |-> q, key |-> k]
          /\ AsEffects(m) = AsEffects(db.notifications) \cup {e}
          /\ db.notifications.next \in Nat
          /\ \A d \in AsEffects(db.notifications) : d.id # db.notifications.next
          /\ k # NoKey => \A d \in AsEffects(db.notifications) : d.key # k
      BY <3>1, CreatedEffect DEF Good
    <3>. HIDE DEF m, e
    <3>4. AsEffects(db.notifications)' = AsEffects(db.notifications) \cup {e}
      BY <3>2, <3>3
    <3>5. e \in Confirmations!Effects
      BY <2>3, <3>1, <3>3 DEF Confirmations!Effects
    <3>6. Confirmations!Perform(q, k)
      BY <2>1, <3>1, <3>3, <3>4, <3>5
         DEF Confirmations!Perform, Confirmations!Made, Confirmations!Answered
    <3>. QED
      BY <2>3, <3>1, <3>6 DEF Confirmations!Next
  <2>. QED
    BY <2>2, <2>5, <2>6, <2>7
<1>6. CASE Reset
  <2>1. AsEffects(db.notifications)' = {} /\ ExchangeOf("confirm")' = Raised
    BY <1>6, NoEffects DEF Reset, InitialState, Call, ExchangeOf
  <2>. QED
    BY <2>1 DEF Confirmations!Next, Confirmations!Reset
<1>7. CASE UNCHANGED vars
  BY <1>7 DEF vars, ExchangeOf
<1>. QED
  BY <1>2, <1>3, <1>4, <1>5, <1>6, <1>7 DEF Next

\* The same of send_confirmation, with messages compared after stripping.
THEOREM ConfirmationEffects == Spec => ImplementsConfirmationEffects
<1>1. Init => Confirmations!Init
  BY NoEffects DEF Init, InitialState, Call, ExchangeOf, Confirmations!Init
<1>2. GoodState /\ [Next]_vars
      => [Confirmations!Next]_<<AsEffects(db.notifications), ExchangeOf("confirm")>>
  BY ConfirmationsStep DEF GoodState
<1>. QED
  BY <1>1, <1>2, GoodStateHolds, PTL
     DEF Spec, ImplementsConfirmationEffects, Confirmations!Spec
===============================================================================
