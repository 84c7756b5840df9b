----------------------- MODULE CommerceExperimentProofs -----------------------
(***************************************************************************)
(* What holds of every experiment on the commerce scenario, whatever the   *)
(* profile of the agent, the rules, the budget and what others restore.    *)
(*                                                                         *)
(* The script always asks for the same, so the sandbox only ever holds     *)
(* what was asked for (World).  Calling says what one call through gateway *)
(* and executor may do to such a sandbox; from Runs in which no rule fires *)
(* on, what a run without a fault leaves behind is given in closed form.   *)
(***************************************************************************)
EXTENDS CommerceExperiment, FiniteSetTheorems, TLAPS

RefundAsked == [payment |-> payment, amount |-> full]
ConfirmationAsked == [order |-> order, message |-> Strip[message]]

\* Every entry is one that the script asks for; with keys there is one at most.
Ledger(l, asked, key) ==
  /\ DOMAIN l = {"entries", "index", "next"}
  /\ l.next \in Nat
  /\ \A i \in DOMAIN l.entries :
       /\ i \in Nat /\ i < l.next
       /\ l.entries[i].request = asked /\ l.entries[i].key \in {key, NoKey}
  /\ DOMAIN l.index \subseteq {key}
  /\ key \in DOMAIN l.index =>
       l.index[key].request = asked /\ l.index[key].id \in DOMAIN l.entries
  /\ profile.keys =>
       DOMAIN l.entries = {} \/ (key \in DOMAIN l.index /\ \E n : DOMAIN l.entries = {n})

World(d) ==
  /\ DOMAIN d = {"orders", "payments", "stock", "refunds", "notifications"}
  /\ d.orders \in [Orders -> {"confirmed", "cancelled"}]
  /\ d.payments \in [Payments -> {"captured", "refunded"}]
  /\ d.stock \in [Skus -> Nat]
  /\ Ledger(d.refunds, RefundAsked, refundKey)
  /\ Ledger(d.notifications, ConfirmationAsked, confirmKey)

\* What the invariants look at.
Cancelled(d) == d.orders[order] = "cancelled"
Refunded(d) == DOMAIN d.refunds.entries # {}
Confirmed(d) == DOMAIN d.notifications.entries # {}

LEMMA Keyed ==
  ASSUME NEW k \in Keys
  PROVE  /\ k \in Texts /\ k # NoKey /\ k # Blank
         /\ NormalKey(Key(k)) = Key(k)
         /\ Key(k) = IF profile.keys THEN k ELSE NoKey
         /\ Key(k) # Blank
<1>1. PICK t \in Texts : k = Strip[t] /\ k # Blank
  BY DEF Keys
<1>2. k \in Texts /\ Strip[k] = k /\ k # NoKey /\ NoKey # Blank
  BY <1>1, StripAssumption
<1>. QED
  BY <1>1, <1>2 DEF Key, NormalKey

\* A new entry, under a key that is not in use or under none.
LEMMA CreateKeepsLedger ==
  ASSUME NEW l, NEW asked, NEW key \in Keys, Ledger(l, asked, key), profile.keys \in BOOLEAN,
         Key(key) \notin DOMAIN l.index
  PROVE  LET m == Create(l, asked, Key(key))
         IN  Ledger(m, asked, key) /\ DOMAIN m.entries # {}
             /\ EntryAt(m, l.next) = [id |-> l.next, request |-> asked, key |-> Key(key)]
<1>. DEFINE k == Key(key)
            m == Create(l, asked, k)
            v == [request |-> asked, key |-> k]
            w == [request |-> asked, id |-> l.next]
<1>. SUFFICES /\ Ledger(m, asked, key) /\ DOMAIN m.entries # {}
              /\ EntryAt(m, l.next) = [id |-> l.next, request |-> asked, key |-> k]
  OBVIOUS
<1>1. /\ DOMAIN m = {"entries", "index", "next"}
      /\ m.entries = Put(l.entries, l.next, v)
      /\ m.index = IF k = NoKey THEN l.index ELSE Put(l.index, k, w)
      /\ m.next = l.next + 1
  BY DEF Create
<1>2. v.request = asked /\ v.key = k /\ w.request = asked /\ w.id = l.next
  OBVIOUS
<1>3. k = (IF profile.keys THEN key ELSE NoKey) /\ key # NoKey
  BY Keyed
<1>4. k \notin DOMAIN l.index
  OBVIOUS
<1>. HIDE DEF m, v, w, k
<1>5. /\ l.next \in Nat
      /\ \A i \in DOMAIN l.entries : i \in Nat /\ i < l.next /\ i # l.next
  BY DEF Ledger
<1>6. /\ DOMAIN m.entries = DOMAIN l.entries \cup {l.next}
      /\ m.entries[l.next] = v
      /\ \A i \in DOMAIN l.entries : m.entries[i] = l.entries[i]
  BY <1>1, <1>5 DEF Put
<1>7. m.next \in Nat /\ \A i \in DOMAIN m.entries : i \in Nat /\ i < m.next
  BY <1>1, <1>5, <1>6
<1>8. \A i \in DOMAIN m.entries : m.entries[i].request = asked /\ m.entries[i].key \in {key, NoKey}
  BY <1>2, <1>3, <1>6 DEF Ledger
<1>9. CASE profile.keys
  <2>1. k = key /\ m.index = Put(l.index, k, w)
    BY <1>1, <1>3, <1>9
  <2>2. DOMAIN l.index = {} /\ DOMAIN l.entries = {}
    BY <1>4, <1>9, <2>1 DEF Ledger
  <2>3. DOMAIN m.index = {key} /\ m.index[key] = w
    BY <2>1, <2>2 DEF Put
  <2>4. DOMAIN m.entries = {l.next}
    BY <1>6, <2>2
  <2>. QED
    BY <1>1, <1>2, <1>3, <1>6, <1>7, <1>8, <2>3, <2>4 DEF Ledger, EntryAt
<1>10. CASE ~profile.keys
  <2>1. m.index = l.index
    BY <1>1, <1>3, <1>10
  <2>2. key \in DOMAIN m.index =>
          m.index[key].request = asked /\ m.index[key].id \in DOMAIN m.entries
    BY <1>6, <2>1 DEF Ledger
  <2>3. DOMAIN m.index \subseteq {key}
    BY <2>1 DEF Ledger
  <2>. QED
    BY <1>1, <1>2, <1>6, <1>7, <1>8, <1>10, <2>2, <2>3 DEF Ledger, EntryAt
<1>. QED
  BY <1>9, <1>10

\* A key that is in use leads to what was asked for.
LEMMA ReplayWorks ==
  ASSUME NEW l, NEW asked, NEW key \in Keys, Ledger(l, asked, key),
         Key(key) \in DOMAIN l.index
  PROVE  /\ DOMAIN l.entries # {}
         /\ Replayed(l, asked, Key(key)) \in [id : Nat, request : {asked}, key : {key, NoKey}]
<1>1. Key(key) = key
  BY DEF Ledger
<1>2. /\ l.index[key].request = asked /\ l.index[key].id \in DOMAIN l.entries
      /\ l.index[key].id \in Nat
      /\ l.entries[l.index[key].id].request = asked
      /\ l.entries[l.index[key].id].key \in {key, NoKey}
  BY <1>1 DEF Ledger
<1>3. Replayed(l, asked, key) = EntryAt(l, l.index[key].id)
  BY <1>2 DEF Replayed
<1>. QED
  BY <1>1, <1>2, <1>3 DEF EntryAt

-----------------------------------------------------------------------------
\* One call.

\* What a call of the tool that was carried out, once or twice, does to the sandbox.
Effect(d, e, tool) ==
  /\ World(e)
  /\ Cancelled(e) <=> Cancelled(d) \/ tool = "cancel_order"
  /\ Refunded(e) <=> Refunded(d) \/ tool = "refund_payment"
  /\ Confirmed(e) <=> Confirmed(d) \/ tool = "send_confirmation"
  /\ tool = "restore_inventory" => e.stock[sku] > d.stock[sku]
  /\ tool # "restore_inventory" => e.stock[sku] = d.stock[sku]

Works(d, tool, result) ==
  /\ Effect(d, result.db, tool)
  /\ result.answer \notin {Raised} \cup Replacements
  /\ tool = "restore_inventory" => result.db.stock[sku] = d.stock[sku] + 1
  /\ tool = ProbeTool => result.db = d /\ result.answer = d.stock[sku]

LEMMA NoEffect ==
  ASSUME NEW d, World(d), NEW e, World(e), NEW tool,
         tool # "restore_inventory", e.stock = d.stock,
         Cancelled(e) <=> Cancelled(d) \/ tool = "cancel_order",
         Refunded(e) <=> Refunded(d) \/ tool = "refund_payment",
         Confirmed(e) <=> Confirmed(d) \/ tool = "send_confirmation"
  PROVE  Effect(d, e, tool)
BY DEF Effect

LEMMA CancelWorks ==
  ASSUME NEW d, World(d)
  PROVE  Works(d, "cancel_order", CancelOrder(d, order))
<1>. DEFINE orders == [d.orders EXCEPT ![order] = "cancelled"]
            e == [d EXCEPT !.orders = orders]
            result == CancelOrder(d, order)
<1>1. result.db = e /\ result.answer = "cancelled"
  BY ScriptArguments DEF CancelOrder, Answer
<1>2. orders \in [Orders -> {"confirmed", "cancelled"}] /\ orders[order] = "cancelled"
  BY ScriptArguments DEF World
<1>. HIDE DEF orders
<1>3. /\ DOMAIN e = DOMAIN d /\ e.orders = orders /\ e.payments = d.payments
      /\ e.stock = d.stock /\ e.refunds = d.refunds /\ e.notifications = d.notifications
  BY DEF World
<1>. HIDE DEF e, result
<1>4. World(e)
  BY <1>2, <1>3 DEF World
<1>5. Effect(d, e, "cancel_order")
  BY <1>2, <1>3, <1>4, NoEffect DEF Cancelled, Refunded, Confirmed
<1>6. Works(d, "cancel_order", result)
  BY <1>1, <1>5, MarkersAssumption DEF Works, ProbeTool
<1>. QED
  BY <1>6 DEF result

LEMMA RestoreWorks ==
  ASSUME NEW d, World(d)
  PROVE  Works(d, "restore_inventory", RestoreInventory(d, sku, 1))
<1>. DEFINE n == d.stock[sku] + 1
            stock == [d.stock EXCEPT ![sku] = n]
            e == [d EXCEPT !.stock = stock]
            result == RestoreInventory(d, sku, 1)
<1>1. result.db = e /\ result.answer = n
  BY ScriptArguments DEF RestoreInventory, Answer
<1>2. n \in Nat /\ n > d.stock[sku]
  BY ScriptArguments DEF World
<1>3. n = d.stock[sku] + 1
  OBVIOUS
<1>. HIDE DEF n
<1>4. stock \in [Skus -> Nat] /\ stock[sku] = n
  BY <1>2, ScriptArguments DEF World
<1>. HIDE DEF stock
<1>5. /\ DOMAIN e = DOMAIN d /\ e.orders = d.orders /\ e.payments = d.payments
      /\ e.stock = stock /\ e.refunds = d.refunds /\ e.notifications = d.notifications
  BY DEF World
<1>. HIDE DEF e, result
<1>6. World(e)
  BY <1>4, <1>5 DEF World
<1>7. Effect(d, e, "restore_inventory")
  BY <1>2, <1>4, <1>5, <1>6 DEF Effect, Cancelled, Refunded, Confirmed
<1>8. Works(d, "restore_inventory", result)
  BY <1>1, <1>2, <1>3, <1>4, <1>5, <1>7, MarkersAssumption DEF Works, ProbeTool
<1>. QED
  BY <1>8 DEF result

LEMMA ProbeWorks ==
  ASSUME NEW d, World(d)
  PROVE  Works(d, "get_inventory", GetInventory(d, sku))
<1>1. d.stock[sku] \in Nat
  BY ScriptArguments DEF World
<1>2. GetInventory(d, sku).db = d /\ GetInventory(d, sku).answer = d.stock[sku]
  BY ScriptArguments DEF GetInventory, Answer
<1>3. Effect(d, d, "get_inventory")
  BY NoEffect
<1>. QED
  BY <1>1, <1>2, <1>3, MarkersAssumption DEF Works, ProbeTool

LEMMA RefundWorks ==
  ASSUME NEW d, World(d), profile.keys \in BOOLEAN
  PROVE  Works(d, "refund_payment", RefundPayment(d, RefundAsked, Key(refundKey)))
<1>. DEFINE k == Key(refundKey)
            l == d.refunds
            made == Create(l, RefundAsked, k)
            payments == [d.payments EXCEPT ![payment] = "refunded"]
            e == [d EXCEPT !.refunds = made, !.payments = payments]
            result == RefundPayment(d, RefundAsked, k)
<1>1. /\ RefundAsked.amount = full /\ RefundAsked.payment = payment
      /\ full \in Amounts \ OversizedAmounts /\ payment \in Payments /\ refundKey \in Keys
  BY ScriptArguments, AmountsAssumption DEF RefundAsked
<1>2. NormalKey(k) = k /\ k # Blank /\ k \in Keys \cup {NoKey}
  BY <1>1, Keyed
<1>3. Ledger(l, RefundAsked, refundKey)
  BY DEF World
<1>. HIDE DEF k
<1>4. CASE k \in DOMAIN l.index
  <2>1. result = Answer(d, Replayed(l, RefundAsked, k))
    BY <1>1, <1>2, <1>4 DEF RefundPayment
  <2>2. result.db = d /\ result.answer = Replayed(l, RefundAsked, k)
    BY <2>1 DEF Answer
  <2>3. Replayed(l, RefundAsked, k) \notin {Raised} \cup Replacements /\ Refunded(d)
    BY <1>1, <1>3, <1>4, ReplayWorks, MarkersAssumption DEF k, Refunded, RefundAsked
  <2>4. Effect(d, d, "refund_payment")
    BY <2>3, NoEffect
  <2>. HIDE DEF result, made, e
  <2>. QED
    BY <2>2, <2>3, <2>4 DEF Works, ProbeTool, result, k
<1>5. CASE k \notin DOMAIN l.index
  <2>1. [d EXCEPT !.refunds = made].payments = d.payments
    BY DEF World
  <2>2. NewRefund(d, RefundAsked, k) = Answer(e, EntryAt(made, l.next))
    BY <1>1, <2>1 DEF NewRefund
  <2>3. result = Answer(e, EntryAt(made, l.next))
    BY <1>1, <1>2, <1>5, <2>2 DEF RefundPayment
  <2>4. result.db = e /\ result.answer = EntryAt(made, l.next)
    BY <2>3 DEF Answer
  <2>5. /\ Ledger(made, RefundAsked, refundKey) /\ DOMAIN made.entries # {}
        /\ EntryAt(made, l.next) = [id |-> l.next, request |-> RefundAsked, key |-> k]
    BY <1>1, <1>3, <1>5, CreateKeepsLedger DEF k
  <2>6. EntryAt(made, l.next) \notin {Raised} \cup Replacements
    <3>1. l.next \in Nat
      BY <1>3 DEF Ledger
    <3>. QED
      BY <1>2, <2>5, <3>1, MarkersAssumption DEF RefundAsked
  <2>7. payments \in [Payments -> {"captured", "refunded"}]
    BY <1>1 DEF World
  <2>. HIDE DEF payments, made
  <2>8. /\ DOMAIN e = DOMAIN d /\ e.orders = d.orders /\ e.payments = payments
        /\ e.stock = d.stock /\ e.refunds = made /\ e.notifications = d.notifications
    BY DEF World
  <2>. HIDE DEF e, result
  <2>9. World(e)
    BY <2>5, <2>7, <2>8 DEF World
  <2>10. Effect(d, e, "refund_payment")
    BY <2>5, <2>8, <2>9, NoEffect DEF Cancelled, Refunded, Confirmed
  <2>11. Works(d, "refund_payment", result)
    BY <2>4, <2>6, <2>10 DEF Works, ProbeTool
  <2>. QED
    BY <2>11 DEF result, k
<1>. QED
  BY <1>4, <1>5

LEMMA ConfirmWorks ==
  ASSUME NEW d, World(d), profile.keys \in BOOLEAN
  PROVE  Works(d, "send_confirmation", SendConfirmation(d, order, message, Key(confirmKey)))
<1>. DEFINE k == Key(confirmKey)
            l == d.notifications
            made == Create(l, ConfirmationAsked, k)
            e == [d EXCEPT !.notifications = made]
            result == SendConfirmation(d, order, message, k)
<1>1. order \in Orders /\ Strip[message] # Blank /\ confirmKey \in Keys
  BY ScriptArguments
<1>2. NormalKey(k) = k /\ k # Blank /\ k \in Keys \cup {NoKey}
  BY <1>1, Keyed
<1>3. Ledger(l, ConfirmationAsked, confirmKey)
  BY DEF World
<1>4. result = IF k \in DOMAIN l.index
               THEN Answer(d, Replayed(l, ConfirmationAsked, k))
               ELSE Answer(e, EntryAt(made, l.next))
  <2>. HIDE DEF k
  <2>. QED
    BY <1>1, <1>2 DEF SendConfirmation, ConfirmationAsked
<1>. HIDE DEF k, result
<1>. SUFFICES Works(d, "send_confirmation", result)
  BY DEF result, k
<1>5. CASE k \in DOMAIN l.index
  <2>1. result.db = d /\ result.answer = Replayed(l, ConfirmationAsked, k)
    BY <1>4, <1>5 DEF Answer
  <2>2. Replayed(l, ConfirmationAsked, k) \notin {Raised} \cup Replacements /\ Confirmed(d)
    BY <1>1, <1>3, <1>5, ReplayWorks, MarkersAssumption DEF k, Confirmed, ConfirmationAsked
  <2>3. Effect(d, d, "send_confirmation")
    BY <2>2, NoEffect
  <2>. QED
    BY <2>1, <2>2, <2>3 DEF Works, ProbeTool
<1>6. CASE k \notin DOMAIN l.index
  <2>1. result.db = e /\ result.answer = EntryAt(made, l.next)
    BY <1>4, <1>6 DEF Answer
  <2>2. /\ Ledger(made, ConfirmationAsked, confirmKey) /\ DOMAIN made.entries # {}
        /\ EntryAt(made, l.next) = [id |-> l.next, request |-> ConfirmationAsked, key |-> k]
    BY <1>1, <1>3, <1>6, CreateKeepsLedger DEF k
  <2>3. EntryAt(made, l.next) \notin {Raised} \cup Replacements
    <3>1. l.next \in Nat
      BY <1>3 DEF Ledger
    <3>. QED
      BY <1>2, <2>2, <3>1, MarkersAssumption DEF ConfirmationAsked
  <2>. HIDE DEF made
  <2>4. /\ DOMAIN e = DOMAIN d /\ e.orders = d.orders /\ e.payments = d.payments
        /\ e.stock = d.stock /\ e.refunds = d.refunds /\ e.notifications = made
    BY DEF World
  <2>. HIDE DEF e
  <2>5. World(e)
    BY <2>2, <2>4 DEF World
  <2>6. Effect(d, e, "send_confirmation")
    BY <2>2, <2>4, <2>5, NoEffect DEF Cancelled, Refunded, Confirmed
  <2>. QED
    BY <2>1, <2>3, <2>6 DEF Works, ProbeTool
<1>. QED
  BY <1>5, <1>6

LEMMA HandlerWorks ==
  ASSUME NEW d, World(d), profile.keys \in BOOLEAN, NEW tool \in Tools
  PROVE  Works(d, tool, Handle(d, tool))
<1>1. tool \in {"cancel_order", "refund_payment", "restore_inventory", "send_confirmation",
               "get_inventory"}
  <2>1. DOMAIN Script = 1..4
    BY DEF Script
  <2>. QED
    BY <2>1 DEF Tools, Script, ProbeTool
<1>2. CASE tool = "cancel_order"
  BY <1>2, CancelWorks DEF Handle
<1>3. CASE tool = "refund_payment"
  BY <1>3, RefundWorks DEF Handle, RefundAsked
<1>4. CASE tool = "restore_inventory"
  BY <1>4, RestoreWorks DEF Handle
<1>5. CASE tool = "send_confirmation"
  BY <1>5, ConfirmWorks DEF Handle
<1>6. CASE tool = "get_inventory"
  BY <1>6, ProbeWorks DEF Handle
<1>. QED
  BY <1>1, <1>2, <1>3, <1>4, <1>5, <1>6

\* The second delivery finds what the first one left.
LEMMA TwiceIsAnEffect ==
  ASSUME NEW d, World(d), profile.keys \in BOOLEAN, NEW tool \in Tools
  PROVE  Effect(d, Handle(Handle(d, tool).db, tool).db, tool)
<1>. DEFINE e == Handle(d, tool).db
            f == Handle(e, tool).db
<1>1. Effect(d, e, tool)
  BY HandlerWorks DEF Works
<1>. HIDE DEF e
<1>2. Effect(e, f, tool)
  BY <1>1, HandlerWorks DEF Works, Effect
<1>. HIDE DEF f
<1>3. d.stock[sku] \in Nat /\ e.stock[sku] \in Nat /\ f.stock[sku] \in Nat
  BY <1>1, <1>2, ScriptArguments DEF Effect, World
<1>4. Effect(d, f, tool)
  BY <1>1, <1>2, <1>3 DEF Effect
<1>. QED
  BY <1>4 DEF e, f

Records ==
  [tool : Tools, number : Nat \ {0}, completedBefore : Nat, rule : FaultRules \cup {NoRule},
   executed : BOOLEAN, committed : {"true", "false", "unknown"}, count : 0..2,
   underlying : {"none", "result", "error", "pair"},
   caller : {"result", "error", "replacement", "injected", "ambiguous"}]

RunTyped ==
  /\ profile \in Profiles /\ rules \subseteq FaultRules /\ budget \in Budgets /\ mode \in Modes
  /\ World(db)
  /\ counts \in [Tools -> Nat] /\ calls \in 0..budget /\ others \in 0..MaxOthers
  /\ trace \in Seq(Records)
  /\ \A i \in DOMAIN trace : trace[i].rule \in rules \cup {NoRule}

LEMMA ProfileType ==
  ASSUME RunTyped
  PROVE  /\ profile \in [attempts : Nat \ {0}, keys : BOOLEAN, validates : BOOLEAN,
                         reconciles : BOOLEAN, aborts : BOOLEAN, honest : BOOLEAN]
         /\ profile.keys \in BOOLEAN /\ profile.attempts \in Nat \ {0}
         /\ budget \in Nat /\ MaxOthers \in Nat
<1>1. profile \in [attempts : Nat \ {0}, keys : BOOLEAN, validates : BOOLEAN,
                  reconciles : BOOLEAN, aborts : BOOLEAN, honest : BOOLEAN]
  BY ProfilesAssumption DEF RunTyped
<1>. QED
  BY <1>1, BoundsAssumption DEF RunTyped

LEMMA RuleForType ==
  ASSUME NEW tool, NEW n
  PROVE  /\ RuleFor(tool, n) \in rules \cup {NoRule}
         /\ RuleFor(tool, n) \in rules => Matches(RuleFor(tool, n), tool, n, mode) \/ RuleFor(tool, n) = NoRule
<1>1. CASE \E r \in rules : Matches(r, tool, n, mode)
  <2>. DEFINE found == CHOOSE r \in rules : Matches(r, tool, n, mode)
  <2>1. found \in rules /\ Matches(found, tool, n, mode)
    BY <1>1
  <2>2. RuleFor(tool, n) = found
    BY <1>1 DEF RuleFor
  <2>. QED
    BY <2>1, <2>2
<1>2. CASE ~ \E r \in rules : Matches(r, tool, n, mode)
  BY <1>2 DEF RuleFor
<1>. QED
  BY <1>1, <1>2

\* A call beyond the budget.
IsRefused(call) ==
  /\ calls >= budget
  /\ call.db = db /\ call.counts = counts /\ call.calls = calls /\ call.trace = trace
  /\ ~call.reply.ok

\* What the caller is given in place of an answer.
IsReplacement(r, response) ==
  /\ r # NoRule /\ r.type = "malformed_response"
  /\ response = r.response /\ response \in Replacements

\* A call that is recorded as entry.  An operation of the script never fails by itself.
IsMade(call, tool, entry) ==
  /\ calls < budget /\ call.calls = calls + 1
  /\ call.counts = [counts EXCEPT ![tool] = @ + 1]
  /\ call.trace = Append(trace, entry)
  /\ entry.tool = tool /\ entry.number = counts[tool] + 1
  /\ entry.completedBefore = Len(trace)
  /\ entry.rule = RuleFor(tool, counts[tool] + 1) /\ entry.underlying # "error"
  /\ \/ ~entry.executed /\ call.db = db /\ ~call.reply.ok
     \/ /\ entry.executed /\ Effect(db, call.db, tool)
        /\ TypeOf(entry.rule) # "duplicate_request" => call.db = Handle(db, tool).db
        /\ call.reply.ok => \/ call.reply.response = Handle(db, tool).answer
                            \/ IsReplacement(entry.rule, call.reply.response)
  /\ entry.rule = NoRule => call.reply.ok /\ call.reply.response = Handle(db, tool).answer

LEMMA Calling ==
  ASSUME RunTyped, NEW tool \in Tools, NEW call, call = GatewayCall(tool)
  PROVE  IsRefused(call) \/ \E entry \in Records : IsMade(call, tool, entry)
<1>. DEFINE n == counts[tool] + 1
            r == RuleFor(tool, n)
            first == Handle(db, tool)
            second == Handle(first.db, tool)
            e == Execute(db, first, second, r)
            entry == Entry(tool, n, e)
<1>1. CASE calls >= budget
  <2>1. call = [db |-> db, counts |-> counts, calls |-> calls, trace |-> trace,
                reply |-> Failure("call_budget_exhausted")]
    BY <1>1 DEF GatewayCall
  <2>. QED
    BY <1>1, <2>1 DEF IsRefused, Failure
<1>2. CASE ~(calls >= budget)
  <2>1. call = [db |-> e.db, counts |-> [counts EXCEPT ![tool] = n], calls |-> calls + 1,
                trace |-> Append(trace, entry), reply |-> Normalized(r, e)]
    BY <1>2 DEF GatewayCall
  <2>2. /\ calls < budget /\ call.calls = calls + 1 /\ call.counts = [counts EXCEPT ![tool] = n]
        /\ call.db = e.db /\ call.trace = Append(trace, entry) /\ call.reply = Normalized(r, e)
    <3>1. calls < budget
      BY <1>2, ProfileType DEF RunTyped
    <3>. QED
      BY <2>1, <3>1
  <2>3. n \in Nat \ {0} /\ Len(trace) \in Nat /\ r \in FaultRules \cup {NoRule}
    BY RuleForType DEF RunTyped
  <2>4. r # NoRule => /\ r.type \in FaultTypes
                      /\ r.type = "malformed_response" => r.response \in Replacements
    BY <2>3, RulesAssumption DEF FaultRules
  <2>5. /\ Effect(db, first.db, tool) /\ first.answer # Raised
        /\ Effect(db, second.db, tool)
    BY HandlerWorks, TwiceIsAnEffect, ProfileType DEF Works, RunTyped
  <2>. HIDE DEF first, second
  <2>6. /\ entry.tool = tool /\ entry.number = n /\ entry.completedBefore = Len(trace)
        /\ entry.rule = e.outcome.rule /\ entry.executed = e.outcome.executed
        /\ entry.committed = e.outcome.committed /\ entry.count = e.outcome.count
        /\ entry.underlying = e.outcome.underlying /\ entry.caller = e.caller
        /\ DOMAIN entry = {"tool", "number", "completedBefore", "rule", "executed", "committed",
                           "count", "underlying", "caller"}
        /\ entry = [x \in DOMAIN entry |-> entry[x]]
    BY DEF Entry
  <2>7. CASE TypeOf(r) \in RejectingFaults
    <3>1. e = Executed(db, Refused(r), "injected", None)
      BY <2>7 DEF Execute, RejectingFaults
    <3>2. e.db = db /\ e.outcome = Refused(r) /\ e.caller = "injected"
      BY <3>1 DEF Executed
    <3>3. ~call.reply.ok
      BY <2>2, <3>2 DEF Normalized, Failure
    <3>4. r # NoRule
      BY <2>7 DEF TypeOf, RejectingFaults
    <3>. HIDE DEF e, n, r
    <3>5. entry \in Records
      BY <2>3, <3>2 DEF Entry, Records, Refused, Outcome
    <3>6. entry.rule = r /\ ~entry.executed /\ entry.underlying # "error"
      BY <2>6, <3>2 DEF Refused, Outcome
    <3>. HIDE DEF entry
    <3>7. IsMade(call, tool, entry)
      BY <2>2, <2>6, <3>2, <3>3, <3>4, <3>6 DEF IsMade, n, r
    <3>. QED
      BY <3>5, <3>7
  <2>8. CASE TypeOf(r) = "duplicate_request"
    <3>1. e = Executed(second.db, DeliveredTwice(r), "result", first.answer)
      BY <2>5, <2>8 DEF Execute, RejectingFaults
    <3>2. /\ e.db = second.db /\ e.outcome = DeliveredTwice(r) /\ e.caller = "result"
          /\ e.answer = first.answer
      BY <3>1 DEF Executed
    <3>3. call.reply.ok /\ call.reply.response = first.answer
      BY <2>2, <3>2 DEF Normalized, Ok
    <3>. HIDE DEF e, n, r
    <3>5. entry \in Records
      BY <2>3, <3>2 DEF Entry, Records, DeliveredTwice, Outcome
    <3>6. entry.rule = r /\ entry.executed /\ entry.underlying # "error"
      BY <2>6, <3>2 DEF DeliveredTwice, Outcome
    <3>. HIDE DEF entry
    <3>7. IsMade(call, tool, entry)
      BY <2>2, <2>5, <2>6, <2>8, <3>2, <3>3, <3>6 DEF IsMade, n, r, first
    <3>. QED
      BY <3>5, <3>7
  <2>9. CASE TypeOf(r) \notin RejectingFaults \cup {"duplicate_request"}
    <3>1. e = Executed(first.db, Succeeded(r), CallerSees(r), first.answer)
      BY <2>5, <2>9 DEF Execute
    <3>2. /\ e.db = first.db /\ e.outcome = Succeeded(r) /\ e.caller = CallerSees(r)
          /\ e.answer = first.answer
      BY <3>1 DEF Executed
    <3>3. CallerSees(r) \in {"result", "ambiguous", "replacement"}
      BY DEF CallerSees
    <3>4. /\ call.reply.ok => \/ call.reply.response = first.answer
                              \/ IsReplacement(r, call.reply.response)
          /\ CallerSees(r) = "result" => call.reply.ok /\ call.reply.response = first.answer
      <4>1. CallerSees(r) = "replacement" =>
              /\ r # NoRule /\ r.type = "malformed_response" /\ r.response \in Replacements
        BY <2>4 DEF CallerSees, TypeOf
      <4>2. /\ CallerSees(r) = "result" => call.reply = Ok(first.answer)
            /\ CallerSees(r) = "ambiguous" => call.reply = Failure("timeout")
            /\ CallerSees(r) = "replacement" => call.reply = Ok(r.response)
        BY <2>2, <3>2 DEF Normalized
      <4>. QED
        BY <3>3, <4>1, <4>2 DEF IsReplacement, Ok, Failure
    <3>5. r = NoRule => CallerSees(r) = "result"
      BY DEF CallerSees, TypeOf
    <3>. HIDE DEF e, n, r
    <3>6. entry \in Records
      BY <2>3, <3>2, <3>3 DEF Entry, Records, Succeeded, Outcome
    <3>7. entry.rule = r /\ entry.executed /\ entry.underlying # "error"
      BY <2>6, <3>2 DEF Succeeded, Outcome
    <3>. HIDE DEF entry
    <3>8. IsMade(call, tool, entry)
      BY <2>2, <2>5, <2>6, <3>2, <3>4, <3>5, <3>7 DEF IsMade, n, r, first
    <3>. QED
      BY <3>6, <3>8
  <2>. QED
    BY <2>7, <2>8, <2>9
<1>. QED
  BY <1>1, <1>2

-----------------------------------------------------------------------------
\* Types.

Running == {"probe", "attempt", "reprobe"}
Ended == {"done", "reported"}

Fresh ==
  /\ db = FreshWorld.db /\ counts = FreshWorld.counts
  /\ calls = FreshWorld.calls /\ trace = FreshWorld.trace /\ others = 0

AgentTyped ==
  /\ pc \in {"declared"} \cup Running \cup Ended
  /\ step \in 1..4 /\ attempt \in 1..profile.attempts
  /\ probed \in Replacements \cup {None} \cup Nat
  /\ failed \subseteq 1..4
  /\ verdict \in {"none", "resilient", "degraded", "baseline_invalid", "not_exercised"}
  /\ reports = [m \in Modes |-> reports[m]]
  /\ pc \in {"probe", "reprobe"} => profile.reconciles /\ step = 3
  /\ pc = "reprobe" => probed # None
  /\ pc = "declared" => /\ mode = "baseline" /\ step = 1 /\ failed = {} /\ probed = None
                        /\ attempt = 1 /\ Fresh

Typed == RunTyped /\ AgentTyped

LEMMA ScriptFacts ==
  /\ DOMAIN Script = 1..4 /\ Len(Script) = 4
  /\ Script[1] = "cancel_order" /\ Script[2] = "refund_payment"
  /\ Script[3] = "restore_inventory" /\ Script[4] = "send_confirmation"
  /\ \A i \in 1..4 : Script[i] \in Tools /\ Script[i] # ProbeTool
  /\ ProbeTool \in Tools
<1>1. DOMAIN Script = 1..4 /\ Len(Script) = 4
  BY DEF Script
<1>2. /\ Script[1] = "cancel_order" /\ Script[2] = "refund_payment"
      /\ Script[3] = "restore_inventory" /\ Script[4] = "send_confirmation"
  BY DEF Script
<1>3. \A i \in 1..4 : Script[i] \in Tools
  BY <1>1 DEF Tools
<1>4. ASSUME NEW i \in 1..4 PROVE Script[i] # ProbeTool
  <2>1. i = 1 \/ i = 2 \/ i = 3 \/ i = 4
    OBVIOUS
  <2>. QED
    BY <1>2, <2>1 DEF ProbeTool
<1>. QED
  BY <1>1, <1>2, <1>3, <1>4 DEF Tools

LEMMA FirstMoves ==
  ASSUME NEW i \in 1..4
  PROVE  /\ Reconciles(i) <=> profile.reconciles /\ i = 3
         /\ FirstMove(i) = IF profile.reconciles /\ i = 3 THEN "probe" ELSE "attempt"
<1>1. i = 1 \/ i = 2 \/ i = 3 \/ i = 4
  OBVIOUS
<1>2. Reconciles(i) <=> profile.reconciles /\ i = 3
  BY <1>1, ScriptFacts DEF Reconciles
<1>. QED
  BY <1>2 DEF FirstMove

LEMMA EndOfStep ==
  ASSUME AgentTyped, NEW succeeded \in BOOLEAN, StepEnds(succeeded)
  PROVE  /\ failed' = IF succeeded THEN failed ELSE failed \cup {step}
         /\ attempt' = 1 /\ probed' = None
         /\ \/ /\ pc' = "done" /\ step' = step
               /\ step = 4 \/ (~succeeded /\ profile.aborts)
            \/ /\ step \in 1..3 /\ step' = step + 1 /\ (succeeded \/ ~profile.aborts)
               /\ pc' = IF profile.reconciles /\ step' = 3 THEN "probe" ELSE "attempt"
<1>1. step \in 1..4 /\ Len(Script) = 4
  BY ScriptFacts DEF AgentTyped
<1>2. CASE step = 4 \/ (~succeeded /\ profile.aborts)
  BY <1>1, <1>2 DEF StepEnds
<1>3. CASE ~(step = 4 \/ (~succeeded /\ profile.aborts))
  <2>1. step \in 1..3 /\ step + 1 \in 1..4
    BY <1>1, <1>3
  <2>2. step' = step + 1 /\ pc' = FirstMove(step + 1)
    BY <1>1, <1>3 DEF StepEnds
  <2>3. pc' = IF profile.reconciles /\ step' = 3 THEN "probe" ELSE "attempt"
    BY <2>1, <2>2, FirstMoves
  <2>. QED
    BY <1>1, <1>3, <2>1, <2>2, <2>3 DEF StepEnds
<1>. QED
  BY <1>2, <1>3

LEMMA EndKeepsTypes ==
  ASSUME RunTyped, AgentTyped, NEW succeeded \in BOOLEAN, StepEnds(succeeded),
         UNCHANGED <<profile, mode, reports, verdict>>
  PROVE  AgentTyped'
<1>1. step' \in 1..4 /\ failed' \subseteq 1..4 /\ attempt' \in 1..profile.attempts
  <2>1. step \in 1..4 /\ failed \subseteq 1..4 /\ profile.attempts \in Nat \ {0}
    BY ProfileType DEF AgentTyped
  <2>2. attempt' = 1 /\ failed' \in {failed, failed \cup {step}}
        /\ (step' = step \/ (step \in 1..3 /\ step' = step + 1))
    BY EndOfStep
  <2>3. step' \in 1..4 /\ attempt' \in 1..profile.attempts
    BY <2>1, <2>2
  <2>4. failed' \subseteq 1..4
    BY <2>1, <2>2
  <2>. QED
    BY <2>3, <2>4
<1>2. /\ pc' \in {"done", "probe", "attempt"}
      /\ pc' = "probe" => profile.reconciles /\ step' = 3
      /\ probed' = None
  BY EndOfStep
<1>. QED
  BY <1>1, <1>2 DEF AgentTyped, Running, Ended

LEMMA CallKeepsTypes ==
  ASSUME RunTyped, NEW tool \in Tools, Becomes(GatewayCall(tool)),
         UNCHANGED <<experiment, mode, others>>
  PROVE  RunTyped'
<1> PICK call : call = GatewayCall(tool)
  OBVIOUS
<1>1. db' = call.db /\ counts' = call.counts /\ calls' = call.calls /\ trace' = call.trace
  BY DEF Becomes
<1>2. profile' = profile /\ rules' = rules /\ budget' = budget /\ mode' = mode /\ others' = others
  BY DEF experiment
<1>3. CASE IsRefused(call)
  <2>1. db' = db /\ counts' = counts /\ calls' = calls /\ trace' = trace
    BY <1>1, <1>3 DEF IsRefused
  <2>. QED
    BY <1>2, <2>1 DEF RunTyped, World, Ledger
<1>4. ASSUME NEW entry \in Records, IsMade(call, tool, entry) PROVE RunTyped'
  <2>1. counts' \in [Tools -> Nat] /\ calls' \in 0..budget
    <3>1. calls \in Nat /\ budget \in Nat /\ calls < budget /\ calls' = calls + 1
      BY <1>1, <1>4, ProfileType DEF IsMade, RunTyped
    <3>2. counts' = [counts EXCEPT ![tool] = @ + 1]
      BY <1>1, <1>4 DEF IsMade
    <3>. QED
      BY <3>1, <3>2 DEF RunTyped
  <2>2. trace' = Append(trace, entry) /\ trace \in Seq(Records)
    BY <1>1, <1>4 DEF IsMade, RunTyped
  <2>3. entry.rule \in rules \cup {NoRule}
    BY <1>4, RuleForType DEF IsMade
  <2>4. trace' \in Seq(Records) /\ \A i \in DOMAIN trace' : trace'[i].rule \in rules \cup {NoRule}
    BY <2>2, <2>3 DEF RunTyped
  <2>5. World(db')
    BY <1>1, <1>4 DEF IsMade, Effect, RunTyped
  <2>6. World(db)'
    BY <1>2, <2>5 DEF World, Ledger
  <2>. QED
    BY <1>2, <2>1, <2>4, <2>6 DEF RunTyped
<1>. QED
  BY <1>3, <1>4, Calling

LEMMA InitTypes == Init => Typed
<1> SUFFICES ASSUME Init PROVE Typed
  OBVIOUS
<1>1. Fresh
  BY DEF Init, Fresh
<1>2. Ledger(EmptyLedger, RefundAsked, refundKey) /\ Ledger(EmptyLedger, ConfirmationAsked, confirmKey)
  <2>1. /\ DOMAIN EmptyLedger = {"entries", "index", "next"} /\ EmptyLedger.next = 1
        /\ DOMAIN EmptyLedger.entries = {} /\ DOMAIN EmptyLedger.index = {}
    BY DEF EmptyLedger, Nowhere
  <2>. QED
    BY <2>1 DEF Ledger
<1>3. World(InitialState)
  BY <1>2 DEF World, InitialState
<1>4. profile.attempts \in Nat \ {0} /\ budget \in Nat
  BY ProfilesAssumption, BoundsAssumption DEF Init
<1>5. RunTyped
  <2>1. calls \in 0..budget /\ others \in 0..MaxOthers /\ counts \in [Tools -> Nat]
    BY <1>4, BoundsAssumption DEF Init, FreshWorld
  <2>. QED
    BY <1>3, <2>1 DEF Init, FreshWorld, RunTyped, Modes
<1>6. AgentTyped
  BY <1>1, <1>4 DEF Init, AgentTyped, Running, Ended
<1>. QED
  BY <1>5, <1>6 DEF Typed

\* A call of the agent and what it makes of the answer.
LEMMA AttemptKeepsTypes ==
  ASSUME Typed, AgentStep
  PROVE  Typed'
<1>0. /\ UNCHANGED <<experiment, mode, others, reports, verdict>>
      /\ profile' = profile /\ RunTyped /\ AgentTyped
      /\ profile.attempts \in Nat \ {0} /\ attempt \in 1..profile.attempts
  BY ProfileType DEF AgentStep, experiment, Typed, AgentTyped
<1>1. CASE Probe
  <2> PICK call : call = GatewayCall(ProbeTool)
    OBVIOUS
  <2>1. RunTyped'
    BY <1>0, <1>1, ScriptFacts, CallKeepsTypes DEF Probe
  <2>2. call.reply.ok => call.reply.response \in Replacements \cup Nat
    <3>1. Works(db, ProbeTool, Handle(db, ProbeTool)) /\ db.stock[sku] \in Nat
      BY <1>0, HandlerWorks, ScriptFacts, ScriptArguments, ProfileType DEF RunTyped, World
    <3>2. Handle(db, ProbeTool).answer = db.stock[sku]
      BY <3>1 DEF Works
    <3>3. CASE IsRefused(call)
      BY <3>3 DEF IsRefused
    <3>4. ASSUME NEW entry \in Records, IsMade(call, ProbeTool, entry)
          PROVE  call.reply.ok => call.reply.response \in Replacements \cup Nat
      BY <3>1, <3>2, <3>4 DEF IsMade, IsReplacement
    <3>. QED
      BY <1>0, <3>3, <3>4, Calling, ScriptFacts
  <2>3. probed' \in Replacements \cup {None} \cup Nat /\ pc' = "attempt"
        /\ step' = step /\ attempt' = attempt /\ failed' = failed
    BY <1>1, <2>2 DEF Probe
  <2>4. AgentTyped'
    BY <1>0, <2>3 DEF AgentTyped, Running, Ended
  <2>. QED
    BY <2>1, <2>4 DEF Typed
<1>2. CASE Reprobe
  <2>1. RunTyped'
    BY <1>0, <1>2, ScriptFacts, CallKeepsTypes DEF Reprobe
  <2>2. CASE StepEnds(TRUE)
    BY <1>0, <2>1, <2>2, EndKeepsTypes DEF Typed
  <2>3. CASE pc' = "attempt" /\ UNCHANGED <<step, attempt, probed, failed>>
    <3>1. AgentTyped'
      BY <1>0, <2>3 DEF AgentTyped, Running, Ended
    <3>. QED
      BY <2>1, <3>1 DEF Typed
  <2>. QED
    BY <1>2, <2>2, <2>3 DEF Reprobe
<1>3. CASE Attempt
  <2>1. step \in 1..4 /\ Script[step] \in Tools
    BY <1>0, ScriptFacts DEF AgentTyped
  <2>2. RunTyped'
    BY <1>0, <1>3, <2>1, CallKeepsTypes DEF Attempt
  <2>3. CASE StepEnds(TRUE) \/ StepEnds(FALSE)
    BY <1>0, <2>2, <2>3, EndKeepsTypes DEF Typed
  <2>4. CASE /\ attempt < profile.attempts /\ attempt' = attempt + 1
             /\ pc' = IF Reconciles(step) /\ probed # None THEN "reprobe" ELSE "attempt"
             /\ UNCHANGED <<step, probed, failed>>
    <3>1. attempt' \in 1..profile.attempts
      BY <1>0, <2>4
    <3>2. pc' \in {"reprobe", "attempt"}
          /\ (pc' = "reprobe" => profile.reconciles /\ step = 3 /\ probed # None)
      BY <2>1, <2>4, FirstMoves
    <3>3. AgentTyped'
      BY <1>0, <2>4, <3>1, <3>2 DEF AgentTyped, Running, Ended
    <3>. QED
      BY <2>2, <3>3 DEF Typed
  <2>. QED
    BY <1>3, <2>3, <2>4 DEF Attempt, MayRetry
<1>. QED
  BY <1>1, <1>2, <1>3 DEF AgentStep

LEMMA OutcomesAndVerdicts ==
  ASSUME NEW b, NEW f
  PROVE  /\ OutcomeOf(f) \in {"pass", "fail"}
         /\ Verdict(b, f) \in {"resilient", "degraded", "baseline_invalid", "not_exercised"}
<1>1. OutcomeOf(b) \in {"pass", "fail"} /\ OutcomeOf(f) \in {"pass", "fail"}
  BY DEF OutcomeOf
<1>. QED
  BY <1>1 DEF Verdict, CompareRuns

\* Somebody else's restore.
LEMMA OtherIsRestore ==
  ASSUME Typed, OtherWriter
  PROVE  /\ World(db') /\ db'.stock[sku] = db.stock[sku] + 1
         /\ Cancelled(db') <=> Cancelled(db)
         /\ Refunded(db') <=> Refunded(db)
         /\ Confirmed(db') <=> Confirmed(db)
         /\ others' = others + 1 /\ others' \in 0..MaxOthers
         /\ pc \in Running /\ step = 3
<1>1. Works(db, "restore_inventory", RestoreInventory(db, sku, 1))
  BY RestoreWorks DEF Typed, RunTyped
<1>2. db' = RestoreInventory(db, sku, 1).db /\ others' = others + 1 /\ others < MaxOthers
  BY DEF OtherWriter
<1>3. others' \in 0..MaxOthers
  BY <1>2, BoundsAssumption DEF Typed, RunTyped
<1>4. step = 3
  <2>1. step = 1 \/ step = 2 \/ step = 3 \/ step = 4
    BY DEF Typed, AgentTyped
  <2>. QED
    BY <2>1, ScriptFacts DEF OtherWriter
<1>. QED
  BY <1>1, <1>2, <1>3, <1>4 DEF Works, Effect, OtherWriter, Running

LEMMA NextTypes == Typed /\ [Next]_vars => Typed'
<1> SUFFICES ASSUME Typed, [Next]_vars PROVE Typed'
  OBVIOUS
<1>0. RunTyped /\ AgentTyped /\ profile.attempts \in Nat \ {0}
  BY ProfileType DEF Typed
<1>1. ASSUME NEW r \in FaultRules, Declare(r) PROVE Typed'
  <2>1. /\ rules' = rules \cup {r} /\ profile' = profile /\ budget' = budget /\ mode' = mode
        /\ db' = db /\ counts' = counts /\ calls' = calls /\ trace' = trace /\ others' = others
        /\ pc' = pc /\ step' = step /\ attempt' = attempt /\ probed' = probed /\ failed' = failed
        /\ reports' = reports /\ verdict' = verdict
    BY <1>1 DEF Declare, world, agent
  <2>2. RunTyped'
    BY <1>0, <2>1 DEF RunTyped, World, Ledger
  <2>3. AgentTyped'
    BY <1>0, <2>1 DEF AgentTyped, Fresh
  <2>. QED
    BY <2>2, <2>3 DEF Typed
<1>2. CASE RunStarts
  <2>1. /\ rules' = rules /\ profile' = profile /\ budget' = budget /\ mode' = mode
        /\ db' = db /\ counts' = counts /\ calls' = calls /\ trace' = trace /\ others' = others
        /\ step' = step /\ attempt' = attempt /\ probed' = probed /\ failed' = failed
        /\ reports' = reports /\ verdict' = verdict /\ pc' = "attempt"
    <3>1. FirstMove(1) = "attempt"
      BY FirstMoves
    <3>. QED
      BY <1>2, <3>1 DEF RunStarts, world, experiment
  <2>2. RunTyped'
    BY <1>0, <2>1 DEF RunTyped, World, Ledger
  <2>3. AgentTyped'
    BY <1>0, <2>1 DEF AgentTyped, Running
  <2>. QED
    BY <2>2, <2>3 DEF Typed
<1>3. CASE AgentStep
  BY <1>3, AttemptKeepsTypes
<1>4. CASE BaselineEnds
  <2>1. Ledger(EmptyLedger, RefundAsked, refundKey)
        /\ Ledger(EmptyLedger, ConfirmationAsked, confirmKey)
    <3>1. /\ DOMAIN EmptyLedger = {"entries", "index", "next"} /\ EmptyLedger.next = 1
          /\ DOMAIN EmptyLedger.entries = {} /\ DOMAIN EmptyLedger.index = {}
      BY DEF EmptyLedger, Nowhere
    <3>. QED
      BY <3>1 DEF Ledger
  <2>2. World(InitialState)
    BY <2>1 DEF World, InitialState
  <2>3. /\ rules' = rules /\ profile' = profile /\ budget' = budget /\ mode' = "faulted"
        /\ db' = InitialState /\ counts' = [t \in Tools |-> 0] /\ calls' = 0 /\ trace' = <<>>
        /\ others' = 0 /\ step' = 1 /\ attempt' = 1 /\ probed' = None /\ failed' = {}
        /\ verdict' = verdict /\ pc' = "attempt"
    <3>1. FirstMove(1) = "attempt"
      BY FirstMoves
    <3>. QED
      BY <1>4, <3>1 DEF BaselineEnds, FreshWorld, Becomes, experiment
  <2>4. World(db)'
    BY <2>2, <2>3 DEF World, Ledger
  <2>5. RunTyped'
    <3>1. calls' \in 0..budget /\ others' \in 0..MaxOthers
      BY <1>0, <2>3, ProfileType
    <3>. QED
      BY <1>0, <2>3, <2>4, <3>1 DEF RunTyped, Modes
  <2>6. reports' = [m \in Modes |-> reports'[m]]
    BY <1>0, <1>4 DEF BaselineEnds, AgentTyped
  <2>7. AgentTyped'
    BY <1>0, <2>3, <2>6 DEF AgentTyped, Running
  <2>. QED
    BY <2>5, <2>7 DEF Typed
<1>5. CASE FaultedEnds
  <2>1. /\ rules' = rules /\ profile' = profile /\ budget' = budget /\ mode' = mode
        /\ db' = db /\ counts' = counts /\ calls' = calls /\ trace' = trace /\ others' = others
        /\ step' = step /\ attempt' = attempt /\ probed' = probed /\ failed' = failed
        /\ pc' = "reported"
        /\ verdict' \in {"resilient", "degraded", "baseline_invalid", "not_exercised"}
    BY <1>5, OutcomesAndVerdicts DEF FaultedEnds, world, experiment
  <2>2. RunTyped'
    BY <1>0, <2>1 DEF RunTyped, World, Ledger
  <2>3. reports' = [m \in Modes |-> reports'[m]]
    BY <1>0, <1>5 DEF FaultedEnds, AgentTyped
  <2>4. AgentTyped'
    BY <1>0, <2>1, <2>3 DEF AgentTyped, Ended
  <2>. QED
    BY <2>2, <2>4 DEF Typed
<1>6. CASE OtherWriter
  <2>1. /\ rules' = rules /\ profile' = profile /\ budget' = budget /\ mode' = mode
        /\ counts' = counts /\ calls' = calls /\ trace' = trace
        /\ pc' = pc /\ step' = step /\ attempt' = attempt /\ probed' = probed /\ failed' = failed
        /\ reports' = reports /\ verdict' = verdict
    BY <1>6 DEF OtherWriter, agent, experiment
  <2>2. World(db') /\ others' \in 0..MaxOthers /\ pc \in Running
    BY <1>6, OtherIsRestore
  <2>3. World(db)'
    BY <2>1, <2>2 DEF World, Ledger
  <2>4. RunTyped'
    BY <1>0, <2>1, <2>2, <2>3 DEF RunTyped
  <2>5. AgentTyped'
    <3>1. pc' # "declared"
      BY <2>1, <2>2 DEF Running
    <3>. QED
      BY <1>0, <2>1, <2>2, <3>1 DEF AgentTyped
  <2>. QED
    BY <2>4, <2>5 DEF Typed
<1>7. CASE UNCHANGED vars
  <2>1. /\ rules' = rules /\ profile' = profile /\ budget' = budget /\ mode' = mode
        /\ db' = db /\ counts' = counts /\ calls' = calls /\ trace' = trace /\ others' = others
        /\ pc' = pc /\ step' = step /\ attempt' = attempt /\ probed' = probed /\ failed' = failed
        /\ reports' = reports /\ verdict' = verdict
    BY <1>7 DEF vars, world, agent, experiment
  <2>2. RunTyped'
    BY <1>0, <2>1 DEF RunTyped, World, Ledger
  <2>3. AgentTyped'
    BY <1>0, <2>1 DEF AgentTyped, Fresh
  <2>. QED
    BY <2>2, <2>3 DEF Typed
<1>. QED
  BY <1>1, <1>2, <1>3, <1>4, <1>5, <1>6, <1>7 DEF Next, Proceed

LEMMA Types == Spec => []Typed
BY InitTypes, NextTypes, PTL DEF Spec

\* The variables of an experiment keep their types, for every set of profiles and rules, and
\* the gateway never lets more calls through than the budget.
THEOREM TypeCorrect == Spec => []TypeOK
<1>1. Typed => TypeOK
  <2> SUFFICES ASSUME RunTyped, AgentTyped PROVE TypeOK
    BY DEF Typed
  <2>1. [f \in {"orders", "payments", "stock"} |-> db[f]] \in Snapshots
    BY DEF RunTyped, World, Snapshots
  <2>2. trace \in Seq([tool : Tools, number : Nat \ {0}, completedBefore : Nat,
                      rule : rules \cup {NoRule}, executed : BOOLEAN,
                      committed : {"true", "false", "unknown"}, count : 0..2,
                      underlying : {"none", "result", "error", "pair"},
                      caller : {"result", "error", "replacement", "injected", "ambiguous"}])
    <3>. DEFINE Recorded ==
           [tool : Tools, number : Nat \ {0}, completedBefore : Nat,
            rule : rules \cup {NoRule}, executed : BOOLEAN,
            committed : {"true", "false", "unknown"}, count : 0..2,
            underlying : {"none", "result", "error", "pair"},
            caller : {"result", "error", "replacement", "injected", "ambiguous"}]
    <3>1. ASSUME NEW entry \in Records, entry.rule \in rules \cup {NoRule}
          PROVE  entry \in Recorded
      BY <3>1 DEF Records
    <3>2. /\ trace \in Seq(Records) /\ Len(trace) \in Nat /\ DOMAIN trace = 1..Len(trace)
          /\ \A i \in DOMAIN trace : trace[i] \in Records /\ trace[i].rule \in rules \cup {NoRule}
      BY DEF RunTyped
    <3>. HIDE DEF Recorded
    <3>3. trace \in [1..Len(trace) -> Recorded]
      BY <3>1, <3>2
    <3>4. trace \in Seq(Recorded)
      BY <3>2, <3>3
    <3>. QED
      BY <3>4 DEF Recorded
  <2>3. step \in DOMAIN Script /\ failed \subseteq DOMAIN Script
    BY ScriptFacts DEF AgentTyped
  <2>. QED
    BY <2>1, <2>2, <2>3 DEF RunTyped, AgentTyped, TypeOK, Running, Ended
<1>. QED
  BY <1>1, Types, PTL

-----------------------------------------------------------------------------
\* What the steps of the agent leave in the sandbox.

LEMMA MadeIsListed ==
  ASSUME NEW d, World(d)
  PROVE  /\ RefundsMade(d) = DOMAIN d.refunds.entries
         /\ ConfirmationsMade(d) = DOMAIN d.notifications.entries
<1>1. \A i \in DOMAIN d.refunds.entries : d.refunds.entries[i].request.payment = payment
  BY DEF World, Ledger, RefundAsked
<1>2. \A i \in DOMAIN d.notifications.entries : d.notifications.entries[i].request.order = order
  BY DEF World, Ledger, ConfirmationAsked
<1>. QED
  BY <1>1, <1>2 DEF RefundsMade, ConfirmationsMade

\* With keys there is at most one refund of the payment and one confirmation of the order in
\* the sandbox, whatever is lost, delivered twice or tried again.
THEOREM KeyedEffectsOnce == Spec => []KeyedEffectsHappenOnce
<1>1. ASSUME NEW S, S = {} \/ \E n : S = {n} PROVE Cardinality(S) <= 1
  <2>1. CASE S = {}
    BY <2>1, FS_EmptySet
  <2>2. ASSUME NEW n, S = {n} PROVE Cardinality(S) <= 1
    <3>1. Cardinality({n}) = 1
      BY FS_Singleton
    <3>. QED
      BY <2>2, <3>1
  <2>. QED
    BY <1>1, <2>1, <2>2
<1>2. Typed => KeyedEffectsHappenOnce
  <2> SUFFICES ASSUME RunTyped, profile.keys
               PROVE  Cardinality(RefundsMade(db)) <= 1 /\ Cardinality(ConfirmationsMade(db)) <= 1
    BY DEF Typed, KeyedEffectsHappenOnce
  <2>1. /\ World(db)
        /\ Ledger(db.refunds, RefundAsked, refundKey)
        /\ Ledger(db.notifications, ConfirmationAsked, confirmKey)
    BY DEF RunTyped, World
  <2>2. RefundsMade(db) = {} \/ \E n : RefundsMade(db) = {n}
    BY <2>1, MadeIsListed DEF Ledger
  <2>3. ConfirmationsMade(db) = {} \/ \E n : ConfirmationsMade(db) = {n}
    BY <2>1, MadeIsListed DEF Ledger
  <2>. QED
    BY <1>1, <2>2, <2>3
<1>. QED
  BY <1>2, Types, PTL

Over(i) == i < step \/ (i = step /\ pc \in Ended)

\* The effect of step i is there, or may be mistaken to be.
Has(i) ==
  /\ i = 1 => Cancelled(db)
  /\ i = 2 => Refunded(db)
  /\ i = 3 => Restored(db, others) > 0 \/ MayBeDeceived(others, Fired(trace))
  /\ i = 4 => Confirmed(db)

Misled == \E r \in Fired(trace) : Misleads(r)

\* The stock that the first probe found is not too low, unless the answer was replaced.
FirstReadingIsFair ==
  Quantity(probed) # None => Quantity(probed) >= InitialState.stock[sku] \/ Misled

\* The first probe is the first call of its tool, and the others come after it.
ProbesAreCounted ==
  /\ step \in 1..2 \/ pc = "probe" => counts[ProbeTool] = 0
  /\ probed # None => counts[ProbeTool] >= 1

\* A step that is over and has not failed has its effect; no effect is there before its step.
Effects ==
  /\ \A i \in 1..4 : Over(i) /\ i \notin failed => Has(i)
  /\ Restored(db, others) >= 0
  /\ FirstReadingIsFair
  /\ pc \in Ended => step = 4 \/ step \in failed
  /\ profile.aborts => failed \subseteq {step} /\ (pc \notin Ended => failed = {})
  /\ Refunded(db) => step >= 2
  /\ Restored(db, others) > 0 => step >= 3
  /\ Confirmed(db) => step >= 4

\* What a call may change of what the invariant looks at.
Grows(tool) ==
  /\ World(db')
  /\ Cancelled(db) => Cancelled(db')
  /\ Refunded(db) => Refunded(db')
  /\ Confirmed(db) => Confirmed(db')
  /\ db'.stock[sku] >= db.stock[sku]
  /\ Refunded(db') => Refunded(db) \/ tool = "refund_payment"
  /\ Confirmed(db') => Confirmed(db) \/ tool = "send_confirmation"
  /\ db'.stock[sku] > db.stock[sku] => tool = "restore_inventory"
  /\ Fired(trace) \subseteq Fired(trace')

LEMMA FiredGrows ==
  ASSUME NEW t \in Seq(Records), NEW entry \in Records
  PROVE  /\ Fired(t) \subseteq Fired(Append(t, entry))
         /\ entry.rule # NoRule => entry.rule \in Fired(Append(t, entry))
<1>. DEFINE u == Append(t, entry)
<1>1. /\ DOMAIN t \subseteq DOMAIN u /\ Len(t) + 1 \in DOMAIN u /\ u[Len(t) + 1] = entry
      /\ \A i \in DOMAIN t : u[i] = t[i]
  OBVIOUS
<1>. HIDE DEF u
<1>2. Fired(t) \subseteq Fired(u) /\ (entry.rule # NoRule => entry.rule \in Fired(u))
  BY <1>1 DEF Fired
<1>. QED
  BY <1>2 DEF u

LEMMA CallGrows ==
  ASSUME RunTyped, NEW tool \in Tools, NEW call, call = GatewayCall(tool), Becomes(call)
  PROVE  /\ Grows(tool)
         /\ call.reply.ok => Effect(db, db', tool)
<1>1. db' = call.db /\ trace' = call.trace
  BY DEF Becomes
<1>2. World(db) /\ db.stock[sku] \in Nat /\ trace \in Seq(Records)
  BY ScriptArguments DEF RunTyped, World
<1>3. CASE IsRefused(call)
  BY <1>1, <1>2, <1>3 DEF IsRefused, Grows
<1>4. ASSUME NEW entry \in Records, IsMade(call, tool, entry)
      PROVE  Grows(tool) /\ (call.reply.ok => Effect(db, db', tool))
  <2>1. (db' = db /\ ~call.reply.ok) \/ Effect(db, db', tool)
    BY <1>1, <1>4 DEF IsMade
  <2>4. Fired(trace) \subseteq Fired(trace')
    <3>1. trace' = Append(trace, entry)
      BY <1>1, <1>4 DEF IsMade
    <3>. QED
      BY <1>2, <1>4, <3>1, FiredGrows
  <2>2. CASE db' = db /\ ~call.reply.ok
    BY <1>2, <2>2, <2>4 DEF Grows
  <2>3. CASE Effect(db, db', tool)
    <3>1. db'.stock[sku] \in Nat
      BY <2>3, ScriptArguments DEF Effect, World
    <3>. QED
      BY <1>2, <2>3, <2>4, <3>1 DEF Grows, Effect
  <2>. QED
    BY <2>1, <2>2, <2>3
<1>. QED
  BY <1>3, <1>4, Calling

LEMMA StockOf ==
  ASSUME NEW d, World(d)
  PROVE  d.stock[sku] \in Nat /\ InitialState.stock[sku] = 9
BY ScriptArguments DEF World, InitialState

LEMMA DeceivedAgain ==
  ASSUME profile' = profile, others' = others, Fired(trace) \subseteq Fired(trace'),
         MayBeDeceived(others, Fired(trace))
  PROVE  MayBeDeceived(others, Fired(trace))'
BY DEF MayBeDeceived, Misleads

LEMMA QuantityType ==
  ASSUME NEW p \in Replacements \cup {None} \cup Nat
  PROVE  /\ Quantity(p) \in Int \cup {None} /\ (Quantity(p) # None => Quantity(p) \in Int)
         /\ p \in Nat => Quantity(p) = p
         /\ Quantity(None) = None
BY MarkersAssumption, ReplacementsAssumption DEF Quantity

\* A call after which the agent is still at the same step.
LEMMA EffectsKept ==
  ASSUME Typed, Effects, profile' = profile, others' = others,
         NEW tool, Grows(tool), tool \in {Script[step], ProbeTool},
         pc \in Running, pc' \in Running, step' = step, failed' = failed,
         FirstReadingIsFair'
  PROVE  Effects'
<1>1. /\ step \in 1..4 /\ others \in Nat /\ World(db) /\ World(db')
      /\ pc \notin Ended /\ pc' \notin Ended
  BY DEF Typed, RunTyped, AgentTyped, Grows, Running, Ended
<1>2. /\ InitialState.stock[sku] = 9 /\ db.stock[sku] \in Nat /\ db'.stock[sku] \in Nat
  BY <1>1, StockOf
<1>3. Restored(db', others) >= Restored(db, others)
      /\ Restored(db, others) \in Int /\ Restored(db', others) \in Int
  BY <1>1, <1>2 DEF Grows, Restored
<1>4. /\ tool = "refund_payment" => step = 2
      /\ tool = "restore_inventory" => step = 3
      /\ tool = "send_confirmation" => step = 4
  <2>1. step = 1 \/ step = 2 \/ step = 3 \/ step = 4
    BY <1>1
  <2>. QED
    BY <2>1, ScriptFacts DEF ProbeTool
<1>5. ASSUME NEW i \in 1..4, Over(i)', i \notin failed PROVE Has(i)'
  <2>1. Over(i)
    BY <1>1, <1>5 DEF Over
  <2>2. Has(i)
    BY <1>5, <2>1 DEF Effects
  <2>. QED
    BY <1>3, <2>2, DeceivedAgain DEF Has, Grows
<1>6. Restored(db', others) > 0 => step >= 3
  <2>1. db'.stock[sku] > db.stock[sku] \/ Restored(db', others) = Restored(db, others)
    BY <1>2 DEF Grows, Restored
  <2>. QED
    BY <1>1, <1>4, <2>1 DEF Grows, Effects
<1>7. (Refunded(db') => step >= 2) /\ (Confirmed(db') => step >= 4)
  BY <1>1, <1>4 DEF Grows, Effects
<1>8. Restored(db', others) >= 0
  BY <1>3 DEF Effects
<1>9. /\ pc' \in Ended => step = 4 \/ step \in failed
      /\ profile.aborts => failed \subseteq {step} /\ failed = {}
  BY <1>1 DEF Effects
<1>. QED
  BY <1>1, <1>5, <1>6, <1>7, <1>8, <1>9 DEF Effects

\* A call that ends the step.
LEMMA EffectsAtEnd ==
  ASSUME Typed, Effects, profile' = profile, others' = others,
         NEW tool, Grows(tool), tool \in {Script[step], ProbeTool},
         pc \in Running, NEW succeeded \in BOOLEAN, StepEnds(succeeded),
         NEW now, now = step, succeeded => Has(now)'
  PROVE  Effects'
<1>1. /\ step \in 1..4 /\ others \in Nat /\ World(db) /\ World(db')
      /\ pc \notin Ended /\ failed \subseteq 1..4
  BY DEF Typed, RunTyped, AgentTyped, Grows, Running, Ended
<1>2. /\ InitialState.stock[sku] = 9 /\ db.stock[sku] \in Nat /\ db'.stock[sku] \in Nat
  BY <1>1, StockOf
<1>3. Restored(db', others) >= Restored(db, others)
      /\ Restored(db, others) \in Int /\ Restored(db', others) \in Int
  BY <1>1, <1>2 DEF Grows, Restored
<1>4. /\ tool = "refund_payment" => step = 2
      /\ tool = "restore_inventory" => step = 3
      /\ tool = "send_confirmation" => step = 4
  <2>1. step = 1 \/ step = 2 \/ step = 3 \/ step = 4
    BY <1>1
  <2>. QED
    BY <2>1, ScriptFacts DEF ProbeTool
<1>5. /\ failed' = IF succeeded THEN failed ELSE failed \cup {step}
      /\ probed' = None
      /\ \/ pc' = "done" /\ step' = step /\ (step = 4 \/ (~succeeded /\ profile.aborts))
         \/ /\ step \in 1..3 /\ step' = step + 1 /\ (succeeded \/ ~profile.aborts)
            /\ pc' \in Running
  BY EndOfStep DEF Typed, Running
<1>6. ASSUME NEW i \in 1..4, Over(i)', i \notin failed' PROVE Has(i)'
  <2>1. i <= step
    BY <1>1, <1>5, <1>6 DEF Over, Running, Ended
  <2>2. CASE i = step
    BY <1>5, <1>6, <2>2
  <2>3. CASE i < step
    <3>1. Has(i)
      BY <1>5, <1>6, <2>3 DEF Effects, Over
    <3>. QED
      BY <1>3, <3>1, DeceivedAgain DEF Has, Grows
  <2>. QED
    BY <1>1, <2>1, <2>2, <2>3
<1>7. Restored(db', others) > 0 => step >= 3
  <2>1. db'.stock[sku] > db.stock[sku] \/ Restored(db', others) = Restored(db, others)
    BY <1>2 DEF Grows, Restored
  <2>. QED
    BY <1>1, <1>4, <2>1 DEF Grows, Effects
<1>8. (Refunded(db') => step >= 2) /\ (Confirmed(db') => step >= 4)
  BY <1>1, <1>4 DEF Grows, Effects
<1>9. step' >= step /\ step' \in Nat
  BY <1>1, <1>5
<1>10. /\ Refunded(db') => step' >= 2
       /\ Restored(db', others) > 0 => step' >= 3
       /\ Confirmed(db') => step' >= 4
  BY <1>1, <1>7, <1>8, <1>9
<1>11. Restored(db', others) >= 0
  BY <1>3 DEF Effects
<1>12. /\ pc' \in Ended => step' = 4 \/ step' \in failed'
       /\ profile.aborts => failed' \subseteq {step'} /\ (pc' \notin Ended => failed' = {})
  BY <1>1, <1>5 DEF Effects, Running, Ended
<1>13. FirstReadingIsFair'
  BY <1>5, QuantityType DEF FirstReadingIsFair
<1>. QED
  BY <1>6, <1>10, <1>11, <1>12, <1>13 DEF Effects

\* What a rule says of the stock in place of the answer to probe n.
ForgedProbe(response, n, fired) ==
  /\ response \in Replacements
  /\ \E r \in fired : /\ r.tool = ProbeTool /\ r.number = n
                      /\ r.type = "malformed_response" /\ r.response = response

\* A probe that is answered tells the stock, unless a rule in the trace answers for it.
LEMMA ProbeAnswers ==
  ASSUME RunTyped, NEW call, call = GatewayCall(ProbeTool), Becomes(call), call.reply.ok
  PROVE  \/ call.reply.response = db.stock[sku]
         \/ ForgedProbe(call.reply.response, counts[ProbeTool] + 1, Fired(trace'))
<1>. DEFINE n == counts[ProbeTool] + 1
<1>1. Handle(db, ProbeTool).answer = db.stock[sku]
  BY HandlerWorks, ProfileType, ScriptFacts DEF Works, RunTyped
<1>2. ~IsRefused(call)
  BY DEF IsRefused
<1>3. PICK entry \in Records : IsMade(call, ProbeTool, entry)
  BY <1>2, Calling, ScriptFacts
<1>4. \/ call.reply.response = db.stock[sku]
      \/ IsReplacement(entry.rule, call.reply.response)
  BY <1>1, <1>3 DEF IsMade
<1>5. CASE IsReplacement(entry.rule, call.reply.response)
  <2>1. entry.rule \in Fired(trace')
    <3>1. trace' = Append(trace, entry) /\ trace \in Seq(Records)
      BY <1>3 DEF IsMade, Becomes, RunTyped
    <3>. QED
      BY <1>3, <1>5, <3>1, FiredGrows DEF IsReplacement
  <2>2. entry.rule = RuleFor(ProbeTool, n) /\ entry.rule # NoRule
    BY <1>3, <1>5 DEF IsMade, IsReplacement
  <2>3. Matches(entry.rule, ProbeTool, n, mode)
    BY <2>2, RuleForType
  <2>. QED
    BY <1>5, <2>1, <2>3 DEF ForgedProbe, IsReplacement, Matches
<1>. QED
  BY <1>4, <1>5

LEMMA ReadingStaysFair ==
  ASSUME FirstReadingIsFair, UNCHANGED probed, Fired(trace) \subseteq Fired(trace')
  PROVE  FirstReadingIsFair'
BY DEF FirstReadingIsFair, Misled, Misleads

LEMMA AgentKeepsEffects ==
  ASSUME Typed, Effects, ProbesAreCounted, AgentStep
  PROVE  Effects'
<1> PICK now : now = step
  OBVIOUS
<1>0. profile' = profile /\ others' = others /\ RunTyped /\ AgentTyped /\ pc \in Running
  BY DEF AgentStep, experiment, Typed, Probe, Reprobe, Attempt, Running
<1>1. step \in 1..4 /\ Script[step] \in Tools /\ ProbeTool \in Tools
  BY <1>0, ScriptFacts DEF AgentTyped
<1>2. /\ World(db) /\ db.stock[sku] \in Nat /\ others \in Nat /\ InitialState.stock[sku] = 9
      /\ profile.keys \in BOOLEAN
  BY <1>0, StockOf, ProfileType DEF RunTyped
<1>3. db.stock[sku] >= 9
  BY <1>2 DEF Effects, Restored
<1>6. CASE Probe
  <2> PICK call : call = GatewayCall(ProbeTool)
    OBVIOUS
  <2>1. /\ Becomes(call) /\ pc = "probe"
        /\ probed' = (IF call.reply.ok THEN call.reply.response ELSE None)
    BY <1>6 DEF Probe
  <2>2. Grows(ProbeTool)
    BY <1>0, <1>1, <2>1, CallGrows
  <2>3. FirstReadingIsFair'
    <3>1. counts[ProbeTool] + 1 = 1
      BY <2>1 DEF ProbesAreCounted
    <3>2. CASE ~call.reply.ok
      BY <2>1, <3>2, QuantityType DEF FirstReadingIsFair
    <3>3. CASE call.reply.ok /\ call.reply.response = db.stock[sku]
      BY <1>2, <1>3, <2>1, <3>3, QuantityType DEF FirstReadingIsFair
    <3>4. CASE call.reply.ok /\ ForgedProbe(call.reply.response, 1, Fired(trace'))
      <4>1. PICK r \in Fired(trace') :
              /\ r.tool = ProbeTool /\ r.number = 1 /\ r.type = "malformed_response"
              /\ r.response = probed' /\ probed' \in Replacements
        BY <2>1, <3>4 DEF ForgedProbe
      <4>2. Quantity(probed') = Reading[r.response] /\ Quantity(probed') \in Int \cup {None}
        BY <4>1, QuantityType DEF Quantity
      <4>3. Reading[r.response] # None /\ Reading[r.response] < InitialState.stock[sku] => Misleads(r)
        BY <4>1 DEF Misleads
      <4>4. Quantity(probed') # None => Quantity(probed') >= 9 \/ Misleads(r)
        BY <1>2, <4>2, <4>3
      <4>. QED
        BY <1>2, <4>1, <4>4 DEF FirstReadingIsFair, Misled, Misleads
    <3>. QED
      BY <1>0, <2>1, <3>1, <3>2, <3>3, <3>4, ProbeAnswers
  <2>4. pc' \in Running /\ step' = step /\ failed' = failed
    BY <1>6 DEF Probe, Running
  <2>. QED
    BY <1>0, <1>2, <2>2, <2>3, <2>4, EffectsKept
<1>7. CASE Reprobe
  <2> PICK call : call = GatewayCall(ProbeTool)
    OBVIOUS
  <2>1. Becomes(call)
    BY <1>7 DEF Reprobe
  <2>2. Grows(ProbeTool)
    BY <1>0, <1>1, <2>1, CallGrows
  <2>3. CASE call.reply.ok /\ Increased(probed, call.reply.response) /\ StepEnds(TRUE)
    <3>1. profile.reconciles /\ step = 3 /\ probed # None
      BY <1>0, <1>7 DEF Reprobe, AgentTyped
    <3>2. /\ counts[ProbeTool] + 1 # 1
          /\ \/ call.reply.response = db.stock[sku]
             \/ ForgedProbe(call.reply.response, counts[ProbeTool] + 1, Fired(trace'))
      <4>1. counts[ProbeTool] \in Nat /\ counts[ProbeTool] >= 1
        BY <1>0, <1>1, <3>1 DEF RunTyped, ProbesAreCounted
      <4>. QED
        BY <1>0, <2>1, <2>3, <4>1, ProbeAnswers
    <3>3. CASE Misled
      <4>1. MayBeDeceived(others, Fired(trace))
        BY <3>1, <3>3 DEF MayBeDeceived, Misled
      <4>2. profile' = profile /\ others' = others /\ Fired(trace) \subseteq Fired(trace')
        BY <1>0, <2>2 DEF Grows
      <4>3. MayBeDeceived(others, Fired(trace))'
        BY <4>1, <4>2, DeceivedAgain
      <4>4. Has(now)'
        BY <1>0, <3>1, <4>3 DEF Has
      <4>. QED
        BY <1>0, <2>2, <2>3, <3>1, <4>4, EffectsAtEnd
    <3>4. CASE ~Misled
      <4>1. /\ Quantity(probed) \in Int /\ Quantity(probed) >= 9
            /\ Quantity(call.reply.response) # None
            /\ Quantity(call.reply.response) > Quantity(probed)
        BY <1>0, <1>2, <2>3, <3>4, QuantityType
        DEF Increased, AgentTyped, Effects, FirstReadingIsFair
      <4>2. CASE call.reply.response = db.stock[sku]
        <5>1. db'.stock[sku] \in Nat
          BY <2>2, StockOf DEF Grows
        <5>2. db.stock[sku] > 9
          BY <1>2, <4>1, <4>2, QuantityType
        <5>3. Restored(db', others) > 0 \/ others > 0
          BY <1>2, <2>2, <5>1, <5>2 DEF Restored, Grows
        <5>4. Has(now)'
          BY <1>0, <3>1, <5>3 DEF Has, MayBeDeceived
        <5>. QED
          BY <1>0, <2>2, <2>3, <3>1, <5>4, EffectsAtEnd
      <4>3. CASE ForgedProbe(call.reply.response, counts[ProbeTool] + 1, Fired(trace'))
        <5>1. PICK r \in Fired(trace') :
                /\ r.tool = ProbeTool /\ r.number # 1 /\ r.type = "malformed_response"
                /\ r.response = call.reply.response /\ r.response \in Replacements
          BY <3>2, <4>3 DEF ForgedProbe
        <5>2. Reading[r.response] # None /\ Reading[r.response] > 9
          <6>1. Quantity(r.response) = Reading[r.response] /\ Reading[r.response] \in Int \cup {None}
            BY <5>1, ReplacementsAssumption DEF Quantity
          <6>. QED
            BY <4>1, <5>1, <6>1
        <5>3. Misleads(r)
          BY <1>2, <5>1, <5>2 DEF Misleads
        <5>4. Has(now)'
          BY <1>0, <3>1, <5>1, <5>3 DEF Has, MayBeDeceived, Misleads
        <5>. QED
          BY <1>0, <2>2, <2>3, <3>1, <5>4, EffectsAtEnd
      <4>. QED
        BY <3>2, <4>2, <4>3
    <3>. QED
      BY <3>3, <3>4
  <2>4. CASE pc' = "attempt" /\ UNCHANGED <<step, attempt, probed, failed>>
    <3>1. pc' \in Running /\ step' = step /\ failed' = failed /\ FirstReadingIsFair'
      BY <2>2, <2>4, ReadingStaysFair DEF Running, Effects, Grows
    <3>. QED
      BY <1>0, <2>2, <3>1, EffectsKept
  <2>. QED
    BY <1>7, <2>3, <2>4 DEF Reprobe
<1>8. CASE Attempt
  <2> PICK call : call = GatewayCall(Script[step])
    OBVIOUS
  <2>1. Becomes(call)
    BY <1>8 DEF Attempt
  <2>2. Grows(Script[step]) /\ (call.reply.ok => Effect(db, db', Script[step]))
    BY <1>0, <1>1, <2>1, CallGrows
  <2>3. CASE Accepts(call.reply) /\ StepEnds(TRUE)
    <3>1. Effect(db, db', Script[step])
      BY <2>2, <2>3 DEF Accepts
    <3>2. step = 1 \/ step = 2 \/ step = 3 \/ step = 4
      BY <1>1
    <3>3. step = 3 => Restored(db', others) > 0
      <4>1. db'.stock[sku] \in Nat
        BY <2>2, StockOf DEF Grows
      <4>2. step = 3 => db'.stock[sku] > db.stock[sku]
        BY <3>1, ScriptFacts DEF Effect
      <4>. QED
        BY <1>2, <4>1, <4>2 DEF Effects, Restored
    <3>4. /\ step = 1 => Cancelled(db')
          /\ step = 2 => Refunded(db')
          /\ step = 4 => Confirmed(db')
      BY <3>1, <3>2, ScriptFacts DEF Effect
    <3>5. Has(now)'
      BY <1>0, <3>3, <3>4 DEF Has
    <3>. QED
      BY <1>0, <2>2, <2>3, <3>5, EffectsAtEnd
  <2>4. CASE StepEnds(FALSE)
    BY <1>0, <2>2, <2>4, EffectsAtEnd
  <2>5. CASE /\ attempt' = attempt + 1
             /\ pc' = IF Reconciles(step) /\ probed # None THEN "reprobe" ELSE "attempt"
             /\ UNCHANGED <<step, probed, failed>>
    <3>1. pc' \in Running /\ step' = step /\ failed' = failed /\ FirstReadingIsFair'
      BY <2>2, <2>5, ReadingStaysFair DEF Running, Effects, Grows
    <3>. QED
      BY <1>0, <2>2, <3>1, EffectsKept
  <2>. QED
    BY <1>8, <2>3, <2>4, <2>5 DEF Attempt
<1>. QED
  BY <1>6, <1>7, <1>8 DEF AgentStep

LEMMA FreshSandbox ==
  /\ ~Refunded(InitialState) /\ ~Confirmed(InitialState) /\ ~Cancelled(InitialState)
  /\ Restored(InitialState, 0) = 0
<1>1. DOMAIN EmptyLedger.entries = {}
  BY DEF EmptyLedger, Nowhere
<1>2. InitialState.stock[sku] = 9 /\ InitialState.orders[order] = "confirmed"
  BY ScriptArguments DEF InitialState
<1>. QED
  BY <1>1, <1>2 DEF Refunded, Confirmed, Cancelled, Restored, InitialState

LEMMA FreshEffects ==
  ASSUME Fresh, step = 1, failed = {}, probed = None, pc \notin Ended
  PROVE  Effects
<1>1. db = InitialState /\ others = 0 /\ FirstReadingIsFair
  BY QuantityType DEF Fresh, FreshWorld, FirstReadingIsFair
<1>2. \A i \in 1..4 : ~Over(i)
  BY DEF Over
<1>. QED
  BY <1>1, <1>2, FreshSandbox DEF Effects

LEMMA NextEffects ==
  ASSUME Typed, Effects, ProbesAreCounted, [Next]_vars
  PROVE  Effects'
<1>0. RunTyped /\ AgentTyped /\ Typed'
  BY NextTypes DEF Typed
<1>1. CASE AgentStep
  BY <1>1, AgentKeepsEffects
<1>2. CASE BaselineEnds
  <2>1. /\ db' = InitialState /\ others' = 0
        /\ step' = 1 /\ failed' = {} /\ FirstReadingIsFair'
    BY <1>2, QuantityType DEF BaselineEnds, Becomes, FreshWorld, FirstReadingIsFair
  <2>2. pc' \notin Ended
    BY <1>2, FirstMoves DEF BaselineEnds, Ended
  <2>3. \A i \in 1..4 : ~Over(i)'
    BY <2>1, <2>2 DEF Over
  <2>. QED
    BY <2>1, <2>2, <2>3, FreshSandbox DEF Effects
<1>3. CASE OtherWriter
  <2>1. /\ UNCHANGED <<profile, pc, step, failed, probed, trace>>
        /\ World(db') /\ db'.stock[sku] = db.stock[sku] + 1 /\ others' = others + 1
        /\ Cancelled(db') <=> Cancelled(db)
        /\ Refunded(db') <=> Refunded(db)
        /\ Confirmed(db') <=> Confirmed(db)
        /\ step = 3 /\ pc \in Running
    BY <1>3, OtherIsRestore DEF OtherWriter, agent, experiment
  <2>2. db.stock[sku] \in Nat /\ InitialState.stock[sku] = 9 /\ others \in Nat
    BY <1>0, StockOf DEF RunTyped
  <2>3. Restored(db', others') = Restored(db, others)
    BY <2>1, <2>2 DEF Restored
  <2>4. ASSUME NEW i \in 1..4, Over(i)', i \notin failed PROVE Has(i)'
    <3>1. Over(i) /\ Has(i) /\ i < 3
      BY <2>1, <2>4 DEF Over, Effects, Running, Ended
    <3>. QED
      BY <2>1, <3>1 DEF Has
  <2>5. FirstReadingIsFair'
    BY <2>1, ReadingStaysFair DEF Effects
  <2>. QED
    BY <2>1, <2>3, <2>4, <2>5 DEF Effects
<1>4. CASE \/ \E r \in FaultRules : Declare(r)
           \/ RunStarts
           \/ FaultedEnds
           \/ UNCHANGED vars
  <2>1. /\ UNCHANGED <<profile, db, others, step, failed, probed, trace>>
        /\ pc \in Ended <=> pc' \in Ended
    <3>1. CASE \E r \in FaultRules : Declare(r)
      BY <3>1 DEF Declare, world, agent
    <3>2. CASE RunStarts
      BY <3>2, FirstMoves DEF RunStarts, world, experiment, Ended
    <3>3. CASE FaultedEnds
      BY <3>3 DEF FaultedEnds, world, experiment, Ended
    <3>4. CASE UNCHANGED vars
      BY <3>4 DEF vars, world, agent, experiment
    <3>. QED
      BY <1>4, <3>1, <3>2, <3>3, <3>4
  <2>2. ASSUME NEW i \in 1..4, Over(i)', i \notin failed PROVE Has(i)'
    <3>1. Over(i) /\ Has(i)
      BY <2>1, <2>2 DEF Over, Effects
    <3>. QED
      BY <2>1, <3>1 DEF Has, MayBeDeceived, Misleads, Cancelled, Refunded, Confirmed
  <2>3. FirstReadingIsFair'
    BY <2>1, ReadingStaysFair DEF Effects
  <2>. QED
    BY <2>1, <2>2, <2>3 DEF Effects, Refunded, Confirmed
<1>. QED
  BY <1>1, <1>2, <1>3, <1>4 DEF Next, Proceed

LEMMA NextProbes ==
  ASSUME Typed, ProbesAreCounted, [Next]_vars
  PROVE  ProbesAreCounted'
<1>0. RunTyped /\ AgentTyped /\ ProbeTool \in Tools /\ counts[ProbeTool] \in Nat
  BY ScriptFacts DEF Typed, RunTyped
<1>1. ASSUME NEW tool \in Tools, NEW call, call = GatewayCall(tool), Becomes(call)
      PROVE  /\ counts'[ProbeTool] \in Nat /\ counts'[ProbeTool] >= counts[ProbeTool]
             /\ tool # ProbeTool => counts'[ProbeTool] = counts[ProbeTool]
             /\ tool = ProbeTool /\ call.reply.ok => counts'[ProbeTool] >= 1
  <2>1. CASE IsRefused(call)
    BY <1>0, <1>1, <2>1 DEF IsRefused, Becomes
  <2>2. ASSUME NEW entry \in Records, IsMade(call, tool, entry)
        PROVE  /\ counts'[ProbeTool] \in Nat /\ counts'[ProbeTool] >= counts[ProbeTool]
               /\ tool # ProbeTool => counts'[ProbeTool] = counts[ProbeTool]
               /\ tool = ProbeTool => counts'[ProbeTool] >= 1
    <3>1. counts' = [counts EXCEPT ![tool] = @ + 1] /\ counts \in [Tools -> Nat]
      BY <1>0, <1>1, <2>2 DEF IsMade, Becomes, RunTyped
    <3>. QED
      BY <1>0, <3>1
  <2>. QED
    BY <1>0, <1>1, <2>1, <2>2, Calling
<1>2. ASSUME NEW succeeded \in BOOLEAN, StepEnds(succeeded), counts'[ProbeTool] \in Nat,
             step \in 1..2 => counts'[ProbeTool] = 0
      PROVE  ProbesAreCounted'
  <2>1. probed' = None /\ (step' = step \/ step' = step + 1) /\ step \in 1..4
        /\ (pc' = "done" \/ (pc' = "probe" => step' = 3 /\ step = 2))
    BY <1>0, <1>2, EndOfStep DEF AgentTyped
  <2>. QED
    BY <1>2, <2>1 DEF ProbesAreCounted
<1>3. CASE Probe
  <2> PICK call : call = GatewayCall(ProbeTool)
    OBVIOUS
  <2>1. /\ Becomes(call) /\ probed' = (IF call.reply.ok THEN call.reply.response ELSE None)
        /\ pc' = "attempt" /\ step' = step /\ step = 3
    BY <1>0, <1>3 DEF Probe, AgentTyped
  <2>. QED
    BY <1>0, <1>1, <2>1 DEF ProbesAreCounted
<1>4. CASE Reprobe
  <2> PICK call : call = GatewayCall(ProbeTool)
    OBVIOUS
  <2>1. /\ Becomes(call) /\ step = 3
        /\ StepEnds(TRUE) \/ (pc' = "attempt" /\ UNCHANGED <<step, probed>>)
    BY <1>0, <1>4 DEF Reprobe, AgentTyped
  <2>2. /\ counts'[ProbeTool] \in Nat /\ counts[ProbeTool] \in Nat
        /\ counts'[ProbeTool] >= counts[ProbeTool]
    BY <1>0, <1>1, <2>1 DEF RunTyped
  <2>3. CASE StepEnds(TRUE)
    <3>1. step \in 1..2 => counts'[ProbeTool] = 0
      BY <2>1
    <3>. PICK succeeded \in BOOLEAN : succeeded
      OBVIOUS
    <3>. QED
      BY <1>2, <2>2, <2>3, <3>1
  <2>4. CASE pc' = "attempt" /\ UNCHANGED <<step, probed>>
    <3>1. probed' # None => counts'[ProbeTool] >= 1
      BY <1>0, <2>2, <2>4 DEF ProbesAreCounted
    <3>2. step' = 3 /\ pc' # "probe"
      BY <2>1, <2>4
    <3>. QED
      BY <3>1, <3>2 DEF ProbesAreCounted
  <2>. QED
    BY <2>1, <2>3, <2>4
<1>5. CASE Attempt
  <2> PICK call : call = GatewayCall(Script[step])
    OBVIOUS
  <2>1. step \in 1..4 /\ Script[step] \in Tools \ {ProbeTool}
    BY <1>0, ScriptFacts DEF AgentTyped
  <2>2. /\ Becomes(call)
        /\ \/ StepEnds(TRUE) \/ StepEnds(FALSE)
           \/ pc' \in {"attempt", "reprobe"} /\ UNCHANGED <<step, probed>>
    BY <1>5 DEF Attempt
  <2>3. counts'[ProbeTool] = counts[ProbeTool]
    BY <1>1, <2>1, <2>2
  <2>. QED
    BY <1>0, <1>2, <2>2, <2>3 DEF ProbesAreCounted
<1>6. CASE BaselineEnds
  <2>1. counts' = [t \in Tools |-> 0] /\ probed' = None
    BY <1>6 DEF BaselineEnds, Becomes, FreshWorld
  <2>. QED
    BY <1>0, <2>1 DEF ProbesAreCounted
<1>7. CASE RunStarts
  <2>1. UNCHANGED <<counts, step, probed>> /\ step = 1 /\ pc' = "attempt"
    BY <1>0, <1>7, FirstMoves DEF RunStarts, world, AgentTyped
  <2>. QED
    BY <2>1 DEF ProbesAreCounted
<1>8. CASE (\E r \in FaultRules : Declare(r)) \/ OtherWriter \/ FaultedEnds \/ UNCHANGED vars
  <2>1. UNCHANGED <<counts, step, probed>> /\ (pc' = pc \/ pc' = "reported")
    BY <1>8 DEF Declare, OtherWriter, FaultedEnds, vars, world, agent
  <2>. QED
    BY <2>1 DEF ProbesAreCounted
<1>. QED
  BY <1>3, <1>4, <1>5, <1>6, <1>7, <1>8 DEF Next, Proceed, AgentStep

LEMMA EffectsHold == Spec => [](Typed /\ Effects)
<1>1. Init => Effects /\ ProbesAreCounted
  <2> SUFFICES ASSUME Init PROVE Effects /\ ProbesAreCounted
    OBVIOUS
  <2>1. ProbesAreCounted
    BY ScriptFacts DEF Init, ProbesAreCounted, FreshWorld
  <2>. QED
    BY <2>1, FreshEffects DEF Init, Fresh, Ended
<1>2. Typed /\ Effects /\ ProbesAreCounted /\ [Next]_vars => Effects' /\ ProbesAreCounted'
  BY NextEffects, NextProbes
<1>. QED
  BY <1>1, <1>2, InitTypes, NextTypes, PTL DEF Spec

\* An agent that stops at a failed step leaves the effects of its calls in the order of its
\* script, whatever rules, replaced responses and budget; only a reconciling agent may send
\* the confirmation without a restore of its own, and only after somebody else's restore or a
\* replaced answer to a probe that makes the stock look as if it had grown.
THEOREM EffectsInOrder == Spec => []AbortingAgentsKeepTheOrder
<1>1. Typed /\ Effects => AbortingAgentsKeepTheOrder
  <2> SUFFICES ASSUME Typed, Effects, profile.aborts
               PROVE  /\ RefundsMade(db) # {} => db.orders[order] = "cancelled"
                      /\ Restored(db, others) > 0 => RefundsMade(db) # {}
                      /\ ConfirmationsMade(db) # {} =>
                           Restored(db, others) > 0 \/ MayBeDeceived(others, Fired(trace))
    BY DEF AbortingAgentsKeepTheOrder
  <2>1. World(db) /\ step \in 1..4 /\ failed \subseteq {step}
    BY DEF Typed, RunTyped, AgentTyped, Effects
  <2>2. ASSUME NEW i \in 1..4, i < step PROVE Has(i)
    BY <2>1, <2>2 DEF Effects, Over
  <2>. QED
    BY <2>1, <2>2, MadeIsListed DEF Effects, Has, Cancelled, Refunded, Confirmed
<1>. QED
  BY <1>1, EffectsHold, PTL

Deceives(added, fired) == added > 0 \/ \E r \in fired : Misleads(r)

\* What an honest agent that claims success claims is so, for every set of rules and replaced
\* responses, in the report of either run; but for the stock, about which a reconciling agent
\* is deceived if somebody else restores or a probe's answer is replaced misleadingly.
THEOREM ClaimsBacked == Spec => []HonestClaimsAreBacked
<1>1. ASSUME Typed, Effects, profile.honest, Report.claims, pc = "done"
      PROVE  LET d == Report.db  added == Report.others
             IN  /\ d.orders[order] = "cancelled"
                 /\ RefundsMade(d) # {}
                 /\ Restored(d, added) > 0 \/ MayBeDeceived(added, Report.fired)
                 /\ ConfirmationsMade(d) # {}
  <2>1. /\ Report.db = db /\ Report.others = others /\ Report.fired = Fired(trace)
        /\ failed = {}
    BY <1>1 DEF Report, ClaimsSuccess
  <2>2. World(db) /\ step = 4
    BY <1>1, <2>1 DEF Typed, RunTyped, Effects, Ended
  <2>3. \A i \in 1..4 : Has(i)
    BY <1>1, <2>1, <2>2 DEF Effects, Over, Ended
  <2>. QED
    BY <2>1, <2>2, <2>3, MadeIsListed DEF Has, Cancelled, Refunded, Confirmed
<1>2. Init => HonestClaimsAreBacked
  BY DEF Init, HonestClaimsAreBacked
<1>3. Typed /\ Effects /\ HonestClaimsAreBacked /\ [Next]_vars => HonestClaimsAreBacked'
  <2> SUFFICES ASSUME Typed, Effects, HonestClaimsAreBacked, [Next]_vars,
                      NEW m \in Modes, reports'[m] # None, profile'.honest, reports'[m].claims
               PROVE  LET d == reports'[m].db  added == reports'[m].others
                      IN  /\ d.orders[order] = "cancelled"
                          /\ RefundsMade(d) # {}
                          /\ \/ Restored(d, added) > 0
                             \/ profile'.reconciles /\ Deceives(added, reports'[m].fired)
                          /\ ConfirmationsMade(d) # {}
    BY DEF HonestClaimsAreBacked, MayBeDeceived, Misleads, Deceives
  <2>1. profile' = profile
    BY DEF Next, Proceed, Declare, RunStarts, AgentStep, BaselineEnds, FaultedEnds, OtherWriter,
           vars, experiment
  <2>2. reports'[m] = reports[m] \/ (reports'[m] = Report /\ pc = "done")
    <3>1. CASE BaselineEnds \/ FaultedEnds
      BY <3>1 DEF BaselineEnds, FaultedEnds, Typed, AgentTyped
    <3>2. CASE ~(BaselineEnds \/ FaultedEnds)
      BY <3>2 DEF Next, Proceed, Declare, RunStarts, AgentStep, OtherWriter, vars
    <3>. QED
      BY <3>1, <3>2
  <2>3. CASE reports'[m] = reports[m]
    BY <2>1, <2>3 DEF HonestClaimsAreBacked, MayBeDeceived, Deceives
  <2>4. CASE reports'[m] = Report /\ pc = "done"
    BY <1>1, <2>1, <2>4 DEF MayBeDeceived, Deceives
  <2>. QED
    BY <2>2, <2>3, <2>4
<1>. QED
  BY <1>2, <1>3, EffectsHold, PTL DEF Spec

-----------------------------------------------------------------------------
\* The numbers of the calls and the rules that fire.

\* Every tool's calls are numbered 1, 2, ... without a gap, each number is used once, and a
\* call meets the rule that is selected by its tool and number.
Numbered ==
  /\ \A i \in DOMAIN trace :
       /\ trace[i].number \in 1..counts[trace[i].tool]
       /\ trace[i].rule = RuleFor(trace[i].tool, trace[i].number)
  /\ \A i, j \in DOMAIN trace :
       trace[i].tool = trace[j].tool /\ trace[i].number = trace[j].number => i = j
  /\ \A t \in Tools : \A n \in 1..counts[t] :
       \E i \in DOMAIN trace : trace[i].tool = t /\ trace[i].number = n
  /\ \A r, s \in rules : r.tool = s.tool /\ r.number = s.number => r = s

LEMMA RuleForIsTheRule ==
  ASSUME Numbered, rules \subseteq FaultRules, NEW r \in rules, NEW tool, NEW n
  PROVE  RuleFor(tool, n) = r <=> mode = "faulted" /\ r.tool = tool /\ r.number = n
<1>1. r # NoRule
  BY MarkersAssumption
<1>2. CASE \E s \in rules : Matches(s, tool, n, mode)
  <2>. DEFINE found == CHOOSE s \in rules : Matches(s, tool, n, mode)
  <2>1. found \in rules /\ Matches(found, tool, n, mode)
    BY <1>2
  <2>2. RuleFor(tool, n) = found
    BY <1>2 DEF RuleFor
  <2>. HIDE DEF found
  <2>. QED
    BY <2>1, <2>2 DEF Matches, Numbered
<1>3. CASE ~ \E s \in rules : Matches(s, tool, n, mode)
  BY <1>1, <1>3 DEF RuleFor, Matches
<1>. QED
  BY <1>2, <1>3

LEMMA CallKeepsNumbers ==
  ASSUME RunTyped, Numbered, NEW tool \in Tools, Becomes(GatewayCall(tool)),
         rules' = rules, mode' = mode
  PROVE  Numbered'
<1> PICK call : call = GatewayCall(tool)
  OBVIOUS
<1>1. counts' = call.counts /\ trace' = call.trace
  BY DEF Becomes
<1>2. \A t, n : RuleFor(t, n)' = RuleFor(t, n)
  BY DEF RuleFor
<1>3. CASE IsRefused(call)
  <2>1. counts' = counts /\ trace' = trace
    BY <1>1, <1>3 DEF IsRefused
  <2>. QED
    BY <1>2, <2>1 DEF Numbered
<1>4. ASSUME NEW entry \in Records, IsMade(call, tool, entry) PROVE Numbered'
  <2> PICK last : last = Len(trace) + 1
    OBVIOUS
  <2>1. /\ counts' = [counts EXCEPT ![tool] = @ + 1] /\ counts \in [Tools -> Nat]
        /\ trace' = Append(trace, entry) /\ trace \in Seq(Records)
        /\ entry.tool = tool /\ entry.number = counts[tool] + 1
        /\ entry.rule = RuleFor(tool, counts[tool] + 1)
    BY <1>1, <1>4 DEF IsMade, RunTyped
  <2>2. /\ DOMAIN trace = 1..Len(trace) /\ DOMAIN trace' = 1..last
        /\ Len(trace) \in Nat /\ last \in DOMAIN trace' /\ last \notin DOMAIN trace
        /\ trace'[last] = entry
        /\ \A i \in DOMAIN trace : i \in DOMAIN trace' /\ trace'[i] = trace[i]
        /\ \A i \in DOMAIN trace' : i \in DOMAIN trace \/ i = last
    BY <2>1
  <2>3. /\ counts'[tool] = counts[tool] + 1 /\ counts[tool] \in Nat
        /\ \A t \in Tools : t # tool => counts'[t] = counts[t]
        /\ \A t \in Tools : counts[t] \in Nat /\ counts'[t] \in Nat /\ counts'[t] >= counts[t]
    BY <2>1
  <2>4. \A i \in DOMAIN trace : trace[i].tool \in Tools /\ trace[i].number \in Nat
    <3>1. \A e \in Records : e.tool \in Tools /\ e.number \in Nat
      BY DEF Records
    <3>2. \A i \in DOMAIN trace : trace[i] \in Records
      BY <2>1
    <3>. QED
      BY <3>1, <3>2
  <2>5. ASSUME NEW i \in DOMAIN trace'
        PROVE  /\ trace'[i].number \in 1..counts'[trace'[i].tool]
               /\ trace'[i].rule = RuleFor(trace'[i].tool, trace'[i].number)
    <3>1. CASE i = last
      BY <2>1, <2>2, <2>3, <3>1
    <3>2. CASE i \in DOMAIN trace
      <4>1. trace'[i] = trace[i] /\ trace[i].number \in 1..counts[trace[i].tool]
            /\ trace[i].rule = RuleFor(trace[i].tool, trace[i].number)
        BY <2>2, <3>2 DEF Numbered
      <4>. QED
        BY <2>3, <2>4, <3>2, <4>1
    <3>. QED
      BY <2>2, <3>1, <3>2
  <2>6. \A i \in DOMAIN trace : ~(trace[i].tool = tool /\ trace[i].number = counts[tool] + 1)
    <3> SUFFICES ASSUME NEW i \in DOMAIN trace, trace[i].tool = tool PROVE trace[i].number <= counts[tool]
      BY <2>3, <2>4
    <3>. QED
      BY <2>3 DEF Numbered
  <2>7. ASSUME NEW i \in DOMAIN trace', NEW j \in DOMAIN trace',
               trace'[i].tool = trace'[j].tool, trace'[i].number = trace'[j].number
        PROVE  i = j
    <3>1. CASE i \in DOMAIN trace /\ j \in DOMAIN trace
      BY <2>2, <2>7, <3>1 DEF Numbered
    <3>2. CASE i = last \/ j = last
      BY <2>1, <2>2, <2>6, <2>7, <3>2
    <3>. QED
      BY <2>2, <3>1, <3>2
  <2>8. ASSUME NEW t \in Tools, NEW n \in 1..counts'[t]
        PROVE  \E i \in DOMAIN trace' : trace'[i].tool = t /\ trace'[i].number = n
    <3>1. CASE n \in 1..counts[t]
      <4>1. PICK i \in DOMAIN trace : trace[i].tool = t /\ trace[i].number = n
        BY <3>1 DEF Numbered
      <4>. QED
        BY <2>2, <4>1
    <3>2. CASE n \notin 1..counts[t]
      <4>1. t = tool /\ n = counts[tool] + 1
        BY <2>3, <2>8, <3>2
      <4>. QED
        BY <2>1, <2>2, <4>1
    <3>. QED
      BY <3>1, <3>2
  <2>9. \A r, s \in rules' : r.tool = s.tool /\ r.number = s.number => r = s
    BY DEF Numbered
  <2>. QED
    BY <1>2, <2>5, <2>7, <2>8, <2>9 DEF Numbered
<1>. QED
  BY <1>3, <1>4, Calling

LEMMA AgentCalls ==
  ASSUME Typed, AgentStep
  PROVE  \E tool \in Tools : Becomes(GatewayCall(tool))
<1>1. Script[step] \in Tools /\ ProbeTool \in Tools
  BY ScriptFacts DEF Typed, AgentTyped
<1>. QED
  BY <1>1 DEF AgentStep, Probe, Reprobe, Attempt

LEMMA NoCallsYet ==
  ASSUME NEW t, NEW c, t = <<>>, c = [u \in Tools |-> 0]
  PROVE  DOMAIN t = {} /\ Len(t) = 0 /\ \A u \in Tools : 1..c[u] = {}
OBVIOUS

LEMMA NextNumbers ==
  ASSUME Typed, Numbered, [Next]_vars
  PROVE  Numbered'
<1>1. ASSUME NEW r \in FaultRules, Declare(r) PROVE Numbered'
  <2>1. /\ trace' = trace /\ counts' = counts /\ rules' = rules \cup {r}
        /\ \A s \in rules : s.tool # r.tool \/ s.number # r.number
        /\ trace = <<>> /\ counts = [t \in Tools |-> 0]
    BY <1>1 DEF Declare, world, Typed, AgentTyped, Fresh, FreshWorld
  <2>2. DOMAIN trace' = {} /\ \A t \in Tools : 1..counts'[t] = {}
    BY <2>1, NoCallsYet
  <2>3. \A s, u \in rules' : s.tool = u.tool /\ s.number = u.number => s = u
    BY <2>1 DEF Numbered
  <2>. QED
    BY <2>2, <2>3 DEF Numbered
<1>2. CASE AgentStep
  <2>1. rules' = rules /\ mode' = mode
    BY <1>2 DEF AgentStep, experiment
  <2>. QED
    BY <1>2, <2>1, AgentCalls, CallKeepsNumbers DEF Typed
<1>3. CASE BaselineEnds
  <2>1. rules' = rules /\ trace' = <<>> /\ counts' = [t \in Tools |-> 0]
    BY <1>3 DEF BaselineEnds, Becomes, FreshWorld, experiment
  <2>2. DOMAIN trace' = {} /\ \A t \in Tools : 1..counts'[t] = {}
    BY <2>1, NoCallsYet
  <2>. QED
    BY <2>1, <2>2 DEF Numbered
<1>4. CASE RunStarts \/ FaultedEnds \/ OtherWriter \/ UNCHANGED vars
  <2>1. rules' = rules /\ mode' = mode /\ trace' = trace /\ counts' = counts
    BY <1>4 DEF RunStarts, FaultedEnds, OtherWriter, vars, experiment, world
  <2>2. \A t, n : RuleFor(t, n)' = RuleFor(t, n)
    BY <2>1 DEF RuleFor
  <2>. QED
    BY <2>1, <2>2 DEF Numbered
<1>. QED
  BY <1>1, <1>2, <1>3, <1>4 DEF Next, Proceed

\* A rule fires exactly once if the calls of its tool reach its number in the faulted run,
\* and never otherwise, for every set of rules.
THEOREM RulesFire == Spec => []RulesFireWhenReached
<1>1. Init => Numbered
  <2> SUFFICES ASSUME Init PROVE Numbered
    OBVIOUS
  <2>1. DOMAIN trace = {} /\ rules = {} /\ \A t \in Tools : 1..counts[t] = {}
    BY NoCallsYet DEF Init, FreshWorld
  <2>. QED
    BY <2>1 DEF Numbered
<1>2. Typed /\ Numbered => RulesFireWhenReached
  <2> SUFFICES ASSUME Typed, Numbered, NEW r \in rules
               PROVE  Cardinality({i \in DOMAIN trace : trace[i].rule = r}) =
                        IF mode = "faulted" /\ counts[r.tool] >= r.number THEN 1 ELSE 0
    BY DEF RulesFireWhenReached
  <2>. DEFINE S == {i \in DOMAIN trace : trace[i].rule = r}
  <2>1. /\ rules \subseteq FaultRules /\ r.tool \in Tools /\ r.number \in Nat \ {0}
        /\ counts[r.tool] \in Nat
    BY RulesAssumption DEF Typed, RunTyped, FaultRules
  <2>2. \A i \in DOMAIN trace :
          trace[i].rule = r <=> mode = "faulted" /\ trace[i].tool = r.tool /\ trace[i].number = r.number
    BY <2>1, RuleForIsTheRule DEF Numbered
  <2>3. CASE mode = "faulted" /\ counts[r.tool] >= r.number
    <3>1. PICK i \in DOMAIN trace : trace[i].tool = r.tool /\ trace[i].number = r.number
      BY <2>1, <2>3 DEF Numbered
    <3>2. S = {i}
      BY <2>2, <2>3, <3>1 DEF Numbered
    <3>3. Cardinality({i}) = 1
      BY FS_Singleton
    <3>. QED
      BY <2>3, <3>2, <3>3
  <2>4. CASE ~(mode = "faulted" /\ counts[r.tool] >= r.number)
    <3>1. S = {}
      <4> SUFFICES ASSUME NEW i \in DOMAIN trace, trace[i].rule = r PROVE FALSE
        OBVIOUS
      <4>1. mode = "faulted" /\ r.number \in 1..counts[r.tool]
        BY <2>2 DEF Numbered
      <4>. QED
        BY <2>1, <2>4, <4>1
    <3>2. Cardinality({}) = 0
      BY FS_EmptySet
    <3>. QED
      BY <2>4, <3>1, <3>2
  <2>. QED
    BY <2>3, <2>4
<1>. QED
  BY <1>1, <1>2, InitTypes, NextTypes, NextNumbers, PTL DEF Spec

-----------------------------------------------------------------------------
\* An agent that reconciles.

\* No probe was interfered with and nothing was delivered twice.
Undisturbed(t) == \A r \in Fired(t) : r.tool # ProbeTool /\ r.type # "duplicate_request"

\* What the probe found bounds the stock before the agent's own restore.  If the probe found
\* nothing the budget is spent, and no attempt gets through.
Once ==
  profile.reconciles /\ Undisturbed(trace) =>
    /\ Restored(db, others) <= 1
    /\ pc = "probe" => Restored(db, others) = 0
    /\ step = 3 /\ pc \in {"attempt", "reprobe"} =>
         \/ probed = None /\ calls >= budget
         \/ probed \in Nat /\ probed <= InitialState.stock[sku] + others
    /\ step = 3 /\ pc = "attempt" /\ calls < budget => Restored(db, others) = 0

LEMMA CalmCall ==
  ASSUME RunTyped, NEW tool \in Tools, NEW call, call = GatewayCall(tool), Becomes(call),
         Undisturbed(trace')
  PROVE  /\ Undisturbed(trace)
         /\ \/ calls >= budget /\ calls' = calls /\ db' = db /\ ~call.reply.ok
            \/ /\ calls < budget
               /\ db'.stock[sku] \in {db.stock[sku], Handle(db, tool).db.stock[sku]}
               /\ tool = ProbeTool => call.reply.ok /\ call.reply.response = db.stock[sku]
<1>1. db' = call.db /\ calls' = call.calls /\ trace' = call.trace
  BY DEF Becomes
<1>2. CASE IsRefused(call)
  BY <1>1, <1>2 DEF IsRefused
<1>3. ASSUME NEW entry \in Records, IsMade(call, tool, entry)
      PROVE  /\ Undisturbed(trace)
             /\ calls < budget
             /\ db'.stock[sku] \in {db.stock[sku], Handle(db, tool).db.stock[sku]}
             /\ tool = ProbeTool => call.reply.ok /\ call.reply.response = db.stock[sku]
  <2>1. trace' = Append(trace, entry) /\ trace \in Seq(Records)
        /\ calls < budget /\ entry.rule = RuleFor(tool, counts[tool] + 1)
    BY <1>1, <1>3 DEF IsMade, RunTyped
  <2>2. /\ \A i \in DOMAIN trace : i \in DOMAIN trace' /\ trace'[i] = trace[i]
        /\ Len(trace) + 1 \in DOMAIN trace' /\ trace'[Len(trace) + 1] = entry
    BY <2>1
  <2>3. Fired(trace) \subseteq Fired(trace')
    BY <2>2 DEF Fired
  <2>4. entry.rule # NoRule => entry.rule \in Fired(trace')
    BY <2>2 DEF Fired
  <2>5. TypeOf(entry.rule) # "duplicate_request"
    BY <2>4 DEF Undisturbed, TypeOf
  <2>6. tool = ProbeTool => entry.rule = NoRule
    <3> SUFFICES ASSUME tool = ProbeTool, entry.rule # NoRule PROVE FALSE
      OBVIOUS
    <3>1. entry.rule.tool = ProbeTool
      BY <2>1, RuleForType DEF Matches
    <3>. QED
      BY <2>4, <3>1 DEF Undisturbed
  <2>7. db' = db \/ db' = Handle(db, tool).db
    BY <1>1, <1>3, <2>5 DEF IsMade
  <2>8. Handle(db, ProbeTool).answer = db.stock[sku]
    BY HandlerWorks, ScriptFacts, ProfileType DEF RunTyped, Works
  <2>9. tool = ProbeTool => call.reply.ok /\ call.reply.response = db.stock[sku]
    BY <1>3, <2>6, <2>8 DEF IsMade
  <2>. QED
    BY <2>1, <2>3, <2>7, <2>9 DEF Undisturbed
<1>. QED
  BY <1>2, <1>3, Calling DEF IsRefused

LEMMA AgentKeepsOnce ==
  ASSUME Typed, Effects, Once, AgentStep
  PROVE  Once'
<1> SUFFICES ASSUME profile.reconciles, Undisturbed(trace')
             PROVE  /\ Restored(db', others) <= 1
                    /\ pc' = "probe" => Restored(db', others) = 0
                    /\ step' = 3 /\ pc' \in {"attempt", "reprobe"} =>
                         \/ probed' = None /\ calls' >= budget
                         \/ probed' \in Nat /\ probed' <= InitialState.stock[sku] + others
                    /\ step' = 3 /\ pc' = "attempt" /\ calls' < budget => Restored(db', others) = 0
  BY DEF Once, AgentStep, experiment
<1>0. /\ RunTyped /\ AgentTyped /\ World(db) /\ profile.keys \in BOOLEAN /\ budget \in Nat
      /\ calls \in Nat /\ others \in Nat
  BY ProfileType DEF Typed, RunTyped
<1>1. step \in 1..4 /\ Script[step] \in Tools /\ ProbeTool \in Tools
  BY <1>0, ScriptFacts DEF AgentTyped
<1>2. db.stock[sku] \in Nat /\ InitialState.stock[sku] = 9 /\ Restored(db, others) \in Int
  BY <1>0, StockOf DEF Restored
<1>3. Handle(db, ProbeTool).db = db
  BY <1>0, <1>1, HandlerWorks DEF Works
<1>4. CASE Probe
  <2> PICK call : call = GatewayCall(ProbeTool)
    OBVIOUS
  <2>1. Becomes(call) /\ probed' = (IF call.reply.ok THEN call.reply.response ELSE None)
        /\ pc' = "attempt" /\ pc = "probe"
    BY <1>4 DEF Probe
  <2>2. /\ Undisturbed(trace)
        /\ \/ calls >= budget /\ calls' = calls /\ db' = db /\ ~call.reply.ok
           \/ /\ db'.stock[sku] = db.stock[sku]
              /\ call.reply.ok /\ call.reply.response = db.stock[sku]
    BY <1>0, <1>1, <1>3, <2>1, CalmCall
  <2>3. Restored(db, others) = 0
    BY <2>1, <2>2 DEF Once
  <2>4. Restored(db', others) = 0 /\ db.stock[sku] = 9 + others
    BY <1>0, <1>2, <2>2, <2>3 DEF Restored
  <2>5. (probed' = None /\ calls' >= budget) \/ (probed' \in Nat /\ probed' <= 9 + others)
    BY <1>0, <1>2, <2>1, <2>2, <2>4
  <2>. QED
    BY <1>2, <2>1, <2>4, <2>5
<1>5. CASE Reprobe
  <2> PICK call : call = GatewayCall(ProbeTool)
    OBVIOUS
  <2>1. Becomes(call) /\ pc = "reprobe" /\ step = 3 /\ probed # None
    BY <1>0, <1>5 DEF Reprobe, AgentTyped
  <2>2. /\ Undisturbed(trace)
        /\ \/ calls >= budget /\ calls' = calls /\ db' = db /\ ~call.reply.ok
           \/ /\ db'.stock[sku] = db.stock[sku]
              /\ call.reply.ok /\ call.reply.response = db.stock[sku]
    BY <1>0, <1>1, <1>3, <2>1, CalmCall
  <2>3. Restored(db, others) <= 1 /\ probed \in Nat /\ probed <= 9 + others
    BY <1>2, <2>1, <2>2 DEF Once
  <2>4. Restored(db', others) = Restored(db, others)
    BY <2>2 DEF Restored
  <2>5. CASE call.reply.ok /\ Increased(probed, call.reply.response) /\ StepEnds(TRUE)
    <3>1. \/ pc' = "done" /\ step = 4
          \/ step' = step + 1 /\ pc' = IF profile.reconciles /\ step' = 3 THEN "probe" ELSE "attempt"
      BY <1>0, <2>5, EndOfStep
    <3>2. step' = 4 /\ pc' # "probe"
      BY <2>1, <3>1
    <3>. QED
      BY <2>3, <2>4, <3>2
  <2>6. CASE /\ ~(call.reply.ok /\ Increased(probed, call.reply.response))
             /\ pc' = "attempt" /\ UNCHANGED <<step, attempt, probed, failed>>
    <3>1. calls' >= budget \/ Restored(db, others) = 0
      <4>1. CASE call.reply.ok /\ call.reply.response = db.stock[sku]
        <5>1. /\ Quantity(probed) = probed /\ Quantity(db.stock[sku]) = db.stock[sku]
              /\ probed \in Nat /\ db.stock[sku] \in Nat /\ None \notin Nat
          BY <1>2, <2>3, QuantityType, ReplacementsAssumption
        <5>2. ~Increased(probed, db.stock[sku])
          BY <2>6, <4>1
        <5>3. db.stock[sku] <= probed
          BY <5>1, <5>2 DEF Increased
        <5>. QED
          BY <1>0, <1>2, <2>3, <5>1, <5>3 DEF Restored, Effects
      <4>. QED
        BY <2>2, <4>1
    <3>2. calls' \in Nat
      BY <1>0, <1>1, <1>5, AttemptKeepsTypes, ProfileType DEF Typed, RunTyped
    <3>. QED
      BY <1>0, <1>2, <2>3, <2>4, <2>6, <3>1, <3>2
  <2>. QED
    BY <1>5, <2>5, <2>6 DEF Reprobe
<1>6. CASE Attempt
  <2> PICK call : call = GatewayCall(Script[step])
    OBVIOUS
  <2>1. Becomes(call) /\ pc = "attempt"
    BY <1>6 DEF Attempt
  <2>2. /\ Undisturbed(trace)
        /\ \/ calls >= budget /\ calls' = calls /\ db' = db /\ ~call.reply.ok
           \/ /\ calls < budget
              /\ db'.stock[sku] \in {db.stock[sku], Handle(db, Script[step]).db.stock[sku]}
    BY <1>0, <1>1, <2>1, CalmCall
  <2>3. Restored(db, others) <= 1
    BY <2>2 DEF Once
  <2>4. CASE step # 3
    <3>1. db'.stock[sku] = db.stock[sku]
      <4>1. Works(db, Script[step], Handle(db, Script[step])) /\ Script[step] # "restore_inventory"
        <5>1. step = 1 \/ step = 2 \/ step = 4
          BY <1>1, <2>4
        <5>. QED
          BY <1>0, <1>1, <5>1, HandlerWorks, ScriptFacts
      <4>. QED
        BY <2>2, <4>1 DEF Works, Effect
    <3>2. Restored(db', others) = Restored(db, others)
      BY <3>1 DEF Restored
    <3>3. CASE StepEnds(TRUE) \/ StepEnds(FALSE)
      <4>1. \/ pc' = "done"
            \/ /\ step \in 1..3 /\ step' = step + 1
               /\ pc' = IF step' = 3 THEN "probe" ELSE "attempt"
        BY <1>0, <3>3, EndOfStep
      <4>2. pc' = "probe" => step = 2
        BY <1>1, <4>1
      <4>3. step = 2 => Restored(db, others) = 0
        BY <1>2 DEF Effects
      <4>. QED
        BY <2>3, <3>2, <4>1, <4>2, <4>3
    <3>4. CASE pc' \in {"attempt", "reprobe"} /\ step' = step
      BY <2>3, <2>4, <3>2, <3>4
    <3>. QED
      BY <1>6, <3>3, <3>4 DEF Attempt
  <2>5. CASE step = 3
    <3>1. /\ (probed = None /\ calls >= budget) \/ (probed \in Nat /\ probed <= 9 + others)
          /\ calls < budget => Restored(db, others) = 0
      BY <1>2, <2>1, <2>2, <2>5 DEF Once
    <3>2. Script[step] = "restore_inventory" /\ Reconciles(step)
      BY <2>5, ScriptFacts DEF Reconciles
    <3>3. Handle(db, Script[step]).db.stock[sku] = db.stock[sku] + 1
      BY <1>0, <1>1, <3>2, HandlerWorks DEF Works
    <3>4. Restored(db', others) <= 1
      <4>1. CASE db' = db
        BY <2>3, <4>1
      <4>2. CASE /\ calls < budget
                 /\ db'.stock[sku] \in {db.stock[sku], db.stock[sku] + 1}
        BY <1>0, <1>2, <3>1, <4>2 DEF Restored
      <4>. QED
        BY <2>2, <3>3, <4>1, <4>2
    <3>5. CASE StepEnds(TRUE) \/ StepEnds(FALSE)
      <4>1. \/ pc' = "done"
            \/ step' = step + 1 /\ pc' = IF profile.reconciles /\ step' = 3 THEN "probe" ELSE "attempt"
        <5>1. ASSUME NEW succeeded \in BOOLEAN, StepEnds(succeeded)
              PROVE  \/ pc' = "done"
                     \/ step' = step + 1 /\ pc' = IF profile.reconciles /\ step' = 3 THEN "probe" ELSE "attempt"
          BY <1>0, <5>1, EndOfStep
        <5>. QED
          BY <3>5, <5>1
      <4>2. pc' = "done" \/ (step' = 4 /\ pc' = "attempt")
        BY <2>5, <4>1
      <4>. QED
        BY <3>4, <4>2
    <3>6. CASE /\ pc' = IF Reconciles(step) /\ probed # None THEN "reprobe" ELSE "attempt"
               /\ UNCHANGED <<step, probed, failed>>
      <4>1. CASE probed = None
        <5>1. calls >= budget /\ calls' = calls
          <6>1. None \notin Nat
            BY ReplacementsAssumption
          <6>. QED
            BY <1>0, <2>2, <3>1, <4>1, <6>1
        <5>. QED
          BY <1>0, <3>4, <3>6, <4>1, <5>1
      <4>2. CASE probed # None
        BY <1>2, <3>1, <3>2, <3>4, <3>6, <4>2
      <4>. QED
        BY <4>1, <4>2
    <3>. QED
      BY <1>6, <3>5, <3>6 DEF Attempt
  <2>. QED
    BY <2>4, <2>5
<1>. QED
  BY <1>4, <1>5, <1>6 DEF AgentStep

LEMMA NextOnce ==
  ASSUME Typed, Effects, Once, [Next]_vars
  PROVE  Once'
<1>0. RunTyped /\ AgentTyped
  BY DEF Typed
<1>1. CASE AgentStep
  BY <1>1, AgentKeepsOnce
<1>2. CASE BaselineEnds
  <2>1. db' = InitialState /\ others' = 0 /\ step' = 1 /\ pc' = "attempt"
    BY <1>2, FirstMoves DEF BaselineEnds, Becomes, FreshWorld
  <2>2. Restored(db', others') = 0
    BY <2>1, FreshSandbox
  <2>. QED
    BY <2>1, <2>2 DEF Once
<1>3. CASE OtherWriter
  <2>1. /\ UNCHANGED <<profile, budget, pc, step, probed, calls, trace>>
        /\ db'.stock[sku] = db.stock[sku] + 1 /\ others' = others + 1
    BY <1>3, OtherIsRestore DEF OtherWriter, agent, experiment
  <2>2. db.stock[sku] \in Nat /\ InitialState.stock[sku] = 9 /\ others \in Nat
    BY <1>0, StockOf DEF RunTyped
  <2>3. Restored(db', others') = Restored(db, others)
    BY <2>1, <2>2 DEF Restored
  <2>4. \A n \in Nat : n <= 9 + others => n <= 9 + others'
    BY <2>1, <2>2
  <2>. QED
    BY <2>1, <2>2, <2>3, <2>4 DEF Once, Undisturbed, Fired
<1>4. CASE (\E r \in FaultRules : Declare(r)) \/ FaultedEnds \/ UNCHANGED vars
  <2>1. /\ UNCHANGED <<profile, budget, step, probed, calls, trace, db, others>>
        /\ pc' \in {pc, "reported"}
    BY <1>4 DEF Declare, FaultedEnds, vars, world, agent, experiment
  <2>. QED
    BY <2>1 DEF Once, Undisturbed, Fired
<1>5. CASE RunStarts
  <2>1. /\ UNCHANGED <<profile, budget, step, probed, calls, trace, db, others>>
        /\ pc' = "attempt" /\ step = 1
    BY <1>0, <1>5, FirstMoves DEF RunStarts, world, experiment, AgentTyped
  <2>. QED
    BY <2>1 DEF Once, Undisturbed, Fired
<1>. QED
  BY <1>1, <1>2, <1>3, <1>4, <1>5 DEF Next, Proceed

\* An agent that reconciles restores the stock at most once itself, whatever its attempts
\* and whatever others restore between its probes, while no probe was interfered with and
\* nothing was delivered twice.
THEOREM RestoredOnce == Spec => []ReconciledStockIsRestoredOnce
<1>1. Init => Once
  <2> SUFFICES ASSUME Init PROVE Once
    OBVIOUS
  <2>1. Restored(db, others) = 0
    BY FreshSandbox DEF Init, FreshWorld
  <2>. QED
    BY <2>1 DEF Init, Once
<1>2. Once => ReconciledStockIsRestoredOnce
  BY DEF Once, Undisturbed, ReconciledStockIsRestoredOnce
<1>3. Typed /\ Effects /\ Once /\ [Next]_vars => Once'
  BY NextOnce
<1>. QED
  BY <1>1, <1>2, <1>3, EffectsHold, PTL DEF Spec

-----------------------------------------------------------------------------
\* Silent failures.

\* The premise of the theorem below.  It is a property of the profiles that use keys.
KeyedProfilesAreHonest == \A p \in Profiles : p.keys => p.honest

\* No refund is asked for before the step of the cancellation is over, and if that step has
\* not failed then a successful cancellation is recorded that every refund follows.
RefundsFollow ==
  /\ \A j \in DOMAIN trace : trace[j].tool = "refund_payment" => step >= 2
  /\ Over(1) /\ 1 \notin failed =>
       \E i \in SucceededCalls(trace, "cancel_order") :
         \A j \in DOMAIN trace : trace[j].tool = "refund_payment" => i <= trace[j].completedBefore

LEMMA CallInTrace ==
  ASSUME RunTyped, NEW tool \in Tools, NEW call, call = GatewayCall(tool), Becomes(call)
  PROVE  \/ trace' = trace /\ ~call.reply.ok
         \/ \E entry \in Records :
              /\ trace' = Append(trace, entry) /\ entry.tool = tool
              /\ entry.completedBefore = Len(trace)
              /\ call.reply.ok => entry.executed /\ entry.underlying # "error"
<1>1. trace' = call.trace
  BY DEF Becomes
<1>2. CASE IsRefused(call)
  BY <1>1, <1>2 DEF IsRefused
<1>3. ASSUME NEW entry \in Records, IsMade(call, tool, entry)
      PROVE  /\ trace' = Append(trace, entry) /\ entry.tool = tool
             /\ entry.completedBefore = Len(trace)
             /\ call.reply.ok => entry.executed /\ entry.underlying # "error"
  BY <1>1, <1>3 DEF IsMade
<1>. QED
  BY <1>2, <1>3, Calling

\* What an entry more does to the invariant: nothing, for a refund that comes after the step
\* of the cancellation and for any other call.
LEMMA RefundsKept ==
  ASSUME RunTyped, AgentTyped, RefundsFollow, step' \in Nat, step' >= step,
         NEW entry \in Records, trace' = Append(trace, entry),
         entry.completedBefore = Len(trace),
         entry.tool = "refund_payment" => step >= 2,
         Over(1)' /\ 1 \notin failed' => Over(1) /\ 1 \notin failed
  PROVE  RefundsFollow'
<1> PICK last : last = Len(trace) + 1
  OBVIOUS
<1>1. /\ DOMAIN trace = 1..Len(trace) /\ DOMAIN trace' = 1..last
      /\ Len(trace) \in Nat /\ trace'[last] = entry
      /\ \A i \in DOMAIN trace : i \in DOMAIN trace' /\ trace'[i] = trace[i] /\ i \in Nat /\ i <= Len(trace)
      /\ \A i \in DOMAIN trace' : i \in DOMAIN trace \/ i = last
  BY DEF RunTyped
<1>2. step \in 1..4
  BY DEF AgentTyped
<1>3. ASSUME NEW j \in DOMAIN trace', trace'[j].tool = "refund_payment" PROVE step' >= 2
  <2>1. step >= 2
    BY <1>1, <1>3 DEF RefundsFollow
  <2>. QED
    BY <1>2, <2>1
<1>4. ASSUME Over(1)', 1 \notin failed'
      PROVE  \E i \in SucceededCalls(trace', "cancel_order") :
               \A j \in DOMAIN trace' : trace'[j].tool = "refund_payment" => i <= trace'[j].completedBefore
  <2>1. PICK i \in SucceededCalls(trace, "cancel_order") :
               \A j \in DOMAIN trace : trace[j].tool = "refund_payment" => i <= trace[j].completedBefore
    BY <1>4 DEF RefundsFollow
  <2>2. i \in DOMAIN trace /\ i \in SucceededCalls(trace', "cancel_order")
    BY <1>1, <2>1 DEF SucceededCalls
  <2>3. ASSUME NEW j \in DOMAIN trace', trace'[j].tool = "refund_payment"
        PROVE  i <= trace'[j].completedBefore
    <3>1. CASE j \in DOMAIN trace
      BY <1>1, <2>1, <2>3, <3>1
    <3>2. CASE j = last
      BY <1>1, <2>2, <3>2
    <3>. QED
      BY <1>1, <3>1, <3>2
  <2>. QED
    BY <2>2, <2>3
<1>. QED
  BY <1>3, <1>4 DEF RefundsFollow

\* The step of the cancellation ends with a success.
LEMMA CancellationRecorded ==
  ASSUME RunTyped, AgentTyped, RefundsFollow, step = 1, step' \in Nat,
         NEW entry \in Records, trace' = Append(trace, entry),
         entry.tool = "cancel_order", entry.executed, entry.underlying # "error"
  PROVE  RefundsFollow'
<1> PICK last : last = Len(trace) + 1
  OBVIOUS
<1>1. /\ DOMAIN trace' = 1..last /\ last \in DOMAIN trace' /\ trace'[last] = entry
      /\ \A i \in DOMAIN trace' : i = last \/ (i \in DOMAIN trace /\ trace'[i] = trace[i])
  BY DEF RunTyped
<1>2. \A j \in DOMAIN trace' : trace'[j].tool # "refund_payment"
  BY <1>1 DEF RefundsFollow
<1>3. last \in SucceededCalls(trace', "cancel_order")
  BY <1>1 DEF SucceededCalls
<1>. QED
  BY <1>2, <1>3 DEF RefundsFollow

LEMMA AgentKeepsRefunds ==
  ASSUME Typed, Effects, RefundsFollow, AgentStep
  PROVE  RefundsFollow'
<1>0. /\ RunTyped /\ AgentTyped /\ pc \in Running /\ pc \notin Ended
      /\ step \in 1..4 /\ Script[step] \in Tools /\ ProbeTool \in Tools
  BY ScriptFacts DEF AgentStep, Typed, AgentTyped, Probe, Reprobe, Attempt, Running, Ended
<1>1. ASSUME NEW succeeded \in BOOLEAN, StepEnds(succeeded)
      PROVE  /\ step' \in Nat /\ step' >= step
             /\ Over(1)' /\ 1 \notin failed' => (Over(1) /\ 1 \notin failed) \/ (step = 1 /\ succeeded)
  <2>1. /\ failed' = IF succeeded THEN failed ELSE failed \cup {step}
        /\ step' = step \/ step' = step + 1
    BY <1>0, <1>1, EndOfStep
  <2>. QED
    BY <1>0, <2>1 DEF Over
<1>2. ASSUME step' = step, pc' \in Running, failed' = failed
      PROVE  /\ step' \in Nat /\ step' >= step
             /\ Over(1)' /\ 1 \notin failed' => Over(1) /\ 1 \notin failed
  BY <1>0, <1>2 DEF Over, Running, Ended
<1>3. CASE Probe \/ Reprobe
  <2> PICK call : call = GatewayCall(ProbeTool)
    OBVIOUS
  <2>1. Becomes(call) /\ step = 3
    BY <1>0, <1>3 DEF Probe, Reprobe, AgentTyped
  <2>2. \/ StepEnds(TRUE)
        \/ step' = step /\ pc' \in Running /\ failed' = failed
    BY <1>3 DEF Probe, Reprobe, Running
  <2>3. /\ step' \in Nat /\ step' >= step
        /\ Over(1)' /\ 1 \notin failed' => Over(1) /\ 1 \notin failed
    <3>1. CASE StepEnds(TRUE)
      <4>1. failed' = failed /\ step' \in {step, step + 1}
        BY <1>0, <3>1, EndOfStep
      <4>. QED
        BY <1>0, <2>1, <4>1 DEF Over
    <3>2. CASE step' = step /\ pc' \in Running /\ failed' = failed
      BY <1>2, <3>2
    <3>. QED
      BY <2>2, <3>1, <3>2
  <2>4. CASE trace' = trace
    BY <1>0, <2>3, <2>4 DEF RefundsFollow
  <2>5. ASSUME NEW entry \in Records, trace' = Append(trace, entry), entry.tool = ProbeTool,
               entry.completedBefore = Len(trace)
        PROVE  RefundsFollow'
    BY <1>0, <2>3, <2>5, RefundsKept DEF ProbeTool
  <2>. QED
    BY <1>0, <2>1, <2>4, <2>5, CallInTrace
<1>4. CASE Attempt
  <2> PICK call : call = GatewayCall(Script[step])
    OBVIOUS
  <2>1. Becomes(call)
    BY <1>4 DEF Attempt
  <2>2. Script[step] = "refund_payment" => step = 2
    <3>1. step = 1 \/ step = 2 \/ step = 3 \/ step = 4
      BY <1>0
    <3>. QED
      BY <3>1, ScriptFacts
  <2>3. CASE step = 1 /\ call.reply.ok /\ StepEnds(TRUE)
    <3>1. step' \in Nat
      BY <1>1, <2>3
    <3>2. Script[step] = "cancel_order"
      BY <2>3, ScriptFacts
    <3>3. ASSUME NEW entry \in Records, trace' = Append(trace, entry), entry.tool = Script[step],
                 call.reply.ok => entry.executed /\ entry.underlying # "error"
          PROVE  RefundsFollow'
      BY <1>0, <2>3, <3>1, <3>2, <3>3, CancellationRecorded
    <3>. QED
      BY <1>0, <2>1, <2>3, <3>3, CallInTrace
  <2>4. CASE ~(step = 1 /\ call.reply.ok /\ StepEnds(TRUE))
    <3>1. \/ StepEnds(TRUE) /\ call.reply.ok
          \/ StepEnds(FALSE)
          \/ step' = step /\ pc' \in Running /\ failed' = failed
      BY <1>4 DEF Attempt, Accepts, Running
    <3>2. /\ step' \in Nat /\ step' >= step
          /\ Over(1)' /\ 1 \notin failed' => Over(1) /\ 1 \notin failed
      <4>1. CASE StepEnds(TRUE) /\ call.reply.ok
        BY <1>1, <2>4, <4>1
      <4>2. CASE StepEnds(FALSE)
        BY <1>1, <4>2
      <4>3. CASE step' = step /\ pc' \in Running /\ failed' = failed
        BY <1>2, <4>3
      <4>. QED
        BY <3>1, <4>1, <4>2, <4>3
    <3>3. CASE trace' = trace
      BY <1>0, <3>2, <3>3 DEF RefundsFollow
    <3>4. ASSUME NEW entry \in Records, trace' = Append(trace, entry), entry.tool = Script[step],
                 entry.completedBefore = Len(trace)
          PROVE  RefundsFollow'
      BY <1>0, <2>2, <3>2, <3>4, RefundsKept
    <3>. QED
      BY <1>0, <2>1, <3>3, <3>4, CallInTrace
  <2>. QED
    BY <2>3, <2>4
<1>. QED
  BY <1>3, <1>4 DEF AgentStep

LEMMA NextRefunds ==
  ASSUME Typed, Effects, RefundsFollow, [Next]_vars
  PROVE  RefundsFollow'
<1>1. CASE AgentStep
  BY <1>1, AgentKeepsRefunds
<1>2. CASE BaselineEnds
  <2>1. DOMAIN trace' = {} /\ step' = 1
    BY <1>2 DEF BaselineEnds, Becomes, FreshWorld
  <2>2. ~Over(1)'
    BY <1>2, <2>1, FirstMoves DEF BaselineEnds, Over, Ended
  <2>. QED
    BY <2>1, <2>2 DEF RefundsFollow
<1>3. CASE ~AgentStep /\ ~BaselineEnds
  <2>1. /\ UNCHANGED <<trace, step, failed>>
        /\ pc \in Ended <=> pc' \in Ended
    <3>1. CASE \E r \in FaultRules : Declare(r)
      BY <3>1 DEF Declare, world, agent
    <3>2. CASE RunStarts
      BY <3>2, FirstMoves DEF RunStarts, world, Ended
    <3>3. CASE FaultedEnds
      BY <3>3 DEF FaultedEnds, world, Ended
    <3>4. CASE OtherWriter \/ UNCHANGED vars
      BY <3>4 DEF OtherWriter, vars, world, agent
    <3>. QED
      BY <1>3, <3>1, <3>2, <3>3, <3>4 DEF Next, Proceed
  <2>2. Over(1)' <=> Over(1)
    BY <2>1 DEF Over
  <2>. QED
    BY <2>1, <2>2 DEF RefundsFollow
<1>. QED
  BY <1>1, <1>2, <1>3

\* What an honest agent with keys leaves when it claims success.
LEMMA ClaimsOfKeyedAgents ==
  ASSUME Typed, Effects, RefundsFollow, profile.keys, profile.honest, pc = "done", ClaimsSuccess
  PROVE  Broken(db, trace) \subseteq {"inventory_restored"}
<1>1. /\ failed = {} /\ World(db) /\ step = 4
      /\ Ledger(db.refunds, RefundAsked, refundKey)
      /\ Ledger(db.notifications, ConfirmationAsked, confirmKey)
  BY DEF ClaimsSuccess, Typed, RunTyped, Effects, Ended, World
<1>2. \A i \in 1..4 : Over(i) /\ Has(i)
  BY <1>1 DEF Effects, Over, Ended
<1>3. \E n : RefundsMade(db) = {n}
  <2>1. RefundsMade(db) = DOMAIN db.refunds.entries /\ RefundsMade(db) # {}
    BY <1>1, <1>2, MadeIsListed DEF Has, Refunded
  <2>. QED
    BY <1>1, <2>1 DEF Ledger
<1>4. \E n : ConfirmationsMade(db) = {n}
  <2>1. ConfirmationsMade(db) = DOMAIN db.notifications.entries /\ ConfirmationsMade(db) # {}
    BY <1>1, <1>2, MadeIsListed DEF Has, Confirmed
  <2>. QED
    BY <1>1, <2>1 DEF Ledger
<1>5. Cardinality(RefundsMade(db)) = 1 /\ Cardinality(ConfirmationsMade(db)) = 1
  BY <1>3, <1>4, FS_Singleton
<1>6. \A i \in RefundsMade(db) : db.refunds.entries[i].request.amount = full
  BY <1>1, MadeIsListed DEF Ledger, RefundAsked
<1>7. RefundAfterCancellation(trace)
  BY <1>1, <1>2 DEF RefundsFollow, RefundAfterCancellation, HappenedBefore, SucceededCalls
<1>8. Holds("order_cancelled", db, trace)
  BY <1>2 DEF Holds, Has, Cancelled
<1>9. Holds("exactly_one_refund", db, trace) /\ Holds("refund_amount_correct", db, trace)
  BY <1>5, <1>6 DEF Holds
<1>10. Holds("single_confirmation", db, trace)
  BY <1>5 DEF Holds
<1>11. Holds("refund_after_cancellation", db, trace)
  BY <1>7 DEF Holds
<1>. QED
  BY <1>8, <1>9, <1>10, <1>11 DEF Broken, Invariants

\* If those who use keys are honest, then with keys the only thing an agent can be wrong about
\* without knowing it is the stock, for every set of rules, budget and other writer.
THEOREM SilenceIsAboutStock ==
  KeyedProfilesAreHonest /\ Spec => []KeyedSilentFailuresAreInventory
<1>. DEFINE Honest == profile.keys => profile.honest
<1>1. KeyedProfilesAreHonest /\ Init =>
        RefundsFollow /\ Honest /\ KeyedSilentFailuresAreInventory
  <2> SUFFICES ASSUME KeyedProfilesAreHonest, Init
               PROVE  RefundsFollow /\ Honest /\ KeyedSilentFailuresAreInventory
    OBVIOUS
  <2>1. DOMAIN trace = {} /\ ~Over(1)
    BY DEF Init, FreshWorld, Over, Ended
  <2>2. Honest /\ KeyedSilentFailuresAreInventory
    BY DEF KeyedProfilesAreHonest, Init, KeyedSilentFailuresAreInventory
  <2>. QED
    BY <2>1, <2>2 DEF RefundsFollow
<1>2. ASSUME Typed, Effects, RefundsFollow, Honest, KeyedSilentFailuresAreInventory, [Next]_vars
      PROVE  Honest' /\ KeyedSilentFailuresAreInventory'
  <2>1. profile' = profile
    BY <1>2 DEF Next, Proceed, Declare, RunStarts, AgentStep, BaselineEnds, FaultedEnds,
                OtherWriter, vars, experiment
  <2>2. ASSUME NEW m \in Modes, reports'[m] # None, profile.keys,
               Classification(reports'[m]) = "silent_failure"
        PROVE  reports'[m].broken = {"inventory_restored"}
    <3>1. reports'[m] = reports[m] \/ (reports'[m] = Report /\ pc = "done")
      <4>1. CASE BaselineEnds \/ FaultedEnds
        BY <1>2, <4>1 DEF BaselineEnds, FaultedEnds, Typed, AgentTyped
      <4>2. CASE ~(BaselineEnds \/ FaultedEnds)
        BY <1>2, <4>2 DEF Next, Proceed, Declare, RunStarts, AgentStep, OtherWriter, vars
      <4>. QED
        BY <4>1, <4>2
    <3>2. CASE reports'[m] = reports[m]
      BY <1>2, <2>2, <3>2 DEF KeyedSilentFailuresAreInventory
    <3>3. CASE reports'[m] = Report /\ pc = "done"
      <4>1. Report.broken = Broken(db, trace) /\ Report.claims = ClaimsSuccess
        BY DEF Report
      <4>2. Report.broken # {} /\ Report.claims
        BY <2>2, <3>3 DEF Classification, Classify, OutcomeOf
      <4>3. Broken(db, trace) \subseteq {"inventory_restored"}
        BY <1>2, <2>2, <3>3, <4>1, <4>2, ClaimsOfKeyedAgents
      <4>. QED
        BY <3>3, <4>1, <4>2, <4>3
    <3>. QED
      BY <3>1, <3>2, <3>3
  <2>3. KeyedSilentFailuresAreInventory'
    BY <2>1, <2>2 DEF KeyedSilentFailuresAreInventory, Classification, OutcomeOf
  <2>4. Honest'
    BY <1>2, <2>1
  <2>. QED
    BY <2>3, <2>4
<1>3. Typed /\ Effects /\ RefundsFollow /\ Honest /\ KeyedSilentFailuresAreInventory /\ [Next]_vars
      => (RefundsFollow /\ Honest /\ KeyedSilentFailuresAreInventory)'
  BY <1>2, NextRefunds
<1>. HIDE DEF Honest
<1>. QED
  BY <1>1, <1>3, EffectsHold, PTL DEF Spec

-----------------------------------------------------------------------------
\* Baselines.

IsSingle(S) == \E n : S = {n}

\* What the handler of one tool does, another leaves alone; the first refund and the first
\* confirmation are the only one of their ledger.
LEMMA HandlerLeaves ==
  ASSUME NEW d, World(d), profile.keys \in BOOLEAN, NEW tool \in Tools
  PROVE  /\ tool # "refund_payment" => Handle(d, tool).db.refunds = d.refunds
         /\ tool # "send_confirmation" => Handle(d, tool).db.notifications = d.notifications
         /\ tool = "refund_payment" /\ DOMAIN d.refunds.entries = {} =>
              IsSingle(DOMAIN Handle(d, tool).db.refunds.entries)
         /\ tool = "send_confirmation" /\ DOMAIN d.notifications.entries = {} =>
              IsSingle(DOMAIN Handle(d, tool).db.notifications.entries)
<1>0. /\ DOMAIN d = {"orders", "payments", "stock", "refunds", "notifications"}
      /\ Ledger(d.refunds, RefundAsked, refundKey)
      /\ Ledger(d.notifications, ConfirmationAsked, confirmKey)
  BY DEF World
<1>1. tool \in {"cancel_order", "refund_payment", "restore_inventory", "send_confirmation",
               "get_inventory"}
  <2>1. DOMAIN Script = 1..4
    BY DEF Script
  <2>. QED
    BY <2>1 DEF Tools, Script, ProbeTool
<1>2. CASE tool = "cancel_order"
  <2>1. Handle(d, tool).db = [d EXCEPT !.orders[order] = "cancelled"]
    BY <1>2, ScriptArguments DEF Handle, CancelOrder, Answer
  <2>. QED
    BY <1>0, <1>2, <2>1
<1>3. CASE tool = "restore_inventory"
  <2>1. Handle(d, tool).db = [d EXCEPT !.stock[sku] = @ + 1]
    BY <1>3, ScriptArguments DEF Handle, RestoreInventory, Answer
  <2>. QED
    BY <1>0, <1>3, <2>1
<1>4. CASE tool = "get_inventory"
  <2>1. Handle(d, tool).db = d
    BY <1>4 DEF Handle, GetInventory, Answer
  <2>. QED
    BY <1>4, <2>1
<1>5. CASE tool = "refund_payment"
  <2>. DEFINE k == Key(refundKey)
              l == d.refunds
              made == Create(l, RefundAsked, k)
              result == RefundPayment(d, RefundAsked, k)
  <2>1. Handle(d, tool) = result
    BY <1>5 DEF Handle, RefundAsked
  <2>2. /\ RefundAsked.amount = full /\ RefundAsked.payment = payment
        /\ full \in Amounts \ OversizedAmounts /\ payment \in Payments /\ refundKey \in Keys
    BY ScriptArguments, AmountsAssumption DEF RefundAsked
  <2>3. NormalKey(k) = k /\ k # Blank
    BY <2>2, Keyed
  <2>. HIDE DEF k
  <2>4. \/ result.db = d
        \/ /\ k \notin DOMAIN l.index
           /\ result.db = [d EXCEPT !.refunds = made, !.payments[payment] = "refunded"]
    BY <2>2, <2>3 DEF RefundPayment, NewRefund, Answer
  <2>5. result.db.notifications = d.notifications
    BY <1>0, <2>4
  <2>6. ASSUME DOMAIN l.entries = {} PROVE IsSingle(DOMAIN result.db.refunds.entries)
    <3>1. k \notin DOMAIN l.index
      BY <1>0, <2>2, <2>6, ReplayWorks DEF k
    <3>2. result.db.refunds = made
      <4>1. result.db = [d EXCEPT !.refunds = made, !.payments[payment] = "refunded"]
        BY <2>2, <2>3, <3>1 DEF RefundPayment, NewRefund, Answer
      <4>. HIDE DEF made
      <4>. QED
        BY <1>0, <4>1
    <3>3. DOMAIN made.entries = {l.next}
      BY <2>6 DEF Create, Put
    <3>. QED
      BY <3>2, <3>3 DEF IsSingle
  <2>. HIDE DEF result
  <2>. QED
    BY <1>5, <2>1, <2>5, <2>6
<1>6. CASE tool = "send_confirmation"
  <2>. DEFINE k == Key(confirmKey)
              l == d.notifications
              made == Create(l, ConfirmationAsked, k)
              result == SendConfirmation(d, order, message, k)
  <2>1. Handle(d, tool) = result
    BY <1>6 DEF Handle
  <2>2. order \in Orders /\ Strip[message] # Blank /\ confirmKey \in Keys
    BY ScriptArguments
  <2>3. NormalKey(k) = k /\ k # Blank
    BY <2>2, Keyed
  <2>. HIDE DEF k
  <2>4. result.db = IF k \in DOMAIN l.index THEN d ELSE [d EXCEPT !.notifications = made]
    BY <2>2, <2>3 DEF SendConfirmation, ConfirmationAsked, Answer
  <2>5. result.db.refunds = d.refunds
    BY <1>0, <2>4
  <2>6. ASSUME DOMAIN l.entries = {} PROVE IsSingle(DOMAIN result.db.notifications.entries)
    <3>1. k \notin DOMAIN l.index
      BY <1>0, <2>2, <2>6, ReplayWorks DEF k
    <3>. HIDE DEF result
    <3>2. result.db.notifications = made
      <4>. HIDE DEF made
      <4>. QED
        BY <1>0, <2>4, <3>1
    <3>3. DOMAIN made.entries = {l.next}
      BY <2>6 DEF Create, Put
    <3>. QED
      BY <3>2, <3>3 DEF IsSingle
  <2>. HIDE DEF result
  <2>. QED
    BY <1>6, <2>1, <2>5, <2>6
<1>. QED
  BY <1>1, <1>2, <1>3, <1>4, <1>5, <1>6

\* In the baseline no rule matches, so that a call within the budget is answered as it is.
LEMMA BaselineCall ==
  ASSUME RunTyped, mode = "baseline", calls < budget, NEW tool \in Tools,
         NEW call, call = GatewayCall(tool), Becomes(call)
  PROVE  /\ call.reply.ok /\ call.reply.response = Handle(db, tool).answer
         /\ call.reply.response \notin Replacements
         /\ db' = Handle(db, tool).db /\ calls' = calls + 1
<1>1. RuleFor(tool, counts[tool] + 1) = NoRule
  BY DEF RuleFor, Matches
<1>2. ~IsRefused(call)
  BY ProfileType DEF IsRefused, RunTyped
<1>3. PICK entry \in Records : IsMade(call, tool, entry)
  BY <1>2, Calling
<1>4. entry.rule = NoRule /\ TypeOf(entry.rule) # "duplicate_request"
  BY <1>1, <1>3 DEF IsMade, TypeOf
<1>5. Handle(db, tool).answer \notin Replacements
  BY HandlerWorks, ProfileType DEF RunTyped, Works
<1>. QED
  BY <1>3, <1>4, <1>5 DEF IsMade, Becomes

\* The agent goes through its script without a failure, and the calls that it has left are
\* more than it needs.
Straight ==
  mode = "baseline" /\ budget > Len(Script) =>
    /\ failed = {} /\ attempt = 1 /\ pc # "reprobe"
    /\ pc \notin Ended => calls <= step
    /\ pc \notin Ended /\ (pc = "probe" \/ step < 3) => calls < step
    /\ Restored(db, others) = IF Over(3) THEN 1 ELSE 0
    /\ DOMAIN db.refunds.entries = {} \/ (Over(2) /\ IsSingle(DOMAIN db.refunds.entries))
    /\ \/ DOMAIN db.notifications.entries = {}
       \/ Over(4) /\ IsSingle(DOMAIN db.notifications.entries)

LEMMA AgentKeepsStraight ==
  ASSUME Typed, Straight, AgentStep
  PROVE  Straight'
<1>0. mode' = mode /\ budget' = budget /\ others' = others /\ profile' = profile
  BY DEF AgentStep, experiment
<1> SUFFICES ASSUME mode = "baseline", budget > Len(Script) PROVE Straight'
  BY <1>0 DEF Straight
<1>1. /\ RunTyped /\ AgentTyped /\ World(db) /\ profile.keys \in BOOLEAN /\ budget \in Nat
      /\ calls \in Nat /\ others \in Nat /\ step \in 1..4 /\ pc \in Running /\ pc \notin Ended
      /\ budget > 4 /\ Script[step] \in Tools /\ ProbeTool \in Tools
  <2>1. /\ RunTyped /\ AgentTyped /\ World(db) /\ profile.keys \in BOOLEAN /\ budget \in Nat
        /\ calls \in Nat /\ others \in Nat /\ step \in 1..4
    BY ProfileType DEF Typed, RunTyped, AgentTyped
  <2>2. pc \in Running /\ pc \notin Ended
    BY DEF AgentStep, Probe, Reprobe, Attempt, Running, Ended
  <2>. QED
    BY <2>1, <2>2, ScriptFacts
<1>2. /\ failed = {} /\ attempt = 1 /\ pc # "reprobe" /\ calls <= step
      /\ (pc = "probe" \/ step < 3) => calls < step
  BY <1>1 DEF Straight
<1>3. calls < budget
  BY <1>1, <1>2
<1>4. CASE Probe
  <2> PICK call : call = GatewayCall(ProbeTool)
    OBVIOUS
  <2>1. Becomes(call) /\ pc' = "attempt" /\ pc = "probe" /\ step = 3
        /\ UNCHANGED <<step, attempt, failed>>
    BY <1>1, <1>4 DEF Probe, AgentTyped
  <2>2. db' = Handle(db, ProbeTool).db /\ calls' = calls + 1
    BY <1>1, <1>3, <2>1, BaselineCall
  <2>3. db' = db
    BY <1>1, <2>2, HandlerWorks DEF Works
  <2>4. calls' <= 3 /\ pc' \notin Ended /\ pc' # "probe" /\ pc' # "reprobe"
    BY <1>1, <1>2, <2>1, <2>2 DEF Ended
  <2>5. \A i \in 1..4 : Over(i)' <=> Over(i)
    BY <1>1, <2>1, <2>4 DEF Over
  <2>6. /\ Restored(db, others) = IF Over(3) THEN 1 ELSE 0
        /\ DOMAIN db.refunds.entries = {} \/ (Over(2) /\ IsSingle(DOMAIN db.refunds.entries))
        /\ \/ DOMAIN db.notifications.entries = {}
           \/ Over(4) /\ IsSingle(DOMAIN db.notifications.entries)
    BY DEF Straight
  <2>7. /\ Restored(db', others) = IF Over(3)' THEN 1 ELSE 0
        /\ DOMAIN db'.refunds.entries = {} \/ (Over(2)' /\ IsSingle(DOMAIN db'.refunds.entries))
        /\ \/ DOMAIN db'.notifications.entries = {}
           \/ Over(4)' /\ IsSingle(DOMAIN db'.notifications.entries)
    BY <2>3, <2>5, <2>6
  <2>8. failed' = {} /\ attempt' = 1 /\ step' = 3
    BY <1>2, <2>1
  <2>. QED
    BY <1>0, <2>4, <2>7, <2>8 DEF Straight
<1>5. CASE Attempt
  <2> PICK call : call = GatewayCall(Script[step])
    OBVIOUS
  <2> PICK tool : tool = Script[step]
    OBVIOUS
  <2>1. Becomes(call)
    BY <1>5 DEF Attempt
  <2>2. /\ call.reply.ok /\ call.reply.response \notin Replacements
        /\ db' = Handle(db, tool).db /\ calls' = calls + 1
    BY <1>1, <1>3, <2>1, BaselineCall
  <2>3. StepEnds(TRUE)
    BY <1>5, <2>2 DEF Attempt, Accepts
  <2>4. /\ failed' = {} /\ attempt' = 1
        /\ \/ pc' = "done" /\ step' = step /\ step = 4
           \/ /\ step \in 1..3 /\ step' = step + 1
              /\ pc' = IF profile.reconciles /\ step' = 3 THEN "probe" ELSE "attempt"
    BY <1>1, <1>2, <2>3, EndOfStep
  <2>5. \A i \in 1..4 : Over(i)' <=> Over(i) \/ i = step
    BY <1>1, <2>4 DEF Over, Ended
  <2>6. /\ pc' # "reprobe"
        /\ pc' \notin Ended => calls' <= step'
        /\ pc' \notin Ended /\ (pc' = "probe" \/ step' < 3) => calls' < step'
    BY <1>1, <1>2, <2>2, <2>4 DEF Ended
  <2>7. /\ tool \in Tools
        /\ tool = "refund_payment" <=> step = 2
        /\ tool = "restore_inventory" <=> step = 3
        /\ tool = "send_confirmation" <=> step = 4
    <3>1. step = 1 \/ step = 2 \/ step = 3 \/ step = 4
      BY <1>1
    <3>. QED
      BY <1>1, <3>1, ScriptFacts
  <2>8. Restored(db', others) = IF Over(3)' THEN 1 ELSE 0
    <3>1. db.stock[sku] \in Nat /\ InitialState.stock[sku] = 9
      BY <1>1, StockOf
    <3>2. db'.stock[sku] = IF step = 3 THEN db.stock[sku] + 1 ELSE db.stock[sku]
      <4>1. Works(db, tool, Handle(db, tool))
        BY <1>1, <2>7, HandlerWorks
      <4>. QED
        BY <2>2, <2>7, <4>1 DEF Works, Effect
    <3>3. Restored(db, others) = IF Over(3) THEN 1 ELSE 0
      BY DEF Straight
    <3>4. step = 3 => ~Over(3)
      BY <1>1 DEF Over
    <3>. QED
      BY <1>1, <2>5, <3>1, <3>2, <3>3, <3>4 DEF Restored
  <2>9. /\ tool # "refund_payment" => db'.refunds = db.refunds
        /\ tool # "send_confirmation" => db'.notifications = db.notifications
        /\ tool = "refund_payment" /\ DOMAIN db.refunds.entries = {} =>
             IsSingle(DOMAIN db'.refunds.entries)
        /\ tool = "send_confirmation" /\ DOMAIN db.notifications.entries = {} =>
             IsSingle(DOMAIN db'.notifications.entries)
    <3>1. World(db) /\ profile.keys \in BOOLEAN /\ tool \in Tools
      BY <1>1, <2>7
    <3>. QED
      BY <2>2, <3>1, HandlerLeaves
  <2>10. DOMAIN db'.refunds.entries = {} \/ (Over(2)' /\ IsSingle(DOMAIN db'.refunds.entries))
    <3>1. CASE step = 2
      <4>1. ~Over(2)
        BY <1>1, <3>1 DEF Over
      <4>2. DOMAIN db.refunds.entries = {}
        BY <4>1 DEF Straight
      <4>. QED
        BY <2>5, <2>7, <2>9, <3>1, <4>2
    <3>2. CASE step # 2
      <4>1. db'.refunds = db.refunds
        BY <2>7, <2>9, <3>2
      <4>2. DOMAIN db.refunds.entries = {} \/ (Over(2) /\ IsSingle(DOMAIN db.refunds.entries))
        BY DEF Straight
      <4>. QED
        BY <2>5, <4>1, <4>2
    <3>. QED
      BY <3>1, <3>2
  <2>11. \/ DOMAIN db'.notifications.entries = {}
         \/ Over(4)' /\ IsSingle(DOMAIN db'.notifications.entries)
    <3>1. CASE step = 4
      <4>1. ~Over(4)
        BY <1>1, <3>1 DEF Over
      <4>2. DOMAIN db.notifications.entries = {}
        BY <4>1 DEF Straight
      <4>. QED
        BY <2>5, <2>7, <2>9, <3>1, <4>2
    <3>2. CASE step # 4
      <4>1. db'.notifications = db.notifications
        BY <2>7, <2>9, <3>2
      <4>2. \/ DOMAIN db.notifications.entries = {}
            \/ Over(4) /\ IsSingle(DOMAIN db.notifications.entries)
        BY DEF Straight
      <4>. QED
        BY <2>5, <4>1, <4>2
    <3>. QED
      BY <3>1, <3>2
  <2>. QED
    BY <1>0, <2>4, <2>6, <2>8, <2>10, <2>11 DEF Straight
<1>. QED
  BY <1>2, <1>4, <1>5 DEF AgentStep, Reprobe

LEMMA NextStraight ==
  ASSUME Typed, Straight, [Next]_vars
  PROVE  Straight'
<1>0. RunTyped /\ AgentTyped
  BY DEF Typed
<1>1. CASE AgentStep
  BY <1>1, AgentKeepsStraight
<1>2. CASE BaselineEnds
  BY <1>2 DEF BaselineEnds, Straight
<1>3. CASE OtherWriter
  <2>1. /\ UNCHANGED <<mode, budget, failed, attempt, pc, step, calls>>
        /\ db'.stock[sku] = db.stock[sku] + 1 /\ others' = others + 1
    BY <1>3, OtherIsRestore DEF OtherWriter, agent, experiment
  <2>2. db.stock[sku] \in Nat /\ InitialState.stock[sku] = 9 /\ others \in Nat
        /\ DOMAIN db = {"orders", "payments", "stock", "refunds", "notifications"}
    <3>1. World(db) /\ others \in Nat
      BY <1>0 DEF RunTyped
    <3>. QED
      BY <3>1, StockOf DEF World
  <2>3. Restored(db', others') = Restored(db, others)
    BY <2>1, <2>2 DEF Restored
  <2>4. db'.refunds = db.refunds /\ db'.notifications = db.notifications
    <3>1. db' = [db EXCEPT !.stock[sku] = @ + 1]
      BY <1>3, ScriptArguments DEF OtherWriter, RestoreInventory, Answer
    <3>. QED
      BY <2>2, <3>1
  <2>5. \A i \in 1..4 : Over(i)' <=> Over(i)
    BY <2>1 DEF Over
  <2>. QED
    BY <2>1, <2>3, <2>4, <2>5 DEF Straight
<1>4. CASE (\E r \in FaultRules : Declare(r)) \/ UNCHANGED vars
  <2>1. UNCHANGED <<mode, budget, failed, attempt, pc, step, calls, db, others>>
    BY <1>4 DEF Declare, vars, world, agent, experiment
  <2>2. \A i \in 1..4 : Over(i)' <=> Over(i)
    BY <2>1 DEF Over
  <2>. QED
    BY <2>1, <2>2 DEF Straight
<1>5. CASE RunStarts
  <2>1. UNCHANGED <<mode, budget, failed, attempt, step, calls, db, others>>
        /\ pc' = "attempt" /\ step = 1 /\ calls = 0 /\ pc = "declared"
    BY <1>0, <1>5, FirstMoves DEF RunStarts, world, experiment, AgentTyped, Fresh, FreshWorld
  <2>2. \A i \in 1..4 : Over(i)' <=> Over(i)
    BY <2>1 DEF Over, Ended
  <2>. QED
    BY <2>1, <2>2 DEF Straight
<1>6. CASE FaultedEnds
  BY <1>6 DEF FaultedEnds, Straight
<1>. QED
  BY <1>1, <1>2, <1>3, <1>4, <1>5, <1>6 DEF Next, Proceed

LEMMA StraightIsSound ==
  ASSUME Typed, Effects, RefundsFollow, Straight,
         pc = "done", mode = "baseline", budget > Len(Script), others = 0
  PROVE  Broken(db, trace) = {}
<1>1. failed = {} /\ World(db) /\ step = 4 /\ pc \in Ended
  BY DEF Straight, Typed, RunTyped, Effects, Ended
<1>2. \A i \in 1..4 : Over(i) /\ Has(i)
  BY <1>1 DEF Effects, Over
<1>3. DOMAIN db.refunds.entries # {} /\ DOMAIN db.notifications.entries # {}
  BY <1>2 DEF Has, Refunded, Confirmed
<1>4. IsSingle(RefundsMade(db)) /\ IsSingle(ConfirmationsMade(db))
  <2>1. IsSingle(DOMAIN db.refunds.entries) /\ IsSingle(DOMAIN db.notifications.entries)
    BY <1>3 DEF Straight
  <2>. QED
    BY <1>1, <2>1, MadeIsListed
<1>5. Cardinality(RefundsMade(db)) = 1 /\ Cardinality(ConfirmationsMade(db)) = 1
  BY <1>4, FS_Singleton DEF IsSingle
<1>6. \A i \in RefundsMade(db) : db.refunds.entries[i].request.amount = full
  <2>1. \A i \in DOMAIN db.refunds.entries : db.refunds.entries[i].request = RefundAsked
    BY <1>1 DEF World, Ledger
  <2>. QED
    BY <1>1, <2>1, MadeIsListed DEF RefundAsked
<1>7. RefundAfterCancellation(trace)
  BY <1>1, <1>2 DEF RefundsFollow, RefundAfterCancellation, HappenedBefore, SucceededCalls
<1>8. db.stock[sku] - InitialState.stock[sku] = 1
  <2>1. db.stock[sku] \in Nat /\ InitialState.stock[sku] = 9
    BY <1>1, StockOf
  <2>2. Restored(db, others) = 1
    BY <1>2 DEF Straight
  <2>. QED
    BY <2>1, <2>2 DEF Restored
<1>9. Holds("order_cancelled", db, trace)
  BY <1>2 DEF Holds, Has, Cancelled
<1>10. Holds("exactly_one_refund", db, trace) /\ Holds("refund_amount_correct", db, trace)
  BY <1>5, <1>6 DEF Holds
<1>11. Holds("single_confirmation", db, trace) /\ Holds("inventory_restored", db, trace)
  BY <1>5, <1>8 DEF Holds
<1>12. Holds("refund_after_cancellation", db, trace)
  BY <1>7 DEF Holds
<1>. QED
  BY <1>9, <1>10, <1>11, <1>12 DEF Broken, Invariants

\* What the runner keeps of the baseline, and what it concludes from it.
Judged ==
  /\ mode = "faulted" /\ budget > Len(Script) =>
       reports["baseline"].others > 0 \/ OutcomeOf(reports["baseline"]) = "pass"
  /\ verdict = "baseline_invalid" =>
       mode = "faulted" /\ OutcomeOf(reports["baseline"]) # "pass"

LEMMA NextJudged ==
  ASSUME Typed, Effects, RefundsFollow, Straight, Judged, [Next]_vars
  PROVE  Judged'
<1>0. RunTyped /\ AgentTyped /\ others \in Nat
  BY DEF Typed, RunTyped
<1>1. CASE BaselineEnds
  <2>1. /\ reports'["baseline"] = Report /\ mode' = "faulted" /\ verdict' = verdict
        /\ budget' = budget /\ pc = "done" /\ mode = "baseline"
    BY <1>0, <1>1 DEF BaselineEnds, AgentTyped, Modes, experiment
  <2>2. Report.others = others /\ Report.broken = Broken(db, trace)
    BY DEF Report
  <2>3. budget > Len(Script) => others > 0 \/ Broken(db, trace) = {}
    BY <1>0, <2>1, StraightIsSound
  <2>4. verdict # "baseline_invalid"
    BY <2>1 DEF Judged
  <2>. HIDE DEF Report
  <2>. QED
    BY <2>1, <2>2, <2>3, <2>4 DEF Judged, OutcomeOf
<1>2. CASE FaultedEnds
  <2>1. /\ reports'["baseline"] = reports["baseline"] /\ mode' = "faulted" /\ mode = "faulted"
        /\ budget' = budget /\ verdict' = Verdict(reports["baseline"], Report)
    BY <1>0, <1>2 DEF FaultedEnds, AgentTyped, Modes, experiment
  <2>2. verdict' = "baseline_invalid" => OutcomeOf(reports["baseline"]) # "pass"
    BY <2>1 DEF Verdict, CompareRuns
  <2>. QED
    BY <2>1, <2>2 DEF Judged, OutcomeOf
<1>3. CASE ~BaselineEnds /\ ~FaultedEnds
  <2>1. reports' = reports /\ mode' = mode /\ budget' = budget /\ verdict' = verdict
    BY <1>3 DEF Next, Proceed, Declare, RunStarts, AgentStep, OtherWriter, vars, experiment
  <2>. QED
    BY <2>1 DEF Judged, OutcomeOf
<1>. QED
  BY <1>1, <1>2, <1>3

\* No profile fails its own baseline, if it has more calls than steps and nobody else
\* restored stock in it: a verdict of an invalid baseline is never about the agent.
THEOREM BaselinesValid == Spec => []BaselinesAreValid
<1>1. Init => RefundsFollow /\ Straight /\ Judged
  <2> SUFFICES ASSUME Init PROVE RefundsFollow /\ Straight /\ Judged
    OBVIOUS
  <2>1. DOMAIN trace = {} /\ \A i \in 1..4 : ~Over(i)
    BY DEF Init, FreshWorld, Over, Ended
  <2>2. DOMAIN EmptyLedger.entries = {}
    BY DEF EmptyLedger, Nowhere
  <2>3. /\ Restored(db, others) = 0 /\ DOMAIN db.refunds.entries = {}
        /\ DOMAIN db.notifications.entries = {}
    BY <2>2, FreshSandbox DEF Init, FreshWorld, InitialState
  <2>4. Straight
    BY <2>1, <2>3 DEF Straight, Init, FreshWorld
  <2>5. Judged
    BY DEF Judged, Init
  <2>. QED
    BY <2>1, <2>4, <2>5 DEF RefundsFollow
<1>2. Judged => BaselinesAreValid
  BY DEF Judged, BaselinesAreValid
<1>3. Typed /\ Effects /\ RefundsFollow /\ Straight /\ Judged /\ [Next]_vars
      => (RefundsFollow /\ Straight /\ Judged)'
  BY NextRefunds, NextStraight, NextJudged
<1>. QED
  BY <1>1, <1>2, <1>3, EffectsHold, PTL DEF Spec

-----------------------------------------------------------------------------
\* Runs in which no rule fires.

\* The sandbox after the tools were called once each and others added to the stock: the
\* calls commute, so that it does not matter when others did it.
OrdersAfter(tools) ==
  [o \in Orders |-> IF o = order /\ "cancel_order" \in tools THEN "cancelled" ELSE "confirmed"]
PaymentsAfter(tools) ==
  [p \in Payments |->
     IF p = payment /\ "refund_payment" \in tools THEN "refunded" ELSE "captured"]
StockAfter(tools, added) ==
  [s \in Skus |->
     IF s = sku THEN 9 + added + (IF "restore_inventory" \in tools THEN 1 ELSE 0) ELSE 9]
RefundsAfter(tools) ==
  IF "refund_payment" \in tools
  THEN Create(EmptyLedger, RefundAsked, Key(refundKey)) ELSE EmptyLedger
ConfirmationsAfter(tools) ==
  IF "send_confirmation" \in tools
  THEN Create(EmptyLedger, ConfirmationAsked, Key(confirmKey)) ELSE EmptyLedger

After(tools, added) ==
  [orders |-> OrdersAfter(tools), payments |-> PaymentsAfter(tools),
   stock |-> StockAfter(tools, added), refunds |-> RefundsAfter(tools),
   notifications |-> ConfirmationsAfter(tools)]

LEMMA Fields ==
  ASSUME NEW orders, NEW payments, NEW stock, NEW refunds, NEW notifications, NEW x, NEW y
  PROVE  LET d == [orders |-> orders, payments |-> payments, stock |-> stock,
                   refunds |-> refunds, notifications |-> notifications]
         IN  /\ [d EXCEPT !.orders = x] =
                  [orders |-> x, payments |-> payments, stock |-> stock,
                   refunds |-> refunds, notifications |-> notifications]
             /\ [d EXCEPT !.refunds = x, !.payments = y] =
                  [orders |-> orders, payments |-> y, stock |-> stock,
                   refunds |-> x, notifications |-> notifications]
             /\ [d EXCEPT !.stock = x] =
                  [orders |-> orders, payments |-> payments, stock |-> x,
                   refunds |-> refunds, notifications |-> notifications]
             /\ [d EXCEPT !.notifications = x] =
                  [orders |-> orders, payments |-> payments, stock |-> stock,
                   refunds |-> refunds, notifications |-> x]
<1>. DEFINE d == [orders |-> orders, payments |-> payments, stock |-> stock,
                  refunds |-> refunds, notifications |-> notifications]
<1>1. [d EXCEPT !.orders = x] = [orders |-> x, payments |-> payments, stock |-> stock,
                                 refunds |-> refunds, notifications |-> notifications]
  OBVIOUS
<1>2. [d EXCEPT !.refunds = x, !.payments = y] =
        [orders |-> orders, payments |-> y, stock |-> stock,
         refunds |-> x, notifications |-> notifications]
  <2>. DEFINE e == [d EXCEPT !.refunds = x, !.payments = y]
  <2>1. /\ e = [f \in {"orders", "payments", "stock", "refunds", "notifications"} |-> e[f]]
        /\ e.orders = orders /\ e.payments = y /\ e.stock = stock
        /\ e.refunds = x /\ e.notifications = notifications
    OBVIOUS
  <2>. HIDE DEF e
  <2>2. e = [orders |-> orders, payments |-> y, stock |-> stock,
             refunds |-> x, notifications |-> notifications]
    BY <2>1
  <2>. QED
    BY <2>2 DEF e
<1>3. [d EXCEPT !.stock = x] = [orders |-> orders, payments |-> payments, stock |-> x,
                                refunds |-> refunds, notifications |-> notifications]
  OBVIOUS
<1>4. [d EXCEPT !.notifications = x] =
        [orders |-> orders, payments |-> payments, stock |-> stock,
         refunds |-> refunds, notifications |-> x]
  OBVIOUS
<1>. QED
  BY <1>1, <1>2, <1>3, <1>4

\* A field depends on the tools that change it only.
LEMMA FieldsDepend ==
  ASSUME NEW tools, NEW more, NEW added
  PROVE  /\ ("cancel_order" \in more <=> "cancel_order" \in tools) =>
              OrdersAfter(more) = OrdersAfter(tools)
         /\ ("refund_payment" \in more <=> "refund_payment" \in tools) =>
              PaymentsAfter(more) = PaymentsAfter(tools) /\ RefundsAfter(more) = RefundsAfter(tools)
         /\ ("restore_inventory" \in more <=> "restore_inventory" \in tools) =>
              StockAfter(more, added) = StockAfter(tools, added)
         /\ ("send_confirmation" \in more <=> "send_confirmation" \in tools) =>
              ConfirmationsAfter(more) = ConfirmationsAfter(tools)
<1>1. ("cancel_order" \in more <=> "cancel_order" \in tools) =>
        OrdersAfter(more) = OrdersAfter(tools)
  <2>1. CASE "cancel_order" \in tools /\ "cancel_order" \in more
    BY <2>1 DEF OrdersAfter
  <2>2. CASE "cancel_order" \notin tools /\ "cancel_order" \notin more
    BY <2>2 DEF OrdersAfter
  <2>. QED
    BY <2>1, <2>2
<1>2. ("refund_payment" \in more <=> "refund_payment" \in tools) =>
        PaymentsAfter(more) = PaymentsAfter(tools) /\ RefundsAfter(more) = RefundsAfter(tools)
  <2>1. CASE "refund_payment" \in tools /\ "refund_payment" \in more
    BY <2>1 DEF PaymentsAfter, RefundsAfter
  <2>2. CASE "refund_payment" \notin tools /\ "refund_payment" \notin more
    BY <2>2 DEF PaymentsAfter, RefundsAfter
  <2>. QED
    BY <2>1, <2>2
<1>3. ("restore_inventory" \in more <=> "restore_inventory" \in tools) =>
        StockAfter(more, added) = StockAfter(tools, added)
  <2>1. CASE "restore_inventory" \in tools /\ "restore_inventory" \in more
    BY <2>1 DEF StockAfter
  <2>2. CASE "restore_inventory" \notin tools /\ "restore_inventory" \notin more
    BY <2>2 DEF StockAfter
  <2>. QED
    BY <2>1, <2>2
<1>4. ("send_confirmation" \in more <=> "send_confirmation" \in tools) =>
        ConfirmationsAfter(more) = ConfirmationsAfter(tools)
  <2>1. CASE "send_confirmation" \in tools /\ "send_confirmation" \in more
    BY <2>1 DEF ConfirmationsAfter
  <2>2. CASE "send_confirmation" \notin tools /\ "send_confirmation" \notin more
    BY <2>2 DEF ConfirmationsAfter
  <2>. QED
    BY <2>1, <2>2
<1>. QED
  BY <1>1, <1>2, <1>3, <1>4

\* A tool that was not called yet does to the sandbox what the call of it stands for.
LEMMA NewCall ==
  ASSUME NEW tools, NEW added \in Nat, NEW tool \in Tools, tool \notin tools,
         profile.keys \in BOOLEAN
  PROVE  Handle(After(tools, added), tool).db = After(tools \cup {tool}, added)
<1> PICK more : more = tools \cup {tool}
  OBVIOUS
<1> PICK d : d = After(tools, added)
  OBVIOUS
<1>1. tool \in {"cancel_order", "refund_payment", "restore_inventory", "send_confirmation",
               "get_inventory"}
  <2>1. DOMAIN Script = 1..4
    BY DEF Script
  <2>. QED
    BY <2>1 DEF Tools, Script, ProbeTool
<1>2. d.orders = OrdersAfter(tools) /\ d.stock = StockAfter(tools, added)
      /\ d.payments = PaymentsAfter(tools)
      /\ d.refunds = RefundsAfter(tools) /\ d.notifications = ConfirmationsAfter(tools)
  BY DEF After
<1>3. DOMAIN EmptyLedger.index = {}
  BY DEF EmptyLedger, Nowhere
<1>4. CASE tool = "cancel_order"
  <2>1. Handle(d, tool).db = [d EXCEPT !.orders = [@ EXCEPT ![order] = "cancelled"]]
    BY <1>4, ScriptArguments DEF Handle, CancelOrder, Answer
  <2>2. [OrdersAfter(tools) EXCEPT ![order] = "cancelled"] = OrdersAfter(more)
    BY <1>4 DEF OrdersAfter
  <2>3. Handle(d, tool).db = [d EXCEPT !.orders = OrdersAfter(more)]
    BY <1>2, <2>1, <2>2
  <2>4. /\ PaymentsAfter(more) = PaymentsAfter(tools) /\ RefundsAfter(more) = RefundsAfter(tools)
        /\ StockAfter(more, added) = StockAfter(tools, added)
        /\ ConfirmationsAfter(more) = ConfirmationsAfter(tools)
    BY <1>4, FieldsDepend
  <2>. QED
    BY <2>3, <2>4, Fields DEF After
<1>5. CASE tool = "restore_inventory"
  <2>. DEFINE n == d.stock[sku] + 1
              stock == [d.stock EXCEPT ![sku] = n]
  <2>1. Handle(d, tool).db = [d EXCEPT !.stock = stock]
    BY <1>5, ScriptArguments DEF Handle, RestoreInventory, Answer
  <2>2. d.stock[sku] = 9 + added /\ n = 9 + added + 1
    BY <1>2, <1>5, ScriptArguments DEF StockAfter
  <2>. HIDE DEF n
  <2>3. stock = StockAfter(more, added)
    BY <1>2, <1>5, <2>2, ScriptArguments DEF StockAfter
  <2>. HIDE DEF stock
  <2>4. /\ PaymentsAfter(more) = PaymentsAfter(tools) /\ RefundsAfter(more) = RefundsAfter(tools)
        /\ OrdersAfter(more) = OrdersAfter(tools)
        /\ ConfirmationsAfter(more) = ConfirmationsAfter(tools)
    BY <1>5, FieldsDepend
  <2>. QED
    BY <2>1, <2>3, <2>4, Fields DEF After
<1>6. CASE tool = "get_inventory"
  <2>1. Handle(d, tool).db = d
    BY <1>6 DEF Handle, GetInventory, Answer
  <2>2. /\ PaymentsAfter(more) = PaymentsAfter(tools) /\ RefundsAfter(more) = RefundsAfter(tools)
        /\ OrdersAfter(more) = OrdersAfter(tools)
        /\ ConfirmationsAfter(more) = ConfirmationsAfter(tools)
        /\ StockAfter(more, added) = StockAfter(tools, added)
    BY <1>6, FieldsDepend
  <2>. QED
    BY <2>1, <2>2 DEF After
<1>7. CASE tool = "refund_payment"
  <2>. DEFINE k == Key(refundKey)
  <2>1. Handle(d, tool) = RefundPayment(d, RefundAsked, k)
    BY <1>7 DEF Handle, RefundAsked
  <2>2. /\ RefundAsked.amount = full /\ RefundAsked.payment = payment
        /\ full \in Amounts \ OversizedAmounts /\ payment \in Payments /\ refundKey \in Keys
    BY ScriptArguments, AmountsAssumption DEF RefundAsked
  <2>3. NormalKey(k) = k /\ k # Blank
    BY <2>2, Keyed
  <2>4. d.refunds = EmptyLedger
    BY <1>2, <1>7 DEF RefundsAfter
  <2>. HIDE DEF k
  <2>5. k \notin DOMAIN d.refunds.index
    BY <1>3, <2>4
  <2>6. Handle(d, tool).db =
          [d EXCEPT !.refunds = Create(d.refunds, RefundAsked, k),
                    !.payments = [@ EXCEPT ![payment] = "refunded"]]
    BY <2>1, <2>2, <2>3, <2>5 DEF RefundPayment, NewRefund, Answer
  <2>7. Create(d.refunds, RefundAsked, k) = RefundsAfter(more)
    BY <1>7, <2>4 DEF RefundsAfter, k
  <2>8. [PaymentsAfter(tools) EXCEPT ![payment] = "refunded"] = PaymentsAfter(more)
    BY <1>7 DEF PaymentsAfter
  <2>9. Handle(d, tool).db =
          [d EXCEPT !.refunds = RefundsAfter(more), !.payments = PaymentsAfter(more)]
    BY <1>2, <2>6, <2>7, <2>8 DEF After
  <2>10. /\ OrdersAfter(more) = OrdersAfter(tools)
         /\ StockAfter(more, added) = StockAfter(tools, added)
         /\ ConfirmationsAfter(more) = ConfirmationsAfter(tools)
    BY <1>7, FieldsDepend
  <2>. QED
    BY <2>9, <2>10, Fields DEF After
<1>8. CASE tool = "send_confirmation"
  <2>. DEFINE k == Key(confirmKey)
              made == Create(d.notifications, ConfirmationAsked, k)
  <2>1. Handle(d, tool) = SendConfirmation(d, order, message, k)
    BY <1>8 DEF Handle
  <2>2. order \in Orders /\ Strip[message] # Blank /\ confirmKey \in Keys
    BY ScriptArguments
  <2>3. NormalKey(k) = k /\ k # Blank
    BY <2>2, Keyed
  <2>4. d.notifications = EmptyLedger
    BY <1>2, <1>8 DEF ConfirmationsAfter
  <2>5. k \notin DOMAIN d.notifications.index
    BY <1>3, <2>4
  <2>. HIDE DEF k
  <2>6. Handle(d, tool).db = [d EXCEPT !.notifications = made]
    BY <2>1, <2>2, <2>3, <2>5 DEF SendConfirmation, ConfirmationAsked, Answer
  <2>7. made = ConfirmationsAfter(more)
    BY <1>8, <2>4 DEF ConfirmationsAfter, k
  <2>. HIDE DEF made
  <2>8. /\ PaymentsAfter(more) = PaymentsAfter(tools) /\ RefundsAfter(more) = RefundsAfter(tools)
        /\ OrdersAfter(more) = OrdersAfter(tools)
        /\ StockAfter(more, added) = StockAfter(tools, added)
    BY <1>8, FieldsDepend
  <2>. QED
    BY <2>6, <2>7, <2>8, Fields DEF After
<1>. QED
  BY <1>1, <1>4, <1>5, <1>6, <1>7, <1>8

\* What others add, and the fresh sandbox.
LEMMA OthersAdd ==
  ASSUME NEW tools, NEW added \in Nat
  PROVE  RestoreInventory(After(tools, added), sku, 1).db = After(tools, added + 1)
<1> PICK d : d = After(tools, added)
  OBVIOUS
<1>. DEFINE n == d.stock[sku] + 1
            stock == [d.stock EXCEPT ![sku] = n]
            own == IF "restore_inventory" \in tools THEN 1 ELSE 0
<1>1. RestoreInventory(d, sku, 1).db = [d EXCEPT !.stock = stock]
  BY ScriptArguments DEF RestoreInventory, Answer
<1>2. d.stock = StockAfter(tools, added)
  BY DEF After
<1>3. own \in Nat
  OBVIOUS
<1>4. /\ StockAfter(tools, added) = [s \in Skus |-> IF s = sku THEN 9 + added + own ELSE 9]
      /\ StockAfter(tools, added + 1) =
           [s \in Skus |-> IF s = sku THEN 9 + (added + 1) + own ELSE 9]
  BY DEF StockAfter
<1>. HIDE DEF own
<1>5. d.stock[sku] = 9 + added + own /\ n = 9 + (added + 1) + own
  BY <1>2, <1>3, <1>4, ScriptArguments
<1>. HIDE DEF n
<1>6. stock = StockAfter(tools, added + 1)
  BY <1>2, <1>4, <1>5, ScriptArguments
<1>. HIDE DEF stock
<1>. QED
  BY <1>1, <1>6, Fields DEF After

LEMMA FreshIsAfter == InitialState = After({}, 0)
<1>1. StockAfter({}, 0) = [s \in Skus |-> 9]
  BY DEF StockAfter
<1>. QED
  BY <1>1 DEF InitialState, After, OrdersAfter, PaymentsAfter, RefundsAfter, ConfirmationsAfter
\* The calls of an agent whose calls are all answered as they are: the attempts of its script
\* and the probe before the third, once each.
Upto(i) == IF profile.reconciles /\ i >= 3 THEN i + 1 ELSE i
Move(i) == IF profile.reconciles /\ i = 3 THEN ProbeTool
           ELSE IF profile.reconciles /\ i > 3 THEN Script[i - 1] ELSE Script[i]

PlainEntry(tool, n) ==
  [tool |-> tool, number |-> 1, completedBefore |-> n, rule |-> NoRule, executed |-> TRUE,
   committed |-> "unknown", count |-> 1, underlying |-> "result", caller |-> "result"]
PlainTrace(n) == [i \in 1..n |-> PlainEntry(Move(i), i - 1)]

\* Of n calls, those that the budget lets through.
Through(n) == IF n < budget THEN n ELSE budget
ToolsOf(t) == {t[i].tool : i \in DOMAIN t}

\* What n such calls leave behind.
PlainWorld(n) ==
  /\ trace = PlainTrace(Through(n)) /\ calls = Through(n)
  /\ counts = [t \in Tools |-> IF t \in ToolsOf(trace) THEN 1 ELSE 0]
  /\ db = After(ToolsOf(trace), others)

LEMMA Moves ==
  ASSUME profile.reconciles \in BOOLEAN
  PROVE  /\ Upto(4) \in {4, 5}
         /\ \A i \in 1..Upto(4) : Move(i) \in Tools
         /\ \A i, j \in 1..Upto(4) : Move(i) = Move(j) => i = j
         /\ \A i \in 1..4 : Upto(i) \in 1..Upto(4) /\ Move(Upto(i)) = Script[i]
         /\ profile.reconciles => Move(3) = ProbeTool /\ 3 < Upto(4)
<1>. DEFINE tools == {"cancel_order", "refund_payment", "restore_inventory",
                      "send_confirmation", "get_inventory"}
<1>1. /\ Script[1] = "cancel_order" /\ Script[2] = "refund_payment"
      /\ Script[3] = "restore_inventory" /\ Script[4] = "send_confirmation"
      /\ ProbeTool = "get_inventory"
  BY ScriptFacts DEF ProbeTool
<1>2. tools \subseteq Tools
  BY <1>1, ScriptFacts
<1>3. CASE profile.reconciles
  <2>1. /\ Upto(4) = 5 /\ Upto(1) = 1 /\ Upto(2) = 2 /\ Upto(3) = 4
    BY <1>3 DEF Upto
  <2>2. /\ Move(1) = "cancel_order" /\ Move(2) = "refund_payment" /\ Move(3) = "get_inventory"
        /\ Move(4) = "restore_inventory" /\ Move(5) = "send_confirmation"
    BY <1>1, <1>3 DEF Move
  <2>3. \A i \in 1..5 : i = 1 \/ i = 2 \/ i = 3 \/ i = 4 \/ i = 5
    OBVIOUS
  <2>4. \A i \in 1..5 : Move(i) \in tools
    BY <2>2, <2>3
  <2>5. \A i, j \in 1..5 : Move(i) = Move(j) => i = j
    BY <2>2, <2>3
  <2>6. \A i \in 1..4 : Upto(i) \in 1..5 /\ Move(Upto(i)) = Script[i]
    BY <1>1, <2>1, <2>2
  <2>. QED
    BY <1>1, <1>2, <2>1, <2>2, <2>4, <2>5, <2>6
<1>4. CASE ~profile.reconciles
  <2>1. \A i \in 1..4 : Upto(i) = i /\ Move(i) = Script[i]
    BY <1>4 DEF Upto, Move
  <2>2. \A i \in 1..4 : i = 1 \/ i = 2 \/ i = 3 \/ i = 4
    OBVIOUS
  <2>3. \A i, j \in 1..4 : Script[i] = Script[j] => i = j
    BY <1>1, <2>2
  <2>. QED
    BY <1>4, <2>1, <2>3, ScriptFacts
<1>. QED
  BY <1>3, <1>4

LEMMA PlainToolsOf ==
  ASSUME NEW n \in Nat
  PROVE  /\ DOMAIN PlainTrace(n) = 1..n /\ Len(PlainTrace(n)) = n
         /\ ToolsOf(PlainTrace(n)) = {Move(i) : i \in 1..n}
         /\ Fired(PlainTrace(n)) = {}
         /\ Append(PlainTrace(n), PlainEntry(Move(n + 1), n)) = PlainTrace(n + 1)
<1>. DEFINE t == PlainTrace(n)
<1>1. DOMAIN t = 1..n /\ Len(t) = n
  BY DEF PlainTrace
<1>2. \A i \in 1..n : t[i] = PlainEntry(Move(i), i - 1)
  BY DEF PlainTrace
<1>3. \A i \in 1..n : t[i].tool = Move(i) /\ t[i].rule = NoRule
  <2>. HIDE DEF t
  <2>1. \A tool, k : PlainEntry(tool, k).tool = tool /\ PlainEntry(tool, k).rule = NoRule
    BY DEF PlainEntry
  <2>. QED
    BY <1>2, <2>1
<1>4. Append(t, PlainEntry(Move(n + 1), n)) = PlainTrace(n + 1)
  <2> PICK u : u = PlainTrace(n + 1)
    OBVIOUS
  <2> PICK e : e = PlainEntry(Move(n + 1), n)
    OBVIOUS
  <2>1. /\ u = [i \in 1..(n + 1) |-> u[i]]
        /\ \A i \in 1..(n + 1) : u[i] = PlainEntry(Move(i), i - 1)
    BY DEF PlainTrace
  <2>2. u[n + 1] = e
    <3>1. (n + 1) - 1 = n /\ n + 1 \in 1..(n + 1)
      OBVIOUS
    <3>. QED
      BY <2>1, <3>1
  <2>3. \A i \in 1..n : u[i] = t[i]
    BY <1>2, <2>1
  <2>. HIDE DEF t
  <2>4. Append(t, e) = [i \in 1..(n + 1) |-> IF i = n + 1 THEN e ELSE t[i]]
    BY <1>1
  <2>5. \A i \in 1..(n + 1) : i = n + 1 \/ i \in 1..n
    OBVIOUS
  <2>6. \A i \in 1..(n + 1) : u[i] = IF i = n + 1 THEN e ELSE t[i]
    BY <2>2, <2>3, <2>5
  <2>7. Append(t, e) = u
    BY <2>1, <2>4, <2>6
  <2>. QED
    BY <2>7
<1>. HIDE DEF t
<1>5. ToolsOf(t) = {Move(i) : i \in 1..n}
  BY <1>1, <1>3 DEF ToolsOf
<1>6. Fired(t) = {}
  BY <1>1, <1>3 DEF Fired
<1>. QED
  BY <1>1, <1>4, <1>5, <1>6 DEF t

\* A call that no rule touches and that is the first of its tool.
LEMMA PlainAnswer ==
  ASSUME RunTyped, NEW tool \in Tools, NEW call, call = GatewayCall(tool),
         calls < budget, counts[tool] = 0, RuleFor(tool, 1) = NoRule
  PROVE  /\ call.db = Handle(db, tool).db /\ call.calls = calls + 1
         /\ call.counts = [counts EXCEPT ![tool] = 1]
         /\ call.trace = Append(trace, PlainEntry(tool, Len(trace)))
         /\ call.reply.ok /\ call.reply.response \notin Replacements
<1>. DEFINE first == Handle(db, tool)
            second == Handle(first.db, tool)
            e == Execute(db, first, second, NoRule)
<1>1. counts[tool] + 1 = 1 /\ ~(calls >= budget)
  BY ProfileType DEF RunTyped
<1>2. first.answer # Raised /\ first.answer \notin Replacements
  BY HandlerWorks, ProfileType DEF RunTyped, Works
<1>3. TypeOf(NoRule) = "none"
  BY DEF TypeOf
<1>. HIDE DEF second
<1>4. call = [db |-> e.db, counts |-> [counts EXCEPT ![tool] = 1], calls |-> calls + 1,
              trace |-> Append(trace, Entry(tool, 1, e)), reply |-> Normalized(NoRule, e)]
  BY <1>1 DEF GatewayCall, second
<1>. HIDE DEF first
<1>5. e = Executed(first.db, Succeeded(NoRule), CallerSees(NoRule), first.answer)
  BY <1>2, <1>3 DEF Execute, RejectingFaults
<1>6. /\ e.db = first.db /\ e.outcome = Succeeded(NoRule) /\ e.caller = "result"
      /\ e.answer = first.answer
  BY <1>3, <1>5 DEF Executed, CallerSees
<1>7. e.outcome = [rule |-> NoRule, executed |-> TRUE, committed |-> "unknown", count |-> 1,
                   underlying |-> "result"]
  BY <1>3, <1>6 DEF Succeeded, Outcome
<1>. HIDE DEF e
<1>8. Normalized(NoRule, e) = Ok(first.answer)
  BY <1>6 DEF Normalized
<1>9. Entry(tool, 1, e) = PlainEntry(tool, Len(trace))
  BY <1>6, <1>7 DEF Entry, PlainEntry
<1>10. Ok(first.answer).ok /\ Ok(first.answer).response = first.answer
  BY DEF Ok
<1>. QED
  BY <1>2, <1>4, <1>6, <1>8, <1>9, <1>10 DEF first

\* No rule fires in a call that leaves none in the trace.
LEMMA NothingFires ==
  ASSUME RunTyped, NEW tool \in Tools, NEW call, call = GatewayCall(tool), Becomes(call)
  PROVE  /\ Fired(trace') = {} => Fired(trace) = {}
         /\ Fired(trace') = {} /\ calls < budget => RuleFor(tool, counts[tool] + 1) = NoRule
         /\ Fired(trace) = {} /\ mode = "baseline" => Fired(trace') = {}
<1>1. trace' = call.trace
  BY DEF Becomes
<1>2. CASE IsRefused(call)
  <2>1. trace' = trace /\ ~(calls < budget)
    BY <1>1, <1>2, ProfileType DEF IsRefused, RunTyped
  <2>. QED
    BY <2>1
<1>3. ASSUME NEW entry \in Records, IsMade(call, tool, entry)
      PROVE  /\ Fired(trace') = {} => Fired(trace) = {}
             /\ Fired(trace') = {} => RuleFor(tool, counts[tool] + 1) = NoRule
             /\ Fired(trace) = {} /\ mode = "baseline" => Fired(trace') = {}
  <2>1. trace' = Append(trace, entry) /\ trace \in Seq(Records)
        /\ entry.rule = RuleFor(tool, counts[tool] + 1)
    BY <1>1, <1>3 DEF IsMade, RunTyped
  <2>2. /\ \A i \in DOMAIN trace : i \in DOMAIN trace' /\ trace'[i] = trace[i]
        /\ Len(trace) + 1 \in DOMAIN trace' /\ trace'[Len(trace) + 1] = entry
        /\ \A i \in DOMAIN trace' : i \in DOMAIN trace \/ i = Len(trace) + 1
    BY <2>1
  <2>3. Fired(trace) \subseteq Fired(trace')
    BY <2>2 DEF Fired
  <2>4. entry.rule # NoRule => entry.rule \in Fired(trace')
    BY <2>2 DEF Fired
  <2>5. mode = "baseline" => entry.rule = NoRule
    BY <2>1 DEF RuleFor, Matches
  <2>6. ASSUME mode = "baseline" PROVE Fired(trace') \subseteq Fired(trace)
    <3> SUFFICES ASSUME NEW i \in DOMAIN trace', trace'[i].rule # NoRule
                 PROVE  trace'[i].rule \in Fired(trace)
      BY DEF Fired
    <3>1. i \in DOMAIN trace
      BY <2>2, <2>5, <2>6
    <3>. QED
      BY <2>2, <3>1 DEF Fired
  <2>. QED
    BY <2>1, <2>3, <2>4, <2>6
<1>. QED
  BY <1>2, <1>3, Calling

\* The definitions above look at the profile and the budget, which no step changes.
LEMMA PlainIsFixed ==
  ASSUME profile' = profile, budget' = budget
  PROVE  /\ \A i : Upto(i)' = Upto(i)
         /\ \A n : Through(n)' = Through(n)
         /\ \A n : PlainTrace(n)' = PlainTrace(n)
         /\ \A tools, added : After(tools, added)' = After(tools, added)
<1>1. \A i : Move(i)' = Move(i)
  BY DEF Move
<1>2. \A tool, n : PlainEntry(tool, n)' = PlainEntry(tool, n)
  BY DEF PlainEntry
<1>3. \A i : Upto(i)' = Upto(i)
  BY DEF Upto
<1>4. \A n : Through(n)' = Through(n)
  BY DEF Through
<1>5. ASSUME NEW n PROVE PlainTrace(n)' = PlainTrace(n)
  BY <1>1 DEF PlainTrace
<1>6. \A k : Key(k)' = Key(k)
  BY DEF Key
<1>7. ASSUME NEW tools, NEW added PROVE After(tools, added)' = After(tools, added)
  BY <1>6 DEF After, OrdersAfter, PaymentsAfter, StockAfter, RefundsAfter, ConfirmationsAfter
<1>. QED
  BY <1>3, <1>4, <1>5, <1>7

\* The next call of such an agent, within the budget and beyond it.
LEMMA PlainCall ==
  ASSUME RunTyped, NEW n \in Nat, n < Upto(4), PlainWorld(n),
         NEW call, call = GatewayCall(Move(n + 1)), Becomes(call),
         profile' = profile, budget' = budget, others' = others, Fired(trace') = {}
  PROVE  /\ PlainWorld(n + 1)'
         /\ n + 1 <= budget => call.reply.ok /\ call.reply.response \notin Replacements
         /\ n + 1 > budget => ~call.reply.ok /\ call.reply.kind = "call_budget_exhausted"
<1> PICK tool : tool = Move(n + 1)
  OBVIOUS
<1>0. /\ budget \in Nat /\ others \in Nat /\ profile.keys \in BOOLEAN
      /\ profile.reconciles \in BOOLEAN /\ counts \in [Tools -> Nat]
  BY ProfileType DEF RunTyped
<1>1. tool \in Tools /\ \A i \in 1..n : Move(i) # tool
  <2>1. Upto(4) \in Nat /\ n + 1 \in 1..Upto(4)
    BY <1>0, Moves
  <2>2. \A i \in 1..n : i \in 1..Upto(4) /\ i # n + 1
    BY <2>1
  <2>. QED
    BY <1>0, <2>1, <2>2, Moves
<1>2. db' = call.db /\ counts' = call.counts /\ calls' = call.calls /\ trace' = call.trace
  BY DEF Becomes
<1>3. /\ Through(n + 1)' = Through(n + 1) /\ PlainTrace(Through(n + 1))' = PlainTrace(Through(n + 1))
      /\ \A tools, added : After(tools, added)' = After(tools, added)
  BY PlainIsFixed
<1>4. SUFFICES /\ trace' = PlainTrace(Through(n + 1)) /\ calls' = Through(n + 1)
               /\ counts' = [t \in Tools |-> IF t \in ToolsOf(trace') THEN 1 ELSE 0]
               /\ db' = After(ToolsOf(trace'), others)
               /\ n + 1 <= budget => call.reply.ok /\ call.reply.response \notin Replacements
               /\ n + 1 > budget => ~call.reply.ok /\ call.reply.kind = "call_budget_exhausted"
  <2>1. ToolsOf(trace)' = ToolsOf(trace')
    BY DEF ToolsOf
  <2>2. After(ToolsOf(trace), others)' = After(ToolsOf(trace'), others)
    BY DEF ToolsOf, After, OrdersAfter, PaymentsAfter, StockAfter, RefundsAfter,
           ConfirmationsAfter, Key
  <2>. QED
    BY <1>3, <2>1, <2>2 DEF PlainWorld
<1>5. CASE n < budget
  <2>1. Through(n) = n /\ Through(n + 1) = n + 1 /\ n + 1 <= budget
    BY <1>0, <1>5 DEF Through
  <2>2. trace = PlainTrace(n) /\ calls = n
    BY <2>1 DEF PlainWorld
  <2> PICK tools : tools = ToolsOf(trace)
    OBVIOUS
  <2>3. tools = {Move(i) : i \in 1..n} /\ Len(trace) = n
        /\ Append(trace, PlainEntry(tool, n)) = PlainTrace(n + 1)
        /\ ToolsOf(PlainTrace(n + 1)) = {Move(i) : i \in 1..(n + 1)}
    <3>1. /\ Len(PlainTrace(n)) = n /\ ToolsOf(PlainTrace(n)) = {Move(i) : i \in 1..n}
          /\ Append(PlainTrace(n), PlainEntry(Move(n + 1), n)) = PlainTrace(n + 1)
      BY PlainToolsOf
    <3>2. ToolsOf(PlainTrace(n + 1)) = {Move(i) : i \in 1..(n + 1)}
      <4> PICK m \in Nat : m = n + 1
        OBVIOUS
      <4>1. ToolsOf(PlainTrace(m)) = {Move(i) : i \in 1..m}
        BY PlainToolsOf
      <4>. QED
        BY <4>1
    <3>. QED
      BY <2>2, <3>1, <3>2
  <2>4. tool \notin tools /\ {Move(i) : i \in 1..(n + 1)} = tools \cup {tool}
    <3>1. \A i \in 1..(n + 1) : i = n + 1 \/ i \in 1..n
      OBVIOUS
    <3>2. \A i \in 1..n : i \in 1..(n + 1)
      OBVIOUS
    <3>3. n + 1 \in 1..(n + 1)
      OBVIOUS
    <3>. QED
      BY <1>1, <2>3, <3>1, <3>2, <3>3
  <2>5. /\ counts = [t \in Tools |-> IF t \in tools THEN 1 ELSE 0]
        /\ db = After(tools, others)
    BY DEF PlainWorld
  <2>6. counts[tool] = 0
    BY <1>1, <2>4, <2>5
  <2>7. RuleFor(tool, 1) = NoRule
    <3>1. counts[tool] + 1 = 1 /\ calls < budget
      BY <1>5, <2>2, <2>6
    <3>. QED
      BY <1>1, <3>1, NothingFires
  <2>8. /\ call.db = Handle(db, tool).db /\ call.calls = calls + 1
        /\ call.counts = [counts EXCEPT ![tool] = 1]
        /\ call.trace = Append(trace, PlainEntry(tool, n))
        /\ call.reply.ok /\ call.reply.response \notin Replacements
    BY <1>1, <1>5, <2>2, <2>3, <2>6, <2>7, PlainAnswer
  <2>9. trace' = PlainTrace(n + 1) /\ calls' = n + 1 /\ ToolsOf(trace') = tools \cup {tool}
    BY <1>2, <2>2, <2>3, <2>4, <2>8
  <2>10. counts' = [t \in Tools |-> IF t \in tools \cup {tool} THEN 1 ELSE 0]
    BY <1>1, <1>2, <2>5, <2>8
  <2>11. db' = After(tools \cup {tool}, others)
    BY <1>0, <1>1, <1>2, <2>4, <2>5, <2>8, NewCall
  <2>12. ~(n + 1 > budget)
    BY <1>0, <2>1
  <2>. QED
    BY <2>1, <2>8, <2>9, <2>10, <2>11, <2>12
<1>6. CASE n >= budget
  <2>1. Through(n) = budget /\ Through(n + 1) = budget /\ ~(n + 1 <= budget)
    BY <1>0, <1>6 DEF Through
  <2>2. calls >= budget
    BY <1>0, <2>1 DEF PlainWorld
  <2>3. call = [db |-> db, counts |-> counts, calls |-> calls, trace |-> trace,
                reply |-> Failure("call_budget_exhausted")]
    BY <2>2 DEF GatewayCall
  <2>4. /\ db' = db /\ counts' = counts /\ calls' = calls /\ trace' = trace
        /\ ~call.reply.ok /\ call.reply.kind = "call_budget_exhausted"
    BY <1>2, <2>3 DEF Failure
  <2>. QED
    BY <2>1, <2>4 DEF PlainWorld
<1>. QED
  BY <1>0, <1>5, <1>6

\* The calls behind the agent, what the budget leaves of its script, and where it stops.
Tried == IF pc \in Ended THEN Upto(step)
         ELSE IF pc = "probe" THEN Upto(step) - 2 ELSE Upto(step) - 1
Reached(i) == Upto(i) <= budget
Final(s) ==
  /\ s \in 1..4
  /\ profile.aborts => \A i \in 1..4 : i < s => Reached(i)
  /\ s = 4 \/ (profile.aborts /\ ~Reached(s))

\* While no rule has fired the agent has gone straight through its script, and nothing but
\* the budget has failed a step of it.
Plain ==
  /\ mode = "baseline" => Fired(trace) = {}
  /\ Fired(trace) = {} =>
       /\ attempt = 1 /\ pc # "reprobe"
       /\ \E n \in Nat : n = Tried /\ PlainWorld(n)
       /\ failed = {i \in 1..4 : Over(i) /\ ~Reached(i)}
       /\ profile.aborts => \A i \in 1..4 : i < step => Reached(i)
       /\ pc \in Ended => Final(step)

\* The agent at the beginning of a run.
Beginning ==
  /\ Fresh /\ step = 1 /\ attempt = 1 /\ failed = {} /\ budget \in Nat
  /\ pc \notin Ended \cup {"probe", "reprobe"}

LEMMA BeginningIsPlain == Beginning => Plain
<1> SUFFICES ASSUME Beginning PROVE Plain
  OBVIOUS
<1>0. /\ Fresh /\ step = 1 /\ attempt = 1 /\ failed = {} /\ budget \in Nat
      /\ pc \notin Ended /\ pc # "probe" /\ pc # "reprobe"
  BY DEF Beginning
<1>1. Tried = 0
  BY <1>0 DEF Tried, Upto
<1>2. trace = <<>> /\ calls = 0 /\ counts = [t \in Tools |-> 0] /\ db = InitialState /\ others = 0
  BY <1>0 DEF Fresh, FreshWorld
<1>3. ToolsOf(trace) = {} /\ Fired(trace) = {}
  BY <1>2 DEF ToolsOf, Fired
<1>4. PlainTrace(0) = <<>> /\ Through(0) = 0
  BY <1>0 DEF PlainTrace, Through
<1>5. PlainWorld(0)
  BY <1>2, <1>3, <1>4, FreshIsAfter DEF PlainWorld
<1>6. \A i \in 1..4 : ~Over(i) /\ ~(i < step)
  BY <1>0 DEF Over
<1>. QED
  BY <1>0, <1>1, <1>3, <1>5, <1>6 DEF Plain

LEMMA NextBeginningIsPlain == Beginning' => Plain'
BY BeginningIsPlain, PTL

LEMMA AgentKeepsPlain ==
  ASSUME Typed, Plain, AgentStep
  PROVE  Plain'
<1>0. /\ profile' = profile /\ budget' = budget /\ others' = others /\ mode' = mode
      /\ RunTyped /\ AgentTyped /\ step \in 1..4 /\ pc \notin Ended
      /\ budget \in Nat /\ profile.reconciles \in BOOLEAN /\ profile.aborts \in BOOLEAN
  <2>1. RunTyped /\ AgentTyped /\ step \in 1..4
    BY DEF Typed, AgentTyped
  <2>2. budget \in Nat /\ profile.reconciles \in BOOLEAN /\ profile.aborts \in BOOLEAN
    BY <2>1, ProfileType
  <2>3. pc \notin Ended
    BY DEF AgentStep, Probe, Reprobe, Attempt, Ended
  <2>. QED
    BY <2>1, <2>2, <2>3 DEF AgentStep, experiment
<1>1. /\ Fired(trace') = {} => Fired(trace) = {}
      /\ mode = "baseline" => Fired(trace') = {}
  <2>1. PICK tool \in Tools : Becomes(GatewayCall(tool))
    BY AgentCalls
  <2> PICK call : call = GatewayCall(tool)
    OBVIOUS
  <2>2. /\ Fired(trace') = {} => Fired(trace) = {}
        /\ Fired(trace) = {} /\ mode = "baseline" => Fired(trace') = {}
    BY <1>0, <2>1, NothingFires
  <2>. QED
    BY <2>2 DEF Plain
<1>2. \A i : Upto(i)' = Upto(i) /\ (Reached(i)' <=> Reached(i))
  BY <1>0 DEF Upto, Reached
<1> SUFFICES ASSUME Fired(trace') = {}
             PROVE  /\ attempt' = 1 /\ pc' # "reprobe"
                    /\ \E n \in Nat : n = Tried' /\ PlainWorld(n)'
                    /\ failed' = {i \in 1..4 : Over(i)' /\ ~Reached(i)}
                    /\ profile.aborts => \A i \in 1..4 : i < step' => Reached(i)
                    /\ pc' \in Ended => Final(step)'
  <2>1. Fired(trace)' = Fired(trace')
    BY DEF Fired
  <2>2. {i \in 1..4 : Over(i)' /\ ~Reached(i)'} = {i \in 1..4 : Over(i)' /\ ~Reached(i)}
    BY <1>2
  <2>. QED
    BY <1>0, <1>1, <1>2, <2>1, <2>2 DEF Plain
<1>3. /\ attempt = 1 /\ pc # "reprobe"
      /\ failed = {i \in 1..4 : Over(i) /\ ~Reached(i)}
      /\ profile.aborts => \A i \in 1..4 : i < step => Reached(i)
  BY <1>1 DEF Plain
<1>4. PICK n \in Nat : n = Tried /\ PlainWorld(n)
  BY <1>1 DEF Plain
<1>5. CASE Probe
  <2>1. /\ pc = "probe" /\ pc' = "attempt" /\ step = 3 /\ profile.reconciles
        /\ Becomes(GatewayCall(ProbeTool)) /\ step' = step /\ attempt' = attempt /\ failed' = failed
    BY <1>0, <1>5 DEF Probe, AgentTyped
  <2>2. n = 2 /\ Tried' = 3 /\ n < Upto(4) /\ Move(n + 1) = ProbeTool
    <3>1. n = 2 /\ Tried' = 3
      BY <1>0, <1>4, <2>1 DEF Tried, Upto, Ended
    <3>. QED
      BY <1>0, <2>1, <3>1, Moves DEF Upto
  <2> PICK call : call = GatewayCall(Move(n + 1))
    OBVIOUS
  <2>3. PlainWorld(n + 1)'
    BY <1>0, <1>4, <2>1, <2>2, PlainCall
  <2>4. n + 1 \in Nat /\ n + 1 = Tried'
    BY <2>2
  <2>5. \A i : Over(i)' <=> Over(i)
    BY <2>1 DEF Over, Ended
  <2>6. pc' \notin Ended
    BY <2>1 DEF Ended
  <2>. QED
    BY <1>3, <2>1, <2>3, <2>4, <2>5, <2>6
<1>6. CASE Attempt
  <2>1. pc = "attempt" /\ Becomes(GatewayCall(Script[step]))
    BY <1>6 DEF Attempt
  <2>2. Upto(step) \in 1..Upto(4) /\ Upto(4) \in Nat /\ Move(Upto(step)) = Script[step]
    BY <1>0, Moves
  <2>3. n + 1 = Upto(step) /\ n < Upto(4) /\ Move(n + 1) = Script[step]
    <3>1. n = Upto(step) - 1
      BY <1>4, <2>1 DEF Tried, Ended
    <3>2. n + 1 = Upto(step)
      BY <2>2, <3>1
    <3>. QED
      BY <2>2, <3>2
  <2> PICK call : call = GatewayCall(Move(n + 1))
    OBVIOUS
  <2>4. /\ PlainWorld(n + 1)'
        /\ n + 1 <= budget => call.reply.ok /\ call.reply.response \notin Replacements
        /\ n + 1 > budget => ~call.reply.ok /\ call.reply.kind = "call_budget_exhausted"
    BY <1>0, <1>4, <2>1, <2>3, PlainCall
  <2>5. Reached(step) <=> n + 1 <= budget
    BY <2>3 DEF Reached
  <2>6. PICK ok \in BOOLEAN : (ok <=> Reached(step)) /\ StepEnds(ok)
    <3>1. CASE n + 1 <= budget
      <4>1. Accepts(call.reply)
        BY <2>4, <3>1 DEF Accepts
      <4>2. StepEnds(TRUE)
        BY <1>6, <2>3, <4>1 DEF Attempt
      <4>. QED
        BY <2>5, <3>1, <4>2
    <3>2. CASE n + 1 > budget
      <4>1. ~Accepts(call.reply) /\ ~MayRetry(call.reply)
        BY <2>4, <3>2 DEF Accepts, MayRetry, RetryOn
      <4>2. StepEnds(FALSE)
        BY <1>6, <2>3, <4>1 DEF Attempt
      <4>3. ~(n + 1 <= budget)
        BY <1>0, <3>2
      <4>. QED
        BY <2>5, <4>2, <4>3
    <3>. QED
      BY <1>0, <3>1, <3>2
  <2>7. /\ failed' = IF ok THEN failed ELSE failed \cup {step}
        /\ attempt' = 1
        /\ \/ /\ pc' = "done" /\ step' = step /\ (step = 4 \/ (~ok /\ profile.aborts))
           \/ /\ step \in 1..3 /\ step' = step + 1 /\ (ok \/ ~profile.aborts)
              /\ pc' = IF profile.reconciles /\ step' = 3 THEN "probe" ELSE "attempt"
    BY <1>0, <2>6, EndOfStep
  <2>8. \A i \in 1..4 : Over(i)' <=> Over(i) \/ i = step
    BY <1>0, <2>7 DEF Over, Ended
  <2>9. Tried' = n + 1
    BY <1>0, <2>3, <2>7 DEF Tried, Upto, Ended
  <2>10. failed' = {i \in 1..4 : Over(i)' /\ ~Reached(i)}
    BY <1>0, <1>3, <2>6, <2>7, <2>8
  <2>11. profile.aborts => \A i \in 1..4 : i < step' => Reached(i)
    BY <1>0, <1>3, <2>6, <2>7
  <2>12. pc' \in Ended => Final(step)'
    BY <1>0, <1>2, <1>3, <2>6, <2>7 DEF Final, Ended
  <2>13. pc' # "reprobe" /\ n + 1 \in Nat
    BY <2>7
  <2>. QED
    BY <2>4, <2>7, <2>9, <2>10, <2>11, <2>12, <2>13
<1>. QED
  BY <1>3, <1>5, <1>6 DEF AgentStep, Reprobe

LEMMA NextPlain ==
  ASSUME Typed, Plain, [Next]_vars
  PROVE  Plain'
<1>0. RunTyped /\ AgentTyped /\ budget \in Nat /\ others \in Nat
  BY ProfileType DEF Typed, RunTyped
<1>1. CASE AgentStep
  BY <1>1, AgentKeepsPlain
<1>2. CASE BaselineEnds
  <2>1. /\ db' = FreshWorld.db /\ counts' = FreshWorld.counts /\ calls' = FreshWorld.calls
        /\ trace' = FreshWorld.trace /\ others' = 0 /\ step' = 1 /\ attempt' = 1
        /\ failed' = {} /\ budget' = budget /\ pc' = "attempt"
    BY <1>2, FirstMoves DEF BaselineEnds, Becomes, experiment
  <2>2. Fresh'
    BY <2>1 DEF Fresh, FreshWorld
  <2>3. Beginning'
    BY <1>0, <2>1, <2>2 DEF Beginning, Ended
  <2>. QED
    BY <2>3, NextBeginningIsPlain
<1>3. CASE (\E r \in FaultRules : Declare(r)) \/ RunStarts
  <2>1. /\ pc = "declared" /\ pc' \in {"declared", "attempt"} /\ budget' = budget
        /\ UNCHANGED <<world, others, step, attempt, probed, failed>>
    BY <1>3, FirstMoves DEF Declare, RunStarts, agent, experiment, world
  <2>2. Fresh /\ step = 1 /\ attempt = 1 /\ failed = {}
    BY <1>0, <1>3, <2>1, FirstMoves DEF AgentTyped, RunStarts
  <2>3. Fresh'
    BY <2>1, <2>2 DEF Fresh, FreshWorld, world
  <2>4. Beginning'
    BY <1>0, <2>1, <2>2, <2>3 DEF Beginning, Ended
  <2>. QED
    BY <2>4, NextBeginningIsPlain
<1>4. CASE OtherWriter
  <2>1. /\ UNCHANGED <<profile, budget, mode, counts, calls, trace, pc, step, attempt, failed>>
        /\ db' = RestoreInventory(db, sku, 1).db /\ others' = others + 1
    BY <1>4 DEF OtherWriter, agent, experiment
  <2>2. /\ Tried' = Tried /\ (\A i : Over(i)' <=> Over(i)) /\ (\A i : Reached(i)' <=> Reached(i))
        /\ \A s : Final(s)' <=> Final(s)
    BY <2>1 DEF Tried, Upto, Over, Reached, Final
  <2>3. ASSUME NEW n, PlainWorld(n) PROVE PlainWorld(n)'
    <3> PICK tools : tools = ToolsOf(trace)
      OBVIOUS
    <3>1. /\ trace' = PlainTrace(Through(n)) /\ calls' = Through(n)
          /\ counts' = [t \in Tools |-> IF t \in tools THEN 1 ELSE 0]
          /\ db = After(tools, others)
      BY <2>1, <2>3 DEF PlainWorld
    <3>2. db' = After(tools, others')
      BY <1>0, <2>1, <3>1, OthersAdd
    <3>3. /\ Through(n)' = Through(n) /\ PlainTrace(Through(n))' = PlainTrace(Through(n))
          /\ \A all, added : After(all, added)' = After(all, added)
      BY <2>1, PlainIsFixed
    <3>4. ToolsOf(trace)' = tools
      BY <2>1 DEF ToolsOf
    <3>. QED
      BY <3>1, <3>2, <3>3, <3>4 DEF PlainWorld
  <2>4. Fired(trace)' = Fired(trace)
    BY <2>1 DEF Fired
  <2>. QED
    BY <2>1, <2>2, <2>3, <2>4 DEF Plain
<1>5. CASE FaultedEnds \/ UNCHANGED vars
  <2>1. /\ UNCHANGED <<profile, budget, mode, counts, calls, trace, db, others, step, attempt, failed>>
        /\ pc' = pc \/ (pc = "done" /\ pc' = "reported")
    BY <1>5 DEF FaultedEnds, vars, world, agent, experiment
  <2>2. pc' \in Ended <=> pc \in Ended
    BY <2>1 DEF Ended
  <2>3. /\ Tried' = Tried /\ (\A i : Over(i)' <=> Over(i)) /\ (\A i : Reached(i)' <=> Reached(i))
        /\ \A s : Final(s)' <=> Final(s)
    BY <2>1, <2>2 DEF Tried, Upto, Over, Reached, Final
  <2>4. ASSUME NEW n, PlainWorld(n) PROVE PlainWorld(n)'
    <3> PICK tools : tools = ToolsOf(trace)
      OBVIOUS
    <3>1. /\ trace' = PlainTrace(Through(n)) /\ calls' = Through(n)
          /\ counts' = [t \in Tools |-> IF t \in tools THEN 1 ELSE 0]
          /\ db' = After(tools, others')
      BY <2>1, <2>4 DEF PlainWorld
    <3>2. /\ Through(n)' = Through(n) /\ PlainTrace(Through(n))' = PlainTrace(Through(n))
          /\ \A all, added : After(all, added)' = After(all, added)
      BY <2>1, PlainIsFixed
    <3>3. ToolsOf(trace)' = tools
      BY <2>1 DEF ToolsOf
    <3>. QED
      BY <3>1, <3>2, <3>3 DEF PlainWorld
  <2>5. Fired(trace)' = Fired(trace)
    BY <2>1 DEF Fired
  <2>. QED
    BY <2>1, <2>2, <2>3, <2>4, <2>5 DEF Plain
<1>. QED
  BY <1>1, <1>2, <1>3, <1>4, <1>5 DEF Next, Proceed

\* The report of such a run, of an agent that stops at step s: the profile and the budget
\* determine it, and what others added.
PlainReport(s, added) ==
  LET t == PlainTrace(Through(Upto(s)))
      d == After(ToolsOf(t), added)
  IN  [broken |-> Broken(d, t),
       claims |-> {i \in 1..4 : i <= s /\ ~Reached(i)} = {} \/ ~profile.honest,
       db |-> d, trace |-> t,
       counts |-> [tool \in Tools |-> IF tool \in ToolsOf(t) THEN 1 ELSE 0],
       others |-> added, fired |-> {}]

Reported ==
  /\ mode = "faulted" =>
       \E s \in 1..4 : Final(s) /\ reports["baseline"] = PlainReport(s, reports["baseline"].others)
  /\ reports["faulted"] # None =>
       /\ mode = "faulted"
       /\ reports["faulted"].fired = {} =>
            \E s \in 1..4 :
              Final(s) /\ reports["faulted"] = PlainReport(s, reports["faulted"].others)

LEMMA PlainIsReported ==
  ASSUME Typed, Plain, pc = "done", Fired(trace) = {}
  PROVE  Final(step) /\ step \in 1..4 /\ Report = PlainReport(step, others)
<1>1. pc \in Ended /\ step \in 1..4
  BY DEF Ended, Typed, AgentTyped
<1>2. PICK n \in Nat : n = Tried /\ PlainWorld(n)
  BY DEF Plain
<1>3. n = Upto(step)
  BY <1>1, <1>2 DEF Tried
<1>4. /\ trace = PlainTrace(Through(Upto(step)))
      /\ counts = [t \in Tools |-> IF t \in ToolsOf(trace) THEN 1 ELSE 0]
      /\ db = After(ToolsOf(trace), others)
  BY <1>2, <1>3 DEF PlainWorld
<1>5. failed = {i \in 1..4 : i <= step /\ ~Reached(i)}
  <2>1. \A i \in 1..4 : Over(i) <=> i <= step
    BY <1>1 DEF Over
  <2>2. failed = {i \in 1..4 : Over(i) /\ ~Reached(i)}
    BY DEF Plain
  <2>. QED
    BY <2>1, <2>2
<1>6. Final(step)
  BY <1>1 DEF Plain
<1>7. Report = PlainReport(step, others)
  BY <1>4, <1>5 DEF Report, PlainReport, ClaimsSuccess
<1>. QED
  BY <1>1, <1>6, <1>7

LEMMA NextReported ==
  ASSUME Typed, Plain, Reported, [Next]_vars
  PROVE  Reported'
<1>0. profile' = profile /\ budget' = budget /\ AgentTyped
  BY DEF Next, Proceed, Declare, RunStarts, AgentStep, BaselineEnds, FaultedEnds, OtherWriter,
         vars, experiment, Typed
<1>1. \A s : Final(s)' <=> Final(s)
  BY <1>0 DEF Final, Reached, Upto
<1>2. ASSUME NEW s, NEW added PROVE PlainReport(s, added)' = PlainReport(s, added)
  <2>1. Upto(s)' = Upto(s) /\ PlainTrace(Through(Upto(s)))' = PlainTrace(Through(Upto(s)))
        /\ \A tools, more : After(tools, more)' = After(tools, more)
    BY <1>0, PlainIsFixed
  <2>2. \A i : Reached(i)' <=> Reached(i)
    BY <1>0 DEF Reached, Upto
  <2> PICK t : t = PlainTrace(Through(Upto(s)))
    OBVIOUS
  <2> PICK failures : failures = {i \in 1..4 : i <= s /\ ~Reached(i)}
    OBVIOUS
  <2>3. {i \in 1..4 : i <= s /\ ~Reached(i)'} = failures
    BY <2>2
  <2>4. ToolsOf(t)' = ToolsOf(t)
    BY DEF ToolsOf
  <2>. QED
    BY <1>0, <2>1, <2>3, <2>4 DEF PlainReport
<1>3. CASE BaselineEnds
  <2>1. /\ reports'["baseline"] = Report /\ reports'["faulted"] = reports["faulted"]
        /\ mode' = "faulted" /\ pc = "done" /\ mode = "baseline"
    BY <1>0, <1>3 DEF BaselineEnds, AgentTyped, Modes
  <2>2. Fired(trace) = {} /\ reports["faulted"] = None
    BY <2>1 DEF Plain, Reported
  <2>3. Final(step) /\ step \in 1..4 /\ Report = PlainReport(step, others) /\ Report.others = others
    BY <2>1, <2>2, PlainIsReported DEF Report
  <2> PICK s \in 1..4 : s = step
    BY <2>3
  <2> PICK added : added = others
    OBVIOUS
  <2>4. Final(s)' /\ reports'["baseline"] = PlainReport(s, added)'
        /\ reports'["baseline"].others = added
    BY <1>1, <1>2, <2>1, <2>3
  <2>. QED
    BY <2>1, <2>2, <2>4 DEF Reported
<1>4. CASE FaultedEnds
  <2>1. /\ reports'["faulted"] = Report /\ reports'["baseline"] = reports["baseline"]
        /\ mode' = "faulted" /\ pc = "done" /\ mode = "faulted"
    BY <1>0, <1>4 DEF FaultedEnds, AgentTyped, Modes
  <2>2. PICK s \in 1..4 :
          Final(s) /\ reports["baseline"] = PlainReport(s, reports["baseline"].others)
    BY <2>1 DEF Reported
  <2> PICK before : before = reports["baseline"].others
    OBVIOUS
  <2>3. Final(s)' /\ reports'["baseline"] = PlainReport(s, before)'
        /\ reports'["baseline"].others = before
    BY <1>1, <1>2, <2>1, <2>2
  <2>4. ASSUME reports'["faulted"].fired = {}
        PROVE  \E u \in 1..4 : /\ Final(u)'
                               /\ \E added : /\ reports'["faulted"] = PlainReport(u, added)'
                                             /\ reports'["faulted"].others = added
    <3>1. Fired(trace) = {}
      BY <2>1, <2>4 DEF Report
    <3>2. Final(step) /\ step \in 1..4 /\ Report = PlainReport(step, others) /\ Report.others = others
      BY <2>1, <3>1, PlainIsReported DEF Report
    <3> PICK u \in 1..4 : u = step
      BY <3>2
    <3> PICK added : added = others
      OBVIOUS
    <3>3. Final(u)' /\ reports'["faulted"] = PlainReport(u, added)'
          /\ reports'["faulted"].others = added
      BY <1>1, <1>2, <2>1, <3>2
    <3>. QED
      BY <3>3
  <2>. QED
    BY <2>1, <2>3, <2>4 DEF Reported
<1>5. CASE ~BaselineEnds /\ ~FaultedEnds
  <2>1. reports' = reports /\ mode' = mode
    BY <1>5 DEF Next, Proceed, Declare, RunStarts, AgentStep, OtherWriter, vars
  <2>2. \A m \in Modes : \A s : (reports[m] = PlainReport(s, reports[m].others))' <=>
                                reports[m] = PlainReport(s, reports[m].others)
    <3> SUFFICES ASSUME NEW m \in Modes, NEW s
                 PROVE  (reports[m] = PlainReport(s, reports[m].others))' <=>
                        reports[m] = PlainReport(s, reports[m].others)
      OBVIOUS
    <3> PICK added : added = reports[m].others
      OBVIOUS
    <3>1. PlainReport(s, added)' = PlainReport(s, added)
      BY <1>2
    <3>. QED
      BY <2>1, <3>1
  <2>. QED
    BY <1>1, <2>1, <2>2 DEF Reported, Modes
<1>. QED
  BY <1>3, <1>4, <1>5

\* The profile and the budget alone say where such an agent stops.
LEMMA OneFinal ==
  ASSUME NEW s \in 1..4, NEW u \in 1..4, Final(s), Final(u)
  PROVE  s = u
<1>1. ASSUME NEW x \in 1..4, NEW y \in 1..4, Final(x), Final(y), x < y PROVE FALSE
  <2>1. profile.aborts /\ ~Reached(x)
    BY <1>1 DEF Final
  <2>. QED
    BY <1>1, <2>1 DEF Final
<1>. QED
  BY <1>1

\* If no rule fired in the faulted run, its calls and its claim are those of the baseline,
\* and so is the state that it left and all the rest of its report, what others added aside;
\* for every profile, every set of rules and every budget.
THEOREM FaultsIsolated == Spec => []FaultsAreIsolated
<1>1. Init => Plain /\ Reported
  <2>1. Init => Beginning
    BY BoundsAssumption DEF Init, Beginning, Fresh, Ended
  <2>2. Init => Reported
    BY DEF Init, Reported, Modes
  <2>. QED
    BY <2>1, <2>2, BeginningIsPlain
<1>2. Reported => FaultsAreIsolated
  <2> SUFFICES ASSUME Reported, reports["faulted"] # None, reports["faulted"].fired = {}
               PROVE  /\ reports["faulted"].trace = reports["baseline"].trace
                      /\ reports["faulted"].claims = reports["baseline"].claims
                      /\ reports["faulted"].others = reports["baseline"].others =>
                           reports["faulted"] = reports["baseline"]
    BY DEF FaultsAreIsolated
  <2> PICK b : b = reports["baseline"]
    OBVIOUS
  <2> PICK f : f = reports["faulted"]
    OBVIOUS
  <2>1. PICK s \in 1..4 : Final(s) /\ b = PlainReport(s, b.others)
    BY DEF Reported
  <2>2. PICK u \in 1..4 : Final(u) /\ f = PlainReport(u, f.others)
    BY DEF Reported
  <2>3. u = s
    BY <2>1, <2>2, OneFinal
  <2>4. \A x, y : /\ PlainReport(s, x).trace = PlainReport(s, y).trace
                  /\ PlainReport(s, x).claims = PlainReport(s, y).claims
    BY DEF PlainReport
  <2>. QED
    BY <2>1, <2>2, <2>3, <2>4
<1>3. Typed /\ Plain /\ Reported /\ [Next]_vars => (Typed /\ Plain /\ Reported)'
  BY NextTypes, NextPlain, NextReported
<1>. QED
  BY <1>1, <1>2, <1>3, InitTypes, PTL DEF Spec

-----------------------------------------------------------------------------
\* How long an experiment can last.

\* The calls of a run at most: the attempts of each of the four steps and, at the third, a
\* probe before each of them.
MostCalls == 5 * profile.attempts

LeftInStep ==
  IF step = 3
  THEN 2 * (profile.attempts - attempt) + IF pc = "attempt" THEN 1 ELSE 2
  ELSE profile.attempts - attempt + 1
LeftAfter == IF step = 1 THEN 4 ELSE IF step = 2 THEN 3 ELSE IF step = 3 THEN 1 ELSE 0
CallsLeft == IF pc \in Running THEN LeftInStep + LeftAfter * profile.attempts ELSE 0

\* The steps of agent and runner that an experiment can still take.
StepsLeft ==
  (IF pc = "reported" THEN 0
   ELSE IF pc = "done" THEN 1
   ELSE IF pc = "declared" THEN MostCalls + 2
   ELSE CallsLeft + 1)
  + IF mode = "baseline" THEN MostCalls + 1 ELSE 0

\* The attempts made at a step of the script so far, at most.
Attempts(i) ==
  IF i < step \/ pc \in Ended THEN profile.attempts ELSE IF i = step THEN attempt - 1 ELSE 0

Paced ==
  /\ \A i \in 1..4 : counts[Script[i]] <= Attempts(i)
  /\ counts[ProbeTool] <= Attempts(3) + IF step = 3 /\ pc = "attempt" THEN 1 ELSE 0
  /\ calls + CallsLeft <= MostCalls

\* Where an agent can be after a call.
Goes ==
  \/ pc # "probe" /\ pc' = "done" /\ step' = step /\ attempt' = 1
  \/ /\ pc # "probe" /\ step \in 1..3 /\ step' = step + 1 /\ attempt' = 1
     /\ pc' = "attempt" \/ (pc' = "probe" /\ step' = 3)
  \/ /\ pc = "attempt" /\ step' = step
     /\ attempt < profile.attempts /\ attempt' = attempt + 1
     /\ pc' = "attempt" \/ (pc' = "reprobe" /\ step = 3)
  \/ pc \in {"probe", "reprobe"} /\ pc' = "attempt" /\ step' = step /\ attempt' = attempt

LEMMA AgentGoes ==
  ASSUME Typed, AgentStep
  PROVE  /\ Goes /\ pc \in Running
         /\ Becomes(GatewayCall(IF pc = "attempt" THEN Script[step] ELSE ProbeTool))
<1>1. RunTyped /\ AgentTyped /\ step \in 1..4
  BY DEF Typed, AgentTyped
<1>2. CASE Probe
  BY <1>2 DEF Probe, Goes, Running
<1>3. CASE Reprobe
  <2>1. CASE StepEnds(TRUE)
    BY <1>1, <1>3, <2>1, EndOfStep DEF Reprobe, Goes, Running
  <2>2. CASE pc' = "attempt" /\ UNCHANGED <<step, attempt, probed, failed>>
    BY <1>3, <2>2 DEF Reprobe, Goes, Running
  <2>. QED
    BY <1>3, <2>1, <2>2 DEF Reprobe
<1>4. CASE Attempt
  <2>1. CASE StepEnds(TRUE)
    BY <1>1, <1>4, <2>1, EndOfStep DEF Attempt, Goes, Running
  <2>2. CASE StepEnds(FALSE)
    BY <1>1, <1>4, <2>2, EndOfStep DEF Attempt, Goes, Running
  <2>3. CASE /\ attempt < profile.attempts /\ attempt' = attempt + 1
             /\ pc' = IF Reconciles(step) /\ probed # None THEN "reprobe" ELSE "attempt"
             /\ UNCHANGED <<step, probed, failed>>
    BY <1>1, <1>4, <2>3, FirstMoves DEF Attempt, Goes, Running
  <2>. QED
    BY <1>4, <2>1, <2>2, <2>3 DEF Attempt, MayRetry
<1>. QED
  BY <1>2, <1>3, <1>4 DEF AgentStep

\* One call at most, and one of its tool only.
LEMMA CallCounts ==
  ASSUME RunTyped, NEW tool \in Tools, Becomes(GatewayCall(tool))
  PROVE  /\ counts \in [Tools -> Nat] /\ calls \in Nat
         /\ calls' \in {calls, calls + 1}
         /\ \A t \in Tools : counts'[t] <= counts[t] + IF t = tool THEN 1 ELSE 0
<1> PICK call : call = GatewayCall(tool)
  OBVIOUS
<1>1. counts' = call.counts /\ calls' = call.calls
  BY DEF Becomes
<1>2. counts \in [Tools -> Nat] /\ calls \in Nat
  BY ProfileType DEF RunTyped
<1>3. CASE IsRefused(call)
  BY <1>1, <1>2, <1>3 DEF IsRefused
<1>4. ASSUME NEW entry \in Records, IsMade(call, tool, entry)
      PROVE  /\ calls' \in {calls, calls + 1}
             /\ \A t \in Tools : counts'[t] <= counts[t] + IF t = tool THEN 1 ELSE 0
  BY <1>1, <1>2, <1>4 DEF IsMade
<1>. QED
  BY <1>2, <1>3, <1>4, Calling

LEMMA LeftType ==
  ASSUME Typed
  PROVE  /\ profile.attempts \in Nat \ {0} /\ attempt \in 1..profile.attempts
         /\ MostCalls \in Nat /\ MostCalls >= 5
         /\ CallsLeft \in 0..MostCalls
         /\ pc \in Running => CallsLeft >= 1
<1> PICK a : a = profile.attempts
  OBVIOUS
<1>1. a \in Nat \ {0} /\ attempt \in 1..a /\ step \in 1..4
  BY ProfileType DEF Typed, AgentTyped
<1>2. 5 * a \in Nat /\ 5 * a >= 5 /\ 5 * a = a + 4 * a
  BY <1>1
<1>3. LeftInStep \in Nat /\ LeftInStep >= 1
      /\ LeftInStep <= IF step = 3 THEN 2 * a ELSE a
  BY <1>1 DEF LeftInStep
<1>4. step = 1 \/ step = 2 \/ step = 3 \/ step = 4
  BY <1>1
<1>5. LeftInStep + LeftAfter * a \in 1..(5 * a)
  BY <1>1, <1>3, <1>4 DEF LeftAfter
<1>. QED
  BY <1>1, <1>2, <1>5 DEF MostCalls, CallsLeft

\* Every call leaves fewer.
LEMMA CallsGetFewer ==
  ASSUME Typed, AgentStep
  PROVE  CallsLeft' < CallsLeft /\ CallsLeft' \in Nat
<1> PICK a : a = profile.attempts
  OBVIOUS
<1>1. a \in Nat \ {0} /\ attempt \in 1..a /\ step \in 1..4 /\ profile'.attempts = a
  BY ProfileType DEF Typed, AgentTyped, AgentStep, experiment
<1>2. Goes /\ pc \in Running /\ CallsLeft \in Nat /\ CallsLeft >= 1
  BY AgentGoes, LeftType
<1>3. pc \in {"probe", "reprobe"} => step = 3
  BY DEF Typed, AgentTyped
<1>4. step = 1 \/ step = 2 \/ step = 3 \/ step = 4
  BY <1>1
<1>5. CallsLeft = LeftInStep + LeftAfter * a
  BY <1>2 DEF CallsLeft
<1>6. CASE pc' = "done"
  BY <1>2, <1>6 DEF CallsLeft, Running
<1>7. CASE pc' # "done"
  <2>1. pc' \in Running
    BY <1>2, <1>7 DEF Goes, Running
  <2>2. CallsLeft' = LeftInStep' + LeftAfter' * a
    BY <1>1, <2>1 DEF CallsLeft
  <2>3. CASE step \in 1..3 /\ step' = step + 1 /\ attempt' = 1
             /\ (pc' = "attempt" \/ (pc' = "probe" /\ step' = 3))
    <3>1. LeftInStep >= 1 /\ LeftInStep \in Nat
      BY <1>1 DEF LeftInStep
    <3>2. LeftInStep' \in Nat /\ LeftInStep' <= IF step = 2 THEN 2 * a ELSE a
      BY <1>1, <1>4, <2>3 DEF LeftInStep
    <3>. QED
      BY <1>1, <1>4, <1>5, <2>2, <2>3, <3>1, <3>2 DEF LeftAfter
  <2>4. CASE step' = step /\ ~(step' = step + 1)
    <3>1. LeftInStep' < LeftInStep /\ LeftInStep \in Nat /\ LeftInStep' \in Nat
      <4>1. CASE pc = "attempt" /\ attempt < a /\ attempt' = attempt + 1
        BY <1>1, <2>4, <4>1 DEF LeftInStep
      <4>2. CASE pc \in {"probe", "reprobe"} /\ pc' = "attempt" /\ attempt' = attempt
        BY <1>1, <1>3, <2>4, <4>2 DEF LeftInStep
      <4>. QED
        BY <1>2, <1>7, <2>4, <4>1, <4>2 DEF Goes
    <3>. QED
      BY <1>1, <1>4, <1>5, <2>2, <2>4, <3>1 DEF LeftAfter
  <2>. QED
    BY <1>1, <1>2, <1>7, <2>3, <2>4 DEF Goes
<1>. QED
  BY <1>6, <1>7

LEMMA AgentKeepsPace ==
  ASSUME Typed, Paced, AgentStep
  PROVE  Paced'
<1> PICK a : a = profile.attempts
  OBVIOUS
<1>1. a \in Nat \ {0} /\ attempt \in 1..a /\ step \in 1..4 /\ profile' = profile
  BY ProfileType DEF Typed, AgentTyped, AgentStep, experiment
<1>2. Goes /\ pc \in Running
  BY AgentGoes
<1>3. pc \in {"probe", "reprobe"} => step = 3
  BY DEF Typed, AgentTyped
<1> PICK tool : tool = IF pc = "attempt" THEN Script[step] ELSE ProbeTool
  OBVIOUS
<1>4. tool \in Tools
  BY <1>1, ScriptFacts
<1>5. /\ counts \in [Tools -> Nat] /\ calls \in Nat /\ calls' \in {calls, calls + 1}
      /\ \A t \in Tools : counts'[t] <= counts[t] + IF t = tool THEN 1 ELSE 0
  BY <1>4, AgentGoes, CallCounts DEF Typed
<1>6. counts' \in [Tools -> Nat]
  BY NextTypes DEF Next, Proceed, Typed, RunTyped
<1>7. calls' + CallsLeft' <= MostCalls'
  BY <1>1, <1>5, LeftType, CallsGetFewer DEF Paced, MostCalls
<1>8. ASSUME NEW i \in 1..4 PROVE counts'[Script[i]] <= Attempts(i)'
  <2>1. Script[i] \in Tools /\ (Script[i] = tool <=> pc = "attempt" /\ i = step)
    <3>1. step = 1 \/ step = 2 \/ step = 3 \/ step = 4
      BY <1>1
    <3>2. i = 1 \/ i = 2 \/ i = 3 \/ i = 4
      OBVIOUS
    <3>. QED
      BY <3>1, <3>2, ScriptFacts
  <2>2. /\ counts[Script[i]] <= Attempts(i) /\ counts[Script[i]] \in Nat
        /\ counts'[Script[i]] \in Nat
        /\ counts'[Script[i]] <= counts[Script[i]] + IF pc = "attempt" /\ i = step THEN 1 ELSE 0
    BY <1>5, <1>6, <2>1 DEF Paced
  <2>3. Attempts(i) = IF i < step THEN a ELSE IF i = step THEN attempt - 1 ELSE 0
    BY <1>2 DEF Attempts, Running, Ended
  <2>4. Attempts(i)' = IF i < step' \/ pc' \in Ended THEN a ELSE IF i = step' THEN attempt' - 1 ELSE 0
    BY <1>1 DEF Attempts
  <2>5. Attempts(i)' \in Nat
        /\ Attempts(i)' >= Attempts(i) + IF pc = "attempt" /\ i = step THEN 1 ELSE 0
    BY <1>1, <1>2, <1>3, <2>3, <2>4 DEF Goes, Running, Ended
  <2>6. Attempts(i) \in Nat
    BY <1>1, <2>3
  <2>. QED
    BY <2>2, <2>5, <2>6
<1>9. counts'[ProbeTool] <= (Attempts(3) + IF step = 3 /\ pc = "attempt" THEN 1 ELSE 0)'
  <2>1. ProbeTool \in Tools /\ (ProbeTool = tool <=> pc # "attempt")
    BY <1>1, ScriptFacts
  <2>2. /\ counts[ProbeTool] <= Attempts(3) + IF step = 3 /\ pc = "attempt" THEN 1 ELSE 0
        /\ counts[ProbeTool] \in Nat /\ counts'[ProbeTool] \in Nat
        /\ counts'[ProbeTool] <= counts[ProbeTool] + IF pc # "attempt" THEN 1 ELSE 0
    BY <1>5, <1>6, <2>1 DEF Paced
  <2>3. Attempts(3) = IF 3 < step THEN a ELSE IF 3 = step THEN attempt - 1 ELSE 0
    BY <1>2 DEF Attempts, Running, Ended
  <2>4. Attempts(3)' = IF 3 < step' \/ pc' \in Ended THEN a ELSE IF 3 = step' THEN attempt' - 1 ELSE 0
    BY <1>1 DEF Attempts
  <2>5. LET before == Attempts(3) + IF step = 3 /\ pc = "attempt" THEN 1 ELSE 0
            after == (Attempts(3) + IF step = 3 /\ pc = "attempt" THEN 1 ELSE 0)'
        IN  /\ before \in Nat /\ after \in Nat
            /\ after >= before + IF pc # "attempt" THEN 1 ELSE 0
    BY <1>1, <1>2, <1>3, <2>3, <2>4 DEF Goes, Running, Ended
  <2>. QED
    BY <2>2, <2>5
<1>. QED
  BY <1>7, <1>8, <1>9 DEF Paced

\* A run that has not made a call.
LEMMA FreshIsPaced ==
  ASSUME Typed, counts = [t \in Tools |-> 0], calls = 0
  PROVE  Paced
<1> PICK a : a = profile.attempts
  OBVIOUS
<1>1. a \in Nat \ {0} /\ attempt \in 1..a
  BY LeftType
<1>2. \A i \in 1..4 : counts[Script[i]] = 0 /\ Attempts(i) \in Nat
  BY <1>1, ScriptFacts DEF Attempts
<1>3. counts[ProbeTool] = 0
  BY ScriptFacts
<1>. QED
  BY <1>2, <1>3, LeftType DEF Paced

LEMMA NextFreshIsPaced ==
  (Typed /\ counts = [t \in Tools |-> 0] /\ calls = 0)' => Paced'
<1>1. Typed /\ counts = [t \in Tools |-> 0] /\ calls = 0 => Paced
  BY FreshIsPaced
<1>. QED
  BY <1>1, PTL

\* What the other steps make of the measure.
LEMMA OtherSteps ==
  ASSUME Typed
  PROVE  /\ (\E r \in FaultRules : Declare(r)) \/ OtherWriter \/ UNCHANGED vars =>
              UNCHANGED <<profile, mode, counts, calls, pc, step, attempt>>
         /\ RunStarts =>
              /\ UNCHANGED <<profile, mode, counts, calls, step, attempt>>
              /\ pc = "declared" /\ pc' = "attempt" /\ step = 1 /\ attempt = 1
         /\ BaselineEnds =>
              /\ profile' = profile /\ mode = "baseline" /\ mode' = "faulted" /\ pc = "done"
              /\ pc' = "attempt" /\ step' = 1 /\ attempt' = 1
              /\ counts' = [t \in Tools |-> 0] /\ calls' = 0
         /\ FaultedEnds =>
              /\ UNCHANGED <<profile, mode, counts, calls, step, attempt>>
              /\ pc = "done" /\ pc' = "reported"
<1>1. FirstMove(1) = "attempt"
  BY FirstMoves
<1>2. (\E r \in FaultRules : Declare(r)) \/ OtherWriter \/ UNCHANGED vars =>
        UNCHANGED <<profile, mode, counts, calls, pc, step, attempt>>
  BY DEF Declare, OtherWriter, vars, experiment, world, agent
<1>3. RunStarts => /\ UNCHANGED <<profile, mode, counts, calls, step, attempt>>
                   /\ pc = "declared" /\ pc' = "attempt" /\ step = 1 /\ attempt = 1
  BY <1>1 DEF RunStarts, experiment, world, Typed, AgentTyped
<1>4. BaselineEnds =>
        /\ profile' = profile /\ mode = "baseline" /\ mode' = "faulted" /\ pc = "done"
        /\ pc' = "attempt" /\ step' = 1 /\ attempt' = 1
        /\ counts' = [t \in Tools |-> 0] /\ calls' = 0
  BY <1>1 DEF BaselineEnds, experiment, Becomes, FreshWorld
<1>5. FaultedEnds => /\ UNCHANGED <<profile, mode, counts, calls, step, attempt>>
                     /\ pc = "done" /\ pc' = "reported"
  BY DEF FaultedEnds, experiment, world
<1>. QED
  BY <1>2, <1>3, <1>4, <1>5

LEMMA NextPaced ==
  ASSUME Typed, Paced, [Next]_vars
  PROVE  Paced'
<1>1. CASE AgentStep
  BY <1>1, AgentKeepsPace
<1>2. CASE (\E r \in FaultRules : Declare(r)) \/ OtherWriter \/ UNCHANGED vars
  <2>1. UNCHANGED <<profile, mode, counts, calls, pc, step, attempt>>
    BY <1>2, OtherSteps
  <2>. QED
    BY <2>1 DEF Paced, Attempts, CallsLeft, LeftInStep, LeftAfter, MostCalls
<1>3. CASE RunStarts
  <2>1. Typed' /\ counts' = counts /\ calls' = calls
    BY <1>3, OtherSteps, NextTypes DEF Next, Proceed
  <2>2. pc = "declared"
    BY <1>3, OtherSteps
  <2>3. counts = [t \in Tools |-> 0] /\ calls = 0
    BY <2>2 DEF Typed, AgentTyped, Fresh, FreshWorld
  <2>. QED
    BY <2>1, <2>3, NextFreshIsPaced
<1>4. CASE BaselineEnds
  <2>1. Typed' /\ counts' = [t \in Tools |-> 0] /\ calls' = 0
    BY <1>4, OtherSteps, NextTypes DEF Next, Proceed
  <2>. QED
    BY <2>1, NextFreshIsPaced
<1>5. CASE FaultedEnds
  <2>1. /\ UNCHANGED <<profile, counts, calls, step, attempt>>
        /\ pc = "done" /\ pc' = "reported"
    BY <1>5, OtherSteps
  <2>2. \A i \in 1..4 : Attempts(i)' = Attempts(i)
    BY <2>1 DEF Attempts, Ended
  <2>3. CallsLeft' = CallsLeft /\ MostCalls' = MostCalls
    BY <2>1 DEF CallsLeft, Running, MostCalls
  <2>. QED
    BY <2>1, <2>2, <2>3 DEF Paced
<1>. QED
  BY <1>1, <1>2, <1>3, <1>4, <1>5 DEF Next, Proceed

LEMMA Pace == Spec => [](Typed /\ Paced)
<1>1. Init => Paced
  BY InitTypes, FreshIsPaced DEF Init, FreshWorld
<1>. QED
  BY <1>1, InitTypes, NextTypes, NextPaced, PTL DEF Spec

\* No tool is called more often in a run than the agent has attempts, the probe of an agent
\* that reconciles included, and no run makes more than five times as many calls; whatever
\* the budget, the faults and what others restore.
RetriesAreBounded ==
  /\ \A tool \in Tools : counts[tool] <= profile.attempts
  /\ calls <= MostCalls

\* The retries of an agent are bounded by its policy alone.
THEOREM RetriesBounded == Spec => []RetriesAreBounded
<1>1. Typed /\ Paced => RetriesAreBounded
  <2> SUFFICES ASSUME Typed, Paced PROVE RetriesAreBounded
    OBVIOUS
  <2>1. counts \in [Tools -> Nat] /\ calls \in Nat /\ step \in 1..4
    BY ProfileType DEF Typed, RunTyped, AgentTyped
  <2>2. /\ profile.attempts \in Nat \ {0} /\ attempt \in 1..profile.attempts
        /\ CallsLeft \in Nat /\ MostCalls \in Nat
    BY LeftType
  <2>3. \A i \in 1..4 : Attempts(i) \in 0..profile.attempts
    BY <2>2 DEF Attempts
  <2>4. step = 3 /\ pc = "attempt" => Attempts(3) = attempt - 1
    BY DEF Attempts, Ended
  <2>5. \A i \in 1..4 : counts[Script[i]] <= profile.attempts
    BY <2>1, <2>2, <2>3, ScriptFacts DEF Paced
  <2>6. counts[ProbeTool] <= profile.attempts
    BY <2>1, <2>2, <2>3, <2>4, ScriptFacts DEF Paced
  <2>7. \A tool \in Tools : tool = ProbeTool \/ \E i \in 1..4 : tool = Script[i]
    BY ScriptFacts DEF Tools
  <2>. QED
    BY <2>1, <2>2, <2>5, <2>6, <2>7 DEF Paced, RetriesAreBounded
<1>. QED
  BY <1>1, Pace, PTL

LEMMA StepsGetFewer ==
  ASSUME Typed, [Next]_vars
  PROVE  IF Proceed THEN StepsLeft' < StepsLeft ELSE StepsLeft' = StepsLeft
<1>1. MostCalls \in Nat /\ MostCalls >= 5 /\ CallsLeft \in 0..MostCalls
  BY LeftType
<1>2. CASE AgentStep
  <2>1. /\ CallsLeft' < CallsLeft /\ CallsLeft' \in Nat
        /\ mode' = mode /\ profile' = profile
    BY <1>2, CallsGetFewer DEF AgentStep, experiment
  <2>2. pc \in Running /\ pc' \in Running \cup {"done"}
    BY <1>2, AgentGoes DEF Goes, Running
  <2>3. StepsLeft' < StepsLeft
    BY <1>1, <2>1, <2>2 DEF StepsLeft, MostCalls, Running
  <2>. QED
    BY <1>2, <2>3 DEF Proceed
<1>3. CASE RunStarts
  <2>1. StepsLeft = MostCalls + 2 + IF mode = "baseline" THEN MostCalls + 1 ELSE 0
    BY <1>3, OtherSteps DEF StepsLeft
  <2>2. pc' = "attempt" /\ mode' = mode /\ MostCalls' = MostCalls
    BY <1>3, OtherSteps DEF MostCalls
  <2>3. /\ profile.attempts \in Nat \ {0} /\ profile' = profile
        /\ step' = 1 /\ attempt' = 1
    BY <1>3, OtherSteps, LeftType
  <2>4. CallsLeft' = MostCalls
    BY <2>2, <2>3 DEF CallsLeft, LeftInStep, LeftAfter, MostCalls, Running
  <2>5. StepsLeft' = MostCalls + 1 + IF mode = "baseline" THEN MostCalls + 1 ELSE 0
    BY <2>2, <2>4 DEF StepsLeft
  <2>6. StepsLeft' < StepsLeft
    BY <1>1, <2>1, <2>5
  <2>. QED
    BY <1>3, <2>6 DEF Proceed
<1>4. CASE BaselineEnds
  <2>1. StepsLeft = MostCalls + 2
    BY <1>1, <1>4, OtherSteps DEF StepsLeft
  <2>2. /\ profile.attempts \in Nat \ {0}
        /\ profile' = profile /\ pc' = "attempt" /\ step' = 1 /\ attempt' = 1 /\ mode' = "faulted"
    BY <1>4, OtherSteps, LeftType
  <2>3. CallsLeft' = MostCalls
    BY <2>2 DEF CallsLeft, LeftInStep, LeftAfter, MostCalls, Running
  <2>4. StepsLeft' = MostCalls + 1
    BY <1>1, <2>2, <2>3 DEF StepsLeft
  <2>5. StepsLeft' < StepsLeft
    BY <1>1, <2>1, <2>4
  <2>. QED
    BY <1>4, <2>5 DEF Proceed
<1>5. CASE FaultedEnds
  <2>1. pc = "done" /\ pc' = "reported" /\ mode' = mode /\ profile' = profile
    BY <1>5, OtherSteps
  <2>2. StepsLeft' < StepsLeft
    BY <1>1, <2>1 DEF StepsLeft, MostCalls
  <2>. QED
    BY <1>5, <2>2 DEF Proceed
<1>6. CASE (\E r \in FaultRules : Declare(r)) \/ OtherWriter \/ UNCHANGED vars
  <2>1. UNCHANGED <<profile, mode, counts, calls, pc, step, attempt>>
    BY <1>6, OtherSteps
  <2>2. StepsLeft' = StepsLeft
    BY <2>1 DEF StepsLeft, CallsLeft, LeftInStep, LeftAfter, MostCalls
  <2>3. CASE ~Proceed
    BY <2>2, <2>3
  <2>4. CASE Proceed
    <3>1. pc' # pc \/ AgentStep
      BY <2>4, OtherSteps DEF Proceed
    <3>. QED
      BY <1>2, <2>1, <3>1
  <2>. QED
    BY <2>3, <2>4
<1>. QED
  BY <1>2, <1>3, <1>4, <1>5, <1>6 DEF Next, Proceed

\* Each step of agent and runner brings the experiment nearer to its end, and nothing that
\* happens around them takes it back.  So no experiment takes more of them than StepsLeft
\* says at its beginning, whatever is lost, refused or repeated: ExperimentsEnd but for the
\* fairness of Proceed.
THEOREM ExperimentsAreFinite ==
  Spec => /\ [](StepsLeft \in 0..(2 * MostCalls + 3))
          /\ [][IF Proceed THEN StepsLeft' < StepsLeft ELSE StepsLeft' = StepsLeft]_vars
<1>1. Typed => StepsLeft \in 0..(2 * MostCalls + 3)
  <2> SUFFICES ASSUME Typed PROVE StepsLeft \in 0..(2 * MostCalls + 3)
    OBVIOUS
  <2>. QED
    BY LeftType DEF StepsLeft
<1>2. Typed /\ [Next]_vars =>
        [IF Proceed THEN StepsLeft' < StepsLeft ELSE StepsLeft' = StepsLeft]_vars
  BY StepsGetFewer
<1>. QED
  BY <1>1, <1>2, Types, PTL DEF Spec
===============================================================================
