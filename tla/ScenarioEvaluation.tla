-------------------------- MODULE ScenarioEvaluation --------------------------
(***************************************************************************)
(* The evaluation of a run of the commerce scenario from the state it left *)
(* and the trace of its calls: the invariants (invariants.py, ordering.py),*)
(* over them the classification of a run and the comparison of two.        *)
(*                                                                         *)
(* A trace is a sequence of records in the order in which they were made;  *)
(* a record says, among other things, tool, rule, executed, underlying and *)
(* completedBefore.  A report says broken (the invariants that failed),    *)
(* claims (the agent claims success) and fired (the rules in its trace).   *)
(***************************************************************************)
EXTENDS CommerceOperations, FaultSemantics, RunEvaluation, FiniteSets

CONSTANTS order, payment, sku, full   \* what the invariants look at, and the right amount

RefundsMade(d) == {i \in DOMAIN d.refunds.entries :
                     d.refunds.entries[i].request.payment = payment}
ConfirmationsMade(d) == {i \in DOMAIN d.notifications.entries :
                           d.notifications.entries[i].request.order = order}

SucceededCalls(t, tool) ==
  {i \in DOMAIN t : t[i].tool = tool /\ t[i].executed /\ t[i].underlying # "error"}

\* Mutant: any call that has ended by now counts as finished before the request.
HappenedBefore_byCompletion(t, i, j) == i <= j

\* happened_before
HappenedBefore(t, i, j) == i <= t[j].completedBefore

\* Every refund that was carried out was requested after a cancellation had succeeded.
RefundAfterCancellation(t) ==
  \A j \in SucceededCalls(t, "refund_payment") :
    \E i \in SucceededCalls(t, "cancel_order") : HappenedBefore(t, i, j)

\* The invariants of the scenario, by name.
Holds(name, d, t) ==
  CASE name = "order_cancelled"       -> d.orders[order] = "cancelled"
    [] name = "exactly_one_refund"    -> Cardinality(RefundsMade(d)) = 1
    [] name = "refund_amount_correct" ->
         /\ Cardinality(RefundsMade(d)) = 1
         /\ \A i \in RefundsMade(d) : d.refunds.entries[i].request.amount = full
    [] name = "inventory_restored"    -> d.stock[sku] - InitialState.stock[sku] = 1
    [] name = "single_confirmation"   -> Cardinality(ConfirmationsMade(d)) = 1
    [] name = "refund_after_cancellation" -> RefundAfterCancellation(t)

Invariants == {"order_cancelled", "exactly_one_refund", "refund_amount_correct",
               "inventory_restored", "single_confirmation", "refund_after_cancellation"}

\* All invariants are evaluated, whichever fail.
Broken(d, t) == {name \in Invariants : ~Holds(name, d, t)}

Fired(t) == {t[i].rule : i \in DOMAIN t} \ {NoRule}

\* No invariant of this scenario raises: the outcome is pass or fail.
OutcomeOf(report) == IF report.broken = {} THEN "pass" ELSE "fail"

\* classify
Classification(report) == Classify(OutcomeOf(report), report.claims)

\* compare
Verdict(baseline, faulted) ==
  CompareRuns(OutcomeOf(baseline), faulted.fired, OutcomeOf(faulted))
===============================================================================
