---------------------------- MODULE MCConcurrentRun ----------------------------
(***************************************************************************)
(* Instances of ConcurrentRun for TLC: requests of an agent that cancels   *)
(* and refunds, with and without a key, rightly and wrongly.               *)
(***************************************************************************)
EXTENDS ConcurrentRun, TLC

CONSTANTS c1, c2, c3, half, key, done, unknownOrder, forged

CallSymmetry == Permutations(Calls)

CancelRequest(o) == [tool |-> "cancel_order", order |-> o]
RefundRequest(amount, k) ==
  [tool |-> "refund_payment", payment |-> payment, amount |-> amount, key |-> k]
RestoreRequest == [tool |-> "restore_inventory", sku |-> sku, quantity |-> 1]
ConfirmRequest(k) ==
  [tool |-> "send_confirmation", order |-> order, message |-> done, key |-> k]

OrderRequests ==
  {CancelRequest(order), CancelRequest(unknownOrder), RefundRequest(full, key),
   RefundRequest(full, NoKey), RefundRequest(half, key), RefundRequest(Malformed, key),
   [tool |-> "escalate"]}

AllRequests == OrderRequests \cup {RestoreRequest, ConfirmRequest(key)}

RulesOf(tools, numbers, types) ==
  {r \in [tool : tools, number : numbers, type : types, response : Replacements \cup {None}] :
     r.response # None <=> r.type = "malformed_response"}

OrderRules ==
  RulesOf({"cancel_order"}, {1, 2}, {"latency", "timeout_before_call"})
  \cup RulesOf({"refund_payment"}, {1, 2},
               {"latency", "malformed_response", "duplicate_request", "timeout_after_commit"})

AllRules ==
  OrderRules \cup RulesOf({"restore_inventory", "send_confirmation"}, {1},
                          {"latency", "duplicate_request"})

Same == [t \in Texts |-> t]
===============================================================================
