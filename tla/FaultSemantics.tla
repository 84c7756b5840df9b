---------------------------- MODULE FaultSemantics ----------------------------
(***************************************************************************)
(* What each fault type does to a call: FaultType and FaultRule.matches of *)
(* rift_core/domain.py, and the arguments that the branches of             *)
(* rift_fault_engine/executor.py hand to _record.  There is no state here; *)
(* the modules that execute calls share these operators.                   *)
(***************************************************************************)
CONSTANT NoRule    \* Python's None for a rule

\* The faults that end a call before its operation is started, and those that act on an
\* operation that has returned.  Latency comes before the call and lets it go on.
RejectingFaults == {"exception", "rate_limit", "timeout_before_call"}
AfterCallFaults == {"timeout_after_commit", "malformed_response", "duplicate_request"}
FaultTypes == RejectingFaults \cup AfterCallFaults \cup {"latency"}

TypeOf(r) == IF r = NoRule THEN "none" ELSE r.type

\* FaultRule.matches: a baseline run never matches.
Matches(r, t, n, mode) == mode = "faulted" /\ r.tool = t /\ r.number = n

\* The keyword arguments of _record for each way a call can end.
Outcome(r, executed, committed, count, underlying) ==
  [rule |-> r, executed |-> executed, committed |-> committed,
   count |-> count, underlying |-> underlying]

Refused(r) == Outcome(r, FALSE, "false", 0, "none")

\* Mutant: an error is taken to mean that nothing was committed.
Failed_meansUncommitted(r) ==
  Outcome(IF TypeOf(r) = "latency" THEN r ELSE NoRule, TRUE, "false", 1, "error")

\* Mutant: every branch passes its rule on.
Failed_keepsRule(r) == Outcome(r, TRUE, "unknown", 1, "error")

\* Mutant: the latency branch makes its record like the others.
Failed_namesNoRule(r) == Outcome(NoRule, TRUE, "unknown", 1, "error")

\* The operation raised.  Only the latency branch passes its rule on.
Failed(r) ==
  Outcome(IF TypeOf(r) = "latency" THEN r ELSE NoRule, TRUE, "unknown", 1, "error")

Succeeded(r) ==
  Outcome(r, TRUE, IF TypeOf(r) = "timeout_after_commit" THEN "true" ELSE "unknown",
          1, "result")

DeliveredTwice(r) == Outcome(r, TRUE, "unknown", 2, "pair")

\* Mutant: an ambiguous timeout reaches the caller as no answer at all.
CallerSees_nothing(r) ==
  IF TypeOf(r) = "timeout_after_commit" THEN "none" ELSE "result"

CallerSees(r) ==
  CASE TypeOf(r) = "timeout_after_commit" -> "ambiguous"
    [] TypeOf(r) = "malformed_response"   -> "replacement"
    [] OTHER                              -> "result"

\* What ToolInvocation.validate_outcomes demands of a record, its times aside.
IsConsistent(r) ==
  /\ r.committed = "true" => r.executed
  /\ ~r.executed => r.committed = "false" /\ r.underlying = "none"
  /\ r.executed <=> r.count # 0
  /\ r.rule # NoRule =>
       /\ r.executed <=> r.rule.type \notin RejectingFaults
       /\ r.rule.type \in {"timeout_before_call", "timeout_after_commit"} =>
            r.caller \in {"error", "injected", "ambiguous"}
       /\ r.rule.type = "timeout_after_commit" => r.committed = "true"
       /\ r.rule.type = "duplicate_request" => r.count = 2
===============================================================================
