---------------------------- MODULE MCToolExecutor ----------------------------
(***************************************************************************)
(* Instances of ToolExecutor for TLC.                                      *)
(***************************************************************************)
EXTENDS ToolExecutor, TLC

CONSTANTS c1, c2, c3, e1, e2, r1, r2, refund, cancel

Baseline == [experiment |-> e1, run |-> r1, mode |-> "baseline"]
Faulted  == [experiment |-> e1, run |-> r2, mode |-> "faulted"]
OtherExperiment == [experiment |-> e2, run |-> r2, mode |-> "faulted"]

Rule(t, n, type) == [tool |-> t, number |-> n, type |-> type]

OneContext  == {Faulted}
BothModes   == {Baseline, Faulted}
SharedRunId == {Faulted, OtherExperiment}

\* Every fault type but exception, and the first two calls meet the hardest ones.
ManyFaults ==
  {Rule(refund, 1, "duplicate_request"), Rule(refund, 2, "timeout_after_commit"),
   Rule(refund, 3, "latency"), Rule(cancel, 1, "rate_limit"),
   Rule(cancel, 2, "timeout_before_call"), Rule(cancel, 3, "malformed_response")}

LatencyAndMalformed ==
  {Rule(refund, 1, "latency"), Rule(refund, 2, "malformed_response"),
   Rule(cancel, 1, "duplicate_request"), Rule(cancel, 2, "exception")}

NoRules == {}

Symmetry == Permutations(Calls)
===============================================================================
