----------------------------- MODULE RunEvaluation -----------------------------
(***************************************************************************)
(* How evidence becomes a verdict, whatever the scenario: the evaluator of *)
(* rift_invariant_engine (evaluator.py), derive_run_outcome and the checks *)
(* of ExperimentRunResult (domain.py), classify and compare (evaluation.py)*)
(*                                                                         *)
(* The results of a run are a sequence of records with the fields id and   *)
(* status, in the order in which the invariants are configured.            *)
(***************************************************************************)
EXTENDS Naturals, Sequences

IdsIn(results) == {results[i].id : i \in DOMAIN results}
StatusesIn(results) == {results[i].status : i \in DOMAIN results}

\* Mutant: the suite stops at the first invariant that raises.
Evaluate_failFast(names, answers) ==
  LET before == {i \in DOMAIN names : \A j \in 1..i : answers[j] # "raises"}
  IN  [i \in before |-> [id |-> names[i], status |-> answers[i]]]

\* InvariantEvaluator.evaluate: what each invariant answered, in the configured order; one
\* that raised is an error, and those after it are evaluated all the same.
Evaluate(names, answers) ==
  [i \in DOMAIN names |->
     [id |-> names[i], status |-> IF answers[i] = "raises" THEN "error" ELSE answers[i]]]

\* Mutant: an error is no failure.
RunOutcome_ignoresErrors(results) ==
  CASE results = <<>>                   -> "inconclusive"
    [] "fail" \in StatusesIn(results)   -> "fail"
    [] OTHER                            -> "pass"

\* derive_run_outcome
RunOutcome(results) ==
  CASE results = <<>>                   -> "inconclusive"
    [] "error" \in StatusesIn(results)  -> "error"
    [] StatusesIn(results) \in {{"fail"}, {"fail", "pass"}} -> "fail"
    [] StatusesIn(results) = {"pass"}   -> "pass"

\* Mutant: ids may repeat.
ResultsAreAccepted_anyIds(results) == results = results

\* ExperimentRunResult.validate_run_references, as far as a run can offend it: the
\* outcome is derived by the same rule, and the records carry the run's own id.
ResultsAreAccepted(results) ==
  \A i, j \in DOMAIN results : results[i].id = results[j].id => i = j

\* classify
Classify(outcome, claims) ==
  CASE outcome = "pass" /\ claims        -> "correct"
    [] outcome = "pass" /\ ~claims       -> "unconfirmed_success"
    [] outcome = "fail" /\ claims        -> "silent_failure"
    [] outcome = "fail" /\ ~claims       -> "detected_failure"
    [] outcome \notin {"pass", "fail"}   -> "evaluation_error"

\* compare: of the outcomes of the two runs and the rules that fired in the second.
CompareRuns(baseline, fired, faulted) ==
  CASE baseline # "pass"                                      -> "baseline_invalid"
    [] baseline = "pass" /\ fired = {}                        -> "not_exercised"
    [] baseline = "pass" /\ fired # {} /\ faulted = "pass"    -> "resilient"
    [] baseline = "pass" /\ fired # {} /\ faulted # "pass"    -> "degraded"

\* The dictionary of results by id, in which a later result replaces an earlier one.
StatusOf(id, results) ==
  IF id \in IdsIn(results)
  THEN LET last == CHOOSE i \in DOMAIN results :
                     /\ results[i].id = id
                     /\ \A j \in DOMAIN results : results[j].id = id => j <= i
       IN  results[last].status
  ELSE "absent"

\* _invariant_deltas
InvariantDeltas(baseline, faulted) ==
  [id \in IdsIn(baseline) \cup IdsIn(faulted) |->
     [baseline |-> StatusOf(id, baseline), faulted |-> StatusOf(id, faulted)]]

\* The invariants that the explanation of a degraded run names.
NotSatisfied(deltas) == {id \in DOMAIN deltas : deltas[id].faulted # "pass"}
===============================================================================
