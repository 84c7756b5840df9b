-------------------------- MODULE ExperimentLifecycle --------------------------
(***************************************************************************)
(* The life of an experiment in ExperimentRunner (runner.py), for any      *)
(* scenario: the declaration is validated and compared with the binding    *)
(* (domain.py, runner.py), the adapter runs in an environment of each mode,*)
(* each run is evaluated, the two are compared, and the command line       *)
(* (rift_cli/main.py) exits.                                               *)
(*                                                                         *)
(* Binding, adapter and environment are not the runner's.  A binding may   *)
(* hand out one environment for all runs, a reset may leave things behind  *)
(* or start differently each time, an invariant may raise, an adapter may  *)
(* leave tasks running that go on calling tools.  Between the return of an *)
(* adapter and the start of the next one the runner awaits nothing.        *)
(*                                                                         *)
(* What a call does is the subject of ToolExecutor and ConcurrentRun: here *)
(* it may change the environment and may meet a rule.                      *)
(***************************************************************************)
EXTENDS RunEvaluation, ReusableInvariants, FiniteSets

CONSTANTS
  Experiments,    \* [scenario, rules], as submitted
  Bindings,       \* [spec, checks, tools, starts, fresh, cleans], what they are run with
  Observations,   \* the values that a selector may find in a state
  Undeclared,     \* an empty initial_state
  None,           \* Python's None
  MaxCalls        \* bound on the calls of each run

Modes == {"baseline", "faulted"}

\* The marks of an environment count what the calls of each run did to it.
Untouched == [m \in Modes |-> 0]

ASSUME BindingsAssumption ==
  \A b \in Bindings :
    /\ b.starts # {} /\ {b.fresh, b.cleans} \subseteq BOOLEAN
    /\ \A i \in DOMAIN b.checks : i \in Nat /\ IsConfigured(b.checks[i])

Verdicts == {"baseline_invalid", "not_exercised", "resilient", "degraded"}

ASSUME MaxCallsAssumption == MaxCalls \in Nat

ASSUME NoneAssumption == None \notin Verdicts /\ None # 0

VARIABLES
  experiment, binding, strict,   \* what rift is asked to do
  stage,      \* of the experiment
  mode,       \* of the run in progress
  world,      \* the environments, by the first run that uses each
  before,     \* the snapshot after the reset
  made,       \* of each run: its calls, their effects, and the rules in its trace
  busy,       \* whether the adapter of a run left tasks behind
  reports,    \* the RunReport of each run
  verdict,
  exit        \* the exit code of the process

request == <<experiment, binding, strict>>
vars == <<request, stage, mode, world, before, made, busy, reports, verdict, exit>>

-----------------------------------------------------------------------------
\* The declaration.

Distinct(s) == \A i, j \in DOMAIN s : s[i] = s[j] => i = j
InSeq(x, s) == \E i \in DOMAIN s : s[i] = x

\* require_unique_names of ScenarioSpec, and validate_fault_rules of ExperimentSpec.
SpecIsValid(e) ==
  /\ Distinct(e.scenario.tools) /\ Distinct(e.scenario.invariants)
  /\ \A i, j \in DOMAIN e.rules :
        \/ e.rules[i].id = e.rules[j].id
        \/ e.rules[i].tool = e.rules[j].tool /\ e.rules[i].number = e.rules[j].number
        => i = j
  /\ \A i \in DOMAIN e.rules : InSeq(e.rules[i].tool, e.scenario.tools)

CheckNames(b) == [i \in DOMAIN b.checks |-> b.checks[i].name]

\* Mutant: the invariants are taken as the binding gives them.
BindingFits_uncheckedNames(e, b) ==
  /\ \A i \in DOMAIN e.scenario.tools : e.scenario.tools[i] \in b.tools
  /\ e.scenario = b.spec

\* _validate: the whole declaration is that of the binding, and what the declaration says
\* of invariants and tools is so of those the binding provides.
BindingFits(e, b) ==
  /\ e.scenario.key = b.spec.key
  /\ e.scenario.invariants \in {<<>>, CheckNames(b)}
  /\ \A i \in DOMAIN e.scenario.tools : e.scenario.tools[i] \in b.tools
  /\ e.scenario = b.spec

-----------------------------------------------------------------------------
\* The start of a run.

\* Mutant: the environment of the baseline is used again.
EnvironmentOf_reused(m) == "baseline"

\* create_environment: a binding that makes no fresh environment hands out the first again.
EnvironmentOf(m) == IF binding.fresh THEN m ELSE "baseline"

\* run_once as far as the call of the adapter: environment, reset, snapshot, and the
\* comparison with the declared initial state.
StartRun(m) ==
  \E base \in binding.starts :
    LET marks == IF binding.cleans THEN Untouched ELSE world[EnvironmentOf(m)].marks
        state == [base |-> base, marks |-> marks]
    IN  /\ world' = [world EXCEPT ![EnvironmentOf(m)] = state]
        /\ before' = state
        /\ mode' = m
        /\ stage' = IF experiment.scenario.initial \in {Undeclared, state}
                    THEN "running" ELSE "aborted"

Init ==
  /\ experiment \in Experiments /\ binding \in Bindings /\ strict \in BOOLEAN
  /\ stage = "submitted" /\ mode = "baseline"
  /\ world = [m \in Modes |-> [base |-> None, marks |-> Untouched]]
  /\ before = None
  /\ made = [m \in Modes |-> [calls |-> 0, effects |-> 0, fired |-> {}]]
  /\ busy = [m \in Modes |-> FALSE]
  /\ reports = [m \in Modes |-> None]
  /\ verdict = None /\ exit = None

Refuse ==
  /\ stage = "submitted"
  /\ ~(SpecIsValid(experiment) /\ BindingFits(experiment, binding))
  /\ stage' = "refused"
  /\ UNCHANGED <<request, mode, world, before, made, busy, reports, verdict, exit>>

\* The file that --spec names cannot be read.
SpecIsUnreadable ==
  /\ stage = "submitted"
  /\ stage' = "unread"
  /\ UNCHANGED <<request, mode, world, before, made, busy, reports, verdict, exit>>

Accept ==
  /\ stage = "submitted"
  /\ SpecIsValid(experiment) /\ BindingFits(experiment, binding)
  /\ StartRun("baseline")
  /\ UNCHANGED <<request, made, busy, reports, verdict, exit>>

-----------------------------------------------------------------------------
\* The agent.

\* The rules that a call of run m may meet: none in the baseline, and each at most once.
RulesFor(m) ==
  IF m = "baseline" THEN {}
  ELSE {experiment.rules[i].id : i \in DOMAIN experiment.rules} \ made[m].fired

\* A call by the adapter, or by a task it left behind, through the gateway of its own run.
ToolCall(m) ==
  /\ stage = "running" /\ (m = mode \/ busy[m])
  /\ made[m].calls < MaxCalls
  /\ \E met \in {{}} \cup {{r} : r \in RulesFor(m)}, effects \in {0, 1} :
       /\ made' = [made EXCEPT ![m] = [calls   |-> @.calls + 1,
                                       effects |-> @.effects + effects,
                                       fired   |-> @.fired \cup met]]
       /\ world' = [world EXCEPT ![EnvironmentOf(m)].marks[m] = @ + effects]
  /\ UNCHANGED <<request, stage, mode, before, busy, reports, verdict, exit>>

-----------------------------------------------------------------------------
\* The end of a run: run_once from the return of the adapter, and run after it.  A run is
\* evaluated alike whether its adapter completed, gave up or raised.

\* The value that the author of the invariant has in mind.
IsMeant(check, v) ==
  /\ check.kind # "predicate" => v.number = check.expected.number
  /\ CASE check.kind = "field"     -> v.sort = check.expected.sort \/ v.sort \in NumberSorts
       [] check.kind = "count"     -> v.sort = "collection"
       [] check.kind = "number"    -> v.sort \in {"int", "decimal"}
       [] check.kind = "predicate" -> v.sort = "bool" /\ v.number = 1

\* meant is not in the code: it says which invariants found the value they should.
Report(observed) ==
  [before  |-> before,
   after   |-> world[EnvironmentOf(mode)],
   effects |-> made[mode].effects,
   fired   |-> made[mode].fired,
   results |-> Evaluate(CheckNames(binding),
                        [i \in DOMAIN observed |-> Answer(binding.checks[i], observed[i])]),
   meant   |-> {i \in DOMAIN observed : IsMeant(binding.checks[i], observed[i])}]

PossibleReports == {Report(observed) : observed \in [DOMAIN binding.checks -> Observations]}

BaselineEnds(report, stays) ==
  /\ stage = "running" /\ mode = "baseline"
  /\ ResultsAreAccepted(report.results)
  /\ reports' = [reports EXCEPT !["baseline"] = report]
  /\ busy' = [busy EXCEPT !["baseline"] = stays]
  /\ StartRun("faulted")
  /\ UNCHANGED <<request, made, verdict, exit>>

\* Mutant: the comparison is made before the initial states are.
Compare_first(baseline, faulted) ==
  /\ stage' = IF baseline.before # faulted.before THEN "aborted" ELSE "reported"
  /\ verdict' = CompareRuns(RunOutcome(baseline.results), faulted.fired,
                            RunOutcome(faulted.results))

\* The end of run: equivalent initial states, or nothing.
Compare(baseline, faulted) ==
  IF baseline.before # faulted.before
  THEN stage' = "aborted" /\ UNCHANGED verdict
  ELSE /\ stage' = "reported"
       /\ verdict' = CompareRuns(RunOutcome(baseline.results), faulted.fired,
                                 RunOutcome(faulted.results))

FaultedEnds(report) ==
  /\ stage = "running" /\ mode = "faulted"
  /\ ResultsAreAccepted(report.results)
  /\ reports' = [reports EXCEPT !["faulted"] = report]
  /\ Compare(reports["baseline"], report)
  /\ UNCHANGED <<request, mode, world, before, made, busy, exit>>

\* The result of the run fails its own validation, which nobody catches.
ResultIsRefused(report) ==
  /\ stage = "running"
  /\ ~ResultsAreAccepted(report.results)
  /\ stage' = "aborted"
  /\ UNCHANGED <<request, mode, world, before, made, busy, reports, verdict, exit>>

\* A CancelledError from within the adapter is not an Exception.
AdapterIsCancelled ==
  /\ stage = "running"
  /\ stage' = "killed"
  /\ UNCHANGED <<request, mode, world, before, made, busy, reports, verdict, exit>>

AdapterEnds ==
  \E report \in PossibleReports :
     \/ \E stays \in BOOLEAN : BaselineEnds(report, stays)
     \/ FaultedEnds(report)
     \/ ResultIsRefused(report)

-----------------------------------------------------------------------------
\* main and _run of the command line.  Errors of configuration and validation give 2, an
\* error that is neither, of reading the declaration or writing the report, ends the process
\* with 1.
ExitCodes ==
  CASE stage \in {"refused", "aborted"} -> {2}
    [] stage \in {"unread", "killed"}   -> {1}
    [] stage = "reported"               -> {1, IF strict /\ verdict # "resilient" THEN 1 ELSE 0}
    [] OTHER                            -> {}

Exit ==
  /\ exit = None
  /\ exit' \in ExitCodes
  /\ UNCHANGED <<request, stage, mode, world, before, made, busy, reports, verdict>>

Next ==
  \/ Refuse \/ SpecIsUnreadable \/ Accept
  \/ \E m \in Modes : ToolCall(m)
  \/ AdapterEnds \/ AdapterIsCancelled
  \/ Exit

Spec == Init /\ [][Next]_vars

-----------------------------------------------------------------------------
\* Properties.

Environments ==
  [base : {None} \cup UNION {b.starts : b \in Bindings}, marks : [Modes -> Nat]]

\* The stage, the reports and the verdict belong together.
TypeOK ==
  /\ stage \in {"submitted", "refused", "unread", "running", "aborted", "killed", "reported"}
  /\ world \in [Modes -> Environments]
  /\ before \in Environments \cup {None}
  /\ \A m \in Modes : made[m].calls \in 0..MaxCalls /\ made[m].effects \in 0..made[m].calls
  /\ exit \in {None, 0, 1, 2}
  /\ verdict # None <=> stage = "reported"
  /\ reports["faulted"] # None => mode = "faulted"

\* The two runs that are compared began alike, as declared if it is declared, whatever the
\* binding does.  If it makes fresh environments, what a run changed are the effects of its
\* own calls: those of tasks the baseline left running never show in the faulted run, even if
\* the reset cleans nothing.
RunsAreComparable ==
  stage = "reported" =>
    \A m \in Modes :
      /\ reports[m].before = reports["baseline"].before
      /\ experiment.scenario.initial \in {Undeclared, reports[m].before}
      /\ binding.fresh =>
           reports[m].after.marks = [Untouched EXCEPT ![m] = reports[m].effects]

\* A verdict of resilience, and success under --strict, is earned: a fault was met, there
\* are invariants, they are those that were declared, and in both runs every one of them
\* was evaluated and found the value it is meant to find.
ResilienceIsEarned ==
  verdict = "resilient" \/ (strict /\ exit = 0) =>
    /\ verdict = "resilient"
    /\ reports["faulted"].fired # {}
    /\ binding.checks # <<>>
    /\ experiment.scenario.invariants \in {<<>>, CheckNames(binding)}
    /\ \A m \in Modes : reports[m].meant = DOMAIN binding.checks

\* A degraded run has a cause that can be named: the invariants the explanation lists are
\* exactly those that failed or could not be evaluated in the faulted run, and there are some.
DegradationIsExplained ==
  verdict = "degraded" =>
    LET results == reports["faulted"].results
        named == NotSatisfied(InvariantDeltas(reports["baseline"].results, results))
    IN  /\ named # {}
        /\ named = {results[i].id : i \in {j \in DOMAIN results : results[j].status # "pass"}}

\* What could have been refused at once never surfaces after an agent has been at work: a
\* run is thrown away only if the environment did not start as it should, or if the
\* scenario declared no invariants and the binding has two of one name.
LateAbortsAreExplained ==
  stage = "aborted" =>
    \/ experiment.scenario.initial # Undeclared /\ before # experiment.scenario.initial
    \/ mode = "faulted" /\ before # reports["baseline"].before
    \/ experiment.scenario.invariants = <<>> /\ ~Distinct(CheckNames(binding))
===============================================================================
