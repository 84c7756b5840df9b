----------------------- MODULE ExperimentLifecycleProofs -----------------------
(***************************************************************************)
(* What a verdict may be relied on for, with any declarations, rules and   *)
(* bindings, whatever the invariants find and the tasks of an adapter do.  *)
(*                                                                         *)
(* Three invariants: what was accepted fits (FitInv), what a run changed is*)
(* what its own calls changed (ComparableInv), and the reports a verdict   *)
(* is made of hold one result of every check (VerdictInv).                 *)
(***************************************************************************)
EXTENDS ExperimentLifecycle, TLAPS

RuleIds == {experiment.rules[i].id : i \in DOMAIN experiment.rules}

Started == stage \notin {"submitted", "refused", "unread"}

MarksOf(m, effects) == [Untouched EXCEPT ![m] = effects]

FitInv ==
  /\ experiment \in Experiments /\ binding \in Bindings /\ mode \in Modes
  /\ stage = "submitted" => mode = "baseline"
  /\ Started => SpecIsValid(experiment) /\ BindingFits(experiment, binding)
  /\ LateAbortsAreExplained

Shape ==
  /\ made \in [Modes -> [calls : Nat, effects : Nat, fired : SUBSET RuleIds]]
  /\ world \in [Modes -> Environments]
  /\ busy \in [Modes -> BOOLEAN]
  /\ DOMAIN reports = Modes

ComparableInv ==
  /\ Shape
  /\ stage = "submitted" => \A m \in Modes : made[m].effects = 0
  /\ mode = "baseline" => made["faulted"].effects = 0
  /\ ~busy["faulted"]
  /\ binding.fresh => \A m \in Modes : world[m].marks = MarksOf(m, made[m].effects)
  /\ stage = "running" => experiment.scenario.initial \in {Undeclared, before}
  /\ mode = "faulted" =>
       LET report == reports["baseline"]
       IN  /\ experiment.scenario.initial \in {Undeclared, report.before}
           /\ binding.fresh => report.after.marks = MarksOf("baseline", report.effects)
  /\ RunsAreComparable

-----------------------------------------------------------------------------
\* The end of a run.

LEMMA ReportHolds ==
  ASSUME NEW r \in PossibleReports
  PROVE  /\ r.before = before /\ r.after = world[EnvironmentOf(mode)]
         /\ r.effects = made[mode].effects /\ r.fired = made[mode].fired
<1> PICK observed \in [DOMAIN binding.checks -> Observations] : r = Report(observed)
  BY DEF PossibleReports
<1>. QED
  BY DEF Report

LEMMA ResultIds ==
  ASSUME NEW r \in PossibleReports
  PROVE  /\ DOMAIN r.results = DOMAIN binding.checks
         /\ \A i \in DOMAIN binding.checks : r.results[i].id = CheckNames(binding)[i]
         /\ DOMAIN CheckNames(binding) = DOMAIN binding.checks
<1> PICK observed \in [DOMAIN binding.checks -> Observations] : r = Report(observed)
  BY DEF PossibleReports
<1>. QED
  BY DEF Report, Evaluate, CheckNames

-----------------------------------------------------------------------------
\* Nothing is thrown away that could have been refused.

LEMMA InitFitInv == Init => FitInv
BY DEF Init, FitInv, Started, Modes, LateAbortsAreExplained

LEMMA NextFitInv == FitInv /\ [Next]_vars => FitInv'
<1> SUFFICES ASSUME FitInv, [Next]_vars PROVE FitInv'
  OBVIOUS
<1>1. CASE UNCHANGED vars
  BY <1>1 DEF vars, request, FitInv, Started, LateAbortsAreExplained
<1>2. CASE Refuse \/ SpecIsUnreadable
  BY <1>2 DEF Refuse, SpecIsUnreadable, request, FitInv, Started, LateAbortsAreExplained
<1>3. CASE Accept
  BY <1>3 DEF Accept, StartRun, request, FitInv, Started, LateAbortsAreExplained, Modes
<1>4. CASE \E m \in Modes : ToolCall(m)
  BY <1>4 DEF ToolCall, request, FitInv, Started, LateAbortsAreExplained
<1>5. ASSUME NEW r \in PossibleReports, NEW stays \in BOOLEAN, BaselineEnds(r, stays)
      PROVE  FitInv'
  BY <1>5 DEF BaselineEnds, StartRun, request, FitInv, Started, LateAbortsAreExplained, Modes
<1>6. ASSUME NEW r \in PossibleReports, FaultedEnds(r) PROVE FitInv'
  <2>1. /\ r.before = before /\ before' = before /\ mode' = mode /\ mode = "faulted"
        /\ reports'["baseline"] = reports["baseline"]
    BY <1>6, ReportHolds DEF FaultedEnds
  <2>2. stage' = IF reports["baseline"].before # before THEN "aborted" ELSE "reported"
    BY <1>6, <2>1 DEF FaultedEnds, Compare
  <2>3. LateAbortsAreExplained'
    BY <1>6, <2>1, <2>2 DEF FaultedEnds, request, LateAbortsAreExplained
  <2>. QED
    BY <1>6, <2>1, <2>2, <2>3 DEF FaultedEnds, request, FitInv, Started
<1>7. ASSUME NEW r \in PossibleReports, ResultIsRefused(r) PROVE FitInv'
  <2>1. ~Distinct(CheckNames(binding))
    BY <1>7, ResultIds DEF ResultIsRefused, ResultsAreAccepted, Distinct
  <2>2. SpecIsValid(experiment) /\ BindingFits(experiment, binding) /\ stage' = "aborted"
    BY <1>7 DEF ResultIsRefused, FitInv, Started
  <2>3. experiment.scenario.invariants = <<>>
    BY <2>1, <2>2 DEF SpecIsValid, BindingFits
  <2>. QED
    BY <1>7, <2>1, <2>2, <2>3 DEF ResultIsRefused, request, FitInv, Started, LateAbortsAreExplained
<1>8. CASE AdapterIsCancelled
  BY <1>8 DEF AdapterIsCancelled, request, FitInv, Started, LateAbortsAreExplained
<1>9. CASE Exit
  BY <1>9 DEF Exit, request, FitInv, Started, LateAbortsAreExplained
<1>. QED
  BY <1>1, <1>2, <1>3, <1>4, <1>5, <1>6, <1>7, <1>8, <1>9 DEF Next, AdapterEnds

LEMMA FitInvariant == Spec => []FitInv
BY InitFitInv, NextFitInv, PTL DEF Spec

\* A run of an agent is thrown away only for what could not be seen before it: the start of
\* an environment, or two invariants of one name that no declaration named.
THEOREM ExplainedAborts == Spec => []LateAbortsAreExplained
<1>1. FitInv => LateAbortsAreExplained
  BY DEF FitInv
<1>. QED
  BY <1>1, FitInvariant, PTL

-----------------------------------------------------------------------------
\* What a run changed.

LEMMA StartKeepsComparable ==
  ASSUME FitInv, ComparableInv, NEW m \in Modes, StartRun(m),
         made[m].effects = 0, UNCHANGED <<request, made>>
  PROVE  /\ world' \in [Modes -> Environments]
         /\ binding'.fresh => \A n \in Modes : world'[n].marks = MarksOf(n, made'[n].effects)
         /\ stage' = "running" => experiment'.scenario.initial \in {Undeclared, before'}
         /\ stage' \in {"running", "aborted"} /\ mode' = m
<1> PICK base \in binding.starts :
      LET marks == IF binding.cleans THEN Untouched ELSE world[EnvironmentOf(m)].marks
          state == [base |-> base, marks |-> marks]
      IN  /\ world' = [world EXCEPT ![EnvironmentOf(m)] = state]
          /\ before' = state
          /\ mode' = m
          /\ stage' = IF experiment.scenario.initial \in {Undeclared, state}
                      THEN "running" ELSE "aborted"
  BY DEF StartRun
<1> DEFINE marks == IF binding.cleans THEN Untouched ELSE world[EnvironmentOf(m)].marks
           state == [base |-> base, marks |-> marks]
<1>1. EnvironmentOf(m) \in Modes /\ binding \in Bindings
  BY DEF EnvironmentOf, Modes, FitInv
<1>2. Untouched \in [Modes -> Nat]
  BY DEF Untouched
<1>3. state \in Environments
  BY <1>1, <1>2 DEF Environments, ComparableInv, Shape
<1>4. world' \in [Modes -> Environments]
  BY <1>1, <1>3 DEF ComparableInv, Shape
<1>5. ASSUME binding.fresh, NEW n \in Modes PROVE world'[n].marks = MarksOf(n, made[n].effects)
  <2>1. world[n].marks = MarksOf(n, made[n].effects)
    BY <1>5 DEF ComparableInv
  <2>2. EnvironmentOf(m) = m
    BY <1>5 DEF EnvironmentOf
  <2>3. CASE n # m
    BY <2>1, <2>2, <2>3 DEF ComparableInv, Shape
  <2>4. CASE n = m
    <3>1. world'[n].marks = marks
      BY <1>1, <2>2, <2>4 DEF ComparableInv, Shape
    <3>2. Untouched = MarksOf(m, 0)
      BY DEF Untouched, MarksOf
    <3>. QED
      BY <2>1, <2>2, <2>4, <3>1, <3>2
  <2>. QED
    BY <2>3, <2>4
<1>6. stage' = "running" => experiment.scenario.initial \in {Undeclared, before'}
  OBVIOUS
<1>7. stage' \in {"running", "aborted"} /\ mode' = m
  OBVIOUS
<1>. QED
  BY <1>4, <1>5, <1>6, <1>7 DEF request

LEMMA ToolCallKeepsComparable ==
  ASSUME FitInv, ComparableInv, NEW m \in Modes, ToolCall(m)
  PROVE  ComparableInv'
<1> PICK met \in {{}} \cup {{r} : r \in RulesFor(m)}, effects \in {0, 1} :
      /\ made' = [made EXCEPT ![m] = [calls   |-> @.calls + 1,
                                      effects |-> @.effects + effects,
                                      fired   |-> @.fired \cup met]]
      /\ world' = [world EXCEPT ![EnvironmentOf(m)].marks[m] = @ + effects]
  BY DEF ToolCall
<1> DEFINE env == EnvironmentOf(m)
<1>1. /\ UNCHANGED <<request, stage, mode, before, busy, reports, verdict, exit>>
      /\ stage = "running" /\ (m = mode \/ busy[m]) /\ env \in Modes
  BY DEF ToolCall, EnvironmentOf, Modes
<1>2. made' \in [Modes -> [calls : Nat, effects : Nat, fired : SUBSET RuleIds]]
      /\ \A n \in Modes \ {m} : made'[n] = made[n]
      /\ made'[m].effects = made[m].effects + effects
  <2>1. met \in SUBSET RuleIds
    BY DEF RulesFor, RuleIds
  <2>. QED
    BY <2>1 DEF ComparableInv, Shape
<1>3. /\ world' \in [Modes -> Environments]
      /\ \A n \in Modes \ {env} : world'[n] = world[n]
      /\ world'[env].marks = [world[env].marks EXCEPT ![m] = @ + effects]
  <2> DEFINE old == world[env]
             marks == [old.marks EXCEPT ![m] = @ + effects]
  <2>1. old \in Environments /\ world \in [Modes -> Environments]
    BY <1>1 DEF ComparableInv, Shape
  <2>2. marks \in [Modes -> Nat]
    BY <2>1 DEF Environments
  <2>3. world' = [world EXCEPT ![env] = [old EXCEPT !.marks = marks]]
    OBVIOUS
  <2>. HIDE DEF marks
  <2>4. [old EXCEPT !.marks = marks] \in Environments /\ [old EXCEPT !.marks = marks].marks = marks
    BY <2>1, <2>2 DEF Environments
  <2>5. /\ world' \in [Modes -> Environments]
        /\ \A n \in Modes \ {env} : world'[n] = world[n]
        /\ world'[env].marks = marks
    BY <1>1, <2>1, <2>3, <2>4
  <2>. QED
    BY <2>5 DEF marks
<1>4. ASSUME binding.fresh, NEW n \in Modes PROVE world'[n].marks = MarksOf(n, made'[n].effects)
  <2>1. env = m /\ world[n].marks = MarksOf(n, made[n].effects)
    BY <1>4 DEF EnvironmentOf, ComparableInv
  <2>2. CASE n # m
    BY <1>2, <1>3, <2>1, <2>2
  <2>3. CASE n = m
    <3>1. made[m].effects \in Nat
      BY DEF ComparableInv, Shape
    <3>2. [MarksOf(m, made[m].effects) EXCEPT ![m] = @ + effects]
            = MarksOf(m, made[m].effects + effects)
      BY <3>1 DEF MarksOf, Untouched
    <3>. QED
      BY <1>2, <1>3, <2>1, <2>3, <3>2
  <2>. QED
    BY <2>2, <2>3
<1>5. mode = "baseline" => made'["faulted"].effects = 0
  BY <1>1, <1>2 DEF ComparableInv, Modes
<1>6. RunsAreComparable' /\ RuleIds' = RuleIds /\ Environments' = Environments
  BY <1>1 DEF RunsAreComparable, RuleIds, Environments, request
<1>. QED
  BY <1>1, <1>2, <1>3, <1>4, <1>5, <1>6 DEF ComparableInv, Shape, request

LEMMA InitComparable == Init => ComparableInv
<1> SUFFICES ASSUME Init PROVE ComparableInv
  OBVIOUS
<1>1. Shape
  BY DEF Init, Shape, Environments, Untouched
<1>2. \A m \in Modes : Untouched = MarksOf(m, 0)
  BY DEF Untouched, MarksOf
<1>. QED
  BY <1>1, <1>2 DEF Init, ComparableInv, RunsAreComparable, Modes

LEMMA BaselineKeepsComparable ==
  ASSUME FitInv, ComparableInv, NEW r \in PossibleReports, NEW stays \in BOOLEAN,
         BaselineEnds(r, stays)
  PROVE  ComparableInv'
<1>1. /\ stage = "running" /\ mode = "baseline" /\ StartRun("faulted")
      /\ UNCHANGED <<request, made>>
      /\ reports' = [reports EXCEPT !["baseline"] = r]
      /\ busy' = [busy EXCEPT !["baseline"] = stays]
      /\ made["faulted"].effects = 0 /\ "faulted" \in Modes /\ "baseline" \in Modes
  BY DEF BaselineEnds, ComparableInv, Modes
<1>2. /\ world' \in [Modes -> Environments]
      /\ binding'.fresh => \A n \in Modes : world'[n].marks = MarksOf(n, made'[n].effects)
      /\ stage' = "running" => experiment'.scenario.initial \in {Undeclared, before'}
      /\ stage' \in {"running", "aborted"} /\ mode' = "faulted"
  BY <1>1, StartKeepsComparable
<1>3. reports'["baseline"] = r /\ DOMAIN reports' = Modes
      /\ busy' \in [Modes -> BOOLEAN] /\ ~busy'["faulted"]
  BY <1>1 DEF ComparableInv, Shape
<1>4. /\ r.before = before /\ r.effects = made["baseline"].effects
      /\ binding.fresh => r.after = world["baseline"]
  BY <1>1, ReportHolds DEF EnvironmentOf
<1>5. /\ experiment.scenario.initial \in {Undeclared, r.before}
      /\ binding.fresh => r.after.marks = MarksOf("baseline", r.effects)
  BY <1>1, <1>4 DEF ComparableInv
<1>6. RuleIds' = RuleIds /\ Environments' = Environments
  BY <1>1 DEF RuleIds, Environments, request
<1>7. RunsAreComparable'
  BY <1>2 DEF RunsAreComparable
<1>. QED
  BY <1>1, <1>2, <1>3, <1>5, <1>6, <1>7 DEF ComparableInv, Shape, request

LEMMA FaultedKeepsComparable ==
  ASSUME FitInv, ComparableInv, NEW r \in PossibleReports, FaultedEnds(r)
  PROVE  ComparableInv'
<1>1. /\ stage = "running" /\ mode = "faulted" /\ mode' = mode
      /\ UNCHANGED <<request, world, before, made, busy>>
      /\ reports' = [reports EXCEPT !["faulted"] = r]
      /\ "faulted" \in Modes /\ "baseline" \in Modes
  BY DEF FaultedEnds, ComparableInv, Modes
<1>2. reports'["faulted"] = r /\ reports'["baseline"] = reports["baseline"]
      /\ DOMAIN reports' = Modes
  BY <1>1 DEF ComparableInv, Shape
<1>3. stage' = IF reports["baseline"].before # r.before THEN "aborted" ELSE "reported"
  BY DEF FaultedEnds, Compare
<1>4. /\ r.effects = made["faulted"].effects
      /\ binding.fresh => r.after = world["faulted"]
  BY <1>1, ReportHolds DEF EnvironmentOf
<1>5. /\ experiment.scenario.initial \in {Undeclared, reports["baseline"].before}
      /\ binding.fresh =>
           reports["baseline"].after.marks = MarksOf("baseline", reports["baseline"].effects)
  BY <1>1 DEF ComparableInv
<1>6. binding.fresh => r.after.marks = MarksOf("faulted", r.effects)
  BY <1>1, <1>4 DEF ComparableInv
<1>7. RunsAreComparable'
  BY <1>1, <1>2, <1>3, <1>5, <1>6 DEF RunsAreComparable, MarksOf, Modes, request
<1>8. RuleIds' = RuleIds /\ Environments' = Environments
  BY <1>1 DEF RuleIds, Environments, request
<1>9. stage' # "running" /\ stage' # "submitted"
  BY <1>3
<1>. QED
  BY <1>1, <1>2, <1>5, <1>7, <1>8, <1>9 DEF ComparableInv, Shape, request

LEMMA NextComparable == FitInv /\ ComparableInv /\ [Next]_vars => ComparableInv'
<1> SUFFICES ASSUME FitInv, ComparableInv, [Next]_vars PROVE ComparableInv'
  OBVIOUS
<1>1. ASSUME UNCHANGED <<request, mode, world, before, made, busy, reports>>,
             stage' = stage \/ stage' \in {"refused", "unread", "aborted", "killed"}
      PROVE  ComparableInv'
  <2>1. RuleIds' = RuleIds /\ Environments' = Environments
    BY <1>1 DEF RuleIds, Environments, request
  <2>2. RunsAreComparable'
    BY <1>1 DEF RunsAreComparable, ComparableInv, request
  <2>. QED
    BY <1>1, <2>1, <2>2 DEF ComparableInv, Shape, request
<1>2. CASE UNCHANGED vars \/ Refuse \/ SpecIsUnreadable \/ AdapterIsCancelled \/ Exit
  BY <1>1, <1>2 DEF vars, Refuse, SpecIsUnreadable, AdapterIsCancelled, Exit
<1>3. CASE Accept
  <2>1. /\ stage = "submitted" /\ StartRun("baseline") /\ "baseline" \in Modes
        /\ UNCHANGED <<request, made, busy, reports>>
        /\ \A m \in Modes : made[m].effects = 0
    BY <1>3 DEF Accept, ComparableInv, Modes
  <2>2. /\ world' \in [Modes -> Environments]
        /\ binding'.fresh => \A n \in Modes : world'[n].marks = MarksOf(n, made'[n].effects)
        /\ stage' = "running" => experiment'.scenario.initial \in {Undeclared, before'}
        /\ stage' \in {"running", "aborted"} /\ mode' = "baseline"
    BY <2>1, StartKeepsComparable
  <2>3. RuleIds' = RuleIds /\ Environments' = Environments
    BY <2>1 DEF RuleIds, Environments, request
  <2>. QED
    BY <2>1, <2>2, <2>3 DEF ComparableInv, Shape, RunsAreComparable, Modes
<1>4. CASE \E m \in Modes : ToolCall(m)
  BY <1>4, ToolCallKeepsComparable
<1>5. ASSUME NEW r \in PossibleReports, NEW stays \in BOOLEAN, BaselineEnds(r, stays)
      PROVE  ComparableInv'
  BY <1>5, BaselineKeepsComparable
<1>6. ASSUME NEW r \in PossibleReports, FaultedEnds(r) PROVE ComparableInv'
  BY <1>6, FaultedKeepsComparable
<1>7. ASSUME NEW r \in PossibleReports, ResultIsRefused(r) PROVE ComparableInv'
  BY <1>1, <1>7 DEF ResultIsRefused
<1>. QED
  BY <1>2, <1>3, <1>4, <1>5, <1>6, <1>7 DEF Next, AdapterEnds

LEMMA ComparableInvariant == Spec => []ComparableInv
BY FitInvariant, InitComparable, NextComparable, PTL DEF Spec

\* The runs that are compared began alike, and as declared, with any binding; and with fresh
\* environments neither holds an effect of a call that was not its own.
THEOREM ComparableRuns == Spec => []RunsAreComparable
<1>1. ComparableInv => RunsAreComparable
  BY DEF ComparableInv
<1>. QED
  BY <1>1, ComparableInvariant, PTL

-----------------------------------------------------------------------------
\* What the results of a report say.

ReportOfChecks(r) ==
  /\ DOMAIN r.results = DOMAIN binding.checks
  /\ \A i \in DOMAIN binding.checks : r.results[i].id = CheckNames(binding)[i]
  /\ ResultsAreAccepted(r.results)
  /\ r.results # <<>> => binding.checks # <<>> /\ StatusesIn(r.results) # {}
  /\ \A i \in DOMAIN binding.checks : r.results[i].status = "pass" => i \in r.meant
  /\ r.meant \subseteq DOMAIN binding.checks
  /\ StatusesIn(r.results) \subseteq {"pass", "fail", "error"}

\* An invariant that passes found the value it is meant to find.
LEMMA PassIsMeant ==
  ASSUME NEW check, NEW v, IsConfigured(check), Answer(check, v) = "pass"
  PROVE  IsMeant(check, v)
<1>1. \A holds, expected : Compared(holds, v, expected) = "pass" => holds
  BY DEF Compared
<1>2. CASE check.kind = "field"
  <2>1. PythonEqual(v, check.expected)
    BY <1>1, <1>2 DEF Answer
  <2>. QED
    BY <1>2, <2>1 DEF PythonEqual, IsMeant
<1>3. CASE check.kind = "count"
  <2>1. v.sort = "collection" /\ v.number = check.expected.number
    BY <1>1, <1>3 DEF Answer
  <2>. QED
    BY <1>3, <2>1 DEF IsMeant
<1>4. CASE check.kind = "number"
  <2>1. IsExactNumber(v) /\ v.number = check.expected.number
    BY <1>1, <1>4 DEF Answer
  <2>. QED
    BY <1>4, <2>1 DEF IsMeant, IsExactNumber
<1>5. CASE check.kind = "predicate"
  <2>1. v.sort = "bool" /\ v.number = 1
    BY <1>1, <1>5 DEF Answer
  <2>. QED
    BY <1>5, <2>1 DEF IsMeant
<1>. QED
  BY <1>2, <1>3, <1>4, <1>5 DEF IsConfigured

LEMMA Answers ==
  ASSUME NEW check, NEW v, IsConfigured(check)
  PROVE  Answer(check, v) \in {"pass", "fail", "raises"}
BY DEF IsConfigured, Answer, Compared

LEMMA AcceptedReport ==
  ASSUME FitInv, NEW r \in PossibleReports, ResultsAreAccepted(r.results)
  PROVE  ReportOfChecks(r)
<1> PICK observed \in [DOMAIN binding.checks -> Observations] : r = Report(observed)
  BY DEF PossibleReports
<1>1. /\ DOMAIN r.results = DOMAIN binding.checks
      /\ \A i \in DOMAIN binding.checks : r.results[i].id = CheckNames(binding)[i]
  BY ResultIds
<1>2. r.meant = {i \in DOMAIN binding.checks : IsMeant(binding.checks[i], observed[i])}
  BY DEF Report
<1>3. ASSUME NEW i \in DOMAIN binding.checks, r.results[i].status = "pass" PROVE i \in r.meant
  <2>1. r.results[i].status = IF Answer(binding.checks[i], observed[i]) = "raises" THEN "error"
                              ELSE Answer(binding.checks[i], observed[i])
    BY DEF Report, Evaluate, CheckNames
  <2>2. Answer(binding.checks[i], observed[i]) = "pass"
    BY <1>3, <2>1
  <2>3. IsConfigured(binding.checks[i])
    BY BindingsAssumption DEF FitInv
  <2>. QED
    BY <1>2, <2>2, <2>3, PassIsMeant
<1>4. r.results # <<>> => binding.checks # <<>> /\ StatusesIn(r.results) # {}
  <2>1. r.results = [i \in DOMAIN binding.checks |-> r.results[i]]
    BY <1>1 DEF Report, Evaluate, CheckNames
  <2>2. r.results # <<>> => DOMAIN r.results # {}
    BY <1>1, <2>1
  <2>. QED
    BY <1>1, <2>2 DEF StatusesIn
<1>5. StatusesIn(r.results) \subseteq {"pass", "fail", "error"}
  <2> SUFFICES ASSUME NEW i \in DOMAIN r.results
               PROVE  r.results[i].status \in {"pass", "fail", "error"}
    BY DEF StatusesIn
  <2>1. r.results[i].status = IF Answer(binding.checks[i], observed[i]) = "raises" THEN "error"
                              ELSE Answer(binding.checks[i], observed[i])
    BY <1>1 DEF Report, Evaluate, CheckNames
  <2>2. IsConfigured(binding.checks[i])
    BY <1>1, BindingsAssumption DEF FitInv
  <2>. QED
    BY <2>1, <2>2, Answers
<1>. QED
  BY <1>1, <1>2, <1>3, <1>4, <1>5 DEF ReportOfChecks

\* A run passes if there are results and all of them passed, and only then.
LEMMA OutcomePass ==
  ASSUME NEW results, StatusesIn(results) \subseteq {"pass", "fail", "error"},
         results # <<>> => StatusesIn(results) # {}
  PROVE  RunOutcome(results) = "pass" <=> results # <<>> /\ StatusesIn(results) = {"pass"}
<1>1. CASE results = <<>>
  <2>1. StatusesIn(results) = {}
    BY <1>1 DEF StatusesIn
  <2>. QED
    BY <1>1, <2>1 DEF RunOutcome
<1>2. CASE results # <<>> /\ "error" \in StatusesIn(results)
  BY <1>2 DEF RunOutcome
<1>3. CASE results # <<>> /\ StatusesIn(results) \in {{"fail"}, {"fail", "pass"}}
  BY <1>3 DEF RunOutcome
<1>4. CASE results # <<>> /\ StatusesIn(results) = {"pass"}
  BY <1>4 DEF RunOutcome
<1>. QED
  BY <1>1, <1>2, <1>3, <1>4

\* A good verdict says of both runs that they passed, and a bad one of the faulted run
\* that it did not.
LEMMA Verdict ==
  ASSUME NEW b, NEW fired, NEW f
  PROVE  /\ CompareRuns(b, fired, f) \in Verdicts
         /\ CompareRuns(b, fired, f) = "resilient" => b = "pass" /\ fired # {} /\ f = "pass"
         /\ CompareRuns(b, fired, f) = "degraded" => b = "pass" /\ f # "pass"
<1>1. CASE b # "pass"
  BY <1>1 DEF CompareRuns, Verdicts
<1>2. CASE b = "pass" /\ fired = {}
  BY <1>2 DEF CompareRuns, Verdicts
<1>3. CASE b = "pass" /\ fired # {} /\ f = "pass"
  BY <1>3 DEF CompareRuns, Verdicts
<1>4. CASE b = "pass" /\ fired # {} /\ f # "pass"
  BY <1>4 DEF CompareRuns, Verdicts
<1>. QED
  BY <1>1, <1>2, <1>3, <1>4

-----------------------------------------------------------------------------
\* What a verdict is made of.

VerdictInv ==
  /\ mode = "faulted" => ReportOfChecks(reports["baseline"])
  /\ stage = "reported" =>
       /\ mode = "faulted" /\ ReportOfChecks(reports["faulted"])
       /\ verdict = CompareRuns(RunOutcome(reports["baseline"].results),
                                reports["faulted"].fired,
                                RunOutcome(reports["faulted"].results))
  /\ stage # "reported" => verdict = None
  /\ exit = 0 => stage = "reported" /\ (strict => verdict = "resilient")

LEMMA InitVerdict == Init => VerdictInv
BY NoneAssumption DEF Init, VerdictInv

LEMMA NextVerdict == FitInv /\ ComparableInv /\ VerdictInv /\ [Next]_vars => VerdictInv'
<1> SUFFICES ASSUME FitInv, ComparableInv, VerdictInv, [Next]_vars PROVE VerdictInv'
  OBVIOUS
<1>1. ASSUME NEW r, UNCHANGED binding PROVE ReportOfChecks(r)' <=> ReportOfChecks(r)
  BY <1>1 DEF ReportOfChecks, CheckNames
<1>2. ASSUME UNCHANGED <<request, mode, reports, verdict>>,
             stage' = stage \/ (stage # "reported" /\ stage' # "reported"),
             exit' = exit \/ (exit' \in ExitCodes /\ stage' = stage)
      PROVE  VerdictInv'
  <2>1. reports' = reports /\ binding' = binding /\ strict' = strict
    BY <1>2 DEF request
  <2>2. mode' = "faulted" => ReportOfChecks(reports["baseline"])'
    BY <1>2, <2>1 DEF VerdictInv, ReportOfChecks, CheckNames
  <2>3. stage' = "reported" => stage = "reported" /\ ReportOfChecks(reports["faulted"])'
    BY <1>2, <2>1 DEF VerdictInv, ReportOfChecks, CheckNames
  <2>4. exit' = 0 => stage' = "reported" /\ (strict' => verdict' = "resilient")
    <3>1. CASE exit' = exit
      BY <1>2, <2>1, <3>1 DEF VerdictInv
    <3>2. CASE exit' \in ExitCodes /\ stage' = stage
      <4>1. ASSUME exit' = 0 PROVE stage = "reported" /\ (strict => verdict = "resilient")
        <5>1. stage = "reported"
          BY <3>2, <4>1 DEF ExitCodes
        <5>2. 0 \in {1, IF strict /\ verdict # "resilient" THEN 1 ELSE 0}
          BY <3>2, <4>1, <5>1 DEF ExitCodes
        <5>. QED
          BY <5>1, <5>2
      <4>. QED
        BY <1>2, <2>1, <3>2, <4>1
    <3>. QED
      BY <1>2, <3>1, <3>2
  <2>. QED
    BY <1>2, <2>2, <2>3, <2>4 DEF VerdictInv
<1>3. CASE UNCHANGED vars \/ Refuse \/ SpecIsUnreadable \/ AdapterIsCancelled \/ Exit
           \/ \E m \in Modes : ToolCall(m)
  <2>1. UNCHANGED request /\ UNCHANGED <<mode, reports, verdict>>
    BY <1>3 DEF vars, Refuse, SpecIsUnreadable, AdapterIsCancelled, Exit, ToolCall
  <2>2. /\ stage' = stage \/ (stage # "reported" /\ stage' # "reported")
        /\ exit' = exit \/ (exit' \in ExitCodes /\ stage' = stage)
    BY <1>3 DEF vars, Refuse, SpecIsUnreadable, AdapterIsCancelled, Exit, ToolCall
  <2>. QED
    BY <1>2, <2>1, <2>2
<1>4. CASE Accept
  <2>1. /\ stage = "submitted" /\ stage' \in {"running", "aborted"} /\ mode' = "baseline"
        /\ UNCHANGED <<request, reports, verdict, exit>>
    BY <1>4 DEF Accept, StartRun
  <2>. QED
    BY <2>1 DEF VerdictInv
<1>5. ASSUME NEW r \in PossibleReports, NEW stays \in BOOLEAN, BaselineEnds(r, stays)
      PROVE  VerdictInv'
  <2>1. /\ stage = "running" /\ stage' \in {"running", "aborted"} /\ mode' = "faulted"
        /\ UNCHANGED <<request, verdict, exit>> /\ ResultsAreAccepted(r.results)
        /\ reports' = [reports EXCEPT !["baseline"] = r]
    BY <1>5 DEF BaselineEnds, StartRun
  <2>2. reports'["baseline"] = r
    BY <2>1 DEF ComparableInv, Shape, Modes
  <2>3. ReportOfChecks(reports["baseline"])'
    BY <2>1, <2>2, AcceptedReport DEF ReportOfChecks, CheckNames, request
  <2>. QED
    BY <2>1, <2>3 DEF VerdictInv
<1>6. ASSUME NEW r \in PossibleReports, FaultedEnds(r) PROVE VerdictInv'
  <2>1. /\ stage = "running" /\ mode = "faulted" /\ mode' = mode
        /\ UNCHANGED <<request, exit>> /\ ResultsAreAccepted(r.results)
        /\ reports' = [reports EXCEPT !["faulted"] = r]
        /\ Compare(reports["baseline"], r)
    BY <1>6 DEF FaultedEnds
  <2>2. reports'["faulted"] = r /\ reports'["baseline"] = reports["baseline"]
    BY <2>1 DEF ComparableInv, Shape, Modes
  <2>3. ReportOfChecks(reports["baseline"])' /\ ReportOfChecks(reports["faulted"])'
    <3>1. ReportOfChecks(r) /\ ReportOfChecks(reports["baseline"])
      BY <2>1, AcceptedReport DEF VerdictInv
    <3>2. binding' = binding
      BY <2>1 DEF request
    <3>. QED
      BY <2>2, <3>1, <3>2 DEF ReportOfChecks, CheckNames
  <2>4. \/ stage' = "aborted" /\ verdict' = verdict
        \/ /\ stage' = "reported"
           /\ verdict' = CompareRuns(RunOutcome(reports["baseline"].results), r.fired,
                                     RunOutcome(r.results))
    BY <2>1 DEF Compare
  <2>. QED
    BY <2>1, <2>2, <2>3, <2>4 DEF VerdictInv
<1>7. ASSUME NEW r \in PossibleReports, ResultIsRefused(r) PROVE VerdictInv'
  <2>1. /\ UNCHANGED request /\ UNCHANGED <<mode, reports, verdict, exit>>
        /\ stage = "running" /\ stage' = "aborted"
    BY <1>7 DEF ResultIsRefused
  <2>. QED
    BY <1>2, <2>1
<1>. QED
  BY <1>3, <1>4, <1>5, <1>6, <1>7 DEF Next, AdapterEnds

LEMMA VerdictInvariant == Spec => [](FitInv /\ VerdictInv)
BY FitInvariant, ComparableInvariant, InitVerdict, NextVerdict, PTL DEF Spec

LEMMA OutcomeOfChecks ==
  ASSUME NEW r, ReportOfChecks(r)
  PROVE  /\ RunOutcome(r.results) = "pass" => binding.checks # <<>> /\ r.meant = DOMAIN binding.checks
         /\ RunOutcome(r.results) = "pass" => StatusesIn(r.results) # {}
         /\ RunOutcome(r.results) # "pass" /\ StatusesIn(r.results) # {} =>
              \E i \in DOMAIN r.results : r.results[i].status # "pass"
<1>1. RunOutcome(r.results) = "pass" <=> r.results # <<>> /\ StatusesIn(r.results) = {"pass"}
  BY OutcomePass DEF ReportOfChecks
<1>2. ASSUME RunOutcome(r.results) = "pass"
      PROVE  binding.checks # <<>> /\ r.meant = DOMAIN binding.checks /\ StatusesIn(r.results) # {}
  <2>1. \A i \in DOMAIN binding.checks : r.results[i].status = "pass"
    BY <1>1, <1>2 DEF ReportOfChecks, StatusesIn
  <2>. QED
    BY <1>1, <1>2, <2>1 DEF ReportOfChecks
<1>3. ASSUME RunOutcome(r.results) # "pass", StatusesIn(r.results) # {}
      PROVE  \E i \in DOMAIN r.results : r.results[i].status # "pass"
  <2>1. r.results # <<>>
    BY <1>3 DEF StatusesIn
  <2>2. StatusesIn(r.results) # {"pass"}
    BY <1>1, <1>3, <2>1
  <2>. QED
    BY <1>3, <2>2 DEF StatusesIn
<1>. QED
  BY <1>2, <1>3

\* Resilience, and success under --strict, is said only of an experiment in which a fault was
\* met, the declared invariants were all evaluated, and every one found what it is meant to find.
THEOREM EarnedResilience == Spec => []ResilienceIsEarned
<1>1. FitInv /\ VerdictInv => ResilienceIsEarned
  <2> SUFFICES ASSUME FitInv, VerdictInv, verdict = "resilient" \/ (strict /\ exit = 0)
               PROVE  /\ verdict = "resilient"
                      /\ reports["faulted"].fired # {}
                      /\ binding.checks # <<>>
                      /\ experiment.scenario.invariants \in {<<>>, CheckNames(binding)}
                      /\ \A m \in Modes : reports[m].meant = DOMAIN binding.checks
    BY DEF ResilienceIsEarned
  <2>1. verdict = "resilient" /\ stage = "reported"
    BY NoneAssumption DEF VerdictInv, Verdicts
  <2>2. /\ RunOutcome(reports["baseline"].results) = "pass" /\ reports["faulted"].fired # {}
        /\ RunOutcome(reports["faulted"].results) = "pass"
    BY <2>1, Verdict DEF VerdictInv
  <2>3. ReportOfChecks(reports["baseline"]) /\ ReportOfChecks(reports["faulted"])
    BY <2>1 DEF VerdictInv
  <2>4. experiment.scenario.invariants \in {<<>>, CheckNames(binding)}
    BY <2>1 DEF FitInv, Started, BindingFits
  <2>. QED
    BY <2>1, <2>2, <2>3, <2>4, OutcomeOfChecks DEF Modes
<1>. QED
  BY <1>1, VerdictInvariant, PTL

-----------------------------------------------------------------------------
\* What the explanation of a degraded run names.

\* With ids that do not repeat, the status of an id is that of its result.
LEMMA StatusOfResult ==
  ASSUME NEW results, ResultsAreAccepted(results), NEW i \in DOMAIN results, i \in Nat
  PROVE  StatusOf(results[i].id, results) = results[i].status
<1> DEFINE id == results[i].id
           IsLast(k) == /\ results[k].id = id
                        /\ \A j \in DOMAIN results : results[j].id = id => j <= k
           last == CHOOSE k \in DOMAIN results : IsLast(k)
<1>1. id \in IdsIn(results)
  BY DEF IdsIn
<1>2. \A j \in DOMAIN results : results[j].id = id => j = i
  BY DEF ResultsAreAccepted
<1>3. IsLast(i)
  BY <1>2
<1>4. last \in DOMAIN results /\ IsLast(last)
  <2>. HIDE DEF IsLast
  <2>. QED
    BY <1>3
<1>5. last = i
  BY <1>2, <1>4
<1>6. StatusOf(id, results) = results[last].status
  BY <1>1 DEF StatusOf
<1>. QED
  BY <1>5, <1>6

LEMMA NamedOfReports ==
  ASSUME FitInv, NEW b, NEW f, ReportOfChecks(b), ReportOfChecks(f)
  PROVE  NotSatisfied(InvariantDeltas(b.results, f.results))
           = {f.results[i].id : i \in {j \in DOMAIN f.results : f.results[j].status # "pass"}}
<1> DEFINE deltas == InvariantDeltas(b.results, f.results)
           ids == IdsIn(f.results)
<1>1. IdsIn(b.results) = ids
  BY DEF IdsIn, ReportOfChecks
<1>2. DOMAIN deltas = ids /\ \A id \in ids : deltas[id].faulted = StatusOf(id, f.results)
  BY <1>1 DEF InvariantDeltas
<1>3. \A i \in DOMAIN f.results :
        /\ f.results[i].id \in ids
        /\ deltas[f.results[i].id].faulted = f.results[i].status
  <2> SUFFICES ASSUME NEW i \in DOMAIN f.results
               PROVE  /\ f.results[i].id \in ids
                      /\ deltas[f.results[i].id].faulted = f.results[i].status
    OBVIOUS
  <2>1. i \in Nat
    BY BindingsAssumption DEF FitInv, ReportOfChecks
  <2>2. StatusOf(f.results[i].id, f.results) = f.results[i].status
    BY <2>1, StatusOfResult DEF ReportOfChecks
  <2>3. f.results[i].id \in ids
    BY DEF IdsIn
  <2>. QED
    BY <1>2, <2>2, <2>3
<1>4. ids = {f.results[i].id : i \in DOMAIN f.results}
  BY DEF IdsIn
<1>5. NotSatisfied(deltas) = {id \in ids : deltas[id].faulted # "pass"}
  BY <1>2 DEF NotSatisfied
<1>. HIDE DEF deltas, ids
<1>. QED
  BY <1>3, <1>4, <1>5 DEF deltas

\* A run is called degraded only with a cause: some declared invariant did not hold in the
\* faulted run, and the explanation names exactly those.
THEOREM ExplainedDegradation == Spec => []DegradationIsExplained
<1>1. FitInv /\ VerdictInv => DegradationIsExplained
  <2> SUFFICES ASSUME FitInv, VerdictInv, verdict = "degraded"
               PROVE  DegradationIsExplained
    BY DEF DegradationIsExplained
  <2> DEFINE baseline == reports["baseline"]
             faulted == reports["faulted"]
             failing == {j \in DOMAIN faulted.results : faulted.results[j].status # "pass"}
             named == NotSatisfied(InvariantDeltas(baseline.results, faulted.results))
  <2>1. stage = "reported"
    BY NoneAssumption DEF VerdictInv, Verdicts
  <2>2. ReportOfChecks(baseline) /\ ReportOfChecks(faulted)
    BY <2>1 DEF VerdictInv
  <2>3. RunOutcome(baseline.results) = "pass" /\ RunOutcome(faulted.results) # "pass"
    BY <2>1, Verdict DEF VerdictInv
  <2>4. named = {faulted.results[i].id : i \in failing}
    BY <2>2, NamedOfReports
  <2>5. failing # {}
    <3>1. DOMAIN faulted.results # {}
      BY <2>2, <2>3, OutcomeOfChecks DEF ReportOfChecks, StatusesIn
    <3>2. StatusesIn(faulted.results) # {}
      BY <3>1 DEF StatusesIn
    <3>. QED
      BY <2>2, <2>3, <3>2, OutcomeOfChecks
  <2>. HIDE DEF failing, named
  <2>6. named # {} /\ named = {faulted.results[i].id : i \in failing}
    BY <2>4, <2>5
  <2>. QED
    BY <2>6 DEF DegradationIsExplained, failing, named
<1>. QED
  BY <1>1, VerdictInvariant, PTL

-----------------------------------------------------------------------------
\* Types.

LEMMA StartKeepsTypes ==
  ASSUME FitInv, ComparableInv, NEW m \in Modes, StartRun(m)
  PROVE  before' \in Environments /\ stage' \in {"running", "aborted"}
<1> PICK base \in binding.starts :
      LET marks == IF binding.cleans THEN Untouched ELSE world[EnvironmentOf(m)].marks
          state == [base |-> base, marks |-> marks]
      IN  /\ before' = state
          /\ stage' = IF experiment.scenario.initial \in {Undeclared, state}
                      THEN "running" ELSE "aborted"
  BY DEF StartRun
<1>1. EnvironmentOf(m) \in Modes /\ binding \in Bindings /\ Untouched \in [Modes -> Nat]
  BY DEF EnvironmentOf, Modes, FitInv, Untouched
<1>. QED
  BY <1>1 DEF Environments, ComparableInv, Shape

\* What TypeOK adds to the invariants above.
TypeInv ==
  /\ stage \in {"submitted", "refused", "unread", "running", "aborted", "killed", "reported"}
  /\ before \in Environments \cup {None}
  /\ \A m \in Modes : made[m].calls \in 0..MaxCalls /\ made[m].effects \in 0..made[m].calls
  /\ exit \in {None, 0, 1, 2}
  /\ reports["faulted"] # None => mode = "faulted"

LEMMA InitType == Init => TypeInv
<1> SUFFICES ASSUME Init PROVE TypeInv
  OBVIOUS
<1>1. \A m \in Modes : made[m].calls = 0 /\ made[m].effects = 0
  BY DEF Init
<1>2. 0 \in 0..MaxCalls /\ 0 \in 0..0
  BY MaxCallsAssumption
<1>3. reports["faulted"] = None
  BY DEF Init, Modes
<1>. QED
  BY <1>1, <1>2, <1>3 DEF Init, TypeInv

LEMMA NextType == FitInv /\ ComparableInv /\ TypeInv /\ [Next]_vars => TypeInv'
<1> SUFFICES ASSUME FitInv, ComparableInv, TypeInv, [Next]_vars PROVE TypeInv'
  OBVIOUS
<1>0. request' = request => Environments' = Environments
  BY DEF Environments
<1>1. ASSUME UNCHANGED <<request, mode, before, made, reports>>,
             stage' = stage \/ stage' \in {"refused", "unread", "aborted", "killed"},
             exit' \in {None, 0, 1, 2}
      PROVE  TypeInv'
  BY <1>0, <1>1 DEF TypeInv
<1>2. CASE UNCHANGED vars \/ Refuse \/ SpecIsUnreadable \/ AdapterIsCancelled \/ Exit
  <2>1. UNCHANGED request /\ UNCHANGED <<mode, before, made, reports>>
    BY <1>2 DEF vars, Refuse, SpecIsUnreadable, AdapterIsCancelled, Exit
  <2>2. stage' = stage \/ stage' \in {"refused", "unread", "aborted", "killed"}
    BY <1>2 DEF vars, Refuse, SpecIsUnreadable, AdapterIsCancelled, Exit
  <2>3. ExitCodes \subseteq {0, 1, 2}
    BY DEF ExitCodes, TypeInv
  <2>4. exit' \in {None, 0, 1, 2}
    BY <1>2, <2>3 DEF vars, Refuse, SpecIsUnreadable, AdapterIsCancelled, Exit, TypeInv
  <2>. QED
    BY <1>1, <2>1, <2>2, <2>4
<1>3. CASE Accept
  <2>1. /\ StartRun("baseline") /\ "baseline" \in Modes /\ UNCHANGED <<made, reports, exit>>
        /\ request' = request /\ mode = "baseline"
    BY <1>3 DEF Accept, Modes, FitInv
  <2>2. before' \in Environments /\ stage' \in {"running", "aborted"} /\ mode' = "baseline"
    BY <2>1, StartKeepsTypes DEF StartRun
  <2>. QED
    BY <1>0, <2>1, <2>2 DEF TypeInv
<1>4. ASSUME NEW m \in Modes, ToolCall(m) PROVE TypeInv'
  <2> PICK met \in {{}} \cup {{r} : r \in RulesFor(m)}, effects \in {0, 1} :
        made' = [made EXCEPT ![m] = [calls   |-> @.calls + 1,
                                     effects |-> @.effects + effects,
                                     fired   |-> @.fired \cup met]]
    BY <1>4 DEF ToolCall
  <2>1. /\ request' = request /\ UNCHANGED <<stage, mode, before, reports, exit>>
        /\ made[m].calls < MaxCalls
    BY <1>4 DEF ToolCall
  <2>2. \A n \in Modes : /\ made'[n].calls \in 0..MaxCalls
                         /\ made'[n].effects \in 0..made'[n].calls
    <3> TAKE n \in Modes
    <3>1. made[n].calls \in 0..MaxCalls /\ made[n].effects \in 0..made[n].calls
      BY DEF TypeInv
    <3>2. CASE n = m
      <4>1. /\ made'[n].calls = made[n].calls + 1
            /\ made'[n].effects = made[n].effects + effects
        BY <3>2 DEF ComparableInv, Shape
      <4>. QED
        BY <2>1, <3>1, <3>2, <4>1, MaxCallsAssumption
    <3>3. CASE n # m
      BY <3>1, <3>3 DEF ComparableInv, Shape
    <3>. QED
      BY <3>2, <3>3
  <2>. QED
    BY <1>0, <2>1, <2>2 DEF TypeInv
<1>5. ASSUME NEW r \in PossibleReports, NEW stays \in BOOLEAN, BaselineEnds(r, stays)
      PROVE  TypeInv'
  <2>1. /\ StartRun("faulted") /\ "faulted" \in Modes /\ UNCHANGED <<made, exit>>
        /\ request' = request
    BY <1>5 DEF BaselineEnds, Modes
  <2>2. before' \in Environments /\ stage' \in {"running", "aborted"} /\ mode' = "faulted"
    BY <2>1, StartKeepsTypes DEF StartRun
  <2>. QED
    BY <1>0, <2>1, <2>2 DEF TypeInv
<1>6. ASSUME NEW r \in PossibleReports, FaultedEnds(r) PROVE TypeInv'
  <2>1. /\ request' = request /\ UNCHANGED <<before, made, exit>> /\ mode' = "faulted"
        /\ stage' \in {"aborted", "reported"}
    BY <1>6 DEF FaultedEnds, Compare
  <2>. QED
    BY <1>0, <2>1 DEF TypeInv
<1>7. ASSUME NEW r \in PossibleReports, ResultIsRefused(r) PROVE TypeInv'
  <2>1. UNCHANGED request /\ UNCHANGED <<mode, before, made, reports, exit>> /\ stage' = "aborted"
    BY <1>7 DEF ResultIsRefused
  <2>. QED
    BY <1>1, <2>1 DEF TypeInv
<1>. QED
  BY <1>2, <1>3, <1>4, <1>5, <1>6, <1>7 DEF Next, AdapterEnds

\* The variables of an experiment keep their types, and there is a verdict exactly when
\* there is a report.
THEOREM TypeCorrect == Spec => []TypeOK
<1>1. FitInv /\ ComparableInv /\ VerdictInv /\ TypeInv => TypeOK
  <2> SUFFICES ASSUME FitInv, ComparableInv, VerdictInv, TypeInv PROVE TypeOK
    OBVIOUS
  <2>1. verdict # None <=> stage = "reported"
    BY Verdict, NoneAssumption DEF VerdictInv
  <2>. QED
    BY <2>1 DEF TypeOK, TypeInv, ComparableInv, Shape
<1>. QED
  BY <1>1, InitType, NextType, FitInvariant, ComparableInvariant, VerdictInvariant, PTL DEF Spec
===============================================================================
