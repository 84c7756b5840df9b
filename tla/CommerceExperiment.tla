-------------------------- MODULE CommerceExperiment --------------------------
(***************************************************************************)
(* One experiment on the commerce scenario from end to end: the runner     *)
(* (runner.py) runs a scripted agent (scripted.py, agents.py) against a    *)
(* fresh sandbox, first as the baseline and then with the fault rules, and *)
(* compares the two (evaluation.py).  The agent reaches the sandbox        *)
(* through the gateway (gateway.py) and the fault-injecting executor.      *)
(*                                                                         *)
(* The agent makes one call at a time, so a call through gateway, executor *)
(* and handler is one step here.  What overlapping calls do to the         *)
(* executor is the subject of ToolExecutor.  Between the agent's calls     *)
(* somebody else may restore stock in the same sandbox, as the tests do.   *)
(***************************************************************************)
EXTENDS GatewayCalls, ScenarioEvaluation

CONSTANTS
  message,                              \* of the confirmation; what else the script passes
                                        \* is what the invariants look at
  refundKey, confirmKey,                \* its keys, if the profile uses keys
  Profiles,                             \* the agents to choose from
  RuleTools, RuleNumbers, RuleTypes,    \* the selectors and types of the rules declared
  Passing,                              \* the replacements that the validator of each step
                                        \* accepts
  Reading,                              \* the available_quantity in a replacement, None if
                                        \* it has none that is an int
  MaxRules,                             \* bound on the number of fault rules
  Budgets,                              \* the values of max_tool_calls to choose from
  MaxOthers                             \* bound on what others restore in a run

Script == <<"cancel_order", "refund_payment", "restore_inventory", "send_confirmation">>
ProbeTool == "get_inventory"
Tools == {Script[i] : i \in DOMAIN Script} \cup {ProbeTool}
Modes == {"baseline", "faulted"}

ASSUME ScriptArguments ==
  /\ order \in Orders /\ payment \in Payments /\ sku \in Skus /\ full \in Amounts
  /\ {refundKey, confirmKey} \subseteq Keys /\ message \in Texts /\ Strip[message] # Blank

ASSUME ProfilesAssumption ==
  Profiles \subseteq [attempts : Nat \ {0}, keys : BOOLEAN, validates : BOOLEAN,
                      reconciles : BOOLEAN, aborts : BOOLEAN, honest : BOOLEAN]

ASSUME RulesAssumption ==
  RuleTools \subseteq Tools /\ RuleNumbers \subseteq Nat \ {0} /\ RuleTypes \subseteq FaultTypes

\* A rule replaces the response exactly if it is of the type that does.
FaultRules ==
  {r \in [tool : RuleTools, number : RuleNumbers, type : RuleTypes,
          response : Replacements \cup {None}] :
     r.response # None <=> r.type = "malformed_response"}

ASSUME ReplacementsAssumption ==
  /\ None \notin Int \cup Replacements
  /\ Passing \in [Tools -> SUBSET Replacements]
  /\ Reading \in [Replacements -> Int \cup {None}]

ASSUME BoundsAssumption == Budgets \subseteq Nat /\ MaxOthers \in Nat

\* What the model writes for a replacement and for an error is no answer of a tool.
ASSUME MarkersAssumption ==
  /\ NoRule \notin FaultRules
  /\ \A marker \in {Raised} \cup Replacements :
       /\ marker \notin Nat \cup {"cancelled"}
       /\ marker \notin [id : Nat, key : Keys \cup {NoKey},
                         request : {[payment |-> payment, amount |-> full],
                                    [order |-> order, message |-> Strip[message]]}]

VARIABLES
  profile, rules, budget,   \* the experiment
  mode,                     \* the run in progress
  db,                       \* the sandbox of the run
  counts,                   \* the executor's invocation number of each tool
  calls,                    \* the gateway's _calls
  trace,                    \* the recorder's records
  others,                   \* the units that others restored
  pc,                       \* what the agent does next
  step, attempt,            \* where it is in its script
  probed,                   \* probe_before
  failed,                   \* failed_steps
  reports,                  \* the RunReport of each mode, None while there is none
  verdict                   \* of the comparison

experiment == <<profile, rules, budget>>
world == <<db, counts, calls, trace>>
agent == <<pc, step, attempt, probed, failed>>
vars == <<experiment, mode, world, others, agent, reports, verdict>>

Snapshots == [orders : [Orders -> {"confirmed", "cancelled"}],
              payments : [Payments -> {"captured", "refunded"}],
              stock : [Skus -> Nat]]

TypeOK ==
  /\ profile \in Profiles /\ rules \subseteq FaultRules /\ budget \in Budgets
  /\ mode \in Modes
  /\ [f \in {"orders", "payments", "stock"} |-> db[f]] \in Snapshots
  /\ counts \in [Tools -> Nat]
  /\ calls \in 0..budget /\ others \in 0..MaxOthers
  /\ trace \in Seq([tool : Tools, number : Nat \ {0}, completedBefore : Nat,
                    rule : rules \cup {NoRule}, executed : BOOLEAN,
                    committed : {"true", "false", "unknown"}, count : 0..2,
                    underlying : {"none", "result", "error", "pair"},
                    caller : {"result", "error", "replacement", "injected", "ambiguous"}])
  /\ pc \in {"declared", "probe", "attempt", "reprobe", "done", "reported"}
  /\ step \in DOMAIN Script /\ attempt \in 1..profile.attempts
  /\ probed \in Replacements \cup {None} \cup Nat
  /\ failed \subseteq DOMAIN Script
  /\ verdict \in {"none", "resilient", "degraded", "baseline_invalid", "not_exercised"}

-----------------------------------------------------------------------------
\* One call: gateway.call, around execute, around the tool handler.

\* Mutant: the keys of the profile are not sent.
Key_notSent(k) == NoKey

\* Mutant: only the refund is sent with its key.
Key_refundOnly(k) == IF profile.keys /\ k = refundKey THEN k ELSE NoKey

Key(k) == IF profile.keys THEN k ELSE NoKey

Handle(d, tool) ==
  CASE tool = "cancel_order"      -> CancelOrder(d, order)
    [] tool = "refund_payment"    ->
         RefundPayment(d, [payment |-> payment, amount |-> full], Key(refundKey))
    [] tool = "restore_inventory" -> RestoreInventory(d, sku, 1)
    [] tool = "send_confirmation" -> SendConfirmation(d, order, message, Key(confirmKey))
    [] tool = "get_inventory"     -> GetInventory(d, sku)

\* Mutant: the run mode is not asked.
RuleFor_inEveryRun(tool, n) ==
  IF \E r \in rules : Matches(r, tool, n, "faulted")
  THEN CHOOSE r \in rules : Matches(r, tool, n, "faulted")
  ELSE NoRule

RuleFor(tool, n) ==
  IF \E r \in rules : Matches(r, tool, n, mode)
  THEN CHOOSE r \in rules : Matches(r, tool, n, mode)
  ELSE NoRule

Entry(tool, n, e) ==
  [tool |-> tool, number |-> n, completedBefore |-> Len(trace), rule |-> e.outcome.rule,
   executed |-> e.outcome.executed, committed |-> e.outcome.committed,
   count |-> e.outcome.count, underlying |-> e.outcome.underlying, caller |-> e.caller]

\* Mutant: the last call of the budget is refused.
GatewayCall_oneTooFew(tool) ==
  LET n == counts[tool] + 1
      r == RuleFor(tool, n)
      first == Handle(db, tool)
      e == Execute(db, first, Handle(first.db, tool), r)
  IN  IF calls + 1 >= budget
      THEN [db |-> db, counts |-> counts, calls |-> calls, trace |-> trace,
            reply |-> Failure("call_budget_exhausted")]
      ELSE [db |-> e.db, counts |-> [counts EXCEPT ![tool] = n], calls |-> calls + 1,
            trace |-> Append(trace, Entry(tool, n, e)), reply |-> Normalized(r, e)]

\* The agent calls a tool: the world moves on and the reply comes back.  A call beyond the
\* budget reaches neither the executor nor the sandbox.
GatewayCall(tool) ==
  LET n == counts[tool] + 1
      r == RuleFor(tool, n)
      first == Handle(db, tool)
      e == Execute(db, first, Handle(first.db, tool), r)
  IN  IF calls >= budget
      THEN [db |-> db, counts |-> counts, calls |-> calls, trace |-> trace,
            reply |-> Failure("call_budget_exhausted")]
      ELSE [db |-> e.db, counts |-> [counts EXCEPT ![tool] = n], calls |-> calls + 1,
            trace |-> Append(trace, Entry(tool, n, e)), reply |-> Normalized(r, e)]

Becomes(w) ==
  db' = w.db /\ counts' = w.counts /\ calls' = w.calls /\ trace' = w.trace

-----------------------------------------------------------------------------
\* The agent.

\* The kinds that _RETRY names; the profile without it makes one attempt.
RetryOn == {"timeout", "rate_limited", "tool_error"}

Reconciles(i) == profile.reconciles /\ Script[i] = "restore_inventory"
FirstMove(i) == IF Reconciles(i) THEN "probe" ELSE "attempt"

\* The available_quantity that the agent finds in the answer to a probe.
Quantity(response) == IF response \in Replacements THEN Reading[response] ELSE response

\* Mutant: the probes are compared the wrong way round.
Increased_swapped(before, now) ==
  Quantity(before) # None /\ Quantity(now) # None /\ Quantity(before) > Quantity(now)

\* _inventory_increased
Increased(before, now) ==
  Quantity(before) # None /\ Quantity(now) # None /\ Quantity(now) > Quantity(before)

Accepts(reply) ==
  /\ reply.ok
  /\ profile.validates /\ reply.response \in Replacements =>
       reply.response \in Passing[Script[step]]

\* Mutant: one attempt too many.
MayRetry_onceMore(reply) == attempt <= profile.attempts /\ (~reply.ok => reply.kind \in RetryOn)

\* A response that fails validation is retried like an error that the policy names.
MayRetry(reply) == attempt < profile.attempts /\ (~reply.ok => reply.kind \in RetryOn)

\* Mutant: the agent goes on after a failed step whatever its profile says.
StepEnds_neverAborts(succeeded) ==
  LET last == step = Len(Script)
  IN  /\ failed' = IF succeeded THEN failed ELSE failed \cup {step}
      /\ pc' = IF last THEN "done" ELSE FirstMove(step + 1)
      /\ step' = IF last THEN step ELSE step + 1
      /\ attempt' = 1
      /\ probed' = None

StepEnds(succeeded) ==
  LET last == step = Len(Script) \/ (~succeeded /\ profile.aborts)
  IN  /\ failed' = IF succeeded THEN failed ELSE failed \cup {step}
      /\ pc' = IF last THEN "done" ELSE FirstMove(step + 1)
      /\ step' = IF last THEN step ELSE step + 1
      /\ attempt' = 1
      /\ probed' = None

\* The probe before the first attempt; what it finds is None if the probe fails.
Probe ==
  /\ pc = "probe"
  /\ LET call == GatewayCall(ProbeTool)
     IN  /\ Becomes(call)
         /\ probed' = IF call.reply.ok THEN call.reply.response ELSE None
  /\ pc' = "attempt"
  /\ UNCHANGED <<step, attempt, failed>>

\* Mutant: a probe that fails is repeated until it answers.
Reprobe_untilAnswered ==
  /\ pc = "reprobe"
  /\ LET call == GatewayCall(ProbeTool)
     IN  /\ Becomes(call)
         /\ IF call.reply.ok /\ Increased(probed, call.reply.response)
            THEN StepEnds(TRUE)
            ELSE /\ pc' = IF call.reply.ok THEN "attempt" ELSE "reprobe"
                 /\ UNCHANGED <<step, attempt, probed, failed>>

\* The probe before a retry; it is left out if the first one found nothing.
Reprobe ==
  /\ pc = "reprobe"
  /\ LET call == GatewayCall(ProbeTool)
     IN  /\ Becomes(call)
         /\ IF call.reply.ok /\ Increased(probed, call.reply.response)
            THEN StepEnds(TRUE)
            ELSE pc' = "attempt" /\ UNCHANGED <<step, attempt, probed, failed>>

Attempt ==
  /\ pc = "attempt"
  /\ LET call == GatewayCall(Script[step])
     IN  /\ Becomes(call)
         /\ \/ Accepts(call.reply) /\ StepEnds(TRUE)
            \/ ~Accepts(call.reply) /\ ~MayRetry(call.reply) /\ StepEnds(FALSE)
            \/ /\ ~Accepts(call.reply) /\ MayRetry(call.reply)
               /\ attempt' = attempt + 1
               /\ pc' = IF Reconciles(step) /\ probed # None THEN "reprobe" ELSE "attempt"
               /\ UNCHANGED <<step, probed, failed>>

AgentStep ==
  (Probe \/ Reprobe \/ Attempt) /\ UNCHANGED <<experiment, mode, others, reports, verdict>>

\* Somebody else, a return to the warehouse say, adds a unit to the stock.  Only the
\* moments are taken in which it matters to the agent: when it is at its own restore step.
OtherWriter ==
  /\ others < MaxOthers
  /\ pc \in {"probe", "attempt", "reprobe"} /\ Script[step] = "restore_inventory"
  /\ db' = RestoreInventory(db, sku, 1).db
  /\ others' = others + 1
  /\ UNCHANGED <<experiment, mode, counts, calls, trace, agent, reports, verdict>>

\* Mutant: the last step decides.
ClaimsSuccess_byLastStep == Len(Script) \notin failed \/ ~profile.honest

\* AgentStatus.COMPLETED
ClaimsSuccess == failed = {} \/ ~profile.honest

-----------------------------------------------------------------------------
\* The evaluation of a run.

Report ==
  [broken |-> Broken(db, trace),
   claims |-> ClaimsSuccess, db |-> db, trace |-> trace, counts |-> counts,
   others |-> others, fired |-> Fired(trace)]

-----------------------------------------------------------------------------
\* The runner.

FreshWorld ==
  [db |-> InitialState, counts |-> [t \in Tools |-> 0], calls |-> 0, trace |-> <<>>]

Init ==
  /\ profile \in Profiles /\ rules = {} /\ budget \in Budgets
  /\ mode = "baseline"
  /\ db = FreshWorld.db /\ counts = FreshWorld.counts
  /\ calls = FreshWorld.calls /\ trace = FreshWorld.trace /\ others = 0
  /\ pc = "declared" /\ step = 1 /\ attempt = 1 /\ probed = None /\ failed = {}
  /\ reports = [m \in Modes |-> None]
  /\ verdict = "none"

\* A fault rule is declared; ExperimentSpec refuses a second one with the same selector.
Declare(r) ==
  /\ pc = "declared"
  /\ Cardinality(rules) < MaxRules
  /\ \A s \in rules : s.tool # r.tool \/ s.number # r.number
  /\ rules' = rules \cup {r}
  /\ UNCHANGED <<profile, budget, mode, world, others, agent, reports, verdict>>

RunStarts ==
  /\ pc = "declared"
  /\ pc' = FirstMove(1)
  /\ UNCHANGED <<experiment, mode, world, others, step, attempt, probed, failed, reports, verdict>>

\* Mutant: the faulted run finds the sandbox of the baseline.
BaselineEnds_keepsSandbox ==
  /\ pc = "done" /\ mode = "baseline"
  /\ reports' = [reports EXCEPT !["baseline"] = Report]
  /\ mode' = "faulted"
  /\ Becomes([FreshWorld EXCEPT !.db = db]) /\ others' = 0
  /\ pc' = FirstMove(1) /\ step' = 1 /\ attempt' = 1 /\ probed' = None /\ failed' = {}
  /\ UNCHANGED <<experiment, verdict>>

\* The run ends: the sandbox is read, the invariants are evaluated, and after the baseline
\* the agent is set to work on a new sandbox with a new executor and a new gateway.
BaselineEnds ==
  /\ pc = "done" /\ mode = "baseline"
  /\ reports' = [reports EXCEPT !["baseline"] = Report]
  /\ mode' = "faulted"
  /\ Becomes(FreshWorld) /\ others' = 0
  /\ pc' = FirstMove(1) /\ step' = 1 /\ attempt' = 1 /\ probed' = None /\ failed' = {}
  /\ UNCHANGED <<experiment, verdict>>

FaultedEnds ==
  /\ pc = "done" /\ mode = "faulted"
  /\ reports' = [reports EXCEPT !["faulted"] = Report]
  /\ verdict' = Verdict(reports["baseline"], Report)
  /\ pc' = "reported"
  /\ UNCHANGED <<experiment, mode, world, others, step, attempt, probed, failed>>

Proceed == RunStarts \/ AgentStep \/ BaselineEnds \/ FaultedEnds

Next == (\E r \in FaultRules : Declare(r)) \/ Proceed \/ OtherWriter

Spec == Init /\ [][Next]_vars

\* Every call returns and the runner goes on.
FairSpec == Spec /\ WF_vars(Proceed)

-----------------------------------------------------------------------------
\* Properties.

\* With keys, no mix of faults, lost answers, duplicate deliveries and retries makes a
\* second refund or a second confirmation.
KeyedEffectsHappenOnce ==
  profile.keys =>
    Cardinality(RefundsMade(db)) <= 1 /\ Cardinality(ConfirmationsMade(db)) <= 1

\* The stock that the agent of a run added itself.
Restored(d, added) == d.stock[sku] - InitialState.stock[sku] - added

\* A replaced answer to a probe that makes the stock look as if it had grown: too low a count
\* before the first attempt, or too high a one after it.
Misleads(r) ==
  /\ r.tool = ProbeTool /\ r.type = "malformed_response" /\ Reading[r.response] # None
  /\ IF r.number = 1
     THEN Reading[r.response] < InitialState.stock[sku]
     ELSE Reading[r.response] > InitialState.stock[sku]

\* An agent that reconciles may take what others restored for the effect of its own call, or
\* believe a misleading probe.
MayBeDeceived(added, fired) ==
  profile.reconciles /\ (added > 0 \/ \E r \in fired : Misleads(r))

\* An honest agent that claims success has done all four things at least once: an answer
\* it takes for a success never stands for a call that did nothing.  Only one that reconciles
\* can be deceived, of the stock only, and only by somebody else's restore or by a probe
\* whose answer was replaced by a count too low before or too high after.
HonestClaimsAreBacked ==
  \A m \in Modes : reports[m] # None /\ profile.honest /\ reports[m].claims =>
    LET d == reports[m].db  added == reports[m].others
    IN  /\ d.orders[order] = "cancelled"
        /\ RefundsMade(d) # {}
        /\ Restored(d, added) > 0 \/ MayBeDeceived(added, reports[m].fired)
        /\ ConfirmationsMade(d) # {}

\* An agent that uses keys can be wrong without knowing it in one way only, the stock.
KeyedSilentFailuresAreInventory ==
  \A m \in Modes : reports[m] # None /\ profile.keys =>
    (Classification(reports[m]) = "silent_failure" => reports[m].broken = {"inventory_restored"})

\* An agent that reconciles restores the stock at most once itself, whatever others restore
\* meanwhile, unless the transport delivered twice or a probe was interfered with.
ReconciledStockIsRestoredOnce ==
  /\ profile.reconciles
  /\ \A r \in Fired(trace) : r.tool # ProbeTool /\ r.type # "duplicate_request"
  => Restored(db, others) <= 1

\* The effects of an agent that stops at the first failed step are in the order of its
\* script, whatever was lost, replaced or repeated on the way; what it takes for a restore may
\* be a deception.
AbortingAgentsKeepTheOrder ==
  profile.aborts =>
    /\ RefundsMade(db) # {} => db.orders[order] = "cancelled"
    /\ Restored(db, others) > 0 => RefundsMade(db) # {}
    /\ ConfirmationsMade(db) # {} =>
         Restored(db, others) > 0 \/ MayBeDeceived(others, Fired(trace))

\* A rule fires once, and fires as soon as the agent's calls reach it, in the faulted run only.
RulesFireWhenReached ==
  \A r \in rules :
    Cardinality({i \in DOMAIN trace : trace[i].rule = r}) =
      IF mode = "faulted" /\ counts[r.tool] >= r.number THEN 1 ELSE 0

\* Nothing but a fault that fires distinguishes the two runs: if none did, the agent's
\* calls, its claim and the state it left are those of the baseline, what others did aside.
FaultsAreIsolated ==
  reports["faulted"] # None /\ reports["faulted"].fired = {} =>
    LET baseline == reports["baseline"]  faulted == reports["faulted"]
    IN  /\ faulted.trace = baseline.trace /\ faulted.claims = baseline.claims
        /\ faulted.others = baseline.others => faulted = baseline

\* Given calls enough for its script and the sandbox for itself, no profile fails its own
\* baseline.
BaselinesAreValid ==
  budget > Len(Script) /\ verdict = "baseline_invalid" => reports["baseline"].others > 0

\* Every experiment ends in a verdict.
ExperimentsEnd == <>(pc = "reported")

-----------------------------------------------------------------------------
\* Statements of the documentation that the code does not keep.

\* Reconciliation: "probe_tool is called once before the first attempt and again before
\* every retry."
RetriesAreProbed ==
  profile.reconciles =>
    \A i, j \in DOMAIN trace :
      i < j /\ trace[i].tool = "restore_inventory" /\ trace[j].tool = "restore_inventory"
      => \E k \in i..j : trace[k].tool = ProbeTool
===============================================================================
