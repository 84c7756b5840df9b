# A formal model of RIFT

RIFT tests the reliability of AI agents: it runs an agent on a scenario twice, once as it
is and once with faults injected into the agent's tool calls, and judges both runs by the
state they leave and the trace of their calls. A verdict is worth as much as the trace and
the isolation behind it. The modules here state what RIFT's parts promise each other, check
it with TLC and prove the central part of it with TLAPS.

Paths below are those of the repository; `executor.py`, `runner.py` and so on name the files
under `packages/*/src`, `sandbox.py`, `repository.py`, `agents.py` and so on those under
`examples/commerce_demo/src/commerce_demo`.

## The system

| Component | State | Operations | Talks to |
| --- | --- | --- | --- |
| Fault engine (`executor.py`) | `_invocation_counts`, `_started`, `_completed`, `_start_evidence`, the recorder's list | `execute` (seven fault types and none), `_record`, `invocations_for` | awaits the tool operation and the sleeper; writes to the recorder |
| Domain models (`rift_core/domain.py`) | none, immutable values | `FaultRule.matches`, validators of records, experiments and results, `derive_run_outcome` | used everywhere |
| Gateway (`gateway.py`) | `_calls` | `call`: budget, errors made uniform | agent above, executor below |
| Scripted agent (`scripted.py`, `agents.py`) | position in the script, attempt, first probe, failed steps | `run`, `_run_step`: attempts, validation, probes, retries, abort or continue, final claim | calls the gateway |
| Commerce sandbox (`sandbox.py`, `repository.py`, `tools.py`) | orders, payments, stock, refunds, notifications, two idempotency indexes, two counters | cancel, refund, restore, confirm, reads, reset, snapshot | called by the executor as the operation |
| Runner (`runner.py`) | one experiment in progress | `_validate`, `run`, `run_once` | takes a binding, builds all of the above, twice |
| Evaluation (`evaluation.py`) | none | `classify`, `compare`, `_invariant_deltas`, `invocation_evidence`, `diff_states` | reads reports |
| Invariants (`rift_invariant_engine`, `invariants.py`, `ordering.py`) | none | evaluator, four reusable invariants, five state invariants, `refund_after_cancellation` through `happened_before` | read snapshots and the trace |
| Command line (`rift_cli/main.py`) | none | `run`: from how an experiment ends to an exit code | calls the runner |
| Web API, report text, scripts | none | layout | not modelled |

### What is hard, and what makes each part correct

* **Executor.** An agent may have several calls in flight. A call gets its number, its
  sequence number and the count of completed calls when it starts; other calls start, end,
  fail or are cancelled before it is recorded. Correct means: numbers are dense per tool (or a
  rule is missed or fires twice), sequence numbers are unique, the counts are positions in the
  trace, records tell what happened, and no call is recorded twice.
* **Order.** `happened_before` compares a position with a count. Correct means it is exactly
  "finished before it was requested".
* **Sandbox.** Requests are repeated, sent under keys used before, padded, refused half way
  (a refund number is taken before an oversized amount is refused). Correct means keyed
  effects happen once and indexes never contradict the state.
* **Agent.** It acts on answers that were lost, replaced or doubled, in a sandbox that somebody
  else may be writing to. Correct means what keys, retries and probes are meant to buy.
* **Runner.** It relies on a binding it cannot see into: environments may be shared, a reset may
  leave things behind or start elsewhere, an invariant may raise, an adapter may leave tasks
  running. Correct means that the runs it compares began alike, or that it compares nothing.
* **Evaluation and command line.** Correct means that only faults distinguish the runs, that a
  good verdict is earned, that a bad one names its cause, and that differences are exact.

`PROJECT.json` lists each hazard at its line, with the properties that guard against it.

## The modules

| Module | What it models |
| --- | --- |
| `FaultSemantics` | what each fault type does to a call, in terms shared by the next modules |
| `ToolExecutor` | the fault engine under overlapping calls |
| `CallOrder` | abstract: what a trace promises about order, without counters |
| `CommerceOperations` | the sandbox's operations as functions of the repository's state |
| `CommerceSandbox` | the sandbox under any sequence of requests |
| `IdempotentEffects` | abstract: one effect per key |
| `GatewayCalls` | one call through gateway, executor and handler |
| `RunEvaluation` | from the answers of invariants to outcomes, a verdict and its explanation, for any scenario |
| `ReusableInvariants` | what the four configurable invariants answer to a Python value |
| `ScenarioEvaluation` | the invariants of the commerce scenario, over `RunEvaluation` |
| `ConcurrentRun` | one run by any agent, with overlapping calls |
| `CommerceExperiment` | scripted agent, gateway, executor, sandbox, invariants, runner and comparison, end to end |
| `ExperimentLifecycle` | the runner and the command line, for any scenario and binding |
| `StateDifferences` | `diff_states`, with a reference definition of its result |
| `CallOrderProofs`, `CommerceSandboxProofs` | theorems about the modules they are named after |
| `ToolExecutorProofs` | theorems about `ToolExecutor`, and that it implements `CallOrder` |
| `ExperimentLifecycleProofs` | theorems about `ExperimentLifecycle` |
| `ConcurrentRunProofs` | theorems about `ConcurrentRun` |
| `StateDifferencesProofs` | that the differences of any two documents are exact |
| `Recursion` | induction, recursive definitions, and what `FlattenSeq` and `MapThenSumSet` compute |
| `CommerceExperimentProofs` | theorems about `CommerceExperiment` |
| `MC...` | instances for TLC |

### ToolExecutor

`_invocation_counts`, `_started`, `_completed`, `_start_evidence` and the recorder's list are
variables of (nearly) the same names; a dictionary key that is missing is read as 0, as
`.get(key, 0)` does. `pc` and `frame` are where a call's coroutine is suspended and what its
locals hold. asyncio is cooperative, so everything between two awaits is one step:

* `Invoke` is `execute` up to its first await: numbering, matching, and either the whole of a
  rejecting fault with its record, the start of a latency sleep, or the start of the operation.
* `WakeUp` ends the sleep. `TakeEffect` is the operation's effect on the world.
  `OperationReturns`, `OperationRaises`, `Redeliver` and `RedeliveryEnds` resume the branch that
  the rule selects and end with `_record`, or deliver again.
* `Cancel` is `CancelledError` at the await, which `except Exception` does not catch: no record,
  and the evidence stays.
* `Record` is `_record`. The evidence is popped first; then the record is validated, and a wall
  clock set back during the call makes that fail, so that neither counter nor list moves.

The variables `delivered`, `effects` and `reply` are the world and the caller, which records
are compared with. An operation that returns has taken effect; one that raises may have.

`validate_outcomes` of `ToolInvocation` would refuse a record whose parts contradict each other, and the
call would be lost. Each branch of the executor builds a record from its own literals, so nothing but this check
relates them. `IsConsistent` of `FaultSemantics` is the validator, and
`RecordsPassTheirValidator` says that no branch ever offends it.

### CallOrder

Each call is unborn, open, closed or lost; at its start it has behind it exactly the closed
calls of its run. `ToolExecutor` is mapped to it by reading status off `pc` and the records, and
what is behind a call off the positions and counts, as `happened_before` does.

### CommerceOperations, CommerceSandbox, IdempotentEffects

Refunds and notifications have one form, a ledger: entries by number, an index by key, the next
number. Amounts are accepted, refused at once, or refused by the `Refund` model after the number
was taken (`OversizedAmounts`). `Strip` is `str.strip` on the texts of an instance. All typed
errors are `Raised`: no property tells them apart. No operation suspends before its effects are complete, so
each is one step. `IdempotentEffects` knows a set of effects and the last exchange: a request
under a fresh key is performed, a repeated one is answered with the same effect, a different
one under the same key is refused.

### GatewayCalls, ScenarioEvaluation, ConcurrentRun

`GatewayCalls` composes what a fault does with what an operation does to the sandbox, and
gives the answer that the gateway makes of it. `ScenarioEvaluation` judges a state and a
trace, by the rules of `RunEvaluation`. `ConcurrentRun` and `CommerceExperiment` share both.

In `ConcurrentRun` the agent is arbitrary: it is whoever calls `gateway.call`. Because no operation of
the sandbox suspends, only a latency fault makes calls overlap: `CallTool` is the call up to the sleep,
or all of it, `WakeUp` the rest, `Cancel` the agent's own timeout. `Refuse` and `CallUnknownTool` are
the gateway's early returns. `AdapterEnds` is what `run_once` does from the moment the adapter
returns or raises; there is no await in it, so it is one step. Tasks the agent left behind go on after it.
The frame of a call has one field that the code has not, `orderCancelled`: what the order was when
the call was made, which the ordering invariant is judged by. There are no baseline runs; a
run without rules is one (`FaultRule.matches`). The wall clock is not set back during a call:
what that does to a record is part of `ToolExecutor`.

### CommerceExperiment

The agent makes one call at a time, so a call through
gateway, executor and handler is one step, `GatewayCall`. Rules are declared one by one
(`Declare`, with the selector check of `ExperimentSpec`), then both runs follow: `Probe`,
`Attempt` and `Reprobe` are the calls of `_run_step`, with everything the agent does up to its
next call; `BaselineEnds` and `FaultedEnds` take the snapshot, evaluate the invariants and, the
second, compare. The profiles call only tools that exist.

The response that a rule puts in place of an answer may be any JSON value but null, so the model
has a set of `Replacements` and two constants that say what the agent makes of each: `Passing`, the validators of
`agents.py` that accept it (they look for keys only), and `Reading`, the integer it has as `available_quantity`,
if any (`Quantity`, `Increased`). A replacement may therefore look like a true answer, and a probe's may tell the
agent a stock that is too low or too high. In `ConcurrentRun` nothing depends on the content; only that
what the agent is told is not from the tool.

`OtherWriter` is somebody else with access to the same sandbox, who restores one unit between two calls of
the agent, as the test `test_reconciliation_misattributes_a_concurrent_writers_change` does. It is restricted
to the restore step, where the agent has probed the stock or is about to: elsewhere the effect is the same
as that of a different initial stock.

`MayBeDeceived` says when an agent that reconciles may believe that its restore took effect though it did not: the
other writer has added a unit, or a rule that fired `Misleads`, that is, it replaced the answer to the
first probe by a count below the true initial stock, or that to a later probe by one above it. `HonestClaimsAreBacked` and
`AbortingAgentsKeepTheOrder` hold of the stock but for that case and of everything else without exception. All the cases
occur: if `MayBeDeceived` left out the other writer or either half of `Misleads`, both properties would fail in
`experiment_profiles`.

### ExperimentLifecycle, RunEvaluation, ReusableInvariants

An experiment is submitted with a declaration (scenario and rules) and a binding. `SpecIsValid`
and `BindingFits` are the validators and `_validate`; `Refuse` is what they do to a declaration,
`SpecIsUnreadable` a file of `--spec` that cannot be read, and `Accept` begins the baseline.
`StartRun` is `run_once` up to the call of the adapter. A binding has four freedoms that
the runner has to live with: `starts` (the states that a reset may produce), `cleans` (whether a
reset removes what was done before), `fresh` (whether `create_environment` makes a new environment) and
`checks` (its invariants, which may share names and may raise). The state of an environment is a base and, as
`marks`, how often the calls of each run changed it, so that a change can be traced to the run that made it.

`ToolCall` is a call of the adapter or of a task that an adapter left behind, which keeps the
gateway, the executor and the environment of its own run. `AdapterEnds` is everything from the return of
an adapter to the start of the next one, or to the verdict: there is no await in between. It also stands
for an adapter that gives up or raises, since `run_once` evaluates the run all the same.
`AdapterIsCancelled` is a `CancelledError` raised inside the adapter, which `except Exception` lets pass. `Exit` is the
exit code. With `stage = "reported"` the code may also be 1 whatever the verdict: writing the report may fail.

The field `meant` of a report is not in the code. It holds the invariants that found the
value their author had in mind, of the type the invariant is about, and `ResilienceIsEarned` compares
a good verdict with it. What an invariant finds is an arbitrary
value of `Observations`, among them a bool where a number is due, a Decimal that is NaN, a collection and an object
without a JSON form; `ReusableInvariants` says how Python compares them.

### StateDifferences

A document is a leaf, a dict (a function) or a list (a sequence). `Diff` is `_diff`, key by key in sorted
order and position by position. The reference looks at places instead: `Places` are the places of a document with what
is there, `Shared` those that two documents have both, and `Expected` has, of every shared place, the two values if they
are unequal and not both dicts or both lists, and what is in one of two dicts or lists and not in the other.
`DifferencesAreExact` says that the traversal finds these, in order, and none exactly if Python calls the documents
equal. The recursions are functions on the constant `Documents`, which holds with each document all that is in it;
`Height` says that documents are finitely deep. A path
is a sequence of steps; the code joins them as `a.b[0]`, which tells two paths apart unless a key is empty or
holds a dot or a bracket.

## The runs

| Run | Instance | What it shows |
| --- | --- | --- |
| `executor_overlap` | three calls, two tools, a baseline and a faulted context, rules for the first and second call of each tool, cancellation, clock | counters, evidence and records agree, under symmetry of the calls |
| `executor_order` | the same with the other fault types | the counters implement `CallOrder`; every call ends |
| `executor_shared_run_id` | two experiments with one run id | finding: `invocations_for` mixes them |
| `executor_cancel` | a call that is cancelled | finding: an effect without a record |
| `sandbox` | the fixture's order, payment and SKU and an unknown one of each; two keys, one also padded; one amount accepted, one oversized, one invalid | indexes match state; effects under a key happen once |
| `concurrent_run` | three calls out of right, wrong and unknown requests to cancel and refund, a restore and a confirmation, up to two rules of four types, budgets 2 and 50 | the ordering invariant is exact, answers are backed, the budget holds, silent rules are explained, the trace accounts for the state |
| `concurrent_not_exercised` | one rule | finding: a fault that acted is reported as not injected |
| `experiment_profiles` | four profiles, three of them also with two attempts, up to two rules over the first three calls of every tool, all seven fault types, three replaced responses, one restore by somebody else | what keys, retries, probes and honesty guarantee; isolation of the runs |
| `experiment_budget` | two persistent profiles, up to three rules, budgets 3, 5 and 50 | calls are counted, baselines pass, every experiment ends |
| `experiment_probes` | the reconciling profile, a probe that fails | finding: retries that are not probed |
| `lifecycle` | seven declarations with four lists of rules, against bindings that are right, share environments, do not clean, drift, have no invariants, two of one name, or one that raises; two calls of each run | runs are comparable, verdicts earned and explained, late aborts have a cause that could not be seen earlier |
| `differences` | every pair of dicts of two keys over leaves (among them `True` and `1`), lists and dicts | the differences are exact |

**Bounds.** Three calls are the fewest with one before, one during and one after another,
which transitivity and the reuse of numbers need; two rules per tool reach both the call that
meets a rule and the one after it. Two entries per ledger (`MaxEntries`) let a key be used,
repeated and met by a second key; it bounds only new numbers, so
requests are still repeated when the ledger is full. The stock is capped (`MaxStock`). An agent makes three
attempts, so rules on the first three calls reach every attempt; two rules are a fault and
one that interferes with the recovery from it. The replaced responses are one that is no answer of the tool (as in
`fault_cases.py`), one that passes no validator of a step but tells a stock of 0, and one that passes every validator and tells a stock far too high:
a validator and a comparison of probes see no more of a response. To use up the attempts of a step takes as many rules as
attempts: two for the profiles with two attempts in `experiment_profiles`, three in `experiment_budget`. One
write by somebody else (`MaxOthers`) is enough to deceive a reconciliation. A budget of 3 cuts the script short, 5 leaves one call to spare, 50 is the default.

In the concurrent runs three calls are one that sleeps, one that overtakes it and one more of
the same tool or under the same key; a budget of 2 is met while a call sleeps. The calls are
symmetric: nothing tells them apart but what they ask for.

In `lifecycle` two calls of each run (`MaxCalls`) let both rules fire, and let the
baseline call once before its adapter returns and once after, from a task left behind.

**Deadlock** is not checked in any run: calls are made at most once, and an experiment stops
after its verdict. That they get there is a liveness property instead.

**Fairness.** `ToolExecutor!FairSpec` is weakly fair to each call that is in flight: asyncio
resumes what can be resumed, a sleep ends, an operation that is awaited returns or raises. It is not
fair to `Invoke` or `Cancel`: nobody has to call or to cancel. `CommerceExperiment!FairSpec` is weakly fair to the runner and the agent,
which do nothing but await each other.

## The proofs

Every theorem holds for all values of the constants that satisfy the assumptions, which are named and are in the
modules that declare the constants.

`ToolExecutorProofs` proves what `executor_overlap` checks on three calls for every set of calls, contexts,
tools and rules (finitely many calls, rules with distinct selectors). The argument has five layers,
each an inductive invariant built on the ones before:

1. `TypeOK`.
2. `EvidenceInv`: pending calls and start evidence correspond one to one, and the numbers of the
   calls of a run to a tool run from 1 to the counter. Neither is inductive alone: that a new call's
   key is unused follows from the numbers, and that a call finds its entry from the keys.
3. `ConsistencyInv`: a call that is suspended never holds a rule that rejects calls, and one that waits for
   its second delivery holds a duplicate rule. From this, and the rule that each branch names,
   follows `RecordsPassTheirValidator`.
4. `RecordsInv`: what a call's `pc` says of `delivered` and `effects`, and that records belong to finished
   calls; from it that records tell the truth, name their rules and are unique.
5. `OrderInv` and the count of records: sequence numbers are at most `_started`, counts at most
   `_completed`, completed calls are fewer than started ones while one is pending.

The second half of `ToolExecutorProofs` proves `ImplementsCallOrder`, which `executor_order` checks. What is behind a call is
read off positions and counts in `ToolExecutor` and is a set that never changes in `CallOrder`, so the
proof is that appending a record changes no such set (`PastIsKept`), and that a new call has behind it all
that is closed (`WholePast`). `PastInv` carries it: a count is at most the number of records of its run.
The theorem has one premise, `RunIdsIdentifyExperiments`: two contexts with one run id are of one experiment.
`run_once` derives run ids from experiment ids (`runner.py:132`), so the runner ensures it; `executor_shared_run_id`
shows what happens without. With `CallOrderProofs`, which proves that the abstract relation is
a strict order, it gives `StrictTraceOrder`: `happened_before` is a strict order on the records of a run.

`CommerceSandboxProofs` proves all that run `sandbox` checks, for every set of orders, payments,
SKUs, keys, amounts and texts. One inductive invariant carries it, `Good`: both ledgers number their entries below
the next number and hold only requests the code accepts, a key is indexed exactly when an entry was made
under it and it leads to that entry, and a payment is refunded exactly when a refund of it is kept. That
only accepted requests are held is what makes it inductive: a replay is recognised by comparing a request
with the entry's own fields, which says nothing unless these were validated and normalised when the
entry was made. `RefundCases` and `ConfirmationCases` say what an operation can do in a good state (refuse
and leave the state alone but for a number it may use up, tell an old entry, or add one), and
every theorem is a reading of them; the two refinements map these cases to `Refuse`, `Replay` and `Perform` of
`IdempotentEffects`.

`ExperimentLifecycleProofs` proves all that run `lifecycle` checks, for every declaration, list of rules, binding
and whatever invariants find. `FitInv` (what was accepted fits its binding) gives `LateAbortsAreExplained`.
`ComparableInv` follows the marks of each environment: with fresh environments they are the effects of one run's own
calls, at every step, which also needs that no task of the faulted adapter is busy before its run and that the
baseline's environment may go on changing after its report. `VerdictInv` says that both reports of a verdict hold one
result of every check; `ResilienceIsEarned` follows by `PassIsMeant` (an invariant of
the four kinds passes only on the value it is meant to find) and `DegradationIsExplained` by `StatusOfResult` (with
ids that do not repeat, the dictionary by id loses nothing).

`ConcurrentRunProofs` proves what `concurrent_run` checks, for any number of calls, any
requests, rules and budgets. `RunInv` ties calls, frames and records together: a frame has the rule for its number, a call
that sleeps or was cancelled has a latency rule, and a record is made of the frame of its call. Each theorem adds one
invariant to it:

* `BudgetInv`: the number of calls that got through is `spent`, and a call is refused only when nothing is left.
* `OrderInv`: the order is cancelled exactly when the trace has a cancellation that succeeded, and what a call found at its
  start is the same fact about the records that it counted then, which no later record changes. The premise
  `OneOrder` says that the sandbox has the one order of the fixture (`repository.py:105` seeds one): the
  invariant of the scenario does not look at which order was cancelled, so with two it would not be exact.
* `RulesInv`: numbers of a tool run from 1 to its counter, each to one call, and a call has at most one record.
* `AnswersInv`: ledgers never put an entry where another is, what an index names is an entry for the request it
  is indexed with, and every step lets the state only grow (`Grows`). An answer that was backed stays backed
  (`StaysBacked`), also by what a second delivery or another call does between the operation and the answer.
* `ExplainInv`: each ledger has exactly the entries that the trace says were made (`Accounts`: one per execution without a key,
  one per key), its index has exactly the keys that succeeded calls used, and the stock is the initial one and what the
  trace says was restored. `ExecuteDoes` says what a call of any tool does to all three, under any fault: nothing that shows if
  its record is of a failure, and otherwise n executions, where n is the count in the record. A request delivered
  twice without a key makes two entries, because what decides whether it is refused does not depend on the state
  (`IsAccepted`); with a key the second delivery finds the first. Then one record more changes the sums of the trace by
  just that (`AppendAccounts`, `AppendRestocks`). The premises are `OneOrder` and `OneSku`: the fixture's invariants look at
  one order and one SKU, and so does the property.

The sums are those of `MapThenSumSet`, which chooses a function that satisfies a recursive equation. `Recursion` proves
that there is exactly one such function on the subsets of a finite set, and that an element that is added adds its
value. Its induction principle (`SetInduction`) is about a set of subsets where a textbook has a predicate, and
rests on the library's theorem that the subset ordering of a finite set is well-founded.

The assumptions are that requests that pass the check of their arguments have integers for quantities and texts or nothing
for keys, and that the marks for "no frame" and "raised" are not values of the program.

`CommerceExperimentProofs` proves the eight properties that `experiment_profiles` checks and `BaselinesAreValid`, for
every set of profiles and rules, any budget and any number of restores by others. The script always asks for the
same, so one invariant of the sandbox is enough for all (`World`): every entry of a ledger is the one request of the script,
and with keys there is at most one. From it `HandlerWorks` says what a call that is carried out does to the sandbox, once or
twice, and `Calling` what a call may do at all: it is refused for want of budget, or it is recorded, and
then it is answered with success only if it was carried out. The rest are invariants of the agent:

* `Effects`: a step that is over and has not failed has its effect, no effect is there before its step, and an agent that
  aborts has no failed step behind it; a restore may be mistaken to be there (`MayBeDeceived`). That takes the reading of the
  first probe: it is at least the initial stock unless a rule misled the agent (`FirstReadingIsFair`), and the first probe is call number 1
  of its tool and later ones are not (`ProbesAreCounted`). This gives `AbortingAgentsKeepTheOrder` and, at the end of a run, `HonestClaimsAreBacked`.
* `Numbered`: as in the executor, numbers have no gaps, and each record carries the rule for its number. Rules
  with distinct selectors then fire once.
* `Once`: what the probe before the first attempt found is at most the stock without the agent's own restore. If it found
  nothing the budget is spent, so that the retries that `experiment_probes` shows unprobed do not get
  through either: without interference, only the budget makes a probe fail.
* `RefundsFollow`: a cancellation that succeeded is recorded before every refund. With `Effects` and `World` it gives
  `KeyedSilentFailuresAreInventory`, under the premise `KeyedProfilesAreHonest`: profiles that use keys are honest,
  as those of `agents.py` are.
* `Straight`: in the baseline every call is answered, so no step is tried twice, and before step n at most n calls
  were made. This gives `BaselinesAreValid`.
* `Plain` and `Reported`: while no rule has fired, the agent has gone straight through its script, each call was
  answered, and only the budget has failed a step. The calls of the script change different parts of the sandbox, so the sandbox
  is a closed form (`After`) of the set of tools called and of what the other writer added, whatever the order of the
  calls and of its writes. The report of such a run is therefore determined by the profile, the budget and what the
  other writer did (`PlainReport`), as the baseline's is, and profile and budget say where the agent stops
  (`OneFinal`). This gives `FaultsAreIsolated`: a faulted run in which no rule fires reports what the baseline reported.

The assumptions are that budgets and `MaxOthers` are natural numbers, that the marks for None, for a replaced response
and for an error are not answers of the sandbox (what the agent takes a replacement for is `Passing` and `Reading`, about
which nothing is assumed), and that a rule has a replacement exactly if its type is `malformed_response`.

`StateDifferencesProofs` proves `DifferencesAreExact` for documents of every depth over every set of keys and values. The
invariant is only that what is returned is `Diff` of the two documents; the work is about `Diff`. Three lemmas
(`PlacesUnfold`, `AreEqualUnfolds`, `DiffUnfolds`) show that there are functions that satisfy the recursive definitions, by
`FixedPoint` of `Recursion`, because every value depends on lower documents only. `DiffIsExact` is an induction over the height
of the first document. Two that are not alike share no place but their own (`UnlikeShareNothing`: a dict and a list have no
step in common). Of two that are, what is to be reported is what is to be reported of each step (`ExpectedOfLike`), because
a place below one step is not below another; `FlattenProperties` says what concatenating the reports of the steps gives, and
`StepsGiveTheOrder` that they are in the order of the steps.

The assumptions are that the keys are distinct and are not numbers, that `Documents` holds what is in its documents, and
that what is in a document is less high. An induction over data is a statement about the set of the documents of which the
claim is true, since the provers cannot instantiate an induction theorem whose parameter is a predicate.

**Only model-checked:** liveness (`EveryCallEnds`, `ExperimentsEnd`), since TLAPS has no support for fairness and ENABLED.
What can be proved of it is that nothing goes on for ever by moving: `CallsAreFinite` says that a call of the executor takes at
most six steps (`StagesLeft`) and that a step of one call takes none from another, and `ExperimentsAreFinite` that each step of
agent and runner makes a natural number smaller (`StepsLeft`) that other restores and declarations leave as it is. The
number counts the calls that the agent's policy still allows, step by step of its script, so it also bounds retries by the
policy alone (`RetriesBounded`: no tool is called more often in a run than the agent has attempts, and the probes of an agent that
reconciles are no exception). What remains of the two properties is that somebody moves, which is what the fairness says.

## Findings

Four statements of the documentation do not hold of the code; each has a run whose
counterexample shows it. They are listed in `PROJECT.json`.

Further observations that were made while modelling, for which there is no run:

* `rift run` may exit with 1 although the verdict is "resilient", or although there is none: writing the JSON report
  or reading the file of `--spec` may raise an `OSError`, which `main` does not catch. `README.md:87` gives 1 for "not resilient under --strict". `Exit` and `SpecIsUnreadable` have these outcomes.
* A comment at `runner.py:172` says that an adapter crash is evidence; a `CancelledError` that
  leaves the adapter is not, and ends the process (`AdapterIsCancelled`).
* The reconciliation of `agents.py` believes any two probes that tell an increase. A rule that replaces the answer to a probe
  by a plausible count makes the agent claim a restore that never happened (`Misleads`): the scenario's invariant finds it, and
  the verdict is a silent failure.
* Nothing limits the time of `adapter.run`. The budget limits calls, not waiting.
* One adapter object serves both runs. An adapter that keeps state between runs is not isolated by
  the runner; the scripted ones keep none.
* `diff_states` compares with Python's `!=`, so `True` and `1` do not differ, and joins keys with dots, so two places may
  share a path. The comparison of initial states uses the same equality.

## Not modelled

* Web API, report rendering, sample script, the tables of `rift demo`, argument parsing: text without state.
* `fingerprint`: a hash. What goes into it is modelled.
* Wall-clock durations. Only their order matters to a record, and a clock set back is modelled.
* Validators of single fields, `FaultRule.validate_configuration` (but for the rule that a replacement goes with its fault
  type), `InvariantResult`: they refuse data that no other part produces.
* Exceptions of `create_environment`, `reset` and `snapshot` of a binding: the runner does not handle them, and the
  commerce binding raises none.
* The counts in the evaluator's summary and the evidence in results: nothing decides by them.
* Real multi-threading: all code runs on one asyncio loop.

## Plan

1. Done: executor, order, sandbox, scripted experiment with another writer, concurrent run, runner and command line,
   evaluation and its explanation, reusable invariants, differences of states, and the proofs above.
2. Every safety property that a passing run checks is proved, and the measures behind the two liveness properties. What
   is left is under "Only model-checked".
3. Two scripted agents in one sandbox, in place of the single write of `OtherWriter`.
