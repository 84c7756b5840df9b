----------------------------- MODULE ConcurrentRun -----------------------------
(***************************************************************************)
(* One run of the commerce scenario (run_once of runner.py) by an agent    *)
(* that does as it likes: it calls any tool with any arguments, several at *)
(* a time, gives up on calls that take long, claims what it wants, crashes,*)
(* and may come to its end while calls that it started go on.              *)
(*                                                                         *)
(* No operation of the sandbox suspends.  A call is therefore one step,    *)
(* unless a latency fault makes it sleep first: then its start and the     *)
(* rest are two steps with anything in between.  What operations that do   *)
(* suspend may do to the executor is the subject of ToolExecutor.  A run   *)
(* without rules behaves as a baseline run does, which never matches any.  *)
(*                                                                         *)
(* Time does not appear, and the wall clock is not set back during a call. *)
(***************************************************************************)
EXTENDS GatewayCalls, ScenarioEvaluation, FiniteSetsExt

CONSTANTS
  Calls,       \* the calls an agent may make
  Requests,    \* what it may ask for: a tool and arguments
  FaultRules,  \* the rules an experiment may have
  MaxRules,    \* bound on their number
  Budgets,     \* the values of max_tool_calls to choose from
  Malformed,   \* an argument that is missing or not of the type the tool wants
  NoFrame,     \* of a call that was not numbered
  NoReply      \* of a call that was not answered

Tools == {"cancel_order", "refund_payment", "restore_inventory", "send_confirmation"}
AgentStatuses == {"completed", "gave_up", "crashed"}

ASSUME FaultRulesAssumption ==
  /\ FaultRules \subseteq [tool : Tools, number : Nat \ {0}, type : FaultTypes,
                           response : Replacements \cup {None}]
  /\ None \notin Replacements
  /\ \A r \in FaultRules : r.response # None <=> r.type = "malformed_response"
  /\ NoRule \notin FaultRules

ASSUME CallsAssumption == IsFiniteSet(Calls) /\ Budgets \subseteq Nat

\* Whichever rules an experiment has.
AnyFrame == [request : Requests, number : Nat \ {0}, completedBefore : Nat,
             rule : FaultRules \cup {NoRule}, orderCancelled : BOOLEAN]

ASSUME MarkersAssumption == NoFrame \notin AnyFrame

VARIABLES
  rules, budget,   \* of the experiment
  db,              \* the sandbox
  counts,          \* the executor's invocation number of each tool
  spent,           \* the gateway's _calls
  trace,           \* the recorder's records
  pc,              \* of each call
  frame,           \* what the call's coroutine knows since its start
  reply,           \* what the gateway answered
  report           \* the RunReport, None until the adapter has ended

experiment == <<rules, budget>>
vars == <<experiment, db, counts, spent, trace, pc, frame, reply, report>>

\* Of a call: "refused" is beyond the budget, "unknown" asks for a tool that does not exist.
States == {"unborn", "refused", "unknown", "sleeping", "ended", "cancelled"}

Frames == [request : Requests, number : Nat \ {0}, completedBefore : Nat,
           rule : rules \cup {NoRule}, orderCancelled : BOOLEAN]

TypeOK ==
  /\ rules \subseteq FaultRules /\ budget \in Budgets
  /\ counts \in [Tools -> Nat] /\ spent \in 0..budget
  /\ DOMAIN trace = 1..Len(trace)
  /\ \A i \in DOMAIN trace :
       trace[i].call \in Calls /\ frame[trace[i].call] # NoFrame
  /\ pc \in [Calls -> States]
  /\ \A c \in Calls :
       frame[c] \in Frames \/ (frame[c] = NoFrame /\ pc[c] \in {"unborn", "refused", "unknown"})

-----------------------------------------------------------------------------
\* The executor and the tool handlers.

ArgumentsAreValid(q) == \A argument \in DOMAIN q : q[argument] # Malformed

\* The types that the handlers demand of arguments.
ASSUME RequestsAssumption ==
  \A q \in Requests : ArgumentsAreValid(q) =>
    /\ q.tool = "restore_inventory" => q.quantity \in Int
    /\ q.tool \in {"refund_payment", "send_confirmation"} => q.key \in Texts \cup {NoKey}

\* What the entries for a request say of it.
RefundOf(q) == [payment |-> q.payment, amount |-> q.amount]
ConfirmationOf(q) == [order |-> q.order, message |-> Strip[q.message]]

\* No operation answers with what the model writes for an error.
ASSUME RaisedAssumption ==
  /\ Raised \notin Int \cup {"cancelled"}
  /\ \A q \in Requests : ArgumentsAreValid(q) =>
       /\ q.tool = "refund_payment" =>
            Raised \notin [id : Nat, request : {RefundOf(q)}, key : Keys \cup {NoKey}]
       /\ q.tool = "send_confirmation" =>
            Raised \notin [id : Nat, request : {ConfirmationOf(q)}, key : Keys \cup {NoKey}]

Perform(d, q) ==
  CASE q.tool = "cancel_order"      -> CancelOrder(d, q.order)
    [] q.tool = "refund_payment"    ->
         RefundPayment(d, RefundOf(q), q.key)
    [] q.tool = "restore_inventory" -> RestoreInventory(d, q.sku, q.quantity)
    [] q.tool = "send_confirmation" -> SendConfirmation(d, q.order, q.message, q.key)

\* A handler reads its arguments before it calls the sandbox.
Handle(d, q) == IF ArgumentsAreValid(q) THEN Perform(d, q) ELSE Answer(d, Raised)

RuleFor(tool, n) ==
  IF \E r \in rules : Matches(r, tool, n, "faulted")
  THEN CHOOSE r \in rules : Matches(r, tool, n, "faulted")
  ELSE NoRule

\* Mutant: a call is numbered after those of its tool that have ended.
NewFrame_numberedByRecords(q) ==
  LET n == Cardinality({i \in DOMAIN trace : trace[i].tool = q.tool}) + 1
  IN  [request |-> q, number |-> n, completedBefore |-> Len(trace),
       rule |-> RuleFor(q.tool, n), orderCancelled |-> db.orders[order] = "cancelled"]

\* What a call gets at its start.  orderCancelled is not in the code: it is what the order
\* was when the call was made, to judge the ordering invariant by.
NewFrame(q) ==
  LET n == counts[q.tool] + 1
  IN  [request |-> q, number |-> n, completedBefore |-> Len(trace),
       rule |-> RuleFor(q.tool, n), orderCancelled |-> db.orders[order] = "cancelled"]

\* Mutant: a request that was delivered twice is recorded as one execution.
Entry_countsOne(c, f, e) ==
  [call |-> c, tool |-> f.request.tool, request |-> f.request, number |-> f.number,
   completedBefore |-> f.completedBefore, rule |-> e.outcome.rule,
   executed |-> e.outcome.executed, committed |-> e.outcome.committed, count |-> 1,
   underlying |-> e.outcome.underlying, caller |-> e.caller]

Entry(c, f, e) ==
  [call |-> c, tool |-> f.request.tool, request |-> f.request, number |-> f.number,
   completedBefore |-> f.completedBefore, rule |-> e.outcome.rule,
   executed |-> e.outcome.executed, committed |-> e.outcome.committed,
   count |-> e.outcome.count, underlying |-> e.outcome.underlying, caller |-> e.caller]

\* The operation, its record and the answer.
Finish(c, f) ==
  LET first == Handle(db, f.request)
      e == Execute(db, first, Handle(first.db, f.request), f.rule)
  IN  /\ db' = e.db
      /\ trace' = Append(trace, Entry(c, f, e))
      /\ reply' = [reply EXCEPT ![c] = Normalized(f.rule, e)]
      /\ pc' = [pc EXCEPT ![c] = "ended"]

-----------------------------------------------------------------------------
\* The gateway.

\* Mutant: refused calls are counted too.
Refuse_counted(c) ==
  /\ spent >= budget
  /\ spent' = spent + 1
  /\ pc' = [pc EXCEPT ![c] = "refused"]
  /\ reply' = [reply EXCEPT ![c] = Failure("call_budget_exhausted")]
  /\ UNCHANGED <<db, counts, trace, frame>>

Refuse(c) ==
  /\ spent >= budget
  /\ pc' = [pc EXCEPT ![c] = "refused"]
  /\ reply' = [reply EXCEPT ![c] = Failure("call_budget_exhausted")]
  /\ UNCHANGED <<db, counts, spent, trace, frame>>

\* The budget is spent all the same.
CallUnknownTool(c, q) ==
  /\ spent < budget /\ q.tool \notin Tools
  /\ spent' = spent + 1
  /\ pc' = [pc EXCEPT ![c] = "unknown"]
  /\ reply' = [reply EXCEPT ![c] = Failure("unknown_tool")]
  /\ UNCHANGED <<db, counts, trace, frame>>

\* Mutant: a call that sleeps is not counted.
CallTool_countsFinished(c, q) ==
  /\ spent < budget /\ q.tool \in Tools
  /\ counts' = [counts EXCEPT ![q.tool] = @ + 1]
  /\ frame' = [frame EXCEPT ![c] = NewFrame(q)]
  /\ IF TypeOf(NewFrame(q).rule) = "latency"
     THEN pc' = [pc EXCEPT ![c] = "sleeping"] /\ UNCHANGED <<db, trace, reply, spent>>
     ELSE Finish(c, NewFrame(q)) /\ spent' = spent + 1

CallTool(c, q) ==
  /\ spent < budget /\ q.tool \in Tools
  /\ spent' = spent + 1
  /\ counts' = [counts EXCEPT ![q.tool] = @ + 1]
  /\ frame' = [frame EXCEPT ![c] = NewFrame(q)]
  /\ IF TypeOf(NewFrame(q).rule) = "latency"
     THEN pc' = [pc EXCEPT ![c] = "sleeping"] /\ UNCHANGED <<db, trace, reply>>
     ELSE Finish(c, NewFrame(q))

\* A task of the agent calls a tool, be it after the adapter has ended.
Call(c, q) ==
  /\ pc[c] = "unborn"
  /\ Refuse(c) \/ CallUnknownTool(c, q) \/ CallTool(c, q)
  /\ UNCHANGED <<experiment, report>>

WakeUp(c) ==
  /\ pc[c] = "sleeping"
  /\ Finish(c, frame[c])
  /\ UNCHANGED <<experiment, counts, spent, frame, report>>

\* The agent's own timeout cancels the task that sleeps.
Cancel(c) ==
  /\ pc[c] = "sleeping"
  /\ pc' = [pc EXCEPT ![c] = "cancelled"]
  /\ UNCHANGED <<experiment, db, counts, spent, trace, frame, reply, report>>

-----------------------------------------------------------------------------
\* The runner.

Report(status) ==
  [broken |-> Broken(db, trace), claims |-> status = "completed", db |-> db,
   trace |-> trace, counts |-> counts, fired |-> Fired(trace)]

\* The adapter returns or raises.  State, trace and invariants are read at once.
AdapterEnds(status) ==
  /\ report = None
  /\ report' = Report(status)
  /\ UNCHANGED <<experiment, db, counts, spent, trace, pc, frame, reply>>

Init ==
  /\ rules \in {rs \in UNION {kSubset(n, FaultRules) : n \in 0..MaxRules} :
                  \A r, s \in rs : r # s => r.tool # s.tool \/ r.number # s.number}
  /\ budget \in Budgets
  /\ db = InitialState
  /\ counts = [t \in Tools |-> 0] /\ spent = 0 /\ trace = <<>>
  /\ pc = [c \in Calls |-> "unborn"]
  /\ frame = [c \in Calls |-> NoFrame]
  /\ reply = [c \in Calls |-> NoReply]
  /\ report = None

Next ==
  \/ \E c \in Calls, q \in Requests : Call(c, q)
  \/ \E c \in Calls : WakeUp(c) \/ Cancel(c)
  \/ \E status \in AgentStatuses : AdapterEnds(status)

Spec == Init /\ [][Next]_vars

-----------------------------------------------------------------------------
\* Properties.

\* However calls overlap, refund_after_cancellation says exactly this of a run: no refund
\* that was carried out had been requested while the order was not yet cancelled.
OrderVerdictIsExact ==
  RefundAfterCancellation(trace) <=>
    \A i \in SucceededCalls(trace, "refund_payment") : frame[trace[i].call].orderCancelled

Unkeyed(t, calls) == {i \in calls : t[i].request.key = NoKey}
KeysUsed(t, calls) == {NormalKey(t[i].request.key) : i \in calls} \ {NoKey}
Executions(t, calls) == MapThenSumSet(LAMBDA i : t[i].count, calls)
Restored(t, calls) == MapThenSumSet(LAMBDA i : t[i].count * t[i].request.quantity, calls)

\* What a trace says was made by the calls of a tool that takes keys.
MadeBy(t, tool) ==
  LET calls == SucceededCalls(t, tool)
  IN  Executions(t, Unkeyed(t, calls)) + Cardinality(KeysUsed(t, calls))

Explains(t, d) ==
  /\ d.orders[order] = "cancelled" <=> SucceededCalls(t, "cancel_order") # {}
  /\ Cardinality(DOMAIN d.refunds.entries) = MadeBy(t, "refund_payment")
  /\ Cardinality(DOMAIN d.notifications.entries) = MadeBy(t, "send_confirmation")
  /\ d.stock[sku] - InitialState.stock[sku] =
       Restored(t, SucceededCalls(t, "restore_inventory"))

\* The trace explains the state, to the last refund: nothing happens to the sandbox that the
\* records do not show, whichever answers were lost, calls cancelled or left in flight.  The
\* same holds of what a report says of both, for ever after it was made.
TraceExplainsState ==
  /\ Explains(trace, db)
  /\ report # None => Explains(report.trace, report.db)

\* What the agent is told happened did happen, unless a rule put words into the tool's mouth:
\* a number it is given is that of an entry for this very request.
AnswersAreBacked ==
  \A c \in Calls : reply[c] # NoReply /\ reply[c].ok /\ reply[c].response \notin Replacements =>
    LET q == frame[c].request
        answer == reply[c].response
    IN  CASE q.tool = "cancel_order"   -> db.orders[q.order] = "cancelled"
          [] q.tool = "refund_payment" ->
               /\ answer.id \in DOMAIN db.refunds.entries
               /\ db.refunds.entries[answer.id].request = RefundOf(q)
          [] q.tool = "restore_inventory" -> answer <= db.stock[q.sku]
          [] q.tool = "send_confirmation" ->
               /\ answer.id \in DOMAIN db.notifications.entries
               /\ db.notifications.entries[answer.id].request = ConfirmationOf(q)

\* The check of the budget and its use are not torn apart by calls in flight: no more calls
\* get through than it allows, and none is refused while it lasts.
BudgetHoldsUnderConcurrency ==
  LET through == {c \in Calls : pc[c] \notin {"unborn", "refused"}}
  IN  /\ Cardinality(through) <= budget
      /\ (\E c \in Calls : pc[c] = "refused") => Cardinality(through) = budget

\* A rule that is reported as fired met the one call it was meant for, in whatever order
\* calls ended.  One that is not, though the agent made the call, is a call that sleeps, was
\* cancelled, or an operation that failed on its own.
SilentRulesAreExplained ==
  \A r \in rules :
    LET met == {i \in DOMAIN trace : trace[i].rule = r}
        addressed == {c \in Calls : frame[c] # NoFrame /\ frame[c].request.tool = r.tool
                                                       /\ frame[c].number = r.number}
    IN  /\ Cardinality(met) <= 1
        /\ \A i \in met : trace[i].call \in addressed
        /\ met = {} /\ counts[r.tool] >= r.number =>
             \E c \in addressed :
               \/ r.type = "latency" /\ pc[c] \in {"sleeping", "cancelled"}
               \/ r.type \in AfterCallFaults /\
                    \E i \in DOMAIN trace : trace[i].call = c /\ trace[i].underlying = "error"

-----------------------------------------------------------------------------
\* A statement of the documentation that the code does not keep.

ValidBaseline == [broken |-> {}]

\* ComparisonVerdict.NOT_EXERCISED: "No configured fault was injected".  Here: no call that
\* was made before the report had been put to sleep by a latency fault.
NotExercisedMeansNotInjected ==
  report # None /\ Verdict(ValidBaseline, report) = "not_exercised" =>
    \A c \in Calls : frame[c] # NoFrame /\ frame[c].number <= report.counts[frame[c].request.tool]
                     => TypeOf(frame[c].rule) # "latency"
===============================================================================
