----------------------------- MODULE ToolExecutor -----------------------------
(***************************************************************************)
(* The fault engine: DirectToolExecutor and FaultInjectingToolExecutor of  *)
(* rift_fault_engine/executor.py, with the recorder they write to.         *)
(*                                                                         *)
(* Several agent tasks share one executor on one event loop.  A task runs  *)
(* without interruption from one suspension point to the next, and each    *)
(* action below is one such stretch: everything from the entry of execute  *)
(* to its first await is one step (Invoke), and so is everything from the  *)
(* resumption after an await to the return to the caller.                  *)
(*                                                                         *)
(* The operation behind a call is not in this package.  It is an arbitrary *)
(* coroutine: it takes effect at some point and returns afterwards, or it  *)
(* raises, before or after its effect.                                     *)
(***************************************************************************)
EXTENDS Integers, Sequences, FiniteSets, FaultSemantics

CONSTANTS
  Calls,         \* the calls to execute(), each made at most once
  Experiments,   \* experiment identifiers
  RunIds,        \* run identifiers
  Contexts,      \* the ExecutionContexts that calls are made in
  Tools,         \* tool names
  FaultRules,    \* the rules given to the executor, {} for DirectToolExecutor
  NoFrame,       \* the frame of a call not made yet
  Disturbances   \* which of "cancel" and "clock" the environment may cause

ASSUME CallsAssumption == IsFiniteSet(Calls)

ASSUME ContextsAssumption ==
  Contexts \subseteq [experiment : Experiments, run : RunIds, mode : {"baseline", "faulted"}]

\* The constructor refuses two rules with the same selector.
ASSUME FaultRulesAssumption ==
  /\ FaultRules \subseteq [tool : Tools, number : Nat \ {0}, type : FaultTypes]
  /\ \A r, s \in FaultRules : r.tool = s.tool /\ r.number = s.number => r = s
  /\ NoRule \notin FaultRules

ASSUME DisturbancesAssumption == Disturbances \subseteq {"cancel", "clock"}

VARIABLES
  invocationCounts,   \* _invocation_counts, a missing key read as 0
  started,            \* _started, a missing key read as 0
  completed,          \* _completed, a missing key read as 0
  startEvidence,      \* _start_evidence, a partial function
  records,            \* InMemoryInvocationRecorder._records
  pc,                 \* where the coroutine of each call is suspended
  frame,              \* what the coroutine of each call holds in its locals
  delivered,          \* how often the operation of each call was started
  effects,            \* how often the operation of each call took effect
  reply               \* what the caller of each call was given

counterVars == <<invocationCounts, started>>
worldVars == <<delivered, effects>>
vars == <<invocationCounts, started, completed, startEvidence, records,
          pc, frame, delivered, effects, reply>>

RunKeys == Experiments \X RunIds
ToolKeys == Experiments \X RunIds \X Tools
RunKey(x) == <<x.experiment, x.run>>
ToolKey(x, t) == <<x.experiment, x.run, t>>
EvidenceKey(f) == <<f.context.experiment, f.context.run, f.tool, f.number>>

Frames == [context : Contexts, tool : Tools, number : Nat, rule : FaultRules \cup {NoRule}]
Evidence == [sequence : Nat, completedBefore : Nat]
Replies == {"result", "error", "replacement", "injected", "ambiguous"}

Records ==
  [call : Calls, run : RunIds, tool : Tools, number : Nat,
   sequence : Nat, completedBefore : Nat, rule : FaultRules \cup {NoRule},
   executed : BOOLEAN, committed : {"true", "false", "unknown"}, count : 0..2,
   underlying : {"none", "result", "error", "pair"}, caller : Replies]

Suspended == {"sleeping", "operating", "redelivering"}
Invoked(c) == pc[c] # "idle"

TypeOK ==
  /\ invocationCounts \in [ToolKeys -> Nat]
  /\ started \in [RunKeys -> Nat]
  /\ completed \in [RunKeys -> Nat]
  /\ DOMAIN startEvidence \subseteq Experiments \X RunIds \X Tools \X Nat
  /\ \A k \in DOMAIN startEvidence : startEvidence[k] \in Evidence
  /\ records \in Seq(Records)
  /\ pc \in [Calls -> Suspended \cup {"idle", "finished", "cancelled"}]
  /\ frame \in [Calls -> Frames \cup {NoFrame}]
  /\ \A c \in Calls : Invoked(c) => frame[c] \in Frames
  /\ delivered \in [Calls -> 0..2]
  /\ effects \in [Calls -> 0..2]
  /\ reply \in [Calls -> Replies \cup {"none", "record_failed", "cancelled"}]

Init ==
  /\ invocationCounts = [k \in ToolKeys |-> 0]
  /\ started = [k \in RunKeys |-> 0]
  /\ completed = [k \in RunKeys |-> 0]
  /\ startEvidence = [k \in {} |-> [sequence |-> 0, completedBefore |-> 0]]
  /\ records = <<>>
  /\ pc = [c \in Calls |-> "idle"]
  /\ frame = [c \in Calls |-> NoFrame]
  /\ delivered = [c \in Calls |-> 0]
  /\ effects = [c \in Calls |-> 0]
  /\ reply = [c \in Calls |-> "none"]

-----------------------------------------------------------------------------
\* Operators of the executor.

\* Mutant: the run mode is not asked.
MatchingRule_inAnyMode(t, n, mode) ==
  IF \E r \in FaultRules : Matches(r, t, n, "faulted")
  THEN CHOOSE r \in FaultRules : Matches(r, t, n, "faulted")
  ELSE NoRule

\* _matching_rule: no two rules have the same selector.
MatchingRule(t, n, mode) ==
  IF \E r \in FaultRules : Matches(r, t, n, mode)
  THEN CHOOSE r \in FaultRules : Matches(r, t, n, mode)
  ELSE NoRule

\* Mutant: calls are numbered by completion.
NewEvidence_byCompletion(x) ==
  [sequence |-> completed[RunKey(x)] + 1, completedBefore |-> completed[RunKey(x)]]

\* Mutant: the calls begun are remembered instead of the calls completed.
NewEvidence_behindStarted(x) ==
  [sequence |-> started[RunKey(x)] + 1, completedBefore |-> started[RunKey(x)]]

\* The evidence a call gets as it starts.
NewEvidence(x) ==
  [sequence |-> started[RunKey(x)] + 1, completedBefore |-> completed[RunKey(x)]]

\* Mutant: one counter for all tools of the run.
NewFrame_numberedByRun(x, t) ==
  LET n == started[RunKey(x)] + 1
  IN  [context |-> x, tool |-> t, number |-> n, rule |-> MatchingRule(t, n, x.mode)]

NewFrame(x, t) ==
  LET n == invocationCounts[ToolKey(x, t)] + 1
  IN  [context |-> x, tool |-> t, number |-> n, rule |-> MatchingRule(t, n, x.mode)]

\* _next_invocation_number, except for the entry in startEvidence.
NextInvocationNumber(c, x, t) ==
  /\ invocationCounts' = [invocationCounts EXCEPT ![ToolKey(x, t)] = @ + 1]
  /\ started' = [started EXCEPT ![RunKey(x)] = @ + 1]
  /\ frame' = [frame EXCEPT ![c] = NewFrame(x, t)]

RememberStart(f, e) ==
  startEvidence' =
    [k \in DOMAIN startEvidence \cup {EvidenceKey(f)} |->
       IF k = EvidenceKey(f) THEN e ELSE startEvidence[k]]

ForgetStart(f) ==
  startEvidence' = [k \in DOMAIN startEvidence \ {EvidenceKey(f)} |-> startEvidence[k]]

\* The record of call c, which holds the frame f and the start evidence e.
Entry(c, f, e, outcome, caller) ==
  [call |-> c, run |-> f.context.run, tool |-> f.tool, number |-> f.number,
   sequence |-> e.sequence, completedBefore |-> e.completedBefore,
   rule |-> outcome.rule, executed |-> outcome.executed,
   committed |-> outcome.committed, count |-> outcome.count,
   underlying |-> outcome.underlying, caller |-> caller]

\* Mutant: the counter moves before the record is validated.
Record_countsRefused(c, f, e, outcome, caller) ==
  /\ completed' = [completed EXCEPT ![RunKey(f.context)] = @ + 1]
  /\ \/ /\ records' = Append(records, Entry(c, f, e, outcome, caller))
        /\ reply' = [reply EXCEPT ![c] = caller]
     \/ /\ "clock" \in Disturbances
        /\ reply' = [reply EXCEPT ![c] = "record_failed"]
        /\ UNCHANGED records

\* Mutant: the record is stored before it is validated.
Record_storesRefused(c, f, e, outcome, caller) ==
  /\ completed' = [completed EXCEPT ![RunKey(f.context)] = @ + 1]
  /\ records' = Append(records, Entry(c, f, e, outcome, caller))
  /\ reply' = [reply EXCEPT ![c] = IF "clock" \in Disturbances THEN "record_failed" ELSE caller]

\* _record.  The counter and the recorder move together and only when the record
\* passes validation; a wall clock set back during the call makes it fail, and the
\* caller is then given the validation error in place of the outcome.
Record(c, f, e, outcome, caller) ==
  \/ /\ completed' = [completed EXCEPT ![RunKey(f.context)] = @ + 1]
     /\ records' = Append(records, Entry(c, f, e, outcome, caller))
     /\ reply' = [reply EXCEPT ![c] = caller]
  \/ /\ "clock" \in Disturbances
     /\ reply' = [reply EXCEPT ![c] = "record_failed"]
     /\ UNCHANGED <<completed, records>>

\* Mutant: the evidence is read but not removed.
Settle_keepsEvidence(c, outcome, caller) ==
  /\ pc' = [pc EXCEPT ![c] = "finished"]
  /\ Record(c, frame[c], startEvidence[EvidenceKey(frame[c])], outcome, caller)
  /\ UNCHANGED <<counterVars, startEvidence, frame>>

\* A suspended call c ends: its evidence is popped whether or not the record is accepted.
Settle(c, outcome, caller) ==
  /\ pc' = [pc EXCEPT ![c] = "finished"]
  /\ ForgetStart(frame[c])
  /\ Record(c, frame[c], startEvidence[EvidenceKey(frame[c])], outcome, caller)
  /\ UNCHANGED <<counterVars, frame>>

-----------------------------------------------------------------------------
\* execute() up to its first suspension.

InvokeRejected(c, x, t) ==
  LET f == NewFrame(x, t)
  IN  /\ TypeOf(f.rule) \in RejectingFaults
      /\ pc' = [pc EXCEPT ![c] = "finished"]
      /\ Record(c, f, NewEvidence(x), Refused(f.rule), "injected")
      /\ UNCHANGED <<startEvidence, worldVars>>

InvokeDelayed(c, x, t) ==
  LET f == NewFrame(x, t)
  IN  /\ TypeOf(f.rule) = "latency"
      /\ pc' = [pc EXCEPT ![c] = "sleeping"]
      /\ RememberStart(f, NewEvidence(x))
      /\ UNCHANGED <<completed, records, reply, worldVars>>

InvokeOperation(c, x, t) ==
  LET f == NewFrame(x, t)
  IN  /\ TypeOf(f.rule) \in AfterCallFaults \cup {"none"}
      /\ pc' = [pc EXCEPT ![c] = "operating"]
      /\ RememberStart(f, NewEvidence(x))
      /\ delivered' = [delivered EXCEPT ![c] = 1]
      /\ UNCHANGED <<completed, records, reply, effects>>

Invoke(c, x, t) ==
  /\ pc[c] = "idle"
  /\ NextInvocationNumber(c, x, t)
  /\ \/ InvokeRejected(c, x, t)
     \/ InvokeDelayed(c, x, t)
     \/ InvokeOperation(c, x, t)

\* The sleep of a latency rule ends and the operation is started.
WakeUp(c) ==
  /\ pc[c] = "sleeping"
  /\ pc' = [pc EXCEPT ![c] = "operating"]
  /\ delivered' = [delivered EXCEPT ![c] = 1]
  /\ UNCHANGED <<counterVars, completed, startEvidence, records, frame, effects, reply>>

\* The running delivery takes effect in the world.
TakeEffect(c) ==
  /\ pc[c] \in {"operating", "redelivering"}
  /\ effects[c] < delivered[c]
  /\ effects' = [effects EXCEPT ![c] = @ + 1]
  /\ UNCHANGED <<counterVars, completed, startEvidence, records, pc, frame, delivered, reply>>

\* The operation returns; a duplicate rule goes straight on to the second delivery.
OperationReturns(c) ==
  /\ pc[c] = "operating"
  /\ effects[c] = delivered[c]
  /\ TypeOf(frame[c].rule) # "duplicate_request"
  /\ Settle(c, Succeeded(frame[c].rule), CallerSees(frame[c].rule))
  /\ UNCHANGED worldVars

Redeliver(c) ==
  /\ pc[c] = "operating"
  /\ effects[c] = delivered[c]
  /\ TypeOf(frame[c].rule) = "duplicate_request"
  /\ pc' = [pc EXCEPT ![c] = "redelivering"]
  /\ delivered' = [delivered EXCEPT ![c] = 2]
  /\ UNCHANGED <<counterVars, completed, startEvidence, records, frame, effects, reply>>

OperationRaises(c) ==
  /\ pc[c] = "operating"
  /\ Settle(c, Failed(frame[c].rule), "error")
  /\ UNCHANGED worldVars

\* Mutant: the transport delivers again until something stops it.
RedeliveryEnds_deliversAgain(c) ==
  /\ pc[c] = "redelivering"
  /\ pc' = [pc EXCEPT ![c] = "operating"]
  /\ UNCHANGED <<counterVars, completed, startEvidence, records, frame, worldVars, reply>>

\* The second delivery returns or raises: the caller is shown the first result.
RedeliveryEnds(c) ==
  /\ pc[c] = "redelivering"
  /\ Settle(c, DeliveredTwice(frame[c].rule), "result")
  /\ UNCHANGED worldVars

\* The caller's task is cancelled at the await.  No handler catches CancelledError:
\* nothing is recorded and the evidence stays in the dictionary.
Cancel(c) ==
  /\ "cancel" \in Disturbances
  /\ pc[c] \in Suspended
  /\ pc' = [pc EXCEPT ![c] = "cancelled"]
  /\ reply' = [reply EXCEPT ![c] = "cancelled"]
  /\ UNCHANGED <<counterVars, completed, startEvidence, records, frame, worldVars>>

Next ==
  \E c \in Calls :
     \/ \E x \in Contexts, t \in Tools : Invoke(c, x, t)
     \/ WakeUp(c)
     \/ TakeEffect(c)
     \/ OperationReturns(c)
     \/ Redeliver(c)
     \/ OperationRaises(c)
     \/ RedeliveryEnds(c)
     \/ Cancel(c)

\* The event loop ends every sleep, and an operation that is awaited ends.
Progress(c) ==
  \/ WakeUp(c)
  \/ TakeEffect(c)
  \/ OperationReturns(c)
  \/ Redeliver(c)
  \/ OperationRaises(c)
  \/ RedeliveryEnds(c)

Spec == Init /\ [][Next]_vars

FairSpec == Spec /\ \A c \in Calls : WF_vars(Progress(c))

-----------------------------------------------------------------------------
\* Properties.

\* invocations_for(context): the records of its run, in the order of completion.
InvocationsFor(x) == SelectSeq(records, LAMBDA r : r.run = x.run)

RecordOf(c) == CHOOSE i \in DOMAIN records : records[i].call = c
HasRecord(c) == \E i \in DOMAIN records : records[i].call = c
Peers(c) == {d \in Calls : Invoked(d) /\ RunKey(frame[d].context) = RunKey(frame[c].context)}

\* The start evidence is exactly that of the calls still suspended or cancelled, one
\* entry each: no call finds its entry taken by another, and no finished call leaves one.
EvidenceMatchesPendingCalls ==
  LET pending == {c \in Calls : pc[c] \in Suspended \cup {"cancelled"}}
  IN  /\ DOMAIN startEvidence = {EvidenceKey(frame[c]) : c \in pending}
      /\ Cardinality(DOMAIN startEvidence) = Cardinality(pending)

\* The calls of a run to one tool carry the numbers 1, 2, 3, ... without gap or repeat,
\* however they interleave, end, or are cancelled, and whatever other runs do: the
\* number a fault rule waits for is met by exactly one call as soon as enough have begun.
InvocationNumbersAreDense ==
  \A c \in Calls : Invoked(c) =>
    LET same == {d \in Peers(c) : frame[d].tool = frame[c].tool}
    IN  {frame[d].number : d \in same} = 1..Cardinality(same)

\* A call that begins after k records of its run were made carries k, and its sequence
\* number is greater: ToolInvocation's own check can never refuse it.
StartEvidenceIsOrdered ==
  /\ \A k \in DOMAIN startEvidence :
        startEvidence[k].completedBefore < startEvidence[k].sequence
  /\ \A i \in DOMAIN records : records[i].completedBefore < records[i].sequence

\* ToolInvocation refuses no record that a branch of execute makes, however calls overlap,
\* as long as the wall clock runs on: what would be refused would vanish from the trace.
RecordsPassTheirValidator ==
  \A i \in DOMAIN records :
    records[i].completedBefore < records[i].sequence /\ IsConsistent(records[i])

\* Within a run, sequence numbers identify calls, recorded or pending.
SequenceNumbersAreUnique ==
  /\ \A i, j \in DOMAIN records :
        /\ RunKey(frame[records[i].call].context) = RunKey(frame[records[j].call].context)
        /\ records[i].sequence = records[j].sequence
        => i = j
  /\ \A i \in DOMAIN records, k \in DOMAIN startEvidence :
        RunKey(frame[records[i].call].context) = <<k[1], k[2]>>
        => records[i].sequence # startEvidence[k].sequence
  /\ \A k, l \in DOMAIN startEvidence :
        /\ <<k[1], k[2]>> = <<l[1], l[2]>>
        /\ startEvidence[k].sequence = startEvidence[l].sequence
        => k = l

\* The completion counter of a run is the number of its records, so that a count taken
\* at a start is a position in the list the recorder hands out.
CompletedCountsRecords ==
  \A k \in RunKeys :
    completed[k] =
      Cardinality({i \in DOMAIN records : RunKey(frame[records[i].call].context) = k})

\* What a record says of the world is so: how often the operation was started, that a
\* commit said to be known has happened or has not, and what the caller was given.
RecordsTellTheTruth ==
  \A i \in DOMAIN records :
    LET r == records[i]
        c == r.call
    IN  /\ r.executed <=> delivered[c] > 0
        /\ r.count = delivered[c]
        /\ r.committed = "true" => effects[c] = 1
        /\ r.committed = "false" => effects[c] = 0
        /\ r.underlying \in {"result", "pair"} => effects[c] >= 1
        /\ r.caller = reply[c]
        /\ pc[c] = "finished"

\* A record names the rule that matched its call.  A rule that matched goes unnamed only if
\* it acts on an operation that has returned and the operation raised; without a rule the
\* caller was given what the operation did, once.
RecordsNameTheirRule ==
  \A i \in DOMAIN records :
    LET r == records[i]
        matching == {rule \in FaultRules :
                       Matches(rule, r.tool, r.number, frame[r.call].context.mode)}
    IN  /\ r.rule # NoRule => r.rule \in matching
        /\ r.rule = NoRule =>
             /\ r.caller \in {"result", "error"} /\ r.count = 1
             /\ \A rule \in matching :
                  rule.type \in AfterCallFaults /\ r.underlying = "error" /\ r.caller = "error"

\* A call that ended has exactly one record, unless its record was refused or it was
\* cancelled, and then it has none.
SettledCallsHaveOneRecord ==
  /\ \A i, j \in DOMAIN records : records[i].call = records[j].call => i = j
  /\ \A c \in Calls :
        HasRecord(c) <=> pc[c] = "finished" /\ reply[c] # "record_failed"

\* Every call that is made comes to an end.
EveryCallEnds ==
  \A c \in Calls : Invoked(c) ~> pc[c] \in {"finished", "cancelled"}

-----------------------------------------------------------------------------
\* The order that happened_before reads off the trace.

\* One-based position of a record in the trace of its run.
CompletionPosition(i) ==
  Cardinality({j \in 1..i : records[j].run = records[i].run})

EvidenceOf(c) ==
  IF HasRecord(c) THEN records[RecordOf(c)].completedBefore
  ELSE startEvidence[EvidenceKey(frame[c])].completedBefore

HappenedBefore(i, k) == CompletionPosition(i) <= k

CallBehind(c) ==
  IF HasRecord(c) \/ pc[c] \in Suspended
  THEN {records[i].call : i \in {j \in DOMAIN records :
          /\ records[j].run = frame[c].context.run
          /\ HappenedBefore(j, EvidenceOf(c))}}
  ELSE {}

CallStatus(c) ==
  CASE pc[c] = "idle"      -> "unborn"
    [] pc[c] \in Suspended -> "open"
    [] HasRecord(c)        -> "closed"
    [] OTHER               -> "lost"

Order == INSTANCE CallOrder WITH
  Runs   <- RunKeys,
  status <- [c \in Calls |-> CallStatus(c)],
  runOf  <- [c \in Calls |-> IF Invoked(c) THEN {RunKey(frame[c].context)} ELSE {}],
  behind <- [c \in Calls |-> CallBehind(c)]

\* The counters say what CallOrder says: a call's evidence places behind it exactly the
\* calls of its run that had been recorded when it began.
ImplementsCallOrder == Order!Spec

\* What an ordering invariant may rely on: "finished before it was requested" is a strict
\* order on the records of a run and relates no calls of different runs.
HappenedBeforeIsStrict == Order!OrderIsStrict

-----------------------------------------------------------------------------
\* Statements of the documentation that the code does not keep.

\* docs/architecture.md: "Every sandbox tool call produces a ToolInvocation record".
EndedCallsWithEffectsAreRecorded ==
  \A c \in Calls :
    pc[c] \in {"finished", "cancelled"} /\ effects[c] > 0 => HasRecord(c)

\* invocations_for: "Return records belonging to one run context".
TracesBelongToTheirContext ==
  \A x \in Contexts : \A i \in DOMAIN InvocationsFor(x) :
    RunKey(frame[InvocationsFor(x)[i].call].context) = RunKey(x)
=============================================================================
