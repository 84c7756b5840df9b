-------------------------- MODULE ConcurrentRunProofs --------------------------
(***************************************************************************)
(* What holds of a run however many calls an agent has in flight, whatever *)
(* it asks for and whichever rules and budget an experiment has.           *)
(*                                                                         *)
(* RunInv says what calls, frames and records have to do with each other;  *)
(* the budget, the ordering invariant, the rules that fire and the answers *)
(* each need one more fact that is inductive together with it.  That the   *)
(* trace explains the state needs the most: what every operation does to   *)
(* the ledgers and to the stock, once or twice over, and how the sums of a *)
(* trace grow by one record.                                               *)
(***************************************************************************)
EXTENDS ConcurrentRun, Recursion

Unnumbered == {"unborn", "refused", "unknown"}

Records ==
  [call : Calls, tool : Tools, request : Requests, number : Nat \ {0},
   completedBefore : Nat, rule : FaultRules \cup {NoRule}, executed : BOOLEAN,
   committed : {"false", "true", "unknown"}, count : 0..2,
   underlying : {"none", "error", "result", "pair"},
   caller : {"injected", "error", "result", "ambiguous", "replacement"}]

\* A record is made of the frame of its call.
IsRecordOf(r, f) ==
  /\ r.tool = f.request.tool /\ r.request = f.request /\ r.number = f.number
  /\ r.completedBefore = f.completedBefore
  /\ r.rule \in {f.rule, NoRule}
  /\ r.rule = NoRule /\ f.rule # NoRule =>
       f.rule.type \in AfterCallFaults /\ r.underlying = "error"

Typed ==
  /\ rules \subseteq FaultRules /\ budget \in Budgets
  /\ counts \in [Tools -> Nat] /\ spent \in 0..budget
  /\ trace \in Seq(Records)
  /\ pc \in [Calls -> States]
  /\ frame \in [Calls -> AnyFrame \cup {NoFrame}]

RunInv ==
  /\ Typed
  /\ \A c \in Calls : frame[c] = NoFrame <=> pc[c] \in Unnumbered
  /\ \A c \in Calls : frame[c] # NoFrame =>
       /\ frame[c].request.tool \in Tools
       /\ frame[c].rule = RuleFor(frame[c].request.tool, frame[c].number)
       /\ pc[c] \in {"sleeping", "cancelled"} => TypeOf(frame[c].rule) = "latency"
  /\ \A i \in DOMAIN trace :
       pc[trace[i].call] = "ended" /\ IsRecordOf(trace[i], frame[trace[i].call])

-----------------------------------------------------------------------------
\* One call.

LEMMA RecordedCalls ==
  ASSUME Typed, NEW i \in DOMAIN trace
  PROVE  trace[i] \in Records /\ trace[i].call \in Calls
<1>1. trace[i] \in Records
  BY DEF Typed
<1>. QED
  BY <1>1 DEF Records

LEMMA RuleForType ==
  ASSUME rules \subseteq FaultRules, NEW t, NEW n
  PROVE  /\ RuleFor(t, n) \in rules \cup {NoRule}
         /\ RuleFor(t, n) # NoRule =>
              RuleFor(t, n) \in rules /\ RuleFor(t, n).tool = t /\ RuleFor(t, n).number = n
<1>1. CASE \E r \in rules : Matches(r, t, n, "faulted")
  <2>. DEFINE found == CHOOSE r \in rules : Matches(r, t, n, "faulted")
  <2>1. found \in rules /\ Matches(found, t, n, "faulted")
    BY <1>1
  <2>2. RuleFor(t, n) = found
    BY <1>1 DEF RuleFor
  <2>. QED
    BY <2>1, <2>2 DEF Matches
<1>2. CASE ~ \E r \in rules : Matches(r, t, n, "faulted")
  BY <1>2 DEF RuleFor
<1>. QED
  BY <1>1, <1>2

\* What a call records, and what it leaves of the sandbox.
LEMMA Executes ==
  ASSUME NEW d, NEW first, NEW second, NEW r \in FaultRules \cup {NoRule}
  PROVE  LET e == Execute(d, first, second, r)
             o == e.outcome
         IN  /\ o.executed \in BOOLEAN /\ o.committed \in {"false", "true", "unknown"}
             /\ o.count \in 0..2 /\ o.underlying \in {"none", "error", "result", "pair"}
             /\ e.caller \in {"injected", "error", "result", "ambiguous", "replacement"}
             /\ o.rule \in {r, NoRule}
             /\ o.rule = NoRule /\ r # NoRule =>
                  r.type \in AfterCallFaults /\ o.underlying = "error"
             /\ \/ ~o.executed /\ e.db = d
                \/ o.executed /\ o.underlying = "error" /\ first.answer = Raised
                              /\ e.db = first.db
                \/ o.executed /\ o.underlying # "error" /\ first.answer # Raised
                              /\ e.db \in {first.db, second.db}
<1>. DEFINE e == Execute(d, first, second, r)
<1>. SUFFICES /\ e.outcome.executed \in BOOLEAN
              /\ e.outcome.committed \in {"false", "true", "unknown"}
              /\ e.outcome.count \in 0..2
              /\ e.outcome.underlying \in {"none", "error", "result", "pair"}
              /\ e.caller \in {"injected", "error", "result", "ambiguous", "replacement"}
              /\ e.outcome.rule \in {r, NoRule}
              /\ e.outcome.rule = NoRule /\ r # NoRule =>
                   r.type \in AfterCallFaults /\ e.outcome.underlying = "error"
              /\ \/ ~e.outcome.executed /\ e.db = d
                 \/ /\ e.outcome.executed /\ e.outcome.underlying = "error"
                    /\ first.answer = Raised /\ e.db = first.db
                 \/ /\ e.outcome.executed /\ e.outcome.underlying # "error"
                    /\ first.answer # Raised /\ e.db \in {first.db, second.db}
  OBVIOUS
<1>1. r # NoRule => r.type \in FaultTypes
  BY FaultRulesAssumption
<1>2. CASE TypeOf(r) \in RejectingFaults
  <2>1. e = Executed(d, Refused(r), "injected", None)
    BY <1>2 DEF Execute, RejectingFaults
  <2>2. e.db = d /\ e.outcome = Refused(r) /\ e.caller = "injected"
    BY <2>1 DEF Executed
  <2>3. r # NoRule
    BY <1>2 DEF TypeOf, RejectingFaults
  <2>. HIDE DEF e
  <2>. QED
    BY <2>2, <2>3 DEF Refused, Outcome
<1>3. CASE TypeOf(r) \notin RejectingFaults /\ first.answer = Raised
  <2>1. e = Executed(first.db, Failed(r), "error", None)
    BY <1>3 DEF Execute
  <2>2. e.db = first.db /\ e.outcome = Failed(r) /\ e.caller = "error"
    BY <2>1 DEF Executed
  <2>3. r.type \in AfterCallFaults \/ r = NoRule \/ TypeOf(r) = "latency"
    BY <1>1, <1>3 DEF TypeOf, FaultTypes
  <2>. HIDE DEF e
  <2>. QED
    BY <1>3, <2>2, <2>3 DEF Failed, Outcome
<1>4. CASE TypeOf(r) = "duplicate_request" /\ first.answer # Raised
  <2>1. e = Executed(second.db, DeliveredTwice(r), "result", first.answer)
    BY <1>4 DEF Execute, RejectingFaults
  <2>2. e.db = second.db /\ e.outcome = DeliveredTwice(r) /\ e.caller = "result"
    BY <2>1 DEF Executed
  <2>. HIDE DEF e
  <2>. QED
    BY <1>4, <2>2 DEF DeliveredTwice, Outcome
<1>5. CASE TypeOf(r) \notin RejectingFaults /\ first.answer # Raised
           /\ TypeOf(r) # "duplicate_request"
  <2>1. e = Executed(first.db, Succeeded(r), CallerSees(r), first.answer)
    BY <1>5 DEF Execute
  <2>2. e.db = first.db /\ e.outcome = Succeeded(r) /\ e.caller = CallerSees(r)
    BY <2>1 DEF Executed
  <2>3. CallerSees(r) \in {"result", "ambiguous", "replacement"}
    BY DEF CallerSees
  <2>. HIDE DEF e
  <2>. QED
    BY <1>5, <2>2, <2>3 DEF Succeeded, Outcome
<1>. QED
  BY <1>2, <1>3, <1>4, <1>5

\* What Finish does to calls and records.
LEMMA Finishes ==
  ASSUME Typed, NEW c \in Calls, NEW f \in AnyFrame, f.request.tool \in Tools, Finish(c, f)
  PROVE  /\ pc' = [pc EXCEPT ![c] = "ended"]
         /\ trace' \in Seq(Records)
         /\ Len(trace) \in Nat /\ DOMAIN trace = 1..Len(trace)
         /\ DOMAIN trace' = DOMAIN trace \cup {Len(trace) + 1}
         /\ Len(trace) + 1 \notin DOMAIN trace
         /\ \A i \in DOMAIN trace : trace'[i] = trace[i]
         /\ trace'[Len(trace) + 1].call = c
         /\ IsRecordOf(trace'[Len(trace) + 1], f)
<1>. DEFINE first == Handle(db, f.request)
            second == Handle(first.db, f.request)
            e == Execute(db, first, second, f.rule)
            entry == Entry(c, f, e)
<1>1. trace' = Append(trace, entry) /\ pc' = [pc EXCEPT ![c] = "ended"]
  BY DEF Finish
<1>2. f.rule \in FaultRules \cup {NoRule}
  BY DEF AnyFrame
<1>3. entry \in Records /\ entry.call = c /\ IsRecordOf(entry, f)
  <2>. HIDE DEF first, second
  <2>1. /\ e.outcome.executed \in BOOLEAN
        /\ e.outcome.committed \in {"false", "true", "unknown"}
        /\ e.outcome.count \in 0..2
        /\ e.outcome.underlying \in {"none", "error", "result", "pair"}
        /\ e.caller \in {"injected", "error", "result", "ambiguous", "replacement"}
        /\ e.outcome.rule \in {f.rule, NoRule}
        /\ e.outcome.rule = NoRule /\ f.rule # NoRule =>
             f.rule.type \in AfterCallFaults /\ e.outcome.underlying = "error"
    BY <1>2, Executes
  <2>. HIDE DEF e
  <2>2. e.outcome.rule \in FaultRules \cup {NoRule}
    BY <1>2, <2>1
  <2>3. f.request \in Requests /\ f.number \in Nat \ {0} /\ f.completedBefore \in Nat
    BY DEF AnyFrame
  <2>. QED
    BY <2>1, <2>2, <2>3 DEF Entry, Records, IsRecordOf
<1>. HIDE DEF entry
<1>4. trace \in Seq(Records)
  BY DEF Typed
<1>. QED
  BY <1>1, <1>3, <1>4

\* What CallTool gives a call.
LEMMA NewFrames ==
  ASSUME Typed, NEW q \in Requests, q.tool \in Tools
  PROVE  /\ NewFrame(q) \in AnyFrame
         /\ NewFrame(q).request = q /\ NewFrame(q).number = counts[q.tool] + 1
         /\ NewFrame(q).completedBefore = Len(trace)
         /\ NewFrame(q).rule = RuleFor(q.tool, counts[q.tool] + 1)
         /\ NewFrame(q).orderCancelled <=> db.orders[order] = "cancelled"
<1>1. counts[q.tool] + 1 \in Nat \ {0} /\ Len(trace) \in Nat
  BY DEF Typed
<1>2. RuleFor(q.tool, counts[q.tool] + 1) \in FaultRules \cup {NoRule}
  BY RuleForType DEF Typed
<1>. QED
  BY <1>1, <1>2 DEF NewFrame, AnyFrame

-----------------------------------------------------------------------------
\* Calls, frames and records.

LEMMA InitRun == Init => RunInv
<1>. SUFFICES ASSUME Init PROVE RunInv
  OBVIOUS
<1>1. rules \subseteq FaultRules
  BY DEF Init, kSubset
<1>2. budget \in Nat /\ 0 \in 0..budget
  BY CallsAssumption DEF Init
<1>3. Typed
  BY <1>1, <1>2 DEF Init, Typed, States
<1>. QED
  BY <1>3 DEF Init, RunInv, Unnumbered

\* A call that ends, whether it slept or not.
LEMMA FinishKeepsRun ==
  ASSUME RunInv, NEW c \in Calls, NEW f \in AnyFrame, Finish(c, f),
         pc[c] \in {"unborn", "sleeping"},
         f.request.tool \in Tools, f.rule = RuleFor(f.request.tool, f.number),
         frame' = [frame EXCEPT ![c] = f],
         counts' \in [Tools -> Nat], spent' \in 0..budget, UNCHANGED experiment
  PROVE  RunInv'
<1>1. Typed /\ rules' = rules /\ budget' = budget
  BY DEF RunInv, experiment
<1>2. /\ pc' = [pc EXCEPT ![c] = "ended"]
      /\ trace' \in Seq(Records)
      /\ DOMAIN trace' = DOMAIN trace \cup {Len(trace) + 1}
      /\ \A i \in DOMAIN trace : trace'[i] = trace[i]
      /\ trace'[Len(trace) + 1].call = c
      /\ IsRecordOf(trace'[Len(trace) + 1], f)
  BY <1>1, Finishes
<1>3. Typed'
  BY <1>1, <1>2 DEF Typed, States
<1>4. \A b \in Calls : b # c => pc'[b] = pc[b] /\ frame'[b] = frame[b]
  BY <1>1, <1>2 DEF Typed
<1>5. pc'[c] = "ended" /\ frame'[c] = f /\ f # NoFrame
  BY <1>1, <1>2, MarkersAssumption DEF Typed
<1>7. ASSUME NEW i \in DOMAIN trace'
      PROVE  pc'[trace'[i].call] = "ended" /\ IsRecordOf(trace'[i], frame'[trace'[i].call])
  <2>1. CASE i = Len(trace) + 1
    BY <1>2, <1>5, <2>1
  <2>2. CASE i \in DOMAIN trace
    <3>1. /\ trace'[i] = trace[i] /\ trace[i].call \in Calls
          /\ pc[trace[i].call] = "ended" /\ IsRecordOf(trace[i], frame[trace[i].call])
      BY <1>1, <1>2, <2>2, RecordedCalls DEF RunInv
    <3>. QED
      BY <1>4, <3>1
  <2>. QED
    BY <1>2, <1>7, <2>1, <2>2
<1>8. \A b \in Calls : frame'[b] = NoFrame <=> pc'[b] \in Unnumbered
  BY <1>4, <1>5 DEF RunInv, Unnumbered
<1>9. ASSUME NEW b \in Calls, frame'[b] # NoFrame
      PROVE  /\ frame'[b].request.tool \in Tools
             /\ (frame[b].rule = RuleFor(frame[b].request.tool, frame[b].number))'
             /\ pc'[b] \in {"sleeping", "cancelled"} => TypeOf(frame'[b].rule) = "latency"
  <2>1. CASE b = c
    BY <1>1, <1>5, <2>1 DEF RuleFor
  <2>2. CASE b # c
    BY <1>1, <1>4, <1>9, <2>2 DEF RunInv, RuleFor
  <2>. QED
    BY <2>1, <2>2
<1>. QED
  BY <1>3, <1>7, <1>8, <1>9 DEF RunInv

\* A call that moves without a record.
LEMMA MoveKeepsRun ==
  ASSUME RunInv, NEW c \in Calls, NEW state \in States \ {"ended"},
         NEW f \in AnyFrame \cup {NoFrame},
         pc[c] # "ended", pc' = [pc EXCEPT ![c] = state],
         frame' = [frame EXCEPT ![c] = f],
         f = NoFrame <=> state \in Unnumbered,
         f # NoFrame => /\ f.request.tool \in Tools
                        /\ f.rule = RuleFor(f.request.tool, f.number)
                        /\ TypeOf(f.rule) = "latency",
         counts' \in [Tools -> Nat], spent' \in 0..budget,
         UNCHANGED trace, UNCHANGED experiment
  PROVE  RunInv'
<1>1. Typed /\ rules' = rules /\ budget' = budget /\ trace' = trace
  BY DEF RunInv, experiment
<1>2. Typed'
  BY <1>1 DEF Typed
<1>3. \A b \in Calls : b # c => pc'[b] = pc[b] /\ frame'[b] = frame[b]
  BY <1>1 DEF Typed
<1>4. pc'[c] = state /\ frame'[c] = f
  BY <1>1 DEF Typed
<1>6. ASSUME NEW i \in DOMAIN trace
      PROVE  pc'[trace[i].call] = "ended" /\ IsRecordOf(trace[i], frame'[trace[i].call])
  <2>1. /\ trace[i].call \in Calls
        /\ pc[trace[i].call] = "ended" /\ IsRecordOf(trace[i], frame[trace[i].call])
    BY <1>1, RecordedCalls DEF RunInv
  <2>. QED
    BY <1>3, <2>1
<1>7. \A b \in Calls : frame'[b] = NoFrame <=> pc'[b] \in Unnumbered
  BY <1>3, <1>4 DEF RunInv
<1>8. ASSUME NEW b \in Calls, frame'[b] # NoFrame
      PROVE  /\ frame'[b].request.tool \in Tools
             /\ (frame[b].rule = RuleFor(frame[b].request.tool, frame[b].number))'
             /\ pc'[b] \in {"sleeping", "cancelled"} => TypeOf(frame'[b].rule) = "latency"
  <2>1. CASE b = c
    BY <1>1, <1>4, <1>8, <2>1 DEF RuleFor
  <2>2. CASE b # c
    BY <1>1, <1>3, <1>8, <2>2 DEF RunInv, RuleFor
  <2>. QED
    BY <2>1, <2>2
<1>. QED
  BY <1>1, <1>2, <1>6, <1>7, <1>8 DEF RunInv

\* A step that makes no call and ends none.
Idle == UNCHANGED <<experiment, db, counts, spent, trace, pc, frame>>

LEMMA Idling ==
  ASSUME [Next]_vars,
         ~ \E c \in Calls : WakeUp(c) \/ Cancel(c) \/ \E q \in Requests : Call(c, q)
  PROVE  Idle
BY DEF Next, vars, Idle, AdapterEnds

LEMMA BudgetType ==
  ASSUME Typed
  PROVE  budget \in Nat /\ spent \in Nat /\ (spent < budget => spent + 1 \in 0..budget)
<1>1. budget \in Nat
  BY CallsAssumption DEF Typed
<1>. QED
  BY <1>1 DEF Typed

LEMMA NextRun == RunInv /\ [Next]_vars => RunInv'
<1> SUFFICES ASSUME RunInv, [Next]_vars PROVE RunInv'
  OBVIOUS
<1>0. Typed
  BY DEF RunInv
<1>1. CASE Idle
  <2>1. /\ rules' = rules /\ budget' = budget /\ counts' = counts /\ spent' = spent
        /\ trace' = trace /\ pc' = pc /\ frame' = frame
    BY <1>1 DEF Idle, experiment
  <2>2. Typed'
    BY <1>0, <2>1 DEF Typed
  <2>. QED
    BY <2>1, <2>2 DEF RunInv, RuleFor
<1>2. ASSUME NEW c \in Calls, NEW q \in Requests, Call(c, q) PROVE RunInv'
  <2>1. pc[c] = "unborn" /\ UNCHANGED experiment /\ frame[c] = NoFrame
    BY <1>2 DEF Call, RunInv, Unnumbered
  <2>2. CASE Refuse(c) \/ CallUnknownTool(c, q)
    <3>1. frame' = [frame EXCEPT ![c] = NoFrame] /\ counts' = counts /\ trace' = trace
      BY <1>0, <2>1, <2>2 DEF Refuse, CallUnknownTool, Typed
    <3>2. spent' \in 0..budget /\ counts' \in [Tools -> Nat]
      BY <1>0, <2>2, <3>1, BudgetType DEF Refuse, CallUnknownTool, Typed
    <3>3. PICK state \in {"refused", "unknown"} : pc' = [pc EXCEPT ![c] = state]
      BY <2>2 DEF Refuse, CallUnknownTool
    <3>. QED
      BY <2>1, <3>1, <3>2, <3>3, MoveKeepsRun DEF States, Unnumbered
  <2>3. CASE CallTool(c, q)
    <3> DEFINE f == NewFrame(q)
    <3>1. /\ spent < budget /\ q.tool \in Tools /\ spent' = spent + 1
          /\ counts' = [counts EXCEPT ![q.tool] = @ + 1]
          /\ frame' = [frame EXCEPT ![c] = f]
          /\ IF TypeOf(f.rule) = "latency"
             THEN pc' = [pc EXCEPT ![c] = "sleeping"] /\ UNCHANGED <<db, trace, reply>>
             ELSE Finish(c, f)
      BY <2>3 DEF CallTool
    <3>2. f \in AnyFrame /\ f.request = q /\ f.rule = RuleFor(f.request.tool, f.number)
      BY <1>0, <3>1, NewFrames
    <3>3. spent' \in 0..budget /\ counts' \in [Tools -> Nat]
      BY <1>0, <3>1, BudgetType DEF Typed
    <3>. HIDE DEF f
    <3>4. CASE TypeOf(f.rule) = "latency"
      <4>1. f # NoFrame
        BY <3>2, MarkersAssumption
      <4>. QED
        BY <2>1, <3>1, <3>2, <3>3, <3>4, <4>1, MoveKeepsRun DEF States, Unnumbered
    <3>5. CASE TypeOf(f.rule) # "latency"
      BY <2>1, <3>1, <3>2, <3>3, <3>5, FinishKeepsRun
    <3>. QED
      BY <3>4, <3>5
  <2>. QED
    BY <1>2, <2>2, <2>3 DEF Call
<1>3. ASSUME NEW c \in Calls, WakeUp(c) \/ Cancel(c) PROVE RunInv'
  <2> DEFINE f == frame[c]
  <2>1. pc[c] = "sleeping" /\ f # NoFrame
    BY <1>3 DEF WakeUp, Cancel, RunInv, Unnumbered
  <2>2. /\ f \in AnyFrame /\ f.request.tool \in Tools
        /\ f.rule = RuleFor(f.request.tool, f.number) /\ TypeOf(f.rule) = "latency"
    BY <1>0, <2>1 DEF RunInv, Typed
  <2>3. frame' = [frame EXCEPT ![c] = f] /\ UNCHANGED experiment
    BY <1>0, <1>3 DEF WakeUp, Cancel, Typed
  <2>4. spent' \in 0..budget /\ counts' \in [Tools -> Nat]
    BY <1>0, <1>3 DEF WakeUp, Cancel, Typed
  <2>5. CASE WakeUp(c)
    <3>1. Finish(c, f)
      BY <2>5 DEF WakeUp
    <3>. HIDE DEF f
    <3>. QED
      BY <2>1, <2>2, <2>3, <2>4, <3>1, FinishKeepsRun
  <2>6. CASE Cancel(c)
    <3>1. pc' = [pc EXCEPT ![c] = "cancelled"] /\ UNCHANGED trace
      BY <2>6 DEF Cancel
    <3>. HIDE DEF f
    <3>. QED
      BY <2>1, <2>2, <2>3, <2>4, <3>1, MoveKeepsRun DEF States, Unnumbered
  <2>. QED
    BY <1>3, <2>5, <2>6
<1>. QED
  BY <1>1, <1>2, <1>3, Idling

LEMMA RunInvariant == Spec => []RunInv
BY InitRun, NextRun, PTL DEF Spec

\* The variables of a run keep their types, calls that were numbered have frames, and the
\* budget is never exceeded.
THEOREM TypeCorrect == Spec => []TypeOK
<1>1. RunInv => TypeOK
  <2> SUFFICES ASSUME RunInv PROVE TypeOK
    OBVIOUS
  <2>1. Typed
    BY DEF RunInv
  <2>2. ASSUME NEW i \in DOMAIN trace
        PROVE  trace[i].call \in Calls /\ frame[trace[i].call] # NoFrame
    BY <2>1, RecordedCalls DEF RunInv, Unnumbered
  <2>3. ASSUME NEW c \in Calls, frame[c] # NoFrame PROVE frame[c] \in Frames
    <3>1. frame[c] \in AnyFrame
      BY <2>1, <2>3 DEF Typed
    <3>2. frame[c].rule \in rules \cup {NoRule}
      BY <2>1, <2>3, RuleForType DEF RunInv, Typed
    <3>. QED
      BY <3>1, <3>2 DEF AnyFrame, Frames
  <2>4. DOMAIN trace = 1..Len(trace)
    BY <2>1 DEF Typed
  <2>. QED
    BY <2>1, <2>2, <2>3, <2>4 DEF TypeOK, Typed, RunInv, Unnumbered
<1>. QED
  BY <1>1, RunInvariant, PTL

-----------------------------------------------------------------------------
\* The budget.

Through == {c \in Calls : pc[c] \notin {"unborn", "refused"}}

BudgetInv ==
  /\ Cardinality(Through) = spent
  /\ (\E c \in Calls : pc[c] = "refused") => spent = budget

LEMMA InitBudget == Init => BudgetInv
<1> SUFFICES ASSUME Init PROVE BudgetInv
  OBVIOUS
<1>1. Through = {}
  BY DEF Init, Through
<1>2. Cardinality(Through) = 0
  BY <1>1, FS_EmptySet
<1>. QED
  BY <1>2 DEF Init, BudgetInv

LEMMA NextBudget == RunInv /\ BudgetInv /\ [Next]_vars => BudgetInv'
<1> SUFFICES ASSUME RunInv, BudgetInv, [Next]_vars PROVE BudgetInv'
  OBVIOUS
<1>0. Typed
  BY DEF RunInv
<1>1. CASE Idle
  BY <1>1 DEF Idle, experiment, BudgetInv, Through
<1>2. ASSUME NEW c \in Calls, NEW state \in {"ended", "cancelled"}, pc[c] = "sleeping",
             pc' = [pc EXCEPT ![c] = state], UNCHANGED spent, UNCHANGED experiment
      PROVE  BudgetInv'
  <2>1. Through' = Through
    BY <1>0, <1>2 DEF Through, Typed
  <2>2. \A b \in Calls : pc'[b] = "refused" <=> pc[b] = "refused"
    BY <1>0, <1>2 DEF Typed
  <2>. QED
    BY <1>2, <2>1, <2>2 DEF BudgetInv, experiment
<1>3. ASSUME NEW c \in Calls, pc[c] = "unborn", Refuse(c), UNCHANGED experiment
      PROVE  BudgetInv'
  <2>1. Through' = Through
    BY <1>0, <1>3 DEF Refuse, Through, Typed
  <2>2. spent' = budget'
    BY <1>0, <1>3, BudgetType DEF Refuse, Typed, experiment
  <2>. QED
    BY <1>3, <2>1, <2>2 DEF BudgetInv, Refuse
<1>4. ASSUME NEW c \in Calls, NEW state \in {"unknown", "sleeping", "ended"},
             pc[c] = "unborn", pc' = [pc EXCEPT ![c] = state],
             spent < budget, spent' = spent + 1, UNCHANGED experiment
      PROVE  BudgetInv'
  <2>1. Through' = Through \cup {c} /\ c \notin Through
    BY <1>0, <1>4 DEF Through, Typed
  <2>2. IsFiniteSet(Through)
    BY CallsAssumption, FS_Subset DEF Through
  <2>3. Cardinality(Through') = Cardinality(Through) + 1
    BY <2>1, <2>2, FS_AddElement
  <2>4. \A b \in Calls : pc[b] # "refused"
    BY <1>0, <1>4, BudgetType DEF BudgetInv
  <2>5. \A b \in Calls : pc'[b] # "refused"
    BY <1>0, <1>4, <2>4 DEF Typed
  <2>. QED
    BY <1>4, <2>3, <2>5 DEF BudgetInv
<1>5. ASSUME NEW c \in Calls, NEW q \in Requests, Call(c, q) PROVE BudgetInv'
  <2>1. pc[c] = "unborn" /\ UNCHANGED experiment
    BY <1>5 DEF Call
  <2>2. CASE CallUnknownTool(c, q)
    BY <1>4, <2>1, <2>2 DEF CallUnknownTool
  <2>3. CASE CallTool(c, q)
    <3>1. PICK state \in {"sleeping", "ended"} : pc' = [pc EXCEPT ![c] = state]
      BY <2>3 DEF CallTool, Finish
    <3>. QED
      BY <1>4, <2>1, <2>3, <3>1 DEF CallTool
  <2>. QED
    BY <1>3, <1>5, <2>1, <2>2, <2>3 DEF Call
<1>6. ASSUME NEW c \in Calls, WakeUp(c) \/ Cancel(c) PROVE BudgetInv'
  <2>1. PICK state \in {"ended", "cancelled"} : pc' = [pc EXCEPT ![c] = state]
    BY <1>6 DEF WakeUp, Finish, Cancel
  <2>. QED
    BY <1>2, <1>6, <2>1 DEF WakeUp, Cancel
<1>. QED
  BY <1>1, <1>5, <1>6, Idling

\* However many calls are in flight, no more get through than the budget allows, and none
\* is refused while it lasts.
THEOREM BudgetHolds == Spec => []BudgetHoldsUnderConcurrency
<1>1. RunInv /\ BudgetInv => BudgetHoldsUnderConcurrency
  BY BudgetType DEF RunInv, BudgetInv, Typed, Through, BudgetHoldsUnderConcurrency
<1>. QED
  BY <1>1, RunInvariant, InitBudget, NextBudget, PTL DEF Spec

-----------------------------------------------------------------------------
\* The ordering invariant.  The fixture has one order.

OneOrder == Orders = {order}

Shape(d) ==
  /\ DOMAIN d = {"orders", "payments", "stock", "refunds", "notifications"}
  /\ d.orders \in [Orders -> {"confirmed", "cancelled"}]

\* Only a cancellation that does not raise touches the order, and it cancels it.
LEMMA OperationsOnOrders ==
  ASSUME OneOrder, NEW d, Shape(d), NEW q, q.tool \in Tools
  PROVE  /\ Shape(Handle(d, q).db)
         /\ q.tool = "cancel_order" /\ Handle(d, q).answer # Raised =>
              Handle(d, q).db.orders[order] = "cancelled"
         /\ q.tool # "cancel_order" \/ Handle(d, q).answer = Raised =>
              Handle(d, q).db.orders = d.orders
<1>2. CASE ~ArgumentsAreValid(q)
  <2>1. Handle(d, q) = Answer(d, Raised)
    BY <1>2 DEF Handle
  <2>. QED
    BY <2>1 DEF Answer
<1>3. CASE ArgumentsAreValid(q) /\ q.tool = "cancel_order"
  <2>1. Handle(d, q) = CancelOrder(d, q.order)
    BY <1>3 DEF Handle, Perform
  <2>2. CASE q.order \in Orders
    <3>1. Handle(d, q) = Answer([d EXCEPT !.orders[q.order] = "cancelled"], "cancelled")
      BY <2>1, <2>2 DEF CancelOrder
    <3>2. Handle(d, q).db = [d EXCEPT !.orders = [d.orders EXCEPT ![q.order] = "cancelled"]]
          /\ Handle(d, q).answer # Raised
      BY <3>1, RaisedAssumption DEF Answer
    <3>3. [d.orders EXCEPT ![q.order] = "cancelled"] \in [Orders -> {"confirmed", "cancelled"}]
          /\ [d.orders EXCEPT ![q.order] = "cancelled"][order] = "cancelled"
      BY <2>2 DEF OneOrder, Shape
    <3>. QED
      BY <1>3, <3>2, <3>3 DEF Shape
  <2>3. CASE q.order \notin Orders
    <3>1. Handle(d, q) = Answer(d, Raised)
      BY <2>1, <2>3 DEF CancelOrder
    <3>. QED
      BY <3>1 DEF Answer
  <2>. QED
    BY <2>2, <2>3
<1>4. CASE ArgumentsAreValid(q) /\ q.tool = "refund_payment"
  <2> DEFINE r == [payment |-> q.payment, amount |-> q.amount]
  <2>1. Handle(d, q) = RefundPayment(d, r, q.key)
    BY <1>4 DEF Handle, Perform, RefundOf
  <2>2. Handle(d, q).db = d \/ Handle(d, q).db = NewRefund(d, r, NormalKey(q.key)).db
    BY <2>1 DEF RefundPayment, Answer
  <2>3. Shape(NewRefund(d, r, NormalKey(q.key)).db)
        /\ NewRefund(d, r, NormalKey(q.key)).db.orders = d.orders
    <3>. HIDE DEF r
    <3>1. \A ledger : LET x == [d EXCEPT !.refunds = ledger]
                      IN  Shape(x) /\ x.orders = d.orders
      BY DEF Shape
    <3>2. \A ledger, payments : LET x == [d EXCEPT !.refunds = ledger, !.payments = payments]
                                IN  Shape(x) /\ x.orders = d.orders
      BY DEF Shape
    <3>. QED
      BY <3>1, <3>2 DEF NewRefund, Answer
  <2>. QED
    BY <1>4, <2>2, <2>3
<1>5. CASE ArgumentsAreValid(q) /\ q.tool = "restore_inventory"
  <2>1. Handle(d, q) = RestoreInventory(d, q.sku, q.quantity)
    BY <1>5 DEF Handle, Perform
  <2>2. \A stock : LET x == [d EXCEPT !.stock = stock] IN Shape(x) /\ x.orders = d.orders
    BY DEF Shape
  <2>. QED
    BY <1>5, <2>1, <2>2 DEF RestoreInventory, Answer
<1>6. CASE ArgumentsAreValid(q) /\ q.tool = "send_confirmation"
  <2>1. Handle(d, q) = SendConfirmation(d, q.order, q.message, q.key)
    BY <1>6 DEF Handle, Perform
  <2>2. \A ledger : LET x == [d EXCEPT !.notifications = ledger]
                    IN  Shape(x) /\ x.orders = d.orders
    BY DEF Shape
  <2>. QED
    BY <1>6, <2>1, <2>2 DEF SendConfirmation, Answer
<1>. QED
  BY <1>2, <1>3, <1>4, <1>5, <1>6 DEF Tools

Worked(r, tool) == r.tool = tool /\ r.executed /\ r.underlying # "error"

\* A call that ends cancels the order exactly if its record is that of a cancellation that
\* succeeded, even if the request was delivered twice.
LEMMA FinishOnOrders ==
  ASSUME OneOrder, Typed, Shape(db), NEW c \in Calls, NEW f \in AnyFrame,
         f.request.tool \in Tools, Finish(c, f), NEW last, last = Len(trace) + 1
  PROVE  /\ Shape(db')
         /\ Worked(trace'[last], "cancel_order") => db'.orders[order] = "cancelled"
         /\ ~Worked(trace'[last], "cancel_order") => db'.orders = db.orders
<1>. DEFINE first == Handle(db, f.request)
            second == Handle(first.db, f.request)
            e == Execute(db, first, second, f.rule)
            cancels == f.request.tool = "cancel_order"
<1>1. /\ db' = e.db /\ trace' = Append(trace, Entry(c, f, e))
  BY DEF Finish
<1>2. f.rule \in FaultRules \cup {NoRule}
  BY DEF AnyFrame
<1>3. /\ Shape(first.db)
      /\ cancels /\ first.answer # Raised => first.db.orders[order] = "cancelled"
      /\ ~cancels \/ first.answer = Raised => first.db.orders = db.orders
  BY OperationsOnOrders
<1>4. /\ Shape(second.db)
      /\ cancels /\ second.answer # Raised => second.db.orders[order] = "cancelled"
      /\ ~cancels \/ second.answer = Raised => second.db.orders = first.db.orders
  BY <1>3, OperationsOnOrders
<1>. HIDE DEF first, second
<1>5. \/ ~e.outcome.executed /\ e.db = db
      \/ /\ e.outcome.executed /\ e.outcome.underlying = "error"
         /\ first.answer = Raised /\ e.db = first.db
      \/ /\ e.outcome.executed /\ e.outcome.underlying # "error"
         /\ first.answer # Raised /\ e.db \in {first.db, second.db}
  BY <1>2, Executes
<1>. HIDE DEF e
<1>6. trace'[last] = Entry(c, f, e)
  BY <1>1 DEF Typed
<1>7. Worked(trace'[last], "cancel_order") <=>
        cancels /\ e.outcome.executed /\ e.outcome.underlying # "error"
  BY <1>6 DEF Entry, Worked
<1>. QED
  BY <1>1, <1>3, <1>4, <1>5, <1>7

Cancellations == SucceededCalls(trace, "cancel_order")

\* orderCancelled says whether the calls that had ended before the request had cancelled.
FrameIsRight(f) ==
  /\ f.completedBefore \in 0..Len(trace)
  /\ f.orderCancelled <=> \E i \in Cancellations : i <= f.completedBefore

OrderInv ==
  /\ OneOrder
  /\ Shape(db)
  /\ db.orders[order] = "cancelled" <=> Cancellations # {}
  /\ \A c \in Calls : frame[c] # NoFrame => FrameIsRight(frame[c])

LEMMA InitOrder == OneOrder /\ Init => OrderInv
<1> SUFFICES ASSUME OneOrder, Init PROVE OrderInv
  OBVIOUS
<1>1. Shape(db) /\ db.orders = [o \in Orders |-> "confirmed"]
  BY DEF Init, InitialState, Shape
<1>2. Cancellations = {}
  BY DEF Init, Cancellations, SucceededCalls
<1>. QED
  BY <1>1, <1>2 DEF Init, OrderInv, OneOrder

\* A record that is appended changes nothing about what had ended before a request.
LEMMA FinishKeepsOrder ==
  ASSUME Typed, OrderInv, NEW c \in Calls, NEW f \in AnyFrame,
         f.request.tool \in Tools, Finish(c, f), FrameIsRight(f),
         frame' = [frame EXCEPT ![c] = f]
  PROVE  OrderInv'
<1> PICK last : last = Len(trace) + 1
  OBVIOUS
<1>1. /\ trace' \in Seq(Records)
      /\ Len(trace) \in Nat /\ DOMAIN trace = 1..Len(trace)
      /\ DOMAIN trace' = DOMAIN trace \cup {last} /\ last \notin DOMAIN trace
      /\ \A i \in DOMAIN trace : trace'[i] = trace[i]
  BY Finishes
<1>2. /\ Shape(db')
      /\ Worked(trace'[last], "cancel_order") => db'.orders[order] = "cancelled"
      /\ ~Worked(trace'[last], "cancel_order") => db'.orders = db.orders
  BY FinishOnOrders DEF OrderInv
<1>3. Len(trace') = last
  BY <1>1
<1>4. \A i : i \in Cancellations' <=>
               i \in Cancellations \/ (i = last /\ Worked(trace'[last], "cancel_order"))
  BY <1>1 DEF Cancellations, SucceededCalls, Worked
<1>5. ASSUME NEW g, FrameIsRight(g)
      PROVE  /\ g.completedBefore \in 0..Len(trace')
             /\ g.orderCancelled <=> \E i \in Cancellations' : i <= g.completedBefore
  <2>1. g.completedBefore \in 0..Len(trace) /\ ~(last <= g.completedBefore)
    BY <1>1, <1>5 DEF FrameIsRight
  <2>2. g.orderCancelled <=> \E i \in Cancellations' : i <= g.completedBefore
    BY <1>4, <1>5, <2>1 DEF FrameIsRight
  <2>. QED
    BY <1>1, <1>3, <2>1, <2>2
<1>6. ASSUME NEW b \in Calls, frame'[b] # NoFrame PROVE FrameIsRight(frame[b])'
  <2>1. FrameIsRight(frame'[b])
    BY <1>6 DEF OrderInv, Typed
  <2>. QED
    BY <1>5, <2>1 DEF FrameIsRight
<1>7. db'.orders[order] = "cancelled" <=> Cancellations' # {}
  BY <1>2, <1>4 DEF OrderInv
<1>. QED
  BY <1>2, <1>6, <1>7 DEF OrderInv, OneOrder

LEMMA NextOrder == RunInv /\ OrderInv /\ [Next]_vars => OrderInv'
<1> SUFFICES ASSUME RunInv, OrderInv, [Next]_vars PROVE OrderInv'
  OBVIOUS
<1>0. Typed /\ OneOrder /\ OneOrder'
  BY DEF RunInv, OrderInv, OneOrder
<1>1. ASSUME UNCHANGED <<db, trace, frame>> PROVE OrderInv'
  BY <1>0, <1>1 DEF OrderInv, Cancellations, FrameIsRight
<1>2. ASSUME NEW c \in Calls, NEW q \in Requests, CallTool(c, q) PROVE OrderInv'
  <2> PICK f : f = NewFrame(q)
    OBVIOUS
  <2>1. /\ q.tool \in Tools /\ frame' = [frame EXCEPT ![c] = f]
        /\ \/ UNCHANGED <<db, trace>>
           \/ Finish(c, f)
    BY <1>2 DEF CallTool
  <2>2. /\ f \in AnyFrame /\ f.request.tool \in Tools /\ f.completedBefore = Len(trace)
        /\ f.orderCancelled <=> db.orders[order] = "cancelled"
    BY <1>0, <2>1, NewFrames
  <2>3. FrameIsRight(f)
    <3>1. Len(trace) \in Nat /\ \A i \in Cancellations : i <= Len(trace)
      BY <1>0 DEF Typed, Cancellations, SucceededCalls
    <3>. QED
      BY <2>2, <3>1 DEF FrameIsRight, OrderInv
  <2>4. CASE UNCHANGED <<db, trace>>
    <3>1. \A b \in Calls : frame'[b] # NoFrame => FrameIsRight(frame'[b])
      BY <1>0, <2>1, <2>3 DEF OrderInv, Typed
    <3>2. \A b \in Calls : frame'[b] # NoFrame => FrameIsRight(frame[b])'
      BY <2>4, <3>1 DEF FrameIsRight, Cancellations
    <3>. QED
      BY <1>0, <2>4, <3>2 DEF OrderInv, Cancellations
  <2>. QED
    BY <1>0, <2>1, <2>2, <2>3, <2>4, FinishKeepsOrder
<1>3. ASSUME NEW c \in Calls, WakeUp(c) PROVE OrderInv'
  <2> PICK f : f = frame[c]
    OBVIOUS
  <2>1. /\ f # NoFrame /\ f \in AnyFrame /\ f.request.tool \in Tools
        /\ frame' = [frame EXCEPT ![c] = f] /\ Finish(c, f)
    BY <1>0, <1>3 DEF WakeUp, RunInv, Typed, Unnumbered
  <2>. QED
    BY <1>0, <2>1, FinishKeepsOrder DEF OrderInv
<1>. QED
  BY <1>1, <1>2, <1>3, Idling DEF Idle, Call, Refuse, CallUnknownTool, Cancel

\* However calls overlap, and whatever the agent asks for, refund_after_cancellation passes
\* exactly the runs in which every refund that was carried out had been requested with the
\* order cancelled, provided there is one order, as in the fixture.
THEOREM ExactOrderVerdict == OneOrder /\ Spec => []OrderVerdictIsExact
<1>1. RunInv /\ OrderInv => OrderVerdictIsExact
  <2> SUFFICES ASSUME RunInv, OrderInv PROVE OrderVerdictIsExact
    OBVIOUS
  <2>1. ASSUME NEW j \in SucceededCalls(trace, "refund_payment")
        PROVE  (\E i \in Cancellations : HappenedBefore(trace, i, j)) <=>
                 frame[trace[j].call].orderCancelled
    <3>1. j \in DOMAIN trace
      BY DEF SucceededCalls
    <3>2. /\ trace[j].call \in Calls /\ frame[trace[j].call] # NoFrame
          /\ trace[j].completedBefore = frame[trace[j].call].completedBefore
      BY <3>1, RecordedCalls DEF RunInv, Unnumbered, IsRecordOf
    <3>. QED
      BY <3>2 DEF OrderInv, FrameIsRight, HappenedBefore
  <2>. QED
    BY <2>1 DEF OrderVerdictIsExact, RefundAfterCancellation, Cancellations
<1>2. OneOrder /\ Spec => []OrderInv
  BY RunInvariant, InitOrder, NextOrder, PTL DEF Spec
<1>. QED
  BY <1>1, <1>2, RunInvariant, PTL

-----------------------------------------------------------------------------
\* The rules.

Addresses(f, t, n) == f # NoFrame /\ f.request.tool = t /\ f.number = n

\* The calls of a tool that got through are numbered 1, 2, 3, ...
NumbersInv ==
  /\ \A c \in Calls : frame[c] # NoFrame => frame[c].number <= counts[frame[c].request.tool]
  /\ \A t \in Tools : \A n \in 1..counts[t] : \E c \in Calls : Addresses(frame[c], t, n)
  /\ \A t \in Tools, n \in Nat, c, d \in Calls :
       Addresses(frame[c], t, n) /\ Addresses(frame[d], t, n) => c = d

\* A call has one record, once it has ended.
RecordedInv ==
  /\ \A c \in Calls : pc[c] = "ended" => \E i \in DOMAIN trace : trace[i].call = c
  /\ \A i, j \in DOMAIN trace : trace[i].call = trace[j].call => i = j

RulesDiffer == \A r, s \in rules : r # s => r.tool # s.tool \/ r.number # s.number

RulesInv == NumbersInv /\ RecordedInv /\ RulesDiffer

LEMMA InitRules == Init => RulesInv
<1> SUFFICES ASSUME Init PROVE RulesInv
  OBVIOUS
<1>1. RulesDiffer
  BY DEF Init, RulesDiffer
<1>2. NumbersInv
  BY DEF Init, NumbersInv, Addresses
<1>3. RecordedInv
  BY DEF Init, RecordedInv
<1>. QED
  BY <1>1, <1>2, <1>3 DEF RulesInv

LEMMA CallKeepsNumbers ==
  ASSUME Typed, NumbersInv, NEW c \in Calls, NEW q \in Requests, CallTool(c, q),
         frame[c] = NoFrame
  PROVE  NumbersInv'
<1> PICK f : f = NewFrame(q)
  OBVIOUS
<1> PICK n : n = counts[q.tool] + 1
  OBVIOUS
<1>1. /\ q.tool \in Tools /\ frame' = [frame EXCEPT ![c] = f]
      /\ counts' = [counts EXCEPT ![q.tool] = n]
  BY DEF CallTool
<1>2. /\ counts[q.tool] \in Nat /\ n \in Nat
      /\ \A t \in Tools : counts[t] \in Nat
      /\ counts'[q.tool] = n /\ \A t \in Tools \ {q.tool} : counts'[t] = counts[t]
  BY <1>1 DEF Typed
<1>3. Addresses(f, q.tool, n) /\ f.request.tool = q.tool /\ f.number = n
  BY <1>1, NewFrames, MarkersAssumption DEF Addresses
<1>4. frame'[c] = f /\ \A b \in Calls : b # c => frame'[b] = frame[b]
  BY <1>1 DEF Typed
<1>5. \A b \in Calls : frame[b] # NoFrame =>
        frame[b].number \in Nat /\ frame[b].number <= counts[frame[b].request.tool]
  BY DEF Typed, AnyFrame, NumbersInv
<1>6. ASSUME NEW b \in Calls, frame'[b] # NoFrame
      PROVE  frame'[b].number <= counts'[frame'[b].request.tool]
  <2>1. CASE b = c
    BY <1>2, <1>3, <1>4, <2>1
  <2>2. CASE b # c /\ frame[b].request.tool = q.tool
    BY <1>2, <1>4, <1>5, <1>6, <2>2
  <2>3. CASE b # c /\ frame[b].request.tool # q.tool
    BY <1>1, <1>4, <1>5, <1>6, <2>3 DEF Typed
  <2>. QED
    BY <2>1, <2>2, <2>3
<1>7. ASSUME NEW t \in Tools, NEW k \in 1..counts'[t]
      PROVE  \E b \in Calls : Addresses(frame'[b], t, k)
  <2>1. CASE t = q.tool /\ k = n
    BY <1>3, <1>4, <2>1
  <2>2. CASE ~(t = q.tool /\ k = n)
    <3>1. k \in 1..counts[t]
      BY <1>2, <2>2
    <3>2. PICK b \in Calls : Addresses(frame[b], t, k)
      BY <3>1 DEF NumbersInv
    <3>3. b # c
      BY <3>2 DEF Addresses
    <3>. QED
      BY <1>4, <3>2, <3>3
  <2>. QED
    BY <2>1, <2>2
<1>8. ASSUME NEW t \in Tools, NEW k \in Nat, NEW a \in Calls, NEW b \in Calls,
             Addresses(frame'[a], t, k), Addresses(frame'[b], t, k)
      PROVE  a = b
  <2>1. \A d \in Calls : d # c => ~Addresses(frame[d], q.tool, n)
    BY <1>2, <1>5 DEF Addresses
  <2>2. \A d \in Calls : Addresses(frame'[d], t, k) =>
          (d = c <=> t = q.tool /\ k = n)
    BY <1>3, <1>4, <2>1 DEF Addresses
  <2>3. CASE t = q.tool /\ k = n
    BY <1>8, <2>2, <2>3
  <2>4. CASE ~(t = q.tool /\ k = n)
    BY <1>4, <1>8, <2>2, <2>4 DEF NumbersInv
  <2>. QED
    BY <2>3, <2>4
<1>. QED
  BY <1>6, <1>7, <1>8 DEF NumbersInv, Addresses

LEMMA FinishKeepsRecorded ==
  ASSUME RunInv, RecordedInv, NEW c \in Calls, NEW f \in AnyFrame, f.request.tool \in Tools,
         Finish(c, f), pc[c] # "ended"
  PROVE  RecordedInv'
<1> PICK last : last = Len(trace) + 1
  OBVIOUS
<1>0. Typed
  BY DEF RunInv
<1>1. /\ pc' = [pc EXCEPT ![c] = "ended"]
      /\ DOMAIN trace' = DOMAIN trace \cup {last} /\ last \notin DOMAIN trace
      /\ \A i \in DOMAIN trace : trace'[i] = trace[i]
      /\ trace'[last].call = c
  BY <1>0, Finishes
<1>2. \A i \in DOMAIN trace : trace[i].call # c
  BY DEF RunInv
<1>3. \A b \in Calls : b # c => pc'[b] = pc[b]
  BY <1>0, <1>1 DEF Typed
<1>4. ASSUME NEW b \in Calls, pc'[b] = "ended" PROVE \E i \in DOMAIN trace' : trace'[i].call = b
  BY <1>1, <1>3, <1>4 DEF RecordedInv
<1>5. ASSUME NEW i \in DOMAIN trace', NEW j \in DOMAIN trace', trace'[i].call = trace'[j].call
      PROVE  i = j
  BY <1>1, <1>2, <1>5 DEF RecordedInv
<1>. QED
  BY <1>4, <1>5 DEF RecordedInv

LEMMA NextRules == RunInv /\ RulesInv /\ [Next]_vars => RulesInv'
<1> SUFFICES ASSUME RunInv, RulesInv, [Next]_vars PROVE RulesInv'
  OBVIOUS
<1>0. Typed /\ NumbersInv /\ RecordedInv /\ RulesDiffer
  BY DEF RunInv, RulesInv
<1>1. ASSUME UNCHANGED <<frame, counts>> PROVE NumbersInv'
  BY <1>0, <1>1 DEF NumbersInv
<1>2. ASSUME UNCHANGED trace, \A c \in Calls : pc'[c] = "ended" => pc[c] = "ended"
      PROVE  RecordedInv'
  BY <1>0, <1>2 DEF RecordedInv
<1>3. ASSUME UNCHANGED experiment PROVE RulesDiffer'
  BY <1>0, <1>3 DEF RulesDiffer, experiment
<1>4. CASE Idle
  BY <1>1, <1>2, <1>3, <1>4 DEF Idle, RulesInv
<1>5. ASSUME NEW c \in Calls, NEW q \in Requests, Call(c, q) PROVE RulesInv'
  <2>1. pc[c] = "unborn" /\ frame[c] = NoFrame /\ UNCHANGED experiment
    BY <1>5 DEF Call, RunInv, Unnumbered
  <2>2. CASE Refuse(c) \/ CallUnknownTool(c, q)
    <3>1. \A b \in Calls : pc'[b] = "ended" => pc[b] = "ended"
      BY <1>0, <2>2 DEF Refuse, CallUnknownTool, Typed
    <3>. QED
      BY <1>1, <1>2, <1>3, <2>1, <2>2, <3>1 DEF Refuse, CallUnknownTool, RulesInv
  <2>3. CASE CallTool(c, q)
    <3>1. NumbersInv'
      BY <1>0, <2>1, <2>3, CallKeepsNumbers
    <3>2. CASE pc' = [pc EXCEPT ![c] = "sleeping"] /\ UNCHANGED trace
      <4>1. \A b \in Calls : pc'[b] = "ended" => pc[b] = "ended"
        BY <1>0, <3>2 DEF Typed
      <4>. QED
        BY <1>2, <1>3, <2>1, <3>1, <3>2, <4>1 DEF RulesInv
    <3>3. CASE Finish(c, NewFrame(q))
      <4>1. NewFrame(q) \in AnyFrame /\ NewFrame(q).request.tool \in Tools
        BY <1>0, <2>3, NewFrames DEF CallTool
      <4>. QED
        BY <1>0, <1>3, <2>1, <3>1, <3>3, <4>1, FinishKeepsRecorded DEF RulesInv
    <3>. QED
      BY <2>3, <3>2, <3>3 DEF CallTool
  <2>. QED
    BY <1>5, <2>2, <2>3 DEF Call
<1>6. ASSUME NEW c \in Calls, WakeUp(c) PROVE RulesInv'
  <2>1. /\ frame[c] \in AnyFrame /\ frame[c].request.tool \in Tools /\ pc[c] # "ended"
        /\ Finish(c, frame[c]) /\ UNCHANGED <<frame, counts>> /\ UNCHANGED experiment
    BY <1>0, <1>6 DEF WakeUp, RunInv, Typed, Unnumbered
  <2>. QED
    BY <1>0, <1>1, <1>3, <2>1, FinishKeepsRecorded DEF RulesInv
<1>7. ASSUME NEW c \in Calls, Cancel(c) PROVE RulesInv'
  <2>1. \A b \in Calls : pc'[b] = "ended" => pc[b] = "ended"
    BY <1>0, <1>7 DEF Cancel, Typed
  <2>. QED
    BY <1>1, <1>2, <1>3, <1>7, <2>1 DEF Cancel, RulesInv
<1>. QED
  BY <1>4, <1>5, <1>6, <1>7, Idling

\* A rule that fired met the call it was meant for, once; a rule that did not, though that
\* call was made, is delayed, cancelled with its call, or hidden by an error of the operation.
THEOREM ExplainedRules == Spec => []SilentRulesAreExplained
<1>1. RunInv /\ RulesInv => SilentRulesAreExplained
  <2> SUFFICES ASSUME RunInv, RulesInv, NEW r \in rules
               PROVE  LET met == {i \in DOMAIN trace : trace[i].rule = r}
                          addressed == {c \in Calls : /\ frame[c] # NoFrame
                                                      /\ frame[c].request.tool = r.tool
                                                      /\ frame[c].number = r.number}
                      IN  /\ Cardinality(met) <= 1
                          /\ \A i \in met : trace[i].call \in addressed
                          /\ met = {} /\ counts[r.tool] >= r.number =>
                               \E c \in addressed :
                                 \/ r.type = "latency" /\ pc[c] \in {"sleeping", "cancelled"}
                                 \/ r.type \in AfterCallFaults /\
                                      \E i \in DOMAIN trace : trace[i].call = c
                                                              /\ trace[i].underlying = "error"
    BY DEF SilentRulesAreExplained
  <2> DEFINE met == {i \in DOMAIN trace : trace[i].rule = r}
             addressed == {c \in Calls : /\ frame[c] # NoFrame
                                         /\ frame[c].request.tool = r.tool
                                         /\ frame[c].number = r.number}
  <2>1. Typed /\ r \in FaultRules /\ r # NoRule /\ r.tool \in Tools /\ r.number \in Nat \ {0}
    BY FaultRulesAssumption DEF RunInv, Typed
  <2>2. \A i \in met : trace[i].call \in addressed
    <3> SUFFICES ASSUME NEW i \in DOMAIN trace, trace[i].rule = r
                 PROVE  trace[i].call \in addressed
      OBVIOUS
    <3> PICK f : f = frame[trace[i].call]
      OBVIOUS
    <3>1. trace[i].call \in Calls /\ f # NoFrame /\ f.rule = r
      BY <2>1, RecordedCalls DEF RunInv, IsRecordOf, Unnumbered
    <3>2. r = RuleFor(f.request.tool, f.number)
      BY <3>1 DEF RunInv
    <3>3. r.tool = f.request.tool /\ r.number = f.number
      BY <2>1, <3>2, RuleForType DEF Typed
    <3>. QED
      BY <3>1, <3>3
  <2>3. \A c, d \in addressed : c = d
    BY <2>1 DEF RulesInv, NumbersInv, Addresses
  <2>4. Cardinality(met) <= 1
    <3>1. \A i, j \in met : i = j
      BY <2>2, <2>3 DEF RulesInv, RecordedInv
    <3>2. CASE met = {}
      BY <3>2, FS_EmptySet
    <3>3. CASE met # {}
      <4>. HIDE DEF met
      <4>1. PICK i : met = {i}
        BY <3>1, <3>3
      <4>2. Cardinality({i}) = 1
        BY FS_Singleton
      <4>. QED
        BY <4>1, <4>2
    <3>. QED
      BY <3>2, <3>3
  <2>5. ASSUME met = {}, counts[r.tool] >= r.number
        PROVE  \E c \in addressed :
                 \/ r.type = "latency" /\ pc[c] \in {"sleeping", "cancelled"}
                 \/ r.type \in AfterCallFaults /\
                      \E i \in DOMAIN trace : trace[i].call = c /\ trace[i].underlying = "error"
    <3>1. r.number \in 1..counts[r.tool]
      BY <2>1, <2>5 DEF Typed
    <3>2. PICK c \in Calls : Addresses(frame[c], r.tool, r.number)
      BY <2>1, <3>1 DEF RulesInv, NumbersInv
    <3>3. c \in addressed
      BY <3>2 DEF Addresses
    <3>4. frame[c].rule = r
      <4>1. frame[c].rule = RuleFor(r.tool, r.number)
        BY <3>2 DEF Addresses, RunInv
      <4>2. RuleFor(r.tool, r.number) \in rules /\ RuleFor(r.tool, r.number).tool = r.tool
            /\ RuleFor(r.tool, r.number).number = r.number
        <5>1. Matches(r, r.tool, r.number, "faulted")
          BY DEF Matches
        <5>2. (CHOOSE s \in rules : Matches(s, r.tool, r.number, "faulted")) \in rules
              /\ Matches(CHOOSE s \in rules : Matches(s, r.tool, r.number, "faulted"),
                         r.tool, r.number, "faulted")
          BY <5>1
        <5>. QED
          BY <5>1, <5>2 DEF RuleFor, Matches
      <4>. QED
        BY <4>1, <4>2 DEF RulesInv, RulesDiffer
    <3>5. pc[c] \in {"sleeping", "cancelled", "ended"}
      BY <2>1, <3>2 DEF Addresses, RunInv, Typed, States, Unnumbered
    <3>6. CASE pc[c] \in {"sleeping", "cancelled"}
      <4>1. r.type = "latency"
        BY <2>1, <3>2, <3>4, <3>6 DEF RunInv, Addresses, TypeOf
      <4>. QED
        BY <3>3, <3>6, <4>1
    <3>7. CASE pc[c] = "ended"
      <4>1. PICK i \in DOMAIN trace : trace[i].call = c
        BY <3>7 DEF RulesInv, RecordedInv
      <4>2. trace[i].rule # r
        BY <2>5
      <4>3. IsRecordOf(trace[i], frame[c])
        BY <4>1 DEF RunInv
      <4>4. r.type \in AfterCallFaults /\ trace[i].underlying = "error"
        BY <2>1, <3>4, <4>2, <4>3 DEF IsRecordOf
      <4>. QED
        BY <3>3, <4>1, <4>4
    <3>. QED
      BY <3>5, <3>6, <3>7
  <2>. HIDE DEF met, addressed
  <2>. QED
    BY <2>2, <2>4, <2>5 DEF met, addressed
<1>. QED
  BY <1>1, RunInvariant, InitRules, NextRules, PTL DEF Spec

-----------------------------------------------------------------------------
\* The answers.

\* No entry is at the number that comes next, and what the index holds is there.
SoundLedger(l) ==
  /\ DOMAIN l = {"entries", "index", "next"}
  /\ l.next \in Nat
  /\ \A i \in DOMAIN l.entries : i \in Nat /\ i < l.next
  /\ \A k \in DOMAIN l.index : l.index[k].id \in DOMAIN l.entries =>
       l.entries[l.index[k].id].request = l.index[k].request
  /\ \A k \in DOMAIN l.index : l.index[k].id \in Nat /\ l.index[k].id < l.next

SoundState(d) ==
  /\ Shape(d)
  /\ d.stock \in [Skus -> Nat]
  /\ SoundLedger(d.refunds) /\ SoundLedger(d.notifications)

Keeps(l, m) ==
  \A i \in DOMAIN l.entries : i \in DOMAIN m.entries /\ m.entries[i] = l.entries[i]

\* Nothing that was ever answered for is undone.
Grows(d, e) ==
  /\ SoundState(e)
  /\ \A o \in Orders : d.orders[o] = "cancelled" => e.orders[o] = "cancelled"
  /\ \A s \in Skus : d.stock[s] <= e.stock[s]
  /\ Keeps(d.refunds, e.refunds) /\ Keeps(d.notifications, e.notifications)

Refunds(d, q, answer) ==
  /\ answer.id \in DOMAIN d.refunds.entries
  /\ d.refunds.entries[answer.id].request = [payment |-> q.payment, amount |-> q.amount]

Confirms(d, q, answer) ==
  /\ answer.id \in DOMAIN d.notifications.entries
  /\ d.notifications.entries[answer.id].request =
       [order |-> q.order, message |-> Strip[q.message]]

IsBacked(d, q, answer) ==
  /\ q.tool = "cancel_order" => q.order \in Orders /\ d.orders[q.order] = "cancelled"
  /\ q.tool = "refund_payment" => Refunds(d, q, answer)
  /\ q.tool = "restore_inventory" =>
       q.sku \in Skus /\ answer \in Nat /\ answer <= d.stock[q.sku]
  /\ q.tool = "send_confirmation" => Confirms(d, q, answer)

LEMMA StaysBacked ==
  ASSUME NEW d, NEW e, SoundState(d), Grows(d, e), NEW q, NEW answer, IsBacked(d, q, answer)
  PROVE  IsBacked(e, q, answer)
<1>1. \A s \in Skus : d.stock[s] \in Nat /\ e.stock[s] \in Nat /\ d.stock[s] <= e.stock[s]
  BY DEF Grows, SoundState
<1>2. Refunds(d, q, answer) => Refunds(e, q, answer)
  BY DEF Grows, Keeps, Refunds
<1>3. Confirms(d, q, answer) => Confirms(e, q, answer)
  BY DEF Grows, Keeps, Confirms
<1>4. \A n \in Nat, s \in Skus : n <= d.stock[s] => n <= e.stock[s]
  BY <1>1
<1>. QED
  BY <1>2, <1>3, <1>4 DEF IsBacked, Grows

LEMMA GrowsTwice ==
  ASSUME NEW d, NEW e, NEW f, SoundState(d), Grows(d, e), Grows(e, f)
  PROVE  Grows(d, f)
<1>1. \A s \in Skus : /\ d.stock[s] \in Nat /\ e.stock[s] \in Nat /\ f.stock[s] \in Nat
                      /\ d.stock[s] <= e.stock[s] /\ e.stock[s] <= f.stock[s]
  BY DEF Grows, SoundState
<1>2. \A s \in Skus : d.stock[s] <= f.stock[s]
  BY <1>1
<1>. QED
  BY <1>2 DEF Grows, Keeps

LEMMA Unchanging ==
  ASSUME NEW d, SoundState(d)
  PROVE  Grows(d, d)
<1>1. \A s \in Skus : d.stock[s] <= d.stock[s]
  BY DEF SoundState
<1>. QED
  BY <1>1 DEF Grows, Keeps

\* A new entry does not take the place of another.
LEMMA CreateKeeps ==
  ASSUME NEW l, SoundLedger(l), NEW r, NEW k
  PROVE  LET m == Create(l, r, k)
         IN  /\ SoundLedger(m) /\ Keeps(l, m)
             /\ l.next \in DOMAIN m.entries /\ m.entries[l.next].request = r
<1>. DEFINE m == Create(l, r, k)
            v == [request |-> r, key |-> k]
            w == [request |-> r, id |-> l.next]
<1>. SUFFICES /\ SoundLedger(m) /\ Keeps(l, m)
              /\ l.next \in DOMAIN m.entries /\ m.entries[l.next].request = r
  OBVIOUS
<1>1. /\ DOMAIN m = {"entries", "index", "next"}
      /\ m.entries = Put(l.entries, l.next, v)
      /\ m.index = IF k = NoKey THEN l.index ELSE Put(l.index, k, w)
      /\ m.next = l.next + 1
  BY DEF Create
<1>2. v.request = r /\ w.request = r /\ w.id = l.next
  OBVIOUS
<1>. HIDE DEF m, v, w
<1>3. /\ l.next \in Nat
      /\ \A i \in DOMAIN l.entries : i \in Nat /\ i < l.next /\ i # l.next
  BY DEF SoundLedger
<1>4. /\ DOMAIN m.entries = DOMAIN l.entries \cup {l.next}
      /\ m.entries[l.next] = v
      /\ \A i \in DOMAIN l.entries : m.entries[i] = l.entries[i]
  BY <1>1, <1>3 DEF Put
<1>5. ASSUME NEW j \in DOMAIN m.index
      PROVE  m.index[j] = w \/ (j \in DOMAIN l.index /\ m.index[j] = l.index[j])
  BY <1>1, <1>5 DEF Put
<1>6. ASSUME NEW j \in DOMAIN m.index
      PROVE  /\ m.index[j].id \in Nat /\ m.index[j].id < m.next
             /\ m.index[j].id \in DOMAIN m.entries =>
                  m.entries[m.index[j].id].request = m.index[j].request
  <2>1. CASE m.index[j] = w
    BY <1>1, <1>2, <1>3, <1>4, <2>1
  <2>2. CASE j \in DOMAIN l.index /\ m.index[j] = l.index[j]
    <3>1. l.index[j].id \in Nat /\ l.index[j].id < l.next
      BY <2>2 DEF SoundLedger
    <3>2. l.index[j].id # l.next /\ l.index[j].id < m.next
      BY <1>1, <1>3, <3>1
    <3>. QED
      BY <1>4, <2>2, <3>1, <3>2 DEF SoundLedger
  <2>. QED
    BY <1>5, <2>1, <2>2
<1>7. m.next \in Nat /\ \A i \in DOMAIN m.entries : i \in Nat /\ i < m.next
  BY <1>1, <1>3, <1>4
<1>. QED
  BY <1>1, <1>2, <1>4, <1>6, <1>7 DEF SoundLedger, Keeps

\* What was found under a key is an entry for the same request.
LEMMA ReplayedIsKept ==
  ASSUME NEW l, SoundLedger(l), NEW r, NEW k \in DOMAIN l.index, Replayed(l, r, k) # Raised
  PROVE  /\ Replayed(l, r, k).id \in DOMAIN l.entries
         /\ l.entries[Replayed(l, r, k).id].request = r
<1>1. /\ l.index[k].request = r /\ l.index[k].id \in DOMAIN l.entries
      /\ Replayed(l, r, k) = EntryAt(l, l.index[k].id)
  BY DEF Replayed
<1>. QED
  BY <1>1 DEF EntryAt, SoundLedger

GoesWell(d, q, result) ==
  Grows(d, result.db) /\ (result.answer # Raised => IsBacked(result.db, q, result.answer))

LEMMA RefusalsGoWell ==
  ASSUME NEW d, SoundState(d), NEW q
  PROVE  GoesWell(d, q, Answer(d, Raised))
BY Unchanging DEF GoesWell, Answer

LEMMA CancelGoesWell ==
  ASSUME NEW d, SoundState(d), NEW q, q.tool = "cancel_order"
  PROVE  GoesWell(d, q, CancelOrder(d, q.order))
<1>1. CASE q.order \in Orders
  <2>. DEFINE orders == [d.orders EXCEPT ![q.order] = "cancelled"]
              e == [d EXCEPT !.orders = orders]
  <2>1. CancelOrder(d, q.order).db = e
    BY <1>1 DEF CancelOrder, Answer
  <2>2. /\ orders \in [Orders -> {"confirmed", "cancelled"}] /\ orders[q.order] = "cancelled"
        /\ \A o \in Orders : d.orders[o] = "cancelled" => orders[o] = "cancelled"
    BY <1>1 DEF SoundState, Shape
  <2>. HIDE DEF orders
  <2>3. /\ DOMAIN e = DOMAIN d /\ e.orders = orders /\ e.stock = d.stock
        /\ e.refunds = d.refunds /\ e.notifications = d.notifications
    BY DEF SoundState, Shape
  <2>. HIDE DEF e
  <2>4. SoundState(e)
    BY <2>2, <2>3 DEF SoundState, Shape
  <2>5. Grows(d, e)
    BY <2>2, <2>3, <2>4, Unchanging DEF Grows
  <2>. QED
    BY <1>1, <2>1, <2>2, <2>3, <2>5 DEF GoesWell, IsBacked
<1>2. CASE q.order \notin Orders
  BY <1>2, RefusalsGoWell DEF CancelOrder
<1>. QED
  BY <1>1, <1>2

LEMMA RestoreGoesWell ==
  ASSUME NEW d, SoundState(d), NEW q, q.tool = "restore_inventory", q.quantity \in Int
  PROVE  GoesWell(d, q, RestoreInventory(d, q.sku, q.quantity))
<1>1. CASE q.quantity > 0 /\ q.sku \in Skus
  <2>. DEFINE n == d.stock[q.sku] + q.quantity
              stock == [d.stock EXCEPT ![q.sku] = n]
              e == [d EXCEPT !.stock = stock]
  <2>1. RestoreInventory(d, q.sku, q.quantity) = Answer(e, n)
    BY <1>1 DEF RestoreInventory
  <2>2. n \in Nat /\ d.stock[q.sku] <= n
    BY <1>1 DEF SoundState
  <2>. HIDE DEF n
  <2>3. stock \in [Skus -> Nat] /\ stock[q.sku] = n
    BY <1>1, <2>2 DEF SoundState
  <2>4. \A s \in Skus : d.stock[s] <= stock[s]
    BY <1>1, <2>2 DEF SoundState
  <2>. HIDE DEF stock
  <2>5. /\ DOMAIN e = DOMAIN d /\ e.orders = d.orders /\ e.stock = stock
        /\ e.refunds = d.refunds /\ e.notifications = d.notifications
    BY DEF SoundState, Shape
  <2>6. RestoreInventory(d, q.sku, q.quantity).db = e
        /\ RestoreInventory(d, q.sku, q.quantity).answer = n
    BY <2>1 DEF Answer
  <2>. HIDE DEF e
  <2>7. SoundState(e)
    BY <2>3, <2>5 DEF SoundState, Shape
  <2>8. Grows(d, e)
    BY <2>4, <2>5, <2>7, Unchanging DEF Grows
  <2>9. n <= stock[q.sku]
    BY <2>2, <2>3
  <2>. QED
    BY <1>1, <2>2, <2>3, <2>5, <2>6, <2>8, <2>9 DEF GoesWell, IsBacked
<1>2. CASE ~(q.quantity > 0 /\ q.sku \in Skus)
  BY <1>2, RefusalsGoWell DEF RestoreInventory
<1>. QED
  BY <1>1, <1>2

LEMMA RefundGoesWell ==
  ASSUME NEW d, SoundState(d), NEW q, q.tool = "refund_payment"
  PROVE  GoesWell(d, q, RefundPayment(d, [payment |-> q.payment, amount |-> q.amount], q.key))
<1>. DEFINE r == [payment |-> q.payment, amount |-> q.amount]
            k == NormalKey(q.key)
            result == RefundPayment(d, r, q.key)
            skipped == [d.refunds EXCEPT !.next = @ + 1]
            made == Create(d.refunds, r, k)
            payments == [d.payments EXCEPT ![r.payment] = "refunded"]
<1>1. \/ result = Answer(d, Raised)
      \/ k \in DOMAIN d.refunds.index /\ result = Answer(d, Replayed(d.refunds, r, k))
      \/ result = Answer([d EXCEPT !.refunds = skipped], Raised)
      \/ result = Answer([d EXCEPT !.refunds = made, !.payments = payments],
                         EntryAt(made, d.refunds.next))
  <2>. HIDE DEF r, k
  <2>1. [d EXCEPT !.refunds = made].payments = d.payments
    BY DEF SoundState, Shape
  <2>2. \/ NewRefund(d, r, k) = Answer([d EXCEPT !.refunds = skipped], Raised)
        \/ NewRefund(d, r, k) = Answer([d EXCEPT !.refunds = made, !.payments = payments],
                                       EntryAt(made, d.refunds.next))
    BY <2>1 DEF NewRefund
  <2>3. result = IF r.amount \notin Amounts \cup OversizedAmounts \/ k = Blank
                 THEN Answer(d, Raised)
                 ELSE IF k \in DOMAIN d.refunds.index
                 THEN Answer(d, Replayed(d.refunds, r, k))
                 ELSE IF r.payment \notin Payments
                 THEN Answer(d, Raised)
                 ELSE NewRefund(d, r, k)
    BY DEF RefundPayment, k
  <2>. HIDE DEF result, skipped, made, payments
  <2>. QED
    BY <2>2, <2>3
<1>2. ASSUME k \in DOMAIN d.refunds.index, Replayed(d.refunds, r, k) # Raised
      PROVE  IsBacked(d, q, Replayed(d.refunds, r, k))
  <2>. HIDE DEF k
  <2>1. /\ Replayed(d.refunds, r, k).id \in DOMAIN d.refunds.entries
        /\ d.refunds.entries[Replayed(d.refunds, r, k).id].request = r
    BY <1>2, ReplayedIsKept DEF SoundState
  <2>. QED
    BY <2>1 DEF IsBacked, Refunds
<1>3. /\ SoundLedger(skipped) /\ Keeps(d.refunds, skipped)
      /\ SoundLedger(made) /\ Keeps(d.refunds, made)
      /\ d.refunds.next \in DOMAIN made.entries /\ made.entries[d.refunds.next].request = r
  <2>. HIDE DEF k, r
  <2>1. SoundLedger(d.refunds)
    BY DEF SoundState
  <2>2. /\ DOMAIN skipped = DOMAIN d.refunds /\ skipped.next = d.refunds.next + 1
        /\ skipped.entries = d.refunds.entries /\ skipped.index = d.refunds.index
    BY <2>1 DEF SoundLedger
  <2>. HIDE DEF skipped
  <2>3. d.refunds.next \in Nat /\ skipped.next \in Nat
        /\ \A i \in Nat : i < d.refunds.next => i < skipped.next
    BY <2>1, <2>2 DEF SoundLedger
  <2>4. SoundLedger(skipped) /\ Keeps(d.refunds, skipped)
    BY <2>1, <2>2, <2>3 DEF SoundLedger, Keeps
  <2>. QED
    BY <2>1, <2>4, CreateKeeps
<1>. HIDE DEF result, skipped, made, payments
<1>4. ASSUME NEW l, SoundLedger(l), Keeps(d.refunds, l), NEW e,
             DOMAIN e = DOMAIN d, e.orders = d.orders, e.stock = d.stock,
             e.refunds = l, e.notifications = d.notifications
      PROVE  Grows(d, e)
  <2>1. SoundState(e)
    BY <1>4 DEF SoundState, Shape
  <2>. QED
    BY <1>4, <2>1, Unchanging DEF Grows
<1>5. CASE result = Answer(d, Raised)
  BY <1>5, RefusalsGoWell DEF result
<1>6. CASE k \in DOMAIN d.refunds.index /\ result = Answer(d, Replayed(d.refunds, r, k))
  <2>1. result.db = d /\ result.answer = Replayed(d.refunds, r, k)
    BY <1>6 DEF Answer
  <2>. HIDE DEF r, k
  <2>2. GoesWell(d, q, result)
    BY <1>2, <1>6, <2>1, Unchanging DEF GoesWell
  <2>. QED
    BY <2>2 DEF result, r
<1>7. CASE result = Answer([d EXCEPT !.refunds = skipped], Raised)
  <2>. DEFINE e == [d EXCEPT !.refunds = skipped]
  <2>1. result.db = e /\ result.answer = Raised
    BY <1>7 DEF Answer
  <2>2. /\ DOMAIN e = DOMAIN d /\ e.orders = d.orders /\ e.stock = d.stock
        /\ e.refunds = skipped /\ e.notifications = d.notifications
    BY DEF SoundState, Shape
  <2>. HIDE DEF e, r
  <2>3. GoesWell(d, q, result)
    BY <1>3, <1>4, <2>1, <2>2 DEF GoesWell
  <2>. QED
    BY <2>3 DEF result, r
<1>8. CASE result = Answer([d EXCEPT !.refunds = made, !.payments = payments],
                           EntryAt(made, d.refunds.next))
  <2>. DEFINE e == [d EXCEPT !.refunds = made, !.payments = payments]
  <2>1. result.db = e /\ result.answer = EntryAt(made, d.refunds.next)
    BY <1>8 DEF Answer
  <2>2. /\ DOMAIN e = DOMAIN d /\ e.orders = d.orders /\ e.stock = d.stock
        /\ e.refunds = made /\ e.notifications = d.notifications
    BY DEF SoundState, Shape
  <2>. HIDE DEF e
  <2>3. Grows(d, e)
    BY <1>3, <1>4, <2>2
  <2>4. Refunds(e, q, result.answer)
    BY <1>3, <2>1, <2>2 DEF Refunds, EntryAt
  <2>5. GoesWell(d, q, result)
    BY <2>1, <2>3, <2>4 DEF GoesWell, IsBacked
  <2>. HIDE DEF r
  <2>. QED
    BY <2>5 DEF result, r
<1>. HIDE DEF r, k
<1>9. GoesWell(d, q, RefundPayment(d, r, q.key))
  BY <1>1, <1>5, <1>6, <1>7, <1>8 DEF r
<1>. QED
  BY <1>9 DEF r

LEMMA ConfirmGoesWell ==
  ASSUME NEW d, SoundState(d), NEW q, q.tool = "send_confirmation"
  PROVE  GoesWell(d, q, SendConfirmation(d, q.order, q.message, q.key))
<1>. DEFINE r == [order |-> q.order, message |-> Strip[q.message]]
            k == NormalKey(q.key)
            result == SendConfirmation(d, q.order, q.message, q.key)
            l == d.notifications
            made == Create(l, r, k)
            e == [d EXCEPT !.notifications = made]
<1>1. \/ result = Answer(d, Raised)
      \/ k \in DOMAIN l.index /\ result = Answer(d, Replayed(l, r, k))
      \/ result = Answer(e, EntryAt(made, l.next))
  BY DEF SendConfirmation
<1>2. r = [order |-> q.order, message |-> Strip[q.message]]
  OBVIOUS
<1>3. SoundLedger(l)
  BY DEF SoundState
<1>4. /\ DOMAIN e = DOMAIN d /\ e.orders = d.orders /\ e.stock = d.stock
      /\ e.refunds = d.refunds /\ e.notifications = made
  BY DEF SoundState, Shape
<1>. HIDE DEF r, k, result, e
<1>. SUFFICES GoesWell(d, q, result)
  BY DEF result
<1>5. /\ SoundLedger(made) /\ Keeps(l, made)
      /\ l.next \in DOMAIN made.entries /\ made.entries[l.next].request = r
  BY <1>3, CreateKeeps
<1>. HIDE DEF made
<1>6. CASE result = Answer(d, Raised)
  BY <1>6, RefusalsGoWell
<1>7. CASE k \in DOMAIN l.index /\ result = Answer(d, Replayed(l, r, k))
  <2>1. result.db = d /\ result.answer = Replayed(l, r, k)
    BY <1>7 DEF Answer
  <2>2. result.answer # Raised => Confirms(d, q, result.answer)
    BY <1>2, <1>3, <1>7, <2>1, ReplayedIsKept DEF Confirms
  <2>. HIDE DEF l
  <2>. QED
    BY <2>1, <2>2, Unchanging DEF GoesWell, IsBacked
<1>8. CASE result = Answer(e, EntryAt(made, l.next))
  <2>1. result.db = e /\ result.answer.id = l.next
    BY <1>8 DEF Answer, EntryAt
  <2>2. Confirms(e, q, result.answer)
    BY <1>2, <1>4, <1>5, <2>1 DEF Confirms
  <2>3. SoundState(e)
    BY <1>4, <1>5 DEF SoundState, Shape
  <2>4. Grows(d, e)
    BY <1>4, <1>5, <2>3, Unchanging DEF Grows
  <2>. HIDE DEF l
  <2>. QED
    BY <2>1, <2>2, <2>4 DEF GoesWell, IsBacked
<1>. QED
  BY <1>1, <1>6, <1>7, <1>8

LEMMA HandlesWell ==
  ASSUME NEW d, SoundState(d), NEW q \in Requests, q.tool \in Tools
  PROVE  GoesWell(d, q, Handle(d, q))
<1>1. CASE ~ArgumentsAreValid(q)
  BY <1>1, RefusalsGoWell DEF Handle
<1>2. CASE ArgumentsAreValid(q) /\ q.tool = "cancel_order"
  BY <1>2, CancelGoesWell DEF Handle, Perform
<1>3. CASE ArgumentsAreValid(q) /\ q.tool = "refund_payment"
  BY <1>3, RefundGoesWell DEF Handle, Perform, RefundOf
<1>4. CASE ArgumentsAreValid(q) /\ q.tool = "restore_inventory"
  BY <1>4, RestoreGoesWell, RequestsAssumption DEF Handle, Perform
<1>5. CASE ArgumentsAreValid(q) /\ q.tool = "send_confirmation"
  BY <1>5, ConfirmGoesWell DEF Handle, Perform
<1>. QED
  BY <1>1, <1>2, <1>3, <1>4, <1>5 DEF Tools

\* What is told of a call, unless it is an error or a replacement, is backed.
Tells(answer) == answer # NoReply /\ answer.ok /\ answer.response \notin Replacements

LEMMA ExecutesWell ==
  ASSUME NEW d, SoundState(d), NEW q \in Requests, q.tool \in Tools,
         NEW r \in FaultRules \cup {NoRule}
  PROVE  LET first == Handle(d, q)
             e == Execute(d, first, Handle(first.db, q), r)
         IN  /\ Grows(d, e.db)
             /\ Tells(Normalized(r, e)) => IsBacked(e.db, q, Normalized(r, e).response)
<1>. DEFINE first == Handle(d, q)
            second == Handle(first.db, q)
            e == Execute(d, first, second, r)
            told == Normalized(r, e)
<1>. SUFFICES Grows(d, e.db) /\ (Tells(told) => IsBacked(e.db, q, told.response))
  OBVIOUS
<1>1. /\ Grows(d, first.db)
      /\ first.answer # Raised => IsBacked(first.db, q, first.answer)
  BY HandlesWell DEF GoesWell
<1>2. SoundState(first.db)
  BY <1>1 DEF Grows
<1>3. Grows(first.db, second.db)
  BY <1>2, HandlesWell DEF GoesWell
<1>. HIDE DEF first, second
<1>4. Grows(d, second.db)
  BY <1>1, <1>3, GrowsTwice
<1>5. \/ e.db = d /\ e.caller = "injected"
      \/ e.db = first.db /\ e.caller = "error"
      \/ /\ first.answer # Raised /\ e.db \in {first.db, second.db}
         /\ e.caller \in {"result", "ambiguous", "replacement"} /\ e.answer = first.answer
  <2>1. CallerSees(r) \in {"result", "ambiguous", "replacement"}
    BY DEF CallerSees
  <2>2. CASE TypeOf(r) \in RejectingFaults
    <3>1. e = Executed(d, Refused(r), "injected", None)
      BY <2>2 DEF Execute, RejectingFaults
    <3>. QED
      BY <3>1 DEF Executed
  <2>3. CASE TypeOf(r) \notin RejectingFaults /\ first.answer = Raised
    <3>1. e = Executed(first.db, Failed(r), "error", None)
      BY <2>3 DEF Execute
    <3>. QED
      BY <3>1 DEF Executed
  <2>4. CASE TypeOf(r) = "duplicate_request" /\ first.answer # Raised
    <3>1. e = Executed(second.db, DeliveredTwice(r), "result", first.answer)
      BY <2>4 DEF Execute, RejectingFaults
    <3>. QED
      BY <2>4, <3>1 DEF Executed
  <2>5. CASE TypeOf(r) \notin RejectingFaults /\ first.answer # Raised
             /\ TypeOf(r) # "duplicate_request"
    <3>1. e = Executed(first.db, Succeeded(r), CallerSees(r), first.answer)
      BY <2>5 DEF Execute
    <3>. QED
      BY <2>1, <2>5, <3>1 DEF Executed
  <2>. QED
    BY <2>2, <2>3, <2>4, <2>5
<1>6. e.caller = "replacement" => r # NoRule /\ r.type = "malformed_response"
  BY DEF Execute, Executed, CallerSees, TypeOf
<1>7. Grows(d, e.db)
  BY <1>1, <1>4, <1>5, Unchanging
<1>. HIDE DEF e
<1>8. ASSUME Tells(told) PROVE e.caller = "result" /\ told.response = e.answer
  <2>1. e.caller = "replacement" => r.response \in Replacements
    BY <1>6, FaultRulesAssumption
  <2>. QED
    BY <1>5, <1>8, <2>1 DEF Normalized, Ok, Failure, Tells
<1>. HIDE DEF told
<1>9. first.answer # Raised /\ e.db \in {first.db, second.db} => IsBacked(e.db, q, first.answer)
  BY <1>1, <1>2, <1>3, StaysBacked
<1>. QED
  BY <1>5, <1>7, <1>8, <1>9

AnswersInv ==
  /\ SoundState(db)
  /\ reply = [c \in Calls |-> reply[c]]
  /\ \A c \in Calls : Tells(reply[c]) =>
       pc[c] = "ended" /\ IsBacked(db, frame[c].request, reply[c].response)

LEMMA InitAnswers == Init => AnswersInv
<1> SUFFICES ASSUME Init PROVE AnswersInv
  OBVIOUS
<1>1. /\ DOMAIN EmptyLedger = {"entries", "index", "next"} /\ EmptyLedger.next = 1
      /\ DOMAIN EmptyLedger.entries = {} /\ DOMAIN EmptyLedger.index = {}
  BY DEF EmptyLedger, Nowhere
<1>2. SoundLedger(EmptyLedger)
  BY <1>1 DEF SoundLedger
<1>3. SoundState(db)
  BY <1>2 DEF Init, InitialState, SoundState, Shape
<1>. QED
  BY <1>3 DEF Init, AnswersInv, Tells

\* The state grows, and one call that had not ended is answered or moves on.
LEMMA StepKeepsAnswers ==
  ASSUME Typed, AnswersInv, NEW c \in Calls, pc[c] # "ended", Grows(db, db'),
         NEW state, pc' = [pc EXCEPT ![c] = state],
         NEW f, frame' = [frame EXCEPT ![c] = f],
         NEW answer, reply' = [reply EXCEPT ![c] = answer],
         Tells(answer) => state = "ended" /\ IsBacked(db', f.request, answer.response)
  PROVE  AnswersInv'
<1>1. \A b \in Calls : b # c =>
        pc'[b] = pc[b] /\ frame'[b] = frame[b] /\ reply'[b] = reply[b]
  BY DEF Typed, AnswersInv
<1>2. pc'[c] = state /\ frame'[c] = f /\ reply'[c] = answer
  BY DEF Typed, AnswersInv
<1>3. ASSUME NEW b \in Calls, Tells(reply'[b])
      PROVE  pc'[b] = "ended" /\ IsBacked(db', frame'[b].request, reply'[b].response)
  <2>1. CASE b = c
    BY <1>2, <1>3, <2>1
  <2>2. CASE b # c
    <3>1. pc[b] = "ended" /\ IsBacked(db, frame[b].request, reply[b].response)
      BY <1>1, <1>3, <2>2 DEF AnswersInv
    <3>2. IsBacked(db', frame[b].request, reply[b].response)
      BY <3>1, StaysBacked DEF AnswersInv
    <3>. QED
      BY <1>1, <2>2, <3>1, <3>2
  <2>. QED
    BY <2>1, <2>2
<1>4. SoundState(db')
  BY DEF Grows
<1>5. reply' = [b \in Calls |-> reply'[b]]
  BY DEF AnswersInv
<1>6. \A b \in Calls : Tells(reply'[b]) =>
        pc'[b] = "ended" /\ IsBacked(db', frame'[b].request, reply'[b].response)
  BY <1>3
<1>. QED
  BY <1>4, <1>5, <1>6 DEF AnswersInv, SoundState, Shape

LEMMA FinishKeepsAnswers ==
  ASSUME Typed, AnswersInv, NEW c \in Calls, pc[c] # "ended", NEW f \in AnyFrame,
         f.request.tool \in Tools, Finish(c, f), frame' = [frame EXCEPT ![c] = f]
  PROVE  AnswersInv'
<1>. DEFINE first == Handle(db, f.request)
            e == Execute(db, first, Handle(first.db, f.request), f.rule)
            told == Normalized(f.rule, e)
<1>1. /\ db' = e.db /\ reply' = [reply EXCEPT ![c] = told]
      /\ pc' = [pc EXCEPT ![c] = "ended"]
  BY DEF Finish
<1>2. f.request \in Requests /\ f.rule \in FaultRules \cup {NoRule} /\ SoundState(db)
  BY DEF AnyFrame, AnswersInv
<1>3. Grows(db, e.db) /\ (Tells(told) => IsBacked(e.db, f.request, told.response))
  BY <1>2, ExecutesWell
<1>. HIDE DEF e, told
<1>. QED
  BY <1>1, <1>3, StepKeepsAnswers

LEMMA NextAnswers == RunInv /\ AnswersInv /\ [Next]_vars => AnswersInv'
<1> SUFFICES ASSUME RunInv, AnswersInv, [Next]_vars PROVE AnswersInv'
  OBVIOUS
<1>0. Typed /\ Grows(db, db)
  BY Unchanging DEF RunInv, AnswersInv
<1>1. ASSUME UNCHANGED <<db, pc, frame, reply>> PROVE AnswersInv'
  BY <1>1 DEF AnswersInv, SoundState, Shape
<1>2. ASSUME NEW c \in Calls, NEW q \in Requests, Call(c, q) PROVE AnswersInv'
  <2>1. pc[c] = "unborn" /\ ~Tells(reply[c])
    BY <1>2 DEF Call, AnswersInv
  <2>2. CASE Refuse(c) \/ CallUnknownTool(c, q)
    <3>1. PICK kind \in {"call_budget_exhausted", "unknown_tool"} :
            reply' = [reply EXCEPT ![c] = Failure(kind)]
      BY <2>2 DEF Refuse, CallUnknownTool
    <3>2. PICK state \in {"refused", "unknown"} : pc' = [pc EXCEPT ![c] = state]
      BY <2>2 DEF Refuse, CallUnknownTool
    <3>3. db' = db /\ frame' = [frame EXCEPT ![c] = frame[c]]
      BY <1>0, <2>2 DEF Refuse, CallUnknownTool, Typed
    <3>4. ~Tells(Failure(kind))
      BY DEF Tells, Failure
    <3>. QED
      BY <1>0, <2>1, <3>1, <3>2, <3>3, <3>4, StepKeepsAnswers
  <2>3. CASE CallTool(c, q)
    <3> DEFINE f == NewFrame(q)
    <3>1. /\ q.tool \in Tools /\ frame' = [frame EXCEPT ![c] = f]
          /\ \/ pc' = [pc EXCEPT ![c] = "sleeping"] /\ UNCHANGED <<db, trace, reply>>
             \/ Finish(c, f)
      BY <2>3 DEF CallTool
    <3>2. f \in AnyFrame /\ f.request = q
      BY <1>0, <3>1, NewFrames
    <3>. HIDE DEF f
    <3>3. CASE pc' = [pc EXCEPT ![c] = "sleeping"] /\ UNCHANGED <<db, trace, reply>>
      <4> PICK answer : answer = reply[c]
        OBVIOUS
      <4>1. reply' = [reply EXCEPT ![c] = answer] /\ db' = db /\ ~Tells(answer)
        BY <2>1, <3>3 DEF AnswersInv
      <4>2. Grows(db, db') /\ pc[c] # "ended"
        BY <1>0, <2>1, <4>1
      <4>3. PICK state : pc' = [pc EXCEPT ![c] = state]
        BY <3>3
      <4>. QED
        BY <1>0, <3>1, <4>1, <4>2, <4>3, StepKeepsAnswers
    <3>4. CASE Finish(c, f)
      BY <1>0, <2>1, <3>1, <3>2, <3>4, FinishKeepsAnswers
    <3>. QED
      BY <3>1, <3>3, <3>4
  <2>. QED
    BY <1>2, <2>2, <2>3 DEF Call
<1>3. ASSUME NEW c \in Calls, WakeUp(c) PROVE AnswersInv'
  <2> PICK f : f = frame[c]
    OBVIOUS
  <2>1. pc[c] = "sleeping" /\ Finish(c, f) /\ frame' = frame
    BY <1>3 DEF WakeUp
  <2>2. f \in AnyFrame /\ f.request.tool \in Tools /\ frame' = [frame EXCEPT ![c] = f]
    BY <1>0, <2>1 DEF RunInv, Typed, Unnumbered
  <2>. QED
    BY <1>0, <2>1, <2>2, FinishKeepsAnswers
<1>4. ASSUME NEW c \in Calls, Cancel(c) PROVE AnswersInv'
  <2> PICK f, answer : f = frame[c] /\ answer = reply[c]
    OBVIOUS
  <2>1. /\ pc[c] = "sleeping" /\ pc' = [pc EXCEPT ![c] = "cancelled"]
        /\ db' = db /\ frame' = frame /\ reply' = reply
    BY <1>4 DEF Cancel
  <2>2. frame' = [frame EXCEPT ![c] = f] /\ reply' = [reply EXCEPT ![c] = answer]
    BY <1>0, <2>1 DEF Typed, AnswersInv
  <2>3. ~Tells(answer) /\ Grows(db, db') /\ pc[c] # "ended"
    BY <1>0, <2>1 DEF AnswersInv
  <2>4. PICK state : pc' = [pc EXCEPT ![c] = state]
    BY <2>1
  <2>. QED
    BY <1>0, <2>2, <2>3, <2>4, StepKeepsAnswers
<1>5. CASE UNCHANGED vars \/ \E status \in AgentStatuses : AdapterEnds(status)
  BY <1>1, <1>5 DEF vars, AdapterEnds
<1>. QED
  BY <1>2, <1>3, <1>4, <1>5 DEF Next

\* What the agent is told happened did happen, and stays so: a number it is given is that of
\* an entry for this very request, a stock is one that was reached, an order is cancelled.
THEOREM BackedAnswers == Spec => []AnswersAreBacked
<1>1. RunInv /\ AnswersInv => AnswersAreBacked
  <2> SUFFICES ASSUME RunInv, AnswersInv, NEW c \in Calls, Tells(reply[c])
               PROVE  LET q == frame[c].request
                          answer == reply[c].response
                      IN  CASE q.tool = "cancel_order"   -> db.orders[q.order] = "cancelled"
                            [] q.tool = "refund_payment" ->
                                 /\ answer.id \in DOMAIN db.refunds.entries
                                 /\ db.refunds.entries[answer.id].request = RefundOf(q)
                            [] q.tool = "restore_inventory" -> answer <= db.stock[q.sku]
                            [] q.tool = "send_confirmation" ->
                                 /\ answer.id \in DOMAIN db.notifications.entries
                                 /\ db.notifications.entries[answer.id].request =
                                      ConfirmationOf(q)
    BY DEF AnswersAreBacked, Tells
  <2>1. pc[c] = "ended" /\ IsBacked(db, frame[c].request, reply[c].response)
    BY DEF AnswersInv
  <2>2. frame[c].request.tool \in Tools
    BY <2>1 DEF RunInv, Unnumbered
  <2>. QED
    BY <2>1, <2>2 DEF IsBacked, Refunds, Confirms, Tools, RefundOf, ConfirmationOf
<1>. QED
  BY <1>1, RunInvariant, InitAnswers, NextAnswers, PTL DEF Spec

-----------------------------------------------------------------------------
\* The trace explains the state.  The fixture has one order and one SKU.

OneSku == Skus = {sku}

\* What a call did to a ledger: nothing that shows, or n executions of one request, which
\* make n entries without a key, and one entry, unless there is one, with a key.
Quiet(l, m) == DOMAIN m.index = DOMAIN l.index /\ DOMAIN m.entries = DOMAIN l.entries

Makes(l, m, k, n) ==
  /\ DOMAIN m.index = DOMAIN l.index \cup ({k} \ {NoKey})
  /\ Cardinality(DOMAIN m.entries) =
       Cardinality(DOMAIN l.entries)
         + (IF k = NoKey THEN n ELSE IF k \in DOMAIN l.index THEN 0 ELSE 1)

\* The index has no entry for calls without a key.
Named(d) ==
  SoundState(d) /\ NoKey \notin DOMAIN d.refunds.index /\ NoKey \notin DOMAIN d.notifications.index

\* What the sandbox answers with no error, whatever its state, unless there is a key.
IsAccepted(q) ==
  /\ ArgumentsAreValid(q)
  /\ q.tool = "restore_inventory" => q.quantity > 0 /\ q.sku \in Skus
  /\ q.tool = "refund_payment" =>
       q.amount \in Amounts \ OversizedAmounts /\ q.payment \in Payments
  /\ q.tool = "send_confirmation" => Strip[q.message] # Blank /\ q.order \in Orders

LEMMA FiniteEntries ==
  ASSUME NEW l, SoundLedger(l)
  PROVE  IsFiniteSet(DOMAIN l.entries) /\ Cardinality(DOMAIN l.entries) \in Nat
<1>1. DOMAIN l.entries \in SUBSET Nat /\ \A i \in DOMAIN l.entries : i <= l.next
  BY DEF SoundLedger
<1>2. l.next \in Nat
  BY DEF SoundLedger
<1>3. IsFiniteSet(DOMAIN l.entries)
  BY <1>1, <1>2, FS_BoundedSetOfNaturals
<1>. QED
  BY <1>3, FS_CardinalityType

\* A new entry.
LEMMA CreateMakes ==
  ASSUME NEW l, SoundLedger(l), NEW r, NEW k, k \notin DOMAIN l.index
  PROVE  Makes(l, Create(l, r, k), k, 1)
<1>. DEFINE m == Create(l, r, k)
<1>1. /\ DOMAIN m.entries = DOMAIN l.entries \cup {l.next}
      /\ DOMAIN m.index = DOMAIN l.index \cup ({k} \ {NoKey})
  BY DEF Create, Put
<1>2. l.next \notin DOMAIN l.entries
  BY DEF SoundLedger
<1>3. IsFiniteSet(DOMAIN l.entries) /\ Cardinality(DOMAIN l.entries) \in Nat
  BY FiniteEntries
<1>. HIDE DEF m
<1>4. Cardinality(DOMAIN m.entries) = Cardinality(DOMAIN l.entries) + 1
  BY <1>1, <1>2, <1>3, FS_AddElement
<1>. QED
  BY <1>1, <1>4 DEF Makes, m

\* An answer is no error.
LEMMA AnswersAreNoErrors ==
  ASSUME NEW q \in Requests, ArgumentsAreValid(q), NEW l, SoundLedger(l),
         NEW k \in Keys \cup {NoKey}
  PROVE  /\ q.tool = "refund_payment" =>
              EntryAt(Create(l, RefundOf(q), k), l.next) # Raised
         /\ q.tool = "send_confirmation" =>
              EntryAt(Create(l, ConfirmationOf(q), k), l.next) # Raised
<1>1. ASSUME NEW r PROVE EntryAt(Create(l, r, k), l.next) = [id |-> l.next, request |-> r, key |-> k]
  <2>. DEFINE v == [request |-> r, key |-> k]
  <2>1. Create(l, r, k).entries = Put(l.entries, l.next, v)
    BY DEF Create
  <2>2. Put(l.entries, l.next, v)[l.next] = v
    BY DEF Put
  <2>. QED
    BY <2>1, <2>2 DEF EntryAt
<1>2. l.next \in Nat
  BY DEF SoundLedger
<1>3. ASSUME NEW r
      PROVE  EntryAt(Create(l, r, k), l.next) \in [id : Nat, request : {r}, key : Keys \cup {NoKey}]
  <2>1. [id |-> l.next, request |-> r, key |-> k]
          \in [id : Nat, request : {r}, key : Keys \cup {NoKey}]
    BY <1>2
  <2>2. EntryAt(Create(l, r, k), l.next) = [id |-> l.next, request |-> r, key |-> k]
    BY <1>1
  <2>. QED
    BY <2>1, <2>2, Zenon
<1>4. /\ q.tool = "refund_payment" =>
           Raised \notin [id : Nat, request : {RefundOf(q)}, key : Keys \cup {NoKey}]
      /\ q.tool = "send_confirmation" =>
           Raised \notin [id : Nat, request : {ConfirmationOf(q)}, key : Keys \cup {NoKey}]
  BY RaisedAssumption
<1>5. EntryAt(Create(l, RefundOf(q), k), l.next)
        \in [id : Nat, request : {RefundOf(q)}, key : Keys \cup {NoKey}]
  BY <1>3
<1>6. EntryAt(Create(l, ConfirmationOf(q), k), l.next)
        \in [id : Nat, request : {ConfirmationOf(q)}, key : Keys \cup {NoKey}]
  BY <1>3
<1>. QED
  BY <1>4, <1>5, <1>6

\* What one request does to the ledger of its tool.
Does(l, m, q, answer) ==
  LET k == NormalKey(q.key)
  IN  /\ answer = Raised => Quiet(l, m)
      /\ answer # Raised => Makes(l, m, k, 1)
      /\ k \in DOMAIN l.index => m = l
      /\ k = NoKey => (answer # Raised <=> IsAccepted(q))

LEMMA KeysAreNormal ==
  ASSUME NEW k \in Texts \cup {NoKey}, NormalKey(k) # Blank
  PROVE  NormalKey(k) \in Keys \cup {NoKey} /\ (NormalKey(k) = NoKey <=> k = NoKey)
BY StripAssumption DEF NormalKey, Keys

LEMMA RefundDoes ==
  ASSUME NEW d, Named(d), NEW q \in Requests, q.tool = "refund_payment", ArgumentsAreValid(q)
  PROVE  LET result == RefundPayment(d, RefundOf(q), q.key)
         IN  /\ Does(d.refunds, result.db.refunds, q, result.answer)
             /\ result.db.notifications = d.notifications /\ result.db.stock = d.stock
<1>. DEFINE r == RefundOf(q)
            k == NormalKey(q.key)
            l == d.refunds
            result == RefundPayment(d, r, q.key)
            skipped == [l EXCEPT !.next = @ + 1]
            made == Create(l, r, k)
<1>. SUFFICES /\ Does(l, result.db.refunds, q, result.answer)
              /\ result.db.notifications = d.notifications /\ result.db.stock = d.stock
  OBVIOUS
<1>1. /\ SoundLedger(l) /\ NoKey \notin DOMAIN l.index
      /\ DOMAIN d = {"orders", "payments", "stock", "refunds", "notifications"}
  BY DEF Named, SoundState, Shape
<1>2. r.amount = q.amount /\ r.payment = q.payment /\ q.key \in Texts \cup {NoKey}
  BY RequestsAssumption DEF RefundOf
<1>3. result = IF r.amount \notin Amounts \cup OversizedAmounts \/ k = Blank
               THEN Answer(d, Raised)
               ELSE IF k \in DOMAIN l.index
               THEN Answer(d, Replayed(l, r, k))
               ELSE IF r.payment \notin Payments
               THEN Answer(d, Raised)
               ELSE NewRefund(d, r, k)
  BY DEF RefundPayment
<1>4. k # Blank => k \in Keys \cup {NoKey}
  BY <1>2, KeysAreNormal
<1>5. NoKey # Blank
  BY StripAssumption
<1>6. IsAccepted(q) <=> q.amount \in Amounts \ OversizedAmounts /\ q.payment \in Payments
  BY DEF IsAccepted
<1>. HIDE DEF result, r, k
<1>7. ASSUME result.db = d, k \in DOMAIN l.index \/ result.answer = Raised,
             k = NoKey => result.answer = Raised /\ ~IsAccepted(q)
      PROVE  /\ Does(l, result.db.refunds, q, result.answer)
             /\ result.db.notifications = d.notifications /\ result.db.stock = d.stock
  <2>1. Quiet(l, l) /\ (k \in DOMAIN l.index => Makes(l, l, k, 1))
    <3>1. Cardinality(DOMAIN l.entries) \in Nat
      BY <1>1, FiniteEntries
    <3>. QED
      BY <1>1, <3>1 DEF Quiet, Makes
  <2>. QED
    BY <1>7, <2>1 DEF Does, k
<1>8. CASE r.amount \notin Amounts \cup OversizedAmounts \/ k = Blank
  <2>1. result.db = d /\ result.answer = Raised
    BY <1>3, <1>8 DEF Answer
  <2>. QED
    BY <1>2, <1>5, <1>6, <1>7, <1>8, <2>1
<1>9. CASE ~(r.amount \notin Amounts \cup OversizedAmounts \/ k = Blank) /\ k \in DOMAIN l.index
  <2>1. result.db = d
    BY <1>3, <1>9 DEF Answer
  <2>. QED
    BY <1>1, <1>7, <1>9, <2>1
<1>10. CASE ~(r.amount \notin Amounts \cup OversizedAmounts \/ k = Blank)
            /\ k \notin DOMAIN l.index /\ r.payment \notin Payments
  <2>1. result.db = d /\ result.answer = Raised
    BY <1>3, <1>10 DEF Answer
  <2>. QED
    BY <1>2, <1>6, <1>7, <1>10, <2>1
<1>11. CASE ~(r.amount \notin Amounts \cup OversizedAmounts \/ k = Blank)
            /\ k \notin DOMAIN l.index /\ r.payment \in Payments
  <2>1. result = NewRefund(d, r, k)
    BY <1>3, <1>11
  <2>2. CASE r.amount \in OversizedAmounts
    <3>. DEFINE e == [d EXCEPT !.refunds = skipped]
    <3>1. result = Answer(e, Raised)
      BY <2>1, <2>2 DEF NewRefund
    <3>2. result.db = e /\ result.answer = Raised
      BY <3>1 DEF Answer
    <3>3. e.refunds = skipped /\ e.notifications = d.notifications /\ e.stock = d.stock
      BY <1>1
    <3>4. Quiet(l, skipped)
      BY <1>1 DEF Quiet, SoundLedger
    <3>. QED
      BY <1>2, <1>6, <1>11, <2>2, <3>2, <3>3, <3>4 DEF Does, k
  <2>3. CASE r.amount \notin OversizedAmounts
    <3>. DEFINE e == [d EXCEPT !.refunds = made, !.payments[r.payment] = "refunded"]
    <3>1. result = Answer(e, EntryAt(made, l.next))
      BY <2>1, <2>3 DEF NewRefund
    <3>2. result.db = e /\ result.answer = EntryAt(made, l.next)
      BY <3>1 DEF Answer
    <3>3. e.refunds = made /\ e.notifications = d.notifications /\ e.stock = d.stock
      BY <1>1
    <3>4. result.answer # Raised
      BY <1>1, <1>4, <1>11, <3>2, AnswersAreNoErrors DEF r
    <3>5. Makes(l, made, k, 1)
      BY <1>1, <1>11, CreateMakes
    <3>. QED
      BY <1>2, <1>6, <1>11, <2>3, <3>2, <3>3, <3>4, <3>5 DEF Does, k
  <2>. QED
    BY <2>2, <2>3
<1>. QED
  BY <1>8, <1>9, <1>10, <1>11

LEMMA ConfirmDoes ==
  ASSUME NEW d, Named(d), NEW q \in Requests, q.tool = "send_confirmation",
         ArgumentsAreValid(q)
  PROVE  LET result == SendConfirmation(d, q.order, q.message, q.key)
         IN  /\ Does(d.notifications, result.db.notifications, q, result.answer)
             /\ result.db.refunds = d.refunds /\ result.db.stock = d.stock
<1>. DEFINE r == ConfirmationOf(q)
            k == NormalKey(q.key)
            l == d.notifications
            result == SendConfirmation(d, q.order, q.message, q.key)
            made == Create(l, r, k)
            e == [d EXCEPT !.notifications = made]
<1>. SUFFICES /\ Does(l, result.db.notifications, q, result.answer)
              /\ result.db.refunds = d.refunds /\ result.db.stock = d.stock
  OBVIOUS
<1>1. /\ SoundLedger(l) /\ NoKey \notin DOMAIN l.index
      /\ DOMAIN d = {"orders", "payments", "stock", "refunds", "notifications"}
  BY DEF Named, SoundState, Shape
<1>2. r.message = Strip[q.message] /\ q.key \in Texts \cup {NoKey}
  BY RequestsAssumption DEF ConfirmationOf
<1>3. result = IF r.message = Blank \/ k = Blank
               THEN Answer(d, Raised)
               ELSE IF k \in DOMAIN l.index
               THEN Answer(d, Replayed(l, r, k))
               ELSE IF q.order \notin Orders
               THEN Answer(d, Raised)
               ELSE Answer(e, EntryAt(made, l.next))
  BY DEF SendConfirmation, ConfirmationOf
<1>4. k # Blank => k \in Keys \cup {NoKey}
  BY <1>2, KeysAreNormal
<1>5. NoKey # Blank
  BY StripAssumption
<1>6. IsAccepted(q) <=> r.message # Blank /\ q.order \in Orders
  BY <1>2 DEF IsAccepted
<1>7. e.notifications = made /\ e.refunds = d.refunds /\ e.stock = d.stock
  BY <1>1
<1>. HIDE DEF result, r, k, e
<1>8. ASSUME result.db = d, k \in DOMAIN l.index \/ result.answer = Raised,
             k = NoKey => result.answer = Raised /\ ~IsAccepted(q)
      PROVE  /\ Does(l, result.db.notifications, q, result.answer)
             /\ result.db.refunds = d.refunds /\ result.db.stock = d.stock
  <2>1. Quiet(l, l) /\ (k \in DOMAIN l.index => Makes(l, l, k, 1))
    <3>1. Cardinality(DOMAIN l.entries) \in Nat
      BY <1>1, FiniteEntries
    <3>. QED
      BY <1>1, <3>1 DEF Quiet, Makes
  <2>. QED
    BY <1>8, <2>1 DEF Does, k
<1>9. CASE r.message = Blank \/ k = Blank
  <2>1. result.db = d /\ result.answer = Raised
    BY <1>3, <1>9 DEF Answer
  <2>. QED
    BY <1>5, <1>6, <1>8, <1>9, <2>1
<1>10. CASE ~(r.message = Blank \/ k = Blank) /\ k \in DOMAIN l.index
  <2>1. result.db = d
    BY <1>3, <1>10 DEF Answer
  <2>. QED
    BY <1>1, <1>8, <1>10, <2>1
<1>11. CASE ~(r.message = Blank \/ k = Blank) /\ k \notin DOMAIN l.index /\ q.order \notin Orders
  <2>1. result.db = d /\ result.answer = Raised
    BY <1>3, <1>11 DEF Answer
  <2>. QED
    BY <1>6, <1>8, <1>11, <2>1
<1>12. CASE ~(r.message = Blank \/ k = Blank) /\ k \notin DOMAIN l.index /\ q.order \in Orders
  <2>1. result.db = e /\ result.answer = EntryAt(made, l.next)
    BY <1>3, <1>12 DEF Answer
  <2>2. result.answer # Raised
    BY <1>1, <1>4, <1>12, <2>1, AnswersAreNoErrors DEF r
  <2>3. Makes(l, made, k, 1)
    BY <1>1, <1>12, CreateMakes
  <2>. QED
    BY <1>6, <1>7, <1>12, <2>1, <2>2, <2>3 DEF Does, k
<1>. QED
  BY <1>9, <1>10, <1>11, <1>12

\* What one request does to the state, apart from orders and payments.
Handled(d, e, q, answer) ==
  /\ Named(e)
  /\ answer # Raised => ArgumentsAreValid(q)
  /\ IF q.tool = "refund_payment" THEN Does(d.refunds, e.refunds, q, answer)
     ELSE e.refunds = d.refunds
  /\ IF q.tool = "send_confirmation" THEN Does(d.notifications, e.notifications, q, answer)
     ELSE e.notifications = d.notifications
  /\ e.stock[sku] = IF q.tool = "restore_inventory" /\ answer # Raised
                    THEN d.stock[sku] + q.quantity ELSE d.stock[sku]
  /\ q.tool = "restore_inventory" => (answer # Raised <=> IsAccepted(q))

LEMMA RefusalIsHandled ==
  ASSUME NEW d, Named(d), NEW q, ~IsAccepted(q)
  PROVE  Handled(d, d, q, Raised)
BY DEF Handled, Does, Quiet

\* A ledger stays named.
LEMMA DoesNamed ==
  ASSUME NEW l, NEW m, NEW q, NEW answer, Does(l, m, q, answer), NoKey \notin DOMAIN l.index
  PROVE  NoKey \notin DOMAIN m.index
BY DEF Does, Quiet, Makes

LEMMA HandleDoes ==
  ASSUME OneSku, NEW d, Named(d), NEW q \in Requests, q.tool \in Tools
  PROVE  Handled(d, Handle(d, q).db, q, Handle(d, q).answer)
<1>. DEFINE result == Handle(d, q)
<1>1. SoundState(result.db) /\ SoundState(d)
  BY HandlesWell DEF GoesWell, Grows, Named
<1>2. CASE ~ArgumentsAreValid(q)
  <2>1. result.db = d /\ result.answer = Raised
    BY <1>2 DEF Handle, Answer
  <2>. HIDE DEF result
  <2>2. Handled(d, result.db, q, result.answer)
    BY <1>2, <2>1, RefusalIsHandled DEF IsAccepted
  <2>. QED
    BY <2>2 DEF result
<1>3. CASE ArgumentsAreValid(q) /\ q.tool = "cancel_order"
  <2>1. result = CancelOrder(d, q.order)
    BY <1>3 DEF Handle, Perform
  <2>2. DOMAIN d = {"orders", "payments", "stock", "refunds", "notifications"}
    BY <1>1 DEF SoundState, Shape
  <2>3. /\ result.db.refunds = d.refunds /\ result.db.notifications = d.notifications
        /\ result.db.stock = d.stock
    BY <2>1, <2>2 DEF CancelOrder, Answer
  <2>. HIDE DEF result
  <2>4. Handled(d, result.db, q, result.answer)
    BY <1>1, <1>3, <2>3 DEF Handled, Named
  <2>. QED
    BY <2>4 DEF result
<1>4. CASE ArgumentsAreValid(q) /\ q.tool = "refund_payment"
  <2>1. result = RefundPayment(d, RefundOf(q), q.key)
    BY <1>4 DEF Handle, Perform
  <2>2. /\ Does(d.refunds, result.db.refunds, q, result.answer)
        /\ result.db.notifications = d.notifications /\ result.db.stock = d.stock
    BY <1>4, <2>1, RefundDoes
  <2>. HIDE DEF result
  <2>3. Named(result.db)
    BY <1>1, <2>2, DoesNamed DEF Named
  <2>4. Handled(d, result.db, q, result.answer)
    BY <1>4, <2>2, <2>3 DEF Handled
  <2>. QED
    BY <2>4 DEF result
<1>5. CASE ArgumentsAreValid(q) /\ q.tool = "restore_inventory"
  <2>. DEFINE n == d.stock[q.sku] + q.quantity
              e == [d EXCEPT !.stock = [d.stock EXCEPT ![q.sku] = n]]
  <2>1. result = IF q.quantity > 0 /\ q.sku \in Skus THEN Answer(e, n) ELSE Answer(d, Raised)
    BY <1>5 DEF Handle, Perform, RestoreInventory
  <2>2. IsAccepted(q) <=> q.quantity > 0 /\ q.sku \in Skus
    BY <1>5 DEF IsAccepted
  <2>3. CASE ~IsAccepted(q)
    <3>1. result.db = d /\ result.answer = Raised
      BY <2>1, <2>2, <2>3 DEF Answer
    <3>. HIDE DEF result
    <3>2. Handled(d, result.db, q, result.answer)
      BY <2>3, <3>1, RefusalIsHandled
    <3>. QED
      BY <3>2 DEF result
  <2>4. CASE IsAccepted(q)
    <3>1. result.db = e /\ result.answer = n
      BY <2>1, <2>2, <2>4 DEF Answer
    <3>2. /\ DOMAIN d = {"orders", "payments", "stock", "refunds", "notifications"}
          /\ d.stock \in [Skus -> Nat] /\ q.quantity \in Int /\ q.sku \in Skus
      BY <1>1, <1>5, <2>2, <2>4, RequestsAssumption DEF SoundState, Shape
    <3>3. n \in Int /\ n # Raised
      BY <3>2, RaisedAssumption
    <3>4. /\ e.refunds = d.refunds /\ e.notifications = d.notifications
          /\ e.stock = [d.stock EXCEPT ![q.sku] = n]
      BY <3>2
    <3>5. e.stock[sku] = d.stock[sku] + q.quantity
      BY <3>2, <3>4 DEF OneSku
    <3>. HIDE DEF result, e, n
    <3>6. Handled(d, result.db, q, result.answer)
      BY <1>1, <1>5, <2>4, <3>1, <3>3, <3>4, <3>5 DEF Handled, Named
    <3>. QED
      BY <3>6 DEF result
  <2>. QED
    BY <2>3, <2>4
<1>6. CASE ArgumentsAreValid(q) /\ q.tool = "send_confirmation"
  <2>1. result = SendConfirmation(d, q.order, q.message, q.key)
    BY <1>6 DEF Handle, Perform
  <2>2. /\ Does(d.notifications, result.db.notifications, q, result.answer)
        /\ result.db.refunds = d.refunds /\ result.db.stock = d.stock
    BY <1>6, <2>1, ConfirmDoes
  <2>. HIDE DEF result
  <2>3. Named(result.db)
    BY <1>1, <2>2, DoesNamed DEF Named
  <2>4. Handled(d, result.db, q, result.answer)
    BY <1>6, <2>2, <2>3 DEF Handled
  <2>. QED
    BY <2>4 DEF result
<1>. QED
  BY <1>2, <1>3, <1>4, <1>5, <1>6 DEF Tools

\* n executions that worked; n = 0 says that there was none, or that it failed.
LedgerEffect(l, m, q, n) == IF n = 0 THEN Quiet(l, m) ELSE Makes(l, m, NormalKey(q.key), n)

Effect(d, e, q, n) ==
  /\ IF q.tool = "refund_payment" THEN LedgerEffect(d.refunds, e.refunds, q, n)
     ELSE e.refunds = d.refunds
  /\ IF q.tool = "send_confirmation"
     THEN LedgerEffect(d.notifications, e.notifications, q, n)
     ELSE e.notifications = d.notifications
  /\ e.stock[sku] = IF q.tool = "restore_inventory" /\ n # 0
                    THEN d.stock[sku] + n * q.quantity ELSE d.stock[sku]

\* A request that is delivered twice is accepted twice, or made once under its key.
LEMMA DoesTwice ==
  ASSUME NEW q, NEW l, SoundLedger(l), NoKey \notin DOMAIN l.index,
         NEW m, SoundLedger(m), NEW first, Does(l, m, q, first), first # Raised,
         NEW s, NEW second, Does(m, s, q, second)
  PROVE  Makes(l, s, NormalKey(q.key), 2)
<1>. DEFINE k == NormalKey(q.key)
<1>1. Makes(l, m, k, 1)
  BY DEF Does
<1>2. Cardinality(DOMAIN l.entries) \in Nat /\ Cardinality(DOMAIN m.entries) \in Nat
  BY FiniteEntries
<1>3. CASE k = NoKey
  <2>1. Makes(m, s, k, 1)
    BY <1>3 DEF Does
  <2>. HIDE DEF k
  <2>2. Makes(l, s, k, 2)
    BY <1>1, <1>2, <1>3, <2>1 DEF Makes
  <2>. QED
    BY <2>2 DEF k
<1>4. CASE k # NoKey
  <2>1. k \in DOMAIN m.index
    BY <1>1, <1>4 DEF Makes
  <2>2. s = m
    BY <2>1 DEF Does
  <2>. HIDE DEF k
  <2>3. Makes(l, s, k, 2)
    BY <1>1, <1>2, <1>4, <2>2 DEF Makes
  <2>. QED
    BY <2>3 DEF k
<1>. QED
  BY <1>3, <1>4

LEMMA HandledOnce ==
  ASSUME OneSku, NEW d, Named(d), NEW e, NEW q \in Requests, NEW answer,
         Handled(d, e, q, answer)
  PROVE  /\ answer = Raised => Effect(d, e, q, 0)
         /\ answer # Raised => Effect(d, e, q, 1)
<1>1. q.tool = "restore_inventory" /\ answer # Raised => 1 * q.quantity = q.quantity
  BY RequestsAssumption DEF Handled
<1>2. answer = Raised => Effect(d, e, q, 0)
  BY DEF Handled, Effect, LedgerEffect, Does
<1>3. answer # Raised => Effect(d, e, q, 1)
  BY <1>1 DEF Handled, Effect, LedgerEffect, Does
<1>. QED
  BY <1>2, <1>3

LEMMA HandledTwice ==
  ASSUME OneSku, NEW d, Named(d), NEW e, NEW f, NEW q \in Requests, NEW first, NEW second,
         Handled(d, e, q, first), first # Raised, Handled(e, f, q, second)
  PROVE  Effect(d, f, q, 2)
<1>1. SoundLedger(d.refunds) /\ SoundLedger(d.notifications) /\ Named(e)
      /\ SoundLedger(e.refunds) /\ SoundLedger(e.notifications)
  BY DEF Handled, Named, SoundState
<1>2. CASE q.tool = "refund_payment"
  <2>1. Does(d.refunds, e.refunds, q, first) /\ Does(e.refunds, f.refunds, q, second)
    BY <1>2 DEF Handled
  <2>2. Makes(d.refunds, f.refunds, NormalKey(q.key), 2)
    BY <1>1, <2>1, DoesTwice DEF Named
  <2>. QED
    BY <1>2, <2>2 DEF Handled, Effect, LedgerEffect
<1>3. CASE q.tool = "send_confirmation"
  <2>1. /\ Does(d.notifications, e.notifications, q, first)
        /\ Does(e.notifications, f.notifications, q, second)
    BY <1>3 DEF Handled
  <2>2. Makes(d.notifications, f.notifications, NormalKey(q.key), 2)
    BY <1>1, <2>1, DoesTwice DEF Named
  <2>. QED
    BY <1>3, <2>2 DEF Handled, Effect, LedgerEffect
<1>4. CASE q.tool = "restore_inventory"
  <2>1. IsAccepted(q) /\ second # Raised
    BY <1>4 DEF Handled
  <2>2. q.quantity \in Int
    BY <1>4, RequestsAssumption DEF Handled
  <2>3. d.stock[sku] \in Nat
    BY DEF Named, SoundState, OneSku
  <2>4. f.stock[sku] = d.stock[sku] + q.quantity + q.quantity
    BY <1>4, <2>1 DEF Handled
  <2>5. f.stock[sku] = d.stock[sku] + 2 * q.quantity
    BY <2>2, <2>3, <2>4
  <2>. QED
    BY <1>4, <2>5 DEF Handled, Effect
<1>5. CASE q.tool \notin {"refund_payment", "send_confirmation", "restore_inventory"}
  BY <1>5 DEF Handled, Effect
<1>. QED
  BY <1>2, <1>3, <1>4, <1>5

\* A call, whatever fault meets it: its record says how often the request was carried out.
LEMMA ExecuteDoes ==
  ASSUME OneSku, NEW d, Named(d), NEW q \in Requests, q.tool \in Tools,
         NEW r \in FaultRules \cup {NoRule}
  PROVE  LET first == Handle(d, q)
             e == Execute(d, first, Handle(first.db, q), r)
             o == e.outcome
         IN  /\ Named(e.db)
             /\ \/ /\ ~(o.executed /\ o.underlying # "error")
                   /\ Effect(d, e.db, q, 0)
                \/ /\ o.executed /\ o.underlying # "error" /\ o.count \in {1, 2}
                   /\ ArgumentsAreValid(q) /\ Effect(d, e.db, q, o.count)
<1>. DEFINE first == Handle(d, q)
            second == Handle(first.db, q)
            e == Execute(d, first, second, r)
            works == e.outcome.executed /\ e.outcome.underlying # "error"
<1>. SUFFICES /\ Named(e.db)
              /\ \/ ~works /\ Effect(d, e.db, q, 0)
                 \/ /\ works /\ e.outcome.count \in {1, 2}
                    /\ ArgumentsAreValid(q) /\ Effect(d, e.db, q, e.outcome.count)
  OBVIOUS
<1>1. Handled(d, first.db, q, first.answer) /\ Named(first.db)
  BY HandleDoes DEF Handled
<1>2. Handled(first.db, second.db, q, second.answer) /\ Named(second.db)
  BY <1>1, HandleDoes DEF Handled
<1>. HIDE DEF first, second
<1>3. CASE TypeOf(r) \in RejectingFaults
  <2>1. e = Executed(d, Refused(r), "injected", None)
    BY <1>3 DEF Execute, RejectingFaults
  <2>2. e.db = d /\ ~e.outcome.executed
    BY <2>1 DEF Executed, Refused, Outcome
  <2>3. Effect(d, d, q, 0)
    BY DEF Effect, LedgerEffect, Quiet
  <2>. HIDE DEF e
  <2>. QED
    BY <2>2, <2>3
<1>4. CASE TypeOf(r) \notin RejectingFaults /\ first.answer = Raised
  <2>1. e = Executed(first.db, Failed(r), "error", None)
    BY <1>4 DEF Execute
  <2>2. e.db = first.db /\ e.outcome.underlying = "error"
    BY <2>1 DEF Executed, Failed, Outcome
  <2>. HIDE DEF e
  <2>. QED
    BY <1>1, <1>4, <2>2, HandledOnce
<1>5. CASE TypeOf(r) = "duplicate_request" /\ first.answer # Raised
  <2>1. e = Executed(second.db, DeliveredTwice(r), "result", first.answer)
    BY <1>5 DEF Execute, RejectingFaults
  <2>2. /\ e.db = second.db /\ e.outcome.executed /\ e.outcome.underlying = "pair"
        /\ e.outcome.count = 2
    BY <2>1 DEF Executed, DeliveredTwice, Outcome
  <2>3. Effect(d, second.db, q, 2) /\ ArgumentsAreValid(q)
    BY <1>1, <1>2, <1>5, HandledTwice DEF Handled
  <2>. HIDE DEF e
  <2>. QED
    BY <1>2, <2>2, <2>3
<1>6. CASE TypeOf(r) \notin RejectingFaults /\ first.answer # Raised
           /\ TypeOf(r) # "duplicate_request"
  <2>1. e = Executed(first.db, Succeeded(r), CallerSees(r), first.answer)
    BY <1>6 DEF Execute
  <2>2. /\ e.db = first.db /\ e.outcome.executed /\ e.outcome.underlying = "result"
        /\ e.outcome.count = 1
    BY <2>1 DEF Executed, Succeeded, Outcome
  <2>3. Effect(d, first.db, q, 1) /\ ArgumentsAreValid(q)
    BY <1>1, <1>6, HandledOnce DEF Handled
  <2>. HIDE DEF e
  <2>. QED
    BY <1>1, <2>2, <2>3
<1>. QED
  BY <1>3, <1>4, <1>5, <1>6

-----------------------------------------------------------------------------
\* The sums of a trace.

LEMMA ExecutionsAreTotals ==
  ASSUME NEW t, NEW S, IsFiniteSet(S)
  PROVE  Executions(t, S) = Total([i \in S |-> t[i].count], S)
<1>. DEFINE v(i) == t[i].count
            w == [i \in S |-> v(i)]
            AddsUp(g) == g = [s \in SUBSET S |->
                           IF s = {} THEN 0
                           ELSE v(CHOOSE x \in s : TRUE) + g[s \ {CHOOSE x \in s : TRUE}]]
            iter == CHOOSE g : AddsUp(g)
<1>1. Executions(t, S) = iter[S]
  BY DEF Executions, MapThenSumSet, MapThenFoldSet
<1>2. ASSUME NEW g PROVE Sums(g, w, S) <=> AddsUp(g)
  <2>. HIDE DEF v
  <2>1. \A s \in SUBSET S : s # {} =>
          w[CHOOSE x \in s : TRUE] = v(CHOOSE x \in s : TRUE)
    OBVIOUS
  <2>. HIDE DEF w
  <2>. QED
    BY <2>1 DEF Sums, Pick
<1>. HIDE DEF v, w, AddsUp
<1>3. \E g : Sums(g, w, S)
  BY SumsExist
<1>4. AddsUp(iter)
  BY <1>2, <1>3
<1>. HIDE DEF iter
<1>5. iter[S] = Total(w, S)
  BY <1>2, <1>4, SumsAreTotals
<1>. QED
  BY <1>1, <1>5 DEF w, v

LEMMA RestoredAreTotals ==
  ASSUME NEW t, NEW S, IsFiniteSet(S)
  PROVE  Restored(t, S) = Total([i \in S |-> t[i].count * t[i].request.quantity], S)
<1>. DEFINE v(i) == t[i].count * t[i].request.quantity
            w == [i \in S |-> v(i)]
            AddsUp(g) == g = [s \in SUBSET S |->
                           IF s = {} THEN 0
                           ELSE v(CHOOSE x \in s : TRUE) + g[s \ {CHOOSE x \in s : TRUE}]]
            iter == CHOOSE g : AddsUp(g)
<1>1. Restored(t, S) = iter[S]
  BY DEF Restored, MapThenSumSet, MapThenFoldSet
<1>2. ASSUME NEW g PROVE Sums(g, w, S) <=> AddsUp(g)
  <2>. HIDE DEF v
  <2>1. \A s \in SUBSET S : s # {} =>
          w[CHOOSE x \in s : TRUE] = v(CHOOSE x \in s : TRUE)
    OBVIOUS
  <2>. HIDE DEF w
  <2>. QED
    BY <2>1 DEF Sums, Pick
<1>. HIDE DEF v, w, AddsUp
<1>3. \E g : Sums(g, w, S)
  BY SumsExist
<1>4. AddsUp(iter)
  BY <1>2, <1>3
<1>. HIDE DEF iter
<1>5. iter[S] = Total(w, S)
  BY <1>2, <1>4, SumsAreTotals
<1>. QED
  BY <1>1, <1>5 DEF w, v

\* A trace with one more record.
Appends(t, u, last) ==
  /\ IsFiniteSet(DOMAIN t) /\ last \notin DOMAIN t
  /\ DOMAIN u = DOMAIN t \cup {last}
  /\ \A i \in DOMAIN t : u[i] = t[i]
  /\ \A i \in DOMAIN u : u[i].count \in Int

LEMMA ExecutionsAppend ==
  ASSUME NEW t, NEW u, NEW last, Appends(t, u, last), NEW S \in SUBSET DOMAIN t
  PROVE  /\ IsFiniteSet(S) /\ Executions(t, S) \in Int
         /\ Executions(u, S) = Executions(t, S)
         /\ Executions(u, S \cup {last}) = Executions(t, S) + u[last].count
<1>. DEFINE A == S \cup {last}
            w == [i \in S |-> t[i].count]
            v == [i \in S |-> u[i].count]
            x == [i \in A |-> u[i].count]
<1>1. IsFiniteSet(S) /\ IsFiniteSet(A)
  BY FS_Subset, FS_AddElement DEF Appends
<1>2. /\ Executions(t, S) = Total(w, S) /\ Executions(u, S) = Total(v, S)
      /\ Executions(u, A) = Total(x, A)
  BY <1>1, ExecutionsAreTotals
<1>3. /\ \A i \in S : w[i] = v[i] /\ w[i] = x[i] /\ w[i] \in Int
      /\ \A i \in A : x[i] \in Int
      /\ last \in A /\ A \ {last} = S /\ x[last] = u[last].count
  BY DEF Appends
<1>. HIDE DEF w, v, x, A
<1>4. Total(w, S) = Total(v, S) /\ Total(w, S) = Total(x, S) /\ Total(w, S) \in Int
  BY <1>1, <1>3, TotalOfSame, TotalType
<1>5. Total(x, A) = Total(x, S) + x[last]
  BY <1>1, <1>3, TotalGrows
<1>. QED
  BY <1>1, <1>2, <1>3, <1>4, <1>5 DEF A

LEMMA RestoredAppend ==
  ASSUME NEW t, NEW u, NEW last, Appends(t, u, last), NEW S \in SUBSET DOMAIN t,
         \A i \in S : t[i].request.quantity \in Int
  PROVE  /\ Restored(t, S) \in Int
         /\ Restored(u, S) = Restored(t, S)
         /\ u[last].request.quantity \in Int =>
              Restored(u, S \cup {last})
                = Restored(t, S) + u[last].count * u[last].request.quantity
<1>. DEFINE A == S \cup {last}
            w == [i \in S |-> t[i].count * t[i].request.quantity]
            v == [i \in S |-> u[i].count * u[i].request.quantity]
            x == [i \in A |-> u[i].count * u[i].request.quantity]
<1>1. IsFiniteSet(S) /\ IsFiniteSet(A)
  BY FS_Subset, FS_AddElement DEF Appends
<1>2. /\ Restored(t, S) = Total(w, S) /\ Restored(u, S) = Total(v, S)
      /\ Restored(u, A) = Total(x, A)
  BY <1>1, RestoredAreTotals
<1>3. /\ \A i \in S : w[i] = v[i] /\ w[i] = x[i]
      /\ \A i \in S : w[i] \in Int
      /\ u[last].request.quantity \in Int => \A i \in A : x[i] \in Int
      /\ last \in A /\ A \ {last} = S /\ x[last] = u[last].count * u[last].request.quantity
  <2>1. \A i \in S : u[i] = t[i] /\ i \in A /\ u[i].count \in Int
    BY DEF Appends
  <2>2. \A i \in S : w[i] = v[i] /\ w[i] = x[i]
    BY <2>1
  <2>3. \A i \in S : w[i] \in Int
    BY <2>1
  <2>4. u[last].count \in Int /\ last \notin S
    BY DEF Appends
  <2>. QED
    BY <2>1, <2>2, <2>3, <2>4
<1>. HIDE DEF w, v, x, A
<1>4. Total(w, S) = Total(v, S) /\ Total(w, S) = Total(x, S) /\ Total(w, S) \in Int
  BY <1>1, <1>3, TotalOfSame, TotalType
<1>5. u[last].request.quantity \in Int => Total(x, A) = Total(x, S) + x[last]
  BY <1>1, <1>3, TotalGrows
<1>. QED
  BY <1>2, <1>3, <1>4, <1>5 DEF A

\* A ledger holds what the trace says was made.
Accounts(t, l, tool) ==
  /\ IsFiniteSet(DOMAIN l.index)
  /\ DOMAIN l.index = KeysUsed(t, SucceededCalls(t, tool))
  /\ Cardinality(DOMAIN l.entries) = MadeBy(t, tool)

LEMMA AppendedCalls ==
  ASSUME NEW t, NEW u, NEW last, Appends(t, u, last), NEW tool
  PROVE  /\ Worked(u[last], tool) => SucceededCalls(u, tool) = SucceededCalls(t, tool) \cup {last}
         /\ ~Worked(u[last], tool) => SucceededCalls(u, tool) = SucceededCalls(t, tool)
BY DEF Appends, SucceededCalls, Worked

LEMMA AccountsForFailure ==
  ASSUME NEW t, NEW u, NEW last, Appends(t, u, last), NEW tool, ~Worked(u[last], tool),
         NEW l, NEW m, Accounts(t, l, tool), Quiet(l, m)
  PROVE  Accounts(u, m, tool)
<1>. DEFINE S == SucceededCalls(t, tool)
<1>1. SucceededCalls(u, tool) = S /\ S \in SUBSET DOMAIN t
  BY AppendedCalls DEF SucceededCalls
<1>2. \A i \in S : u[i] = t[i]
  BY <1>1 DEF Appends
<1>. HIDE DEF S
<1>3. KeysUsed(u, S) = KeysUsed(t, S) /\ Unkeyed(u, S) = Unkeyed(t, S)
  BY <1>2 DEF KeysUsed, Unkeyed
<1>4. Unkeyed(t, S) \in SUBSET DOMAIN t
  BY <1>1 DEF Unkeyed
<1>5. Executions(u, Unkeyed(t, S)) = Executions(t, Unkeyed(t, S))
  <2>. DEFINE U == Unkeyed(t, S)
  <2>1. U \in SUBSET DOMAIN t
    BY <1>4
  <2>. HIDE DEF U
  <2>2. Executions(u, U) = Executions(t, U)
    BY <2>1, ExecutionsAppend
  <2>. QED
    BY <2>2 DEF U
<1>6. MadeBy(u, tool) = MadeBy(t, tool)
  BY <1>1, <1>3, <1>5 DEF MadeBy, S
<1>. QED
  BY <1>1, <1>3, <1>6 DEF Accounts, Quiet, S

LEMMA AccountsForSuccess ==
  ASSUME NEW t, NEW u, NEW last, Appends(t, u, last), NEW tool, Worked(u[last], tool),
         u[last].request.key \in Texts \cup {NoKey}, u[last].count \in {1, 2},
         NEW l, NEW m, Accounts(t, l, tool), NoKey \notin DOMAIN l.index,
         Makes(l, m, NormalKey(u[last].request.key), u[last].count)
  PROVE  Accounts(u, m, tool)
<1>. DEFINE S == SucceededCalls(t, tool)
            A == S \cup {last}
            key == u[last].request.key
            k == NormalKey(key)
            keys == KeysUsed(t, S)
<1>1. SucceededCalls(u, tool) = A /\ S \in SUBSET DOMAIN t
  BY AppendedCalls DEF SucceededCalls
<1>2. last \notin S /\ \A i \in S : u[i] = t[i]
  BY <1>1 DEF Appends
<1>3. k = NoKey <=> key = NoKey
  BY StripAssumption DEF NormalKey
<1>. HIDE DEF S
<1>4. KeysUsed(u, A) = keys \cup ({k} \ {NoKey})
  BY <1>2 DEF KeysUsed
<1>5. Unkeyed(t, S) \in SUBSET DOMAIN t
  BY <1>1 DEF Unkeyed
<1>6. /\ key = NoKey => Unkeyed(u, A) = Unkeyed(t, S) \cup {last}
      /\ key # NoKey => Unkeyed(u, A) = Unkeyed(t, S)
  BY <1>2 DEF Unkeyed
<1>7. /\ Executions(t, Unkeyed(t, S)) \in Int
      /\ key = NoKey => Executions(u, Unkeyed(u, A))
                          = Executions(t, Unkeyed(t, S)) + u[last].count
      /\ key # NoKey => Executions(u, Unkeyed(u, A)) = Executions(t, Unkeyed(t, S))
  <2>. DEFINE free == Unkeyed(t, S)
  <2>. HIDE DEF free
  <2>1. /\ Executions(t, free) \in Int /\ Executions(u, free) = Executions(t, free)
        /\ Executions(u, free \cup {last}) = Executions(t, free) + u[last].count
    <3>1. free \in SUBSET DOMAIN t
      BY <1>5 DEF free
    <3>. QED
      BY <3>1, ExecutionsAppend
  <2>. HIDE DEF key
  <2>. QED
    BY <1>6, <2>1 DEF free
<1>8. IsFiniteSet(keys) /\ NoKey \notin keys /\ DOMAIN l.index = keys
  BY DEF Accounts, S
<1>9. /\ IsFiniteSet(keys \cup ({k} \ {NoKey})) /\ Cardinality(keys) \in Nat
      /\ Cardinality(keys \cup ({k} \ {NoKey}))
           = Cardinality(keys) + (IF k = NoKey \/ k \in keys THEN 0 ELSE 1)
  <2>. HIDE DEF keys, k
  <2>1. Cardinality(keys) \in Nat
    BY <1>8, FS_CardinalityType
  <2>. DEFINE more == keys \cup ({k} \ {NoKey})
  <2>2. CASE k = NoKey
    <3>1. more = keys
      BY <2>2
    <3>. HIDE DEF more
    <3>2. IsFiniteSet(more) /\ Cardinality(more) = Cardinality(keys) + 0
      BY <1>8, <2>1, <3>1
    <3>. QED
      BY <2>1, <2>2, <3>2 DEF more
  <2>3. CASE k # NoKey
    <3>1. more = keys \cup {k}
      BY <2>3
    <3>. HIDE DEF more
    <3>2. /\ IsFiniteSet(more)
          /\ Cardinality(more) = Cardinality(keys) + (IF k \in keys THEN 0 ELSE 1)
      BY <1>8, <2>1, <3>1, FS_AddElement
    <3>. QED
      BY <2>1, <2>3, <3>2 DEF more
  <2>. QED
    BY <2>2, <2>3
<1>10. /\ MadeBy(u, tool) = Executions(u, Unkeyed(u, A)) + Cardinality(KeysUsed(u, A))
       /\ MadeBy(t, tool) = Executions(t, Unkeyed(t, S)) + Cardinality(keys)
  BY <1>1 DEF MadeBy, S
<1>11. /\ DOMAIN m.index = keys \cup ({k} \ {NoKey})
       /\ Cardinality(DOMAIN m.entries) =
            MadeBy(t, tool)
              + (IF k = NoKey THEN u[last].count ELSE IF k \in keys THEN 0 ELSE 1)
  BY <1>8 DEF Makes, Accounts
<1>. HIDE DEF A, keys, k, key
<1>12. Cardinality(DOMAIN m.entries) = MadeBy(u, tool)
  BY <1>3, <1>4, <1>7, <1>9, <1>10, <1>11
<1>. QED
  BY <1>1, <1>4, <1>9, <1>11, <1>12 DEF Accounts

\* What a call did: its record, and the number of executions that worked.
Carries(r, q, n) ==
  /\ r.request = q /\ r.tool = q.tool
  /\ IF r.executed /\ r.underlying # "error"
     THEN n \in {1, 2} /\ r.count = n /\ ArgumentsAreValid(q)
     ELSE n = 0

\* The ledger of one tool, after a call of any tool.
LEMMA AppendAccounts ==
  ASSUME NEW t, NEW u, NEW last, Appends(t, u, last),
         NEW q \in Requests, NEW n, Carries(u[last], q, n),
         NEW tool \in {"refund_payment", "send_confirmation"},
         NEW l, NEW m, Accounts(t, l, tool), NoKey \notin DOMAIN l.index,
         IF q.tool = tool THEN LedgerEffect(l, m, q, n) ELSE m = l
  PROVE  Accounts(u, m, tool)
<1>1. CASE Worked(u[last], tool)
  <2>1. /\ q.tool = tool /\ n \in {1, 2} /\ u[last].count = n /\ u[last].request = q
        /\ ArgumentsAreValid(q)
    BY <1>1 DEF Worked, Carries
  <2>2. q.key \in Texts \cup {NoKey} /\ Makes(l, m, NormalKey(q.key), n)
    BY <2>1, RequestsAssumption DEF LedgerEffect
  <2>. QED
    BY <1>1, <2>1, <2>2, AccountsForSuccess
<1>2. CASE ~Worked(u[last], tool)
  <2>1. Quiet(l, m)
    BY <1>2 DEF Worked, Carries, LedgerEffect, Quiet
  <2>. QED
    BY <1>2, <2>1, AccountsForFailure
<1>. QED
  BY <1>1, <1>2

\* The stock, after a call of any tool.
Restocked(t, d) ==
  LET calls == SucceededCalls(t, "restore_inventory")
  IN  /\ \A i \in calls : t[i].request.quantity \in Int
      /\ d.stock[sku] - InitialState.stock[sku] = Restored(t, calls)

LEMMA AppendRestocks ==
  ASSUME OneSku, NEW t, NEW u, NEW last, Appends(t, u, last),
         NEW q \in Requests, NEW n, Carries(u[last], q, n),
         NEW d, Named(d), NEW e, Effect(d, e, q, n), Restocked(t, d)
  PROVE  Restocked(u, e)
<1>. DEFINE tool == "restore_inventory"
            S == SucceededCalls(t, tool)
            A == SucceededCalls(u, tool)
            initial == InitialState.stock[sku]
<1>1. /\ S \in SUBSET DOMAIN t /\ last \notin S /\ \A i \in S : u[i] = t[i]
      /\ \A i \in S : t[i].request.quantity \in Int
      /\ d.stock[sku] - initial = Restored(t, S)
  BY DEF Appends, SucceededCalls, Restocked
<1>2. d.stock[sku] \in Int /\ initial \in Int
  BY DEF Named, SoundState, OneSku, InitialState
<1>3. SUFFICES /\ \A i \in A : u[i].request.quantity \in Int
               /\ e.stock[sku] - initial = Restored(u, A)
  BY DEF Restocked
<1>4. CASE Worked(u[last], tool)
  <2>1. /\ q.tool = tool /\ n \in {1, 2} /\ u[last].count = n /\ u[last].request = q
        /\ ArgumentsAreValid(q)
    BY <1>4 DEF Worked, Carries
  <2>2. q.quantity \in Int /\ e.stock[sku] = d.stock[sku] + n * q.quantity
    BY <2>1, RequestsAssumption DEF Effect
  <2>3. A = S \cup {last}
    BY <1>4, AppendedCalls
  <2>. HIDE DEF S, A, initial
  <2>4. Restored(u, A) = Restored(t, S) + n * q.quantity
    BY <1>1, <2>1, <2>2, <2>3, RestoredAppend
  <2>5. n * q.quantity \in Int
    BY <2>1, <2>2
  <2>6. e.stock[sku] - initial = Restored(u, A)
    <3> PICK more : more = n * q.quantity
      OBVIOUS
    <3>. QED
      BY <1>1, <1>2, <2>2, <2>4, <2>5
  <2>. QED
    BY <1>1, <2>1, <2>2, <2>3, <2>6
<1>5. CASE ~Worked(u[last], tool)
  <2>1. e.stock[sku] = d.stock[sku]
    BY <1>5 DEF Worked, Carries, Effect
  <2>2. A = S
    BY <1>5, AppendedCalls
  <2>. HIDE DEF S, A
  <2>3. Restored(u, A) = Restored(t, S)
    <3>1. Restored(u, S) = Restored(t, S)
      BY <1>1, RestoredAppend
    <3>. QED
      BY <2>2, <3>1
  <2>. QED
    BY <1>1, <2>1, <2>2, <2>3
<1>. QED
  BY <1>4, <1>5

\* The part of the explanation that steps build on.
Explained(t, d) ==
  /\ Named(d)
  /\ Accounts(t, d.refunds, "refund_payment")
  /\ Accounts(t, d.notifications, "send_confirmation")
  /\ Restocked(t, d)

ExplainInv ==
  /\ OneSku
  /\ Explained(trace, db)
  /\ report # None => Explains(report.trace, report.db)

\* With the order's part, which has an invariant of its own, it is the whole.
LEMMA ExplainedExplains ==
  ASSUME OrderInv, Explained(trace, db)
  PROVE  Explains(trace, db)
BY DEF OrderInv, Cancellations, Explained, Accounts, Restocked, Explains

LEMMA FinishExplains ==
  ASSUME OneSku, Typed, Explained(trace, db), NEW c \in Calls, NEW f \in AnyFrame,
         f.request.tool \in Tools, Finish(c, f)
  PROVE  Explained(trace', db')
<1> PICK last, q : last = Len(trace) + 1 /\ q = f.request
  OBVIOUS
<1>. DEFINE first == Handle(db, q)
            e == Execute(db, first, Handle(first.db, q), f.rule)
            o == e.outcome
<1>1. db' = e.db /\ trace' = Append(trace, Entry(c, f, e))
  BY DEF Finish
<1>2. f.rule \in FaultRules \cup {NoRule} /\ q \in Requests /\ q.tool \in Tools
  BY DEF AnyFrame
<1>3. /\ Named(e.db)
      /\ \/ /\ ~(o.executed /\ o.underlying # "error")
            /\ Effect(db, e.db, q, 0)
         \/ /\ o.executed /\ o.underlying # "error" /\ o.count \in {1, 2}
            /\ ArgumentsAreValid(q) /\ Effect(db, e.db, q, o.count)
  BY <1>2, ExecuteDoes DEF Explained
<1>. HIDE DEF e
<1>4. trace'[last] = Entry(c, f, e)
  BY <1>1 DEF Typed
<1>5. PICK n : Carries(trace'[last], q, n) /\ Effect(db, e.db, q, n)
  <2>1. /\ trace'[last].request = q /\ trace'[last].tool = q.tool
        /\ trace'[last].count = o.count /\ trace'[last].underlying = o.underlying
        /\ trace'[last].executed = o.executed
    BY <1>4 DEF Entry
  <2>2. CASE ~(o.executed /\ o.underlying # "error") /\ Effect(db, e.db, q, 0)
    <3>1. Carries(trace'[last], q, 0)
      BY <2>1, <2>2 DEF Carries
    <3>. QED
      BY <2>2, <3>1
  <2>3. CASE /\ o.executed /\ o.underlying # "error" /\ o.count \in {1, 2}
             /\ ArgumentsAreValid(q) /\ Effect(db, e.db, q, o.count)
    <3>1. Carries(trace'[last], q, o.count)
      BY <2>1, <2>3 DEF Carries
    <3>. QED
      BY <2>3, <3>1
  <2>. QED
    BY <1>3, <2>2, <2>3
<1>6. Appends(trace, trace', last)
  <2>1. /\ trace' \in Seq(Records) /\ Len(trace) \in Nat /\ DOMAIN trace = 1..Len(trace)
        /\ DOMAIN trace' = DOMAIN trace \cup {last} /\ last \notin DOMAIN trace
        /\ \A i \in DOMAIN trace : trace'[i] = trace[i]
    BY Finishes
  <2>2. IsFiniteSet(DOMAIN trace)
    BY <2>1, FS_Interval
  <2>3. \A r \in Records : r.count \in Int
    BY DEF Records
  <2>4. \A i \in DOMAIN trace' : trace'[i].count \in Int
    <3>1. \A s \in Seq(Records) : \A i \in DOMAIN s : s[i] \in Records
      OBVIOUS
    <3>. HIDE DEF Records
    <3>. QED
      BY <2>1, <2>3, <3>1
  <2>. QED
    BY <2>1, <2>2, <2>4 DEF Appends
<1>7. /\ IF q.tool = "refund_payment" THEN LedgerEffect(db.refunds, db'.refunds, q, n)
         ELSE db'.refunds = db.refunds
      /\ IF q.tool = "send_confirmation"
         THEN LedgerEffect(db.notifications, db'.notifications, q, n)
         ELSE db'.notifications = db.notifications
  BY <1>1, <1>5 DEF Effect
<1>8. NoKey \notin DOMAIN db.refunds.index /\ NoKey \notin DOMAIN db.notifications.index
  BY DEF Explained, Named
<1>9. Accounts(trace', db'.refunds, "refund_payment")
  <2> PICK tool : tool = "refund_payment"
    OBVIOUS
  <2>1. Accounts(trace, db.refunds, tool)
    BY DEF Explained
  <2>2. IF q.tool = tool THEN LedgerEffect(db.refunds, db'.refunds, q, n)
        ELSE db'.refunds = db.refunds
    BY <1>7
  <2>3. Accounts(trace', db'.refunds, tool)
    BY <1>2, <1>5, <1>6, <1>8, <2>1, <2>2, AppendAccounts
  <2>. QED
    BY <2>3
<1>10. Accounts(trace', db'.notifications, "send_confirmation")
  <2> PICK tool : tool = "send_confirmation"
    OBVIOUS
  <2>1. Accounts(trace, db.notifications, tool)
    BY DEF Explained
  <2>2. IF q.tool = tool THEN LedgerEffect(db.notifications, db'.notifications, q, n)
        ELSE db'.notifications = db.notifications
    BY <1>7
  <2>3. Accounts(trace', db'.notifications, tool)
    BY <1>2, <1>5, <1>6, <1>8, <2>1, <2>2, AppendAccounts
  <2>. QED
    BY <2>3
<1>11. Restocked(trace', db')
  BY <1>1, <1>2, <1>5, <1>6, AppendRestocks DEF Explained
<1>. QED
  BY <1>1, <1>3, <1>9, <1>10, <1>11 DEF Explained

LEMMA EmptySums ==
  ASSUME NEW t
  PROVE  Executions(t, {}) = 0 /\ Restored(t, {}) = 0
<1>1. IsFiniteSet({})
  BY FS_EmptySet
<1>2. Total([i \in {} |-> t[i].count], {}) = 0
  BY <1>1, TotalUnfolds
<1>3. Total([i \in {} |-> t[i].count * t[i].request.quantity], {}) = 0
  BY <1>1, TotalUnfolds
<1>. QED
  BY <1>1, <1>2, <1>3, ExecutionsAreTotals, RestoredAreTotals

LEMMA InitExplain == OneSku /\ Init => ExplainInv
<1> SUFFICES ASSUME OneSku, Init PROVE ExplainInv
  OBVIOUS
<1>1. SoundState(db)
  BY InitAnswers DEF AnswersInv
<1>2. /\ db.refunds = EmptyLedger /\ db.notifications = EmptyLedger
      /\ db.stock[sku] = InitialState.stock[sku] /\ InitialState.stock[sku] \in Int
  BY DEF Init, InitialState, OneSku
<1>3. DOMAIN EmptyLedger.entries = {} /\ DOMAIN EmptyLedger.index = {}
  BY DEF EmptyLedger, Nowhere
<1>4. \A tool : SucceededCalls(trace, tool) = {}
  BY DEF Init, SucceededCalls
<1>5. KeysUsed(trace, {}) = {} /\ Unkeyed(trace, {}) = {}
  BY DEF KeysUsed, Unkeyed
<1>6. IsFiniteSet({}) /\ Cardinality({}) = 0
  BY FS_EmptySet
<1>7. \A tool : MadeBy(trace, tool) = 0
  BY <1>4, <1>5, <1>6, EmptySums DEF MadeBy
<1>8. \A tool : Accounts(trace, EmptyLedger, tool)
  BY <1>3, <1>4, <1>5, <1>6, <1>7 DEF Accounts
<1>9. Restocked(trace, db)
  BY <1>2, <1>4, EmptySums DEF Restocked
<1>10. Named(db)
  BY <1>1, <1>2, <1>3 DEF Named
<1>. QED
  BY <1>2, <1>8, <1>9, <1>10 DEF Init, ExplainInv, Explained

LEMMA NextExplain == RunInv /\ OrderInv /\ ExplainInv /\ [Next]_vars => ExplainInv'
<1> SUFFICES ASSUME RunInv, OrderInv, ExplainInv, [Next]_vars PROVE ExplainInv'
  OBVIOUS
<1>0. Typed /\ OneSku /\ OneSku'
  BY DEF RunInv, ExplainInv, OneSku
<1>1. ASSUME trace' = trace, db' = db PROVE Explained(trace', db')
  BY <1>1 DEF ExplainInv
<1>2. ASSUME Explained(trace', db'), report' = report PROVE ExplainInv'
  <2>1. report' # None => Explains(report'.trace, report'.db)
    BY <1>2 DEF ExplainInv
  <2>2. report' # None => Explains(report.trace, report.db)'
    BY <2>1
  <2>3. Explained(trace, db)'
    BY <1>2
  <2>. QED
    BY <1>0, <2>2, <2>3 DEF ExplainInv
<1>3. ASSUME NEW c \in Calls, NEW q \in Requests, Call(c, q) PROVE ExplainInv'
  <2>1. report' = report
    BY <1>3 DEF Call
  <2>2. CASE Refuse(c) \/ CallUnknownTool(c, q)
    BY <1>1, <1>2, <2>1, <2>2 DEF Refuse, CallUnknownTool
  <2>3. CASE CallTool(c, q)
    <3> PICK f : f = NewFrame(q)
      OBVIOUS
    <3>1. q.tool \in Tools /\ (UNCHANGED <<db, trace>> \/ Finish(c, f))
      BY <2>3 DEF CallTool
    <3>2. f \in AnyFrame /\ f.request.tool \in Tools
      BY <1>0, <3>1, NewFrames
    <3>3. CASE UNCHANGED <<db, trace>>
      BY <1>1, <1>2, <2>1, <3>3
    <3>4. CASE Finish(c, f)
      BY <1>0, <1>2, <2>1, <3>2, <3>4, FinishExplains DEF ExplainInv
    <3>. QED
      BY <3>1, <3>3, <3>4
  <2>. QED
    BY <1>3, <2>2, <2>3 DEF Call
<1>4. ASSUME NEW c \in Calls, WakeUp(c) PROVE ExplainInv'
  <2> PICK f : f = frame[c]
    OBVIOUS
  <2>1. /\ f \in AnyFrame /\ f.request.tool \in Tools /\ Finish(c, f)
        /\ report' = report
    BY <1>0, <1>4 DEF WakeUp, RunInv, Typed, Unnumbered
  <2>. QED
    BY <1>0, <1>2, <2>1, FinishExplains DEF ExplainInv
<1>5. ASSUME NEW c \in Calls, Cancel(c) PROVE ExplainInv'
  BY <1>1, <1>2, <1>5 DEF Cancel
<1>6. ASSUME NEW status \in AgentStatuses, AdapterEnds(status) PROVE ExplainInv'
  <2>1. trace' = trace /\ db' = db /\ report' = Report(status)
    BY <1>6 DEF AdapterEnds
  <2>2. Report(status).trace = trace /\ Report(status).db = db
    BY DEF Report
  <2>3. Explains(trace, db)
    BY ExplainedExplains DEF ExplainInv
  <2>4. Explains(report'.trace, report'.db)
    BY <2>1, <2>2, <2>3
  <2>5. Explains(report.trace, report.db)'
    BY <2>4
  <2>6. Explained(trace, db)'
    BY <1>1, <2>1
  <2>. QED
    BY <1>0, <2>5, <2>6 DEF ExplainInv
<1>7. CASE UNCHANGED vars
  BY <1>1, <1>2, <1>7 DEF vars
<1>. QED
  BY <1>3, <1>4, <1>5, <1>6, <1>7 DEF Next

\* The trace explains the state, to the last refund, whatever faults meet the calls and
\* however they overlap, and so does every report, provided the shop has one order and one
\* SKU, as in the fixture.
THEOREM TraceExplains == OneOrder /\ OneSku /\ Spec => []TraceExplainsState
<1>1. OrderInv /\ ExplainInv => TraceExplainsState
  BY ExplainedExplains DEF ExplainInv, TraceExplainsState
<1>2. OneOrder /\ OneSku /\ Spec => []OrderInv /\ []ExplainInv
  BY RunInvariant, InitOrder, NextOrder, InitExplain, NextExplain, PTL DEF Spec
<1>. QED
  BY <1>1, <1>2, PTL
===============================================================================
