-------------------------- MODULE ToolExecutorProofs --------------------------
(***************************************************************************)
(* What holds of the executor for every number of calls, contexts, tools   *)
(* and rules.  TypeOK is not inductive: a call that settles reads the      *)
(* start evidence under its own key, so the invariant has to say that the  *)
(* entry is there, and that no other call can have removed it because no   *)
(* two calls ever have the same key.                                       *)
(*                                                                         *)
(* The second half is about the order of a trace: the executor implements  *)
(* CallOrder.                                                              *)
(***************************************************************************)
EXTENDS ToolExecutor, FiniteSetTheorems, TLAPS

Pending == {c \in Calls : pc[c] \in Suspended \cup {"cancelled"}}

NumbersAreBounded ==
  \A c \in Calls : Invoked(c) =>
    frame[c].number \in 1..invocationCounts[ToolKey(frame[c].context, frame[c].tool)]

KeysAreDistinct ==
  \A c, d \in Calls :
    Invoked(c) /\ Invoked(d) /\ EvidenceKey(frame[c]) = EvidenceKey(frame[d]) => c = d

EvidenceDomain == DOMAIN startEvidence = {EvidenceKey(frame[c]) : c \in Pending}

\* What the world has seen of a call at each suspension point of its coroutine.
DeliveryFollowsControl(c) ==
  /\ effects[c] <= delivered[c]
  /\ pc[c] \in {"idle", "sleeping"} => delivered[c] = 0
  /\ pc[c] = "operating" => delivered[c] = 1
  /\ pc[c] = "redelivering" => delivered[c] = 2

DeliveriesFollowControl == \A c \in Calls : DeliveryFollowsControl(c)

EvidenceInv ==
  /\ TypeOK
  /\ NumbersAreBounded
  /\ KeysAreDistinct
  /\ EvidenceDomain
  /\ DeliveriesFollowControl

-----------------------------------------------------------------------------
\* Facts about the operators of the executor.

LEMMA KeyTypes ==
  ASSUME NEW x \in Contexts
  PROVE  /\ RunKey(x) \in RunKeys
         /\ \A t \in Tools : ToolKey(x, t) \in ToolKeys
         /\ x.run \in RunIds
         /\ x.experiment \in Experiments
         /\ x.mode \in {"baseline", "faulted"}
BY ContextsAssumption DEF RunKey, ToolKey, RunKeys, ToolKeys

LEMMA MatchingRuleType ==
  ASSUME NEW t, NEW n, NEW m
  PROVE  /\ MatchingRule(t, n, m) \in FaultRules \cup {NoRule}
         /\ MatchingRule(t, n, m) # NoRule => Matches(MatchingRule(t, n, m), t, n, m)
         /\ MatchingRule(t, n, m) = NoRule => \A r \in FaultRules : ~Matches(r, t, n, m)
<1>1. CASE \E r \in FaultRules : Matches(r, t, n, m)
  <2>1. MatchingRule(t, n, m) = CHOOSE r \in FaultRules : Matches(r, t, n, m)
    BY <1>1 DEF MatchingRule
  <2>. QED
    BY <1>1, <2>1, FaultRulesAssumption
<1>2. CASE ~ \E r \in FaultRules : Matches(r, t, n, m)
  BY <1>2 DEF MatchingRule
<1>. QED
  BY <1>1, <1>2

LEMMA NewFrameType ==
  ASSUME TypeOK, NEW x \in Contexts, NEW t \in Tools
  PROVE  /\ NewFrame(x, t) \in Frames
         /\ NewFrame(x, t).context = x
         /\ NewFrame(x, t).tool = t
         /\ NewFrame(x, t).number = invocationCounts[ToolKey(x, t)] + 1
         /\ NewEvidence(x) \in Evidence
<1>1. invocationCounts[ToolKey(x, t)] \in Nat /\ started[RunKey(x)] \in Nat
      /\ completed[RunKey(x)] \in Nat
  BY KeyTypes DEF TypeOK
<1>2. MatchingRule(t, invocationCounts[ToolKey(x, t)] + 1, x.mode) \in FaultRules \cup {NoRule}
  BY MatchingRuleType
<1>. QED
  BY <1>1, <1>2 DEF NewFrame, NewEvidence, Frames, Evidence

Outcomes == [rule : FaultRules \cup {NoRule}, executed : BOOLEAN,
             committed : {"true", "false", "unknown"}, count : 0..2,
             underlying : {"none", "result", "error", "pair"}]

\* Every way a call can end gives _record arguments of the right type.
LEMMA OutcomeTypes ==
  ASSUME NEW r \in FaultRules \cup {NoRule}
  PROVE  /\ Refused(r) \in Outcomes
         /\ Failed(r) \in Outcomes
         /\ Succeeded(r) \in Outcomes
         /\ DeliveredTwice(r) \in Outcomes
<1>1. Refused(r) \in Outcomes
  BY DEF Refused, Outcome, Outcomes
<1>2. Failed(r) \in Outcomes
  BY DEF Failed, Outcome, Outcomes
<1>3. Succeeded(r) \in Outcomes
  BY DEF Succeeded, Outcome, Outcomes
<1>4. DeliveredTwice(r) \in Outcomes
  BY DEF DeliveredTwice, Outcome, Outcomes
<1>. QED
  BY <1>1, <1>2, <1>3, <1>4

LEMMA CallerSeesType ==
  ASSUME NEW r
  PROVE  CallerSees(r) \in Replies
BY DEF CallerSees, Replies

\* Whatever a call is settled with, the three variables that _record writes stay typed.
LEMMA RecordTyped ==
  ASSUME TypeOK, NEW c \in Calls, NEW f \in Frames, NEW e \in Evidence,
         NEW o \in Outcomes, NEW caller \in Replies, Record(c, f, e, o, caller)
  PROVE  /\ completed' \in [RunKeys -> Nat]
         /\ records' \in Seq(Records)
         /\ reply' \in [Calls -> Replies \cup {"none", "record_failed", "cancelled"}]
<1>1. Entry(c, f, e, o, caller) \in Records
  BY KeyTypes DEF Entry, Records, Frames, Evidence, Outcomes
<1>2. RunKey(f.context) \in RunKeys
  BY KeyTypes DEF Frames
<1>3. CASE /\ completed' = [completed EXCEPT ![RunKey(f.context)] = @ + 1]
           /\ records' = Append(records, Entry(c, f, e, o, caller))
           /\ reply' = [reply EXCEPT ![c] = caller]
  <2>1. completed' \in [RunKeys -> Nat]
    BY <1>2, <1>3 DEF TypeOK
  <2>2. records' \in Seq(Records)
    BY <1>1, <1>3 DEF TypeOK
  <2>. QED
    BY <1>3, <2>1, <2>2 DEF TypeOK
<1>4. CASE /\ reply' = [reply EXCEPT ![c] = "record_failed"]
           /\ UNCHANGED <<completed, records>>
  BY <1>4 DEF TypeOK
<1>. QED
  BY <1>3, <1>4 DEF Record

-----------------------------------------------------------------------------
\* The invariant of the start evidence.

LEMMA EvidenceEntry ==
  ASSUME EvidenceInv, NEW c \in Pending
  PROVE  /\ c \in Calls
         /\ frame[c] \in Frames
         /\ EvidenceKey(frame[c]) \in DOMAIN startEvidence
         /\ startEvidence[EvidenceKey(frame[c])] \in Evidence
BY DEF Pending, EvidenceInv, TypeOK, EvidenceDomain, Invoked, Suspended

LEMMA InvokeKeepsEvidenceInv ==
  ASSUME EvidenceInv, NEW c \in Calls, NEW x \in Contexts, NEW t \in Tools,
         Invoke(c, x, t)
  PROVE  EvidenceInv'
<1> DEFINE f == NewFrame(x, t)
           e == NewEvidence(x)
<1>1. TypeOK /\ pc[c] = "idle" /\ NextInvocationNumber(c, x, t)
  BY DEF EvidenceInv, Invoke
<1>2. /\ f \in Frames /\ f.context = x /\ f.tool = t /\ e \in Evidence
      /\ f.number = invocationCounts[ToolKey(x, t)] + 1
  BY <1>1, NewFrameType
<1>3. /\ frame' = [frame EXCEPT ![c] = f]
      /\ frame'[c] = f
      /\ \A d \in Calls \ {c} : frame'[d] = frame[d]
  BY <1>1 DEF NextInvocationNumber, TypeOK
<1>4. /\ pc' \in [Calls -> Suspended \cup {"idle", "finished", "cancelled"}]
      /\ pc'[c] \in {"sleeping", "operating", "finished"}
      /\ \A d \in Calls \ {c} : pc'[d] = pc[d]
  BY <1>1 DEF Invoke, InvokeRejected, InvokeDelayed, InvokeOperation, TypeOK, Suspended
<1>5. invocationCounts' \in [ToolKeys -> Nat] /\ started' \in [RunKeys -> Nat]
  BY <1>1, KeyTypes DEF NextInvocationNumber, TypeOK
<1>6. /\ \A k \in ToolKeys : invocationCounts'[k] >= invocationCounts[k]
      /\ invocationCounts'[ToolKey(x, t)] = invocationCounts[ToolKey(x, t)] + 1
  BY <1>1, KeyTypes DEF NextInvocationNumber, TypeOK
<1>7. NumbersAreBounded'
  <2> SUFFICES ASSUME NEW d \in Calls, Invoked(d)'
               PROVE  frame'[d].number \in
                        1..invocationCounts'[ToolKey(frame'[d].context, frame'[d].tool)]
    BY DEF NumbersAreBounded
  <2>1. CASE d = c
    BY <1>1, <1>2, <1>3, <1>6, <2>1, KeyTypes DEF TypeOK
  <2>2. CASE d # c
    <3>1. Invoked(d) /\ frame[d] \in Frames
      BY <1>1, <1>4, <2>2 DEF Invoked, TypeOK
    <3>2. frame[d].number \in 1..invocationCounts[ToolKey(frame[d].context, frame[d].tool)]
      BY <3>1 DEF EvidenceInv, NumbersAreBounded
    <3>3. ToolKey(frame[d].context, frame[d].tool) \in ToolKeys
      BY <3>1, KeyTypes DEF Frames
    <3>. QED
      BY <1>1, <1>3, <1>5, <1>6, <2>2, <3>2, <3>3 DEF TypeOK
  <2>. QED
    BY <2>1, <2>2
<1>8. \A d \in Calls \ {c} : Invoked(d) => EvidenceKey(frame[d]) # EvidenceKey(f)
  <2> SUFFICES ASSUME NEW d \in Calls \ {c}, Invoked(d),
                      EvidenceKey(frame[d]) = EvidenceKey(f)
               PROVE  FALSE
    OBVIOUS
  <2>1. ToolKey(frame[d].context, frame[d].tool) = ToolKey(x, t) /\ frame[d].number = f.number
    BY <1>2 DEF EvidenceKey, ToolKey
  <2>2. frame[d].number <= invocationCounts[ToolKey(x, t)]
    BY <2>1, <1>1, KeyTypes DEF EvidenceInv, NumbersAreBounded, TypeOK
  <2>. QED
    BY <1>1, <1>2, <2>1, <2>2, KeyTypes DEF TypeOK
<1>9. KeysAreDistinct'
  BY <1>3, <1>4, <1>8 DEF EvidenceInv, KeysAreDistinct, Invoked
<1>10. EvidenceKey(f) \in Experiments \X RunIds \X Tools \X Nat
  BY <1>2, KeyTypes DEF EvidenceKey, Frames
<1>11. /\ DOMAIN startEvidence' =
             DOMAIN startEvidence \cup (IF pc'[c] = "finished" THEN {} ELSE {EvidenceKey(f)})
       /\ \A k \in DOMAIN startEvidence' : startEvidence'[k] \in Evidence
  <2>1. CASE InvokeRejected(c, x, t)
    BY <1>1, <2>1 DEF InvokeRejected, TypeOK
  <2>2. CASE InvokeDelayed(c, x, t) \/ InvokeOperation(c, x, t)
    <3>1. RememberStart(f, e) /\ pc'[c] # "finished"
      BY <1>1, <2>2 DEF InvokeDelayed, InvokeOperation, TypeOK
    <3>. QED
      BY <1>1, <1>2, <3>1 DEF RememberStart, TypeOK
  <2>. QED
    BY <2>1, <2>2 DEF Invoke
<1>12. EvidenceDomain'
  <2>1. Pending' = Pending \cup (IF pc'[c] = "finished" THEN {} ELSE {c})
    BY <1>1, <1>4 DEF Pending, Suspended
  <2>2. c \notin Pending
    BY <1>1 DEF Pending, Suspended
  <2>3. \A d \in Pending : d \in Calls /\ EvidenceKey(frame[d])' = EvidenceKey(frame[d])
    BY <1>3, <2>2 DEF Pending, EvidenceKey
  <2>4. EvidenceKey(frame[c])' = EvidenceKey(f)
    BY <1>3 DEF EvidenceKey
  <2>. QED
    BY <1>11, <2>1, <2>3, <2>4 DEF EvidenceInv, EvidenceDomain
<1>13. /\ delivered' \in [Calls -> 0..2]
       /\ effects' = effects
       /\ delivered'[c] = IF pc'[c] = "operating" THEN 1 ELSE delivered[c]
       /\ \A d \in Calls \ {c} : delivered'[d] = delivered[d]
  BY <1>1 DEF Invoke, InvokeRejected, InvokeDelayed, InvokeOperation, TypeOK, worldVars
<1>14. DeliveriesFollowControl'
  <2>1. delivered[c] = 0 /\ effects[c] = 0
    <3>1. DeliveryFollowsControl(c) /\ effects[c] \in 0..2
      BY <1>1 DEF EvidenceInv, DeliveriesFollowControl, TypeOK
    <3>. QED
      BY <1>1, <3>1 DEF DeliveryFollowsControl
  <2> SUFFICES ASSUME NEW d \in Calls
               PROVE  DeliveryFollowsControl(d)'
    BY DEF DeliveriesFollowControl
  <2>2. CASE d = c
    BY <1>4, <1>13, <2>1, <2>2 DEF DeliveryFollowsControl
  <2>3. CASE d # c
    BY <1>4, <1>13, <2>3 DEF EvidenceInv, DeliveriesFollowControl, DeliveryFollowsControl
  <2>. QED
    BY <2>2, <2>3
<1>15. /\ completed' \in [RunKeys -> Nat]
       /\ records' \in Seq(Records)
       /\ reply' \in [Calls -> Replies \cup {"none", "record_failed", "cancelled"}]
  <2>1. CASE InvokeRejected(c, x, t)
    <3>1. Record(c, f, e, Refused(f.rule), "injected")
      BY <2>1 DEF InvokeRejected
    <3>2. Refused(f.rule) \in Outcomes /\ "injected" \in Replies
      BY <1>2, OutcomeTypes DEF Frames, Replies
    <3>. QED
      BY <1>1, <1>2, <3>1, <3>2, RecordTyped
  <2>2. CASE InvokeDelayed(c, x, t) \/ InvokeOperation(c, x, t)
    BY <1>1, <2>2 DEF InvokeDelayed, InvokeOperation, TypeOK
  <2>. QED
    BY <2>1, <2>2 DEF Invoke
<1>16. TypeOK'
  <2>1. frame' \in [Calls -> Frames \cup {NoFrame}]
    BY <1>1, <1>2, <1>3 DEF TypeOK
  <2>2. \A d \in Calls : Invoked(d)' => frame'[d] \in Frames
    BY <1>1, <1>2, <1>3, <1>4 DEF TypeOK, Invoked
  <2>3. DOMAIN startEvidence' \subseteq Experiments \X RunIds \X Tools \X Nat
    BY <1>1, <1>10, <1>11 DEF TypeOK
  <2>. QED
    BY <1>1, <1>4, <1>5, <1>11, <1>13, <1>15, <2>1, <2>2, <2>3 DEF TypeOK
<1>. QED
  BY <1>7, <1>9, <1>12, <1>14, <1>16 DEF EvidenceInv

LEMMA SettleKeepsEvidenceInv ==
  ASSUME EvidenceInv, NEW c \in Calls, pc[c] \in Suspended,
         NEW o \in Outcomes, NEW caller \in Replies,
         Settle(c, o, caller), UNCHANGED worldVars
  PROVE  EvidenceInv'
<1> DEFINE f == frame[c]
           k0 == EvidenceKey(f)
<1>1. /\ TypeOK /\ c \in Pending
      /\ UNCHANGED <<invocationCounts, started, frame, delivered, effects>>
  BY DEF EvidenceInv, Settle, counterVars, worldVars, Pending
<1>2. f \in Frames /\ k0 \in DOMAIN startEvidence /\ startEvidence[k0] \in Evidence
  BY <1>1, EvidenceEntry
<1>3. /\ pc' \in [Calls -> Suspended \cup {"idle", "finished", "cancelled"}]
      /\ pc'[c] = "finished"
      /\ \A d \in Calls \ {c} : pc'[d] = pc[d]
  BY <1>1 DEF Settle, TypeOK, Suspended
<1>4. /\ DOMAIN startEvidence' = DOMAIN startEvidence \ {k0}
      /\ \A k \in DOMAIN startEvidence' : startEvidence'[k] = startEvidence[k]
  BY DEF Settle, ForgetStart
<1>5. /\ completed' \in [RunKeys -> Nat]
      /\ records' \in Seq(Records)
      /\ reply' \in [Calls -> Replies \cup {"none", "record_failed", "cancelled"}]
  BY <1>1, <1>2, RecordTyped DEF Settle
<1>6. \A d \in Calls : Invoked(d)' <=> Invoked(d)
  BY <1>1, <1>3 DEF Invoked, Suspended
<1>7. TypeOK'
  BY <1>1, <1>3, <1>4, <1>5, <1>6 DEF TypeOK
<1>8. NumbersAreBounded' /\ KeysAreDistinct'
  BY <1>1, <1>6 DEF EvidenceInv, NumbersAreBounded, KeysAreDistinct, EvidenceKey, ToolKey
<1>9. EvidenceDomain'
  <2>1. Pending' = Pending \ {c}
    BY <1>3 DEF Pending, Suspended
  <2>2. \A d \in Pending : d # c => EvidenceKey(frame[d]) # k0
    BY <1>1 DEF EvidenceInv, KeysAreDistinct, Pending, Invoked, Suspended
  <2>3. DOMAIN startEvidence = {EvidenceKey(frame[d]) : d \in Pending}
    BY DEF EvidenceInv, EvidenceDomain
  <2>4. DOMAIN startEvidence' = {EvidenceKey(frame[d]) : d \in Pending \ {c}}
    BY <1>1, <1>4, <2>2, <2>3
  <2>. QED
    BY <1>1, <2>1, <2>4 DEF EvidenceDomain, EvidenceKey
<1>10. DeliveriesFollowControl'
  BY <1>1, <1>3 DEF EvidenceInv, DeliveriesFollowControl, DeliveryFollowsControl
<1>. QED
  BY <1>7, <1>8, <1>9, <1>10 DEF EvidenceInv

\* The steps that leave the executor's evidence alone: a step of the operation, the end
\* of a sleep, the second delivery, a cancellation.
LEMMA QuietStepKeepsEvidenceInv ==
  ASSUME EvidenceInv, NEW c \in Calls,
         WakeUp(c) \/ TakeEffect(c) \/ Redeliver(c) \/ Cancel(c)
  PROVE  EvidenceInv'
<1>1. /\ TypeOK /\ c \in Pending
      /\ UNCHANGED <<invocationCounts, started, completed, startEvidence, records, frame>>
  BY DEF EvidenceInv, WakeUp, TakeEffect, Redeliver, Cancel, counterVars, Pending, Suspended
<1>2. /\ pc' \in [Calls -> Suspended \cup {"idle", "finished", "cancelled"}]
      /\ pc'[c] \in Suspended \cup {"cancelled"}
      /\ \A d \in Calls \ {c} : pc'[d] = pc[d]
  BY <1>1 DEF WakeUp, TakeEffect, Redeliver, Cancel, TypeOK, Suspended
<1>3. Pending' = Pending /\ \A d \in Calls : Invoked(d)' <=> Invoked(d)
  BY <1>1, <1>2 DEF Pending, Invoked, Suspended
<1>4. reply' \in [Calls -> Replies \cup {"none", "record_failed", "cancelled"}]
  BY <1>1 DEF WakeUp, TakeEffect, Redeliver, Cancel, TypeOK
<1>5. /\ delivered' \in [Calls -> 0..2] /\ effects' \in [Calls -> 0..2]
      /\ DeliveryFollowsControl(c)'
  <2>1. DeliveryFollowsControl(c) /\ effects[c] \in 0..2 /\ delivered[c] \in 0..2
    BY <1>1 DEF EvidenceInv, DeliveriesFollowControl, TypeOK
  <2>2. CASE WakeUp(c)
    BY <1>1, <2>1, <2>2 DEF WakeUp, DeliveryFollowsControl, TypeOK
  <2>3. CASE TakeEffect(c)
    <3>1. effects[c] + 1 \in 0..2 /\ effects[c] + 1 <= delivered[c]
      BY <2>1, <2>3 DEF TakeEffect
    <3>. QED
      BY <1>1, <2>1, <2>3, <3>1 DEF TakeEffect, DeliveryFollowsControl, TypeOK
  <2>4. CASE Redeliver(c)
    BY <1>1, <2>1, <2>4 DEF Redeliver, DeliveryFollowsControl, TypeOK
  <2>5. CASE Cancel(c)
    BY <1>1, <2>1, <2>5 DEF Cancel, DeliveryFollowsControl, TypeOK, worldVars
  <2>. QED
    BY <2>2, <2>3, <2>4, <2>5
<1>8. DeliveriesFollowControl'
  <2>1. \A d \in Calls \ {c} : delivered'[d] = delivered[d] /\ effects'[d] = effects[d]
    BY <1>1 DEF WakeUp, TakeEffect, Redeliver, Cancel, TypeOK, worldVars
  <2>. QED
    BY <1>2, <1>5, <2>1 DEF EvidenceInv, DeliveriesFollowControl, DeliveryFollowsControl
<1>6. TypeOK'
  BY <1>1, <1>2, <1>3, <1>4, <1>5 DEF TypeOK
<1>7. NumbersAreBounded' /\ KeysAreDistinct' /\ EvidenceDomain'
  BY <1>1, <1>3 DEF EvidenceInv, NumbersAreBounded, KeysAreDistinct, EvidenceDomain,
                    EvidenceKey, ToolKey
<1>. QED
  BY <1>6, <1>7, <1>8 DEF EvidenceInv

LEMMA SettlingStepsKeepEvidenceInv ==
  ASSUME EvidenceInv, NEW c \in Calls,
         OperationReturns(c) \/ OperationRaises(c) \/ RedeliveryEnds(c)
  PROVE  EvidenceInv'
<1> DEFINE r == frame[c].rule
<1>1. pc[c] \in Suspended /\ UNCHANGED worldVars
  BY DEF OperationReturns, OperationRaises, RedeliveryEnds, Suspended
<1>2. r \in FaultRules \cup {NoRule}
  BY <1>1 DEF EvidenceInv, TypeOK, Invoked, Suspended, Frames
<1>3. /\ Failed(r) \in Outcomes /\ Succeeded(r) \in Outcomes /\ DeliveredTwice(r) \in Outcomes
      /\ CallerSees(r) \in Replies /\ "error" \in Replies /\ "result" \in Replies
  BY <1>2, OutcomeTypes, CallerSeesType DEF Replies
<1>4. CASE OperationReturns(c)
  <2>1. Settle(c, Succeeded(r), CallerSees(r))
    BY <1>4 DEF OperationReturns
  <2>. QED
    BY <1>1, <1>3, <2>1, SettleKeepsEvidenceInv
<1>5. CASE OperationRaises(c)
  <2>1. Settle(c, Failed(r), "error")
    BY <1>5 DEF OperationRaises
  <2>. QED
    BY <1>1, <1>3, <2>1, SettleKeepsEvidenceInv
<1>6. CASE RedeliveryEnds(c)
  <2>1. Settle(c, DeliveredTwice(r), "result")
    BY <1>6 DEF RedeliveryEnds
  <2>. QED
    BY <1>1, <1>3, <2>1, SettleKeepsEvidenceInv
<1>. QED
  BY <1>4, <1>5, <1>6

LEMMA InitEvidenceInv == Init => EvidenceInv
<1> SUFFICES ASSUME Init PROVE EvidenceInv
  OBVIOUS
<1>1. \A c \in Calls : pc[c] = "idle" /\ delivered[c] = 0 /\ effects[c] = 0
  BY DEF Init
<1>2. DOMAIN startEvidence = {} /\ Pending = {}
  BY <1>1 DEF Init, Pending, Suspended
<1>3. TypeOK
  BY <1>1, <1>2 DEF Init, TypeOK, Invoked
<1>4. NumbersAreBounded /\ KeysAreDistinct /\ EvidenceDomain
  BY <1>1, <1>2 DEF NumbersAreBounded, KeysAreDistinct, EvidenceDomain, Invoked
<1>5. DeliveriesFollowControl
  BY <1>1 DEF DeliveriesFollowControl, DeliveryFollowsControl
<1>. QED
  BY <1>3, <1>4, <1>5 DEF EvidenceInv

LEMMA NextEvidenceInv == EvidenceInv /\ [Next]_vars => EvidenceInv'
<1> SUFFICES ASSUME EvidenceInv, [Next]_vars PROVE EvidenceInv'
  OBVIOUS
<1>1. CASE UNCHANGED vars
  BY <1>1 DEF vars, EvidenceInv, TypeOK, NumbersAreBounded, KeysAreDistinct, EvidenceDomain,
              DeliveriesFollowControl, DeliveryFollowsControl, Invoked, Pending, EvidenceKey,
              ToolKey
<1>2. ASSUME NEW c \in Calls, NEW x \in Contexts, NEW t \in Tools, Invoke(c, x, t)
      PROVE  EvidenceInv'
  BY <1>2, InvokeKeepsEvidenceInv
<1>3. ASSUME NEW c \in Calls, OperationReturns(c) \/ OperationRaises(c) \/ RedeliveryEnds(c)
      PROVE  EvidenceInv'
  BY <1>3, SettlingStepsKeepEvidenceInv
<1>4. ASSUME NEW c \in Calls, WakeUp(c) \/ TakeEffect(c) \/ Redeliver(c) \/ Cancel(c)
      PROVE  EvidenceInv'
  BY <1>4, QuietStepKeepsEvidenceInv
<1>. QED
  BY <1>1, <1>2, <1>3, <1>4 DEF Next

LEMMA EvidenceInvariant == Spec => []EvidenceInv
BY InitEvidenceInv, NextEvidenceInv, PTL DEF Spec

\* Every variable of the executor keeps its type, for any number of calls.
THEOREM TypeCorrect == Spec => []TypeOK
<1>1. EvidenceInv => TypeOK
  BY DEF EvidenceInv
<1>. QED
  BY <1>1, EvidenceInvariant, PTL

-----------------------------------------------------------------------------
\* The invariant of the records.

\* The rule that travels with a call is the one that matches it.
RuleFits(f) ==
  IF f.rule = NoRule
  THEN \A rule \in FaultRules : ~Matches(rule, f.tool, f.number, f.context.mode)
  ELSE Matches(f.rule, f.tool, f.number, f.context.mode)

\* The rule that matches travels with a call, and only a duplicate rule brings a
\* call to its second delivery, after the first took effect.
RulesFollowControl ==
  \A c \in Calls :
    /\ Invoked(c) => RuleFits(frame[c])
    /\ pc[c] \in Suspended => TypeOf(frame[c].rule) \notin RejectingFaults
    /\ pc[c] = "redelivering" => TypeOf(frame[c].rule) = "duplicate_request" /\ effects[c] >= 1

RecordsInv ==
  /\ RulesFollowControl
  /\ RecordsTellTheTruth
  /\ RecordsNameTheirRule
  /\ SettledCallsHaveOneRecord

\* What one record has to satisfy, given the world, the reply and the frame of its call.
Truthful(r, deliveries, effect, answer) ==
  /\ r.executed <=> deliveries > 0
  /\ r.count = deliveries
  /\ r.committed = "true" => effect = 1
  /\ r.committed = "false" => effect = 0
  /\ r.underlying \in {"result", "pair"} => effect >= 1
  /\ r.caller = answer

Labelled(r, mode) ==
  /\ r.rule # NoRule => r.rule \in FaultRules /\ Matches(r.rule, r.tool, r.number, mode)
  /\ r.rule = NoRule =>
       /\ r.caller \in {"result", "error"} /\ r.count = 1
       /\ \A rule \in FaultRules : Matches(rule, r.tool, r.number, mode) =>
            rule.type \in AfterCallFaults /\ r.underlying = "error" /\ r.caller = "error"

LEMMA RecordsByEntry ==
  ASSUME TypeOK
  PROVE  /\ RecordsTellTheTruth <=>
              \A i \in DOMAIN records :
                /\ pc[records[i].call] = "finished"
                /\ Truthful(records[i], delivered[records[i].call], effects[records[i].call],
                            reply[records[i].call])
         /\ RecordsNameTheirRule <=>
              \A i \in DOMAIN records :
                Labelled(records[i], frame[records[i].call].context.mode)
         /\ \A i \in DOMAIN records : records[i] \in Records /\ records[i].call \in Calls
<1>1. \A i \in DOMAIN records : records[i] \in Records
  BY DEF TypeOK
<1>2. \A i \in DOMAIN records : records[i].call \in Calls
  BY <1>1 DEF Records
<1>. QED
  BY <1>1, <1>2 DEF RecordsTellTheTruth, RecordsNameTheirRule, Truthful, Labelled

LEMMA RecordingKeepsRecordsInv ==
  ASSUME EvidenceInv, EvidenceInv', RecordsInv, NEW c \in Calls, NEW f \in Frames,
         NEW e \in Evidence, NEW o \in Outcomes, NEW caller \in Replies,
         pc[c] # "finished", pc' = [pc EXCEPT ![c] = "finished"],
         frame'[c] = f, \A d \in Calls \ {c} : frame'[d] = frame[d],
         UNCHANGED worldVars,
         RuleFits(f),
         Record(c, f, e, o, caller),
         Truthful(Entry(c, f, e, o, caller), delivered[c], effects[c], caller),
         Labelled(Entry(c, f, e, o, caller), f.context.mode)
  PROVE  RecordsInv'
<1> DEFINE r == Entry(c, f, e, o, caller)
<1>1. TypeOK /\ TypeOK'
  BY DEF EvidenceInv
<1>2. /\ pc'[c] = "finished" /\ \A d \in Calls \ {c} : pc'[d] = pc[d]
      /\ delivered' = delivered /\ effects' = effects
  BY <1>1 DEF TypeOK, worldVars
<1>3. RulesFollowControl'
  BY <1>2 DEF RecordsInv, RulesFollowControl, RuleFits, Invoked, Suspended
<1>4. \A i \in DOMAIN records :
        /\ records[i].call \in Calls \ {c}
        /\ pc[records[i].call] = "finished"
        /\ Truthful(records[i], delivered[records[i].call], effects[records[i].call],
                    reply[records[i].call])
        /\ Labelled(records[i], frame[records[i].call].context.mode)
  BY <1>1, RecordsByEntry DEF RecordsInv
<1>5. ~HasRecord(c)
  BY <1>4 DEF HasRecord
<1>6. \A d \in Calls \ {c} : reply'[d] = reply[d]
  BY <1>1 DEF Record, TypeOK
<1>7. CASE /\ records' = Append(records, r)
           /\ reply' = [reply EXCEPT ![c] = caller]
  <2>1. /\ reply'[c] = caller /\ caller # "record_failed"
    BY <1>1, <1>7 DEF TypeOK, Replies
  <2>2. /\ DOMAIN records' = DOMAIN records \cup {Len(records) + 1}
        /\ Len(records) + 1 \notin DOMAIN records
        /\ records'[Len(records) + 1] = r
        /\ \A i \in DOMAIN records : records'[i] = records[i]
    BY <1>1, <1>7 DEF TypeOK
  <2>3. r.call = c
    BY DEF Entry
  <2>4. \A i \in DOMAIN records' :
          /\ pc'[records'[i].call] = "finished"
          /\ Truthful(records'[i], delivered'[records'[i].call], effects'[records'[i].call],
                      reply'[records'[i].call])
          /\ Labelled(records'[i], frame'[records'[i].call].context.mode)
    <3> SUFFICES ASSUME NEW i \in DOMAIN records'
                 PROVE  /\ pc'[records'[i].call] = "finished"
                        /\ Truthful(records'[i], delivered'[records'[i].call],
                                    effects'[records'[i].call], reply'[records'[i].call])
                        /\ Labelled(records'[i], frame'[records'[i].call].context.mode)
      OBVIOUS
    <3>1. CASE i \in DOMAIN records
      BY <1>2, <1>4, <1>6, <2>2, <3>1
    <3>2. CASE i = Len(records) + 1
      BY <1>2, <2>1, <2>2, <2>3, <3>2
    <3>. QED
      BY <2>2, <3>1, <3>2
  <2>5. RecordsTellTheTruth' /\ RecordsNameTheirRule'
    <3>1. (RecordsTellTheTruth /\ RecordsNameTheirRule)' <=>
            \A i \in DOMAIN records' :
              /\ pc'[records'[i].call] = "finished"
              /\ Truthful(records'[i], delivered'[records'[i].call],
                          effects'[records'[i].call], reply'[records'[i].call])
              /\ Labelled(records'[i], frame'[records'[i].call].context.mode)
      BY <1>1 DEF RecordsTellTheTruth, RecordsNameTheirRule, Truthful, Labelled
    <3>. QED
      BY <2>4, <3>1
  <2>6. SettledCallsHaveOneRecord'
    <3>1. \A d \in Calls \ {c} : HasRecord(d)' <=> HasRecord(d)
      BY <2>2, <2>3 DEF HasRecord
    <3>2. HasRecord(c)'
      BY <2>2, <2>3 DEF HasRecord
    <3>3. \A i, j \in DOMAIN records' : records'[i].call = records'[j].call => i = j
      BY <1>4, <2>2, <2>3 DEF RecordsInv, SettledCallsHaveOneRecord
    <3>. QED
      BY <1>2, <1>6, <2>1, <3>1, <3>2, <3>3 DEF RecordsInv, SettledCallsHaveOneRecord
  <2>. QED
    BY <1>3, <2>5, <2>6 DEF RecordsInv
<1>8. CASE /\ reply' = [reply EXCEPT ![c] = "record_failed"]
           /\ UNCHANGED records
  <2>1. RecordsTellTheTruth' /\ RecordsNameTheirRule'
    BY <1>1, <1>2, <1>4, <1>6, <1>8
    DEF RecordsTellTheTruth, RecordsNameTheirRule, Truthful, Labelled
  <2>2. reply'[c] = "record_failed"
    BY <1>1, <1>8 DEF TypeOK
  <2>3. SettledCallsHaveOneRecord'
    BY <1>2, <1>5, <1>6, <1>8, <2>2 DEF RecordsInv, SettledCallsHaveOneRecord, HasRecord
  <2>. QED
    BY <1>3, <2>1, <2>3 DEF RecordsInv
<1>. QED
  BY <1>7, <1>8 DEF Record

\* A step of a call that has no record, while records stay as they are.
LEMMA UnrecordedStepKeepsRecordsInv ==
  ASSUME EvidenceInv, RecordsInv, NEW c \in Calls,
         pc[c] # "finished", pc'[c] # "finished",
         UNCHANGED records, RulesFollowControl',
         \A d \in Calls \ {c} :
           /\ pc'[d] = pc[d] /\ frame'[d] = frame[d] /\ reply'[d] = reply[d]
           /\ delivered'[d] = delivered[d] /\ effects'[d] = effects[d]
  PROVE  RecordsInv'
<1>1. TypeOK
  BY DEF EvidenceInv
<1>2. \A i \in DOMAIN records : records[i].call \in Calls /\ pc[records[i].call] = "finished"
  BY <1>1, RecordsByEntry DEF RecordsInv
<1>3. \A i \in DOMAIN records : records[i].call \in Calls \ {c}
  BY <1>2
<1>4. RecordsTellTheTruth' /\ RecordsNameTheirRule'
  BY <1>3 DEF RecordsInv, RecordsTellTheTruth, RecordsNameTheirRule
<1>5. SettledCallsHaveOneRecord'
  <2>1. ~HasRecord(c)' /\ \A d \in Calls : HasRecord(d)' <=> HasRecord(d)
    BY <1>3 DEF HasRecord
  <2>. QED
    BY <2>1 DEF RecordsInv, SettledCallsHaveOneRecord
<1>. QED
  BY <1>4, <1>5 DEF RecordsInv

LEMMA InvokeKeepsRecordsInv ==
  ASSUME EvidenceInv, EvidenceInv', RecordsInv,
         NEW c \in Calls, NEW x \in Contexts, NEW t \in Tools, Invoke(c, x, t)
  PROVE  RecordsInv'
<1> DEFINE f == NewFrame(x, t)
           e == NewEvidence(x)
<1>1. TypeOK /\ pc[c] = "idle" /\ NextInvocationNumber(c, x, t)
  BY DEF EvidenceInv, Invoke
<1>2. f \in Frames /\ e \in Evidence /\ f.context = x
  BY <1>1, NewFrameType
<1>3. RuleFits(f)
  BY MatchingRuleType DEF NewFrame, RuleFits
<1>4. frame'[c] = f /\ \A d \in Calls \ {c} : frame'[d] = frame[d]
  BY <1>1 DEF NextInvocationNumber, TypeOK
<1>5. delivered[c] = 0 /\ effects[c] = 0
  <2>1. DeliveryFollowsControl(c) /\ effects[c] \in 0..2
    BY <1>1 DEF EvidenceInv, DeliveriesFollowControl, TypeOK
  <2>. QED
    BY <1>1, <2>1 DEF DeliveryFollowsControl
<1>6. CASE InvokeRejected(c, x, t)
  <2>1. f.rule # NoRule
    BY <1>6 DEF InvokeRejected, TypeOf, RejectingFaults
  <2>2. Refused(f.rule) \in Outcomes /\ "injected" \in Replies
    BY <1>2, OutcomeTypes DEF Frames, Replies
  <2>3. Truthful(Entry(c, f, e, Refused(f.rule), "injected"), delivered[c], effects[c], "injected")
    BY <1>5 DEF Truthful, Entry, Refused, Outcome
  <2>4. Labelled(Entry(c, f, e, Refused(f.rule), "injected"), f.context.mode)
    BY <1>2, <1>3, <2>1 DEF Labelled, RuleFits, Entry, Refused, Outcome, Frames
  <2>5. /\ pc[c] # "finished" /\ pc' = [pc EXCEPT ![c] = "finished"]
        /\ UNCHANGED worldVars
        /\ Record(c, f, e, Refused(f.rule), "injected")
    BY <1>1, <1>6 DEF InvokeRejected
  <2>. QED
    BY <1>2, <1>3, <1>4, <2>2, <2>3, <2>4, <2>5, RecordingKeepsRecordsInv
<1>7. CASE InvokeDelayed(c, x, t) \/ InvokeOperation(c, x, t)
  <2>1. /\ pc'[c] \in {"sleeping", "operating"}
        /\ UNCHANGED <<records, reply, effects>>
        /\ \A d \in Calls \ {c} : pc'[d] = pc[d] /\ delivered'[d] = delivered[d]
        /\ TypeOf(f.rule) \notin RejectingFaults
    BY <1>1, <1>7 DEF InvokeDelayed, InvokeOperation, TypeOK, worldVars, RejectingFaults,
                      AfterCallFaults
  <2>2. RulesFollowControl'
    <3> SUFFICES ASSUME NEW d \in Calls
                 PROVE  /\ (Invoked(d) => RuleFits(frame[d]))'
                        /\ pc'[d] \in Suspended => TypeOf(frame'[d].rule) \notin RejectingFaults
                        /\ pc'[d] = "redelivering" =>
                             TypeOf(frame'[d].rule) = "duplicate_request" /\ effects'[d] >= 1
      BY DEF RulesFollowControl
    <3>1. CASE d = c
      BY <1>3, <1>4, <2>1, <3>1
    <3>2. CASE d # c
      BY <1>4, <2>1, <3>2 DEF RecordsInv, RulesFollowControl, Invoked
    <3>. QED
      BY <3>1, <3>2
  <2>. QED
    BY <1>1, <1>4, <2>1, <2>2, UnrecordedStepKeepsRecordsInv
<1>. QED
  BY <1>6, <1>7 DEF Invoke

LEMMA SettlingStepsKeepRecordsInv ==
  ASSUME EvidenceInv, EvidenceInv', RecordsInv, NEW c \in Calls,
         OperationReturns(c) \/ OperationRaises(c) \/ RedeliveryEnds(c)
  PROVE  RecordsInv'
<1> DEFINE f == frame[c]
           r == f.rule
           e == startEvidence[EvidenceKey(f)]
<1>1. /\ TypeOK /\ c \in Pending /\ Invoked(c) /\ pc[c] # "finished"
      /\ UNCHANGED worldVars
  BY DEF EvidenceInv, OperationReturns, OperationRaises, RedeliveryEnds, Pending, Suspended,
         Invoked
<1>2. f \in Frames /\ e \in Evidence /\ r \in FaultRules \cup {NoRule}
  BY <1>1, EvidenceEntry DEF Frames
<1>3. RuleFits(f)
  BY <1>1 DEF RecordsInv, RulesFollowControl
<1>4. /\ Failed(r) \in Outcomes /\ Succeeded(r) \in Outcomes /\ DeliveredTwice(r) \in Outcomes
      /\ CallerSees(r) \in Replies /\ "error" \in Replies /\ "result" \in Replies
  BY <1>2, OutcomeTypes, CallerSeesType DEF Replies
<1>5. /\ effects[c] \in 0..2 /\ delivered[c] \in 0..2 /\ effects[c] <= delivered[c]
      /\ TypeOf(r) \notin RejectingFaults
      /\ pc[c] = "operating" => delivered[c] = 1
      /\ pc[c] = "redelivering" => /\ delivered[c] = 2 /\ effects[c] >= 1
                                  /\ TypeOf(r) = "duplicate_request"
  BY <1>1 DEF EvidenceInv, DeliveriesFollowControl, DeliveryFollowsControl, TypeOK,
              RecordsInv, RulesFollowControl, OperationReturns, OperationRaises,
              RedeliveryEnds, Suspended
<1>6. ASSUME NEW o \in Outcomes, NEW caller \in Replies, Settle(c, o, caller),
             Truthful(Entry(c, f, e, o, caller), delivered[c], effects[c], caller),
             Labelled(Entry(c, f, e, o, caller), f.context.mode)
      PROVE  RecordsInv'
  <2>1. /\ pc' = [pc EXCEPT ![c] = "finished"] /\ frame' = frame
        /\ Record(c, f, e, o, caller)
    BY <1>6 DEF Settle
  <2>. QED
    BY <1>1, <1>2, <1>3, <1>6, <2>1, RecordingKeepsRecordsInv
<1>7. CASE OperationReturns(c)
  <2>1. Settle(c, Succeeded(r), CallerSees(r)) /\ pc[c] = "operating" /\ effects[c] = 1
    BY <1>5, <1>7 DEF OperationReturns
  <2>2. Truthful(Entry(c, f, e, Succeeded(r), CallerSees(r)), delivered[c], effects[c],
                 CallerSees(r))
    BY <1>5, <2>1 DEF Truthful, Entry, Succeeded, Outcome
  <2>3. r = NoRule => CallerSees(r) = "result"
    BY DEF CallerSees, TypeOf
  <2>4. Labelled(Entry(c, f, e, Succeeded(r), CallerSees(r)), f.context.mode)
    BY <1>2, <1>3, <2>3 DEF Labelled, RuleFits, Entry, Succeeded, Outcome
  <2>. QED
    BY <1>4, <1>6, <2>1, <2>2, <2>4
<1>8. CASE OperationRaises(c)
  <2>1. Settle(c, Failed(r), "error") /\ pc[c] = "operating"
    BY <1>8 DEF OperationRaises
  <2>2. Truthful(Entry(c, f, e, Failed(r), "error"), delivered[c], effects[c], "error")
    BY <1>5, <2>1 DEF Truthful, Entry, Failed, Outcome
  <2>3. r # NoRule /\ TypeOf(r) # "latency" => TypeOf(r) \in AfterCallFaults
    BY <1>2, <1>5, FaultRulesAssumption DEF TypeOf, FaultTypes
  <2>4. \A rule \in FaultRules : Matches(rule, f.tool, f.number, f.context.mode) => rule = r
    BY <1>2, <1>3, FaultRulesAssumption DEF RuleFits, Matches
  <2>5. Labelled(Entry(c, f, e, Failed(r), "error"), f.context.mode)
    BY <1>2, <1>3, <2>3, <2>4 DEF Labelled, RuleFits, Entry, Failed, Outcome, TypeOf
  <2>. QED
    BY <1>4, <1>6, <2>1, <2>2, <2>5
<1>9. CASE RedeliveryEnds(c)
  <2>1. Settle(c, DeliveredTwice(r), "result") /\ pc[c] = "redelivering"
    BY <1>9 DEF RedeliveryEnds
  <2>2. Truthful(Entry(c, f, e, DeliveredTwice(r), "result"), delivered[c], effects[c], "result")
    BY <1>5, <2>1 DEF Truthful, Entry, DeliveredTwice, Outcome
  <2>3. r # NoRule
    BY <1>5, <2>1 DEF TypeOf
  <2>4. Labelled(Entry(c, f, e, DeliveredTwice(r), "result"), f.context.mode)
    BY <1>2, <1>3, <2>3 DEF Labelled, RuleFits, Entry, DeliveredTwice, Outcome
  <2>. QED
    BY <1>4, <1>6, <2>1, <2>2, <2>4
<1>. QED
  BY <1>7, <1>8, <1>9

LEMMA QuietStepsKeepRecordsInv ==
  ASSUME EvidenceInv, EvidenceInv', RecordsInv, NEW c \in Calls,
         WakeUp(c) \/ TakeEffect(c) \/ Redeliver(c) \/ Cancel(c)
  PROVE  RecordsInv'
<1>1. /\ TypeOK /\ pc[c] \in Suspended /\ UNCHANGED <<records, frame>>
      /\ pc'[c] \in Suspended \cup {"cancelled"}
      /\ \A d \in Calls \ {c} :
           /\ pc'[d] = pc[d] /\ frame'[d] = frame[d] /\ reply'[d] = reply[d]
           /\ delivered'[d] = delivered[d] /\ effects'[d] = effects[d]
  BY DEF EvidenceInv, WakeUp, TakeEffect, Redeliver, Cancel, TypeOK, Suspended, counterVars,
         worldVars
<1>2. /\ effects'[c] \in 0..2 /\ effects[c] \in 0..2 /\ effects'[c] >= effects[c]
      /\ pc'[c] = "redelivering" => \/ pc[c] = "redelivering"
                                    \/ Redeliver(c) /\ effects[c] = 1
  <2>1. effects[c] \in 0..2 /\ effects'[c] \in 0..2
    BY DEF EvidenceInv, TypeOK
  <2>2. CASE WakeUp(c)
    BY <1>1, <2>1, <2>2 DEF WakeUp, TypeOK
  <2>3. CASE TakeEffect(c)
    BY <1>1, <2>1, <2>3 DEF TakeEffect, TypeOK
  <2>4. CASE Redeliver(c)
    <3>1. DeliveryFollowsControl(c)
      BY DEF EvidenceInv, DeliveriesFollowControl
    <3>. QED
      BY <1>1, <2>1, <2>4, <3>1 DEF Redeliver, DeliveryFollowsControl
  <2>5. CASE Cancel(c)
    BY <1>1, <2>1, <2>5 DEF Cancel, worldVars, TypeOK, Suspended
  <2>. QED
    BY <2>2, <2>3, <2>4, <2>5
<1>3. RulesFollowControl'
  <2> SUFFICES ASSUME NEW d \in Calls
               PROVE  /\ (Invoked(d) => RuleFits(frame[d]))'
                      /\ pc'[d] \in Suspended => TypeOf(frame'[d].rule) \notin RejectingFaults
                      /\ pc'[d] = "redelivering" =>
                           TypeOf(frame'[d].rule) = "duplicate_request" /\ effects'[d] >= 1
    BY DEF RulesFollowControl
  <2>1. CASE d = c
    <3>1. Invoked(c)
      BY <1>1 DEF Invoked, Suspended
    <3>2. pc[c] = "redelivering" => TypeOf(frame[c].rule) = "duplicate_request" /\ effects[c] >= 1
      BY DEF RecordsInv, RulesFollowControl
    <3>3. Redeliver(c) => TypeOf(frame[c].rule) = "duplicate_request"
      BY DEF Redeliver
    <3>. QED
      BY <1>1, <1>2, <2>1, <3>1, <3>2, <3>3 DEF RecordsInv, RulesFollowControl
  <2>2. CASE d # c
    BY <1>1, <2>2 DEF RecordsInv, RulesFollowControl, Invoked
  <2>. QED
    BY <2>1, <2>2
<1>4. pc[c] # "finished" /\ pc'[c] # "finished"
  BY <1>1 DEF Suspended
<1>. QED
  BY <1>1, <1>3, <1>4, UnrecordedStepKeepsRecordsInv

LEMMA InitRecordsInv == Init => RecordsInv
<1> SUFFICES ASSUME Init PROVE RecordsInv
  OBVIOUS
<1>1. DOMAIN records = {} /\ \A c \in Calls : pc[c] = "idle"
  BY DEF Init
<1>. QED
  BY <1>1 DEF RecordsInv, RulesFollowControl, RecordsTellTheTruth, RecordsNameTheirRule,
              SettledCallsHaveOneRecord, HasRecord, Invoked, Suspended

LEMMA NextRecordsInv == EvidenceInv /\ EvidenceInv' /\ RecordsInv /\ [Next]_vars => RecordsInv'
<1> SUFFICES ASSUME EvidenceInv, EvidenceInv', RecordsInv, [Next]_vars PROVE RecordsInv'
  OBVIOUS
<1>1. CASE UNCHANGED vars
  BY <1>1 DEF vars, RecordsInv, RulesFollowControl, RecordsTellTheTruth,
              RecordsNameTheirRule, SettledCallsHaveOneRecord, HasRecord, Invoked
<1>2. ASSUME NEW c \in Calls, NEW x \in Contexts, NEW t \in Tools, Invoke(c, x, t)
      PROVE  RecordsInv'
  BY <1>2, InvokeKeepsRecordsInv
<1>3. ASSUME NEW c \in Calls, OperationReturns(c) \/ OperationRaises(c) \/ RedeliveryEnds(c)
      PROVE  RecordsInv'
  BY <1>3, SettlingStepsKeepRecordsInv
<1>4. ASSUME NEW c \in Calls, WakeUp(c) \/ TakeEffect(c) \/ Redeliver(c) \/ Cancel(c)
      PROVE  RecordsInv'
  BY <1>4, QuietStepsKeepRecordsInv
<1>. QED
  BY <1>1, <1>2, <1>3, <1>4 DEF Next

LEMMA RecordsInvariant == Spec => []RecordsInv
<1>1. Init => EvidenceInv /\ RecordsInv
  BY InitEvidenceInv, InitRecordsInv
<1>2. EvidenceInv /\ RecordsInv /\ [Next]_vars => (EvidenceInv /\ RecordsInv)'
  BY NextEvidenceInv, NextRecordsInv
<1>. QED
  BY <1>1, <1>2, PTL DEF Spec

\* Whatever calls overlap and however they end, a record says of the operation and of the
\* caller's answer what happened.
THEOREM TruthfulRecords == Spec => []RecordsTellTheTruth
<1>1. RecordsInv => RecordsTellTheTruth
  BY DEF RecordsInv
<1>. QED
  BY <1>1, RecordsInvariant, PTL

\* A record names the rule that matched its call, unless the operation raised before an
\* after-call fault could act on it.
THEOREM NamedRules == Spec => []RecordsNameTheirRule
<1>1. RecordsInv => RecordsNameTheirRule
  BY DEF RecordsInv
<1>. QED
  BY <1>1, RecordsInvariant, PTL

\* One record for each call that ended with an outcome, none for the others.
THEOREM OneRecordPerCall == Spec => []SettledCallsHaveOneRecord
<1>1. RecordsInv => SettledCallsHaveOneRecord
  BY DEF RecordsInv
<1>. QED
  BY <1>1, RecordsInvariant, PTL

-----------------------------------------------------------------------------
\* The invariant of the counters and the numbers taken from them.

InvokedIn(k) == {c \in Calls : Invoked(c) /\ RunKey(frame[c].context) = k}
RecordedIn(k) ==
  {c \in Calls : /\ pc[c] = "finished" /\ reply[c] # "record_failed"
                 /\ RunKey(frame[c].context) = k}

\* The two counters of a run count calls, and the calls completed are among those begun.
CountersCount ==
  \A k \in RunKeys :
    /\ started[k] = Cardinality(InvokedIn(k))
    /\ completed[k] = Cardinality(RecordedIn(k))

KeyRun(k) == <<k[1], k[2]>>
RecordRun(i) == RunKey(frame[records[i].call].context)

SequencesAreBounded ==
  /\ \A k \in DOMAIN startEvidence : startEvidence[k].sequence <= started[KeyRun(k)]
  /\ \A i \in DOMAIN records : records[i].sequence <= started[RecordRun(i)]

OrderInv ==
  /\ CountersCount
  /\ CompletedCountsRecords
  /\ SequencesAreBounded
  /\ StartEvidenceIsOrdered
  /\ SequenceNumbersAreUnique

LEMMA CompletedWithinStarted ==
  ASSUME CountersCount, NEW k \in RunKeys
  PROVE  completed[k] <= started[k]
<1>1. IsFiniteSet(InvokedIn(k))
  BY CallsAssumption, FS_Subset DEF InvokedIn
<1>2. RecordedIn(k) \subseteq InvokedIn(k)
  BY DEF RecordedIn, InvokedIn, Invoked
<1>. QED
  BY <1>1, <1>2, FS_Subset DEF CountersCount

\* Starting a call moves the counter of its run and no other.
LEMMA InvokingCounts ==
  ASSUME EvidenceInv, CountersCount, NEW c \in Calls, NEW x \in Contexts, NEW t \in Tools,
         Invoke(c, x, t)
  PROVE  /\ started' = [started EXCEPT ![RunKey(x)] = @ + 1]
         /\ \A k \in RunKeys : started'[k] = Cardinality(InvokedIn(k)')
<1>1. /\ TypeOK /\ pc[c] = "idle" /\ pc'[c] # "idle"
      /\ \A d \in Calls \ {c} : pc'[d] = pc[d] /\ frame'[d] = frame[d]
      /\ frame'[c].context = x
      /\ started' = [started EXCEPT ![RunKey(x)] = @ + 1]
  BY DEF EvidenceInv, TypeOK, Invoke, InvokeRejected, InvokeDelayed, InvokeOperation,
         NextInvocationNumber, NewFrame
<1>2. ASSUME NEW k \in RunKeys PROVE started'[k] = Cardinality(InvokedIn(k)')
  <2>1. IsFiniteSet(InvokedIn(k)) /\ started[k] = Cardinality(InvokedIn(k))
    BY CallsAssumption, FS_Subset DEF InvokedIn, CountersCount
  <2>2. c \notin InvokedIn(k)
    BY <1>1 DEF InvokedIn, Invoked
  <2>3. CASE k = RunKey(x)
    <3>1. InvokedIn(k)' = InvokedIn(k) \cup {c}
      BY <1>1, <2>3 DEF InvokedIn, Invoked
    <3>2. started'[k] = started[k] + 1
      BY <1>1, <2>3 DEF TypeOK
    <3>. QED
      BY <2>1, <2>2, <3>1, <3>2, FS_AddElement
  <2>4. CASE k # RunKey(x)
    <3>1. InvokedIn(k)' = InvokedIn(k)
      BY <1>1, <2>4 DEF InvokedIn, Invoked
    <3>2. started'[k] = started[k]
      BY <1>1, <2>4 DEF TypeOK
    <3>. QED
      BY <2>1, <3>1, <3>2
  <2>. QED
    BY <2>3, <2>4
<1>. QED
  BY <1>1, <1>2

\* Recording a call moves the counter of its run, the calls recorded in it and the
\* records of it together; a refused record moves none of them.
LEMMA RecordingCounts ==
  ASSUME EvidenceInv, RecordsInv, CountersCount, CompletedCountsRecords,
         NEW c \in Calls, NEW f \in Frames, NEW e, NEW o, NEW caller \in Replies,
         pc[c] # "finished", pc' = [pc EXCEPT ![c] = "finished"],
         frame'[c] = f, \A d \in Calls \ {c} : frame'[d] = frame[d],
         Record(c, f, e, o, caller)
  PROVE  /\ \A k \in RunKeys : completed'[k] = Cardinality(RecordedIn(k)')
         /\ CompletedCountsRecords'
<1> DEFINE r0 == RunKey(f.context)
           Indices(k) == {i \in DOMAIN records : RecordRun(i) = k}
<1>1. /\ TypeOK /\ r0 \in RunKeys
      /\ pc'[c] = "finished" /\ \A d \in Calls \ {c} : pc'[d] = pc[d]
      /\ \A d \in Calls \ {c} : reply'[d] = reply[d]
  BY KeyTypes DEF EvidenceInv, TypeOK, Record, Frames
<1>2. \A i \in DOMAIN records : records[i].call \in Calls \ {c}
  BY <1>1, RecordsByEntry DEF RecordsInv
<1>3. \A k : c \notin RecordedIn(k) /\ IsFiniteSet(RecordedIn(k))
  BY CallsAssumption, FS_Subset DEF RecordedIn
<1>4. DOMAIN records = 1..Len(records) /\ Len(records) \in Nat /\ IsFiniteSet(DOMAIN records)
  BY <1>1, FS_Interval DEF TypeOK
<1>5. \A k : IsFiniteSet(Indices(k))
  BY <1>4, FS_Subset
<1>6. \A k \in RunKeys : /\ completed[k] = Cardinality(RecordedIn(k))
                         /\ completed[k] = Cardinality(Indices(k))
  BY DEF CountersCount, CompletedCountsRecords, RecordRun
<1>7. CASE /\ completed' = [completed EXCEPT ![r0] = @ + 1]
           /\ records' = Append(records, Entry(c, f, e, o, caller))
           /\ reply' = [reply EXCEPT ![c] = caller]
  <2>1. reply'[c] # "record_failed"
    BY <1>1, <1>7 DEF TypeOK, Replies
  <2>2. /\ DOMAIN records' = DOMAIN records \cup {Len(records) + 1}
        /\ Len(records) + 1 \notin DOMAIN records
        /\ records'[Len(records) + 1].call = c
        /\ \A i \in DOMAIN records : records'[i] = records[i]
    BY <1>1, <1>7 DEF TypeOK, Entry
  <2>3. ASSUME NEW k \in RunKeys
        PROVE  /\ completed'[k] = Cardinality(RecordedIn(k)')
               /\ completed'[k] = Cardinality(Indices(k)')
    <3>1. CASE k = r0
      <4>1. RecordedIn(k)' = RecordedIn(k) \cup {c}
        BY <1>1, <2>1, <3>1 DEF RecordedIn
      <4>2. Indices(k)' = Indices(k) \cup {Len(records) + 1}
        BY <1>2, <2>2, <3>1 DEF RecordRun
      <4>3. completed'[k] = completed[k] + 1
        BY <1>1, <1>7, <3>1 DEF TypeOK
      <4>4. Len(records) + 1 \notin Indices(k)
        BY <2>2
      <4>5. Cardinality(RecordedIn(k)') = Cardinality(RecordedIn(k)) + 1
        BY <1>3, <4>1, FS_AddElement
      <4>6. Cardinality(Indices(k)') = Cardinality(Indices(k)) + 1
        <5> DEFINE S == Indices(k)
                   n == Len(records) + 1
        <5>1. IsFiniteSet(S) /\ n \notin S /\ Indices(k)' = S \cup {n}
          BY <1>5, <4>2, <4>4
        <5> HIDE DEF S, n
        <5>2. Cardinality(S \cup {n}) = Cardinality(S) + 1
          BY <5>1, FS_AddElement
        <5>3. S = Indices(k)
          BY DEF S
        <5>. QED
          BY <5>1, <5>2, <5>3
      <4>. QED
        BY <1>6, <4>3, <4>5, <4>6
    <3>2. CASE k # r0
      <4>1. RecordedIn(k)' = RecordedIn(k)
        BY <1>1, <3>2 DEF RecordedIn
      <4>2. Indices(k)' = Indices(k)
        BY <1>2, <2>2, <3>2 DEF RecordRun
      <4>3. completed'[k] = completed[k]
        BY <1>1, <1>7, <3>2 DEF TypeOK
      <4>. QED
        BY <1>6, <4>1, <4>2, <4>3
    <3>. QED
      BY <3>1, <3>2
  <2>. QED
    BY <2>3 DEF CompletedCountsRecords, RecordRun
<1>8. CASE /\ reply' = [reply EXCEPT ![c] = "record_failed"]
           /\ UNCHANGED <<completed, records>>
  <2>1. \A k : RecordedIn(k)' = RecordedIn(k)
    BY <1>1, <1>8 DEF RecordedIn, TypeOK
  <2>2. \A k : Indices(k)' = Indices(k)
    BY <1>2, <1>8 DEF RecordRun
  <2>. QED
    BY <1>6, <1>8, <2>1, <2>2 DEF CompletedCountsRecords, RecordRun
<1>. QED
  BY <1>7, <1>8 DEF Record

\* The sequence number s can go to a call of run q that begins: no entry and no record of
\* the run has it.
IsFresh(q, s) ==
  /\ \A k \in DOMAIN startEvidence : KeyRun(k) = q => startEvidence[k].sequence # s
  /\ \A i \in DOMAIN records : RecordRun(i) = q => records[i].sequence # s

Sequenced == SequencesAreBounded /\ StartEvidenceIsOrdered /\ SequenceNumbersAreUnique

LEMMA KeyRunOfFrame ==
  ASSUME NEW f
  PROVE  KeyRun(EvidenceKey(f)) = RunKey(f.context)
BY DEF KeyRun, EvidenceKey, RunKey

\* Recording keeps the numbers in order when the entry is ordered, its number is in use by
\* nothing that stays, and nothing was added to the dictionary.
LEMMA RecordingKeepsSequenced ==
  ASSUME TypeOK, TypeOK', RecordsInv, Sequenced,
         NEW c \in Calls, NEW f \in Frames, NEW e \in Evidence, NEW o, NEW caller,
         frame'[c] = f, \A d \in Calls \ {c} : frame'[d] = frame[d],
         ~HasRecord(c),
         DOMAIN startEvidence' \subseteq DOMAIN startEvidence,
         \A k \in DOMAIN startEvidence' : startEvidence'[k] = startEvidence[k],
         \A k \in RunKeys : started[k] <= started'[k],
         e.completedBefore < e.sequence,
         e.sequence <= started'[RunKey(f.context)],
         \A k \in DOMAIN startEvidence' :
            KeyRun(k) = RunKey(f.context) => startEvidence[k].sequence # e.sequence,
         \A i \in DOMAIN records :
            RecordRun(i) = RunKey(f.context) => records[i].sequence # e.sequence,
         Record(c, f, e, o, caller)
  PROVE  Sequenced'
<1> DEFINE r == Entry(c, f, e, o, caller)
           n == Len(records) + 1
           RunAfter(i) == RunKey(frame'[records'[i].call].context)
<1>1. \A i \in DOMAIN records : /\ records[i] \in Records /\ records[i].call \in Calls \ {c}
                                /\ RunKey(frame'[records[i].call].context) = RecordRun(i)
                                /\ RecordRun(i) \in RunKeys
  <2>1. \A i \in DOMAIN records : records[i] \in Records /\ records[i].call \in Calls \ {c}
    BY RecordsByEntry DEF HasRecord
  <2>2. \A i \in DOMAIN records : Invoked(records[i].call)
    BY DEF RecordsInv, RecordsTellTheTruth, Invoked
  <2>3. \A i \in DOMAIN records : RecordRun(i) \in RunKeys
    BY <2>1, <2>2, KeyTypes DEF TypeOK, RecordRun, Frames
  <2>. QED
    BY <2>1, <2>3 DEF RecordRun
<1>2. \A k \in DOMAIN startEvidence :
        startEvidence[k] \in Evidence /\ KeyRun(k) \in RunKeys
  BY DEF TypeOK, KeyRun, RunKeys
<1>3. /\ \A k \in RunKeys : started[k] \in Nat /\ started'[k] \in Nat
      /\ RunKey(f.context) \in RunKeys
  BY KeyTypes DEF TypeOK, Frames
<1>4. /\ \A k \in DOMAIN startEvidence : startEvidence[k].sequence <= started[KeyRun(k)]
      /\ \A i \in DOMAIN records : records[i].sequence <= started[RecordRun(i)]
  BY DEF Sequenced, SequencesAreBounded
<1>5. /\ \A k \in DOMAIN startEvidence' : startEvidence'[k].sequence <= started'[KeyRun(k)]
      /\ \A i \in DOMAIN records : records[i].sequence <= started'[RecordRun(i)]
  BY <1>1, <1>2, <1>3, <1>4 DEF Evidence, Records
<1>6. CASE records' = Append(records, r)
  <2>1. /\ DOMAIN records' = DOMAIN records \cup {n} /\ n \notin DOMAIN records
        /\ records'[n] = r /\ \A i \in DOMAIN records : records'[i] = records[i]
    BY <1>6 DEF TypeOK
  <2>2. /\ r.call = c /\ r.sequence = e.sequence /\ r.completedBefore = e.completedBefore
    BY DEF Entry
  <2>3. /\ RunAfter(n) = RunKey(f.context)
        /\ \A i \in DOMAIN records : RunAfter(i) = RecordRun(i)
    BY <1>1, <2>1, <2>2 DEF RecordRun
  <2>4. SequencesAreBounded'
    <3>1. ASSUME NEW i \in DOMAIN records' PROVE records'[i].sequence <= started'[RunAfter(i)]
      BY <1>5, <2>1, <2>2, <2>3, <3>1
    <3>. QED
      BY <1>5, <3>1 DEF SequencesAreBounded, KeyRun, RecordRun
  <2>5. StartEvidenceIsOrdered'
    BY <2>1, <2>2 DEF Sequenced, StartEvidenceIsOrdered
  <2>6. SequenceNumbersAreUnique'
    <3>1. ASSUME NEW i \in DOMAIN records', NEW j \in DOMAIN records',
                 RunAfter(i) = RunAfter(j), records'[i].sequence = records'[j].sequence
          PROVE  i = j
      <4>1. CASE i # n /\ j # n
        BY <2>1, <2>3, <3>1, <4>1 DEF Sequenced, SequenceNumbersAreUnique, RecordRun
      <4>2. CASE i = n \/ j = n
        BY <2>1, <2>2, <2>3, <3>1, <4>2
      <4>. QED
        BY <4>1, <4>2
    <3>2. ASSUME NEW i \in DOMAIN records', NEW k \in DOMAIN startEvidence',
                 RunAfter(i) = KeyRun(k)
          PROVE  records'[i].sequence # startEvidence'[k].sequence
      <4>1. CASE i # n
        BY <2>1, <2>3, <3>2, <4>1 DEF Sequenced, SequenceNumbersAreUnique, RecordRun, KeyRun
      <4>2. CASE i = n
        BY <2>1, <2>2, <2>3, <3>2, <4>2
      <4>. QED
        BY <4>1, <4>2
    <3>3. \A k, l \in DOMAIN startEvidence' :
            KeyRun(k) = KeyRun(l) /\ startEvidence'[k].sequence = startEvidence'[l].sequence
            => k = l
      BY DEF Sequenced, SequenceNumbersAreUnique, KeyRun
    <3>. QED
      BY <3>1, <3>2, <3>3 DEF SequenceNumbersAreUnique, RecordRun, KeyRun
  <2>. QED
    BY <2>4, <2>5, <2>6 DEF Sequenced
<1>7. CASE UNCHANGED records
  <2>1. \A i \in DOMAIN records : RunAfter(i) = RecordRun(i)
    BY <1>1, <1>7 DEF RecordRun
  <2>2. SequencesAreBounded'
    BY <1>1, <1>5, <1>7 DEF SequencesAreBounded, KeyRun, RecordRun
  <2>3. StartEvidenceIsOrdered'
    BY <1>7 DEF Sequenced, StartEvidenceIsOrdered
  <2>4. SequenceNumbersAreUnique'
    BY <1>7, <2>1 DEF Sequenced, SequenceNumbersAreUnique, RecordRun
  <2>. QED
    BY <2>2, <2>3, <2>4 DEF Sequenced
<1>. QED
  BY <1>6, <1>7 DEF Record

\* A new entry carries a number no other has.
LEMMA NewEvidenceIsFresh ==
  ASSUME EvidenceInv, OrderInv, NEW x \in Contexts
  PROVE  /\ NewEvidence(x) \in Evidence
         /\ NewEvidence(x).completedBefore < NewEvidence(x).sequence
         /\ NewEvidence(x).sequence = started[RunKey(x)] + 1
         /\ IsFresh(RunKey(x), NewEvidence(x).sequence)
<1>1. TypeOK /\ RunKey(x) \in RunKeys /\ started[RunKey(x)] \in Nat /\ completed[RunKey(x)] \in Nat
  BY KeyTypes DEF EvidenceInv, TypeOK
<1>2. completed[RunKey(x)] <= started[RunKey(x)]
  BY <1>1, CompletedWithinStarted DEF OrderInv
<1>3. /\ \A k \in DOMAIN startEvidence : startEvidence[k].sequence \in Nat
      /\ \A i \in DOMAIN records : records[i].sequence \in Nat
  BY <1>1, RecordsByEntry DEF TypeOK, Evidence, Records
<1>4. IsFresh(RunKey(x), started[RunKey(x)] + 1)
  BY <1>1, <1>3 DEF OrderInv, SequencesAreBounded, IsFresh
<1>. QED
  BY <1>1, <1>2, <1>4 DEF NewEvidence, Evidence

\* A call that begins and suspends adds one entry.
LEMMA RememberingKeepsSequenced ==
  ASSUME TypeOK, TypeOK', RecordsInv, Sequenced,
         NEW c \in Calls, NEW f \in Frames, NEW e \in Evidence,
         \A d \in Calls \ {c} : frame'[d] = frame[d],
         ~HasRecord(c),
         \A k \in RunKeys : started[k] <= started'[k],
         e.completedBefore < e.sequence,
         e.sequence <= started'[RunKey(f.context)],
         IsFresh(RunKey(f.context), e.sequence),
         EvidenceKey(f) \notin DOMAIN startEvidence,
         RememberStart(f, e), UNCHANGED records
  PROVE  Sequenced'
<1> DEFINE k0 == EvidenceKey(f)
<1>1. \A i \in DOMAIN records : /\ records[i] \in Records
                                /\ RunKey(frame'[records[i].call].context) = RecordRun(i)
                                /\ RecordRun(i) \in RunKeys
  <2>1. \A i \in DOMAIN records : records[i] \in Records /\ records[i].call \in Calls \ {c}
    BY RecordsByEntry DEF HasRecord
  <2>2. \A i \in DOMAIN records : Invoked(records[i].call)
    BY DEF RecordsInv, RecordsTellTheTruth, Invoked
  <2>3. \A i \in DOMAIN records : RecordRun(i) \in RunKeys
    BY <2>1, <2>2, KeyTypes DEF TypeOK, RecordRun, Frames
  <2>. QED
    BY <2>1, <2>3 DEF RecordRun
<1>2. \A k \in DOMAIN startEvidence : startEvidence[k] \in Evidence /\ KeyRun(k) \in RunKeys
  BY DEF TypeOK, KeyRun, RunKeys
<1>3. \A k \in RunKeys : started[k] \in Nat /\ started'[k] \in Nat
  BY DEF TypeOK
<1>4. /\ DOMAIN startEvidence' = DOMAIN startEvidence \cup {k0}
      /\ startEvidence'[k0] = e
      /\ \A k \in DOMAIN startEvidence : startEvidence'[k] = startEvidence[k]
      /\ KeyRun(k0) = RunKey(f.context)
  BY KeyRunOfFrame DEF RememberStart
<1>5. SequencesAreBounded'
  <2>1. ASSUME NEW k \in DOMAIN startEvidence'
        PROVE  startEvidence'[k].sequence <= started'[KeyRun(k)]
    <3>1. CASE k = k0
      BY <1>4, <3>1
    <3>2. CASE k # k0
      BY <1>2, <1>3, <1>4, <3>2 DEF Sequenced, SequencesAreBounded, Evidence
    <3>. QED
      BY <3>1, <3>2
  <2>2. ASSUME NEW i \in DOMAIN records
        PROVE  records[i].sequence <= started'[RunKey(frame'[records[i].call].context)]
    BY <1>1, <1>3 DEF Sequenced, SequencesAreBounded, Records
  <2>. QED
    BY <2>1, <2>2 DEF SequencesAreBounded, RecordRun, KeyRun
<1>6. StartEvidenceIsOrdered'
  BY <1>4 DEF Sequenced, StartEvidenceIsOrdered
<1>7. SequenceNumbersAreUnique'
  <2>1. ASSUME NEW k \in DOMAIN startEvidence', NEW l \in DOMAIN startEvidence',
               KeyRun(k) = KeyRun(l), startEvidence'[k].sequence = startEvidence'[l].sequence
        PROVE  k = l
    BY <1>4, <2>1 DEF Sequenced, SequenceNumbersAreUnique, IsFresh, KeyRun
  <2>2. ASSUME NEW i \in DOMAIN records, NEW k \in DOMAIN startEvidence',
               RecordRun(i) = KeyRun(k)
        PROVE  records[i].sequence # startEvidence'[k].sequence
    BY <1>4, <2>2 DEF Sequenced, SequenceNumbersAreUnique, IsFresh, KeyRun, RecordRun
  <2>3. ASSUME NEW i \in DOMAIN records, NEW j \in DOMAIN records,
               RecordRun(i) = RecordRun(j), records[i].sequence = records[j].sequence
        PROVE  i = j
    BY <2>3 DEF Sequenced, SequenceNumbersAreUnique, RecordRun
  <2>. QED
    BY <1>1, <2>1, <2>2, <2>3 DEF SequenceNumbersAreUnique, RecordRun, KeyRun
<1>. QED
  BY <1>5, <1>6, <1>7 DEF Sequenced

LEMMA InvokeKeepsOrderInv ==
  ASSUME EvidenceInv, EvidenceInv', RecordsInv, RecordsInv', OrderInv,
         NEW c \in Calls, NEW x \in Contexts, NEW t \in Tools, Invoke(c, x, t)
  PROVE  OrderInv'
<1> DEFINE f == NewFrame(x, t)
           e == NewEvidence(x)
<1>1. /\ TypeOK /\ TypeOK' /\ pc[c] = "idle" /\ RunKey(x) \in RunKeys
      /\ started[RunKey(x)] \in Nat /\ NextInvocationNumber(c, x, t)
      /\ CountersCount /\ CompletedCountsRecords /\ Sequenced
  BY KeyTypes DEF EvidenceInv, Invoke, OrderInv, Sequenced, TypeOK
<1>2. f \in Frames /\ e \in Evidence /\ f.context = x
  BY <1>1, NewFrameType
<1>3. frame'[c] = f /\ \A d \in Calls \ {c} : frame'[d] = frame[d]
  BY <1>1 DEF NextInvocationNumber, TypeOK
<1>4. ~HasRecord(c)
  BY <1>1 DEF RecordsInv, SettledCallsHaveOneRecord
<1>5. /\ started' = [started EXCEPT ![RunKey(x)] = @ + 1]
      /\ \A k \in RunKeys : started'[k] = Cardinality(InvokedIn(k)')
  BY <1>1, InvokingCounts
<1>6. /\ started'[RunKey(x)] = started[RunKey(x)] + 1
      /\ \A k \in RunKeys : started[k] <= started'[k]
  BY <1>1, <1>5 DEF TypeOK
<1>7. /\ e.completedBefore < e.sequence /\ e.sequence <= started'[RunKey(x)]
      /\ IsFresh(RunKey(x), e.sequence)
  BY <1>1, <1>6, NewEvidenceIsFresh
<1>8. CASE InvokeRejected(c, x, t)
  <2>1. /\ pc[c] # "finished" /\ pc' = [pc EXCEPT ![c] = "finished"]
        /\ UNCHANGED startEvidence
        /\ Record(c, f, e, Refused(f.rule), "injected")
    BY <1>1, <1>8 DEF InvokeRejected
  <2>2. "injected" \in Replies
    BY DEF Replies
  <2>3. (\A k \in RunKeys : completed'[k] = Cardinality(RecordedIn(k)')) /\ CompletedCountsRecords'
    BY <1>1, <1>2, <1>3, <2>1, <2>2, RecordingCounts
  <2>4. Sequenced'
    BY <1>1, <1>2, <1>3, <1>4, <1>6, <1>7, <2>1, RecordingKeepsSequenced DEF IsFresh
  <2>. QED
    BY <1>5, <2>3, <2>4 DEF OrderInv, CountersCount, Sequenced
<1>9. CASE InvokeDelayed(c, x, t) \/ InvokeOperation(c, x, t)
  <2>1. /\ RememberStart(f, e) /\ UNCHANGED <<completed, records, reply>>
        /\ pc'[c] # "finished" /\ \A d \in Calls \ {c} : pc'[d] = pc[d]
    BY <1>1, <1>9 DEF InvokeDelayed, InvokeOperation, TypeOK
  <2>2. \A k \in RunKeys : RecordedIn(k)' = RecordedIn(k)
    BY <1>1, <1>3, <2>1 DEF RecordedIn
  <2>3. \A i \in DOMAIN records : RecordRun(i)' = RecordRun(i)
    BY <1>1, <1>3, <1>4, <2>1, RecordsByEntry DEF RecordRun, HasRecord
  <2>4. CompletedCountsRecords'
    BY <1>1, <2>1, <2>3 DEF CompletedCountsRecords, RecordRun
  <2>5. EvidenceKey(f) \notin DOMAIN startEvidence
    <3>1. ASSUME NEW d \in Calls, Invoked(d) PROVE EvidenceKey(frame[d]) # EvidenceKey(f)
      <4>0. invocationCounts[ToolKey(x, t)] \in Nat
        BY <1>1, KeyTypes DEF TypeOK
      <4>1. f.number = invocationCounts[ToolKey(x, t)] + 1 /\ f.tool = t
        BY <1>1, NewFrameType
      <4>2. frame[d].number \in 1..invocationCounts[ToolKey(frame[d].context, frame[d].tool)]
        BY <3>1 DEF EvidenceInv, NumbersAreBounded
      <4>3. EvidenceKey(frame[d]) = EvidenceKey(f) =>
              /\ ToolKey(frame[d].context, frame[d].tool) = ToolKey(x, t)
              /\ frame[d].number = f.number
        BY <1>2, <4>1 DEF EvidenceKey, ToolKey
      <4>. QED
        BY <4>0, <4>1, <4>2, <4>3
    <3>2. \A d \in Pending : d \in Calls /\ Invoked(d)
      BY DEF Pending, Invoked, Suspended
    <3>. QED
      BY <3>1, <3>2 DEF EvidenceInv, EvidenceDomain
  <2>6. Sequenced'
    BY <1>1, <1>2, <1>3, <1>4, <1>6, <1>7, <2>1, <2>5, RememberingKeepsSequenced
  <2>7. CountersCount'
    BY <1>1, <1>5, <2>1, <2>2 DEF CountersCount
  <2>. QED
    BY <2>4, <2>6, <2>7 DEF OrderInv, Sequenced
<1>. QED
  BY <1>8, <1>9 DEF Invoke

LEMMA SettleKeepsOrderInv ==
  ASSUME EvidenceInv, EvidenceInv', RecordsInv, RecordsInv', OrderInv,
         NEW c \in Calls, pc[c] \in Suspended,
         NEW o \in Outcomes, NEW caller \in Replies, Settle(c, o, caller)
  PROVE  OrderInv'
<1> DEFINE f == frame[c]
           k0 == EvidenceKey(f)
           e == startEvidence[k0]
<1>1. /\ TypeOK /\ TypeOK' /\ c \in Pending /\ pc[c] # "finished"
      /\ CountersCount /\ CompletedCountsRecords /\ Sequenced
      /\ frame' = frame /\ started' = started /\ pc' = [pc EXCEPT ![c] = "finished"]
      /\ Record(c, f, e, o, caller)
  BY DEF EvidenceInv, OrderInv, Sequenced, Settle, counterVars, Pending, Suspended
<1>2. f \in Frames /\ k0 \in DOMAIN startEvidence /\ e \in Evidence
      /\ KeyRun(k0) = RunKey(f.context)
  BY <1>1, EvidenceEntry, KeyRunOfFrame
<1>3. ~HasRecord(c)
  BY <1>1 DEF RecordsInv, SettledCallsHaveOneRecord
<1>4. /\ DOMAIN startEvidence' = DOMAIN startEvidence \ {k0}
      /\ \A k \in DOMAIN startEvidence' : startEvidence'[k] = startEvidence[k]
  BY DEF Settle, ForgetStart
<1>5. \A k \in RunKeys : started[k] <= started'[k]
  BY <1>1 DEF TypeOK
<1>6. /\ e.completedBefore < e.sequence
      /\ e.sequence <= started'[RunKey(f.context)]
      /\ \A k \in DOMAIN startEvidence' :
            KeyRun(k) = RunKey(f.context) => startEvidence[k].sequence # e.sequence
      /\ \A i \in DOMAIN records :
            RecordRun(i) = RunKey(f.context) => records[i].sequence # e.sequence
  BY <1>1, <1>2, <1>4 DEF Sequenced, SequencesAreBounded, StartEvidenceIsOrdered,
                          SequenceNumbersAreUnique, KeyRun, RecordRun
<1>7. Sequenced'
  BY <1>1, <1>2, <1>3, <1>4, <1>5, <1>6, RecordingKeepsSequenced
<1>8. (\A k \in RunKeys : completed'[k] = Cardinality(RecordedIn(k)')) /\ CompletedCountsRecords'
  BY <1>1, <1>2, RecordingCounts
<1>9. \A k : InvokedIn(k)' = InvokedIn(k)
  BY <1>1 DEF InvokedIn, Invoked, TypeOK, Suspended
<1>. QED
  BY <1>1, <1>7, <1>8, <1>9 DEF OrderInv, CountersCount, Sequenced

LEMMA QuietStepsKeepOrderInv ==
  ASSUME EvidenceInv, EvidenceInv', RecordsInv, OrderInv, NEW c \in Calls,
         WakeUp(c) \/ TakeEffect(c) \/ Redeliver(c) \/ Cancel(c)
  PROVE  OrderInv'
<1>1. /\ UNCHANGED <<started, completed, startEvidence, records, frame>>
      /\ pc[c] \in Suspended /\ pc'[c] \in Suspended \cup {"cancelled"}
      /\ \A d \in Calls \ {c} : pc'[d] = pc[d] /\ reply'[d] = reply[d]
  BY DEF EvidenceInv, WakeUp, TakeEffect, Redeliver, Cancel, TypeOK, Suspended, counterVars
<1>2. \A k : InvokedIn(k)' = InvokedIn(k) /\ RecordedIn(k)' = RecordedIn(k)
  BY <1>1 DEF InvokedIn, RecordedIn, Invoked, Suspended
<1>. QED
  BY <1>1, <1>2 DEF OrderInv, CountersCount, CompletedCountsRecords, SequencesAreBounded,
                    StartEvidenceIsOrdered, SequenceNumbersAreUnique, RecordRun, KeyRun

LEMMA InitOrderInv == Init => OrderInv
<1> SUFFICES ASSUME Init PROVE OrderInv
  OBVIOUS
<1>1. /\ DOMAIN records = {} /\ DOMAIN startEvidence = {}
      /\ \A c \in Calls : pc[c] = "idle"
      /\ \A k \in RunKeys : started[k] = 0 /\ completed[k] = 0
  BY DEF Init
<1>2. \A k : InvokedIn(k) = {} /\ RecordedIn(k) = {}
  BY <1>1 DEF InvokedIn, RecordedIn, Invoked
<1>3. \A k : {i \in DOMAIN records : RecordRun(i) = k} = {}
  BY <1>1
<1>. QED
  BY <1>1, <1>2, <1>3, FS_EmptySet
  DEF OrderInv, CountersCount, CompletedCountsRecords, SequencesAreBounded,
      StartEvidenceIsOrdered, SequenceNumbersAreUnique, RecordRun

LEMMA NextOrderInv ==
  ASSUME EvidenceInv, EvidenceInv', RecordsInv, RecordsInv', OrderInv, [Next]_vars
  PROVE  OrderInv'
<1>1. CASE UNCHANGED vars
  BY <1>1 DEF vars, OrderInv, CountersCount, CompletedCountsRecords, SequencesAreBounded,
              StartEvidenceIsOrdered, SequenceNumbersAreUnique, RecordRun, KeyRun, InvokedIn,
              RecordedIn, Invoked
<1>2. ASSUME NEW c \in Calls, NEW x \in Contexts, NEW t \in Tools, Invoke(c, x, t)
      PROVE  OrderInv'
  BY <1>2, InvokeKeepsOrderInv
<1>3. ASSUME NEW c \in Calls, OperationReturns(c) \/ OperationRaises(c) \/ RedeliveryEnds(c)
      PROVE  OrderInv'
  <2> DEFINE r == frame[c].rule
  <2>1. pc[c] \in Suspended
    BY <1>3 DEF OperationReturns, OperationRaises, RedeliveryEnds, Suspended
  <2>2. r \in FaultRules \cup {NoRule}
    BY <2>1 DEF EvidenceInv, TypeOK, Invoked, Suspended, Frames
  <2>3. /\ Failed(r) \in Outcomes /\ Succeeded(r) \in Outcomes
        /\ DeliveredTwice(r) \in Outcomes /\ CallerSees(r) \in Replies
        /\ "error" \in Replies /\ "result" \in Replies
    BY <2>2, OutcomeTypes, CallerSeesType DEF Replies
  <2>4. \/ Settle(c, Succeeded(r), CallerSees(r))
        \/ Settle(c, Failed(r), "error")
        \/ Settle(c, DeliveredTwice(r), "result")
    BY <1>3 DEF OperationReturns, OperationRaises, RedeliveryEnds
  <2>. QED
    BY <2>1, <2>3, <2>4, SettleKeepsOrderInv
<1>4. ASSUME NEW c \in Calls, WakeUp(c) \/ TakeEffect(c) \/ Redeliver(c) \/ Cancel(c)
      PROVE  OrderInv'
  BY <1>4, QuietStepsKeepOrderInv
<1>. QED
  BY <1>1, <1>2, <1>3, <1>4 DEF Next

LEMMA OrderInvariant == Spec => []OrderInv
<1>1. Init => EvidenceInv /\ RecordsInv /\ OrderInv
  BY InitEvidenceInv, InitRecordsInv, InitOrderInv
<1>2. EvidenceInv /\ RecordsInv /\ OrderInv /\ [Next]_vars
      => (EvidenceInv /\ RecordsInv /\ OrderInv)'
  BY NextEvidenceInv, NextRecordsInv, NextOrderInv
<1>. QED
  BY <1>1, <1>2, PTL DEF Spec

\* The count of completed calls that a call carries is below its sequence number, so the
\* check that ToolInvocation makes of the two never refuses a record.
THEOREM OrderedStartEvidence == Spec => []StartEvidenceIsOrdered
<1>1. OrderInv => StartEvidenceIsOrdered
  BY DEF OrderInv
<1>. QED
  BY <1>1, OrderInvariant, PTL

-----------------------------------------------------------------------------
\* The validator of the records.

\* A suspended call met no rule that rejects it, and only a duplicate rule delivers twice.
RulesFitControl ==
  \A c \in Calls :
    /\ pc[c] \in Suspended => TypeOf(frame[c].rule) \notin RejectingFaults
    /\ pc[c] = "redelivering" => TypeOf(frame[c].rule) = "duplicate_request"

ConsistencyInv == RulesFitControl /\ \A i \in DOMAIN records : IsConsistent(records[i])

\* Each way a call can end makes a consistent record of it.
LEMMA ConsistentEntries ==
  ASSUME NEW c \in Calls, NEW f \in Frames, NEW e \in Evidence
  PROVE  /\ TypeOf(f.rule) \in RejectingFaults =>
              IsConsistent(Entry(c, f, e, Refused(f.rule), "injected"))
         /\ TypeOf(f.rule) \notin RejectingFaults =>
              IsConsistent(Entry(c, f, e, Failed(f.rule), "error"))
         /\ TypeOf(f.rule) \notin RejectingFaults \cup {"duplicate_request"} =>
              IsConsistent(Entry(c, f, e, Succeeded(f.rule), CallerSees(f.rule)))
         /\ TypeOf(f.rule) = "duplicate_request" =>
              IsConsistent(Entry(c, f, e, DeliveredTwice(f.rule), "result"))
<1>1. ASSUME TypeOf(f.rule) \in RejectingFaults
      PROVE  IsConsistent(Entry(c, f, e, Refused(f.rule), "injected"))
  BY <1>1 DEF IsConsistent, Entry, Refused, Outcome, TypeOf, RejectingFaults
<1>2. ASSUME TypeOf(f.rule) \notin RejectingFaults
      PROVE  IsConsistent(Entry(c, f, e, Failed(f.rule), "error"))
  BY <1>2 DEF IsConsistent, Entry, Failed, Outcome, TypeOf, RejectingFaults
<1>3. ASSUME TypeOf(f.rule) \notin RejectingFaults \cup {"duplicate_request"}
      PROVE  IsConsistent(Entry(c, f, e, Succeeded(f.rule), CallerSees(f.rule)))
  BY <1>3 DEF IsConsistent, Entry, Succeeded, Outcome, CallerSees, TypeOf, RejectingFaults
<1>4. ASSUME TypeOf(f.rule) = "duplicate_request"
      PROVE  IsConsistent(Entry(c, f, e, DeliveredTwice(f.rule), "result"))
  BY <1>4 DEF IsConsistent, Entry, DeliveredTwice, Outcome, TypeOf, RejectingFaults
<1>. QED
  BY <1>1, <1>2, <1>3, <1>4

LEMMA RecordingKeepsConsistency ==
  ASSUME TypeOK, \A i \in DOMAIN records : IsConsistent(records[i]),
         NEW c \in Calls, NEW f, NEW e, NEW o, NEW caller,
         Record(c, f, e, o, caller), IsConsistent(Entry(c, f, e, o, caller))
  PROVE  \A i \in DOMAIN records' : IsConsistent(records'[i])
<1>1. CASE records' = Append(records, Entry(c, f, e, o, caller))
  <2>1. records \in Seq(Records)
    BY DEF TypeOK
  <2>2. \A i \in DOMAIN records' :
          \/ i \in DOMAIN records /\ records'[i] = records[i]
          \/ records'[i] = Entry(c, f, e, o, caller)
    BY <1>1, <2>1
  <2>. QED
    BY <2>2
<1>2. CASE UNCHANGED records
  BY <1>2
<1>. QED
  BY <1>1, <1>2 DEF Record

LEMMA InvokeKeepsConsistency ==
  ASSUME TypeOK, ConsistencyInv,
         NEW c \in Calls, NEW x \in Contexts, NEW t \in Tools, Invoke(c, x, t)
  PROVE  ConsistencyInv'
<1> DEFINE f == NewFrame(x, t)
<1>1. f \in Frames /\ NewEvidence(x) \in Evidence
  BY NewFrameType
<1>2. frame'[c] = f /\ \A d \in Calls \ {c} : frame'[d] = frame[d]
  BY DEF Invoke, NextInvocationNumber, TypeOK
<1>3. /\ \A d \in Calls \ {c} : pc'[d] = pc[d]
      /\ pc'[c] # "redelivering"
      /\ pc'[c] \in Suspended => TypeOf(f.rule) \notin RejectingFaults
  BY DEF Invoke, InvokeRejected, InvokeDelayed, InvokeOperation, TypeOK, Suspended,
         RejectingFaults, AfterCallFaults
<1>4. RulesFitControl'
  <2>1. \A d \in Calls \ {c} :
          /\ pc'[d] \in Suspended => TypeOf(frame'[d].rule) \notin RejectingFaults
          /\ pc'[d] = "redelivering" => TypeOf(frame'[d].rule) = "duplicate_request"
    BY <1>2, <1>3 DEF ConsistencyInv, RulesFitControl
  <2>. QED
    BY <1>2, <1>3, <2>1 DEF RulesFitControl
<1>5. (\A i \in DOMAIN records : IsConsistent(records[i]))'
  <2>1. CASE InvokeRejected(c, x, t)
    BY <1>1, <2>1, ConsistentEntries, RecordingKeepsConsistency
    DEF InvokeRejected, ConsistencyInv
  <2>2. CASE InvokeDelayed(c, x, t) \/ InvokeOperation(c, x, t)
    BY <2>2 DEF InvokeDelayed, InvokeOperation, ConsistencyInv
  <2>. QED
    BY <2>1, <2>2 DEF Invoke
<1>. QED
  BY <1>4, <1>5 DEF ConsistencyInv

LEMMA SettlingStepsKeepConsistency ==
  ASSUME EvidenceInv, ConsistencyInv, NEW c \in Calls,
         OperationReturns(c) \/ OperationRaises(c) \/ RedeliveryEnds(c)
  PROVE  ConsistencyInv'
<1> DEFINE f == frame[c]
           e == startEvidence[EvidenceKey(f)]
<1>1. TypeOK /\ c \in Pending /\ f \in Frames /\ e \in Evidence
  <2>1. TypeOK /\ c \in Pending
    BY DEF EvidenceInv, OperationReturns, OperationRaises, RedeliveryEnds, Pending, Suspended
  <2>. QED
    BY <2>1, EvidenceEntry
<1>2. /\ TypeOf(f.rule) \notin RejectingFaults
      /\ pc[c] = "redelivering" => TypeOf(f.rule) = "duplicate_request"
  BY DEF ConsistencyInv, RulesFitControl, OperationReturns, OperationRaises, RedeliveryEnds,
         Suspended
<1>3. frame' = frame /\ pc' = [pc EXCEPT ![c] = "finished"]
  BY DEF OperationReturns, OperationRaises, RedeliveryEnds, Settle
<1>4. RulesFitControl'
  BY <1>1, <1>3 DEF ConsistencyInv, RulesFitControl, TypeOK, Suspended
<1>5. ASSUME NEW o, NEW caller, Settle(c, o, caller), IsConsistent(Entry(c, f, e, o, caller))
      PROVE  (\A i \in DOMAIN records : IsConsistent(records[i]))'
  BY <1>1, <1>5, RecordingKeepsConsistency DEF Settle, ConsistencyInv
<1>6. (\A i \in DOMAIN records : IsConsistent(records[i]))'
  <2>1. CASE OperationReturns(c)
    BY <1>1, <1>2, <1>5, <2>1, ConsistentEntries DEF OperationReturns
  <2>2. CASE OperationRaises(c)
    BY <1>1, <1>2, <1>5, <2>2, ConsistentEntries DEF OperationRaises
  <2>3. CASE RedeliveryEnds(c)
    BY <1>1, <1>2, <1>5, <2>3, ConsistentEntries DEF RedeliveryEnds
  <2>. QED
    BY <2>1, <2>2, <2>3
<1>. QED
  BY <1>4, <1>6 DEF ConsistencyInv

LEMMA QuietStepsKeepConsistency ==
  ASSUME TypeOK, ConsistencyInv, NEW c \in Calls,
         WakeUp(c) \/ TakeEffect(c) \/ Redeliver(c) \/ Cancel(c)
  PROVE  ConsistencyInv'
<1>1. UNCHANGED <<records, frame>> /\ \A d \in Calls \ {c} : pc'[d] = pc[d]
  BY DEF WakeUp, TakeEffect, Redeliver, Cancel, TypeOK
<1>2. /\ pc[c] \in Suspended
      /\ pc'[c] = "redelivering" =>
           pc[c] = "redelivering" \/ TypeOf(frame[c].rule) = "duplicate_request"
  BY DEF WakeUp, TakeEffect, Redeliver, Cancel, TypeOK, Suspended
<1>3. RulesFitControl'
  BY <1>1, <1>2 DEF ConsistencyInv, RulesFitControl
<1>. QED
  BY <1>1, <1>3 DEF ConsistencyInv

LEMMA ConsistencyInvariant == Spec => []ConsistencyInv
<1>1. Init => EvidenceInv /\ ConsistencyInv
  <2>1. Init => ConsistencyInv
    BY DEF Init, ConsistencyInv, RulesFitControl, Suspended
  <2>. QED
    BY <2>1, InitEvidenceInv
<1>2. EvidenceInv /\ ConsistencyInv /\ [Next]_vars => (EvidenceInv /\ ConsistencyInv)'
  <2> SUFFICES ASSUME EvidenceInv, ConsistencyInv, [Next]_vars PROVE ConsistencyInv'
    BY NextEvidenceInv
  <2>1. TypeOK
    BY DEF EvidenceInv
  <2>2. CASE UNCHANGED vars
    BY <2>2 DEF vars, ConsistencyInv, RulesFitControl
  <2>3. ASSUME NEW c \in Calls, NEW x \in Contexts, NEW t \in Tools, Invoke(c, x, t)
        PROVE  ConsistencyInv'
    BY <2>1, <2>3, InvokeKeepsConsistency
  <2>4. ASSUME NEW c \in Calls, OperationReturns(c) \/ OperationRaises(c) \/ RedeliveryEnds(c)
        PROVE  ConsistencyInv'
    BY <2>4, SettlingStepsKeepConsistency
  <2>5. ASSUME NEW c \in Calls, WakeUp(c) \/ TakeEffect(c) \/ Redeliver(c) \/ Cancel(c)
        PROVE  ConsistencyInv'
    BY <2>1, <2>5, QuietStepsKeepConsistency
  <2>. QED
    BY <2>2, <2>3, <2>4, <2>5 DEF Next
<1>. QED
  BY <1>1, <1>2, PTL DEF Spec

\* Whatever the calls and the rules, and however calls overlap and end, the validator of
\* ToolInvocation has no reason but the wall clock to refuse a record.
THEOREM ValidRecords == Spec => []RecordsPassTheirValidator
<1>1. ConsistencyInv /\ StartEvidenceIsOrdered => RecordsPassTheirValidator
  BY DEF ConsistencyInv, StartEvidenceIsOrdered, RecordsPassTheirValidator
<1>. QED
  BY <1>1, ConsistencyInvariant, OrderedStartEvidence, PTL

\* A sequence number names one call of its run.
THEOREM UniqueSequenceNumbers == Spec => []SequenceNumbersAreUnique
<1>1. OrderInv => SequenceNumbersAreUnique
  BY DEF OrderInv
<1>. QED
  BY <1>1, OrderInvariant, PTL

\* The counter of completed calls of a run is the number of its records.
THEOREM CompletedIsTheNumberOfRecords == Spec => []CompletedCountsRecords
<1>1. OrderInv => CompletedCountsRecords
  BY DEF OrderInv
<1>. QED
  BY <1>1, OrderInvariant, PTL

\* The dictionary of start evidence holds one entry for each call that is suspended or was
\* cancelled, and nothing else.
THEOREM EvidenceOfPendingCalls == Spec => []EvidenceMatchesPendingCalls
<1>1. EvidenceInv => EvidenceMatchesPendingCalls
  <2> SUFFICES ASSUME EvidenceInv PROVE EvidenceMatchesPendingCalls
    OBVIOUS
  <2>1. DOMAIN startEvidence = {EvidenceKey(frame[c]) : c \in Pending}
    BY DEF EvidenceInv, EvidenceDomain
  <2>2. IsFiniteSet(Pending)
    BY CallsAssumption, FS_Subset DEF Pending
  <2> DEFINE K == {EvidenceKey(frame[c]) : c \in Pending}
             key == [c \in Pending |-> EvidenceKey(frame[c])]
  <2>3. key \in Bijection(Pending, K)
    <3>1. \A c, d \in Pending : key[c] = key[d] => c = d
      BY DEF EvidenceInv, KeysAreDistinct, Pending, Invoked, Suspended
    <3>2. key \in [Pending -> K] /\ \A k \in K : \E c \in Pending : key[c] = k
      OBVIOUS
    <3>. QED
      BY <3>1, <3>2 DEF Bijection, Injection, Surjection, IsInjective
  <2>4. Cardinality(K) = Cardinality(Pending)
    <3>1. ExistsBijection(Pending, K)
      BY <2>3 DEF ExistsBijection
    <3>. QED
      BY <2>2, <3>1, FS_Bijection
  <2>. QED
    BY <2>1, <2>4 DEF EvidenceMatchesPendingCalls, Pending
<1>. QED
  BY <1>1, EvidenceInvariant, PTL

-----------------------------------------------------------------------------
\* The numbers that fault rules wait for.

CallsOf(k) == {c \in Calls : Invoked(c) /\ ToolKey(frame[c].context, frame[c].tool) = k}

ToolCountersCount == \A k \in ToolKeys : invocationCounts[k] = Cardinality(CallsOf(k))

LEMMA NextToolCounters ==
  ASSUME EvidenceInv, EvidenceInv', ToolCountersCount, [Next]_vars
  PROVE  ToolCountersCount'
<1>1. CASE UNCHANGED vars
  BY <1>1 DEF vars, ToolCountersCount, CallsOf, Invoked
<1>2. ASSUME NEW c \in Calls, NEW x \in Contexts, NEW t \in Tools, Invoke(c, x, t)
      PROVE  ToolCountersCount'
  <2> DEFINE k0 == ToolKey(x, t)
  <2>1. /\ TypeOK /\ pc[c] = "idle" /\ pc'[c] # "idle"
        /\ \A d \in Calls \ {c} : pc'[d] = pc[d] /\ frame'[d] = frame[d]
        /\ frame'[c].context = x /\ frame'[c].tool = t
        /\ invocationCounts' = [invocationCounts EXCEPT ![k0] = @ + 1]
    BY <1>2 DEF EvidenceInv, TypeOK, Invoke, InvokeRejected, InvokeDelayed, InvokeOperation,
                NextInvocationNumber, NewFrame
  <2> SUFFICES ASSUME NEW k \in ToolKeys
               PROVE  invocationCounts'[k] = Cardinality(CallsOf(k)')
    BY DEF ToolCountersCount
  <2>2. /\ IsFiniteSet(CallsOf(k)) /\ c \notin CallsOf(k)
        /\ invocationCounts[k] = Cardinality(CallsOf(k))
    BY <2>1, CallsAssumption, FS_Subset DEF CallsOf, ToolCountersCount, Invoked
  <2>3. CASE k = k0
    <3>1. CallsOf(k)' = CallsOf(k) \cup {c} /\ invocationCounts'[k] = invocationCounts[k] + 1
      BY <2>1, <2>3 DEF CallsOf, Invoked, TypeOK
    <3>. QED
      BY <2>2, <3>1, FS_AddElement
  <2>4. CASE k # k0
    <3>1. CallsOf(k)' = CallsOf(k) /\ invocationCounts'[k] = invocationCounts[k]
      BY <2>1, <2>4 DEF CallsOf, Invoked, TypeOK
    <3>. QED
      BY <2>2, <3>1
  <2>. QED
    BY <2>3, <2>4
<1>3. ASSUME NEW c \in Calls, OperationReturns(c) \/ OperationRaises(c) \/ RedeliveryEnds(c)
      PROVE  ToolCountersCount'
  <2>1. /\ UNCHANGED <<invocationCounts, frame>> /\ pc[c] # "idle" /\ pc'[c] # "idle"
        /\ \A d \in Calls \ {c} : pc'[d] = pc[d]
    BY <1>3 DEF EvidenceInv, TypeOK, OperationReturns, OperationRaises, RedeliveryEnds, Settle,
                counterVars
  <2>2. \A k : CallsOf(k)' = CallsOf(k)
    BY <2>1 DEF CallsOf, Invoked
  <2>. QED
    BY <2>1, <2>2 DEF ToolCountersCount
<1>4. ASSUME NEW c \in Calls, WakeUp(c) \/ TakeEffect(c) \/ Redeliver(c) \/ Cancel(c)
      PROVE  ToolCountersCount'
  <2>1. /\ UNCHANGED <<invocationCounts, frame>> /\ pc[c] # "idle" /\ pc'[c] # "idle"
        /\ \A d \in Calls \ {c} : pc'[d] = pc[d]
    BY <1>4 DEF EvidenceInv, TypeOK, WakeUp, TakeEffect, Redeliver, Cancel, counterVars, Suspended
  <2>2. \A k : CallsOf(k)' = CallsOf(k)
    BY <2>1 DEF CallsOf, Invoked
  <2>. QED
    BY <2>1, <2>2 DEF ToolCountersCount
<1>. QED
  BY <1>1, <1>2, <1>3, <1>4 DEF Next

\* In every run the calls to a tool are numbered 1, 2, 3, ... without gap or repeat, so a
\* rule for the n-th invocation meets exactly one call once n of them have begun.
THEOREM DenseInvocationNumbers == Spec => []InvocationNumbersAreDense
<1>1. Init => EvidenceInv /\ ToolCountersCount
  <2> SUFFICES ASSUME Init PROVE ToolCountersCount
    BY InitEvidenceInv
  <2>1. \A k : CallsOf(k) = {}
    BY DEF CallsOf, Invoked, Init
  <2>. QED
    BY <2>1, FS_EmptySet DEF Init, ToolCountersCount
<1>2. EvidenceInv /\ ToolCountersCount /\ [Next]_vars => (EvidenceInv /\ ToolCountersCount)'
  BY NextEvidenceInv, NextToolCounters
<1>3. EvidenceInv /\ ToolCountersCount => InvocationNumbersAreDense
  <2> SUFFICES ASSUME EvidenceInv, ToolCountersCount, NEW c \in Calls, Invoked(c)
               PROVE  LET same == {d \in Peers(c) : frame[d].tool = frame[c].tool}
                      IN  {frame[d].number : d \in same} = 1..Cardinality(same)
    BY DEF InvocationNumbersAreDense
  <2> DEFINE k == ToolKey(frame[c].context, frame[c].tool)
             same == {d \in Peers(c) : frame[d].tool = frame[c].tool}
             n == invocationCounts[k]
             Numbers == {frame[d].number : d \in CallsOf(k)}
             number == [d \in CallsOf(k) |-> frame[d].number]
  <2>1. /\ TypeOK /\ k \in ToolKeys /\ n \in Nat
        /\ \A d \in Calls : Invoked(d) => frame[d] \in Frames
    BY KeyTypes DEF EvidenceInv, TypeOK, Frames
  <2>2. same = CallsOf(k)
    BY DEF Peers, CallsOf, RunKey, ToolKey
  <2>3. n = Cardinality(CallsOf(k)) /\ IsFiniteSet(CallsOf(k))
    BY <2>1, CallsAssumption, FS_Subset DEF ToolCountersCount, CallsOf
  <2>4. Numbers \subseteq 1..n
    BY DEF CallsOf, EvidenceInv, NumbersAreBounded
  <2>5. \A d, b \in CallsOf(k) : frame[d].number = frame[b].number => d = b
    BY DEF CallsOf, EvidenceInv, KeysAreDistinct, EvidenceKey, ToolKey
  <2>6. number \in Bijection(CallsOf(k), Numbers)
    BY <2>5 DEF Bijection, Injection, Surjection, IsInjective
  <2>7. Cardinality(Numbers) = n
    <3>1. ExistsBijection(CallsOf(k), Numbers)
      BY <2>6 DEF ExistsBijection
    <3>. QED
      BY <2>3, <3>1, FS_Bijection
  <2>8. IsFiniteSet(1..n) /\ Cardinality(1..n) = n
    BY <2>1, FS_Interval
  <2>9. Numbers = 1..n
    BY <2>4, <2>7, <2>8, FS_Subset
  <2>. QED
    BY <2>2, <2>3, <2>9
<1>. QED
  BY <1>1, <1>2, <1>3, PTL DEF Spec

-----------------------------------------------------------------------------
(***************************************************************************)
(* The executor implements CallOrder, for every number of calls, contexts, *)
(* tools and rules: comparing the position of a record with the count that *)
(* a call took when it began is the same as asking whether that record was *)
(* there when the call began.                                              *)
(*                                                                         *)
(* The count of a call never exceeds the number of records of its run, and *)
(* a record that is added comes after all of them: its position is greater *)
(* than every count that was taken before.                                 *)
(***************************************************************************)

\* ExperimentRunner derives run ids from experiment ids.  Without this the trace of a run
\* holds records of other experiments, which the counters do not count.
RunIdsIdentifyExperiments ==
  \A x, y \in Contexts : x.run = y.run => x.experiment = y.experiment

CountsArePast ==
  /\ \A k \in DOMAIN startEvidence : startEvidence[k].completedBefore <= completed[KeyRun(k)]
  /\ \A i \in DOMAIN records : records[i].completedBefore <= completed[RecordRun(i)]

RecordsNameTheirRun ==
  \A i \in DOMAIN records : records[i].run = frame[records[i].call].context.run

PastInv == RunIdsIdentifyExperiments /\ CountsArePast /\ RecordsNameTheirRun

\* All invariants of the executor that the order rests on.
AllInv == EvidenceInv /\ RecordsInv /\ OrderInv

\* What every step of a call c has in common: only c moves, at most its own record is
\* added, and no entry of the start evidence appears or changes but its own.
Adds(c, r) ==
  LET k == RunKey(frame'[c].context)
  IN  /\ ~HasRecord(c) /\ r.call = c /\ r.run = frame'[c].context.run
      /\ r.completedBefore \in Nat /\ r.completedBefore <= completed[k]
      /\ k \in RunKeys /\ completed' = [completed EXCEPT ![k] = @ + 1]
      /\ records' = Append(records, r)

Moves(c) ==
  /\ pc[c] # "finished" /\ pc'[c] # "idle"
  /\ \A d \in Calls \ {c} : pc'[d] = pc[d] /\ frame'[d] = frame[d]
  /\ \/ UNCHANGED <<completed, records>>
     \/ \E r : Adds(c, r)
  /\ \A k \in DOMAIN startEvidence' :
        \/ k \in DOMAIN startEvidence /\ startEvidence'[k] = startEvidence[k]
        \/ k = EvidenceKey(frame'[c]) /\ startEvidence'[k].completedBefore <= completed[KeyRun(k)]

-----------------------------------------------------------------------------
\* Every step is of this form.

LEMMA RecordAdds ==
  ASSUME TypeOK, NEW c \in Calls, NEW f \in Frames, NEW e \in Evidence, NEW o, NEW caller,
         ~HasRecord(c), frame'[c] = f, e.completedBefore <= completed[RunKey(f.context)],
         Record(c, f, e, o, caller)
  PROVE  UNCHANGED <<completed, records>> \/ \E r : Adds(c, r)
<1>1. CASE UNCHANGED <<completed, records>>
  BY <1>1
<1>2. CASE /\ completed' = [completed EXCEPT ![RunKey(f.context)] = @ + 1]
           /\ records' = Append(records, Entry(c, f, e, o, caller))
  <2>1. RunKey(f.context) \in RunKeys
    BY KeyTypes DEF Frames
  <2>2. Adds(c, Entry(c, f, e, o, caller))
    BY <1>2, <2>1 DEF Adds, Entry, Evidence
  <2>. QED
    BY <2>2
<1>. QED
  BY <1>1, <1>2 DEF Record

LEMMA InvokeMoves ==
  ASSUME AllInv, NEW c \in Calls, NEW x \in Contexts, NEW t \in Tools, Invoke(c, x, t)
  PROVE  Moves(c) /\ frame'[c] = NewFrame(x, t) /\ frame'[c].context = x
<1> DEFINE f == NewFrame(x, t)
           e == NewEvidence(x)
<1>1. /\ TypeOK /\ pc[c] = "idle" /\ RunKey(x) \in RunKeys /\ completed[RunKey(x)] \in Nat
      /\ NextInvocationNumber(c, x, t) /\ ~HasRecord(c)
  BY KeyTypes DEF AllInv, EvidenceInv, TypeOK, Invoke, RecordsInv, SettledCallsHaveOneRecord
<1>2. f \in Frames /\ e \in Evidence /\ f.context = x
  BY <1>1, NewFrameType
<1>3. frame'[c] = f /\ \A d \in Calls \ {c} : frame'[d] = frame[d]
  BY <1>1 DEF NextInvocationNumber, TypeOK
<1>4. e.completedBefore = completed[RunKey(x)] /\ KeyRun(EvidenceKey(f)) = RunKey(x)
  BY <1>2 DEF NewEvidence, KeyRun, EvidenceKey, RunKey
<1>5. pc'[c] # "idle" /\ \A d \in Calls \ {c} : pc'[d] = pc[d]
  BY <1>1 DEF Invoke, InvokeRejected, InvokeDelayed, InvokeOperation, TypeOK
<1>6. CASE InvokeRejected(c, x, t)
  <2>1. startEvidence' = startEvidence /\ Record(c, f, e, Refused(f.rule), "injected")
    BY <1>6 DEF InvokeRejected
  <2>2. UNCHANGED <<completed, records>> \/ \E r : Adds(c, r)
    BY <1>1, <1>2, <1>3, <1>4, <2>1, RecordAdds
  <2>. QED
    BY <1>1, <1>2, <1>3, <1>5, <2>1, <2>2 DEF Moves
<1>7. CASE InvokeDelayed(c, x, t) \/ InvokeOperation(c, x, t)
  <2>1. RememberStart(f, e) /\ UNCHANGED <<completed, records>>
    BY <1>7 DEF InvokeDelayed, InvokeOperation
  <2>2. /\ DOMAIN startEvidence' = DOMAIN startEvidence \cup {EvidenceKey(f)}
        /\ \A k \in DOMAIN startEvidence' :
              startEvidence'[k] = IF k = EvidenceKey(f) THEN e ELSE startEvidence[k]
    BY <2>1 DEF RememberStart
  <2>. HIDE DEF f, e
  <2>3. \A k \in DOMAIN startEvidence' :
           \/ k \in DOMAIN startEvidence /\ startEvidence'[k] = startEvidence[k]
           \/ /\ k = EvidenceKey(frame'[c])
              /\ startEvidence'[k].completedBefore <= completed[KeyRun(k)]
    BY <1>1, <1>3, <1>4, <2>2
  <2>4. f = NewFrame(x, t)
    BY DEF f
  <2>. QED
    BY <1>1, <1>2, <1>3, <1>5, <2>1, <2>3, <2>4 DEF Moves
<1>. QED
  BY <1>1, <1>6, <1>7 DEF Invoke

LEMMA SettleMoves ==
  ASSUME AllInv, CountsArePast, NEW c \in Calls, pc[c] \in Suspended, NEW o, NEW caller,
         Settle(c, o, caller)
  PROVE  Moves(c)
<1> DEFINE f == frame[c]
           k0 == EvidenceKey(f)
           e == startEvidence[k0]
<1>1. /\ TypeOK /\ c \in Pending /\ ~HasRecord(c)
      /\ frame' = frame /\ pc' = [pc EXCEPT ![c] = "finished"]
      /\ ForgetStart(f) /\ Record(c, f, e, o, caller)
  BY DEF AllInv, EvidenceInv, RecordsInv, SettledCallsHaveOneRecord, Settle, Pending, Suspended
<1>2. f \in Frames /\ k0 \in DOMAIN startEvidence /\ e \in Evidence
      /\ KeyRun(k0) = RunKey(f.context)
  BY <1>1, EvidenceEntry, KeyRunOfFrame DEF AllInv
<1>3. e.completedBefore <= completed[RunKey(f.context)]
  BY <1>2 DEF CountsArePast
<1>4. UNCHANGED <<completed, records>> \/ \E r : Adds(c, r)
  BY <1>1, <1>2, <1>3, RecordAdds
<1>5. \A k \in DOMAIN startEvidence' : k \in DOMAIN startEvidence /\ startEvidence'[k] = startEvidence[k]
  BY <1>1 DEF ForgetStart
<1>6. pc'[c] # "idle" /\ \A d \in Calls \ {c} : pc'[d] = pc[d] /\ frame'[d] = frame[d]
  BY <1>1 DEF TypeOK
<1>. QED
  BY <1>4, <1>5, <1>6 DEF Moves, Suspended

LEMMA QuietStepMoves ==
  ASSUME AllInv, NEW c \in Calls, WakeUp(c) \/ TakeEffect(c) \/ Redeliver(c) \/ Cancel(c)
  PROVE  Moves(c) /\ UNCHANGED <<completed, startEvidence, records, frame>>
BY DEF AllInv, EvidenceInv, TypeOK, WakeUp, TakeEffect, Redeliver, Cancel, counterVars, Moves,
       Suspended

LEMMA NextMoves ==
  ASSUME AllInv, CountsArePast, Next
  PROVE  \E c \in Calls : Moves(c)
<1>1. ASSUME NEW c \in Calls, NEW x \in Contexts, NEW t \in Tools, Invoke(c, x, t)
      PROVE  Moves(c)
  BY <1>1, InvokeMoves
<1>2. ASSUME NEW c \in Calls, OperationReturns(c) \/ OperationRaises(c) \/ RedeliveryEnds(c)
      PROVE  Moves(c)
  <2>1. pc[c] \in Suspended /\ \E o, caller : Settle(c, o, caller)
    BY <1>2 DEF OperationReturns, OperationRaises, RedeliveryEnds, Suspended
  <2>. QED
    BY <2>1, SettleMoves
<1>3. ASSUME NEW c \in Calls, WakeUp(c) \/ TakeEffect(c) \/ Redeliver(c) \/ Cancel(c)
      PROVE  Moves(c)
  BY <1>3, QuietStepMoves
<1>. QED
  BY <1>1, <1>2, <1>3 DEF Next

-----------------------------------------------------------------------------
\* Counts stay in the past.

\* A call with a record is not the one that gets one.
LEMMA AddedRecord ==
  ASSUME TypeOK, NEW c \in Calls, NEW r, Adds(c, r)
  PROVE  /\ Len(records) \in Nat /\ DOMAIN records = 1..Len(records)
         /\ DOMAIN records' = 1..Len(records) + 1
         /\ records'[Len(records) + 1] = r
         /\ \A i \in DOMAIN records :
              records'[i] = records[i] /\ records[i] \in Records /\ records[i].call \in Calls \ {c}
         /\ \A k \in RunKeys : completed[k] \in Nat /\ completed'[k] \in Nat
         /\ \A k \in RunKeys : completed[k] <= completed'[k]
<1>1. \A i \in DOMAIN records : records[i] \in Records
  BY DEF TypeOK
<1>2. \A i \in DOMAIN records : records[i].call \in Calls \ {c}
  BY <1>1 DEF Adds, HasRecord, Records
<1>3. \A k \in RunKeys : /\ completed[k] \in Nat /\ completed'[k] \in Nat
                         /\ completed[k] <= completed'[k]
  BY DEF Adds, TypeOK
<1>. QED
  BY <1>1, <1>2, <1>3 DEF Adds, TypeOK

LEMMA MovesKeepPastInv ==
  ASSUME AllInv, AllInv', PastInv, NEW c \in Calls, Moves(c)
  PROVE  PastInv'
<1>1. /\ TypeOK /\ TypeOK' /\ RunIdsIdentifyExperiments
      /\ \A i \in DOMAIN records : records[i].call \in Calls /\ pc[records[i].call] = "finished"
  BY RecordsByEntry DEF AllInv, EvidenceInv, RecordsInv, PastInv
<1>2. \A i \in DOMAIN records : frame'[records[i].call] = frame[records[i].call]
  BY <1>1 DEF Moves
<1>3. \A k \in RunKeys : completed[k] \in Nat /\ completed'[k] \in Nat /\ completed[k] <= completed'[k]
  BY <1>1, AddedRecord DEF Moves, TypeOK
<1>4. \A k \in DOMAIN startEvidence' :
         KeyRun(k) \in RunKeys /\ startEvidence'[k].completedBefore \in Nat
  BY <1>1 DEF TypeOK, Evidence, RunKeys, KeyRun
<1>5. ASSUME NEW k \in DOMAIN startEvidence'
      PROVE  startEvidence'[k].completedBefore <= completed'[KeyRun(k)]
  <2>1. startEvidence'[k].completedBefore <= completed[KeyRun(k)]
    BY DEF Moves, PastInv, CountsArePast
  <2>. QED
    BY <1>3, <1>4, <2>1
<1>6. \A i \in DOMAIN records : /\ RecordRun(i) \in RunKeys
                                /\ records[i].completedBefore \in Nat
  <2> SUFFICES ASSUME NEW i \in DOMAIN records
               PROVE  RecordRun(i) \in RunKeys /\ records[i].completedBefore \in Nat
    OBVIOUS
  <2>1. records[i] \in Records
    BY <1>1 DEF TypeOK
  <2>2. frame[records[i].call] \in Frames
    BY <1>1 DEF TypeOK, Invoked
  <2>. QED
    BY <2>1, <2>2, KeyTypes DEF RecordRun, Frames, Records
<1>7. \A i \in DOMAIN records :
         /\ records[i].completedBefore <= completed'[RunKey(frame'[records[i].call].context)]
         /\ records[i].run = frame'[records[i].call].context.run
  <2> SUFFICES ASSUME NEW i \in DOMAIN records
               PROVE  /\ records[i].completedBefore
                           <= completed'[RunKey(frame'[records[i].call].context)]
                      /\ records[i].run = frame'[records[i].call].context.run
    OBVIOUS
  <2>1. records[i].completedBefore <= completed[RecordRun(i)]
    BY DEF PastInv, CountsArePast
  <2>2. RunKey(frame'[records[i].call].context) = RecordRun(i)
    BY <1>2 DEF RecordRun
  <2>3. records[i].completedBefore <= completed'[RecordRun(i)]
    BY <1>3, <1>6, <2>1
  <2>. QED
    BY <1>2, <2>2, <2>3 DEF PastInv, RecordsNameTheirRun
<1>8. CASE UNCHANGED <<completed, records>>
  BY <1>5, <1>7, <1>8, <1>1 DEF PastInv, CountsArePast, RecordsNameTheirRun, RecordRun,
                                RunIdsIdentifyExperiments, KeyRun
<1>9. CASE \E r : Adds(c, r)
  <2> PICK r : Adds(c, r)
    BY <1>9
  <2>1. /\ r.call = c /\ r.run = frame'[c].context.run /\ r.completedBefore \in Nat
        /\ RunKey(frame'[c].context) \in RunKeys
        /\ r.completedBefore <= completed[RunKey(frame'[c].context)]
    BY DEF Adds
  <2>2. r.completedBefore <= completed'[RunKey(frame'[c].context)]
    BY <1>3, <2>1
  <2>3. \A i \in DOMAIN records' :
           \/ i \in DOMAIN records /\ records'[i] = records[i]
           \/ records'[i] = r
    BY <1>1, AddedRecord
  <2>4. RecordsNameTheirRun'
    BY <1>7, <2>1, <2>3 DEF RecordsNameTheirRun
  <2>5. CountsArePast'
    BY <1>5, <1>7, <2>1, <2>2, <2>3 DEF CountsArePast, RecordRun, KeyRun
  <2>. QED
    BY <1>1, <2>4, <2>5 DEF PastInv, RunIdsIdentifyExperiments
<1>. QED
  BY <1>8, <1>9 DEF Moves

LEMMA AllInvariant == Spec => []AllInv
BY EvidenceInvariant, RecordsInvariant, OrderInvariant, PTL DEF AllInv

LEMMA InitPastInv == RunIdsIdentifyExperiments /\ Init => PastInv
BY DEF Init, PastInv, CountsArePast, RecordsNameTheirRun

LEMMA NextPastInv == AllInv /\ AllInv' /\ PastInv /\ [Next]_vars => PastInv'
<1> SUFFICES ASSUME AllInv, AllInv', PastInv, [Next]_vars PROVE PastInv'
  OBVIOUS
<1>1. CASE UNCHANGED vars
  BY <1>1 DEF vars, PastInv, CountsArePast, RecordsNameTheirRun, RunIdsIdentifyExperiments,
              RecordRun, KeyRun
<1>2. CASE Next
  BY <1>2, NextMoves, MovesKeepPastInv DEF PastInv
<1>. QED
  BY <1>1, <1>2

LEMMA PastInvariant == RunIdsIdentifyExperiments /\ Spec => []PastInv
BY AllInvariant, InitPastInv, NextPastInv, PTL DEF Spec

-----------------------------------------------------------------------------
\* What a count says.

\* The calls recorded in the run of x up to position k, as happened_before reads them.
Past(x, k) ==
  {records[i].call : i \in {j \in DOMAIN records :
     records[j].run = x.run /\ CompletionPosition(j) <= k}}

IndicesOf(q) == {i \in DOMAIN records : RecordRun(i) = q}

LEMMA RunOfRecord ==
  ASSUME TypeOK, RecordsInv, PastInv, NEW i \in DOMAIN records, NEW x \in Contexts
  PROVE  records[i].run = x.run <=> RecordRun(i) = RunKey(x)
<1>1. records[i].call \in Calls /\ Invoked(records[i].call)
  BY RecordsByEntry DEF RecordsInv, Invoked
<1>2. frame[records[i].call].context \in Contexts
  BY <1>1 DEF TypeOK, Frames
<1>3. records[i].run = frame[records[i].call].context.run
  BY DEF PastInv, RecordsNameTheirRun
<1>. QED
  BY <1>2, <1>3 DEF PastInv, RunIdsIdentifyExperiments, RecordRun, RunKey

LEMMA FiniteIndices ==
  ASSUME TypeOK, NEW q
  PROVE  IsFiniteSet(IndicesOf(q))
<1>1. DOMAIN records = 1..Len(records) /\ Len(records) \in Nat
  BY DEF TypeOK
<1>2. IndicesOf(q) \subseteq 1..Len(records)
  BY <1>1 DEF IndicesOf
<1>3. IsFiniteSet(1..Len(records))
  BY <1>1, FS_Interval
<1>. QED
  BY <1>2, <1>3, FS_Subset

\* A position is at most the number of records of the run.
LEMMA PositionsAreCounted ==
  ASSUME AllInv, PastInv, NEW i \in DOMAIN records, NEW x \in Contexts,
         records[i].run = x.run
  PROVE  CompletionPosition(i) \in Nat /\ CompletionPosition(i) <= completed[RunKey(x)]
<1> DEFINE S == {j \in 1..i : records[j].run = records[i].run}
           T == IndicesOf(RunKey(x))
<1>1. /\ TypeOK /\ RecordsInv /\ RunKey(x) \in RunKeys
      /\ DOMAIN records = 1..Len(records) /\ Len(records) \in Nat
  BY KeyTypes DEF AllInv, EvidenceInv, TypeOK
<1>2. IsFiniteSet(T)
  BY FiniteIndices DEF AllInv, EvidenceInv
<1>3. S \subseteq T
  BY <1>1, RunOfRecord DEF IndicesOf
<1>4. completed[RunKey(x)] = Cardinality(T)
  BY <1>1 DEF AllInv, OrderInv, CompletedCountsRecords, IndicesOf, RecordRun
<1>. HIDE DEF S, T
<1>5. Cardinality(S) \in Nat /\ Cardinality(S) <= Cardinality(T)
  BY <1>2, <1>3, FS_Subset, FS_CardinalityType
<1>. QED
  BY <1>4, <1>5 DEF CompletionPosition, S

\* The count taken when a call begins says: all that are recorded in the run.
LEMMA WholePast ==
  ASSUME AllInv, PastInv, NEW x \in Contexts
  PROVE  Past(x, completed[RunKey(x)])
           = {d \in Calls : HasRecord(d) /\ RunKey(frame[d].context) = RunKey(x)}
<1>1. TypeOK /\ RecordsInv
  BY DEF AllInv, EvidenceInv
<1>2. \A i \in DOMAIN records :
        /\ records[i].call \in Calls
        /\ records[i].run = x.run <=> RunKey(frame[records[i].call].context) = RunKey(x)
  BY <1>1, RecordsByEntry, RunOfRecord DEF RecordRun
<1>3. Past(x, completed[RunKey(x)]) = {records[i].call : i \in {j \in DOMAIN records : records[j].run = x.run}}
  BY PositionsAreCounted DEF Past
<1>. QED
  BY <1>2, <1>3 DEF HasRecord

\* What a count taken earlier says does not change: a new record is in none of these pasts.
LEMMA PastIsKept ==
  ASSUME AllInv, AllInv', PastInv, PastInv', NEW c \in Calls, Moves(c),
         NEW x \in Contexts, NEW k \in Nat, k <= completed[RunKey(x)]
  PROVE  Past(x, k)' = Past(x, k)
<1>1. CASE records' = records
  BY <1>1 DEF Past, CompletionPosition
<1>2. CASE \E r : Adds(c, r)
  <2> PICK r : Adds(c, r)
    BY <1>2
  <2> PICK n : n = Len(records) + 1
    OBVIOUS
  <2>1. /\ TypeOK /\ RecordsInv /\ n \in Nat \ {0} /\ DOMAIN records = 1..(n - 1)
        /\ DOMAIN records' = 1..n /\ records'[n] = r
        /\ \A i \in DOMAIN records : records'[i] = records[i]
        /\ RunKey(x) \in RunKeys /\ completed[RunKey(x)] \in Nat
    BY AddedRecord, KeyTypes DEF AllInv, EvidenceInv
  <2>2. \A i \in DOMAIN records : CompletionPosition(i)' = CompletionPosition(i)
    <3> SUFFICES ASSUME NEW i \in DOMAIN records
                 PROVE  {j \in 1..i : records'[j].run = records'[i].run}
                          = {j \in 1..i : records[j].run = records[i].run}
      BY DEF CompletionPosition
    <3>. QED
      BY <2>1
  <2>3. ASSUME r.run = x.run PROVE ~(CompletionPosition(n)' <= k)
    <3> DEFINE T == IndicesOf(RunKey(x))
    <3>1. IsFiniteSet(T)
      BY <2>1, FiniteIndices
    <3>2. n \notin T
      BY <2>1 DEF IndicesOf
    <3>3. {j \in 1..n : records'[j].run = records'[n].run} = T \cup {n}
      BY <2>1, <2>3, RunOfRecord DEF IndicesOf
    <3>4. completed[RunKey(x)] = Cardinality(T)
      BY <2>1 DEF AllInv, OrderInv, CompletedCountsRecords, IndicesOf, RecordRun
    <3>5. CompletionPosition(n)' = Cardinality(T \cup {n})
      BY <3>3 DEF CompletionPosition
    <3>. HIDE DEF T
    <3>6. Cardinality(T \cup {n}) = Cardinality(T) + 1
      BY <3>1, <3>2, FS_AddElement
    <3>. QED
      BY <2>1, <3>4, <3>5, <3>6
  <2>4. DOMAIN records' = DOMAIN records \cup {n}
    BY <2>1
  <2>5. {j \in DOMAIN records : records[j].run = x.run /\ CompletionPosition(j) <= k}
          = {j \in DOMAIN records' : records'[j].run = x.run /\ CompletionPosition(j)' <= k}
    BY <2>1, <2>2, <2>3, <2>4
  <2>. QED
    BY <2>1, <2>5 DEF Past
<1>. QED
  BY <1>1, <1>2 DEF Moves

-----------------------------------------------------------------------------
\* What is behind a call that does not move.

LEMMA RecordIndex ==
  ASSUME RecordsInv, NEW i \in DOMAIN records
  PROVE  HasRecord(records[i].call) /\ RecordOf(records[i].call) = i
<1>1. HasRecord(records[i].call)
  BY DEF HasRecord
<1>2. \A j \in DOMAIN records : records[j].call = records[i].call => j = i
  BY DEF RecordsInv, SettledCallsHaveOneRecord
<1>. QED
  BY <1>1, <1>2 DEF RecordOf

\* The same in the state after a step.
LEMMA RecordIndexAfter ==
  ASSUME RecordsInv', NEW d, NEW i \in DOMAIN records', records'[i].call = d
  PROVE  HasRecord(d)' /\ RecordOf(d)' = i
<1>1. HasRecord(d)'
  BY DEF HasRecord
<1>2. \A j \in DOMAIN records' : records'[j].call = d => j = i
  BY DEF RecordsInv, SettledCallsHaveOneRecord
<1>. QED
  BY <1>1, <1>2 DEF RecordOf

LEMMA BehindIsPast ==
  ASSUME NEW c \in Calls
  PROVE  CallBehind(c) = IF HasRecord(c) \/ pc[c] \in Suspended
                         THEN Past(frame[c].context, EvidenceOf(c)) ELSE {}
BY DEF CallBehind, Past, HappenedBefore

LEMMA EvidenceIsPast ==
  ASSUME AllInv, PastInv, NEW c \in Calls, HasRecord(c) \/ pc[c] \in Suspended
  PROVE  /\ frame[c].context \in Contexts
         /\ EvidenceOf(c) \in Nat /\ EvidenceOf(c) <= completed[RunKey(frame[c].context)]
<1>1. TypeOK /\ RecordsInv /\ CountsArePast
  BY DEF AllInv, EvidenceInv, PastInv
<1>2. CASE HasRecord(c)
  <2> PICK i \in DOMAIN records : records[i].call = c
    BY <1>2 DEF HasRecord
  <2>1. EvidenceOf(c) = records[i].completedBefore /\ RecordRun(i) = RunKey(frame[c].context)
    BY <1>1, <1>2, RecordIndex DEF EvidenceOf, RecordRun
  <2>2. records[i] \in Records /\ pc[c] = "finished"
    BY <1>1, RecordsByEntry DEF RecordsInv
  <2>3. frame[c] \in Frames
    BY <1>1, <2>2 DEF TypeOK, Invoked
  <2>. QED
    BY <1>1, <2>1, <2>2, <2>3 DEF Records, Frames, CountsArePast
<1>3. CASE ~HasRecord(c) /\ pc[c] \in Suspended
  <2>1. c \in Pending
    BY <1>3 DEF Pending
  <2>2. /\ frame[c] \in Frames /\ EvidenceKey(frame[c]) \in DOMAIN startEvidence
        /\ startEvidence[EvidenceKey(frame[c])] \in Evidence
        /\ KeyRun(EvidenceKey(frame[c])) = RunKey(frame[c].context)
    BY <2>1, EvidenceEntry, KeyRunOfFrame DEF AllInv
  <2>. QED
    BY <1>1, <1>3, <2>2 DEF EvidenceOf, Evidence, Frames, CountsArePast
<1>. QED
  BY <1>2, <1>3

LEMMA OthersKeepTheirOrder ==
  ASSUME AllInv, AllInv', PastInv, PastInv', NEW c \in Calls, Moves(c), NEW d \in Calls \ {c}
  PROVE  CallStatus(d)' = CallStatus(d) /\ CallBehind(d)' = CallBehind(d)
<1>1. /\ TypeOK /\ RecordsInv /\ RecordsInv'
      /\ pc'[d] = pc[d] /\ frame'[d] = frame[d]
  BY DEF AllInv, EvidenceInv, Moves
<1>2. HasRecord(d)' <=> HasRecord(d)
  <2>1. CASE records' = records
    BY <2>1 DEF HasRecord
  <2>2. CASE \E r : Adds(c, r)
    <3> PICK r : Adds(c, r)
      BY <2>2
    <3>1. r.call = c
      BY DEF Adds
    <3>. QED
      BY <1>1, <3>1, AddedRecord DEF HasRecord
  <2>. QED
    BY <2>1, <2>2 DEF Moves
<1>3. \A i \in DOMAIN records : i \in DOMAIN records' /\ records'[i] = records[i]
  <2>1. CASE records' = records
    BY <2>1
  <2>2. CASE \E r : Adds(c, r)
    BY <1>1, <2>2, AddedRecord
  <2>. QED
    BY <2>1, <2>2 DEF Moves
<1>4. ASSUME HasRecord(d) \/ pc[d] \in Suspended
      PROVE  EvidenceOf(d)' = EvidenceOf(d)
  <2>1. CASE HasRecord(d)
    <3> PICK i \in DOMAIN records : records[i].call = d
      BY <2>1 DEF HasRecord
    <3>1. RecordOf(d) = i
      BY <1>1, RecordIndex
    <3>2. RecordOf(d)' = i
      BY <1>1, <1>3, RecordIndexAfter
    <3>. QED
      BY <1>2, <1>3, <2>1, <3>1, <3>2 DEF EvidenceOf
  <2>2. CASE ~HasRecord(d) /\ pc[d] \in Suspended
    <3> DEFINE k == EvidenceKey(frame[d])
    <3>1. k \in DOMAIN startEvidence'
      BY <1>1, <2>2 DEF AllInv, EvidenceInv, EvidenceDomain, Pending
    <3>2. ASSUME k = EvidenceKey(frame'[c]) PROVE startEvidence'[k] = startEvidence[k]
      <4>1. EvidenceKey(frame'[c]) = EvidenceKey(frame'[d])
        BY <1>1, <3>2
      <4>2. ~Invoked(c)'
        BY <1>1, <2>2, <4>1 DEF AllInv, EvidenceInv, KeysAreDistinct, Invoked, Suspended
      <4>. QED
        BY <4>2 DEF Invoked, Moves
    <3>3. startEvidence'[k] = startEvidence[k]
      BY <3>1, <3>2 DEF Moves
    <3>. QED
      BY <1>1, <1>2, <2>2, <3>3 DEF EvidenceOf
  <2>. QED
    BY <1>4, <2>1, <2>2
<1>5. CallStatus(d)' = CallStatus(d)
  BY <1>1, <1>2 DEF CallStatus
<1>6. CASE HasRecord(d) \/ pc[d] \in Suspended
  <2> PICK k : k = EvidenceOf(d)
    OBVIOUS
  <2> PICK x : x = frame[d].context
    OBVIOUS
  <2>1. x \in Contexts /\ k \in Nat /\ k <= completed[RunKey(x)]
    BY <1>6, EvidenceIsPast
  <2>2. Past(x, k)' = Past(x, k)
    BY <2>1, PastIsKept
  <2>3. CallBehind(d) = Past(x, k)
    BY <1>6, BehindIsPast
  <2>4. CallBehind(d)' = Past(x, k)'
    BY <1>1, <1>2, <1>4, <1>6 DEF CallBehind, Past, HappenedBefore
  <2>. QED
    BY <1>5, <2>2, <2>3, <2>4
<1>7. CASE ~(HasRecord(d) \/ pc[d] \in Suspended)
  BY <1>1, <1>2, <1>5, <1>7 DEF CallBehind
<1>. QED
  BY <1>6, <1>7

-----------------------------------------------------------------------------
\* Every step of the executor is a step of CallOrder.

CallRun(c) == IF Invoked(c) THEN {RunKey(frame[c].context)} ELSE {}

Statuses == [c \in Calls |-> CallStatus(c)]
RunsOfCalls == [c \in Calls |-> CallRun(c)]
Behinds == [c \in Calls |-> CallBehind(c)]

\* What a step of c is in CallOrder depends on c alone.
LEMMA OnlyTheMovingCall ==
  ASSUME AllInv, AllInv', PastInv, PastInv', NEW c \in Calls, Moves(c)
  PROVE  /\ Statuses' = [Statuses EXCEPT ![c] = CallStatus(c)']
         /\ RunsOfCalls' = [RunsOfCalls EXCEPT ![c] = CallRun(c)']
         /\ Behinds' = [Behinds EXCEPT ![c] = CallBehind(c)']
<1>1. \A d \in Calls \ {c} : CallStatus(d)' = CallStatus(d) /\ CallBehind(d)' = CallBehind(d)
  BY OthersKeepTheirOrder
<1>2. \A d \in Calls \ {c} : CallRun(d)' = CallRun(d)
  BY DEF Moves, CallRun, Invoked
<1>. QED
  BY <1>1, <1>2 DEF Statuses, RunsOfCalls, Behinds

\* The closed calls of a run are those with a record in it.
LEMMA ClosedCalls ==
  ASSUME AllInv, NEW r
  PROVE  {d \in Calls : CallStatus(d) = "closed" /\ CallRun(d) = {r}}
           = {d \in Calls : HasRecord(d) /\ RunKey(frame[d].context) = r}
<1>1. \A d \in Calls : HasRecord(d) => pc[d] = "finished"
  BY DEF AllInv, RecordsInv, SettledCallsHaveOneRecord
<1>2. \A d \in Calls : CallStatus(d) = "closed" <=> HasRecord(d)
  BY <1>1 DEF CallStatus, Suspended
<1>3. \A d \in Calls : HasRecord(d) => CallRun(d) = {RunKey(frame[d].context)}
  BY <1>1 DEF CallRun, Invoked
<1>. QED
  BY <1>2, <1>3

LEMMA InvokeBegins ==
  ASSUME AllInv, AllInv', PastInv, PastInv',
         NEW c \in Calls, NEW x \in Contexts, NEW t \in Tools, Invoke(c, x, t)
  PROVE  Order!Next
<1> PICK k : k = completed[RunKey(x)]
  OBVIOUS
<1>1. /\ TypeOK /\ RecordsInv' /\ RunKey(x) \in RunKeys /\ k \in Nat
      /\ pc[c] = "idle" /\ pc'[c] \in {"finished", "sleeping", "operating"} /\ ~HasRecord(c)
  BY KeyTypes DEF AllInv, EvidenceInv, TypeOK, Invoke, InvokeRejected, InvokeDelayed,
                  InvokeOperation, RecordsInv, SettledCallsHaveOneRecord
<1>2. Moves(c) /\ frame'[c] = NewFrame(x, t) /\ frame'[c].context = x
  BY InvokeMoves
<1>3. CallStatus(c) = "unborn" /\ CallRun(c)' = {RunKey(x)}
  BY <1>1, <1>2 DEF CallStatus, CallRun, Invoked, Suspended
<1>4. CallStatus(c)' \in {"open", "closed", "lost"}
  BY <1>1 DEF CallStatus, Suspended
<1>5. HasRecord(c)' \/ pc'[c] \in Suspended => EvidenceOf(c)' = k
  <2>1. CASE InvokeRejected(c, x, t)
    <3>1. CASE records' = records
      BY <1>1, <2>1, <3>1 DEF InvokeRejected, HasRecord, Suspended, TypeOK
    <3>2. CASE records' = Append(records, Entry(c, NewFrame(x, t), NewEvidence(x),
                                        Refused(NewFrame(x, t).rule), "injected"))
      <4> PICK n : n = Len(records) + 1
        OBVIOUS
      <4>1. n \in DOMAIN records' /\ records'[n].call = c /\ records'[n].completedBefore = k
        BY <1>1, <3>2 DEF Entry, NewEvidence, TypeOK
      <4>2. HasRecord(c)' /\ RecordOf(c)' = n
        BY <1>1, <4>1, RecordIndexAfter
      <4>. QED
        BY <4>1, <4>2 DEF EvidenceOf
    <3>. QED
      BY <2>1, <3>1, <3>2 DEF InvokeRejected, Record
  <2>2. CASE InvokeDelayed(c, x, t) \/ InvokeOperation(c, x, t)
    <3>1. records' = records /\ RememberStart(NewFrame(x, t), NewEvidence(x))
      BY <2>2 DEF InvokeDelayed, InvokeOperation
    <3>2. ~HasRecord(c)'
      BY <1>1, <3>1 DEF HasRecord
    <3>3. startEvidence'[EvidenceKey(frame'[c])] = NewEvidence(x)
      BY <1>2, <3>1 DEF RememberStart
    <3>. QED
      BY <3>2, <3>3 DEF EvidenceOf, NewEvidence
  <2>. QED
    BY <2>1, <2>2 DEF Invoke
<1>6. Past(x, k)' = {d \in Calls : CallStatus(d) = "closed" /\ CallRun(d) = {RunKey(x)}}
  BY <1>1, <1>2, PastIsKept, WholePast, ClosedCalls
<1>7. CallBehind(c)' = IF CallStatus(c)' = "lost" THEN {}
                       ELSE {d \in Calls : CallStatus(d) = "closed" /\ CallRun(d) = {RunKey(x)}}
  <2>1. CASE HasRecord(c)' \/ pc'[c] \in Suspended
    <3>1. CallBehind(c)' = Past(x, k)'
      BY <1>2, <1>5, <2>1 DEF CallBehind, Past, HappenedBefore
    <3>2. CallStatus(c)' # "lost"
      BY <1>1, <2>1 DEF CallStatus, Suspended
    <3>. QED
      BY <1>6, <3>1, <3>2
  <2>2. CASE ~(HasRecord(c)' \/ pc'[c] \in Suspended)
    BY <1>1, <2>2 DEF CallBehind, CallStatus, Suspended
  <2>. QED
    BY <2>1, <2>2
<1> PICK s : s = CallStatus(c)'
  OBVIOUS
<1>8. {d \in Calls : Statuses[d] = "closed" /\ RunsOfCalls[d] = {RunKey(x)}}
        = {d \in Calls : CallStatus(d) = "closed" /\ CallRun(d) = {RunKey(x)}}
  BY DEF Statuses, RunsOfCalls
<1>9. Order!Begin(c, RunKey(x), s)
  <2>1. /\ Statuses[c] = "unborn"
        /\ Statuses' = [Statuses EXCEPT ![c] = s]
        /\ RunsOfCalls' = [RunsOfCalls EXCEPT ![c] = {RunKey(x)}]
        /\ Behinds' = [Behinds EXCEPT ![c] = IF s = "lost" THEN {} ELSE
             {d \in Calls : Statuses[d] = "closed" /\ RunsOfCalls[d] = {RunKey(x)}}]
    BY <1>2, <1>3, <1>7, <1>8, OnlyTheMovingCall DEF Statuses
  <2>. QED
    BY <2>1 DEF Order!Begin, Order!ClosedIn, Statuses, RunsOfCalls, Behinds, CallRun
<1>. QED
  BY <1>1, <1>4, <1>9 DEF Order!Next

LEMMA SettleEnds ==
  ASSUME AllInv, AllInv', PastInv, PastInv', NEW c \in Calls, pc[c] \in Suspended,
         NEW o, NEW caller, Settle(c, o, caller)
  PROVE  Order!Next
<1> DEFINE e == startEvidence[EvidenceKey(frame[c])]
<1>1. /\ TypeOK /\ RecordsInv' /\ CountsArePast /\ ~HasRecord(c) /\ pc[c] # "finished"
      /\ pc'[c] = "finished" /\ frame' = frame /\ Record(c, frame[c], e, o, caller)
  BY DEF AllInv, EvidenceInv, TypeOK, Settle, RecordsInv, SettledCallsHaveOneRecord, Suspended,
         PastInv
<1>2. Moves(c)
  BY <1>1, SettleMoves
<1>3. /\ CallStatus(c) = "open" /\ EvidenceOf(c) = e.completedBefore
      /\ CallStatus(c)' = IF HasRecord(c)' THEN "closed" ELSE "lost"
      /\ CallRun(c)' = CallRun(c)
  BY <1>1 DEF CallStatus, EvidenceOf, CallRun, Invoked, Suspended
<1>4. CallBehind(c)' = IF HasRecord(c)' THEN CallBehind(c) ELSE {}
  <2>1. CASE ~HasRecord(c)'
    BY <1>1, <2>1 DEF CallBehind, Suspended
  <2>2. CASE HasRecord(c)'
    <3> PICK k : k = EvidenceOf(c)
      OBVIOUS
    <3> PICK x : x = frame[c].context
      OBVIOUS
    <3> PICK n : n = Len(records) + 1
      OBVIOUS
    <3>1. records' = Append(records, Entry(c, frame[c], e, o, caller))
      BY <1>1, <2>2 DEF Record, HasRecord
    <3>2. n \in DOMAIN records' /\ records'[n].call = c /\ records'[n].completedBefore = k
      BY <1>1, <1>3, <3>1 DEF Entry, TypeOK
    <3>3. EvidenceOf(c)' = k
      BY <1>1, <2>2, <3>2, RecordIndexAfter DEF EvidenceOf
    <3>4. x \in Contexts /\ k \in Nat /\ k <= completed[RunKey(x)]
      BY EvidenceIsPast
    <3>5. CallBehind(c)' = Past(x, k)'
      BY <1>1, <2>2, <3>3 DEF CallBehind, Past, HappenedBefore
    <3>6. CallBehind(c) = Past(x, k)
      BY BehindIsPast
    <3>. QED
      BY <1>2, <2>2, <3>4, <3>5, <3>6, PastIsKept
  <2>. QED
    BY <2>1, <2>2
<1>5. CASE HasRecord(c)'
  <2>1. /\ Statuses[c] = "open" /\ Statuses' = [Statuses EXCEPT ![c] = "closed"]
        /\ RunsOfCalls' = RunsOfCalls /\ Behinds' = Behinds
    BY <1>2, <1>3, <1>4, <1>5, OnlyTheMovingCall DEF Statuses, RunsOfCalls, Behinds
  <2>2. Order!Close(c)
    BY <2>1 DEF Order!Close, Statuses, RunsOfCalls, Behinds, CallRun
  <2>. QED
    BY <2>2 DEF Order!Next
<1>6. CASE ~HasRecord(c)'
  <2>1. /\ Statuses[c] = "open" /\ Statuses' = [Statuses EXCEPT ![c] = "lost"]
        /\ RunsOfCalls' = RunsOfCalls /\ Behinds' = [Behinds EXCEPT ![c] = {}]
    BY <1>2, <1>3, <1>4, <1>6, OnlyTheMovingCall DEF Statuses, RunsOfCalls
  <2>2. Order!Lose(c)
    BY <2>1 DEF Order!Lose, Statuses, RunsOfCalls, Behinds, CallRun
  <2>. QED
    BY <2>2 DEF Order!Next
<1>. QED
  BY <1>5, <1>6

LEMMA CancelLoses ==
  ASSUME AllInv, AllInv', PastInv, PastInv', NEW c \in Calls, Cancel(c)
  PROVE  Order!Next
<1>1. /\ TypeOK /\ ~HasRecord(c) /\ pc[c] \in Suspended /\ pc'[c] = "cancelled"
      /\ frame' = frame /\ records' = records
  BY DEF AllInv, EvidenceInv, TypeOK, Cancel, RecordsInv, SettledCallsHaveOneRecord, Suspended
<1>2. Moves(c)
  BY QuietStepMoves
<1>3. /\ CallStatus(c) = "open" /\ CallStatus(c)' = "lost"
      /\ CallRun(c)' = CallRun(c) /\ CallBehind(c)' = {}
  BY <1>1 DEF CallStatus, CallRun, CallBehind, HasRecord, Invoked, Suspended
<1>4. /\ Statuses[c] = "open" /\ Statuses' = [Statuses EXCEPT ![c] = "lost"]
      /\ RunsOfCalls' = RunsOfCalls /\ Behinds' = [Behinds EXCEPT ![c] = {}]
  BY <1>2, <1>3, OnlyTheMovingCall DEF Statuses, RunsOfCalls
<1>5. Order!Lose(c)
  BY <1>4 DEF Order!Lose, Statuses, RunsOfCalls, Behinds, CallRun
<1>. QED
  BY <1>5 DEF Order!Next

\* What a call does between its start and its end is nothing to CallOrder.
LEMMA ProgressStutters ==
  ASSUME AllInv, AllInv', PastInv, PastInv', NEW c \in Calls,
         WakeUp(c) \/ TakeEffect(c) \/ Redeliver(c)
  PROVE  UNCHANGED <<Statuses, RunsOfCalls, Behinds>>
<1>1. /\ TypeOK /\ ~HasRecord(c) /\ pc[c] \in Suspended /\ pc'[c] \in Suspended
      /\ frame' = frame /\ records' = records /\ startEvidence' = startEvidence
  BY DEF AllInv, EvidenceInv, TypeOK, WakeUp, TakeEffect, Redeliver, RecordsInv,
         SettledCallsHaveOneRecord, Suspended
<1>2. Moves(c)
  BY QuietStepMoves
<1>3. CallStatus(c)' = CallStatus(c) /\ CallRun(c)' = CallRun(c)
  BY <1>1 DEF CallStatus, CallRun, HasRecord, Invoked, Suspended
<1>4. CallBehind(c)' = CallBehind(c)
  BY <1>1 DEF CallBehind, EvidenceOf, HasRecord, HappenedBefore, CompletionPosition
<1>. QED
  BY <1>2, <1>3, <1>4, OnlyTheMovingCall DEF Statuses, RunsOfCalls, Behinds

LEMMA StepImplementsCallOrder ==
  AllInv /\ AllInv' /\ PastInv /\ PastInv' /\ [Next]_vars => [Order!Next]_<<Statuses, RunsOfCalls, Behinds>>
<1> SUFFICES ASSUME AllInv, AllInv', PastInv, PastInv', [Next]_vars
             PROVE  [Order!Next]_<<Statuses, RunsOfCalls, Behinds>>
  OBVIOUS
<1>1. CASE UNCHANGED vars
  BY <1>1 DEF vars, Statuses, RunsOfCalls, Behinds, CallStatus, CallRun, CallBehind, EvidenceOf,
              HasRecord, RecordOf, HappenedBefore, CompletionPosition, Invoked
<1>2. ASSUME NEW c \in Calls, NEW x \in Contexts, NEW t \in Tools, Invoke(c, x, t)
      PROVE  Order!Next
  BY <1>2, InvokeBegins
<1>3. ASSUME NEW c \in Calls, OperationReturns(c) \/ OperationRaises(c) \/ RedeliveryEnds(c)
      PROVE  Order!Next
  <2>1. pc[c] \in Suspended /\ \E o, caller : Settle(c, o, caller)
    BY <1>3 DEF OperationReturns, OperationRaises, RedeliveryEnds, Suspended
  <2>. QED
    BY <2>1, SettleEnds
<1>4. ASSUME NEW c \in Calls, Cancel(c) PROVE Order!Next
  BY <1>4, CancelLoses
<1>5. ASSUME NEW c \in Calls, WakeUp(c) \/ TakeEffect(c) \/ Redeliver(c)
      PROVE  UNCHANGED <<Statuses, RunsOfCalls, Behinds>>
  BY <1>5, ProgressStutters
<1>. QED
  BY <1>1, <1>2, <1>3, <1>4, <1>5 DEF Next

\* The executor implements CallOrder as long as no two experiments share a run id: what
\* happened_before reads off positions and counts is which calls had finished when a call
\* was requested, whatever overlaps, fails, is cancelled or is refused a record.
THEOREM OrderIsRecorded == RunIdsIdentifyExperiments /\ Spec => ImplementsCallOrder
<1>1. Init => Order!Init
  BY DEF Init, Order!Init, CallStatus, CallBehind, HasRecord, Invoked, Suspended
<1>2. AllInv /\ AllInv' /\ PastInv /\ PastInv' /\ [Next]_vars
        => [Order!Next]_<<Statuses, RunsOfCalls, Behinds>>
  BY StepImplementsCallOrder
<1>3. RunIdsIdentifyExperiments /\ Spec
        => [][Order!Next]_<<Statuses, RunsOfCalls, Behinds>>
  BY <1>2, AllInvariant, PastInvariant, PTL DEF Spec
<1>. QED
  BY <1>1, <1>3, PTL DEF Spec, ImplementsCallOrder, Order!Spec, Order!vars, Statuses, RunsOfCalls,
     Behinds, CallRun

-----------------------------------------------------------------------------
\* What CallOrder promises is therefore so of the executor.

Proved == INSTANCE CallOrderProofs WITH
  Runs   <- RunKeys,
  status <- [c \in Calls |-> CallStatus(c)],
  runOf  <- [c \in Calls |-> IF Invoked(c) THEN {RunKey(frame[c].context)} ELSE {}],
  behind <- [c \in Calls |-> CallBehind(c)]

\* "Finished before it was requested", as happened_before computes it, is a strict order on
\* the records of a run and relates no calls of different runs.
THEOREM StrictTraceOrder == RunIdsIdentifyExperiments /\ Spec => []HappenedBeforeIsStrict
<1>1. Order!Init => Proved!Init
  BY DEF Order!Init, Proved!Init
<1>2. [Order!Next]_(Order!vars) => [Proved!Next]_(Proved!vars)
  BY DEF Order!Next, Order!Begin, Order!Close, Order!Lose, Order!ClosedIn, Order!vars,
         Proved!Next, Proved!Begin, Proved!Close, Proved!Lose, Proved!ClosedIn, Proved!vars
<1>3. Proved!OrderIsStrict => Order!OrderIsStrict
  BY DEF Order!OrderIsStrict, Order!HappenedBefore, Proved!OrderIsStrict, Proved!HappenedBefore
<1>. QED
  BY <1>1, <1>2, <1>3, OrderIsRecorded, Proved!StrictOrder, PTL
  DEF ImplementsCallOrder, HappenedBeforeIsStrict, Order!Spec, Proved!Spec

-----------------------------------------------------------------------------
\* How long a call can last.

\* The steps that a call can still take, counted from where its coroutine is suspended.
StagesLeft(c) ==
  CASE pc[c] = "idle"         -> 6
    [] pc[c] = "sleeping"     -> 5
    [] pc[c] = "operating"    -> 4 - effects[c]
    [] pc[c] = "redelivering" -> 3 - effects[c]
    [] OTHER                  -> 0

Stages == Suspended \cup {"idle", "finished", "cancelled"}

\* A step of call c changes only what is said of c.
LEMMA OwnStepOnly ==
  ASSUME TypeOK, NEW c \in Calls, NEW p \in Stages, NEW e \in 0..2,
         pc' = [pc EXCEPT ![c] = p], effects' = [effects EXCEPT ![c] = e]
  PROVE  /\ pc'[c] = p /\ effects'[c] = e
         /\ \A d \in Calls \ {c} : StagesLeft(d)' = StagesLeft(d)
<1>1. pc \in [Calls -> Stages] /\ effects \in [Calls -> 0..2]
  BY DEF TypeOK, Stages
<1>2. \A d \in Calls \ {c} : pc'[d] = pc[d] /\ effects'[d] = effects[d]
  BY <1>1
<1>. QED
  BY <1>1, <1>2 DEF StagesLeft

LEMMA StagesType ==
  ASSUME EvidenceInv, NEW c \in Calls
  PROVE  /\ StagesLeft(c) \in 0..6 /\ pc[c] \in Stages /\ effects[c] \in 0..2
         /\ pc[c] = "operating" => effects[c] \in 0..1
<1>1. pc[c] \in Stages /\ effects[c] \in 0..2 /\ delivered[c] \in 0..2
  BY DEF EvidenceInv, TypeOK, Stages
<1>2. pc[c] = "operating" => effects[c] \in 0..1
  BY <1>1 DEF EvidenceInv, DeliveriesFollowControl, DeliveryFollowsControl
<1>. QED
  BY <1>1, <1>2 DEF StagesLeft, Stages, Suspended

LEMMA StageEnds ==
  ASSUME EvidenceInv, NEW c \in Calls, pc[c] \in {"sleeping", "operating", "redelivering", "idle"}
  PROVE  StagesLeft(c) >= 1
<1>1. pc[c] \in Stages /\ effects[c] \in 0..2 /\ (pc[c] = "operating" => effects[c] \in 0..1)
  BY StagesType
<1>. QED
  BY <1>1 DEF StagesLeft

LEMMA SameEffects ==
  ASSUME TypeOK, effects' = effects, NEW c \in Calls
  PROVE  effects' = [effects EXCEPT ![c] = effects[c]] /\ effects[c] \in 0..2
BY DEF TypeOK

LEMMA SameStage ==
  ASSUME TypeOK, pc' = pc, NEW c \in Calls
  PROVE  pc' = [pc EXCEPT ![c] = pc[c]] /\ pc[c] \in Stages
BY DEF TypeOK, Stages

LEMMA StepShortens ==
  ASSUME EvidenceInv, Next
  PROVE  \E c \in Calls : /\ StagesLeft(c)' < StagesLeft(c)
                          /\ \A d \in Calls \ {c} : StagesLeft(d)' = StagesLeft(d)
<1>0. TypeOK
  BY DEF EvidenceInv
<1> DEFINE Shorter(c) == /\ StagesLeft(c)' < StagesLeft(c)
                         /\ \A d \in Calls \ {c} : StagesLeft(d)' = StagesLeft(d)
<1>1. ASSUME NEW c \in Calls, NEW x \in Contexts, NEW t \in Tools, Invoke(c, x, t)
      PROVE  Shorter(c)
  <2>1. pc[c] = "idle"
    BY <1>1 DEF Invoke
  <2>2. PICK p \in {"finished", "sleeping", "operating"} :
          pc' = [pc EXCEPT ![c] = p] /\ effects' = effects
    BY <1>1 DEF Invoke, InvokeRejected, InvokeDelayed, InvokeOperation, worldVars
  <2>3. p \in Stages
    BY DEF Stages, Suspended
  <2>4. effects' = [effects EXCEPT ![c] = effects[c]] /\ effects[c] \in 0..2
    BY <1>0, <2>2, SameEffects
  <2>5. /\ pc'[c] = p /\ effects'[c] = effects[c]
        /\ \A d \in Calls \ {c} : StagesLeft(d)' = StagesLeft(d)
    BY <1>0, <2>2, <2>3, <2>4, OwnStepOnly
  <2>6. StagesLeft(c) = 6 /\ StagesLeft(c)' \in 0..5
    BY <2>1, <2>4, <2>5 DEF StagesLeft
  <2>. QED
    BY <2>5, <2>6
<1>2. ASSUME NEW c \in Calls,
             OperationReturns(c) \/ OperationRaises(c) \/ RedeliveryEnds(c) \/ Cancel(c)
      PROVE  Shorter(c)
  <2>1. /\ pc[c] \in {"sleeping", "operating", "redelivering", "idle"} /\ effects' = effects
        /\ (pc' = [pc EXCEPT ![c] = "finished"] \/ pc' = [pc EXCEPT ![c] = "cancelled"])
    BY <1>2 DEF OperationReturns, OperationRaises, RedeliveryEnds, Cancel, Settle, worldVars,
                Suspended
  <2>2. PICK p \in {"finished", "cancelled"} : pc' = [pc EXCEPT ![c] = p]
    BY <2>1
  <2>3. p \in Stages
    BY DEF Stages
  <2>4. effects' = [effects EXCEPT ![c] = effects[c]] /\ effects[c] \in 0..2
    BY <1>0, <2>1, SameEffects
  <2>5. /\ pc'[c] = p
        /\ \A d \in Calls \ {c} : StagesLeft(d)' = StagesLeft(d)
    BY <1>0, <2>2, <2>3, <2>4, OwnStepOnly
  <2>6. StagesLeft(c)' = 0
    BY <2>5 DEF StagesLeft
  <2>7. StagesLeft(c) >= 1 /\ StagesLeft(c) \in 0..6
    BY <2>1, StageEnds, StagesType
  <2>. QED
    BY <2>5, <2>6, <2>7
<1>3. ASSUME NEW c \in Calls, WakeUp(c) \/ Redeliver(c)
      PROVE  Shorter(c)
  <2>1. /\ effects' = effects
        /\ \/ pc[c] = "sleeping" /\ pc' = [pc EXCEPT ![c] = "operating"]
           \/ pc[c] = "operating" /\ pc' = [pc EXCEPT ![c] = "redelivering"]
    BY <1>3 DEF WakeUp, Redeliver
  <2>2. PICK p \in {"operating", "redelivering"} :
          /\ pc' = [pc EXCEPT ![c] = p]
          /\ pc[c] = IF p = "operating" THEN "sleeping" ELSE "operating"
    BY <2>1
  <2>3. p \in Stages
    BY DEF Stages, Suspended
  <2>4. effects' = [effects EXCEPT ![c] = effects[c]] /\ effects[c] \in 0..2
    BY <1>0, <2>1, SameEffects
  <2>5. /\ pc'[c] = p /\ effects'[c] = effects[c]
        /\ \A d \in Calls \ {c} : StagesLeft(d)' = StagesLeft(d)
    BY <1>0, <2>2, <2>3, <2>4, OwnStepOnly
  <2>6. StagesLeft(c)' < StagesLeft(c)
    BY <2>2, <2>4, <2>5 DEF StagesLeft
  <2>. QED
    BY <2>5, <2>6
<1>4. ASSUME NEW c \in Calls, TakeEffect(c)
      PROVE  Shorter(c)
  <2>1. /\ pc' = pc /\ effects' = [effects EXCEPT ![c] = @ + 1]
        /\ pc[c] \in {"operating", "redelivering"} /\ effects[c] < delivered[c]
    BY <1>4 DEF TakeEffect
  <2> PICK e : e = effects[c] + 1
    OBVIOUS
  <2>2. e \in 0..2 /\ effects[c] \in 0..2 /\ effects' = [effects EXCEPT ![c] = e]
    <3>1. effects[c] \in 0..2 /\ delivered[c] \in 0..2
      BY <1>0 DEF TypeOK
    <3>2. e \in 0..2
      BY <2>1, <3>1
    <3>. QED
      BY <2>1, <3>1, <3>2
  <2>3. pc' = [pc EXCEPT ![c] = pc[c]] /\ pc[c] \in Stages
    BY <1>0, <2>1, SameStage
  <2>4. /\ pc'[c] = pc[c] /\ effects'[c] = e
        /\ \A d \in Calls \ {c} : StagesLeft(d)' = StagesLeft(d)
    BY <1>0, <2>2, <2>3, OwnStepOnly
  <2>5. StagesLeft(c)' < StagesLeft(c)
    BY <2>1, <2>2, <2>4 DEF StagesLeft
  <2>. QED
    BY <2>4, <2>5
<1>. QED
  BY <1>1, <1>2, <1>3, <1>4 DEF Next

\* A call takes six steps at most, whatever the others do in between, and one that has ended
\* takes no more: EveryCallEnds but for the fairness of Progress.
THEOREM CallsAreFinite ==
  Spec => /\ [](\A c \in Calls : StagesLeft(c) \in 0..6)
          /\ [][\E c \in Calls :
                   /\ StagesLeft(c)' < StagesLeft(c)
                   /\ \A d \in Calls \ {c} : StagesLeft(d)' = StagesLeft(d)]_vars
<1>1. EvidenceInv => \A c \in Calls : StagesLeft(c) \in 0..6
  BY StagesType
<1>2. EvidenceInv /\ [Next]_vars =>
        [\E c \in Calls : /\ StagesLeft(c)' < StagesLeft(c)
                          /\ \A d \in Calls \ {c} : StagesLeft(d)' = StagesLeft(d)]_vars
  BY StepShortens
<1>. QED
  BY <1>1, <1>2, EvidenceInvariant, PTL DEF Spec
=============================================================================
