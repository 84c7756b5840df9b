----------------------------- MODULE GatewayCalls -----------------------------
(***************************************************************************)
(* What one call of a commerce tool does on its way through the gateway    *)
(* (gateway.py) and the executor (executor.py) to the tool handler and     *)
(* back.  No handler suspends, so from the moment the operation starts     *)
(* until its record is made nothing else happens.                          *)
(***************************************************************************)
EXTENDS CommerceOperations, FaultSemantics

CONSTANTS
  None,          \* Python's None
  Replacements   \* what rules replace responses by: any JSON value but null

\* A replacement is a value of its own here, though it may look like a true answer; what the
\* agent takes it for is said where the agent is.

\* What execute leaves of the sandbox, what it records, and what it hands to the gateway.
Executed(d, outcome, caller, answer) ==
  [db |-> d, outcome |-> outcome, caller |-> caller, answer |-> answer]

\* One call in state d under rule r.  first is what the operation does to d, and second what
\* it does if it is delivered again.
Execute(d, first, second, r) ==
  CASE TypeOf(r) \in RejectingFaults ->
         Executed(d, Refused(r), "injected", None)
    [] TypeOf(r) \notin RejectingFaults /\ first.answer = Raised ->
         Executed(first.db, Failed(r), "error", None)
    [] TypeOf(r) = "duplicate_request" /\ first.answer # Raised ->
         Executed(second.db, DeliveredTwice(r), "result", first.answer)
    [] OTHER ->
         Executed(first.db, Succeeded(r), CallerSees(r), first.answer)

Ok(response) == [ok |-> TRUE, response |-> response]
Failure(kind) == [ok |-> FALSE, kind |-> kind]

\* A timeout before the call and one after the commit look the same to the agent.
InjectedKind(r) ==
  CASE TypeOf(r) = "timeout_before_call" -> "timeout"
    [] TypeOf(r) = "rate_limit"          -> "rate_limited"
    [] TypeOf(r) = "exception"           -> "tool_error"

Normalized(r, e) ==
  CASE e.caller = "injected"    -> Failure(InjectedKind(r))
    [] e.caller = "ambiguous"   -> Failure("timeout")
    [] e.caller = "error"       -> Failure("tool_error")
    [] e.caller = "replacement" -> Ok(r.response)
    [] e.caller = "result"      -> Ok(e.answer)
===============================================================================
