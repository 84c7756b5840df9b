------------------------------ MODULE CallOrder ------------------------------
(***************************************************************************)
(* What the trace of a run promises about order.  A call is begun, and     *)
(* later it is either closed (its record exists) or lost (it was cancelled *)
(* or its record was refused).  At the moment a call begins, it has behind *)
(* it exactly the calls of the same run that are already closed: these and *)
(* no others are the calls that "had finished before it was requested".    *)
(* The specification has no counters and no positions; ToolExecutor, which *)
(* has nothing else, is shown to implement it.                             *)
(***************************************************************************)

CONSTANTS Calls,    \* the calls that agents may issue
          Runs      \* the runs they may issue them in

VARIABLES status,   \* status[c]: "unborn", "open", "closed" or "lost"
          runOf,    \* runOf[c]: a set that holds the run of call c once c has begun
          behind    \* behind[c]: the calls that were closed when call c began

vars == <<status, runOf, behind>>

TypeOK ==
  /\ status \in [Calls -> {"unborn", "open", "closed", "lost"}]
  /\ runOf \in [Calls -> SUBSET Runs]
  /\ behind \in [Calls -> SUBSET Calls]

Init ==
  /\ status = [c \in Calls |-> "unborn"]
  /\ runOf = [c \in Calls |-> {}]
  /\ behind = [c \in Calls |-> {}]

ClosedIn(r) == {d \in Calls : status[d] = "closed" /\ runOf[d] = {r}}

\* Call c enters run r and reaches the status s: it stays open, or the same step
\* closes it (an injected failure that calls nothing) or loses it.
Begin(c, r, s) ==
  /\ status[c] = "unborn"
  /\ status' = [status EXCEPT ![c] = s]
  /\ runOf' = [runOf EXCEPT ![c] = {r}]
  /\ behind' = [behind EXCEPT ![c] = IF s = "lost" THEN {} ELSE ClosedIn(r)]

Close(c) ==
  /\ status[c] = "open"
  /\ status' = [status EXCEPT ![c] = "closed"]
  /\ UNCHANGED <<runOf, behind>>

\* A lost call leaves no evidence of what was behind it.
Lose(c) ==
  /\ status[c] = "open"
  /\ status' = [status EXCEPT ![c] = "lost"]
  /\ behind' = [behind EXCEPT ![c] = {}]
  /\ UNCHANGED runOf

Next ==
  \E c \in Calls :
     \/ \E r \in Runs, s \in {"open", "closed", "lost"} : Begin(c, r, s)
     \/ Close(c)
     \/ Lose(c)

Spec == Init /\ [][Next]_vars

-----------------------------------------------------------------------------

\* Being behind is a strict order on the closed calls and never leaves a run.
HappenedBefore(d, c) == status[c] = "closed" /\ d \in behind[c]

OrderIsStrict ==
  /\ \A c \in Calls : c \notin behind[c]
  /\ \A b, c, d \in Calls :
        HappenedBefore(b, c) /\ HappenedBefore(c, d) => HappenedBefore(b, d)
  /\ \A c, d \in Calls : d \in behind[c] => runOf[d] = runOf[c]
=============================================================================
