------------------------- MODULE MCCommerceExperiment -------------------------
(***************************************************************************)
(* Instances of CommerceExperiment for TLC: the four profiles of agents.py *)
(* under every choice of up to MaxRules fault rules, and three of them with*)
(* a policy of two attempts, which two rules exhaust.                      *)
(***************************************************************************)
EXTENDS CommerceExperiment, TLC

CONSTANTS oversized, garbage, understated, overstated

Agent(attempts, keys, validates, reconciles, aborts, honest) ==
  [attempts |-> attempts, keys |-> keys, validates |-> validates,
   reconciles |-> reconciles, aborts |-> aborts, honest |-> honest]

naive       == Agent(1, FALSE, FALSE, FALSE, FALSE, FALSE)
retrying    == Agent(3, FALSE, TRUE, FALSE, TRUE, TRUE)
idempotent  == Agent(3, TRUE, TRUE, FALSE, TRUE, TRUE)
reconciling == Agent(3, TRUE, TRUE, TRUE, TRUE, TRUE)

AgentProfiles ==
  {naive, retrying, idempotent, reconciling}
  \cup {[p EXCEPT !.attempts = 2] : p \in {retrying, idempotent, reconciling}}
PersistentProfiles == {retrying, reconciling}
OnlyReconciling == {reconciling}

\* Garbage is what the fault cases use; the others are {"available_quantity": 0}, and a dict
\* that has every key a validator looks for and far too high a count.
Forgeries == {garbage, understated, overstated}
ValidatorPasses == [tool \in Tools |-> {overstated} \cap Replacements]
CountIn(r) == CASE r = understated -> 0 [] r = overstated -> 100 [] OTHER -> None
QuantityIn == [r \in Replacements |-> CountIn(r)]

Same == [t \in Texts |-> t]
===============================================================================
