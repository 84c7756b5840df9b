--------------------------- MODULE ReusableInvariants ---------------------------
(***************************************************************************)
(* The invariants of rift_invariant_engine/invariants.py that a scenario   *)
(* configures with a selector and an expected value: what each answers to  *)
(* the value that its selector finds, "pass", "fail" or "raises".          *)
(*                                                                         *)
(* A Python value is a sort and a number.  Python compares numbers of all  *)
(* sorts with each other, and True with 1; the number of a collection is   *)
(* its size.  An "object" has no JSON form.                                *)
(***************************************************************************)
CONSTANT NaN    \* of a Decimal that is not finite: equal to nothing, itself included

NumberSorts == {"int", "bool", "float", "decimal"}

PythonEqual(v, w) ==
  /\ v.number = w.number /\ v.number # NaN
  /\ v.sort = w.sort \/ {v.sort, w.sort} \subseteq NumberSorts

\* _require_exact_number: a bool is an int to Python and is refused all the same.
IsExactNumber(v) == v.sort \in {"int", "decimal"} /\ v.number # NaN

\* _to_json_value
HasJsonForm(v) == v.sort # "object"

\* _comparison_result: what was expected and what was observed are converted whether the
\* comparison holds or not.
Compared(holds, v, expected) ==
  IF ~(HasJsonForm(v) /\ HasJsonForm(expected)) THEN "raises"
  ELSE IF holds THEN "pass" ELSE "fail"

\* What the constructors accept.
IsConfigured(check) ==
  /\ check.kind \in {"field", "count", "number", "predicate"}
  /\ check.kind = "count" => check.expected.sort # "bool"
  /\ check.kind = "number" => IsExactNumber(check.expected)

\* evaluate of FieldEqualsInvariant, CountEqualsInvariant, NumericEqualsInvariant and
\* PredicateInvariant, given what the selector or the predicate returned.  A predicate is
\* expected to return True.
Answer(check, v) ==
  CASE check.kind = "field"     -> Compared(PythonEqual(v, check.expected), v, check.expected)
    [] check.kind = "count"     ->
         IF v.sort = "collection"
         THEN Compared(v.number = check.expected.number, v, check.expected) ELSE "raises"
    [] check.kind = "number"    ->
         IF IsExactNumber(v)
         THEN Compared(v.number = check.expected.number, v, check.expected) ELSE "raises"
    [] check.kind = "predicate" ->
         IF v.sort = "bool" THEN Compared(v.number = 1, v, v) ELSE "raises"
===============================================================================
