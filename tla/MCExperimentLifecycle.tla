------------------------- MODULE MCExperimentLifecycle -------------------------
(***************************************************************************)
(* Instances of ExperimentLifecycle for TLC: declarations right and wrong, *)
(* against bindings that keep or break what the runner relies on.          *)
(***************************************************************************)
EXTENDS ExperimentLifecycle, TLC

CONSTANTS seed, drifted

Value(sort, number) == [sort |-> sort, number |-> number]

Seen == {Value("int", 1), Value("bool", 1), Value("collection", 1), Value("decimal", NaN),
         Value("object", 2)}

Check(name, kind, expected) == [name |-> name, kind |-> kind, expected |-> expected]
Total == Check("total", "number", Value("int", 1))
Flag == Check("flag", "predicate", Value("bool", 1))
Entries == Check("total", "count", Value("int", 1))
Opaque == Check("state", "field", Value("object", 2))
State == Check("state", "field", Value("bool", 1))

Seeded == [base |-> seed, marks |-> Untouched]

Scenario(key, invariants, tools, initial) ==
  [key |-> key, invariants |-> invariants, tools |-> tools, initial |-> initial]

Scenarios ==
  {Scenario("commerce", invariants, <<"read", "write">>, initial) :
     invariants \in {<<>>, <<"total", "flag">>}, initial \in {Undeclared, Seeded}}
  \cup {Scenario("commerce", <<"total", "total">>, <<"read">>, Seeded),
        Scenario("commerce", <<"flag">>, <<"read", "erase">>, Undeclared),
        Scenario("billing", <<"total", "flag">>, <<"read", "write">>, Seeded)}

Rule(id, tool) == [id |-> id, tool |-> tool, number |-> 1]
RuleLists == {<<>>, <<Rule("r1", "write")>>, <<Rule("r1", "write"), Rule("r2", "write")>>,
              <<Rule("r1", "write"), Rule("r1", "read")>>}

MCExperiments == [scenario : Scenarios, rules : RuleLists]

\* A binding's own declaration is a valid one.
Bound == {s \in Scenarios : s.key = "commerce" /\ Distinct(s.invariants)}

MCBindings ==
  [spec : Bound, checks : {<<>>, <<Total, Flag>>, <<Total, Entries>>, <<State>>,
                           <<Opaque>>},
   tools : {{"read", "write"}}, starts : {{seed}, {seed, drifted}},
   fresh : BOOLEAN, cleans : BOOLEAN]
===============================================================================
