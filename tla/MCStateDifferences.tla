--------------------------- MODULE MCStateDifferences ---------------------------
(***************************************************************************)
(* Instances of StateDifferences for TLC: dicts of two keys over leaves,   *)
(* lists of up to two leaves, and dicts of one key over leaves and lists.  *)
(***************************************************************************)
EXTENDS StateDifferences, TLC

CONSTANTS a, b

Ordered == <<a, b>>

\* 1 and True are equal to Python, 2 is not.
Leaves == {Leaf([sort |-> "int", number |-> 1]), Leaf([sort |-> "bool", number |-> 1]),
           Leaf([sort |-> "int", number |-> 2])}

Lists == {List(s) : s \in UNION {[1..n -> Leaves] : n \in 0..2}}
DictsOver(keys, values) == {Dict(f) : f \in UNION {[ks -> values] : ks \in SUBSET keys}}

\* All that is not higher than 0, 1, 2 and 3.
Layer1 == Leaves \cup Lists
Layer2 == Layer1 \cup DictsOver({b}, Leaves \cup {List(<<l>>) : l \in Leaves})

MCDocuments == Layer2 \cup DictsOver({a, b}, Layer2)

MCHeight ==
  [d \in MCDocuments |->
     IF d \in Leaves THEN 0 ELSE IF d \in Layer1 THEN 1 ELSE IF d \in Layer2 THEN 2 ELSE 3]
===============================================================================
