---------------------------- MODULE StateDifferences ----------------------------
(***************************************************************************)
(* diff_states of evaluation.py: how two JSON documents differ.  The runner*)
(* names the drift of an initial state by it, and reports by it what the   *)
(* faulted run left different from the baseline.                           *)
(*                                                                         *)
(* A document is a leaf with a Python value, a dict with a function of its *)
(* keys, or a list with a sequence.  A path is the sequence of keys and    *)
(* positions that leads to a place; the code writes it as a.b[0], which is *)
(* the same for keys that are not empty and hold no dot or bracket, as in  *)
(* the snapshots of a scenario.                                            *)
(***************************************************************************)
EXTENDS ReusableInvariants, SequencesExt, Naturals

CONSTANTS
  Documents,   \* some documents, with all that is in them
  Height,      \* of each document; what is in a dict or list is less high
  KeyOrder,    \* the keys in the order in which Python sorts them
  NotYet       \* no comparison was made

VARIABLES left, right, differences

vars == <<left, right, differences>>

Keys == Range(KeyOrder)
Steps == Keys \cup (Nat \ {0})
Paths == Seq(Steps)

Leaf(value) == [kind |-> "leaf", value |-> value]
Dict(fields) == [kind |-> "dict", fields |-> fields]
List(items) == [kind |-> "list", items |-> items]

Children(d) ==
  CASE d.kind = "dict" -> d.fields [] d.kind = "list" -> d.items [] d.kind = "leaf" -> <<>>

StepsIn(d) == DOMAIN Children(d)

ASSUME KeysAssumption ==
  /\ KeyOrder \in Seq(Keys) /\ Keys \cap Nat = {}
  /\ \A i, j \in DOMAIN KeyOrder : KeyOrder[i] = KeyOrder[j] => i = j

ASSUME DocumentsAssumption ==
  \A d \in Documents :
    /\ Height[d] \in Nat
    /\ \/ d.kind = "leaf"
       \/ d.kind = "dict" /\ DOMAIN d.fields \subseteq Keys
       \/ d.kind = "list" /\ d.items \in Seq(Documents)
    /\ \A step \in StepsIn(d) :
         Children(d)[step] \in Documents /\ Height[Children(d)[step]] < Height[d]

AreLike(d, e) == d.kind = e.kind /\ d.kind # "leaf"

-----------------------------------------------------------------------------
\* The code.

Entry(path, change, values) == [path |-> path, change |-> change, values |-> values]

\* Keys in order.
Sorted(keys) ==
  FlattenSeq([i \in DOMAIN KeyOrder |-> IF KeyOrder[i] \in keys THEN <<KeyOrder[i]>> ELSE <<>>])

\* Mutant: the places of a list end with its shorter version.
StepsOf_shorter(d, e) ==
  IF d.kind = "dict"
  THEN Sorted(StepsIn(d) \cup StepsIn(e))
  ELSE [i \in StepsIn(d) \cap StepsIn(e) |-> i]

\* Where to look in two dicts, or in two lists: in either of them, in order.
StepsOf(d, e) ==
  IF d.kind = "dict"
  THEN Sorted(StepsIn(d) \cup StepsIn(e))
  ELSE [i \in StepsIn(d) \cup StepsIn(e) |-> i]

\* left != right of two values that are not both dicts and not both lists.
AreUnequal(d, e) == d.kind # e.kind \/ ~PythonEqual(d.value, e.value)

\* _diff.  What is on one side only is reported as a whole.
Diff[x \in Documents \X Documents \X Paths] ==
  LET d == x[1]  e == x[2]  path == x[3]
      steps == StepsOf(d, e)
      At(step) ==
        LET child == Append(path, step)
        IN  CASE step \notin StepsIn(e) -> <<Entry(child, "removed", <<Children(d)[step]>>)>>
              [] step \notin StepsIn(d) -> <<Entry(child, "added", <<Children(e)[step]>>)>>
              [] OTHER -> Diff[<<Children(d)[step], Children(e)[step], child>>]
  IN  IF AreLike(d, e) THEN FlattenSeq([i \in DOMAIN steps |-> At(steps[i])])
      ELSE IF AreUnequal(d, e) THEN <<Entry(path, "changed", <<d, e>>)>> ELSE <<>>

Dicts == {d \in Documents : d.kind = "dict"}

Init == left \in Dicts /\ right \in Dicts /\ differences = NotYet

\* diff_states
DiffStates ==
  /\ differences = NotYet
  /\ differences' = Diff[<<left, right, <<>>>>]
  /\ UNCHANGED <<left, right>>

Next == DiffStates

Spec == Init /\ [][Next]_vars

-----------------------------------------------------------------------------
\* The reference: what is at each place of both documents, instead of a traversal.

\* left == right of Python.
AreEqual[x \in Documents \X Documents] ==
  LET d == x[1]  e == x[2]
  IN  IF AreLike(d, e)
      THEN /\ StepsIn(d) = StepsIn(e)
           /\ \A step \in StepsIn(d) : AreEqual[<<Children(d)[step], Children(e)[step]>>]
      ELSE d.kind = e.kind /\ PythonEqual(d.value, e.value)

\* The places of a document that is itself at a path, with what is there.
Places[x \in Documents \X Paths] ==
  LET d == x[1]  path == x[2]
  IN  {[path |-> path, at |-> d]} \cup
      UNION {Places[<<Children(d)[step], Append(path, step)>>] : step \in StepsIn(d)}

\* The places that two documents have both, with what each has there.
Shared(d, e, path) ==
  {x \in Places[<<d, path>>] \X Places[<<e, path>>] : x[1].path = x[2].path}

\* What is in a dict or list at a place of both, and in one of the two only.
OnlyIn(d, e, path, change) ==
  {Entry(Append(path, step), change, <<Children(d)[step]>>) : step \in StepsIn(d) \ StepsIn(e)}

Told(d, e, path) ==
  IF AreLike(d, e) THEN OnlyIn(d, e, path, "removed") \cup OnlyIn(e, d, path, "added")
  ELSE IF AreEqual[<<d, e>>] THEN {} ELSE {Entry(path, "changed", <<d, e>>)}

Expected(d, e, path) ==
  UNION {Told(x[1].at, x[2].at, x[1].path) : x \in Shared(d, e, path)}

KeyNumber(key) == CHOOSE i \in DOMAIN KeyOrder : KeyOrder[i] = key
Rank(step) == IF step \in Nat THEN step ELSE KeyNumber(step)

\* The order of paths: by the first step in which they differ.
Precedes(p, q) ==
  \E n \in DOMAIN p \cap DOMAIN q :
    SubSeq(p, 1, n - 1) = SubSeq(q, 1, n - 1) /\ Rank(p[n]) < Rank(q[n])

\* The differences of two documents are exactly what the documents say place by place, each
\* place once and in the order of the paths, and never both of a place and of one inside it;
\* and there are none exactly if Python calls the documents equal.  The runner relies on the
\* last when it names the drift of an initial state that is unequal to the declared one.
DifferencesAreExact ==
  differences # NotYet =>
    /\ {differences[i] : i \in DOMAIN differences} = Expected(left, right, <<>>)
    /\ \A i, j \in DOMAIN differences :
          i < j => Precedes(differences[i].path, differences[j].path)
    /\ differences = <<>> <=> AreEqual[<<left, right>>]
===============================================================================
