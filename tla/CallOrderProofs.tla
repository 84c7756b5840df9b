--------------------------- MODULE CallOrderProofs ---------------------------
(***************************************************************************)
(* CallOrder: "finished before it was requested" is a strict order that    *)
(* stays within a run, for any calls and any runs.  What makes it          *)
(* inductive: only closed calls of the same run are ever behind a call,    *)
(* and with a call everything behind that call.                            *)
(***************************************************************************)
EXTENDS CallOrder, TLAPS

BehindIsClosed ==
  \A c, d \in Calls : d \in behind[c] => status[d] = "closed" /\ runOf[d] = runOf[c]
BehindIsInherited == \A c, d \in Calls : c \in behind[d] => behind[c] \subseteq behind[d]
BehindIsProper == \A c \in Calls : c \notin behind[c]

IInv == TypeOK /\ BehindIsClosed /\ BehindIsInherited /\ BehindIsProper

LEMMA TypeStep == TypeOK /\ [Next]_vars => TypeOK'
  BY DEF TypeOK, Next, vars, Begin, Close, Lose, ClosedIn

LEMMA BeginStep ==
  ASSUME IInv, NEW c \in Calls, NEW r \in Runs, NEW s \in {"open", "closed", "lost"},
         Begin(c, r, s)
  PROVE  (BehindIsClosed /\ BehindIsInherited /\ BehindIsProper)'
<1> DEFINE Fresh == IF s = "lost" THEN {} ELSE ClosedIn(r)
<1>1. Fresh \subseteq Calls /\ c \notin Fresh
  BY DEF Begin, ClosedIn
<1>2. \A d \in Calls : /\ status'[d] = IF d = c THEN s ELSE status[d]
                       /\ runOf'[d] = IF d = c THEN {r} ELSE runOf[d]
                       /\ behind'[d] = IF d = c THEN Fresh ELSE behind[d]
  BY DEF Begin, IInv, TypeOK
<1>3. \A d \in Calls : c \notin behind[d]
  BY DEF Begin, IInv, BehindIsClosed
<1>4. \A d \in Fresh : status[d] = "closed" /\ runOf[d] = {r}
  BY DEF ClosedIn
<1>5. \A d \in Fresh : behind[d] \subseteq Fresh
  <2> SUFFICES ASSUME NEW d \in Fresh, NEW b \in behind[d] PROVE b \in Fresh
    OBVIOUS
  <2>1. d \in Calls /\ b \in Calls
    BY <1>1 DEF IInv, TypeOK
  <2>2. status[b] = "closed" /\ runOf[b] = {r}
    BY <2>1, <1>4 DEF IInv, BehindIsClosed
  <2> QED
    BY <2>1, <2>2 DEF ClosedIn
<1> HIDE DEF Fresh
<1>6. BehindIsClosed'
  BY <1>1, <1>2, <1>3, <1>4 DEF IInv, BehindIsClosed
<1>7. BehindIsInherited'
  BY <1>1, <1>2, <1>3, <1>5 DEF IInv, BehindIsInherited
<1>8. BehindIsProper'
  BY <1>1, <1>2 DEF IInv, BehindIsProper
<1> QED
  BY <1>6, <1>7, <1>8

LEMMA EndStep ==
  ASSUME IInv, NEW c \in Calls, Close(c) \/ Lose(c)
  PROVE  (BehindIsClosed /\ BehindIsInherited /\ BehindIsProper)'
<1>1. \A d \in Calls : runOf'[d] = runOf[d] /\ behind'[d] \subseteq behind[d]
  BY DEF Close, Lose, IInv, TypeOK
<1>2. \A d \in Calls : status[d] = "closed" => status'[d] = "closed" /\ behind'[d] = behind[d]
  BY DEF Close, Lose, IInv, TypeOK
<1>3. BehindIsClosed'
  BY <1>1, <1>2 DEF IInv, BehindIsClosed
<1>4. BehindIsProper'
  BY <1>1 DEF IInv, BehindIsProper
<1>5. BehindIsInherited'
  <2> SUFFICES ASSUME NEW a \in Calls, NEW d \in Calls, a \in behind'[d]
               PROVE  behind'[a] \subseteq behind'[d]
    BY DEF BehindIsInherited
  <2>1. behind'[a] \subseteq behind[d]
    BY <1>1 DEF IInv, BehindIsInherited
  <2>2. behind'[d] = behind[d]
    BY <2>1 DEF Close, Lose, IInv, TypeOK
  <2> QED
    BY <2>1, <2>2
<1> QED
  BY <1>3, <1>4, <1>5

\* The order that CallOrder promises is strict on closed calls and relates calls of the
\* same run only: what an ordering invariant over the trace (ordering.py) relies on.
THEOREM StrictOrder == Spec => []OrderIsStrict
<1>1. Init => IInv
  BY DEF Init, IInv, TypeOK, BehindIsClosed, BehindIsInherited, BehindIsProper
<1>2. IInv /\ [Next]_vars => IInv'
  <2> SUFFICES ASSUME IInv, [Next]_vars PROVE IInv'
    OBVIOUS
  <2>1. TypeOK'
    BY TypeStep DEF IInv
  <2>2. CASE UNCHANGED vars
    BY <2>1, <2>2 DEF vars, IInv, BehindIsClosed, BehindIsInherited, BehindIsProper
  <2>3. CASE Next
    <3>1. PICK c \in Calls : \/ \E r \in Runs, s \in {"open", "closed", "lost"} : Begin(c, r, s)
                             \/ Close(c) \/ Lose(c)
      BY <2>3 DEF Next
    <3>2. (BehindIsClosed /\ BehindIsInherited /\ BehindIsProper)'
      BY <3>1, BeginStep, EndStep
    <3> QED
      BY <2>1, <3>2 DEF IInv
  <2> QED
    BY <2>2, <2>3
<1>3. IInv => OrderIsStrict
  BY DEF IInv, TypeOK, BehindIsClosed, BehindIsInherited, BehindIsProper,
         OrderIsStrict, HappenedBefore
<1> QED
  BY <1>1, <1>2, <1>3, PTL DEF Spec
===============================================================================
