-------------------------- MODULE StateDifferencesProofs --------------------------
(***************************************************************************)
(* The differences of two documents are exact, whatever their depth, their *)
(* keys and their values.  The proof is by induction over the height of    *)
(* the first document (DiffIsExact): what is to be reported of two dicts   *)
(* or lists is what is to be reported of each step from them, the parts of *)
(* different steps are in the order of the steps because every path starts *)
(* with the path of its step, and two documents that are not alike share   *)
(* no place but their own.                                                 *)
(***************************************************************************)
EXTENDS StateDifferences, Recursion

\* What is in a document is a document, and less high.
LEMMA ChildrenAreLower ==
  ASSUME NEW d \in Documents
  PROVE  /\ Height[d] \in Nat /\ StepsIn(d) \subseteq Steps
         /\ d.kind = "leaf" => StepsIn(d) = {}
         /\ \A step \in StepsIn(d) :
              /\ Children(d)[step] \in Documents
              /\ Height[Children(d)[step]] \in Nat /\ Height[Children(d)[step]] < Height[d]
<1>1. StepsIn(d) \subseteq Steps
  <2>1. CASE d.kind = "leaf"
    BY <2>1 DEF StepsIn, Children
  <2>2. CASE d.kind = "dict" /\ DOMAIN d.fields \subseteq Keys
    BY <2>2 DEF StepsIn, Children, Steps
  <2>3. CASE d.kind = "list" /\ d.items \in Seq(Documents)
    <3>1. DOMAIN d.items = 1..Len(d.items) /\ Len(d.items) \in Nat
      BY <2>3
    <3>. QED
      BY <2>3, <3>1 DEF StepsIn, Children, Steps
  <2>. QED
    BY <2>1, <2>2, <2>3, DocumentsAssumption
<1>2. d.kind = "leaf" => StepsIn(d) = {}
  BY DEF StepsIn, Children
<1>. QED
  BY <1>1, <1>2, DocumentsAssumption

\* What the definition of the reference's places says.
PlacesOf(g, d, path) ==
  {[path |-> path, at |-> d]} \cup
  UNION {g[<<Children(d)[step], Append(path, step)>>] : step \in StepsIn(d)}

LEMMA PlacesUnfold ==
  \A d \in Documents, path \in Paths : Places[<<d, path>>] = PlacesOf(Places, d, path)
<1>. DEFINE D == Documents \X Paths
            R == SUBSET [path : Paths, at : Documents]
            rank == [x \in D |-> Height[x[1]]]
            F == [g \in [D -> R] |-> [x \in D |-> PlacesOf(g, x[1], x[2])]]
<1>1. \A d \in Documents, path \in Paths : \A step \in StepsIn(d) :
        /\ <<Children(d)[step], Append(path, step)>> \in D
        /\ rank[<<Children(d)[step], Append(path, step)>>] < rank[<<d, path>>]
  <2>. TAKE d \in Documents, path \in Paths
  <2>. TAKE step \in StepsIn(d)
  <2>1. Children(d)[step] \in Documents /\ Height[Children(d)[step]] < Height[d] /\ step \in Steps
    BY ChildrenAreLower
  <2>2. Append(path, step) \in Paths
    BY <2>1, AppendProperties DEF Paths
  <2>. QED
    BY <2>1, <2>2
<1>2. \A g \in [D -> R], d \in Documents, path \in Paths : PlacesOf(g, d, path) \in R
  <2>. TAKE g \in [D -> R], d \in Documents, path \in Paths
  <2>1. \A step \in StepsIn(d) : g[<<Children(d)[step], Append(path, step)>>] \in R
    <3>. HIDE DEF R, D
    <3>. QED
      BY <1>1
  <2>2. [path |-> path, at |-> d] \in [path : Paths, at : Documents]
    OBVIOUS
  <2>. DEFINE Inner == {g[<<Children(d)[step], Append(path, step)>>] : step \in StepsIn(d)}
  <2>3. UNION Inner \subseteq [path : Paths, at : Documents]
    BY <2>1
  <2>4. PlacesOf(g, d, path) = {[path |-> path, at |-> d]} \cup UNION Inner
    BY DEF PlacesOf
  <2>. HIDE DEF Inner
  <2>. QED
    BY <2>2, <2>3, <2>4
<1>3. F \in [[D -> R] -> [D -> R]]
  BY <1>2
<1>4. ASSUME NEW g \in [D -> R], NEW h \in [D -> R], NEW x \in D,
             \A y \in D : rank[y] < rank[x] => g[y] = h[y]
      PROVE  F[g][x] = F[h][x]
  <2>. DEFINE d == x[1]  path == x[2]
  <2>1. F[g][x] = PlacesOf(g, d, path) /\ F[h][x] = PlacesOf(h, d, path)
    OBVIOUS
  <2>2. d \in Documents /\ path \in Paths /\ x = <<d, path>>
    OBVIOUS
  <2>. HIDE DEF F, d, path
  <2>3. \A step \in StepsIn(d) :
          g[<<Children(d)[step], Append(path, step)>>] = h[<<Children(d)[step], Append(path, step)>>]
    BY <1>1, <1>4, <2>2
  <2>4. {g[<<Children(d)[step], Append(path, step)>>] : step \in StepsIn(d)}
        = {h[<<Children(d)[step], Append(path, step)>>] : step \in StepsIn(d)}
    BY <2>3
  <2>. QED
    BY <2>1, <2>4 DEF PlacesOf
<1>5. \E g \in [D -> R] : g = F[g]
  <2>1. R # {} /\ \A x \in D : rank[x] \in Nat
    BY ChildrenAreLower
  <2>. HIDE DEF F, R, D, rank
  <2>2. LooksBelow(F, D, R, rank)
    BY <1>3, <1>4, <2>1 DEF LooksBelow
  <2>. QED
    BY <2>2, FixedPoint
<1>. DEFINE Is(g) == g = [x \in D |-> PlacesOf(g, x[1], x[2])]
<1>6. \E g : Is(g)
  BY <1>5
<1>7. Places = CHOOSE g : Is(g)
  BY DEF Places, PlacesOf
<1>8. Is(Places)
  <2>. HIDE DEF Is
  <2>. QED
    BY <1>6, <1>7
<1>. QED
  BY <1>8

-----------------------------------------------------------------------------
\* The order of steps is that of natural numbers.
LEMMA RanksOfSteps ==
  /\ \A i \in DOMAIN KeyOrder : KeyOrder[i] \in Steps /\ Rank(KeyOrder[i]) = i
  /\ \A n \in Nat \ {0} : n \in Steps /\ Rank(n) = n
<1>1. ASSUME NEW i \in DOMAIN KeyOrder PROVE KeyOrder[i] \in Steps /\ Rank(KeyOrder[i]) = i
  <2>1. KeyOrder[i] \in Keys /\ KeyOrder[i] \notin Nat
    BY KeysAssumption DEF Keys, Range
  <2>. DEFINE Is(j) == j \in DOMAIN KeyOrder /\ KeyOrder[j] = KeyOrder[i]
  <2>2. \A j : Is(j) => j = i
    BY KeysAssumption
  <2>3. KeyNumber(KeyOrder[i]) = CHOOSE j : Is(j)
    BY DEF KeyNumber
  <2>4. Is(CHOOSE j : Is(j))
    <3>1. Is(i)
      OBVIOUS
    <3>. HIDE DEF Is
    <3>. QED
      BY <3>1
  <2>. HIDE DEF Is
  <2>5. KeyNumber(KeyOrder[i]) = i
    BY <2>2, <2>3, <2>4
  <2>. QED
    BY <2>1, <2>5 DEF Rank, Steps
<1>. QED
  BY <1>1 DEF Rank, Steps

StepOrder == {x \in Steps \X Steps : Rank(x[1]) < Rank(x[2])}

\* Keys are sorted.
LEMMA SortedProperties ==
  ASSUME NEW keys \in SUBSET Keys
  PROVE  Sorted(keys) \in Seq(Steps) /\ Range(Sorted(keys)) = keys /\ Ascends(Sorted(keys), StepOrder)
<1>. DEFINE seqs == [i \in DOMAIN KeyOrder |->
                       IF KeyOrder[i] \in keys THEN <<KeyOrder[i]>> ELSE <<>>]
<1>1. DOMAIN KeyOrder = 1..Len(KeyOrder) /\ Len(KeyOrder) \in Nat
  BY KeysAssumption
<1>2. \A i \in DOMAIN KeyOrder : seqs[i] \in Seq(Steps) /\ Ascends(seqs[i], StepOrder)
  <2>. TAKE i \in DOMAIN KeyOrder
  <2>1. CASE KeyOrder[i] \in keys
    BY <2>1, RanksOfSteps DEF Ascends
  <2>2. CASE KeyOrder[i] \notin keys
    BY <2>2 DEF Ascends
  <2>. QED
    BY <2>1, <2>2
<1>3. \A i \in DOMAIN KeyOrder : Range(seqs[i]) = {KeyOrder[i]} \cap keys
  <2>. TAKE i \in DOMAIN KeyOrder
  <2>1. CASE KeyOrder[i] \in keys
    BY <2>1 DEF Range
  <2>2. CASE KeyOrder[i] \notin keys
    BY <2>2 DEF Range
  <2>. QED
    BY <2>1, <2>2
<1>4. DOMAIN seqs = DOMAIN KeyOrder /\ Sorted(keys) = FlattenSeq(seqs)
  BY DEF Sorted
<1>. HIDE DEF seqs
<1>5. seqs \in Seq(Seq(Steps))
  <2>1. seqs = [i \in 1..Len(KeyOrder) |-> seqs[i]]
    BY <1>1, <1>4 DEF seqs
  <2>2. seqs \in [1..Len(KeyOrder) -> Seq(Steps)]
    BY <1>1, <1>2, <2>1
  <2>. QED
    BY <1>1, <2>2, SeqDef
<1>6. \A i, j \in DOMAIN seqs : i < j =>
        \A x \in Range(seqs[i]), y \in Range(seqs[j]) : <<x, y>> \in StepOrder
  BY <1>1, <1>3, <1>4, RanksOfSteps DEF StepOrder
<1>7. UNION {Range(seqs[i]) : i \in DOMAIN seqs} = keys
  <2>1. \A k \in keys : \E i \in DOMAIN KeyOrder : KeyOrder[i] = k
    BY DEF Keys, Range
  <2>. QED
    BY <1>3, <1>4, <2>1
<1>. QED
  BY <1>2, <1>4, <1>5, <1>6, <1>7, FlattenProperties

\* Two dicts or two lists are compared wherever either has something, in order.
LEMMA StepsOfProperties ==
  ASSUME NEW d \in Documents, NEW e \in Documents, AreLike(d, e)
  PROVE  /\ StepsOf(d, e) \in Seq(Steps)
         /\ Range(StepsOf(d, e)) = StepsIn(d) \cup StepsIn(e)
         /\ Ascends(StepsOf(d, e), StepOrder)
<1>1. CASE d.kind = "dict"
  <2>1. d.kind = "dict" /\ e.kind = "dict"
    BY <1>1 DEF AreLike
  <2>2. StepsIn(d) \cup StepsIn(e) \in SUBSET Keys
    BY <2>1, DocumentsAssumption DEF StepsIn, Children
  <2>. QED
    BY <1>1, <2>2, SortedProperties DEF StepsOf
<1>2. CASE d.kind # "dict"
  <2>1. d.kind = "list" /\ e.kind = "list" /\ d.items \in Seq(Documents) /\ e.items \in Seq(Documents)
    BY <1>2, DocumentsAssumption DEF AreLike
  <2>2. StepsIn(d) = 1..Len(d.items) /\ StepsIn(e) = 1..Len(e.items)
    BY <2>1 DEF StepsIn, Children
  <2>3. PICK n \in Nat : StepsIn(d) \cup StepsIn(e) = 1..n
    <3>1. Len(d.items) \in Nat /\ Len(e.items) \in Nat
      BY <2>1
    <3>2. CASE Len(d.items) <= Len(e.items)
      BY <2>2, <3>1, <3>2
    <3>3. CASE Len(e.items) <= Len(d.items)
      BY <2>2, <3>1, <3>3
    <3>. QED
      BY <3>1, <3>2, <3>3
  <2>4. StepsOf(d, e) = [i \in 1..n |-> i]
    BY <2>1, <2>3 DEF StepsOf
  <2>5. \A i \in 1..n : i \in Steps /\ Rank(i) = i
    BY RanksOfSteps
  <2>6. [i \in 1..n |-> i] \in Seq(Steps)
    BY <2>5, SeqDef
  <2>7. Range([i \in 1..n |-> i]) = 1..n
    BY DEF Range
  <2>8. Ascends([i \in 1..n |-> i], StepOrder)
    BY <2>5 DEF Ascends, StepOrder
  <2>. QED
    BY <2>3, <2>4, <2>6, <2>7, <2>8
<1>. QED
  BY <1>1, <1>2

-----------------------------------------------------------------------------
\* What the definition of equality says.
EqualOf(g, d, e) ==
  IF AreLike(d, e)
  THEN /\ StepsIn(d) = StepsIn(e)
       /\ \A step \in StepsIn(d) : g[<<Children(d)[step], Children(e)[step]>>]
  ELSE d.kind = e.kind /\ PythonEqual(d.value, e.value)

LEMMA AreEqualUnfolds ==
  \A d \in Documents, e \in Documents : AreEqual[<<d, e>>] <=> EqualOf(AreEqual, d, e)
<1>. DEFINE D == Documents \X Documents
            rank == [x \in D |-> Height[x[1]]]
            F == [g \in [D -> BOOLEAN] |-> [x \in D |-> EqualOf(g, x[1], x[2])]]
<1>1. \A d \in Documents, e \in Documents : EqualOf(AreEqual, d, e) \in BOOLEAN
  BY DEF EqualOf
<1>2. \A g \in [D -> BOOLEAN], x \in D : EqualOf(g, x[1], x[2]) \in BOOLEAN
  BY DEF EqualOf
<1>3. F \in [[D -> BOOLEAN] -> [D -> BOOLEAN]]
  BY <1>2
<1>4. ASSUME NEW g \in [D -> BOOLEAN], NEW h \in [D -> BOOLEAN], NEW x \in D,
             \A y \in D : rank[y] < rank[x] => g[y] = h[y]
      PROVE  F[g][x] = F[h][x]
  <2>. DEFINE d == x[1]  e == x[2]
  <2>1. F[g][x] = EqualOf(g, d, e) /\ F[h][x] = EqualOf(h, d, e)
    OBVIOUS
  <2>2. d \in Documents /\ e \in Documents /\ x = <<d, e>>
    OBVIOUS
  <2>3. CASE AreLike(d, e) /\ StepsIn(d) = StepsIn(e)
    <3>1. ASSUME NEW step \in StepsIn(d)
          PROVE  g[<<Children(d)[step], Children(e)[step]>>] = h[<<Children(d)[step], Children(e)[step]>>]
      <4>. DEFINE y == <<Children(d)[step], Children(e)[step]>>
      <4>1. y \in D /\ rank[y] < rank[x]
        <5>. HIDE DEF d, e
        <5>. QED
          BY <2>2, <2>3, <3>1, ChildrenAreLower
      <4>. HIDE DEF y
      <4>2. g[y] = h[y]
        BY <1>4, <4>1
      <4>. QED
        BY <4>2 DEF y
    <3>. HIDE DEF F, d, e
    <3>. QED
      BY <2>1, <2>3, <3>1 DEF EqualOf
  <2>4. CASE ~(AreLike(d, e) /\ StepsIn(d) = StepsIn(e))
    <3>. HIDE DEF F, d, e
    <3>. QED
      BY <2>1, <2>4 DEF EqualOf
  <2>. QED
    BY <2>3, <2>4
<1>5. \E g \in [D -> BOOLEAN] : g = F[g]
  <2>1. BOOLEAN # {} /\ \A x \in D : rank[x] \in Nat
    BY ChildrenAreLower
  <2>. HIDE DEF F, D, rank
  <2>2. LooksBelow(F, D, BOOLEAN, rank)
    BY <1>3, <1>4, <2>1 DEF LooksBelow
  <2>. QED
    BY <2>2, FixedPoint
<1>. DEFINE Is(g) == g = [x \in D |-> EqualOf(g, x[1], x[2])]
<1>6. \E g : Is(g)
  BY <1>5
<1>7. AreEqual = CHOOSE g : Is(g)
  BY DEF AreEqual, EqualOf
<1>8. Is(AreEqual)
  <2>. HIDE DEF Is
  <2>. QED
    BY <1>6, <1>7
<1>. QED
  BY <1>8

-----------------------------------------------------------------------------
Entries == [path : Paths, change : {"removed", "added", "changed"}, values : Seq(Documents)]

\* What the code's traversal reports of one step, and of two documents.
ReportOf(g, d, e, path, step) ==
  LET child == Append(path, step)
  IN  CASE step \notin StepsIn(e) -> <<Entry(child, "removed", <<Children(d)[step]>>)>>
        [] step \notin StepsIn(d) -> <<Entry(child, "added", <<Children(e)[step]>>)>>
        [] OTHER -> g[<<Children(d)[step], Children(e)[step], child>>]

ReportsOf(g, d, e, path) ==
  [i \in DOMAIN StepsOf(d, e) |-> ReportOf(g, d, e, path, StepsOf(d, e)[i])]

DiffOf(g, d, e, path) ==
  IF AreLike(d, e) THEN FlattenSeq(ReportsOf(g, d, e, path))
  ELSE IF AreUnequal(d, e) THEN <<Entry(path, "changed", <<d, e>>)>> ELSE <<>>

\* A step leads to a place of one of the documents, or of both.
LEMMA StepsLead ==
  ASSUME NEW d \in Documents, NEW e \in Documents, AreLike(d, e),
         NEW path \in Paths, NEW i \in DOMAIN StepsOf(d, e)
  PROVE  LET step == StepsOf(d, e)[i]
         IN  /\ step \in StepsIn(d) \cup StepsIn(e) /\ step \in Steps /\ Append(path, step) \in Paths
             /\ step \in StepsIn(d) \cap StepsIn(e) =>
                  /\ <<Children(d)[step], Children(e)[step], Append(path, step)>>
                       \in Documents \X Documents \X Paths
                  /\ Height[Children(d)[step]] < Height[d]
<1>. DEFINE step == StepsOf(d, e)[i]
<1>1. step \in StepsIn(d) \cup StepsIn(e)
  BY StepsOfProperties DEF Range
<1>2. step \in Steps
  BY <1>1, ChildrenAreLower
<1>3. Append(path, step) \in Paths
  BY <1>2, AppendProperties DEF Paths
<1>4. step \in StepsIn(d) \cap StepsIn(e) =>
        Children(d)[step] \in Documents /\ Children(e)[step] \in Documents /\ Height[Children(d)[step]] < Height[d]
  BY ChildrenAreLower
<1>. QED
  BY <1>1, <1>2, <1>3, <1>4

\* The reports of the steps are entries if those of the places that both have are.
LEMMA ReportsType ==
  ASSUME NEW d \in Documents, NEW e \in Documents, AreLike(d, e), NEW path \in Paths, NEW g,
         \A step \in StepsIn(d) \cap StepsIn(e) :
           g[<<Children(d)[step], Children(e)[step], Append(path, step)>>] \in Seq(Entries)
  PROVE  ReportsOf(g, d, e, path) \in Seq(Seq(Entries))
<1>1. StepsOf(d, e) \in Seq(Steps)
  BY StepsOfProperties
<1>2. DOMAIN StepsOf(d, e) = 1..Len(StepsOf(d, e)) /\ Len(StepsOf(d, e)) \in Nat
  BY <1>1
<1>3. ASSUME NEW i \in DOMAIN StepsOf(d, e)
      PROVE  ReportOf(g, d, e, path, StepsOf(d, e)[i]) \in Seq(Entries)
  <2>. DEFINE step == StepsOf(d, e)[i]
  <2>1. step \in StepsIn(d) \cup StepsIn(e) /\ Append(path, step) \in Paths
    BY StepsLead
  <2>. HIDE DEF step
  <2>2. CASE step \notin StepsIn(e)
    <3>1. Children(d)[step] \in Documents
      BY <2>1, <2>2, ChildrenAreLower
    <3>2. Entry(Append(path, step), "removed", <<Children(d)[step]>>) \in Entries
      BY <2>1, <3>1 DEF Entry, Entries
    <3>. QED
      BY <2>1, <2>2, <3>2 DEF ReportOf, step
  <2>3. CASE step \in StepsIn(e) /\ step \notin StepsIn(d)
    <3>1. Children(e)[step] \in Documents
      BY <2>3, ChildrenAreLower
    <3>2. Entry(Append(path, step), "added", <<Children(e)[step]>>) \in Entries
      BY <2>1, <3>1 DEF Entry, Entries
    <3>. QED
      BY <2>3, <3>2 DEF ReportOf, step
  <2>4. CASE step \in StepsIn(d) \cap StepsIn(e)
    <3>1. g[<<Children(d)[step], Children(e)[step], Append(path, step)>>] \in Seq(Entries)
      BY <2>4
    <3>. QED
      BY <2>4, <3>1 DEF ReportOf, step
  <2>. QED
    BY <2>1, <2>2, <2>3, <2>4
<1>4. ReportsOf(g, d, e, path) \in [1..Len(StepsOf(d, e)) -> Seq(Entries)]
  BY <1>2, <1>3 DEF ReportsOf
<1>. QED
  BY <1>2, <1>4, SeqDef

\* What the definition of the traversal says.
LEMMA DiffUnfolds ==
  \A d \in Documents, e \in Documents, path \in Paths :
    Diff[<<d, e, path>>] = DiffOf(Diff, d, e, path)
<1>. DEFINE D == Documents \X Documents \X Paths
            R == Seq(Entries)
            rank == [x \in D |-> Height[x[1]]]
            F == [g \in [D -> R] |-> [x \in D |-> DiffOf(g, x[1], x[2], x[3])]]
<1>1. ASSUME NEW g \in [D -> R], NEW d \in Documents, NEW e \in Documents, NEW path \in Paths
      PROVE  DiffOf(g, d, e, path) \in R
  <2>1. CASE AreLike(d, e)
    <3>1. ASSUME NEW step \in StepsIn(d) \cap StepsIn(e)
          PROVE  g[<<Children(d)[step], Children(e)[step], Append(path, step)>>] \in Seq(Entries)
      <4>1. Children(d)[step] \in Documents /\ Children(e)[step] \in Documents /\ step \in Steps
        BY ChildrenAreLower
      <4>2. Append(path, step) \in Paths
        BY <4>1, AppendProperties DEF Paths
      <4>. QED
        BY <4>1, <4>2
    <3>. HIDE DEF R, D
    <3>2. ReportsOf(g, d, e, path) \in Seq(Seq(Entries))
      BY <2>1, <3>1, ReportsType
    <3>3. FlattenSeq(ReportsOf(g, d, e, path)) \in Seq(Entries)
      BY <3>2, FlattenProperties
    <3>. QED
      BY <2>1, <3>3 DEF DiffOf, R
  <2>2. CASE ~AreLike(d, e)
    <3>1. Entry(path, "changed", <<d, e>>) \in Entries
      BY DEF Entry, Entries
    <3>. QED
      BY <2>2, <3>1 DEF DiffOf
  <2>. QED
    BY <2>1, <2>2
<1>2. F \in [[D -> R] -> [D -> R]]
  <2>. HIDE DEF R
  <2>. QED
    BY <1>1
<1>3. ASSUME NEW g \in [D -> R], NEW h \in [D -> R], NEW x \in D,
             \A y \in D : rank[y] < rank[x] => g[y] = h[y]
      PROVE  F[g][x] = F[h][x]
  <2>. DEFINE d == x[1]  e == x[2]  path == x[3]
  <2>1. F[g][x] = DiffOf(g, d, e, path) /\ F[h][x] = DiffOf(h, d, e, path)
    <3>. HIDE DEF R
    <3>. QED
      OBVIOUS
  <2>2. d \in Documents /\ e \in Documents /\ path \in Paths /\ x = <<d, e, path>> /\ rank[x] = Height[d]
    OBVIOUS
  <2>. HIDE DEF F, d, e, path, R
  <2>3. CASE AreLike(d, e)
    <3>1. ASSUME NEW i \in DOMAIN StepsOf(d, e)
          PROVE  ReportOf(g, d, e, path, StepsOf(d, e)[i]) = ReportOf(h, d, e, path, StepsOf(d, e)[i])
      <4>. DEFINE step == StepsOf(d, e)[i]
                  y == <<Children(d)[step], Children(e)[step], Append(path, step)>>
      <4>1. step \in StepsIn(d) \cap StepsIn(e) => y \in D /\ Height[Children(d)[step]] < Height[d]
        BY <2>2, <2>3, StepsLead
      <4>2. step \in StepsIn(d) \cap StepsIn(e) => g[y] = h[y]
        <5>1. y \in D => rank[y] = Height[Children(d)[step]]
          OBVIOUS
        <5>. HIDE DEF y, D, rank
        <5>. QED
          BY <1>3, <2>2, <4>1, <5>1
      <4>. HIDE DEF step
      <4>3. CASE step \in StepsIn(d) \cap StepsIn(e)
        BY <4>2, <4>3 DEF ReportOf, step
      <4>4. CASE step \notin StepsIn(d) \cap StepsIn(e)
        BY <4>4 DEF ReportOf, step
      <4>. QED
        BY <4>3, <4>4
    <3>2. ReportsOf(g, d, e, path) = ReportsOf(h, d, e, path)
      BY <3>1 DEF ReportsOf
    <3>. QED
      BY <2>1, <2>3, <3>2 DEF DiffOf
  <2>4. CASE ~AreLike(d, e)
    BY <2>1, <2>4 DEF DiffOf
  <2>. QED
    BY <2>3, <2>4
<1>4. \E g \in [D -> R] : g = F[g]
  <2>1. R # {} /\ \A x \in D : rank[x] \in Nat
    <3>1. <<>> \in R
      OBVIOUS
    <3>2. \A x \in D : rank[x] = Height[x[1]] /\ x[1] \in Documents
      OBVIOUS
    <3>. HIDE DEF R, D, rank
    <3>. QED
      BY <3>1, <3>2, ChildrenAreLower
  <2>. HIDE DEF F, D, R, rank
  <2>2. LooksBelow(F, D, R, rank)
    BY <1>2, <1>3, <2>1 DEF LooksBelow
  <2>. QED
    BY <2>2, FixedPoint
<1>. DEFINE Is(g) == g = [x \in D |-> DiffOf(g, x[1], x[2], x[3])]
<1>5. \E g : Is(g)
  <2>. HIDE DEF R
  <2>. QED
    BY <1>4
<1>6. Diff = CHOOSE g : Is(g)
  BY DEF Diff, DiffOf, ReportsOf, ReportOf
<1>7. Is(Diff)
  <2>. HIDE DEF Is
  <2>. QED
    BY <1>5, <1>6
<1>. QED
  BY <1>7

-----------------------------------------------------------------------------
\* p is path or a path into what is there.
Below(p, path) ==
  p \in Paths /\ Len(path) <= Len(p) /\ \A i \in 1..Len(path) : p[i] = path[i]

\* What is below a step is below the place the step is taken from, and its path has the step.
LEMMA BelowAStep ==
  ASSUME NEW path \in Paths, NEW step \in Steps, NEW p, Below(p, Append(path, step))
  PROVE  Below(p, path) /\ Len(p) > Len(path) /\ p[Len(path) + 1] = step
<1>. DEFINE longer == Append(path, step)
<1>1. /\ longer \in Seq(Steps) /\ Len(longer) = Len(path) + 1 /\ Len(path) \in Nat
      /\ \A i \in 1..Len(path) : longer[i] = path[i]
      /\ longer[Len(path) + 1] = step
  BY AppendProperties DEF Paths
<1>. HIDE DEF longer
<1>2. p \in Seq(Steps) /\ Len(p) \in Nat /\ Len(longer) <= Len(p) /\ \A i \in 1..Len(longer) : p[i] = longer[i]
  <2>1. Below(p, longer)
    BY DEF longer
  <2>. QED
    BY <2>1 DEF Below, Paths
<1>3. \A i \in 1..Len(path) : p[i] = path[i]
  BY <1>1, <1>2
<1>4. p[Len(path) + 1] = step /\ Len(path) < Len(p)
  BY <1>1, <1>2
<1>. QED
  BY <1>1, <1>2, <1>3, <1>4 DEF Below, Paths

\* The places of a document at a path are below the path.
LEMMA PlacesAreBelow ==
  \A d \in Documents : \A path \in Paths : \A x \in Places[<<d, path>>] :
    x.at \in Documents /\ Below(x.path, path)
<1>. DEFINE Good == {d \in Documents : \A path \in Paths : \A x \in Places[<<d, path>>] :
                        x.at \in Documents /\ Below(x.path, path)}
<1>1. ASSUME NEW d \in Documents, \A c \in Documents : Height[c] < Height[d] => c \in Good
      PROVE  d \in Good
  <2>. SUFFICES ASSUME NEW path \in Paths, NEW x \in Places[<<d, path>>]
                PROVE  x.at \in Documents /\ Below(x.path, path)
    OBVIOUS
  <2>1. \/ x = [path |-> path, at |-> d]
        \/ \E step \in StepsIn(d) : x \in Places[<<Children(d)[step], Append(path, step)>>]
    BY PlacesUnfold DEF PlacesOf
  <2>2. CASE x = [path |-> path, at |-> d]
    BY <2>2 DEF Below
  <2>3. ASSUME NEW step \in StepsIn(d), x \in Places[<<Children(d)[step], Append(path, step)>>]
        PROVE  x.at \in Documents /\ Below(x.path, path)
    <3>1. Children(d)[step] \in Good /\ step \in Steps
      BY <1>1, ChildrenAreLower
    <3>2. Append(path, step) \in Paths
      BY <3>1, AppendProperties DEF Paths
    <3>3. x.at \in Documents /\ Below(x.path, Append(path, step))
      BY <2>3, <3>1, <3>2
    <3>. QED
      BY <3>1, <3>3, BelowAStep
  <2>. QED
    BY <2>1, <2>2, <2>3
<1>. HIDE DEF Good
<1>2. Documents \subseteq Good
  BY <1>1, ChildrenAreLower, RankInduction
<1>. QED
  BY <1>2 DEF Good

\* The places that two documents share: their own, and those shared by what is at the same
\* step in both.
LEMMA SharedUnfolds ==
  ASSUME NEW d \in Documents, NEW e \in Documents, NEW path \in Paths, NEW x
  PROVE  x \in Shared(d, e, path) <=>
           \/ x = <<[path |-> path, at |-> d], [path |-> path, at |-> e]>>
           \/ \E step \in StepsIn(d) \cap StepsIn(e) :
                x \in Shared(Children(d)[step], Children(e)[step], Append(path, step))
<1>. DEFINE A(step) == Places[<<Children(d)[step], Append(path, step)>>]
            B(step) == Places[<<Children(e)[step], Append(path, step)>>]
            dd == [path |-> path, at |-> d]
            ee == [path |-> path, at |-> e]
<1>1. \A y : y \in Places[<<d, path>>] <=> y = dd \/ \E step \in StepsIn(d) : y \in A(step)
  <2>1. Places[<<d, path>>] = PlacesOf(Places, d, path)
    BY PlacesUnfold
  <2>. QED
    BY <2>1 DEF PlacesOf
<1>2. \A y : y \in Places[<<e, path>>] <=> y = ee \/ \E step \in StepsIn(e) : y \in B(step)
  <2>1. Places[<<e, path>>] = PlacesOf(Places, e, path)
    BY PlacesUnfold
  <2>. QED
    BY <2>1 DEF PlacesOf
<1>3. \A step \in StepsIn(d) : \A y \in A(step) : Len(y.path) > Len(path) /\ y.path[Len(path) + 1] = step
  <2>. TAKE step \in StepsIn(d)
  <2>1. Children(d)[step] \in Documents /\ step \in Steps /\ Append(path, step) \in Paths
    BY ChildrenAreLower, AppendProperties DEF Paths
  <2>. QED
    BY <2>1, PlacesAreBelow, BelowAStep
<1>4. \A step \in StepsIn(e) : \A y \in B(step) : Len(y.path) > Len(path) /\ y.path[Len(path) + 1] = step
  <2>. TAKE step \in StepsIn(e)
  <2>1. Children(e)[step] \in Documents /\ step \in Steps /\ Append(path, step) \in Paths
    BY ChildrenAreLower, AppendProperties DEF Paths
  <2>. QED
    BY <2>1, PlacesAreBelow, BelowAStep
<1>5. dd.path = path /\ ee.path = path /\ ~(Len(path) > Len(path))
  BY DEF Paths
<1>. HIDE DEF dd, ee, A, B
<1>6. ASSUME x \in Shared(d, e, path)
      PROVE  \/ x = <<dd, ee>>
             \/ \E step \in StepsIn(d) \cap StepsIn(e) : x \in A(step) \X B(step)
  <2>1. /\ x[1] \in Places[<<d, path>>] /\ x[2] \in Places[<<e, path>>]
        /\ x[1].path = x[2].path /\ x = <<x[1], x[2]>>
    BY <1>6 DEF Shared
  <2>. QED
    BY <2>1, <1>1, <1>2, <1>3, <1>4, <1>5
<1>7. ASSUME NEW step \in StepsIn(d) \cap StepsIn(e), x \in A(step) \X B(step)
      PROVE  x \in Places[<<d, path>>] \X Places[<<e, path>>]
  BY <1>1, <1>2, <1>7
<1>8. <<dd, ee>> \in Shared(d, e, path)
  BY <1>1, <1>2, <1>5 DEF Shared
<1>9. \A step \in StepsIn(d) \cap StepsIn(e) :
        x \in Shared(Children(d)[step], Children(e)[step], Append(path, step)) <=>
          x \in A(step) \X B(step) /\ x[1].path = x[2].path
  BY DEF Shared, A, B
<1>10. x \in Shared(d, e, path) <=>
         x \in Places[<<d, path>>] \X Places[<<e, path>>] /\ x[1].path = x[2].path
  BY DEF Shared
<1>. QED
  BY <1>6, <1>7, <1>8, <1>9, <1>10 DEF dd, ee

\* A dict and a list have no step in common, and a leaf has none.
LEMMA UnlikeShareNothing ==
  ASSUME NEW d \in Documents, NEW e \in Documents, ~AreLike(d, e)
  PROVE  StepsIn(d) \cap StepsIn(e) = {}
<1>1. \A f \in Documents :
        /\ f.kind = "leaf" => StepsIn(f) = {}
        /\ f.kind = "dict" => StepsIn(f) \subseteq Keys
        /\ f.kind = "list" => StepsIn(f) \subseteq Nat
        /\ f.kind \in {"leaf", "dict", "list"}
  <2>. TAKE f \in Documents
  <2>1. f.kind = "list" => DOMAIN f.items = 1..Len(f.items) /\ Len(f.items) \in Nat
    BY DocumentsAssumption
  <2>2. f.kind = "dict" => DOMAIN f.fields \subseteq Keys
    BY DocumentsAssumption
  <2>3. f.kind \in {"leaf", "dict", "list"}
    BY DocumentsAssumption
  <2>. QED
    BY <2>1, <2>2, <2>3 DEF StepsIn, Children
<1>2. Keys \cap Nat = {}
  BY KeysAssumption
<1>. QED
  BY <1>1, <1>2 DEF AreLike

\* What is to be reported of two documents, step by step.
LEMMA ExpectedUnfolds ==
  ASSUME NEW d \in Documents, NEW e \in Documents, NEW path \in Paths
  PROVE  Expected(d, e, path) =
           Told(d, e, path) \cup
           UNION {Expected(Children(d)[step], Children(e)[step], Append(path, step)) :
                    step \in StepsIn(d) \cap StepsIn(e)}
<1>. DEFINE At(x) == Told(x[1].at, x[2].at, x[1].path)
            root == <<[path |-> path, at |-> d], [path |-> path, at |-> e]>>
            S(step) == Shared(Children(d)[step], Children(e)[step], Append(path, step))
<1>1. \A t : t \in Expected(d, e, path) <=> \E x \in Shared(d, e, path) : t \in At(x)
  BY DEF Expected
<1>2. \A step \in StepsIn(d) \cap StepsIn(e) : \A t :
        t \in Expected(Children(d)[step], Children(e)[step], Append(path, step)) <=>
          \E x \in S(step) : t \in At(x)
  BY DEF Expected
<1>3. \A x : x \in Shared(d, e, path) <=>
               x = root \/ \E step \in StepsIn(d) \cap StepsIn(e) : x \in S(step)
  BY SharedUnfolds
<1>4. At(root) = Told(d, e, path)
  OBVIOUS
<1>. HIDE DEF At, root, S
<1>5. \A t : t \in Expected(d, e, path) <=>
        \/ t \in Told(d, e, path)
        \/ \E step \in StepsIn(d) \cap StepsIn(e) : \E x \in S(step) : t \in At(x)
  BY <1>1, <1>3, <1>4
<1>6. \A t : t \in UNION {Expected(Children(d)[step], Children(e)[step], Append(path, step)) :
                            step \in StepsIn(d) \cap StepsIn(e)} <=>
        \E step \in StepsIn(d) \cap StepsIn(e) :
          t \in Expected(Children(d)[step], Children(e)[step], Append(path, step))
  OBVIOUS
<1>. QED
  BY <1>2, <1>5, <1>6

-----------------------------------------------------------------------------
EntryOrder == {x \in Entries \X Entries : Precedes(x[1].path, x[2].path)}

\* All that is to be reported of two documents at a path is below that path.
LEMMA ExpectedIsBelow ==
  ASSUME NEW d \in Documents, NEW e \in Documents, NEW path \in Paths,
         NEW t \in Expected(d, e, path)
  PROVE  Below(t.path, path)
<1>1. PICK x \in Shared(d, e, path) : t \in Told(x[1].at, x[2].at, x[1].path)
  BY DEF Expected
<1>2. x[1] \in Places[<<d, path>>] /\ x[2] \in Places[<<e, path>>]
  BY <1>1 DEF Shared
<1>. DEFINE p == x[1].path
<1>3. Below(p, path) /\ x[1].at \in Documents /\ x[2].at \in Documents
  BY <1>2, PlacesAreBelow
<1>. HIDE DEF p
<1>4. t.path = p \/ \E step \in StepsIn(x[1].at) \cup StepsIn(x[2].at) : t.path = Append(p, step)
  BY <1>1 DEF Told, OnlyIn, Entry, p
<1>5. ASSUME NEW step \in StepsIn(x[1].at) \cup StepsIn(x[2].at) PROVE Below(Append(p, step), path)
  <2>1. step \in Steps
    BY <1>3, ChildrenAreLower
  <2>2. p \in Seq(Steps) /\ Len(p) \in Nat /\ path \in Seq(Steps) /\ Len(path) \in Nat
    BY <1>3 DEF Below, Paths
  <2>3. /\ Append(p, step) \in Seq(Steps) /\ Len(Append(p, step)) = Len(p) + 1
        /\ \A i \in 1..Len(p) : Append(p, step)[i] = p[i]
    BY <2>1, <2>2, AppendProperties
  <2>. QED
    BY <1>3, <2>2, <2>3 DEF Below, Paths
<1>. QED
  BY <1>3, <1>4, <1>5

\* Places below different steps are in the order of the steps.
LEMMA StepsGiveTheOrder ==
  ASSUME NEW path \in Paths, NEW s \in Steps, NEW t \in Steps, Rank(s) < Rank(t),
         NEW p, Below(p, Append(path, s)), NEW q, Below(q, Append(path, t))
  PROVE  Precedes(p, q)
<1>. DEFINE n == Len(path) + 1
<1>1. /\ Below(p, path) /\ Len(p) > Len(path) /\ p[n] = s
      /\ Below(q, path) /\ Len(q) > Len(path) /\ q[n] = t
  BY BelowAStep
<1>2. /\ p \in Seq(Steps) /\ q \in Seq(Steps) /\ Len(path) \in Nat /\ path \in Seq(Steps)
      /\ Len(p) \in Nat /\ Len(q) \in Nat /\ DOMAIN p = 1..Len(p) /\ DOMAIN q = 1..Len(q)
      /\ \A i \in 1..Len(path) : p[i] = path[i] /\ q[i] = path[i]
  BY <1>1 DEF Below, Paths
<1>3. n \in DOMAIN p \cap DOMAIN q /\ n - 1 = Len(path)
  BY <1>1, <1>2
<1>4. SubSeq(p, 1, Len(path)) = SubSeq(q, 1, Len(path))
  <2>. DEFINE m == Len(path)
  <2>1. \A i \in 1..m : p[i] \in Steps /\ q[i] \in Steps
    BY <1>1, <1>2
  <2>2. /\ SubSeq(p, 1, m) \in Seq(Steps) /\ SubSeq(q, 1, m) \in Seq(Steps)
        /\ Len(SubSeq(p, 1, m)) = m /\ Len(SubSeq(q, 1, m)) = m
        /\ \A i \in 1..m : SubSeq(p, 1, m)[i] = p[i] /\ SubSeq(q, 1, m)[i] = q[i]
    BY <1>1, <1>2, <2>1
  <2>3. \A i \in 1..m : SubSeq(p, 1, m)[i] = SubSeq(q, 1, m)[i]
    BY <1>2, <2>2
  <2>4. SubSeq(p, 1, m) = SubSeq(q, 1, m)
    <3>. HIDE DEF m
    <3>. QED
      BY <2>2, <2>3, SeqEqual
  <2>. QED
    BY <2>4
<1>. QED
  BY <1>1, <1>3, <1>4 DEF Precedes

\* What the traversal is to return of two documents.
IsExact(d, e, path) ==
  /\ Diff[<<d, e, path>>] \in Seq(Entries)
  /\ Range(Diff[<<d, e, path>>]) = Expected(d, e, path)
  /\ Ascends(Diff[<<d, e, path>>], EntryOrder)
  /\ Expected(d, e, path) = {} <=> AreEqual[<<d, e>>]

LEMMA UnlikeIsExact ==
  ASSUME NEW d \in Documents, NEW e \in Documents, NEW path \in Paths, ~AreLike(d, e)
  PROVE  IsExact(d, e, path)
<1>. DEFINE changed == Entry(path, "changed", <<d, e>>)
<1>1. AreEqual[<<d, e>>] <=> ~AreUnequal(d, e)
  BY AreEqualUnfolds DEF EqualOf, AreUnequal
<1>2. Diff[<<d, e, path>>] = IF AreUnequal(d, e) THEN <<changed>> ELSE <<>>
  BY DiffUnfolds DEF DiffOf
<1>3. Expected(d, e, path) = Told(d, e, path)
  <2>. DEFINE Inner == UNION {Expected(Children(d)[step], Children(e)[step], Append(path, step)) :
                                step \in StepsIn(d) \cap StepsIn(e)}
  <2>1. Inner = {}
    BY UnlikeShareNothing
  <2>2. Expected(d, e, path) = Told(d, e, path) \cup Inner
    BY ExpectedUnfolds
  <2>. HIDE DEF Inner
  <2>. QED
    BY <2>1, <2>2
<1>4. Told(d, e, path) = IF AreUnequal(d, e) THEN {changed} ELSE {}
  BY <1>1 DEF Told
<1>5. changed \in Entries
  BY DEF Entry, Entries
<1>. HIDE DEF changed
<1>6. CASE AreUnequal(d, e)
  BY <1>1, <1>2, <1>3, <1>4, <1>5, <1>6 DEF IsExact, Ascends, Range
<1>7. CASE ~AreUnequal(d, e)
  BY <1>1, <1>2, <1>3, <1>4, <1>7 DEF IsExact, Ascends, Range
<1>. QED
  BY <1>6, <1>7

\* What is to be reported of one step from two documents.
ToldOf(d, e, path, step) ==
  IF step \in StepsIn(d) \cap StepsIn(e)
  THEN Expected(Children(d)[step], Children(e)[step], Append(path, step))
  ELSE {Entry(Append(path, step), IF step \in StepsIn(d) THEN "removed" ELSE "added",
              <<IF step \in StepsIn(d) THEN Children(d)[step] ELSE Children(e)[step]>>)}

LEMMA ExpectedOfLike ==
  ASSUME NEW d \in Documents, NEW e \in Documents, NEW path \in Paths, AreLike(d, e)
  PROVE  /\ Expected(d, e, path) =
              UNION {ToldOf(d, e, path, step) : step \in StepsIn(d) \cup StepsIn(e)}
         /\ \A step \in StepsIn(d) \cup StepsIn(e) : \A t \in ToldOf(d, e, path, step) :
              Below(t.path, Append(path, step))
<1>. DEFINE Inner(step) == Expected(Children(d)[step], Children(e)[step], Append(path, step))
            Removed(step) == Entry(Append(path, step), "removed", <<Children(d)[step]>>)
            Added(step) == Entry(Append(path, step), "added", <<Children(e)[step]>>)
<1>1. \A t : t \in Told(d, e, path) <=>
        \/ \E step \in StepsIn(d) \ StepsIn(e) : t = Removed(step)
        \/ \E step \in StepsIn(e) \ StepsIn(d) : t = Added(step)
  BY DEF Told, OnlyIn
<1>2. \A t : t \in Expected(d, e, path) <=>
        t \in Told(d, e, path) \/ \E step \in StepsIn(d) \cap StepsIn(e) : t \in Inner(step)
  BY ExpectedUnfolds
<1>3. /\ \A step \in StepsIn(d) \cap StepsIn(e) : ToldOf(d, e, path, step) = Inner(step)
      /\ \A step \in StepsIn(d) \ StepsIn(e) : ToldOf(d, e, path, step) = {Removed(step)}
      /\ \A step \in StepsIn(e) \ StepsIn(d) : ToldOf(d, e, path, step) = {Added(step)}
  BY DEF ToldOf
<1>4. ASSUME NEW step \in StepsIn(d) \cup StepsIn(e), NEW t \in ToldOf(d, e, path, step)
      PROVE  Below(t.path, Append(path, step))
  <2>1. step \in Steps /\ Append(path, step) \in Paths
    <3>1. step \in Steps
      BY ChildrenAreLower
    <3>. QED
      BY <3>1, AppendProperties DEF Paths
  <2>2. CASE step \in StepsIn(d) \cap StepsIn(e)
    <3>1. Children(d)[step] \in Documents /\ Children(e)[step] \in Documents /\ t \in Inner(step)
      BY <1>3, <1>4, <2>2, ChildrenAreLower
    <3>. QED
      BY <2>1, <3>1, ExpectedIsBelow
  <2>3. CASE step \notin StepsIn(d) \cap StepsIn(e)
    <3>1. t.path = Append(path, step)
      BY <1>3, <1>4, <2>3 DEF Entry
    <3>. QED
      BY <2>1, <3>1 DEF Below, Paths
  <2>. QED
    BY <2>2, <2>3
<1>. HIDE DEF Inner, Removed, Added
<1>5. \A t : t \in Expected(d, e, path) <=>
        \E step \in StepsIn(d) \cup StepsIn(e) : t \in ToldOf(d, e, path, step)
  BY <1>1, <1>2, <1>3
<1>6. Expected(d, e, path) = UNION {ToldOf(d, e, path, step) : step \in StepsIn(d) \cup StepsIn(e)}
  BY <1>5
<1>. QED
  BY <1>4, <1>6

LEMMA LikeIsExact ==
  ASSUME NEW d \in Documents, NEW e \in Documents, NEW path \in Paths, AreLike(d, e),
         \A step \in StepsIn(d) \cap StepsIn(e) :
           IsExact(Children(d)[step], Children(e)[step], Append(path, step))
  PROVE  IsExact(d, e, path)
<1>. DEFINE steps == StepsOf(d, e)
            seqs == ReportsOf(Diff, d, e, path)
<1>1. /\ steps \in Seq(Steps) /\ Range(steps) = StepsIn(d) \cup StepsIn(e)
      /\ Ascends(steps, StepOrder)
  BY StepsOfProperties
<1>2. seqs \in Seq(Seq(Entries))
  BY ReportsType DEF IsExact
<1>3. DOMAIN seqs = DOMAIN steps /\ DOMAIN steps \subseteq Nat
  BY <1>1 DEF ReportsOf
<1>4. Diff[<<d, e, path>>] = FlattenSeq(seqs)
  BY DiffUnfolds DEF DiffOf
<1>5. ASSUME NEW i \in DOMAIN steps
      PROVE  /\ Range(seqs[i]) = ToldOf(d, e, path, steps[i])
             /\ Ascends(seqs[i], EntryOrder)
  <2>. DEFINE step == steps[i]
  <2>1. seqs[i] = ReportOf(Diff, d, e, path, step) /\ step \in StepsIn(d) \cup StepsIn(e)
    BY <1>1 DEF ReportsOf, Range
  <2>. HIDE DEF step, seqs, steps
  <2>2. CASE step \in StepsIn(d) \cap StepsIn(e)
    <3>1. seqs[i] = Diff[<<Children(d)[step], Children(e)[step], Append(path, step)>>]
      BY <2>1, <2>2 DEF ReportOf
    <3>2. ToldOf(d, e, path, step) = Expected(Children(d)[step], Children(e)[step], Append(path, step))
      BY <2>2 DEF ToldOf
    <3>. QED
      BY <2>2, <3>1, <3>2 DEF IsExact, step
  <2>3. CASE step \notin StepsIn(e)
    <3>1. seqs[i] = <<Entry(Append(path, step), "removed", <<Children(d)[step]>>)>>
      BY <2>1, <2>3 DEF ReportOf
    <3>2. ToldOf(d, e, path, step) = {Entry(Append(path, step), "removed", <<Children(d)[step]>>)}
      BY <2>1, <2>3 DEF ToldOf
    <3>. QED
      BY <3>1, <3>2 DEF Range, Ascends, step
  <2>4. CASE step \in StepsIn(e) /\ step \notin StepsIn(d)
    <3>1. seqs[i] = <<Entry(Append(path, step), "added", <<Children(e)[step]>>)>>
      BY <2>1, <2>4 DEF ReportOf
    <3>2. ToldOf(d, e, path, step) = {Entry(Append(path, step), "added", <<Children(e)[step]>>)}
      BY <2>1, <2>4 DEF ToldOf
    <3>. QED
      BY <3>1, <3>2 DEF Range, Ascends, step
  <2>. QED
    BY <2>1, <2>2, <2>3, <2>4
<1>. HIDE DEF steps, seqs
<1>6. ASSUME NEW i \in DOMAIN seqs, NEW j \in DOMAIN seqs, i < j,
             NEW x \in Range(seqs[i]), NEW y \in Range(seqs[j])
      PROVE  <<x, y>> \in EntryOrder
  <2>1. steps[i] \in Steps /\ steps[j] \in Steps /\ Rank(steps[i]) < Rank(steps[j])
    BY <1>1, <1>3, <1>6 DEF Ascends, StepOrder
  <2>2. steps[i] \in StepsIn(d) \cup StepsIn(e) /\ steps[j] \in StepsIn(d) \cup StepsIn(e)
    BY <1>1, <1>3 DEF Range
  <2>3. Below(x.path, Append(path, steps[i])) /\ Below(y.path, Append(path, steps[j]))
    BY <1>3, <1>5, <1>6, <2>2, ExpectedOfLike
  <2>4. Precedes(x.path, y.path)
    BY <2>1, <2>3, StepsGiveTheOrder
  <2>5. x \in Entries /\ y \in Entries
    <3>1. seqs[i] \in Seq(Entries) /\ seqs[j] \in Seq(Entries)
      BY <1>2
    <3>. QED
      BY <1>6, <3>1, RangeOfSeq
  <2>. QED
    BY <2>4, <2>5 DEF EntryOrder
<1>7. UNION {Range(seqs[i]) : i \in DOMAIN seqs} = Expected(d, e, path)
  <2>1. \A step \in StepsIn(d) \cup StepsIn(e) : \E i \in DOMAIN steps : steps[i] = step
    BY <1>1 DEF Range
  <2>2. \A i \in DOMAIN steps : steps[i] \in StepsIn(d) \cup StepsIn(e)
    BY <1>1 DEF Range
  <2>3. UNION {Range(seqs[i]) : i \in DOMAIN seqs}
        = UNION {ToldOf(d, e, path, step) : step \in StepsIn(d) \cup StepsIn(e)}
    BY <1>3, <1>5, <2>1, <2>2
  <2>. QED
    BY <2>3, ExpectedOfLike
<1>8. /\ FlattenSeq(seqs) \in Seq(Entries)
      /\ Range(FlattenSeq(seqs)) = Expected(d, e, path)
      /\ Ascends(FlattenSeq(seqs), EntryOrder)
  BY <1>2, <1>3, <1>5, <1>6, <1>7, FlattenProperties
<1>9. Expected(d, e, path) = {} <=> AreEqual[<<d, e>>]
  <2>1. AreEqual[<<d, e>>] <=>
          /\ StepsIn(d) = StepsIn(e)
          /\ \A step \in StepsIn(d) : AreEqual[<<Children(d)[step], Children(e)[step]>>]
    BY AreEqualUnfolds DEF EqualOf
  <2>2. Expected(d, e, path) = {} <=>
          \A step \in StepsIn(d) \cup StepsIn(e) : ToldOf(d, e, path, step) = {}
    BY ExpectedOfLike
  <2>3. \A step \in StepsIn(d) \cup StepsIn(e) : ToldOf(d, e, path, step) = {} <=>
          /\ step \in StepsIn(d) \cap StepsIn(e)
          /\ AreEqual[<<Children(d)[step], Children(e)[step]>>]
    BY DEF ToldOf, IsExact
  <2>. QED
    BY <2>1, <2>2, <2>3
<1>. QED
  BY <1>4, <1>8, <1>9 DEF IsExact

\* The traversal returns exactly what there is to report, of any two documents.
LEMMA DiffIsExact ==
  \A d \in Documents, e \in Documents, path \in Paths : IsExact(d, e, path)
<1>. DEFINE Good == {d \in Documents : \A e \in Documents, path \in Paths : IsExact(d, e, path)}
<1>1. ASSUME NEW d \in Documents, \A c \in Documents : Height[c] < Height[d] => c \in Good
      PROVE  d \in Good
  <2>1. ASSUME NEW e \in Documents, NEW path \in Paths PROVE IsExact(d, e, path)
    <3>1. ASSUME NEW step \in StepsIn(d) \cap StepsIn(e)
          PROVE  IsExact(Children(d)[step], Children(e)[step], Append(path, step))
      <4>1. /\ Children(d)[step] \in Documents /\ Height[Children(d)[step]] < Height[d]
            /\ Children(e)[step] \in Documents /\ step \in Steps
        BY ChildrenAreLower
      <4>2. Append(path, step) \in Paths
        BY <4>1, AppendProperties DEF Paths
      <4>. QED
        BY <1>1, <4>1, <4>2
    <3>. QED
      BY <3>1, LikeIsExact, UnlikeIsExact
  <2>. QED
    BY <2>1
<1>. HIDE DEF Good
<1>2. Documents \subseteq Good
  BY <1>1, ChildrenAreLower, RankInduction
<1>. QED
  BY <1>2 DEF Good

-----------------------------------------------------------------------------
ReturnsDiff ==
  /\ left \in Documents /\ right \in Documents
  /\ differences \in {NotYet, Diff[<<left, right, <<>>>>]}

\* The differences that diff_states returns are exact, for documents of every depth over every
\* set of keys and values, and empty exactly if Python calls the two documents equal.
THEOREM Exact == Spec => []DifferencesAreExact
<1>1. Init => ReturnsDiff
  BY DEF Init, Dicts, ReturnsDiff
<1>2. ReturnsDiff /\ [Next]_vars => ReturnsDiff'
  BY DEF ReturnsDiff, Next, DiffStates, vars
<1>3. ReturnsDiff => DifferencesAreExact
  <2>. SUFFICES ASSUME ReturnsDiff, differences # NotYet
                PROVE  /\ {differences[i] : i \in DOMAIN differences} = Expected(left, right, <<>>)
                       /\ \A i, j \in DOMAIN differences :
                             i < j => Precedes(differences[i].path, differences[j].path)
                       /\ differences = <<>> <=> AreEqual[<<left, right>>]
    BY DEF DifferencesAreExact
  <2>1. differences = Diff[<<left, right, <<>>>>]
    BY DEF ReturnsDiff
  <2>2. IsExact(left, right, <<>>)
    <3>1. <<>> \in Paths
      BY DEF Paths
    <3>. QED
      BY <3>1, DiffIsExact DEF ReturnsDiff
  <2>3. /\ differences \in Seq(Entries) /\ Range(differences) = Expected(left, right, <<>>)
        /\ Ascends(differences, EntryOrder)
        /\ Expected(left, right, <<>>) = {} <=> AreEqual[<<left, right>>]
    BY <2>1, <2>2 DEF IsExact
  <2>4. {differences[i] : i \in DOMAIN differences} = Expected(left, right, <<>>)
    BY <2>3 DEF Range
  <2>5. \A i, j \in DOMAIN differences :
          i < j => Precedes(differences[i].path, differences[j].path)
    BY <2>3 DEF Ascends, EntryOrder
  <2>6. differences = <<>> <=> Range(differences) = {}
    BY <2>3 DEF Range
  <2>. QED
    BY <2>3, <2>4, <2>5, <2>6
<1>. QED
  BY <1>1, <1>2, <1>3, PTL DEF Spec
===============================================================================
