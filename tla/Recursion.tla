------------------------------- MODULE Recursion -------------------------------
(***************************************************************************)
(* Induction, and what recursive definitions define.                       *)
(*                                                                         *)
(* A recursive function is a function chosen among those that satisfy an   *)
(* equation: to reason about it one needs that there is one.  FixedPoint   *)
(* shows it of every equation in which a value depends on values of lower  *)
(* rank only.  It takes the body of the definition as a function, and the  *)
(* induction principles are about a set of good elements where a textbook  *)
(* has a predicate, so that the provers can apply them.                    *)
(*                                                                         *)
(* The operators of the community modules that are recursive are treated   *)
(* here: FlattenSeq of SequencesExt, and MapThenSumSet of FiniteSetsExt, a *)
(* sum that does not depend on the order in which the elements are taken.  *)
(***************************************************************************)
EXTENDS SequencesExt, SequenceTheorems, FiniteSetTheorems, WellFoundedInduction, Integers, TLAPS

\* A set of natural numbers that has 0 and with each number the next has them all.
LEMMA Counting ==
  ASSUME NEW Good, 0 \in Good, \A n \in Nat : n \in Good => n + 1 \in Good
  PROVE  Nat \subseteq Good
<1>. DEFINE Bad == Nat \ Good
<1>. SUFFICES ASSUME Bad # {} PROVE FALSE
  OBVIOUS
<1>1. PICK n \in Bad : \A m \in Bad : ~(<<m, n>> \in OpToRel(<, Nat))
  <2>. HIDE DEF Bad
  <2>1. Bad \subseteq Nat
    BY DEF Bad
  <2>. QED
    BY <2>1, NatLessThanWellFounded, WFMin
<1>2. n \in Nat /\ n # 0 /\ n - 1 \in Nat
  OBVIOUS
<1>3. n - 1 \notin Good
  <2>1. (n - 1) + 1 = n
    BY <1>2
  <2>. QED
    BY <1>2, <2>1
<1>4. <<n - 1, n>> \in OpToRel(<, Nat)
  BY <1>2 DEF OpToRel
<1>. QED
  BY <1>1, <1>2, <1>3, <1>4

\* What holds of x whenever it holds of all of lower rank holds of all.
LEMMA RankInduction ==
  ASSUME NEW D, NEW rank, \A x \in D : rank[x] \in Nat, NEW Good,
         \A x \in D : (\A y \in D : rank[y] < rank[x] => y \in Good) => x \in Good
  PROVE  D \subseteq Good
<1>. DEFINE Upto == {n \in Nat : \A x \in D : rank[x] < n => x \in Good}
<1>1. 0 \in Upto
  OBVIOUS
<1>2. ASSUME NEW n \in Nat, n \in Upto PROVE n + 1 \in Upto
  <2>1. ASSUME NEW x \in D, rank[x] < n + 1 PROVE x \in Good
    <3>1. \A y \in D : rank[y] < rank[x] => rank[y] < n
      BY <2>1
    <3>. QED
      BY <1>2, <3>1
  <2>. QED
    BY <2>1
<1>. HIDE DEF Upto
<1>3. Nat \subseteq Upto
  BY <1>1, <1>2, Counting
<1>4. ASSUME NEW x \in D PROVE x \in Good
  <2>1. rank[x] + 1 \in Upto
    BY <1>3
  <2>. QED
    BY <2>1 DEF Upto
<1>. QED
  BY <1>4

\* F[g][x], the body of a recursive definition, looks at g below the rank of x only.
LooksBelow(F, D, R, rank) ==
  /\ R # {} /\ \A x \in D : rank[x] \in Nat
  /\ F \in [[D -> R] -> [D -> R]]
  /\ \A g, h \in [D -> R], x \in D :
       (\A y \in D : rank[y] < rank[x] => g[y] = h[y]) => F[g][x] = F[h][x]

\* A recursive definition in which every value depends on values of lower rank only is
\* satisfied by a function.
LEMMA FixedPoint ==
  ASSUME NEW D, NEW R, NEW rank, NEW F, LooksBelow(F, D, R, rank)
  PROVE  \E g \in [D -> R] : g = F[g]
<1>. USE DEF LooksBelow
<1>. DEFINE Fits(g, n) == g \in [D -> R] /\ \A x \in D : rank[x] < n => g[x] = F[g][x]
            Good == {n \in Nat : \E g : Fits(g, n)}
<1>1. 0 \in Good
  <2>1. PICK r : r \in R
    OBVIOUS
  <2>2. Fits([x \in D |-> r], 0)
    BY <2>1
  <2>. QED
    BY <2>2
<1>2. ASSUME NEW n \in Nat, n \in Good PROVE n + 1 \in Good
  <2>1. PICK g : Fits(g, n)
    BY <1>2
  <2>2. F[g] \in [D -> R]
    BY <2>1
  <2>3. ASSUME NEW x \in D, rank[x] < n + 1 PROVE F[g][x] = F[F[g]][x]
    <3>1. \A y \in D : rank[y] < rank[x] => g[y] = F[g][y]
      BY <2>1, <2>3
    <3>. QED
      BY <2>1, <2>2, <3>1
  <2>4. Fits(F[g], n + 1)
    BY <2>2, <2>3
  <2>. QED
    BY <2>4
<1>3. \A n \in Nat : n \in Good
  <2>. HIDE DEF Good
  <2>. QED
    BY <1>1, <1>2, Counting
<1>. DEFINE of(n) == CHOOSE g : Fits(g, n)
<1>4. \A n \in Nat : Fits(of(n), n)
  BY <1>3
<1>. HIDE DEF of
<1>. DEFINE Same == {x \in D : \A n, m \in Nat : rank[x] < n /\ rank[x] < m => of(n)[x] = of(m)[x]}
<1>5. D \subseteq Same
  <2>1. ASSUME NEW x \in D, \A y \in D : rank[y] < rank[x] => y \in Same PROVE x \in Same
    <3>1. ASSUME NEW n \in Nat, NEW m \in Nat, rank[x] < n, rank[x] < m
          PROVE  of(n)[x] = of(m)[x]
      <4>1. \A y \in D : rank[y] < rank[x] => of(n)[y] = of(m)[y]
        BY <2>1, <3>1
      <4>2. F[of(n)][x] = F[of(m)][x]
        BY <1>4, <4>1
      <4>. QED
        BY <1>4, <3>1, <4>2
    <3>. QED
      BY <3>1
  <2>. HIDE DEF Same
  <2>. QED
    BY <2>1, RankInduction
<1>. DEFINE g == [x \in D |-> of(rank[x] + 1)[x]]
<1>6. g \in [D -> R]
  <2>1. \A x \in D : rank[x] + 1 \in Nat
    OBVIOUS
  <2>. QED
    BY <1>4, <2>1
<1>7. ASSUME NEW x \in D PROVE g[x] = F[g][x]
  <2>. DEFINE n == rank[x] + 1
  <2>1. n \in Nat /\ rank[x] < n
    OBVIOUS
  <2>2. \A y \in D : rank[y] < rank[x] => g[y] = of(n)[y]
    <3>. TAKE y \in D
    <3>. HAVE rank[y] < rank[x]
    <3>1. rank[y] + 1 \in Nat /\ rank[y] < rank[y] + 1 /\ rank[y] < n
      OBVIOUS
    <3>. QED
      BY <1>5, <2>1, <3>1
  <2>3. of(n) \in [D -> R] /\ of(n)[x] = F[of(n)][x]
    BY <1>4, <2>1
  <2>4. F[g][x] = F[of(n)][x]
    <3>. HIDE DEF g, n
    <3>. QED
      BY <1>6, <2>2, <2>3
  <2>. QED
    BY <2>3, <2>4
<1>8. g = F[g]
  <2>. HIDE DEF g
  <2>1. F[g] \in [D -> R]
    BY <1>6
  <2>. QED
    BY <1>6, <1>7, <2>1
<1>. QED
  BY <1>6, <1>8

-----------------------------------------------------------------------------
\* Sequences in an order, and sequences of sequences.

Ascends(s, before) == \A i, j \in DOMAIN s : i < j => <<s[i], s[j]>> \in before

\* Two ascending sequences, all of the first before all of the second.
LEMMA ConcatAscends ==
  ASSUME NEW R, NEW s \in Seq(R), NEW t \in Seq(R), NEW before,
         Ascends(s, before), Ascends(t, before),
         \A x \in Range(s), y \in Range(t) : <<x, y>> \in before
  PROVE  Ascends(s \o t, before)
<1>. DEFINE u == s \o t
<1>1. /\ u \in Seq(R) /\ Len(u) = Len(s) + Len(t)
      /\ \A i \in 1..Len(s) + Len(t) : u[i] = IF i <= Len(s) THEN s[i] ELSE t[i - Len(s)]
  BY ConcatProperties
<1>2. DOMAIN u = 1..Len(s) + Len(t)
  BY <1>1
<1>. HIDE DEF u
<1>3. ASSUME NEW i \in DOMAIN u, NEW j \in DOMAIN u, i < j PROVE <<u[i], u[j]>> \in before
  <2>1. CASE j <= Len(s)
    <3>1. i \in DOMAIN s /\ j \in DOMAIN s /\ u[i] = s[i] /\ u[j] = s[j]
      BY <1>1, <1>2, <1>3, <2>1
    <3>. QED
      BY <1>3, <3>1 DEF Ascends
  <2>2. CASE i > Len(s)
    <3>1. i \in Int /\ j \in Int /\ j > Len(s) /\ Len(s) \in Nat
      BY <1>2, <1>3, <2>2
    <3>2. u[i] = t[i - Len(s)] /\ u[j] = t[j - Len(s)]
      BY <1>1, <1>2, <2>2, <3>1
    <3>3. i - Len(s) \in DOMAIN t /\ j - Len(s) \in DOMAIN t /\ i - Len(s) < j - Len(s)
      BY <1>2, <1>3, <2>2, <3>1
    <3>. QED
      BY <3>2, <3>3 DEF Ascends
  <2>3. CASE i <= Len(s) /\ j > Len(s)
    <3>1. i \in DOMAIN s /\ j - Len(s) \in DOMAIN t /\ u[i] = s[i] /\ u[j] = t[j - Len(s)]
      BY <1>1, <1>2, <1>3, <2>3
    <3>2. u[i] \in Range(s) /\ u[j] \in Range(t)
      BY <3>1 DEF Range
    <3>. QED
      BY <3>2
  <2>. QED
    BY <1>2, <2>1, <2>2, <2>3
<1>. QED
  BY <1>3 DEF Ascends, u

Flattens(g, seqs) ==
  g = [i \in 1..Len(seqs) |-> IF i = 1 THEN seqs[i] ELSE g[i - 1] \o seqs[i]]

\* FlattenSeq, one sequence at a time.
LEMMA FlattenUnfolds ==
  ASSUME NEW R, NEW seqs \in Seq(Seq(R))
  PROVE  /\ seqs = <<>> => FlattenSeq(seqs) = <<>>
         /\ seqs # <<>> => \E g : Flattens(g, seqs) /\ FlattenSeq(seqs) = g[Len(seqs)]
<1>1. CASE seqs = <<>>
  BY <1>1 DEF FlattenSeq
<1>2. CASE seqs # <<>>
  <2>. DEFINE D == 1..Len(seqs)
              Q == Seq(R)
              rank == [i \in D |-> i]
              Body(g, i) == IF i = 1 THEN seqs[i] ELSE g[i - 1] \o seqs[i]
              F == [g \in [D -> Q] |-> [i \in D |-> Body(g, i)]]
  <2>1. Len(seqs) \in Nat \ {0} /\ \A i \in D : seqs[i] \in Q
    BY <1>2
  <2>2. \A g \in [D -> Q], i \in D : Body(g, i) \in Q
    <3>. TAKE g \in [D -> Q], i \in D
    <3>1. CASE i = 1
      BY <2>1, <3>1
    <3>2. CASE i # 1
      <4>1. i - 1 \in D /\ seqs[i] \in Seq(R)
        BY <2>1, <3>2
      <4>2. g[i - 1] \in Seq(R)
        BY <4>1
      <4>. QED
        BY <3>2, <4>1, <4>2, ConcatProperties
    <3>. QED
      BY <3>1, <3>2
  <2>3. F \in [[D -> Q] -> [D -> Q]]
    <3>. HIDE DEF Body, Q
    <3>. QED
      BY <2>2
  <2>4. ASSUME NEW g \in [D -> Q], NEW h \in [D -> Q], NEW x \in D,
               \A y \in D : rank[y] < rank[x] => g[y] = h[y]
        PROVE  F[g][x] = F[h][x]
    <3>1. F[g][x] = Body(g, x) /\ F[h][x] = Body(h, x)
      <4>. HIDE DEF Body, Q
      <4>. QED
        OBVIOUS
    <3>2. CASE x = 1
      BY <3>1, <3>2
    <3>3. CASE x # 1
      <4>1. x - 1 \in D /\ x - 1 < x
        BY <2>1, <3>3
      <4>2. g[x - 1] = h[x - 1]
        BY <2>4, <4>1
      <4>. QED
        BY <3>1, <3>3, <4>2
    <3>. QED
      BY <3>2, <3>3
  <2>5. \E g \in [D -> Q] : g = F[g]
    <3>1. Q # {} /\ \A x \in D : rank[x] \in Nat
      OBVIOUS
    <3>. HIDE DEF F, Q, D, rank
    <3>2. LooksBelow(F, D, Q, rank)
      BY <2>3, <2>4, <3>1 DEF LooksBelow
    <3>. QED
      BY <3>2, FixedPoint
  <2>6. \E g : Flattens(g, seqs)
    <3>1. PICK g \in [D -> Q] : g = F[g]
      BY <2>5
    <3>2. F[g] = [i \in D |-> Body(g, i)]
      <4>. HIDE DEF Body, Q, D
      <4>. QED
        BY <3>1
    <3>. QED
      BY <3>1, <3>2 DEF Flattens
  <2>. DEFINE g == CHOOSE g : Flattens(g, seqs)
  <2>7. FlattenSeq(seqs) = g[Len(seqs)]
    BY <2>1 DEF FlattenSeq, Flattens
  <2>8. Flattens(g, seqs)
    BY <2>6
  <2>. QED
    BY <1>2, <2>7, <2>8
<1>. QED
  BY <1>1, <1>2

\* A sequence of sequences that is flattened has what they have, and ascends if each of them
\* does and all of each is before all of each later one.
LEMMA FlattenProperties ==
  ASSUME NEW R, NEW seqs \in Seq(Seq(R))
  PROVE  /\ FlattenSeq(seqs) \in Seq(R)
         /\ Range(FlattenSeq(seqs)) = UNION {Range(seqs[i]) : i \in DOMAIN seqs}
         /\ \A before :
              /\ \A i \in DOMAIN seqs : Ascends(seqs[i], before)
              /\ \A i, j \in DOMAIN seqs : i < j =>
                   \A x \in Range(seqs[i]), y \in Range(seqs[j]) : <<x, y>> \in before
              => Ascends(FlattenSeq(seqs), before)
<1>1. CASE seqs = <<>>
  <2>1. FlattenSeq(seqs) = <<>>
    BY <1>1, FlattenUnfolds
  <2>2. DOMAIN <<>> = {} /\ Range(<<>>) = {} /\ <<>> \in Seq(R)
    BY DEF Range
  <2>. QED
    BY <1>1, <2>1, <2>2 DEF Ascends
<1>2. CASE seqs # <<>>
  <2>1. PICK g : Flattens(g, seqs) /\ FlattenSeq(seqs) = g[Len(seqs)]
    BY <1>2, FlattenUnfolds
  <2>2. Len(seqs) \in Nat \ {0} /\ DOMAIN seqs = 1..Len(seqs) /\ \A i \in DOMAIN seqs : seqs[i] \in Seq(R)
    BY <1>2
  <2>3. g[1] = seqs[1] /\ \A i \in DOMAIN seqs : i # 1 => g[i] = g[i - 1] \o seqs[i]
    <3>1. 1 \in DOMAIN seqs
      BY <2>2
    <3>. QED
      BY <2>1, <2>2, <3>1 DEF Flattens
  <2>. DEFINE Good == {n \in Nat : n = 0 \/ n > Len(seqs) \/
                         /\ g[n] \in Seq(R)
                         /\ Range(g[n]) = UNION {Range(seqs[i]) : i \in 1..n}}
  <2>4. 0 \in Good
    OBVIOUS
  <2>5. ASSUME NEW n \in Nat, n \in Good PROVE n + 1 \in Good
    <3>1. CASE n = 0
      <4>1. UNION {Range(seqs[i]) : i \in 1..1} = Range(seqs[1])
        <5>1. 1..1 = {1}
          OBVIOUS
        <5>. QED
          BY <5>1
      <4>. QED
        BY <2>2, <2>3, <3>1, <4>1
    <3>2. CASE n # 0 /\ n + 1 <= Len(seqs)
      <4>1. g[n + 1] = g[n] \o seqs[n + 1] /\ n + 1 \in DOMAIN seqs
        <5>1. n + 1 \in DOMAIN seqs /\ n + 1 # 1 /\ (n + 1) - 1 = n
          BY <2>2, <3>2
        <5>. QED
          BY <2>3, <5>1
      <4>2. g[n] \in Seq(R) /\ Range(g[n]) = UNION {Range(seqs[i]) : i \in 1..n} /\ seqs[n + 1] \in Seq(R)
        BY <2>2, <2>5, <3>2, <4>1
      <4>3. g[n + 1] \in Seq(R) /\ Range(g[n + 1]) = Range(g[n]) \cup Range(seqs[n + 1])
        BY <4>1, <4>2, RangeConcatenation, ConcatProperties
      <4>4. 1..n + 1 = 1..n \cup {n + 1}
        OBVIOUS
      <4>5. Range(g[n + 1]) = UNION {Range(seqs[i]) : i \in 1..n + 1}
        BY <4>2, <4>3, <4>4
      <4>. QED
        BY <4>3, <4>5
    <3>. QED
      BY <3>1, <3>2, <2>2
  <2>6. \A n \in DOMAIN seqs : g[n] \in Seq(R) /\ Range(g[n]) = UNION {Range(seqs[i]) : i \in 1..n}
    <3>1. Nat \subseteq Good
      <4>. HIDE DEF Good
      <4>. QED
        BY <2>4, <2>5, Counting
    <3>. TAKE n \in DOMAIN seqs
    <3>2. n \in Nat /\ n # 0 /\ ~(n > Len(seqs))
      BY <2>2
    <3>. QED
      BY <3>1, <3>2
  <2>7. ASSUME NEW before, \A i \in DOMAIN seqs : Ascends(seqs[i], before),
               \A i, j \in DOMAIN seqs : i < j =>
                 \A x \in Range(seqs[i]), y \in Range(seqs[j]) : <<x, y>> \in before
        PROVE  Ascends(FlattenSeq(seqs), before)
    <3>. DEFINE Up == {n \in Nat : n = 0 \/ n > Len(seqs) \/ Ascends(g[n], before)}
    <3>1. 0 \in Up
      OBVIOUS
    <3>2. ASSUME NEW n \in Nat, n \in Up PROVE n + 1 \in Up
      <4>1. CASE n = 0
        BY <2>2, <2>3, <2>7, <4>1
      <4>2. CASE n # 0 /\ n + 1 <= Len(seqs)
        <5>1. n + 1 \in DOMAIN seqs /\ n + 1 # 1 /\ (n + 1) - 1 = n /\ n \in DOMAIN seqs
          BY <2>2, <4>2
        <5>2. g[n + 1] = g[n] \o seqs[n + 1] /\ Ascends(g[n], before) /\ seqs[n + 1] \in Seq(R)
          <6>1. n \in Nat /\ n # 0 /\ ~(n > Len(seqs))
            BY <2>2, <4>2
          <6>. QED
            BY <2>2, <2>3, <3>2, <5>1, <6>1
        <5>3. ASSUME NEW x \in Range(g[n]), NEW y \in Range(seqs[n + 1]) PROVE <<x, y>> \in before
          <6>0. x \in UNION {Range(seqs[i]) : i \in 1..n}
            BY <2>6, <5>1, <5>3
          <6>1. PICK i \in 1..n : x \in Range(seqs[i])
            BY <6>0
          <6>2. i \in DOMAIN seqs /\ i < n + 1
            BY <2>2, <5>1
          <6>. QED
            BY <2>7, <5>1, <6>1, <6>2
        <5>4. Ascends(g[n] \o seqs[n + 1], before)
          BY <2>6, <2>7, <5>1, <5>2, <5>3, ConcatAscends
        <5>5. Ascends(g[n + 1], before)
          BY <5>2, <5>4
        <5>. QED
          BY <5>5
      <4>. QED
        BY <2>2, <4>1, <4>2
    <3>3. Nat \subseteq Up
      <4>. HIDE DEF Up
      <4>. QED
        BY <3>1, <3>2, Counting
    <3>4. Len(seqs) \in Up /\ ~(Len(seqs) > Len(seqs))
      BY <2>2, <3>3
    <3>. QED
      BY <2>1, <2>2, <3>4
  <2>8. /\ FlattenSeq(seqs) \in Seq(R)
        /\ Range(FlattenSeq(seqs)) = UNION {Range(seqs[i]) : i \in DOMAIN seqs}
    <3>1. Len(seqs) \in DOMAIN seqs
      BY <2>2
    <3>. QED
      BY <2>1, <2>2, <2>6, <3>1
  <2>. QED
    BY <2>7, <2>8
<1>. QED
  BY <1>1, <1>2

-----------------------------------------------------------------------------
\* Finite sets and sums.

\* A family of subsets of a finite set has a smallest member: none of the others is in it.
LEMMA SmallestSet ==
  ASSUME NEW S, IsFiniteSet(S), NEW T, T \subseteq SUBSET S, T # {}
  PROVE  \E x \in T : \A y \in T : y \subseteq x => y = x
<1>. DEFINE R == StrictSubsetOrdering(S)
<1>1. IsWellFoundedOn(R, SUBSET S)
  BY FS_StrictSubsetOrderingWellFounded, FS_FiniteSubsetsOfFinite
<1>2. PICK x \in T : \A y \in T : ~(<<y, x>> \in R)
  <2>. HIDE DEF R
  <2>. QED BY <1>1, WFMin
<1>3. \A y \in T : y \subseteq x => y = x
  BY <1>2 DEF StrictSubsetOrdering
<1>. QED BY <1>3

\* A property of a finite set that holds of the empty set and is kept when an element is
\* added: Good is the set of the subsets that have it.
LEMMA SetInduction ==
  ASSUME NEW S, IsFiniteSet(S), NEW Good, {} \in Good,
         \A T \in SUBSET S : T # {} /\ (\A U \in SUBSET T : U # T => U \in Good) => T \in Good
  PROVE  \A T \in SUBSET S : T \in Good
<1>. DEFINE Bad == {T \in SUBSET S : T \notin Good}
<1>. SUFFICES ASSUME Bad # {} PROVE FALSE
  OBVIOUS
<1>1. PICK T \in Bad : \A U \in Bad : U \subseteq T => U = T
  <2>1. Bad \subseteq SUBSET S
    OBVIOUS
  <2>. HIDE DEF Bad
  <2>. QED
    BY <2>1, SmallestSet
<1>2. T \in SUBSET S /\ T \notin Good /\ T # {}
  OBVIOUS
<1>3. \A U \in SUBSET T : U # T => U \in Good
  BY <1>1, <1>2
<1>. QED
  BY <1>2, <1>3

-----------------------------------------------------------------------------
\* The sum of w[x] over the elements x of a finite set, in the order in which MapThenSumSet
\* takes them: g gives the sum of every subset.

Pick(s) == CHOOSE x \in s : TRUE

Sums(g, w, S) ==
  g = [s \in SUBSET S |-> IF s = {} THEN 0 ELSE w[Pick(s)] + g[s \ {Pick(s)}]]

Total(w, S) == (CHOOSE g : Sums(g, w, S))[S]

LEMMA SumsOf ==
  ASSUME NEW g, NEW w, NEW S, Sums(g, w, S)
  PROVE  /\ g[{}] = 0
         /\ \A s \in SUBSET S : s # {} =>
              /\ Pick(s) \in s /\ s \ {Pick(s)} \in SUBSET S /\ s \ {Pick(s)} # s
              /\ g[s] = w[Pick(s)] + g[s \ {Pick(s)}]
<1>1. \A s \in SUBSET S : g[s] = IF s = {} THEN 0 ELSE w[Pick(s)] + g[s \ {Pick(s)}]
  BY DEF Sums
<1>2. \A s : s # {} => Pick(s) \in s
  BY DEF Pick
<1>. QED
  BY <1>1, <1>2

\* Sums depend on nothing but the values that are added.
LEMMA SumsAgree ==
  ASSUME NEW g, NEW w, NEW S, Sums(g, w, S), IsFiniteSet(S),
         NEW h, NEW v, NEW T, Sums(h, v, T),
         \A x \in S \cap T : w[x] = v[x]
  PROVE  \A s \in SUBSET (S \cap T) : g[s] = h[s]
<1>. DEFINE Good == {s \in SUBSET (S \cap T) : g[s] = h[s]}
<1>1. IsFiniteSet(S \cap T)
  BY FS_Intersection
<1>2. {} \in Good
  BY SumsOf
<1>3. ASSUME NEW s \in SUBSET (S \cap T), s # {},
             \A u \in SUBSET s : u # s => u \in Good
      PROVE  s \in Good
  <2>. DEFINE x == Pick(s)
  <2>1. x \in s /\ s \ {x} # s /\ g[s] = w[x] + g[s \ {x}] /\ h[s] = v[x] + h[s \ {x}]
    BY <1>3, SumsOf
  <2>2. g[s \ {x}] = h[s \ {x}]
    BY <1>3, <2>1
  <2>. QED
    BY <2>1, <2>2
<1>. HIDE DEF Good
<1>4. \A s \in SUBSET (S \cap T) : s \in Good
  BY <1>1, <1>2, <1>3, SetInduction
<1>. QED
  BY <1>4 DEF Good

\* Every finite set has sums.
LEMMA SumsExist ==
  ASSUME NEW S, IsFiniteSet(S), NEW w
  PROVE  \E g : Sums(g, w, S)
<1>. DEFINE Good == {s \in SUBSET S : \E g : Sums(g, w, s)}
<1>1. {} \in Good
  <2>1. Sums([s \in SUBSET {} |-> 0], w, {})
    <3>. DEFINE g == [s \in SUBSET {} |-> 0]
    <3>1. g = [s \in SUBSET {} |-> IF s = {} THEN 0 ELSE w[Pick(s)] + g[s \ {Pick(s)}]]
      OBVIOUS
    <3>. QED
      BY <3>1 DEF Sums
  <2>. QED
    BY <2>1
<1>2. ASSUME NEW T \in SUBSET S, T # {}, \A u \in SUBSET T : u # T => u \in Good
      PROVE  T \in Good
  <2>. DEFINE of(u) == CHOOSE g : Sums(g, w, u)
              rest == T \ {Pick(T)}
              h == [s \in SUBSET T |-> IF s = T THEN w[Pick(T)] + of(rest)[rest]
                                       ELSE of(s)[s]]
  <2>1. \A u \in SUBSET T : u # T => Sums(of(u), w, u) /\ IsFiniteSet(u)
    BY <1>2, FS_Subset
  <2>2. rest \in SUBSET T /\ rest # T
    BY <1>2 DEF Pick
  <2>3. ASSUME NEW s \in SUBSET T
        PROVE  h[s] = IF s = {} THEN 0 ELSE w[Pick(s)] + h[s \ {Pick(s)}]
    <3>1. CASE s = T
      <4>1. h[rest] = of(rest)[rest]
        BY <2>2
      <4>. QED
        BY <1>2, <3>1, <4>1
    <3>2. CASE s = {}
      BY <1>2, <2>1, <3>2, SumsOf
    <3>3. CASE s # T /\ s # {}
      <4>. DEFINE less == s \ {Pick(s)}
      <4>1. Sums(of(s), w, s) /\ IsFiniteSet(s)
        BY <2>1, <3>3
      <4>. HIDE DEF of
      <4>2. /\ Pick(s) \in s /\ less \in SUBSET s /\ less # s
            /\ of(s)[s] = w[Pick(s)] + of(s)[less]
        BY <3>3, <4>1, SumsOf
      <4>3. Sums(of(less), w, less) /\ less \in SUBSET T /\ less # T
        BY <2>1, <3>3, <4>2
      <4>4. of(s)[less] = of(less)[less]
        <5>1. less \in SUBSET (s \cap less)
          BY <4>2
        <5>. HIDE DEF less
        <5>. QED
          BY <4>1, <4>3, <5>1, SumsAgree
      <4>. QED
        BY <3>3, <4>2, <4>3, <4>4
    <3>. QED
      BY <3>1, <3>2, <3>3
  <2>4. Sums(h, w, T)
    <3>1. h = [s \in SUBSET T |-> h[s]]
      OBVIOUS
    <3>. HIDE DEF h
    <3>2. h = [s \in SUBSET T |-> IF s = {} THEN 0 ELSE w[Pick(s)] + h[s \ {Pick(s)}]]
      BY <2>3, <3>1
    <3>. QED
      BY <3>2 DEF Sums
  <2>. QED
    BY <2>4
<1>. HIDE DEF Good
<1>3. S \in Good
  BY <1>1, <1>2, SetInduction
<1>. QED
  BY <1>3 DEF Good

\* Whoever adds up gets the total, of the set and of its subsets.
LEMMA SumsAreTotals ==
  ASSUME NEW S, IsFiniteSet(S), NEW w, NEW g, Sums(g, w, S), NEW T \in SUBSET S
  PROVE  g[T] = Total(w, T)
<1>. DEFINE h == CHOOSE h : Sums(h, w, T)
<1>1. Sums(h, w, T)
  <2>1. IsFiniteSet(T)
    BY FS_Subset
  <2>. QED
    BY <2>1, SumsExist
<1>2. Total(w, T) = h[T]
  BY DEF Total
<1>. HIDE DEF h
<1>3. T \in SUBSET (S \cap T)
  OBVIOUS
<1>. QED
  BY <1>1, <1>2, <1>3, SumsAgree

\* A total depends on the values of its elements only.
LEMMA TotalOfSame ==
  ASSUME NEW S, IsFiniteSet(S), NEW w, NEW v, \A x \in S : w[x] = v[x]
  PROVE  Total(w, S) = Total(v, S)
<1>1. PICK g : Sums(g, w, S)
  BY SumsExist
<1>2. PICK h : Sums(h, v, S)
  BY SumsExist
<1>3. g[S] = Total(w, S) /\ h[S] = Total(v, S)
  BY <1>1, <1>2, SumsAreTotals
<1>4. \A s \in SUBSET (S \cap S) : g[s] = h[s]
  BY <1>1, <1>2, SumsAgree
<1>. QED
  BY <1>3, <1>4

\* A total, one element at a time.
LEMMA TotalUnfolds ==
  ASSUME NEW S, IsFiniteSet(S), NEW w
  PROVE  /\ Total(w, {}) = 0
         /\ S # {} => /\ Pick(S) \in S
                      /\ Total(w, S) = w[Pick(S)] + Total(w, S \ {Pick(S)})
<1>1. PICK g : Sums(g, w, S)
  BY SumsExist
<1>2. \A T \in SUBSET S : g[T] = Total(w, T)
  BY <1>1, SumsAreTotals
<1>. QED
  BY <1>1, <1>2, SumsOf

\* Integers add up to an integer.
LEMMA TotalType ==
  ASSUME NEW S, IsFiniteSet(S), NEW w, \A x \in S : w[x] \in Int
  PROVE  Total(w, S) \in Int
<1>. DEFINE Good == {T \in SUBSET S : Total(w, T) \in Int}
<1>1. {} \in Good
  <2>1. Total(w, {}) = 0
    BY TotalUnfolds
  <2>. QED
    BY <2>1
<1>2. ASSUME NEW T \in SUBSET S, T # {}, \A u \in SUBSET T : u # T => u \in Good
      PROVE  T \in Good
  <2>. DEFINE x == Pick(T)
  <2>1. x \in T /\ Total(w, T) = w[x] + Total(w, T \ {x})
    BY <1>2, FS_Subset, TotalUnfolds
  <2>2. Total(w, T \ {x}) \in Int
    BY <1>2, <2>1
  <2>. QED
    BY <2>1, <2>2
<1>. HIDE DEF Good
<1>3. S \in Good
  BY <1>1, <1>2, SetInduction
<1>. QED
  BY <1>3 DEF Good

\* The order in which the elements are taken does not matter: an element that is added
\* adds its value.
LEMMA TotalGrows ==
  ASSUME NEW S, IsFiniteSet(S), NEW w, \A x \in S : w[x] \in Int
  PROVE  \A z \in S : Total(w, S) = Total(w, S \ {z}) + w[z]
<1>. DEFINE Good == {T \in SUBSET S : \A z \in T : Total(w, T) = Total(w, T \ {z}) + w[z]}
<1>1. {} \in Good
  OBVIOUS
<1>2. ASSUME NEW T \in SUBSET S, T # {}, \A u \in SUBSET T : u # T => u \in Good
      PROVE  T \in Good
  <2>. SUFFICES ASSUME NEW z \in T PROVE Total(w, T) = Total(w, T \ {z}) + w[z]
    OBVIOUS
  <2>. DEFINE x == Pick(T)
              A == T \ {x}
              B == T \ {z}
              C == T \ {x, z}
  <2>0. \A U \in SUBSET S : IsFiniteSet(U) /\ Total(w, U) \in Int
    <3>. TAKE U \in SUBSET S
    <3>1. IsFiniteSet(U)
      BY FS_Subset
    <3>. QED
      BY <3>1, TotalType
  <2>1. x \in T /\ Total(w, T) = w[x] + Total(w, A)
    BY <1>2, <2>0, TotalUnfolds
  <2>. HIDE DEF x
  <2>2. w[x] \in Int /\ w[z] \in Int
    BY <2>1
  <2>3. CASE x = z
    BY <2>0, <2>1, <2>2, <2>3
  <2>4. CASE x # z
    <3>1. Total(w, A) = Total(w, C) + w[z]
      <4>1. A \in Good /\ z \in A /\ A \ {z} = C
        BY <1>2, <2>1, <2>4
      <4>. QED
        BY <4>1
    <3>2. Total(w, B) = Total(w, C) + w[x]
      <4>1. B \in Good /\ x \in B /\ B \ {x} = C
        BY <1>2, <2>1, <2>4
      <4>. QED
        BY <4>1
    <3>3. Total(w, C) \in Int
      BY <2>0
    <3>. QED
      BY <2>1, <2>2, <3>1, <3>2, <3>3
  <2>. QED
    BY <2>3, <2>4
<1>. HIDE DEF Good
<1>3. S \in Good
  BY <1>1, <1>2, SetInduction
<1>. QED
  BY <1>3 DEF Good
===============================================================================
