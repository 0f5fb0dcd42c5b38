---------------------------- MODULE DataInduction ----------------------------
(***************************************************************************)
(* What the proofs need to know of recursive definitions, for every input. *)
(*                                                                         *)
(* The induction theorems of the library quantify over an operator, which  *)
(* the installed provers do not instantiate.  A set says the same: what    *)
(* holds of 0, and of n + 1 whenever it holds of n, is a set of numbers,   *)
(* and a least number outside of it is a least element of a well-founded   *)
(* relation, which the library has for the finite sets under inclusion.    *)
(* A recursive function is then a function whose existence is shown for    *)
(* one prefix of its domain after the other.                               *)
(***************************************************************************)
EXTENDS Integers, FiniteSets, FiniteSetsExt, Functions, Lists, SequenceTheorems,
        FiniteSetTheorems, WellFoundedInduction, TLAPS

\* Induction over the naturals: a set with 0 and with the successors of its members.
LEMMA NatSetInduction ==
    ASSUME NEW S, 0 \in S, \A n \in Nat : n \in S => n + 1 \in S
    PROVE  Nat \subseteq S
<1> SUFFICES ASSUME NEW k \in Nat, k \notin S PROVE FALSE
  OBVIOUS
<1> DEFINE Bad == {n \in Nat : n \notin S}
           Ranges == {0 .. n : n \in Bad}
           R == StrictSubsetOrdering(Nat)
<1>1. IsWellFoundedOn(R, FiniteSubsetsOf(Nat))
  BY FS_StrictSubsetOrderingWellFounded
<1>2. Ranges \subseteq FiniteSubsetsOf(Nat)
  <2> SUFFICES ASSUME NEW n \in Bad PROVE 0 .. n \in FiniteSubsetsOf(Nat)
    OBVIOUS
  <2>1. IsFiniteSet(0 .. n)
    BY FS_Interval
  <2> QED BY <2>1 DEF FiniteSubsetsOf
<1>3. Ranges # {}
  OBVIOUS
<1>4. PICK x \in Ranges : \A y \in Ranges : <<y, x>> \notin R
  <2> HIDE DEF Ranges, R
  <2> QED BY <1>1, <1>2, <1>3, WFMin
<1>5. PICK m \in Bad : x = 0 .. m
  OBVIOUS
<1>6. m # 0 /\ m - 1 \in Nat /\ m - 1 + 1 = m
  OBVIOUS
<1>7. m - 1 \in Bad
  BY <1>6
<1>8. <<0 .. m - 1, x>> \in R
  <2>1. 0 .. m - 1 \subseteq 0 .. m /\ m \in 0 .. m /\ m \notin 0 .. m - 1
    BY <1>6
  <2> QED BY <1>5, <1>6, <2>1 DEF StrictSubsetOrdering
<1> QED BY <1>4, <1>7, <1>8

\* The same up to a bound.
LEMMA UpToInduction ==
    ASSUME NEW n \in Nat, NEW S, 0 \in S, \A i \in 0 .. n - 1 : i \in S => i + 1 \in S
    PROVE  0 .. n \subseteq S
<1> DEFINE T == {k \in Nat : k <= n => k \in S}
<1>1. 0 \in T
  OBVIOUS
<1>2. ASSUME NEW k \in Nat, k \in T PROVE k + 1 \in T
  BY <1>2
<1>3. Nat \subseteq T
  <2> HIDE DEF T
  <2> QED BY <1>1, <1>2, NatSetInduction
<1> QED BY <1>3

\* A function given by its first value and by a step from each value to the next.
StepFunctions(n, V) == [(1 .. n) \X V -> V]
Follows(g, n, a, F) == g[0] = a /\ \A i \in 1 .. n : g[i] = F[<<i, g[i - 1]>>]

LEMMA StepwiseFunction ==
    ASSUME NEW V, NEW n \in Nat, NEW a \in V, NEW F \in StepFunctions(n, V)
    PROVE  \E g \in [0 .. n -> V] : Follows(g, n, a, F)
<1> USE DEF StepFunctions, Follows
<1> DEFINE Good(k, g) == g[0] = a /\ \A i \in 1 .. k : g[i] = F[<<i, g[i - 1]>>]
           S == {k \in Nat : \E g \in [0 .. k -> V] : Good(k, g)}
<1>1. 0 \in S
  <2>1. [i \in 0 .. 0 |-> a] \in [0 .. 0 -> V] /\ Good(0, [i \in 0 .. 0 |-> a])
    OBVIOUS
  <2> QED BY <2>1
<1>2. ASSUME NEW k \in 0 .. n - 1, k \in S PROVE k + 1 \in S
  <2>1. PICK g \in [0 .. k -> V] : Good(k, g)
    BY <1>2
  <2> DEFINE h == [i \in 0 .. k + 1 |-> IF i <= k THEN g[i] ELSE F[<<k + 1, g[k]>>]]
  <2>2. F[<<k + 1, g[k]>>] \in V
    OBVIOUS
  <2>3. h \in [0 .. k + 1 -> V]
    BY <2>2
  <2>4. Good(k + 1, h)
    <3>1. h[0] = a
      BY <2>1
    <3>2. ASSUME NEW i \in 1 .. k + 1 PROVE h[i] = F[<<i, h[i - 1]>>]
      <4>1. CASE i <= k
        <5>1. h[i] = g[i] /\ h[i - 1] = g[i - 1] /\ i \in 1 .. k
          BY <4>1
        <5> QED BY <5>1, <2>1
      <4>2. CASE i = k + 1
        <5>1. h[i] = F[<<k + 1, g[k]>>] /\ h[i - 1] = g[k]
          BY <4>2
        <5> QED BY <5>1, <4>2
      <4> QED BY <4>1, <4>2
    <3> QED BY <3>1, <3>2
  <2>5. k + 1 \in Nat
    OBVIOUS
  <2> QED BY <2>3, <2>4, <2>5
<1>3. n \in S
  <2> HIDE DEF S
  <2>1. 0 .. n \subseteq S
    BY <1>1, <1>2, UpToInduction
  <2> QED BY <2>1
<1> QED BY <1>3

----------------------------------------------------------------------------
(* Sequences and the sets of their entries.                                 *)

LEMMA SeqFacts ==
    ASSUME NEW V, NEW s \in Seq(V)
    PROVE  Len(s) \in Nat /\ DOMAIN s = 1 .. Len(s) /\ \A i \in 1 .. Len(s) : s[i] \in V
  OBVIOUS

LEMMA EntriesAreValues ==
    ASSUME NEW V, NEW s \in Seq(V)
    PROVE  /\ ToSet(s) = {s[i] : i \in 1 .. Len(s)}
           /\ ToSet(s) \subseteq V
<1>1. ToSet(s) = {s[i] : i \in 1 .. Len(s)}
  BY SeqFacts DEF ToSet
<1> QED BY <1>1, SeqFacts

LEMMA EntriesOfEmpty == ToSet(<<>>) = {}
  BY DEF ToSet

LEMMA EntriesOfConcat ==
    ASSUME NEW V, NEW s \in Seq(V), NEW t \in Seq(V)
    PROVE  s \o t \in Seq(V) /\ ToSet(s \o t) = ToSet(s) \cup ToSet(t)
<1> DEFINE m == Len(s)
           n == Len(t)
           st == s \o t
<1>1. /\ st \in Seq(V) /\ Len(st) = m + n
      /\ \A i \in 1 .. m + n : st[i] = IF i <= m THEN s[i] ELSE t[i - m]
  BY ConcatProperties
<1>2. m \in Nat /\ n \in Nat
  BY SeqFacts
<1>3. /\ ToSet(s) = {s[i] : i \in 1 .. m} /\ ToSet(t) = {t[i] : i \in 1 .. n}
      /\ ToSet(st) = {st[i] : i \in 1 .. m + n}
  BY <1>1, EntriesAreValues
<1> HIDE DEF st, m, n
<1>4. ASSUME NEW j \in 1 .. n PROVE t[j] \in {st[i] : i \in 1 .. m + n}
  <2>1. m + j \in 1 .. m + n /\ ~(m + j <= m) /\ m + j - m = j
    BY <1>2
  <2>2. st[m + j] = t[j]
    BY <1>1, <1>2, <2>1
  <2> QED BY <2>1, <2>2
<1>5. ASSUME NEW j \in 1 .. m PROVE s[j] \in {st[i] : i \in 1 .. m + n}
  <2>1. j \in 1 .. m + n /\ j <= m
    BY <1>2
  <2>2. st[j] = s[j]
    BY <1>1, <2>1
  <2> QED BY <2>1, <2>2
<1>6. ASSUME NEW i \in 1 .. m + n
      PROVE  st[i] \in {s[j] : j \in 1 .. m} \cup {t[j] : j \in 1 .. n}
  <2>1. CASE i <= m
    BY <1>1, <1>2, <2>1
  <2>2. CASE ~(i <= m)
    <3>1. i - m \in 1 .. n
      BY <1>2, <2>2
    <3> QED BY <1>1, <2>2, <3>1
  <2> QED BY <2>1, <2>2
<1>7. {st[i] : i \in 1 .. m + n} = {s[j] : j \in 1 .. m} \cup {t[j] : j \in 1 .. n}
  BY <1>4, <1>5, <1>6
<1> QED BY <1>1, <1>3, <1>7 DEF st

LEMMA EntriesOfOne ==
    ASSUME NEW V, NEW e \in V
    PROVE  <<e>> \in Seq(V) /\ ToSet(<<e>>) = {e}
  BY DEF ToSet

LEMMA EntriesOfAppend ==
    ASSUME NEW V, NEW s \in Seq(V), NEW e \in V
    PROVE  /\ Append(s, e) \in Seq(V)
           /\ ToSet(Append(s, e)) = ToSet(s) \cup {e}
<1>1. Append(s, e) = s \o <<e>>
  BY AppendIsConcat
<1>2. <<e>> \in Seq(V) /\ ToSet(<<e>>) = {e}
  BY EntriesOfOne
<1>3. PICK t \in Seq(V) : t = <<e>> /\ ToSet(t) = {e}
  BY <1>2
<1>4. s \o t \in Seq(V) /\ ToSet(s \o t) = ToSet(s) \cup ToSet(t)
  BY EntriesOfConcat
<1> QED BY <1>1, <1>3, <1>4

\* FlattenSeq joins sequences one after the other; what it has joined so far holds what was
\* in one of them.
Extended(s, t) == s \o t
AreStages(f, ss, V) ==
    /\ FlattenSeq(ss) = f[Len(ss)]
    /\ \A i \in 1 .. Len(ss) : f[i] = IF i = 1 THEN ss[i] ELSE Extended(f[i - 1], ss[i])
    /\ \A i \in 1 .. Len(ss) : f[i] \in Seq(V)
    /\ \A i \in 1 .. Len(ss) : ToSet(f[i]) = UNION {ToSet(ss[j]) : j \in 1 .. i}

LEMMA FlattenStages ==
    ASSUME NEW V, NEW ss \in Seq(Seq(V)), Len(ss) # 0
    PROVE  \E f : AreStages(f, ss, V)
<1> DEFINE n == Len(ss)
           Joins(h) == h = [i \in 1 .. n |-> IF i = 1 THEN ss[i] ELSE h[i - 1] \o ss[i]]
<1>1. \E h : Joins(h)
  <2> DEFINE F == [p \in (1 .. n) \X Seq(V) |-> p[2] \o ss[p[1]]]
  <2>1. F \in StepFunctions(n, Seq(V)) /\ <<>> \in Seq(V) /\ n \in Nat
    BY ConcatProperties DEF StepFunctions
  <2>2. PICK g \in [0 .. n -> Seq(V)] : Follows(g, n, <<>>, F)
    <3> HIDE DEF F, n
    <3> QED BY <2>1, StepwiseFunction
  <2> USE DEF Follows
  <2> DEFINE h == [i \in 1 .. n |-> g[i]]
  <2>3. ASSUME NEW i \in 1 .. n PROVE h[i] = IF i = 1 THEN ss[i] ELSE h[i - 1] \o ss[i]
    <3>1. i - 1 \in 0 .. n /\ i \in 0 .. n
      OBVIOUS
    <3>2. g[i - 1] \in Seq(V) /\ ss[i] \in Seq(V)
      <4> HIDE DEF h
      <4> QED BY <3>1, SeqFacts
    <3>3. g[i] = g[i - 1] \o ss[i]
      BY <2>2, <3>2
    <3>4. CASE i = 1
      <4>1. g[i - 1] = <<>>
        BY <2>2, <3>4
      <4> QED BY <3>2, <3>3, <3>4, <4>1, ConcatEmptySeq
    <3>5. CASE i # 1
      <4>1. i - 1 \in 1 .. n
        BY <3>5
      <4> QED BY <3>3, <3>5, <4>1
    <3> QED BY <3>4, <3>5
  <2>4. Joins(h)
    BY <2>3
  <2> QED BY <2>4
<1>2. FlattenSeq(ss) = (CHOOSE h : Joins(h))[n]
  BY DEF FlattenSeq
<1>3. PICK f : Joins(f) /\ FlattenSeq(ss) = f[n]
  <2> HIDE DEF Joins
  <2> QED BY <1>1, <1>2
<1> DEFINE S == {k \in Nat : k \in 1 .. n => /\ f[k] \in Seq(V)
                                             /\ ToSet(f[k]) = UNION {ToSet(ss[i]) : i \in 1 .. k}}
<1>4. \A i \in 1 .. n : f[i] = IF i = 1 THEN ss[i] ELSE Extended(f[i - 1], ss[i])
  BY <1>3 DEF Extended
<1>5. 0 \in S /\ n \in Nat
  OBVIOUS
<1>6. ASSUME NEW k \in 0 .. n - 1, k \in S PROVE k + 1 \in S
  <2>1. PICK j \in 1 .. n : j = k + 1 /\ j - 1 = k
    OBVIOUS
  <2> DEFINE before == UNION {ToSet(ss[i]) : i \in 1 .. k}
  <2>2. f[j] \in Seq(V) /\ ToSet(f[j]) = before \cup ToSet(ss[j])
    <3>1. ss[j] \in Seq(V)
      OBVIOUS
    <3>2. CASE k = 0
      <4>1. f[j] = ss[j] /\ before = {}
        BY <2>1, <3>2, <1>4
      <4> QED BY <3>1, <4>1
    <3>3. CASE k # 0
      <4>1. f[k] \in Seq(V) /\ ToSet(f[k]) = before
        BY <3>3, <1>6
      <4>2. f[j] = Extended(f[k], ss[j])
        BY <2>1, <3>3, <1>4
      <4>3. f[j] = f[k] \o ss[j]
        BY <4>2 DEF Extended
      <4> HIDE DEF before
      <4> QED BY <3>1, <4>1, <4>3, EntriesOfConcat
    <3> QED BY <3>2, <3>3
  <2>3. UNION {ToSet(ss[i]) : i \in 1 .. j} = before \cup ToSet(ss[j])
    <3>1. 1 .. j = (1 .. k) \cup {j}
      BY <2>1
    <3> QED BY <3>1
  <2>4. j \in Nat
    BY <2>1
  <2>5. f[j] \in Seq(V) /\ ToSet(f[j]) = UNION {ToSet(ss[i]) : i \in 1 .. j}
    BY <2>2, <2>3
  <2>6. j \in S
    BY <2>4, <2>5
  <2> QED BY <2>1, <2>6
<1>7. 0 .. n \subseteq S
  <2> HIDE DEF S, n
  <2> QED BY <1>5, <1>6, UpToInduction
<1>8. ASSUME NEW i \in 1 .. n
      PROVE  f[i] \in Seq(V) /\ ToSet(f[i]) = UNION {ToSet(ss[j]) : j \in 1 .. i}
  <2>1. i \in 0 .. n
    OBVIOUS
  <2>2. i \in S
    BY <1>7, <2>1
  <2> QED BY <2>2
<1>9. FlattenSeq(ss) = f[n]
  BY <1>3
<1> QED BY <1>4, <1>8, <1>9 DEF AreStages

\* What is in the join is what was in one of them.
LEMMA FlattenProperties ==
    ASSUME NEW V, NEW ss \in Seq(Seq(V))
    PROVE  /\ FlattenSeq(ss) \in Seq(V)
           /\ ToSet(FlattenSeq(ss)) = UNION {ToSet(ss[i]) : i \in 1 .. Len(ss)}
<1>1. CASE Len(ss) = 0
  <2>1. ss = <<>>
    BY <1>1
  <2>2. FlattenSeq(ss) = ss
    BY <1>1 DEF FlattenSeq
  <2>3. UNION {ToSet(ss[i]) : i \in 1 .. Len(ss)} = {}
    BY <1>1
  <2>4. FlattenSeq(ss) = <<>> /\ <<>> \in Seq(V)
    BY <2>1, <2>2
  <2> QED BY <2>3, <2>4, EntriesOfEmpty
<1>2. CASE Len(ss) # 0
  <2>1. Len(ss) \in 1 .. Len(ss)
    BY <1>2
  <2>2. PICK f : AreStages(f, ss, V)
    BY <1>2, FlattenStages
  <2> QED BY <2>1, <2>2 DEF AreStages
<1> QED BY <1>1, <1>2

\* Induction over a join: what holds of the empty one, and with one more sequence whenever
\* it holds of those before, holds of the whole.
LEMMA FlattenInduction ==
    ASSUME NEW V, NEW ss \in Seq(Seq(V)), NEW G, <<>> \in G,
           \A k \in 1 .. Len(ss) : \A s \in G \cap Seq(V) :
               ToSet(s) = UNION {ToSet(ss[i]) : i \in 1 .. k - 1} => s \o ss[k] \in G
    PROVE  FlattenSeq(ss) \in G
<1>1. CASE Len(ss) = 0
  <2>1. ss = <<>>
    BY <1>1
  <2> QED BY <1>1, <2>1 DEF FlattenSeq
<1>2. CASE Len(ss) # 0
  <2> DEFINE n == Len(ss)
  <2>1. PICK f : AreStages(f, ss, V)
    BY <1>2, FlattenStages
  <2> DEFINE S == {k \in Nat : k \in 1 .. n => f[k] \in G}
  <2>2. 0 \in S /\ n \in Nat
    OBVIOUS
  <2>3. ASSUME NEW k \in 0 .. n - 1, k \in S PROVE k + 1 \in S
    <3>1. PICK j \in 1 .. n : j = k + 1 /\ j - 1 = k /\ j \in Nat
      OBVIOUS
    <3>2. CASE k = 0
      <4>1. f[j] = ss[j] /\ ss[j] \in Seq(V)
        BY <2>1, <3>1, <3>2 DEF AreStages
      <4>2. <<>> \in G \cap Seq(V) /\ ToSet(<<>>) = UNION {ToSet(ss[i]) : i \in 1 .. j - 1}
        BY <3>1, <3>2, EntriesOfEmpty
      <4>3. <<>> \o ss[j] \in G
        BY <4>2
      <4> QED BY <3>1, <4>1, <4>3, ConcatEmptySeq
    <3>3. CASE k # 0
      <4>1. k \in 1 .. n /\ k \in Nat
        BY <3>3
      <4>2. f[j] = Extended(f[k], ss[j])
        <5>1. j # 1
          BY <3>1, <3>3
        <5> HIDE DEF n
        <5> QED BY <2>1, <3>1, <5>1 DEF AreStages, n
      <4>3. f[k] \in G \cap Seq(V) /\ ToSet(f[k]) = UNION {ToSet(ss[i]) : i \in 1 .. k}
        BY <2>1, <2>3, <4>1 DEF AreStages
      <4>4. f[k] \o ss[j] \in G
        BY <3>1, <4>3
      <4> QED BY <3>1, <4>2, <4>4 DEF Extended
    <3> QED BY <3>2, <3>3
  <2>4. 0 .. n \subseteq S
    <3> HIDE DEF S, n
    <3> QED BY <2>2, <2>3, UpToInduction
  <2>5. n \in 1 .. n /\ n \in 0 .. n
    BY <1>2
  <2>6. f[n] \in G
    BY <2>4, <2>5
  <2> QED BY <2>1, <2>6 DEF AreStages
<1> QED BY <1>1, <1>2

\* The members of a list that are in a set.
LEMMA ThoseAreMembers ==
    ASSUME NEW V, NEW s \in Seq(V), NEW S
    PROVE  Those(s, S) \in Seq(V \cap S) /\ ToSet(Those(s, S)) = ToSet(s) \cap S
<1> DEFINE ss == [i \in DOMAIN s |-> IF s[i] \in S THEN <<s[i]>> ELSE <<>>]
<1>1. DOMAIN s = 1 .. Len(s) /\ Len(s) \in Nat
  OBVIOUS
<1>2. ss \in Seq(Seq(V \cap S)) /\ Len(ss) = Len(s)
  <2>1. ASSUME NEW i \in 1 .. Len(s)
        PROVE  (IF s[i] \in S THEN <<s[i]>> ELSE <<>>) \in Seq(V \cap S)
    <3>1. CASE s[i] \in S
      <4>1. s[i] \in V \cap S
        BY <3>1
      <4>2. <<s[i]>> \in Seq(V \cap S)
        BY <4>1
      <4> QED BY <3>1, <4>2
    <3>2. CASE s[i] \notin S
      BY <3>2
    <3> QED BY <3>1, <3>2
  <2>2. ss \in [1 .. Len(s) -> Seq(V \cap S)]
    BY <1>1, <2>1
  <2> HIDE DEF ss
  <2> QED BY <1>1, <2>2
<1>3. \A i \in 1 .. Len(ss) : ToSet(ss[i]) = {s[i]} \cap S
  <2> SUFFICES ASSUME NEW i \in 1 .. Len(s) PROVE ToSet(ss[i]) = {s[i]} \cap S
    BY <1>2
  <2>1. CASE s[i] \in S
    BY <1>1, <2>1, EntriesOfOne
  <2>2. CASE s[i] \notin S
    BY <1>1, <2>2, EntriesOfEmpty
  <2> QED BY <2>1, <2>2
<1>4. FlattenSeq(ss) \in Seq(V \cap S) /\ ToSet(FlattenSeq(ss)) = UNION {ToSet(ss[i]) : i \in 1 .. Len(ss)}
  <2> HIDE DEF ss
  <2> QED BY <1>2, FlattenProperties
<1>5. ToSet(s) = {s[i] : i \in 1 .. Len(s)}
  BY EntriesAreValues
<1>6. UNION {ToSet(ss[i]) : i \in 1 .. Len(ss)} = ToSet(s) \cap S
  <2> HIDE DEF ss
  <2> QED BY <1>2, <1>3, <1>5
<1> QED BY <1>4, <1>6 DEF Those

----------------------------------------------------------------------------
(* Sums over finite sets.                                                   *)

\* What the recursive function inside the fold of the library is: one member at a time.
IsSumOf(F, f, T) ==
    F = [s \in SUBSET T |-> IF s = {} THEN 0
                            ELSE f[CHOOSE x \in s : TRUE] + F[s \ {CHOOSE x \in s : TRUE}]]

LEMMA SumIsRecursive ==
    ASSUME NEW f, NEW T
    PROVE  SumFunctionOnSet(f, T) = (CHOOSE F : IsSumOf(F, f, T))[T]
  BY DEF SumFunctionOnSet, FoldFunctionOnSet, MapThenFoldSet, IsSumOf

LEMMA SumExists ==
    ASSUME NEW f, NEW T, IsFiniteSet(T), \A x \in T : f[x] \in Int
    PROVE  \E F \in [SUBSET T -> Int] : IsSumOf(F, f, T)
<1> DEFINE c(s) == CHOOSE x \in s : TRUE
           Val(F, s) == IF s = {} THEN 0 ELSE f[c(s)] + F[s \ {c(s)}]
           Good(n, F) == \A s \in SUBSET T : Cardinality(s) <= n => F[s] = Val(F, s)
           S == {n \in Nat : \E F \in [SUBSET T -> Int] : Good(n, F)}
<1>1. \A s \in SUBSET T : s # {} => /\ c(s) \in s /\ f[c(s)] \in Int /\ s \ {c(s)} \in SUBSET T
  OBVIOUS
<1>2. \A s \in SUBSET T : IsFiniteSet(s) /\ Cardinality(s) \in Nat
  BY FS_Subset, FS_CardinalityType
<1>3. \A s \in SUBSET T : s # {} => Cardinality(s \ {c(s)}) = Cardinality(s) - 1
  BY <1>1, <1>2, FS_RemoveElement
<1> HIDE DEF c
<1>4. 0 \in S
  <2>1. [s \in SUBSET T |-> 0] \in [SUBSET T -> Int]
    OBVIOUS
  <2>2. \A s \in SUBSET T : Cardinality(s) <= 0 => s = {}
    BY <1>2, FS_EmptySet
  <2>3. Good(0, [s \in SUBSET T |-> 0])
    BY <2>2
  <2> QED BY <2>1, <2>3
<1>5. ASSUME NEW n \in Nat, n \in S PROVE n + 1 \in S
  <2>1. PICK F \in [SUBSET T -> Int] : Good(n, F)
    BY <1>5
  <2> DEFINE G == [s \in SUBSET T |-> Val(F, s)]
  <2>2. G \in [SUBSET T -> Int]
    BY <1>1
  <2>3. ASSUME NEW s \in SUBSET T, Cardinality(s) <= n PROVE G[s] = F[s]
    BY <2>1, <2>3
  <2>4. ASSUME NEW s \in SUBSET T, Cardinality(s) <= n + 1 PROVE G[s] = Val(G, s)
    <3>1. CASE s = {}
      BY <3>1
    <3>2. CASE s # {}
      <4>1. s \ {c(s)} \in SUBSET T /\ Cardinality(s \ {c(s)}) <= n
        BY <1>1, <1>2, <1>3, <2>4, <3>2
      <4>2. G[s \ {c(s)}] = F[s \ {c(s)}]
        BY <2>3, <4>1
      <4> QED BY <3>2, <4>2
    <3> QED BY <3>1, <3>2
  <2>5. Good(n + 1, G)
    BY <2>4
  <2> HIDE DEF G, Good
  <2> QED BY <2>2, <2>5
<1>6. Cardinality(T) \in S
  <2> HIDE DEF S
  <2>1. Nat \subseteq S
    BY <1>4, <1>5, NatSetInduction
  <2> QED BY <1>2, <2>1
<1>7. PICK F \in [SUBSET T -> Int] : Good(Cardinality(T), F)
  BY <1>6
<1>8. ASSUME NEW s \in SUBSET T PROVE F[s] = Val(F, s)
  <2>1. Cardinality(s) <= Cardinality(T)
    BY FS_Subset
  <2> QED BY <1>7, <2>1
<1>9. IsSumOf(F, f, T)
  <2>1. F = [s \in SUBSET T |-> Val(F, s)]
    BY <1>8
  <2> QED BY <2>1 DEF IsSumOf, c
<1> QED BY <1>9

LEMMA SumIsUnique ==
    ASSUME NEW f, NEW T, IsFiniteSet(T), NEW U, T \subseteq U,
           NEW F, IsSumOf(F, f, T), NEW G, IsSumOf(G, f, U)
    PROVE  F[T] = G[T]
<1> DEFINE c(s) == CHOOSE x \in s : TRUE
           S == {n \in Nat : \A s \in SUBSET T : Cardinality(s) = n => F[s] = G[s]}
<1>1. \A s \in SUBSET T : s # {} => c(s) \in s /\ s \ {c(s)} \in SUBSET T
  OBVIOUS
<1>2. \A s \in SUBSET T : IsFiniteSet(s) /\ Cardinality(s) \in Nat
  BY FS_Subset, FS_CardinalityType
<1>3. \A s \in SUBSET T : s # {} => Cardinality(s \ {c(s)}) = Cardinality(s) - 1
  BY <1>1, <1>2, FS_RemoveElement
<1>4. \A s \in SUBSET T : F[s] = IF s = {} THEN 0 ELSE f[c(s)] + F[s \ {c(s)}]
  BY DEF IsSumOf
<1>5. \A s \in SUBSET T : G[s] = IF s = {} THEN 0 ELSE f[c(s)] + G[s \ {c(s)}]
  <2>1. SUBSET T \subseteq SUBSET U
    OBVIOUS
  <2> QED BY <2>1 DEF IsSumOf
<1> HIDE DEF c
<1>6. 0 \in S
  <2>1. \A s \in SUBSET T : Cardinality(s) = 0 => s = {}
    BY <1>2, FS_EmptySet
  <2> QED BY <1>4, <1>5, <2>1
<1>7. ASSUME NEW n \in Nat, n \in S PROVE n + 1 \in S
  <2>1. ASSUME NEW s \in SUBSET T, Cardinality(s) = n + 1 PROVE F[s] = G[s]
    <3>1. s # {}
      BY <2>1, FS_EmptySet
    <3>2. F[s \ {c(s)}] = G[s \ {c(s)}]
      BY <1>1, <1>3, <1>7, <2>1, <3>1
    <3> QED BY <1>4, <1>5, <3>1, <3>2
  <2> QED BY <2>1
<1>8. Nat \subseteq S
  <2> HIDE DEF S
  <2> QED BY <1>6, <1>7, NatSetInduction
<1> QED BY <1>2, <1>8

\* The sum of the empty set, and of a set as one member, whichever, and the rest.
LEMMA SumStep ==
    ASSUME NEW f, NEW T, IsFiniteSet(T), \A x \in T : f[x] \in Int
    PROVE  /\ SumFunctionOnSet(f, {}) = 0
           /\ SumFunctionOnSet(f, T) \in Int
           /\ \A x \in T : /\ SumFunctionOnSet(f, T \ {x}) \in Int
                           /\ SumFunctionOnSet(f, T) = f[x] + SumFunctionOnSet(f, T \ {x})
<1>1. PICK F \in [SUBSET T -> Int] : IsSumOf(F, f, T)
  BY SumExists
<1>2. ASSUME NEW s \in SUBSET T PROVE SumFunctionOnSet(f, s) = F[s]
  <2>1. IsFiniteSet(s)
    BY FS_Subset
  <2>2. PICK H : IsSumOf(H, f, s)
    BY <2>1, SumExists
  <2>3. PICK G : IsSumOf(G, f, s) /\ SumFunctionOnSet(f, s) = G[s]
    BY <2>2, SumIsRecursive
  <2> QED BY <1>1, <2>1, <2>3, SumIsUnique
<1> DEFINE c(s) == CHOOSE x \in s : TRUE
           S == {n \in Nat : \A s \in SUBSET T : Cardinality(s) = n =>
                                \A x \in s : F[s] = f[x] + F[s \ {x}]}
<1>3. \A s \in SUBSET T : s # {} => c(s) \in s
  OBVIOUS
<1>4. \A s \in SUBSET T : IsFiniteSet(s) /\ Cardinality(s) \in Nat
  BY FS_Subset, FS_CardinalityType
<1>5. \A s \in SUBSET T : \A x \in s : Cardinality(s \ {x}) = Cardinality(s) - 1 /\ s \ {x} \in SUBSET T
  BY <1>4, FS_RemoveElement
<1>6. \A s \in SUBSET T : F[s] = IF s = {} THEN 0 ELSE f[c(s)] + F[s \ {c(s)}]
  BY <1>1 DEF IsSumOf
<1> HIDE DEF c
<1>7. 0 \in S
  <2>1. \A s \in SUBSET T : Cardinality(s) = 0 => s = {}
    BY <1>4, FS_EmptySet
  <2> QED BY <2>1
<1>8. ASSUME NEW n \in Nat, n \in S PROVE n + 1 \in S
  <2>1. ASSUME NEW s \in SUBSET T, Cardinality(s) = n + 1, NEW x \in s PROVE F[s] = f[x] + F[s \ {x}]
    <3>1. PICK y \in s : y = c(s) /\ F[s] = f[y] + F[s \ {y}]
      BY <1>3, <1>6
    <3>2. CASE x = y
      BY <3>1, <3>2
    <3>3. CASE x # y
      <4>1. s \ {x} \in SUBSET T /\ s \ {y} \in SUBSET T /\ (s \ {x}) \ {y} = (s \ {y}) \ {x}
        OBVIOUS
      <4>2. Cardinality(s \ {x}) = n /\ Cardinality(s \ {y}) = n
        BY <1>5, <2>1
      <4>3. F[s \ {x}] = f[y] + F[(s \ {x}) \ {y}]
        BY <1>8, <3>3, <4>1, <4>2
      <4>4. F[s \ {y}] = f[x] + F[(s \ {y}) \ {x}]
        BY <1>8, <3>3, <4>1, <4>2
      <4>5. /\ F[(s \ {x}) \ {y}] \in Int /\ f[x] \in Int /\ f[y] \in Int
            /\ F[(s \ {x}) \ {y}] = F[(s \ {y}) \ {x}]
        <5>1. (s \ {x}) \ {y} \in SUBSET T /\ x \in T /\ y \in T
          OBVIOUS
        <5> QED BY <1>1, <4>1, <5>1
      <4> QED BY <3>1, <4>3, <4>4, <4>5
    <3> QED BY <3>2, <3>3
  <2> QED BY <2>1
<1>9. Nat \subseteq S
  <2> HIDE DEF S
  <2> QED BY <1>7, <1>8, NatSetInduction
<1>10. ASSUME NEW x \in T PROVE F[T] = f[x] + F[T \ {x}] /\ F[T \ {x}] \in Int
  <2>1. T \in SUBSET T /\ Cardinality(T) \in S /\ T \ {x} \in SUBSET T
    BY <1>4, <1>9
  <2> QED BY <2>1
<1>11. SumFunctionOnSet(f, {}) = 0
  <2>1. {} \in SUBSET T
    OBVIOUS
  <2> QED BY <1>2, <1>6, <2>1
<1>12. SumFunctionOnSet(f, T) = F[T] /\ F[T] \in Int
  BY <1>2
<1> QED BY <1>2, <1>10, <1>11, <1>12

\* Induction over a finite set: what holds of the empty set and with every member more.
LEMMA FiniteSetSteps ==
    ASSUME NEW T, IsFiniteSet(T), NEW G, {} \in G,
           \A s \in SUBSET T : \A x \in T \ s : s \in G => s \cup {x} \in G
    PROVE  T \in G
<1> DEFINE S == {n \in Nat : \A s \in SUBSET T : Cardinality(s) = n => s \in G}
<1>1. \A s \in SUBSET T : IsFiniteSet(s) /\ Cardinality(s) \in Nat
  BY FS_Subset, FS_CardinalityType
<1>2. 0 \in S
  <2>1. \A s \in SUBSET T : Cardinality(s) = 0 => s = {}
    BY <1>1, FS_EmptySet
  <2> QED BY <2>1
<1>3. ASSUME NEW n \in Nat, n \in S PROVE n + 1 \in S
  <2>1. ASSUME NEW s \in SUBSET T, Cardinality(s) = n + 1 PROVE s \in G
    <3>1. s # {}
      BY <2>1, FS_EmptySet
    <3>2. PICK x \in s : TRUE
      BY <3>1
    <3>3. Cardinality(s \ {x}) = Cardinality(s) - 1 /\ s \ {x} \in SUBSET T
      BY <1>1, FS_RemoveElement
    <3>4. s \ {x} \in G
      BY <1>3, <2>1, <3>3
    <3>5. x \in T \ (s \ {x}) /\ (s \ {x}) \cup {x} = s
      OBVIOUS
    <3> QED BY <3>3, <3>4, <3>5
  <2> QED BY <2>1
<1>4. Nat \subseteq S
  <2> HIDE DEF S
  <2> QED BY <1>2, <1>3, NatSetInduction
<1> QED BY <1>1, <1>4

LEMMA SumWithOneMore ==
    ASSUME NEW f, NEW T, IsFiniteSet(T), \A x \in T : f[x] \in Int, NEW s \in SUBSET T, NEW x \in T \ s
    PROVE  /\ SumFunctionOnSet(f, s) \in Int
           /\ SumFunctionOnSet(f, s \cup {x}) = f[x] + SumFunctionOnSet(f, s)
<1>1. IsFiniteSet(s \cup {x}) /\ (s \cup {x}) \ {x} = s
  BY FS_Subset, FS_AddElement
<1>2. PICK t : t = s \cup {x}
  OBVIOUS
<1>3. IsFiniteSet(t) /\ \A y \in t : f[y] \in Int
  BY <1>1, <1>2
<1>4. x \in t /\ t \ {x} = s
  BY <1>1, <1>2
<1>5. SumFunctionOnSet(f, t \ {x}) \in Int /\ SumFunctionOnSet(f, t) = f[x] + SumFunctionOnSet(f, t \ {x})
  <2>1. \A y \in t : /\ SumFunctionOnSet(f, t \ {y}) \in Int
                     /\ SumFunctionOnSet(f, t) = f[y] + SumFunctionOnSet(f, t \ {y})
    BY <1>3, SumStep
  <2> QED BY <1>4, <2>1
<1> QED BY <1>2, <1>4, <1>5

LEMMA SumOfEmpty ==
    ASSUME NEW f PROVE SumFunctionOnSet(f, {}) = 0
<1>1. IsFiniteSet({})
  BY FS_EmptySet
<1> QED BY <1>1, SumStep

\* A sum only looks at the values it adds.
LEMMA SumAgrees ==
    ASSUME NEW f, NEW g, NEW T, IsFiniteSet(T), \A x \in T : f[x] \in Int /\ f[x] = g[x]
    PROVE  SumFunctionOnSet(f, T) = SumFunctionOnSet(g, T)
<1> DEFINE G == {s \in SUBSET T : SumFunctionOnSet(f, s) = SumFunctionOnSet(g, s)}
<1>1. {} \in G
  BY SumOfEmpty
<1>2. ASSUME NEW s \in SUBSET T, NEW x \in T \ s, s \in G PROVE s \cup {x} \in G
  <2>1. SumFunctionOnSet(f, s \cup {x}) = f[x] + SumFunctionOnSet(f, s)
    BY SumWithOneMore
  <2>2. SumFunctionOnSet(g, s \cup {x}) = g[x] + SumFunctionOnSet(g, s)
    BY SumWithOneMore
  <2> QED BY <1>2, <2>1, <2>2
<1>3. T \in G
  <2> HIDE DEF G
  <2> QED BY <1>1, <1>2, FiniteSetSteps
<1> QED BY <1>3

LEMMA SumMonotone ==
    ASSUME NEW f, NEW g, NEW T, IsFiniteSet(T),
           \A x \in T : f[x] \in Int /\ g[x] \in Int /\ f[x] <= g[x]
    PROVE  /\ SumFunctionOnSet(f, T) \in Int /\ SumFunctionOnSet(g, T) \in Int
           /\ SumFunctionOnSet(f, T) <= SumFunctionOnSet(g, T)
<1> DEFINE G == {s \in SUBSET T : /\ SumFunctionOnSet(f, s) \in Int /\ SumFunctionOnSet(g, s) \in Int
                                  /\ SumFunctionOnSet(f, s) <= SumFunctionOnSet(g, s)}
<1>1. {} \in G
  BY SumOfEmpty
<1>2. ASSUME NEW s \in SUBSET T, NEW x \in T \ s, s \in G PROVE s \cup {x} \in G
  <2>1. SumFunctionOnSet(f, s \cup {x}) = f[x] + SumFunctionOnSet(f, s)
    BY SumWithOneMore
  <2>2. SumFunctionOnSet(g, s \cup {x}) = g[x] + SumFunctionOnSet(g, s)
    BY SumWithOneMore
  <2> QED BY <1>2, <2>1, <2>2
<1>3. T \in G
  <2> HIDE DEF G
  <2> QED BY <1>1, <1>2, FiniteSetSteps
<1> QED BY <1>3

\* The sum of two functions, value by value.
LEMMA SumOfSums ==
    ASSUME NEW f, NEW g, NEW h, NEW T, IsFiniteSet(T),
           \A x \in T : f[x] \in Int /\ g[x] \in Int /\ h[x] = f[x] + g[x]
    PROVE  /\ SumFunctionOnSet(f, T) \in Int /\ SumFunctionOnSet(g, T) \in Int
           /\ SumFunctionOnSet(h, T) = SumFunctionOnSet(f, T) + SumFunctionOnSet(g, T)
<1> DEFINE G == {s \in SUBSET T : /\ SumFunctionOnSet(f, s) \in Int /\ SumFunctionOnSet(g, s) \in Int
                                  /\ SumFunctionOnSet(h, s) = SumFunctionOnSet(f, s) + SumFunctionOnSet(g, s)}
<1>1. {} \in G
  BY SumOfEmpty
<1>2. ASSUME NEW s \in SUBSET T, NEW x \in T \ s, s \in G PROVE s \cup {x} \in G
  <2>1. SumFunctionOnSet(f, s \cup {x}) = f[x] + SumFunctionOnSet(f, s)
    BY SumWithOneMore
  <2>2. SumFunctionOnSet(g, s \cup {x}) = g[x] + SumFunctionOnSet(g, s)
    BY SumWithOneMore
  <2>3. SumFunctionOnSet(h, s \cup {x}) = h[x] + SumFunctionOnSet(h, s)
    <3>1. \A y \in T : h[y] \in Int
      OBVIOUS
    <3> QED BY <3>1, SumWithOneMore
  <2> QED BY <1>2, <2>1, <2>2, <2>3
<1>3. T \in G
  <2> HIDE DEF G
  <2> QED BY <1>1, <1>2, FiniteSetSteps
<1> QED BY <1>3

\* The sum over two sets that share nothing.
LEMMA SumOfUnion ==
    ASSUME NEW f, NEW S, NEW T, IsFiniteSet(S), IsFiniteSet(T), S \cap T = {},
           \A x \in S \cup T : f[x] \in Int
    PROVE  /\ SumFunctionOnSet(f, S) \in Int /\ SumFunctionOnSet(f, T) \in Int
           /\ SumFunctionOnSet(f, S \cup T) = SumFunctionOnSet(f, S) + SumFunctionOnSet(f, T)
<1> DEFINE G == {s \in SUBSET T : /\ SumFunctionOnSet(f, s) \in Int
                                  /\ SumFunctionOnSet(f, S \cup s) = SumFunctionOnSet(f, S) + SumFunctionOnSet(f, s)}
<1>1. SumFunctionOnSet(f, S) \in Int /\ IsFiniteSet(S \cup T)
  BY SumStep, FS_Union
<1>2. {} \in G
  BY <1>1, SumOfEmpty
<1>3. ASSUME NEW s \in SUBSET T, NEW x \in T \ s, s \in G PROVE s \cup {x} \in G
  <2>1. SumFunctionOnSet(f, s \cup {x}) = f[x] + SumFunctionOnSet(f, s)
    BY SumWithOneMore
  <2>2. SumFunctionOnSet(f, (S \cup s) \cup {x}) = f[x] + SumFunctionOnSet(f, S \cup s)
    <3>1. PICK A, B : A = S \cup T /\ B = S \cup s
      OBVIOUS
    <3>2. B \in SUBSET A /\ x \in A \ B
      BY <3>1
    <3>3. IsFiniteSet(A) /\ \A y \in A : f[y] \in Int
      BY <1>1, <3>1
    <3>4. SumFunctionOnSet(f, B \cup {x}) = f[x] + SumFunctionOnSet(f, B)
      BY <3>2, <3>3, SumWithOneMore
    <3> QED BY <3>1, <3>4
  <2>3. (S \cup s) \cup {x} = S \cup (s \cup {x}) /\ f[x] \in Int /\ s \cup {x} \in SUBSET T
    OBVIOUS
  <2>4. PICK a, b, c : /\ a = SumFunctionOnSet(f, S) /\ b = SumFunctionOnSet(f, s)
                       /\ c = SumFunctionOnSet(f, S \cup s)
    OBVIOUS
  <2>5. a \in Int /\ b \in Int /\ c = a + b
    BY <1>1, <1>3, <2>4
  <2>6. SumFunctionOnSet(f, s \cup {x}) = f[x] + b /\ SumFunctionOnSet(f, S \cup (s \cup {x})) = f[x] + c
    BY <2>1, <2>2, <2>3, <2>4
  <2>7. f[x] + c = a + (f[x] + b) /\ f[x] + b \in Int
    BY <2>3, <2>5
  <2> QED BY <2>3, <2>4, <2>6, <2>7
<1>4. T \in G
  <2> HIDE DEF G
  <2> QED BY <1>2, <1>3, FiniteSetSteps
<1> QED BY <1>1, <1>4

\* A finite set has a subset of every size up to its own.
LEMMA SubsetOfSize ==
    ASSUME NEW S, IsFiniteSet(S), NEW n \in Nat, n <= Cardinality(S)
    PROVE  \E T \in SUBSET S : Cardinality(T) = n
<1> DEFINE G == {k \in Nat : k <= Cardinality(S) => \E T \in SUBSET S : Cardinality(T) = k}
<1>1. 0 \in G
  <2>1. {} \in SUBSET S /\ Cardinality({}) = 0
    BY FS_EmptySet
  <2> QED BY <2>1
<1>2. ASSUME NEW k \in Nat, k \in G PROVE k + 1 \in G
  <2>1. SUFFICES ASSUME k + 1 <= Cardinality(S) PROVE \E T \in SUBSET S : Cardinality(T) = k + 1
    OBVIOUS
  <2>2. Cardinality(S) \in Nat
    BY FS_CardinalityType
  <2>3. PICK T \in SUBSET S : Cardinality(T) = k
    BY <1>2, <2>1, <2>2
  <2>4. PICK x \in S \ T : TRUE
    <3>1. T # S
      BY <2>1, <2>3
    <3> QED BY <3>1
  <2>5. IsFiniteSet(T)
    BY FS_Subset
  <2>6. Cardinality(T \cup {x}) = k + 1
    BY <2>3, <2>5, FS_AddElement
  <2> QED BY <2>6
<1>3. Nat \subseteq G
  <2> HIDE DEF G
  <2> QED BY <1>1, <1>2, NatSetInduction
<1> QED BY <1>3

\* Counting is adding ones.
LEMMA SumOfOnes ==
    ASSUME NEW f, NEW T, IsFiniteSet(T), \A x \in T : f[x] = 1
    PROVE  SumFunctionOnSet(f, T) = Cardinality(T)
<1> DEFINE G == {s \in SUBSET T : SumFunctionOnSet(f, s) = Cardinality(s)}
<1>1. {} \in G
  BY SumOfEmpty, FS_EmptySet
<1>2. ASSUME NEW s \in SUBSET T, NEW x \in T \ s, s \in G PROVE s \cup {x} \in G
  <2>1. SumFunctionOnSet(f, s \cup {x}) = f[x] + SumFunctionOnSet(f, s)
    <3>1. \A y \in T : f[y] \in Int
      OBVIOUS
    <3> QED BY <3>1, SumWithOneMore
  <2>2. IsFiniteSet(s)
    BY FS_Subset
  <2>3. Cardinality(s) \in Nat
    BY <2>2, FS_CardinalityType
  <2>4. Cardinality(s \cup {x}) = Cardinality(s) + 1
    BY <2>2, FS_AddElement
  <2> QED BY <1>2, <2>1, <2>3, <2>4
<1>3. T \in G
  <2> HIDE DEF G
  <2> QED BY <1>1, <1>2, FiniteSetSteps
<1> QED BY <1>3

\* The values of a function on a finite set are finitely many.
LEMMA ImageIsFinite ==
    ASSUME NEW S, IsFiniteSet(S), NEW f
    PROVE  IsFiniteSet({f[x] : x \in S})
<1> DEFINE T == {f[x] : x \in S}
           g == [x \in S |-> f[x]]
<1>1. g \in Surjection(S, T)
  BY DEF Surjection
<1> QED BY <1>1, FS_Surjection

\* A finite set of integers has a largest member.
LEMMA LargestMember ==
    ASSUME NEW S, IsFiniteSet(S), S # {}, S \subseteq Int
    PROVE  Max(S) \in S /\ \A x \in S : x <= Max(S)
<1> DEFINE G == {s \in SUBSET S : s # {} => \E x \in s : \A y \in s : x >= y}
<1>1. {} \in G
  OBVIOUS
<1>2. ASSUME NEW s \in SUBSET S, NEW z \in S \ s, s \in G PROVE s \cup {z} \in G
  <2>1. CASE s = {}
    <3>1. \A y \in s \cup {z} : z >= y
      BY <2>1
    <3> QED BY <3>1
  <2>2. CASE s # {}
    <3>1. PICK x \in s : \A y \in s : x >= y
      BY <1>2, <2>2
    <3>2. CASE x >= z
      <4>1. \A y \in s \cup {z} : x >= y
        BY <3>1, <3>2
      <4> QED BY <4>1
    <3>3. CASE ~(x >= z)
      <4>1. \A y \in s \cup {z} : z >= y
        BY <3>1, <3>3
      <4> QED BY <4>1
    <3> QED BY <3>2, <3>3
  <2> QED BY <2>1, <2>2
<1>3. S \in G
  <2> HIDE DEF G
  <2> QED BY <1>1, <1>2, FiniteSetSteps
<1>4. \E x \in S : \A y \in S : x >= y
  BY <1>3
<1>5. Max(S) \in S /\ \A y \in S : Max(S) >= y
  BY <1>4 DEF Max
<1> QED BY <1>5

\* And a smallest one.
LEMMA SmallestMember ==
    ASSUME NEW S, IsFiniteSet(S), S # {}, S \subseteq Int
    PROVE  Min(S) \in S /\ \A x \in S : Min(S) <= x
<1> DEFINE neg == [x \in S |-> -x]
           T == {neg[x] : x \in S}
<1>1. IsFiniteSet(T)
  <2> HIDE DEF neg
  <2> QED BY ImageIsFinite
<1>2. T # {} /\ T \subseteq Int
  <2>1. \A x \in S : neg[x] \in Int /\ neg[x] \in T
    OBVIOUS
  <2>2. PICK x \in S : TRUE
    OBVIOUS
  <2>3. neg[x] \in T
    BY <2>1
  <2> QED BY <2>1, <2>3
<1>3. Max(T) \in T /\ \A x \in T : x <= Max(T)
  <2> HIDE DEF T
  <2> QED BY <1>1, <1>2, LargestMember
<1>4. PICK m \in S : Max(T) = -m
  BY <1>3
<1>5. \A y \in S : m <= y
  <2> SUFFICES ASSUME NEW y \in S PROVE m <= y
    OBVIOUS
  <2>1. neg[y] \in T /\ neg[y] = -y
    OBVIOUS
  <2>2. -y <= -m
    BY <2>1, <1>3, <1>4
  <2> QED BY <2>2
<1>6. Min(S) \in S /\ \A y \in S : Min(S) =< y
  BY <1>5 DEF Min
<1> QED BY <1>6

\* The sum of one.
LEMMA SumOfOne ==
    ASSUME NEW f, NEW x, f[x] \in Int
    PROVE  SumFunctionOnSet(f, {x}) = f[x]
<1>1. IsFiniteSet({x}) /\ {} \in SUBSET {x} /\ x \in {x} \ {}
  BY FS_Singleton
<1>2. SumFunctionOnSet(f, {} \cup {x}) = f[x] + SumFunctionOnSet(f, {})
  <2>1. PICK T, s : T = {x} /\ s = {}
    OBVIOUS
  <2>2. IsFiniteSet(T) /\ (\A y \in T : f[y] \in Int) /\ s \in SUBSET T /\ x \in T \ s
    BY <1>1, <2>1
  <2>3. SumFunctionOnSet(f, s \cup {x}) = f[x] + SumFunctionOnSet(f, s)
    BY <2>2, SumWithOneMore
  <2> QED BY <2>1, <2>3
<1>3. {} \cup {x} = {x}
  OBVIOUS
<1> QED BY <1>2, <1>3, SumOfEmpty

\* A sum of naturals is one.
LEMMA SumOfNats ==
    ASSUME NEW f, NEW T, IsFiniteSet(T), \A x \in T : f[x] \in Nat
    PROVE  SumFunctionOnSet(f, T) \in Nat
<1> DEFINE G == {s \in SUBSET T : SumFunctionOnSet(f, s) \in Nat}
<1>1. {} \in G
  BY SumOfEmpty
<1>2. ASSUME NEW s \in SUBSET T, NEW x \in T \ s, s \in G PROVE s \cup {x} \in G
  <2>1. SumFunctionOnSet(f, s \cup {x}) = f[x] + SumFunctionOnSet(f, s)
    <3>1. \A y \in T : f[y] \in Int
      OBVIOUS
    <3> QED BY <3>1, SumWithOneMore
  <2> QED BY <1>2, <2>1
<1>3. T \in G
  <2> HIDE DEF G
  <2> QED BY <1>1, <1>2, FiniteSetSteps
<1> QED BY <1>3

\* A sum of zeros is zero.
LEMMA SumOfZeros ==
    ASSUME NEW f, NEW T, IsFiniteSet(T), \A x \in T : f[x] = 0
    PROVE  SumFunctionOnSet(f, T) = 0
<1> DEFINE G == {s \in SUBSET T : SumFunctionOnSet(f, s) = 0}
<1>1. {} \in G
  BY SumOfEmpty
<1>2. ASSUME NEW s \in SUBSET T, NEW x \in T \ s, s \in G PROVE s \cup {x} \in G
  <2>1. SumFunctionOnSet(f, s \cup {x}) = f[x] + SumFunctionOnSet(f, s)
    <3>1. \A y \in T : f[y] \in Int
      OBVIOUS
    <3> QED BY <3>1, SumWithOneMore
  <2> QED BY <1>2, <2>1
<1>3. T \in G
  <2> HIDE DEF G
  <2> QED BY <1>1, <1>2, FiniteSetSteps
<1> QED BY <1>3

\* What is zero outside of a part adds nothing to the sum over it.
LEMMA SumOfPart ==
    ASSUME NEW f, NEW T, IsFiniteSet(T), NEW S \in SUBSET T,
           \A x \in T : f[x] \in Int, \A x \in T \ S : f[x] = 0
    PROVE  SumFunctionOnSet(f, S) \in Int /\ SumFunctionOnSet(f, T) = SumFunctionOnSet(f, S)
<1>1. PICK U : U = T \ S
  OBVIOUS
<1>2. IsFiniteSet(S) /\ IsFiniteSet(U) /\ S \cap U = {} /\ S \cup U = T
  BY <1>1, FS_Subset
<1>3. \A x \in S \cup U : f[x] \in Int
  BY <1>2
<1>4. SumFunctionOnSet(f, U) = 0
  BY <1>1, <1>2, SumOfZeros
<1>5. /\ SumFunctionOnSet(f, S) \in Int
      /\ SumFunctionOnSet(f, S \cup U) = SumFunctionOnSet(f, S) + SumFunctionOnSet(f, U)
  BY <1>2, <1>3, SumOfUnion
<1> QED BY <1>2, <1>4, <1>5

\* Part of a sum of naturals is no more than the whole.
LEMMA SumOfSubset ==
    ASSUME NEW f, NEW T, IsFiniteSet(T), NEW S \in SUBSET T, \A x \in T : f[x] \in Nat
    PROVE  /\ SumFunctionOnSet(f, S) \in Nat /\ SumFunctionOnSet(f, T) \in Nat
           /\ SumFunctionOnSet(f, S) <= SumFunctionOnSet(f, T)
<1>1. PICK U : U = T \ S
  OBVIOUS
<1>2. IsFiniteSet(S) /\ IsFiniteSet(U) /\ S \cap U = {} /\ S \cup U = T
  BY <1>1, FS_Subset
<1>3. (\A x \in S \cup U : f[x] \in Int) /\ (\A x \in S : f[x] \in Nat) /\ (\A x \in U : f[x] \in Nat)
  BY <1>2
<1>4. SumFunctionOnSet(f, U) \in Nat /\ SumFunctionOnSet(f, S) \in Nat /\ SumFunctionOnSet(f, T) \in Nat
  BY <1>2, <1>3, SumOfNats
<1>5. SumFunctionOnSet(f, S \cup U) = SumFunctionOnSet(f, S) + SumFunctionOnSet(f, U)
  BY <1>2, <1>3, SumOfUnion
<1> QED BY <1>2, <1>4, <1>5

\* A sum over the parts of a whole, part by part.
ArePartsFor(P, K, all, f, rows) ==
    /\ IsFiniteSet(K) /\ all = UNION {P[k] : k \in K}
    /\ \A k \in K : /\ IsFiniteSet(P[k]) /\ \A x \in P[k] : f[x] \in Int
                    /\ rows[k] = SumFunctionOnSet(f, P[k])
    /\ \A j, k \in K : j # k => P[j] \cap P[k] = {}

\* A sum is the sum of the sums over its parts.
LEMMA SumOfParts ==
    ASSUME NEW P, NEW K, NEW all, NEW f, NEW rows, ArePartsFor(P, K, all, f, rows)
    PROVE  /\ IsFiniteSet(all)
           /\ SumFunctionOnSet(rows, K) \in Int
           /\ SumFunctionOnSet(f, all) = SumFunctionOnSet(rows, K)
<1> USE DEF ArePartsFor
<1> DEFINE All(s) == UNION {P[k] : k \in s}
           G == {s \in SUBSET K : /\ IsFiniteSet(All(s))
                                  /\ SumFunctionOnSet(rows, s) \in Int
                                  /\ SumFunctionOnSet(f, All(s)) = SumFunctionOnSet(rows, s)}
<1>1. {} \in G
  <2>1. All({}) = {}
    OBVIOUS
  <2> QED BY <2>1, SumOfEmpty, FS_EmptySet
<1>2. \A k \in K : rows[k] \in Int
  BY SumStep
<1>3. ASSUME NEW s \in SUBSET K, NEW x \in K \ s, s \in G PROVE s \cup {x} \in G
  <2>1. SumFunctionOnSet(rows, s \cup {x}) = rows[x] + SumFunctionOnSet(rows, s)
    BY <1>2, SumWithOneMore
  <2>2. PICK A, B : A = All(s) /\ B = P[x]
    OBVIOUS
  <2>3. A \cap B = {}
    <3> SUFFICES ASSUME NEW e \in A, e \in B PROVE FALSE
      OBVIOUS
    <3>1. PICK k \in s : e \in P[k]
      BY <2>2
    <3>2. k \in K /\ k # x
      OBVIOUS
    <3>3. P[k] \cap P[x] = {}
      BY <3>2
    <3> QED BY <3>1, <3>3, <2>2
  <2>4. IsFiniteSet(A) /\ IsFiniteSet(B) /\ \A e \in A \cup B : f[e] \in Int
    BY <1>3, <2>2
  <2>5. /\ IsFiniteSet(A \cup B)
        /\ SumFunctionOnSet(f, A \cup B) = SumFunctionOnSet(f, A) + SumFunctionOnSet(f, B)
    <3>1. IsFiniteSet(A \cup B)
      BY <2>4, FS_Union
    <3>2. SumFunctionOnSet(f, A \cup B) = SumFunctionOnSet(f, A) + SumFunctionOnSet(f, B)
      BY <2>3, <2>4, SumOfUnion
    <3> QED BY <3>1, <3>2
  <2>6. All(s \cup {x}) = A \cup B
    BY <2>2
  <2>7. SumFunctionOnSet(f, A) = SumFunctionOnSet(rows, s) /\ SumFunctionOnSet(f, B) = rows[x]
    BY <1>3, <2>2
  <2>8. SumFunctionOnSet(rows, s) \in Int /\ rows[x] \in Int /\ s \cup {x} \in SUBSET K
    BY <1>2, <1>3
  <2>9. SumFunctionOnSet(f, A \cup B) = SumFunctionOnSet(rows, s \cup {x})
    BY <2>1, <2>5, <2>7, <2>8
  <2>10. SumFunctionOnSet(rows, s \cup {x}) \in Int
    BY <2>1, <2>8
  <2> QED BY <2>5, <2>6, <2>8, <2>9, <2>10
<1>4. K \in G
  <2> HIDE DEF G
  <2> QED BY <1>1, <1>3, FiniteSetSteps
<1> QED BY <1>4

\* A sum over the values of a function that gives each only once.
LEMMA SumOfImage ==
    ASSUME NEW S, IsFiniteSet(S), NEW h, \A x, y \in S : h[x] = h[y] => x = y,
           NEW f, NEW g, \A x \in S : g[x] = f[h[x]] /\ f[h[x]] \in Int
    PROVE  /\ SumFunctionOnSet(g, S) \in Int
           /\ SumFunctionOnSet(f, {h[x] : x \in S}) = SumFunctionOnSet(g, S)
<1> DEFINE P == [x \in S |-> {h[x]}]
<1>1. \A x \in S : /\ IsFiniteSet(P[x]) /\ \A e \in P[x] : f[e] \in Int
                   /\ g[x] = SumFunctionOnSet(f, P[x])
  <2> SUFFICES ASSUME NEW x \in S
               PROVE  /\ IsFiniteSet(P[x]) /\ \A e \in P[x] : f[e] \in Int
                      /\ g[x] = SumFunctionOnSet(f, P[x])
    OBVIOUS
  <2>1. PICK e : e = h[x]
    OBVIOUS
  <2>2. P[x] = {e} /\ f[e] \in Int /\ g[x] = f[e]
    BY <2>1
  <2>3. SumFunctionOnSet(f, {e}) = f[e]
    BY <2>2, SumOfOne
  <2>4. IsFiniteSet({e})
    BY FS_Singleton
  <2> QED BY <2>2, <2>3, <2>4
<1>2. \A x, y \in S : x # y => P[x] \cap P[y] = {}
  OBVIOUS
<1>3. UNION {P[x] : x \in S} = {h[x] : x \in S}
  OBVIOUS
<1> HIDE DEF P
<1>4. PICK Q : Q = P
  OBVIOUS
<1>5. \A x \in S : IsFiniteSet(Q[x]) /\ (\A e \in Q[x] : f[e] \in Int) /\ g[x] = SumFunctionOnSet(f, Q[x])
  BY <1>1, <1>4
<1>6. \A x, y \in S : x # y => Q[x] \cap Q[y] = {}
  BY <1>2, <1>4
<1>7. PICK all : all = {h[x] : x \in S}
  OBVIOUS
<1>8. ArePartsFor(Q, S, all, f, g)
  <2>1. all = UNION {Q[x] : x \in S}
    BY <1>3, <1>4, <1>7
  <2> QED BY <1>5, <1>6, <2>1 DEF ArePartsFor
<1>9. SumFunctionOnSet(g, S) \in Int /\ SumFunctionOnSet(f, all) = SumFunctionOnSet(g, S)
  BY <1>8, SumOfParts
<1> QED BY <1>7, <1>9

\* A table of the values v over some of A \X B, with what its rows and its columns come to.
AreMargins(A, B, R, v, rows, cols) ==
    /\ IsFiniteSet(A) /\ IsFiniteSet(B)
    /\ \A a \in A : R[a] \subseteq B /\ \A b \in R[a] : v[a][b] \in Int
    /\ \A a \in A : rows[a] = SumFunctionOnSet(v[a], R[a])
    /\ \A b \in B : cols[b] = SumFunctionOnSet([a \in A |-> v[a][b]], {a \in A : b \in R[a]})

\* A table adds up to the same by its rows and by its columns.
LEMMA SumExchange ==
    ASSUME NEW A, NEW B, NEW R, NEW v, NEW rows, NEW cols, AreMargins(A, B, R, v, rows, cols)
    PROVE  /\ SumFunctionOnSet(rows, A) \in Int
           /\ SumFunctionOnSet(cols, B) = SumFunctionOnSet(rows, A)
<1> SUFFICES ASSUME IsFiniteSet(A), IsFiniteSet(B),
                    \A a \in A : R[a] \subseteq B /\ \A b \in R[a] : v[a][b] \in Int,
                    \A a \in A : rows[a] = SumFunctionOnSet(v[a], R[a]),
                    \A b \in B : cols[b] = SumFunctionOnSet([a \in A |-> v[a][b]], {a \in A : b \in R[a]})
             PROVE  /\ SumFunctionOnSet(rows, A) \in Int
                    /\ SumFunctionOnSet(cols, B) = SumFunctionOnSet(rows, A)
  BY DEF AreMargins
<1> DEFINE W(b) == [a \in A |-> v[a][b]]
           In(s, b) == {a \in s : b \in R[a]}
           C(s) == [b \in B |-> SumFunctionOnSet(W(b), In(s, b))]
           G == {s \in SUBSET A : /\ \A b \in B : C(s)[b] \in Int
                                  /\ SumFunctionOnSet(rows, s) \in Int
                                  /\ SumFunctionOnSet(C(s), B) = SumFunctionOnSet(rows, s)}
<1>1. \A a \in A : rows[a] \in Int
  <2> SUFFICES ASSUME NEW a \in A PROVE rows[a] \in Int
    OBVIOUS
  <2>1. PICK T, f : T = R[a] /\ f = v[a]
    OBVIOUS
  <2>2. IsFiniteSet(T) /\ \A b \in T : f[b] \in Int
    BY <2>1, FS_Subset
  <2>3. SumFunctionOnSet(f, T) \in Int
    BY <2>2, SumStep
  <2> QED BY <2>1, <2>3
<1>2. {} \in G
  <2>1. \A b \in B : C({})[b] = 0
    <3> SUFFICES ASSUME NEW b \in B PROVE C({})[b] = 0
      OBVIOUS
    <3>1. In({}, b) = {}
      OBVIOUS
    <3>2. SumFunctionOnSet(W(b), {}) = 0
      <4> HIDE DEF W
      <4> QED BY SumOfEmpty
    <3> QED BY <3>1, <3>2
  <2>2. SumFunctionOnSet(C({}), B) = 0
    <3> HIDE DEF C
    <3> QED BY <2>1, SumOfZeros
  <2> QED BY <2>1, <2>2, SumOfEmpty
<1>3. ASSUME NEW s \in SUBSET A, NEW x \in A \ s, s \in G PROVE s \cup {x} \in G
  <2>1. SumFunctionOnSet(rows, s \cup {x}) = rows[x] + SumFunctionOnSet(rows, s)
    BY <1>1, SumWithOneMore
  <2> DEFINE D == [b \in B |-> IF b \in R[x] THEN v[x][b] ELSE 0]
  <2>2. \A b \in B : D[b] \in Int /\ C(s)[b] \in Int /\ C(s \cup {x})[b] = C(s)[b] + D[b]
    <3> SUFFICES ASSUME NEW b \in B
                 PROVE  D[b] \in Int /\ C(s)[b] \in Int /\ C(s \cup {x})[b] = C(s)[b] + D[b]
      OBVIOUS
    <3>1. D[b] \in Int /\ C(s)[b] \in Int
      BY <1>3
    <3>2. CASE b \notin R[x]
      <4>1. In(s \cup {x}, b) = In(s, b)
        BY <3>2
      <4>2. D[b] = 0
        BY <3>2
      <4>3. C(s \cup {x})[b] = C(s)[b]
        BY <4>1
      <4> QED BY <3>1, <4>2, <4>3
    <3>3. CASE b \in R[x]
      <4>1. PICK f, T, t : f = W(b) /\ T = In(A, b) /\ t = In(s, b)
        OBVIOUS
      <4>2. T \subseteq A /\ t \in SUBSET T /\ x \in T \ t /\ In(s \cup {x}, b) = t \cup {x}
        BY <3>3, <4>1
      <4>3. IsFiniteSet(T)
        BY <4>2, FS_Subset
      <4>4. (\A a \in T : f[a] \in Int) /\ f[x] = v[x][b]
        BY <4>1
      <4>5. SumFunctionOnSet(f, t \cup {x}) = f[x] + SumFunctionOnSet(f, t)
        BY <4>2, <4>3, <4>4, SumWithOneMore
      <4>6. C(s \cup {x})[b] = SumFunctionOnSet(f, t \cup {x}) /\ C(s)[b] = SumFunctionOnSet(f, t)
        BY <4>1, <4>2
      <4>7. D[b] = f[x]
        BY <3>3, <4>4
      <4> HIDE DEF C, D
      <4> QED BY <3>1, <4>5, <4>6, <4>7
    <3> QED BY <3>2, <3>3
  <2>3. /\ SumFunctionOnSet(C(s), B) \in Int /\ SumFunctionOnSet(D, B) \in Int
        /\ SumFunctionOnSet(C(s \cup {x}), B) = SumFunctionOnSet(C(s), B) + SumFunctionOnSet(D, B)
    <3>1. PICK c, e, d : c = C(s) /\ e = C(s \cup {x}) /\ d = D
      OBVIOUS
    <3>2. \A b \in B : c[b] \in Int /\ d[b] \in Int /\ e[b] = c[b] + d[b]
      <4> HIDE DEF C, D
      <4> QED BY <2>2, <3>1
    <3>3. /\ SumFunctionOnSet(c, B) \in Int /\ SumFunctionOnSet(d, B) \in Int
          /\ SumFunctionOnSet(e, B) = SumFunctionOnSet(c, B) + SumFunctionOnSet(d, B)
      <4>1. (\A b \in B : c[b] \in Int) /\ (\A b \in B : d[b] \in Int) /\ (\A b \in B : e[b] = c[b] + d[b])
        BY <3>2
      <4> HIDE DEF C, D, G, W, In
      <4>2. IsFiniteSet(B)
        OBVIOUS
      <4> QED BY <4>1, <4>2, SumOfSums
    <3> HIDE DEF C, D
    <3> QED BY <3>1, <3>3
  <2>4. SumFunctionOnSet(D, B) = rows[x]
    <3>1. PICK T, f : T = R[x] /\ f = v[x]
      OBVIOUS
    <3>2. T \in SUBSET B /\ (\A b \in B \ T : D[b] = 0) /\ \A b \in T : D[b] \in Int /\ D[b] = f[b]
      BY <3>1
    <3>3. SumFunctionOnSet(D, B) = SumFunctionOnSet(D, T)
      <4>1. \A b \in B : D[b] \in Int
        BY <2>2
      <4> HIDE DEF D
      <4> QED BY <4>1, <3>2, SumOfPart
    <3>4. IsFiniteSet(T)
      BY <3>2, FS_Subset
    <3>5. SumFunctionOnSet(D, T) = SumFunctionOnSet(f, T)
      <4> HIDE DEF D
      <4> QED BY <3>2, <3>4, SumAgrees
    <3> QED BY <3>1, <3>3, <3>5
  <2>5. SumFunctionOnSet(C(s), B) = SumFunctionOnSet(rows, s) /\ SumFunctionOnSet(rows, s) \in Int
    BY <1>3
  <2>6. \A b \in B : C(s \cup {x})[b] \in Int
    <3> SUFFICES ASSUME NEW b \in B PROVE C(s \cup {x})[b] \in Int
      OBVIOUS
    <3> HIDE DEF C, D
    <3>1. D[b] \in Int /\ C(s)[b] \in Int /\ C(s \cup {x})[b] = C(s)[b] + D[b]
      BY <2>2
    <3> QED BY <3>1
  <2>7. rows[x] \in Int /\ s \cup {x} \in SUBSET A
    BY <1>1
  <2> HIDE DEF C, D
  <2>8. SumFunctionOnSet(rows, s \cup {x}) \in Int
    BY <2>1, <2>5, <2>7
  <2>9. SumFunctionOnSet(C(s \cup {x}), B) = SumFunctionOnSet(rows, s \cup {x})
    BY <2>1, <2>3, <2>4, <2>5, <2>7
  <2> QED BY <2>6, <2>7, <2>8, <2>9
<1>4. A \in G
  <2> HIDE DEF G
  <2> QED BY <1>2, <1>3, FiniteSetSteps
<1>5. SumFunctionOnSet(C(A), B) = SumFunctionOnSet(rows, A) /\ SumFunctionOnSet(rows, A) \in Int
  BY <1>4
<1>6. SumFunctionOnSet(cols, B) = SumFunctionOnSet(C(A), B)
  <2>1. \A b \in B : C(A)[b] \in Int /\ C(A)[b] = cols[b]
    BY <1>4
  <2> HIDE DEF C
  <2> QED BY <2>1, SumAgrees
<1> QED BY <1>5, <1>6

\* What is divided by one divisor, value by value, comes to no more than the whole.
LEMMA SumOfShares ==
    ASSUME NEW f, NEW g, NEW T, IsFiniteSet(T), NEW k \in Int, NEW d \in Nat \ {0},
           \A x \in T : f[x] \in Int /\ g[x] = (f[x] * k) \div d
    PROVE  /\ SumFunctionOnSet(f, T) \in Int /\ SumFunctionOnSet(g, T) \in Int
           /\ SumFunctionOnSet(g, T) * d <= SumFunctionOnSet(f, T) * k
<1> DEFINE G == {s \in SUBSET T : /\ SumFunctionOnSet(f, s) \in Int /\ SumFunctionOnSet(g, s) \in Int
                                  /\ SumFunctionOnSet(g, s) * d <= SumFunctionOnSet(f, s) * k}
<1>1. {} \in G
  <2>1. 0 * d <= 0 * k
    OBVIOUS
  <2> QED BY <2>1, SumOfEmpty
<1>2. \A a \in Int : a \div d \in Int /\ (a \div d) * d <= a
  OBVIOUS
<1>3. \A x \in T : g[x] \in Int /\ g[x] * d <= f[x] * k
  <2> SUFFICES ASSUME NEW x \in T PROVE g[x] \in Int /\ g[x] * d <= f[x] * k
    OBVIOUS
  <2>1. PICK a : a = f[x] * k
    OBVIOUS
  <2>2. a \in Int /\ g[x] = a \div d
    BY <2>1
  <2> QED BY <1>2, <2>1, <2>2
<1>4. ASSUME NEW s \in SUBSET T, NEW x \in T \ s, s \in G PROVE s \cup {x} \in G
  <2>1. SumFunctionOnSet(f, s \cup {x}) = f[x] + SumFunctionOnSet(f, s)
    BY SumWithOneMore
  <2>2. SumFunctionOnSet(g, s \cup {x}) = g[x] + SumFunctionOnSet(g, s)
    BY <1>3, SumWithOneMore
  <2>3. PICK a, b, p, q : /\ a = SumFunctionOnSet(f, s) /\ b = SumFunctionOnSet(g, s)
                          /\ p = f[x] /\ q = g[x]
    OBVIOUS
  <2>4. a \in Int /\ b \in Int /\ p \in Int /\ q \in Int /\ b * d <= a * k /\ q * d <= p * k
    BY <1>3, <1>4, <2>3
  <2>5. (q + b) * d = q * d + b * d /\ (p + a) * k = p * k + a * k
    BY <2>4
  <2>6. (q + b) * d <= (p + a) * k
    <3>1. b * d \in Int /\ a * k \in Int /\ q * d \in Int /\ p * k \in Int
      BY <2>4
    <3> QED BY <2>4, <2>5, <3>1
  <2> QED BY <2>1, <2>2, <2>3, <2>4, <2>6
<1>5. T \in G
  <2> HIDE DEF G
  <2> QED BY <1>1, <1>4, FiniteSetSteps
<1> QED BY <1>5

----------------------------------------------------------------------------
(* Divisions round down.                                                    *)

\* The quotient is the last whole one that fits.
LEMMA DivRoundsDown ==
    ASSUME NEW a \in Int, NEW b \in Nat \ {0}
    PROVE  a \div b \in Int /\ (a \div b) * b <= a /\ a < ((a \div b) + 1) * b
<1>1. a = b * (a \div b) + (a % b) /\ a % b \in 0 .. b - 1 /\ a \div b \in Int
  OBVIOUS
<1>2. PICK q, r : q = a \div b /\ r = a % b
  OBVIOUS
<1>3. q \in Int /\ r \in Int /\ 0 <= r /\ r < b /\ a = b * q + r
  BY <1>1, <1>2
<1>4. q * b <= a /\ a < (q + 1) * b
  BY <1>3
<1> QED BY <1>2, <1>3, <1>4

\* What fits is no more than the quotient.
LEMMA DivIsAtLeast ==
    ASSUME NEW a \in Int, NEW b \in Nat \ {0}, NEW c \in Int, c * b <= a
    PROVE  c <= a \div b
<1>1. PICK q : q = a \div b
  OBVIOUS
<1>2. q \in Int /\ a < (q + 1) * b
  BY <1>1, DivRoundsDown
<1>3. c * b < (q + 1) * b
  BY <1>2
<1>4. c < q + 1
  <2> SUFFICES ASSUME q + 1 <= c PROVE FALSE
    BY <1>2
  <2>1. PICK d : d = c - (q + 1)
    OBVIOUS
  <2>2. d \in Nat /\ c = (q + 1) + d
    BY <1>2, <2>1
  <2>3. d * b \in Nat
    BY <2>2
  <2>4. c * b = (q + 1) * b + d * b
    BY <1>2, <2>2
  <2> QED BY <1>2, <1>3, <2>3, <2>4
<1> QED BY <1>1, <1>2, <1>4

\* What does not is no less.
LEMMA DivIsAtMost ==
    ASSUME NEW a \in Int, NEW b \in Nat \ {0}, NEW c \in Int, a <= c * b
    PROVE  a \div b <= c
<1>1. PICK q : q = a \div b
  OBVIOUS
<1>2. q \in Int /\ q * b <= a
  BY <1>1, DivRoundsDown
<1>3. q * b <= c * b
  BY <1>2
<1>4. q <= c
  <2> SUFFICES ASSUME c < q PROVE FALSE
    BY <1>2
  <2>1. PICK d : d = q - c - 1
    OBVIOUS
  <2>2. d \in Nat /\ q = c + 1 + d
    BY <1>2, <2>1
  <2>3. d * b \in Nat
    BY <2>2
  <2>4. q * b = c * b + b + d * b
    BY <1>2, <2>2
  <2> QED BY <1>2, <1>3, <2>3, <2>4
<1> QED BY <1>1, <1>2, <1>4
=============================================================================
