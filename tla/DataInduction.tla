----------------------------- MODULE DataInduction -----------------------------
(* Induction over data, for the proofs about the recursive functions and the *)
(* folds of the models.  What holds of 0 and carries over from n to n + 1 is *)
(* here a set of numbers: it has all of them because its complement has no   *)
(* smallest element.  So no lemma needs an operator for a parameter.         *)
EXTENDS Integers, SequencesExt, FiniteSetTheorems, WellFoundedInduction, TLAPS

\* A set of natural numbers has a smallest element.
LEMMA SmallestElement ==
  ASSUME NEW S \in SUBSET Nat, S # {}
  PROVE  \E m \in S : \A k \in S : m <= k
  <1> DEFINE R == OpToRel(<, Nat)
  <1>1. IsWellFoundedOn(R, Nat)
    BY NatLessThanWellFounded
  <1>2. \A x, y \in Nat : x < y => <<x, y>> \in R
    BY DEF OpToRel
  <1> HIDE DEF R
  <1>3. PICK m \in S : \A k \in S : ~ (<<k, m>> \in R)
    BY <1>1, WFMin
  <1>4. \A k \in S : ~ (k < m)
    BY <1>2, <1>3
  <1> QED BY <1>3, <1>4

\* A set with 0, and with n + 1 whenever it has n, has all natural numbers.
LEMMA Induction ==
  ASSUME NEW S, 0 \in S, \A n \in Nat : n \in S => n + 1 \in S
  PROVE  Nat \subseteq S
  <1> SUFFICES ASSUME Nat \ S # {} PROVE FALSE
    OBVIOUS
  <1>1. PICK m \in Nat \ S : \A k \in Nat \ S : m <= k
    BY SmallestElement
  <1>2. m - 1 \in Nat /\ m - 1 \in S
    BY <1>1
  <1> QED BY <1>1, <1>2

\* g starts with x and continues with F, up to n.
Continues(g, x, F, n) == g[0] = x /\ \A d \in 1 .. n : g[d] = F[<<d, g[d - 1]>>]

\* The function that starts with x and continues with F exists, on any initial
\* segment.
LEMMA RecursionOnNat ==
  ASSUME NEW T, NEW x \in T, NEW n \in Nat, NEW F \in [(1 .. n) \X T -> T]
  PROVE  \E g \in [0 .. n -> T] : Continues(g, x, F, n)
  <1> DEFINE Good(m, g) == \A d \in 0 .. m : g[d] = IF d = 0 THEN x ELSE F[<<d, g[d - 1]>>]
             S == {m \in Nat : m <= n => \E g \in [0 .. m -> T] : Good(m, g)}
  <1>1. 0 \in S
    <2>1. Good(0, [d \in 0 .. 0 |-> x]) /\ [d \in 0 .. 0 |-> x] \in [0 .. 0 -> T]
      OBVIOUS
    <2> QED BY <2>1
  <1>2. ASSUME NEW m \in Nat, m \in S PROVE m + 1 \in S
    <2> SUFFICES ASSUME m + 1 <= n PROVE \E g \in [0 .. m + 1 -> T] : Good(m + 1, g)
      OBVIOUS
    <2>1. PICK g \in [0 .. m -> T] : Good(m, g)
      BY <1>2
    <2> DEFINE v == F[<<m + 1, g[m]>>]
               h == [d \in 0 .. m + 1 |-> IF d = m + 1 THEN v ELSE g[d]]
    <2>2. g[m] \in T /\ m + 1 \in 1 .. n
      OBVIOUS
    <2>3. v \in T
      BY <2>2
    <2>4. h \in [0 .. m + 1 -> T]
      BY <2>3
    <2>5. ASSUME NEW d \in 0 .. m + 1
          PROVE  h[d] = IF d = 0 THEN x ELSE F[<<d, h[d - 1]>>]
      <3>1. CASE d = m + 1
        <4>1. h[d] = v /\ h[d - 1] = g[m] /\ d # 0
          BY <3>1
        <4> QED BY <3>1, <4>1
      <3>2. CASE d \in 0 .. m
        <4>1. h[d] = g[d] /\ (d # 0 => h[d - 1] = g[d - 1])
          BY <3>2
        <4> QED BY <2>1, <3>2, <4>1
      <3> QED BY <3>1, <3>2
    <2> QED BY <2>4, <2>5
  <1>3. n \in S
    <2> HIDE DEF S
    <2> QED BY <1>1, <1>2, Induction
  <1>4. PICK g \in [0 .. n -> T] : Good(n, g)
    BY <1>3
  <1>5. 0 \in 0 .. n /\ \A d \in 1 .. n : d \in 0 .. n /\ d # 0
    OBVIOUS
  <1> QED BY <1>4, <1>5 DEF Continues

--------------------------------------------------------------------------------
(* Sums over a finite set.  MapThenSumSet adds the numbers in the order in     *)
(* which CHOOSE gives the elements; the order does not matter.                 *)

SumOver(w, S) == MapThenSumSet(LAMBDA x : w[x], S)

Pick(s) == CHOOSE x \in s : TRUE

\* g gives the sum over each subset of A.
Sums(w, A, g) ==
  g = [s \in SUBSET A |-> IF s = {} THEN 0 ELSE w[Pick(s)] + g[s \ {Pick(s)}]]

LEMMA PickFact ==
  ASSUME NEW A, IsFiniteSet(A), NEW s \in SUBSET A
  PROVE  /\ Cardinality(s) \in Nat
         /\ s # {} => Pick(s) \in s /\ Cardinality(s) > 0
         /\ \A x \in s : Cardinality(s \ {x}) = Cardinality(s) - 1
         /\ Cardinality(s) <= Cardinality(A)
  <1>1. IsFiniteSet(s) /\ Cardinality(s) <= Cardinality(A)
    BY FS_Subset
  <1>2. Cardinality(s) \in Nat /\ (Cardinality(s) = 0 <=> s = {})
    BY <1>1, FS_CardinalityType, FS_EmptySet
  <1>3. \A x \in s : Cardinality(s \ {x}) = Cardinality(s) - 1
    BY <1>1, FS_RemoveElement
  <1>4. s # {} => Pick(s) \in s
    BY DEF Pick
  <1> QED BY <1>1, <1>2, <1>3, <1>4

\* There is such a function: by as many rounds as A has elements.
LEMMA SumsExist ==
  ASSUME NEW A, IsFiniteSet(A), NEW w \in [A -> Int]
  PROVE  \E g \in [SUBSET A -> Int] : Sums(w, A, g)
  <1> DEFINE N == Cardinality(A)
             T == [SUBSET A -> Int]
             Round(h) == [s \in SUBSET A |->
                            IF s = {} THEN 0 ELSE w[Pick(s)] + h[s \ {Pick(s)}]]
             x == [s \in SUBSET A |-> 0]
             F == [e \in (1 .. N + 1) \X T |-> Round(e[2])]
  <1>1. N \in Nat /\ N + 1 \in Nat
    BY FS_CardinalityType
  <1>2. ASSUME NEW h \in T PROVE Round(h) \in T
    <2>1. ASSUME NEW s \in SUBSET A, s # {} PROVE w[Pick(s)] + h[s \ {Pick(s)}] \in Int
      <3>1. Pick(s) \in A /\ s \ {Pick(s)} \in SUBSET A
        BY <2>1, PickFact
      <3>2. w[Pick(s)] \in Int /\ h[s \ {Pick(s)}] \in Int
        BY <3>1
      <3> QED BY <3>2
    <2> QED BY <2>1
  <1>3. x \in T
    OBVIOUS
  <1>4. F \in [(1 .. N + 1) \X T -> T]
    <2> HIDE DEF T, Round
    <2> QED BY <1>2
  <1>5. PICK G \in [0 .. N + 1 -> T] : Continues(G, x, F, N + 1)
    <2> HIDE DEF N, T, F, x
    <2> QED BY <1>1, <1>3, <1>4, RecursionOnNat
  <1>6. ASSUME NEW d \in 1 .. N + 1 PROVE G[d] = Round(G[d - 1])
    <2>1. d - 1 \in 0 .. N + 1
      BY <1>1
    <2>2. G[d - 1] \in T
      BY <2>1
    <2>3. ASSUME NEW h \in T PROVE F[<<d, h>>] = Round(h)
      <3> HIDE DEF T, Round, N
      <3> QED OBVIOUS
    <2> HIDE DEF F, T, Round
    <2> QED BY <1>5, <2>2, <2>3 DEF Continues
  <1> DEFINE M == {m \in Nat : m <= N =>
                     \A s \in SUBSET A : Cardinality(s) <= m => G[m + 1][s] = G[m][s]}
  <1>7. 0 \in M
    <2> SUFFICES ASSUME NEW s \in SUBSET A, Cardinality(s) <= 0 PROVE G[0 + 1][s] = G[0][s]
      OBVIOUS
    <2>1. s = {}
      BY PickFact
    <2>2. G[1] = Round(G[0]) /\ G[0] = x
      <3>1. 1 \in 1 .. N + 1 /\ 1 - 1 = 0
        BY <1>1
      <3> HIDE DEF Round, N, x
      <3> QED BY <1>5, <1>6, <3>1 DEF Continues
    <2>3. Round(G[0])[s] = 0 /\ x[s] = 0
      BY <2>1
    <2>4. G[1][s] = G[0][s]
      <3> HIDE DEF Round, x
      <3> QED BY <2>2, <2>3
    <2> QED BY <2>4
  <1>8. ASSUME NEW m \in Nat, m \in M PROVE m + 1 \in M
    <2> SUFFICES ASSUME m + 1 <= N, NEW s \in SUBSET A, Cardinality(s) <= m + 1
                 PROVE  G[m + 2][s] = G[m + 1][s]
      OBVIOUS
    <2>1. G[m + 2] = Round(G[m + 1]) /\ G[m + 1] = Round(G[m])
      <3>1. m + 2 \in 1 .. N + 1 /\ m + 1 \in 1 .. N + 1 /\ (m + 2) - 1 = m + 1 /\ (m + 1) - 1 = m
        BY <1>1
      <3> HIDE DEF Round, N
      <3> QED BY <1>6, <3>1
    <2>2. CASE s = {}
      BY <2>1, <2>2
    <2>3. CASE s # {}
      <3> DEFINE r == s \ {Pick(s)}
      <3>1. r \in SUBSET A /\ Cardinality(r) <= m
        BY <2>3, PickFact
      <3>2. G[m + 1][r] = G[m][r]
        BY <1>1, <1>8, <3>1
      <3>3. G[m + 2][s] = w[Pick(s)] + G[m + 1][r] /\ G[m + 1][s] = w[Pick(s)] + G[m][r]
        BY <2>1, <2>3
      <3> QED BY <3>2, <3>3
    <2> QED BY <2>2, <2>3
  <1>9. N \in M
    <2> HIDE DEF M, N
    <2> QED BY <1>1, <1>7, <1>8, Induction
  <1>10. G[N] \in T /\ G[N + 1] = Round(G[N])
    <2> HIDE DEF N, Round, T
    <2>1. N \in 0 .. N + 1 /\ N + 1 \in 1 .. N + 1 /\ (N + 1) - 1 = N
      BY <1>1
    <2> QED BY <1>6, <2>1
  <1>11. ASSUME NEW s \in SUBSET A
         PROVE  G[N][s] = IF s = {} THEN 0 ELSE w[Pick(s)] + G[N][s \ {Pick(s)}]
    <2>1. G[N + 1][s] = G[N][s]
      BY <1>1, <1>9, PickFact
    <2> QED BY <1>10, <2>1
  <1>12. Sums(w, A, G[N])
    <2> HIDE DEF N
    <2>1. G[N] = [s \in SUBSET A |-> G[N][s]]
      BY <1>10
    <2> QED BY <1>11, <2>1 DEF Sums
  <1> QED BY <1>10, <1>12

\* There is only one, so it is the one MapThenSumSet computes.
LEMMA SumIsSums ==
  ASSUME NEW A, IsFiniteSet(A), NEW w \in [A -> Int],
         NEW g \in [SUBSET A -> Int], Sums(w, A, g), NEW S \in SUBSET A
  PROVE  SumOver(w, S) = g[S]
  <1>1. SumOver(w, S) = (CHOOSE h : Sums(w, S, h))[S]
    BY DEF SumOver, MapThenSumSet, MapThenFoldSet, Sums, Pick
  <1>2. \A s \in SUBSET A : g[s] = IF s = {} THEN 0 ELSE w[Pick(s)] + g[s \ {Pick(s)}]
    BY DEF Sums
  <1>3. Sums(w, S, [s \in SUBSET S |-> g[s]])
    <2> DEFINE h == [s \in SUBSET S |-> g[s]]
    <2>1. ASSUME NEW s \in SUBSET S
          PROVE  h[s] = IF s = {} THEN 0 ELSE w[Pick(s)] + h[s \ {Pick(s)}]
      <3>1. s \in SUBSET A /\ s \ {Pick(s)} \in SUBSET S
        OBVIOUS
      <3>2. h[s] = g[s] /\ h[s \ {Pick(s)}] = g[s \ {Pick(s)}]
        BY <3>1
      <3> HIDE DEF h
      <3> QED BY <1>2, <3>1, <3>2
    <2>2. h = [s \in SUBSET S |-> h[s]]
      OBVIOUS
    <2> HIDE DEF h
    <2>3. Sums(w, S, h)
      BY <2>1, <2>2 DEF Sums
    <2> QED BY <2>3 DEF h
  <1>4. PICK h : Sums(w, S, h) /\ SumOver(w, S) = h[S]
    BY <1>1, <1>3
  <1>5. \A s \in SUBSET S : h[s] = IF s = {} THEN 0 ELSE w[Pick(s)] + h[s \ {Pick(s)}]
    BY <1>4 DEF Sums
  <1> DEFINE M == {m \in Nat : \A s \in SUBSET S : Cardinality(s) <= m => h[s] = g[s]}
  <1>6. {} \in SUBSET S /\ {} \in SUBSET A
    OBVIOUS
  <1>7. h[{}] = 0 /\ g[{}] = 0
    BY <1>2, <1>5, <1>6
  <1>8. \A s \in SUBSET S : s \in SUBSET A
    OBVIOUS
  <1>9. 0 \in M
    <2> SUFFICES ASSUME NEW s \in SUBSET S, Cardinality(s) <= 0 PROVE h[s] = g[s]
      OBVIOUS
    <2>1. s = {}
      BY <1>8, PickFact
    <2> QED BY <1>7, <2>1
  <1>10. ASSUME NEW m \in Nat, m \in M PROVE m + 1 \in M
    <2> SUFFICES ASSUME NEW s \in SUBSET S, Cardinality(s) <= m + 1 PROVE h[s] = g[s]
      OBVIOUS
    <2> SUFFICES ASSUME s # {} PROVE h[s] = g[s]
      BY <1>7
    <2> DEFINE r == s \ {Pick(s)}
    <2>1. r \in SUBSET S /\ s \in SUBSET A /\ Cardinality(r) <= m
      BY PickFact
    <2>2. h[r] = g[r]
      BY <1>10, <2>1
    <2>3. h[s] = w[Pick(s)] + h[r] /\ g[s] = w[Pick(s)] + g[r]
      BY <1>2, <1>5, <2>1
    <2> QED BY <2>2, <2>3
  <1>11. Cardinality(S) \in M
    <2>1. Cardinality(S) \in Nat
      BY PickFact
    <2> HIDE DEF M
    <2> QED BY <1>9, <1>10, <2>1, Induction
  <1>12. h[S] = g[S]
    BY <1>11, PickFact
  <1> QED BY <1>4, <1>12

\* The sum over a set is that of any of its elements and the rest.
LEMMA SumFacts ==
  ASSUME NEW A, IsFiniteSet(A), NEW w \in [A -> Int]
  PROVE  /\ SumOver(w, {}) = 0
         /\ \A s \in SUBSET A :
              /\ SumOver(w, s) \in Int
              /\ \A x \in s : SumOver(w, s) = w[x] + SumOver(w, s \ {x})
  <1>1. PICK g \in [SUBSET A -> Int] : Sums(w, A, g)
    BY SumsExist
  <1>2. \A s \in SUBSET A : SumOver(w, s) = g[s] /\ g[s] \in Int
    BY <1>1, SumIsSums
  <1>3. \A s \in SUBSET A : g[s] = IF s = {} THEN 0 ELSE w[Pick(s)] + g[s \ {Pick(s)}]
    BY <1>1 DEF Sums
  <1> DEFINE M == {m \in Nat : \A s \in SUBSET A : Cardinality(s) <= m =>
                                 \A x \in s : g[s] = w[x] + g[s \ {x}]}
  <1>4. 0 \in M
    BY PickFact
  <1>5. ASSUME NEW m \in Nat, m \in M PROVE m + 1 \in M
    <2> SUFFICES ASSUME NEW s \in SUBSET A, Cardinality(s) <= m + 1, NEW x \in s
                 PROVE  g[s] = w[x] + g[s \ {x}]
      OBVIOUS
    <2> DEFINE y == Pick(s)
    <2>1. y \in s
      BY PickFact
    <2>2. g[s] = w[y] + g[s \ {y}]
      BY <1>3
    <2> HIDE DEF y
    <2>3. CASE x # y
      <3>1. /\ s \ {y} \in SUBSET A /\ Cardinality(s \ {y}) <= m /\ x \in s \ {y}
            /\ s \ {x} \in SUBSET A /\ Cardinality(s \ {x}) <= m /\ y \in s \ {x}
        BY <2>1, <2>3, PickFact
      <3>2. /\ g[s \ {y}] = w[x] + g[(s \ {y}) \ {x}]
            /\ g[s \ {x}] = w[y] + g[(s \ {x}) \ {y}]
        BY <1>5, <3>1
      <3> DEFINE r == (s \ {x}) \ {y}
      <3>3. (s \ {y}) \ {x} = r /\ r \in SUBSET A
        OBVIOUS
      <3>4. w[x] \in Int /\ w[y] \in Int /\ g[r] \in Int
        BY <2>1, <3>3
      <3>5. g[s \ {y}] = w[x] + g[r] /\ g[s \ {x}] = w[y] + g[r]
        BY <3>2, <3>3
      <3> HIDE DEF r
      <3> QED BY <2>2, <3>4, <3>5
    <2> QED BY <2>2, <2>3
  <1>6. ASSUME NEW s \in SUBSET A, NEW x \in s PROVE g[s] = w[x] + g[s \ {x}]
    <2>1. Cardinality(s) \in Nat
      BY PickFact
    <2>2. Cardinality(s) \in M
      <3> HIDE DEF M
      <3> QED BY <1>4, <1>5, <2>1, Induction
    <2> QED BY <2>1, <2>2
  <1>7. \A s \in SUBSET A : \A x \in s : s \ {x} \in SUBSET A
    OBVIOUS
  <1> QED BY <1>2, <1>3, <1>6, <1>7

\* A sum of natural numbers is one.
LEMMA SumNat ==
  ASSUME NEW A, IsFiniteSet(A), NEW w \in [A -> Nat], NEW S \in SUBSET A
  PROVE  SumOver(w, S) \in Nat
  <1>1. w \in [A -> Int]
    OBVIOUS
  <1>2. /\ SumOver(w, {}) = 0
        /\ \A s \in SUBSET A : \A x \in s : SumOver(w, s) = w[x] + SumOver(w, s \ {x})
    BY <1>1, SumFacts
  <1> DEFINE M == {m \in Nat : \A s \in SUBSET A : Cardinality(s) <= m => SumOver(w, s) \in Nat}
  <1>3. 0 \in M
    BY <1>2, PickFact
  <1>4. ASSUME NEW m \in Nat, m \in M PROVE m + 1 \in M
    <2> SUFFICES ASSUME NEW s \in SUBSET A, Cardinality(s) <= m + 1 PROVE SumOver(w, s) \in Nat
      OBVIOUS
    <2>1. ASSUME NEW x \in s PROVE SumOver(w, s) \in Nat
      <3>1. s \ {x} \in SUBSET A /\ Cardinality(s \ {x}) <= m
        BY PickFact
      <3>2. SumOver(w, s \ {x}) \in Nat
        BY <1>4, <3>1
      <3>3. SumOver(w, s) = w[x] + SumOver(w, s \ {x}) /\ w[x] \in Nat
        BY <1>2
      <3> QED BY <3>2, <3>3
    <2> QED BY <1>2, <2>1
  <1>5. Cardinality(S) \in Nat
    BY PickFact
  <1>6. Cardinality(S) \in M
    <2> HIDE DEF M
    <2> QED BY <1>3, <1>4, <1>5, Induction
  <1> QED BY <1>5, <1>6

--------------------------------------------------------------------------------
(* Sequences *)

LEMMA ConcatPlaces ==
  ASSUME NEW T, NEW a \in Seq(T), NEW b \in Seq(T)
  PROVE  /\ a \o b \in Seq(T) /\ Len(a \o b) = Len(a) + Len(b)
         /\ \A j \in 1 .. Len(a) : (a \o b)[j] = a[j]
         /\ \A j \in 1 .. Len(b) : (a \o b)[j + Len(a)] = b[j]
  OBVIOUS

--------------------------------------------------------------------------------
(* FlattenSeq: one sequence after the other. *)

\* g[i] is what the first i of the sequences s give together.
Flattens(T, g, s) ==
  /\ s \in Seq(Seq(T)) /\ g \in [0 .. Len(s) -> Seq(T)]
  /\ g[0] = <<>> /\ \A i \in 1 .. Len(s) : g[i] = g[i - 1] \o s[i]

LEMMA FlattensExist ==
  ASSUME NEW T, NEW s \in Seq(Seq(T))
  PROVE  \E g : Flattens(T, g, s)
  <1> DEFINE n == Len(s)
             F == [e \in (1 .. n) \X Seq(T) |-> e[2] \o s[e[1]]]
  <1>1. n \in Nat /\ <<>> \in Seq(T) /\ \A i \in 1 .. n : s[i] \in Seq(T)
    OBVIOUS
  <1>2. F \in [(1 .. n) \X Seq(T) -> Seq(T)]
    OBVIOUS
  <1>3. \A i \in 1 .. n : \A h \in Seq(T) : F[<<i, h>>] = h \o s[i]
    OBVIOUS
  <1> HIDE DEF n, F
  <1>4. PICK g \in [0 .. n -> Seq(T)] : Continues(g, <<>>, F, n)
    BY <1>1, <1>2, RecursionOnNat
  <1>5. \A i \in 1 .. n : g[i - 1] \in Seq(T)
    BY <1>1, <1>4
  <1>6. g[0] = <<>> /\ \A i \in 1 .. n : g[i] = g[i - 1] \o s[i]
    BY <1>3, <1>4, <1>5 DEF Continues
  <1> QED BY <1>4, <1>6 DEF n, Flattens

\* Flattening a beginning of s takes no more than g.
LEMMA FlattenIs ==
  ASSUME NEW T, NEW g, NEW s, Flattens(T, g, s)
  PROVE  FlattenSeq(s) = g[Len(s)]
  <1> DEFINE n == Len(s)
             Is(f) == f = [i \in 1 .. n |-> IF i = 1 THEN s[i] ELSE f[i - 1] \o s[i]]
  <1>1. n \in Nat /\ \A i \in 1 .. n : s[i] \in Seq(T) /\ g[i - 1] \in Seq(T)
    <2>1. n \in Nat /\ \A i \in 1 .. n : s[i] \in Seq(T)
      BY DEF Flattens
    <2>2. \A i \in 1 .. n : i - 1 \in 0 .. n
      BY <2>1
    <2>3. g \in [0 .. n -> Seq(T)]
      BY DEF Flattens
    <2> HIDE DEF n
    <2> QED BY <2>1, <2>2, <2>3
  <1>2. CASE n = 0
    <2>1. s = <<>>
      BY <1>2
    <2> QED BY <1>2, <2>1 DEF FlattenSeq, Flattens
  <1>3. CASE n # 0
    <2>1. FlattenSeq(s) = (CHOOSE f : Is(f))[n]
      BY <1>3 DEF FlattenSeq
    <2> DEFINE h == [i \in 1 .. n |-> g[i]]
    <2>2. ASSUME NEW i \in 1 .. n PROVE h[i] = IF i = 1 THEN s[i] ELSE h[i - 1] \o s[i]
      <3>1. g[i] = g[i - 1] \o s[i]
        BY DEF Flattens
      <3>2. CASE i = 1
        <4>1. g[i - 1] = <<>>
          BY <3>2 DEF Flattens
        <4> QED BY <3>1, <3>2, <4>1, <1>1
      <3>3. CASE i # 1
        <4>1. i - 1 \in 1 .. n
          BY <1>1, <3>3
        <4>2. h[i] = g[i] /\ h[i - 1] = g[i - 1]
          BY <4>1
        <4> HIDE DEF h
        <4> QED BY <3>1, <3>3, <4>2
      <3> QED BY <3>2, <3>3
    <2>3. Is(h)
      <3>1. h = [i \in 1 .. n |-> h[i]]
        OBVIOUS
      <3> HIDE DEF h, n
      <3> QED BY <2>2, <3>1
    <2>4. PICK f : Is(f) /\ FlattenSeq(s) = f[n]
      <3> HIDE DEF Is, h
      <3> QED BY <2>1, <2>3
    <2>5. \A i \in 1 .. n : f[i] = IF i = 1 THEN s[i] ELSE f[i - 1] \o s[i]
      BY <2>4
    <2> DEFINE M == {m \in Nat : m + 1 <= n => f[m + 1] = g[m + 1]}
    <2>6. 0 \in M
      <3>1. 1 \in 1 .. n
        BY <1>1, <1>3
      <3>2. h[1] = g[1]
        BY <3>1
      <3>3. h[1] = s[1] /\ f[1] = s[1]
        <4> HIDE DEF h, n
        <4> QED BY <2>2, <2>5, <3>1
      <3>4. f[1] = g[1]
        <4> HIDE DEF h, n
        <4> QED BY <3>2, <3>3
      <3> QED BY <3>4
    <2>7. ASSUME NEW m \in Nat, m \in M PROVE m + 1 \in M
      <3> SUFFICES ASSUME m + 2 <= n PROVE f[m + 2] = g[m + 2]
        OBVIOUS
      <3>1. m + 2 \in 1 .. n /\ m + 2 # 1 /\ (m + 2) - 1 = m + 1 /\ f[m + 1] = g[m + 1]
        BY <1>1, <2>7
      <3>2. f[m + 2] = f[m + 1] \o s[m + 2] /\ g[m + 2] = g[m + 1] \o s[m + 2]
        BY <2>5, <3>1 DEF Flattens
      <3> QED BY <3>1, <3>2
    <2>8. n - 1 \in Nat /\ n - 1 \in M
      <3>1. n - 1 \in Nat
        BY <1>1, <1>3
      <3> HIDE DEF M
      <3> QED BY <2>6, <2>7, <3>1, Induction
    <2>9. f[n] = g[n]
      BY <2>8
    <2> QED BY <2>4, <2>9
  <1> QED BY <1>2, <1>3

\* So a beginning of s gives a beginning of what s gives.
LEMMA FlattenPrefix ==
  ASSUME NEW T, NEW g, NEW s, Flattens(T, g, s),
         NEW k \in 0 .. Len(s)
  PROVE  FlattenSeq(SubSeq(s, 1, k)) = g[k]
  <1> DEFINE r == SubSeq(s, 1, k)
             h == [i \in 0 .. k |-> g[i]]
  <1>1. r \in Seq(Seq(T)) /\ Len(r) = k /\ \A i \in 1 .. k : r[i] = s[i]
    BY DEF Flattens
  <1>2. h \in [0 .. Len(r) -> Seq(T)]
    <2>1. \A i \in 0 .. k : i \in 0 .. Len(s)
      BY <1>1
    <2>2. \A i \in 0 .. k : g[i] \in Seq(T)
      BY <2>1 DEF Flattens
    <2> HIDE DEF r
    <2> QED BY <1>1, <2>2
  <1>3. Flattens(T, h, r)
    <2>1. h[0] = <<>>
      BY DEF Flattens
    <2>2. ASSUME NEW i \in 1 .. Len(r) PROVE h[i] = h[i - 1] \o r[i]
      <3>1. i \in 1 .. k /\ i \in 1 .. Len(s) /\ i \in 0 .. k /\ i - 1 \in 0 .. k
        BY <1>1
      <3>2. h[i] = g[i] /\ h[i - 1] = g[i - 1] /\ r[i] = s[i]
        BY <1>1, <3>1
      <3>3. g[i] = g[i - 1] \o s[i]
        BY <3>1 DEF Flattens
      <3> HIDE DEF h, r
      <3> QED BY <3>2, <3>3
    <2> HIDE DEF h, r
    <2> QED BY <2>1, <2>2 DEF Flattens
  <1>4. h[k] = g[k]
    OBVIOUS
  <1> HIDE DEF h, r
  <1>5. FlattenSeq(r) = h[Len(r)]
    BY <1>1, <1>2, <1>3, FlattenIs
  <1> QED BY <1>1, <1>4, <1>5 DEF r

\* piece is a part of whole, behind the first n elements.
PartAt(whole, n, piece) ==
  n + Len(piece) <= Len(whole) /\ \A j \in 1 .. Len(piece) : whole[n + j] = piece[j]

LEMMA AtEnd ==
  ASSUME NEW T, NEW a \in Seq(T), NEW b \in Seq(T)
  PROVE  PartAt(a \o b, Len(a), b) /\ PartAt(a \o b, 0, a) /\ Len(a \o b) = Len(a) + Len(b)
  BY DEF PartAt

LEMMA AtLonger ==
  ASSUME NEW T, NEW a \in Seq(T), NEW b \in Seq(T), NEW p \in Seq(T), NEW n \in Nat,
         PartAt(a, n, p)
  PROVE  PartAt(a \o b, n, p)
  <1>1. n + Len(p) <= Len(a) /\ Len(a) \in Nat /\ Len(b) \in Nat /\ Len(p) \in Nat
    BY DEF PartAt
  <1>2. Len(a \o b) = Len(a) + Len(b) /\ \A i \in 1 .. Len(a) : (a \o b)[i] = a[i]
    OBVIOUS
  <1>3. ASSUME NEW j \in 1 .. Len(p) PROVE (a \o b)[n + j] = p[j]
    <2>1. n + j \in 1 .. Len(a)
      BY <1>1
    <2>2. a[n + j] = p[j]
      BY DEF PartAt
    <2> QED BY <1>2, <2>1, <2>2
  <1>4. n + Len(p) <= Len(a \o b)
    BY <1>1, <1>2
  <1> QED BY <1>3, <1>4 DEF PartAt

LEMMA AtPart ==
  ASSUME NEW T, NEW a \in Seq(T), NEW b \in Seq(T), NEW p \in Seq(T), NEW n \in Nat,
         NEW k \in Nat, PartAt(a, n, b), PartAt(b, k, p)
  PROVE  PartAt(a, n + k, p)
  <1>1. Len(a) \in Nat /\ Len(b) \in Nat /\ Len(p) \in Nat
    OBVIOUS
  <1>2. n + Len(b) <= Len(a) /\ k + Len(p) <= Len(b)
    BY DEF PartAt
  <1>3. ASSUME NEW j \in 1 .. Len(p) PROVE a[(n + k) + j] = p[j]
    <2>1. j \in Nat /\ k + j \in 1 .. Len(b) /\ (n + k) + j = n + (k + j)
      BY <1>1, <1>2
    <2>2. a[n + (k + j)] = b[k + j]
      BY <2>1 DEF PartAt
    <2>3. b[k + j] = p[j]
      BY DEF PartAt
    <2> QED BY <2>1, <2>2, <2>3
  <1>4. (n + k) + Len(p) <= Len(a)
    BY <1>1, <1>2
  <1> QED BY <1>3, <1>4 DEF PartAt

LEMMA AtSubSeq ==
  ASSUME NEW T, NEW a \in Seq(T), NEW p \in Seq(T), NEW n \in Nat, PartAt(a, n, p)
  PROVE  SubSeq(a, n + 1, n + Len(p)) = p
  <1>1. n + Len(p) <= Len(a) /\ Len(a) \in Nat /\ Len(p) \in Nat
    BY DEF PartAt
  <1>2. PICK s : s = SubSeq(a, n + 1, n + Len(p))
    OBVIOUS
  <1>3. /\ s \in Seq(T) /\ Len(s) = Len(p)
        /\ \A j \in 1 .. Len(p) : s[j] = a[n + j]
    BY <1>1, <1>2
  <1>4. \A j \in 1 .. Len(p) : a[n + j] = p[j]
    BY DEF PartAt
  <1>5. s = p
    BY <1>3, <1>4
  <1> QED BY <1>2, <1>5

\* c is as long as a and b together.
Longer(c, a, b) == Len(c) = Len(a) + Len(b)

\* The i-th sequence is in the first n of them, after those before it.
LEMMA FlattenPlaces ==
  ASSUME NEW T, NEW g, NEW s, Flattens(T, g, s), NEW n \in 0 .. Len(s), NEW i \in 1 .. n
  PROVE  PartAt(g[n], Len(g[i - 1]), s[i]) /\ Longer(g[i], g[i - 1], s[i])
  <1>1. /\ Len(s) \in Nat
        /\ \A k \in 1 .. Len(s) : /\ s[k] \in Seq(T) /\ g[k] \in Seq(T) /\ g[k - 1] \in Seq(T)
                                  /\ g[k] = g[k - 1] \o s[k]
    <2>1. Len(s) \in Nat /\ \A k \in 1 .. Len(s) : s[k] \in Seq(T)
      BY DEF Flattens
    <2>2. \A k \in 1 .. Len(s) : k \in 0 .. Len(s) /\ k - 1 \in 0 .. Len(s)
      BY <2>1
    <2>3. \A k \in 0 .. Len(s) : g[k] \in Seq(T)
      BY DEF Flattens
    <2>4. \A k \in 1 .. Len(s) : g[k] = g[k - 1] \o s[k]
      BY DEF Flattens
    <2> QED BY <2>1, <2>2, <2>3, <2>4
  <1> DEFINE M == {m \in Nat : m <= Len(s) => \A k \in 1 .. m : PartAt(g[m], Len(g[k - 1]), s[k])}
  <1>2. 0 \in M
    OBVIOUS
  <1>3. ASSUME NEW m \in Nat, m \in M PROVE m + 1 \in M
    <2> SUFFICES ASSUME m + 1 <= Len(s), NEW k \in 1 .. m + 1 PROVE PartAt(g[m + 1], Len(g[k - 1]), s[k])
      OBVIOUS
    <2>1. m + 1 \in 1 .. Len(s) /\ (m + 1) - 1 = m
      BY <1>1
    <2>2. /\ s[m + 1] \in Seq(T) /\ g[m + 1] \in Seq(T) /\ g[m] \in Seq(T)
          /\ g[m + 1] = g[m] \o s[m + 1]
      BY <1>1, <2>1
    <2>4. CASE k = m + 1
      BY <2>1, <2>2, <2>4, AtEnd
    <2>5. CASE k # m + 1
      <3>1. k \in 1 .. m /\ k \in 1 .. Len(s)
        BY <2>1, <2>5
      <3>2. PartAt(g[m], Len(g[k - 1]), s[k])
        BY <1>3, <2>1, <3>1
      <3>3. s[k] \in Seq(T) /\ g[k - 1] \in Seq(T)
        BY <1>1, <3>1
      <3>4. Len(g[k - 1]) \in Nat
        BY <3>3
      <3> QED BY <2>2, <3>2, <3>3, <3>4, AtLonger
    <2> QED BY <2>4, <2>5
  <1>4. n \in M
    <2>1. n \in Nat
      BY <1>1
    <2> HIDE DEF M
    <2> QED BY <1>2, <1>3, <2>1, Induction
  <1>5. Longer(g[i], g[i - 1], s[i])
    <2>1. i \in 1 .. Len(s)
      BY <1>1
    <2>2. PICK a, b, c : a = g[i - 1] /\ b = s[i] /\ c = g[i]
      OBVIOUS
    <2>3. a \in Seq(T) /\ b \in Seq(T) /\ c = a \o b
      BY <1>1, <2>1, <2>2
    <2>4. Len(c) = Len(a) + Len(b)
      BY <2>3, AtEnd
    <2> QED BY <2>2, <2>4, Zenon DEF Longer
  <1> QED BY <1>1, <1>4, <1>5

LEMMA FlattenFacts ==
  ASSUME NEW T, NEW s \in Seq(Seq(T))
  PROVE  /\ FlattenSeq(s) \in Seq(T)
         /\ \A i \in 1 .. Len(s) : ToSet(s[i]) \subseteq ToSet(FlattenSeq(s))
  <1>1. PICK g : Flattens(T, g, s)
    BY FlattensExist
  <1>2. PICK w : w = FlattenSeq(s)
    OBVIOUS
  <1>3. w = g[Len(s)] /\ w \in Seq(T)
    <2>1. Len(s) \in 0 .. Len(s)
      OBVIOUS
    <2> QED BY <1>1, <1>2, <2>1, FlattenIs DEF Flattens
  <1>4. ASSUME NEW i \in 1 .. Len(s), NEW x \in ToSet(s[i])
        PROVE  x \in ToSet(w)
    <2>1. PICK a, b : a = g[i - 1] /\ b = s[i]
      OBVIOUS
    <2>2. a \in Seq(T) /\ b \in Seq(T)
      <3>1. i - 1 \in 0 .. Len(s)
        OBVIOUS
      <3>2. s[i] \in Seq(T)
        OBVIOUS
      <3>3. g[i - 1] \in Seq(T)
        BY <1>1, <3>1 DEF Flattens
      <3> QED BY <2>1, <3>2, <3>3
    <2>3. PartAt(w, Len(a), b)
      <3>1. Len(s) \in 0 .. Len(s) /\ i \in 1 .. Len(s)
        OBVIOUS
      <3> QED BY <1>1, <1>3, <2>1, <3>1, FlattenPlaces
    <2>4. PICK j \in 1 .. Len(b) : x = b[j]
      BY <2>1, <2>2 DEF ToSet
    <2>5. Len(a) + j \in 1 .. Len(w) /\ w[Len(a) + j] = b[j]
      BY <1>3, <2>2, <2>3, <2>4 DEF PartAt
    <2> QED BY <1>3, <2>4, <2>5 DEF ToSet
  <1> QED BY <1>2, <1>3, <1>4

\* And every element is from some of the sequences.
LEMMA FlattenElements ==
  ASSUME NEW T, NEW s \in Seq(Seq(T)), NEW x \in ToSet(FlattenSeq(s))
  PROVE  \E i \in 1 .. Len(s) : x \in ToSet(s[i])
  <1>1. PICK g : Flattens(T, g, s)
    BY FlattensExist
  <1>2. PICK n \in Nat : n = Len(s)
    OBVIOUS
  <1>3. FlattenSeq(s) = g[n]
    BY <1>1, <1>2, FlattenIs
  <1>4. /\ g[0] = <<>> /\ \A i \in 1 .. n : g[i] = g[i - 1] \o s[i]
        /\ \A i \in 1 .. n : s[i] \in Seq(T)
    <2>1. g[0] = <<>> /\ \A i \in 1 .. n : g[i] = g[i - 1] \o s[i]
      BY <1>1, <1>2, Zenon DEF Flattens
    <2>2. \A i \in 1 .. n : s[i] \in Seq(T)
      BY <1>2
    <2> QED BY <2>1, <2>2
  <1>5. \A i \in 0 .. n : g[i] \in Seq(T)
    BY <1>1, <1>2 DEF Flattens
  <1> DEFINE M == {m \in Nat : m <= n => \A y \in ToSet(g[m]) : \E i \in 1 .. m : y \in ToSet(s[i])}
  <1>6. 0 \in M
    BY <1>4 DEF ToSet
  <1>7. ASSUME NEW m \in Nat, m \in M PROVE m + 1 \in M
    <2> SUFFICES ASSUME m + 1 <= n, NEW y \in ToSet(g[m + 1])
                 PROVE  \E i \in 1 .. m + 1 : y \in ToSet(s[i])
      OBVIOUS
    <2>1. m + 1 \in 1 .. n /\ (m + 1) - 1 = m /\ m \in 0 .. n
      BY <1>2
    <2>2. PICK a, b : a = g[m] /\ b = s[m + 1]
      OBVIOUS
    <2>3. a \in Seq(T) /\ b \in Seq(T) /\ g[m + 1] = a \o b
      BY <1>4, <1>5, <2>1, <2>2
    <2>4. y \in ToSet(a) \/ y \in ToSet(b)
      <3>1. PICK w : w = a \o b /\ y \in ToSet(w)
        BY <2>3
      <3>2. /\ w \in Seq(T) /\ Len(w) = Len(a) + Len(b)
            /\ \A j \in 1 .. Len(a) : w[j] = a[j]
            /\ \A j \in 1 .. Len(b) : w[j + Len(a)] = b[j]
        BY <2>3, <3>1
      <3>3. PICK k \in 1 .. Len(w) : y = w[k]
        BY <3>1, <3>2 DEF ToSet
      <3>4. CASE k <= Len(a)
        BY <2>3, <3>2, <3>3, <3>4 DEF ToSet
      <3>5. CASE ~(k <= Len(a))
        <4>1. k - Len(a) \in 1 .. Len(b) /\ (k - Len(a)) + Len(a) = k
          BY <2>3, <3>2, <3>5
        <4>2. y = b[k - Len(a)]
          BY <3>2, <3>3, <4>1
        <4> QED BY <2>3, <4>1, <4>2 DEF ToSet
      <3> QED BY <3>4, <3>5
    <2>5. CASE y \in ToSet(a)
      <3>1. m <= n
        BY <1>2
      <3>2. PICK i \in 1 .. m : y \in ToSet(s[i])
        BY <1>7, <2>2, <2>5, <3>1
      <3>3. i \in 1 .. m + 1
        OBVIOUS
      <3> QED BY <3>2, <3>3
    <2>6. CASE y \in ToSet(b)
      <3>1. m + 1 \in 1 .. m + 1
        OBVIOUS
      <3> QED BY <2>2, <2>6, <3>1
    <2> QED BY <2>4, <2>5, <2>6
  <1>8. n \in M
    <2> HIDE DEF M
    <2> QED BY <1>6, <1>7, Induction
  <1> QED BY <1>2, <1>3, <1>8

\* Flattening sequences without repetitions that have no element in common
\* gives one without repetitions.
LEMMA FlattenDistinct ==
  ASSUME NEW T, NEW s, s \in Seq(Seq(T)),
         \A i \in 1 .. Len(s) : \A j, k \in 1 .. Len(s[i]) : s[i][j] = s[i][k] => j = k,
         \A i, j \in 1 .. Len(s) : i # j => ToSet(s[i]) \cap ToSet(s[j]) = {}
  PROVE  \A j, k \in 1 .. Len(FlattenSeq(s)) : FlattenSeq(s)[j] = FlattenSeq(s)[k] => j = k
  <1>1. PICK g : Flattens(T, g, s)
    BY FlattensExist
  <1>2. PICK n \in Nat : n = Len(s)
    <2>1. Len(s) \in Nat
      OBVIOUS
    <2> QED BY <2>1
  <1>3. FlattenSeq(s) = g[n]
    BY <1>1, <1>2, FlattenIs
  <1>4. /\ g[0] = <<>> /\ \A i \in 1 .. n : g[i] = g[i - 1] \o s[i]
        /\ \A i \in 1 .. n : s[i] \in Seq(T)
    <2>1. g[0] = <<>> /\ \A i \in 1 .. n : g[i] = g[i - 1] \o s[i]
      BY <1>1, <1>2, Zenon DEF Flattens
    <2>2. \A i \in 1 .. n : s[i] \in Seq(T)
      BY <1>2
    <2> QED BY <2>1, <2>2
  <1>5. \A i \in 0 .. n : g[i] \in Seq(T)
    BY <1>1, <1>2 DEF Flattens
  <1> DEFINE From(m) == \A j \in 1 .. Len(g[m]) : \E i \in 1 .. m : g[m][j] \in ToSet(s[i])
             Once(m) == \A j, k \in 1 .. Len(g[m]) : g[m][j] = g[m][k] => j = k
             M == {m \in Nat : m <= n => From(m) /\ Once(m)}
  <1>6. 0 \in M
    BY <1>4
  <1>7. ASSUME NEW m \in Nat, m \in M PROVE m + 1 \in M
    <2> SUFFICES ASSUME m + 1 <= n PROVE From(m + 1) /\ Once(m + 1)
      OBVIOUS
    <2>1. m + 1 \in 1 .. n /\ (m + 1) - 1 = m /\ m \in 0 .. n /\ m <= n /\ n = Len(s)
      BY <1>2
    <2>2. PICK a, b, w : a = g[m] /\ b = s[m + 1] /\ w = g[m + 1]
      OBVIOUS
    <2>3. a \in Seq(T) /\ b \in Seq(T) /\ w = a \o b
      BY <1>4, <1>5, <2>1, <2>2
    <2>4. /\ w \in Seq(T) /\ Len(w) = Len(a) + Len(b) /\ Len(a) \in Nat /\ Len(b) \in Nat
          /\ \A j \in 1 .. Len(a) : w[j] = a[j]
          /\ \A j \in 1 .. Len(b) : w[j + Len(a)] = b[j]
      BY <2>3
    <2>5. /\ \A j \in 1 .. Len(a) : \E i \in 1 .. m : a[j] \in ToSet(s[i])
          /\ \A j, k \in 1 .. Len(a) : a[j] = a[k] => j = k
      BY <1>7, <2>1, <2>2
    <2>6. \A j, k \in 1 .. Len(b) : b[j] = b[k] => j = k
      BY <2>1, <2>2
    <2>7. \A j \in 1 .. Len(b) : b[j] \in ToSet(b)
      BY <2>3 DEF ToSet
    <2>8. ASSUME NEW j \in 1 .. Len(w)
          PROVE  \/ j \in 1 .. Len(a) /\ w[j] = a[j]
                 \/ j - Len(a) \in 1 .. Len(b) /\ w[j] = b[j - Len(a)] /\ w[j] \in ToSet(b)
      <3>1. CASE j <= Len(a)
        <4>1. j \in 1 .. Len(a)
          BY <2>4, <3>1
        <4> QED BY <2>4, <4>1
      <3>2. CASE ~(j <= Len(a))
        <4>1. j - Len(a) \in 1 .. Len(b) /\ (j - Len(a)) + Len(a) = j
          BY <2>4, <3>2
        <4>2. w[j] = b[j - Len(a)]
          BY <2>4, <4>1
        <4> QED BY <2>7, <4>1, <4>2
      <3> QED BY <3>1, <3>2
    <2>9. \A j \in 1 .. Len(a) : a[j] \notin ToSet(b)
      <3> SUFFICES ASSUME NEW j \in 1 .. Len(a) PROVE a[j] \notin ToSet(b)
        OBVIOUS
      <3>1. PICK i \in 1 .. m : a[j] \in ToSet(s[i])
        BY <2>5
      <3>2. i # m + 1 /\ i \in 1 .. Len(s) /\ m + 1 \in 1 .. Len(s)
        BY <2>1
      <3>3. ToSet(s[i]) \cap ToSet(s[m + 1]) = {}
        BY <3>2
      <3> QED BY <2>2, <3>1, <3>3
    <2>10. \A j \in 1 .. Len(w) : \E i \in 1 .. m + 1 : w[j] \in ToSet(s[i])
      <3> SUFFICES ASSUME NEW j \in 1 .. Len(w) PROVE \E i \in 1 .. m + 1 : w[j] \in ToSet(s[i])
        OBVIOUS
      <3>1. CASE j \in 1 .. Len(a) /\ w[j] = a[j]
        <4>1. PICK i \in 1 .. m : a[j] \in ToSet(s[i])
          BY <2>5, <3>1
        <4>2. i \in 1 .. m + 1
          OBVIOUS
        <4> QED BY <3>1, <4>1, <4>2
      <3>2. CASE w[j] \in ToSet(b)
        <4>1. m + 1 \in 1 .. m + 1
          OBVIOUS
        <4> QED BY <2>2, <3>2, <4>1
      <3> QED BY <2>8, <3>1, <3>2
    <2>11. ASSUME NEW j \in 1 .. Len(w), NEW k \in 1 .. Len(w), w[j] = w[k]
           PROVE  j = k
      <3>1. CASE j \in 1 .. Len(a) /\ w[j] = a[j]
        <4>1. w[k] \notin ToSet(b)
          BY <2>9, <2>11, <3>1
        <4>2. k \in 1 .. Len(a) /\ w[k] = a[k]
          BY <2>8, <4>1
        <4> QED BY <2>5, <2>11, <3>1, <4>2
      <3>2. CASE j - Len(a) \in 1 .. Len(b) /\ w[j] = b[j - Len(a)] /\ w[j] \in ToSet(b)
        <4>1. ~(k \in 1 .. Len(a) /\ w[k] = a[k])
          BY <2>9, <2>11, <3>2
        <4>2. k - Len(a) \in 1 .. Len(b) /\ w[k] = b[k - Len(a)]
          BY <2>8, <4>1
        <4>3. j - Len(a) = k - Len(a)
          BY <2>6, <2>11, <3>2, <4>2
        <4> QED BY <2>4, <4>3
      <3> QED BY <2>8, <3>1, <3>2
    <2> QED BY <2>2, <2>10, <2>11
  <1>8. n \in M
    <2> HIDE DEF M
    <2> QED BY <1>6, <1>7, Induction
  <1> QED BY <1>3, <1>8

--------------------------------------------------------------------------------
(* Sorting by a rank that is different for each: an element comes at the place *)
(* that the number of elements of a lower rank says.                           *)

Below(S, f, n) == {m \in S : f[m] < f[n]}
Order(S, f) ==
  [i \in 1 .. Cardinality(S) |-> CHOOSE n \in S : Cardinality(Below(S, f, n)) = i - 1]

LEMMA OrderFacts ==
  ASSUME NEW S, IsFiniteSet(S), NEW f \in [S -> Int], \A m, n \in S : f[m] = f[n] => m = n
  PROVE  /\ Order(S, f) \in Seq(S) /\ Len(Order(S, f)) = Cardinality(S)
         /\ \A i, j \in 1 .. Cardinality(S) : Order(S, f)[i] = Order(S, f)[j] => i = j
         /\ ToSet(Order(S, f)) = S /\ Cardinality(S) \in Nat
        /\ \A i, j \in 1 .. Cardinality(S) : i < j => f[Order(S, f)[i]] < f[Order(S, f)[j]]
  <1> DEFINE N == Cardinality(S)
             B(n) == Below(S, f, n)
             h == [n \in S |-> Cardinality(B(n)) + 1]
             o == Order(S, f)
  <1>1. N \in Nat
    BY FS_CardinalityType
  <1>2. ASSUME NEW n \in S
        PROVE  /\ IsFiniteSet(B(n)) /\ Cardinality(B(n)) \in Nat
               /\ Cardinality(B(n) \union {n}) = Cardinality(B(n)) + 1
               /\ Cardinality(B(n)) + 1 \in 1 .. N
    <2>1. B(n) \in SUBSET S /\ B(n) \union {n} \in SUBSET S /\ n \notin B(n)
      BY DEF Below
    <2>2. IsFiniteSet(B(n)) /\ Cardinality(B(n)) \in Nat
      BY <2>1, FS_Subset, FS_CardinalityType
    <2>3. Cardinality(B(n) \union {n}) = Cardinality(B(n)) + 1
      BY <2>1, <2>2, FS_AddElement
    <2>4. Cardinality(B(n) \union {n}) <= N
      BY <2>1, FS_Subset
    <2> HIDE DEF B, N
    <2> QED BY <1>1, <2>2, <2>3, <2>4
  <1>3. ASSUME NEW m \in S, NEW n \in S, f[m] < f[n]
        PROVE  Cardinality(B(m)) < Cardinality(B(n))
    <2>1. B(m) \union {m} \in SUBSET B(n)
      BY <1>3 DEF Below
    <2>2. Cardinality(B(m) \union {m}) <= Cardinality(B(n))
      BY <1>2, <2>1, FS_Subset
    <2>3. Cardinality(B(m)) \in Nat /\ Cardinality(B(n)) \in Nat
          /\ Cardinality(B(m) \union {m}) = Cardinality(B(m)) + 1
      BY <1>2
    <2> HIDE DEF B
    <2> QED BY <2>2, <2>3
  <1>4. ASSUME NEW m \in S, NEW n \in S, h[m] = h[n]
        PROVE  m = n
    <2>1. Cardinality(B(m)) = Cardinality(B(n))
      <3>1. Cardinality(B(m)) + 1 = Cardinality(B(n)) + 1
        BY <1>4
      <3>2. Cardinality(B(m)) \in Nat /\ Cardinality(B(n)) \in Nat
        BY <1>2
      <3> HIDE DEF B
      <3> QED BY <3>1, <3>2
    <2>2. ~(f[m] < f[n]) /\ ~(f[n] < f[m])
      <3>1. Cardinality(B(m)) \in Nat /\ Cardinality(B(n)) \in Nat
        BY <1>2
      <3>2. f[m] < f[n] => Cardinality(B(m)) < Cardinality(B(n))
        BY <1>3
      <3>3. f[n] < f[m] => Cardinality(B(n)) < Cardinality(B(m))
        BY <1>3
      <3> HIDE DEF B
      <3> QED BY <2>1, <3>1, <3>2, <3>3
    <2>3. f[m] = f[n]
      BY <2>2
    <2> QED BY <2>3
  <1>5. h \in Injection(S, 1 .. N)
    <2>1. h \in [S -> 1 .. N]
      BY <1>2
    <2> HIDE DEF h, N
    <2> QED BY <1>4, <2>1 DEF Injection, IsInjective
  <1>6. IsFiniteSet(1 .. N) /\ Cardinality(1 .. N) = N
    <2> HIDE DEF N
    <2>1. IsFiniteSet(1 .. N) /\ Cardinality(1 .. N) = IF 1 > N THEN 0 ELSE N - 1 + 1
      BY <1>1, FS_Interval
    <2> QED BY <1>1, <2>1
  <1>7. h \in Surjection(S, 1 .. N)
    <2> HIDE DEF h
    <2> QED BY <1>5, <1>6, FS_Injection
  <1>8. ASSUME NEW i \in 1 .. N PROVE o[i] \in S /\ h[o[i]] = i
    <2>1. PICK n \in S : h[n] = i
      <3> HIDE DEF h, N
      <3> QED BY <1>7 DEF Surjection
    <2>2. Cardinality(B(n)) = i - 1
      <3>1. h[n] = Cardinality(B(n)) + 1 /\ Cardinality(B(n)) \in Nat
        BY <1>2
      <3> HIDE DEF h, B
      <3> QED BY <2>1, <3>1
    <2>3. \E x \in S : Cardinality(Below(S, f, x)) = i - 1
      BY <2>2
    <2>4. o[i] = CHOOSE x \in S : Cardinality(Below(S, f, x)) = i - 1
      BY DEF Order
    <2>5. o[i] \in S /\ Cardinality(Below(S, f, o[i])) = i - 1
      <3> HIDE DEF o
      <3> QED BY <2>3, <2>4
    <2>6. h[o[i]] = (i - 1) + 1
      <3> HIDE DEF o
      <3> QED BY <2>5
    <2> HIDE DEF h, o
    <2> QED BY <2>5, <2>6
  <1>9. o = [i \in 1 .. N |-> o[i]]
    BY DEF Order
  <1>10. o \in Seq(S) /\ Len(o) = N
    <2>1. \A i \in 1 .. N : o[i] \in S
      BY <1>8
    <2>2. PICK c, k : c = o /\ k = N
      OBVIOUS
    <2> HIDE DEF o, N
    <2>3. c = [i \in 1 .. k |-> c[i]] /\ k \in Nat /\ \A i \in 1 .. k : c[i] \in S
      BY <1>1, <1>9, <2>1, <2>2
    <2>4. c \in Seq(S) /\ Len(c) = k
      BY <2>3
    <2> QED BY <2>2, <2>4
  <1>11. \A i, j \in 1 .. N : o[i] = o[j] => i = j
    <2> HIDE DEF o, N, h
    <2> QED BY <1>8
  <1>12. ASSUME NEW n \in S PROVE n \in ToSet(o)
    <2>1. h[n] \in 1 .. N
      BY <1>2
    <2>2. o[h[n]] \in S /\ h[o[h[n]]] = h[n]
      <3> HIDE DEF h, o
      <3> QED BY <1>8, <2>1
    <2>3. o[h[n]] = n
      <3> HIDE DEF h, o
      <3> QED BY <1>4, <2>2
    <2> HIDE DEF h, o, N
    <2> QED BY <1>9, <2>1, <2>3 DEF ToSet
  <1>13. ToSet(o) \subseteq S
    <2> HIDE DEF o
    <2> QED BY <1>10 DEF ToSet
  <1>14. ASSUME NEW i \in 1 .. N, NEW j \in 1 .. N, i < j PROVE f[o[i]] < f[o[j]]
    <2>1. PICK m, n : m = o[i] /\ n = o[j]
      OBVIOUS
    <2> HIDE DEF o
    <2>2. m \in S /\ n \in S /\ h[m] = i /\ h[n] = j
      BY <1>8, <2>1
    <2>3. h[m] = Cardinality(B(m)) + 1 /\ h[n] = Cardinality(B(n)) + 1
      BY <2>2
    <2>4. Cardinality(B(m)) \in Nat /\ Cardinality(B(n)) \in Nat
      BY <1>2, <2>2
    <2> HIDE DEF h, B
    <2>5. m # n /\ Cardinality(B(m)) < Cardinality(B(n))
      BY <1>14, <2>2, <2>3, <2>4
    <2>6. ~(f[n] < f[m])
      <3>1. f[n] < f[m] => Cardinality(B(n)) < Cardinality(B(m))
        BY <1>3, <2>2
      <3> QED BY <2>4, <2>5, <3>1
    <2>7. f[m] # f[n] /\ f[m] \in Int /\ f[n] \in Int
      BY <2>2, <2>5
    <2> QED BY <2>1, <2>6, <2>7
  <1> QED BY <1>1, <1>10, <1>11, <1>12, <1>13, <1>14
================================================================================
