------------------------------- MODULE DataLemmas -------------------------------
(***************************************************************************)
(* Facts about data that the proofs of several components need.  Induction *)
(* over data is done by a smallest counterexample: a set of subsets of a   *)
(* finite set, or of numbers, that is not empty has a least member.        *)
(***************************************************************************)
EXTENDS Ordering, Integers, Sequences, SequencesExt, FiniteSetsExt, WellFoundedInduction,
        FiniteSetTheorems, SequenceTheorems, TLAPS

\* Among subsets of a finite set there is one that contains no other.
LEMMA SmallestSubset ==
  ASSUME NEW S, IsFiniteSet(S), NEW C \in SUBSET (SUBSET S), C # {}
  PROVE  \E s \in C : \A t \in C : t \subseteq s => t = s
  <1>1. FiniteSubsetsOf(S) = SUBSET S
    BY FS_FiniteSubsetsOfFinite
  <1>2. \E s \in C : \A t \in C : ~ (<<t, s>> \in StrictSubsetOrdering(S))
    <2> HIDE DEF StrictSubsetOrdering
    <2> QED
      BY <1>1, WFMin, FS_StrictSubsetOrderingWellFounded, Zenon
  <1>3. QED
    BY <1>1, <1>2 DEF StrictSubsetOrdering

\* Natural numbers are well-ordered.
LEMMA SmallestNat ==
  ASSUME NEW T \in SUBSET Nat, T # {}
  PROVE  \E n \in T : \A m \in T : n <= m
  <1>1. PICK k \in T : TRUE
    OBVIOUS
  <1> DEFINE C == {0..n : n \in T \cap 0..k}
             S == 0..k
  <1>2. IsFiniteSet(S)
    BY FS_Interval
  <1>3. C \in SUBSET (SUBSET S)
    OBVIOUS
  <1>4. C # {}
    BY <1>1
  <1>5. \E s \in C : \A t \in C : t \subseteq s => t = s
    <2> HIDE DEF C, S
    <2> QED
      BY <1>2, <1>3, <1>4, SmallestSubset
  <1>6. PICK n \in T \cap 0..k : \A t \in C : t \subseteq 0..n => t = 0..n
    BY <1>5
  <1>7. ASSUME NEW m \in T, m < n PROVE FALSE
    <2>1. 0..m \in C /\ 0..m \subseteq 0..n
      BY <1>7
    <2>2. 0..m = 0..n
      BY <2>1, <1>6
    <2>3. n \in 0..m
      BY <2>2
    <2>4. QED
      BY <2>3, <1>7
  <1>8. QED
    BY <1>7

\* The least of a set of natural numbers.
LEMMA MinFacts ==
  ASSUME NEW T \in SUBSET Nat, T # {}
  PROVE  Min(T) \in T /\ \A m \in T : Min(T) <= m
  BY SmallestNat DEF Min

\* Indexes that all lie within n of each other are at most n.
LEMMA CloseIndexes ==
  ASSUME NEW S \in SUBSET Nat, NEW n \in Nat, \A i, j \in S : j < i + n
  PROVE  IsFiniteSet(S) /\ Cardinality(S) <= n
  <1>1. CASE S = {}
    BY <1>1, FS_EmptySet
  <1>2. CASE S # {}
    <2>1. PICK i \in S : \A j \in S : i <= j
      BY <1>2, SmallestNat
    <2>2. S \subseteq i..(i + n - 1)
      BY <2>1
    <2>3. n > 0
      BY <2>1
    <2>4. /\ IsFiniteSet(i..(i + n - 1))
          /\ Cardinality(i..(i + n - 1)) = n
      BY <2>3, FS_Interval
    <2>5. QED
      BY <2>2, <2>4, FS_Subset
  <1>3. QED
    BY <1>1, <1>2

\* A whole number of seconds falls short of a time by less than one.
LEMMA WholeSeconds ==
  ASSUME NEW x \in Nat, NEW s \in Nat \ {0}
  PROVE  x \div s \in Nat /\ s * (x \div s) <= x /\ x < s * (x \div s) + s
  OBVIOUS

\* Short lists put together.
LEMMA OneAndNone == ASSUME NEW a PROVE <<a>> \o <<>> = <<a>> /\ <<>> \o <<a>> = <<a>>
  <1>1. a \in {a}
    OBVIOUS
  <1>2. <<a>> \in Seq({a})
    BY <1>1
  <1>3. QED
    BY <1>2, ConcatEmptySeq

LEMMA OneAndOne == ASSUME NEW a, NEW b PROVE <<a>> \o <<b>> = <<a, b>>
  <1> DEFINE S == {a, b}
             s == <<a>> \o <<b>>
  <1>1. /\ <<a>> \in Seq(S) /\ <<b>> \in Seq(S) /\ <<a, b>> \in Seq(S)
        /\ Len(<<a>>) = 1 /\ Len(<<b>>) = 1 /\ Len(<<a, b>>) = 2
    OBVIOUS
  <1>2. /\ s \in Seq(S) /\ Len(s) = 2
        /\ \A i \in 1..2 : s[i] = IF i <= 1 THEN <<a>>[i] ELSE <<b>>[i - 1]
    BY <1>1, ConcatProperties
  <1> HIDE DEF S, s
  <1>3. s[1] = a /\ s[2] = b
    BY <1>2
  <1>4. \A i \in 1..2 : s[i] = <<a, b>>[i]
    BY <1>3
  <1>5. s = <<a, b>>
    BY <1>1, <1>2, <1>4, SeqEqual
  <1>6. QED
    BY <1>5 DEF s

LEMMA OneAndTwo == ASSUME NEW a, NEW b, NEW c PROVE <<a>> \o <<b, c>> = <<a, b, c>>
  <1> DEFINE S == {a, b, c}
             s == <<a>> \o <<b, c>>
  <1>1. /\ <<a>> \in Seq(S) /\ <<b, c>> \in Seq(S) /\ <<a, b, c>> \in Seq(S)
        /\ Len(<<a>>) = 1 /\ Len(<<b, c>>) = 2 /\ Len(<<a, b, c>>) = 3
    OBVIOUS
  <1>2. /\ s \in Seq(S) /\ Len(s) = 3
        /\ \A i \in 1..3 : s[i] = IF i <= 1 THEN <<a>>[i] ELSE <<b, c>>[i - 1]
    BY <1>1, ConcatProperties
  <1> HIDE DEF S, s
  <1>3. s[1] = a /\ s[2] = b /\ s[3] = c
    BY <1>2
  <1>4. \A i \in 1..3 : s[i] = <<a, b, c>>[i]
    BY <1>3
  <1>5. s = <<a, b, c>>
    BY <1>1, <1>2, <1>4, SeqEqual
  <1>6. QED
    BY <1>5 DEF s

LEMMA AppendToFew ==
  ASSUME NEW a, NEW b
  PROVE  Append(<<>>, a) = <<a>> /\ Append(<<a>>, b) = <<a, b>> /\ <<>> \o <<a, b>> = <<a, b>>
  <1> DEFINE S == {a, b}
  <1>1. <<>> \in Seq(S) /\ <<a>> \in Seq(S) /\ <<a, b>> \in Seq(S) /\ a \in S /\ b \in S
    OBVIOUS
  <1>2. Len(<<>>) = 0 /\ Len(<<a>>) = 1 /\ Len(<<a, b>>) = 2
    OBVIOUS
  <1> HIDE DEF S
  <1>3. Append(<<>>, a) = <<a>>
    <2>1. Append(<<>>, a) \in Seq(S) /\ Len(Append(<<>>, a)) = 1 /\ Append(<<>>, a)[1] = a
      BY <1>1, <1>2, AppendProperties
    <2>2. QED
      BY <1>1, <1>2, <2>1, SeqEqual
  <1>4. Append(<<a>>, b) = <<a, b>>
    <2> DEFINE s == Append(<<a>>, b)
    <2>1. /\ s \in Seq(S) /\ Len(s) = 2 /\ s[2] = b /\ s[1] = <<a>>[1]
      BY <1>1, <1>2, AppendProperties
    <2>2. \A i \in 1..2 : s[i] = <<a, b>>[i]
      BY <2>1
    <2> HIDE DEF s
    <2>3. s = <<a, b>>
      BY <1>1, <1>2, <2>1, <2>2, SeqEqual
    <2>4. QED
      BY <2>3 DEF s
  <1>5. <<>> \o <<a, b>> = <<a, b>>
    BY <1>1, ConcatEmptySeq
  <1>6. QED
    BY <1>3, <1>4, <1>5

LEMMA HeadsOfFew ==
  ASSUME NEW a, NEW b
  PROVE  /\ Head(<<a>>) = a /\ Tail(<<a>>) = <<>>
         /\ Head(<<a, b>>) = a /\ Tail(<<a, b>>) = <<b>>
  OBVIOUS

\* A list that has one entry, or none.
LEMMA ListOfOne ==
  ASSUME NEW n \in {0, 1}, NEW s, s = [i \in 1..n |-> s[i]]
  PROVE  s = IF n = 0 THEN <<>> ELSE <<s[1]>>
  OBVIOUS

LEMMA FirstOnly ==
  ASSUME NEW S, NEW q \in Seq(S), Len(q) > 0
  PROVE  SubSeq(q, 1, 1) = <<q[1]>>
  <1>1. q[1] \in S /\ Len(q) \in Nat /\ 1 \in 1..Len(q)
    BY LenProperties, ElementOfSeq
  <1> DEFINE s == SubSeq(q, 1, 1)
  <1>2. s \in Seq(S) /\ Len(s) = 1 /\ s[1] = q[1]
    BY <1>1, SubSeqProperties
  <1>3. <<q[1]>> \in Seq(S) /\ Len(<<q[1]>>) = 1
    BY <1>1
  <1> HIDE DEF s
  <1>4. \A i \in 1..1 : s[i] = <<q[1]>>[i]
    BY <1>2
  <1>5. s = <<q[1]>>
    BY <1>2, <1>3, <1>4, SeqEqual
  <1>6. QED
    BY <1>5 DEF s


-----------------------------------------------------------------------------
(* Sums over finite sets *)

Some(s) == CHOOSE x \in s : TRUE

\* g gives the sum of f over each subset of S.
IsSum(g, f, S) ==
  g = [s \in SUBSET S |-> IF s = {} THEN 0 ELSE f[Some(s)] + g[s \ {Some(s)}]]

SumTo(f, S) == CHOOSE g : IsSum(g, f, S)

LEMMA SumIs == ASSUME NEW f, NEW S PROVE SumFunctionOnSet(f, S) = SumTo(f, S)[S]
  BY DEF SumFunctionOnSet, FoldFunctionOnSet, MapThenFoldSet, SumTo, IsSum, Some

LEMMA SumsAgree ==
  ASSUME NEW f, NEW S, NEW T, NEW g, NEW h, IsSum(g, f, S), IsSum(h, f, T),
         NEW s \in SUBSET (S \cap T), IsFiniteSet(s)
  PROVE  g[s] = h[s]
  <1> DEFINE C == {t \in SUBSET s : g[t] # h[t]}
  <1>1. ASSUME C # {} PROVE FALSE
    <2>1. PICK t \in C : \A u \in C : u \subseteq t => u = t
      <3> HIDE DEF C
      <3>1. C \in SUBSET (SUBSET s)
        BY DEF C
      <3>2. QED
        BY <1>1, <3>1, SmallestSubset
    <2>2. t \in SUBSET S /\ t \in SUBSET T
      OBVIOUS
    <2>3. t # {}
      BY <2>1, <2>2 DEF IsSum
    <2> DEFINE x == Some(t)
               u == t \ {x}
    <2>4. x \in t
      BY <2>3 DEF Some
    <2>5. u \in SUBSET s /\ u \subseteq t /\ u # t
      BY <2>4
    <2>6. g[u] = h[u]
      BY <2>1, <2>5
    <2>7. g[t] = f[x] + g[u] /\ h[t] = f[x] + h[u]
      BY <2>2, <2>3 DEF IsSum
    <2>8. QED
      BY <2>1, <2>6, <2>7
  <1>2. QED
    BY <1>1

LEMMA SumExists ==
  ASSUME NEW f, NEW S, IsFiniteSet(S)
  PROVE  IsSum(SumTo(f, S), f, S)
  <1> DEFINE C == {s \in SUBSET S : \A g : ~IsSum(g, f, s)}
  <1>1. ASSUME C # {} PROVE FALSE
    <2>1. PICK s \in C : \A t \in C : t \subseteq s => t = s
      <3> HIDE DEF C
      <3>1. C \in SUBSET (SUBSET S)
        BY DEF C
      <3>2. QED
        BY <1>1, <3>1, SmallestSubset
    <2>2. ASSUME NEW t \in SUBSET s, t # s PROVE IsSum(SumTo(f, t), f, t) /\ IsFiniteSet(t)
      <3>1. t \notin C /\ t \in SUBSET S
        BY <2>1, <2>2
      <3>2. \E g : IsSum(g, f, t)
        BY <3>1
      <3>3. IsFiniteSet(t)
        BY <3>1, FS_Subset
      <3>4. QED
        BY <3>2, <3>3 DEF SumTo
    <2> DEFINE rest(t) == t \ {Some(t)}
               G == [t \in SUBSET s |-> IF t = {} THEN 0 ELSE f[Some(t)] + SumTo(f, rest(t))[rest(t)]]
    <2>3. ASSUME NEW t \in SUBSET s, t # {}
          PROVE  rest(t) \in SUBSET s /\ rest(t) # s /\ rest(t) # t
      <3>1. Some(t) \in t
        BY <2>3 DEF Some
      <3>2. QED
        BY <3>1
    <2>4. ASSUME NEW t \in SUBSET s, t # s PROVE G[t] = SumTo(f, t)[t]
      <3> DEFINE h == SumTo(f, t)
                 k == SumTo(f, rest(t))
      <3>1. IsSum(h, f, t)
        BY <2>2, <2>4
      <3>2. CASE t = {}
        <4>1. h[{}] = 0
          BY <3>1, <3>2 DEF IsSum
        <4>2. QED
          BY <3>2, <4>1
      <3>3. CASE t # {}
        <4>1. rest(t) \in SUBSET s /\ rest(t) # s
          BY <2>3, <3>3
        <4>2. IsSum(k, f, rest(t)) /\ IsFiniteSet(rest(t))
          BY <2>2, <4>1
        <4>3. h[t] = f[Some(t)] + h[rest(t)]
          BY <3>1, <3>3 DEF IsSum
        <4> DEFINE r == rest(t)
        <4>4. r \in SUBSET (t \cap r)
          OBVIOUS
        <4> HIDE DEF h, k
        <4>5. h[r] = k[r]
          <5> HIDE DEF r
          <5>1. IsSum(k, f, r) /\ IsFiniteSet(r)
            BY <4>2 DEF r
          <5>2. QED
            BY <3>1, <4>4, <5>1, SumsAgree
        <4>6. G[t] = f[Some(t)] + k[r]
          BY <3>3 DEF k
        <4>7. QED
          BY <4>3, <4>5, <4>6 DEF h
      <3>4. QED
        BY <3>2, <3>3
    <2>5. G = [t \in SUBSET s |-> IF t = {} THEN 0 ELSE f[Some(t)] + G[rest(t)]]
      <3>1. ASSUME NEW t \in SUBSET s, t # {} PROVE G[rest(t)] = SumTo(f, rest(t))[rest(t)]
        <4> HIDE DEF G
        <4>1. QED
          BY <2>3, <2>4, <3>1
      <3>2. ASSUME NEW t \in SUBSET s
            PROVE  G[t] = IF t = {} THEN 0 ELSE f[Some(t)] + G[rest(t)]
        <4>1. CASE t = {}
          BY <4>1
        <4>2. CASE t # {}
          <5>1. G[t] = f[Some(t)] + SumTo(f, rest(t))[rest(t)]
            BY <4>2
          <5> HIDE DEF G
          <5>2. QED
            BY <3>1, <4>2, <5>1
        <4>3. QED
          BY <4>1, <4>2
      <3>3. DOMAIN G = SUBSET s /\ G = [t \in SUBSET s |-> G[t]]
        OBVIOUS
      <3> HIDE DEF G, rest
      <3>4. QED
        BY <3>2, <3>3
    <2> HIDE DEF G
    <2>6. IsSum(G, f, s)
      BY <2>5 DEF IsSum
    <2>7. QED
      BY <2>1, <2>6
  <1>2. QED
    BY <1>1 DEF SumTo

\* A sum is worked out one member after the other, from a member of its choice.
LEMMA SumStep ==
  ASSUME NEW f, NEW S, IsFiniteSet(S)
  PROVE  /\ S = {} => SumFunctionOnSet(f, S) = 0
         /\ S # {} => /\ Some(S) \in S
                      /\ SumFunctionOnSet(f, S)
                           = f[Some(S)] + SumFunctionOnSet(f, S \ {Some(S)})
  <1> DEFINE g == SumTo(f, S)
             x == Some(S)
             T == S \ {x}
             h == SumTo(f, T)
  <1>1. IsFiniteSet(T) /\ T \in SUBSET (S \cap T)
    BY FS_Subset
  <1>2. IsSum(g, f, S) /\ IsSum(h, f, T)
    <2> HIDE DEF T
    <2>1. QED
      BY <1>1, SumExists
  <1>3. SumFunctionOnSet(f, S) = g[S] /\ SumFunctionOnSet(f, T) = h[T]
    BY SumIs
  <1> HIDE DEF h
  <1>4. g[T] = h[T]
    <2> HIDE DEF g, T
    <2>1. QED
      BY <1>1, <1>2, SumsAgree
  <1> HIDE DEF g
  <1>5. g[S] = IF S = {} THEN 0 ELSE f[x] + g[T]
    BY <1>2 DEF IsSum
  <1>6. S # {} => x \in S
    BY DEF Some
  <1>7. QED
    BY <1>3, <1>4, <1>5, <1>6

LEMMA SumIsNat ==
  ASSUME NEW f, NEW S, IsFiniteSet(S), \A x \in S : f[x] \in Nat
  PROVE  SumFunctionOnSet(f, S) \in Nat
  <1> DEFINE C == {s \in SUBSET S : SumFunctionOnSet(f, s) \notin Nat}
  <1>1. ASSUME C # {} PROVE FALSE
    <2>1. PICK s \in C : \A t \in C : t \subseteq s => t = s
      <3> HIDE DEF C
      <3>1. C \in SUBSET (SUBSET S)
        BY DEF C
      <3>2. QED
        BY <1>1, <3>1, SmallestSubset
    <2>2. IsFiniteSet(s)
      BY FS_Subset
    <2>3. s # {}
      <3>1. SumFunctionOnSet(f, s) \notin Nat
        BY <2>1
      <3>2. s = {} => SumFunctionOnSet(f, s) = 0
        BY <2>2, SumStep
      <3>3. QED
        BY <3>1, <3>2
    <2> DEFINE x == Some(s)
               t == s \ {x}
    <2>4. x \in s /\ SumFunctionOnSet(f, s) = f[x] + SumFunctionOnSet(f, t)
      BY <2>2, <2>3, SumStep
    <2>5. t \in SUBSET S /\ t \subseteq s /\ t # s
      BY <2>4
    <2>6. SumFunctionOnSet(f, t) \in Nat
      BY <2>1, <2>5
    <2>7. f[x] \in Nat
      BY <2>4
    <2> HIDE DEF x, t
    <2>8. QED
      BY <2>1, <2>4, <2>6, <2>7
  <1>2. QED
    BY <1>1

\* The order does not matter: any member can be the last.
LEMMA SumOfMember ==
  ASSUME NEW f, NEW S, IsFiniteSet(S), \A x \in S : f[x] \in Nat, NEW y \in S
  PROVE  /\ SumFunctionOnSet(f, S \ {y}) \in Nat
         /\ SumFunctionOnSet(f, S) = f[y] + SumFunctionOnSet(f, S \ {y})
  <1> DEFINE sum(s) == SumFunctionOnSet(f, s)
             C == {s \in SUBSET S : \E z \in s : sum(s) # f[z] + sum(s \ {z})}
  <1>1. ASSUME NEW s \in SUBSET S PROVE IsFiniteSet(s) /\ sum(s) \in Nat
    <2>1. IsFiniteSet(s)
      BY FS_Subset
    <2>2. QED
      BY <2>1, SumIsNat
  <1>2. ASSUME C # {} PROVE FALSE
    <2>1. PICK s \in C : \A t \in C : t \subseteq s => t = s
      <3> HIDE DEF C
      <3>1. C \in SUBSET (SUBSET S)
        BY DEF C
      <3>2. QED
        BY <1>2, <3>1, SmallestSubset
    <2>2. PICK z \in s : sum(s) # f[z] + sum(s \ {z})
      BY <2>1
    <2> DEFINE x == Some(s)
    <2>3. x \in s /\ sum(s) = f[x] + sum(s \ {x})
      <3>1. s # {} /\ IsFiniteSet(s)
        BY <1>1, <2>2
      <3>2. QED
        BY <3>1, SumStep
    <2>4. x # z
      BY <2>2, <2>3
    <2> HIDE DEF x, sum
    <2>5. /\ s \ {x} \in SUBSET S /\ s \ {x} # s /\ s \ {x} \subseteq s /\ z \in s \ {x}
          /\ s \ {z} \in SUBSET S /\ s \ {z} # s /\ s \ {z} \subseteq s /\ x \in s \ {z}
          /\ (s \ {x}) \ {z} = (s \ {z}) \ {x} /\ (s \ {x}) \ {z} \in SUBSET S
      BY <2>2, <2>3, <2>4
    <2> DEFINE r == (s \ {x}) \ {z}
    <2>6. sum(s \ {x}) = f[z] + sum(r) /\ sum(s \ {z}) = f[x] + sum(r)
      <3>1. s \ {x} \notin C /\ s \ {z} \notin C
        BY <2>1, <2>5
      <3>2. sum(s \ {x}) = f[z] + sum((s \ {x}) \ {z})
        BY <2>5, <3>1
      <3>3. sum(s \ {z}) = f[x] + sum((s \ {z}) \ {x})
        BY <2>5, <3>1
      <3>4. QED
        BY <2>5, <3>2, <3>3
    <2>7. sum(r) \in Nat /\ f[x] \in Nat /\ f[z] \in Nat
      BY <1>1, <2>3, <2>5
    <2> HIDE DEF r
    <2>8. QED
      BY <2>2, <2>3, <2>6, <2>7
  <1>3. S \in SUBSET S
    OBVIOUS
  <1> HIDE DEF sum
  <1>4. \A z \in S : sum(S) = f[z] + sum(S \ {z})
    BY <1>2, <1>3
  <1>5. sum(S \ {y}) \in Nat
    BY <1>1
  <1>6. QED
    BY <1>4, <1>5 DEF sum

\* Only the values that are summed up matter.
LEMMA SumOfSame ==
  ASSUME NEW f, NEW g, NEW S, IsFiniteSet(S), \A x \in S : f[x] = g[x]
  PROVE  SumFunctionOnSet(f, S) = SumFunctionOnSet(g, S)
  <1> DEFINE C == {s \in SUBSET S : SumFunctionOnSet(f, s) # SumFunctionOnSet(g, s)}
  <1>1. ASSUME C # {} PROVE FALSE
    <2>1. PICK s \in C : \A t \in C : t \subseteq s => t = s
      <3> HIDE DEF C
      <3>1. C \in SUBSET (SUBSET S)
        BY DEF C
      <3>2. QED
        BY <1>1, <3>1, SmallestSubset
    <2>2. IsFiniteSet(s)
      BY FS_Subset
    <2>3. s # {}
      BY <2>1, <2>2, SumStep
    <2> DEFINE x == Some(s)
               t == s \ {x}
    <2>4. /\ x \in s /\ SumFunctionOnSet(f, s) = f[x] + SumFunctionOnSet(f, t)
          /\ SumFunctionOnSet(g, s) = g[x] + SumFunctionOnSet(g, t)
      BY <2>2, <2>3, SumStep
    <2>5. t \in SUBSET S /\ t \subseteq s /\ t # s
      BY <2>4
    <2>6. SumFunctionOnSet(f, t) = SumFunctionOnSet(g, t)
      BY <2>1, <2>5
    <2>7. QED
      BY <2>1, <2>4, <2>6
  <1>2. QED
    BY <1>1

\* A sum that is not zero has a term that is not.
LEMMA SumOfZeros ==
  ASSUME NEW f, NEW S, IsFiniteSet(S), \A x \in S : f[x] = 0
  PROVE  SumFunctionOnSet(f, S) = 0
  <1> DEFINE C == {s \in SUBSET S : SumFunctionOnSet(f, s) # 0}
  <1>1. ASSUME C # {} PROVE FALSE
    <2>1. PICK s \in C : \A t \in C : t \subseteq s => t = s
      <3> HIDE DEF C
      <3>1. C \in SUBSET (SUBSET S)
        BY DEF C
      <3>2. QED
        BY <1>1, <3>1, SmallestSubset
    <2>2. IsFiniteSet(s)
      BY FS_Subset
    <2>3. s # {}
      BY <2>1, <2>2, SumStep
    <2> DEFINE x == Some(s)
               t == s \ {x}
    <2>4. x \in s /\ SumFunctionOnSet(f, s) = f[x] + SumFunctionOnSet(f, t)
      BY <2>2, <2>3, SumStep
    <2>5. t \in SUBSET S /\ t \subseteq s /\ t # s
      BY <2>4
    <2>6. SumFunctionOnSet(f, t) = 0
      BY <2>1, <2>5
    <2>7. f[x] = 0
      BY <2>4
    <2> HIDE DEF x, t
    <2>8. QED
      BY <2>1, <2>4, <2>6, <2>7
  <1>2. QED
    BY <1>1

LEMMA SumWithOneMore ==
  ASSUME NEW f, NEW S, IsFiniteSet(S), \A x \in S : f[x] \in Nat, NEW y \in S,
         NEW g, \A x \in S \ {y} : g[x] = f[x], g[y] = f[y] + 1
  PROVE  SumFunctionOnSet(g, S) = SumFunctionOnSet(f, S) + 1
  <1>1. \A x \in S : g[x] \in Nat
    OBVIOUS
  <1>2. IsFiniteSet(S \ {y})
    BY FS_Subset
  <1>3. SumFunctionOnSet(g, S \ {y}) = SumFunctionOnSet(f, S \ {y})
    BY <1>2, SumOfSame
  <1>4. SumFunctionOnSet(f, S) = f[y] + SumFunctionOnSet(f, S \ {y})
    BY SumOfMember
  <1>5. SumFunctionOnSet(g, S) = g[y] + SumFunctionOnSet(f, S \ {y})
    BY <1>1, <1>3, SumOfMember
  <1>6. SumFunctionOnSet(f, S \ {y}) \in Nat
    <2>1. \A x \in S \ {y} : f[x] \in Nat
      OBVIOUS
    <2>2. QED
      BY <1>2, <2>1, SumIsNat
  <1>7. f[y] \in Nat /\ g[y] = f[y] + 1
    OBVIOUS
  <1> DEFINE a == SumFunctionOnSet(f, S \ {y})
  <1> HIDE DEF a
  <1>8. QED
    BY <1>4, <1>5, <1>6, <1>7 DEF a

-----------------------------------------------------------------------------
(* Putting in order *)

\* The members of S that come before each are those of a strict total order.
Orders(before, S) ==
  /\ before \in [S -> SUBSET S]
  /\ \A i \in S : i \notin before[i]
  /\ \A i, j \in S : i # j => i \in before[j] \/ j \in before[i]
  /\ \A i, j \in S : i \in before[j] => before[i] \subseteq before[j]

\* From n members of a finite set of n numbers that all differ none is missing.
LEMMA NoneIsMissing ==
  ASSUME NEW S, IsFiniteSet(S), NEW f \in [S -> 0..(Cardinality(S) - 1)],
         \A i, j \in S : f[i] = f[j] => i = j
  PROVE  \A k \in 0..(Cardinality(S) - 1) : \E i \in S : f[i] = k
  <1> DEFINE n == Cardinality(S)
             T == 0..(n - 1)
  <1>1. n \in Nat
    BY FS_CardinalityType
  <1>2. IsFiniteSet(T) /\ Cardinality(T) = n
    BY <1>1, FS_Interval
  <1>3. f \in Injection(S, T)
    BY DEF Injection, IsInjective
  <1> HIDE DEF T
  <1>4. f \in Surjection(S, T)
    BY <1>2, <1>3, FS_Injection
  <1>5. \A k \in T : \E i \in S : f[i] = k
    BY <1>4 DEF Surjection
  <1>6. QED
    BY <1>5 DEF T

\* What is put in order has every member once, each after those before it.
LEMMA InOrderIsSorted ==
  ASSUME NEW S, IsFiniteSet(S), NEW before, Orders(before, S)
  PROVE  /\ InOrder(S, before) \in Seq(S)
         /\ Cardinality(S) \in Nat /\ Len(InOrder(S, before)) = Cardinality(S)
         /\ \A i \in S : \E k \in 1..Cardinality(S) : InOrder(S, before)[k] = i
         /\ \A k, m \in 1..Cardinality(S) :
              k < m => InOrder(S, before)[k] \in before[InOrder(S, before)[m]]
  <1> DEFINE n == Cardinality(S)
             rank == [i \in S |-> Cardinality(before[i])]
             at(k) == CHOOSE i \in S : Cardinality(before[i]) = k - 1
             all == [k \in 1..n |-> at(k)]
             s == InOrder(S, before)
  <1>1. n \in Nat
    BY FS_CardinalityType
  <1>2. ASSUME NEW i \in S PROVE rank[i] \in 0..(n - 1) /\ IsFiniteSet(before[i])
    <2>1. before[i] \in SUBSET (S \ {i})
      BY DEF Orders
    <2>2. IsFiniteSet(S \ {i}) /\ Cardinality(S \ {i}) = n - 1
      BY FS_RemoveElement
    <2>3. IsFiniteSet(before[i]) /\ Cardinality(before[i]) <= n - 1
      BY <2>1, <2>2, FS_Subset
    <2>4. Cardinality(before[i]) \in Nat
      BY <2>3, FS_CardinalityType
    <2> HIDE DEF n
    <2>5. QED
      BY <1>1, <2>3, <2>4
  <1>3. ASSUME NEW i \in S, NEW j \in S, i \in before[j] PROVE rank[i] < rank[j]
    <2>1. before[i] \in SUBSET before[j] /\ before[i] # before[j]
      BY <1>3 DEF Orders
    <2>2. Cardinality(before[i]) <= Cardinality(before[j]) /\ Cardinality(before[j]) # Cardinality(before[i])
      BY <1>2, <2>1, FS_Subset
    <2>3. rank[i] \in Int /\ rank[j] \in Int
      BY <1>1, <1>2
    <2>4. QED
      BY <2>2, <2>3
  <1>4. ASSUME NEW i \in S, NEW j \in S, rank[i] = rank[j] PROVE i = j
    <2>1. rank[i] \in Int /\ rank[j] \in Int
      BY <1>1, <1>2
    <2> HIDE DEF rank
    <2>2. QED
      BY <1>3, <1>4, <2>1 DEF Orders
  <1>5. \A k \in 0..(n - 1) : \E i \in S : rank[i] = k
    <2>1. rank \in [S -> 0..(n - 1)]
      <3>1. \A i \in S : rank[i] \in 0..(n - 1)
        BY <1>2
      <3>2. rank = [i \in S |-> rank[i]]
        OBVIOUS
      <3> HIDE DEF rank, n
      <3>3. QED
        BY <3>1, <3>2
    <2> HIDE DEF rank
    <2>2. QED
      BY <1>4, <2>1, NoneIsMissing
  <1>6. ASSUME NEW k \in 1..n PROVE at(k) \in S /\ rank[at(k)] = k - 1
    <2>1. k - 1 \in 0..(n - 1)
      BY <1>1
    <2>2. \E i \in S : Cardinality(before[i]) = k - 1
      <3> HIDE DEF n
      <3>1. PICK i \in S : rank[i] = k - 1
        BY <1>5, <2>1
      <3>2. QED
        BY <3>1
    <2>3. at(k) \in S /\ Cardinality(before[at(k)]) = k - 1
      BY <2>2
    <2> HIDE DEF at
    <2>4. QED
      BY <2>3
  <1>7. s = SubSeq(all, 1, n)
    BY DEF InOrder
  <1>8. /\ \A k \in 1..n : all[k] = at(k) /\ all[k] \in S
    <2> HIDE DEF at, n
    <2>1. QED
      BY <1>6
  <1>9. /\ s \in Seq(S) /\ Len(s) = n
        /\ \A k \in 1..n : s[k] = at(k)
    <2> HIDE DEF all, s, n, at
    <2>1. /\ s \in Seq(S) /\ Len(s) = (IF 1 <= n THEN n - 1 + 1 ELSE 0)
          /\ \A k \in 1..(n - 1 + 1) : s[k] = all[1 + k - 1]
      BY <1>1, <1>7, <1>8, SubSeqProperties
    <2>2. QED
      BY <1>1, <1>8, <2>1
  <1> HIDE DEF s, at, rank, n, all
  <1>10. ASSUME NEW i \in S PROVE \E k \in 1..n : s[k] = i
    <2>1. rank[i] \in 0..(n - 1) /\ rank[i] + 1 \in 1..n
      BY <1>1, <1>2
    <2>2. at(rank[i] + 1) \in S /\ rank[at(rank[i] + 1)] = rank[i]
      BY <1>6, <2>1
    <2>3. at(rank[i] + 1) = i
      BY <1>4, <2>2
    <2>4. QED
      BY <1>9, <2>1, <2>3
  <1>11. ASSUME NEW k \in 1..n, NEW m \in 1..n, k < m PROVE s[k] \in before[s[m]]
    <2>1. s[k] \in S /\ s[m] \in S /\ rank[s[k]] = k - 1 /\ rank[s[m]] = m - 1
      BY <1>6, <1>9
    <2>2. ~ (rank[s[m]] < rank[s[k]]) /\ rank[s[m]] # rank[s[k]]
      BY <1>1, <1>11, <2>1
    <2>3. s[m] \notin before[s[k]] /\ s[m] # s[k]
      BY <1>3, <2>1, <2>2
    <2>4. QED
      BY <2>1, <2>3 DEF Orders
  <1>12. QED
    BY <1>1, <1>9, <1>10, <1>11 DEF s, n

\* The members of r are those of seq, each after those it comes after.
Follows(r, seq, before) ==
  \A k, m \in 1..Len(seq) :
    k < m => \E i, j \in DOMAIN seq : r[k] = seq[i] /\ r[m] = seq[j] /\ i \in before[j]

\* What is put in order is a rearrangement: a sequence of the same values.
LEMMA Rearranged ==
  ASSUME NEW T, NEW seq \in Seq(T), NEW before, Orders(before, DOMAIN seq), NEW all, NEW r,
         \A k \in 1..Len(seq) : all[k] = seq[InOrder(DOMAIN seq, before)[k]],
         r = SubSeq(all, 1, Len(seq))
  PROVE  r \in Seq(T) /\ Len(r) = Len(seq) /\ Follows(r, seq, before)
  <1> DEFINE n == Len(seq)
             o == InOrder(DOMAIN seq, before)
  <1>1. n \in Nat /\ DOMAIN seq = 1..n /\ seq \in [1..n -> T]
    BY LenProperties
  <1>2. IsFiniteSet(DOMAIN seq) /\ Cardinality(DOMAIN seq) = n
    <2>1. IsFiniteSet(1..n) /\ Cardinality(1..n) = IF 1 > n THEN 0 ELSE n - 1 + 1
      BY <1>1, FS_Interval
    <2> HIDE DEF n
    <2>2. QED
      BY <1>1, <2>1
  <1>3. /\ o \in Seq(DOMAIN seq) /\ Len(o) = n
        /\ \A k, m \in 1..n : k < m => o[k] \in before[o[m]]
    <2> HIDE DEF n
    <2>1. QED
      BY <1>2, InOrderIsSorted
  <1> HIDE DEF o
  <1>4. \A k \in 1..n : o[k] \in DOMAIN seq
    BY <1>3, ElementOfSeq
  <1>5. \A k \in 1..n : all[k] = seq[o[k]] /\ all[k] \in T
    BY <1>1, <1>4 DEF o
  <1>6. r = SubSeq(all, 1, n)
    OBVIOUS
  <1> HIDE DEF n
  <1>7. /\ r \in Seq(T) /\ Len(r) = (IF 1 <= n THEN n - 1 + 1 ELSE 0)
        /\ \A k \in 1..(n - 1 + 1) : r[k] = all[1 + k - 1]
    BY <1>1, <1>5, <1>6, SubSeqProperties
  <1>8. r \in Seq(T) /\ Len(r) = n /\ \A k \in 1..n : r[k] = seq[o[k]]
    BY <1>1, <1>5, <1>7
  <1>9. QED
    BY <1>3, <1>4, <1>8 DEF n, Follows

\* Some member of a finite set has a smallest value.
LEMMA SmallestOf ==
  ASSUME NEW S, IsFiniteSet(S), S # {}, NEW from \in [S -> SUBSET S]
  PROVE  \E t \in S : \A x \in S : from[x] \subseteq from[t] => from[x] = from[t]
  <1> DEFINE C == {from[x] : x \in S}
  <1>1. C \in SUBSET (SUBSET S) /\ C # {}
    OBVIOUS
  <1>2. \E s \in C : \A v \in C : v \subseteq s => v = s
    <2> HIDE DEF C
    <2>1. QED
      BY <1>1, SmallestSubset
  <1>3. QED
    BY <1>2

\* The greatest of a finite set of integers.
LEMMA MaxFacts ==
  ASSUME NEW T \in SUBSET Int, IsFiniteSet(T), T # {}
  PROVE  Max(T) \in T /\ \A x \in T : x <= Max(T)
  <1> DEFINE from == [x \in T |-> {u \in T : x <= u}]
  <1>1. from \in [T -> SUBSET T]
    OBVIOUS
  <1>2. PICK t \in T : \A x \in T : from[x] \subseteq from[t] => from[x] = from[t]
    <2>1. \A f \in [T -> SUBSET T] : \E t \in T : \A x \in T : f[x] \subseteq f[t] => f[x] = f[t]
      BY SmallestOf
    <2> HIDE DEF from
    <2>2. QED
      BY <1>1, <2>1
  <1>3. t \in from[t]
    OBVIOUS
  <1>4. ASSUME NEW u \in T, t <= u PROVE u <= t
    <2>1. from[u] \subseteq from[t]
      <3>1. \A x \in T : u <= x => t <= x
        BY <1>4
      <3>2. QED
        BY <3>1
    <2>4. t \in from[u]
      BY <1>2, <1>3, <2>1
    <2>5. QED
      BY <2>4
  <1>5. \A u \in T : u <= t
    BY <1>4
  <1>6. QED
    BY <1>5 DEF Max

\* The values of a function on a finite set.
LEMMA FiniteImage ==
  ASSUME NEW S, IsFiniteSet(S), NEW f, DOMAIN f = S, f = [x \in S |-> f[x]]
  PROVE  IsFiniteSet({f[x] : x \in S})
  <1> DEFINE T == {f[x] : x \in S}
  <1>1. f \in [S -> T]
    OBVIOUS
  <1>2. f \in Surjection(S, T)
    BY <1>1 DEF Surjection
  <1> HIDE DEF T
  <1>3. IsFiniteSet(T)
    BY <1>2, FS_Surjection
  <1>4. QED
    BY <1>3 DEF T

\* The smaller and the greater of two.
LEMMA OfTwo ==
  ASSUME NEW a \in Int, NEW b \in Int
  PROVE  /\ Min({a, b}) = IF a <= b THEN a ELSE b
         /\ Max({a, b}) = IF a <= b THEN b ELSE a
  BY DEF Min, Max

\* Sequences of one length that differ are told apart by the first of their differences.
LEMMA FirstDifference ==
  ASSUME NEW n \in Nat, NEW a \in [1..n -> Int], NEW b \in [1..n -> Int], a # b
  PROVE  \E k \in 1..n : a[k] # b[k] /\ \A m \in 1..(k - 1) : a[m] = b[m]
  <1> DEFINE T == {k \in 1..n : a[k] # b[k]}
  <1>1. T \in SUBSET Nat /\ T # {}
    OBVIOUS
  <1>2. PICK k \in T : \A m \in T : k <= m
    <2> HIDE DEF T
    <2>1. QED
      BY <1>1, SmallestNat
  <1>3. \A m \in 1..(k - 1) : m \notin T /\ m \in 1..n
    BY <1>2
  <1>4. QED
    BY <1>3
=============================================================================
