------------------------------- MODULE Counting -------------------------------
(***************************************************************************)
(* How often a symbol, and a pair of successive symbols, occurs in a       *)
(* sequence, and how the counts grow when the sequence does.  The tables   *)
(* of the tracer and of the analyzer hold such counts.  The second part is *)
(* about the sums that means are computed from.                            *)
(***************************************************************************)
EXTENDS Integers, Sequences, FiniteSets, FiniteSetTheorems, WellFoundedInduction,
        TLAPS

Places(l, x) == {i \in DOMAIN l : l[i] = x}
PairsOf(l) == {<<l[i], l[i + 1]>> : i \in 1 .. Len(l) - 1}
PairPlaces(l, p) == {i \in 1 .. Len(l) - 1 : <<l[i], l[i + 1]>> = p}

\* A table that holds the count of every symbol, or pair, of l and no other.
CountsSymbols(f, l) ==
  /\ DOMAIN f = {l[i] : i \in DOMAIN l}
  /\ \A x \in DOMAIN f : f[x] = Cardinality(Places(l, x))

CountsPairs(f, l) ==
  /\ DOMAIN f = PairsOf(l)
  /\ \A p \in DOMAIN f : f[p] = Cardinality(PairPlaces(l, p))

\* g is f with x counted once more.
CountedIn(g, f, x) ==
  /\ DOMAIN g = DOMAIN f \cup {x}
  /\ g[x] = IF x \in DOMAIN f THEN f[x] + 1 ELSE 1
  /\ \A y \in DOMAIN f : y # x => g[y] = f[y]

\* A set of places, with one more.
LEMMA OneMore ==
  ASSUME NEW n \in Nat, NEW P, P \subseteq 1 .. n
  PROVE  /\ Cardinality(P) \in Nat
         /\ Cardinality(P \cup {n + 1}) = Cardinality(P) + 1
         /\ P = {} => Cardinality(P \cup {n + 1}) = 1
  <1>1. IsFiniteSet(P)
    <2>1. IsFiniteSet(1 .. n)
      BY FS_Interval
    <2> QED
      BY <2>1, FS_Subset
  <1>2. n + 1 \notin P
    OBVIOUS
  <1>3. Cardinality(P \cup {n + 1}) = Cardinality(P) + 1
    BY <1>1, <1>2, FS_AddElement
  <1>4. Cardinality(P) \in Nat
    BY <1>1, FS_CardinalityType
  <1>5. P = {} => Cardinality(P) = 0
    BY FS_EmptySet
  <1> QED
    BY <1>3, <1>4, <1>5

\* The places of a symbol in a sequence that has grown by x.
LEMMA PlacesGrow ==
  ASSUME NEW S, NEW l \in Seq(S), NEW x \in S, NEW y
  PROVE  Places(Append(l, x), y) =
           IF y = x THEN Places(l, y) \cup {Len(l) + 1} ELSE Places(l, y)
  BY DEF Places

\* A table that counts the symbols of a log counts them still when both get one
\* more.
LEMMA SymbolsCounted ==
  ASSUME NEW S, NEW l \in Seq(S), NEW x \in S, NEW f, NEW g,
         CountsSymbols(f, l), CountedIn(g, f, x)
  PROVE  CountsSymbols(g, Append(l, x))
  <1> DEFINE m == Append(l, x)
  <1>1. {m[i] : i \in DOMAIN m} = {l[i] : i \in DOMAIN l} \cup {x}
    <2>1. DOMAIN m = DOMAIN l \cup {Len(l) + 1} /\ m[Len(l) + 1] = x
            /\ \A i \in DOMAIN l : m[i] = l[i]
      OBVIOUS
    <2> HIDE DEF m
    <2> QED
      BY <2>1
  <1>2. ASSUME NEW y \in DOMAIN g PROVE g[y] = Cardinality(Places(m, y))
    <2>1. Places(l, y) \subseteq 1 .. Len(l) /\ Len(l) \in Nat
      BY DEF Places
    <2>2. CASE y # x
      <3>1. Places(m, y) = Places(l, y)
        BY <2>2, PlacesGrow
      <3> QED
        BY <1>2, <2>2, <3>1 DEF CountsSymbols, CountedIn
    <2>3. CASE y = x
      <3>1. Places(m, y) = Places(l, y) \cup {Len(l) + 1}
        BY <2>3, PlacesGrow
      <3>2. y \notin DOMAIN f => Places(l, y) = {}
        BY DEF CountsSymbols, Places
      <3>3. y \in DOMAIN f => f[y] = Cardinality(Places(l, y))
        BY DEF CountsSymbols
      <3>4. g[y] = IF y \in DOMAIN f THEN f[y] + 1 ELSE 1
        BY <2>3 DEF CountedIn
      <3> HIDE DEF m
      <3> QED
        BY <2>1, <3>1, <3>2, <3>3, <3>4, OneMore
    <2> QED
      BY <2>2, <2>3
  <1> QED
    BY <1>1, <1>2 DEF CountsSymbols, CountedIn

\* The first symbol makes no pair.
LEMMA NoPairs ==
  ASSUME NEW S, NEW x \in S, NEW f, CountsPairs(f, <<>>)
  PROVE  CountsPairs(f, Append(<<>>, x))
  <1>1. Len(Append(<<>>, x)) = 1
    OBVIOUS
  <1>2. PairsOf(<<>>) = {} /\ PairsOf(Append(<<>>, x)) = {}
    BY <1>1 DEF PairsOf
  <1> QED
    BY <1>2 DEF CountsPairs

\* The pairs of a sequence that has grown by x.
LEMMA PairsGrow ==
  ASSUME NEW S, NEW l \in Seq(S), l # <<>>, NEW x \in S
  PROVE  /\ PairsOf(Append(l, x)) = PairsOf(l) \cup {<<l[Len(l)], x>>}
         /\ \A p : PairPlaces(Append(l, x), p) =
              IF p = <<l[Len(l)], x>> THEN PairPlaces(l, p) \cup {Len(l)}
              ELSE PairPlaces(l, p)
  <1> DEFINE m == Append(l, x)
             n == Len(l)
  <1>1. /\ n \in Nat \ {0} /\ Len(m) - 1 = n /\ m[n + 1] = x
        /\ m[n] = l[n]
        /\ \A i \in 1 .. n - 1 : m[i] = l[i] /\ m[i + 1] = l[i + 1]
    OBVIOUS
  <1>2. 1 .. n = (1 .. n - 1) \cup {n} /\ n \notin 1 .. n - 1
    BY <1>1
  <1> HIDE DEF m, n
  <1>3. PairsOf(m) = PairsOf(l) \cup {<<l[n], x>>}
    BY <1>1, <1>2 DEF PairsOf, n
  <1>4. ASSUME NEW p
        PROVE  PairPlaces(m, p) = IF p = <<l[n], x>> THEN PairPlaces(l, p) \cup {n}
                                  ELSE PairPlaces(l, p)
    BY <1>1, <1>2 DEF PairPlaces, n
  <1> QED
    BY <1>3, <1>4 DEF m, n

\* The same for a table of pairs of neighbours and the pair that a symbol makes
\* with the last.
LEMMA PairsCounted ==
  ASSUME NEW S, NEW l \in Seq(S), l # <<>>, NEW x \in S, NEW f, NEW g,
         CountsPairs(f, l), CountedIn(g, f, <<l[Len(l)], x>>)
  PROVE  CountsPairs(g, Append(l, x))
  <1> DEFINE m == Append(l, x)
             q == <<l[Len(l)], x>>
             k == Len(l) - 1
  <1>1. k \in Nat /\ Len(l) = k + 1
    OBVIOUS
  <1>2. PairsOf(m) = PairsOf(l) \cup {q}
    BY PairsGrow
  <1>3. ASSUME NEW p \in DOMAIN g PROVE g[p] = Cardinality(PairPlaces(m, p))
    <2>1. PairPlaces(l, p) \subseteq 1 .. k
      BY DEF PairPlaces
    <2>2. CASE p # q
      <3>1. PairPlaces(m, p) = PairPlaces(l, p)
        BY <2>2, PairsGrow
      <3> QED
        BY <1>3, <2>2, <3>1 DEF CountsPairs, CountedIn
    <2>3. CASE p = q
      <3>1. PairPlaces(m, p) = PairPlaces(l, p) \cup {k + 1}
        BY <1>1, <2>3, PairsGrow
      <3>2. p \notin DOMAIN f => PairPlaces(l, p) = {}
        BY DEF CountsPairs, PairPlaces, PairsOf
      <3>3. p \in DOMAIN f => f[p] = Cardinality(PairPlaces(l, p))
        BY DEF CountsPairs
      <3>4. g[p] = IF p \in DOMAIN f THEN f[p] + 1 ELSE 1
        BY <2>3 DEF CountedIn
      <3> HIDE DEF m, k, q
      <3> QED
        BY <1>1, <2>1, <3>1, <3>2, <3>3, <3>4, OneMore
    <2> QED
      BY <2>2, <2>3
  <1> QED
    BY <1>2, <1>3 DEF CountsPairs, CountedIn

-----------------------------------------------------------------------------
(* Sums over a finite set, as the library's MapThenSumSet defines them.     *)

\* it gives the sum of f over every subset of D.
Totals(it, f, D) ==
  it = [s \in SUBSET D |->
          IF s = {} THEN 0
          ELSE LET x == CHOOSE x \in s : TRUE IN f[x] + it[s \ {x}]]

Total(f, D) == (CHOOSE it : Totals(it, f, D))[D]

\* The values of f on D are naturals.
Naturally(f, D) == \A x \in D : f[x] \in Nat

\* A set of subsets of a finite set that has each whose own subsets it has.
LEMMA Induct ==
  ASSUME NEW D, IsFiniteSet(D), NEW G,
         \A s \in SUBSET D : (\A t \in SUBSET s : t # s => t \in G) => s \in G
  PROVE  \A s \in SUBSET D : s \in G
  <1> DEFINE R == StrictSubsetOrdering(D)
             B == (SUBSET D) \ G
  <1>1. IsWellFoundedOn(R, SUBSET D)
    BY FS_StrictSubsetOrderingWellFounded, FS_FiniteSubsetsOfFinite
  <1>2. \A s, t \in SUBSET D : t \subseteq s /\ t # s => <<t, s>> \in R
    BY DEF StrictSubsetOrdering
  <1> HIDE DEF R
  <1>3. SUFFICES ASSUME B # {} PROVE FALSE
    OBVIOUS
  <1>4. B \subseteq SUBSET D
    OBVIOUS
  <1> HIDE DEF B
  <1>5. PICK s \in B : \A t \in B : <<t, s>> \notin R
    BY <1>1, <1>3, <1>4, WFMin
  <1>6. ASSUME NEW t \in SUBSET s, t # s PROVE t \in G
    <2>1. s \in SUBSET D /\ t \in SUBSET D /\ t \subseteq s
      BY <1>4, <1>5
    <2>2. t \notin B
      BY <1>2, <1>5, <1>6, <2>1
    <2> QED
      BY <2>1, <2>2 DEF B
  <1> QED
    BY <1>4, <1>5, <1>6 DEF B

\* What sums over D say of a part of it, for a function that is the same there.
LEMMA Part ==
  ASSUME NEW it, NEW f, NEW D, Totals(it, f, D), NEW E \in SUBSET D, NEW g,
         \A x \in E : g[x] = f[x]
  PROVE  Totals([s \in SUBSET E |-> it[s]], g, E)
  <1> DEFINE h == [s \in SUBSET E |-> it[s]]
  <1>1. ASSUME NEW s \in SUBSET E
        PROVE  h[s] = IF s = {} THEN 0
                      ELSE LET x == CHOOSE x \in s : TRUE IN g[x] + h[s \ {x}]
    <2> DEFINE y == CHOOSE x \in s : TRUE
    <2>1. it[s] = IF s = {} THEN 0 ELSE f[y] + it[s \ {y}]
      <3>1. s \in SUBSET D
        OBVIOUS
      <3> QED
        BY <3>1 DEF Totals
    <2>2. s # {} => y \in s
      OBVIOUS
    <2> HIDE DEF y
    <2>3. h[s] = IF s = {} THEN 0 ELSE g[y] + h[s \ {y}]
      BY <2>1, <2>2
    <2> QED
      BY <2>3 DEF y
  <1>2. h = [s \in SUBSET E |-> h[s]]
    OBVIOUS
  <1> HIDE DEF h
  <1>3. h = [s \in SUBSET E |->
               IF s = {} THEN 0
               ELSE LET x == CHOOSE x \in s : TRUE IN g[x] + h[s \ {x}]]
    BY <1>1, <1>2
  <1> QED
    BY <1>3 DEF h, Totals

\* There is at most one function that gives the sums.
LEMMA OneTotals ==
  ASSUME NEW D, IsFiniteSet(D), NEW f, NEW i, NEW j, Totals(i, f, D), Totals(j, f, D)
  PROVE  i = j
  <1> DEFINE G == {s \in SUBSET D : i[s] = j[s]}
  <1>1. ASSUME NEW s \in SUBSET D, \A t \in SUBSET s : t # s => t \in G
        PROVE  s \in G
    <2> DEFINE y == CHOOSE x \in s : TRUE
    <2>1. /\ i[s] = IF s = {} THEN 0 ELSE f[y] + i[s \ {y}]
          /\ j[s] = IF s = {} THEN 0 ELSE f[y] + j[s \ {y}]
      BY DEF Totals
    <2>2. s # {} => y \in s
      OBVIOUS
    <2> HIDE DEF y
    <2>3. s # {} => s \ {y} \in G
      BY <1>1, <2>2
    <2> QED
      BY <2>1, <2>3
  <1> HIDE DEF G
  <1>2. \A s \in SUBSET D : s \in G
    BY <1>1, Induct
  <1>3. \A s \in SUBSET D : i[s] = j[s]
    BY <1>2 DEF G
  <1>4. i = [s \in SUBSET D |-> i[s]] /\ j = [s \in SUBSET D |-> j[s]]
    BY DEF Totals
  <1> QED
    BY <1>3, <1>4

\* If there are sums, those of a part are sums of the part.
LEMMA TotalOfPart ==
  ASSUME NEW D, IsFiniteSet(D), NEW f, NEW it, Totals(it, f, D),
         NEW E \in SUBSET D, NEW g, \A x \in E : g[x] = f[x]
  PROVE  it[E] = Total(g, E)
  <1> DEFINE h == [s \in SUBSET E |-> it[s]]
             j == CHOOSE j : Totals(j, g, E)
  <1>1. Totals(h, g, E)
    BY Part
  <1>2. h[E] = it[E]
    OBVIOUS
  <1> HIDE DEF h
  <1>3. Totals(j, g, E)
    BY <1>1
  <1>4. j[E] = Total(g, E)
    BY DEF Total
  <1> HIDE DEF j
  <1>5. h = j
    <2>1. IsFiniteSet(E)
      BY FS_Subset
    <2> QED
      BY <1>1, <1>3, <2>1, OneTotals
  <1> QED
    BY <1>2, <1>4, <1>5

\* There are sums.
LEMMA SomeTotals ==
  ASSUME NEW D, IsFiniteSet(D), NEW f
  PROVE  \E it : Totals(it, f, D)
  <1> DEFINE G == {s \in SUBSET D : \E it : Totals(it, f, s)}
  <1>1. ASSUME NEW s \in SUBSET D, \A t \in SUBSET s : t # s => t \in G
        PROVE  s \in G
    <2> DEFINE y(t) == CHOOSE x \in t : TRUE
               h == [t \in SUBSET s |-> IF t # s THEN Total(f, t)
                                        ELSE IF s = {} THEN 0
                                        ELSE f[y(s)] + Total(f, s \ {y(s)})]
    <2>1. \A t \in SUBSET s : t # {} => y(t) \in t
      OBVIOUS
    <2>2. ASSUME NEW t \in SUBSET s, t # s
          PROVE  Total(f, t) = IF t = {} THEN 0 ELSE f[y(t)] + Total(f, t \ {y(t)})
      <3>1. PICK it : Totals(it, f, t)
        BY <1>1, <2>2
      <3>2. IsFiniteSet(t)
        <4>1. t \in SUBSET D
          OBVIOUS
        <4> QED
          BY <4>1, FS_Subset
      <3>3. it[t] = IF t = {} THEN 0 ELSE f[y(t)] + it[t \ {y(t)}]
        BY <3>1 DEF Totals
      <3> HIDE DEF y
      <3>4. it[t] = Total(f, t) /\ it[t \ {y(t)}] = Total(f, t \ {y(t)})
        BY <3>1, <3>2, TotalOfPart
      <3> QED
        BY <3>3, <3>4
    <2>3. ASSUME NEW t \in SUBSET s
          PROVE  h[t] = IF t = {} THEN 0 ELSE f[y(t)] + h[t \ {y(t)}]
      <3>1. t # {} => t \ {y(t)} \in SUBSET s /\ t \ {y(t)} # s
        BY <2>1
      <3> HIDE DEF y
      <3>2. t # {} => h[t \ {y(t)}] = Total(f, t \ {y(t)})
        BY <3>1
      <3> QED
        BY <2>2, <3>2
    <2>4. h = [t \in SUBSET s |-> h[t]]
      OBVIOUS
    <2> HIDE DEF h
    <2>5. Totals(h, f, s)
      BY <2>3, <2>4 DEF Totals
    <2> QED
      BY <2>5
  <1> HIDE DEF G
  <1>2. \A s \in SUBSET D : s \in G
    BY <1>1, Induct
  <1> QED
    BY <1>2 DEF G

\* A sum over a set is that of a member and that of the others.
LEMMA TotalFirst ==
  ASSUME NEW D, IsFiniteSet(D), NEW f, D # {}
  PROVE  LET y == CHOOSE x \in D : TRUE
         IN  y \in D /\ Total(f, D) = f[y] + Total(f, D \ {y})
  <1> DEFINE y == CHOOSE x \in D : TRUE
  <1>1. PICK it : Totals(it, f, D)
    BY SomeTotals
  <1>2. it[D] = f[y] + it[D \ {y}]
    BY <1>1 DEF Totals
  <1>3. y \in D
    OBVIOUS
  <1> HIDE DEF y
  <1>4. it[D] = Total(f, D) /\ it[D \ {y}] = Total(f, D \ {y})
    BY <1>1, TotalOfPart
  <1>5. Total(f, D) = f[y] + Total(f, D \ {y})
    BY <1>2, <1>4
  <1> QED
    BY <1>3, <1>5 DEF y

\* The empty set adds up to 0.
LEMMA TotalEmpty ==
  ASSUME NEW f
  PROVE  Total(f, {}) = 0
  <1>1. IsFiniteSet({})
    BY FS_EmptySet
  <1>2. PICK it : Totals(it, f, {})
    BY <1>1, SomeTotals
  <1>3. it[{}] = 0
    BY <1>2 DEF Totals
  <1>4. {} \in SUBSET {}
    OBVIOUS
  <1> QED
    BY <1>1, <1>2, <1>3, <1>4, TotalOfPart

\* Functions that are the same on D have the same sum.
LEMMA TotalSame ==
  ASSUME NEW D, IsFiniteSet(D), NEW f, NEW g, \A x \in D : g[x] = f[x]
  PROVE  Total(g, D) = Total(f, D)
  <1>1. PICK it : Totals(it, f, D)
    BY SomeTotals
  <1>2. D \in SUBSET D
    OBVIOUS
  <1>3. it[D] = Total(f, D) /\ it[D] = Total(g, D)
    BY <1>1, <1>2, TotalOfPart
  <1> QED
    BY <1>3

\* Any member may be the first.
LEMMA TotalTakes ==
  ASSUME NEW D, IsFiniteSet(D), NEW f, Naturally(f, D)
  PROVE  /\ Total(f, D) \in Nat
         /\ \A x \in D : Total(f, D) = f[x] + Total(f, D \ {x})
  <1> DEFINE Good(s) == /\ Total(f, s) \in Nat
                        /\ \A x \in s : Total(f, s) = f[x] + Total(f, s \ {x})
             G == {s \in SUBSET D : Good(s)}
  <1>1. ASSUME NEW s \in SUBSET D, \A t \in SUBSET s : t # s => t \in G
        PROVE  s \in G
    <2>1. CASE s = {}
      <3>1. Total(f, s) = 0
        BY <2>1, TotalEmpty
      <3> QED
        BY <2>1, <3>1
    <2>2. CASE s # {}
      <3> DEFINE y == CHOOSE x \in s : TRUE
      <3>1. y \in s /\ Total(f, s) = f[y] + Total(f, s \ {y})
        <4>1. IsFiniteSet(s)
          BY FS_Subset
        <4> QED
          BY <2>2, <4>1, TotalFirst
      <3> HIDE DEF y
      <3>2. \A x \in s : f[x] \in Nat /\ Good(s \ {x})
        <4>1. \A x \in s : s \ {x} \in SUBSET s /\ s \ {x} # s
          OBVIOUS
        <4> QED
          BY <1>1, <4>1 DEF Naturally
      <3>3. Total(f, s) \in Nat
        BY <3>1, <3>2
      <3>4. ASSUME NEW x \in s PROVE Total(f, s) = f[x] + Total(f, s \ {x})
        <4>1. CASE x = y
          BY <3>1, <4>1
        <4>2. CASE x # y
          <5>1. Total(f, s \ {y}) = f[x] + Total(f, (s \ {y}) \ {x})
            BY <3>1, <3>2, <4>2
          <5>2. Total(f, s \ {x}) = f[y] + Total(f, (s \ {x}) \ {y})
            BY <3>1, <3>2, <4>2
          <5>3. (s \ {y}) \ {x} = (s \ {x}) \ {y}
            OBVIOUS
          <5>4. Total(f, (s \ {x}) \ {y}) \in Nat
            <6>1. /\ (s \ {x}) \ {y} \in SUBSET s
                  /\ (s \ {x}) \ {y} # s
              BY <3>1
            <6> QED
              BY <1>1, <6>1
          <5> HIDE DEF Good, G
          <5>5. f[x] \in Nat /\ f[y] \in Nat
            BY <3>1, <3>2
          <5> DEFINE r == Total(f, (s \ {x}) \ {y})
                     p == f[x]
                     q == f[y]
          <5>6. /\ Total(f, s) = q + Total(f, s \ {y})
                /\ Total(f, s \ {y}) = p + r /\ Total(f, s \ {x}) = q + r
                /\ p \in Nat /\ q \in Nat /\ r \in Nat
            BY <3>1, <5>1, <5>2, <5>3, <5>4, <5>5
          <5> HIDE DEF p, q, r
          <5>7. Total(f, s) = p + Total(f, s \ {x})
            BY <5>6
          <5> QED
            BY <5>7 DEF p
        <4> QED
          BY <4>1, <4>2
      <3> QED
        BY <3>3, <3>4
    <2> QED
      BY <2>1, <2>2
  <1> HIDE DEF G, Good
  <1>2. \A s \in SUBSET D : s \in G
    BY <1>1, Induct
  <1>3. D \in SUBSET D
    OBVIOUS
  <1>4. Good(D)
    BY <1>2, <1>3 DEF G
  <1> QED
    BY <1>4 DEF Good

\* One member more.
LEMMA TotalAdds ==
  ASSUME NEW D, IsFiniteSet(D), NEW x, x \notin D, NEW f, Naturally(f, D \cup {x})
  PROVE  Total(f, D \cup {x}) = f[x] + Total(f, D)
  <1>1. IsFiniteSet(D \cup {x})
    BY FS_AddElement
  <1>2. (D \cup {x}) \ {x} = D
    OBVIOUS
  <1> QED
    BY <1>1, <1>2, TotalTakes

\* One value more.
LEMMA TotalRaised ==
  ASSUME NEW D, IsFiniteSet(D), NEW x \in D, NEW f, NEW g, NEW a \in Nat,
         Naturally(f, D), g[x] = f[x] + a, \A y \in D : y # x => g[y] = f[y]
  PROVE  Total(g, D) = Total(f, D) + a
  <1>1. f[x] \in Nat /\ Naturally(g, D)
    BY DEF Naturally
  <1>2. /\ Total(f, D) = f[x] + Total(f, D \ {x})
        /\ Total(g, D) = g[x] + Total(g, D \ {x})
    BY <1>1, TotalTakes
  <1>3. IsFiniteSet(D \ {x})
    BY FS_RemoveElement
  <1>4. Total(g, D \ {x}) = Total(f, D \ {x}) /\ Total(f, D \ {x}) \in Nat
    <2>1. \A y \in D \ {x} : g[y] = f[y]
      OBVIOUS
    <2>2. Naturally(f, D \ {x})
      BY DEF Naturally
    <2> QED
      BY <1>3, <2>1, <2>2, TotalSame, TotalTakes
  <1> QED
    BY <1>1, <1>2, <1>4

\* A sum of values that weigh between lo and hi.
LEMMA TotalBounds ==
  ASSUME NEW D, IsFiniteSet(D), NEW f, NEW w, Naturally(f, D), Naturally(w, D),
         NEW lo \in Nat, NEW hi \in Nat,
         \A x \in D : lo * w[x] <= f[x] /\ f[x] <= hi * w[x]
  PROVE  lo * Total(w, D) <= Total(f, D) /\ Total(f, D) <= hi * Total(w, D)
  <1> DEFINE Good(s) == lo * Total(w, s) <= Total(f, s) /\ Total(f, s) <= hi * Total(w, s)
             G == {s \in SUBSET D : Good(s)}
  <1>1. ASSUME NEW s \in SUBSET D, \A t \in SUBSET s : t # s => t \in G
        PROVE  s \in G
    <2>1. CASE s = {}
      <3>1. Total(f, s) = 0 /\ Total(w, s) = 0
        BY <2>1, TotalEmpty
      <3> QED
        BY <3>1
    <2>2. CASE s # {}
      <3>1. PICK y \in s : TRUE
        BY <2>2
      <3>2. IsFiniteSet(s) /\ IsFiniteSet(s \ {y})
        BY FS_Subset
      <3>3. /\ Naturally(f, s) /\ Naturally(w, s)
            /\ Naturally(f, s \ {y}) /\ Naturally(w, s \ {y})
        BY DEF Naturally
      <3>4. /\ Total(f, s) = f[y] + Total(f, s \ {y})
            /\ Total(w, s) = w[y] + Total(w, s \ {y})
            /\ Total(f, s \ {y}) \in Nat /\ Total(w, s \ {y}) \in Nat
        BY <3>2, <3>3, TotalTakes
      <3>5. Good(s \ {y})
        <4>1. s \ {y} \in SUBSET s /\ s \ {y} # s
          OBVIOUS
        <4> QED
          BY <1>1, <4>1
      <3> DEFINE p == f[y]
                 q == w[y]
                 F == Total(f, s \ {y})
                 W == Total(w, s \ {y})
      <3>6. /\ p \in Nat /\ q \in Nat /\ F \in Nat /\ W \in Nat
            /\ lo * q <= p /\ p <= hi * q /\ lo * W <= F /\ F <= hi * W
        BY <3>3, <3>4, <3>5 DEF Naturally
      <3>7. Total(f, s) = p + F /\ Total(w, s) = q + W
        BY <3>4
      <3> HIDE DEF p, q, F, W
      <3>8. lo * (q + W) = lo * q + lo * W /\ hi * (q + W) = hi * q + hi * W
        BY <3>6
      <3>9. lo * (q + W) <= p + F /\ p + F <= hi * (q + W)
        BY <3>6, <3>8
      <3> QED
        BY <3>7, <3>9
    <2> QED
      BY <2>1, <2>2
  <1> HIDE DEF G, Good
  <1>2. \A s \in SUBSET D : s \in G
    BY <1>1, Induct
  <1>3. D \in SUBSET D
    OBVIOUS
  <1>4. Good(D)
    BY <1>2, <1>3 DEF G
  <1> QED
    BY <1>4 DEF Good

\* A sum of ones counts.
LEMMA TotalOnes ==
  ASSUME NEW D, IsFiniteSet(D), NEW w, \A x \in D : w[x] = 1
  PROVE  Total(w, D) = Cardinality(D)
  <1> DEFINE G == {s \in SUBSET D : Total(w, s) = Cardinality(s)}
  <1>1. ASSUME NEW s \in SUBSET D, \A t \in SUBSET s : t # s => t \in G
        PROVE  s \in G
    <2>1. CASE s = {}
      BY <2>1, TotalEmpty, FS_EmptySet
    <2>2. CASE s # {}
      <3>1. PICK y \in s : TRUE
        BY <2>2
      <3>2. IsFiniteSet(s) /\ Naturally(w, s)
        BY FS_Subset DEF Naturally
      <3>3. Total(w, s) = w[y] + Total(w, s \ {y})
        BY <3>2, TotalTakes
      <3>4. Cardinality(s \ {y}) = Cardinality(s) - 1 /\ Cardinality(s) \in Nat
        BY <3>2, FS_RemoveElement, FS_CardinalityType
      <3>5. Total(w, s \ {y}) = Cardinality(s \ {y})
        <4>1. s \ {y} \in SUBSET s /\ s \ {y} # s
          OBVIOUS
        <4> QED
          BY <1>1, <4>1
      <3>6. w[y] = 1
        OBVIOUS
      <3> HIDE DEF G
      <3>7. Total(w, s) = Cardinality(s)
        BY <3>3, <3>4, <3>5, <3>6
      <3> QED
        BY <3>7 DEF G
    <2> QED
      BY <2>1, <2>2
  <1> HIDE DEF G
  <1>2. \A s \in SUBSET D : s \in G
    BY <1>1, Induct
  <1>3. D \in SUBSET D
    OBVIOUS
  <1> QED
    BY <1>2, <1>3 DEF G

\* A quotient of a sum by its weight is between them too.
LEMMA Quotient ==
  ASSUME NEW a \in Nat, NEW n \in Nat \ {0}, NEW lo \in Nat, NEW hi \in Nat,
         lo * n <= a, a <= hi * n
  PROVE  lo <= a \div n /\ a \div n <= hi /\ a \div n \in Nat
  OBVIOUS

\* A finite set of naturals has a least and a greatest.
LEMMA Extremes ==
  ASSUME NEW D \in SUBSET Nat, IsFiniteSet(D), D # {}
  PROVE  \E lo, hi \in D : \A x \in D : lo <= x /\ x <= hi
  <1> DEFINE Good(s) == s # {} => \E lo, hi \in s : \A x \in s : lo <= x /\ x <= hi
             G == {s \in SUBSET D : Good(s)}
  <1>1. ASSUME NEW s \in SUBSET D, \A t \in SUBSET s : t # s => t \in G
        PROVE  s \in G
    <2>1. CASE s = {}
      BY <2>1
    <2>2. CASE s # {}
      <3>1. PICK y \in s : TRUE
        BY <2>2
      <3>2. Good(s \ {y})
        <4>1. s \ {y} \in SUBSET s /\ s \ {y} # s
          OBVIOUS
        <4> QED
          BY <1>1, <4>1
      <3>3. CASE s \ {y} = {}
        <4>1. s = {y} /\ y \in Nat
          BY <3>1, <3>3
        <4> QED
          BY <4>1
      <3>4. CASE s \ {y} # {}
        <4>1. PICK lo \in s \ {y}, hi \in s \ {y} :
                 \A x \in s \ {y} : lo <= x /\ x <= hi
          BY <3>2, <3>4
        <4>2. lo \in Nat /\ hi \in Nat /\ y \in Nat
          BY <3>1, <4>1
        <4> DEFINE a == IF y < lo THEN y ELSE lo
                   b == IF hi < y THEN y ELSE hi
        <4>3. /\ a \in s /\ b \in s /\ a <= y /\ y <= b /\ a <= lo /\ hi <= b
              /\ a \in Nat /\ b \in Nat
          BY <3>1, <4>1, <4>2
        <4> HIDE DEF a, b
        <4>4. ASSUME NEW x \in s PROVE a <= x /\ x <= b
          <5>1. CASE x = y
            BY <4>3, <5>1
          <5>2. CASE x # y
            <6>1. lo <= x /\ x <= hi /\ x \in Nat
              BY <4>1, <5>2
            <6> QED
              BY <4>2, <4>3, <6>1
          <5> QED
            BY <5>1, <5>2
        <4> QED
          BY <4>3, <4>4
      <3> QED
        BY <3>3, <3>4
    <2> QED
      BY <2>1, <2>2
  <1> HIDE DEF G, Good
  <1>2. \A s \in SUBSET D : s \in G
    BY <1>1, Induct
  <1>3. D \in SUBSET D
    OBVIOUS
  <1>4. Good(D)
    BY <1>2, <1>3 DEF G
  <1> QED
    BY <1>4 DEF Good

\* The sum of a sequence, and of the values of a table that counts weighted by
\* their counts.
Sum(l) == Total(l, DOMAIN l)
Weights(f) == [x \in DOMAIN f |-> x * f[x]]

\* A sequence with a value more has a sum larger by that value.
LEMMA SumGrows ==
  ASSUME NEW l \in Seq(Nat), NEW x \in Nat
  PROVE  Sum(l) \in Nat /\ Sum(Append(l, x)) = Sum(l) + x
  <1> DEFINE m == Append(l, x)
             k == Len(l)
  <1>1. /\ k \in Nat /\ DOMAIN l = 1 .. k /\ DOMAIN m = 1 .. k + 1
        /\ m[k + 1] = x /\ (\A i \in 1 .. k : m[i] = l[i] /\ l[i] \in Nat)
    OBVIOUS
  <1>2. 1 .. k + 1 = (1 .. k) \cup {k + 1} /\ k + 1 \notin 1 .. k
    BY <1>1
  <1>3. IsFiniteSet(1 .. k)
    BY <1>1, FS_Interval
  <1> HIDE DEF m, k
  <1>4. Naturally(l, 1 .. k) /\ Naturally(m, (1 .. k) \cup {k + 1})
    BY <1>1, <1>2 DEF Naturally
  <1>5. Total(l, 1 .. k) \in Nat
    BY <1>3, <1>4, TotalTakes
  <1>6. Total(m, (1 .. k) \cup {k + 1}) = m[k + 1] + Total(l, 1 .. k)
    <2>1. \A i \in 1 .. k : l[i] = m[i]
      BY <1>1
    <2>2. Total(l, 1 .. k) = Total(m, 1 .. k)
      BY <1>3, <2>1, TotalSame
    <2>3. Total(m, (1 .. k) \cup {k + 1}) = m[k + 1] + Total(m, 1 .. k)
      BY <1>2, <1>3, <1>4, TotalAdds
    <2> QED
      BY <2>2, <2>3
  <1>7. Sum(l) = Total(l, 1 .. k) /\ Sum(m) = Total(m, (1 .. k) \cup {k + 1})
    BY <1>1, <1>2 DEF Sum
  <1>8. Sum(m) = Sum(l) + x
    BY <1>1, <1>5, <1>6, <1>7
  <1> QED
    BY <1>5, <1>7, <1>8 DEF m

\* A table that counts a sequence is finite, and counts what is there.
LEMMA CountsAre ==
  ASSUME NEW S, NEW l \in Seq(S), NEW f, CountsSymbols(f, l)
  PROVE  /\ IsFiniteSet(DOMAIN f) /\ DOMAIN f \subseteq S
         /\ \A x \in DOMAIN f : f[x] \in Nat \ {0}
  <1>1. IsFiniteSet(DOMAIN l)
    <2>1. DOMAIN l = 1 .. Len(l) /\ Len(l) \in Nat
      OBVIOUS
    <2> QED
      BY <2>1, FS_Interval
  <1>2. DOMAIN f = {l[i] : i \in DOMAIN l} /\ DOMAIN f \subseteq S
    BY DEF CountsSymbols
  <1>3. l \in Surjection(DOMAIN l, DOMAIN f)
    BY <1>2 DEF Surjection
  <1>4. IsFiniteSet(DOMAIN f)
    BY <1>1, <1>3, FS_Surjection
  <1>5. ASSUME NEW x \in DOMAIN f PROVE f[x] \in Nat \ {0}
    <2>1. f[x] = Cardinality(Places(l, x)) /\ Places(l, x) \subseteq DOMAIN l
      BY DEF CountsSymbols, Places
    <2>2. IsFiniteSet(Places(l, x))
      BY <1>1, <2>1, FS_Subset
    <2>3. Places(l, x) # {}
      BY <1>2 DEF Places
    <2> QED
      BY <2>1, <2>2, <2>3, FS_CardinalityType, FS_EmptySet
  <1> QED
    BY <1>2, <1>4, <1>5

\* A table that is counted in once more.
LEMMA WeightsGrow ==
  ASSUME NEW f, NEW g, NEW x \in Nat, CountedIn(g, f, x), IsFiniteSet(DOMAIN f),
         DOMAIN f \subseteq Nat, \A y \in DOMAIN f : f[y] \in Nat
  PROVE  Total(Weights(g), DOMAIN g) = Total(Weights(f), DOMAIN f) + x
  <1> DEFINE D == DOMAIN f
             u == Weights(f)
             v == Weights(g)
  <1>1. /\ DOMAIN g = D \cup {x}
        /\ g[x] = IF x \in D THEN f[x] + 1 ELSE 1
        /\ \A y \in D : y # x => g[y] = f[y]
    BY DEF CountedIn
  <1>2. \A y \in D : u[y] = y * f[y] /\ y \in Nat /\ f[y] \in Nat /\ u[y] \in Nat
    BY DEF Weights
  <1>3. \A y \in D \cup {x} : v[y] = y * g[y]
    BY <1>1 DEF Weights
  <1> HIDE DEF u, v
  <1>4. \A y \in D : y # x => v[y] = u[y]
    BY <1>1, <1>2, <1>3
  <1>5. Naturally(u, D)
    BY <1>2 DEF Naturally
  <1>6. CASE x \in D
    <2>1. v[x] = x * (f[x] + 1) /\ u[x] = x * f[x] /\ f[x] \in Nat
      BY <1>1, <1>2, <1>3, <1>6
    <2> DEFINE n == f[x]
    <2>2. x * (n + 1) = x * n + x
      BY <2>1
    <2>3. v[x] = u[x] + x
      BY <2>1, <2>2
    <2>4. Total(v, D) = Total(u, D) + x
      BY <1>4, <1>5, <1>6, <2>3, TotalRaised
    <2>5. DOMAIN g = D
      BY <1>1, <1>6
    <2> QED
      BY <2>4, <2>5 DEF u, v
  <1>7. CASE x \notin D
    <2>1. v[x] = x
      BY <1>1, <1>3, <1>7
    <2>2. \A y \in D : u[y] = v[y]
      BY <1>4, <1>7
    <2>3. Naturally(v, D \cup {x})
      BY <1>2, <2>1, <2>2 DEF Naturally
    <2>4. Total(v, D \cup {x}) = v[x] + Total(u, D) /\ Total(u, D) \in Nat
      <3>1. Total(v, D \cup {x}) = v[x] + Total(v, D)
        BY <1>7, <2>3, TotalAdds
      <3>2. Total(u, D) = Total(v, D)
        BY <2>2, TotalSame
      <3>3. Total(u, D) \in Nat
        BY <1>5, TotalTakes
      <3> QED
        BY <3>1, <3>2, <3>3
    <2>5. Total(v, D \cup {x}) = Total(u, D) + x
      BY <2>1, <2>4
    <2> QED
      BY <1>1, <2>5 DEF u, v
  <1> QED
    BY <1>6, <1>7

\* So are its counts.
LEMMA CountsGrow ==
  ASSUME NEW f, NEW g, NEW x, CountedIn(g, f, x), IsFiniteSet(DOMAIN f),
         \A y \in DOMAIN f : f[y] \in Nat
  PROVE  Total(g, DOMAIN g) = Total(f, DOMAIN f) + 1
  <1> DEFINE D == DOMAIN f
  <1>1. /\ DOMAIN g = D \cup {x}
        /\ g[x] = IF x \in D THEN f[x] + 1 ELSE 1
        /\ \A y \in D : y # x => g[y] = f[y]
    BY DEF CountedIn
  <1>2. Naturally(f, D)
    BY DEF Naturally
  <1> HIDE DEF D
  <1>3. IsFiniteSet(D)
    BY DEF D
  <1>4. CASE x \in D
    <2>1. DOMAIN g = D /\ g[x] = f[x] + 1
      BY <1>1, <1>4
    <2>2. Total(g, D) = Total(f, D) + 1
      BY <1>1, <1>2, <1>3, <1>4, <2>1, TotalRaised
    <2> QED
      BY <2>1, <2>2 DEF D
  <1>5. CASE x \notin D
    <2>1. g[x] = 1 /\ \A y \in D : f[y] = g[y]
      BY <1>1, <1>5
    <2>2. Naturally(g, D \cup {x})
      BY <1>2, <2>1 DEF Naturally
    <2>3. Total(g, D \cup {x}) = g[x] + Total(g, D)
      BY <1>3, <1>5, <2>2, TotalAdds
    <2>4. Total(f, D) = Total(g, D) /\ Total(f, D) \in Nat
      BY <1>2, <1>3, <2>1, TotalSame, TotalTakes
    <2> QED
      BY <1>1, <2>1, <2>3, <2>4 DEF D
  <1> QED
    BY <1>4, <1>5

\* Weighted by how often they occur, the values of a sequence add up to its sum.
LEMMA CountedSum ==
  ASSUME NEW l \in Seq(Nat), NEW f, CountsSymbols(f, l)
  PROVE  Total(Weights(f), DOMAIN f) = Sum(l)
  <1> DEFINE Good(n) == \A m \in Seq(Nat) : Len(m) = n =>
               \A h : CountsSymbols(h, m) => Total(Weights(h), DOMAIN h) = Sum(m)
             G == {s \in SUBSET (1 .. Len(l)) : Good(Cardinality(s))}
  <1>1. ASSUME NEW s \in SUBSET (1 .. Len(l)), \A t \in SUBSET s : t # s => t \in G
        PROVE  s \in G
    <2> SUFFICES ASSUME NEW m \in Seq(Nat), Len(m) = Cardinality(s), NEW h,
                        CountsSymbols(h, m)
                 PROVE  Total(Weights(h), DOMAIN h) = Sum(m)
      OBVIOUS
    <2>1. IsFiniteSet(s)
      <3>1. IsFiniteSet(1 .. Len(l))
        BY FS_Interval
      <3> QED
        BY <3>1, FS_Subset
    <2>2. CASE s = {}
      <3>1. Len(m) = 0
        BY <2>2, FS_EmptySet
      <3>2. DOMAIN m = {}
        BY <3>1
      <3>3. DOMAIN h = {}
        BY <3>2 DEF CountsSymbols
      <3> QED
        BY <3>2, <3>3, TotalEmpty DEF Sum
    <2>3. CASE s # {}
      <3>1. PICK y \in s : TRUE
        BY <2>3
      <3>2. Cardinality(s \ {y}) = Cardinality(s) - 1 /\ Cardinality(s) \in Nat
        BY <2>1, <3>1, FS_RemoveElement, FS_CardinalityType
      <3>3. Cardinality(s) # 0
        BY <2>1, <2>3, FS_EmptySet
      <3> DEFINE k == Len(m) - 1
                 x == m[Len(m)]
                 p == [i \in 1 .. k |-> m[i]]
                 e == [a \in {p[i] : i \in DOMAIN p} |-> Cardinality(Places(p, a))]
      <3>4. k \in Nat /\ Len(m) = k + 1 /\ x \in Nat /\ p \in Seq(Nat) /\ Len(p) = k
        <4> HIDE DEF Good, G
        <4>1. k \in Nat /\ Len(m) = k + 1
          <5>1. Len(m) \in Nat /\ Len(m) # 0
            BY <3>2, <3>3
          <5> QED
            BY <5>1
        <4>2. x \in Nat /\ \A i \in 1 .. k : m[i] \in Nat
          BY <4>1
        <4> HIDE DEF k, x
        <4> QED
          BY <4>1, <4>2
      <3>5. m = Append(p, x)
        <4>1. Append(p, x) \in Seq(Nat) /\ Len(Append(p, x)) = k + 1
          <5> HIDE DEF Good, G, p, x, k, e
          <5> QED
            BY <3>4
        <4>2. \A i \in 1 .. k + 1 : m[i] = Append(p, x)[i]
          <5>1. \A i \in 1 .. k : Append(p, x)[i] = m[i]
            BY <3>4
          <5>2. Append(p, x)[k + 1] = x /\ m[k + 1] = x
            BY <3>4
          <5> HIDE DEF p, x, k
          <5> QED
            BY <3>4, <5>1, <5>2
        <4> HIDE DEF p, x, k
        <4> QED
          BY <3>4, <4>1, <4>2
      <3>6. Good(k)
        <4>1. s \ {y} \in SUBSET s /\ s \ {y} # s
          BY <3>1
        <4>2. Good(Cardinality(s \ {y}))
          BY <1>1, <4>1
        <4>3. Cardinality(s \ {y}) = k
          BY <3>2
        <4> QED
          BY <4>2, <4>3
      <3> HIDE DEF p, k, x
      <3>7. CountsSymbols(e, p)
        BY DEF CountsSymbols
      <3>8. CountedIn(h, e, x)
        <4>1. DOMAIN h = {m[i] : i \in DOMAIN m} /\ DOMAIN e = {p[i] : i \in DOMAIN p}
          BY DEF CountsSymbols
        <4>2. /\ DOMAIN m = DOMAIN p \cup {k + 1} /\ m[k + 1] = x
              /\ \A i \in DOMAIN p : m[i] = p[i]
          BY <3>4, <3>5
        <4>3. DOMAIN h = DOMAIN e \cup {x}
          BY <4>1, <4>2
        <4>4. \A a : Places(m, a) = IF a = x THEN Places(p, a) \cup {k + 1}
                                    ELSE Places(p, a)
          BY <3>4, <3>5, PlacesGrow
        <4>5. \A a \in DOMAIN h : h[a] = Cardinality(Places(m, a))
          BY DEF CountsSymbols
        <4>6. \A a \in DOMAIN e : e[a] = Cardinality(Places(p, a))
          OBVIOUS
        <4> HIDE DEF e
        <4>7. Places(p, x) \subseteq 1 .. k
          BY <3>4 DEF Places
        <4>8. x \notin DOMAIN e => Places(p, x) = {}
          BY <4>1 DEF Places
        <4>9. h[x] = IF x \in DOMAIN e THEN e[x] + 1 ELSE 1
          <5>1. h[x] = Cardinality(Places(p, x) \cup {k + 1})
            BY <4>3, <4>4, <4>5
          <5>2. x \in DOMAIN e => e[x] = Cardinality(Places(p, x))
            BY <4>6
          <5>3. /\ Cardinality(Places(p, x) \cup {k + 1}) = Cardinality(Places(p, x)) + 1
                /\ Places(p, x) = {} => Cardinality(Places(p, x) \cup {k + 1}) = 1
            BY <3>4, <4>7, OneMore
          <5> QED
            BY <4>8, <5>1, <5>2, <5>3
        <4>10. \A a \in DOMAIN e : a # x => h[a] = e[a]
          BY <4>3, <4>4, <4>5, <4>6
        <4> QED
          BY <4>3, <4>9, <4>10 DEF CountedIn
      <3> HIDE DEF e
      <3>9. Total(Weights(e), DOMAIN e) = Sum(p)
        BY <3>4, <3>6, <3>7
      <3>10. /\ IsFiniteSet(DOMAIN e) /\ DOMAIN e \subseteq Nat
             /\ \A a \in DOMAIN e : e[a] \in Nat
        BY <3>4, <3>7, CountsAre
      <3>11. Total(Weights(h), DOMAIN h) = Total(Weights(e), DOMAIN e) + x
        BY <3>4, <3>8, <3>10, WeightsGrow
      <3>12. Sum(m) = Sum(p) + x
        BY <3>4, <3>5, SumGrows
      <3> QED
        BY <3>9, <3>11, <3>12
    <2> QED
      BY <2>2, <2>3
  <1>2. IsFiniteSet(1 .. Len(l)) /\ Cardinality(1 .. Len(l)) = Len(l)
    <2>1. ASSUME NEW n \in Nat PROVE IsFiniteSet(1 .. n) /\ Cardinality(1 .. n) = n
      BY FS_Interval
    <2> QED
      BY <2>1
  <1> HIDE DEF G, Good
  <1>3. \A s \in SUBSET (1 .. Len(l)) : s \in G
    BY <1>1, <1>2, Induct
  <1>4. Good(Len(l))
    BY <1>2, <1>3 DEF G
  <1> QED
    BY <1>4 DEF Good

\* The sum of a sequence is between its length times the least and times the
\* greatest value; above the former if one value is, below the latter likewise.
LEMMA SumBounds ==
  ASSUME NEW l \in Seq(Nat), NEW lo \in Nat, NEW hi \in Nat,
         \A i \in DOMAIN l : lo <= l[i] /\ l[i] <= hi
  PROVE  /\ lo * Len(l) <= Sum(l) /\ Sum(l) <= hi * Len(l)
         /\ (\E i \in DOMAIN l : lo < l[i]) => lo * Len(l) < Sum(l)
         /\ (\E i \in DOMAIN l : l[i] < hi) => Sum(l) < hi * Len(l)
  <1> DEFINE D == DOMAIN l
             w == [i \in D |-> 1]
             k == Len(l)
  <1>1. k \in Nat /\ D = 1 .. k /\ \A i \in D : l[i] \in Nat
    OBVIOUS
  <1>2. IsFiniteSet(D) /\ Cardinality(D) = k
    <2>1. ASSUME NEW n \in Nat PROVE IsFiniteSet(1 .. n) /\ Cardinality(1 .. n) = n
      BY FS_Interval
    <2> QED
      BY <1>1, <2>1
  <1> HIDE DEF D, k
  <1>3. ASSUME NEW E \in SUBSET D
        PROVE  /\ lo * Cardinality(E) <= Total(l, E)
               /\ Total(l, E) <= hi * Cardinality(E)
               /\ Total(l, E) \in Nat
    <2>1. IsFiniteSet(E)
      BY <1>2, FS_Subset
    <2>2. Naturally(l, E) /\ Naturally(w, E)
      BY <1>1 DEF Naturally
    <2>3. Total(w, E) = Cardinality(E)
      BY <2>1, TotalOnes
    <2>4. \A i \in E : lo * w[i] <= l[i] /\ l[i] <= hi * w[i]
      <3>1. \A i \in E : w[i] = 1 /\ lo <= l[i] /\ l[i] <= hi
        BY DEF D
      <3> HIDE DEF w
      <3> QED
        BY <3>1
    <2> HIDE DEF w
    <2> QED
      BY <2>1, <2>2, <2>3, <2>4, TotalBounds, TotalTakes
  <1>4. lo * k <= Sum(l) /\ Sum(l) <= hi * k
    <2>1. D \in SUBSET D
      OBVIOUS
    <2> QED
      BY <1>2, <1>3, <2>1 DEF Sum, D
  <1>5. ASSUME NEW i \in D, lo < l[i] PROVE lo * k < Sum(l)
    <2>1. Sum(l) = l[i] + Total(l, D \ {i})
      <3>1. Naturally(l, D)
        BY <1>1 DEF Naturally
      <3> QED
        BY <1>2, <3>1, TotalTakes DEF Sum, D
    <2>2. Cardinality(D \ {i}) = k - 1
      BY <1>2, FS_RemoveElement
    <2> DEFINE t == Total(l, D \ {i})
               j == k - 1
               y == l[i]
    <2>3. lo * j <= t /\ t \in Nat /\ y \in Nat
      <3>1. D \ {i} \in SUBSET D
        OBVIOUS
      <3> QED
        BY <1>1, <1>3, <2>2, <3>1
    <2>4. Sum(l) = y + t /\ lo < y /\ k = j + 1 /\ j \in Nat
      BY <1>1, <1>5, <2>1
    <2> HIDE DEF t, j, y
    <2>5. lo * (j + 1) = lo * j + lo
      BY <2>4
    <2> QED
      BY <2>3, <2>4, <2>5
  <1>6. ASSUME NEW i \in D, l[i] < hi PROVE Sum(l) < hi * k
    <2>1. Sum(l) = l[i] + Total(l, D \ {i})
      <3>1. Naturally(l, D)
        BY <1>1 DEF Naturally
      <3> QED
        BY <1>2, <3>1, TotalTakes DEF Sum, D
    <2>2. Cardinality(D \ {i}) = k - 1
      BY <1>2, FS_RemoveElement
    <2> DEFINE t == Total(l, D \ {i})
               j == k - 1
               y == l[i]
    <2>3. t <= hi * j /\ t \in Nat /\ y \in Nat
      <3>1. D \ {i} \in SUBSET D
        OBVIOUS
      <3> QED
        BY <1>1, <1>3, <2>2, <3>1
    <2>4. Sum(l) = y + t /\ y < hi /\ k = j + 1 /\ j \in Nat
      BY <1>1, <1>6, <2>1
    <2> HIDE DEF t, j, y
    <2>5. hi * (j + 1) = hi * j + hi
      BY <2>4
    <2> QED
      BY <2>3, <2>4, <2>5
  <1> QED
    BY <1>4, <1>5, <1>6 DEF D, k

\* A sum that lies strictly between two multiples of the number of values may be
\* off by one and still has its quotient between the two.
LEMMA Rounded ==
  ASSUME NEW a \in Nat, NEW n \in Nat \ {0}, NEW lo \in Nat, NEW hi \in Nat,
         lo * n < a, a < hi * n, NEW x \in a - 1 .. a + 1
  PROVE  x \div n \in Nat /\ lo <= x \div n /\ x \div n <= hi
  <1>1. lo * n \in Nat /\ hi * n \in Nat
    OBVIOUS
  <1>2. x \in Nat /\ lo * n <= x /\ x <= hi * n
    BY <1>1
  <1> QED
    BY <1>2, Quotient

\* A mean of values, each weighted by its count, is among them.
LEMMA WeightedMean ==
  ASSUME NEW occ, NEW T \in SUBSET DOMAIN occ, IsFiniteSet(T), T # {},
         DOMAIN occ \subseteq Nat, \A v \in DOMAIN occ : occ[v] \in Nat \ {0},
         NEW lo \in Nat, NEW hi \in Nat, \A v \in T : lo <= v /\ v <= hi
  PROVE  /\ lo <= Total(Weights(occ), T) \div Total(occ, T)
         /\ Total(Weights(occ), T) \div Total(occ, T) <= hi
         /\ Total(Weights(occ), T) \div Total(occ, T) \in Nat
         /\ lo * Total(occ, T) <= Total(Weights(occ), T)
         /\ Total(Weights(occ), T) <= hi * Total(occ, T)
         /\ Total(occ, T) \in Nat \ {0} /\ Total(Weights(occ), T) \in Nat
  <1> DEFINE a == Total(Weights(occ), T)
             n == Total(occ, T)
  <1> HIDE DEF a, n
  <1>1. \A v \in T : /\ Weights(occ)[v] = v * occ[v] /\ v \in Nat /\ occ[v] \in Nat
                    /\ lo <= v /\ v <= hi
    BY DEF Weights
  <1>2. \A v \in T : lo * occ[v] <= Weights(occ)[v] /\ Weights(occ)[v] <= hi * occ[v]
    <2>1. ASSUME NEW x \in Nat, NEW y \in Nat, NEW z \in Nat, x <= y
          PROVE  x * z <= y * z
      BY <2>1
    <2> QED
      BY <1>1, <2>1
  <1>3. Naturally(Weights(occ), T) /\ Naturally(occ, T)
    <2>1. \A v \in T : v * occ[v] \in Nat
      BY <1>1
    <2> QED
      BY <1>1, <2>1 DEF Naturally
  <1>4. a \in Nat /\ n \in Nat \ {0}
    <2>1. a \in Nat /\ n \in Nat
      BY <1>3, TotalTakes DEF a, n
    <2>2. PICK v \in T : TRUE
      OBVIOUS
    <2>3. n = occ[v] + Total(occ, T \ {v})
      BY <1>3, TotalTakes DEF n
    <2>4. Total(occ, T \ {v}) \in Nat
      <3>1. IsFiniteSet(T \ {v}) /\ Naturally(occ, T \ {v})
        BY <1>3, FS_RemoveElement DEF Naturally
      <3> QED
        BY <3>1, TotalTakes
    <2>5. occ[v] \in Nat \ {0}
      OBVIOUS
    <2> QED
      BY <2>1, <2>3, <2>4, <2>5
  <1>5. lo * n <= a /\ a <= hi * n
    BY <1>2, <1>3, TotalBounds DEF a, n
  <1>6. lo <= a \div n /\ a \div n <= hi /\ a \div n \in Nat
    BY <1>4, <1>5, Quotient
  <1> QED
    BY <1>4, <1>5, <1>6 DEF a, n

\* The sum of values weighted by their counts, as the library makes it.
LEMMA WeightedTotal ==
  ASSUME NEW f, NEW D \in SUBSET DOMAIN f, IsFiniteSet(D)
  PROVE  (CHOOSE it : it = [s \in SUBSET D |->
                               IF s = {} THEN 0
                               ELSE LET x == CHOOSE x \in s : TRUE
                                    IN  x * f[x] + it[s \ {x}]])[D]
           = Total(Weights(f), D)
  <1> DEFINE Adds(it) ==
               it = [s \in SUBSET D |->
                       IF s = {} THEN 0
                       ELSE LET x == CHOOSE x \in s : TRUE
                            IN  x * f[x] + it[s \ {x}]]
             c == CHOOSE it : Adds(it)
  <1>1. ASSUME NEW it PROVE Adds(it) <=> Totals(it, Weights(f), D)
    <2>1. ASSUME NEW s \in SUBSET D, s # {}
          PROVE  LET x == CHOOSE x \in s : TRUE IN Weights(f)[x] = x * f[x]
      <3> DEFINE y == CHOOSE x \in s : TRUE
      <3>1. y \in s
        BY <2>1
      <3>2. y \in DOMAIN f
        BY <3>1
      <3> HIDE DEF y
      <3>3. Weights(f)[y] = y * f[y]
        BY <3>2 DEF Weights
      <3> QED
        BY <3>3 DEF y
    <2>2. [s \in SUBSET D |->
             IF s = {} THEN 0
             ELSE LET x == CHOOSE x \in s : TRUE IN x * f[x] + it[s \ {x}]]
          = [s \in SUBSET D |->
               IF s = {} THEN 0
               ELSE LET x == CHOOSE x \in s : TRUE
                    IN  Weights(f)[x] + it[s \ {x}]]
      BY <2>1
    <2> QED
      BY <2>2 DEF Totals
  <1> HIDE DEF Adds
  <1>2. Adds(c)
    <2>1. PICK it : Totals(it, Weights(f), D)
      BY SomeTotals
    <2>2. Adds(it)
      BY <1>1, <2>1
    <2> QED
      BY <2>2
  <1>3. Totals(c, Weights(f), D)
    BY <1>1, <1>2
  <1> HIDE DEF c
  <1>4. c[D] = Total(Weights(f), D)
    <2>1. D \in SUBSET D
      OBVIOUS
    <2> QED
      BY <1>3, <2>1, TotalOfPart
  <1> QED
    BY <1>4 DEF c, Adds

===============================================================================
