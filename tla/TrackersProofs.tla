---------------------------- MODULE TrackersProofs ----------------------------
(***************************************************************************)
(* Proofs about trackers, for any number of trackers and representations,  *)
(* any values and any limits.                                              *)
(*                                                                         *)
(* The counts of shared representations are exact, whatever these hold.  A *)
(* tracker that is not constructed points nowhere, so every operation is,  *)
(* for the count, one pointer that moves (Repoint).                        *)
(*                                                                         *)
(* A representation remembers its history.  This is first shown of the     *)
(* values: what feeding one makes of it, and what takes over from it, hold *)
(* of the longer history what it held of the shorter (SizeKept,            *)
(* OffsetKept).  The counts then say whose memory an operation touches.    *)
(*                                                                         *)
(* The sums of a mean weigh every value by its count; such a sum is that   *)
(* of the history (CountedSum), and a mean lies between the values it is   *)
(* the mean of, so that no prediction leaves the range of what was fed.    *)
(***************************************************************************)
EXTENDS Trackers, Counting

Pointing(s, o) == {t \in Tracker : s[t] = o}

\* n counts the pointers of s.
Counts(n, s) ==
  /\ s \in [Tracker -> Object \cup {None}]
  /\ n \in [Object -> Nat]
  /\ \A o \in Object : n[o] = Cardinality(Pointing(s, o))

PtrInv ==
  /\ live \subseteq Tracker
  /\ Counts(instances, st)
  /\ \A t \in Tracker \ live : st[t] = None

-----------------------------------------------------------------------------
\* A pointer that moves from o to elsewhere, or from elsewhere to o.
LEMMA PointerLeaves ==
  ASSUME NEW s \in [Tracker -> Object \cup {None}], NEW t \in Tracker,
         NEW x \in Object \cup {None}, NEW o \in Object, s[t] = o, x # o
  PROVE  /\ Cardinality(Pointing(s, o)) \in Nat \ {0}
         /\ Cardinality(Pointing([s EXCEPT ![t] = x], o))
              = Cardinality(Pointing(s, o)) - 1
<1>1. IsFiniteSet(Pointing(s, o))
  BY FS_Subset, FiniteAssumption DEF Pointing
<1>2. t \in Pointing(s, o)
  BY DEF Pointing
<1>3. Pointing([s EXCEPT ![t] = x], o) = Pointing(s, o) \ {t}
  BY DEF Pointing
<1>4. Cardinality(Pointing(s, o)) \in Nat /\ Cardinality(Pointing(s, o)) # 0
  BY <1>1, <1>2, FS_CardinalityType, FS_EmptySet
<1>5. Cardinality(Pointing(s, o) \ {t}) = Cardinality(Pointing(s, o)) - 1
  BY <1>1, <1>2, FS_RemoveElement
<1> QED
  BY <1>3, <1>4, <1>5

\* A pointer that is set to an object counts one more there.
LEMMA PointerArrives ==
  ASSUME NEW s \in [Tracker -> Object \cup {None}], NEW t \in Tracker,
         NEW o \in Object, s[t] # o
  PROVE  /\ Cardinality(Pointing(s, o)) \in Nat
         /\ Cardinality(Pointing([s EXCEPT ![t] = o], o))
              = Cardinality(Pointing(s, o)) + 1
<1>1. IsFiniteSet(Pointing(s, o))
  BY FS_Subset, FiniteAssumption DEF Pointing
<1>2. t \notin Pointing(s, o)
  BY DEF Pointing
<1>3. Pointing([s EXCEPT ![t] = o], o) = Pointing(s, o) \cup {t}
  BY DEF Pointing
<1> QED
  BY <1>1, <1>2, <1>3, FS_AddElement, FS_CardinalityType

\* Dropping what a tracker points to and taking something else keeps the count.
LEMMA Repoint ==
  ASSUME NEW n, NEW s, Counts(n, s), NEW t \in Tracker,
         NEW x \in Object \cup {None}
  PROVE  Counts(Take(Drop(n, s[t]), x), [s EXCEPT ![t] = x])
<1> DEFINE d == Drop(n, s[t])
           m == Take(d, x)
           r == [s EXCEPT ![t] = x]
<1>1. s \in [Tracker -> Object \cup {None}] /\ n \in [Object -> Nat]
  BY DEF Counts
<1>2. ASSUME NEW o \in Object
      PROVE  n[o] = Cardinality(Pointing(s, o))
  BY <1>2 DEF Counts
<1>3. r \in [Tracker -> Object \cup {None}]
  BY <1>1
<1>4. ASSUME s[t] # None
      PROVE  n[s[t]] \in Nat \ {0} /\ d = [n EXCEPT ![s[t]] = @ - 1]
  <2>1. s[t] \in Object /\ None \in Object \cup {None} /\ None # s[t]
    BY <1>1, <1>4
  <2>2. Cardinality(Pointing(s, s[t])) \in Nat \ {0}
    BY <2>1, <1>1, PointerLeaves
  <2> QED
    BY <2>1, <2>2, <1>2 DEF Drop
<1>5. d \in [Object -> Nat]
  BY <1>1, <1>4 DEF Drop
<1>6. m \in [Object -> Nat]
  BY <1>5 DEF Take
<1>7. ASSUME NEW o \in Object
      PROVE  m[o] = Cardinality(Pointing(r, o))
  <2>1. o # None
    BY <1>7, NoneAssumption
  <2>2. d[o] = IF s[t] = o THEN n[o] - 1 ELSE n[o]
    BY <1>1, <1>4, <1>7, <2>1 DEF Drop
  <2>3. m[o] = IF x = o THEN d[o] + 1 ELSE d[o]
    BY <1>5, <1>7, <2>1 DEF Take
  <2>4. CASE s[t] = o /\ x = o
    <3>1. r = s
      BY <1>1, <2>4
    <3>2. n[o] \in Nat
      BY <1>1, <1>7
    <3> QED
      BY <1>2, <1>7, <2>2, <2>3, <2>4, <3>1, <3>2
  <2>5. CASE s[t] = o /\ x # o
    <3>1. /\ Cardinality(Pointing(s, o)) \in Nat \ {0}
          /\ Cardinality(Pointing(r, o)) = Cardinality(Pointing(s, o)) - 1
      BY <1>1, <1>7, <2>5, PointerLeaves
    <3>2. m[o] = n[o] - 1
      BY <2>2, <2>3, <2>5
    <3> QED
      BY <1>2, <1>7, <3>1, <3>2
  <2>6. CASE s[t] # o /\ x = o
    BY <1>1, <1>2, <1>7, <2>2, <2>3, <2>6, PointerArrives
  <2>7. CASE s[t] # o /\ x # o
    <3>1. Pointing(r, o) = Pointing(s, o)
      BY <1>1, <2>7 DEF Pointing
    <3> QED
      BY <1>2, <1>7, <2>2, <2>3, <2>7, <3>1
  <2> QED
    BY <2>4, <2>5, <2>6, <2>7
<1> QED
  BY <1>3, <1>6, <1>7 DEF Counts

\* A free representation that is taken by a tracker gets the count 1.
LEMMA TakeFree ==
  ASSUME NEW n \in [Object -> Nat], NEW o \in Object, n[o] = 0
  PROVE  /\ Take(n, o) = [n EXCEPT ![o] = 1]
         /\ Drop(Take([n EXCEPT ![o] = 1], o), o) = [n EXCEPT ![o] = 1]
<1>1. o # None
  BY NoneAssumption
<1> QED
  BY <1>1 DEF Take, Drop

\* No pointers, no counts.
LEMMA NoPointers == Counts([o \in Object |-> 0], [t \in Tracker |-> None])
<1>1. ASSUME NEW o \in Object
      PROVE  Pointing([t \in Tracker |-> None], o) = {}
  BY NoneAssumption DEF Pointing
<1> QED
  BY <1>1, FS_EmptySet DEF Counts

\* Every operation of the class keeps the counts.
LEMMA PtrInvHolds == Spec => []PtrInv
<1>1. Init => PtrInv
  BY NoPointers DEF Init, PtrInv
<1>2. PtrInv /\ [Next]_vars => PtrInv'
  <2> SUFFICES ASSUME PtrInv, [Next]_vars PROVE PtrInv'
    OBVIOUS
  <2>1. /\ live \subseteq Tracker /\ Counts(instances, st)
        /\ instances \in [Object -> Nat]
        /\ st \in [Tracker -> Object \cup {None}]
        /\ \A t \in Tracker \ live : st[t] = None
    BY DEF PtrInv, Counts
  <2>2. ASSUME NEW t \in Tracker, Construct(t)
        PROVE  PtrInv'
    BY <2>1, <2>2 DEF Construct, PtrInv
  <2>3. ASSUME NEW t \in Tracker, NEW v, ConstructFrom(t, v)
        PROVE  PtrInv'
    <3>1. PICK o \in Free : /\ st' = [st EXCEPT ![t] = o]
                            /\ instances' = [instances EXCEPT ![o] = 1]
      BY <2>3 DEF ConstructFrom
    <3>2. st[t] = None /\ live' = live \cup {t}
      BY <2>1, <2>3 DEF ConstructFrom
    <3>3. instances' = Take(Drop(instances, st[t]), o)
      BY <2>1, <3>1, <3>2, TakeFree DEF Free, Drop
    <3>4. Counts(instances', st')
      <4>1. o \in Object \cup {None}
        BY DEF Free
      <4>2. Counts(Take(Drop(instances, st[t]), o), [st EXCEPT ![t] = o])
        BY <2>1, <4>1, Repoint
      <4>3. st' = [st EXCEPT ![t] = o]
        BY <3>1
      <4> QED
        BY <3>3, <4>2, <4>3
    <3> QED
      BY <2>1, <3>1, <3>2, <3>4 DEF PtrInv
  <2>4. ASSUME NEW t \in Tracker, NEW u \in Tracker, Copy(t, u)
        PROVE  PtrInv'
    <3>1. st[t] = None /\ instances' = Take(Drop(instances, st[t]), st[u])
      BY <2>1, <2>4 DEF Copy, Drop
    <3>2. st' = [st EXCEPT ![t] = st[u]] /\ live' = live \cup {t}
      BY <2>4 DEF Copy
    <3>3. Counts(instances', st')
      BY <2>1, <3>1, <3>2, Repoint
    <3> QED
      BY <2>1, <3>2, <3>3 DEF PtrInv
  <2>5. ASSUME NEW t \in Tracker, NEW u \in Tracker, Assign(t, u)
        PROVE  PtrInv'
    <3>1. Counts(instances', st')
      BY <2>1, <2>5, Repoint DEF Assign
    <3> QED
      BY <2>1, <2>5, <3>1 DEF Assign, PtrInv
  <2>6. ASSUME NEW t \in Tracker, Destroy(t)
        PROVE  PtrInv'
    <3>1. instances' = Take(Drop(instances, st[t]), None)
      BY <2>6 DEF Destroy, Take
    <3>2. Counts(instances', st')
      <4>1. None \in Object \cup {None} /\ st' = [st EXCEPT ![t] = None]
        BY <2>6 DEF Destroy
      <4> QED
        BY <2>1, <3>1, <4>1, Repoint
    <3> QED
      BY <2>1, <2>6, <3>2 DEF Destroy, PtrInv
  <2>7. ASSUME NEW t \in Tracker, NEW v, InputFirst(t, v)
        PROVE  PtrInv'
    <3>1. PICK o \in Free :
            /\ st' = [st EXCEPT ![t] = o]
            /\ instances' = Drop(Take([instances EXCEPT ![o] = 1], o), o)
      BY <2>7 DEF InputFirst
    <3>2. instances' = Take(Drop(instances, st[t]), o)
      <4>1. Drop(instances, st[t]) = instances
        BY <2>7 DEF InputFirst, Drop
      <4>2. o \in Object /\ instances[o] = 0
        BY DEF Free
      <4> QED
        BY <2>1, <3>1, <4>1, <4>2, TakeFree
    <3>3. Counts(instances', st')
      <4>1. o \in Object \cup {None}
        BY DEF Free
      <4>2. Counts(Take(Drop(instances, st[t]), o), [st EXCEPT ![t] = o])
        BY <2>1, <4>1, Repoint
      <4>3. st' = [st EXCEPT ![t] = o]
        BY <3>1
      <4> QED
        BY <3>2, <4>2, <4>3
    <3> QED
      BY <2>1, <2>7, <3>1, <3>3 DEF InputFirst, PtrInv
  <2>8. ASSUME NEW t \in Tracker, NEW v, InputShared(t, v)
        PROVE  PtrInv'
    BY <2>1, <2>8 DEF InputShared, PtrInv
  <2>9. ASSUME NEW t \in Tracker, NEW v, InputOutgrown(t, v)
        PROVE  PtrInv'
    <3>1. PICK o \in Free :
            /\ st' = [st EXCEPT ![t] = o]
            /\ instances' = [Drop(instances, st[t]) EXCEPT ![o] = 1]
      BY <2>9 DEF InputOutgrown
    <3>2. st[t] \in Object /\ t \in live /\ live' = live
      BY <2>1, <2>9 DEF InputOutgrown, Feedable
    <3>3. instances[st[t]] \in Nat \ {0}
      <4>1. /\ instances[st[t]] = Cardinality(Pointing(st, st[t]))
            /\ None \in Object \cup {None} /\ None # st[t]
        BY <2>1, <3>2, NoneAssumption DEF Counts
      <4>2. st \in [Tracker -> Object \cup {None}] /\ st[t] \in Object
        BY <2>1, <3>2
      <4>3. Cardinality(Pointing(st, st[t])) \in Nat \ {0}
        BY <4>1, <4>2, PointerLeaves
      <4> QED
        BY <4>1, <4>3
    <3>4. Drop(instances, st[t]) \in [Object -> Nat]
      BY <2>1, <3>3 DEF Drop
    <3>5. Drop(instances, st[t])[o] = 0
      BY <2>1, <3>3 DEF Drop, Free
    <3>6. instances' = Take(Drop(instances, st[t]), o)
      BY <3>1, <3>4, <3>5, TakeFree DEF Free
    <3>7. Counts(instances', st')
      <4>1. o \in Object \cup {None}
        BY DEF Free
      <4>2. Counts(Take(Drop(instances, st[t]), o), [st EXCEPT ![t] = o])
        BY <2>1, <4>1, Repoint
      <4>3. st' = [st EXCEPT ![t] = o]
        BY <3>1
      <4> QED
        BY <3>6, <4>2, <4>3
    <3> QED
      BY <2>1, <3>1, <3>2, <3>7 DEF PtrInv
  <2>10. CASE UNCHANGED vars
    BY <2>10, <2>1 DEF vars, PtrInv
  <2> QED
    BY <2>2, <2>3, <2>4, <2>5, <2>6, <2>7, <2>8, <2>9, <2>10 DEF Next
<1> QED
  BY <1>1, <1>2, PTL DEF Spec

\* The count that decides over a representation's memory is the number of
\* trackers that point to it.
THEOREM CountsKept == Spec => []CountsExact
<1>1. PtrInv => CountsExact
  <2> SUFFICES ASSUME PtrInv PROVE CountsExact
    OBVIOUS
  <2>1. ASSUME NEW o \in Object
        PROVE  Pointing(st, o) = Users(o)
    BY NoneAssumption DEF PtrInv, Pointing, Users
  <2> QED
    BY <2>1 DEF PtrInv, Counts, CountsExact
<1> QED
  BY <1>1, PtrInvHolds, PTL

\* No tracker points to a representation that was deleted: its count would be 0.
THEOREM NoDanglingTracker ==
  Spec => [](\A t \in Tracker : st[t] # None => instances[st[t]] > 0)
<1>1. ASSUME PtrInv, NEW t \in Tracker, st[t] # None
      PROVE  instances[st[t]] > 0
  <2>1. /\ st \in [Tracker -> Object \cup {None}] /\ st[t] \in Object
        /\ instances[st[t]] = Cardinality(Pointing(st, st[t]))
    BY <1>1 DEF PtrInv, Counts
  <2>2. Cardinality(Pointing(st, st[t])) \in Nat \ {0}
    BY <1>1, <2>1, PointerLeaves
  <2> QED
    BY <2>1, <2>2
<1>2. PtrInv => \A t \in Tracker : st[t] # None => instances[st[t]] > 0
  BY <1>1
<1> QED
  BY <1>2, PtrInvHolds, PTL

-----------------------------------------------------------------------------
(* What representations hold.                                              *)

SeenIn(l) == {l[i] : i \in DOMAIN l}

\* n, occ, map, inv, last and g are what a grammar has learned from l.
Learned(l, n, occ, map, inv, last, g) ==
  /\ n = Len(l)
  /\ CountsSymbols(occ, l)
  /\ DOMAIN map = DOMAIN occ
  /\ last \in Nat /\ DOMAIN inv = 0 .. last - 1
  /\ \A v \in DOMAIN map : map[v] \in 0 .. last - 1 /\ inv[map[v]] = v
  /\ g = [i \in DOMAIN l |-> map[l[i]]]

\* f2 is f with the entry of x set to v.
Entered(f2, f, x, v) ==
  /\ DOMAIN f2 = DOMAIN f \cup {x} /\ f2[x] = v
  /\ \A y \in DOMAIN f : y # x => f2[y] = f[y]

\* A grammar that is fed has learned what it was fed: a value it knows goes to
\* its oracle by its symbol, and another gets the next symbol.
LEMMA Learning ==
  ASSUME NEW V, NEW l \in Seq(V), NEW x \in V, NEW n, NEW occ, NEW map, NEW inv,
         NEW last, NEW g, Learned(l, n, occ, map, inv, last, g),
         NEW occ2, NEW map2, NEW inv2, NEW last2, NEW sym,
         sym = IF x \in DOMAIN map THEN map[x] ELSE last,
         last2 = IF x \in DOMAIN map THEN last ELSE last + 1,
         CountedIn(occ2, occ, x), Entered(map2, map, x, sym),
         Entered(inv2, inv, sym, x)
  PROVE  Learned(Append(l, x), n + 1, occ2, map2, inv2, last2, Append(g, sym))
  <1> DEFINE m == Append(l, x)
             k == Len(l)
  <1>1. /\ n = k /\ DOMAIN map = DOMAIN occ /\ DOMAIN occ = SeenIn(l)
        /\ last \in Nat /\ DOMAIN inv = 0 .. last - 1
        /\ g = [i \in 1 .. k |-> map[l[i]]]
    BY DEF Learned, CountsSymbols, SeenIn
  <1>2. \A v \in DOMAIN map : map[v] \in 0 .. last - 1 /\ inv[map[v]] = v
    BY DEF Learned
  <1>3. /\ k \in Nat /\ Len(m) = k + 1 /\ m[k + 1] = x /\ DOMAIN m = 1 .. k + 1
        /\ \A i \in 1 .. k : m[i] = l[i] /\ l[i] \in DOMAIN map
    BY <1>1 DEF SeenIn
  <1>4. CountsSymbols(occ2, m)
    BY SymbolsCounted DEF Learned
  <1>5. DOMAIN map2 = DOMAIN occ2
    BY <1>1 DEF Entered, CountedIn
  <1>6. last2 \in Nat /\ DOMAIN inv2 = 0 .. last2 - 1 /\ sym \in 0 .. last2 - 1
    <2>1. DOMAIN inv2 = DOMAIN inv \cup {sym}
      BY DEF Entered
    <2> QED
      BY <1>1, <1>2, <2>1
  <1>7. ASSUME NEW v \in DOMAIN map2
        PROVE  map2[v] \in 0 .. last2 - 1 /\ inv2[map2[v]] = v
    <2>1. CASE v = x
      BY <1>6, <2>1 DEF Entered
    <2>2. CASE v # x
      <3>1. v \in DOMAIN map /\ map2[v] = map[v]
        BY <2>2 DEF Entered
      <3>2. map[v] \in 0 .. last - 1 /\ inv[map[v]] = v
        BY <1>2, <3>1
      <3>3. map[v] # sym
        BY <1>1, <1>2, <2>2, <3>1, <3>2
      <3>4. inv2[map[v]] = v
        BY <1>1, <3>2, <3>3 DEF Entered
      <3> QED
        BY <1>1, <3>1, <3>2, <3>4
    <2> QED
      BY <2>1, <2>2
  <1>8. \A v \in DOMAIN map : map2[v] = map[v]
    BY DEF Entered
  <1>9. Append(g, sym) = [i \in 1 .. k + 1 |-> map2[m[i]]]
    <2>1. g \in Seq(Nat) /\ Len(g) = k /\ sym \in Nat
      <3>1. \A i \in 1 .. k : map[l[i]] \in Nat
        BY <1>1, <1>2, <1>3
      <3> HIDE DEF k
      <3> QED
        BY <1>1, <1>3, <1>6, <3>1
    <2>2. \A i \in 1 .. k : Append(g, sym)[i] = map2[m[i]]
      BY <1>1, <1>3, <1>8, <2>1
    <2>3. Append(g, sym)[k + 1] = map2[m[k + 1]]
      BY <1>3, <2>1 DEF Entered
    <2>4. DOMAIN Append(g, sym) = 1 .. k + 1 /\ Append(g, sym) \in Seq(Nat)
      BY <1>3, <2>1
    <2>5. Append(g, sym) = [i \in 1 .. k + 1 |-> Append(g, sym)[i]]
      BY <2>4
    <2>6. 1 .. k + 1 = 1 .. k \cup {k + 1}
      BY <1>3
    <2> HIDE DEF m, k
    <2>7. \A i \in 1 .. k + 1 : Append(g, sym)[i] = map2[m[i]]
      BY <2>2, <2>3, <2>6
    <2> QED
      BY <2>5, <2>7
  <1> HIDE DEF m, k
  <1>10. n + 1 = Len(m)
    BY <1>1, <1>3
  <1>11. Append(g, sym) = [i \in DOMAIN m |-> map2[m[i]]]
    BY <1>3, <1>9
  <1> QED
    BY <1>4, <1>5, <1>6, <1>7, <1>10, <1>11 DEF Learned, m

\* The grammar that takes over from a simple representation: one value, with
\* symbol 0, as often as it was seen.
LEMMA LearnedOne ==
  ASSUME NEW V, NEW l \in Seq(V), l # <<>>, NEW x, NEW n, n = Len(l),
         \A i \in DOMAIN l : l[i] = x
  PROVE  Learned(l, n, [y \in {x} |-> n], [y \in {x} |-> 0],
                 [y \in {0} |-> x], 1, [i \in 1 .. n |-> 0])
  <1>1. n \in Nat \ {0} /\ DOMAIN l = 1 .. n
    OBVIOUS
  <1>2. Cardinality(1 .. n) = n
    <2>1. ASSUME NEW k \in Nat \ {0} PROVE Cardinality(1 .. k) = k
      BY FS_Interval
    <2> QED
      BY <1>1, <2>1
  <1>3. Places(l, x) = 1 .. n /\ {l[i] : i \in DOMAIN l} = {x}
    BY <1>1 DEF Places
  <1>4. CountsSymbols([y \in {x} |-> n], l)
    BY <1>2, <1>3 DEF CountsSymbols
  <1>5. [i \in 1 .. n |-> 0] = [i \in DOMAIN l |-> [y \in {x} |-> 0][l[i]]]
    BY <1>1
  <1> QED
    BY <1>1, <1>4, <1>5 DEF Learned

\* What a representation of sizes holds, of the sizes l that it was fed with.
SizeStands(r, l) ==
  /\ l # <<>> /\ "type" \in DOMAIN r
  /\ \/ /\ r.type = "SIMPLE"
        /\ r = [type |-> "SIMPLE", size |-> r.size, occurences |-> Len(l)]
        /\ \A i \in DOMAIN l : l[i] = r.size
     \/ /\ r.type = "GRAMMAR"
        /\ {"occurences", "occ_map", "size_map", "symbols_size", "last", "sum", "o"}
             \subseteq DOMAIN r
        /\ Learned(l, r.occurences, r.occ_map, r.size_map, r.symbols_size,
                   r.last, r.o)
     \/ /\ r.type = "AVERAGE"
        /\ {"occurences", "sum"} \subseteq DOMAIN r
        /\ r.occurences = Len(l)

\* A sequence that is not empty has a last element, and grows to one more.
LEMMA Grows ==
  ASSUME NEW V, NEW l \in Seq(V), NEW x \in V
  PROVE  /\ Len(Append(l, x)) = Len(l) + 1 /\ Append(l, x) # <<>>
         /\ Len(l) \in Nat /\ (l # <<>> => Len(l) # 0)
         /\ Append(l, x)[Len(l) + 1] = x
  OBVIOUS

\* The same value once more.
LEMMA SameMore ==
  ASSUME NEW V, NEW l \in Seq(V), NEW x \in V, \A i \in DOMAIN l : l[i] = x
  PROVE  \A i \in DOMAIN Append(l, x) : Append(l, x)[i] = x
  OBVIOUS

\* A grammar of sizes that is fed.
LEMMA GramSizeStands ==
  ASSUME NEW l \in Seq(Size), NEW s \in Size, NEW r, SizeStands(r, l),
         r.type = "GRAMMAR"
  PROVE  SizeStands(S!GramSizeInput(r, s), Append(l, s))
  <1> DEFINE n == S!GramSizeInput(r, s)
             sym == IF s \in DOMAIN r.size_map THEN r.size_map[s] ELSE r.last
  <1>1. /\ {"type", "occurences", "occ_map", "size_map", "symbols_size", "last",
            "sum", "o"} \subseteq DOMAIN r
        /\ Learned(l, r.occurences, r.occ_map, r.size_map, r.symbols_size,
                   r.last, r.o)
    BY DEF SizeStands
  <1>2. /\ DOMAIN n = DOMAIN r /\ n.type = "GRAMMAR"
        /\ n.occurences = r.occurences + 1
        /\ n.last = IF s \in DOMAIN r.size_map THEN r.last ELSE r.last + 1
        /\ n.o = Append(r.o, sym)
    BY <1>1 DEF S!GramSizeInput
  <1>3. DOMAIN r.size_map = DOMAIN r.occ_map
    BY <1>1 DEF Learned
  <1>4. /\ n.occ_map = S!Put(r.occ_map, s, IF s \in DOMAIN r.size_map
                                            THEN r.occ_map[s] + 1 ELSE 1)
        /\ n.size_map = S!Put(r.size_map, s, sym)
        /\ n.symbols_size = S!Put(r.symbols_size, sym, s)
    BY <1>1 DEF S!GramSizeInput
  <1> HIDE DEF n, sym
  <1>5. ASSUME NEW f, NEW x, NEW v PROVE Entered(S!Put(f, x, v), f, x, v)
    BY DEF S!Put, Entered
  <1>6. Entered(n.size_map, r.size_map, s, sym)
    BY <1>4, <1>5
  <1>7. Entered(n.symbols_size, r.symbols_size, sym, s)
    BY <1>4, <1>5
  <1>8. CountedIn(n.occ_map, r.occ_map, s)
    BY <1>3, <1>4 DEF S!Put, CountedIn
  <1>9. Learned(Append(l, s), r.occurences + 1, n.occ_map, n.size_map,
                n.symbols_size, n.last, Append(r.o, sym))
    <2>1. sym = IF s \in DOMAIN r.size_map THEN r.size_map[s] ELSE r.last
      BY DEF sym
    <2> QED
      BY <1>1, <1>2, <1>6, <1>7, <1>8, <2>1, Learning
  <1>10. Append(l, s) # <<>>
    BY Grows
  <1>11. SizeStands(n, Append(l, s))
    BY <1>1, <1>2, <1>9, <1>10 DEF SizeStands
  <1> QED
    BY <1>11 DEF n

\* The grammar that takes over has learned what the simple one knew.
LEMMA GramSizeFromSimple ==
  ASSUME NEW l \in Seq(Size), NEW r, SizeStands(r, l), r.type = "SIMPLE"
  PROVE  SizeStands(S!gram_size(r), l) /\ S!gram_size(r).type = "GRAMMAR"
  <1> DEFINE n == S!gram_size(r)
             k == Len(l)
  <1>1. l # <<>> /\ (\A i \in DOMAIN l : l[i] = r.size) /\ r.occurences = k
    BY DEF SizeStands
  <1>3. /\ {"type", "occurences", "occ_map", "size_map", "symbols_size", "last",
            "sum", "o"} \subseteq DOMAIN n
        /\ n.type = "GRAMMAR" /\ n.occurences = k /\ n.last = 1
        /\ n.occ_map = [y \in {r.size} |-> k]
        /\ n.size_map = [y \in {r.size} |-> 0]
        /\ n.symbols_size = [y \in {0} |-> r.size]
        /\ n.o = [i \in 1 .. k |-> 0]
    BY <1>1 DEF S!gram_size, S!Single
  <1>4. Learned(l, k, [y \in {r.size} |-> k], [y \in {r.size} |-> 0],
                [y \in {0} |-> r.size], 1, [i \in 1 .. k |-> 0])
    BY <1>1, LearnedOne
  <1> HIDE DEF n, k
  <1>5. Learned(l, n.occurences, n.occ_map, n.size_map, n.symbols_size, n.last, n.o)
    BY <1>3, <1>4
  <1> QED
    BY <1>1, <1>3, <1>5 DEF SizeStands, n

\* What is left of a size and its history when it is fed, and what follows it.
LEMMA SizeKept ==
  ASSUME NEW l \in Seq(Size), NEW s \in Size, NEW r, SizeStands(r, l)
  PROVE  /\ r.type = "SIMPLE" /\ S!Outgrown(r, s) =>
              SizeStands(S!Fed(r, s), l)
         /\ ~(r.type = "SIMPLE" /\ S!Outgrown(r, s)) =>
              SizeStands(S!Fed(r, s), Append(l, s))
         /\ S!Outgrown(r, s) => SizeStands(S!Successor(r, s), Append(l, s))
  <1>1. CASE r.type = "SIMPLE" /\ S!Outgrown(r, s)
    <2>1. S!Fed(r, s) = r
      BY <1>1 DEF S!Fed, S!Outgrown
    <2>2. S!Successor(r, s) = S!GramSizeInput(S!gram_size(r), s)
      BY <1>1 DEF S!Successor
    <2>3. SizeStands(S!gram_size(r), l) /\ S!gram_size(r).type = "GRAMMAR"
      BY <1>1, GramSizeFromSimple
    <2>4. SizeStands(S!Successor(r, s), Append(l, s))
      BY <2>2, <2>3, GramSizeStands
    <2> QED
      BY <1>1, <2>1, <2>4
  <1>2. CASE r.type = "SIMPLE" /\ ~S!Outgrown(r, s)
    <2>1. /\ S!Fed(r, s) = [r EXCEPT !.occurences = @ + 1] /\ r.size = s
      BY <1>2 DEF S!Fed, S!Outgrown
    <2>2. /\ r = [type |-> "SIMPLE", size |-> s, occurences |-> Len(l)]
          /\ \A i \in DOMAIN l : l[i] = s
      BY <1>2, <2>1 DEF SizeStands
    <2>3. /\ \A i \in DOMAIN Append(l, s) : Append(l, s)[i] = s
          /\ Len(Append(l, s)) = Len(l) + 1 /\ Append(l, s) # <<>>
      BY <2>2, SameMore, Grows
    <2>4. S!Fed(r, s) = [type |-> "SIMPLE", size |-> s, occurences |-> Len(l) + 1]
      BY <2>1, <2>2
    <2> QED
      BY <1>2, <2>3, <2>4 DEF SizeStands
  <1>3. CASE r.type = "GRAMMAR"
    <2>1. S!Fed(r, s) = S!GramSizeInput(r, s)
      BY <1>3 DEF S!Fed
    <2>2. SizeStands(S!GramSizeInput(r, s), Append(l, s))
      BY <1>3, GramSizeStands
    <2>3. S!Successor(r, s) = S!average_size(S!GramSizeInput(r, s))
      BY <1>3, <2>1 DEF S!Successor
    <2>4. S!GramSizeInput(r, s).occurences = Len(Append(l, s))
      <3>1. /\ "occurences" \in DOMAIN r /\ r.occurences = Len(l)
        BY <1>3 DEF SizeStands, Learned
      <3>2. S!GramSizeInput(r, s).occurences = r.occurences + 1
        BY <3>1 DEF S!GramSizeInput
      <3> QED
        BY <3>1, <3>2, Grows
    <2>5. ASSUME NEW g, NEW m, g.occurences = Len(m), m # <<>>
          PROVE  SizeStands(S!average_size(g), m)
      BY <2>5 DEF S!average_size, SizeStands
    <2>6. Append(l, s) # <<>>
      BY Grows
    <2> QED
      BY <1>3, <2>1, <2>2, <2>3, <2>4, <2>5, <2>6
  <1>4. CASE r.type = "AVERAGE"
    <2>1. S!Fed(r, s) = [r EXCEPT !.sum = @ + s, !.occurences = @ + 1]
      BY <1>4 DEF S!Fed, S!AverageSizeInput
    <2>2. ~S!Outgrown(r, s)
      BY <1>4 DEF S!Outgrown
    <2>3. {"type", "occurences", "sum"} \subseteq DOMAIN r /\ r.occurences = Len(l)
      BY <1>4 DEF SizeStands
    <2>4. /\ {"type", "occurences", "sum"} \subseteq DOMAIN S!Fed(r, s)
          /\ S!Fed(r, s).type = "AVERAGE" /\ S!Fed(r, s).occurences = Len(l) + 1
      BY <1>4, <2>1, <2>3
    <2>5. Len(Append(l, s)) = Len(l) + 1 /\ Append(l, s) # <<>>
      BY Grows
    <2> QED
      BY <1>4, <2>2, <2>4, <2>5 DEF SizeStands
  <1> QED
    BY <1>1, <1>2, <1>3, <1>4 DEF SizeStands

\* What a mean is computed from is the sum of the sizes, and they differ.
SizeSums(r, l) ==
  r.type # "SIMPLE" => r.sum = Sum(l) /\ \E i, j \in DOMAIN l : l[i] # l[j]

\* The sums of the library.
LEMMA IsTotal ==
  ASSUME NEW f, NEW D
  PROVE  S!MapThenSumSet(LAMBDA x : f[x], D) = Total(f, D)
  BY DEF S!MapThenSumSet, S!MapThenFoldSet, Total, Totals

\* The library's sum of a grammar's values is a total of their weights.
LEMMA IsWeighted ==
  ASSUME NEW f, NEW D \in SUBSET DOMAIN f, IsFiniteSet(D)
  PROVE  S!MapThenSumSet(LAMBDA s : s * f[s], D) = Total(Weights(f), D)
  BY WeightedTotal DEF S!MapThenSumSet, S!MapThenFoldSet

\* A sequence of sizes is one of naturals.
LEMMA SizesAreNaturals ==
  ASSUME NEW l \in Seq(Size)
  PROVE  l \in Seq(Nat)
  <1> DEFINE k == Len(l)
  <1>1. k \in Nat /\ l \in [1 .. k -> Size]
    OBVIOUS
  <1>2. l \in [1 .. k -> Nat]
    BY <1>1, SizeAssumption
  <1> HIDE DEF k
  <1> QED
    BY <1>1, <1>2

\* A grammar takes over with the sum of the sizes, all of them the same, and
\* a mean with what the grammar counted of each.
LEMMA SumsFed ==
  ASSUME NEW l \in Seq(Size), NEW s \in Size, NEW r, SizeStands(r, l), SizeSums(r, l)
  PROVE  /\ r.type = "SIMPLE" /\ S!Outgrown(r, s) => SizeSums(S!Fed(r, s), l)
         /\ ~(r.type = "SIMPLE" /\ S!Outgrown(r, s)) =>
              SizeSums(S!Fed(r, s), Append(l, s))
         /\ S!Outgrown(r, s) => SizeSums(S!Successor(r, s), Append(l, s))
  <1> DEFINE m == Append(l, s)
  <1>1. l \in Seq(Nat) /\ s \in Nat /\ m \in Seq(Nat)
    <2>1. l \in Seq(Nat) /\ s \in Nat
      BY SizesAreNaturals, SizeAssumption
    <2> QED
      BY <2>1
  <1>2. Sum(l) \in Nat /\ Sum(m) = Sum(l) + s
    BY <1>1, SumGrows
  <1>3. /\ \A i \in DOMAIN l : i \in DOMAIN m /\ m[i] = l[i]
        /\ Len(l) + 1 \in DOMAIN m /\ m[Len(l) + 1] = s
        /\ l # <<>> => 1 \in DOMAIN l
    OBVIOUS
  <1>4. ASSUME NEW n, n.sum = r.sum + s, r.type # "SIMPLE" PROVE SizeSums(n, m)
    <2>1. n.sum = Sum(m)
      BY <1>2, <1>4 DEF SizeSums
    <2>2. \E i, j \in DOMAIN m : m[i] # m[j]
      BY <1>3, <1>4 DEF SizeSums
    <2> HIDE DEF m
    <2> QED
      BY <2>1, <2>2 DEF SizeSums
  <1>5. CASE r.type = "SIMPLE" /\ S!Outgrown(r, s)
    <2>1. S!Fed(r, s) = r
      BY <1>5 DEF S!Fed, S!Outgrown
    <2>2. S!Successor(r, s) = S!GramSizeInput(S!gram_size(r), s)
      BY <1>5 DEF S!Successor
    <2>3. /\ r.size # s /\ r.occurences = Len(l) /\ l # <<>>
          /\ \A i \in DOMAIN l : l[i] = r.size
      BY <1>5 DEF SizeStands, S!Outgrown
    <2>4. r.size \in Nat /\ l[1] = r.size
      BY <1>1, <1>3, <2>3
    <2>5. Sum(l) = r.size * Len(l)
      <3>1. \A i \in DOMAIN l : r.size <= l[i] /\ l[i] <= r.size
        BY <2>3, <2>4
      <3>2. r.size * Len(l) <= Sum(l) /\ Sum(l) <= r.size * Len(l)
        BY <1>1, <2>4, <3>1, SumBounds
      <3>3. r.size * Len(l) \in Nat
        BY <2>4
      <3> QED
        BY <1>2, <3>2, <3>3
    <2>6. S!Successor(r, s).sum = r.size * Len(l) + s
      BY <2>2, <2>3 DEF S!GramSizeInput, S!gram_size
    <2>7. \E i, j \in DOMAIN m : m[i] # m[j]
      BY <1>3, <2>3, <2>4
    <2> HIDE DEF m
    <2>8. SizeSums(S!Successor(r, s), m)
      BY <1>2, <2>5, <2>6, <2>7 DEF SizeSums
    <2>9. SizeSums(r, l)
      OBVIOUS
    <2> QED
      BY <1>5, <2>1, <2>8, <2>9 DEF m
  <1>6. CASE r.type = "SIMPLE" /\ ~S!Outgrown(r, s)
    <2>1. S!Fed(r, s) = [r EXCEPT !.occurences = @ + 1]
      BY <1>6 DEF S!Fed, S!Outgrown
    <2>2. "type" \in DOMAIN r
      BY DEF SizeStands
    <2>3. S!Fed(r, s).type = "SIMPLE"
      BY <1>6, <2>1, <2>2
    <2> QED
      BY <1>6, <2>3 DEF SizeSums
  <1>7. CASE r.type = "GRAMMAR"
    <2> DEFINE n == S!GramSizeInput(r, s)
    <2>1. S!Fed(r, s) = n
      BY <1>7 DEF S!Fed
    <2>2. "sum" \in DOMAIN r /\ "type" \in DOMAIN r
      BY <1>7 DEF SizeStands
    <2>3. n.sum = r.sum + s /\ n.type = "GRAMMAR"
      BY <1>7, <2>2 DEF S!GramSizeInput
    <2>4. SizeSums(n, m)
      BY <1>4, <1>7, <2>3
    <2>5. S!Successor(r, s) = S!average_size(n)
      BY <1>7, <2>1 DEF S!Successor
    <2>6. SizeStands(n, m)
      BY <1>7, GramSizeStands
    <2> HIDE DEF n, m
    <2>7. CountsSymbols(n.occ_map, m)
      BY <2>3, <2>6 DEF SizeStands, Learned
    <2>8. S!average_size(n).sum = Total(Weights(n.occ_map), DOMAIN n.occ_map)
      <3> DEFINE f == n.occ_map
      <3>1. IsFiniteSet(DOMAIN f)
        BY <1>1, <2>7, CountsAre
      <3>2. S!average_size(n).sum = S!MapThenSumSet(LAMBDA x : x * f[x], DOMAIN f)
        BY DEF S!average_size
      <3> HIDE DEF f
      <3>3. S!average_size(n).sum = Total(Weights(f), DOMAIN f)
        BY <3>1, <3>2, IsWeighted
      <3> QED
        BY <3>3 DEF f
    <2>9. S!average_size(n).sum = Sum(m)
      BY <1>1, <2>7, <2>8, CountedSum
    <2>10. SizeSums(S!average_size(n), m)
      BY <2>3, <2>4, <2>9 DEF SizeSums
    <2> QED
      BY <1>7, <2>1, <2>4, <2>5, <2>10 DEF m
  <1>8. CASE r.type = "AVERAGE"
    <2>1. S!Fed(r, s) = [r EXCEPT !.sum = @ + s, !.occurences = @ + 1]
      BY <1>8 DEF S!Fed, S!AverageSizeInput
    <2>2. "sum" \in DOMAIN r
      BY <1>8 DEF SizeStands
    <2>3. S!Fed(r, s).sum = r.sum + s
      BY <2>1, <2>2
    <2>4. ~S!Outgrown(r, s)
      BY <1>8 DEF S!Outgrown
    <2> QED
      BY <1>4, <1>8, <2>3, <2>4
  <1> QED
    BY <1>5, <1>6, <1>7, <1>8 DEF SizeStands

\* What a representation of offsets holds, of the operations l it was fed with.
OffsetStands(r, l) ==
  /\ l # <<>> /\ IsFiniteSet(SeenIn(l)) /\ "type" \in DOMAIN r
  /\ \/ /\ r.type = "SIMPLE"
        /\ r = [type |-> "SIMPLE", offset |-> r.offset, occurences |-> Len(l)]
        /\ \A i \in DOMAIN l : l[i] = r.offset
     \/ /\ r.type = "GRAMMAR"
        /\ {"occurences", "occ_map", "offset_map", "symbols_offset", "last",
            "last_off", "o"} \subseteq DOMAIN r
        /\ Learned(l, r.occurences, r.occ_map, r.offset_map, r.symbols_offset,
                   r.last, r.o)
        /\ r.last_off = l[Len(l)]
     \/ r.type = "FOLLOW" /\ Cardinality(SeenIn(l)) > OffsetLimit

\* What has been seen after one value more.
LEMMA SeenMore ==
  ASSUME NEW V, NEW l \in Seq(V), IsFiniteSet(SeenIn(l)), NEW x \in V
  PROVE  /\ SeenIn(Append(l, x)) = SeenIn(l) \cup {x}
         /\ IsFiniteSet(SeenIn(Append(l, x)))
         /\ Cardinality(SeenIn(l)) \in Nat
         /\ Cardinality(SeenIn(Append(l, x))) \in Nat
         /\ Cardinality(SeenIn(Append(l, x))) >= Cardinality(SeenIn(l))
  <1> DEFINE m == Append(l, x)
  <1>1. DOMAIN m = DOMAIN l \cup {Len(l) + 1} /\ m[Len(l) + 1] = x
          /\ \A i \in DOMAIN l : m[i] = l[i]
    OBVIOUS
  <1> HIDE DEF m
  <1>2. SeenIn(m) = SeenIn(l) \cup {x}
    BY <1>1 DEF SeenIn
  <1>3. /\ IsFiniteSet(SeenIn(m)) /\ Cardinality(SeenIn(l)) \in Nat
        /\ Cardinality(SeenIn(m)) =
             IF x \in SeenIn(l) THEN Cardinality(SeenIn(l))
             ELSE Cardinality(SeenIn(l)) + 1
    BY <1>2, FS_AddElement, FS_CardinalityType
  <1> QED
    BY <1>2, <1>3 DEF m

\* A grammar of operations that is fed.
LEMMA GramOffsetStands ==
  ASSUME NEW l \in Seq(OffsetOp), NEW op \in OffsetOp, NEW r, OffsetStands(r, l),
         r.type = "GRAMMAR"
  PROVE  /\ OffsetStands(O!GramOffsetInput(r, op), Append(l, op))
         /\ O!GramOffsetInput(r, op).type = "GRAMMAR"
         /\ DOMAIN O!GramOffsetInput(r, op).occ_map = SeenIn(Append(l, op))
  <1> DEFINE n == O!GramOffsetInput(r, op)
             sym == IF op \in DOMAIN r.offset_map THEN r.offset_map[op] ELSE r.last
  <1>1. /\ {"type", "occurences", "occ_map", "offset_map", "symbols_offset",
            "last", "last_off", "o"} \subseteq DOMAIN r
        /\ Learned(l, r.occurences, r.occ_map, r.offset_map, r.symbols_offset,
                   r.last, r.o)
        /\ IsFiniteSet(SeenIn(l))
    BY DEF OffsetStands
  <1>2. /\ DOMAIN n = DOMAIN r /\ n.type = "GRAMMAR"
        /\ n.occurences = r.occurences + 1 /\ n.last_off = op
        /\ n.last = IF op \in DOMAIN r.offset_map THEN r.last ELSE r.last + 1
        /\ n.o = Append(r.o, sym)
    BY <1>1 DEF O!GramOffsetInput
  <1>3. DOMAIN r.offset_map = DOMAIN r.occ_map
    BY <1>1 DEF Learned
  <1>4. /\ n.occ_map = O!Put(r.occ_map, op, IF op \in DOMAIN r.offset_map
                                             THEN r.occ_map[op] + 1 ELSE 1)
        /\ n.offset_map = O!Put(r.offset_map, op, sym)
        /\ n.symbols_offset = O!Put(r.symbols_offset, sym, op)
    BY <1>1 DEF O!GramOffsetInput
  <1> HIDE DEF n, sym
  <1>5. ASSUME NEW f, NEW x, NEW v PROVE Entered(O!Put(f, x, v), f, x, v)
    BY DEF O!Put, Entered
  <1>6. Entered(n.offset_map, r.offset_map, op, sym)
    BY <1>4, <1>5
  <1>7. Entered(n.symbols_offset, r.symbols_offset, sym, op)
    BY <1>4, <1>5
  <1>8. CountedIn(n.occ_map, r.occ_map, op)
    BY <1>3, <1>4 DEF O!Put, CountedIn
  <1>9. Learned(Append(l, op), r.occurences + 1, n.occ_map, n.offset_map,
                n.symbols_offset, n.last, Append(r.o, sym))
    <2>1. sym = IF op \in DOMAIN r.offset_map THEN r.offset_map[op] ELSE r.last
      BY DEF sym
    <2> QED
      BY <1>1, <1>2, <1>6, <1>7, <1>8, <2>1, Learning
  <1>10. /\ Append(l, op) # <<>> /\ Append(l, op)[Len(Append(l, op))] = op
         /\ IsFiniteSet(SeenIn(Append(l, op)))
    BY <1>1, Grows, SeenMore
  <1>11. OffsetStands(n, Append(l, op))
    BY <1>1, <1>2, <1>9, <1>10 DEF OffsetStands
  <1>12. DOMAIN n.occ_map = SeenIn(Append(l, op))
    BY <1>9 DEF Learned, CountsSymbols, SeenIn
  <1> QED
    BY <1>2, <1>11, <1>12 DEF n

\* The grammar that takes over has learned what the simple one knew.
LEMMA GramOffsetFromSimple ==
  ASSUME NEW l \in Seq(OffsetOp), NEW r, OffsetStands(r, l), r.type = "SIMPLE"
  PROVE  OffsetStands(O!gram_offset(r), l) /\ O!gram_offset(r).type = "GRAMMAR"
  <1> DEFINE n == O!gram_offset(r)
             k == Len(l)
  <1>1. /\ l # <<>> /\ (\A i \in DOMAIN l : l[i] = r.offset) /\ r.occurences = k
        /\ IsFiniteSet(SeenIn(l))
    BY DEF OffsetStands
  <1>2. l[k] = r.offset
    BY <1>1
  <1>3. /\ {"type", "occurences", "occ_map", "offset_map", "symbols_offset",
            "last", "last_off", "o"} \subseteq DOMAIN n
        /\ n.type = "GRAMMAR" /\ n.occurences = k /\ n.last = 1
        /\ n.last_off = r.offset
        /\ n.occ_map = [y \in {r.offset} |-> k]
        /\ n.offset_map = [y \in {r.offset} |-> 0]
        /\ n.symbols_offset = [y \in {0} |-> r.offset]
        /\ n.o = [i \in 1 .. k |-> 0]
    BY <1>1 DEF O!gram_offset, O!Single
  <1>4. Learned(l, k, [y \in {r.offset} |-> k], [y \in {r.offset} |-> 0],
                [y \in {0} |-> r.offset], 1, [i \in 1 .. k |-> 0])
    BY <1>1, LearnedOne
  <1> HIDE DEF n
  <1>5. Learned(l, n.occurences, n.occ_map, n.offset_map, n.symbols_offset,
                n.last, n.o)
    BY <1>3, <1>4
  <1> QED
    BY <1>1, <1>2, <1>3, <1>5 DEF OffsetStands, n

\* What is left of an operation and its history, and what follows it: it only
\* answers "following" when more operations were seen than the limit.
LEMMA OffsetKept ==
  ASSUME NEW l \in Seq(OffsetOp), NEW op \in OffsetOp, NEW r, OffsetStands(r, l)
  PROVE  /\ r.type = "SIMPLE" /\ O!Outgrown(r, op) =>
              OffsetStands(O!Fed(r, op), l)
         /\ ~(r.type = "SIMPLE" /\ O!Outgrown(r, op)) =>
              OffsetStands(O!Fed(r, op), Append(l, op))
         /\ O!Outgrown(r, op) => OffsetStands(O!Successor(r, op), Append(l, op))
  <1>1. CASE r.type = "SIMPLE" /\ O!Outgrown(r, op)
    <2>1. O!Fed(r, op) = r
      BY <1>1 DEF O!Fed, O!Outgrown
    <2>2. O!Successor(r, op) = O!GramOffsetInput(O!gram_offset(r), op)
      BY <1>1 DEF O!Successor
    <2>3. OffsetStands(O!gram_offset(r), l) /\ O!gram_offset(r).type = "GRAMMAR"
      BY <1>1, GramOffsetFromSimple
    <2>4. OffsetStands(O!Successor(r, op), Append(l, op))
      BY <2>2, <2>3, GramOffsetStands
    <2> QED
      BY <1>1, <2>1, <2>4
  <1>2. CASE r.type = "SIMPLE" /\ ~O!Outgrown(r, op)
    <2>1. /\ O!Fed(r, op) = [r EXCEPT !.occurences = @ + 1] /\ r.offset = op
      BY <1>2 DEF O!Fed, O!Outgrown
    <2>2. /\ r = [type |-> "SIMPLE", offset |-> op, occurences |-> Len(l)]
          /\ \A i \in DOMAIN l : l[i] = op
      BY <1>2, <2>1 DEF OffsetStands
    <2>3. /\ \A i \in DOMAIN Append(l, op) : Append(l, op)[i] = op
          /\ Len(Append(l, op)) = Len(l) + 1 /\ Append(l, op) # <<>>
          /\ IsFiniteSet(SeenIn(Append(l, op)))
      <3>1. IsFiniteSet(SeenIn(l))
        BY DEF OffsetStands
      <3>2. /\ \A i \in DOMAIN Append(l, op) : Append(l, op)[i] = op
            /\ Len(Append(l, op)) = Len(l) + 1 /\ Append(l, op) # <<>>
        BY <2>2, SameMore, Grows
      <3> QED
        BY <3>1, <3>2, SeenMore
    <2>4. O!Fed(r, op)
            = [type |-> "SIMPLE", offset |-> op, occurences |-> Len(l) + 1]
      BY <2>1, <2>2
    <2> QED
      BY <1>2, <2>3, <2>4 DEF OffsetStands
  <1>3. CASE r.type = "GRAMMAR"
    <2> DEFINE n == O!GramOffsetInput(r, op)
               m == Append(l, op)
    <2>1. O!Fed(r, op) = n
      BY <1>3 DEF O!Fed
    <2>2. OffsetStands(n, m) /\ n.type = "GRAMMAR" /\ DOMAIN n.occ_map = SeenIn(m)
      BY <1>3, GramOffsetStands
    <2>3. O!Successor(r, op) = [type |-> "FOLLOW"]
      BY <1>3 DEF O!Successor, O!follow_offset
    <2> HIDE DEF n, m
    <2>4. ASSUME O!Outgrown(r, op) PROVE Cardinality(SeenIn(m)) > OffsetLimit
      BY <1>3, <2>1, <2>2, <2>4 DEF O!Outgrown, O!Cardinality, Cardinality
    <2>5. m # <<>> /\ IsFiniteSet(SeenIn(m))
      BY <2>2 DEF OffsetStands
    <2>6. ASSUME O!Outgrown(r, op) PROVE OffsetStands(O!Successor(r, op), m)
      BY <2>3, <2>4, <2>5, <2>6 DEF OffsetStands
    <2> QED
      BY <1>3, <2>1, <2>2, <2>6 DEF m
  <1>4. CASE r.type = "FOLLOW"
    <2>1. O!Fed(r, op) = r
      BY <1>4 DEF O!Fed
    <2>2. ~O!Outgrown(r, op)
      BY <1>4 DEF O!Outgrown
    <2>3. "type" \in DOMAIN r /\ IsFiniteSet(SeenIn(l))
            /\ Cardinality(SeenIn(l)) > OffsetLimit
      BY <1>4 DEF OffsetStands
    <2>4. /\ IsFiniteSet(SeenIn(Append(l, op))) /\ Append(l, op) # <<>>
          /\ Cardinality(SeenIn(l)) \in Nat
          /\ Cardinality(SeenIn(Append(l, op))) \in Nat
          /\ Cardinality(SeenIn(Append(l, op))) >= Cardinality(SeenIn(l))
      BY <2>3, SeenMore, Grows
    <2>5. OffsetLimit \in Nat
      BY LimitsAssumption
    <2>6. Cardinality(SeenIn(Append(l, op))) > OffsetLimit
      BY <2>3, <2>4, <2>5
    <2> QED
      BY <1>4, <2>1, <2>2, <2>3, <2>4, <2>6 DEF OffsetStands
  <1> QED
    BY <1>1, <1>2, <1>3, <1>4 DEF OffsetStands

-----------------------------------------------------------------------------
(* The memory of representations.                                          *)

Stands(r, l) ==
  IF class = "size" THEN SizeStands(r, l) /\ SizeSums(r, l) ELSE OffsetStands(r, l)

\* A history and what is kept of it.
Remembers(r, l) == l \in Seq(Values) /\ Stands(r, l)

Memories ==
  /\ class \in {"size", "offset"}
  /\ rep = [o \in Object |-> rep[o]] /\ log = [o \in Object |-> log[o]]
  /\ \A o \in Object : instances[o] > 0 => Remembers(rep[o], log[o])

\* A representation that is made of its first value.
LEMMA NewKept ==
  ASSUME class \in {"size", "offset"}, NEW v \in Values
  PROVE  Remembers(New(v), <<v>>)
  <1>1. /\ <<v>> \in Seq(Values) /\ <<v>> # <<>> /\ Len(<<v>>) = 1
        /\ \A i \in DOMAIN <<v>> : <<v>>[i] = v
    OBVIOUS
  <1>2. SizeStands(S!simple_size(v), <<v>>) /\ SizeSums(S!simple_size(v), <<v>>)
    BY <1>1 DEF S!simple_size, SizeStands, SizeSums
  <1>3. SeenIn(<<v>>) = {v}
    BY <1>1 DEF SeenIn
  <1>4. OffsetStands(O!simple_offset(v), <<v>>)
    BY <1>1, <1>3, FS_Singleton DEF O!simple_offset, OffsetStands
  <1> QED
    BY <1>1, <1>2, <1>4 DEF Remembers, Stands, New

\* What a representation keeps for those who stay with it, and what its
\* successor takes over.
LEMMA FedKept ==
  ASSUME class \in {"size", "offset"}, NEW v \in Values, NEW r, NEW l,
         Remembers(r, l)
  PROVE  /\ r.type = "SIMPLE" /\ Outgrown(r, v) => Remembers(Fed(r, v), l)
         /\ ~(r.type = "SIMPLE" /\ Outgrown(r, v)) =>
              Remembers(Fed(r, v), Append(l, v))
         /\ Outgrown(r, v) => Remembers(Successor(r, v), Append(l, v))
  <1>1. l \in Seq(Values) /\ Append(l, v) \in Seq(Values)
    BY DEF Remembers
  <1>2. CASE class = "size"
    <2>1. v \in Size /\ l \in Seq(Size) /\ SizeStands(r, l) /\ SizeSums(r, l)
      BY <1>1, <1>2 DEF Remembers, Stands, Values
    <2>2. /\ Outgrown(r, v) = S!Outgrown(r, v) /\ Fed(r, v) = S!Fed(r, v)
          /\ Successor(r, v) = S!Successor(r, v)
      BY <1>2 DEF Outgrown, Fed, Successor
    <2> QED
      BY <1>1, <1>2, <2>1, <2>2, SizeKept, SumsFed DEF Remembers, Stands
  <1>3. CASE class = "offset"
    <2>1. v \in OffsetOp /\ l \in Seq(OffsetOp) /\ OffsetStands(r, l)
      BY <1>1, <1>3 DEF Remembers, Stands, Values
    <2>2. /\ Outgrown(r, v) = O!Outgrown(r, v) /\ Fed(r, v) = O!Fed(r, v)
          /\ Successor(r, v) = O!Successor(r, v)
      BY <1>3 DEF Outgrown, Fed, Successor
    <2> QED
      BY <1>1, <1>3, <2>1, <2>2, OffsetKept DEF Remembers, Stands
  <1> QED
    BY <1>2, <1>3

\* A tracker's representation has an instance.
LEMMA Pointed ==
  ASSUME PtrInv, NEW t \in Tracker, st[t] # None
  PROVE  st[t] \in Object /\ instances[st[t]] \in Nat \ {0}
  <1>1. /\ st \in [Tracker -> Object \cup {None}] /\ st[t] \in Object
        /\ instances[st[t]] = Cardinality(Pointing(st, st[t]))
        /\ None \in Object \cup {None}
    BY DEF PtrInv, Counts
  <1>2. Cardinality(Pointing(st, st[t])) \in Nat \ {0}
    BY <1>1, PointerLeaves
  <1> QED
    BY <1>1, <1>2

\* An object that has an instance after an operation had one, or was taken.
LEMMA HadOne ==
  ASSUME NEW n \in [Object -> Int], NEW x \in Object \cup {None}, NEW p \in Object
  PROVE  /\ Take(n, x) \in [Object -> Int] /\ Drop(n, x) \in [Object -> Int]
         /\ Drop(n, x)[p] > 0 => n[p] > 0
         /\ Take(n, x)[p] > 0 => n[p] > 0 \/ p = x
  BY DEF Take, Drop

\* Deleting what has no instance leaves the others their memory.
LEMMA DeletingKeeps ==
  ASSUME NEW r, NEW l, Deleting(r, l), instances' \in [Object -> Nat],
         class \in {"size", "offset"}, class' = class,
         \A p \in Object : instances'[p] > 0 => Remembers(r[p], l[p])
  PROVE  Memories'
  <1>1. /\ rep' = [o \in Object |-> IF instances'[o] = 0 THEN None ELSE r[o]]
        /\ log' = [o \in Object |-> IF instances'[o] = 0 THEN <<>> ELSE l[o]]
    BY DEF Deleting
  <1>2. ASSUME NEW p \in Object, instances'[p] > 0
        PROVE  Remembers(rep[p], log[p])'
    <2>1. rep'[p] = r[p] /\ log'[p] = l[p]
      BY <1>1, <1>2
    <2> QED
      BY <1>2, <2>1 DEF Remembers, Stands, Values
  <1> QED
    BY <1>1, <1>2 DEF Memories

\* No operation of the class loses what a representation remembers.
LEMMA MemoriesKept ==
  ASSUME PtrInv, PtrInv', Memories, [Next]_vars
  PROVE  Memories'
<1>1. /\ class \in {"size", "offset"}
      /\ rep = [o \in Object |-> rep[o]] /\ log = [o \in Object |-> log[o]]
      /\ \A o \in Object : instances[o] > 0 => Remembers(rep[o], log[o])
  BY DEF Memories
<1>2. /\ instances \in [Object -> Nat] /\ instances' \in [Object -> Nat]
      /\ instances \in [Object -> Int]
      /\ st \in [Tracker -> Object \cup {None}]
  BY DEF PtrInv, Counts
<1>3. ASSUME class' = class, rep' = rep, log' = log,
             \A o \in Object : instances'[o] > 0 => instances[o] > 0
      PROVE  Memories'
  BY <1>1, <1>3 DEF Memories, Remembers, Stands, Values
<1>4. ASSUME NEW o \in Free, NEW v \in Values, class' = class,
             instances' = [instances EXCEPT ![o] = 1],
             rep' = [rep EXCEPT ![o] = New(v)],
             log' = [log EXCEPT ![o] = <<v>>]
      PROVE  Memories'
  <2>1. Remembers(New(v), <<v>>) /\ o \in Object
    BY <1>1, NewKept DEF Free
  <2>2. ASSUME NEW p \in Object, instances'[p] > 0
        PROVE  Remembers(rep'[p], log'[p])
    BY <1>1, <1>2, <1>4, <2>1, <2>2
  <2>3. rep' = [p \in Object |-> rep'[p]] /\ log' = [p \in Object |-> log'[p]]
    BY <1>1, <1>4
  <2> QED
    BY <1>1, <1>4, <2>2, <2>3 DEF Memories, Remembers, Stands, Values
<1>5. ASSUME NEW t \in Tracker, Construct(t)
      PROVE  Memories'
  BY <1>3, <1>5 DEF Construct
<1>6. ASSUME NEW t \in Tracker, NEW v \in Values, ConstructFrom(t, v)
      PROVE  Memories'
  BY <1>4, <1>6 DEF ConstructFrom
<1>7. ASSUME NEW t \in Tracker, NEW u \in Tracker, Copy(t, u)
      PROVE  Memories'
  <2>1. /\ class' = class /\ rep' = rep /\ log' = log
        /\ instances' = Take(instances, st[u]) /\ st[u] \in Object \cup {None}
    BY <1>2, <1>7 DEF Copy
  <2>2. ASSUME NEW o \in Object, instances'[o] > 0
        PROVE  instances[o] > 0
    <3>1. instances[o] > 0 \/ o = st[u]
      BY <1>2, <2>1, <2>2, HadOne
    <3> QED
      BY <3>1, NoneAssumption, Pointed
  <2> QED
    BY <1>3, <2>1, <2>2
<1>8. ASSUME NEW t \in Tracker, NEW u \in Tracker, Assign(t, u)
      PROVE  Memories'
  <2> DEFINE d == Drop(instances, st[t])
  <2>1. /\ class' = class /\ Deleting(rep, log)
        /\ instances' = Take(d, st[u]) /\ st[u] # None
        /\ st[u] \in Object \cup {None} /\ st[t] \in Object \cup {None}
    BY <1>2, <1>8 DEF Assign
  <2>2. ASSUME NEW o \in Object, instances'[o] > 0
        PROVE  Remembers(rep[o], log[o])
    <3>1. d \in [Object -> Int] /\ (d[o] > 0 => instances[o] > 0)
      BY <1>2, <2>1, HadOne
    <3> HIDE DEF d
    <3>2. d[o] > 0 \/ o = st[u]
      BY <2>1, <2>2, <3>1, HadOne
    <3>3. instances[o] > 0
      BY <2>1, <3>1, <3>2, Pointed
    <3> QED
      BY <1>1, <3>3
  <2> QED
    BY <1>1, <1>2, <2>1, <2>2, DeletingKeeps
<1>9. ASSUME NEW t \in Tracker, Destroy(t)
      PROVE  Memories'
  <2>1. /\ class' = class /\ Deleting(rep, log)
        /\ instances' = Drop(instances, st[t]) /\ st[t] \in Object \cup {None}
    BY <1>2, <1>9 DEF Destroy
  <2>2. ASSUME NEW o \in Object, instances'[o] > 0
        PROVE  Remembers(rep[o], log[o])
    BY <1>1, <1>2, <2>1, <2>2, HadOne
  <2> QED
    BY <1>1, <1>2, <2>1, <2>2, DeletingKeeps
<1>10. ASSUME NEW t \in Tracker, NEW v \in Values, InputFirst(t, v)
       PROVE  Memories'
  <2>1. PICK o \in Free :
          /\ instances' = Drop(Take([instances EXCEPT ![o] = 1], o), o)
          /\ rep' = [rep EXCEPT ![o] = New(v)]
          /\ log' = [log EXCEPT ![o] = <<v>>]
    BY <1>10 DEF InputFirst
  <2>2. o \in Object /\ instances[o] = 0 /\ class' = class
    BY <1>10 DEF Free, InputFirst
  <2>3. instances' = [instances EXCEPT ![o] = 1]
    BY <1>2, <2>1, <2>2, TakeFree
  <2> QED
    BY <1>4, <2>1, <2>2, <2>3
<1>11. ASSUME NEW t \in Tracker, NEW v \in Values, InputShared(t, v)
       PROVE  Memories'
  <2> DEFINE o == st[t]
             r == Fed(rep[o], v)
             l == Append(log[o], v)
  <2>1. /\ ~Outgrown(rep[o], v) /\ o # None
        /\ rep' = [rep EXCEPT ![o] = r] /\ log' = [log EXCEPT ![o] = l]
        /\ class' = class /\ instances' = instances
    BY <1>11 DEF InputShared, Feedable
  <2>2. o \in Object /\ instances[o] > 0
    BY <2>1, Pointed
  <2>3. Remembers(r, l)
    BY <1>1, <2>1, <2>2, FedKept
  <2> HIDE DEF o, r, l
  <2>4. ASSUME NEW p \in Object, instances'[p] > 0
        PROVE  Remembers(rep'[p], log'[p])
    BY <1>1, <2>1, <2>2, <2>3, <2>4
  <2>5. rep' = [p \in Object |-> rep'[p]] /\ log' = [p \in Object |-> log'[p]]
    BY <1>1, <2>1
  <2> QED
    BY <1>1, <2>1, <2>4, <2>5 DEF Memories, Remembers, Stands, Values
<1>12. ASSUME NEW t \in Tracker, NEW v \in Values, InputOutgrown(t, v)
       PROVE  Memories'
  <2> DEFINE q == st[t]
             d == Drop(instances, q)
             r == Fed(rep[q], v)
             l == Left(q, v)
             rn == Successor(rep[q], v)
             ln == Append(log[q], v)
  <2>1. PICK o \in Free :
          /\ instances' = [d EXCEPT ![o] = 1]
          /\ Deleting([rep EXCEPT ![q] = r, ![o] = rn],
                      [log EXCEPT ![q] = l, ![o] = ln])
    BY <1>12 DEF InputOutgrown
  <2>2. q # None /\ Outgrown(rep[q], v) /\ class' = class
    BY <1>12 DEF InputOutgrown, Feedable
  <2>3. q \in Object /\ instances[q] > 0 /\ o \in Object /\ instances[o] = 0
    BY <2>2, Pointed DEF Free
  <2>4. Remembers(rep[q], log[q])
    BY <1>1, <2>3
  <2>5. Remembers(r, l) /\ Remembers(rn, ln)
    BY <1>1, <2>2, <2>4, FedKept DEF Left
  <2>6. d \in [Object -> Int] /\ \A p \in Object : d[p] > 0 => instances[p] > 0
    BY <1>2, <2>3, HadOne
  <2> HIDE DEF d, r, l, rn, ln, q
  <2>7. ASSUME NEW p \in Object, instances'[p] > 0
        PROVE  Remembers([rep EXCEPT ![q] = r, ![o] = rn][p],
                         [log EXCEPT ![q] = l, ![o] = ln][p])
    <3>1. CASE p = o
      BY <1>1, <2>3, <2>5, <3>1
    <3>2. CASE p = q
      BY <1>1, <2>3, <2>5, <3>2
    <3>3. CASE p # o /\ p # q
      <4>1. instances[p] > 0
        BY <2>1, <2>6, <2>7, <3>3
      <4> QED
        BY <1>1, <2>3, <3>3, <4>1
    <3> QED
      BY <3>1, <3>2, <3>3
  <2> QED
    BY <1>1, <1>2, <2>1, <2>2, <2>7, DeletingKeeps
<1>13. CASE UNCHANGED vars
  BY <1>3, <1>13 DEF vars
<1> QED
  BY <1>5, <1>6, <1>7, <1>8, <1>9, <1>10, <1>11, <1>12, <1>13 DEF Next

\* A representation remembers its history.
LEMMA MemoriesHold == Spec => [](PtrInv /\ Memories)
<1>1. Init => Memories
  BY DEF Init, Memories
<1>2. PtrInv /\ PtrInv' /\ Memories /\ [Next]_vars => Memories'
  BY MemoriesKept
<1> QED
  BY <1>1, <1>2, PtrInvHolds, PTL DEF Spec

\* What a tracker holds is what its history says, for any trackers of either
\* class that are copied, assigned and fed in any order, and any limits.
THEOREM Remembering == Spec => []HistoryKept
<1>1. ASSUME PtrInv, Memories PROVE HistoryKept
  <2> SUFFICES ASSUME NEW o \in Object, instances[o] > 0 PROVE Kept(o)
    BY <1>1 DEF HistoryKept
  <2>1. /\ class \in {"size", "offset"} /\ log[o] \in Seq(Values)
        /\ Stands(rep[o], log[o])
    BY <1>1 DEF Memories, Remembers
  <2>2. ASSUME NEW map, NEW inv, NEW last,
               Learned(log[o], rep[o].occurences, rep[o].occ_map, map, inv,
                       rep[o].last, rep[o].o)
        PROVE  Knows(o, map, inv)
    BY <2>2 DEF Learned, CountsSymbols, Knows, Seen, TimesIn, Places
  <2>3. ASSUME NEW x, \A i \in DOMAIN log[o] : log[o][i] = x
        PROVE  log[o] = [i \in 1 .. Len(log[o]) |-> x]
    BY <2>1, <2>3
  <2>4. Seen(o) = SeenIn(log[o])
    BY DEF Seen, SeenIn
  <2>5. CASE class = "size"
    <3>1. SizeStands(rep[o], log[o])
      BY <2>1, <2>5 DEF Stands
    <3>2. CASE rep[o].type = "SIMPLE"
      <4>1. /\ rep[o].occurences = Len(log[o])
            /\ \A i \in DOMAIN log[o] : log[o][i] = rep[o].size
        BY <3>1, <3>2 DEF SizeStands
      <4>2. log[o] = [i \in 1 .. rep[o].occurences |-> rep[o].size]
        BY <2>3, <4>1
      <4> QED
        BY <2>5, <3>2, <4>2 DEF Kept
    <3>3. CASE rep[o].type = "GRAMMAR"
      <4>1. Knows(o, rep[o].size_map, rep[o].symbols_size)
        BY <2>2, <3>1, <3>3 DEF SizeStands
      <4> QED
        BY <2>5, <3>3, <4>1 DEF Kept
    <3>4. CASE rep[o].type = "AVERAGE"
      BY <2>5, <3>1, <3>4 DEF SizeStands, Kept
    <3> QED
      BY <3>1, <3>2, <3>3, <3>4 DEF SizeStands
  <2>6. CASE class = "offset"
    <3>1. OffsetStands(rep[o], log[o])
      BY <2>1, <2>6 DEF Stands
    <3>2. CASE rep[o].type = "SIMPLE"
      <4>1. /\ rep[o].occurences = Len(log[o])
            /\ \A i \in DOMAIN log[o] : log[o][i] = rep[o].offset
        BY <3>1, <3>2 DEF OffsetStands
      <4>2. log[o] = [i \in 1 .. rep[o].occurences |-> rep[o].offset]
        BY <2>3, <4>1
      <4> QED
        BY <2>6, <3>2, <4>2 DEF Kept
    <3>3. CASE rep[o].type = "GRAMMAR"
      <4>1. /\ Knows(o, rep[o].offset_map, rep[o].symbols_offset)
            /\ rep[o].last_off = log[o][Len(log[o])]
        BY <2>2, <3>1, <3>3 DEF OffsetStands
      <4> QED
        BY <2>6, <3>3, <4>1 DEF Kept
    <3>4. CASE rep[o].type = "FOLLOW"
      BY <2>4, <2>6, <3>1, <3>4 DEF OffsetStands, Kept
    <3> QED
      BY <3>1, <3>2, <3>3, <3>4 DEF OffsetStands
  <2> QED
    BY <2>1, <2>5, <2>6
<1>2. PtrInv /\ Memories => HistoryKept
  BY <1>1
<1> QED
  BY <1>2, MemoriesHold, PTL

\* The sum that a mean is computed from is that of all sizes fed, for any trackers
\* of sizes that are copied, assigned and fed in any order, and any limit.
THEOREM Summing == Spec => []SumsKept
<1>1. ASSUME Memories PROVE SumsKept
  <2> SUFFICES ASSUME NEW o \in Object, instances[o] > 0, class = "size",
                      rep[o].type # "SIMPLE"
               PROVE  rep[o].sum = S!MapThenSumSet(LAMBDA i : log[o][i], DOMAIN log[o])
    BY DEF SumsKept
  <2>1. SizeSums(rep[o], log[o])
    BY <1>1 DEF Memories, Remembers, Stands
  <2> DEFINE l == log[o]
  <2>2. rep[o].sum = Sum(l)
    BY <2>1 DEF SizeSums
  <2> HIDE DEF l
  <2>3. S!MapThenSumSet(LAMBDA i : l[i], DOMAIN l) = Sum(l)
    BY IsTotal DEF Sum
  <2> QED
    BY <2>2, <2>3 DEF l
<1>2. Memories => SumsKept
  BY <1>1
<1> QED
  BY <1>2, MemoriesHold, PTL

-----------------------------------------------------------------------------
(* What is predicted.                                                      *)

\* A rounded mean of sizes that differ is among them.
LEMMA TruncatedWithin ==
  ASSUME NEW l \in Seq(Nat), NEW lo \in Nat, NEW hi \in Nat,
         \A i \in DOMAIN l : lo <= l[i] /\ l[i] <= hi,
         \E i, j \in DOMAIN l : l[i] # l[j],
         NEW p \in S!Truncated(Sum(l), Len(l))
  PROVE  lo <= p /\ p <= hi
  <1>1. PICK i \in DOMAIN l : lo < l[i]
    <2>1. PICK i \in DOMAIN l, j \in DOMAIN l : l[i] # l[j]
      OBVIOUS
    <2>2. l[i] \in Nat /\ l[j] \in Nat /\ lo <= l[i] /\ lo <= l[j]
      BY <2>1
    <2>3. lo < l[i] \/ lo < l[j]
      BY <2>1, <2>2
    <2> QED
      BY <2>1, <2>3
  <1>2. PICK k \in DOMAIN l : l[k] < hi
    <2>1. PICK m \in DOMAIN l, j \in DOMAIN l : l[m] # l[j]
      OBVIOUS
    <2>2. l[m] \in Nat /\ l[j] \in Nat /\ l[m] <= hi /\ l[j] <= hi
      BY <2>1
    <2>3. l[m] < hi \/ l[j] < hi
      BY <2>1, <2>2
    <2> QED
      BY <2>1, <2>3
  <1>3. lo * Len(l) < Sum(l) /\ Sum(l) < hi * Len(l)
    BY <1>1, <1>2, SumBounds
  <1>4. Len(l) \in Nat \ {0}
    BY <1>1
  <1>5. Sum(l) \in Nat
    <2>1. PICK x \in Nat : TRUE
      OBVIOUS
    <2> QED
      BY <2>1, SumGrows
  <1>6. PICK x \in Sum(l) - 1 .. Sum(l) + 1 : p = x \div Len(l)
    BY DEF S!Truncated
  <1> QED
    BY <1>3, <1>4, <1>5, <1>6, Rounded

\* The symbols that may follow are among those read.
LEMMA FollowersRead ==
  ASSUME NEW V, NEW g \in Seq(V)
  PROVE  /\ \A p \in S!Followers(g) : \E i \in DOMAIN g : g[i] = p
         /\ \A p \in O!Followers(g) : \E i \in DOMAIN g : g[i] = p
  <1>1. ASSUME NEW j \in 1 .. Len(g) - 1 PROVE j + 1 \in DOMAIN g
    OBVIOUS
  <1> QED
    BY <1>1 DEF S!Followers, O!Followers

\* The value of a symbol that a grammar has read was seen.
LEMMA SymbolSeen ==
  ASSUME NEW V, NEW l \in Seq(V), NEW n, NEW occ, NEW map, NEW inv, NEW last, NEW g,
         Learned(l, n, occ, map, inv, last, g)
  PROVE  /\ \A p \in S!Followers(g) : inv[p] \in SeenIn(l)
         /\ \A p \in O!Followers(g) : inv[p] \in SeenIn(l)
  <1>1. /\ g = [i \in DOMAIN l |-> map[l[i]]]
        /\ DOMAIN map = SeenIn(l)
        /\ \A v \in DOMAIN map : map[v] \in 0 .. last - 1 /\ inv[map[v]] = v
        /\ last \in Nat
    BY DEF Learned, CountsSymbols, SeenIn
  <1>2. \A i \in DOMAIN g : g[i] \in Nat /\ inv[g[i]] \in SeenIn(l)
    <2>1. \A i \in DOMAIN g : i \in DOMAIN l /\ g[i] = map[l[i]] /\ l[i] \in SeenIn(l)
      BY <1>1 DEF SeenIn
    <2> QED
      BY <1>1, <2>1
  <1>3. g \in Seq(Nat)
    <2> DEFINE k == Len(l)
    <2>1. k \in Nat /\ DOMAIN l = 1 .. k
      OBVIOUS
    <2>2. g = [i \in 1 .. k |-> g[i]] /\ \A i \in 1 .. k : g[i] \in Nat
      BY <1>1, <1>2, <2>1
    <2> HIDE DEF k
    <2> QED
      BY <2>1, <2>2
  <1>4. /\ \A p \in S!Followers(g) : \E i \in DOMAIN g : g[i] = p
        /\ \A p \in O!Followers(g) : \E i \in DOMAIN g : g[i] = p
    BY <1>3, FollowersRead
  <1> QED
    BY <1>2, <1>4

\* A mean that is weighted by how often its sizes were seen is among them.
LEMMA WeightedWithin ==
  ASSUME NEW l \in Seq(Nat), NEW lo \in Nat, NEW hi \in Nat,
         \A v \in SeenIn(l) : lo <= v /\ v <= hi,
         NEW occ, CountsSymbols(occ, l), NEW T \in SUBSET SeenIn(l), T # {}
  PROVE  /\ lo <= Total(Weights(occ), T) \div Total(occ, T)
         /\ Total(Weights(occ), T) \div Total(occ, T) <= hi
  <1>1. /\ IsFiniteSet(DOMAIN occ) /\ DOMAIN occ = SeenIn(l) /\ DOMAIN occ \subseteq Nat
        /\ \A v \in DOMAIN occ : occ[v] \in Nat \ {0}
    BY CountsAre DEF CountsSymbols, SeenIn
  <1>2. IsFiniteSet(T) /\ T \in SUBSET DOMAIN occ
    BY <1>1, FS_Subset
  <1>3. \A v \in T : lo <= v /\ v <= hi
    OBVIOUS
  <1> QED
    BY <1>1, <1>2, <1>3, WeightedMean

\* Every answer of a representation of sizes is among the sizes it was fed with.
LEMMA SizesWithin ==
  ASSUME NEW l \in Seq(Size), NEW r, SizeStands(r, l), SizeSums(r, l),
         NEW p \in S!Predictions(r)
  PROVE  \E v, w \in SeenIn(l) : v <= p /\ p <= w
  <1>1. l \in Seq(Nat) /\ l # <<>>
    BY SizeAssumption DEF SizeStands
  <1>2. PICK lo \in SeenIn(l), hi \in SeenIn(l) :
           \A v \in SeenIn(l) : lo <= v /\ v <= hi
    <2> DEFINE f == [v \in SeenIn(l) |-> Cardinality(Places(l, v))]
    <2>1. CountsSymbols(f, l)
      BY DEF CountsSymbols, SeenIn
    <2>2. DOMAIN f = SeenIn(l)
      OBVIOUS
    <2> HIDE DEF f
    <2>3. IsFiniteSet(SeenIn(l)) /\ SeenIn(l) \in SUBSET Nat
      <3>1. IsFiniteSet(DOMAIN f) /\ DOMAIN f \subseteq Nat
        BY <1>1, <2>1, CountsAre
      <3> QED
        BY <2>2, <3>1
    <2>4. SeenIn(l) # {}
      <3>1. 1 \in DOMAIN l
        BY <1>1
      <3> QED
        BY <3>1 DEF SeenIn
    <2> QED
      BY <2>3, <2>4, Extremes
  <1>3. lo \in Nat /\ hi \in Nat
    BY <1>1 DEF SeenIn
  <1>4. \A i \in DOMAIN l : lo <= l[i] /\ l[i] <= hi
    BY <1>2 DEF SeenIn
  <1>5. SUFFICES lo <= p /\ p <= hi
    OBVIOUS
  <1>6. ASSUME r.type # "SIMPLE", r.occurences = Len(l),
               p \in S!Truncated(r.sum, r.occurences)
        PROVE  lo <= p /\ p <= hi
    <2>1. r.sum = Sum(l) /\ \E i, j \in DOMAIN l : l[i] # l[j]
      BY <1>6 DEF SizeSums
    <2> QED
      BY <1>1, <1>3, <1>4, <1>6, <2>1, TruncatedWithin
  <1>7. CASE r.type = "SIMPLE"
    <2>1. p = r.size /\ \A i \in DOMAIN l : l[i] = r.size
      BY <1>7 DEF S!Predictions, SizeStands
    <2>2. 1 \in DOMAIN l
      BY <1>1
    <2> QED
      BY <1>4, <2>1, <2>2
  <1>8. CASE r.type = "AVERAGE"
    <2>1. p \in S!Truncated(r.sum, r.occurences) /\ r.occurences = Len(l)
      BY <1>8 DEF S!Predictions, SizeStands
    <2> QED
      BY <1>6, <1>8, <2>1
  <1>9. CASE r.type = "GRAMMAR"
    <2>1. /\ r.occurences = Len(l) /\ CountsSymbols(r.occ_map, l)
          /\ Learned(l, r.occurences, r.occ_map, r.size_map, r.symbols_size,
                     r.last, r.o)
      BY <1>9 DEF SizeStands, Learned
    <2>2. PICK P \in SUBSET S!Followers(r.o) : p \in S!GramSizePredict(r, P)
      BY <1>9 DEF S!Predictions
    <2>3. CASE P = {}
      <3>1. p \in S!Truncated(r.sum, r.occurences)
        BY <2>2, <2>3 DEF S!GramSizePredict
      <3> QED
        BY <1>6, <1>9, <2>1, <3>1
    <2>4. CASE P # {}
      <3> DEFINE T == {r.symbols_size[q] : q \in P}
                 occ == r.occ_map
      <3>1. p = S!MapThenSumSet(LAMBDA s : s * occ[s], T)
                  \div S!MapThenSumSet(LAMBDA s : occ[s], T)
        BY <2>2, <2>4 DEF S!GramSizePredict
      <3>2. T \in SUBSET SeenIn(l) /\ T # {}
        <4>1. \A q \in P : r.symbols_size[q] \in SeenIn(l)
          BY <1>1, <2>1, <2>2, SymbolSeen
        <4> QED
          BY <2>4, <4>1
      <3> HIDE DEF T, occ
      <3>3. CountsSymbols(occ, l)
        BY <2>1 DEF occ
      <3>4. IsFiniteSet(T) /\ T \in SUBSET DOMAIN occ
        <4>1. IsFiniteSet(DOMAIN occ) /\ DOMAIN occ = SeenIn(l)
          BY <1>1, <3>3, CountsAre DEF CountsSymbols, SeenIn
        <4> QED
          BY <3>2, <4>1, FS_Subset
      <3>5. S!MapThenSumSet(LAMBDA s : s * occ[s], T) = Total(Weights(occ), T)
        BY <3>4, IsWeighted
      <3>6. S!MapThenSumSet(LAMBDA s : occ[s], T) = Total(occ, T)
        BY IsTotal
      <3>7. p = Total(Weights(occ), T) \div Total(occ, T)
        BY <3>1, <3>5, <3>6
      <3>8. /\ lo <= Total(Weights(occ), T) \div Total(occ, T)
            /\ Total(Weights(occ), T) \div Total(occ, T) <= hi
        BY <1>1, <1>2, <1>3, <3>2, <3>3, WeightedWithin
      <3> QED
        BY <3>7, <3>8
    <2> QED
      BY <2>3, <2>4
  <1> QED
    BY <1>7, <1>8, <1>9 DEF SizeStands

\* Every answer of a representation of offsets was seen, or is "following".
LEMMA OffsetsWithin ==
  ASSUME NEW l \in Seq(OffsetOp), NEW r, OffsetStands(r, l), NEW p \in O!Predictions(r)
  PROVE  p \in SeenIn(l) \/ p.type = "FOLLOWING"
  <1>1. l # <<>>
    BY DEF OffsetStands
  <1>2. 1 \in DOMAIN l /\ Len(l) \in DOMAIN l
    BY <1>1
  <1>3. CASE r.type = "SIMPLE"
    <2>1. p = r.offset /\ \A i \in DOMAIN l : l[i] = r.offset
      BY <1>3 DEF O!Predictions, OffsetStands
    <2> QED
      BY <1>2, <2>1 DEF SeenIn
  <1>4. CASE r.type = "GRAMMAR"
    <2>1. /\ r.last_off = l[Len(l)]
          /\ Learned(l, r.occurences, r.occ_map, r.offset_map, r.symbols_offset,
                     r.last, r.o)
      BY <1>4 DEF OffsetStands
    <2>2. PICK P \in SUBSET O!Followers(r.o) :
            p = IF O!Cardinality(P) = 1
                THEN r.symbols_offset[CHOOSE q \in P : TRUE] ELSE r.last_off
      BY <1>4 DEF O!Predictions
    <2>3. CASE O!Cardinality(P) = 1
      <3>1. P # {}
        <4>1. O!Cardinality({}) = Cardinality({})
          BY DEF O!Cardinality, Cardinality
        <4>2. O!Cardinality({}) # 1
          BY <4>1, FS_EmptySet
        <4> QED
          BY <2>3, <4>2
      <3> DEFINE q == CHOOSE q \in P : TRUE
      <3>2. q \in P
        BY <3>1
      <3>3. p = r.symbols_offset[q]
        BY <2>2, <2>3
      <3> HIDE DEF q
      <3>4. r.symbols_offset[q] \in SeenIn(l)
        BY <2>1, <2>2, <3>2, SymbolSeen
      <3> QED
        BY <3>3, <3>4
    <2>4. CASE O!Cardinality(P) # 1
      BY <1>2, <2>1, <2>2, <2>4 DEF SeenIn
    <2> QED
      BY <2>3, <2>4
  <1>5. CASE r.type = "FOLLOW"
    BY <1>5 DEF O!Predictions, O!following
  <1> QED
    BY <1>3, <1>4, <1>5 DEF OffsetStands

\* What is predicted lies between what was seen, or was seen, or is "following",
\* for any trackers, any values and limits, and any answers of their oracles.
THEOREM Predicting == Spec => []PredictsSeen
<1>1. ASSUME Memories PROVE PredictsSeen
  <2> SUFFICES ASSUME NEW o \in Object, instances[o] > 0
               PROVE  IF class = "size"
                      THEN \A p \in S!Predictions(rep[o]) :
                             \E v, w \in Seen(o) : v <= p /\ p <= w
                      ELSE \A p \in O!Predictions(rep[o]) :
                             p \in Seen(o) \/ p.type = "FOLLOWING"
    BY DEF PredictsSeen
  <2>1. /\ class \in {"size", "offset"} /\ log[o] \in Seq(Values)
        /\ Stands(rep[o], log[o])
    BY <1>1 DEF Memories, Remembers
  <2>2. Seen(o) = SeenIn(log[o])
    BY DEF Seen, SeenIn
  <2>3. CASE class = "size"
    <3>1. /\ log[o] \in Seq(Size)
          /\ SizeStands(rep[o], log[o]) /\ SizeSums(rep[o], log[o])
      BY <2>1, <2>3 DEF Stands, Values
    <3> QED
      BY <2>2, <2>3, <3>1, SizesWithin
  <2>4. CASE class = "offset"
    <3>1. log[o] \in Seq(OffsetOp) /\ OffsetStands(rep[o], log[o])
      BY <2>1, <2>4 DEF Stands, Values
    <3> QED
      BY <2>2, <2>4, <3>1, OffsetsWithin
  <2> QED
    BY <2>1, <2>3, <2>4
<1>2. Memories => PredictsSeen
  BY <1>1
<1> QED
  BY <1>2, MemoriesHold, PTL

===============================================================================
