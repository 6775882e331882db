----------------------------- MODULE HeapProofs -----------------------------
(***************************************************************************)
(* Proofs about the heap of module Symbols: what every operation on nodes, *)
(* rules and the table of digrams does to a heap that is sound (Core), for *)
(* any terminals, allocator and heap.  Core is what the operations of      *)
(* symbols.cpp and rules.cpp keep between two steps: rules are rings of    *)
(* nodes that know their rule, no rule is used within itself (a Ranking),  *)
(* the table names digrams that exist, rules know and count their users,   *)
(* and no address is in use twice.  Sound adds what holds between two      *)
(* calls, that the root alone is in no list; then come the rules that a    *)
(* change leaves alike (Alike), and how long the rules are.                *)
(***************************************************************************)
EXTENDS OracleProperties, SequenceTheorems, FiniteSetTheorems, WellFoundedInduction, TLAPS

\* The fields of a heap, of a node and of a rule.
HeapFields == {"sym", "rule", "table", "predictions", "brk", "rbrk", "free",
               "rfree", "stale"}
NodeFields == {"n", "p", "s", "owner", "pred", "preds", "upd", "next"}
RuleFields == {"guard", "count", "users"}

\* A heap, its nodes and its rules have their fields.
IsHeap(h) ==
  /\ DOMAIN h = HeapFields
  /\ \A a \in DOMAIN h.sym :
       /\ DOMAIN h.sym[a] = NodeFields
       /\ h.sym[a].pred \in BOOLEAN /\ h.sym[a].upd \in BOOLEAN
       /\ h.sym[a].next.pred \in BOOLEAN
  /\ \A r \in DOMAIN h.rule : DOMAIN h.rule[r] = RuleFields

\* Same grammar but for the digram table.
SameLists(h, k) ==
  /\ DOMAIN k.sym = DOMAIN h.sym
  /\ \A a \in DOMAIN h.sym :
       /\ k.sym[a].n = h.sym[a].n /\ k.sym[a].p = h.sym[a].p
       /\ k.sym[a].s = h.sym[a].s /\ k.sym[a].owner = h.sym[a].owner
  /\ k.rule = h.rule
  /\ k.brk = h.brk /\ k.rbrk = h.rbrk /\ k.free = h.free /\ k.rfree = h.rfree

\* Entering a digram changes at most its own entry of the table.
LEMMA SetDigramIs ==
  ASSUME NEW h, IsHeap(h), NEW a
  PROVE  LET k == SetDigram(h, a)
         IN  /\ IsHeap(k) /\ k.sym = h.sym /\ SameLists(h, k)
             /\ NoDigram(h, a) => k.table = h.table
             /\ ~NoDigram(h, a) =>
                  /\ DOMAIN k.table = DOMAIN h.table \cup {Digram(h, a)}
                  /\ k.table[Digram(h, a)] = a
                  /\ \A d \in DOMAIN h.table : d # Digram(h, a) => k.table[d] = h.table[d]
  BY DEF SetDigram, IsHeap, SameLists, HeapFields, Put

\* Deleting a digram removes its entry if the entry names the node.
LEMMA DeleteDigramIs ==
  ASSUME NEW h, IsHeap(h), NEW a
  PROVE  LET k == DeleteDigram(h, a)
         IN  /\ IsHeap(k) /\ k.sym = h.sym /\ SameLists(h, k)
             /\ DOMAIN k.table = {d \in DOMAIN h.table :
                   ~(d = Digram(h, a) /\ h.table[d] = a /\ ~NoDigram(h, a))}
             /\ \A d \in DOMAIN k.table : k.table[d] = h.table[d]
<1> DEFINE k == DeleteDigram(h, a)
<1>1. CASE ~NoDigram(h, a) /\ Digram(h, a) \in DOMAIN h.table /\ h.table[Digram(h, a)] = a
  BY <1>1 DEF DeleteDigram, IsHeap, SameLists, HeapFields, Without
<1>2. CASE ~(~NoDigram(h, a) /\ Digram(h, a) \in DOMAIN h.table /\ h.table[Digram(h, a)] = a)
  <2>1. k = h
    BY <1>2 DEF DeleteDigram
  <2> QED
    BY <2>1, <1>2 DEF SameLists
<1> QED
  BY <1>1, <1>2

\* What Join does to the lists, on any heap.
Joined(h, left, right, k) ==
  /\ DOMAIN k.sym = DOMAIN h.sym
  /\ \A a \in DOMAIN h.sym :
       /\ k.sym[a].n = IF a = left THEN right ELSE h.sym[a].n
       /\ k.sym[a].p = IF a = right THEN left ELSE h.sym[a].p
       /\ k.sym[a].owner = IF a = right THEN h.sym[left].owner ELSE h.sym[a].owner
       /\ k.sym[a].s = h.sym[a].s
  /\ k.rule = h.rule
  /\ k.brk = h.brk /\ k.rbrk = h.rbrk /\ k.free = h.free /\ k.rfree = h.rfree

\* and to the table: an entry that join does not set was there, and is not left's.
JoinedTable(h, left, right, k) ==
  \A d \in DOMAIN k.table :
    \/ /\ d \in DOMAIN h.table /\ k.table[d] = h.table[d]
       /\ ~(h.table[d] = left /\ d = Digram(h, left) /\ h.sym[left].n # Null /\ ~NoDigram(h, left))
    \/ /\ h.sym[left].n # Null /\ ~IsGuard(h, left)
       /\ Triple(h, right) /\ k.table[d] = right
       /\ d = Digram(h, right) /\ ~NoDigram(h, right)
    \/ /\ h.sym[left].n # Null /\ ~IsGuard(h, left)
       /\ Triple(h, left) /\ k.table[d] = h.sym[left].p
       /\ d = Digram(h, h.sym[left].p) /\ ~NoDigram(h, h.sym[left].p)

\* What is said of a digram depends on the nodes and the rules only.
LEMMA SameSym ==
  ASSUME NEW h, NEW k, k.sym = h.sym, k.rule = h.rule, NEW a
  PROVE  /\ IsGuard(k, a) <=> IsGuard(h, a)
         /\ NoDigram(k, a) <=> NoDigram(h, a)
         /\ Triple(k, a) <=> Triple(h, a)
         /\ Digram(k, a) = Digram(h, a)
  BY DEF IsGuard, NoDigram, Triple, Digram, First

\* Every entry after the first half of a join is an old one or one of the two a run of equal symbols enters.
LEMMA UnlinkIs ==
  ASSUME NEW h, IsHeap(h), NEW left, NEW right
  PROVE  LET k == Unlink(h, left, right)
         IN  /\ IsHeap(k) /\ k.sym = h.sym /\ SameLists(h, k)
             /\ \A d \in DOMAIN k.table :
                  \/ /\ d \in DOMAIN h.table /\ k.table[d] = h.table[d]
                     /\ ~(h.table[d] = left /\ d = Digram(h, left) /\ ~NoDigram(h, left))
                  \/ /\ Triple(h, right) /\ k.table[d] = right
                     /\ d = Digram(h, right) /\ ~NoDigram(h, right)
                  \/ /\ Triple(h, left) /\ k.table[d] = h.sym[left].p
                     /\ d = Digram(h, h.sym[left].p) /\ ~NoDigram(h, h.sym[left].p)
<1> DEFINE g1 == DeleteDigram(h, left)
           g2 == IF Triple(g1, right) THEN SetDigram(g1, right) ELSE g1
           q  == g2.sym[left].p
           g3 == IF Triple(g2, left) THEN SetDigram(g2, q) ELSE g2
<1>1. /\ IsHeap(g1) /\ g1.sym = h.sym /\ SameLists(h, g1)
      /\ \A d \in DOMAIN g1.table :
           /\ d \in DOMAIN h.table /\ g1.table[d] = h.table[d]
           /\ ~(h.table[d] = left /\ d = Digram(h, left) /\ ~NoDigram(h, left))
  BY DeleteDigramIs
<1>2. /\ Triple(g1, right) <=> Triple(h, right)
      /\ NoDigram(g1, right) <=> NoDigram(h, right)
      /\ Digram(g1, right) = Digram(h, right)
  BY <1>1, SameSym DEF SameLists
<1> HIDE DEF g1
<1>3. /\ IsHeap(g2) /\ g2.sym = h.sym /\ SameLists(h, g2)
      /\ \A d \in DOMAIN g2.table :
           \/ /\ d \in DOMAIN h.table /\ g2.table[d] = h.table[d]
              /\ ~(h.table[d] = left /\ d = Digram(h, left) /\ ~NoDigram(h, left))
           \/ /\ Triple(h, right) /\ g2.table[d] = right
              /\ d = Digram(h, right) /\ ~NoDigram(h, right)
  <2>1. CASE Triple(g1, right)
    <3>1. g2 = SetDigram(g1, right)
      BY <2>1
    <3> HIDE DEF g2
    <3> QED
      BY <3>1, <2>1, <1>1, <1>2, SetDigramIs DEF SameLists
  <2>2. CASE ~Triple(g1, right)
    BY <2>2, <1>1
  <2> QED
    BY <2>1, <2>2
<1> HIDE DEF g2
<1>4. /\ Triple(g2, left) <=> Triple(h, left)
      /\ NoDigram(g2, q) <=> NoDigram(h, q)
      /\ Digram(g2, q) = Digram(h, q)
      /\ q = h.sym[left].p
  BY <1>3, SameSym DEF SameLists
<1>5. /\ IsHeap(g3) /\ g3.sym = h.sym /\ SameLists(h, g3)
      /\ \A d \in DOMAIN g3.table :
           \/ d \in DOMAIN g2.table /\ g3.table[d] = g2.table[d]
           \/ /\ Triple(h, left) /\ g3.table[d] = q
              /\ d = Digram(h, q) /\ ~NoDigram(h, q)
  <2>1. CASE Triple(g2, left)
    <3>1. g3 = SetDigram(g2, q)
      BY <2>1
    <3> HIDE DEF g3, q
    <3>2. NoDigram(g2, q) => g3 = g2
      BY <3>1 DEF SetDigram
    <3> QED
      BY <3>1, <2>1, <1>3, <1>4, SetDigramIs DEF SameLists
  <2>2. CASE ~Triple(g2, left)
    BY <2>2, <1>3
  <2> QED
    BY <2>1, <2>2
<1>6. g3 = Unlink(h, left, right)
  BY DEF Unlink, g1, g2
<1> HIDE DEF g3, q
<1> QED
  BY <1>3, <1>4, <1>5, <1>6

\* Joining two nodes of the heap: the links it changes and the entries it leaves.
LEMMA JoinIs ==
  ASSUME NEW h, IsHeap(h), NEW left \in DOMAIN h.sym, NEW right \in DOMAIN h.sym
  PROVE  LET k == Join(h, left, right)
         IN  IsHeap(k) /\ Joined(h, left, right, k) /\ JoinedTable(h, left, right, k)
<1> DEFINE g1 == IF h.sym[left].n # Null /\ ~IsGuard(h, left)
                 THEN Unlink(h, left, right) ELSE h
           k == Join(h, left, right)
<1>1. /\ IsHeap(g1) /\ g1.sym = h.sym /\ SameLists(h, g1) /\ JoinedTable(h, left, right, g1)
  <2>1. CASE h.sym[left].n # Null /\ ~IsGuard(h, left)
    <3>1. g1 = Unlink(h, left, right)
      BY <2>1
    <3> HIDE DEF g1
    <3> QED
      BY <3>1, <2>1, UnlinkIs DEF JoinedTable
  <2>2. CASE ~(h.sym[left].n # Null /\ ~IsGuard(h, left))
    BY <2>2 DEF JoinedTable, SameLists, NoDigram
  <2> QED
    BY <2>1, <2>2
<1>2. k = Link(g1, left, right)
  BY DEF Join
<1> HIDE DEF g1, k
<1>3. /\ DOMAIN k = DOMAIN g1 /\ k.rule = g1.rule /\ k.table = g1.table
      /\ k.brk = g1.brk /\ k.rbrk = g1.rbrk /\ k.free = g1.free /\ k.rfree = g1.rfree
  BY <1>1, <1>2 DEF Link, IsHeap, HeapFields
<1> DEFINE u == [h.sym EXCEPT ![right].owner = h.sym[left].owner]
           v == [u EXCEPT ![left].n = right]
           w == [v EXCEPT ![right].p = left]
<1>4. k.sym = w
  BY <1>1, <1>2 DEF Link, IsHeap, HeapFields
<1>8. /\ DOMAIN u = DOMAIN h.sym
      /\ \A a \in DOMAIN h.sym :
           u[a] = IF a = right THEN [h.sym[a] EXCEPT !.owner = h.sym[left].owner] ELSE h.sym[a]
  OBVIOUS
<1> HIDE DEF u
<1>9. /\ DOMAIN v = DOMAIN h.sym
      /\ \A a \in DOMAIN h.sym : v[a] = IF a = left THEN [u[a] EXCEPT !.n = right] ELSE u[a]
  BY <1>8
<1> HIDE DEF v
<1>10. /\ DOMAIN w = DOMAIN h.sym
       /\ \A a \in DOMAIN h.sym : w[a] = IF a = right THEN [v[a] EXCEPT !.p = left] ELSE v[a]
  BY <1>9
<1> HIDE DEF w
<1>5. /\ DOMAIN k.sym = DOMAIN h.sym
      /\ \A a \in DOMAIN h.sym :
           /\ DOMAIN k.sym[a] = NodeFields
           /\ k.sym[a].n = IF a = left THEN right ELSE h.sym[a].n
           /\ k.sym[a].p = IF a = right THEN left ELSE h.sym[a].p
           /\ k.sym[a].owner = IF a = right THEN h.sym[left].owner ELSE h.sym[a].owner
           /\ k.sym[a].s = h.sym[a].s
           /\ k.sym[a].pred = h.sym[a].pred /\ k.sym[a].upd = h.sym[a].upd
           /\ k.sym[a].next = h.sym[a].next
  <2>1. DOMAIN k.sym = DOMAIN h.sym
    BY <1>4, <1>10
  <2> SUFFICES ASSUME NEW a \in DOMAIN h.sym
               PROVE  /\ DOMAIN k.sym[a] = NodeFields
                      /\ k.sym[a].n = IF a = left THEN right ELSE h.sym[a].n
                      /\ k.sym[a].p = IF a = right THEN left ELSE h.sym[a].p
                      /\ k.sym[a].owner = IF a = right THEN h.sym[left].owner ELSE h.sym[a].owner
                      /\ k.sym[a].s = h.sym[a].s
                      /\ k.sym[a].pred = h.sym[a].pred /\ k.sym[a].upd = h.sym[a].upd
                      /\ k.sym[a].next = h.sym[a].next
    BY <2>1
  <2>2. DOMAIN h.sym[a] = NodeFields
    BY DEF IsHeap
  <2>3. /\ DOMAIN u[a] = NodeFields
        /\ u[a].owner = IF a = right THEN h.sym[left].owner ELSE h.sym[a].owner
        /\ u[a].n = h.sym[a].n /\ u[a].p = h.sym[a].p /\ u[a].s = h.sym[a].s
        /\ u[a].pred = h.sym[a].pred /\ u[a].upd = h.sym[a].upd /\ u[a].next = h.sym[a].next
    BY <2>2, <1>8 DEF NodeFields
  <2>4. /\ DOMAIN v[a] = NodeFields
        /\ v[a].n = IF a = left THEN right ELSE u[a].n
        /\ v[a].p = u[a].p /\ v[a].s = u[a].s /\ v[a].owner = u[a].owner
        /\ v[a].pred = u[a].pred /\ v[a].upd = u[a].upd /\ v[a].next = u[a].next
    BY <2>3, <1>9 DEF NodeFields
  <2>5. /\ DOMAIN w[a] = NodeFields
        /\ w[a].p = IF a = right THEN left ELSE v[a].p
        /\ w[a].n = v[a].n /\ w[a].s = v[a].s /\ w[a].owner = v[a].owner
        /\ w[a].pred = v[a].pred /\ w[a].upd = v[a].upd /\ w[a].next = v[a].next
    BY <2>4, <1>10 DEF NodeFields
  <2> QED
    BY <2>3, <2>4, <2>5, <1>4
<1>7. IsHeap(k) /\ Joined(h, left, right, k)
  BY <1>1, <1>3, <1>5 DEF IsHeap, Joined, SameLists
<1>6. JoinedTable(h, left, right, k)
  BY <1>1, <1>3 DEF JoinedTable
<1> QED
  BY <1>6, <1>7 DEF k

\* The linked nodes that are not guards, and the linked nodes of a rule.
Inner(h) == Linked(h) \ Guards(h)
NodeOf(h, r) == {a \in Linked(h) : h.sym[a].owner = r}

\* Every rule is a ring of nodes linked both ways that carry its address.
Linking(h) ==
  /\ \A a \in DOMAIN h.sym : a \notin Linked(h) => h.sym[a].p = Null
  /\ \A a \in Linked(h) :
       /\ h.sym[a].n \in Linked(h) /\ h.sym[h.sym[a].n].p = a
       /\ h.sym[a].p \in Linked(h) /\ h.sym[h.sym[a].p].n = a
       /\ h.sym[a].owner \in DOMAIN h.rule
       /\ h.sym[h.sym[a].n].owner = h.sym[a].owner
  /\ \A r \in DOMAIN h.rule :
       /\ h.rule[r].guard \in Linked(h)
       /\ h.sym[h.rule[r].guard].s = r /\ h.sym[h.rule[r].guard].owner = r

\* Following n from the guard of a rule reaches every node of the rule: a set
\* that holds the guard and is closed under n holds them all.
Forward(h) ==
  \A r \in DOMAIN h.rule : \A T \in SUBSET Linked(h) :
     /\ h.rule[r].guard \in T
     /\ \A a \in T : h.sym[a].owner = r => h.sym[a].n \in T
     => NodeOf(h, r) \subseteq T

\* The same of p.
Backward(h) ==
  \A r \in DOMAIN h.rule : \A T \in SUBSET Linked(h) :
     /\ h.rule[r].guard \in T
     /\ \A a \in T : h.sym[a].owner = r => h.sym[a].p \in T
     => NodeOf(h, r) \subseteq T

\* A node holds a terminal or a live rule, and never the start rule.
Valued(h) ==
  /\ \A a \in DOMAIN h.sym : h.sym[a].s \in Terminal \cup DOMAIN h.rule
  /\ \A a \in Inner(h) : h.sym[a].s # Start

\* Ranks for the rules that grow from a used rule to the rule that uses it: a
\* grammar without recursion.
Ranking(h, k) ==
  /\ k \in [DOMAIN h.rule -> Nat]
  /\ \A a \in Inner(h) : h.sym[a].s \in DOMAIN h.rule =>
       k[h.sym[a].s] < k[h.sym[a].owner]

\* A digram of the table is at the node the table names.
Entries(h) ==
  \A d \in DOMAIN h.table :
    LET a == h.table[d]
    IN  a \in Inner(h) /\ h.sym[a].n \in Inner(h) /\ d = Digram(h, a)

\* The users of a rule are the nodes that hold it, and it counts them.
Counted(h) ==
  /\ IsFiniteSet(DOMAIN h.sym)
  /\ \A r \in DOMAIN h.rule :
       /\ h.rule[r].users = {a \in DOMAIN h.sym \ Guards(h) : h.sym[a].s = r}
       /\ h.rule[r].count = Cardinality(h.rule[r].users)

\* Addresses in use and addresses given back are apart, below the break.
Addresses(live, free, brk) ==
  /\ brk \in Nat \ {0}
  /\ \A a \in live : a \in Nat /\ 0 < a /\ a < brk
  /\ free \in Seq(Nat)
  /\ \A i \in 1 .. Len(free) : 0 < free[i] /\ free[i] < brk /\ free[i] \notin live
  /\ \A i, j \in 1 .. Len(free) : free[i] = free[j] => i = j

Allocated(h) ==
  /\ Addresses(DOMAIN h.sym, h.free, h.brk)
  /\ Addresses(DOMAIN h.rule, h.rfree, h.rbrk)

\* What every step of the grammar keeps.
Core(h) ==
  /\ IsHeap(h) /\ Linking(h) /\ Forward(h) /\ Backward(h)
  /\ Valued(h) /\ Entries(h) /\ Counted(h) /\ Allocated(h)

\* Addresses of rules are non-terminals, terminals are not.
LEMMA RuleValues ==
  ASSUME NEW h, Allocated(h)
  PROVE  /\ \A v \in DOMAIN h.rule : NT(v) /\ v \in Nat /\ v # Null /\ v \notin Terminal
         /\ \A v \in Terminal : ~NT(v) /\ v # Null
         /\ Null \notin DOMAIN h.sym /\ Null \notin DOMAIN h.rule
  BY TerminalAssumption DEF Allocated, Addresses, NT, Null

\* The test of the code for a guard finds the guards.
LEMMA GuardTest ==
  ASSUME NEW h, Linking(h), Valued(h), Allocated(h)
  PROVE  /\ \A a \in DOMAIN h.sym : IsGuard(h, a) <=> a \in Guards(h)
         /\ \A a \in Guards(h) : /\ a \in Linked(h) /\ h.sym[a].s \in DOMAIN h.rule
                                 /\ a = h.rule[h.sym[a].s].guard
                                 /\ h.sym[a].owner = h.sym[a].s
<1>1. \A a \in Guards(h) : /\ a \in Linked(h) /\ h.sym[a].s \in DOMAIN h.rule
                           /\ a = h.rule[h.sym[a].s].guard
                           /\ h.sym[a].owner = h.sym[a].s
  BY DEF Linking, Guards
<1>2. ASSUME NEW a \in DOMAIN h.sym
      PROVE  IsGuard(h, a) <=> a \in Guards(h)
  <2>1. CASE h.sym[a].s \in Terminal
    BY <2>1, <1>1, RuleValues DEF IsGuard
  <2>2. CASE h.sym[a].s \in DOMAIN h.rule
    <3> DEFINE q == h.rule[h.sym[a].s].guard
    <3>1. NT(h.sym[a].s) /\ q \in Linked(h) /\ q \in Guards(h) /\ h.sym[q].s = h.sym[a].s
      BY <2>2, RuleValues DEF Linking, Guards
    <3>2. h.sym[First(h, h.sym[a].s)].p = q
      BY <3>1 DEF First, Linking
    <3>3. a \in Guards(h) => a = q
      BY <1>1
    <3> QED
      BY <3>1, <3>2, <3>3 DEF IsGuard
  <2> QED
    BY <2>1, <2>2 DEF Valued
<1> QED
  BY <1>1, <1>2

\* The closure of a rule under n, and under p, used once for each set.
LEMMA Forwards ==
  ASSUME NEW h, Forward(h), NEW r \in DOMAIN h.rule, NEW T, T \subseteq Linked(h),
         h.rule[r].guard \in T,
         \A a \in T : h.sym[a].owner = r => h.sym[a].n \in T
  PROVE  \A a \in Linked(h) : h.sym[a].owner = r => a \in T
  BY DEF Forward, NodeOf

\* Backward, for a set to choose.
LEMMA Backwards ==
  ASSUME NEW h, Backward(h), NEW r \in DOMAIN h.rule, NEW T, T \subseteq Linked(h),
         h.rule[r].guard \in T,
         \A a \in T : h.sym[a].owner = r => h.sym[a].p \in T
  PROVE  \A a \in Linked(h) : h.sym[a].owner = r => a \in T
  BY DEF Backward, NodeOf

\* The neighbours of a node that is no guard.
LEMMA Neighbours ==
  ASSUME NEW h, Core(h), NEW a \in Inner(h)
  PROVE  /\ h.sym[a].n # a /\ h.sym[a].p # a
         /\ h.sym[a].n = h.sym[a].p => h.sym[a].n \in Guards(h)
         /\ h.sym[a].owner \in DOMAIN h.rule
         /\ h.sym[h.sym[a].p].owner = h.sym[a].owner
         /\ h.sym[h.sym[a].n].owner = h.sym[a].owner
         /\ a \in DOMAIN h.sym /\ h.sym[a].n \in Linked(h) /\ h.sym[a].p \in Linked(h)
         /\ h.sym[a].n \in DOMAIN h.sym /\ h.sym[a].p \in DOMAIN h.sym
<1> DEFINE r == h.sym[a].owner
           c == h.sym[a].p
<1>1. /\ a \in Linked(h) /\ a \in DOMAIN h.sym /\ h.sym[a].n \in Linked(h) /\ c \in Linked(h)
      /\ r \in DOMAIN h.rule /\ h.sym[c].owner = r /\ h.sym[h.sym[a].n].owner = r
      /\ h.sym[c].n = a
      /\ h.rule[r].guard \in Guards(h) /\ h.rule[r].guard \in Linked(h)
      /\ h.rule[r].guard # a
  BY DEF Core, Linking, Inner, Linked, Guards
<1>0. \A b \in Linked(h) : h.sym[b].n \in Linked(h) /\ h.sym[h.sym[b].n].p = b
  BY DEF Core, Linking
<1>2. ASSUME h.sym[a].n = a PROVE FALSE
  <2> DEFINE T == Linked(h) \ {a}
  <2>1. \A b \in T : h.sym[b].n \in T
    BY <1>0, <1>1, <1>2
  <2>2. T \subseteq Linked(h) /\ h.rule[r].guard \in T /\ Forward(h)
    BY <1>1 DEF Core
  <2>3. a \in T
    BY <2>1, <2>2, <1>1, Forwards
  <2> QED
    BY <2>3
<1>3. c # a
  BY <1>1, <1>2 DEF Core, Linking
<1>4. ASSUME h.sym[a].n = c, c \notin Guards(h) PROVE FALSE
  <2> DEFINE T == Linked(h) \ {a, c}
  <2>1. \A b \in T : h.sym[b].n \in T
    BY <1>0, <1>1, <1>4
  <2>2. T \subseteq Linked(h) /\ h.rule[r].guard \in T /\ Forward(h)
    BY <1>1, <1>4 DEF Core
  <2>3. a \in T
    BY <2>1, <2>2, <1>1, Forwards
  <2> QED
    BY <2>3
<1> QED
  BY <1>1, <1>2, <1>3, <1>4 DEF Linked

\* A node does not hold the rule it is in.
LEMMA Ranked ==
  ASSUME NEW h, Linking(h), Valued(h), Allocated(h), NEW k, Ranking(h, k), NEW a \in Inner(h)
  PROVE  h.sym[a].s # h.sym[a].owner
BY DEF Ranking, Linking, Inner

\* No entry of the table names the node.
NoEntry(h, a) == \A d \in DOMAIN h.table : h.table[d] # a

\* Giving up the use of a rule.
LEMMA DeuseIs ==
  ASSUME NEW h, IsHeap(h), NEW a, NT(h.sym[a].s) => h.sym[a].s \in DOMAIN h.rule
  PROVE  LET k == Deuse(h, a)
         IN  /\ IsHeap(k) /\ k.sym = h.sym /\ k.table = h.table
             /\ k.brk = h.brk /\ k.rbrk = h.rbrk /\ k.free = h.free /\ k.rfree = h.rfree
             /\ DOMAIN k.rule = DOMAIN h.rule
             /\ \A r \in DOMAIN h.rule :
                  /\ k.rule[r].guard = h.rule[r].guard
                  /\ IF NT(h.sym[a].s) /\ r = h.sym[a].s
                     THEN /\ k.rule[r].count = h.rule[r].count - 1
                          /\ k.rule[r].users = h.rule[r].users \ {a}
                     ELSE k.rule[r] = h.rule[r]
<1> DEFINE r == h.sym[a].s
           k == Deuse(h, a)
<1>1. CASE NT(r)
  <2>1. k = [h EXCEPT !.rule[r].count = @ - 1, !.rule[r].users = @ \ {a}]
    BY <1>1 DEF Deuse
  <2> HIDE DEF k
  <2>2. /\ DOMAIN k = HeapFields /\ k.sym = h.sym /\ k.table = h.table
        /\ k.brk = h.brk /\ k.rbrk = h.rbrk /\ k.free = h.free /\ k.rfree = h.rfree
    BY <2>1 DEF IsHeap, HeapFields
  <2>3. k.rule = [[h.rule EXCEPT ![r].count = @ - 1] EXCEPT ![r].users = @ \ {a}]
    BY <2>1 DEF IsHeap, HeapFields
  <2>4. /\ DOMAIN k.rule = DOMAIN h.rule
        /\ \A q \in DOMAIN h.rule :
             /\ DOMAIN k.rule[q] = RuleFields
             /\ k.rule[q].guard = h.rule[q].guard
             /\ q = r => /\ k.rule[q].count = h.rule[q].count - 1
                         /\ k.rule[q].users = h.rule[q].users \ {a}
             /\ q # r => k.rule[q] = h.rule[q]
    <3> DEFINE R1 == [h.rule EXCEPT ![r].count = @ - 1]
    <3>1. /\ DOMAIN R1 = DOMAIN h.rule
          /\ \A q \in DOMAIN h.rule : q # r => R1[q] = h.rule[q]
          /\ \A q \in DOMAIN h.rule : DOMAIN R1[q] = RuleFields
          /\ r \in DOMAIN h.rule
          /\ R1[r].count = h.rule[r].count - 1
          /\ R1[r].users = h.rule[r].users /\ R1[r].guard = h.rule[r].guard
      BY <1>1 DEF IsHeap, RuleFields
    <3>2. k.rule = [R1 EXCEPT ![r].users = @ \ {a}]
      BY <2>3
    <3> HIDE DEF R1, r
    <3> QED
      BY <3>1, <3>2 DEF RuleFields
  <2> QED
    BY <2>2, <2>4, <1>1 DEF IsHeap, k
<1>2. CASE ~NT(r)
  <2>1. k = h
    BY <1>2 DEF Deuse
  <2> QED
    BY <2>1, <1>2
<1> QED
  BY <1>1, <1>2

\* Giving back a node.
LEMMA FreeSymbolIs ==
  ASSUME NEW h, IsHeap(h), NEW a
  PROVE  LET k == FreeSymbol(h, a)
         IN  /\ IsHeap(k) /\ k.table = h.table /\ k.rule = h.rule
             /\ k.brk = h.brk /\ k.rbrk = h.rbrk /\ k.rfree = h.rfree
             /\ k.free = IF Recycle THEN <<a>> \o h.free ELSE h.free
             /\ DOMAIN k.sym = DOMAIN h.sym \ {a}
             /\ \A b \in DOMAIN k.sym : k.sym[b] = h.sym[b]
  BY DEF FreeSymbol, IsHeap, HeapFields, Without

\* What the rings give for a node, its neighbours and its owner.
LEMMA Lists ==
  ASSUME NEW h, Core(h)
  PROVE  /\ \A a \in DOMAIN h.sym : a \in Linked(h) <=> h.sym[a].n # Null
         /\ \A a \in Linked(h) :
              /\ a \in DOMAIN h.sym /\ h.sym[a].n # Null /\ h.sym[a].p # Null
              /\ h.sym[a].n \in Linked(h) /\ h.sym[h.sym[a].n].p = a
              /\ h.sym[a].p \in Linked(h) /\ h.sym[h.sym[a].p].n = a
              /\ h.sym[a].owner \in DOMAIN h.rule /\ h.sym[a].owner # Null
              /\ h.sym[h.sym[a].n].owner = h.sym[a].owner
              /\ h.sym[h.sym[a].p].owner = h.sym[a].owner
         /\ \A a \in Inner(h) : a \in Linked(h) /\ a \notin Guards(h) /\ h.sym[a].s # Start
         /\ \A a \in Linked(h) : a \in Guards(h) \/ a \in Inner(h)
         /\ Null \notin DOMAIN h.sym
<1>1. Linking(h) /\ Valued(h) /\ Allocated(h)
  BY DEF Core
<1>2. Null \notin DOMAIN h.sym /\ Null \notin DOMAIN h.rule
  BY <1>1, RuleValues
<1>3. /\ \A a \in DOMAIN h.sym : a \in Linked(h) <=> h.sym[a].n # Null
      /\ \A a \in Linked(h) : a \in DOMAIN h.sym
      /\ \A a \in Inner(h) : a \in Linked(h) /\ a \notin Guards(h) /\ h.sym[a].s # Start
  BY <1>1 DEF Linked, Inner, Valued
<1>4. \A a \in Linked(h) : a \in Guards(h) \/ a \in Inner(h)
  BY DEF Inner
<1>8. \A a \in Linked(h) :
              /\ h.sym[a].n \in Linked(h) /\ h.sym[h.sym[a].n].p = a
              /\ h.sym[a].p \in Linked(h) /\ h.sym[h.sym[a].p].n = a
              /\ h.sym[a].owner \in DOMAIN h.rule /\ h.sym[a].owner # Null
              /\ h.sym[h.sym[a].n].owner = h.sym[a].owner
              /\ h.sym[h.sym[a].p].owner = h.sym[a].owner
  BY <1>1, <1>2 DEF Linking
<1> QED
  BY <1>2, <1>3, <1>4, <1>8

\* The node after a, and the one before.
LEMMA NextNode ==
  ASSUME NEW h, Core(h), NEW a \in Linked(h)
  PROVE  /\ h.sym[a].n \in Linked(h) /\ h.sym[a].n \in DOMAIN h.sym
         /\ h.sym[h.sym[a].n].p = a /\ h.sym[h.sym[a].n].owner = h.sym[a].owner
  BY Lists

\* The node before one in a list.
LEMMA PrevNode ==
  ASSUME NEW h, Core(h), NEW a \in Linked(h)
  PROVE  /\ h.sym[a].p \in Linked(h) /\ h.sym[a].p \in DOMAIN h.sym
         /\ h.sym[h.sym[a].p].n = a /\ h.sym[h.sym[a].p].owner = h.sym[a].owner
  BY Lists

\* An inner node is in a list and no guard.
LEMMA InnerNode ==
  ASSUME NEW h, Core(h), NEW a \in Inner(h)
  PROVE  a \in Linked(h) /\ a \in DOMAIN h.sym /\ a \notin Guards(h)
BY Lists

\* The guards and the rules they stand for.
LEMMA GuardNodes ==
  ASSUME NEW h, Core(h)
  PROVE  /\ \A r \in DOMAIN h.rule :
              /\ h.rule[r].guard \in Guards(h) /\ h.rule[r].guard \in Linked(h)
              /\ h.rule[r].guard \in DOMAIN h.sym
              /\ h.sym[h.rule[r].guard].s = r /\ h.sym[h.rule[r].guard].owner = r
         /\ \A a \in Guards(h) :
              /\ a \in Linked(h) /\ a \in DOMAIN h.sym /\ a \notin Inner(h)
              /\ h.sym[a].s \in DOMAIN h.rule
              /\ a = h.rule[h.sym[a].s].guard /\ h.sym[a].owner = h.sym[a].s
         /\ \A a \in DOMAIN h.sym : IsGuard(h, a) <=> a \in Guards(h)
<1>1. Linking(h) /\ Valued(h) /\ Allocated(h)
  BY DEF Core
<1>2. \A r \in DOMAIN h.rule :
              /\ h.rule[r].guard \in Guards(h) /\ h.rule[r].guard \in Linked(h)
              /\ h.sym[h.rule[r].guard].s = r /\ h.sym[h.rule[r].guard].owner = r
  BY <1>1 DEF Linking, Guards
<1>3. \A a \in Linked(h) : a \in DOMAIN h.sym
  BY DEF Linked
<1> QED
  BY <1>1, <1>2, <1>3, GuardTest DEF Inner

\* The values of nodes and rules.
LEMMA Values ==
  ASSUME NEW h, Core(h)
  PROVE  /\ \A a \in DOMAIN h.sym : h.sym[a].s \in Terminal \cup DOMAIN h.rule
         /\ \A a \in DOMAIN h.sym : NT(h.sym[a].s) <=> h.sym[a].s \in DOMAIN h.rule
         /\ \A r \in DOMAIN h.rule : NT(r) /\ r # Null
<1>1. Valued(h) /\ Allocated(h)
  BY DEF Core
<1>2. \A a \in DOMAIN h.sym : h.sym[a].s \in Terminal \cup DOMAIN h.rule
  BY <1>1 DEF Valued
<1> QED
  BY <1>1, <1>2, RuleValues

\* k is h without node a.
Without1(h, a, k) ==
  /\ DOMAIN k.sym = DOMAIN h.sym \ {a}
  /\ \A b \in DOMAIN k.sym :
       /\ k.sym[b].n = IF b = h.sym[a].p THEN h.sym[a].n ELSE h.sym[b].n
       /\ k.sym[b].p = IF b = h.sym[a].n THEN h.sym[a].p ELSE h.sym[b].p
       /\ k.sym[b].s = h.sym[b].s /\ k.sym[b].owner = h.sym[b].owner
  /\ DOMAIN k.rule = DOMAIN h.rule
  /\ \A r \in DOMAIN h.rule :
       /\ k.rule[r].guard = h.rule[r].guard
       /\ IF r = h.sym[a].s
          THEN /\ k.rule[r].count = h.rule[r].count - 1
               /\ k.rule[r].users = h.rule[r].users \ {a}
          ELSE k.rule[r] = h.rule[r]
  /\ k.brk = h.brk /\ k.rbrk = h.rbrk /\ k.rfree = h.rfree
  /\ k.free = IF Recycle THEN <<a>> \o h.free ELSE h.free

\* The table once a is gone.
Entries1(h, a, k) ==
  \A d \in DOMAIN k.table :
    \/ d \in DOMAIN h.table /\ k.table[d] = h.table[d] /\ h.table[d] \notin {a, h.sym[a].p}
    \/ /\ k.table[d] = h.sym[a].n /\ h.sym[a].n \in Inner(h)
       /\ h.sym[h.sym[a].n].n \in Inner(h) /\ d = Digram(h, h.sym[a].n)
    \/ LET c == h.sym[a].p
       IN  /\ k.table[d] = h.sym[c].p /\ h.sym[c].p \in Inner(h) /\ c \in Inner(h)
           /\ d = <<h.sym[a].s, h.sym[a].s>>
           /\ h.sym[c].s = h.sym[a].s /\ h.sym[h.sym[c].p].s = h.sym[a].s

\* Deleting a node that is no guard takes it out of its ring and of the table.
LEMMA DestroyLists ==
  ASSUME NEW h, Core(h), NEW rk, Ranking(h, rk), NEW a \in Inner(h)
  PROVE  LET k == Destroy(h, a)
         IN  IsHeap(k) /\ Without1(h, a, k) /\ Entries1(h, a, k)
<1> DEFINE c  == h.sym[a].p
           e  == h.sym[a].n
           g1 == Join(h, c, e)
           g0 == DeleteDigram(g1, a)
           g2 == Deuse(g0, a)
           x  == g2.sym[a]
           g3 == IF x.pred /\ ~NT(x.s) /\ x.owner # Null
                 THEN [g2 EXCEPT !.predictions = @ \ {a}] ELSE g2
           k  == FreeSymbol(g3, a)
<1>1. /\ e # a /\ c # a /\ (e = c => e \in Guards(h))
      /\ a \in DOMAIN h.sym /\ e \in DOMAIN h.sym /\ c \in DOMAIN h.sym
      /\ e \in Linked(h) /\ c \in Linked(h)
      /\ h.sym[c].owner = h.sym[a].owner /\ h.sym[e].owner = h.sym[a].owner
      /\ h.sym[a].owner \in DOMAIN h.rule
  BY Neighbours
<1>2. IsHeap(h)
  BY DEF Core
<1>3. IsHeap(g1) /\ Joined(h, c, e, g1) /\ JoinedTable(h, c, e, g1)
  BY <1>1, <1>2, JoinIs
<1>4. a \in Linked(h) /\ a \notin Guards(h) /\ h.sym[c].n = a /\ h.sym[e].p = a
  BY <1>1, Lists
<1> HIDE DEF g1
<1>5. \A b \in DOMAIN h.sym : IsGuard(g1, b) <=> b \in Guards(h)
  <2> SUFFICES ASSUME NEW b \in DOMAIN h.sym
               PROVE  IsGuard(g1, b) <=> b \in Guards(h)
    OBVIOUS
  <2>0. g1.sym[b].s = h.sym[b].s
    BY <1>3 DEF Joined
  <2>1. CASE ~NT(h.sym[b].s)
    <3>1. ~IsGuard(g1, b)
      BY <2>0, <2>1 DEF IsGuard
    <3>2. ~IsGuard(h, b)
      BY <2>1 DEF IsGuard
    <3> QED
      BY <3>1, <3>2, GuardNodes
  <2>2. CASE NT(h.sym[b].s)
    <3> DEFINE q == h.rule[h.sym[b].s].guard
               f == h.sym[q].n
    <3>1. /\ h.sym[b].s \in DOMAIN h.rule /\ q \in Guards(h) /\ q \in Linked(h)
          /\ q \in DOMAIN h.sym /\ f \in DOMAIN h.sym /\ h.sym[f].p = q
          /\ (b \in Guards(h) => b = q)
      <4>1. h.sym[b].s \in DOMAIN h.rule
        BY <2>2, Values
      <4>2. /\ q \in Guards(h) /\ q \in Linked(h) /\ q \in DOMAIN h.sym
            /\ (b \in Guards(h) => b = q)
        BY <4>1, GuardNodes
      <4> QED
        BY <4>1, <4>2, Lists
    <3>2. IsGuard(g1, b) <=> g1.sym[g1.sym[q].n].p = b
      BY <2>0, <2>2, <1>3 DEF IsGuard, First, Joined
    <3>3. CASE q = c
      <4>1. g1.sym[q].n = e /\ g1.sym[e].p = q
        BY <3>3, <3>1, <1>1, <1>3 DEF Joined
      <4> QED
        BY <4>1, <3>2, <3>1
    <3>4. CASE q # c
      <4>1. f # e
        BY <3>1, <1>4
      <4>2. g1.sym[q].n = f /\ g1.sym[f].p = q
        BY <4>1, <3>4, <3>1, <1>3 DEF Joined
      <4> QED
        BY <4>2, <3>2, <3>1
    <3> QED
      BY <3>3, <3>4
  <2> QED
    BY <2>1, <2>2
<1>6. /\ g1.sym[a].n = e /\ g1.sym[a].s = h.sym[a].s
      /\ g1.sym[a].owner = h.sym[a].owner /\ g1.sym[e].s = h.sym[e].s
      /\ g1.rule = h.rule
  BY <1>1, <1>3 DEF Joined
<1>7. ~IsGuard(g1, a) /\ (NoDigram(g1, a) <=> e \in Guards(h)) /\ Digram(g1, a) = Digram(h, a)
  <2>1. h.sym[a].owner # Null
    BY <1>4, Lists
  <2> QED
    BY <1>1, <1>4, <1>5, <1>6, <2>1 DEF NoDigram, Digram
<1>8. /\ IsHeap(g0) /\ g0.sym = g1.sym /\ SameLists(g1, g0)
      /\ \A d \in DOMAIN g0.table :
           /\ d \in DOMAIN g1.table /\ g0.table[d] = g1.table[d]
           /\ ~(d = Digram(h, a) /\ g1.table[d] = a /\ e \notin Guards(h))
  BY <1>3, <1>7, DeleteDigramIs
<1> HIDE DEF g0
<1>9. NT(g0.sym[a].s) <=> h.sym[a].s \in DOMAIN h.rule
  BY <1>1, <1>6, <1>8, Values
<1>10. /\ IsHeap(g2) /\ g2.sym = g0.sym /\ g2.table = g0.table
       /\ g2.brk = h.brk /\ g2.rbrk = h.rbrk /\ g2.free = h.free /\ g2.rfree = h.rfree
       /\ DOMAIN g2.rule = DOMAIN h.rule
       /\ \A r \in DOMAIN h.rule :
            /\ g2.rule[r].guard = h.rule[r].guard
            /\ IF r = h.sym[a].s
               THEN /\ g2.rule[r].count = h.rule[r].count - 1
                    /\ g2.rule[r].users = h.rule[r].users \ {a}
               ELSE g2.rule[r] = h.rule[r]
  <2>1. g0.rule = h.rule /\ g0.sym[a].s = h.sym[a].s
    BY <1>6, <1>8 DEF SameLists
  <2>2. g0.brk = h.brk /\ g0.rbrk = h.rbrk /\ g0.free = h.free /\ g0.rfree = h.rfree
    BY <1>8, <1>3 DEF SameLists, Joined
  <2> QED
    BY <2>1, <2>2, <1>8, <1>9, DeuseIs
<1> HIDE DEF g2
<1>11. /\ IsHeap(g3) /\ g3.sym = g2.sym /\ g3.table = g2.table /\ g3.rule = g2.rule
       /\ g3.brk = h.brk /\ g3.rbrk = h.rbrk /\ g3.free = h.free /\ g3.rfree = h.rfree
  BY <1>10 DEF IsHeap, HeapFields
<1> HIDE DEF g3
<1>12. /\ IsHeap(k) /\ k.table = g3.table /\ k.rule = g3.rule
       /\ k.brk = h.brk /\ k.rbrk = h.rbrk /\ k.rfree = h.rfree
       /\ k.free = IF Recycle THEN <<a>> \o h.free ELSE h.free
       /\ DOMAIN k.sym = DOMAIN g3.sym \ {a}
       /\ \A b \in DOMAIN k.sym : k.sym[b] = g3.sym[b]
  BY <1>11, FreeSymbolIs
<1>13. k = Destroy(h, a)
  <2>1. g2 = IF IsGuard(g1, a) THEN g1 ELSE Deuse(DeleteDigram(g1, a), a)
    BY <1>7 DEF g2, g0
  <2> QED
    BY <2>1 DEF Destroy, g1, g3
<1> HIDE DEF k
<1>14. Without1(h, a, k)
  <2>1. DOMAIN g3.sym = DOMAIN h.sym /\ g3.sym = g1.sym
    BY <1>3, <1>8, <1>10, <1>11 DEF Joined
  <2>2. \A b \in DOMAIN k.sym :
       /\ k.sym[b].n = IF b = c THEN e ELSE h.sym[b].n
       /\ k.sym[b].p = IF b = e THEN c ELSE h.sym[b].p
       /\ k.sym[b].s = h.sym[b].s /\ k.sym[b].owner = h.sym[b].owner
    BY <2>1, <1>1, <1>3, <1>12 DEF Joined
  <2> QED
    BY <2>1, <2>2, <1>10, <1>11, <1>12 DEF Without1
<1>15. Entries1(h, a, k)
  <2> SUFFICES ASSUME NEW d \in DOMAIN k.table
               PROVE  \/ d \in DOMAIN h.table /\ k.table[d] = h.table[d] /\ h.table[d] \notin {a, c}
                      \/ /\ k.table[d] = e /\ e \in Inner(h)
                         /\ h.sym[e].n \in Inner(h) /\ d = Digram(h, e)
                      \/ /\ k.table[d] = h.sym[c].p /\ h.sym[c].p \in Inner(h) /\ c \in Inner(h)
                         /\ d = <<h.sym[a].s, h.sym[a].s>>
                         /\ h.sym[c].s = h.sym[a].s /\ h.sym[h.sym[c].p].s = h.sym[a].s
    BY DEF Entries1
  <2>1. /\ d \in DOMAIN g1.table /\ k.table[d] = g1.table[d]
        /\ ~(d = Digram(h, a) /\ g1.table[d] = a /\ e \notin Guards(h))
    BY <1>8, <1>10, <1>11, <1>12
  <2>2. CASE /\ d \in DOMAIN h.table /\ g1.table[d] = h.table[d]
             /\ ~(h.table[d] = c /\ d = Digram(h, c) /\ h.sym[c].n # Null /\ ~NoDigram(h, c))
    <3> DEFINE b == h.table[d]
    <3>1. b \in Inner(h) /\ h.sym[b].n \in Inner(h) /\ d = Digram(h, b)
      BY <2>2 DEF Core, Entries
    <3>2. b # a
      BY <3>1, <2>1, <2>2 DEF Inner
    <3>3. b # c
      <4> SUFFICES ASSUME b = c PROVE FALSE
        OBVIOUS
      <4>1. c \notin Guards(h) /\ a \notin Guards(h) /\ h.sym[c].owner # Null /\ h.sym[c].n # Null
        BY <3>1, <1>4, <1>1, Lists DEF Inner
      <4>2. ~NoDigram(h, c)
        BY <4>1, <1>1, <1>4, GuardNodes DEF NoDigram
      <4> QED
        BY <4>1, <4>2, <3>1, <2>2
    <3> QED
      BY <3>2, <3>3, <2>1, <2>2
  <2>3. CASE Triple(h, e) /\ g1.table[d] = e /\ d = Digram(h, e) /\ ~NoDigram(h, e)
    <3>0. h.sym[e].n \in Linked(h) /\ h.sym[e].n \in DOMAIN h.sym
      BY <1>1, Lists
    <3>1. e \notin Guards(h) /\ h.sym[e].n \notin Guards(h) /\ h.sym[e].n \in Linked(h)
      BY <2>3, <3>0, <1>1, GuardNodes DEF NoDigram
    <3> QED
      BY <3>1, <2>1, <2>3, <1>1 DEF Inner
  <2>4. CASE /\ ~IsGuard(h, c)
             /\ Triple(h, c) /\ g1.table[d] = h.sym[c].p
             /\ d = Digram(h, h.sym[c].p) /\ ~NoDigram(h, h.sym[c].p)
    <3>1. /\ h.sym[c].p \in Linked(h) /\ h.sym[h.sym[c].p].n = c /\ h.sym[c].p \in DOMAIN h.sym
      BY <1>1, Lists
    <3>2. h.sym[c].p \in Inner(h) /\ c \in Inner(h)
      BY <3>1, <2>4, <1>1, GuardNodes DEF NoDigram, Inner
    <3>3. h.sym[c].s = h.sym[a].s /\ h.sym[h.sym[c].p].s = h.sym[a].s
      BY <2>4, <1>4 DEF Triple
    <3> QED
      BY <3>1, <3>2, <3>3, <2>1, <2>4 DEF Digram
  <2> QED
    BY <2>1, <2>2, <2>3, <2>4, <1>3 DEF JoinedTable
<1> QED
  BY <1>12, <1>13, <1>14, <1>15

\* An address given back is free, or lost if freed addresses are not used again.
LEMMA GiveBack ==
  ASSUME NEW live, NEW free, NEW brk, Addresses(live, free, brk), NEW a \in live
  PROVE  /\ Addresses(live \ {a}, free, brk)
         /\ Addresses(live \ {a}, <<a>> \o free, brk)
<1>1. a \in Nat /\ 0 < a /\ a < brk /\ free \in Seq(Nat)
  BY DEF Addresses
<1> DEFINE f == <<a>> \o free
<1>2. /\ <<a>> \in Seq(Nat) /\ Len(<<a>>) = 1 /\ <<a>>[1] = a /\ Len(free) \in Nat
  BY <1>1, LenProperties
<1>3. /\ f \in Seq(Nat) /\ Len(f) = Len(free) + 1 /\ f[1] = a
      /\ \A i \in 2 .. Len(free) + 1 : f[i] = free[i - 1]
  BY <1>1, <1>2, ConcatProperties
<1>4. \A i \in 1 .. Len(f) : i = 1 \/ (i - 1 \in 1 .. Len(free) /\ f[i] = free[i - 1])
  BY <1>2, <1>3
<1> HIDE DEF f
<1>5. \A i \in 1 .. Len(f) : 0 < f[i] /\ f[i] < brk /\ f[i] \notin live \ {a}
  <2>1. \A i \in 1 .. Len(free) : 0 < free[i] /\ free[i] < brk /\ free[i] \notin live
    BY DEF Addresses
  <2> QED
    BY <2>1, <1>1, <1>3, <1>4
<1>6. \A i, j \in 1 .. Len(f) : f[i] = f[j] => i = j
  <2>1. \A i \in 1 .. Len(free) : free[i] \notin live
    BY DEF Addresses
  <2>2. \A i, j \in 1 .. Len(free) : free[i] = free[j] => i = j
    BY DEF Addresses
  <2> SUFFICES ASSUME NEW i \in 1 .. Len(f), NEW j \in 1 .. Len(f), f[i] = f[j]
               PROVE  i = j
    OBVIOUS
  <2>3. CASE i = 1 \/ j = 1
    BY <2>1, <2>3, <1>3, <1>4
  <2>4. CASE i # 1 /\ j # 1
    <3>1. i - 1 \in 1 .. Len(free) /\ j - 1 \in 1 .. Len(free) /\ free[i - 1] = free[j - 1]
      BY <2>4, <1>4
    <3>2. i - 1 = j - 1
      BY <3>1, <2>2
    <3> QED
      BY <3>2
  <2> QED
    BY <2>3, <2>4
<1>7. \A b \in live \ {a} : b \in Nat /\ 0 < b /\ b < brk
  BY DEF Addresses
<1>8. brk \in Nat \ {0}
  BY DEF Addresses
<1>9. Addresses(live \ {a}, <<a>> \o free, brk)
  BY <1>3, <1>5, <1>6, <1>7, <1>8 DEF Addresses, f
<1> QED
  BY <1>9 DEF Addresses

\* A heap with such a node less is sound.
LEMMA RemoveCore ==
  ASSUME NEW h, Core(h), NEW rk, Ranking(h, rk), NEW a \in Inner(h),
         NEW k, IsHeap(k), Without1(h, a, k), Entries1(h, a, k)
  PROVE  /\ Core(k) /\ Ranking(k, rk)
         /\ Guards(k) = Guards(h) /\ Linked(k) = Linked(h) \ {a}
         /\ Inner(k) = Inner(h) \ {a}
         /\ NoEntry(k, h.sym[a].p)
<1> DEFINE c == h.sym[a].p
           e == h.sym[a].n
<1>1. /\ e # a /\ c # a /\ (e = c => e \in Guards(h))
      /\ e \in Linked(h) /\ c \in Linked(h) /\ a \in Linked(h) /\ a \notin Guards(h)
      /\ h.sym[c].n = a /\ h.sym[e].p = a
      /\ h.sym[c].owner = h.sym[a].owner /\ h.sym[e].owner = h.sym[a].owner
      /\ a \in DOMAIN h.sym
  BY Neighbours, Lists
<1>2. /\ DOMAIN k.sym = DOMAIN h.sym \ {a}
      /\ \A b \in DOMAIN k.sym :
           /\ k.sym[b].n = IF b = c THEN e ELSE h.sym[b].n
           /\ k.sym[b].p = IF b = e THEN c ELSE h.sym[b].p
           /\ k.sym[b].s = h.sym[b].s /\ k.sym[b].owner = h.sym[b].owner
  BY DEF Without1
<1>3. /\ DOMAIN k.rule = DOMAIN h.rule
      /\ \A r \in DOMAIN h.rule : k.rule[r].guard = h.rule[r].guard
  BY DEF Without1
<1>4. Guards(k) = Guards(h)
  BY <1>3 DEF Guards
<1>5. Linked(k) = Linked(h) \ {a}
  <2>1. \A b \in DOMAIN k.sym : k.sym[b].n # Null <=> h.sym[b].n # Null
    BY <1>1, <1>2, Lists
  <2> QED
    BY <1>2, <2>1 DEF Linked
<1>6. Inner(k) = Inner(h) \ {a}
  BY <1>4, <1>5 DEF Inner
<1>7. Linking(k)
  <2>1. ASSUME NEW b \in DOMAIN k.sym, b \notin Linked(k)
        PROVE  k.sym[b].p = Null
    <3>1. b \in DOMAIN h.sym /\ b \notin Linked(h) /\ b # e
      BY <2>1, <1>1, <1>2, <1>5
    <3>2. h.sym[b].p = Null
      BY <3>1 DEF Core, Linking
    <3> QED
      BY <3>1, <3>2, <1>2
  <2>2. ASSUME NEW b \in Linked(k)
        PROVE  /\ k.sym[b].n \in Linked(k) /\ k.sym[k.sym[b].n].p = b
               /\ k.sym[b].p \in Linked(k) /\ k.sym[k.sym[b].p].n = b
               /\ k.sym[b].owner \in DOMAIN k.rule
               /\ k.sym[k.sym[b].n].owner = k.sym[b].owner
    <3>1. /\ b \in Linked(h) /\ b # a /\ b \in DOMAIN k.sym
          /\ \A x \in Linked(h) : x # a => x \in DOMAIN k.sym
      BY <1>2, <1>5, Lists
    <3>2. /\ h.sym[b].n \in Linked(h) /\ h.sym[h.sym[b].n].p = b
          /\ h.sym[b].p \in Linked(h) /\ h.sym[h.sym[b].p].n = b
          /\ h.sym[b].owner \in DOMAIN h.rule
          /\ h.sym[h.sym[b].n].owner = h.sym[b].owner
      BY <3>1, Lists
    <3>3. /\ k.sym[b].n \in Linked(k) /\ k.sym[k.sym[b].n].p = b
          /\ k.sym[k.sym[b].n].owner = k.sym[b].owner
      <4>1. CASE b = c
        <5>1. e \in Linked(h) /\ e # a /\ h.sym[c].n = a /\ h.sym[c].owner = h.sym[e].owner
          BY <4>1, <3>2, <1>1
        <5>2. e \in DOMAIN k.sym /\ e \in Linked(k)
          BY <5>1, <3>1, <1>5
        <5> QED
          BY <4>1, <5>1, <5>2, <3>1, <1>2
      <4>2. CASE b # c
        <5>1. h.sym[b].n # a /\ h.sym[b].n # e
          BY <4>2, <3>1, <3>2, <1>1
        <5> QED
          BY <5>1, <4>2, <3>1, <3>2, <1>1, <1>2, <1>5
      <4> QED
        BY <4>1, <4>2
    <3>4. k.sym[b].p \in Linked(k) /\ k.sym[k.sym[b].p].n = b
      <4>1. CASE b = e
        BY <4>1, <3>1, <3>2, <1>1, <1>2, <1>5
      <4>2. CASE b # e
        <5>1. h.sym[b].p # a /\ h.sym[b].p # c
          BY <4>2, <3>1, <3>2, <1>1
        <5> QED
          BY <5>1, <4>2, <3>1, <3>2, <1>1, <1>2, <1>5
      <4> QED
        BY <4>1, <4>2
    <3> QED
      BY <3>1, <3>2, <3>3, <3>4, <1>2, <1>3
  <2>3. ASSUME NEW r \in DOMAIN k.rule
        PROVE  /\ k.rule[r].guard \in Linked(k)
               /\ k.sym[k.rule[r].guard].s = r /\ k.sym[k.rule[r].guard].owner = r
    <3>1. /\ k.rule[r].guard \in Linked(h) /\ k.rule[r].guard # a
          /\ k.rule[r].guard \in DOMAIN h.sym
          /\ h.sym[k.rule[r].guard].s = r /\ h.sym[k.rule[r].guard].owner = r
      BY <1>1, <1>3, GuardNodes
    <3> QED
      BY <3>1, <1>2, <1>5
  <2> QED
    BY <2>1, <2>2, <2>3 DEF Linking
<1>8. Forward(k)
  <2> SUFFICES ASSUME NEW r \in DOMAIN k.rule, NEW T \in SUBSET Linked(k),
                      k.rule[r].guard \in T,
                      \A b \in T : k.sym[b].owner = r => k.sym[b].n \in T,
                      NEW x \in Linked(k), k.sym[x].owner = r
               PROVE  x \in T
    BY DEF Forward, NodeOf
  <2> DEFINE U == T \cup {a}
  <2>1. U \subseteq Linked(h) /\ h.rule[r].guard \in U /\ r \in DOMAIN h.rule
    BY <1>1, <1>3, <1>5
  <2>2. ASSUME NEW b \in U, h.sym[b].owner = r PROVE h.sym[b].n \in U
    <3>1. CASE b = a
      <4>1. CASE c \in T
        <5>1. c \in DOMAIN k.sym /\ k.sym[c].owner = r /\ k.sym[c].n = e
          BY <3>1, <2>2, <1>1, <1>2, Lists
        <5> QED
          BY <5>1, <4>1, <3>1
      <4>2. CASE c \notin T
        <5> DEFINE V == T
        <5>1. V \subseteq Linked(h) /\ h.rule[r].guard \in V
          BY <1>3, <1>5
        <5>2. ASSUME NEW v \in V, h.sym[v].owner = r PROVE h.sym[v].n \in V
          <6>1. v # c /\ v \in DOMAIN k.sym /\ v # a
            BY <4>2, <1>2, <1>5, Lists
          <6> QED
            BY <6>1, <5>2, <1>2
        <5>3. c \in V
          <6>1. c \in Linked(h) /\ h.sym[c].owner = r /\ Forward(h)
            BY <3>1, <2>2, <1>1 DEF Core
          <6> QED
            BY <6>1, <5>1, <5>2, <2>1, Forwards
        <5> QED
          BY <5>3, <4>2
      <4> QED
        BY <4>1, <4>2
    <3>2. CASE b # a
      <4>1. b \in T /\ b \in DOMAIN k.sym /\ k.sym[b].owner = r
        BY <3>2, <2>2, <1>2, <1>5, Lists
      <4>2. k.sym[b].n \in T
        BY <4>1
      <4>3. CASE b = c
        BY <4>3, <1>1
      <4>4. CASE b # c
        BY <4>4, <4>1, <4>2, <1>2
      <4> QED
        BY <4>3, <4>4
    <3> QED
      BY <3>1, <3>2
  <2>3. x \in Linked(h) /\ h.sym[x].owner = r /\ x # a
    BY <1>2, <1>5 DEF Linked
  <2>4. Forward(h)
    BY DEF Core
  <2>5. x \in U
    BY <2>1, <2>2, <2>3, <2>4, Forwards
  <2> QED
    BY <2>3, <2>5
<1>9. Backward(k)
  <2> SUFFICES ASSUME NEW r \in DOMAIN k.rule, NEW T \in SUBSET Linked(k),
                      k.rule[r].guard \in T,
                      \A b \in T : k.sym[b].owner = r => k.sym[b].p \in T,
                      NEW x \in Linked(k), k.sym[x].owner = r
               PROVE  x \in T
    BY DEF Backward, NodeOf
  <2> DEFINE U == IF e \in T THEN T \cup {a} ELSE T
  <2>1. U \subseteq Linked(h) /\ h.rule[r].guard \in U /\ r \in DOMAIN h.rule
    BY <1>1, <1>3, <1>5
  <2>2. ASSUME NEW b \in U, h.sym[b].owner = r PROVE h.sym[b].p \in U
    <3>1. CASE b = a
      <4>1. e \in T
        BY <3>1, <1>5
      <4>2. e \in DOMAIN k.sym /\ k.sym[e].owner = r /\ k.sym[e].p = c
        BY <3>1, <2>2, <1>1, <1>2, Lists
      <4> QED
        BY <4>1, <4>2, <3>1
    <3>2. CASE b # a
      <4>1. b \in T /\ b \in DOMAIN k.sym /\ k.sym[b].owner = r
        BY <3>2, <2>2, <1>2, <1>5, Lists
      <4>2. k.sym[b].p \in T
        BY <4>1
      <4>3. CASE b = e
        BY <4>1, <4>3, <1>1
      <4>4. CASE b # e
        BY <4>4, <4>1, <4>2, <1>2
      <4> QED
        BY <4>3, <4>4
    <3> QED
      BY <3>1, <3>2
  <2>3. x \in Linked(h) /\ h.sym[x].owner = r /\ x # a
    BY <1>2, <1>5 DEF Linked
  <2>4. Backward(h)
    BY DEF Core
  <2>5. x \in U
    BY <2>1, <2>2, <2>3, <2>4, Backwards
  <2> QED
    BY <2>3, <2>5
<1>10. Valued(k)
  BY <1>2, <1>3, <1>6 DEF Core, Valued, Inner, Linked
<1>11. Ranking(k, rk)
  BY <1>2, <1>3, <1>6 DEF Ranking, Inner, Linked
<1>12. Entries(k) /\ NoEntry(k, c)
  <2> SUFFICES ASSUME NEW d \in DOMAIN k.table
               PROVE  LET b == k.table[d]
                      IN  b \in Inner(k) /\ k.sym[b].n \in Inner(k) /\ d = Digram(k, b) /\ b # c
    BY DEF Entries, NoEntry
  <2> DEFINE b == k.table[d]
  <2>0. \A y \in Inner(k) : y \in DOMAIN k.sym
    BY DEF Inner, Linked
  <2>1. CASE d \in DOMAIN h.table /\ k.table[d] = h.table[d] /\ h.table[d] \notin {a, c}
    <3>1. b \in Inner(h) /\ h.sym[b].n \in Inner(h) /\ d = Digram(h, b)
      BY <2>1 DEF Core, Entries
    <3>2. h.sym[b].n # a
      BY <3>1, <2>1, <1>1, Lists
    <3>3. b \in Inner(k) /\ h.sym[b].n \in Inner(k)
      BY <3>1, <3>2, <2>1, <1>6
    <3>4. k.sym[b].n = h.sym[b].n
      BY <3>3, <2>0, <2>1, <1>2
    <3> QED
      BY <3>1, <3>3, <3>4, <2>0, <2>1, <1>2 DEF Digram
  <2>2. CASE /\ k.table[d] = e /\ e \in Inner(h)
             /\ h.sym[e].n \in Inner(h) /\ d = Digram(h, e)
    <3>1. e # c /\ e \notin Guards(h)
      BY <2>2, <1>1 DEF Inner
    <3>2. h.sym[e].n # a
      BY <3>1, <2>2, <1>1, Lists
    <3>3. e \in Inner(k) /\ h.sym[e].n \in Inner(k)
      BY <2>2, <3>2, <1>1, <1>6
    <3>4. k.sym[e].n = h.sym[e].n
      BY <3>1, <3>3, <2>0, <1>2
    <3>5. k.sym[e].s = h.sym[e].s /\ k.sym[h.sym[e].n].s = h.sym[h.sym[e].n].s
      BY <3>3, <2>0, <1>2
    <3>6. Digram(k, e) = Digram(h, e)
      BY <3>4, <3>5 DEF Digram
    <3> QED
      BY <3>1, <3>3, <3>4, <3>6, <2>2
  <2>3. CASE /\ k.table[d] = h.sym[c].p /\ h.sym[c].p \in Inner(h) /\ c \in Inner(h)
             /\ d = <<h.sym[a].s, h.sym[a].s>>
             /\ h.sym[c].s = h.sym[a].s /\ h.sym[h.sym[c].p].s = h.sym[a].s
    <3>0. c \in Inner(h) /\ b = h.sym[c].p
      BY <2>3
    <3>1. b # c /\ h.sym[b].n = c
      <4>1. c \in Linked(h)
        BY <3>0, InnerNode
      <4> QED
        BY <4>1, <3>0, PrevNode, Neighbours
    <3>2. b # a
      <4>1. h.sym[c].p = h.sym[c].n => h.sym[c].n \in Guards(h)
        BY <2>3, Neighbours
      <4> QED
        BY <4>1, <2>3, <1>1
    <3>3. b \in Inner(k) /\ c \in Inner(k)
      BY <2>3, <3>2, <1>1, <1>6
    <3>4. k.sym[b].n = c
      BY <3>1, <3>3, <2>0, <1>2
    <3>5. k.sym[b].s = h.sym[a].s /\ k.sym[c].s = h.sym[a].s
      <4>1. b \in DOMAIN k.sym /\ c \in DOMAIN k.sym
        BY <3>3, <2>0
      <4>2. k.sym[b].s = h.sym[b].s /\ k.sym[c].s = h.sym[c].s
        BY <4>1, <1>2
      <4> QED
        BY <4>2, <3>0, <2>3
    <3>6. d = Digram(k, b)
      BY <3>4, <3>5, <2>3 DEF Digram
    <3> QED
      BY <3>1, <3>3, <3>4, <3>6, <2>3
  <2> QED
    BY <2>1, <2>2, <2>3 DEF Entries1
<1>13. Counted(k)
  <2>1. IsFiniteSet(DOMAIN k.sym)
    BY <1>2, FS_Subset DEF Core, Counted
  <2>2. ASSUME NEW r \in DOMAIN k.rule
        PROVE  /\ k.rule[r].users = {b \in DOMAIN k.sym \ Guards(k) : k.sym[b].s = r}
               /\ k.rule[r].count = Cardinality(k.rule[r].users)
    <3>0. r \in DOMAIN h.rule
      BY <1>3
    <3>1. /\ h.rule[r].users = {b \in DOMAIN h.sym \ Guards(h) : h.sym[b].s = r}
          /\ h.rule[r].count = Cardinality(h.rule[r].users)
      BY <3>0 DEF Core, Counted
    <3>2. k.rule[r].users = h.rule[r].users \ {a}
      <4>1. CASE r = h.sym[a].s
        BY <4>1, <3>0 DEF Without1
      <4>2. CASE r # h.sym[a].s
        <5>1. k.rule[r] = h.rule[r]
          BY <4>2, <3>0 DEF Without1
        <5> QED
          BY <5>1, <4>2, <3>1
      <4> QED
        BY <4>1, <4>2
    <3>3. IsFiniteSet(h.rule[r].users)
      <4>1. h.rule[r].users \subseteq DOMAIN h.sym /\ IsFiniteSet(DOMAIN h.sym)
        BY <3>1 DEF Core, Counted
      <4> QED
        BY <4>1, FS_Subset
    <3>4. k.rule[r].count = Cardinality(k.rule[r].users)
      <4>1. CASE r = h.sym[a].s
        <5>1. a \in h.rule[r].users
          BY <4>1, <3>1, <1>1
        <5>2. k.rule[r].count = h.rule[r].count - 1
          BY <4>1, <3>0 DEF Without1
        <5>3. Cardinality(h.rule[r].users \ {a}) = Cardinality(h.rule[r].users) - 1
          BY <5>1, <3>3, FS_RemoveElement
        <5> QED
          BY <5>2, <5>3, <3>1, <3>2
      <4>2. CASE r # h.sym[a].s
        <5>1. k.rule[r] = h.rule[r]
          BY <4>2, <3>0 DEF Without1
        <5> QED
          BY <5>1, <3>1
      <4> QED
        BY <4>1, <4>2
    <3> QED
      BY <3>1, <3>2, <3>4, <1>2, <1>4
  <2> QED
    BY <2>1, <2>2 DEF Counted
<1>14. Allocated(k)
  <2>1. Addresses(DOMAIN h.sym, h.free, h.brk) /\ Addresses(DOMAIN h.rule, h.rfree, h.rbrk)
    BY DEF Core, Allocated
  <2>2. /\ Addresses(DOMAIN h.sym \ {a}, h.free, h.brk)
        /\ Addresses(DOMAIN h.sym \ {a}, <<a>> \o h.free, h.brk)
    BY <2>1, <1>1, GiveBack
  <2>3. /\ k.brk = h.brk /\ k.rbrk = h.rbrk /\ k.rfree = h.rfree
        /\ k.free = IF Recycle THEN <<a>> \o h.free ELSE h.free
    BY DEF Without1
  <2> QED
    BY <2>1, <2>2, <2>3, <1>2, <1>3 DEF Allocated
<1>15. Core(k)
  BY <1>7, <1>8, <1>9, <1>10, <1>12, <1>13, <1>14 DEF Core
<1> QED
  BY <1>4, <1>5, <1>6, <1>11, <1>12, <1>15

\* k is h with its unlinked node b linked after q.
With1(h, q, b, k) ==
  /\ DOMAIN k.sym = DOMAIN h.sym
  /\ \A a \in DOMAIN h.sym :
       /\ k.sym[a].n = IF a = q THEN b ELSE IF a = b THEN h.sym[q].n ELSE h.sym[a].n
       /\ k.sym[a].p = IF a = b THEN q ELSE IF a = h.sym[q].n THEN b ELSE h.sym[a].p
       /\ k.sym[a].s = h.sym[a].s /\ k.sym[a].owner = h.sym[a].owner
  /\ k.rule = h.rule
  /\ k.brk = h.brk /\ k.rbrk = h.rbrk /\ k.free = h.free /\ k.rfree = h.rfree

\* The table once b is in: q's entry is gone, and its predecessor may have one.
Entries2(h, q, k) ==
  \A d \in DOMAIN k.table :
    \/ d \in DOMAIN h.table /\ k.table[d] = h.table[d] /\ h.table[d] # q
    \/ LET c == h.sym[q].p
       IN  /\ k.table[d] = c /\ c \in Inner(h) /\ q \in Inner(h) /\ d = Digram(h, c)

\* Node b may be linked after q.
Insertable(h, q, b, rk) ==
  /\ q \in Linked(h) /\ b \in DOMAIN h.sym /\ b \notin Linked(h)
  /\ h.sym[b].owner = h.sym[q].owner /\ h.sym[b].s # Start
  /\ h.sym[b].s \in DOMAIN h.rule => rk[h.sym[b].s] < rk[h.sym[q].owner]

\* Inserting a node links it behind the one given.
LEMMA InsertLists ==
  ASSUME NEW h, Core(h), NEW rk, Ranking(h, rk), NEW q, NEW b, Insertable(h, q, b, rk)
  PROVE  LET k == InsertAfter(h, q, b)
         IN  IsHeap(k) /\ With1(h, q, b, k) /\ Entries2(h, q, k)
<1> DEFINE z  == h.sym[q].n
           r  == h.sym[q].owner
           g1 == Join(h, b, z)
           k  == Join(g1, q, b)
<1>1. /\ q \in Linked(h) /\ q \in DOMAIN h.sym /\ z \in Linked(h) /\ z \in DOMAIN h.sym
      /\ b \in DOMAIN h.sym /\ b # q /\ b # z /\ b \notin Linked(h)
      /\ h.sym[b].n = Null /\ h.sym[b].p = Null /\ b \notin Guards(h)
      /\ h.sym[z].p = q /\ h.sym[z].owner = r /\ r \in DOMAIN h.rule
      /\ h.sym[b].owner = r /\ z # Null
  <2>1. q \in Linked(h) /\ b \in DOMAIN h.sym /\ b \notin Linked(h) /\ h.sym[b].owner = r
    BY DEF Insertable
  <2>2. /\ q \in DOMAIN h.sym /\ z \in Linked(h) /\ z \in DOMAIN h.sym /\ z # Null
        /\ h.sym[z].p = q /\ h.sym[z].owner = r /\ r \in DOMAIN h.rule
    BY <2>1, Lists
  <2>3. h.sym[b].n = Null /\ h.sym[b].p = Null
    BY <2>1, Lists DEF Core, Linking
  <2>4. b \notin Guards(h)
    BY <2>1, GuardNodes
  <2> QED
    BY <2>1, <2>2, <2>3, <2>4
<1>2. IsHeap(h)
  BY DEF Core
<1>3. IsHeap(g1) /\ Joined(h, b, z, g1) /\ JoinedTable(h, b, z, g1)
  BY <1>1, <1>2, JoinIs
<1> HIDE DEF g1
<1>4. /\ DOMAIN g1.sym = DOMAIN h.sym
      /\ \A a \in DOMAIN h.sym :
           /\ g1.sym[a].n = IF a = b THEN z ELSE h.sym[a].n
           /\ g1.sym[a].p = IF a = z THEN b ELSE h.sym[a].p
           /\ g1.sym[a].s = h.sym[a].s /\ g1.sym[a].owner = h.sym[a].owner
      /\ g1.rule = h.rule
      /\ g1.brk = h.brk /\ g1.rbrk = h.rbrk /\ g1.free = h.free /\ g1.rfree = h.rfree
  BY <1>1, <1>3 DEF Joined
<1>5. \A d \in DOMAIN g1.table : d \in DOMAIN h.table /\ g1.table[d] = h.table[d]
  BY <1>1, <1>3 DEF JoinedTable
<1>6. IsHeap(k) /\ Joined(g1, q, b, k) /\ JoinedTable(g1, q, b, k)
  BY <1>1, <1>3, <1>4, JoinIs
<1> HIDE DEF k
<1>7. With1(h, q, b, k)
  <2>1. \A a \in DOMAIN h.sym :
          /\ k.sym[a].n = IF a = q THEN b ELSE IF a = b THEN z ELSE h.sym[a].n
          /\ k.sym[a].p = IF a = b THEN q ELSE IF a = z THEN b ELSE h.sym[a].p
          /\ k.sym[a].s = h.sym[a].s /\ k.sym[a].owner = h.sym[a].owner
    BY <1>1, <1>4, <1>6 DEF Joined
  <2>2. /\ DOMAIN k.sym = DOMAIN h.sym /\ k.rule = h.rule
        /\ k.brk = h.brk /\ k.rbrk = h.rbrk /\ k.free = h.free /\ k.rfree = h.rfree
    BY <1>4, <1>6 DEF Joined
  <2> QED
    BY <2>1, <2>2 DEF With1
<1>8. \A a \in Inner(h) : /\ ~IsGuard(g1, a)
                          /\ NoDigram(g1, a) <=> (IsGuard(g1, g1.sym[a].n))
  <2> SUFFICES ASSUME NEW a \in Inner(h) PROVE ~IsGuard(g1, a) /\ h.sym[a].owner # Null /\ a \in DOMAIN h.sym
    BY <1>4 DEF NoDigram
  <2>1. a \in DOMAIN h.sym /\ a \in Linked(h) /\ a \notin Guards(h) /\ h.sym[a].owner # Null
    BY Lists
  <2>2. ASSUME NT(h.sym[a].s) PROVE ~IsGuard(g1, a)
    <3> DEFINE u == h.rule[h.sym[a].s].guard
               f == h.sym[u].n
    <3>1. h.sym[a].s \in DOMAIN h.rule
      BY <2>1, <2>2, Values
    <3>2. u \in Guards(h) /\ u \in Linked(h) /\ u \in DOMAIN h.sym
      BY <3>1, GuardNodes
    <3>3. f \in DOMAIN h.sym /\ h.sym[f].p = u
      BY <3>2, Lists
    <3>4. g1.sym[u].n = f /\ (g1.sym[f].p = u \/ g1.sym[f].p = b)
      BY <3>2, <3>3, <1>1, <1>4
    <3>5. g1.sym[g1.sym[u].n].p # a
      BY <3>4, <3>2, <2>1, <1>1
    <3> QED
      BY <3>5, <2>1, <1>4 DEF IsGuard, First
  <2>3. ASSUME ~NT(h.sym[a].s) PROVE ~IsGuard(g1, a)
    BY <2>1, <2>3, <1>4 DEF IsGuard
  <2> QED
    BY <2>1, <2>2, <2>3
<1>9. ~Triple(g1, b)
  BY <1>1, <1>4 DEF Triple
<1>10. Entries2(h, q, k)
  <2> SUFFICES ASSUME NEW d \in DOMAIN k.table
               PROVE  \/ d \in DOMAIN h.table /\ k.table[d] = h.table[d] /\ h.table[d] # q
                      \/ /\ k.table[d] = h.sym[q].p /\ h.sym[q].p \in Inner(h) /\ q \in Inner(h)
                         /\ d = Digram(h, h.sym[q].p)
    BY DEF Entries2
  <2>1. CASE /\ d \in DOMAIN g1.table /\ k.table[d] = g1.table[d]
             /\ ~(g1.table[d] = q /\ d = Digram(g1, q) /\ g1.sym[q].n # Null /\ ~NoDigram(g1, q))
    <3>1. d \in DOMAIN h.table /\ k.table[d] = h.table[d]
      BY <2>1, <1>5
    <3>2. h.table[d] # q
      <4> SUFFICES ASSUME h.table[d] = q PROVE FALSE
        OBVIOUS
      <4>1. q \in Inner(h) /\ z \in Inner(h) /\ d = Digram(h, q)
        BY <3>1 DEF Core, Entries
      <4>2. g1.sym[q].n = z /\ g1.sym[q].s = h.sym[q].s /\ g1.sym[z].s = h.sym[z].s
        BY <1>1, <1>4
      <4>3. ~NoDigram(g1, q)
        BY <4>1, <4>2, <1>8
      <4>4. d = Digram(g1, q)
        BY <4>1, <4>2 DEF Digram
      <4> QED
        BY <4>2, <4>3, <4>4, <3>1, <2>1, <1>1
    <3> QED
      BY <3>1, <3>2
  <2>2. CASE /\ Triple(g1, q) /\ k.table[d] = g1.sym[q].p
             /\ d = Digram(g1, g1.sym[q].p) /\ ~NoDigram(g1, g1.sym[q].p)
    <3> DEFINE c == h.sym[q].p
    <3>1. h.sym[q].s = h.sym[z].s /\ g1.sym[q].p # Null /\ h.sym[q].s = g1.sym[g1.sym[q].p].s
      BY <2>2, <1>1, <1>4 DEF Triple
    <3>2. q \in Inner(h)
      <4> SUFFICES ASSUME q \in Guards(h) PROVE FALSE
        BY <1>1, Lists
      <4>1. h.sym[q].s = r /\ q = h.rule[r].guard
        BY GuardNodes
      <4>2. z = q
        <5>1. z \in Inner(h) => h.sym[z].s # h.sym[z].owner
          BY Ranked DEF Core
        <5>2. z \in Guards(h)
          BY <5>1, <4>1, <3>1, <1>1, Lists
        <5> QED
          BY <5>2, <4>1, <1>1, GuardNodes
      <4>3. g1.sym[q].p = b /\ h.sym[b].s = r
        BY <4>1, <4>2, <3>1, <1>1, <1>4
      <4>4. rk[r] < rk[r]
        BY <4>3, <1>1 DEF Insertable
      <4>5. rk[r] \in Nat
        BY <1>1 DEF Ranking
      <4> QED
        BY <4>4, <4>5
    <3>3. q # z /\ c # q /\ c \in Linked(h) /\ c \in DOMAIN h.sym /\ h.sym[c].n = q /\ h.sym[c].owner = r
      BY <3>2, <1>1, Neighbours, Lists
    <3>4. g1.sym[q].p = c /\ h.sym[c].s = h.sym[q].s
      BY <3>1, <3>3, <1>1, <1>4
    <3>5. c \in Inner(h)
      <4> SUFFICES ASSUME c \in Guards(h) PROVE FALSE
        BY <3>3, Lists
      <4>1. h.sym[q].s = r
        BY <3>3, <3>4, GuardNodes
      <4>2. h.sym[q].s # h.sym[q].owner
        BY <3>2, Ranked DEF Core
      <4> QED
        BY <4>1, <4>2
    <3>6. d = Digram(h, c)
      <4>1. c # b
        BY <3>3, <1>1
      <4>2. g1.sym[c].n = q /\ g1.sym[c].s = h.sym[c].s /\ g1.sym[q].s = h.sym[q].s
        BY <4>1, <3>3, <1>1, <1>4
      <4> QED
        BY <4>2, <3>3, <3>4, <2>2 DEF Digram
    <3> QED
      BY <3>2, <3>4, <3>5, <3>6, <2>2
  <2> QED
    BY <2>1, <2>2, <1>6, <1>9 DEF JoinedTable
<1>11. k = InsertAfter(h, q, b)
  BY DEF InsertAfter, k, g1
<1> QED
  BY <1>6, <1>7, <1>10, <1>11

\* A heap with such a node more is sound.
LEMMA InsertCore ==
  ASSUME NEW h, Core(h), NEW rk, Ranking(h, rk), NEW q, NEW b, Insertable(h, q, b, rk),
         NEW k, IsHeap(k), With1(h, q, b, k), Entries2(h, q, k)
  PROVE  /\ Core(k) /\ Ranking(k, rk)
         /\ Guards(k) = Guards(h) /\ Linked(k) = Linked(h) \cup {b}
         /\ Inner(k) = Inner(h) \cup {b}
         /\ NoEntry(k, q) /\ NoEntry(k, b)
<1> DEFINE z == h.sym[q].n
           r == h.sym[q].owner
<1>1. /\ q \in Linked(h) /\ q \in DOMAIN h.sym /\ z \in Linked(h) /\ z \in DOMAIN h.sym
      /\ b \in DOMAIN h.sym /\ b # q /\ b # z /\ b \notin Linked(h) /\ b \notin Guards(h)
      /\ h.sym[z].p = q /\ h.sym[z].owner = r /\ r \in DOMAIN h.rule
      /\ h.sym[b].owner = r /\ z # Null /\ h.sym[b].s # Start /\ b # Null
      /\ h.sym[b].s \in DOMAIN h.rule => rk[h.sym[b].s] < rk[r]
  <2>1. /\ q \in Linked(h) /\ b \in DOMAIN h.sym /\ b \notin Linked(h) /\ h.sym[b].owner = r
        /\ h.sym[b].s # Start
        /\ h.sym[b].s \in DOMAIN h.rule => rk[h.sym[b].s] < rk[r]
    BY DEF Insertable
  <2>2. /\ q \in DOMAIN h.sym /\ z \in Linked(h) /\ z \in DOMAIN h.sym /\ z # Null
        /\ h.sym[z].p = q /\ h.sym[z].owner = r /\ r \in DOMAIN h.rule /\ b # Null
    BY <2>1, Lists
  <2>3. b \notin Guards(h)
    BY <2>1, GuardNodes
  <2> QED
    BY <2>1, <2>2, <2>3
<1>2. /\ DOMAIN k.sym = DOMAIN h.sym
      /\ \A a \in DOMAIN h.sym :
           /\ k.sym[a].n = IF a = q THEN b ELSE IF a = b THEN z ELSE h.sym[a].n
           /\ k.sym[a].p = IF a = b THEN q ELSE IF a = z THEN b ELSE h.sym[a].p
           /\ k.sym[a].s = h.sym[a].s /\ k.sym[a].owner = h.sym[a].owner
      /\ k.rule = h.rule
      /\ k.brk = h.brk /\ k.rbrk = h.rbrk /\ k.free = h.free /\ k.rfree = h.rfree
  BY DEF With1
<1>3. Guards(k) = Guards(h)
  BY <1>2 DEF Guards
<1>4. Linked(k) = Linked(h) \cup {b}
  <2>1. \A a \in DOMAIN h.sym : k.sym[a].n # Null <=> h.sym[a].n # Null \/ a = b
    BY <1>1, <1>2, Lists
  <2> QED
    BY <1>1, <1>2, <2>1 DEF Linked
<1>5. Inner(k) = Inner(h) \cup {b}
  BY <1>1, <1>3, <1>4 DEF Inner
<1>6. \A a \in Linked(h) :
        /\ a \in DOMAIN h.sym /\ a # b
        /\ h.sym[a].n \in Linked(h) /\ h.sym[h.sym[a].n].p = a
        /\ h.sym[a].p \in Linked(h) /\ h.sym[h.sym[a].p].n = a
        /\ h.sym[a].owner \in DOMAIN h.rule
        /\ h.sym[h.sym[a].n].owner = h.sym[a].owner
  BY <1>1, Lists
<1>7. Linking(k)
  <2>1. ASSUME NEW a \in DOMAIN k.sym, a \notin Linked(k)
        PROVE  k.sym[a].p = Null
    <3>1. a \in DOMAIN h.sym /\ a \notin Linked(h) /\ a # b /\ a # z
      BY <2>1, <1>1, <1>2, <1>4
    <3>2. h.sym[a].p = Null
      BY <3>1 DEF Core, Linking
    <3> QED
      BY <3>1, <3>2, <1>2
  <2>2. ASSUME NEW a \in Linked(k)
        PROVE  /\ k.sym[a].n \in Linked(k) /\ k.sym[k.sym[a].n].p = a
               /\ k.sym[a].p \in Linked(k) /\ k.sym[k.sym[a].p].n = a
               /\ k.sym[a].owner \in DOMAIN k.rule
               /\ k.sym[k.sym[a].n].owner = k.sym[a].owner
    <3>1. CASE a = b
      BY <3>1, <1>1, <1>2, <1>4
    <3>2. CASE a # b
      <4>1. a \in Linked(h)
        BY <3>2, <2>2, <1>4
      <4>2. CASE a = q
        <5>1. k.sym[a].n = b /\ k.sym[b].p = a /\ k.sym[b].owner = r
          BY <4>2, <1>1, <1>2
        <5>2. k.sym[a].p \in Linked(k) /\ k.sym[k.sym[a].p].n = a
          <6>1. CASE a = z
            BY <6>1, <4>2, <1>1, <1>2, <1>4
          <6>2. CASE a # z
            <7>1. h.sym[a].p # q
              BY <6>2, <4>1, <4>2, <1>6
            <7> QED
              BY <7>1, <6>2, <4>1, <4>2, <1>2, <1>4, <1>6
          <6> QED
            BY <6>1, <6>2
        <5> QED
          BY <5>1, <5>2, <4>1, <4>2, <1>1, <1>2, <1>4
      <4>3. CASE a # q
        <5>1. h.sym[a].n # z
          BY <4>1, <4>3, <1>1, <1>6
        <5>2. /\ k.sym[a].n = h.sym[a].n /\ k.sym[h.sym[a].n].p = a
              /\ k.sym[h.sym[a].n].owner = h.sym[a].owner
          BY <5>1, <4>1, <4>3, <3>2, <1>2, <1>6
        <5>3. k.sym[a].p \in Linked(k) /\ k.sym[k.sym[a].p].n = a
          <6>1. CASE a = z
            BY <6>1, <4>1, <1>1, <1>2, <1>4
          <6>2. CASE a # z
            <7>1. h.sym[a].p # q
              BY <6>2, <4>1, <1>6
            <7> QED
              BY <7>1, <6>2, <3>2, <4>1, <1>2, <1>4, <1>6
          <6> QED
            BY <6>1, <6>2
        <5> QED
          BY <5>2, <5>3, <4>1, <1>2, <1>4, <1>6
      <4> QED
        BY <4>2, <4>3
    <3> QED
      BY <3>1, <3>2
  <2>3. ASSUME NEW y \in DOMAIN k.rule
        PROVE  /\ k.rule[y].guard \in Linked(k)
               /\ k.sym[k.rule[y].guard].s = y /\ k.sym[k.rule[y].guard].owner = y
    BY <1>2, <1>4, GuardNodes
  <2> QED
    BY <2>1, <2>2, <2>3 DEF Linking
<1>8. Forward(k)
  <2> SUFFICES ASSUME NEW y \in DOMAIN k.rule, NEW T \in SUBSET Linked(k),
                      k.rule[y].guard \in T,
                      \A a \in T : k.sym[a].owner = y => k.sym[a].n \in T,
                      NEW x \in Linked(k), k.sym[x].owner = y
               PROVE  x \in T
    BY DEF Forward, NodeOf
  <2> DEFINE U == T \ {b}
  <2>1. U \subseteq Linked(h) /\ h.rule[y].guard \in U /\ y \in DOMAIN h.rule
    BY <1>1, <1>2, <1>4, GuardNodes
  <2>2. ASSUME NEW a \in U, h.sym[a].owner = y PROVE h.sym[a].n \in U
    <3>1. a \in T /\ a \in Linked(h) /\ a \in DOMAIN h.sym /\ a # b /\ k.sym[a].owner = y
      BY <2>1, <2>2, <1>2, <1>6
    <3>2. k.sym[a].n \in T /\ h.sym[a].n \in Linked(h) /\ h.sym[a].n # b
      BY <3>1, <1>6
    <3>3. CASE a = q
      <4>1. b \in T /\ k.sym[b].owner = y
        BY <3>1, <3>2, <3>3, <1>1, <1>2
      <4>2. z \in T
        BY <4>1, <1>1, <1>2
      <4> QED
        BY <4>2, <3>3, <1>1
    <3>4. CASE a # q
      BY <3>1, <3>2, <3>4, <1>2
    <3> QED
      BY <3>3, <3>4
  <2>3. \A a \in Linked(h) : h.sym[a].owner = y => a \in U
    BY <2>1, <2>2, Forwards DEF Core
  <2>4. CASE x # b
    <3>1. x \in Linked(h) /\ h.sym[x].owner = y
      BY <2>4, <1>2, <1>4, <1>6
    <3> QED
      BY <3>1, <2>3
  <2>5. CASE x = b
    <3>1. q \in T /\ k.sym[q].owner = y /\ k.sym[q].n = b
      BY <2>3, <2>5, <1>1, <1>2
    <3> QED
      BY <3>1, <2>5
  <2> QED
    BY <2>4, <2>5
<1>9. Backward(k)
  <2> SUFFICES ASSUME NEW y \in DOMAIN k.rule, NEW T \in SUBSET Linked(k),
                      k.rule[y].guard \in T,
                      \A a \in T : k.sym[a].owner = y => k.sym[a].p \in T,
                      NEW x \in Linked(k), k.sym[x].owner = y
               PROVE  x \in T
    BY DEF Backward, NodeOf
  <2> DEFINE U == T \ {b}
  <2>1. U \subseteq Linked(h) /\ h.rule[y].guard \in U /\ y \in DOMAIN h.rule
    BY <1>1, <1>2, <1>4, GuardNodes
  <2>2. ASSUME NEW a \in U, h.sym[a].owner = y PROVE h.sym[a].p \in U
    <3>1. a \in T /\ a \in Linked(h) /\ a \in DOMAIN h.sym /\ a # b /\ k.sym[a].owner = y
      BY <2>1, <2>2, <1>2, <1>6
    <3>2. k.sym[a].p \in T /\ h.sym[a].p \in Linked(h) /\ h.sym[a].p # b
      BY <3>1, <1>6
    <3>3. CASE a = z
      <4>1. b \in T /\ k.sym[b].owner = y
        BY <3>1, <3>2, <3>3, <1>1, <1>2
      <4>2. q \in T
        BY <4>1, <1>1, <1>2
      <4> QED
        BY <4>2, <3>3, <1>1
    <3>4. CASE a # z
      BY <3>1, <3>2, <3>4, <1>2
    <3> QED
      BY <3>3, <3>4
  <2>3. \A a \in Linked(h) : h.sym[a].owner = y => a \in U
    BY <2>1, <2>2, Backwards DEF Core
  <2>4. CASE x # b
    <3>1. x \in Linked(h) /\ h.sym[x].owner = y
      BY <2>4, <1>2, <1>4, <1>6
    <3> QED
      BY <3>1, <2>3
  <2>5. CASE x = b
    <3>1. z \in T /\ k.sym[z].owner = y /\ k.sym[z].p = b
      BY <2>3, <2>5, <1>1, <1>2
    <3> QED
      BY <3>1, <2>5
  <2> QED
    BY <2>4, <2>5
<1>10. Valued(k)
  BY <1>1, <1>2, <1>5 DEF Core, Valued, Inner, Linked
<1>11. Ranking(k, rk)
  <2>1. \A a \in Inner(h) : a \in DOMAIN h.sym
    BY DEF Inner, Linked
  <2> QED
    BY <2>1, <1>1, <1>2, <1>5 DEF Ranking
<1>12. Entries(k) /\ NoEntry(k, q) /\ NoEntry(k, b)
  <2> SUFFICES ASSUME NEW d \in DOMAIN k.table
               PROVE  LET a == k.table[d]
                      IN  a \in Inner(k) /\ k.sym[a].n \in Inner(k) /\ d = Digram(k, a) /\ a # q /\ a # b
    BY DEF Entries, NoEntry
  <2> DEFINE a == k.table[d]
  <2>1. a \in Inner(h) /\ h.sym[a].n \in Inner(h) /\ d = Digram(h, a) /\ a # q
    <3>1. CASE d \in DOMAIN h.table /\ k.table[d] = h.table[d] /\ h.table[d] # q
      BY <3>1 DEF Core, Entries
    <3>2. CASE /\ a = h.sym[q].p /\ h.sym[q].p \in Inner(h) /\ q \in Inner(h)
               /\ d = Digram(h, h.sym[q].p)
      <4>1. h.sym[h.sym[q].p].n = q
        BY <1>1, Lists
      <4>2. h.sym[q].p # q
        BY <3>2, Neighbours
      <4> QED
        BY <4>1, <4>2, <3>2
    <3> QED
      BY <3>1, <3>2 DEF Entries2
  <2>2. a # b /\ a \in DOMAIN h.sym /\ h.sym[a].n \in DOMAIN h.sym
    BY <2>1, <1>1, Lists
  <2> HIDE DEF a
  <2>3. k.sym[a].n = h.sym[a].n /\ k.sym[a].s = h.sym[a].s /\ k.sym[h.sym[a].n].s = h.sym[h.sym[a].n].s
    BY <2>1, <2>2, <1>2
  <2>4. Digram(k, a) = Digram(h, a)
    BY <2>3 DEF Digram
  <2> QED
    BY <2>1, <2>2, <2>3, <2>4, <1>5 DEF a
<1>13. Counted(k)
  <2>1. \A y \in DOMAIN k.rule :
          {a \in DOMAIN k.sym \ Guards(k) : k.sym[a].s = y} =
          {a \in DOMAIN h.sym \ Guards(h) : h.sym[a].s = y}
    BY <1>2, <1>3
  <2> QED
    BY <2>1, <1>2 DEF Core, Counted
<1>14. Allocated(k)
  BY <1>2 DEF Core, Allocated
<1> QED
  BY <1>3, <1>4, <1>5, <1>7, <1>8, <1>9, <1>10, <1>11, <1>12, <1>13, <1>14 DEF Core

\* An address about to be handed out is not in use, and the rest stay distinct.
LEMMA HandOut ==
  ASSUME NEW live, NEW free, NEW brk, Addresses(live, free, brk)
  PROVE  /\ free # <<>> =>
              /\ Head(free) \notin live /\ Head(free) \in Nat /\ 0 < Head(free)
              /\ Addresses(live \cup {Head(free)}, Tail(free), brk)
         /\ brk \notin live /\ brk \in Nat /\ 0 < brk
         /\ free = <<>> => Addresses(live \cup {brk}, free, brk + 1)
<1>1. /\ brk \in Nat \ {0} /\ free \in Seq(Nat)
      /\ \A a \in live : a \in Nat /\ 0 < a /\ a < brk
      /\ \A i \in 1 .. Len(free) : 0 < free[i] /\ free[i] < brk /\ free[i] \notin live
      /\ \A i, j \in 1 .. Len(free) : free[i] = free[j] => i = j
  BY DEF Addresses
<1>2. ASSUME free # <<>>
      PROVE  /\ Head(free) \notin live /\ Head(free) \in Nat /\ 0 < Head(free)
             /\ Addresses(live \cup {Head(free)}, Tail(free), brk)
  <2> DEFINE t == Tail(free)
             x == Head(free)
  <2>1. /\ t \in Seq(Nat) /\ Len(t) = Len(free) - 1 /\ Len(free) \in Nat /\ Len(t) \in Nat
        /\ \A i \in 1 .. Len(t) : t[i] = free[i + 1]
        /\ x = free[1]
    BY <1>1, <1>2, HeadTailProperties, LenProperties
  <2>2. Len(free) > 0 /\ 1 \in 1 .. Len(free)
    BY <1>1, <1>2, <2>1, EmptySeq, SeqEqual
  <2>3. x \notin live /\ x \in Nat /\ 0 < x /\ x < brk
    BY <1>1, <2>1, <2>2
  <2>4. \A i \in 1 .. Len(t) : i + 1 \in 1 .. Len(free) /\ t[i] = free[i + 1]
    BY <2>1
  <2> HIDE DEF t, x
  <2>5. \A i \in 1 .. Len(t) : 0 < t[i] /\ t[i] < brk /\ t[i] \notin live \cup {x}
    <3> SUFFICES ASSUME NEW i \in 1 .. Len(t)
                 PROVE  0 < t[i] /\ t[i] < brk /\ t[i] \notin live \cup {x}
      OBVIOUS
    <3>1. i + 1 # 1 /\ i + 1 \in 1 .. Len(free) /\ t[i] = free[i + 1]
      BY <2>1, <2>4
    <3>2. free[i + 1] # free[1]
      BY <3>1, <2>2, <1>1
    <3> QED
      BY <3>1, <3>2, <2>1, <1>1
  <2>6. \A i, j \in 1 .. Len(t) : t[i] = t[j] => i = j
    <3> SUFFICES ASSUME NEW i \in 1 .. Len(t), NEW j \in 1 .. Len(t), t[i] = t[j]
                 PROVE  i = j
      OBVIOUS
    <3>1. i + 1 = j + 1
      BY <2>4, <1>1
    <3> QED
      BY <3>1, <2>1
  <2>7. Addresses(live \cup {x}, t, brk)
    BY <1>1, <2>1, <2>3, <2>5, <2>6 DEF Addresses
  <2> QED
    BY <2>3, <2>7 DEF t, x
<1>3. brk \notin live /\ brk \in Nat /\ 0 < brk
  BY <1>1
<1>4. ASSUME free = <<>> PROVE Addresses(live \cup {brk}, free, brk + 1)
  BY <1>1, <1>4 DEF Addresses
<1> QED
  BY <1>2, <1>3, <1>4

\* A new node has an address that is not in use; so has a new rule.
LEMMA TakeSymbolIs ==
  ASSUME NEW h, IsHeap(h), Allocated(h)
  PROVE  LET k == TakeSymbol(h)
         IN  /\ DOMAIN k = HeapFields /\ k.sym = h.sym /\ k.rule = h.rule /\ k.table = h.table
             /\ k.rbrk = h.rbrk /\ k.rfree = h.rfree
             /\ SymbolAddress(h) \notin DOMAIN h.sym /\ SymbolAddress(h) # Null
             /\ SymbolAddress(h) \in Nat
             /\ Addresses(DOMAIN h.sym \cup {SymbolAddress(h)}, k.free, k.brk)
<1> DEFINE k == TakeSymbol(h)
<1>3. Addresses(DOMAIN h.sym, h.free, h.brk)
  BY DEF Allocated
<1>0. /\ h.free # <<>> =>
           /\ Head(h.free) \notin DOMAIN h.sym /\ Head(h.free) \in Nat /\ 0 < Head(h.free)
           /\ Addresses(DOMAIN h.sym \cup {Head(h.free)}, Tail(h.free), h.brk)
      /\ h.brk \notin DOMAIN h.sym /\ h.brk \in Nat /\ 0 < h.brk
      /\ h.free = <<>> => Addresses(DOMAIN h.sym \cup {h.brk}, h.free, h.brk + 1)
  BY <1>3, HandOut
<1>1. CASE h.free # <<>>
  <2>1. k = [h EXCEPT !.free = Tail(@), !.stale = Without(@, Head(h.free))]
    BY <1>1 DEF TakeSymbol
  <2>2. /\ DOMAIN k = HeapFields /\ k.sym = h.sym /\ k.rule = h.rule /\ k.table = h.table
        /\ k.rbrk = h.rbrk /\ k.rfree = h.rfree /\ k.brk = h.brk /\ k.free = Tail(h.free)
    BY <2>1 DEF IsHeap, HeapFields
  <2> HIDE DEF k
  <2>3. SymbolAddress(h) = Head(h.free)
    BY <1>1 DEF SymbolAddress
  <2>4. /\ SymbolAddress(h) \notin DOMAIN h.sym /\ SymbolAddress(h) \in Nat /\ 0 < SymbolAddress(h)
        /\ Addresses(DOMAIN h.sym \cup {SymbolAddress(h)}, k.free, k.brk)
    BY <1>0, <1>1, <2>2, <2>3
  <2> QED
    BY <2>2, <2>4 DEF k, Null
<1>2. CASE h.free = <<>>
  <2>1. k = [h EXCEPT !.brk = @ + 1]
    BY <1>2 DEF TakeSymbol
  <2>2. /\ DOMAIN k = HeapFields /\ k.sym = h.sym /\ k.rule = h.rule /\ k.table = h.table
        /\ k.rbrk = h.rbrk /\ k.rfree = h.rfree /\ k.brk = h.brk + 1 /\ k.free = h.free
    BY <2>1 DEF IsHeap, HeapFields
  <2> HIDE DEF k
  <2>3. SymbolAddress(h) = h.brk
    BY <1>2 DEF SymbolAddress
  <2>4. /\ SymbolAddress(h) \notin DOMAIN h.sym /\ SymbolAddress(h) \in Nat /\ 0 < SymbolAddress(h)
        /\ Addresses(DOMAIN h.sym \cup {SymbolAddress(h)}, k.free, k.brk)
    BY <1>0, <1>2, <2>2, <2>3
  <2> QED
    BY <2>2, <2>4 DEF k, Null
<1> QED
  BY <1>1, <1>2

\* Taking an address for a rule takes a free one and changes no list.
LEMMA TakeRuleIs ==
  ASSUME NEW h, IsHeap(h), Allocated(h)
  PROVE  LET k == TakeRule(h)
         IN  /\ DOMAIN k = HeapFields /\ k.sym = h.sym /\ k.rule = h.rule /\ k.table = h.table
             /\ k.brk = h.brk /\ k.free = h.free
             /\ RuleAddress(h) \notin DOMAIN h.rule /\ RuleAddress(h) # Null
             /\ RuleAddress(h) \in Nat
             /\ Addresses(DOMAIN h.rule \cup {RuleAddress(h)}, k.rfree, k.rbrk)
<1> DEFINE k == TakeRule(h)
<1>3. Addresses(DOMAIN h.rule, h.rfree, h.rbrk)
  BY DEF Allocated
<1>0. /\ h.rfree # <<>> =>
           /\ Head(h.rfree) \notin DOMAIN h.rule /\ Head(h.rfree) \in Nat /\ 0 < Head(h.rfree)
           /\ Addresses(DOMAIN h.rule \cup {Head(h.rfree)}, Tail(h.rfree), h.rbrk)
      /\ h.rbrk \notin DOMAIN h.rule /\ h.rbrk \in Nat /\ 0 < h.rbrk
      /\ h.rfree = <<>> => Addresses(DOMAIN h.rule \cup {h.rbrk}, h.rfree, h.rbrk + 1)
  BY <1>3, HandOut
<1>1. CASE h.rfree # <<>>
  <2>1. k = [h EXCEPT !.rfree = Tail(@)]
    BY <1>1 DEF TakeRule
  <2>2. /\ DOMAIN k = HeapFields /\ k.sym = h.sym /\ k.rule = h.rule /\ k.table = h.table
        /\ k.brk = h.brk /\ k.free = h.free /\ k.rbrk = h.rbrk /\ k.rfree = Tail(h.rfree)
    BY <2>1 DEF IsHeap, HeapFields
  <2> HIDE DEF k
  <2>3. RuleAddress(h) = Head(h.rfree)
    BY <1>1 DEF RuleAddress
  <2>4. /\ RuleAddress(h) \notin DOMAIN h.rule /\ RuleAddress(h) \in Nat /\ 0 < RuleAddress(h)
        /\ Addresses(DOMAIN h.rule \cup {RuleAddress(h)}, k.rfree, k.rbrk)
    BY <1>0, <1>1, <2>2, <2>3
  <2> QED
    BY <2>2, <2>4 DEF k, Null
<1>2. CASE h.rfree = <<>>
  <2>1. k = [h EXCEPT !.rbrk = @ + 1]
    BY <1>2 DEF TakeRule
  <2>2. /\ DOMAIN k = HeapFields /\ k.sym = h.sym /\ k.rule = h.rule /\ k.table = h.table
        /\ k.brk = h.brk /\ k.free = h.free /\ k.rbrk = h.rbrk + 1 /\ k.rfree = h.rfree
    BY <2>1 DEF IsHeap, HeapFields
  <2> HIDE DEF k
  <2>3. RuleAddress(h) = h.rbrk
    BY <1>2 DEF RuleAddress
  <2>4. /\ RuleAddress(h) \notin DOMAIN h.rule /\ RuleAddress(h) \in Nat /\ 0 < RuleAddress(h)
        /\ Addresses(DOMAIN h.rule \cup {RuleAddress(h)}, k.rfree, k.rbrk)
    BY <1>0, <1>2, <2>2, <2>3
  <2> QED
    BY <2>2, <2>4 DEF k, Null
<1> QED
  BY <1>1, <1>2

\* k is h with a new node a of value v and owner o, in no list.
Added(h, a, v, o, k) ==
  /\ a \notin DOMAIN h.sym /\ a # Null
  /\ DOMAIN k.sym = DOMAIN h.sym \cup {a}
  /\ \A b \in DOMAIN h.sym : k.sym[b] = h.sym[b]
  /\ k.sym[a].n = Null /\ k.sym[a].p = Null /\ k.sym[a].s = v /\ k.sym[a].owner = o
  /\ DOMAIN k.rule = DOMAIN h.rule
  /\ \A r \in DOMAIN h.rule :
       /\ k.rule[r].guard = h.rule[r].guard
       /\ IF r = v
          THEN /\ k.rule[r].count = h.rule[r].count + 1
               /\ k.rule[r].users = h.rule[r].users \cup {a}
          ELSE k.rule[r] = h.rule[r]
  /\ k.table = h.table

\* A new node is added to the heap, linked to nothing.
LEMMA NewSymbolIs ==
  ASSUME NEW h, IsHeap(h), Allocated(h), NEW v \in Terminal \cup DOMAIN h.rule, NEW o
  PROVE  LET k == NewSymbol(h, v, o)
         IN  /\ IsHeap(k) /\ Allocated(k) /\ Added(h, SymbolAddress(h), v, o, k)
<1> DEFINE a  == SymbolAddress(h)
           t  == TakeSymbol(h)
           x  == [n |-> Null, p |-> Null, s |-> v, owner |-> o,
                  pred |-> FALSE, preds |-> {}, upd |-> FALSE, next |-> NoNext]
           g1 == [t EXCEPT !.sym = Put(@, a, x)]
           k  == NewSymbol(h, v, o)
<1>1. /\ DOMAIN t = HeapFields /\ t.sym = h.sym /\ t.rule = h.rule /\ t.table = h.table
      /\ t.rbrk = h.rbrk /\ t.rfree = h.rfree
      /\ a \notin DOMAIN h.sym /\ a # Null
      /\ Addresses(DOMAIN h.sym \cup {a}, t.free, t.brk)
  BY TakeSymbolIs
<1>2. /\ DOMAIN x = NodeFields /\ x.pred \in BOOLEAN /\ x.upd \in BOOLEAN /\ x.next.pred \in BOOLEAN
      /\ x.n = Null /\ x.p = Null /\ x.s = v /\ x.owner = o
  BY DEF NodeFields, NoNext
<1>3. k = IF NT(v)
          THEN [g1 EXCEPT !.rule[v].count = @ + 1, !.rule[v].users = @ \cup {a}]
          ELSE g1
  BY DEF NewSymbol
<1> HIDE DEF t, x, a, k
<1>4. /\ DOMAIN g1 = HeapFields /\ g1.rule = h.rule /\ g1.table = h.table
      /\ g1.sym = Put(h.sym, a, x)
      /\ g1.rbrk = h.rbrk /\ g1.rfree = h.rfree /\ g1.brk = t.brk /\ g1.free = t.free
  BY <1>1 DEF HeapFields
<1> HIDE DEF g1
<1>5. /\ DOMAIN g1.sym = DOMAIN h.sym \cup {a} /\ g1.sym[a] = x
      /\ \A b \in DOMAIN h.sym : g1.sym[b] = h.sym[b]
  BY <1>1, <1>4 DEF Put
<1>6. \A b \in DOMAIN g1.sym :
        /\ DOMAIN g1.sym[b] = NodeFields
        /\ g1.sym[b].pred \in BOOLEAN /\ g1.sym[b].upd \in BOOLEAN
        /\ g1.sym[b].next.pred \in BOOLEAN
  BY <1>2, <1>5 DEF IsHeap
<1>7. \A r \in DOMAIN h.rule : NT(r)
  BY RuleValues
<1>8. \A r \in Terminal : ~NT(r)
  BY RuleValues
<1>9. CASE NT(v)
  <2>0. v \in DOMAIN h.rule
    BY <1>8, <1>9
  <2> DEFINE R1 == [h.rule EXCEPT ![v].count = @ + 1]
  <2>1. /\ DOMAIN k = HeapFields /\ k.sym = g1.sym /\ k.table = h.table
        /\ k.rbrk = h.rbrk /\ k.rfree = h.rfree /\ k.brk = t.brk /\ k.free = t.free
        /\ k.rule = [R1 EXCEPT ![v].users = @ \cup {a}]
    BY <1>3, <1>4, <1>9 DEF HeapFields
  <2>2. /\ DOMAIN R1 = DOMAIN h.rule
        /\ \A q \in DOMAIN h.rule : q # v => R1[q] = h.rule[q]
        /\ \A q \in DOMAIN h.rule : DOMAIN R1[q] = RuleFields
        /\ R1[v].count = h.rule[v].count + 1
        /\ R1[v].users = h.rule[v].users /\ R1[v].guard = h.rule[v].guard
    BY <2>0 DEF IsHeap, RuleFields
  <2> HIDE DEF R1
  <2>3. /\ DOMAIN k.rule = DOMAIN h.rule
        /\ \A q \in DOMAIN h.rule : q # v => k.rule[q] = h.rule[q]
        /\ \A q \in DOMAIN h.rule : DOMAIN k.rule[q] = RuleFields
        /\ k.rule[v].count = h.rule[v].count + 1
        /\ k.rule[v].users = h.rule[v].users \cup {a} /\ k.rule[v].guard = h.rule[v].guard
    BY <2>0, <2>1, <2>2 DEF RuleFields
  <2>4. IsHeap(k)
    BY <1>6, <2>1, <2>3 DEF IsHeap
  <2>5. Allocated(k)
    BY <1>1, <1>5, <2>1, <2>3 DEF Allocated
  <2>6. Added(h, a, v, o, k)
    BY <1>1, <1>2, <1>5, <2>1, <2>3 DEF Added
  <2> QED
    BY <2>4, <2>5, <2>6 DEF k, a
<1>10. CASE ~NT(v)
  <2>1. k = g1 /\ v \notin DOMAIN h.rule
    BY <1>3, <1>7, <1>10
  <2>2. \A q \in DOMAIN g1.rule : DOMAIN g1.rule[q] = RuleFields
    BY <1>4 DEF IsHeap
  <2>4. IsHeap(k)
    BY <1>4, <1>6, <2>1, <2>2 DEF IsHeap
  <2>5. Allocated(k)
    BY <1>1, <1>4, <1>5, <2>1 DEF Allocated
  <2>6. Added(h, a, v, o, k)
    BY <1>1, <1>2, <1>4, <1>5, <2>1 DEF Added
  <2> QED
    BY <2>4, <2>5, <2>6 DEF k, a
<1> QED
  BY <1>9, <1>10

\* A heap with a node more that nothing links to is sound.
LEMMA AddedCore ==
  ASSUME NEW h, Core(h), NEW rk, Ranking(h, rk), NEW a, NEW v, NEW o,
         v \in Terminal \cup DOMAIN h.rule,
         NEW k, IsHeap(k), Allocated(k), Added(h, a, v, o, k)
  PROVE  /\ Core(k) /\ Ranking(k, rk)
         /\ Guards(k) = Guards(h) /\ Linked(k) = Linked(h) /\ Inner(k) = Inner(h)
<1>1. /\ a \notin DOMAIN h.sym /\ a # Null
      /\ DOMAIN k.sym = DOMAIN h.sym \cup {a}
      /\ \A b \in DOMAIN h.sym : k.sym[b] = h.sym[b]
      /\ k.sym[a].n = Null /\ k.sym[a].p = Null /\ k.sym[a].s = v
      /\ DOMAIN k.rule = DOMAIN h.rule /\ k.table = h.table
      /\ \A r \in DOMAIN h.rule : k.rule[r].guard = h.rule[r].guard
  BY DEF Added
<1>2. Guards(k) = Guards(h)
  BY <1>1 DEF Guards
<1>3. Linked(k) = Linked(h)
  BY <1>1 DEF Linked
<1>4. Inner(k) = Inner(h)
  BY <1>2, <1>3 DEF Inner
<1>5. \A b \in Linked(h) : b \in DOMAIN h.sym /\ k.sym[b] = h.sym[b]
  BY <1>1 DEF Linked
<1>6. \A b \in Inner(h) : b \in Linked(h)
  BY DEF Inner
<1>7. Linking(k)
  <2>1. Linking(h)
    BY DEF Core
  <2>2. \A b \in DOMAIN k.sym : b \notin Linked(k) => k.sym[b].p = Null
    BY <2>1, <1>1, <1>3 DEF Linking
  <2>3. \A b \in Linked(h) :
          /\ k.sym[b].n \in Linked(h) /\ k.sym[k.sym[b].n].p = b
          /\ k.sym[b].p \in Linked(h) /\ k.sym[k.sym[b].p].n = b
          /\ k.sym[b].owner \in DOMAIN h.rule
          /\ k.sym[k.sym[b].n].owner = k.sym[b].owner
    BY <2>1, <1>5 DEF Linking
  <2>4. \A r \in DOMAIN h.rule :
          /\ k.rule[r].guard \in Linked(h)
          /\ k.sym[k.rule[r].guard].s = r /\ k.sym[k.rule[r].guard].owner = r
    BY <2>1, <1>1, <1>5 DEF Linking
  <2> QED
    BY <2>2, <2>3, <2>4, <1>1, <1>3 DEF Linking
<1>8. Forward(k)
  <2> SUFFICES ASSUME NEW r \in DOMAIN h.rule, NEW T \in SUBSET Linked(h),
                      h.rule[r].guard \in T,
                      \A x \in T : k.sym[x].owner = r => k.sym[x].n \in T,
                      NEW y \in Linked(h), k.sym[y].owner = r
               PROVE  y \in T
    BY <1>1, <1>3 DEF Forward, NodeOf
  <2> QED
    BY <1>5, Forwards DEF Core
<1>9. Backward(k)
  <2> SUFFICES ASSUME NEW r \in DOMAIN h.rule, NEW T \in SUBSET Linked(h),
                      h.rule[r].guard \in T,
                      \A x \in T : k.sym[x].owner = r => k.sym[x].p \in T,
                      NEW y \in Linked(h), k.sym[y].owner = r
               PROVE  y \in T
    BY <1>1, <1>3 DEF Backward, NodeOf
  <2> QED
    BY <1>5, Backwards DEF Core
<1>10. Valued(k)
  BY <1>1, <1>4, <1>5, <1>6 DEF Core, Valued
<1>11. Ranking(k, rk)
  BY <1>1, <1>4, <1>5, <1>6 DEF Ranking
<1>12. Entries(k)
  <2> SUFFICES ASSUME NEW d \in DOMAIN h.table
               PROVE  LET b == h.table[d]
                      IN  b \in Inner(h) /\ k.sym[b].n \in Inner(h) /\ d = Digram(k, b)
    BY <1>1, <1>4 DEF Entries
  <2> DEFINE b == h.table[d]
  <2>1. b \in Inner(h) /\ h.sym[b].n \in Inner(h) /\ d = Digram(h, b)
    BY DEF Core, Entries
  <2> HIDE DEF b
  <2>2. k.sym[b] = h.sym[b] /\ k.sym[h.sym[b].n] = h.sym[h.sym[b].n]
    BY <2>1, <1>5, <1>6
  <2> QED
    BY <2>1, <2>2 DEF Digram, b
<1>13. Counted(k)
  <2>1. IsFiniteSet(DOMAIN k.sym)
    BY <1>1, FS_AddElement DEF Core, Counted
  <2>2. ASSUME NEW r \in DOMAIN h.rule
        PROVE  /\ k.rule[r].users = {b \in DOMAIN k.sym \ Guards(k) : k.sym[b].s = r}
               /\ k.rule[r].count = Cardinality(k.rule[r].users)
    <3>1. /\ h.rule[r].users = {b \in DOMAIN h.sym \ Guards(h) : h.sym[b].s = r}
          /\ h.rule[r].count = Cardinality(h.rule[r].users)
          /\ IsFiniteSet(h.rule[r].users)
      <4>1. /\ h.rule[r].users = {b \in DOMAIN h.sym \ Guards(h) : h.sym[b].s = r}
            /\ h.rule[r].count = Cardinality(h.rule[r].users)
            /\ IsFiniteSet(DOMAIN h.sym)
        BY DEF Core, Counted
      <4>2. h.rule[r].users \subseteq DOMAIN h.sym
        BY <4>1
      <4> QED
        BY <4>1, <4>2, FS_Subset
    <3>2. a \notin Guards(k)
      <4>1. \A b \in Guards(h) : b \in DOMAIN h.sym
        BY GuardNodes
      <4> QED
        BY <4>1, <1>1, <1>2
    <3>3. CASE r = v
      <4>1. k.rule[r].users = h.rule[r].users \cup {a} /\ k.rule[r].count = h.rule[r].count + 1
        BY <3>3 DEF Added
      <4>2. a \notin h.rule[r].users
        BY <3>1, <1>1
      <4>3. Cardinality(h.rule[r].users \cup {a}) = Cardinality(h.rule[r].users) + 1
        BY <3>1, <4>2, FS_AddElement
      <4>4. k.rule[r].users = {b \in DOMAIN k.sym \ Guards(k) : k.sym[b].s = r}
        BY <3>1, <3>2, <3>3, <4>1, <1>1, <1>2
      <4> QED
        BY <3>1, <4>1, <4>3, <4>4
    <3>4. CASE r # v
      <4>1. k.rule[r] = h.rule[r]
        BY <3>4 DEF Added
      <4>2. k.rule[r].users = {b \in DOMAIN k.sym \ Guards(k) : k.sym[b].s = r}
        BY <3>1, <3>2, <3>4, <4>1, <1>1, <1>2
      <4> QED
        BY <3>1, <4>1, <4>2
    <3> QED
      BY <3>3, <3>4
  <2> QED
    BY <2>1, <2>2, <1>1 DEF Counted
<1> QED
  BY <1>2, <1>3, <1>4, <1>7, <1>8, <1>9, <1>10, <1>11, <1>12, <1>13 DEF Core

\* k is h with a new empty rule r, whose guard is the new node a.
Opened(h, a, r, k) ==
  /\ a \notin DOMAIN h.sym /\ a # Null /\ r \notin DOMAIN h.rule
  /\ DOMAIN k.sym = DOMAIN h.sym \cup {a}
  /\ \A b \in DOMAIN h.sym : k.sym[b] = h.sym[b]
  /\ k.sym[a].n = a /\ k.sym[a].p = a /\ k.sym[a].s = r /\ k.sym[a].owner = r
  /\ DOMAIN k.rule = DOMAIN h.rule \cup {r}
  /\ \A q \in DOMAIN h.rule : k.rule[q] = h.rule[q]
  /\ k.rule[r].guard = a /\ k.rule[r].count = 0 /\ k.rule[r].users = {}
  /\ k.table = h.table

\* A new rule has a guard linked to itself.
LEMMA NewRuleIs ==
  ASSUME NEW h, IsHeap(h), Allocated(h)
  PROVE  LET k == NewRule(h)
         IN  IsHeap(k) /\ Allocated(k) /\ Opened(h, SymbolAddress(h), RuleAddress(h), k)
<1> DEFINE a  == SymbolAddress(h)
           r  == RuleAddress(h)
           t  == TakeSymbol(h)
           u  == TakeRule(t)
           x  == [n |-> a, p |-> a, s |-> r, owner |-> r,
                  pred |-> FALSE, preds |-> {}, upd |-> FALSE, next |-> NoNext]
           y  == [guard |-> a, count |-> 0, users |-> {}]
           k  == NewRule(h)
<1>1. /\ DOMAIN t = HeapFields /\ t.sym = h.sym /\ t.rule = h.rule /\ t.table = h.table
      /\ t.rbrk = h.rbrk /\ t.rfree = h.rfree
      /\ a \notin DOMAIN h.sym /\ a # Null
      /\ Addresses(DOMAIN h.sym \cup {a}, t.free, t.brk)
  BY TakeSymbolIs
<1>2. r \notin DOMAIN h.rule
  BY TakeRuleIs
<1>3. /\ DOMAIN u = HeapFields /\ u.sym = h.sym /\ u.rule = h.rule /\ u.table = h.table
      /\ u.brk = t.brk /\ u.free = t.free
      /\ Addresses(DOMAIN h.rule \cup {r}, u.rfree, u.rbrk)
  <2>1. Addresses(DOMAIN h.rule, t.rfree, t.rbrk)
    BY <1>1 DEF Allocated
  <2>2. r = RuleAddress(t)
    BY <1>1 DEF RuleAddress
  <2> HIDE DEF t, r
  <2>3. /\ t.rfree # <<>> => Addresses(DOMAIN h.rule \cup {Head(t.rfree)}, Tail(t.rfree), t.rbrk)
        /\ t.rfree = <<>> => Addresses(DOMAIN h.rule \cup {t.rbrk}, t.rfree, t.rbrk + 1)
    BY <2>1, HandOut
  <2>4. CASE t.rfree # <<>>
    <3>1. u = [t EXCEPT !.rfree = Tail(@)] /\ r = Head(t.rfree)
      BY <2>2, <2>4 DEF TakeRule, RuleAddress
    <3> HIDE DEF u
    <3>2. /\ DOMAIN u = HeapFields /\ u.sym = h.sym /\ u.rule = h.rule /\ u.table = h.table
          /\ u.brk = t.brk /\ u.free = t.free /\ u.rfree = Tail(t.rfree) /\ u.rbrk = t.rbrk
      BY <3>1, <1>1 DEF HeapFields
    <3> QED
      BY <3>1, <3>2, <2>3, <2>4
  <2>5. CASE t.rfree = <<>>
    <3>1. u = [t EXCEPT !.rbrk = @ + 1] /\ r = t.rbrk
      BY <2>2, <2>5 DEF TakeRule, RuleAddress
    <3> HIDE DEF u
    <3>2. /\ DOMAIN u = HeapFields /\ u.sym = h.sym /\ u.rule = h.rule /\ u.table = h.table
          /\ u.brk = t.brk /\ u.free = t.free /\ u.rfree = t.rfree /\ u.rbrk = t.rbrk + 1
      BY <3>1, <1>1 DEF HeapFields
    <3> QED
      BY <3>1, <3>2, <2>3, <2>5
  <2> QED
    BY <2>4, <2>5
<1>4. k = [u EXCEPT !.sym = Put(@, a, x), !.rule = Put(@, r, y)]
  BY DEF NewRule
<1>5. /\ DOMAIN x = NodeFields /\ x.pred \in BOOLEAN /\ x.upd \in BOOLEAN /\ x.next.pred \in BOOLEAN
      /\ x.n = a /\ x.p = a /\ x.s = r /\ x.owner = r
      /\ DOMAIN y = RuleFields /\ y.guard = a /\ y.count = 0 /\ y.users = {}
  BY DEF NodeFields, RuleFields, NoNext
<1> HIDE DEF k, u, t, x, y, a, r
<1>6. /\ DOMAIN k = HeapFields /\ k.sym = Put(h.sym, a, x) /\ k.rule = Put(h.rule, r, y)
      /\ k.table = h.table /\ k.free = u.free /\ k.brk = u.brk
      /\ k.rfree = u.rfree /\ k.rbrk = u.rbrk
  BY <1>3, <1>4 DEF HeapFields
<1>7. /\ DOMAIN k.sym = DOMAIN h.sym \cup {a} /\ k.sym[a] = x
      /\ \A b \in DOMAIN h.sym : k.sym[b] = h.sym[b]
      /\ DOMAIN k.rule = DOMAIN h.rule \cup {r} /\ k.rule[r] = y
      /\ \A q \in DOMAIN h.rule : k.rule[q] = h.rule[q]
  BY <1>1, <1>2, <1>6 DEF Put
<1>8. IsHeap(k)
  BY <1>5, <1>6, <1>7 DEF IsHeap
<1>9. Allocated(k)
  BY <1>1, <1>3, <1>6, <1>7 DEF Allocated
<1>10. Opened(h, a, r, k)
  BY <1>1, <1>2, <1>5, <1>6, <1>7 DEF Opened
<1> QED
  BY <1>8, <1>9, <1>10 DEF a, r, k

\* The rank of the new rule may be chosen: rk2 ranks the others as rk does.
LEMMA OpenedCore ==
  ASSUME NEW h, Core(h), NEW rk, Ranking(h, rk), NEW a, NEW r,
         NEW k, IsHeap(k), Allocated(k), Opened(h, a, r, k),
         NEW rk2 \in [DOMAIN k.rule -> Nat], \A q \in DOMAIN h.rule : rk2[q] = rk[q]
  PROVE  /\ Core(k) /\ Ranking(k, rk2)
         /\ Guards(k) = Guards(h) \cup {a} /\ Linked(k) = Linked(h) \cup {a}
         /\ Inner(k) = Inner(h)
<1>1. /\ a \notin DOMAIN h.sym /\ a # Null /\ r \notin DOMAIN h.rule
      /\ DOMAIN k.sym = DOMAIN h.sym \cup {a}
      /\ \A b \in DOMAIN h.sym : k.sym[b] = h.sym[b]
      /\ k.sym[a].n = a /\ k.sym[a].p = a /\ k.sym[a].s = r /\ k.sym[a].owner = r
      /\ DOMAIN k.rule = DOMAIN h.rule \cup {r} /\ k.table = h.table
      /\ \A q \in DOMAIN h.rule : k.rule[q] = h.rule[q]
      /\ k.rule[r].guard = a /\ k.rule[r].count = 0 /\ k.rule[r].users = {}
  BY DEF Opened
<1>2. Guards(k) = Guards(h) \cup {a}
  BY <1>1 DEF Guards
<1>3. Linked(k) = Linked(h) \cup {a}
  BY <1>1 DEF Linked
<1>5. \A b \in Linked(h) : b \in DOMAIN h.sym /\ k.sym[b] = h.sym[b] /\ b # a
  BY <1>1 DEF Linked
<1>4. Inner(k) = Inner(h)
  BY <1>2, <1>3, <1>5 DEF Inner
<1>6. \A b \in Inner(h) : b \in Linked(h)
  BY DEF Inner
<1>14. \A b \in Guards(h) : b \in Linked(h)
  BY GuardNodes
<1>7. Linking(k)
  <2>1. Linking(h)
    BY DEF Core
  <2>2. \A b \in DOMAIN k.sym : b \notin Linked(k) => k.sym[b].p = Null
    BY <2>1, <1>1, <1>3 DEF Linking
  <2>3. \A b \in Linked(h) :
          /\ k.sym[b].n \in Linked(h) /\ k.sym[k.sym[b].n].p = b
          /\ k.sym[b].p \in Linked(h) /\ k.sym[k.sym[b].p].n = b
          /\ k.sym[b].owner \in DOMAIN h.rule
          /\ k.sym[k.sym[b].n].owner = k.sym[b].owner
    BY <2>1, <1>5 DEF Linking
  <2>4. \A q \in DOMAIN h.rule :
          /\ k.rule[q].guard \in Linked(h)
          /\ k.sym[k.rule[q].guard].s = q /\ k.sym[k.rule[q].guard].owner = q
    BY <2>1, <1>1, <1>5 DEF Linking
  <2> QED
    BY <2>2, <2>3, <2>4, <1>1, <1>3 DEF Linking
<1>8. Forward(k)
  <2> SUFFICES ASSUME NEW q \in DOMAIN k.rule, NEW T \in SUBSET Linked(k),
                      k.rule[q].guard \in T,
                      \A x \in T : k.sym[x].owner = q => k.sym[x].n \in T,
                      NEW y \in Linked(k), k.sym[y].owner = q
               PROVE  y \in T
    BY DEF Forward, NodeOf
  <2>1. CASE y = a
    BY <2>1, <1>1
  <2>2. CASE y # a
    <3>1. y \in Linked(h) /\ h.sym[y].owner = q /\ q \in DOMAIN h.rule
      BY <2>2, <1>3, <1>5, Lists
    <3> DEFINE U == T \ {a}
    <3>2. U \subseteq Linked(h) /\ h.rule[q].guard \in U
      BY <3>1, <1>1, <1>3, <1>5, GuardNodes
    <3>3. \A x \in U : h.sym[x].owner = q => h.sym[x].n \in U
      <4> SUFFICES ASSUME NEW x \in U, h.sym[x].owner = q PROVE h.sym[x].n \in U
        OBVIOUS
      <4>1. x \in Linked(h) /\ k.sym[x] = h.sym[x] /\ h.sym[x].n \in Linked(h)
        BY <3>2, <1>5, Lists
      <4> QED
        BY <4>1, <1>5
    <3>4. Forward(h)
      BY DEF Core
    <3> HIDE DEF U
    <3>5. y \in U
      BY <3>1, <3>2, <3>3, <3>4, Forwards
    <3> QED
      BY <3>5 DEF U
  <2> QED
    BY <2>1, <2>2
<1>9. Backward(k)
  <2> SUFFICES ASSUME NEW q \in DOMAIN k.rule, NEW T \in SUBSET Linked(k),
                      k.rule[q].guard \in T,
                      \A x \in T : k.sym[x].owner = q => k.sym[x].p \in T,
                      NEW y \in Linked(k), k.sym[y].owner = q
               PROVE  y \in T
    BY DEF Backward, NodeOf
  <2>1. CASE y = a
    BY <2>1, <1>1
  <2>2. CASE y # a
    <3>1. y \in Linked(h) /\ h.sym[y].owner = q /\ q \in DOMAIN h.rule
      BY <2>2, <1>3, <1>5, Lists
    <3> DEFINE U == T \ {a}
    <3>2. U \subseteq Linked(h) /\ h.rule[q].guard \in U
      BY <3>1, <1>1, <1>3, <1>5, GuardNodes
    <3>3. \A x \in U : h.sym[x].owner = q => h.sym[x].p \in U
      <4> SUFFICES ASSUME NEW x \in U, h.sym[x].owner = q PROVE h.sym[x].p \in U
        OBVIOUS
      <4>1. x \in Linked(h) /\ k.sym[x] = h.sym[x] /\ h.sym[x].p \in Linked(h)
        BY <3>2, <1>5, Lists
      <4> QED
        BY <4>1, <1>5
    <3>4. Backward(h)
      BY DEF Core
    <3> HIDE DEF U
    <3>5. y \in U
      BY <3>1, <3>2, <3>3, <3>4, Backwards
    <3> QED
      BY <3>5 DEF U
  <2> QED
    BY <2>1, <2>2
<1>10. Valued(k)
  BY <1>1, <1>4, <1>5, <1>6 DEF Core, Valued
<1>11. Ranking(k, rk2)
  <2>4. ASSUME NEW b \in Inner(k), k.sym[b].s \in DOMAIN k.rule
        PROVE  rk2[k.sym[b].s] < rk2[k.sym[b].owner]
    <3>1. b \in Inner(h) /\ b \in Linked(h) /\ k.sym[b] = h.sym[b] /\ b \in DOMAIN h.sym
      BY <1>4, <1>5, <1>6
    <3>2. h.sym[b].owner \in DOMAIN h.rule
      BY <3>1, Lists
    <3>3. h.sym[b].s \in DOMAIN h.rule
      <4>1. h.sym[b].s \in Terminal \cup DOMAIN h.rule
        BY <3>1, Values
      <4>2. \A q \in Terminal : q \notin DOMAIN k.rule
        BY RuleValues DEF Core
      <4>3. \A q \in DOMAIN k.rule : q \notin Terminal
        BY <4>2
      <4> QED
        BY <2>4, <3>1, <4>1, <4>3
    <3> QED
      BY <3>1, <3>2, <3>3 DEF Ranking
  <2> QED
    BY <2>4 DEF Ranking
<1>12. Entries(k)
  <2> SUFFICES ASSUME NEW d \in DOMAIN h.table
               PROVE  LET b == h.table[d]
                      IN  b \in Inner(h) /\ k.sym[b].n \in Inner(h) /\ d = Digram(k, b)
    BY <1>1, <1>4 DEF Entries
  <2> DEFINE b == h.table[d]
  <2>1. b \in Inner(h) /\ h.sym[b].n \in Inner(h) /\ d = Digram(h, b)
    BY DEF Core, Entries
  <2> HIDE DEF b
  <2>2. k.sym[b] = h.sym[b] /\ k.sym[h.sym[b].n] = h.sym[h.sym[b].n]
    BY <2>1, <1>5, <1>6
  <2> QED
    BY <2>1, <2>2 DEF Digram, b
<1>13. Counted(k)
  <2>1. IsFiniteSet(DOMAIN k.sym)
    BY <1>1, FS_AddElement DEF Core, Counted
  <2>2. ASSUME NEW q \in DOMAIN k.rule
        PROVE  /\ k.rule[q].users = {b \in DOMAIN k.sym \ Guards(k) : k.sym[b].s = q}
               /\ k.rule[q].count = Cardinality(k.rule[q].users)
    <3>1. CASE q \in DOMAIN h.rule
      <4>1. /\ h.rule[q].users = {b \in DOMAIN h.sym \ Guards(h) : h.sym[b].s = q}
            /\ h.rule[q].count = Cardinality(h.rule[q].users)
        BY <3>1 DEF Core, Counted
      <4>2. k.rule[q] = h.rule[q]
        BY <3>1, <1>1
      <4>3. {b \in DOMAIN k.sym \ Guards(k) : k.sym[b].s = q} =
            {b \in DOMAIN h.sym \ Guards(h) : h.sym[b].s = q}
        BY <1>1, <1>2
      <4> QED
        BY <4>1, <4>2, <4>3
    <3>2. CASE q = r
      <4>1. \A b \in DOMAIN h.sym : h.sym[b].s # r
        <5>1. \A b \in DOMAIN h.sym : h.sym[b].s \in Terminal \cup DOMAIN h.rule
          BY Values
        <5>2. r \notin Terminal
          BY <1>1, RuleValues
        <5> QED
          BY <5>1, <5>2, <1>1
      <4>2. {b \in DOMAIN k.sym \ Guards(k) : k.sym[b].s = q} = {}
        BY <3>2, <4>1, <1>1, <1>2
      <4> QED
        BY <3>2, <4>2, <1>1, FS_EmptySet
    <3> QED
      BY <3>1, <3>2, <1>1
  <2> QED
    BY <2>1, <2>2 DEF Counted
<1> QED
  BY <1>2, <1>3, <1>4, <1>7, <1>8, <1>9, <1>10, <1>11, <1>12, <1>13 DEF Core

-----------------------------------------------------------------------------
(* The predictor operators leave the grammar alone.                        *)

\* The same grammar: nodes, values, links, rules and table.
Same(h, k) == IsHeap(k) /\ SameLists(h, k) /\ k.table = h.table

\* Sameness is transitive, and what is the same as a sound heap is sound.
LEMMA SameTrans ==
  ASSUME NEW h, NEW k, NEW j, Same(h, k), Same(k, j)
  PROVE  Same(h, j)
  BY DEF Same, SameLists

\* A heap of the same lists and values has the same lists, ranks and guards.
LEMMA SameCore ==
  ASSUME NEW h, NEW k, Core(h), Same(h, k)
  PROVE  /\ Core(k) /\ \A rk : Ranking(h, rk) => Ranking(k, rk)
         /\ Guards(k) = Guards(h) /\ Linked(k) = Linked(h) /\ Inner(k) = Inner(h)
<1>1. /\ DOMAIN k.sym = DOMAIN h.sym /\ k.rule = h.rule /\ k.table = h.table
      /\ \A b \in DOMAIN h.sym :
           /\ k.sym[b].n = h.sym[b].n /\ k.sym[b].p = h.sym[b].p
           /\ k.sym[b].s = h.sym[b].s /\ k.sym[b].owner = h.sym[b].owner
      /\ k.brk = h.brk /\ k.rbrk = h.rbrk /\ k.free = h.free /\ k.rfree = h.rfree
      /\ IsHeap(k)
  BY DEF Same, SameLists
<1>2. Guards(k) = Guards(h)
  BY <1>1 DEF Guards
<1>3. Linked(k) = Linked(h)
  BY <1>1 DEF Linked
<1>4. Inner(k) = Inner(h)
  BY <1>2, <1>3 DEF Inner
<1>5. (\A b \in Linked(h) : b \in DOMAIN h.sym) /\ (\A b \in Inner(h) : b \in Linked(h))
  BY DEF Inner, Linked
<1>6. Linking(k)
  <2>1. Linking(h)
    BY DEF Core
  <2>2. \A b \in DOMAIN k.sym : b \notin Linked(k) => k.sym[b].p = Null
    BY <2>1, <1>1, <1>3 DEF Linking
  <2>3. \A b \in Linked(h) :
          /\ k.sym[b].n \in Linked(h) /\ k.sym[k.sym[b].n].p = b
          /\ k.sym[b].p \in Linked(h) /\ k.sym[k.sym[b].p].n = b
          /\ k.sym[b].owner \in DOMAIN h.rule
          /\ k.sym[k.sym[b].n].owner = k.sym[b].owner
    <3> SUFFICES ASSUME NEW b \in Linked(h)
                 PROVE  /\ k.sym[b].n \in Linked(h) /\ k.sym[k.sym[b].n].p = b
                        /\ k.sym[b].p \in Linked(h) /\ k.sym[k.sym[b].p].n = b
                        /\ k.sym[b].owner \in DOMAIN h.rule
                        /\ k.sym[k.sym[b].n].owner = k.sym[b].owner
      OBVIOUS
    <3>1. /\ h.sym[b].n \in Linked(h) /\ h.sym[h.sym[b].n].p = b
          /\ h.sym[b].p \in Linked(h) /\ h.sym[h.sym[b].p].n = b
          /\ h.sym[b].owner \in DOMAIN h.rule
          /\ h.sym[h.sym[b].n].owner = h.sym[b].owner
      BY <2>1 DEF Linking
    <3>2. b \in DOMAIN h.sym /\ h.sym[b].n \in DOMAIN h.sym /\ h.sym[b].p \in DOMAIN h.sym
      BY <3>1, <1>5
    <3>3. k.sym[b].n = h.sym[b].n /\ k.sym[b].p = h.sym[b].p /\ k.sym[b].owner = h.sym[b].owner
      BY <3>2, <1>1
    <3>4. /\ k.sym[h.sym[b].n].p = h.sym[h.sym[b].n].p
          /\ k.sym[h.sym[b].p].n = h.sym[h.sym[b].p].n
          /\ k.sym[h.sym[b].n].owner = h.sym[h.sym[b].n].owner
      BY <3>2, <1>1
    <3> QED
      BY <3>1, <3>3, <3>4
  <2>4. \A r \in DOMAIN h.rule :
          /\ k.rule[r].guard \in Linked(h)
          /\ k.sym[k.rule[r].guard].s = r /\ k.sym[k.rule[r].guard].owner = r
    BY <2>1, <1>1, <1>5 DEF Linking
  <2> QED
    BY <2>2, <2>3, <2>4, <1>1, <1>3 DEF Linking
<1>7. Forward(k)
  <2> SUFFICES ASSUME NEW r \in DOMAIN h.rule, NEW T \in SUBSET Linked(h),
                      h.rule[r].guard \in T,
                      \A x \in T : k.sym[x].owner = r => k.sym[x].n \in T,
                      NEW y \in Linked(h), k.sym[y].owner = r
               PROVE  y \in T
    BY <1>1, <1>3 DEF Forward, NodeOf
  <2> QED
    BY <1>1, <1>5, Forwards DEF Core
<1>8. Backward(k)
  <2> SUFFICES ASSUME NEW r \in DOMAIN h.rule, NEW T \in SUBSET Linked(h),
                      h.rule[r].guard \in T,
                      \A x \in T : k.sym[x].owner = r => k.sym[x].p \in T,
                      NEW y \in Linked(h), k.sym[y].owner = r
               PROVE  y \in T
    BY <1>1, <1>3 DEF Backward, NodeOf
  <2> QED
    BY <1>1, <1>5, Backwards DEF Core
<1>9. Valued(k)
  BY <1>1, <1>4, <1>5 DEF Core, Valued
<1>10. \A rk : Ranking(h, rk) => Ranking(k, rk)
  BY <1>1, <1>4, <1>5 DEF Ranking
<1>11. Entries(k)
  <2> SUFFICES ASSUME NEW d \in DOMAIN h.table
               PROVE  LET b == h.table[d]
                      IN  b \in Inner(h) /\ k.sym[b].n \in Inner(h) /\ d = Digram(k, b)
    BY <1>1, <1>4 DEF Entries
  <2> DEFINE b == h.table[d]
  <2>1. b \in Inner(h) /\ h.sym[b].n \in Inner(h) /\ d = Digram(h, b)
    BY DEF Core, Entries
  <2> HIDE DEF b
  <2>2. /\ k.sym[b].n = h.sym[b].n /\ k.sym[b].s = h.sym[b].s
        /\ k.sym[h.sym[b].n].s = h.sym[h.sym[b].n].s
    BY <2>1, <1>1, <1>5
  <2> QED
    BY <2>1, <2>2 DEF Digram, b
<1>12. Counted(k)
  <2>1. \A r \in DOMAIN h.rule :
          {b \in DOMAIN k.sym \ Guards(k) : k.sym[b].s = r} =
          {b \in DOMAIN h.sym \ Guards(h) : h.sym[b].s = r}
    BY <1>1, <1>2
  <2> QED
    BY <2>1, <1>1 DEF Core, Counted
<1>13. Allocated(k)
  BY <1>1 DEF Core, Allocated
<1> QED
  BY <1>1, <1>2, <1>3, <1>4, <1>6, <1>7, <1>8, <1>9, <1>10, <1>11, <1>12, <1>13 DEF Core

\* The nodes of f and e differ in their predictor fields at most.
Remarks(f, e) ==
  /\ DOMAIN e = DOMAIN f
  /\ \A a \in DOMAIN f :
       /\ DOMAIN e[a] = NodeFields
       /\ e[a].n = f[a].n /\ e[a].p = f[a].p /\ e[a].s = f[a].s /\ e[a].owner = f[a].owner
       /\ e[a].pred \in BOOLEAN /\ e[a].upd \in BOOLEAN /\ e[a].next.pred \in BOOLEAN

\* Changing marks of predictors only changes nothing of the grammar.
LEMMA RemarksSame ==
  ASSUME NEW h, IsHeap(h), NEW k, DOMAIN k = HeapFields, Remarks(h.sym, k.sym),
         k.rule = h.rule, k.table = h.table, k.brk = h.brk, k.rbrk = h.rbrk,
         k.free = h.free, k.rfree = h.rfree
  PROVE  Same(h, k)
  BY DEF IsHeap, Same, SameLists, Remarks

\* None of the operations on predictors changes the grammar.
LEMMA MovePredictorSame ==
  ASSUME NEW h, IsHeap(h), NEW from, NEW to
  PROVE  Same(h, MovePredictor(h, from, to))
<1> DEFINE U == {u \in h.rule[h.sym[from].owner].users : from \in h.sym[u].preds}
           e == [a \in DOMAIN h.sym |->
                  IF a \in U THEN [h.sym[a] EXCEPT !.preds = (@ \ {from}) \cup to] ELSE h.sym[a]]
           k == MovePredictor(h, from, to)
<1>1. k = [h EXCEPT !.sym = e]
  BY DEF MovePredictor
<1> HIDE DEF k
<1>2. Remarks(h.sym, e)
  <2> HIDE DEF U
  <2> QED
    BY DEF Remarks, IsHeap, NodeFields
<1> HIDE DEF e
<1>3. /\ DOMAIN k = HeapFields /\ k.sym = e /\ k.rule = h.rule /\ k.table = h.table
      /\ k.brk = h.brk /\ k.rbrk = h.rbrk /\ k.free = h.free /\ k.rfree = h.rfree
  BY <1>1 DEF IsHeap, HeapFields
<1> QED
  BY <1>2, <1>3, RemarksSame DEF k

\* Entering predictions leaves lists and values alone,
LEMMA AddPredictionsSame ==
  ASSUME NEW h, IsHeap(h), NEW A
  PROVE  Same(h, AddPredictions(h, A))
  BY DEF AddPredictions, Same, SameLists, IsHeap, HeapFields

\* Setting the predictor fields of one node.
LEMMA MarkSame ==
  ASSUME NEW h, IsHeap(h), NEW a, NEW kids
  PROVE  Same(h, Mark(h, a, kids))
<1> DEFINE e == [h.sym EXCEPT ![a].pred = TRUE, ![a].preds = @ \cup kids]
           k == Mark(h, a, kids)
<1>1. k = [h EXCEPT !.sym = e]
  BY DEF Mark
<1> HIDE DEF k
<1>2. Remarks(h.sym, e)
  BY DEF Remarks, IsHeap, NodeFields
<1> HIDE DEF e
<1>3. /\ DOMAIN k = HeapFields /\ k.sym = e /\ k.rule = h.rule /\ k.table = h.table
      /\ k.brk = h.brk /\ k.rbrk = h.rbrk /\ k.free = h.free /\ k.rfree = h.rfree
  BY <1>1 DEF IsHeap, HeapFields
<1> QED
  BY <1>2, <1>3, RemarksSame DEF k

\* as does a node that inherits a predictor,
LEMMA InheritSame ==
  ASSUME NEW h, IsHeap(h), NEW old, NEW B, NEW twin
  PROVE  Same(h, InheritPredictor(h, old, B, twin))
<1>1. CASE ~h.sym[old].pred
  BY <1>1 DEF InheritPredictor, Same, SameLists
<1>2. CASE h.sym[old].pred
  <2> DEFINE m  == MovePredictor(h, old, {B})
             g1 == Mark(m, B, {twin})
             g2 == Mark(g1, twin, g1.sym[old].preds)
  <2>1. InheritPredictor(h, old, B, twin) = AddPredictions(g2, {twin})
    BY <1>2 DEF InheritPredictor
  <2>2. Same(h, m)
    BY MovePredictorSame
  <2> HIDE DEF m
  <2>3. Same(m, g1)
    <3>1. IsHeap(m)
      BY <2>2 DEF Same
    <3> QED
      BY <3>1, MarkSame
  <2> HIDE DEF g1
  <2>4. Same(g1, g2)
    <3>1. IsHeap(g1)
      BY <2>3 DEF Same
    <3> QED
      BY <3>1, MarkSame
  <2> HIDE DEF g2
  <2>5. Same(g2, AddPredictions(g2, {twin}))
    <3>1. IsHeap(g2)
      BY <2>4 DEF Same
    <3> QED
      BY <3>1, AddPredictionsSame
  <2>6. Same(h, g1)
    BY <2>2, <2>3, SameTrans
  <2>7. Same(h, g2)
    BY <2>6, <2>4, SameTrans
  <2>8. Same(h, AddPredictions(g2, {twin}))
    BY <2>7, <2>5, SameTrans
  <2> QED
    BY <2>1, <2>8
<1> QED
  BY <1>1, <1>2

\* becoming a predictor down to the end of a rule,
LEMMA DownSame ==
  ASSUME NEW h, IsHeap(h), NEW A, NEW end
  PROVE  Same(h, BecomePredictorDown(h, A, end))
<1> DEFINE S == UNION {Spine(h, a, end) : a \in A}
           e == [b \in DOMAIN h.sym |->
                  IF b \notin S THEN h.sym[b]
                  ELSE [h.sym[b] EXCEPT
                          !.pred = TRUE,
                          !.preds = IF NT(h.sym[b].s)
                                    THEN @ \cup {end[h.sym[b].s]} ELSE @]]
           m == [h EXCEPT !.sym = e]
<1>1. BecomePredictorDown(h, A, end) = AddPredictions(m, S)
  BY DEF BecomePredictorDown
<1> HIDE DEF S
<1>2. Remarks(h.sym, e)
  BY DEF Remarks, IsHeap, NodeFields
<1> HIDE DEF e
<1>3. Same(h, m)
  <2>1. /\ DOMAIN m = HeapFields /\ m.sym = e /\ m.rule = h.rule /\ m.table = h.table
        /\ m.brk = h.brk /\ m.rbrk = h.rbrk /\ m.free = h.free /\ m.rfree = h.rfree
    BY DEF IsHeap, HeapFields
  <2> HIDE DEF m
  <2> QED
    BY <1>2, <2>1, RemarksSame
<1> HIDE DEF m
<1>4. Same(m, AddPredictions(m, S))
  BY <1>3, AddPredictionsSame DEF Same
<1> QED
  BY <1>1, <1>3, <1>4, SameTrans

\* becoming a predictor up to the root,
LEMMA UpSame ==
  ASSUME NEW h, IsHeap(h), NEW A
  PROVE  Same(h, BecomePredictorUp(h, A))
<1> DEFINE links == LinksUp(h, A)
           tops  == {l[1] : l \in links}
           e == [u \in DOMAIN h.sym |->
                  IF u \notin tops THEN h.sym[u]
                  ELSE [h.sym[u] EXCEPT
                          !.pred = TRUE,
                          !.preds = @ \cup {l[2] : l \in {f \in links : f[1] = u}}]]
           m == [h EXCEPT !.sym = e]
<1>1. BecomePredictorUp(h, A) = m
  BY DEF BecomePredictorUp
<1> HIDE DEF links, tops
<1>2. Remarks(h.sym, e)
  BY DEF Remarks, IsHeap, NodeFields
<1> HIDE DEF e
<1>3. /\ DOMAIN m = HeapFields /\ m.sym = e /\ m.rule = h.rule /\ m.table = h.table
      /\ m.brk = h.brk /\ m.rbrk = h.rbrk /\ m.free = h.free /\ m.rfree = h.rfree
  BY DEF IsHeap, HeapFields
<1> HIDE DEF m
<1> QED
  BY <1>1, <1>2, <1>3, RemarksSame

\* looking for new predictors,
LEMMA FindSame ==
  ASSUME NEW h, IsHeap(h), NEW last
  PROVE  Same(h, FindNewPredictors(h, last))
<1> DEFINE nodes == UNION {NodesOf(h, r) : r \in DOMAIN h.rule}
           same  == {a \in nodes \ {last} : h.sym[a].s = h.sym[last].s}
           end   == RightEnd(h)
           m     == BecomePredictorDown(h, same, end)
<1>1. FindNewPredictors(h, last) = BecomePredictorUp(m, same)
  BY DEF FindNewPredictors
<1> HIDE DEF same, end
<1>2. Same(h, m)
  BY DownSame
<1> HIDE DEF m
<1>3. Same(m, BecomePredictorUp(m, same))
  BY <1>2, UpSame DEF Same
<1> QED
  BY <1>1, <1>2, <1>3, SameTrans

\* noting what is due to become of the predictors,
LEMMA RememberSame ==
  ASSUME NEW h, IsHeap(h), NEW next, \A a \in DOMAIN next : next[a].pred \in BOOLEAN, NEW due
  PROVE  Same(h, Remember(h, next, due))
<1> DEFINE e == [a \in DOMAIN h.sym |->
                  IF a \in DOMAIN next
                  THEN [h.sym[a] EXCEPT !.upd = TRUE, !.next = next[a]] ELSE h.sym[a]]
           k == Remember(h, next, due)
<1>1. k = [h EXCEPT !.sym = e, !.predictions = @ \ due]
  BY DEF Remember
<1> HIDE DEF k
<1>2. Remarks(h.sym, e)
  BY DEF Remarks, IsHeap, NodeFields
<1> HIDE DEF e
<1>3. /\ DOMAIN k = HeapFields /\ k.sym = e /\ k.rule = h.rule /\ k.table = h.table
      /\ k.brk = h.brk /\ k.rbrk = h.rbrk /\ k.free = h.free /\ k.rfree = h.rfree
  BY <1>1 DEF IsHeap, HeapFields
<1> QED
  BY <1>2, <1>3, RemarksSame DEF k

\* computing that,
LEMMA ComputeSame ==
  ASSUME NEW h, IsHeap(h), NEW top, NEW v
  PROVE  Same(h, ComputeNextPredictors(h, top, v))
<1>1. \E next, due :
        /\ \A a \in DOMAIN next : next[a].pred \in BOOLEAN
        /\ ComputeNextPredictors(h, top, v) = Remember(h, next, due)
  BY DEF ComputeNextPredictors
<1> QED
  BY <1>1, RememberSame

\* turning one node's predictor,
LEMMA TurnSame ==
  ASSUME NEW h, IsHeap(h), NEW a, NEW nxt, a \in DOMAIN h.sym => nxt.pred \in BOOLEAN
  PROVE  Same(h, Turn(h, a, nxt))
<1> DEFINE ps == IF nxt.pred THEN nxt.new \cup nxt.stay ELSE {}
           e == [h.sym EXCEPT ![a].pred = nxt.pred, ![a].preds = ps, ![a].next = NoNext]
           k == Turn(h, a, nxt)
<1>1. k = [h EXCEPT !.sym = e]
  BY DEF Turn
<1> HIDE DEF k, ps
<1>2. Remarks(h.sym, e)
  BY DEF Remarks, IsHeap, NodeFields, NoNext
<1> HIDE DEF e
<1>3. /\ DOMAIN k = HeapFields /\ k.sym = e /\ k.rule = h.rule /\ k.table = h.table
      /\ k.brk = h.brk /\ k.rbrk = h.rbrk /\ k.free = h.free /\ k.rfree = h.rfree
  BY <1>1 DEF IsHeap, HeapFields
<1> QED
  BY <1>2, <1>3, RemarksSame DEF k

\* and adopting what was computed.
LEMMA AdoptNextSame ==
  ASSUME NEW h, IsHeap(h), NEW a
  PROVE  Same(h, AdoptNext(h, a))
<1> DEFINE nxt == h.sym[a].next
           end == LeftEnd(h)
           m   == BecomePredictorDown(h, nxt.new, end)
           g1  == Turn(m, a, nxt)
           k   == AdoptNext(h, a)
<1>1. k = IF nxt.pred \/ h.sym[a].owner = Null THEN g1
          ELSE [g1 EXCEPT !.predictions = @ \ {a}]
  BY DEF AdoptNext
<1>2. a \in DOMAIN h.sym => nxt.pred \in BOOLEAN
  BY DEF IsHeap
<1> HIDE DEF nxt, end
<1>3. Same(h, m)
  BY DownSame
<1> HIDE DEF m
<1>4. Same(m, g1)
  <2>1. IsHeap(m) /\ DOMAIN m.sym = DOMAIN h.sym
    BY <1>3 DEF Same, SameLists
  <2> QED
    BY <1>2, <2>1, TurnSame
<1>5. Same(h, g1)
  BY <1>3, <1>4, SameTrans
<1> HIDE DEF g1, k
<1> QED
  BY <1>1, <1>5 DEF k, Same, SameLists, IsHeap, HeapFields

-----------------------------------------------------------------------------
(* What Body returns.  Its recursion follows n to the guard; the solution   *)
(* exists because each node is reached back from a guard (Backward).        *)

\* f solves the recursion on the set W, which n does not leave.
Solves(h, W, f) ==
  /\ W \subseteq Linked(h)
  /\ \A a \in W : a \notin Guards(h) => h.sym[a].n \in W
  /\ f = [a \in W |-> IF a \in Guards(h) THEN <<>> ELSE <<a>> \o f[h.sym[a].n]]

\* Two partial bodies agree where both are defined.
LEMMA SolvesUnique ==
  ASSUME NEW h, Core(h), NEW W, NEW f, Solves(h, W, f), NEW V, NEW e, Solves(h, V, e),
         NEW b \in W \cap V
  PROVE  f[b] = e[b]
<1> DEFINE r == h.sym[b].owner
           T == {a \in Linked(h) : a \in W \cap V => f[a] = e[a]}
<1>1. b \in Linked(h)
  BY DEF Solves
<1>2. r \in DOMAIN h.rule
  BY <1>1, Lists
<1>3. \A a \in W \cap V : a \in Guards(h) => f[a] = e[a]
  BY DEF Solves
<1>4. h.rule[r].guard \in T
  BY <1>2, <1>3, GuardNodes
<1>5. ASSUME NEW a \in T
      PROVE  h.sym[a].p \in T
  <2> DEFINE q == h.sym[a].p
  <2>1. q \in Linked(h) /\ h.sym[q].n = a
    BY Lists
  <2>2. CASE q \in Guards(h)
    BY <2>1, <2>2, <1>3
  <2>3. CASE q \notin Guards(h) /\ q \in W \cap V
    <3>1. a \in W \cap V
      BY <2>1, <2>3 DEF Solves
    <3>2. f[q] = <<q>> \o f[a] /\ e[q] = <<q>> \o e[a]
      BY <2>1, <2>3 DEF Solves
    <3> QED
      BY <3>1, <3>2, <2>1
  <2>4. CASE q \notin W \cap V
    BY <2>1, <2>4
  <2> QED
    BY <2>2, <2>3, <2>4
<1>6. Backward(h) /\ T \subseteq Linked(h)
  BY DEF Core
<1> HIDE DEF T
<1>7. \A a \in Linked(h) : h.sym[a].owner = r => a \in T
  BY <1>2, <1>4, <1>5, <1>6, Backwards
<1> QED
  BY <1>1, <1>7 DEF T

\* Every linked node has a partial body: the closure under p carries it from the
\* guard to the first node.
LEMMA SolvesSomewhere ==
  ASSUME NEW h, Core(h), NEW b \in Linked(h)
  PROVE  \E W, f : Solves(h, W, f) /\ b \in W
<1> DEFINE r == h.sym[b].owner
           T == {a \in Linked(h) : \E W, f : Solves(h, W, f) /\ a \in W}
<1>1. r \in DOMAIN h.rule
  BY Lists
<1>2. ASSUME NEW a \in Guards(h)
      PROVE  a \in T
  <2> DEFINE f == [c \in {a} |-> <<>>]
  <2>1. a \in Linked(h)
    BY GuardNodes
  <2>2. f = [c \in {a} |-> IF c \in Guards(h) THEN <<>> ELSE <<c>> \o f[h.sym[c].n]]
    OBVIOUS
  <2> HIDE DEF f
  <2>3. Solves(h, {a}, f)
    BY <2>1, <2>2 DEF Solves
  <2> QED
    BY <2>1, <2>3
<1>3. h.rule[r].guard \in T
  BY <1>1, <1>2, GuardNodes
<1>4. ASSUME NEW a \in T
      PROVE  h.sym[a].p \in T
  <2> DEFINE q == h.sym[a].p
  <2>1. q \in Linked(h) /\ h.sym[q].n = a
    BY Lists
  <2>2. CASE q \in Guards(h)
    BY <2>2, <1>2
  <2>3. CASE q \notin Guards(h)
    <3>1. PICK W, f : Solves(h, W, f) /\ a \in W
      OBVIOUS
    <3>2. CASE q \in W
      BY <3>1, <3>2, <2>1
    <3>3. CASE q \notin W
      <4> DEFINE V == W \cup {q}
                 e == [c \in V |-> IF c = q THEN <<q>> \o f[a] ELSE f[c]]
      <4>1. V \subseteq Linked(h) /\ \A c \in V : c \notin Guards(h) => h.sym[c].n \in V
        BY <3>1, <2>1 DEF Solves
      <4>2. ASSUME NEW c \in V
            PROVE  e[c] = IF c \in Guards(h) THEN <<>> ELSE <<c>> \o e[h.sym[c].n]
        <5>1. CASE c = q
          <6>1. a # q
            BY <3>1, <3>3
          <6> QED
            BY <5>1, <6>1, <3>1, <2>1, <2>3
        <5>2. CASE c # q
          <6>1. c \in W
            BY <5>2
          <6>2. f[c] = IF c \in Guards(h) THEN <<>> ELSE <<c>> \o f[h.sym[c].n]
            BY <6>1, <3>1 DEF Solves
          <6>3. c \notin Guards(h) => h.sym[c].n \in W /\ h.sym[c].n # q
            BY <6>1, <3>1, <3>3 DEF Solves
          <6> QED
            BY <5>2, <6>2, <6>3
        <5> QED
          BY <5>1, <5>2
      <4>3. e = [c \in V |-> IF c \in Guards(h) THEN <<>> ELSE <<c>> \o e[h.sym[c].n]]
        <5> DEFINE E(c) == IF c \in Guards(h) THEN <<>> ELSE <<c>> \o e[h.sym[c].n]
        <5>1. e = [c \in V |-> e[c]]
          OBVIOUS
        <5>2. \A c \in V : e[c] = E(c)
          BY <4>2
        <5> HIDE DEF e, E
        <5>3. e = [c \in V |-> E(c)]
          BY <5>1, <5>2
        <5> QED
          BY <5>3 DEF E
      <4> HIDE DEF V, e
      <4>4. Solves(h, V, e)
        BY <4>1, <4>3 DEF Solves
      <4>5. q \in V
        BY DEF V
      <4> QED
        BY <4>4, <4>5, <2>1
    <3> QED
      BY <3>2, <3>3
  <2> QED
    BY <2>2, <2>3
<1>5. Backward(h) /\ T \subseteq Linked(h)
  BY DEF Core
<1> HIDE DEF T
<1>6. \A a \in Linked(h) : h.sym[a].owner = r => a \in T
  BY <1>1, <1>3, <1>4, <1>5, Backwards
<1> QED
  BY <1>6 DEF T

\* The recursion of Body has a solution.
LEMMA Solvable ==
  ASSUME NEW h, Core(h)
  PROVE  \E f : f = [a \in Linked(h) |-> IF IsGuard(h, a) THEN <<>> ELSE <<a>> \o f[h.sym[a].n]]
<1> DEFINE Sol(a) == CHOOSE f : \E W : Solves(h, W, f) /\ a \in W
           F == [a \in Linked(h) |-> Sol(a)[a]]
<1>1. ASSUME NEW a \in Linked(h)
      PROVE  \E W : Solves(h, W, Sol(a)) /\ a \in W
  <2>1. \E f : \E W : Solves(h, W, f) /\ a \in W
    BY SolvesSomewhere
  <2> QED
    BY <2>1
<1> HIDE DEF Sol
<1>2. ASSUME NEW a \in Linked(h)
      PROVE  F[a] = IF IsGuard(h, a) THEN <<>> ELSE <<a>> \o F[h.sym[a].n]
  <2>1. PICK W : Solves(h, W, Sol(a)) /\ a \in W
    BY <1>1
  <2>2. IsGuard(h, a) <=> a \in Guards(h)
    BY Lists, GuardNodes
  <2>3. CASE a \in Guards(h)
    BY <2>1, <2>2, <2>3 DEF Solves
  <2>4. CASE a \notin Guards(h)
    <3> DEFINE b == h.sym[a].n
    <3>1. b \in W /\ Sol(a)[a] = <<a>> \o Sol(a)[b]
      BY <2>1, <2>4 DEF Solves
    <3>2. b \in Linked(h)
      BY Lists
    <3>3. PICK V : Solves(h, V, Sol(b)) /\ b \in V
      BY <3>2, <1>1
    <3>4. Sol(a)[b] = Sol(b)[b]
      BY <2>1, <3>1, <3>3, SolvesUnique
    <3> QED
      BY <2>2, <2>4, <3>1, <3>2, <3>4
  <2> QED
    BY <2>3, <2>4
<1>3. F = [a \in Linked(h) |-> IF IsGuard(h, a) THEN <<>> ELSE <<a>> \o F[h.sym[a].n]]
  <2> DEFINE E(c) == IF IsGuard(h, c) THEN <<>> ELSE <<c>> \o F[h.sym[c].n]
  <2>1. F = [c \in Linked(h) |-> F[c]]
    OBVIOUS
  <2>2. \A c \in Linked(h) : F[c] = E(c)
    BY <1>2
  <2> HIDE DEF F, E
  <2>3. F = [c \in Linked(h) |-> E(c)]
    BY <2>1, <2>2
  <2> QED
    BY <2>3 DEF E
<1> HIDE DEF F
<1> QED
  BY <1>3

-----------------------------------------------------------------------------
\* A frame pushed on a stack, and where the others are then.
LEMMA Cons ==
  ASSUME NEW F, NEW f \in F, NEW t \in Seq(F)
  PROVE  /\ <<f>> \o t \in Seq(F)
         /\ Len(<<f>> \o t) = Len(t) + 1
         /\ (<<f>> \o t)[1] = f
         /\ \A i \in 1 .. Len(t) : (<<f>> \o t)[i + 1] = t[i]
         /\ \A i \in 2 .. Len(t) + 1 : (<<f>> \o t)[i] = t[i - 1]
<1>1. <<f>> \in Seq(F) /\ Len(<<f>>) = 1 /\ <<f>>[1] = f
  OBVIOUS
<1>2. Len(t) \in Nat
  BY LenProperties
<1> QED
  BY <1>1, <1>2, ConcatProperties

\* The body from a node is empty at a guard, and else the node and the body from
\* its successor.
LEMMA BodyUnfolds ==
  ASSUME NEW h, Core(h)
  PROVE  \E F : /\ \A a \in Linked(h) :
                     F[a] = IF a \in Guards(h) THEN <<>> ELSE <<a>> \o F[h.sym[a].n]
                /\ \A r : Body(h, r) = F[First(h, r)]
<1> DEFINE F == CHOOSE f : f = [a \in Linked(h) |->
                  IF IsGuard(h, a) THEN <<>> ELSE <<a>> \o f[h.sym[a].n]]
<1>1. F = [a \in Linked(h) |-> IF IsGuard(h, a) THEN <<>> ELSE <<a>> \o F[h.sym[a].n]]
  BY Solvable
<1>2. \A r : Body(h, r) = F[First(h, r)]
  BY DEF Body
<1> HIDE DEF F
<1>3. \A a \in Linked(h) : F[a] = IF a \in Guards(h) THEN <<>> ELSE <<a>> \o F[h.sym[a].n]
  <2> SUFFICES ASSUME NEW a \in Linked(h)
               PROVE  F[a] = IF a \in Guards(h) THEN <<>> ELSE <<a>> \o F[h.sym[a].n]
    OBVIOUS
  <2>1. IsGuard(h, a) <=> a \in Guards(h)
    BY Lists, GuardNodes
  <2>2. F[a] = IF IsGuard(h, a) THEN <<>> ELSE <<a>> \o F[h.sym[a].n]
    BY <1>1
  <2> QED
    BY <2>1, <2>2
<1> QED
  BY <1>2, <1>3

\* The inner nodes of rule r.
InnerOf(h, r) == {a \in Inner(h) : h.sym[a].owner = r}

\* Every rule has nodes but the start rule, which may have lost none yet either.
Long(h) ==
  \A r \in DOMAIN h.rule \ {Start} :
    LET q == h.rule[r].guard IN h.sym[q].n # q /\ h.sym[h.sym[q].n].n # q

\* Rule r has exactly two symbols.
Pair(h, r) ==
  LET q == h.rule[r].guard
      f == h.sym[q].n
      l == h.sym[f].n
  IN  f # q /\ l # q /\ f # l /\ h.sym[l].n = q

\* The nodes of a body.
RangeOf(b) == {b[i] : i \in DOMAIN b}

\* The nodes of a body with one more in front, and of an empty one.
LEMMA RangeCons ==
  ASSUME NEW S, NEW a \in S, NEW t \in Seq(S)
  PROVE  /\ <<a>> \o t \in Seq(S)
         /\ RangeOf(<<a>> \o t) = {a} \cup RangeOf(t)
         /\ RangeOf(t) \subseteq S
<1>1. /\ <<a>> \o t \in Seq(S) /\ Len(<<a>> \o t) = Len(t) + 1
      /\ (<<a>> \o t)[1] = a
      /\ \A i \in 1 .. Len(t) : (<<a>> \o t)[i + 1] = t[i]
      /\ \A i \in 2 .. Len(t) + 1 : (<<a>> \o t)[i] = t[i - 1]
  BY Cons
<1> DEFINE s == <<a>> \o t
<1> HIDE DEF s
<1>2. /\ Len(t) \in Nat /\ DOMAIN t = 1 .. Len(t) /\ DOMAIN s = 1 .. Len(t) + 1
  BY <1>1, LenProperties DEF s
<1>3. \A i \in DOMAIN t : i + 1 \in DOMAIN s /\ s[i + 1] = t[i]
  BY <1>1, <1>2 DEF s
<1>4. \A i \in DOMAIN s : i = 1 \/ (i - 1 \in DOMAIN t /\ s[i] = t[i - 1])
  BY <1>1, <1>2 DEF s
<1>5. 1 \in DOMAIN s /\ s[1] = a
  BY <1>1, <1>2 DEF s
<1>6. RangeOf(s) = {a} \cup RangeOf(t)
  BY <1>3, <1>4, <1>5 DEF RangeOf
<1>7. RangeOf(t) \subseteq S
  BY DEF RangeOf
<1> QED
  BY <1>1, <1>6, <1>7 DEF s

\* The empty sequence has nothing in it.
LEMMA RangeNil ==
  ASSUME NEW S
  PROVE  <<>> \in Seq(S) /\ Len(<<>>) = 0 /\ RangeOf(<<>>) = {}
<1>1. <<>> \in Seq(S) /\ Len(<<>>) = 0
  OBVIOUS
<1>2. DOMAIN <<>> = 1 .. 0
  OBVIOUS
<1> QED
  BY <1>1, <1>2 DEF RangeOf

\* Body(h, r) lists the inner nodes of r.
LEMMA BodyIs ==
  ASSUME NEW h, Core(h), NEW r \in DOMAIN h.rule
  PROVE  /\ Body(h, r) \in Seq(InnerOf(h, r))
         /\ NodesOf(h, r) = InnerOf(h, r)
         /\ Pair(h, r) => Len(Body(h, r)) = 2
         /\ Long(h) /\ r # Start => Len(Body(h, r)) >= 2
<1> DEFINE S == InnerOf(h, r)
           G == h.rule[r].guard
<1>1. PICK F : /\ \A a \in Linked(h) :
                     F[a] = IF a \in Guards(h) THEN <<>> ELSE <<a>> \o F[h.sym[a].n]
               /\ \A q : Body(h, q) = F[First(h, q)]
  BY BodyUnfolds
<1>2. /\ G \in Guards(h) /\ G \in Linked(h) /\ h.sym[G].owner = r
      /\ \A a \in Linked(h) : h.sym[a].owner = r /\ a \in Guards(h) => a = G
      /\ \A a \in Linked(h) : h.sym[a].owner = r /\ a \notin Guards(h) => a \in S
      /\ \A a \in S : a \in Linked(h) /\ a \notin Guards(h) /\ h.sym[a].owner = r
  BY Lists, GuardNodes DEF InnerOf
<1>3. \A a \in Linked(h) : h.sym[a].owner = r =>
        /\ h.sym[a].n \in Linked(h) /\ h.sym[h.sym[a].n].owner = r /\ h.sym[h.sym[a].n].p = a
        /\ h.sym[a].p \in Linked(h) /\ h.sym[h.sym[a].p].owner = r /\ h.sym[h.sym[a].p].n = a
  BY Lists
<1> HIDE DEF S
<1> DEFINE T == {a \in Linked(h) : h.sym[a].owner = r =>
                   /\ F[a] \in Seq(S)
                   /\ a # G => a \in RangeOf(F[a])
                   /\ \A b \in RangeOf(F[a]) :
                        h.sym[b].n \in S => h.sym[b].n \in RangeOf(F[a])}
<1>4. \A a \in Linked(h) : h.sym[a].owner = r => a \in T
  <2>1. F[G] = <<>> /\ F[G] \in Seq(S) /\ RangeOf(F[G]) = {}
    <3>1. F[G] = <<>>
      BY <1>1, <1>2
    <3> QED
      BY <3>1, RangeNil
  <2>2. G \in T
    BY <2>1, <1>2
  <2>3. ASSUME NEW a \in T, h.sym[a].owner = r
        PROVE  h.sym[a].p \in T
    <3> DEFINE q == h.sym[a].p
    <3>1. q \in Linked(h) /\ h.sym[q].owner = r /\ h.sym[q].n = a
      BY <2>3, <1>3
    <3>2. CASE q \in Guards(h)
      BY <3>1, <3>2, <1>2, <2>2
    <3>3. CASE q \notin Guards(h)
      <4>1. q \in S
        BY <3>1, <3>3, <1>2
      <4>2. F[q] = <<q>> \o F[a]
        BY <3>1, <3>3, <1>1
      <4>3. /\ F[a] \in Seq(S)
            /\ a # G => a \in RangeOf(F[a])
            /\ \A b \in RangeOf(F[a]) : h.sym[b].n \in S => h.sym[b].n \in RangeOf(F[a])
        BY <2>3
      <4>4. F[q] \in Seq(S) /\ RangeOf(F[q]) = {q} \cup RangeOf(F[a])
        BY <4>1, <4>2, <4>3, RangeCons
      <4>5. a \in S => a # G
        BY <1>2
      <4> QED
        BY <3>1, <4>3, <4>4, <4>5
    <3> QED
      BY <3>2, <3>3
  <2>4. Backward(h) /\ T \subseteq Linked(h)
    BY DEF Core
  <2> HIDE DEF T
  <2> QED
    BY <2>2, <2>3, <2>4, Backwards
<1> DEFINE x == First(h, r)
<1>5. x = h.sym[G].n /\ x \in Linked(h) /\ h.sym[x].owner = r
  BY <1>2, <1>3 DEF First
<1>6. Body(h, r) = F[x]
  BY <1>1
<1> HIDE DEF x
<1>7. /\ F[x] \in Seq(S)
      /\ x # G => x \in RangeOf(F[x])
      /\ \A b \in RangeOf(F[x]) : h.sym[b].n \in S => h.sym[b].n \in RangeOf(F[x])
  BY <1>4, <1>5
<1>8. RangeOf(F[x]) \subseteq S
  BY <1>7 DEF RangeOf
<1>9. S \subseteq RangeOf(F[x])
  <2> DEFINE W == {G} \cup RangeOf(F[x])
  <2>1. W \subseteq Linked(h)
    BY <1>2, <1>8
  <2>2. ASSUME NEW a \in W, h.sym[a].owner = r
        PROVE  h.sym[a].n \in W
    <3>1. CASE a = G
      BY <3>1, <1>5, <1>7
    <3>2. CASE a # G
      <4>1. a \in RangeOf(F[x]) /\ a \in S
        BY <3>2, <1>8
      <4>2. h.sym[a].n \in S \/ h.sym[a].n = G
        BY <4>1, <1>2, <1>3
      <4> QED
        BY <4>1, <4>2, <1>7
    <3> QED
      BY <3>1, <3>2
  <2>3. Forward(h)
    BY DEF Core
  <2> HIDE DEF W
  <2>4. \A a \in Linked(h) : h.sym[a].owner = r => a \in W
    BY <2>1, <2>2, <2>3, Forwards DEF W
  <2> QED
    BY <2>4, <1>2 DEF W
<1>10. NodesOf(h, r) = S
  BY <1>6, <1>8, <1>9 DEF NodesOf, RangeOf
<1>11. ASSUME x # G, h.sym[x].n # G
       PROVE  /\ F[x] = <<x>> \o (<<h.sym[x].n>> \o F[h.sym[h.sym[x].n].n])
              /\ F[h.sym[h.sym[x].n].n] \in Seq(S)
              /\ x \in S /\ h.sym[x].n \in S
  <2> DEFINE y == h.sym[x].n
             z == h.sym[y].n
  <2>1. y \in Linked(h) /\ h.sym[y].owner = r
    BY <1>3, <1>5
  <2>2. z \in Linked(h) /\ h.sym[z].owner = r
    BY <2>1, <1>3
  <2>3. x \notin Guards(h) /\ y \notin Guards(h) /\ x \in S /\ y \in S
    BY <1>11, <1>2, <1>5, <2>1
  <2>4. F[x] = <<x>> \o F[y] /\ F[y] = <<y>> \o F[z]
    BY <2>1, <2>3, <1>1, <1>5
  <2>5. F[z] \in Seq(S)
    BY <2>2, <1>4
  <2> QED
    BY <2>3, <2>4, <2>5
<1>12. ASSUME NEW a \in S, NEW b \in S, NEW t \in Seq(S)
       PROVE  Len(<<a>> \o (<<b>> \o t)) = Len(t) + 2 /\ Len(t) \in Nat
  <2>1. <<b>> \o t \in Seq(S) /\ Len(<<b>> \o t) = Len(t) + 1
    BY Cons
  <2>2. Len(<<a>> \o (<<b>> \o t)) = Len(<<b>> \o t) + 1
    BY <2>1, Cons
  <2>3. Len(t) \in Nat
    BY LenProperties
  <2> QED
    BY <2>1, <2>2, <2>3
<1>13. ASSUME Pair(h, r)
       PROVE  Len(F[x]) = 2
  <2>1. x # G /\ h.sym[x].n # G /\ h.sym[h.sym[x].n].n = G
    BY <1>13, <1>5 DEF Pair
  <2>2. F[x] = <<x>> \o (<<h.sym[x].n>> \o F[G]) /\ x \in S /\ h.sym[x].n \in S
    BY <2>1, <1>11
  <2>3. F[G] = <<>> /\ F[G] \in Seq(S) /\ Len(F[G]) = 0
    <3>1. F[G] = <<>>
      BY <1>1, <1>2
    <3> QED
      BY <3>1, RangeNil
  <2> HIDE DEF x, G
  <2>4. Len(<<x>> \o (<<h.sym[x].n>> \o F[G])) = Len(F[G]) + 2
    BY <2>2, <2>3, <1>12
  <2> QED
    BY <2>2, <2>3, <2>4
<1>14. ASSUME Long(h), r # Start
       PROVE  Len(F[x]) >= 2
  <2>1. x # G /\ h.sym[x].n # G
    BY <1>14, <1>5 DEF Long
  <2> DEFINE t == F[h.sym[h.sym[x].n].n]
  <2>2. F[x] = <<x>> \o (<<h.sym[x].n>> \o t) /\ x \in S /\ h.sym[x].n \in S /\ t \in Seq(S)
    BY <2>1, <1>11
  <2> HIDE DEF t, x, G
  <2>3. Len(<<x>> \o (<<h.sym[x].n>> \o t)) = Len(t) + 2 /\ Len(t) \in Nat
    BY <2>2, <1>12
  <2> QED
    BY <2>2, <2>3
<1> QED
  BY <1>6, <1>7, <1>10, <1>13, <1>14 DEF S

\* The nodes of the rules are the inner nodes.
LEMMA NodesIs ==
  ASSUME NEW h, Core(h)
  PROVE  Nodes(h) = Inner(h)
<1>1. \A r \in DOMAIN h.rule : NodesOf(h, r) = InnerOf(h, r)
  BY BodyIs
<1>2. \A a \in Inner(h) : h.sym[a].owner \in DOMAIN h.rule
  BY Lists
<1> QED
  BY <1>1, <1>2 DEF Nodes, InnerOf

-----------------------------------------------------------------------------
(* The effect of Replace.                                                   *)

\* k is h with the digram at a replaced by one node B of value r.
Replaced(h, a, r, B, k) ==
  LET Y == h.sym[a].n
      D == DOMAIN h.sym \ {a, Y}
  IN  /\ B \notin DOMAIN h.sym
      /\ DOMAIN k.sym = D \cup {B}
      /\ \A c \in D :
           /\ k.sym[c].n = IF c = h.sym[a].p THEN B ELSE h.sym[c].n
           /\ k.sym[c].p = IF c = h.sym[Y].n THEN B ELSE h.sym[c].p
           /\ k.sym[c].s = h.sym[c].s /\ k.sym[c].owner = h.sym[c].owner
      /\ k.sym[B].n = h.sym[Y].n /\ k.sym[B].p = h.sym[a].p
      /\ k.sym[B].s = r /\ k.sym[B].owner = h.sym[a].owner
      /\ DOMAIN k.rule = DOMAIN h.rule
      /\ \A x \in DOMAIN h.rule : k.rule[x].guard = h.rule[x].guard
      /\ Guards(k) = Guards(h)
      /\ Linked(k) = (Linked(h) \ {a, Y}) \cup {B}
      /\ Inner(k) = (Inner(h) \ {a, Y}) \cup {B}
      /\ NoEntry(k, h.sym[a].p) /\ NoEntry(k, B)

\* The digram at a replaced by a new node that holds the rule r.
LEMMA ReplaceIs ==
  ASSUME NEW h, Core(h), NEW rk, Ranking(h, rk),
         NEW a \in Inner(h), h.sym[a].n \in Inner(h),
         NEW r \in DOMAIN h.rule, r # Start, rk[r] < rk[h.sym[a].owner]
  PROVE  LET k == Replace(h, a, r)
         IN  /\ Core(k) /\ Ranking(k, rk)
             /\ Replaced(h, a, r, SymbolAddress(h), k)
<1> DEFINE q  == h.sym[a].p
           Y  == h.sym[a].n
           z  == h.sym[Y].n
           o  == h.sym[a].owner
           X2 == First(h, r)
           Y2 == h.sym[X2].n
           B  == SymbolAddress(h)
           g1 == NewSymbol(h, r, o)
           g2 == InheritPredictor(g1, a, B, X2)
           g3 == InheritPredictor(g2, Y, B, Y2)
           g4 == Destroy(g3, a)
           g5 == Destroy(g4, Y)
           k  == InsertAfter(g5, q, B)
<1>1. Replace(h, a, r) = k
  BY DEF Replace
<1> HIDE DEF k
<1>2. /\ a \in DOMAIN h.sym /\ Y \in DOMAIN h.sym /\ q \in DOMAIN h.sym /\ z \in DOMAIN h.sym
      /\ q \in Linked(h) /\ z \in Linked(h) /\ Y \in Inner(h)
      /\ h.sym[q].n = a /\ h.sym[Y].p = a /\ h.sym[z].p = Y
      /\ a # Y /\ q # a /\ z # Y /\ q # Y /\ z # a
      /\ h.sym[q].owner = o /\ o \in DOMAIN h.rule
      /\ h.sym[z].owner = o /\ h.sym[Y].owner = o
      /\ \A c \in DOMAIN h.sym : c \in Linked(h) <=> h.sym[c].n # Null
      /\ IsHeap(h) /\ Allocated(h)
  <2>1. /\ q \in Linked(h) /\ Y \in Linked(h) /\ a \in Linked(h) /\ h.sym[q].n = a /\ h.sym[Y].p = a
        /\ z \in Linked(h) /\ h.sym[z].p = Y
    BY Lists
  <2>2. a # Y /\ q # a /\ z # Y
    BY Neighbours
  <2>3. q = Y => Y \in Guards(h)
    BY Neighbours
  <2>4. z = a => h.sym[Y].n = h.sym[Y].p
    BY <2>1
  <2>5. z = a => a \in Guards(h)
    BY <2>4, Neighbours
  <2>6. q # Y /\ z # a
    BY <2>3, <2>5 DEF Inner
  <2>7. \A c \in DOMAIN h.sym : c \in Linked(h) <=> h.sym[c].n # Null
    BY Lists
  <2>8. /\ a \in DOMAIN h.sym /\ Y \in DOMAIN h.sym /\ q \in DOMAIN h.sym /\ z \in DOMAIN h.sym
        /\ h.sym[q].owner = o /\ o \in DOMAIN h.rule
        /\ h.sym[z].owner = o /\ h.sym[Y].owner = o
    <3>1. /\ a \in DOMAIN h.sym /\ Y \in DOMAIN h.sym /\ q \in DOMAIN h.sym
          /\ h.sym[q].owner = o /\ h.sym[Y].owner = o
      <4>1. a \in DOMAIN h.sym /\ h.sym[a].owner = o
        BY <2>1, Lists
      <4>2. q \in DOMAIN h.sym /\ h.sym[q].owner = h.sym[a].owner
        BY <2>1, NextNode, PrevNode
      <4>3. Y \in DOMAIN h.sym /\ h.sym[a].owner = h.sym[Y].owner
        BY <2>1, PrevNode
      <4> QED
        BY <4>1, <4>2, <4>3
    <3>2. z \in DOMAIN h.sym /\ h.sym[z].owner = h.sym[Y].owner
      BY <2>1, NextNode
    <3>3. o \in DOMAIN h.rule
      BY <2>1, Lists
    <3> QED
      BY <3>1, <3>2, <3>3
  <2>9. IsHeap(h) /\ Allocated(h)
    BY DEF Core
  <2> QED
    BY <2>1, <2>2, <2>6, <2>7, <2>8, <2>9
<1>b. /\ h.sym[a].p = q /\ h.sym[a].n = Y /\ h.sym[Y].n = z /\ h.sym[a].owner = o
      /\ rk[r] < rk[o]
  OBVIOUS
<1> HIDE DEF q, Y, z, o
<1>3. IsHeap(g1) /\ Allocated(g1) /\ Added(h, B, r, o, g1)
  BY <1>2, NewSymbolIs
<1> HIDE DEF g1, B
<1>4. /\ Core(g1) /\ Ranking(g1, rk)
      /\ Guards(g1) = Guards(h) /\ Linked(g1) = Linked(h) /\ Inner(g1) = Inner(h)
  BY <1>3, AddedCore
<1>5. /\ B \notin DOMAIN h.sym /\ B # Null
      /\ DOMAIN g1.sym = DOMAIN h.sym \cup {B}
      /\ \A c \in DOMAIN h.sym : g1.sym[c] = h.sym[c]
      /\ g1.sym[B].n = Null /\ g1.sym[B].p = Null /\ g1.sym[B].s = r /\ g1.sym[B].owner = o
      /\ DOMAIN g1.rule = DOMAIN h.rule
      /\ \A x \in DOMAIN h.rule : g1.rule[x].guard = h.rule[x].guard
  BY <1>3 DEF Added
<1>6. Same(g1, g2)
  BY <1>3, InheritSame
<1> HIDE DEF g2
<1>7. Same(g2, g3)
  <2>1. IsHeap(g2)
    BY <1>6 DEF Same
  <2> QED
    BY <2>1, InheritSame
<1> HIDE DEF g3
<1>8. Same(g1, g3)
  BY <1>6, <1>7, SameTrans
<1>9. /\ Core(g3) /\ Ranking(g3, rk)
      /\ Guards(g3) = Guards(h) /\ Linked(g3) = Linked(h) /\ Inner(g3) = Inner(h)
  BY <1>4, <1>8, SameCore
<1>10. /\ DOMAIN g3.sym = DOMAIN h.sym \cup {B}
       /\ \A c \in DOMAIN h.sym :
            /\ g3.sym[c].n = h.sym[c].n /\ g3.sym[c].p = h.sym[c].p
            /\ g3.sym[c].s = h.sym[c].s /\ g3.sym[c].owner = h.sym[c].owner
       /\ g3.sym[B].n = Null /\ g3.sym[B].p = Null /\ g3.sym[B].s = r /\ g3.sym[B].owner = o
       /\ DOMAIN g3.rule = DOMAIN h.rule
       /\ \A x \in DOMAIN h.rule : g3.rule[x].guard = h.rule[x].guard
  BY <1>5, <1>8 DEF Same, SameLists
<1>11. IsHeap(g4) /\ Without1(g3, a, g4) /\ Entries1(g3, a, g4)
  BY <1>9, DestroyLists
<1> HIDE DEF g4
<1>12. /\ Core(g4) /\ Ranking(g4, rk)
       /\ Guards(g4) = Guards(h) /\ Linked(g4) = Linked(h) \ {a}
       /\ Inner(g4) = Inner(h) \ {a}
  BY <1>9, <1>11, RemoveCore
<1>13. /\ DOMAIN g4.sym = (DOMAIN h.sym \ {a}) \cup {B}
       /\ \A c \in DOMAIN h.sym \ {a} :
            /\ g4.sym[c].n = IF c = q THEN Y ELSE h.sym[c].n
            /\ g4.sym[c].p = IF c = Y THEN q ELSE h.sym[c].p
            /\ g4.sym[c].s = h.sym[c].s /\ g4.sym[c].owner = h.sym[c].owner
       /\ g4.sym[B].n = Null /\ g4.sym[B].s = r /\ g4.sym[B].owner = o
       /\ DOMAIN g4.rule = DOMAIN h.rule
       /\ \A x \in DOMAIN h.rule : g4.rule[x].guard = h.rule[x].guard
  <2>1. /\ a \in DOMAIN h.sym /\ B \notin DOMAIN h.sym /\ q # a /\ q \in DOMAIN h.sym
        /\ Y \in DOMAIN h.sym
        /\ g3.sym[a].n = Y /\ g3.sym[a].p = q
    BY <1>2, <1>b, <1>5, <1>10
  <2>2. /\ DOMAIN g4.sym = DOMAIN g3.sym \ {a}
        /\ \A c \in DOMAIN g4.sym :
             /\ g4.sym[c].n = IF c = q THEN Y ELSE g3.sym[c].n
             /\ g4.sym[c].p = IF c = Y THEN q ELSE g3.sym[c].p
             /\ g4.sym[c].s = g3.sym[c].s /\ g4.sym[c].owner = g3.sym[c].owner
        /\ DOMAIN g4.rule = DOMAIN g3.rule
        /\ \A x \in DOMAIN g3.rule : g4.rule[x].guard = g3.rule[x].guard
    BY <2>1, <1>11 DEF Without1
  <2>3. DOMAIN g4.sym = (DOMAIN h.sym \ {a}) \cup {B}
    BY <2>1, <2>2, <1>10
  <2>4. B # q /\ B # Y
    BY <2>1
  <2> QED
    BY <2>1, <2>2, <2>3, <2>4, <1>10
<1>14. Y \in Inner(g4)
  BY <1>2, <1>12
<1>15. IsHeap(g5) /\ Without1(g4, Y, g5) /\ Entries1(g4, Y, g5)
  BY <1>12, <1>14, DestroyLists
<1> HIDE DEF g5
<1>16. /\ Core(g5) /\ Ranking(g5, rk)
       /\ Guards(g5) = Guards(h) /\ Linked(g5) = Linked(h) \ {a, Y}
       /\ Inner(g5) = Inner(h) \ {a, Y}
  BY <1>12, <1>14, <1>15, RemoveCore
<1>17. /\ DOMAIN g5.sym = (DOMAIN h.sym \ {a, Y}) \cup {B}
       /\ \A c \in DOMAIN h.sym \ {a, Y} :
            /\ g5.sym[c].n = IF c = q THEN z ELSE h.sym[c].n
            /\ g5.sym[c].p = IF c = z THEN q ELSE h.sym[c].p
            /\ g5.sym[c].s = h.sym[c].s /\ g5.sym[c].owner = h.sym[c].owner
       /\ g5.sym[B].s = r /\ g5.sym[B].owner = o
       /\ DOMAIN g5.rule = DOMAIN h.rule
       /\ \A x \in DOMAIN h.rule : g5.rule[x].guard = h.rule[x].guard
  <2>1. /\ a \in DOMAIN h.sym /\ B \notin DOMAIN h.sym /\ q # a /\ q # Y /\ q \in DOMAIN h.sym
        /\ Y \in DOMAIN h.sym /\ Y # a /\ z # Y /\ z # a /\ z \in DOMAIN h.sym
        /\ g4.sym[Y].n = z /\ g4.sym[Y].p = q
    BY <1>2, <1>b, <1>5, <1>13
  <2>2. /\ DOMAIN g5.sym = DOMAIN g4.sym \ {Y}
        /\ \A c \in DOMAIN g5.sym :
             /\ g5.sym[c].n = IF c = q THEN z ELSE g4.sym[c].n
             /\ g5.sym[c].p = IF c = z THEN q ELSE g4.sym[c].p
             /\ g5.sym[c].s = g4.sym[c].s /\ g5.sym[c].owner = g4.sym[c].owner
        /\ DOMAIN g5.rule = DOMAIN g4.rule
        /\ \A x \in DOMAIN g4.rule : g5.rule[x].guard = g4.rule[x].guard
    BY <2>1, <1>15 DEF Without1
  <2>3. B # q /\ B # Y /\ B # a
    BY <2>1
  <2>4. DOMAIN g5.sym = (DOMAIN h.sym \ {a, Y}) \cup {B}
    BY <2>1, <2>2, <2>3, <1>13
  <2> QED
    BY <2>1, <2>2, <2>3, <2>4, <1>13
<1>18. Insertable(g5, q, B, rk)
  <2>1. q \in Linked(h) /\ q \in DOMAIN h.sym /\ q # a /\ q # Y /\ h.sym[q].owner = o
    BY <1>2
  <2>2. q \in Linked(g5) /\ g5.sym[q].owner = o
    BY <2>1, <1>16, <1>17
  <2>3. B \in DOMAIN g5.sym /\ B \notin Linked(g5)
    <3>1. B \notin Linked(h)
      BY <1>5 DEF Linked
    <3> QED
      BY <3>1, <1>16, <1>17
  <2> QED
    BY <2>2, <2>3, <1>17, <1>b DEF Insertable
<1>19. IsHeap(k) /\ With1(g5, q, B, k) /\ Entries2(g5, q, k)
  BY <1>16, <1>18, InsertLists DEF k
<1>20. /\ Core(k) /\ Ranking(k, rk)
       /\ Guards(k) = Guards(h) /\ Linked(k) = (Linked(h) \ {a, Y}) \cup {B}
       /\ Inner(k) = (Inner(h) \ {a, Y}) \cup {B}
       /\ NoEntry(k, q) /\ NoEntry(k, B)
  BY <1>16, <1>18, <1>19, InsertCore
<1>21. /\ DOMAIN k.sym = (DOMAIN h.sym \ {a, Y}) \cup {B}
       /\ \A c \in DOMAIN h.sym \ {a, Y} :
            /\ k.sym[c].n = IF c = q THEN B ELSE h.sym[c].n
            /\ k.sym[c].p = IF c = z THEN B ELSE h.sym[c].p
            /\ k.sym[c].s = h.sym[c].s /\ k.sym[c].owner = h.sym[c].owner
       /\ k.sym[B].n = z /\ k.sym[B].p = q
       /\ k.sym[B].s = r /\ k.sym[B].owner = o
       /\ DOMAIN k.rule = DOMAIN h.rule
       /\ \A x \in DOMAIN h.rule : k.rule[x].guard = h.rule[x].guard
  <2>1. /\ B \notin DOMAIN h.sym /\ q # a /\ q # Y /\ q \in DOMAIN h.sym
        /\ z # Y /\ z # a /\ z \in DOMAIN h.sym
        /\ g5.sym[q].n = z
    BY <1>2, <1>5, <1>17
  <2>2. /\ DOMAIN k.sym = DOMAIN g5.sym
        /\ \A c \in DOMAIN g5.sym :
             /\ k.sym[c].n = IF c = q THEN B ELSE IF c = B THEN z ELSE g5.sym[c].n
             /\ k.sym[c].p = IF c = B THEN q ELSE IF c = z THEN B ELSE g5.sym[c].p
             /\ k.sym[c].s = g5.sym[c].s /\ k.sym[c].owner = g5.sym[c].owner
        /\ k.rule = g5.rule
    BY <2>1, <1>19 DEF With1
  <2>3. B # q /\ B # z
    BY <2>1
  <2> QED
    BY <2>1, <2>2, <2>3, <1>17
<1>22. Replaced(h, a, r, B, k)
  BY <1>5, <1>b, <1>20, <1>21 DEF Replaced
<1> QED
  BY <1>1, <1>20, <1>22 DEF B

-----------------------------------------------------------------------------
(* Ranks may be chosen anew before a rule is used in one more place.        *)

\* The start rule ranks above any rule.
LEMMA RaiseStart ==
  ASSUME NEW h, Core(h), Start \in DOMAIN h.rule, NEW rk, Ranking(h, rk), NEW r \in DOMAIN h.rule,
         r # Start
  PROVE  \E k : Ranking(h, k) /\ k[r] < k[Start]
<1> DEFINE k == [x \in DOMAIN h.rule |-> IF x = Start THEN rk[Start] + rk[r] + 1 ELSE rk[x]]
<1>1. rk \in [DOMAIN h.rule -> Nat]
  BY DEF Ranking
<1>2. k \in [DOMAIN h.rule -> Nat]
  BY <1>1
<1>3. ASSUME NEW a \in Inner(h), h.sym[a].s \in DOMAIN h.rule
      PROVE  k[h.sym[a].s] < k[h.sym[a].owner]
  <2>1. h.sym[a].s # Start /\ h.sym[a].owner \in DOMAIN h.rule
    BY Lists
  <2>2. rk[h.sym[a].s] < rk[h.sym[a].owner]
    BY <1>3 DEF Ranking
  <2>3. rk[h.sym[a].s] \in Nat /\ rk[h.sym[a].owner] \in Nat /\ rk[r] \in Nat
    BY <1>1, <1>3, <2>1
  <2>4. k[h.sym[a].s] = rk[h.sym[a].s]
    BY <1>3, <2>1
  <2>5. k[h.sym[a].owner] >= rk[h.sym[a].owner]
    BY <2>1, <2>3
  <2>6. k[h.sym[a].owner] \in Nat
    BY <1>2, <2>1
  <2> HIDE DEF k
  <2> QED
    BY <2>2, <2>3, <2>4, <2>5, <2>6
<1>4. k[r] < k[Start]
  <2>1. rk[r] \in Nat /\ rk[Start] \in Nat
    BY <1>1
  <2> QED
    BY <2>1
<1>5. Ranking(h, k)
  BY <1>2, <1>3 DEF Ranking
<1> QED
  BY <1>4, <1>5

\* A rule that nothing uses ranks just under any rule its symbols rank under.
LEMMA LowerUnused ==
  ASSUME NEW h, Core(h), NEW rk, Ranking(h, rk),
         NEW r \in DOMAIN h.rule, NEW o \in DOMAIN h.rule, r # o,
         \A a \in Inner(h) : h.sym[a].s # r,
         \A a \in Inner(h) : h.sym[a].owner = r /\ h.sym[a].s \in DOMAIN h.rule =>
            rk[h.sym[a].s] < rk[o]
  PROVE  \E k : Ranking(h, k) /\ k[r] < k[o]
<1> DEFINE k == [x \in DOMAIN h.rule |-> IF x = r THEN 2 * rk[o] ELSE 2 * rk[x] + 1]
<1>1. rk \in [DOMAIN h.rule -> Nat]
  BY DEF Ranking
<1>2. k \in [DOMAIN h.rule -> Nat]
  BY <1>1
<1>3. ASSUME NEW a \in Inner(h), h.sym[a].s \in DOMAIN h.rule
      PROVE  k[h.sym[a].s] < k[h.sym[a].owner]
  <2>1. h.sym[a].s # r /\ h.sym[a].owner \in DOMAIN h.rule
    BY Lists
  <2>2. rk[h.sym[a].s] < rk[h.sym[a].owner]
    BY <1>3 DEF Ranking
  <2>3. rk[h.sym[a].s] \in Nat /\ rk[h.sym[a].owner] \in Nat /\ rk[o] \in Nat
    BY <1>1, <1>3, <2>1
  <2>4. k[h.sym[a].s] = 2 * rk[h.sym[a].s] + 1
    BY <1>3, <2>1
  <2>5. CASE h.sym[a].owner = r
    <3>1. rk[h.sym[a].s] < rk[o]
      BY <1>3, <2>5
    <3>2. k[h.sym[a].owner] = 2 * rk[o]
      BY <2>1, <2>5
    <3> HIDE DEF k
    <3> QED
      BY <3>1, <3>2, <2>3, <2>4
  <2>6. CASE h.sym[a].owner # r
    <3>1. k[h.sym[a].owner] = 2 * rk[h.sym[a].owner] + 1
      BY <2>1, <2>6
    <3> HIDE DEF k
    <3> QED
      BY <3>1, <2>2, <2>3, <2>4
  <2> QED
    BY <2>5, <2>6
<1>4. k[r] < k[o]
  <2>1. rk[o] \in Nat
    BY <1>1
  <2> QED
    BY <2>1
<1>5. Ranking(h, k)
  BY <1>2, <1>3 DEF Ranking
<1> QED
  BY <1>4, <1>5

-----------------------------------------------------------------------------
(* A value is appended to a rule.                                           *)

\* k is h with a new node c of value v at the end of rule r.
Appended(h, r, v, c, k) ==
  LET G == h.rule[r].guard
      z == h.sym[G].p
  IN  /\ c \notin DOMAIN h.sym
      /\ DOMAIN k.sym = DOMAIN h.sym \cup {c}
      /\ \A x \in DOMAIN h.sym :
           /\ k.sym[x].n = IF x = z THEN c ELSE h.sym[x].n
           /\ k.sym[x].p = IF x = G THEN c ELSE h.sym[x].p
           /\ k.sym[x].s = h.sym[x].s /\ k.sym[x].owner = h.sym[x].owner
      /\ k.sym[c].n = G /\ k.sym[c].p = z /\ k.sym[c].s = v /\ k.sym[c].owner = r
      /\ DOMAIN k.rule = DOMAIN h.rule
      /\ \A x \in DOMAIN h.rule : k.rule[x].guard = h.rule[x].guard
      /\ Guards(k) = Guards(h)
      /\ Linked(k) = Linked(h) \cup {c} /\ Inner(k) = Inner(h) \cup {c}
      /\ NoEntry(k, z) /\ NoEntry(k, c)

\* A value appended to a rule.
LEMMA AppendIs ==
  ASSUME NEW h, Core(h), NEW rk, Ranking(h, rk), NEW r \in DOMAIN h.rule,
         NEW v \in Terminal \cup DOMAIN h.rule, v # Start,
         v \in DOMAIN h.rule => rk[v] < rk[r]
  PROVE  LET c == SymbolAddress(h)
             k == InsertAfter(NewSymbol(h, v, r), Last(h, r), c)
         IN  Core(k) /\ Ranking(k, rk) /\ Appended(h, r, v, c, k)
<1> DEFINE G  == h.rule[r].guard
           z  == h.sym[G].p
           c  == SymbolAddress(h)
           g1 == NewSymbol(h, v, r)
           k  == InsertAfter(g1, z, c)
<1>1. Last(h, r) = z
  BY DEF Last
<1>2. /\ G \in DOMAIN h.sym /\ z \in Linked(h) /\ z \in DOMAIN h.sym
      /\ h.sym[z].n = G /\ h.sym[z].owner = r
      /\ IsHeap(h) /\ Allocated(h)
  <2>1. G \in Linked(h) /\ h.sym[G].owner = r /\ G \in DOMAIN h.sym
    BY GuardNodes
  <2>2. z \in Linked(h) /\ z \in DOMAIN h.sym /\ h.sym[z].n = G /\ h.sym[z].owner = r
    BY <2>1, Lists
  <2>3. IsHeap(h) /\ Allocated(h)
    BY DEF Core
  <2> QED
    BY <2>1, <2>2, <2>3
<1>3. h.rule[r].guard = G /\ h.sym[G].p = z
  OBVIOUS
<1> HIDE DEF G, z
<1>4. IsHeap(g1) /\ Allocated(g1) /\ Added(h, c, v, r, g1)
  BY <1>2, NewSymbolIs
<1> HIDE DEF g1, c, k
<1>5. /\ Core(g1) /\ Ranking(g1, rk)
      /\ Guards(g1) = Guards(h) /\ Linked(g1) = Linked(h) /\ Inner(g1) = Inner(h)
  BY <1>4, AddedCore
<1>6. /\ c \notin DOMAIN h.sym /\ c # Null
      /\ DOMAIN g1.sym = DOMAIN h.sym \cup {c}
      /\ \A x \in DOMAIN h.sym : g1.sym[x] = h.sym[x]
      /\ g1.sym[c].n = Null /\ g1.sym[c].s = v /\ g1.sym[c].owner = r
      /\ DOMAIN g1.rule = DOMAIN h.rule
      /\ \A x \in DOMAIN h.rule : g1.rule[x].guard = h.rule[x].guard
  BY <1>4 DEF Added
<1>7. Insertable(g1, z, c, rk)
  <2>1. c \notin Linked(h)
    BY <1>6 DEF Linked
  <2> QED
    BY <2>1, <1>2, <1>5, <1>6 DEF Insertable
<1>8. IsHeap(k) /\ With1(g1, z, c, k) /\ Entries2(g1, z, k)
  BY <1>5, <1>7, InsertLists DEF k
<1>9. /\ Core(k) /\ Ranking(k, rk)
      /\ Guards(k) = Guards(h) /\ Linked(k) = Linked(h) \cup {c}
      /\ Inner(k) = Inner(h) \cup {c}
      /\ NoEntry(k, z) /\ NoEntry(k, c)
  BY <1>5, <1>7, <1>8, InsertCore
<1>10. g1.sym[z].n = G /\ c # z /\ c # G
  BY <1>2, <1>6
<1>11. /\ DOMAIN k.sym = DOMAIN g1.sym
       /\ \A x \in DOMAIN g1.sym :
            /\ k.sym[x].n = IF x = z THEN c ELSE IF x = c THEN G ELSE g1.sym[x].n
            /\ k.sym[x].p = IF x = c THEN z ELSE IF x = G THEN c ELSE g1.sym[x].p
            /\ k.sym[x].s = g1.sym[x].s /\ k.sym[x].owner = g1.sym[x].owner
       /\ k.rule = g1.rule
  BY <1>8, <1>10 DEF With1
<1>12. /\ DOMAIN k.sym = DOMAIN h.sym \cup {c}
       /\ \A x \in DOMAIN h.sym :
            /\ k.sym[x].n = IF x = z THEN c ELSE h.sym[x].n
            /\ k.sym[x].p = IF x = G THEN c ELSE h.sym[x].p
            /\ k.sym[x].s = h.sym[x].s /\ k.sym[x].owner = h.sym[x].owner
       /\ k.sym[c].n = G /\ k.sym[c].p = z /\ k.sym[c].s = v /\ k.sym[c].owner = r
       /\ DOMAIN k.rule = DOMAIN h.rule
       /\ \A x \in DOMAIN h.rule : k.rule[x].guard = h.rule[x].guard
  BY <1>6, <1>10, <1>11
<1>13. Appended(h, r, v, c, k)
  BY <1>3, <1>6, <1>9, <1>12 DEF Appended
<1> QED
  BY <1>1, <1>9, <1>13 DEF k, g1, c

-----------------------------------------------------------------------------
(* The new rule of match.                                                   *)

\* k is h with a new rule r, a copy of the digram at a, which nothing uses yet.
Coined(h, a, r, k) ==
  /\ r \notin DOMAIN h.rule /\ DOMAIN k.rule = DOMAIN h.rule \cup {r}
  /\ \A x \in DOMAIN h.rule : k.rule[x].guard = h.rule[x].guard
  /\ DOMAIN h.sym \subseteq DOMAIN k.sym
  /\ Inner(h) \subseteq Inner(k) /\ Linked(h) \subseteq Linked(k)
  /\ Guards(h) \subseteq Guards(k)
  /\ \A x \in DOMAIN h.sym :
       /\ k.sym[x].n = h.sym[x].n /\ k.sym[x].p = h.sym[x].p
       /\ k.sym[x].s = h.sym[x].s /\ k.sym[x].owner = h.sym[x].owner
  /\ Pair(k, r)
  /\ k.sym[First(k, r)].s = h.sym[a].s /\ k.sym[Last(k, r)].s = h.sym[h.sym[a].n].s
  /\ \A x \in DOMAIN k.sym \ DOMAIN h.sym : x \in Linked(k)
  /\ \A x \in Inner(k) : k.sym[x].s # r
  /\ \A x \in Guards(k) : x \in Guards(h) \/ x \notin DOMAIN h.sym

\* A new rule made of the two symbols of a digram.
LEMMA RuleOfDigramIs ==
  ASSUME NEW h, Core(h), NEW rk, Ranking(h, rk), NEW a \in Inner(h), h.sym[a].n \in Inner(h)
  PROVE  LET k == RuleOfDigram(h, a)
         IN  Core(k) /\ (\E e : Ranking(k, e)) /\ Coined(h, a, RuleAddress(h), k)
<1> DEFINE r  == RuleAddress(h)
           G  == SymbolAddress(h)
           b  == h.sym[a].n
           u  == h.sym[a].s
           v  == h.sym[b].s
           g1 == NewRule(h)
           g2 == AppendCopy(g1, r, a)
           k  == AppendCopy(g2, r, b)
           top == rk[h.sym[a].owner]
           e  == [q \in DOMAIN g1.rule |-> IF q = r THEN top ELSE rk[q]]
<1>1. RuleOfDigram(h, a) = k
  BY DEF RuleOfDigram
<1> HIDE DEF k
<1>2. /\ IsHeap(h) /\ Allocated(h) /\ rk \in [DOMAIN h.rule -> Nat]
      /\ a \in DOMAIN h.sym /\ b \in DOMAIN h.sym /\ h.sym[a].owner \in DOMAIN h.rule
      /\ u \in Terminal \cup DOMAIN h.rule /\ v \in Terminal \cup DOMAIN h.rule
      /\ u # Start /\ v # Start
      /\ u \in DOMAIN h.rule => rk[u] < rk[h.sym[a].owner]
      /\ v \in DOMAIN h.rule => rk[v] < rk[h.sym[a].owner]
  <2>1. a \in DOMAIN h.sym /\ b \in DOMAIN h.sym /\ h.sym[a].owner \in DOMAIN h.rule
        /\ h.sym[b].owner = h.sym[a].owner
    BY Neighbours
  <2>2. u # Start /\ v # Start
    BY Lists
  <2>3. u \in Terminal \cup DOMAIN h.rule /\ v \in Terminal \cup DOMAIN h.rule
    BY <2>1, Values
  <2> QED
    BY <2>1, <2>2, <2>3 DEF Core, Ranking
<1>3. h.sym[a].n = b /\ h.sym[a].s = u /\ h.sym[b].s = v
  OBVIOUS
<1>4. IsHeap(g1) /\ Allocated(g1) /\ Opened(h, G, r, g1)
  BY <1>2, NewRuleIs
<1>5. top \in Nat
  BY <1>2
<1> HIDE DEF g1, r, G, b, u, v, top
<1>6. /\ Core(g1) /\ Ranking(g1, e)
      /\ Guards(g1) = Guards(h) \cup {G} /\ Linked(g1) = Linked(h) \cup {G}
      /\ Inner(g1) = Inner(h)
  <2>1. DOMAIN g1.rule = DOMAIN h.rule \cup {r} /\ r \notin DOMAIN h.rule
    BY <1>4 DEF Opened
  <2>2. e \in [DOMAIN g1.rule -> Nat] /\ \A q \in DOMAIN h.rule : e[q] = rk[q]
    BY <2>1, <1>2, <1>5
  <2> HIDE DEF e
  <2> QED
    BY <2>2, <1>4, OpenedCore
<1>7. /\ G \notin DOMAIN h.sym /\ r \notin DOMAIN h.rule
      /\ DOMAIN g1.sym = DOMAIN h.sym \cup {G}
      /\ \A x \in DOMAIN h.sym : g1.sym[x] = h.sym[x]
      /\ g1.sym[G].n = G /\ g1.sym[G].p = G /\ g1.sym[G].s = r /\ g1.sym[G].owner = r
      /\ DOMAIN g1.rule = DOMAIN h.rule \cup {r}
      /\ \A x \in DOMAIN h.rule : g1.rule[x] = h.rule[x]
      /\ g1.rule[r].guard = G
  BY <1>4 DEF Opened
<1>8. /\ u \in DOMAIN g1.rule => e[u] < e[r]
      /\ v \in DOMAIN g1.rule => e[v] < e[r]
      /\ r # Start => TRUE
  <2>1. e[r] = rk[h.sym[a].owner]
    BY <1>7 DEF top
  <2>2. ASSUME NEW w \in Terminal \cup DOMAIN h.rule, w \in DOMAIN g1.rule
        PROVE  w \in DOMAIN h.rule /\ e[w] = rk[w]
    <3>1. \A x \in DOMAIN g1.rule : x \notin Terminal
      BY <1>4, RuleValues
    <3>2. w \in DOMAIN h.rule
      BY <2>2, <3>1
    <3> QED
      BY <3>2, <1>7
  <2> QED
    BY <2>1, <2>2, <1>2
<1> HIDE DEF e
<1> DEFINE c == SymbolAddress(g1)
<1>9. /\ g2 = InsertAfter(NewSymbol(g1, u, r), Last(g1, r), c)
      /\ r \in DOMAIN g1.rule /\ u \in Terminal \cup DOMAIN g1.rule
  BY <1>2, <1>3, <1>7 DEF AppendCopy
<1>10. Core(g2) /\ Ranking(g2, e) /\ Appended(g1, r, u, c, g2)
  BY <1>2, <1>6, <1>8, <1>9, AppendIs
<1> HIDE DEF g2, c
<1>11. /\ c \notin DOMAIN g1.sym
       /\ DOMAIN g2.sym = DOMAIN h.sym \cup {G, c}
       /\ \A x \in DOMAIN h.sym :
            /\ g2.sym[x].n = h.sym[x].n /\ g2.sym[x].p = h.sym[x].p
            /\ g2.sym[x].s = h.sym[x].s /\ g2.sym[x].owner = h.sym[x].owner
       /\ g2.sym[G].n = c /\ g2.sym[G].p = c /\ g2.sym[G].s = r
       /\ g2.sym[c].n = G /\ g2.sym[c].p = G /\ g2.sym[c].s = u
       /\ DOMAIN g2.rule = DOMAIN h.rule \cup {r} /\ g2.rule[r].guard = G
       /\ \A x \in DOMAIN h.rule : g2.rule[x].guard = h.rule[x].guard
       /\ Guards(g2) = Guards(h) \cup {G} /\ Linked(g2) = Linked(h) \cup {G, c}
       /\ Inner(g2) = Inner(h) \cup {c}
  <2>1. /\ c \notin DOMAIN g1.sym
        /\ DOMAIN g2.sym = DOMAIN g1.sym \cup {c}
        /\ \A x \in DOMAIN g1.sym :
             /\ g2.sym[x].n = IF x = G THEN c ELSE g1.sym[x].n
             /\ g2.sym[x].p = IF x = G THEN c ELSE g1.sym[x].p
             /\ g2.sym[x].s = g1.sym[x].s /\ g2.sym[x].owner = g1.sym[x].owner
        /\ g2.sym[c].n = G /\ g2.sym[c].p = G /\ g2.sym[c].s = u
        /\ DOMAIN g2.rule = DOMAIN g1.rule
        /\ \A x \in DOMAIN g1.rule : g2.rule[x].guard = g1.rule[x].guard
        /\ Guards(g2) = Guards(g1) /\ Linked(g2) = Linked(g1) \cup {c}
        /\ Inner(g2) = Inner(g1) \cup {c}
    BY <1>7, <1>10 DEF Appended
  <2>2. \A x \in DOMAIN h.sym : x # G
    BY <1>7
  <2> QED
    BY <2>1, <2>2, <1>6, <1>7
<1> DEFINE d == SymbolAddress(g2)
<1>12. /\ k = InsertAfter(NewSymbol(g2, v, r), Last(g2, r), d)
       /\ r \in DOMAIN g2.rule /\ v \in Terminal \cup DOMAIN g2.rule
  BY <1>2, <1>3, <1>11 DEF AppendCopy, k
<1>13. DOMAIN g2.rule = DOMAIN g1.rule
  BY <1>7, <1>11
<1>14. Core(k) /\ Ranking(k, e) /\ Appended(g2, r, v, d, k)
  BY <1>2, <1>8, <1>10, <1>12, <1>13, AppendIs
<1> HIDE DEF d
<1>15. /\ d \notin DOMAIN g2.sym
       /\ DOMAIN k.sym = DOMAIN h.sym \cup {G, c, d}
       /\ \A x \in DOMAIN h.sym :
            /\ k.sym[x].n = h.sym[x].n /\ k.sym[x].p = h.sym[x].p
            /\ k.sym[x].s = h.sym[x].s /\ k.sym[x].owner = h.sym[x].owner
       /\ k.sym[G].n = c /\ k.sym[G].p = d /\ k.sym[G].s = r
       /\ k.sym[c].n = d /\ k.sym[c].s = u
       /\ k.sym[d].n = G /\ k.sym[d].s = v
       /\ DOMAIN k.rule = DOMAIN h.rule \cup {r} /\ k.rule[r].guard = G
       /\ \A x \in DOMAIN h.rule : k.rule[x].guard = h.rule[x].guard
       /\ Guards(k) = Guards(h) \cup {G} /\ Linked(k) = Linked(h) \cup {G, c, d}
       /\ Inner(k) = Inner(h) \cup {c, d}
  <2>1. /\ d \notin DOMAIN g2.sym
        /\ DOMAIN k.sym = DOMAIN g2.sym \cup {d}
        /\ \A x \in DOMAIN g2.sym :
             /\ k.sym[x].n = IF x = c THEN d ELSE g2.sym[x].n
             /\ k.sym[x].p = IF x = G THEN d ELSE g2.sym[x].p
             /\ k.sym[x].s = g2.sym[x].s /\ k.sym[x].owner = g2.sym[x].owner
        /\ k.sym[d].n = G /\ k.sym[d].s = v
        /\ DOMAIN k.rule = DOMAIN g2.rule
        /\ \A x \in DOMAIN g2.rule : k.rule[x].guard = g2.rule[x].guard
        /\ Guards(k) = Guards(g2) /\ Linked(k) = Linked(g2) \cup {d}
        /\ Inner(k) = Inner(g2) \cup {d}
    BY <1>11, <1>14 DEF Appended
  <2>2. \A x \in DOMAIN h.sym : x # G /\ x # c
    BY <1>7, <1>11
  <2>3. c # G
    BY <1>7, <1>11
  <2> QED
    BY <2>1, <2>2, <2>3, <1>11
<1>16. G # c /\ c # d /\ G # d /\ G \notin DOMAIN h.sym /\ c \notin DOMAIN h.sym /\ d \notin DOMAIN h.sym
  BY <1>7, <1>11, <1>15
<1>17. Pair(k, r) /\ k.sym[First(k, r)].s = u /\ k.sym[Last(k, r)].s = v
  BY <1>15, <1>16 DEF Pair, First, Last
<1>18. ASSUME NEW x \in Inner(k)
       PROVE  k.sym[x].s # r
  <2>1. \A y \in DOMAIN h.sym : h.sym[y].s \in Terminal \cup DOMAIN h.rule
    BY Values
  <2>2. r \notin Terminal
    BY <1>4, <1>7, RuleValues
  <2>3. u # r /\ v # r
    BY <2>2, <1>2, <1>7
  <2>4. x \in Inner(h) => x \in DOMAIN h.sym
    BY Lists
  <2> QED
    BY <2>1, <2>2, <2>3, <2>4, <1>7, <1>15
<1>19. /\ DOMAIN h.sym \subseteq DOMAIN k.sym
       /\ Inner(h) \subseteq Inner(k) /\ Linked(h) \subseteq Linked(k) /\ Guards(h) \subseteq Guards(k)
       /\ \A x \in DOMAIN k.sym \ DOMAIN h.sym : x \in Linked(k)
       /\ \A x \in Guards(k) : x \in Guards(h) \/ x \notin DOMAIN h.sym
  BY <1>15, <1>16
<1>20. Coined(h, a, r, k)
  BY <1>3, <1>7, <1>15, <1>17, <1>18, <1>19 DEF Coined
<1> QED
  BY <1>1, <1>14, <1>20 DEF r

-----------------------------------------------------------------------------
(* The effect of Expand.                                                    *)

\* Destroy on any heap, for a node that is not a guard once it is unlinked.
Destroyed(h, a, left, right, k) ==
  /\ DOMAIN k.sym = DOMAIN h.sym \ {a}
  /\ \A b \in DOMAIN k.sym :
       /\ k.sym[b].n = IF b = left THEN right ELSE h.sym[b].n
       /\ k.sym[b].p = IF b = right THEN left ELSE h.sym[b].p
       /\ k.sym[b].owner = IF b = right THEN h.sym[left].owner ELSE h.sym[b].owner
       /\ k.sym[b].s = h.sym[b].s
  /\ DOMAIN k.rule = DOMAIN h.rule
  /\ \A r \in DOMAIN h.rule :
       /\ k.rule[r].guard = h.rule[r].guard
       /\ ~(NT(h.sym[a].s) /\ r = h.sym[a].s) => k.rule[r] = h.rule[r]
  /\ k.brk = h.brk /\ k.rbrk = h.rbrk /\ k.rfree = h.rfree
  /\ k.free = IF Recycle THEN <<a>> \o h.free ELSE h.free

\* Deleting a node whatever the heap around it looks like, as in the middle of an
\* expansion.
LEMMA DestroyIs ==
  ASSUME NEW h, IsHeap(h), NEW a \in DOMAIN h.sym,
         h.sym[a].p \in DOMAIN h.sym, h.sym[a].n \in DOMAIN h.sym,
         ~IsGuard(Join(h, h.sym[a].p, h.sym[a].n), a),
         NT(h.sym[a].s) => h.sym[a].s \in DOMAIN h.rule
  PROVE  LET j == Join(h, h.sym[a].p, h.sym[a].n)
             k == Destroy(h, a)
         IN  /\ IsHeap(k) /\ Destroyed(h, a, h.sym[a].p, h.sym[a].n, k)
             /\ \A d \in DOMAIN k.table : d \in DOMAIN j.table /\ k.table[d] = j.table[d]
<1> DEFINE left  == h.sym[a].p
           right == h.sym[a].n
           j  == Join(h, left, right)
           g0 == DeleteDigram(j, a)
           g2 == Deuse(g0, a)
           x  == g2.sym[a]
           g3 == IF x.pred /\ ~NT(x.s) /\ x.owner # Null
                 THEN [g2 EXCEPT !.predictions = @ \ {a}] ELSE g2
           k  == FreeSymbol(g3, a)
<1>3. k = Destroy(h, a)
  BY DEF Destroy
<1>b. j = Join(h, left, right) /\ h.sym[a].p = left /\ h.sym[a].n = right
      /\ ~IsGuard(j, a)
  OBVIOUS
<1> HIDE DEF k, j, left, right
<1>1. IsHeap(j) /\ Joined(h, left, right, j)
  BY <1>b, JoinIs
<1>2. /\ DOMAIN j.sym = DOMAIN h.sym
      /\ \A b \in DOMAIN h.sym :
           /\ j.sym[b].n = IF b = left THEN right ELSE h.sym[b].n
           /\ j.sym[b].p = IF b = right THEN left ELSE h.sym[b].p
           /\ j.sym[b].owner = IF b = right THEN h.sym[left].owner ELSE h.sym[b].owner
           /\ j.sym[b].s = h.sym[b].s
      /\ j.rule = h.rule
      /\ j.brk = h.brk /\ j.rbrk = h.rbrk /\ j.free = h.free /\ j.rfree = h.rfree
  BY <1>1 DEF Joined
<1>4. /\ IsHeap(g0) /\ g0.sym = j.sym /\ SameLists(j, g0)
      /\ \A d \in DOMAIN g0.table : d \in DOMAIN j.table /\ g0.table[d] = j.table[d]
  BY <1>1, DeleteDigramIs
<1> HIDE DEF g0
<1>5. g0.rule = h.rule /\ g0.sym[a].s = h.sym[a].s
      /\ g0.brk = h.brk /\ g0.rbrk = h.rbrk /\ g0.free = h.free /\ g0.rfree = h.rfree
  <2>1. j.sym[a].s = h.sym[a].s
    BY <1>2
  <2>2. /\ g0.rule = j.rule /\ g0.brk = j.brk /\ g0.rbrk = j.rbrk
        /\ g0.free = j.free /\ g0.rfree = j.rfree
    BY <1>4 DEF SameLists
  <2> QED
    BY <2>1, <2>2, <1>2, <1>4
<1>6. /\ IsHeap(g2) /\ g2.sym = g0.sym /\ g2.table = g0.table
      /\ g2.brk = h.brk /\ g2.rbrk = h.rbrk /\ g2.free = h.free /\ g2.rfree = h.rfree
      /\ DOMAIN g2.rule = DOMAIN h.rule
      /\ \A r \in DOMAIN h.rule :
           /\ g2.rule[r].guard = h.rule[r].guard
           /\ ~(NT(h.sym[a].s) /\ r = h.sym[a].s) => g2.rule[r] = h.rule[r]
  BY <1>4, <1>5, DeuseIs
<1> HIDE DEF g2
<1>7. /\ IsHeap(g3) /\ g3.sym = g2.sym /\ g3.table = g2.table /\ g3.rule = g2.rule
      /\ g3.brk = h.brk /\ g3.rbrk = h.rbrk /\ g3.free = h.free /\ g3.rfree = h.rfree
  BY <1>6 DEF IsHeap, HeapFields
<1> HIDE DEF g3
<1>8. /\ IsHeap(k) /\ k.table = g3.table /\ k.rule = g3.rule
      /\ k.brk = h.brk /\ k.rbrk = h.rbrk /\ k.rfree = h.rfree
      /\ k.free = IF Recycle THEN <<a>> \o h.free ELSE h.free
      /\ DOMAIN k.sym = DOMAIN g3.sym \ {a}
      /\ \A b \in DOMAIN k.sym : k.sym[b] = g3.sym[b]
  BY <1>7, FreeSymbolIs DEF k
<1>9. DOMAIN k.sym = DOMAIN h.sym \ {a} /\ \A b \in DOMAIN k.sym : k.sym[b] = j.sym[b]
  BY <1>2, <1>4, <1>6, <1>7, <1>8
<1>10. \A b \in DOMAIN k.sym :
         /\ k.sym[b].n = IF b = left THEN right ELSE h.sym[b].n
         /\ k.sym[b].p = IF b = right THEN left ELSE h.sym[b].p
         /\ k.sym[b].owner = IF b = right THEN h.sym[left].owner ELSE h.sym[b].owner
         /\ k.sym[b].s = h.sym[b].s
  BY <1>2, <1>9
<1>11. \A d \in DOMAIN k.table : d \in DOMAIN j.table /\ k.table[d] = j.table[d]
  BY <1>4, <1>6, <1>7, <1>8
<1>12. Destroyed(h, a, left, right, k)
  BY <1>6, <1>7, <1>8, <1>9, <1>10 DEF Destroyed
<1> QED
  BY <1>b, <1>3, <1>8, <1>11, <1>12

\* What Expand may be called on: a is the first node of its rule, the only user
\* of rule v, and v has more than one symbol.
Expandable(h, a, v) ==
  /\ a \in Inner(h) /\ h.sym[a].s = v /\ v \in DOMAIN h.rule
  /\ h.rule[v].users = {a}
  /\ h.sym[a].p \in Guards(h) /\ h.sym[a].n \in Inner(h)
  /\ h.sym[h.rule[v].guard].n # h.rule[v].guard
  /\ h.sym[h.sym[h.rule[v].guard].n].n # h.rule[v].guard

\* k is h with the body of v in the place of a; left and right are a's
\* neighbours, f and l the ends of v and G its guard.
Spliced(h, a, v, left, right, f, l, G, k) ==
  /\ DOMAIN k.sym = DOMAIN h.sym \ {G, a}
  /\ \A b \in DOMAIN k.sym :
       /\ k.sym[b].n = IF b = left THEN f ELSE IF b = l THEN right ELSE h.sym[b].n
       /\ k.sym[b].p = IF b = f THEN left ELSE IF b = right THEN l ELSE h.sym[b].p
       /\ k.sym[b].s = h.sym[b].s
       /\ k.sym[b].owner = IF b \in InnerOf(h, v) THEN h.sym[a].owner ELSE h.sym[b].owner
  /\ DOMAIN k.rule = DOMAIN h.rule \ {v}
  /\ \A r \in DOMAIN k.rule : k.rule[r] = h.rule[r]
  /\ k.brk = h.brk /\ k.rbrk = h.rbrk
  /\ k.free = IF Recycle THEN <<a>> \o (<<G>> \o h.free) ELSE h.free
  /\ k.rfree = IF Recycle THEN <<v>> \o h.rfree ELSE h.rfree

\* The table afterwards: what was in it, without a's entry, and up to two more.
Entries3(h, a, right, l, k) ==
  \A d \in DOMAIN k.table :
    \/ d \in DOMAIN h.table /\ k.table[d] = h.table[d] /\ h.table[d] # a
    \/ LET e == h.sym[l].p
       IN  k.table[d] = e /\ e \in Inner(h) /\ d = <<h.sym[e].s, h.sym[l].s>>
    \/ k.table[d] = l /\ d = <<h.sym[l].s, h.sym[right].s>>

\* The nodes that Expand relinks.
Around(h, a, v, o, left, right, G, f, l) ==
  /\ v # o /\ v \in DOMAIN h.rule /\ o \in DOMAIN h.rule /\ NT(v) /\ NT(o) /\ v # Start
  /\ {a, left, right, G, f, l} \subseteq Linked(h)
  /\ {a, left, right, G, f, l} \subseteq DOMAIN h.sym
  /\ a \in Inner(h) /\ right \in Inner(h) /\ f \in Inner(h) /\ l \in Inner(h)
  /\ left = h.rule[o].guard /\ left \in Guards(h) /\ G = h.rule[v].guard /\ G \in Guards(h)
  /\ h.sym[a].s = v /\ h.sym[a].owner = o /\ h.sym[a].n = right /\ h.sym[a].p = left
  /\ h.sym[left].s = o /\ h.sym[left].owner = o /\ h.sym[right].owner = o
  /\ h.sym[left].n = a /\ h.sym[right].p = a
  /\ h.sym[G].s = v /\ h.sym[G].owner = v /\ h.sym[G].n = f /\ h.sym[G].p = l
  /\ h.sym[f].owner = v /\ h.sym[l].owner = v
  /\ h.sym[f].p = G /\ h.sym[l].n = G
  /\ f # l /\ h.sym[f].n # G
  /\ h.sym[l].p \in Inner(h) /\ h.sym[h.sym[l].p].n = l /\ h.sym[h.sym[l].p].owner = v
  /\ h.sym[f].s # v /\ h.sym[l].s # v /\ h.sym[right].s # o /\ h.sym[right].s # v
  /\ a # left /\ a # right /\ left # right

\* The nodes around the only use of a rule.
LEMMA ExpandNodes ==
  ASSUME NEW h, Core(h), NEW rk, Ranking(h, rk), NEW a, NEW v, Expandable(h, a, v)
  PROVE  LET G == h.rule[v].guard
         IN  Around(h, a, v, h.sym[a].owner, h.sym[a].p, h.sym[a].n, G, h.sym[G].n, h.sym[G].p)
<1> DEFINE o     == h.sym[a].owner
           left  == h.sym[a].p
           right == h.sym[a].n
           G     == h.rule[v].guard
           f     == h.sym[G].n
           l     == h.sym[G].p
<1>b. /\ h.sym[a].owner = o /\ h.sym[a].p = left /\ h.sym[a].n = right
      /\ h.rule[v].guard = G /\ h.sym[G].n = f /\ h.sym[G].p = l
  OBVIOUS
<1>0. /\ a \in Inner(h) /\ h.sym[a].s = v /\ v \in DOMAIN h.rule
      /\ h.rule[v].users = {a} /\ left \in Guards(h) /\ right \in Inner(h)
      /\ f # G /\ h.sym[f].n # G
  BY DEF Expandable
<1> HIDE DEF o, left, right, G, f, l
<1>1. /\ a \in Linked(h) /\ left \in Linked(h) /\ right \in Linked(h)
      /\ o \in DOMAIN h.rule /\ h.sym[left].n = a /\ h.sym[right].p = a
      /\ h.sym[left].owner = o /\ h.sym[right].owner = o
      /\ a \in DOMAIN h.sym /\ left \in DOMAIN h.sym /\ right \in DOMAIN h.sym
  BY <1>0, <1>b, Lists
<1>2. left = h.rule[o].guard /\ h.sym[left].s = o
  BY <1>0, <1>1, <1>b, GuardNodes
<1>3. v # o
  <2>1. Linking(h) /\ Valued(h) /\ Allocated(h)
    BY DEF Core
  <2> QED
    BY <2>1, <1>0, <1>b, Ranked
<1>4. NT(v) /\ NT(o) /\ v # Start
  BY <1>0, <1>b, <1>1, Values, Lists
<1>5. G \in Guards(h) /\ G \in Linked(h) /\ h.sym[G].s = v /\ h.sym[G].owner = v /\ G \in DOMAIN h.sym
  BY <1>0, <1>b, GuardNodes
<1>6. /\ f \in Linked(h) /\ l \in Linked(h) /\ f \in DOMAIN h.sym /\ l \in DOMAIN h.sym
      /\ h.sym[f].owner = v /\ h.sym[l].owner = v /\ h.sym[f].p = G /\ h.sym[l].n = G
  BY <1>5, <1>b, Lists
<1>7. f # G /\ h.sym[f].n # G /\ f # l /\ l # G
  BY <1>b, <1>0, <1>5, <1>6
<1>8. f \in Inner(h) /\ l \in Inner(h)
  <2>1. \A b \in Guards(h) : h.sym[b].owner = v => b = G
    BY <1>b, <1>0, GuardNodes
  <2> QED
    BY <2>1, <1>6, <1>7, Lists
<1>9. h.sym[l].p \in Inner(h) /\ h.sym[h.sym[l].p].n = l /\ h.sym[h.sym[l].p].owner = v
  <2> DEFINE e == h.sym[l].p
  <2>1. e \in Linked(h) /\ h.sym[e].n = l /\ h.sym[e].owner = v
    BY <1>6, Lists
  <2>2. e # G
    BY <1>b, <2>1, <1>7
  <2>3. \A b \in Guards(h) : h.sym[b].owner = v => b = G
    BY <1>b, <1>0, GuardNodes
  <2> QED
    BY <2>1, <2>2, <2>3, Lists
<1>10. h.sym[f].s # v /\ h.sym[l].s # v /\ h.sym[right].s # o /\ h.sym[right].s # v
  <2>1. Linking(h) /\ Valued(h) /\ Allocated(h)
    BY DEF Core
  <2>2. h.sym[f].s # v /\ h.sym[l].s # v /\ h.sym[right].s # o
    BY <2>1, <1>0, <1>1, <1>6, <1>8, Ranked
  <2>3. right # a
    BY <1>0, <1>b, Neighbours
  <2>4. h.rule[v].users = {b \in DOMAIN h.sym \ Guards(h) : h.sym[b].s = v}
    BY <1>0 DEF Core, Counted
  <2>5. right \notin Guards(h)
    BY <1>0, Lists
  <2> QED
    BY <2>2, <2>3, <2>4, <2>5, <1>0, <1>1
<1>11. a # left /\ a # right /\ left # right
  BY <1>0, <1>1, <1>b, Neighbours, Lists
<1>12. Around(h, a, v, o, left, right, G, f, l)
  BY <1>0, <1>b, <1>1, <1>2, <1>3, <1>4, <1>5, <1>6, <1>7, <1>8, <1>9, <1>10, <1>11 DEF Around
<1> QED
  BY <1>12 DEF o, left, right, G, f, l

\* Giving nodes a new owner changes nothing else.
LEMMA AdoptIs ==
  ASSUME NEW h, IsHeap(h), NEW body, NEW o
  PROVE  LET k == Adopt(h, body, o)
         IN  /\ IsHeap(k) /\ DOMAIN k.sym = DOMAIN h.sym
             /\ \A b \in DOMAIN h.sym :
                  /\ k.sym[b].n = h.sym[b].n /\ k.sym[b].p = h.sym[b].p
                  /\ k.sym[b].s = h.sym[b].s
                  /\ k.sym[b].owner = IF b \in body THEN o ELSE h.sym[b].owner
             /\ k.rule = h.rule /\ k.table = h.table
             /\ k.brk = h.brk /\ k.rbrk = h.rbrk /\ k.free = h.free /\ k.rfree = h.rfree
<1> DEFINE e == [b \in DOMAIN h.sym |->
                   IF b \in body THEN [h.sym[b] EXCEPT !.owner = o] ELSE h.sym[b]]
           k == Adopt(h, body, o)
<1>1. k = [h EXCEPT !.sym = e]
  BY DEF Adopt
<1> HIDE DEF k
<1>2. /\ DOMAIN e = DOMAIN h.sym
      /\ \A b \in DOMAIN h.sym :
           /\ e[b].n = h.sym[b].n /\ e[b].p = h.sym[b].p /\ e[b].s = h.sym[b].s
           /\ e[b].owner = IF b \in body THEN o ELSE h.sym[b].owner
           /\ DOMAIN e[b] = NodeFields
           /\ e[b].pred \in BOOLEAN /\ e[b].upd \in BOOLEAN /\ e[b].next.pred \in BOOLEAN
  BY DEF IsHeap, NodeFields
<1> HIDE DEF e
<1>3. /\ DOMAIN k = HeapFields /\ k.sym = e /\ k.rule = h.rule /\ k.table = h.table
      /\ k.brk = h.brk /\ k.rbrk = h.rbrk /\ k.free = h.free /\ k.rfree = h.rfree
  BY <1>1 DEF IsHeap, HeapFields
<1>4. IsHeap(k)
  BY <1>2, <1>3 DEF IsHeap
<1> QED
  BY <1>2, <1>3, <1>4 DEF k

\* Clearing a value, and forgetting a rule.
LEMMA ClearIs ==
  ASSUME NEW h, IsHeap(h), NEW a \in DOMAIN h.sym
  PROVE  LET k == [h EXCEPT !.sym[a].s = Null]
         IN  /\ IsHeap(k) /\ DOMAIN k.sym = DOMAIN h.sym
             /\ \A b \in DOMAIN h.sym :
                  /\ k.sym[b].n = h.sym[b].n /\ k.sym[b].p = h.sym[b].p
                  /\ k.sym[b].owner = h.sym[b].owner
                  /\ k.sym[b].s = IF b = a THEN Null ELSE h.sym[b].s
             /\ k.rule = h.rule /\ k.table = h.table
             /\ k.brk = h.brk /\ k.rbrk = h.rbrk /\ k.free = h.free /\ k.rfree = h.rfree
<1> DEFINE e == [h.sym EXCEPT ![a].s = Null]
           k == [h EXCEPT !.sym = e]
<1>1. /\ DOMAIN e = DOMAIN h.sym
      /\ \A b \in DOMAIN h.sym :
           /\ e[b].n = h.sym[b].n /\ e[b].p = h.sym[b].p /\ e[b].owner = h.sym[b].owner
           /\ e[b].s = IF b = a THEN Null ELSE h.sym[b].s
           /\ DOMAIN e[b] = NodeFields
           /\ e[b].pred \in BOOLEAN /\ e[b].upd \in BOOLEAN /\ e[b].next.pred \in BOOLEAN
  BY DEF IsHeap, NodeFields
<1>2. [h EXCEPT !.sym[a].s = Null] = k
  OBVIOUS
<1> HIDE DEF e
<1>3. /\ DOMAIN k = HeapFields /\ k.sym = e /\ k.rule = h.rule /\ k.table = h.table
      /\ k.brk = h.brk /\ k.rbrk = h.rbrk /\ k.free = h.free /\ k.rfree = h.rfree
  BY DEF IsHeap, HeapFields
<1> HIDE DEF k
<1>4. IsHeap(k)
  BY <1>1, <1>3 DEF IsHeap
<1> QED
  BY <1>1, <1>2, <1>3, <1>4

\* Deleting a rule gives back its guard and its address.
LEMMA DestroyRuleIs ==
  ASSUME NEW h, NEW v, NEW d, d = Destroy(h, h.rule[v].guard), IsHeap(d)
  PROVE  LET k == DestroyRule(h, v)
         IN  /\ IsHeap(k) /\ k.sym = d.sym /\ k.table = d.table
             /\ DOMAIN k.rule = DOMAIN d.rule \ {v}
             /\ \A r \in DOMAIN k.rule : k.rule[r] = d.rule[r]
             /\ k.brk = d.brk /\ k.rbrk = d.rbrk /\ k.free = d.free
             /\ k.rfree = IF Recycle THEN <<v>> \o d.rfree ELSE d.rfree
<1> DEFINE e == Without(d.rule, v)
           k == DestroyRule(h, v)
<1>1. k = [d EXCEPT !.rule = e, !.rfree = IF Recycle THEN <<v>> \o @ ELSE @]
  BY DEF DestroyRule
<1> HIDE DEF k
<1>2. DOMAIN e = DOMAIN d.rule \ {v} /\ \A r \in DOMAIN e : e[r] = d.rule[r]
  BY DEF Without
<1> HIDE DEF e
<1>3. /\ DOMAIN k = HeapFields /\ k.sym = d.sym /\ k.table = d.table /\ k.rule = e
      /\ k.brk = d.brk /\ k.rbrk = d.rbrk /\ k.free = d.free
      /\ k.rfree = IF Recycle THEN <<v>> \o d.rfree ELSE d.rfree
  BY <1>1 DEF IsHeap, HeapFields
<1>4. IsHeap(k)
  BY <1>2, <1>3 DEF IsHeap
<1> QED
  BY <1>2, <1>3, <1>4 DEF k

\* The part of Expand that unties the rule: v's guard goes, its nodes move.
Untied(h, a, v, o, left, right, G, f, l, k) ==
  /\ DOMAIN k.sym = DOMAIN h.sym \ {G}
  /\ \A b \in DOMAIN k.sym :
       /\ k.sym[b].n = IF b = l THEN f ELSE h.sym[b].n
       /\ k.sym[b].p = IF b = f THEN l ELSE h.sym[b].p
       /\ k.sym[b].s = IF b = a THEN Null ELSE h.sym[b].s
       /\ k.sym[b].owner = IF b \in InnerOf(h, v) THEN o ELSE h.sym[b].owner
  /\ DOMAIN k.rule = DOMAIN h.rule \ {v}
  /\ \A r \in DOMAIN k.rule : k.rule[r] = h.rule[r]
  /\ k.brk = h.brk /\ k.rbrk = h.rbrk
  /\ k.free = IF Recycle THEN <<G>> \o h.free ELSE h.free
  /\ k.rfree = IF Recycle THEN <<v>> \o h.rfree ELSE h.rfree

\* The first half of an expansion: the body adopted, the rule deleted.
LEMMA UntieIs ==
  ASSUME NEW h, Core(h), NEW a, NEW v, NEW o, NEW left, NEW right, NEW G, NEW f, NEW l,
         Around(h, a, v, o, left, right, G, f, l), NEW g1, Same(h, g1)
  PROVE  LET g2 == Adopt(g1, NodesOf(g1, v), o)
             k  == [DestroyRule(DeleteDigram(g2, a), v) EXCEPT !.sym[a].s = Null]
         IN  /\ IsHeap(k) /\ Untied(h, a, v, o, left, right, G, f, l, k)
             /\ \A d \in DOMAIN k.table :
                  d \in DOMAIN h.table /\ k.table[d] = h.table[d] /\ h.table[d] # a
<1> DEFINE S  == InnerOf(h, v)
           g2 == Adopt(g1, NodesOf(g1, v), o)
           d2 == DeleteDigram(g2, a)
           r3 == Destroy(d2, G)
           g3 == DestroyRule(d2, v)
           c3 == [g3 EXCEPT !.sym[a].s = Null]
<1>1. /\ v # o /\ v \in DOMAIN h.rule /\ o \in DOMAIN h.rule /\ NT(v) /\ NT(o)
      /\ a \in DOMAIN h.sym /\ left \in DOMAIN h.sym /\ right \in DOMAIN h.sym
      /\ G \in DOMAIN h.sym /\ f \in DOMAIN h.sym /\ l \in DOMAIN h.sym
      /\ a \in Inner(h) /\ right \in Inner(h) /\ f \in Inner(h) /\ l \in Inner(h)
      /\ G = h.rule[v].guard /\ G \in Guards(h)
      /\ h.sym[a].s = v /\ h.sym[a].owner = o /\ h.sym[a].n = right
      /\ h.sym[G].s = v /\ h.sym[G].n = f /\ h.sym[G].p = l
      /\ h.sym[f].owner = v /\ h.sym[l].owner = v
      /\ h.sym[f].p = G /\ h.sym[l].n = G /\ f # l
      /\ h.sym[f].s # v /\ h.sym[l].s # v
  BY DEF Around
<1>2. /\ DOMAIN g1.sym = DOMAIN h.sym /\ g1.rule = h.rule /\ g1.table = h.table /\ IsHeap(g1)
      /\ \A b \in DOMAIN h.sym :
           /\ g1.sym[b].n = h.sym[b].n /\ g1.sym[b].p = h.sym[b].p
           /\ g1.sym[b].s = h.sym[b].s /\ g1.sym[b].owner = h.sym[b].owner
      /\ g1.brk = h.brk /\ g1.rbrk = h.rbrk /\ g1.free = h.free /\ g1.rfree = h.rfree
  BY DEF Same, SameLists
<1>3. NodesOf(g1, v) = S
  <2>1. Core(g1) /\ Inner(g1) = Inner(h)
    BY SameCore
  <2>2. NodesOf(g1, v) = InnerOf(g1, v)
    BY <2>1, <1>1, <1>2, BodyIs
  <2>3. \A b \in Inner(h) : b \in DOMAIN h.sym
    BY Lists
  <2> QED
    BY <2>1, <2>2, <2>3, <1>2 DEF InnerOf
<1>4. f \in S /\ l \in S /\ a \notin S /\ G \notin S
  BY <1>1 DEF InnerOf, Inner
<1> HIDE DEF S
<1>5. /\ IsHeap(g2) /\ DOMAIN g2.sym = DOMAIN h.sym
      /\ \A b \in DOMAIN h.sym :
           /\ g2.sym[b].n = h.sym[b].n /\ g2.sym[b].p = h.sym[b].p
           /\ g2.sym[b].s = h.sym[b].s
           /\ g2.sym[b].owner = IF b \in S THEN o ELSE h.sym[b].owner
      /\ g2.rule = h.rule /\ g2.table = h.table
      /\ g2.brk = h.brk /\ g2.rbrk = h.rbrk /\ g2.free = h.free /\ g2.rfree = h.rfree
  <2> DEFINE W == NodesOf(g1, v)
  <2>1. W = S
    BY <1>3
  <2> HIDE DEF W
  <2>2. /\ IsHeap(Adopt(g1, W, o)) /\ DOMAIN Adopt(g1, W, o).sym = DOMAIN g1.sym
        /\ \A b \in DOMAIN g1.sym :
             /\ Adopt(g1, W, o).sym[b].n = g1.sym[b].n /\ Adopt(g1, W, o).sym[b].p = g1.sym[b].p
             /\ Adopt(g1, W, o).sym[b].s = g1.sym[b].s
             /\ Adopt(g1, W, o).sym[b].owner = IF b \in W THEN o ELSE g1.sym[b].owner
        /\ Adopt(g1, W, o).rule = g1.rule /\ Adopt(g1, W, o).table = g1.table
        /\ Adopt(g1, W, o).brk = g1.brk /\ Adopt(g1, W, o).rbrk = g1.rbrk
        /\ Adopt(g1, W, o).free = g1.free /\ Adopt(g1, W, o).rfree = g1.rfree
    BY <1>2, AdoptIs
  <2>3. g2 = Adopt(g1, W, o)
    BY DEF W
  <2> HIDE DEF g2
  <2> QED
    BY <2>1, <2>2, <2>3, <1>2
<1> HIDE DEF g2
<1>6. \A b \in DOMAIN h.sym : IsGuard(g2, b) <=> b \in Guards(h)
  <2> SUFFICES ASSUME NEW b \in DOMAIN h.sym
               PROVE  IsGuard(g2, b) <=> IsGuard(h, b)
    BY GuardNodes
  <2>1. CASE NT(h.sym[b].s)
    <3> DEFINE w == h.sym[b].s
               q == h.rule[w].guard
    <3>1. w \in DOMAIN h.rule
      BY <2>1, Values
    <3>2. q \in DOMAIN h.sym /\ h.sym[q].n \in DOMAIN h.sym
      BY <3>1, GuardNodes, Lists
    <3>3. h.rule[w].guard = q /\ h.sym[b].s = w
      OBVIOUS
    <3> HIDE DEF q, w
    <3>4. /\ g2.sym[b].s = w /\ g2.rule[w].guard = q /\ g2.sym[q].n = h.sym[q].n
          /\ g2.sym[h.sym[q].n].p = h.sym[h.sym[q].n].p
      BY <3>1, <3>2, <3>3, <1>5
    <3>5. IsGuard(h, b) <=> NT(w) /\ h.sym[h.sym[q].n].p = b
      BY <3>3 DEF IsGuard, First
    <3>6. IsGuard(g2, b) <=> NT(w) /\ g2.sym[g2.sym[q].n].p = b
      BY <3>4 DEF IsGuard, First
    <3> QED
      BY <3>4, <3>5, <3>6
  <2>2. CASE ~NT(h.sym[b].s)
    BY <2>2, <1>5 DEF IsGuard
  <2> QED
    BY <2>1, <2>2
<1>7. ~NoDigram(g2, a) /\ Digram(g2, a) = Digram(h, a)
  <2>1. a \notin Guards(h) /\ right \notin Guards(h)
    BY <1>1, Lists
  <2>2. g2.sym[a].n = right /\ g2.sym[a].owner = o /\ g2.sym[a].s = h.sym[a].s
        /\ g2.sym[right].s = h.sym[right].s
    BY <1>1, <1>4, <1>5
  <2>3. o # Null
    BY <1>1 DEF NT
  <2> QED
    BY <2>1, <2>2, <2>3, <1>1, <1>6 DEF NoDigram, Digram
<1>8. /\ IsHeap(d2) /\ d2.sym = g2.sym /\ SameLists(g2, d2)
      /\ \A d \in DOMAIN d2.table :
           d \in DOMAIN h.table /\ d2.table[d] = h.table[d] /\ h.table[d] # a
  <2>1. /\ IsHeap(d2) /\ d2.sym = g2.sym /\ SameLists(g2, d2)
        /\ DOMAIN d2.table = {d \in DOMAIN g2.table :
              ~(d = Digram(g2, a) /\ g2.table[d] = a /\ ~NoDigram(g2, a))}
        /\ \A d \in DOMAIN d2.table : d2.table[d] = g2.table[d]
    BY <1>5, DeleteDigramIs
  <2> HIDE DEF d2
  <2>2. ASSUME NEW d \in DOMAIN d2.table, h.table[d] = a
        PROVE  FALSE
    <3>1. d \in DOMAIN h.table /\ ~(d = Digram(h, a))
      BY <2>1, <2>2, <1>5, <1>7
    <3>2. d = Digram(h, a)
      BY <3>1, <2>2 DEF Core, Entries
    <3> QED
      BY <3>1, <3>2
  <2> QED
    BY <2>1, <2>2, <1>5
<1>9. /\ d2.rule = h.rule
      /\ d2.brk = h.brk /\ d2.rbrk = h.rbrk /\ d2.free = h.free /\ d2.rfree = h.rfree
  BY <1>8, <1>5 DEF SameLists
<1> HIDE DEF d2
<1>10. d2.sym[G].p = l /\ d2.sym[G].n = f /\ d2.sym[G].s = v
  BY <1>1, <1>5, <1>8
<1> DEFINE j == Join(d2, l, f)
<1>11. IsHeap(j) /\ Joined(d2, l, f, j) /\ JoinedTable(d2, l, f, j)
  BY <1>1, <1>5, <1>8, JoinIs
<1>12. ~IsGuard(j, G)
  <2>1. j.rule = h.rule /\ j.sym[G].s = v /\ j.sym[G].n = f /\ j.sym[f].p = l
    <3>1. G # l
      BY <1>4
    <3> QED
      BY <3>1, <1>1, <1>5, <1>8, <1>9, <1>10, <1>11 DEF Joined
  <2>2. G # l
    BY <1>4
  <2> HIDE DEF j
  <2> QED
    BY <2>1, <2>2, <1>1 DEF IsGuard, First
<1>13. \A d \in DOMAIN j.table : d \in DOMAIN d2.table /\ j.table[d] = d2.table[d]
  <2>1. ~Triple(d2, f)
    <3>1. d2.sym[f].s # v /\ d2.sym[f].p = G
      BY <1>1, <1>5, <1>8
    <3> QED
      BY <3>1, <1>10 DEF Triple
  <2>2. ~Triple(d2, l)
    <3>1. d2.sym[l].s # v /\ d2.sym[l].n = G
      BY <1>1, <1>5, <1>8
    <3> QED
      BY <3>1, <1>10 DEF Triple
  <2> HIDE DEF j
  <2> QED
    BY <2>1, <2>2, <1>11 DEF JoinedTable
<1> HIDE DEF j
<1>14. /\ IsHeap(r3) /\ Destroyed(d2, G, l, f, r3)
       /\ \A d \in DOMAIN r3.table : d \in DOMAIN j.table /\ r3.table[d] = j.table[d]
  <2>1. /\ G \in DOMAIN d2.sym /\ d2.sym[G].p \in DOMAIN d2.sym /\ d2.sym[G].n \in DOMAIN d2.sym
        /\ ~IsGuard(Join(d2, d2.sym[G].p, d2.sym[G].n), G)
        /\ (NT(d2.sym[G].s) => d2.sym[G].s \in DOMAIN d2.rule)
    BY <1>1, <1>5, <1>8, <1>9, <1>10, <1>12 DEF j
  <2>2. LET jj == Join(d2, d2.sym[G].p, d2.sym[G].n)
        IN  /\ IsHeap(r3) /\ Destroyed(d2, G, d2.sym[G].p, d2.sym[G].n, r3)
            /\ \A d \in DOMAIN r3.table : d \in DOMAIN jj.table /\ r3.table[d] = jj.table[d]
    BY <2>1, <1>8, DestroyIs
  <2> HIDE DEF r3
  <2> QED
    BY <2>2, <1>10 DEF j
<1>15. r3 = Destroy(d2, d2.rule[v].guard)
  BY <1>1, <1>9
<1> HIDE DEF r3
<1>16. /\ IsHeap(g3) /\ g3.sym = r3.sym /\ g3.table = r3.table
       /\ DOMAIN g3.rule = DOMAIN r3.rule \ {v}
       /\ \A r \in DOMAIN g3.rule : g3.rule[r] = r3.rule[r]
       /\ g3.brk = r3.brk /\ g3.rbrk = r3.rbrk /\ g3.free = r3.free
       /\ g3.rfree = IF Recycle THEN <<v>> \o r3.rfree ELSE r3.rfree
  BY <1>14, <1>15, DestroyRuleIs
<1> HIDE DEF g3
<1>17. /\ DOMAIN r3.sym = DOMAIN h.sym \ {G}
       /\ \A b \in DOMAIN r3.sym :
            /\ r3.sym[b].n = IF b = l THEN f ELSE h.sym[b].n
            /\ r3.sym[b].p = IF b = f THEN l ELSE h.sym[b].p
            /\ r3.sym[b].s = h.sym[b].s
            /\ r3.sym[b].owner = IF b \in S THEN o ELSE h.sym[b].owner
       /\ DOMAIN r3.rule = DOMAIN h.rule
       /\ \A r \in DOMAIN h.rule : r # v => r3.rule[r] = h.rule[r]
       /\ r3.brk = h.brk /\ r3.rbrk = h.rbrk /\ r3.rfree = h.rfree
       /\ r3.free = IF Recycle THEN <<G>> \o h.free ELSE h.free
  <2>1. /\ DOMAIN r3.sym = DOMAIN d2.sym \ {G}
        /\ \A b \in DOMAIN r3.sym :
             /\ r3.sym[b].n = IF b = l THEN f ELSE d2.sym[b].n
             /\ r3.sym[b].p = IF b = f THEN l ELSE d2.sym[b].p
             /\ r3.sym[b].owner = IF b = f THEN d2.sym[l].owner ELSE d2.sym[b].owner
             /\ r3.sym[b].s = d2.sym[b].s
        /\ DOMAIN r3.rule = DOMAIN d2.rule
        /\ \A r \in DOMAIN d2.rule : r # v => r3.rule[r] = d2.rule[r]
        /\ r3.brk = d2.brk /\ r3.rbrk = d2.rbrk /\ r3.rfree = d2.rfree
        /\ r3.free = IF Recycle THEN <<G>> \o d2.free ELSE d2.free
    BY <1>10, <1>14 DEF Destroyed
  <2>2. d2.sym[l].owner = o
    BY <1>1, <1>4, <1>5, <1>8
  <2>3. \A b \in DOMAIN r3.sym :
             /\ r3.sym[b].n = IF b = l THEN f ELSE h.sym[b].n
             /\ r3.sym[b].p = IF b = f THEN l ELSE h.sym[b].p
             /\ r3.sym[b].s = h.sym[b].s
             /\ r3.sym[b].owner = IF b \in S THEN o ELSE h.sym[b].owner
    BY <2>1, <2>2, <1>4, <1>5, <1>8
  <2> QED
    BY <2>1, <2>3, <1>5, <1>8, <1>9
<1>18. a \in DOMAIN g3.sym
  BY <1>1, <1>4, <1>16, <1>17, Lists
<1>19. /\ IsHeap(c3) /\ DOMAIN c3.sym = DOMAIN g3.sym
       /\ \A b \in DOMAIN g3.sym :
            /\ c3.sym[b].n = g3.sym[b].n /\ c3.sym[b].p = g3.sym[b].p
            /\ c3.sym[b].owner = g3.sym[b].owner
            /\ c3.sym[b].s = IF b = a THEN Null ELSE g3.sym[b].s
       /\ c3.rule = g3.rule /\ c3.table = g3.table
       /\ c3.brk = g3.brk /\ c3.rbrk = g3.rbrk /\ c3.free = g3.free /\ c3.rfree = g3.rfree
  BY <1>16, <1>18, ClearIs
<1> HIDE DEF c3
<1>20. Untied(h, a, v, o, left, right, G, f, l, c3)
  <2>1. DOMAIN c3.sym = DOMAIN h.sym \ {G} /\ DOMAIN c3.sym = DOMAIN r3.sym
    BY <1>16, <1>17, <1>19
  <2>2. \A b \in DOMAIN c3.sym :
          /\ c3.sym[b].n = IF b = l THEN f ELSE h.sym[b].n
          /\ c3.sym[b].p = IF b = f THEN l ELSE h.sym[b].p
          /\ c3.sym[b].s = IF b = a THEN Null ELSE h.sym[b].s
          /\ c3.sym[b].owner = IF b \in S THEN o ELSE h.sym[b].owner
    BY <2>1, <1>16, <1>17, <1>19
  <2>3. DOMAIN c3.rule = DOMAIN h.rule \ {v} /\ \A r \in DOMAIN c3.rule : c3.rule[r] = h.rule[r]
    BY <1>16, <1>17, <1>19
  <2>4. /\ c3.brk = h.brk /\ c3.rbrk = h.rbrk
        /\ c3.free = IF Recycle THEN <<G>> \o h.free ELSE h.free
        /\ c3.rfree = IF Recycle THEN <<v>> \o h.rfree ELSE h.rfree
    BY <1>16, <1>17, <1>19
  <2> QED
    BY <2>1, <2>2, <2>3, <2>4 DEF Untied, S
<1>21. \A d \in DOMAIN c3.table :
         d \in DOMAIN h.table /\ c3.table[d] = h.table[d] /\ h.table[d] # a
  BY <1>8, <1>13, <1>14, <1>16, <1>19
<1> QED
  BY <1>19, <1>20, <1>21 DEF c3, g3, d2, g2

\* An expansion puts the body of the rule in the place of its use.
LEMMA ExpandIs ==
  ASSUME NEW h, Core(h), NEW a, NEW v, NEW o, NEW left, NEW right, NEW G, NEW f, NEW l,
         Around(h, a, v, o, left, right, G, f, l)
  PROVE  LET k == Expand(h, a)
         IN  IsHeap(k) /\ Spliced(h, a, v, left, right, f, l, G, k) /\ Entries3(h, a, right, l, k)
<1> DEFINE S  == InnerOf(h, v)
           g1 == IF h.sym[a].pred THEN MovePredictor(h, a, h.sym[a].preds) ELSE h
           g2 == Adopt(g1, NodesOf(g1, v), o)
           c3 == [DestroyRule(DeleteDigram(g2, a), v) EXCEPT !.sym[a].s = Null]
           g4 == Destroy(c3, a)
           j3 == Join(g4, left, f)
           j4 == Join(j3, l, right)
           k  == SetDigram(j4, l)
<1>1. /\ v # o /\ v \in DOMAIN h.rule /\ o \in DOMAIN h.rule /\ NT(v) /\ NT(o)
      /\ a \in DOMAIN h.sym /\ left \in DOMAIN h.sym /\ right \in DOMAIN h.sym
      /\ G \in DOMAIN h.sym /\ f \in DOMAIN h.sym /\ l \in DOMAIN h.sym
      /\ a \in Inner(h) /\ right \in Inner(h) /\ f \in Inner(h) /\ l \in Inner(h)
      /\ left = h.rule[o].guard /\ G = h.rule[v].guard
      /\ a \notin Guards(h) /\ right \notin Guards(h) /\ f \notin Guards(h) /\ l \notin Guards(h)
      /\ left \in Guards(h) /\ G \in Guards(h)
      /\ h.sym[a].s = v /\ h.sym[a].owner = o /\ h.sym[a].n = right /\ h.sym[a].p = left
      /\ h.sym[left].s = o /\ h.sym[left].owner = o /\ h.sym[right].owner = o
      /\ h.sym[left].n = a /\ h.sym[right].p = a
      /\ h.sym[G].s = v /\ h.sym[G].owner = v /\ h.sym[G].n = f /\ h.sym[G].p = l
      /\ h.sym[f].owner = v /\ h.sym[l].owner = v /\ h.sym[f].p = G /\ h.sym[l].n = G /\ f # l
      /\ h.sym[right].s # o /\ a # right
  BY Lists DEF Around
<1>2. /\ f \in S /\ l \in S /\ a \notin S /\ G \notin S /\ left \notin S /\ right \notin S
      /\ a # G /\ left # G /\ right # G /\ a # f /\ a # l /\ left # f /\ left # l
      /\ right # f /\ right # l /\ left # a /\ left # right /\ f # G /\ l # G
  BY <1>1 DEF InnerOf, Inner
<1>e. /\ h.sym[l].p \in Inner(h) /\ h.sym[h.sym[l].p].n = l
      /\ h.sym[l].p \in DOMAIN h.sym /\ h.sym[l].p \notin Guards(h)
      /\ h.sym[l].p # G /\ h.sym[l].p # a /\ h.sym[l].p # l /\ h.sym[l].p # left
  <2>1. h.sym[l].p \in Inner(h) /\ h.sym[h.sym[l].p].n = l /\ h.sym[h.sym[l].p].owner = v
    BY DEF Around
  <2> QED
    <3>1. h.sym[l].p \in DOMAIN h.sym /\ h.sym[l].p \notin Guards(h)
      BY <2>1, InnerNode
    <3> QED
      BY <2>1, <3>1, <1>1, <1>2
<1>3. Same(h, g1)
  <2>1. IsHeap(h)
    BY DEF Core
  <2>2. Same(h, h)
    BY <2>1 DEF Same, SameLists
  <2>3. Same(h, MovePredictor(h, a, h.sym[a].preds))
    BY <2>1, MovePredictorSame
  <2>4. CASE h.sym[a].pred
    BY <2>3, <2>4
  <2>5. CASE ~h.sym[a].pred
    BY <2>2, <2>5
  <2> QED
    BY <2>4, <2>5
<1>5. Expand(h, a) = k
  BY <1>1 DEF Expand, First, Last
<1> HIDE DEF g1
<1>4. /\ IsHeap(c3) /\ Untied(h, a, v, o, left, right, G, f, l, c3)
      /\ \A d \in DOMAIN c3.table :
           d \in DOMAIN h.table /\ c3.table[d] = h.table[d] /\ h.table[d] # a
  BY <1>3, UntieIs
<1> HIDE DEF c3, k
<1>6. /\ DOMAIN c3.sym = DOMAIN h.sym \ {G}
      /\ \A b \in DOMAIN c3.sym :
           /\ c3.sym[b].n = IF b = l THEN f ELSE h.sym[b].n
           /\ c3.sym[b].p = IF b = f THEN l ELSE h.sym[b].p
           /\ c3.sym[b].s = IF b = a THEN Null ELSE h.sym[b].s
           /\ c3.sym[b].owner = IF b \in S THEN o ELSE h.sym[b].owner
      /\ DOMAIN c3.rule = DOMAIN h.rule \ {v}
      /\ \A r \in DOMAIN c3.rule : c3.rule[r] = h.rule[r]
      /\ c3.brk = h.brk /\ c3.rbrk = h.rbrk
      /\ c3.free = IF Recycle THEN <<G>> \o h.free ELSE h.free
      /\ c3.rfree = IF Recycle THEN <<v>> \o h.rfree ELSE h.rfree
  BY <1>4 DEF Untied
<1> HIDE DEF S
<1>7. /\ a \in DOMAIN c3.sym /\ left \in DOMAIN c3.sym /\ right \in DOMAIN c3.sym
      /\ f \in DOMAIN c3.sym /\ l \in DOMAIN c3.sym /\ h.sym[l].p \in DOMAIN c3.sym
      /\ c3.sym[a].n = right /\ c3.sym[a].p = left /\ c3.sym[a].s = Null
      /\ c3.sym[left].n = a /\ c3.sym[left].s = o /\ c3.sym[left].owner = o
      /\ c3.rule[o].guard = left
  <2>1. /\ a \in DOMAIN c3.sym /\ left \in DOMAIN c3.sym /\ right \in DOMAIN c3.sym
        /\ f \in DOMAIN c3.sym /\ l \in DOMAIN c3.sym /\ h.sym[l].p \in DOMAIN c3.sym
        /\ o \in DOMAIN c3.rule
    BY <1>1, <1>2, <1>e, <1>6
  <2>2. c3.sym[a].n = right /\ c3.sym[a].p = left /\ c3.sym[a].s = Null
    BY <2>1, <1>1, <1>2, <1>6
  <2>3. c3.sym[left].n = a /\ c3.sym[left].s = o /\ c3.sym[left].owner = o
    <3>1. h.sym[left].n = a /\ h.sym[left].s = o /\ h.sym[left].owner = o
      BY <1>1
    <3>2. left # l /\ left # a /\ left \notin S
      BY <1>2
    <3> QED
      BY <2>1, <3>1, <3>2, <1>6
  <2>4. c3.rule[o].guard = left
    BY <2>1, <1>1, <1>6
  <2> QED
    BY <2>1, <2>2, <2>3, <2>4
<1>8. IsGuard(c3, left)
  BY <1>1, <1>7 DEF IsGuard, First
<1> DEFINE j == Join(c3, left, right)
<1>9. IsHeap(j) /\ Joined(c3, left, right, j) /\ JoinedTable(c3, left, right, j)
  BY <1>4, <1>7, JoinIs
<1> HIDE DEF j
<1>10. \A d \in DOMAIN j.table : d \in DOMAIN c3.table /\ j.table[d] = c3.table[d]
  BY <1>8, <1>9 DEF JoinedTable
<1>11. ~IsGuard(j, a)
  <2>1. j.sym[a].s = Null
    BY <1>7, <1>9 DEF Joined
  <2> QED
    BY <2>1 DEF IsGuard, NT
<1>12. /\ IsHeap(g4) /\ Destroyed(c3, a, left, right, g4)
       /\ \A d \in DOMAIN g4.table : d \in DOMAIN j.table /\ g4.table[d] = j.table[d]
  <2>1. /\ a \in DOMAIN c3.sym /\ c3.sym[a].p \in DOMAIN c3.sym /\ c3.sym[a].n \in DOMAIN c3.sym
        /\ ~IsGuard(Join(c3, c3.sym[a].p, c3.sym[a].n), a)
        /\ (NT(c3.sym[a].s) => c3.sym[a].s \in DOMAIN c3.rule)
    BY <1>7, <1>11 DEF j, NT
  <2>2. LET jj == Join(c3, c3.sym[a].p, c3.sym[a].n)
        IN  /\ IsHeap(g4) /\ Destroyed(c3, a, c3.sym[a].p, c3.sym[a].n, g4)
            /\ \A d \in DOMAIN g4.table : d \in DOMAIN jj.table /\ g4.table[d] = jj.table[d]
    BY <2>1, <1>4, DestroyIs
  <2> HIDE DEF g4
  <2> QED
    BY <2>2, <1>7 DEF j
<1> HIDE DEF g4
<1>13. /\ DOMAIN g4.sym = DOMAIN h.sym \ {G, a}
       /\ \A b \in DOMAIN g4.sym :
            /\ g4.sym[b].n = IF b = left THEN right ELSE IF b = l THEN f ELSE h.sym[b].n
            /\ g4.sym[b].p = IF b = right THEN left ELSE IF b = f THEN l ELSE h.sym[b].p
            /\ g4.sym[b].s = h.sym[b].s
            /\ g4.sym[b].owner = IF b \in S THEN o ELSE h.sym[b].owner
       /\ DOMAIN g4.rule = DOMAIN h.rule \ {v}
       /\ \A r \in DOMAIN g4.rule : g4.rule[r] = h.rule[r]
       /\ g4.brk = h.brk /\ g4.rbrk = h.rbrk
       /\ g4.free = IF Recycle THEN <<a>> \o (<<G>> \o h.free) ELSE h.free
       /\ g4.rfree = IF Recycle THEN <<v>> \o h.rfree ELSE h.rfree
  <2>1. /\ DOMAIN g4.sym = DOMAIN c3.sym \ {a}
        /\ \A b \in DOMAIN g4.sym :
             /\ g4.sym[b].n = IF b = left THEN right ELSE c3.sym[b].n
             /\ g4.sym[b].p = IF b = right THEN left ELSE c3.sym[b].p
             /\ g4.sym[b].owner = IF b = right THEN c3.sym[left].owner ELSE c3.sym[b].owner
             /\ g4.sym[b].s = c3.sym[b].s
        /\ DOMAIN g4.rule = DOMAIN c3.rule
        /\ \A r \in DOMAIN c3.rule : g4.rule[r] = c3.rule[r]
        /\ g4.brk = c3.brk /\ g4.rbrk = c3.rbrk /\ g4.rfree = c3.rfree
        /\ g4.free = IF Recycle THEN <<a>> \o c3.free ELSE c3.free
    BY <1>7, <1>12 DEF Destroyed, NT
  <2>2. \A b \in DOMAIN g4.sym :
             /\ g4.sym[b].n = IF b = left THEN right ELSE IF b = l THEN f ELSE h.sym[b].n
             /\ g4.sym[b].p = IF b = right THEN left ELSE IF b = f THEN l ELSE h.sym[b].p
             /\ g4.sym[b].s = h.sym[b].s
    BY <2>1, <1>6
  <2>3. \A b \in DOMAIN g4.sym : g4.sym[b].owner = IF b \in S THEN o ELSE h.sym[b].owner
    <3>1. c3.sym[left].owner = o /\ h.sym[right].owner = o /\ right \notin S
      BY <1>1, <1>2, <1>7
    <3>2. \A b \in DOMAIN g4.sym : c3.sym[b].owner = IF b \in S THEN o ELSE h.sym[b].owner
      BY <2>1, <1>6
    <3>3. \A b \in DOMAIN g4.sym :
             g4.sym[b].owner = IF b = right THEN o ELSE c3.sym[b].owner
      BY <2>1, <3>1
    <3> QED
      BY <3>1, <3>2, <3>3
  <2> QED
    BY <2>1, <2>2, <2>3, <1>6
<1>14. /\ left \in DOMAIN g4.sym /\ right \in DOMAIN g4.sym /\ f \in DOMAIN g4.sym
       /\ l \in DOMAIN g4.sym /\ h.sym[l].p \in DOMAIN g4.sym
       /\ g4.sym[left].n = right /\ g4.sym[right].p = left /\ g4.sym[left].s = o
       /\ g4.sym[left].owner = o /\ g4.rule[o].guard = left
  BY <1>1, <1>2, <1>e, <1>13
<1>15. IsGuard(g4, left)
  BY <1>1, <1>14 DEF IsGuard, First
<1>16. IsHeap(j3) /\ Joined(g4, left, f, j3) /\ JoinedTable(g4, left, f, j3)
  BY <1>12, <1>14, JoinIs
<1> HIDE DEF j3
<1>17. \A d \in DOMAIN j3.table : d \in DOMAIN g4.table /\ j3.table[d] = g4.table[d]
  BY <1>15, <1>16 DEF JoinedTable
<1>18. /\ DOMAIN j3.sym = DOMAIN h.sym \ {G, a}
       /\ \A b \in DOMAIN j3.sym :
            /\ j3.sym[b].n = IF b = left THEN f ELSE IF b = l THEN f ELSE h.sym[b].n
            /\ j3.sym[b].p = IF b = f THEN left ELSE IF b = right THEN left ELSE h.sym[b].p
            /\ j3.sym[b].s = h.sym[b].s
            /\ j3.sym[b].owner = IF b \in S THEN o ELSE h.sym[b].owner
       /\ j3.rule = g4.rule
       /\ j3.brk = g4.brk /\ j3.rbrk = g4.rbrk /\ j3.free = g4.free /\ j3.rfree = g4.rfree
  <2>1. /\ DOMAIN j3.sym = DOMAIN g4.sym
        /\ \A b \in DOMAIN g4.sym :
             /\ j3.sym[b].n = IF b = left THEN f ELSE g4.sym[b].n
             /\ j3.sym[b].p = IF b = f THEN left ELSE g4.sym[b].p
             /\ j3.sym[b].owner = IF b = f THEN g4.sym[left].owner ELSE g4.sym[b].owner
             /\ j3.sym[b].s = g4.sym[b].s
        /\ j3.rule = g4.rule
        /\ j3.brk = g4.brk /\ j3.rbrk = g4.rbrk /\ j3.free = g4.free /\ j3.rfree = g4.rfree
    BY <1>16 DEF Joined
  <2>2. \A b \in DOMAIN j3.sym :
             /\ j3.sym[b].n = IF b = left THEN f ELSE IF b = l THEN f ELSE h.sym[b].n
             /\ j3.sym[b].p = IF b = f THEN left ELSE IF b = right THEN left ELSE h.sym[b].p
             /\ j3.sym[b].s = h.sym[b].s
    BY <2>1, <1>13
  <2>3. \A b \in DOMAIN j3.sym : j3.sym[b].owner = IF b \in S THEN o ELSE h.sym[b].owner
    BY <2>1, <1>2, <1>13, <1>14
  <2> QED
    BY <2>1, <2>2, <2>3, <1>13
<1>19. /\ left \in DOMAIN j3.sym /\ right \in DOMAIN j3.sym
       /\ l \in DOMAIN j3.sym /\ h.sym[l].p \in DOMAIN j3.sym
       /\ j3.sym[right].p = left /\ j3.sym[left].s = o /\ j3.sym[right].s # o
       /\ j3.sym[l].owner = o /\ j3.sym[l].p = h.sym[l].p /\ j3.sym[h.sym[l].p].n = l
       /\ j3.sym[l].s = h.sym[l].s /\ j3.sym[h.sym[l].p].s = h.sym[h.sym[l].p].s
  BY <1>1, <1>2, <1>e, <1>18
<1>20. ~Triple(j3, right)
  BY <1>19 DEF Triple
<1>21. IsHeap(j4) /\ Joined(j3, l, right, j4) /\ JoinedTable(j3, l, right, j4)
  BY <1>16, <1>19, JoinIs
<1> HIDE DEF j4
<1>22. \A d \in DOMAIN j4.table :
         \/ d \in DOMAIN h.table /\ j4.table[d] = h.table[d] /\ h.table[d] # a
         \/ j4.table[d] = h.sym[l].p /\ d = <<h.sym[h.sym[l].p].s, h.sym[l].s>>
  <2> SUFFICES ASSUME NEW d \in DOMAIN j4.table
               PROVE  \/ d \in DOMAIN h.table /\ j4.table[d] = h.table[d] /\ h.table[d] # a
                      \/ j4.table[d] = h.sym[l].p /\ d = <<h.sym[h.sym[l].p].s, h.sym[l].s>>
    OBVIOUS
  <2>1. \/ d \in DOMAIN j3.table /\ j4.table[d] = j3.table[d]
        \/ j4.table[d] = j3.sym[l].p /\ d = Digram(j3, j3.sym[l].p)
    BY <1>20, <1>21 DEF JoinedTable
  <2>2. CASE d \in DOMAIN j3.table /\ j4.table[d] = j3.table[d]
    BY <2>2, <1>17, <1>12, <1>10, <1>4
  <2>3. CASE j4.table[d] = j3.sym[l].p /\ d = Digram(j3, j3.sym[l].p)
    BY <2>3, <1>19 DEF Digram
  <2> QED
    BY <2>1, <2>2, <2>3
<1>23. /\ DOMAIN j4.sym = DOMAIN h.sym \ {G, a}
       /\ \A b \in DOMAIN j4.sym :
            /\ j4.sym[b].n = IF b = left THEN f ELSE IF b = l THEN right ELSE h.sym[b].n
            /\ j4.sym[b].p = IF b = f THEN left ELSE IF b = right THEN l ELSE h.sym[b].p
            /\ j4.sym[b].s = h.sym[b].s
            /\ j4.sym[b].owner = IF b \in S THEN o ELSE h.sym[b].owner
       /\ j4.rule = g4.rule
       /\ j4.brk = g4.brk /\ j4.rbrk = g4.rbrk /\ j4.free = g4.free /\ j4.rfree = g4.rfree
  <2>1. /\ DOMAIN j4.sym = DOMAIN j3.sym
        /\ \A b \in DOMAIN j3.sym :
             /\ j4.sym[b].n = IF b = l THEN right ELSE j3.sym[b].n
             /\ j4.sym[b].p = IF b = right THEN l ELSE j3.sym[b].p
             /\ j4.sym[b].owner = IF b = right THEN j3.sym[l].owner ELSE j3.sym[b].owner
             /\ j4.sym[b].s = j3.sym[b].s
        /\ j4.rule = j3.rule
        /\ j4.brk = j3.brk /\ j4.rbrk = j3.rbrk /\ j4.free = j3.free /\ j4.rfree = j3.rfree
    BY <1>21 DEF Joined
  <2>2. \A b \in DOMAIN j4.sym :
             /\ j4.sym[b].n = IF b = left THEN f ELSE IF b = l THEN right ELSE h.sym[b].n
             /\ j4.sym[b].p = IF b = f THEN left ELSE IF b = right THEN l ELSE h.sym[b].p
             /\ j4.sym[b].s = h.sym[b].s
    BY <2>1, <1>2, <1>18
  <2>3. \A b \in DOMAIN j4.sym : j4.sym[b].owner = IF b \in S THEN o ELSE h.sym[b].owner
    BY <2>1, <1>1, <1>2, <1>18, <1>19
  <2> QED
    BY <2>1, <2>2, <2>3, <1>18
<1>24. Digram(j4, l) = <<h.sym[l].s, h.sym[right].s>>
  <2>1. /\ l \in DOMAIN j4.sym /\ right \in DOMAIN j4.sym /\ l # left
        /\ j4.sym[l].n = right /\ j4.sym[l].s = h.sym[l].s /\ j4.sym[right].s = h.sym[right].s
    BY <1>2, <1>14, <1>13, <1>23
  <2> QED
    BY <2>1 DEF Digram
<1>25. /\ IsHeap(k) /\ k.sym = j4.sym /\ SameLists(j4, k)
       /\ \A d \in DOMAIN k.table :
            \/ d \in DOMAIN j4.table /\ k.table[d] = j4.table[d]
            \/ k.table[d] = l /\ d = Digram(j4, l)
  <2>1. /\ IsHeap(k) /\ k.sym = j4.sym /\ SameLists(j4, k)
        /\ NoDigram(j4, l) => k.table = j4.table
        /\ ~NoDigram(j4, l) =>
             /\ DOMAIN k.table = DOMAIN j4.table \cup {Digram(j4, l)}
             /\ k.table[Digram(j4, l)] = l
             /\ \A d \in DOMAIN j4.table : d # Digram(j4, l) => k.table[d] = j4.table[d]
    BY <1>21, SetDigramIs DEF k
  <2> QED
    BY <2>1
<1>26. /\ k.rule = j4.rule
       /\ k.brk = j4.brk /\ k.rbrk = j4.rbrk /\ k.free = j4.free /\ k.rfree = j4.rfree
  BY <1>25 DEF SameLists
<1>27. Entries3(h, a, right, l, k)
  <2> SUFFICES ASSUME NEW d \in DOMAIN k.table
               PROVE  \/ d \in DOMAIN h.table /\ k.table[d] = h.table[d] /\ h.table[d] # a
                      \/ /\ k.table[d] = h.sym[l].p /\ h.sym[l].p \in Inner(h)
                         /\ d = <<h.sym[h.sym[l].p].s, h.sym[l].s>>
                      \/ k.table[d] = l /\ d = <<h.sym[l].s, h.sym[right].s>>
    BY DEF Entries3
  <2> QED
    BY <1>e, <1>22, <1>24, <1>25
<1>28. Spliced(h, a, v, left, right, f, l, G, k)
  <2>1. DOMAIN k.rule = DOMAIN h.rule \ {v} /\ \A r \in DOMAIN k.rule : k.rule[r] = h.rule[r]
    BY <1>13, <1>23, <1>26
  <2>2. /\ k.brk = h.brk /\ k.rbrk = h.rbrk
        /\ k.free = IF Recycle THEN <<a>> \o (<<G>> \o h.free) ELSE h.free
        /\ k.rfree = IF Recycle THEN <<v>> \o h.rfree ELSE h.rfree
    BY <1>13, <1>23, <1>26
  <2>3. /\ DOMAIN k.sym = DOMAIN h.sym \ {G, a}
        /\ \A b \in DOMAIN k.sym :
            /\ k.sym[b].n = IF b = left THEN f ELSE IF b = l THEN right ELSE h.sym[b].n
            /\ k.sym[b].p = IF b = f THEN left ELSE IF b = right THEN l ELSE h.sym[b].p
            /\ k.sym[b].s = h.sym[b].s
            /\ k.sym[b].owner = IF b \in InnerOf(h, v) THEN h.sym[a].owner ELSE h.sym[b].owner
    BY <1>1, <1>23, <1>25 DEF S
  <2> QED
    BY <2>1, <2>2, <2>3 DEF Spliced
<1> QED
  BY <1>5, <1>25, <1>27, <1>28

\* Splicing the body of v in the place of its only user keeps the heap sound.
LEMMA SplicedCore ==
  ASSUME NEW h, Core(h), NEW rk, Ranking(h, rk),
         NEW a, NEW v, NEW o, NEW left, NEW right, NEW G, NEW f, NEW l,
         Around(h, a, v, o, left, right, G, f, l), h.rule[v].users = {a},
         NEW k, IsHeap(k), Spliced(h, a, v, left, right, f, l, G, k), Entries3(h, a, right, l, k)
  PROVE  /\ Core(k) /\ \E e : Ranking(k, e)
         /\ Guards(k) = Guards(h) \ {G} /\ Linked(k) = Linked(h) \ {G, a}
         /\ Inner(k) = Inner(h) \ {a}
<1>1. /\ v # o /\ v \in DOMAIN h.rule /\ o \in DOMAIN h.rule
      /\ a \in Linked(h) /\ left \in Linked(h) /\ right \in Linked(h)
      /\ G \in Linked(h) /\ f \in Linked(h) /\ l \in Linked(h)
      /\ a \in DOMAIN h.sym /\ left \in DOMAIN h.sym /\ right \in DOMAIN h.sym
      /\ G \in DOMAIN h.sym /\ f \in DOMAIN h.sym /\ l \in DOMAIN h.sym
      /\ a \in Inner(h) /\ right \in Inner(h) /\ f \in Inner(h) /\ l \in Inner(h)
      /\ left = h.rule[o].guard /\ G = h.rule[v].guard
      /\ a \notin Guards(h) /\ right \notin Guards(h) /\ f \notin Guards(h) /\ l \notin Guards(h)
      /\ left \in Guards(h) /\ G \in Guards(h)
      /\ h.sym[a].s = v /\ h.sym[a].owner = o /\ h.sym[a].n = right /\ h.sym[a].p = left
      /\ h.sym[left].s = o /\ h.sym[left].owner = o /\ h.sym[right].owner = o
      /\ h.sym[left].n = a /\ h.sym[right].p = a
      /\ h.sym[G].s = v /\ h.sym[G].owner = v /\ h.sym[G].n = f /\ h.sym[G].p = l
      /\ h.sym[f].owner = v /\ h.sym[l].owner = v /\ h.sym[f].p = G /\ h.sym[l].n = G /\ f # l
      /\ a # right
  BY Lists DEF Around
<1>2. /\ a # G /\ left # G /\ right # G /\ a # f /\ a # l /\ left # f /\ left # l
      /\ right # f /\ right # l /\ left # a /\ left # right /\ f # G /\ l # G
  BY <1>1
<1>3. /\ DOMAIN k.sym = DOMAIN h.sym \ {G, a}
      /\ \A b \in DOMAIN k.sym :
           /\ k.sym[b].n = IF b = left THEN f ELSE IF b = l THEN right ELSE h.sym[b].n
           /\ k.sym[b].p = IF b = f THEN left ELSE IF b = right THEN l ELSE h.sym[b].p
           /\ k.sym[b].s = h.sym[b].s
           /\ k.sym[b].owner = IF b \in InnerOf(h, v) THEN o ELSE h.sym[b].owner
      /\ DOMAIN k.rule = DOMAIN h.rule \ {v}
      /\ \A r \in DOMAIN k.rule : k.rule[r] = h.rule[r]
      /\ k.brk = h.brk /\ k.rbrk = h.rbrk
      /\ k.free = IF Recycle THEN <<a>> \o (<<G>> \o h.free) ELSE h.free
      /\ k.rfree = IF Recycle THEN <<v>> \o h.rfree ELSE h.rfree
  BY <1>1 DEF Spliced
<1>4. Guards(k) = Guards(h) \ {G}
  <2>1. \A r \in DOMAIN h.rule : h.rule[r].guard = G => r = v
    <3>1. \A r \in DOMAIN h.rule : h.sym[h.rule[r].guard].s = r
      BY GuardNodes
    <3> QED
      BY <3>1, <1>1
  <2>2. ASSUME NEW x \in Guards(k) PROVE x \in Guards(h) \ {G}
    BY <2>1, <2>2, <1>3 DEF Guards
  <2>3. ASSUME NEW x \in Guards(h) \ {G} PROVE x \in Guards(k)
    <3>1. PICK r \in DOMAIN h.rule : x = h.rule[r].guard
      BY <2>3 DEF Guards
    <3>2. r \in DOMAIN k.rule /\ k.rule[r] = h.rule[r]
      BY <3>1, <2>3, <1>1, <1>3
    <3> QED
      BY <3>1, <3>2 DEF Guards
  <2> QED
    BY <2>2, <2>3
<1>5. Linked(k) = Linked(h) \ {G, a}
  <2>1. f # Null /\ right # Null
    BY <1>1, Lists
  <2>2. \A b \in DOMAIN k.sym : k.sym[b].n # Null <=> h.sym[b].n # Null
    <3>1. h.sym[left].n # Null /\ h.sym[l].n # Null
      <4>1. left \in Linked(h) /\ l \in Linked(h)
        BY <1>1
      <4> QED
        BY <4>1 DEF Linked
    <3> QED
      BY <2>1, <3>1, <1>3
  <2> QED
    BY <2>2, <1>3 DEF Linked
<1>6. Inner(k) = Inner(h) \ {a}
  BY <1>1, <1>4, <1>5 DEF Inner
<1>7. \A b \in Linked(k) :
        /\ b \in DOMAIN k.sym /\ b \in Linked(h) /\ b # G /\ b # a
        /\ k.sym[b].n = IF b = left THEN f ELSE IF b = l THEN right ELSE h.sym[b].n
        /\ k.sym[b].p = IF b = f THEN left ELSE IF b = right THEN l ELSE h.sym[b].p
        /\ k.sym[b].owner = IF h.sym[b].owner = v THEN o ELSE h.sym[b].owner
  <2> SUFFICES ASSUME NEW b \in Linked(k)
               PROVE  /\ b \in DOMAIN k.sym /\ b \in Linked(h) /\ b # G /\ b # a
                      /\ k.sym[b].owner = IF h.sym[b].owner = v THEN o ELSE h.sym[b].owner
    BY <1>3, <1>5 DEF Linked
  <2>1. b \in DOMAIN k.sym /\ b \in Linked(h) /\ b # G /\ b # a
    BY <1>5 DEF Linked
  <2>2. \A x \in Guards(h) : h.sym[x].owner = v => x = G
    BY <1>1, GuardNodes
  <2>3. b \in InnerOf(h, v) <=> h.sym[b].owner = v
    BY <2>1, <2>2, Lists DEF InnerOf
  <2> QED
    BY <2>1, <2>3, <1>3
<1>8. Linking(k)
  <2>1. ASSUME NEW b \in DOMAIN k.sym, b \notin Linked(k)
        PROVE  k.sym[b].p = Null
    <3>1. b \in DOMAIN h.sym /\ b \notin Linked(h) /\ b # f /\ b # right
      BY <2>1, <1>1, <1>2, <1>3, <1>5
    <3>2. h.sym[b].p = Null
      BY <3>1 DEF Core, Linking
    <3> QED
      BY <3>1, <3>2, <1>3
  <2>2. ASSUME NEW b \in Linked(k)
        PROVE  /\ k.sym[b].n \in Linked(k) /\ k.sym[k.sym[b].n].p = b
               /\ k.sym[b].p \in Linked(k) /\ k.sym[k.sym[b].p].n = b
               /\ k.sym[b].owner \in DOMAIN k.rule
               /\ k.sym[k.sym[b].n].owner = k.sym[b].owner
    <3>0. /\ left \in Linked(k) /\ right \in Linked(k) /\ f \in Linked(k) /\ l \in Linked(k)
          /\ k.sym[left].n = f /\ k.sym[l].n = right /\ k.sym[f].p = left /\ k.sym[right].p = l
          /\ k.sym[left].owner = o /\ k.sym[f].owner = o /\ k.sym[l].owner = o
          /\ k.sym[right].owner = o
      BY <1>1, <1>2, <1>5, <1>7
    <3>1. /\ b \in Linked(h) /\ b # a /\ b # G
      BY <1>5
    <3>2. /\ h.sym[b].n \in Linked(h) /\ h.sym[h.sym[b].n].p = b
          /\ h.sym[b].p \in Linked(h) /\ h.sym[h.sym[b].p].n = b
          /\ h.sym[b].owner \in DOMAIN h.rule
          /\ h.sym[h.sym[b].n].owner = h.sym[b].owner
      BY <3>1, Lists
    <3>3. /\ k.sym[b].n \in Linked(k) /\ k.sym[k.sym[b].n].p = b
          /\ k.sym[k.sym[b].n].owner = k.sym[b].owner
      <4>1. CASE b = left \/ b = l
        BY <4>1, <3>0, <1>2
      <4>2. CASE b # left /\ b # l
        <5> DEFINE x == h.sym[b].n
        <5>1. x # a /\ x # G /\ x # f /\ x # right /\ x \in Linked(h) /\ h.sym[x].p = b
              /\ h.sym[x].owner = h.sym[b].owner
          BY <4>2, <3>1, <3>2, <1>1
        <5>2. k.sym[b].n = x
          BY <4>2, <1>7
        <5> HIDE DEF x
        <5>3. x \in Linked(k)
          BY <5>1, <1>5
        <5> QED
          BY <5>1, <5>2, <5>3, <1>7
      <4> QED
        BY <4>1, <4>2
    <3>4. k.sym[b].p \in Linked(k) /\ k.sym[k.sym[b].p].n = b
      <4>1. CASE b = f \/ b = right
        BY <4>1, <3>0, <1>2
      <4>2. CASE b # f /\ b # right
        <5> DEFINE x == h.sym[b].p
        <5>1. x # a /\ x # G /\ x # left /\ x # l /\ x \in Linked(h) /\ h.sym[x].n = b
          BY <4>2, <3>1, <3>2, <1>1
        <5>2. k.sym[b].p = x
          BY <4>2, <1>7
        <5> HIDE DEF x
        <5>3. x \in Linked(k)
          BY <5>1, <1>5
        <5> QED
          BY <5>1, <5>2, <5>3, <1>7
      <4> QED
        BY <4>1, <4>2
    <3>5. k.sym[b].owner \in DOMAIN k.rule
      <4> DEFINE w == k.sym[b].owner
                 u == h.sym[b].owner
      <4>1. o \in DOMAIN k.rule
        BY <1>1, <1>3
      <4>2. w = IF u = v THEN o ELSE u
        BY <1>7
      <4>3. u # v => u \in DOMAIN k.rule
        BY <3>2, <1>3
      <4> HIDE DEF w, u
      <4>4. w \in DOMAIN k.rule
        BY <4>1, <4>2, <4>3
      <4> QED
        BY <4>4 DEF w
    <3> QED
      BY <3>3, <3>4, <3>5
  <2>3. ASSUME NEW r \in DOMAIN k.rule
        PROVE  /\ k.rule[r].guard \in Linked(k)
               /\ k.sym[k.rule[r].guard].s = r /\ k.sym[k.rule[r].guard].owner = r
    <3>1. r \in DOMAIN h.rule /\ r # v /\ k.rule[r].guard = h.rule[r].guard
      BY <1>3
    <3>2. /\ h.rule[r].guard \in Linked(h) /\ h.rule[r].guard # a /\ h.rule[r].guard # G
          /\ h.sym[h.rule[r].guard].s = r /\ h.sym[h.rule[r].guard].owner = r
      <4>1. /\ h.rule[r].guard \in Linked(h) /\ h.rule[r].guard \in Guards(h)
            /\ h.sym[h.rule[r].guard].s = r /\ h.sym[h.rule[r].guard].owner = r
        BY <3>1, GuardNodes
      <4> QED
        BY <4>1, <3>1, <1>1
    <3>3. h.rule[r].guard \in Linked(k)
      BY <3>2, <1>5
    <3> QED
      BY <3>1, <3>2, <3>3, <1>3, <1>7
  <2> QED
    BY <2>1, <2>2, <2>3 DEF Linking
<1>9. Forward(k)
  <2> SUFFICES ASSUME NEW r \in DOMAIN k.rule, NEW T \in SUBSET Linked(k),
                      k.rule[r].guard \in T,
                      \A b \in T : k.sym[b].owner = r => k.sym[b].n \in T,
                      NEW x \in Linked(k), k.sym[x].owner = r
               PROVE  x \in T
    BY DEF Forward, NodeOf
  <2>0. /\ r \in DOMAIN h.rule /\ r # v /\ h.rule[r].guard \in T /\ Forward(h)
        /\ T \subseteq Linked(h) /\ T \subseteq Linked(k) /\ a \notin T /\ G \notin T
        /\ x # a /\ x # G /\ x \in Linked(h)
    BY <1>3, <1>5 DEF Core
  <2>1. CASE r # o
    <3>1. \A b \in T : h.sym[b].owner = r => h.sym[b].n \in T
      BY <2>0, <2>1, <1>1, <1>7
    <3>2. h.sym[x].owner = r
      BY <2>1, <1>7
    <3> QED
      BY <3>1, <3>2, <2>0, Forwards
  <2>2. CASE r = o
    <3> DEFINE U1 == {b \in T : h.sym[b].owner = v} \cup {G}
               U2 == {b \in T : h.sym[b].owner = o} \cup {a}
    <3>1. left \in T /\ f \in T
      BY <2>0, <2>2, <1>1, <1>2, <1>7
    <3>2. \A b \in Linked(h) : h.sym[b].owner = v => b \in U1
      <4>1. U1 \subseteq Linked(h) /\ h.rule[v].guard \in U1
        BY <2>0, <1>1
      <4>2. ASSUME NEW b \in U1, h.sym[b].owner = v
            PROVE  h.sym[b].n \in U1
        <5>1. CASE b = G
          BY <5>1, <3>1, <1>1
        <5>2. CASE b = l
          BY <5>2, <1>1
        <5>3. CASE b # G /\ b # l
          <6>1. b \in T /\ b \in Linked(k) /\ k.sym[b].owner = r /\ b # left
            BY <5>3, <4>2, <2>0, <2>2, <1>1, <1>7
          <6>2. k.sym[b].n \in T /\ k.sym[b].n = h.sym[b].n
            BY <6>1, <5>3, <1>7
          <6>3. h.sym[h.sym[b].n].owner = v
            BY <6>1, <4>2, <2>0, Lists
          <6> QED
            BY <6>2, <6>3
        <5> QED
          BY <5>1, <5>2, <5>3
      <4> HIDE DEF U1
      <4> QED
        BY <4>1, <4>2, <2>0, <1>1, Forwards
    <3>3. l \in T /\ right \in T
      <4>1. l \in T
        BY <3>2, <1>1, <1>2
      <4> QED
        BY <4>1, <2>0, <2>2, <1>1, <1>2, <1>7
    <3>4. \A b \in Linked(h) : h.sym[b].owner = o => b \in U2
      <4>1. U2 \subseteq Linked(h) /\ h.rule[o].guard \in U2
        BY <2>0, <3>1, <1>1
      <4>2. ASSUME NEW b \in U2, h.sym[b].owner = o
            PROVE  h.sym[b].n \in U2
        <5>1. CASE b = a
          BY <5>1, <3>3, <1>1
        <5>2. CASE b = left
          BY <5>2, <1>1
        <5>3. CASE b # a /\ b # left
          <6>1. b \in T /\ b \in Linked(k) /\ k.sym[b].owner = r /\ b # l
            BY <5>3, <4>2, <2>0, <2>2, <1>1, <1>7
          <6>2. k.sym[b].n \in T /\ k.sym[b].n = h.sym[b].n
            BY <6>1, <5>3, <1>7
          <6>3. h.sym[h.sym[b].n].owner = o
            BY <6>1, <4>2, <2>0, Lists
          <6> QED
            BY <6>2, <6>3
        <5> QED
          BY <5>1, <5>2, <5>3
      <4> HIDE DEF U2
      <4> QED
        BY <4>1, <4>2, <2>0, <1>1, Forwards
    <3>5. h.sym[x].owner = v \/ h.sym[x].owner = o
      BY <2>2, <1>7
    <3>6. CASE h.sym[x].owner = v
      BY <3>6, <3>2, <2>0
    <3>7. CASE h.sym[x].owner = o
      BY <3>7, <3>4, <2>0
    <3> QED
      BY <3>5, <3>6, <3>7
  <2> QED
    BY <2>1, <2>2
<1>10. Backward(k)
  <2> SUFFICES ASSUME NEW r \in DOMAIN k.rule, NEW T \in SUBSET Linked(k),
                      k.rule[r].guard \in T,
                      \A b \in T : k.sym[b].owner = r => k.sym[b].p \in T,
                      NEW x \in Linked(k), k.sym[x].owner = r
               PROVE  x \in T
    BY DEF Backward, NodeOf
  <2>0. /\ r \in DOMAIN h.rule /\ r # v /\ h.rule[r].guard \in T /\ Backward(h)
        /\ T \subseteq Linked(h) /\ T \subseteq Linked(k) /\ a \notin T /\ G \notin T
        /\ x # a /\ x # G /\ x \in Linked(h)
    BY <1>3, <1>5 DEF Core
  <2>1. CASE r # o
    <3>1. \A b \in T : h.sym[b].owner = r => h.sym[b].p \in T
      BY <2>0, <2>1, <1>1, <1>7
    <3>2. h.sym[x].owner = r
      BY <2>1, <1>7
    <3> QED
      BY <3>1, <3>2, <2>0, Backwards
  <2>2. CASE r = o
    <3> DEFINE V  == {b \in T : h.sym[b].owner = o}
               U1 == {b \in T : h.sym[b].owner = v} \cup {G}
               U2 == {b \in T : h.sym[b].owner = o} \cup {a}
    <3>1. left \in T
      BY <2>0, <2>2, <1>1
    <3>2. right \in T
      <4> SUFFICES ASSUME right \notin T PROVE FALSE
        OBVIOUS
      <4>1. V \subseteq Linked(h) /\ h.rule[o].guard \in V
        BY <2>0, <3>1, <1>1
      <4>2. ASSUME NEW b \in V, h.sym[b].owner = o
            PROVE  h.sym[b].p \in V
        <5>1. b \in T /\ b \in Linked(k) /\ k.sym[b].owner = r /\ b # right /\ b # f
          BY <4>2, <2>0, <2>2, <1>1, <1>7
        <5>2. k.sym[b].p \in T /\ k.sym[b].p = h.sym[b].p
          BY <5>1, <1>7
        <5>3. h.sym[h.sym[b].p].owner = o
          BY <5>1, <4>2, <2>0, Lists
        <5> QED
          BY <5>2, <5>3
      <4>3. \A b \in Linked(h) : h.sym[b].owner = o => b \in V
        <5> HIDE DEF V
        <5> QED
          BY <4>1, <4>2, <2>0, <1>1, Backwards
      <4> QED
        BY <4>3, <1>1
    <3>3. l \in T
      BY <3>2, <2>0, <2>2, <1>1, <1>2, <1>7
    <3>4. \A b \in Linked(h) : h.sym[b].owner = v => b \in U1
      <4>1. U1 \subseteq Linked(h) /\ h.rule[v].guard \in U1
        BY <2>0, <1>1
      <4>2. ASSUME NEW b \in U1, h.sym[b].owner = v
            PROVE  h.sym[b].p \in U1
        <5>1. CASE b = G
          BY <5>1, <3>3, <1>1
        <5>2. CASE b = f
          BY <5>2, <1>1
        <5>3. CASE b # G /\ b # f
          <6>1. b \in T /\ b \in Linked(k) /\ k.sym[b].owner = r /\ b # right
            BY <5>3, <4>2, <2>0, <2>2, <1>1, <1>7
          <6>2. k.sym[b].p \in T /\ k.sym[b].p = h.sym[b].p
            BY <6>1, <5>3, <1>7
          <6>3. h.sym[h.sym[b].p].owner = v
            BY <6>1, <4>2, <2>0, Lists
          <6> QED
            BY <6>2, <6>3
        <5> QED
          BY <5>1, <5>2, <5>3
      <4> HIDE DEF U1
      <4> QED
        BY <4>1, <4>2, <2>0, <1>1, Backwards
    <3>5. \A b \in Linked(h) : h.sym[b].owner = o => b \in U2
      <4>1. U2 \subseteq Linked(h) /\ h.rule[o].guard \in U2
        BY <2>0, <3>1, <1>1
      <4>2. ASSUME NEW b \in U2, h.sym[b].owner = o
            PROVE  h.sym[b].p \in U2
        <5>1. CASE b = a
          BY <5>1, <3>1, <1>1
        <5>2. CASE b = right
          BY <5>2, <1>1
        <5>3. CASE b # a /\ b # right
          <6>1. b \in T /\ b \in Linked(k) /\ k.sym[b].owner = r /\ b # f
            BY <5>3, <4>2, <2>0, <2>2, <1>1, <1>7
          <6>2. k.sym[b].p \in T /\ k.sym[b].p = h.sym[b].p
            BY <6>1, <5>3, <1>7
          <6>3. h.sym[h.sym[b].p].owner = o
            BY <6>1, <4>2, <2>0, Lists
          <6> QED
            BY <6>2, <6>3
        <5> QED
          BY <5>1, <5>2, <5>3
      <4> HIDE DEF U2
      <4> QED
        BY <4>1, <4>2, <2>0, <1>1, Backwards
    <3>6. h.sym[x].owner = v \/ h.sym[x].owner = o
      BY <2>2, <1>7
    <3>7. CASE h.sym[x].owner = v
      BY <3>7, <3>4, <2>0
    <3>8. CASE h.sym[x].owner = o
      BY <3>8, <3>5, <2>0
    <3> QED
      BY <3>6, <3>7, <3>8
  <2> QED
    BY <2>1, <2>2
<1>11. h.rule[v].users = {b \in DOMAIN h.sym \ Guards(h) : h.sym[b].s = v}
  BY <1>1 DEF Core, Counted
<1>12. \A b \in DOMAIN k.sym : b \in DOMAIN h.sym /\ h.sym[b].s # v
  <2>1. \A x \in Guards(h) : h.sym[x].s = v => x = G
    BY <1>1, GuardNodes
  <2> QED
    BY <2>1, <1>3, <1>11
<1>13. Valued(k)
  <2>1. \A b \in DOMAIN k.sym : k.sym[b].s \in Terminal \cup DOMAIN k.rule
    BY <1>3, <1>12, Values
  <2>2. \A b \in Inner(k) : k.sym[b].s # Start
    <3>1. \A b \in Inner(k) : b \in DOMAIN k.sym /\ h.sym[b].s # Start
      BY <1>6, Lists DEF Inner, Linked
    <3> QED
      BY <3>1, <1>3
  <2> QED
    BY <2>1, <2>2 DEF Valued
<1>14. Ranking(k, [r \in DOMAIN k.rule |-> rk[r]])
  <2> DEFINE rk2 == [r \in DOMAIN k.rule |-> rk[r]]
  <2>1. rk \in [DOMAIN h.rule -> Nat]
    BY DEF Ranking
  <2>2. rk2 \in [DOMAIN k.rule -> Nat]
    BY <2>1, <1>3
  <2>3. ASSUME NEW b \in Inner(k), k.sym[b].s \in DOMAIN k.rule
        PROVE  rk2[k.sym[b].s] < rk2[k.sym[b].owner]
    <3>1. b \in Inner(h) /\ b \in Linked(k) /\ b \in DOMAIN k.sym /\ b \in Linked(h)
      BY <1>6, <1>7 DEF Inner
    <3>2. k.sym[b].s = h.sym[b].s /\ h.sym[b].s \in DOMAIN h.rule
      BY <3>1, <2>3, <1>3
    <3>3. rk[h.sym[b].s] < rk[h.sym[b].owner]
      BY <3>1, <3>2 DEF Ranking
    <3>4. rk[v] < rk[o]
      <4>1. h.sym[a].s \in DOMAIN h.rule
        BY <1>1
      <4>2. rk[h.sym[a].s] < rk[h.sym[a].owner]
        BY <4>1, <1>1 DEF Ranking
      <4> QED
        BY <4>2, <1>1
    <3>5. h.sym[b].owner \in DOMAIN h.rule
      BY <3>1, Lists
    <3>6. /\ rk[h.sym[b].s] \in Nat /\ rk[h.sym[b].owner] \in Nat /\ rk[v] \in Nat /\ rk[o] \in Nat
      BY <3>2, <3>5, <2>1, <1>1
    <3>7. rk[h.sym[b].s] < rk[k.sym[b].owner]
      <4>1. CASE h.sym[b].owner = v
        <5>1. k.sym[b].owner = o
          BY <4>1, <3>1, <1>7
        <5>2. rk[h.sym[b].s] < rk[v]
          BY <4>1, <3>3
        <5> QED
          BY <5>1, <5>2, <3>4, <3>6
      <4>2. CASE h.sym[b].owner # v
        BY <4>2, <3>1, <3>3, <1>7
      <4> QED
        BY <4>1, <4>2
    <3>8. k.sym[b].owner \in DOMAIN k.rule
      BY <3>1, <1>8 DEF Linking
    <3> QED
      BY <3>2, <3>7, <3>8, <2>3
  <2> HIDE DEF rk2
  <2>4. Ranking(k, rk2)
    BY <2>2, <2>3 DEF Ranking
  <2> QED
    BY <2>4 DEF rk2
<1>15. Entries(k)
  <2> SUFFICES ASSUME NEW d \in DOMAIN k.table
               PROVE  LET b == k.table[d]
                      IN  b \in Inner(k) /\ k.sym[b].n \in Inner(k) /\ d = Digram(k, b)
    BY DEF Entries
  <2>0. \A y \in Inner(k) : y \in DOMAIN k.sym /\ y \in Linked(k)
    BY <1>7 DEF Inner
  <2>1. CASE d \in DOMAIN h.table /\ k.table[d] = h.table[d] /\ h.table[d] # a
    <3> DEFINE b == h.table[d]
               c == h.sym[b].n
    <3>1. b \in Inner(h) /\ c \in Inner(h) /\ d = <<h.sym[b].s, h.sym[c].s>> /\ h.sym[c].p = b
          /\ k.table[d] = b /\ b # a /\ h.sym[b].n = c
      <4>1. b \in Inner(h) /\ c \in Inner(h) /\ d = Digram(h, b)
        BY <2>1 DEF Core, Entries
      <4> QED
        BY <4>1, <2>1, Lists DEF Digram
    <3> HIDE DEF b, c
    <3>2. b # left /\ b # l /\ c # a
      <4>1. b # left
        <5>1. b \notin Guards(h)
          BY <3>1, InnerNode
        <5> QED
          BY <5>1, <1>1
      <4>2. b # l
        <5>1. c # G
          BY <3>1, <1>1 DEF Inner
        <5> QED
          BY <5>1, <3>1, <1>1
      <4>3. c # a
        BY <4>1, <3>1, <1>1
      <4> QED
        BY <4>1, <4>2, <4>3
    <3>3. b \in Inner(k) /\ c \in Inner(k)
      BY <3>1, <3>2, <1>6
    <3>4. k.sym[b].n = c /\ k.sym[b].s = h.sym[b].s /\ k.sym[c].s = h.sym[c].s
      BY <3>1, <3>2, <3>3, <2>0, <1>3, <1>7
    <3> QED
      BY <3>1, <3>3, <3>4 DEF Digram
  <2>2. CASE LET e == h.sym[l].p
             IN  k.table[d] = e /\ e \in Inner(h) /\ d = <<h.sym[e].s, h.sym[l].s>>
    <3> DEFINE e == h.sym[l].p
    <3>1. k.table[d] = e /\ e \in Inner(h) /\ d = <<h.sym[e].s, h.sym[l].s>>
      BY <2>2
    <3>2. e # left /\ e # l /\ e # a /\ h.sym[e].n = l
      <4>1. \A b \in Linked(h) : h.sym[h.sym[b].p].n = b
        BY Lists
      <4>2. h.sym[e].n = l
        BY <4>1, <1>1
      <4> HIDE DEF e
      <4>3. e \notin Guards(h)
        BY <3>1, Lists
      <4> QED
        BY <4>2, <4>3, <1>1, <1>2
    <3> HIDE DEF e
    <3>3. e \in Inner(k) /\ l \in Inner(k)
      BY <3>1, <3>2, <1>1, <1>2, <1>6
    <3>4. k.sym[e].n = l /\ k.sym[e].s = h.sym[e].s /\ k.sym[l].s = h.sym[l].s
      BY <3>2, <3>3, <2>0, <1>3, <1>7
    <3> QED
      BY <3>1, <3>3, <3>4 DEF Digram
  <2>3. CASE k.table[d] = l /\ d = <<h.sym[l].s, h.sym[right].s>>
    <3>1. l \in Inner(k) /\ right \in Inner(k)
      BY <1>1, <1>2, <1>6
    <3>2. k.sym[l].n = right /\ k.sym[l].s = h.sym[l].s /\ k.sym[right].s = h.sym[right].s
      BY <3>1, <2>0, <1>2, <1>3, <1>7
    <3> QED
      BY <3>1, <3>2, <2>3 DEF Digram
  <2> QED
    BY <2>1, <2>2, <2>3 DEF Entries3
<1>16. Counted(k)
  <2>1. IsFiniteSet(DOMAIN k.sym)
    BY <1>3, FS_Subset DEF Core, Counted
  <2>2. ASSUME NEW r \in DOMAIN k.rule
        PROVE  /\ k.rule[r].users = {b \in DOMAIN k.sym \ Guards(k) : k.sym[b].s = r}
               /\ k.rule[r].count = Cardinality(k.rule[r].users)
    <3>1. r \in DOMAIN h.rule /\ r # v /\ k.rule[r] = h.rule[r]
      BY <1>3
    <3>2. /\ h.rule[r].users = {b \in DOMAIN h.sym \ Guards(h) : h.sym[b].s = r}
          /\ h.rule[r].count = Cardinality(h.rule[r].users)
      BY <3>1 DEF Core, Counted
    <3>3. {b \in DOMAIN h.sym \ Guards(h) : h.sym[b].s = r}
            = {b \in DOMAIN k.sym \ Guards(k) : k.sym[b].s = r}
      BY <3>1, <1>1, <1>3, <1>4
    <3> QED
      BY <3>1, <3>2, <3>3
  <2> QED
    BY <2>1, <2>2 DEF Counted
<1>17. Allocated(k)
  <2>1. Addresses(DOMAIN h.sym, h.free, h.brk) /\ Addresses(DOMAIN h.rule, h.rfree, h.rbrk)
    BY DEF Core, Allocated
  <2>2. /\ Addresses(DOMAIN h.sym \ {G}, h.free, h.brk)
        /\ Addresses(DOMAIN h.sym \ {G}, <<G>> \o h.free, h.brk)
    BY <2>1, <1>1, GiveBack
  <2>3. a \in DOMAIN h.sym \ {G}
    BY <1>1, <1>2
  <2>4. /\ Addresses((DOMAIN h.sym \ {G}) \ {a}, h.free, h.brk)
        /\ Addresses((DOMAIN h.sym \ {G}) \ {a}, <<a>> \o (<<G>> \o h.free), h.brk)
    BY <2>2, <2>3, GiveBack
  <2>5. /\ Addresses(DOMAIN h.rule \ {v}, h.rfree, h.rbrk)
        /\ Addresses(DOMAIN h.rule \ {v}, <<v>> \o h.rfree, h.rbrk)
    BY <2>1, <1>1, GiveBack
  <2>6. (DOMAIN h.sym \ {G}) \ {a} = DOMAIN k.sym
    BY <1>3
  <2>7. Addresses(DOMAIN k.sym, k.free, k.brk)
    BY <2>4, <2>6, <1>3
  <2>8. Addresses(DOMAIN k.rule, k.rfree, k.rbrk)
    BY <2>5, <1>3
  <2> QED
    BY <2>7, <2>8 DEF Allocated
<1>18. Core(k)
  BY <1>8, <1>9, <1>10, <1>13, <1>15, <1>16, <1>17 DEF Core
<1>19. \E e : Ranking(k, e)
  BY <1>14
<1> QED
  BY <1>4, <1>5, <1>6, <1>18, <1>19

-----------------------------------------------------------------------------
(* What holds of the heap between any two calls.                            *)

\* The root is the one node in no list, and stands for the start rule.
Rooted(h) ==
  /\ Root \in DOMAIN h.sym /\ h.sym[Root].s = Start /\ h.sym[Root].owner = Null
  /\ Start \in DOMAIN h.rule
  /\ Linked(h) = DOMAIN h.sym \ {Root}

\* A grammar between two steps.
Sound(h) == Core(h) /\ (\E rk : Ranking(h, rk)) /\ Long(h) /\ Rooted(h)

\* Some node uses rule r; none does.
Used(h, r) == \E c \in DOMAIN h.sym \ Guards(h) : h.sym[c].s = r
Unused(h, r)  == \A c \in DOMAIN h.sym \ Guards(h) : h.sym[c].s # r

\* The digram at m is the body of its rule.
Whole(h, m) == h.sym[m].p \in Guards(h) /\ h.sym[h.sym[m].n].n \in Guards(h)

-----------------------------------------------------------------------------
(* Rules that a change of the heap leaves as they are.                      *)

\* Rule x has the same guard, and its nodes the same links and values.
Alike(h, k, x) ==
  /\ x \in DOMAIN k.rule /\ k.rule[x].guard = h.rule[x].guard
  /\ \A c \in Linked(h) : h.sym[c].owner = x =>
       /\ c \in DOMAIN k.sym
       /\ k.sym[c].n = h.sym[c].n /\ k.sym[c].p = h.sym[c].p /\ k.sym[c].s = h.sym[c].s

\* The ends of such a rule, and its length, are the same.
LEMMA AlikeIs ==
  ASSUME NEW h, Core(h), NEW k, NEW x \in DOMAIN h.rule, Alike(h, k, x)
  PROVE  /\ First(k, x) = First(h, x) /\ Last(k, x) = Last(h, x)
         /\ First(h, x) \in DOMAIN k.sym /\ Last(h, x) \in DOMAIN k.sym
         /\ k.sym[First(k, x)].s = h.sym[First(h, x)].s
         /\ k.sym[Last(k, x)].s = h.sym[Last(h, x)].s
         /\ Pair(h, x) => Pair(k, x)
         /\ LET q == h.rule[x].guard
            IN  /\ k.rule[x].guard = q /\ k.sym[q].n = h.sym[q].n
                /\ k.sym[k.sym[q].n].n = h.sym[h.sym[q].n].n
<1> DEFINE q == h.rule[x].guard
           f == h.sym[q].n
           l == h.sym[f].n
           z == h.sym[q].p
<1>1. q \in Linked(h) /\ h.sym[q].owner = x
  BY GuardNodes
<1> HIDE DEF q
<1>2. f \in Linked(h) /\ h.sym[f].owner = x /\ z \in Linked(h) /\ h.sym[z].owner = x
  BY <1>1, NextNode, PrevNode
<1> HIDE DEF f
<1>3. l \in Linked(h) /\ h.sym[l].owner = x
  BY <1>2, NextNode
<1> USE DEF q, f
<1>4. k.rule[x].guard = q
  BY DEF Alike
<1>5. First(h, x) = f /\ Last(h, x) = z /\ First(k, x) = k.sym[q].n /\ Last(k, x) = k.sym[q].p
  BY <1>4 DEF First, Last
<1>6. Pair(h, x) <=> f # q /\ l # q /\ f # l /\ h.sym[l].n = q
  BY DEF Pair
<1>7. Pair(k, x) <=> LET e == k.sym[q].n
                         d == k.sym[e].n
                     IN  e # q /\ d # q /\ e # d /\ k.sym[d].n = q
  BY <1>4 DEF Pair
<1>8. h.sym[q].n = f /\ h.sym[f].n = l /\ h.sym[q].p = z
  OBVIOUS
<1>9. h.rule[x].guard = q
  OBVIOUS
<1> HIDE DEF q, f, l, z
<1>10. /\ k.sym[q].n = f /\ k.sym[q].p = z /\ k.sym[f].n = l /\ k.sym[l].n = h.sym[l].n
       /\ k.sym[f].s = h.sym[f].s /\ k.sym[z].s = h.sym[z].s
       /\ f \in DOMAIN k.sym /\ z \in DOMAIN k.sym
  BY <1>1, <1>2, <1>3, <1>8 DEF Alike
<1>11. Pair(h, x) => Pair(k, x)
  BY <1>6, <1>7, <1>10
<1> QED
  BY <1>4, <1>5, <1>8, <1>9, <1>10, <1>11

\* What is kept of a rule that is alike in two heaps, one thing at a time.
LEMMA AlikeStart ==
  ASSUME NEW h, Core(h), NEW k, NEW x \in DOMAIN h.rule, Alike(h, k, x),
         NEW q, q = h.rule[x].guard
  PROVE  /\ k.rule[x].guard = q /\ k.sym[q].n = h.sym[q].n
         /\ k.sym[k.sym[q].n].n = h.sym[h.sym[q].n].n
BY AlikeIs

\* Rules alike end with the same node,
LEMMA AlikeLast ==
  ASSUME NEW h, Core(h), NEW k, NEW x \in DOMAIN h.rule, Alike(h, k, x)
  PROVE  Last(k, x) = Last(h, x)
BY AlikeIs

\* and are pairs of the same values.
LEMMA AlikePair ==
  ASSUME NEW h, Core(h), NEW k, NEW x \in DOMAIN h.rule, Alike(h, k, x), Pair(h, x)
  PROVE  /\ Pair(k, x) /\ k.sym[First(k, x)].s = h.sym[First(h, x)].s
         /\ k.sym[Last(k, x)].s = h.sym[Last(h, x)].s
BY AlikeIs

\* Each change of the grammar leaves the other rules alike.
LEMMA ReplacedAlike ==
  ASSUME NEW h, Core(h), NEW a \in Inner(h), h.sym[a].n \in Inner(h), NEW r, NEW B, NEW k,
         Replaced(h, a, r, B, k), NEW x \in DOMAIN h.rule, x # h.sym[a].owner
  PROVE  Alike(h, k, x)
<1> DEFINE Y == h.sym[a].n
           q == h.sym[a].p
           z == h.sym[Y].n
<1>1. a \in Linked(h) /\ Y \in Linked(h) /\ h.sym[Y].owner = h.sym[a].owner
      /\ h.sym[q].owner = h.sym[a].owner /\ h.sym[z].owner = h.sym[a].owner
  <2>1. a \in Linked(h) /\ Y \in Linked(h)
    BY Lists
  <2>2. h.sym[Y].owner = h.sym[a].owner /\ h.sym[q].owner = h.sym[a].owner
        /\ h.sym[z].owner = h.sym[Y].owner
    BY <2>1, Lists
  <2> QED
    BY <2>1, <2>2
<1>2. /\ DOMAIN k.sym = (DOMAIN h.sym \ {a, Y}) \cup {B}
      /\ \A c \in DOMAIN h.sym \ {a, Y} :
           /\ k.sym[c].n = IF c = q THEN B ELSE h.sym[c].n
           /\ k.sym[c].p = IF c = z THEN B ELSE h.sym[c].p
           /\ k.sym[c].s = h.sym[c].s
      /\ DOMAIN k.rule = DOMAIN h.rule
      /\ k.rule[x].guard = h.rule[x].guard
  BY DEF Replaced
<1> HIDE DEF Y, q, z
<1>3. ASSUME NEW c \in Linked(h), h.sym[c].owner = x
      PROVE  /\ c \in DOMAIN k.sym
             /\ k.sym[c].n = h.sym[c].n /\ k.sym[c].p = h.sym[c].p /\ k.sym[c].s = h.sym[c].s
  <2>1. c # a /\ c # Y /\ c # q /\ c # z
    BY <1>1, <1>3
  <2>2. c \in DOMAIN h.sym \ {a, Y}
    BY <2>1, Lists
  <2> QED
    BY <2>1, <2>2, <1>2
<1> QED
  BY <1>2, <1>3 DEF Alike

\* Appending to a rule leaves the others alike,
LEMMA AppendedAlike ==
  ASSUME NEW h, Core(h), NEW r \in DOMAIN h.rule, NEW v, NEW c, NEW k,
         Appended(h, r, v, c, k), NEW x \in DOMAIN h.rule, x # r
  PROVE  Alike(h, k, x)
<1> DEFINE G == h.rule[r].guard
           z == h.sym[G].p
<1>1. h.sym[G].owner = r /\ G \in Linked(h)
  BY GuardNodes
<1>2. h.sym[z].owner = r
  BY <1>1, Lists
<1>3. /\ DOMAIN k.sym = DOMAIN h.sym \cup {c}
      /\ \A e \in DOMAIN h.sym :
           /\ k.sym[e].n = IF e = z THEN c ELSE h.sym[e].n
           /\ k.sym[e].p = IF e = G THEN c ELSE h.sym[e].p
           /\ k.sym[e].s = h.sym[e].s
      /\ DOMAIN k.rule = DOMAIN h.rule
      /\ k.rule[x].guard = h.rule[x].guard
  BY DEF Appended
<1> HIDE DEF G, z
<1>4. ASSUME NEW e \in Linked(h), h.sym[e].owner = x
      PROVE  /\ e \in DOMAIN k.sym
             /\ k.sym[e].n = h.sym[e].n /\ k.sym[e].p = h.sym[e].p /\ k.sym[e].s = h.sym[e].s
  <2>1. e \in DOMAIN h.sym /\ e # G /\ e # z
    BY <1>1, <1>2, <1>4, Lists
  <2> QED
    BY <2>1, <1>3
<1> QED
  BY <1>3, <1>4 DEF Alike

\* as does a new rule,
LEMMA CoinedAlike ==
  ASSUME NEW h, Core(h), NEW a, NEW r, NEW k, Coined(h, a, r, k), NEW x \in DOMAIN h.rule
  PROVE  Alike(h, k, x)
<1>1. \A c \in Linked(h) : c \in DOMAIN h.sym
  BY Lists
<1> QED
  BY <1>1 DEF Coined, Alike

\* and the body of a rule in the place of its use.
LEMMA SplicedAlike ==
  ASSUME NEW h, Core(h),
         NEW a, NEW v, NEW o, NEW left, NEW right, NEW G, NEW f, NEW l,
         Around(h, a, v, o, left, right, G, f, l),
         NEW k, Spliced(h, a, v, left, right, f, l, G, k),
         NEW x \in DOMAIN h.rule, x # o, x # v
  PROVE  Alike(h, k, x)
<1>1. /\ h.sym[G].owner = v /\ h.sym[f].owner = v /\ h.sym[l].owner = v
      /\ h.sym[a].owner = o /\ h.sym[left].owner = o /\ h.sym[right].owner = o
  BY DEF Around
<1>2. /\ DOMAIN k.sym = DOMAIN h.sym \ {G, a}
      /\ \A b \in DOMAIN k.sym :
           /\ k.sym[b].n = IF b = left THEN f ELSE IF b = l THEN right ELSE h.sym[b].n
           /\ k.sym[b].p = IF b = f THEN left ELSE IF b = right THEN l ELSE h.sym[b].p
           /\ k.sym[b].s = h.sym[b].s
      /\ DOMAIN k.rule = DOMAIN h.rule \ {v}
      /\ \A e \in DOMAIN k.rule : k.rule[e] = h.rule[e]
  BY DEF Spliced
<1>3. ASSUME NEW c \in Linked(h), h.sym[c].owner = x
      PROVE  /\ c \in DOMAIN k.sym
             /\ k.sym[c].n = h.sym[c].n /\ k.sym[c].p = h.sym[c].p /\ k.sym[c].s = h.sym[c].s
  <2>1. c \in DOMAIN h.sym /\ c \notin {G, f, l, a, left, right}
    BY <1>1, <1>3, Lists
  <2> QED
    BY <2>1, <1>2
<1> QED
  BY <1>2, <1>3 DEF Alike

\* k is h with the digram at a replaced by rule r, which stands for it.
Swaps(h, a, r, k) ==
  /\ a \in Inner(h) /\ h.sym[a].n \in Inner(h) /\ r \in DOMAIN h.rule \ {Start} /\ Pair(h, r)
  /\ h.sym[a].s = h.sym[First(h, r)].s /\ h.sym[h.sym[a].n].s = h.sym[Last(h, r)].s
  /\ r # h.sym[a].owner
  /\ \E B : Replaced(h, a, r, B, k)

\* The nodes of a rule of two symbols.
LEMMA PairNodes ==
  ASSUME NEW h, Core(h), NEW r \in DOMAIN h.rule, Pair(h, r)
  PROVE  /\ First(h, r) \in Inner(h) /\ h.sym[First(h, r)].owner = r
         /\ Last(h, r) \in Inner(h) /\ h.sym[Last(h, r)].owner = r
         /\ h.sym[First(h, r)].n = Last(h, r) /\ First(h, r) # Last(h, r)
         /\ h.sym[First(h, r)].p = h.rule[r].guard /\ h.sym[Last(h, r)].n = h.rule[r].guard
         /\ \A c \in Inner(h) : h.sym[c].owner = r => c = First(h, r) \/ c = Last(h, r)
<1> DEFINE q == h.rule[r].guard
           f == h.sym[q].n
           l == h.sym[f].n
<1>1. q \in Linked(h) /\ h.sym[q].owner = r /\ h.sym[q].s = r /\ q \in Guards(h)
  BY GuardNodes
<1>2. f \in Linked(h) /\ h.sym[f].owner = r /\ h.sym[f].p = q
  BY <1>1, Lists
<1>3. l \in Linked(h) /\ h.sym[l].owner = r
  BY <1>2, Lists
<1>4. f # q /\ l # q /\ f # l /\ h.sym[l].n = q
  BY Zenon DEF Pair
<1>5. h.sym[q].p = l
  <2>1. h.sym[h.sym[l].n].p = l
    BY Zenon, <1>3, Lists
  <2> QED
    BY Zenon, <2>1, <1>4
<1>6. First(h, r) = f /\ Last(h, r) = l
  BY <1>5 DEF First, Last
<1>7. \A c \in Guards(h) : h.sym[c].owner = r => c = q
  BY GuardNodes
<1>8. h.sym[q].n = f /\ h.sym[f].n = l /\ h.rule[r].guard = q
  OBVIOUS
<1> HIDE DEF q, f, l
<1>9. f \notin Guards(h) /\ l \notin Guards(h)
  BY <1>2, <1>3, <1>4, <1>7
<1>10. f \in Inner(h) /\ l \in Inner(h)
  BY <1>2, <1>3, <1>9, Lists
<1>11. \A c \in Linked(h) : h.sym[c].owner = r => c \in {q, f, l}
  <2> DEFINE T == {q, f, l}
  <2>1. T \subseteq Linked(h) /\ h.rule[r].guard \in T
    BY <1>1, <1>2, <1>3, <1>8
  <2>2. \A c \in T : h.sym[c].owner = r => h.sym[c].n \in T
    BY <1>8, <1>4
  <2> HIDE DEF T
  <2>3. Forward(h)
    BY DEF Core
  <2>4. \A c \in Linked(h) : h.sym[c].owner = r => c \in T
    BY <2>1, <2>2, <2>3, Forwards
  <2> QED
    BY <2>4 DEF T
<1>12. \A c \in Inner(h) : c \in Linked(h) /\ c # q
  BY <1>1, Lists
<1> QED
  BY <1>2, <1>3, <1>4, <1>6, <1>8, <1>10, <1>11, <1>12

-----------------------------------------------------------------------------
(* Each change of the heap keeps it sound, and every rule used.             *)

\* Every rule but the start rule has a use.
AllUsed(h) == \A r \in DOMAIN h.rule \ {Start} : Used(h, r)

\* Rules of two symbols or more stay so when they are alike or made so.
LEMMA LongKept ==
  ASSUME NEW h, Core(h), Long(h), NEW k,
         \A x \in DOMAIN k.rule \ {Start} :
            \/ x \in DOMAIN h.rule /\ Alike(h, k, x)
            \/ LET q == k.rule[x].guard IN k.sym[q].n # q /\ k.sym[k.sym[q].n].n # q
  PROVE  Long(k)
<1> SUFFICES ASSUME NEW x \in DOMAIN k.rule \ {Start},
                    x \in DOMAIN h.rule /\ Alike(h, k, x)
             PROVE  LET q == k.rule[x].guard
                    IN  k.sym[q].n # q /\ k.sym[k.sym[q].n].n # q
  BY DEF Long
<1> DEFINE q == h.rule[x].guard
<1>1. h.sym[q].n # q /\ h.sym[h.sym[q].n].n # q
  BY DEF Long
<1>2. k.rule[x].guard = q /\ k.sym[q].n = h.sym[q].n /\ k.sym[k.sym[q].n].n = h.sym[h.sym[q].n].n
  BY AlikeStart
<1> HIDE DEF q
<1> QED
  BY <1>1, <1>2

\* A value appended to the start rule.
LEMMA AppendedSound ==
  ASSUME NEW h, Sound(h), NEW v, NEW c, NEW k, Core(k), NEW rk, Ranking(k, rk),
         Appended(h, Start, v, c, k)
  PROVE  Sound(k) /\ (AllUsed(h) => AllUsed(k))
<1>1. Core(h) /\ Long(h) /\ Rooted(h)
  BY DEF Sound
<1>2. Start \in DOMAIN h.rule
  BY <1>1 DEF Rooted
<1>3. /\ DOMAIN k.rule = DOMAIN h.rule /\ Guards(k) = Guards(h)
      /\ DOMAIN k.sym = DOMAIN h.sym \cup {c} /\ Linked(k) = Linked(h) \cup {c}
      /\ c \notin DOMAIN h.sym
      /\ \A x \in DOMAIN h.sym : k.sym[x].s = h.sym[x].s /\ k.sym[x].owner = h.sym[x].owner
  BY DEF Appended
<1>4. Long(k)
  <2>1. \A x \in DOMAIN k.rule \ {Start} : x \in DOMAIN h.rule /\ Alike(h, k, x)
    BY <1>1, <1>2, <1>3, AppendedAlike
  <2> QED
    BY <2>1, <1>1, LongKept
<1>5. Rooted(k)
  BY <1>1, <1>3 DEF Rooted
<1>6. AllUsed(h) => AllUsed(k)
  BY <1>3 DEF AllUsed, Used
<1> QED
  BY <1>4, <1>5, <1>6 DEF Sound

\* A new rule, which nothing uses yet.
LEMMA CoinedSound ==
  ASSUME NEW h, Sound(h), AllUsed(h), NEW a, NEW r, NEW k, Core(k), NEW rk, Ranking(k, rk),
         Coined(h, a, r, k)
  PROVE  /\ Sound(k) /\ \A x \in DOMAIN k.rule \ {Start} : x # r => Used(k, x)
         /\ Unused(k, r) /\ r # Start
<1>1. Core(h) /\ Long(h) /\ Rooted(h)
  BY DEF Sound
<1>2. Start \in DOMAIN h.rule
  BY <1>1 DEF Rooted
<1>3. /\ r \notin DOMAIN h.rule /\ DOMAIN k.rule = DOMAIN h.rule \cup {r}
      /\ DOMAIN h.sym \subseteq DOMAIN k.sym
      /\ Linked(h) \subseteq Linked(k)
      /\ \A x \in DOMAIN h.sym :
           /\ k.sym[x].n = h.sym[x].n
           /\ k.sym[x].s = h.sym[x].s /\ k.sym[x].owner = h.sym[x].owner
      /\ Pair(k, r)
      /\ \A x \in DOMAIN k.sym \ DOMAIN h.sym : x \in Linked(k)
      /\ \A x \in Inner(k) : k.sym[x].s # r
      /\ \A x \in Guards(k) : x \in Guards(h) \/ x \notin DOMAIN h.sym
  BY DEF Coined
<1>4. Long(k)
  <2>1. \A x \in DOMAIN h.rule : Alike(h, k, x)
    BY <1>1, CoinedAlike
  <2>2. LET q == k.rule[r].guard IN k.sym[q].n # q /\ k.sym[k.sym[q].n].n # q
    BY Zenon, <1>3 DEF Pair
  <2> QED
    BY Zenon, <2>1, <2>2, <1>1, <1>3, LongKept
<1>5. Rooted(k)
  <2>1. Root \in DOMAIN k.sym /\ k.sym[Root].s = Start /\ k.sym[Root].owner = Null
        /\ Start \in DOMAIN k.rule
    BY <1>1, <1>3 DEF Rooted
  <2>2. Root \notin Linked(k)
    BY <1>1, <1>3 DEF Rooted, Linked
  <2>3. \A x \in DOMAIN k.sym \ {Root} : x \in Linked(k)
    BY <1>1, <1>3 DEF Rooted
  <2>4. Linked(k) \subseteq DOMAIN k.sym
    BY DEF Linked
  <2> QED
    BY <2>1, <2>2, <2>3, <2>4 DEF Rooted
<1>6. \A x \in DOMAIN k.rule \ {Start} : x # r => Used(k, x)
  BY <1>3 DEF AllUsed, Used
<1>7. ASSUME NEW x \in DOMAIN k.sym \ Guards(k) PROVE k.sym[x].s # r
  <2>1. CASE x = Root
    BY <2>1, <1>2, <1>3, <1>5 DEF Rooted
  <2>2. CASE x # Root
    <3>1. x \in Inner(k)
      BY <2>2, <1>5 DEF Rooted, Inner
    <3> QED
      BY <3>1, <1>3
  <2> QED
    BY <2>1, <2>2
<1> QED
  BY <1>2, <1>3, <1>4, <1>5, <1>6, <1>7 DEF Sound, Unused

\* A digram replaced by a rule of two symbols that stands for it, unless that
\* leaves a rule of one symbol.
LEMMA ReplacedSound ==
  ASSUME NEW h, Sound(h), NEW a \in Inner(h), h.sym[a].n \in Inner(h),
         NEW r \in DOMAIN h.rule \ {Start}, Pair(h, r), r # h.sym[a].owner,
         h.sym[a].s = h.sym[First(h, r)].s, h.sym[h.sym[a].n].s = h.sym[Last(h, r)].s,
         h.sym[a].owner = Start \/ ~Whole(h, a),
         \A x \in DOMAIN h.rule \ {Start} : x = r \/ Used(h, x),
         NEW B, NEW k, Core(k), NEW rk, Ranking(k, rk), Replaced(h, a, r, B, k)
  PROVE  Sound(k) /\ AllUsed(k)
<1> DEFINE Y == h.sym[a].n
           p == h.sym[a].p
           z == h.sym[Y].n
           o == h.sym[a].owner
<1>1. Core(h) /\ Long(h) /\ Rooted(h)
  BY DEF Sound
<1>2. /\ B \notin DOMAIN h.sym
      /\ DOMAIN k.sym = (DOMAIN h.sym \ {a, Y}) \cup {B}
      /\ \A c \in DOMAIN h.sym \ {a, Y} :
           /\ k.sym[c].n = IF c = p THEN B ELSE h.sym[c].n
           /\ k.sym[c].p = IF c = z THEN B ELSE h.sym[c].p
           /\ k.sym[c].s = h.sym[c].s /\ k.sym[c].owner = h.sym[c].owner
      /\ k.sym[B].n = z /\ k.sym[B].p = p /\ k.sym[B].s = r
      /\ DOMAIN k.rule = DOMAIN h.rule
      /\ \A x \in DOMAIN h.rule : k.rule[x].guard = h.rule[x].guard
      /\ Guards(k) = Guards(h)
      /\ Linked(k) = (Linked(h) \ {a, Y}) \cup {B}
      /\ Inner(k) = (Inner(h) \ {a, Y}) \cup {B}
  BY DEF Replaced
<1>3. /\ a \in Linked(h) /\ Y \in Linked(h) /\ h.sym[Y].p = a
      /\ p \in Linked(h) /\ h.sym[p].n = a /\ z \in Linked(h)
      /\ a \notin Guards(h) /\ Y \notin Guards(h) /\ Y \in Inner(h)
  <2>1. a \in Linked(h) /\ Y \in Linked(h) /\ a \notin Guards(h) /\ Y \notin Guards(h)
    BY <1>1, Lists
  <2> QED
    BY <2>1, <1>1, Lists
<1>4. o \in DOMAIN h.rule
  BY <1>1, Neighbours
<1>5. \A x \in DOMAIN h.rule : x # o => Alike(h, k, x)
  BY <1>1, ReplacedAlike
<1>6. Whole(h, a) <=> p \in Guards(h) /\ z \in Guards(h)
  BY DEF Whole
<1>7. h.sym[a].owner = o /\ h.sym[a].n = Y
  OBVIOUS
<1> HIDE DEF Y, p, z, o
<1>8. ASSUME o # Start
      PROVE  LET q == k.rule[o].guard IN k.sym[q].n # q /\ k.sym[k.sym[q].n].n # q
  <2> DEFINE q == h.rule[o].guard
             f == h.sym[q].n
  <2>1. q \in Guards(h) /\ q \in Linked(h) /\ q \in DOMAIN h.sym
    BY <1>1, <1>4, GuardNodes
  <2>2. f # q /\ h.sym[f].n # q
    BY <1>1, <1>4, <1>8 DEF Long
  <2>3. f \in Linked(h) /\ f \in DOMAIN h.sym /\ h.sym[f].p = q
    BY <2>1, <1>1, Lists
  <2>4. k.rule[o].guard = q
    BY <1>2, <1>4
  <2>5. h.sym[q].n = f
    OBVIOUS
  <2> HIDE DEF q, f
  <2>6. q # a /\ q # Y /\ q # B
    BY <2>1, <1>2, <1>3
  <2>7. k.sym[q].n = IF q = p THEN B ELSE f
    BY <2>1, <2>5, <2>6, <1>2
  <2>8. CASE q = p
    <3>1. z \notin Guards(h)
      BY <2>1, <2>8, <1>6, <1>7, <1>8
    <3> QED
      BY <3>1, <2>1, <2>4, <2>6, <2>7, <2>8, <1>2
  <2>9. CASE q # p
    <3>1. f # a
      BY <2>3, <2>9, <1>3 DEF p
    <3>2. f # Y
      BY <2>3, <2>6, <1>3
    <3>3. k.sym[f].n = IF f = p THEN B ELSE h.sym[f].n
      BY <2>3, <3>1, <3>2, <1>2
    <3> QED
      BY <3>3, <2>2, <2>4, <2>6, <2>7, <2>9
  <2> QED
    BY <2>8, <2>9
<1>9. Long(k)
  <2>1. ASSUME NEW x \in DOMAIN k.rule \ {Start}
        PROVE  \/ x \in DOMAIN h.rule /\ Alike(h, k, x)
               \/ LET q == k.rule[x].guard IN k.sym[q].n # q /\ k.sym[k.sym[q].n].n # q
    <3>1. CASE x = o
      BY <3>1, <2>1, <1>8
    <3>2. CASE x # o
      BY <3>2, <1>2, <1>5
    <3> QED
      BY <3>1, <3>2
  <2> QED
    BY Zenon, <2>1, <1>1, LongKept
<1>10. Rooted(k)
  <2>1. Root \in DOMAIN h.sym /\ Root \notin Linked(h) /\ Linked(h) = DOMAIN h.sym \ {Root}
    BY <1>1 DEF Rooted
  <2>2. Root # a /\ Root # Y /\ Root # B
    BY <2>1, <1>2, <1>3
  <2> QED
    BY <2>1, <2>2, <1>1, <1>2 DEF Rooted
<1>11. ASSUME NEW x \in DOMAIN k.rule \ {Start}
       PROVE  Used(k, x)
  <2>1. CASE x = r
    <3>1. B \in DOMAIN k.sym /\ B \notin Guards(k)
      BY <1>1, <1>2, <1>3, GuardNodes
    <3> QED
      BY <2>1, <3>1, <1>2 DEF Used
  <2>2. CASE x # r
    <3>1. PICK c \in DOMAIN h.sym \ Guards(h) : h.sym[c].s = x
      BY <2>2, <1>2 DEF Used
    <3>2. CASE c \notin {a, Y}
      BY <3>1, <3>2, <1>2 DEF Used
    <3>3. CASE c \in {a, Y}
      <4>1. /\ First(h, r) \in Inner(h) /\ h.sym[First(h, r)].owner = r
            /\ Last(h, r) \in Inner(h) /\ h.sym[Last(h, r)].owner = r
        BY <1>1, PairNodes
      <4>2. h.sym[Y].owner = o
        BY <1>1, <1>3, <1>7, Lists
      <4>3. \A d : d \in {First(h, r), Last(h, r)} =>
               d \in DOMAIN k.sym \ Guards(k) /\ k.sym[d].s = h.sym[d].s
        <5> SUFFICES ASSUME NEW d, d \in {First(h, r), Last(h, r)}
                     PROVE  d \in DOMAIN k.sym \ Guards(k) /\ k.sym[d].s = h.sym[d].s
          OBVIOUS
        <5>1. d \in Inner(h) /\ h.sym[d].owner = r
          BY <4>1
        <5>2. d \in DOMAIN h.sym /\ d \notin Guards(h)
          BY <5>1, <1>1, Lists
        <5>3. d # a /\ d # Y
          BY <5>1, <4>2, <1>7
        <5> QED
          BY <5>2, <5>3, <1>2
      <4>4. x = h.sym[First(h, r)].s \/ x = h.sym[Last(h, r)].s
        BY <3>1, <3>3, <1>7
      <4> QED
        BY <4>3, <4>4 DEF Used
    <3> QED
      BY <3>2, <3>3
  <2> QED
    BY <2>1, <2>2
<1>12. AllUsed(k)
  BY <1>11 DEF AllUsed
<1> QED
  BY <1>9, <1>10, <1>12 DEF Sound

\* The body of v in the place of its only user.
LEMMA SplicedSound ==
  ASSUME NEW h, Sound(h), AllUsed(h),
         NEW a, NEW v, NEW o, NEW left, NEW right, NEW G, NEW f, NEW l,
         Around(h, a, v, o, left, right, G, f, l),
         NEW k, Core(k), NEW rk, Ranking(k, rk),
         Guards(k) = Guards(h) \ {G}, Linked(k) = Linked(h) \ {G, a},
         Spliced(h, a, v, left, right, f, l, G, k)
  PROVE  Sound(k) /\ AllUsed(k)
<1>1. Core(h) /\ Long(h) /\ Rooted(h)
  BY DEF Sound
<1>2. /\ DOMAIN k.sym = DOMAIN h.sym \ {G, a}
      /\ \A b \in DOMAIN k.sym :
           /\ k.sym[b].n = IF b = left THEN f ELSE IF b = l THEN right ELSE h.sym[b].n
           /\ k.sym[b].s = h.sym[b].s
           /\ k.sym[b].owner = IF b \in InnerOf(h, v) THEN h.sym[a].owner ELSE h.sym[b].owner
      /\ DOMAIN k.rule = DOMAIN h.rule \ {v}
      /\ \A e \in DOMAIN k.rule : k.rule[e] = h.rule[e]
  BY DEF Spliced
<1>3. /\ v # o /\ v \in DOMAIN h.rule /\ o \in DOMAIN h.rule /\ v # Start
      /\ {a, left, right, G, f, l} \subseteq Linked(h)
      /\ {a, left, right, G, f, l} \subseteq DOMAIN h.sym
      /\ left = h.rule[o].guard /\ G = h.rule[v].guard /\ G \in Guards(h) /\ left \in Guards(h)
      /\ h.sym[a].s = v /\ h.sym[left].s = o /\ h.sym[G].s = v
      /\ h.sym[left].owner = o /\ h.sym[G].owner = v /\ h.sym[f].owner = v /\ f \in Inner(h)
      /\ f # l /\ h.sym[f].n # G /\ a # left /\ a \in Inner(h)
  BY DEF Around
<1>4. \A x \in DOMAIN h.rule : x # o /\ x # v => Alike(h, k, x)
  BY <1>1, SplicedAlike
<1>5. k.sym[k.rule[o].guard].n # k.rule[o].guard
      /\ k.sym[k.sym[k.rule[o].guard].n].n # k.rule[o].guard
  <2>1. k.rule[o].guard = left
    BY <1>2, <1>3
  <2>2. left \in DOMAIN k.sym /\ left # f /\ f \in DOMAIN k.sym
    <3>1. f # G /\ left # f /\ a # f
      <4>1. f \notin Guards(h)
        BY <1>1, <1>3, InnerNode
      <4>2. h.sym[a].owner = o
        BY DEF Around
      <4> QED
        BY <4>1, <4>2, <1>3
    <3>2. left # G
      BY <1>3
    <3> QED
      BY <3>1, <3>2, <1>2, <1>3
  <2>3. k.sym[left].n = f /\ k.sym[f].n = h.sym[f].n
    BY <2>2, <1>2, <1>3
  <2>4. h.sym[h.sym[f].n].owner = v
    BY <1>1, <1>3, Lists
  <2>5. h.sym[f].n # left
    BY <2>4, <1>3
  <2> QED
    BY <2>1, <2>2, <2>3, <2>5
<1>6. Long(k)
  BY Zenon, <1>1, <1>2, <1>4, <1>5, LongKept
<1>7. Rooted(k)
  <2>1. /\ Root \in DOMAIN h.sym /\ Root \notin Linked(h) /\ Linked(h) = DOMAIN h.sym \ {Root}
        /\ h.sym[Root].s = Start /\ h.sym[Root].owner = Null /\ Start \in DOMAIN h.rule
    BY <1>1 DEF Rooted
  <2>2. Root # G /\ Root # a
    BY <2>1, <1>3
  <2>3. Root \notin InnerOf(h, v)
    BY <2>1 DEF InnerOf, Inner
  <2> QED
    BY <2>1, <2>2, <2>3, <1>2, <1>3 DEF Rooted
<1>8. AllUsed(k)
  <2> SUFFICES ASSUME NEW x \in DOMAIN h.rule \ {Start}, x # v PROVE Used(k, x)
    BY <1>2 DEF AllUsed
  <2>1. PICK c \in DOMAIN h.sym \ Guards(h) : h.sym[c].s = x
    BY DEF AllUsed, Used
  <2>2. c # a /\ c # G
    BY <2>1, <1>3
  <2> QED
    BY <2>1, <2>2, <1>2 DEF Used
<1> QED
  BY <1>6, <1>7, <1>8 DEF Sound

-----------------------------------------------------------------------------
(* How long the rules are.                                                  *)

\* A rule has as many symbols as nodes.
LEMMA BodyLength ==
  ASSUME NEW h, Core(h), NEW r \in DOMAIN h.rule
  PROVE  IsFiniteSet(InnerOf(h, r)) /\ Len(Body(h, r)) = Cardinality(InnerOf(h, r))
<1> DEFINE N == Linked(h)
           G == h.rule[r].guard
           s == Body(h, r)
           S == InnerOf(h, r)
<1>1. PICK F : /\ \A a \in Linked(h) :
                     F[a] = IF a \in Guards(h) THEN <<>> ELSE <<a>> \o F[h.sym[a].n]
               /\ \A q : Body(h, q) = F[First(h, q)]
  BY BodyUnfolds
<1> DEFINE T == {a \in N : F[a] \in Seq(N) /\ \A i \in 1 .. Len(F[a]) :
                             F[a][i] \in N /\ Len(F[F[a][i]]) = Len(F[a]) - i + 1}
<1>2. G \in T
  <2>1. G \in N /\ F[G] = <<>>
    BY <1>1, GuardNodes
  <2>2. <<>> \in Seq(N) /\ Len(<<>>) = 0
    BY EmptySeq
  <2>3. F[G] \in Seq(N) /\ Len(F[G]) = 0
    BY <2>1, <2>2
  <2> HIDE DEF G
  <2>4. 1 .. Len(F[G]) = {}
    BY <2>3
  <2> QED
    BY <2>1, <2>3, <2>4
<1>3. ASSUME NEW a \in T
      PROVE  h.sym[a].p \in T
  <2> DEFINE q == h.sym[a].p
             t == F[a]
             u == F[q]
  <2>1. q \in N /\ h.sym[q].n = a
    BY PrevNode
  <2>2. CASE q \in Guards(h)
    <3>1. u = <<>>
      BY <2>1, <2>2, <1>1
    <3>2. <<>> \in Seq(N) /\ Len(<<>>) = 0
      BY EmptySeq
    <3>3. u \in Seq(N) /\ Len(u) = 0
      BY <3>1, <3>2
    <3>4. 1 .. Len(u) = {}
      BY <3>3
    <3> HIDE DEF q
    <3> QED
      BY <2>1, <3>3, <3>4 DEF q
  <2>3. CASE q \notin Guards(h)
    <3>1. u = <<q>> \o t
      BY <2>1, <2>3, <1>1
    <3>2. /\ t \in Seq(N) /\ Len(t) \in Nat
          /\ \A i \in 1 .. Len(t) : t[i] \in N /\ Len(F[t[i]]) = Len(t) - i + 1
      BY LenProperties
    <3>3. /\ u \in Seq(N) /\ Len(u) = Len(t) + 1 /\ u[1] = q
          /\ \A i \in 2 .. Len(t) + 1 : u[i] = t[i - 1]
      BY <2>1, <3>1, <3>2, Cons
    <3>4. u = F[q]
      OBVIOUS
    <3> HIDE DEF q, t, u
    <3>5. ASSUME NEW i \in 1 .. Len(u)
          PROVE  u[i] \in N /\ Len(F[u[i]]) = Len(u) - i + 1
      <4>1. CASE i = 1
        BY <4>1, <2>1, <3>2, <3>3, <3>4
      <4>2. CASE i # 1
        <5>1. i \in 2 .. Len(t) + 1 /\ i - 1 \in 1 .. Len(t) /\ i \in Int
          BY <4>2, <3>2, <3>3
        <5>2. u[i] = t[i - 1] /\ u[i] \in N /\ Len(F[t[i - 1]]) = Len(t) - (i - 1) + 1
          BY <5>1, <3>2, <3>3
        <5>3. Len(t) - (i - 1) + 1 = Len(u) - i + 1
          BY <5>1, <3>2, <3>3
        <5> QED
          BY <5>2, <5>3
      <4> QED
        BY <4>1, <4>2
    <3>6. q \in N /\ F[q] \in Seq(N) /\ \A i \in 1 .. Len(F[q]) :
             F[q][i] \in N /\ Len(F[F[q][i]]) = Len(F[q]) - i + 1
      BY <2>1, <3>3, <3>4, <3>5
    <3> QED
      BY <3>6 DEF q
  <2> QED
    BY <2>2, <2>3
<1>4. Backward(h) /\ T \subseteq Linked(h)
  BY DEF Core
<1>5. First(h, r) \in T
  <2>1. First(h, r) \in Linked(h) /\ h.sym[First(h, r)].owner = r
    BY GuardNodes, NextNode DEF First
  <2> HIDE DEF T
  <2> QED
    BY <2>1, <1>2, <1>3, <1>4, Backwards
<1>6. s = F[First(h, r)]
  BY <1>1
<1>7. s \in Seq(N) /\ \A i \in 1 .. Len(s) : Len(F[s[i]]) = Len(s) - i + 1
  BY <1>5, <1>6
<1>8. s \in Seq(S) /\ RangeOf(s) = S
  BY BodyIs DEF NodesOf, RangeOf
<1> HIDE DEF s, S, T, N
<1>9. Len(s) \in Nat /\ DOMAIN s = 1 .. Len(s) /\ s \in [1 .. Len(s) -> S]
  BY <1>8, LenProperties
<1>10. ASSUME NEW i \in 1 .. Len(s), NEW j \in 1 .. Len(s), s[i] = s[j]
       PROVE  i = j
  <2>1. Len(s) - i + 1 = Len(s) - j + 1
    BY <1>7, <1>10
  <2> QED
    BY <2>1, <1>9
<1>11. s \in Bijection(1 .. Len(s), S)
  <2>1. s \in Injection(1 .. Len(s), S)
    BY <1>9, <1>10 DEF Injection, IsInjective
  <2>2. s \in Surjection(1 .. Len(s), S)
    BY <1>8, <1>9 DEF Surjection, RangeOf
  <2> QED
    BY <2>1, <2>2 DEF Bijection
<1>12. IsFiniteSet(1 .. Len(s)) /\ Cardinality(1 .. Len(s)) = Len(s)
  <2>1. 1 \in Int /\ Len(s) \in Int
    BY <1>9
  <2>2. /\ IsFiniteSet(1 .. Len(s))
        /\ Cardinality(1 .. Len(s)) = IF 1 > Len(s) THEN 0 ELSE Len(s) - 1 + 1
    BY <2>1, FS_Interval
  <2> QED
    BY <2>2, <1>9
<1> QED
  BY <1>11, <1>12, FS_Bijection DEF ExistsBijection, s, S

\* A rule that is alike in two heaps has the same nodes.
LEMMA AlikeInner ==
  ASSUME NEW h, Core(h), NEW k, Core(k), NEW x \in DOMAIN h.rule, Alike(h, k, x)
  PROVE  InnerOf(k, x) = InnerOf(h, x)
<1> DEFINE G == h.rule[x].guard
           V == {c \in Linked(h) : c \in Linked(k) /\ k.sym[c].owner = x}
           W == {c \in Linked(k) : c \in Linked(h) /\ h.sym[c].owner = x}
<1>1. /\ x \in DOMAIN k.rule /\ k.rule[x].guard = G
      /\ \A c \in Linked(h) : h.sym[c].owner = x => k.sym[c].n = h.sym[c].n
  BY DEF Alike
<1>2. /\ G \in Linked(h) /\ h.sym[G].owner = x /\ G \in Linked(k) /\ k.sym[G].owner = x
      /\ \A c \in Linked(h) : h.sym[c].owner = x => (c \in Guards(h) <=> c = G)
      /\ \A c \in Linked(k) : k.sym[c].owner = x => (c \in Guards(k) <=> c = G)
  BY <1>1, GuardNodes
<1> HIDE DEF G
<1>3. \A c \in Linked(h) : h.sym[c].owner = x => c \in V
  <2>1. ASSUME NEW c \in V, h.sym[c].owner = x
        PROVE  h.sym[c].n \in V
    <3>1. k.sym[c].n = h.sym[c].n
      BY <2>1, <1>1
    <3>2. h.sym[c].n \in Linked(h) /\ k.sym[c].n \in Linked(k) /\ k.sym[k.sym[c].n].owner = x
      BY NextNode
    <3> QED
      BY <3>1, <3>2
  <2>2. G \in V /\ V \subseteq Linked(h) /\ Forward(h)
    BY <1>2 DEF Core
  <2> HIDE DEF V
  <2> QED
    BY <2>1, <2>2, Forwards DEF G
<1>4. \A c \in Linked(k) : k.sym[c].owner = x => c \in W
  <2>1. ASSUME NEW c \in W, k.sym[c].owner = x
        PROVE  k.sym[c].n \in W
    <3>1. k.sym[c].n = h.sym[c].n
      BY <2>1, <1>1
    <3>2. k.sym[c].n \in Linked(k) /\ h.sym[c].n \in Linked(h) /\ h.sym[h.sym[c].n].owner = x
      BY NextNode
    <3> QED
      BY <3>1, <3>2
  <2>2. k.rule[x].guard \in W /\ W \subseteq Linked(k) /\ Forward(k)
    BY <1>1, <1>2 DEF Core
  <2> HIDE DEF W
  <2> QED
    BY <2>1, <2>2, <1>1, Forwards
<1> QED
  BY <1>2, <1>3, <1>4 DEF InnerOf, Inner

\* Nor does its length change.
LEMMA AlikeLength ==
  ASSUME NEW h, Core(h), NEW k, Core(k), NEW x \in DOMAIN h.rule, Alike(h, k, x)
  PROVE  Len(Body(k, x)) = Len(Body(h, x))
<1>1. x \in DOMAIN k.rule
  BY DEF Alike
<1> QED
  BY <1>1, BodyLength, AlikeInner

\* A heap with the same lists has rules of the same length.
LEMMA SameLength ==
  ASSUME NEW h, Core(h), NEW k, Core(k), SameLists(h, k), NEW x \in DOMAIN h.rule
  PROVE  Len(Body(k, x)) = Len(Body(h, x))
<1>1. \A c \in Linked(h) : c \in DOMAIN h.sym
  BY Lists
<1>2. Alike(h, k, x)
  BY <1>1 DEF Alike, SameLists
<1> QED
  BY <1>2, AlikeLength

\* Replacing a digram takes a symbol off its rule, and off no other.
LEMMA SwapsLength ==
  ASSUME NEW h, Core(h), NEW k, Core(k), NEW a, NEW r, Swaps(h, a, r, k), NEW x \in DOMAIN h.rule
  PROVE  /\ Len(Body(h, x)) \in Nat
         /\ Len(Body(k, x)) = Len(Body(h, x)) - (IF h.sym[a].owner = x THEN 1 ELSE 0)
<1> DEFINE Y == h.sym[a].n
           S == InnerOf(h, x)
<1>1. a \in Inner(h) /\ Y \in Inner(h)
  BY DEF Swaps
<1>2. PICK B : Replaced(h, a, r, B, k)
  BY DEF Swaps
<1>3. IsFiniteSet(S) /\ Len(Body(h, x)) = Cardinality(S) /\ Cardinality(S) \in Nat
  BY BodyLength, FS_CardinalityType
<1>4. CASE h.sym[a].owner # x
  <2>1. Alike(h, k, x)
    BY <1>1, <1>2, <1>4, ReplacedAlike
  <2> QED
    BY <2>1, <1>3, <1>4, AlikeLength
<1>5. CASE h.sym[a].owner = x
  <2>1. a \in S /\ Y \in S /\ Y # a
    BY <1>1, <1>5, Neighbours DEF InnerOf
  <2>2. /\ Inner(k) = (Inner(h) \ {a, Y}) \cup {B} /\ B \notin DOMAIN h.sym
        /\ k.sym[B].owner = x /\ x \in DOMAIN k.rule
        /\ \A c \in DOMAIN h.sym \ {a, Y} : k.sym[c].owner = h.sym[c].owner
    BY <1>2, <1>5 DEF Replaced
  <2>3. \A c \in Inner(h) : c \in DOMAIN h.sym
    BY InnerNode
  <2> HIDE DEF Y
  <2>4. InnerOf(k, x) = ((S \ {a}) \ {Y}) \cup {B} /\ B \notin S
    BY <2>2, <2>3 DEF InnerOf
  <2> HIDE DEF S
  <2>5. IsFiniteSet(S \ {a}) /\ Cardinality(S \ {a}) = Cardinality(S) - 1
    BY <2>1, <1>3, FS_RemoveElement
  <2>6. IsFiniteSet((S \ {a}) \ {Y}) /\ Cardinality((S \ {a}) \ {Y}) = Cardinality(S) - 1 - 1
    BY <2>1, <2>5, FS_RemoveElement
  <2> DEFINE P == (S \ {a}) \ {Y}
  <2>7. B \notin P /\ IsFiniteSet(P) /\ Cardinality(P) = Cardinality(S) - 1 - 1
        /\ InnerOf(k, x) = P \cup {B}
    BY <2>4, <2>6
  <2> HIDE DEF P
  <2>8. Cardinality(InnerOf(k, x)) = Cardinality(S) - 1 - 1 + 1
    BY <2>7, FS_AddElement
  <2>9. Len(Body(k, x)) = Cardinality(InnerOf(k, x))
    BY <2>2, BodyLength
  <2> QED
    BY <2>8, <2>9, <1>3, <1>5
<1> QED
  BY <1>4, <1>5

=============================================================================
