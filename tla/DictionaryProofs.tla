--------------------------- MODULE DictionaryProofs ---------------------------
(***************************************************************************)
(* The dictionary is well typed, gives no identifier twice, writes every   *)
(* new entry that a call records while the file is open, and implements a  *)
(* map, of which the file is a part, whatever sequences are inserted in    *)
(* whatever order, and whatever the memory of new nodes holds.             *)
(***************************************************************************)
EXTENDS DictionaryProperties, FiniteSetTheorems, SequenceTheorems,
        WellFoundedInduction, TLAPS

\* A node of a tree of n nodes in which the identifiers below k are given out.
NodeIn(n, k) ==
  [letter : Letters, index : 0 .. k - 1, parent : 0 .. n,
   first_child : 0 .. n \cup {Wild}, last_child : 0 .. n \cup {Wild},
   next_sibling : 0 .. n \cup {Wild}]

EntryType == [id : Nat, seq : Sequence]

-----------------------------------------------------------------------------
(* Nodes and trees, as values.                                             *)

\* A node stays a node of a tree that has grown.
LEMMA NodeStays ==
  ASSUME NEW n \in Nat, NEW k \in Nat, NEW m \in Nat, NEW j \in Nat,
         n <= m, k <= j, NEW x \in NodeIn(n, k)
  PROVE  x \in NodeIn(m, j)
  <1>1. 0 .. k - 1 \subseteq 0 .. j - 1 /\ 0 .. n \subseteq 0 .. m
    OBVIOUS
  <1>2. QED BY <1>1 DEF NodeIn

\* Sequences of nodes of a tree that has grown, too.
LEMMA TreeStays ==
  ASSUME NEW n \in Nat, NEW k \in Nat, NEW m \in Nat, NEW j \in Nat,
         n <= m, k <= j, NEW c \in Seq(NodeIn(n, k))
  PROVE  c \in Seq(NodeIn(m, j))
  <1>1. NodeIn(n, k) \subseteq NodeIn(m, j)
    BY NodeStays
  <1>2. QED BY <1>1

\* Sequences are not empty, and their letters are letters.
LEMMA Sequences ==
  \A s \in Sequence :
    s \in Seq(Letters) /\ Len(s) \in Nat \ {0} /\ DOMAIN s = 1 .. Len(s)
  <1> SUFFICES ASSUME NEW s \in Sequence
               PROVE  s \in Seq(Letters) /\ Len(s) \in Nat \ {0} /\ DOMAIN s = 1 .. Len(s)
    OBVIOUS
  <1>1. s \in Seq({s[i] : i \in DOMAIN s}) /\ s # <<>>
    BY SequenceAssumption
  <1>2. {s[i] : i \in DOMAIN s} \subseteq Letters
    BY DEF Letters
  <1> QED
    BY <1>1, <1>2

\* The letter a call is at is one of the letters.
LEMMA LetterIn ==
  ASSUME NEW s \in Sequence, NEW i \in DOMAIN s
  PROVE  s[i] \in Letters
  BY DEF Letters

\* A new node is a node, whatever its memory holds.
LEMMA NewNodeIn ==
  ASSUME NEW n \in Nat, NEW k \in Nat, NEW l \in Letters, NEW i \in 0 .. k - 1,
         NEW p \in 0 .. n, NEW junk \in Unset
  PROVE  /\ NewNode(l, i, p, junk) \in NodeIn(n, k)
         /\ NewNode(l, i, p, junk).index = i
         /\ junk.first_child \in 0 .. n \cup {Wild}
  <1>1. Unset \subseteq [first_child : {0, Wild}, last_child : {0, Wild},
                         next_sibling : {0, Wild}]
    BY DEF Unset, Null
  <1>2. 0 \in 0 .. n
    OBVIOUS
  <1>3. QED BY <1>1, <1>2 DEF NewNode, NodeIn

\* Replacing a node of a tree by one with the same identifier.
LEMMA NodeReplaced ==
  ASSUME NEW m \in Nat, NEW k \in Nat, NEW c \in Seq(NodeIn(m, k)),
         NEW a \in 1 .. Len(c), NEW y \in NodeIn(m, k)
  PROVE  LET d == [c EXCEPT ![a] = y] IN
         /\ d \in Seq(NodeIn(m, k)) /\ Len(d) = Len(c)
         /\ \A b \in 1 .. Len(c) : d[b] = IF b = a THEN y ELSE c[b]
  OBVIOUS

\* d is c with the new node x as the last child of n.
Grown(c, n, x, d) ==
  LET m == Len(c) + 1
  IN  /\ Len(d) = m /\ d[m] = x
      /\ \A a \in 1 .. Len(c) :
           /\ d[a].letter = c[a].letter /\ d[a].index = c[a].index
           /\ d[a].parent = c[a].parent
           /\ d[a].last_child = IF a = n THEN m ELSE c[a].last_child
           /\ d[a].first_child = IF a = n /\ c[n].last_child = Null THEN m
                                 ELSE c[a].first_child
           /\ d[a].next_sibling = IF a = c[n].last_child THEN m ELSE c[a].next_sibling

\* append_child adds a last child to a node, and changes nothing else.
LEMMA AppendChildAdds ==
  ASSUME TypeOK, NEW n \in Nodes, content[n].last_child # Wild,
         NEW k \in Nat, last_index <= k,
         NEW x \in NodeIn(Len(content) + 1, k)
  PROVE  /\ AppendChild(n, x) \in Seq(NodeIn(Len(content) + 1, k))
         /\ Grown(content, n, x, AppendChild(n, x))
  <1> DEFINE m == Len(content) + 1
             c0 == Append(content, x)
             l == content[n].last_child
             c == AppendChild(n, x)
  <1>1. content \in Seq(NodeIn(Len(content), last_index)) /\ last_index \in Nat
    BY DEF TypeOK, NodeIn, Pointer
  <1>2. Len(content) \in Nat /\ m \in Nat /\ Len(content) <= m /\ m \in 0 .. m
    BY <1>1
  <1>3. content \in Seq(NodeIn(m, k))
    BY <1>1, <1>2, TreeStays
  <1>4. /\ c0 \in Seq(NodeIn(m, k)) /\ Len(c0) = m
        /\ \A a \in 1 .. Len(content) : c0[a] = content[a]
        /\ c0[m] = x
    BY <1>3
  <1>5. /\ n \in 1 .. Len(content) /\ n \in 1 .. m /\ m \notin 1 .. Len(content)
        /\ m \in 1 .. m /\ \A a \in 1 .. Len(content) : a \in 1 .. m
    BY <1>1, <1>2 DEF Nodes
  <1>6. l \in 0 .. Len(content)
    <2>1. content[n] \in NodeIn(Len(content), last_index)
      BY <1>1, <1>5
    <2> QED
      BY <2>1 DEF NodeIn
  <1> HIDE DEF c0, l, m
  <1>7. CASE l = Null
    <2> DEFINE y == [c0[n] EXCEPT !.last_child = m, !.first_child = m]
    <2>1. c = [c0 EXCEPT ![n] = y]
      BY <1>7, <1>2, <1>4, <1>5 DEF AppendChild, New, l, c0, m
    <2>2. c0[n] \in NodeIn(m, k)
      BY <1>4, <1>5
    <2>3. /\ y \in NodeIn(m, k) /\ y.index = c0[n].index /\ y.letter = c0[n].letter
          /\ y.parent = c0[n].parent /\ y.next_sibling = c0[n].next_sibling
          /\ y.last_child = m /\ y.first_child = m
      BY <2>2, <1>2 DEF NodeIn
    <2> HIDE DEF y, c
    <2>4. /\ c \in Seq(NodeIn(m, k)) /\ Len(c) = m
          /\ \A b \in 1 .. m : c[b] = IF b = n THEN y ELSE c0[b]
      BY <2>1, <2>3, <1>2, <1>4, <1>5, NodeReplaced
    <2>5. c[m] = x
      BY <2>4, <1>4, <1>5
    <2>6. \A a \in 1 .. Len(content) : a # l
      BY <1>7 DEF Null
    <2>7. ASSUME NEW a \in 1 .. Len(content)
          PROVE  /\ c[a].letter = content[a].letter /\ c[a].index = content[a].index
                 /\ c[a].parent = content[a].parent
                 /\ c[a].last_child = IF a = n THEN m ELSE content[a].last_child
                 /\ c[a].first_child = IF a = n /\ l = Null THEN m
                                        ELSE content[a].first_child
                 /\ c[a].next_sibling = IF a = l THEN m ELSE content[a].next_sibling
      BY <2>3, <2>4, <2>6, <1>4, <1>5, <1>7
    <2> QED
      BY <2>4, <2>5, <2>7 DEF c, m, l, Grown
  <1>8. CASE l # Null
    <2> DEFINE z == [c0[l] EXCEPT !.next_sibling = m]
               d == [c0 EXCEPT ![l] = z]
               y == [d[n] EXCEPT !.last_child = m]
    <2>0. l \in 1 .. Len(content) /\ l \in 1 .. m
      BY <1>8, <1>6, <1>2 DEF Null
    <2>1. c = [d EXCEPT ![n] = y]
      BY <1>8, <1>2, <1>4, <1>5, <2>0 DEF AppendChild, New, l, c0, m
    <2>2. c0[l] \in NodeIn(m, k)
      BY <1>4, <2>0
    <2>3. /\ z \in NodeIn(m, k) /\ z.index = c0[l].index /\ z.letter = c0[l].letter
          /\ z.parent = c0[l].parent /\ z.next_sibling = m
          /\ z.last_child = c0[l].last_child /\ z.first_child = c0[l].first_child
      BY <2>2, <1>2 DEF NodeIn
    <2> HIDE DEF z, c
    <2>4. /\ d \in Seq(NodeIn(m, k)) /\ Len(d) = m
          /\ \A b \in 1 .. m : d[b] = IF b = l THEN z ELSE c0[b]
      BY <2>3, <1>2, <1>4, <2>0, NodeReplaced
    <2> HIDE DEF d
    <2>5. d[n] \in NodeIn(m, k)
      BY <2>4, <1>5
    <2>6. /\ y \in NodeIn(m, k) /\ y.index = d[n].index /\ y.letter = d[n].letter
          /\ y.parent = d[n].parent /\ y.next_sibling = d[n].next_sibling
          /\ y.last_child = m /\ y.first_child = d[n].first_child
      BY <2>5, <1>2 DEF NodeIn
    <2> HIDE DEF y
    <2>7. /\ c \in Seq(NodeIn(m, k)) /\ Len(c) = m
          /\ \A b \in 1 .. m : c[b] = IF b = n THEN y ELSE d[b]
      BY <2>1, <2>4, <2>6, <1>2, <1>5, NodeReplaced
    <2>8. c[m] = x
      BY <2>0, <2>4, <2>7, <1>4, <1>5
    <2>9. ASSUME NEW a \in 1 .. Len(content)
          PROVE  /\ d[a].letter = content[a].letter /\ d[a].index = content[a].index
                 /\ d[a].parent = content[a].parent
                 /\ d[a].last_child = content[a].last_child
                 /\ d[a].first_child = content[a].first_child
                 /\ d[a].next_sibling = IF a = l THEN m ELSE content[a].next_sibling
      BY <2>3, <2>4, <1>4, <1>5
    <2>10. ASSUME NEW a \in 1 .. Len(content)
          PROVE  /\ c[a].letter = content[a].letter /\ c[a].index = content[a].index
                 /\ c[a].parent = content[a].parent
                 /\ c[a].last_child = IF a = n THEN m ELSE content[a].last_child
                 /\ c[a].first_child = IF a = n /\ l = Null THEN m
                                        ELSE content[a].first_child
                 /\ c[a].next_sibling = IF a = l THEN m ELSE content[a].next_sibling
      BY <2>6, <2>7, <2>9, <1>5, <1>8
    <2> QED
      BY <2>7, <2>8, <2>10 DEF c, m, l, Grown
  <1>9. QED BY <1>7, <1>8

-----------------------------------------------------------------------------
(* The inductive invariant, in three parts.  What was written last has an  *)
(* identifier that was given out, so that the next one is newer.           *)

Distinct(c) ==
  \A a, b \in 1 .. Len(c) : c[a].index = c[b].index /\ c[a].index # Null => a = b

TreeInv ==
  /\ last_index \in Nat \ {0}
  /\ content \in Seq(NodeIn(Len(content), last_index))
  /\ Distinct(content)

StreamInv ==
  /\ opened \in BOOLEAN /\ file \in Seq(EntryType)
  /\ last_written \in Nat /\ last_written < last_index
  /\ answer \in [of : Sequence \cup {<<>>}, is : Nat]

CallInv ==
  call # Idle =>
    /\ call.seq \in Sequence /\ call.pos \in 1 .. Len(call.seq)
    /\ call.node \in 1 .. Len(content)
    /\ call.at \in 0 .. Len(content) \cup {Wild}
    /\ call.records \in BOOLEAN

DictInv == TreeInv /\ StreamInv /\ CallInv

\* The invariant contains what is to be shown.
LEMMA Shown == DictInv => TypeOK /\ IdsUnique
  <1> SUFFICES ASSUME DictInv PROVE TypeOK /\ IdsUnique
    OBVIOUS
  <1>1. DOMAIN content = 1 .. Len(content)
    BY DEF DictInv, TreeInv
  <1>2. IdsUnique
    BY <1>1 DEF DictInv, TreeInv, Distinct, IdsUnique, Nodes
  <1>3. \A s \in Sequence : DOMAIN s = 1 .. Len(s)
    BY Sequences
  <1>4. call # Idle =>
          /\ call.seq \in Sequence /\ call.pos \in DOMAIN call.seq
          /\ call.node \in Nodes /\ call.at \in Pointer /\ call.records \in BOOLEAN
    BY <1>1, <1>3 DEF DictInv, CallInv, Nodes, Pointer
  <1>5. TypeOK
    BY <1>4 DEF DictInv, TreeInv, StreamInv, TypeOK, NodeIn, Pointer, EntryType
  <1> QED
    BY <1>2, <1>5

\* It holds of the empty dictionary.
LEMMA Start == Init => DictInv
  <1> SUFFICES ASSUME Init PROVE DictInv
    OBVIOUS
  <1>1. TreeInv
    BY DEF Init, TreeInv, Distinct, Null
  <1>2. StreamInv
    <2>1. answer \in [of : Sequence \cup {<<>>}, is : Nat]
      BY DEF Init, NoCall
    <2>2. file \in Seq(EntryType)
      BY DEF Init
    <2>3. last_written \in Nat /\ last_written < last_index
      BY DEF Init, Null
    <2>4. opened \in BOOLEAN
      BY DEF Init
    <2> QED
      BY <2>1, <2>2, <2>3, <2>4 DEF StreamInv
  <1>3. CallInv
    BY DEF Init, CallInv
  <1> QED
    BY <1>1, <1>2, <1>3 DEF DictInv

\* One node more, or one that had no identifier: it gets none, or the next one.
LEMMA StaysDistinct ==
  ASSUME TreeInv, NEW k \in {last_index, last_index + 1},
         NEW c \in Seq(NodeIn(Len(content) + 1, k)), Len(content) <= Len(c),
         NEW a \in 1 .. Len(c),
         c[a].index = Null \/ c[a].index = last_index,
         \A b \in 1 .. Len(c) : b # a =>
           b \in 1 .. Len(content) /\ c[b].index = content[b].index
  PROVE  Distinct(c)
  <1>1. \A b \in 1 .. Len(content) : content[b].index \in 0 .. last_index - 1
    <2>1. \A b \in 1 .. Len(content) : content[b] \in NodeIn(Len(content), last_index)
      BY DEF TreeInv
    <2> QED
      BY <2>1 DEF NodeIn
  <1>2. last_index \in Nat
    BY DEF TreeInv
  <1>3. Distinct(content)
    BY DEF TreeInv
  <1> SUFFICES ASSUME NEW x \in 1 .. Len(c), NEW y \in 1 .. Len(c),
                      c[x].index = c[y].index, c[x].index # Null
               PROVE  x = y
    BY DEF Distinct
  <1>4. CASE x = a /\ y # a
    BY <1>1, <1>2, <1>4
  <1>5. CASE x # a /\ y = a
    BY <1>1, <1>2, <1>5
  <1>6. CASE x # a /\ y # a
    BY <1>3, <1>6 DEF Distinct
  <1>7. CASE x = a /\ y = a
    BY <1>7
  <1> QED
    BY <1>4, <1>5, <1>6, <1>7

\* A call returns an identifier that is given out, which may be the newest one.
LEMMA Returned ==
  ASSUME DictInv, NEW i \in Nat, NEW c, c.seq \in Sequence,
         Return(i, c), last_index' \in Nat, last_index <= last_index',
         i < last_index'
  PROVE  StreamInv' /\ CallInv'
  <1>1. call' = Idle /\ answer' = [of |-> c.seq, is |-> i] /\ opened' = opened
    BY DEF Return
  <1>2. \/ /\ file' = Append(file, [id |-> i, seq |-> c.seq])
           /\ last_written' = i
        \/ file' = file /\ last_written' = last_written
    BY DEF Return, Record
  <1>3. [id |-> i, seq |-> c.seq] \in EntryType
    BY DEF EntryType
  <1>4. file \in Seq(EntryType) /\ last_written \in Nat /\ last_written < last_index
    BY DEF DictInv, StreamInv
  <1>5. file' \in Seq(EntryType)
    BY <1>2, <1>3, <1>4
  <1>6. last_written' \in Nat /\ last_written' < last_index'
    <2>1. last_index \in Nat
      BY DEF DictInv, TreeInv
    <2> QED
      BY <1>2, <1>4, <2>1
  <1>7. opened' \in BOOLEAN /\ answer' \in [of : Sequence \cup {<<>>}, is : Nat]
    BY <1>1 DEF DictInv, StreamInv
  <1> QED
    BY <1>1, <1>5, <1>6, <1>7 DEF StreamInv, CallInv

-----------------------------------------------------------------------------
(* Every step keeps it.                                                    *)

\* A walk that goes on: at a node of the tree, with a letter to look for.
LEMMA WalkIn ==
  ASSUME NEW s \in Sequence, NEW k \in 1 .. Len(s), NEW n \in 1 .. Len(content'),
         NEW f \in 0 .. Len(content') \cup {Wild}, NEW r \in BOOLEAN,
         call' = Walk(s, k, n, f, r)
  PROVE  CallInv'
  BY DEF Walk, CallInv

\* The stream is left alone, and no identifier is taken back.
LEMMA StreamStays ==
  ASSUME DictInv, UNCHANGED <<stream, answer>>, last_index' = last_index
  PROVE  StreamInv'
  BY DEF DictInv, StreamInv, stream

\* The node a call is at, and the letter it looks for.
LEMMA AtNode ==
  ASSUME DictInv, call # Idle
  PROVE  /\ call.seq \in Sequence /\ call.pos \in 1 .. Len(call.seq)
         /\ Len(call.seq) \in Nat /\ call.records \in BOOLEAN
         /\ call.node \in 1 .. Len(content) /\ Letter \in Letters
         /\ ~AtLastLetter => call.pos + 1 \in 1 .. Len(call.seq)
  <1>1. /\ call.seq \in Sequence /\ call.pos \in 1 .. Len(call.seq)
        /\ call.records \in BOOLEAN /\ call.node \in 1 .. Len(content)
    BY DEF DictInv, CallInv
  <1>2. Len(call.seq) \in Nat /\ DOMAIN call.seq = 1 .. Len(call.seq)
    BY <1>1, Sequences
  <1>3. Letter \in Letters
    BY <1>1, <1>2, LetterIn DEF Letter
  <1> QED
    BY <1>1, <1>2, <1>3 DEF AtLastLetter

\* A new node below the one a call is at, with no identifier or with the next.
LEMMA ChildAdded ==
  ASSUME DictInv, call # Idle, NotFound, NEW junk \in Unset,
         NEW i \in {Null, last_index},
         last_index' = IF i = Null THEN last_index ELSE last_index + 1,
         content' = AppendChild(call.node, NewNode(Letter, i, call.node, junk))
  PROVE  /\ TreeInv' /\ Len(content') = Len(content) + 1
         /\ junk.first_child \in 0 .. Len(content') \cup {Wild}
         /\ Grown(content, call.node, NewNode(Letter, i, call.node, junk), content')
  <1> DEFINE m == Len(content) + 1
             x == NewNode(Letter, i, call.node, junk)
  <1>1. /\ last_index \in Nat \ {0} /\ last_index' \in Nat \ {0}
        /\ last_index <= last_index' /\ last_index' \in {last_index, last_index + 1}
        /\ i \in 0 .. last_index' - 1
    BY DEF DictInv, TreeInv, Null
  <1>2. Len(content) \in Nat /\ m \in Nat
    BY DEF DictInv, TreeInv
  <1>3. Letter \in Letters /\ call.node \in 1 .. Len(content) /\ call.node \in 0 .. m
    BY <1>2, AtNode
  <1>4. /\ x \in NodeIn(m, last_index') /\ x.index = i
        /\ junk.first_child \in 0 .. m \cup {Wild}
    <2> DEFINE k == last_index'
    <2>1. k \in Nat /\ i \in 0 .. k - 1 /\ m \in Nat /\ call.node \in 0 .. m
      BY <1>1, <1>2, <1>3
    <2> HIDE DEF m, k
    <2>2. /\ NewNode(Letter, i, call.node, junk) \in NodeIn(m, k)
          /\ NewNode(Letter, i, call.node, junk).index = i
          /\ junk.first_child \in 0 .. m \cup {Wild}
      BY <1>3, <2>1, NewNodeIn
    <2> QED
      BY <2>2 DEF k
  <1>5. TypeOK /\ call.node \in Nodes /\ content[call.node].last_child # Wild
    BY <1>3, Shown DEF NotFound, Nodes, DictInv, TreeInv
  <1> HIDE DEF x
  <1>6. /\ content' \in Seq(NodeIn(m, last_index')) /\ Len(content') = m
        /\ \A a \in 1 .. Len(content) : content'[a].index = content[a].index
        /\ content'[m].index = i
        /\ Grown(content, call.node, x, content')
    <2>1. /\ content' \in Seq(NodeIn(m, last_index'))
          /\ Grown(content, call.node, x, content')
      BY <1>1, <1>4, <1>5, AppendChildAdds DEF x
    <2> QED
      BY <2>1, <1>4 DEF Grown
  <1>7. Distinct(content')
    <2>1. \A b \in 1 .. m : b # m => b \in 1 .. Len(content)
      BY <1>2
    <2>2. m \in 1 .. m /\ Len(content) <= m
      BY <1>2
    <2> HIDE DEF m
    <2> QED
      BY <1>1, <1>6, <2>1, <2>2, StaysDistinct DEF DictInv, m
  <1> QED
    BY <1>1, <1>4, <1>6, <1>7 DEF TreeInv, x

\* Every step keeps it.
LEMMA Steps ==
  ASSUME DictInv, [Next]_vars
  PROVE  DictInv'
  <1>1. ASSUME NEW s \in Sequence, NEW r \in BOOLEAN, InsertFirst(s, r)
        PROVE  DictInv'
    <2>1. PICK junk \in Unset :
            LET w == Walk(s, 1, Root, junk.first_child, r)
            IN  IF Len(s) = 1
                THEN /\ content' = <<NewNode(s[1], last_index, Null, junk)>>
                     /\ last_index' = last_index + 1
                     /\ Return(last_index, w)
                ELSE /\ content' = <<NewNode(s[1], Null, Null, junk)>>
                     /\ call' = w
                     /\ UNCHANGED <<last_index, stream, answer>>
      BY <1>1 DEF InsertFirst
    <2>2. /\ last_index \in Nat \ {0} /\ content = <<>>
          /\ Len(s) \in Nat \ {0} /\ s[1] \in Letters
      BY <1>1, LetterIn, Sequences DEF DictInv, TreeInv, InsertFirst
    <2>3. ASSUME NEW k \in {last_index, last_index + 1}, NEW i \in {Null, last_index},
                 i < k, content' = <<NewNode(s[1], i, Null, junk)>>, last_index' = k
          PROVE  TreeInv' /\ Len(content') = 1
                   /\ junk.first_child \in 0 .. Len(content') \cup {Wild}
      <3>1. k \in Nat \ {0} /\ i \in 0 .. k - 1 /\ 0 \in 0 .. 1
        BY <2>2, <2>3 DEF Null
      <3>2. /\ NewNode(s[1], i, Null, junk) \in NodeIn(1, k)
            /\ junk.first_child \in 0 .. 1 \cup {Wild}
        BY <2>2, <3>1, NewNodeIn DEF Null
      <3>3. content' \in Seq(NodeIn(1, k)) /\ Len(content') = 1
        BY <2>3, <3>2
      <3>4. Distinct(content')
        BY <3>3 DEF Distinct
      <3> QED
        BY <2>3, <3>1, <3>2, <3>3, <3>4 DEF TreeInv
    <2>4. CASE Len(s) = 1
      <3>1. TreeInv'
        BY <2>1, <2>2, <2>3, <2>4 DEF Null
      <3>2. StreamInv' /\ CallInv'
        BY <2>1, <2>2, <2>4, Returned DEF Walk
      <3> QED
        BY <3>1, <3>2 DEF DictInv
    <2>5. CASE Len(s) # 1
      <3>1. TreeInv' /\ Len(content') = 1
              /\ junk.first_child \in 0 .. Len(content') \cup {Wild}
        BY <2>1, <2>2, <2>3, <2>5 DEF Null
      <3>2. CallInv'
        BY <2>1, <2>2, <2>5, <3>1, WalkIn DEF Root
      <3>3. StreamInv'
        BY <2>1, <2>5, StreamStays
      <3> QED
        BY <3>1, <3>2, <3>3 DEF DictInv
    <2> QED
      BY <2>4, <2>5
  <1>2. ASSUME NEW s \in Sequence, NEW r \in BOOLEAN, Insert(s, r)
        PROVE  DictInv'
    <2>1. /\ content # <<>> /\ UNCHANGED <<content, last_index, stream, answer>>
          /\ call' = Walk(s, 1, Root, content[Root].first_child, r)
      BY <1>2 DEF Insert, tree
    <2>2. Root \in 1 .. Len(content)
      BY <2>1 DEF DictInv, TreeInv, Root
    <2>3. content[Root].first_child \in 0 .. Len(content) \cup {Wild}
      <3>1. content[Root] \in NodeIn(Len(content), last_index)
        BY <2>2 DEF DictInv, TreeInv
      <3> QED
        BY <3>1 DEF NodeIn
    <2>4. 1 \in 1 .. Len(s)
      BY Sequences
    <2>5. CallInv'
      BY <2>1, <2>2, <2>3, <2>4, WalkIn
    <2> QED
      BY <2>1, <2>5, StreamStays DEF DictInv, TreeInv
  <1>3. ASSUME NextSibling PROVE DictInv'
    <2>1. /\ call # Idle /\ call.at \in DOMAIN content
          /\ UNCHANGED <<content, last_index, stream, answer>>
          /\ call' = [call EXCEPT !.at = content[call.at].next_sibling]
      BY <1>3 DEF NextSibling, tree
    <2>2. content[call.at].next_sibling \in 0 .. Len(content) \cup {Wild}
      <3>1. content[call.at] \in NodeIn(Len(content), last_index)
        BY <2>1 DEF DictInv, TreeInv
      <3> QED
        BY <3>1 DEF NodeIn
    <2>3. CallInv'
      BY <2>1, <2>2 DEF DictInv, CallInv
    <2> QED
      BY <2>1, <2>3, StreamStays DEF DictInv, TreeInv
  <1>4. ASSUME DescendFound PROVE DictInv'
    <2>1. /\ call # Idle /\ call.at \in DOMAIN content /\ ~AtLastLetter
          /\ UNCHANGED <<content, last_index, stream, answer>>
          /\ call' = Walk(call.seq, call.pos + 1, call.at,
                          content[call.at].first_child, call.records)
      BY <1>4 DEF DescendFound, Found, tree
    <2>2. /\ call.at \in 1 .. Len(content)
          /\ content[call.at].first_child \in 0 .. Len(content) \cup {Wild}
      <3>1. /\ content[call.at] \in NodeIn(Len(content), last_index)
            /\ call.at \in 1 .. Len(content)
        BY <2>1 DEF DictInv, TreeInv
      <3> QED
        BY <3>1 DEF NodeIn
    <2>3. CallInv'
      BY <2>1, <2>2, AtNode, WalkIn
    <2> QED
      BY <2>1, <2>3, StreamStays DEF DictInv, TreeInv
  <1>5. ASSUME ReturnKnown PROVE DictInv'
    <2>1. /\ call # Idle /\ call.at \in DOMAIN content
          /\ Return(content[call.at].index, call)
          /\ UNCHANGED <<content, last_index>>
      BY <1>5 DEF ReturnKnown, Found, tree
    <2>2. content[call.at].index \in 0 .. last_index - 1 /\ last_index \in Nat \ {0}
      <3>1. content[call.at] \in NodeIn(Len(content), last_index)
        BY <2>1 DEF DictInv, TreeInv
      <3> QED
        BY <3>1 DEF NodeIn, DictInv, TreeInv
    <2>3. StreamInv' /\ CallInv'
      <3>1. call.seq \in Sequence
        BY <2>1, AtNode
      <3> QED
        BY <2>1, <2>2, <3>1, Returned
    <2> QED
      BY <2>1, <2>3 DEF DictInv, TreeInv
  <1>6. ASSUME ReturnPrefix PROVE DictInv'
    <2> DEFINE a == call.at
               y == [content[a] EXCEPT !.index = last_index]
               n == Len(content)
               k == last_index + 1
    <2>1. /\ call # Idle /\ a \in DOMAIN content
          /\ content' = [content EXCEPT ![a] = y]
          /\ Return(last_index, call) /\ last_index' = k
      BY <1>6 DEF ReturnPrefix, Found, NextIndex
    <2>2. /\ last_index \in Nat \ {0} /\ n \in Nat /\ a \in 1 .. n /\ k \in Nat \ {0}
          /\ content \in Seq(NodeIn(n, last_index))
      BY <2>1 DEF DictInv, TreeInv
    <2>3. content \in Seq(NodeIn(n, k))
      BY <2>2, TreeStays
    <2>4. y \in NodeIn(n, k) /\ y.index = last_index
      <3>1. content[a] \in NodeIn(n, k)
        BY <2>2, <2>3
      <3>2. last_index \in 0 .. k - 1
        BY <2>2
      <3> QED
        BY <3>1, <3>2 DEF NodeIn
    <2> HIDE DEF a, y, n, k
    <2>5. /\ content' \in Seq(NodeIn(n, k)) /\ Len(content') = n
          /\ \A b \in 1 .. n : content'[b] = IF b = a THEN y ELSE content[b]
      BY <2>1, <2>2, <2>3, <2>4, NodeReplaced DEF n
    <2>6. Distinct(content')
      <3>1. content' \in Seq(NodeIn(n + 1, k))
        BY <2>2, <2>5, TreeStays
      <3> QED
        BY <2>2, <2>4, <2>5, <3>1, StaysDistinct DEF DictInv, n, k
    <2>7. TreeInv'
      BY <2>1, <2>2, <2>5, <2>6 DEF TreeInv
    <2>8. StreamInv' /\ CallInv'
      <3>1. call.seq \in Sequence
        BY <2>1, AtNode
      <3> QED
        BY <2>1, <2>2, <3>1, Returned DEF k
    <2> QED
      BY <2>7, <2>8 DEF DictInv
  <1>7. ASSUME DescendNew PROVE DictInv'
    <2>1. PICK junk \in Unset :
            /\ content' = AppendChild(call.node, NewNode(Letter, Null, call.node, junk))
            /\ call' = Walk(call.seq, call.pos + 1, New, junk.first_child, call.records)
      BY <1>7 DEF DescendNew
    <2>2. NotFound /\ call # Idle /\ ~AtLastLetter
            /\ UNCHANGED <<last_index, stream, answer>>
      BY <1>7 DEF DescendNew, NotFound
    <2>3. /\ TreeInv' /\ Len(content') = Len(content) + 1
          /\ junk.first_child \in 0 .. Len(content') \cup {Wild}
      BY <2>1, <2>2, ChildAdded
    <2>4. New \in 1 .. Len(content')
      BY <2>3 DEF New, DictInv, TreeInv
    <2>5. CallInv'
      BY <2>1, <2>2, <2>3, <2>4, AtNode, WalkIn
    <2> QED
      BY <2>2, <2>3, <2>5, StreamStays DEF DictInv
  <1>8. ASSUME ReturnNew PROVE DictInv'
    <2>1. PICK junk \in Unset :
            content' = AppendChild(call.node,
                                   NewNode(Letter, last_index, call.node, junk))
      BY <1>8 DEF ReturnNew
    <2>2. /\ NotFound /\ call # Idle /\ last_index' = last_index + 1
          /\ Return(last_index, call) /\ last_index \in Nat \ {0}
      BY <1>8 DEF ReturnNew, NotFound, NextIndex, DictInv, TreeInv
    <2>3. TreeInv'
      BY <2>1, <2>2, ChildAdded DEF Null
    <2>4. StreamInv' /\ CallInv'
      <3>1. call.seq \in Sequence
        BY <2>2, AtNode
      <3> QED
        BY <2>2, <3>1, Returned
    <2> QED
      BY <2>3, <2>4 DEF DictInv
  <1>9. ASSUME Open PROVE DictInv'
    <2>1. /\ opened' = TRUE /\ file' = <<>>
          /\ UNCHANGED <<content, last_index, last_written, call, answer>>
      BY <1>9 DEF Open, tree
    <2>2. file' \in Seq(EntryType)
      BY <2>1
    <2> QED
      BY <2>1, <2>2 DEF DictInv, TreeInv, StreamInv, CallInv
  <1>10. ASSUME Close PROVE DictInv'
    BY <1>10 DEF Close, tree, DictInv, TreeInv, StreamInv, CallInv
  <1>11. CASE UNCHANGED vars
    BY <1>11 DEF vars, DictInv, TreeInv, StreamInv, CallInv
  <1> QED
    BY <1>1, <1>2, <1>3, <1>4, <1>5, <1>6, <1>7, <1>8, <1>9, <1>10, <1>11 DEF Next

-----------------------------------------------------------------------------
(* The theorems.                                                           *)

\* The dictionary never leaves it.
LEMMA Invariance == Spec => []DictInv
  BY Start, Steps, PTL DEF Spec

\* The tree stays a tree of nodes whose pointers lead to nodes or were never
\* set, and every call in progress is at one of them.
THEOREM Typing == Spec => []TypeOK
  BY Invariance, Shown, PTL

\* dictionary.hpp:81: generate_next_index never gives an identifier twice,
\* whether it goes to a new node or to one that was only a prefix.
THEOREM Uniqueness == Spec => []IdsUnique
  BY Invariance, Shown, PTL

\* dictionary.hpp:197: an entry that a recording call adds while the file is
\* open is written before the call returns, whatever was added unrecorded.
THEOREM Written == Spec => NewEntryWritten
  <1>1. ASSUME DictInv, [Next]_vars
        PROVE  [call.records /\ opened /\ last_index' > last_index
                  => file' = Append(file, [id |-> last_index, seq |-> call.seq])]_vars
    <2> SUFFICES ASSUME Next, call.records, opened, last_index' > last_index
                 PROVE  file' = Append(file, [id |-> last_index, seq |-> call.seq])
      BY <1>1
    <2>1. last_index \in Nat /\ last_written \in Nat /\ last_written < last_index
      BY <1>1 DEF DictInv, TreeInv, StreamInv
    <2>2. ReturnPrefix \/ ReturnNew
      <3>1. call # Idle
        BY DEF Idle
      <3>2. last_index' # last_index
        BY <2>1
      <3> QED
        BY <3>1, <3>2 DEF Next, InsertFirst, Insert, NextSibling, DescendFound,
             DescendNew, ReturnKnown, Open, Close, tree
    <2>3. Return(last_index, call)
      BY <2>2 DEF ReturnPrefix, ReturnNew
    <2> QED
      BY <2>1, <2>3 DEF Return, Record
  <1> QED
    BY <1>1, Invariance, PTL DEF Spec, NewEntryWritten

-----------------------------------------------------------------------------
(* The shape of the tree: the pointers of the children of a node.          *)

\* Node b is a child of node n.
Child(c, n, b) == b \in 2 .. Len(c) /\ c[b].parent = n

\* Node n of c has its first and last child where it says, if it has any.
Ended(c, n) ==
  LET f == c[n].first_child
      l == c[n].last_child
  IN  \/ f \in {Null, Wild} /\ l \in {Null, Wild} /\ \A b : ~Child(c, n, b)
      \/ Child(c, n, f) /\ Child(c, n, l) /\ \A b : Child(c, n, b) => f <= b /\ b <= l

\* Node a of c has its next sibling where it says, if it has one.
Chained(c, a) ==
  LET p == c[a].parent
      x == c[a].next_sibling
  IN  \/ x \in {Null, Wild} /\ \A b : Child(c, p, b) => b <= a
      \/ Child(c, p, x) /\ a < x /\ \A b : Child(c, p, b) => b <= a \/ x <= b

\* Parents are older than their children, and the children of a node are
\* chained in the order of their age.
Shape(c) ==
  /\ \A b \in 2 .. Len(c) : c[b].parent \in 1 .. b - 1
  /\ \A n \in 1 .. Len(c) : Ended(c, n)
  /\ \A a \in 2 .. Len(c) : Chained(c, a)

\* A new node keeps the tree in shape.
LEMMA GrownShape ==
  ASSUME NEW c, Len(c) \in Nat, Shape(c), NEW n \in 1 .. Len(c), c[n].last_child # Wild,
         NEW x, x.parent = n,
         {x.first_child, x.last_child, x.next_sibling} \subseteq {Null, Wild},
         NEW d, Grown(c, n, x, d)
  PROVE  Shape(d)
<1> DEFINE m == Len(c) + 1
<1>1. /\ Len(d) = m /\ m \in Nat /\ d[m].parent = n
      /\ \A a \in 1 .. Len(c) : d[a].parent = c[a].parent
      /\ \A a \in 1 .. Len(d) : a \in 1 .. Len(c) \/ a = m
  BY DEF Grown
<1>2. Wild \notin Nat /\ Null = 0
  BY WildAssumption DEF Null
<1>3. \A b, p : Child(d, p, b) <=> (Child(c, p, b) \/ (b = m /\ p = n))
  <2> SUFFICES ASSUME NEW b, NEW p
               PROVE  Child(d, p, b) <=> (Child(c, p, b) \/ (b = m /\ p = n))
    OBVIOUS
  <2>1. CASE b \in 2 .. Len(c)
    BY <2>1, <1>1 DEF Child
  <2>2. CASE b = m
    BY <2>2, <1>1 DEF Child
  <2>3. CASE b \notin 2 .. Len(c) /\ b # m
    <3>1. b \notin 2 .. Len(d)
      BY <2>3, <1>1
    <3> QED
      BY <2>3, <3>1 DEF Child
  <2> QED
    BY <2>1, <2>2, <2>3
<1>4. ASSUME NEW b \in 2 .. Len(d)
      PROVE  d[b].parent \in 1 .. b - 1
  <2>1. CASE b = m
    BY <2>1, <1>1
  <2>2. CASE b # m
    <3>1. b \in 2 .. Len(c) /\ b \in 1 .. Len(c)
      BY <2>2, <1>1
    <3> QED
      BY <3>1, <1>1 DEF Shape
  <2> QED
    BY <2>1, <2>2
<1>5. ASSUME NEW p \in 1 .. Len(d) PROVE Ended(d, p)
  <2>1. CASE p = m
    <3>1. \A b : ~Child(d, p, b)
      <4> SUFFICES ASSUME NEW b, Child(d, p, b) PROVE FALSE
        OBVIOUS
      <4>1. Child(c, m, b)
        BY <2>1, <1>3
      <4>2. b \in 2 .. Len(c) /\ c[b].parent = m
        BY <4>1 DEF Child
      <4>3. c[b].parent \in 1 .. b - 1
        BY <4>2 DEF Shape
      <4> QED
        BY <4>2, <4>3
    <3>2. d[p].first_child \in {Null, Wild} /\ d[p].last_child \in {Null, Wild}
      <4>1. d[p] = x
        BY <2>1 DEF Grown
      <4> QED
        BY <4>1
    <3> QED
      BY <3>1, <3>2 DEF Ended
  <2>2. CASE p # m
    <3>1. p \in 1 .. Len(c) /\ Ended(c, p)
      <4>1. p \in 1 .. Len(c)
        BY <2>2, <1>1
      <4> QED
        BY <4>1 DEF Shape
    <3>2. CASE p # n
      <4>1. d[p].first_child = c[p].first_child /\ d[p].last_child = c[p].last_child
        BY <3>1, <3>2 DEF Grown
      <4>2. \A b : Child(d, p, b) <=> Child(c, p, b)
        BY <1>3, <3>2
      <4> QED
        BY <3>1, <4>1, <4>2 DEF Ended
    <3>3. CASE p = n
      <4>1. /\ d[p].last_child = m
            /\ d[p].first_child = IF c[n].last_child = Null THEN m ELSE c[n].first_child
        BY <3>1, <3>3 DEF Grown
      <4>2. \A b : Child(c, p, b) => b \in Nat /\ b < m
        BY DEF Child
      <4>3. Child(d, p, m)
        BY <1>3, <3>3
      <4>4. CASE c[n].last_child = Null
        <5>1. \A b : ~Child(c, p, b)
          <6>1. ~Child(c, p, c[p].last_child)
            BY <3>3, <4>4, <1>2 DEF Child
          <6> QED
            BY <3>1, <6>1 DEF Ended
        <5> QED
          <6>1. \A b : Child(d, p, b) => m <= b /\ b <= m
            BY <5>1, <1>1, <1>3
          <6>2. d[p].first_child = m /\ d[p].last_child = m
            BY <4>1, <4>4
          <6> QED
            BY <4>3, <6>1, <6>2 DEF Ended
      <4>5. CASE c[n].last_child # Null
        <5>1. /\ Child(c, p, c[p].first_child)
              /\ \A b : Child(c, p, b) => c[p].first_child <= b
          BY <3>1, <3>3, <4>5 DEF Ended
        <5>2. Child(d, p, c[p].first_child)
          BY <5>1, <1>3
        <5>3. \A b : Child(d, p, b) => c[p].first_child <= b /\ b <= m
          BY <5>1, <4>2, <1>1, <1>3
        <5> QED
          BY <3>3, <4>1, <4>3, <4>5, <5>2, <5>3 DEF Ended
      <4> QED
        BY <4>4, <4>5
    <3> QED
      BY <3>2, <3>3
  <2> QED
    BY <2>1, <2>2
<1>6. ASSUME NEW a \in 2 .. Len(d) PROVE Chained(d, a)
  <2>1. CASE a = m
    <3>1. d[a].next_sibling \in {Null, Wild}
      BY <2>1 DEF Grown
    <3>2. \A b : Child(d, d[a].parent, b) => b <= a
      BY <2>1, <1>1 DEF Child
    <3> QED
      BY <3>1, <3>2 DEF Chained
  <2>2. CASE a # m
    <3> DEFINE p == c[a].parent
    <3>1. a \in 1 .. Len(c) /\ a \in 2 .. Len(c) /\ d[a].parent = p /\ p \in 1 .. Len(c)
      BY <2>2, <1>1 DEF Shape
    <3>2. Chained(c, a) /\ Ended(c, p) /\ Ended(c, n)
      BY <3>1 DEF Shape
    <3>3. CASE a = c[n].last_child
      <4>1. a \notin {Null, Wild}
        BY <3>1, <1>2
      <4>2. p = n /\ \A b : Child(c, n, b) => b <= a
        BY <3>2, <3>3, <4>1 DEF Ended, Child
      <4>3. d[a].next_sibling = m
        BY <3>1, <3>3 DEF Grown
      <4>4. a < m
        BY <3>1
      <4> QED
        BY <3>1, <4>2, <4>3, <4>4, <1>1, <1>3 DEF Chained
    <3>4. CASE a # c[n].last_child
      <4>1. d[a].next_sibling = c[a].next_sibling
        BY <3>1, <3>4 DEF Grown
      <4>2. CASE p # n
        <5>1. \A b : Child(d, p, b) <=> Child(c, p, b)
          BY <1>3, <4>2
        <5> QED
          BY <3>1, <3>2, <4>1, <5>1 DEF Chained
      <4>3. CASE p = n
        <5> DEFINE x1 == c[a].next_sibling
                   l == c[n].last_child
        <5>1. Child(c, n, a)
          BY <3>1, <4>3 DEF Child
        <5>2. Child(c, n, l) /\ a <= l /\ l \in Nat
          BY <5>1, <3>2 DEF Ended, Child
        <5>3. a < l /\ a \in Nat
          BY <5>2, <3>1, <3>4
        <5>4. Child(c, p, x1) /\ a < x1 /\ \A b : Child(c, p, b) => b <= a \/ x1 <= b
          <6>1. ~(l <= a)
            BY <5>2, <5>3
          <6> QED
            BY <3>2, <4>3, <5>2, <6>1 DEF Chained
        <5>5. x1 \in Nat /\ x1 <= m
          BY <5>4 DEF Child
        <5>6. Child(d, p, x1)
          BY <5>4, <1>3
        <5>7. \A b : Child(d, p, b) => b <= a \/ x1 <= b
          BY <5>4, <5>5, <1>3
        <5> QED
          BY <3>1, <4>1, <5>4, <5>6, <5>7 DEF Chained
      <4> QED
        BY <4>2, <4>3
    <3> QED
      BY <3>3, <3>4
  <2> QED
    BY <2>1, <2>2
<1> QED
  BY <1>4, <1>5, <1>6 DEF Shape
\* A set of naturals has a least member.
LEMMA Least ==
  ASSUME NEW B \in SUBSET Nat, B # {}
  PROVE  \E a \in B : \A b \in B : a <= b
<1> DEFINE R == OpToRel(<, Nat)
<1>1. \A x, y \in Nat : x < y => <<x, y>> \in R
  BY DEF OpToRel
<1>2. IsWellFoundedOn(R, Nat)
  BY NatLessThanWellFounded
<1> HIDE DEF R
<1>3. PICK a \in B : \A b \in B : <<b, a>> \notin R
  BY <1>2, WFMin
<1>4. ASSUME NEW b \in B
      PROVE  a <= b
  <2>1. a \in Nat /\ b \in Nat
    OBVIOUS
  <2>2. ~(b < a)
    BY <1>1, <1>3, <2>1
  <2> QED
    BY <2>1, <2>2
<1> QED
  BY <1>4

-----------------------------------------------------------------------------
(* What nodes spell.                                                       *)

\* f gives the path to each node of c, and no two nodes the same.
Spells(c, f) ==
  /\ f \in [1 .. Len(c) -> Seq(Letters)]
  /\ \A a \in 1 .. Len(c) :
       f[a] = IF a = Root THEN <<>> ELSE Append(f[c[a].parent], c[a].letter)
  /\ \A a, b \in 1 .. Len(c) : f[a] = f[b] => a = b

\* There is only one such function, since parents are older.
LEMMA SpellingIs ==
  ASSUME NEW c, DOMAIN c = 1 .. Len(c), Len(c) \in Nat, Shape(c), NEW f, Spells(c, f)
  PROVE  Spelling(c) = f
<1> DEFINE D == DOMAIN c
           E(g, a) == IF a = Root THEN <<>> ELSE Append(g[c[a].parent], c[a].letter)
           S == CHOOSE g : g = [a \in D |-> E(g, a)]
<1>1. Spelling(c) = S
  BY DEF Spelling
<1>2. f = [a \in D |-> E(f, a)]
  <2>1. f = [a \in D |-> f[a]]
    BY DEF Spells
  <2>2. \A a \in D : f[a] = E(f, a)
    BY DEF Spells
  <2> HIDE DEF E, D
  <2>3. [a \in D |-> f[a]] = [a \in D |-> E(f, a)]
    BY <2>2
  <2> QED
    BY <2>1, <2>3
<1> HIDE DEF E
<1>3. S = [a \in D |-> E(S, a)]
  BY <1>2
<1> HIDE DEF S
<1> DEFINE B == {a \in D : S[a] # f[a]}
<1>4. CASE B = {}
  <2>1. \A a \in D : S[a] = f[a]
    BY <1>4
  <2>2. S = [a \in D |-> S[a]] /\ f = [a \in D |-> f[a]]
    BY <1>2, <1>3
  <2> HIDE DEF D, B
  <2>3. [a \in D |-> S[a]] = [a \in D |-> f[a]]
    BY <2>1
  <2> QED
    BY <2>2, <2>3, <1>1
<1>5. CASE B # {}
  <2>1. B \in SUBSET Nat
    OBVIOUS
  <2> HIDE DEF B
  <2>2. PICK a \in B : \A b \in B : a <= b
    BY <1>5, <2>1, Least
  <2> USE DEF B
  <2>3. a \in 1 .. Len(c) /\ S[a] # f[a]
    OBVIOUS
  <2>4. S[a] = E(S, a) /\ f[a] = E(f, a)
    BY <2>3, <1>2, <1>3
  <2>5. a # Root
    BY <2>3, <2>4 DEF E
  <2>6. c[a].parent \in 1 .. a - 1
    <3>1. a \in 2 .. Len(c)
      BY <2>3, <2>5 DEF Root
    <3> QED
      BY <3>1 DEF Shape
  <2>7. c[a].parent \in D /\ ~(a <= c[a].parent)
    BY <2>3, <2>6
  <2>8. S[c[a].parent] = f[c[a].parent]
    BY <2>2, <2>7
  <2> QED
    BY <2>3, <2>4, <2>8 DEF E
<1> QED
  BY <1>4, <1>5

\* The paths of a tree d that is c with a child x of n.
GrownPaths(c, f, n, x, d) ==
  [a \in 1 .. Len(d) |-> IF a \in 1 .. Len(c) THEN f[a] ELSE Append(f[n], x.letter)]

\* A new node spells what its parent spells, and its letter.
LEMMA GrownSpells ==
  ASSUME NEW c, Len(c) \in Nat, Shape(c), NEW f, Spells(c, f),
         \A a \in 1 .. Len(c) : c[a].letter \in Letters,
         NEW n \in 1 .. Len(c), NEW x, x.parent = n, x.letter \in Letters,
         \A b : Child(c, n, b) => c[b].letter # x.letter,
         NEW d, Grown(c, n, x, d)
  PROVE  Spells(d, GrownPaths(c, f, n, x, d))
<1> DEFINE m == Len(c) + 1
           h == GrownPaths(c, f, n, x, d)
<1>1. /\ Len(d) = m /\ m \in Nat /\ d[m] = x /\ m \notin 1 .. Len(c) /\ m # Root
      /\ \A a \in 1 .. Len(d) : a \in 1 .. Len(c) \/ a = m
  BY DEF Grown, Root
<1>2. \A a \in 1 .. Len(c) : d[a].parent = c[a].parent /\ d[a].letter = c[a].letter
  BY DEF Grown
<1>3. f \in [1 .. Len(c) -> Seq(Letters)]
  BY DEF Spells
<1>4. \A a \in 1 .. Len(c) : a \in 1 .. Len(d) /\ h[a] = f[a]
  BY <1>1 DEF GrownPaths
<1>5. m \in 1 .. Len(d) /\ h[m] = Append(f[n], x.letter)
  BY <1>1 DEF GrownPaths
<1>6. h \in [1 .. Len(d) -> Seq(Letters)]
  BY <1>1, <1>3 DEF GrownPaths
<1> HIDE DEF h
<1>7. ASSUME NEW a \in 1 .. Len(d)
      PROVE  h[a] = IF a = Root THEN <<>> ELSE Append(h[d[a].parent], d[a].letter)
  <2>1. CASE a = m
    BY <2>1, <1>1, <1>4, <1>5
  <2>2. CASE a # m
    <3>1. a \in 1 .. Len(c)
      BY <2>2, <1>1
    <3>2. f[a] = IF a = Root THEN <<>> ELSE Append(f[c[a].parent], c[a].letter)
      BY <3>1 DEF Spells
    <3>3. a # Root => c[a].parent \in 1 .. Len(c)
      <4>1. a # Root => a \in 2 .. Len(c) /\ c[a].parent \in 1 .. a - 1
        BY <3>1 DEF Root, Shape
      <4> QED
        BY <3>1, <4>1
    <3> QED
      BY <3>1, <3>2, <3>3, <1>2, <1>4
  <2> QED
    BY <2>1, <2>2
<1>8. ASSUME NEW a \in 1 .. Len(c)
      PROVE  h[a] # h[m]
  <2> SUFFICES ASSUME f[a] = Append(f[n], x.letter)
               PROVE  FALSE
    BY <1>4, <1>5
  <2>1. f[a] = IF a = Root THEN <<>> ELSE Append(f[c[a].parent], c[a].letter)
    BY DEF Spells
  <2>2. a # Root
    <3>1. f[n] \in Seq(Letters)
      BY <1>3
    <3>2. Append(f[n], x.letter) # <<>>
      BY <3>1
    <3> QED
      BY <2>1, <3>2
  <2>3. a \in 2 .. Len(c) /\ c[a].parent \in 1 .. Len(c)
    <3>1. a \in 2 .. Len(c) /\ c[a].parent \in 1 .. a - 1
      BY <2>2 DEF Root, Shape
    <3> QED
      BY <3>1
  <2>4. f[c[a].parent] = f[n] /\ c[a].letter = x.letter
    <3>1. Append(f[c[a].parent], c[a].letter) = Append(f[n], x.letter)
      BY <2>1, <2>2
    <3>2. /\ f[c[a].parent] \in Seq(Letters) /\ f[n] \in Seq(Letters)
          /\ c[a].letter \in Letters
      BY <2>3, <1>3
    <3> DEFINE u == f[c[a].parent]
               v == f[n]
               y == c[a].letter
               z == x.letter
    <3>3. /\ u \in Seq(Letters) /\ v \in Seq(Letters) /\ y \in Letters /\ z \in Letters
          /\ Append(u, y) = Append(v, z)
      BY <3>1, <3>2
    <3> HIDE DEF u, v, y, z
    <3>4. u = v /\ y = z
      BY <3>3, AppendInjective
    <3> QED
      BY <3>4 DEF u, v, y, z
  <2>5. c[a].parent = n
    BY <2>3, <2>4 DEF Spells
  <2> QED
    BY <2>3, <2>4, <2>5 DEF Child
<1>9. ASSUME NEW a \in 1 .. Len(d), NEW b \in 1 .. Len(d), h[a] = h[b]
      PROVE  a = b
  <2>1. CASE a \in 1 .. Len(c) /\ b \in 1 .. Len(c)
    BY <2>1, <1>4, <1>9 DEF Spells
  <2>2. CASE a = m \/ b = m
    BY <2>2, <1>1, <1>8, <1>9
  <2> QED
    BY <2>1, <2>2, <1>1
<1> QED
  BY <1>6, <1>7, <1>9 DEF Spells, h

-----------------------------------------------------------------------------
(* The map that a tree stands for.                                         *)

\* The map I takes what a named node spells to the index of the node.
Maps(c, f, I) ==
  /\ DOMAIN I = {f[a] : a \in Named(c)}
  /\ I = [s \in DOMAIN I |-> I[s]]
  /\ \A a \in Named(c) : f[a] \in DOMAIN I /\ I[f[a]] = c[a].index
  /\ \A a \in 1 .. Len(c) : f[a] \in DOMAIN I => a \in Named(c)

\* It is the map that the tree stands for.
LEMMA IdsAre ==
  ASSUME NEW c, DOMAIN c = 1 .. Len(c), Len(c) \in Nat, Shape(c), NEW f, Spells(c, f)
  PROVE  Maps(c, f, IdsOf(c))
<1> DEFINE N == Named(c)
           E(s) == c[CHOOSE a \in N : f[a] = s].index
<1>1. Spelling(c) = f
  BY SpellingIs
<1>2. IdsOf(c) = [s \in {f[a] : a \in N} |-> E(s)]
  BY <1>1 DEF IdsOf
<1>3. N \subseteq 1 .. Len(c)
  BY DEF Named
<1>4. \A a, b \in 1 .. Len(c) : f[a] = f[b] => a = b
  BY DEF Spells
<1>5. ASSUME NEW a \in N
      PROVE  E(f[a]) = c[a].index
  <2>1. (CHOOSE b \in N : f[b] = f[a]) = a
    BY <1>3, <1>4
  <2> QED
    BY <2>1
<1> HIDE DEF E, N
<1>6. DOMAIN IdsOf(c) = {f[a] : a \in N}
  BY <1>2
<1>7. \A a \in N : f[a] \in DOMAIN IdsOf(c) /\ IdsOf(c)[f[a]] = c[a].index
  BY <1>2, <1>5
<1>8. \A a \in 1 .. Len(c) : f[a] \in DOMAIN IdsOf(c) => a \in N
  BY <1>3, <1>4, <1>6
<1>9. IdsOf(c) = [s \in DOMAIN IdsOf(c) |-> IdsOf(c)[s]]
  BY <1>2
<1> QED
  BY <1>6, <1>7, <1>8, <1>9 DEF N, Maps

\* Tree d names the same nodes as c, in the same way.
Agree(c, f, d, h, M) ==
  \A a \in M : h[a] = f[a] /\ d[a].index = c[a].index

\* The same names stand for the same map.
LEMMA SameIds ==
  ASSUME NEW c, DOMAIN c = 1 .. Len(c), Len(c) \in Nat, Shape(c), NEW f, Spells(c, f),
         NEW d, DOMAIN d = 1 .. Len(d), Len(d) \in Nat, Shape(d), NEW h, Spells(d, h),
         Named(d) = Named(c), Agree(c, f, d, h, Named(c))
  PROVE  IdsOf(d) = IdsOf(c)
<1>1. /\ DOMAIN IdsOf(c) = {f[a] : a \in Named(c)}
      /\ IdsOf(c) = [s \in DOMAIN IdsOf(c) |-> IdsOf(c)[s]]
      /\ \A a \in Named(c) : IdsOf(c)[f[a]] = c[a].index
  <2>1. Maps(c, f, IdsOf(c))
    BY IdsAre
  <2> QED
    BY <2>1 DEF Maps
<1>2. /\ DOMAIN IdsOf(d) = {h[a] : a \in Named(d)}
      /\ IdsOf(d) = [s \in DOMAIN IdsOf(d) |-> IdsOf(d)[s]]
      /\ \A a \in Named(d) : IdsOf(d)[h[a]] = d[a].index
  <2>1. Maps(d, h, IdsOf(d))
    BY IdsAre
  <2> QED
    BY <2>1 DEF Maps
<1>3. DOMAIN IdsOf(d) = DOMAIN IdsOf(c)
  BY <1>1, <1>2 DEF Agree
<1>4. \A s \in DOMAIN IdsOf(c) : IdsOf(d)[s] = IdsOf(c)[s]
  BY <1>1, <1>2 DEF Agree
<1>5. [s \in DOMAIN IdsOf(d) |-> IdsOf(d)[s]] = [s \in DOMAIN IdsOf(c) |-> IdsOf(c)[s]]
  BY <1>3, <1>4
<1> QED
  BY <1>1, <1>2, <1>5

\* The map with the entry s -> i, new or in the place of another.
WithEntry(I, s, i) == [t \in DOMAIN I \cup {s} |-> IF t = s THEN i ELSE I[t]]

\* One name more is one entry more.
LEMMA OneMore ==
  ASSUME NEW c, DOMAIN c = 1 .. Len(c), Len(c) \in Nat, Shape(c), NEW f, Spells(c, f),
         NEW d, DOMAIN d = 1 .. Len(d), Len(d) \in Nat, Shape(d), NEW h, Spells(d, h),
         NEW a \in 1 .. Len(d), Named(d) = Named(c) \cup {a}, a \notin Named(c),
         Agree(c, f, d, h, Named(c))
  PROVE  /\ h[a] \notin DOMAIN IdsOf(c)
         /\ IdsOf(d) = WithEntry(IdsOf(c), h[a], d[a].index)
<1> DEFINE C == IdsOf(c)
           D == IdsOf(d)
           I == d[a].index
           F == [s \in DOMAIN C \cup {h[a]} |-> IF s = h[a] THEN I ELSE C[s]]
<1>1. /\ DOMAIN C = {f[b] : b \in Named(c)}
      /\ \A b \in Named(c) : C[f[b]] = c[b].index
  <2>1. Maps(c, f, IdsOf(c))
    BY IdsAre
  <2> QED
    BY <2>1 DEF Maps
<1>2. /\ DOMAIN D = {h[b] : b \in Named(d)}
      /\ D = [s \in DOMAIN D |-> D[s]]
      /\ \A b \in Named(d) : D[h[b]] = d[b].index
  <2>1. Maps(d, h, IdsOf(d))
    BY IdsAre
  <2> QED
    BY <2>1 DEF Maps
<1>3. \A b \in Named(c) : h[b] = f[b] /\ d[b].index = c[b].index
  BY DEF Agree
<1>4. Named(d) \subseteq 1 .. Len(d)
  BY DEF Named
<1>5. \A b \in Named(c) : h[b] # h[a]
  BY <1>4 DEF Spells
<1> HIDE DEF C, D, I
<1>6. h[a] \notin DOMAIN C
  BY <1>1, <1>3, <1>5
<1>7. DOMAIN D = DOMAIN C \cup {h[a]}
  BY <1>1, <1>2, <1>3
<1>8. D[h[a]] = I
  BY <1>2 DEF I
<1>9. \A s \in DOMAIN C : D[s] = C[s]
  BY <1>1, <1>2, <1>3
<1>10. [s \in DOMAIN D |-> D[s]] = F
  <2>1. \A s \in DOMAIN D : D[s] = IF s = h[a] THEN I ELSE C[s]
    BY <1>7, <1>8, <1>9
  <2> QED
    BY <1>7, <2>1
<1> QED
  BY <1>2, <1>6, <1>10 DEF C, D, I, WithEntry

-----------------------------------------------------------------------------
(* The invariant of the map, the file and the walk.                        *)

\* The tree stands for a map that knows as many sequences as identifiers were
\* given, and the root has none.
Mapped ==
  /\ Shape(content)
  /\ Spells(content, Spelling(content))
  /\ content # <<>> => content[Root].index = Null
  /\ IsFiniteSet(DOMAIN Ids) /\ last_index = Cardinality(DOMAIN Ids) + 1

\* The file is part of the map, and has nothing newer than was written last.
Recorded ==
  \A i \in DOMAIN file :
    /\ file[i].seq \in DOMAIN Ids /\ Ids[file[i].seq] = file[i].id
    /\ file[i].id <= last_written
    /\ \A j \in DOMAIN file : i < j => file[i].id < file[j].id

\* The call in progress is at a node that spells what it has read, and has passed
\* no child of that node that spells the next letter.
Walked ==
  call # Idle =>
    /\ Spelling(content)[call.node] = SubSeq(call.seq, 1, call.pos - 1)
    /\ call.at \notin {Null, Wild} => Child(content, call.node, call.at)
    /\ \A b : Child(content, call.node, b) /\ content[b].letter = Letter =>
         call.at = Wild \/ (call.at # Null /\ call.at <= b)

\* The inductive invariant, on top of DictInv, and what every step does to the map.
MapInv == Mapped /\ Recorded /\ Walked

Follows == UNCHANGED <<Ids, answer>> \/ Contract!Next

\* The parts of a sequence.
LEMMA Prefixes ==
  ASSUME NEW s \in Sequence
  PROVE  /\ SubSeq(s, 1, 0) = <<>> /\ SubSeq(s, 1, Len(s)) = s
         /\ \A k \in 1 .. Len(s) :
              SubSeq(s, 1, k) = Append(SubSeq(s, 1, k - 1), s[k])
<1>1. s \in Seq(Letters)
  BY Sequences
<1>2. SubSeq(s, 1, 0) = <<>>
  BY SubSeqEmpty
<1>3. SubSeq(s, 1, Len(s)) = s
  BY <1>1, SubSeqFull
<1>4. ASSUME NEW k \in 1 .. Len(s)
      PROVE  SubSeq(s, 1, k) = Append(SubSeq(s, 1, k - 1), s[k])
  <2>0. Len(s) \in Nat /\ s[k] \in Letters /\ \A i \in 1 .. k - 1 : s[i] \in Letters
    BY <1>1
  <2> DEFINE t == SubSeq(s, 1, k - 1)
  <2>1. SubSeq(s, 1, k) = SubSeq(s, 1, k - 1) \o <<s[k]>>
    <3>1. 1 \in 1 .. Len(s) /\ k \in 1 .. Len(s)
      BY <2>0
    <3> QED
      BY <1>1, <3>1, SubSeqRecursiveSecond
  <2>2. t \in Seq(Letters)
    <3>1. 1 \in Int /\ k - 1 \in Int
      BY <2>0
    <3> QED
      BY <2>0, <3>1, SubSeqProperties
  <2> HIDE DEF t
  <2>3. Append(t, s[k]) = t \o <<s[k]>>
    BY <2>0, <2>2, AppendIsConcat
  <2> QED
    BY <2>1, <2>3 DEF t
<1> QED
  BY <1>2, <1>3, <1>4

\* What the type invariant says of the tree.
LEMMA Tree ==
  ASSUME TreeInv
  PROVE  /\ DOMAIN content = 1 .. Len(content) /\ Len(content) \in Nat
         /\ \A a \in 1 .. Len(content) : content[a].letter \in Letters
         /\ Nodes = 1 .. Len(content)
<1>1. content \in Seq(NodeIn(Len(content), last_index))
  BY DEF TreeInv
<1>2. \A a \in 1 .. Len(content) : content[a] \in NodeIn(Len(content), last_index)
  BY <1>1
<1> QED
  BY <1>1, <1>2 DEF NodeIn, Nodes

\* The map gains entries and loses none.
More == \A s \in DOMAIN Ids : s \in DOMAIN Ids' /\ Ids'[s] = Ids[s]

\* Where nothing is written, the file stays part of the map.
LEMMA FileStays ==
  ASSUME Recorded, More, file' = file, last_written' = last_written
  PROVE  Recorded'
BY DEF Recorded, More

\* What a call returns, it may write.
LEMMA FileFollows ==
  ASSUME DictInv, Recorded, More, NEW i \in Nat, NEW c, Return(i, c),
         c.seq \in DOMAIN Ids', Ids'[c.seq] = i
  PROVE  Recorded'
<1>1. /\ file \in Seq(EntryType) /\ last_written \in Nat
  BY DEF DictInv, StreamInv
<1>2. CASE file' = file /\ last_written' = last_written
  BY <1>2, FileStays
<1>3. CASE /\ i > last_written /\ last_written' = i
           /\ file' = Append(file, [id |-> i, seq |-> c.seq])
  <2> DEFINE e == [id |-> i, seq |-> c.seq]
             n == Len(file)
  <2>1. e.id = i /\ e.seq = c.seq
    OBVIOUS
  <2> HIDE DEF e
  <2>2. /\ n \in Nat /\ DOMAIN file = 1 .. n /\ DOMAIN file' = 1 .. n + 1
        /\ file'[n + 1] = e /\ \A j \in 1 .. n : file'[j] = file[j]
    BY <1>1, <1>3 DEF e
  <2>3. \A j \in 1 .. n : file[j].id \in Nat
    <3>1. \A j \in 1 .. n : file[j] \in EntryType
      BY <1>1, <2>2
    <3> QED
      BY <3>1 DEF EntryType
  <2> HIDE DEF n
  <2>4. ASSUME NEW j \in 1 .. n
        PROVE  /\ file[j].seq \in DOMAIN Ids' /\ Ids'[file[j].seq] = file[j].id
               /\ file[j].id <= last_written /\ file[j].id < i /\ file[j].id <= i
    <3>1. /\ file[j].seq \in DOMAIN Ids /\ Ids[file[j].seq] = file[j].id
          /\ file[j].id <= last_written
      BY <2>2 DEF Recorded
    <3>2. file[j].seq \in DOMAIN Ids' /\ Ids'[file[j].seq] = file[j].id
      BY <3>1 DEF More
    <3> QED
      BY <3>1, <3>2, <2>3, <1>1, <1>3
  <2>5. ASSUME NEW j \in 1 .. n + 1
        PROVE  /\ file'[j].seq \in DOMAIN Ids' /\ Ids'[file'[j].seq] = file'[j].id
               /\ file'[j].id <= last_written'
               /\ \A k \in 1 .. n + 1 : j < k => file'[j].id < file'[k].id
    <3>1. CASE j \in 1 .. n
      <4>1. \A k \in 1 .. n : j < k => file[j].id < file[k].id
        BY <2>2, <3>1 DEF Recorded
      <4>2. file'[j] = file[j] /\ file'[n + 1].id = i
        BY <2>1, <2>2, <3>1
      <4>3. \A k \in 1 .. n + 1 : j < k => file'[j].id < file'[k].id
        <5> SUFFICES ASSUME NEW k \in 1 .. n + 1, j < k
                     PROVE  file'[j].id < file'[k].id
          OBVIOUS
        <5>1. CASE k \in 1 .. n
          BY <5>1, <4>1, <4>2, <2>2
        <5>2. CASE k = n + 1
          BY <5>2, <3>1, <4>2, <2>4
        <5> QED
          BY <5>1, <5>2, <2>2
      <4> QED
        BY <3>1, <4>2, <4>3, <2>4, <1>3
    <3>2. CASE j = n + 1
      <4>1. file'[j].seq = c.seq /\ file'[j].id = i
        BY <2>1, <2>2, <3>2
      <4>2. \A k \in 1 .. n + 1 : ~(j < k)
        BY <2>2, <3>2
      <4> QED
        BY <4>1, <4>2, <1>3
    <3> QED
      BY <3>1, <3>2, <2>2
  <2> QED
    BY <2>2, <2>5 DEF Recorded
<1> QED
  BY <1>2, <1>3 DEF Return, Record

\* A call that returns an entry of the map, or a new one, is the contract's Insert.
LEMMA Returning ==
  ASSUME DictInv, Recorded, NEW i \in Nat, NEW c, c.seq \in Sequence, Return(i, c),
         Ids' = WithEntry(Ids, c.seq, i),
         i = IF c.seq \in DOMAIN Ids THEN Ids[c.seq] ELSE Cardinality(DOMAIN Ids) + 1
  PROVE  Recorded' /\ Walked' /\ Follows
<1>1. c.seq \in DOMAIN Ids' /\ Ids'[c.seq] = i /\ More
  BY DEF More, WithEntry
<1>2. Recorded'
  BY <1>1, FileFollows
<1>3. Walked'
  BY DEF Return, Walked
<1>4. Contract!Insert(c.seq)
  <2>1. Contract!NextIndex = Cardinality(DOMAIN Ids) + 1
    BY DEF Contract!NextIndex, Contract!Cardinality, Cardinality
  <2> QED
    BY <2>1 DEF Contract!Insert, Return, WithEntry
<1>5. Contract!Next
  BY <1>4 DEF Contract!Next
<1> QED
  BY <1>2, <1>3, <1>5 DEF Follows

-----------------------------------------------------------------------------
(* The steps of a call.                                                    *)

\* A new node has the fields it is given, and points nowhere.
LEMMA NewNodePoints ==
  ASSUME NEW l, NEW i, NEW p, NEW junk \in Unset
  PROVE  LET x == NewNode(l, i, p, junk)
         IN  /\ x.letter = l /\ x.index = i /\ x.parent = p
             /\ x.first_child = junk.first_child
             /\ x.first_child \in {Null, Wild} /\ x.last_child \in {Null, Wild}
             /\ x.next_sibling \in {Null, Wild}
<1>1. /\ junk.first_child \in {Null, Wild} /\ junk.last_child \in {Null, Wild}
      /\ junk.next_sibling \in {Null, Wild}
  BY DEF Unset
<1> QED
  BY <1>1 DEF NewNode

\* A node added below the one a call is at spells the next part of the sequence.
LEMMA GrownTree ==
  ASSUME DictInv, Mapped, Walked, call # Idle, NotFound, NEW junk \in Unset,
         NEW i \in {Null, last_index},
         last_index' = IF i = Null THEN last_index ELSE last_index + 1,
         content' = AppendChild(call.node, NewNode(Letter, i, call.node, junk))
  PROVE  LET m == Len(content) + 1
         IN  /\ TreeInv' /\ Len(content') = m
             /\ Shape(content') /\ Spells(content', Spelling(content'))
             /\ content'[Root].index = Null
             /\ \A a \in 1 .. Len(content) :
                  /\ Spelling(content')[a] = Spelling(content)[a]
                  /\ content'[a].index = content[a].index
             /\ Spelling(content')[m] = SubSeq(call.seq, 1, call.pos)
             /\ content'[m].index = i /\ content'[m].first_child = junk.first_child
<1> DEFINE n == call.node
           x == NewNode(Letter, i, n, junk)
           f == Spelling(content)
           h == GrownPaths(content, f, n, x, content')
           m == Len(content) + 1
<1>1. /\ TreeInv' /\ Len(content') = m /\ Grown(content, n, x, content')
  BY ChildAdded
<1>2. /\ DOMAIN content = 1 .. Len(content) /\ Len(content) \in Nat
      /\ \A a \in 1 .. Len(content) : content[a].letter \in Letters
      /\ DOMAIN content' = 1 .. Len(content') /\ Len(content') \in Nat
  <2>1. TreeInv
    BY DEF DictInv
  <2>2. DOMAIN content' = 1 .. Len(content') /\ Len(content') \in Nat
    BY <1>1 DEF TreeInv
  <2> QED
    BY <2>1, <2>2, Tree
<1>3. /\ n \in 1 .. Len(content) /\ Letter \in Letters
      /\ call.seq \in Sequence /\ call.pos \in 1 .. Len(call.seq)
  BY AtNode
<1>4. /\ x.letter = Letter /\ x.index = i /\ x.parent = n
      /\ x.first_child = junk.first_child
      /\ {x.first_child, x.last_child, x.next_sibling} \subseteq {Null, Wild}
  BY NewNodePoints
<1> HIDE DEF x
<1>5. Shape(content) /\ Spells(content, f) /\ content[n].last_child # Wild
  BY DEF Mapped, NotFound
<1>6. Shape(content')
  BY <1>1, <1>2, <1>3, <1>4, <1>5, GrownShape
<1>7. \A b : Child(content, n, b) => content[b].letter # x.letter
  <2>1. call.at = Null /\ Null # Wild
    BY WildAssumption DEF NotFound, Null
  <2> QED
    BY <2>1, <1>4 DEF Walked
<1>8. Spells(content', h)
  <2>1. x.parent = n /\ x.letter \in Letters
    BY <1>3, <1>4
  <2> HIDE DEF n, f
  <2> QED
    BY <2>1, <1>1, <1>2, <1>3, <1>5, <1>7, GrownSpells
<1>9. Spelling(content') = h
  BY <1>2, <1>6, <1>8, SpellingIs
<1>10. \A a \in 1 .. Len(content) : h[a] = f[a] /\ content'[a].index = content[a].index
  <2>1. \A a \in 1 .. Len(content) : a \in 1 .. Len(content')
    BY <1>1, <1>2
  <2> QED
    BY <1>1, <2>1 DEF Grown, GrownPaths
<1>11. h[m] = SubSeq(call.seq, 1, call.pos)
  <2>1. h[m] = Append(f[n], Letter)
    BY <1>1, <1>2, <1>4 DEF GrownPaths
  <2>2. f[n] = SubSeq(call.seq, 1, call.pos - 1)
    BY DEF Walked
  <2>3. SubSeq(call.seq, 1, call.pos) =
          Append(SubSeq(call.seq, 1, call.pos - 1), call.seq[call.pos])
    BY <1>3, Prefixes
  <2> QED
    BY <2>1, <2>2, <2>3 DEF Letter
<1>12. content'[m] = x
  BY <1>1 DEF Grown
<1>13. content'[Root].index = Null
  <2>1. Root \in 1 .. Len(content) /\ content # <<>>
    BY <1>2, <1>3 DEF Root
  <2> QED
    BY <2>1, <1>10 DEF Mapped
<1> HIDE DEF h, f, n
<1>14. /\ Spells(content', Spelling(content'))
       /\ \A a \in 1 .. Len(content) : Spelling(content')[a] = f[a]
       /\ Spelling(content')[m] = SubSeq(call.seq, 1, call.pos)
  BY <1>8, <1>9, <1>10, <1>11
<1> QED
  BY <1>1, <1>4, <1>6, <1>10, <1>12, <1>13, <1>14 DEF f

\* A walk that goes on at the first child of a node that spells what was read.
LEMMA WalkOn ==
  ASSUME NEW s, NEW k, NEW n, NEW r, Len(content') \in Nat,
         call' = Walk(s, k, n, content'[n].first_child, r),
         Spelling(content')[n] = SubSeq(s, 1, k - 1), Ended(content', n)
  PROVE  Walked'
<1> DEFINE f == content'[n].first_child
<1>1. /\ call'.seq = s /\ call'.pos = k /\ call'.node = n /\ call'.at = f
  BY DEF Walk
<1>2. Wild \notin Nat /\ Null = 0
  BY WildAssumption DEF Null
<1>3. CASE f \in {Null, Wild} /\ \A b : ~Child(content', n, b)
  BY <1>1, <1>3 DEF Walked
<1>4. CASE Child(content', n, f) /\ \A b : Child(content', n, b) => f <= b
  <2>1. f # Null
    BY <1>2, <1>4 DEF Child
  <2> QED
    BY <1>1, <1>4, <2>1 DEF Walked
<1> HIDE DEF f
<1> QED
  BY <1>3, <1>4 DEF Ended, f

\* The tree is left alone.
LEMMA TreeStaysMapped ==
  ASSUME Mapped, content' = content, last_index' = last_index
  PROVE  Mapped' /\ Ids' = Ids
BY DEF Mapped, Ids

\* An entry more, and an identifier more.
LEMMA Counts ==
  ASSUME Mapped, last_index' = last_index + 1, NEW s, s \notin DOMAIN Ids,
         DOMAIN Ids' = DOMAIN Ids \cup {s}
  PROVE  IsFiniteSet(DOMAIN Ids') /\ last_index' = Cardinality(DOMAIN Ids') + 1
BY FS_AddElement DEF Mapped

\* DescendNew adds a node and no entry.
LEMMA DescendNewMaps ==
  ASSUME DictInv, MapInv, DescendNew
  PROVE  MapInv' /\ Follows
<1> DEFINE m == Len(content) + 1
<1>1. PICK junk \in Unset :
        /\ content' = AppendChild(call.node, NewNode(Letter, Null, call.node, junk))
        /\ call' = Walk(call.seq, call.pos + 1, New, junk.first_child, call.records)
  BY DEF DescendNew
<1>2. NotFound /\ call # Idle /\ UNCHANGED <<last_index, stream, answer>>
  BY DEF DescendNew, NotFound
<1>3. /\ TreeInv' /\ Len(content') = m
      /\ Shape(content') /\ Spells(content', Spelling(content'))
      /\ content'[Root].index = Null
      /\ \A a \in 1 .. Len(content) :
           /\ Spelling(content')[a] = Spelling(content)[a]
           /\ content'[a].index = content[a].index
      /\ Spelling(content')[m] = SubSeq(call.seq, 1, call.pos)
      /\ content'[m].index = Null /\ content'[m].first_child = junk.first_child
  BY <1>1, <1>2, GrownTree DEF MapInv
<1>4. /\ DOMAIN content = 1 .. Len(content) /\ Len(content) \in Nat
      /\ DOMAIN content' = 1 .. m /\ m \in Nat
  <2>1. TreeInv
    BY DEF DictInv
  <2> QED
    BY <2>1, <1>3 DEF TreeInv
<1>5. Named(content') = Named(content)
  <2>1. \A a \in 1 .. m : a \in 1 .. Len(content) \/ a = m
    BY <1>4
  <2>2. \A a \in 1 .. Len(content) : a \in 1 .. m
    BY <1>4
  <2> QED
    BY <1>3, <1>4, <2>1, <2>2 DEF Named
<1>6. Ids' = Ids
  <2> DEFINE f == Spelling(content)
             h == Spelling(content')
  <2>1. Agree(content, f, content', h, Named(content))
    BY <1>3, <1>4 DEF Agree, Named
  <2>2. Shape(content) /\ Spells(content, f)
    BY DEF MapInv, Mapped
  <2>3. DOMAIN content' = 1 .. Len(content') /\ Len(content') \in Nat
    BY <1>3, <1>4
  <2> HIDE DEF f, h
  <2>4. IdsOf(content') = IdsOf(content)
    BY <1>3, <1>4, <1>5, <2>1, <2>2, <2>3, SameIds DEF h
  <2> QED
    BY <2>4 DEF Ids
<1>7. Mapped'
  BY <1>2, <1>3, <1>6 DEF MapInv, Mapped
<1>8. Recorded'
  BY <1>2, <1>6, FileStays DEF MapInv, More, stream
<1>9. Walked'
  <2>1. /\ call' = Walk(call.seq, call.pos + 1, m, content'[m].first_child, call.records)
        /\ call.pos \in Nat
    <3>1. call.pos \in Nat
      BY <1>2, AtNode
    <3> QED
      BY <1>1, <1>3, <3>1 DEF New
  <2>2. Spelling(content')[m] = SubSeq(call.seq, 1, (call.pos + 1) - 1)
    BY <1>3, <2>1
  <2>3. Ended(content', m) /\ Len(content') \in Nat
    <3>1. m \in 1 .. Len(content')
      BY <1>3, <1>4
    <3> QED
      BY <1>3, <1>4, <3>1 DEF Shape
  <2> QED
    BY <2>1, <2>2, <2>3, WalkOn
<1> QED
  BY <1>2, <1>6, <1>7, <1>8, <1>9 DEF MapInv, Follows

\* What the call in progress has found, if it has found the next letter.
LEMMA AtFound ==
  ASSUME DictInv, MapInv, Found
  PROVE  /\ call # Idle /\ call.at \in 1 .. Len(content)
         /\ Child(content, call.node, call.at)
         /\ call.seq \in Sequence /\ call.pos \in 1 .. Len(call.seq)
         /\ Spelling(content)[call.at] = SubSeq(call.seq, 1, call.pos)
         /\ AtLastLetter => Spelling(content)[call.at] = call.seq
<1> DEFINE a == call.at
           n == call.node
           f == Spelling(content)
<1>1. /\ call # Idle /\ a \in 1 .. Len(content) /\ content[a].letter = Letter
      /\ Len(content) \in Nat
  <2>1. DOMAIN content = 1 .. Len(content) /\ Len(content) \in Nat
    BY Tree DEF DictInv
  <2> QED
    BY <2>1 DEF Found
<1>2. /\ call.seq \in Sequence /\ call.pos \in 1 .. Len(call.seq)
  BY <1>1, AtNode
<1>3. Child(content, n, a) /\ f[n] = SubSeq(call.seq, 1, call.pos - 1)
  <2>1. a \notin {Null, Wild}
    BY <1>1, WildAssumption DEF Null
  <2> QED
    BY <1>1, <2>1 DEF MapInv, Walked
<1>4. f[a] = Append(f[n], Letter)
  <2>1. a # Root /\ content[a].parent = n
    BY <1>1, <1>3 DEF Child, Root
  <2> QED
    BY <1>1, <2>1 DEF MapInv, Mapped, Spells
<1>5. f[a] = SubSeq(call.seq, 1, call.pos)
  <2>1. SubSeq(call.seq, 1, call.pos) =
          Append(SubSeq(call.seq, 1, call.pos - 1), call.seq[call.pos])
    BY <1>2, Prefixes
  <2> QED
    BY <2>1, <1>3, <1>4 DEF Letter
<1>6. SubSeq(call.seq, 1, Len(call.seq)) = call.seq
  BY <1>2, Prefixes
<1> QED
  BY <1>1, <1>2, <1>3, <1>5, <1>6 DEF AtLastLetter

\* The map of the tree, in terms of what its nodes spell.
LEMMA IdsOfTree ==
  ASSUME DictInv, Mapped
  PROVE  Maps(content, Spelling(content), Ids)
<1>1. DOMAIN content = 1 .. Len(content) /\ Len(content) \in Nat
  BY Tree DEF DictInv
<1> QED
  BY <1>1, IdsAre DEF Mapped, Ids

\* A sequence that is known.
LEMMA ReturnKnownMaps ==
  ASSUME DictInv, MapInv, ReturnKnown
  PROVE  MapInv' /\ Follows
<1> DEFINE a == call.at
           i == content[a].index
           s == call.seq
<1>1. /\ Found /\ AtLastLetter /\ i # Null /\ Return(i, call)
      /\ content' = content /\ last_index' = last_index
  BY DEF ReturnKnown, tree
<1>2. a \in 1 .. Len(content) /\ s \in Sequence /\ Spelling(content)[a] = s
  BY <1>1, AtFound
<1>3. i \in Nat
  <2>1. content[a] \in NodeIn(Len(content), last_index) /\ last_index \in Nat
    BY <1>2 DEF DictInv, TreeInv
  <2> QED
    BY <2>1 DEF NodeIn
<1>4. s \in DOMAIN Ids /\ Ids[s] = i /\ Ids = [t \in DOMAIN Ids |-> Ids[t]]
  <2>1. a \in Named(content)
    <3>1. a \in DOMAIN content
      BY <1>2, Tree DEF DictInv
    <3> QED
      BY <1>1, <3>1 DEF Named
  <2>2. Maps(content, Spelling(content), Ids)
    BY IdsOfTree DEF MapInv
  <2> QED
    BY <2>1, <2>2, <1>2 DEF Maps
<1>5. Mapped' /\ Ids' = Ids
  BY <1>1, TreeStaysMapped DEF MapInv
<1> HIDE DEF a, i
<1>6. Ids' = WithEntry(Ids, s, i)
  <2>1. DOMAIN Ids \cup {s} = DOMAIN Ids
    BY <1>4
  <2>2. \A t \in DOMAIN Ids : Ids[t] = IF t = s THEN i ELSE Ids[t]
    BY <1>4
  <2> QED
    BY <1>4, <1>5, <2>1, <2>2 DEF WithEntry
<1>7. i = IF s \in DOMAIN Ids THEN Ids[s] ELSE Cardinality(DOMAIN Ids) + 1
  BY <1>4
<1>8. Recorded' /\ Walked' /\ Follows
  BY <1>1, <1>2, <1>3, <1>6, <1>7, Returning DEF MapInv
<1> QED
  BY <1>5, <1>8 DEF MapInv

\* The end of a call that names node a.
LEMMA NamedOne ==
  ASSUME DictInv, MapInv, TreeInv', Shape(content'), Spells(content', Spelling(content')),
         content'[Root].index = Null, last_index' = last_index + 1,
         NEW a \in 1 .. Len(content'), Named(content') = Named(content) \cup {a},
         a \notin Named(content), content'[a].index = last_index,
         Agree(content, Spelling(content), content', Spelling(content'), Named(content)),
         call.seq \in Sequence, Spelling(content')[a] = call.seq, Return(last_index, call)
  PROVE  MapInv' /\ Follows
<1> DEFINE f == Spelling(content)
           h == Spelling(content')
           s == call.seq
<1>1. /\ DOMAIN content = 1 .. Len(content) /\ Len(content) \in Nat
      /\ DOMAIN content' = 1 .. Len(content') /\ Len(content') \in Nat
      /\ last_index \in Nat
  BY DEF DictInv, TreeInv
<1>2. Shape(content) /\ Spells(content, f)
  BY DEF MapInv, Mapped
<1> HIDE DEF f, h
<1>3. /\ h[a] \notin DOMAIN IdsOf(content)
      /\ IdsOf(content') = WithEntry(IdsOf(content), h[a], content'[a].index)
  <2>1. /\ Spells(content', h)
        /\ Agree(content, f, content', h, Named(content))
    BY DEF f, h
  <2> QED
    BY <1>1, <1>2, <2>1, OneMore
<1>4. h[a] = s /\ content'[a].index = last_index
  BY DEF h
<1>5. /\ s \notin DOMAIN Ids
      /\ Ids' = WithEntry(Ids, s, last_index)
  BY <1>3, <1>4 DEF Ids
<1>6. last_index = IF s \in DOMAIN Ids THEN Ids[s] ELSE Cardinality(DOMAIN Ids) + 1
  BY <1>5 DEF MapInv, Mapped
<1>7. Recorded' /\ Walked' /\ Follows
  BY <1>1, <1>5, <1>6, Returning DEF MapInv
<1>8. IsFiniteSet(DOMAIN Ids') /\ last_index' = Cardinality(DOMAIN Ids') + 1
  <2>1. DOMAIN Ids' = DOMAIN Ids \cup {s}
    BY <1>5 DEF WithEntry
  <2> QED
    BY <1>5, <2>1, Counts DEF MapInv
<1>9. Mapped'
  BY <1>8 DEF Mapped
<1> QED
  BY <1>7, <1>9 DEF MapInv

\* A sequence whose last letter is new.
LEMMA ReturnNewMaps ==
  ASSUME DictInv, MapInv, ReturnNew
  PROVE  MapInv' /\ Follows
<1> DEFINE m == Len(content) + 1
<1>1. PICK junk \in Unset :
        content' = AppendChild(call.node, NewNode(Letter, last_index, call.node, junk))
  BY DEF ReturnNew
<1>2. /\ NotFound /\ call # Idle /\ AtLastLetter /\ last_index' = last_index + 1
      /\ Return(last_index, call) /\ last_index \in Nat \ {0}
  BY DEF ReturnNew, NotFound, NextIndex, DictInv, TreeInv
<1>3. /\ TreeInv' /\ Len(content') = m
      /\ Shape(content') /\ Spells(content', Spelling(content'))
      /\ content'[Root].index = Null
      /\ \A a \in 1 .. Len(content) :
           /\ Spelling(content')[a] = Spelling(content)[a]
           /\ content'[a].index = content[a].index
      /\ Spelling(content')[m] = SubSeq(call.seq, 1, call.pos)
      /\ content'[m].index = last_index
  BY <1>1, <1>2, GrownTree DEF MapInv, Null
<1>4. /\ DOMAIN content = 1 .. Len(content) /\ Len(content) \in Nat
      /\ DOMAIN content' = 1 .. m /\ m \in Nat /\ m \notin 1 .. Len(content)
  <2>1. TreeInv
    BY DEF DictInv
  <2> QED
    BY <2>1, <1>3 DEF TreeInv
<1>5. Named(content') = Named(content) \cup {m} /\ m \notin Named(content)
  <2>1. \A a \in 1 .. m : a \in 1 .. Len(content) \/ a = m
    BY <1>4
  <2>2. m \in 1 .. m /\ \A a \in 1 .. Len(content) : a \in 1 .. m
    BY <1>4
  <2>3. last_index # Null
    BY <1>2 DEF Null
  <2> QED
    BY <1>3, <1>4, <2>1, <2>2, <2>3 DEF Named
<1>6. Agree(content, Spelling(content), content', Spelling(content'), Named(content))
  BY <1>3, <1>4 DEF Agree, Named
<1>7. call.seq \in Sequence /\ Spelling(content')[m] = call.seq
  <2>1. call.seq \in Sequence
    BY <1>2, AtNode
  <2> QED
    BY <1>2, <1>3, <2>1, Prefixes DEF AtLastLetter
<1>8. m \in 1 .. Len(content')
  BY <1>3, <1>4
<1> HIDE DEF m
<1> QED
  BY <1>2, <1>3, <1>5, <1>6, <1>7, <1>8, NamedOne

\* A tree in which a node is named is the same in all else.
LEMMA Renamed ==
  ASSUME NEW c, DOMAIN c = 1 .. Len(c), Len(c) \in Nat, Shape(c), NEW f, Spells(c, f),
         NEW d, Len(d) = Len(c),
         \A a \in 1 .. Len(c) :
           /\ d[a].letter = c[a].letter /\ d[a].parent = c[a].parent
           /\ d[a].first_child = c[a].first_child /\ d[a].last_child = c[a].last_child
           /\ d[a].next_sibling = c[a].next_sibling
  PROVE  Shape(d) /\ Spells(d, f)
<1>1. \A p, b : Child(d, p, b) <=> Child(c, p, b)
  <2> SUFFICES ASSUME NEW p, NEW b PROVE Child(d, p, b) <=> Child(c, p, b)
    OBVIOUS
  <2>1. b \in 2 .. Len(c) => d[b].parent = c[b].parent
    OBVIOUS
  <2> QED
    BY <2>1 DEF Child
<1>2. \A b \in 2 .. Len(d) : d[b].parent \in 1 .. b - 1
  <2>1. \A b \in 2 .. Len(c) : d[b].parent = c[b].parent
    OBVIOUS
  <2> QED
    BY <2>1 DEF Shape
<1>3. ASSUME NEW n \in 1 .. Len(d)
      PROVE  Ended(d, n)
  <2>1. Ended(c, n)
    BY DEF Shape
  <2>2. d[n].first_child = c[n].first_child /\ d[n].last_child = c[n].last_child
    OBVIOUS
  <2> QED
    BY <2>1, <2>2, <1>1 DEF Ended
<1>4. ASSUME NEW a \in 2 .. Len(d)
      PROVE  Chained(d, a)
  <2>1. Chained(c, a)
    BY DEF Shape
  <2>2. d[a].parent = c[a].parent /\ d[a].next_sibling = c[a].next_sibling
    OBVIOUS
  <2> QED
    BY <2>1, <2>2, <1>1 DEF Chained
<1>5. Spells(d, f)
  <2>1. \A a \in 1 .. Len(c) : d[a].letter = c[a].letter /\ d[a].parent = c[a].parent
    OBVIOUS
  <2> QED
    BY <2>1 DEF Spells
<1> QED
  BY <1>2, <1>3, <1>4, <1>5 DEF Shape

\* A sequence that was a prefix of others only.
LEMMA ReturnPrefixMaps ==
  ASSUME DictInv, MapInv, DictInv', ReturnPrefix
  PROVE  MapInv' /\ Follows
<1> DEFINE a == call.at
           f == Spelling(content)
<1>1. /\ Found /\ AtLastLetter /\ content[a].index = Null
      /\ content' = [content EXCEPT ![a].index = last_index]
      /\ last_index' = last_index + 1 /\ Return(last_index, call)
  BY DEF ReturnPrefix, NextIndex
<1>2. /\ a \in 1 .. Len(content) /\ Child(content, call.node, a)
      /\ call.seq \in Sequence /\ f[a] = call.seq
  BY <1>1, AtFound
<1>3. /\ DOMAIN content = 1 .. Len(content) /\ Len(content) \in Nat
      /\ last_index \in Nat \ {0}
      /\ content \in Seq(NodeIn(Len(content), last_index)) /\ TreeInv'
  BY DEF DictInv, TreeInv
<1>4. content[a] \in NodeIn(Len(content), last_index)
  BY <1>2, <1>3
<1> HIDE DEF a
<1>5. /\ Len(content') = Len(content) /\ DOMAIN content' = 1 .. Len(content)
      /\ \A b \in 1 .. Len(content) :
           content'[b] = IF b = a THEN [content[a] EXCEPT !.index = last_index]
                         ELSE content[b]
  BY <1>1, <1>2, <1>3
<1>6. ASSUME NEW b \in 1 .. Len(content)
      PROVE  /\ content'[b].letter = content[b].letter
             /\ content'[b].parent = content[b].parent
             /\ content'[b].first_child = content[b].first_child
             /\ content'[b].last_child = content[b].last_child
             /\ content'[b].next_sibling = content[b].next_sibling
             /\ content'[b].index = IF b = a THEN last_index ELSE content[b].index
  <2>1. CASE b = a
    BY <2>1, <1>2, <1>4, <1>5 DEF NodeIn
  <2>2. CASE b # a
    BY <2>2, <1>5
  <2> QED
    BY <2>1, <2>2
<1>7. Shape(content') /\ Spells(content', f)
  <2>1. Shape(content) /\ Spells(content, f)
    BY DEF MapInv, Mapped
  <2> HIDE DEF f
  <2> QED
    BY <2>1, <1>3, <1>5, <1>6, Renamed
<1>8. Spelling(content') = f
  <2>1. DOMAIN content' = 1 .. Len(content') /\ Len(content') \in Nat
    BY <1>3, <1>5
  <2> HIDE DEF f
  <2> QED
    BY <2>1, <1>7, SpellingIs
<1>9. content'[Root].index = Null
  <2>1. Root \in 1 .. Len(content) /\ Root # a /\ content # <<>>
    BY <1>2, <1>3 DEF Child, Root
  <2> QED
    BY <2>1, <1>6 DEF MapInv, Mapped
<1>10. Named(content') = Named(content) \cup {a} /\ a \notin Named(content)
  <2>1. last_index # Null
    BY <1>3 DEF Null
  <2>2. content[a].index = Null
    BY <1>1 DEF a
  <2> QED
    BY <2>1, <2>2, <1>2, <1>3, <1>5, <1>6 DEF Named
<1>11. Agree(content, f, content', f, Named(content))
  <2>1. \A b \in Named(content) : b \in 1 .. Len(content) /\ b # a
    BY <1>3, <1>10 DEF Named
  <2> QED
    BY <2>1, <1>6 DEF Agree
<1>12. a \in 1 .. Len(content') /\ content'[a].index = last_index
  BY <1>2, <1>5, <1>6
<1> HIDE DEF f
<1>13. /\ Spells(content', Spelling(content')) /\ Spelling(content')[a] = call.seq
       /\ Agree(content, Spelling(content), content', Spelling(content'), Named(content))
  BY <1>2, <1>7, <1>8, <1>11 DEF f
<1> QED
  BY <1>1, <1>2, <1>3, <1>7, <1>9, <1>10, <1>12, <1>13, NamedOne

\* No sequence has one letter: main is never alone on the stack.  (The first one
\* inserted would get a second identifier later, see InsertFirst.)
LongSequences == \A s \in Sequence : Len(s) > 1

\* The trees without a named node stand for the empty map.
LEMMA Nameless ==
  ASSUME NEW c, Named(c) = {}
  PROVE  IdsOf(c) = <<>>
<1> DEFINE E(s) == c[CHOOSE a \in Named(c) : Spelling(c)[a] = s].index
<1>1. IdsOf(c) = [s \in {Spelling(c)[a] : a \in Named(c)} |-> E(s)]
  BY DEF IdsOf
<1> HIDE DEF E
<1>2. {Spelling(c)[a] : a \in Named(c)} = {}
  OBVIOUS
<1>3. IdsOf(c) = [s \in {} |-> E(s)]
  BY <1>1, <1>2
<1>4. [s \in {} |-> E(s)] = <<>>
  OBVIOUS
<1> QED
  BY <1>3, <1>4

\* The empty tree stands for the empty map.
LEMMA Initially == Init => MapInv /\ Contract!Init
<1> SUFFICES ASSUME Init PROVE MapInv /\ Contract!Init
  OBVIOUS
<1>1. content = <<>> /\ Len(content) = 0 /\ DOMAIN content = 1 .. Len(content)
  BY DEF Init
<1>2. Ids = <<>> /\ DOMAIN Ids = {}
  <2>1. Named(content) = {}
    BY <1>1 DEF Named
  <2>2. Ids = <<>>
    BY <2>1, Nameless DEF Ids
  <2> QED
    BY <2>2
<1>3. Shape(content)
  BY <1>1 DEF Shape
<1>4. Spells(content, Spelling(content))
  <2>1. Spells(content, <<>>)
    BY <1>1 DEF Spells
  <2>2. Spelling(content) = <<>>
    BY <1>1, <1>3, <2>1, SpellingIs
  <2> QED
    BY <2>1, <2>2
<1>5. Mapped
  BY <1>1, <1>2, <1>3, <1>4, FS_EmptySet DEF Mapped, Init, Null
<1>6. Recorded /\ Walked
  BY DEF Init, Recorded, Walked
<1>7. Contract!Init
  BY <1>2 DEF Init, NoCall, Contract!Init, Contract!NoCall
<1> QED
  BY <1>5, <1>6, <1>7 DEF MapInv

\* A call that starts at the root.
LEMMA InsertFirstMaps ==
  ASSUME DictInv, MapInv, DictInv', LongSequences,
         NEW s \in Sequence, NEW r \in BOOLEAN, InsertFirst(s, r)
  PROVE  MapInv' /\ Follows
<1>1. PICK junk \in Unset :
        /\ content' = <<NewNode(s[1], Null, Null, junk)>>
        /\ call' = Walk(s, 1, Root, junk.first_child, r)
        /\ UNCHANGED <<last_index, stream, answer>>
  <2>1. Len(s) # 1
    <3>1. Len(s) > 1 /\ Len(s) \in Nat
      BY Sequences DEF LongSequences
    <3>2. \A n \in Nat : n > 1 => n # 1
      OBVIOUS
    <3> QED
      BY <3>1, <3>2
  <2> QED
    BY <2>1 DEF InsertFirst
<1> DEFINE x == NewNode(s[1], Null, Null, junk)
           h == [a \in 1 .. 1 |-> <<>>]
<1>2. /\ x.index = Null /\ x.first_child = junk.first_child
      /\ x.first_child \in {Null, Wild} /\ x.last_child \in {Null, Wild}
  BY NewNodePoints
<1> HIDE DEF x
<1>3. /\ Len(content') = 1 /\ DOMAIN content' = 1 .. 1 /\ content'[1] = x
  BY <1>1 DEF x
<1>4. \A p, b : ~Child(content', p, b)
  BY <1>3 DEF Child
<1>5. Shape(content') /\ Ended(content', 1)
  <2>1. Ended(content', 1)
    BY <1>2, <1>3, <1>4 DEF Ended
  <2> QED
    BY <1>3, <2>1 DEF Shape
<1>6. Spells(content', h)
  <2>1. h \in [1 .. 1 -> Seq(Letters)] /\ h[1] = <<>>
    OBVIOUS
  <2> HIDE DEF h
  <2> QED
    BY <1>3, <2>1 DEF Spells, Root
<1>7. Spelling(content') = h /\ h[1] = <<>>
  <2>1. h[1] = <<>>
    OBVIOUS
  <2> HIDE DEF h
  <2> QED
    BY <1>3, <1>5, <1>6, <2>1, SpellingIs
<1>8. Ids' = Ids
  <2>1. Named(content') = {}
    BY <1>2, <1>3 DEF Named
  <2>2. Named(content) = {}
    BY DEF InsertFirst, Named
  <2> QED
    BY <2>1, <2>2, Nameless DEF Ids
<1>9. Mapped'
  <2>1. content'[Root].index = Null
    BY <1>2, <1>3 DEF Root
  <2> HIDE DEF h
  <2> QED
    BY <1>1, <1>5, <1>6, <1>7, <1>8, <2>1 DEF MapInv, Mapped
<1>10. Recorded'
  BY <1>1, <1>8, FileStays DEF MapInv, More, stream
<1>11. Walked'
  <2>1. call' = Walk(s, 1, 1, content'[1].first_child, r)
    BY <1>1, <1>2, <1>3 DEF Root
  <2>2. Spelling(content')[1] = SubSeq(s, 1, 1 - 1)
    BY <1>7, Prefixes
  <2>3. Len(content') \in Nat
    BY <1>3
  <2> QED
    BY <1>5, <2>1, <2>2, <2>3, WalkOn
<1> QED
  BY <1>1, <1>8, <1>9, <1>10, <1>11 DEF MapInv, Follows

\* The steps of a call that change nothing but the call.
LEMMA MovesMap ==
  ASSUME DictInv, MapInv, UNCHANGED <<tree, stream, answer>>, Walked'
  PROVE  MapInv' /\ Follows
<1>1. Mapped' /\ Ids' = Ids
  BY TreeStaysMapped DEF MapInv, tree
<1>2. Recorded'
  BY <1>1, FileStays DEF MapInv, More, stream
<1> QED
  BY <1>1, <1>2 DEF MapInv, Follows

\* A call that is not the first.
LEMMA InsertMaps ==
  ASSUME DictInv, MapInv, NEW s \in Sequence, NEW r \in BOOLEAN, Insert(s, r)
  PROVE  MapInv' /\ Follows
<1>1. /\ content # <<>> /\ UNCHANGED <<tree, stream, answer>> /\ content' = content
      /\ call' = Walk(s, 1, Root, content[Root].first_child, r)
  BY DEF Insert, tree
<1>2. Root \in 1 .. Len(content) /\ Len(content) \in Nat
  BY <1>1 DEF DictInv, TreeInv, Root
<1>3. Ended(content, Root) /\ Spelling(content)[Root] = <<>>
  BY <1>2 DEF MapInv, Mapped, Shape, Spells
<1>4. Spelling(content)[Root] = SubSeq(s, 1, 1 - 1)
  BY <1>3, Prefixes
<1>5. Walked'
  BY <1>1, <1>2, <1>3, <1>4, WalkOn
<1> QED
  BY <1>1, <1>5, MovesMap

\* The walk goes down to a child that is there,
LEMMA DescendFoundMaps ==
  ASSUME DictInv, MapInv, DescendFound
  PROVE  MapInv' /\ Follows
<1>1. /\ Found /\ UNCHANGED <<tree, stream, answer>> /\ content' = content
      /\ call' = Walk(call.seq, call.pos + 1, call.at,
                      content[call.at].first_child, call.records)
  BY DEF DescendFound, tree
<1>2. /\ call.at \in 1 .. Len(content) /\ Len(content) \in Nat /\ call.pos \in Nat
      /\ Spelling(content)[call.at] = SubSeq(call.seq, 1, call.pos)
  <2>1. /\ call.at \in 1 .. Len(content) /\ call.pos \in 1 .. Len(call.seq)
        /\ Spelling(content)[call.at] = SubSeq(call.seq, 1, call.pos)
    BY <1>1, AtFound
  <2>2. Len(content) \in Nat
    BY Tree DEF DictInv
  <2> QED
    BY <2>1, <2>2
<1>3. Spelling(content)[call.at] = SubSeq(call.seq, 1, (call.pos + 1) - 1)
  BY <1>2
<1>4. Ended(content, call.at)
  BY <1>2 DEF MapInv, Mapped, Shape
<1>5. Walked'
  BY <1>1, <1>2, <1>3, <1>4, WalkOn
<1> QED
  BY <1>1, <1>5, MovesMap

\* or on to the next one.
LEMMA NextSiblingMaps ==
  ASSUME DictInv, MapInv, NextSibling
  PROVE  MapInv' /\ Follows
<1> DEFINE a == call.at
           n == call.node
           x == content[a].next_sibling
<1>1. /\ call # Idle /\ a \in DOMAIN content /\ content[a].letter # Letter
      /\ call' = [call EXCEPT !.at = x]
      /\ UNCHANGED <<tree, stream, answer>> /\ content' = content
  BY DEF NextSibling, tree
<1>2. a \in 1 .. Len(content) /\ Len(content) \in Nat /\ DOMAIN content = 1 .. Len(content)
  BY <1>1, Tree DEF DictInv
<1>3. /\ Child(content, n, a) /\ Spelling(content)[n] = SubSeq(call.seq, 1, call.pos - 1)
      /\ \A b : Child(content, n, b) /\ content[b].letter = Letter => a <= b
  <2>1. a \notin {Null, Wild}
    BY <1>2, WildAssumption DEF Null
  <2> QED
    BY <1>1, <2>1 DEF MapInv, Walked
<1>4. Chained(content, a) /\ content[a].parent = n
  BY <1>2, <1>3 DEF MapInv, Mapped, Shape, Child
<1>5. Wild \notin Nat /\ Null = 0
  BY WildAssumption DEF Null
<1>6. /\ x \notin {Null, Wild} => Child(content, n, x)
      /\ \A b : Child(content, n, b) /\ content[b].letter = Letter =>
           x = Wild \/ (x # Null /\ x <= b)
  <2>1. ASSUME NEW b, Child(content, n, b), content[b].letter = Letter
        PROVE  ~(b <= a)
    <3>1. a <= b /\ b # a /\ b \in Nat
      BY <1>1, <1>3, <2>1 DEF Child
    <3> QED
      BY <1>2, <3>1
  <2> HIDE DEF x, a, n
  <2>2. CASE x \in {Null, Wild} /\ \A b : Child(content, n, b) => b <= a
    BY <2>1, <2>2
  <2>3. CASE Child(content, n, x) /\ \A b : Child(content, n, b) => b <= a \/ x <= b
    <3>1. x # Null
      BY <1>5, <2>3 DEF Child
    <3> QED
      BY <2>1, <2>3, <3>1
  <2> QED
    BY <1>4, <2>2, <2>3 DEF Chained, x
<1>7. /\ call'.seq = call.seq /\ call'.pos = call.pos /\ call'.node = n /\ call'.at = x
  <2>1. CallInv
    BY DEF DictInv
  <2> QED
    BY <1>1, <2>1
<1> HIDE DEF x, n
<1>8. Walked'
  BY <1>1, <1>3, <1>6, <1>7 DEF Walked, Letter
<1> QED
  BY <1>1, <1>8, MovesMap

\* The file is empty when it is opened,
LEMMA OpenMaps ==
  ASSUME DictInv, MapInv, Open
  PROVE  MapInv' /\ Follows
<1>1. /\ file' = <<>> /\ call' = call /\ answer' = answer
      /\ content' = content /\ last_index' = last_index
  BY DEF Open, tree
<1>2. Mapped' /\ Ids' = Ids
  BY <1>1, TreeStaysMapped DEF MapInv
<1>3. Recorded' /\ Walked'
  BY <1>1, <1>2 DEF MapInv, Recorded, Walked, Letter
<1> QED
  BY <1>1, <1>2, <1>3 DEF MapInv, Follows

\* and keeps what it has when it is closed.
LEMMA CloseMaps ==
  ASSUME DictInv, MapInv, Close \/ UNCHANGED vars
  PROVE  MapInv' /\ Follows
<1>1. /\ file' = file /\ last_written' = last_written /\ call' = call /\ answer' = answer
      /\ content' = content /\ last_index' = last_index
  BY DEF Close, tree, vars
<1>2. Mapped' /\ Ids' = Ids
  BY <1>1, TreeStaysMapped DEF MapInv
<1>3. Recorded' /\ Walked'
  BY <1>1, <1>2 DEF MapInv, Recorded, Walked, Letter
<1> QED
  BY <1>1, <1>2, <1>3 DEF MapInv, Follows

\* Every step keeps the map, and is a step of the contract or none.
LEMMA Maintains ==
  ASSUME LongSequences, DictInv, MapInv, DictInv', [Next]_vars
  PROVE  MapInv' /\ Follows
<1>1. ASSUME NEW s \in Sequence, NEW r \in BOOLEAN, InsertFirst(s, r) \/ Insert(s, r)
      PROVE  MapInv' /\ Follows
  BY <1>1, InsertFirstMaps, InsertMaps
<1>2. CASE NextSibling
  BY <1>2, NextSiblingMaps
<1>3. CASE DescendFound
  BY <1>3, DescendFoundMaps
<1>4. CASE DescendNew
  BY <1>4, DescendNewMaps
<1>5. CASE ReturnKnown
  BY <1>5, ReturnKnownMaps
<1>6. CASE ReturnPrefix
  BY <1>6, ReturnPrefixMaps
<1>7. CASE ReturnNew
  BY <1>7, ReturnNewMaps
<1>8. CASE Open
  BY <1>8, OpenMaps
<1>9. CASE Close \/ UNCHANGED vars
  BY <1>9, CloseMaps
<1> QED
  BY <1>1, <1>2, <1>3, <1>4, <1>5, <1>6, <1>7, <1>8, <1>9 DEF Next

\* The dictionary never leaves this invariant either.
LEMMA MapInvariance ==
  ASSUME LongSequences
  PROVE  Spec => [](DictInv /\ MapInv)
<1>1. Init => DictInv /\ MapInv
  BY Start, Initially
<1>2. DictInv /\ MapInv /\ [Next]_vars => (DictInv /\ MapInv)'
  BY Steps, Maintains
<1> QED
  BY <1>1, <1>2, PTL DEF Spec

\* dictionary.hpp:143: what is in the file is in the dictionary, once and in order.
THEOREM FileFollowsMap ==
  ASSUME LongSequences
  PROVE  Spec => []FileExact
<1>1. DictInv /\ MapInv => FileExact
  BY DEF MapInv, Recorded, FileExact
<1> QED
  BY <1>1, MapInvariance, PTL

\* dictionary.hpp:42: the dictionary associates a sequence with a unique identifier.
THEOREM ImplementsMap ==
  ASSUME LongSequences
  PROVE  Spec => IsDictionary
<1>1. Init => Contract!Init
  BY Initially
<1>2. DictInv /\ MapInv /\ [Next]_vars => [Contract!Next]_<<Ids, answer>>
  BY Steps, Maintains DEF Follows
<1>3. Spec => [](DictInv /\ MapInv)
  BY MapInvariance
<1>4. Spec => Contract!Spec
  BY <1>1, <1>2, <1>3, PTL DEF Spec, Contract!Spec
<1> QED
  BY <1>4 DEF IsDictionary

===============================================================================
