------------------------------ MODULE Dictionary ------------------------------
(***************************************************************************)
(* The dictionary of stack traces (dictionary.hpp) on its tree of letters  *)
(* (tree.hpp).  A sequence is spelled by the nodes on a path that starts   *)
(* below the root; the node of its last letter holds its identifier.  A    *)
(* call of insert walks down the tree, one action for each sibling that    *)
(* std::find compares and for each call of insert_recursive.               *)
(*                                                                         *)
(* tree<T>::node leaves its four child and sibling pointers unset; with    *)
(* Garbage a new node holds whatever its memory held, Wild or null, and    *)
(* the model stops where the code follows a Wild pointer.                  *)
(***************************************************************************)
EXTENDS Naturals, Sequences

CONSTANTS Sequence,   \* the sequences that are inserted
          Garbage,    \* may the memory of a new node be other than zero?
          Wild        \* a pointer that no assignment has set

ASSUME SequenceAssumption ==
  \A s \in Sequence : s \in Seq({s[i] : i \in DOMAIN s}) /\ s # <<>>
ASSUME GarbageAssumption == Garbage \in BOOLEAN
ASSUME WildAssumption == Wild \notin Nat

VARIABLES content,    \* the nodes, in the order they were allocated
          last_index, \* the next identifier to give
          opened, file, last_written,   \* the stream that records the entries
          call,       \* the call of insert in progress
          answer      \* the last call that returned: its sequence and its result

vars == <<content, last_index, opened, file, last_written, call, answer>>
tree == <<content, last_index>>
stream == <<opened, file, last_written>>

Null == 0             \* the null pointer, and null_index of a static dictionary
Root == 1

NoCall == [of |-> <<>>, is |-> 0]
Idle == [seq |-> <<>>, pos |-> 0, node |-> Null, at |-> Null, records |-> FALSE]

Init ==
  /\ content = <<>> /\ last_index = Null + 1
  /\ opened = FALSE /\ file = <<>> /\ last_written = 0
  /\ call = Idle /\ answer = NoCall

-----------------------------------------------------------------------------
(* tree.hpp.                                                               *)

\* What the pointers that a new node leaves unset may hold.
Unset == [first_child : IF Garbage THEN {Null, Wild} ELSE {Null},
          last_child : IF Garbage THEN {Null, Wild} ELSE {Null},
          next_sibling : IF Garbage THEN {Null, Wild} ELSE {Null}]

\* The address of the next node.
New == Len(content) + 1

NewNode(letter, index, parent, junk) ==
  [letter |-> letter, index |-> index, parent |-> parent,
   first_child |-> junk.first_child, last_child |-> junk.last_child,
   next_sibling |-> junk.next_sibling]

\* iterator::append_child on node n.
AppendChildFaulty(n, x) ==
  LET c == Append(content, x)
  IN  IF content[n].last_child = Null
      THEN [c EXCEPT ![n].last_child = New, ![n].first_child = New]
      ELSE [c EXCEPT ![n].last_child = New, ![n].first_child = New]

AppendChild(n, x) ==
  LET c == Append(content, x)
      l == content[n].last_child
  IN  IF l = Null
      THEN [c EXCEPT ![n].last_child = New, ![n].first_child = New]
      ELSE [c EXCEPT ![l].next_sibling = New, ![n].last_child = New]

-----------------------------------------------------------------------------
(* insert.  A call that records is the one of dictionary::insert on a      *)
(* container; the one on two iterators does not write the file.            *)

Letter == call.seq[call.pos]
AtLastLetter == call.pos = Len(call.seq)

\* insert_recursive on node n with the letters from position k.
Walk(s, k, n, first, records) ==
  [seq |-> s, pos |-> k, node |-> n, at |-> first, records |-> records]

\* The return of insert(container): the entry is written when it is newer than
\* the last one written.
RecordFaulty(i, c) ==
  IF c.records /\ i >= last_written /\ opened
  THEN /\ file' = Append(file, [id |-> i, seq |-> c.seq])
       /\ last_written' = i
  ELSE UNCHANGED <<file, last_written>>

RecordAhead(i, c) ==
  IF c.records /\ i > last_written /\ opened
  THEN /\ file' = Append(file, [id |-> i, seq |-> c.seq])
       /\ last_written' = i + 1
  ELSE UNCHANGED <<file, last_written>>

Record(i, c) ==
  IF c.records /\ i > last_written /\ opened
  THEN /\ file' = Append(file, [id |-> i, seq |-> c.seq])
       /\ last_written' = i
  ELSE UNCHANGED <<file, last_written>>

Return(i, c) ==
  /\ answer' = [of |-> c.seq, is |-> i]
  /\ call' = Idle
  /\ Record(i, c)
  /\ UNCHANGED opened

\* The first insertion of all: a root that holds the first letter, below which
\* the whole sequence goes, unless that letter is the whole sequence.
InsertFirst(s, records) ==
  /\ call = Idle /\ content = <<>>
  /\ \E junk \in Unset :
       LET w == Walk(s, 1, Root, junk.first_child, records)
       IN  IF Len(s) = 1
           THEN /\ content' = <<NewNode(s[1], last_index, Null, junk)>>
                /\ last_index' = last_index + 1
                /\ Return(last_index, w)
           ELSE /\ content' = <<NewNode(s[1], Null, Null, junk)>>
                /\ call' = w
                /\ UNCHANGED <<last_index, stream, answer>>

Insert(s, records) ==
  /\ call = Idle /\ content # <<>>
  /\ call' = Walk(s, 1, Root, content[Root].first_child, records)
  /\ UNCHANGED <<tree, stream, answer>>

\* std::find, one sibling at a time.
NextSiblingFaulty ==
  /\ call # Idle /\ call.at \in DOMAIN content
  /\ content[call.at].letter # Letter
  /\ UNCHANGED vars

NextSibling ==
  /\ call # Idle /\ call.at \in DOMAIN content
  /\ content[call.at].letter # Letter
  /\ call' = [call EXCEPT !.at = content[call.at].next_sibling]
  /\ UNCHANGED <<tree, stream, answer>>

Found ==
  /\ call # Idle /\ call.at \in DOMAIN content
  /\ content[call.at].letter = Letter
NotFound ==
  call # Idle /\ call.at = Null /\ content[call.node].last_child # Wild

DescendFound ==
  /\ Found /\ ~AtLastLetter
  /\ call' = Walk(call.seq, call.pos + 1, call.at,
                  content[call.at].first_child, call.records)
  /\ UNCHANGED <<tree, stream, answer>>

ReturnKnown ==
  /\ Found /\ AtLastLetter
  /\ content[call.at].index # Null
  /\ Return(content[call.at].index, call)
  /\ UNCHANGED tree

\* The sequence is a proper prefix of others, and new.
NextIndexFaulty == last_index

NextIndex == last_index + 1

ReturnPrefix ==
  /\ Found /\ AtLastLetter
  /\ content[call.at].index = Null
  /\ content' = [content EXCEPT ![call.at].index = last_index]
  /\ last_index' = NextIndex
  /\ Return(last_index, call)

DescendNew ==
  /\ NotFound /\ ~AtLastLetter
  /\ \E junk \in Unset :
       /\ content' = AppendChild(call.node, NewNode(Letter, Null, call.node, junk))
       /\ call' = Walk(call.seq, call.pos + 1, New, junk.first_child, call.records)
  /\ UNCHANGED <<last_index, stream, answer>>

ReturnNew ==
  /\ NotFound /\ AtLastLetter
  /\ \E junk \in Unset :
       content' = AppendChild(call.node,
                              NewNode(Letter, last_index, call.node, junk))
  /\ last_index' = NextIndex
  /\ Return(last_index, call)

\* open truncates the file; close and open are refused in the wrong state.
Open ==
  /\ call = Idle /\ ~opened
  /\ opened' = TRUE /\ file' = <<>>
  /\ UNCHANGED <<tree, last_written, call, answer>>

Close ==
  /\ call = Idle /\ opened
  /\ opened' = FALSE
  /\ UNCHANGED <<tree, file, last_written, call, answer>>

Next ==
  \/ \E s \in Sequence, r \in BOOLEAN : InsertFirst(s, r) \/ Insert(s, r)
  \/ NextSibling \/ DescendFound \/ DescendNew
  \/ ReturnKnown \/ ReturnPrefix \/ ReturnNew
  \/ Open \/ Close

Spec == Init /\ [][Next]_vars /\ WF_vars(NextSibling \/ DescendFound \/ DescendNew
                                         \/ ReturnKnown \/ ReturnPrefix \/ ReturnNew)

==============================================================================
