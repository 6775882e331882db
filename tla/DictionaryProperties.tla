------------------------- MODULE DictionaryProperties -------------------------
(***************************************************************************)
(* What makes the dictionary correct: the tree, whatever order sequences   *)
(* and their prefixes arrive in, stands for a map from sequences to        *)
(* identifiers, and the file follows the map.                              *)
(***************************************************************************)
EXTENDS Dictionary, FiniteSets

Nodes == DOMAIN content
Pointer == 0 .. Len(content) \cup {Wild}
Letters == UNION {{s[i] : i \in DOMAIN s} : s \in Sequence}

\* Type invariant: pointers lead to nodes, and an index is 0 or one given out.
TypeOK ==
  /\ last_index \in Nat \ {0} /\ last_written \in Nat
  /\ content \in Seq([letter : Letters, index : 0 .. last_index - 1,
                      parent : 0 .. Len(content), first_child : Pointer,
                      last_child : Pointer, next_sibling : Pointer])
  /\ opened \in BOOLEAN
  /\ file \in Seq([id : Nat, seq : Sequence])
  /\ answer \in [of : Sequence \cup {<<>>}, is : Nat]
  /\ call # Idle =>
       /\ call.seq \in Sequence /\ call.pos \in DOMAIN call.seq
       /\ call.node \in Nodes /\ call.at \in Pointer /\ call.records \in BOOLEAN

\* No identifier is given to two nodes.
IdsUnique ==
  \A a, b \in Nodes :
    content[a].index = content[b].index /\ content[a].index # Null => a = b

-----------------------------------------------------------------------------
(* The map that the tree stands for.                                       *)

\* The sequence a node of tree c spells: the letters below the root down to it.
Spelling(c) ==
  LET Path[a \in DOMAIN c] ==
        IF a = Root THEN <<>> ELSE Append(Path[c[a].parent], c[a].letter)
  IN  Path

Named(c) == {a \in DOMAIN c : c[a].index # Null}

IdsOf(c) ==
  LET path == Spelling(c)
  IN  [s \in {path[a] : a \in Named(c)} |->
         c[CHOOSE a \in Named(c) : path[a] = s].index]

Ids == IdsOf(content)

Contract == INSTANCE DictionaryContract WITH ids <- Ids

\* dictionary.hpp:42: the dictionary associates a sequence with a unique
\* identifier.  Every walk down the tree, whatever it adds on its way, takes
\* effect at once when it returns: it answers with the identifier of its
\* sequence, which is fresh when the sequence is new.
IsDictionary == Contract!Spec

-----------------------------------------------------------------------------
(* The file.                                                               *)

\* An entry is written once, in the order of the identifiers, and is an entry of
\* the dictionary.
FileExact ==
  /\ \A i, j \in DOMAIN file : i < j => file[i].id < file[j].id
  /\ \A i \in DOMAIN file :
       file[i].seq \in DOMAIN Ids /\ Ids[file[i].seq] = file[i].id

\* dictionary.hpp:143: the file is updated every time a new entry is added, by
\* a call that records it, while the file is open.
NewEntryWritten ==
  [][call.records /\ opened /\ last_index' > last_index
       => file' = Append(file, [id |-> last_index, seq |-> call.seq])]_vars

\* A call of insert returns: the walk meets no cycle of siblings.
InsertReturns == call # Idle ~> call = Idle

==============================================================================
