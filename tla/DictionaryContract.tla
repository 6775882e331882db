-------------------------- MODULE DictionaryContract --------------------------
(***************************************************************************)
(* What a dictionary promises (dictionary.hpp): it associates a sequence   *)
(* with a unique identifier, the same each time the sequence is inserted.  *)
(***************************************************************************)
EXTENDS Naturals, FiniteSets

CONSTANT Sequence     \* the sequences that are inserted

VARIABLES ids,        \* the sequences inserted so far -> their identifiers
          answer      \* the last call that returned: its sequence and its result

NoCall == [of |-> <<>>, is |-> 0]

Init == ids = <<>> /\ answer = NoCall

\* The next identifier never given.
NextIndex == Cardinality(DOMAIN ids) + 1

Insert(s) ==
  LET i == IF s \in DOMAIN ids THEN ids[s] ELSE NextIndex
  IN  /\ ids' = [t \in DOMAIN ids \cup {s} |-> IF t = s THEN i ELSE ids[t]]
      /\ answer' = [of |-> s, is |-> i]

Next == \E s \in Sequence : Insert(s)

Spec == Init /\ [][Next]_<<ids, answer>>

==============================================================================
