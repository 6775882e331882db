------------------------------- MODULE Offsets -------------------------------
(***************************************************************************)
(* What an offset_tracker remembers (offsets.hpp), laid out as in module   *)
(* Sizes: one operation on the offset, then an oracle over the operations  *)
(* seen, then, past OffsetLimit of them, nothing: it predicts that the     *)
(* next access follows the last.                                           *)
(*                                                                         *)
(* The default constructor of offset_op leaves offset_ unset, and that is  *)
(* how an operation "following" is made.  The comparisons read the field   *)
(* all the same; Memory is the set of values that it may then hold.        *)
(***************************************************************************)
EXTENDS Integers, Sequences, FiniteSets

CONSTANTS OffsetLimit,  \* twenty-four, in the code
          Memory

INSTANCE OracleContract
         WITH Terminal <- Nat, log <- <<>>, busy <- FALSE, predicted <- {}

\* A map of one entry, and a map with the entry of x set.
Single(x, v) == [y \in {x} |-> v]
Put(f, x, v) == [y \in DOMAIN f \cup {x} |-> IF y = x THEN v ELSE f[y]]

following(m) == [type |-> "FOLLOWING", offset |-> m]
offset_op(s, t) == [type |-> t, offset |-> s]

get_offset_after(op, start, size) ==
  CASE op.type = "FOLLOWING" -> start + size
    [] op.type = "RELATIVE"  -> start + size + op.offset
    [] op.type = "ABSOLUTE"  -> op.offset

simple_offset(op) == [type |-> "SIMPLE", offset |-> op, occurences |-> 1]

gram_offset(ss) ==
  [type           |-> "GRAMMAR",
   offset_map     |-> Single(ss.offset, 0),
   occ_map        |-> Single(ss.offset, ss.occurences),
   symbols_offset |-> Single(0, ss.offset),
   last           |-> 1,
   last_off       |-> ss.offset,
   occurences     |-> ss.occurences,
   o              |-> [i \in 1 .. ss.occurences |-> 0]]

GramOffsetInput(gs, op) ==
  LET known == op \in DOMAIN gs.offset_map
      sym   == IF known THEN gs.offset_map[op] ELSE gs.last
  IN [gs EXCEPT !.last_off       = op,
                !.occurences     = @ + 1,
                !.last           = IF known THEN @ ELSE @ + 1,
                !.occ_map        = Put(@, op, IF known THEN @[op] + 1 ELSE 1),
                !.offset_map     = Put(@, op, sym),
                !.symbols_offset = Put(@, sym, op),
                !.o              = Append(@, sym)]

follow_offset == [type |-> "FOLLOW"]

\* offset_tracker::input on the object it has; the equality of two operations
\* is that of both their fields.
Fed(r, op) ==
  CASE r.type = "SIMPLE"  -> IF r.offset = op THEN [r EXCEPT !.occurences = @ + 1]
                             ELSE r
    [] r.type = "GRAMMAR" -> GramOffsetInput(r, op)
    [] r.type = "FOLLOW"  -> r

Outgrown(r, op) ==
  \/ r.type = "SIMPLE" /\ r.offset # op
  \/ r.type = "GRAMMAR" /\ Cardinality(DOMAIN Fed(r, op).occ_map) > OffsetLimit

Successor(r, op) ==
  IF r.type = "SIMPLE" THEN GramOffsetInput(gram_offset(r), op) ELSE follow_offset

\* Everything that predict may answer.
Predictions(r) ==
  CASE r.type = "SIMPLE"  -> {r.offset}
    [] r.type = "GRAMMAR" ->
         {IF Cardinality(P) = 1
          THEN r.symbols_offset[CHOOSE p \in P : TRUE] ELSE r.last_off :
            P \in SUBSET Followers(r.o)}
    [] r.type = "FOLLOW"  -> {following(m) : m \in Memory}

==============================================================================
