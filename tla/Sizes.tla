-------------------------------- MODULE Sizes --------------------------------
(***************************************************************************)
(* What a size_tracker remembers (sizes.hpp): one size and how often it    *)
(* was seen; then, from the second size on, an oracle over the sizes; then,*)
(* past SizeLimit of them, their mean.  A representation is a record with  *)
(* the fields of its class, and an operator gives what a call makes of it. *)
(* Who shares it with whom is in module Trackers.                          *)
(*                                                                         *)
(* The oracle is known by OracleContract.  A mean is kept as a sum, so     *)
(* that arithmetic is exact; see Truncated for the rounding of doubles.    *)
(***************************************************************************)
EXTENDS Naturals, Sequences, FiniteSetsExt

CONSTANT SizeLimit    \* sixteen, in the code

INSTANCE OracleContract
         WITH Terminal <- Nat, log <- <<>>, busy <- FALSE, predicted <- {}

\* A map of one entry, and a map with the entry of x set.
Single(x, v) == [y \in {x} |-> v]
Put(f, x, v) == [y \in DOMAIN f \cup {x} |-> IF y = x THEN v ELSE f[y]]

simple_size(s) == [type |-> "SIMPLE", size |-> s, occurences |-> 1]

\* The constructor from a simple_size: the oracle reads its symbol, 0, as often
\* as the size was seen.
gram_sizeFaulty(ss) ==
  [type         |-> "GRAMMAR",
   size_map     |-> Single(ss.size, 0),
   occ_map      |-> Single(ss.size, ss.occurences),
   symbols_size |-> Single(0, ss.size),
   last         |-> 1,
   occurences   |-> ss.occurences,
   sum          |-> ss.size * ss.occurences,
   o            |-> <<0>>]

gram_size(ss) ==
  [type         |-> "GRAMMAR",
   size_map     |-> Single(ss.size, 0),
   occ_map      |-> Single(ss.size, ss.occurences),
   symbols_size |-> Single(0, ss.size),
   last         |-> 1,
   occurences   |-> ss.occurences,
   sum          |-> ss.size * ss.occurences,
   o            |-> [i \in 1 .. ss.occurences |-> 0]]

GramSizeInput(gs, s) ==
  LET known == s \in DOMAIN gs.size_map
      sym   == IF known THEN gs.size_map[s] ELSE gs.last
  IN [gs EXCEPT !.sum          = @ + s,
                !.occurences   = @ + 1,
                !.last         = IF known THEN @ ELSE @ + 1,
                !.occ_map      = Put(@, s, IF known THEN @[s] + 1 ELSE 1),
                !.size_map     = Put(@, s, sym),
                !.symbols_size = Put(@, sym, s),
                !.o            = Append(@, sym)]

\* The constructor from a gram_size, which adds the sizes up anew.
average_sizeFaulty(gs) ==
  [type       |-> "AVERAGE",
   occurences |-> gs.occurences,
   sum        |-> MapThenSumSet(LAMBDA s : s, DOMAIN gs.occ_map)]

average_size(gs) ==
  [type       |-> "AVERAGE",
   occurences |-> gs.occurences,
   sum        |-> MapThenSumSet(LAMBDA s : s * gs.occ_map[s], DOMAIN gs.occ_map)]

AverageSizeInput(as, s) == [as EXCEPT !.sum = @ + s, !.occurences = @ + 1]

\* size_tracker::input on the object it has.  The object may be outgrown: a
\* simple one is not fed then, a grammar is; the tracker goes on with another.
Fed(r, s) ==
  CASE r.type = "SIMPLE"  -> IF r.size = s THEN [r EXCEPT !.occurences = @ + 1]
                             ELSE r
    [] r.type = "GRAMMAR" -> GramSizeInput(r, s)
    [] r.type = "AVERAGE" -> AverageSizeInput(r, s)

Outgrown(r, s) ==
  \/ r.type = "SIMPLE" /\ r.size # s
  \/ r.type = "GRAMMAR" /\ Cardinality(DOMAIN Fed(r, s).occ_map) > SizeLimit

Successor(r, s) ==
  IF r.type = "SIMPLE" THEN GramSizeInput(gram_size(r), s)
                       ELSE average_size(Fed(r, s))

\* Conversion of a mean of n values to size_t.  Summed up in doubles it may have
\* come out too low or too high; by no more than one n-th, we assume, so that it
\* can fall below a whole number, or reach the next one.
Truncated(sum, n) == {x \div n : x \in sum - 1 .. sum + 1}

\* gram_size::predict, when its oracle answers P.
GramSizePredictFaulty(gs, P) ==
  LET sizes == {gs.symbols_size[p] : p \in P}
  IN IF P = {} THEN Truncated(gs.sum, gs.occurences)
     ELSE {MapThenSumSet(LAMBDA s : s * gs.occ_map[s], sizes)
             \div Cardinality(sizes)}

GramSizePredict(gs, P) ==
  LET sizes == {gs.symbols_size[p] : p \in P}
  IN IF P = {} THEN Truncated(gs.sum, gs.occurences)
     ELSE {MapThenSumSet(LAMBDA s : s * gs.occ_map[s], sizes)
             \div MapThenSumSet(LAMBDA s : gs.occ_map[s], sizes)}

\* Everything that predict may answer.
Predictions(r) ==
  CASE r.type = "SIMPLE"  -> {r.size}
    [] r.type = "GRAMMAR" ->
         UNION {GramSizePredict(r, P) : P \in SUBSET Followers(r.o)}
    [] r.type = "AVERAGE" -> Truncated(r.sum, r.occurences)

==============================================================================
