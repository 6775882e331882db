------------------------------- MODULE Analyzer -------------------------------
(***************************************************************************)
(* The offline analyzer (analyzer.cpp): it reads the log of operations     *)
(* that the tracer wrote, line by line, feeds it to an oracle and to       *)
(* access tables of its own, and compares each line with what it had       *)
(* predicted of it.  A step is one iteration of its loop.                  *)
(*                                                                         *)
(* The oracle is known by OracleContract, an entry of the tables of sizes  *)
(* and offsets is a representation of module Sizes or Offsets (no tracker  *)
(* is copied here), an entry of the table of transition times counts its   *)
(* observations.  The dates, and the percentages of symbols predicted      *)
(* right, are left out.                                                    *)
(***************************************************************************)
EXTENDS Integers, Sequences, FiniteSets

CONSTANTS Symbol, NoSymbol,           \* the symbols of the log, and 0
          Fd, Size, Offset,           \* the other columns of the log
          SizeLimit, OffsetLimit, Memory,
          Width,                      \* 2^64: size_t counts modulo Width
          MaxLog                      \* bound: the lines of the log

ASSUME NoSymbolAssumption == NoSymbol \notin Symbol
ASSUME ColumnsAssumption == Size \subseteq Nat /\ Offset \subseteq Nat
ASSUME LimitsAssumption == {SizeLimit, OffsetLimit} \subseteq Nat \ {0, 1}
ASSUME MemoryAssumption == Memory \subseteq Int /\ Memory # {}
ASSUME WidthAssumption == Width \in Nat \ {0}

VARIABLES log,            \* the lines read so far: symbol, offset and size
          predictions,    \* what the oracle predicts after them
          trans_stats, size_stats, offset_stats,   \* the tables
          offset_tracker, \* the offset that each open file is at
          previous_sym, previous_offset, previous_size

vars == <<log, predictions, trans_stats, size_stats, offset_stats,
          offset_tracker, previous_sym, previous_offset, previous_size>>

S == INSTANCE Sizes
O == INSTANCE Offsets
Model == INSTANCE OracleContract
         WITH Terminal <- Symbol, busy <- FALSE, predicted <- predictions

Line == [sym : Symbol, op : {"open", "close", "read", "write"}, fd : Fd,
         offset : Offset, size : Size]

\* A tracker that has observed nothing: it has no representation.
None == [type |-> "NONE"]

Empty == [x \in {} |-> 0]
Put(f, x, v) == [y \in DOMAIN f \cup {x} |-> IF y = x THEN v ELSE f[y]]

\* The entry of x, which operator() of the tables brings into being, with value
\* v, when it is not there.
Entry(f, x, v) == IF x \in DOMAIN f THEN f[x] ELSE v
Touched(f, X, v) == [x \in DOMAIN f \cup X |-> Entry(f, x, v)]

Symbols(l) == [i \in DOMAIN l |-> l[i].sym]

Init ==
  /\ log = <<>> /\ predictions = {}
  /\ trans_stats = Empty /\ size_stats = Empty /\ offset_stats = Empty
  /\ offset_tracker = Empty
  /\ previous_sym = NoSymbol /\ previous_offset = 0 /\ previous_size = 0

-----------------------------------------------------------------------------
\* input of a tracker in a table.
SizeInputFaulty(r, s) ==
  S!Fed(IF r = None THEN S!simple_size(s) ELSE r, s)

SizeInput(r, s) ==
  CASE r = None                        -> S!simple_size(s)
    [] r # None /\ S!Outgrown(r, s)    -> S!Successor(r, s)
    [] r # None /\ ~S!Outgrown(r, s)   -> S!Fed(r, s)

OffsetInput(r, op) ==
  CASE r = None                        -> O!simple_offset(op)
    [] r # None /\ O!Outgrown(r, op)   -> O!Successor(r, op)
    [] r # None /\ ~O!Outgrown(r, op)  -> O!Fed(r, op)

\* What predict of the trackers may answer.
PredictedSizes(p) ==
  LET r == Entry(size_stats, p, None)
  IN IF r = None THEN {0} ELSE S!Predictions(r)

PredictedOffsets(p) ==
  LET r   == Entry(offset_stats, <<previous_sym, p>>, None)
      ops == IF r = None THEN {O!following(m) : m \in Memory} ELSE O!Predictions(r)
  IN {O!get_offset_after(op, previous_offset, previous_size) : op \in ops}

\* The line as an operation on the offset, relative to the line before.
End == previous_offset + previous_size
Follows(l) == l.offset = End

OffsetOpsFaulty(l) ==
  IF Follows(l) THEN {O!following(m) : m \in Memory}
  ELSE IF l.offset = 0 THEN {O!offset_op(0, "ABSOLUTE")}
  ELSE {O!offset_op(l.offset - previous_offset, "RELATIVE")}

OffsetOps(l) ==
  IF Follows(l) THEN {O!following(m) : m \in Memory}
  ELSE IF l.offset = 0 THEN {O!offset_op(0, "ABSOLUTE")}
  ELSE {O!offset_op(l.offset - End, "RELATIVE")}

\* The tracker of a transition after the line.  When the line follows the one
\* before it, input is called in the branch and once more after it.
TwiceFaulty(l, r, op) == OffsetInput(r, op)

Twice(l, r, op) ==
  IF Follows(l) THEN OffsetInput(OffsetInput(r, op), op) ELSE OffsetInput(r, op)

\* The files and their offsets: set on open, on every line, erased on close.
Offsets(l) ==
  LET set == Put(offset_tracker, l.fd, l.offset + l.size)
  IN IF l.op = "close" THEN [f \in DOMAIN set \ {l.fd} |-> set[f]] ELSE set

\* The transitions to every predicted symbol: looked up in all tables for the
\* comparison of the line with what was predicted.
Predicted == {<<previous_sym, p>> : p \in predictions}

HasPrevious == previous_sym # NoSymbol
Transition(l) == <<previous_sym, l.sym>>

\* The oracle is asked once it has read the line.
AnswersFaulty(l) == SUBSET Model!Followers(Symbols(log))

Answers(l) == SUBSET Model!Followers(Append(Symbols(log), l.sym))

Read(l) ==
  /\ Len(log) < MaxLog
  /\ log' = Append(log, [sym |-> l.sym, offset |-> l.offset, size |-> l.size])
  /\ predictions' \in Answers(l)
  /\ LET times   == Touched(trans_stats, Predicted, 0)
         sizes   == Touched(size_stats, predictions, None)
         offsets == Touched(offset_stats, Predicted, None)
     IN /\ size_stats' =
             Put(sizes, l.sym, SizeInput(Entry(sizes, l.sym, None), l.size))
        /\ IF HasPrevious
           THEN /\ trans_stats' =
                     Put(times, Transition(l), Entry(times, Transition(l), 0) + 1)
                /\ \E op \in OffsetOps(l) :
                     offset_stats' =
                       Put(offsets, Transition(l),
                           Twice(l, Entry(offsets, Transition(l), None), op))
           ELSE trans_stats' = times /\ offset_stats' = offsets
  /\ offset_tracker' = Offsets(l)
  /\ previous_sym' = l.sym
  /\ previous_offset' = l.offset
  /\ previous_size' = l.size

\* The end of the log.
Finished == Len(log) = MaxLog /\ UNCHANGED vars

Next == (\E l \in Line : Read(l)) \/ Finished

Spec == Init /\ [][Next]_vars

-----------------------------------------------------------------------------
\* The hit ratio of line l with a predicted access of size s at offset o: the
\* bytes they share by the bytes between them, in percent.  o is signed and may
\* be negative; in the sums with a size_t it is taken modulo Width.
Unsigned(x) == x % Width
Lesser(x, y) == IF x <= y THEN x ELSE y
Greater(x, y) == IF x <= y THEN y ELSE x

OverlapFaulty(l, o, s) == Lesser(l.size, s)

Overlap(l, o, s) ==
  LET end == Unsigned(o + s)
  IN IF o <= l.offset
     THEN IF end <= l.offset THEN 0
          ELSE IF l.offset + l.size <= end THEN l.size
          ELSE Unsigned(end - l.offset)
     ELSE IF l.offset + l.size <= o THEN 0
          ELSE IF end <= l.offset + l.size THEN s
          ELSE l.offset + l.size - o

Span(l, o, s) ==
  IF s = 0 THEN l.size
  ELSE Unsigned(Greater(Unsigned(o + s), l.offset + l.size)
                  - Unsigned(Lesser(o, l.offset)))

HitRatio(l, o, s) ==
  IF l.size # 0 THEN (100 * Overlap(l, o, s)) \div Span(l, o, s)
  ELSE IF s = 0 THEN 100 ELSE 0

\* The ratios that the next line may be printed with, one for each prediction.
HitRatios(l) ==
  UNION {{HitRatio(l, o, s) : o \in PredictedOffsets(p), s \in PredictedSizes(p)} :
           p \in predictions}

-----------------------------------------------------------------------------
\* Where in the log x is followed by y, and where the second line starts at the
\* offset at which the first one ended.
At(x, y) == {i \in 1 .. Len(log) - 1 : log[i].sym = x /\ log[i + 1].sym = y}
FollowsAt(i) == log[i + 1].offset = log[i].offset + log[i].size

\* The comparison of a line with its prediction reads only entries that earlier
\* lines have filled: no time that was never set, and no tracker that answers 0
\* or "following" for want of an observation.
NoBlindRead ==
  /\ predictions \subseteq DOMAIN size_stats
  /\ Predicted \subseteq DOMAIN trans_stats \cap DOMAIN offset_stats
  /\ \A p \in DOMAIN trans_stats : trans_stats[p] > 0
  /\ \A s \in DOMAIN size_stats : size_stats[s] # None
  /\ \A p \in DOMAIN offset_stats : offset_stats[p] # None

\* The tables of times and sizes know each transition and each symbol as often
\* as the log has it, although they are updated at different points of the loop.
TablesExact ==
  /\ DOMAIN trans_stats = {<<log[i].sym, log[i + 1].sym>> : i \in 1 .. Len(log) - 1}
  /\ \A x, y \in Symbol : <<x, y>> \in DOMAIN trans_stats =>
       trans_stats[<<x, y>>] = Cardinality(At(x, y))
  /\ DOMAIN size_stats = {log[i].sym : i \in DOMAIN log}
  /\ \A s \in DOMAIN size_stats :
       size_stats[s].occurences = Cardinality({i \in DOMAIN log : log[i].sym = s})

\* The table of offsets does not: a line that follows the one before it counts
\* twice, and any other once.
FollowingCountsTwice ==
  \A x, y \in Symbol : <<x, y>> \in DOMAIN offset_stats =>
    LET r == offset_stats[<<x, y>>]
    IN r.type # "FOLLOW" =>
         r.occurences = Cardinality(At(x, y))
                          + Cardinality({i \in At(x, y) : FollowsAt(i)})

\* No tracker of the tables remembers more values than its limit, however long
\* the log is and whatever the unset field of "following" holds.
TablesBounded ==
  /\ \A s \in DOMAIN size_stats : size_stats[s].type = "GRAMMAR" =>
       Cardinality(DOMAIN size_stats[s].occ_map) <= SizeLimit
  /\ \A p \in DOMAIN offset_stats : offset_stats[p].type = "GRAMMAR" =>
       Cardinality(DOMAIN offset_stats[p].occ_map) <= OffsetLimit

\* How far the line after the i-th starts from where that one ended.
Gap(i) == log[i + 1].offset - (log[i].offset + log[i].size)

\* What has always been the same is predicted: the size of a symbol, and how a
\* transition moves the offset (by a distance from the end of the line before, or
\* to the start of the file).  In particular, accesses that follow each other are
\* predicted to, although the tracker may take them for different operations
\* and change its representation for that.
SteadyPredicted ==
  \A p \in predictions :
    LET moves == At(previous_sym, p)
        lines == {i \in DOMAIN log : log[i].sym = p}
    IN /\ \A j \in lines :
            (\A i \in lines : log[i].size = log[j].size) =>
              PredictedSizes(p) = {log[j].size}
       /\ (\A i \in moves : log[i + 1].offset = 0 /\ Gap(i) # 0) =>
            PredictedOffsets(p) = {0}
       /\ \A j \in moves :
            (\A i \in moves : Gap(i) = Gap(j)
                                /\ (Gap(i) = 0 \/ log[i + 1].offset # 0)) =>
              PredictedOffsets(p) = {End + Gap(j)}

\* What a hit ratio should be: of the bytes from the first to the last of the
\* two accesses, those that both touch.
Bytes(o, s) == o .. o + s - 1

TrueRatio(l, o, s) ==
  LET span == IF s = 0 THEN l.size
              ELSE Greater(o + s, l.offset + l.size) - Lesser(o, l.offset)
  IN (100 * Cardinality(Bytes(o, s) \cap Bytes(l.offset, l.size))) \div span

\* The printed ratio is the true one whenever the predicted access does not end
\* before the start of the file, although offsets are signed and sizes are not.
HitRatioExact ==
  \A l \in Line, p \in predictions :
    \A o \in PredictedOffsets(p), s \in PredictedSizes(p) :
      l.size # 0 /\ o + s >= 0 => HitRatio(l, o, s) = TrueRatio(l, o, s)

\* A hit ratio, in percent, is at most 100.
HitRatioIsPercentage ==
  \A l \in Line : \A h \in HitRatios(l) : h <= 100

==============================================================================
