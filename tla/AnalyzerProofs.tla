---------------------------- MODULE AnalyzerProofs ----------------------------
(***************************************************************************)
(* Proofs about module Analyzer, for logs of any length over any symbols,  *)
(* files, offsets and sizes, and trackers of any limits: a line is only    *)
(* compared with what was observed, the tables are the counts of the log,  *)
(* what has always been the same is predicted, and the hit ratio is right. *)
(* The argument needs of the trackers that feeding one yields one that has *)
(* observed once more, that one which is always fed the same holds nothing *)
(* else, and that no answer is out of the range of what it was fed.        *)
(***************************************************************************)
EXTENDS Analyzer, Counting

-----------------------------------------------------------------------------
(* Trackers.                                                               *)

\* A finite map that remembers no more than n values.
Bounded(m, n) == IsFiniteSet(DOMAIN m) /\ Cardinality(DOMAIN m) <= n

SizeRep(r) ==
  /\ {"type", "occurences"} \subseteq DOMAIN r
  /\ r.type \in {"SIMPLE", "GRAMMAR", "AVERAGE"}
  /\ r.type = "GRAMMAR" =>
       "occ_map" \in DOMAIN r /\ Bounded(r.occ_map, SizeLimit)

OffsetRep(r) ==
  /\ "type" \in DOMAIN r
  /\ r.type \in {"SIMPLE", "GRAMMAR", "FOLLOW"}
  /\ r.type # "FOLLOW" => "occurences" \in DOMAIN r
  /\ r.type = "GRAMMAR" =>
       "occ_map" \in DOMAIN r /\ Bounded(r.occ_map, OffsetLimit)

\* A tracker that has observed something has a representation.
LEMMA NotNone ==
  ASSUME NEW r, SizeRep(r) \/ OffsetRep(r) PROVE r # None
  BY DEF SizeRep, OffsetRep, None

\* A value more: the map stays finite.
LEMMA ValueMore ==
  ASSUME NEW D, IsFiniteSet(D), NEW x
  PROVE  /\ IsFiniteSet(D \cup {x}) /\ Cardinality(D \cup {x}) \in Nat
  BY FS_AddElement, FS_CardinalityType

\* Two values, or one twice, are within both limits.
LEMMA TwoValues ==
  ASSUME NEW x, NEW y
  PROVE  /\ IsFiniteSet({x} \cup {y})
         /\ Cardinality({x} \cup {y}) <= SizeLimit
         /\ Cardinality({x} \cup {y}) <= OffsetLimit
  <1>1. IsFiniteSet({x}) /\ Cardinality({x}) = 1
    BY FS_Singleton
  <1>2. /\ IsFiniteSet({x} \cup {y})
        /\ Cardinality({x} \cup {y}) = 1 \/ Cardinality({x} \cup {y}) = 2
    BY <1>1, FS_AddElement
  <1>3. SizeLimit >= 2 /\ OffsetLimit >= 2 /\ SizeLimit \in Nat /\ OffsetLimit \in Nat
    BY LimitsAssumption
  <1> QED
    BY <1>2, <1>3

\* What feeding a grammar does to its map of values.
LEMMA GramSizeFed ==
  ASSUME NEW gs, "occ_map" \in DOMAIN gs, "occurences" \in DOMAIN gs,
         "type" \in DOMAIN gs, NEW s
  PROVE  LET n == S!GramSizeInput(gs, s)
         IN /\ {"type", "occurences", "occ_map"} \subseteq DOMAIN n
            /\ n.type = gs.type /\ n.occurences = gs.occurences + 1
            /\ DOMAIN n.occ_map = DOMAIN gs.occ_map \cup {s}
  BY DEF S!GramSizeInput, S!Put

\* A tracker that is fed remembers one size more, also when it goes on with
\* another representation.
LEMMA SizeFed ==
  ASSUME NEW r, SizeRep(r), NEW s
  PROVE  /\ SizeRep(SizeInput(r, s))
         /\ SizeInput(r, s).occurences = r.occurences + 1
  <1> DEFINE n == S!GramSizeInput(r, s)
  <1>1. CASE r.type = "SIMPLE" /\ ~S!Outgrown(r, s)
    <2>1. SizeInput(r, s) = [r EXCEPT !.occurences = @ + 1]
      BY <1>1, NotNone DEF SizeInput, S!Fed, S!Outgrown
    <2> QED
      BY <1>1, <2>1 DEF SizeRep
  <1>2. CASE r.type = "AVERAGE"
    <2>1. SizeInput(r, s) = [r EXCEPT !.sum = @ + s, !.occurences = @ + 1]
      BY <1>2, NotNone DEF SizeInput, S!Outgrown, S!Fed, S!AverageSizeInput
    <2> QED
      BY <1>2, <2>1 DEF SizeRep
  <1>3. CASE r.type = "GRAMMAR"
    <2>1. S!Fed(r, s) = n
      BY <1>3 DEF S!Fed
    <2>2. /\ {"type", "occurences", "occ_map"} \subseteq DOMAIN n
          /\ n.type = "GRAMMAR" /\ n.occurences = r.occurences + 1
          /\ DOMAIN n.occ_map = DOMAIN r.occ_map \cup {s}
      BY <1>3, GramSizeFed DEF SizeRep
    <2>3. IsFiniteSet(DOMAIN n.occ_map) /\ Cardinality(DOMAIN n.occ_map) \in Nat
      BY <1>3, <2>2, ValueMore DEF SizeRep, Bounded
    <2> HIDE DEF n
    <2>4. CASE S!Outgrown(r, s)
      <3>1. SizeInput(r, s) = S!average_size(n)
        BY <1>3, <2>1, <2>4, NotNone DEF SizeInput, S!Successor
      <3>2. ASSUME NEW gs
            PROVE  /\ SizeRep(S!average_size(gs))
                   /\ S!average_size(gs).occurences = gs.occurences
        BY DEF S!average_size, SizeRep
      <3> QED
        BY <2>2, <3>1, <3>2
    <2>5. CASE ~S!Outgrown(r, s)
      <3>1. SizeInput(r, s) = n
        BY <2>1, <2>5, NotNone DEF SizeInput
      <3>2. ~(Cardinality(DOMAIN n.occ_map) > SizeLimit)
        BY <1>3, <2>1, <2>5 DEF S!Outgrown, S!Cardinality, Cardinality
      <3>3. Cardinality(DOMAIN n.occ_map) <= SizeLimit
        BY <2>3, <3>2, LimitsAssumption
      <3> QED
        BY <2>2, <2>3, <3>1, <3>3 DEF SizeRep, Bounded
    <2> QED
      BY <2>4, <2>5
  <1>4. CASE r.type = "SIMPLE" /\ S!Outgrown(r, s)
    <2> DEFINE gs == S!gram_size(r)
               m == S!GramSizeInput(gs, s)
    <2>1. SizeInput(r, s) = m
      BY <1>4, NotNone DEF SizeInput, S!Successor
    <2>2. /\ {"type", "occurences", "occ_map"} \subseteq DOMAIN gs
          /\ gs.type = "GRAMMAR" /\ gs.occurences = r.occurences
          /\ DOMAIN gs.occ_map = {r.size}
      BY DEF S!gram_size, S!Single
    <2> HIDE DEF gs
    <2>3. /\ {"type", "occurences", "occ_map"} \subseteq DOMAIN m
          /\ m.type = "GRAMMAR" /\ m.occurences = r.occurences + 1
          /\ DOMAIN m.occ_map = {r.size} \cup {s}
      BY <2>2, GramSizeFed
    <2> HIDE DEF m
    <2>4. Bounded(m.occ_map, SizeLimit)
      BY <2>3, TwoValues DEF Bounded
    <2> QED
      BY <2>1, <2>3, <2>4 DEF SizeRep
  <1> QED
    BY <1>1, <1>2, <1>3, <1>4 DEF SizeRep

\* So does one that is fed for the first time, which counts one observation.
LEMMA SizeFirst ==
  ASSUME NEW s
  PROVE  SizeRep(SizeInput(None, s)) /\ SizeInput(None, s).occurences = 1
  BY DEF SizeInput, S!simple_size, SizeRep

\* The same of offsets.
LEMMA GramOffsetFed ==
  ASSUME NEW gs, {"type", "occurences", "occ_map"} \subseteq DOMAIN gs, NEW op
  PROVE  LET n == O!GramOffsetInput(gs, op)
         IN /\ {"type", "occurences", "occ_map"} \subseteq DOMAIN n
            /\ n.type = gs.type /\ n.occurences = gs.occurences + 1
            /\ DOMAIN n.occ_map = DOMAIN gs.occ_map \cup {op}
  BY DEF O!GramOffsetInput, O!Put

\* A tracker of offsets that is fed counts once more until it only answers
\* "following", and does so from then on.
FedOnce(r, n) ==
  /\ OffsetRep(n)
  /\ n.type # "FOLLOW" =>
       /\ r # None => r.type # "FOLLOW"
       /\ n.occurences = IF r = None THEN 1 ELSE r.occurences + 1

\* Every case of input feeds once.
LEMMA OffsetFed ==
  ASSUME NEW r, OffsetRep(r) \/ r = None, NEW op
  PROVE  FedOnce(r, OffsetInput(r, op))
  <1> DEFINE n == O!GramOffsetInput(r, op)
  <1>1. CASE r = None
    BY <1>1 DEF OffsetInput, O!simple_offset, OffsetRep, FedOnce
  <1>2. CASE OffsetRep(r) /\ r.type = "SIMPLE" /\ ~O!Outgrown(r, op)
    <2>1. OffsetInput(r, op) = [r EXCEPT !.occurences = @ + 1]
      BY <1>2, NotNone DEF OffsetInput, O!Fed, O!Outgrown
    <2> QED
      BY <1>2, <2>1, NotNone DEF OffsetRep, FedOnce
  <1>3. CASE OffsetRep(r) /\ r.type = "FOLLOW"
    <2>1. OffsetInput(r, op) = r
      BY <1>3, NotNone DEF OffsetInput, O!Fed, O!Outgrown
    <2> QED
      BY <1>3, <2>1 DEF FedOnce
  <1>4. CASE OffsetRep(r) /\ r.type = "GRAMMAR"
    <2>1. O!Fed(r, op) = n
      BY <1>4 DEF O!Fed
    <2>2. /\ {"type", "occurences", "occ_map"} \subseteq DOMAIN n
          /\ n.type = "GRAMMAR" /\ n.occurences = r.occurences + 1
          /\ DOMAIN n.occ_map = DOMAIN r.occ_map \cup {op}
      BY <1>4, GramOffsetFed DEF OffsetRep
    <2>3. IsFiniteSet(DOMAIN n.occ_map) /\ Cardinality(DOMAIN n.occ_map) \in Nat
      BY <1>4, <2>2, ValueMore DEF OffsetRep, Bounded
    <2> HIDE DEF n
    <2>4. CASE O!Outgrown(r, op)
      <3>1. OffsetInput(r, op) = O!follow_offset
        BY <1>4, <2>4, NotNone DEF OffsetInput, O!Successor
      <3> QED
        BY <3>1 DEF O!follow_offset, OffsetRep, FedOnce
    <2>5. CASE ~O!Outgrown(r, op)
      <3>1. OffsetInput(r, op) = n
        BY <1>4, <2>1, <2>5, NotNone DEF OffsetInput
      <3>2. ~(Cardinality(DOMAIN n.occ_map) > OffsetLimit)
        BY <1>4, <2>1, <2>5 DEF O!Outgrown, O!Cardinality, Cardinality
      <3>3. Cardinality(DOMAIN n.occ_map) <= OffsetLimit
        BY <2>3, <3>2, LimitsAssumption
      <3> QED
        BY <1>4, <2>2, <2>3, <3>1, <3>3, NotNone DEF OffsetRep, Bounded, FedOnce
    <2> QED
      BY <2>4, <2>5
  <1>5. CASE OffsetRep(r) /\ r.type = "SIMPLE" /\ O!Outgrown(r, op)
    <2> DEFINE gs == O!gram_offset(r)
               m == O!GramOffsetInput(gs, op)
    <2>1. OffsetInput(r, op) = m
      BY <1>5, NotNone DEF OffsetInput, O!Successor
    <2>2. /\ {"type", "occurences", "occ_map"} \subseteq DOMAIN gs
          /\ gs.type = "GRAMMAR" /\ gs.occurences = r.occurences
          /\ DOMAIN gs.occ_map = {r.offset}
      BY DEF O!gram_offset, O!Single
    <2> HIDE DEF gs
    <2>3. /\ {"type", "occurences", "occ_map"} \subseteq DOMAIN m
          /\ m.type = "GRAMMAR" /\ m.occurences = r.occurences + 1
          /\ DOMAIN m.occ_map = {r.offset} \cup {op}
      BY <2>2, GramOffsetFed
    <2> HIDE DEF m
    <2>4. Bounded(m.occ_map, OffsetLimit)
      BY <2>3, TwoValues DEF Bounded
    <2> QED
      BY <1>5, <2>1, <2>3, <2>4, NotNone DEF OffsetRep, FedOnce
  <1> QED
    BY <1>1, <1>2, <1>3, <1>4, <1>5 DEF OffsetRep

\* A line that follows the one before it counts twice, another once.
Weight(l) == IF Follows(l) THEN 2 ELSE 1

\* What a line makes of the tracker of its transition.
LEMMA TwiceFed ==
  ASSUME NEW l, NEW r, OffsetRep(r) \/ r = None, NEW op
  PROVE  LET n == Twice(l, r, op)
         IN /\ OffsetRep(n)
            /\ n.type # "FOLLOW" =>
                 /\ r # None => r.type # "FOLLOW"
                 /\ r = None => n.occurences = Weight(l)
                 /\ r # None /\ r.occurences \in Nat =>
                      n.occurences = r.occurences + Weight(l)
  <1> DEFINE n == OffsetInput(r, op)
             m == OffsetInput(n, op)
  <1>1. FedOnce(r, n)
    BY OffsetFed
  <1>2. FedOnce(n, m) /\ n # None
    BY <1>1, OffsetFed, NotNone DEF FedOnce
  <1>3. Twice(l, r, op) = IF Follows(l) THEN m ELSE n
    BY DEF Twice
  <1> HIDE DEF n, m
  <1> QED
    BY <1>1, <1>2, <1>3 DEF FedOnce, Weight

-----------------------------------------------------------------------------
(* Tables.                                                                 *)

\* The table of a count per tracker: how often each has been fed.
Feeds(f) == [s \in DOMAIN f |-> f[s].occurences]

\* Looking up entries that are there leaves a table as it is.
LEMMA TouchedSame ==
  ASSUME NEW f, NEW v, NEW X, X \subseteq DOMAIN f, f = [x \in DOMAIN f |-> f[x]]
  PROVE  Touched(f, X, v) = f
  <1>1. DOMAIN f \cup X = DOMAIN f
    OBVIOUS
  <1> QED
    BY <1>1 DEF Touched, Entry

-----------------------------------------------------------------------------
(* The inductive invariant.                                                *)

LogLine == [sym : Symbol, offset : Offset, size : Size]

OnTrail ==
  /\ log \in Seq(LogLine)
  /\ previous_sym = IF log = <<>> THEN NoSymbol ELSE log[Len(log)].sym

\* What the tables know of the log.
Known ==
  /\ trans_stats = [p \in DOMAIN trans_stats |-> trans_stats[p]]
  /\ size_stats = [s \in DOMAIN size_stats |-> size_stats[s]]
  /\ offset_stats = [p \in DOMAIN offset_stats |-> offset_stats[p]]
  /\ CountsPairs(trans_stats, Symbols(log))
  /\ DOMAIN offset_stats = DOMAIN trans_stats
  /\ \A p \in DOMAIN trans_stats : trans_stats[p] \in Nat \ {0}
  /\ CountsSymbols(Feeds(size_stats), Symbols(log))
  /\ \A s \in DOMAIN size_stats : SizeRep(size_stats[s])
  /\ \A p \in DOMAIN offset_stats : OffsetRep(offset_stats[p])

Answered == predictions \subseteq Model!Followers(Symbols(log))

AnalyzerInv == OnTrail /\ Known /\ Answered

\* The symbols of a log are a sequence of symbols, as long as the log.
LEMMA SymbolsOf ==
  ASSUME NEW l, l \in Seq(LogLine)
  PROVE  /\ Symbols(l) \in Seq(Symbol) /\ Len(Symbols(l)) = Len(l)
         /\ \A i \in DOMAIN l : Symbols(l)[i] = l[i].sym
         /\ DOMAIN Symbols(l) = DOMAIN l /\ DOMAIN l = 1 .. Len(l)
  <1>1. DOMAIN l = 1 .. Len(l) /\ Len(l) \in Nat
    OBVIOUS
  <1>2. \A i \in 1 .. Len(l) : l[i] \in LogLine
    OBVIOUS
  <1>3. \A i \in 1 .. Len(l) : l[i].sym \in Symbol
    BY <1>2 DEF LogLine
  <1> QED
    BY <1>1, <1>3 DEF Symbols

\* A line more is a symbol more.
LEMMA SymbolsAppend ==
  ASSUME NEW l, l \in Seq(LogLine), NEW r \in LogLine
  PROVE  Symbols(Append(l, r)) = Append(Symbols(l), r.sym)
  <1> DEFINE m == Append(l, r)
             k == Symbols(l)
             n == Len(l) + 1
  <1>1. m \in Seq(LogLine) /\ r.sym \in Symbol
    BY DEF LogLine
  <1>2. /\ k \in Seq(Symbol) /\ Len(k) = Len(l)
        /\ \A i \in 1 .. Len(l) : k[i] = l[i].sym
    BY SymbolsOf
  <1>3. /\ Len(m) = n /\ m[n] = r /\ n \in Nat /\ Len(l) \in Nat
        /\ \A i \in 1 .. Len(l) : m[i] = l[i]
    OBVIOUS
  <1> HIDE DEF m, k
  <1>4. /\ Symbols(m) \in Seq(Symbol) /\ Len(Symbols(m)) = n
        /\ \A i \in 1 .. n : Symbols(m)[i] = m[i].sym
    BY <1>1, <1>3, SymbolsOf
  <1>5. /\ Append(k, r.sym) \in Seq(Symbol) /\ Len(Append(k, r.sym)) = n
        /\ \A i \in 1 .. Len(l) : Append(k, r.sym)[i] = k[i]
        /\ Append(k, r.sym)[n] = r.sym
    BY <1>1, <1>2
  <1>6. \A i \in 1 .. n : Symbols(m)[i] = Append(k, r.sym)[i]
    BY <1>2, <1>3, <1>4, <1>5
  <1> HIDE DEF n
  <1> QED
    BY <1>4, <1>5, <1>6 DEF m, k

\* The transitions that a comparison looks up have been made.
LEMMA Looked ==
  ASSUME AnalyzerInv
  PROVE  predictions \subseteq DOMAIN size_stats /\ Predicted \subseteq DOMAIN trans_stats
  <1> DEFINE l == Symbols(log)
  <1>1. l \in Seq(Symbol) /\ Len(l) = Len(log) /\ DOMAIN l = DOMAIN log
          /\ \A i \in DOMAIN log : l[i] = log[i].sym
    BY SymbolsOf DEF AnalyzerInv, OnTrail
  <1>2. DOMAIN size_stats = {l[i] : i \in DOMAIN l} /\ DOMAIN trans_stats = PairsOf(l)
    BY DEF AnalyzerInv, Known, CountsSymbols, CountsPairs, Feeds
  <1> HIDE DEF l
  <1> SUFFICES ASSUME NEW s \in predictions
               PROVE  s \in DOMAIN size_stats /\ <<previous_sym, s>> \in DOMAIN trans_stats
    BY DEF Predicted
  <1>3. PICK i \in 1 .. Len(l) - 1 : s = l[i + 1] /\ l[i] = l[Len(l)]
    BY DEF AnalyzerInv, Answered, Model!Followers, l
  <1>4. i + 1 \in DOMAIN l /\ Len(l) \in DOMAIN l /\ log # <<>>
    BY <1>1, <1>3
  <1>5. previous_sym = l[i]
    BY <1>1, <1>3, <1>4 DEF AnalyzerInv, OnTrail
  <1> QED
    BY <1>2, <1>3, <1>4, <1>5 DEF PairsOf

\* The invariant contains what is to be shown.
LEMMA InvShows ==
  ASSUME AnalyzerInv PROVE NoBlindRead /\ TablesExact /\ TablesBounded
  <1> DEFINE l == Symbols(log)
  <1>1. Len(l) = Len(log) /\ DOMAIN l = DOMAIN log /\ DOMAIN log = 1 .. Len(log)
          /\ \A i \in DOMAIN log : l[i] = log[i].sym
    BY SymbolsOf DEF AnalyzerInv, OnTrail
  <1>2. NoBlindRead
    BY Looked, NotNone DEF AnalyzerInv, Known, NoBlindRead
  <1>3. CountsPairs(trans_stats, l) /\ CountsSymbols(Feeds(size_stats), l)
    BY DEF AnalyzerInv, Known
  <1> HIDE DEF l
  <1>4. \A i \in 1 .. Len(log) - 1 : l[i] = log[i].sym /\ l[i + 1] = log[i + 1].sym
    BY <1>1
  <1>5. DOMAIN trans_stats = {<<log[i].sym, log[i + 1].sym>> : i \in 1 .. Len(log) - 1}
    BY <1>1, <1>3, <1>4 DEF CountsPairs, PairsOf
  <1>6. ASSUME NEW x, NEW y PROVE PairPlaces(l, <<x, y>>) = At(x, y)
    BY <1>1, <1>4 DEF PairPlaces, At
  <1>7. \A x, y \in Symbol : <<x, y>> \in DOMAIN trans_stats =>
          trans_stats[<<x, y>>] = Cardinality(At(x, y))
    BY <1>3, <1>6 DEF CountsPairs
  <1>8. DOMAIN size_stats = {log[i].sym : i \in DOMAIN log}
    BY <1>1, <1>3 DEF CountsSymbols, Feeds
  <1>9. ASSUME NEW s \in DOMAIN size_stats
        PROVE  size_stats[s].occurences = Cardinality({i \in DOMAIN log : log[i].sym = s})
    <2>1. Places(l, s) = {i \in DOMAIN log : log[i].sym = s}
      BY <1>1 DEF Places
    <2> QED
      BY <1>3, <2>1 DEF CountsSymbols, Feeds
  <1>10. TablesBounded
    BY DEF AnalyzerInv, Known, TablesBounded, SizeRep, OffsetRep, Bounded
  <1> QED
    BY <1>2, <1>5, <1>7, <1>8, <1>9, <1>10 DEF TablesExact

\* It holds before the first line.
LEMMA InitInv == ASSUME Init PROVE AnalyzerInv
  <1>1. log = <<>> /\ Symbols(log) = <<>>
    BY DEF Init, Symbols
  <1>2. OnTrail /\ Answered
    BY <1>1 DEF Init, OnTrail, Answered
  <1>3. CountsPairs(Empty, <<>>)
    BY DEF CountsPairs, PairsOf, Empty
  <1>4. CountsSymbols(Feeds(Empty), <<>>)
    BY DEF CountsSymbols, Feeds, Empty
  <1>5. Empty = [x \in DOMAIN Empty |-> Empty[x]] /\ DOMAIN Empty = {}
    BY DEF Empty
  <1> QED
    BY <1>1, <1>2, <1>3, <1>4, <1>5 DEF Init, Known, AnalyzerInv

\* The table of sizes, when line l of symbol s and size z is read.
LEMMA SizesRead ==
  ASSUME NEW l \in Seq(Symbol), NEW s \in Symbol, NEW z, NEW f,
         f = [x \in DOMAIN f |-> f[x]],
         CountsSymbols(Feeds(f), l), \A x \in DOMAIN f : SizeRep(f[x])
  PROVE  LET g == Put(f, s, SizeInput(Entry(f, s, None), z))
         IN /\ g = [x \in DOMAIN g |-> g[x]]
            /\ CountsSymbols(Feeds(g), Append(l, s))
            /\ \A x \in DOMAIN g : SizeRep(g[x])
  <1> DEFINE r == SizeInput(Entry(f, s, None), z)
             g == Put(f, s, r)
  <1>1. SizeRep(r)
          /\ r.occurences = IF s \in DOMAIN f THEN f[s].occurences + 1 ELSE 1
    BY SizeFed, SizeFirst DEF Entry
  <1> HIDE DEF r
  <1>2. /\ DOMAIN g = DOMAIN f \cup {s} /\ g[s] = r
        /\ \A y \in DOMAIN f : y # s => g[y] = f[y]
        /\ g = [x \in DOMAIN g |-> g[x]]
    BY DEF Put
  <1> HIDE DEF g
  <1>3. CountedIn(Feeds(g), Feeds(f), s)
    BY <1>1, <1>2 DEF CountedIn, Feeds
  <1>4. CountsSymbols(Feeds(g), Append(l, s))
    BY <1>3, SymbolsCounted
  <1>5. \A x \in DOMAIN g : SizeRep(g[x])
    BY <1>1, <1>2
  <1> QED
    BY <1>2, <1>4, <1>5 DEF g, r

\* A line keeps it: what was predicted has its entries, and each table counts
\* the line once.
LEMMA ReadInv ==
  ASSUME AnalyzerInv, NEW l \in Line, Read(l)
  PROVE  AnalyzerInv'
  <1> DEFINE r == [sym |-> l.sym, offset |-> l.offset, size |-> l.size]
             k == Symbols(log)
             s == l.sym
  <1>1. r \in LogLine /\ s \in Symbol /\ r.sym = s
    BY DEF Line, LogLine
  <1>2. log \in Seq(LogLine) /\ log' = Append(log, r)
    BY DEF AnalyzerInv, OnTrail, Read
  <1>3. k \in Seq(Symbol) /\ Symbols(log') = Append(k, s)
    <2>1. Symbols(Append(log, r)) = Append(Symbols(log), r.sym)
      BY <1>1, <1>2, SymbolsAppend
    <2> QED
      BY <1>1, <1>2, <2>1, SymbolsOf
  <1>4. OnTrail'
    <2>1. log' \in Seq(LogLine) /\ log' # <<>> /\ log'[Len(log')] = r
      BY <1>1, <1>2
    <2>2. previous_sym' = r.sym
      BY <1>1 DEF Read
    <2> QED
      BY <2>1, <2>2 DEF OnTrail
  <1>5. Answered'
    BY <1>3 DEF Answered, Read, Answers, Model!Followers
  <1>6. /\ Touched(trans_stats, Predicted, 0) = trans_stats
        /\ Touched(size_stats, predictions, None) = size_stats
        /\ Touched(offset_stats, Predicted, None) = offset_stats
    BY Looked, TouchedSame DEF AnalyzerInv, Known
  <1>7. size_stats' = Put(size_stats, s, SizeInput(Entry(size_stats, s, None), l.size))
    BY <1>6 DEF Read
  <1>8. /\ size_stats' = [x \in DOMAIN size_stats' |-> size_stats'[x]]
        /\ CountsSymbols(Feeds(size_stats'), Append(k, s))
        /\ \A x \in DOMAIN size_stats' : SizeRep(size_stats'[x])
    BY <1>1, <1>3, <1>7, SizesRead DEF AnalyzerInv, Known
  <1> DEFINE Transitions(f, g) ==
        /\ f = [p \in DOMAIN f |-> f[p]] /\ g = [p \in DOMAIN g |-> g[p]]
        /\ CountsPairs(f, Append(k, s)) /\ DOMAIN g = DOMAIN f
        /\ \A p \in DOMAIN f : f[p] \in Nat \ {0}
        /\ \A p \in DOMAIN g : OffsetRep(g[p])
  <1>9. Transitions(trans_stats', offset_stats')
    <2>1. /\ trans_stats = [p \in DOMAIN trans_stats |-> trans_stats[p]]
          /\ offset_stats = [p \in DOMAIN offset_stats |-> offset_stats[p]]
          /\ CountsPairs(trans_stats, k) /\ DOMAIN offset_stats = DOMAIN trans_stats
          /\ \A p \in DOMAIN trans_stats : trans_stats[p] \in Nat \ {0}
          /\ \A p \in DOMAIN offset_stats : OffsetRep(offset_stats[p])
      BY DEF AnalyzerInv, Known
    <2>2. Len(k) = Len(log) /\ DOMAIN k = DOMAIN log
            /\ \A i \in DOMAIN log : k[i] = log[i].sym
      BY <1>2, SymbolsOf
    <2> HIDE DEF k, s, r
    <2>3. CASE previous_sym = NoSymbol
      <3>1. log = <<>>
        <4>1. log # <<>> => Len(log) \in DOMAIN log
          BY <1>2
        <4>2. log # <<>> => k[Len(log)] \in Symbol
          BY <1>3, <2>2, <4>1
        <4> QED
          BY <2>2, <2>3, <4>1, <4>2, NoSymbolAssumption DEF AnalyzerInv, OnTrail
      <3>2. k = <<>>
        BY <1>3, <2>2, <3>1
      <3>3. trans_stats' = trans_stats /\ offset_stats' = offset_stats
        BY <1>6, <2>3 DEF Read, HasPrevious
      <3>4. CountsPairs(trans_stats, Append(k, s))
        BY <1>1, <2>1, <3>2, NoPairs
      <3> QED
        BY <2>1, <3>3, <3>4
    <2>4. CASE previous_sym # NoSymbol
      <3> DEFINE t == <<previous_sym, s>>
      <3>1. log # <<>> /\ previous_sym = k[Len(k)] /\ k # <<>>
        <4>1. log # <<>>
          BY <2>4 DEF AnalyzerInv, OnTrail
        <4>2. Len(log) \in DOMAIN log
          BY <1>2, <4>1
        <4> QED
          BY <2>2, <4>1, <4>2 DEF AnalyzerInv, OnTrail
      <3>2. Transition(l) = t
        BY DEF Transition, s
      <3>3. trans_stats' = Put(trans_stats, t, Entry(trans_stats, t, 0) + 1)
        BY <1>6, <2>4, <3>2 DEF Read, HasPrevious
      <3>4. PICK op \in OffsetOps(l) :
              offset_stats' = Put(offset_stats, t,
                                  Twice(l, Entry(offset_stats, t, None), op))
        BY <1>6, <2>4, <3>2 DEF Read, HasPrevious
      <3>5. OffsetRep(Twice(l, Entry(offset_stats, t, None), op))
        <4>1. OffsetRep(Entry(offset_stats, t, None)) \/ Entry(offset_stats, t, None) = None
          BY <2>1 DEF Entry
        <4> HIDE DEF t
        <4> QED
          BY <4>1, TwiceFed
      <3> HIDE DEF t
      <3>6. /\ DOMAIN trans_stats' = DOMAIN trans_stats \cup {t}
            /\ trans_stats'[t] = Entry(trans_stats, t, 0) + 1
            /\ \A y \in DOMAIN trans_stats : y # t => trans_stats'[y] = trans_stats[y]
            /\ trans_stats' = [p \in DOMAIN trans_stats' |-> trans_stats'[p]]
        BY <3>3 DEF Put
      <3>7. /\ DOMAIN offset_stats' = DOMAIN offset_stats \cup {t}
            /\ offset_stats'[t] = Twice(l, Entry(offset_stats, t, None), op)
            /\ \A y \in DOMAIN offset_stats : y # t => offset_stats'[y] = offset_stats[y]
            /\ offset_stats' = [p \in DOMAIN offset_stats' |-> offset_stats'[p]]
        BY <3>4 DEF Put
      <3>8. CountedIn(trans_stats', trans_stats, t)
        BY <3>6 DEF CountedIn, Entry
      <3>9. CountsPairs(trans_stats', Append(k, s))
        BY <1>1, <1>3, <2>1, <3>1, <3>8, PairsCounted DEF t
      <3>10. \A p \in DOMAIN trans_stats' : trans_stats'[p] \in Nat \ {0}
        <4>1. Entry(trans_stats, t, 0) \in Nat
          BY <2>1 DEF Entry
        <4> QED
          BY <2>1, <3>6, <4>1
      <3>11. \A p \in DOMAIN offset_stats' : OffsetRep(offset_stats'[p])
        BY <2>1, <3>5, <3>7
      <3> QED
        BY <2>1, <3>6, <3>7, <3>9, <3>10, <3>11
    <2> QED
      BY <2>3, <2>4
  <1> HIDE DEF k, s
  <1>10. Known'
    BY <1>3, <1>8, <1>9 DEF Known
  <1> QED
    BY <1>4, <1>5, <1>10 DEF AnalyzerInv

\* Every step keeps it.
LEMMA NextInv == ASSUME AnalyzerInv, [Next]_vars PROVE AnalyzerInv'
  <1>1. CASE UNCHANGED vars
    BY <1>1 DEF vars, AnalyzerInv, OnTrail, Known, Answered
  <1> QED
    BY <1>1, ReadInv DEF Next, Finished

\* The analyzer never leaves it.
LEMMA Inductive == Spec => []AnalyzerInv
  BY InitInv, NextInv, PTL DEF Spec

\* What a line is compared with was observed: the analyzer reads no entry of its
\* tables that no earlier line has filled, for any log and any oracle that keeps
\* its contract.
THEOREM Informed == Spec => []NoBlindRead
  BY Inductive, InvShows, PTL

\* The tables of times and of sizes are the counts of the log, also when the
\* trackers have changed their representation.
THEOREM Exactness == Spec => []TablesExact
  BY Inductive, InvShows, PTL

\* Where the previous line ended.
AtOffset ==
  log # <<>> => /\ previous_offset = log[Len(log)].offset
                /\ previous_size = log[Len(log)].size

Repeats(x, y) == {i \in At(x, y) : FollowsAt(i)}

\* The places of a transition, when line l is read.
LEMMA AtGrows ==
  ASSUME AnalyzerInv, AtOffset, NEW l \in Line, Read(l), log # <<>>
  PROVE  /\ Len(log) \in Nat \ {0}
         /\ \A x, y \in Symbol :
              IF <<x, y>> = Transition(l)
              THEN /\ At(x, y)' = At(x, y) \cup {Len(log)}
                   /\ Repeats(x, y)' =
                        IF Follows(l) THEN Repeats(x, y) \cup {Len(log)}
                        ELSE Repeats(x, y)
              ELSE At(x, y)' = At(x, y) /\ Repeats(x, y)' = Repeats(x, y)
  <1> DEFINE r == [sym |-> l.sym, offset |-> l.offset, size |-> l.size]
  <1>1. r \in LogLine /\ log \in Seq(LogLine) /\ log' = Append(log, r)
    BY DEF Line, LogLine, AnalyzerInv, OnTrail, Read
  <1>2. PICK n \in Nat \ {0} : n = Len(log)
    BY <1>1
  <1>3. /\ Len(log') - 1 = n /\ 1 .. n = (1 .. n - 1) \cup {n} /\ n \notin 1 .. n - 1
        /\ \A i \in 1 .. n : log'[i] = log[i]
        /\ log'[n + 1] = r
    <2>1. DOMAIN log' = 1 .. n + 1 /\ Len(log') = n + 1
      BY <1>1, <1>2
    <2> QED
      BY <1>1, <1>2, <2>1
  <1>4. \A i \in 1 .. n - 1 : log'[i] = log[i] /\ log'[i + 1] = log[i + 1]
    BY <1>2, <1>3
  <1>5. previous_sym = log[n].sym /\ previous_offset = log[n].offset
          /\ previous_size = log[n].size
    BY <1>2 DEF AnalyzerInv, OnTrail, AtOffset
  <1>6. r.sym = l.sym /\ r.offset = l.offset
    OBVIOUS
  <1> HIDE DEF r
  <1>7. \A i \in 1 .. n - 1 : FollowsAt(i)' <=> FollowsAt(i)
    BY <1>4 DEF FollowsAt
  <1>8. FollowsAt(n)' <=> Follows(l)
    <2>1. log'[n] = log[n]
      BY <1>2, <1>3
    <2>2. FollowsAt(n)' <=> log'[n + 1].offset = log'[n].offset + log'[n].size
      BY DEF FollowsAt
    <2>3. log'[n + 1].offset = l.offset
      BY <1>3, <1>6
    <2> QED
      BY <1>5, <2>1, <2>2, <2>3 DEF Follows, End
  <1>9. ASSUME NEW x \in Symbol, NEW y \in Symbol
        PROVE  At(x, y)' = IF <<x, y>> = Transition(l) THEN At(x, y) \cup {n}
                           ELSE At(x, y)
    <2>1. At(x, y)' = {i \in 1 .. n : log'[i].sym = x /\ log'[i + 1].sym = y}
      BY <1>3 DEF At
    <2>2. At(x, y) = {i \in 1 .. n - 1 : log'[i].sym = x /\ log'[i + 1].sym = y}
      BY <1>2, <1>4 DEF At
    <2>3. (log'[n].sym = x /\ log'[n + 1].sym = y) <=> <<x, y>> = Transition(l)
      BY <1>2, <1>3, <1>5, <1>6 DEF Transition
    <2> QED
      BY <1>3, <2>1, <2>2, <2>3
  <1>10. ASSUME NEW x \in Symbol, NEW y \in Symbol
        PROVE  Repeats(x, y)' = IF <<x, y>> = Transition(l) /\ Follows(l)
                                THEN Repeats(x, y) \cup {n} ELSE Repeats(x, y)
    <2>1. Repeats(x, y)' = {i \in At(x, y)' : FollowsAt(i)'}
      BY DEF Repeats
    <2>2. At(x, y) \subseteq 1 .. n - 1
      BY <1>2 DEF At
    <2>3. {i \in At(x, y) : FollowsAt(i)'} = Repeats(x, y)
      BY <1>7, <2>2 DEF Repeats
    <2>4. CASE <<x, y>> = Transition(l)
      <3>1. At(x, y)' = At(x, y) \cup {n}
        BY <1>9, <2>4
      <3>2. Repeats(x, y)' = {i \in At(x, y) : FollowsAt(i)'}
                               \cup {i \in {n} : FollowsAt(i)'}
        BY <2>1, <3>1
      <3>3. {i \in {n} : FollowsAt(i)'} = IF Follows(l) THEN {n} ELSE {}
        BY <1>8
      <3>4. CASE Follows(l)
        BY <2>3, <2>4, <3>2, <3>3, <3>4
      <3>5. CASE ~Follows(l)
        BY <2>3, <2>4, <3>2, <3>3, <3>5
      <3> QED
        BY <3>4, <3>5
    <2>5. CASE <<x, y>> # Transition(l)
      <3>1. At(x, y)' = At(x, y)
        BY <1>9, <2>5
      <3> QED
        BY <2>1, <2>3, <2>5, <3>1
    <2> QED
      BY <2>4, <2>5
  <1> QED
    BY <1>2, <1>9, <1>10

\* Reading a line makes it the previous one, with its offset and size.
LEMMA ReadAt ==
  ASSUME AnalyzerInv, NEW l \in Line, Read(l) PROVE AtOffset'
  <1> DEFINE r == [sym |-> l.sym, offset |-> l.offset, size |-> l.size]
  <1>1. log' \in Seq(LogLine) /\ log'[Len(log')] = r
    BY DEF Line, LogLine, AnalyzerInv, OnTrail, Read
  <1> QED
    BY <1>1 DEF AtOffset, Read

\* A line keeps FollowingCountsTwice.
LEMMA ReadTwice ==
  ASSUME AnalyzerInv, AtOffset, FollowingCountsTwice, NEW l \in Line, Read(l)
  PROVE  AtOffset' /\ FollowingCountsTwice'
  <1>1. AtOffset'
    BY ReadAt
  <1>2. Touched(offset_stats, Predicted, None) = offset_stats
    BY Looked, TouchedSame DEF AnalyzerInv, Known
  <1>3. DOMAIN offset_stats = {<<log[i].sym, log[i + 1].sym>> : i \in 1 .. Len(log) - 1}
    BY InvShows DEF TablesExact, AnalyzerInv, Known
  <1>4. log \in Seq(LogLine)
    BY DEF AnalyzerInv, OnTrail
  <1>5. CASE log = <<>>
    <2>1. previous_sym = NoSymbol
      BY <1>5 DEF AnalyzerInv, OnTrail
    <2>2. offset_stats' = offset_stats
      BY <1>2, <2>1 DEF Read, HasPrevious
    <2>3. DOMAIN offset_stats = {}
      BY <1>3, <1>5
    <2> QED
      BY <1>1, <2>2, <2>3 DEF FollowingCountsTwice
  <1>6. CASE log # <<>>
    <2> DEFINE t == Transition(l)
               k == Len(log) - 1
               e == Entry(offset_stats, t, None)
    <2>1. previous_sym # NoSymbol
      <3>1. log[Len(log)] \in LogLine
        BY <1>4, <1>6
      <3> QED
        BY <1>6, <3>1, NoSymbolAssumption DEF AnalyzerInv, OnTrail, LogLine
    <2>2. PICK op \in OffsetOps(l) :
            offset_stats' = Put(offset_stats, t, Twice(l, e, op))
      BY <1>2, <2>1 DEF Read, HasPrevious
    <2>3. OffsetRep(e) \/ e = None
      BY DEF AnalyzerInv, Known, Entry
    <2> DEFINE v == Twice(l, e, op)
    <2>4. v.type # "FOLLOW" =>
            /\ e # None => e.type # "FOLLOW"
            /\ e = None => v.occurences = Weight(l)
            /\ e # None /\ e.occurences \in Nat =>
                 v.occurences = e.occurences + Weight(l)
      BY <2>3, TwiceFed
    <2> HIDE DEF v
    <2>5. /\ DOMAIN offset_stats' = DOMAIN offset_stats \cup {t}
          /\ offset_stats'[t] = v
          /\ \A p \in DOMAIN offset_stats : p # t => offset_stats'[p] = offset_stats[p]
      BY <2>2 DEF Put, v
    <2>6. k \in Nat /\ Len(log) = k + 1
      BY <1>4, <1>6
    <2>7. \A x, y \in Symbol : Repeats(x, y) \subseteq At(x, y) /\ At(x, y) \subseteq 1 .. k
      BY DEF Repeats, At
    <2>8. \A x, y \in Symbol :
            IF <<x, y>> = t
            THEN /\ At(x, y)' = At(x, y) \cup {k + 1}
                 /\ Repeats(x, y)' = IF Follows(l) THEN Repeats(x, y) \cup {k + 1}
                                     ELSE Repeats(x, y)
            ELSE At(x, y)' = At(x, y) /\ Repeats(x, y)' = Repeats(x, y)
      BY <1>6, <2>6, AtGrows
    <2> HIDE DEF k
    <2>9. ASSUME NEW x \in Symbol, NEW y \in Symbol, <<x, y>> \in DOMAIN offset_stats',
                 offset_stats'[<<x, y>>].type # "FOLLOW"
          PROVE  offset_stats'[<<x, y>>].occurences =
                   Cardinality(At(x, y)') + Cardinality(Repeats(x, y)')
      <3>1. ASSUME <<x, y>> \in DOMAIN offset_stats,
                   offset_stats[<<x, y>>].type # "FOLLOW"
            PROVE  offset_stats[<<x, y>>].occurences =
                     Cardinality(At(x, y)) + Cardinality(Repeats(x, y))
        BY <3>1 DEF FollowingCountsTwice, Repeats
      <3>2. CASE <<x, y>> # t
        BY <2>5, <2>8, <2>9, <3>1, <3>2
      <3>3. CASE <<x, y>> = t
        <4>1. /\ Cardinality(At(x, y)) \in Nat /\ Cardinality(Repeats(x, y)) \in Nat
              /\ Cardinality(At(x, y)') = Cardinality(At(x, y)) + 1
              /\ Cardinality(Repeats(x, y)') =
                   Cardinality(Repeats(x, y)) + (IF Follows(l) THEN 1 ELSE 0)
          <5>1. At(x, y) \subseteq 1 .. k /\ Repeats(x, y) \subseteq 1 .. k
            BY <2>7
          <5>2. /\ Cardinality(At(x, y)) \in Nat
                /\ Cardinality(At(x, y) \cup {k + 1}) = Cardinality(At(x, y)) + 1
            BY <2>6, <5>1, OneMore
          <5>3. /\ Cardinality(Repeats(x, y)) \in Nat
                /\ Cardinality(Repeats(x, y) \cup {k + 1}) = Cardinality(Repeats(x, y)) + 1
            BY <2>6, <5>1, OneMore
          <5>4. /\ At(x, y)' = At(x, y) \cup {k + 1}
                /\ Repeats(x, y)' = IF Follows(l) THEN Repeats(x, y) \cup {k + 1}
                                    ELSE Repeats(x, y)
            BY <2>8, <3>3
          <5>5. CASE Follows(l)
            BY <5>2, <5>3, <5>4, <5>5
          <5>6. CASE ~Follows(l)
            BY <5>2, <5>3, <5>4, <5>6
          <5> QED
            BY <5>5, <5>6
        <4>2. v.type # "FOLLOW" /\ offset_stats'[<<x, y>>] = v
          BY <2>5, <2>9, <3>3
        <4>3. CASE t \in DOMAIN offset_stats
          <5>1. e = offset_stats[t] /\ e # None
            BY <4>3, NotNone DEF Entry, AnalyzerInv, Known
          <5>2. e.occurences = Cardinality(At(x, y)) + Cardinality(Repeats(x, y))
            BY <2>4, <3>1, <3>3, <4>2, <4>3, <5>1
          <5>3. v.occurences = e.occurences + Weight(l)
            BY <2>4, <4>1, <4>2, <5>1, <5>2
          <5> QED
            BY <4>1, <4>2, <5>2, <5>3 DEF Weight
        <4>4. CASE t \notin DOMAIN offset_stats
          <5>1. e = None
            BY <4>4 DEF Entry
          <5>2. At(x, y) = {} /\ Repeats(x, y) = {}
            BY <1>3, <3>3, <4>4 DEF At, Repeats
          <5>3. Cardinality(At(x, y)) = 0 /\ Cardinality(Repeats(x, y)) = 0
            BY <5>2, FS_EmptySet
          <5> QED
            BY <2>4, <4>1, <4>2, <5>1, <5>3 DEF Weight
        <4> QED
          BY <4>3, <4>4
      <3> QED
        BY <3>2, <3>3
    <2> QED
      BY <1>1, <2>9 DEF FollowingCountsTwice, Repeats
  <1> QED
    BY <1>5, <1>6

\* A line that follows the one before it counts twice in the table of offsets,
\* unless the tracker has given up counting, and any other line counts once.
THEOREM Doubling == Spec => []FollowingCountsTwice
  <1>1. Init => AtOffset /\ FollowingCountsTwice
    BY DEF Init, AtOffset, FollowingCountsTwice, Empty
  <1>2. ASSUME AnalyzerInv, AtOffset /\ FollowingCountsTwice, [Next]_vars
        PROVE  (AtOffset /\ FollowingCountsTwice)'
    <2>1. CASE UNCHANGED vars
      BY <1>2, <2>1 DEF vars, AtOffset, FollowingCountsTwice, At, FollowsAt
    <2> QED
      BY <1>2, <2>1, ReadTwice DEF Next, Finished
  <1> QED
    BY <1>1, <1>2, Inductive, PTL DEF Spec

\* No tracker of the tables remembers more values than sixteen, or twenty-four,
\* although a grammar is fed before its limit is looked at and although equal
\* operations "following" may be told apart.
THEOREM Boundedness == Spec => []TablesBounded
  BY Inductive, InvShows, PTL

-----------------------------------------------------------------------------
(* What has always been the same.                                          *)

Followings == {O!following(m) : m \in Memory}

\* Tracker r holds only operations of Q.
Among(r, Q) ==
  /\ "type" \in DOMAIN r
  /\ \/ /\ r.type = "SIMPLE" /\ {"offset", "occurences"} \subseteq DOMAIN r
        /\ r.offset \in Q /\ r.occurences \in Nat
     \/ /\ r.type = "GRAMMAR"
        /\ {"occurences", "occ_map", "offset_map", "symbols_offset", "last",
            "last_off", "o"} \subseteq DOMAIN r
        /\ \A v \in DOMAIN r.symbols_offset : r.symbols_offset[v] \in Q
        /\ \A op \in DOMAIN r.offset_map : r.offset_map[op] \in DOMAIN r.symbols_offset
        /\ r.o \in Seq(DOMAIN r.symbols_offset)
        /\ r.last_off \in Q
     \/ r.type = "FOLLOW"

\* It has settled: on one operation, or on any that follow.
Holds(r, Q) == Among(r, Q) /\ (r.type # "SIMPLE" => Q = Followings)

\* A grammar of operations, fed with one more.
LEMMA GrammarAmong ==
  ASSUME NEW r, NEW Q, Among(r, Q), r.type = "GRAMMAR", NEW op \in Q
  PROVE  Among(O!GramOffsetInput(r, op), Q)
  <1> DEFINE n == O!GramOffsetInput(r, op)
             sym == IF op \in DOMAIN r.offset_map THEN r.offset_map[op] ELSE r.last
  <1>1. /\ {"type", "occurences", "occ_map", "offset_map", "symbols_offset", "last",
            "last_off", "o"} \subseteq DOMAIN r
        /\ \A v \in DOMAIN r.symbols_offset : r.symbols_offset[v] \in Q
        /\ \A q \in DOMAIN r.offset_map : r.offset_map[q] \in DOMAIN r.symbols_offset
        /\ r.o \in Seq(DOMAIN r.symbols_offset)
    BY DEF Among
  <1>2. /\ DOMAIN n = DOMAIN r /\ n.type = "GRAMMAR" /\ n.last_off = op
        /\ n.o = Append(r.o, sym)
        /\ n.offset_map = O!Put(r.offset_map, op, sym)
        /\ n.symbols_offset = O!Put(r.symbols_offset, sym, op)
    BY <1>1 DEF O!GramOffsetInput
  <1> HIDE DEF n, sym
  <1>3. /\ DOMAIN n.symbols_offset = DOMAIN r.symbols_offset \cup {sym}
        /\ \A v \in DOMAIN n.symbols_offset : n.symbols_offset[v] \in Q
    BY <1>1, <1>2 DEF O!Put
  <1>4. \A q \in DOMAIN n.offset_map : n.offset_map[q] \in DOMAIN n.symbols_offset
    BY <1>1, <1>2, <1>3 DEF O!Put
  <1>5. n.o \in Seq(DOMAIN n.symbols_offset)
    <2>1. ASSUME NEW A, NEW B, NEW q \in Seq(A), NEW v, B = A \cup {v}
          PROVE  Append(q, v) \in Seq(B)
      BY <2>1
    <2> QED
      BY <1>1, <1>2, <1>3, <2>1
  <1> QED
    BY <1>1, <1>2, <1>3, <1>4, <1>5 DEF Among, n

\* A tracker that is fed holds what it held and what it is fed with.
LEMMA AmongFed ==
  ASSUME NEW r, NEW Q, NEW op \in Q, r = None \/ Among(r, Q)
  PROVE  Among(OffsetInput(r, op), Q)
  <1>1. CASE r = None
    BY <1>1 DEF OffsetInput, O!simple_offset, Among
  <1>2. ASSUME Among(r, Q) PROVE r # None
    BY <1>2 DEF Among, None
  <1>3. CASE Among(r, Q) /\ r.type = "SIMPLE" /\ r.offset = op
    <2>1. OffsetInput(r, op) = [r EXCEPT !.occurences = @ + 1]
      BY <1>2, <1>3 DEF OffsetInput, O!Fed, O!Outgrown
    <2> QED
      BY <1>3, <2>1 DEF Among
  <1>4. CASE Among(r, Q) /\ r.type = "SIMPLE" /\ r.offset # op
    <2> DEFINE n == O!gram_offset(r)
    <2>1. OffsetInput(r, op) = O!GramOffsetInput(n, op)
      BY <1>2, <1>4 DEF OffsetInput, O!Outgrown, O!Successor
    <2>2. r.offset \in Q /\ r.occurences \in Nat
      BY <1>4 DEF Among
    <2>3. /\ {"type", "occurences", "occ_map", "offset_map", "symbols_offset", "last",
              "last_off", "o"} \subseteq DOMAIN n
          /\ n.type = "GRAMMAR" /\ n.last_off = r.offset
          /\ n.offset_map = [y \in {r.offset} |-> 0]
          /\ n.symbols_offset = [y \in {0} |-> r.offset]
          /\ n.o = [i \in 1 .. r.occurences |-> 0]
      BY DEF O!gram_offset, O!Single
    <2> HIDE DEF n
    <2>4. n.o \in Seq({0}) /\ DOMAIN n.symbols_offset = {0}
      BY <2>2, <2>3
    <2>5. Among(n, Q)
      BY <2>2, <2>3, <2>4 DEF Among
    <2> QED
      BY <2>1, <2>3, <2>5, GrammarAmong
  <1>5. CASE Among(r, Q) /\ r.type = "GRAMMAR"
    <2>1. O!Fed(r, op) = O!GramOffsetInput(r, op)
      BY <1>5 DEF O!Fed
    <2>2. OffsetInput(r, op) = O!GramOffsetInput(r, op)
            \/ OffsetInput(r, op) = [type |-> "FOLLOW"]
      BY <1>2, <1>5, <2>1 DEF OffsetInput, O!Successor, O!follow_offset
    <2>3. Among(O!GramOffsetInput(r, op), Q)
      BY <1>5, GrammarAmong
    <2>4. Among([type |-> "FOLLOW"], Q)
      BY DEF Among
    <2> QED
      BY <2>2, <2>3, <2>4
  <1>6. CASE Among(r, Q) /\ r.type = "FOLLOW"
    <2>1. OffsetInput(r, op) = r
      BY <1>2, <1>6 DEF OffsetInput, O!Outgrown, O!Fed
    <2> QED
      BY <1>6, <2>1
  <1> QED
    BY <1>1, <1>3, <1>4, <1>5, <1>6 DEF Among

\* A tracker that is fed with what it holds only holds that.
LEMMA HoldsFed ==
  ASSUME NEW r, NEW Q, NEW op \in Q, Q = Followings \/ Q = {op},
         r = None \/ Holds(r, Q)
  PROVE  Holds(OffsetInput(r, op), Q)
  <1>1. Among(OffsetInput(r, op), Q)
    BY AmongFed DEF Holds
  <1>2. CASE r = None
    BY <1>1, <1>2 DEF OffsetInput, O!simple_offset, Holds
  <1>3. CASE r # None /\ Q # Followings
    <2>1. Among(r, Q) /\ r.type = "SIMPLE" /\ r.offset = op
      BY <1>3 DEF Holds, Among
    <2>2. OffsetInput(r, op) = [r EXCEPT !.occurences = @ + 1]
      BY <1>3, <2>1 DEF OffsetInput, O!Fed, O!Outgrown
    <2>3. OffsetInput(r, op).type = "SIMPLE"
      BY <2>1, <2>2 DEF Among
    <2> QED
      BY <1>1, <2>3 DEF Holds
  <1> QED
    BY <1>1, <1>2, <1>3 DEF Holds

\* It predicts what it holds, or that the next one follows, with any
\* representation, and whatever its oracle answers.
LEMMA AmongPredicted ==
  ASSUME NEW r, NEW Q, Among(r, Q)
  PROVE  O!Predictions(r) # {} /\ O!Predictions(r) \subseteq Q \cup Followings
  <1>1. CASE r.type = "SIMPLE"
    BY <1>1 DEF Among, O!Predictions
  <1>2. CASE r.type = "GRAMMAR"
    <2> DEFINE F == O!Followers(r.o)
               Answer(P) == IF O!Cardinality(P) = 1
                            THEN r.symbols_offset[CHOOSE p \in P : TRUE]
                            ELSE r.last_off
    <2>1. O!Predictions(r) = {Answer(P) : P \in SUBSET F}
      BY <1>2 DEF O!Predictions
    <2>2. /\ \A v \in DOMAIN r.symbols_offset : r.symbols_offset[v] \in Q
          /\ r.o \in Seq(DOMAIN r.symbols_offset) /\ r.last_off \in Q
      BY <1>2 DEF Among
    <2>3. ASSUME NEW v \in F PROVE v \in DOMAIN r.symbols_offset
      <3>1. PICK i \in 1 .. Len(r.o) - 1 : v = r.o[i + 1]
        BY DEF O!Followers
      <3>2. i + 1 \in 1 .. Len(r.o)
        BY <2>2
      <3> QED
        BY <2>2, <3>1, <3>2
    <2> HIDE DEF F
    <2>4. ASSUME NEW P \in SUBSET F PROVE Answer(P) \in Q
      <3>1. CASE O!Cardinality(P) = 1
        <4>1. O!Cardinality(P) = Cardinality(P)
          BY DEF O!Cardinality, Cardinality
        <4>2. P # {}
          BY <3>1, <4>1, FS_EmptySet
        <4>3. (CHOOSE p \in P : TRUE) \in P
          BY <4>2
        <4> QED
          BY <2>2, <2>3, <3>1, <4>3
      <3>2. CASE O!Cardinality(P) # 1
        BY <2>2, <3>2
      <3> QED
        BY <3>1, <3>2
    <2>5. {} \in SUBSET F
      OBVIOUS
    <2> HIDE DEF Answer
    <2> QED
      <3>1. Answer({}) \in O!Predictions(r)
        BY <2>1, <2>5
      <3>2. \A op \in O!Predictions(r) : op \in Q
        BY <2>1, <2>4
      <3> QED
        BY <3>1, <3>2
  <1>3. CASE r.type = "FOLLOW"
    <2>1. O!Predictions(r) = {O!following(m) : m \in Memory}
      BY <1>3 DEF O!Predictions
    <2> QED
      BY <1>3, <2>1, MemoryAssumption DEF Followings
  <1> QED
    BY <1>1, <1>2, <1>3 DEF Among

\* So one of operations that follow predicts that the next one does.
LEMMA FollowingPredicted ==
  ASSUME NEW r, Holds(r, Followings), NEW a, NEW b
  PROVE  {O!get_offset_after(op, a, b) : op \in O!Predictions(r)} = {a + b}
  <1>1. \A op \in Followings : op.type = "FOLLOWING"
    BY DEF Followings, O!following
  <1>2. ASSUME NEW op, op.type = "FOLLOWING"
        PROVE  O!get_offset_after(op, a, b) = a + b
    BY <1>2 DEF O!get_offset_after
  <1>3. O!Predictions(r) # {} /\ O!Predictions(r) \subseteq Followings
    BY AmongPredicted DEF Holds
  <1> QED
    BY <1>1, <1>2, <1>3

\* A tracker of one operation, which does not follow, predicts it.
LEMMA OnePredicted ==
  ASSUME NEW r, NEW op, Holds(r, {op}), op.type # "FOLLOWING"
  PROVE  O!Predictions(r) = {op}
  <1>1. {op} # Followings
    <2>1. PICK m \in Memory : TRUE
      BY MemoryAssumption
    <2>2. O!following(m) \in Followings /\ O!following(m).type = "FOLLOWING"
      BY DEF Followings, O!following
    <2> QED
      BY <2>2
  <1>2. r.type = "SIMPLE" /\ r.offset = op
    BY <1>1 DEF Holds, Among
  <1> QED
    BY <1>2 DEF O!Predictions

\* What OffsetOps makes of the line after the i-th.
OpsAt(i) ==
  IF FollowsAt(i) THEN Followings
  ELSE IF log[i + 1].offset = 0 THEN {O!offset_op(0, "ABSOLUTE")}
  ELSE {O!offset_op(Gap(i), "RELATIVE")}

Lines(s) == {i \in DOMAIN log : log[i].sym = s}

\* The tracker of a symbol, or of a transition, that has always been the same.
SettledSizes ==
  \A s \in DOMAIN size_stats : \A j \in Lines(s) :
    (\A i \in Lines(s) : log[i].size = log[j].size) =>
      /\ {"type", "size", "occurences"} \subseteq DOMAIN size_stats[s]
      /\ size_stats[s].type = "SIMPLE" /\ size_stats[s].size = log[j].size

SettledOffsets ==
  \A x, y \in Symbol : <<x, y>> \in DOMAIN offset_stats =>
    \A j \in At(x, y) :
      (\A i \in At(x, y) : OpsAt(i) = OpsAt(j)) =>
        Holds(offset_stats[<<x, y>>], OpsAt(j))

Settled == AtOffset /\ SettledSizes /\ SettledOffsets

\* A line leaves what the operations of the earlier ones were, and adds its own.
LEMMA OpsGrow ==
  ASSUME AnalyzerInv, AtOffset, NEW l \in Line, Read(l), NEW n \in Nat \ {0},
         n = Len(log)
  PROVE  /\ \A i \in 1 .. n - 1 : OpsAt(i)' = OpsAt(i)
         /\ OpsAt(n)' = OffsetOps(l)
  <1> DEFINE r == [sym |-> l.sym, offset |-> l.offset, size |-> l.size]
  <1>1. r \in LogLine /\ log \in Seq(LogLine) /\ log' = Append(log, r)
    BY DEF Line, LogLine, AnalyzerInv, OnTrail, Read
  <1>2. log'[n + 1].offset = l.offset /\ \A i \in 1 .. n : log'[i] = log[i]
    BY <1>1
  <1>3. previous_offset = log[n].offset /\ previous_size = log[n].size
    BY DEF AtOffset
  <1> HIDE DEF r
  <1>4. ASSUME NEW i \in 1 .. n - 1 PROVE OpsAt(i)' = OpsAt(i)
    <2>1. log'[i] = log[i] /\ log'[i + 1] = log[i + 1]
      BY <1>2
    <2> QED
      BY <2>1 DEF OpsAt, FollowsAt, Gap
  <1>5. /\ FollowsAt(n)' <=> Follows(l)
        /\ Gap(n)' = l.offset - End
    <2>1. log'[n] = log[n]
      BY <1>2
    <2>2. /\ FollowsAt(n)' <=> log'[n + 1].offset = log'[n].offset + log'[n].size
          /\ Gap(n)' = log'[n + 1].offset - (log'[n].offset + log'[n].size)
      BY DEF FollowsAt, Gap
    <2> QED
      BY <1>2, <1>3, <2>1, <2>2 DEF Follows, End
  <1> QED
    BY <1>2, <1>4, <1>5 DEF OpsAt, OffsetOps, Followings

\* A tracker of one size that is fed with it keeps it.
LEMMA SizeSettles ==
  ASSUME NEW r, NEW s,
         r # None => /\ {"type", "size", "occurences"} \subseteq DOMAIN r
                     /\ r.type = "SIMPLE" /\ r.size = s
  PROVE  LET n == SizeInput(r, s)
         IN /\ {"type", "size", "occurences"} \subseteq DOMAIN n
            /\ n.type = "SIMPLE" /\ n.size = s
  <1>1. CASE r = None
    BY <1>1 DEF SizeInput, S!simple_size
  <1>2. CASE r # None
    <2>1. SizeInput(r, s) = [r EXCEPT !.occurences = @ + 1]
      BY <1>2 DEF SizeInput, S!Outgrown, S!Fed
    <2> QED
      BY <1>2, <2>1
  <1> QED
    BY <1>1, <1>2

\* Reading a line keeps what the size trackers have settled on.
LEMMA ReadSizes ==
  ASSUME AnalyzerInv, SettledSizes, NEW l \in Line, Read(l)
  PROVE  SettledSizes'
  <1> DEFINE r == [sym |-> l.sym, offset |-> l.offset, size |-> l.size]
             e == Entry(size_stats, l.sym, None)
             v == SizeInput(e, l.size)
  <1>1. PICK n \in Nat : n = Len(log)
    BY DEF AnalyzerInv, OnTrail
  <1>2. /\ DOMAIN log = 1 .. n /\ DOMAIN log' = 1 .. n + 1
        /\ \A i \in 1 .. n : log'[i] = log[i]
        /\ log'[n + 1].sym = l.sym /\ log'[n + 1].size = l.size
    <2>1. r \in LogLine /\ log \in Seq(LogLine) /\ log' = Append(log, r)
      BY DEF Line, LogLine, AnalyzerInv, OnTrail, Read
    <2> QED
      BY <1>1, <2>1
  <1>3. size_stats' = Put(size_stats, l.sym, v)
    <2>1. Touched(size_stats, predictions, None) = size_stats
      BY Looked, TouchedSame DEF AnalyzerInv, Known
    <2> QED
      BY <2>1 DEF Read
  <1>4. \A s : Lines(s)' = IF s = l.sym THEN Lines(s) \cup {n + 1} ELSE Lines(s)
    BY <1>2 DEF Lines
  <1>5. DOMAIN size_stats = {log[i].sym : i \in DOMAIN log}
    BY InvShows DEF TablesExact
  <1> HIDE DEF r
  <1> SUFFICES ASSUME NEW s \in DOMAIN size_stats', NEW j \in Lines(s)',
                      \A i \in Lines(s)' : log'[i].size = log'[j].size
               PROVE  /\ {"type", "size", "occurences"} \subseteq DOMAIN size_stats'[s]
                      /\ size_stats'[s].type = "SIMPLE"
                      /\ size_stats'[s].size = log'[j].size
    BY DEF SettledSizes
  <1>6. \A i \in Lines(s) : log'[i] = log[i]
    BY <1>2 DEF Lines
  <1>7. CASE s # l.sym
    <2>1. s \in DOMAIN size_stats /\ size_stats'[s] = size_stats[s] /\ j \in Lines(s)
      BY <1>3, <1>4, <1>7 DEF Put
    <2>2. \A i \in Lines(s) : log[i].size = log[j].size
      BY <1>4, <1>6, <1>7, <2>1
    <2> QED
      BY <1>6, <2>1, <2>2 DEF SettledSizes
  <1>8. CASE s = l.sym
    <2>1. n + 1 \in Lines(s)' /\ log'[j].size = l.size
      BY <1>2, <1>4, <1>8
    <2>2. \A i \in Lines(s) : log[i].size = l.size
      BY <1>4, <1>6, <1>8, <2>1
    <2>3. e # None => /\ {"type", "size", "occurences"} \subseteq DOMAIN e
                      /\ e.type = "SIMPLE" /\ e.size = l.size
      <3> SUFFICES ASSUME e # None
                   PROVE  /\ {"type", "size", "occurences"} \subseteq DOMAIN e
                          /\ e.type = "SIMPLE" /\ e.size = l.size
        OBVIOUS
      <3>1. s \in DOMAIN size_stats /\ e = size_stats[s]
        BY <1>8 DEF Entry
      <3>2. PICK k \in Lines(s) : TRUE
        BY <1>5, <3>1 DEF Lines
      <3>3. log[k].size = l.size /\ \A i \in Lines(s) : log[i].size = log[k].size
        BY <2>2
      <3> QED
        BY <3>1, <3>3 DEF SettledSizes
    <2>4. size_stats'[s] = v
      BY <1>3, <1>8 DEF Put
    <2> HIDE DEF e
    <2> QED
      BY <2>1, <2>3, <2>4, SizeSettles
  <1> QED
    BY <1>7, <1>8

\* Reading a line keeps what the offset trackers have settled on.
LEMMA ReadOffsets ==
  ASSUME AnalyzerInv, AtOffset, SettledOffsets, NEW l \in Line, Read(l)
  PROVE  SettledOffsets'
  <1>1. Touched(offset_stats, Predicted, None) = offset_stats
    BY Looked, TouchedSame DEF AnalyzerInv, Known
  <1>2. DOMAIN offset_stats = {<<log[i].sym, log[i + 1].sym>> : i \in 1 .. Len(log) - 1}
    BY InvShows DEF TablesExact, AnalyzerInv, Known
  <1>3. log \in Seq(LogLine)
    BY DEF AnalyzerInv, OnTrail
  <1>4. CASE log = <<>>
    <2>1. previous_sym = NoSymbol
      BY <1>4 DEF AnalyzerInv, OnTrail
    <2>2. offset_stats' = offset_stats
      BY <1>1, <2>1 DEF Read, HasPrevious
    <2>3. DOMAIN offset_stats = {}
      BY <1>2, <1>4
    <2> QED
      BY <2>2, <2>3 DEF SettledOffsets
  <1>5. CASE log # <<>>
    <2> DEFINE t == Transition(l)
               e == Entry(offset_stats, t, None)
    <2>1. PICK n \in Nat \ {0} : n = Len(log)
      BY <1>3, <1>5
    <2>2. previous_sym # NoSymbol
      <3>1. log[Len(log)] \in LogLine
        BY <1>3, <1>5
      <3> QED
        BY <1>5, <3>1, NoSymbolAssumption DEF AnalyzerInv, OnTrail, LogLine
    <2>3. PICK op \in OffsetOps(l) :
            offset_stats' = Put(offset_stats, t, Twice(l, e, op))
      BY <1>1, <2>2 DEF Read, HasPrevious
    <2> DEFINE v == Twice(l, e, op)
               Q == OffsetOps(l)
    <2>4. /\ \A i \in 1 .. n - 1 : OpsAt(i)' = OpsAt(i)
          /\ OpsAt(n)' = Q
      BY <2>1, OpsGrow
    <2>5. \A x, y \in Symbol :
            At(x, y)' = IF <<x, y>> = t THEN At(x, y) \cup {n} ELSE At(x, y)
      BY <1>5, <2>1, AtGrows
    <2>6. \A x, y \in Symbol : At(x, y) \subseteq 1 .. n - 1
      BY <2>1 DEF At
    <2>7. e = None \/ Holds(e, Q) => Holds(v, Q)
      <3>1. Q = Followings \/ Q = {op}
        BY DEF OffsetOps, Followings
      <3>2. ASSUME NEW q, q = None \/ Holds(q, Q) PROVE Holds(OffsetInput(q, op), Q)
        BY <3>1, <3>2, HoldsFed
      <3> HIDE DEF e, Q
      <3> QED
        BY <3>2 DEF Twice
    <2>8. /\ DOMAIN offset_stats' = DOMAIN offset_stats \cup {t}
          /\ offset_stats'[t] = v
          /\ \A p \in DOMAIN offset_stats : p # t => offset_stats'[p] = offset_stats[p]
      BY <2>3 DEF Put
    <2> HIDE DEF v, Q
    <2> SUFFICES ASSUME NEW x \in Symbol, NEW y \in Symbol,
                        <<x, y>> \in DOMAIN offset_stats', NEW j \in At(x, y)',
                        \A i \in At(x, y)' : OpsAt(i)' = OpsAt(j)'
                 PROVE  Holds(offset_stats'[<<x, y>>], OpsAt(j)')
      BY DEF SettledOffsets
    <2>9. CASE <<x, y>> # t
      <3>1. At(x, y)' = At(x, y) /\ \A i \in At(x, y) : OpsAt(i)' = OpsAt(i)
        BY <2>4, <2>5, <2>6, <2>9
      <3>2. \A i \in At(x, y) : OpsAt(i) = OpsAt(j)
        BY <3>1
      <3>3. Holds(offset_stats[<<x, y>>], OpsAt(j))
        BY <2>8, <2>9, <3>1, <3>2 DEF SettledOffsets
      <3> QED
        BY <2>8, <2>9, <3>1, <3>3
    <2>10. CASE <<x, y>> = t
      <3>1. n \in At(x, y)' /\ OpsAt(j)' = Q
        BY <2>4, <2>5, <2>10
      <3>2. \A i \in At(x, y) : OpsAt(i) = Q
        BY <2>4, <2>5, <2>6, <2>10, <3>1
      <3>3. e = None \/ Holds(e, Q)
        <4> SUFFICES ASSUME <<x, y>> \in DOMAIN offset_stats
                     PROVE  Holds(offset_stats[<<x, y>>], Q)
          BY <2>10 DEF Entry
        <4>1. PICK k \in At(x, y) : TRUE
          BY <1>2 DEF At
        <4> QED
          BY <3>2, <4>1 DEF SettledOffsets
      <3> QED
        BY <2>7, <2>8, <2>10, <3>1, <3>3
    <2> QED
      BY <2>9, <2>10
  <1> QED
    BY <1>4, <1>5

\* Settled trackers predict what they have settled on.
LEMMA SettledShows ==
  ASSUME AnalyzerInv, Settled PROVE SteadyPredicted
  <1> SUFFICES ASSUME NEW p \in predictions
               PROVE  LET moves == At(previous_sym, p)
                          lines == {i \in DOMAIN log : log[i].sym = p}
                      IN /\ \A j \in lines :
                              (\A i \in lines : log[i].size = log[j].size) =>
                                PredictedSizes(p) = {log[j].size}
                         /\ (\A i \in moves : log[i + 1].offset = 0 /\ Gap(i) # 0) =>
                              PredictedOffsets(p) = {0}
                         /\ \A j \in moves :
                              (\A i \in moves : Gap(i) = Gap(j)
                                 /\ (Gap(i) = 0 \/ log[i + 1].offset # 0)) =>
                                PredictedOffsets(p) = {End + Gap(j)}
    BY DEF SteadyPredicted
  <1> DEFINE x == previous_sym
             t == <<x, p>>
             a == previous_offset
             b == previous_size
  <1>1. p \in DOMAIN size_stats /\ t \in DOMAIN trans_stats /\ t \in DOMAIN offset_stats
    BY Looked DEF Predicted, AnalyzerInv, Known
  <1>2. log \in Seq(LogLine)
    BY DEF AnalyzerInv, OnTrail
  <1>3. PICK k \in 1 .. Len(log) - 1 : log[k].sym = x /\ log[k + 1].sym = p
    BY <1>1, InvShows DEF TablesExact
  <1>4. k \in At(x, p) /\ x \in Symbol /\ p \in Symbol /\ log # <<>>
    <2>1. log[k] \in LogLine /\ log[k + 1] \in LogLine
      BY <1>2, <1>3
    <2> QED
      BY <1>2, <1>3, <2>1 DEF At, LogLine
  <1>5. \A i \in At(x, p) : /\ log[i].offset \in Nat /\ log[i].size \in Nat
                            /\ log[i + 1].offset \in Nat
    <2>1. ASSUME NEW i \in 1 .. Len(log) - 1
          PROVE  log[i] \in LogLine /\ log[i + 1] \in LogLine
      BY <1>2
    <2> QED
      BY <2>1, ColumnsAssumption DEF At, LogLine
  <1>6. a \in Nat /\ b \in Nat
    <2>1. log[Len(log)] \in LogLine
      BY <1>2, <1>4
    <2>2. a = log[Len(log)].offset /\ b = log[Len(log)].size
      <3>1. AtOffset
        BY DEF Settled
      <3> QED
        BY <1>4, <3>1 DEF AtOffset
    <2>3. log[Len(log)].offset \in Nat /\ log[Len(log)].size \in Nat
      BY <2>1, ColumnsAssumption DEF LogLine
    <2> QED
      BY <2>2, <2>3
  <1>7. \A i \in At(x, p) : Gap(i) \in Int /\ (FollowsAt(i) <=> Gap(i) = 0)
    <2>1. ASSUME NEW i \in At(x, p)
          PROVE  Gap(i) \in Int /\ (FollowsAt(i) <=> Gap(i) = 0)
      <3>1. /\ log[i].offset \in Nat /\ log[i].size \in Nat
            /\ log[i + 1].offset \in Nat
        BY <1>5
      <3>2. \A u, v, w \in Nat : /\ w - (u + v) \in Int
                                 /\ (w = u + v <=> w - (u + v) = 0)
        OBVIOUS
      <3> QED
        BY <3>1, <3>2, Zenon DEF Gap, FollowsAt
    <2> QED
      BY <2>1
  <1> DEFINE r == offset_stats[t]
  <1>8. PredictedOffsets(p) = {O!get_offset_after(op, a, b) : op \in O!Predictions(r)}
    <2>1. Entry(offset_stats, t, None) = r /\ r # None
      BY <1>1, NotNone DEF Entry, AnalyzerInv, Known
    <2> QED
      BY <2>1 DEF PredictedOffsets
  <1>9. ASSUME NEW j \in At(x, p), \A i \in At(x, p) : OpsAt(i) = OpsAt(j)
        PROVE  Holds(r, OpsAt(j))
    BY <1>1, <1>4, <1>9 DEF Settled, SettledOffsets
  <1>10. ASSUME NEW j \in Lines(p), \A i \in Lines(p) : log[i].size = log[j].size
         PROVE  PredictedSizes(p) = {log[j].size}
    <2>1. size_stats[p].type = "SIMPLE" /\ size_stats[p].size = log[j].size
      BY <1>1, <1>10 DEF Settled, SettledSizes
    <2>2. Entry(size_stats, p, None) = size_stats[p] /\ size_stats[p] # None
      BY <1>1, NotNone DEF Entry, AnalyzerInv, Known
    <2> QED
      BY <2>1, <2>2 DEF PredictedSizes, S!Predictions
  <1> HIDE DEF r
  <1>11. ASSUME \A i \in At(x, p) : log[i + 1].offset = 0 /\ Gap(i) # 0
         PROVE  PredictedOffsets(p) = {0}
    <2> DEFINE op == O!offset_op(0, "ABSOLUTE")
    <2>1. \A i \in At(x, p) : OpsAt(i) = {op}
      BY <1>7, <1>11 DEF OpsAt
    <2>2. Holds(r, {op})
      BY <1>4, <1>9, <2>1
    <2>3. op.type = "ABSOLUTE" /\ op.offset = 0
      BY DEF O!offset_op
    <2> HIDE DEF op
    <2>4. O!get_offset_after(op, a, b) = 0
      BY <2>3 DEF O!get_offset_after
    <2>5. O!Predictions(r) = {op}
      BY <2>2, <2>3, OnePredicted
    <2> QED
      BY <1>8, <2>4, <2>5
  <1>12. ASSUME NEW j \in At(x, p),
                \A i \in At(x, p) : Gap(i) = Gap(j)
                                      /\ (Gap(i) = 0 \/ log[i + 1].offset # 0)
         PROVE  PredictedOffsets(p) = {End + Gap(j)}
    <2>1. CASE Gap(j) = 0
      <3>1. \A i \in At(x, p) : OpsAt(i) = Followings
        BY <1>7, <1>12, <2>1 DEF OpsAt
      <3>2. Holds(r, Followings)
        BY <1>4, <1>9, <3>1
      <3>3. PredictedOffsets(p) = {a + b}
        BY <1>8, <3>2, FollowingPredicted
      <3> QED
        BY <1>6, <2>1, <3>3 DEF End
    <2>2. CASE Gap(j) # 0
      <3> DEFINE op == O!offset_op(Gap(j), "RELATIVE")
      <3>1. \A i \in At(x, p) : OpsAt(i) = {op}
        BY <1>7, <1>12, <2>2 DEF OpsAt
      <3>2. Holds(r, {op})
        BY <1>4, <1>9, <3>1
      <3>3. op.type = "RELATIVE" /\ op.offset = Gap(j)
        BY DEF O!offset_op
      <3> HIDE DEF op
      <3>4. O!get_offset_after(op, a, b) = End + Gap(j)
        BY <3>3 DEF O!get_offset_after, End
      <3>5. O!Predictions(r) = {op}
        BY <3>2, <3>3, OnePredicted
      <3> QED
        BY <1>8, <3>4, <3>5
    <2> QED
      BY <2>1, <2>2
  <1> QED
    BY <1>10, <1>11, <1>12 DEF Lines

\* What has always been the same is predicted, for any log, any limits and any
\* oracle that keeps its contract: a tracker of one size or one operation keeps
\* to it, and one of operations that follow predicts that the next one does in
\* each of its representations, which the unset field makes it go through.
THEOREM Steadiness == Spec => []SteadyPredicted
  <1>1. Init => Settled
    BY DEF Init, Settled, AtOffset, SettledSizes, SettledOffsets, Empty
  <1>2. ASSUME AnalyzerInv, Settled, [Next]_vars PROVE Settled'
    <2>1. CASE UNCHANGED vars
      <3>1. AtOffset'
        BY <1>2, <2>1 DEF vars, Settled, AtOffset
      <3>2. SettledSizes'
        BY <1>2, <2>1 DEF vars, Settled, SettledSizes, Lines
      <3>3. /\ \A x, y \in Symbol : At(x, y)' = At(x, y)
            /\ \A i : OpsAt(i)' = OpsAt(i)
            /\ offset_stats' = offset_stats
        BY <2>1 DEF vars, At, OpsAt, FollowsAt, Gap
      <3>4. SettledOffsets'
        BY <1>2, <3>3 DEF Settled, SettledOffsets
      <3> QED
        BY <3>1, <3>2, <3>4 DEF Settled
    <2>2. ASSUME NEW l \in Line, Read(l) PROVE Settled'
      <3>1. AtOffset'
        BY <1>2, <2>2, ReadAt DEF Settled
      <3> QED
        BY <1>2, <2>2, <3>1, ReadSizes, ReadOffsets DEF Settled
    <2> QED
      BY <1>2, <2>1, <2>2 DEF Next, Finished
  <1> QED
    BY <1>1, <1>2, Inductive, SettledShows, PTL DEF Spec

-----------------------------------------------------------------------------
(* The hit ratio.                                                          *)

\* A grammar of sizes has the sum of what it counts, and its symbols stand for
\* sizes that it counts.
Weighs(r) ==
  /\ {"type", "size_map", "occ_map", "symbols_size", "last", "occurences", "sum", "o"}
       \subseteq DOMAIN r
  /\ IsFiniteSet(DOMAIN r.occ_map) /\ DOMAIN r.occ_map \subseteq Size
  /\ \A v \in DOMAIN r.occ_map : r.occ_map[v] \in Nat \ {0}
  /\ r.occurences = Total(r.occ_map, DOMAIN r.occ_map)
  /\ r.sum = Total(Weights(r.occ_map), DOMAIN r.occ_map)
  /\ DOMAIN r.size_map = DOMAIN r.occ_map
  /\ \A v \in DOMAIN r.size_map : r.size_map[v] \in DOMAIN r.symbols_size
  /\ \A q \in DOMAIN r.symbols_size : r.symbols_size[q] \in DOMAIN r.occ_map
  /\ r.o \in Seq(DOMAIN r.symbols_size)

\* A mean that is below one of the sizes, of which not all are 0.
Mean(sum, n) ==
  sum \in Nat \ {0} /\ n \in Nat \ {0} /\ \E hi \in Size : sum < hi * n

\* A tracker whose answers are no larger than the sizes.
InRange(r) ==
  /\ "type" \in DOMAIN r
  /\ \/ /\ r.type = "SIMPLE" /\ {"size", "occurences"} \subseteq DOMAIN r
        /\ r.size \in Size /\ r.occurences \in Nat \ {0}
     \/ /\ r.type = "GRAMMAR" /\ Weighs(r)
        /\ \E v, w \in DOMAIN r.occ_map : v # w
     \/ /\ r.type = "AVERAGE" /\ {"occurences", "sum"} \subseteq DOMAIN r
        /\ Mean(r.sum, r.occurences)

\* The sums of the library.
LEMMA IsTotal ==
  ASSUME NEW f, NEW D
  PROVE  S!MapThenSumSet(LAMBDA x : f[x], D) = Total(f, D)
  BY DEF S!MapThenSumSet, S!MapThenFoldSet, Total, Totals

\* The library's sum of a grammar's values is a total of their weights.
LEMMA IsWeighted ==
  ASSUME NEW f, NEW D \in SUBSET DOMAIN f, IsFiniteSet(D)
  PROVE  S!MapThenSumSet(LAMBDA s : s * f[s], D) = Total(Weights(f), D)
  BY WeightedTotal DEF S!MapThenSumSet, S!MapThenFoldSet

\* A grammar that is fed weighs what it is fed.
LEMMA GrammarWeighs ==
  ASSUME NEW r, Weighs(r), NEW s \in Size
  PROVE  LET n == S!GramSizeInput(r, s)
         IN /\ Weighs(n) /\ n.type = r.type
            /\ DOMAIN n.occ_map = DOMAIN r.occ_map \cup {s}
  <1> DEFINE n == S!GramSizeInput(r, s)
             sym == IF s \in DOMAIN r.size_map THEN r.size_map[s] ELSE r.last
             f == r.occ_map
             g == n.occ_map
  <1>1. /\ {"type", "size_map", "occ_map", "symbols_size", "last", "occurences",
            "sum", "o"} \subseteq DOMAIN r
        /\ IsFiniteSet(DOMAIN f) /\ DOMAIN f \subseteq Size
        /\ \A v \in DOMAIN f : f[v] \in Nat \ {0}
        /\ r.occurences = Total(f, DOMAIN f) /\ r.sum = Total(Weights(f), DOMAIN f)
        /\ DOMAIN r.size_map = DOMAIN f
        /\ \A v \in DOMAIN r.size_map : r.size_map[v] \in DOMAIN r.symbols_size
        /\ \A q \in DOMAIN r.symbols_size : r.symbols_size[q] \in DOMAIN f
        /\ r.o \in Seq(DOMAIN r.symbols_size)
    BY DEF Weighs
  <1>2. /\ DOMAIN n = DOMAIN r /\ n.type = r.type
        /\ n.sum = r.sum + s /\ n.occurences = r.occurences + 1
        /\ n.occ_map = S!Put(f, s, IF s \in DOMAIN r.size_map THEN f[s] + 1 ELSE 1)
        /\ n.size_map = S!Put(r.size_map, s, sym)
        /\ n.symbols_size = S!Put(r.symbols_size, sym, s)
        /\ n.o = Append(r.o, sym)
    BY <1>1 DEF S!GramSizeInput
  <1> HIDE DEF n, sym, f
  <1>3. CountedIn(g, f, s)
    BY <1>1, <1>2 DEF CountedIn, S!Put
  <1>4. DOMAIN g = DOMAIN f \cup {s} /\ IsFiniteSet(DOMAIN g) /\ DOMAIN g \subseteq Size
    BY <1>1, <1>3, FS_AddElement DEF CountedIn
  <1>5. \A v \in DOMAIN g : g[v] \in Nat \ {0}
    BY <1>1, <1>3, <1>4 DEF CountedIn
  <1>6. n.sum = Total(Weights(g), DOMAIN g) /\ n.occurences = Total(g, DOMAIN g)
    <2>1. s \in Nat /\ DOMAIN f \subseteq Nat /\ \A v \in DOMAIN f : f[v] \in Nat
      BY <1>1, ColumnsAssumption
    <2> HIDE DEF g
    <2>2. Total(Weights(g), DOMAIN g) = Total(Weights(f), DOMAIN f) + s
      BY <1>1, <1>3, <2>1, WeightsGrow
    <2>3. Total(g, DOMAIN g) = Total(f, DOMAIN f) + 1
      BY <1>1, <1>3, <2>1, CountsGrow
    <2> QED
      BY <1>1, <1>2, <2>2, <2>3
  <1> HIDE DEF g
  <1>7. /\ DOMAIN n.size_map = DOMAIN g
        /\ DOMAIN n.symbols_size = DOMAIN r.symbols_size \cup {sym}
        /\ \A v \in DOMAIN n.size_map : n.size_map[v] \in DOMAIN n.symbols_size
        /\ \A q \in DOMAIN n.symbols_size : n.symbols_size[q] \in DOMAIN g
    BY <1>1, <1>2, <1>4 DEF S!Put
  <1>8. n.o \in Seq(DOMAIN n.symbols_size)
    <2>1. ASSUME NEW A, NEW B, NEW q \in Seq(A), NEW v, B = A \cup {v}
          PROVE  Append(q, v) \in Seq(B)
      BY <2>1
    <2> QED
      BY <1>1, <1>2, <1>7, <2>1
  <1>9. Weighs(n)
    BY <1>1, <1>2, <1>4, <1>5, <1>6, <1>7, <1>8 DEF Weighs, g
  <1> QED
    BY <1>2, <1>4, <1>9 DEF n, f, g

\* What a grammar has counted makes a mean.
LEMMA WeighsMean ==
  ASSUME NEW r, Weighs(r), \E v, w \in DOMAIN r.occ_map : v # w
  PROVE  Mean(r.sum, r.occurences)
  <1> DEFINE f == r.occ_map
             D == DOMAIN f
  <1>1. /\ IsFiniteSet(D) /\ D \subseteq Size /\ D \subseteq Nat /\ D # {}
        /\ \A v \in D : f[v] \in Nat \ {0}
        /\ r.occurences = Total(f, D) /\ r.sum = Total(Weights(f), D)
    BY ColumnsAssumption DEF Weighs
  <1>2. PICK v \in D : v > 0
    BY <1>1
  <1>3. PICK hi \in D : \A x \in D : x <= hi
    BY <1>1, Extremes
  <1>4. PICK w \in D : w < hi
    BY <1>1, <1>3
  <1> HIDE DEF f
  <1>5. /\ Total(f, D) \in Nat \ {0} /\ Total(Weights(f), D) \in Nat
        /\ Total(Weights(f), D) < hi * Total(f, D)
    <2> DEFINE T == D \ {w}
    <2>1. \A x \in T : 0 <= x /\ x <= hi
      BY <1>1, <1>3
    <2>2. T \in SUBSET DOMAIN f /\ 0 \in Nat /\ hi \in Nat /\ DOMAIN f \subseteq Nat
      BY <1>1
    <2>3. IsFiniteSet(T) /\ T # {}
      BY <1>1, <1>3, <1>4, FS_RemoveElement
    <2>4. /\ Total(Weights(f), T) <= hi * Total(f, T)
          /\ Total(f, T) \in Nat \ {0} /\ Total(Weights(f), T) \in Nat
      BY <1>1, <2>1, <2>2, <2>3, WeightedMean
    <2>5. /\ Total(Weights(f), D) = w * f[w] + Total(Weights(f), T)
          /\ Total(f, D) = f[w] + Total(f, T)
      <3>1. Naturally(Weights(f), D) /\ Naturally(f, D)
        <4>1. \A x \in D : x * f[x] \in Nat /\ f[x] \in Nat
          BY <1>1
        <4> QED
          BY <4>1 DEF Naturally, Weights
      <3>2. Weights(f)[w] = w * f[w]
        BY DEF Weights
      <3> QED
        BY <1>1, <3>1, <3>2, TotalTakes
    <2> DEFINE a == Total(Weights(f), T)
               b == Total(f, T)
               c == f[w]
    <2>6. /\ a \in Nat /\ b \in Nat /\ c \in Nat \ {0} /\ hi \in Nat /\ w \in Nat /\ w < hi
          /\ a <= hi * b
      BY <1>1, <1>4, <2>2, <2>4
    <2> HIDE DEF a, b, c
    <2>7. w * c < hi * c /\ hi * (c + b) = hi * c + hi * b
      BY <2>6
    <2>8. w * c + a \in Nat /\ c + b \in Nat \ {0} /\ w * c + a < hi * (c + b)
      <3>1. w * c \in Nat /\ hi * c \in Nat /\ hi * b \in Nat
        BY <2>6
      <3> QED
        BY <2>6, <2>7, <3>1
    <2> QED
      BY <2>5, <2>8 DEF a, b, c
  <1>6. Total(Weights(f), D) # 0
    <2>1. \A x \in D : Weights(f)[x] = x * f[x] /\ x \in Nat /\ f[x] \in Nat
      BY <1>1 DEF Weights
    <2>2. Naturally(Weights(f), D)
      <3>1. \A x \in D : x * f[x] \in Nat
        BY <2>1
      <3> QED
        BY <2>1, <3>1 DEF Naturally
    <2>3. Total(Weights(f), D) = Weights(f)[v] + Total(Weights(f), D \ {v})
      BY <1>1, <2>2, TotalTakes
    <2>4. Total(Weights(f), D \ {v}) \in Nat
      <3>1. IsFiniteSet(D \ {v}) /\ Naturally(Weights(f), D \ {v})
        BY <1>1, <2>2, FS_RemoveElement DEF Naturally
      <3> QED
        BY <3>1, TotalTakes
    <2>5. Weights(f)[v] \in Nat \ {0}
      <3>1. \A x, y \in Nat \ {0} : x * y \in Nat \ {0}
        OBVIOUS
      <3>2. v \in Nat \ {0} /\ f[v] \in Nat \ {0}
        BY <1>1, <1>2
      <3> QED
        BY <2>1, <3>1, <3>2
    <2> QED
      BY <2>3, <2>4, <2>5
  <1> QED
    BY <1>1, <1>5, <1>6 DEF Mean

\* A tracker that is fed stays in range, in whatever representation.
LEMMA RangeFed ==
  ASSUME NEW r, r = None \/ InRange(r), NEW s \in Size
  PROVE  InRange(SizeInput(r, s))
  <1>1. CASE r = None
    BY <1>1 DEF SizeInput, S!simple_size, InRange
  <1>2. ASSUME InRange(r) PROVE r # None
    BY <1>2 DEF InRange, None
  <1>3. CASE InRange(r) /\ r.type = "SIMPLE" /\ r.size = s
    <2>1. SizeInput(r, s) = [r EXCEPT !.occurences = @ + 1]
      BY <1>2, <1>3 DEF SizeInput, S!Fed, S!Outgrown
    <2> QED
      BY <1>3, <2>1 DEF InRange
  <1>4. CASE InRange(r) /\ r.type = "SIMPLE" /\ r.size # s
    <2> DEFINE n == S!gram_size(r)
               k == r.size
               c == r.occurences
    <2>1. SizeInput(r, s) = S!GramSizeInput(n, s)
      BY <1>2, <1>4 DEF SizeInput, S!Outgrown, S!Successor
    <2>2. k \in Size /\ k \in Nat /\ c \in Nat \ {0}
      BY <1>4, ColumnsAssumption DEF InRange
    <2>3. /\ {"type", "size_map", "occ_map", "symbols_size", "last", "occurences",
              "sum", "o"} \subseteq DOMAIN n
          /\ n.type = "GRAMMAR" /\ n.sum = k * c /\ n.occurences = c
          /\ n.occ_map = [y \in {k} |-> c] /\ n.size_map = [y \in {k} |-> 0]
          /\ n.symbols_size = [y \in {0} |-> k]
          /\ n.o = [i \in 1 .. c |-> 0]
      BY DEF S!gram_size, S!Single
    <2> HIDE DEF n, k, c
    <2>4. n.o \in Seq({0}) /\ DOMAIN n.symbols_size = {0} /\ DOMAIN n.occ_map = {k}
      BY <2>2, <2>3
    <2>5. /\ Total(n.occ_map, {k}) = c /\ Total(Weights(n.occ_map), {k}) = k * c
      <3>1. ASSUME NEW f, f[k] \in Nat PROVE Total(f, {k}) = f[k]
        <4>1. IsFiniteSet({k}) /\ Naturally(f, {k}) /\ {k} \ {k} = {}
          BY <3>1, FS_Singleton DEF Naturally
        <4>2. Total(f, {k}) = f[k] + Total(f, {k} \ {k})
          BY <4>1, TotalTakes
        <4>3. Total(f, {k} \ {k}) = 0
          BY <4>1, TotalEmpty, Zenon
        <4> QED
          BY <3>1, <4>2, <4>3
      <3>2. k * c \in Nat /\ n.occ_map[k] = c /\ Weights(n.occ_map)[k] = k * c
        BY <2>2, <2>3, <2>4 DEF Weights
      <3> QED
        BY <2>2, <3>1, <3>2
    <2>6. Weighs(n)
      BY <2>2, <2>3, <2>4, <2>5, FS_Singleton DEF Weighs
    <2>7. /\ Weighs(S!GramSizeInput(n, s)) /\ S!GramSizeInput(n, s).type = "GRAMMAR"
          /\ DOMAIN S!GramSizeInput(n, s).occ_map = {k, s}
      BY <2>3, <2>4, <2>6, GrammarWeighs
    <2> QED
      BY <1>4, <2>1, <2>7 DEF InRange, Weighs, k
  <1>5. CASE InRange(r) /\ r.type = "GRAMMAR"
    <2> DEFINE n == S!GramSizeInput(r, s)
    <2>1. S!Fed(r, s) = n
      BY <1>5 DEF S!Fed
    <2>2. /\ Weighs(n) /\ n.type = "GRAMMAR"
          /\ \E v, w \in DOMAIN n.occ_map : v # w
      <3>1. Weighs(r) /\ \E v, w \in DOMAIN r.occ_map : v # w
        BY <1>5 DEF InRange
      <3> QED
        BY <1>5, <3>1, GrammarWeighs
    <2>3. SizeInput(r, s) = n \/ SizeInput(r, s) = S!average_size(n)
      BY <1>2, <1>5, <2>1 DEF SizeInput, S!Successor
    <2> HIDE DEF n
    <2>4. InRange(n)
      BY <2>2 DEF InRange, Weighs
    <2>5. InRange(S!average_size(n))
      <3> DEFINE a == S!average_size(n)
                 f == n.occ_map
      <3>1. /\ a.type = "AVERAGE" /\ a.occurences = n.occurences
            /\ a.sum = S!MapThenSumSet(LAMBDA x : x * f[x], DOMAIN f)
            /\ {"type", "occurences", "sum"} \subseteq DOMAIN a
        BY DEF S!average_size
      <3> HIDE DEF a, f
      <3>2. IsFiniteSet(DOMAIN f) /\ DOMAIN f \in SUBSET DOMAIN f
        BY <2>2 DEF Weighs, f
      <3>3. a.sum = Total(Weights(f), DOMAIN f)
        BY <3>1, <3>2, IsWeighted
      <3>4. a.sum = n.sum
        BY <2>2, <3>3 DEF Weighs, f
      <3>5. Mean(n.sum, n.occurences)
        BY <2>2, WeighsMean
      <3>6. InRange(a)
        BY <3>1, <3>4, <3>5 DEF InRange
      <3> QED
        BY <3>6 DEF a
    <2> QED
      BY <2>3, <2>4, <2>5
  <1>6. CASE InRange(r) /\ r.type = "AVERAGE"
    <2>1. SizeInput(r, s) = [r EXCEPT !.sum = @ + s, !.occurences = @ + 1]
      BY <1>2, <1>6 DEF SizeInput, S!Outgrown, S!Fed, S!AverageSizeInput
    <2>2. Mean(r.sum, r.occurences) /\ s \in Nat
      BY <1>6, ColumnsAssumption DEF InRange
    <2>3. Mean(r.sum + s, r.occurences + 1)
      <3> DEFINE m == r.sum
                 n == r.occurences
      <3>1. PICK hi \in Size : m < hi * n
        BY <2>2 DEF Mean
      <3>2. m \in Nat \ {0} /\ n \in Nat \ {0} /\ hi \in Nat
        BY <2>2, ColumnsAssumption DEF Mean
      <3> HIDE DEF m, n
      <3>3. PICK top \in Size : hi <= top /\ s <= top
        BY <2>2, <3>2
      <3>4. top \in Nat
        BY ColumnsAssumption
      <3>5. hi * n <= top * n
        <4>1. ASSUME NEW x \in Nat, NEW y \in Nat, NEW z \in Nat, x <= y
              PROVE  x * z <= y * z
          BY <4>1
        <4> QED
          BY <3>2, <3>3, <3>4, <4>1
      <3>6. top * (n + 1) = top * n + top /\ top * n \in Nat /\ hi * n \in Nat
        BY <3>2, <3>4
      <3>7. m + s < top * (n + 1)
        BY <2>2, <3>1, <3>2, <3>3, <3>4, <3>5, <3>6
      <3> QED
        BY <2>2, <3>2, <3>7 DEF Mean, m, n
    <2> QED
      BY <1>6, <2>1, <2>3 DEF InRange
  <1> QED
    BY <1>1, <1>3, <1>4, <1>5, <1>6 DEF InRange

\* A mean that is converted to size_t, rounded down or up, is not above the sizes,
\* nor below 0.
LEMMA MeanWithin ==
  ASSUME NEW sum, NEW n, Mean(sum, n), NEW p \in S!Truncated(sum, n)
  PROVE  p \in Nat /\ \E hi \in Size : p <= hi
  <1>1. PICK hi \in Size : sum < hi * n
    BY DEF Mean
  <1>2. sum \in Nat /\ n \in Nat \ {0} /\ hi \in Nat /\ 0 * n < sum
    BY ColumnsAssumption DEF Mean
  <1>3. PICK x \in sum - 1 .. sum + 1 : p = x \div n
    BY DEF S!Truncated
  <1>4. p \in Nat /\ p <= hi
    BY <1>1, <1>2, <1>3, Rounded
  <1> QED
    BY <1>4

\* So is every answer of a tracker of sizes.
LEMMA RangePredicted ==
  ASSUME NEW r, InRange(r), NEW p \in S!Predictions(r)
  PROVE  p \in Nat /\ \E hi \in Size : p <= hi
  <1>1. CASE r.type = "SIMPLE"
    <2>1. p = r.size /\ r.size \in Size /\ r.size \in Nat
      BY <1>1, ColumnsAssumption DEF S!Predictions, InRange
    <2> QED
      BY <2>1
  <1>2. CASE r.type = "AVERAGE"
    <2>1. p \in S!Truncated(r.sum, r.occurences) /\ Mean(r.sum, r.occurences)
      BY <1>2 DEF S!Predictions, InRange
    <2> QED
      BY <2>1, MeanWithin
  <1>3. CASE r.type = "GRAMMAR"
    <2>1. Weighs(r) /\ \E v, w \in DOMAIN r.occ_map : v # w
      BY <1>3 DEF InRange
    <2>2. PICK P \in SUBSET S!Followers(r.o) : p \in S!GramSizePredict(r, P)
      BY <1>3 DEF S!Predictions
    <2>3. CASE P = {}
      <3>1. p \in S!Truncated(r.sum, r.occurences)
        BY <2>2, <2>3 DEF S!GramSizePredict
      <3> QED
        BY <2>1, <3>1, WeighsMean, MeanWithin
    <2>4. CASE P # {}
      <3> DEFINE T == {r.symbols_size[q] : q \in P}
                 f == r.occ_map
      <3>1. p = S!MapThenSumSet(LAMBDA x : x * f[x], T)
                  \div S!MapThenSumSet(LAMBDA x : f[x], T)
        BY <2>2, <2>4 DEF S!GramSizePredict
      <3>2. /\ \A q \in DOMAIN r.symbols_size : r.symbols_size[q] \in DOMAIN f
            /\ r.o \in Seq(DOMAIN r.symbols_size)
            /\ IsFiniteSet(DOMAIN f) /\ DOMAIN f \subseteq Size /\ DOMAIN f \subseteq Nat
            /\ \A v \in DOMAIN f : f[v] \in Nat \ {0}
        BY <2>1, ColumnsAssumption DEF Weighs
      <3>3. ASSUME NEW q \in P PROVE q \in DOMAIN r.symbols_size
        <4>1. PICK i \in 1 .. Len(r.o) - 1 : q = r.o[i + 1]
          BY <2>2 DEF S!Followers
        <4>2. i + 1 \in 1 .. Len(r.o)
          BY <3>2
        <4> QED
          BY <3>2, <4>1, <4>2
      <3>4. T \in SUBSET DOMAIN f /\ T # {}
        BY <2>4, <3>2, <3>3
      <3> HIDE DEF T, f
      <3>5. IsFiniteSet(T) /\ DOMAIN f # {}
        BY <3>2, <3>4, FS_Subset
      <3>6. p = Total(Weights(f), T) \div Total(f, T)
        <4>1. S!MapThenSumSet(LAMBDA x : x * f[x], T) = Total(Weights(f), T)
          BY <3>4, <3>5, IsWeighted
        <4>2. S!MapThenSumSet(LAMBDA x : f[x], T) = Total(f, T)
          BY IsTotal
        <4> QED
          BY <3>1, <4>1, <4>2
      <3>7. PICK hi \in DOMAIN f : \A x \in DOMAIN f : x <= hi
        BY <3>2, <3>5, Extremes
      <3>8. \A x \in T : 0 <= x /\ x <= hi
        BY <3>2, <3>4, <3>7
      <3>9. hi \in Nat /\ 0 \in Nat /\ hi \in Size
        BY <3>2
      <3>10. /\ Total(Weights(f), T) \div Total(f, T) \in Nat
             /\ Total(Weights(f), T) \div Total(f, T) <= hi
        BY <3>2, <3>4, <3>5, <3>8, <3>9, WeightedMean
      <3> QED
        BY <3>6, <3>9, <3>10
    <2> QED
      BY <2>3, <2>4
  <1> QED
    BY <1>1, <1>2, <1>3 DEF InRange

\* The files are short against the address space: whatever is added up from four
\* offsets and sizes is an address.
ShortFiles == \A x \in Size \cup Offset : 4 * x < Width

\* Numbers near the address space, as a size_t has them.
LEMMA Wrapped ==
  ASSUME NEW x \in Int
  PROVE  /\ 0 <= x /\ x < Width => Unsigned(x) = x
         /\ -Width <= x /\ x < 0 => Unsigned(x) = x + Width
  BY WidthAssumption DEF Unsigned

\* The bytes that two accesses share lie between the later start and the
\* earlier end.
LEMMA Shared ==
  ASSUME NEW o \in Int, NEW s \in Nat, NEW a \in Int, NEW b \in Nat
  PROVE  Cardinality(Bytes(o, s) \cap Bytes(a, b)) =
           IF Greater(o, a) <= Lesser(o + s, a + b) - 1
           THEN Lesser(o + s, a + b) - Greater(o, a) ELSE 0
  <1> DEFINE i == Greater(o, a)
             j == Lesser(o + s, a + b) - 1
  <1>1. i \in Int /\ j \in Int
    BY DEF Greater, Lesser
  <1>2. Bytes(o, s) \cap Bytes(a, b) = i .. j
    BY DEF Bytes, Greater, Lesser
  <1>3. Cardinality(i .. j) = IF i > j THEN 0 ELSE j - i + 1
    BY <1>1, FS_Interval
  <1>4. Lesser(o + s, a + b) = j + 1 /\ Lesser(o + s, a + b) \in Int
    BY DEF Lesser
  <1> HIDE DEF i, j
  <1>5. Lesser(o + s, a + b) - 1 = j /\ Lesser(o + s, a + b) - i = j - i + 1
    BY <1>1, <1>4
  <1>6. Cardinality(i .. j) = IF i <= j THEN j - i + 1 ELSE 0
    BY <1>1, <1>3
  <1> QED
    BY <1>2, <1>5, <1>6 DEF i

\* The ratio is right, although it is computed from sums that wrap around.
LEMMA RatioRight ==
  ASSUME NEW l, l.offset \in Nat, l.size \in Nat \ {0}, NEW o \in Int, NEW s \in Nat,
         o + s >= 0, 4 * l.offset < Width, 4 * l.size < Width, 4 * s < Width,
         -Width < 2 * o, 4 * o < 3 * Width
  PROVE  HitRatio(l, o, s) = TrueRatio(l, o, s)
  <1> DEFINE a == l.offset
             b == l.size
             end == o + s
             last == Greater(end, a + b)
             first == Lesser(o, a)
  <1>1. /\ a \in Nat /\ b \in Nat \ {0} /\ end \in Nat /\ Width \in Nat
        /\ end < Width /\ 2 * (a + b) < Width
    BY WidthAssumption
  <1>2. Unsigned(end) = end
    BY <1>1, Wrapped
  <1>3. Unsigned(last - Unsigned(first)) = last - first
    <2>1. /\ last \in Nat /\ first \in Int /\ last < Width
          /\ 0 <= last - first /\ last - first < Width
          /\ -Width < first /\ first < Width
      BY <1>1 DEF Greater, Lesser
    <2> HIDE DEF last, first
    <2>2. CASE first >= 0
      <3>1. Unsigned(first) = first
        BY <2>1, <2>2, Wrapped
      <3>2. last - first \in Int
        BY <2>1
      <3> QED
        BY <1>1, <2>1, <3>1, <3>2, Wrapped
    <2>3. CASE first < 0
      <3>1. Unsigned(first) = first + Width
        BY <1>1, <2>1, <2>3, Wrapped
      <3>2. /\ last - (first + Width) \in Int
            /\ -Width <= last - (first + Width) /\ last - (first + Width) < 0
            /\ last - (first + Width) + Width = last - first
        BY <1>1, <2>1
      <3> QED
        BY <3>1, <3>2, Wrapped
    <2> QED
      BY <2>1, <2>2, <2>3
  <1>4. Span(l, o, s) = IF s = 0 THEN b ELSE last - first
    BY <1>2, <1>3 DEF Span
  <1>5. Overlap(l, o, s) = Cardinality(Bytes(o, s) \cap Bytes(a, b))
    <2>1. Cardinality(Bytes(o, s) \cap Bytes(a, b)) =
            IF Greater(o, a) <= Lesser(end, a + b) - 1
            THEN Lesser(end, a + b) - Greater(o, a) ELSE 0
      <3>1. a \in Int /\ b \in Nat
        BY <1>1
      <3> HIDE DEF a, b
      <3> QED
        BY <3>1, Shared, Zenon
    <2>2. CASE o <= a
      <3>1. ASSUME end > a PROVE Unsigned(end - a) = end - a
        <4>1. end - a \in Int /\ 0 <= end - a /\ end - a < Width
          BY <1>1, <3>1
        <4> QED
          BY <4>1, Wrapped
      <3>2. Overlap(l, o, s) = IF end <= a THEN 0
                               ELSE IF a + b <= end THEN b ELSE end - a
        BY <1>1, <1>2, <2>2, <3>1 DEF Overlap
      <3> HIDE DEF end
      <3>3. /\ Greater(o, a) = a
            /\ Lesser(end, a + b) = IF end <= a + b THEN end ELSE a + b
        BY <1>1, <2>2 DEF Greater, Lesser
      <3> QED
        BY <1>1, <2>1, <3>2, <3>3
    <2>3. CASE ~(o <= a)
      <3>1. Overlap(l, o, s) = IF a + b <= o THEN 0
                               ELSE IF end <= a + b THEN s ELSE a + b - o
        BY <1>2, <2>3 DEF Overlap
      <3>2. /\ Greater(o, a) = o
            /\ Lesser(end, a + b) = IF end <= a + b THEN end ELSE a + b
        BY <1>1, <2>3 DEF Greater, Lesser
      <3> QED
        BY <1>1, <2>1, <2>3, <3>1, <3>2
    <2> QED
      BY <2>2, <2>3
  <1>6. TrueRatio(l, o, s) =
          (100 * Overlap(l, o, s)) \div Span(l, o, s)
    BY <1>4, <1>5 DEF TrueRatio
  <1> QED
    BY <1>6 DEF HitRatio

\* The operations on offsets that a line may be: from a line of the log to one
\* of the log.
Distances == {z - (x + y) : x \in Offset, y \in Size, z \in Offset}

Movements ==
  Followings \cup {O!offset_op(0, "ABSOLUTE")}
    \cup {O!offset_op(d, "RELATIVE") : d \in Distances}

\* The trackers of the tables hold sizes of the log, and such operations.
Ranges ==
  /\ AtOffset
  /\ \A s \in DOMAIN size_stats : InRange(size_stats[s])
  /\ \A t \in DOMAIN offset_stats : Among(offset_stats[t], Movements)

\* Where a log that is not empty has arrived.
LEMMA Arrived ==
  ASSUME AnalyzerInv, AtOffset, log # <<>>
  PROVE  previous_offset \in Offset /\ previous_size \in Size
  <1>1. log[Len(log)] \in LogLine
    BY DEF AnalyzerInv, OnTrail
  <1> QED
    BY <1>1 DEF AtOffset, LogLine

\* A line keeps that.
LEMMA ReadRanges ==
  ASSUME AnalyzerInv, Ranges, NEW l \in Line, Read(l)
  PROVE  Ranges'
  <1>1. AtOffset'
    BY ReadAt
  <1>2. ASSUME NEW s \in DOMAIN size_stats' PROVE InRange(size_stats'[s])
    <2> DEFINE e == Entry(size_stats, l.sym, None)
               v == SizeInput(e, l.size)
    <2>1. size_stats' = Put(size_stats, l.sym, v)
      <3>1. Touched(size_stats, predictions, None) = size_stats
        BY Looked, TouchedSame DEF AnalyzerInv, Known
      <3> QED
        BY <3>1 DEF Read
    <2>2. e = None \/ InRange(e)
      BY DEF Entry, Ranges
    <2>3. l.size \in Size
      BY DEF Line
    <2> HIDE DEF e
    <2>4. InRange(v)
      BY <2>2, <2>3, RangeFed
    <2> HIDE DEF v
    <2> QED
      BY <1>2, <2>1, <2>4 DEF Put, Ranges
  <1>3. ASSUME NEW t \in DOMAIN offset_stats' PROVE Among(offset_stats'[t], Movements)
    <2>1. Touched(offset_stats, Predicted, None) = offset_stats
      BY Looked, TouchedSame DEF AnalyzerInv, Known
    <2>2. CASE log = <<>>
      <3>1. previous_sym = NoSymbol
        BY <2>2 DEF AnalyzerInv, OnTrail
      <3>2. offset_stats' = offset_stats
        BY <2>1, <3>1 DEF Read, HasPrevious
      <3> QED
        BY <1>3, <3>2 DEF Ranges
    <2>3. CASE offset_stats' = offset_stats
      BY <1>3, <2>3 DEF Ranges
    <2>4. CASE log # <<>> /\ offset_stats' # offset_stats
      <3> DEFINE x == Transition(l)
                 e == Entry(offset_stats, x, None)
      <3>1. PICK op \in OffsetOps(l) :
              offset_stats' = Put(offset_stats, x, Twice(l, e, op))
        BY <2>1, <2>4 DEF Read, HasPrevious
      <3>2. op \in Movements
        <4>1. previous_offset \in Offset /\ previous_size \in Size /\ l.offset \in Offset
          BY <2>4, Arrived DEF Ranges, Line
        <4>2. l.offset - End \in Distances
          BY <4>1 DEF End, Distances
        <4> QED
          BY <4>2 DEF OffsetOps, Movements, Followings
      <3>3. e = None \/ Among(e, Movements)
        BY DEF Entry, Ranges
      <3> HIDE DEF e
      <3>4. Among(Twice(l, e, op), Movements)
        BY <3>2, <3>3, AmongFed DEF Twice
      <3> QED
        BY <1>3, <3>1, <3>4 DEF Put, Ranges
    <2> QED
      BY <2>2, <2>3, <2>4
  <1> QED
    BY <1>1, <1>2, <1>3 DEF Ranges

\* What is predicted then is no further than the sums may reach.
LEMMA RangesShow ==
  ASSUME AnalyzerInv, Ranges, ShortFiles PROVE HitRatioExact
  <1> SUFFICES ASSUME NEW l \in Line, NEW p \in predictions,
                      NEW o \in PredictedOffsets(p), NEW s \in PredictedSizes(p),
                      l.size # 0, o + s >= 0
               PROVE  HitRatio(l, o, s) = TrueRatio(l, o, s)
    BY DEF HitRatioExact
  <1> DEFINE t == <<previous_sym, p>>
             a == previous_offset
             b == previous_size
  <1>1. p \in DOMAIN size_stats /\ t \in DOMAIN trans_stats /\ t \in DOMAIN offset_stats
    BY Looked DEF Predicted, AnalyzerInv, Known
  <1>2. s \in Nat /\ 4 * s < Width
    <2>1. Entry(size_stats, p, None) = size_stats[p] /\ size_stats[p] # None
      BY <1>1, NotNone DEF Entry, AnalyzerInv, Known
    <2>2. s \in S!Predictions(size_stats[p]) /\ InRange(size_stats[p])
      BY <1>1, <2>1 DEF PredictedSizes, Ranges
    <2>3. PICK hi \in Size : s <= hi
      BY <2>2, RangePredicted
    <2>4. s \in Nat
      BY <2>2, RangePredicted
    <2>5. hi \in Nat /\ 4 * hi < Width
      BY ColumnsAssumption DEF ShortFiles
    <2> QED
      BY <2>3, <2>4, <2>5, WidthAssumption
  <1>3. a \in Offset /\ b \in Size
    <2>1. log # <<>>
      BY <1>1, InvShows DEF TablesExact
    <2> QED
      BY <2>1, Arrived DEF Ranges
  <1>4. a \in Nat /\ b \in Nat /\ 4 * a < Width /\ 4 * b < Width
    BY <1>3, ColumnsAssumption DEF ShortFiles
  <1>5. PICK op \in Movements : o = O!get_offset_after(op, a, b)
    <2>1. Entry(offset_stats, t, None) = offset_stats[t] /\ offset_stats[t] # None
      BY <1>1, NotNone DEF Entry, AnalyzerInv, Known
    <2>2. PICK op \in O!Predictions(offset_stats[t]) :
            o = O!get_offset_after(op, a, b)
      BY <2>1 DEF PredictedOffsets
    <2>3. op \in Movements
      BY <1>1, AmongPredicted DEF Ranges, Movements
    <2> QED
      BY <2>2, <2>3
  <1>6. o \in Int /\ -Width < 2 * o /\ 4 * o < 3 * Width
    <2>1. CASE op \in Followings
      <3>1. op.type = "FOLLOWING"
        BY <2>1 DEF Followings, O!following
      <3>2. o = a + b
        BY <1>5, <3>1 DEF O!get_offset_after
      <3> QED
        BY <1>4, <3>2, WidthAssumption
    <2>2. CASE op = O!offset_op(0, "ABSOLUTE")
      <3>1. op.type = "ABSOLUTE" /\ op.offset = 0
        BY <2>2 DEF O!offset_op
      <3>2. o = 0
        BY <1>5, <3>1 DEF O!get_offset_after
      <3> QED
        BY <3>2, WidthAssumption
    <2>3. ASSUME NEW d \in Distances, op = O!offset_op(d, "RELATIVE")
          PROVE  o \in Int /\ -Width < 2 * o /\ 4 * o < 3 * Width
      <3>1. op.type = "RELATIVE" /\ op.offset = d
        BY <2>3 DEF O!offset_op
      <3>2. o = a + b + d
        BY <1>5, <3>1 DEF O!get_offset_after
      <3>3. PICK x \in Offset, y \in Size, z \in Offset : d = z - (x + y)
        BY DEF Distances
      <3>4. /\ x \in Nat /\ y \in Nat /\ z \in Nat
            /\ 4 * x < Width /\ 4 * y < Width /\ 4 * z < Width
        BY ColumnsAssumption DEF ShortFiles
      <3> HIDE DEF a, b
      <3> QED
        BY <1>4, <3>2, <3>3, <3>4, WidthAssumption
    <2> QED
      BY <2>1, <2>2, <2>3 DEF Movements
  <1>7. /\ l.offset \in Nat /\ l.size \in Nat \ {0}
        /\ 4 * l.offset < Width /\ 4 * l.size < Width
    BY ColumnsAssumption DEF Line, ShortFiles
  <1> QED
    BY <1>2, <1>6, <1>7, RatioRight

\* The printed hit ratio is that of the bytes which both accesses touch, for any
\* log of short files, any limits and any oracle that keeps its contract: neither
\* the differences of signed and unsigned numbers nor the means that a tracker
\* predicts lead out of the range in which the arithmetic is right.
THEOREM Rating ==
  ASSUME ShortFiles PROVE Spec => []HitRatioExact
  <1>1. Init => Ranges
    BY DEF Init, Ranges, AtOffset, Empty
  <1>2. ASSUME AnalyzerInv, Ranges, [Next]_vars PROVE Ranges'
    <2>1. CASE UNCHANGED vars
      BY <1>2, <2>1 DEF vars, Ranges, AtOffset
    <2> QED
      BY <1>2, <2>1, ReadRanges DEF Next, Finished
  <1>3. AnalyzerInv /\ Ranges => HitRatioExact
    BY RangesShow
  <1> QED
    BY <1>1, <1>2, <1>3, Inductive, PTL DEF Spec

===============================================================================
