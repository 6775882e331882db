-------------------------- MODULE InterceptionProofs --------------------------
(***************************************************************************)
(* Proofs about modules Tracer and Interception, for any interfaces,       *)
(* handles, symbols, bounds and length of the log.                         *)
(*                                                                         *)
(* The tracer, called in any order: next never answers from an entry that  *)
(* no operation made.  The argument needs of the model only what           *)
(* OracleContract promises, that it predicts followers of the last symbol  *)
(* it read, and of the tracer that the last symbol read is the one whose   *)
(* transitions next looks up.  The tables hold the exact counts of the log *)
(* (see module Counting), since what is refused or half done leaves no     *)
(* trace in them.                                                          *)
(*                                                                         *)
(* The wrappers use the tracer as its specification allows, so that all    *)
(* this holds under them; and the flag and the operation in progress are   *)
(* what the wrappers promise each other, however deep they nest.           *)
(***************************************************************************)
EXTENDS Interception, Counting

-----------------------------------------------------------------------------
(* The tracer: tables.                                                     *)

\* An entry that is observed is there, and all that are there stay and have
\* been observed.
LEMMA ObservedTable ==
  ASSUME NEW S, NEW f, IsTable(f, S, Nat), NEW x \in S,
         \A y \in DOMAIN f : f[y] > 0
  PROVE  /\ IsTable(Observed(f, x), S, Nat)
         /\ DOMAIN Observed(f, x) = DOMAIN f \cup {x}
         /\ \A y \in DOMAIN Observed(f, x) : Observed(f, x)[y] > 0
<1> DEFINE n == IF x \in DOMAIN f THEN f[x] + 1 ELSE 1
<1>1. n \in Nat /\ n > 0
  BY DEF IsTable
<1>2. \A y \in DOMAIN f : f[y] \in Nat
  BY DEF IsTable
<1>3. Observed(f, x) = Put(f, x, n)
  BY DEF Observed
<1> HIDE DEF n
<1>4. /\ IsTable(Put(f, x, n), S, Nat)
      /\ DOMAIN Put(f, x, n) = DOMAIN f \cup {x}
      /\ Put(f, x, n)[x] = n
      /\ \A y \in DOMAIN f : y # x => Put(f, x, n)[y] = f[y]
  BY <1>1, <1>2 DEF Put, IsTable
<1>5. \A y \in DOMAIN f \cup {x} : Put(f, x, n)[y] > 0
  BY <1>1, <1>4
<1> QED
  BY <1>3, <1>4, <1>5

\* Looking up entries that exist creates none.
LEMMA TouchedSame ==
  ASSUME NEW S, NEW T, NEW f, IsTable(f, S, T), NEW X, X \subseteq DOMAIN f
  PROVE  Touched(f, X) = f
<1>1. DOMAIN f \cup X = DOMAIN f
  OBVIOUS
<1>2. Touched(f, X) = [x \in DOMAIN f |-> f[x]]
  BY <1>1 DEF Touched
<1> QED
  BY <1>2 DEF IsTable

-----------------------------------------------------------------------------
(* The wrappers: the inductive invariant.                                  *)

\* The symbol whose transitions are looked up is the last one read.
OnTrail == previous_sym = IF log = <<>> THEN NoSymbol ELSE log[Len(log)]

\* Every symbol read is in its tables, and every transition made.
Recorded ==
  /\ \A i \in 1 .. Len(log) : log[i] \in DOMAIN size \cap DOMAIN type
  /\ \A i \in 1 .. Len(log) - 1 :
       <<log[i], log[i + 1]>> \in DOMAIN time \cap DOMAIN offset

\* No entry is there that was never observed.
Counted ==
  /\ \A p \in DOMAIN time : time[p] > 0
  /\ \A p \in DOMAIN offset : offset[p] > 0
  /\ \A s \in DOMAIN size : size[s] > 0

PredictionKept == predicted \subseteq Model!Followers(log)

TracerInv == TracerTypeOK /\ OnTrail /\ Recorded /\ Counted /\ PredictionKept

\* The invariant contains what is to be shown of the answers.
LEMMA InvAnswers == ASSUME TracerInv PROVE NoBlindAnswer
<1> SUFFICES ASSUME NEW s \in predicted
             PROVE  /\ s \in DOMAIN size \cap DOMAIN type
                    /\ <<previous_sym, s>> \in DOMAIN time \cap DOMAIN offset
  BY DEF NoBlindAnswer, Transitions, TracerInv, Counted
<1>1. log \in Seq(Symbol)
  BY DEF TracerInv, TracerTypeOK
<1>2. PICK i \in 1 .. Len(log) - 1 : s = log[i + 1] /\ log[i] = log[Len(log)]
  BY DEF TracerInv, PredictionKept, Model!Followers
<1>3. Len(log) \in Nat /\ i + 1 \in 1 .. Len(log) /\ log # <<>>
  BY <1>1, <1>2
<1>4. previous_sym = log[i]
  BY <1>2, <1>3 DEF TracerInv, OnTrail
<1> QED
  BY <1>2, <1>3, <1>4 DEF TracerInv, Recorded

\* It holds before the first call.
LEMMA InitInv == ASSUME TracerInit PROVE TracerInv
<1>1. log = <<>> /\ Len(log) = 0
  BY DEF TracerInit
<1>2. TracerTypeOK
  <2>1. \A S, T : IsTable(Empty, S, T)
    BY DEF IsTable, Empty
  <2>2. log \in Seq(Symbol)
    BY <1>1
  <2> QED
    BY <2>1, <2>2 DEF TracerInit, TracerTypeOK
<1>3. OnTrail /\ PredictionKept
  BY <1>1 DEF TracerInit, OnTrail, PredictionKept
<1>4. Recorded /\ Counted
  BY <1>1 DEF TracerInit, Recorded, Counted, Empty
<1> QED
  BY <1>2, <1>3, <1>4 DEF TracerInv

\* The step that matters: a start that is accepted, with a trace.
LEMMA ObserveInv ==
  ASSUME TracerInv, NEW op \in Operation, NEW s \in Symbol, Observe(op, s),
         UNCHANGED <<disabled, enabled, operations>>, started' \in BOOLEAN
  PROVE  TracerInv'
<1>1. log \in Seq(Symbol) /\ log' = Append(log, s) /\ log' \in Seq(Symbol)
  BY DEF TracerInv, TracerTypeOK, Observe
<1>2. /\ Len(log) \in Nat /\ Len(log') = Len(log) + 1
      /\ log'[Len(log')] = s /\ log' # <<>>
      /\ \A i \in 1 .. Len(log) : log'[i] = log[i]
  BY <1>1
<1>3. predicted' \subseteq Model!Followers(log')
  BY DEF Observe
<1>4. predicted' \subseteq Symbol
  <2>1. Model!Followers(log') \subseteq Symbol
    BY <1>1, <1>2 DEF Model!Followers
  <2> QED
    BY <1>3, <2>1
<1>5. /\ IsTable(type', Symbol, Operation)
      /\ DOMAIN type' = DOMAIN type \cup {s}
  <2>1. type' = Put(type, s, op)
    BY DEF Observe
  <2>2. IsTable(type, Symbol, Operation)
    BY DEF TracerInv, TracerTypeOK
  <2> QED
    BY <2>1, <2>2 DEF Put, IsTable
<1>6. /\ IsTable(size', Symbol, Nat)
      /\ DOMAIN size' = DOMAIN size \cup {s}
      /\ \A x \in DOMAIN size' : size'[x] > 0
  BY ObservedTable DEF Observe, TracerInv, TracerTypeOK, Counted, IsTable
<1> DEFINE Pairs == Symbol \X Symbol
<1>7. ASSUME NEW f, IsTable(f, Pairs, Nat), \A p \in DOMAIN f : f[p] > 0
      PROVE  /\ IsTable(UpdateTransition(f, s), Pairs, Nat)
             /\ DOMAIN f \subseteq DOMAIN UpdateTransition(f, s)
             /\ previous_sym # NoSymbol =>
                  <<previous_sym, s>> \in DOMAIN UpdateTransition(f, s)
             /\ \A p \in DOMAIN UpdateTransition(f, s) :
                  UpdateTransition(f, s)[p] > 0
  <2>1. CASE previous_sym = NoSymbol
    BY <1>7, <2>1 DEF UpdateTransition
  <2>2. CASE previous_sym # NoSymbol
    <3>1. <<previous_sym, s>> \in Pairs
      BY <2>2 DEF TracerInv, TracerTypeOK
    <3>2. UpdateTransition(f, s) = Observed(f, <<previous_sym, s>>)
      BY <2>2 DEF UpdateTransition
    <3> DEFINE x == <<previous_sym, s>>
    <3> HIDE DEF Pairs, x
    <3>3. x \in Pairs
      BY <3>1 DEF x
    <3>4. /\ IsTable(Observed(f, x), Pairs, Nat)
          /\ DOMAIN Observed(f, x) = DOMAIN f \cup {x}
          /\ \A y \in DOMAIN Observed(f, x) : Observed(f, x)[y] > 0
      BY <1>7, <3>3, ObservedTable
    <3> QED
      BY <3>2, <3>4 DEF x
  <2> QED
    BY <2>1, <2>2
<1>8. /\ IsTable(time', Pairs, Nat) /\ DOMAIN time \subseteq DOMAIN time'
      /\ previous_sym # NoSymbol => <<previous_sym, s>> \in DOMAIN time'
      /\ \A p \in DOMAIN time' : time'[p] > 0
  BY <1>7 DEF Observe, TracerInv, TracerTypeOK, Counted
<1>9. /\ IsTable(offset', Pairs, Nat) /\ DOMAIN offset \subseteq DOMAIN offset'
      /\ previous_sym # NoSymbol => <<previous_sym, s>> \in DOMAIN offset'
      /\ \A p \in DOMAIN offset' : offset'[p] > 0
  BY <1>7 DEF Observe, TracerInv, TracerTypeOK, Counted
<1>10. TracerTypeOK'
  BY <1>1, <1>4, <1>5, <1>6, <1>8, <1>9
     DEF TracerTypeOK, TracerInv, Observe, LastSymbol
<1>11. OnTrail'
  BY <1>2 DEF OnTrail, Observe, LastSymbol
<1>12. Recorded'
  <2>1. ASSUME NEW i \in 1 .. Len(log')
        PROVE  log'[i] \in DOMAIN size' \cap DOMAIN type'
    <3>1. CASE i \in 1 .. Len(log)
      BY <1>2, <1>5, <1>6, <3>1 DEF TracerInv, Recorded
    <3>2. CASE i = Len(log')
      BY <1>2, <1>5, <1>6, <3>2
    <3> QED
      BY <1>2, <2>1, <3>1, <3>2
  <2>2. ASSUME NEW i \in 1 .. Len(log') - 1
        PROVE  <<log'[i], log'[i + 1]>> \in DOMAIN time' \cap DOMAIN offset'
    <3>1. CASE i \in 1 .. Len(log) - 1
      <4>1. log'[i] = log[i] /\ log'[i + 1] = log[i + 1]
        BY <1>2, <3>1
      <4> QED
        BY <1>8, <1>9, <3>1, <4>1 DEF TracerInv, Recorded
    <3>2. CASE i = Len(log)
      <4>1. log # <<>> /\ log'[i] = log[Len(log)] /\ log'[i + 1] = s
        BY <1>1, <1>2, <2>2, <3>2
      <4>2. previous_sym = log'[i] /\ previous_sym \in Symbol
        BY <1>1, <1>2, <2>2, <3>2, <4>1 DEF TracerInv, OnTrail
      <4>3. previous_sym # NoSymbol
        BY <4>2, SymbolAssumption DEF NoSymbol
      <4> QED
        BY <1>8, <1>9, <4>1, <4>2, <4>3
    <3> QED
      BY <1>2, <2>2, <3>1, <3>2
  <2> QED
    BY <2>1, <2>2 DEF Recorded
<1>13. Counted' /\ PredictionKept'
  BY <1>3, <1>6, <1>8, <1>9 DEF Counted, PredictionKept
<1> QED
  BY <1>10, <1>11, <1>12, <1>13 DEF TracerInv

\* A step that leaves the log, the model and the tables alone.
LEMMA QuietInv ==
  ASSUME TracerInv, UNCHANGED <<previous_sym, log, predicted, tables>>,
         disabled' \in BOOLEAN, enabled' \in BOOLEAN, started' \in BOOLEAN,
         operations' \in {"closed", "open", "failed"}
  PROVE  TracerInv'
<1>1. TracerTypeOK'
  BY DEF TracerInv, TracerTypeOK, IsTable, tables
<1>2. OnTrail' /\ PredictionKept'
  BY DEF TracerInv, OnTrail, PredictionKept
<1>3. Recorded' /\ Counted'
  BY DEF TracerInv, Recorded, Counted, tables
<1> QED
  BY <1>1, <1>2, <1>3 DEF TracerInv

\* The entries that a prediction looks up are there: it adds none.
LEMMA PredictQuiet ==
  ASSUME TracerInv, PredictNext
  PROVE  UNCHANGED tracer
<1>1. CASE started
  BY <1>1 DEF PredictNext
<1>2. CASE ~started
  <2>1. /\ predicted \subseteq DOMAIN size \cap DOMAIN type
        /\ Transitions \subseteq DOMAIN time \cap DOMAIN offset
    BY InvAnswers DEF NoBlindAnswer
  <2>2. Touched(size, predicted) = size
    BY <2>1, TouchedSame DEF TracerInv, TracerTypeOK
  <2>3. Touched(offset, Transitions) = offset /\ Touched(time, Transitions) = time
    BY <2>1, TouchedSame DEF TracerInv, TracerTypeOK
  <2>4. type' = type
    <3>1. DOMAIN type \cup predicted = DOMAIN type
      BY <2>1
    <3>2. type' = [s \in DOMAIN type |-> type[s]]
      BY <1>2, <3>1 DEF PredictNext
    <3> QED
      BY <3>2 DEF TracerInv, TracerTypeOK, IsTable
  <2> QED
    BY <1>2, <2>2, <2>3, <2>4 DEF PredictNext, tracer, tables
<1> QED
  BY <1>1, <1>2

\* Every call keeps it.
LEMMA NextInv == ASSUME TracerInv, [TracerNext]_tracer PROVE TracerInv'
<1> USE DEF TracerInv, TracerTypeOK
<1>1. CASE InitTracer
  BY <1>1, QuietInv DEF InitTracer
<1>2. CASE FinalizeTracer
  BY <1>2, QuietInv DEF FinalizeTracer, tracer
<1>3. ASSUME NEW op \in Operation, NEW s \in Traces, Start(op, s)
      PROVE  TracerInv'
  <2>1. s \in Symbol \cup {NoTrace}
    BY DEF Traces
  <2>2. CASE Accepted /\ s # NoTrace
    <3>1. s \in Symbol /\ Observe(op, s) /\ started' \in BOOLEAN
      BY <1>3, <2>1, <2>2 DEF Start
    <3>2. UNCHANGED <<disabled, enabled, operations>>
      BY <1>3, <2>2 DEF Start
    <3> QED
      BY <3>1, <3>2, ObserveInv
  <2>3. CASE Accepted /\ s = NoTrace
    BY <1>3, <2>3, QuietInv DEF Start
  <2>4. CASE ~Accepted
    BY <1>3, <2>4, QuietInv DEF Start, tracer
  <2> QED
    BY <2>2, <2>3, <2>4
<1>4. CASE End
  BY <1>4, QuietInv DEF End, tracer
<1>5. CASE PredictNext
  BY <1>5, PredictQuiet, QuietInv DEF tracer
<1>6. CASE UNCHANGED tracer
  BY <1>6, QuietInv DEF tracer
<1> QED
  BY <1>1, <1>2, <1>3, <1>4, <1>5, <1>6 DEF TracerNext

\* The invariant of the tracer of omniscio.cpp holds after any calls of its
\* interface, in any order.
THEOREM Inductive == TracerSpec => []TracerInv
BY InitInv, NextInv, PTL DEF TracerSpec

\* Whatever the order in which the interface of omniscio.h is called, the tables
\* keep their types: no transition starts from no symbol.
THEOREM Typing == TracerSpec => []TracerTypeOK
<1>1. TracerInv => TracerTypeOK
  BY DEF TracerInv
<1> QED
  BY <1>1, Inductive, PTL

\* Every entry that omniscio_next looks up has been observed, for every number
\* of symbols and operations.
THEOREM Answers == TracerSpec => []NoBlindAnswer
<1>1. TracerInv => NoBlindAnswer
  BY InvAnswers
<1> QED
  BY <1>1, Inductive, PTL

\* A prediction changes nothing: next may be asked at any time and any number of
\* times, and the tables are those of the operations alone.
THEOREM PredictionIsReadOnly ==
  TracerSpec => [][PredictNext => UNCHANGED tracer]_tracer
<1>1. TracerInv /\ [TracerNext]_tracer =>
        [PredictNext => UNCHANGED tracer]_tracer
  BY PredictQuiet
<1> QED
  BY <1>1, Inductive, PTL DEF TracerSpec

-----------------------------------------------------------------------------
(* The tables are the counts of the log.                                   *)

\* TablesExact in the terms of module Counting.
LEMMA ExactCounts ==
  TablesExact <=> /\ CountsPairs(time, log) /\ offset = time
                  /\ CountsSymbols(size, log) /\ DOMAIN type = DOMAIN size
BY DEF TablesExact, CountsPairs, CountsSymbols, PairsOf, PairPlaces, Places

\* An observation counts one more of its entry.
LEMMA ObservedCounts ==
  ASSUME NEW f, NEW x
  PROVE  CountedIn(Observed(f, x), f, x)
<1> DEFINE n == IF x \in DOMAIN f THEN f[x] + 1 ELSE 1
<1>1. Observed(f, x) = Put(f, x, n)
  BY DEF Observed
<1> HIDE DEF n
<1>2. /\ DOMAIN Put(f, x, n) = DOMAIN f \cup {x}
      /\ Put(f, x, n)[x] = n
      /\ \A y \in DOMAIN f : y # x => Put(f, x, n)[y] = f[y]
  BY DEF Put
<1> QED
  BY <1>1, <1>2 DEF CountedIn, n

\* A start that observes keeps the counts: all tables and the log get the same
\* symbol and the same transition.
LEMMA ObserveExact ==
  ASSUME TracerInv, TablesExact, NEW op \in Operation, NEW s \in Symbol,
         Observe(op, s)
  PROVE  TablesExact'
<1>1. log \in Seq(Symbol) /\ log' = Append(log, s)
  BY DEF TracerInv, TracerTypeOK, Observe
<1>2. CountsPairs(time, log) /\ offset = time /\ CountsSymbols(size, log)
        /\ DOMAIN type = DOMAIN size
  BY ExactCounts
<1>3. CountsSymbols(size', log')
  BY <1>1, <1>2, ObservedCounts, SymbolsCounted DEF Observe
<1>4. DOMAIN type' = DOMAIN size'
  <2>1. DOMAIN type' = DOMAIN type \cup {s}
    BY DEF Observe, Put
  <2>2. DOMAIN size' = DOMAIN size \cup {s}
    BY ObservedCounts DEF Observe, CountedIn
  <2> QED
    BY <1>2, <2>1, <2>2
<1>5. offset' = time'
  BY <1>2 DEF Observe
<1>6. CountsPairs(time', log')
  <2>1. time' = UpdateTransition(time, s)
    BY DEF Observe
  <2>2. CASE log = <<>>
    <3>1. time' = time
      BY <2>1, <2>2 DEF TracerInv, OnTrail, UpdateTransition
    <3> QED
      BY <1>1, <1>2, <2>2, <3>1, NoPairs
  <2>3. CASE log # <<>>
    <3>1. previous_sym = log[Len(log)] /\ previous_sym # NoSymbol
      <4>1. Len(log) \in DOMAIN log
        BY <1>1, <2>3
      <4> QED
        BY <1>1, <2>3, <4>1, SymbolAssumption DEF TracerInv, OnTrail, NoSymbol
    <3>2. time' = Observed(time, <<log[Len(log)], s>>)
      BY <2>1, <3>1 DEF UpdateTransition
    <3>3. CountedIn(time', time, <<log[Len(log)], s>>)
      BY <3>2, ObservedCounts
    <3> QED
      BY <1>1, <1>2, <2>3, <3>3, PairsCounted
  <2> QED
    BY <2>2, <2>3
<1> QED
  BY <1>3, <1>4, <1>5, <1>6
     DEF TablesExact, CountsPairs, CountsSymbols, PairsOf, PairPlaces, Places

\* A call that observes nothing keeps them.
LEMMA QuietExact ==
  ASSUME TablesExact, UNCHANGED <<log, tables>> PROVE TablesExact'
BY DEF TablesExact, tables

\* Every call keeps them.
LEMMA NextExact ==
  ASSUME TracerInv, TablesExact, [TracerNext]_tracer PROVE TablesExact'
<1>1. ASSUME NEW op \in Operation, NEW s \in Traces, Start(op, s)
      PROVE  TablesExact'
  <2>1. CASE Accepted /\ s # NoTrace
    BY <1>1, <2>1, ObserveExact DEF Start, Traces
  <2>2. CASE ~Accepted \/ s = NoTrace
    BY <1>1, <2>2, QuietExact DEF Start, tracer
  <2> QED
    BY <2>1, <2>2
<1>2. CASE InitTracer \/ FinalizeTracer
  BY <1>2, QuietExact DEF InitTracer, FinalizeTracer, tracer
<1>3. CASE End
  BY <1>3, QuietExact DEF End, tracer
<1>4. CASE PredictNext
  BY <1>4, PredictQuiet, QuietExact DEF tracer
<1>5. CASE UNCHANGED tracer
  BY <1>5, QuietExact DEF tracer
<1> QED
  BY <1>1, <1>2, <1>3, <1>4, <1>5 DEF TracerNext

\* Every table entry is the number of times its symbol or transition was
\* observed, whatever starts were refused or half done in between.
THEOREM Exactness == TracerSpec => []TablesExact
<1>1. ASSUME TracerInit PROVE TablesExact
  <2>1. log = <<>> /\ Len(log) = 0 /\ DOMAIN log = {}
    BY <1>1 DEF TracerInit
  <2> QED
    BY <1>1, <2>1 DEF TracerInit, TablesExact, Empty
<1> QED
  BY <1>1, NextExact, Inductive, PTL DEF TracerSpec

-----------------------------------------------------------------------------
(* The inductive invariant.                                                *)

Top == stack[1]

Switches ==
  /\ disabled \in BOOLEAN /\ enabled \in BOOLEAN /\ started \in BOOLEAN
  /\ flag \in BOOLEAN /\ bracket \in BOOLEAN /\ inits \in Nat
  /\ enabled => ~disabled /\ inits > 0
  /\ started => enabled

\* Only MPI calls have anything above them; only operations have phases.
Nesting ==
  /\ stack \in Seq(Frames)
  /\ Len(stack) > 1 => \A i \in 1 .. Len(stack) : stack[i].op = "mpi"
  /\ \A i \in 1 .. Len(stack) :
       /\ i < Len(stack) => ~stack[i].old
       /\ stack[i].phase = "untraced" <=> stack[i].op \notin Operation
       /\ stack[i].phase = "untraced" => stack[i].sym = NoTrace
       /\ stack[i].op = "finalize" => enabled

\* An operation in progress is the application's, or that of the wrapper that
\* started it or was refused because of it.
Ended ==
  started => bracket \/ (stack # <<>> /\ Top.phase \in {"call", "end"})

WrapperInv == Switches /\ Nesting /\ Ended /\ FlagFollows /\ OperationHeld

-----------------------------------------------------------------------------
(* Stacks.                                                                 *)

\* A frame put on top moves the others down.
LEMMA PushStack ==
  ASSUME NEW s \in Seq(Frames), NEW frame \in Frames, NEW t, t = <<frame>> \o s
  PROVE  /\ t \in Seq(Frames) /\ t # <<>> /\ Len(t) = Len(s) + 1
         /\ t[1] = frame /\ \A i \in 1 .. Len(s) : t[i + 1] = s[i]
         /\ \A i \in 2 .. Len(t) : t[i] = s[i - 1]
OBVIOUS

\* A stack without frames is empty.
LEMMA EmptyStack ==
  ASSUME NEW t \in Seq(Frames)
  PROVE  t = <<>> <=> Len(t) = 0
OBVIOUS

\* A frame taken off moves the others up.
LEMMA PopStack ==
  ASSUME NEW s \in Seq(Frames), s # <<>>, NEW t, t = Tail(s)
  PROVE  /\ t \in Seq(Frames) /\ Len(s) \in Nat \ {0} /\ Len(t) = Len(s) - 1
         /\ \A i \in 1 .. Len(t) : t[i] = s[i + 1]
         /\ t = <<>> <=> Len(s) = 1
<1>1. /\ t \in Seq(Frames) /\ Len(s) \in Nat \ {0} /\ Len(t) = Len(s) - 1
      /\ \A i \in 1 .. Len(t) : t[i] = s[i + 1]
  OBVIOUS
<1>2. t = <<>> <=> Len(t) = 0
  BY <1>1, EmptyStack
<1> QED
  BY <1>1, <1>2

\* The only frame, replaced.
LEMMA SetStack ==
  ASSUME NEW s \in Seq(Frames), Len(s) = 1, NEW frame \in Frames,
         NEW t, t = [s EXCEPT ![1] = frame]
  PROVE  /\ t \in Seq(Frames) /\ Len(t) = 1 /\ t # <<>>
         /\ \A i \in 1 .. Len(t) : i = 1 /\ t[i] = frame
<1>1. /\ t \in Seq(Frames) /\ Len(t) = 1 /\ t[1] = frame
  OBVIOUS
<1>2. t # <<>>
  BY <1>1, EmptyStack
<1>3. ASSUME NEW i \in 1 .. 1
      PROVE  i = 1
  OBVIOUS
<1> QED
  BY <1>1, <1>2, <1>3

\* The top of a stack is one of its frames.
LEMMA HeadStack ==
  ASSUME NEW s \in Seq(Frames), s # <<>>
  PROVE  Head(s) = s[1] /\ s[1] \in Frames /\ 1 \in 1 .. Len(s)
OBVIOUS

\* An MPI call is no operation.
LEMMA MpiIsNone == "mpi" \notin Operation
BY DEF Operation

\* No other wrapper is below one of posix.cpp.
LEMMA OperationAlone ==
  ASSUME Nesting, stack # <<>>, Top.op \in Operation
  PROVE  Len(stack) = 1
<1>1. Len(stack) \in Nat /\ Len(stack) # 0
  BY EmptyStack DEF Nesting
<1>2. Len(stack) > 1 => stack[1].op = "mpi"
  BY <1>1 DEF Nesting
<1>3. ~(Len(stack) > 1)
  BY <1>2, MpiIsNone DEF Top
<1>4. \A n \in Nat : n # 0 /\ ~(n > 1) => n = 1
  OBVIOUS
<1> QED
  BY <1>1, <1>3, <1>4

-----------------------------------------------------------------------------
(* What the calls of the tracer do to what the wrappers look at.           *)

\* A start that is accepted is in progress, with its symbol; one that is refused
\* changes nothing here.
LEMMA StartEffect ==
  ASSUME NEW op, NEW s, Start(op, s)
  PROVE  /\ UNCHANGED <<disabled, enabled>>
         /\ Accepted => started' /\ (s # NoTrace => previous_sym' = s)
         /\ ~Accepted => UNCHANGED <<started, previous_sym>>
BY DEF Start, Observe, LastSymbol, tracer

\* An end ends what is in progress.
LEMMA EndEffect ==
  ASSUME End
  PROVE  /\ UNCHANGED <<disabled, enabled, previous_sym>>
         /\ started' = IF enabled /\ started THEN FALSE ELSE started
BY DEF End, tracer

\* Asking for a prediction changes neither.
LEMMA PredictEffect ==
  ASSUME PredictNext
  PROVE  UNCHANGED <<disabled, enabled, started, previous_sym>>
BY DEF PredictNext, tracer

\* No wrapper runs at first.
LEMMA InitWrapper == ASSUME Init PROVE WrapperInv
<1>1. stack = <<>> /\ Len(stack) = 0 /\ stack \in Seq(Frames)
  BY DEF Init
<1>2. Switches /\ Ended
  BY DEF Init, TracerInit, Switches, Ended
<1>3. Nesting
  BY <1>1 DEF Nesting
<1>4. FlagFollows /\ OperationHeld
  <2>1. ~(inits > 0)
    BY DEF Init
  <2>2. flag = (enabled \/ (disabled /\ inits > 0))
    BY <2>1 DEF Init, TracerInit
  <2> QED
    BY <1>1, <2>2 DEF FlagFollows, OperationHeld
<1> QED
  BY <1>2, <1>3, <1>4 DEF WrapperInv

-----------------------------------------------------------------------------
(* Steps of one kind: a wrapper is entered, moves on, or returns.          *)

\* Entering a wrapper, from the application or from inside an MPI call, clears
\* the flag and keeps the nesting.
LEMMA PushInv ==
  ASSUME WrapperInv, NEW frame \in Frames, stack' = <<frame>> \o stack,
         stack # <<>> => frame.op = "mpi" /\ Top.op = "mpi" /\ ~frame.old,
         stack = <<>> => frame.old = (enabled \/ (disabled /\ inits > 0)),
         frame.phase = "untraced" <=> frame.op \notin Operation,
         frame.sym = NoTrace, frame.op = "finalize" => enabled,
         flag' = FALSE,
         UNCHANGED <<disabled, enabled, started, previous_sym, inits, bracket>>
  PROVE  WrapperInv'
<1>1. /\ stack \in Seq(Frames) /\ stack' \in Seq(Frames) /\ stack' # <<>>
      /\ Len(stack) \in Nat /\ Len(stack') = Len(stack) + 1
      /\ stack'[1] = frame /\ \A i \in 2 .. Len(stack') : stack'[i] = stack[i - 1]
  BY PushStack DEF WrapperInv, Nesting
<1>2. Switches'
  BY DEF WrapperInv, Switches
<1>3. stack # <<>> => \A i \in 1 .. Len(stack) : stack[i].op = "mpi"
  BY <1>1 DEF WrapperInv, Nesting, Top
<1>4. stack # <<>> => ~frame.old
  OBVIOUS
<1>5. Nesting'
  <2>1. Len(stack') > 1 => \A i \in 1 .. Len(stack') : stack'[i].op = "mpi"
    <3> SUFFICES ASSUME Len(stack') > 1, NEW i \in 1 .. Len(stack')
                 PROVE  stack'[i].op = "mpi"
      OBVIOUS
    <3>1. stack # <<>>
      BY <1>1
    <3> QED
      BY <1>1, <1>3, <3>1
  <2>2. ASSUME NEW i \in 1 .. Len(stack')
        PROVE  /\ i < Len(stack') => ~stack'[i].old
               /\ stack'[i].phase = "untraced" <=> stack'[i].op \notin Operation
               /\ stack'[i].phase = "untraced" => stack'[i].sym = NoTrace
               /\ stack'[i].op = "finalize" => enabled'
    <3>1. CASE i = 1
      BY <1>1, <3>1
    <3>2. CASE i \in 2 .. Len(stack')
      <4>1. stack'[i] = stack[i - 1] /\ i - 1 \in 1 .. Len(stack)
        BY <1>1, <3>2
      <4> QED
        BY <1>1, <4>1 DEF WrapperInv, Nesting
    <3> QED
      BY <1>1, <2>2, <3>1, <3>2
  <2> QED
    BY <1>1, <2>1, <2>2 DEF Nesting
<1>6. Ended'
  BY <1>1, <1>3, HeadStack DEF WrapperInv, Ended, Nesting, Top, Operation
<1>7. FlagFollows'
  <2>1. CASE stack = <<>>
    BY <1>1, <2>1 DEF FlagFollows
  <2>2. CASE stack # <<>>
    <3>1. stack'[Len(stack')] = stack[Len(stack)]
      BY <1>1, <2>2
    <3> QED
      BY <1>1, <2>2, <3>1 DEF WrapperInv, FlagFollows
  <2> QED
    BY <2>1, <2>2
<1>8. OperationHeld'
  <2> SUFFICES ASSUME NEW i \in DOMAIN stack', stack'[i].sym # NoTrace
               PROVE  started' /\ previous_sym' = stack'[i].sym
    BY DEF OperationHeld
  <2>1. i \in 2 .. Len(stack') /\ stack'[i] = stack[i - 1]
        /\ i - 1 \in DOMAIN stack
    BY <1>1
  <2> QED
    BY <2>1 DEF WrapperInv, OperationHeld
<1> QED
  BY <1>2, <1>5, <1>6, <1>7, <1>8 DEF WrapperInv

\* The innermost wrapper, one of posix.cpp, goes from one phase to the next: no
\* other is below it.
LEMMA PhaseInv ==
  ASSUME WrapperInv, stack # <<>>, Top.phase \in {"start", "call"},
         NEW frame \in Frames, stack' = [stack EXCEPT ![1] = frame],
         frame.op = Top.op, frame.old = Top.old, frame.phase \in {"call", "end"},
         frame.sym # NoTrace => started' /\ previous_sym' = frame.sym,
         started' \in BOOLEAN, started' => enabled,
         UNCHANGED <<disabled, enabled, flag, inits, bracket>>
  PROVE  WrapperInv'
<1>1. /\ stack \in Seq(Frames) /\ Len(stack) \in Nat /\ Len(stack) >= 1
      /\ Top.op \in Operation
  BY HeadStack DEF WrapperInv, Nesting, Top
<1>2. Len(stack) = 1
  BY <1>1, OperationAlone DEF WrapperInv
<1>3. /\ stack' \in Seq(Frames) /\ Len(stack') = 1 /\ stack' # <<>>
      /\ \A i \in 1 .. Len(stack') : i = 1 /\ stack'[i] = frame
  BY <1>1, <1>2, SetStack
<1>4. Switches'
  BY DEF WrapperInv, Switches
<1>5. Nesting'
  <2>1. frame.op \in Operation /\ frame.op # "finalize"
    BY <1>1 DEF Operation
  <2>2. frame.phase # "untraced"
    OBVIOUS
  <2> QED
    BY <1>3, <2>1, <2>2 DEF Nesting
<1>6. Ended'
  BY <1>3 DEF Ended, Top
<1>7. FlagFollows'
  BY <1>1, <1>2, <1>3 DEF WrapperInv, FlagFollows, Top
<1>8. OperationHeld'
  BY <1>3 DEF OperationHeld
<1> QED
  BY <1>4, <1>5, <1>6, <1>7, <1>8 DEF WrapperInv

\* The innermost wrapper puts back the flag that it found and returns.
LEMMA PopInv ==
  ASSUME WrapperInv, stack # <<>>, stack' = Tail(stack), flag' = Top.old,
         started' \in BOOLEAN, started' => enabled,
         Top.op \in Operation => ~started',
         Top.op \notin Operation => started' = started,
         UNCHANGED <<disabled, enabled, previous_sym, inits, bracket>>
  PROVE  WrapperInv'
<1>1. /\ stack \in Seq(Frames) /\ stack' \in Seq(Frames)
      /\ Len(stack) \in Nat \ {0} /\ Len(stack') = Len(stack) - 1
      /\ \A i \in 1 .. Len(stack') : stack'[i] = stack[i + 1]
      /\ stack' = <<>> <=> Len(stack) = 1
      /\ Top \in Frames
  BY PopStack, HeadStack DEF WrapperInv, Nesting, Top
<1>2. Top.old \in BOOLEAN
  BY <1>1 DEF Frames
<1>3. Switches'
  BY <1>2 DEF WrapperInv, Switches
<1>4. Nesting'
  <2>1. ASSUME NEW i \in 1 .. Len(stack')
        PROVE  stack'[i] = stack[i + 1] /\ i + 1 \in 1 .. Len(stack)
               /\ (i < Len(stack') => i + 1 < Len(stack)) /\ Len(stack) > 1
    BY <1>1
  <2> QED
    BY <1>1, <2>1 DEF WrapperInv, Nesting
<1>5. stack' # <<>> => Top.op = "mpi" /\ ~Top.old
  BY <1>1 DEF WrapperInv, Nesting, Top
<1>6. Ended'
  <2>1. CASE Top.op \in Operation
    BY <2>1 DEF Ended
  <2>2. CASE Top.op \notin Operation
    <3>1. Top.phase = "untraced"
      BY <1>1, <2>2 DEF WrapperInv, Nesting, Top
    <3> QED
      BY <2>2, <3>1 DEF WrapperInv, Ended
  <2> QED
    BY <2>1, <2>2
<1>7. FlagFollows'
  <2>1. CASE stack' = <<>>
    BY <1>1, <2>1 DEF WrapperInv, FlagFollows, Top
  <2>2. CASE stack' # <<>>
    <3>1. stack'[Len(stack')] = stack[Len(stack)]
      BY <1>1, <2>2
    <3> QED
      BY <1>5, <2>2, <3>1 DEF WrapperInv, FlagFollows
  <2> QED
    BY <2>1, <2>2
<1>8. OperationHeld'
  <2> SUFFICES ASSUME NEW i \in 1 .. Len(stack'), stack'[i].sym # NoTrace
               PROVE  FALSE
    BY <1>1 DEF OperationHeld
  <2>1. i + 1 \in 1 .. Len(stack) /\ Len(stack) > 1 /\ stack'[i] = stack[i + 1]
    BY <1>1
  <2>2. stack[i + 1].op = "mpi"
    BY <2>1 DEF WrapperInv, Nesting
  <2> QED
    BY <2>1, <2>2 DEF WrapperInv, Nesting, Operation, NoTrace
<1> QED
  BY <1>3, <1>4, <1>6, <1>7, <1>8 DEF WrapperInv

\* A step of the application, or one that only the file system sees.
LEMMA FlatInv ==
  ASSUME WrapperInv, UNCHANGED <<disabled, enabled, flag, stack, inits>>,
         started' \in BOOLEAN, bracket' \in BOOLEAN, started' => enabled,
         \/ stack = <<>> /\ (started' => bracket')
         \/ UNCHANGED <<started, bracket, previous_sym>>
  PROVE  WrapperInv'
<1>1. Switches'
  BY DEF WrapperInv, Switches
<1>2. Nesting' /\ Ended'
  BY DEF WrapperInv, Nesting, Ended, Top
<1>3. FlagFollows'
  BY DEF WrapperInv, FlagFollows
<1>4. OperationHeld'
  BY DEF WrapperInv, OperationHeld
<1> QED
  BY <1>1, <1>2, <1>3, <1>4 DEF WrapperInv

-----------------------------------------------------------------------------
(* The steps themselves.                                                   *)

\* The frame of a wrapper is a frame.
LEMMA FrameTyped ==
  ASSUME flag \in BOOLEAN, NEW op \in Operation \cup {"mpi", "init", "finalize"},
         NEW p \in Api \cup {NoApi}, NEW h \in Handle \cup {NoHandle}
  PROVE  /\ Frame(op, p, h) \in Frames
         /\ Frame(op, p, h).op = op /\ Frame(op, p, h).old = flag
         /\ Frame(op, p, h).phase = "untraced" <=> op \notin Operation
         /\ Frame(op, p, h).sym = NoTrace
BY DEF Frame, Frames

\* Each step of Next keeps the invariant; first MPI_Init, and omniscio_init.
LEMMA InitializeInv == ASSUME WrapperInv, Initialize PROVE WrapperInv'
<1>1. /\ stack = <<>> /\ inits \in Nat /\ inits' = inits + 1 /\ inits' > 0
      /\ enabled' = ~disabled
      /\ UNCHANGED <<disabled, started, previous_sym, bracket>>
  BY DEF Initialize, InitTracer, WrapperInv, Switches
<1>2. disabled \in BOOLEAN /\ enabled \in BOOLEAN /\ started \in BOOLEAN
      /\ bracket \in BOOLEAN /\ (enabled => ~disabled) /\ (started => enabled)
      /\ (started => bracket)
  BY <1>1 DEF WrapperInv, Switches, Ended
<1>3. CASE disabled
  <2>1. flag' = TRUE /\ stack' = <<>> /\ ~enabled' /\ ~started'
    BY <1>1, <1>2, <1>3 DEF Initialize
  <2>2. Switches' /\ Ended'
    BY <1>1, <1>2, <2>1 DEF Switches, Ended
  <2>3. Nesting' /\ OperationHeld'
    BY <2>1 DEF Nesting, OperationHeld
  <2>4. FlagFollows'
    BY <1>1, <1>3, <2>1 DEF FlagFollows
  <2> QED
    BY <2>2, <2>3, <2>4 DEF WrapperInv
<1>4. CASE ~disabled
  <2> DEFINE frame == [Frame("init", NoApi, NoHandle) EXCEPT !.old = TRUE]
  <2>1. flag' = FALSE /\ stack' = <<frame>> /\ enabled'
    BY <1>1, <1>4 DEF Initialize
  <2>2. /\ frame \in Frames /\ frame.op = "init" /\ frame.old = TRUE
        /\ frame.phase = "untraced" /\ frame.sym = NoTrace
    BY DEF Frame, Frames, Operation
  <2> HIDE DEF frame
  <2>3. /\ stack' \in Seq(Frames) /\ Len(stack') = 1 /\ stack' # <<>>
        /\ DOMAIN stack' = 1 .. 1
        /\ \A i \in 1 .. 1 : stack'[i] = frame
    BY <2>1, <2>2
  <2>4. Switches' /\ Ended'
    <3>1. /\ disabled' = FALSE /\ enabled' = TRUE /\ flag' = FALSE
          /\ inits' \in Nat /\ inits' > 0
      BY <1>1, <1>2, <1>4, <2>1
    <3>2. /\ started' \in BOOLEAN /\ bracket' \in BOOLEAN
          /\ (started' => bracket')
      BY <1>1, <1>2
    <3> QED
      BY <3>1, <3>2 DEF Switches, Ended
  <2>5. Nesting' /\ OperationHeld'
    BY <2>2, <2>3 DEF Nesting, OperationHeld, Operation
  <2>6. FlagFollows'
    BY <1>1, <1>4, <2>1, <2>2, <2>3 DEF FlagFollows
  <2> QED
    BY <2>4, <2>5, <2>6 DEF WrapperInv
<1> QED
  BY <1>2, <1>3, <1>4

\* MPI_Finalize is entered.
LEMMA FinalizeInv == ASSUME WrapperInv, Finalize PROVE WrapperInv'
<1> DEFINE frame == Frame("finalize", NoApi, NoHandle)
<1>1. /\ frame \in Frames /\ frame.op = "finalize" /\ frame.old = flag
      /\ frame.phase = "untraced" /\ frame.sym = NoTrace
      /\ frame.op \notin Operation
  BY FrameTyped DEF WrapperInv, Switches, Operation
<1>2. /\ stack = <<>> /\ enabled /\ stack' = <<frame>> \o stack /\ flag' = FALSE
      /\ UNCHANGED <<disabled, enabled, started, previous_sym, inits, bracket>>
  BY DEF Finalize, Untraced, tracer
<1>3. flag = (enabled \/ (disabled /\ inits > 0))
  BY <1>2 DEF WrapperInv, FlagFollows
<1> HIDE DEF frame
<1> QED
  BY <1>1, <1>2, <1>3, PushInv

\* MPI_Finalize returns.
LEMMA FinalizedInv == ASSUME WrapperInv, Finalized PROVE WrapperInv'
<1>1. /\ stack # <<>> /\ Top.op = "finalize" /\ stack' = Tail(stack)
      /\ stack \in Seq(Frames) /\ flag' = FALSE
      /\ UNCHANGED <<inits, bracket>>
  BY HeadStack DEF Finalized, Running, WrapperInv, Nesting, Top
<1>2. Len(stack) = 1 /\ enabled
  <2>1. Len(stack) \in Nat /\ Len(stack) # 0
    BY <1>1, EmptyStack
  <2>2. ~(Len(stack) > 1)
    BY <1>1, <2>1 DEF WrapperInv, Nesting, Top
  <2>3. Len(stack) = 1
    BY <2>1, <2>2
  <2> QED
    BY <1>1, <2>3 DEF WrapperInv, Nesting, Top
<1>3. stack' = <<>>
  BY <1>1, <1>2, PopStack
<1>4. /\ ~enabled' /\ ~started' /\ enabled' = FALSE /\ started' = FALSE
      /\ UNCHANGED disabled
  BY <1>2 DEF Finalized, FinalizeTracer
<1>5. ~disabled
  BY <1>2 DEF WrapperInv, Switches
<1>6. Switches' /\ Ended'
  BY <1>1, <1>4 DEF WrapperInv, Switches, Ended
<1>7. Nesting' /\ OperationHeld'
  BY <1>3 DEF Nesting, OperationHeld
<1>8. FlagFollows'
  BY <1>1, <1>3, <1>4, <1>5 DEF FlagFollows
<1> QED
  BY <1>6, <1>7, <1>8, Zenon DEF WrapperInv

\* A wrapper that traces is entered, from the application.
LEMMA EnterInv ==
  ASSUME WrapperInv, flag, NEW op \in Operation, NEW p \in Api,
         NEW h \in Handle \cup {NoHandle}, Untraced(Frame(op, p, h)),
         UNCHANGED <<tracer, inits, bracket>>
  PROVE  WrapperInv'
<1> DEFINE frame == Frame(op, p, h)
<1>1. /\ frame \in Frames /\ frame.op = op /\ frame.old = flag
      /\ frame.phase = "untraced" <=> op \notin Operation
      /\ frame.sym = NoTrace
  <2>1. flag \in BOOLEAN /\ op \in Operation \cup {"mpi", "init", "finalize"}
        /\ p \in Api \cup {NoApi}
    BY DEF WrapperInv, Switches
  <2> QED
    BY <2>1, FrameTyped
<1>5. frame.op # "finalize"
  BY <1>1 DEF Operation
<1>2. stack = <<>>
  BY DEF WrapperInv, FlagFollows
<1>3. /\ stack' = <<frame>> \o stack /\ flag' = FALSE
      /\ UNCHANGED <<disabled, enabled, started, previous_sym, inits, bracket>>
  BY DEF Untraced, tracer
<1>4. flag = (enabled \/ (disabled /\ inits > 0))
  BY <1>2 DEF WrapperInv, FlagFollows
<1> HIDE DEF frame
<1> QED
  BY <1>1, <1>2, <1>3, <1>4, <1>5, PushInv

\* A wrapper starts its operation.
LEMMA StartOperationInv == ASSUME WrapperInv, StartOperation PROVE WrapperInv'
<1>1. PICK s \in Traces :
        /\ Start(Head(stack).op, s)
        /\ stack' = [stack EXCEPT ![1].phase = "call",
                                  ![1].sym = IF Accepted THEN s ELSE NoTrace]
  BY DEF StartOperation
<1>2. /\ stack # <<>> /\ Top.phase = "start" /\ Top \in Frames
      /\ UNCHANGED <<flag, inits, bracket>>
  BY HeadStack DEF StartOperation, Running, WrapperInv, Nesting, Top
<1> DEFINE n == IF Accepted THEN s ELSE NoTrace
           frame == [Top EXCEPT !.phase = "call", !.sym = n]
<1>3. n \in Symbol \cup {NoTrace}
  BY DEF Traces
<1>4. /\ frame \in Frames /\ frame.op = Top.op /\ frame.old = Top.old
      /\ frame.phase = "call" /\ frame.sym = n
  <2> HIDE DEF n
  <2> QED
    BY <1>2, <1>3 DEF Frames
<1>5. stack' = [stack EXCEPT ![1] = frame]
  BY <1>1, <1>2, HeadStack DEF Top, WrapperInv, Nesting
<1>6. /\ UNCHANGED <<disabled, enabled>>
      /\ Accepted => started' /\ (s # NoTrace => previous_sym' = s)
      /\ ~Accepted => UNCHANGED <<started, previous_sym>>
      /\ started' \in BOOLEAN
  BY <1>1, StartEffect DEF Start, tracer, WrapperInv, Switches
<1>7. frame.sym # NoTrace => started' /\ previous_sym' = frame.sym
  BY <1>4, <1>6
<1>8. started' => enabled
  BY <1>6 DEF Accepted, WrapperInv, Switches
<1> HIDE DEF frame
<1> QED
  BY <1>2, <1>4, <1>5, <1>6, <1>7, <1>8, PhaseInv

\* A wrapper calls the library.
LEMMA RunOperationInv == ASSUME WrapperInv, RunOperation PROVE WrapperInv'
<1>1. /\ stack # <<>> /\ stack \in Seq(Frames) /\ Head(stack) = Top
      /\ Top.phase = "call" /\ Top \in Frames
      /\ UNCHANGED <<disabled, enabled, started, previous_sym, flag, inits, bracket>>
      /\ CallLibrary(Top)
  BY HeadStack DEF RunOperation, Running, WrapperInv, Nesting, Top, tracer
<1>2. PICK h \in Handle \cup {NoHandle} :
        stack' = [stack EXCEPT ![1].phase = "end", ![1].h = h]
  <2>1. CASE Top.op = "open"
    BY <1>1, <2>1 DEF CallLibrary
  <2>2. CASE Top.op # "open"
    <3>1. stack' = [stack EXCEPT ![1].phase = "end"]
      BY <1>1, <2>2 DEF CallLibrary
    <3>2. Top.h \in Handle \cup {NoHandle}
      BY <1>1 DEF Frames
    <3>3. [Top EXCEPT !.phase = "end"] = [Top EXCEPT !.phase = "end", !.h = Top.h]
      BY <1>1 DEF Frames
    <3>4. /\ stack' = [stack EXCEPT ![1] = [Top EXCEPT !.phase = "end"]]
          /\ [stack EXCEPT ![1].phase = "end", ![1].h = Top.h]
             = [stack EXCEPT ![1] = [Top EXCEPT !.phase = "end", !.h = Top.h]]
      BY <1>1, <3>1, HeadStack DEF Top
    <3> QED
      BY <3>2, <3>3, <3>4
  <2> QED
    BY <2>1, <2>2
<1> DEFINE frame == [Top EXCEPT !.phase = "end", !.h = h]
<1>3. /\ frame \in Frames /\ frame.op = Top.op /\ frame.old = Top.old
      /\ frame.phase = "end" /\ frame.sym = Top.sym
  BY <1>1 DEF Frames
<1>4. stack' = [stack EXCEPT ![1] = frame]
  BY <1>1, <1>2, HeadStack DEF Top
<1>5. frame.sym # NoTrace => started' /\ previous_sym' = frame.sym
  BY <1>1, <1>3, HeadStack DEF WrapperInv, OperationHeld, Top
<1>6. started' \in BOOLEAN /\ (started' => enabled)
  BY <1>1 DEF WrapperInv, Switches
<1> HIDE DEF frame
<1> QED
  BY <1>1, <1>3, <1>4, <1>5, <1>6, PhaseInv

\* A wrapper ends its operation and restores the flag.
LEMMA EndOperationInv == ASSUME WrapperInv, EndOperation PROVE WrapperInv'
<1>1. /\ stack # <<>> /\ stack \in Seq(Frames) /\ Head(stack) = Top
      /\ Top.phase = "end" /\ stack' = Tail(stack) /\ flag' = Top.old /\ End
      /\ UNCHANGED <<inits, bracket>>
  BY HeadStack DEF EndOperation, Restored, EndCall, Running, WrapperInv, Nesting, Top
<1>2. /\ UNCHANGED <<disabled, enabled, previous_sym>>
      /\ started' = IF enabled /\ started THEN FALSE ELSE started
  BY <1>1, EndEffect
<1>3. started' = FALSE
  BY <1>2 DEF WrapperInv, Switches
<1>4. Top.op \in Operation
  BY <1>1, HeadStack DEF WrapperInv, Nesting, Top
<1> QED
  BY <1>1, <1>2, <1>3, <1>4, PopInv

\* An MPI call is entered.
LEMMA MpiCallInv == ASSUME WrapperInv, MpiCall PROVE WrapperInv'
<1> DEFINE frame == Frame("mpi", NoApi, NoHandle)
<1>1. /\ frame \in Frames /\ frame.op = "mpi" /\ frame.old = flag
      /\ frame.phase = "untraced" <=> "mpi" \notin Operation
      /\ frame.sym = NoTrace
  BY FrameTyped DEF WrapperInv, Switches
<1>2. frame.op \notin Operation /\ frame.op # "finalize"
  BY <1>1, MpiIsNone
<1>3. /\ stack' = <<frame>> \o stack /\ flag' = FALSE
      /\ stack # <<>> => Top.op = "mpi"
      /\ UNCHANGED <<disabled, enabled, started, previous_sym, inits, bracket>>
  BY HeadStack DEF MpiCall, Untraced, tracer, WrapperInv, Nesting, Top
<1>4. /\ stack = <<>> => flag = (enabled \/ (disabled /\ inits > 0))
      /\ stack # <<>> => ~flag
  BY DEF WrapperInv, FlagFollows
<1> HIDE DEF frame
<1> QED
  BY <1>1, <1>2, <1>3, <1>4, PushInv

\* An MPI call, or omniscio_init, returns.
LEMMA ReturnInv == ASSUME WrapperInv, Return PROVE WrapperInv'
<1>1. /\ stack # <<>> /\ stack \in Seq(Frames) /\ Top.op \in {"mpi", "init"}
      /\ stack' = Tail(stack) /\ flag' = Top.old
      /\ UNCHANGED <<disabled, enabled, started, previous_sym, inits, bracket>>
  BY HeadStack DEF Return, Restored, Running, WrapperInv, Nesting, Top, tracer
<1>2. Top.op \notin Operation
  BY <1>1 DEF Operation
<1>3. started' \in BOOLEAN /\ (started' => enabled)
  BY <1>1 DEF WrapperInv, Switches
<1> QED
  BY <1>1, <1>2, <1>3, PopInv

\* The application brackets operations and asks for predictions.
LEMMA ApplicationInv ==
  ASSUME WrapperInv, BracketStart \/ BracketEnd \/ AskNext
  PROVE  WrapperInv'
<1>1. CASE BracketStart
  <2>1. PICK op \in Operation, s \in Traces : Start(op, s)
    BY <1>1 DEF BracketStart
  <2>2. /\ stack = <<>> /\ bracket' = TRUE
        /\ UNCHANGED <<disabled, enabled, flag, stack, inits>>
    BY <1>1, <2>1, StartEffect DEF BracketStart
  <2>3. started' \in BOOLEAN /\ (started' => enabled)
    BY <2>1, StartEffect DEF Start, tracer, Accepted, WrapperInv, Switches
  <2> QED
    BY <2>2, <2>3, FlatInv
<1>2. CASE BracketEnd
  <2>1. /\ stack = <<>> /\ bracket' = FALSE
        /\ UNCHANGED <<disabled, enabled, flag, stack, inits>>
        /\ started' = IF enabled /\ started THEN FALSE ELSE started
    BY <1>2, EndEffect DEF BracketEnd
  <2>2. started' = FALSE
    BY <2>1 DEF WrapperInv, Switches
  <2> QED
    BY <2>1, <2>2, FlatInv
<1>3. CASE AskNext
  <2>1. UNCHANGED <<disabled, enabled, started, previous_sym, flag, stack,
                    inits, bracket>>
    BY <1>3, PredictEffect DEF AskNext, wrappers
  <2>2. started' \in BOOLEAN /\ bracket' \in BOOLEAN /\ (started' => enabled)
    BY <2>1 DEF WrapperInv, Switches
  <2> QED
    BY <2>1, <2>2, FlatInv
<1> QED
  BY <1>1, <1>2, <1>3

\* All steps together.
LEMMA WrapperStep == ASSUME WrapperInv, [Next]_vars PROVE WrapperInv'
<1>1. CASE Initialize
  BY <1>1, InitializeInv
<1>2. CASE Finalize \/ Finalized
  BY <1>2, FinalizeInv, FinalizedInv
<1>3. CASE BracketStart \/ BracketEnd \/ AskNext
  BY <1>3, ApplicationInv
<1>4. ASSUME NEW p \in Api, EnterOpen(p)
      PROVE  WrapperInv'
  <2>1. /\ flag /\ Untraced(Frame("open", p, NoHandle))
        /\ UNCHANGED <<tracer, inits, bracket>>
    BY <1>4 DEF EnterOpen
  <2>2. "open" \in Operation /\ NoHandle \in Handle \cup {NoHandle}
    BY DEF Operation
  <2> QED
    BY <2>1, <2>2, EnterInv
<1>5. ASSUME NEW p \in Api, NEW h \in Handle, NEW op \in Operation, Enter(op, p, h)
      PROVE  WrapperInv'
  <2>1. /\ flag /\ Untraced(Frame(op, p, h))
        /\ UNCHANGED <<tracer, inits, bracket>>
    BY <1>5 DEF Enter
  <2> QED
    BY <2>1, EnterInv
<1>6. CASE \/ \E p \in Api : OpenDirectly(p) \/ \E h \in Handle : CloseDirectly(p, h)
           \/ UNCHANGED vars
  <2>1. UNCHANGED <<disabled, enabled, started, previous_sym, flag, stack,
                    inits, bracket>>
    BY <1>6 DEF OpenDirectly, CloseDirectly, vars, tracer, wrappers
  <2>2. started' \in BOOLEAN /\ bracket' \in BOOLEAN /\ (started' => enabled)
    BY <2>1 DEF WrapperInv, Switches
  <2> QED
    BY <2>1, <2>2, FlatInv
<1>7. CASE StartOperation \/ RunOperation \/ EndOperation
  BY <1>7, StartOperationInv, RunOperationInv, EndOperationInv
<1>8. CASE MpiCall \/ Return
  BY <1>8, MpiCallInv, ReturnInv
<1> QED
  BY <1>1, <1>2, <1>3, <1>4, <1>5, <1>6, <1>7, <1>8 DEF Next

\* The invariant of the wrappers of posix.cpp and mpi.cpp holds throughout,
\* however their calls nest.
THEOREM WrapperInductive == Spec => []WrapperInv
BY InitWrapper, WrapperStep, PTL DEF Spec

\* omniscio_tracing_enabled, which every wrapper of posix.cpp and mpi.cpp saves
\* and restores through a variable of its own: clear while any of them runs, and
\* as init and finalize made it when none does.
THEOREM Flag == Spec => []FlagFollows
<1>1. WrapperInv => FlagFollows
  BY DEF WrapperInv
<1> QED
  BY <1>1, WrapperInductive, PTL

\* A traced operation stays the one in progress from its start to its end,
\* whatever the libraries do in between.
THEOREM Held == Spec => []OperationHeld
<1>1. WrapperInv => OperationHeld
  BY DEF WrapperInv
<1> QED
  BY <1>1, WrapperInductive, PTL

\* No wrapper leaves its operation in progress, which would have omniscio_next
\* refuse the application.
THEOREM NeverRefused == Spec => []NextAnswers
<1>1. WrapperInv => NextAnswers
  BY DEF WrapperInv, Ended, NextAnswers
<1> QED
  BY <1>1, WrapperInductive, PTL

-----------------------------------------------------------------------------
(* The tracer below the wrappers.                                          *)

\* What the wrappers do to the tracer, the tracer may do.
LEMMA TracerStep == ASSUME WrapperInv, [Next]_vars PROVE [TracerNext]_tracer
<1>1. CASE Initialize
  BY <1>1 DEF Initialize, TracerNext
<1>2. CASE Finalized
  BY <1>2 DEF Finalized, TracerNext
<1>3. CASE BracketStart
  BY <1>3 DEF BracketStart, TracerNext
<1>4. CASE BracketEnd
  BY <1>4 DEF BracketEnd, TracerNext
<1>5. CASE AskNext
  BY <1>5 DEF AskNext, TracerNext
<1>6. CASE StartOperation
  <2>1. PICK s \in Traces : Start(Head(stack).op, s)
    BY <1>6 DEF StartOperation
  <2>2. Head(stack).op \in Operation
    BY <1>6, HeadStack DEF StartOperation, Running, WrapperInv, Nesting
  <2> QED
    BY <2>1, <2>2 DEF TracerNext
<1>7. CASE EndOperation
  BY <1>7 DEF EndOperation, EndCall, TracerNext
<1>8. CASE \/ Finalize \/ RunOperation \/ MpiCall \/ Return \/ UNCHANGED vars
           \/ \E p \in Api :
                \/ EnterOpen(p) \/ OpenDirectly(p)
                \/ \E h \in Handle :
                     \/ \E op \in Operation \ {"open"} : Enter(op, p, h)
                     \/ CloseDirectly(p, h)
  BY <1>8 DEF Finalize, RunOperation, MpiCall, Return, EnterOpen, OpenDirectly,
              Enter, CloseDirectly, vars
<1> QED
  BY <1>1, <1>2, <1>3, <1>4, <1>5, <1>6, <1>7, <1>8 DEF Next

\* The wrappers drive the tracer as its own specification lets it be driven.
THEOREM UsesTracer == Spec => TracerSpec
<1>1. Init => TracerInit
  BY DEF Init
<1> QED
  BY <1>1, TracerStep, WrapperInductive, PTL DEF Spec, TracerSpec

\* Below the wrappers as well, next answers from entries that were observed.
THEOREM AnswersBelow == Spec => []NoBlindAnswer
BY UsesTracer, Answers, PTL

\* Below the wrappers as well, the tables are the counts of the log.
THEOREM ExactnessBelow == Spec => []TablesExact
BY UsesTracer, Exactness, PTL

-----------------------------------------------------------------------------
(* Type correctness.                                                       *)

FilesTyped(table) ==
  /\ DOMAIN table = Api
  /\ \A p \in Api : /\ DOMAIN table[p] \subseteq Handle
                    /\ \A h \in DOMAIN table[p] : table[p][h] \in Files

HandlesTyped ==
  /\ allowed \in [Api -> SUBSET (Handle \cup {NoHandle})]
  /\ leaked \in [Api -> SUBSET (Handle \cup {NoHandle})]
  /\ FilesTyped(os)

\* A call comes from the application or from a library.
LEMMA CallerTyped == ASSUME NEW s PROVE Caller(s) \in {"application", "library"}
BY DEF Caller

\* Opening a file keeps the table of the system a table of files.
LEMMA OpenTyped ==
  ASSUME FilesTyped(os), NEW p, NEW h \in Handle, NEW traced \in BOOLEAN,
         NEW by \in {"application", "library"}, OpenFile(p, h, by, traced)
  PROVE  FilesTyped(os')
<1>1. PICK regular \in BOOLEAN :
        os' = [os EXCEPT ![p] =
                 Put(@, h, [regular |-> regular, by |-> by, traced |-> traced])]
  BY DEF OpenFile
<1>2. [regular |-> regular, by |-> by, traced |-> traced] \in Files
  BY DEF Files
<1> QED
  BY <1>1, <1>2 DEF FilesTyped, Put

\* So does closing one.
LEMMA CloseTyped ==
  ASSUME FilesTyped(os), NEW p, NEW h, CloseFile(p, h)
  PROVE  FilesTyped(os')
BY DEF FilesTyped, CloseFile, Without

\* Every step keeps the types of the descriptors.
LEMMA HandlesStep ==
  ASSUME WrapperInv, HandlesTyped, [Next]_vars
  PROVE  HandlesTyped'
<1>1. CASE RunOperation
  <2>1. /\ stack # <<>> /\ Head(stack) \in Frames /\ CallLibrary(Head(stack))
        /\ UNCHANGED <<allowed, leaked>>
    BY <1>1, HeadStack DEF RunOperation, Running, WrapperInv, Nesting
  <2> DEFINE f == Head(stack)
  <2>2. \/ UNCHANGED os
        \/ \E h \in Handle : OpenFile(f.api, h, Caller(Tail(stack)), TRUE)
        \/ CloseFile(f.api, f.h)
    BY <2>1 DEF CallLibrary, Operation
  <2>3. FilesTyped(os')
    BY <2>2, CallerTyped, OpenTyped, CloseTyped DEF HandlesTyped
  <2> QED
    BY <2>1, <2>3 DEF HandlesTyped
<1>2. CASE EndOperation
  <2>1. /\ Head(stack) \in Frames /\ UNCHANGED os
    BY <1>2, HeadStack DEF EndOperation, Running, WrapperInv, Nesting
  <2> DEFINE f == Head(stack)
  <2>2. f.h \in Handle \cup {NoHandle}
    BY <2>1 DEF Frames
  <2>3. f.api \in Api => Allow(f) \in SUBSET (Handle \cup {NoHandle})
    BY <2>2 DEF Allow, HandlesTyped
  <2>4. allowed' = [allowed EXCEPT ![f.api] = Allow(f)]
    BY <1>2 DEF EndOperation
  <2>5. \/ leaked' = [leaked EXCEPT ![f.api] = @ \ {f.h}]
        \/ UNCHANGED leaked
    BY <1>2 DEF EndOperation
  <2>6. allowed' \in [Api -> SUBSET (Handle \cup {NoHandle})]
    <3> HIDE DEF f
    <3> QED
      BY <2>3, <2>4 DEF HandlesTyped
  <2>7. leaked' \in [Api -> SUBSET (Handle \cup {NoHandle})]
    <3> HIDE DEF f
    <3> QED
      BY <2>5 DEF HandlesTyped
  <2> QED
    BY <2>1, <2>6, <2>7 DEF HandlesTyped
<1>3. ASSUME NEW p \in Api, OpenDirectly(p)
      PROVE  HandlesTyped'
  <2>1. PICK h \in Handle : OpenFile(p, h, Caller(stack), FALSE)
    BY <1>3 DEF OpenDirectly
  <2>2. FilesTyped(os')
    BY <2>1, CallerTyped, OpenTyped DEF HandlesTyped
  <2> QED
    BY <1>3, <2>2 DEF OpenDirectly, HandlesTyped
<1>4. ASSUME NEW p \in Api, NEW h \in Handle, CloseDirectly(p, h)
      PROVE  HandlesTyped'
  <2>1. FilesTyped(os')
    BY <1>4, CloseTyped DEF CloseDirectly, HandlesTyped
  <2>2. leaked' \in [Api -> SUBSET (Handle \cup {NoHandle})]
    BY <1>4 DEF CloseDirectly, HandlesTyped
  <2> QED
    BY <1>4, <2>1, <2>2 DEF CloseDirectly, HandlesTyped
<1>5. CASE UNCHANGED <<allowed, leaked, os>>
  BY <1>5 DEF HandlesTyped, FilesTyped
<1>6. CASE \/ Initialize \/ Finalize \/ Finalized \/ BracketStart \/ BracketEnd
           \/ AskNext \/ StartOperation \/ MpiCall \/ Return \/ UNCHANGED vars
           \/ \E p \in Api :
                \/ EnterOpen(p)
                \/ \E h \in Handle, op \in Operation \ {"open"} : Enter(op, p, h)
  <2>1. UNCHANGED <<allowed, leaked, os>>
    BY <1>6 DEF Initialize, Finalize, Finalized, BracketStart, BracketEnd, AskNext,
                StartOperation, MpiCall, Return, EnterOpen, Enter, vars, wrappers
  <2> QED
    BY <1>5, <2>1
<1> QED
  BY <1>1, <1>2, <1>3, <1>4, <1>6 DEF Next

\* Type correctness of the wrappers and of the tracer below them.
THEOREM WrapperTyping == Spec => []TypeOK
<1>1. Init => HandlesTyped
  <2>1. ASSUME Init PROVE HandlesTyped
    <3>1. FilesTyped(os)
      BY <2>1 DEF Init, FilesTyped, Empty
    <3> QED
      BY <2>1, <3>1 DEF Init, HandlesTyped
  <2> QED
    BY <2>1
<1>2. WrapperInv /\ HandlesTyped /\ TracerTypeOK => TypeOK
  BY DEF WrapperInv, Switches, Nesting, HandlesTyped, FilesTyped, TypeOK
<1>3. Spec => []TracerTypeOK
  BY UsesTracer, Typing, PTL
<1> QED
  BY <1>1, <1>2, <1>3, HandlesStep, WrapperInductive, PTL DEF Spec

-----------------------------------------------------------------------------
(* What is allowed.  While the wrapper of a close ends, its handle is still *)
(* allowed, and the library may have given the number out again; while the  *)
(* wrapper of an open ends, its handle is open and not yet allowed.         *)

Ending == stack # <<>> /\ Top.phase = "end"

OpenTraced(p, h) == h \in DOMAIN os[p] /\ os[p][h].traced

Closing(p, h) == Ending /\ Top.op = "close" /\ Top.api = p /\ Top.h = h

Justified ==
  \A p \in Api : \A h \in allowed[p] \ {NoHandle} :
    h \in leaked[p] \/ OpenTraced(p, h) \/ Closing(p, h)

JustOpened ==
  Ending /\ Top.op = "open" /\ Top.api \in Api /\ Top.h # NoHandle =>
    OpenTraced(Top.api, Top.h) /\ os[Top.api][Top.h].by = "application"

KnownInv == Justified /\ JustOpened

\* A step of the stack to or from no end of an operation.
LEMMA KnownQuiet ==
  ASSUME KnownInv, UNCHANGED <<allowed, leaked, os>>, ~Ending, ~Ending'
  PROVE  KnownInv'
BY DEF KnownInv, Justified, JustOpened, OpenTraced, Closing

\* Steps that leave the descriptors and the stack alone.
LEMMA KnownSame ==
  ASSUME KnownInv, UNCHANGED <<allowed, leaked, os, stack>>
  PROVE  KnownInv'
BY DEF KnownInv, Justified, JustOpened, OpenTraced, Closing, Ending, Top

\* Below a wrapper there are only MPI calls.
LEMMA PoppedQuiet ==
  ASSUME WrapperInv, stack # <<>>, stack' = Tail(stack)
  PROVE  ~Ending'
<1>1. /\ stack \in Seq(Frames) /\ Len(stack) \in Nat \ {0}
      /\ Len(stack') = Len(stack) - 1
      /\ \A i \in 1 .. Len(stack') : stack'[i] = stack[i + 1]
      /\ stack' = <<>> <=> Len(stack) = 1
  BY PopStack DEF WrapperInv, Nesting
<1> SUFFICES ASSUME stack' # <<>> PROVE stack'[1].phase # "end"
  BY DEF Ending, Top
<1>2. Len(stack) > 1 /\ 2 \in 1 .. Len(stack) /\ stack'[1] = stack[2]
  BY <1>1
<1>3. stack[2].op = "mpi"
  BY <1>2 DEF WrapperInv, Nesting
<1> QED
  BY <1>2, <1>3, MpiIsNone DEF WrapperInv, Nesting

\* A wrapper that is entered ends no operation.
LEMMA PushedQuiet ==
  ASSUME WrapperInv, NEW op, NEW p, NEW h, Untraced(Frame(op, p, h))
  PROVE  ~Ending'
<1> DEFINE frame == Frame(op, p, h)
<1>1. stack' = <<frame>> \o stack /\ frame.phase # "end"
  BY DEF Untraced, Frame
<1> HIDE DEF frame
<1>2. stack'[1] = frame
  BY <1>1 DEF WrapperInv, Nesting
<1> QED
  BY <1>1, <1>2 DEF Ending, Top

\* The frame that ends is alone, and is the application's.
LEMMA EndingAlone ==
  ASSUME WrapperInv, stack # <<>>, Top.phase # "untraced"
  PROVE  Len(stack) = 1 /\ Tail(stack) = <<>> /\ Top.op \in Operation /\ Top \in Frames
<1>1. Top.op \in Operation /\ Top \in Frames
  BY HeadStack DEF WrapperInv, Nesting, Top
<1>2. Len(stack) = 1
  BY <1>1, OperationAlone DEF WrapperInv
<1> QED
  BY <1>1, <1>2, PopStack DEF WrapperInv, Nesting

\* The library opens or closes the file: the operation in progress is about it.
LEMMA RunOperationKnown ==
  ASSUME WrapperInv, HandlesTyped, KnownInv, RunOperation
  PROVE  KnownInv'
<1>1. /\ stack # <<>> /\ stack \in Seq(Frames) /\ Head(stack) = Top
      /\ Top.phase = "call" /\ CallLibrary(Top) /\ UNCHANGED <<allowed, leaked>>
  BY HeadStack DEF RunOperation, Running, WrapperInv, Nesting, Top
<1>2. Len(stack) = 1 /\ Tail(stack) = <<>> /\ Top.op \in Operation /\ Top \in Frames
  BY <1>1, EndingAlone
<1>3. \A p \in Api : \A h \in allowed[p] \ {NoHandle} : h \in leaked[p] \/ OpenTraced(p, h)
  BY <1>1 DEF KnownInv, Justified, Closing, Ending
<1>4. ASSUME NEW frame \in Frames, stack' = [stack EXCEPT ![1] = frame]
      PROVE  stack' # <<>> /\ Top' = frame
  BY <1>1, <1>2, <1>4, SetStack DEF Top
<1>5. CASE Top.op = "open"
  <2>1. PICK h \in (Handle \ DOMAIN os[Top.api]) \cup {NoHandle} :
          /\ IF h = NoHandle THEN UNCHANGED os
             ELSE OpenFile(Top.api, h, Caller(Tail(stack)), TRUE)
          /\ stack' = [stack EXCEPT ![1].phase = "end", ![1].h = h]
    BY <1>1, <1>5 DEF CallLibrary
  <2> DEFINE frame == [Top EXCEPT !.phase = "end", !.h = h]
  <2>2. frame \in Frames /\ frame.op = "open" /\ frame.api = Top.api /\ frame.h = h
    BY <1>2, <1>5 DEF Frames
  <2>3. stack' = [stack EXCEPT ![1] = frame]
    BY <1>1, <2>1, HeadStack DEF Top
  <2> HIDE DEF frame
  <2>4. Top'.op = "open" /\ Top'.api = Top.api /\ Top'.h = h
    BY <1>4, <2>2, <2>3
  <2>5. CASE h = NoHandle
    <3>1. JustOpened'
      BY <2>4, <2>5 DEF JustOpened
    <3>2. Justified'
      BY <1>1, <1>3, <2>1, <2>5 DEF Justified, OpenTraced
    <3> QED
      BY <3>1, <3>2 DEF KnownInv
  <2>6. CASE h # NoHandle
    <3>1. PICK regular \in BOOLEAN :
            os' = [os EXCEPT ![Top.api] =
                     Put(@, h, [regular |-> regular, by |-> "application",
                                traced |-> TRUE])]
      BY <1>2, <2>1, <2>6 DEF OpenFile, Caller
    <3>2. DOMAIN os = Api /\ h \notin DOMAIN os[Top.api]
      BY <2>1, <2>6 DEF HandlesTyped, FilesTyped
    <3>3. \A p \in Api : \A x \in DOMAIN os[p] : x \in DOMAIN os'[p] /\ os'[p][x] = os[p][x]
      BY <3>1, <3>2 DEF Put
    <3>4. Top.api \in Api => /\ h \in DOMAIN os'[Top.api] /\ os'[Top.api][h].traced
                            /\ os'[Top.api][h].by = "application"
      <4> DEFINE a == Top.api
                 r == [regular |-> regular, by |-> "application", traced |-> TRUE]
      <4>1. a \in Api => h \in DOMAIN os'[a] /\ os'[a][h] = r
        <5> HIDE DEF a, r
        <5> QED
          BY <3>1, <3>2 DEF Put, a, r
      <4>2. r.traced = TRUE /\ r.by = "application"
        OBVIOUS
      <4>3. a = Top.api
        OBVIOUS
      <4> HIDE DEF r, a
      <4>4. a \in Api => h \in DOMAIN os'[a] /\ os'[a][h].traced
                            /\ os'[a][h].by = "application"
        BY <4>1, <4>2
      <4> QED
        BY <4>3, <4>4
    <3>5. JustOpened'
      BY <2>4, <3>4 DEF JustOpened, OpenTraced
    <3>6. Justified'
      BY <1>1, <1>3, <3>3 DEF Justified, OpenTraced
    <3> QED
      BY <3>5, <3>6 DEF KnownInv
  <2> QED
    BY <2>5, <2>6
<1>6. CASE Top.op # "open"
  <2> DEFINE frame == [Top EXCEPT !.phase = "end"]
  <2>1. /\ frame \in Frames /\ frame.op = Top.op /\ frame.api = Top.api
        /\ frame.h = Top.h /\ frame.phase = "end"
    BY <1>2 DEF Frames
  <2>2. stack' = [stack EXCEPT ![1] = frame]
    BY <1>1, <1>6, HeadStack DEF CallLibrary, Top
  <2> HIDE DEF frame
  <2>3. /\ stack' # <<>> /\ Top'.op = Top.op /\ Top'.api = Top.api
        /\ Top'.h = Top.h /\ Top'.phase = "end"
    BY <1>4, <2>1, <2>2
  <2>4. JustOpened'
    BY <1>6, <2>3 DEF JustOpened
  <2>5. CASE Top.op = "close"
    <3>1. os' = [os EXCEPT ![Top.api] = Without(@, Top.h)]
      BY <1>1, <2>5 DEF CallLibrary, CloseFile
    <3>2. ASSUME NEW p \in Api, NEW h, OpenTraced(p, h)
          PROVE  OpenTraced(p, h)' \/ (p = Top.api /\ h = Top.h)
      BY <3>1, <3>2 DEF OpenTraced, Without, HandlesTyped, FilesTyped
    <3>3. Justified'
      BY <1>1, <1>3, <2>3, <2>5, <3>2 DEF Justified, Closing, Ending
    <3> QED
      BY <2>4, <3>3 DEF KnownInv
  <2>6. CASE Top.op # "close"
    <3>1. UNCHANGED os
      BY <1>1, <1>6, <2>6 DEF CallLibrary
    <3>2. Justified'
      BY <1>1, <1>3, <3>1 DEF Justified, OpenTraced
    <3> QED
      BY <2>4, <3>2 DEF KnownInv
  <2> QED
    BY <2>5, <2>6
<1> QED
  BY <1>5, <1>6

\* The wrapper allows what the library has opened, and forgets what it closed.
LEMMA EndOperationKnown ==
  ASSUME WrapperInv, HandlesTyped, KnownInv, EndOperation
  PROVE  KnownInv'
<1>1. /\ stack # <<>> /\ stack' = Tail(stack) /\ Head(stack) = Top /\ Top.phase = "end"
      /\ allowed' = [allowed EXCEPT ![Top.api] = Allow(Top)]
      /\ leaked' = IF Top.op \in {"open", "close"}
                   THEN [leaked EXCEPT ![Top.api] = @ \ {Top.h}] ELSE leaked
      /\ UNCHANGED os
  BY HeadStack DEF EndOperation, Running, WrapperInv, Nesting, Top
<1>2. ~Ending' /\ Ending
  BY <1>1, PoppedQuiet DEF Ending
<1>3. DOMAIN allowed = Api /\ DOMAIN leaked = Api
  BY DEF HandlesTyped
<1>4. ASSUME NEW p \in Api, NEW h \in allowed'[p], h # NoHandle
      PROVE  (h \in leaked[p] \/ OpenTraced(p, h)) /\ (h \notin leaked'[p] => OpenTraced(p, h))
  <2>1. CASE p # Top.api
    <3>1. h \in allowed[p] /\ leaked'[p] = leaked[p]
      BY <1>1, <1>3, <1>4, <2>1
    <3> QED
      BY <1>4, <2>1, <3>1 DEF KnownInv, Justified, Closing
  <2>2. CASE p = Top.api /\ Top.op = "open"
    <3>1. /\ h \in allowed[p] \/ h = Top.h
          /\ leaked'[p] = leaked[p] \ {Top.h}
      BY <1>1, <1>3, <1>4, <2>2 DEF Allow
    <3>2. CASE h = Top.h
      BY <1>2, <1>4, <2>2, <3>2 DEF KnownInv, JustOpened
    <3>3. CASE h # Top.h
      BY <1>4, <2>2, <3>1, <3>3 DEF KnownInv, Justified, Closing
    <3> QED
      BY <3>2, <3>3
  <2>3. CASE p = Top.api /\ Top.op = "close"
    <3>1. h \in allowed[p] /\ h # Top.h /\ leaked'[p] = leaked[p] \ {Top.h}
      BY <1>1, <1>3, <1>4, <2>3 DEF Allow
    <3> QED
      BY <1>4, <3>1 DEF KnownInv, Justified, Closing
  <2>4. CASE p = Top.api /\ Top.op \notin {"open", "close"}
    <3>1. h \in allowed[p] /\ leaked'[p] = leaked[p]
      BY <1>1, <1>3, <1>4, <2>4 DEF Allow
    <3> QED
      BY <1>4, <2>4, <3>1 DEF KnownInv, Justified, Closing
  <2> QED
    BY <2>1, <2>2, <2>3, <2>4
<1>5. Justified'
  BY <1>1, <1>4 DEF Justified, OpenTraced
<1> QED
  BY <1>2, <1>5 DEF KnownInv, JustOpened

\* The calls that no wrapper traces.
LEMMA DirectKnown ==
  ASSUME WrapperInv, HandlesTyped, KnownInv, NEW p \in Api,
         OpenDirectly(p) \/ \E h \in Handle : CloseDirectly(p, h)
  PROVE  KnownInv'
<1>1. UNCHANGED <<allowed, stack>> /\ DOMAIN os = Api /\ DOMAIN leaked = Api
  BY DEF OpenDirectly, CloseDirectly, HandlesTyped, FilesTyped
<1>2. CASE OpenDirectly(p)
  <2>1. UNCHANGED leaked
    BY <1>2 DEF OpenDirectly
  <2>2. \A q \in Api : \A x \in DOMAIN os[q] : x \in DOMAIN os'[q] /\ os'[q][x] = os[q][x]
    BY <1>1, <1>2 DEF OpenDirectly, OpenFile, Put
  <2>3. Justified'
    BY <1>1, <2>1, <2>2 DEF KnownInv, Justified, OpenTraced, Closing, Ending, Top
  <2>4. JustOpened'
    BY <1>1, <2>2 DEF KnownInv, JustOpened, OpenTraced, Ending, Top
  <2> QED
    BY <2>3, <2>4 DEF KnownInv
<1>3. ASSUME NEW h \in Handle, CloseDirectly(p, h)
      PROVE  KnownInv'
  <2>1. /\ os' = [os EXCEPT ![p] = Without(@, h)]
        /\ h \in DOMAIN os[p] /\ os[p][h].by = Caller(stack)
        /\ leaked' = IF h \in allowed[p] THEN [leaked EXCEPT ![p] = @ \cup {h}] ELSE leaked
    BY <1>3 DEF CloseDirectly, CloseFile, Mine
  <2>2. ASSUME NEW q \in Api, NEW x, OpenTraced(q, x), q # p \/ x # h
        PROVE  OpenTraced(q, x)' /\ os'[q][x] = os[q][x]
    BY <1>1, <2>1, <2>2 DEF OpenTraced, Without
  <2>3. Justified'
    <3> SUFFICES ASSUME NEW q \in Api, NEW x \in allowed[q] \ {NoHandle}
                 PROVE  x \in leaked'[q] \/ OpenTraced(q, x)' \/ Closing(q, x)'
      BY <1>1 DEF Justified
    <3>1. x \in leaked[q] \/ OpenTraced(q, x) \/ Closing(q, x)
      BY DEF KnownInv, Justified
    <3>2. Closing(q, x)' <=> Closing(q, x)
      BY <1>1 DEF Closing, Ending, Top
    <3>3. leaked[q] \subseteq leaked'[q]
      BY <1>1, <2>1
    <3>4. q = p /\ x = h => x \in leaked'[q]
      BY <1>1, <2>1
    <3> QED
      BY <2>2, <3>1, <3>2, <3>3, <3>4
  <2>4. JustOpened'
    <3> SUFFICES ASSUME Ending, Top.op = "open", Top.api \in Api, Top.h # NoHandle
                 PROVE  OpenTraced(Top.api, Top.h)' /\ os'[Top.api][Top.h].by = "application"
      BY <1>1 DEF JustOpened, OpenTraced, Ending, Top
    <3>1. OpenTraced(Top.api, Top.h) /\ os[Top.api][Top.h].by = "application"
      BY DEF KnownInv, JustOpened
    <3>2. os[p][h].by = "library"
      BY <2>1 DEF Caller, Ending
    <3>3. Top.api # p \/ Top.h # h
      BY <3>1, <3>2
    <3> DEFINE a == Top.api
               x == Top.h
    <3>4. a \in Api /\ OpenTraced(a, x) /\ os[a][x].by = "application" /\ (a # p \/ x # h)
      BY <3>1, <3>3
    <3>5. OpenTraced(a, x)' /\ os'[a][x] = os[a][x]
      <4>1. Top' = Top
        BY <1>1 DEF Top
      <4> QED
        BY <1>1, <2>1, <3>4, <4>1 DEF OpenTraced, Without
    <3> QED
      BY <1>1, <3>4, <3>5
  <2> QED
    BY <2>3, <2>4 DEF KnownInv
<1> QED
  BY <1>2, <1>3

\* Every step keeps the invariant.
LEMMA KnownStep ==
  ASSUME WrapperInv, HandlesTyped, KnownInv, [Next]_vars
  PROVE  KnownInv'
<1>1. CASE BracketStart \/ BracketEnd \/ AskNext \/ UNCHANGED vars
  BY <1>1, KnownSame DEF BracketStart, BracketEnd, AskNext, vars, wrappers
<1>2. CASE Initialize
  <2>1. stack = <<>> /\ UNCHANGED <<allowed, leaked, os>>
    BY <1>2 DEF Initialize
  <2>2. stack' = stack \/ stack' = <<[Frame("init", NoApi, NoHandle) EXCEPT !.old = TRUE]>>
    BY <1>2 DEF Initialize
  <2>3. [Frame("init", NoApi, NoHandle) EXCEPT !.old = TRUE].phase # "end"
    BY DEF Frame, Operation
  <2>4. ~Ending /\ ~Ending'
    <3> DEFINE x == [Frame("init", NoApi, NoHandle) EXCEPT !.old = TRUE]
    <3>1. x.phase # "end" /\ (stack' = <<>> \/ stack' = <<x>>)
      BY <2>1, <2>2, <2>3
    <3> HIDE DEF x
    <3> QED
      BY <2>1, <3>1 DEF Ending, Top
  <2> QED
    BY <2>1, <2>4, KnownQuiet
<1>3. CASE Finalize
  <2>1. stack = <<>> /\ UNCHANGED <<allowed, leaked, os>> /\ ~Ending'
    BY <1>3, PushedQuiet DEF Finalize
  <2> QED
    BY <2>1, KnownQuiet DEF Ending
<1>4. CASE Finalized \/ Return
  <2>1. /\ stack # <<>> /\ Top.phase = "untraced" /\ stack' = Tail(stack)
        /\ UNCHANGED <<allowed, leaked, os>>
    BY <1>4, HeadStack DEF Finalized, Return, Running, WrapperInv, Nesting, Top
  <2> QED
    BY <2>1, PoppedQuiet, KnownQuiet DEF Ending
<1>5. ASSUME NEW p \in Api, EnterOpen(p) \/ \E h \in Handle, op \in Operation : Enter(op, p, h)
      PROVE  KnownInv'
  <2>1. /\ flag /\ UNCHANGED <<allowed, leaked, os>>
        /\ \E op, h : Untraced(Frame(op, p, h))
    BY <1>5 DEF EnterOpen, Enter
  <2>2. stack = <<>>
    BY <2>1 DEF WrapperInv, FlagFollows
  <2> QED
    BY <2>1, <2>2, PushedQuiet, KnownQuiet DEF Ending
<1>6. CASE MpiCall
  <2>1. /\ UNCHANGED <<allowed, leaked, os>> /\ ~Ending'
        /\ stack # <<>> => Head(stack).op = "mpi"
    BY <1>6, PushedQuiet DEF MpiCall
  <2>2. ~Ending
    <3>1. stack # <<>> => Top.op \notin Operation /\ 1 \in 1 .. Len(stack)
      BY <2>1, HeadStack, MpiIsNone DEF WrapperInv, Nesting, Top
    <3> QED
      BY <3>1 DEF Ending, WrapperInv, Nesting, Top
  <2> QED
    BY <2>1, <2>2, KnownQuiet
<1>7. CASE StartOperation
  <2>1. /\ stack # <<>> /\ Top.phase = "start" /\ UNCHANGED <<allowed, leaked, os>>
        /\ \E n : stack' = [stack EXCEPT ![1].phase = "call", ![1].sym = n]
    BY <1>7, HeadStack DEF StartOperation, Running, WrapperInv, Nesting, Top
  <2>2. stack \in Seq(Frames) /\ Top \in Frames /\ 1 \in 1 .. Len(stack)
    BY <2>1, HeadStack DEF WrapperInv, Nesting, Top
  <2>3. Top'.phase = "call"
    BY <2>1, <2>2 DEF Frames, Top
  <2> QED
    BY <2>1, <2>3, KnownQuiet DEF Ending
<1>8. CASE RunOperation \/ EndOperation
  BY <1>8, RunOperationKnown, EndOperationKnown
<1>9. ASSUME NEW p \in Api, OpenDirectly(p) \/ \E h \in Handle : CloseDirectly(p, h)
      PROVE  KnownInv'
  BY <1>9, DirectKnown
<1> QED
  BY <1>1, <1>2, <1>3, <1>4, <1>5, <1>6, <1>7, <1>8, <1>9 DEF Next

\* Whatever is closed untraced and whatever numbers are given out again, what is
\* allowed was opened traced and is open, or was closed where no wrapper sees it.
THEOREM AllowedIsKnown == Spec => []AllowedKnown
<1>1. Init => HandlesTyped /\ KnownInv
  <2>1. ASSUME Init PROVE HandlesTyped /\ KnownInv
    <3>1. FilesTyped(os) /\ stack = <<>> /\ \A p \in Api : allowed[p] = {}
      BY <2>1 DEF Init, FilesTyped, Empty
    <3> QED
      BY <2>1, <3>1 DEF Init, HandlesTyped, KnownInv, Justified, JustOpened, Ending
  <2> QED
    BY <2>1
<1>2. KnownInv => AllowedKnown
  BY DEF KnownInv, Justified, Closing, Ending, OpenTraced, AllowedKnown
<1> QED
  BY <1>1, <1>2, HandlesStep, KnownStep, WrapperInductive, PTL DEF Spec

===============================================================================
