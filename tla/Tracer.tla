-------------------------------- MODULE Tracer --------------------------------
(***************************************************************************)
(* The tracer (omniscio.cpp): operations come in as pairs of calls, start  *)
(* and end; a start that is accepted feeds the symbol of its stack trace   *)
(* to the model and updates the access tables of the transition from the   *)
(* previous symbol; between operations, next answers with what the tables  *)
(* hold for every symbol that the model predicts.                          *)
(*                                                                         *)
(* The model is the oracle, of which the tracer needs OracleContract only, *)
(* and a symbol is an identifier that the dictionary gave.  The tables     *)
(* keep the number of observations in each entry; what sizes, offsets and  *)
(* dates they hold is left out.  The flag omniscio_tracing_enabled, which  *)
(* init and finalize set, belongs to the wrappers: see Interception.       *)
(***************************************************************************)
EXTENDS Naturals, Sequences, FiniteSets

CONSTANTS Symbol,     \* the identifiers of the stack traces of the application
          MaxLog      \* bound: how many operations are observed

ASSUME SymbolAssumption == Symbol \subseteq Nat \ {0}
ASSUME MaxLogAssumption == MaxLog \in Nat

VARIABLES disabled,   \* is OMNISCIO_DISABLE set in the environment?
          enabled, started,         \* _enabled_, _started_
          previous_sym,             \* _previous_sym_, 0 when there is none
          log, predicted,           \* _model_: what it read, what it predicts
          time, offset, size, type, \* the tables
          operations                \* _operations_: "closed", "open" or "failed"

tables == <<time, offset, size, type>>
tracer == <<disabled, enabled, started, previous_sym, log, predicted, tables,
            operations>>

Model == INSTANCE OracleContract WITH Terminal <- Symbol, busy <- FALSE

NoSymbol == 0
NoTrace == 0          \* backtrace found no frame
Operation == {"open", "close", "read", "write"}
Empty == [x \in {} |-> 0]

Put(f, x, v) == [y \in DOMAIN f \cup {x} |-> IF y = x THEN v ELSE f[y]]

\* The entry x of table f observed once more, and the entries of X brought into
\* being by operator(), as matrix and vector do for a key they do not have.
Observed(f, x) == Put(f, x, IF x \in DOMAIN f THEN f[x] + 1 ELSE 1)
Touched(f, X) == [x \in DOMAIN f \cup X |-> IF x \in DOMAIN f THEN f[x] ELSE 0]

TracerInit ==
  /\ disabled \in BOOLEAN
  /\ enabled = FALSE /\ started = FALSE
  /\ previous_sym = NoSymbol
  /\ log = <<>> /\ predicted = {}
  /\ time = Empty /\ offset = Empty /\ size = Empty /\ type = Empty
  /\ operations = "closed"

\* init.  A stream that is already open fails, and writes no more.
InitTracer ==
  /\ enabled' = ~disabled
  /\ operations' = IF disabled THEN operations
                   ELSE IF operations = "closed" THEN "open" ELSE "failed"
  /\ UNCHANGED <<disabled, started, previous_sym, log, predicted, tables>>

FinalizeTracer ==
  IF enabled
  THEN /\ operations' = "closed"
       /\ enabled' = FALSE /\ started' = FALSE
       /\ UNCHANGED <<disabled, previous_sym, log, predicted, tables>>
  ELSE UNCHANGED tracer

\* The table f of transitions, in a start of symbol s.
UpdateTransitionFaulty(f, s) == Observed(f, <<previous_sym, s>>)

UpdateTransition(f, s) ==
  IF previous_sym # NoSymbol THEN Observed(f, <<previous_sym, s>>) ELSE f

\* _previous_sym_ afterwards, whatever the operation is.
LastSymbolFaulty(op, s) == IF op \in {"read", "write"} THEN s ELSE previous_sym

LastSymbol(op, s) == s

\* What a start does with the symbol s of its trace.
Observe(op, s) ==
  /\ log' = Append(log, s)
  /\ predicted' \in SUBSET Model!Followers(log')
  /\ type' = Put(type, s, op)
  /\ time' = UpdateTransition(time, s)
  /\ offset' = UpdateTransition(offset, s)
  /\ size' = Observed(size, s)
  /\ previous_sym' = LastSymbol(op, s)

\* open_start, close_start, read_start, write_start: refused during another
\* operation, and half done when there is no trace.
Accepted == enabled /\ ~started

Traces == IF Len(log) < MaxLog THEN Symbol \cup {NoTrace} ELSE {NoTrace}

Start(op, s) ==
  IF Accepted
  THEN /\ started' = TRUE
       /\ IF s = NoTrace
          THEN UNCHANGED <<previous_sym, log, predicted, tables>>
          ELSE Observe(op, s)
       /\ UNCHANGED <<disabled, enabled, operations>>
  ELSE UNCHANGED tracer

\* open_end, close_end, read_end, write_end, which do not look at what started.
End ==
  IF enabled /\ started
  THEN /\ started' = FALSE
       /\ UNCHANGED <<disabled, enabled, previous_sym, log, predicted, tables,
                      operations>>
  ELSE UNCHANGED tracer

\* predict_next: an error during an operation, else one look into each table for
\* every predicted symbol.
Transitions == {<<previous_sym, s>> : s \in predicted}

PredictNext ==
  IF started THEN UNCHANGED tracer
  ELSE /\ size' = Touched(size, predicted)
       /\ offset' = Touched(offset, Transitions)
       /\ time' = Touched(time, Transitions)
       /\ type' = [s \in DOMAIN type \cup predicted |->
                     IF s \in DOMAIN type THEN type[s] ELSE "open"]
       /\ UNCHANGED <<disabled, enabled, started, previous_sym, log, predicted,
                      operations>>

TracerNext ==
  \/ InitTracer \/ FinalizeTracer
  \/ \E op \in Operation, s \in Traces : Start(op, s)
  \/ End \/ PredictNext

\* The tracer under any order of calls of its interface (omniscio.h).
TracerSpec == TracerInit /\ [][TracerNext]_tracer

-----------------------------------------------------------------------------
IsTable(f, S, T) == DOMAIN f \subseteq S /\ f \in [DOMAIN f -> T]

\* Type invariant of the tracer: no transition starts from no symbol.
TracerTypeOK ==
  /\ disabled \in BOOLEAN /\ enabled \in BOOLEAN /\ started \in BOOLEAN
  /\ log \in Seq(Symbol) /\ predicted \subseteq Symbol
  /\ previous_sym \in Symbol \cup {NoSymbol}
  /\ IsTable(time, Symbol \X Symbol, Nat)
  /\ IsTable(offset, Symbol \X Symbol, Nat)
  /\ IsTable(size, Symbol, Nat) /\ IsTable(type, Symbol, Operation)
  /\ operations \in {"closed", "open", "failed"}

\* Every entry that next looks up has been observed: no date that no operation
\* set (adaptive_stats leaves it so), and no type that none had, is answered,
\* whatever the model predicts within its contract.
NoBlindAnswer ==
  /\ predicted \subseteq DOMAIN size \cap DOMAIN type
  /\ Transitions \subseteq DOMAIN time \cap DOMAIN offset
  /\ \A p \in DOMAIN time : time[p] > 0
  /\ \A p \in DOMAIN offset : offset[p] > 0
  /\ \A s \in DOMAIN size : size[s] > 0

\* The tables know each transition of the log as often as it was made and each
\* symbol as often as it was read: no operation is counted twice, or with
\* another predecessor, across refused and half-done starts.
TablesExact ==
  /\ DOMAIN time = {<<log[i], log[i + 1]>> : i \in 1 .. Len(log) - 1}
  /\ \A p \in DOMAIN time :
       time[p] = Cardinality({i \in 1 .. Len(log) - 1 :
                                 <<log[i], log[i + 1]>> = p})
  /\ offset = time
  /\ DOMAIN size = {log[i] : i \in DOMAIN log} /\ DOMAIN type = DOMAIN size
  /\ \A s \in DOMAIN size :
       size[s] = Cardinality({i \in DOMAIN log : log[i] = s})

==============================================================================
