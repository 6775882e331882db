---------------------------- MODULE OracleContract ----------------------------
(***************************************************************************)
(* What the oracle promises its users (model.hpp, omniscio.cpp, reader.cpp)*)
(* with no grammar at all: it remembers the values it was given, in order, *)
(* and between two inputs it predicts only values that have already        *)
(* followed the last one.  omniscio_predict_next depends on the second     *)
(* half: it looks the pair <last, predicted> up in tables that were filled *)
(* when the pair was observed.                                             *)
(***************************************************************************)
EXTENDS Naturals, Sequences

CONSTANT Terminal

VARIABLES log,        \* everything read so far
          busy,       \* is a call of input in progress?
          predicted   \* what predict_next answers, {} while busy

Followers(l) ==
  {l[i + 1] : i \in {j \in 1 .. Len(l) - 1 : l[j] = l[Len(l)]}}

Init == log = <<>> /\ busy = FALSE /\ predicted = {}

Read(x) ==
  /\ ~busy
  /\ log' = Append(log, x)
  /\ busy' = TRUE
  /\ predicted' = {}

Answer ==
  /\ busy
  /\ busy' = FALSE
  /\ predicted' \in SUBSET Followers(log)
  /\ UNCHANGED log

Next == (\E x \in Terminal : Read(x)) \/ Answer

Spec == Init /\ [][Next]_<<log, busy, predicted>>

==============================================================================
