------------------------------ MODULE MCDangling ------------------------------
(* One long input of the oracle, too long for TLC to reach among all others:   *)
(* the values of Script, read one after the other.  Every behaviour of         *)
(* ScriptSpec is a behaviour of Spec.                                          *)
EXTENDS OracleProperties

CONSTANTS LetterA, LetterB

A == LetterA
B == LetterB
Script == <<A, B, A, A, A, B, B, B, A, A, B, B, A, A, B, B>>

ReadScript ==
  /\ Quiet /\ Len(hist) < Len(Script)
  /\ Input(Script[Len(hist) + 1])

ScriptSpec == Init /\ [][ReadScript \/ Cascade \/ Finished]_vars

===============================================================================
