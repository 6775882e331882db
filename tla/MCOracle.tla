------------------------------- MODULE MCOracle -------------------------------
(* Small instances of the oracle for TLC.  The terminals only ever meet in     *)
(* tests for equality, so permuting them is a symmetry.                        *)
EXTENDS OracleProperties, TLC

TerminalSymmetry == Permutations(Terminal)

===============================================================================
