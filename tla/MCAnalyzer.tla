------------------------------ MODULE MCAnalyzer ------------------------------
(* Small instances of the analyzer for TLC: the symbols are only compared.     *)
EXTENDS Analyzer, TLC

SymbolSymmetry == Permutations(Symbol)

===============================================================================
