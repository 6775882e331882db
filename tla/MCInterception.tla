---------------------------- MODULE MCInterception ----------------------------
(* Small instances of the tracer under its wrappers for TLC.                   *)
EXTENDS Interception

Symbols == 1 .. 2

===============================================================================
