------------------------------ MODULE MCTrackers ------------------------------
(* Small instances of the trackers for TLC: a few operations on the offset, of *)
(* which "following" comes with every value that its unset field may hold.     *)
EXTENDS Trackers, TLC

MCOffsetOp == {O!following(m) : m \in Memory}
                \cup {O!offset_op(0, "ABSOLUTE"), O!offset_op(3, "RELATIVE")}

MCSymmetry == Permutations(Tracker) \cup Permutations(Object)

===============================================================================
