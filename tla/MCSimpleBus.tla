---------------------------- MODULE MCSimpleBus ----------------------------
(* Two ports with two mappings between them (on one port or on two), four  *)
(* addresses, and two initiators, which differ only in name.               *)
EXTENDS SimpleBus, TLC

CONSTANTS i1, i2

TwoPorts == 0 .. 1
TwoInitiators == {i1, i2}
Symmetry == Permutations(TwoInitiators)
=============================================================================
