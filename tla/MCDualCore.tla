----------------------------- MODULE MCDualCore -----------------------------
(* The dual-core program with three harts, one more than the platforms     *)
(* have, so that the last hart at the barrier posts more than once.        *)
EXTENDS DualCore, TLC

ThreeHarts == 0 .. 2
MCBoot == 0
=============================================================================
