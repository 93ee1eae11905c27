---------------------------- MODULE MCDmaMemory ----------------------------
(* A buffer of two units; lengths of zero (before software sets one),      *)
(* below, at and above the buffer, a multiple of it and a multiple plus    *)
(* one; two requests, so that the second may come before, during or after  *)
(* the first transfer, from and to two places (0 until software sets one). *)
EXTENDS DmaMemory, TLC

MCSrcs == {1}
MCDsts == {6}
MCLens == {1, 2, 4, 5}
MCAddr == 0 .. 10
MCContents == [a \in MCAddr |-> a]
=============================================================================
