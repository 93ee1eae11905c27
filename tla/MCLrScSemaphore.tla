-------------------------- MODULE MCLrScSemaphore --------------------------
(* Three harts on one semaphore, used as the barrier uses its gate: it     *)
(* starts at 0 and hart 1 posts two units, which the others and hart 1     *)
(* itself then take and give back.  The word has 2 bits: the largest count *)
(* reached is 2.                                                           *)
EXTENDS LrScSemaphore, TLC

MCHarts == 0 .. 2
MCBoot == 0
MCWordMod == 4
GateCount == 0
GateGrant == [h \in MCHarts |-> IF h = 1 THEN 2 ELSE 0]
=============================================================================
