---------------------------- MODULE MCFftDriver ----------------------------
(* Two harts.  Without the engine they have two samples each, so that their *)
(* order can be wrong; with it one, which already lets requests meet.        *)
EXTENDS FftDriver, TLC

TwoHarts == 0 .. 1
MCBoot == 0
=============================================================================
