---------------------------- MODULE MCFftKernel ----------------------------
(* Exact numbers modulo 1279, where <<5, 403>> is a rotation by 1/256 of a *)
(* turn.  The transform is linear, so the unit vectors would be enough; a  *)
(* few of them (their positions differ in every bit), and one input        *)
(* without zeros or symmetry.                                              *)
(* Fixed numbers, with ten fractional bits: the input of the testbench,    *)
(* one as large as can be in the place that is turned most, of either      *)
(* sign, and one without zeros or symmetry.                                *)
EXTENDS FftKernel, TLC

Rotation16  == <<96, 942>>
Rotation8   == <<525, 525>>
Rotation256 == <<5, 403>>

Circle16 ==
  LET cos == <<10000, 9239, 7071, 3827, 0, -3827, -7071, -9239,
               -10000, -9239, -7071, -3827, 0, 3827, 7071, 9239>>
  IN  [j \in 0 .. 15 |-> <<cos[j + 1], cos[((j + 4) % 16) + 1]>>]

TurnOf16(f) == IF f = "exact" THEN Rotation16 ELSE <<942, -389>>
TurnOf256(f) == Rotation256

Unit(k) == [n \in 0 .. N - 1 |-> IF n = k THEN <<1, 0>> ELSE Zero]
Full == [n \in 0 .. N - 1 |-> <<(3 * n + 2) % P, (n * n + 5) % P>>]

OfTheTestbench == [n \in 0 .. N - 1 |-> <<IF n = 0 THEN 1 ELSE 0, 2021>>]
Largest == [n \in 0 .. N - 1 |-> IF n = 7 THEN <<-16384, 16383>> ELSE Zero]
Mixed == [n \in 0 .. N - 1 |-> <<97 * n - 1000, 500 - 7 * n * n>>]

SomeInputs(f) ==
  IF f = "exact" THEN {Unit(1), Unit(6), Unit(N - 1), Full}
                 ELSE {OfTheTestbench, Largest, Mixed}
OneInput(f) == {Full}
Both == {"exact", "fixed"}
OnlyExact == {"exact"}
SomeWords == {<<0, 0>>, <<1, 0>>}
=============================================================================
