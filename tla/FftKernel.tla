----------------------------- MODULE FftKernel -----------------------------
(***************************************************************************)
(* The transform inside the accelerators: do_fft of oneD_FFT.cpp (the HLS  *)
(* block) and of the two twoD_FFT.h (the platforms), loop by loop, with    *)
(* the testbench of the HLS block around it: one thread that feeds samples *)
(* without end, one that fetches results without end.                      *)
(*                                                                         *)
(* Numbers have two formats.  In "fixed" they are those of the code: words *)
(* of 16 bits, sums of 17, products of which 15 bits and the sign are kept *)
(* apart.  In "exact" a number is an integer modulo the prime P, so that   *)
(* the cosine and sine of an angle are exact (a point of the circle        *)
(* c^2 + s^2 = 1) and an error of an index, a twiddle factor or a sign     *)
(* cannot hide in the last bit.  A complex number is a pair.  The two      *)
(* FIFOs of a direction, real and imaginary, move together here; FftAccel  *)
(* tells them apart.                                                       *)
(***************************************************************************)
EXTENDS Integers, Sequences, FiniteSetsExt

CONSTANTS
  Formats,       (* of "exact" and "fixed", those looked at                *)
  P,             (* exact numbers are 0 .. P - 1                           *)
  Scale,         (* what stands for 1 in a fixed twiddle factor            *)
  M, N,          (* stages and points of the transform (fft_parameter.h)   *)
  Turn(_),       (* <<w_real, w_imag>> in a format: the rotation from one  *)
                 (* twiddle factor to the next                             *)
  NthRoot,       (* what it should be: a rotation by 1/N of a turn, exactly*)
  Circle,        (* and the first N multiples of it, in ten-thousandths    *)
  Depth,         (* the capacity of a FIFO                                 *)
  Inputs(_),     (* the inputs in a format: functions from 0 .. N - 1      *)
  Outside,       (* the words memory may hold outside the arrays           *)
  ClearsOutside  (* HLS: the clearing loop writes W_real[W]                *)

(* The powers of two that count blocks and points. *)
TwoTo[s \in 0 .. M] == IF s = 0 THEN 1 ELSE 2 * TwoTo[s - 1]

W == (N \div 2) - 1

(* The numbers of a format; what is exact is taken modulo P. *)
Numbers(f) == IF f = "exact" THEN 0 .. P - 1 ELSE -(2 ^ 15) .. 2 ^ 15 - 1
Exactly(a) == <<a[1] % P, a[2] % P>>
Product(a, b) == <<a[1] * b[1] - a[2] * b[2], a[1] * b[2] + a[2] * b[1]>>

(* The powers of NthRoot, exactly. *)
Roots[j \in 0 .. N - 1] ==
  IF j = 0 THEN <<1, 0>> ELSE Exactly(Product(Roots[j - 1], NthRoot))

ASSUME KernelAssumption ==
  /\ Formats \subseteq {"exact", "fixed"}
  /\ {P, Scale, M, Depth} \subseteq Nat \ {0}
  /\ P > 1
  /\ N = TwoTo[M]

ASSUME NumbersAssumption ==
  /\ \A f \in Formats :
       /\ Turn(f) \in Numbers(f) \X Numbers(f)
       /\ Inputs(f) \subseteq [0 .. N - 1 -> Numbers(f) \X Numbers(f)]
  /\ NthRoot \in Numbers("exact") \X Numbers("exact")
  /\ Roots[N \div 2] = Exactly(<<-1, 0>>) (* half a turn *)

VARIABLES
  format,  (* of the numbers; never changes                                *)
  pc,      (* the loop do_fft is in                                        *)
  stage, len, incr, l, windex,
  index,   (* index, a loop's k, m or r                                    *)
  x,       (* real[] and imag[]                                            *)
  tf,      (* W_real[] and W_imag[]                                        *)
  input,   (* input_r and input_i of the testbench; never changes          *)
  fed,     (* feed_input's i                                               *)
  fetched, (* fetch_result's j                                             *)
  result,  (* result_r and result_i; <<>> until a word is there            *)
  inFifo, outFifo

loop == <<stage, len, incr, l, windex>>
bench == <<format, input, fed, fetched, result>>
vars == <<pc, loop, index, x, tf, bench, inFifo, outFifo>>

Zero == <<0, 0>>
One == IF format = "exact" THEN <<1, 0>> ELSE <<Scale, 0>>

Plus(a, b)    == <<a[1] + b[1], a[2] + b[2]>>
Minus(a, b)   == <<a[1] - b[1], a[2] - b[2]>>

(* An sc_int<16> is assigned a number. *)
Int16(z) == ((z + 2 ^ 15) % 2 ^ 16) - 2 ^ 15
Word(a) == IF format = "exact" THEN Exactly(a) ELSE <<Int16(a[1]), Int16(a[2])>>

(* Its bit 15 is assigned the sign of a number, its bits 14 to 0 the       *)
(* lowest ones.                                                            *)
SignAndBits(z) == (z % 2 ^ 15) - (IF z < 0 THEN 2 ^ 15 ELSE 0)
Assembled(a) ==
  IF format = "exact" THEN Exactly(a) ELSE <<SignAndBits(a[1]), SignAndBits(a[2])>>

(* range(24, 10): a product without its last bits; and a mutant with the   *)
(* range(25, 11) of the platforms, whose factors have eleven.              *)
CutAt11(a) ==
  IF format = "exact" THEN a ELSE <<a[1] \div (2 * Scale), a[2] \div (2 * Scale)>>
Cut(a) == IF format = "exact" THEN a ELSE <<a[1] \div Scale, a[2] \div Scale>>

Times(a, b) == Assembled(Cut(Product(a, b)))

Init ==
  /\ format \in Formats
  /\ pc = "read" /\ index = 0
  /\ stage = 0 /\ len = N /\ incr = 1 /\ l = 1 /\ windex = 0
  /\ x = [i \in 0 .. N - 1 |-> Zero]
  /\ tf = [i \in 0 .. W - 1 |-> Zero]
  /\ input \in Inputs(format)
  /\ fed = 0 /\ fetched = 0
  /\ result = [i \in 0 .. N - 1 |-> <<>>]
  /\ inFifo = <<>> /\ outFifo = <<>>
-----------------------------------------------------------------------------
(* feed_input and fetch_result. *)
Feed ==
  /\ Len(inFifo) < Depth
  /\ inFifo' = Append(inFifo, input[fed])
  /\ fed' = (fed + 1) % N
  /\ UNCHANGED <<format, pc, loop, index, x, tf, input, fetched, result, outFifo>>

Fetch ==
  /\ outFifo # <<>>
  /\ result' = [result EXCEPT ![fetched] = Head(outFifo)]
  /\ outFifo' = Tail(outFifo)
  /\ fetched' = (fetched + 1) % N
  /\ UNCHANGED <<format, pc, loop, index, x, tf, input, fed, inFifo>>
-----------------------------------------------------------------------------
(* real[index] = i_real.read(); imag[index] = i_imag.read(). *)
ReadSample ==
  /\ pc = "read"
  /\ inFifo # <<>>
  /\ x' = [x EXCEPT ![index] = Head(inFifo)]
  /\ inFifo' = Tail(inFifo)
  /\ IF index < N - 1
       THEN index' = index + 1 /\ pc' = pc
       ELSE index' = 0 /\ pc' = "clear"
  /\ UNCHANGED <<loop, tf, bench, outFifo>>

(* W_real[a] = W_imag[a] = 0.  The HLS block writes W_real[W] and          *)
(* W_imag[W] instead, outside the arrays: what it hits may be W_imag[0].   *)
ClearTwiddles ==
  /\ pc = "clear"
  /\ tf' \in IF ClearsOutside THEN {tf, [tf EXCEPT ![0][2] = 0]}
                              ELSE {[i \in 0 .. W - 1 |-> Zero]}
  /\ pc' = "twiddle"
  /\ UNCHANGED <<loop, index, x, bench, inFifo, outFifo>>

(* Each factor is the one before, turned on. *)
TurnedOn(w) == Times(w, Turn(format))

MakeTwiddle ==
  /\ pc = "twiddle"
  /\ index < W
  /\ tf' = [tf EXCEPT ![index] = TurnedOn(IF index = 0 THEN One ELSE tf[index - 1])]
  /\ index' = index + 1
  /\ UNCHANGED <<pc, loop, x, bench, inFifo, outFifo>>

StartStages ==
  /\ pc = "twiddle"
  /\ index = W
  /\ stage' = 0 /\ len' = N /\ incr' = 1
  /\ pc' = "stage"
  /\ UNCHANGED <<index, l, windex, x, tf, bench, inFifo, outFifo>>

StartStage ==
  /\ pc = "stage"
  /\ stage < M
  /\ len' = len \div 2
  /\ index' = 0
  /\ pc' = "first"
  /\ UNCHANGED <<stage, incr, l, windex, x, tf, bench, inFifo, outFifo>>

(* The butterflies whose factor is one. *)
FirstButterfly ==
  /\ pc = "first"
  /\ index < N
  /\ x' = [x EXCEPT ![index]       = Word(Plus(x[index], x[index + len])),
                    ![index + len] = Word(Minus(x[index], x[index + len]))]
  /\ index' = index + 2 * len
  /\ UNCHANGED <<pc, loop, tf, bench, inFifo, outFifo>>

StartColumns ==
  /\ pc = "first"
  /\ index >= N
  /\ l' = 1 /\ windex' = incr - 1 /\ index' = 1
  /\ pc' = "rest"
  /\ UNCHANGED <<stage, len, incr, x, tf, bench, inFifo, outFifo>>

(* butterfly(): the difference is turned by the factor. *)
Butterfly ==
  /\ pc = "rest"
  /\ l < len
  /\ index < N
  /\ x' = [x EXCEPT
       ![index]       = Assembled(Plus(x[index], x[index + len])),
       ![index + len] = Times(Minus(x[index], x[index + len]), tf[windex])]
  /\ index' = index + 2 * len
  /\ UNCHANGED <<pc, loop, tf, bench, inFifo, outFifo>>

(* Mutant: the next factor, whatever the stage. *)
NextColumnByOne ==
  /\ pc = "rest"
  /\ l < len
  /\ index >= N
  /\ windex' = windex + 1
  /\ l' = l + 1
  /\ index' = l'
  /\ UNCHANGED <<pc, stage, len, incr, x, tf, bench, inFifo, outFifo>>

NextColumn ==
  /\ pc = "rest"
  /\ l < len
  /\ index >= N
  /\ windex' = windex + incr
  /\ l' = l + 1
  /\ index' = l'
  /\ UNCHANGED <<pc, stage, len, incr, x, tf, bench, inFifo, outFifo>>

(* Mutant: a counter of two bits. *)
EndStageNarrow ==
  /\ pc = "rest"
  /\ l >= len
  /\ stage' = (stage + 1) % 4
  /\ incr' = 2 * incr
  /\ pc' = "stage"
  /\ UNCHANGED <<len, l, windex, index, x, tf, bench, inFifo, outFifo>>

EndStage ==
  /\ pc = "rest"
  /\ l >= len
  /\ stage' = stage + 1
  /\ incr' = 2 * incr
  /\ pc' = "stage"
  /\ UNCHANGED <<len, l, windex, index, x, tf, bench, inFifo, outFifo>>

EndStages ==
  /\ pc = "stage"
  /\ stage = M
  /\ index' = 0
  /\ pc' = "write"
  /\ UNCHANGED <<loop, x, tf, bench, inFifo, outFifo>>

(* bits_index: the four bits of bits_i in reverse, whatever N is.          *)
Bit(r, j) == (r \div 2 ^ j) % 2

Reversed(r) == 8 * Bit(r, 0) + 4 * Bit(r, 1) + 2 * Bit(r, 2) + Bit(r, 3)

(* o_real.write(real[index]), with the index reversed: outside the array   *)
(* the word is whatever is there.                                          *)
WriteResult ==
  /\ pc = "write"
  /\ Len(outFifo) < Depth
  /\ \E word \in IF Reversed(index) < N THEN {x[Reversed(index)]} ELSE Outside :
       outFifo' = Append(outFifo, word)
  /\ IF index < N - 1
       THEN index' = index + 1 /\ pc' = pc
       ELSE index' = 0 /\ pc' = "read"
  /\ UNCHANGED <<loop, x, tf, bench, inFifo>>

DoFft ==
  \/ ReadSample
  \/ ClearTwiddles \/ MakeTwiddle
  \/ StartStages
  \/ StartStage \/ FirstButterfly
  \/ StartColumns \/ Butterfly \/ NextColumn
  \/ EndStage \/ EndStages
  \/ WriteResult

Next == DoFft \/ Feed \/ Fetch

Spec == Init /\ [][Next]_vars

(* Three threads of the simulation kernel. *)
FairSpec == Spec /\ WF_vars(DoFft) /\ WF_vars(Feed) /\ WF_vars(Fetch)
-----------------------------------------------------------------------------
(* The definition of the transform: X(k) = sum of x(n) * root^(n * k), in  *)
(* numbers of the exact format or in ten-thousandths.                      *)
Complex == Numbers(format) \X Numbers(format)

SumOf(f, S) ==
  LET real == [i \in S |-> f[i][1]]
      imag == [i \in S |-> f[i][2]]
  IN  <<MapThenSumSet(LAMBDA i : real[i], S), MapThenSumSet(LAMBDA i : imag[i], S)>>

(* The terms of the DFT of L points a[0 .. L - 1], L a divisor of N. *)
DFT(a, L, k) ==
  LET power == IF format = "exact" THEN Roots ELSE Circle
  IN  SumOf([n \in 0 .. L - 1 |-> Product(a[n], power[(n * k * (N \div L)) % N])],
            0 .. L - 1)

Absolute(z) == IF z < 0 THEN -z ELSE z

(* Fixed numbers may be off by a twelfth of the magnitude of the input,    *)
(* because the factors shrink (w_real and w_imag are cut to two digits,    *)
(* and each factor is made of the one before), and by a unit per cut.      *)
Magnitude == MapThenSumSet(LAMBDA n : Absolute(input[n][1]) + Absolute(input[n][2]), 0 .. N - 1)
Tolerance == 10000 * (Magnitude \div 12 + M)

(* Two values of the transform, as DFT gives them, agree. *)
Agree(d, e) ==
  IF format = "exact" THEN Exactly(Minus(d, e)) = Zero
  ELSE \A i \in {1, 2} : Absolute(d[i] - e[i]) <= Tolerance

(* The s lowest bits of b in reverse: the last one comes first. *)
BitsReversed[s \in 0 .. M] ==
  [b \in 0 .. N - 1 |->
     IF s = 0 THEN 0 ELSE (b % 2) * TwoTo[s - 1] + BitsReversed[s - 1][b \div 2]]

TypeOK ==
  /\ pc \in {"read", "clear", "twiddle", "stage", "first", "rest", "write"}
  /\ stage \in 0 .. M
  /\ {len, incr} \subseteq {TwoTo[s] : s \in 0 .. M}
  /\ l \in 1 .. N /\ windex \in 0 .. N /\ index \in 0 .. 2 * N
  /\ x \in [0 .. N - 1 -> Complex] /\ tf \in [0 .. W - 1 -> Complex]
  /\ fed \in 0 .. N - 1 /\ fetched \in 0 .. N - 1
  /\ Len(inFifo) <= Depth /\ Len(outFifo) <= Depth

(* Between two stages the array is 2^stage blocks; the transforms of the   *)
(* blocks are together the transform of the input, the block of a          *)
(* frequency being the reverse of the frequency's lowest bits.  (Decima-   *)
(* tion in frequency: with one word per block it is the whole transform in *)
(* bit-reversed order.)  So the fixed numbers neither wrap nor lose a sign *)
(* on the way, for inputs whose magnitude a word can hold.                 *)
BlocksCorrect ==
  pc = "stage" =>
    \A b \in 0 .. TwoTo[stage] - 1 : \A j \in 0 .. len - 1 :
      Agree(DFT([n \in 0 .. len - 1 |-> x[b * len + n]], len, j),
            DFT(input, N, j * TwoTo[stage] + BitsReversed[stage][b]))

(* What the testbench stores is the transform of its input, in order,      *)
(* however far feeder, transform and fetcher are apart and in every round. *)
ResultsCorrect ==
  \A k \in 0 .. N - 1 : result[k] # <<>> =>
    Agree(DFT([n \in {0} |-> result[k]], 1, 0), DFT(input, N, k))

(* The pipeline never stalls: the fetcher ends a round again and again.    *)
RoundsGoOn == \A k \in {0, N - 1} : []<>(fetched = k)
=============================================================================
