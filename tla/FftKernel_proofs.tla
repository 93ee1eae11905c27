-------------------------- MODULE FftKernel_proofs --------------------------
(***************************************************************************)
(* The transform of the accelerators computes the discrete Fourier trans-  *)
(* form of its input, in exact numbers, for every power of two N, every    *)
(* root of unity, every input and every depth of the FIFOs, however far    *)
(* the feeder, the transform and the fetcher are apart and in every round. *)
(*                                                                         *)
(* The inductive invariant has four parts (ExactInv).  TypeInv: the types, *)
(* and how stage, len, incr, l, windex and index go together, which keeps  *)
(* every butterfly inside the arrays.  InputInv: what has been read and    *)
(* what waits in the FIFO is the input, in order.  FactorsInv: the factors *)
(* made so far are the powers of the root of unity.  StagesInv: between    *)
(* two stages, the transforms of the blocks are together the transform of  *)
(* the input; within a stage, the array is such an array y with the        *)
(* butterflies applied that the stage has reached.  That a finished stage  *)
(* keeps the claim is decimation in frequency: the sum over 2 H points is  *)
(* the sum over H sums or turned differences (Decimation, StageStep).      *)
(* With sixteen points the reversal of the last loop is the one the stages *)
(* leave (FourBits), and OutputInv carries the result to the fetcher.      *)
(***************************************************************************)
EXTENDS FftKernel, Sums

(***************************************************************************)
(* Recursive functions.  A definition f[s \in S] == e chooses a function   *)
(* for which the equation holds; that there is one has to be shown.        *)
(***************************************************************************)
Steps(n, S) == [(1 .. n) \X S -> S]
Iterates(f, n, S, start, step) ==
  /\ f \in [0 .. n -> S]
  /\ f[0] = start
  /\ \A s \in 1 .. n : f[s] = step[<<s, f[s - 1]>>]

LEMMA RecursionExists ==
  ASSUME NEW S, NEW m \in Nat, NEW start \in S, NEW step \in Steps(m, S)
  PROVE  \E f : Iterates(f, m, S, start, step)
<1> USE DEF Steps
<1> DEFINE Good(n, f) == Iterates(f, n, S, start, step)
           T == {n \in Nat : n <= m => \E f : Good(n, f)}
<1>1. 0 \in T
  <2>1. Good(0, [s \in 0 .. 0 |-> start])
    BY DEF Iterates
  <2> HIDE DEF Good
  <2> QED
    BY <2>1
<1>2. ASSUME NEW n \in Nat, n \in T
      PROVE  n + 1 \in T
  <2> SUFFICES ASSUME n + 1 <= m
               PROVE  \E f : Good(n + 1, f)
    OBVIOUS
  <2>1. PICK f : Good(n, f)
    <3> HIDE DEF Good
    <3> QED
      BY <1>2
  <2> DEFINE g == [s \in 0 .. n + 1 |-> IF s <= n THEN f[s] ELSE step[<<n + 1, f[n]>>]]
  <2>2. /\ f[n] \in S
        /\ step[<<n + 1, f[n]>>] \in S
    BY <2>1 DEF Iterates
  <2>3. g \in [0 .. n + 1 -> S] /\ g[0] = start
    BY <2>1, <2>2 DEF Iterates
  <2>4. ASSUME NEW s \in 1 .. n + 1
        PROVE  g[s] = step[<<s, g[s - 1]>>]
    <3>1. CASE s = n + 1
      <4>1. g[s] = step[<<n + 1, f[n]>>] /\ g[s - 1] = f[n]
        BY <3>1
      <4> QED
        BY <3>1, <4>1
    <3>2. CASE s # n + 1
      <4>1. s \in 1 .. n /\ s - 1 \in 0 .. n
        BY <3>2
      <4>2. g[s] = f[s] /\ g[s - 1] = f[s - 1]
        BY <4>1
      <4> QED
        BY <2>1, <4>1, <4>2 DEF Iterates
    <3> QED
      BY <3>1, <3>2
  <2> HIDE DEF g
  <2>5. Good(n + 1, g)
    BY <2>3, <2>4 DEF Iterates
  <2> HIDE DEF Good
  <2> QED
    BY <2>5
<1> HIDE DEF Good
<1>3. \A n \in Nat : n \in T
  <2> HIDE DEF T
  <2> QED
    BY <1>1, <1>2, AllNumbers
<1>4. \E f : Good(m, f)
  BY <1>3
<1> QED
  BY <1>4 DEF Good

(* The powers of two. *)
IsTwoTo(f) == f = [s \in 0 .. M |-> IF s = 0 THEN 1 ELSE 2 * f[s - 1]]

LEMMA TwoToChosen ==
  ASSUME NEW f, IsTwoTo(f)
  PROVE  IsTwoTo(TwoTo)
BY DEF IsTwoTo, TwoTo

LEMMA TwoToRecursion ==
  /\ TwoTo[0] = 1
  /\ \A s \in 1 .. M : TwoTo[s] = 2 * TwoTo[s - 1]
<1>0. M \in Nat
  BY KernelAssumption
<1> DEFINE step == [p \in (1 .. M) \X Nat |-> 2 * p[2]]
<1>1. step \in Steps(M, Nat)
  BY DEF Steps
<1>2. \A s \in 1 .. M, n \in Nat : step[<<s, n>>] = 2 * n
  OBVIOUS
<1> HIDE DEF step
<1>3. PICK f : Iterates(f, M, Nat, 1, step)
  <2> 1 \in Nat
    OBVIOUS
  <2> QED
    BY <1>0, <1>1, RecursionExists
<1>4. IsTwoTo(f)
  <2>1. ASSUME NEW s \in 0 .. M
        PROVE  f[s] = IF s = 0 THEN 1 ELSE 2 * f[s - 1]
    <3>1. CASE s # 0
      <4>1. s \in 1 .. M /\ f[s - 1] \in Nat
        BY <1>0, <1>3, <3>1 DEF Iterates
      <4> QED
        BY <1>2, <1>3, <3>1, <4>1 DEF Iterates
    <3> QED
      BY <1>3, <3>1 DEF Iterates
  <2> QED
    BY <1>3, <2>1 DEF IsTwoTo, Iterates
<1>5. IsTwoTo(TwoTo)
  BY <1>4, TwoToChosen
<1> QED
  BY <1>0, <1>5 DEF IsTwoTo

LEMMA TwoToType ==
  \A s \in 0 .. M : TwoTo[s] \in Nat /\ TwoTo[s] > 0
<1>0. M \in Nat
  BY KernelAssumption
<1> DEFINE T == {n \in Nat : n <= M => TwoTo[n] \in Nat /\ TwoTo[n] > 0}
<1>1. 0 \in T
  BY TwoToRecursion
<1>2. \A n \in Nat : n \in T => n + 1 \in T
  BY <1>0, TwoToRecursion
<1>3. \A n \in Nat : n \in T
  <2> HIDE DEF T
  <2> QED
    BY <1>1, <1>2, AllNumbers
<1> QED
  BY <1>0, <1>3

(* Blocks and their size: together they are the N points. *)
LEMMA TwoToProduct ==
  \A s \in 0 .. M : TwoTo[s] * TwoTo[M - s] = N
<1>0. M \in Nat /\ N = TwoTo[M]
  BY KernelAssumption
<1> DEFINE T == {n \in Nat : n <= M => TwoTo[n] * TwoTo[M - n] = N}
<1>1. 0 \in T
  BY <1>0, TwoToRecursion, TwoToType
<1>2. ASSUME NEW n \in Nat, n \in T
      PROVE  n + 1 \in T
  <2> SUFFICES ASSUME n + 1 <= M
               PROVE  TwoTo[n + 1] * TwoTo[M - (n + 1)] = N
    OBVIOUS
  <2>1. n + 1 \in 1 .. M /\ M - n \in 1 .. M /\ n \in 0 .. M /\ M - (n + 1) \in 0 .. M
    BY <1>0
  <2>2. TwoTo[n + 1] = 2 * TwoTo[n] /\ TwoTo[M - n] = 2 * TwoTo[M - (n + 1)]
    <3>1. (n + 1) - 1 = n /\ (M - n) - 1 = M - (n + 1)
      BY <1>0
    <3> QED
      BY <2>1, <3>1, TwoToRecursion
  <2>3. TwoTo[n] * TwoTo[M - n] = N
    BY <1>0, <1>2
  <2>4. \A a, b, c, d \in Nat : a = 2 * b /\ c = 2 * d => a * d = b * c
    OBVIOUS
  <2>5. TwoTo[n + 1] * TwoTo[M - (n + 1)] = TwoTo[n] * TwoTo[M - n]
    BY <2>1, <2>2, <2>4, TwoToType
  <2> QED
    BY <2>3, <2>5
<1>3. \A n \in Nat : n \in T
  <2> HIDE DEF T
  <2> QED
    BY <1>1, <1>2, AllNumbers
<1> QED
  BY <1>0, <1>3

LEMMA NFacts ==
  /\ M \in Nat /\ M > 0
  /\ N \in Nat /\ N > 1 /\ N = 2 * (N \div 2) /\ N \div 2 \in Nat /\ N \div 2 > 0
  /\ W \in Nat /\ W = (N \div 2) - 1
  /\ TwoTo[0] = 1 /\ TwoTo[M] = N
  /\ P \in Nat /\ P > 1 /\ Depth \in Nat /\ Depth > 0
<1>1. /\ M \in Nat /\ M > 0 /\ N = TwoTo[M]
      /\ P \in Nat /\ P > 1 /\ Depth \in Nat /\ Depth > 0
  BY KernelAssumption
<1>2. M \in 1 .. M /\ M - 1 \in 0 .. M
  BY <1>1
<1>3. N = 2 * TwoTo[M - 1] /\ TwoTo[M - 1] \in Nat /\ TwoTo[M - 1] > 0
  BY <1>1, <1>2, TwoToRecursion, TwoToType
<1>4. \A a \in Nat : (2 * a) \div 2 = a
  OBVIOUS
<1>5. N \div 2 = TwoTo[M - 1]
  BY <1>3, <1>4
<1> QED
  BY <1>1, <1>3, <1>5, TwoToRecursion DEF W
-----------------------------------------------------------------------------
(***************************************************************************)
(* Types.  What the loops of do_fft know of their counters: an index is a  *)
(* multiple of the size of a pair of half blocks, or one that starts at    *)
(* the column l, and windex is the factor of that column.                  *)
(***************************************************************************)
StageOK ==
  /\ pc = "stage" => len = TwoTo[M - stage] /\ incr = TwoTo[stage]
  /\ pc \in {"first", "rest"} =>
       stage < M /\ len = TwoTo[M - stage - 1] /\ incr = TwoTo[stage]

CountersOK ==
  /\ pc \in {"read", "write"} => index < N
  /\ pc = "clear" => index = 0
  /\ pc = "twiddle" => index <= W
  /\ pc = "first" => \E k \in 0 .. incr : index = k * (2 * len)
  /\ pc = "rest" => /\ l <= len /\ windex + 1 = l * incr
                    /\ \E k \in 0 .. incr : index = l + k * (2 * len)

FifosOK ==
  /\ format \in Formats
  /\ input \in [0 .. N - 1 -> Complex]
  /\ inFifo \in Seq(Complex)
  /\ outFifo \in Seq(Complex \union Outside)

TypeInv == TypeOK /\ StageOK /\ CountersOK /\ FifosOK

LEMMA NumbersFacts ==
  ASSUME format \in Formats
  PROVE  /\ format \in {"exact", "fixed"}
         /\ Complex \subseteq Int \X Int
         /\ Zero \in Complex
         /\ Turn(format) \in Complex
         /\ Inputs(format) \subseteq [0 .. N - 1 -> Complex]
<1>1. format \in {"exact", "fixed"}
  BY KernelAssumption
<1>2. Numbers(format) \subseteq Int /\ 0 \in Numbers(format)
  BY <1>1, NFacts DEF Numbers
<1> QED
  BY <1>1, <1>2, NumbersAssumption DEF Complex, Zero

LEMMA WordsType ==
  ASSUME format \in Formats, NEW a \in Int \X Int
  PROVE  Word(a) \in Complex /\ Assembled(a) \in Complex /\ Cut(a) \in Int \X Int
<1>1. PICK u \in Int, v \in Int : a = <<u, v>>
  OBVIOUS
<1>2. CASE format = "exact"
  <2>1. \A z \in Int : z % P \in 0 .. P - 1
    BY NFacts
  <2>2. Exactly(a) \in Complex
    BY <1>1, <1>2, <2>1 DEF Exactly, Complex, Numbers
  <2> QED
    BY <1>2, <2>2 DEF Word, Assembled, Cut
<1>3. CASE format = "fixed"
  <2>1. \A z \in Int : Int16(z) \in Numbers(format) /\ SignAndBits(z) \in Numbers(format)
    BY <1>3 DEF Int16, SignAndBits, Numbers
  <2>2. Word(a) \in Complex /\ Assembled(a) \in Complex
    BY <1>1, <1>3, <2>1 DEF Word, Assembled, Complex
  <2>3. Scale \in Nat /\ Scale > 0
    BY KernelAssumption
  <2>4. \A z \in Int, s \in Nat : s > 0 => z \div s \in Int
    OBVIOUS
  <2>5. Cut(a) \in Int \X Int
    BY <1>1, <1>3, <2>3, <2>4 DEF Cut
  <2> QED
    BY <2>2, <2>5
<1> QED
  BY <1>2, <1>3, NumbersFacts

LEMMA PairsType ==
  ASSUME NEW a \in Int \X Int, NEW b \in Int \X Int
  PROVE  Plus(a, b) \in Int \X Int /\ Minus(a, b) \in Int \X Int /\ Product(a, b) \in Int \X Int
<1>1. PICK a1 \in Int, a2 \in Int, b1 \in Int, b2 \in Int : a = <<a1, a2>> /\ b = <<b1, b2>>
  OBVIOUS
<1>2. \A u, v \in Int : u * v \in Int
  OBVIOUS
<1> QED
  BY <1>1, <1>2 DEF Plus, Minus, Product

LEMMA TimesType ==
  ASSUME format \in Formats, NEW a \in Int \X Int, NEW b \in Int \X Int
  PROVE  Times(a, b) \in Complex
<1>1. Cut(Product(a, b)) \in Int \X Int
  BY PairsType, WordsType
<1> QED
  BY <1>1, WordsType DEF Times

LEMMA TypeInvInit == Init => TypeInv
<1> SUFFICES ASSUME Init
             PROVE  TypeInv
  OBVIOUS
<1> USE NFacts
<1>1. format \in Formats /\ input \in [0 .. N - 1 -> Complex] /\ Zero \in Complex
  BY NumbersFacts DEF Init
<1>2. TypeOK
  <2>1. {len, incr} \subseteq {TwoTo[s] : s \in 0 .. M}
    BY DEF Init
  <2> QED
    BY <1>1, <2>1 DEF Init, TypeOK
<1> QED
  BY <1>1, <1>2 DEF Init, TypeInv, StageOK, CountersOK, FifosOK

(* Of K blocks of 2 * H points, the k-th: where its l-th pair lies. *)
LEMMA InBlock ==
  ASSUME NEW H \in Nat, H > 0, NEW K \in Nat, NEW k \in 0 .. K, NEW c \in 0 .. H - 1,
         c + k * (2 * H) < K * (2 * H)
  PROVE  k < K /\ (k + 1) * (2 * H) <= K * (2 * H) /\ c + k * (2 * H) + H < K * (2 * H)
<1>1. k # K
  OBVIOUS
<1>2. k + 1 <= K
  BY <1>1
<1>3. \A a, b, d \in Nat : a <= b => a * d <= b * d
  OBVIOUS
<1>4. (k + 1) * (2 * H) <= K * (2 * H)
  BY <1>2, <1>3
<1>5. (k + 1) * (2 * H) = k * (2 * H) + 2 * H
  OBVIOUS
<1>6. k * (2 * H) \in Nat /\ K * (2 * H) \in Nat
  OBVIOUS
<1> QED
  BY <1>2, <1>4, <1>5, <1>6

(* The sizes while a stage is on. *)
LEMMA StageFacts ==
  ASSUME TypeInv, pc \in {"first", "rest"}
  PROVE  /\ len \in Nat /\ len > 0 /\ incr \in Nat /\ incr > 0
         /\ stage \in Nat /\ stage + 1 \in 1 .. M
         /\ incr = TwoTo[stage] /\ TwoTo[stage + 1] = 2 * incr
         /\ len = TwoTo[M - (stage + 1)] /\ TwoTo[M - stage] = 2 * len
         /\ incr * (2 * len) = N /\ incr * len = N \div 2
<1>1. /\ stage \in Nat /\ stage + 1 \in 1 .. M /\ M - stage \in 1 .. M
      /\ stage \in 0 .. M /\ M - (stage + 1) \in 0 .. M
      /\ M - stage - 1 = M - (stage + 1) /\ (stage + 1) - 1 = stage
  BY NFacts DEF TypeInv, TypeOK, StageOK
<1>2. incr = TwoTo[stage] /\ len = TwoTo[M - (stage + 1)]
  BY <1>1 DEF TypeInv, StageOK
<1>3. TwoTo[stage + 1] = 2 * incr /\ TwoTo[M - stage] = 2 * len
  BY <1>1, <1>2, TwoToRecursion
<1>4. len \in Nat /\ len > 0 /\ incr \in Nat /\ incr > 0
  BY <1>1, <1>2, TwoToType
<1>5. incr * (2 * len) = N
  BY <1>1, <1>2, <1>3, TwoToProduct
<1>6. \A a, b \in Nat : a * (2 * b) = 2 * (a * b) /\ (2 * (a * b)) \div 2 = a * b
  OBVIOUS
<1>7. incr * len = N \div 2
  BY <1>4, <1>5, <1>6
<1> QED
  BY <1>1, <1>2, <1>3, <1>4, <1>5, <1>7

LEMMA FifoTypes ==
  ASSUME NEW S, NEW q \in Seq(S)
  PROVE  /\ Len(q) \in Nat
         /\ \A v \in S : Append(q, v) \in Seq(S) /\ Len(Append(q, v)) = Len(q) + 1
         /\ q # <<>> => Head(q) \in S /\ Tail(q) \in Seq(S) /\ Len(Tail(q)) = Len(q) - 1
OBVIOUS

LEMMA Stored ==
  ASSUME NEW S, NEW n, NEW f \in [0 .. n -> S], NEW i, NEW v \in S
  PROVE  [f EXCEPT ![i] = v] \in [0 .. n -> S]
OBVIOUS

(* The steps that take one element of the input or of the array. *)
LEMMA TypeInvMoves ==
  ASSUME TypeInv, Feed \/ Fetch \/ ReadSample \/ WriteResult \/ UNCHANGED vars
  PROVE  TypeInv'
<1> USE NFacts DEF TypeInv
<1>1. CASE UNCHANGED vars
  BY <1>1 DEF vars, loop, bench, TypeOK, StageOK, CountersOK, FifosOK, Complex
<1>2. CASE Feed
  <2>1. input[fed] \in Complex
    BY DEF FifosOK, TypeOK
  <2>2. inFifo' \in Seq(Complex) /\ Len(inFifo') <= Depth
    BY <1>2, <2>1, FifoTypes DEF Feed, FifosOK
  <2>3. fed' \in 0 .. N - 1
    BY <1>2 DEF Feed, TypeOK
  <2>4. TypeOK'
    BY <1>2, <2>2, <2>3 DEF Feed, TypeOK, Complex, loop
  <2> QED
    BY <1>2, <2>2, <2>4 DEF Feed, loop, StageOK, CountersOK, FifosOK, Complex
<1>3. CASE Fetch
  <2>1. outFifo' \in Seq(Complex \union Outside) /\ Len(outFifo') <= Depth
    BY <1>3, FifoTypes DEF Fetch, FifosOK, TypeOK
  <2>2. fetched' \in 0 .. N - 1
    BY <1>3 DEF Fetch, TypeOK
  <2>3. TypeOK'
    BY <1>3, <2>1, <2>2 DEF Fetch, TypeOK, Complex, loop
  <2> QED
    BY <1>3, <2>1, <2>3 DEF Fetch, loop, StageOK, CountersOK, FifosOK, Complex
<1>4. CASE ReadSample
  <2> USE <1>4 DEF ReadSample, loop, bench
  <2>1. Head(inFifo) \in Complex /\ inFifo' \in Seq(Complex) /\ Len(inFifo') <= Depth
    BY FifoTypes DEF FifosOK, TypeOK
  <2>2. x' \in [0 .. N - 1 -> Complex]
    BY <2>1, Stored DEF TypeOK
  <2>3. index \in 0 .. N - 1 /\ pc = "read"
    BY DEF TypeOK, CountersOK
  <2>4. /\ index' \in 0 .. N - 1 /\ pc' \in {"read", "clear"}
        /\ pc' = "clear" => index' = 0
    BY <2>3
  <2>5. TypeOK'
    BY <2>1, <2>2, <2>4 DEF TypeOK, Complex
  <2> QED
    BY <2>1, <2>4, <2>5 DEF StageOK, CountersOK, FifosOK, Complex
<1>5. CASE WriteResult
  <2> USE <1>5 DEF WriteResult, loop, bench
  <2>1. PICK word \in (IF Reversed(index) < N THEN {x[Reversed(index)]} ELSE Outside) :
          outFifo' = Append(outFifo, word)
    OBVIOUS
  <2>2. index \in 0 .. N - 1 /\ pc = "write"
    BY DEF TypeOK, CountersOK
  <2>3. Reversed(index) \in Nat
    <3>1. \A z \in Nat : z % 2 \in Nat
      OBVIOUS
    <3>2. Bit(index, 0) \in Nat /\ Bit(index, 1) \in Nat /\ Bit(index, 2) \in Nat
          /\ Bit(index, 3) \in Nat
      BY <2>2, <3>1 DEF Bit
    <3> QED
      BY <3>2 DEF Reversed
  <2>4. word \in Complex \union Outside
    BY <2>1, <2>3 DEF TypeOK
  <2>5. outFifo' \in Seq(Complex \union Outside) /\ Len(outFifo') <= Depth
    BY <2>1, <2>4, FifoTypes DEF FifosOK
  <2>6. index' \in 0 .. N - 1 /\ pc' \in {"read", "write"}
    BY <2>2
  <2>7. TypeOK'
    BY <2>5, <2>6 DEF TypeOK, Complex
  <2> QED
    BY <2>5, <2>6, <2>7 DEF StageOK, CountersOK, FifosOK, Complex
<1> QED
  BY <1>1, <1>2, <1>3, <1>4, <1>5

(* The twiddle factors. *)
LEMMA TypeInvTwiddles ==
  ASSUME TypeInv, ClearTwiddles \/ MakeTwiddle \/ StartStages
  PROVE  TypeInv'
<1> USE NFacts DEF TypeInv
<1>0. /\ format \in Formats /\ One \in Int \X Int
      /\ Zero \in Complex /\ Complex \subseteq Int \X Int /\ Turn(format) \in Complex
  <2>1. Scale \in Int
    BY KernelAssumption
  <2> QED
    BY <2>1, NumbersFacts DEF FifosOK, One
<1>1. CASE ClearTwiddles
  <2> USE <1>1 DEF ClearTwiddles, loop, bench
  <2>1. [tf EXCEPT ![0][2] = 0] \in [0 .. W - 1 -> Complex]
    <3>1. \A a \in Complex : [a EXCEPT ![2] = 0] \in Complex
      <4>1. \A S : 0 \in S => \A a \in S \X S : [a EXCEPT ![2] = 0] \in S \X S
        OBVIOUS
      <4>2. 0 \in Numbers(format)
        BY <1>0 DEF Zero, Complex
      <4> QED
        BY <4>1, <4>2 DEF Complex
    <3>2. CASE W = 0
      <4>1. 0 \notin DOMAIN tf
        BY <3>2 DEF TypeOK
      <4>2. [tf EXCEPT ![0][2] = 0] = tf
        <5>1. \A f, v : f = [i \in DOMAIN f |-> f[i]] /\ 0 \notin DOMAIN f => [f EXCEPT ![0] = v] = f
          OBVIOUS
        <5>2. tf = [i \in DOMAIN tf |-> tf[i]]
          BY DEF TypeOK
        <5> QED
          BY <4>1, <5>1, <5>2
      <4> QED
        BY <4>2 DEF TypeOK
    <3>3. CASE W # 0
      <4>1. tf[0] \in Complex
        BY <3>3 DEF TypeOK
      <4>2. [tf[0] EXCEPT ![2] = 0] \in Complex
        BY <3>1, <4>1
      <4>3. [tf EXCEPT ![0] = [tf[0] EXCEPT ![2] = 0]] \in [0 .. W - 1 -> Complex]
        BY <4>2, Stored DEF TypeOK
      <4> QED
        BY <4>3
    <3> QED
      BY <3>2, <3>3
  <2>2. tf' \in [0 .. W - 1 -> Complex]
    BY <1>0, <2>1 DEF TypeOK
  <2>3. pc' = "twiddle" /\ index' = 0
    BY DEF CountersOK
  <2>4. TypeOK'
    BY <2>2, <2>3 DEF TypeOK, Complex
  <2> QED
    BY <2>3, <2>4 DEF StageOK, CountersOK, FifosOK, Complex
<1>2. CASE MakeTwiddle
  <2> USE <1>2 DEF MakeTwiddle, loop, bench
  <2>1. pc = "twiddle" /\ index \in 0 .. W - 1
    BY DEF TypeOK
  <2>2. (IF index = 0 THEN One ELSE tf[index - 1]) \in Int \X Int
    <3>1. index # 0 => index - 1 \in 0 .. W - 1
      BY <2>1
    <3>2. \A i \in 0 .. W - 1 : tf[i] \in Int \X Int
      BY <1>0 DEF TypeOK
    <3> QED
      BY <1>0, <3>1, <3>2
  <2>3. TurnedOn(IF index = 0 THEN One ELSE tf[index - 1]) \in Complex
    BY <1>0, <2>2, TimesType DEF TurnedOn
  <2>4. tf' \in [0 .. W - 1 -> Complex]
    BY <2>3, Stored DEF TypeOK
  <2>5. pc' = "twiddle" /\ index' \in 0 .. W
    BY <2>1
  <2>6. TypeOK'
    BY <2>4, <2>5 DEF TypeOK, Complex
  <2> QED
    BY <2>5, <2>6 DEF StageOK, CountersOK, FifosOK, Complex
<1>3. CASE StartStages
  <2> USE <1>3 DEF StartStages, loop, bench
  <2>1. {len', incr'} \subseteq {TwoTo[s] : s \in 0 .. M}
    OBVIOUS
  <2>2. stage' \in 0 .. M /\ index' \in 0 .. 2 * N /\ x' = x /\ tf' = tf
    BY DEF TypeOK
  <2>3. TypeOK'
    BY <2>1, <2>2 DEF TypeOK, Complex
  <2> QED
    BY <2>3 DEF StageOK, CountersOK, FifosOK, Complex
<1> QED
  BY <1>1, <1>2, <1>3

(* The stages: how the counters move. *)
LEMMA TypeInvStages ==
  ASSUME TypeInv, StartStage \/ EndStage \/ EndStages
  PROVE  TypeInv'
<1> USE NFacts DEF TypeInv
<1>1. CASE StartStage
  <2> USE <1>1 DEF StartStage, loop, bench
  <2>1. /\ stage \in Nat /\ stage < M /\ M - stage \in 1 .. M /\ M - stage - 1 \in 0 .. M
        /\ stage \in 0 .. M /\ M - stage \in 0 .. M
    BY DEF TypeOK
  <2>2. len = TwoTo[M - stage] /\ incr = TwoTo[stage]
    BY DEF StageOK
  <2>3. len = 2 * TwoTo[M - stage - 1]
    BY <2>1, <2>2, TwoToRecursion
  <2>4. TwoTo[M - stage - 1] \in Nat /\ incr \in Nat
    BY <2>1, <2>2, TwoToType
  <2>5. \A a \in Nat : (2 * a) \div 2 = a
    OBVIOUS
  <2>6. len' = TwoTo[M - stage - 1]
    BY <2>3, <2>4, <2>5
  <2>7. {len', incr'} \subseteq {TwoTo[s] : s \in 0 .. M}
    BY <2>1, <2>2, <2>6
  <2>8. TypeOK'
    BY <2>7 DEF TypeOK, Complex
  <2>9. StageOK'
    BY <2>1, <2>2, <2>6 DEF StageOK
  <2>10. index' = 0 * (2 * len') /\ 0 \in 0 .. incr' /\ pc' = "first"
    BY <2>4, <2>6
  <2>11. CountersOK'
    BY <2>10 DEF CountersOK
  <2> QED
    BY <2>8, <2>9, <2>11 DEF FifosOK, Complex
<1>2. CASE EndStage
  <2> USE <1>2 DEF EndStage, loop, bench
  <2>1. /\ stage + 1 \in 1 .. M /\ stage \in Nat /\ len = TwoTo[M - (stage + 1)]
        /\ TwoTo[stage + 1] = 2 * incr
    BY StageFacts
  <2>2. incr' = TwoTo[stage'] /\ len' = TwoTo[M - stage'] /\ stage' \in 0 .. M
    BY <2>1
  <2>3. {len', incr'} \subseteq {TwoTo[s] : s \in 0 .. M}
    BY <2>2
  <2>4. TypeOK'
    BY <2>2, <2>3 DEF TypeOK, Complex
  <2> QED
    BY <2>2, <2>4 DEF StageOK, CountersOK, FifosOK, Complex
<1>3. CASE EndStages
  <2> USE <1>3 DEF EndStages, loop, bench
  <2>1. {len', incr'} \subseteq {TwoTo[s] : s \in 0 .. M} /\ index' \in 0 .. 2 * N
    BY DEF TypeOK
  <2>2. TypeOK'
    BY <2>1 DEF TypeOK, Complex
  <2> QED
    BY <2>2 DEF StageOK, CountersOK, FifosOK, Complex
<1> QED
  BY <1>1, <1>2, <1>3

(* The butterflies stay inside the arrays. *)
LEMMA FirstButterflyBounds ==
  ASSUME TypeInv, pc = "first", index < N
  PROVE  \E k \in 0 .. incr - 1 :
           /\ index = k * (2 * len) /\ index + 2 * len = (k + 1) * (2 * len)
           /\ index \in 0 .. N - 1 /\ index + len \in 0 .. N - 1 /\ index + 2 * len <= N
<1>1. /\ len \in Nat /\ len > 0 /\ incr \in Nat /\ incr * (2 * len) = N
  BY StageFacts
<1>2. PICK k \in 0 .. incr : index = k * (2 * len)
  BY DEF TypeInv, CountersOK
<1>3. index \in Nat
  BY NFacts DEF TypeInv, TypeOK
<1>4. 0 \in 0 .. len - 1 /\ 0 + k * (2 * len) < incr * (2 * len)
  BY <1>1, <1>2, <1>3
<1>5. k < incr /\ (k + 1) * (2 * len) <= N /\ k * (2 * len) + len < N
  BY <1>1, <1>4, InBlock
<1>6. (k + 1) * (2 * len) = k * (2 * len) + 2 * len
  BY <1>1
<1> QED
  BY <1>1, <1>2, <1>3, <1>5, <1>6

LEMMA ButterflyBounds ==
  ASSUME TypeInv, pc = "rest", l < len, index < N
  PROVE  \E k \in 0 .. incr - 1 :
           /\ index = l + k * (2 * len) /\ index + 2 * len = l + (k + 1) * (2 * len)
           /\ index \in 0 .. N - 1 /\ index + len \in 0 .. N - 1 /\ index + 2 * len <= N + l
           /\ windex \in 0 .. W - 1
<1>1. /\ len \in Nat /\ len > 0 /\ incr \in Nat /\ incr > 0
      /\ incr * (2 * len) = N /\ incr * len = N \div 2
  BY StageFacts
<1>2. PICK k \in 0 .. incr : index = l + k * (2 * len)
  BY DEF TypeInv, CountersOK
<1>3. index \in Nat /\ l \in Nat /\ l >= 1 /\ windex \in Nat
  BY NFacts DEF TypeInv, TypeOK
<1>4. l \in 0 .. len - 1 /\ l + k * (2 * len) < incr * (2 * len)
  BY <1>1, <1>2, <1>3
<1>5. k < incr /\ (k + 1) * (2 * len) <= N /\ l + k * (2 * len) + len < N
  BY <1>1, <1>4, InBlock
<1>6. (k + 1) * (2 * len) = k * (2 * len) + 2 * len
  BY <1>1
<1>7. windex \in 0 .. W - 1
  <2>1. windex + 1 = l * incr
    BY DEF TypeInv, CountersOK
  <2>2. l * incr < len * incr
    <3>1. \A a, b, c \in Nat : a < b /\ c > 0 => a * c < b * c
      OBVIOUS
    <3> QED
      BY <1>1, <1>3, <3>1
  <2>3. len * incr = N \div 2
    BY <1>1
  <2> QED
    BY <1>3, <2>1, <2>2, <2>3, NFacts
<1> QED
  BY <1>1, <1>2, <1>3, <1>5, <1>6, <1>7

LEMMA TypeInvButterflies ==
  ASSUME TypeInv, FirstButterfly \/ StartColumns \/ Butterfly \/ NextColumn
  PROVE  TypeInv'
<1> USE NFacts DEF TypeInv
<1>0. pc \in {"first", "rest"}
  BY DEF FirstButterfly, StartColumns, Butterfly, NextColumn
<1>1. /\ len \in Nat /\ len > 0 /\ incr \in Nat /\ incr > 0
      /\ incr * (2 * len) = N /\ incr * len = N \div 2 /\ len <= N
  <2>1. \A a, b \in Nat : a > 0 => b <= a * (2 * b)
    OBVIOUS
  <2> QED
    BY <1>0, <2>1, StageFacts
<1>2. format \in Formats /\ x \in [0 .. N - 1 -> Complex] /\ Complex \subseteq Int \X Int
      /\ tf \in [0 .. W - 1 -> Complex]
  BY NumbersFacts DEF FifosOK, TypeOK
<1>3. CASE FirstButterfly
  <2> USE <1>3 DEF FirstButterfly, loop, bench
  <2>1. PICK k \in 0 .. incr - 1 :
           /\ index = k * (2 * len) /\ index + 2 * len = (k + 1) * (2 * len)
           /\ index \in 0 .. N - 1 /\ index + len \in 0 .. N - 1 /\ index + 2 * len <= N
    BY FirstButterflyBounds
  <2>2. x[index] \in Int \X Int /\ x[index + len] \in Int \X Int
    BY <1>2, <2>1
  <2>3. /\ Word(Plus(x[index], x[index + len])) \in Complex
        /\ Word(Minus(x[index], x[index + len])) \in Complex
    BY <1>2, <2>2, PairsType, WordsType
  <2>4. x' \in [0 .. N - 1 -> Complex]
    BY <1>2, <2>3, Stored
  <2>5. index' = (k + 1) * (2 * len) /\ k + 1 \in 0 .. incr /\ index' \in 0 .. N
    BY <1>1, <2>1
  <2>6. TypeOK'
    <3>1. index' \in 0 .. 2 * N
      BY <2>5
    <3>2. len' = len /\ incr' = incr
      OBVIOUS
    <3>3. {len', incr'} \subseteq {TwoTo[s] : s \in 0 .. M}
      BY <3>2 DEF TypeOK
    <3> QED
      BY <2>4, <3>1, <3>3 DEF TypeOK, Complex
  <2>7. CountersOK'
    BY <2>5 DEF CountersOK
  <2> QED
    BY <2>6, <2>7 DEF StageOK, FifosOK, Complex
<1>4. CASE StartColumns
  <2> USE <1>4 DEF StartColumns, loop, bench
  <2>1. windex' = incr - 1 /\ windex' + 1 = l' * incr' /\ index' = l' + 0 * (2 * len')
        /\ 0 \in 0 .. incr' /\ l' <= len' /\ pc' = "rest"
    BY <1>1
  <2>2. incr - 1 \in 0 .. N
    <3>1. \A a, b \in Nat : b > 0 => a <= a * (2 * b)
      OBVIOUS
    <3> QED
      BY <1>1, <3>1
  <2>3. TypeOK'
    BY <2>1, <2>2 DEF TypeOK, Complex
  <2>4. CountersOK'
    BY <2>1 DEF CountersOK
  <2> QED
    BY <2>3, <2>4 DEF StageOK, FifosOK, Complex
<1>5. CASE Butterfly
  <2> USE <1>5 DEF Butterfly, loop, bench
  <2>1. PICK k \in 0 .. incr - 1 :
           /\ index = l + k * (2 * len) /\ index + 2 * len = l + (k + 1) * (2 * len)
           /\ index \in 0 .. N - 1 /\ index + len \in 0 .. N - 1 /\ index + 2 * len <= N + l
           /\ windex \in 0 .. W - 1
    BY ButterflyBounds
  <2>2. x[index] \in Int \X Int /\ x[index + len] \in Int \X Int /\ tf[windex] \in Int \X Int
    BY <1>2, <2>1
  <2>3. /\ Assembled(Plus(x[index], x[index + len])) \in Complex
        /\ Times(Minus(x[index], x[index + len]), tf[windex]) \in Complex
    BY <1>2, <2>2, PairsType, WordsType, TimesType
  <2>4. x' \in [0 .. N - 1 -> Complex]
    BY <1>2, <2>3, Stored
  <2>5. index' = l + (k + 1) * (2 * len) /\ k + 1 \in 0 .. incr /\ index' \in 0 .. 2 * N
    BY <1>1, <2>1 DEF TypeOK
  <2>6. TypeOK'
    BY <2>4, <2>5 DEF TypeOK, Complex
  <2>7. CountersOK'
    BY <2>5 DEF CountersOK
  <2> QED
    BY <2>6, <2>7 DEF StageOK, FifosOK, Complex
<1>6. CASE NextColumn
  <2> USE <1>6 DEF NextColumn, loop, bench
  <2>1. l \in Nat /\ l >= 1 /\ windex \in Nat /\ windex + 1 = l * incr
    BY DEF TypeOK, CountersOK
  <2>2. l' = l + 1 /\ l' <= len /\ l' \in 1 .. N
    BY <1>1, <2>1
  <2>3. (l + 1) * incr = l * incr + incr /\ (l + 1) * incr <= N \div 2
    <3>1. \A a, b, c \in Nat : a <= b => a * c <= c * b
      OBVIOUS
    <3> QED
      BY <1>1, <2>1, <2>2, <3>1
  <2>4. windex' + 1 = l' * incr' /\ windex' \in 0 .. N
    BY <1>1, <2>1, <2>2, <2>3
  <2>5. index' = l' + 0 * (2 * len') /\ 0 \in 0 .. incr' /\ index' \in 0 .. 2 * N
    BY <1>1, <2>2
  <2>6. TypeOK'
    BY <2>2, <2>4, <2>5 DEF TypeOK, Complex
  <2>7. CountersOK'
    BY <2>2, <2>4, <2>5 DEF CountersOK
  <2> QED
    BY <2>6, <2>7 DEF StageOK, FifosOK, Complex
<1> QED
  BY <1>3, <1>4, <1>5, <1>6

LEMMA TypeInvStep == TypeInv /\ [Next]_vars => TypeInv'
<1> SUFFICES ASSUME TypeInv, [Next]_vars
             PROVE  TypeInv'
  OBVIOUS
<1> QED
  BY TypeInvMoves, TypeInvTwiddles, TypeInvStages, TypeInvButterflies DEF Next, DoFft

LEMMA SpecTypeInv == Spec => []TypeInv
BY TypeInvInit, TypeInvStep, PTL DEF Spec

(* No loop of do_fft leaves its arrays or overruns its counters, and the   *)
(* numbers keep their format, whatever the transform's size.               *)
THEOREM TypeCorrect == Spec => []TypeOK
<1>1. TypeInv => TypeOK
  BY DEF TypeInv
<1> QED
  BY <1>1, SpecTypeInv, PTL

(* The second word of a butterfly and its factor are inside the arrays     *)
(* whenever one is computed.                                               *)
ArraysKept ==
  /\ pc = "first" /\ index < N => index + len < N
  /\ pc = "rest" /\ l < len /\ index < N => index + len < N /\ windex < W

(* No butterfly reads or writes outside real[], imag[], W_real[] and       *)
(* W_imag[], whatever the transform's size.                                *)
THEOREM NoButterflyOutside == Spec => []ArraysKept
<1>1. TypeInv => ArraysKept
  BY NFacts, FirstButterflyBounds, ButterflyBounds DEF ArraysKept
<1> QED
  BY <1>1, SpecTypeInv, PTL
-----------------------------------------------------------------------------
(***************************************************************************)
(* Numbers modulo P.  Exact is the set of them, Alike says that two pairs  *)
(* of integers are one number.                                             *)
(***************************************************************************)
Z == Int \X Int
Exact == (0 .. P - 1) \X (0 .. P - 1)
Alike(a, b) == Exactly(a) = Exactly(b)

Congruent(u, v, p) == u % p = v % p

LEMMA RemainderIs ==
  ASSUME NEW p \in Nat, p > 0, NEW w \in Int, NEW q \in Int, NEW r \in 0 .. p - 1, w = p * q + r
  PROVE  w % p = r
OBVIOUS

LEMMA Remainders ==
  ASSUME NEW p \in Nat, p > 0, NEW u \in Int, NEW v \in Int
  PROVE  /\ u % p \in 0 .. p - 1
         /\ (u % p) % p = u % p
         /\ Congruent(u, v, p) <=> \E q \in Int : u = v + p * q
         /\ Congruent(u, v, p) <=> (u - v) % p = 0
<1>1. /\ u % p \in 0 .. p - 1 /\ v % p \in 0 .. p - 1
      /\ u \div p \in Int /\ v \div p \in Int
      /\ u = p * (u \div p) + (u % p) /\ v = p * (v \div p) + (v % p)
  OBVIOUS
<1>2. \A w \in Int, q \in Int, r \in 0 .. p - 1 : w = p * q + r => w % p = r
  BY RemainderIs
<1>3. (u % p) % p = u % p
  BY <1>1
<1>4. ASSUME u % p = v % p
      PROVE  u = v + p * ((u \div p) - (v \div p)) /\ (u \div p) - (v \div p) \in Int
  <2>1. PICK a \in Int, b \in Int, r \in Int : a = u \div p /\ b = v \div p /\ r = u % p
    BY <1>1
  <2>2. u = p * a + r /\ v = p * b + r
    BY <1>1, <1>4, <2>1
  <2>3. u = v + p * (a - b)
    BY <2>2
  <2> QED
    BY <2>1, <2>3
<1>5. ASSUME NEW q \in Int, u = v + p * q
      PROVE  u % p = v % p
  <2>1. PICK b \in Int, r \in 0 .. p - 1 : b = v \div p /\ r = v % p
    BY <1>1
  <2>2. v = p * b + r
    BY <1>1, <2>1
  <2>3. u = p * (b + q) + r /\ b + q \in Int
    BY <1>5, <2>2
  <2> QED
    BY <1>2, <2>1, <2>3
<1>6. ASSUME NEW q \in Int, u = v + p * q
      PROVE  (u - v) % p = 0
  <2>1. u - v = p * q + 0 /\ u - v \in Int /\ 0 \in 0 .. p - 1
    BY <1>6
  <2> QED
    BY <1>2, <2>1
<1>7. ASSUME (u - v) % p = 0
      PROVE  \E q \in Int : u = v + p * q
  <2>1. u - v = p * ((u - v) \div p) + ((u - v) % p) /\ (u - v) \div p \in Int
    OBVIOUS
  <2>2. PICK q \in Int : q = (u - v) \div p
    BY <2>1
  <2>3. u - v = p * q
    BY <1>7, <2>1, <2>2
  <2> QED
    BY <2>3
<1> QED
  BY <1>1, <1>3, <1>4, <1>5, <1>6, <1>7 DEF Congruent

LEMMA RemainderSums ==
  ASSUME NEW p \in Nat, p > 0, NEW u \in Int, NEW v \in Int, NEW u1 \in Int, NEW v1 \in Int,
         Congruent(u, u1, p), Congruent(v, v1, p)
  PROVE  /\ Congruent(u + v, u1 + v1, p)
         /\ Congruent(u - v, u1 - v1, p)
         /\ Congruent(u * v, u1 * v1, p)
<1>1. PICK a \in Int : u = u1 + p * a
  BY Remainders
<1>2. PICK b \in Int : v = v1 + p * b
  BY Remainders
<1>3. /\ u + v = (u1 + v1) + p * (a + b)
      /\ u - v = (u1 - v1) + p * (a - b)
  BY <1>1, <1>2
<1>4. u * v = (u1 * v1) + p * (a * v1 + u1 * b + a * b * p)
  BY <1>1, <1>2
<1>5. PICK q \in Int, m \in Int, m1 \in Int :
        q = a * v1 + u1 * b + a * b * p /\ m = u * v /\ m1 = u1 * v1
  OBVIOUS
<1>6. Congruent(m, m1, p)
  BY <1>4, <1>5, Remainders
<1>7. Congruent(u + v, u1 + v1, p)
  <2>1. PICK s \in Int, s1 \in Int, t \in Int : s = u + v /\ s1 = u1 + v1 /\ t = a + b
    OBVIOUS
  <2>2. s = s1 + p * t
    BY <1>3, <2>1
  <2> QED
    BY <2>1, <2>2, Remainders
<1>8. Congruent(u - v, u1 - v1, p)
  <2>1. PICK s \in Int, s1 \in Int, t \in Int : s = u - v /\ s1 = u1 - v1 /\ t = a - b
    OBVIOUS
  <2>2. s = s1 + p * t
    BY <1>3, <2>1
  <2> QED
    BY <2>1, <2>2, Remainders
<1> QED
  BY <1>5, <1>6, <1>7, <1>8

LEMMA AlikeParts ==
  ASSUME NEW a \in Z, NEW b \in Z
  PROVE  Alike(a, b) <=> Congruent(a[1], b[1], P) /\ Congruent(a[2], b[2], P)
BY DEF Alike, Exactly, Congruent, Z

LEMMA AlikeExactly ==
  ASSUME NEW a \in Z
  PROVE  /\ Exactly(a) \in Exact /\ Exactly(a) \in Z /\ Alike(Exactly(a), a)
         /\ a \in Exact => Exactly(a) = a
<1>1. PICK u \in Int, v \in Int : a = <<u, v>>
  BY DEF Z
<1>2. /\ u % P \in 0 .. P - 1 /\ (u % P) % P = u % P
      /\ v % P \in 0 .. P - 1 /\ (v % P) % P = v % P
  BY NFacts, Remainders
<1>3. Exactly(a) = <<u % P, v % P>>
  BY <1>1 DEF Exactly
<1>4. \A w \in 0 .. P - 1 : w % P = w
  BY NFacts
<1> QED
  BY <1>1, <1>2, <1>3, <1>4 DEF Exact, Alike, Exactly, Z

LEMMA OperationsType ==
  ASSUME NEW a \in Z, NEW b \in Z
  PROVE  Plus(a, b) \in Z /\ Minus(a, b) \in Z /\ Product(a, b) \in Z
BY PairsType DEF Z

LEMMA AlikeOperations ==
  ASSUME NEW a \in Z, NEW b \in Z, NEW c \in Z, NEW d \in Z, Alike(a, c), Alike(b, d)
  PROVE  /\ Alike(Plus(a, b), Plus(c, d))
         /\ Alike(Minus(a, b), Minus(c, d))
         /\ Alike(Product(a, b), Product(c, d))
<1>1. PICK a1 \in Int, a2 \in Int : a = <<a1, a2>>
  BY DEF Z
<1>2. PICK b1 \in Int, b2 \in Int : b = <<b1, b2>>
  BY DEF Z
<1>3. PICK c1 \in Int, c2 \in Int : c = <<c1, c2>>
  BY DEF Z
<1>4. PICK d1 \in Int, d2 \in Int : d = <<d1, d2>>
  BY DEF Z
<1> DEFINE same(u, v) == Congruent(u, v, P)
<1>5. same(a1, c1) /\ same(a2, c2) /\ same(b1, d1) /\ same(b2, d2)
  BY <1>1, <1>2, <1>3, <1>4, AlikeParts
<1>0. ASSUME NEW u \in Int, NEW v \in Int, NEW u1 \in Int, NEW v1 \in Int,
             same(u, u1), same(v, v1)
      PROVE  same(u + v, u1 + v1) /\ same(u - v, u1 - v1) /\ same(u * v, u1 * v1)
  <2>1. P \in Nat /\ P > 0
    BY NFacts
  <2> QED
    BY <1>0, <2>1, RemainderSums
<1> HIDE DEF same
<1>6. /\ same(a1 + b1, c1 + d1) /\ same(a2 + b2, c2 + d2)
      /\ same(a1 - b1, c1 - d1) /\ same(a2 - b2, c2 - d2)
      /\ same(a1 * b1, c1 * d1) /\ same(a2 * b2, c2 * d2)
      /\ same(a1 * b2, c1 * d2) /\ same(a2 * b1, c2 * d1)
  BY <1>0, <1>5
<1>7. PICK m1 \in Int, m2 \in Int, m3 \in Int, m4 \in Int :
        m1 = a1 * b1 /\ m2 = a2 * b2 /\ m3 = a1 * b2 /\ m4 = a2 * b1
  OBVIOUS
<1>8. PICK n1 \in Int, n2 \in Int, n3 \in Int, n4 \in Int :
        n1 = c1 * d1 /\ n2 = c2 * d2 /\ n3 = c1 * d2 /\ n4 = c2 * d1
  OBVIOUS
<1>9. same(m1 - m2, n1 - n2) /\ same(m3 + m4, n3 + n4)
  BY <1>0, <1>6, <1>7, <1>8
<1> USE DEF same
<1>10. /\ Congruent(a1 * b1 - a2 * b2, c1 * d1 - c2 * d2, P)
       /\ Congruent(a1 * b2 + a2 * b1, c1 * d2 + c2 * d1, P)
  BY <1>7, <1>8, <1>9
<1> QED
  BY <1>1, <1>2, <1>3, <1>4, <1>6, <1>10
     DEF Alike, Exactly, Congruent, Plus, Minus, Product

LEMMA ProductLaws ==
  ASSUME NEW a \in Z, NEW b \in Z, NEW c \in Z
  PROVE  /\ Product(a, Product(b, c)) = Product(Product(a, b), c)
         /\ Product(a, b) = Product(b, a)
         /\ Product(a, <<1, 0>>) = a
         /\ Product(a, <<-1, 0>>) = Minus(Zero, a)
         /\ Product(Plus(a, b), c) = Plus(Product(a, c), Product(b, c))
         /\ Product(Minus(a, b), c) = Minus(Product(a, c), Product(b, c))
<1>1. PICK a1 \in Int, a2 \in Int : a = <<a1, a2>>
  BY DEF Z
<1>2. PICK b1 \in Int, b2 \in Int : b = <<b1, b2>>
  BY DEF Z
<1>3. PICK c1 \in Int, c2 \in Int : c = <<c1, c2>>
  BY DEF Z
<1>4. /\ a1 * (b1 * c1 - b2 * c2) - a2 * (b1 * c2 + b2 * c1)
           = (a1 * b1 - a2 * b2) * c1 - (a1 * b2 + a2 * b1) * c2
      /\ a1 * (b1 * c2 + b2 * c1) + a2 * (b1 * c1 - b2 * c2)
           = (a1 * b1 - a2 * b2) * c2 + (a1 * b2 + a2 * b1) * c1
  OBVIOUS
<1>5. Product(a, Product(b, c)) = Product(Product(a, b), c)
  BY <1>1, <1>2, <1>3, <1>4 DEF Product
<1>6. Product(a, b) = Product(b, a)
  BY <1>1, <1>2 DEF Product
<1>7. Product(a, <<1, 0>>) = a
  BY <1>1 DEF Product
<1>8. Product(a, <<-1, 0>>) = Minus(Zero, a)
  BY <1>1 DEF Product, Minus, Zero
<1>9. Product(Plus(a, b), c) = Plus(Product(a, c), Product(b, c))
  <2>1. /\ (a1 + b1) * c1 - (a2 + b2) * c2 = (a1 * c1 - a2 * c2) + (b1 * c1 - b2 * c2)
        /\ (a1 + b1) * c2 + (a2 + b2) * c1 = (a1 * c2 + a2 * c1) + (b1 * c2 + b2 * c1)
    OBVIOUS
  <2> QED
    BY <1>1, <1>2, <1>3, <2>1 DEF Product, Plus
<1>10. Product(Minus(a, b), c) = Minus(Product(a, c), Product(b, c))
  <2>1. /\ (a1 - b1) * c1 - (a2 - b2) * c2 = (a1 * c1 - a2 * c2) - (b1 * c1 - b2 * c2)
        /\ (a1 - b1) * c2 + (a2 - b2) * c1 = (a1 * c2 + a2 * c1) - (b1 * c2 + b2 * c1)
    OBVIOUS
  <2> QED
    BY <1>1, <1>2, <1>3, <2>1 DEF Product, Minus
<1> QED
  BY <1>5, <1>6, <1>7, <1>8, <1>9, <1>10

(* Powers of the root of unity. *)
IsRoots(f) ==
  f = [j \in 0 .. N - 1 |-> IF j = 0 THEN <<1, 0>> ELSE Exactly(Product(f[j - 1], NthRoot))]

LEMMA RootsChosen ==
  ASSUME NEW f, IsRoots(f)
  PROVE  IsRoots(Roots)
BY DEF IsRoots, Roots

LEMMA ConstantsType ==
  /\ NthRoot \in Z /\ NthRoot \in Exact /\ Exact \subseteq Z /\ Zero \in Z
  /\ <<1, 0>> \in Exact /\ <<1, 0>> \in Z /\ <<-1, 0>> \in Z
  /\ Alike(Roots[N \div 2], <<-1, 0>>)
<1>1. NthRoot \in Exact
  BY NumbersAssumption DEF Numbers, Exact
<1>2. Exact \subseteq Z
  BY NFacts DEF Exact, Z
<1>3. <<1, 0>> \in Exact /\ <<-1, 0>> \in Z /\ Zero \in Z
  BY NFacts DEF Exact, Z, Zero
<1>4. Alike(Roots[N \div 2], <<-1, 0>>)
  <2>1. Exactly(Exactly(<<-1, 0>>)) = Exactly(<<-1, 0>>)
    BY <1>3, AlikeExactly DEF Alike
  <2> QED
    BY <2>1, NumbersAssumption DEF Alike
<1> QED
  BY <1>1, <1>2, <1>3, <1>4

LEMMA RootsRecursion ==
  /\ Roots[0] = <<1, 0>>
  /\ \A j \in 1 .. N - 1 : Roots[j] = Exactly(Product(Roots[j - 1], NthRoot))
<1>0. N \in Nat /\ N - 1 \in Nat
  BY NFacts
<1> DEFINE step == [p \in (1 .. N - 1) \X Z |-> Exactly(Product(p[2], NthRoot))]
<1>1. step \in Steps(N - 1, Z)
  <2>1. \A p \in (1 .. N - 1) \X Z : Exactly(Product(p[2], NthRoot)) \in Z
    BY ConstantsType, OperationsType, AlikeExactly
  <2> QED
    BY <2>1 DEF Steps
<1>2. \A j \in 1 .. N - 1, a \in Z : step[<<j, a>>] = Exactly(Product(a, NthRoot))
  OBVIOUS
<1> HIDE DEF step
<1>3. PICK f : Iterates(f, N - 1, Z, <<1, 0>>, step)
  BY <1>0, <1>1, ConstantsType, RecursionExists
<1>4. IsRoots(f)
  <2>1. ASSUME NEW j \in 0 .. N - 1
        PROVE  f[j] = IF j = 0 THEN <<1, 0>> ELSE Exactly(Product(f[j - 1], NthRoot))
    <3>1. CASE j # 0
      <4>1. j \in 1 .. N - 1 /\ j - 1 \in 0 .. N - 1
        BY <1>0, <3>1
      <4>2. f[j - 1] \in Z /\ f[j] = step[<<j, f[j - 1]>>]
        BY <1>3, <4>1 DEF Iterates
      <4> QED
        BY <1>2, <3>1, <4>1, <4>2
    <3> QED
      BY <1>3, <3>1 DEF Iterates
  <2> QED
    BY <1>3, <2>1 DEF IsRoots, Iterates
<1>5. IsRoots(Roots)
  BY <1>4, RootsChosen
<1> QED
  BY <1>0, <1>5 DEF IsRoots

LEMMA RootsType ==
  \A j \in 0 .. N - 1 : Roots[j] \in Exact /\ Roots[j] \in Z
<1> DEFINE T == {j \in Nat : j <= N - 1 => Roots[j] \in Exact /\ Roots[j] \in Z}
<1>1. 0 \in T
  BY RootsRecursion, ConstantsType
<1>2. ASSUME NEW j \in Nat, j \in T
      PROVE  j + 1 \in T
  <2> SUFFICES ASSUME j + 1 <= N - 1
               PROVE  Roots[j + 1] \in Exact /\ Roots[j + 1] \in Z
    OBVIOUS
  <2>1. j + 1 \in 1 .. N - 1 /\ (j + 1) - 1 = j /\ Roots[j] \in Z
    BY <1>2, NFacts
  <2>2. Roots[j + 1] = Exactly(Product(Roots[j], NthRoot))
    BY <2>1, RootsRecursion
  <2> QED
    BY <2>1, <2>2, ConstantsType, OperationsType, AlikeExactly
<1>3. \A j \in Nat : j \in T
  <2> HIDE DEF T
  <2> QED
    BY <1>1, <1>2, AllNumbers
<1> QED
  BY <1>3, NFacts

LEMMA RootsNext ==
  ASSUME NEW j \in Nat, j + 1 <= N - 1
  PROVE  Alike(Roots[j + 1], Product(Roots[j], NthRoot))
<1>1. j \in 0 .. N - 1 /\ j + 1 \in 1 .. N - 1 /\ (j + 1) - 1 = j
  BY NFacts
<1>2. Roots[j + 1] = Exactly(Product(Roots[j], NthRoot)) /\ Product(Roots[j], NthRoot) \in Z
  BY <1>1, RootsRecursion, RootsType, ConstantsType, OperationsType
<1> QED
  BY <1>2, AlikeExactly DEF Alike

LEMMA HalfATurn ==
  ASSUME NEW j \in Nat, j < N \div 2
  PROVE  Alike(Roots[N \div 2 + j], Product(<<-1, 0>>, Roots[j]))
<1> DEFINE h == N \div 2
           T == {i \in Nat : i < h => Alike(Roots[h + i], Product(<<-1, 0>>, Roots[i]))}
<1>0. h \in Nat /\ N = 2 * h /\ h > 0
  BY NFacts
<1> HIDE DEF h
<1>1. 0 \in T
  <2>1. h + 0 = h /\ Product(<<-1, 0>>, <<1, 0>>) = <<-1, 0>>
    BY <1>0 DEF Product
  <2> QED
    BY <2>1, RootsRecursion, ConstantsType DEF h
<1>2. ASSUME NEW i \in Nat, i \in T
      PROVE  i + 1 \in T
  <2> SUFFICES ASSUME i + 1 < h
               PROVE  Alike(Roots[h + (i + 1)], Product(<<-1, 0>>, Roots[i + 1]))
    OBVIOUS
  <2>1. /\ i \in 0 .. N - 1 /\ i + 1 \in 0 .. N - 1 /\ i + 1 <= N - 1
        /\ h + i \in Nat /\ h + i \in 0 .. N - 1 /\ (h + i) + 1 <= N - 1 /\ (h + i) + 1 = h + (i + 1)
    BY <1>0
  <2> DEFINE minus == <<-1, 0>>
  <2>2. Roots[i] \in Z /\ Roots[i + 1] \in Z /\ Roots[h + i] \in Z /\ NthRoot \in Z /\ minus \in Z
    BY <2>1, RootsType, ConstantsType
  <2> HIDE DEF minus
  <2>3. Alike(Roots[h + i], Product(minus, Roots[i]))
    BY <1>0, <1>2, <2>1 DEF minus
  <2>4. Alike(Roots[h + (i + 1)], Product(Roots[h + i], NthRoot))
    BY <2>1, RootsNext
  <2>5. Product(minus, Roots[i]) \in Z /\ Alike(NthRoot, NthRoot) /\ Alike(minus, minus)
    BY <2>2, OperationsType DEF Alike
  <2>6. Alike(Product(Roots[h + i], NthRoot), Product(Product(minus, Roots[i]), NthRoot))
    BY <2>2, <2>3, <2>5, AlikeOperations
  <2>7. Product(Product(minus, Roots[i]), NthRoot) = Product(minus, Product(Roots[i], NthRoot))
    BY <2>2, ProductLaws
  <2>8. Alike(Product(Roots[i], NthRoot), Roots[i + 1]) /\ Product(Roots[i], NthRoot) \in Z
    BY <2>1, <2>2, RootsNext, OperationsType DEF Alike
  <2>9. Alike(Product(minus, Product(Roots[i], NthRoot)), Product(minus, Roots[i + 1]))
    BY <2>2, <2>5, <2>8, AlikeOperations
  <2> QED
    BY <2>4, <2>6, <2>7, <2>9 DEF Alike, minus
<1>3. \A i \in Nat : i \in T
  <2> HIDE DEF T
  <2> QED
    BY <1>1, <1>2, AllNumbers
<1> QED
  BY <1>3 DEF h

(* The power j of the root, for any j. *)
Root(j) == Roots[j % N]

LEMMA RootType ==
  ASSUME NEW j \in Nat
  PROVE  Root(j) \in Z
BY NFacts, RootsType DEF Root

LEMMA RootNext ==
  ASSUME NEW j \in Nat
  PROVE  Alike(Root(j + 1), Product(Root(j), NthRoot))
<1>0. N \in Nat /\ N > 1
  BY NFacts
<1>1. PICK r \in 0 .. N - 1, q \in Int : r = j % N /\ j = N * q + r
  <2>1. j % N \in 0 .. N - 1 /\ j \div N \in Int /\ j = N * (j \div N) + (j % N)
    BY <1>0
  <2> QED
    BY <2>1
<1>2. CASE r # N - 1
  <2>1. (j + 1) % N = r + 1
    <3>1. j + 1 = N * q + (r + 1) /\ r + 1 \in 0 .. N - 1
      BY <1>0, <1>1, <1>2
    <3> QED
      BY <1>0, <3>1, RemainderIs
  <2> QED
    BY <1>0, <1>1, <1>2, <2>1, RootsNext DEF Root
<1>3. CASE r = N - 1
  <2>1. (j + 1) % N = 0
    <3>1. j + 1 = N * (q + 1) + 0 /\ 0 \in 0 .. N - 1 /\ q + 1 \in Int
      BY <1>0, <1>1, <1>3
    <3> QED
      BY <1>0, <3>1, RemainderIs
  <2>2. PICK h \in Nat : h = N \div 2 /\ h > 0 /\ N = 2 * h
    BY NFacts
  <2>3. PICK u \in Z, v \in Z, w \in Z, minus \in Z :
          u = Roots[N - 1] /\ v = Roots[h - 1] /\ w = Roots[h] /\ minus = <<-1, 0>>
    <3>1. N - 1 \in 0 .. N - 1 /\ h - 1 \in 0 .. N - 1 /\ h \in 0 .. N - 1
      BY <2>2
    <3> QED
      BY <3>1, RootsType, ConstantsType
  <2>4. Alike(u, Product(minus, v))
    <3>1. h - 1 \in Nat /\ h - 1 < N \div 2 /\ (N \div 2) + (h - 1) = N - 1
      BY <2>2
    <3> QED
      BY <2>3, <3>1, HalfATurn
  <2>5. Alike(w, Product(v, NthRoot))
    <3>1. h - 1 \in Nat /\ (h - 1) + 1 <= N - 1 /\ (h - 1) + 1 = h
      BY <2>2
    <3> QED
      BY <2>3, <3>1, RootsNext
  <2>6. Alike(w, minus)
    BY <2>2, <2>3, ConstantsType
  <2>7. NthRoot \in Z /\ Product(minus, v) \in Z /\ Product(v, NthRoot) \in Z
    BY ConstantsType, OperationsType
  <2>8. Alike(Product(u, NthRoot), Product(Product(minus, v), NthRoot))
    BY <2>4, <2>7, AlikeOperations DEF Alike
  <2>9. Product(Product(minus, v), NthRoot) = Product(minus, Product(v, NthRoot))
    BY <2>7, ProductLaws
  <2>10. Alike(Product(minus, Product(v, NthRoot)), Product(minus, minus))
    <3>1. Alike(Product(v, NthRoot), minus) /\ Alike(minus, minus)
      BY <2>5, <2>6 DEF Alike
    <3> QED
      BY <2>7, <3>1, AlikeOperations
  <2>11. Product(minus, minus) = <<1, 0>>
    BY <2>3 DEF Product
  <2>12. Root(j + 1) = <<1, 0>> /\ Root(j) = u
    BY <1>1, <1>3, <2>1, <2>3, RootsRecursion DEF Root
  <2> QED
    BY <2>8, <2>9, <2>10, <2>11, <2>12 DEF Alike
<1> QED
  BY <1>2, <1>3

LEMMA RootSum ==
  ASSUME NEW i \in Nat, NEW j \in Nat
  PROVE  Alike(Root(i + j), Product(Root(i), Root(j)))
<1> DEFINE T == {k \in Nat : Alike(Root(i + k), Product(Root(i), Root(k)))}
<1>1. 0 \in T
  <2>1. Root(0) = <<1, 0>> /\ i + 0 = i
    BY NFacts, RootsRecursion DEF Root
  <2>2. Product(Root(i), <<1, 0>>) = Root(i)
    BY RootType, ProductLaws
  <2> QED
    BY <2>1, <2>2 DEF Alike
<1>2. ASSUME NEW k \in Nat, k \in T
      PROVE  k + 1 \in T
  <2>1. i + (k + 1) = (i + k) + 1 /\ i + k \in Nat /\ k + 1 \in Nat
    OBVIOUS
  <2>2. PICK a \in Z, b \in Z, c \in Z, d \in Z, e \in Z :
          a = Root(i) /\ b = Root(k) /\ c = Root(i + k) /\ d = Root(k + 1) /\ e = Root((i + k) + 1)
    BY <2>1, RootType
  <2>3. NthRoot \in Z /\ Product(a, b) \in Z /\ Product(b, NthRoot) \in Z
    BY ConstantsType, OperationsType
  <2>4. Alike(c, Product(a, b)) /\ Alike(e, Product(c, NthRoot)) /\ Alike(d, Product(b, NthRoot))
    BY <1>2, <2>1, <2>2, RootNext
  <2>5. Alike(Product(c, NthRoot), Product(Product(a, b), NthRoot))
    BY <2>3, <2>4, AlikeOperations DEF Alike
  <2>6. Product(Product(a, b), NthRoot) = Product(a, Product(b, NthRoot))
    BY <2>3, ProductLaws
  <2>7. Alike(Product(a, Product(b, NthRoot)), Product(a, d))
    BY <2>3, <2>4, AlikeOperations DEF Alike
  <2>8. Alike(e, Product(a, d))
    BY <2>4, <2>5, <2>6, <2>7 DEF Alike
  <2> QED
    BY <2>1, <2>2, <2>8
<1>3. \A k \in Nat : k \in T
  <2> HIDE DEF T
  <2> QED
    BY <1>1, <1>2, AllNumbers
<1> QED
  BY <1>3

LEMMA RootTurns ==
  ASSUME NEW e \in Nat, NEW m \in Nat
  PROVE  /\ Root(e + (N \div 2) * (2 * m)) = Root(e)
         /\ Alike(Root(e + (N \div 2) * (2 * m + 1)), Product(<<-1, 0>>, Root(e)))
<1>1. PICK h \in Nat : h = N \div 2 /\ h > 0 /\ N = 2 * h /\ N \in Nat /\ N > 0
  BY NFacts
<1>2. ASSUME NEW d \in Nat
      PROVE  Root(d + h * (2 * m)) = Root(d)
  <2>1. d + h * (2 * m) = d + N * m /\ d + N * m \in Nat
    BY <1>1
  <2>2. PICK s \in Nat : s = d + N * m
    BY <2>1
  <2>3. Congruent(s, d, N)
    <3>1. \E q \in Int : s = d + N * q
      BY <2>2
    <3>2. s \in Int /\ d \in Int
      OBVIOUS
    <3> QED
      BY <1>1, <3>1, <3>2, Remainders
  <2> QED
    BY <2>1, <2>2, <2>3 DEF Root, Congruent
<1>3. Alike(Root(e + h), Product(<<-1, 0>>, Root(e)))
  <2>1. Alike(Root(h + e), Product(Root(h), Root(e)))
    BY RootSum
  <2>2. h % N = h
    BY <1>1
  <2>3. Alike(Root(h), <<-1, 0>>)
    BY <1>1, <2>2, ConstantsType DEF Root
  <2>4. Root(h) \in Z /\ Root(e) \in Z /\ <<-1, 0>> \in Z /\ Alike(Root(e), Root(e))
    BY RootType, ConstantsType DEF Alike
  <2>5. Alike(Product(Root(h), Root(e)), Product(<<-1, 0>>, Root(e)))
    BY <2>3, <2>4, AlikeOperations
  <2>6. h + e = e + h
    OBVIOUS
  <2> QED
    BY <2>1, <2>5, <2>6 DEF Alike
<1>4. Root(e + h * (2 * m + 1)) = Root(e + h)
  <2>1. e + h * (2 * m + 1) = (e + h) + h * (2 * m) /\ e + h \in Nat
    OBVIOUS
  <2> QED
    BY <1>2, <2>1
<1> QED
  BY <1>1, <1>2, <1>3, <1>4
-----------------------------------------------------------------------------
(***************************************************************************)
(* The transform of a block and those of its halves (decimation in         *)
(* frequency).                                                             *)
(***************************************************************************)
Parts(f, S, i) == [n \in S |-> f[n][i]]
Terms(a, L, k) == [n \in 0 .. L - 1 |-> Product(a[n], Root(n * k * (N \div L)))]
Dft(a, L, k) == SumOf(Terms(a, L, k), 0 .. L - 1)

LEMMA SumOfTotals ==
  ASSUME NEW f, NEW S
  PROVE  SumOf(f, S) = <<Total(Parts(f, S, 1), S), Total(Parts(f, S, 2), S)>>
BY DEF SumOf, Total, Parts

LEMMA DFTIsDft ==
  ASSUME format = "exact", NEW a, NEW L, NEW k
  PROVE  DFT(a, L, k) = Dft(a, L, k)
BY DEF DFT, Dft, Terms, Root

LEMMA SumOfType ==
  ASSUME NEW f, NEW n \in Nat, \A k \in 0 .. n - 1 : f[k] \in Z
  PROVE  SumOf(f, 0 .. n - 1) \in Z
<1>1. \A i \in {1, 2} : \A k \in 0 .. n - 1 : Parts(f, 0 .. n - 1, i)[k] \in Int
  BY DEF Parts, Z
<1>2. /\ Total(Parts(f, 0 .. n - 1, 1), 0 .. n - 1) \in Int
      /\ Total(Parts(f, 0 .. n - 1, 2), 0 .. n - 1) \in Int
  BY <1>1, TotalNumbersType
<1> QED
  BY <1>2, SumOfTotals DEF Z

LEMMA TotalCongruent ==
  ASSUME NEW p \in Nat, p > 0, NEW f, NEW g, NEW n \in Nat,
         \A k \in 0 .. n - 1 : f[k] \in Int /\ g[k] \in Int /\ Congruent(f[k], g[k], p)
  PROVE  Congruent(Total(f, 0 .. n - 1), Total(g, 0 .. n - 1), p)
<1> DEFINE T == {m \in Nat : m <= n => Congruent(Total(f, 0 .. m - 1), Total(g, 0 .. m - 1), p)}
<1>1. 0 \in T
  <2>1. 0 .. 0 - 1 = {} /\ Total(f, {}) = 0 /\ Total(g, {}) = 0
    BY TotalEmpty
  <2> QED
    BY <2>1 DEF Congruent
<1>2. ASSUME NEW m \in Nat, m \in T
      PROVE  m + 1 \in T
  <2> SUFFICES ASSUME m + 1 <= n
               PROVE  Congruent(Total(f, 0 .. (m + 1) - 1), Total(g, 0 .. (m + 1) - 1), p)
    OBVIOUS
  <2>1. /\ \A k \in 0 .. m : f[k] \in Int /\ g[k] \in Int /\ Congruent(f[k], g[k], p)
        /\ \A k \in 0 .. m - 1 : f[k] \in Int /\ g[k] \in Int
        /\ m \in 0 .. m /\ (m + 1) - 1 = m /\ m <= n
    OBVIOUS
  <2>2. /\ Total(f, 0 .. m) = f[m] + Total(f, 0 .. m - 1)
        /\ Total(g, 0 .. m) = g[m] + Total(g, 0 .. m - 1)
    BY <2>1, TotalNext
  <2>3. Total(f, 0 .. m - 1) \in Int /\ Total(g, 0 .. m - 1) \in Int
    BY <2>1, TotalNumbersType
  <2>4. Congruent(Total(f, 0 .. m - 1), Total(g, 0 .. m - 1), p)
    BY <1>2, <2>1
  <2>5. Congruent(f[m] + Total(f, 0 .. m - 1), g[m] + Total(g, 0 .. m - 1), p)
    BY <2>1, <2>3, <2>4, RemainderSums
  <2> QED
    BY <2>1, <2>2, <2>5
<1>3. \A m \in Nat : m \in T
  <2> HIDE DEF T
  <2> QED
    BY <1>1, <1>2, AllNumbers
<1> QED
  BY <1>3

LEMMA SumOfAlike ==
  ASSUME NEW f, NEW g, NEW n \in Nat,
         \A k \in 0 .. n - 1 : f[k] \in Z /\ g[k] \in Z /\ Alike(f[k], g[k])
  PROVE  Alike(SumOf(f, 0 .. n - 1), SumOf(g, 0 .. n - 1))
<1> DEFINE S == 0 .. n - 1
<1>1. ASSUME NEW i \in {1, 2}
      PROVE  /\ Congruent(Total(Parts(f, S, i), S), Total(Parts(g, S, i), S), P)
             /\ Total(Parts(f, S, i), S) \in Int /\ Total(Parts(g, S, i), S) \in Int
  <2>1. ASSUME NEW k \in S
        PROVE  /\ Parts(f, S, i)[k] \in Int /\ Parts(g, S, i)[k] \in Int
               /\ Congruent(Parts(f, S, i)[k], Parts(g, S, i)[k], P)
    <3>1. f[k] \in Z /\ g[k] \in Z /\ Congruent(f[k][i], g[k][i], P)
      BY AlikeParts
    <3>2. Parts(f, S, i)[k] = f[k][i] /\ Parts(g, S, i)[k] = g[k][i]
      BY DEF Parts
    <3>3. f[k][i] \in Int /\ g[k][i] \in Int
      BY <3>1 DEF Z
    <3> QED
      BY <3>1, <3>2, <3>3
  <2>2. PICK u, v : u = Parts(f, S, i) /\ v = Parts(g, S, i)
    OBVIOUS
  <2>3. \A k \in 0 .. n - 1 : u[k] \in Int /\ v[k] \in Int /\ Congruent(u[k], v[k], P)
    BY <2>1, <2>2
  <2>4. P \in Nat /\ P > 0
    BY NFacts
  <2>5. Congruent(Total(u, 0 .. n - 1), Total(v, 0 .. n - 1), P)
    BY <2>3, <2>4, TotalCongruent
  <2>6. Total(u, 0 .. n - 1) \in Int /\ Total(v, 0 .. n - 1) \in Int
    BY <2>3, TotalNumbersType
  <2> QED
    BY <2>2, <2>5, <2>6
<1>2. /\ SumOf(f, S) = <<Total(Parts(f, S, 1), S), Total(Parts(f, S, 2), S)>>
      /\ SumOf(g, S) = <<Total(Parts(g, S, 1), S), Total(Parts(g, S, 2), S)>>
  BY SumOfTotals
<1> QED
  BY <1>1, <1>2 DEF Alike, Exactly, Congruent

LEMMA SumOfHalves ==
  ASSUME NEW f, NEW g, NEW h \in Nat,
         \A k \in 0 .. 2 * h - 1 : f[k] \in Z,
         \A k \in 0 .. h - 1 : g[k] = Plus(f[k], f[k + h])
  PROVE  SumOf(f, 0 .. 2 * h - 1) = SumOf(g, 0 .. h - 1)
<1> DEFINE S == 0 .. 2 * h - 1
           R == 0 .. h - 1
<1>1. ASSUME NEW i \in {1, 2}
      PROVE  Total(Parts(f, S, i), S) = Total(Parts(g, R, i), R)
  <2>1. \A k \in S : Parts(f, S, i)[k] = f[k][i] /\ f[k][i] \in Int
    BY DEF Parts, Z
  <2>2. \A k \in R : k \in S /\ k + h \in S
    OBVIOUS
  <2>3. \A k \in R : Parts(g, R, i)[k] = g[k][i] /\ g[k][i] = f[k][i] + f[k + h][i]
    BY DEF Parts, Plus
  <2>4. /\ \A k \in S : Parts(f, S, i)[k] \in Int
        /\ \A k \in R : Parts(g, R, i)[k] = Parts(f, S, i)[k] + Parts(f, S, i)[k + h]
    BY <2>1, <2>2, <2>3
  <2> QED
    BY <2>4, TotalHalves
<1>2. /\ SumOf(f, S) = <<Total(Parts(f, S, 1), S), Total(Parts(f, S, 2), S)>>
      /\ SumOf(g, R) = <<Total(Parts(g, R, 1), R), Total(Parts(g, R, 2), R)>>
  BY SumOfTotals
<1> QED
  BY <1>1, <1>2

(* The terms of the transform of 2 * H points for an even and for an odd   *)
(* frequency, taken together in pairs.                                     *)
LEMMA EvenTerm ==
  ASSUME NEW H \in Nat, NEW K \in Nat, H * K = N \div 2, NEW n \in Nat, NEW j \in Nat,
         NEW a \in Z, NEW b \in Z, NEW s \in Z, Alike(s, Plus(a, b))
  PROVE  Alike(Product(s, Root(n * j * (2 * K))),
               Plus(Product(a, Root(n * (2 * j) * K)), Product(b, Root((n + H) * (2 * j) * K))))
<1>1. PICK e \in Nat : e = n * (2 * j) * K
  OBVIOUS
<1>2. (n + H) * (2 * j) * K = e + (H * K) * (2 * j)
  BY <1>1
<1>3. n * j * (2 * K) = e
  BY <1>1
<1>4. PICK h \in Nat : h = N \div 2 /\ h = H * K
  BY NFacts
<1>5. Root(e + h * (2 * j)) = Root(e)
  BY <1>4, RootTurns
<1>6. Root((n + H) * (2 * j) * K) = Root(e)
  BY <1>2, <1>4, <1>5
<1>7. PICK r \in Z : r = Root(e)
  BY RootType
<1>8. Product(Plus(a, b), r) = Plus(Product(a, r), Product(b, r))
  BY ProductLaws
<1>9. Alike(Product(s, r), Product(Plus(a, b), r))
  <2>1. Plus(a, b) \in Z /\ Alike(r, r)
    BY OperationsType DEF Alike
  <2> QED
    BY <2>1, AlikeOperations
<1> QED
  BY <1>1, <1>3, <1>6, <1>7, <1>8, <1>9

LEMMA OddTerm ==
  ASSUME NEW H \in Nat, NEW K \in Nat, H * K = N \div 2, NEW n \in Nat, NEW j \in Nat,
         NEW a \in Z, NEW b \in Z, NEW s \in Z, Alike(s, Product(Minus(a, b), Root(n * K)))
  PROVE  Alike(Product(s, Root(n * j * (2 * K))),
               Plus(Product(a, Root(n * (2 * j + 1) * K)),
                    Product(b, Root((n + H) * (2 * j + 1) * K))))
<1>1. PICK d \in Nat, c \in Nat, e \in Nat : d = n * K /\ c = n * j * (2 * K) /\ e = n * (2 * j + 1) * K
  OBVIOUS
<1>2. e = d + c
  BY <1>1
<1>3. (n + H) * (2 * j + 1) * K = e + (H * K) * (2 * j + 1)
  BY <1>1
<1>4. PICK h \in Nat : h = N \div 2 /\ h = H * K
  BY NFacts
<1>5. Alike(Root(e + h * (2 * j + 1)), Product(<<-1, 0>>, Root(e)))
  BY <1>4, RootTurns
<1>6. PICK r \in Z, t \in Z, u \in Z, v \in Z, minus \in Z :
        /\ r = Root(e) /\ t = Root((n + H) * (2 * j + 1) * K)
        /\ u = Root(d) /\ v = Root(c) /\ minus = <<-1, 0>>
  <2>1. (n + H) * (2 * j + 1) * K \in Nat
    OBVIOUS
  <2> QED
    BY <2>1, RootType, ConstantsType
<1>7. Alike(t, Product(minus, r))
  BY <1>3, <1>4, <1>5, <1>6
<1>8. Alike(r, Product(u, v))
  BY <1>2, <1>6, RootSum
<1>9. PICK m \in Z : m = Minus(a, b)
  BY OperationsType
<1>10. Alike(Product(s, v), Product(m, r))
  <2>1. Product(m, u) \in Z /\ Product(u, v) \in Z /\ Alike(v, v) /\ Alike(m, m)
    BY OperationsType DEF Alike
  <2>2. Alike(Product(s, v), Product(Product(m, u), v))
    BY <1>1, <1>6, <1>9, <2>1, AlikeOperations
  <2>3. Product(Product(m, u), v) = Product(m, Product(u, v))
    BY ProductLaws
  <2>4. Alike(Product(u, v), r)
    BY <1>8 DEF Alike
  <2>5. Alike(Product(m, Product(u, v)), Product(m, r))
    BY <2>1, <2>4, AlikeOperations
  <2> QED
    BY <2>2, <2>3, <2>5 DEF Alike
<1>11. Alike(Plus(Product(a, r), Product(b, t)), Product(m, r))
  <2>1. /\ Product(a, r) \in Z /\ Product(b, t) \in Z /\ Product(minus, r) \in Z
        /\ Product(b, Product(minus, r)) \in Z
    BY OperationsType
  <2>2. Alike(Product(b, t), Product(b, Product(minus, r)))
    <3>1. Alike(b, b)
      BY DEF Alike
    <3> QED
      BY <1>7, <2>1, <3>1, AlikeOperations
  <2>3. Alike(Plus(Product(a, r), Product(b, t)), Plus(Product(a, r), Product(b, Product(minus, r))))
    <3>1. Alike(Product(a, r), Product(a, r))
      BY DEF Alike
    <3> QED
      BY <2>1, <2>2, <3>1, AlikeOperations
  <2>4. Plus(Product(a, r), Product(b, Product(minus, r))) = Product(m, r)
    <3>1. PICK a1 \in Int, a2 \in Int : a = <<a1, a2>>
      BY DEF Z
    <3>2. PICK b1 \in Int, b2 \in Int : b = <<b1, b2>>
      BY DEF Z
    <3>3. PICK r1 \in Int, r2 \in Int : r = <<r1, r2>>
      BY DEF Z
    <3>4. Product(minus, r) = <<-r1, -r2>>
      BY <1>6, <3>3 DEF Product
    <3>5. /\ (a1 * r1 - a2 * r2) + (b1 * (-r1) - b2 * (-r2)) = (a1 - b1) * r1 - (a2 - b2) * r2
          /\ (a1 * r2 + a2 * r1) + (b1 * (-r2) + b2 * (-r1)) = (a1 - b1) * r2 + (a2 - b2) * r1
      OBVIOUS
    <3> QED
      BY <1>9, <3>1, <3>2, <3>3, <3>4, <3>5 DEF Product, Minus, Plus
  <2> QED
    BY <2>3, <2>4
<1> QED
  BY <1>1, <1>6, <1>10, <1>11 DEF Alike

(* One half of a block after its stage has the even frequencies of the     *)
(* block, the other the odd ones.                                          *)
LEMMA Decimation ==
  ASSUME NEW H \in Nat, H > 0, NEW K \in Nat, K > 0, H * K = N \div 2,
         NEW y, NEW z, NEW c \in {0, 1}, NEW j \in 0 .. H - 1,
         \A n \in 0 .. 2 * H - 1 : y[n] \in Z,
         \A n \in 0 .. H - 1 : z[n] \in Z,
         \A n \in 0 .. H - 1 :
           Alike(z[n], IF c = 0 THEN Plus(y[n], y[n + H])
                       ELSE Product(Minus(y[n], y[n + H]), Root(n * K)))
  PROVE  Alike(Dft(z, H, j), Dft(y, 2 * H, 2 * j + c))
<1> DEFINE k == 2 * j + c
           f == Terms(y, 2 * H, k)
           g == Terms(z, H, j)
           s == [n \in 0 .. H - 1 |-> Plus(f[n], f[n + H])]
<1>1. N \div (2 * H) = K /\ N \div H = 2 * K
  <2>1. N = (2 * H) * K + 0 /\ N = H * (2 * K) + 0 /\ N \in Nat /\ 2 * H \in Nat /\ 2 * K \in Nat
    BY NFacts
  <2>2. \A p, w, q \in Nat : p > 0 /\ w = p * q + 0 => w \div p = q
    OBVIOUS
  <2> QED
    BY <2>1, <2>2
<1>2. j \in Nat /\ k \in Nat
  OBVIOUS
<1>3. \A n \in 0 .. 2 * H - 1 : f[n] = Product(y[n], Root(n * k * K)) /\ f[n] \in Z
  <2>1. \A n \in 0 .. 2 * H - 1 : f[n] = Product(y[n], Root(n * k * K))
    BY <1>1 DEF Terms
  <2>2. \A n \in 0 .. 2 * H - 1 : n * k * K \in Nat
    BY <1>2
  <2> HIDE DEF f, k
  <2> QED
    BY <2>1, <2>2, RootType, OperationsType
<1>4. \A n \in 0 .. H - 1 : g[n] = Product(z[n], Root(n * j * (2 * K))) /\ g[n] \in Z
  <2>1. \A n \in 0 .. H - 1 : g[n] = Product(z[n], Root(n * j * (2 * K)))
    BY <1>1 DEF Terms
  <2>2. \A n \in 0 .. H - 1 : n * j * (2 * K) \in Nat
    BY <1>2
  <2> HIDE DEF g
  <2> QED
    BY <2>1, <2>2, RootType, OperationsType
<1>5. ASSUME NEW n \in 0 .. H - 1
      PROVE  /\ s[n] = Plus(f[n], f[n + H]) /\ s[n] \in Z
             /\ Alike(g[n], s[n])
  <2>1. /\ n \in Nat /\ n \in 0 .. 2 * H - 1 /\ n + H \in 0 .. 2 * H - 1
    OBVIOUS
  <2>2. s[n] = Plus(f[n], f[n + H])
    OBVIOUS
  <2>3. /\ f[n] = Product(y[n], Root(n * k * K)) /\ f[n + H] = Product(y[n + H], Root((n + H) * k * K))
        /\ f[n] \in Z /\ f[n + H] \in Z
    BY <1>3, <2>1
  <2>4. g[n] = Product(z[n], Root(n * j * (2 * K)))
    BY <1>4
  <2> HIDE DEF f, g, s
  <2>5. PICK a \in Z, b \in Z, v \in Z : a = y[n] /\ b = y[n + H] /\ v = z[n]
    BY <2>1
  <2>6. Alike(v, IF c = 0 THEN Plus(a, b) ELSE Product(Minus(a, b), Root(n * K)))
    BY <2>5
  <2>7. CASE c = 0
    <3>1. k = 2 * j
      BY <2>7
    <3>2. Alike(Product(v, Root(n * j * (2 * K))),
                Plus(Product(a, Root(n * (2 * j) * K)), Product(b, Root((n + H) * (2 * j) * K))))
      BY <1>2, <2>1, <2>6, <2>7, EvenTerm
    <3> QED
      BY <2>2, <2>3, <2>4, <2>5, <3>1, <3>2, OperationsType
  <2>8. CASE c = 1
    <3>1. k = 2 * j + 1
      BY <2>8
    <3>2. Alike(v, Product(Minus(a, b), Root(n * K)))
      BY <2>6, <2>8
    <3>3. Alike(Product(v, Root(n * j * (2 * K))),
                Plus(Product(a, Root(n * (2 * j + 1) * K)),
                     Product(b, Root((n + H) * (2 * j + 1) * K))))
      BY <1>2, <2>1, <3>2, OddTerm
    <3> QED
      BY <2>2, <2>3, <2>4, <2>5, <3>1, <3>3, OperationsType
  <2> QED
    BY <2>7, <2>8
<1> HIDE DEF f, g, s
<1>6. SumOf(f, 0 .. 2 * H - 1) = SumOf(s, 0 .. H - 1)
  BY <1>3, <1>5, SumOfHalves
<1>7. Alike(SumOf(g, 0 .. H - 1), SumOf(s, 0 .. H - 1))
  BY <1>4, <1>5, SumOfAlike
<1>8. Dft(z, H, j) = SumOf(g, 0 .. H - 1) /\ Dft(y, 2 * H, k) = SumOf(f, 0 .. 2 * H - 1)
  BY DEF Dft, f, g
<1> QED
  BY <1>6, <1>7, <1>8

(* The order of the blocks. *)
IsBitsReversed(f) ==
  f = [s \in 0 .. M |-> [b \in 0 .. N - 1 |->
         IF s = 0 THEN 0 ELSE (b % 2) * TwoTo[s - 1] + f[s - 1][b \div 2]]]

LEMMA BitsReversedChosen ==
  ASSUME NEW f, IsBitsReversed(f)
  PROVE  IsBitsReversed(BitsReversed)
BY DEF IsBitsReversed, BitsReversed

LEMMA BitsReversedRecursion ==
  /\ \A b \in 0 .. N - 1 : BitsReversed[0][b] = 0
  /\ \A s \in 1 .. M : \A b \in 0 .. N - 1 :
       BitsReversed[s][b] = (b % 2) * TwoTo[s - 1] + BitsReversed[s - 1][b \div 2]
<1>0. M \in Nat /\ N \in Nat /\ N > 1
  BY NFacts
<1> DEFINE S == [0 .. N - 1 -> Nat]
           next(s, v) == [b \in 0 .. N - 1 |-> (b % 2) * TwoTo[s - 1] + v[b \div 2]]
           step == [p \in (1 .. M) \X S |-> next(p[1], p[2])]
           start == [b \in 0 .. N - 1 |-> 0]
<1>1. start \in S
  OBVIOUS
<1>2. ASSUME NEW s \in 1 .. M, NEW v \in S
      PROVE  next(s, v) \in S
  <2>1. s - 1 \in 0 .. M /\ TwoTo[s - 1] \in Nat
    BY <1>0, TwoToType
  <2>2. ASSUME NEW b \in 0 .. N - 1
        PROVE  (b % 2) * TwoTo[s - 1] + v[b \div 2] \in Nat
    <3>1. b % 2 \in Nat /\ b \div 2 \in 0 .. N - 1
      BY <1>0
    <3>2. v[b \div 2] \in Nat
      BY <3>1
    <3>3. \A a, c, d \in Nat : a * c + d \in Nat
      OBVIOUS
    <3> QED
      BY <2>1, <3>1, <3>2, <3>3
  <2> QED
    BY <2>2
<1> HIDE DEF next
<1>3. step \in Steps(M, S)
  BY <1>2 DEF Steps
<1>4. \A s \in 1 .. M, v \in S : step[<<s, v>>] = next(s, v)
  OBVIOUS
<1> HIDE DEF step, start
<1>5. PICK f : Iterates(f, M, S, start, step)
  BY <1>0, <1>1, <1>3, RecursionExists
<1>6. IsBitsReversed(f)
  <2>1. ASSUME NEW s \in 0 .. M
        PROVE  f[s] = [b \in 0 .. N - 1 |->
                         IF s = 0 THEN 0 ELSE (b % 2) * TwoTo[s - 1] + f[s - 1][b \div 2]]
    <3>1. CASE s # 0
      <4>1. s \in 1 .. M /\ s - 1 \in 0 .. M
        BY <1>0, <3>1
      <4>2. f[s - 1] \in S /\ f[s] = step[<<s, f[s - 1]>>]
        BY <1>5, <4>1 DEF Iterates
      <4>3. f[s] = next(s, f[s - 1])
        BY <1>4, <4>1, <4>2
      <4> QED
        BY <3>1, <4>3 DEF next
    <3>2. CASE s = 0
      <4>1. f[0] = start
        BY <1>5 DEF Iterates
      <4> QED
        BY <3>2, <4>1 DEF start
    <3> QED
      BY <3>1, <3>2
  <2>2. f \in [0 .. M -> S]
    BY <1>5 DEF Iterates
  <2> HIDE DEF S
  <2> QED
    BY <2>1, <2>2 DEF IsBitsReversed
<1>7. IsBitsReversed(BitsReversed)
  BY <1>6, BitsReversedChosen
<1> QED
  BY <1>0, <1>7 DEF IsBitsReversed

LEMMA BitsReversedType ==
  \A s \in 0 .. M : \A b \in 0 .. N - 1 : BitsReversed[s][b] \in Nat
<1>0. M \in Nat /\ N \in Nat /\ N > 1
  BY NFacts
<1> DEFINE T == {s \in Nat : s <= M => \A b \in 0 .. N - 1 : BitsReversed[s][b] \in Nat}
<1>1. 0 \in T
  BY BitsReversedRecursion
<1>2. ASSUME NEW s \in Nat, s \in T
      PROVE  s + 1 \in T
  <2> SUFFICES ASSUME s + 1 <= M, NEW b \in 0 .. N - 1
               PROVE  BitsReversed[s + 1][b] \in Nat
    OBVIOUS
  <2>1. s + 1 \in 1 .. M /\ (s + 1) - 1 = s /\ s \in 0 .. M /\ s <= M
    BY <1>0
  <2>2. b % 2 \in Nat /\ b \div 2 \in 0 .. N - 1 /\ TwoTo[s] \in Nat
    BY <1>0, <2>1, TwoToType
  <2>3. BitsReversed[s][b \div 2] \in Nat
    BY <1>2, <2>1, <2>2
  <2>4. BitsReversed[s + 1][b] = (b % 2) * TwoTo[s] + BitsReversed[s][b \div 2]
    BY <2>1, BitsReversedRecursion
  <2>5. \A a, c, d \in Nat : a * c + d \in Nat
    OBVIOUS
  <2> QED
    BY <2>2, <2>3, <2>4, <2>5
<1>3. \A s \in Nat : s \in T
  <2> HIDE DEF T
  <2> QED
    BY <1>1, <1>2, AllNumbers
<1> QED
  BY <1>0, <1>3

(* What a stage does: the n-th pair of the block b of 2 * H points. *)
Block(y, L, b) == [n \in 0 .. L - 1 |-> y[b * L + n]]
Untouched(y, z, H, b, n) ==
  /\ z[n + b * (2 * H)] = y[n + b * (2 * H)]
  /\ z[n + b * (2 * H) + H] = y[n + b * (2 * H) + H]
Combined(y, z, H, K, b, n) ==
  /\ z[n + b * (2 * H)] = Exactly(Plus(y[n + b * (2 * H)], y[n + b * (2 * H) + H]))
  /\ z[n + b * (2 * H) + H] =
       Exactly(Product(Minus(y[n + b * (2 * H)], y[n + b * (2 * H) + H]), Roots[n * K]))

(* The array y is what it should be before stage s, the blocks being of L  *)
(* points.                                                                 *)
Blocks(y, s, L, inp) ==
  \A b \in 0 .. TwoTo[s] - 1 : \A j \in 0 .. L - 1 :
    Alike(Dft(Block(y, L, b), L, j), Dft(inp, N, j * TwoTo[s] + BitsReversed[s][b]))

LEMMA BlockBounds ==
  ASSUME NEW H \in Nat, H > 0, NEW K \in Nat, K * (2 * H) = N,
         NEW b \in 0 .. K - 1, NEW i \in 0 .. 2 * H - 1
  PROVE  b * (2 * H) \in Nat /\ b * (2 * H) + i \in 0 .. N - 1
<1>1. b + 1 <= K /\ b \in Nat /\ K \in Nat
  OBVIOUS
<1>2. \A u, v, w \in Nat : u <= v => u * w <= v * w
  OBVIOUS
<1>3. (b + 1) * (2 * H) <= K * (2 * H)
  BY <1>1, <1>2
<1>4. (b + 1) * (2 * H) = b * (2 * H) + 2 * H
  OBVIOUS
<1>5. PICK m \in Nat : m = b * (2 * H)
  OBVIOUS
<1> QED
  BY <1>3, <1>4, <1>5, NFacts

LEMMA PairBounds ==
  ASSUME NEW H \in Nat, H > 0, NEW K \in Nat, K * (2 * H) = N,
         NEW b \in 0 .. K - 1, NEW n \in 0 .. H - 1
  PROVE  /\ b * (2 * H) \in Nat
         /\ n + b * (2 * H) \in 0 .. N - 1 /\ n + b * (2 * H) + H \in 0 .. N - 1
<1>1. n \in 0 .. 2 * H - 1 /\ n + H \in 0 .. 2 * H - 1
  OBVIOUS
<1>2. PICK m \in Nat : m = b * (2 * H) /\ m + n \in 0 .. N - 1 /\ m + (n + H) \in 0 .. N - 1
  BY <1>1, BlockBounds
<1> QED
  BY <1>2, NFacts

LEMMA FactorBounds ==
  ASSUME NEW H \in Nat, NEW K \in Nat, H * K = N \div 2, NEW n \in 0 .. H - 1
  PROVE  n * K \in 0 .. N - 1 /\ Root(n * K) = Roots[n * K] /\ Root(n * K) \in Z
<1>1. \A a, d, e \in Nat : a <= d => a * e <= d * e
  OBVIOUS
<1>2. n * K <= H * K /\ n * K \in Nat
  BY <1>1
<1>3. PICK w \in Nat : w = n * K /\ w <= N \div 2
  BY <1>2
<1>4. w \in 0 .. N - 1 /\ w % N = w
  BY <1>3, NFacts
<1> QED
  BY <1>3, <1>4, RootType DEF Root

LEMMA Distributed ==
  ASSUME NEW i \in Nat, NEW d \in Nat, NEW e \in Nat, NEW q \in Nat
  PROVE  (2 * i + d) * e + q = i * (2 * e) + (d * e + q)
OBVIOUS

LEMMA StageStep ==
  ASSUME NEW s \in Nat, s < M, NEW H \in Nat, H > 0, NEW K \in Nat, K > 0, K * (2 * H) = N,
         K = TwoTo[s], NEW y \in [0 .. N - 1 -> Exact], NEW z \in [0 .. N - 1 -> Exact], NEW inp,
         Blocks(y, s, 2 * H, inp),
         \A b \in 0 .. K - 1 : \A n \in 0 .. H - 1 : Combined(y, z, H, K, b, n)
  PROVE  Blocks(z, s + 1, H, inp)
<1>1. /\ TwoTo[s + 1] = 2 * K /\ s \in 0 .. M /\ s + 1 \in 1 .. M /\ (s + 1) - 1 = s
      /\ H * K = N \div 2
  <2>1. s \in 0 .. M /\ s + 1 \in 1 .. M /\ (s + 1) - 1 = s
    BY NFacts
  <2>2. \A u, v \in Nat : u * (2 * v) = 2 * (v * u) /\ (2 * (v * u)) \div 2 = v * u
    OBVIOUS
  <2> QED
    BY <2>1, <2>2, TwoToRecursion
<1> SUFFICES ASSUME NEW b2 \in 0 .. 2 * K - 1, NEW j \in 0 .. H - 1
             PROVE  Alike(Dft(Block(z, H, b2), H, j),
                          Dft(inp, N, j * (2 * K) + BitsReversed[s + 1][b2]))
  BY <1>1 DEF Blocks
<1>2. PICK b \in 0 .. K - 1, c \in {0, 1} : b2 = 2 * b + c /\ b = b2 \div 2 /\ c = b2 % 2
  <2>1. b2 \div 2 \in 0 .. K - 1 /\ b2 % 2 \in {0, 1} /\ b2 = 2 * (b2 \div 2) + (b2 % 2)
    OBVIOUS
  <2> QED
    BY <2>1
<1>3. \A n \in 0 .. 2 * H - 1 : b * (2 * H) + n \in 0 .. N - 1
  BY BlockBounds
<1> DEFINE u == Block(y, 2 * H, b)
           v == Block(z, H, b2)
<1>4. \A n \in 0 .. 2 * H - 1 : u[n] = y[b * (2 * H) + n] /\ u[n] \in Z
  <2>1. \A n \in 0 .. 2 * H - 1 : u[n] = y[b * (2 * H) + n]
    BY DEF Block
  <2> HIDE DEF u
  <2> QED
    BY <1>3, <2>1, ConstantsType
<1>5. ASSUME NEW n \in 0 .. H - 1
      PROVE  /\ v[n] = z[b2 * H + n] /\ v[n] \in Z
             /\ Alike(v[n], IF c = 0 THEN Plus(u[n], u[n + H])
                            ELSE Product(Minus(u[n], u[n + H]), Root(n * K)))
  <2>1. n \in 0 .. 2 * H - 1 /\ n + H \in 0 .. 2 * H - 1 /\ n \in Nat
    OBVIOUS
  <2>2. v[n] = z[b2 * H + n]
    BY DEF Block
  <2>3. PICK m \in Nat : m = b * (2 * H)
    OBVIOUS
  <2>4. /\ b2 * H + n = m + c * H + n
        /\ u[n] = y[n + m] /\ u[n + H] = y[n + m + H] /\ u[n] \in Z /\ u[n + H] \in Z
    <3>1. b2 * H = b * (2 * H) + c * H
      BY <1>2
    <3>2. b * (2 * H) + n = n + m /\ b * (2 * H) + (n + H) = n + m + H
      BY <2>3
    <3>3. u[n] = y[b * (2 * H) + n] /\ u[n + H] = y[b * (2 * H) + (n + H)]
      BY <1>4, <2>1
    <3> HIDE DEF u
    <3>4. c * H \in Nat
      OBVIOUS
    <3> QED
      BY <1>4, <2>1, <2>3, <3>1, <3>2, <3>3, <3>4
  <2>5. n + m \in 0 .. N - 1 /\ n + m + H \in 0 .. N - 1
    BY <2>3, PairBounds
  <2>6. n * K \in 0 .. N - 1 /\ Root(n * K) = Roots[n * K] /\ Root(n * K) \in Z
    BY <1>1, FactorBounds
  <2>7. /\ z[n + m] = Exactly(Plus(u[n], u[n + H]))
        /\ z[n + m + H] = Exactly(Product(Minus(u[n], u[n + H]), Root(n * K)))
    <3>1. Combined(y, z, H, K, b, n)
      OBVIOUS
    <3> HIDE DEF u, v
    <3> QED
      BY <2>3, <2>4, <2>6, <3>1 DEF Combined
  <2> HIDE DEF u, v
  <2>8. Plus(u[n], u[n + H]) \in Z /\ Product(Minus(u[n], u[n + H]), Root(n * K)) \in Z
    BY <2>4, <2>6, OperationsType
  <2>9. CASE c = 0
    <3>1. b2 * H + n = n + m
      BY <2>3, <2>4, <2>9
    <3> QED
      BY <2>2, <2>7, <2>8, <2>9, <3>1, AlikeExactly
  <2>10. CASE c = 1
    <3>1. b2 * H + n = n + m + H
      BY <2>3, <2>4, <2>10
    <3>2. v[n] = Exactly(Product(Minus(u[n], u[n + H]), Root(n * K)))
      BY <2>2, <2>7, <3>1
    <3>3. v[n] \in Z /\ Alike(v[n], Product(Minus(u[n], u[n + H]), Root(n * K)))
      BY <2>8, <3>2, AlikeExactly
    <3> QED
      BY <2>2, <2>10, <3>3
  <2> QED
    BY <2>9, <2>10
<1> HIDE DEF u, v
<1>6. Alike(Dft(v, H, j), Dft(u, 2 * H, 2 * j + c))
  BY <1>1, <1>4, <1>5, Decimation
<1>7. Alike(Dft(u, 2 * H, 2 * j + c), Dft(inp, N, (2 * j + c) * K + BitsReversed[s][b]))
  <2>1. 2 * j + c \in 0 .. 2 * H - 1
    OBVIOUS
  <2> QED
    BY <2>1 DEF Blocks, u
<1>8. (2 * j + c) * K + BitsReversed[s][b] = j * (2 * K) + BitsReversed[s + 1][b2]
  <2>1. b2 \in 0 .. N - 1 /\ b \in 0 .. N - 1
    <3>1. \A a, d \in Nat : d > 0 => 2 * a <= a * (2 * d)
      OBVIOUS
    <3>2. 2 * K <= N
      BY <3>1
    <3> QED
      BY <3>2, NFacts
  <2>2. BitsReversed[s + 1][b2] = c * K + BitsReversed[s][b]
    BY <1>1, <1>2, <2>1, BitsReversedRecursion
  <2>3. PICK r \in Nat : r = BitsReversed[s][b]
    BY <1>1, <2>1, BitsReversedType
  <2>4. j \in Nat /\ c \in Nat
    OBVIOUS
  <2>5. (2 * j + c) * K + r = j * (2 * K) + (c * K + r)
    <3>1. PICK i \in Nat, d \in Nat, e \in Nat : i = j /\ d = c /\ e = K
      BY <2>4
    <3>2. (2 * i + d) * e + r = i * (2 * e) + (d * e + r)
      BY Distributed
    <3> QED
      BY <3>1, <3>2
  <2> QED
    BY <2>2, <2>3, <2>5
<1> QED
  BY <1>6, <1>7, <1>8 DEF Alike, v

(* A stage under way: the array was y when it began and is z now, at the   *)
(* column c and the index idx.                                             *)
Reached(H, c, idx, b, n) == n < c \/ (n = c /\ n + b * (2 * H) < idx)
During(y, z, s, H, K, c, idx, inp) ==
  /\ y \in [0 .. N - 1 -> Exact]
  /\ Blocks(y, s, 2 * H, inp)
  /\ \A b \in 0 .. K - 1 : \A n \in 0 .. H - 1 :
       IF Reached(H, c, idx, b, n) THEN Combined(y, z, H, K, b, n) ELSE Untouched(y, z, H, b, n)

LEMMA BlocksApart ==
  ASSUME NEW H \in Nat, NEW b \in Nat, NEW k \in Nat, b < k
  PROVE  b * (2 * H) + 2 * H <= k * (2 * H)
<1>1. \A u, v, w \in Nat : u <= v => u * w <= v * w
  OBVIOUS
<1>2. (b + 1) * (2 * H) <= k * (2 * H)
  BY <1>1
<1>3. (b + 1) * (2 * H) = b * (2 * H) + 2 * H
  OBVIOUS
<1> QED
  BY <1>2, <1>3

LEMMA StageBegins ==
  ASSUME NEW y \in [0 .. N - 1 -> Exact], NEW s, NEW H \in Nat, NEW K \in Nat, NEW inp,
         Blocks(y, s, 2 * H, inp)
  PROVE  During(y, y, s, H, K, 0, 0, inp)
<1>1. ASSUME NEW b \in 0 .. K - 1, NEW n \in 0 .. H - 1
      PROVE  ~ Reached(H, 0, 0, b, n) /\ Untouched(y, y, H, b, n)
  <2>1. b * (2 * H) \in Nat
    OBVIOUS
  <2> QED
    BY <2>1 DEF Reached, Untouched
<1> QED
  BY <1>1 DEF During

LEMMA PairStep ==
  ASSUME NEW y, NEW z, NEW z1, NEW s, NEW H \in Nat, H > 0, NEW K \in Nat, K * (2 * H) = N,
         NEW c \in 0 .. H - 1, NEW k \in 0 .. K - 1, NEW idx, idx = c + k * (2 * H), NEW inp,
         During(y, z, s, H, K, c, idx, inp),
         z1[idx] = Exactly(Plus(z[idx], z[idx + H])),
         z1[idx + H] = Exactly(Product(Minus(z[idx], z[idx + H]), Roots[c * K])),
         \A i \in 0 .. N - 1 : i # idx /\ i # idx + H => z1[i] = z[i]
  PROVE  During(y, z1, s, H, K, c, idx + 2 * H, inp)
<1>1. PICK m \in Nat : m = k * (2 * H) /\ idx = c + m
  BY PairBounds
<1>2. ASSUME NEW b \in 0 .. K - 1, NEW n \in 0 .. H - 1
      PROVE  IF Reached(H, c, idx + 2 * H, b, n) THEN Combined(y, z1, H, K, b, n)
             ELSE Untouched(y, z1, H, b, n)
  <2>1. PICK d \in Nat :
          d = b * (2 * H) /\ n + d \in 0 .. N - 1 /\ n + d + H \in 0 .. N - 1
    BY PairBounds
  <2>2. IF Reached(H, c, idx, b, n) THEN Combined(y, z, H, K, b, n) ELSE Untouched(y, z, H, b, n)
    BY DEF During
  <2>3. /\ Reached(H, c, idx, b, n) <=> n < c \/ (n = c /\ n + d < idx)
        /\ Reached(H, c, idx + 2 * H, b, n) <=> n < c \/ (n = c /\ n + d < idx + 2 * H)
    BY <2>1 DEF Reached
  <2>4. CASE b = k /\ n = c
    <3>1. d = m
      BY <1>1, <2>1, <2>4
    <3>2. ~ Reached(H, c, idx, b, n) /\ Reached(H, c, idx + 2 * H, b, n)
      BY <1>1, <2>3, <2>4, <3>1
    <3>3. z[n + d] = y[n + d] /\ z[n + d + H] = y[n + d + H]
      BY <2>1, <2>2, <3>2 DEF Untouched
    <3>4. idx = n + d /\ idx + H = n + d + H
      BY <1>1, <2>4, <3>1
    <3> QED
      BY <2>1, <2>4, <3>2, <3>3, <3>4 DEF Combined
  <2>5. CASE ~ (b = k /\ n = c)
    <3>1. b < k => d + 2 * H <= m
      <4>1. b \in Nat /\ k \in Nat
        OBVIOUS
      <4>2. b < k => b * (2 * H) + 2 * H <= k * (2 * H)
        BY <4>1, BlocksApart
      <4> QED
        BY <1>1, <2>1, <4>2
    <3>2. k < b => m + 2 * H <= d
      BY <1>1, <2>1, BlocksApart
    <3>3. b = k => d = m
      BY <1>1, <2>1
    <3>4. /\ n + d # idx /\ n + d # idx + H /\ n + d + H # idx /\ n + d + H # idx + H
      BY <1>1, <2>5, <3>1, <3>2, <3>3
    <3>5. z1[n + d] = z[n + d] /\ z1[n + d + H] = z[n + d + H]
      BY <2>1, <3>4
    <3>6. n = c => (n + d < idx <=> n + d < idx + 2 * H)
      BY <1>1, <2>5, <3>1, <3>2, <3>3
    <3>7. Reached(H, c, idx, b, n) <=> Reached(H, c, idx + 2 * H, b, n)
      BY <2>3, <3>6
    <3> QED
      BY <2>1, <2>2, <3>5, <3>7 DEF Combined, Untouched
  <2> QED
    BY <2>4, <2>5
<1> QED
  BY <1>2 DEF During

LEMMA ColumnStep ==
  ASSUME NEW y, NEW z, NEW s, NEW H \in Nat, H > 0, NEW K \in Nat, K * (2 * H) = N,
         NEW c \in Nat, NEW idx \in Nat, idx >= N, NEW inp, During(y, z, s, H, K, c, idx, inp)
  PROVE  During(y, z, s, H, K, c + 1, c + 1, inp)
<1>1. ASSUME NEW b \in 0 .. K - 1, NEW n \in 0 .. H - 1
      PROVE  Reached(H, c, idx, b, n) <=> Reached(H, c + 1, c + 1, b, n)
  <2>1. PICK d \in Nat : d = b * (2 * H) /\ n + d \in 0 .. N - 1
    BY PairBounds
  <2>2. n + d < idx
    BY <2>1, NFacts
  <2>3. (n < c \/ (n = c /\ n + d < idx)) <=> (n < c + 1 \/ (n = c + 1 /\ n + d < c + 1))
    BY <2>2
  <2> QED
    BY <2>1, <2>3 DEF Reached
<1> QED
  BY <1>1 DEF During

LEMMA StageEnds ==
  ASSUME NEW y, NEW z \in [0 .. N - 1 -> Exact], NEW s \in Nat, s < M,
         NEW H \in Nat, H > 0, NEW K \in Nat, K > 0, K * (2 * H) = N, K = TwoTo[s],
         NEW c \in Nat, c >= H, NEW idx, NEW inp, During(y, z, s, H, K, c, idx, inp)
  PROVE  Blocks(z, s + 1, H, inp)
<1>1. y \in [0 .. N - 1 -> Exact] /\ Blocks(y, s, 2 * H, inp)
  BY DEF During
<1>2. \A b \in 0 .. K - 1 : \A n \in 0 .. H - 1 : Combined(y, z, H, K, b, n)
  <2>1. \A b \in 0 .. K - 1 : \A n \in 0 .. H - 1 : Reached(H, c, idx, b, n)
    BY DEF Reached
  <2> QED
    BY <2>1 DEF During
<1> QED
  BY <1>1, <1>2, StageStep
-----------------------------------------------------------------------------
(***************************************************************************)
(* The input on its way: the feeder is as many numbers ahead of do_fft as  *)
(* the FIFO holds, and the array is the input when the stages begin.       *)
(***************************************************************************)
Place == IF pc = "read" THEN index ELSE 0
InputInv ==
  /\ fed = (Place + Len(inFifo)) % N
  /\ \A i \in 1 .. Len(inFifo) : inFifo[i] = input[(Place + i - 1) % N]
  /\ pc = "read" => \A i \in 0 .. index - 1 : x[i] = input[i]
  /\ pc \in {"clear", "twiddle"} => x = input

(* A FIFO whose i-th element is number (p + i - 1) % n of a round.         *)
LEMMA NextOfRound ==
  ASSUME NEW n \in Nat, n > 0, NEW a \in Nat
  PROVE  /\ a % n \in 0 .. n - 1 /\ ((a % n) + 1) % n = (a + 1) % n
         /\ a < n => a % n = a
<1>1. a % n \in 0 .. n - 1 /\ a \div n \in Int /\ a = n * (a \div n) + (a % n)
  OBVIOUS
<1>2. PICK r \in Nat, q \in Int : r = a % n /\ q = a \div n /\ a = n * q + r
  BY <1>1
<1>3. a + 1 = (r + 1) + n * q
  BY <1>2
<1>4. PICK u \in Int, v \in Int : u = a + 1 /\ v = r + 1 /\ u = v + n * q
  BY <1>3
<1>5. Congruent(u, v, n)
  BY <1>4, Remainders
<1>6. ((a % n) + 1) % n = (a + 1) % n
  BY <1>2, <1>4, <1>5 DEF Congruent
<1> QED
  BY <1>1, <1>6

LEMMA RoundAgain ==
  ASSUME NEW n \in Nat, n > 0, NEW a \in Nat
  PROVE  (a + n) % n = a % n
<1>1. PICK u \in Int, v \in Int, q \in Int : u = a + n /\ v = a /\ q = 1 /\ u = v + n * q
  OBVIOUS
<1>2. Congruent(u, v, n)
  BY <1>1, Remainders
<1> QED
  BY <1>1, <1>2 DEF Congruent

LEMMA Appended ==
  ASSUME NEW S, NEW q \in Seq(S), NEW v \in S, NEW i \in 1 .. Len(q) + 1
  PROVE  Append(q, v)[i] = IF i = Len(q) + 1 THEN v ELSE q[i]
OBVIOUS

LEMMA TailElements ==
  ASSUME NEW S, NEW q \in Seq(S), q # <<>>
  PROVE  /\ Len(q) > 0 /\ Head(q) = q[1]
         /\ \A i \in 1 .. Len(q) - 1 : Tail(q)[i] = q[i + 1]
OBVIOUS

LEMMA InputInvInit == Init => InputInv
<1> SUFFICES ASSUME Init
             PROVE  InputInv
  OBVIOUS
<1>1. Place = 0 /\ Len(inFifo) = 0 /\ 0 % N = 0
  BY NFacts DEF Init, Place
<1> QED
  BY <1>1 DEF Init, InputInv

LEMMA InputInvFeed ==
  ASSUME TypeInv, InputInv, Feed
  PROVE  InputInv'
<1> USE DEF Feed, loop
<1>0. Len(inFifo) \in Nat
  BY FifoTypes DEF TypeInv, FifosOK
<1>1. PICK p \in Nat, m \in Nat : p = Place /\ m = Len(inFifo) /\ Place' = p
  <2>1. Place \in Nat /\ Place' = Place
    BY NFacts DEF TypeInv, TypeOK, Place
  <2> QED
    BY <1>0, <2>1
<1>2. fed = (p + m) % N
  BY <1>1 DEF InputInv
<1>3. input[fed] \in Complex /\ inFifo \in Seq(Complex)
  BY DEF TypeInv, TypeOK, FifosOK
<1>4. Len(inFifo') = m + 1 /\ \A i \in 1 .. m + 1 :
        inFifo'[i] = IF i = m + 1 THEN input[fed] ELSE inFifo[i]
  BY <1>1, <1>3, FifoTypes, Appended
<1>5. fed' = (p + (m + 1)) % N
  <2>1. PICK a \in Nat : a = p + m
    OBVIOUS
  <2>2. ((a % N) + 1) % N = (a + 1) % N
    BY NFacts, NextOfRound
  <2> QED
    BY <1>2, <2>1, <2>2
<1>6. ASSUME NEW i \in 1 .. m + 1
      PROVE  inFifo'[i] = input[(p + i - 1) % N]
  <2>1. CASE i = m + 1
    <3>1. p + i - 1 = p + m
      BY <2>1
    <3> QED
      BY <1>2, <1>4, <2>1, <3>1
  <2>2. CASE i # m + 1
    <3>1. i \in 1 .. m
      BY <2>2
    <3> QED
      BY <1>1, <1>4, <2>2, <3>1 DEF InputInv
  <2> QED
    BY <2>1, <2>2
<1> QED
  BY <1>1, <1>4, <1>5, <1>6 DEF InputInv

LEMMA InputInvReadSample ==
  ASSUME TypeInv, InputInv, ReadSample
  PROVE  InputInv'
<1> USE DEF ReadSample, loop, bench
<1>0. Len(inFifo) \in Nat
  BY FifoTypes DEF TypeInv, FifosOK
<1>1. PICK p \in 0 .. N - 1, m \in Nat : p = index /\ m = Len(inFifo) /\ p = Place
  <2>1. index \in 0 .. N - 1 /\ Place = index
    BY NFacts DEF TypeInv, TypeOK, CountersOK, Place
  <2> QED
    BY <1>0, <2>1
<1>2. /\ inFifo \in Seq(Complex) /\ m > 0 /\ Len(inFifo') = m - 1 /\ Head(inFifo) = inFifo[1]
      /\ \A i \in 1 .. m - 1 : inFifo'[i] = inFifo[i + 1]
  <2>1. inFifo \in Seq(Complex) /\ inFifo # <<>>
    BY DEF TypeInv, FifosOK
  <2>2. m > 0 /\ Head(inFifo) = inFifo[1] /\ \A i \in 1 .. m - 1 : Tail(inFifo)[i] = inFifo[i + 1]
    BY <1>1, <2>1, TailElements
  <2>3. Len(Tail(inFifo)) = m - 1
    BY <1>1, <2>1, FifoTypes
  <2> QED
    BY <2>1, <2>2, <2>3
<1>3. /\ fed = (p + m) % N
      /\ \A i \in 1 .. m : inFifo[i] = input[(p + i - 1) % N]
      /\ \A i \in 0 .. p - 1 : x[i] = input[i]
  BY <1>1 DEF InputInv
<1>4. Head(inFifo) = input[p]
  <2>1. (p + 1 - 1) % N = p
    <3>1. p \in Nat /\ p < N /\ p + 1 - 1 = p
      BY NFacts
    <3> QED
      BY <3>1, NFacts, NextOfRound
  <2>2. inFifo[1] = input[(p + 1 - 1) % N]
    BY <1>2, <1>3
  <2> QED
    BY <1>2, <2>1, <2>2
<1>5. /\ x' \in [0 .. N - 1 -> Complex] /\ input \in [0 .. N - 1 -> Complex]
      /\ \A i \in 0 .. N - 1 : x'[i] = IF i = p THEN input[p] ELSE x[i]
  <2>1. x \in [0 .. N - 1 -> Complex] /\ input \in [0 .. N - 1 -> Complex]
    BY DEF TypeInv, TypeOK, FifosOK
  <2>2. input[p] \in Complex
    BY <2>1
  <2> QED
    BY <1>1, <1>4, <2>1, <2>2
<1>6. \A i \in 0 .. p : x'[i] = input[i]
  BY <1>3, <1>5
<1>7. ASSUME NEW q \in {0, p + 1}, q = 0 => p = N - 1, q = p + 1 => p < N - 1
      PROVE  /\ fed = (q + (m - 1)) % N
             /\ \A i \in 1 .. m - 1 : inFifo'[i] = input[(q + i - 1) % N]
  <2>1. ASSUME NEW a \in Nat
        PROVE  (q + a) % N = (p + (a + 1)) % N
    <3>1. CASE q = p + 1
      <4>1. q + a = p + (a + 1)
        BY <3>1
      <4> QED
        BY <4>1
    <3>2. CASE q = 0
      <4>1. p + (a + 1) = a + N /\ q + a = a
        BY <1>7, <3>2, NFacts
      <4>2. (a + N) % N = a % N
        <5>1. N \in Nat /\ N > 0
          BY NFacts
        <5> QED
          BY <5>1, RoundAgain
      <4> QED
        BY <4>1, <4>2
    <3> QED
      BY <3>1, <3>2
  <2>2. fed = (q + (m - 1)) % N
    <3>1. m - 1 \in Nat /\ (m - 1) + 1 = m
      BY <1>2
    <3>2. (q + (m - 1)) % N = (p + ((m - 1) + 1)) % N
      BY <2>1, <3>1
    <3> QED
      BY <1>3, <3>1, <3>2
  <2>3. ASSUME NEW i \in 1 .. m - 1
        PROVE  inFifo'[i] = input[(q + i - 1) % N]
    <3>1. i - 1 \in Nat /\ q + (i - 1) = q + i - 1 /\ p + ((i - 1) + 1) = p + (i + 1) - 1
          /\ i + 1 \in 1 .. m
      OBVIOUS
    <3>2. (q + i - 1) % N = (p + (i + 1) - 1) % N
      BY <2>1, <3>1
    <3> QED
      BY <1>2, <1>3, <3>1, <3>2
  <2> QED
    BY <2>2, <2>3
<1>8. CASE p < N - 1
  <2>1. pc' = "read" /\ index' = p + 1 /\ Place' = p + 1
    BY <1>1, <1>8 DEF Place
  <2>2. /\ fed' = ((p + 1) + (m - 1)) % N
        /\ \A i \in 1 .. m - 1 : inFifo'[i] = input'[((p + 1) + i - 1) % N]
    <3>1. p + 1 \in {0, p + 1} /\ p + 1 # 0 /\ fed' = fed /\ input' = input
      OBVIOUS
    <3> QED
      BY <1>7, <1>8, <3>1
  <2>3. \A i \in 0 .. index' - 1 : x'[i] = input'[i]
    BY <1>6, <2>1
  <2> QED
    BY <1>2, <2>1, <2>2, <2>3 DEF InputInv
<1>9. CASE p = N - 1
  <2>1. pc' = "clear" /\ Place' = 0
    BY <1>1, <1>9 DEF Place
  <2>2. /\ fed' = (0 + (m - 1)) % N
        /\ \A i \in 1 .. m - 1 : inFifo'[i] = input'[(0 + i - 1) % N]
    <3>1. 0 \in {0, p + 1} /\ 0 # p + 1 /\ fed' = fed /\ input' = input
      OBVIOUS
    <3> QED
      BY <1>7, <1>9, <3>1
  <2>3. x' = input'
    BY <1>5, <1>6, <1>9
  <2> QED
    BY <1>2, <2>1, <2>2, <2>3 DEF InputInv
<1> QED
  BY <1>8, <1>9, NFacts

LEMMA InputInvStep == TypeInv /\ InputInv /\ [Next]_vars => InputInv'
<1> SUFFICES ASSUME TypeInv, InputInv, [Next]_vars
             PROVE  InputInv'
  OBVIOUS
<1>1. CASE UNCHANGED vars \/ Fetch
  BY <1>1 DEF vars, bench, loop, Fetch, InputInv, Place
<1>2. CASE ClearTwiddles \/ MakeTwiddle
  BY <1>2 DEF ClearTwiddles, MakeTwiddle, bench, loop, InputInv, Place
<1>3. CASE StartStages \/ StartStage \/ FirstButterfly \/ StartColumns \/ Butterfly \/ NextColumn
           \/ EndStage \/ EndStages
  <2>1. pc \notin {"read"} /\ pc' \notin {"read", "clear", "twiddle"}
        /\ UNCHANGED <<fed, input, inFifo>>
    BY <1>3 DEF StartStages, StartStage, FirstButterfly, StartColumns, Butterfly, NextColumn,
                EndStage, EndStages, bench, loop
  <2> QED
    BY <2>1 DEF InputInv, Place
<1>4. CASE WriteResult
  <2>1. Place' = Place /\ pc' \in {"read", "write"} /\ UNCHANGED <<fed, input, inFifo>>
    BY <1>4 DEF WriteResult, Place, bench, loop
  <2>2. pc' = "read" => 0 .. index' - 1 = {}
    BY <1>4 DEF WriteResult
  <2> QED
    BY <2>1, <2>2 DEF InputInv
<1> QED
  BY <1>1, <1>2, <1>3, <1>4, InputInvFeed, InputInvReadSample DEF Next, DoFft
-----------------------------------------------------------------------------
(***************************************************************************)
(* The exact format.  The factors are the powers of the root, and before,  *)
(* during and after each stage the array is what the definition of the     *)
(* transform says.                                                         *)
(***************************************************************************)
FactorsInv ==
  format = "exact" =>
    /\ pc = "twiddle" => \A i \in 0 .. index - 1 : tf[i] = Roots[i + 1]
    /\ pc \in {"stage", "first", "rest"} => \A i \in 0 .. W - 1 : tf[i] = Roots[i + 1]

StagesInv ==
  format = "exact" =>
    /\ pc = "stage" => Blocks(x, stage, len, input)
    /\ pc = "first" => \E y : During(y, x, stage, len, incr, 0, index, input)
    /\ pc = "rest" => \E y : During(y, x, stage, len, incr, l, index, input)
    /\ pc = "write" => \A b \in 0 .. N - 1 : Alike(x[b], Dft(input, N, BitsReversed[M][b]))

LEMMA ExactType ==
  ASSUME TypeInv, format = "exact"
  PROVE  /\ Complex = Exact /\ Exact \subseteq Z
         /\ x \in [0 .. N - 1 -> Exact] /\ tf \in [0 .. W - 1 -> Exact]
         /\ input \in [0 .. N - 1 -> Exact]
BY ConstantsType DEF TypeInv, TypeOK, FifosOK, Complex, Numbers, Exact

LEMMA ExactOperations ==
  ASSUME format = "exact", NEW a, NEW b
  PROVE  Word(a) = Exactly(a) /\ Assembled(a) = Exactly(a) /\ Times(a, b) = Exactly(Product(a, b))
BY DEF Word, Assembled, Times, Cut

LEMMA FactorsInvStep ==
  ASSUME Turn("exact") = NthRoot, TypeInv, FactorsInv, [Next]_vars
  PROVE  FactorsInv'
<1> SUFFICES ASSUME format' = "exact"
             PROVE  FactorsInv'
  BY DEF FactorsInv
<1>1. format = "exact"
  BY DEF Next, DoFft, Feed, Fetch, ReadSample, ClearTwiddles, MakeTwiddle, StartStages, StartStage,
         FirstButterfly, StartColumns, Butterfly, NextColumn, EndStage, EndStages, WriteResult,
         bench, vars
<1>2. CASE UNCHANGED vars \/ Feed \/ Fetch
  BY <1>1, <1>2 DEF vars, bench, loop, Feed, Fetch, FactorsInv
<1>3. CASE ReadSample
  <2>1. pc' \in {"read", "clear"}
    BY <1>3 DEF ReadSample
  <2> QED
    BY <2>1 DEF FactorsInv
<1>4. CASE ClearTwiddles
  <2>1. pc' = "twiddle" /\ index' = 0
    BY <1>4 DEF ClearTwiddles, TypeInv, CountersOK
  <2> QED
    BY <2>1 DEF FactorsInv
<1>5. CASE MakeTwiddle
  <2> USE <1>5 DEF MakeTwiddle
  <2>1. /\ index \in 0 .. W - 1 /\ tf \in [0 .. W - 1 -> Exact] /\ pc = "twiddle"
        /\ index + 1 \in 1 .. N - 1 /\ (index + 1) - 1 = index
    BY <1>1, NFacts, ExactType DEF TypeInv, TypeOK
  <2>2. (IF index = 0 THEN One ELSE tf[index - 1]) = Roots[index]
    <3>1. CASE index = 0
      BY <1>1, <3>1, RootsRecursion DEF One
    <3>2. CASE index # 0
      <4>1. index - 1 \in 0 .. index - 1 /\ (index - 1) + 1 = index
        BY <2>1, <3>2
      <4> QED
        BY <1>1, <2>1, <3>2, <4>1 DEF FactorsInv
    <3> QED
      BY <3>1, <3>2
  <2>3. TurnedOn(Roots[index]) = Roots[index + 1]
    BY <1>1, <2>1, ExactOperations, RootsRecursion DEF TurnedOn
  <2>4. /\ pc' = "twiddle" /\ index' = index + 1
        /\ tf' = [tf EXCEPT ![index] = Roots[index + 1]]
    BY <2>1, <2>2, <2>3
  <2>5. ASSUME NEW i \in 0 .. index
        PROVE  tf'[i] = Roots[i + 1]
    <3>0. i \in 0 .. W - 1
      BY <2>1, NFacts
    <3>1. tf'[i] = IF i = index THEN Roots[index + 1] ELSE tf[i]
      BY <2>1, <2>4, <3>0
    <3>2. i # index => i \in 0 .. index - 1
      BY <2>1
    <3> QED
      BY <1>1, <2>1, <3>1, <3>2 DEF FactorsInv
  <2>6. index' - 1 = index
    BY <2>1, <2>4
  <2> QED
    BY <2>4, <2>5, <2>6 DEF FactorsInv
<1>6. CASE StartStages
  BY <1>1, <1>6 DEF StartStages, FactorsInv
<1>7. CASE StartStage \/ FirstButterfly \/ StartColumns \/ Butterfly \/ NextColumn \/ EndStage
  <2>1. pc \in {"stage", "first", "rest"} /\ pc' \in {"stage", "first", "rest"} /\ tf' = tf
    BY <1>7 DEF StartStage, FirstButterfly, StartColumns, Butterfly, NextColumn, EndStage
  <2> QED
    BY <1>1, <2>1 DEF FactorsInv
<1>8. CASE EndStages \/ WriteResult
  <2>1. pc' \in {"write", "read"}
    BY <1>8 DEF EndStages, WriteResult
  <2> QED
    BY <2>1 DEF FactorsInv
<1> QED
  BY <1>2, <1>3, <1>4, <1>5, <1>6, <1>7, <1>8 DEF Next, DoFft

(* The transform of the whole input, one block of N points, and of the N   *)
(* blocks of one point.                                                    *)
LEMMA OneBlock ==
  ASSUME NEW inp \in [0 .. N - 1 -> Exact]
  PROVE  Blocks(inp, 0, N, inp)
<1> SUFFICES ASSUME NEW b \in 0 .. TwoTo[0] - 1, NEW j \in 0 .. N - 1
             PROVE  Dft(Block(inp, N, b), N, j) = Dft(inp, N, j * TwoTo[0] + BitsReversed[0][b])
  BY DEF Blocks, Alike
<1>1. b = 0 /\ TwoTo[0] = 1 /\ 0 \in 0 .. N - 1
  BY NFacts
<1>2. j * TwoTo[0] + BitsReversed[0][b] = j
  BY <1>1, BitsReversedRecursion
<1>3. \A n \in 0 .. N - 1 : Block(inp, N, b)[n] = inp[n]
  <2>1. \A n \in 0 .. N - 1 : 0 * N + n = n
    BY NFacts
  <2> QED
    BY <1>1, <2>1 DEF Block
<1>4. Terms(Block(inp, N, b), N, j) = Terms(inp, N, j)
  BY <1>3 DEF Terms
<1> QED
  BY <1>2, <1>4 DEF Dft

LEMMA OnePoint ==
  ASSUME NEW a, a[0] \in Z
  PROVE  Dft(a, 1, 0) = a[0]
<1>1. N \div 1 = N /\ 0 * 0 * N = 0 /\ Root(0) = <<1, 0>>
  <2>1. N \in Nat /\ N > 0 /\ \A d \in Nat : d \div 1 = d /\ 0 * 0 * d = 0
    BY NFacts
  <2>2. 0 % N = 0
    BY <2>1
  <2> QED
    BY <2>1, <2>2, RootsRecursion DEF Root
<1>2. Terms(a, 1, 0) = [n \in 0 .. 0 |-> Product(a[n], Root(n * 0 * (N \div 1)))]
  BY DEF Terms
<1> DEFINE f == Terms(a, 1, 0)
<1>3. f[0] = a[0]
  <2>1. f[0] = Product(a[0], Root(0 * 0 * (N \div 1)))
    BY <1>2
  <2>2. Product(a[0], <<1, 0>>) = a[0]
    BY ProductLaws
  <2> QED
    BY <1>1, <2>1, <2>2
<1> HIDE DEF f
<1>4. ASSUME NEW i \in {1, 2}
      PROVE  Total(Parts(f, 0 .. 0, i), 0 .. 0) = a[0][i]
  <2> DEFINE g == Parts(f, 0 .. 0, i)
  <2>1. g[0] = a[0][i] /\ a[0][i] \in Int
    BY <1>3 DEF Parts, Z
  <2> HIDE DEF g
  <2>2. \A k \in 0 .. 0 : g[k] \in Int
    BY <2>1
  <2>3. Total(g, 0 .. 0) = g[0] + Total(g, 0 .. 0 - 1)
    BY <2>2, TotalNext
  <2>4. 0 .. 0 - 1 = {} /\ Total(g, {}) = 0
    BY TotalEmpty
  <2> QED
    BY <2>1, <2>3, <2>4 DEF g
<1>5. SumOf(f, 0 .. 0) = <<a[0][1], a[0][2]>>
  BY <1>4, SumOfTotals
<1>6. <<a[0][1], a[0][2]>> = a[0]
  BY DEF Z
<1>7. Dft(a, 1, 0) = SumOf(f, 0 .. 0)
  BY DEF Dft, f
<1> QED
  BY <1>5, <1>6, <1>7

LEMMA OnePointBlocks ==
  ASSUME NEW z \in [0 .. N - 1 -> Exact], NEW inp, Blocks(z, M, 1, inp), NEW b \in 0 .. N - 1
  PROVE  Alike(z[b], Dft(inp, N, BitsReversed[M][b]))
<1>1. b \in 0 .. TwoTo[M] - 1 /\ 0 \in 0 .. 1 - 1 /\ M \in 0 .. M /\ TwoTo[M] \in Nat
  BY NFacts
<1>2. Alike(Dft(Block(z, 1, b), 1, 0), Dft(inp, N, 0 * TwoTo[M] + BitsReversed[M][b]))
  BY <1>1 DEF Blocks
<1>3. Block(z, 1, b)[0] = z[b] /\ z[b] \in Z
  <2>1. Block(z, 1, b)[0] = z[b * 1 + 0]
    BY DEF Block
  <2>2. b * 1 + 0 = b
    OBVIOUS
  <2> QED
    BY <2>1, <2>2, ConstantsType
<1>4. Dft(Block(z, 1, b), 1, 0) = z[b]
  BY <1>3, OnePoint
<1>5. 0 * TwoTo[M] + BitsReversed[M][b] = BitsReversed[M][b]
  BY <1>1, BitsReversedType
<1> QED
  BY <1>2, <1>4, <1>5

LEMMA StagesInvButterflies ==
  ASSUME TypeInv, FactorsInv, StagesInv, format = "exact", FirstButterfly \/ Butterfly, TypeInv'
  PROVE  StagesInv'
<1> USE DEF loop, bench
<1>1. /\ pc \in {"first", "rest"} /\ pc' = pc
      /\ UNCHANGED <<format, stage, len, incr, l, input>>
      /\ index' = index + 2 * len
  BY DEF FirstButterfly, Butterfly
<1>2. /\ len \in Nat /\ len > 0 /\ incr \in Nat /\ incr * (2 * len) = N /\ incr * len = N \div 2
  BY <1>1, StageFacts
<1>3. /\ x \in [0 .. N - 1 -> Exact] /\ x' \in [0 .. N - 1 -> Exact]
  BY <1>1, ExactType DEF TypeInv, TypeOK, Complex, Numbers, Exact
<1>4. CASE FirstButterfly
  <2>1. pc = "first" /\ index < N
    BY <1>4 DEF FirstButterfly
  <2>2. PICK k \in 0 .. incr - 1 :
          /\ index = k * (2 * len)
          /\ index \in 0 .. N - 1 /\ index + len \in 0 .. N - 1
    BY <2>1, FirstButterflyBounds
  <2>3. PICK y : During(y, x, stage, len, incr, 0, index, input)
    BY <2>1 DEF StagesInv
  <2>4. x' = [x EXCEPT ![index] = Exactly(Plus(x[index], x[index + len])),
                       ![index + len] = Exactly(Minus(x[index], x[index + len]))]
    BY <1>4, ExactOperations DEF FirstButterfly
  <2>5. /\ x'[index] = Exactly(Plus(x[index], x[index + len]))
        /\ x'[index + len] = Exactly(Minus(x[index], x[index + len]))
        /\ \A i \in 0 .. N - 1 : i # index /\ i # index + len => x'[i] = x[i]
    <3>1. index # index + len
      BY <1>2, <2>2
    <3> QED
      BY <1>3, <2>2, <2>4, <3>1
  <2>6. Minus(x[index], x[index + len]) = Product(Minus(x[index], x[index + len]), Roots[0 * incr])
    <3>1. 0 * incr = 0
      BY <1>2
    <3>2. Minus(x[index], x[index + len]) \in Z
      BY <1>3, <2>2, ConstantsType, OperationsType
    <3> QED
      BY <3>1, <3>2, RootsRecursion, ProductLaws
  <2>7. index = 0 + k * (2 * len) /\ 0 \in 0 .. len - 1
    BY <1>2, <2>2
  <2>8. x'[index + len] = Exactly(Product(Minus(x[index], x[index + len]), Roots[0 * incr]))
    BY <2>5, <2>6
  <2>9. During(y, x', stage, len, incr, 0, index + 2 * len, input)
    BY <1>2, <2>2, <2>3, <2>5, <2>7, <2>8, PairStep
  <2> QED
    BY <1>1, <2>1, <2>9 DEF StagesInv
<1>5. CASE Butterfly
  <2>1. pc = "rest" /\ l < len /\ index < N
    BY <1>5 DEF Butterfly
  <2>2. PICK k \in 0 .. incr - 1 :
          /\ index = l + k * (2 * len)
          /\ index \in 0 .. N - 1 /\ index + len \in 0 .. N - 1 /\ windex \in 0 .. W - 1
    BY <2>1, ButterflyBounds
  <2>3. PICK y : During(y, x, stage, len, incr, l, index, input)
    BY <2>1 DEF StagesInv
  <2>4. tf[windex] = Roots[l * incr]
    <3>1. tf[windex] = Roots[windex + 1]
      BY <1>1, <2>2 DEF FactorsInv
    <3> QED
      BY <2>1, <3>1 DEF TypeInv, CountersOK
  <2>5. x' = [x EXCEPT ![index] = Exactly(Plus(x[index], x[index + len])),
                       ![index + len] =
                         Exactly(Product(Minus(x[index], x[index + len]), Roots[l * incr]))]
    BY <1>5, <2>4, ExactOperations DEF Butterfly
  <2>6. /\ x'[index] = Exactly(Plus(x[index], x[index + len]))
        /\ x'[index + len] = Exactly(Product(Minus(x[index], x[index + len]), Roots[l * incr]))
        /\ \A i \in 0 .. N - 1 : i # index /\ i # index + len => x'[i] = x[i]
    <3>1. index # index + len
      BY <1>2, <2>2
    <3> HIDE <1>5
    <3> QED
      BY <1>3, <2>2, <2>5, <3>1
  <2>7. l \in 0 .. len - 1
    BY <1>2, <2>1 DEF TypeInv, TypeOK
  <2>8. During(y, x', stage, len, incr, l, index + 2 * len, input)
    BY <1>2, <2>2, <2>3, <2>6, <2>7, PairStep
  <2> QED
    BY <1>1, <2>1, <2>8 DEF StagesInv
<1> QED
  BY <1>4, <1>5

LEMMA StagesInvColumns ==
  ASSUME TypeInv, StagesInv, format = "exact", StartColumns \/ NextColumn
  PROVE  StagesInv'
<1> USE DEF loop, bench
<1>1. /\ pc \in {"first", "rest"} /\ pc' = "rest" /\ index >= N
      /\ UNCHANGED <<format, stage, len, incr, x, input>>
      /\ index' = l' /\ l' = (IF pc = "first" THEN 0 ELSE l) + 1
  BY DEF StartColumns, NextColumn, TypeInv, TypeOK
<1>2. PICK c \in Nat : c = (IF pc = "first" THEN 0 ELSE l) /\ l' = c + 1 /\ index' = c + 1
  BY <1>1 DEF TypeInv, TypeOK
<1>3. /\ len \in Nat /\ len > 0 /\ incr \in Nat /\ incr * (2 * len) = N /\ index \in Nat
  BY <1>1, NFacts, StageFacts DEF TypeInv, TypeOK
<1>4. PICK y : During(y, x, stage, len, incr, c, index, input)
  BY <1>1, <1>2 DEF StagesInv
<1>5. During(y, x, stage, len, incr, c + 1, c + 1, input)
  BY <1>1, <1>3, <1>4, ColumnStep
<1> QED
  BY <1>1, <1>2, <1>5 DEF StagesInv

LEMMA StagesInvStages ==
  ASSUME TypeInv, InputInv, StagesInv, format = "exact", TypeInv',
         StartStages \/ StartStage \/ EndStage \/ EndStages
  PROVE  StagesInv'
<1> USE DEF loop, bench
<1>0. x \in [0 .. N - 1 -> Exact] /\ input \in [0 .. N - 1 -> Exact]
  BY ExactType
<1>1. CASE StartStages
  <2>1. pc' = "stage" /\ stage' = 0 /\ len' = N /\ x' = input /\ input' = input
    BY <1>1 DEF StartStages, InputInv
  <2>2. Blocks(input, 0, N, input)
    BY <1>0, OneBlock
  <2> QED
    BY <2>1, <2>2 DEF StagesInv
<1>2. CASE StartStage
  <2>1. /\ pc = "stage" /\ pc' = "first" /\ index' = 0
        /\ UNCHANGED <<stage, incr, x, input>>
    BY <1>2 DEF StartStage
  <2>2. /\ TwoTo[M - stage] = 2 * len' /\ len' \in Nat /\ incr' \in Nat
    <3>1. stage < M /\ len' = TwoTo[M - stage - 1] /\ incr = TwoTo[stage] /\ stage \in 0 .. M
      BY <2>1 DEF TypeInv, TypeOK, StageOK
    <3>2. M - stage \in 1 .. M /\ M - stage - 1 \in 0 .. M
      BY <3>1, NFacts
    <3> QED
      BY <2>1, <3>1, <3>2, TwoToType, TwoToRecursion
  <2>3. len = TwoTo[M - stage]
    BY <2>1 DEF TypeInv, StageOK
  <2>4. Blocks(x, stage, 2 * len', input)
    BY <2>1, <2>2, <2>3 DEF StagesInv
  <2>5. During(x, x, stage, len', incr', 0, 0, input)
    BY <1>0, <2>2, <2>4, StageBegins
  <2> QED
    BY <2>1, <2>5 DEF StagesInv
<1>3. CASE EndStage
  <2>1. /\ pc = "rest" /\ l >= len /\ pc' = "stage" /\ stage' = stage + 1
        /\ UNCHANGED <<len, x, input>>
    BY <1>3 DEF EndStage
  <2>2. PICK y : During(y, x, stage, len, incr, l, index, input)
    BY <2>1 DEF StagesInv
  <2>3. /\ len \in Nat /\ len > 0 /\ incr \in Nat /\ incr > 0 /\ incr * (2 * len) = N
        /\ incr = TwoTo[stage] /\ stage \in Nat /\ stage < M /\ l \in Nat
    BY <2>1, NFacts, StageFacts DEF TypeInv, TypeOK
  <2>4. Blocks(x, stage + 1, len, input)
    BY <1>0, <2>1, <2>2, <2>3, StageEnds
  <2> QED
    BY <2>1, <2>4 DEF StagesInv
<1>4. CASE EndStages
  <2>1. pc = "stage" /\ stage = M /\ pc' = "write" /\ UNCHANGED <<x, input>>
    BY <1>4 DEF EndStages
  <2>2. len = 1
    BY <2>1, NFacts DEF TypeInv, StageOK
  <2>3. Blocks(x, M, 1, input)
    BY <2>1, <2>2 DEF StagesInv
  <2>4. \A b \in 0 .. N - 1 : Alike(x[b], Dft(input, N, BitsReversed[M][b]))
    BY <1>0, <2>3, OnePointBlocks
  <2> QED
    BY <2>1, <2>4 DEF StagesInv
<1> QED
  BY <1>1, <1>2, <1>3, <1>4

LEMMA StagesInvStep ==
  ASSUME TypeInv, InputInv, FactorsInv, StagesInv, [Next]_vars, TypeInv'
  PROVE  StagesInv'
<1> SUFFICES ASSUME format' = "exact"
             PROVE  StagesInv'
  BY DEF StagesInv
<1>1. format = "exact"
  BY DEF Next, DoFft, Feed, Fetch, ReadSample, ClearTwiddles, MakeTwiddle, StartStages, StartStage,
         FirstButterfly, StartColumns, Butterfly, NextColumn, EndStage, EndStages, WriteResult,
         bench, vars
<1>2. CASE UNCHANGED vars \/ Feed \/ Fetch
  <2>1. UNCHANGED <<pc, x, stage, len, incr, l, index, input>>
    BY <1>2 DEF vars, bench, loop, Feed, Fetch
  <2> QED
    BY <1>1, <2>1 DEF StagesInv
<1>3. CASE ReadSample \/ ClearTwiddles \/ MakeTwiddle
  <2>1. pc' \in {"read", "clear", "twiddle"}
    BY <1>3 DEF ReadSample, ClearTwiddles, MakeTwiddle
  <2> QED
    BY <2>1 DEF StagesInv
<1>4. CASE WriteResult
  <2>1. pc = "write" /\ pc' \in {"read", "write"} /\ UNCHANGED <<x, input>>
    BY <1>4 DEF WriteResult, bench
  <2> QED
    BY <1>1, <2>1 DEF StagesInv
<1> QED
  BY <1>1, <1>2, <1>3, <1>4, StagesInvButterflies, StagesInvColumns, StagesInvStages
     DEF Next, DoFft

ExactInv == TypeInv /\ InputInv /\ FactorsInv /\ StagesInv

LEMMA ExactInvInit == Init => ExactInv
<1> SUFFICES ASSUME Init
             PROVE  ExactInv
  OBVIOUS
<1>1. pc = "read"
  BY DEF Init
<1> QED
  BY <1>1, TypeInvInit, InputInvInit DEF ExactInv, FactorsInv, StagesInv

LEMMA ExactInvStep ==
  Turn("exact") = NthRoot => (ExactInv /\ [Next]_vars => ExactInv')
BY TypeInvStep, InputInvStep, FactorsInvStep, StagesInvStep DEF ExactInv

LEMMA SpecExactInv == Turn("exact") = NthRoot => (Spec => []ExactInv)
<1> SUFFICES ASSUME Turn("exact") = NthRoot
             PROVE  Spec => []ExactInv
  OBVIOUS
<1>1. ExactInv /\ [Next]_vars => ExactInv'
  BY ExactInvStep
<1> QED
  BY <1>1, ExactInvInit, PTL DEF Spec

LEMMA AgreeIsAlike ==
  ASSUME format = "exact", NEW d \in Z, NEW e \in Z
  PROVE  Agree(d, e) <=> Alike(d, e)
<1>1. PICK d1 \in Int, d2 \in Int, e1 \in Int, e2 \in Int : d = <<d1, d2>> /\ e = <<e1, e2>>
  BY DEF Z
<1>2. /\ Congruent(d1, e1, P) <=> (d1 - e1) % P = 0
      /\ Congruent(d2, e2, P) <=> (d2 - e2) % P = 0
  <2>1. P \in Nat /\ P > 0
    BY NFacts
  <2> QED
    BY <2>1, Remainders
<1>3. Alike(d, e) <=> Congruent(d1, e1, P) /\ Congruent(d2, e2, P)
  BY <1>1, AlikeParts
<1> QED
  BY <1>1, <1>2, <1>3 DEF Agree, Exactly, Minus, Zero

LEMMA DftType ==
  ASSUME NEW a, NEW L \in Nat, L > 0, NEW k \in Nat, \A n \in 0 .. L - 1 : a[n] \in Z
  PROVE  Dft(a, L, k) \in Z
<1>1. N \div L \in Nat
  BY NFacts
<1>2. PICK q \in Nat : q = N \div L
  BY <1>1
<1>3. \A n \in 0 .. L - 1 : n * k * q \in Nat
  OBVIOUS
<1>4. \A n \in 0 .. L - 1 : Terms(a, L, k)[n] = Product(a[n], Root(n * k * q))
  BY <1>2 DEF Terms
<1>5. \A n \in 0 .. L - 1 : Terms(a, L, k)[n] \in Z
  BY <1>3, <1>4, RootType, OperationsType
<1> QED
  BY <1>5, SumOfType DEF Dft

(* Between the stages the transforms of the blocks are the transform of    *)
(* the input: the whole do_fft with exact numbers, for every size.         *)
THEOREM BlocksCorrectExactly ==
  Turn("exact") = NthRoot => (Spec => [](format = "exact" => BlocksCorrect))
<1>1. ASSUME ExactInv, format = "exact"
      PROVE  BlocksCorrect
  <2> USE <1>1 DEF ExactInv
  <2> SUFFICES ASSUME pc = "stage", NEW b \in 0 .. TwoTo[stage] - 1, NEW j \in 0 .. len - 1
               PROVE  Agree(DFT([n \in 0 .. len - 1 |-> x[b * len + n]], len, j),
                            DFT(input, N, j * TwoTo[stage] + BitsReversed[stage][b]))
    BY DEF BlocksCorrect
  <2>1. /\ x \in [0 .. N - 1 -> Exact] /\ input \in [0 .. N - 1 -> Exact] /\ Exact \subseteq Z
    BY ExactType
  <2>2. /\ stage \in 0 .. M /\ len = TwoTo[M - stage] /\ M - stage \in 0 .. M
        /\ TwoTo[stage] \in Nat /\ len \in Nat /\ len > 0 /\ TwoTo[stage] * len = N
    <3>1. stage \in 0 .. M /\ len = TwoTo[M - stage] /\ M - stage \in 0 .. M
      BY NFacts DEF TypeInv, TypeOK, StageOK
    <3> QED
      BY <3>1, TwoToType, TwoToProduct
  <2>3. Alike(Dft(Block(x, len, b), len, j), Dft(input, N, j * TwoTo[stage] + BitsReversed[stage][b]))
    BY DEF StagesInv, Blocks
  <2>4. \A n \in 0 .. len - 1 : b * len + n \in 0 .. N - 1
    <3>1. PICK h \in Nat, k \in Nat : h = len /\ k = TwoTo[stage] /\ h > 0 /\ k * h = N
      BY <2>2
    <3>2. b + 1 <= k /\ b \in Nat
      BY <3>1
    <3>3. \A u, v, w \in Nat : u <= v => u * w <= v * w
      OBVIOUS
    <3>4. (b + 1) * h <= N /\ (b + 1) * h = b * h + h
      BY <3>1, <3>2, <3>3
    <3>5. PICK m \in Nat : m = b * h
      BY <3>2
    <3> QED
      BY <3>1, <3>4, <3>5, NFacts
  <2>5. \A n \in 0 .. len - 1 : Block(x, len, b)[n] \in Z
    BY <2>1, <2>4 DEF Block
  <2>6. Dft(Block(x, len, b), len, j) \in Z
    BY <2>2, <2>5, DftType
  <2>7. b \in 0 .. N - 1
    BY <2>2, <2>4
  <2>8. j * TwoTo[stage] + BitsReversed[stage][b] \in Nat
    <3>1. BitsReversed[stage][b] \in Nat
      BY <2>2, <2>7, BitsReversedType
    <3>2. \A u, v, w \in Nat : u * v + w \in Nat
      OBVIOUS
    <3> QED
      BY <2>2, <3>1, <3>2
  <2>9. Dft(input, N, j * TwoTo[stage] + BitsReversed[stage][b]) \in Z
    BY <2>1, <2>8, NFacts, DftType
  <2>10. Block(x, len, b) = [n \in 0 .. len - 1 |-> x[b * len + n]]
    BY DEF Block
  <2> QED
    BY <2>3, <2>6, <2>9, <2>10, AgreeIsAlike, DFTIsDft
<1>2. ExactInv => (format = "exact" => BlocksCorrect)
  BY <1>1
<1>3. SUFFICES ASSUME Turn("exact") = NthRoot
               PROVE  Spec => [](format = "exact" => BlocksCorrect)
  OBVIOUS
<1>4. Spec => []ExactInv
  BY <1>3, SpecExactInv
<1> QED
  BY <1>2, <1>4, PTL
-----------------------------------------------------------------------------
(***************************************************************************)
(* The output on its way.  The four bits of bits_index are those of an     *)
(* index of sixteen points: there the words leave in the order of their    *)
(* frequencies, and each is stored at its own.                             *)
(***************************************************************************)
LEMMA FourBits ==
  ASSUME M = 4, NEW r \in 0 .. N - 1
  PROVE  Reversed(r) \in 0 .. N - 1 /\ BitsReversed[M][Reversed(r)] = r
<1>1. TwoTo[0] = 1 /\ TwoTo[1] = 2 /\ TwoTo[2] = 4 /\ TwoTo[3] = 8 /\ N = 16
  <2>1. 1 \in 1 .. M /\ 2 \in 1 .. M /\ 3 \in 1 .. M /\ 4 \in 1 .. M
    OBVIOUS
  <2>2. /\ TwoTo[1] = 2 * TwoTo[1 - 1] /\ TwoTo[2] = 2 * TwoTo[2 - 1]
        /\ TwoTo[3] = 2 * TwoTo[3 - 1] /\ TwoTo[4] = 2 * TwoTo[4 - 1]
    BY <2>1, TwoToRecursion
  <2> QED
    BY <2>2, NFacts
<1>2. PICK a \in 0 .. 1, b \in 0 .. 1, c \in 0 .. 1, d \in 0 .. 1 :
        r = a + 2 * b + 4 * c + 8 * d
  <2>1. /\ r % 2 \in 0 .. 1 /\ (r \div 2) % 2 \in 0 .. 1 /\ (r \div 4) % 2 \in 0 .. 1
        /\ (r \div 8) % 2 \in 0 .. 1
        /\ r = (r % 2) + 2 * ((r \div 2) % 2) + 4 * ((r \div 4) % 2) + 8 * ((r \div 8) % 2)
    BY <1>1
  <2> QED
    BY <2>1
<1>3. Bit(r, 0) = a /\ Bit(r, 1) = b /\ Bit(r, 2) = c /\ Bit(r, 3) = d
  BY <1>1, <1>2 DEF Bit
<1>4. PICK v \in 0 .. 15 : v = 8 * a + 4 * b + 2 * c + d /\ v = Reversed(r)
  BY <1>2, <1>3 DEF Reversed
<1>5. /\ v % 2 = d /\ v \div 2 = 4 * a + 2 * b + c
      /\ (4 * a + 2 * b + c) % 2 = c /\ (4 * a + 2 * b + c) \div 2 = 2 * a + b
      /\ (2 * a + b) % 2 = b /\ (2 * a + b) \div 2 = a
      /\ a % 2 = a /\ a \div 2 = 0
  BY <1>4
<1>6. /\ v \in 0 .. N - 1 /\ 4 * a + 2 * b + c \in 0 .. N - 1 /\ 2 * a + b \in 0 .. N - 1
      /\ a \in 0 .. N - 1 /\ 0 \in 0 .. N - 1
  BY <1>1
<1>7. /\ BitsReversed[4][v] = (v % 2) * TwoTo[3] + BitsReversed[3][v \div 2]
      /\ BitsReversed[3][4 * a + 2 * b + c] =
           ((4 * a + 2 * b + c) % 2) * TwoTo[2] + BitsReversed[2][(4 * a + 2 * b + c) \div 2]
      /\ BitsReversed[2][2 * a + b] = ((2 * a + b) % 2) * TwoTo[1] + BitsReversed[1][(2 * a + b) \div 2]
      /\ BitsReversed[1][a] = (a % 2) * TwoTo[0] + BitsReversed[0][a \div 2]
      /\ BitsReversed[0][0] = 0
  <2>1. /\ 1 \in 1 .. M /\ 2 \in 1 .. M /\ 3 \in 1 .. M /\ 4 \in 1 .. M
        /\ 1 - 1 = 0 /\ 2 - 1 = 1 /\ 3 - 1 = 2 /\ 4 - 1 = 3
    OBVIOUS
  <2> QED
    BY <1>6, <2>1, BitsReversedRecursion
<1>8. BitsReversed[4][v] = d * 8 + (c * 4 + (b * 2 + (a * 1 + 0)))
  BY <1>1, <1>5, <1>7
<1> QED
  BY <1>1, <1>2, <1>4, <1>8

OutputInv ==
  format = "exact" =>
    /\ (fetched + Len(outFifo)) % N = IF pc = "write" THEN index ELSE 0
    /\ \A i \in 1 .. Len(outFifo) :
         outFifo[i] \in Z /\ Alike(outFifo[i], Dft(input, N, (fetched + i - 1) % N))
    /\ DOMAIN result = 0 .. N - 1 /\ result = [k \in 0 .. N - 1 |-> result[k]]
    /\ \A k \in 0 .. N - 1 :
         result[k] # <<>> => result[k] \in Z /\ Alike(result[k], Dft(input, N, k))

LEMMA RoundPlus ==
  ASSUME NEW n \in Nat, n > 0, NEW a \in Nat, NEW b \in Nat
  PROVE  ((a % n) + b) % n = (a + b) % n
<1>1. a % n \in 0 .. n - 1 /\ a \div n \in Int /\ a = n * (a \div n) + (a % n)
  OBVIOUS
<1>2. PICK r \in Nat, q \in Int : r = a % n /\ q = a \div n /\ a = n * q + r
  BY <1>1
<1>3. PICK u \in Int, v \in Int : u = a + b /\ v = r + b /\ u = v + n * q
  BY <1>2
<1>4. Congruent(u, v, n)
  BY <1>3, Remainders
<1> QED
  BY <1>2, <1>3, <1>4 DEF Congruent

LEMMA OutputInvInit == Init => OutputInv
<1> SUFFICES ASSUME Init
             PROVE  OutputInv
  OBVIOUS
<1>1. Len(outFifo) = 0 /\ 0 % N = 0 /\ fetched = 0 /\ pc = "read"
  BY NFacts DEF Init
<1> QED
  BY <1>1 DEF Init, OutputInv

LEMMA OutputInvWrite ==
  ASSUME M = 4, ExactInv, OutputInv, format = "exact", WriteResult
  PROVE  OutputInv'
<1> USE DEF bench
<1>1. /\ pc = "write" /\ index \in 0 .. N - 1 /\ fetched \in 0 .. N - 1
      /\ UNCHANGED <<format, fetched, input, result>>
  BY NFacts DEF WriteResult, ExactInv, TypeInv, TypeOK, CountersOK
<1>2. /\ Reversed(index) \in 0 .. N - 1 /\ BitsReversed[M][Reversed(index)] = index
  BY <1>1, FourBits
<1>3. PICK w \in Z : w = x[Reversed(index)] /\ Alike(w, Dft(input, N, index))
  <2>1. x \in [0 .. N - 1 -> Exact] /\ Exact \subseteq Z
    BY ExactType DEF ExactInv
  <2>2. Alike(x[Reversed(index)], Dft(input, N, BitsReversed[M][Reversed(index)]))
    BY <1>1, <1>2 DEF ExactInv, StagesInv
  <2> QED
    BY <1>2, <2>1, <2>2
<1>4. outFifo' = Append(outFifo, w)
  BY <1>2, <1>3, NFacts DEF WriteResult
<1>5. PICK S : outFifo \in Seq(S) /\ w \in S
  <2>1. x \in [0 .. N - 1 -> Complex] /\ outFifo \in Seq(Complex \union Outside)
    BY DEF ExactInv, TypeInv, TypeOK, FifosOK
  <2> QED
    BY <1>2, <1>3, <2>1
<1>6. PICK m \in Nat : m = Len(outFifo) /\ Len(outFifo') = m + 1
  BY <1>4, <1>5, FifoTypes
<1>7. \A i \in 1 .. m + 1 : outFifo'[i] = IF i = m + 1 THEN w ELSE outFifo[i]
  BY <1>4, <1>5, <1>6, Appended
<1>8. (fetched + m) % N = index
  BY <1>1, <1>6 DEF OutputInv
<1>9. ASSUME NEW i \in 1 .. m + 1
      PROVE  outFifo'[i] \in Z /\ Alike(outFifo'[i], Dft(input, N, (fetched + i - 1) % N))
  <2>1. CASE i = m + 1
    <3>1. fetched + i - 1 = fetched + m
      BY <1>1, <2>1
    <3> QED
      BY <1>3, <1>7, <1>8, <2>1, <3>1
  <2>2. CASE i # m + 1
    <3>1. i \in 1 .. m
      BY <2>2
    <3> QED
      BY <1>6, <1>7, <2>2, <3>1 DEF OutputInv
  <2> QED
    BY <2>1, <2>2
<1>10. (fetched + (m + 1)) % N = IF pc' = "write" THEN index' ELSE 0
  <2>1. N \in Nat /\ N > 0 /\ fetched + m \in Nat /\ (fetched + m) + 1 = fetched + (m + 1)
    BY <1>1, NFacts
  <2>2. (fetched + (m + 1)) % N = (index + 1) % N
    BY <1>8, <2>1, NextOfRound
  <2>3. CASE index < N - 1
    <3>1. pc' = "write" /\ index' = index + 1
      BY <1>1, <2>3 DEF WriteResult
    <3>2. index + 1 \in Nat /\ index + 1 < N
      BY <1>1, <2>1, <2>3
    <3>3. (index + 1) % N = index + 1
      BY <2>1, <3>2, NextOfRound
    <3> QED
      BY <2>2, <3>1, <3>3
  <2>4. CASE ~ (index < N - 1)
    <3>1. pc' = "read" /\ index + 1 = N
      BY <1>1, <2>1, <2>4 DEF WriteResult
    <3>2. N % N = 0
      <4>1. (0 + N) % N = 0 % N /\ 0 % N = 0 /\ 0 + N = N
        BY <2>1, RoundAgain
      <4> QED
        BY <4>1
    <3> QED
      BY <2>2, <3>1, <3>2
  <2> QED
    BY <2>3, <2>4
<1>11. /\ DOMAIN result = 0 .. N - 1 /\ result = [k \in 0 .. N - 1 |-> result[k]]
       /\ \A k \in 0 .. N - 1 :
            result[k] # <<>> => result[k] \in Z /\ Alike(result[k], Dft(input, N, k))
  BY DEF OutputInv
<1> QED
  BY <1>1, <1>6, <1>9, <1>10, <1>11 DEF OutputInv

LEMMA OutputInvFetch ==
  ASSUME ExactInv, OutputInv, format = "exact", Fetch
  PROVE  OutputInv'
<1>1. /\ fetched \in 0 .. N - 1 /\ UNCHANGED <<format, pc, index, input>>
      /\ fetched' = (fetched + 1) % N /\ N \in Nat /\ N > 0
  BY NFacts DEF Fetch, ExactInv, TypeInv, TypeOK
<1>2. PICK S : outFifo \in Seq(S)
  BY DEF ExactInv, TypeInv, FifosOK
<1>3. outFifo # <<>> /\ outFifo' = Tail(outFifo) /\ result' = [result EXCEPT ![fetched] = Head(outFifo)]
  BY DEF Fetch
<1>4. PICK m \in Nat : m = Len(outFifo) /\ m > 0 /\ Len(outFifo') = m - 1
  BY <1>2, <1>3, FifoTypes, TailElements
<1>5. Head(outFifo) = outFifo[1] /\ \A i \in 1 .. m - 1 : outFifo'[i] = outFifo[i + 1]
  BY <1>2, <1>3, <1>4, TailElements
<1>6. /\ (fetched + m) % N = IF pc = "write" THEN index ELSE 0
      /\ \A i \in 1 .. m :
           outFifo[i] \in Z /\ Alike(outFifo[i], Dft(input, N, (fetched + i - 1) % N))
  BY <1>4 DEF OutputInv
<1>7. ASSUME NEW a \in Nat
      PROVE  (fetched' + a) % N = (fetched + (a + 1)) % N
  <2>1. (((fetched + 1) % N) + a) % N = ((fetched + 1) + a) % N
    <3>1. fetched + 1 \in Nat
      BY <1>1
    <3> QED
      BY <1>1, <3>1, RoundPlus
  <2>2. (fetched + 1) + a = fetched + (a + 1)
    BY <1>1
  <2> QED
    BY <1>1, <2>1, <2>2
<1>8. (fetched' + (m - 1)) % N = IF pc' = "write" THEN index' ELSE 0
  <2>1. m - 1 \in Nat /\ (m - 1) + 1 = m
    BY <1>4
  <2>2. (fetched' + (m - 1)) % N = (fetched + ((m - 1) + 1)) % N
    BY <1>7, <2>1
  <2> QED
    BY <1>1, <1>6, <2>1, <2>2
<1>9. ASSUME NEW i \in 1 .. m - 1
      PROVE  outFifo'[i] \in Z /\ Alike(outFifo'[i], Dft(input, N, (fetched' + i - 1) % N))
  <2>1. PICK f \in Nat : f = fetched'
    <3>1. (fetched + 1) % N \in Nat
      BY <1>1
    <3> QED
      BY <1>1, <3>1
  <2>2. /\ i - 1 \in Nat /\ f + (i - 1) = f + i - 1 /\ i + 1 \in 1 .. m
        /\ fetched + ((i - 1) + 1) = fetched + (i + 1) - 1
    BY <1>1, <2>1
  <2>3. (f + i - 1) % N = (fetched + (i + 1) - 1) % N
    BY <1>7, <2>1, <2>2
  <2> QED
    BY <1>5, <1>6, <2>1, <2>2, <2>3
<1>10. ASSUME NEW k \in 0 .. N - 1, result'[k] # <<>>
       PROVE  result'[k] \in Z /\ Alike(result'[k], Dft(input, N, k))
  <2>1. result'[k] = IF k = fetched THEN outFifo[1] ELSE result[k]
    BY <1>1, <1>3, <1>5 DEF OutputInv
  <2>2. CASE k = fetched
    <3>1. (fetched + 1 - 1) % N = fetched
      <4>1. fetched + 1 - 1 = fetched /\ fetched \in Nat /\ fetched < N
        BY <1>1
      <4> QED
        BY <1>1, <4>1, NextOfRound
    <3>2. 1 \in 1 .. m
      BY <1>4
    <3>3. outFifo[1] \in Z /\ Alike(outFifo[1], Dft(input, N, (fetched + 1 - 1) % N))
      BY <1>6, <3>2
    <3> QED
      BY <2>1, <2>2, <3>1, <3>3
  <2>3. CASE k # fetched
    BY <1>10, <2>1, <2>3 DEF OutputInv
  <2> QED
    BY <2>2, <2>3
<1>11. DOMAIN result' = 0 .. N - 1 /\ result' = [k \in 0 .. N - 1 |-> result'[k]]
  BY <1>1, <1>3 DEF OutputInv
<1> QED
  BY <1>1, <1>4, <1>8, <1>9, <1>10, <1>11 DEF OutputInv

LEMMA OutputInvStep ==
  ASSUME M = 4, ExactInv, OutputInv, [Next]_vars
  PROVE  OutputInv'
<1> SUFFICES ASSUME format' = "exact"
             PROVE  OutputInv'
  BY DEF OutputInv
<1> USE DEF loop, bench
<1>1. format = "exact"
  BY DEF Next, DoFft, Feed, Fetch, ReadSample, ClearTwiddles, MakeTwiddle, StartStages, StartStage,
         FirstButterfly, StartColumns, Butterfly, NextColumn, EndStage, EndStages, WriteResult, vars
<1>2. CASE UNCHANGED vars \/ Feed
  <2>1. UNCHANGED <<format, fetched, outFifo, pc, index, input, result>>
    BY <1>2 DEF vars, Feed
  <2> QED
    BY <2>1 DEF OutputInv
<1>3. CASE ReadSample \/ ClearTwiddles \/ MakeTwiddle \/ StartStages \/ StartStage
           \/ FirstButterfly \/ StartColumns \/ Butterfly \/ NextColumn \/ EndStage
  <2>1. UNCHANGED <<format, fetched, outFifo, input, result>> /\ pc # "write" /\ pc' # "write"
    BY <1>3 DEF ReadSample, ClearTwiddles, MakeTwiddle, StartStages, StartStage,
                FirstButterfly, StartColumns, Butterfly, NextColumn, EndStage
  <2> QED
    BY <2>1 DEF OutputInv
<1>4. CASE EndStages
  <2>1. UNCHANGED <<format, fetched, outFifo, input, result>> /\ pc # "write" /\ pc' = "write"
        /\ index' = 0
    BY <1>4 DEF EndStages
  <2> QED
    BY <2>1 DEF OutputInv
<1> QED
  BY <1>1, <1>2, <1>3, <1>4, OutputInvWrite, OutputInvFetch DEF Next, DoFft

LEMMA SpecOutputInv ==
  M = 4 /\ Turn("exact") = NthRoot => (Spec => [](ExactInv /\ OutputInv))
<1> SUFFICES ASSUME M = 4, Turn("exact") = NthRoot
             PROVE  Spec => [](ExactInv /\ OutputInv)
  OBVIOUS
<1>1. ExactInv /\ OutputInv /\ [Next]_vars => (ExactInv /\ OutputInv)'
  BY ExactInvStep, OutputInvStep
<1>2. Init => ExactInv /\ OutputInv
  BY ExactInvInit, OutputInvInit
<1> QED
  BY <1>1, <1>2, PTL DEF Spec

(* With sixteen points every result stored is the transform of the input   *)
(* at its place, however far the three threads are apart.                  *)
THEOREM ResultsCorrectExactly ==
  M = 4 /\ Turn("exact") = NthRoot => (Spec => [](format = "exact" => ResultsCorrect))
<1>1. ASSUME ExactInv, OutputInv, format = "exact"
      PROVE  ResultsCorrect
  <2> USE <1>1
  <2> SUFFICES ASSUME NEW k \in 0 .. N - 1, result[k] # <<>>
               PROVE  Agree(DFT([n \in {0} |-> result[k]], 1, 0), DFT(input, N, k))
    BY DEF ResultsCorrect
  <2>1. result[k] \in Z /\ Alike(result[k], Dft(input, N, k))
    BY DEF OutputInv
  <2>2. Dft([n \in {0} |-> result[k]], 1, 0) = result[k]
    <3>1. [n \in {0} |-> result[k]][0] = result[k]
      OBVIOUS
    <3> QED
      BY <2>1, <3>1, OnePoint
  <2>3. Dft(input, N, k) \in Z
    <3>1. \A n \in 0 .. N - 1 : input[n] \in Z
      BY ExactType DEF ExactInv
    <3>2. N \in Nat /\ N > 0 /\ k \in Nat
      BY NFacts
    <3> QED
      BY <3>1, <3>2, DftType
  <2> QED
    BY <2>1, <2>2, <2>3, AgreeIsAlike, DFTIsDft
<1>2. ExactInv /\ OutputInv => (format = "exact" => ResultsCorrect)
  BY <1>1
<1>3. SUFFICES ASSUME M = 4, Turn("exact") = NthRoot
               PROVE  Spec => [](format = "exact" => ResultsCorrect)
  OBVIOUS
<1>4. Spec => [](ExactInv /\ OutputInv)
  BY <1>3, SpecOutputInv
<1> QED
  BY <1>2, <1>4, PTL
=============================================================================
