------------------------------ MODULE FftAccel ------------------------------
(***************************************************************************)
(* The accelerators twoD_FFT of the platforms: each has four FIFOs and a   *)
(* thread, do_fft, that reads N samples, transforms them and writes N      *)
(* results.  blocking_transport reads and writes the other ends of the     *)
(* FIFOs, so a bus transaction blocks while a FIFO is full or empty.       *)
(*                                                                         *)
(* The transform itself is abstract: a result names the samples it was     *)
(* computed from and its place in the output, and two results are equal    *)
(* only if both are.                                                       *)
(***************************************************************************)
EXTENDS Integers, Sequences

CONSTANTS
  Accs,   (* the accelerators of the platform                              *)
  N,      (* the points of the transform                                   *)
  Depth   (* the capacity of an sc_fifo (16 by default)                    *)

Parts == {"real", "imag"}

VARIABLES
  inFifo,  (* inFifo[a][p]: i_real and i_imag                              *)
  outFifo, (* outFifo[a][p]: o_real and o_imag                             *)
  taken,   (* taken[a][p]: the samples do_fft has in real[] and imag[]     *)
  written, (* written[a][p]: the results of this transform written so far  *)
  stage    (* stage[a]: "reading" samples or "writing" results             *)

accelVars == <<inFifo, outFifo, taken, written, stage>>

Empty == [p \in Parts |-> <<>>]

AccelInit ==
  /\ inFifo = [a \in Accs |-> Empty]
  /\ outFifo = [a \in Accs |-> Empty]
  /\ taken = [a \in Accs |-> Empty]
  /\ written = [a \in Accs |-> [p \in Parts |-> 0]]
  /\ stage = [a \in Accs |-> "reading"]

(* Result r (counted from 1) of the transform of the samples xs. *)
Result(xs, p, r) == [of |-> xs, part |-> p, place |-> r]

(* tmp_real = i_real.read(); tmp_imag = i_imag.read(); in this order, each *)
(* waiting for data.                                                       *)
ReadSample(a, p) ==
  /\ stage[a] = "reading"
  /\ Len(taken[a].real) < N \/ Len(taken[a].imag) < N
  /\ p = "real" <=> Len(taken[a].real) = Len(taken[a].imag)
  /\ inFifo[a][p] # <<>>
  /\ taken' = [taken EXCEPT ![a][p] = Append(@, Head(inFifo[a][p]))]
  /\ inFifo' = [inFifo EXCEPT ![a][p] = Tail(@)]
  /\ UNCHANGED <<outFifo, written, stage>>

(* Mutant: the transform waits for the samples of a larger one. *)
TransformLarger(a) ==
  /\ stage[a] = "reading"
  /\ Len(taken[a].imag) = 2 * N
  /\ stage' = [stage EXCEPT ![a] = "writing"]
  /\ UNCHANGED <<inFifo, outFifo, taken, written>>

(* The twiddle factors and the stages of the transform; they take time. *)
Transform(a) ==
  /\ stage[a] = "reading"
  /\ Len(taken[a].imag) = N
  /\ stage' = [stage EXCEPT ![a] = "writing"]
  /\ UNCHANGED <<inFifo, outFifo, taken, written>>

(* Mutants of WriteResult: the index is one behind; the loop does not end. *)
WriteResultBehind(a, p) ==
  /\ stage[a] = "writing"
  /\ p = "real" <=> written[a].real = written[a].imag
  /\ Len(outFifo[a][p]) < Depth
  /\ outFifo' = [outFifo EXCEPT
                   ![a][p] = Append(@, Result(taken[a], p, written[a][p]))]
  /\ IF p = "imag" /\ written[a].imag = N - 1
       THEN /\ written' = [written EXCEPT ![a] = [q \in Parts |-> 0]]
            /\ taken' = [taken EXCEPT ![a] = Empty]
            /\ stage' = [stage EXCEPT ![a] = "reading"]
       ELSE /\ written' = [written EXCEPT ![a][p] = @ + 1]
            /\ UNCHANGED <<taken, stage>>
  /\ UNCHANGED inFifo

WriteResultEndless(a, p) ==
  /\ stage[a] = "writing"
  /\ p = "real" <=> written[a].real = written[a].imag
  /\ Len(outFifo[a][p]) < Depth
  /\ outFifo' = [outFifo EXCEPT
                   ![a][p] = Append(@, Result(taken[a], p, written[a][p] + 1))]
  /\ written' = [written EXCEPT ![a][p] = @ + 1]
  /\ UNCHANGED <<inFifo, taken, stage>>

(* o_real.write(real_temp); o_imag.write(imag_temp); each waiting for room.*)
(* After the last one the thread goes back to read the next samples.       *)
WriteResult(a, p) ==
  /\ stage[a] = "writing"
  /\ p = "real" <=> written[a].real = written[a].imag
  /\ Len(outFifo[a][p]) < Depth
  /\ outFifo' = [outFifo EXCEPT
                   ![a][p] = Append(@, Result(taken[a], p, written[a][p] + 1))]
  /\ IF p = "imag" /\ written[a].imag = N - 1
       THEN /\ written' = [written EXCEPT ![a] = [q \in Parts |-> 0]]
            /\ taken' = [taken EXCEPT ![a] = Empty]
            /\ stage' = [stage EXCEPT ![a] = "reading"]
       ELSE /\ written' = [written EXCEPT ![a][p] = @ + 1]
            /\ UNCHANGED <<taken, stage>>
  /\ UNCHANGED inFifo

DoFft(a) ==
  \/ \E p \in Parts : ReadSample(a, p) \/ WriteResult(a, p)
  \/ Transform(a)

(* blocking_transport: a write to TWOD_FFT_R_ADDR or TWOD_FFT_R1_ADDR, and *)
(* a read, which returns v, of TWOD_FFT_RESULT_ADDR or ..._RESULT1_ADDR.   *)
HasRoom(a, p) == Len(inFifo[a][p]) < Depth

HasResult(a, p) == outFifo[a][p] # <<>>

PutSample(a, p, v) ==
  /\ HasRoom(a, p)
  /\ inFifo' = [inFifo EXCEPT ![a][p] = Append(@, v)]
  /\ UNCHANGED <<outFifo, taken, written, stage>>

NextResult(a, p) == Head(outFifo[a][p])

TakeResult(a, p) ==
  /\ HasResult(a, p)
  /\ outFifo' = [outFifo EXCEPT ![a][p] = Tail(@)]
  /\ UNCHANGED <<inFifo, taken, written, stage>>

AccelTypeOK ==
  \A a \in Accs :
    /\ stage[a] \in {"reading", "writing"}
    /\ \A p \in Parts :
         /\ Len(inFifo[a][p]) <= Depth /\ Len(outFifo[a][p]) <= Depth
         /\ Len(taken[a][p]) <= N /\ written[a][p] \in 0 .. N
=============================================================================
