----------------------------- MODULE FftDriver -----------------------------
(***************************************************************************)
(* The dual-core FFT program on its platform: the harts of DualCore, each  *)
(* with an accelerator of its own, and one DMA engine that they share.     *)
(* The locked sections of DualCore are opened up here: in the first N of   *)
(* them a hart sends a sample (real, then imaginary), in the last N it     *)
(* fetches a result.  A word goes through the four bytes "buff" of the     *)
(* stack frame of write_data_to_Tiny32mc or read_data_from_Tiny32mc.       *)
(*                                                                         *)
(* With _is_using_dma the functions program the engine and return: they    *)
(* do not wait for the transfer, and when they return buff is dead stack.  *)
(* Otherwise they access the accelerator themselves, and wait for it.      *)
(***************************************************************************)
EXTENDS Integers, Sequences, FiniteSets

CONSTANTS
  Harts, Boot, (* the harts; hart h has accelerator h                      *)
  N, Depth,    (* the samples of a hart, the capacity of a FIFO            *)
  Fetches,     (* bound: the results it fetches, N in the program          *)
  UsingDMA,    (* _is_using_dma                                            *)
  Prompt,      (* the engine, when it can move, moves before any hart does *)
  Junk         (* a word nobody sent: what dead or fresh stack may hold    *)

ASSUME DriverAssumption ==
  /\ Harts \subseteq 0 .. 28 (* their stacks lie below the accelerators    *)
  /\ Boot \in Harts
  /\ N \in Nat \ {0} /\ Depth \in Nat \ {0}
  /\ UsingDMA \in BOOLEAN /\ Prompt \in BOOLEAN
  /\ Fetches \in 0 .. N

VARIABLES
  sem, counter, exitCounter, halted, pc, todo, reg,           (* DualCore  *)
  src, dst, len, op, notified, phase, n, off, buffer,         (* SimpleDMA *)
  inFifo, outFifo, taken, written, stage,                     (* FftAccel  *)
  pending, (* the address of the engine's transaction, if it has begun and *)
           (* waits in blocking_transport; 0 if not                        *)
  at,      (* at[h]: where h is inside its locked section                  *)
  part,    (* part[h]: the word it handles, "real" or "imag"               *)
  buff,    (* buff[h]: the four bytes on h's stack                         *)
  out      (* out[h]: out_r and out_i, in the order they were stored       *)

Core == INSTANCE DualCore WITH Sections <- N + Fetches
Acc  == INSTANCE FftAccel WITH Accs <- Harts
DMA  == INSTANCE SimpleDMA
          WITH Block <- 1, Lens <- {1}, Srcs <- Nat, Dsts <- Nat

coreVars   == <<sem, counter, exitCounter, halted, pc, todo, reg>>
engineVars == <<src, dst, len, op, notified, phase, n, off, buffer, pending>>
accelVars  == <<inFifo, outFifo, taken, written, stage>>
driverVars == <<at, part, buff, out>>
vars == <<coreVars, engineVars, accelVars, driverVars>>

-----------------------------------------------------------------------------
(* The address map: a word of every stack, and from 30 and 40 (0x30000000  *)
(* and 0x40000000) the four words of an accelerator: START and START1 take *)
(* samples, READ and READ1 give results.                                   *)
BuffAddr(h) == h + 1
SampleAddr(h, p) == 30 + 10 * h + (IF p = "real" THEN 0 ELSE 1)
ResultAddr(h, p) == 30 + 10 * h + (IF p = "real" THEN 2 ELSE 3)

(* input_r[j] or input_i[j]: all samples are told apart. *)
Sample(h, p, j) == [hart |-> h, part |-> p, index |-> j]

(* In its first N sections a hart sends, in the others it fetches. *)
Sending(h) == todo[h] > Fetches

Init ==
  /\ Core!Init /\ DMA!DMAInit /\ Acc!AccelInit
  /\ pending = 0
  /\ at = [h \in Harts |-> "outside"]
  /\ part = [h \in Harts |-> "real"]
  /\ buff = [h \in Harts |-> Junk]
  /\ out = [h \in Harts |-> <<>>]
-----------------------------------------------------------------------------
(* The bus side of the engine: a read or a write transaction goes to the   *)
(* address that its register held when it began.                           *)
Target ==
  IF pending # 0 THEN pending ELSE IF phase = "read" THEN DMA!SrcAddr ELSE DMA!DstAddr

(* The FIFO at the address is not ready: blocking_transport waits. *)
NotReady ==
  \E h \in Harts, p \in Acc!Parts :
    \/ phase = "read" /\ Target = ResultAddr(h, p) /\ ~Acc!HasResult(h, p)
    \/ phase = "write" /\ Target = SampleAddr(h, p) /\ ~Acc!HasRoom(h, p)

BusWait ==
  /\ pending = 0 /\ NotReady
  /\ pending' = Target
  /\ UNCHANGED <<src, dst, len, op, notified, phase, n, off, buffer>>

BusRead ==
  /\ pending' = 0
  /\ \E h \in Harts :
       \/ /\ Target = BuffAddr(h)
          /\ DMA!ReadBlock(<<buff[h]>>)
          /\ UNCHANGED accelVars
       \/ \E p \in Acc!Parts :
            /\ Target = ResultAddr(h, p)
            /\ Acc!TakeResult(h, p)
            /\ DMA!ReadBlock(<<Acc!NextResult(h, p)>>)

BusWrite ==
  /\ pending' = 0
  /\ DMA!WriteBlock
  /\ \E h \in Harts :
       \/ /\ Target = BuffAddr(h)
          /\ buff' = [buff EXCEPT ![h] = buffer[1]]
          /\ UNCHANGED accelVars
       \/ \E p \in Acc!Parts :
            /\ Target = SampleAddr(h, p)
            /\ Acc!PutSample(h, p, buffer[1])
            /\ UNCHANGED buff

(* The engine runs on its own while the simulation does. *)
EngineStep ==
  /\ ~halted
  /\ \/ (DMA!Fire \/ DMA!Dispatch \/ DMA!Interrupt) /\ UNCHANGED <<accelVars, buff, pending>>
     \/ BusWait /\ UNCHANGED <<accelVars, buff>>
     \/ BusRead /\ UNCHANGED buff
     \/ BusWrite
  /\ UNCHANGED <<coreVars, at, part, out>>

AccelStep(h) ==
  /\ ~halted
  /\ Acc!DoFft(h)
  /\ UNCHANGED <<coreVars, engineVars, driverVars>>

(* The engine waits for a FIFO, or can go on. *)
EngineBlocked == pending # 0 /\ NotReady

EngineCanMove == notified \/ (phase # "waiting" /\ ~EngineBlocked)

HartsMayMove == Prompt => ~EngineCanMove
-----------------------------------------------------------------------------
(* What a hart does outside its sections, and going in and out of them, is *)
(* what DualCore says.                                                     *)
OutsideSections(h) ==
  /\ HartsMayMove
  /\ \/ h = Boot /\ (Core!InitBarrierLock \/ Core!InitBarrierSem \/ Core!InitLock)
     \/ Core!Barrier(h) \/ Core!EnterPrint(h) \/ Core!LeavePrint(h)
     \/ Core!CountExit(h) \/ Core!SysExit(h)
  /\ UNCHANGED <<engineVars, accelVars, driverVars>>

EnterSection(h) ==
  /\ HartsMayMove
  /\ Core!EnterSection(h)
  /\ at' = [at EXCEPT ![h] = "enter"]
  /\ UNCHANGED <<engineVars, accelVars, part, buff, out>>

LeaveSection(h) ==
  /\ HartsMayMove
  /\ at[h] = "leave"
  /\ Core!LeaveSection(h)
  /\ at' = [at EXCEPT ![h] = "outside"]
  /\ UNCHANGED <<engineVars, accelVars, part, buff, out>>

(* A step of h inside its section. *)
Inside(h, from) ==
  /\ HartsMayMove
  /\ ~halted
  /\ at[h] = from
  /\ UNCHANGED coreVars

GoOn(h, to) == at' = [at EXCEPT ![h] = to] /\ UNCHANGED part

(* The function returns: the real word is followed by the imaginary one;   *)
(* hart 0 prints each sample it has sent.                                  *)
Return(h) ==
  /\ at' = [at EXCEPT ![h] = IF part[h] = "real" THEN "enter"
                             ELSE IF Sending(h) /\ h = Boot THEN "print" ELSE "leave"]
  /\ part' = [part EXCEPT ![h] = IF @ = "real" THEN "imag" ELSE "real"]

(* buff is a local: the sender fills it, the reader leaves it as it is. *)
FillBuff(h) ==
  /\ Inside(h, "enter")
  /\ buff' = IF Sending(h)
               THEN [buff EXCEPT ![h] = Sample(h, part[h], N + Fetches - todo[h] + 1)]
               ELSE buff
  /\ GoOn(h, IF UsingDMA THEN "src" ELSE "copy")
  /\ UNCHANGED <<engineVars, accelVars, out>>

(* The four stores to the registers of the engine. *)
StoreSrc(h) ==
  /\ Inside(h, "src")
  /\ DMA!WriteSrc(IF Sending(h) THEN BuffAddr(h) ELSE ResultAddr(h, part[h]))
  /\ GoOn(h, "dst")
  /\ UNCHANGED <<accelVars, pending, buff, out>>

StoreDst(h) ==
  /\ Inside(h, "dst")
  /\ DMA!WriteDst(IF Sending(h) THEN SampleAddr(h, part[h]) ELSE BuffAddr(h))
  /\ GoOn(h, "len")
  /\ UNCHANGED <<accelVars, pending, buff, out>>

StoreLen(h) ==
  /\ Inside(h, "len")
  /\ DMA!WriteLen(1)
  /\ GoOn(h, "op")
  /\ UNCHANGED <<accelVars, pending, buff, out>>

StoreOp(h) ==
  /\ Inside(h, "op")
  /\ DMA!WriteOp("MEMCPY")
  /\ IF Sending(h) THEN Return(h) ELSE GoOn(h, "load")
  /\ UNCHANGED <<accelVars, pending, buff, out>>

(* memcpy between buff and the accelerator: one aligned word. *)
CopyOut(h) ==
  /\ Sending(h)
  /\ Inside(h, "copy")
  /\ Acc!PutSample(h, part[h], buff[h])
  /\ Return(h)
  /\ UNCHANGED <<engineVars, buff, out>>

CopyIn(h) ==
  /\ ~Sending(h)
  /\ Inside(h, "copy")
  /\ Acc!TakeResult(h, part[h])
  /\ buff' = [buff EXCEPT ![h] = Acc!NextResult(h, part[h])]
  /\ GoOn(h, "load")
  /\ UNCHANGED <<engineVars, out>>

(* data.character[...] = buff[...]; the caller stores it in out_r or out_i.*)
Load(h) ==
  /\ Inside(h, "load")
  /\ out' = [out EXCEPT ![h] = Append(@, buff[h])]
  /\ Return(h)
  /\ UNCHANGED <<engineVars, accelVars, buff>>

(* The printfs of hart 0, which format in stack frames of their own. *)
PrintSample(h) ==
  /\ Inside(h, "print")
  /\ GoOn(h, "leave")
  /\ UNCHANGED <<engineVars, accelVars, buff, out>>

(* Outside the two functions buff is dead stack, and the frames of printf, *)
(* sem_post and sem_wait may overwrite it.  (While h is outside a section  *)
(* they may too; having it happen as h leaves or enters one is the same.)  *)
Clobber(h) ==
  /\ HartsMayMove
  /\ ~halted
  /\ at[h] \in {"enter", "print", "leave"}
  /\ buff' = [buff EXCEPT ![h] = Junk]
  /\ UNCHANGED <<coreVars, engineVars, accelVars, at, part, out>>

Step(h) ==
  \/ OutsideSections(h)
  \/ EnterSection(h) \/ LeaveSection(h)
  \/ FillBuff(h)
  \/ StoreSrc(h) \/ StoreDst(h) \/ StoreLen(h) \/ StoreOp(h)
  \/ CopyOut(h) \/ CopyIn(h)
  \/ Load(h)
  \/ PrintSample(h)

Next ==
  \/ EngineStep
  \/ \E h \in Harts : Step(h) \/ AccelStep(h) \/ Clobber(h)

Spec == Init /\ [][Next]_vars

(* The harts, the engine and the accelerators are threads of the kernel.   *)
FairSpec ==
  /\ Spec
  /\ WF_vars(EngineStep)
  /\ \A h \in Harts : WF_vars(Step(h)) /\ WF_vars(AccelStep(h))
-----------------------------------------------------------------------------
TypeOK ==
  /\ Acc!AccelTypeOK /\ Core!TypeOK
  /\ src \in Nat /\ dst \in Nat /\ len \in {0, 1} /\ off = 0
  /\ at \in [Harts -> {"outside", "enter", "src", "dst", "len", "op", "copy",
                       "load", "print", "leave"}]
  /\ part \in [Harts -> Acc!Parts]

(* What out_r and out_i of a hart are to hold: in order, the results of    *)
(* the transform of all its own samples.                                   *)
Expected(h) ==
  LET samples == [p \in Acc!Parts |-> [j \in 1 .. N |-> Sample(h, p, j)]]
  IN  [k \in 1 .. 2 * Fetches |->
         Acc!Result(samples, IF k % 2 = 1 THEN "real" ELSE "imag", (k + 1) \div 2)]

(* A hart that has its results behind it has the right ones: no sample and *)
(* no result was lost, doubled, reordered or taken from the other hart, on *)
(* the way through two FIFOs in each direction and a shared transport.     *)
ResultsCorrect ==
  \A h \in Harts : Core!Arrived(h) => out[h] = Expected(h)

(* lock makes the stores of a request one: when a hart is about to start   *)
(* the engine the registers hold its own request and nothing of another's. *)
RequestCoherent ==
  \A h \in Harts : at[h] = "op" =>
    /\ src = (IF Sending(h) THEN BuffAddr(h) ELSE ResultAddr(h, part[h]))
    /\ dst = (IF Sending(h) THEN SampleAddr(h, part[h]) ELSE BuffAddr(h))
    /\ len = 1

(* The program ends, whatever becomes of its transfers. *)
Terminates == Core!Terminates
=============================================================================
