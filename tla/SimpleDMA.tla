----------------------------- MODULE SimpleDMA -----------------------------
(***************************************************************************)
(* The DMA engine of the platforms (dma.h): four registers, a thread that  *)
(* waits for an event, and a copy loop that goes through a small buffer.   *)
(*                                                                         *)
(* A bus transaction of the engine is one step: ReadBlock(data) is the     *)
(* read that returned data, WriteBlock the write that handed over buffer.  *)
(* A module that composes the engine with memory or devices conjoins the   *)
(* target's part.  Time passes between the two, and software may write the *)
(* registers then: the engine looks at src and dst when a transaction      *)
(* begins.  (Where a target may keep it waiting, the composing module      *)
(* remembers the address.)                                                 *)
(***************************************************************************)
EXTENDS Integers

CONSTANTS
  Block,   (* buffer.size(), in units of transfer                          *)
  Srcs,    (* values software writes into SRC_ADDR                         *)
  Dsts,    (* values software writes into DST_ADDR                         *)
  Lens     (* values software writes into LEN_ADDR                         *)

ASSUME DMAAssumption == Block \in Nat \ {0} /\ Lens \subseteq Nat

VARIABLES
  src, dst, len, op,  (* the registers                                     *)
  notified, (* a notification of run_event is due (10 ns after OP_ADDR)    *)
  phase,    (* where the engine's thread is                                *)
  n, off,   (* locals of _perform_memcpy: units left, offset reached       *)
  buffer    (* what a read transaction put into buffer, until it is written *)

dmaVars == <<src, dst, len, op, notified, phase, n, off, buffer>>

(* OP_NOP, OP_MEMCPY, and the operations that hit an assert. *)
Ops == {"NOP", "MEMCPY", "unimplemented"}

DMAInit ==
  /\ src = 0 /\ dst = 0 /\ len = 0 /\ op = "NOP"
  /\ notified = FALSE
  /\ phase = "waiting"
  /\ n = 0 /\ off = 0
  /\ buffer = <<>>

(* transport: a register is written whole; a write to OP_ADDR notifies     *)
(* run_event.  A notification that is already due is not doubled.          *)
WriteSrc(v) == src' = v /\ UNCHANGED <<dst, len, op, notified, phase, n, off, buffer>>
WriteDst(v) == dst' = v /\ UNCHANGED <<src, len, op, notified, phase, n, off, buffer>>
WriteLen(v) == len' = v /\ UNCHANGED <<src, dst, op, notified, phase, n, off, buffer>>
WriteOp(v) ==
  /\ op' = v
  /\ notified' = TRUE
  /\ UNCHANGED <<src, dst, len, phase, n, off, buffer>>

(* Mutant: the event does not wake the thread. *)
FireUnheard ==
  /\ notified
  /\ notified' = FALSE
  /\ UNCHANGED <<src, dst, len, op, phase, n, off, buffer>>

(* run_event fires: it wakes the thread if the thread waits for it, and is *)
(* lost otherwise.                                                         *)
Fire ==
  /\ notified
  /\ notified' = FALSE
  /\ phase' = IF phase = "waiting" THEN "dispatch" ELSE phase
  /\ UNCHANGED <<src, dst, len, op, n, off, buffer>>

(* run: the switch on op.  _perform_memcpy takes its own copy of len. *)
Dispatch ==
  /\ phase = "dispatch"
  /\ \/ /\ op = "NOP"
        /\ phase' = "interrupt"
        /\ UNCHANGED <<n, off>>
     \/ /\ op = "MEMCPY"
        /\ phase' = "read"
        /\ n' = len
        /\ off' = 0
     \/ /\ op = "unimplemented"
        /\ phase' = "aborted"
        /\ UNCHANGED <<n, off>>
  /\ UNCHANGED <<src, dst, len, op, notified, buffer>>

(* Mutant: the block is not cut to the size of the buffer. *)
ChunkWhole == n

(* _copy_block: as much as fits the buffer, from the current src. *)
Chunk == IF n > Block THEN Block ELSE n
SrcAddr == src + off
DstAddr == dst + off

ReadBlock(data) ==
  /\ phase = "read"
  /\ buffer' = data
  /\ phase' = "write"
  /\ UNCHANGED <<src, dst, len, op, notified, n, off>>

(* Mutants of WriteBlock: off is not advanced; the loop runs while n # 0.  *)
WriteBlockInPlace ==
  /\ phase = "write"
  /\ \/ n > Block /\ n' = n - Block /\ phase' = "read"
     \/ n <= Block /\ n' = n /\ phase' = "interrupt"
  /\ buffer' = <<>>
  /\ UNCHANGED <<src, dst, len, op, notified, off>>

WriteBlockUntilZero ==
  /\ phase = "write"
  /\ \/ n # 0 /\ n' = n - Block /\ off' = off + Block /\ phase' = "read"
     \/ n = 0 /\ phase' = "interrupt" /\ UNCHANGED <<n, off>>
  /\ buffer' = <<>>
  /\ UNCHANGED <<src, dst, len, op, notified>>

(* The write transaction, which leaves buffer to the next read, and the    *)
(* loop around it.                                                         *)
WriteBlock ==
  /\ phase = "write"
  /\ \/ /\ n > Block
        /\ n' = n - Block
        /\ off' = off + Block
        /\ phase' = "read"
     \/ /\ n <= Block
        /\ phase' = "interrupt"
        /\ UNCHANGED <<n, off>>
  /\ buffer' = <<>>
  /\ UNCHANGED <<src, dst, len, op, notified>>

(* plic->gateway_trigger_interrupt, then wait(run_event) again.  The       *)
(* interrupt goes to the PLIC; no program of the repository claims it.     *)
Interrupt ==
  /\ phase = "interrupt"
  /\ phase' = "waiting"
  /\ UNCHANGED <<src, dst, len, op, notified, n, off, buffer>>

DMATypeOK ==
  /\ src \in Srcs \union {0} /\ dst \in Dsts \union {0} /\ len \in Lens \union {0}
  /\ op \in Ops
  /\ notified \in BOOLEAN
  /\ phase \in {"waiting", "dispatch", "read", "write", "interrupt", "aborted"}
  /\ n \in Nat /\ off \in Nat
=============================================================================
