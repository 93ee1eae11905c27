----------------------------- MODULE DmaMemory -----------------------------
(***************************************************************************)
(* The DMA engine on the bus of a platform with a memory behind it, and    *)
(* software that programs it at any time it likes, as the drivers of HW6,  *)
(* HW7 and Final do: none of them waits for a transfer to end.             *)
(***************************************************************************)
EXTENDS SimpleDMA

CONSTANTS
  Addr,        (* the addresses of the memory                              *)
  Contents,    (* what the memory holds at first                           *)
  MaxRequests  (* bound: writes to OP_ADDR that the software makes         *)

ASSUME MemoryAssumption ==
  /\ Srcs \subseteq Nat /\ Dsts \subseteq Nat
  /\ Addr \subseteq Nat
  /\ 0 \in Addr
  /\ \A a \in Srcs \union Dsts \union {0}, l \in Lens :
       \A i \in 0 .. l - 1 : a + i \in Addr
  /\ MaxRequests \in Nat

VARIABLES
  mem,       (* the memory                                                 *)
  requests,  (* writes to OP_ADDR so far                                   *)
  job,       (* history: the transfer in progress and the memory it found  *)
  clean      (* history: no register was written since it began            *)

memoryVars == <<dmaVars, mem, requests, job, clean>>

MemoryInit ==
  /\ DMAInit
  /\ mem = [a \in Addr |-> Contents[a]]
  /\ requests = 0
  /\ job = [src |-> 0, dst |-> 0, len |-> 0, mem |-> mem]
  /\ clean = TRUE

(* Software writes one register. *)
WriteRegister ==
  /\ phase # "aborted"
  /\ \/ /\ \/ \E v \in Srcs : WriteSrc(v)
           \/ \E v \in Dsts : WriteDst(v)
           \/ \E v \in Lens : WriteLen(v)
        /\ UNCHANGED requests
     \/ /\ requests < MaxRequests
        /\ requests' = requests + 1
        /\ \E v \in Ops : WriteOp(v)
  /\ clean' = FALSE
  /\ UNCHANGED <<mem, job>>

FireEvent ==
  /\ phase # "aborted"
  /\ Fire
  /\ UNCHANGED <<mem, requests, job, clean>>

StartTransfer ==
  /\ Dispatch
  /\ job' = [src |-> src, dst |-> dst,
             len |-> IF op = "MEMCPY" THEN len ELSE 0, mem |-> mem]
  /\ clean' = TRUE
  /\ UNCHANGED <<mem, requests>>

(* The transactions of _copy_block on the memory. *)
ReadMemory ==
  /\ ReadBlock([i \in 0 .. Chunk - 1 |-> mem[SrcAddr + i]])
  /\ UNCHANGED <<mem, requests, job, clean>>

WriteMemory ==
  /\ WriteBlock
  /\ mem' = [a \in Addr |-> IF a - DstAddr \in 0 .. Chunk - 1
                              THEN buffer[a - DstAddr] ELSE mem[a]]
  /\ UNCHANGED <<requests, job, clean>>

EndTransfer ==
  /\ Interrupt
  /\ UNCHANGED <<mem, requests, job, clean>>

Engine == FireEvent \/ StartTransfer \/ ReadMemory \/ WriteMemory \/ EndTransfer

MemoryNext == WriteRegister \/ Engine

MemorySpec == MemoryInit /\ [][MemoryNext]_memoryVars

(* The engine is a thread of the simulation kernel: what it can do, and    *)
(* an event that is due, happens.                                          *)
MemoryFairSpec == MemorySpec /\ WF_memoryVars(Engine)
-----------------------------------------------------------------------------
MemoryTypeOK ==
  /\ DMATypeOK
  /\ mem \in [Addr -> {Contents[a] : a \in Addr}]
  /\ requests \in 0 .. MaxRequests
  /\ clean \in BOOLEAN

(* A transfer whose registers nobody touches copies len units from src to  *)
(* dst and changes nothing else, whatever len is to the size of the buffer *)
(* (shorter, equal, a multiple, a multiple plus a rest), provided the two  *)
(* ranges are disjoint.                                                    *)
In(a, first, length) == first <= a /\ a < first + length
Disjoint(j) == j.src + j.len <= j.dst \/ j.dst + j.len <= j.src

CopyCorrect ==
  phase = "interrupt" /\ clean /\ Disjoint(job) =>
    \A a \in Addr :
      mem[a] = IF In(a, job.dst, job.len)
                 THEN job.mem[job.src + (a - job.dst)] ELSE job.mem[a]

(* No transaction of the engine is longer than its buffer, and the buffer  *)
(* holds what is about to be written, even when software overwrites len    *)
(* and dst between the read and the write.                                 *)
BufferFits ==
  phase = "write" => Chunk <= Block /\ DOMAIN buffer = 0 .. Chunk - 1

(* A request that finds the engine waiting is carried out to its end (or   *)
(* stops the simulation at an assert), whatever is requested meanwhile.    *)
RequestServed ==
  (notified /\ phase = "waiting") ~> (phase \in {"interrupt", "aborted"})
=============================================================================
