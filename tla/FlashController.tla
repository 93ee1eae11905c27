-------------------------- MODULE FlashController --------------------------
(***************************************************************************)
(* flash.h: a block device of the host behind a window of one block.  The  *)
(* program writes the number of a block into a register and then reads or  *)
(* writes in the window; Blockbuffer holds one block, and writes it back   *)
(* when the program comes to another one.                                  *)
(*                                                                         *)
(* Every lseek64, read and write may fail or stop in the middle: the code  *)
(* reports that and goes on.  The simulator may be killed at any time, and *)
(* an assertion kills it too; the next one opens the same device.          *)
(***************************************************************************)
EXTENDS Naturals, FiniteSets

CONSTANTS
  Digit,     (* the address register has two halves, 0 .. Digit - 1 each   *)
  NumBlocks, (* mDeviceNumBlocks: for a device the ioctl gives bytes, and  *)
             (* the code takes them for blocks                             *)
  MediumBlocks, (* the blocks there are                                    *)
  BlockWords,   (* words of a block (BLOCKSIZE bytes)                      *)
  Values,    (* what a word holds                                          *)
  Unknown    (* see BlockDevice                                            *)

Blocks == 0 .. MediumBlocks - 1
Words == 0 .. BlockWords - 1
Content == [Words -> Values]
NoBlock == NumBlocks

ASSUME FlashAssumption ==
  /\ Digit \in Nat \ {0} /\ NumBlocks \in Nat /\ MediumBlocks \in Nat /\ BlockWords \in Nat
  /\ MediumBlocks <= NumBlocks
  /\ Unknown \notin Content

VARIABLES
  disk,   (* disk[b]: what the medium holds                                *)
  buf, offs, dirty, active, (* Blockbuffer                                 *)
  target, (* mTargetBlock, in halves                                       *)
  got,    (* what the program has read last                                *)
  suspect (* history: blocks of which a read or a write has failed         *)

blockbuffer == <<buf, offs, dirty, active>>
flashVars == <<disk, blockbuffer, target, got, suspect>>

(* The constructor; the buffer's bytes are not initialised. *)
FlashInit ==
  /\ buf \in Content
  /\ offs = 0 /\ dirty = FALSE /\ active = FALSE
  /\ target = [h \in {0, 1} |-> 0]
  /\ disk \in [Blocks -> Content]
  /\ got \in Values
  /\ suspect = {}

TargetBlock == Digit * target[1] + target[0]
-----------------------------------------------------------------------------
(* A transfer of "new" over "old" that stopped after k words. *)
Partial(new, old, k) == [w \in Words |-> IF w < k THEN new[w] ELSE old[w]]

(* writeBlock(offs): the medium after it, and the block if it failed.  No  *)
(* transfer to a block behind the end of the medium succeeds.              *)
Written(d) ==
  IF offs \in Blocks
    THEN {[disk |-> [d EXCEPT ![offs] = buf], failed |-> {}]}
           \union {[disk |-> [d EXCEPT ![offs] = Partial(buf, @, k)], failed |-> {offs}] :
                     k \in Words}
    ELSE {[disk |-> d, failed |-> {offs}]}

(* readBlock(b): the buffer after it, and the block if it failed. *)
Loaded(d, b) ==
  IF b \in Blocks
    THEN {[buf |-> d[b], failed |-> {}]}
           \union {[buf |-> Partial(d[b], buf, k), failed |-> {b}] : k \in Words}
    ELSE {[buf |-> buf, failed |-> {b}]}

(* if (dirty && active) writeBlock(offs); and a mutant that sets offs to   *)
(* the next block before.                                                  *)
CommittedToNext(b) ==
  IF dirty /\ active /\ b \in Blocks
    THEN {[disk |-> [disk EXCEPT ![b] = buf], failed |-> {}]}
    ELSE {[disk |-> disk, failed |-> {}]}

Committed(b) ==
  IF dirty /\ active THEN Written(disk) ELSE {[disk |-> disk, failed |-> {}]}

InBuffer(b) == active /\ b = offs

(* setPos for another block: commit, then load.  A success clears dirty,   *)
(* so it stays only if both fail.                                          *)
Move(b, c, r) ==
  /\ ~InBuffer(b)
  /\ c \in Committed(b)
  /\ r \in Loaded(c.disk, b)
  /\ disk' = c.disk
  /\ offs' = b /\ active' = TRUE
  /\ suspect' = suspect \union c.failed \union r.failed

StillDirty(c, r) == dirty /\ c.failed # {} /\ r.failed # {}

(* A word of the address register. *)
WriteAddr(h, v) ==
  /\ target' = [target EXCEPT ![h] = v]
  /\ UNCHANGED <<disk, blockbuffer, got, suspect>>

(* transport in the data region: the assertion, setPos, getData or setData.*)
ReadData(w) ==
  /\ TargetBlock < NumBlocks
  /\ \/ /\ InBuffer(TargetBlock)
        /\ got' = buf[w]
        /\ UNCHANGED <<disk, blockbuffer, suspect>>
     \/ \E c \in Committed(TargetBlock) : \E r \in Loaded(c.disk, TargetBlock) :
          /\ Move(TargetBlock, c, r)
          /\ buf' = r.buf
          /\ dirty' = StillDirty(c, r)
          /\ got' = r.buf[w]
  /\ UNCHANGED target

WriteData(w, v) ==
  /\ TargetBlock < NumBlocks
  /\ \/ /\ InBuffer(TargetBlock)
        /\ buf' = [buf EXCEPT ![w] = v]
        /\ UNCHANGED <<disk, offs, active, suspect>>
     \/ \E c \in Committed(TargetBlock) : \E r \in Loaded(c.disk, TargetBlock) :
          /\ Move(TargetBlock, c, r)
          /\ buf' = [r.buf EXCEPT ![w] = v]
  /\ dirty' = TRUE
  /\ UNCHANGED <<target, got>>

(* The next simulation opens the device. *)
Reopen ==
  /\ buf' \in Content
  /\ offs' = 0 /\ dirty' = FALSE /\ active' = FALSE
  /\ target' = [h \in {0, 1} |-> 0]

(* The simulator dies: by a signal, or by the assertion of the data region.*)
(* What was in the buffer only is gone.                                    *)
Die ==
  /\ Reopen
  /\ UNCHANGED <<disk, got, suspect>>

OutOfBounds == TargetBlock >= NumBlocks /\ Die

(* ~Flashcontroller: clear() writes the block back. *)
Close ==
  /\ Reopen
  /\ \E c \in Committed(NoBlock) :
       /\ disk' = c.disk
       /\ suspect' = suspect \union c.failed
  /\ UNCHANGED got

Access ==
  \/ \E h \in {0, 1}, v \in 0 .. Digit - 1 : WriteAddr(h, v)
  \/ \E w \in Words : ReadData(w) \/ \E v \in Values : WriteData(w, v)

FlashNext == Access \/ OutOfBounds \/ Die \/ Close

FlashSpec == FlashInit /\ [][FlashNext]_flashVars
-----------------------------------------------------------------------------
FlashTypeOK ==
  /\ disk \in [Blocks -> Content]
  /\ buf \in Content /\ offs \in 0 .. NumBlocks
  /\ dirty \in BOOLEAN /\ active \in BOOLEAN
  /\ target \in [{0, 1} -> 0 .. Digit - 1]
  /\ got \in Values
  /\ suspect \subseteq 0 .. NumBlocks

(* The program sees the buffer for the block it holds, the medium for the  *)
(* others.                                                                 *)
Seen(b) ==
  IF b \in suspect THEN Unknown ELSE IF InBuffer(b) THEN buf ELSE disk[b]

Device ==
  INSTANCE BlockDevice WITH
    Numbers <- 0 .. NumBlocks - 1,
    None    <- NoBlock,
    content <- [b \in Blocks |-> Seen(b)],
    recent  <- IF active THEN offs ELSE NoBlock,
    before  <- IF active /\ offs \in Blocks \ suspect THEN disk[offs] ELSE Unknown

(* The controller is a block device that keeps what was written: a program *)
(* that alternates between blocks reads what it wrote last, a kill takes   *)
(* back the changes of one block as a whole, and a failed call damages at  *)
(* most the block that is left and the block that is entered - although    *)
(* the code goes on with a buffer whose bytes belong to another block.     *)
IsBlockDevice == Device!Spec
=============================================================================
