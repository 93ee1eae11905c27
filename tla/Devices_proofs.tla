--------------------------- MODULE Devices_proofs ---------------------------
(***************************************************************************)
(* What the devices guarantee for all values of the constants: the sensor  *)
(* its times and whole frames, the Ethernet device every frame once, the   *)
(* flash controller its blocks, alone and on the platform, where they share*)
(* a clock; and the DMA engine before its memory, that a transfer copies   *)
(* what it should for every size of the buffer, every length and every     *)
(* memory, while software writes the registers at any time and any number  *)
(* of times.                                                               *)
(***************************************************************************)
EXTENDS Devices, DmaMemory, WellFoundedInduction, TLAPS

(* The flash controller.  It implements BlockDevice, for every number of   *)
(* blocks, words and values, and wherever calls fail or the simulator is   *)
(* killed.  The refinement needs to know that a clean buffer is a copy of  *)
(* its block (BufferClean), as long as no call on that block has failed:   *)
(* only then may it be given up without being written, and only then is    *)
(* what a kill leaves on the medium what the program found when it came to *)
(* the block.                                                              *)
BufferClean ==
  /\ ~active => ~dirty
  /\ active /\ ~dirty /\ offs \in Blocks \ suspect => buf = disk[offs]

FlashInv == FlashTypeOK /\ BufferClean

LEMMA TargetNatural ==
  ASSUME FlashTypeOK
  PROVE  TargetBlock \in Nat
<1>1. Digit \in Nat /\ target[0] \in Nat /\ target[1] \in Nat
  BY FlashAssumption DEF FlashTypeOK
<1>2. \A i, j \in Nat : i * j \in Nat
  OBVIOUS
<1>3. Digit * target[1] \in Nat
  BY <1>1, <1>2
<1> QED
  BY <1>1, <1>3 DEF TargetBlock

(* A partial transfer is a content of a block. *)
LEMMA PartialContent ==
  ASSUME NEW new \in Content, NEW old \in Content, NEW k
  PROVE  Partial(new, old, k) \in Content
BY DEF Partial, Content

(* Writing back changes no block but the one in the buffer, and that one   *)
(* becomes the buffer unless the call fails.                               *)
LEMMA CommitFacts ==
  ASSUME FlashInv, NEW b, NEW c \in Committed(b)
  PROVE  /\ c.disk \in [Blocks -> Content]
         /\ c.failed \subseteq 0 .. NumBlocks
         /\ active => c.failed \subseteq {offs}
         /\ ~active => c.failed = {}
         /\ \A a \in Blocks : ~InBuffer(a) => c.disk[a] = disk[a]
         /\ \A a \in Blocks : InBuffer(a) /\ a \notin suspect \union c.failed => c.disk[a] = buf
<1> USE DEF FlashInv, FlashTypeOK, BufferClean, InBuffer
<1>1. CASE ~(dirty /\ active)
  <2>1. c = [disk |-> disk, failed |-> {}]
    BY <1>1 DEF Committed
  <2> QED
    BY <1>1, <2>1
<1>2. CASE dirty /\ active
  <2>1. c \in Written(disk)
    BY <1>2 DEF Committed
  <2>2. CASE offs \notin Blocks
    <3>1. c = [disk |-> disk, failed |-> {offs}]
      BY <2>1, <2>2 DEF Written
    <3> QED
      BY <1>2, <2>2, <3>1
  <2>3. CASE offs \in Blocks /\ c = [disk |-> [disk EXCEPT ![offs] = buf], failed |-> {}]
    BY <1>2, <2>3
  <2>4. ASSUME offs \in Blocks, NEW k \in Words,
               c = [disk |-> [disk EXCEPT ![offs] = Partial(buf, @, k)], failed |-> {offs}]
        PROVE  /\ c.disk \in [Blocks -> Content]
               /\ c.failed = {offs}
               /\ \A a \in Blocks \ {offs} : c.disk[a] = disk[a]
    <3>1. Partial(buf, disk[offs], k) \in Content
      BY <2>4, PartialContent
    <3> QED
      BY <2>4, <3>1
  <2> QED
    BY <1>2, <2>1, <2>2, <2>3, <2>4 DEF Written
<1> QED
  BY <1>1, <1>2

(* Loading a block fills the buffer with it unless the call fails. *)
LEMMA LoadFacts ==
  ASSUME FlashInv, NEW d \in [Blocks -> Content], NEW b, NEW r \in Loaded(d, b)
  PROVE  /\ r.buf \in Content
         /\ r.failed \subseteq {b}
         /\ b \in Blocks \ r.failed => r.buf = d[b]
<1> USE DEF FlashInv, FlashTypeOK
<1>1. CASE b \notin Blocks
  BY <1>1 DEF Loaded
<1>2. CASE b \in Blocks /\ r = [buf |-> d[b], failed |-> {}]
  BY <1>2
<1>3. ASSUME b \in Blocks, NEW k \in Words,
             r = [buf |-> Partial(d[b], buf, k), failed |-> {b}]
      PROVE  r.buf \in Content /\ r.failed = {b}
  BY <1>3, PartialContent
<1> QED
  BY <1>1, <1>2, <1>3 DEF Loaded
-----------------------------------------------------------------------------
(* The registers and the buffer of a simulation that begins. *)
LEMMA Fresh ==
  /\ [h \in {0, 1} |-> 0] \in [{0, 1} -> 0 .. Digit - 1]
  /\ FALSE \in BOOLEAN
  /\ 0 \in 0 .. NumBlocks
<1>1. 0 \in 0 .. Digit - 1
  BY FlashAssumption
<1>2. FALSE \in BOOLEAN
  OBVIOUS
<1> QED
  BY <1>1, <1>2, FlashAssumption

LEMMA ReopenFacts ==
  ASSUME Reopen
  PROVE  /\ buf' \in Content /\ offs' \in 0 .. NumBlocks
         /\ dirty' \in BOOLEAN /\ active' \in BOOLEAN
         /\ target' \in [{0, 1} -> 0 .. Digit - 1]
         /\ BufferClean'
<1>1. /\ buf' \in Content
      /\ offs' = 0 /\ dirty' = FALSE /\ active' = FALSE
      /\ target' = [h \in {0, 1} |-> 0]
  BY DEF Reopen
<1>2. BufferClean'
  BY <1>1 DEF BufferClean
<1> QED
  BY <1>1, <1>2, Fresh, Zenon

LEMMA FlashInitInv == FlashInit => FlashInv
<1> SUFFICES ASSUME FlashInit PROVE FlashInv
  OBVIOUS
<1>1. BufferClean
  BY DEF FlashInit, BufferClean
<1>2. suspect \subseteq 0 .. NumBlocks
  BY DEF FlashInit
<1> QED
  BY <1>1, <1>2, Fresh, Zenon DEF FlashInit, FlashInv, FlashTypeOK

(* A buffer that moved from c to another block is clean, or dirty because  *)
(* nothing came out of both calls.                                         *)
LEMMA MoveFacts ==
  ASSUME FlashInv, TargetBlock < NumBlocks,
         NEW c \in Committed(TargetBlock), NEW r \in Loaded(c.disk, TargetBlock),
         Move(TargetBlock, c, r)
  PROVE  /\ disk' \in [Blocks -> Content]
         /\ r.buf \in Content
         /\ offs' = TargetBlock /\ offs' \in 0 .. NumBlocks
         /\ active' = TRUE
         /\ suspect' \subseteq 0 .. NumBlocks
         /\ offs' \in Blocks \ suspect' => r.buf = disk'[offs']
<1>1. TargetBlock \in 0 .. NumBlocks
  BY TargetNatural, FlashAssumption DEF FlashInv
<1>2. /\ c.disk \in [Blocks -> Content]
      /\ c.failed \subseteq 0 .. NumBlocks
  BY CommitFacts
<1>3. /\ r.buf \in Content
      /\ r.failed \subseteq {TargetBlock}
      /\ TargetBlock \in Blocks \ r.failed => r.buf = c.disk[TargetBlock]
  BY <1>2, LoadFacts
<1> QED
  BY <1>1, <1>2, <1>3 DEF Move, FlashInv, FlashTypeOK

LEMMA FlashStepInv ==
  ASSUME FlashInv, [FlashNext]_flashVars
  PROVE  FlashInv'
<1> USE FlashAssumption DEF FlashInv, FlashTypeOK, BufferClean, blockbuffer
<1>1. ASSUME NEW h \in {0, 1}, NEW v \in 0 .. Digit - 1, WriteAddr(h, v)
      PROVE  FlashInv'
  BY <1>1 DEF WriteAddr
<1>2. ASSUME NEW w \in Words, ReadData(w)
      PROVE  FlashInv'
  <2>1. CASE InBuffer(TargetBlock) /\ got' = buf[w] /\ UNCHANGED <<disk, blockbuffer, suspect>>
    <3>1. buf[w] \in Values
      BY DEF Content
    <3> QED
      BY <1>2, <2>1, <3>1 DEF ReadData
  <2>2. ASSUME NEW c \in Committed(TargetBlock), NEW r \in Loaded(c.disk, TargetBlock),
               Move(TargetBlock, c, r), buf' = r.buf, dirty' = StillDirty(c, r),
               got' = r.buf[w]
        PROVE  FlashInv'
    <3>1. TargetBlock < NumBlocks /\ target' = target
      BY <1>2 DEF ReadData
    <3>2. /\ disk' \in [Blocks -> Content]
          /\ r.buf \in Content
          /\ offs' = TargetBlock /\ offs' \in 0 .. NumBlocks
          /\ active' = TRUE
          /\ suspect' \subseteq 0 .. NumBlocks
          /\ offs' \in Blocks \ suspect' => r.buf = disk'[offs']
      BY <2>2, <3>1, MoveFacts
    <3>3. r.buf[w] \in Values
      BY <3>2 DEF Content
    <3>4. dirty' \in BOOLEAN
      BY <2>2 DEF StillDirty
    <3> QED
      BY <2>2, <3>1, <3>2, <3>3, <3>4
  <2> QED
    BY <1>2, <2>1, <2>2 DEF ReadData
<1>3. ASSUME NEW w \in Words, NEW v \in Values, WriteData(w, v)
      PROVE  FlashInv'
  <2>1. CASE InBuffer(TargetBlock) /\ buf' = [buf EXCEPT ![w] = v]
             /\ UNCHANGED <<disk, offs, active, suspect>>
    <3>1. [buf EXCEPT ![w] = v] \in Content
      BY DEF Content
    <3> QED
      BY <1>3, <2>1, <3>1 DEF WriteData, InBuffer
  <2>2. ASSUME NEW c \in Committed(TargetBlock), NEW r \in Loaded(c.disk, TargetBlock),
               Move(TargetBlock, c, r), buf' = [r.buf EXCEPT ![w] = v]
        PROVE  FlashInv'
    <3>1. TargetBlock < NumBlocks /\ target' = target /\ got' = got /\ dirty' = TRUE
      BY <1>3 DEF WriteData
    <3>2. /\ disk' \in [Blocks -> Content]
          /\ r.buf \in Content
          /\ offs' = TargetBlock /\ offs' \in 0 .. NumBlocks
          /\ active' = TRUE
          /\ suspect' \subseteq 0 .. NumBlocks
      BY <2>2, <3>1, MoveFacts
    <3>3. buf' \in Content
      BY <2>2, <3>2 DEF Content
    <3> QED
      BY <3>1, <3>2, <3>3
  <2> QED
    BY <1>3, <2>1, <2>2 DEF WriteData
<1>4. CASE OutOfBounds \/ Die
  BY <1>4, ReopenFacts DEF OutOfBounds, Die
<1>5. CASE Close
  <2>1. PICK c \in Committed(NoBlock) : disk' = c.disk /\ suspect' = suspect \union c.failed
    BY <1>5 DEF Close
  <2>2. c.disk \in [Blocks -> Content] /\ c.failed \subseteq 0 .. NumBlocks
    BY CommitFacts
  <2> QED
    BY <1>5, <2>1, <2>2, ReopenFacts DEF Close
<1>6. CASE UNCHANGED flashVars
  BY <1>6 DEF flashVars
<1> QED
  BY <1>1, <1>2, <1>3, <1>4, <1>5, <1>6 DEF FlashNext, Access

(* The controller keeps its registers, its buffer and the medium in range, *)
(* and a clean buffer is a copy of its block, wherever calls fail or the   *)
(* simulation ends.                                                        *)
THEOREM FlashInvariant == FlashSpec => []FlashInv
BY FlashInitInv, FlashStepInv, PTL DEF FlashSpec
-----------------------------------------------------------------------------
(* The state of BlockDevice. *)
content == [b \in Blocks |-> Seen(b)]
recent  == IF active THEN offs ELSE NoBlock
before  == IF active /\ offs \in Blocks \ suspect THEN disk[offs] ELSE Unknown

LEMMA SeenFacts ==
  ASSUME FlashInv, NEW b \in Blocks
  PROVE  /\ Seen(b) \in Content \union {Unknown}
         /\ Seen(b) = Unknown <=> b \in suspect
BY FlashAssumption DEF FlashInv, FlashTypeOK, Seen

(* Moving to another block damages at most the block that is left and the  *)
(* block that is entered; the other blocks look as before, and the block   *)
(* that is entered is in the buffer.                                       *)
LEMMA MoveSeen ==
  ASSUME FlashInv, TargetBlock < NumBlocks,
         NEW c \in Committed(TargetBlock), NEW r \in Loaded(c.disk, TargetBlock),
         Move(TargetBlock, c, r)
  PROVE  /\ TargetBlock # recent
         /\ c.failed \union r.failed \in SUBSET {recent, TargetBlock}
         /\ TargetBlock \in Blocks \ suspect' => r.buf = Seen(TargetBlock)
         /\ TargetBlock \in Blocks \ suspect' => r.buf = disk'[TargetBlock]
         /\ \A b \in Blocks \ {TargetBlock} :
              Seen(b)' = IF b \in c.failed \union r.failed THEN Unknown ELSE Seen(b)
<1>1. /\ c.disk \in [Blocks -> Content]
      /\ active => c.failed \subseteq {offs}
      /\ ~active => c.failed = {}
      /\ \A a \in Blocks : ~InBuffer(a) => c.disk[a] = disk[a]
      /\ \A a \in Blocks : InBuffer(a) /\ a \notin suspect \union c.failed => c.disk[a] = buf
  BY CommitFacts
<1>2. /\ r.failed \subseteq {TargetBlock}
      /\ TargetBlock \in Blocks \ r.failed => r.buf = c.disk[TargetBlock]
  BY <1>1, LoadFacts
<1>3. /\ ~InBuffer(TargetBlock)
      /\ disk' = c.disk /\ offs' = TargetBlock /\ active' = TRUE
      /\ suspect' = suspect \union c.failed \union r.failed
  BY DEF Move
<1>4. TargetBlock # recent
  BY <1>3, TargetNatural, FlashAssumption DEF recent, InBuffer, NoBlock, FlashInv
<1>5. c.failed \union r.failed \in SUBSET {recent, TargetBlock}
  BY <1>1, <1>2 DEF recent
<1>6. TargetBlock \in Blocks \ suspect' => r.buf = Seen(TargetBlock) /\ r.buf = disk'[TargetBlock]
  BY <1>1, <1>2, <1>3 DEF Seen
<1>7. ASSUME NEW b \in Blocks \ {TargetBlock}
      PROVE  Seen(b)' = IF b \in c.failed \union r.failed THEN Unknown ELSE Seen(b)
  <2>1. ~InBuffer(b)'
    BY <1>3, <1>7 DEF InBuffer
  <2>2. Seen(b)' = IF b \in suspect' THEN Unknown ELSE disk'[b]
    BY <2>1 DEF Seen
  <2>3. b \notin suspect \union c.failed => disk'[b] = Seen(b)
    BY <1>1, <1>3 DEF Seen
  <2> QED
    BY <1>3, <2>2, <2>3 DEF Seen
<1> QED
  BY <1>4, <1>5, <1>6, <1>7
-----------------------------------------------------------------------------
(* The steps of BlockDevice, in these terms. *)
LEMMA DeviceRead ==
  ASSUME NEW b, NEW w, NEW D \in Device!Failures(b),
         content' = Device!Failed(D), before' = Device!Entered(b, D), recent' = b,
         got' \in IF Device!Known(b, D) THEN {Device!Failed(D)[b][w]} ELSE Values
  PROVE  Device!Read(b, w)
BY DEF Device!Read, content, before, recent

LEMMA DeviceWrite ==
  ASSUME NEW b, NEW w, NEW v, NEW D \in Device!Failures(b),
         content' = IF Device!Known(b, D) THEN [Device!Failed(D) EXCEPT ![b][w] = v]
                                          ELSE Device!Failed(D),
         before' = Device!Entered(b, D), recent' = b, got' = got
  PROVE  Device!Write(b, w, v)
BY DEF Device!Write, content, before, recent

(* What BlockDevice makes of failures, in these terms. *)
LEMMA DeviceFailed ==
  ASSUME FlashInv, NEW b \in Blocks, NEW D
  PROVE  /\ Device!Failed(D)[b] = IF b \in D THEN Unknown ELSE Seen(b)
         /\ Device!Known(b, D) <=> b \notin suspect \union D
BY SeenFacts DEF Device!Failed, Device!Known

LEMMA FailedSame ==
  /\ Device!Failed({}) = content
  /\ Device!Failures(recent) = {{}}
  /\ Device!Entered(recent, {}) = before
BY DEF Device!Failed, Device!Failures, Device!Entered, content, recent, before

(* An access that hits the buffer is one without failures. *)
LEMMA ReadHitRefines ==
  ASSUME FlashInv, NEW w \in Words, InBuffer(TargetBlock), got' = buf[w],
         UNCHANGED <<disk, blockbuffer, suspect>>
  PROVE  Device!Read(TargetBlock, w)
<1>1. TargetBlock = recent
  BY DEF InBuffer, recent
<1>2. content' = content /\ before' = before /\ recent' = recent
  BY DEF content, before, recent, Seen, InBuffer, blockbuffer
<1>3. buf[w] \in Values
  BY DEF FlashInv, FlashTypeOK, Content
<1>4. got' \in IF Device!Known(TargetBlock, {}) THEN {Device!Failed({})[TargetBlock][w]} ELSE Values
  <2>1. CASE TargetBlock \notin Blocks
    BY <1>3, <2>1 DEF Device!Known
  <2>2. CASE TargetBlock \in Blocks
    BY <1>3, <2>2, DeviceFailed DEF Seen
  <2> QED
    BY <2>1, <2>2
<1> QED
  BY <1>1, <1>2, <1>4, FailedSame, DeviceRead

LEMMA WriteHitRefines ==
  ASSUME FlashInv, NEW w \in Words, NEW v \in Values, InBuffer(TargetBlock),
         buf' = [buf EXCEPT ![w] = v], UNCHANGED <<disk, offs, active, suspect, got>>
  PROVE  Device!Write(TargetBlock, w, v)
<1>1. TargetBlock = recent
  BY DEF InBuffer, recent
<1>2. before' = before /\ recent' = recent
  BY DEF before, recent
<1>3. content' = IF Device!Known(TargetBlock, {})
                   THEN [Device!Failed({}) EXCEPT ![TargetBlock][w] = v]
                   ELSE Device!Failed({})
  <2>1. \A b \in Blocks :
          Seen(b)' = IF b = TargetBlock /\ b \notin suspect THEN [buf EXCEPT ![w] = v] ELSE Seen(b)
    BY DEF Seen, InBuffer
  <2>2. CASE Device!Known(TargetBlock, {})
    <3>1. TargetBlock \in Blocks /\ TargetBlock \notin suspect
      BY <2>2, DeviceFailed DEF Device!Known
    <3>2. Seen(TargetBlock) = buf
      BY <3>1 DEF Seen
    <3>3. content' = [content EXCEPT ![TargetBlock][w] = v]
      BY <2>1, <3>1, <3>2 DEF content
    <3> QED
      BY <2>2, <3>3, FailedSame
  <2>3. CASE ~Device!Known(TargetBlock, {})
    <3>1. TargetBlock \notin Blocks \/ TargetBlock \in suspect
      BY <2>3, DeviceFailed
    <3>2. content' = content
      BY <2>1, <3>1 DEF content
    <3> QED
      BY <2>3, <3>2, FailedSame
  <2> QED
    BY <2>2, <2>3
<1> QED
  BY <1>1, <1>2, <1>3, FailedSame, DeviceWrite

(* An access that moves the buffer is one with the failures of its calls.  *)
LEMMA MoveRefines ==
  ASSUME FlashInv, TargetBlock < NumBlocks,
         NEW c \in Committed(TargetBlock), NEW r \in Loaded(c.disk, TargetBlock),
         Move(TargetBlock, c, r)
  PROVE  /\ c.failed \union r.failed \in Device!Failures(TargetBlock)
         /\ before' = Device!Entered(TargetBlock, c.failed \union r.failed)
         /\ recent' = TargetBlock
         /\ suspect' = suspect \union (c.failed \union r.failed)
         /\ \A b \in Blocks \ {TargetBlock} :
              Seen(b)' = Device!Failed(c.failed \union r.failed)[b]
         /\ TargetBlock \in Blocks =>
              Device!Failed(c.failed \union r.failed)[TargetBlock] =
                IF TargetBlock \in suspect' THEN Unknown ELSE r.buf
<1> DEFINE D == c.failed \union r.failed
<1>1. /\ TargetBlock # recent
      /\ D \in SUBSET {recent, TargetBlock}
      /\ TargetBlock \in Blocks \ suspect' => r.buf = Seen(TargetBlock)
      /\ TargetBlock \in Blocks \ suspect' => r.buf = disk'[TargetBlock]
      /\ \A b \in Blocks \ {TargetBlock} :
           Seen(b)' = IF b \in D THEN Unknown ELSE Seen(b)
  BY MoveSeen
<1>2. offs' = TargetBlock /\ active' = TRUE /\ suspect' = suspect \union D
  BY DEF Move
<1>3. D \in Device!Failures(TargetBlock) /\ recent' = TargetBlock
  BY <1>1, <1>2 DEF Device!Failures, recent
<1>4. \A b \in Blocks : Device!Failed(D)[b] = IF b \in D THEN Unknown ELSE Seen(b)
  BY DeviceFailed
<1>5. TargetBlock \in Blocks =>
        Device!Failed(D)[TargetBlock] = IF TargetBlock \in suspect' THEN Unknown ELSE r.buf
  BY <1>1, <1>2, <1>4 DEF Seen
<1>6. before' = IF TargetBlock \in Blocks \ suspect' THEN disk'[TargetBlock] ELSE Unknown
  BY <1>2 DEF before
<1>7. Device!Entered(TargetBlock, D) =
        IF TargetBlock \in Blocks THEN Device!Failed(D)[TargetBlock] ELSE Unknown
  BY <1>1 DEF Device!Entered, recent
<1>8. before' = Device!Entered(TargetBlock, D)
  BY <1>1, <1>5, <1>6, <1>7
<1> HIDE DEF D
<1>9. \A b \in Blocks \ {TargetBlock} : Seen(b)' = Device!Failed(D)[b]
  BY <1>1, <1>4
<1> QED
  BY <1>2, <1>3, <1>5, <1>8, <1>9 DEF D

LEMMA ReadMissRefines ==
  ASSUME FlashInv, TargetBlock < NumBlocks, NEW w \in Words,
         NEW c \in Committed(TargetBlock), NEW r \in Loaded(c.disk, TargetBlock),
         Move(TargetBlock, c, r), buf' = r.buf, got' = r.buf[w]
  PROVE  Device!Read(TargetBlock, w)
<1> DEFINE D == c.failed \union r.failed
<1>1. /\ D \in Device!Failures(TargetBlock)
      /\ before' = Device!Entered(TargetBlock, D)
      /\ recent' = TargetBlock
      /\ suspect' = suspect \union D
      /\ \A b \in Blocks \ {TargetBlock} : Seen(b)' = Device!Failed(D)[b]
      /\ TargetBlock \in Blocks =>
           Device!Failed(D)[TargetBlock] = IF TargetBlock \in suspect' THEN Unknown ELSE r.buf
  BY MoveRefines
<1>2. r.buf \in Content
  BY CommitFacts, LoadFacts
<1> HIDE DEF D
<1>3. \A b \in Blocks : b = TargetBlock =>
        Seen(b)' = IF b \in suspect' THEN Unknown ELSE r.buf
  BY DEF Seen, InBuffer, Move
<1>4. content' = Device!Failed(D)
  <2>1. \A b \in Blocks : Seen(b)' = Device!Failed(D)[b]
    BY <1>1, <1>3
  <2> QED
    BY <2>1 DEF content, Device!Failed
<1>5. got' \in IF Device!Known(TargetBlock, D) THEN {Device!Failed(D)[TargetBlock][w]} ELSE Values
  <2>1. got' \in Values
    BY <1>2 DEF Content
  <2>2. Device!Known(TargetBlock, D) => got' = Device!Failed(D)[TargetBlock][w]
    BY <1>1 DEF Device!Known
  <2> QED
    BY <2>1, <2>2
<1> QED
  BY <1>1, <1>4, <1>5, DeviceRead

LEMMA WriteMissRefines ==
  ASSUME FlashInv, TargetBlock < NumBlocks, NEW w \in Words, NEW v \in Values,
         NEW c \in Committed(TargetBlock), NEW r \in Loaded(c.disk, TargetBlock),
         Move(TargetBlock, c, r), buf' = [r.buf EXCEPT ![w] = v], got' = got
  PROVE  Device!Write(TargetBlock, w, v)
<1> DEFINE D == c.failed \union r.failed
<1>1. /\ D \in Device!Failures(TargetBlock)
      /\ before' = Device!Entered(TargetBlock, D)
      /\ recent' = TargetBlock
      /\ suspect' = suspect \union D
      /\ \A b \in Blocks \ {TargetBlock} : Seen(b)' = Device!Failed(D)[b]
      /\ TargetBlock \in Blocks =>
           Device!Failed(D)[TargetBlock] = IF TargetBlock \in suspect' THEN Unknown ELSE r.buf
  BY MoveRefines
<1> HIDE DEF D
<1>2. \A b \in Blocks : b = TargetBlock =>
        Seen(b)' = IF b \in suspect' THEN Unknown ELSE [r.buf EXCEPT ![w] = v]
  BY DEF Seen, InBuffer, Move
<1>3. Device!Known(TargetBlock, D) <=> TargetBlock \in Blocks \ suspect'
  BY <1>1, DeviceFailed DEF Device!Known
<1>4. content' = IF Device!Known(TargetBlock, D)
                   THEN [Device!Failed(D) EXCEPT ![TargetBlock][w] = v]
                   ELSE Device!Failed(D)
  <2>1. CASE TargetBlock \in Blocks \ suspect'
    <3>1. \A b \in Blocks : Seen(b)' = [Device!Failed(D) EXCEPT ![TargetBlock][w] = v][b]
      BY <1>1, <1>2, <2>1 DEF Device!Failed
    <3> QED
      BY <1>3, <2>1, <3>1 DEF content, Device!Failed
  <2>2. CASE TargetBlock \notin Blocks \ suspect'
    <3>1. \A b \in Blocks : Seen(b)' = Device!Failed(D)[b]
      BY <1>1, <1>2, <2>2
    <3> QED
      BY <1>3, <2>2, <3>1 DEF content, Device!Failed
  <2> QED
    BY <2>1, <2>2
<1> QED
  BY <1>1, <1>4, DeviceWrite

(* A kill takes back what only the buffer held: one block. *)
LEMMA KillRefines ==
  ASSUME FlashInv, Die
  PROVE  Device!Kill
<1>1. recent' = NoBlock /\ before' = Unknown /\ got' = got
  BY DEF Die, Reopen, recent, before
<1>2. \A b \in Blocks :
        Seen(b)' = IF b = recent /\ Seen(b) # Unknown THEN before ELSE Seen(b)
  <2>1. ASSUME NEW b \in Blocks
        PROVE  Seen(b)' = IF b = recent /\ Seen(b) # Unknown THEN before ELSE Seen(b)
    <3>1. Seen(b)' = IF b \in suspect THEN Unknown ELSE disk[b]
      BY DEF Die, Reopen, Seen, InBuffer
    <3>2. b # NoBlock
      BY FlashAssumption DEF Blocks, NoBlock
    <3>3. CASE b = recent
      <4>1. active /\ b = offs
        BY <3>2, <3>3 DEF recent
      <4> QED
        BY <3>1, <3>3, <4>1, SeenFacts DEF before
    <3>4. CASE b # recent
      <4>1. ~InBuffer(b)
        BY <3>4 DEF recent, InBuffer
      <4> QED
        BY <3>1, <3>4, <4>1 DEF Seen
    <3> QED
      BY <3>3, <3>4
  <2> QED
    BY <2>1
<1> QED
  BY <1>1, <1>2 DEF Device!Kill, content, recent, before

(* The end in order writes the block back, if it can. *)
LEMMA CloseRefines ==
  ASSUME FlashInv, Close
  PROVE  Device!Close
<1>1. recent' = NoBlock /\ before' = Unknown /\ got' = got
  BY DEF Close, Reopen, recent, before
<1>2. PICK c \in Committed(NoBlock) : disk' = c.disk /\ suspect' = suspect \union c.failed
  BY DEF Close
<1>3. /\ active => c.failed \subseteq {offs}
      /\ ~active => c.failed = {}
      /\ \A a \in Blocks : ~InBuffer(a) => c.disk[a] = disk[a]
      /\ \A a \in Blocks : InBuffer(a) /\ a \notin suspect \union c.failed => c.disk[a] = buf
  BY CommitFacts
<1>4. c.failed \in SUBSET {recent}
  BY <1>3 DEF recent
<1>5. \A b \in Blocks : Seen(b)' = Device!Failed(c.failed)[b]
  <2>1. ASSUME NEW b \in Blocks PROVE Seen(b)' = IF b \in c.failed THEN Unknown ELSE Seen(b)
    <3>1. Seen(b)' = IF b \in suspect \union c.failed THEN Unknown ELSE c.disk[b]
      BY <1>2 DEF Close, Reopen, Seen, InBuffer
    <3> QED
      BY <1>3, <3>1 DEF Seen
  <2> QED
    BY <2>1, DeviceFailed
<1>6. content' = Device!Failed(c.failed)
  BY <1>5 DEF content, Device!Failed
<1> QED
  BY <1>1, <1>4, <1>6 DEF Device!Close, content, recent, before

(* Every step of the controller is a step of the block device, or leaves   *)
(* it as it is.                                                            *)
LEMMA FlashStepRefines ==
  ASSUME FlashInv, [FlashNext]_flashVars
  PROVE  [Device!Next]_(Device!vars)
<1>1. ASSUME NEW h \in {0, 1}, NEW v \in 0 .. Digit - 1, WriteAddr(h, v)
      PROVE  UNCHANGED Device!vars
  BY <1>1 DEF WriteAddr, Device!vars, Seen, InBuffer, blockbuffer
<1>2. ASSUME NEW w \in Words, ReadData(w)
      PROVE  Device!Next
  <2>1. TargetBlock \in 0 .. NumBlocks - 1
    BY <1>2, TargetNatural, FlashAssumption DEF ReadData, FlashInv
  <2>2. Device!Read(TargetBlock, w)
    BY <1>2, ReadHitRefines, ReadMissRefines DEF ReadData
  <2> QED
    BY <2>1, <2>2 DEF Device!Next
<1>3. ASSUME NEW w \in Words, NEW v \in Values, WriteData(w, v)
      PROVE  Device!Next
  <2>1. TargetBlock \in 0 .. NumBlocks - 1
    BY <1>3, TargetNatural, FlashAssumption DEF WriteData, FlashInv
  <2>2. Device!Write(TargetBlock, w, v)
    BY <1>3, WriteHitRefines, WriteMissRefines DEF WriteData
  <2> QED
    BY <2>1, <2>2 DEF Device!Next
<1>4. CASE OutOfBounds \/ Die
  BY <1>4, KillRefines DEF OutOfBounds, Device!Next
<1>5. CASE Close
  BY <1>5, CloseRefines DEF Device!Next
<1>6. CASE UNCHANGED flashVars
  BY <1>6 DEF flashVars, Device!vars, Seen, InBuffer, blockbuffer
<1> QED
  BY <1>1, <1>2, <1>3, <1>4, <1>5, <1>6 DEF FlashNext, Access

LEMMA FlashInitRefines == FlashInit => Device!Init
BY DEF FlashInit, Device!Init, Seen, InBuffer, Content, Device!Content

(* The controller is a block device that keeps what was written, of any    *)
(* size: a program that alternates between blocks reads what it wrote      *)
(* last, a kill takes back the changes of at most one block, and a failed  *)
(* call damages no block but the two it is between.                        *)
THEOREM ImplementsBlockDevice == FlashSpec => IsBlockDevice
<1>1. FlashInv /\ [FlashNext]_flashVars => [Device!Next]_(Device!vars)
  BY FlashStepRefines
<1> QED
  BY <1>1, FlashInitRefines, FlashInvariant, PTL DEF FlashSpec, IsBlockDevice, Device!Spec
-----------------------------------------------------------------------------

(* The sensor.  Where the thread does not wait, a pending event is one the *)
(* program has set at this very instant: no time has passed since.  Without*)
(* a pending interrupt no piece is of an old frame.                        *)
SensorInv ==
  /\ SensorTypeOK
  /\ FramesOnTime
  /\ thread = "start" => since = 0
  /\ thread # "waiting" /\ left # NoTime => since = 0
  /\ ~irq => \A p \in Parts : copied[p] # "old"

LEMMA SensorInitInv == SensorInit => SensorInv
<1> USE SensorAssumption
<1> SUFFICES ASSUME SensorInit PROVE SensorInv
  OBVIOUS
<1>1. irq \in BOOLEAN
  BY DEF SensorInit
<1> QED
  BY <1>1 DEF SensorInit, SensorInv, SensorTypeOK, FramesOnTime, NoTime, Kinds

LEMMA SensorStepInv ==
  ASSUME SensorInv, [SensorNext]_sensorVars
  PROVE  SensorInv'
<1> USE SensorAssumption DEF SensorInv, SensorTypeOK, FramesOnTime, NoTime, Kinds, sensorRegs
<1>1. ASSUME NEW v \in 0 .. MaxScaler + 1, WriteScaler(v)
      PROVE  SensorInv'
  BY <1>1 DEF WriteScaler, Notified
<1>2. ASSUME NEW v \in 0 .. 3, WriteFilter(v)
      PROVE  SensorInv'
  BY <1>2 DEF WriteFilter
<1>3. ASSUME NEW p \in Parts, ReadPart(p)
      PROVE  SensorInv'
  BY <1>3 DEF ReadPart
<1>4. CASE ClaimFrame
  <2>1. irq' \in BOOLEAN
    BY <1>4 DEF ClaimFrame
  <2> QED
    BY <1>4, <2>1 DEF ClaimFrame
<1>5. CASE StartSensor
  BY <1>5 DEF StartSensor, Notified
<1>6. CASE FireSensor
  BY <1>6 DEF FireSensor
<1>7. CASE FillFrame
  <2>1. irq' \in BOOLEAN
    BY <1>7 DEF FillFrame
  <2>2. copied' \in [Parts -> {"none", "current", "old"}]
    BY <1>7 DEF FillFrame, Aged
  <2> QED
    BY <1>7, <2>1, <2>2 DEF FillFrame, Notified, Kind
<1>8. CASE SensorTick
  BY <1>8 DEF SensorTick
<1>9. CASE UNCHANGED sensorVars
  BY <1>9 DEF sensorVars
<1> QED
  BY <1>1, <1>2, <1>3, <1>4, <1>5, <1>6, <1>7, <1>8, <1>9
  DEF SensorNext, SensorProgram, SensorThread

LEMMA SensorInvariant == SensorSpec => []SensorInv
BY SensorInitInv, SensorStepInv, PTL DEF SensorSpec

(* While the thread waits its event is pending, exactly one period after   *)
(* the last frame or the last accepted write of the period, for every      *)
(* period and however the writes fall.                                     *)
THEOREM FramesAlwaysOnTime == SensorSpec => []FramesOnTime
<1>1. SensorInv => FramesOnTime
  BY DEF SensorInv
<1> QED
  BY <1>1, SensorInvariant, PTL

(* A program that has read all pieces since its interrupt, and finds no    *)
(* new one, has one frame, the current one, in however many pieces.        *)
THEOREM FrameAlwaysWhole == SensorSpec => []FrameWhole
<1>1. SensorInv => FrameWhole
  BY DEF SensorInv, SensorTypeOK, FrameWhole
<1> QED
  BY <1>1, SensorInvariant, PTL
-----------------------------------------------------------------------------
(* A set of natural numbers that is not empty has a least one. *)
LEMMA LeastNumber ==
  ASSUME NEW S \in SUBSET Nat, S # {}
  PROVE  \E k \in S : \A j \in S : k <= j
<1> DEFINE R == {ss \in Nat \X Nat : ss[1] < ss[2]}
<1>1. IsWellFoundedOn(R, Nat)
  BY NatLessThanWellFounded DEF OpToRel
<1>2. PICK k \in S : \A j \in S : ~(<<j, k>> \in R)
  <2> HIDE DEF R
  <2> QED
    BY <1>1, WFMin
<1>3. \A j \in S : j \in Nat /\ k \in Nat /\ (<<j, k>> \in R <=> j < k)
  OBVIOUS
<1> HIDE DEF R
<1>4. \A j \in S : j \in Nat /\ ~(j < k)
  BY <1>2, <1>3
<1>5. \A j, i \in Nat : ~(j < i) => i <= j
  OBVIOUS
<1> QED
  BY <1>2, <1>4, <1>5

(* The Ethernet device.  A frame is kept while the size register is not    *)
(* zero: it is the last that was read, and exactly one interrupt stands    *)
(* for it.  All others for us that were read are taken, in order; the i-th *)
(* of them is at least the i-th that arrived.                              *)
EtherTypes ==
  /\ arrived \in Seq(Frames) /\ Len(arrived) <= MaxFrames
  /\ pos \in 0 .. Len(arrived)
  /\ recv_frame_buf \in 0 .. Len(arrived)
  /\ receive_size \in 0 .. Len(arrived)
  /\ has_frame \in BOOLEAN /\ etherIrq \in BOOLEAN /\ told \in BOOLEAN
  /\ wait \in 0 .. Period
  /\ taken \in Seq([frame : Nat, size : Nat])
  /\ failed \in {"none", "tap", "memory", "assertion", "operation"}

KeptFrame ==
  /\ ~has_frame => receive_size = 0
  /\ receive_size # 0 =>
       /\ receive_size = pos /\ recv_frame_buf = pos
       /\ IsPacketForUs(arrived[pos])
       /\ \A i \in 1 .. Len(taken) : taken[i].frame < pos
  /\ (receive_size # 0) <=> (etherIrq \/ told)
  /\ ~(etherIrq /\ told)

TakenFrames ==
  /\ \A i \in 1 .. Len(taken) :
       /\ taken[i].frame \in i .. pos
       /\ IsPacketForUs(arrived[taken[i].frame])
       /\ taken[i].size = taken[i].frame
       /\ i > 1 => taken[i - 1].frame < taken[i].frame
  /\ \A k \in 1 .. pos :
       IsPacketForUs(arrived[k]) =>
         (receive_size # 0 /\ k = pos) \/ \E i \in 1 .. Len(taken) : taken[i].frame = k

EtherInv == EtherTypes /\ KeptFrame /\ TakenFrames

LEMMA EtherInitInv == EthernetInit => EtherInv
<1> SUFFICES ASSUME EthernetInit PROVE EtherInv
  OBVIOUS
<1>1. /\ arrived = <<>> /\ taken = <<>> /\ pos = 0
      /\ recv_frame_buf = 0 /\ receive_size = 0
      /\ has_frame \in BOOLEAN /\ etherIrq = FALSE /\ told = FALSE
      /\ wait = Period /\ failed = "none"
  BY DEF EthernetInit
<1>2. etherIrq \in BOOLEAN /\ told \in BOOLEAN
  BY <1>1
<1>3. EtherTypes
  BY <1>1, <1>2, EthernetAssumption DEF EtherTypes
<1>4. KeptFrame /\ TakenFrames
  BY <1>1 DEF KeptFrame, TakenFrames
<1> QED
  BY <1>3, <1>4 DEF EtherInv

(* The tap is read up to the first frame for us, or to its end. *)
LEMMA ReadFacts ==
  ASSUME EtherTypes
  PROVE  /\ ReadUpTo \in pos .. Len(arrived)
         /\ Found \in BOOLEAN
         /\ Found => ReadUpTo > pos /\ IsPacketForUs(arrived[ReadUpTo])
         /\ \A k \in pos + 1 .. ReadUpTo :
              IsPacketForUs(arrived[k]) => Found /\ k = ReadUpTo
<1> USE DEF EtherTypes
<1>0. Found \in BOOLEAN
  BY DEF Found, IsPacketForUs
<1>1. ForUsBehind(pos) \in SUBSET Nat
  BY DEF ForUsBehind
<1>2. CASE ForUsBehind(pos) = {}
  <2>1. ReadUpTo = Len(arrived) /\ ~Found
    BY <1>2 DEF ReadUpTo, Found
  <2>2. \A k \in pos + 1 .. Len(arrived) : ~IsPacketForUs(arrived[k])
    BY <1>2 DEF ForUsBehind
  <2> QED
    BY <1>0, <2>1, <2>2
<1>3. CASE ForUsBehind(pos) # {}
  <2>1. /\ ReadUpTo \in ForUsBehind(pos)
        /\ \A j \in ForUsBehind(pos) : ReadUpTo <= j
    <3>1. \E k \in ForUsBehind(pos) : \A j \in ForUsBehind(pos) : k <= j
      BY <1>1, <1>3, LeastNumber
    <3>2. ReadUpTo = CHOOSE k \in ForUsBehind(pos) : \A j \in ForUsBehind(pos) : k <= j
      BY <1>3 DEF ReadUpTo
    <3> QED
      BY <3>1, <3>2
  <2>2. /\ ReadUpTo \in pos + 1 .. Len(arrived)
        /\ IsPacketForUs(arrived[ReadUpTo])
    BY <2>1 DEF ForUsBehind
  <2>3. Found
    BY <1>3, <2>2 DEF Found
  <2>4. \A k \in pos + 1 .. ReadUpTo : IsPacketForUs(arrived[k]) => k = ReadUpTo
    BY <2>1, <2>2 DEF ForUsBehind
  <2> QED
    BY <1>0, <2>2, <2>3, <2>4
<1> QED
  BY <1>2, <1>3

LEMMA PollInv ==
  ASSUME EtherInv, Poll
  PROVE  EtherInv'
<1> USE DEF EtherInv, EtherTypes, device
<1>1. wait' \in 0 .. Period
  BY EthernetAssumption DEF Poll
<1>2. CASE has_frame
  BY <1>1, <1>2 DEF Poll, KeptFrame, TakenFrames
<1>3. CASE ~has_frame
  <2>1. /\ ReadUpTo \in pos .. Len(arrived)
        /\ Found \in BOOLEAN
        /\ Found => ReadUpTo > pos /\ IsPacketForUs(arrived[ReadUpTo])
        /\ \A k \in pos + 1 .. ReadUpTo :
             IsPacketForUs(arrived[k]) => Found /\ k = ReadUpTo
    BY ReadFacts
  <2>2. receive_size = 0 /\ ~etherIrq /\ ~told
    BY <1>3 DEF KeptFrame
  <2>3. /\ pos' = ReadUpTo
        /\ recv_frame_buf' = IF ReadUpTo > pos THEN ReadUpTo ELSE recv_frame_buf
        /\ has_frame' = Found
        /\ receive_size' = IF Found THEN ReadUpTo ELSE receive_size
        /\ etherIrq' = (etherIrq \/ Found)
        /\ UNCHANGED <<arrived, told, taken, failed>>
    BY <1>3 DEF Poll
  <2>4. etherIrq' = Found
    BY <2>1, <2>2, <2>3
  <2>5. EtherTypes'
    BY <1>1, <2>1, <2>2, <2>3, <2>4
  <2>6. KeptFrame'
    BY <2>1, <2>2, <2>3, <2>4 DEF KeptFrame, TakenFrames
  <2>7. TakenFrames'
    <3>1. \A i \in 1 .. Len(taken) : taken[i].frame \in i .. pos
      BY DEF TakenFrames
    <3>2. \A i \in 1 .. Len(taken) : taken[i].frame \in i .. ReadUpTo
      BY <2>1, <3>1
    <3>3. \A k \in 1 .. ReadUpTo :
            IsPacketForUs(arrived[k]) =>
              (Found /\ k = ReadUpTo) \/ \E i \in 1 .. Len(taken) : taken[i].frame = k
      BY <2>1, <2>2 DEF TakenFrames
    <3>4. \A i \in 1 .. Len(taken) :
            /\ IsPacketForUs(arrived[taken[i].frame])
            /\ taken[i].size = taken[i].frame
            /\ i > 1 => taken[i - 1].frame < taken[i].frame
      BY DEF TakenFrames
    <3>5. Found => ReadUpTo # 0
      BY <2>1
    <3> HIDE DEF EtherTypes
    <3>6. \A k \in 1 .. ReadUpTo :
            IsPacketForUs(arrived[k]) =>
              (receive_size' # 0 /\ k = ReadUpTo) \/ \E i \in 1 .. Len(taken) : taken[i].frame = k
      BY <2>3, <3>3, <3>5
    <3> QED
      BY <2>3, <3>2, <3>4, <3>6 DEF TakenFrames
  <2> QED
    BY <2>5, <2>6, <2>7
<1> QED
  BY <1>2, <1>3

LEMMA ArriveInv ==
  ASSUME EtherInv, NEW f \in Frames, Arrive(f)
  PROVE  EtherInv'
<1> USE DEF EtherInv, EtherTypes, device
<1>1. /\ arrived' \in Seq(Frames) /\ Len(arrived') = Len(arrived) + 1
      /\ \A k \in 1 .. Len(arrived) : arrived'[k] = arrived[k]
      /\ Len(arrived') <= MaxFrames
  BY EthernetAssumption DEF Arrive
<1>2. UNCHANGED <<pos, device, wait, etherIrq, told, taken, failed>>
  BY DEF Arrive
<1>3. EtherTypes'
  BY <1>1, <1>2
<1>4. KeptFrame'
  BY <1>1, <1>2 DEF KeptFrame
<1>5. \A k \in 1 .. pos : arrived'[k] = arrived[k]
  BY <1>1
<1>6. \A i \in 1 .. Len(taken) : taken[i].frame \in 1 .. Len(arrived)
  <2>1. pos \in 0 .. Len(arrived) /\ Len(arrived) \in Nat
    OBVIOUS
  <2> HIDE DEF EtherTypes
  <2>2. \A i \in 1 .. Len(taken) : taken[i].frame \in i .. pos
    BY DEF TakenFrames
  <2> QED
    BY <2>1, <2>2
<1> HIDE DEF EtherTypes
<1>7. TakenFrames'
  BY <1>1, <1>2, <1>5, <1>6 DEF TakenFrames
<1> QED
  BY <1>3, <1>4, <1>7

(* The program finds the frame that it was told of. *)
LEMMA RecvInv ==
  ASSUME EtherInv, Recv
  PROVE  EtherInv'
<1> USE DEF EtherInv, EtherTypes
<1>1. /\ has_frame /\ receive_size = pos /\ recv_frame_buf = pos
      /\ receive_size # 0 /\ ~etherIrq
      /\ IsPacketForUs(arrived[pos])
      /\ \A i \in 1 .. Len(taken) : taken[i].frame < pos
  BY DEF Recv, KeptFrame
<1>2. /\ taken' = Append(taken, [frame |-> recv_frame_buf, size |-> receive_size])
      /\ failed' \in {"none", "memory"}
      /\ has_frame' = FALSE /\ receive_size' = 0 /\ told' = FALSE
      /\ UNCHANGED <<arrived, pos, recv_frame_buf, wait, etherIrq>>
  BY <1>1 DEF Recv
<1>3. /\ taken' \in Seq([frame : Nat, size : Nat])
      /\ Len(taken') = Len(taken) + 1
      /\ \A i \in 1 .. Len(taken) : taken'[i] = taken[i]
      /\ taken'[Len(taken) + 1] = [frame |-> pos, size |-> pos]
  BY <1>1, <1>2
<1>4. has_frame' \in BOOLEAN /\ told' \in BOOLEAN
  BY <1>2
<1>5. EtherTypes'
  BY <1>2, <1>3, <1>4
<1>6. KeptFrame'
  BY <1>1, <1>2 DEF KeptFrame
<1>7. TakenFrames'
  <2>1. pos \in Len(taken) + 1 .. pos /\ Len(taken) \in Nat
    <3>1. Len(taken) \in Nat /\ pos \in Nat \ {0}
      BY <1>1
    <3> HIDE DEF EtherTypes
    <3>2. CASE Len(taken) = 0
      BY <3>1, <3>2
    <3>3. CASE Len(taken) # 0
      <4>1. Len(taken) \in 1 .. Len(taken)
        BY <3>1, <3>3
      <4>2. taken[Len(taken)].frame \in Len(taken) .. pos /\ taken[Len(taken)].frame < pos
        BY <1>1, <4>1 DEF TakenFrames
      <4> QED
        BY <3>1, <4>2
    <3> QED
      BY <3>2, <3>3
  <2> HIDE DEF EtherTypes
  <2>2. ASSUME NEW i \in 1 .. Len(taken')
        PROVE  /\ taken'[i].frame \in i .. pos
               /\ IsPacketForUs(arrived[taken'[i].frame])
               /\ taken'[i].size = taken'[i].frame
               /\ i > 1 => taken'[i - 1].frame < taken'[i].frame
    <3>1. CASE i \in 1 .. Len(taken)
      <4>1. i > 1 => i - 1 \in 1 .. Len(taken)
        BY <2>1, <3>1
      <4> QED
        BY <1>3, <3>1, <4>1 DEF TakenFrames
    <3>2. CASE i = Len(taken) + 1
      <4>1. taken'[i] = [frame |-> pos, size |-> pos]
        BY <1>3, <3>2
      <4>2. i > 1 => taken'[i - 1].frame < pos
        BY <1>1, <1>3, <2>1, <3>2
      <4> QED
        BY <1>1, <2>1, <3>2, <4>1, <4>2
    <3> QED
      BY <1>3, <2>1, <3>1, <3>2
  <2>3. ASSUME NEW k \in 1 .. pos, IsPacketForUs(arrived[k])
        PROVE  \E i \in 1 .. Len(taken') : taken'[i].frame = k
    <3>1. CASE k = pos
      <4>1. taken'[Len(taken) + 1].frame = k /\ Len(taken) + 1 \in 1 .. Len(taken')
        BY <1>3, <2>1, <3>1
      <4> QED
        BY <4>1
    <3>2. CASE k # pos
      <4>1. PICK i \in 1 .. Len(taken) : taken[i].frame = k
        BY <2>3, <3>2 DEF TakenFrames
      <4>2. taken'[i].frame = k /\ i \in 1 .. Len(taken')
        BY <1>3, <2>1, <4>1
      <4> QED
        BY <4>2
    <3> QED
      BY <3>1, <3>2
  <2> QED
    BY <1>2, <2>2, <2>3 DEF TakenFrames
<1> QED
  BY <1>5, <1>6, <1>7

LEMMA EtherStepInv ==
  ASSUME EtherInv, [EthernetNext]_etherVars
  PROVE  EtherInv'
<1> USE DEF EtherInv, EtherTypes, KeptFrame, TakenFrames, device
<1>1. CASE ClaimEther
  <2>1. etherIrq' \in BOOLEAN /\ told' \in BOOLEAN
    BY <1>1 DEF ClaimEther
  <2> QED
    BY <1>1, <2>1 DEF ClaimEther
<1>2. CASE Recv
  BY <1>2, RecvInv
<1>3. CASE Send
  BY <1>3 DEF Send
<1>4. CASE UnsupportedOperation
  BY <1>4 DEF UnsupportedOperation
<1>5. CASE Poll
  BY <1>5, PollInv
<1>6. CASE TapFails
  BY <1>6 DEF TapFails
<1>7. ASSUME NEW f \in Frames, Arrive(f)
      PROVE  EtherInv'
  BY <1>7, ArriveInv
<1>8. CASE EthernetTick
  <2>1. wait' \in 0 .. Period
    BY <1>8, EthernetAssumption DEF EthernetTick
  <2> QED
    BY <1>8, <2>1 DEF EthernetTick
<1>9. CASE UNCHANGED etherVars
  BY <1>9 DEF etherVars
<1> QED
  BY <1>1, <1>2, <1>3, <1>4, <1>5, <1>6, <1>7, <1>8, <1>9
  DEF EthernetNext, EthernetProgram, Tap

LEMMA EtherInvariant == EthernetSpec => []EtherInv
BY EtherInitInv, EtherStepInv, PTL DEF EthernetSpec

LEMMA EtherTypesHold == EtherInv => EthernetTypeOK
<1> SUFFICES ASSUME EtherInv PROVE EthernetTypeOK
  OBVIOUS
<1> USE DEF EtherInv, EtherTypes
<1>1. Len(taken) <= MaxFrames
  <2>1. Len(taken) \in Nat /\ pos \in Nat /\ pos <= MaxFrames
    BY EthernetAssumption
  <2>2. CASE Len(taken) = 0
    BY <2>2, EthernetAssumption
  <2>3. CASE Len(taken) # 0
    <3>1. Len(taken) \in 1 .. Len(taken)
      BY <2>1, <2>3
    <3> HIDE DEF EtherTypes
    <3>2. taken[Len(taken)].frame \in Len(taken) .. pos
      BY <3>1 DEF TakenFrames
    <3> QED
      BY <2>1, <3>2, EthernetAssumption
  <2> QED
    BY <2>2, <2>3
<1>2. {has_frame, etherIrq, told} \subseteq BOOLEAN
  OBVIOUS
<1> QED
  BY <1>1, <1>2 DEF EthernetTypeOK

LEMMA FramesOnceHolds == EtherInv => FramesOnce
<1> SUFFICES ASSUME EtherInv PROVE FramesOnce
  OBVIOUS
<1> DEFINE forUs == {k \in 1 .. pos : IsPacketForUs(arrived[k])}
           kept == IF has_frame /\ receive_size # 0 THEN {recv_frame_buf} ELSE {}
           frames == {taken[i].frame : i \in 1 .. Len(taken)}
<1>1. kept = IF receive_size # 0 THEN {pos} ELSE {}
  BY DEF EtherInv, EtherTypes, KeptFrame
<1>2. pos \in Nat /\ (receive_size # 0 => pos \in 1 .. pos)
  BY DEF EtherInv, EtherTypes, KeptFrame
<1>3. receive_size # 0 => pos \in forUs
  BY <1>2 DEF EtherInv, KeptFrame
<1>4. frames \subseteq forUs
  <2>1. \A i \in 1 .. Len(taken) : taken[i].frame \in 1 .. pos
    BY <1>2 DEF EtherInv, TakenFrames
  <2> QED
    BY <2>1 DEF EtherInv, TakenFrames
<1>5. \A k \in forUs : k \in frames \union kept
  BY <1>1 DEF EtherInv, TakenFrames
<1>6. frames \union kept = forUs
  BY <1>1, <1>3, <1>4, <1>5
<1>7. \A i \in 1 .. Len(taken) :
        /\ taken[i].size = taken[i].frame
        /\ i > 1 => taken[i - 1].frame < taken[i].frame
  BY DEF EtherInv, TakenFrames
<1>8. \A i \in 1 .. Len(taken) : taken[i].frame \notin kept
  <2>1. CASE receive_size = 0
    BY <1>1, <2>1
  <2>2. CASE receive_size # 0
    <3>1. \A i \in 1 .. Len(taken) : taken[i].frame \in i .. pos
      BY DEF EtherInv, TakenFrames
    <3>2. \A i \in 1 .. Len(taken) : taken[i].frame < pos
      BY <2>2 DEF EtherInv, KeptFrame
    <3>3. \A i \in 1 .. Len(taken) : taken[i].frame # pos
      BY <1>2, <3>1, <3>2
    <3> QED
      BY <1>1, <3>3
  <2> QED
    BY <2>1, <2>2
<1>9. (kept # {}) <=> (etherIrq \/ told)
  BY <1>1 DEF EtherInv, KeptFrame
<1>10. ~(etherIrq /\ told)
  BY DEF EtherInv, KeptFrame
<1> QED
  BY <1>6, <1>7, <1>8, <1>9, <1>10 DEF FramesOnce

(* The program takes every frame for it once, whole and in the order of    *)
(* arrival; one interrupt stands for the one still kept.  For any number   *)
(* of frames of any kinds and any period, and whenever the tap fails.      *)
THEOREM FramesTakenOnce == EthernetSpec => [](EthernetTypeOK /\ FramesOnce)
BY EtherInvariant, EtherTypesHold, FramesOnceHolds, PTL

-----------------------------------------------------------------------------
(* The platform.  Each of its steps is, for every device, one of its own   *)
(* steps or none.                                                          *)
LEMMA PlatformSteps ==
  ASSUME [Next]_vars
  PROVE  /\ [FlashNext]_flashVars
         /\ [SensorNext]_sensorVars
         /\ [EthernetNext]_etherVars
         /\ UNCHANGED uses
<1>1. CASE UseFlash
  BY <1>1 DEF UseFlash
<1>2. CASE UseNetwork
  BY <1>2 DEF UseNetwork, EthernetNext
<1>3. CASE UseSensor
  BY <1>3 DEF UseSensor, SensorNext
<1>4. CASE RunSensor
  BY <1>4 DEF RunSensor, SensorNext
<1>5. CASE Tick
  BY <1>5 DEF Tick, SensorNext, EthernetNext
<1>6. CASE UNCHANGED vars
  BY <1>6 DEF vars
<1> QED
  BY <1>1, <1>2, <1>3, <1>4, <1>5, <1>6 DEF Next

LEMMA PlatformInit == Init => FlashInit /\ SensorInit /\ EthernetInit
BY DEF Init

(* The platform's devices keep to their specifications: what is proved of  *)
(* one alone holds of it on the platform.                                  *)
THEOREM DevicesKeepTheirSpecs == Spec => FlashSpec /\ SensorSpec /\ EthernetSpec
BY PlatformInit, PlatformSteps, PTL DEF Spec, FlashSpec, SensorSpec, EthernetSpec

(* The state of every device stays in range, whichever the program uses.   *)
THEOREM PlatformTypeCorrect == Spec => []TypeOK
<1>1. Init => uses \in {"flash", "network", "sensor"}
  BY DEF Init
<1>2. uses \in {"flash", "network", "sensor"} /\ [Next]_vars => (uses \in {"flash", "network", "sensor"})'
  BY PlatformSteps
<1>3. Spec => [](uses \in {"flash", "network", "sensor"})
  BY <1>1, <1>2, PTL DEF Spec
<1>4. FlashInv /\ SensorInv /\ EthernetTypeOK /\ uses \in {"flash", "network", "sensor"} => TypeOK
  BY DEF FlashInv, SensorInv, TypeOK
<1> QED
  BY <1>3, <1>4, DevicesKeepTheirSpecs, FlashInvariant, SensorInvariant, FramesTakenOnce, PTL

(* On the platform too, the flash controller is a block device, the sensor *)
(* is on time and its frames are whole, and every frame of the network is  *)
(* taken once.                                                             *)
THEOREM PlatformDevicesCorrect ==
  Spec => IsBlockDevice /\ [](FramesOnTime /\ FrameWhole /\ FramesOnce)
BY DevicesKeepTheirSpecs, ImplementsBlockDevice, FramesAlwaysOnTime, FrameAlwaysWhole,
   FramesTakenOnce, PTL

-----------------------------------------------------------------------------
(* Every step keeps the engine's variables in their types. *)
LEMMA EngineTypeStep == ASSUME DMATypeOK, [MemoryNext]_memoryVars PROVE DMATypeOK'
<1> USE DMAAssumption, MemoryAssumption DEF DMATypeOK, Ops
<1>1. CASE UNCHANGED memoryVars
  BY <1>1 DEF memoryVars, dmaVars
<1>2. CASE WriteRegister
  BY <1>2 DEF WriteRegister, WriteSrc, WriteDst, WriteLen, WriteOp
<1>3. CASE FireEvent
  BY <1>3 DEF FireEvent, Fire
<1>4. CASE StartTransfer
  BY <1>4 DEF StartTransfer, Dispatch
<1>5. CASE ReadMemory
  BY <1>5 DEF ReadMemory, ReadBlock
<1>6. CASE WriteMemory
  BY <1>6 DEF WriteMemory, WriteBlock
<1>7. CASE EndTransfer
  BY <1>7 DEF EndTransfer, Interrupt
<1> QED
  BY <1>1, <1>2, <1>3, <1>4, <1>5, <1>6, <1>7 DEF MemoryNext, Engine

(* The phase and the locals of the copy loop stay in range. *)
THEOREM EngineTypeCorrect == MemorySpec => []DMATypeOK
<1>1. ASSUME MemoryInit PROVE DMATypeOK
  <2>1. notified \in BOOLEAN
    BY <1>1 DEF MemoryInit, DMAInit
  <2> QED
    BY <1>1, <2>1 DEF MemoryInit, DMAInit, DMATypeOK, Ops
<1> QED
  BY <1>1, EngineTypeStep, PTL DEF MemorySpec
-----------------------------------------------------------------------------
(* The memory is the one the transfer found, with the first k units of the *)
(* source in the first k places of the destination.                        *)
Copied(k) ==
  \A a \in Addr :
    mem[a] = IF In(a, job.dst, k)
               THEN job.mem[job.src + (a - job.dst)] ELSE job.mem[a]

(* The loop invariant of _perform_memcpy, for a transfer whose registers   *)
(* are as it found them: off units are copied, n are left, and between the *)
(* two transactions the buffer holds the next ones.                        *)
InLoop ==
  /\ src = job.src /\ dst = job.dst
  /\ job.len \in Lens \union {0}
  /\ off + n = job.len
  /\ Disjoint(job) => Copied(off)

CopyInv ==
  /\ phase \in {"read", "write"} /\ clean => InLoop
  /\ phase = "write" => buffer = [i \in 0 .. Chunk - 1 |-> buffer[i]]
  /\ phase = "write" /\ clean /\ Disjoint(job) =>
       \A i \in 0 .. Chunk - 1 : buffer[i] = job.mem[job.src + off + i]
  /\ phase = "interrupt" /\ clean /\ Disjoint(job) => Copied(job.len)

(* Every place of the source of a transfer in progress is in the memory. *)
LEMMA SourceInMemory ==
  ASSUME DMATypeOK, InLoop, NEW k \in Nat, k < job.len
  PROVE  src + k \in Addr
<1>1. src \in Srcs \union Dsts \union {0}
  BY DEF DMATypeOK
<1>2. job.len \in Nat /\ job.len # 0
  <2>1. job.len \in Lens \union {0}
    BY DEF InLoop
  <2>2. \A l \in Lens \union {0} : l \in Nat
    BY DMAAssumption
  <2>3. job.len \in Nat
    BY <2>1, <2>2, Zenon
  <2> QED
    BY <2>3
<1>3. job.len \in Lens
  BY <1>2 DEF InLoop
<1>4. k \in 0 .. job.len - 1
  BY <1>2
<1> QED
  BY <1>1, <1>3, <1>4, MemoryAssumption

(* The read transaction fills the buffer with the units the transfer found,*)
(* since none of them is in the part of the destination already written.   *)
LEMMA ReadStep ==
  ASSUME DMATypeOK, CopyInv, ReadMemory PROVE CopyInv'
<1> USE DMAAssumption, MemoryAssumption DEF DMATypeOK, ReadMemory, ReadBlock
<1>1. /\ phase = "read" /\ phase' = "write"
      /\ UNCHANGED <<src, dst, len, n, off, mem, job, clean>>
      /\ buffer' = [i \in 0 .. Chunk - 1 |-> mem[SrcAddr + i]]
  OBVIOUS
<1>2. Chunk' = Chunk /\ Chunk \in 0 .. n
  BY <1>1 DEF Chunk
<1>3. clean => InLoop'
  BY <1>1 DEF CopyInv, InLoop, Copied, Disjoint, In
<1>4. ASSUME clean, Disjoint(job), NEW i \in 0 .. Chunk - 1
      PROVE  buffer'[i] = job.mem[job.src + off + i]
  <2>1. InLoop
    BY <1>1, <1>4 DEF CopyInv
  <2>2. off + i \in Nat /\ off + i < job.len
    BY <1>2, <2>1 DEF InLoop
  <2>3. src + (off + i) \in Addr
    BY <2>1, <2>2, SourceInMemory
  <2>4. src \in Nat /\ dst \in Nat /\ job.len \in Nat
    BY <2>1 DEF InLoop
  <2>5. ~In(src + (off + i), job.dst, off)
    BY <1>4, <2>1, <2>2, <2>4 DEF InLoop, Disjoint, In
  <2>6. mem[src + (off + i)] = job.mem[src + (off + i)]
    BY <1>4, <2>1, <2>3, <2>5 DEF InLoop, Copied
  <2>7. SrcAddr + i = src + (off + i)
    BY <2>4 DEF SrcAddr
  <2> QED
    BY <1>1, <2>1, <2>4, <2>6, <2>7 DEF InLoop
<1>5. buffer' = [i \in 0 .. Chunk' - 1 |-> buffer'[i]]
  BY <1>1, <1>2
<1> QED
  BY <1>1, <1>2, <1>3, <1>4, <1>5 DEF CopyInv, Disjoint

(* The write transaction extends the copied part by what it writes. *)
LEMMA WriteCopies ==
  ASSUME DMATypeOK, CopyInv, WriteMemory, clean, Disjoint(job),
         NEW a \in Addr, NEW k \in Nat, k = off + Chunk
  PROVE  mem'[a] = IF In(a, job.dst, k)
                     THEN job.mem[job.src + (a - job.dst)] ELSE job.mem[a]
<1>1. /\ phase = "write" /\ InLoop
      /\ mem'[a] = IF a - DstAddr \in 0 .. Chunk - 1
                     THEN buffer[a - DstAddr] ELSE mem[a]
  BY DEF WriteMemory, WriteBlock, CopyInv
<1>2. /\ job.src \in Nat /\ job.dst \in Nat /\ off \in Nat
      /\ Chunk \in Nat /\ a \in Nat
      /\ DstAddr = job.dst + off
  BY <1>1, DMAAssumption, MemoryAssumption
     DEF Chunk, DMATypeOK, InLoop, DstAddr
<1>3. CASE a - DstAddr \in 0 .. Chunk - 1
  <2>1. In(a, job.dst, k)
    BY <1>2, <1>3 DEF In
  <2>2. buffer[a - DstAddr] = job.mem[job.src + off + (a - DstAddr)]
    BY <1>1, <1>3 DEF CopyInv
  <2>3. job.src + off + (a - DstAddr) = job.src + (a - job.dst)
    BY <1>2
  <2> QED
    BY <1>1, <1>3, <2>1, <2>2, <2>3
<1>4. CASE a - DstAddr \notin 0 .. Chunk - 1
  <2>1. In(a, job.dst, k) <=> In(a, job.dst, off)
    BY <1>2, <1>4 DEF In
  <2> QED
    BY <1>1, <1>4, <2>1 DEF InLoop, Copied
<1> QED
  BY <1>3, <1>4

(* A write transaction keeps the loop invariant, or ends the loop with the *)
(* whole range copied.                                                     *)
LEMMA WriteStep ==
  ASSUME DMATypeOK, CopyInv, WriteMemory PROVE CopyInv'
<1>1. /\ phase = "write"
      /\ UNCHANGED <<src, dst, len, job, clean>>
      /\ \/ n > Block /\ n' = n - Block /\ off' = off + Block /\ phase' = "read"
         \/ n <= Block /\ phase' = "interrupt"
  BY DEF WriteMemory, WriteBlock
<1>2. n \in Nat /\ off \in Nat /\ Block \in Nat
  BY DMAAssumption DEF DMATypeOK
<1>3. CASE n > Block
  <2>1. off' = off + Chunk /\ off' \in Nat
    BY <1>1, <1>2, <1>3 DEF Chunk
  <2>2. ASSUME clean, Disjoint(job) PROVE Copied(off)'
    BY <1>1, <2>1, <2>2, WriteCopies DEF Copied, In
  <2>3. clean => InLoop'
    BY <1>1, <1>2, <1>3, <2>2 DEF CopyInv, InLoop, Disjoint
  <2> QED
    BY <1>1, <1>2, <1>3, <2>3 DEF CopyInv
<1>4. CASE n <= Block
  <2>1. ASSUME clean, Disjoint(job) PROVE Copied(job.len)'
    <3>1. InLoop
      BY <1>1, <2>1 DEF CopyInv
    <3>2. job.len = off + Chunk /\ job.len \in Nat
      BY <1>2, <1>4, <3>1 DEF InLoop, Chunk
    <3> QED
      BY <1>1, <2>1, <3>2, WriteCopies DEF Copied, In
  <2> QED
    BY <1>1, <1>2, <1>4, <2>1 DEF CopyInv, Disjoint
<1> QED
  BY <1>2, <1>3, <1>4

(* Every step keeps the invariant; a register write only ends what it says *)
(* of the transfer, and the other steps begin or end one.                  *)
LEMMA CopyStep == ASSUME DMATypeOK, CopyInv, [MemoryNext]_memoryVars PROVE CopyInv'
<1>1. CASE UNCHANGED memoryVars
  BY <1>1 DEF memoryVars, dmaVars, CopyInv, InLoop, Copied, Disjoint, In, Chunk
<1>2. CASE WriteRegister
  BY <1>2 DEF WriteRegister, WriteSrc, WriteDst, WriteLen, WriteOp, CopyInv, Chunk
<1>3. CASE FireEvent
  BY <1>3 DEF FireEvent, Fire, CopyInv, InLoop, Copied, Disjoint, In, Chunk
<1>4. CASE StartTransfer
  <2>1. CASE op = "MEMCPY"
    <3>1. /\ phase' = "read" /\ n' = len /\ off' = 0
          /\ UNCHANGED <<src, dst, len, mem>>
          /\ job' = [src |-> src, dst |-> dst, len |-> len, mem |-> mem]
      BY <1>4, <2>1 DEF StartTransfer, Dispatch
    <3>2. len \in Lens \union {0} /\ len \in Nat
      BY DMAAssumption DEF DMATypeOK
    <3>3. dst \in Nat
      BY MemoryAssumption DEF DMATypeOK
    <3>4. Copied(off)'
      BY <3>1, <3>3, MemoryAssumption DEF Copied, In
    <3> QED
      BY <3>1, <3>2, <3>4 DEF CopyInv, InLoop
  <2>2. CASE op # "MEMCPY"
    <3>1. /\ phase' \in {"interrupt", "aborted"} /\ UNCHANGED mem
          /\ job' = [src |-> src, dst |-> dst, len |-> 0, mem |-> mem]
      BY <1>4, <2>2 DEF StartTransfer, Dispatch
    <3>2. dst \in Nat
      BY MemoryAssumption DEF DMATypeOK
    <3>3. Copied(job.len)'
      BY <3>1, <3>2, MemoryAssumption DEF Copied, In
    <3> QED
      BY <3>1, <3>3 DEF CopyInv
  <2> QED
    BY <2>1, <2>2
<1>5. CASE ReadMemory
  BY <1>5, ReadStep
<1>6. CASE WriteMemory
  BY <1>6, WriteStep
<1>7. CASE EndTransfer
  BY <1>7 DEF EndTransfer, Interrupt, CopyInv
<1> QED
  BY <1>1, <1>2, <1>3, <1>4, <1>5, <1>6, <1>7 DEF MemoryNext, Engine

(* A transfer whose registers stay untouched copies its source to its      *)
(* destination and nothing else.                                           *)
THEOREM CopyAlwaysCorrect == MemorySpec => []CopyCorrect
<1>1. MemoryInit => DMATypeOK /\ CopyInv
  <2>1. ASSUME MemoryInit PROVE DMATypeOK
    <3>1. notified \in BOOLEAN
      BY <2>1 DEF MemoryInit, DMAInit
    <3> QED
      BY <2>1, <3>1 DEF MemoryInit, DMAInit, DMATypeOK, Ops
  <2> QED
    BY <2>1 DEF MemoryInit, DMAInit, CopyInv
<1>2. (DMATypeOK /\ CopyInv) /\ [MemoryNext]_memoryVars => (DMATypeOK /\ CopyInv)'
  BY EngineTypeStep, CopyStep
<1>3. CopyInv => CopyCorrect
  BY DEF CopyInv, CopyCorrect, Copied
<1> QED
  BY <1>1, <1>2, <1>3, PTL DEF MemorySpec
-----------------------------------------------------------------------------
Contained == {Contents[a] : a \in Addr}

(* Whatever is written into the registers during a transfer: it stays in a *)
(* range that is as long as the len it was started with, and between the   *)
(* two transactions the buffer holds as many words as will be written.     *)
TransferInv ==
  /\ mem \in [Addr -> Contained]
  /\ requests \in 0 .. MaxRequests
  /\ clean \in BOOLEAN
  /\ phase \in {"read", "write"} => off + n \in Lens \union {0}
  /\ phase = "write" => buffer \in [0 .. Chunk - 1 -> Contained]

LEMMA ReadInMemory ==
  ASSUME DMATypeOK, TransferInv, phase = "read", NEW i \in 0 .. Chunk - 1
  PROVE  SrcAddr + i \in Addr
<1>1. src \in Srcs \union Dsts \union {0} /\ src \in Nat
  BY MemoryAssumption DEF DMATypeOK
<1>2. n \in Nat /\ off \in Nat /\ Block \in Nat \ {0} /\ Chunk \in 1 .. n
  BY DMAAssumption DEF DMATypeOK, Chunk
<1>3. off + n \in Lens
  BY <1>2 DEF TransferInv
<1>4. off + i \in 0 .. (off + n) - 1
  BY <1>2
<1>5. src + (off + i) \in Addr
  BY <1>1, <1>3, <1>4, MemoryAssumption
<1> QED
  BY <1>1, <1>2, <1>5 DEF SrcAddr

LEMMA TransferStep == ASSUME DMATypeOK, TransferInv, [MemoryNext]_memoryVars PROVE TransferInv'
<1> USE DMAAssumption, MemoryAssumption
<1>1. CASE UNCHANGED memoryVars
  BY <1>1 DEF memoryVars, dmaVars, TransferInv, Chunk
<1>2. CASE WriteRegister
  <2>1. UNCHANGED <<phase, n, off, buffer, mem>>
    BY <1>2 DEF WriteRegister, WriteSrc, WriteDst, WriteLen, WriteOp
  <2>2. requests' \in 0 .. MaxRequests
    BY <1>2 DEF WriteRegister, TransferInv
  <2>3. clean' \in BOOLEAN
    <3>1. clean' = FALSE
      BY <1>2 DEF WriteRegister
    <3> QED
      BY <3>1
  <2> QED
    BY <2>1, <2>2, <2>3 DEF TransferInv, Chunk
<1>3. CASE FireEvent
  BY <1>3 DEF FireEvent, Fire, TransferInv, Chunk
<1>4. CASE StartTransfer
  BY <1>4 DEF StartTransfer, Dispatch, TransferInv, DMATypeOK
<1>5. CASE ReadMemory
  <2>1. /\ phase = "read" /\ UNCHANGED <<n, off, mem, requests, clean>>
        /\ buffer' = [i \in 0 .. Chunk - 1 |-> mem[SrcAddr + i]]
    BY <1>5 DEF ReadMemory, ReadBlock
  <2>2. \A i \in 0 .. Chunk - 1 : mem[SrcAddr + i] \in Contained
    BY <2>1, ReadInMemory DEF TransferInv
  <2>3. buffer' \in [0 .. Chunk - 1 -> Contained] /\ Chunk' = Chunk
    BY <2>1, <2>2 DEF Chunk
  <2> QED
    BY <2>1, <2>3 DEF TransferInv
<1>6. CASE WriteMemory
  <2>1. /\ phase = "write" /\ UNCHANGED <<requests, clean>>
        /\ mem' = [a \in Addr |-> IF a - DstAddr \in 0 .. Chunk - 1
                                    THEN buffer[a - DstAddr] ELSE mem[a]]
        /\ \/ n > Block /\ n' = n - Block /\ off' = off + Block /\ phase' = "read"
           \/ phase' = "interrupt"
    BY <1>6 DEF WriteMemory, WriteBlock
  <2>2. mem' \in [Addr -> Contained]
    BY <2>1 DEF TransferInv
  <2>3. phase' = "read" => off' + n' = off + n
    BY <2>1 DEF DMATypeOK
  <2> QED
    BY <2>1, <2>2, <2>3 DEF TransferInv
<1>7. CASE EndTransfer
  BY <1>7 DEF EndTransfer, Interrupt, TransferInv
<1> QED
  BY <1>1, <1>2, <1>3, <1>4, <1>5, <1>6, <1>7 DEF MemoryNext, Engine

LEMMA TransferAlways == MemorySpec => [](DMATypeOK /\ TransferInv)
<1>1. ASSUME MemoryInit PROVE DMATypeOK /\ TransferInv
  <2>1. notified \in BOOLEAN /\ clean \in BOOLEAN
    BY <1>1 DEF MemoryInit, DMAInit
  <2>2. DMATypeOK
    BY <1>1, <2>1 DEF MemoryInit, DMAInit, DMATypeOK, Ops
  <2>3. mem \in [Addr -> Contained]
    BY <1>1 DEF MemoryInit, Contained
  <2> QED
    BY <1>1, <2>1, <2>2, <2>3, MemoryAssumption DEF MemoryInit, DMAInit, TransferInv
<1>2. (DMATypeOK /\ TransferInv) /\ [MemoryNext]_memoryVars => (DMATypeOK /\ TransferInv)'
  BY EngineTypeStep, TransferStep
<1> QED
  BY <1>1, <1>2, PTL DEF MemorySpec

(* Engine and memory stay in their types; no word comes from outside the   *)
(* memory, even when src is overwritten in the middle of a transfer.       *)
THEOREM MemoryTypeCorrect == MemorySpec => []MemoryTypeOK
<1>1. DMATypeOK /\ TransferInv => MemoryTypeOK
  BY DEF TransferInv, MemoryTypeOK, Contained
<1> QED
  BY <1>1, TransferAlways, PTL

(* The buffer is never overrun, and holds what is about to be written.     *)
THEOREM BufferAlwaysFits == MemorySpec => []BufferFits
<1>1. ASSUME DMATypeOK, TransferInv PROVE BufferFits
  BY <1>1, DMAAssumption DEF DMATypeOK, TransferInv, BufferFits, Chunk
<1> QED
  BY <1>1, TransferAlways, PTL
=============================================================================
