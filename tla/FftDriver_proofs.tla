-------------------------- MODULE FftDriver_proofs --------------------------
(***************************************************************************)
(* The FFT program, for every number of harts, samples and results: it is  *)
(* an implementation of the dual-core skeleton, so what is proved of that  *)
(* holds of it, and its lock keeps the stores of a request together, which *)
(* the skeleton knows nothing of.  Without the engine its results are      *)
(* right; with it they are not.                                            *)
(***************************************************************************)
EXTENDS FftDriver, FiniteSetTheorems, TLAPS

(* The skeleton with the theorems about it. *)
Skeleton == INSTANCE DualCore_proofs WITH Sections <- N + Fetches

Places == {"enter", "src", "dst", "len", "op", "copy", "load", "print", "leave"}

(* A hart is at a place inside a section when the skeleton has it there. *)
PlacesInv ==
  /\ at \in [Harts -> Places \union {"outside"}]
  /\ part \in [Harts -> Acc!Parts]
  /\ \A h \in Harts : at[h] # "outside" => pc[h] = "section"

(* What h is to store, from its section and its part. *)
OwnSrc(h) == IF Sending(h) THEN BuffAddr(h) ELSE ResultAddr(h, part[h])
OwnDst(h) == IF Sending(h) THEN SampleAddr(h, part[h]) ELSE BuffAddr(h)

(* The registers a hart has already stored are still its own. *)
RegistersInv ==
  \A h \in Harts :
    /\ at[h] \in {"dst", "len", "op"} => src = OwnSrc(h)
    /\ at[h] \in {"len", "op"} => dst = OwnDst(h)
    /\ at[h] = "op" => len = 1
-----------------------------------------------------------------------------
LEMMA SkeletonAssumption == Skeleton!DualCoreAssumption
<1>1. 0 \in Int /\ 28 \in Int
  OBVIOUS
<1>2. IsFiniteSet(0 .. 28)
  BY <1>1, FS_Interval
<1>3. IsFiniteSet(Harts)
  BY <1>2, FS_Subset, DriverAssumption
<1> QED
  BY <1>3, DriverAssumption
     DEF Skeleton!DualCoreAssumption, Skeleton!IsFiniteSet, IsFiniteSet

LEMMA SameProcessors == Core!Processors = Skeleton!Processors
BY DEF Core!Processors, Skeleton!Processors, Core!Cardinality, Skeleton!Cardinality

LEMMA SkeletonInit == Init => Skeleton!Init
BY DEF Init, Core!Init, Skeleton!Init, Core!Semaphores, Skeleton!Semaphores

LEMMA SkeletonOutside ==
  ASSUME NEW h \in Harts, OutsideSections(h) PROVE Skeleton!Step(h)
<1> USE SameProcessors DEF Core!Goto, Skeleton!Goto, Core!Wait, Skeleton!Wait, Core!Post,
            Skeleton!Post, Core!SemInit, Skeleton!SemInit
<1>1. CASE h = Boot /\ (Core!InitBarrierLock \/ Core!InitBarrierSem \/ Core!InitLock)
  BY <1>1 DEF Core!InitBarrierLock, Core!InitBarrierSem, Core!InitLock,
              Skeleton!InitBarrierLock, Skeleton!InitBarrierSem,
              Skeleton!InitLock, Skeleton!Step
<1>2. CASE Core!Barrier(h)
  <2>1. Skeleton!Barrier(h)
    BY <1>2 DEF Core!Barrier, Skeleton!Barrier,
         Core!BarrierEnter, Core!BarrierTest, Core!BarrierReset,
         Core!BarrierUnlockLast, Core!BarrierRelease, Core!BarrierReleased,
         Core!BarrierCount, Core!BarrierUnlock, Core!BarrierGate,
         Skeleton!BarrierEnter, Skeleton!BarrierTest, Skeleton!BarrierReset,
         Skeleton!BarrierUnlockLast, Skeleton!BarrierRelease,
         Skeleton!BarrierReleased, Skeleton!BarrierCount,
         Skeleton!BarrierUnlock, Skeleton!BarrierGate
  <2> QED
    BY <2>1 DEF Skeleton!Step
<1>3. CASE Core!EnterPrint(h) \/ Core!LeavePrint(h)
  BY <1>3 DEF Core!EnterPrint, Core!LeavePrint, Skeleton!EnterPrint,
              Skeleton!LeavePrint, Skeleton!Step
<1>4. CASE Core!CountExit(h) \/ Core!SysExit(h)
  BY <1>4 DEF Core!CountExit, Core!SysExit, Skeleton!CountExit,
              Skeleton!SysExit, Skeleton!Step
<1> QED
  BY <1>1, <1>2, <1>3, <1>4 DEF OutsideSections

LEMMA SkeletonSection ==
  ASSUME NEW h \in Harts, EnterSection(h) \/ LeaveSection(h)
  PROVE  Skeleton!Step(h)
BY DEF EnterSection, LeaveSection, Core!EnterSection, Core!LeaveSection,
       Skeleton!EnterSection, Skeleton!LeaveSection, Core!Goto, Skeleton!Goto,
       Core!Wait, Skeleton!Wait, Core!Post, Skeleton!Post, Skeleton!Step

(* Whatever else moves leaves the variables of the skeleton alone. *)
InSectionStep(h) ==
  \/ FillBuff(h)
  \/ StoreSrc(h) \/ StoreDst(h) \/ StoreLen(h) \/ StoreOp(h)
  \/ CopyOut(h) \/ CopyIn(h)
  \/ Load(h)
  \/ PrintSample(h)

LEMMA InSectionFrame ==
  ASSUME NEW h \in Harts, InSectionStep(h) PROVE UNCHANGED coreVars
BY DEF InSectionStep, Inside, FillBuff, StoreSrc, StoreDst, StoreLen, StoreOp,
       CopyOut, CopyIn, Load, PrintSample

LEMMA SkeletonStep == [Next]_vars => [Skeleton!Next]_(Skeleton!vars)
<1> SUFFICES ASSUME [Next]_vars PROVE Skeleton!Next \/ UNCHANGED coreVars
  BY DEF Skeleton!vars, coreVars
<1>1. CASE UNCHANGED vars
  BY <1>1 DEF vars
<1>2. CASE EngineStep
  BY <1>2 DEF EngineStep
<1>3. ASSUME NEW h \in Harts, Step(h) PROVE Skeleton!Next \/ UNCHANGED coreVars
  <2>1. CASE OutsideSections(h)
    BY <2>1, SkeletonOutside DEF Skeleton!Next
  <2>2. CASE EnterSection(h) \/ LeaveSection(h)
    BY <2>2, SkeletonSection DEF Skeleton!Next
  <2>3. CASE InSectionStep(h)
    BY <2>3, InSectionFrame
  <2> QED
    BY <1>3, <2>1, <2>2, <2>3 DEF Step, InSectionStep
<1>4. ASSUME NEW h \in Harts, AccelStep(h) \/ Clobber(h)
      PROVE  UNCHANGED coreVars
  BY <1>4 DEF AccelStep, Clobber
<1> QED
  BY <1>1, <1>2, <1>3, <1>4 DEF Next

(* The FFT program, its engine and its accelerators do, seen from the      *)
(* semaphores, the barrier and the bootstrap, what the skeleton does.      *)
THEOREM ImplementsDualCore == Spec => Skeleton!Spec
BY SkeletonInit, SkeletonStep, PTL DEF Spec, Skeleton!Spec

(* So no two harts are in their sections together, *)
THEOREM SkeletonExcludes == Spec => []Skeleton!SectionsExclude
BY ImplementsDualCore, SkeletonAssumption, Skeleton!SectionsExcludeAlways, PTL

(* and nobody prints results while another still has transfers to ask for. *)
THEOREM BarrierOfTransfers == Spec => []Skeleton!BarrierHolds
BY ImplementsDualCore, SkeletonAssumption, Skeleton!BarrierHoldsAlways, PTL
-----------------------------------------------------------------------------
LEMMA PlacesInit == Init => PlacesInv /\ RegistersInv
BY DEF Init, PlacesInv, RegistersInv, Places, Acc!Parts

(* Outside sections a hart moves without touching places or registers. *)
LEMMA OutsidePlaces ==
  ASSUME PlacesInv, RegistersInv, Skeleton!TypeOK,
         NEW h \in Harts, OutsideSections(h)
  PROVE  PlacesInv' /\ RegistersInv'
<1>1. /\ UNCHANGED <<at, part, src, dst, len>>
      /\ todo' = todo
      /\ \A g \in Harts : pc[g] = "section" => pc'[g] = "section"
  <2> USE DEF Core!Goto, engineVars, driverVars, Skeleton!TypeOK
  <2>1. UNCHANGED <<at, part, src, dst, len>>
    BY DEF OutsideSections
  <2>2. CASE h = Boot /\ (Core!InitBarrierLock \/ Core!InitBarrierSem \/ Core!InitLock)
    BY <2>1, <2>2 DEF Core!InitBarrierLock, Core!InitBarrierSem, Core!InitLock
  <2>3. CASE Core!Barrier(h)
    BY <2>1, <2>3 DEF Core!Barrier, Core!BarrierEnter, Core!BarrierTest,
         Core!BarrierReset, Core!BarrierUnlockLast, Core!BarrierRelease,
         Core!BarrierReleased, Core!BarrierCount, Core!BarrierUnlock,
         Core!BarrierGate
  <2>4. CASE \/ Core!EnterPrint(h) \/ Core!LeavePrint(h)
             \/ Core!CountExit(h) \/ Core!SysExit(h)
    BY <2>1, <2>4 DEF Core!EnterPrint, Core!LeavePrint, Core!CountExit, Core!SysExit
  <2> QED
    BY <2>2, <2>3, <2>4 DEF OutsideSections
<1>2. PlacesInv'
  BY <1>1 DEF PlacesInv
<1>3. RegistersInv'
  BY <1>1 DEF RegistersInv, OwnSrc, OwnDst, Sending
<1> QED
  BY <1>2, <1>3

(* Entering and leaving: the hart has not stored anything yet, or no more. *)
LEMMA SectionPlaces ==
  ASSUME PlacesInv, RegistersInv, Skeleton!TypeOK,
         NEW h \in Harts, EnterSection(h) \/ LeaveSection(h)
  PROVE  PlacesInv' /\ RegistersInv'
<1> USE DEF PlacesInv, Places, Skeleton!TypeOK
<1>1. /\ UNCHANGED <<part, src, dst, len>>
      /\ at' = [at EXCEPT ![h] = "enter"] \/ at' = [at EXCEPT ![h] = "outside"]
      /\ \A g \in Harts \ {h} : todo'[g] = todo[g]
  BY DEF EnterSection, LeaveSection, Core!EnterSection, Core!LeaveSection, engineVars
<1>2. PlacesInv'
  BY <1>1 DEF EnterSection, LeaveSection, Core!EnterSection, Core!LeaveSection, Core!Goto
<1>3. RegistersInv'
  BY <1>1 DEF RegistersInv, OwnSrc, OwnDst, Sending
<1> QED
  BY <1>2, <1>3

(* Inside: only the hart that has the lock stores to the registers. *)
LEMMA StorePlaces ==
  ASSUME PlacesInv, RegistersInv, Skeleton!SectionsExclude,
         NEW h \in Harts, StoreSrc(h) \/ StoreDst(h) \/ StoreLen(h) \/ StoreOp(h)
  PROVE  PlacesInv' /\ RegistersInv'
<1> USE DEF PlacesInv, Places, Inside, GoOn, Return, coreVars
<1>1. \A g \in Harts \ {h} : at[g] = "outside" /\ at'[g] = "outside"
  BY DEF Skeleton!SectionsExclude, Skeleton!InSection, StoreSrc, StoreDst,
         StoreLen, StoreOp
<1>2. PlacesInv'
  BY DEF StoreSrc, StoreDst, StoreLen, StoreOp, Acc!Parts
<1>3. CASE StoreSrc(h)
  BY <1>1, <1>2, <1>3 DEF StoreSrc, DMA!WriteSrc, RegistersInv, OwnSrc, OwnDst, Sending
<1>4. CASE StoreDst(h)
  BY <1>1, <1>2, <1>4 DEF StoreDst, DMA!WriteDst, RegistersInv, OwnSrc, OwnDst, Sending
<1>5. CASE StoreLen(h)
  BY <1>1, <1>2, <1>5 DEF StoreLen, DMA!WriteLen, RegistersInv, OwnSrc, OwnDst, Sending
<1>6. CASE StoreOp(h)
  BY <1>1, <1>2, <1>6 DEF StoreOp, RegistersInv
<1> QED
  BY <1>2, <1>3, <1>4, <1>5, <1>6

(* The other steps of a section: no store to a register follows or precedes. *)
LEMMA OtherPlaces ==
  ASSUME PlacesInv, RegistersInv, NEW h \in Harts,
         \/ FillBuff(h) \/ CopyOut(h) \/ CopyIn(h) \/ Load(h) \/ PrintSample(h)
  PROVE  PlacesInv' /\ RegistersInv'
<1> USE DEF PlacesInv, Places, Inside, GoOn, Return, coreVars, engineVars
<1>1. /\ UNCHANGED <<src, dst, len, todo>>
      /\ \A g \in Harts \ {h} : at'[g] = at[g] /\ part'[g] = part[g]
      /\ at'[h] \notin {"dst", "len", "op"}
  BY DEF FillBuff, CopyOut, CopyIn, Load, PrintSample
<1>2. PlacesInv'
  BY DEF FillBuff, CopyOut, CopyIn, Load, PrintSample, Acc!Parts
<1>3. RegistersInv'
  BY <1>1 DEF RegistersInv, OwnSrc, OwnDst, Sending
<1> QED
  BY <1>2, <1>3

(* The engine reads its registers and never writes them. *)
LEMMA EngineFrame ==
  ASSUME EngineStep
  PROVE  UNCHANGED <<src, dst, len, at, part, pc, todo>>
<1>1. CASE DMA!Fire \/ DMA!Dispatch \/ DMA!Interrupt
  BY <1>1 DEF EngineStep, coreVars, DMA!Fire, DMA!Dispatch, DMA!Interrupt
<1>2. CASE BusWait
  BY <1>2 DEF EngineStep, coreVars, BusWait
<1>3. CASE BusRead
  BY <1>3 DEF EngineStep, coreVars, BusRead, DMA!ReadBlock
<1>4. CASE BusWrite
  BY <1>4 DEF EngineStep, coreVars, BusWrite, DMA!WriteBlock
<1> QED
  BY <1>1, <1>2, <1>3, <1>4 DEF EngineStep

LEMMA PlacesStep ==
  ASSUME PlacesInv, RegistersInv, Skeleton!TypeOK, Skeleton!SectionsExclude,
         [Next]_vars
  PROVE  PlacesInv' /\ RegistersInv'
<1>1. ASSUME UNCHANGED <<src, dst, len, at, part, pc, todo>>
      PROVE  PlacesInv' /\ RegistersInv'
  BY <1>1 DEF PlacesInv, RegistersInv, OwnSrc, OwnDst, Sending
<1>2. CASE UNCHANGED vars
  BY <1>1, <1>2 DEF vars, coreVars, engineVars, driverVars
<1>3. CASE EngineStep
  BY <1>1, <1>3, EngineFrame
<1>4. ASSUME NEW h \in Harts, Step(h) PROVE PlacesInv' /\ RegistersInv'
  BY <1>4, OutsidePlaces, SectionPlaces, StorePlaces, OtherPlaces DEF Step
<1>5. ASSUME NEW h \in Harts, AccelStep(h) \/ Clobber(h)
      PROVE  PlacesInv' /\ RegistersInv'
  BY <1>1, <1>5 DEF AccelStep, Clobber, coreVars, engineVars, driverVars
<1> QED
  BY <1>2, <1>3, <1>4, <1>5 DEF Next

(* A hart starts the engine on its own request only: nothing another hart  *)
(* stored gets between its four stores, however late transfers are.        *)
THEOREM RequestCoherentAlways == Spec => []RequestCoherent
<1>1. PlacesInv /\ RegistersInv => RequestCoherent
  BY DEF RegistersInv, RequestCoherent, OwnSrc, OwnDst
<1>2. Spec => []Skeleton!TypeOK
  BY ImplementsDualCore, SkeletonAssumption, Skeleton!TypeCorrect, PTL
<1> QED
  BY <1>1, <1>2, SkeletonExcludes, PlacesInit, PlacesStep, PTL DEF Spec
-----------------------------------------------------------------------------
(* The words in a FIFO are of no one set (a result holds the samples it is *)
(* computed from), so all that is said of a FIFO is that it is a sequence. *)
IsSequence(s) == \E S : s \in Seq(S)

LEMMA EmptySequence == IsSequence(<<>>) /\ Len(<<>>) = 0
<1>1. <<>> \in Seq({})
  OBVIOUS
<1> QED
  BY <1>1 DEF IsSequence

LEMMA SequenceLength ==
  ASSUME NEW s, IsSequence(s)
  PROVE  /\ Len(s) \in Nat
         /\ s = [i \in 1 .. Len(s) |-> s[i]]
         /\ s # <<>> <=> Len(s) > 0
<1>1. PICK S : s \in Seq(S)
  BY DEF IsSequence
<1> QED
  BY <1>1

LEMMA SequenceAppend ==
  ASSUME NEW s, IsSequence(s), NEW e
  PROVE  /\ IsSequence(Append(s, e))
         /\ Len(Append(s, e)) = Len(s) + 1
         /\ \A i \in 1 .. Len(s) : Append(s, e)[i] = s[i]
         /\ Append(s, e)[Len(s) + 1] = e
<1>1. PICK S : s \in Seq(S)
  BY DEF IsSequence
<1> DEFINE U == S \union {e}
<1>2. s \in Seq(U) /\ e \in U
  BY <1>1
<1>3. Append(s, e) \in Seq(U)
  BY <1>2
<1>4. IsSequence(Append(s, e))
  BY <1>3 DEF IsSequence
<1> QED
  BY <1>2, <1>4

LEMMA SequenceTail ==
  ASSUME NEW s, IsSequence(s), s # <<>>
  PROVE  /\ IsSequence(Tail(s))
         /\ Len(Tail(s)) = Len(s) - 1
         /\ \A i \in 1 .. Len(s) - 1 : Tail(s)[i] = s[i + 1]
         /\ Head(s) = s[1]
<1>1. PICK S : s \in Seq(S)
  BY DEF IsSequence
<1>2. Tail(s) \in Seq(S)
  BY <1>1
<1>3. IsSequence(Tail(s))
  BY <1>2 DEF IsSequence
<1> QED
  BY <1>1, <1>3

(* The four FIFOs of the accelerators, and their local arrays. *)
OnHarts(f) == f = [a \in Harts |-> f[a]]
OnParts(f) == f = [p \in Acc!Parts |-> f[p]]

AreFifos(f) ==
  /\ OnHarts(f)
  /\ \A a \in Harts : OnParts(f[a])
  /\ \A a \in Harts, p \in Acc!Parts : IsSequence(f[a][p])

-----------------------------------------------------------------------------
(* What the thread of an accelerator keeps, with the FIFOs at its ends. *)
Accelerators ==
  /\ AreFifos(inFifo) /\ AreFifos(outFifo) /\ AreFifos(taken)
  /\ written \in [Harts -> [Acc!Parts -> Nat]]
  /\ stage \in [Harts -> {"reading", "writing"}]

(* An accelerator is left alone. *)
AccelSame(a) ==
  /\ \A p \in Acc!Parts :
       /\ inFifo'[a][p] = inFifo[a][p] /\ outFifo'[a][p] = outFifo[a][p]
       /\ taken'[a][p] = taken[a][p] /\ written'[a][p] = written[a][p]
  /\ stage'[a] = stage[a]

LEMMA DotPart == \A r : r.real = r["real"] /\ r.imag = r["imag"]
OBVIOUS

LEMMA ReadEffect ==
  ASSUME Accelerators, NEW a \in Harts, NEW p \in Acc!Parts, Acc!ReadSample(a, p)
  PROVE  /\ Accelerators'
         /\ \A b \in Harts \ {a} : AccelSame(b)
         /\ inFifo[a][p] # <<>>
         /\ inFifo'[a][p] = Tail(inFifo[a][p])
         /\ taken'[a][p] = Append(taken[a][p], inFifo[a][p][1])
         /\ \A q \in Acc!Parts \ {p} : /\ inFifo'[a][q] = inFifo[a][q]
                                       /\ taken'[a][q] = taken[a][q]
         /\ UNCHANGED <<outFifo, written, stage>>
<1> DEFINE s == inFifo[a][p]
           t == Append(taken[a][p], Head(s))
<1>1. /\ s # <<>>
      /\ taken' = [taken EXCEPT ![a][p] = t]
      /\ inFifo' = [inFifo EXCEPT ![a][p] = Tail(s)]
      /\ UNCHANGED <<outFifo, written, stage>>
  BY DEF Acc!ReadSample, Accelerators, AreFifos
<1>2. IsSequence(s) /\ IsSequence(taken[a][p])
  BY DEF Accelerators, AreFifos
<1>3. IsSequence(Tail(s)) /\ Head(s) = s[1]
  BY <1>1, <1>2, SequenceTail
<1>4. IsSequence(t)
  BY <1>2, SequenceAppend
<1>5. /\ AreFifos(inFifo')
      /\ inFifo'[a][p] = Tail(s)
      /\ \A q \in Acc!Parts \ {p} : inFifo'[a][q] = inFifo[a][q]
      /\ \A b \in Harts \ {a} : inFifo'[b] = inFifo[b]
  <2> HIDE DEF s
  <2>1. /\ inFifo'[a][p] = Tail(s)
        /\ \A q \in Acc!Parts \ {p} : inFifo'[a][q] = inFifo[a][q]
        /\ \A b \in Harts \ {a} : inFifo'[b] = inFifo[b]
    BY <1>1, <1>2 DEF Accelerators, AreFifos, OnHarts, OnParts
  <2>2. OnHarts(inFifo') /\ OnParts(inFifo'[a])
    BY <1>1, <1>2 DEF Accelerators, AreFifos, OnHarts, OnParts
  <2> QED
    BY <2>1, <2>2, <1>1, <1>3 DEF Accelerators, AreFifos
<1>6. /\ AreFifos(taken')
      /\ taken'[a][p] = t
      /\ \A q \in Acc!Parts \ {p} : taken'[a][q] = taken[a][q]
      /\ \A b \in Harts \ {a} : taken'[b] = taken[b]
  <2> HIDE DEF t
  <2>1. /\ taken'[a][p] = t
        /\ \A q \in Acc!Parts \ {p} : taken'[a][q] = taken[a][q]
        /\ \A b \in Harts \ {a} : taken'[b] = taken[b]
    BY <1>1, <1>2 DEF Accelerators, AreFifos, OnHarts, OnParts
  <2>2. OnHarts(taken') /\ OnParts(taken'[a])
    BY <1>1, <1>2 DEF Accelerators, AreFifos, OnHarts, OnParts
  <2> QED
    BY <2>1, <2>2, <1>1, <1>4 DEF Accelerators, AreFifos
<1>7. Accelerators'
  BY <1>1, <1>5, <1>6 DEF Accelerators
<1>8. \A b \in Harts \ {a} : AccelSame(b)
  BY <1>1, <1>5, <1>6 DEF AccelSame
<1> QED
  BY <1>1, <1>3, <1>5, <1>6, <1>7, <1>8

LEMMA WriteEffect ==
  ASSUME Accelerators, NEW a \in Harts, NEW p \in Acc!Parts, Acc!WriteResult(a, p)
  PROVE  /\ Accelerators'
         /\ \A b \in Harts \ {a} : AccelSame(b)
         /\ Len(outFifo[a][p]) < Depth
         /\ outFifo'[a][p] = Append(outFifo[a][p],
                                    Acc!Result(taken[a], p, written[a][p] + 1))
         /\ \A q \in Acc!Parts \ {p} : outFifo'[a][q] = outFifo[a][q]
         /\ inFifo' = inFifo
         /\ IF p = "imag" /\ written[a]["imag"] = N - 1
              THEN /\ stage'[a] = "reading"
                   /\ \A q \in Acc!Parts : taken'[a][q] = <<>> /\ written'[a][q] = 0
              ELSE /\ taken' = taken /\ stage' = stage
                   /\ written'[a][p] = written[a][p] + 1
                   /\ \A q \in Acc!Parts \ {p} : written'[a][q] = written[a][q]
<1> DEFINE s == Append(outFifo[a][p], Acc!Result(taken[a], p, written[a][p] + 1))
<1>1. IsSequence(s)
  BY SequenceAppend DEF Accelerators, AreFifos
<1>2. outFifo' = [outFifo EXCEPT ![a][p] = s] /\ inFifo' = inFifo
  BY DEF Acc!WriteResult, Accelerators, AreFifos
<1>3. /\ AreFifos(outFifo')
      /\ outFifo'[a][p] = s
      /\ \A q \in Acc!Parts \ {p} : outFifo'[a][q] = outFifo[a][q]
      /\ \A b \in Harts \ {a} : outFifo'[b] = outFifo[b]
  <2> HIDE DEF s
  <2>1. /\ outFifo'[a][p] = s
        /\ \A q \in Acc!Parts \ {p} : outFifo'[a][q] = outFifo[a][q]
        /\ \A b \in Harts \ {a} : outFifo'[b] = outFifo[b]
    BY <1>1, <1>2 DEF Accelerators, AreFifos, OnHarts, OnParts
  <2>2. OnHarts(outFifo') /\ OnParts(outFifo'[a])
    BY <1>1, <1>2 DEF Accelerators, AreFifos, OnHarts, OnParts
  <2> QED
    BY <2>1, <2>2, <1>1, <1>2 DEF Accelerators, AreFifos
<1>4. CASE p = "imag" /\ written[a]["imag"] = N - 1
  <2>1. /\ written' = [written EXCEPT ![a] = [q \in Acc!Parts |-> 0]]
        /\ taken' = [taken EXCEPT ![a] = Acc!Empty]
        /\ stage' = [stage EXCEPT ![a] = "reading"]
    BY <1>4, DotPart DEF Acc!WriteResult
  <2>2. /\ AreFifos(taken')
        /\ \A q \in Acc!Parts : taken'[a][q] = <<>>
        /\ \A b \in Harts \ {a} : taken'[b] = taken[b]
    <3>1. /\ taken'[a] = Acc!Empty
          /\ \A b \in Harts \ {a} : taken'[b] = taken[b]
      BY <2>1 DEF Accelerators, AreFifos, OnHarts
    <3>2. OnHarts(taken') /\ OnParts(taken'[a])
      BY <2>1 DEF Accelerators, AreFifos, OnHarts, OnParts, Acc!Empty
    <3>3. \A q \in Acc!Parts : taken'[a][q] = <<>>
      BY <3>1 DEF Acc!Empty
    <3> QED
      BY <3>1, <3>2, <3>3, EmptySequence DEF Accelerators, AreFifos
  <2>3. /\ written' \in [Harts -> [Acc!Parts -> Nat]]
        /\ stage' \in [Harts -> {"reading", "writing"}]
        /\ stage'[a] = "reading"
        /\ \A q \in Acc!Parts : written'[a][q] = 0
        /\ \A b \in Harts \ {a} : written'[b] = written[b] /\ stage'[b] = stage[b]
    BY <2>1 DEF Accelerators
  <2> QED
    BY <1>2, <1>3, <1>4, <2>2, <2>3 DEF Accelerators, AccelSame, Acc!WriteResult
<1>5. CASE ~(p = "imag" /\ written[a]["imag"] = N - 1)
  <2>1. /\ written' = [written EXCEPT ![a][p] = written[a][p] + 1]
        /\ UNCHANGED <<taken, stage>>
    BY <1>5, DotPart DEF Acc!WriteResult, Accelerators
  <2>2. /\ written' \in [Harts -> [Acc!Parts -> Nat]]
        /\ written'[a][p] = written[a][p] + 1
        /\ \A q \in Acc!Parts \ {p} : written'[a][q] = written[a][q]
        /\ \A b \in Harts \ {a} : written'[b] = written[b]
    BY <2>1 DEF Accelerators
  <2> QED
    BY <1>2, <1>3, <1>5, <2>1, <2>2 DEF Accelerators, AccelSame, Acc!WriteResult
<1> QED
  BY <1>4, <1>5

(* The thread of one accelerator does not touch another's. *)
LEMMA DoFftFrame ==
  ASSUME Accelerators, NEW h \in Harts, Acc!DoFft(h)
  PROVE  \A g \in Harts \ {h} : AccelSame(g)
<1>1. ASSUME NEW p \in Acc!Parts, Acc!ReadSample(h, p)
      PROVE  \A g \in Harts \ {h} : AccelSame(g)
  BY <1>1, ReadEffect
<1>2. ASSUME NEW p \in Acc!Parts, Acc!WriteResult(h, p)
      PROVE  \A g \in Harts \ {h} : AccelSame(g)
  BY <1>2, WriteEffect
<1>3. CASE Acc!Transform(h)
  BY <1>3 DEF Acc!Transform, AccelSame, Accelerators
<1> QED
  BY <1>1, <1>2, <1>3 DEF Acc!DoFft

LEMMA PutEffect ==
  ASSUME Accelerators, NEW a \in Harts, NEW p \in Acc!Parts, NEW v,
         Acc!PutSample(a, p, v)
  PROVE  /\ Accelerators'
         /\ \A b \in Harts \ {a} : AccelSame(b)
         /\ Len(inFifo[a][p]) < Depth
         /\ inFifo'[a][p] = Append(inFifo[a][p], v)
         /\ \A q \in Acc!Parts \ {p} : inFifo'[a][q] = inFifo[a][q]
         /\ UNCHANGED <<outFifo, taken, written, stage>>
<1> DEFINE s == Append(inFifo[a][p], v)
<1>1. IsSequence(s)
  BY SequenceAppend DEF Accelerators, AreFifos
<1>2. /\ inFifo' = [inFifo EXCEPT ![a][p] = s]
      /\ UNCHANGED <<outFifo, taken, written, stage>>
  BY DEF Acc!PutSample, Accelerators, AreFifos
<1>3. /\ AreFifos(inFifo')
      /\ inFifo'[a][p] = s
      /\ \A q \in Acc!Parts \ {p} : inFifo'[a][q] = inFifo[a][q]
      /\ \A b \in Harts \ {a} : inFifo'[b] = inFifo[b]
  <2> HIDE DEF s
  <2>1. /\ inFifo'[a][p] = s
        /\ \A q \in Acc!Parts \ {p} : inFifo'[a][q] = inFifo[a][q]
        /\ \A b \in Harts \ {a} : inFifo'[b] = inFifo[b]
    BY <1>1, <1>2 DEF Accelerators, AreFifos, OnHarts, OnParts
  <2>2. OnHarts(inFifo') /\ OnParts(inFifo'[a])
    BY <1>1, <1>2 DEF Accelerators, AreFifos, OnHarts, OnParts
  <2> QED
    BY <2>1, <2>2, <1>1, <1>2 DEF Accelerators, AreFifos
<1> QED
  BY <1>2, <1>3 DEF Accelerators, AccelSame, Acc!PutSample, Acc!HasRoom

LEMMA TakeEffect ==
  ASSUME Accelerators, NEW a \in Harts, NEW p \in Acc!Parts, Acc!TakeResult(a, p)
  PROVE  /\ Accelerators'
         /\ \A b \in Harts \ {a} : AccelSame(b)
         /\ outFifo[a][p] # <<>>
         /\ Acc!NextResult(a, p) = outFifo[a][p][1]
         /\ outFifo'[a][p] = Tail(outFifo[a][p])
         /\ \A q \in Acc!Parts \ {p} : outFifo'[a][q] = outFifo[a][q]
         /\ UNCHANGED <<inFifo, taken, written, stage>>
<1> DEFINE s == Tail(outFifo[a][p])
<1>1. /\ outFifo[a][p] # <<>>
      /\ outFifo' = [outFifo EXCEPT ![a][p] = s]
      /\ UNCHANGED <<inFifo, taken, written, stage>>
  BY DEF Acc!TakeResult, Acc!HasResult, Accelerators, AreFifos
<1>2. IsSequence(s) /\ Head(outFifo[a][p]) = outFifo[a][p][1]
  BY <1>1, SequenceTail DEF Accelerators, AreFifos
<1>3. /\ AreFifos(outFifo')
      /\ outFifo'[a][p] = s
      /\ \A q \in Acc!Parts \ {p} : outFifo'[a][q] = outFifo[a][q]
      /\ \A b \in Harts \ {a} : outFifo'[b] = outFifo[b]
  <2> HIDE DEF s
  <2>1. /\ outFifo'[a][p] = s
        /\ \A q \in Acc!Parts \ {p} : outFifo'[a][q] = outFifo[a][q]
        /\ \A b \in Harts \ {a} : outFifo'[b] = outFifo[b]
    BY <1>1, <1>2 DEF Accelerators, AreFifos, OnHarts, OnParts
  <2>2. OnHarts(outFifo') /\ OnParts(outFifo'[a])
    BY <1>1, <1>2 DEF Accelerators, AreFifos, OnHarts, OnParts
  <2> QED
    BY <2>1, <2>2, <1>1, <1>2 DEF Accelerators, AreFifos
<1> QED
  BY <1>1, <1>2, <1>3 DEF Accelerators, AccelSame, Acc!NextResult

-----------------------------------------------------------------------------
(* How far accelerator a is: the real word is always handled first. *)
Counts(a) ==
  /\ \A p \in Acc!Parts : Len(inFifo[a][p]) <= Depth /\ Len(outFifo[a][p]) <= Depth
  /\ Len(taken[a]["real"]) \in {Len(taken[a]["imag"]), Len(taken[a]["imag"]) + 1}
  /\ Len(taken[a]["real"]) <= N
  /\ written[a]["real"] \in {written[a]["imag"], written[a]["imag"] + 1}
  /\ written[a]["real"] <= N
  /\ stage[a] = "reading" => written[a]["real"] = 0 /\ written[a]["imag"] = 0
  /\ stage[a] = "writing" => Len(taken[a]["imag"]) = N /\ written[a]["imag"] < N

AccelInv == Accelerators /\ \A a \in Harts : Counts(a)

LEMMA CountsSame ==
  ASSUME NEW a \in Harts, Counts(a), AccelSame(a) PROVE Counts(a)'
BY DEF Counts, AccelSame, Acc!Parts

LEMMA AccelLengths ==
  ASSUME Accelerators, NEW a \in Harts, NEW p \in Acc!Parts
  PROVE  /\ Len(inFifo[a][p]) \in Nat /\ Len(outFifo[a][p]) \in Nat
         /\ Len(taken[a][p]) \in Nat /\ written[a][p] \in Nat
BY SequenceLength DEF Accelerators, AreFifos

LEMMA CountsDoFft ==
  ASSUME AccelInv, NEW a \in Harts, Acc!DoFft(a) PROVE AccelInv'
<1> USE DEF AccelInv
<1>0. N \in Nat \ {0} /\ Depth \in Nat \ {0}
  BY DriverAssumption
<1>1. /\ \A p \in Acc!Parts : /\ Len(inFifo[a][p]) \in Nat /\ Len(outFifo[a][p]) \in Nat
                              /\ Len(taken[a][p]) \in Nat /\ written[a][p] \in Nat
      /\ Counts(a)
  BY AccelLengths
<1>2. ASSUME NEW p \in Acc!Parts, Acc!ReadSample(a, p) PROVE AccelInv'
  <2>1. /\ Accelerators'
        /\ \A b \in Harts \ {a} : AccelSame(b)
        /\ inFifo[a][p] # <<>>
        /\ inFifo'[a][p] = Tail(inFifo[a][p])
        /\ taken'[a][p] = Append(taken[a][p], inFifo[a][p][1])
        /\ \A q \in Acc!Parts \ {p} : inFifo'[a][q] = inFifo[a][q] /\ taken'[a][q] = taken[a][q]
        /\ UNCHANGED <<outFifo, written, stage>>
    BY <1>2, ReadEffect
  <2>2. /\ stage[a] = "reading"
        /\ Len(taken[a]["real"]) < N \/ Len(taken[a]["imag"]) < N
        /\ p = "real" <=> Len(taken[a]["real"]) = Len(taken[a]["imag"])
    BY <1>2, DotPart DEF Acc!ReadSample
  <2>3. /\ Len(inFifo'[a][p]) = Len(inFifo[a][p]) - 1
        /\ Len(taken'[a][p]) = Len(taken[a][p]) + 1
    BY <2>1, SequenceTail, SequenceAppend DEF Accelerators, AreFifos
  <2>4. \A q \in Acc!Parts : Len(inFifo'[a][q]) <= Depth /\ Len(outFifo'[a][q]) <= Depth
    <3>1. Len(inFifo'[a][p]) <= Depth
      BY <1>0, <1>1, <2>3 DEF Counts
    <3>2. \A q \in Acc!Parts \ {p} : Len(inFifo'[a][q]) <= Depth
      BY <1>1, <2>1 DEF Counts
    <3> QED
      BY <1>1, <2>1, <3>1, <3>2 DEF Counts
  <2>5. Counts(a)'
    <3>1. /\ Len(taken[a]["real"]) \in Nat /\ Len(taken[a]["imag"]) \in Nat
          /\ Len(taken[a]["real"]) \in {Len(taken[a]["imag"]), Len(taken[a]["imag"]) + 1}
          /\ Len(taken[a]["real"]) <= N
      BY <1>1 DEF Counts, Acc!Parts
    <3>2. /\ Len(taken'[a]["real"]) \in {Len(taken'[a]["imag"]), Len(taken'[a]["imag"]) + 1}
          /\ Len(taken'[a]["real"]) <= N
      <4>1. CASE p = "real"
        <5>1. taken'[a]["imag"] = taken[a]["imag"]
          BY <2>1, <4>1 DEF Acc!Parts
        <5>2. Len(taken'[a]["real"]) = Len(taken[a]["real"]) + 1
          BY <2>3, <4>1
        <5>3. Len(taken[a]["real"]) = Len(taken[a]["imag"])
          BY <2>2, <4>1
        <5>4. Len(taken[a]["real"]) < N
          BY <2>2, <5>3
        <5> QED
          BY <1>0, <3>1, <5>1, <5>2, <5>3, <5>4
      <4>2. CASE p = "imag"
        <5>1. taken'[a]["real"] = taken[a]["real"]
          BY <2>1, <4>2 DEF Acc!Parts
        <5>2. Len(taken'[a]["imag"]) = Len(taken[a]["imag"]) + 1
          BY <2>3, <4>2
        <5>3. Len(taken[a]["real"]) = Len(taken[a]["imag"]) + 1
          BY <2>2, <3>1, <4>2
        <5> QED
          BY <3>1, <5>1, <5>2, <5>3
      <4> QED
        BY <4>1, <4>2 DEF Acc!Parts
    <3>3. /\ written' = written /\ stage' = stage /\ stage[a] = "reading"
      BY <2>1, <2>2
    <3> QED
      BY <1>1, <2>4, <3>2, <3>3 DEF Counts
  <2> QED
    BY <2>1, <2>5, CountsSame
<1>3. ASSUME NEW p \in Acc!Parts, Acc!WriteResult(a, p) PROVE AccelInv'
  <2>1. /\ Accelerators'
        /\ \A b \in Harts \ {a} : AccelSame(b)
        /\ Len(outFifo[a][p]) < Depth
        /\ outFifo'[a][p] = Append(outFifo[a][p],
                                   Acc!Result(taken[a], p, written[a][p] + 1))
        /\ \A q \in Acc!Parts \ {p} : outFifo'[a][q] = outFifo[a][q]
        /\ inFifo' = inFifo
        /\ IF p = "imag" /\ written[a]["imag"] = N - 1
             THEN /\ stage'[a] = "reading"
                  /\ \A q \in Acc!Parts : taken'[a][q] = <<>> /\ written'[a][q] = 0
             ELSE /\ taken' = taken /\ stage' = stage
                  /\ written'[a][p] = written[a][p] + 1
                  /\ \A q \in Acc!Parts \ {p} : written'[a][q] = written[a][q]
    BY <1>3, WriteEffect
  <2>2. /\ stage[a] = "writing"
        /\ p = "real" <=> written[a]["real"] = written[a]["imag"]
    BY <1>3, DotPart DEF Acc!WriteResult
  <2>3. Len(outFifo'[a][p]) = Len(outFifo[a][p]) + 1
    BY <2>1, SequenceAppend DEF Accelerators, AreFifos
  <2>4. Counts(a)'
    <3>1. \A q \in Acc!Parts : Len(inFifo'[a][q]) <= Depth /\ Len(outFifo'[a][q]) <= Depth
      BY <1>0, <1>1, <2>1, <2>3 DEF Counts
    <3>2. CASE p = "imag" /\ written[a]["imag"] = N - 1
      BY <1>0, <2>1, <3>1, <3>2, EmptySequence DEF Counts, Acc!Parts
    <3>3. CASE ~(p = "imag" /\ written[a]["imag"] = N - 1)
      <4>1. /\ taken' = taken /\ stage' = stage
            /\ written'[a][p] = written[a][p] + 1
            /\ \A q \in Acc!Parts \ {p} : written'[a][q] = written[a][q]
        BY <2>1, <3>3
      <4> QED
        BY <1>0, <1>1, <2>2, <3>1, <3>3, <4>1 DEF Counts, Acc!Parts
    <3> QED
      BY <3>2, <3>3
  <2> QED
    BY <2>1, <2>4, CountsSame
<1>4. CASE Acc!Transform(a)
  <2>1. /\ stage[a] = "reading" /\ Len(taken[a]["imag"]) = N
        /\ stage' = [stage EXCEPT ![a] = "writing"]
        /\ UNCHANGED <<inFifo, outFifo, taken, written>>
    BY <1>4, DotPart DEF Acc!Transform
  <2>2. Accelerators' /\ \A b \in Harts \ {a} : AccelSame(b)
    BY <2>1 DEF Accelerators, AccelSame
  <2>3. Counts(a)'
    BY <1>0, <1>1, <2>1 DEF Counts, Accelerators
  <2> QED
    BY <2>2, <2>3, CountsSame
<1> QED
  BY <1>2, <1>3, <1>4 DEF Acc!DoFft

LEMMA CountsPut ==
  ASSUME AccelInv, NEW a \in Harts, NEW p \in Acc!Parts, NEW v, Acc!PutSample(a, p, v)
  PROVE  AccelInv'
<1> USE DEF AccelInv
<1>1. /\ Accelerators'
      /\ \A b \in Harts \ {a} : AccelSame(b)
      /\ Len(inFifo[a][p]) < Depth
      /\ inFifo'[a][p] = Append(inFifo[a][p], v)
      /\ \A q \in Acc!Parts \ {p} : inFifo'[a][q] = inFifo[a][q]
      /\ UNCHANGED <<outFifo, taken, written, stage>>
  BY PutEffect
<1>2. Len(inFifo'[a][p]) = Len(inFifo[a][p]) + 1 /\ Len(inFifo[a][p]) \in Nat
  BY <1>1, SequenceAppend, SequenceLength DEF Accelerators, AreFifos
<1>3. Counts(a)'
  BY <1>1, <1>2, DriverAssumption DEF Counts
<1> QED
  BY <1>1, <1>3, CountsSame

LEMMA CountsTake ==
  ASSUME AccelInv, NEW a \in Harts, NEW p \in Acc!Parts, Acc!TakeResult(a, p)
  PROVE  AccelInv'
<1> USE DEF AccelInv
<1>1. /\ Accelerators'
      /\ \A b \in Harts \ {a} : AccelSame(b)
      /\ outFifo[a][p] # <<>>
      /\ outFifo'[a][p] = Tail(outFifo[a][p])
      /\ \A q \in Acc!Parts \ {p} : outFifo'[a][q] = outFifo[a][q]
      /\ UNCHANGED <<inFifo, taken, written, stage>>
  BY TakeEffect
<1>2. Len(outFifo'[a][p]) = Len(outFifo[a][p]) - 1 /\ Len(outFifo[a][p]) \in Nat
  BY <1>1, SequenceTail, SequenceLength DEF Accelerators, AreFifos
<1>3. \A q \in Acc!Parts : Len(outFifo'[a][q]) <= Depth
  <2>1. Len(outFifo'[a][p]) <= Depth
    BY <1>2, DriverAssumption DEF Counts
  <2>2. \A q \in Acc!Parts \ {p} : Len(outFifo'[a][q]) <= Depth
    BY <1>1 DEF Counts
  <2> QED
    BY <2>1, <2>2
<1>4. Counts(a)'
  BY <1>1, <1>3 DEF Counts
<1> QED
  BY <1>1, <1>4, CountsSame

LEMMA AccelInit == Init => AccelInv
<1> SUFFICES ASSUME Init PROVE AccelInv
  OBVIOUS
<1> USE DEF Init, Acc!AccelInit, Acc!Empty
<1>1. Accelerators
  BY EmptySequence, DriverAssumption DEF Accelerators, AreFifos, OnHarts, OnParts
<1>2. \A a \in Harts : Counts(a)
  BY EmptySequence, DriverAssumption DEF Counts, Acc!Parts
<1> QED
  BY <1>1, <1>2 DEF AccelInv

(* Who has to do with an accelerator, and how. *)
LEMMA AccelMoves ==
  ASSUME PlacesInv, [Next]_vars
  PROVE  \/ UNCHANGED accelVars
         \/ \E h \in Harts : Acc!DoFft(h)
         \/ \E h \in Harts, p \in Acc!Parts : Acc!TakeResult(h, p) \/ Acc!PutSample(h, p, buffer[1]) \/ Acc!PutSample(h, p, buff[h])
<1> DEFINE P == \E h \in Harts, p \in Acc!Parts :
                  \/ Acc!TakeResult(h, p)
                  \/ Acc!PutSample(h, p, buffer[1]) \/ Acc!PutSample(h, p, buff[h])
<1>1. CASE UNCHANGED vars
  BY <1>1 DEF vars
<1>2. CASE EngineStep
  BY <1>2 DEF EngineStep, BusRead, BusWrite
<1>3. ASSUME NEW h \in Harts, Step(h)
      PROVE  UNCHANGED accelVars \/ P
  <2>1. CASE CopyOut(h) \/ CopyIn(h)
    BY <2>1 DEF CopyOut, CopyIn, PlacesInv
  <2>2. CASE ~(CopyOut(h) \/ CopyIn(h))
    BY <1>3, <2>2 DEF Step, OutsideSections, EnterSection, LeaveSection, FillBuff,
         StoreSrc, StoreDst, StoreLen, StoreOp, Load, PrintSample
  <2> QED
    BY <2>1, <2>2
<1>4. ASSUME NEW h \in Harts, AccelStep(h) \/ Clobber(h)
      PROVE  UNCHANGED accelVars \/ Acc!DoFft(h)
  BY <1>4 DEF AccelStep, Clobber
<1> QED
  BY <1>1, <1>2, <1>3, <1>4 DEF Next

LEMMA AccelStays == ASSUME PlacesInv, AccelInv, [Next]_vars PROVE AccelInv'
<1>1. CASE UNCHANGED accelVars
  <2>1. Accelerators' /\ \A a \in Harts : AccelSame(a)
    BY <1>1 DEF accelVars, AccelInv, Accelerators, AccelSame
  <2> QED
    BY <2>1, CountsSame DEF AccelInv
<1>2. ASSUME NEW h \in Harts, Acc!DoFft(h) PROVE AccelInv'
  BY <1>2, CountsDoFft
<1>3. ASSUME NEW h \in Harts, NEW p \in Acc!Parts, Acc!TakeResult(h, p) PROVE AccelInv'
  BY <1>3, CountsTake
<1>4. ASSUME NEW h \in Harts, NEW p \in Acc!Parts, NEW v, Acc!PutSample(h, p, v)
      PROVE  AccelInv'
  BY <1>4, CountsPut
<1> QED
  BY <1>1, <1>2, <1>3, <1>4, AccelMoves

(* The engine copies one word for each request, so off never moves. *)
EngineInv ==
  /\ src \in Nat /\ dst \in Nat /\ len \in {0, 1}
  /\ n \in {0, 1} /\ off = 0

LEMMA Addresses ==
  ASSUME NEW h \in Harts, NEW p \in Acc!Parts
  PROVE  BuffAddr(h) \in Nat /\ SampleAddr(h, p) \in Nat /\ ResultAddr(h, p) \in Nat
<1>1. h \in 0 .. 28
  BY DriverAssumption
<1>2. h \in Nat
  BY <1>1
<1> QED
  BY <1>2 DEF BuffAddr, SampleAddr, ResultAddr

LEMMA EngineInit == Init => EngineInv
BY DEF Init, DMA!DMAInit, EngineInv

LEMMA EngineStays == ASSUME PlacesInv, EngineInv, [Next]_vars PROVE EngineInv'
<1> USE DEF EngineInv
<1>1. CASE UNCHANGED engineVars
  BY <1>1 DEF engineVars
<1>2. CASE EngineStep
  <2>1. CASE DMA!Fire \/ DMA!Dispatch \/ DMA!Interrupt
    BY <2>1 DEF DMA!Fire, DMA!Dispatch, DMA!Interrupt
  <2>2. CASE BusWait \/ BusRead
    BY <2>2 DEF BusWait, BusRead, DMA!ReadBlock
  <2>3. CASE BusWrite
    BY <2>3 DEF BusWrite, DMA!WriteBlock
  <2> QED
    BY <1>2, <2>1, <2>2, <2>3 DEF EngineStep
<1>3. ASSUME NEW h \in Harts, Step(h) PROVE EngineInv'
  <2>1. CASE StoreSrc(h) \/ StoreDst(h)
    <3>1. part[h] \in Acc!Parts
      BY DEF PlacesInv
    <3>2. /\ BuffAddr(h) \in Nat
          /\ SampleAddr(h, part[h]) \in Nat /\ ResultAddr(h, part[h]) \in Nat
      BY <3>1, Addresses
    <3> QED
      BY <2>1, <3>2 DEF StoreSrc, StoreDst, DMA!WriteSrc, DMA!WriteDst
  <2>2. CASE StoreLen(h) \/ StoreOp(h)
    BY <2>2 DEF StoreLen, StoreOp, DMA!WriteLen, DMA!WriteOp
  <2>3. CASE ~(StoreSrc(h) \/ StoreDst(h) \/ StoreLen(h) \/ StoreOp(h))
    BY <1>1, <1>3, <2>3 DEF Step, OutsideSections, EnterSection, LeaveSection,
         FillBuff, CopyOut, CopyIn, Load, PrintSample
  <2> QED
    BY <2>1, <2>2, <2>3
<1>4. ASSUME NEW h \in Harts, AccelStep(h) \/ Clobber(h) PROVE EngineInv'
  BY <1>1, <1>4 DEF AccelStep, Clobber
<1>5. CASE UNCHANGED vars
  BY <1>1, <1>5 DEF vars
<1> QED
  BY <1>2, <1>3, <1>4, <1>5 DEF Next

(* What the skeleton's theorems say, as invariants of this program. *)
LEMMA SkeletonTypeOK == Spec => []Skeleton!TypeOK
BY ImplementsDualCore, SkeletonAssumption, Skeleton!TypeCorrect, PTL

LEMMA PlacesAlways == Spec => [](PlacesInv /\ RegistersInv)
BY SkeletonTypeOK, SkeletonExcludes, PlacesInit, PlacesStep, PTL DEF Spec

LEMMA AccelAlways == Spec => []AccelInv
BY PlacesAlways, AccelInit, AccelStays, PTL DEF Spec

LEMMA EngineAlways == Spec => []EngineInv
BY PlacesAlways, EngineInit, EngineStays, PTL DEF Spec

LEMMA AccelType == AccelInv => Acc!AccelTypeOK
<1> SUFFICES ASSUME AccelInv, NEW a \in Harts
             PROVE  /\ stage[a] \in {"reading", "writing"}
                    /\ \A p \in Acc!Parts :
                         /\ Len(inFifo[a][p]) <= Depth /\ Len(outFifo[a][p]) <= Depth
                         /\ Len(taken[a][p]) <= N /\ written[a][p] \in 0 .. N
  BY DEF Acc!AccelTypeOK
<1>1. stage[a] \in {"reading", "writing"} /\ Counts(a)
  BY DEF AccelInv, Accelerators
<1>2. \A p \in Acc!Parts : Len(taken[a][p]) \in Nat /\ written[a][p] \in Nat
  BY AccelLengths DEF AccelInv
<1>3. N \in Nat \ {0} /\ Depth \in Nat \ {0}
  BY DriverAssumption
<1>4. \A p \in Acc!Parts : Len(taken[a][p]) <= N /\ written[a][p] \in 0 .. N
  <2>1. "real" \in Acc!Parts /\ "imag" \in Acc!Parts
    BY DEF Acc!Parts
  <2>2. /\ Len(taken[a]["real"]) <= N /\ Len(taken[a]["imag"]) <= N
        /\ written[a]["real"] \in 0 .. N /\ written[a]["imag"] \in 0 .. N
    BY <1>1, <1>2, <1>3, <2>1 DEF Counts
  <2> QED
    BY <2>2 DEF Acc!Parts
<1> QED
  BY <1>1, <1>4 DEF Counts

(* The types of everything the program adds to the skeleton: no FIFO is    *)
(* ever over its capacity, the thread of an accelerator handles at most N  *)
(* words of each part, the engine's registers hold addresses, and its copy *)
(* loop stays in its first block whatever is stored while it runs.         *)
THEOREM TypeAlwaysOK == Spec => []TypeOK
<1>1. Skeleton!TypeOK => Core!TypeOK
  BY DEF Skeleton!TypeOK, Core!TypeOK, Skeleton!Semaphores, Core!Semaphores,
         Skeleton!PC, Core!PC, Skeleton!Initialising, Core!Initialising,
         Skeleton!Inside, Core!Inside, Skeleton!Beyond, Core!Beyond
<1>2. PlacesInv => /\ at \in [Harts -> {"outside", "enter", "src", "dst", "len", "op",
                                        "copy", "load", "print", "leave"}]
                   /\ part \in [Harts -> Acc!Parts]
  <2>1. Places \union {"outside"} = {"outside", "enter", "src", "dst", "len", "op",
                                     "copy", "load", "print", "leave"}
    BY DEF Places
  <2> QED
    BY <2>1 DEF PlacesInv
<1>3. Skeleton!TypeOK /\ PlacesInv /\ AccelInv /\ EngineInv => TypeOK
  BY <1>1, <1>2, AccelType DEF TypeOK, EngineInv
<1> QED
  BY <1>3, SkeletonTypeOK, PlacesAlways, AccelAlways, EngineAlways, PTL

-----------------------------------------------------------------------------
(* What is in the FIFOs.  All samples of hart h, as its accelerator gets   *)
(* them; and how many words of a part it has been given.                   *)
Samples(h) == [p \in Acc!Parts |-> [j \in 1 .. N |-> Sample(h, p, j)]]

Given(h, p) == Len(taken[h][p]) + Len(inFifo[h][p])

(* o_real and o_imag hold results in order, the first r of them are gone. *)
ResultsFrom(h, p, r) ==
  \A j \in 1 .. Len(outFifo[h][p]) :
    outFifo[h][p][j] = Acc!Result(Samples(h), p, r + j)

(* An accelerator in its (only) transform has been given samples of its    *)
(* own hart in order, and its results are those of all samples;            *)
Gathered(h) ==
  \A p \in Acc!Parts :
    /\ \A j \in 1 .. Len(taken[h][p]) : taken[h][p][j] = Sample(h, p, j)
    /\ \A j \in 1 .. Len(inFifo[h][p]) :
         inFifo[h][p][j] = Sample(h, p, Len(taken[h][p]) + j)
    /\ ResultsFrom(h, p, written[h][p] - Len(outFifo[h][p]))

(* afterwards only results are left. *)
Finished(h) ==
  /\ stage[h] = "reading"
  /\ \A p \in Acc!Parts : /\ taken[h][p] = <<>> /\ inFifo[h][p] = <<>>
                          /\ ResultsFrom(h, p, N - Len(outFifo[h][p]))

LEMMA ContentSame ==
  ASSUME NEW h \in Harts, AccelSame(h)
  PROVE  /\ Gathered(h) => Gathered(h)'
         /\ Finished(h) => Finished(h)'
         /\ \A p \in Acc!Parts : Given(h, p)' = Given(h, p)
BY DEF AccelSame, Gathered, Finished, ResultsFrom, Given

(* A transform that writes has read all samples. *)
LEMMA AllTaken ==
  ASSUME AccelInv, NEW h \in Harts, Gathered(h), stage[h] = "writing"
  PROVE  taken[h] = Samples(h)
<1>1. /\ OnParts(taken[h])
      /\ \A p \in Acc!Parts : IsSequence(taken[h][p])
  BY DEF AccelInv, Accelerators, AreFifos
<1>2. \A p \in Acc!Parts : Len(taken[h][p]) \in Nat
  BY AccelLengths DEF AccelInv
<1>3. \A p \in Acc!Parts : Len(taken[h][p]) = N
  <2>1. "real" \in Acc!Parts /\ "imag" \in Acc!Parts
    BY DEF Acc!Parts
  <2>2. Len(taken[h]["real"]) = N /\ Len(taken[h]["imag"]) = N
    BY <1>2, <2>1, DriverAssumption DEF AccelInv, Counts
  <2> QED
    BY <2>2 DEF Acc!Parts
<1>4. \A p \in Acc!Parts : taken[h][p] = [j \in 1 .. N |-> Sample(h, p, j)]
  <2> TAKE p \in Acc!Parts
  <2>1. taken[h][p] = [j \in 1 .. N |-> taken[h][p][j]]
    BY <1>1, <1>3, SequenceLength
  <2>2. \A j \in 1 .. N : taken[h][p][j] = Sample(h, p, j)
    BY <1>3 DEF Gathered
  <2> QED
    BY <2>1, <2>2
<1> QED
  BY <1>1, <1>4 DEF OnParts, Samples

LEMMA ContentRead ==
  ASSUME AccelInv, NEW h \in Harts, NEW p \in Acc!Parts, Acc!ReadSample(h, p),
         Gathered(h)
  PROVE  /\ Gathered(h)'
         /\ \A q \in Acc!Parts : Given(h, q)' = Given(h, q)
         /\ outFifo' = outFifo /\ written' = written
<1> DEFINE s == inFifo[h][p]
           t == taken[h][p]
<1>1. /\ s # <<>>
      /\ inFifo'[h][p] = Tail(s)
      /\ taken'[h][p] = Append(t, s[1])
      /\ \A q \in Acc!Parts \ {p} : inFifo'[h][q] = inFifo[h][q] /\ taken'[h][q] = taken[h][q]
      /\ UNCHANGED <<outFifo, written, stage>>
  BY ReadEffect DEF AccelInv
<1>2. IsSequence(s) /\ IsSequence(t)
  BY DEF AccelInv, Accelerators, AreFifos
<1>3. /\ Len(s) \in Nat /\ Len(s) > 0 /\ Len(t) \in Nat
      /\ Len(Tail(s)) = Len(s) - 1
      /\ \A i \in 1 .. Len(s) - 1 : Tail(s)[i] = s[i + 1]
      /\ Len(Append(t, s[1])) = Len(t) + 1
      /\ \A i \in 1 .. Len(t) : Append(t, s[1])[i] = t[i]
      /\ Append(t, s[1])[Len(t) + 1] = s[1]
  BY <1>1, <1>2, SequenceLength, SequenceTail, SequenceAppend
<1>4. /\ \A j \in 1 .. Len(t) : t[j] = Sample(h, p, j)
      /\ \A j \in 1 .. Len(s) : s[j] = Sample(h, p, Len(t) + j)
  BY DEF Gathered
<1>5. Given(h, p)' = Given(h, p)
  <2>1. Len(inFifo'[h][p]) = Len(inFifo[h][p]) - 1 /\ Len(taken'[h][p]) = Len(taken[h][p]) + 1
    BY <1>1, <1>3
  <2>2. Len(inFifo[h][p]) \in Nat /\ Len(taken[h][p]) \in Nat
    BY <1>3
  <2>3. \A a, b \in Nat : (a + 1) + (b - 1) = a + b
    OBVIOUS
  <2> HIDE DEF s, t
  <2> QED
    BY <2>1, <2>2, <2>3 DEF Given
<1>6. \A q \in Acc!Parts : Given(h, q)' = Given(h, q)
  BY <1>1, <1>5 DEF Given
<1> HIDE DEF s, t
<1>7. \A j \in 1 .. Len(t) + 1 : Append(t, s[1])[j] = Sample(h, p, j)
  <2>1. s[1] = Sample(h, p, Len(t) + 1)
    BY <1>3, <1>4
  <2> QED
    BY <1>3, <1>4, <2>1
<1>8. \A j \in 1 .. Len(s) - 1 : Tail(s)[j] = Sample(h, p, Len(t) + 1 + j)
  <2> TAKE j \in 1 .. Len(s) - 1
  <2>1. Tail(s)[j] = s[j + 1] /\ j + 1 \in 1 .. Len(s) /\ Len(t) + (j + 1) = Len(t) + 1 + j
    BY <1>3
  <2> QED
    BY <1>4, <2>1
<1>9. Gathered(h)'
  <2>1. \A q \in Acc!Parts \ {p} :
          /\ \A j \in 1 .. Len(taken'[h][q]) : taken'[h][q][j] = Sample(h, q, j)
          /\ \A j \in 1 .. Len(inFifo'[h][q]) :
               inFifo'[h][q][j] = Sample(h, q, Len(taken'[h][q]) + j)
    BY <1>1 DEF Gathered
  <2>2. /\ \A j \in 1 .. Len(taken'[h][p]) : taken'[h][p][j] = Sample(h, p, j)
        /\ \A j \in 1 .. Len(inFifo'[h][p]) :
             inFifo'[h][p][j] = Sample(h, p, Len(taken'[h][p]) + j)
    BY <1>1, <1>3, <1>7, <1>8
  <2>3. \A q \in Acc!Parts : ResultsFrom(h, q, written[h][q] - Len(outFifo[h][q]))'
    BY <1>1 DEF Gathered, ResultsFrom
  <2> QED
    BY <2>1, <2>2, <2>3 DEF Gathered
<1> QED
  BY <1>1, <1>6, <1>9

LEMMA ContentWrite ==
  ASSUME AccelInv, NEW h \in Harts, NEW p \in Acc!Parts, Acc!WriteResult(h, p),
         Gathered(h), \A q \in Acc!Parts : Given(h, q) <= N
  PROVE  LET before(q) == written[h][q] - Len(outFifo[h][q])
         IN  \/ /\ Gathered(h)'
                /\ \A q \in Acc!Parts :
                     /\ Given(h, q)' = Given(h, q)
                     /\ written'[h][q] - Len(outFifo'[h][q]) = before(q)
             \/ /\ Finished(h)'
                /\ \A q \in Acc!Parts :
                     Given(h, q) = N /\ N - Len(outFifo'[h][q]) = before(q)
<1> DEFINE o == outFifo[h][p]
           r == Acc!Result(taken[h], p, written[h][p] + 1)
           last == p = "imag" /\ written[h]["imag"] = N - 1
           before(q) == written[h][q] - Len(outFifo[h][q])
<1>1. /\ outFifo'[h][p] = Append(o, r)
      /\ \A q \in Acc!Parts \ {p} : outFifo'[h][q] = outFifo[h][q]
      /\ inFifo' = inFifo
      /\ IF last
           THEN /\ stage'[h] = "reading"
                /\ \A q \in Acc!Parts : taken'[h][q] = <<>> /\ written'[h][q] = 0
           ELSE /\ taken' = taken /\ stage' = stage
                /\ written'[h][p] = written[h][p] + 1
                /\ \A q \in Acc!Parts \ {p} : written'[h][q] = written[h][q]
  BY WriteEffect DEF AccelInv
<1>2. /\ stage[h] = "writing"
      /\ p = "real" <=> written[h]["real"] = written[h]["imag"]
  BY DotPart DEF Acc!WriteResult
<1>3. \A q \in Acc!Parts : /\ Len(inFifo[h][q]) \in Nat /\ Len(outFifo[h][q]) \in Nat
                           /\ Len(taken[h][q]) \in Nat /\ written[h][q] \in Nat
  BY AccelLengths DEF AccelInv
<1>4. IsSequence(o)
  BY DEF AccelInv, Accelerators, AreFifos
<1>5. /\ Len(Append(o, r)) = Len(o) + 1
      /\ \A j \in 1 .. Len(o) : Append(o, r)[j] = o[j]
      /\ Append(o, r)[Len(o) + 1] = r
  BY <1>4, SequenceAppend
<1>6. Counts(h) /\ N \in Nat \ {0}
  BY DriverAssumption DEF AccelInv
<1>7. r = Acc!Result(Samples(h), p, written[h][p] + 1)
  BY <1>2, AllTaken
<1>8. /\ Len(o) \in Nat /\ written[h][p] \in Nat
      /\ \A j \in 1 .. Len(o) : o[j] = Acc!Result(Samples(h), p, before(p) + j)
  BY <1>3 DEF Gathered, ResultsFrom
<1> HIDE DEF o, r
<1>9. \A j \in 1 .. Len(o) + 1 :
        Append(o, r)[j] = Acc!Result(Samples(h), p, before(p) + j)
  <2>1. before(p) = written[h][p] - Len(o)
    BY DEF o
  <2>2. before(p) + (Len(o) + 1) = written[h][p] + 1
    BY <1>8, <2>1
  <2> HIDE DEF before
  <2>3. Append(o, r)[Len(o) + 1] = Acc!Result(Samples(h), p, before(p) + (Len(o) + 1))
    BY <1>5, <1>7, <2>2
  <2>4. \A j \in 1 .. Len(o) : Append(o, r)[j] = Acc!Result(Samples(h), p, before(p) + j)
    BY <1>5, <1>8
  <2>5. \A j \in 1 .. Len(o) + 1 : j \in 1 .. Len(o) \/ j = Len(o) + 1
    BY <1>8
  <2> QED
    BY <2>3, <2>4, <2>5
<1>11. \A q \in Acc!Parts, b \in Int :
         b = before(q) =>
           \A j \in 1 .. Len(outFifo'[h][q]) :
             outFifo'[h][q][j] = Acc!Result(Samples(h), q, b + j)
  <2> SUFFICES ASSUME NEW q \in Acc!Parts
               PROVE  \A j \in 1 .. Len(outFifo'[h][q]) :
                        outFifo'[h][q][j] = Acc!Result(Samples(h), q, before(q) + j)
    OBVIOUS
  <2>1. CASE q = p
    BY <1>1, <1>5, <1>9, <2>1
  <2>2. CASE q # p
    BY <1>1, <2>2 DEF Gathered, ResultsFrom
  <2> QED
    BY <2>1, <2>2
<1>12. \A q \in Acc!Parts : before(q) \in Int
  BY <1>3
<1>13. Len(outFifo'[h][p]) = Len(outFifo[h][p]) + 1
  BY <1>1, <1>5 DEF o
<1>14. CASE last
  <2>1. \A q \in Acc!Parts : Len(taken[h][q]) = N /\ Given(h, q) = N /\ inFifo[h][q] = <<>>
    <3>1. "real" \in Acc!Parts /\ "imag" \in Acc!Parts
      BY DEF Acc!Parts
    <3>2. Len(taken[h]["real"]) = N /\ Len(taken[h]["imag"]) = N
      BY <1>2, <1>3, <1>6, <3>1 DEF Counts
    <3>3. \A q \in Acc!Parts : Len(taken[h][q]) = N
      BY <3>2 DEF Acc!Parts
    <3>4. \A q \in Acc!Parts : Len(inFifo[h][q]) = 0 /\ Given(h, q) = N
      <4> TAKE q \in Acc!Parts
      <4>1. Len(inFifo[h][q]) \in Nat /\ Len(taken[h][q]) = N
        BY <1>3, <3>3
      <4>2. Given(h, q) <= N /\ Given(h, q) = N + Len(inFifo[h][q])
        BY <4>1 DEF Given
      <4> QED
        BY <1>6, <4>1, <4>2
    <3>5. \A q \in Acc!Parts : inFifo[h][q] = <<>>
      BY <3>4, SequenceLength DEF AccelInv, Accelerators, AreFifos
    <3> QED
      BY <3>3, <3>4, <3>5
  <2>2. \A q \in Acc!Parts : N - Len(outFifo'[h][q]) = before(q)
    <3>1. /\ "real" \in Acc!Parts /\ written[h]["imag"] = N - 1
          /\ written[h]["real"] \in {N - 1, N} /\ written[h]["real"] # N - 1
      BY <1>2, <1>6, <1>14 DEF Counts, Acc!Parts
    <3>2. N - Len(outFifo'[h]["imag"]) = before("imag")
      BY <1>3, <1>6, <1>13, <1>14, <3>1
    <3>3. N - Len(outFifo'[h]["real"]) = before("real")
      BY <1>1, <1>14, <3>1
    <3> QED
      BY <3>2, <3>3 DEF Acc!Parts
  <2>3. Finished(h)'
    <3>1. \A q \in Acc!Parts :
            /\ taken'[h][q] = <<>> /\ inFifo'[h][q] = <<>>
            /\ \A j \in 1 .. Len(outFifo'[h][q]) :
                 outFifo'[h][q][j] = Acc!Result(Samples(h), q, N - Len(outFifo'[h][q]) + j)
      BY <1>1, <1>11, <1>12, <1>14, <2>1, <2>2
    <3> QED
      BY <1>1, <1>14, <3>1 DEF Finished, ResultsFrom
  <2> QED
    BY <2>1, <2>2, <2>3
<1>15. CASE ~last
  <2>1. /\ taken' = taken
        /\ written'[h][p] = written[h][p] + 1
        /\ \A q \in Acc!Parts \ {p} : written'[h][q] = written[h][q]
    BY <1>1, <1>15
  <2>2. \A q \in Acc!Parts : /\ Given(h, q)' = Given(h, q)
                             /\ written'[h][q] - Len(outFifo'[h][q]) = before(q)
    <3>1. written'[h][p] - Len(outFifo'[h][p]) = before(p)
      <4>1. \A a, b \in Nat : (a + 1) - (b + 1) = a - b
        OBVIOUS
      <4>2. written[h][p] \in Nat /\ Len(outFifo[h][p]) \in Nat
        BY <1>3
      <4> QED
        BY <1>13, <2>1, <4>1, <4>2
    <3>2. \A q \in Acc!Parts \ {p} : written'[h][q] - Len(outFifo'[h][q]) = before(q)
      BY <1>1, <2>1
    <3> QED
      BY <1>1, <2>1, <3>1, <3>2 DEF Given
  <2>3. Gathered(h)'
    <3>1. \A q \in Acc!Parts : ResultsFrom(h, q, written[h][q] - Len(outFifo[h][q]))'
      BY <1>11, <1>12, <2>2 DEF ResultsFrom
    <3> QED
      BY <1>1, <2>1, <3>1 DEF Gathered
  <2> QED
    BY <2>2, <2>3
<1> QED
  BY <1>14, <1>15

(* Any step of the thread; when nothing is left to take it does nothing. *)
LEMMA ContentDoFft ==
  ASSUME AccelInv, NEW h \in Harts, Acc!DoFft(h),
         Gathered(h), \A q \in Acc!Parts : Given(h, q) <= N
  PROVE  \/ /\ Gathered(h)'
            /\ \A q \in Acc!Parts :
                 /\ Given(h, q)' = Given(h, q)
                 /\ written'[h][q] - Len(outFifo'[h][q]) = written[h][q] - Len(outFifo[h][q])
         \/ /\ Finished(h)'
            /\ \A q \in Acc!Parts :
                 /\ Given(h, q) = N
                 /\ N - Len(outFifo'[h][q]) = written[h][q] - Len(outFifo[h][q])
<1>1. ASSUME NEW p \in Acc!Parts, Acc!ReadSample(h, p)
      PROVE  /\ Gathered(h)' /\ outFifo' = outFifo /\ written' = written
             /\ \A q \in Acc!Parts : Given(h, q)' = Given(h, q)
  BY <1>1, ContentRead
<1>2. ASSUME NEW p \in Acc!Parts, Acc!WriteResult(h, p)
      PROVE  \/ /\ Gathered(h)'
                /\ \A q \in Acc!Parts :
                     /\ Given(h, q)' = Given(h, q)
                     /\ written'[h][q] - Len(outFifo'[h][q])
                          = written[h][q] - Len(outFifo[h][q])
             \/ /\ Finished(h)'
                /\ \A q \in Acc!Parts :
                     /\ Given(h, q) = N
                     /\ N - Len(outFifo'[h][q]) = written[h][q] - Len(outFifo[h][q])
  BY <1>2, ContentWrite
<1>3. CASE Acc!Transform(h)
  BY <1>3 DEF Acc!Transform, Gathered, ResultsFrom, Given
<1> QED
  BY <1>1, <1>2, <1>3 DEF Acc!DoFft

LEMMA FinishedRests ==
  ASSUME AccelInv, NEW h \in Harts, Finished(h), Acc!DoFft(h) PROVE FALSE
<1>1. /\ stage[h] = "reading"
      /\ \A p \in Acc!Parts : taken[h][p] = <<>> /\ inFifo[h][p] = <<>>
  BY DEF Finished
<1>2. Len(taken[h]["imag"]) = 0
  BY <1>1, EmptySequence DEF Acc!Parts
<1> QED
  BY <1>1, <1>2, DriverAssumption, DotPart
     DEF Acc!DoFft, Acc!ReadSample, Acc!WriteResult, Acc!Transform

LEMMA ContentPut ==
  ASSUME AccelInv, NEW h \in Harts, NEW p \in Acc!Parts, NEW v,
         Acc!PutSample(h, p, v), Gathered(h), v = Sample(h, p, Given(h, p) + 1)
  PROVE  /\ Gathered(h)'
         /\ Given(h, p)' = Given(h, p) + 1
         /\ \A q \in Acc!Parts \ {p} : Given(h, q)' = Given(h, q)
         /\ UNCHANGED <<outFifo, written>>
<1> DEFINE s == inFifo[h][p]
           t == taken[h][p]
<1>1. /\ inFifo'[h][p] = Append(s, v)
      /\ \A q \in Acc!Parts \ {p} : inFifo'[h][q] = inFifo[h][q]
      /\ UNCHANGED <<outFifo, taken, written, stage>>
  BY PutEffect DEF AccelInv
<1>2. IsSequence(s)
  BY DEF AccelInv, Accelerators, AreFifos
<1>3. /\ Len(Append(s, v)) = Len(s) + 1
      /\ \A j \in 1 .. Len(s) : Append(s, v)[j] = s[j]
      /\ Append(s, v)[Len(s) + 1] = v
  BY <1>2, SequenceAppend
<1>4. Len(s) \in Nat /\ Len(t) \in Nat
  BY AccelLengths DEF AccelInv
<1>5. \A j \in 1 .. Len(s) : s[j] = Sample(h, p, Len(t) + j)
  BY DEF Gathered
<1>6. Given(h, p) = Len(t) + Len(s)
  BY DEF Given
<1>7. Given(h, p)' = Len(t) + Len(Append(s, v))
  BY <1>1 DEF Given
<1>8. \A q \in Acc!Parts \ {p} : Given(h, q)' = Given(h, q)
  BY <1>1 DEF Given
<1> HIDE DEF s, t
<1>9. Given(h, p)' = Given(h, p) + 1
  BY <1>3, <1>4, <1>6, <1>7
<1>10. \A j \in 1 .. Len(Append(s, v)) : Append(s, v)[j] = Sample(h, p, Len(t) + j)
  <2>1. v = Sample(h, p, Len(t) + (Len(s) + 1))
    <3>1. Given(h, p) + 1 = Len(t) + (Len(s) + 1)
      BY <1>4, <1>6
    <3> QED
      BY <3>1
  <2>2. \A j \in 1 .. Len(s) + 1 : j \in 1 .. Len(s) \/ j = Len(s) + 1
    BY <1>4
  <2> QED
    BY <1>3, <1>5, <2>1, <2>2
<1>11. Gathered(h)'
  <2>1. \A j \in 1 .. Len(inFifo'[h][p]) :
          inFifo'[h][p][j] = Sample(h, p, Len(taken'[h][p]) + j)
    BY <1>1, <1>10 DEF t
  <2>2. \A q \in Acc!Parts \ {p} : \A j \in 1 .. Len(inFifo'[h][q]) :
          inFifo'[h][q][j] = Sample(h, q, Len(taken'[h][q]) + j)
    BY <1>1 DEF Gathered
  <2>3. \A q \in Acc!Parts :
          /\ \A j \in 1 .. Len(taken'[h][q]) : taken'[h][q][j] = Sample(h, q, j)
          /\ ResultsFrom(h, q, written[h][q] - Len(outFifo[h][q]))'
    BY <1>1 DEF Gathered, ResultsFrom
  <2> QED
    BY <2>1, <2>2, <2>3 DEF Gathered
<1> QED
  BY <1>1, <1>8, <1>9, <1>11

(* A result that is taken is the one whose turn it is. *)
LEMMA ContentTake ==
  ASSUME AccelInv, NEW h \in Harts, NEW p \in Acc!Parts, Acc!TakeResult(h, p)
  PROVE  /\ Len(outFifo[h][p]) > 0
         /\ Len(outFifo'[h][p]) = Len(outFifo[h][p]) - 1
         /\ \A q \in Acc!Parts \ {p} : outFifo'[h][q] = outFifo[h][q]
         /\ \A q \in Acc!Parts : Given(h, q)' = Given(h, q)
         /\ written' = written
         /\ Gathered(h) =>
              /\ Gathered(h)'
              /\ Acc!NextResult(h, p) =
                   Acc!Result(Samples(h), p, written[h][p] - Len(outFifo[h][p]) + 1)
         /\ Finished(h) =>
              /\ Finished(h)'
              /\ Acc!NextResult(h, p) =
                   Acc!Result(Samples(h), p, N - Len(outFifo[h][p]) + 1)
<1> DEFINE o == outFifo[h][p]
<1>1. /\ o # <<>>
      /\ Acc!NextResult(h, p) = o[1]
      /\ outFifo'[h][p] = Tail(o)
      /\ \A q \in Acc!Parts \ {p} : outFifo'[h][q] = outFifo[h][q]
      /\ UNCHANGED <<inFifo, taken, written, stage>>
  BY TakeEffect DEF AccelInv
<1>2. IsSequence(o)
  BY DEF AccelInv, Accelerators, AreFifos
<1>3. /\ Len(o) \in Nat /\ Len(o) > 0
      /\ Len(Tail(o)) = Len(o) - 1
      /\ \A j \in 1 .. Len(o) - 1 : Tail(o)[j] = o[j + 1]
  BY <1>1, <1>2, SequenceLength, SequenceTail
<1>4. \A q \in Acc!Parts : Given(h, q)' = Given(h, q)
  BY <1>1 DEF Given
<1>5. ASSUME NEW w \in Int, ResultsFrom(h, p, w - Len(o))
      PROVE  /\ \A j \in 1 .. Len(outFifo'[h][p]) :
                  outFifo'[h][p][j] =
                    Acc!Result(Samples(h), p, w - Len(outFifo'[h][p]) + j)
             /\ o[1] = Acc!Result(Samples(h), p, w - Len(o) + 1)
  <2>1. \A j \in 1 .. Len(o) : o[j] = Acc!Result(Samples(h), p, (w - Len(o)) + j)
    BY <1>5 DEF ResultsFrom
  <2> HIDE DEF o
  <2>2. ASSUME NEW j \in 1 .. Len(o) - 1
        PROVE  Tail(o)[j] = Acc!Result(Samples(h), p, (w - (Len(o) - 1)) + j)
    <3>1. /\ j + 1 \in 1 .. Len(o)
          /\ (w - Len(o)) + (j + 1) = (w - (Len(o) - 1)) + j
      BY <1>3
    <3>2. Tail(o)[j] = o[j + 1]
      BY <1>3
    <3>3. o[j + 1] = Acc!Result(Samples(h), p, (w - Len(o)) + (j + 1))
      BY <2>1, <3>1
    <3> QED
      BY <3>1, <3>2, <3>3
  <2>3. 1 \in 1 .. Len(o)
    BY <1>3
  <2> QED
    BY <1>1, <1>3, <2>1, <2>2, <2>3
<1>6. /\ written[h][p] \in Int /\ N \in Int
  BY AccelLengths, DriverAssumption DEF AccelInv
<1>7. ASSUME Gathered(h)
      PROVE  /\ Gathered(h)'
             /\ Acc!NextResult(h, p) = Acc!Result(Samples(h), p, written[h][p] - Len(o) + 1)
  <2>1. ResultsFrom(h, p, written[h][p] - Len(o))
    BY <1>7 DEF Gathered
  <2>2. /\ ResultsFrom(h, p, written[h][p] - Len(outFifo[h][p]))'
        /\ o[1] = Acc!Result(Samples(h), p, written[h][p] - Len(o) + 1)
    BY <1>1, <1>5, <1>6, <2>1 DEF ResultsFrom
  <2>3. \A q \in Acc!Parts \ {p} : ResultsFrom(h, q, written[h][q] - Len(outFifo[h][q]))'
    BY <1>1, <1>7 DEF Gathered, ResultsFrom
  <2>4. Gathered(h)'
    BY <1>1, <1>7, <2>2, <2>3 DEF Gathered
  <2> QED
    BY <1>1, <2>2, <2>4
<1>8. ASSUME Finished(h)
      PROVE  /\ Finished(h)'
             /\ Acc!NextResult(h, p) = Acc!Result(Samples(h), p, N - Len(o) + 1)
  <2>1. ResultsFrom(h, p, N - Len(o))
    BY <1>8 DEF Finished
  <2>2. /\ ResultsFrom(h, p, N - Len(outFifo[h][p]))'
        /\ o[1] = Acc!Result(Samples(h), p, N - Len(o) + 1)
    BY <1>1, <1>5, <1>6, <2>1 DEF ResultsFrom
  <2>3. \A q \in Acc!Parts \ {p} : ResultsFrom(h, q, N - Len(outFifo[h][q]))'
    BY <1>1, <1>8 DEF Finished, ResultsFrom
  <2>4. Finished(h)'
    BY <1>1, <1>8, <2>2, <2>3 DEF Finished
  <2> QED
    BY <1>1, <2>2, <2>4
<1>9. /\ Len(outFifo[h][p]) > 0
      /\ Len(outFifo'[h][p]) = Len(outFifo[h][p]) - 1
  BY <1>1, <1>3
<1>10. /\ Gathered(h) =>
             /\ Gathered(h)'
             /\ Acc!NextResult(h, p) =
                  Acc!Result(Samples(h), p, written[h][p] - Len(outFifo[h][p]) + 1)
       /\ Finished(h) =>
             /\ Finished(h)'
             /\ Acc!NextResult(h, p) =
                  Acc!Result(Samples(h), p, N - Len(outFifo[h][p]) + 1)
  BY <1>1, <1>7, <1>8
<1> QED
  BY <1>1, <1>4, <1>9, <1>10

-----------------------------------------------------------------------------
(* Without the engine.  Done(h) sections lie behind h; the word of part p  *)
(* has been handled in the current one, too, if Passed.                    *)
Done(h) == N + Fetches - todo[h]

Passed(h, p) ==
  IF at[h] \in {"print", "leave"} \/ (part[h] = "imag" /\ p = "real") THEN 1 ELSE 0

(* So many words of part p has h sent; so many results has it stored, and  *)
(* so many has it got, the one it is about to store included.              *)
Sent(h, p) == IF Sending(h) THEN Done(h) + Passed(h, p) ELSE N
Fetched(h, p) == IF Sending(h) THEN 0 ELSE Done(h) - N + Passed(h, p)
Got(h, p) == IF at[h] = "load" /\ part[h] = p THEN Fetched(h, p) + 1 ELSE Fetched(h, p)

(* Each word sent is with the accelerator or was transformed, and each     *)
(* result is still there or was got.                                       *)
FlowInv(h) ==
  \/ /\ Gathered(h)
     /\ \A p \in Acc!Parts :
          Given(h, p) = Sent(h, p) /\ written[h][p] - Len(outFifo[h][p]) = Got(h, p)
  \/ /\ Finished(h)
     /\ \A p \in Acc!Parts :
          Sent(h, p) = N /\ N - Len(outFifo[h][p]) = Got(h, p)

(* What buff holds when it matters, and what h has stored. *)
StackInv(h) ==
  /\ at[h] \notin {"src", "dst", "len", "op"}
  /\ at[h] \in {"outside", "print", "leave"} => part[h] = "real"
  /\ at[h] = "copy" /\ Sending(h) => buff[h] = Sample(h, part[h], Done(h) + 1)
  /\ at[h] = "load" =>
       /\ ~Sending(h)
       /\ buff[h] = Acc!Result(Samples(h), part[h], Fetched(h, part[h]) + 1)

OutInv(h) ==
  /\ IsSequence(out[h])
  /\ Len(out[h]) = Fetched(h, "real") + Fetched(h, "imag")
  /\ \A k \in 1 .. Len(out[h]) :
       out[h][k] = Acc!Result(Samples(h), IF k % 2 = 1 THEN "real" ELSE "imag", (k + 1) \div 2)

EngineIdle == ~notified /\ phase = "waiting"

DirectInv ==
  /\ EngineIdle
  /\ OnHarts(buff) /\ OnHarts(out)
  /\ \A h \in Harts : StackInv(h) /\ OutInv(h) /\ FlowInv(h)

LEMMA DirectInit == Init => DirectInv
<1> SUFFICES ASSUME Init PROVE DirectInv
  OBVIOUS
<1> USE DEF Init, Acc!AccelInit, Acc!Empty, Core!Init
<1>1. EngineIdle /\ OnHarts(buff) /\ OnHarts(out)
  BY DEF DMA!DMAInit, EngineIdle, OnHarts
<1>2. ASSUME NEW h \in Harts PROVE StackInv(h) /\ OutInv(h) /\ FlowInv(h)
  <2>1. /\ at[h] = "outside" /\ part[h] = "real" /\ out[h] = <<>>
        /\ todo[h] = N + Fetches /\ N \in Nat \ {0} /\ Fetches \in Nat
    BY <1>2, DriverAssumption
  <2>2. \A p \in Acc!Parts :
          /\ inFifo[h][p] = <<>> /\ taken[h][p] = <<>> /\ outFifo[h][p] = <<>>
          /\ written[h][p] = 0
    BY <1>2
  <2>3. Sending(h) /\ Done(h) = 0 /\ \A p \in Acc!Parts : Passed(h, p) = 0
    BY <2>1 DEF Sending, Done, Passed
  <2>4. \A p \in Acc!Parts : Sent(h, p) = 0 /\ Fetched(h, p) = 0 /\ Got(h, p) = 0
    BY <2>1, <2>3 DEF Sent, Fetched, Got
  <2>5. StackInv(h)
    BY <2>1 DEF StackInv
  <2>6. OutInv(h)
    BY <2>1, <2>4, EmptySequence DEF OutInv, Acc!Parts
  <2>7. FlowInv(h)
    <3>1. Gathered(h)
      BY <2>2, EmptySequence DEF Gathered, ResultsFrom
    <3>2. \A p \in Acc!Parts :
            Given(h, p) = Sent(h, p) /\ written[h][p] - Len(outFifo[h][p]) = Got(h, p)
      BY <2>2, <2>4, EmptySequence DEF Given
    <3> QED
      BY <3>1, <3>2 DEF FlowInv
  <2> QED
    BY <2>5, <2>6, <2>7
<1> QED
  BY <1>1, <1>2 DEF DirectInv

(* A hart that does not move, and whose accelerator does not. *)
Rests(h) ==
  /\ AccelSame(h)
  /\ todo'[h] = todo[h] /\ at'[h] = at[h] /\ part'[h] = part[h]
  /\ buff'[h] = buff[h] /\ out'[h] = out[h]

LEMMA CountsOf ==
  ASSUME NEW h \in Harts, todo'[h] = todo[h], at'[h] = at[h], part'[h] = part[h]
  PROVE  /\ Sending(h)' = Sending(h) /\ Done(h)' = Done(h)
         /\ \A p \in Acc!Parts :
              /\ Passed(h, p)' = Passed(h, p) /\ Sent(h, p)' = Sent(h, p)
              /\ Fetched(h, p)' = Fetched(h, p) /\ Got(h, p)' = Got(h, p)
<1>1. (Sending(h)' <=> Sending(h)) /\ Done(h)' = Done(h)
  BY DEF Sending, Done
<1>2. \A p \in Acc!Parts : Passed(h, p)' = Passed(h, p)
  BY DEF Passed
<1>3. \A p \in Acc!Parts : Sent(h, p)' = Sent(h, p) /\ Fetched(h, p)' = Fetched(h, p)
  BY <1>1, <1>2 DEF Sent, Fetched
<1>4. \A p \in Acc!Parts : Got(h, p)' = Got(h, p)
  BY <1>3 DEF Got
<1> QED
  BY <1>1, <1>2, <1>3, <1>4 DEF Sending

LEMMA FlowStays ==
  ASSUME NEW h \in Harts, FlowInv(h), AccelSame(h),
         \A p \in Acc!Parts : Sent(h, p)' = Sent(h, p) /\ Got(h, p)' = Got(h, p)
  PROVE  FlowInv(h)'
<1>1. /\ Gathered(h) => Gathered(h)'
      /\ Finished(h) => Finished(h)'
      /\ \A p \in Acc!Parts : Given(h, p)' = Given(h, p)
  BY ContentSame
<1>2. \A p \in Acc!Parts : written'[h][p] = written[h][p] /\ outFifo'[h][p] = outFifo[h][p]
  BY DEF AccelSame
<1> QED
  BY <1>1, <1>2 DEF FlowInv

LEMMA HartRests ==
  ASSUME NEW h \in Harts, part[h] \in Acc!Parts, StackInv(h), OutInv(h), FlowInv(h),
         Rests(h)
  PROVE  StackInv(h)' /\ OutInv(h)' /\ FlowInv(h)'
<1>1. /\ Sending(h)' = Sending(h) /\ Done(h)' = Done(h)
      /\ \A p \in Acc!Parts :
           /\ Passed(h, p)' = Passed(h, p) /\ Sent(h, p)' = Sent(h, p)
           /\ Fetched(h, p)' = Fetched(h, p) /\ Got(h, p)' = Got(h, p)
  BY CountsOf DEF Rests
<1>2. FlowInv(h)'
  BY <1>1, FlowStays DEF Rests
<1>3. OutInv(h)'
  <2>1. Fetched(h, "real")' = Fetched(h, "real") /\ Fetched(h, "imag")' = Fetched(h, "imag")
    BY <1>1 DEF Acc!Parts
  <2> QED
    BY <2>1 DEF Rests, OutInv
<1>4. StackInv(h)'
  <2>1. Fetched(h, part[h])' = Fetched(h, part[h])
    BY <1>1 DEF Rests
  <2> QED
    BY <1>1, <2>1 DEF Rests, StackInv
<1> QED
  BY <1>2, <1>3, <1>4
-----------------------------------------------------------------------------
(* What a hart that is still to send or to fetch has done.  *)
LEMMA CountTypes ==
  ASSUME NEW h \in Harts, todo[h] \in 0 .. N + Fetches, at[h] # "outside" => todo[h] > 0,
         StackInv(h), NEW p \in Acc!Parts
  PROVE  /\ Done(h) \in Nat
         /\ Passed(h, p) \in {0, 1}
         /\ Sent(h, p) \in 0 .. N
         /\ Fetched(h, p) \in Nat
         /\ Got(h, p) \in Nat
         /\ Sending(h) => Done(h) + 1 <= N
<1>1. N \in Nat \ {0} /\ Fetches \in Nat
  BY DriverAssumption
<1>2. Passed(h, p) \in {0, 1} /\ (at[h] = "outside" => Passed(h, p) = 0)
  BY DEF Passed, StackInv
<1>3. Done(h) \in Nat /\ (Sending(h) => Done(h) + 1 <= N) /\ (~Sending(h) => Done(h) >= N)
  BY <1>1 DEF Done, Sending
<1>4. Sent(h, p) \in 0 .. N /\ Fetched(h, p) \in Nat
  BY <1>1, <1>2, <1>3 DEF Sent, Fetched
<1>5. Got(h, p) \in Nat
  BY <1>4 DEF Got
<1> QED
  BY <1>2, <1>3, <1>4, <1>5

(* The thread of h's accelerator moves. *)
LEMMA FlowDoFft ==
  ASSUME AccelInv, NEW h \in Harts, FlowInv(h), Acc!DoFft(h),
         \A p \in Acc!Parts : Sent(h, p) \in 0 .. N,
         \A p \in Acc!Parts : Sent(h, p)' = Sent(h, p) /\ Got(h, p)' = Got(h, p)
  PROVE  FlowInv(h)'
<1>1. /\ Gathered(h)
      /\ \A p \in Acc!Parts :
           Given(h, p) = Sent(h, p) /\ written[h][p] - Len(outFifo[h][p]) = Got(h, p)
  BY FinishedRests DEF FlowInv
<1>2. \A p \in Acc!Parts : Given(h, p) <= N
  BY <1>1, DriverAssumption
<1> DEFINE G == /\ Gathered(h)'
                /\ \A q \in Acc!Parts :
                     /\ Given(h, q)' = Given(h, q)
                     /\ written'[h][q] - Len(outFifo'[h][q])
                          = written[h][q] - Len(outFifo[h][q])
           F == /\ Finished(h)'
                /\ \A q \in Acc!Parts :
                     /\ Given(h, q) = N
                     /\ N - Len(outFifo'[h][q]) = written[h][q] - Len(outFifo[h][q])
<1>3. G \/ F
  BY <1>1, <1>2, ContentDoFft
<1>4. CASE G
  <2>1. \A p \in Acc!Parts :
          /\ Given(h, p)' = Sent(h, p)'
          /\ written'[h][p] - Len(outFifo'[h][p]) = Got(h, p)'
    BY <1>1, <1>4
  <2> QED
    BY <1>4, <2>1 DEF FlowInv
<1>5. CASE F
  <2>1. \A p \in Acc!Parts : Sent(h, p)' = N /\ N - Len(outFifo'[h][p]) = Got(h, p)'
    BY <1>1, <1>5
  <2> QED
    BY <1>5, <2>1 DEF FlowInv
<1> QED
  BY <1>3, <1>4, <1>5

(* The word is handled: the function returns. *)
LEMMA ReturnCounts ==
  ASSUME PlacesInv, NEW h \in Harts, at[h] \in {"op", "copy", "load"}, Return(h)
  PROVE  /\ Passed(h, part[h]) = 0
         /\ part'[h] \in Acc!Parts
         /\ \A p \in Acc!Parts :
              Passed(h, p)' = IF p = part[h] THEN 1 ELSE Passed(h, p)
         /\ at'[h] \in {"enter", "print", "leave"}
         /\ at'[h] \in {"print", "leave"} => part'[h] = "real"
         /\ \A g \in Harts \ {h} : at'[g] = at[g] /\ part'[g] = part[g]
<1>1. part[h] \in {"real", "imag"}
  BY DEF PlacesInv, Acc!Parts
<1>2. /\ at'[h] = IF part[h] = "real" THEN "enter"
                  ELSE IF Sending(h) /\ h = Boot THEN "print" ELSE "leave"
      /\ part'[h] = IF part[h] = "real" THEN "imag" ELSE "real"
      /\ \A g \in Harts \ {h} : at'[g] = at[g] /\ part'[g] = part[g]
  BY DEF Return, PlacesInv
<1>3. CASE part[h] = "real"
  BY <1>2, <1>3 DEF Passed, Acc!Parts
<1>4. CASE part[h] = "imag"
  BY <1>2, <1>4 DEF Passed, Acc!Parts
<1> QED
  BY <1>1, <1>3, <1>4

(* What is known before a step. *)
Known == PlacesInv /\ Skeleton!TypeOK /\ AccelInv

LEMMA KnownOf ==
  ASSUME Known, NEW h \in Harts
  PROVE  /\ todo[h] \in 0 .. N + Fetches
         /\ at[h] # "outside" => todo[h] > 0
         /\ part[h] \in Acc!Parts
BY DEF Known, Skeleton!TypeOK, PlacesInv

LEMMA DirectBut ==
  ASSUME Known, DirectInv, NEW h \in Harts,
         \A g \in Harts \ {h} : Rests(g),
         OnHarts(buff)', OnHarts(out)', UNCHANGED <<notified, phase>>,
         StackInv(h)', OutInv(h)', FlowInv(h)'
  PROVE  DirectInv'
<1>1. \A g \in Harts \ {h} : StackInv(g)' /\ OutInv(g)' /\ FlowInv(g)'
  BY KnownOf, HartRests DEF DirectInv
<1>2. EngineIdle'
  BY DEF DirectInv, EngineIdle
<1> QED
  BY <1>1, <1>2 DEF DirectInv

(* What a hart does outside sections is no business of the accelerators. *)
LEMMA OutsideFrame ==
  ASSUME NEW h \in Harts, OutsideSections(h)
  PROVE  UNCHANGED <<engineVars, accelVars, driverVars, todo>>
BY DEF OutsideSections, Core!InitBarrierLock, Core!InitBarrierSem, Core!InitLock,
       Core!Barrier, Core!BarrierEnter, Core!BarrierTest, Core!BarrierReset,
       Core!BarrierUnlockLast, Core!BarrierRelease, Core!BarrierReleased,
       Core!BarrierCount, Core!BarrierUnlock, Core!BarrierGate, Core!EnterPrint,
       Core!LeavePrint, Core!CountExit, Core!SysExit

LEMMA DirectOutside ==
  ASSUME Known, DirectInv, NEW h \in Harts, OutsideSections(h) PROVE DirectInv'
<1>1. UNCHANGED <<engineVars, accelVars, driverVars>>
  BY DEF OutsideSections
<1>2. todo' = todo
  BY OutsideFrame
<1>3. \A g \in Harts : Rests(g)
  BY <1>1, <1>2 DEF Rests, AccelSame, accelVars, driverVars
<1>4. StackInv(h)' /\ OutInv(h)' /\ FlowInv(h)'
  BY <1>3, KnownOf, HartRests DEF DirectInv
<1>5. UNCHANGED <<buff, out, notified, phase>>
  BY <1>1 DEF driverVars, engineVars
<1> QED
  BY <1>3, <1>4, <1>5, DirectBut DEF DirectInv, OnHarts

LEMMA DirectEnter ==
  ASSUME Known, DirectInv, NEW h \in Harts, EnterSection(h) PROVE DirectInv'
<1>1. /\ at'[h] = "enter"
      /\ \A g \in Harts \ {h} : at'[g] = at[g]
      /\ UNCHANGED <<todo, part, buff, out, notified, phase, accelVars>>
  BY DEF EnterSection, Core!EnterSection, engineVars, accelVars, Known, PlacesInv
<1>2. at[h] = "outside"
  BY DEF EnterSection, Core!EnterSection, Core!Goto, Known, PlacesInv
<1>3. /\ \A g \in Harts : AccelSame(g)
      /\ \A g \in Harts \ {h} : Rests(g)
  BY <1>1 DEF Rests, AccelSame, accelVars
<1>4. StackInv(h) /\ OutInv(h) /\ FlowInv(h)
  BY DEF DirectInv
<1>5. \A p \in Acc!Parts : Passed(h, p)' = Passed(h, p)
  BY <1>1, <1>2, <1>4 DEF Passed, StackInv
<1>6. (Sending(h)' <=> Sending(h)) /\ Done(h)' = Done(h)
  BY <1>1 DEF Sending, Done
<1>7. \A p \in Acc!Parts : /\ Sent(h, p)' = Sent(h, p) /\ Fetched(h, p)' = Fetched(h, p)
                           /\ Got(h, p)' = Got(h, p)
  BY <1>1, <1>2, <1>5, <1>6 DEF Sent, Fetched, Got
<1>8. FlowInv(h)'
  BY <1>3, <1>4, <1>7, FlowStays
<1>9. OutInv(h)'
  <2>1. Fetched(h, "real")' = Fetched(h, "real") /\ Fetched(h, "imag")' = Fetched(h, "imag")
    BY <1>7 DEF Acc!Parts
  <2> QED
    BY <1>1, <1>4, <2>1 DEF OutInv
<1>10. StackInv(h)'
  BY <1>1 DEF StackInv
<1> QED
  BY <1>1, <1>3, <1>8, <1>9, <1>10, DirectBut DEF DirectInv, OnHarts

LEMMA DirectLeave ==
  ASSUME Known, DirectInv, NEW h \in Harts, LeaveSection(h) PROVE DirectInv'
<1>1. /\ at[h] = "leave" /\ at'[h] = "outside"
      /\ todo'[h] = todo[h] - 1
      /\ \A g \in Harts \ {h} : at'[g] = at[g] /\ todo'[g] = todo[g]
      /\ UNCHANGED <<part, buff, out, notified, phase, accelVars>>
  BY DEF LeaveSection, Core!LeaveSection, engineVars, accelVars, Known, PlacesInv,
         Skeleton!TypeOK
<1>2. /\ \A g \in Harts : AccelSame(g)
      /\ \A g \in Harts \ {h} : Rests(g)
  BY <1>1 DEF Rests, AccelSame, accelVars
<1>3. StackInv(h) /\ OutInv(h) /\ FlowInv(h)
  BY DEF DirectInv
<1>4. /\ todo[h] \in 1 .. N + Fetches /\ N \in Nat \ {0} /\ Fetches \in Nat
      /\ part[h] = "real"
  <2>1. todo[h] \in 0 .. N + Fetches /\ todo[h] > 0
    BY <1>1, KnownOf
  <2> QED
    BY <1>1, <1>3, <2>1, DriverAssumption DEF StackInv
<1>5. \A p \in Acc!Parts : Passed(h, p) = 1 /\ Passed(h, p)' = 0
  BY <1>1, <1>4 DEF Passed
<1>6. /\ Done(h)' = Done(h) + 1
      /\ Sending(h) <=> todo[h] > Fetches
      /\ Sending(h)' <=> todo[h] - 1 > Fetches
      /\ Done(h) = N + Fetches - todo[h]
  BY <1>1, <1>4 DEF Done, Sending
<1>7. \A p \in Acc!Parts : Sent(h, p)' = Sent(h, p) /\ Fetched(h, p)' = Fetched(h, p)
  <2> TAKE p \in Acc!Parts
  <2>1. CASE ~Sending(h)
    BY <1>4, <1>5, <1>6, <2>1 DEF Sent, Fetched
  <2>2. CASE Sending(h) /\ Sending(h)'
    BY <1>4, <1>5, <1>6, <2>2 DEF Sent, Fetched
  <2>3. CASE Sending(h) /\ ~Sending(h)'
    <3>1. todo[h] = Fetches + 1 /\ Done(h) = N - 1
      BY <1>4, <1>6, <2>3
    <3> QED
      BY <1>4, <1>5, <1>6, <2>3, <3>1 DEF Sent, Fetched
  <2> QED
    BY <2>1, <2>2, <2>3
<1>8. \A p \in Acc!Parts : Got(h, p)' = Got(h, p)
  BY <1>1, <1>7 DEF Got
<1>9. FlowInv(h)'
  BY <1>2, <1>3, <1>7, <1>8, FlowStays
<1>10. OutInv(h)'
  <2>1. Fetched(h, "real")' = Fetched(h, "real") /\ Fetched(h, "imag")' = Fetched(h, "imag")
    BY <1>7 DEF Acc!Parts
  <2> QED
    BY <1>1, <1>3, <2>1 DEF OutInv
<1>11. StackInv(h)'
  BY <1>1, <1>4 DEF StackInv
<1> QED
  BY <1>1, <1>2, <1>9, <1>10, <1>11, DirectBut DEF DirectInv, OnHarts

(* The steps that move no word: buff is filled, printed past, clobbered. *)
LEMMA DirectStack ==
  ASSUME ~UsingDMA, Known, DirectInv, NEW h \in Harts,
         FillBuff(h) \/ PrintSample(h) \/ Clobber(h)
  PROVE  DirectInv'
<1>1. /\ \A g \in Harts \ {h} : at'[g] = at[g] /\ buff'[g] = buff[g]
      /\ UNCHANGED <<todo, part, out, notified, phase, accelVars>>
  BY DEF FillBuff, PrintSample, Clobber, Inside, GoOn, coreVars, engineVars, accelVars,
         Known, PlacesInv, DirectInv, OnHarts
<1>2. \/ at[h] = "enter" /\ at'[h] = "copy"
      \/ at[h] = "print" /\ at'[h] = "leave"
      \/ at[h] \in {"enter", "print", "leave"} /\ at'[h] = at[h]
  BY DEF FillBuff, PrintSample, Clobber, Inside, GoOn, Known, PlacesInv
<1>3. OnHarts(buff')
  BY DEF FillBuff, PrintSample, Clobber, DirectInv, OnHarts
<1>4. StackInv(h) /\ OutInv(h) /\ FlowInv(h)
  BY DEF DirectInv
<1>5. /\ \A g \in Harts : AccelSame(g)
      /\ \A g \in Harts \ {h} : Rests(g)
  BY <1>1 DEF Rests, AccelSame, accelVars
<1>6. \A p \in Acc!Parts : Passed(h, p)' = Passed(h, p)
  BY <1>1, <1>2 DEF Passed
<1>7. (Sending(h)' <=> Sending(h)) /\ Done(h)' = Done(h)
  BY <1>1 DEF Sending, Done
<1>8. \A p \in Acc!Parts : /\ Sent(h, p)' = Sent(h, p) /\ Fetched(h, p)' = Fetched(h, p)
                           /\ Got(h, p)' = Got(h, p)
  BY <1>1, <1>2, <1>6, <1>7 DEF Sent, Fetched, Got
<1>9. FlowInv(h)'
  BY <1>4, <1>5, <1>8, FlowStays
<1>10. OutInv(h)'
  <2>1. Fetched(h, "real")' = Fetched(h, "real") /\ Fetched(h, "imag")' = Fetched(h, "imag")
    BY <1>8 DEF Acc!Parts
  <2> QED
    BY <1>1, <1>4, <2>1 DEF OutInv
<1>11. StackInv(h)'
  <2>1. /\ at'[h] \in {"copy", "enter", "print", "leave"}
        /\ at'[h] \in {"print", "leave"} => part'[h] = "real"
    BY <1>1, <1>2, <1>4 DEF StackInv
  <2>2. at'[h] = "copy" /\ Sending(h)' => buff'[h] = Sample(h, part[h], Done(h) + 1)
    <3>1. CASE FillBuff(h)
      BY <1>7, <3>1 DEF FillBuff, DirectInv, OnHarts, Done
    <3>2. CASE ~FillBuff(h)
      BY <3>2 DEF PrintSample, Clobber, Inside, GoOn, Known, PlacesInv
    <3> QED
      BY <3>1, <3>2
  <2> QED
    BY <1>1, <1>7, <2>1, <2>2 DEF StackInv
<1> QED
  BY <1>1, <1>3, <1>5, <1>9, <1>10, <1>11, DirectBut DEF DirectInv, OnHarts

(* The next sample goes out, *)
LEMMA DirectCopyOut ==
  ASSUME Known, DirectInv, NEW h \in Harts, CopyOut(h) PROVE DirectInv'
<1>0. PICK p \in Acc!Parts : p = part[h]
  BY KnownOf
<1>1. /\ Sending(h) /\ at[h] = "copy" /\ Return(h)
      /\ Acc!PutSample(h, p, buff[h])
      /\ UNCHANGED <<todo, buff, out, notified, phase>>
  BY <1>0 DEF CopyOut, Inside, coreVars, engineVars
<1>2. /\ StackInv(h) /\ OutInv(h) /\ FlowInv(h)
      /\ todo[h] \in 0 .. N + Fetches
      /\ at[h] # "outside" => todo[h] > 0
  BY KnownOf DEF DirectInv
<1>3. /\ Passed(h, p) = 0
      /\ part'[h] \in Acc!Parts
      /\ \A q \in Acc!Parts : Passed(h, q)' = IF q = p THEN 1 ELSE Passed(h, q)
      /\ at'[h] \in {"enter", "print", "leave"}
      /\ at'[h] \in {"print", "leave"} => part'[h] = "real"
      /\ \A g \in Harts \ {h} : at'[g] = at[g] /\ part'[g] = part[g]
  BY <1>0, <1>1, ReturnCounts DEF Known
<1>4. /\ Done(h) \in Nat /\ N \in Nat
      /\ Done(h) + 1 <= N
  BY <1>1, <1>2, CountTypes, DriverAssumption
<1>5. (Sending(h)' <=> Sending(h)) /\ Done(h)' = Done(h)
  BY <1>1 DEF Sending, Done
<1>6. Sent(h, p) = Done(h) /\ Sent(h, p)' = Done(h) + 1
  BY <1>1, <1>2, <1>3, <1>4, <1>5 DEF Sent
<1>7. /\ \A q \in Acc!Parts \ {p} : Sent(h, q)' = Sent(h, q)
      /\ \A q \in Acc!Parts : /\ Fetched(h, q) = 0 /\ Fetched(h, q)' = 0
                              /\ Got(h, q) = 0 /\ Got(h, q)' = 0
  BY <1>1, <1>3, <1>5 DEF Sent, Fetched, Got
<1>8. /\ Gathered(h)
      /\ \A q \in Acc!Parts :
           Given(h, q) = Sent(h, q) /\ written[h][q] - Len(outFifo[h][q]) = Got(h, q)
  BY <1>2, <1>4, <1>6 DEF FlowInv
<1>9. buff[h] = Sample(h, p, Given(h, p) + 1)
  BY <1>0, <1>1, <1>2, <1>6, <1>8 DEF StackInv
<1>10. /\ Gathered(h)'
       /\ Given(h, p)' = Given(h, p) + 1
       /\ \A q \in Acc!Parts \ {p} : Given(h, q)' = Given(h, q)
       /\ UNCHANGED <<outFifo, written>>
  BY <1>1, <1>2, <1>8, <1>9, ContentPut DEF Known
<1>11. \A g \in Harts \ {h} : Rests(g)
  BY <1>1, <1>2, <1>3, PutEffect DEF Rests, Known, AccelInv
<1>12. FlowInv(h)'
  <2>1. \A q \in Acc!Parts :
          Given(h, q)' = Sent(h, q)' /\ written'[h][q] - Len(outFifo'[h][q]) = Got(h, q)'
    BY <1>6, <1>7, <1>8, <1>10
  <2> QED
    BY <1>10, <2>1 DEF FlowInv
<1>13. OutInv(h)'
  <2>1. /\ Fetched(h, "real")' = Fetched(h, "real")
        /\ Fetched(h, "imag")' = Fetched(h, "imag")
    BY <1>7 DEF Acc!Parts
  <2> QED
    BY <1>1, <1>2, <2>1 DEF OutInv
<1>14. StackInv(h)'
  BY <1>3 DEF StackInv
<1> QED
  BY <1>1, <1>11, <1>12, <1>13, <1>14, DirectBut DEF DirectInv, OnHarts

(* the next result comes in, *)
LEMMA DirectCopyIn ==
  ASSUME Known, DirectInv, NEW h \in Harts, CopyIn(h) PROVE DirectInv'
<1>0. PICK p \in Acc!Parts : p = part[h]
  BY KnownOf
<1>1. /\ ~Sending(h) /\ at[h] = "copy" /\ at'[h] = "load"
      /\ \A g \in Harts \ {h} : at'[g] = at[g] /\ buff'[g] = buff[g]
      /\ Acc!TakeResult(h, p)
      /\ buff'[h] = Acc!NextResult(h, p) /\ OnHarts(buff')
      /\ UNCHANGED <<todo, part, out, notified, phase>>
  BY <1>0 DEF CopyIn, Inside, GoOn, coreVars, engineVars, Known, PlacesInv, DirectInv, OnHarts
<1>2. /\ StackInv(h) /\ OutInv(h) /\ FlowInv(h)
      /\ todo[h] \in 0 .. N + Fetches
      /\ at[h] # "outside" => todo[h] > 0
  BY KnownOf DEF DirectInv
<1>3. /\ Len(outFifo[h][p]) > 0
      /\ Len(outFifo'[h][p]) = Len(outFifo[h][p]) - 1
      /\ \A q \in Acc!Parts \ {p} : outFifo'[h][q] = outFifo[h][q]
      /\ \A q \in Acc!Parts : Given(h, q)' = Given(h, q)
      /\ written' = written
      /\ Gathered(h) =>
           /\ Gathered(h)'
           /\ Acc!NextResult(h, p) =
                Acc!Result(Samples(h), p, written[h][p] - Len(outFifo[h][p]) + 1)
      /\ Finished(h) =>
           /\ Finished(h)'
           /\ Acc!NextResult(h, p) =
                Acc!Result(Samples(h), p, N - Len(outFifo[h][p]) + 1)
  BY <1>1, <1>2, ContentTake DEF Known
<1>4. \A g \in Harts \ {h} : Rests(g)
  BY <1>1, <1>2, TakeEffect DEF Rests, Known, AccelInv
<1>5. \A q \in Acc!Parts : Passed(h, q)' = Passed(h, q)
  BY <1>1 DEF Passed
<1>6. (Sending(h)' <=> Sending(h)) /\ Done(h)' = Done(h)
  BY <1>1 DEF Sending, Done
<1>7. \A q \in Acc!Parts : Sent(h, q)' = Sent(h, q) /\ Fetched(h, q)' = Fetched(h, q)
  BY <1>5, <1>6 DEF Sent, Fetched
<1>8. /\ Got(h, p) = Fetched(h, p) /\ Got(h, p)' = Fetched(h, p) + 1
      /\ \A q \in Acc!Parts \ {p} : Got(h, q)' = Got(h, q)
  BY <1>0, <1>1, <1>2, <1>7 DEF Got
<1>9. /\ Len(outFifo[h][p]) \in Nat /\ written[h][p] \in Nat /\ N \in Nat
      /\ Fetched(h, p) \in Nat
  BY <1>2, AccelLengths, CountTypes, DriverAssumption DEF Known, AccelInv
<1>10. FlowInv(h)' /\ buff'[h] = Acc!Result(Samples(h), p, Fetched(h, p) + 1)
  <2>1. CASE /\ Gathered(h)
             /\ \A q \in Acc!Parts :
                  /\ Given(h, q) = Sent(h, q)
                  /\ written[h][q] - Len(outFifo[h][q]) = Got(h, q)
    <3>1. written[h][p] - Len(outFifo[h][p]) = Fetched(h, p)
      BY <1>2, <1>8, <2>1
    <3>2. written'[h][p] - Len(outFifo'[h][p]) = Fetched(h, p) + 1
      BY <1>3, <1>9, <3>1
    <3>3. \A q \in Acc!Parts :
            Given(h, q)' = Sent(h, q)' /\ written'[h][q] - Len(outFifo'[h][q]) = Got(h, q)'
      BY <1>3, <1>7, <1>8, <2>1, <3>2
    <3>4. FlowInv(h)'
      BY <1>3, <2>1, <3>3 DEF FlowInv
    <3> QED
      BY <1>1, <1>3, <2>1, <3>1, <3>4
  <2>2. CASE /\ Finished(h)
             /\ \A q \in Acc!Parts :
                  Sent(h, q) = N /\ N - Len(outFifo[h][q]) = Got(h, q)
    <3>1. N - Len(outFifo[h][p]) = Fetched(h, p)
      BY <1>2, <1>8, <2>2
    <3>2. N - Len(outFifo'[h][p]) = Fetched(h, p) + 1
      BY <1>3, <1>9, <3>1
    <3>3. \A q \in Acc!Parts : Sent(h, q)' = N /\ N - Len(outFifo'[h][q]) = Got(h, q)'
      BY <1>3, <1>7, <1>8, <2>2, <3>2
    <3>4. FlowInv(h)'
      BY <1>3, <2>2, <3>3 DEF FlowInv
    <3> QED
      BY <1>1, <1>3, <2>2, <3>1, <3>4
  <2> QED
    BY <1>2, <2>1, <2>2 DEF FlowInv
<1>11. OutInv(h)'
  <2>1. /\ Fetched(h, "real")' = Fetched(h, "real")
        /\ Fetched(h, "imag")' = Fetched(h, "imag")
    BY <1>7 DEF Acc!Parts
  <2> QED
    BY <1>1, <1>2, <2>1 DEF OutInv
<1>12. StackInv(h)'
  <2>1. part'[h] = p /\ Fetched(h, p)' = Fetched(h, p)
    BY <1>0, <1>1, <1>2, <1>7
  <2>2. Fetched(h, part[h])' = Fetched(h, p)
    BY <2>1
  <2> QED
    BY <1>0, <1>1, <1>6, <1>10, <2>1, <2>2 DEF StackInv
<1> QED
  BY <1>1, <1>4, <1>10, <1>11, <1>12, DirectBut DEF DirectInv, OnHarts

(* and is stored behind the ones before it. *)
LEMMA DirectLoad ==
  ASSUME Known, DirectInv, NEW h \in Harts, Load(h) PROVE DirectInv'
<1>0. PICK p \in Acc!Parts : p = part[h]
  BY KnownOf
<1>1. /\ at[h] = "load" /\ Return(h)
      /\ out'[h] = Append(out[h], buff[h]) /\ OnHarts(out')
      /\ \A g \in Harts \ {h} : out'[g] = out[g]
      /\ UNCHANGED <<todo, buff, notified, phase, accelVars>>
  BY DEF Load, Inside, coreVars, engineVars, accelVars, DirectInv, OnHarts
<1>2. /\ StackInv(h) /\ OutInv(h) /\ FlowInv(h)
      /\ todo[h] \in 0 .. N + Fetches
      /\ at[h] # "outside" => todo[h] > 0
  BY KnownOf DEF DirectInv
<1>3. /\ Passed(h, p) = 0
      /\ part'[h] \in Acc!Parts
      /\ \A q \in Acc!Parts : Passed(h, q)' = IF q = p THEN 1 ELSE Passed(h, q)
      /\ at'[h] \in {"enter", "print", "leave"}
      /\ at'[h] \in {"print", "leave"} => part'[h] = "real"
      /\ \A g \in Harts \ {h} : at'[g] = at[g] /\ part'[g] = part[g]
  BY <1>0, <1>1, ReturnCounts DEF Known
<1>4. ~Sending(h) /\ buff[h] = Acc!Result(Samples(h), p, Fetched(h, p) + 1)
  BY <1>0, <1>1, <1>2 DEF StackInv
<1>5. (Sending(h)' <=> Sending(h)) /\ Done(h)' = Done(h)
  BY <1>1 DEF Sending, Done
<1>6. /\ \A q \in Acc!Parts : Fetched(h, q) \in Nat /\ Passed(h, q) \in {0, 1}
      /\ Done(h) \in Nat /\ N \in Nat
  BY <1>2, CountTypes, DriverAssumption
<1>7. /\ Fetched(h, p)' = Fetched(h, p) + 1
      /\ \A q \in Acc!Parts \ {p} : Fetched(h, q)' = Fetched(h, q)
      /\ \A q \in Acc!Parts : Sent(h, q)' = Sent(h, q)
  BY <1>2, <1>3, <1>4, <1>5, <1>6 DEF Fetched, Sent
<1>8. \A q \in Acc!Parts : Got(h, q)' = Got(h, q)
  <2>1. Got(h, p) = Fetched(h, p) + 1 /\ Got(h, p)' = Fetched(h, p)'
    BY <1>0, <1>1, <1>3 DEF Got
  <2>2. \A q \in Acc!Parts \ {p} : Got(h, q) = Fetched(h, q) /\ Got(h, q)' = Fetched(h, q)'
    BY <1>0, <1>3 DEF Got
  <2> QED
    BY <1>7, <2>1, <2>2
<1>9. /\ \A g \in Harts : AccelSame(g)
      /\ \A g \in Harts \ {h} : Rests(g)
  BY <1>1, <1>3 DEF Rests, AccelSame, accelVars
<1>10. FlowInv(h)'
  BY <1>2, <1>7, <1>8, <1>9, FlowStays
<1>11. StackInv(h)'
  BY <1>3 DEF StackInv
<1>12. OutInv(h)'
  <2> DEFINE s == out[h]
             Which(k) == IF k % 2 = 1 THEN "real" ELSE "imag"
             Place(k) == (k + 1) \div 2
             f == Fetched(h, "imag")
  <2>1. /\ IsSequence(s) /\ Len(s) \in Nat
        /\ Len(s) = Fetched(h, "real") + Fetched(h, "imag")
        /\ \A k \in 1 .. Len(s) : s[k] = Acc!Result(Samples(h), Which(k), Place(k))
    BY <1>2, SequenceLength DEF OutInv
  <2>2. /\ IsSequence(Append(s, buff[h]))
        /\ Len(Append(s, buff[h])) = Len(s) + 1
        /\ \A k \in 1 .. Len(s) : Append(s, buff[h])[k] = s[k]
        /\ Append(s, buff[h])[Len(s) + 1] = buff[h]
    BY <2>1, SequenceAppend
  <2>3. /\ f \in Nat
        /\ p = "real" => Fetched(h, "real") = f
        /\ p = "imag" => Fetched(h, "real") = f + 1
    <3>1. "real" \in Acc!Parts /\ "imag" \in Acc!Parts
      BY DEF Acc!Parts
    <3>2. /\ Fetched(h, "real") = Done(h) - N + Passed(h, "real")
          /\ Fetched(h, "imag") = Done(h) - N + Passed(h, "imag")
      BY <1>4 DEF Fetched
    <3>3. p = "real" => Passed(h, "real") = 0 /\ Passed(h, "imag") = 0
      BY <1>0, <1>1, <1>3 DEF Passed
    <3>4. p = "imag" => Passed(h, "real") = 1 /\ Passed(h, "imag") = 0
      BY <1>0, <1>1, <1>3 DEF Passed
    <3> QED
      BY <1>6, <3>1, <3>2, <3>3, <3>4
  <2>4. Which(Len(s) + 1) = p /\ Place(Len(s) + 1) = Fetched(h, p) + 1
    <3>1. CASE p = "real"
      <4>1. Len(s) + 1 = 2 * f + 1 /\ Fetched(h, p) = f
        BY <2>1, <2>3, <3>1
      <4>2. (2 * f + 1) % 2 = 1 /\ ((2 * f + 1) + 1) \div 2 = f + 1
        BY <2>3
      <4> QED
        BY <3>1, <4>1, <4>2
    <3>2. CASE p = "imag"
      <4>1. Len(s) + 1 = 2 * f + 2 /\ Fetched(h, p) = f
        BY <2>1, <2>3, <3>2
      <4>2. \A k \in Nat : k = 2 * f + 2 => k % 2 # 1 /\ (k + 1) \div 2 = f + 1
        BY <2>3
      <4>3. (Len(s) + 1) % 2 # 1 /\ ((Len(s) + 1) + 1) \div 2 = f + 1
        <5>1. Len(s) + 1 \in Nat
          BY <2>1
        <5> QED
          BY <4>1, <4>2, <5>1
      <4>4. Which(Len(s) + 1) = "imag"
        BY <4>3
      <4> QED
        BY <3>2, <4>1, <4>3, <4>4
    <3> QED
      BY <1>2, <3>1, <3>2 DEF Acc!Parts
  <2>5. Len(s) + 1 = Fetched(h, "real")' + Fetched(h, "imag")'
    <3>1. "real" \in Acc!Parts /\ "imag" \in Acc!Parts /\ p \in {"real", "imag"}
      BY <1>2 DEF Acc!Parts
    <3>2. CASE p = "real"
      BY <1>6, <1>7, <2>1, <3>1, <3>2
    <3>3. CASE p = "imag"
      BY <1>6, <1>7, <2>1, <3>1, <3>3
    <3> QED
      BY <3>1, <3>2, <3>3
  <2> HIDE DEF s, Which, Place
  <2>6. \A k \in 1 .. Len(s) + 1 :
          Append(s, buff[h])[k] = Acc!Result(Samples(h), Which(k), Place(k))
    <3>1. Append(s, buff[h])[Len(s) + 1] =
            Acc!Result(Samples(h), Which(Len(s) + 1), Place(Len(s) + 1))
      BY <1>4, <2>2, <2>4
    <3>2. \A k \in 1 .. Len(s) + 1 : k \in 1 .. Len(s) \/ k = Len(s) + 1
      BY <2>1
    <3> QED
      BY <2>1, <2>2, <3>1, <3>2
  <2>7. out'[h] = Append(s, buff[h])
    BY <1>1 DEF s
  <2> QED
    BY <2>2, <2>5, <2>6, <2>7 DEF OutInv, Which, Place
<1> QED
  BY <1>1, <1>9, <1>10, <1>11, <1>12, DirectBut DEF DirectInv, OnHarts

LEMMA DirectAccel ==
  ASSUME Known, DirectInv, NEW h \in Harts, AccelStep(h) PROVE DirectInv'
<1>1. /\ Acc!DoFft(h)
      /\ UNCHANGED <<todo, at, part, buff, out, notified, phase>>
  BY DEF AccelStep, coreVars, engineVars, driverVars
<1>2. \A g \in Harts \ {h} : Rests(g)
  <2>1. \A g \in Harts \ {h} : AccelSame(g)
    BY <1>1, DoFftFrame DEF Known, AccelInv
  <2> QED
    BY <1>1, <2>1 DEF Rests
<1>3. /\ StackInv(h) /\ OutInv(h) /\ FlowInv(h)
      /\ part[h] \in Acc!Parts /\ todo[h] \in 0 .. N + Fetches
      /\ at[h] # "outside" => todo[h] > 0
  BY KnownOf DEF DirectInv
<1>4. /\ Sending(h)' = Sending(h) /\ Done(h)' = Done(h)
      /\ \A p \in Acc!Parts :
           /\ Passed(h, p)' = Passed(h, p) /\ Sent(h, p)' = Sent(h, p)
           /\ Fetched(h, p)' = Fetched(h, p) /\ Got(h, p)' = Got(h, p)
  BY <1>1, CountsOf
<1>5. \A p \in Acc!Parts : Sent(h, p) \in 0 .. N
  BY <1>3, CountTypes
<1>6. FlowInv(h)'
  BY <1>1, <1>3, <1>4, <1>5, FlowDoFft DEF Known
<1>7. OutInv(h)'
  <2>1. /\ Fetched(h, "real")' = Fetched(h, "real")
        /\ Fetched(h, "imag")' = Fetched(h, "imag")
    BY <1>4 DEF Acc!Parts
  <2> QED
    BY <1>1, <1>3, <2>1 DEF OutInv
<1>8. StackInv(h)'
  <2>1. Fetched(h, part[h])' = Fetched(h, part[h])
    BY <1>1, <1>3, <1>4
  <2> QED
    BY <1>1, <1>3, <1>4, <2>1 DEF StackInv
<1> QED
  BY <1>1, <1>2, <1>6, <1>7, <1>8, DirectBut DEF DirectInv, OnHarts

LEMMA DirectStep ==
  ASSUME ~UsingDMA, Known, DirectInv, [Next]_vars PROVE DirectInv'
<1>1. CASE UNCHANGED vars
  <2>1. \A g \in Harts : Rests(g)
    BY <1>1 DEF vars, coreVars, accelVars, driverVars, Rests, AccelSame
  <2>2. \A g \in Harts : StackInv(g)' /\ OutInv(g)' /\ FlowInv(g)'
    BY <2>1, KnownOf, HartRests DEF DirectInv
  <2> QED
    BY <1>1, <2>2 DEF DirectInv, EngineIdle, OnHarts, vars, engineVars, driverVars
<1>2. CASE EngineStep
  <2>1. ~notified /\ phase = "waiting"
    BY DEF DirectInv, EngineIdle
  <2> QED
    BY <1>2, <2>1 DEF EngineStep, DMA!Fire, DMA!Dispatch, DMA!Interrupt, BusWait,
         NotReady, BusRead, DMA!ReadBlock, BusWrite, DMA!WriteBlock
<1>3. ASSUME NEW h \in Harts, Step(h) PROVE DirectInv'
  <2>1. CASE StoreSrc(h) \/ StoreDst(h) \/ StoreLen(h) \/ StoreOp(h)
    BY <2>1 DEF StoreSrc, StoreDst, StoreLen, StoreOp, Inside, DirectInv, StackInv
  <2> QED
    BY <1>3, <2>1, DirectOutside, DirectEnter, DirectLeave, DirectStack,
       DirectCopyOut, DirectCopyIn, DirectLoad DEF Step
<1>4. ASSUME NEW h \in Harts, AccelStep(h) \/ Clobber(h) PROVE DirectInv'
  BY <1>4, DirectAccel, DirectStack
<1> QED
  BY <1>1, <1>2, <1>3, <1>4 DEF Next

(* A hart comes to the barrier with no section left to do. *)
ArrivedInv == \A h \in Harts : Core!Arrived(h) => todo[h] = 0

LEMMA ArrivedInit == Init => ArrivedInv
BY DEF Init, Core!Init, ArrivedInv, Core!Arrived, Core!Inside, Core!Beyond

LEMMA ArrivedStep ==
  ASSUME Skeleton!TypeOK, ArrivedInv, [Skeleton!Next]_(Skeleton!vars)
  PROVE  ArrivedInv'
<1> USE DEF ArrivedInv, Core!Arrived, Core!Inside, Core!Beyond
<1>1. CASE UNCHANGED Skeleton!vars
  BY <1>1 DEF Skeleton!vars
<1>2. ASSUME NEW h \in Harts, Skeleton!Step(h) PROVE ArrivedInv'
  <2> USE DEF Skeleton!TypeOK, Skeleton!Goto
  <2>1. CASE Skeleton!InitBarrierLock \/ Skeleton!InitBarrierSem \/ Skeleton!InitLock
    BY <2>1 DEF Skeleton!InitBarrierLock, Skeleton!InitBarrierSem, Skeleton!InitLock
  <2>2. CASE Skeleton!EnterSection(h) \/ Skeleton!LeaveSection(h)
    BY <2>2 DEF Skeleton!EnterSection, Skeleton!LeaveSection
  <2>3. CASE Skeleton!Barrier(h)
    BY <2>3 DEF Skeleton!Barrier, Skeleton!BarrierEnter, Skeleton!BarrierTest,
         Skeleton!BarrierReset, Skeleton!BarrierUnlockLast,
         Skeleton!BarrierRelease, Skeleton!BarrierReleased,
         Skeleton!BarrierCount, Skeleton!BarrierUnlock, Skeleton!BarrierGate
  <2>4. CASE \/ Skeleton!EnterPrint(h) \/ Skeleton!LeavePrint(h)
             \/ Skeleton!CountExit(h) \/ Skeleton!SysExit(h)
    BY <2>4 DEF Skeleton!EnterPrint, Skeleton!LeavePrint, Skeleton!CountExit,
         Skeleton!SysExit
  <2> QED
    BY <1>2, <2>1, <2>2, <2>3, <2>4 DEF Skeleton!Step
<1> QED
  BY <1>1, <1>2 DEF Skeleton!Next

LEMMA ArrivedAlways == Spec => []ArrivedInv
BY SkeletonTypeOK, SkeletonStep, ArrivedInit, ArrivedStep, PTL DEF Spec

(* What DirectInv says of a hart that has nothing left to do. *)
LEMMA DirectResults ==
  ASSUME Known, DirectInv, ArrivedInv PROVE ResultsCorrect
<1> SUFFICES ASSUME NEW h \in Harts, Core!Arrived(h) PROVE out[h] = Expected(h)
  BY DEF ResultsCorrect
<1>1. todo[h] = 0 /\ at[h] = "outside"
  BY DEF ArrivedInv, Core!Arrived, Core!Inside, Core!Beyond, Known, PlacesInv
<1>2. N \in Nat \ {0} /\ Fetches \in Nat
  BY DriverAssumption
<1>3. StackInv(h) /\ OutInv(h)
  BY DEF DirectInv
<1>4. part[h] = "real" /\ ~Sending(h) /\ Done(h) = N + Fetches
  BY <1>1, <1>2, <1>3 DEF StackInv, Sending, Done
<1>5. Fetched(h, "real") = Fetches /\ Fetched(h, "imag") = Fetches
  BY <1>1, <1>2, <1>4 DEF Fetched, Passed
<1>6. Len(out[h]) = 2 * Fetches
  BY <1>2, <1>3, <1>5 DEF OutInv
<1>7. out[h] = [k \in 1 .. 2 * Fetches |-> out[h][k]]
  BY <1>3, <1>6, SequenceLength DEF OutInv
<1>8. \A k \in 1 .. 2 * Fetches :
        out[h][k] = Acc!Result(Samples(h), IF k % 2 = 1 THEN "real" ELSE "imag",
                               (k + 1) \div 2)
  BY <1>3, <1>6 DEF OutInv
<1>9. Expected(h) = [k \in 1 .. 2 * Fetches |->
                       Acc!Result(Samples(h), IF k % 2 = 1 THEN "real" ELSE "imag",
                                  (k + 1) \div 2)]
  BY DEF Expected, Samples
<1> QED
  BY <1>7, <1>8, <1>9

(* Without the engine the program gets the right results, whatever the     *)
(* number of harts and samples, however small the FIFOs, and whenever the  *)
(* harts and their accelerators move: no word is lost, doubled, reordered  *)
(* or taken from another hart.                                             *)
THEOREM ResultsAlwaysCorrect == ~UsingDMA /\ Spec => []ResultsCorrect
<1>1. ~UsingDMA => (Known /\ DirectInv /\ [Next]_vars => DirectInv')
  BY DirectStep
<1>2. Known /\ DirectInv /\ ArrivedInv => ResultsCorrect
  BY DirectResults
<1>3. Spec => []Known
  BY SkeletonTypeOK, PlacesAlways, AccelAlways, PTL DEF Known
<1>4. CASE UsingDMA
  BY <1>4
<1>5. CASE ~UsingDMA
  <2>1. Known /\ DirectInv /\ [Next]_vars => DirectInv'
    BY <1>1, <1>5
  <2> QED
    BY <1>2, <1>3, <2>1, DirectInit, ArrivedAlways, PTL DEF Spec
<1> QED
  BY <1>4, <1>5
=============================================================================
