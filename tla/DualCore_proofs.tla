--------------------------- MODULE DualCore_proofs ---------------------------
(***************************************************************************)
(* The dual-core skeleton is correct for every finite set of harts and     *)
(* every number of locked sections: the barrier holds and leaves its       *)
(* objects as it found them, sections exclude each other, and the          *)
(* simulation is stopped only after every hart has returned.               *)
(***************************************************************************)
EXTENDS DualCore, FiniteSetTheorems, TLAPS

Passed  == {h \in Harts : pc[h] \in Beyond}
Counted == {h \in Harts : pc[h] \in {"unlock", "gate"}}
Exited  == {h \in Harts : pc[h] = "exit"}

(* lock is free only when it has been initialised and nobody is inside. *)
LockInv ==
  /\ sem.lock \in {0, 1}
  /\ SectionsExclude
  /\ sem.lock = 1 => pc[Boot] \notin Initialising
  /\ sem.lock = 1 => \A h \in Harts : ~InSection(h)
  /\ pc[Boot] \in Initialising => \A h \in Harts : ~InSection(h)

(* The same for barrier_lock, which is never lost either. *)
BarrierLockInv ==
  /\ sem.barrierLock \in {0, 1}
  /\ \A g, h \in Harts : pc[g] \in Inside /\ pc[h] \in Inside => g = h
  /\ sem.barrierLock = 1 => pc[Boot] # "init1"
  /\ sem.barrierLock = 1 => \A h \in Harts : pc[h] \notin Inside
  /\ pc[Boot] = "init1" => \A h \in Harts : pc[h] \notin Inside
  /\ sem.barrierLock = 0 => pc[Boot] = "init1" \/ \E h \in Harts : pc[h] \in Inside

(* The barrier goes through three phases.  While harts gather, the counter *)
(* counts those that have been through it and the gate is shut.            *)
Gathering ==
  /\ \A h \in Harts : pc[h] \notin {"reset", "unlockLast", "release"} \union Beyond
  /\ sem.barrierSem = 0
  /\ counter = Cardinality(Counted)
  /\ \A h \in Harts : pc[h] = "count" => reg[h] = counter

(* Then the last hart opens the gate: the tokens it has posted are in the  *)
(* semaphore or were used by a hart that passed.                           *)
OpenedBy(l) ==
  /\ pc[l] \in {"reset", "unlockLast", "release"}
  /\ \A h \in Harts \ {l} : pc[h] \in {"gate"} \union Beyond
  /\ pc[l] # "reset" => counter = 0
  /\ pc[l] # "release" => sem.barrierSem = 0 /\ Cardinality(Passed) = 0
  /\ pc[l] = "release" => /\ sem.barrierSem + Cardinality(Passed) = reg[l]
                          /\ reg[l] <= Processors - 1

Opening == \E l \in Harts : OpenedBy(l)

(* Finally every token is posted and the others pass, one token each. *)
Draining ==
  /\ \A h \in Harts : pc[h] \in {"gate"} \union Beyond
  /\ counter = 0
  /\ sem.barrierSem + Cardinality(Passed) = Processors

BarrierInv == Gathering \/ Opening \/ Draining

(* The old value each hart took from exit_counter is below what it is now. *)
ExitInv ==
  /\ exitCounter = Cardinality(Exited)
  /\ \A h \in Harts : pc[h] = "exit" => reg[h] < exitCounter
  /\ ExitAfterAll
-----------------------------------------------------------------------------
LEMMA ProcessorsType ==
  /\ Processors \in Nat \ {0}
  /\ \A S \in SUBSET Harts : IsFiniteSet(S) /\ Cardinality(S) \in 0 .. Processors
<1>1. IsFiniteSet(Harts) /\ Processors \in Nat
  BY DualCoreAssumption, FS_CardinalityType DEF Processors
<1>2. Processors # 0
  BY <1>1, DualCoreAssumption, FS_EmptySet DEF Processors
<1>3. ASSUME NEW S \in SUBSET Harts
      PROVE  IsFiniteSet(S) /\ Cardinality(S) \in 0 .. Processors
  <2>1. IsFiniteSet(S) /\ Cardinality(S) <= Processors
    BY <1>1, FS_Subset DEF Processors
  <2>2. Cardinality(S) \in Nat
    BY <2>1, FS_CardinalityType
  <2> QED
    BY <1>1, <2>1, <2>2
<1> QED
  BY <1>1, <1>2, <1>3

LEMMA TypeInit == Init => TypeOK
<1> SUFFICES ASSUME Init PROVE TypeOK
  OBVIOUS
<1>1. halted \in BOOLEAN
  BY DEF Init
<1>2. todo \in [Harts -> 0 .. Sections]
  BY DualCoreAssumption DEF Init
<1> QED
  BY <1>1, <1>2, DualCoreAssumption DEF Init, TypeOK, PC, Initialising, Semaphores

(* Every step keeps every variable in its type. *)
LEMMA TypeStep == ASSUME TypeOK, [Next]_vars PROVE TypeOK'
<1> USE DualCoreAssumption, ProcessorsType
    DEF TypeOK, PC, Initialising, Inside, Beyond, Goto, Wait, Post, SemInit, Semaphores
<1>1. CASE UNCHANGED vars
  BY <1>1 DEF vars
<1>2. ASSUME NEW h \in Harts, Step(h) PROVE TypeOK'
  <2>1. CASE InitBarrierLock \/ InitBarrierSem \/ InitLock
    BY <2>1 DEF InitBarrierLock, InitBarrierSem, InitLock
  <2>2. CASE EnterSection(h) \/ LeaveSection(h)
    BY <2>2 DEF EnterSection, LeaveSection
  <2>3. CASE BarrierEnter(h) \/ BarrierTest(h)
    BY <2>3 DEF BarrierEnter, BarrierTest
  <2>4. CASE BarrierReset(h) \/ BarrierUnlockLast(h)
    BY <2>4 DEF BarrierReset, BarrierUnlockLast
  <2>5. CASE BarrierRelease(h) \/ BarrierReleased(h)
    BY <2>5 DEF BarrierRelease, BarrierReleased
  <2>6. CASE BarrierCount(h) \/ BarrierUnlock(h) \/ BarrierGate(h)
    BY <2>6 DEF BarrierCount, BarrierUnlock, BarrierGate
  <2>7. CASE EnterPrint(h) \/ LeavePrint(h)
    BY <2>7 DEF EnterPrint, LeavePrint
  <2>8. CASE CountExit(h)
    BY <2>8 DEF CountExit
  <2>9. CASE SysExit(h)
    BY <2>9 DEF SysExit
  <2> QED
    BY <1>2, <2>1, <2>2, <2>3, <2>4, <2>5, <2>6, <2>7, <2>8, <2>9 DEF Step, Barrier
<1> QED
  BY <1>1, <1>2 DEF Next

(* The type invariant of the skeleton. *)
THEOREM TypeCorrect == Spec => []TypeOK
BY TypeInit, TypeStep, PTL DEF Spec
-----------------------------------------------------------------------------
LEMMA LockInit == Init => LockInv
BY DualCoreAssumption DEF Init, LockInv, SectionsExclude, InSection, Initialising, Semaphores

LEMMA LockStep == ASSUME TypeOK, LockInv, [Next]_vars PROVE LockInv'
<1> USE DualCoreAssumption
    DEF TypeOK, LockInv, SectionsExclude, InSection, PC, Initialising, Inside,
        Beyond, Goto, Wait, Post, SemInit, Semaphores
<1>1. CASE UNCHANGED vars
  BY <1>1 DEF vars
<1>2. ASSUME NEW h \in Harts, Step(h) PROVE LockInv'
  <2>1. CASE InitBarrierLock \/ InitBarrierSem
    BY <2>1 DEF InitBarrierLock, InitBarrierSem
  <2>2. CASE InitLock
    BY <2>2 DEF InitLock
  <2>3. CASE EnterSection(h) \/ EnterPrint(h)
    BY <2>3 DEF EnterSection, EnterPrint
  <2>4. CASE LeaveSection(h) \/ LeavePrint(h)
    BY <2>4 DEF LeaveSection, LeavePrint
  <2>5. CASE BarrierEnter(h) \/ BarrierTest(h) \/ BarrierReset(h) \/ BarrierUnlockLast(h)
    BY <2>5 DEF BarrierEnter, BarrierTest, BarrierReset, BarrierUnlockLast
  <2>6. CASE BarrierRelease(h) \/ BarrierReleased(h)
    BY <2>6 DEF BarrierRelease, BarrierReleased
  <2>7. CASE BarrierCount(h) \/ BarrierUnlock(h) \/ BarrierGate(h)
    BY <2>7 DEF BarrierCount, BarrierUnlock, BarrierGate
  <2>8. CASE CountExit(h) \/ SysExit(h)
    BY <2>8 DEF CountExit, SysExit
  <2> QED
    BY <1>2, <2>1, <2>2, <2>3, <2>4, <2>5, <2>6, <2>7, <2>8 DEF Step, Barrier
<1> QED
  BY <1>1, <1>2 DEF Next

(* No two harts are ever in locked sections together, for any number of    *)
(* harts, wherever hart 0 is in its initialisation.                        *)
THEOREM SectionsExcludeAlways == Spec => []SectionsExclude
<1>1. LockInv => SectionsExclude
  BY DEF LockInv
<1> QED
  BY <1>1, LockInit, LockStep, TypeCorrect, PTL DEF Spec
-----------------------------------------------------------------------------
LEMMA BarrierLockInit == Init => BarrierLockInv
BY DualCoreAssumption DEF Init, BarrierLockInv, Inside, Semaphores

LEMMA BarrierLockStep ==
  ASSUME TypeOK, BarrierLockInv, [Next]_vars PROVE BarrierLockInv'
<1> USE DualCoreAssumption
    DEF TypeOK, BarrierLockInv, PC, Initialising, Inside,
        Beyond, Goto, Wait, Post, SemInit, Semaphores
<1>1. CASE UNCHANGED vars
  BY <1>1 DEF vars
<1>2. ASSUME NEW h \in Harts, Step(h) PROVE BarrierLockInv'
  <2>1. CASE InitBarrierLock
    BY <2>1 DEF InitBarrierLock
  <2>2. CASE InitBarrierSem \/ InitLock
    BY <2>2 DEF InitBarrierSem, InitLock
  <2>3. CASE EnterSection(h) \/ EnterPrint(h) \/ LeaveSection(h) \/ LeavePrint(h)
    BY <2>3 DEF EnterSection, EnterPrint, LeaveSection, LeavePrint
  <2>4. CASE BarrierEnter(h)
    BY <2>4 DEF BarrierEnter
  <2>5. CASE BarrierTest(h)
    BY <2>5 DEF BarrierTest
  <2>6. CASE BarrierReset(h) \/ BarrierCount(h)
    BY <2>6 DEF BarrierReset, BarrierCount
  <2>7. CASE BarrierUnlock(h) \/ BarrierUnlockLast(h)
    BY <2>7 DEF BarrierUnlock, BarrierUnlockLast
  <2>8. CASE BarrierRelease(h) \/ BarrierReleased(h) \/ BarrierGate(h)
    BY <2>8 DEF BarrierRelease, BarrierReleased, BarrierGate
  <2>9. CASE CountExit(h) \/ SysExit(h)
    BY <2>9 DEF CountExit, SysExit
  <2> QED
    BY <1>2, <2>1, <2>2, <2>3, <2>4, <2>5, <2>6, <2>7, <2>8, <2>9 DEF Step, Barrier
<1> QED
  BY <1>1, <1>2 DEF Next
-----------------------------------------------------------------------------
LEMMA BarrierInit == Init => BarrierInv
<1> SUFFICES ASSUME Init PROVE Gathering
  BY DEF BarrierInv
<1>1. Counted = {}
  BY DEF Init, Counted
<1>2. Cardinality(Counted) = 0
  BY <1>1, FS_EmptySet
<1> QED
  BY <1>2 DEF Init, Gathering, Beyond, Semaphores

(* A step that moves one hart between two places the barrier's invariant   *)
(* does not tell apart, and leaves the barrier's objects alone.            *)
LEMMA OutsideStep ==
  ASSUME TypeOK, BarrierInv, NEW h \in Harts, NEW to \in PC,
         pc' = [pc EXCEPT ![h] = to],
         \/ /\ pc[h] \in Initialising \union {"loop", "section"}
            /\ to \in Initialising \union {"loop", "section", "test"}
         \/ pc[h] \in Beyond /\ to \in Beyond,
         sem'["barrierSem"] = sem["barrierSem"], counter' = counter,
         pc[h] \notin Beyond => reg' = reg,
         \A g \in Harts \ {h} : reg'[g] = reg[g]
  PROVE  BarrierInv'
<1> USE DEF TypeOK, PC, Initialising, Inside, Beyond
<1>1. Counted' = Counted /\ Passed' = Passed
  BY DEF Counted, Passed
<1>2. CASE Gathering
  <2>1. Gathering'
    BY <1>1, <1>2 DEF Gathering
  <2> QED
    BY <2>1 DEF BarrierInv
<1>3. ASSUME NEW l \in Harts, OpenedBy(l) PROVE BarrierInv'
  <2>1. h # l /\ pc[h] \in Beyond
    BY <1>3 DEF OpenedBy
  <2>2. OpenedBy(l)'
    BY <1>1, <1>3, <2>1 DEF OpenedBy
  <2> QED
    BY <2>2 DEF BarrierInv, Opening
<1>4. CASE Draining
  <2>1. Draining'
    BY <1>1, <1>4 DEF Draining
  <2> QED
    BY <2>1 DEF BarrierInv
<1> QED
  BY <1>2, <1>3, <1>4 DEF BarrierInv, Opening

(* The test of the counter: the hart that finds thread_count - 1 is alone  *)
(* outside the gate.                                                       *)
LEMMA TestStep ==
  ASSUME TypeOK, BarrierLockInv, BarrierInv, NEW h \in Harts, BarrierTest(h)
  PROVE  BarrierInv'
<1> USE DEF TypeOK, PC, Initialising, Inside, Beyond, BarrierTest, Goto
<1>1. Gathering
  BY DEF BarrierInv, Opening, OpenedBy, Draining
<1>2. CASE counter = Processors - 1
  <2>1. Counted \subseteq Harts \ {h}
    BY DEF Counted
  <2>2. IsFiniteSet(Harts \ {h}) /\ Cardinality(Harts \ {h}) = Processors - 1
    BY DualCoreAssumption, FS_RemoveElement DEF Processors
  <2>3. Counted = Harts \ {h}
    BY <1>1, <1>2, <2>1, <2>2, FS_Subset DEF Gathering
  <2>4. \A g \in Harts \ {h} : pc[g] = "gate"
    BY <2>3 DEF Counted, BarrierLockInv
  <2>5. Passed' = {}
    BY <1>1, <1>2, <2>4 DEF Passed
  <2>6. Cardinality(Passed') = 0
    BY <2>5, FS_EmptySet
  <2>7. OpenedBy(h)'
    BY <1>1, <1>2, <2>4, <2>6 DEF OpenedBy, Gathering
  <2> QED
    BY <2>7 DEF BarrierInv, Opening
<1>3. CASE counter # Processors - 1
  <2>1. Counted' = Counted
    BY <1>3 DEF Counted
  <2>2. Gathering'
    BY <1>1, <1>3, <2>1 DEF Gathering
  <2> QED
    BY <2>2 DEF BarrierInv
<1> QED
  BY <1>2, <1>3

(* The increment of the counter: the value loaded by the test is still in  *)
(* memory, because barrier_lock is held.                                   *)
LEMMA CountStep ==
  ASSUME TypeOK, BarrierLockInv, BarrierInv, NEW h \in Harts, BarrierCount(h)
  PROVE  BarrierInv'
<1> USE DEF TypeOK, PC, Initialising, Inside, Beyond, BarrierCount, Goto
<1>1. Gathering /\ reg[h] = counter
  BY DEF BarrierInv, Opening, OpenedBy, Draining, Gathering
<1>2. Counted' = Counted \cup {h} /\ h \notin Counted
  BY DEF Counted
<1>3. IsFiniteSet(Counted) /\ Cardinality(Counted) \in Nat
  BY ProcessorsType DEF Counted
<1>4. Cardinality(Counted') = Cardinality(Counted) + 1
  BY <1>2, <1>3, FS_AddElement
<1>5. \A g \in Harts : pc'[g] # "count"
  BY DEF BarrierLockInv
<1>6. Gathering'
  BY <1>1, <1>4, <1>5 DEF Gathering
<1> QED
  BY <1>6 DEF BarrierInv

(* A hart leaves barrier_lock for the gate. *)
LEMMA UnlockStep ==
  ASSUME TypeOK, BarrierInv, NEW h \in Harts, BarrierUnlock(h)
  PROVE  BarrierInv'
<1> USE DEF TypeOK, PC, Initialising, Inside, Beyond, BarrierUnlock, Goto,
            Post, Semaphores
<1>1. Gathering
  BY DEF BarrierInv, Opening, OpenedBy, Draining
<1>2. Counted' = Counted
  BY DEF Counted
<1>3. Gathering'
  BY <1>1, <1>2 DEF Gathering
<1> QED
  BY <1>3 DEF BarrierInv

(* The last hart: it resets the counter, unlocks, posts and goes on. *)
LEMMA LastStep ==
  ASSUME TypeOK, BarrierInv, NEW h \in Harts,
         \/ BarrierReset(h) \/ BarrierUnlockLast(h)
         \/ BarrierRelease(h) \/ BarrierReleased(h)
  PROVE  BarrierInv'
<1> USE ProcessorsType DEF TypeOK, PC, Initialising, Inside, Beyond, Goto, Post,
                           Semaphores
<1>1. pc[h] \in {"reset", "unlockLast", "release"}
  BY DEF BarrierReset, BarrierUnlockLast, BarrierRelease, BarrierReleased
<1>2. OpenedBy(h)
  BY <1>1 DEF BarrierInv, Gathering, Opening, OpenedBy, Draining
<1>3. Passed \in SUBSET Harts /\ h \notin Passed
  BY <1>1 DEF Passed
<1>4. IsFiniteSet(Passed) /\ Cardinality(Passed) \in Nat
  BY <1>3
<1>5. CASE BarrierReset(h)
  <2>1. Passed' = Passed
    BY <1>5 DEF BarrierReset, Passed
  <2>2. OpenedBy(h)'
    BY <1>2, <1>5, <2>1 DEF BarrierReset, OpenedBy
  <2> QED
    BY <2>2 DEF BarrierInv, Opening
<1>6. CASE BarrierUnlockLast(h)
  <2>1. Passed' = Passed
    BY <1>6 DEF BarrierUnlockLast, Passed
  <2>2. OpenedBy(h)'
    BY <1>2, <1>6, <2>1 DEF BarrierUnlockLast, OpenedBy
  <2> QED
    BY <2>2 DEF BarrierInv, Opening
<1>7. CASE BarrierRelease(h)
  <2>1. Passed' = Passed
    BY <1>7 DEF BarrierRelease, Passed
  <2>2. OpenedBy(h)'
    BY <1>2, <1>4, <1>7, <2>1 DEF BarrierRelease, OpenedBy
  <2> QED
    BY <2>2 DEF BarrierInv, Opening
<1>8. CASE BarrierReleased(h)
  <2>1. Passed' = Passed \cup {h}
    BY <1>8 DEF BarrierReleased, Passed
  <2>2. Cardinality(Passed') = Cardinality(Passed) + 1
    BY <1>3, <1>4, <2>1, FS_AddElement
  <2>3. Draining'
    BY <1>2, <1>4, <1>8, <2>2 DEF BarrierReleased, OpenedBy, Draining
  <2> QED
    BY <2>3 DEF BarrierInv
<1> QED
  BY <1>5, <1>6, <1>7, <1>8

(* A hart passes the gate with one token. *)
LEMMA GateStep ==
  ASSUME TypeOK, BarrierInv, NEW h \in Harts, BarrierGate(h)
  PROVE  BarrierInv'
<1> USE DEF TypeOK, PC, Initialising, Inside, Beyond, Goto, Wait, Semaphores,
            BarrierGate
<1>1. Passed \in SUBSET Harts /\ h \notin Passed /\ Passed' = Passed \cup {h}
  BY DEF Passed
<1>2. IsFiniteSet(Passed) /\ Cardinality(Passed) \in Nat
  BY <1>1, ProcessorsType
<1>3. Cardinality(Passed') = Cardinality(Passed) + 1
  BY <1>1, <1>2, FS_AddElement
<1>4. ~Gathering
  BY DEF Gathering
<1>5. ASSUME NEW l \in Harts, OpenedBy(l) PROVE BarrierInv'
  <2>1. l # h /\ pc[l] = "release"
    BY <1>5 DEF OpenedBy
  <2>2. OpenedBy(l)'
    BY <1>2, <1>3, <1>5, <2>1 DEF OpenedBy
  <2> QED
    BY <2>2 DEF BarrierInv, Opening
<1>6. CASE Draining
  <2>1. Draining'
    BY <1>2, <1>3, <1>6 DEF Draining
  <2> QED
    BY <2>1 DEF BarrierInv
<1> QED
  BY <1>4, <1>5, <1>6 DEF BarrierInv, Opening

LEMMA BarrierStep ==
  ASSUME TypeOK, BarrierLockInv, BarrierInv, [Next]_vars PROVE BarrierInv'
<1>1. CASE UNCHANGED vars
  BY <1>1 DEF vars, BarrierInv, Gathering, Opening, OpenedBy, Draining,
              Counted, Passed
<1>2. ASSUME NEW h \in Harts, Step(h) PROVE BarrierInv'
  <2> USE DEF TypeOK, PC, Initialising, Inside, Beyond, Goto, Wait, Post,
              SemInit, Semaphores
  <2>1. CASE InitBarrierLock
    BY <2>1, DualCoreAssumption, OutsideStep DEF InitBarrierLock
  <2>2. CASE InitBarrierSem
    <3>1. Gathering
      BY <2>2, DualCoreAssumption
         DEF InitBarrierSem, BarrierInv, Opening, OpenedBy, Draining
    <3>2. sem'["barrierSem"] = sem["barrierSem"]
      BY <2>2, <3>1 DEF InitBarrierSem, Gathering
    <3> QED
      BY <2>2, <3>2, DualCoreAssumption, OutsideStep DEF InitBarrierSem
  <2>3. CASE InitLock
    BY <2>3, DualCoreAssumption, OutsideStep DEF InitLock
  <2>4. CASE EnterSection(h)
    BY <2>4, OutsideStep DEF EnterSection
  <2>5. CASE LeaveSection(h)
    BY <2>5, OutsideStep DEF LeaveSection
  <2>6. CASE BarrierEnter(h)
    BY <2>6, OutsideStep DEF BarrierEnter
  <2>7. CASE BarrierTest(h)
    BY <2>7, TestStep
  <2>8. CASE BarrierReset(h) \/ BarrierUnlockLast(h)
             \/ BarrierRelease(h) \/ BarrierReleased(h)
    BY <2>8, LastStep
  <2>9. CASE BarrierCount(h)
    BY <2>9, CountStep
  <2>10. CASE BarrierUnlock(h)
    BY <2>10, UnlockStep
  <2>11. CASE BarrierGate(h)
    BY <2>11, GateStep
  <2>12. CASE EnterPrint(h)
    BY <2>12, OutsideStep DEF EnterPrint
  <2>13. CASE LeavePrint(h)
    BY <2>13, OutsideStep DEF LeavePrint
  <2>14. CASE CountExit(h)
    BY <2>14, OutsideStep DEF CountExit
  <2>15. CASE SysExit(h)
    BY <2>15 DEF SysExit, BarrierInv, Gathering, Opening, OpenedBy, Draining,
                 Counted, Passed
  <2> QED
    BY <1>2, <2>1, <2>2, <2>3, <2>4, <2>5, <2>6, <2>7, <2>8, <2>9, <2>10,
       <2>11, <2>12, <2>13, <2>14, <2>15 DEF Step, Barrier
<1> QED
  BY <1>1, <1>2 DEF Next

(* The strengthened invariant of the barrier, for every reachable state. *)
THEOREM BarrierInvariant == Spec => [](TypeOK /\ BarrierLockInv /\ BarrierInv)
BY TypeInit, BarrierLockInit, BarrierInit, TypeStep, BarrierLockStep,
   BarrierStep, PTL DEF Spec

(* No hart gets beyond the barrier before every hart has arrived at it. *)
THEOREM BarrierHoldsAlways == Spec => []BarrierHolds
<1>1. TypeOK /\ BarrierInv => BarrierHolds
  BY DEF TypeOK, BarrierInv, Gathering, Opening, OpenedBy, Draining,
         BarrierHolds, Arrived, Inside, Beyond
<1> QED
  BY <1>1, BarrierInvariant, PTL

(* When every hart is beyond the barrier its counter, its lock and its     *)
(* gate are back to what they were.                                        *)
THEOREM BarrierRestoredAlways == Spec => []BarrierRestored
<1>1. ASSUME TypeOK, BarrierLockInv, BarrierInv,
             \A h \in Harts : pc[h] \in Beyond
      PROVE  counter = 0 /\ sem.barrierLock = 1 /\ sem.barrierSem = 0
  <2>1. sem.barrierLock = 1
    BY <1>1, DualCoreAssumption DEF BarrierLockInv, Inside, Beyond
  <2>2. Draining
    BY <1>1, DualCoreAssumption
       DEF BarrierInv, Gathering, Opening, OpenedBy, Beyond
  <2>3. Passed = Harts
    BY <1>1 DEF Passed
  <2>4. Cardinality(Passed) = Processors /\ sem.barrierSem \in Nat
    BY <1>1, <2>3 DEF Processors, TypeOK, Semaphores
  <2>5. sem.barrierSem = 0
    BY <2>2, <2>4, ProcessorsType DEF Draining
  <2> QED
    BY <2>1, <2>2, <2>5 DEF Draining
<1>2. TypeOK /\ BarrierLockInv /\ BarrierInv => BarrierRestored
  BY <1>1 DEF BarrierRestored
<1> QED
  BY <1>2, BarrierInvariant, PTL

(* The semaphores stay small: a lock is zero or one, and the gate holds at *)
(* most a token for each hart.                                             *)
WordsFit == sem.lock \in {0, 1} /\ sem.barrierLock \in {0, 1} /\ sem.barrierSem \in 0 .. Processors

(* So sem_post, which adds one to a uint32_t, never wraps a semaphore of   *)
(* fewer than 2^32 harts, and the natural numbers of this module, which do *)
(* not wrap, lose nothing of the words that LrScSemaphore has.             *)
THEOREM WordsAlwaysFit == Spec => []WordsFit
<1>1. ASSUME TypeOK, BarrierInv PROVE sem.barrierSem \in 0 .. Processors
  <2>1. /\ sem.barrierSem \in Nat /\ Processors \in Nat
        /\ Cardinality(Passed) \in Nat
        /\ \A h \in Harts : reg[h] \in Nat
    BY <1>1, ProcessorsType DEF TypeOK, Semaphores, Passed
  <2>2. CASE Gathering
    BY <2>1, <2>2 DEF Gathering
  <2>3. CASE Opening
    BY <2>1, <2>3 DEF Opening, OpenedBy
  <2>4. CASE Draining
    BY <2>1, <2>4 DEF Draining
  <2> QED
    BY <1>1, <2>2, <2>3, <2>4 DEF BarrierInv
<1>2. TypeOK /\ LockInv /\ BarrierLockInv /\ BarrierInv => WordsFit
  BY <1>1 DEF LockInv, BarrierLockInv, WordsFit
<1> QED
  BY <1>2, LockInit, LockStep, BarrierInvariant, PTL DEF Spec
-----------------------------------------------------------------------------
LEMMA ExitInit == Init => ExitInv
<1> SUFFICES ASSUME Init PROVE ExitInv
  OBVIOUS
<1>1. Exited = {}
  BY DEF Init, Exited
<1>2. Cardinality(Exited) = 0
  BY <1>1, FS_EmptySet
<1> QED
  BY <1>2 DEF Init, ExitInv, ExitAfterAll

(* A step of a hart that neither reaches the exit loop nor stops the       *)
(* simulation leaves the invariant of the exit counter alone.              *)
LEMMA NoExitStep ==
  ASSUME TypeOK, ExitInv, NEW h \in Harts, NEW to \in PC \ {"exit"},
         pc[h] # "exit", pc' = [pc EXCEPT ![h] = to],
         exitCounter' = exitCounter, ~halted, halted' = halted,
         \A g \in Harts \ {h} : reg'[g] = reg[g]
  PROVE  ExitInv'
<1>1. Exited' = Exited
  BY DEF TypeOK, Exited
<1> QED
  BY <1>1 DEF TypeOK, ExitInv, ExitAfterAll

LEMMA ExitStep == ASSUME TypeOK, ExitInv, [Next]_vars PROVE ExitInv'
<1>1. CASE UNCHANGED vars
  BY <1>1 DEF vars, ExitInv, ExitAfterAll, Exited
<1>2. ASSUME NEW h \in Harts, Step(h) PROVE ExitInv'
  <2> USE DEF TypeOK, PC, Initialising, Inside, Beyond, Goto
  <2>1. CASE InitBarrierLock \/ InitBarrierSem \/ InitLock
    BY <2>1, DualCoreAssumption, NoExitStep
       DEF InitBarrierLock, InitBarrierSem, InitLock
  <2>2. CASE EnterSection(h) \/ LeaveSection(h)
    BY <2>2, NoExitStep DEF EnterSection, LeaveSection
  <2>3. CASE BarrierEnter(h) \/ BarrierTest(h) \/ BarrierReset(h)
    BY <2>3, NoExitStep DEF BarrierEnter, BarrierTest, BarrierReset
  <2>4. CASE BarrierUnlockLast(h) \/ BarrierRelease(h) \/ BarrierReleased(h)
    BY <2>4, NoExitStep DEF BarrierUnlockLast, BarrierRelease, BarrierReleased
  <2>5. CASE BarrierCount(h) \/ BarrierUnlock(h) \/ BarrierGate(h)
    BY <2>5, NoExitStep DEF BarrierCount, BarrierUnlock, BarrierGate
  <2>6. CASE EnterPrint(h) \/ LeavePrint(h)
    BY <2>6, NoExitStep DEF EnterPrint, LeavePrint
  <2>7. CASE CountExit(h)
    <3>1. Exited \in SUBSET Harts /\ h \notin Exited /\ Exited' = Exited \cup {h}
      BY <2>7 DEF CountExit, Exited
    <3>2. IsFiniteSet(Exited) /\ Cardinality(Exited) \in Nat
      BY <3>1, ProcessorsType
    <3>3. Cardinality(Exited') = Cardinality(Exited) + 1
      BY <3>1, <3>2, FS_AddElement
    <3> QED
      BY <2>7, <3>2, <3>3 DEF CountExit, ExitInv, ExitAfterAll
  <2>8. CASE SysExit(h)
    <3>1. Exited \in SUBSET Harts /\ Exited' = Exited
      BY <2>8 DEF SysExit, Exited
    <3>2. Cardinality(Exited) = Cardinality(Harts) /\ IsFiniteSet(Harts)
      BY <2>8, <3>1, ProcessorsType, DualCoreAssumption
         DEF SysExit, ExitInv, Processors
    <3>3. Exited = Harts
      BY <3>1, <3>2, FS_Subset
    <3>4. \A g \in Harts : pc[g] = "exit"
      BY <3>3 DEF Exited
    <3> QED
      BY <2>8, <3>1, <3>4 DEF SysExit, ExitInv, ExitAfterAll
  <2> QED
    BY <1>2, <2>1, <2>2, <2>3, <2>4, <2>5, <2>6, <2>7, <2>8 DEF Step, Barrier
<1> QED
  BY <1>1, <1>2 DEF Next

(* The simulation is stopped only when every hart has returned from main   *)
(* and counted itself.                                                     *)
THEOREM ExitAfterAllAlways == Spec => []ExitAfterAll
<1>1. ExitInv => ExitAfterAll
  BY DEF ExitInv
<1> QED
  BY <1>1, ExitInit, ExitStep, TypeCorrect, PTL DEF Spec
=============================================================================
