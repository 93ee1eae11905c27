------------------------------ MODULE DualCore ------------------------------
(***************************************************************************)
(* The skeleton of the dual-core programs (the FFT of Final and the blur   *)
(* of HW7): every hart enters main, hart 0 initialises the semaphores, the *)
(* harts work inside sections locked by "lock", meet at one barrier, print *)
(* under the lock, return, and bootstrap.S stops the simulation.           *)
(*                                                                         *)
(* The semaphore operations are single steps: LrScSemaphore shows that the *)
(* instruction sequences of the programs take effect so.  What a hart does *)
(* inside a section (the transfers to its accelerator) is in FftDriver.    *)
(***************************************************************************)
EXTENDS Integers, FiniteSets

CONSTANTS
  Harts,    (* the harts that run main; PROCESSORS of them                 *)
  Boot,     (* hart 0, which initialises the semaphores                    *)
  Sections  (* locked sections each hart goes through before the barrier   *)

ASSUME DualCoreAssumption ==
  /\ IsFiniteSet(Harts)
  /\ Boot \in Harts
  /\ Sections \in Nat

(* PROCESSORS, the thread_count passed to the barrier; the bootstrap waits *)
(* for exit_counter to have been PROCESSORS - 1 (its register t2).         *)
Processors == Cardinality(Harts)

VARIABLES
  sem,         (* the semaphores: lock, the mutex; barrierLock, which      *)
               (* guards the counter; barrierSem, the gate of the barrier  *)
  counter,     (* barrier_counter                                          *)
  exitCounter, (* exit_counter of bootstrap.S                              *)
  halted,      (* SYS_EXIT was executed: the simulation has stopped        *)
  pc,          (* pc[h]: where hart h is                                   *)
  todo,        (* todo[h]: locked sections h has still to do               *)
  reg          (* reg[h]: what h last loaded: the counter, the loop index  *)
               (* j of the barrier, the old exit_counter (register a0)     *)

vars == <<sem, counter, exitCounter, halted, pc, todo, reg>>

Semaphores == {"lock", "barrierLock", "barrierSem"}

(* All memory is zero (.bss) and every hart is at the entry of main. *)
Init ==
  /\ sem = [s \in Semaphores |-> 0]
  /\ counter = 0 /\ exitCounter = 0 /\ halted = FALSE
  /\ pc = [h \in Harts |-> IF h = Boot THEN "init1" ELSE "loop"]
  /\ todo = [h \in Harts |-> Sections]
  /\ reg = [h \in Harts |-> 0]

-----------------------------------------------------------------------------
(* Hart h goes from one place to another while the simulation runs. *)
Goto(h, from, to) ==
  /\ ~halted
  /\ pc[h] = from
  /\ pc' = [pc EXCEPT ![h] = to]
  /\ UNCHANGED halted

SemInit(s, n) == sem' = [sem EXCEPT ![s] = n]
WaitUntested(s) == sem' = [sem EXCEPT ![s] = @ - 1]  (* mutant of Wait *)
Wait(s) == sem[s] > 0 /\ sem' = [sem EXCEPT ![s] = @ - 1]
Post(s) == sem' = [sem EXCEPT ![s] = @ + 1]

(* if (hart_id == 0): sem_init of barrier_lock, barrier_sem and lock, in   *)
(* this order; until the last one the other harts spin on a zero lock.     *)
(* (print_sem, which nothing waits for or posts, is left out.)             *)
InitBarrierLock ==
  /\ Goto(Boot, "init1", "init2")
  /\ SemInit("barrierLock", 1)
  /\ UNCHANGED <<counter, exitCounter, todo, reg>>

InitBarrierSem ==
  /\ Goto(Boot, "init2", "init3")
  /\ SemInit("barrierSem", 0)
  /\ UNCHANGED <<counter, exitCounter, todo, reg>>

(* Mutant: lock is initialised to the number of harts. *)
InitLockWide ==
  /\ Goto(Boot, "init3", "loop")
  /\ SemInit("lock", Processors)
  /\ UNCHANGED <<counter, exitCounter, todo, reg>>

InitLock ==
  /\ Goto(Boot, "init3", "loop")
  /\ SemInit("lock", 1)
  /\ UNCHANGED <<counter, exitCounter, todo, reg>>

(* One pass of the work loops: sem_wait(&lock); ... sem_post(&lock). *)
EnterSection(h) ==
  /\ todo[h] > 0
  /\ Goto(h, "loop", "section")
  /\ Wait("lock")
  /\ UNCHANGED <<counter, exitCounter, todo, reg>>

LeaveSection(h) ==
  /\ Goto(h, "section", "loop")
  /\ Post("lock")
  /\ todo' = [todo EXCEPT ![h] = @ - 1]
  /\ UNCHANGED <<counter, exitCounter, reg>>

(* barrier(): sem_wait(__lock). *)
BarrierEnter(h) ==
  /\ todo[h] = 0
  /\ Goto(h, "loop", "test")
  /\ Wait("barrierLock")
  /\ UNCHANGED <<counter, exitCounter, todo, reg>>

(* Mutant: the test is off by one. *)
BarrierTestEarly(h) ==
  /\ reg' = [reg EXCEPT ![h] = counter]
  /\ Goto(h, "test", IF counter = Processors - 2 THEN "reset" ELSE "count")
  /\ UNCHANGED <<sem, counter, exitCounter, todo>>

(* if *counter == thread_count - 1. *)
BarrierTest(h) ==
  /\ reg' = [reg EXCEPT ![h] = counter]
  /\ Goto(h, "test", IF counter = Processors - 1 THEN "reset" ELSE "count")
  /\ UNCHANGED <<sem, counter, exitCounter, todo>>

(* Mutants: the counter is not reset; the loop of the posts starts at one. *)
BarrierResetMissing(h) ==
  /\ Goto(h, "reset", "unlockLast")
  /\ UNCHANGED <<sem, counter, exitCounter, todo, reg>>

BarrierUnlockLastFromOne(h) ==
  /\ Goto(h, "unlockLast", "release")
  /\ Post("barrierLock")
  /\ reg' = [reg EXCEPT ![h] = 1]
  /\ UNCHANGED <<counter, exitCounter, todo>>

(* The last hart: *counter = 0, sem_post(__lock), and one sem_post(__sem)  *)
(* for each of the thread_count - 1 others (reg[h] is the loop index j).   *)
BarrierReset(h) ==
  /\ Goto(h, "reset", "unlockLast")
  /\ counter' = 0
  /\ UNCHANGED <<sem, exitCounter, todo, reg>>

BarrierUnlockLast(h) ==
  /\ Goto(h, "unlockLast", "release")
  /\ Post("barrierLock")
  /\ reg' = [reg EXCEPT ![h] = 0]
  /\ UNCHANGED <<counter, exitCounter, todo>>

BarrierRelease(h) ==
  /\ reg[h] < Processors - 1
  /\ Goto(h, "release", "release")
  /\ Post("barrierSem")
  /\ reg' = [reg EXCEPT ![h] = @ + 1]
  /\ UNCHANGED <<counter, exitCounter, todo>>

BarrierReleased(h) ==
  /\ reg[h] >= Processors - 1
  /\ Goto(h, "release", "print")
  /\ UNCHANGED <<sem, counter, exitCounter, todo, reg>>

(* The others: increment *counter, sem_post(__lock), sem_wait(__sem). *)
BarrierCount(h) ==
  /\ Goto(h, "count", "unlock")
  /\ counter' = reg[h] + 1
  /\ UNCHANGED <<sem, exitCounter, todo, reg>>

BarrierUnlock(h) ==
  /\ Goto(h, "unlock", "gate")
  /\ Post("barrierLock")
  /\ UNCHANGED <<counter, exitCounter, todo, reg>>

BarrierGate(h) ==
  /\ Goto(h, "gate", "print")
  /\ Wait("barrierSem")
  /\ UNCHANGED <<counter, exitCounter, todo, reg>>

(* The results are printed under the lock, then main returns. *)
EnterPrint(h) ==
  /\ Goto(h, "print", "printing")
  /\ Wait("lock")
  /\ UNCHANGED <<counter, exitCounter, todo, reg>>

LeavePrint(h) ==
  /\ Goto(h, "printing", "returned")
  /\ Post("lock")
  /\ UNCHANGED <<counter, exitCounter, todo, reg>>

(* bootstrap.S: amoadd.w a0 <- exit_counter, exit_counter + 1.  A hart     *)
(* whose a0 is below PROCESSORS - 1 repeats the branch on it for ever.     *)
CountExit(h) ==
  /\ Goto(h, "returned", "exit")
  /\ reg' = [reg EXCEPT ![h] = exitCounter]
  /\ exitCounter' = exitCounter + 1
  /\ UNCHANGED <<sem, counter, todo>>

(* Mutant: t2 is one too small. *)
SysExitEarly(h) ==
  /\ ~halted
  /\ pc[h] = "exit"
  /\ reg[h] >= Processors - 2
  /\ halted' = TRUE
  /\ UNCHANGED <<sem, counter, exitCounter, pc, todo, reg>>

SysExit(h) ==
  /\ ~halted
  /\ pc[h] = "exit"
  /\ reg[h] >= Processors - 1
  /\ halted' = TRUE
  /\ UNCHANGED <<sem, counter, exitCounter, pc, todo, reg>>

Barrier(h) ==
  \/ BarrierEnter(h) \/ BarrierTest(h)
  \/ BarrierReset(h) \/ BarrierUnlockLast(h)
  \/ BarrierRelease(h) \/ BarrierReleased(h)
  \/ BarrierCount(h) \/ BarrierUnlock(h) \/ BarrierGate(h)

Step(h) ==
  \/ h = Boot /\ (InitBarrierLock \/ InitBarrierSem \/ InitLock)
  \/ EnterSection(h) \/ LeaveSection(h)
  \/ Barrier(h)
  \/ EnterPrint(h) \/ LeavePrint(h)
  \/ CountExit(h) \/ SysExit(h)

Next == \E h \in Harts : Step(h)

Spec == Init /\ [][Next]_vars

(* Every hart is a thread of the simulation kernel and keeps executing.    *)
(* Nothing stronger is needed: a hart takes the lock finitely often.       *)
Fairness == \A h \in Harts : WF_vars(Step(h))

FairSpec == Spec /\ Fairness
-----------------------------------------------------------------------------
Initialising == {"init1", "init2", "init3"}
Inside       == {"test", "reset", "unlockLast", "count", "unlock"}
Beyond       == {"print", "printing", "returned", "exit"}
PC == Initialising \union {"loop", "section"} \union Inside
        \union {"release", "gate"} \union Beyond

(* The type invariant; a section in progress is still to be counted off. *)
TypeOK ==
  /\ sem \in [Semaphores -> Nat]
  /\ counter \in Nat /\ exitCounter \in Nat
  /\ halted \in BOOLEAN
  /\ pc \in [Harts -> PC]
  /\ todo \in [Harts -> 0 .. Sections]
  /\ \A h \in Harts : pc[h] = "section" => todo[h] > 0
  /\ reg \in [Harts -> Nat]

(* A hart has arrived at the barrier once its work loops are behind it. *)
Arrived(h) == pc[h] \in Inside \union {"release", "gate"} \union Beyond

(* The barrier: no hart prints, or goes on to return, while another has    *)
(* work to do, although the semaphores start from zero, hart 0 initialises *)
(* them while the others may already spin, and the gate is one semaphore.  *)
BarrierHolds ==
  (\E h \in Harts : pc[h] \in Beyond) => \A g \in Harts : Arrived(g)

InSection(h) == pc[h] \in {"section", "printing"}

(* lock: no two harts are inside locked sections or printing together; a   *)
(* hart that spins before sem_init gets in by no other way.                *)
SectionsExclude ==
  \A g, h \in Harts : InSection(g) /\ InSection(h) => g = h

(* The barrier leaves its objects as it found them: when every hart is     *)
(* beyond it the counter is zero, barrier_lock is free and no token stays  *)
(* in barrier_sem.                                                         *)
BarrierRestored ==
  (\A h \in Harts : pc[h] \in Beyond) =>
    counter = 0 /\ sem.barrierLock = 1 /\ sem.barrierSem = 0

(* bootstrap.S, "wait until all two cores have finished": the simulation   *)
(* is stopped only when every hart has returned from main, although each   *)
(* hart compares a stale copy of exit_counter.                             *)
ExitAfterAll == halted => \A h \in Harts : pc[h] = "exit"

(* The program ends: no hart is left at a lock, at the gate or in the exit *)
(* loop with nobody to stop the simulation.                                *)
Terminates == <>halted
=============================================================================
