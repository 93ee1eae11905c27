--------------------------- MODULE LrScSemaphore ---------------------------
(***************************************************************************)
(* sem_init, sem_wait and sem_post of the dual-core programs, instruction  *)
(* by instruction: an RV32A load-reserved, a test or an addition in a      *)
(* register, and a store-conditional that is retried until it succeeds.    *)
(* The register-only instructions (beqz, addi) are folded into the memory  *)
(* access before or after them; nothing another hart does can be seen      *)
(* between the two.                                                        *)
(*                                                                         *)
(* The reservations are the processor's: a reservation is taken by lr.w,   *)
(* lost when another hart stores to the word, and may be lost for no       *)
(* reason the program can see (a trap, an expired reservation).            *)
(***************************************************************************)
EXTENDS Integers, FiniteSets, FiniteSetsExt

CONSTANTS Harts, Boot, InitCount, Grant, WordMod

ASSUME LrScAssumption ==
  /\ IsFiniteSet(Harts) /\ Boot \in Harts
  /\ WordMod \in Nat \ {0}
  /\ InitCount \in 0 .. WordMod - 1
  /\ Grant \in [Harts -> Nat]

VARIABLES
  word,     (* the semaphore in memory: a uint32_t, zero before sem_init   *)
  resv,     (* the harts whose reservation on the word is valid            *)
  value,    (* value[h]: the register %[value] of h                        *)
  pc,       (* pc[h]: where h is in sem_init, sem_wait or sem_post         *)
  holding   (* holding[h]: the units h owes, taken or granted              *)

vars == <<word, resv, value, pc, holding>>

Init ==
  /\ word = 0
  /\ resv = {}
  /\ value = [h \in Harts |-> 0]
  /\ pc = [h \in Harts |-> IF h = Boot THEN "init" ELSE "idle"]
  /\ holding = Grant

-----------------------------------------------------------------------------
(* The store of sem_init; a plain store cancels every reservation. *)
SemInit ==
  /\ pc[Boot] = "init"
  /\ word' = InitCount
  /\ resv' = {}
  /\ pc' = [pc EXCEPT ![Boot] = "idle"]
  /\ UNCHANGED <<value, holding>>

(* The calls the programs make: see CountingSemaphore. *)
CallWait(h) ==
  /\ pc[h] = "idle"
  /\ holding[h] = 0
  /\ pc' = [pc EXCEPT ![h] = "wait"]
  /\ UNCHANGED <<word, resv, value, holding>>

CallPost(h) ==
  /\ pc[h] = "idle"
  /\ pc[Boot] # "init"
  /\ holding[h] > 0
  /\ pc' = [pc EXCEPT ![h] = "post"]
  /\ UNCHANGED <<word, resv, value, holding>>

(* Mutants of LrWait: addi before beqz; no beqz; a test that is off by one.*)
LrWaitDecrements(h) ==
  /\ pc[h] = "wait"
  /\ value' = [value EXCEPT ![h] = word - 1]
  /\ resv' = resv \union {h}
  /\ pc' = [pc EXCEPT ![h] = IF word = 0 THEN "wait" ELSE "waitSc"]
  /\ UNCHANGED <<word, holding>>

LrWaitUntested(h) ==
  /\ pc[h] = "wait"
  /\ value' = [value EXCEPT ![h] = word]
  /\ resv' = resv \union {h}
  /\ pc' = [pc EXCEPT ![h] = "waitSc"]
  /\ UNCHANGED <<word, holding>>

LrWaitKeepsOne(h) ==
  /\ pc[h] = "wait"
  /\ value' = [value EXCEPT ![h] = word]
  /\ resv' = resv \union {h}
  /\ pc' = [pc EXCEPT ![h] = IF word <= 1 THEN "wait" ELSE "waitSc"]
  /\ UNCHANGED <<word, holding>>

(* lr.w of sem_wait and the beqz after it: a zero is read again. *)
LrWait(h) ==
  /\ pc[h] = "wait"
  /\ value' = [value EXCEPT ![h] = word]
  /\ resv' = resv \union {h}
  /\ pc' = [pc EXCEPT ![h] = IF word = 0 THEN "wait" ELSE "waitSc"]
  /\ UNCHANGED <<word, holding>>

(* lr.w of sem_post: no test. *)
LrPost(h) ==
  /\ pc[h] = "post"
  /\ value' = [value EXCEPT ![h] = word]
  /\ resv' = resv \union {h}
  /\ pc' = [pc EXCEPT ![h] = "postSc"]
  /\ UNCHANGED <<word, holding>>

(* A store-conditional that succeeds writes v and cancels the reservations *)
(* of the others; one's own is used up.                                    *)
StoreConditional(h, v) ==
  /\ h \in resv
  /\ word' = v
  /\ resv' = {}

(* Mutants: plain stores instead of sc.w. *)
ScWaitPlain(h) ==
  /\ pc[h] = "waitSc"
  /\ word' = (value[h] - 1) % WordMod
  /\ resv' = {}
  /\ pc' = [pc EXCEPT ![h] = "idle"]
  /\ holding' = [holding EXCEPT ![h] = @ + 1]
  /\ UNCHANGED value

ScPostPlain(h) ==
  /\ pc[h] = "postSc"
  /\ word' = (value[h] + 1) % WordMod
  /\ resv' = {}
  /\ pc' = [pc EXCEPT ![h] = "idle"]
  /\ holding' = [holding EXCEPT ![h] = @ - 1]
  /\ UNCHANGED value

ScWait(h) ==
  /\ pc[h] = "waitSc"
  /\ StoreConditional(h, (value[h] - 1) % WordMod)
  /\ pc' = [pc EXCEPT ![h] = "idle"]
  /\ holding' = [holding EXCEPT ![h] = @ + 1]
  /\ UNCHANGED value

ScPost(h) ==
  /\ pc[h] = "postSc"
  /\ StoreConditional(h, (value[h] + 1) % WordMod)
  /\ pc' = [pc EXCEPT ![h] = "idle"]
  /\ holding' = [holding EXCEPT ![h] = @ - 1]
  /\ UNCHANGED value

(* Mutant: bnez goes back to the sc.w only. *)
ScFailStays(h) ==
  /\ pc[h] \in {"waitSc", "postSc"}
  /\ h \notin resv
  /\ UNCHANGED vars

(* sc.w fails when the reservation is gone, and bnez goes back to lr.w. *)
ScFail(h) ==
  /\ pc[h] \in {"waitSc", "postSc"}
  /\ h \notin resv
  /\ pc' = [pc EXCEPT ![h] = IF @ = "waitSc" THEN "wait" ELSE "post"]
  /\ UNCHANGED <<word, resv, value, holding>>

(* The processor drops a reservation on its own. *)
LoseReservation(h) ==
  /\ h \in resv
  /\ resv' = resv \ {h}
  /\ UNCHANGED <<word, value, pc, holding>>

Step(h) ==
  \/ LrWait(h)
  \/ LrPost(h)
  \/ ScWait(h)
  \/ ScPost(h)
  \/ ScFail(h)

Next ==
  \/ SemInit
  \/ \E h \in Harts :
       \/ CallWait(h)
       \/ CallPost(h)
       \/ Step(h)
       \/ LoseReservation(h)

Spec == Init /\ [][Next]_vars

(***************************************************************************)
(* A hart that runs keeps executing instructions (each hart is a SystemC   *)
(* thread of the kernel).  The loops are constrained LR/SC loops, for      *)
(* which the RISC-V A extension guarantees eventual success of sc.w: a     *)
(* store-conditional that could succeed again and again does so.           *)
(***************************************************************************)
Fairness ==
  /\ WF_vars(SemInit)
  /\ \A h \in Harts :
       /\ WF_vars(Step(h))
       /\ SF_vars(ScWait(h))
       /\ SF_vars(ScPost(h))

FairSpec == Spec /\ Fairness
-----------------------------------------------------------------------------
PC == {"init", "idle", "wait", "waitSc", "post", "postSc"}

(* The type invariant: every word is a machine word. *)
TypeOK ==
  /\ word \in 0 .. WordMod - 1
  /\ resv \in SUBSET Harts
  /\ value \in [Harts -> 0 .. WordMod - 1]
  /\ pc \in [Harts -> PC]
  /\ holding \in [Harts -> Int]

(* A hart about to execute sc.w with a valid reservation has in its        *)
(* register what is in memory now, and sem_wait never reaches its sc.w     *)
(* with a zero: the value it tested is still the value it replaces.        *)
ReservationFresh ==
  \A h \in Harts :
    /\ pc[h] \in {"waitSc", "postSc"} /\ h \in resv => value[h] = word
    /\ pc[h] = "waitSc" => value[h] > 0

(* sem_init, sem_wait and sem_post each take effect in one atomic step of  *)
(* a counting semaphore, whatever the other harts do between the lr.w and  *)
(* the sc.w.                                                               *)
Call(h) ==
  IF pc[h] \in {"wait", "waitSc"} THEN "wait"
  ELSE IF pc[h] \in {"post", "postSc"} THEN "post" ELSE pc[h]

Sem == INSTANCE CountingSemaphore
         WITH count <- word, call <- [h \in Harts |-> Call(h)]

IsSemaphore == Sem!Spec

(* Once the semaphore is initialised no unit is lost or invented, however  *)
(* the retries of the harts interleave: what is in the word and what the   *)
(* harts hold add up to what sem_init and the grants provided.             *)
UnitsConserved ==
  pc[Boot] # "init" =>
    word + MapThenSumSet(LAMBDA h : holding[h], Harts)
      = InitCount + MapThenSumSet(LAMBDA h : Grant[h], Harts)

(* sem_post has no zero test, so it always returns: the retries end.       *)
PostReturns ==
  \A h \in Harts : pc[h] = "post" ~> pc[h] = "idle"

(* A unit does not stay in the semaphore while a hart waits for it: the    *)
(* word is emptied or the hart gets through.                               *)
UnitIsTaken ==
  \A h \in Harts : (pc[h] = "wait" /\ word > 0) ~> (word = 0 \/ pc[h] = "idle")
=============================================================================
