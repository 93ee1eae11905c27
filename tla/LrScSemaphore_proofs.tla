------------------------ MODULE LrScSemaphore_proofs ------------------------
(***************************************************************************)
(* What LrScSemaphore guarantees for every set of harts, every initial     *)
(* count, every grant and every width of the word.                         *)
(***************************************************************************)
EXTENDS LrScSemaphore, Sums

(* Every step keeps every word a machine word. *)
LEMMA TypeStep == ASSUME TypeOK, [Next]_vars PROVE TypeOK'
<1> USE LrScAssumption DEF TypeOK, PC
<1>1. CASE SemInit
  BY <1>1 DEF SemInit
<1>2. ASSUME NEW h \in Harts, CallWait(h) PROVE TypeOK'
  BY <1>2 DEF CallWait
<1>3. ASSUME NEW h \in Harts, CallPost(h) PROVE TypeOK'
  BY <1>3 DEF CallPost
<1>4. ASSUME NEW h \in Harts, LrWait(h) PROVE TypeOK'
  BY <1>4 DEF LrWait
<1>5. ASSUME NEW h \in Harts, LrPost(h) PROVE TypeOK'
  BY <1>5 DEF LrPost
<1>6. ASSUME NEW h \in Harts, ScWait(h) PROVE TypeOK'
  <2>1. (value[h] - 1) % WordMod \in 0 .. WordMod - 1
    OBVIOUS
  <2> QED
    BY <1>6, <2>1 DEF ScWait, StoreConditional
<1>7. ASSUME NEW h \in Harts, ScPost(h) PROVE TypeOK'
  <2>1. (value[h] + 1) % WordMod \in 0 .. WordMod - 1
    OBVIOUS
  <2> QED
    BY <1>7, <2>1 DEF ScPost, StoreConditional
<1>8. ASSUME NEW h \in Harts, ScFail(h) PROVE TypeOK'
  BY <1>8 DEF ScFail
<1>9. ASSUME NEW h \in Harts, LoseReservation(h) PROVE TypeOK'
  BY <1>9 DEF LoseReservation
<1>10. CASE UNCHANGED vars
  BY <1>10 DEF vars
<1> QED
  BY <1>1, <1>2, <1>3, <1>4, <1>5, <1>6, <1>7, <1>8, <1>9, <1>10 DEF Next, Step

LEMMA TypeInit == Init => TypeOK
BY LrScAssumption DEF Init, TypeOK, PC

(* The type invariant: the word, the registers and the program counters    *)
(* stay in range whatever the harts do.                                    *)
THEOREM TypeCorrect == Spec => []TypeOK
BY TypeInit, TypeStep, PTL DEF Spec
-----------------------------------------------------------------------------
(* Every step keeps the reserved values fresh: only a store-conditional or *)
(* sem_init changes the word, and both leave no reservation behind.        *)
LEMMA FreshStep ==
  ASSUME TypeOK, ReservationFresh, [Next]_vars PROVE ReservationFresh'
<1> USE LrScAssumption DEF TypeOK, ReservationFresh, PC
<1>1. CASE SemInit
  BY <1>1 DEF SemInit
<1>2. ASSUME NEW h \in Harts, CallWait(h) PROVE ReservationFresh'
  BY <1>2 DEF CallWait
<1>3. ASSUME NEW h \in Harts, CallPost(h) PROVE ReservationFresh'
  BY <1>3 DEF CallPost
<1>4. ASSUME NEW h \in Harts, LrWait(h) PROVE ReservationFresh'
  BY <1>4 DEF LrWait
<1>5. ASSUME NEW h \in Harts, LrPost(h) PROVE ReservationFresh'
  BY <1>5 DEF LrPost
<1>6. ASSUME NEW h \in Harts, ScWait(h) PROVE ReservationFresh'
  BY <1>6 DEF ScWait, StoreConditional
<1>7. ASSUME NEW h \in Harts, ScPost(h) PROVE ReservationFresh'
  BY <1>7 DEF ScPost, StoreConditional
<1>8. ASSUME NEW h \in Harts, ScFail(h) PROVE ReservationFresh'
  BY <1>8 DEF ScFail
<1>9. ASSUME NEW h \in Harts, LoseReservation(h) PROVE ReservationFresh'
  BY <1>9 DEF LoseReservation
<1>10. CASE UNCHANGED vars
  BY <1>10 DEF vars
<1> QED
  BY <1>1, <1>2, <1>3, <1>4, <1>5, <1>6, <1>7, <1>8, <1>9, <1>10 DEF Next, Step

(* A store-conditional that succeeds replaces the value that was tested:   *)
(* no other hart's change to the word is ever overwritten.                 *)
THEOREM FreshReservation == Spec => []ReservationFresh
<1>1. Init => ReservationFresh
  BY DEF Init, ReservationFresh
<1> QED
  BY <1>1, FreshStep, TypeCorrect, PTL DEF Spec
-----------------------------------------------------------------------------
(* The refinement, initial state: before sem_init the word is zero. *)
LEMMA RefinesInit == Init => Sem!Init
BY LrScAssumption DEF Init, Sem!Init, Call

(* The refinement, steps: a successful store-conditional is the abstract   *)
(* Wait or Post, lr.w and a failed sc.w change nothing that can be seen.   *)
LEMMA RefinesStep ==
  ASSUME TypeOK, ReservationFresh, [Next]_vars PROVE [Sem!Next]_(Sem!vars)
<1> DEFINE call == [h \in Harts |-> Call(h)]
<1> USE LrScAssumption DEF TypeOK, PC
<1>1. CASE SemInit
  <2>1. /\ call[Boot] = "init"
        /\ call' = [call EXCEPT ![Boot] = "idle"]
    BY <1>1 DEF SemInit, Call
  <2>2. Sem!SemInit
    BY <1>1, <2>1 DEF SemInit, Sem!SemInit
  <2> QED
    BY <2>2 DEF Sem!Next
<1>2. ASSUME NEW h \in Harts, CallWait(h) PROVE [Sem!Next]_(Sem!vars)
  <2>1. call[h] = "idle" /\ call' = [call EXCEPT ![h] = "wait"]
    BY <1>2 DEF CallWait, Call
  <2>2. Sem!CallWait(h)
    BY <1>2, <2>1 DEF CallWait, Sem!CallWait
  <2> QED
    BY <2>2 DEF Sem!Next
<1>3. ASSUME NEW h \in Harts, CallPost(h) PROVE [Sem!Next]_(Sem!vars)
  <2>1. /\ call[h] = "idle"
        /\ call[Boot] # "init"
        /\ call' = [call EXCEPT ![h] = "post"]
    BY <1>3 DEF CallPost, Call
  <2>2. Sem!CallPost(h)
    BY <1>3, <2>1 DEF CallPost, Sem!CallPost
  <2> QED
    BY <2>2 DEF Sem!Next
<1>4. ASSUME NEW h \in Harts, LrWait(h) PROVE [Sem!Next]_(Sem!vars)
  <2>1. call' = call
    BY <1>4 DEF LrWait, Call
  <2> QED
    BY <1>4, <2>1 DEF LrWait, Sem!vars
<1>5. ASSUME NEW h \in Harts, LrPost(h) PROVE [Sem!Next]_(Sem!vars)
  <2>1. call' = call
    BY <1>5 DEF LrPost, Call
  <2> QED
    BY <1>5, <2>1 DEF LrPost, Sem!vars
<1>6. ASSUME NEW h \in Harts, ScWait(h) PROVE [Sem!Next]_(Sem!vars)
  <2>1. call[h] = "wait" /\ call' = [call EXCEPT ![h] = "idle"]
    BY <1>6 DEF ScWait, Call
  <2>2. value[h] = word /\ value[h] > 0
    BY <1>6 DEF ScWait, StoreConditional, ReservationFresh
  <2>3. word > 0 /\ (value[h] - 1) % WordMod = word - 1
    <3>1. word - 1 \in 0 .. WordMod - 1
      BY <2>2
    <3>2. (word - 1) % WordMod = word - 1
      BY <3>1
    <3> QED
      BY <2>2, <3>2
  <2>4. Sem!Wait(h)
    BY <1>6, <2>1, <2>3 DEF ScWait, StoreConditional, Sem!Wait
  <2> QED
    BY <2>4 DEF Sem!Next
<1>7. ASSUME NEW h \in Harts, ScPost(h) PROVE [Sem!Next]_(Sem!vars)
  <2>1. call[h] = "post" /\ call' = [call EXCEPT ![h] = "idle"]
    BY <1>7 DEF ScPost, Call
  <2>2. value[h] = word
    BY <1>7 DEF ScPost, StoreConditional, ReservationFresh
  <2>3. Sem!Post(h)
    BY <1>7, <2>1, <2>2 DEF ScPost, StoreConditional, Sem!Post
  <2> QED
    BY <2>3 DEF Sem!Next
<1>8. ASSUME NEW h \in Harts, ScFail(h) PROVE [Sem!Next]_(Sem!vars)
  <2>1. call' = call
    BY <1>8 DEF ScFail, Call
  <2> QED
    BY <1>8, <2>1 DEF ScFail, Sem!vars
<1>9. ASSUME NEW h \in Harts, LoseReservation(h) PROVE [Sem!Next]_(Sem!vars)
  BY <1>9 DEF LoseReservation, Sem!vars, Call
<1>10. CASE UNCHANGED vars
  BY <1>10 DEF vars, Sem!vars, Call
<1> QED
  BY <1>1, <1>2, <1>3, <1>4, <1>5, <1>6, <1>7, <1>8, <1>9, <1>10 DEF Next, Step

(* sem_init, sem_wait and sem_post implement the counting semaphore: each  *)
(* call takes effect in one atomic step.                                   *)
THEOREM ImplementsSemaphore == Spec => IsSemaphore
BY RefinesInit, RefinesStep, TypeCorrect, FreshReservation, PTL
   DEF Spec, IsSemaphore, Sem!Spec
-----------------------------------------------------------------------------
(* The lock: initialised to one, granted to nobody.  The word is one only  *)
(* when nobody holds the lock, and a hart that posts is the one holding it.*)
LockUse == InitCount = 1 /\ \A h \in Harts : Grant[h] = 0

(* Two harts never hold the lock together. *)
AtMostOneHolder ==
  LockUse => \A g, h \in Harts : holding[g] > 0 /\ holding[h] > 0 => g = h

LockInv ==
  /\ \A h \in Harts : holding[h] \in {0, 1}
  /\ \A g, h \in Harts : holding[g] = 1 /\ holding[h] = 1 => g = h
  /\ word \in {0, 1}
  /\ word = 1 => \A h \in Harts : holding[h] = 0
  /\ pc[Boot] = "init" => word = 0 /\ \A h \in Harts : holding[h] = 0
  /\ \A h \in Harts : pc[h] \in {"post", "postSc"} => holding[h] = 1
  /\ \A h \in Harts : pc[h] \in {"wait", "waitSc"} => holding[h] = 0

(* The lock's invariant survives every step, in particular the successful  *)
(* store-conditionals, which only replace a fresh value.                   *)
LEMMA LockStep ==
  ASSUME LockUse, TypeOK, ReservationFresh, LockInv, [Next]_vars
  PROVE  LockInv'
<1> USE LrScAssumption DEF TypeOK, PC, LockInv, LockUse
<1>1. CASE SemInit
  BY <1>1 DEF SemInit
<1>2. ASSUME NEW h \in Harts, CallWait(h) PROVE LockInv'
  BY <1>2 DEF CallWait
<1>3. ASSUME NEW h \in Harts, CallPost(h) PROVE LockInv'
  BY <1>3 DEF CallPost
<1>4. ASSUME NEW h \in Harts, LrWait(h) PROVE LockInv'
  BY <1>4 DEF LrWait
<1>5. ASSUME NEW h \in Harts, LrPost(h) PROVE LockInv'
  BY <1>5 DEF LrPost
<1>6. ASSUME NEW h \in Harts, ScWait(h) PROVE LockInv'
  <2>1. value[h] = word /\ word = 1
    BY <1>6 DEF ScWait, StoreConditional, ReservationFresh
  <2>2. word' = 0
    BY <1>6, <2>1 DEF ScWait, StoreConditional
  <2> QED
    BY <1>6, <2>1, <2>2 DEF ScWait, StoreConditional
<1>7. ASSUME NEW h \in Harts, ScPost(h) PROVE LockInv'
  <2>1. value[h] = word /\ word = 0 /\ holding[h] = 1
    BY <1>7 DEF ScPost, StoreConditional, ReservationFresh
  <2>2. word' = 1
    BY <1>7, <2>1 DEF ScPost, StoreConditional
  <2>3. pc[Boot] # "init"
    BY <2>1
  <2> QED
    BY <1>7, <2>1, <2>2, <2>3 DEF ScPost, StoreConditional
<1>8. ASSUME NEW h \in Harts, ScFail(h) PROVE LockInv'
  BY <1>8 DEF ScFail
<1>9. ASSUME NEW h \in Harts, LoseReservation(h) PROVE LockInv'
  BY <1>9 DEF LoseReservation
<1>10. CASE UNCHANGED vars
  BY <1>10 DEF vars
<1> QED
  BY <1>1, <1>2, <1>3, <1>4, <1>5, <1>6, <1>7, <1>8, <1>9, <1>10 DEF Next, Step

(* Two harts never hold a lock together, for any number of harts and any   *)
(* width of the word.                                                      *)
THEOREM MutualExclusion == Spec => []AtMostOneHolder
<1>1. CASE LockUse
  <2>1. Init => LockInv
    BY <1>1, LrScAssumption DEF Init, LockInv, LockUse
  <2>2. TypeOK /\ ReservationFresh /\ LockInv /\ [Next]_vars => LockInv'
    BY <1>1, LockStep
  <2>3. LockInv => AtMostOneHolder
    BY DEF LockInv, AtMostOneHolder
  <2> QED
    BY <2>1, <2>2, <2>3, TypeCorrect, FreshReservation, PTL DEF Spec
<1>2. CASE ~LockUse
  <2>1. AtMostOneHolder
    BY <1>2 DEF AtMostOneHolder, LockUse
  <2> QED
    BY <2>1, PTL
<1> QED
  BY <1>1, <1>2
-----------------------------------------------------------------------------
(* The units.  A hart that posts owes one, so the sum of what is owed is   *)
(* at least one and the word is below the largest count.  Before sem_init  *)
(* nobody gets through sem_wait, since the word is zero, nor calls         *)
(* sem_post.                                                               *)
Units == word + Total(holding, Harts)
Provided == InitCount + Total(Grant, Harts)

UnitsFit == Provided < WordMod

UnitsInv ==
  /\ \A h \in Harts : holding[h] \in Nat
  /\ \A h \in Harts : pc[h] \in {"post", "postSc"} => holding[h] > 0 /\ pc[Boot] # "init"
  /\ pc[Boot] = "init" => word = 0 /\ holding = Grant
  /\ pc[Boot] # "init" => Units = Provided

LEMMA UnitsInit == Init => UnitsInv
BY LrScAssumption DEF Init, UnitsInv

LEMMA ProvidedType == Provided \in Nat
<1>1. \A h \in Harts : Grant[h] \in Nat
  BY LrScAssumption
<1>2. Total(Grant, Harts) \in Nat
  BY <1>1, LrScAssumption, TotalAtLeast
<1> QED
  BY <1>2, LrScAssumption DEF Provided

LEMMA UnitsStep ==
  ASSUME UnitsFit, TypeOK, ReservationFresh, UnitsInv, [Next]_vars
  PROVE  UnitsInv'
<1> USE LrScAssumption DEF TypeOK, PC, UnitsInv
<1>1. CASE SemInit
  <2>1. word' = InitCount /\ holding' = holding /\ holding = Grant
    BY <1>1 DEF SemInit
  <2>2. Units' = Provided
    BY <2>1 DEF Units, Provided
  <2> QED
    BY <1>1, <2>1, <2>2 DEF SemInit
<1>2. ASSUME NEW h \in Harts, CallWait(h) PROVE UnitsInv'
  BY <1>2 DEF CallWait, Units
<1>3. ASSUME NEW h \in Harts, CallPost(h) PROVE UnitsInv'
  BY <1>3 DEF CallPost, Units
<1>4. ASSUME NEW h \in Harts, LrWait(h) PROVE UnitsInv'
  BY <1>4 DEF LrWait, Units
<1>5. ASSUME NEW h \in Harts, LrPost(h) PROVE UnitsInv'
  BY <1>5 DEF LrPost, Units
<1>6. ASSUME NEW h \in Harts, ScWait(h) PROVE UnitsInv'
  <2>1. value[h] = word /\ word > 0 /\ pc[Boot] # "init"
    BY <1>6 DEF ScWait, StoreConditional, ReservationFresh
  <2>2. word' = word - 1
    <3>1. word - 1 \in 0 .. WordMod - 1
      BY <2>1
    <3>2. (word - 1) % WordMod = word - 1
      BY <3>1
    <3> QED
      BY <1>6, <2>1, <3>2 DEF ScWait, StoreConditional
  <2>3. \A g \in Harts : holding'[g] = IF g = h THEN holding[g] + 1 ELSE holding[g]
    BY <1>6 DEF ScWait
  <2>4. Total(holding', Harts) = Total(holding, Harts) + 1
    <3>1. \A g \in Harts : holding[g] \in Int
      OBVIOUS
    <3>2. \A f, k :
            /\ \A g \in Harts : f[g] \in Int
            /\ \A g \in Harts : k[g] = IF g = h THEN f[g] + 1 ELSE f[g]
            => Total(k, Harts) = Total(f, Harts) + 1
      BY TotalChange
    <3> HIDE DEF TypeOK, PC, UnitsInv
    <3> QED
      BY <2>3, <3>1, <3>2
  <2>5. Total(holding, Harts) \in Nat
    BY TotalAtLeast
  <2>6. Units' = Units
    BY <2>2, <2>4, <2>5 DEF Units
  <2> QED
    BY <1>6, <2>1, <2>3, <2>6 DEF ScWait
<1>7. ASSUME NEW h \in Harts, ScPost(h) PROVE UnitsInv'
  <2>1. value[h] = word /\ holding[h] > 0 /\ pc[Boot] # "init"
    BY <1>7 DEF ScPost, StoreConditional, ReservationFresh
  <2>2. Total(holding, Harts) \in Nat /\ holding[h] <= Total(holding, Harts)
    BY TotalAtLeast
  <2>3. word + 1 <= Provided
    BY <2>1, <2>2 DEF Units
  <2>4. word' = word + 1
    <3>1. word + 1 \in 0 .. WordMod - 1
      BY <2>3, ProvidedType DEF UnitsFit
    <3>2. (word + 1) % WordMod = word + 1
      BY <3>1
    <3> QED
      BY <1>7, <2>1, <3>2 DEF ScPost, StoreConditional
  <2>5. \A g \in Harts : holding'[g] = IF g = h THEN holding[g] + (-1) ELSE holding[g]
    BY <1>7 DEF ScPost
  <2>6. Total(holding', Harts) = Total(holding, Harts) + (-1)
    <3>1. \A g \in Harts : holding[g] \in Int
      OBVIOUS
    <3>2. \A f, k :
            /\ \A g \in Harts : f[g] \in Int
            /\ \A g \in Harts : k[g] = IF g = h THEN f[g] + (-1) ELSE f[g]
            => Total(k, Harts) = Total(f, Harts) + (-1)
      BY TotalChange
    <3> HIDE DEF TypeOK, PC, UnitsInv
    <3> QED
      BY <2>5, <3>1, <3>2
  <2>7. Units' = Units
    BY <2>2, <2>4, <2>6 DEF Units
  <2> QED
    BY <1>7, <2>1, <2>5, <2>7 DEF ScPost
<1>8. ASSUME NEW h \in Harts, ScFail(h) PROVE UnitsInv'
  BY <1>8 DEF ScFail, Units
<1>9. ASSUME NEW h \in Harts, LoseReservation(h) PROVE UnitsInv'
  BY <1>9 DEF LoseReservation, Units
<1>10. CASE UNCHANGED vars
  BY <1>10 DEF vars, Units
<1> QED
  BY <1>1, <1>2, <1>3, <1>4, <1>5, <1>6, <1>7, <1>8, <1>9, <1>10 DEF Next, Step

(* If the word can hold all units there ever are, none is lost or invented.*)
THEOREM UnitsAlwaysConserved == UnitsFit /\ Spec => []UnitsConserved
<1>1. CASE UnitsFit
  <2>1. TypeOK /\ ReservationFresh /\ UnitsInv /\ [Next]_vars => UnitsInv'
    BY <1>1, UnitsStep
  <2>2. UnitsInv => UnitsConserved
    BY DEF UnitsInv, UnitsConserved, Units, Provided, Total
  <2> QED
    BY <2>1, <2>2, UnitsInit, TypeCorrect, FreshReservation, PTL DEF Spec
<1> QED
  BY <1>1
=============================================================================
