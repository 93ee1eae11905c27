------------------------- MODULE CountingSemaphore -------------------------
(***************************************************************************)
(* What the semaphores of the dual-core programs promise: a counter that   *)
(* sem_init sets once, that sem_wait decrements in one step when it is not *)
(* zero, and that sem_post increments in one step.  A call is made, stays  *)
(* pending, and takes effect in exactly one step.                          *)
(*                                                                         *)
(* The counter is a machine word: it is counted modulo WordMod, as the     *)
(* uint32_t of the programs is counted modulo 2^32.                        *)
(***************************************************************************)
EXTENDS Integers

CONSTANTS
  Harts,     (* the harts that share the semaphore                         *)
  Boot,      (* the hart that runs sem_init (hart 0)                       *)
  InitCount, (* the count passed to sem_init                               *)
  Grant,     (* Grant[h]: units h may post without having waited for them  *)
  WordMod    (* number of values of the semaphore's word                   *)

VARIABLES
  count,   (* the value of the semaphore                                   *)
  call,    (* call[h]: the call h has pending                              *)
  holding  (* holding[h]: the units h owes, taken or granted               *)

vars == <<count, call, holding>>

Init ==
  /\ count = 0
  /\ call = [h \in Harts |-> IF h = Boot THEN "init" ELSE "idle"]
  /\ holding = Grant

SemInit ==
  /\ call[Boot] = "init"
  /\ count' = InitCount
  /\ call' = [call EXCEPT ![Boot] = "idle"]
  /\ UNCHANGED holding

(* No hart waits for a unit while it still has units to give back. *)
CallWait(h) ==
  /\ call[h] = "idle"
  /\ holding[h] = 0
  /\ call' = [call EXCEPT ![h] = "wait"]
  /\ UNCHANGED <<count, holding>>

(* A hart posts only units it took or was granted, and only when the       *)
(* semaphore has been initialised.                                         *)
CallPost(h) ==
  /\ call[h] = "idle"
  /\ call[Boot] # "init"
  /\ holding[h] > 0
  /\ call' = [call EXCEPT ![h] = "post"]
  /\ UNCHANGED <<count, holding>>

Wait(h) ==
  /\ call[h] = "wait"
  /\ count > 0
  /\ count' = count - 1
  /\ call' = [call EXCEPT ![h] = "idle"]
  /\ holding' = [holding EXCEPT ![h] = @ + 1]

Post(h) ==
  /\ call[h] = "post"
  /\ count' = (count + 1) % WordMod
  /\ call' = [call EXCEPT ![h] = "idle"]
  /\ holding' = [holding EXCEPT ![h] = @ - 1]

Next ==
  \/ SemInit
  \/ \E h \in Harts : CallWait(h) \/ CallPost(h) \/ Wait(h) \/ Post(h)

Spec == Init /\ [][Next]_vars
=============================================================================
