------------------------------- MODULE Sensor -------------------------------
(***************************************************************************)
(* sensor.h and sensor2.h (the same behaviour, once with the register      *)
(* layer of the platform): a thread fills a frame with random characters   *)
(* and interrupts, every "scaler" milliseconds.  The program reads the     *)
(* frame, over several transactions, and may change scaler and filter at   *)
(* any time.                                                               *)
(*                                                                         *)
(* run_event follows the rules of the SystemC kernel: it has at most one   *)
(* pending notification; a notification later than the pending one is      *)
(* dropped, an earlier one replaces it.                                    *)
(***************************************************************************)
EXTENDS Naturals

CONSTANTS
  MaxScaler,     (* 100                                                    *)
  DefaultScaler, (* 25                                                     *)
  Parts          (* the pieces in which the program reads the frame        *)

ASSUME SensorAssumption ==
  /\ MaxScaler \in Nat /\ DefaultScaler \in 1 .. MaxScaler

Kinds == {"digits", "letters", "any"}
NoTime == MaxScaler + 1

VARIABLES
  scaler, filter,
  left,     (* milliseconds until run_event fires, or NoTime               *)
  thread,   (* run: "start", "waiting", or "woken" by its event            *)
  frame,    (* the kind of characters in data_frame; "none" at first       *)
  irq,      (* the interrupt is pending at the PLIC                        *)
  copied,   (* copied[p]: the piece p the program has is of the "current"  *)
            (* frame or an "old" one, or "none"                            *)
  since     (* history: milliseconds since the last frame or the last      *)
            (* accepted write of scaler                                    *)

sensorRegs == <<scaler, filter>>
sensorVars == <<sensorRegs, left, thread, frame, irq, copied, since>>

SensorInit ==
  /\ scaler = DefaultScaler /\ filter = 0
  /\ left = NoTime /\ thread = "start"
  /\ frame = "none" /\ irq = FALSE
  /\ copied = [p \in Parts |-> "none"]
  /\ since = 0

(* notify(t), with another notification pending at l. *)
Notified(l, t) == IF t < l THEN t ELSE l
-----------------------------------------------------------------------------
(* Mutant: without run_event.cancel(). *)
WriteScalerUncancelled(v) ==
  /\ IF v \in 1 .. MaxScaler
       THEN scaler' = v /\ left' = Notified(left, v) /\ since' = 0
       ELSE UNCHANGED <<scaler, left, since>>
  /\ UNCHANGED <<filter, thread, frame, irq, copied>>

(* Mutant: an upper bound that is off by one. *)
WriteScalerBeyond(v) ==
  /\ IF v \in 1 .. MaxScaler + 1
       THEN scaler' = v /\ left' = v /\ since' = 0
       ELSE UNCHANGED <<scaler, left, since>>
  /\ UNCHANGED <<filter, thread, frame, irq, copied>>

(* A write of the scaler register: an invalid value is ignored, a valid    *)
(* one starts the wait anew.                                               *)
WriteScaler(v) ==
  /\ IF v \in 1 .. MaxScaler
       THEN scaler' = v /\ left' = Notified(NoTime, v) /\ since' = 0
       ELSE UNCHANGED <<scaler, left, since>>
  /\ UNCHANGED <<filter, thread, frame, irq, copied>>

WriteFilter(v) ==
  /\ filter' = v
  /\ UNCHANGED <<scaler, left, thread, frame, irq, copied, since>>

(* A read transaction on the frame. *)
ReadPart(p) ==
  /\ copied' = [copied EXCEPT ![p] = "current"]
  /\ UNCHANGED <<sensorRegs, left, thread, frame, irq, since>>

(* The program takes the interrupt and starts to read the frame. *)
ClaimFrame ==
  /\ irq
  /\ irq' = FALSE
  /\ copied' = [p \in Parts |-> "none"]
  /\ UNCHANGED <<sensorRegs, left, thread, frame, since>>

(* The thread comes to its first wait. *)
StartSensor ==
  /\ thread = "start"
  /\ thread' = "waiting"
  /\ left' = Notified(left, scaler)
  /\ UNCHANGED <<sensorRegs, frame, irq, copied, since>>

Kind(f) == IF f = 1 THEN "digits" ELSE IF f = 2 THEN "letters" ELSE "any"

Aged == [p \in Parts |-> IF copied[p] = "current" THEN "old" ELSE copied[p]]

(* Mutant: one interrupt per change of the kind. *)
FillFrameQuietly ==
  /\ thread = "woken"
  /\ frame' = Kind(filter)
  /\ irq' = (irq \/ frame' # frame)
  /\ copied' = Aged
  /\ thread' = "waiting"
  /\ left' = Notified(left, scaler)
  /\ since' = 0
  /\ UNCHANGED sensorRegs

(* The thread fills the frame, interrupts, and notifies for the next one.  *)
FillFrame ==
  /\ thread = "woken"
  /\ frame' = Kind(filter)
  /\ irq' = TRUE
  /\ copied' = Aged
  /\ thread' = "waiting"
  /\ left' = Notified(left, scaler)
  /\ since' = 0
  /\ UNCHANGED sensorRegs

(* The event fires; the threads of this instant, the program's too, then   *)
(* run in any order.                                                       *)
FireSensor ==
  /\ left = 0
  /\ left' = NoTime
  /\ thread' = "woken"
  /\ UNCHANGED <<sensorRegs, frame, irq, copied, since>>

(* A millisecond, when nothing is left to do at this instant. *)
SensorTick ==
  /\ thread = "waiting" /\ left > 0
  /\ left' = IF left = NoTime THEN left ELSE left - 1
  /\ since' = IF left = NoTime THEN since ELSE since + 1
  /\ UNCHANGED <<sensorRegs, thread, frame, irq, copied>>

SensorProgram ==
  \/ \E v \in 0 .. MaxScaler + 1 : WriteScaler(v)
  \/ \E v \in 0 .. 3 : WriteFilter(v)
  \/ \E p \in Parts : ReadPart(p)
  \/ ClaimFrame

SensorThread == StartSensor \/ FireSensor \/ FillFrame

SensorNext == SensorProgram \/ SensorThread \/ SensorTick

SensorSpec == SensorInit /\ [][SensorNext]_sensorVars
-----------------------------------------------------------------------------
SensorTypeOK ==
  /\ scaler \in 1 .. MaxScaler /\ filter \in 0 .. 3
  /\ left \in 0 .. NoTime /\ thread \in {"start", "waiting", "woken"}
  /\ frame \in Kinds \union {"none"} /\ irq \in BOOLEAN
  /\ copied \in [Parts -> {"none", "current", "old"}]
  /\ since \in 0 .. MaxScaler

(* A sensor never falls silent and never hurries: while the thread waits,  *)
(* its event is pending, exactly "scaler" milliseconds after the last      *)
(* frame or the last accepted write, whichever came later - however the    *)
(* writes fall between firing, filling and notifying.                      *)
FramesOnTime ==
  /\ thread = "waiting" => left # NoTime
  /\ left # NoTime => left + since = scaler

(* The frame is filled under the program's hands, but not unnoticed: a     *)
(* program that has read all pieces since its interrupt, and finds no new  *)
(* interrupt, has one frame, and the current one.                          *)
FrameWhole ==
  (\A p \in Parts : copied[p] # "none") /\ ~irq =>
    \A p \in Parts : copied[p] = "current"
=============================================================================
