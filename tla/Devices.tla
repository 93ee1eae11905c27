------------------------------ MODULE Devices ------------------------------
(***************************************************************************)
(* The devices of the single-core platform (basic-acc/main.cpp) on one     *)
(* simulated clock: the sensor, the Ethernet device and the flash          *)
(* controller.  The last two exist only with the option that names their   *)
(* host device.  A program uses one of the three.  The sensor's thread     *)
(* runs in any case, but is left out where the program uses the flash,     *)
(* which neither waits nor interrupts.  A failing Ethernet device ends the *)
(* simulation.                                                             *)
(***************************************************************************)
EXTENDS FlashController, Sensor, Ethernet

VARIABLE uses (* the device the program uses; never changes                *)

vars == <<uses, flashVars, sensorVars, etherVars>>

(* A device that is not used is in one of its initial states. *)
Init ==
  /\ uses \in {"flash", "network", "sensor"}
  /\ FlashInit /\ SensorInit /\ EthernetInit
  /\ uses # "flash" =>
       /\ got = CHOOSE v \in Values : TRUE
       /\ buf = [w \in Words |-> got]
       /\ disk = [b \in Blocks |-> buf]
  /\ uses # "network" => ~has_frame

Clocked == uses # "flash" /\ failed = "none"

UseFlash ==
  /\ uses = "flash"
  /\ FlashNext
  /\ UNCHANGED <<uses, sensorVars, etherVars>>

UseNetwork ==
  /\ uses = "network"
  /\ EthernetProgram \/ Poll \/ Tap
  /\ UNCHANGED <<uses, flashVars, sensorVars>>

UseSensor ==
  /\ uses = "sensor"
  /\ SensorProgram
  /\ UNCHANGED <<uses, flashVars, etherVars>>

RunSensor ==
  /\ Clocked
  /\ SensorThread
  /\ UNCHANGED <<uses, flashVars, etherVars>>

(* Simulated time goes on when no thread has anything left to do; without  *)
(* a network device the thread of the Ethernet device has ended.           *)
Tick ==
  /\ Clocked
  /\ SensorTick
  /\ IF uses = "network" THEN EthernetTick ELSE UNCHANGED etherVars
  /\ UNCHANGED <<uses, flashVars>>

Next == UseFlash \/ UseNetwork \/ UseSensor \/ RunSensor \/ Tick

Spec == Init /\ [][Next]_vars

(* The simulation kernel runs the threads and lets time go on; the driver  *)
(* of the Ethernet device answers its interrupts.                          *)
FairSpec ==
  /\ Spec
  /\ WF_vars(Tick) /\ WF_vars(RunSensor)
  /\ WF_vars(UseNetwork /\ Poll)
  /\ WF_vars(UseNetwork /\ ClaimEther) /\ WF_vars(UseNetwork /\ Recv)
-----------------------------------------------------------------------------
TypeOK ==
  /\ uses \in {"flash", "network", "sensor"}
  /\ FlashTypeOK /\ SensorTypeOK /\ EthernetTypeOK
=============================================================================
