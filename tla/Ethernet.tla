------------------------------ MODULE Ethernet ------------------------------
(***************************************************************************)
(* ethernet.h and ethernet.cpp: a thread polls a tap interface of the host *)
(* and keeps one frame for the program, which is told by an interrupt and  *)
(* takes the frame by writing RECV into the status register.               *)
(*                                                                         *)
(* A frame is known by its place in the order of arrival.  The tap is      *)
(* external: what arrives, and whether a call fails, is not ours to say.   *)
(*                                                                         *)
(* The copy goes to mem[receive_dst - 0x80000000], but the RAM starts at 0 *)
(* (or, if the options move it, above the FFT at 0x80000000, never there): *)
(* the bytes land outside the RAM, or in another place of it than the      *)
(* program named, and the simulator crashes or not.                        *)
(*                                                                         *)
(* A program that writes receive_size or mac itself is not modelled: the   *)
(* first is for the device to set, the second is its address for good.     *)
(***************************************************************************)
EXTENDS Naturals, Sequences

CONSTANTS
  Period,   (* milliseconds between two polls                              *)
  Frames,   (* the frames that may arrive: records of destination, source  *)
            (* and type                                                    *)
  MaxFrames (* bound: how many arrive                                      *)

ASSUME EthernetAssumption ==
  /\ Period \in Nat \ {0} /\ MaxFrames \in Nat
  /\ Frames \subseteq [dst : {"own", "broadcast", "other"}, src : {"own", "other"},
                       type : {"ip", "arp", "other"}]

VARIABLES
  arrived,      (* history: the frames that came to the tap, in order      *)
  pos,          (* how many of them have been read                         *)
  recv_frame_buf, (* the frame in the buffer, 0 before the first           *)
  receive_size, (* the frame whose size the register shows, or 0           *)
  has_frame,    (* not initialised                                         *)
  wait,         (* milliseconds until the thread's event                   *)
  etherIrq,     (* the interrupt is pending at the PLIC                    *)
  told,         (* the program has taken the interrupt, not the frame yet  *)
  taken,        (* history: the frames copied out, with the size in use    *)
  failed        (* "none", or what ended the simulation                    *)

device == <<recv_frame_buf, receive_size, has_frame>>
etherVars ==
  <<arrived, pos, device, wait, etherIrq, told, taken, failed>>

EthernetInit ==
  /\ arrived = <<>> /\ pos = 0
  /\ recv_frame_buf = 0 /\ receive_size = 0
  /\ has_frame \in BOOLEAN
  /\ wait = Period
  /\ etherIrq = FALSE /\ told = FALSE
  /\ taken = <<>> /\ failed = "none"
-----------------------------------------------------------------------------
(* isPacketForUs. *)
IsPacketForUs(f) ==
  /\ f.dst = "own" \/ (f.dst = "broadcast" /\ f.src # "own")
  /\ f.type \in {"ip", "arp"}

(* The places of the frames for us among those behind the i-th. *)
ForUsBehind(i) == {k \in i + 1 .. Len(arrived) : IsPacketForUs(arrived[k])}

(* while (!try_recv_raw_frame()): how far the tap is read, to the next     *)
(* frame for us or to its end.                                             *)
ReadUpTo ==
  IF ForUsBehind(pos) = {} THEN Len(arrived)
  ELSE CHOOSE k \in ForUsBehind(pos) : \A j \in ForUsBehind(pos) : k <= j

Found == ForUsBehind(pos) # {} /\ IsPacketForUs(arrived[ReadUpTo])

(* Mutant: without the test of has_frame. *)
PollAnyway ==
  /\ failed = "none"
  /\ wait = 0
  /\ wait' = Period
  /\ pos' = ReadUpTo
  /\ recv_frame_buf' = IF ReadUpTo > pos THEN ReadUpTo ELSE recv_frame_buf
  /\ has_frame' = (Found \/ has_frame)
  /\ receive_size' = IF Found THEN ReadUpTo ELSE receive_size
  /\ etherIrq' = (etherIrq \/ has_frame')
  /\ UNCHANGED <<arrived, told, taken, failed>>

(* run, once its event has come: no frame is read while one is kept.       *)
Poll ==
  /\ failed = "none"
  /\ wait = 0
  /\ wait' = Period
  /\ \/ /\ has_frame
        /\ UNCHANGED <<pos, device, etherIrq>>
     \/ /\ ~has_frame
        /\ pos' = ReadUpTo
        /\ recv_frame_buf' = IF ReadUpTo > pos THEN ReadUpTo ELSE recv_frame_buf
        /\ has_frame' = Found
        /\ receive_size' = IF Found THEN ReadUpTo ELSE receive_size
        /\ etherIrq' = (etherIrq \/ Found)
  /\ UNCHANGED <<arrived, told, taken, failed>>

(* The tap fails or is closed: try_recv_raw_frame throws. *)
TapFails ==
  /\ failed = "none"
  /\ wait = 0 /\ ~has_frame
  /\ failed' = "tap"
  /\ UNCHANGED <<arrived, pos, device, wait, etherIrq, told, taken>>

Arrive(f) ==
  /\ failed = "none"
  /\ Len(arrived) < MaxFrames
  /\ arrived' = Append(arrived, f)
  /\ UNCHANGED <<pos, device, wait, etherIrq, told, taken, failed>>

ClaimEther ==
  /\ failed = "none"
  /\ etherIrq
  /\ etherIrq' = FALSE /\ told' = TRUE
  /\ UNCHANGED <<arrived, pos, device, wait, taken, failed>>

(* Mutant: without has_frame = false. *)
RecvKeepsFrame ==
  /\ failed = "none"
  /\ told
  /\ told' = FALSE
  /\ IF has_frame
       THEN /\ taken' = Append(taken, [frame |-> recv_frame_buf, size |-> receive_size])
            /\ failed' \in {"none", "memory"}
            /\ receive_size' = 0
       ELSE /\ failed' = "assertion"
            /\ UNCHANGED <<taken, receive_size>>
  /\ UNCHANGED <<arrived, pos, recv_frame_buf, has_frame, wait, etherIrq>>

(* RECV is written into the status register, once per interrupt.           *)
Recv ==
  /\ failed = "none"
  /\ told
  /\ told' = FALSE
  /\ IF has_frame
       THEN /\ taken' = Append(taken, [frame |-> recv_frame_buf, size |-> receive_size])
            /\ failed' \in {"none", "memory"}
            /\ has_frame' = FALSE /\ receive_size' = 0
       ELSE /\ failed' = "assertion"
            /\ UNCHANGED <<taken, has_frame, receive_size>>
  /\ UNCHANGED <<arrived, pos, recv_frame_buf, wait, etherIrq>>

(* SEND: the bytes come from the wrong place as well, so the assertions on *)
(* the source address and on the write to the tap may hold or not.         *)
Send ==
  /\ failed = "none"
  /\ failed' \in {"none", "memory", "assertion"}
  /\ UNCHANGED <<arrived, pos, device, wait, etherIrq, told, taken>>

(* A value that is neither, in the status register: an exception. *)
UnsupportedOperation ==
  /\ failed = "none"
  /\ failed' = "operation"
  /\ UNCHANGED <<arrived, pos, device, wait, etherIrq, told, taken>>

EthernetTick ==
  /\ failed = "none"
  /\ wait > 0
  /\ wait' = wait - 1
  /\ UNCHANGED <<arrived, pos, device, etherIrq, told, taken, failed>>

EthernetProgram == ClaimEther \/ Recv \/ Send \/ UnsupportedOperation
Tap == TapFails \/ \E f \in Frames : Arrive(f)

EthernetNext == EthernetProgram \/ Poll \/ Tap \/ EthernetTick

EthernetSpec == EthernetInit /\ [][EthernetNext]_etherVars
-----------------------------------------------------------------------------
EthernetTypeOK ==
  /\ arrived \in Seq(Frames) /\ Len(arrived) <= MaxFrames
  /\ {pos, recv_frame_buf, receive_size} \subseteq 0 .. Len(arrived)
  /\ {has_frame, etherIrq, told} \subseteq BOOLEAN
  /\ wait \in 0 .. Period
  /\ Len(taken) <= MaxFrames
  /\ failed \in {"none", "tap", "memory", "assertion", "operation"}

(* What the program takes is every frame for it, once, whole and in the    *)
(* order of arrival - except that the last may still wait in the buffer,   *)
(* and then exactly one interrupt stands for it, pending or taken.  (A     *)
(* frame that has_frame claims before anything was read has no size.)      *)
FramesOnce ==
  LET forUs == {k \in 1 .. pos : IsPacketForUs(arrived[k])}
      kept == IF has_frame /\ receive_size # 0 THEN {recv_frame_buf} ELSE {}
  IN  /\ {taken[i].frame : i \in 1 .. Len(taken)} \union kept = forUs
      /\ \A i \in 1 .. Len(taken) :
           /\ taken[i].size = taken[i].frame
           /\ i > 1 => taken[i - 1].frame < taken[i].frame
           /\ taken[i].frame \notin kept
      /\ (kept # {}) <=> (etherIrq \/ told)
      /\ ~(etherIrq /\ told)

(* Unless has_frame starts out true, every frame for the program that      *)
(* comes to the tap is taken in the end, or the simulation fails.  (If it  *)
(* does start out true no interrupt ever comes and nothing is received.)   *)
FramesTaken ==
  ~has_frame =>
    \A k \in 1 .. MaxFrames :
      (Len(arrived) >= k /\ IsPacketForUs(arrived[k]))
        ~> (failed # "none" \/ \E i \in 1 .. Len(taken) : taken[i].frame = k)
=============================================================================
