---------------------------- MODULE BlockDevice ----------------------------
(***************************************************************************)
(* What a program may expect of the flash controller: an array of blocks   *)
(* that it reads and writes a word at a time and that outlives it.         *)
(*                                                                         *)
(* Two things can go wrong, and only in these ways.  A failing call of the *)
(* host system leaves the content of a block unknown, but only of the      *)
(* block that is accessed and of the one accessed before it.  And when the *)
(* simulator is killed, the block accessed last goes back to what it was   *)
(* when the program came to it; every other block keeps what was written.  *)
(***************************************************************************)
CONSTANTS
  Numbers, (* the block numbers the controller accepts                     *)
  Blocks,  (* the blocks of the medium                                     *)
  Words,   (* the places of a block                                        *)
  Values,  (* what a place holds                                           *)
  Unknown, (* stands for the content of a block after a failed call        *)
  None     (* no block                                                     *)

Content == [Words -> Values]

VARIABLES
  content, (* content[b]: the block as the program sees it                 *)
  recent,  (* the block accessed last, or None                             *)
  before,  (* its content when the program came to it                      *)
  got      (* the word read last                                           *)

vars == <<content, recent, before, got>>

Init ==
  /\ content \in [Blocks -> Content]
  /\ recent = None /\ before = Unknown
  /\ got \in Values

(* The content after failing calls on the blocks of D, of which there are  *)
(* none while the program stays at a block.                                *)
Failed(D) == [b \in Blocks |-> IF b \in D THEN Unknown ELSE content[b]]

Failures(b) == IF b = recent THEN {{}} ELSE SUBSET {recent, b}

Entered(b, D) ==
  IF b = recent THEN before ELSE IF b \in Blocks THEN Failed(D)[b] ELSE Unknown

Known(b, D) == b \in Blocks /\ Failed(D)[b] # Unknown

Read(b, w) ==
  \E D \in Failures(b) :
    /\ content' = Failed(D)
    /\ before' = Entered(b, D)
    /\ recent' = b
    /\ got' \in IF Known(b, D) THEN {Failed(D)[b][w]} ELSE Values

Write(b, w, v) ==
  \E D \in Failures(b) :
    /\ content' = IF Known(b, D) THEN [Failed(D) EXCEPT ![b][w] = v] ELSE Failed(D)
    /\ before' = Entered(b, D)
    /\ recent' = b
    /\ UNCHANGED got

(* The simulation ends in order; the last block may fail to be written. *)
Close ==
  /\ \E D \in SUBSET {recent} : content' = Failed(D)
  /\ recent' = None /\ before' = Unknown
  /\ UNCHANGED got

Kill ==
  /\ content' = [b \in Blocks |->
       IF b = recent /\ content[b] # Unknown THEN before ELSE content[b]]
  /\ recent' = None /\ before' = Unknown
  /\ UNCHANGED got

Next ==
  \/ \E b \in Numbers, w \in Words :
       Read(b, w) \/ \E v \in Values : Write(b, w, v)
  \/ Close
  \/ Kill

Spec == Init /\ [][Next]_vars
=============================================================================
