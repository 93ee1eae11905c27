-------------------------- MODULE MCFilterPipeline --------------------------
(* An image of nine pixels, of which one has its whole window, FIFOs       *)
(* shallower than a window, and all colours; or a column of pixels of      *)
(* which only red is fetched.  In red the middle of the image is dark and  *)
(* bright around (the edge there is negative), in green it is bright and   *)
(* dark around (the edge exceeds a byte), and blue is even.                *)
EXTENDS FilterPipeline, TLC

AllColours == {"red", "green", "blue"}
OnlyRed == {"red"}

Picture(x, y, c) ==
  CASE c = "red"   -> IF <<x, y>> = <<1, 1>> THEN 10 ELSE 200
    [] c = "green" -> IF <<x, y>> = <<1, 1>> THEN 255 ELSE 3 * x + y
    [] c = "blue"  -> 255

Program(lanes, split, columns, socket, kernel, invalid) ==
  [lanes |-> lanes, split |-> split, columns |-> columns, socket |-> socket,
   kernel |-> kernel, invalid |-> invalid]

(* HW1 and HW2/FIFO; HW2/FIFO_batch; HW3 and HW4; HW5; Midterm, as two     *)
(* builds have it.                                                         *)
AllVariants ==
  {Program(1, FALSE, FALSE, FALSE, "normalised", 0),
   Program(3, FALSE, FALSE, FALSE, "normalised", 0),
   Program(1, FALSE, FALSE, TRUE, "normalised", 0),
   Program(1, TRUE, FALSE, FALSE, "blur", 0),
   Program(1, TRUE, FALSE, FALSE, "edges", 0), Program(1, TRUE, FALSE, FALSE, "edges", 255)}
(* HW6. *)
OneThread == {Program(1, FALSE, TRUE, TRUE, "blur", 0)}
=============================================================================
