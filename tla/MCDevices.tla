----------------------------- MODULE MCDevices -----------------------------
(* A medium of two blocks of two words that is taken for three, an address *)
(* register that can name a fourth; a sensor with at most four             *)
(* milliseconds; three frames, of which the four kinds are: for us, for    *)
(* everybody, our own broadcast, and of a protocol that is not taken.      *)
EXTENDS Devices

CONSTANT unknown

Frame(dst, src, type) == [dst |-> dst, src |-> src, type |-> type]

SomeFrames == {Frame("own", "other", "ip"), Frame("broadcast", "other", "arp"),
               Frame("broadcast", "own", "ip"), Frame("own", "other", "other")}
Bits == {0, 1}
Halves == {1, 2}
=============================================================================
