--------------------------- MODULE FilterPipeline ---------------------------
(***************************************************************************)
(* The image filters of HW1 to HW6 and Midterm: a testbench (or the        *)
(* software of HW6) feeds the window of every pixel, in three colours, to  *)
(* a filter thread over FIFOs and fetches a result per pixel and colour.   *)
(*                                                                         *)
(* In HW1 to HW4 and HW6 one thread feeds a window and then fetches its    *)
(* result; in HW5 and Midterm two threads do so, each at its own pace, and *)
(* the loop counters are unsigned.  In HW2/FIFO_batch each column of the   *)
(* window has a FIFO of its own.  HW3, HW4 and HW6 reach the same FIFOs    *)
(* through blocking_transport, which waits where a FIFO does, and HW6 goes *)
(* through the image by columns.                                           *)
(*                                                                         *)
(* A weighted sum is kept as the sequence of its samples in the order of   *)
(* the weights: two sums are the same only if sample and weight are paired *)
(* the same way.  The numbers that arithmetic may make of it, and the byte *)
(* made of a number, are functions of the sequence.  The filter is a blur, *)
(* or the edge detection of Midterm, whose weights are negative and whose  *)
(* sums are sc_uint<32>.  The weights of a blur are decimals that add up   *)
(* to slightly more than 1 (HW5, HW6), or are computed and divided by      *)
(* their sum (HW1 to HW4).                                                 *)
(***************************************************************************)
EXTENDS Integers, Sequences, FiniteSets, FiniteSetsExt

CONSTANTS
  Width, Height, (* of the image                                           *)
  Depth,         (* the capacity of a FIFO                                 *)
  Variants,      (* the programs: FIFOs per colour into the filter (lanes: *)
                 (* 1, or 3), whether feeding and fetching are two threads *)
                 (* (split), whether they go by columns, whether they use  *)
                 (* a socket, the kernel ("blur", "normalised" or "edges"),*)
                 (* and the byte that the build makes of a double no int   *)
                 (* can hold, which C++ leaves open                        *)
  Fetched,       (* the colours that are fetched                           *)
  WordMod,       (* the unsigned integers are 0 .. WordMod - 1             *)
  SumMod,        (* the values of an sc_uint<32>; at least 2^13            *)
  Brightness(_, _, _) (* source_bitmap: of the pixel x, y, in a colour     *)

FilterWidth == 3

ASSUME PipelineAssumption ==
  /\ {Width, Height, Depth} \subseteq Nat \ {0}
  /\ Variants \subseteq
       [lanes : {1, FilterWidth}, split : BOOLEAN, columns : BOOLEAN, socket : BOOLEAN,
        kernel : {"blur", "normalised", "edges"}, invalid : {0, 255}]
  /\ SumMod \in Nat /\ SumMod >= 8192
  /\ WordMod \in Nat
  /\ Width < WordMod - 1 /\ Height < WordMod - 1

Colours == <<"red", "green", "blue">>
Colour == {Colours[i] : i \in 1 .. 3}

ASSUME FetchedAssumption == Fetched \subseteq Colour /\ Fetched # {}

(* A sample is an unsigned char of the bitmap. *)
ASSUME BrightnessAssumption ==
  \A x \in 0 .. Width - 1, y \in 0 .. Height - 1, c \in Colour :
    Brightness(x, y, c) \in 0 .. 255

Taps == 9                        (* filterWidth * filterHeight             *)
Pixels == Width * Height

VARIABLES
  variant, (* the program this behaviour is of; never changes              *)
  rst,     (* o_rst: the filter is released                                *)
  turn,    (* what the testbench does, when it is one thread               *)
  feed,    (* feed.pixel, .tap, .colour: what is fed next                  *)
  fetch,   (* fetch.pixel, .colour: what is fetched next                   *)
  stopped, (* sc_stop was called                                           *)
  inFifo,  (* inFifo[c][l]: the FIFO of colour c and lane l                *)
  outFifo, (* outFifo[c]: the results                                      *)
  work,    (* work.stage, .tap, .colour: where do_filter is                *)
  sum,     (* sum[c]: the members red, green and blue of the filter        *)
  target   (* target[p][c]: target_bitmap; <<>> until written              *)

vars ==
  <<variant, rst, turn, feed, fetch, stopped, inFifo, outFifo, work, sum, target>>

Init ==
  /\ variant \in Variants
  /\ rst = FALSE /\ turn = "feed" /\ stopped = FALSE
  /\ feed = [pixel |-> 0, tap |-> 0, colour |-> 1]
  /\ fetch = [pixel |-> 0, colour |-> 1]
  /\ inFifo = [c \in Colour |-> [l \in 0 .. variant.lanes - 1 |-> <<>>]]
  /\ outFifo = [c \in Colour |-> <<>>]
  /\ work = [stage |-> "reading", tap |-> 0, colour |-> 1]
  /\ sum = [c \in Colour |-> <<>>]
  /\ target = [p \in 0 .. Pixels - 1 |-> [c \in Colour |-> <<>>]]
-----------------------------------------------------------------------------
(* The loops "for y, for x" and "for v, for u", counted by one number      *)
(* each; the unsigned counters of HW5 start at -1 modulo WordMod.          *)
Int32(z) == IF variant.split THEN z % WordMod ELSE z

X(p) == IF variant.columns THEN p \div Height ELSE p % Width
Y(p) == IF variant.columns THEN p % Height ELSE p \div Width

Across(t) == (IF variant.columns THEN t \div FilterWidth ELSE t % FilterWidth) - 1
Down(t)   == (IF variant.columns THEN t % FilterWidth ELSE t \div FilterWidth) - 1

U(t) == Int32(Across(t))
V(t) == Int32(Down(t))

(* What is fed outside the image. *)
Zero == <<-1, -1>>

(* Mutant: one column and row too many. *)
SampleBeyond(p, t) ==
  LET a == Int32(X(p) + U(t))
      b == Int32(Y(p) + V(t))
  IN  IF a >= 0 /\ a <= Width /\ b >= 0 /\ b <= Height THEN <<a, b>> ELSE Zero

(* The test of the border and the place of the sample. *)
Sample(p, t) ==
  LET a == Int32(X(p) + U(t))
      b == Int32(Y(p) + V(t))
  IN  IF a >= 0 /\ a < Width /\ b >= 0 /\ b < Height THEN <<a, b>> ELSE Zero

Lane(t) == t % variant.lanes

(* The ends of the loops: of the window in do_filter, of the pixels in the *)
(* feeder and in the fetcher; two mutants are off by one.                  *)
LastTapLate(t) == t = Taps
LastTap(t) == t = Taps - 1

ToFeedLate(p) == p <= Pixels
ToFeed(p) == p < Pixels

LastPixel(p) == p = Pixels - 1

(* filter[v][u]; in millionths, exact for a blur of HW5 or HW6, and       *)
(* rounded for the others, where it is exp(-(k*k+l*l)/18) over the sum.    *)
BlurWeights == <<77847, 123317, 77847, 123317, 195346, 123317, 77847, 123317, 77847>>

NormalisedWeights ==
  <<106997, 113110, 106997, 113110, 119572, 113110, 106997, 113110, 106997>>

EdgeWeights == <<-1, -1, -1, -1, 8, -1, -1, -1, -1>>

Weights == IF variant.kernel = "blur" THEN BlurWeights
           ELSE IF variant.kernel = "normalised" THEN NormalisedWeights
           ELSE EdgeWeights

(* By less than so many millionths a sum of doubles differs from that of   *)
(* these weights: nine samples times half a millionth, where the weights   *)
(* are rounded, and what is lost between doubles, which is far below one.  *)
Slack == IF variant.kernel = "normalised" THEN 1148 ELSE 1

Amount(s) == IF s.at = Zero THEN 0 ELSE Brightness(s.at[1], s.at[2], s.colour)

WeightedSum(q) == MapThenSumSet(LAMBDA t : Weights[t] * Amount(q[t]), 1 .. Taps)

(* What may come out of the result FIFO: the double, cut to an integer     *)
(* there or behind it, or the sc_uint<32>.  A sum of zeros is exact.       *)
Results(q) ==
  LET w == WeightedSum(q)
  IN  IF variant.kernel = "edges" THEN {w % SumMod}
      ELSE IF w = 0 THEN {0}
      ELSE (w - Slack) \div 1000000 .. (w + Slack - 1) \div 1000000

(* min(max(int(factor * red + bias), 0), 255), red being unsigned or not   *)
(* negative; and a mutant that lets it wrap.                               *)
ToByteWrapped(r) == r % 256

ToByte(r) ==
  IF r >= SumMod \div 2 THEN variant.invalid ELSE IF r > 255 THEN 255 ELSE r

(* red = green = blue = 0; and a mutant that does not do it. *)
KeptSums == sum
ClearedSums == [c \in Colour |-> <<>>]

(* The registers of the socket: where a program reads the result of a      *)
(* colour, and the FIFO that blocking_transport reads there.               *)
ResultAddr(k) == <<4, 8, 12>>[k]

ReadFrom(addr) ==
  IF addr = 4 THEN "red" ELSE IF addr = 8 THEN "green" ELSE "blue"

Source(k) == IF variant.socket THEN ReadFrom(ResultAddr(k)) ELSE Colours[k]

(* o_rst.write(true), after five clocks. *)
ReleaseReset ==
  /\ ~rst
  /\ rst' = TRUE
  /\ UNCHANGED <<variant, turn, feed, fetch, stopped, inFifo, outFifo, work, sum,
                 target>>

(* o_r.write(R); o_g.write(G); o_b.write(B): one of them, waiting for room.*)
(* After the window, a single-threaded testbench fetches.                  *)
Feed ==
  LET c == Colours[feed.colour]
      l == Lane(feed.tap)
  IN  /\ rst /\ ~stopped
      /\ variant.split \/ turn = "feed"
      /\ ToFeed(feed.pixel)
      /\ Len(inFifo[c][l]) < Depth
      /\ inFifo' = [inFifo EXCEPT
           ![c][l] = Append(@, [colour |-> c, at |-> Sample(feed.pixel, feed.tap)])]
      /\ \/ /\ feed.colour < 3
            /\ feed' = [feed EXCEPT !.colour = @ + 1]
            /\ UNCHANGED turn
         \/ /\ feed.colour = 3
            /\ feed.tap < Taps - 1
            /\ feed' = [feed EXCEPT !.colour = 1, !.tap = @ + 1]
            /\ UNCHANGED turn
         \/ /\ feed.colour = 3
            /\ feed.tap = Taps - 1
            /\ feed' = [pixel |-> feed.pixel + 1, tap |-> 0, colour |-> 1]
            /\ turn' = "fetch"
      /\ UNCHANGED <<variant, rst, fetch, stopped, outFifo, work, sum, target>>

(* red += i_r.read() * filter[v][u], then green, then blue. *)
ReadSample ==
  LET c == Colours[work.colour]
      l == Lane(work.tap)
  IN  /\ rst /\ ~stopped
      /\ work.stage = "reading"
      /\ inFifo[c][l] # <<>>
      /\ sum' = [sum EXCEPT ![c] = Append(@, Head(inFifo[c][l]))]
      /\ inFifo' = [inFifo EXCEPT ![c][l] = Tail(@)]
      /\ \/ /\ work.colour < 3
            /\ work' = [work EXCEPT !.colour = @ + 1]
         \/ /\ work.colour = 3
            /\ ~LastTap(work.tap)
            /\ work' = [work EXCEPT !.colour = 1, !.tap = @ + 1]
         \/ /\ work.colour = 3
            /\ LastTap(work.tap)
            /\ work' = [stage |-> "writing", tap |-> 0, colour |-> 1]
      /\ UNCHANGED <<variant, rst, turn, feed, fetch, stopped, outFifo, target>>

(* o_red.write(red); o_green.write(green); o_blue.write(blue): each waits  *)
(* for room; after the last the sums start from zero.                      *)
WriteResult ==
  LET c == Colours[work.colour]
  IN  /\ rst /\ ~stopped
      /\ work.stage = "writing"
      /\ Len(outFifo[c]) < Depth
      /\ outFifo' = [outFifo EXCEPT ![c] = Append(@, sum[c])]
      /\ \/ /\ work.colour < 3
            /\ work' = [work EXCEPT !.colour = @ + 1]
            /\ UNCHANGED sum
         \/ /\ work.colour = 3
            /\ work' = [stage |-> "reading", tap |-> 0, colour |-> 1]
            /\ sum' = ClearedSums
      /\ UNCHANGED <<variant, rst, turn, feed, fetch, stopped, inFifo, target>>

(* red = i_red.read() and so on, the store into target_bitmap, and after   *)
(* the last pixel sc_stop.  The colours not fetched are passed over.       *)
Fetch ==
  LET c == Colours[fetch.colour]
      o == Source(fetch.colour)
  IN  /\ ~stopped
      /\ variant.split \/ turn = "fetch"
      /\ \/ /\ c \in Fetched
            /\ outFifo[o] # <<>>
            /\ target' = [target EXCEPT ![fetch.pixel][c] = Head(outFifo[o])]
            /\ outFifo' = [outFifo EXCEPT ![o] = Tail(@)]
         \/ /\ c \notin Fetched
            /\ UNCHANGED <<target, outFifo>>
      /\ \/ /\ fetch.colour < 3
            /\ fetch' = [fetch EXCEPT !.colour = @ + 1]
            /\ UNCHANGED <<turn, stopped>>
         \/ /\ fetch.colour = 3
            /\ fetch' = [pixel |-> fetch.pixel + 1, colour |-> 1]
            /\ turn' = "feed"
            /\ stopped' = LastPixel(fetch.pixel)
      /\ UNCHANGED <<variant, rst, feed, inFifo, work, sum>>

Next == ReleaseReset \/ Feed \/ ReadSample \/ WriteResult \/ Fetch

Spec == Init /\ [][Next]_vars

(* Testbench and filter are threads of the simulation kernel. *)
FairSpec ==
  /\ Spec
  /\ WF_vars(ReleaseReset) /\ WF_vars(Feed) /\ WF_vars(Fetch)
  /\ WF_vars(ReadSample \/ WriteResult)
-----------------------------------------------------------------------------
TypeOK ==
  /\ variant \in Variants
  /\ rst \in BOOLEAN /\ stopped \in BOOLEAN /\ turn \in {"feed", "fetch"}
  /\ feed \in [pixel : 0 .. Pixels, tap : 0 .. Taps - 1, colour : 1 .. 3]
  /\ fetch \in [pixel : 0 .. Pixels, colour : 1 .. 3]
  /\ work \in [stage : {"reading", "writing"}, tap : 0 .. Taps - 1, colour : 1 .. 3]
  /\ \A c \in Colour :
       /\ Len(outFifo[c]) <= Depth
       /\ Len(sum[c]) <= Taps
       /\ \A l \in 0 .. variant.lanes - 1 : Len(inFifo[c][l]) <= Depth

(* The result of a pixel: its own window, in its own colour, the samples   *)
(* in the order of the weights and zero outside the image.                 *)
Window(p, c) ==
  [t \in 1 .. Taps |->
     LET a == X(p) + Across(t - 1)
         b == Y(p) + Down(t - 1)
     IN  [colour |-> c,
          at |-> IF a \in 0 .. Width - 1 /\ b \in 0 .. Height - 1
                   THEN <<a, b>> ELSE Zero]]

(* Whatever has been stored is right: no sample or result changes places   *)
(* with that of another pixel or colour, in whatever order the threads     *)
(* run, and however far the feeder is ahead of the fetcher.                *)
TargetCorrect ==
  \A p \in 0 .. Pixels - 1, c \in Colour :
    target[p][c] # <<>> => target[p][c] = Window(p, c)

(* The brightness at a place, zero outside the image; the window around a  *)
(* pixel; nine times the pixel less its window.                            *)
Near(a, b, c) ==
  IF a \in 0 .. Width - 1 /\ b \in 0 .. Height - 1 THEN Brightness(a, b, c) ELSE 0

Neighbours(p) == (X(p) - 1 .. X(p) + 1) \X (Y(p) - 1 .. Y(p) + 1)

Seen(p, c) == {Near(at[1], at[2], c) : at \in Neighbours(p)}

Edge(p, c) ==
  9 * Near(X(p), Y(p), c) - MapThenSumSet(LAMBDA at : Near(at[1], at[2], c), Neighbours(p))

(* The byte in target_bitmap, against the filter as it is meant, whichever *)
(* way the doubles are rounded: a blur stays between the darkest and the   *)
(* brightest sample of the window (and keeps an even window as it is), but *)
(* one whose weights were divided by their sum may come out one darker; an *)
(* edge is nine times the pixel less its window, cut to a byte - the       *)
(* partial sums may pass below zero and come back - and if the whole sum   *)
(* is negative, 0 or 255, as the build has it.                             *)
Darker == IF variant.kernel = "normalised" THEN 1 ELSE 0

BytesCorrect ==
  \A p \in 0 .. Pixels - 1, c \in Colour :
    target[p][c] # <<>> =>
      \A r \in Results(target[p][c]) :
        IF variant.kernel = "edges"
          THEN IF Edge(p, c) >= 0 THEN ToByte(r) = Min({Edge(p, c), 255})
                                  ELSE ToByte(r) \in {0, 255}
          ELSE Min(Seen(p, c)) - Darker <= ToByte(r) /\ ToByte(r) <= Max(Seen(p, c))

(* When the simulation is stopped every pixel has its result, and feeder,  *)
(* filter and fetcher agree on how many there are: nothing is in flight.   *)
StopsComplete ==
  stopped =>
    /\ \A p \in 0 .. Pixels - 1, c \in Fetched : target[p][c] # <<>>
    /\ feed.pixel = Pixels /\ work.tap = 0
    /\ \A c \in Colour : \A l \in 0 .. variant.lanes - 1 : inFifo[c][l] = <<>>
    /\ \A c \in Fetched : outFifo[c] = <<>>

(* The simulation is stopped by sc_stop: no thread waits for ever. *)
Terminates == <>stopped
=============================================================================
