----------------------- MODULE FilterPipeline_proofs -----------------------
(***************************************************************************)
(* Every pixel gets its own window, for images and FIFOs of every size and *)
(* every set of fetched colours, however the threads interleave.           *)
(*                                                                         *)
(* The samples of a colour are numbered in the order in which they are     *)
(* fed.  What has been fed, read, written and fetched of a colour are      *)
(* counts that follow from the positions of the loops; the invariant says  *)
(* that the FIFOs hold exactly what lies between two of these counts.      *)
(***************************************************************************)
EXTENDS FilterPipeline, Sums

Index(c) == IF c = "red" THEN 1 ELSE IF c = "green" THEN 2 ELSE 3

(* One more for the colours that a loop has passed in its current round. *)
Past(c, k) == IF Index(c) < k THEN 1 ELSE 0

(* The samples of a colour that were fed, the results of it that were      *)
(* fetched, the window do_filter works on, and the samples and results of  *)
(* a colour that it has read and written.                                  *)
Fed(c) == Taps * feed.pixel + feed.tap + Past(c, feed.colour)
Taken(c) == IF c \in Fetched THEN fetch.pixel + Past(c, fetch.colour) ELSE 0
Working == Taken("blue") + Len(outFifo["blue"])
Done(c) ==
  Taps * Working +
    IF work.stage = "writing" THEN Taps ELSE work.tap + Past(c, work.colour)
Written(c) == Working + IF work.stage = "writing" THEN Past(c, work.colour) ELSE 0

(* How many of the first n samples go through lane l. *)
Through(n, l) == (n - l + variant.lanes - 1) \div variant.lanes

(* The n-th sample of a colour. *)
Nth(c, n) == [colour |-> c, at |-> Sample(n \div Taps, n % Taps)]

Element == [colour : Colour, at : Int \X Int]

PlacesOK ==
  /\ variant \in Variants
  /\ rst \in BOOLEAN /\ stopped \in BOOLEAN /\ turn \in {"feed", "fetch"}
  /\ feed \in [pixel : 0 .. Pixels, tap : 0 .. Taps - 1, colour : 1 .. 3]
  /\ fetch \in [pixel : 0 .. Pixels, colour : 1 .. 3]
  /\ work \in [stage : {"reading", "writing"}, tap : 0 .. Taps - 1, colour : 1 .. 3]
  /\ feed.pixel = Pixels => feed.tap = 0 /\ feed.colour = 1
  /\ fetch.pixel = Pixels => fetch.colour = 1
  /\ stopped <=> fetch.pixel = Pixels
  /\ work.stage = "writing" => work.tap = 0

FifosOK ==
  /\ inFifo \in [Colour -> [0 .. variant.lanes - 1 -> Seq(Element)]]
  /\ sum \in [Colour -> Seq(Element)]
  /\ outFifo \in [Colour -> Seq(Seq(Element))]
  /\ \A c \in Colour :
       /\ Len(outFifo[c]) <= Depth
       /\ \A l \in 0 .. variant.lanes - 1 : Len(inFifo[c][l]) <= Depth

CountsInv ==
  \A c \in Colour :
    /\ Done(c) <= Fed(c)
    /\ Written(c) = Taken(c) + Len(outFifo[c])
    /\ Done(c) = Taps * Working + Len(sum[c])
    /\ \A l \in 0 .. variant.lanes - 1 :
         Through(Fed(c), l) = Through(Done(c), l) + Len(inFifo[c][l])

InFifoInv ==
  \A c \in Colour : \A l \in 0 .. variant.lanes - 1 : \A k \in 1 .. Len(inFifo[c][l]) :
    inFifo[c][l][k] = Nth(c, variant.lanes * (Through(Done(c), l) + k - 1) + l)

SumInv ==
  \A c \in Colour : \A k \in 1 .. Len(sum[c]) :
    sum[c][k] = Nth(c, Taps * Working + k - 1)

OutFifoInv ==
  \A c \in Colour : \A k \in 1 .. Len(outFifo[c]) :
    outFifo[c][k] = Window(Taken(c) + k - 1, c)

TargetInv ==
  /\ target \in [0 .. Pixels - 1 -> [Colour -> Seq(Element)]]
  /\ \A p \in 0 .. Pixels - 1, c \in Colour :
       target[p][c] = IF p < Taken(c) THEN Window(p, c) ELSE <<>>

PipeInv ==
  PlacesOK /\ FifosOK /\ CountsInv /\ InFifoInv /\ SumInv /\ OutFifoInv /\ TargetInv
-----------------------------------------------------------------------------
(* The numbers. *)
LEMMA Sizes == Pixels \in Nat \ {0} /\ Depth \in Nat \ {0}
<1>1. Width \in Nat \ {0} /\ Height \in Nat \ {0} /\ Depth \in Nat \ {0}
  BY PipelineAssumption
<1>2. \A m, n \in Nat \ {0} : m * n \in Nat \ {0}
  OBVIOUS
<1> QED
  BY <1>1, <1>2 DEF Pixels

LEMMA Lanes == ASSUME variant \in Variants PROVE variant.lanes \in {1, 3}
  BY PipelineAssumption DEF FilterWidth

LEMMA ColourFacts ==
  /\ Colour = {"red", "green", "blue"}
  /\ \A k \in 1 .. 3 : Colours[k] \in Colour /\ Index(Colours[k]) = k
  /\ \A c \in Colour : Index(c) \in 1 .. 3 /\ Colours[Index(c)] = c
  /\ \A k \in 1 .. 3 : Source(k) = Colours[k]
<1>1. Colours[1] = "red" /\ Colours[2] = "green" /\ Colours[3] = "blue"
  BY DEF Colours
<1>2. 1 .. 3 = {1, 2, 3}
  OBVIOUS
<1>3. Colour = {"red", "green", "blue"}
  BY <1>1, <1>2 DEF Colour
<1>4. \A k \in 1 .. 3 : Colours[k] \in Colour /\ Index(Colours[k]) = k
  BY <1>1, <1>2, <1>3 DEF Index
<1>5. \A c \in Colour : Index(c) \in 1 .. 3 /\ Colours[Index(c)] = c
  BY <1>1, <1>3 DEF Index
<1>6. \A k \in 1 .. 3 : Source(k) = Colours[k]
  BY <1>1, <1>2 DEF Source, ReadFrom, ResultAddr
<1> QED
  BY <1>3, <1>4, <1>5, <1>6

(* Whole windows and places in a window. *)
LEMMA TapOf ==
  ASSUME NEW p \in Nat, NEW t \in 0 .. Taps - 1
  PROVE  (Taps * p + t) \div Taps = p /\ (Taps * p + t) % Taps = t
  BY DEF Taps

LEMMA LaneOf ==
  ASSUME variant \in Variants, NEW p \in Nat, NEW t \in 0 .. Taps - 1
  PROVE  /\ Lane(t) \in 0 .. variant.lanes - 1
         /\ variant.lanes * Through(Taps * p + t, Lane(t)) + Lane(t) = Taps * p + t
<1>1. CASE variant.lanes = 1
  BY <1>1 DEF Lane, Through, Taps
<1>2. CASE variant.lanes = 3
  BY <1>2 DEF Lane, Through, Taps
<1> QED
  BY <1>1, <1>2, Lanes

(* A sample counts for its own lane only. *)
LEMMA ThroughNext ==
  ASSUME variant \in Variants, NEW p \in Nat, NEW t \in 0 .. Taps - 1,
         NEW l \in 0 .. variant.lanes - 1
  PROVE  Through(Taps * p + t + 1, l) =
           Through(Taps * p + t, l) + IF l = Lane(t) THEN 1 ELSE 0
<1>1. CASE variant.lanes = 1
  BY <1>1 DEF Lane, Through, Taps
<1>2. CASE variant.lanes = 3
  BY <1>2 DEF Lane, Through, Taps
<1> QED
  BY <1>1, <1>2, Lanes

LEMMA ThroughNat ==
  ASSUME variant \in Variants, NEW n \in Nat, NEW l \in 0 .. variant.lanes - 1
  PROVE  Through(n, l) \in Nat
<1>1. CASE variant.lanes = 1
  BY <1>1 DEF Through
<1>2. CASE variant.lanes = 3
  BY <1>2 DEF Through
<1> QED
  BY <1>1, <1>2, Lanes
-----------------------------------------------------------------------------
(* The loops over the image. *)
LEMMA Quotient ==
  ASSUME NEW p \in Nat, NEW m \in Nat \ {0}, NEW n \in Nat \ {0}, p < m * n
  PROVE  p \div n \in 0 .. m - 1
<1> DEFINE q == p \div n
<1>1. q \in Nat /\ n * q <= p
  OBVIOUS
<1> HIDE DEF q
<1>2. ASSUME q >= m PROVE FALSE
  <2>1. \A i, j, k \in Nat : i >= j => i * k >= j * k
    OBVIOUS
  <2>2. q * n >= m * n
    BY <1>1, <1>2, <2>1
  <2>3. q * n = n * q
    BY <1>1
  <2> QED
    BY <1>1, <2>2, <2>3
<1>3. q \in 0 .. m - 1
  BY <1>1, <1>2
<1> QED
  BY <1>3 DEF q

LEMMA Remainder ==
  ASSUME NEW z \in Int, NEW m \in Nat \ {0}
  PROVE  z % m \in 0 .. m - 1
  OBVIOUS

LEMMA InImage ==
  ASSUME NEW p \in 0 .. Pixels - 1
  PROVE  X(p) \in 0 .. Width - 1 /\ Y(p) \in 0 .. Height - 1
<1>1. Width \in Nat \ {0} /\ Height \in Nat \ {0} /\ p \in Nat
  BY PipelineAssumption
<1>2. Width * Height = Height * Width /\ Width * Height \in Nat
  BY <1>1
<1>3. p < Width * Height
  BY <1>2 DEF Pixels
<1>4. p \div Height \in 0 .. Width - 1
  BY <1>1, <1>3, Quotient
<1>5. p \div Width \in 0 .. Height - 1
  BY <1>1, <1>2, <1>3, Quotient
<1>6. p % Width \in 0 .. Width - 1 /\ p % Height \in 0 .. Height - 1
  BY <1>1, Remainder
<1> QED
  BY <1>4, <1>5, <1>6 DEF X, Y

(* The unsigned loop counters: one step to either side, modulo m. *)
LEMMA Around ==
  ASSUME NEW m \in Nat, NEW z \in 0 .. m - 1, m # 0
  PROVE  z % m = z /\ (z + m) % m = z /\ (z - m) % m = z
  OBVIOUS

LEMMA Neighbour ==
  ASSUME variant \in Variants, NEW s \in Nat, s < WordMod - 1,
         NEW i \in 0 .. s - 1, NEW d \in -1 .. 1
  PROVE  /\ Int32(i + Int32(d)) \in Int
         /\ IF i + d \in 0 .. s - 1
              THEN Int32(i + Int32(d)) = i + d
              ELSE ~(Int32(i + Int32(d)) >= 0 /\ Int32(i + Int32(d)) < s)
<1>1. CASE ~variant.split
  BY <1>1 DEF Int32
<1>2. CASE variant.split
  <2>1. WordMod \in Nat /\ WordMod # 0
    BY PipelineAssumption
  <2>2. \A z \in 0 .. WordMod - 1 :
          z % WordMod = z /\ (z + WordMod) % WordMod = z /\ (z - WordMod) % WordMod = z
    BY <2>1, Around
  <2>3. \A z : Int32(z) = z % WordMod
    BY <1>2 DEF Int32
  <2>4. CASE d = -1
    <3>1. WordMod - 1 \in 0 .. WordMod - 1 /\ (WordMod - 1) - WordMod = -1
      BY <2>1
    <3>2. Int32(d) = WordMod - 1
      BY <2>2, <2>3, <2>4, <3>1
    <3>3. CASE i = 0
      <4>1. i + Int32(d) = WordMod - 1
        BY <2>1, <3>2, <3>3
      <4>2. Int32(i + Int32(d)) = WordMod - 1
        BY <2>2, <2>3, <3>1, <4>1
      <4> QED
        BY <2>1, <2>4, <3>3, <4>2
    <3>4. CASE i # 0
      <4>1. i - 1 \in 0 .. WordMod - 1 /\ i + Int32(d) = (i - 1) + WordMod
        BY <2>1, <3>2, <3>4
      <4>2. Int32(i + Int32(d)) = i - 1
        BY <2>2, <2>3, <4>1
      <4> QED
        BY <2>1, <2>4, <3>4, <4>2
    <3> QED
      BY <3>3, <3>4
  <2>5. CASE d # -1
    <3>1. d \in 0 .. WordMod - 1 /\ i + d \in 0 .. WordMod - 1
      BY <2>1, <2>5
    <3>2. Int32(d) = d
      BY <2>2, <2>3, <3>1
    <3>3. Int32(i + Int32(d)) = i + d
      BY <2>2, <2>3, <3>1, <3>2
    <3> QED
      BY <2>1, <2>5, <3>3
  <2> QED
    BY <2>4, <2>5
<1>3. variant.split \in BOOLEAN
  BY PipelineAssumption
<1> QED
  BY <1>1, <1>2

LEMMA Offsets ==
  ASSUME NEW t \in 0 .. Taps - 1
  PROVE  Across(t) \in -1 .. 1 /\ Down(t) \in -1 .. 1
  BY DEF Across, Down, Taps, FilterWidth

(* What the unsigned counters compute is the sample of the window. *)
LEMMA NthOfWindow ==
  ASSUME variant \in Variants, NEW c \in Colour,
         NEW p \in 0 .. Pixels - 1, NEW t \in 0 .. Taps - 1
  PROVE  /\ Nth(c, Taps * p + t) = [colour |-> c, at |-> Sample(p, t)]
         /\ Nth(c, Taps * p + t) = Window(p, c)[t + 1]
         /\ Nth(c, Taps * p + t) \in Element
<1>1. Nth(c, Taps * p + t) = [colour |-> c, at |-> Sample(p, t)]
  <2>1. p \in Nat
    OBVIOUS
  <2> QED
    BY <2>1, TapOf DEF Nth
<1> DEFINE a == Int32(X(p) + U(t))
           b == Int32(Y(p) + V(t))
           aw == X(p) + Across(t)
           bw == Y(p) + Down(t)
<1>2. /\ a \in Int
      /\ IF aw \in 0 .. Width - 1 THEN a = aw ELSE ~(a >= 0 /\ a < Width)
  <2>1. X(p) \in 0 .. Width - 1 /\ Across(t) \in -1 .. 1
    BY InImage, Offsets
  <2>2. Width \in Nat /\ Width < WordMod - 1
    BY PipelineAssumption
  <2> QED
    BY <2>1, <2>2, Neighbour DEF U
<1>3. /\ b \in Int
      /\ IF bw \in 0 .. Height - 1 THEN b = bw ELSE ~(b >= 0 /\ b < Height)
  <2>1. Y(p) \in 0 .. Height - 1 /\ Down(t) \in -1 .. 1
    BY InImage, Offsets
  <2>2. Height \in Nat /\ Height < WordMod - 1
    BY PipelineAssumption
  <2> QED
    BY <2>1, <2>2, Neighbour DEF V
<1>4. /\ Sample(p, t) = IF a >= 0 /\ a < Width /\ b >= 0 /\ b < Height
                          THEN <<a, b>> ELSE Zero
      /\ Window(p, c)[t + 1] =
           [colour |-> c,
            at |-> IF aw \in 0 .. Width - 1 /\ bw \in 0 .. Height - 1
                     THEN <<aw, bw>> ELSE Zero]
  <2>1. t + 1 \in 1 .. Taps /\ (t + 1) - 1 = t
    BY DEF Taps
  <2> QED
    BY <2>1 DEF Sample, Window
<1>5. Width \in Nat /\ Height \in Nat
  BY PipelineAssumption
<1> HIDE DEF a, b, aw, bw
<1>6. Sample(p, t) = IF aw \in 0 .. Width - 1 /\ bw \in 0 .. Height - 1
                       THEN <<aw, bw>> ELSE Zero
  BY <1>2, <1>3, <1>4, <1>5
<1>7. Sample(p, t) \in Int \X Int
  BY <1>2, <1>3, <1>4 DEF Zero
<1> QED
  BY <1>1, <1>4, <1>6, <1>7 DEF Element
-----------------------------------------------------------------------------
(* A word goes into a FIFO, a word comes out of it. *)
LEMMA WordIn ==
  ASSUME NEW S, NEW q \in Seq(S), NEW v \in S
  PROVE  /\ Append(q, v) \in Seq(S)
         /\ Len(Append(q, v)) = Len(q) + 1
         /\ Append(q, v)[Len(q) + 1] = v
         /\ \A k \in 1 .. Len(q) : Append(q, v)[k] = q[k]
  OBVIOUS

LEMMA WordOut ==
  ASSUME NEW S, NEW q \in Seq(S), q # <<>>
  PROVE  /\ Len(q) > 0 /\ Head(q) = q[1] /\ Head(q) \in S
         /\ Tail(q) \in Seq(S)
         /\ Len(Tail(q)) = Len(q) - 1
         /\ \A k \in 1 .. Len(Tail(q)) : Tail(q)[k] = q[k + 1]
  OBVIOUS

(* The program stays the same. *)
LEMMA SameProgram ==
  ASSUME variant' = variant
  PROVE  /\ \A c, n : Nth(c, n)' = Nth(c, n)
         /\ \A p, c : Window(p, c)' = Window(p, c)
         /\ \A n, l : Through(n, l)' = Through(n, l)
<1>1. \A c, n : Nth(c, n)' = Nth(c, n)
  BY DEF Nth, Sample, X, Y, U, V, Int32, Across, Down
<1>2. \A p, c : Window(p, c)' = Window(p, c)
  BY DEF Window, X, Y, Across, Down
<1>3. \A n, l : Through(n, l)' = Through(n, l)
  BY DEF Through
<1> QED
  BY <1>1, <1>2, <1>3

LEMMA CountTypes ==
  ASSUME PlacesOK, FifosOK
  PROVE  /\ Working \in Nat
         /\ \A c \in Colour :
              /\ Past(c, feed.colour) \in {0, 1} /\ Past(c, fetch.colour) \in {0, 1}
              /\ Past(c, work.colour) \in {0, 1}
              /\ Fed(c) \in Nat /\ Taken(c) \in Nat /\ Done(c) \in Nat
              /\ Written(c) \in Nat /\ Len(outFifo[c]) \in Nat /\ Len(sum[c]) \in Nat
              /\ \A l \in 0 .. variant.lanes - 1 :
                   /\ Len(inFifo[c][l]) \in Nat
                   /\ Through(Fed(c), l) \in Nat /\ Through(Done(c), l) \in Nat
<1>1. \A c, k : Past(c, k) \in {0, 1}
  BY DEF Past
<1>2. \A c \in Colour : Len(outFifo[c]) \in Nat /\ Len(sum[c]) \in Nat
  BY DEF FifosOK
<1>3. \A c \in Colour : Fed(c) \in Nat /\ Taken(c) \in Nat
  BY <1>1, Sizes DEF Fed, Taken, PlacesOK, Taps
<1>4. Working \in Nat
  BY <1>2, <1>3, ColourFacts DEF Working
<1>5. \A c \in Colour : Done(c) \in Nat /\ Written(c) \in Nat
  BY <1>1, <1>4 DEF Done, Written, PlacesOK, Taps
<1>6. \A c \in Colour : \A l \in 0 .. variant.lanes - 1 : Len(inFifo[c][l]) \in Nat
  BY DEF FifosOK
<1>7. \A c \in Colour : \A l \in 0 .. variant.lanes - 1 :
        Through(Fed(c), l) \in Nat /\ Through(Done(c), l) \in Nat
  BY <1>3, <1>5, ThroughNat DEF PlacesOK
<1> QED
  BY <1>1, <1>2, <1>3, <1>4, <1>5, <1>6, <1>7

LEMMA PipeInit == Init => PipeInv
<1> SUFFICES ASSUME Init PROVE PipeInv
  OBVIOUS
<1>1. variant \in Variants /\ variant.lanes \in {1, 3}
  BY Lanes DEF Init
<1>2. PlacesOK
  <2>1. rst \in BOOLEAN /\ stopped \in BOOLEAN
    BY DEF Init
  <2> QED
    BY <1>1, <2>1, Sizes DEF Init, PlacesOK, Taps
<1>3. FifosOK
  BY <1>1, Sizes DEF Init, FifosOK
<1>4. \A c \in Colour :
        /\ Fed(c) = 0 /\ Taken(c) = 0 /\ Done(c) = 0 /\ Written(c) = 0 /\ Working = 0
        /\ Len(outFifo[c]) = 0 /\ Len(sum[c]) = 0
        /\ \A l \in 0 .. variant.lanes - 1 : Len(inFifo[c][l]) = 0
  <2>1. \A c \in Colour :
          /\ Len(outFifo[c]) = 0 /\ Len(sum[c]) = 0
          /\ \A l \in 0 .. variant.lanes - 1 : Len(inFifo[c][l]) = 0
    BY DEF Init
  <2>2. \A c \in Colour : Past(c, 1) = 0
    BY ColourFacts DEF Past
  <2>3. \A c \in Colour : Fed(c) = 0 /\ Taken(c) = 0
    BY <2>2 DEF Init, Fed, Taken, Taps
  <2>4. Working = 0
    BY <2>1, <2>3, ColourFacts DEF Working
  <2>5. \A c \in Colour : Done(c) = 0 /\ Written(c) = 0
    BY <2>2, <2>4 DEF Init, Done, Written, Taps
  <2> QED
    BY <2>1, <2>3, <2>4, <2>5
<1>5. CountsInv
  <2>1. \A l \in 0 .. variant.lanes - 1 : Through(0, l) \in Nat
    BY <1>1, ThroughNat
  <2> QED
    BY <1>4, <2>1 DEF CountsInv, Taps
<1>6. InFifoInv /\ SumInv /\ OutFifoInv
  BY <1>4 DEF InFifoInv, SumInv, OutFifoInv
<1>7. TargetInv
  BY <1>4, Sizes DEF Init, TargetInv
<1> QED
  BY <1>2, <1>3, <1>5, <1>6, <1>7 DEF PipeInv
-----------------------------------------------------------------------------
(* The feeder. *)
LEMMA FeedInv ==
  ASSUME PipeInv, Feed
  PROVE  PipeInv'
<1> DEFINE c0 == Colours[feed.colour]
           l0 == Lane(feed.tap)
           e  == [colour |-> c0, at |-> Sample(feed.pixel, feed.tap)]
<1>1. PlacesOK /\ FifosOK /\ CountsInv /\ InFifoInv /\ SumInv /\ OutFifoInv /\ TargetInv
  BY DEF PipeInv
<1>2. /\ variant \in Variants
      /\ feed \in [pixel : 0 .. Pixels, tap : 0 .. Taps - 1, colour : 1 .. 3]
  BY <1>1 DEF PlacesOK
<1>3. /\ feed.pixel < Pixels /\ Len(inFifo[c0][l0]) < Depth
      /\ inFifo' = [inFifo EXCEPT ![c0][l0] = Append(@, e)]
      /\ UNCHANGED <<variant, rst, fetch, stopped, outFifo, work, sum, target>>
  BY DEF Feed, ToFeed
<1>4. /\ c0 \in Colour /\ Index(c0) = feed.colour
      /\ \A c \in Colour : c # c0 => Index(c) # feed.colour
  BY <1>2, ColourFacts
<1> HIDE DEF c0
<1>5. l0 \in 0 .. variant.lanes - 1
  BY <1>2, LaneOf
<1>6. feed.pixel \in 0 .. Pixels - 1 /\ feed.tap \in 0 .. Taps - 1
  BY <1>2, <1>3, Sizes
<1>7. Fed(c0) = Taps * feed.pixel + feed.tap
  <2>1. Past(c0, feed.colour) = 0
    BY <1>2, <1>4 DEF Past
  <2> QED
    BY <1>6, <2>1 DEF Fed, Taps
<1>8. e = Nth(c0, Fed(c0)) /\ e \in Element
  BY <1>2, <1>4, <1>6, <1>7, NthOfWindow
<1> HIDE DEF l0, e
(* The counters. *)
<1>9. /\ feed' \in [pixel : 0 .. Pixels, tap : 0 .. Taps - 1, colour : 1 .. 3]
      /\ turn' \in {"feed", "fetch"}
      /\ feed'.pixel = Pixels => feed'.tap = 0 /\ feed'.colour = 1
      /\ \A c \in Colour : Fed(c)' = IF c = c0 THEN Fed(c) + 1 ELSE Fed(c)
  <2>1. \A c \in Colour : Index(c) \in 1 .. 3
    BY ColourFacts
  <2>2. turn \in {"feed", "fetch"}
    BY <1>1 DEF PlacesOK
  <2>3. CASE feed.colour < 3 /\ feed' = [feed EXCEPT !.colour = @ + 1] /\ UNCHANGED turn
    BY <1>2, <1>3, <1>4, <1>6, <2>1, <2>2, <2>3, Sizes DEF Fed, Past, Taps
  <2>4. CASE /\ feed.colour = 3 /\ feed.tap < Taps - 1
             /\ feed' = [feed EXCEPT !.colour = 1, !.tap = @ + 1] /\ UNCHANGED turn
    <3>1. feed' = [pixel |-> feed.pixel, tap |-> feed.tap + 1, colour |-> 1]
      BY <1>2, <2>4
    <3> QED
      BY <1>2, <1>4, <1>6, <2>1, <2>2, <2>4, <3>1, Sizes DEF Fed, Past, Taps
  <2>5. CASE /\ feed.colour = 3 /\ feed.tap = Taps - 1
             /\ feed' = [pixel |-> feed.pixel + 1, tap |-> 0, colour |-> 1]
             /\ turn' = "fetch"
    BY <1>2, <1>3, <1>4, <1>6, <2>1, <2>2, <2>5, Sizes DEF Fed, Past, Taps
  <2> QED
    BY <2>3, <2>4, <2>5 DEF Feed
<1>10. Working' = Working
  BY <1>3 DEF Working, Taken, Past
<1>11. \A c \in Colour :
         Taken(c)' = Taken(c) /\ Done(c)' = Done(c) /\ Written(c)' = Written(c)
  BY <1>3, <1>10 DEF Taken, Done, Written, Past
<1>12. /\ \A c, n : Nth(c, n)' = Nth(c, n)
       /\ \A p, c : Window(p, c)' = Window(p, c)
       /\ \A n, l : Through(n, l)' = Through(n, l)
  BY <1>3, SameProgram
<1>13. /\ Working \in Nat
       /\ \A c \in Colour :
            /\ Fed(c) \in Nat /\ Done(c) \in Nat
            /\ \A l \in 0 .. variant.lanes - 1 :
                 Len(inFifo[c][l]) \in Nat /\ Through(Done(c), l) \in Nat
  BY <1>1, CountTypes
(* The FIFOs. *)
<1>14. /\ inFifo \in [Colour -> [0 .. variant.lanes - 1 -> Seq(Element)]]
       /\ inFifo' \in [Colour -> [0 .. variant.lanes - 1 -> Seq(Element)]]
       /\ Len(inFifo'[c0][l0]) = Len(inFifo[c0][l0]) + 1
       /\ inFifo'[c0][l0][Len(inFifo[c0][l0]) + 1] = e
       /\ \A k \in 1 .. Len(inFifo[c0][l0]) : inFifo'[c0][l0][k] = inFifo[c0][l0][k]
       /\ \A c \in Colour : \A l \in 0 .. variant.lanes - 1 :
            c # c0 \/ l # l0 => inFifo'[c][l] = inFifo[c][l]
  <2>1. inFifo \in [Colour -> [0 .. variant.lanes - 1 -> Seq(Element)]]
    BY <1>1 DEF FifosOK
  <2>2. inFifo[c0] \in [0 .. variant.lanes - 1 -> Seq(Element)]
    BY <1>4, <2>1
  <2>3. inFifo[c0][l0] \in Seq(Element)
    BY <1>5, <2>2
  <2> DEFINE q == Append(inFifo[c0][l0], e)
  <2>4. /\ q \in Seq(Element) /\ Len(q) = Len(inFifo[c0][l0]) + 1
        /\ q[Len(inFifo[c0][l0]) + 1] = e
        /\ \A k \in 1 .. Len(inFifo[c0][l0]) : q[k] = inFifo[c0][l0][k]
    BY <1>8, <2>3, WordIn
  <2>5. inFifo' = [inFifo EXCEPT ![c0][l0] = q]
    BY <1>3
  <2> HIDE DEF q
  <2>6. inFifo'[c0][l0] = q
    BY <1>4, <1>5, <2>1, <2>5
  <2>7. /\ inFifo' \in [Colour -> [0 .. variant.lanes - 1 -> Seq(Element)]]
        /\ \A c \in Colour : \A l \in 0 .. variant.lanes - 1 :
             c # c0 \/ l # l0 => inFifo'[c][l] = inFifo[c][l]
    BY <1>4, <1>5, <2>1, <2>4, <2>5
  <2> QED
    BY <2>1, <2>4, <2>6, <2>7
<1>15. PlacesOK'
  BY <1>1, <1>3, <1>9 DEF PlacesOK
<1>16. FifosOK'
  <2>1. \A c \in Colour : \A l \in 0 .. variant.lanes - 1 : Len(inFifo[c][l]) <= Depth
    BY <1>1 DEF FifosOK
  <2>2. \A c \in Colour : \A l \in 0 .. variant.lanes - 1 : Len(inFifo'[c][l]) <= Depth
    BY <1>3, <1>4, <1>5, <1>13, <1>14, <2>1, Sizes
  <2> QED
    BY <1>1, <1>3, <1>14, <2>2 DEF FifosOK
<1>17. \A l \in 0 .. variant.lanes - 1 :
         Through(Fed(c0) + 1, l) = Through(Fed(c0), l) + IF l = l0 THEN 1 ELSE 0
  <2>1. feed.pixel \in Nat
    BY <1>6
  <2> QED
    BY <1>2, <1>6, <1>7, <2>1, ThroughNext DEF l0
<1>18. ASSUME NEW c \in Colour, NEW l \in 0 .. variant.lanes - 1
       PROVE  Through(Fed(c)', l) = Through(Done(c), l) + Len(inFifo'[c][l])
  <2>1. /\ Through(Fed(c), l) = Through(Done(c), l) + Len(inFifo[c][l])
        /\ Through(Done(c), l) \in Nat /\ Len(inFifo[c][l]) \in Nat
    BY <1>1, <1>13 DEF CountsInv
  <2>2. CASE c = c0 /\ l = l0
    <3>1. Fed(c)' = Fed(c) + 1 /\ Len(inFifo'[c][l]) = Len(inFifo[c][l]) + 1
      BY <1>9, <1>14, <2>2
    <3>2. Through(Fed(c) + 1, l) = Through(Fed(c), l) + 1
      BY <1>17, <2>2
    <3> QED
      BY <2>1, <3>1, <3>2
  <2>3. CASE c = c0 /\ l # l0
    BY <1>9, <1>14, <1>17, <2>1, <2>3
  <2>4. CASE c # c0
    BY <1>9, <1>14, <2>1, <2>4
  <2> QED
    BY <2>2, <2>3, <2>4
<1>19. CountsInv'
  <2>1. \A c \in Colour :
          /\ Done(c) <= Fed(c)' /\ Written(c) = Taken(c) + Len(outFifo[c])
          /\ Done(c) = Taps * Working + Len(sum[c])
    BY <1>1, <1>9, <1>13 DEF CountsInv
  <2> QED
    BY <1>3, <1>10, <1>11, <1>12, <1>18, <2>1 DEF CountsInv
<1>20. ASSUME NEW c \in Colour, NEW l \in 0 .. variant.lanes - 1,
              NEW k \in 1 .. Len(inFifo'[c][l])
       PROVE  inFifo'[c][l][k] = Nth(c, variant.lanes * (Through(Done(c), l) + k - 1) + l)
  <2>1. CASE (c = c0 /\ l = l0) /\ k = Len(inFifo[c][l]) + 1
    <3>1. inFifo'[c][l][k] = e
      BY <1>4, <1>5, <1>14, <2>1
    <3>2. Through(Done(c), l) + k - 1 = Through(Fed(c), l)
      BY <1>1, <1>13, <2>1 DEF CountsInv
    <3>3. variant.lanes * Through(Fed(c), l) + l = Fed(c)
      <4>1. feed.pixel \in Nat
        BY <1>6
      <4> QED
        BY <1>2, <1>6, <1>7, <2>1, <4>1, LaneOf DEF l0
    <3> QED
      BY <1>8, <2>1, <3>1, <3>2, <3>3
  <2>2. CASE (c = c0 /\ l = l0) /\ k # Len(inFifo[c][l]) + 1
    <3>1. k \in 1 .. Len(inFifo[c][l])
      BY <1>13, <1>14, <2>2
    <3>2. inFifo'[c][l][k] = inFifo[c][l][k]
      BY <1>4, <1>5, <1>14, <2>2, <3>1
    <3> QED
      BY <1>1, <3>1, <3>2 DEF InFifoInv
  <2>3. CASE ~(c = c0 /\ l = l0)
    BY <1>1, <1>14, <2>3 DEF InFifoInv
  <2> QED
    BY <2>1, <2>2, <2>3
<1>21. InFifoInv'
  BY <1>3, <1>11, <1>12, <1>20 DEF InFifoInv
<1>22. SumInv' /\ OutFifoInv' /\ TargetInv'
  <2>1. SumInv'
    BY <1>1, <1>3, <1>10, <1>12 DEF SumInv
  <2>2. OutFifoInv'
    BY <1>1, <1>3, <1>11, <1>12 DEF OutFifoInv
  <2>3. TargetInv'
    BY <1>1, <1>3, <1>11, <1>12 DEF TargetInv
  <2> QED
    BY <2>1, <2>2, <2>3
<1> QED
  BY <1>15, <1>16, <1>19, <1>21, <1>22 DEF PipeInv
-----------------------------------------------------------------------------
(* The filter reads a sample. *)
LEMMA ReadInv ==
  ASSUME PipeInv, ReadSample
  PROVE  PipeInv'
<1> DEFINE c0 == Colours[work.colour]
           l0 == Lane(work.tap)
           e  == Head(inFifo[c0][l0])
<1>1. PlacesOK /\ FifosOK /\ CountsInv /\ InFifoInv /\ SumInv /\ OutFifoInv /\ TargetInv
  BY DEF PipeInv
<1>2. /\ variant \in Variants
      /\ work \in [stage : {"reading", "writing"}, tap : 0 .. Taps - 1, colour : 1 .. 3]
  BY <1>1 DEF PlacesOK
<1>3. /\ work.stage = "reading" /\ inFifo[c0][l0] # <<>>
      /\ sum' = [sum EXCEPT ![c0] = Append(@, e)]
      /\ inFifo' = [inFifo EXCEPT ![c0][l0] = Tail(@)]
      /\ UNCHANGED <<variant, rst, turn, feed, fetch, stopped, outFifo, target>>
  BY DEF ReadSample
<1>4. /\ c0 \in Colour /\ Index(c0) = work.colour
      /\ \A c \in Colour : c # c0 => Index(c) # work.colour
  BY <1>2, ColourFacts
<1> HIDE DEF c0
<1>5. l0 \in 0 .. variant.lanes - 1 /\ work.tap \in 0 .. Taps - 1
  BY <1>2, LaneOf
<1> HIDE DEF l0, e
<1>6. /\ Working \in Nat
      /\ \A c \in Colour :
           /\ Fed(c) \in Nat /\ Done(c) \in Nat /\ Len(sum[c]) \in Nat
           /\ \A l \in 0 .. variant.lanes - 1 :
                /\ Len(inFifo[c][l]) \in Nat
                /\ Through(Done(c), l) \in Nat /\ Through(Fed(c), l) \in Nat
  BY <1>1, CountTypes
<1>7. Done(c0) = Taps * Working + work.tap
  <2>1. Past(c0, work.colour) = 0
    BY <1>2, <1>4 DEF Past
  <2> QED
    BY <1>3, <1>5, <2>1 DEF Done, Taps
(* The counters. *)
<1>8. Working' = Working
  BY <1>3 DEF Working, Taken, Past
<1>9. \A c \in Colour : Taken(c)' = Taken(c) /\ Fed(c)' = Fed(c)
  BY <1>3 DEF Taken, Fed, Past
<1>10. /\ work' \in [stage : {"reading", "writing"}, tap : 0 .. Taps - 1, colour : 1 .. 3]
       /\ work'.stage = "writing" => work'.tap = 0
       /\ \A c \in Colour : Done(c)' = IF c = c0 THEN Done(c) + 1 ELSE Done(c)
       /\ \A c \in Colour : Written(c)' = Written(c)
  <2>1. \A c \in Colour : Index(c) \in 1 .. 3
    BY ColourFacts
  <2>2. Working \in Nat
    BY <1>6
  <2>3. CASE work.colour < 3 /\ work' = [work EXCEPT !.colour = @ + 1]
    <3>1. work' = [stage |-> "reading", tap |-> work.tap, colour |-> work.colour + 1]
      BY <1>2, <1>3, <2>3
    <3> QED
      BY <1>2, <1>3, <1>4, <1>8, <2>1, <2>2, <2>3, <3>1 DEF Done, Written, Past, Taps
  <2>4. CASE /\ work.colour = 3 /\ ~LastTap(work.tap)
             /\ work' = [work EXCEPT !.colour = 1, !.tap = @ + 1]
    <3>1. work' = [stage |-> "reading", tap |-> work.tap + 1, colour |-> 1]
      BY <1>2, <1>3, <2>4
    <3>2. work.tap # Taps - 1
      BY <2>4 DEF LastTap
    <3> QED
      BY <1>2, <1>3, <1>4, <1>8, <2>1, <2>2, <2>4, <3>1, <3>2 DEF Done, Written, Past, Taps
  <2>5. CASE /\ work.colour = 3 /\ LastTap(work.tap)
             /\ work' = [stage |-> "writing", tap |-> 0, colour |-> 1]
    <3>1. work.tap = Taps - 1
      BY <2>5 DEF LastTap
    <3> QED
      BY <1>2, <1>3, <1>4, <1>8, <2>1, <2>2, <2>5, <3>1 DEF Done, Written, Past, Taps
  <2> QED
    BY <2>3, <2>4, <2>5 DEF ReadSample
<1>11. /\ \A c, n : Nth(c, n)' = Nth(c, n)
       /\ \A p, c : Window(p, c)' = Window(p, c)
       /\ \A n, l : Through(n, l)' = Through(n, l)
  BY <1>3, SameProgram
<1>12. \A l \in 0 .. variant.lanes - 1 :
         Through(Done(c0) + 1, l) = Through(Done(c0), l) + IF l = l0 THEN 1 ELSE 0
  BY <1>2, <1>5, <1>6, <1>7, ThroughNext DEF l0
(* The FIFOs. *)
<1>13. inFifo \in [Colour -> [0 .. variant.lanes - 1 -> Seq(Element)]]
  BY <1>1 DEF FifosOK
<1>14. inFifo[c0][l0] \in Seq(Element)
  <2>1. inFifo[c0] \in [0 .. variant.lanes - 1 -> Seq(Element)]
    BY <1>4, <1>13
  <2> QED
    BY <1>5, <2>1
<1>15. /\ Len(inFifo[c0][l0]) > 0 /\ e = inFifo[c0][l0][1] /\ e \in Element
       /\ inFifo' \in [Colour -> [0 .. variant.lanes - 1 -> Seq(Element)]]
       /\ Len(inFifo'[c0][l0]) = Len(inFifo[c0][l0]) - 1
       /\ \A k \in 1 .. Len(inFifo'[c0][l0]) : inFifo'[c0][l0][k] = inFifo[c0][l0][k + 1]
       /\ \A c \in Colour : \A l \in 0 .. variant.lanes - 1 :
            c # c0 \/ l # l0 => inFifo'[c][l] = inFifo[c][l]
  <2> DEFINE q == Tail(inFifo[c0][l0])
  <2>1. /\ Len(inFifo[c0][l0]) > 0 /\ e = inFifo[c0][l0][1] /\ e \in Element
        /\ q \in Seq(Element) /\ Len(q) = Len(inFifo[c0][l0]) - 1
        /\ \A k \in 1 .. Len(q) : q[k] = inFifo[c0][l0][k + 1]
    BY <1>3, <1>14, WordOut DEF e
  <2>2. inFifo' = [inFifo EXCEPT ![c0][l0] = q]
    BY <1>3
  <2> HIDE DEF q
  <2>3. inFifo'[c0][l0] = q
    BY <1>4, <1>5, <1>13, <2>2
  <2>4. /\ inFifo' \in [Colour -> [0 .. variant.lanes - 1 -> Seq(Element)]]
        /\ \A c \in Colour : \A l \in 0 .. variant.lanes - 1 :
             c # c0 \/ l # l0 => inFifo'[c][l] = inFifo[c][l]
    BY <1>4, <1>5, <1>13, <2>1, <2>2
  <2> QED
    BY <2>1, <2>3, <2>4
<1>16. /\ sum' \in [Colour -> Seq(Element)]
       /\ Len(sum'[c0]) = Len(sum[c0]) + 1
       /\ sum'[c0][Len(sum[c0]) + 1] = e
       /\ \A k \in 1 .. Len(sum[c0]) : sum'[c0][k] = sum[c0][k]
       /\ \A c \in Colour : c # c0 => sum'[c] = sum[c]
  <2>1. sum \in [Colour -> Seq(Element)]
    BY <1>1 DEF FifosOK
  <2>2. sum[c0] \in Seq(Element)
    BY <1>4, <2>1
  <2> DEFINE q == Append(sum[c0], e)
  <2>3. /\ q \in Seq(Element) /\ Len(q) = Len(sum[c0]) + 1 /\ q[Len(sum[c0]) + 1] = e
        /\ \A k \in 1 .. Len(sum[c0]) : q[k] = sum[c0][k]
    BY <1>15, <2>2, WordIn
  <2>4. sum' = [sum EXCEPT ![c0] = q]
    BY <1>3
  <2> HIDE DEF q
  <2> QED
    BY <1>4, <2>1, <2>3, <2>4
<1>17. e = Nth(c0, Done(c0))
  <2>1. variant.lanes * Through(Done(c0), l0) + l0 = Done(c0)
    BY <1>2, <1>5, <1>6, <1>7, LaneOf DEF l0
  <2>2. 1 \in 1 .. Len(inFifo[c0][l0]) /\ Through(Done(c0), l0) + 1 - 1 = Through(Done(c0), l0)
    BY <1>4, <1>5, <1>6, <1>15
  <2>3. e = Nth(c0, variant.lanes * (Through(Done(c0), l0) + 1 - 1) + l0)
    BY <1>1, <1>4, <1>5, <1>15, <2>2 DEF InFifoInv
  <2> QED
    BY <2>1, <2>2, <2>3
<1>18. PlacesOK'
  BY <1>1, <1>3, <1>10 DEF PlacesOK
<1>19. FifosOK'
  <2>1. \A c \in Colour : \A l \in 0 .. variant.lanes - 1 : Len(inFifo[c][l]) <= Depth
    BY <1>1 DEF FifosOK
  <2>2. \A c \in Colour : \A l \in 0 .. variant.lanes - 1 : Len(inFifo'[c][l]) <= Depth
    <3> SUFFICES ASSUME NEW c \in Colour, NEW l \in 0 .. variant.lanes - 1
                 PROVE  Len(inFifo'[c][l]) <= Depth
      OBVIOUS
    <3>1. Len(inFifo[c][l]) <= Depth /\ Len(inFifo[c][l]) \in Nat
      BY <1>6, <2>1
    <3>2. CASE c = c0 /\ l = l0
      <4>1. Len(inFifo'[c][l]) = Len(inFifo[c][l]) - 1
        BY <1>15, <3>2
      <4> QED
        BY <3>1, <4>1, Sizes
    <3>3. CASE c # c0 \/ l # l0
      BY <1>15, <3>1, <3>3
    <3> QED
      BY <3>2, <3>3
  <2> QED
    BY <1>1, <1>3, <1>15, <1>16, <2>2 DEF FifosOK
<1>20. ASSUME NEW c \in Colour, NEW l \in 0 .. variant.lanes - 1
       PROVE  Through(Fed(c), l) = Through(Done(c)', l) + Len(inFifo'[c][l])
  <2>1. /\ Through(Fed(c), l) = Through(Done(c), l) + Len(inFifo[c][l])
        /\ Through(Done(c), l) \in Nat /\ Len(inFifo[c][l]) \in Nat
    BY <1>1, <1>6 DEF CountsInv
  <2>2. CASE c = c0 /\ l = l0
    <3>1. Done(c)' = Done(c) + 1 /\ Len(inFifo'[c][l]) = Len(inFifo[c][l]) - 1
      BY <1>10, <1>15, <2>2
    <3>2. Through(Done(c) + 1, l) = Through(Done(c), l) + 1
      BY <1>12, <2>2
    <3> QED
      BY <2>1, <3>1, <3>2
  <2>3. CASE c = c0 /\ l # l0
    BY <1>10, <1>12, <1>15, <2>1, <2>3
  <2>4. CASE c # c0
    BY <1>10, <1>15, <2>1, <2>4
  <2> QED
    BY <2>2, <2>3, <2>4
<1>21. CountsInv'
  <2>1. Done(c0) + 1 <= Fed(c0)
    <3>1. /\ Through(Fed(c0), l0) = Through(Done(c0), l0) + Len(inFifo[c0][l0])
          /\ Done(c0) <= Fed(c0)
      BY <1>1, <1>4, <1>5 DEF CountsInv
    <3>2. Through(Fed(c0), l0) # Through(Done(c0), l0)
      BY <1>4, <1>5, <1>6, <1>15, <3>1
    <3>3. Fed(c0) # Done(c0)
      BY <3>2
    <3> QED
      BY <1>4, <1>6, <3>1, <3>3
  <2>2. \A c \in Colour : Done(c)' <= Fed(c)
    BY <1>1, <1>10, <2>1 DEF CountsInv
  <2>3. \A c \in Colour : Written(c) = Taken(c) + Len(outFifo[c])
    BY <1>1 DEF CountsInv
  <2>4. ASSUME NEW c \in Colour PROVE Done(c)' = Taps * Working + Len(sum'[c])
    <3>1. Done(c) = Taps * Working + Len(sum[c]) /\ Len(sum[c]) \in Nat /\ Working \in Nat
      BY <1>1, <1>6 DEF CountsInv
    <3>2. CASE c = c0
      <4>1. Done(c)' = Done(c) + 1 /\ Len(sum'[c]) = Len(sum[c]) + 1
        BY <1>10, <1>16, <3>2
      <4>2. Taps * Working \in Nat
        BY <3>1 DEF Taps
      <4>3. \A m, n \in Nat : (m + n) + 1 = m + (n + 1)
        OBVIOUS
      <4> QED
        BY <3>1, <4>1, <4>2, <4>3
    <3>3. CASE c # c0
      BY <1>10, <1>16, <3>1, <3>3
    <3> QED
      BY <3>2, <3>3
  <2> QED
    BY <1>3, <1>8, <1>9, <1>10, <1>11, <1>20, <2>2, <2>3, <2>4 DEF CountsInv
<1>22. ASSUME NEW c \in Colour, NEW l \in 0 .. variant.lanes - 1,
              NEW k \in 1 .. Len(inFifo'[c][l])
       PROVE  inFifo'[c][l][k] = Nth(c, variant.lanes * (Through(Done(c)', l) + k - 1) + l)
  <2>1. CASE c = c0 /\ l = l0
    <3>1. k + 1 \in 1 .. Len(inFifo[c][l]) /\ inFifo'[c][l][k] = inFifo[c][l][k + 1]
      BY <1>6, <1>15, <2>1
    <3>2. inFifo[c][l][k + 1] =
            Nth(c, variant.lanes * (Through(Done(c), l) + (k + 1) - 1) + l)
      BY <1>1, <3>1 DEF InFifoInv
    <3>3. Through(Done(c)', l) = Through(Done(c), l) + 1 /\ Through(Done(c), l) \in Nat
      BY <1>6, <1>10, <1>12, <2>1
    <3>4. Through(Done(c)', l) + k - 1 = Through(Done(c), l) + (k + 1) - 1
      BY <3>3
    <3> QED
      BY <3>1, <3>2, <3>4
  <2>2. CASE ~(c = c0 /\ l = l0)
    <3>1. inFifo'[c][l] = inFifo[c][l]
      BY <1>15, <2>2
    <3>2. Through(Done(c)', l) = Through(Done(c), l)
      BY <1>6, <1>10, <1>12, <2>2
    <3> QED
      BY <1>1, <3>1, <3>2 DEF InFifoInv
  <2> QED
    BY <2>1, <2>2
<1>23. InFifoInv'
  BY <1>3, <1>11, <1>22 DEF InFifoInv
<1>24. SumInv'
  <2>1. ASSUME NEW c \in Colour, NEW k \in 1 .. Len(sum'[c])
        PROVE  sum'[c][k] = Nth(c, Taps * Working + k - 1)
    <3>1. CASE c = c0 /\ k = Len(sum[c0]) + 1
      <4>1. Done(c0) = Taps * Working + Len(sum[c0])
        BY <1>1, <1>4 DEF CountsInv
      <4>2. Taps * Working + k - 1 = Done(c0)
        BY <1>4, <1>6, <3>1, <4>1 DEF Taps
      <4> QED
        BY <1>16, <1>17, <3>1, <4>2
    <3>2. CASE c = c0 /\ k # Len(sum[c0]) + 1
      <4>1. k \in 1 .. Len(sum[c])
        BY <1>6, <1>16, <3>2
      <4> QED
        BY <1>1, <1>16, <3>2, <4>1 DEF SumInv
    <3>3. CASE c # c0
      BY <1>1, <1>16, <3>3 DEF SumInv
    <3> QED
      BY <3>1, <3>2, <3>3
  <2> QED
    BY <1>8, <1>11, <2>1 DEF SumInv
<1>25. OutFifoInv'
  BY <1>1, <1>3, <1>9, <1>11 DEF OutFifoInv
<1>26. TargetInv'
  BY <1>1, <1>3, <1>9, <1>11 DEF TargetInv
<1> QED
  BY <1>18, <1>19, <1>21, <1>23, <1>24, <1>25, <1>26 DEF PipeInv
-----------------------------------------------------------------------------
(* The filter writes a result: that of the window it works on. *)
LEMMA FedBound ==
  ASSUME PlacesOK, NEW c \in Colour
  PROVE  Fed(c) <= Taps * Pixels
<1>1. /\ feed.pixel \in 0 .. Pixels /\ feed.tap \in 0 .. Taps - 1 /\ feed.colour \in 1 .. 3
      /\ feed.pixel = Pixels => feed.tap = 0 /\ feed.colour = 1
  BY DEF PlacesOK
<1>2. Past(c, 1) = 0 /\ Past(c, feed.colour) \in {0, 1}
  BY ColourFacts DEF Past
<1>3. Pixels \in Nat
  BY Sizes
<1>4. CASE feed.pixel = Pixels
  BY <1>1, <1>2, <1>3, <1>4 DEF Fed, Taps
<1>5. CASE feed.pixel # Pixels
  BY <1>1, <1>2, <1>3, <1>5 DEF Fed, Taps
<1> QED
  BY <1>4, <1>5

LEMMA WholeSum ==
  ASSUME PipeInv, work.stage = "writing", NEW c \in Colour
  PROVE  sum[c] = Window(Working, c)
<1>1. PlacesOK /\ FifosOK /\ CountsInv /\ SumInv
  BY DEF PipeInv
<1>2. Working \in Nat /\ Len(sum[c]) \in Nat /\ Done(c) = Taps * Working + Taps
  BY <1>1, CountTypes DEF Done
<1>3. Len(sum[c]) = Taps
  <2>1. Done(c) = Taps * Working + Len(sum[c])
    BY <1>1 DEF CountsInv
  <2>2. \A w, m \in Nat : Taps * w + m = Taps * w + Taps => m = Taps
    BY DEF Taps
  <2> QED
    BY <1>2, <2>1, <2>2
<1>4. Working \in 0 .. Pixels - 1
  <2>1. Done(c) <= Fed(c) /\ Fed(c) <= Taps * Pixels /\ Fed(c) \in Nat
    BY <1>1, FedBound, CountTypes DEF CountsInv
  <2> QED
    BY <1>2, <2>1, Sizes DEF Taps
<1>5. sum[c] \in Seq(Element)
  BY <1>1 DEF FifosOK
<1>6. ASSUME NEW k \in 1 .. Taps
      PROVE  sum[c][k] = Window(Working, c)[k]
  <2>1. sum[c][k] = Nth(c, Taps * Working + k - 1)
    BY <1>1, <1>3 DEF SumInv
  <2>2. k - 1 \in 0 .. Taps - 1 /\ (k - 1) + 1 = k
    BY DEF Taps
  <2>3. Taps * Working + k - 1 = Taps * Working + (k - 1)
    BY <1>2 DEF Taps
  <2>4. variant \in Variants
    BY <1>1 DEF PlacesOK
  <2>5. Nth(c, Taps * Working + (k - 1)) = Window(Working, c)[(k - 1) + 1]
    BY <1>4, <2>2, <2>4, NthOfWindow
  <2> QED
    BY <2>1, <2>2, <2>3, <2>5
<1>7. sum[c] = [k \in 1 .. Taps |-> sum[c][k]]
  BY <1>3, <1>5
<1>8. Window(Working, c) = [k \in 1 .. Taps |-> Window(Working, c)[k]]
  BY DEF Window
<1> DEFINE w == Window(Working, c)
<1> HIDE DEF w
<1>9. sum[c] = w
  <2>1. w = [k \in 1 .. Taps |-> w[k]] /\ \A k \in 1 .. Taps : sum[c][k] = w[k]
    BY <1>6, <1>8 DEF w
  <2> QED
    BY <1>7, <2>1
<1> QED
  BY <1>9 DEF w

LEMMA WriteInv ==
  ASSUME PipeInv, WriteResult
  PROVE  PipeInv'
<1> DEFINE c0 == Colours[work.colour]
<1>1. PlacesOK /\ FifosOK /\ CountsInv /\ InFifoInv /\ SumInv /\ OutFifoInv /\ TargetInv
  BY DEF PipeInv
<1>2. /\ variant \in Variants
      /\ work \in [stage : {"reading", "writing"}, tap : 0 .. Taps - 1, colour : 1 .. 3]
      /\ work.stage = "writing" => work.tap = 0
  BY <1>1 DEF PlacesOK
<1>3. /\ work.stage = "writing" /\ Len(outFifo[c0]) < Depth
      /\ outFifo' = [outFifo EXCEPT ![c0] = Append(@, sum[c0])]
      /\ UNCHANGED <<variant, rst, turn, feed, fetch, stopped, inFifo, target>>
  BY DEF WriteResult
<1>4. /\ c0 \in Colour /\ Index(c0) = work.colour
      /\ \A c \in Colour : c # c0 => Index(c) # work.colour
      /\ "blue" \in Colour /\ Index("blue") = 3
  BY <1>2, ColourFacts DEF Index
<1> HIDE DEF c0
<1>5. sum[c0] = Window(Working, c0)
  BY <1>3, <1>4, WholeSum
<1>6. /\ Working \in Nat
      /\ \A c \in Colour :
           /\ Done(c) \in Nat /\ Taken(c) \in Nat /\ Written(c) \in Nat
           /\ Len(outFifo[c]) \in Nat /\ Len(sum[c]) \in Nat
  BY <1>1, CountTypes
(* The FIFO. *)
<1>7. /\ sum \in [Colour -> Seq(Element)]
      /\ outFifo \in [Colour -> Seq(Seq(Element))]
  BY <1>1 DEF FifosOK
<1>8. /\ outFifo' \in [Colour -> Seq(Seq(Element))]
      /\ Len(outFifo'[c0]) = Len(outFifo[c0]) + 1
      /\ outFifo'[c0][Len(outFifo[c0]) + 1] = Window(Working, c0)
      /\ \A k \in 1 .. Len(outFifo[c0]) : outFifo'[c0][k] = outFifo[c0][k]
      /\ \A c \in Colour : c # c0 => outFifo'[c] = outFifo[c]
  <2> DEFINE q == Append(outFifo[c0], sum[c0])
  <2>1. outFifo[c0] \in Seq(Seq(Element)) /\ sum[c0] \in Seq(Element)
    BY <1>4, <1>7
  <2>2. /\ q \in Seq(Seq(Element)) /\ Len(q) = Len(outFifo[c0]) + 1
        /\ q[Len(outFifo[c0]) + 1] = sum[c0]
        /\ \A k \in 1 .. Len(outFifo[c0]) : q[k] = outFifo[c0][k]
    BY <2>1, WordIn
  <2>3. outFifo' = [outFifo EXCEPT ![c0] = q]
    BY <1>3
  <2> HIDE DEF q
  <2>4. outFifo'[c0] = q
    BY <1>4, <1>7, <2>3
  <2>5. /\ outFifo' \in [Colour -> Seq(Seq(Element))]
        /\ \A c \in Colour : c # c0 => outFifo'[c] = outFifo[c]
    BY <1>4, <1>7, <2>2, <2>3
  <2> QED
    BY <1>5, <2>2, <2>4, <2>5
(* The counters. *)
<1>9. \A c \in Colour : Taken(c)' = Taken(c) /\ Fed(c)' = Fed(c)
  BY <1>3 DEF Taken, Fed, Past
<1>10. Written(c0) = Working
  <2>1. Past(c0, work.colour) = 0
    BY <1>2, <1>4 DEF Past
  <2> QED
    BY <1>3, <1>6, <2>1 DEF Written
<1>11. /\ work' \in [stage : {"reading", "writing"}, tap : 0 .. Taps - 1, colour : 1 .. 3]
       /\ work'.stage = "writing" => work'.tap = 0
       /\ \A c \in Colour : Done(c)' = Done(c)
       /\ \A c \in Colour : Written(c)' = IF c = c0 THEN Written(c) + 1 ELSE Written(c)
       /\ \/ Working' = Working /\ sum' = sum
          \/ Working' = Working + 1 /\ sum' = [c \in Colour |-> <<>>]
  <2>1. \A c \in Colour : Index(c) \in 1 .. 3
    BY ColourFacts
  <2>2. CASE work.colour < 3 /\ work' = [work EXCEPT !.colour = @ + 1] /\ UNCHANGED sum
    <3>1. work' = [stage |-> "writing", tap |-> work.tap, colour |-> work.colour + 1]
      BY <1>2, <1>3, <2>2
    <3>2. Working' = Working
      <4>1. c0 # "blue"
        BY <1>4, <2>2
      <4>2. outFifo'["blue"] = outFifo["blue"] /\ Taken("blue")' = Taken("blue")
        BY <1>4, <1>8, <1>9, <4>1
      <4> QED
        BY <4>2 DEF Working
    <3>3. /\ work'.stage = "writing" /\ work'.tap = 0
          /\ work'.colour = work.colour + 1 /\ work'.colour \in 1 .. 3
      BY <1>2, <1>3, <2>2, <3>1
    <3>4. \A c \in Colour : Done(c)' = Done(c)
      BY <1>3, <3>2, <3>3 DEF Done
    <3>5. \A c \in Colour : Past(c, work'.colour) =
                              IF c = c0 THEN Past(c, work.colour) + 1 ELSE Past(c, work.colour)
      BY <1>2, <1>4, <2>1, <3>3 DEF Past
    <3>6. \A c \in Colour : Past(c, work.colour) \in Nat
      BY DEF Past
    <3>7. \A c \in Colour :
            /\ Written(c) = Working + Past(c, work.colour)
            /\ Written(c)' = Working + Past(c, work'.colour)
      BY <1>3, <3>2, <3>3 DEF Written, Past
    <3>8. \A c \in Colour : Written(c)' = IF c = c0 THEN Written(c) + 1 ELSE Written(c)
      BY <1>6, <3>5, <3>6, <3>7
    <3> QED
      BY <1>2, <2>2, <3>1, <3>2, <3>4, <3>8
  <2>3. CASE /\ work.colour = 3
             /\ work' = [stage |-> "reading", tap |-> 0, colour |-> 1]
             /\ sum' = ClearedSums
    <3>1. Working' = Working + 1
      <4>1. c0 = "blue"
        BY <1>4, <2>3
      <4>2. /\ Len(outFifo'["blue"]) = Len(outFifo["blue"]) + 1
            /\ Taken("blue")' = Taken("blue")
        BY <1>4, <1>8, <1>9, <4>1
      <4>3. Taken("blue") \in Nat /\ Len(outFifo["blue"]) \in Nat
        BY <1>4, <1>6
      <4> QED
        BY <4>2, <4>3 DEF Working
    <3>2. sum' = [c \in Colour |-> <<>>]
      BY <2>3 DEF ClearedSums
    <3>3. \A c \in Colour : Past(c, 1) = 0 /\ Past(c, 3) = IF c = c0 THEN 0 ELSE 1
      BY <1>4, <2>1, <2>3 DEF Past
    <3>4. \A c \in Colour : Done(c) = Taps * Working + Taps /\ Written(c) = Working + Past(c, 3)
      BY <1>3, <2>3 DEF Done, Written
    <3>5. \A c \in Colour : Done(c)' = Taps * (Working + 1) /\ Written(c)' = Working + 1
      <4>1. work'.stage = "reading" /\ work'.tap = 0 /\ work'.colour = 1
        BY <2>3
      <4>2. \A c \in Colour :
              /\ Done(c)' = Taps * (Working + 1) + (0 + Past(c, 1))
              /\ Written(c)' = (Working + 1) + 0
        BY <3>1, <4>1 DEF Done, Written, Past
      <4> QED
        BY <1>6, <3>3, <4>2 DEF Taps
    <3>6. \A c \in Colour : Done(c)' = Done(c)
      BY <1>6, <3>4, <3>5 DEF Taps
    <3>7. \A c \in Colour : Written(c)' = IF c = c0 THEN Written(c) + 1 ELSE Written(c)
      BY <1>6, <3>3, <3>4, <3>5
    <3>8. work' \in [stage : {"reading", "writing"}, tap : 0 .. Taps - 1, colour : 1 .. 3]
      BY <2>3 DEF Taps
    <3> QED
      BY <2>3, <3>1, <3>2, <3>6, <3>7, <3>8
  <2> QED
    BY <2>2, <2>3 DEF WriteResult
<1>12. /\ \A c, n : Nth(c, n)' = Nth(c, n)
       /\ \A p, c : Window(p, c)' = Window(p, c)
       /\ \A n, l : Through(n, l)' = Through(n, l)
  BY <1>3, SameProgram
<1>13. PlacesOK'
  BY <1>1, <1>3, <1>11 DEF PlacesOK
<1>14. FifosOK'
  <2>1. sum' \in [Colour -> Seq(Element)]
    <3>1. <<>> \in Seq(Element)
      OBVIOUS
    <3> QED
      BY <1>7, <1>11, <3>1
  <2>2. \A c \in Colour : Len(outFifo'[c]) <= Depth
    <3>1. Len(outFifo'[c0]) <= Depth
      BY <1>3, <1>4, <1>6, <1>8, Sizes
    <3>2. \A c \in Colour : Len(outFifo[c]) <= Depth
      BY <1>1 DEF FifosOK
    <3> QED
      BY <1>8, <3>1, <3>2
  <2> QED
    BY <1>1, <1>3, <1>8, <2>1, <2>2 DEF FifosOK
<1>15. CountsInv'
  <2>1. ASSUME NEW c \in Colour
        PROVE  Written(c)' = Taken(c) + Len(outFifo'[c])
    <3>1. /\ Written(c) = Taken(c) + Len(outFifo[c])
          /\ Taken(c) \in Nat /\ Len(outFifo[c]) \in Nat
      BY <1>1, <1>6 DEF CountsInv
    <3>2. CASE c = c0
      <4>1. Written(c)' = Written(c) + 1 /\ Len(outFifo'[c]) = Len(outFifo[c]) + 1
        BY <1>8, <1>11, <3>2
      <4> QED
        BY <3>1, <4>1
    <3>3. CASE c # c0
      BY <1>8, <1>11, <3>1, <3>3
    <3> QED
      BY <3>2, <3>3
  <2>2. ASSUME NEW c \in Colour
        PROVE  Done(c) = Taps * Working' + Len(sum'[c])
    <3>1. CASE Working' = Working /\ sum' = sum
      BY <1>1, <3>1 DEF CountsInv
    <3>2. CASE Working' = Working + 1 /\ sum' = [a \in Colour |-> <<>>]
      <4>1. Done(c) = Taps * Working + Taps
        BY <1>3 DEF Done
      <4>2. Len(sum'[c]) = 0
        BY <3>2
      <4> QED
        BY <1>6, <3>2, <4>1, <4>2 DEF Taps
    <3> QED
      BY <1>11, <3>1, <3>2
  <2>3. \A c \in Colour :
          /\ Done(c) <= Fed(c)
          /\ \A l \in 0 .. variant.lanes - 1 :
               Through(Fed(c), l) = Through(Done(c), l) + Len(inFifo[c][l])
    BY <1>1 DEF CountsInv
  <2> QED
    BY <1>3, <1>9, <1>11, <1>12, <2>1, <2>2, <2>3 DEF CountsInv
<1>16. InFifoInv'
  BY <1>1, <1>3, <1>11, <1>12 DEF InFifoInv
<1>17. SumInv'
  <2>1. CASE Working' = Working /\ sum' = sum
    BY <1>1, <1>12, <2>1 DEF SumInv
  <2>2. CASE sum' = [c \in Colour |-> <<>>]
    <3>1. \A c \in Colour : Len(sum'[c]) = 0
      BY <2>2
    <3> QED
      BY <3>1 DEF SumInv
  <2> QED
    BY <1>11, <2>1, <2>2
<1>18. OutFifoInv'
  <2>1. ASSUME NEW c \in Colour, NEW k \in 1 .. Len(outFifo'[c])
        PROVE  outFifo'[c][k] = Window(Taken(c) + k - 1, c)
    <3>1. CASE c = c0 /\ k = Len(outFifo[c0]) + 1
      <4>1. /\ Working = Taken(c0) + Len(outFifo[c0])
            /\ Taken(c0) \in Nat /\ Len(outFifo[c0]) \in Nat
        BY <1>1, <1>4, <1>6, <1>10 DEF CountsInv
      <4>2. Taken(c0) + k - 1 = Working
        BY <3>1, <4>1
      <4> QED
        BY <1>8, <3>1, <4>2
    <3>2. CASE c = c0 /\ k # Len(outFifo[c0]) + 1
      <4>1. k \in 1 .. Len(outFifo[c])
        BY <1>6, <1>8, <3>2
      <4> QED
        BY <1>1, <1>8, <3>2, <4>1 DEF OutFifoInv
    <3>3. CASE c # c0
      BY <1>1, <1>8, <3>3 DEF OutFifoInv
    <3> QED
      BY <3>1, <3>2, <3>3
  <2> QED
    BY <1>9, <1>12, <2>1 DEF OutFifoInv
<1>19. TargetInv'
  BY <1>1, <1>3, <1>9, <1>12 DEF TargetInv
<1> QED
  BY <1>13, <1>14, <1>15, <1>16, <1>17, <1>18, <1>19 DEF PipeInv
-----------------------------------------------------------------------------
(* The fetcher. *)
LEMMA FetchInv ==
  ASSUME PipeInv, Fetch
  PROVE  PipeInv'
<1>1. PlacesOK /\ FifosOK /\ CountsInv /\ InFifoInv /\ SumInv /\ OutFifoInv /\ TargetInv
  BY DEF PipeInv
<1>2. /\ variant \in Variants /\ turn \in {"feed", "fetch"}
      /\ fetch \in [pixel : 0 .. Pixels, colour : 1 .. 3]
      /\ fetch.pixel = Pixels => fetch.colour = 1
      /\ stopped <=> fetch.pixel = Pixels
  BY <1>1 DEF PlacesOK
<1>3. PICK c0 \in Colour : c0 = Colours[fetch.colour] /\ Source(fetch.colour) = c0
  BY <1>2, ColourFacts
<1>4. /\ ~stopped
      /\ \/ /\ c0 \in Fetched
            /\ outFifo[c0] # <<>>
            /\ target' = [target EXCEPT ![fetch.pixel][c0] = Head(outFifo[c0])]
            /\ outFifo' = [outFifo EXCEPT ![c0] = Tail(@)]
         \/ /\ c0 \notin Fetched
            /\ UNCHANGED <<target, outFifo>>
      /\ UNCHANGED <<variant, rst, feed, inFifo, work, sum>>
  BY <1>3 DEF Fetch
<1>5. /\ c0 \in Colour /\ Index(c0) = fetch.colour
      /\ \A c \in Colour : c # c0 => Index(c) # fetch.colour
      /\ "blue" \in Colour
  BY <1>2, <1>3, ColourFacts
<1>6. fetch.pixel \in 0 .. Pixels - 1
  BY <1>2, <1>4, Sizes
<1>7. /\ Working \in Nat
      /\ \A c \in Colour : Taken(c) \in Nat /\ Len(outFifo[c]) \in Nat
  BY <1>1, CountTypes
(* The counters. *)
<1>8. /\ fetch' \in [pixel : 0 .. Pixels, colour : 1 .. 3]
      /\ turn' \in {"feed", "fetch"} /\ stopped' \in BOOLEAN
      /\ fetch'.pixel = Pixels => fetch'.colour = 1
      /\ stopped' <=> fetch'.pixel = Pixels
      /\ \A c \in Colour :
           Taken(c)' = IF c = c0 /\ c \in Fetched THEN Taken(c) + 1 ELSE Taken(c)
  <2>1. \A c \in Colour : Index(c) \in 1 .. 3
    BY ColourFacts
  <2>2. CASE /\ fetch.colour < 3
             /\ fetch' = [fetch EXCEPT !.colour = @ + 1]
             /\ UNCHANGED <<turn, stopped>>
    <3>1. fetch' = [pixel |-> fetch.pixel, colour |-> fetch.colour + 1]
      BY <1>2, <2>2
    <3>2. \A c \in Colour : Past(c, fetch.colour + 1) =
                              IF c = c0 THEN Past(c, fetch.colour) + 1 ELSE Past(c, fetch.colour)
      BY <1>2, <1>5, <2>1 DEF Past
    <3>3. \A c \in Colour :
            Taken(c)' = IF c \in Fetched THEN fetch.pixel + Past(c, fetch.colour + 1) ELSE 0
      BY <3>1 DEF Taken, Past
    <3>4. \A c : Past(c, fetch.colour) \in Nat
      BY DEF Past
    <3>5. \A c \in Colour :
            Taken(c)' = IF c = c0 /\ c \in Fetched THEN Taken(c) + 1 ELSE Taken(c)
      BY <1>6, <3>2, <3>3, <3>4 DEF Taken
    <3>6. stopped' = FALSE /\ fetch'.pixel # Pixels
      BY <1>4, <1>6, <2>2, <3>1, Sizes
    <3>7. fetch'.pixel = fetch.pixel /\ fetch'.colour = fetch.colour + 1
      BY <3>1
    <3>8. fetch.pixel \in 0 .. Pixels /\ fetch.colour \in 1 .. 3 /\ fetch.colour < 3
      BY <1>2, <2>2
    <3>9. fetch' \in [pixel : 0 .. Pixels, colour : 1 .. 3]
      BY <3>1, <3>8
    <3>10. turn' \in {"feed", "fetch"} /\ stopped' \in BOOLEAN
      BY <1>2, <2>2, <3>6
    <3> QED
      BY <3>5, <3>6, <3>9, <3>10
  <2>3. CASE /\ fetch.colour = 3
             /\ fetch' = [pixel |-> fetch.pixel + 1, colour |-> 1]
             /\ turn' = "feed"
             /\ stopped' = LastPixel(fetch.pixel)
    <3>1. \A c \in Colour : Past(c, 1) = 0 /\ Past(c, 3) = IF c = c0 THEN 0 ELSE 1
      BY <1>5, <2>1, <2>3 DEF Past
    <3>2. \A c \in Colour :
            Taken(c)' = IF c \in Fetched THEN (fetch.pixel + 1) + Past(c, 1) ELSE 0
      BY <2>3 DEF Taken, Past
    <3>3. \A c \in Colour :
            Taken(c)' = IF c = c0 /\ c \in Fetched THEN Taken(c) + 1 ELSE Taken(c)
      BY <1>6, <2>3, <3>1, <3>2 DEF Taken
    <3>4. stopped' \in BOOLEAN /\ (stopped' <=> fetch.pixel + 1 = Pixels)
      <4>1. stopped' = (fetch.pixel = Pixels - 1)
        BY <2>3 DEF LastPixel
      <4>2. (fetch.pixel = Pixels - 1) <=> (fetch.pixel + 1 = Pixels)
        BY <1>6, Sizes
      <4> QED
        BY <4>1, <4>2
    <3> QED
      BY <1>6, <2>3, <3>3, <3>4, Sizes
  <2> QED
    BY <2>2, <2>3 DEF Fetch
(* The FIFO. *)
<1>9. outFifo \in [Colour -> Seq(Seq(Element))]
  BY <1>1 DEF FifosOK
<1>10. CASE c0 \in Fetched
  <2>1. /\ outFifo[c0] # <<>>
        /\ target' = [target EXCEPT ![fetch.pixel][c0] = Head(outFifo[c0])]
        /\ outFifo' = [outFifo EXCEPT ![c0] = Tail(@)]
    BY <1>4, <1>10
  <2> DEFINE q == Tail(outFifo[c0])
             w == Head(outFifo[c0])
  <2>2. outFifo[c0] \in Seq(Seq(Element))
    BY <1>5, <1>9
  <2>3. /\ Len(outFifo[c0]) > 0 /\ w = outFifo[c0][1] /\ w \in Seq(Element)
        /\ q \in Seq(Seq(Element)) /\ Len(q) = Len(outFifo[c0]) - 1
        /\ \A k \in 1 .. Len(q) : q[k] = outFifo[c0][k + 1]
    BY <2>1, <2>2, WordOut
  <2>4. /\ outFifo' = [outFifo EXCEPT ![c0] = q]
        /\ target' = [target EXCEPT ![fetch.pixel][c0] = w]
    BY <2>1
  <2> HIDE DEF q, w
  <2>5. /\ outFifo' \in [Colour -> Seq(Seq(Element))]
        /\ outFifo'[c0] = q
        /\ \A c \in Colour : c # c0 => outFifo'[c] = outFifo[c]
    BY <1>5, <1>9, <2>3, <2>4
  <2>6. Taken(c0)' = Taken(c0) + 1 /\ \A c \in Colour : c # c0 => Taken(c)' = Taken(c)
    BY <1>5, <1>8, <1>10
  <2>7. \A c \in Colour : Taken(c)' + Len(outFifo'[c]) = Taken(c) + Len(outFifo[c])
    <3>1. ASSUME NEW c \in Colour
          PROVE  Taken(c)' + Len(outFifo'[c]) = Taken(c) + Len(outFifo[c])
      <4>1. CASE c = c0
        <5>1. Taken(c)' = Taken(c) + 1
          BY <1>8, <1>10, <4>1
        <5>2. Len(outFifo'[c]) = Len(outFifo[c]) - 1
          BY <2>3, <2>5, <4>1
        <5> QED
          BY <1>7, <5>1, <5>2
      <4>2. CASE c # c0
        BY <2>5, <2>6, <4>2
      <4> QED
        BY <4>1, <4>2
    <3> QED
      BY <3>1
  <2>8. Working' = Working
    <3>1. Working' = Taken("blue")' + Len(outFifo'["blue"])
      BY DEF Working
    <3> QED
      BY <1>5, <2>7, <3>1 DEF Working
  <2>9. \A c \in Colour : Done(c)' = Done(c) /\ Written(c)' = Written(c) /\ Fed(c)' = Fed(c)
    BY <1>4, <2>8 DEF Done, Written, Fed, Past
  <2>10. /\ \A c, n : Nth(c, n)' = Nth(c, n)
         /\ \A p, c : Window(p, c)' = Window(p, c)
         /\ \A n, l : Through(n, l)' = Through(n, l)
    BY <1>4, SameProgram
  <2>11. PlacesOK'
    BY <1>1, <1>4, <1>8 DEF PlacesOK
  <2>12. FifosOK'
    <3>1. ASSUME NEW c \in Colour PROVE Len(outFifo'[c]) <= Depth
      <4>1. Len(outFifo[c]) <= Depth /\ Len(outFifo[c]) \in Nat
        BY <1>1, <1>7 DEF FifosOK
      <4>2. CASE c = c0
        BY <2>3, <2>5, <4>1, <4>2, Sizes
      <4>3. CASE c # c0
        BY <2>5, <4>1, <4>3
      <4> QED
        BY <4>2, <4>3
    <3> QED
      BY <1>1, <1>4, <2>5, <3>1 DEF FifosOK
  <2>13. CountsInv'
    BY <1>1, <1>4, <2>7, <2>8, <2>9, <2>10 DEF CountsInv
  <2>14. InFifoInv'
    BY <1>1, <1>4, <2>9, <2>10 DEF InFifoInv
  <2>15. SumInv'
    BY <1>1, <1>4, <2>8, <2>10 DEF SumInv
  <2>16. OutFifoInv'
    <3>1. ASSUME NEW c \in Colour, NEW k \in 1 .. Len(outFifo'[c])
          PROVE  outFifo'[c][k] = Window(Taken(c)' + k - 1, c)
      <4>1. CASE c = c0
        <5>1. k + 1 \in 1 .. Len(outFifo[c0]) /\ outFifo'[c][k] = outFifo[c0][k + 1]
          BY <1>5, <1>7, <2>3, <2>5, <4>1
        <5>2. outFifo[c0][k + 1] = Window(Taken(c0) + (k + 1) - 1, c0)
          BY <1>1, <1>5, <5>1 DEF OutFifoInv
        <5>3. Taken(c0) + (k + 1) - 1 = Taken(c)' + k - 1
          BY <1>5, <1>7, <2>6, <4>1
        <5> QED
          BY <4>1, <5>1, <5>2, <5>3
      <4>2. CASE c # c0
        BY <1>1, <2>5, <2>6, <4>2 DEF OutFifoInv
      <4> QED
        BY <4>1, <4>2
    <3> QED
      BY <2>10, <3>1 DEF OutFifoInv
  <2>17. TargetInv'
    <3>1. /\ target \in [0 .. Pixels - 1 -> [Colour -> Seq(Element)]]
          /\ \A p \in 0 .. Pixels - 1, c \in Colour :
               target[p][c] = IF p < Taken(c) THEN Window(p, c) ELSE <<>>
      BY <1>1 DEF TargetInv
    <3>2. Taken(c0) = fetch.pixel
      <4>1. Past(c0, fetch.colour) = 0
        BY <1>2, <1>5 DEF Past
      <4> QED
        BY <1>6, <1>10, <4>1 DEF Taken
    <3>3. w = Window(fetch.pixel, c0)
      <4>1. 1 \in 1 .. Len(outFifo[c0]) /\ Taken(c0) + 1 - 1 = fetch.pixel
        BY <1>5, <1>6, <1>7, <2>3, <3>2
      <4>2. outFifo[c0][1] = Window(Taken(c0) + 1 - 1, c0)
        BY <1>1, <1>5, <4>1 DEF OutFifoInv
      <4> QED
        BY <2>3, <4>1, <4>2
    <3>4. /\ target' \in [0 .. Pixels - 1 -> [Colour -> Seq(Element)]]
          /\ target'[fetch.pixel][c0] = w
          /\ \A p \in 0 .. Pixels - 1, c \in Colour :
               p # fetch.pixel \/ c # c0 => target'[p][c] = target[p][c]
      BY <1>5, <1>6, <2>3, <2>4, <3>1
    <3>5. ASSUME NEW p \in 0 .. Pixels - 1, NEW c \in Colour
          PROVE  target'[p][c] = IF p < Taken(c)' THEN Window(p, c) ELSE <<>>
      <4>1. CASE c = c0 /\ p = fetch.pixel
        <5>1. p < Taken(c)'
          BY <1>6, <2>6, <3>2, <4>1
        <5> QED
          BY <3>3, <3>4, <4>1, <5>1
      <4>2. CASE c = c0 /\ p # fetch.pixel
        <5>1. p < Taken(c)' <=> p < Taken(c)
          BY <1>6, <2>6, <3>2, <4>2
        <5> QED
          BY <3>1, <3>4, <4>2, <5>1
      <4>3. CASE c # c0
        BY <2>6, <3>1, <3>4, <4>3
      <4> QED
        BY <4>1, <4>2, <4>3
    <3> QED
      BY <2>10, <3>4, <3>5 DEF TargetInv
  <2> QED
    BY <2>11, <2>12, <2>13, <2>14, <2>15, <2>16, <2>17 DEF PipeInv
<1>11. CASE c0 \notin Fetched
  <2>1. UNCHANGED <<target, outFifo>>
    BY <1>4, <1>11
  <2>2. \A c \in Colour : Taken(c)' = Taken(c)
    BY <1>5, <1>8, <1>11
  <2>3. Working' = Working
    <3>1. Working' = Taken("blue")' + Len(outFifo'["blue"])
      BY DEF Working
    <3> QED
      BY <1>5, <2>1, <2>2, <3>1 DEF Working
  <2>4. \A c \in Colour : Done(c)' = Done(c) /\ Written(c)' = Written(c) /\ Fed(c)' = Fed(c)
    BY <1>4, <2>3 DEF Done, Written, Fed, Past
  <2>5. /\ \A c, n : Nth(c, n)' = Nth(c, n)
        /\ \A p, c : Window(p, c)' = Window(p, c)
        /\ \A n, l : Through(n, l)' = Through(n, l)
    BY <1>4, SameProgram
  <2>6. PlacesOK'
    BY <1>1, <1>4, <1>8 DEF PlacesOK
  <2>7. FifosOK'
    BY <1>1, <1>4, <2>1 DEF FifosOK
  <2>8. CountsInv'
    BY <1>1, <1>4, <2>1, <2>2, <2>3, <2>4, <2>5 DEF CountsInv
  <2>9. InFifoInv' /\ SumInv'
    BY <1>1, <1>4, <2>3, <2>4, <2>5 DEF InFifoInv, SumInv
  <2>10. OutFifoInv'
    BY <1>1, <2>1, <2>2, <2>5 DEF OutFifoInv
  <2>11. TargetInv'
    BY <1>1, <2>1, <2>2, <2>5 DEF TargetInv
  <2> QED
    BY <2>6, <2>7, <2>8, <2>9, <2>10, <2>11 DEF PipeInv
<1> QED
  BY <1>10, <1>11

LEMMA QuietInv ==
  ASSUME PipeInv, ReleaseReset \/ UNCHANGED vars
  PROVE  PipeInv'
<1>1. /\ rst' \in BOOLEAN
      /\ UNCHANGED <<variant, turn, feed, fetch, stopped, inFifo, outFifo, work, sum,
                     target>>
  BY DEF ReleaseReset, vars, PipeInv, PlacesOK
<1>2. /\ \A c, n : Nth(c, n)' = Nth(c, n)
      /\ \A p, c : Window(p, c)' = Window(p, c)
      /\ \A n, l : Through(n, l)' = Through(n, l)
  BY <1>1, SameProgram
<1>3. /\ Working' = Working
      /\ \A c \in Colour :
           /\ Taken(c)' = Taken(c) /\ Fed(c)' = Fed(c)
           /\ Done(c)' = Done(c) /\ Written(c)' = Written(c)
  BY <1>1 DEF Working, Taken, Fed, Done, Written, Past
<1>4. PlacesOK' /\ FifosOK'
  BY <1>1 DEF PipeInv, PlacesOK, FifosOK
<1>5. CountsInv'
  BY <1>1, <1>2, <1>3 DEF PipeInv, CountsInv
<1>6. InFifoInv' /\ SumInv'
  BY <1>1, <1>2, <1>3 DEF PipeInv, InFifoInv, SumInv
<1>7. OutFifoInv' /\ TargetInv'
  BY <1>1, <1>2, <1>3 DEF PipeInv, OutFifoInv, TargetInv
<1> QED
  BY <1>4, <1>5, <1>6, <1>7 DEF PipeInv

(* What lies between the counts is what the FIFOs hold. *)
THEOREM PipelineInvariant == Spec => []PipeInv
<1>1. PipeInv /\ [Next]_vars => PipeInv'
  BY FeedInv, ReadInv, WriteInv, FetchInv, QuietInv DEF Next
<1> QED
  BY <1>1, PipeInit, PTL DEF Spec

(* Every variable has its type, and no FIFO ever exceeds its capacity. *)
THEOREM PipelineTypeCorrect == Spec => []TypeOK
<1>1. ASSUME PipeInv PROVE TypeOK
  <2>1. PlacesOK /\ FifosOK /\ CountsInv
    BY <1>1 DEF PipeInv
  <2>2. ASSUME NEW c \in Colour PROVE Len(sum[c]) <= Taps
    <3>1. /\ Done(c) = Taps * Working + Len(sum[c])
          /\ Working \in Nat /\ Len(sum[c]) \in Nat
      BY <2>1, CountTypes DEF CountsInv
    <3>2. /\ Past(c, work.colour) \in {0, 1}
          /\ work.tap \in 0 .. Taps - 1
      BY <2>1, CountTypes DEF PlacesOK
    <3>3. Done(c) = Taps * Working + IF work.stage = "writing" THEN Taps
                                     ELSE work.tap + Past(c, work.colour)
      BY DEF Done
    <3>4. Taps * Working \in Nat /\ Taps \in Nat
      BY <3>1 DEF Taps
    <3>5. \A m, n, k \in Nat : m + n = m + k => n = k
      OBVIOUS
    <3>6. CASE work.stage = "writing"
      <4>1. Len(sum[c]) = Taps
        <5>1. Taps * Working + Len(sum[c]) = Taps * Working + Taps
          BY <3>1, <3>3, <3>6
        <5> QED
          BY <3>1, <3>4, <3>5, <5>1
      <4> QED
        BY <3>4, <4>1
    <3>7. CASE work.stage # "writing"
      <4>1. work.tap + Past(c, work.colour) \in 0 .. Taps
        BY <3>2 DEF Taps
      <4>2. Len(sum[c]) = work.tap + Past(c, work.colour)
        <5>1. Taps * Working + Len(sum[c]) = Taps * Working + (work.tap + Past(c, work.colour))
          BY <3>1, <3>3, <3>7
        <5>2. work.tap + Past(c, work.colour) \in Nat
          BY <3>2, <3>4
        <5> QED
          BY <3>1, <3>4, <3>5, <5>1, <5>2
      <4> QED
        BY <4>1, <4>2
    <3> QED
      BY <3>6, <3>7
  <2> QED
    BY <2>1, <2>2 DEF PlacesOK, FifosOK, TypeOK
<1> QED
  BY <1>1, PipelineInvariant, PTL

(* Whatever has been stored is the pixel's own window, in its own colour,  *)
(* for images and FIFOs of every size.                                     *)
THEOREM TargetAlwaysCorrect == Spec => []TargetCorrect
<1>1. PipeInv => TargetCorrect
  BY DEF PipeInv, TargetInv, TargetCorrect
<1> QED
  BY <1>1, PipelineInvariant, PTL

(* When the simulation is stopped every pixel has its result and nothing   *)
(* is in flight: if one colour has all its results, the filter has been    *)
(* given, and has read, everything in all three.                           *)
THEOREM StopsAlwaysComplete == Spec => []StopsComplete
<1>1. ASSUME PipeInv, stopped PROVE StopsComplete
  <2>1. PlacesOK /\ FifosOK /\ CountsInv /\ TargetInv
    BY <1>1 DEF PipeInv
  <2>2. fetch.pixel = Pixels /\ fetch.colour = 1
    BY <1>1, <2>1 DEF PlacesOK
  <2>3. \A c \in Fetched : c \in Colour /\ Taken(c) = Pixels
    <3>1. \A c \in Colour : Past(c, 1) = 0
      BY ColourFacts DEF Past
    <3> QED
      BY <2>2, <3>1, FetchedAssumption, Sizes DEF Taken
  <2>4. PICK f \in Fetched : TRUE
    BY FetchedAssumption
  <2>5. /\ Working \in Nat
        /\ \A c \in Colour :
             /\ Past(c, work.colour) \in {0, 1} /\ Past(c, feed.colour) \in {0, 1}
             /\ Len(outFifo[c]) \in Nat /\ Written(c) \in Nat
             /\ Done(c) \in Nat /\ Fed(c) \in Nat
             /\ Done(c) <= Fed(c) /\ Fed(c) <= Taps * Pixels
             /\ Written(c) = Taken(c) + Len(outFifo[c])
    BY <2>1, CountTypes, FedBound DEF CountsInv
  <2>6. /\ work.stage \in {"reading", "writing"} /\ work.tap \in 0 .. Taps - 1
        /\ work.stage = "writing" => work.tap = 0
        /\ feed.pixel \in 0 .. Pixels /\ feed.tap \in 0 .. Taps - 1
    BY <2>1 DEF PlacesOK
  <2>7. /\ \A c \in Colour : Done(c) = Taps * Pixels /\ Fed(c) = Taps * Pixels
        /\ work.tap = 0
        /\ \A c \in Colour : Written(c) <= Pixels
    <3>1. CASE work.stage = "writing"
      <4>1. \A c \in Colour :
              /\ Written(c) = Working + Past(c, work.colour)
              /\ Done(c) = Taps * Working + Taps
        BY <3>1 DEF Written, Done
      <4>2. Working + 1 >= Pixels
        BY <2>3, <2>4, <2>5, <4>1, Sizes
      <4>3. \A c \in Colour : Taps * Working + Taps <= Taps * Pixels
        BY <2>5, <4>1, Sizes DEF Taps
      <4>4. Working + 1 = Pixels
        BY <2>3, <2>4, <2>5, <4>2, <4>3, Sizes DEF Taps
      <4>5. \A c \in Colour : Done(c) = Taps * Pixels
        BY <2>5, <4>1, <4>4, Sizes DEF Taps
      <4>6. \A c \in Colour : Fed(c) = Taps * Pixels
        BY <2>5, <4>5, Sizes DEF Taps
      <4>7. \A c \in Colour : Written(c) <= Pixels
        BY <2>5, <4>1, <4>4, Sizes
      <4> QED
        BY <2>6, <3>1, <4>5, <4>6, <4>7
    <3>2. CASE work.stage = "reading"
      <4>1. \A c \in Colour :
              /\ Written(c) = Working + 0
              /\ Done(c) = Taps * Working + (work.tap + Past(c, work.colour))
        BY <3>2 DEF Written, Done
      <4>2. Working >= Pixels
        BY <2>3, <2>4, <2>5, <4>1, Sizes
      <4>3. \A c \in Colour :
              Taps * Working + (work.tap + Past(c, work.colour)) <= Taps * Pixels
        BY <2>5, <2>6, <4>1, Sizes DEF Taps
      <4>4. Working = Pixels /\ work.tap = 0 /\ \A c \in Colour : Past(c, work.colour) = 0
        <5>1. \A i, j, k, q \in Nat :
                i >= j /\ 9 * i + (k + q) <= 9 * j => i = j /\ k = 0 /\ q = 0
          OBVIOUS
        <5>2. /\ Working \in Nat /\ Pixels \in Nat /\ work.tap \in Nat
              /\ \A c \in Colour : Past(c, work.colour) \in Nat
          BY <2>5, <2>6, Sizes
        <5>3. \A c \in Colour :
                Working = Pixels /\ work.tap = 0 /\ Past(c, work.colour) = 0
          BY <4>2, <4>3, <5>1, <5>2 DEF Taps
        <5> QED
          BY <5>3, ColourFacts
      <4>5. \A c \in Colour : Done(c) = Taps * Pixels
        BY <2>5, <4>1, <4>4, Sizes DEF Taps
      <4>6. \A c \in Colour : Fed(c) = Taps * Pixels
        BY <2>5, <4>5, Sizes DEF Taps
      <4>7. \A c \in Colour : Written(c) <= Pixels
        BY <2>5, <4>1, <4>4, Sizes
      <4> QED
        BY <4>4, <4>5, <4>6, <4>7
    <3> QED
      BY <2>6, <3>1, <3>2
  <2>8. feed.pixel = Pixels
    <3>1. "blue" \in Colour /\ Past("blue", feed.colour) = 0
      <4>1. feed.colour \in 1 .. 3 /\ Index("blue") = 3 /\ "blue" \in Colour
        BY <2>1, ColourFacts DEF PlacesOK, Index
      <4> QED
        BY <4>1 DEF Past
    <3>2. Taps * Pixels = Taps * feed.pixel + feed.tap + 0
      BY <2>7, <3>1 DEF Fed
    <3> QED
      BY <2>6, <3>2, Sizes DEF Taps
  <2>9. ASSUME NEW c \in Colour, NEW l \in 0 .. variant.lanes - 1
        PROVE  inFifo[c][l] = <<>>
    <3>1. Len(inFifo[c][l]) = 0
      <4>1. /\ Through(Fed(c), l) = Through(Done(c), l) + Len(inFifo[c][l])
            /\ Through(Done(c), l) \in Nat /\ Len(inFifo[c][l]) \in Nat
            /\ Fed(c) = Done(c)
        BY <2>1, <2>7, CountTypes DEF CountsInv
      <4>2. Through(Fed(c), l) = Through(Done(c), l)
        BY <4>1
      <4> QED
        BY <4>1, <4>2
    <3>2. inFifo[c][l] \in Seq(Element)
      BY <2>1 DEF FifosOK
    <3> QED
      BY <3>1, <3>2
  <2>10. ASSUME NEW c \in Fetched PROVE outFifo[c] = <<>>
    <3>1. Len(outFifo[c]) = 0
      BY <2>3, <2>5, <2>7, Sizes
    <3>2. outFifo[c] \in Seq(Seq(Element))
      BY <2>1, <2>3 DEF FifosOK
    <3> QED
      BY <3>1, <3>2
  <2>11. ASSUME NEW p \in 0 .. Pixels - 1, NEW c \in Fetched
         PROVE  target[p][c] # <<>>
    <3>1. target[p][c] = Window(p, c)
      BY <2>1, <2>3, Sizes DEF TargetInv
    <3>2. 1 \in DOMAIN Window(p, c)
      BY DEF Window, Taps
    <3>3. 1 \notin DOMAIN <<>>
      OBVIOUS
    <3> QED
      BY <3>1, <3>2, <3>3
  <2> QED
    BY <2>7, <2>8, <2>9, <2>10, <2>11 DEF StopsComplete
<1>2. PipeInv => StopsComplete
  BY <1>1 DEF StopsComplete
<1> QED
  BY <1>2, PipelineInvariant, PTL
-----------------------------------------------------------------------------
(* The numbers of the results. *)
(* The number of a sum, as the sum of a function. *)
Terms(q) == [t \in 1 .. Taps |-> Weights[t] * Amount(q[t])]

LEMMA WeightedTotal ==
  ASSUME NEW q
  PROVE  WeightedSum(q) = Total(Terms(q), 1 .. Taps)
<1> DEFINE S == 1 .. Taps
           IsFold(h) == h = [s \in SUBSET S |->
             IF s = {} THEN 0
             ELSE Weights[Chosen(s)] * Amount(q[Chosen(s)]) + h[Others(s)]]
           h == CHOOSE h : IsFold(h)
<1>1. IsFiniteSet(S)
  <2>1. 1 \in Int /\ Taps \in Int
    BY DEF Taps
  <2> QED
    BY <2>1, FS_Interval
<1>2. \A s \in SUBSET S : s # {} =>
        Terms(q)[Chosen(s)] = Weights[Chosen(s)] * Amount(q[Chosen(s)])
  <2>1. \A s \in SUBSET S : s # {} => Chosen(s) \in S
    BY ChosenFacts
  <2> QED
    BY <2>1 DEF Terms
<1>3. WeightedSum(q) = h[S]
  BY DEF WeightedSum, MapThenSumSet, MapThenFoldSet, Chosen, Others
<1> HIDE DEF S
<1>4. ASSUME NEW g
      PROVE  IsFold(g) <=> IsSums(g, Terms(q), S)
  BY <1>2 DEF IsSums
<1>5. \E g : IsSums(g, Terms(q), S)
  BY <1>1, SumsExist
<1> HIDE DEF IsFold
<1>6. IsFold(h)
  BY <1>4, <1>5
<1> HIDE DEF h
<1>7. IsSums(h, Terms(q), S)
  BY <1>4, <1>6
<1>8. Total(Terms(q), S) = h[S]
  BY <1>1, <1>7, TotalIsSums
<1> QED
  BY <1>3, <1>8 DEF S

LEMMA NineTerms ==
  ASSUME NEW f, \A t \in 1 .. 9 : f[t] \in Int
  PROVE  Total(f, 1 .. 9) = f[1] + f[2] + f[3] + f[4] + f[5] + f[6] + f[7] + f[8] + f[9]
<1>1. \A n \in 0 .. 8 : Total(f, 1 .. n + 1) = f[n + 1] + Total(f, 1 .. n)
  <2>1. ASSUME NEW n \in 0 .. 8
        PROVE  Total(f, 1 .. n + 1) = f[n + 1] + Total(f, 1 .. n)
    <3>1. n \in Nat /\ \A k \in 1 .. n + 1 : f[k] \in Int
      OBVIOUS
    <3> QED
      BY <3>1, TotalInterval
  <2> QED
    BY <2>1
<1>2. Total(f, 1 .. 0) = 0
  BY TotalEmpty
<1> DEFINE T(n) == Total(f, 1 .. n)
<1> HIDE DEF T
<1>3. /\ T(0) = 0 /\ T(1) = f[1] + T(0) /\ T(2) = f[2] + T(1) /\ T(3) = f[3] + T(2)
      /\ T(4) = f[4] + T(3) /\ T(5) = f[5] + T(4) /\ T(6) = f[6] + T(5)
      /\ T(7) = f[7] + T(6) /\ T(8) = f[8] + T(7) /\ T(9) = f[9] + T(8)
  <2>1. \A n \in 0 .. 8 : T(n + 1) = f[n + 1] + T(n)
    BY <1>1 DEF T
  <2>2. T(0) = 0
    BY <1>2 DEF T
  <2> QED
    BY <2>1, <2>2
<1>4. T(9) = f[1] + f[2] + f[3] + f[4] + f[5] + f[6] + f[7] + f[8] + f[9]
  BY <1>3
<1> QED
  BY <1>4 DEF T

(* Where a pixel is, and what is seen of a place. *)
LEMMA NearByte ==
  ASSUME NEW a, NEW b, NEW c \in Colour
  PROVE  Near(a, b, c) \in 0 .. 255
BY BrightnessAssumption DEF Near

(* The samples of a window are the pixel and its neighbours, in the order  *)
(* of the weights.                                                         *)
LEMMA WindowAmounts ==
  ASSUME variant \in Variants, NEW p \in 0 .. Pixels - 1, NEW c \in Colour
  PROVE  \A t \in 1 .. Taps :
           Amount(Window(p, c)[t]) = Near(X(p) + Across(t - 1), Y(p) + Down(t - 1), c)
<1>1. X(p) \in 0 .. Width - 1 /\ Y(p) \in 0 .. Height - 1
  BY InImage
<1>2. ASSUME NEW t \in 1 .. Taps
      PROVE  Amount(Window(p, c)[t]) = Near(X(p) + Across(t - 1), Y(p) + Down(t - 1), c)
  <2> DEFINE a == X(p) + Across(t - 1)
             b == Y(p) + Down(t - 1)
             s == Window(p, c)[t]
  <2>1. s.colour = c /\ s.at = IF a \in 0 .. Width - 1 /\ b \in 0 .. Height - 1
                                 THEN <<a, b>> ELSE Zero
    BY DEF Window
  <2> HIDE DEF s
  <2>2. CASE a \in 0 .. Width - 1 /\ b \in 0 .. Height - 1
    <3>1. s.at = <<a, b>> /\ s.at # Zero
      BY <2>1, <2>2, PipelineAssumption DEF Zero
    <3> QED
      BY <2>1, <2>2, <3>1 DEF Amount, Near, s
  <2>3. CASE ~(a \in 0 .. Width - 1 /\ b \in 0 .. Height - 1)
    BY <2>1, <2>3 DEF Amount, Near, s
  <2> QED
    BY <2>2, <2>3
<1> QED
  BY <1>2

(* The nine places of a window. *)
LEMMA PlacesOf ==
  ASSUME variant \in Variants, NEW p \in 0 .. Pixels - 1
  PROVE  LET e == [t \in 1 .. Taps |-> <<X(p) + Across(t - 1), Y(p) + Down(t - 1)>>]
         IN  /\ \A i, j \in 1 .. Taps : e[i] = e[j] => i = j
             /\ Neighbours(p) = {e[t] : t \in 1 .. Taps}
             /\ e[5] = <<X(p), Y(p)>>
<1> DEFINE e == [t \in 1 .. Taps |-> <<X(p) + Across(t - 1), Y(p) + Down(t - 1)>>]
<1>1. X(p) \in Int /\ Y(p) \in Int
  BY InImage, PipelineAssumption
<1>2. variant.columns \in BOOLEAN
  BY PipelineAssumption
<1> DEFINE column(t) == (t \div 3) - 1
           row(t) == (t % 3) - 1
<1>3. \A t \in 0 .. 8 : IF variant.columns
        THEN Across(t) = column(t) /\ Down(t) = row(t)
        ELSE Across(t) = row(t) /\ Down(t) = column(t)
  BY DEF Across, Down, FilterWidth
<1>4. \A s, t \in 0 .. 8 : column(s) = column(t) /\ row(s) = row(t) => s = t
  OBVIOUS
<1>5. \A t \in 0 .. 8 : column(t) \in -1 .. 1 /\ row(t) \in -1 .. 1
  OBVIOUS
<1>6. \A x, y \in -1 .. 1 :
        /\ 3 * (x + 1) + (y + 1) \in 0 .. 8
        /\ column(3 * (x + 1) + (y + 1)) = x /\ row(3 * (x + 1) + (y + 1)) = y
  OBVIOUS
<1>7. column(4) = 0 /\ row(4) = 0
  OBVIOUS
<1> HIDE DEF column, row
<1>8. \A s, t \in 0 .. 8 : Across(s) = Across(t) /\ Down(s) = Down(t) => s = t
  BY <1>2, <1>3, <1>4
<1>9. \A t \in 0 .. 8 : Across(t) \in -1 .. 1 /\ Down(t) \in -1 .. 1
  BY <1>2, <1>3, <1>5
<1>10. \A x, y \in -1 .. 1 : \E t \in 0 .. 8 : Across(t) = x /\ Down(t) = y
  BY <1>2, <1>3, <1>6
<1>11. Across(4) = 0 /\ Down(4) = 0
  BY <1>2, <1>3, <1>7
<1>12. \A i \in 1 .. Taps : i - 1 \in 0 .. 8
  BY DEF Taps
<1>13. \A i, j \in 1 .. Taps : e[i] = e[j] => i = j
  <2>1. ASSUME NEW i \in 1 .. Taps, NEW j \in 1 .. Taps, e[i] = e[j]
        PROVE  i = j
    <3>1. Across(i - 1) = Across(j - 1) /\ Down(i - 1) = Down(j - 1)
      BY <1>1, <1>9, <1>12, <2>1
    <3>2. i - 1 = j - 1
      BY <1>8, <1>12, <3>1
    <3> QED
      BY <3>2
  <2> QED
    BY <2>1
<1>14. Neighbours(p) \subseteq {e[t] : t \in 1 .. Taps}
  <2>1. ASSUME NEW a \in X(p) - 1 .. X(p) + 1, NEW b \in Y(p) - 1 .. Y(p) + 1
        PROVE  <<a, b>> \in {e[t] : t \in 1 .. Taps}
    <3>1. a - X(p) \in -1 .. 1 /\ b - Y(p) \in -1 .. 1
      BY <1>1
    <3>2. PICK t \in 0 .. 8 : Across(t) = a - X(p) /\ Down(t) = b - Y(p)
      BY <1>10, <3>1
    <3>3. t + 1 \in 1 .. Taps /\ (t + 1) - 1 = t
      BY DEF Taps
    <3>4. X(p) + (a - X(p)) = a /\ Y(p) + (b - Y(p)) = b
      BY <1>1
    <3>5. e[t + 1] = <<a, b>>
      BY <3>2, <3>3, <3>4
    <3> QED
      BY <3>3, <3>5
  <2> QED
    BY <2>1 DEF Neighbours
<1>15. {e[t] : t \in 1 .. Taps} \subseteq Neighbours(p)
  <2>1. ASSUME NEW t \in 1 .. Taps
        PROVE  e[t] \in Neighbours(p)
    <3>1. /\ X(p) + Across(t - 1) \in X(p) - 1 .. X(p) + 1
          /\ Y(p) + Down(t - 1) \in Y(p) - 1 .. Y(p) + 1
      BY <1>1, <1>9, <1>12
    <3> QED
      BY <3>1 DEF Neighbours
  <2> QED
    BY <2>1
<1>16. e[5] = <<X(p), Y(p)>>
  BY <1>1, <1>11 DEF Taps
<1> QED
  BY <1>13, <1>14, <1>15, <1>16

(* What a pixel sees, in the order of the weights. *)
NineBytes(p, c) ==
  [t \in 1 .. Taps |-> Near(X(p) + Across(t - 1), Y(p) + Down(t - 1), c)]

LEMMA AroundBytes ==
  ASSUME NEW p, NEW c \in Colour
  PROVE  \A t \in 1 .. 9 : NineBytes(p, c)[t] \in 0 .. 255
BY NearByte DEF NineBytes, Taps

LEMMA EdgeTotal ==
  ASSUME variant \in Variants, NEW p \in 0 .. Pixels - 1, NEW c \in Colour
  PROVE  LET N == Neighbours(p)
             n == [at \in N |-> Near(at[1], at[2], c)]
         IN  /\ IsFiniteSet(N)
             /\ Edge(p, c) = 9 * Near(X(p), Y(p), c) - Total(n, N)
<1> DEFINE N == Neighbours(p)
           n == [at \in N |-> Near(at[1], at[2], c)]
           IsFold(h) == h = [s \in SUBSET N |->
             IF s = {} THEN 0
             ELSE Near(Chosen(s)[1], Chosen(s)[2], c) + h[Others(s)]]
           h == CHOOSE h : IsFold(h)
<1>1. IsFiniteSet(N)
  <2>1. X(p) \in Int /\ Y(p) \in Int
    BY InImage, PipelineAssumption
  <2>2. IsFiniteSet(X(p) - 1 .. X(p) + 1) /\ IsFiniteSet(Y(p) - 1 .. Y(p) + 1)
    BY <2>1, FS_Interval
  <2> QED
    BY <2>2, FS_Product DEF Neighbours
<1>2. Edge(p, c) = 9 * Near(X(p), Y(p), c) - h[N]
  BY DEF Edge, MapThenSumSet, MapThenFoldSet, Chosen, Others
<1> HIDE DEF N
<1>3. \A s \in SUBSET N : s # {} =>
        n[Chosen(s)] = Near(Chosen(s)[1], Chosen(s)[2], c)
  <2>1. \A s \in SUBSET N : s # {} => Chosen(s) \in N
    BY ChosenFacts
  <2> QED
    BY <2>1
<1> HIDE DEF n
<1>4. ASSUME NEW g
      PROVE  IsFold(g) <=> IsSums(g, n, N)
  BY <1>3 DEF IsSums
<1>5. \E g : IsSums(g, n, N)
  BY <1>1, SumsExist
<1> HIDE DEF IsFold
<1>6. IsFold(h)
  BY <1>4, <1>5
<1> HIDE DEF h
<1>7. IsSums(h, n, N)
  BY <1>4, <1>6
<1>8. Total(n, N) = h[N]
  BY <1>1, <1>7, TotalIsSums
<1> QED
  BY <1>1, <1>2, <1>8 DEF N, n

LEMMA NinePlaces ==
  ASSUME NEW f, NEW g, NEW e, NEW S,
         \A i, j \in 1 .. 9 : e[i] = e[j] => i = j,
         \A x : x \in S <=> \E i \in 1 .. 9 : x = e[i],
         \A i \in 1 .. 9 : g[i] = f[e[i]] /\ g[i] \in Int
  PROVE  Total(f, S) = Total(g, 1 .. 9)
<1>1. PICK n \in Nat : n = 9
  OBVIOUS
<1>2. \A i, j \in 1 .. n : e[i] = e[j] => i = j
  BY <1>1, Zenon
<1>3. \A x : x \in S <=> \E i \in 1 .. n : x = e[i]
  BY <1>1, Zenon
<1>4. \A i \in 1 .. n : g[i] = f[e[i]] /\ g[i] \in Int
  BY <1>1, Zenon
<1>5. Total(f, S) = Total(g, 1 .. n)
  BY <1>2, <1>3, <1>4, TotalNumbered
<1> QED
  BY <1>1, <1>5

(* The window is the nine places, each once. *)
LEMMA EdgeOf ==
  ASSUME variant \in Variants, NEW p \in 0 .. Pixels - 1, NEW c \in Colour
  PROVE  LET a == NineBytes(p, c)
         IN  /\ Edge(p, c) = 9 * a[5] - Total(a, 1 .. 9)
             /\ Seen(p, c) = {a[t] : t \in 1 .. 9}
<1> DEFINE a == NineBytes(p, c)
           e == [t \in 1 .. Taps |-> <<X(p) + Across(t - 1), Y(p) + Down(t - 1)>>]
           N == Neighbours(p)
           n == [at \in N |-> Near(at[1], at[2], c)]
<1>1. /\ \A i, j \in 1 .. Taps : e[i] = e[j] => i = j
      /\ N = {e[t] : t \in 1 .. Taps}
      /\ e[5] = <<X(p), Y(p)>>
  BY PlacesOf
<1>2. \A t \in 1 .. Taps : n[e[t]] = a[t]
  <2>1. ASSUME NEW t \in 1 .. Taps
        PROVE  n[e[t]] = a[t]
    <3>1. e[t] \in N
      BY <1>1
    <3>2. e[t][1] = X(p) + Across(t - 1) /\ e[t][2] = Y(p) + Down(t - 1)
      OBVIOUS
    <3> HIDE DEF e
    <3> QED
      BY <3>1, <3>2 DEF NineBytes
  <2> QED
    BY <2>1
<1>3. Near(X(p), Y(p), c) = a[5]
  <2>1. e[5] \in N /\ 5 \in 1 .. Taps
    BY <1>1 DEF Taps
  <2> QED
    BY <1>1, <1>2, <2>1
<1>4. IsFiniteSet(N) /\ Edge(p, c) = 9 * Near(X(p), Y(p), c) - Total(n, N)
  BY EdgeTotal
<1>5. Seen(p, c) = {n[e[t]] : t \in 1 .. Taps}
  <2>1. Seen(p, c) = {n[at] : at \in N}
    BY DEF Seen
  <2> HIDE DEF e, n, N
  <2> QED
    BY <1>1, <2>1
<1>6. \A t \in 1 .. 9 : a[t] \in Int
  BY AroundBytes
<1> HIDE DEF a, e, N, n
<1>7. Total(n, N) = Total(a, 1 .. 9)
  <2>1. \A i, j \in 1 .. 9 : e[i] = e[j] => i = j
    BY <1>1 DEF Taps
  <2>2. \A x : x \in N <=> \E i \in 1 .. 9 : x = e[i]
    BY <1>1 DEF Taps
  <2>3. \A i \in 1 .. 9 : a[i] = n[e[i]] /\ a[i] \in Int
    BY <1>2, <1>6 DEF Taps
  <2> QED
    BY <2>1, <2>2, <2>3, NinePlaces
<1>9. Edge(p, c) = 9 * a[5] - Total(a, 1 .. 9)
  BY <1>3, <1>4, <1>7
<1>10. Seen(p, c) = {a[t] : t \in 1 .. 9}
  BY <1>2, <1>5 DEF Taps
<1> QED
  BY <1>9, <1>10 DEF a

(* The nine bytes of a window: what is seen, the edge, and the weighted    *)
(* sum.                                                                    *)
LEMMA WindowNumbers ==
  ASSUME variant \in Variants, NEW p \in 0 .. Pixels - 1, NEW c \in Colour
  PROVE  LET a == NineBytes(p, c)
         IN  /\ Seen(p, c) = {a[1], a[2], a[3], a[4], a[5], a[6], a[7], a[8], a[9]}
             /\ Edge(p, c) =
                  9 * a[5] - (a[1] + a[2] + a[3] + a[4] + a[5] + a[6] + a[7] + a[8] + a[9])
             /\ WeightedSum(Window(p, c)) =
                  Weights[1] * a[1] + Weights[2] * a[2] + Weights[3] * a[3]
                  + Weights[4] * a[4] + Weights[5] * a[5] + Weights[6] * a[6]
                  + Weights[7] * a[7] + Weights[8] * a[8] + Weights[9] * a[9]
<1> DEFINE a == NineBytes(p, c)
           w == Terms(Window(p, c))
<1>1. WeightedSum(Window(p, c)) = Total(w, 1 .. 9)
  BY WeightedTotal DEF Taps
<1>2. \A t \in 1 .. 9 : w[t] = Weights[t] * a[t]
  BY WindowAmounts DEF Terms, NineBytes, Taps
<1>3. \A t \in 1 .. 9 : a[t] \in 0 .. 255
  BY AroundBytes
<1>4. \A t \in 1 .. 9 : Weights[t] \in Int
  <2>1. CASE variant.kernel = "blur"
    BY <2>1 DEF Weights, BlurWeights
  <2>2. CASE variant.kernel = "normalised"
    BY <2>2 DEF Weights, NormalisedWeights
  <2>3. CASE variant.kernel \notin {"blur", "normalised"}
    BY <2>3 DEF Weights, EdgeWeights
  <2> QED
    BY <2>1, <2>2, <2>3
<1>5. Edge(p, c) = 9 * a[5] - Total(a, 1 .. 9) /\ Seen(p, c) = {a[t] : t \in 1 .. 9}
  BY EdgeOf
<1> HIDE DEF a, w
<1>6. \A t \in 1 .. 9 : w[t] \in Int /\ a[t] \in Int
  <2>1. \A i, j \in Int : i * j \in Int
    OBVIOUS
  <2>2. \A t \in 1 .. 9 : a[t] \in Int
    BY <1>3
  <2> QED
    BY <1>2, <1>4, <2>1, <2>2
<1>7. Total(w, 1 .. 9) = w[1] + w[2] + w[3] + w[4] + w[5] + w[6] + w[7] + w[8] + w[9]
  BY <1>6, NineTerms
<1>8. Total(a, 1 .. 9) = a[1] + a[2] + a[3] + a[4] + a[5] + a[6] + a[7] + a[8] + a[9]
  BY <1>6, NineTerms
<1>9. /\ w[1] = Weights[1] * a[1] /\ w[2] = Weights[2] * a[2] /\ w[3] = Weights[3] * a[3]
      /\ w[4] = Weights[4] * a[4] /\ w[5] = Weights[5] * a[5] /\ w[6] = Weights[6] * a[6]
      /\ w[7] = Weights[7] * a[7] /\ w[8] = Weights[8] * a[8] /\ w[9] = Weights[9] * a[9]
  BY <1>2
<1>10. Seen(p, c) = {a[1], a[2], a[3], a[4], a[5], a[6], a[7], a[8], a[9]}
  <2>1. 1 .. 9 = {1, 2, 3, 4, 5, 6, 7, 8, 9}
    OBVIOUS
  <2> QED
    BY <1>5, <2>1
<1>12. Edge(p, c) =
         9 * a[5] - (a[1] + a[2] + a[3] + a[4] + a[5] + a[6] + a[7] + a[8] + a[9])
  BY <1>5, <1>8
<1>13. WeightedSum(Window(p, c)) =
         Weights[1] * a[1] + Weights[2] * a[2] + Weights[3] * a[3]
         + Weights[4] * a[4] + Weights[5] * a[5] + Weights[6] * a[6]
         + Weights[7] * a[7] + Weights[8] * a[8] + Weights[9] * a[9]
  BY <1>1, <1>7, <1>9
<1> QED
  BY <1>10, <1>12, <1>13 DEF a

(* The darkest and the brightest of some bytes. *)
LEMMA Extremes ==
  ASSUME NEW S, S \subseteq 0 .. 255, S # {}
  PROVE  /\ Min(S) \in S /\ \A x \in S : Min(S) <= x
         /\ Max(S) \in S /\ \A x \in S : x <= Max(S)
<1>1. \E x \in S : \A y \in S : x =< y
  <2>1. S \subseteq Nat
    OBVIOUS
  <2> QED
    BY <2>1, SmallestNumber
<1>2. \E x \in S : \A y \in S : x >= y
  <2> DEFINE R == {255 - x : x \in S}
  <2>1. \A x \in S : x \in Int /\ 255 - x \in Nat /\ 255 - x \in R
    OBVIOUS
  <2>2. R \subseteq Nat /\ R # {}
    BY <2>1
  <2> HIDE DEF R
  <2>3. PICK n \in R : \A k \in R : n <= k
    BY <2>2, SmallestNumber
  <2>4. PICK x \in S : n = 255 - x
    BY <2>3 DEF R
  <2>5. \A y \in S : x >= y
    <3>1. ASSUME NEW y \in S
          PROVE  x >= y
      <4>1. 255 - x <= 255 - y
        BY <2>1, <2>3, <2>4
      <4> QED
        BY <2>1, <4>1
    <3> QED
      BY <3>1
  <2> QED
    BY <2>5
<1>3. Min(S) \in S /\ \A y \in S : Min(S) =< y
  BY <1>1 DEF Min
<1>4. Max(S) \in S /\ \A y \in S : Max(S) >= y
  BY <1>2 DEF Max
<1> QED
  BY <1>3, <1>4

(* Nine times a byte less nine bytes, modulo at least 2^13: a positive sum *)
(* is below half of the modulus, a negative one in the upper half.         *)
LEMMA EdgeModulo ==
  ASSUME NEW s \in Int, s <= 2040, 0 - s <= 2040
  PROVE  /\ s >= 0 => s % SumMod = s /\ ~(s >= SumMod \div 2)
         /\ s < 0 => s % SumMod = s + SumMod /\ s + SumMod >= SumMod \div 2
<1>1. SumMod \in Nat /\ SumMod >= 8192
  BY PipelineAssumption
<1>2. SumMod \div 2 \in Int /\ 4096 <= SumMod \div 2 /\ 2 * (SumMod \div 2) <= SumMod
  BY <1>1
<1>3. CASE s >= 0
  <2>1. s \in 0 .. SumMod - 1
    BY <1>1, <1>3
  <2>2. s % SumMod = s
    BY <1>1, <2>1, Around
  <2> QED
    BY <1>2, <1>3, <2>2
<1>4. CASE s < 0
  <2>1. s + SumMod \in 0 .. SumMod - 1 /\ (s + SumMod) - SumMod = s
    BY <1>1, <1>4
  <2>2. s % SumMod = s + SumMod
    BY <1>1, <2>1, Around
  <2> QED
    BY <1>1, <1>2, <1>4, <2>2
<1> QED
  BY <1>3, <1>4

(* A sum of weighted bytes, cut to an integer on whichever side of the     *)
(* slack, is a byte between the darkest and the brightest of them, or one  *)
(* darker than the darkest.                                                *)
Cut(w) == IF w = 0 THEN {0}
          ELSE (w - Slack) \div 1000000 .. (w + Slack - 1) \div 1000000

SumWithin(w, m, n) ==
  IF variant.kernel = "blur" THEN 1000002 * m <= w /\ w <= 1000002 * n
  ELSE 1000000 * m <= w /\ w <= 1000000 * n /\ (w = 0 \/ w >= 1148)

LEMMA CutSum ==
  ASSUME variant.kernel \in {"blur", "normalised"},
         NEW w \in Int, NEW m \in 0 .. 255, NEW n \in 0 .. 255, SumWithin(w, m, n),
         NEW r \in Cut(w)
  PROVE  r \in 0 .. 255 /\ m - Darker <= r /\ r <= n /\ ToByte(r) = r
<1>1. r \in 0 .. 255 /\ m - Darker <= r /\ r <= n
  <2>1. CASE w = 0
    <3>1. r = 0 /\ m = 0
      BY <2>1 DEF Cut, SumWithin
    <3>2. Darker \in {0, 1}
      BY DEF Darker
    <3> QED
      BY <3>1, <3>2
  <2>2. CASE w # 0 /\ variant.kernel = "blur"
    <3>1. r \in (w - 1) \div 1000000 .. w \div 1000000
      BY <2>2 DEF Slack, Cut
    <3>2. 1000002 * m <= w /\ w <= 1000002 * n /\ w >= 1
      BY <2>2 DEF SumWithin
    <3>3. w \div 1000000 <= n /\ m <= (w - 1) \div 1000000
      BY <3>2
    <3>4. Darker = 0
      BY <2>2 DEF Darker
    <3> QED
      BY <3>1, <3>3, <3>4
  <2>3. CASE w # 0 /\ variant.kernel = "normalised"
    <3>1. r \in (w - 1148) \div 1000000 .. (w + 1147) \div 1000000
      BY <2>3 DEF Slack, Cut
    <3>2. 1000000 * m <= w /\ w <= 1000000 * n /\ w >= 1148
      BY <2>3 DEF SumWithin
    <3>3. /\ (w + 1147) \div 1000000 <= n
          /\ m - 1 <= (w - 1148) \div 1000000 /\ 0 <= (w - 1148) \div 1000000
      BY <3>2
    <3>4. Darker = 1
      BY <2>3 DEF Darker
    <3> QED
      BY <3>1, <3>3, <3>4
  <2> QED
    BY <2>1, <2>2, <2>3
<1>2. 4096 <= SumMod \div 2 /\ SumMod \div 2 \in Int
  BY PipelineAssumption
<1>3. ~(r >= SumMod \div 2) /\ ~(r > 255)
  BY <1>1, <1>2
<1> QED
  BY <1>1, <1>3 DEF ToByte

(* The byte of a stored result is that of the filter as it is meant, for   *)
(* images and FIFOs of every size, every picture and either rounding: a    *)
(* blur of HW5 and HW6 stays between the darkest and the brightest sample  *)
(* it sees, one of HW1 to HW4 may be one darker; an edge is nine times the *)
(* pixel less its window, and a negative one becomes 0 or 255.             *)
THEOREM BytesAlwaysCorrect == Spec => []BytesCorrect
<1>1. ASSUME PipeInv PROVE BytesCorrect
  <2> SUFFICES ASSUME NEW p \in 0 .. Pixels - 1, NEW c \in Colour, target[p][c] # <<>>,
                      NEW r \in Results(target[p][c])
               PROVE  IF variant.kernel = "edges"
                        THEN IF Edge(p, c) >= 0 THEN ToByte(r) = Min({Edge(p, c), 255})
                                                ELSE ToByte(r) \in {0, 255}
                        ELSE Min(Seen(p, c)) - Darker <= ToByte(r)
                             /\ ToByte(r) <= Max(Seen(p, c))
    BY DEF BytesCorrect
  <2> DEFINE S == Seen(p, c)
             d == Edge(p, c)
             W == WeightedSum(Window(p, c))
             a == NineBytes(p, c)
  <2>1. variant \in Variants /\ target[p][c] = Window(p, c)
    BY <1>1 DEF PipeInv, PlacesOK, TargetInv
  <2>2. /\ variant.kernel \in {"blur", "normalised", "edges"} /\ variant.invalid \in {0, 255}
        /\ SumMod \in Nat /\ SumMod >= 8192
    BY <2>1, PipelineAssumption
  <2>3. \A t \in 1 .. 9 : a[t] \in 0 .. 255
    BY AroundBytes
  <2>4. /\ S = {a[1], a[2], a[3], a[4], a[5], a[6], a[7], a[8], a[9]}
        /\ d = 9 * a[5] - (a[1] + a[2] + a[3] + a[4] + a[5] + a[6] + a[7] + a[8] + a[9])
        /\ W = Weights[1] * a[1] + Weights[2] * a[2] + Weights[3] * a[3]
                + Weights[4] * a[4] + Weights[5] * a[5] + Weights[6] * a[6]
                + Weights[7] * a[7] + Weights[8] * a[8] + Weights[9] * a[9]
    BY <2>1, WindowNumbers
  <2>5. r \in IF variant.kernel = "edges" THEN {W % SumMod} ELSE Cut(W)
    BY <2>1 DEF Results, Cut
  <2> HIDE DEF S, d, W, a
  <2>6. PICK a1 \in 0 .. 255 : a1 = a[1]
    BY <2>3
  <2>7. PICK a2 \in 0 .. 255 : a2 = a[2]
    BY <2>3
  <2>8. PICK a3 \in 0 .. 255 : a3 = a[3]
    BY <2>3
  <2>9. PICK a4 \in 0 .. 255 : a4 = a[4]
    BY <2>3
  <2>10. PICK a5 \in 0 .. 255 : a5 = a[5]
    BY <2>3
  <2>11. PICK a6 \in 0 .. 255 : a6 = a[6]
    BY <2>3
  <2>12. PICK a7 \in 0 .. 255 : a7 = a[7]
    BY <2>3
  <2>13. PICK a8 \in 0 .. 255 : a8 = a[8]
    BY <2>3
  <2>14. PICK a9 \in 0 .. 255 : a9 = a[9]
    BY <2>3
  <2>15. /\ S = {a1, a2, a3, a4, a5, a6, a7, a8, a9}
        /\ d = 9 * a5 - (a1 + a2 + a3 + a4 + a5 + a6 + a7 + a8 + a9)
        /\ W = Weights[1] * a1 + Weights[2] * a2 + Weights[3] * a3
               + Weights[4] * a4 + Weights[5] * a5 + Weights[6] * a6
               + Weights[7] * a7 + Weights[8] * a8 + Weights[9] * a9
    BY <2>4, <2>6, <2>7, <2>8, <2>9, <2>10, <2>11, <2>12, <2>13, <2>14
  <2>16. CASE variant.kernel # "edges"
    <3>1. S \subseteq 0 .. 255 /\ S # {}
      BY <2>15
    <3>2. /\ Min(S) \in 0 .. 255 /\ Max(S) \in 0 .. 255
          /\ \A x \in S : Min(S) <= x /\ x <= Max(S)
      <4>1. /\ Min(S) \in S /\ \A x \in S : Min(S) <= x
            /\ Max(S) \in S /\ \A x \in S : x <= Max(S)
        BY <3>1, Extremes
      <4> QED
        BY <3>1, <4>1
    <3>3. \A x \in {a1, a2, a3, a4, a5, a6, a7, a8, a9} : Min(S) <= x /\ x <= Max(S)
      BY <2>15, <3>2
    <3>4. PICK m \in 0 .. 255, n \in 0 .. 255 : m = Min(S) /\ n = Max(S)
      BY <3>2
    <3>5. /\ m <= a1 /\ m <= a2 /\ m <= a3 /\ m <= a4 /\ m <= a5
          /\ m <= a6 /\ m <= a7 /\ m <= a8 /\ m <= a9
          /\ a1 <= n /\ a2 <= n /\ a3 <= n /\ a4 <= n /\ a5 <= n
          /\ a6 <= n /\ a7 <= n /\ a8 <= n /\ a9 <= n
      BY <3>3, <3>4
    <3>6. W \in Int /\ SumWithin(W, m, n)
      <4> DEFINE b == 77847 * a1 + 123317 * a2 + 77847 * a3
                      + 123317 * a4 + 195346 * a5 + 123317 * a6
                      + 77847 * a7 + 123317 * a8 + 77847 * a9
                 k == 106997 * a1 + 113110 * a2 + 106997 * a3
                      + 113110 * a4 + 119572 * a5 + 113110 * a6
                      + 106997 * a7 + 113110 * a8 + 106997 * a9
      <4>1. /\ b \in Int /\ 1000002 * m <= b /\ b <= 1000002 * n
            /\ k \in Int /\ 1000000 * m <= k /\ k <= 1000000 * n /\ (k = 0 \/ k >= 1148)
        BY <3>5
      <4>2. variant.kernel = "blur" => W = b
        <5> SUFFICES ASSUME variant.kernel = "blur" PROVE W = b
          OBVIOUS
        <5>1. /\ Weights[1] = 77847 /\ Weights[2] = 123317 /\ Weights[3] = 77847
              /\ Weights[4] = 123317 /\ Weights[5] = 195346 /\ Weights[6] = 123317
              /\ Weights[7] = 77847 /\ Weights[8] = 123317 /\ Weights[9] = 77847
          BY DEF Weights, BlurWeights
        <5> QED
          BY <2>15, <5>1
      <4>3. variant.kernel = "normalised" => W = k
        <5> SUFFICES ASSUME variant.kernel = "normalised" PROVE W = k
          OBVIOUS
        <5>1. /\ Weights[1] = 106997 /\ Weights[2] = 113110 /\ Weights[3] = 106997
              /\ Weights[4] = 113110 /\ Weights[5] = 119572 /\ Weights[6] = 113110
              /\ Weights[7] = 106997 /\ Weights[8] = 113110 /\ Weights[9] = 106997
          BY DEF Weights, NormalisedWeights
        <5> QED
          BY <2>15, <5>1
      <4> HIDE DEF b, k
      <4> QED
        BY <2>2, <2>16, <4>1, <4>2, <4>3 DEF SumWithin
    <3>7. r \in Cut(W)
      BY <2>5, <2>16
    <3>8. variant.kernel \in {"blur", "normalised"}
      BY <2>2, <2>16
    <3>9. m - Darker <= r /\ r <= n /\ ToByte(r) = r
      BY <3>6, <3>7, <3>8, CutSum
    <3> QED
      BY <2>16, <3>4, <3>9 DEF S
  <2>17. CASE variant.kernel = "edges"
    <3>2. /\ Weights[1] = -1 /\ Weights[2] = -1 /\ Weights[3] = -1
          /\ Weights[4] = -1 /\ Weights[5] = 8 /\ Weights[6] = -1
          /\ Weights[7] = -1 /\ Weights[8] = -1 /\ Weights[9] = -1
      BY <2>17 DEF Weights, EdgeWeights
    <3>3. d \in Int /\ d <= 2040 /\ 0 - d <= 2040 /\ W = d
      <4>1. \A i \in Int : (-1) * i = 0 - i
        OBVIOUS
      <4>2. W = (0 - a1) + (0 - a2) + (0 - a3) + (0 - a4) + 8 * a5
                + (0 - a6) + (0 - a7) + (0 - a8) + (0 - a9)
        <5>1. /\ Weights[1] * a1 = 0 - a1 /\ Weights[2] * a2 = 0 - a2
              /\ Weights[3] * a3 = 0 - a3 /\ Weights[4] * a4 = 0 - a4
              /\ Weights[6] * a6 = 0 - a6 /\ Weights[7] * a7 = 0 - a7
              /\ Weights[8] * a8 = 0 - a8 /\ Weights[9] * a9 = 0 - a9
          BY <3>2, <4>1
        <5> QED
          BY <2>15, <3>2, <5>1
      <4> DEFINE e == 9 * a5 - (a1 + a2 + a3 + a4 + a5 + a6 + a7 + a8 + a9)
      <4>3. e \in Int /\ e <= 2040 /\ 0 - e <= 2040
        OBVIOUS
      <4>4. (0 - a1) + (0 - a2) + (0 - a3) + (0 - a4) + 8 * a5
              + (0 - a6) + (0 - a7) + (0 - a8) + (0 - a9) = e
        OBVIOUS
      <4>5. d = e
        BY <2>15
      <4> HIDE DEF e
      <4> QED
        BY <4>2, <4>3, <4>4, <4>5
    <3>4. r = d % SumMod
      <4>1. r = W % SumMod
        BY <2>5, <2>17
      <4> QED
        BY <3>3, <4>1
    <3>5. /\ d >= 0 => d % SumMod = d /\ ~(d >= SumMod \div 2)
          /\ d < 0 => d % SumMod = d + SumMod /\ d + SumMod >= SumMod \div 2
      BY <3>3, EdgeModulo
    <3>6. CASE d >= 0
      <4>1. r = d /\ ~(r >= SumMod \div 2)
        BY <3>4, <3>6, <3>5
      <4>2. ToByte(r) = IF d > 255 THEN 255 ELSE d
        BY <4>1 DEF ToByte
      <4>3. Min({d, 255}) = IF d > 255 THEN 255 ELSE d
        <5> DEFINE least == IF d > 255 THEN 255 ELSE d
        <5>1. \A x : (x \in {d, 255} /\ \A y \in {d, 255} : x =< y) <=> x = least
          BY <3>3
        <5> HIDE DEF least
        <5>2. Min({d, 255}) = least
          BY <5>1 DEF Min
        <5> QED
          BY <5>2 DEF least
      <4> QED
        BY <2>17, <3>6, <4>2, <4>3 DEF d
    <3>7. CASE ~(d >= 0)
      <4>1. r = d + SumMod /\ r >= SumMod \div 2
        <5>1. d < 0
          BY <3>3, <3>7
        <5> QED
          BY <3>4, <3>5, <5>1
      <4>2. ToByte(r) = variant.invalid
        BY <4>1 DEF ToByte
      <4> QED
        BY <2>2, <2>17, <3>7, <4>2 DEF d
    <3> QED
      BY <3>6, <3>7
  <2> QED
    BY <2>16, <2>17
<1> QED
  BY <1>1, PipelineInvariant, PTL
=============================================================================
