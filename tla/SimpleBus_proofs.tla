-------------------------- MODULE SimpleBus_proofs --------------------------
(***************************************************************************)
(* The regions of direct memory access that the bus hands out agree with   *)
(* its routing, and are gone once they are withdrawn by a range that does  *)
(* not wrap, for any number of ports, mappings, initiators and addresses.  *)
(***************************************************************************)
EXTENDS SimpleBus, TLAPS

Region == [lo : Addr, hi : Addr]

DecodesOK ==
  /\ decodes \in [Ports -> Seq(Region)]
  /\ \A p \in Ports : \A k \in DOMAIN decodes[p] : decodes[p][k].lo <= decodes[p][k].hi

(* A region that an initiator holds lies within one mapping of one port,   *)
(* and the target of that port allows all of it that no call has missed.   *)
Within(r, p, k) ==
  /\ decodes[p][k].lo <= r.start /\ r.start <= r.end /\ r.end <= decodes[p][k].hi
  /\ \A a \in r.start .. r.end : a \notin missed => a - decodes[p][k].lo \in allowed[p]

Outcomes == {"none", "unmapped", "contains", "adjustRefused"}

BusInv ==
  /\ DecodesOK
  /\ running \in BOOLEAN
  /\ failed \in Outcomes
  /\ held \in [Initiators -> SUBSET [start : Addr, end : Addr]]
  /\ allowed \in [Ports -> SUBSET Addr]
  /\ missed \subseteq Addr
  /\ running => Disjoint
  /\ ~running => \A i \in Initiators : held[i] = {}
  /\ \A i \in Initiators : \A r \in held[i] :
       \E p \in Ports : \E k \in DOMAIN decodes[p] : Within(r, p, k)
-----------------------------------------------------------------------------
(* An address does not change by being cut to the width of an address. *)
LEMMA NoWrap == \A x \in Addr : x % AddrMod = x
<1> SUFFICES ASSUME NEW x \in Addr PROVE x % AddrMod = x
  OBVIOUS
<1>1. AddrMod \in Nat \ {0} /\ x \in Nat /\ x < AddrMod
  BY BusAssumption DEF Addr
<1> QED
  BY <1>1

LEMMA MinOfOne == ASSUME NEW x \in Int PROVE Min({x}) = x
BY DEF Min

(* Where the mappings do not overlap, an address in the k-th mapping of p  *)
(* is routed to p, at its distance from the start of that mapping.         *)
LEMMA Routed ==
  ASSUME DecodesOK, Disjoint, NEW p \in Ports, NEW k \in DOMAIN decodes[p],
         NEW a \in Addr, InRegion(decodes[p][k], a)
  PROVE  /\ Mapped(a)
         /\ PortId(a) = p
         /\ Mapping(p, a) = decodes[p][k]
         /\ Offset(a) = a - decodes[p][k].lo
<1>1. Ports \subseteq Int
  BY BusAssumption
<1>2. \A q \in Ports : \A j \in DOMAIN decodes[q] : decodes[q][j] \in Region
  BY DEF DecodesOK
<1>3. HasMapping(p, a)
  BY DEF HasMapping
<1>4. ASSUME NEW q \in Ports, NEW j \in DOMAIN decodes[q], InRegion(decodes[q][j], a)
      PROVE  q = p /\ j = k
  <2>1. /\ decodes[q][j].hi \in Int /\ decodes[q][j].lo \in Int
        /\ decodes[p][k].hi \in Int /\ decodes[p][k].lo \in Int /\ a \in Int
    BY <1>2 DEF Region, Addr
  <2>2. ~(decodes[p][k].hi < decodes[q][j].lo) /\ ~(decodes[q][j].hi < decodes[p][k].lo)
    BY <1>4, <2>1 DEF InRegion
  <2>3. <<p, k>> = <<q, j>>
    BY <2>2 DEF Disjoint
  <2> QED
    BY <2>3
<1>5. {q \in Ports : HasMapping(q, a)} = {p}
  BY <1>3, <1>4 DEF HasMapping
<1>6. PortId(a) = p
  BY <1>1, <1>5, MinOfOne DEF PortId
<1>7. {j \in DOMAIN decodes[p] : InRegion(decodes[p][j], a)} = {k}
  BY <1>4
<1>8. k \in Int
  BY DEF DecodesOK
<1>9. Mapping(p, a) = decodes[p][k]
  BY <1>7, <1>8, MinOfOne DEF Mapping
<1>10. a - decodes[p][k].lo \in Addr
  BY <1>2, BusAssumption DEF Region, Addr, InRegion
<1> QED
  BY <1>3, <1>6, <1>9, <1>10, NoWrap DEF Mapped, Offset
-----------------------------------------------------------------------------
(* What is not about the configuration or the regions is left alone by     *)
(* steps that change neither.                                              *)
LEMMA SameRegions ==
  ASSUME BusInv, UNCHANGED <<decodes, running, held, allowed, missed>>,
         failed' \in Outcomes
  PROVE  BusInv'
BY DEF BusInv, DecodesOK, Disjoint, Within

(* Before the start mappings come in front of others, and nobody holds a   *)
(* region.                                                                 *)
LEMMA SetDecodeStep ==
  ASSUME BusInv, NEW p, NEW lo \in Addr, NEW hi \in Addr, SetDecode(p, lo, hi)
  PROVE  BusInv'
<1>1. /\ ~running /\ UNCHANGED <<running, failed, held, allowed, missed>>
      /\ decodes' = IF p \in Ports /\ lo <= hi
                      THEN [decodes EXCEPT ![p] = <<[lo |-> lo, hi |-> hi]>> \o @]
                      ELSE decodes
  BY DEF SetDecode
<1>2. DecodesOK'
  <2>1. CASE p \in Ports /\ lo <= hi
    <3> DEFINE new == [lo |-> lo, hi |-> hi]
    <3>1. new \in Region /\ new.lo <= new.hi
      BY <2>1 DEF Region
    <3> HIDE DEF new
    <3>2. decodes[p] \in Seq(Region)
      BY <2>1 DEF BusInv, DecodesOK
    <3>3. /\ <<new>> \o decodes[p] \in Seq(Region)
          /\ \A k \in DOMAIN (<<new>> \o decodes[p]) :
               \/ (<<new>> \o decodes[p])[k] = new
               \/ \E j \in DOMAIN decodes[p] : (<<new>> \o decodes[p])[k] = decodes[p][j]
      <4>1. \A k \in DOMAIN (<<new>> \o decodes[p]) :
               k # 1 => /\ k - 1 \in DOMAIN decodes[p]
                        /\ (<<new>> \o decodes[p])[k] = decodes[p][k - 1]
        BY <3>1, <3>2
      <4>2. (<<new>> \o decodes[p])[1] = new
        BY <3>1, <3>2
      <4> QED
        BY <3>1, <3>2, <4>1, <4>2
    <3>4. decodes' = [decodes EXCEPT ![p] = <<new>> \o @]
      BY <1>1, <2>1 DEF new
    <3> QED
      BY <2>1, <3>1, <3>3, <3>4 DEF BusInv, DecodesOK
  <2>2. CASE ~(p \in Ports /\ lo <= hi)
    BY <1>1, <2>2 DEF BusInv, DecodesOK
  <2> QED
    BY <2>1, <2>2
<1> QED
  BY <1>1, <1>2 DEF BusInv

LEMMA StartStep == ASSUME BusInv, Start PROVE BusInv'
BY DEF BusInv, DecodesOK, Start, Disjoint, Within

(* The region adjustRange makes of what a target grants contains the       *)
(* address asked for and lies within its mapping: neither sum wraps, and   *)
(* what lies behind the mapping is cut off.                                *)
LEMMA Adjusted ==
  ASSUME NEW m \in Region, NEW a \in Addr, InRegion(m, a),
         NEW start \in Addr, NEW end \in Addr, start <= a - m.lo, a - m.lo <= end
  PROVE  LET r == AdjustRange(m, start, end)
         IN  /\ r \in [start : Addr, end : Addr]
             /\ m.lo <= r.start /\ r.start <= r.end /\ r.end <= m.hi
             /\ \A b \in r.start .. r.end : b - m.lo \in start .. end
<1> DEFINE r == AdjustRange(m, start, end)
<1>1. /\ m.lo \in Addr /\ m.hi \in Addr /\ m.lo <= a /\ a <= m.hi
  BY DEF Region, InRegion
<1>2. start + m.lo \in Addr
  BY <1>1, BusAssumption DEF Addr
<1>3. r.start = start + m.lo
  BY <1>2, NoWrap DEF AdjustRange
<1>4. r.end = IF end > m.hi - m.lo THEN m.hi ELSE end + m.lo
  <2>1. end <= m.hi - m.lo => end + m.lo \in Addr
    BY <1>1, BusAssumption DEF Addr
  <2> QED
    BY <1>1, <2>1, NoWrap DEF AdjustRange, Addr
<1>5. r \in [start : Addr, end : Addr]
  <2>1. r.end \in Addr
    BY <1>1, <1>4, BusAssumption DEF Addr
  <2> QED
    BY <1>2, <1>3, <2>1 DEF AdjustRange
<1> HIDE DEF r
<1>6. /\ m.lo <= r.start /\ r.start <= r.end /\ r.end <= m.hi
      /\ \A b \in r.start .. r.end : b - m.lo \in start .. end
  BY <1>1, <1>3, <1>4, BusAssumption DEF Addr
<1> QED
  BY <1>5, <1>6 DEF r

(* A new region lies within the mapping of the address asked for, and what *)
(* it grants is no longer missed.                                          *)
LEMMA Granted ==
  ASSUME BusInv, NEW i \in Initiators, NEW a \in Addr, NEW start \in Addr,
         NEW end \in Addr, GetDMIPointer(i, a, start, end, TRUE),
         start <= Offset(a), Offset(a) <= end
  PROVE  BusInv'
<1> DEFINE r == AdjustRange(Mapping(PortId(a), a), start, end)
<1>1. running /\ Mapped(a) /\ Disjoint /\ UNCHANGED <<decodes, running>>
  BY DEF GetDMIPointer, Serving, BusInv
<1>2. PICK p \in Ports : \E k \in DOMAIN decodes[p] : InRegion(decodes[p][k], a)
  BY <1>1 DEF Mapped, HasMapping
<1> PICK k \in DOMAIN decodes[p] : InRegion(decodes[p][k], a)
  BY <1>2
<1>3. PortId(a) = p /\ Mapping(p, a) = decodes[p][k] /\ Offset(a) = a - decodes[p][k].lo
  BY <1>1, <1>2, Routed DEF BusInv
<1>4. decodes[p][k] \in Region
  BY DEF BusInv, DecodesOK
<1>5. /\ r \in [start : Addr, end : Addr]
      /\ decodes[p][k].lo <= r.start /\ r.start <= r.end /\ r.end <= decodes[p][k].hi
      /\ \A b \in r.start .. r.end : b - decodes[p][k].lo \in start .. end
  BY <1>2, <1>3, <1>4, Adjusted
<1> HIDE DEF r
<1>6. /\ failed' = "none"
      /\ held' = [held EXCEPT ![i] = @ \union {r}]
      /\ allowed' = [allowed EXCEPT ![p] = @ \union start .. end]
      /\ missed' = {b \in missed : PortId(b) # p \/ Offset(b) \notin start .. end}
  <2>1. r.end >= r.start /\ r.end - r.start <= decodes[p][k].hi - decodes[p][k].lo
    BY <1>4, <1>5 DEF Region, Addr
  <2> QED
    BY <1>3, <2>1 DEF GetDMIPointer, r
<1>7. /\ held' \in [Initiators -> SUBSET [start : Addr, end : Addr]]
      /\ allowed' \in [Ports -> SUBSET Addr]
      /\ missed' \subseteq Addr
  <2>1. start .. end \subseteq Addr
    BY BusAssumption DEF Addr
  <2> QED
    BY <1>5, <1>6, <2>1 DEF BusInv
<1>8. ASSUME NEW j \in Initiators, NEW s \in held'[j]
      PROVE  \E q \in Ports : \E l \in DOMAIN decodes[q] : Within(s, q, l)'
  <2>1. CASE s \in held[j]
    <3> PICK q \in Ports : \E l \in DOMAIN decodes[q] : Within(s, q, l)
      BY <2>1 DEF BusInv
    <3>1. PICK l \in DOMAIN decodes[q] : Within(s, q, l)
      OBVIOUS
    <3>2. decodes[q][l] \in Region /\ s \in [start : Addr, end : Addr]
      BY <2>1 DEF BusInv, DecodesOK
    <3>3. ASSUME NEW b \in s.start .. s.end, b \notin missed'
          PROVE  b - decodes[q][l].lo \in allowed'[q]
      <4>1. CASE b \notin missed
        BY <1>6, <3>1, <4>1 DEF Within, BusInv
      <4>2. CASE b \in missed
        <5>1. b \in Addr /\ InRegion(decodes[q][l], b)
          BY <3>1, <3>2, BusAssumption DEF Within, Region, Addr, InRegion
        <5>2. PortId(b) = q /\ Offset(b) = b - decodes[q][l].lo
          BY <1>1, <5>1, Routed DEF BusInv
        <5> QED
          BY <1>6, <3>3, <4>2, <5>2 DEF BusInv
      <4> QED
        BY <4>1, <4>2
    <3>4. Within(s, q, l)'
      BY <1>1, <3>1, <3>3 DEF Within
    <3> QED
      BY <3>4
  <2>2. CASE s = r
    <3>1. start .. end \subseteq allowed'[p]
      BY <1>6 DEF BusInv
    <3>2. Within(s, p, k)'
      BY <1>1, <1>5, <2>2, <3>1 DEF Within
    <3> QED
      BY <3>2
  <2> QED
    BY <1>6, <2>1, <2>2 DEF BusInv
<1> QED
  BY <1>1, <1>6, <1>7, <1>8 DEF BusInv, DecodesOK, Disjoint, Outcomes

(* A request that is refused, or answered with another region, changes     *)
(* nothing but the outcome.                                                *)
LEMMA GetDMIPointerStep ==
  ASSUME BusInv, NEW i \in Initiators, NEW a \in Addr, NEW start \in Addr,
         NEW end \in Addr, NEW granted \in BOOLEAN,
         GetDMIPointer(i, a, start, end, granted)
  PROVE  BusInv'
<1>1. CASE granted /\ start <= Offset(a) /\ Offset(a) <= end
  <2>1. granted = TRUE
    BY <1>1
  <2>2. GetDMIPointer(i, a, start, end, TRUE)
    BY <2>1
  <2> QED
    BY <1>1, <2>2, Granted
<1>2. CASE ~(granted /\ start <= Offset(a) /\ Offset(a) <= end)
  <2>1. /\ UNCHANGED <<decodes, running, held, allowed, missed>>
        /\ failed' \in Outcomes
    BY <1>2 DEF GetDMIPointer, Outcomes
  <2> QED
    BY <2>1, SameRegions
<1> QED
  BY <1>1, <1>2

(* What a withdrawal that a mapping sees does not drop there lies outside  *)
(* its range, or has been passed by because the end of the range wrapped.  *)
LEMMA KeptOrPassedBy ==
  ASSUME DecodesOK, NEW p \in Ports, NEW k \in DOMAIN decodes[p],
         NEW start \in Addr, NEW end \in Addr,
         NEW r \in [start : Addr, end : Addr], NEW b \in r.start .. r.end,
         decodes[p][k].lo <= r.start, r.end <= decodes[p][k].hi,
         r \notin Dropped({r}, OffsetOutOf(decodes[p][k], start),
                              OffsetOutOf(decodes[p][k], end)),
         b - decodes[p][k].lo \in start .. end
  PROVE  b \in PassedBy(p, start, end)
<1> PICK m \in Region : m = decodes[p][k]
  BY DEF DecodesOK
<1> DEFINE first == OffsetOutOf(m, start)
           last == OffsetOutOf(m, end)
<1>1. /\ m.lo \in Int /\ m.hi \in Int /\ 0 <= m.lo /\ m.hi < AddrMod
      /\ start \in Int /\ end \in Int /\ 0 <= start /\ 0 <= end
      /\ r.start \in Int /\ r.end \in Int /\ AddrMod \in Int
  BY BusAssumption DEF Region, Addr
<1>2. /\ b \in Int /\ m.lo <= r.start /\ r.start <= b /\ b <= r.end /\ r.end <= m.hi
      /\ start <= b - m.lo /\ b - m.lo <= end
  BY <1>1
<1>3. start + m.lo \in Addr /\ first = start + m.lo
  <2>1. start + m.lo \in Addr
    BY <1>1, <1>2 DEF Addr
  <2> QED
    BY <2>1, NoWrap DEF OffsetOutOf
<1>4. r.end < first \/ r.start > last
  BY DEF Dropped
<1>5. CASE end + m.lo < AddrMod
  <2>1. end + m.lo \in Addr
    BY <1>1, <1>5 DEF Addr
  <2>2. last = end + m.lo
    BY <2>1, NoWrap DEF OffsetOutOf
  <2> HIDE DEF first, last
  <2> QED
    BY <1>1, <1>2, <1>3, <1>4, <2>2
<1>6. CASE end + m.lo >= AddrMod
  <2>1. m \in {n \in MappingsOf(p) : start + n.lo < AddrMod /\ end + n.lo >= AddrMod}
    BY <1>3, <1>6, BusAssumption DEF MappingsOf, Addr
  <2>2. b \in start + m.lo .. m.hi
    BY <1>1, <1>2
  <2> QED
    BY <2>1, <2>2 DEF PassedBy
<1> QED
  BY <1>1, <1>5, <1>6

(* A region that stays was met at no mapping of the port, so what is left  *)
(* of "allowed" still covers what has not been passed by.                  *)
LEMMA InvalidateStep ==
  ASSUME BusInv, NEW p \in Ports, NEW start \in Addr, NEW end \in Addr,
         InvalidateDMIPointers(p, start, end)
  PROVE  BusInv'
<1>1. /\ UNCHANGED <<decodes, running, failed>>
      /\ held' = [i \in Initiators |-> held[i] \ Withdrawn(p, start, end, held[i])]
      /\ allowed' = [allowed EXCEPT ![p] = @ \ start .. end]
      /\ missed' = missed \union PassedBy(p, start, end)
  BY DEF InvalidateDMIPointers
<1>2. PassedBy(p, start, end) \subseteq Addr
  <2> SUFFICES ASSUME NEW m \in MappingsOf(p)
               PROVE  start + m.lo .. m.hi \subseteq Addr
    BY DEF PassedBy
  <2>1. m \in Region
    BY DEF MappingsOf, BusInv, DecodesOK
  <2> QED
    BY <2>1, BusAssumption DEF Region, Addr
<1>3. /\ held' \in [Initiators -> SUBSET [start : Addr, end : Addr]]
      /\ allowed' \in [Ports -> SUBSET Addr]
      /\ missed' \subseteq Addr
      /\ \A i \in Initiators : held'[i] \subseteq held[i]
  BY <1>1, <1>2 DEF BusInv
<1>4. ASSUME NEW i \in Initiators, NEW r \in held'[i]
      PROVE  \E q \in Ports : \E k \in DOMAIN decodes[q] : Within(r, q, k)'
  <2>1. r \in held[i] /\ r \in [start : Addr, end : Addr]
    BY <1>3 DEF BusInv
  <2> PICK q \in Ports : \E k \in DOMAIN decodes[q] : Within(r, q, k)
    BY <2>1 DEF BusInv
  <2>2. PICK k \in DOMAIN decodes[q] : Within(r, q, k)
    OBVIOUS
  <2>3. CASE q # p
    BY <1>1, <2>2, <2>3 DEF Within, BusInv
  <2>4. CASE q = p
    <3>1. decodes[p][k] \in MappingsOf(p)
      BY <2>4 DEF MappingsOf
    <3>2. r \notin Dropped({r}, OffsetOutOf(decodes[p][k], start),
                               OffsetOutOf(decodes[p][k], end))
      BY <1>1, <2>1, <3>1 DEF Withdrawn, Dropped
    <3>3. ASSUME NEW b \in r.start .. r.end, b \notin missed'
          PROVE  b - decodes[p][k].lo \in allowed'[p]
      <4>1. b - decodes[p][k].lo \in allowed[p]
        BY <1>1, <2>2, <2>4, <3>3 DEF Within
      <4>2. b \notin PassedBy(p, start, end)
        BY <1>1, <3>3
      <4>3. b - decodes[p][k].lo \notin start .. end
        BY <2>1, <2>2, <2>4, <3>2, <4>2, KeptOrPassedBy DEF Within, BusInv
      <4> QED
        BY <1>1, <4>1, <4>3 DEF BusInv
    <3> QED
      BY <1>1, <2>2, <2>4, <3>3 DEF Within
  <2> QED
    BY <2>3, <2>4
<1>5. \A i \in Initiators : held[i] = {} => held'[i] = {}
  BY <1>3
<1> QED
  BY <1>1, <1>3, <1>4, <1>5 DEF BusInv, DecodesOK, Disjoint

LEMMA BusStep == ASSUME BusInv, [Next]_vars PROVE BusInv'
<1>1. CASE UNCHANGED vars
  BY <1>1, SameRegions DEF vars, BusInv
<1>2. CASE \E p \in Ports \union {Cardinality(Ports)}, lo, hi \in Addr : SetDecode(p, lo, hi)
  BY <1>2, SetDecodeStep
<1>3. CASE Start
  BY <1>3, StartStep
<1>4. CASE \E a \in Addr : Unrouted(a)
  BY <1>4, SameRegions DEF Unrouted, Outcomes
<1>5. CASE \E i \in Initiators, a, start, end \in Addr, granted \in BOOLEAN :
             GetDMIPointer(i, a, start, end, granted)
  BY <1>5, GetDMIPointerStep
<1>6. CASE \E p \in Ports, start, end \in Addr : InvalidateDMIPointers(p, start, end)
  BY <1>6, InvalidateStep
<1> QED
  BY <1>1, <1>2, <1>3, <1>4, <1>5, <1>6 DEF Next

LEMMA BusAlways == Spec => []BusInv
<1>1. ASSUME Init PROVE BusInv
  <2>1. /\ decodes \in [Ports -> Seq(Region)]
        /\ \A p \in Ports : DOMAIN decodes[p] = {}
    BY <1>1 DEF Init
  <2>2. DecodesOK
    BY <2>1 DEF DecodesOK
  <2>3. running \in BOOLEAN
    BY <1>1 DEF Init
  <2> QED
    BY <1>1, <2>2, <2>3 DEF Init, BusInv, Outcomes
<1>2. BusInv /\ [Next]_vars => BusInv'
  BY BusStep
<1> QED
  BY <1>1, <1>2, PTL DEF Spec
-----------------------------------------------------------------------------
(* The variables of the bus stay in their types: no address and no region  *)
(* leaves the address space.                                               *)
THEOREM BusTypeCorrect == Spec => []TypeOK
<1>1. ASSUME BusInv PROVE TypeOK
  <2>1. \A p \in Ports : \A k \in DOMAIN decodes[p] :
          decodes[p][k] \in Region /\ decodes[p][k].lo <= decodes[p][k].hi
    BY <1>1 DEF BusInv, DecodesOK
  <2> QED
    BY <1>1, <2>1 DEF BusInv, TypeOK, Region, Outcomes
<1> QED
  BY <1>1, BusAlways, PTL

(* adjustRange passes its assertions for whatever region a target grants   *)
(* around the address asked for, one that is larger than the mapping, or   *)
(* all there is, included.                                                 *)
THEOREM RangesAlwaysAdjusted == Spec => []RangesAdjusted
<1>1. BusInv => RangesAdjusted
  BY DEF BusInv, RangesAdjusted, Outcomes
<1> QED
  BY <1>1, BusAlways, PTL

(* What lies in a held region is routed to the port of its mapping, at its *)
(* distance from the start of the mapping.                                 *)
LEMMA HeldRouted ==
  ASSUME BusInv, NEW i \in Initiators, NEW r \in held[i]
  PROVE  \E p \in Ports : \E k \in DOMAIN decodes[p] :
           /\ decodes[p][k].lo \in Int
           /\ \A a \in r.start .. r.end :
                /\ a \in Int
                /\ Mapped(a) /\ PortId(a) = p /\ Offset(a) = a - decodes[p][k].lo
                /\ a \notin missed => a - decodes[p][k].lo \in allowed[p]
<1> PICK p \in Ports : \E k \in DOMAIN decodes[p] : Within(r, p, k)
  BY DEF BusInv
<1>1. PICK k \in DOMAIN decodes[p] : Within(r, p, k)
  OBVIOUS
<1>2. decodes[p][k] \in Region /\ r \in [start : Addr, end : Addr]
  BY DEF BusInv, DecodesOK
<1>3. Disjoint
  BY DEF BusInv
<1>4. ASSUME NEW a \in r.start .. r.end
      PROVE  a \in Addr /\ InRegion(decodes[p][k], a)
  BY <1>1, <1>2, BusAssumption DEF Within, Region, Addr, InRegion
<1>5. decodes[p][k].lo \in Int
  BY <1>2 DEF Region, Addr
<1>6. ASSUME NEW a \in r.start .. r.end
      PROVE  /\ a \in Int
             /\ Mapped(a) /\ PortId(a) = p /\ Offset(a) = a - decodes[p][k].lo
             /\ a \notin missed => a - decodes[p][k].lo \in allowed[p]
  <2>1. Mapped(a) /\ PortId(a) = p /\ Offset(a) = a - decodes[p][k].lo
    BY <1>3, <1>4, Routed DEF BusInv
  <2>2. a \in Int
    BY <1>4 DEF Addr
  <2> QED
    BY <1>1, <2>1, <2>2 DEF Within
<1> QED
  BY <1>5, <1>6

(* A pointer into a target reaches what a transaction would reach. *)
THEOREM DirectAlwaysAsRouted == Spec => []DirectAsRouted
<1>1. ASSUME BusInv PROVE DirectAsRouted
  <2> SUFFICES ASSUME NEW i \in Initiators, NEW r \in held[i],
                      NEW a \in r.start .. r.end, NEW b \in r.start .. r.end
               PROVE  /\ Mapped(a) /\ Mapped(b)
                      /\ PortId(a) = PortId(b)
                      /\ Offset(a) - Offset(b) = a - b
    BY DEF DirectAsRouted
  <2> QED
    BY <1>1, HeldRouted
<1> QED
  BY <1>1, BusAlways, PTL

(* Nobody holds a region, or a part of one, that was withdrawn by a range  *)
(* that did not wrap on its way from the target to the initiators.         *)
THEOREM NothingEverStale == Spec => []NothingStale
<1>1. ASSUME BusInv PROVE NothingStale
  <2> SUFFICES ASSUME NEW i \in Initiators, NEW r \in held[i], NEW a \in r.start .. r.end,
                      a \notin missed
               PROVE  Offset(a) \in allowed[PortId(a)]
    BY DEF NothingStale
  <2> QED
    BY <1>1, HeldRouted
<1> QED
  BY <1>1, BusAlways, PTL
=============================================================================
