----------------------------- MODULE SimpleBus -----------------------------
(***************************************************************************)
(* The bus of HW4: MemoryMap.h, which decodes an address into a port and   *)
(* an offset, and SimpleBus.h, which routes transactions by it and         *)
(* translates the regions of direct memory access (DMI) between the        *)
(* addresses of an initiator and those of a target.                        *)
(*                                                                         *)
(* The bus is configured by setDecode before the simulation starts.  Then  *)
(* initiators send transactions and ask for DMI, and targets withdraw it.  *)
(* A target that grants DMI names a region of its own addresses; what it   *)
(* has granted and not withdrawn is remembered in "allowed", and what a    *)
(* withdrawal should have reached and has not, in "missed": both are       *)
(* history, the bus reads neither.                                         *)
(***************************************************************************)
EXTENDS Integers, Sequences, FiniteSetsExt

CONSTANTS
  Ports,      (* the targets: 0 .. NR_OF_INITIATOR_SOCKETS - 1             *)
  Initiators, (* the sockets t_skt                                         *)
  AddrMod,    (* addresses are 0 .. AddrMod - 1 (Addr: 64 bits)            *)
  Mappings,   (* bound: the mappings of all ports                          *)
  Held        (* bound: the DMI regions an initiator holds                 *)

ASSUME BusAssumption ==
  /\ Ports \subseteq Nat /\ Ports # {} /\ Ports = 0 .. Cardinality(Ports) - 1
  /\ AddrMod \in Nat \ {0}
  /\ Mappings \in Nat /\ Held \in Nat

Addr == 0 .. AddrMod - 1

VARIABLES
  decodes, (* decodes[p]: the mappings of port p, the newest first         *)
  running, (* the simulation has started                                   *)
  failed,  (* the assertion that has failed, or "none"                     *)
  held,    (* held[i]: the DMI regions initiator i holds                   *)
  allowed, (* allowed[p]: the addresses of target p open to DMI            *)
  missed   (* addresses of the bus withdrawn by a call that passed them by *)

vars == <<decodes, running, failed, held, allowed, missed>>

Init ==
  /\ decodes = [p \in Ports |-> <<>>]
  /\ running = FALSE
  /\ failed = "none"
  /\ held = [i \in Initiators |-> {}]
  /\ allowed = [p \in Ports |-> {}]
  /\ missed = {}
-----------------------------------------------------------------------------
(* getMapping: the first mapping of p, in the order of the list, that      *)
(* contains a.  getPortId: the first port that has one.                    *)
InRegion(m, a) == m.lo <= a /\ a <= m.hi

HasMapping(p, a) == \E k \in DOMAIN decodes[p] : InRegion(decodes[p][k], a)

Mapping(p, a) ==
  decodes[p][Min({k \in DOMAIN decodes[p] : InRegion(decodes[p][k], a)})]

Mapped(a) == \E p \in Ports : HasMapping(p, a)
PortId(a) == Min({p \in Ports : HasMapping(p, a)})
Offset(a) == (a - Mapping(PortId(a), a).lo) % AddrMod
-----------------------------------------------------------------------------
(* Mutant: an empty range is taken. *)
SetDecodeEmpty(p, lo, hi) ==
  /\ ~running
  /\ MapThenSumSet(LAMBDA q : Len(decodes[q]), Ports) < Mappings
  /\ decodes' = IF p \in Ports
                  THEN [decodes EXCEPT ![p] = <<[lo |-> lo, hi |-> hi]>> \o @]
                  ELSE decodes
  /\ UNCHANGED <<running, failed, held, allowed, missed>>

(* A call that names no port, or an empty range, is reported and ignored;  *)
(* overlaps are not looked for.                                            *)
SetDecode(p, lo, hi) ==
  /\ ~running
  /\ MapThenSumSet(LAMBDA q : Len(decodes[q]), Ports) < Mappings
  /\ decodes' = IF p \in Ports /\ lo <= hi
                  THEN [decodes EXCEPT ![p] = <<[lo |-> lo, hi |-> hi]>> \o @]
                  ELSE decodes
  /\ UNCHANGED <<running, failed, held, allowed, missed>>

(* The ranges of the programs do not overlap. *)
Disjoint ==
  \A p, q \in Ports : \A j \in DOMAIN decodes[p], k \in DOMAIN decodes[q] :
    \/ <<p, j>> = <<q, k>>
    \/ decodes[p][j].hi < decodes[q][k].lo
    \/ decodes[q][k].hi < decodes[p][j].lo

Start ==
  /\ ~running
  /\ Disjoint
  /\ running' = TRUE
  /\ UNCHANGED <<decodes, failed, held, allowed, missed>>

Serving == running /\ failed = "none"

(* initiatorBTransport and transportDebug: no port at the address.  (A     *)
(* transaction that has a port changes nothing here.)                      *)
Unrouted(a) ==
  /\ Serving
  /\ ~Mapped(a)
  /\ failed' = "unmapped"
  /\ UNCHANGED <<decodes, running, held, allowed, missed>>

(* adjustRange: from a region of the target to one of the initiator, cut   *)
(* to the mapping; mutants that do not cut, and that cut to an offset.     *)
AdjustRangeUncut(m, start, end) ==
  [start |-> (start + m.lo) % AddrMod, end |-> (end + m.lo) % AddrMod]

AdjustRangeToOffset(m, start, end) ==
  [start |-> (start + m.lo) % AddrMod,
   end   |-> IF end > m.hi - m.lo THEN m.hi - m.lo ELSE (end + m.lo) % AddrMod]

AdjustRange(m, start, end) ==
  [start |-> (start + m.lo) % AddrMod,
   end   |-> IF end > m.hi - m.lo THEN m.hi ELSE (end + m.lo) % AddrMod]

(* getDMIPointer.  The target grants a region, which may be larger than    *)
(* the mapping and often is all there is, or refuses one.  A region that   *)
(* is granted has to contain the offset; it is adjusted in either case.    *)
GetDMIPointer(i, a, start, end, granted) ==
  /\ Serving
  /\ Mapped(a)
  /\ LET p == PortId(a)
         m == Mapping(p, a)
         r == AdjustRange(m, start, end)
         contains == start <= Offset(a) /\ Offset(a) <= end
         fits == r.end >= r.start /\ r.end - r.start <= m.hi - m.lo
     IN  /\ failed' = IF granted /\ ~contains THEN "contains"
                      ELSE IF fits THEN "none"
                      ELSE IF granted THEN "adjustGranted" ELSE "adjustRefused"
         /\ IF granted /\ contains /\ fits
              THEN /\ held' = [held EXCEPT ![i] = @ \union {r}]
                   /\ allowed' = [allowed EXCEPT ![p] = @ \union start .. end]
                   /\ missed' = {b \in missed : PortId(b) # p \/ Offset(b) \notin start .. end}
              ELSE UNCHANGED <<held, allowed, missed>>
  /\ Cardinality(held'[i]) <= Held
  /\ UNCHANGED <<decodes, running>>

(* An initiator drops the regions that an invalidated range meets. *)
Dropped(regions, start, end) ==
  {r \in regions : ~(r.end < start \/ r.start > end)}

(* offsetOutOf: the sum is cut to the width of an address. *)
OffsetOutOf(m, a) == (a + m.lo) % AddrMod

MappingsOf(p) == {decodes[p][k] : k \in DOMAIN decodes[p]}

(* invalidateDMIPointers: target p withdraws a range of its addresses; for *)
(* every mapping of p all initiators are told.  Mutant: for the newest.    *)
WithdrawnFirst(p, start, end, regions) ==
  IF decodes[p] = <<>> THEN {}
  ELSE Dropped(regions, OffsetOutOf(decodes[p][1], start), OffsetOutOf(decodes[p][1], end))

Withdrawn(p, start, end, regions) ==
  UNION {Dropped(regions, OffsetOutOf(m, start), OffsetOutOf(m, end)) : m \in MappingsOf(p)}

(* Where the end of the range wraps and its start does not, as it does     *)
(* when a target withdraws all there is from a mapping that is not at      *)
(* zero, the range passed on is empty and nobody drops what it stands for. *)
PassedBy(p, start, end) ==
  UNION {start + m.lo .. m.hi :
           m \in {n \in MappingsOf(p) : start + n.lo < AddrMod /\ end + n.lo >= AddrMod}}

InvalidateDMIPointers(p, start, end) ==
  /\ Serving
  /\ held' = [i \in Initiators |-> held[i] \ Withdrawn(p, start, end, held[i])]
  /\ allowed' = [allowed EXCEPT ![p] = @ \ start .. end]
  /\ missed' = missed \union PassedBy(p, start, end)
  /\ UNCHANGED <<decodes, running, failed>>

Next ==
  \/ \E p \in Ports \union {Cardinality(Ports)}, lo, hi \in Addr : SetDecode(p, lo, hi)
  \/ Start
  \/ \E a \in Addr : Unrouted(a)
  \/ \E i \in Initiators, a, start, end \in Addr, granted \in BOOLEAN :
       GetDMIPointer(i, a, start, end, granted)
  \/ \E p \in Ports, start, end \in Addr : InvalidateDMIPointers(p, start, end)

Spec == Init /\ [][Next]_vars
-----------------------------------------------------------------------------
TypeOK ==
  /\ \A p \in Ports : \A k \in DOMAIN decodes[p] :
       decodes[p][k] \in [lo : Addr, hi : Addr] /\ decodes[p][k].lo <= decodes[p][k].hi
  /\ running \in BOOLEAN
  /\ failed \in {"none", "unmapped", "contains", "adjustGranted", "adjustRefused"}
  /\ \A i \in Initiators : held[i] \subseteq [start : Addr, end : Addr]
  /\ allowed \in [Ports -> SUBSET Addr]
  /\ missed \subseteq Addr

(* The assertions of adjustRange hold for whatever region a target grants  *)
(* that contains the address asked for (they may fail for a refused one).  *)
RangesAdjusted == failed # "adjustGranted"

(* Direct access and routing agree: all addresses of a region an initiator *)
(* holds are routed to one and the same port, with no gap and no jump of   *)
(* the offset, so that a pointer into the target reaches what a            *)
(* transaction would reach.                                                *)
DirectAsRouted ==
  \A i \in Initiators : \A r \in held[i] : \A a, b \in r.start .. r.end :
    /\ Mapped(a) /\ Mapped(b)
    /\ PortId(a) = PortId(b)
    /\ Offset(a) - Offset(b) = a - b

(* An initiator holds a pointer that the target has withdrawn only where   *)
(* the range wrapped on its way: behind every other address of a held      *)
(* region is an address open to DMI.                                       *)
NothingStale ==
  \A i \in Initiators : \A r \in held[i] : \A a \in r.start .. r.end :
    a \notin missed => Offset(a) \in allowed[PortId(a)]
=============================================================================
