------------------------------- MODULE AppRxCb ------------------------------
(***************************************************************************)
(* sim/app_rx_cb.cc: the byte count log and the packet loss log of a       *)
(* receiver.  The last sequence numbers received wait in a heap of fixed   *)
(* size; when the heap is full, the smallest is taken out and a gap to the *)
(* largest one taken out before is logged as lost.                         *)
(*                                                                         *)
(* traffic is what the network delivers.  arrivals is the history of the   *)
(* sequence numbers received, and a heap entry is represented by its       *)
(* position in it, which tells copies of a packet apart.                   *)
(***************************************************************************)
EXTENDS Integers, Sequences, FiniteSets, SequencesExt

CONSTANTS
    Window,       \* n_pl_heap_max_sz, 128 in apps_manager.cc
    Traffic       \* sequences of packets [seqno, gap, size] that may come

NoSeqno == -1     \* the packet is too short for a header or has none

(* A heap of size 0 would be popped while empty. *)
ASSUME RxAssumption ==
    /\ Window \in Nat \ {0}
    /\ \A t \in Traffic : t \in Seq([seqno : Nat \cup {NoSeqno}, gap : Nat, size : Nat])

VARIABLES
    traffic,      \* the packets still to come
    now,          \* Simulator::Now()
    arrivals,     \* history: the sequence numbers received
    heap,         \* pl_heap, as positions in arrivals
    largest,      \* pl_largest_popped
    plLog,        \* the lines of pl_fp
    rxLog,        \* the lines of rx_byte_fp
    rxByteCount,  \* rx_byte_count
    closed        \* the destructor has run

plVars == <<arrivals, heap, largest, plLog>>
rxVars == <<now, rxLog, rxByteCount>>
cbVars == <<traffic, plVars, rxVars, closed>>

CbTypeOK ==
    /\ traffic \in Seq([seqno : Nat \cup {NoSeqno}, gap : Nat, size : Nat])
    /\ now \in Nat
    /\ arrivals \in Seq(Nat)
    /\ heap \in SUBSET DOMAIN arrivals
    /\ largest \in Nat \cup {-1}
    /\ plLog \in Seq([ev : {"lost_range", "dup", "large_reorder", "largest"},
                      seqno : Nat, seqno2 : Nat])
    /\ rxLog \in Seq([time : Nat, bytes : Nat])
    /\ rxByteCount \in Nat
    /\ closed \in BOOLEAN

CbInit ==
    /\ traffic \in Traffic
    /\ now = 0
    /\ arrivals = <<>>
    /\ heap = {}
    /\ largest = -1
    /\ plLog = <<>>
    /\ rxLog = <<>>
    /\ rxByteCount = 0
    /\ closed = FALSE

Line(ev, a, b) == [ev |-> ev, seqno |-> a, seqno2 |-> b]

(* Faulty variant of Smallest: the keys are not negated. *)
SmallestNot(i) == i \in heap /\ \A j \in heap : arrivals[i] >= arrivals[j]

(* The entry pop_heap yields: the keys are negated, so a smallest one. *)
Smallest(i) == i \in heap /\ \A j \in heap : arrivals[i] <= arrivals[j]

(* Faulty variant of PoppedLine: the lost range begins one late. *)
PoppedLineShort(v) ==
    CASE v < largest     -> <<Line("large_reorder", v, largest)>>
      [] v = largest     -> <<Line("dup", v, v)>>
      [] v > largest + 2 -> <<Line("lost_range", largest + 2, v - 1)>>
      [] OTHER           -> <<>>

(* The line written for an entry v taken out of the heap. *)
PoppedLine(v) ==
    CASE v < largest     -> <<Line("large_reorder", v, largest)>>
      [] v = largest     -> <<Line("dup", v, v)>>
      [] v > largest + 1 -> <<Line("lost_range", largest + 1, v - 1)>>
      [] OTHER           -> <<>>

Push(rest, n) ==
    /\ arrivals' = Append(arrivals, n)
    /\ heap' = rest \cup {Len(arrivals) + 1}

(* LogAndUpdateByteCounts *)
LogByteCounts(p) ==
    /\ now' = now + p.gap
    /\ rxByteCount' = rxByteCount + p.size
    /\ rxLog' = Append(rxLog, [time |-> now + p.gap, bytes |-> rxByteCount + p.size])

Rx(p) ==
    /\ ~closed
    /\ traffic # <<>>
    /\ p = Head(traffic)
    /\ traffic' = Tail(traffic)
    /\ LogByteCounts(p)
    /\ UNCHANGED closed

(* rxCb for a packet with a header, while the heap still has room. *)
RxFill(p) ==
    /\ Rx(p)
    /\ p.seqno # NoSeqno
    /\ Cardinality(heap) # Window
    /\ Push(heap, p.seqno)
    /\ UNCHANGED <<largest, plLog>>

(* rxCb for a packet with a header, once the heap is full. *)
RxSlide(p) ==
    /\ Rx(p)
    /\ p.seqno # NoSeqno
    /\ Cardinality(heap) = Window
    /\ \E i \in heap :
           /\ Smallest(i)
           /\ plLog' = plLog \o PoppedLine(arrivals[i])
           /\ largest' = IF arrivals[i] > largest THEN arrivals[i] ELSE largest
           /\ Push(heap \ {i}, p.seqno)

(* A packet without a header is only counted. *)
RxNoHeader(p) ==
    /\ Rx(p)
    /\ p.seqno = NoSeqno
    /\ UNCHANGED plVars

(* The destructor: it leaves what is in the heap unprocessed. *)
Destroy ==
    /\ ~closed
    /\ closed' = TRUE
    /\ plLog' = IF largest > -1 THEN Append(plLog, Line("largest", largest, largest))
                ELSE plLog
    /\ UNCHANGED <<traffic, arrivals, heap, largest, rxVars>>

CbNext ==
    \/ \E p \in ToSet(traffic) : RxFill(p) \/ RxSlide(p) \/ RxNoHeader(p)
    \/ Destroy

-----------------------------------------------------------------------------
LinesOf(ev) == {l \in ToSet(plLog) : l.ev = ev}

(* The numbers inside the lost_range lines. *)
LostNumbers == UNION {l.seqno .. l.seqno2 : l \in LinesOf("lost_range")}

(* Packets received before position i with a larger number. *)
Overtaking(i) == {j \in 1 .. i - 1 : arrivals[j] > arrivals[i]}

FirstArrival(i) == \A j \in 1 .. i - 1 : arrivals[j] # arrivals[i]

(* As many packets as the heap holds, or more, have overtaken the packet.  *)
Late(i) == Cardinality(Overtaking(i)) >= Window

(* A packet received is logged as lost exactly if Window or more packets   *)
(* with larger numbers came before it ("if packets are received out of     *)
(* order by less than N packets, they count as received, otherwise, they   *)
(* count as lost").                                                        *)
LostIffLate ==
    \A i \in DOMAIN arrivals :
        FirstArrival(i) => (arrivals[i] \in LostNumbers <=> Late(i))

(* The lost ranges are exact: up to the largest number processed they hold *)
(* the numbers of which no packet came or only late ones, and no other     *)
(* (lost_range, against the largest_seqno_processed line).                 *)
LossesExact ==
    LostNumbers = {n \in 0 .. largest :
                      \A i \in DOMAIN arrivals : arrivals[i] = n => Late(i)}

Numbers == ToSet(arrivals) \cup {l.seqno : l \in ToSet(plLog)}

(* The packets with number n that have left the heap. *)
Left(n) == {i \in DOMAIN arrivals \ heap : arrivals[i] = n}

CountOf(ev, n) == Cardinality({k \in DOMAIN plLog : plLog[k].ev = ev /\ plLog[k].seqno = n})

(* Of each number, every late packet processed has a large_reorder line,   *)
(* and every other one but the first a dup line; nothing else has one.     *)
CopiesExact ==
    \A n \in Numbers :
        LET late   == {i \in Left(n) : Late(i)}
            ontime == Left(n) \ late
        IN  /\ CountOf("large_reorder", n) = Cardinality(late)
            /\ CountOf("dup", n) = IF ontime = {} THEN 0 ELSE Cardinality(ontime) - 1

(* The lines of the loss log are well formed, and tell exactly of what was *)
(* lost, what came late and what came more than once, of the packets that  *)
(* are not still in the heap (LogAndUpdateLosses).                         *)
LogTrue == CbTypeOK /\ LossesExact /\ CopiesExact
=============================================================================
