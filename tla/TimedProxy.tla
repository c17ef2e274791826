----------------------------- MODULE TimedProxy -----------------------------
(***************************************************************************)
(* ns3_apps/timed-proxy.cc: forwards packets in the active slices of a     *)
(* time-slot cycle.  The clock counts ticks, TicksPerMs to the             *)
(* millisecond, because GetNextTxTime works on truncated milliseconds.     *)
(* HandleRead's loop does the same for each packet in the socket and       *)
(* nothing after them, so a call is a run of HandleRead steps.             *)
(***************************************************************************)
EXTENDS Integers, Sequences

CONSTANTS
    TicksPerMs,
    ByteTime,      \* ticks the configured DataRate takes for one byte
    SliceWidthMS,
    SliceTaperMS,
    NSlices,       \* slices per cycle
    ActiveMap,     \* the active ones
    Sizes,         \* packet sizes
    MaxPackets,    \* packets received in a behaviour
    MaxTime,       \* the simulation ends here
    StopAllowed    \* TRUE: the application has a stop time

(* Without an active slice GetNextTxTime does not terminate; the shift by  *)
(* slot % nSlices is defined below 32.                                     *)
ASSUME TimedAssumption ==
    /\ TicksPerMs \in Nat \ {0}
    /\ ByteTime \in Nat
    /\ SliceWidthMS \in Nat \ {0}
    /\ SliceTaperMS \in Nat
    /\ NSlices \in 1 .. 32
    /\ ActiveMap \in SUBSET (0 .. NSlices - 1)
    /\ ActiveMap # {}
    /\ Sizes \in SUBSET (Nat \ {0})
    /\ MaxPackets \in Nat
    /\ MaxTime \in Nat
    /\ StopAllowed \in BOOLEAN

VARIABLES
    now,         \* Simulator::Now()
    run,         \* life cycle, as in ProxyBase
    store,       \* m_packetStore
    sendEv,      \* the times m_sendEv is scheduled for: none or one
    txEndTime,   \* m_txEndTime
    rxTotal,     \* m_rxSlots[0].total
    txTotal,     \* m_txSlots[0].total
    earliest,    \* history: the time from which the pending event was searched
    sent         \* history: what the socket took, with the time of sending, and
                 \* whether more packets were waiting then

vars == <<now, run, store, sendEv, txEndTime, rxTotal, txTotal, earliest, sent>>

Proxy == INSTANCE ProxyBase WITH Slots <- {0}, conns <- [s \in {0} |-> <<>>],
                                 connected <- [s \in {0} |-> FALSE]

LaterOf(a, b) == IF a > b THEN a ELSE b
Duration(size) == size * ByteTime

Slot(ms) == ms \div SliceWidthMS
Active(slot) == slot % NSlices \in ActiveMap

MinTime == LaterOf(txEndTime, now)

(* The next active slice after the given one. *)
NextActive(slot) ==
    slot + (CHOOSE d \in 1 .. NSlices :
               /\ Active(slot + d)
               /\ \A e \in 1 .. d - 1 : ~Active(slot + e))

(* Faulty variants of GetNextTxTime: blind to the taper; always waits for  *)
(* the next slice.                                                         *)
GetNextTxTimeNoTaper ==
    LET slot == Slot(MinTime \div TicksPerMs)
    IN  IF Active(slot) THEN MinTime
        ELSE NextActive(slot) * SliceWidthMS * TicksPerMs

GetNextTxTimeNextSlice ==
    NextActive(Slot(MinTime \div TicksPerMs)) * SliceWidthMS * TicksPerMs

GetNextTxTime ==
    LET ms == MinTime \div TicksPerMs
        slot == Slot(ms)
    IN  IF Active(slot) /\ slot = Slot(ms + SliceTaperMS)
        THEN MinTime
        ELSE NextActive(slot) * SliceWidthMS * TicksPerMs

-----------------------------------------------------------------------------
TypeOK ==
    /\ now \in 0 .. MaxTime
    /\ Proxy!ProxyTypeOK
    /\ store \in Seq(Sizes)
    /\ sendEv \in SUBSET Nat
    /\ txEndTime \in Nat
    /\ rxTotal \in Nat
    /\ txTotal \in Nat
    /\ earliest \in Nat
    /\ sent \in Seq([at : Nat, size : Sizes, more : BOOLEAN])

Init ==
    /\ now = 0
    /\ Proxy!ProxyInit
    /\ store = <<>>
    /\ sendEv = {}
    /\ txEndTime = 0
    /\ rxTotal = 0
    /\ txTotal = 0
    /\ earliest = 0
    /\ sent = <<>>

(* Events due are run before the clock moves on. *)
Tick ==
    /\ now < MaxTime
    /\ now \notin sendEv
    /\ now' = now + 1
    /\ UNCHANGED <<run, store, sendEv, txEndTime, rxTotal, txTotal, earliest, sent>>

StartApplication ==
    /\ Proxy!StartApplication
    /\ UNCHANGED <<now, store, sendEv, txEndTime, rxTotal, txTotal, earliest, sent>>

(* The pending event is not cancelled. *)
StopApplication ==
    /\ StopAllowed
    /\ Proxy!StopApplication
    /\ UNCHANGED <<now, store, sendEv, txEndTime, rxTotal, txTotal, earliest, sent>>

Schedule(t) ==
    /\ sendEv' = {t}
    /\ earliest' = MinTime

(* Faulty variant of HandleRead: schedules for every packet. *)
HandleReadReschedules(size) ==
    /\ run = "running"
    /\ Len(sent) + Len(store) < MaxPackets
    /\ rxTotal' = rxTotal + size
    /\ sendEv' = sendEv \cup {GetNextTxTime}
    /\ earliest' = MinTime
    /\ store' = Append(store, size)
    /\ UNCHANGED <<now, run, txEndTime, txTotal, sent>>

HandleRead(size) ==
    /\ run = "running"
    /\ Len(sent) + Len(store) < MaxPackets
    /\ rxTotal' = rxTotal + size
    /\ IF store = <<>> THEN Schedule(GetNextTxTime) ELSE UNCHANGED <<sendEv, earliest>>
    /\ store' = Append(store, size)
    /\ UNCHANGED <<now, run, txEndTime, txTotal, sent>>

(* Faulty variant of TxEnd: the wait for the next slice is not counted. *)
TxEndFromNow(nextTime, size) == now + Duration(size)

(* The end of the next transmission, which begins at nextTime, taken to    *)
(* last as long as the packet just sent.                                   *)
TxEnd(nextTime, size) == nextTime + Duration(size)

(* Send()'s result is ignored: after StopApplication the socket takes      *)
(* nothing, and the packet is counted all the same.                        *)
SendNextPacket ==
    /\ now \in sendEv
    /\ store' = Tail(store)
    /\ sent' = IF run = "running"
               THEN Append(sent, [at |-> now, size |-> Head(store),
                                  more |-> Tail(store) # <<>>])
               ELSE sent
    /\ txTotal' = txTotal + Head(store)
    /\ IF Tail(store) # <<>>
       THEN /\ Schedule(GetNextTxTime)
            /\ txEndTime' = TxEnd(GetNextTxTime, Head(store))
       ELSE /\ sendEv' = {}
            /\ UNCHANGED <<txEndTime, earliest>>
    /\ UNCHANGED <<now, run, rxTotal>>

Next ==
    \/ Tick
    \/ StartApplication
    \/ StopApplication
    \/ \E size \in Sizes : HandleRead(size)
    \/ SendNextPacket

Spec == Init /\ [][Next]_vars

-----------------------------------------------------------------------------
(* The event is pending exactly while packets are stored, and never for a  *)
(* time that has passed: SendNextPacket's assertions hold and no packet is *)
(* left behind (HandleRead schedules only for an empty store).             *)
EventPending ==
    /\ (store = <<>>) <=> (sendEv = {})
    /\ \A t \in sendEv : t >= now
    /\ \A t, u \in sendEv : t = u

(* A reference definition: sending may begin at tick t. *)
MayBegin(t) ==
    LET ms == t \div TicksPerMs
    IN  /\ (ms \div SliceWidthMS) % NSlices \in ActiveMap
        /\ (ms % SliceWidthMS) + SliceTaperMS < SliceWidthMS

(* Every packet is sent inside an active slice and before the slice tapers *)
(* off ("Amount of the time in slice where sending is off").               *)
SentInSlice == \A i \in DOMAIN sent : MayBegin(sent[i].at)

(* The pending send is at the first permitted time since the one from      *)
(* which GetNextTxTime searched.                                           *)
NoMissedSlice ==
    \A t \in sendEv :
        /\ earliest <= t
        /\ \A u \in earliest .. t - 1 : ~MayBegin(u)

(* While packets are waiting they leave at the configured rate ("The       *)
(* sending rate while active"), each kept apart from the next by the       *)
(* duration of the one before it.  The first packet of a burst is followed *)
(* by the second without a pause: m_txEndTime is not set when it is sent.  *)
PacedInBurst ==
    \A i \in 1 .. Len(sent) - 2 :
        sent[i].more => sent[i + 2].at >= sent[i + 1].at + Duration(sent[i].size)
=============================================================================
