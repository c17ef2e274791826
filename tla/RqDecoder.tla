----------------------------- MODULE RqDecoder ------------------------------
(***************************************************************************)
(* ns3_apps/rq-decoder.cc: counts the packets of the current source block, *)
(* passes on the symbols of a stream while they come without a gap, and    *)
(* the ones held back once K packets of the block have arrived.  Symbols   *)
(* are counted, not carried: the decoder sends dummy bytes.                *)
(*                                                                         *)
(* HandleRead is a loop over the packets in the socket followed by         *)
(* TryToSend on every slot.  RecvPacket is one turn of the loop, EndRead   *)
(* its end; `reading' holds in between, and then nothing else of the       *)
(* simulator runs.                                                         *)
(***************************************************************************)
EXTENDS RqLink

CONSTANT TxBuf     \* bytes the send buffer of a Tx slot holds

ASSUME DecAssumption == TxBuf \in Nat \ {0}

VARIABLES
    decRun,       \* life cycle, as in ProxyBase
    connected,    \* m_txSlots[].connected
    txRoom,       \* GetTxAvailable() of each Tx socket
    txTotal,      \* m_txSlots[].total: bytes sent per stream
    decSbid,      \* current source block, -1 before the first packet
    nrcv,         \* m_sb_nrcv: packets received for it
    nsrcrcv,      \* m_sb_nsrcrcv: source packets among them
    nsymb,        \* m_nsymb: symbols of the stream in the block, as far as known
    nsymbcontig,  \* m_nsymbcontig: symbols received without a gap
    nbuffered,    \* m_nbuffered: bytes passed on and not yet sent
    reading       \* inside HandleRead

blockVars == <<decSbid, nrcv, nsrcrcv, nsymb, nsymbcontig>>
decVars == <<decRun, connected, txRoom, txTotal, blockVars, nbuffered, reading>>

(* The Rx socket is a UDP socket: it accepts no connections.               *)
Tx == INSTANCE ProxyBase WITH run <- decRun, connected <- connected,
                              conns <- [s \in Slots |-> <<>>]

DecTypeOK ==
    /\ Tx!ProxyTypeOK
    /\ txRoom \in [Slots -> 0 .. TxBuf]
    /\ txTotal \in [Slots -> Nat]
    /\ decSbid \in Int
    /\ nrcv \in Nat
    /\ nsrcrcv \in Nat
    /\ nsymb \in [Slots -> Nat]
    /\ nsymbcontig \in [Slots -> Nat]
    /\ nbuffered \in [Slots -> Nat]
    /\ reading \in BOOLEAN

DecInit ==
    /\ Tx!ProxyInit
    /\ txRoom = [s \in Slots |-> TxBuf]
    /\ txTotal = NoSymbols
    /\ decSbid = -1
    /\ nrcv = 0
    /\ nsrcrcv = 0
    /\ nsymb = NoSymbols
    /\ nsymbcontig = NoSymbols
    /\ nbuffered = NoSymbols
    /\ reading = FALSE

-----------------------------------------------------------------------------
(* The counters as they are once packet p has been counted. *)
NewBlock(p) == SbidOf(p) > decSbid
Stale(p)    == SbidOf(p) < decSbid

LargerOf(a, b) == IF a > b THEN a ELSE b

(* Faulty variant of SymbAfter: the last header wins, not the largest. *)
SymbAfterLast(p) == p.iseq

SymbAfter(p) ==
    [s \in Slots |-> LargerOf(p.iseq[s], IF NewBlock(p) THEN 0 ELSE nsymb[s])]

ContigBefore(p) == IF NewBlock(p) THEN NoSymbols ELSE nsymbcontig

InOrder(p) ==
    /\ p.streamid # NoStream
    /\ ContigBefore(p)[p.streamid] + 1 = SymbAfter(p)[p.streamid]

ContigAfter(p) ==
    IF InOrder(p) THEN [ContigBefore(p) EXCEPT ![p.streamid] = @ + 1]
                  ELSE ContigBefore(p)

RcvAfter(p) == IF NewBlock(p) THEN 1 ELSE nrcv + 1

SrcRcvAfter(p) ==
    (IF NewBlock(p) THEN 0 ELSE nsrcrcv) + (IF EsiOf(p) < K THEN 1 ELSE 0)

(* Faulty variant of HeldBack: forgets what was passed on in order. *)
HeldBackAll(p, s) == SymbAfter(p)[s]

(* What is held back is passed on at the K-th packet, and only then.       *)
HeldBack(p, s) == SymbAfter(p)[s] - ContigAfter(p)[s]

(* Faulty variants of PassedOn: nothing is held back for decoding; the     *)
(* block is decoded one packet late.                                       *)
PassedOnNoDecode(p, s) == T * (IF InOrder(p) /\ s = p.streamid THEN 1 ELSE 0)

PassedOnLate(p, s) ==
    T * ((IF InOrder(p) /\ s = p.streamid THEN 1 ELSE 0)
         + (IF RcvAfter(p) = K + 1 THEN HeldBack(p, s) ELSE 0))

PassedOn(p, s) ==
    T * ((IF InOrder(p) /\ s = p.streamid THEN 1 ELSE 0)
         + (IF RcvAfter(p) = K THEN HeldBack(p, s) ELSE 0))

CountPacket(p) ==
    /\ ~Stale(p)
    /\ decSbid' = SbidOf(p)
    /\ nrcv' = RcvAfter(p)
    /\ nsrcrcv' = SrcRcvAfter(p)
    /\ nsymb' = SymbAfter(p)
    /\ nsymbcontig' = ContigAfter(p)
    /\ nbuffered' = [s \in Slots |-> nbuffered[s] + PassedOn(p, s)]

DropStale(p) ==
    /\ Stale(p)
    /\ UNCHANGED <<blockVars, nbuffered>>

RecvPacket(p) ==
    /\ decRun = "running"
    /\ Arriving(p)
    /\ Arrive(p) \/ ArriveAndStay(p)
    /\ CountPacket(p) \/ DropStale(p)
    /\ reading' = TRUE
    /\ UNCHANGED <<decRun, connected, txRoom, txTotal>>

(* Faulty variant of Sendable: not limited by the room in the socket. *)
SendableUnlimited(s, room) == IF connected[s] THEN nbuffered[s] ELSE 0

(* TryToSend: as much of the buffered bytes as the socket takes. *)
Sendable(s, room) ==
    IF ~connected[s] THEN 0
    ELSE IF room < nbuffered[s] THEN room ELSE nbuffered[s]

EndRead ==
    /\ reading
    /\ reading' = FALSE
    /\ nbuffered' = [s \in Slots |-> nbuffered[s] - Sendable(s, txRoom[s])]
    /\ txTotal' = [s \in Slots |-> txTotal[s] + Sendable(s, txRoom[s])]
    /\ txRoom' = [s \in Slots |-> txRoom[s] - Sendable(s, txRoom[s])]
    /\ UNCHANGED <<decRun, connected, blockVars, linkVars>>

(* The send callback: TCP has freed some bytes of the send buffer.         *)
HandleSend(s, freed) ==
    /\ ~reading
    /\ decRun \in {"running", "stopped"}
    /\ txRoom[s] + freed <= TxBuf
    /\ LET amount == Sendable(s, txRoom[s] + freed)
       IN  /\ nbuffered' = [nbuffered EXCEPT ![s] = @ - amount]
           /\ txTotal' = [txTotal EXCEPT ![s] = @ + amount]
           /\ txRoom' = [txRoom EXCEPT ![s] = @ + freed - amount]
    /\ UNCHANGED <<decRun, connected, blockVars, reading, linkVars>>

(* StopApplication does not remove the send callback.  A closed socket may *)
(* still take the data while it drains, or refuse it: NS_ASSERT(sent ==    *)
(* amount) fails.                                                          *)
HandleSendRefused(s) ==
    /\ ~reading
    /\ decRun = "stopped"
    /\ Sendable(s, txRoom[s]) > 0
    /\ Tx!Abort
    /\ UNCHANGED <<txRoom, txTotal, blockVars, nbuffered, reading, linkVars>>

DecProxyStep(step) ==
    /\ ~reading
    /\ step
    /\ UNCHANGED <<txRoom, txTotal, blockVars, nbuffered, reading, linkVars>>

DecStart == DecProxyStep(Tx!StartApplication)

DecStop == StopAllowed /\ DecProxyStep(Tx!StopApplication)

DecConnected(s) == DecProxyStep(Tx!ConnectionSucceeded(s))

(* The callbacks other than the arrival of a packet. *)
DecEvent ==
    \/ DecStart
    \/ DecStop
    \/ \E s \in Slots : DecConnected(s)
    \/ EndRead
    \/ \E s \in Slots, freed \in 0 .. TxBuf : HandleSend(s, freed)
    \/ \E s \in Slots : HandleSendRefused(s)

-----------------------------------------------------------------------------
(* The DecodeInfo records traced while p is processed, oldest first: the   *)
(* block just left, then the block just decoded.  With K = 1 both happen.  *)
DecodeInfo(sbid, rcv, src) ==
    [sbid |-> sbid, success |-> rcv >= K, nrcv |-> rcv, nsrcrcv |-> src]

(* Faulty variant of LeaveTrace: a decoded block is not traced again. *)
LeaveTraceOnce(p) ==
    IF NewBlock(p) /\ decSbid >= 0 /\ nrcv < K
    THEN {DecodeInfo(decSbid, nrcv, nsrcrcv)} ELSE {}

LeaveTrace(p) ==
    IF NewBlock(p) /\ decSbid >= 0
    THEN {DecodeInfo(decSbid, nrcv, nsrcrcv)} ELSE {}

DecodeTrace(p) ==
    IF ~Stale(p) /\ RcvAfter(p) = K
    THEN {DecodeInfo(SbidOf(p), K, SrcRcvAfter(p))} ELSE {}
=============================================================================
