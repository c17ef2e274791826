----------------------------- MODULE RqEncoder ------------------------------
(***************************************************************************)
(* ns3_apps/rq-encoder.cc: reads symbols of T bytes from the TCP streams   *)
(* of its Rx slots in turn, sends each as a source packet, and completes   *)
(* every block of K source packets with N - K repair packets.              *)
(*                                                                         *)
(* SendPacket is a timer callback that reschedules itself first, so it is  *)
(* due for ever once the application has started, after StopApplication    *)
(* too: nothing cancels m_sendEvent.  Its early returns change nothing     *)
(* (when no slot is readable the probe ends at the slot it began with).    *)
(***************************************************************************)
EXTENDS RqLink, Sequences, FiniteSetsExt

CONSTANTS
    MaxSupply,   \* bytes each peer sends
    MaxConns,    \* connections accepted per slot
    MaxBlocks    \* source blocks the encoder sends

ASSUME EncAssumption ==
    /\ MaxSupply \in Nat
    /\ MaxConns \in Nat
    /\ MaxBlocks \in Nat

VARIABLES
    encRun,      \* life cycle, as in ProxyBase
    rxConns,     \* m_rxSlots[].accepted_socks
    rxTotal,     \* m_rxSlots[].total: bytes read per stream
    encTxTotal,  \* m_txSlots[0].total
    nextRxSlot,  \* next slot to probe
    encSbid,     \* current source block
    esi,         \* next symbol of it
    symbcounts,  \* source symbols of the block per stream
    passedOver   \* history: symbols other slots sent while this one was readable

encVars == <<encRun, rxConns, rxTotal, encTxTotal, nextRxSlot, encSbid, esi,
             symbcounts, passedOver>>

(* The Tx socket is a UDP socket: its Connect() has notified before the    *)
(* callback is set, so the flag connected stays FALSE; it is not used.     *)
Rx == INSTANCE ProxyBase WITH run <- encRun, conns <- rxConns,
                              connected <- [s \in Slots |-> FALSE]

EncTypeOK ==
    /\ Rx!ProxyTypeOK
    /\ rxTotal \in [Slots -> Nat]
    /\ encTxTotal \in Nat
    /\ nextRxSlot \in Slots
    /\ encSbid \in Nat
    /\ esi \in 0 .. N - 1
    /\ symbcounts \in [Slots -> Nat]
    /\ passedOver \in [Slots -> Nat]

EncInit ==
    /\ Rx!ProxyInit
    /\ rxTotal = NoSymbols
    /\ encTxTotal = 0
    /\ nextRxSlot = 0
    /\ encSbid = 0
    /\ esi = 0
    /\ symbcounts = NoSymbols
    /\ passedOver = NoSymbols

PacketSize == T + 20 + 4 * NSlots

(* Only the first accepted socket of a slot is ever read, a whole symbol   *)
(* at a time.                                                              *)
HasSymbol(socks) == socks # <<>> /\ Head(socks) >= T
Readable(s) == HasSymbol(rxConns[s])

(* How many slots a round-robin probe from slot first visits before s. *)
DistFrom(first, s) == IF s >= first THEN s - first ELSE s - first + NSlots
ProbeDist(s) == DistFrom(nextRxSlot, s)

ChosenSlot(s) ==
    /\ Readable(s)
    /\ \A r \in Slots : Readable(r) => ProbeDist(s) <= ProbeDist(r)

(* Faulty variants of AfterSlot: no wrap-around; no advance. *)
AfterSlotNoWrap(s) == s + 1
AfterSlotStays(s) == s

AfterSlot(s) == IF s + 1 = NSlots THEN 0 ELSE s + 1

(* Faulty variant of NextEsi: the counters are not reset for a new block. *)
NextEsiNoReset(counts) ==
    /\ encTxTotal' = encTxTotal + PacketSize
    /\ esi' = (esi + 1) % N
    /\ encSbid' = IF esi + 1 = N THEN encSbid + 1 ELSE encSbid
    /\ symbcounts' = counts

(* The packet is out: on to the next ESI and possibly the next block.      *)
NextEsi(counts) ==
    /\ encTxTotal' = encTxTotal + PacketSize
    /\ IF esi + 1 = N
       THEN /\ esi' = 0
            /\ encSbid' = encSbid + 1
            /\ symbcounts' = NoSymbols
       ELSE /\ esi' = esi + 1
            /\ encSbid' = encSbid
            /\ symbcounts' = counts

Seqno == N * encSbid + esi

SendSource(s) ==
    /\ TxAvailable
    /\ esi < K
    /\ ChosenSlot(s)
    /\ nextRxSlot' = AfterSlot(s)
    /\ rxConns' = [rxConns EXCEPT ![s][1] = @ - T]
    /\ rxTotal' = [rxTotal EXCEPT ![s] = @ + T]
    /\ LET counts == [symbcounts EXCEPT ![s] = @ + 1]
       IN  /\ Send(Header(Seqno, s, counts))
           /\ NextEsi(counts)
    /\ passedOver' = [r \in Slots |-> IF r = s \/ ~Readable(r) THEN 0
                                      ELSE passedOver[r] + 1]
    /\ UNCHANGED encRun

SendRepair ==
    /\ encRun = "running"
    /\ TxAvailable
    /\ esi >= K
    /\ Send(Header(Seqno, NoStream, symbcounts))
    /\ NextEsi(symbcounts)
    /\ UNCHANGED <<encRun, rxConns, rxTotal, nextRxSlot, passedOver>>

(* The timer still fires after StopApplication.  Send() on the closed      *)
(* socket returns -1 and assert(ret == size) fails.                        *)
SendRepairAfterStop ==
    /\ encRun = "stopped"
    /\ TxAvailable
    /\ esi >= K
    /\ Rx!Abort
    /\ UNCHANGED <<rxTotal, encTxTotal, nextRxSlot, encSbid, esi, symbcounts,
                   passedOver, linkVars>>

SendPacket ==
    /\ encSbid < MaxBlocks
    /\ \/ \E s \in Slots : SendSource(s)
       \/ SendRepair
       \/ SendRepairAfterStop

(* The rest of the encoder's life is ProxyBase's. *)
EncProxyStep(step) ==
    /\ step
    /\ UNCHANGED <<rxTotal, encTxTotal, nextRxSlot, encSbid, esi, symbcounts,
                   passedOver, linkVars>>

(* StartApplication's own call of SendPacket finds no accepted socket.     *)
EncStart == EncProxyStep(Rx!StartApplication)

EncStop == StopAllowed /\ EncProxyStep(Rx!StopApplication)

EncAccept(s) == Len(rxConns[s]) < MaxConns /\ EncProxyStep(Rx!HandleAccept(s))

EncPeerData(s, i, n) ==
    /\ rxTotal[s] + rxConns[s][i] + n <= MaxSupply
    /\ EncProxyStep(Rx!PeerData(s, i, n))

EncNext ==
    \/ EncStart
    \/ EncStop
    \/ \E s \in Slots : EncAccept(s)
    \/ \E s \in Slots : \E i \in DOMAIN rxConns[s], n \in 1 .. T : EncPeerData(s, i, n)
    \/ SendPacket

-----------------------------------------------------------------------------
(* The encoder by itself, on a link that drops what it is given. *)
AloneInit == EncInit /\ LinkInit
LinkDrop == \E p \in link : Lose(p) /\ UNCHANGED encVars
AloneNext == EncNext \/ LinkDrop

EncSpec == AloneInit /\ [][AloneNext]_<<encVars, linkVars>>

(* The counters the header carries: the symbols they count, by stream and  *)
(* number within the stream, are as many as the source symbols sent for    *)
(* the block, in every block anew (m_symbcounts in SendPacket).            *)
Counted(counts) == UNION {{s} \X (1 .. counts[s]) : s \in Slots}

CountsMatchEsi == Cardinality(Counted(symbcounts)) = IF esi < K THEN esi ELSE K

(* Round robin: while a slot has a symbol to read, no more than one symbol *)
(* of each other slot is sent before it (m_nextRxSlot in SendPacket).      *)
RoundRobin == \A s \in Slots : passedOver[s] < NSlots
=============================================================================
