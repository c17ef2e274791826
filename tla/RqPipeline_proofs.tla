-------------------------- MODULE RqPipeline_proofs -------------------------
(***************************************************************************)
(* Proofs about RqEncoder and RqPipeline, for every K, N, T, number of     *)
(* streams, supply and room in the sockets.  The encoder on its own: types *)
(* and the round robin over the streams.  The relay: types on any link;    *)
(* what the decoder knows of a block, on a link that does not duplicate;   *)
(* no bytes too many, on a link that keeps the order; recovery, on a link  *)
(* that does both and loses no more than N - K packets of a block.         *)
(*                                                                         *)
(* The counters of the headers are followed from the encoder, over the     *)
(* link, into the decoder: startAt[b] + T * counter is a number of bytes   *)
(* read for the blocks up to b, and is compared with Ends[b].              *)
(***************************************************************************)
EXTENDS RqPipeline, SequenceTheorems, FiniteSetTheorems, TLAPS

-----------------------------------------------------------------------------
(* The encoder. *)
(* What makes RoundRobin inductive.  A readable slot that has been passed  *)
(* over some times is that much nearer to the probe; a slot that is not    *)
(* readable has not been passed over.  After StopApplication nothing is    *)
(* readable.                                                               *)
RoundRobinInv ==
    /\ EncTypeOK
    /\ RoundRobin
    /\ encRun \in {"stopped", "aborted"} => \A s \in Slots : rxConns[s] = <<>>
    /\ encRun \in {"init", "running"} =>
           \A s \in Slots :
               /\ Readable(s) => passedOver[s] + ProbeDist(s) < NSlots
               /\ ~Readable(s) => passedOver[s] = 0

(* The round-robin distance of a slot stays within the slots, and a probe  *)
(* that took slot t is nearer to every slot it would have visited later.   *)
LEMMA DistFromType ==
    ASSUME NEW f \in Slots, NEW s \in Slots
    PROVE  DistFrom(f, s) \in Nat /\ DistFrom(f, s) < NSlots
BY ParamAssumption DEF DistFrom, Slots

LEMMA DistFromNext ==
    ASSUME NEW f \in Slots, NEW s \in Slots, NEW t \in Slots,
           s # t, DistFrom(f, t) <= DistFrom(f, s)
    PROVE  DistFrom(AfterSlot(t), s) = DistFrom(f, s) - DistFrom(f, t) - 1
BY ParamAssumption DEF DistFrom, AfterSlot, Slots

LEMMA AfterSlotType ==
    ASSUME NEW s \in Slots
    PROVE  AfterSlot(s) \in Slots
BY ParamAssumption DEF AfterSlot, Slots

(* Reading a symbol keeps the byte counts of the sockets natural numbers.  *)
LEMMA ReadType ==
    ASSUME rxConns \in [Slots -> Seq(Nat)], NEW s \in Slots, Readable(s)
    PROVE  /\ [rxConns EXCEPT ![s][1] = @ - T] \in [Slots -> Seq(Nat)]
           /\ \A r \in Slots \ {s} : [rxConns EXCEPT ![s][1] = @ - T][r] = rxConns[r]
<1>1. rxConns[s] \in Seq(Nat) /\ rxConns[s] # <<>>
  BY DEF Readable, HasSymbol
<1>2. 1 \in 1 .. Len(rxConns[s]) /\ rxConns[s][1] = Head(rxConns[s])
  BY <1>1
<1>3. rxConns[s][1] \in Nat /\ rxConns[s][1] >= T
  BY <1>1, <1>2 DEF Readable, HasSymbol
<1>4. rxConns[s][1] - T \in Nat
  BY <1>3, ParamAssumption
<1>5. [rxConns[s] EXCEPT ![1] = @ - T] \in Seq(Nat)
  BY <1>1, <1>2, <1>4, ExceptSeq
<1> QED
  BY <1>5

LEMMA RoundRobinInit == EncInit => RoundRobinInv
<1> SUFFICES ASSUME EncInit PROVE RoundRobinInv
  OBVIOUS
<1>1. Slots \subseteq Nat /\ 0 \in Slots /\ 0 \in 0 .. N - 1
  BY ParamAssumption DEF Slots
<1>2. EncTypeOK
  BY <1>1, ParamAssumption
  DEF EncInit, EncTypeOK, NoSymbols, Rx!ProxyInit, Rx!ProxyTypeOK, Rx!Idle, Rx!NotConnected
<1>3. \A s \in Slots : passedOver[s] = 0 /\ rxConns[s] = <<>>
  BY DEF EncInit, NoSymbols, Rx!ProxyInit, Rx!Idle
<1>4. \A s \in Slots : ~Readable(s)
  BY <1>3 DEF Readable, HasSymbol
<1>5. RoundRobin
  BY <1>3, ParamAssumption DEF RoundRobin
<1> QED
  BY <1>2, <1>3, <1>4, <1>5 DEF RoundRobinInv

(* Sending a packet keeps the block position within the block.             *)
LEMMA NextEsiType ==
    ASSUME EncTypeOK, NEW counts \in [Slots -> Nat], NextEsi(counts)
    PROVE  /\ encTxTotal' \in Nat
           /\ encSbid' \in Nat
           /\ esi' \in 0 .. N - 1
           /\ symbcounts' \in [Slots -> Nat]
<1>1. PacketSize \in Nat
  BY ParamAssumption DEF PacketSize
<1> QED
  BY <1>1, ParamAssumption DEF NextEsi, EncTypeOK, NoSymbols

LEMMA SendSourceStep ==
    ASSUME RoundRobinInv, NEW s \in Slots, SendSource(s)
    PROVE  RoundRobinInv'
<1> USE DEF RoundRobinInv
<1>1. /\ Readable(s)
      /\ \A r \in Slots : Readable(r) => ProbeDist(s) <= ProbeDist(r)
  BY DEF SendSource, ChosenSlot
<1>2. encRun' = encRun /\ encRun \in {"init", "running"}
  BY <1>1 DEF SendSource, Readable, HasSymbol, EncTypeOK, Rx!ProxyTypeOK
<1>3. /\ rxConns' \in [Slots -> Seq(Nat)]
      /\ \A r \in Slots \ {s} : rxConns'[r] = rxConns[r]
  BY <1>1, ReadType DEF SendSource, EncTypeOK, Rx!ProxyTypeOK
<1>4. nextRxSlot' = AfterSlot(s) /\ nextRxSlot' \in Slots
  BY AfterSlotType DEF SendSource
<1>5. \A r \in Slots : passedOver[r] \in Nat
  BY DEF EncTypeOK
<1>6. \A r \in Slots : passedOver'[r] = IF r = s \/ ~Readable(r) THEN 0 ELSE passedOver[r] + 1
  BY DEF SendSource
<1>7. nextRxSlot \in Slots
  BY DEF EncTypeOK
<1>8. EncTypeOK'
  <2>1. [symbcounts EXCEPT ![s] = @ + 1] \in [Slots -> Nat]
    BY DEF EncTypeOK
  <2>2. /\ encTxTotal' \in Nat
        /\ encSbid' \in Nat
        /\ esi' \in 0 .. N - 1
        /\ symbcounts' \in [Slots -> Nat]
    BY <2>1, NextEsiType DEF SendSource
  <2>3. rxTotal' \in [Slots -> Nat]
    BY ParamAssumption DEF SendSource, EncTypeOK
  <2>4. passedOver' \in [Slots -> Nat]
    BY <1>5 DEF SendSource
  <2>5. Rx!ProxyTypeOK'
    BY <1>2, <1>3 DEF EncTypeOK, Rx!ProxyTypeOK
  <2> QED
    BY <2>2, <2>3, <2>4, <2>5, <1>4 DEF EncTypeOK
<1>9. \A r \in Slots \ {s} : HasSymbol(rxConns'[r]) <=> Readable(r)
  BY <1>3 DEF Readable
<1>10. \A r \in Slots :
          /\ HasSymbol(rxConns'[r]) => passedOver'[r] + DistFrom(nextRxSlot', r) < NSlots
          /\ ~HasSymbol(rxConns'[r]) => passedOver'[r] = 0
  <2> SUFFICES ASSUME NEW r \in Slots
               PROVE  /\ HasSymbol(rxConns'[r]) =>
                            passedOver'[r] + DistFrom(nextRxSlot', r) < NSlots
                      /\ ~HasSymbol(rxConns'[r]) => passedOver'[r] = 0
    OBVIOUS
  <2>1. CASE r = s
    <3>1. DistFrom(nextRxSlot', r) < NSlots /\ DistFrom(nextRxSlot', r) \in Nat
      BY <1>4, DistFromType
    <3>2. passedOver'[r] = 0
      BY <2>1, <1>6
    <3> QED
      BY <3>1, <3>2
  <2>2. CASE r # s /\ Readable(r)
    <3>1. ProbeDist(s) <= ProbeDist(r)
      BY <2>2, <1>1
    <3>2. DistFrom(nextRxSlot', r) = ProbeDist(r) - ProbeDist(s) - 1
      BY <2>2, <3>1, <1>4, <1>7, DistFromNext DEF ProbeDist
    <3>3. passedOver[r] + ProbeDist(r) < NSlots
      BY <2>2, <1>2
    <3>4. passedOver'[r] = passedOver[r] + 1
      BY <2>2, <1>6
    <3>5. ProbeDist(s) \in Nat /\ ProbeDist(r) \in Nat
      BY <1>7, DistFromType DEF ProbeDist
    <3>6. passedOver'[r] + DistFrom(nextRxSlot', r) < NSlots
      BY <3>2, <3>3, <3>4, <3>5, <1>5, ParamAssumption
    <3> QED
      BY <3>6, <2>2, <1>9
  <2>3. CASE r # s /\ ~Readable(r)
    BY <2>3, <1>6, <1>9
  <2> QED
    BY <2>1, <2>2, <2>3
<1>11. RoundRobin'
  <2> SUFFICES ASSUME NEW r \in Slots PROVE passedOver'[r] < NSlots
    BY DEF RoundRobin
  <2>1. passedOver'[r] \in Nat
    BY <1>8 DEF EncTypeOK
  <2>2. DistFrom(nextRxSlot', r) \in Nat
    BY <1>4, DistFromType
  <2> QED
    BY <2>1, <2>2, <1>10, ParamAssumption
<1> QED
  BY <1>2, <1>8, <1>10, <1>11 DEF Readable, ProbeDist

(* Repair packets touch neither the slots nor the sockets.                 *)
LEMMA SendRepairStep ==
    ASSUME RoundRobinInv, SendRepair \/ SendRepairAfterStop
    PROVE  RoundRobinInv'
<1> USE DEF RoundRobinInv
<1>1. UNCHANGED <<rxConns, rxTotal, nextRxSlot, passedOver>>
  BY DEF SendRepair, SendRepairAfterStop, Rx!Abort
<1>2. CASE SendRepair
  <2>1. /\ encTxTotal' \in Nat
        /\ encSbid' \in Nat
        /\ esi' \in 0 .. N - 1
        /\ symbcounts' \in [Slots -> Nat]
    <3>1. symbcounts \in [Slots -> Nat] /\ NextEsi(symbcounts)
      BY <1>2 DEF SendRepair, EncTypeOK
    <3> QED
      BY <3>1, NextEsiType
  <2>2. encRun' = encRun
    BY <1>2 DEF SendRepair
  <2>3. EncTypeOK'
    BY <1>1, <2>1, <2>2 DEF EncTypeOK, Rx!ProxyTypeOK
  <2> QED
    BY <1>1, <2>2, <2>3 DEF RoundRobin, Readable, ProbeDist
<1>3. CASE SendRepairAfterStop
  <2>1. encRun = "stopped" /\ encRun' = "aborted"
    BY <1>3 DEF SendRepairAfterStop, Rx!Abort
  <2>2. UNCHANGED <<encTxTotal, encSbid, esi, symbcounts>>
    BY <1>3 DEF SendRepairAfterStop
  <2>3. EncTypeOK'
    BY <1>1, <2>1, <2>2 DEF EncTypeOK, Rx!ProxyTypeOK
  <2> QED
    BY <1>1, <2>1, <2>3 DEF RoundRobin
<1> QED
  BY <1>2, <1>3

(* A new connection has nothing to read yet.                               *)
LEMMA AcceptStep ==
    ASSUME RoundRobinInv, NEW s \in Slots, EncAccept(s)
    PROVE  RoundRobinInv'
<1> USE DEF RoundRobinInv
<1>1. /\ encRun = "running" /\ encRun' = "running"
      /\ rxConns' = [rxConns EXCEPT ![s] = Append(@, 0)]
      /\ UNCHANGED <<rxTotal, encTxTotal, nextRxSlot, encSbid, esi, symbcounts, passedOver>>
  BY DEF EncAccept, EncProxyStep, Rx!HandleAccept
<1>2. rxConns \in [Slots -> Seq(Nat)] /\ rxConns[s] \in Seq(Nat)
  BY DEF EncTypeOK, Rx!ProxyTypeOK
<1>3. Append(rxConns[s], 0) \in Seq(Nat)
  BY <1>2
<1>4. EncTypeOK'
  BY <1>1, <1>2, <1>3 DEF EncTypeOK, Rx!ProxyTypeOK
<1>5. HasSymbol(rxConns'[s]) <=> HasSymbol(rxConns[s])
  <2>1. rxConns'[s] = Append(rxConns[s], 0)
    BY <1>1, <1>2
  <2>2. rxConns'[s] # <<>> /\ Head(rxConns'[s]) = IF rxConns[s] = <<>> THEN 0 ELSE Head(rxConns[s])
    BY <1>2, <2>1
  <2> QED
    BY <2>2, ParamAssumption DEF HasSymbol
<1>6. \A r \in Slots : HasSymbol(rxConns'[r]) <=> Readable(r)
  BY <1>1, <1>2, <1>5 DEF Readable
<1> QED
  BY <1>1, <1>4, <1>6 DEF RoundRobin, Readable, ProbeDist

(* A slot that becomes readable begins with passedOver = 0.                *)
LEMMA PeerDataStep ==
    ASSUME RoundRobinInv, NEW s \in Slots, NEW i \in DOMAIN rxConns[s],
           NEW n \in 1 .. T, EncPeerData(s, i, n)
    PROVE  RoundRobinInv'
<1> USE DEF RoundRobinInv
<1>1. /\ encRun = "running" /\ encRun' = "running"
      /\ i \in 1 .. Len(rxConns[s])
      /\ rxConns' = [rxConns EXCEPT ![s][i] = @ + n]
      /\ UNCHANGED <<rxTotal, encTxTotal, nextRxSlot, encSbid, esi, symbcounts, passedOver>>
  BY DEF EncPeerData, EncProxyStep, Rx!PeerData
<1>2. rxConns \in [Slots -> Seq(Nat)] /\ rxConns[s] \in Seq(Nat)
  BY DEF EncTypeOK, Rx!ProxyTypeOK
<1>3. rxConns[s][i] \in Nat /\ rxConns[s][i] + n \in Nat
  BY <1>1, <1>2, ParamAssumption
<1>4. [rxConns[s] EXCEPT ![i] = @ + n] \in Seq(Nat)
  BY <1>1, <1>2, <1>3, ExceptSeq
<1>5. EncTypeOK'
  BY <1>1, <1>2, <1>4 DEF EncTypeOK, Rx!ProxyTypeOK
<1>6. Readable(s) => HasSymbol(rxConns'[s])
  <2> SUFFICES ASSUME Readable(s) PROVE HasSymbol(rxConns'[s])
    OBVIOUS
  <2>1. rxConns[s] # <<>> /\ Head(rxConns[s]) >= T /\ Head(rxConns[s]) = rxConns[s][1]
    BY <1>2 DEF Readable, HasSymbol
  <2>2. rxConns'[s] = [rxConns[s] EXCEPT ![i] = rxConns[s][i] + n]
    BY <1>1, <1>2
  <2>3. /\ Len(rxConns'[s]) = Len(rxConns[s])
        /\ \A j \in 1 .. Len(rxConns[s]) :
              rxConns'[s][j] = IF j = i THEN rxConns[s][i] + n ELSE rxConns[s][j]
    BY <1>1, <1>2, <1>3, <2>2, ExceptSeq
  <2>4. rxConns'[s] \in Seq(Nat)
    BY <1>2, <1>4, <2>2
  <2>5. 1 \in 1 .. Len(rxConns[s]) /\ rxConns[s][1] \in Nat
    BY <2>1, <1>2
  <2>6. rxConns'[s] # <<>> /\ Head(rxConns'[s]) = rxConns'[s][1]
    BY <2>3, <2>4, <2>5
  <2>7. rxConns'[s][1] >= T
    BY <2>1, <2>3, <2>5, <1>3, ParamAssumption
  <2> QED
    BY <2>6, <2>7 DEF HasSymbol
<1>7. \A r \in Slots \ {s} : HasSymbol(rxConns'[r]) <=> Readable(r)
  BY <1>1, <1>2 DEF Readable
<1>8. \A r \in Slots :
          /\ HasSymbol(rxConns'[r]) => passedOver'[r] + DistFrom(nextRxSlot', r) < NSlots
          /\ ~HasSymbol(rxConns'[r]) => passedOver'[r] = 0
  <2> SUFFICES ASSUME NEW r \in Slots
               PROVE  /\ HasSymbol(rxConns'[r]) =>
                            passedOver'[r] + DistFrom(nextRxSlot', r) < NSlots
                      /\ ~HasSymbol(rxConns'[r]) => passedOver'[r] = 0
    OBVIOUS
  <2>1. CASE Readable(r)
    BY <2>1, <1>1, <1>6, <1>7 DEF ProbeDist
  <2>2. CASE ~Readable(r)
    <3>1. passedOver'[r] = 0
      BY <2>2, <1>1
    <3>2. DistFrom(nextRxSlot', r) \in Nat /\ DistFrom(nextRxSlot', r) < NSlots
      BY <1>5, DistFromType DEF EncTypeOK
    <3> QED
      BY <3>1, <3>2
  <2> QED
    BY <2>1, <2>2
<1> QED
  BY <1>1, <1>5, <1>8 DEF RoundRobin, Readable, ProbeDist

LEMMA StartStopStep ==
    ASSUME RoundRobinInv, EncStart \/ EncStop
    PROVE  RoundRobinInv'
<1> USE DEF RoundRobinInv
<1>1. UNCHANGED <<rxTotal, encTxTotal, nextRxSlot, encSbid, esi, symbcounts, passedOver>>
  BY DEF EncStart, EncStop, EncProxyStep
<1>2. CASE EncStart
  <2>1. encRun = "init" /\ encRun' = "running" /\ rxConns' = rxConns
    BY <1>2 DEF EncStart, EncProxyStep, Rx!StartApplication
  <2>2. EncTypeOK'
    BY <1>1, <2>1 DEF EncTypeOK, Rx!ProxyTypeOK
  <2> QED
    BY <1>1, <2>1, <2>2 DEF RoundRobin, Readable, ProbeDist
<1>3. CASE EncStop
  <2>1. encRun' = "stopped" /\ rxConns' = [s \in Slots |-> <<>>]
    BY <1>3 DEF EncStop, EncProxyStep, Rx!StopApplication, Rx!Idle
  <2>2. EncTypeOK'
    BY <1>1, <2>1 DEF EncTypeOK, Rx!ProxyTypeOK
  <2> QED
    BY <1>1, <2>1, <2>2 DEF RoundRobin
<1> QED
  BY <1>2, <1>3

LEMMA RoundRobinNext == RoundRobinInv /\ [EncNext]_encVars => RoundRobinInv'
<1> SUFFICES ASSUME RoundRobinInv, EncNext \/ UNCHANGED encVars
             PROVE  RoundRobinInv'
  OBVIOUS
<1>1. CASE EncStart \/ EncStop
  BY <1>1, StartStopStep
<1>2. ASSUME NEW s \in Slots, EncAccept(s) PROVE RoundRobinInv'
  BY <1>2, AcceptStep
<1>3. ASSUME NEW s \in Slots, NEW i \in DOMAIN rxConns[s], NEW n \in 1 .. T, EncPeerData(s, i, n)
      PROVE  RoundRobinInv'
  BY <1>3, PeerDataStep
<1>4. CASE SendPacket
  BY <1>4, SendSourceStep, SendRepairStep DEF SendPacket
<1>5. CASE UNCHANGED encVars
  BY <1>5 DEF encVars, RoundRobinInv, EncTypeOK, Rx!ProxyTypeOK, RoundRobin, Readable, ProbeDist
<1> QED
  BY <1>1, <1>2, <1>3, <1>4, <1>5 DEF EncNext

(* For every K, N and T and every number of streams, the encoder's state   *)
(* is well typed (RqEncoder::SendPacket never leaves its arrays or blocks) *)
THEOREM EncTypeCorrect == EncSpec => []EncTypeOK
<1>1. RoundRobinInv => EncTypeOK
  BY DEF RoundRobinInv
<1>2. [AloneNext]_<<encVars, linkVars>> => [EncNext]_encVars
  BY DEF AloneNext, LinkDrop, encVars
<1> QED
  BY <1>1, <1>2, RoundRobinInit, RoundRobinNext, PTL DEF EncSpec, AloneInit

(* ... and a stream with data waits for at most one symbol of each other   *)
(* stream (the probe of RqEncoder::SendPacket).                            *)
THEOREM RoundRobinCorrect == EncSpec => []RoundRobin
<1>1. RoundRobinInv => RoundRobin
  BY DEF RoundRobinInv
<1>2. [AloneNext]_<<encVars, linkVars>> => [EncNext]_encVars
  BY DEF AloneNext, LinkDrop, encVars
<1> QED
  BY <1>1, <1>2, RoundRobinInit, RoundRobinNext, PTL DEF EncSpec, AloneInit

(* One more symbol of a stream is one more symbol counted (m_symbcounts in *)
(* RqEncoder::SendPacket); none is counted when a block begins.            *)
LEMMA CountedNone == Counted(NoSymbols) = {}
<1>1. \A s \in Slots : 1 .. NoSymbols[s] = {}
  BY DEF NoSymbols
<1> QED
  BY <1>1 DEF Counted

LEMMA CountedOneMore ==
    ASSUME NEW counts \in [Slots -> Nat], NEW s \in Slots
    PROVE  /\ Counted([counts EXCEPT ![s] = @ + 1])
                = Counted(counts) \cup {<<s, counts[s] + 1>>}
           /\ <<s, counts[s] + 1>> \notin Counted(counts)
<1> DEFINE more == [counts EXCEPT ![s] = @ + 1]
<1>1. ASSUME NEW c \in [Slots -> Nat], NEW x
      PROVE  x \in Counted(c) <=> \E r \in Slots : \E i \in 1 .. c[r] : x = <<r, i>>
  BY DEF Counted
<1>2. more \in [Slots -> Nat]
  OBVIOUS
<1>3. \A r \in Slots : more[r] = IF r = s THEN counts[s] + 1 ELSE counts[r]
  OBVIOUS
<1>4. counts[s] \in Nat
  OBVIOUS
<1>5. 1 .. counts[s] + 1 = (1 .. counts[s]) \cup {counts[s] + 1}
  BY <1>4
<1>6. \A x : x \in Counted(more) <=> x \in Counted(counts) \cup {<<s, counts[s] + 1>>}
  <2> TAKE x
  <2> HIDE DEF more
  <2>1. ASSUME x \in Counted(more) PROVE x \in Counted(counts) \cup {<<s, counts[s] + 1>>}
    <3>1. PICK r \in Slots : \E i \in 1 .. more[r] : x = <<r, i>>
      BY <2>1, <1>1, <1>2
    <3>2. PICK i \in 1 .. more[r] : x = <<r, i>>
      BY <3>1
    <3>3. i \in 1 .. counts[r] \/ (r = s /\ i = counts[s] + 1)
      BY <3>2, <1>3, <1>5
    <3> QED
      BY <3>2, <3>3, <1>1
  <2>2. ASSUME x \in Counted(counts) PROVE x \in Counted(more)
    <3>1. PICK r \in Slots : \E i \in 1 .. counts[r] : x = <<r, i>>
      BY <2>2, <1>1
    <3>2. PICK i \in 1 .. counts[r] : x = <<r, i>>
      BY <3>1
    <3>3. i \in 1 .. more[r]
      BY <3>2, <1>3, <1>5
    <3> QED
      BY <3>2, <3>3, <1>1, <1>2
  <2>3. ASSUME x = <<s, counts[s] + 1>> PROVE x \in Counted(more)
    <3>1. counts[s] + 1 \in 1 .. more[s]
      BY <1>3, <1>4
    <3> QED
      BY <2>3, <3>1, <1>1, <1>2
  <2> QED
    BY <2>1, <2>2, <2>3
<1>7. <<s, counts[s] + 1>> \notin Counted(counts)
  <2> SUFFICES ASSUME <<s, counts[s] + 1>> \in Counted(counts) PROVE FALSE
    OBVIOUS
  <2>1. PICK r \in Slots : \E i \in 1 .. counts[r] : <<s, counts[s] + 1>> = <<r, i>>
    BY <1>1
  <2>2. counts[s] + 1 \in 1 .. counts[s]
    BY <2>1
  <2> QED
    BY <2>2, <1>4
<1> QED
  BY <1>6, <1>7

(* What makes CountsMatchEsi inductive: the counted symbols are finite.    *)
CountedInv ==
    /\ RoundRobinInv
    /\ IsFiniteSet(Counted(symbcounts))
    /\ CountsMatchEsi

(* A packet of RqEncoder::SendPacket goes out with counters that already   *)
(* include it; the next block begins with none.                            *)
LEMMA NextEsiCounts ==
    ASSUME EncTypeOK, NEW counts, NextEsi(counts), IsFiniteSet(Counted(counts)),
           Cardinality(Counted(counts)) = IF esi < K THEN esi + 1 ELSE K
    PROVE  IsFiniteSet(Counted(symbcounts')) /\ CountsMatchEsi'
<1>1. esi \in Nat /\ K \in Nat \ {0}
  BY ParamAssumption DEF EncTypeOK
<1>2. CASE esi + 1 = N
  <2>1. Counted(symbcounts') = {} /\ esi' = 0
    BY <1>2, CountedNone DEF NextEsi
  <2>2. IsFiniteSet(Counted(symbcounts')) /\ Cardinality(Counted(symbcounts')) = 0
    BY <2>1, FS_EmptySet
  <2> QED
    BY <2>1, <2>2, <1>1 DEF CountsMatchEsi, Counted
<1>3. CASE esi + 1 # N
  <2>1. symbcounts' = counts /\ esi' = esi + 1
    BY <1>3 DEF NextEsi
  <2>2. Cardinality(Counted(symbcounts')) = IF esi' < K THEN esi' ELSE K
    <3> HIDE DEF Counted
    <3> QED BY <2>1, <1>1
  <2> QED
    BY <2>1, <2>2 DEF CountsMatchEsi, Counted
<1> QED
  BY <1>2, <1>3

LEMMA CountedInvInit == EncInit => CountedInv
<1> SUFFICES ASSUME EncInit PROVE CountedInv
  OBVIOUS
<1>1. Counted(symbcounts) = {} /\ esi = 0
  BY CountedNone DEF EncInit
<1>2. IsFiniteSet(Counted(symbcounts)) /\ Cardinality(Counted(symbcounts)) = 0
  BY <1>1, FS_EmptySet
<1> QED
  BY <1>1, <1>2, RoundRobinInit, ParamAssumption DEF CountedInv, CountsMatchEsi

LEMMA CountedInvNext == CountedInv /\ [EncNext]_encVars => CountedInv'
<1> SUFFICES ASSUME CountedInv, [EncNext]_encVars PROVE CountedInv'
  OBVIOUS
<1>1. RoundRobinInv'
  BY RoundRobinNext DEF CountedInv
<1>2. EncTypeOK /\ IsFiniteSet(Counted(symbcounts)) /\ CountsMatchEsi
  BY DEF CountedInv, RoundRobinInv
<1>3. ASSUME NEW s \in Slots, SendSource(s)
      PROVE  IsFiniteSet(Counted(symbcounts')) /\ CountsMatchEsi'
  <2> DEFINE counts == [symbcounts EXCEPT ![s] = @ + 1]
  <2>1. symbcounts \in [Slots -> Nat] /\ esi \in Nat
    BY <1>2, ParamAssumption DEF EncTypeOK
  <2>2. NextEsi(counts) /\ esi < K
    BY <1>3 DEF SendSource
  <2>3. IsFiniteSet(Counted(counts)) /\ Cardinality(Counted(counts)) = esi + 1
    <3>1. /\ Counted(counts) = Counted(symbcounts) \cup {<<s, symbcounts[s] + 1>>}
          /\ <<s, symbcounts[s] + 1>> \notin Counted(symbcounts)
      BY <2>1, CountedOneMore
    <3>2. Cardinality(Counted(symbcounts)) = esi
      BY <1>2, <2>2 DEF CountsMatchEsi
    <3> HIDE DEF counts
    <3> QED
      BY <3>1, <3>2, <1>2, FS_AddElement
  <2> HIDE DEF counts
  <2>4. Cardinality(Counted(counts)) = IF esi < K THEN esi + 1 ELSE K
    BY <2>2, <2>3
  <2> QED
    BY <1>2, <2>2, <2>3, <2>4, NextEsiCounts
<1>4. ASSUME SendRepair
      PROVE  IsFiniteSet(Counted(symbcounts')) /\ CountsMatchEsi'
  <2>1. NextEsi(symbcounts) /\ esi >= K
    BY <1>4 DEF SendRepair
  <2>2. esi \in Nat /\ K \in Nat
    BY <1>2, ParamAssumption DEF EncTypeOK
  <2>3. Cardinality(Counted(symbcounts)) = IF esi < K THEN esi + 1 ELSE K
    BY <1>2, <2>1, <2>2 DEF CountsMatchEsi
  <2> QED
    BY <1>2, <2>1, <2>3, NextEsiCounts
<1>5. CASE UNCHANGED <<symbcounts, esi>>
  BY <1>5, <1>1, <1>2 DEF CountedInv, CountsMatchEsi, Counted
<1>6. CASE SendPacket
  <2>1. SendRepairAfterStop => UNCHANGED <<symbcounts, esi>>
    BY DEF SendRepairAfterStop
  <2> QED
    BY <2>1, <1>6, <1>3, <1>4, <1>5, <1>1 DEF SendPacket, CountedInv
<1>7. EncNext => SendPacket \/ UNCHANGED <<symbcounts, esi>>
  BY DEF EncNext, EncStart, EncStop, EncAccept, EncPeerData, EncProxyStep
<1> QED
  BY <1>5, <1>6, <1>7 DEF encVars

(* ... and the counters of a packet's header account for the source        *)
(* symbols sent for its block, and for no others (m_symbcounts).           *)
THEOREM CountsMatchEsiCorrect == EncSpec => []CountsMatchEsi
<1>1. CountedInv => CountsMatchEsi
  BY DEF CountedInv
<1>2. [AloneNext]_<<encVars, linkVars>> => [EncNext]_encVars
  BY DEF AloneNext, LinkDrop, encVars
<1> QED
  BY <1>1, <1>2, CountedInvInit, CountedInvNext, PTL DEF EncSpec, AloneInit

-----------------------------------------------------------------------------
(* The relay. *)
(* An int holds every sequence number that is sent (HandleRead casts the   *)
(* 64 bit number to one): fewer than 2^31 packets.                         *)
NoOverflow == 2 * (N * MaxBlocks) <= IntMod

(* The sequence numbers of a set that belong to block b. *)
InBlock(ns, b) == {n \in ns : BlockOf(n) = b}

(* rxTotal at the end of every block begun, the current one as it is now.  *)
Ends == [b \in 0 .. encSbid |-> EndOf(b)]

(* Counters c of block b that claim no more than the bytes read for it,    *)
(* and those that claim them all.                                          *)
Fits(start, ends, b, c) == \A s \in Slots : start[b][s] + T * c[s] <= ends[b][s]
Full(start, ends, b, c) == \A s \in Slots : start[b][s] + T * c[s] = ends[b][s]

(* The types, and why nothing the decoder subtracts becomes negative.      *)
TypeInv ==
    /\ TypeOK
    /\ RoundRobinInv
    /\ \A s \in Slots : nsymbcontig[s] <= nsymb[s]

(* The encoder's counters account for the bytes it has read since the      *)
(* block began; blocks begin one after the other.                          *)
BlocksInv ==
    /\ encSbid <= MaxBlocks
    /\ startAt[0] = NoSymbols
    /\ \A s \in Slots : rxTotal[s] = startAt[encSbid][s] + T * symbcounts[s]
    /\ \A b, c \in 0 .. encSbid : b <= c =>
           \A s \in Slots : startAt[b][s] <= startAt[c][s]

(* A packet in flight was sent: its header claims no more than was read    *)
(* for its block, and from the K-th packet on exactly that.                *)
LinkInv ==
    /\ \A p \in link :
           /\ p.seqno < Seqno
           /\ p.seqno < N * MaxBlocks
           /\ BlockOf(p.seqno) <= encSbid
           /\ p.seqno % N >= K => p.streamid = NoStream
           /\ Fits(startAt, Ends, BlockOf(p.seqno), p.iseq)
           /\ p.seqno % N >= K - 1 => Full(startAt, Ends, BlockOf(p.seqno), p.iseq)
           /\ BlockOf(p.seqno) = encSbid => \A s \in Slots : p.iseq[s] <= symbcounts[s]
    /\ \A p, q \in link : p.seqno = q.seqno => p = q

(* The same for the counters that the decoder keeps of its block.          *)
CountInv ==
    /\ decSbid \in -1 .. encSbid
    /\ decSbid = -1 => counted = {}
    /\ decSbid >= 0 => \E n \in counted : BlockOf(n) = decSbid
    /\ \A n \in counted : n < Seqno /\ BlockOf(n) <= decSbid
    /\ decSbid >= 0 => Fits(startAt, Ends, decSbid, nsymb)
    /\ \A n \in counted : BlockOf(n) = decSbid /\ n % N >= K - 1 =>
           Full(startAt, Ends, decSbid, nsymb)
    /\ decSbid = encSbid => \A s \in Slots : nsymb[s] <= symbcounts[s]

(* Without duplicates m_sb_nrcv is the number of distinct packets.         *)
OnceInv ==
    /\ \A p \in link : p.seqno \notin counted
    /\ IsFiniteSet(counted)
    /\ nrcv = Cardinality(InBlock(counted, decSbid))

(* In order, every packet in flight is ahead of what the decoder knows,    *)
(* strictly so on its own stream unless it is a copy of the last one       *)
(* counted; and that one did not leave its stream one symbol short.        *)
OrderInv ==
    /\ \A p \in link, n \in counted : n <= p.seqno
    /\ \A p \in link : BlockOf(p.seqno) = decSbid =>
           /\ \A s \in Slots : nsymb[s] <= p.iseq[s]
           /\ p.streamid \in Slots =>
                  IF p.seqno \in counted
                  THEN /\ nsymb[p.streamid] = p.iseq[p.streamid]
                       /\ nsymbcontig[p.streamid] + 1 # nsymb[p.streamid]
                  ELSE nsymb[p.streamid] < p.iseq[p.streamid]
    /\ \A p, q \in link : BlockOf(p.seqno) = BlockOf(q.seqno) /\ p.seqno < q.seqno =>
           /\ \A s \in Slots : p.iseq[s] <= q.iseq[s]
           /\ q.streamid \in Slots => p.iseq[q.streamid] < q.iseq[q.streamid]

(* The bytes of stream s there was reason to pass on, up to block b.       *)
Passed(start, b, rcv, known, contig, s) ==
    IF b = -1 THEN 0 ELSE start[b][s] + T * (IF rcv >= K THEN known[s] ELSE contig[s])

PassedInv ==
    \A s \in Slots :
        txTotal[s] + nbuffered[s] <= Passed(startAt, decSbid, nrcv, nsymb, nsymbcontig, s)

(* Where every packet sent has gone, and how many of a block are lost.     *)
LossInv ==
    /\ \A n \in 0 .. Seqno - 1 : n \in counted \/ n \in lost \/ \E p \in link : p.seqno = n
    /\ IsFiniteSet(lost)
    /\ \A b \in Nat : Cardinality(InBlock(lost, b)) <= LossBudget

RecoverInv ==
    \A s \in Slots :
        txTotal[s] + nbuffered[s] = Passed(startAt, decSbid, nrcv, nsymb, nsymbcontig, s)

-----------------------------------------------------------------------------
(* Arithmetic: symbols and bytes, sequence numbers and blocks.             *)
LEMMA TimesT ==
    ASSUME NEW a \in Nat, NEW b \in Nat
    PROVE  /\ T * 0 = 0
           /\ T * a \in Nat
           /\ T * (a + 1) = T * a + T
           /\ T * (a + b) = T * a + T * b
           /\ a <= b <=> T * a <= T * b
BY ParamAssumption

LEMMA TimesN ==
    ASSUME NEW a \in Nat, NEW b \in Nat, a <= b
    PROVE  /\ N * a \in Nat
           /\ N * (a + 1) = N * a + N
           /\ N * a <= N * b
BY ParamAssumption

LEMMA BlockPosition ==
    ASSUME NEW n \in Nat
    PROVE  /\ BlockOf(n) \in Nat
           /\ n % N \in 0 .. N - 1
           /\ n = N * BlockOf(n) + (n % N)
BY ParamAssumption DEF BlockOf

LEMMA BlockOrder ==
    ASSUME NEW m \in Nat, NEW n \in Nat, m <= n
    PROVE  BlockOf(m) <= BlockOf(n)
<1> DEFINE a == BlockOf(m)
           b == BlockOf(n)
<1>1. /\ a \in Nat /\ m % N \in 0 .. N - 1 /\ m = N * a + (m % N)
      /\ b \in Nat /\ n % N \in 0 .. N - 1 /\ n = N * b + (n % N)
  BY BlockPosition
<1>2. ASSUME b + 1 <= a PROVE FALSE
  <2>1. N * (b + 1) <= N * a /\ N * (b + 1) = N * b + N
    BY <1>1, <1>2, TimesN
  <2>2. N * a \in Nat /\ N * b \in Nat /\ N \in Nat
    BY <1>1, ParamAssumption
  <2> HIDE DEF a, b
  <2> QED
    BY <1>1, <2>1, <2>2
<1> QED
  BY <1>1, <1>2

(* The sequence number at position i of block b is in block b.             *)
LEMMA SeqnoPosition ==
    ASSUME NEW b \in Nat, NEW i \in 0 .. N - 1
    PROVE  N * b + i \in Nat /\ BlockOf(N * b + i) = b /\ (N * b + i) % N = i
<1> DEFINE n == N * b + i
           c == BlockOf(n)
           r == n % N
<1>1. N \in Nat \ {0} /\ N * b \in Nat
  BY ParamAssumption
<1>2. n \in Nat
  BY <1>1
<1>3. c \in Nat /\ r \in 0 .. N - 1 /\ n = N * c + r
  BY <1>2, BlockPosition
<1>4. N * c \in Nat
  BY <1>1, <1>3
<1>5. ASSUME c + 1 <= b PROVE FALSE
  <2>1. N * (c + 1) <= N * b /\ N * (c + 1) = N * c + N
    BY <1>3, <1>5, TimesN
  <2> HIDE DEF c, r
  <2> QED
    BY <1>1, <1>3, <1>4, <2>1
<1>6. ASSUME b + 1 <= c PROVE FALSE
  <2>1. N * (b + 1) <= N * c /\ N * (b + 1) = N * b + N
    BY <1>3, <1>6, TimesN
  <2> HIDE DEF c, r
  <2> QED
    BY <1>1, <1>3, <1>4, <2>1
<1>7. c = b
  <2> HIDE DEF c
  <2> QED
    BY <1>3, <1>5, <1>6
<1>8. r = i
  <2>1. N * c = N * b
    BY <1>7
  <2> HIDE DEF c, r
  <2> QED
    BY <1>1, <1>3, <2>1
<1> QED
  BY <1>2, <1>7, <1>8

(* A sequence number below position i of block b is in an earlier block or *)
(* at an earlier position of that block.                                   *)
LEMMA BelowPosition ==
    ASSUME NEW n \in Nat, NEW b \in Nat, NEW i \in Nat, n < N * b + i
    PROVE  /\ i <= N => BlockOf(n) <= b
           /\ i = 0 => BlockOf(n) < b
           /\ BlockOf(n) = b => n % N < i
<1> DEFINE c == BlockOf(n)
           r == n % N
<1>1. N \in Nat \ {0} /\ N * b \in Nat
  BY ParamAssumption
<1>2. c \in Nat /\ r \in 0 .. N - 1 /\ n = N * c + r
  BY BlockPosition
<1>3. N * c \in Nat
  BY <1>1, <1>2
<1>4. ASSUME b + 1 <= c, i <= N PROVE FALSE
  <2>1. N * (b + 1) <= N * c /\ N * (b + 1) = N * b + N
    BY <1>2, <1>4, TimesN
  <2> HIDE DEF c, r
  <2> QED
    BY <1>1, <1>2, <1>3, <1>4, <2>1
<1>5. ASSUME c = b PROVE r < i
  <2>1. N * c = N * b
    BY <1>5
  <2> HIDE DEF c, r
  <2> QED
    BY <1>1, <1>2, <2>1
<1>6. i = 0 => c < b
  <2> HIDE DEF c, r
  <2> QED
    BY <1>1, <1>2, <1>4, <1>5
<1>7. i <= N => c <= b
  <2> HIDE DEF c, r
  <2> QED
    BY <1>2, <1>4
<1> QED
  BY <1>5, <1>6, <1>7

(* Without overflow the decoder takes a sequence number apart correctly.   *)
LEMMA HeaderDecoded ==
    ASSUME NEW p \in Packet, 2 * p.seqno < IntMod
    PROVE  SbidOf(p) = BlockOf(p.seqno) /\ EsiOf(p) = p.seqno % N
<1>1. p.seqno \in Nat /\ IntMod \in Nat \ {0} /\ p.seqno < IntMod
  BY ParamAssumption DEF Packet
<1>2. p.seqno % IntMod = p.seqno
  BY <1>1
<1>3. ToInt(p.seqno) = p.seqno
  BY <1>1, <1>2 DEF ToInt
<1> QED
  BY <1>1, <1>3 DEF SbidOf, EsiOf, CDiv, CMod, BlockOf

-----------------------------------------------------------------------------
(* Types.  The decoder's subtractions keep its counters natural numbers:   *)
(* the gap-free symbols of a stream are no more than the known ones, and   *)
(* TryToSend takes no more than is buffered or than the socket holds.      *)
LEMMA SbidType ==
    ASSUME NEW p \in Packet
    PROVE  SbidOf(p) \in Int /\ EsiOf(p) \in Int
<1>1. p.seqno \in Nat /\ IntMod \in Nat \ {0} /\ N \in Nat \ {0}
  BY ParamAssumption DEF Packet
<1>2. ToInt(p.seqno) \in Int
  <2>1. p.seqno % IntMod \in 0 .. IntMod - 1
    BY <1>1
  <2> QED
    BY <1>1, <2>1 DEF ToInt
<1>3. \A a \in Int : CDiv(a, N) \in Int /\ CMod(a, N) \in Int
  BY <1>1 DEF CDiv, CMod
<1> QED
  BY <1>2, <1>3 DEF SbidOf, EsiOf

LEMMA CounterTypes ==
    ASSUME TypeInv, NEW p \in Packet
    PROVE  /\ SymbAfter(p) \in [Slots -> Nat]
           /\ ContigBefore(p) \in [Slots -> Nat]
           /\ ContigAfter(p) \in [Slots -> Nat]
           /\ \A s \in Slots : ContigAfter(p)[s] <= SymbAfter(p)[s]
           /\ RcvAfter(p) \in Nat
           /\ SrcRcvAfter(p) \in Nat
<1>1. /\ nsymb \in [Slots -> Nat] /\ nsymbcontig \in [Slots -> Nat]
      /\ nrcv \in Nat /\ nsrcrcv \in Nat
      /\ \A s \in Slots : nsymbcontig[s] <= nsymb[s]
  BY DEF TypeInv, TypeOK, DecTypeOK
<1>2. p.iseq \in [Slots -> Nat] /\ p.streamid \in Slots \cup {NoStream}
  BY DEF Packet
<1>3. SymbAfter(p) \in [Slots -> Nat]
  BY <1>1, <1>2 DEF SymbAfter, LargerOf
<1>4. ContigBefore(p) \in [Slots -> Nat]
  BY <1>1 DEF ContigBefore, NoSymbols
<1>5. \A s \in Slots : ContigBefore(p)[s] <= SymbAfter(p)[s]
  BY <1>1, <1>2 DEF SymbAfter, ContigBefore, LargerOf, NoSymbols
<1>6. CASE InOrder(p)
  <2>1. p.streamid \in Slots /\ ContigBefore(p)[p.streamid] + 1 = SymbAfter(p)[p.streamid]
    BY <1>2, <1>6 DEF InOrder
  <2>2. ContigAfter(p) = [ContigBefore(p) EXCEPT ![p.streamid] = @ + 1]
    BY <1>6 DEF ContigAfter
  <2>3. ContigAfter(p) \in [Slots -> Nat]
    BY <2>1, <2>2, <1>4
  <2>4. \A s \in Slots : ContigAfter(p)[s] <= SymbAfter(p)[s]
    BY <2>1, <2>2, <1>3, <1>4, <1>5
  <2> QED
    BY <2>3, <2>4, <1>1, <1>3, <1>4, ParamAssumption DEF RcvAfter, SrcRcvAfter
<1>7. CASE ~InOrder(p)
  <2>1. ContigAfter(p) = ContigBefore(p)
    BY <1>7 DEF ContigAfter
  <2> QED
    BY <2>1, <1>1, <1>3, <1>4, <1>5, ParamAssumption DEF RcvAfter, SrcRcvAfter
<1> QED
  BY <1>6, <1>7

LEMMA PassedOnType ==
    ASSUME TypeInv, NEW p \in Packet, NEW s \in Slots
    PROVE  HeldBack(p, s) \in Nat /\ PassedOn(p, s) \in Nat
<1>1. HeldBack(p, s) \in Nat
  <2>1. /\ SymbAfter(p)[s] \in Nat /\ ContigAfter(p)[s] \in Nat
        /\ ContigAfter(p)[s] <= SymbAfter(p)[s]
    BY CounterTypes
  <2> QED
    BY <2>1 DEF HeldBack
<1> QED
  BY <1>1, TimesT, ParamAssumption DEF PassedOn

LEMMA SendableType ==
    ASSUME TypeInv, NEW s \in Slots, NEW room \in Nat
    PROVE  /\ Sendable(s, room) \in Nat
           /\ Sendable(s, room) <= room
           /\ Sendable(s, room) <= nbuffered[s]
BY DEF TypeInv, TypeOK, DecTypeOK, Sendable

DecTyped == DecTypeOK /\ \A s \in Slots : nsymbcontig[s] <= nsymb[s]

LEMMA RecvPacketType ==
    ASSUME TypeInv, NEW p \in link, RecvPacket(p)
    PROVE  DecTyped'
<1> USE DEF DecTyped
<1>1. p \in Packet
  BY DEF TypeInv, TypeOK, LinkTypeOK
<1>2. /\ decRun' = decRun /\ connected' = connected /\ txRoom' = txRoom
      /\ txTotal' = txTotal /\ reading' = TRUE
  BY DEF RecvPacket
<1>3. CASE CountPacket(p)
  <2>1. /\ decSbid' \in Int /\ nrcv' \in Nat /\ nsrcrcv' \in Nat
        /\ nsymb' \in [Slots -> Nat] /\ nsymbcontig' \in [Slots -> Nat]
        /\ \A s \in Slots : nsymbcontig'[s] <= nsymb'[s]
    BY <1>1, <1>3, SbidType, CounterTypes DEF CountPacket
  <2>2. \A s \in Slots : nbuffered[s] + PassedOn(p, s) \in Nat
    BY <1>1, PassedOnType DEF TypeInv, TypeOK, DecTypeOK
  <2>3. nbuffered' \in [Slots -> Nat]
    BY <1>3, <2>2 DEF CountPacket
  <2> QED
    BY <1>2, <2>1, <2>3 DEF TypeInv, TypeOK, DecTypeOK, Tx!ProxyTypeOK
<1>4. CASE DropStale(p)
  BY <1>2, <1>4 DEF TypeInv, TypeOK, DecTypeOK, Tx!ProxyTypeOK, DropStale, blockVars
<1> QED
  BY <1>3, <1>4 DEF RecvPacket

LEMMA DecEventType ==
    ASSUME TypeInv, DecEvent
    PROVE  DecTyped'
<1> USE DEF DecTyped
<1>0. /\ DecTypeOK
      /\ \A s \in Slots : nsymbcontig[s] <= nsymb[s]
      /\ txRoom \in [Slots -> 0 .. TxBuf] /\ TxBuf \in Nat
      /\ txTotal \in [Slots -> Nat] /\ nbuffered \in [Slots -> Nat]
  BY DecAssumption DEF TypeInv, TypeOK, DecTypeOK
<1>1. CASE DecStart \/ DecStop \/ \E s \in Slots : DecConnected(s)
  <2>1. /\ decRun' \in {"running", "stopped"}
        /\ connected' \in [Slots -> BOOLEAN]
        /\ UNCHANGED <<txRoom, txTotal, blockVars, nbuffered, reading>>
    BY <1>0, <1>1 DEF DecStart, DecStop, DecConnected, DecProxyStep, Tx!StartApplication,
       Tx!StopApplication, Tx!ConnectionSucceeded, DecTypeOK, Tx!ProxyTypeOK
  <2> QED
    BY <2>1, <1>0 DEF DecTypeOK, Tx!ProxyTypeOK, blockVars
<1>2. CASE \E s \in Slots : HandleSendRefused(s)
  <2>1. decRun' = "aborted" /\ UNCHANGED <<connected, txRoom, txTotal, blockVars, nbuffered, reading>>
    BY <1>2 DEF HandleSendRefused, Tx!Abort
  <2> QED
    BY <2>1, <1>0 DEF DecTypeOK, Tx!ProxyTypeOK, blockVars
<1>3. CASE EndRead
  <2>1. \A s \in Slots :
            /\ nbuffered[s] - Sendable(s, txRoom[s]) \in Nat
            /\ txTotal[s] + Sendable(s, txRoom[s]) \in Nat
            /\ txRoom[s] - Sendable(s, txRoom[s]) \in 0 .. TxBuf
    <3> SUFFICES ASSUME NEW s \in Slots
                 PROVE  /\ nbuffered[s] - Sendable(s, txRoom[s]) \in Nat
                        /\ txTotal[s] + Sendable(s, txRoom[s]) \in Nat
                        /\ txRoom[s] - Sendable(s, txRoom[s]) \in 0 .. TxBuf
      OBVIOUS
    <3>1. txRoom[s] \in 0 .. TxBuf /\ txTotal[s] \in Nat /\ nbuffered[s] \in Nat
      BY <1>0
    <3>2. /\ Sendable(s, txRoom[s]) \in Nat
          /\ Sendable(s, txRoom[s]) <= txRoom[s]
          /\ Sendable(s, txRoom[s]) <= nbuffered[s]
      BY <3>1, <1>0, SendableType
    <3> QED
      BY <3>1, <3>2, <1>0
  <2>2. /\ nbuffered' \in [Slots -> Nat] /\ txTotal' \in [Slots -> Nat]
        /\ txRoom' \in [Slots -> 0 .. TxBuf]
    BY <1>3, <2>1 DEF EndRead
  <2>3. reading' = FALSE /\ UNCHANGED <<decRun, connected, blockVars>>
    BY <1>3 DEF EndRead
  <2> QED
    BY <2>2, <2>3, <1>0 DEF DecTypeOK, Tx!ProxyTypeOK, blockVars
<1>4. ASSUME NEW s \in Slots, NEW freed \in 0 .. TxBuf, HandleSend(s, freed) PROVE DecTyped'
  <2> DEFINE amount == Sendable(s, txRoom[s] + freed)
  <2>1. txRoom[s] \in 0 .. TxBuf /\ txRoom[s] + freed \in Nat /\ txRoom[s] + freed <= TxBuf
    BY <1>0, <1>4 DEF HandleSend
  <2>2. amount \in Nat /\ amount <= txRoom[s] + freed /\ amount <= nbuffered[s]
    BY <2>1, SendableType
  <2>3. /\ nbuffered' = [nbuffered EXCEPT ![s] = @ - amount]
        /\ txTotal' = [txTotal EXCEPT ![s] = @ + amount]
        /\ txRoom' = [txRoom EXCEPT ![s] = @ + freed - amount]
        /\ UNCHANGED <<decRun, connected, blockVars, reading>>
    BY <1>4 DEF HandleSend
  <2> HIDE DEF amount
  <2>4. nbuffered[s] - amount \in Nat /\ txTotal[s] + amount \in Nat
    BY <2>2, <1>0
  <2>5. txRoom[s] + freed - amount \in 0 .. TxBuf
    BY <2>1, <2>2, <1>0
  <2>6. /\ nbuffered' \in [Slots -> Nat] /\ txTotal' \in [Slots -> Nat]
        /\ txRoom' \in [Slots -> 0 .. TxBuf]
    BY <2>3, <2>4, <2>5, <1>0
  <2> QED
    BY <2>3, <2>6, <1>0 DEF DecTypeOK, Tx!ProxyTypeOK, blockVars
<1> QED
  BY <1>1, <1>2, <1>3, <1>4 DEF DecEvent

LEMMA HeaderType ==
    ASSUME TypeInv, NEW sid \in Slots \cup {NoStream}, NEW counts \in [Slots -> Nat]
    PROVE  Seqno \in Nat /\ Header(Seqno, sid, counts) \in Packet
<1>1. Seqno \in Nat
  <2>1. N * encSbid \in Nat
    BY TimesN DEF TypeInv, TypeOK, EncTypeOK
  <2> QED
    BY <2>1 DEF TypeInv, TypeOK, EncTypeOK, Seqno
<1> QED
  BY <1>1 DEF Header, Packet

(* The packet that a step of the encoder sends, if it sends one.           *)
PacketSent(sid, counts) ==
    /\ encSbid < MaxBlocks
    /\ Send(Header(Seqno, sid, counts))
    /\ NextEsi(counts)
    /\ sid = NoStream => esi >= K /\ counts = symbcounts /\ rxTotal' = rxTotal
    /\ sid \in Slots =>
           /\ esi < K
           /\ counts = [symbcounts EXCEPT ![sid] = @ + 1]
           /\ rxTotal' = [rxTotal EXCEPT ![sid] = @ + T]

LEMMA EncoderStep ==
    ASSUME TypeInv, EncNext
    PROVE  \/ \E sid \in Slots \cup {NoStream}, counts \in [Slots -> Nat] :
                  PacketSent(sid, counts)
           \/ UNCHANGED <<rxTotal, encSbid, esi, symbcounts, linkVars>>
<1>1. symbcounts \in [Slots -> Nat]
  BY DEF TypeInv, TypeOK, EncTypeOK
<1>2. CASE EncStart \/ EncStop \/ \E s \in Slots : EncAccept(s)
  BY <1>2 DEF EncStart, EncStop, EncAccept, EncProxyStep
<1>3. CASE \E s \in Slots : \E i \in DOMAIN rxConns[s], n \in 1 .. T : EncPeerData(s, i, n)
  BY <1>3 DEF EncPeerData, EncProxyStep
<1>4. CASE SendPacket
  <2>1. encSbid < MaxBlocks
    BY <1>4 DEF SendPacket
  <2>2. ASSUME NEW s \in Slots, SendSource(s)
        PROVE  \E sid \in Slots \cup {NoStream}, counts \in [Slots -> Nat] :
                   PacketSent(sid, counts)
    <3> DEFINE counts == [symbcounts EXCEPT ![s] = @ + 1]
    <3>1. counts \in [Slots -> Nat]
      BY <1>1
    <3>2. s # NoStream
      BY DEF Slots, NoStream
    <3>3. PacketSent(s, counts)
      BY <2>1, <2>2, <3>2 DEF PacketSent, SendSource
    <3> QED
      BY <3>1, <3>3
  <2>3. CASE SendRepair
    <3>1. NoStream \notin Slots
      BY DEF Slots, NoStream
    <3>2. PacketSent(NoStream, symbcounts)
      BY <2>1, <2>3, <3>1 DEF PacketSent, SendRepair
    <3> QED
      BY <1>1, <3>2
  <2>4. CASE SendRepairAfterStop
    BY <2>4 DEF SendRepairAfterStop
  <2> QED
    BY <1>4, <2>2, <2>3, <2>4 DEF SendPacket
<1> QED
  BY <1>2, <1>3, <1>4 DEF EncNext

LEMMA TypeInit == Init => TypeInv
<1> SUFFICES ASSUME Init PROVE TypeInv
  OBVIOUS
<1>1. RoundRobinInv
  BY RoundRobinInit DEF Init
<1>2. EncTypeOK
  BY <1>1 DEF RoundRobinInv
<1>3. DecTypeOK
  <2>1. Tx!ProxyTypeOK
    <3>1. [s \in Slots |-> <<>>] \in [Slots -> Seq(Nat)]
      OBVIOUS
    <3> QED
      BY <3>1 DEF Init, DecInit, Tx!ProxyInit, Tx!ProxyTypeOK, Tx!NotConnected
  <2>2. txRoom \in [Slots -> 0 .. TxBuf] /\ NoSymbols \in [Slots -> Nat]
    BY DecAssumption DEF Init, DecInit, NoSymbols
  <2>3. /\ txTotal = NoSymbols /\ nsymb = NoSymbols /\ nsymbcontig = NoSymbols
        /\ nbuffered = NoSymbols /\ reading = FALSE
        /\ decSbid = -1 /\ nrcv = 0 /\ nsrcrcv = 0
    BY DEF Init, DecInit
  <2> QED
    BY <2>1, <2>2, <2>3, -1 \in Int /\ 0 \in Nat, Zenon DEF DecTypeOK
<1>4. LinkTypeOK
  BY LinkAssumption DEF Init, LinkInit, LinkTypeOK
<1>5. startAt \in [0 .. encSbid -> [Slots -> Nat]]
  BY DEF Init, EncInit, NoSymbols
<1>6. counted \in SUBSET Nat
  BY DEF Init
<1>7. \A s \in Slots : nsymbcontig[s] <= nsymb[s]
  BY DEF Init, DecInit, NoSymbols
<1> QED
  BY <1>1, <1>2, <1>3, <1>4, <1>5, <1>6, <1>7 DEF TypeInv, TypeOK

LEMMA TypeStep == TypeInv /\ [Next]_vars => TypeInv'
<1> SUFFICES ASSUME TypeInv, Next \/ UNCHANGED vars
             PROVE  TypeInv'
  OBVIOUS
<1>1. RoundRobinInv'
  <2>1. [EncNext]_encVars
    BY DEF Next, EncStep, DecRecv, DecStep, LinkLoss, vars
  <2> QED
    BY <2>1, RoundRobinNext DEF TypeInv
<1>2. EncTypeOK'
  BY <1>1 DEF RoundRobinInv
<1>3. DecTyped'
  <2>1. CASE UNCHANGED decVars
    BY <2>1 DEF TypeInv, TypeOK, DecTypeOK, DecTyped, Tx!ProxyTypeOK, decVars, blockVars
  <2>2. ASSUME NEW p \in link, DecRecv(p) PROVE DecTyped'
    BY <2>2, RecvPacketType DEF DecRecv
  <2>3. CASE DecStep
    BY <2>3, DecEventType DEF DecStep
  <2> QED
    BY <2>1, <2>2, <2>3 DEF Next, EncStep, LinkLoss, vars
<1>4. LinkTypeOK'
  <2>1. /\ link \in SUBSET Packet /\ lost \in SUBSET Nat
        /\ dups \in 0 .. DupBudget /\ DupBudget \in Nat
        /\ \A p \in link : p.seqno \in Nat
    BY LinkAssumption DEF TypeInv, TypeOK, LinkTypeOK, Packet
  <2>2. CASE UNCHANGED linkVars
    BY <2>1, <2>2 DEF LinkTypeOK, linkVars
  <2>3. ASSUME NEW sid \in Slots \cup {NoStream}, NEW counts \in [Slots -> Nat],
               PacketSent(sid, counts)
        PROVE  LinkTypeOK'
    BY <2>1, <2>3, HeaderType DEF PacketSent, Send, LinkTypeOK
  <2>4. CASE EncStep
    BY <2>2, <2>3, <2>4, EncoderStep DEF EncStep, linkVars
  <2>5. ASSUME NEW p \in link, DecRecv(p) PROVE LinkTypeOK'
    <3>1. CASE Arrive(p)
      BY <2>1, <3>1 DEF Arrive, LinkTypeOK
    <3>2. CASE ArriveAndStay(p)
      BY <2>1, <3>2 DEF ArriveAndStay, LinkTypeOK
    <3> QED
      BY <2>5, <3>1, <3>2 DEF DecRecv, RecvPacket
  <2>6. CASE DecStep
    <3>1. UNCHANGED linkVars
      BY <2>6 DEF DecStep, DecEvent, DecStart, DecStop, DecConnected, DecProxyStep, EndRead,
                  HandleSend, HandleSendRefused
    <3> QED
      BY <3>1, <2>2
  <2>7. CASE LinkLoss
    BY <2>1, <2>7 DEF LinkLoss, Lose, LinkTypeOK
  <2> QED
    BY <2>2, <2>4, <2>5, <2>6, <2>7 DEF Next, vars
<1>5. startAt' \in [0 .. encSbid' -> [Slots -> Nat]]
  <2>1. startAt \in [0 .. encSbid -> [Slots -> Nat]] /\ encSbid \in Nat
    BY DEF TypeInv, TypeOK, EncTypeOK
  <2>2. encSbid' \in Nat /\ rxTotal' \in [Slots -> Nat]
    BY <1>2 DEF EncTypeOK
  <2>3. CASE EncStep
    BY <2>1, <2>2, <2>3 DEF EncStep, RecordStart
  <2>4. CASE UNCHANGED <<encVars, startAt>>
    BY <2>1, <2>4 DEF encVars
  <2> QED
    BY <2>3, <2>4 DEF Next, DecRecv, DecStep, LinkLoss, vars
<1>6. counted' \in SUBSET Nat
  <2>1. counted \in SUBSET Nat /\ \A p \in link : p.seqno \in Nat
    BY DEF TypeInv, TypeOK, LinkTypeOK, Packet
  <2>2. ASSUME NEW p \in link, DecRecv(p) PROVE counted' \in SUBSET Nat
    BY <2>1, <2>2 DEF DecRecv
  <2> QED
    BY <2>1, <2>2 DEF Next, EncStep, DecStep, LinkLoss, vars
<1> QED
  BY <1>1, <1>2, <1>3, <1>4, <1>5, <1>6 DEF TypeInv, TypeOK, DecTyped

(* For every K, N, T and number of streams, whatever the link loses,       *)
(* reorders or duplicates, and however the casts of rq-decoder.cc wrap     *)
(* round, the state of encoder, decoder and link is well typed: no byte    *)
(* count or symbol count of HandleRead and TryToSend becomes negative.     *)
THEOREM TypeCorrect == Spec => []TypeOK
<1>1. TypeInv => TypeOK
  BY DEF TypeInv
<1> QED
  BY <1>1, TypeInit, TypeStep, PTL DEF Spec

(* The round robin of SendPacket holds in the relay as it does in the      *)
(* encoder alone.                                                          *)
THEOREM PipelineRoundRobin == Spec => []RoundRobin
<1>1. TypeInv => RoundRobin
  BY DEF TypeInv, RoundRobinInv
<1> QED
  BY <1>1, TypeInit, TypeStep, PTL DEF Spec

-----------------------------------------------------------------------------
(* What a step of the relay can be, as the invariants below see it: the    *)
(* encoder sends a packet; the decoder counts one; a packet is lost, or    *)
(* dropped as belonging to an earlier block; or anything else, which moves *)
(* at most bytes from the decoder's buffers to its sockets.                *)
Sent(sid, counts) ==
    /\ PacketSent(sid, counts)
    /\ RecordStart
    /\ UNCHANGED <<blockVars, txTotal, nbuffered, counted>>

EncoderUnchanged == UNCHANGED <<rxTotal, encSbid, esi, symbcounts, startAt>>

PacketCounted(p) ==
    /\ EncoderUnchanged
    /\ Arriving(p)
    /\ link' \in {link, link \ {p}}
    /\ DupBudget = 0 => link' = link \ {p}
    /\ CountPacket(p)
    /\ counted' = counted \cup {p.seqno}
    /\ UNCHANGED <<txTotal, lost>>

PacketGone(p) ==
    /\ EncoderUnchanged
    /\ link' \in {link, link \ {p}}
    /\ Lose(p) \/ (Arriving(p) /\ Stale(p) /\ lost' = lost)
    /\ UNCHANGED <<blockVars, txTotal, nbuffered, counted>>

QuietStep ==
    /\ EncoderUnchanged
    /\ UNCHANGED <<link, lost, blockVars, counted>>
    /\ \A s \in Slots : /\ txTotal'[s] + nbuffered'[s] = txTotal[s] + nbuffered[s]
                        /\ txTotal[s] <= txTotal'[s]

LEMMA DecEventQuiet ==
    ASSUME TypeInv, DecStep
    PROVE  QuietStep
<1>0. txTotal \in [Slots -> Nat] /\ nbuffered \in [Slots -> Nat] /\ txRoom \in [Slots -> Nat]
  BY DecAssumption DEF TypeInv, TypeOK, DecTypeOK
<1>1. EncoderUnchanged /\ UNCHANGED <<link, lost, blockVars, counted>>
  BY DEF DecStep, DecEvent, DecStart, DecStop, DecConnected, DecProxyStep, EndRead,
     HandleSend, HandleSendRefused, EncoderUnchanged, encVars, linkVars
<1>2. CASE EndRead
  <2>1. ASSUME NEW s \in Slots
        PROVE  /\ txTotal'[s] + nbuffered'[s] = txTotal[s] + nbuffered[s]
               /\ txTotal[s] <= txTotal'[s]
    <3>1. Sendable(s, txRoom[s]) \in Nat
      BY <1>0, SendableType
    <3>2. /\ txTotal'[s] = txTotal[s] + Sendable(s, txRoom[s])
          /\ nbuffered'[s] = nbuffered[s] - Sendable(s, txRoom[s])
      BY <1>2 DEF EndRead
    <3>3. txTotal[s] \in Nat /\ nbuffered[s] \in Nat
      BY <1>0
    <3> QED
      BY <3>1, <3>2, <3>3
  <2> QED
    BY <1>1, <2>1 DEF QuietStep
<1>3. ASSUME NEW r \in Slots, NEW freed \in 0 .. TxBuf, HandleSend(r, freed) PROVE QuietStep
  <2> DEFINE amount == Sendable(r, txRoom[r] + freed)
  <2>1. txRoom[r] + freed \in Nat
    BY <1>0, DecAssumption
  <2>2. amount \in Nat
    BY <2>1, SendableType
  <2>3. /\ nbuffered' = [nbuffered EXCEPT ![r] = @ - amount]
        /\ txTotal' = [txTotal EXCEPT ![r] = @ + amount]
    BY <1>3 DEF HandleSend
  <2> HIDE DEF amount
  <2>4. ASSUME NEW s \in Slots
        PROVE  /\ txTotal'[s] + nbuffered'[s] = txTotal[s] + nbuffered[s]
               /\ txTotal[s] <= txTotal'[s]
    BY <1>0, <2>2, <2>3
  <2> QED
    BY <1>1, <2>4 DEF QuietStep
<1>4. CASE UNCHANGED <<txTotal, nbuffered>>
  BY <1>0, <1>1, <1>4 DEF QuietStep
<1> QED
  BY <1>2, <1>3, <1>4 DEF DecStep, DecEvent, DecStart, DecStop, DecConnected, DecProxyStep,
     HandleSendRefused

LEMMA StepForms ==
    ASSUME TypeInv, [Next]_vars
    PROVE  \/ \E sid \in Slots \cup {NoStream}, counts \in [Slots -> Nat] : Sent(sid, counts)
           \/ \E p \in link : PacketCounted(p)
           \/ \E p \in link : PacketGone(p)
           \/ QuietStep
<1>0. /\ txTotal \in [Slots -> Nat]
      /\ dups \in 0 .. DupBudget
      /\ startAt \in [0 .. encSbid -> [Slots -> Nat]]
  BY DEF TypeInv, TypeOK, DecTypeOK, LinkTypeOK
<1>1. CASE EncStep
  <2>1. RecordStart /\ UNCHANGED <<blockVars, txTotal, nbuffered, counted>>
    BY <1>1 DEF EncStep, decVars
  <2>2. CASE \E sid \in Slots \cup {NoStream}, counts \in [Slots -> Nat] :
                 PacketSent(sid, counts)
    BY <2>1, <2>2 DEF Sent
  <2>3. CASE UNCHANGED <<rxTotal, encSbid, esi, symbcounts, linkVars>>
    <3>1. startAt' = startAt
      BY <1>0, <2>1, <2>3 DEF RecordStart
    <3> QED
      BY <1>0, <2>1, <2>3, <3>1 DEF QuietStep, EncoderUnchanged, linkVars, TypeInv, TypeOK, DecTypeOK
  <2> QED
    BY <1>1, <2>2, <2>3, EncoderStep DEF EncStep
<1>2. ASSUME NEW p \in link, DecRecv(p) PROVE PacketCounted(p) \/ PacketGone(p)
  <2>1. EncoderUnchanged /\ Arriving(p) /\ txTotal' = txTotal
    BY <1>2 DEF DecRecv, RecvPacket, EncoderUnchanged, encVars
  <2>2. /\ link' \in {link, link \ {p}} /\ lost' = lost
        /\ DupBudget = 0 => link' = link \ {p}
    <3>1. CASE Arrive(p)
      BY <3>1 DEF Arrive
    <3>2. CASE ArriveAndStay(p)
      BY <1>0, <3>2 DEF ArriveAndStay
    <3> QED
      BY <1>2, <3>1, <3>2 DEF DecRecv, RecvPacket
  <2>3. counted' = IF Stale(p) THEN counted ELSE counted \cup {p.seqno}
    BY <1>2 DEF DecRecv
  <2>4. CASE CountPacket(p)
    BY <2>1, <2>2, <2>3, <2>4 DEF PacketCounted, CountPacket
  <2>5. CASE DropStale(p)
    BY <2>1, <2>2, <2>3, <2>5 DEF PacketGone, DropStale
  <2> QED
    BY <1>2, <2>4, <2>5 DEF DecRecv, RecvPacket
<1>3. CASE DecStep
  BY <1>3, DecEventQuiet
<1>4. CASE LinkLoss
  <2>1. PICK p \in link : Lose(p)
    BY <1>4 DEF LinkLoss
  <2>2. EncoderUnchanged /\ UNCHANGED <<blockVars, txTotal, nbuffered, counted>>
    BY <1>4 DEF LinkLoss, EncoderUnchanged, encVars, decVars
  <2> QED
    BY <2>1, <2>2 DEF PacketGone, Lose
<1>5. CASE UNCHANGED vars
  BY <1>0, <1>5 DEF vars, encVars, decVars, linkVars, QuietStep, EncoderUnchanged, TypeInv, TypeOK, DecTypeOK
<1> QED
  BY <1>1, <1>2, <1>3, <1>4, <1>5 DEF Next

-----------------------------------------------------------------------------
(* The encoder's side: sequence numbers, and the bytes read per block.     *)
LEMMA NextSeqno ==
    ASSUME TypeInv, BlocksInv, NEW sid, NEW counts, Sent(sid, counts)
    PROVE  /\ Seqno \in Nat /\ Seqno' = Seqno + 1
           /\ BlockOf(Seqno) = encSbid /\ Seqno % N = esi
           /\ Seqno < N * MaxBlocks
<1>1. /\ encSbid \in Nat /\ esi \in 0 .. N - 1 /\ MaxBlocks \in Nat /\ N \in Nat \ {0}
      /\ encSbid < MaxBlocks
  BY ParamAssumption, EncAssumption DEF TypeInv, TypeOK, EncTypeOK, Sent, PacketSent
<1>2. /\ N * encSbid \in Nat /\ N * (encSbid + 1) = N * encSbid + N
      /\ N * (encSbid + 1) <= N * MaxBlocks
  BY <1>1, TimesN
<1>3. Seqno' = Seqno + 1
  <2>1. CASE esi + 1 = N
    <3>1. esi' = 0 /\ encSbid' = encSbid + 1
      BY <2>1 DEF Sent, PacketSent, NextEsi
    <3> QED
      BY <1>1, <1>2, <2>1, <3>1 DEF Seqno
  <2>2. CASE esi + 1 # N
    <3>1. esi' = esi + 1 /\ encSbid' = encSbid
      BY <2>2 DEF Sent, PacketSent, NextEsi
    <3> QED
      BY <1>1, <1>2, <3>1 DEF Seqno
  <2> QED
    BY <2>1, <2>2
<1>4. BlockOf(Seqno) = encSbid /\ Seqno % N = esi
  BY <1>1, SeqnoPosition DEF Seqno
<1>5. N * MaxBlocks \in Nat
  BY <1>1, TimesN
<1>6. Seqno \in Nat /\ Seqno < N * MaxBlocks
  BY <1>1, <1>2, <1>5 DEF Seqno
<1> QED
  BY <1>3, <1>4, <1>6

LEMMA EndsNow ==
    ASSUME TypeInv
    PROVE  /\ Ends \in [0 .. encSbid -> [Slots -> Nat]]
           /\ Ends[encSbid] = rxTotal
           /\ \A b \in 0 .. encSbid - 1 : Ends[b] = startAt[b + 1]
<1>1. /\ encSbid \in Nat /\ rxTotal \in [Slots -> Nat]
      /\ startAt \in [0 .. encSbid -> [Slots -> Nat]]
  BY DEF TypeInv, TypeOK, EncTypeOK
<1> QED
  BY <1>1 DEF Ends, EndOf

(* Sending a packet adds the bytes it carries to the current block, and    *)
(* the counters in its header claim all bytes read for the block.          *)
LEMMA SentBlocks ==
    ASSUME TypeInv, TypeInv', BlocksInv, NEW sid \in Slots \cup {NoStream},
           NEW counts \in [Slots -> Nat], Sent(sid, counts)
    PROVE  /\ \A b \in 0 .. encSbid : startAt'[b] = startAt[b]
           /\ \A b \in 0 .. encSbid - 1 : Ends'[b] = Ends[b]
           /\ Ends'[encSbid] = rxTotal'
           /\ \A s \in Slots : /\ rxTotal'[s] = startAt[encSbid][s] + T * counts[s]
                               /\ rxTotal[s] <= rxTotal'[s]
                               /\ symbcounts[s] <= counts[s]
           /\ esi >= K => rxTotal' = rxTotal
           /\ IF esi + 1 = N
              THEN /\ encSbid' = encSbid + 1 /\ esi' = 0
                   /\ symbcounts' = NoSymbols
                   /\ startAt'[encSbid + 1] = rxTotal'
              ELSE /\ encSbid' = encSbid /\ esi' = esi + 1
                   /\ symbcounts' = counts
<1>1. /\ encSbid \in Nat /\ rxTotal \in [Slots -> Nat] /\ symbcounts \in [Slots -> Nat]
      /\ rxTotal' \in [Slots -> Nat] /\ esi \in 0 .. N - 1
      /\ startAt \in [0 .. encSbid -> [Slots -> Nat]]
  BY DEF TypeInv, TypeOK, EncTypeOK
<1>2. IF esi + 1 = N
      THEN encSbid' = encSbid + 1 /\ esi' = 0 /\ symbcounts' = NoSymbols
      ELSE encSbid' = encSbid /\ esi' = esi + 1 /\ symbcounts' = counts
  BY DEF Sent, PacketSent, NextEsi
<1>3. startAt' = [b \in 0 .. encSbid' |-> IF b <= encSbid THEN startAt[b] ELSE rxTotal']
  BY DEF Sent, RecordStart
<1>4. \A b \in 0 .. encSbid : startAt'[b] = startAt[b]
  BY <1>1, <1>2, <1>3
<1>5. esi + 1 = N => startAt'[encSbid + 1] = rxTotal'
  BY <1>1, <1>2, <1>3
<1>6. Ends' = [b \in 0 .. encSbid' |-> IF b < encSbid' THEN startAt'[b + 1] ELSE rxTotal']
  BY DEF Ends, EndOf
<1>7. Ends'[encSbid] = rxTotal'
  BY <1>1, <1>2, <1>5, <1>6
<1>8. ASSUME NEW b \in 0 .. encSbid - 1 PROVE Ends'[b] = Ends[b]
  <2>1. b \in 0 .. encSbid' /\ b < encSbid' /\ b + 1 \in 0 .. encSbid
    BY <1>1, <1>2
  <2>2. Ends'[b] = startAt'[b + 1] /\ Ends[b] = startAt[b + 1]
    BY <1>6, <2>1, EndsNow
  <2> QED
    BY <1>4, <2>1, <2>2
<1>9. ASSUME NEW s \in Slots
      PROVE  /\ rxTotal'[s] = startAt[encSbid][s] + T * counts[s]
             /\ rxTotal[s] <= rxTotal'[s]
             /\ symbcounts[s] <= counts[s]
  <2>1. /\ rxTotal[s] = startAt[encSbid][s] + T * symbcounts[s]
        /\ startAt[encSbid][s] \in Nat /\ rxTotal[s] \in Nat /\ symbcounts[s] \in Nat
    BY <1>1 DEF BlocksInv
  <2>2. CASE sid = s
    <3>1. counts[s] = symbcounts[s] + 1 /\ rxTotal'[s] = rxTotal[s] + T
      BY <1>1, <2>2 DEF Sent, PacketSent
    <3>2. T * counts[s] = T * symbcounts[s] + T /\ T * symbcounts[s] \in Nat /\ T \in Nat
      BY <2>1, <3>1, TimesT, ParamAssumption
    <3> QED
      BY <2>1, <3>1, <3>2
  <2>3. CASE sid # s
    <3>1. counts[s] = symbcounts[s] /\ rxTotal'[s] = rxTotal[s]
      BY <1>1, <2>3 DEF Sent, PacketSent
    <3> QED
      BY <2>1, <3>1
  <2> QED
    BY <2>2, <2>3
<1>10. esi >= K => rxTotal' = rxTotal
  BY <1>1, ParamAssumption DEF Sent, PacketSent
<1> QED
  BY <1>2, <1>4, <1>5, <1>7, <1>8, <1>9, <1>10

LEMMA BlocksStep ==
    ASSUME TypeInv, TypeInv', BlocksInv, [Next]_vars
    PROVE  BlocksInv'
<1>1. /\ encSbid \in Nat /\ encSbid' \in Nat /\ MaxBlocks \in Nat
      /\ esi \in 0 .. N - 1
      /\ rxTotal \in [Slots -> Nat] /\ rxTotal' \in [Slots -> Nat]
      /\ startAt \in [0 .. encSbid -> [Slots -> Nat]]
      /\ startAt' \in [0 .. encSbid' -> [Slots -> Nat]]
  BY EncAssumption DEF TypeInv, TypeOK, EncTypeOK
<1>2. CASE EncoderUnchanged
  BY <1>2 DEF BlocksInv, EncoderUnchanged
<1>3. ASSUME NEW sid \in Slots \cup {NoStream}, NEW counts \in [Slots -> Nat], Sent(sid, counts)
      PROVE  BlocksInv'
  <2>0. /\ \A b \in 0 .. encSbid : startAt'[b] = startAt[b]
        /\ \A s \in Slots : rxTotal[s] <= rxTotal'[s]
        /\ \/ encSbid' = encSbid
           \/ encSbid' = encSbid + 1 /\ startAt'[encSbid + 1] = rxTotal'
    BY <1>3, SentBlocks
  <2>1. encSbid' <= MaxBlocks
    <3>1. encSbid < MaxBlocks
      BY <1>3 DEF Sent, PacketSent
    <3> QED
      BY <1>1, <2>0, <3>1
  <2>2. startAt'[0] = NoSymbols
    BY <1>1, <2>0 DEF BlocksInv
  <2>3. \A s \in Slots : rxTotal'[s] = startAt'[encSbid'][s] + T * symbcounts'[s]
    <3>1. CASE esi + 1 = N
      <4>1. startAt'[encSbid'] = rxTotal' /\ symbcounts' = NoSymbols
        BY <1>3, <3>1, SentBlocks
      <4> QED
        BY <1>1, <4>1, TimesT DEF NoSymbols
    <3>2. CASE esi + 1 # N
      <4>1. /\ symbcounts' = counts /\ encSbid' = encSbid
            /\ \A b \in 0 .. encSbid : startAt'[b] = startAt[b]
            /\ \A s \in Slots : rxTotal'[s] = startAt[encSbid][s] + T * counts[s]
        BY <1>3, <3>2, SentBlocks
      <4>2. startAt'[encSbid'] = startAt[encSbid]
        BY <1>1, <4>1
      <4> QED
        BY <4>1, <4>2
    <3> QED
      BY <3>1, <3>2
  <2>4. ASSUME NEW b \in 0 .. encSbid', NEW c \in 0 .. encSbid', b <= c, NEW s \in Slots
        PROVE  startAt'[b][s] <= startAt'[c][s]
    <3>1. rxTotal[s] <= rxTotal'[s]
      BY <2>0
    <3>2. CASE c <= encSbid
      <4>1. b \in 0 .. encSbid /\ c \in 0 .. encSbid
        BY <1>1, <2>4, <3>2
      <4>2. startAt[b][s] <= startAt[c][s]
        BY <2>4, <4>1 DEF BlocksInv
      <4> QED
        BY <2>0, <4>1, <4>2
    <3>3. CASE b <= encSbid /\ c > encSbid
      <4>1. startAt'[c] = rxTotal'
        <5>1. c = encSbid + 1
          BY <1>1, <2>0, <3>3
        <5> QED
          BY <1>1, <2>0, <5>1
      <4>2. /\ startAt'[b] = startAt[b] /\ startAt[b][s] <= startAt[encSbid][s]
            /\ rxTotal[s] = startAt[encSbid][s] + T * symbcounts[s]
        <5>1. b \in 0 .. encSbid /\ encSbid \in 0 .. encSbid /\ b <= encSbid
          BY <1>1, <3>3
        <5> QED
          BY <2>0, <5>1 DEF BlocksInv
      <4>3. T * symbcounts[s] \in Nat
        BY TimesT DEF TypeInv, TypeOK, EncTypeOK
      <4>4. /\ rxTotal[s] \in Nat /\ rxTotal'[s] \in Nat /\ startAt[b][s] \in Nat
            /\ startAt[encSbid][s] \in Nat
        BY <1>1, <3>3
      <4> QED
        BY <3>1, <4>1, <4>2, <4>3, <4>4
    <3>4. CASE b > encSbid
      <4>1. b = c
        BY <1>1, <2>0, <2>4, <3>4
      <4>2. startAt'[b][s] \in Nat
        BY <1>1
      <4> QED
        BY <4>1, <4>2
    <3> QED
      BY <1>1, <3>2, <3>3, <3>4
  <2> QED
    BY <2>1, <2>2, <2>3, <2>4 DEF BlocksInv
<1> QED
  BY <1>2, <1>3, StepForms DEF PacketCounted, PacketGone, QuietStep

(* What counters claim of a block stays true while the encoder goes on,    *)
(* and a claim on all of its bytes stays so once its K-th packet is out.   *)
LEMMA FitsKept ==
    ASSUME TypeInv, TypeInv', BlocksInv, NEW sid \in Slots \cup {NoStream},
           NEW counts \in [Slots -> Nat], Sent(sid, counts),
           NEW b \in 0 .. encSbid, NEW c \in [Slots -> Nat], Fits(startAt, Ends, b, c)
    PROVE  Fits(startAt', Ends', b, c)
<1> SUFFICES ASSUME NEW s \in Slots
             PROVE  startAt'[b][s] + T * c[s] <= Ends'[b][s]
  BY DEF Fits
<1>1. /\ encSbid \in Nat /\ rxTotal \in [Slots -> Nat] /\ rxTotal' \in [Slots -> Nat]
      /\ startAt \in [0 .. encSbid -> [Slots -> Nat]]
  BY DEF TypeInv, TypeOK, EncTypeOK
<1>2. startAt[b][s] + T * c[s] <= Ends[b][s] /\ startAt[b][s] \in Nat /\ T * c[s] \in Nat
  BY <1>1, TimesT DEF Fits
<1>3. /\ startAt'[b] = startAt[b]
      /\ b # encSbid => Ends'[b] = Ends[b]
      /\ Ends'[encSbid] = rxTotal' /\ rxTotal[s] <= rxTotal'[s]
  <2>1. b # encSbid => b \in 0 .. encSbid - 1
    BY <1>1
  <2> QED
    BY <2>1, SentBlocks
<1>4. Ends[b][s] <= Ends'[b][s] /\ Ends[b][s] \in Nat /\ Ends'[b][s] \in Nat
  <2>1. Ends \in [0 .. encSbid -> [Slots -> Nat]] /\ Ends[encSbid] = rxTotal
    BY EndsNow
  <2> QED
    BY <1>1, <1>3, <2>1
<1> QED
  BY <1>2, <1>3, <1>4

LEMMA FullKept ==
    ASSUME TypeInv, TypeInv', BlocksInv, NEW sid \in Slots \cup {NoStream},
           NEW counts \in [Slots -> Nat], Sent(sid, counts),
           NEW n \in Nat, n < Seqno, n % N >= K - 1, BlockOf(n) \in 0 .. encSbid,
           NEW c \in [Slots -> Nat], Full(startAt, Ends, BlockOf(n), c)
    PROVE  Full(startAt', Ends', BlockOf(n), c)
<1>1. /\ encSbid \in Nat /\ esi \in 0 .. N - 1 /\ N \in Nat /\ K \in Nat
  BY ParamAssumption DEF TypeInv, TypeOK, EncTypeOK
<1>2. startAt'[BlockOf(n)] = startAt[BlockOf(n)]
  BY SentBlocks
<1>3. Ends'[BlockOf(n)] = Ends[BlockOf(n)]
  <2>1. CASE BlockOf(n) = encSbid
    <3>1. n % N < esi /\ n % N \in Nat
      BY <1>1, <2>1, BelowPosition, BlockPosition DEF Seqno
    <3>2. esi >= K
      BY <1>1, <3>1
    <3> QED
      BY <2>1, <3>2, SentBlocks, EndsNow
  <2>2. CASE BlockOf(n) # encSbid
    BY <1>1, <2>2, SentBlocks
  <2> QED
    BY <2>1, <2>2
<1> QED
  BY <1>2, <1>3 DEF Full

-----------------------------------------------------------------------------
(* The packets in flight.                                                  *)
LEMMA PacketType ==
    ASSUME TypeInv, NEW p \in link
    PROVE  /\ p \in Packet /\ p.seqno \in Nat /\ p.iseq \in [Slots -> Nat]
           /\ p.streamid \in Slots \cup {NoStream}
           /\ BlockOf(p.seqno) \in Nat
BY BlockPosition DEF TypeInv, TypeOK, LinkTypeOK, Packet

LEMMA LinkStep ==
    ASSUME TypeInv, TypeInv', BlocksInv, LinkInv, [Next]_vars
    PROVE  LinkInv'
<1>1. CASE EncoderUnchanged /\ link' \subseteq link
  <2>1. UNCHANGED <<Ends, Seqno>>
    BY <1>1 DEF EncoderUnchanged, Ends, EndOf, Seqno
  <2> QED
    BY <1>1, <2>1 DEF LinkInv, EncoderUnchanged
<1>2. ASSUME NEW sid \in Slots \cup {NoStream}, NEW counts \in [Slots -> Nat], Sent(sid, counts)
      PROVE  LinkInv'
  <2> DEFINE q == Header(Seqno, sid, counts)
  <2>0. /\ encSbid \in Nat /\ encSbid' \in Nat /\ symbcounts \in [Slots -> Nat]
        /\ N * MaxBlocks \in Nat
    <3>1. N * MaxBlocks \in Nat
      BY ParamAssumption, EncAssumption
    <3> QED
      BY <3>1 DEF TypeInv, TypeOK, EncTypeOK
  <2>1. q.seqno = Seqno /\ q.streamid = sid /\ q.iseq = counts
    BY DEF Header
  <2>2. link' = link \cup {q}
    BY <1>2 DEF Sent, PacketSent, Send
  <2>3. /\ Seqno \in Nat /\ Seqno' = Seqno + 1
        /\ BlockOf(Seqno) = encSbid /\ Seqno % N = esi
        /\ Seqno < N * MaxBlocks
    BY <1>2, NextSeqno
  <2>4. /\ \A s \in Slots : symbcounts[s] <= counts[s]
        /\ encSbid <= encSbid'
        /\ encSbid' = encSbid => symbcounts' = counts
    <3>1. /\ \A s \in Slots : symbcounts[s] <= counts[s]
          /\ \/ encSbid' = encSbid + 1
             \/ encSbid' = encSbid /\ symbcounts' = counts
      BY <1>2, SentBlocks
    <3> QED
      BY <2>0, <3>1
  <2>5. \A p \in link : p.seqno < Seqno /\ p.seqno \in Nat
    BY PacketType DEF LinkInv
  <2>6. ASSUME NEW p \in link
        PROVE  /\ p.seqno < Seqno'
               /\ p.seqno < N * MaxBlocks
               /\ BlockOf(p.seqno) <= encSbid'
               /\ p.seqno % N >= K => p.streamid = NoStream
               /\ Fits(startAt', Ends', BlockOf(p.seqno), p.iseq)
               /\ p.seqno % N >= K - 1 => Full(startAt', Ends', BlockOf(p.seqno), p.iseq)
               /\ BlockOf(p.seqno) = encSbid' => \A s \in Slots : p.iseq[s] <= symbcounts'[s]
    <3>1. /\ p.seqno \in Nat /\ p.iseq \in [Slots -> Nat]
          /\ BlockOf(p.seqno) \in 0 .. encSbid /\ BlockOf(p.seqno) \in Nat
      BY <2>0, PacketType DEF LinkInv
    <3>2. Fits(startAt', Ends', BlockOf(p.seqno), p.iseq)
      BY <1>2, <3>1, FitsKept DEF LinkInv
    <3>3. p.seqno % N >= K - 1 => Full(startAt', Ends', BlockOf(p.seqno), p.iseq)
      BY <1>2, <2>5, <3>1, FullKept DEF LinkInv
    <3>4. p.seqno < Seqno' /\ BlockOf(p.seqno) <= encSbid'
      BY <2>0, <2>3, <2>4, <2>5, <3>1
    <3>5. ASSUME BlockOf(p.seqno) = encSbid', NEW s \in Slots
          PROVE  p.iseq[s] <= symbcounts'[s]
      <4>1. encSbid' = encSbid
        BY <2>0, <2>4, <3>1, <3>5
      <4>2. p.iseq[s] <= symbcounts[s] /\ symbcounts[s] <= counts[s] /\ symbcounts' = counts
        BY <2>4, <3>5, <4>1 DEF LinkInv
      <4> QED
        BY <2>0, <3>1, <4>2
    <3> QED
      BY <3>2, <3>3, <3>4, <3>5 DEF LinkInv
  <2>7. /\ q.seqno < Seqno'
        /\ q.seqno < N * MaxBlocks
        /\ BlockOf(q.seqno) <= encSbid'
        /\ q.seqno % N >= K => q.streamid = NoStream
        /\ Fits(startAt', Ends', BlockOf(q.seqno), q.iseq)
        /\ Full(startAt', Ends', BlockOf(q.seqno), q.iseq)
        /\ BlockOf(q.seqno) = encSbid' => \A s \in Slots : q.iseq[s] <= symbcounts'[s]
    <3>1. esi >= K => sid = NoStream
      BY <1>2, ParamAssumption DEF Sent, PacketSent, TypeInv, TypeOK, EncTypeOK
    <3>2. ASSUME NEW s \in Slots
          PROVE  /\ startAt'[encSbid][s] + T * counts[s] = Ends'[encSbid][s]
                 /\ Ends'[encSbid][s] \in Nat
                 /\ counts[s] <= counts[s]
      <4>1. /\ startAt'[encSbid] = startAt[encSbid] /\ Ends'[encSbid] = rxTotal'
            /\ rxTotal'[s] = startAt[encSbid][s] + T * counts[s]
        <5>1. encSbid \in 0 .. encSbid
          BY <2>0
        <5> QED
          BY <1>2, <5>1, SentBlocks
      <4> QED
        BY <4>1 DEF TypeInv, TypeOK, EncTypeOK
    <3>3. Full(startAt', Ends', encSbid, counts)
      BY <3>2 DEF Full
    <3>4. Fits(startAt', Ends', encSbid, counts)
      BY <3>2 DEF Fits
    <3> QED
      BY <2>0, <2>1, <2>3, <2>4, <3>1, <3>2, <3>3, <3>4
  <2>8. \A p, r \in link' : p.seqno = r.seqno => p = r
    BY <2>1, <2>2, <2>3, <2>5 DEF LinkInv
  <2> HIDE DEF q
  <2>9. \A p \in link' :
           /\ p.seqno < Seqno'
           /\ p.seqno < N * MaxBlocks
           /\ BlockOf(p.seqno) <= encSbid'
           /\ p.seqno % N >= K => p.streamid = NoStream
           /\ Fits(startAt', Ends', BlockOf(p.seqno), p.iseq)
           /\ p.seqno % N >= K - 1 => Full(startAt', Ends', BlockOf(p.seqno), p.iseq)
           /\ BlockOf(p.seqno) = encSbid' => \A s \in Slots : p.iseq[s] <= symbcounts'[s]
    BY <2>2, <2>6, <2>7, Zenon
  <2> QED
    BY <2>8, <2>9 DEF LinkInv
<1> QED
  BY <1>1, <1>2, StepForms DEF PacketCounted, PacketGone, QuietStep

-----------------------------------------------------------------------------
(* The decoder's side: what it knows of the current block.                 *)
LEMMA Decoded ==
    ASSUME NoOverflow, TypeInv, LinkInv, NEW p \in link
    PROVE  SbidOf(p) = BlockOf(p.seqno) /\ EsiOf(p) = p.seqno % N
<1>1. p.seqno < N * MaxBlocks /\ N * MaxBlocks \in Nat /\ p.seqno \in Nat
  BY PacketType, ParamAssumption, EncAssumption DEF LinkInv
<1>2. 2 * p.seqno < IntMod
  BY <1>1, ParamAssumption DEF NoOverflow
<1> QED
  BY <1>2, HeaderDecoded DEF TypeInv, TypeOK, LinkTypeOK

LEMMA SymbAfterIs ==
    ASSUME TypeInv, NEW p \in link, NEW s \in Slots
    PROVE  /\ SymbAfter(p)[s] \in Nat
           /\ p.iseq[s] <= SymbAfter(p)[s]
           /\ IF NewBlock(p) THEN SymbAfter(p)[s] = p.iseq[s]
              ELSE /\ nsymb[s] <= SymbAfter(p)[s]
                   /\ SymbAfter(p)[s] \in {p.iseq[s], nsymb[s]}
<1>1. p.iseq[s] \in Nat /\ nsymb[s] \in Nat
  BY PacketType DEF TypeInv, TypeOK, DecTypeOK
<1>2. SymbAfter(p)[s] = LargerOf(p.iseq[s], IF NewBlock(p) THEN 0 ELSE nsymb[s])
  BY DEF SymbAfter
<1> QED
  BY <1>1, <1>2 DEF LargerOf

(* Counters that claim all bytes of a block are the largest that fit.      *)
LEMMA FullLargest ==
    ASSUME TypeInv, NEW b \in 0 .. encSbid,
           NEW c \in [Slots -> Nat], NEW d \in [Slots -> Nat],
           Full(startAt, Ends, b, c), Fits(startAt, Ends, b, d),
           \A s \in Slots : c[s] <= d[s]
    PROVE  Full(startAt, Ends, b, d) /\ \A s \in Slots : c[s] = d[s]
<1> SUFFICES ASSUME NEW s \in Slots
             PROVE  startAt[b][s] + T * d[s] = Ends[b][s] /\ c[s] = d[s]
  BY DEF Full
<1>1. startAt[b][s] \in Nat /\ Ends[b][s] \in Nat
  BY EndsNow DEF TypeInv, TypeOK
<1>2. c[s] \in Nat /\ d[s] \in Nat /\ c[s] <= d[s]
  OBVIOUS
<1>3. startAt[b][s] + T * c[s] = Ends[b][s] /\ startAt[b][s] + T * d[s] <= Ends[b][s]
  BY DEF Full, Fits
<1>4. T * c[s] \in Nat /\ T * d[s] \in Nat /\ T * c[s] <= T * d[s]
  BY <1>2, TimesT
<1>5. T * c[s] = T * d[s]
  BY <1>1, <1>3, <1>4
<1>6. d[s] <= c[s]
  <2>1. T * d[s] <= T * c[s]
    BY <1>4, <1>5
  <2> QED
    BY <1>2, <2>1, TimesT
<1> QED
  BY <1>2, <1>3, <1>5, <1>6

LEMMA CountedClaims ==
    ASSUME NoOverflow, TypeInv, LinkInv, CountInv, NEW p \in link, ~Stale(p)
    PROVE  LET b == BlockOf(p.seqno)
           IN  /\ Fits(startAt, Ends, b, SymbAfter(p))
               /\ \A n \in counted \cup {p.seqno} : BlockOf(n) = b /\ n % N >= K - 1 =>
                      Full(startAt, Ends, b, SymbAfter(p))
               /\ b = encSbid => \A s \in Slots : SymbAfter(p)[s] <= symbcounts[s]
<1> DEFINE b == BlockOf(p.seqno)
<1>1. /\ b \in Nat /\ decSbid \in Int /\ encSbid \in Nat /\ b \in 0 .. encSbid
      /\ NewBlock(p) <=> b > decSbid
      /\ b >= decSbid
  <2>1. SbidOf(p) = b
    BY Decoded
  <2>2. b \in Nat /\ b <= encSbid /\ decSbid \in Int /\ encSbid \in Nat
    BY PacketType DEF LinkInv, TypeInv, TypeOK, EncTypeOK, DecTypeOK
  <2> QED
    BY <2>1, <2>2 DEF NewBlock, Stale
<1>2. /\ SymbAfter(p) \in [Slots -> Nat] /\ p.iseq \in [Slots -> Nat]
      /\ nsymb \in [Slots -> Nat] /\ symbcounts \in [Slots -> Nat]
  BY CounterTypes, PacketType DEF TypeInv, TypeOK, EncTypeOK, DecTypeOK
<1>3. Fits(startAt, Ends, b, p.iseq)
  BY DEF LinkInv
<1>4. ~NewBlock(p) => b = decSbid /\ Fits(startAt, Ends, b, nsymb)
  BY <1>1 DEF CountInv
<1>5. Fits(startAt, Ends, b, SymbAfter(p))
  BY <1>3, <1>4, SymbAfterIs DEF Fits
<1>6. ASSUME NEW n \in counted \cup {p.seqno}, BlockOf(n) = b, n % N >= K - 1
      PROVE  Full(startAt, Ends, b, SymbAfter(p))
  <2>1. CASE n = p.seqno
    <3>1. Full(startAt, Ends, b, p.iseq)
      BY <1>6, <2>1 DEF LinkInv
    <3> QED
      BY <1>1, <1>2, <1>5, <3>1, SymbAfterIs, FullLargest
  <2>2. CASE n \in counted
    <3>1. b = decSbid /\ ~NewBlock(p)
      BY <1>1, <1>6, <2>2 DEF CountInv
    <3>2. Full(startAt, Ends, b, nsymb)
      BY <1>6, <2>2, <3>1 DEF CountInv
    <3>3. \A s \in Slots : nsymb[s] <= SymbAfter(p)[s]
      BY <3>1, SymbAfterIs
    <3> QED
      BY <1>1, <1>2, <1>5, <3>2, <3>3, FullLargest
  <2> QED
    BY <1>6, <2>1, <2>2
<1>7. ASSUME b = encSbid, NEW s \in Slots PROVE SymbAfter(p)[s] <= symbcounts[s]
  <2>1. p.iseq[s] <= symbcounts[s]
    BY <1>7 DEF LinkInv
  <2>2. ~NewBlock(p) => nsymb[s] <= symbcounts[s]
    BY <1>4, <1>7 DEF CountInv
  <2> QED
    BY <2>1, <2>2, SymbAfterIs
<1> QED
  BY <1>5, <1>6, <1>7

LEMMA CountStep ==
    ASSUME NoOverflow, TypeInv, TypeInv', BlocksInv, LinkInv, CountInv, [Next]_vars
    PROVE  CountInv'
<1>0. /\ encSbid \in Nat /\ encSbid' \in Nat /\ decSbid \in -1 .. encSbid
      /\ counted \in SUBSET Nat /\ nsymb \in [Slots -> Nat]
  BY DEF TypeInv, TypeOK, EncTypeOK, DecTypeOK, CountInv
<1>1. CASE EncoderUnchanged /\ UNCHANGED <<blockVars, counted>>
  <2>1. UNCHANGED <<Ends, Seqno>>
    BY <1>1 DEF EncoderUnchanged, Ends, EndOf, Seqno
  <2> QED
    BY <1>1, <2>1 DEF CountInv, EncoderUnchanged, blockVars
<1>2. ASSUME NEW sid \in Slots \cup {NoStream}, NEW counts \in [Slots -> Nat], Sent(sid, counts)
      PROVE  CountInv'
  <2>1. UNCHANGED <<decSbid, nsymb, counted>>
    BY <1>2 DEF Sent, blockVars
  <2>2. Seqno \in Nat /\ Seqno' = Seqno + 1
    BY <1>2, NextSeqno
  <2>3. /\ \A s \in Slots : symbcounts[s] <= counts[s] /\ symbcounts[s] \in Nat
        /\ \/ encSbid' = encSbid + 1
           \/ encSbid' = encSbid /\ symbcounts' = counts
    BY <1>2, SentBlocks DEF TypeInv, TypeOK, EncTypeOK
  <2>4. decSbid >= 0 => Fits(startAt', Ends', decSbid, nsymb)
    BY <1>0, <1>2, FitsKept DEF CountInv
  <2>5. ASSUME NEW n \in counted, BlockOf(n) = decSbid, n % N >= K - 1
        PROVE  Full(startAt', Ends', decSbid, nsymb)
    <3>1. /\ n \in Nat /\ n < Seqno /\ BlockOf(n) \in 0 .. encSbid
          /\ Full(startAt, Ends, BlockOf(n), nsymb)
      BY <1>0, <2>5, BlockPosition DEF CountInv
    <3>2. Full(startAt', Ends', BlockOf(n), nsymb)
      BY <1>0, <1>2, <2>5, <3>1, FullKept
    <3> QED
      BY <2>5, <3>2
  <2>6. ASSUME decSbid = encSbid', NEW s \in Slots PROVE nsymb[s] <= symbcounts'[s]
    <3>1. encSbid' = encSbid /\ symbcounts' = counts
      BY <1>0, <2>3, <2>6
    <3>2. nsymb[s] <= symbcounts[s] /\ symbcounts[s] <= counts[s] /\ symbcounts[s] \in Nat
      BY <2>3, <2>6, <3>1 DEF CountInv
    <3> QED
      BY <1>0, <3>1, <3>2
  <2>7. decSbid \in -1 .. encSbid' /\ \A n \in counted : n < Seqno'
    BY <1>0, <2>2, <2>3 DEF CountInv
  <2> QED
    BY <2>1, <2>4, <2>5, <2>6, <2>7 DEF CountInv
<1>3. ASSUME NEW p \in link, PacketCounted(p) PROVE CountInv'
  <2> DEFINE b == BlockOf(p.seqno)
  <2>1. /\ UNCHANGED <<Ends, Seqno, startAt, encSbid, symbcounts>>
        /\ counted' = counted \cup {p.seqno}
    BY <1>3 DEF PacketCounted, EncoderUnchanged, Ends, EndOf, Seqno
  <2>2. ~Stale(p) /\ decSbid' = b /\ nsymb' = SymbAfter(p)
    BY <1>3, Decoded DEF PacketCounted, CountPacket
  <2>3. /\ b \in 0 .. encSbid /\ decSbid <= b /\ p.seqno < Seqno
    BY <1>0, <2>2, Decoded, PacketType DEF LinkInv, Stale
  <2>4. /\ Fits(startAt, Ends, b, SymbAfter(p))
        /\ \A n \in counted \cup {p.seqno} : BlockOf(n) = b /\ n % N >= K - 1 =>
               Full(startAt, Ends, b, SymbAfter(p))
        /\ b = encSbid => \A s \in Slots : SymbAfter(p)[s] <= symbcounts[s]
    BY <2>2, CountedClaims
  <2>5. \A n \in counted' : n < Seqno /\ BlockOf(n) <= b
    <3>1. \A n \in counted : BlockOf(n) \in Nat
      BY <1>0, BlockPosition
    <3> QED
      BY <1>0, <2>1, <2>3, <3>1 DEF CountInv
  <2>6. b # -1 /\ \E n \in counted' : BlockOf(n) = b
    BY <2>1, <2>3
  <2> HIDE DEF b
  <2> QED
    BY <1>0, <2>1, <2>2, <2>3, <2>4, <2>5, <2>6 DEF CountInv
<1> QED
  BY <1>1, <1>2, <1>3, StepForms DEF PacketGone, QuietStep

-----------------------------------------------------------------------------
(* The sequence numbers of a block below position i are at most i.         *)
LEMMA BlockCardinality ==
    ASSUME NEW b \in Nat, NEW i \in Nat, NEW ns \in SUBSET Nat,
           \A n \in ns : BlockOf(n) = b /\ n % N < i
    PROVE  IsFiniteSet(ns) /\ Cardinality(ns) <= i
<1> DEFINE first == N * b
<1>1. first \in Nat
  BY TimesN
<1>2. ASSUME NEW n \in ns PROVE n \in first .. first + i - 1
  <2>1. n \in Nat /\ n = N * BlockOf(n) + (n % N) /\ n % N \in Nat /\ n % N < i
    BY BlockPosition
  <2>2. n = first + (n % N)
    BY <2>1
  <2> HIDE DEF first
  <2> QED
    BY <1>1, <2>1, <2>2
<1> HIDE DEF first
<1>3. /\ IsFiniteSet(first .. first + i - 1)
      /\ Cardinality(first .. first + i - 1) = IF first > first + i - 1 THEN 0 ELSE i
  BY <1>1, FS_Interval
<1>4. Cardinality(first .. first + i - 1) <= i
  BY <1>1, <1>3
<1>5. /\ IsFiniteSet(ns) /\ Cardinality(ns) <= Cardinality(first .. first + i - 1)
  BY <1>2, <1>3, FS_Subset
<1>6. Cardinality(ns) \in Nat /\ Cardinality(first .. first + i - 1) \in Nat
  BY <1>3, <1>5, FS_CardinalityType
<1> QED
  BY <1>4, <1>5, <1>6

LEMMA InBlockAdd ==
    ASSUME NEW ns \in SUBSET Nat, IsFiniteSet(ns), NEW n \in Nat, n \notin ns, NEW b
    PROVE  /\ IsFiniteSet(InBlock(ns, b)) /\ Cardinality(InBlock(ns, b)) \in Nat
           /\ Cardinality(InBlock(ns \cup {n}, b)) =
                  Cardinality(InBlock(ns, b)) + (IF BlockOf(n) = b THEN 1 ELSE 0)
<1>1. IsFiniteSet(InBlock(ns, b)) /\ Cardinality(InBlock(ns, b)) \in Nat
  <2>1. InBlock(ns, b) \in SUBSET ns
    BY DEF InBlock
  <2>2. IsFiniteSet(InBlock(ns, b))
    BY <2>1, FS_Subset
  <2> QED
    BY <2>2, FS_CardinalityType
<1>2. CASE BlockOf(n) = b
  <2>1. InBlock(ns \cup {n}, b) = InBlock(ns, b) \cup {n} /\ n \notin InBlock(ns, b)
    BY <1>2 DEF InBlock
  <2> QED
    BY <1>1, <1>2, <2>1, FS_AddElement
<1>3. CASE BlockOf(n) # b
  <2>1. InBlock(ns \cup {n}, b) = InBlock(ns, b)
    BY <1>3 DEF InBlock
  <2> QED
    BY <1>1, <1>3, <2>1
<1> QED
  BY <1>2, <1>3

(* Without duplication every packet is counted at most once.               *)
LEMMA OnceStep ==
    ASSUME NoOverflow, DupBudget = 0, TypeInv, TypeInv', BlocksInv, LinkInv, CountInv, OnceInv,
           [Next]_vars
    PROVE  OnceInv'
<1>1. CASE link' \subseteq link /\ UNCHANGED <<blockVars, counted>>
  BY <1>1 DEF OnceInv, blockVars
<1>2. ASSUME NEW sid, NEW counts, Sent(sid, counts) PROVE OnceInv'
  <2>1. Seqno \in Nat /\ \A n \in counted : n < Seqno
    BY <1>2, NextSeqno DEF CountInv
  <2>2. /\ link' = link \cup {Header(Seqno, sid, counts)}
        /\ UNCHANGED <<decSbid, nrcv, counted>>
    BY <1>2 DEF Sent, PacketSent, Send, blockVars
  <2>3. Header(Seqno, sid, counts).seqno \notin counted
    BY <2>1 DEF Header
  <2> QED
    BY <2>2, <2>3 DEF OnceInv
<1>3. ASSUME NEW p \in link, PacketCounted(p) PROVE OnceInv'
  <2>1. /\ link' = link \ {p} /\ counted' = counted \cup {p.seqno}
        /\ decSbid' = BlockOf(p.seqno) /\ nrcv' = RcvAfter(p) /\ ~Stale(p)
    BY <1>3, Decoded DEF PacketCounted, CountPacket
  <2>2. \A q \in link' : q.seqno \notin counted'
    BY <2>1 DEF OnceInv, LinkInv
  <2>3. /\ p.seqno \in Nat /\ counted \in SUBSET Nat /\ IsFiniteSet(counted)
        /\ p.seqno \notin counted
    BY PacketType DEF OnceInv, TypeInv, TypeOK
  <2>4. IsFiniteSet(counted')
    BY <2>1, <2>3, FS_AddElement
  <2>5. /\ Cardinality(InBlock(counted', decSbid')) =
               Cardinality(InBlock(counted, decSbid')) + 1
        /\ Cardinality(InBlock(counted, decSbid')) \in Nat
    BY <2>1, <2>3, InBlockAdd
  <2>6. nrcv' = Cardinality(InBlock(counted', decSbid'))
    <3>1. /\ NewBlock(p) <=> decSbid' > decSbid
          /\ ~NewBlock(p) => decSbid' = decSbid
          /\ decSbid \in Int /\ decSbid' \in Int
      BY <2>1, Decoded DEF NewBlock, Stale, TypeInv, TypeOK, DecTypeOK
    <3>2. CASE NewBlock(p)
      <4>1. InBlock(counted, decSbid') = {}
        <5>1. \A n \in counted : BlockOf(n) \in Nat /\ BlockOf(n) <= decSbid
          BY <2>3, BlockPosition DEF CountInv
        <5> QED
          BY <3>1, <3>2, <5>1 DEF InBlock
      <4>2. nrcv' = 1
        BY <2>1, <3>2 DEF RcvAfter
      <4> QED
        BY <2>5, <4>1, <4>2, FS_EmptySet
    <3>3. CASE ~NewBlock(p)
      <4>1. nrcv' = nrcv + 1 /\ nrcv = Cardinality(InBlock(counted, decSbid'))
        BY <2>1, <3>1, <3>3 DEF RcvAfter, OnceInv
      <4> QED
        BY <2>5, <4>1
    <3> QED
      BY <3>2, <3>3
  <2> QED
    BY <2>2, <2>4, <2>6 DEF OnceInv
<1> QED
  BY <1>1, <1>2, <1>3, StepForms DEF PacketGone, QuietStep

LEMMA KnownFull ==
    ASSUME TypeInv, CountInv, OnceInv, decSbid >= 0, nrcv >= K
    PROVE  Full(startAt, Ends, decSbid, nsymb)
<1> DEFINE here == InBlock(counted, decSbid)
<1>1. decSbid \in Nat /\ K \in Nat \ {0} /\ counted \in SUBSET Nat /\ nrcv \in Nat
  BY ParamAssumption DEF TypeInv, TypeOK, DecTypeOK
<1>2. \E n \in here : n % N >= K - 1
  <2> SUFFICES ASSUME \A n \in here : ~(n % N >= K - 1) PROVE FALSE
    OBVIOUS
  <2>1. here \in SUBSET Nat /\ \A n \in here : BlockOf(n) = decSbid
    BY <1>1 DEF InBlock
  <2>2. \A n \in here : n % N < K - 1
    <3>1. \A n \in here : n % N \in Int
      BY <2>1, BlockPosition
    <3> QED
      BY <1>1, <3>1
  <2>3. Cardinality(here) <= K - 1
    <3>1. K - 1 \in Nat
      BY <1>1
    <3> HIDE DEF here
    <3> QED
      BY <1>1, <2>1, <2>2, <3>1, BlockCardinality
  <2> QED
    BY <1>1, <2>3 DEF OnceInv
<1> QED
  BY <1>2 DEF CountInv, InBlock

LEMMA CountInit ==
    ASSUME Init
    PROVE  BlocksInv /\ LinkInv /\ CountInv /\ OnceInv
<1>1. TypeInv
  BY TypeInit
<1>2. /\ encSbid = 0 /\ esi = 0 /\ rxTotal = NoSymbols /\ symbcounts = NoSymbols
      /\ startAt[0] = NoSymbols /\ link = {} /\ counted = {}
      /\ decSbid = -1 /\ nrcv = 0
  BY DEF Init, EncInit, LinkInit, DecInit
<1>3. BlocksInv
  <2>1. \A s \in Slots : rxTotal[s] = startAt[encSbid][s] + T * symbcounts[s]
    BY <1>2, TimesT DEF NoSymbols
  <2> QED
    BY <1>2, <2>1, EncAssumption DEF BlocksInv, NoSymbols
<1>4. LinkInv
  BY <1>2 DEF LinkInv
<1>5. CountInv
  BY <1>2 DEF CountInv
<1>6. OnceInv
  <2>1. InBlock(counted, decSbid) = {}
    BY <1>2 DEF InBlock
  <2> QED
    BY <1>2, <2>1, FS_EmptySet DEF OnceInv
<1> QED
  BY <1>3, <1>4, <1>5, <1>6

(* RqDecoder: once K packets of a block have been received, the counters   *)
(* in the headers tell how many symbols of each stream the block holds,    *)
(* whatever was lost and in whatever order the packets came, for every K,  *)
(* N, T and number of streams: the link must not duplicate packets, and    *)
(* the sequence numbers must fit the int of HandleRead.                    *)
THEOREM KnownWhenDecodableCorrect ==
    ASSUME NoOverflow, DupBudget = 0
    PROVE  Spec => []KnownWhenDecodable
<1> DEFINE Inv == TypeInv /\ BlocksInv /\ LinkInv /\ CountInv /\ OnceInv
<1>1. Init => Inv
  BY TypeInit, CountInit
<1>2. Inv /\ [Next]_vars => Inv'
  <2> SUFFICES ASSUME Inv, [Next]_vars PROVE Inv'
    OBVIOUS
  <2>1. TypeInv'
    BY TypeStep
  <2> QED
    BY <2>1, BlocksStep, LinkStep, CountStep, OnceStep
<1>3. Inv => KnownWhenDecodable
  <2> SUFFICES ASSUME Inv, decSbid >= 0, nrcv >= K, NEW s \in Slots
               PROVE  startAt[decSbid][s] + T * nsymb[s] = EndOf(decSbid)[s]
    BY DEF KnownWhenDecodable
  <2>1. Full(startAt, Ends, decSbid, nsymb)
    BY KnownFull
  <2>2. Ends[decSbid] = EndOf(decSbid)
    BY DEF Ends, CountInv, TypeInv, TypeOK, EncTypeOK, DecTypeOK
  <2> QED
    BY <2>1, <2>2 DEF Full
<1> HIDE DEF Inv
<1> QED
  BY <1>1, <1>2, <1>3, PTL DEF Spec

-----------------------------------------------------------------------------
(* A link that keeps the order of packets.                                 *)
LEMMA NoGapAfter ==
    ASSUME TypeInv, NEW p \in link, p.streamid \in Slots
    PROVE  ContigAfter(p)[p.streamid] + 1 # SymbAfter(p)[p.streamid]
<1>1. /\ ContigBefore(p) \in [Slots -> Nat] /\ SymbAfter(p) \in [Slots -> Nat]
      /\ p.streamid # NoStream
  BY CounterTypes, PacketType DEF Slots, NoStream
<1>2. CASE InOrder(p)
  <2>1. /\ ContigBefore(p)[p.streamid] + 1 = SymbAfter(p)[p.streamid]
        /\ ContigAfter(p)[p.streamid] = ContigBefore(p)[p.streamid] + 1
    BY <1>1, <1>2 DEF InOrder, ContigAfter
  <2> QED
    BY <1>1, <2>1
<1>3. CASE ~InOrder(p)
  BY <1>1, <1>3 DEF InOrder, ContigAfter
<1> QED
  BY <1>2, <1>3

LEMMA OrderStep ==
    ASSUME NoOverflow, ~Reorder, TypeInv, TypeInv', BlocksInv, LinkInv, CountInv, OrderInv,
           [Next]_vars
    PROVE  OrderInv'
<1>1. CASE link' \subseteq link /\ UNCHANGED <<blockVars, counted>>
  BY <1>1 DEF OrderInv, blockVars
<1>2. ASSUME NEW sid \in Slots \cup {NoStream}, NEW counts \in [Slots -> Nat], Sent(sid, counts)
      PROVE  OrderInv'
  <2> DEFINE q == Header(Seqno, sid, counts)
  <2>1. q.seqno = Seqno /\ q.streamid = sid /\ q.iseq = counts
    BY DEF Header
  <2>2. link' = link \cup {q} /\ UNCHANGED <<decSbid, nsymb, nsymbcontig, counted>>
    BY <1>2 DEF Sent, PacketSent, Send, blockVars
  <2>3. /\ Seqno \in Nat /\ BlockOf(Seqno) = encSbid
        /\ \A n \in counted : n < Seqno /\ n \in Nat
        /\ \A p \in link : p.seqno < Seqno /\ p.seqno \in Nat
    BY <1>2, NextSeqno, PacketType DEF CountInv, LinkInv, TypeInv, TypeOK
  <2>4. /\ symbcounts \in [Slots -> Nat] /\ nsymb \in [Slots -> Nat]
        /\ \A s \in Slots : symbcounts[s] <= counts[s]
        /\ sid \in Slots => symbcounts[sid] < counts[sid]
    <3>1. symbcounts \in [Slots -> Nat] /\ nsymb \in [Slots -> Nat]
      BY DEF TypeInv, TypeOK, EncTypeOK, DecTypeOK
    <3> QED
      BY <1>2, <3>1, SentBlocks DEF Sent, PacketSent
  <2>5. \A p \in link', n \in counted' : n <= p.seqno
    BY <2>1, <2>2, <2>3 DEF OrderInv
  <2>6. ASSUME encSbid = decSbid
        PROVE  /\ \A s \in Slots : nsymb[s] <= q.iseq[s]
               /\ q.streamid \in Slots =>
                      q.seqno \notin counted /\ nsymb[q.streamid] < q.iseq[q.streamid]
    <3>1. \A s \in Slots : nsymb[s] <= symbcounts[s]
      BY <2>6 DEF CountInv
    <3> HIDE DEF q
    <3> QED
      BY <2>1, <2>3, <2>4, <3>1
  <2>7. ASSUME NEW p \in link, BlockOf(p.seqno) = encSbid
        PROVE  /\ \A s \in Slots : p.iseq[s] <= q.iseq[s]
               /\ q.streamid \in Slots => p.iseq[q.streamid] < q.iseq[q.streamid]
    <3>1. /\ p.iseq \in [Slots -> Nat]
          /\ \A s \in Slots : p.iseq[s] <= symbcounts[s]
      BY <2>7, PacketType DEF LinkInv
    <3> HIDE DEF q
    <3> QED
      BY <2>1, <2>4, <3>1
  <2> HIDE DEF q
  <2>8. \A p \in link' : BlockOf(p.seqno) = decSbid' =>
           /\ \A s \in Slots : nsymb'[s] <= p.iseq[s]
           /\ p.streamid \in Slots =>
                  IF p.seqno \in counted'
                  THEN /\ nsymb'[p.streamid] = p.iseq[p.streamid]
                       /\ nsymbcontig'[p.streamid] + 1 # nsymb'[p.streamid]
                  ELSE nsymb'[p.streamid] < p.iseq[p.streamid]
    BY <2>1, <2>2, <2>3, <2>6 DEF OrderInv
  <2>9. \A p, r \in link' : BlockOf(p.seqno) = BlockOf(r.seqno) /\ p.seqno < r.seqno =>
           /\ \A s \in Slots : p.iseq[s] <= r.iseq[s]
           /\ r.streamid \in Slots => p.iseq[r.streamid] < r.iseq[r.streamid]
    <3> SUFFICES ASSUME NEW p \in link', NEW r \in link',
                        BlockOf(p.seqno) = BlockOf(r.seqno), p.seqno < r.seqno
                 PROVE  /\ \A s \in Slots : p.iseq[s] <= r.iseq[s]
                        /\ r.streamid \in Slots => p.iseq[r.streamid] < r.iseq[r.streamid]
      OBVIOUS
    <3>1. p # q
      BY <2>1, <2>2, <2>3
    <3>2. CASE r = q
      BY <2>1, <2>2, <2>3, <2>7, <3>1, <3>2
    <3>3. CASE r # q
      BY <2>2, <3>1, <3>3 DEF OrderInv
    <3> QED
      BY <3>2, <3>3
  <2> QED
    BY <2>5, <2>8, <2>9 DEF OrderInv
<1>3. ASSUME NEW p \in link, PacketCounted(p) PROVE OrderInv'
  <2>1. /\ link' \subseteq link /\ counted' = counted \cup {p.seqno}
        /\ nsymb' = SymbAfter(p) /\ nsymbcontig' = ContigAfter(p)
        /\ decSbid' = BlockOf(p.seqno)
        /\ ~NewBlock(p) => decSbid' = decSbid
    <3>1. decSbid \in Int /\ BlockOf(p.seqno) \in Int
      BY PacketType DEF TypeInv, TypeOK, DecTypeOK
    <3> QED
      BY <1>3, <3>1, Decoded DEF PacketCounted, CountPacket, NewBlock, Stale
  <2>2. \A q \in link : p.seqno <= q.seqno /\ p.seqno \in Nat /\ q.seqno \in Nat
    BY <1>3, PacketType DEF PacketCounted, Arriving
  <2>3. \A q \in link : q # p => p.seqno < q.seqno
    BY <2>2 DEF LinkInv
  <2>4. \A n \in counted : n \in Nat /\ n <= p.seqno
    BY DEF OrderInv, TypeInv, TypeOK
  <2>5. \A q \in link', n \in counted' : n <= q.seqno
    BY <2>1, <2>2, <2>4
  <2>6. ASSUME NEW q \in link', BlockOf(q.seqno) = decSbid'
        PROVE  /\ \A s \in Slots : nsymb'[s] <= q.iseq[s]
               /\ q.streamid \in Slots =>
                      IF q.seqno \in counted'
                      THEN /\ nsymb'[q.streamid] = q.iseq[q.streamid]
                           /\ nsymbcontig'[q.streamid] + 1 # nsymb'[q.streamid]
                      ELSE nsymb'[q.streamid] < q.iseq[q.streamid]
    <3>0. q \in link /\ q.iseq \in [Slots -> Nat] /\ p.iseq \in [Slots -> Nat]
      BY <2>1, PacketType
    <3>1. CASE q = p
      <4>1. \A s \in Slots : SymbAfter(p)[s] = p.iseq[s]
        <5> SUFFICES ASSUME NEW s \in Slots PROVE SymbAfter(p)[s] = p.iseq[s]
          OBVIOUS
        <5>1. ~NewBlock(p) => nsymb[s] <= p.iseq[s] /\ nsymb[s] \in Nat
          BY <2>1 DEF OrderInv, TypeInv, TypeOK, DecTypeOK
        <5> QED
          BY <3>0, <5>1, SymbAfterIs
      <4>2. q.streamid \in Slots =>
                ContigAfter(p)[q.streamid] + 1 # SymbAfter(p)[q.streamid]
        BY <3>1, NoGapAfter
      <4> QED
        BY <2>1, <3>0, <3>1, <4>1, <4>2
    <3>2. CASE q # p
      <4>1. p.seqno < q.seqno /\ BlockOf(p.seqno) = BlockOf(q.seqno)
        BY <2>1, <2>3, <2>6, <3>0, <3>2
      <4>2. q.seqno \notin counted'
        BY <2>1, <2>2, <2>4, <3>0, <4>1
      <4>3. /\ \A s \in Slots : p.iseq[s] <= q.iseq[s]
            /\ q.streamid \in Slots => p.iseq[q.streamid] < q.iseq[q.streamid]
        BY <3>0, <4>1 DEF OrderInv
      <4>4. ~NewBlock(p) =>
                /\ \A s \in Slots : nsymb[s] <= q.iseq[s]
                /\ q.streamid \in Slots => nsymb[q.streamid] < q.iseq[q.streamid]
        BY <2>1, <2>6, <3>0, <4>2 DEF OrderInv
      <4>5. \A s \in Slots : \/ SymbAfter(p)[s] = p.iseq[s]
                             \/ ~NewBlock(p) /\ SymbAfter(p)[s] = nsymb[s]
        BY SymbAfterIs
      <4>6. \A s \in Slots : SymbAfter(p)[s] <= q.iseq[s]
        BY <4>3, <4>4, <4>5
      <4>7. q.streamid \in Slots => SymbAfter(p)[q.streamid] < q.iseq[q.streamid]
        BY <4>3, <4>4, <4>5
      <4> QED
        BY <2>1, <4>2, <4>6, <4>7
    <3> QED
      BY <3>1, <3>2
  <2>7. \A q, r \in link' : BlockOf(q.seqno) = BlockOf(r.seqno) /\ q.seqno < r.seqno =>
           /\ \A s \in Slots : q.iseq[s] <= r.iseq[s]
           /\ r.streamid \in Slots => q.iseq[r.streamid] < r.iseq[r.streamid]
    BY <2>1 DEF OrderInv
  <2> QED
    BY <2>5, <2>6, <2>7 DEF OrderInv
<1> QED
  BY <1>1, <1>2, <1>3, StepForms DEF PacketGone, QuietStep

-----------------------------------------------------------------------------
(* What a packet lets the decoder pass on.                                 *)
OneIfNext(p, s) == IF InOrder(p) /\ s = p.streamid THEN 1 ELSE 0

Before(p, s) == IF ~NewBlock(p) /\ nrcv >= K THEN nsymb[s] ELSE ContigBefore(p)[s]
After(p, s)  == IF RcvAfter(p) >= K THEN SymbAfter(p)[s] ELSE ContigAfter(p)[s]

LEMMA PassedOnAdds ==
    ASSUME TypeInv, NEW p \in link, NEW s \in Slots
    PROVE  /\ Before(p, s) \in Nat /\ After(p, s) \in Nat /\ PassedOn(p, s) \in Nat
           /\ RcvAfter(p) <= K => T * Before(p, s) + PassedOn(p, s) = T * After(p, s)
           /\ RcvAfter(p) > K =>
                  /\ ~NewBlock(p) /\ nrcv >= K
                  /\ T * Before(p, s) + PassedOn(p, s) = T * (nsymb[s] + OneIfNext(p, s))
<1> DEFINE c0 == ContigBefore(p)[s]
           c  == ContigAfter(p)[s]
           m  == SymbAfter(p)[s]
           i  == OneIfNext(p, s)
<1>1. p \in Packet /\ K \in Nat \ {0} /\ nrcv \in Nat /\ nsymb[s] \in Nat
  BY PacketType, ParamAssumption DEF TypeInv, TypeOK, DecTypeOK
<1>2. /\ c0 \in Nat /\ c \in Nat /\ m \in Nat /\ c <= m
      /\ RcvAfter(p) \in Nat
      /\ ContigBefore(p) \in [Slots -> Nat]
  BY <1>1, CounterTypes
<1>3. i \in {0, 1} /\ i \in Nat /\ c = c0 + i
  BY <1>2 DEF OneIfNext, ContigAfter
<1>4. Before(p, s) \in Nat /\ After(p, s) \in Nat
  BY <1>1, <1>2 DEF Before, After
<1>5. HeldBack(p, s) = m - c /\ m - c \in Nat
  BY <1>2 DEF HeldBack
<1>6. PassedOn(p, s) = T * (i + (IF RcvAfter(p) = K THEN m - c ELSE 0))
  BY <1>5 DEF PassedOn, OneIfNext
<1>7. RcvAfter(p) = IF NewBlock(p) THEN 1 ELSE nrcv + 1
  BY DEF RcvAfter
<1> HIDE DEF c0, c, m, i
<1>8. CASE RcvAfter(p) < K
  <2>1. Before(p, s) = c0 /\ After(p, s) = c
    BY <1>1, <1>2, <1>7, <1>8 DEF Before, After, c0, c
  <2>2. PassedOn(p, s) = T * i
    <3>1. i + (IF RcvAfter(p) = K THEN m - c ELSE 0) = i
      BY <1>1, <1>2, <1>3, <1>8
    <3> QED
      BY <1>6, <3>1
  <2>3. T * c = T * c0 + T * i /\ T * i \in Nat
    BY <1>2, <1>3, TimesT
  <2> QED
    BY <1>1, <1>2, <1>4, <1>8, <2>1, <2>2, <2>3
<1>9. CASE RcvAfter(p) = K
  <2>1. Before(p, s) = c0 /\ After(p, s) = m
    BY <1>1, <1>2, <1>7, <1>9 DEF Before, After, c0, m
  <2>2. PassedOn(p, s) = T * (i + (m - c)) /\ i + (m - c) \in Nat /\ c0 + (i + (m - c)) = m
    BY <1>2, <1>3, <1>5, <1>6, <1>9
  <2>3. T * m = T * c0 + T * (i + (m - c)) /\ T * (i + (m - c)) \in Nat
    <3>1. \A j \in Nat : T * (c0 + j) = T * c0 + T * j /\ T * j \in Nat
      BY <1>2, TimesT
    <3> QED
      BY <2>2, <3>1
  <2> QED
    BY <1>1, <1>2, <1>4, <1>9, <2>1, <2>2, <2>3
<1>10. CASE RcvAfter(p) > K
  <2>1. ~NewBlock(p) /\ nrcv >= K
    BY <1>1, <1>7, <1>10
  <2>2. Before(p, s) = nsymb[s]
    BY <2>1 DEF Before
  <2>3. PassedOn(p, s) = T * i
    BY <1>1, <1>2, <1>3, <1>6, <1>10
  <2>4. T * (nsymb[s] + i) = T * nsymb[s] + T * i /\ T * i \in Nat
    BY <1>1, <1>3, TimesT
  <2> QED
    BY <1>1, <1>2, <1>4, <1>10, <2>1, <2>2, <2>3, <2>4 DEF i
<1> QED
  BY <1>1, <1>2, <1>8, <1>9, <1>10

LEMMA PassedNow ==
    ASSUME TypeInv, CountInv, NEW s \in Slots
    PROVE  LET passed == Passed(startAt, decSbid, nrcv, nsymb, nsymbcontig, s)
           IN  /\ passed \in Nat
               /\ decSbid >= 0 => passed <= Ends[decSbid][s]
<1> DEFINE known == IF nrcv >= K THEN nsymb[s] ELSE nsymbcontig[s]
           passed == Passed(startAt, decSbid, nrcv, nsymb, nsymbcontig, s)
<1>1. nsymb[s] \in Nat /\ known \in Nat /\ known <= nsymb[s]
  BY DEF TypeInv, TypeOK, DecTypeOK
<1>2. CASE decSbid = -1
  BY <1>2 DEF Passed
<1>3. CASE decSbid # -1
  <2>1. decSbid \in 0 .. encSbid /\ passed = startAt[decSbid][s] + T * known
    BY <1>3 DEF Passed, CountInv, TypeInv, TypeOK, EncTypeOK, DecTypeOK
  <2>2. startAt[decSbid][s] \in Nat /\ Ends[decSbid][s] \in Nat
    BY <2>1, EndsNow DEF TypeInv, TypeOK
  <2>3. T * known \in Nat /\ T * nsymb[s] \in Nat /\ T * known <= T * nsymb[s]
    BY <1>1, TimesT
  <2>4. startAt[decSbid][s] + T * nsymb[s] <= Ends[decSbid][s]
    BY <2>1 DEF CountInv, Fits
  <2>5. passed \in Nat /\ passed <= Ends[decSbid][s]
    <3> HIDE DEF known, passed
    <3> QED
      BY <2>1, <2>2, <2>3, <2>4
  <2> QED
    BY <2>5
<1> QED
  BY <1>2, <1>3

LEMMA EndsOrder ==
    ASSUME TypeInv, BlocksInv, NEW b \in 0 .. encSbid, NEW s \in Slots
    PROVE  /\ Ends[b][s] <= rxTotal[s]
           /\ \A c \in 0 .. encSbid : b < c => Ends[b][s] <= startAt[c][s]
<1>0. /\ encSbid \in Nat /\ startAt \in [0 .. encSbid -> [Slots -> Nat]]
      /\ rxTotal \in [Slots -> Nat] /\ symbcounts \in [Slots -> Nat]
  BY DEF TypeInv, TypeOK, EncTypeOK
<1>1. ASSUME NEW c \in 0 .. encSbid, b < c PROVE Ends[b][s] <= startAt[c][s]
  <2>1. b \in 0 .. encSbid - 1 /\ b + 1 \in 0 .. encSbid /\ b + 1 <= c
    BY <1>0, <1>1
  <2>2. startAt[b + 1][s] <= startAt[c][s]
    BY <2>1 DEF BlocksInv
  <2> QED
    BY <2>1, <2>2, EndsNow
<1>2. Ends[b][s] <= rxTotal[s]
  <2>1. CASE b = encSbid
    BY <1>0, <2>1, EndsNow
  <2>2. CASE b # encSbid
    <3>1. b < encSbid /\ encSbid \in 0 .. encSbid
      BY <1>0, <2>2
    <3>2. Ends[b][s] <= startAt[encSbid][s] /\ startAt[encSbid][s] \in Nat
      BY <1>0, <1>1, <3>1
    <3>3. rxTotal[s] = startAt[encSbid][s] + T * symbcounts[s] /\ T * symbcounts[s] \in Nat
      BY <1>0, TimesT DEF BlocksInv
    <3>4. Ends[b][s] \in Nat /\ rxTotal[s] \in Nat
      BY <1>0, EndsNow
    <3> QED
      BY <3>2, <3>3, <3>4
  <2> QED
    BY <2>1, <2>2
<1> QED
  BY <1>1, <1>2

(* As PassedInv and RecoverInv see a counted packet: what was passed on    *)
(* before, in terms of the packet's block.                                 *)
LEMMA CountedBlock ==
    ASSUME NoOverflow, TypeInv, BlocksInv, LinkInv, CountInv, NEW p \in link,
           PacketCounted(p), NEW s \in Slots
    PROVE  LET b == BlockOf(p.seqno)
               passed == Passed(startAt, decSbid, nrcv, nsymb, nsymbcontig, s)
           IN  /\ b \in 0 .. encSbid
               /\ startAt[b][s] \in Nat /\ passed \in Nat
               /\ NewBlock(p) => b > decSbid /\ Before(p, s) = 0 /\ passed <= startAt[b][s]
               /\ ~NewBlock(p) => b = decSbid /\ passed = startAt[b][s] + T * Before(p, s)
               /\ txTotal'[s] + nbuffered'[s] = txTotal[s] + nbuffered[s] + PassedOn(p, s)
               /\ Passed(startAt', decSbid', nrcv', nsymb', nsymbcontig', s) =
                      startAt[b][s] + T * After(p, s)
<1> DEFINE b == BlockOf(p.seqno)
           passed == Passed(startAt, decSbid, nrcv, nsymb, nsymbcontig, s)
<1>1. /\ b \in Nat /\ b <= encSbid /\ encSbid \in Nat /\ decSbid \in -1 .. encSbid
      /\ SbidOf(p) = b /\ ~Stale(p)
  BY Decoded, PacketType
  DEF LinkInv, CountInv, TypeInv, TypeOK, EncTypeOK, PacketCounted, CountPacket
<1>2. b \in 0 .. encSbid /\ startAt[b][s] \in Nat /\ passed \in Nat
  BY <1>1, PassedNow DEF TypeInv, TypeOK
<1>3. (NewBlock(p) => b > decSbid) /\ (~NewBlock(p) => b = decSbid)
  BY <1>1 DEF NewBlock, Stale
<1>4. ASSUME NewBlock(p) PROVE Before(p, s) = 0 /\ passed <= startAt[b][s]
  <2>1. Before(p, s) = 0
    BY <1>4 DEF Before, ContigBefore, NoSymbols
  <2>2. CASE decSbid = -1
    BY <1>2, <2>1, <2>2 DEF Passed
  <2>3. CASE decSbid # -1
    <3>1. decSbid \in 0 .. encSbid /\ decSbid < b
      BY <1>1, <1>3, <1>4, <2>3
    <3>2. passed <= Ends[decSbid][s] /\ Ends[decSbid][s] <= startAt[b][s]
      BY <1>2, <3>1, PassedNow, EndsOrder
    <3>3. Ends[decSbid][s] \in Nat
      BY <3>1, EndsNow
    <3> HIDE DEF passed, b
    <3> QED
      BY <1>2, <2>1, <3>2, <3>3
  <2> QED
    BY <2>2, <2>3
<1>5. ASSUME ~NewBlock(p) PROVE passed = startAt[b][s] + T * Before(p, s)
  <2>1. b = decSbid /\ decSbid # -1
    BY <1>1, <1>3, <1>5
  <2> QED
    BY <1>5, <2>1 DEF Passed, Before, ContigBefore
<1>6. txTotal'[s] + nbuffered'[s] = txTotal[s] + nbuffered[s] + PassedOn(p, s)
  <2>1. txTotal'[s] = txTotal[s] /\ nbuffered'[s] = nbuffered[s] + PassedOn(p, s)
    BY DEF PacketCounted, CountPacket
  <2>2. txTotal[s] \in Nat /\ nbuffered[s] \in Nat /\ PassedOn(p, s) \in Nat
    BY PassedOnAdds DEF TypeInv, TypeOK, DecTypeOK
  <2> QED
    BY <2>1, <2>2
<1>7. Passed(startAt', decSbid', nrcv', nsymb', nsymbcontig', s) =
          startAt[b][s] + T * After(p, s)
  <2>1. /\ startAt' = startAt /\ decSbid' = b /\ nrcv' = RcvAfter(p)
        /\ nsymb' = SymbAfter(p) /\ nsymbcontig' = ContigAfter(p)
    BY <1>1 DEF PacketCounted, EncoderUnchanged, CountPacket
  <2> QED
    BY <1>1, <2>1 DEF Passed, After
<1> QED
  BY <1>2, <1>3, <1>4, <1>5, <1>6, <1>7

(* The decoder never passes on more than it has reason to.                 *)
LEMMA PassedStep ==
    ASSUME NoOverflow, ~Reorder, TypeInv, TypeInv', BlocksInv, LinkInv, CountInv, OrderInv,
           PassedInv, [Next]_vars
    PROVE  PassedInv'
<1> SUFFICES ASSUME NEW s \in Slots
             PROVE  txTotal'[s] + nbuffered'[s]
                        <= Passed(startAt', decSbid', nrcv', nsymb', nsymbcontig', s)
  BY DEF PassedInv
<1>0. /\ txTotal[s] + nbuffered[s] <= Passed(startAt, decSbid, nrcv, nsymb, nsymbcontig, s)
      /\ txTotal[s] \in Nat /\ nbuffered[s] \in Nat
  BY DEF PassedInv, TypeInv, TypeOK, DecTypeOK
<1>1. ASSUME NEW sid \in Slots \cup {NoStream}, NEW counts \in [Slots -> Nat], Sent(sid, counts)
      PROVE  /\ UNCHANGED <<blockVars, txTotal, nbuffered>>
             /\ decSbid # -1 => startAt'[decSbid] = startAt[decSbid]
  <2>1. decSbid # -1 => decSbid \in 0 .. encSbid
    BY DEF CountInv, TypeInv, TypeOK, EncTypeOK
  <2> QED
    BY <1>1, <2>1, SentBlocks DEF Sent
<1>2. CASE \E sid \in Slots \cup {NoStream}, counts \in [Slots -> Nat] : Sent(sid, counts)
  BY <1>0, <1>1, <1>2 DEF Passed, blockVars
<1>3. ASSUME NEW p \in link, PacketCounted(p)
      PROVE  txTotal'[s] + nbuffered'[s]
                 <= Passed(startAt', decSbid', nrcv', nsymb', nsymbcontig', s)
  <2> DEFINE base == startAt[BlockOf(p.seqno)][s]
             total == txTotal[s] + nbuffered[s]
             passed == Passed(startAt, decSbid, nrcv, nsymb, nsymbcontig, s)
  <2>1. /\ base \in Nat /\ total \in Nat /\ passed \in Nat /\ total <= passed
        /\ NewBlock(p) => Before(p, s) = 0 /\ passed <= base
        /\ ~NewBlock(p) => BlockOf(p.seqno) = decSbid /\ passed = base + T * Before(p, s)
        /\ txTotal'[s] + nbuffered'[s] = total + PassedOn(p, s)
        /\ Passed(startAt', decSbid', nrcv', nsymb', nsymbcontig', s) = base + T * After(p, s)
    BY <1>0, <1>3, CountedBlock
  <2>2. /\ Before(p, s) \in Nat /\ After(p, s) \in Nat /\ PassedOn(p, s) \in Nat
        /\ RcvAfter(p) <= K => T * Before(p, s) + PassedOn(p, s) = T * After(p, s)
        /\ RcvAfter(p) > K =>
               /\ ~NewBlock(p) /\ nrcv >= K
               /\ T * Before(p, s) + PassedOn(p, s) = T * (nsymb[s] + OneIfNext(p, s))
    BY PassedOnAdds
  <2>3. T * Before(p, s) \in Nat /\ T * After(p, s) \in Nat /\ T * 0 = 0
    BY <2>2, TimesT
  <2> HIDE DEF base, total, passed
  <2>4. total <= base + T * Before(p, s)
    <3>1. NewBlock(p) => T * Before(p, s) = 0
      BY <2>1, <2>3
    <3> QED
      BY <2>1, <2>3, <3>1
  <2>5. T * Before(p, s) + PassedOn(p, s) <= T * After(p, s)
    <3>1. CASE RcvAfter(p) <= K
      BY <2>2, <2>3, <3>1
    <3>2. CASE RcvAfter(p) > K
      <4>1. ~NewBlock(p) /\ After(p, s) = SymbAfter(p)[s]
        BY <2>2, <3>2, CounterTypes, PacketType, ParamAssumption DEF After
      <4>2. nsymb[s] \in Nat /\ OneIfNext(p, s) \in {0, 1} /\ SymbAfter(p)[s] \in Nat
        BY SymbAfterIs DEF OneIfNext, TypeInv, TypeOK, DecTypeOK
      <4>3. nsymb[s] + OneIfNext(p, s) <= SymbAfter(p)[s]
        <5>1. nsymb[s] <= SymbAfter(p)[s]
          BY <4>1, SymbAfterIs
        <5>2. ASSUME InOrder(p), s = p.streamid PROVE nsymb[s] < SymbAfter(p)[s]
          <6>1. nsymbcontig[s] + 1 = SymbAfter(p)[s]
            BY <4>1, <5>2 DEF InOrder, ContigBefore
          <6>2. nsymb[s] <= p.iseq[s] /\ p.iseq[s] <= SymbAfter(p)[s] /\ p.iseq[s] \in Nat
            BY <2>1, <4>1, SymbAfterIs, PacketType DEF OrderInv
          <6>3. CASE p.seqno \in counted
            <7>1. nsymb[s] = p.iseq[s] /\ nsymbcontig[s] + 1 # nsymb[s]
              BY <2>1, <4>1, <5>2, <6>3 DEF OrderInv
            <7> QED
              BY <4>2, <5>1, <6>1, <7>1
          <6>4. CASE p.seqno \notin counted
            <7>1. nsymb[s] < p.iseq[s]
              BY <2>1, <4>1, <5>2, <6>4 DEF OrderInv
            <7> QED
              BY <4>2, <6>2, <7>1
          <6> QED
            BY <6>3, <6>4
        <5> QED
          BY <4>2, <5>1, <5>2 DEF OneIfNext
      <4>4. T * (nsymb[s] + OneIfNext(p, s)) <= T * SymbAfter(p)[s]
        <5>1. nsymb[s] + OneIfNext(p, s) \in Nat
          BY <4>2
        <5> QED
          BY <4>2, <4>3, <5>1, TimesT
      <4> QED
        BY <2>2, <3>2, <4>1, <4>4
    <3>3. RcvAfter(p) \in Nat /\ K \in Nat
      BY CounterTypes, PacketType, ParamAssumption
    <3> QED
      BY <3>1, <3>2, <3>3
  <2> QED
    BY <2>1, <2>2, <2>3, <2>4, <2>5
<1>4. ASSUME NEW p \in link, PacketGone(p)
      PROVE  UNCHANGED <<startAt, blockVars, txTotal, nbuffered>>
  BY <1>4 DEF PacketGone, EncoderUnchanged
<1>5. CASE QuietStep
  BY <1>0, <1>5 DEF QuietStep, EncoderUnchanged, blockVars
<1> QED
  BY <1>0, <1>2, <1>3, <1>4, <1>5, StepForms DEF blockVars

OrderedInv ==
    TypeInv /\ BlocksInv /\ LinkInv /\ CountInv /\ OrderInv /\ PassedInv

LEMMA OrderedInit == Init => OrderedInv
<1> SUFFICES ASSUME Init PROVE OrderedInv
  OBVIOUS
<1>1. OrderInv
  BY DEF Init, LinkInit, OrderInv
<1>2. PassedInv
  BY DEF Init, DecInit, NoSymbols, PassedInv, Passed
<1> QED
  BY <1>1, <1>2, TypeInit, CountInit DEF OrderedInv

LEMMA OrderedStep ==
    ASSUME NoOverflow, ~Reorder, OrderedInv, [Next]_vars
    PROVE  OrderedInv'
<1>1. TypeInv'
  BY TypeStep DEF OrderedInv
<1> QED
  BY <1>1, BlocksStep, LinkStep, CountStep, OrderStep, PassedStep DEF OrderedInv

LEMMA NotOverDelivered == OrderedInv => NoOverDelivery
<1> SUFFICES ASSUME OrderedInv, NEW s \in Slots
             PROVE  txTotal[s] + nbuffered[s] <= rxTotal[s]
  BY DEF NoOverDelivery
<1> USE DEF OrderedInv
<1> DEFINE passed == Passed(startAt, decSbid, nrcv, nsymb, nsymbcontig, s)
<1>1. /\ txTotal[s] \in Nat /\ nbuffered[s] \in Nat /\ rxTotal[s] \in Nat
      /\ txTotal[s] + nbuffered[s] <= passed /\ passed \in Nat
  BY PassedNow DEF PassedInv, TypeInv, TypeOK, EncTypeOK, DecTypeOK
<1>2. CASE decSbid = -1
  BY <1>1, <1>2 DEF Passed
<1>3. CASE decSbid # -1
  <2>1. decSbid \in 0 .. encSbid
    BY <1>3 DEF CountInv, TypeInv, TypeOK, EncTypeOK
  <2>2. passed <= Ends[decSbid][s] /\ Ends[decSbid][s] <= rxTotal[s]
    BY <2>1, PassedNow, EndsOrder
  <2>3. Ends[decSbid][s] \in Nat
    BY <2>1, EndsNow
  <2> HIDE DEF passed
  <2> QED
    BY <1>1, <2>2, <2>3
<1> QED
  BY <1>2, <1>3

(* On a link that keeps the order, whatever it loses or duplicates and for *)
(* every K, N, T and number of streams, the decoder never passes on more   *)
(* bytes of a stream than the encoder read from it (m_nbuffered and total  *)
(* of rq-decoder.cc, total of rq-encoder.cc).                              *)
THEOREM NoOverDeliveryCorrect ==
    ASSUME NoOverflow, ~Reorder
    PROVE  Spec => []NoOverDelivery
BY OrderedInit, OrderedStep, NotOverDelivered, PTL DEF Spec

(* ... and the coded relay implements byte streams: the symbols SendPacket *)
(* reads are taken from one stream, the bytes TryToSend writes were taken  *)
(* from the same stream before.                                            *)
THEOREM ImplementsStreamsCorrect ==
    ASSUME NoOverflow, ~Reorder
    PROVE  Spec => ImplementsStreams
<1>1. Init => Stream!Init
  BY DEF Init, EncInit, DecInit, NoSymbols, Stream!Init
<1>2. OrderedInv /\ [Next]_vars => [Stream!Next]_<<rxTotal, txTotal>>
  <2> SUFFICES ASSUME OrderedInv, [Next]_vars, OrderedInv'
               PROVE  [Stream!Next]_<<rxTotal, txTotal>>
    BY OrderedStep
  <2>0. /\ txTotal \in [Slots -> Nat] /\ nbuffered \in [Slots -> Nat]
        /\ rxTotal \in [Slots -> Nat]
        /\ txTotal' \in [Slots -> Nat] /\ nbuffered' \in [Slots -> Nat]
    BY DEF OrderedInv, TypeInv, TypeOK, EncTypeOK, DecTypeOK
  <2>1. ASSUME NEW sid \in Slots \cup {NoStream}, NEW counts \in [Slots -> Nat],
               Sent(sid, counts)
        PROVE  [Stream!Next]_<<rxTotal, txTotal>>
    <3>1. CASE sid \in Slots
      <4>1. rxTotal' = [rxTotal EXCEPT ![sid] = @ + T] /\ txTotal' = txTotal
        BY <2>1, <3>1 DEF Sent, PacketSent
      <4>2. rxTotal'[sid] > rxTotal[sid] /\ rxTotal' = [rxTotal EXCEPT ![sid] = rxTotal'[sid]]
        BY <2>0, <3>1, <4>1, ParamAssumption
      <4>3. Stream!Take(sid)
        BY <4>1, <4>2 DEF Stream!Take
      <4> QED
        BY <3>1, <4>3 DEF Stream!Next
    <3>2. CASE sid = NoStream
      BY <2>1, <3>2 DEF Sent, PacketSent
    <3> QED
      BY <3>1, <3>2
  <2>2. ASSUME NEW p \in link, PacketCounted(p) \/ PacketGone(p)
        PROVE  [Stream!Next]_<<rxTotal, txTotal>>
    BY <2>2 DEF PacketCounted, PacketGone, EncoderUnchanged
  <2>3. CASE QuietStep
    <3>1. NoOverDelivery
      BY NotOverDelivered
    <3>2. ASSUME NEW s \in Slots PROVE txTotal[s] <= txTotal'[s] /\ txTotal'[s] <= rxTotal[s]
      <4>1. /\ txTotal'[s] + nbuffered'[s] = txTotal[s] + nbuffered[s]
            /\ txTotal[s] <= txTotal'[s]
        BY <2>3 DEF QuietStep
      <4>2. txTotal[s] + nbuffered[s] <= rxTotal[s]
        BY <3>1 DEF NoOverDelivery
      <4>3. /\ txTotal[s] \in Nat /\ nbuffered[s] \in Nat /\ rxTotal[s] \in Nat
            /\ txTotal'[s] \in Nat /\ nbuffered'[s] \in Nat
        BY <2>0
      <4> QED
        BY <4>1, <4>2, <4>3
    <3>3. Stream!Deliver
      BY <2>0, <2>3, <3>2 DEF Stream!Deliver, QuietStep, EncoderUnchanged
    <3> QED
      BY <3>3 DEF Stream!Next
  <2> QED
    BY <2>1, <2>2, <2>3, StepForms DEF OrderedInv
<1> QED
  BY <1>1, <1>2, OrderedInit, OrderedStep, PTL DEF Spec, ImplementsStreams, Stream!Spec

-----------------------------------------------------------------------------
(* A link that also loses no more than N - K packets of a block: every     *)
(* sequence number sent was counted, or lost, or is still under way.       *)
LEMMA NotStaleInOrder ==
    ASSUME NoOverflow, ~Reorder, TypeInv, LinkInv, CountInv, OrderInv, NEW p \in link
    PROVE  ~Stale(p)
<1> SUFFICES ASSUME Stale(p) PROVE FALSE
  OBVIOUS
<1>1. /\ BlockOf(p.seqno) < decSbid /\ BlockOf(p.seqno) \in Nat /\ p.seqno \in Nat
      /\ decSbid \in Int
  BY Decoded, PacketType DEF Stale, TypeInv, TypeOK, DecTypeOK
<1>2. PICK n \in counted : BlockOf(n) = decSbid
  BY <1>1 DEF CountInv
<1>3. n \in Nat /\ n <= p.seqno
  BY DEF OrderInv, TypeInv, TypeOK
<1>4. BlockOf(n) <= BlockOf(p.seqno)
  BY <1>1, <1>3, BlockOrder
<1> QED
  BY <1>1, <1>2, <1>4

LEMMA LossStep ==
    ASSUME NoOverflow, ~Reorder, DupBudget = 0, TypeInv, BlocksInv, LinkInv, CountInv,
           OrderInv, LossInv, [Next]_vars
    PROVE  LossInv'
<1>0. Seqno \in Nat /\ lost \in SUBSET Nat
  <2>1. encSbid \in Nat /\ esi \in Nat /\ N * encSbid \in Nat
    BY TimesN DEF TypeInv, TypeOK, EncTypeOK
  <2> QED
    BY <2>1 DEF Seqno, TypeInv, TypeOK, LinkTypeOK
<1>1. CASE EncoderUnchanged /\ UNCHANGED <<link, lost, counted>>
  BY <1>1 DEF LossInv, EncoderUnchanged, Seqno
<1>2. ASSUME NEW sid, NEW counts, Sent(sid, counts) PROVE LossInv'
  <2>1. /\ Seqno' = Seqno + 1
        /\ link' = link \cup {Header(Seqno, sid, counts)}
        /\ UNCHANGED <<lost, counted>>
    BY <1>2, NextSeqno DEF Sent, PacketSent, Send
  <2>2. Header(Seqno, sid, counts).seqno = Seqno
    BY DEF Header
  <2>3. ASSUME NEW n \in 0 .. Seqno' - 1
        PROVE  n \in counted' \/ n \in lost' \/ \E p \in link' : p.seqno = n
    <3>1. n = Seqno \/ n \in 0 .. Seqno - 1
      BY <1>0, <2>1
    <3> QED
      BY <2>1, <2>2, <3>1 DEF LossInv
  <2> QED
    BY <2>1, <2>3 DEF LossInv
<1>3. ASSUME NEW p \in link, PacketCounted(p) PROVE LossInv'
  BY <1>3 DEF LossInv, PacketCounted, EncoderUnchanged, Seqno
<1>4. ASSUME NEW p \in link, PacketGone(p) PROVE LossInv'
  <2>1. Lose(p) /\ counted' = counted /\ Seqno' = Seqno
    BY <1>4, NotStaleInOrder DEF PacketGone, EncoderUnchanged, Seqno
  <2>2. /\ link' = link \ {p} /\ lost' = lost \cup {p.seqno}
        /\ Cardinality(InBlock(lost, BlockOf(p.seqno))) < LossBudget
    BY <2>1 DEF Lose, InBlock
  <2>3. \A n \in 0 .. Seqno' - 1 : n \in counted' \/ n \in lost' \/ \E q \in link' : q.seqno = n
    BY <2>1, <2>2 DEF LossInv
  <2>4. IsFiniteSet(lost) /\ p.seqno \in Nat
    BY PacketType DEF LossInv
  <2>5. IsFiniteSet(lost')
    BY <2>2, <2>4, FS_AddElement
  <2>6. ASSUME NEW b \in Nat PROVE Cardinality(InBlock(lost', b)) <= LossBudget
    <3>1. Cardinality(InBlock(lost, b)) <= LossBudget
      BY DEF LossInv
    <3>2. CASE p.seqno \in lost
      <4>1. lost' = lost
        BY <2>2, <3>2
      <4> QED
        BY <3>1, <4>1
    <3>3. CASE p.seqno \notin lost
      <4>1. /\ Cardinality(InBlock(lost', b)) =
                 Cardinality(InBlock(lost, b)) + (IF BlockOf(p.seqno) = b THEN 1 ELSE 0)
            /\ Cardinality(InBlock(lost, b)) \in Nat
        BY <1>0, <2>2, <2>4, <3>3, InBlockAdd
      <4> QED
        BY <2>2, <3>1, <4>1, LinkAssumption
    <3> QED
      BY <3>2, <3>3
  <2> QED
    BY <2>3, <2>5, <2>6 DEF LossInv
<1> QED
  BY <1>1, <1>2, <1>3, <1>4, StepForms DEF QuietStep

(* Of every block before that of the next packet, K packets were counted.  *)
LEMMA EnoughCounted ==
    ASSUME ~Reorder, K + LossBudget <= N, TypeInv, LinkInv, OnceInv, LossInv,
           NEW p \in link, Arriving(p), NEW b \in Nat, b < BlockOf(p.seqno)
    PROVE  /\ Cardinality(InBlock(counted, b)) >= K
           /\ InBlock(counted, b) # {}
<1> DEFINE first == N * b
           all == first .. first + N - 1
           got == InBlock(counted, b)
           gone == InBlock(lost, b)
<1>1. first \in Nat /\ N \in Nat \ {0} /\ K \in Nat \ {0} /\ LossBudget \in Nat
  BY TimesN, ParamAssumption, LinkAssumption
<1>2. first + N <= p.seqno /\ p.seqno \in Nat
  <2>1. p.seqno \in Nat /\ BlockOf(p.seqno) \in Nat /\ p.seqno % N \in Nat
        /\ p.seqno = N * BlockOf(p.seqno) + (p.seqno % N)
    BY PacketType, BlockPosition
  <2>2. N * (b + 1) = N * b + N /\ N * (b + 1) <= N * BlockOf(p.seqno)
    BY <2>1, TimesN
  <2>3. N * BlockOf(p.seqno) \in Nat
    BY <2>1, TimesN
  <2> QED
    BY <1>1, <2>1, <2>2, <2>3
<1>3. p.seqno < Seqno /\ Seqno \in Nat
  <2>1. encSbid \in Nat /\ esi \in Nat /\ N * encSbid \in Nat
    BY TimesN DEF TypeInv, TypeOK, EncTypeOK
  <2> QED
    BY <2>1 DEF Seqno, LinkInv
<1>4. ASSUME NEW n \in all PROVE n \in got \cup gone
  <2>1. n \in 0 .. Seqno - 1 /\ n < p.seqno
    BY <1>1, <1>2, <1>3
  <2>2. ~ \E q \in link : q.seqno = n
    BY <1>2, <2>1 DEF Arriving
  <2>3. n \in counted \/ n \in lost
    BY <2>1, <2>2 DEF LossInv
  <2>4. BlockOf(n) = b
    <3>1. n - first \in 0 .. N - 1 /\ n = first + (n - first)
      BY <1>1
    <3>2. BlockOf(N * b + (n - first)) = b
      BY <3>1, SeqnoPosition
    <3> QED
      BY <3>1, <3>2
  <2> QED
    BY <2>3, <2>4 DEF InBlock
<1>5. IsFiniteSet(got) /\ IsFiniteSet(gone)
  <2>1. got \in SUBSET counted /\ gone \in SUBSET lost
    BY DEF InBlock
  <2> QED
    BY <2>1, FS_Subset DEF OnceInv, LossInv
<1>6. Cardinality(gone) <= LossBudget
  BY DEF LossInv
<1>7. Cardinality(all) = N /\ IsFiniteSet(all)
  <2> HIDE DEF first
  <2> QED
    BY <1>1, FS_Interval
<1> HIDE DEF first, all, got, gone
<1>8. /\ Cardinality(got) \in Nat /\ Cardinality(gone) \in Nat
      /\ IsFiniteSet(got \cap gone) /\ Cardinality(got \cap gone) \in Nat
  <2>1. IsFiniteSet(got \cap gone)
    BY <1>5, FS_Subset
  <2> QED
    BY <1>5, <2>1, FS_CardinalityType
<1>9. /\ IsFiniteSet(got \cup gone)
      /\ Cardinality(got \cup gone) =
             Cardinality(got) + Cardinality(gone) - Cardinality(got \cap gone)
  BY <1>5, FS_Union
<1>10. Cardinality(all) <= Cardinality(got \cup gone)
  <2>1. all \in SUBSET (got \cup gone)
    BY <1>4
  <2> QED
    BY <1>9, <2>1, FS_Subset
<1>11. Cardinality(got) >= K
  BY <1>1, <1>6, <1>7, <1>8, <1>9, <1>10
<1>12. got # {}
  BY <1>1, <1>11, FS_EmptySet
<1> QED
  BY <1>11, <1>12 DEF got

(* So the decoder enters the blocks one after the other, and only when the *)
(* one before is decoded.                                                  *)
LEMMA NextBlockInOrder ==
    ASSUME NoOverflow, ~Reorder, K + LossBudget <= N, TypeInv, BlocksInv, LinkInv, CountInv,
           OnceInv, LossInv, NEW p \in link, PacketCounted(p), NewBlock(p), NEW s \in Slots
    PROVE  Passed(startAt, decSbid, nrcv, nsymb, nsymbcontig, s) =
               startAt[BlockOf(p.seqno)][s]
<1> DEFINE b == BlockOf(p.seqno)
<1>1. /\ decSbid \in -1 .. encSbid /\ encSbid \in Nat /\ b \in Nat /\ b > decSbid
      /\ Arriving(p) /\ b <= encSbid
  BY Decoded, PacketType
  DEF CountInv, LinkInv, TypeInv, TypeOK, EncTypeOK, PacketCounted, NewBlock
<1>2. b = decSbid + 1
  <2> SUFFICES ASSUME b # decSbid + 1 PROVE FALSE
    OBVIOUS
  <2>1. decSbid + 1 \in Nat /\ decSbid + 1 < b
    BY <1>1
  <2>2. PICK n \in InBlock(counted, decSbid + 1) : TRUE
    BY <1>1, <2>1, EnoughCounted
  <2>3. n \in counted /\ BlockOf(n) = decSbid + 1
    BY <2>2 DEF InBlock
  <2>4. BlockOf(n) <= decSbid
    BY <2>3 DEF CountInv
  <2> QED
    BY <1>1, <2>3, <2>4
<1>3. CASE decSbid = -1
  <2>1. b = 0 /\ startAt[0][s] = 0
    BY <1>2, <1>3 DEF BlocksInv, NoSymbols
  <2> QED
    BY <1>3, <2>1 DEF Passed
<1>4. CASE decSbid # -1
  <2>1. decSbid \in 0 .. encSbid - 1 /\ decSbid \in Nat /\ decSbid >= 0
    BY <1>1, <1>2, <1>4
  <2>2. nrcv >= K
    BY <1>1, <2>1, EnoughCounted DEF OnceInv
  <2>3. startAt[decSbid][s] + T * nsymb[s] = Ends[decSbid][s]
    BY <2>1, <2>2, KnownFull DEF Full
  <2>4. Ends[decSbid] = startAt[decSbid + 1]
    BY <2>1, EndsNow
  <2> QED
    BY <1>2, <1>4, <2>2, <2>3, <2>4 DEF Passed
<1> QED
  BY <1>3, <1>4

LEMMA RecoverStep ==
    ASSUME NoOverflow, ~Reorder, DupBudget = 0, K + LossBudget <= N,
           TypeInv, TypeInv', BlocksInv, LinkInv, CountInv, OnceInv, OrderInv, LossInv,
           RecoverInv, [Next]_vars
    PROVE  RecoverInv'
<1> SUFFICES ASSUME NEW s \in Slots
             PROVE  txTotal'[s] + nbuffered'[s]
                        = Passed(startAt', decSbid', nrcv', nsymb', nsymbcontig', s)
  BY DEF RecoverInv
<1>0. /\ txTotal[s] + nbuffered[s] = Passed(startAt, decSbid, nrcv, nsymb, nsymbcontig, s)
      /\ txTotal[s] \in Nat /\ nbuffered[s] \in Nat
  BY DEF RecoverInv, TypeInv, TypeOK, DecTypeOK
<1>1. ASSUME NEW sid \in Slots \cup {NoStream}, NEW counts \in [Slots -> Nat], Sent(sid, counts)
      PROVE  /\ UNCHANGED <<blockVars, txTotal, nbuffered>>
             /\ decSbid # -1 => startAt'[decSbid] = startAt[decSbid]
  <2>1. decSbid # -1 => decSbid \in 0 .. encSbid
    BY DEF CountInv, TypeInv, TypeOK, EncTypeOK
  <2> QED
    BY <1>1, <2>1, SentBlocks DEF Sent
<1>2. CASE \E sid \in Slots \cup {NoStream}, counts \in [Slots -> Nat] : Sent(sid, counts)
  BY <1>0, <1>1, <1>2 DEF Passed, blockVars
<1>3. ASSUME NEW p \in link, PacketCounted(p)
      PROVE  txTotal'[s] + nbuffered'[s]
                 = Passed(startAt', decSbid', nrcv', nsymb', nsymbcontig', s)
  <2> DEFINE b == BlockOf(p.seqno)
             base == startAt[b][s]
             total == txTotal[s] + nbuffered[s]
             passed == Passed(startAt, decSbid, nrcv, nsymb, nsymbcontig, s)
  <2>1. /\ base \in Nat /\ total \in Nat /\ total = passed /\ b \in 0 .. encSbid
        /\ NewBlock(p) => Before(p, s) = 0
        /\ ~NewBlock(p) => b = decSbid /\ passed = base + T * Before(p, s)
        /\ txTotal'[s] + nbuffered'[s] = total + PassedOn(p, s)
        /\ Passed(startAt', decSbid', nrcv', nsymb', nsymbcontig', s) = base + T * After(p, s)
    BY <1>0, <1>3, CountedBlock
  <2>2. /\ Before(p, s) \in Nat /\ After(p, s) \in Nat /\ PassedOn(p, s) \in Nat
        /\ RcvAfter(p) <= K => T * Before(p, s) + PassedOn(p, s) = T * After(p, s)
        /\ RcvAfter(p) > K =>
               /\ ~NewBlock(p) /\ nrcv >= K
               /\ T * Before(p, s) + PassedOn(p, s) = T * (nsymb[s] + OneIfNext(p, s))
    BY PassedOnAdds
  <2>3. T * Before(p, s) \in Nat /\ T * After(p, s) \in Nat /\ T * 0 = 0
    BY <2>2, TimesT
  <2>4. NewBlock(p) => passed = base
    BY <1>3, NextBlockInOrder
  <2>5. T * Before(p, s) + PassedOn(p, s) = T * After(p, s)
    <3>1. CASE RcvAfter(p) <= K
      BY <2>2, <3>1
    <3>2. CASE RcvAfter(p) > K
      <4>1. ~NewBlock(p) /\ nrcv >= K /\ After(p, s) = SymbAfter(p)[s]
        BY <2>2, <3>2, CounterTypes, PacketType, ParamAssumption DEF After
      <4>2. /\ nsymb \in [Slots -> Nat] /\ SymbAfter(p) \in [Slots -> Nat]
            /\ b = decSbid /\ decSbid >= 0 /\ ~Stale(p)
            /\ p.iseq[s] \in Nat
        <5>1. b = decSbid /\ b >= 0
          BY <2>1, <4>1
        <5>2. ~Stale(p)
          BY <1>3 DEF PacketCounted, CountPacket
        <5>3. nsymb \in [Slots -> Nat] /\ SymbAfter(p) \in [Slots -> Nat] /\ p.iseq[s] \in Nat
          BY CounterTypes, PacketType DEF TypeInv, TypeOK, DecTypeOK
        <5> QED
          BY <5>1, <5>2, <5>3
      <4>3. Full(startAt, Ends, b, nsymb)
        BY <4>1, <4>2, KnownFull
      <4>4. Fits(startAt, Ends, b, SymbAfter(p))
        BY <4>2, CountedClaims
      <4>5. \A r \in Slots : nsymb[r] <= SymbAfter(p)[r]
        BY <4>1, SymbAfterIs
      <4>6. nsymb[s] = SymbAfter(p)[s]
        BY <2>1, <4>2, <4>3, <4>4, <4>5, FullLargest
      <4>7. OneIfNext(p, s) = 0
        <5>1. ASSUME s = p.streamid PROVE FALSE
          <6>1. p.seqno \notin counted
            BY DEF OnceInv
          <6>2. nsymb[s] < p.iseq[s]
            BY <4>2, <5>1, <6>1 DEF OrderInv
          <6>3. p.iseq[s] <= SymbAfter(p)[s]
            BY SymbAfterIs
          <6> QED
            BY <4>2, <4>6, <6>2, <6>3
        <5> QED
          BY <5>1 DEF OneIfNext
      <4> HIDE DEF b
      <4> QED
        BY <2>2, <3>2, <4>1, <4>2, <4>6, <4>7
    <3>3. RcvAfter(p) \in Nat /\ K \in Nat
      BY CounterTypes, PacketType, ParamAssumption
    <3> QED
      BY <3>1, <3>2, <3>3
  <2> HIDE DEF base, total, passed
  <2>6. total = base + T * Before(p, s)
    <3>1. NewBlock(p) => T * Before(p, s) = 0
      BY <2>1, <2>3
    <3> QED
      BY <2>1, <2>3, <2>4, <3>1
  <2> QED
    BY <2>1, <2>2, <2>3, <2>5, <2>6
<1>4. ASSUME NEW p \in link, PacketGone(p)
      PROVE  UNCHANGED <<startAt, blockVars, txTotal, nbuffered>>
  BY <1>4 DEF PacketGone, EncoderUnchanged
<1>5. CASE QuietStep
  BY <1>0, <1>5 DEF QuietStep, EncoderUnchanged, blockVars
<1> QED
  BY <1>0, <1>2, <1>3, <1>4, <1>5, StepForms DEF blockVars

LEMMA RecoverInit == Init => LossInv /\ RecoverInv
<1> SUFFICES ASSUME Init PROVE LossInv /\ RecoverInv
  OBVIOUS
<1>1. LossInv
  <2>1. Seqno = 0 /\ lost = {}
    BY ParamAssumption DEF Init, EncInit, LinkInit, Seqno
  <2>2. \A b \in Nat : InBlock(lost, b) = {}
    BY <2>1 DEF InBlock
  <2> QED
    BY <2>1, <2>2, FS_EmptySet, LinkAssumption DEF LossInv
<1>2. RecoverInv
  BY DEF Init, DecInit, NoSymbols, RecoverInv, Passed
<1> QED
  BY <1>1, <1>2

(* On a link that keeps the order, duplicates nothing and loses no more    *)
(* than N - K packets of a block, every block is recovered: the decoder    *)
(* has passed on all bytes of every earlier block and, of the current one, *)
(* the symbols received without a gap, or all once K packets have come.    *)
THEOREM BlocksRecoveredCorrect ==
    ASSUME NoOverflow, ~Reorder, DupBudget = 0, K + LossBudget <= N
    PROVE  Spec => []BlocksRecovered
<1> DEFINE Inv == OrderedInv /\ OnceInv /\ LossInv /\ RecoverInv
<1>1. Init => Inv
  BY OrderedInit, CountInit, RecoverInit
<1>2. Inv /\ [Next]_vars => Inv'
  <2> SUFFICES ASSUME Inv, [Next]_vars PROVE Inv'
    OBVIOUS
  <2>1. OrderedInv'
    BY OrderedStep
  <2> QED
    BY <2>1, OnceStep, LossStep, RecoverStep DEF OrderedInv
<1>3. Inv => BlocksRecovered
  BY DEF RecoverInv, BlocksRecovered, Passed
<1> HIDE DEF Inv
<1> QED
  BY <1>1, <1>2, <1>3, PTL DEF Spec
=============================================================================
