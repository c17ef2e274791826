----------------------------- MODULE RqPipeline -----------------------------
(***************************************************************************)
(* The coded relay: TCP peers -> RqEncoder -> UDP link -> RqDecoder -> TCP *)
(* peers, as in scripts/chainsim/sim_configs/rqtest.                       *)
(***************************************************************************)
EXTENDS RqEncoder, RqDecoder

VARIABLES
    startAt,  \* history: rxTotal of the encoder when block b began
    counted   \* history: seqnos of the packets the decoder counted

vars == <<encVars, decVars, linkVars, startAt, counted>>

TypeOK ==
    /\ EncTypeOK
    /\ DecTypeOK
    /\ LinkTypeOK
    /\ startAt \in [0 .. encSbid -> [Slots -> Nat]]
    /\ counted \in SUBSET Nat

Init ==
    /\ EncInit
    /\ DecInit
    /\ LinkInit
    /\ startAt = [b \in 0 .. 0 |-> NoSymbols]
    /\ counted = {}

RecordStart ==
    startAt' = [b \in 0 .. encSbid' |-> IF b <= encSbid THEN startAt[b] ELSE rxTotal']

EncStep ==
    /\ ~reading
    /\ EncNext
    /\ RecordStart
    /\ UNCHANGED <<decVars, counted>>

DecRecv(p) ==
    /\ RecvPacket(p)
    /\ counted' = IF Stale(p) THEN counted ELSE counted \cup {p.seqno}
    /\ UNCHANGED <<encVars, startAt>>

DecStep ==
    /\ DecEvent
    /\ UNCHANGED <<encVars, startAt, counted>>

LinkLoss ==
    /\ ~reading
    /\ \E p \in link : Lose(p)
    /\ UNCHANGED <<encVars, decVars, startAt, counted>>

(* A failed assertion ends the whole simulation. *)
Alive == encRun # "aborted" /\ decRun # "aborted"

Next ==
    /\ Alive
    /\ \/ EncStep
       \/ \E p \in link : DecRecv(p)
       \/ DecStep
       \/ LinkLoss

Spec == Init /\ [][Next]_vars

(* Fairness: the encoder's timer fires for ever; ns-3 delivers the packets *)
(* it does not drop and completes connections; TCP acknowledges and calls  *)
(* the send callback while there is data it can take.                      *)
SendProgress(s) ==
    /\ \E freed \in 0 .. TxBuf : HandleSend(s, freed)
    /\ txTotal' # txTotal
    /\ UNCHANGED <<encVars, startAt, counted>>

Fairness ==
    /\ WF_vars(EncStep /\ SendPacket)
    /\ WF_vars(\E p \in link : DecRecv(p))
    /\ WF_vars(DecStep /\ (EndRead \/ DecStart))
    /\ \A s \in Slots : WF_vars(DecStep /\ DecConnected(s))
    /\ \A s \in Slots : WF_vars(SendProgress(s))

FairSpec == Spec /\ Fairness

-----------------------------------------------------------------------------
(* rxTotal when block b was complete, or now if it is not yet. *)
EndOf(b) == IF b < encSbid THEN startAt[b + 1] ELSE rxTotal

(* On a link that loses and duplicates packets but keeps their order, the  *)
(* decoder never passes on more bytes of a stream than the encoder read    *)
(* from it (m_nbuffered and total in rq-decoder.cc against total in        *)
(* rq-encoder.cc).                                                         *)
NoOverDelivery ==
    \A s \in Slots : txTotal[s] + nbuffered[s] <= rxTotal[s]

(* The abstract streams between the encoder's and the decoder's peers. *)
Stream == INSTANCE ByteStreams WITH Streams <- Slots, taken <- rxTotal,
                                    delivered <- txTotal

(* On such a link the coded relay implements byte streams: no step takes   *)
(* bytes back, reads and delivers at once, or delivers on one stream what  *)
(* was read on another ("transmits the results as TCP stream").            *)
ImplementsStreams == Stream!Spec

(* Once K packets of the block have been received the decoder knows how    *)
(* many symbols of each stream the block holds, whatever was lost and in   *)
(* whatever order the rest came (comment at the nsymb update of            *)
(* HandleRead).                                                            *)
KnownWhenDecodable ==
    decSbid >= 0 /\ nrcv >= K =>
        \A s \in Slots :
            startAt[decSbid][s] + T * nsymb[s] = EndOf(decSbid)[s]

(* If no block loses more than N - K packets, every earlier block has been *)
(* passed on completely, and of the current block exactly the symbols      *)
(* received without a gap, or all of them once K packets have come.        *)
BlocksRecovered ==
    decSbid >= 0 =>
        \A s \in Slots :
            txTotal[s] + nbuffered[s] =
                startAt[decSbid][s]
                + T * (IF nrcv >= K THEN nsymb[s] ELSE nsymbcontig[s])

(* If no block loses more than N - K packets, every block the encoder      *)
(* completes is in the end sent to the receivers in full.                  *)
BlocksDelivered ==
    \A b \in 0 .. MaxBlocks - 1, s \in Slots :
        (encSbid > b) ~> (encSbid > b /\ txTotal[s] >= startAt[b + 1][s])
=============================================================================
