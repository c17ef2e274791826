------------------------ MODULE FileTransfer_proofs -------------------------
(***************************************************************************)
(* Proofs about FileTransfer, for every chunk size, send buffer and file   *)
(* size: no byte is lost or counted twice, the limit is kept, and a server *)
(* whose chunks fit into the send buffer never waits in vain.              *)
(***************************************************************************)
EXTENDS FileTransfer, TLAPS

(* The flag m_connected follows the connection, and SendData runs only     *)
(* while connected.                                                        *)
ConnInv ==
    /\ connected <=> conn = "open"
    /\ pc # "idle" => connected
    /\ ~started => conn = "none"

(* What makes the two accounting properties inductive. *)
TransferInv ==
    /\ TypeOK
    /\ ConnInv
    /\ BytesConserved
    /\ ClosesWhenDone

(* A chunk is positive and never goes beyond the limit.                    *)
LEMMA ToSendBounds ==
    ASSUME totBytes \in Nat, MoreToSend
    PROVE  /\ ToSend \in 1 .. SendSize
           /\ MaxBytes > 0 => totBytes + ToSend <= MaxBytes
BY BulkAssumption DEF ToSend, Lesser, MoreToSend

(* What Send() takes fits into the buffer; if it is not the whole chunk,   *)
(* the chunk did not fit.                                                  *)
LEMMA SendResultBounds ==
    ASSUME buf \in 0 .. TxBuf, NEW n \in Nat \ {0}, NEW a \in SendResult(n)
    PROVE  /\ a \in Int
           /\ a > 0 => a <= n /\ buf + a <= TxBuf
           /\ a # n => a < n /\ n > TxBuf - buf
BY BulkAssumption DEF SendResult

LEMMA TransferInit == Init => TransferInv
<1> SUFFICES ASSUME Init PROVE TransferInv
  OBVIOUS
<1> USE BulkAssumption DEF Init, BulkInit, SinkInit
<1>1. TypeOK
  <2>1. started \in BOOLEAN /\ stopped \in BOOLEAN /\ connected \in BOOLEAN
        /\ accepted \in BOOLEAN
    OBVIOUS
  <2>2. totBytes \in Nat /\ buf \in 0 .. TxBuf /\ arrived \in 0 .. buf /\ refused \in Nat
    OBVIOUS
  <2>3. SinkTypeOK
    BY DEF SinkTypeOK
  <2> QED
    BY <2>1, <2>2, <2>3 DEF TypeOK, BulkTypeOK
<1>2. ConnInv
  BY DEF ConnInv
<1>3. BytesConserved /\ ClosesWhenDone
  BY DEF BytesConserved, ClosesWhenDone
<1> QED
  BY <1>1, <1>2, <1>3 DEF TransferInv

LEMMA TransferStep == TransferInv /\ [Next]_vars => TransferInv'
<1> SUFFICES ASSUME TransferInv, [Next]_vars PROVE TransferInv'
  OBVIOUS
<1> USE BulkAssumption DEF TransferInv, TypeOK, BulkTypeOK, SinkTypeOK, ConnInv,
                           BytesConserved, ClosesWhenDone
<1>1. CASE Server(BulkStart)
  BY <1>1 DEF Server, BulkStart, sinkVars
<1>2. CASE Server(BulkStop)
  BY <1>2 DEF Server, BulkStop, sinkVars
<1>3. CASE Connect
  BY <1>3 DEF Connect, Server, ConnectionSucceeded, sinkVars
<1>4. CASE Refuse
  BY <1>4 DEF Refuse, Server, ConnectionFailed, sinkVars
<1>5. CASE Server(SendChunk)
  <2>1. PICK actual \in SendResult(ToSend) :
            /\ totBytes' = IF actual > 0 THEN totBytes + actual ELSE totBytes
            /\ buf' = IF actual > 0 THEN buf + actual ELSE buf
            /\ pc' = IF actual = ToSend THEN "loop" ELSE "check"
    BY <1>5 DEF Server, SendChunk
  <2>2. /\ ToSend \in 1 .. SendSize
        /\ MaxBytes > 0 => totBytes + ToSend <= MaxBytes
    BY <1>5, ToSendBounds DEF Server, SendChunk
  <2>3. /\ actual \in Int
        /\ actual > 0 => actual <= ToSend /\ buf + actual <= TxBuf
    BY <2>2, SendResultBounds
  <2>4. /\ pc = "loop"
        /\ UNCHANGED <<started, stopped, conn, connected, arrived>>
        /\ UNCHANGED <<sinkRun, socketList, rcvBuf, totalRx, rxTrace, accepted, refused>>
    BY <1>5 DEF Server, SendChunk, sinkVars
  <2>5. TypeOK'
    BY <2>1, <2>2, <2>3, <2>4
  <2>6. BytesConserved'
    BY <2>1, <2>3, <2>4
  <2>7. ConnInv' /\ ClosesWhenDone'
    BY <2>1, <2>2, <2>3, <2>4
  <2> QED
    BY <2>5, <2>6, <2>7
<1>6. CASE Server(EndSendData)
  BY <1>6 DEF Server, EndSendData, sinkVars, MoreToSend
<1>7. CASE Server(DataSend)
  BY <1>7 DEF Server, DataSend, sinkVars
<1>8. CASE Client(SinkStart)
  BY <1>8 DEF Client, SinkStart, bulkVars
<1>9. CASE StopAllowed /\ pc = "idle" /\ Client(SinkStop)
  BY <1>9 DEF Client, SinkStop, bulkVars
<1>10. CASE Accept
  BY <1>10 DEF Accept, HandleAccept, bulkVars
<1>11. ASSUME NEW n \in 1 .. TxBuf, Deliver(n) PROVE TransferInv'
  BY <1>11 DEF Deliver, Transfer
<1>12. ASSUME NEW n \in 1 .. TxBuf, Reset(n) PROVE TransferInv'
  BY <1>12 DEF Reset, Transfer, sinkVars
<1>13. CASE Read
  BY <1>13 DEF Read, Client, HandleRead, bulkVars
<1>14. CASE UNCHANGED vars
  BY <1>14 DEF vars, bulkVars, sinkVars
<1> QED
  BY <1>1, <1>2, <1>3, <1>4, <1>5, <1>6, <1>7, <1>8, <1>9, <1>10, <1>11, <1>12,
     <1>13, <1>14 DEF Next

(* Type correctness of the server, the client and the connection.          *)
THEOREM TransferTypeCorrect == Spec => []TypeOK
<1>1. TransferInv => TypeOK
  BY DEF TransferInv
<1> QED
  BY <1>1, TransferInit, TransferStep, PTL DEF Spec

(* m_totBytes and m_totalRx agree: every byte the server counts as sent is *)
(* in its socket, with the client, or refused by a client that stopped.    *)
THEOREM BytesConservedCorrect == Spec => []BytesConserved
<1>1. TransferInv => BytesConserved
  BY DEF TransferInv
<1> QED
  BY <1>1, TransferInit, TransferStep, PTL DEF Spec

(* The server sends no more than MaxBytes and closes its connection only   *)
(* when it has sent them all or is stopped.                                *)
THEOREM ClosesWhenDoneCorrect == Spec => []ClosesWhenDone
<1>1. TransferInv => ClosesWhenDone
  BY DEF TransferInv
<1> QED
  BY <1>1, TransferInit, TransferStep, PTL DEF Spec

-----------------------------------------------------------------------------
(* The socket refused part of a chunk: it holds bytes, and more are to be  *)
(* sent.                                                                   *)
WakeupInv ==
    /\ NoLostWakeup
    /\ pc = "check" => MoreToSend /\ buf > 0

LEMMA WakeupInit == Init => WakeupInv
BY DEF Init, BulkInit, WakeupInv, NoLostWakeup

LEMMA WakeupStep ==
    ASSUME SendSize <= TxBuf, TransferInv, WakeupInv, [Next]_vars
    PROVE  WakeupInv'
<1> USE BulkAssumption DEF WakeupInv, NoLostWakeup
<1>a. TypeOK /\ ConnInv /\ ClosesWhenDone
  BY DEF TransferInv
<1> USE <1>a DEF TypeOK, BulkTypeOK, ConnInv
<1>1. CASE Server(BulkStart)
  BY <1>1 DEF Server, BulkStart
<1>2. CASE Server(BulkStop)
  BY <1>2 DEF Server, BulkStop
<1>3. CASE Connect
  BY <1>3 DEF Connect, Server, ConnectionSucceeded
<1>4. CASE Refuse
  BY <1>4 DEF Refuse, Server, ConnectionFailed
<1>5. CASE Server(SendChunk)
  <2>1. PICK actual \in SendResult(ToSend) :
            /\ totBytes' = IF actual > 0 THEN totBytes + actual ELSE totBytes
            /\ buf' = IF actual > 0 THEN buf + actual ELSE buf
            /\ pc' = IF actual = ToSend THEN "loop" ELSE "check"
    BY <1>5 DEF Server, SendChunk
  <2>2. /\ ToSend \in 1 .. SendSize
        /\ MaxBytes > 0 => totBytes + ToSend <= MaxBytes
    BY <1>5, ToSendBounds DEF Server, SendChunk
  <2>3. /\ actual \in Int
        /\ actual # ToSend => actual < ToSend /\ ToSend > TxBuf - buf
    BY <2>2, SendResultBounds
  <2>4. CASE actual = ToSend
    BY <2>1, <2>4
  <2>5. CASE actual # ToSend
    <3>1. buf' > 0
      BY <2>1, <2>2, <2>3, <2>5
    <3>2. MoreToSend'
      BY <2>1, <2>2, <2>3, <2>5 DEF MoreToSend
    <3> QED
      BY <2>1, <2>5, <3>1, <3>2
  <2> QED
    BY <2>4, <2>5
<1>6. CASE Server(EndSendData)
  <2>1. CASE pc = "check"
    BY <1>6, <2>1 DEF Server, EndSendData, MoreToSend
  <2>2. CASE pc = "loop" /\ ~MoreToSend
    <3>1. totBytes = MaxBytes /\ connected
      BY <2>2 DEF MoreToSend, ClosesWhenDone
    <3> QED
      BY <1>6, <2>2, <3>1 DEF Server, EndSendData
  <2> QED
    BY <1>6, <2>1, <2>2 DEF Server, EndSendData
<1>7. CASE Server(DataSend)
  BY <1>7 DEF Server, DataSend
<1>8. CASE \E n \in 1 .. TxBuf : Deliver(n) \/ Reset(n)
  BY <1>8 DEF Deliver, Reset, Transfer, MoreToSend
<1>9. CASE UNCHANGED bulkVars
  BY <1>9 DEF bulkVars, MoreToSend
<1>10. CASE UNCHANGED vars
  BY <1>9, <1>10 DEF vars
<1>11. Client(SinkStart) \/ (StopAllowed /\ pc = "idle" /\ Client(SinkStop))
           \/ Accept \/ Read => UNCHANGED bulkVars
  BY DEF Client, Accept, Read
<1> QED
  BY <1>1, <1>2, <1>3, <1>4, <1>5, <1>6, <1>7, <1>8, <1>9, <1>10, <1>11 DEF Next

(* A server whose chunks fit into the send buffer and that is connected    *)
(* and idle has bytes under way, whose acknowledgement will call DataSend. *)
(* With larger chunks the first Send() fails and nobody calls DataSend.    *)
THEOREM NoLostWakeupCorrect ==
    ASSUME SendSize <= TxBuf
    PROVE  Spec => []NoLostWakeup
<1>1. Init => TransferInv /\ WakeupInv
  BY TransferInit, WakeupInit
<1>2. TransferInv /\ WakeupInv /\ [Next]_vars => TransferInv' /\ WakeupInv'
  BY TransferStep, WakeupStep
<1>3. WakeupInv => NoLostWakeup
  BY DEF WakeupInv
<1> QED
  BY <1>1, <1>2, <1>3, PTL DEF Spec

-----------------------------------------------------------------------------
(* SendData takes bytes, HandleRead delivers bytes that were taken before, *)
(* and every other step leaves both counts alone: the file server and its  *)
(* client implement the byte stream.                                       *)
THEOREM ImplementsStreamCorrect == Spec => ImplementsStream
<1> DEFINE Taken == [s \in {0} |-> totBytes]
           Delivered == [s \in {0} |-> totalRx]
<1>1. Init => Stream!Init
  BY DEF Init, BulkInit, SinkInit, Stream!Init
<1>2. TransferInv /\ TransferInv' /\ [Next]_vars => [Stream!Next]_<<Taken, Delivered>>
  <2> SUFFICES ASSUME TransferInv, TransferInv', [Next]_vars
               PROVE  [Stream!Next]_<<Taken, Delivered>>
    OBVIOUS
  <2>a. /\ totBytes \in Nat /\ totalRx \in Nat /\ buf \in Nat /\ arrived \in 0 .. buf
        /\ rcvBuf \in Nat /\ refused \in Nat
        /\ totBytes = (buf - arrived) + rcvBuf + totalRx + refused
    BY BulkAssumption DEF TransferInv, TypeOK, BulkTypeOK, SinkTypeOK, BytesConserved
  <2>1. CASE Server(SendChunk)
    <3>1. totalRx' = totalRx
      BY <2>1 DEF Server, sinkVars
    <3>2. totBytes' = totBytes \/ totBytes' > totBytes
      <4>1. PICK actual \in SendResult(ToSend) :
                totBytes' = IF actual > 0 THEN totBytes + actual ELSE totBytes
        BY <2>1 DEF Server, SendChunk
      <4>2. actual \in Int
        <5>1. ToSend \in Nat \ {0}
          BY <2>1, <2>a, ToSendBounds DEF Server, SendChunk
        <5> QED
          BY <5>1, SendResultBounds DEF TransferInv, TypeOK, BulkTypeOK
      <4> QED
        BY <2>a, <4>1, <4>2
    <3>3. CASE totBytes' > totBytes
      <4>1. Stream!Take(0)
        BY <3>1, <3>3 DEF Stream!Take
      <4> QED
        BY <4>1 DEF Stream!Next
    <3> QED
      BY <3>1, <3>2, <3>3
  <2>2. CASE Read
    <3>1. totBytes' = totBytes /\ totalRx' = totalRx + rcvBuf
      BY <2>2 DEF Read, Client, HandleRead, bulkVars
    <3>2. totalRx <= totalRx' /\ totalRx' <= totBytes
      BY <2>a, <3>1
    <3>3. Stream!Deliver
      BY <3>1, <3>2 DEF Stream!Deliver
    <3> QED
      BY <3>3 DEF Stream!Next
  <2>3. CASE Server(BulkStart) \/ Server(BulkStop) \/ Connect \/ Refuse
             \/ Server(EndSendData) \/ Server(DataSend)
    <3>1. totBytes' = totBytes /\ totalRx' = totalRx
      BY <2>3 DEF Server, BulkStart, BulkStop, Connect, Refuse, ConnectionSucceeded,
                  ConnectionFailed, EndSendData, DataSend, sinkVars
    <3> QED
      BY <3>1
  <2>4. CASE Client(SinkStart) \/ Client(SinkStop) \/ Accept
             \/ \E n \in 1 .. TxBuf : Deliver(n) \/ Reset(n)
    <3>1. totBytes' = totBytes /\ totalRx' = totalRx
      BY <2>4 DEF Client, SinkStart, SinkStop, Accept, HandleAccept, Deliver, Reset,
                  Transfer, bulkVars, sinkVars
    <3> QED
      BY <3>1
  <2>5. CASE UNCHANGED vars
    BY <2>5 DEF vars, bulkVars, sinkVars
  <2> QED
    BY <2>1, <2>2, <2>3, <2>4, <2>5 DEF Next
<1> QED
  BY <1>1, <1>2, TransferInit, TransferStep, PTL DEF Spec, ImplementsStream, Stream!Spec
=============================================================================
