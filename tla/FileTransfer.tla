---------------------------- MODULE FileTransfer ----------------------------
(***************************************************************************)
(* A file server connected to a client (ns3_apps/bulk-send-application.cc, *)
(* ns3_apps/packet-sink.cc) over TCP, which delivers bytes in order and    *)
(* without loss as long as both ends keep their sockets.                   *)
(***************************************************************************)
EXTENDS BulkSend, PacketSink

VARIABLES
    accepted,    \* history: the client has accepted the connection
    refused      \* bytes that reached the client's host after it had stopped

vars == <<bulkVars, sinkVars, accepted, refused>>

TypeOK ==
    /\ BulkTypeOK
    /\ SinkTypeOK
    /\ accepted \in BOOLEAN
    /\ refused \in Nat

Init ==
    /\ BulkInit
    /\ SinkInit
    /\ accepted = FALSE
    /\ refused = 0

Server(A) == A /\ UNCHANGED <<sinkVars, accepted, refused>>
Client(A) == A /\ UNCHANGED <<bulkVars, accepted, refused>>

(* The request to connect is answered by the client's host. *)
Connect == sinkRun = "running" /\ Server(ConnectionSucceeded)
Refuse  == sinkRun # "running" /\ Server(ConnectionFailed)

(* The handshake ends at the client; bytes in the server's buffer tell an  *)
(* established connection from one closed while connecting.                *)
Accept ==
    /\ pc = "idle"
    /\ conn \in {"open", "closed"}
    /\ ~accepted
    /\ buf > 0
    /\ HandleAccept
    /\ accepted' = TRUE
    /\ UNCHANGED <<bulkVars, refused>>

Deliver(n) ==
    /\ accepted
    /\ Transfer(n)
    /\ rcvBuf' = rcvBuf + n
    /\ UNCHANGED <<sinkRun, socketList, totalRx, rxTrace, accepted, refused>>

(* A client that has stopped may answer with a reset. *)
Reset(n) ==
    /\ sinkRun = "stopped"
    /\ Transfer(n)
    /\ refused' = refused + n
    /\ UNCHANGED <<sinkVars, accepted>>

Read == pc = "idle" /\ Client(HandleRead)

Next ==
    \/ Server(BulkStart)
    \/ Server(BulkStop)
    \/ Connect
    \/ Refuse
    \/ Server(SendChunk)
    \/ Server(EndSendData)
    \/ Server(DataSend)
    \/ Client(SinkStart)
    \/ StopAllowed /\ pc = "idle" /\ Client(SinkStop)
    \/ Accept
    \/ \E n \in 1 .. TxBuf : Deliver(n) \/ Reset(n)
    \/ Read

Spec == Init /\ [][Next]_vars

(* Handlers run to their end, the network delivers and acknowledges what   *)
(* is sent, and a receive callback reads.                                  *)
FairSpec ==
    /\ Spec
    /\ WF_vars(Server(SendChunk))
    /\ WF_vars(Server(EndSendData))
    /\ WF_vars(Server(DataSend))
    /\ WF_vars(Accept)
    /\ WF_vars(\E n \in 1 .. TxBuf : Deliver(n))
    /\ WF_vars(Read)

-----------------------------------------------------------------------------
(* Every byte the server counts as sent is in its socket, with the client  *)
(* or refused by a client that stopped: m_totBytes and m_totalRx agree.    *)
BytesConserved ==
    /\ totBytes = (buf - arrived) + rcvBuf + totalRx + refused
    /\ rxTrace = totalRx

(* No lost wake-up: a server that is connected and not in SendData has     *)
(* bytes in its socket, so the call to DataSend that makes it go on is     *)
(* still to come ("The DataSent callback will pop when some buffer space   *)
(* has freed up").                                                         *)
NoLostWakeup == (connected /\ pc = "idle") => (MoreToSend /\ buf > 0)

(* The server never sends more than MaxBytes, and closes its connection    *)
(* only when it has sent them all or is stopped.                           *)
ClosesWhenDone ==
    MaxBytes > 0 =>
        /\ totBytes <= MaxBytes
        /\ conn = "closed" => stopped \/ totBytes = MaxBytes

(* The abstract stream between the two applications. *)
Stream == INSTANCE ByteStreams WITH Streams <- {0},
                                    taken <- [s \in {0} |-> totBytes],
                                    delivered <- [s \in {0} |-> totalRx]

(* File server and client implement a byte stream: m_totBytes and          *)
(* m_totalRx only grow, and the client never counts a byte the server has  *)
(* not counted before, whatever is buffered, refused or stopped between.   *)
ImplementsStream == Stream!Spec

(* A file that the server begins to transfer arrives in full, unless one   *)
(* of the two applications is stopped before.                              *)
FileDelivered ==
    (conn = "open") ~> (totalRx = MaxBytes \/ stopped \/ sinkRun = "stopped")
=============================================================================
