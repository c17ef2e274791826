----------------------------- MODULE PacketSink -----------------------------
(***************************************************************************)
(* ns3_apps/packet-sink.cc: the client.  It accepts connections, reads     *)
(* whatever arrives and counts the bytes.                                  *)
(***************************************************************************)
EXTENDS Integers

VARIABLES
    sinkRun,     \* "idle", "running" or "stopped"
    socketList,  \* m_socketList: the accepted connections, 0 or 1 of them
    rcvBuf,      \* bytes waiting in the accepted socket
    totalRx,     \* m_totalRx
    rxTrace      \* bytes reported to the Rx trace source

sinkVars == <<sinkRun, socketList, rcvBuf, totalRx, rxTrace>>

SinkTypeOK ==
    /\ sinkRun \in {"idle", "running", "stopped"}
    /\ socketList \in 0 .. 1
    /\ rcvBuf \in Nat
    /\ totalRx \in Nat
    /\ rxTrace \in Nat

SinkInit ==
    /\ sinkRun = "idle"
    /\ socketList = 0
    /\ rcvBuf = 0
    /\ totalRx = 0
    /\ rxTrace = 0

SinkStart ==
    /\ sinkRun = "idle"
    /\ sinkRun' = "running"
    /\ UNCHANGED <<socketList, rcvBuf, totalRx, rxTrace>>

(* The accepted sockets are closed and forgotten, but they keep HandleRead *)
(* as their callback.                                                      *)
SinkStop ==
    /\ sinkRun = "running"
    /\ sinkRun' = "stopped"
    /\ socketList' = 0
    /\ UNCHANGED <<rcvBuf, totalRx, rxTrace>>

HandleAccept ==
    /\ sinkRun = "running"
    /\ socketList = 0
    /\ socketList' = 1
    /\ UNCHANGED <<sinkRun, rcvBuf, totalRx, rxTrace>>

(* Faulty variant of HandleRead: counts packets, not their bytes. *)
HandleReadOne ==
    /\ rcvBuf > 0
    /\ totalRx' = totalRx + 1
    /\ rxTrace' = rxTrace + 1
    /\ rcvBuf' = 0
    /\ UNCHANGED <<sinkRun, socketList>>

(* Faulty variant of HandleRead: leaves what it has read in the socket. *)
HandleReadPeeks ==
    /\ rcvBuf > 0
    /\ totalRx' = totalRx + rcvBuf
    /\ rxTrace' = rxTrace + rcvBuf
    /\ UNCHANGED <<sinkRun, socketList, rcvBuf>>

(* The loop over RecvFrom empties the socket; each packet is counted and   *)
(* reported.                                                               *)
HandleRead ==
    /\ rcvBuf > 0
    /\ totalRx' = totalRx + rcvBuf
    /\ rxTrace' = rxTrace + rcvBuf
    /\ rcvBuf' = 0
    /\ UNCHANGED <<sinkRun, socketList>>
=============================================================================
