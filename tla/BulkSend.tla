------------------------------ MODULE BulkSend ------------------------------
(***************************************************************************)
(* ns3_apps/bulk-send-application.cc: the file server.  It writes to a TCP *)
(* socket until the socket refuses, goes on when the socket reports room,  *)
(* and closes the connection after MaxBytes bytes.                         *)
(*                                                                         *)
(* SendData is a loop; pc says where the handler stands, and other         *)
(* handlers run only while it is "idle".                                   *)
(***************************************************************************)
EXTENDS Integers

CONSTANTS
    SendSize,      \* m_sendSize
    MaxBytes,      \* m_maxBytes, 0 for no limit
    TxBuf,         \* bytes the TCP socket buffers
    MaxTotal,      \* bytes sent in a behaviour
    StopAllowed    \* TRUE: the applications have a stop time

ASSUME BulkAssumption ==
    /\ SendSize \in Nat \ {0}
    /\ MaxBytes \in Nat
    /\ TxBuf \in Nat \ {0}
    /\ MaxTotal \in Nat
    /\ StopAllowed \in BOOLEAN

VARIABLES
    started,     \* StartApplication was called: m_socket exists
    stopped,     \* StopApplication was called
    conn,        \* the TCP connection of m_socket
    connected,   \* m_connected
    pc,          \* "idle", in the "loop" of SendData, or at the "check" after it
    totBytes,    \* m_totBytes
    buf,         \* bytes in the socket's send buffer
    arrived      \* of these, bytes the receiver has but which are not acknowledged

bulkVars == <<started, stopped, conn, connected, pc, totBytes, buf, arrived>>

BulkTypeOK ==
    /\ started \in BOOLEAN
    /\ stopped \in BOOLEAN
    /\ conn \in {"none", "connecting", "open", "failed", "closed"}
    /\ connected \in BOOLEAN
    /\ pc \in {"idle", "loop", "check"}
    /\ totBytes \in Nat
    /\ buf \in 0 .. TxBuf
    /\ arrived \in 0 .. buf

BulkInit ==
    /\ started = FALSE
    /\ stopped = FALSE
    /\ conn = "none"
    /\ connected = FALSE
    /\ pc = "idle"
    /\ totBytes = 0
    /\ buf = 0
    /\ arrived = 0

-----------------------------------------------------------------------------
MoreToSend == MaxBytes = 0 \/ totBytes < MaxBytes

Lesser(a, b) == IF a < b THEN a ELSE b

(* Faulty variant of ToSend: the last chunk is not cut. *)
ToSendWhole == SendSize

ToSend == IF MaxBytes > 0 THEN Lesser(SendSize, MaxBytes - totBytes) ELSE SendSize

(* What Socket::Send may return for n bytes: all of them while there is    *)
(* room, otherwise an error or the bytes that fit.                         *)
SendResult(n) ==
    LET free == TxBuf - buf
    IN  IF n <= free THEN {n} ELSE {-1} \cup ({free} \ {0})

BulkStart ==
    /\ pc = "idle"
    /\ ~started
    /\ started' = TRUE
    /\ conn' = "connecting"
    /\ pc' = IF connected THEN "loop" ELSE "idle"
    /\ UNCHANGED <<stopped, connected, totBytes, buf, arrived>>

(* Before the start there is no socket to close. *)
BulkStop ==
    /\ StopAllowed
    /\ pc = "idle"
    /\ ~stopped
    /\ stopped' = TRUE
    /\ conn' = IF started THEN "closed" ELSE conn
    /\ connected' = FALSE
    /\ UNCHANGED <<started, pc, totBytes, buf, arrived>>

ConnectionSucceeded ==
    /\ pc = "idle"
    /\ conn = "connecting"
    /\ conn' = "open"
    /\ connected' = TRUE
    /\ pc' = "loop"
    /\ UNCHANGED <<started, stopped, totBytes, buf, arrived>>

ConnectionFailed ==
    /\ pc = "idle"
    /\ conn = "connecting"
    /\ conn' = "failed"
    /\ UNCHANGED <<started, stopped, connected, pc, totBytes, buf, arrived>>

(* One turn of the loop in SendData. *)
SendChunk ==
    /\ pc = "loop"
    /\ MoreToSend
    /\ totBytes < MaxTotal
    /\ \E actual \in SendResult(ToSend) :
           /\ totBytes' = IF actual > 0 THEN totBytes + actual ELSE totBytes
           /\ buf' = IF actual > 0 THEN buf + actual ELSE buf
           /\ pc' = IF actual = ToSend THEN "loop" ELSE "check"
    /\ UNCHANGED <<started, stopped, conn, connected, arrived>>

(* The end of SendData: close when all is sent. *)
EndSendData ==
    /\ pc = "check" \/ (pc = "loop" /\ ~MoreToSend)
    /\ pc' = "idle"
    /\ IF totBytes = MaxBytes /\ connected
       THEN conn' = "closed" /\ connected' = FALSE
       ELSE UNCHANGED <<conn, connected>>
    /\ UNCHANGED <<started, stopped, totBytes, buf, arrived>>

(* Faulty variant of DataSend: acts only when the buffer has drained by    *)
(* more than a chunk.                                                      *)
DataSendLazy ==
    /\ pc = "idle"
    /\ arrived > 0
    /\ buf' = buf - arrived
    /\ arrived' = 0
    /\ pc' = IF connected /\ arrived > SendSize THEN "loop" ELSE "idle"
    /\ UNCHANGED <<started, stopped, conn, connected, totBytes>>

(* The acknowledgement of what has arrived frees the buffer and calls      *)
(* DataSend.                                                               *)
DataSend ==
    /\ pc = "idle"
    /\ arrived > 0
    /\ buf' = buf - arrived
    /\ arrived' = 0
    /\ pc' = IF connected THEN "loop" ELSE "idle"
    /\ UNCHANGED <<started, stopped, conn, connected, totBytes>>

(* Bytes reach the other end; a close lets the buffered ones through. *)
Transfer(n) ==
    /\ pc = "idle"
    /\ arrived + n <= buf
    /\ arrived' = arrived + n
    /\ UNCHANGED <<started, stopped, conn, connected, pc, totBytes, buf>>
=============================================================================
