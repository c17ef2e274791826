-------------------------- MODULE OnOffApplication --------------------------
(***************************************************************************)
(* ns3_apps/onoff-application.cc: the streaming server.  On and off        *)
(* periods alternate; in an on period packets leave at a constant bit      *)
(* rate, and the part of a packet generated when a period ends is kept as  *)
(* m_residualBits.                                                         *)
(*                                                                         *)
(* The simulator runs the pending event with the least time, and events of *)
(* equal time in the order they were scheduled.  The clock counts ticks,   *)
(* TicksPerBit to the bit, because the residual is truncated to bits.      *)
(* m_connected is never read and m_cbrRateFailSafe differs from m_cbrRate  *)
(* only if the rate attribute changes while the application runs, which    *)
(* nothing in the simulator does; both are left out.                       *)
(***************************************************************************)
EXTENDS Integers, Sequences

CONSTANTS
    PktSize,       \* m_pktSize, bytes
    MaxBytes,      \* m_maxBytes, 0 for no limit
    TicksPerBit,   \* 1 / m_cbrRate
    UIntSize,      \* 2^32: m_pktSize and m_residualBits are uint32_t
    Datagram,      \* TRUE: the Protocol is UDP
    OnTimes,       \* what m_onTime may draw, in ticks
    OffTimes,      \* what m_offTime may draw, in ticks
    StartTimes,    \* StartTime of the application
    StopTimes,     \* StopTime of the application
    Horizon        \* the simulation ends here

ASSUME OnOffAssumption ==
    /\ PktSize \in Nat \ {0}
    /\ MaxBytes \in Nat
    /\ TicksPerBit \in Nat \ {0}
    /\ UIntSize \in Nat /\ UIntSize > 8 * PktSize
    /\ Datagram \in BOOLEAN
    /\ OnTimes \in SUBSET Nat
    /\ OffTimes \in SUBSET Nat
    /\ StartTimes \in SUBSET Nat
    /\ StopTimes \in SUBSET Nat
    /\ Horizon \in Nat

NoEvent == -1
Time == Nat
Bits == 8 * PktSize

VARIABLES
    now,             \* Simulator::Now()
    appStart,        \* the event that calls StartApplication
    appStop,         \* the event that calls StopApplication
    socket,          \* m_socket: "none", "open" or "closed"
    sendEvent,       \* m_sendEvent
    startStopEvent,  \* m_startStopEvent
    on,              \* it will call StopSending, not StartSending
    sendFirst,       \* sendEvent was scheduled before startStopEvent
    residual,        \* m_residualBits
    lastStart,       \* m_lastStartTime
    totBytes,        \* m_totBytes
    seqNumber,       \* m_seqNumber
    sent,            \* history: sequence numbers of the headers sent
    onTicks,         \* history: time spent generating bits
    cuts,            \* history: packets interrupted
    sentTicks,       \* history: onTicks when the last packet was sent
    sentCuts         \* history: cuts when the last packet was sent

events == <<appStart, appStop, sendEvent, startStopEvent, on, sendFirst>>
lastSent == <<sentTicks, sentCuts>>
vars == <<now, events, socket, residual, lastStart, totBytes, seqNumber, sent,
          onTicks, cuts, lastSent>>

TypeOK ==
    /\ now \in Time
    /\ appStart \in Time \cup {NoEvent}
    /\ appStop \in Time \cup {NoEvent}
    /\ socket \in {"none", "open", "closed"}
    /\ sendEvent \in Time \cup {NoEvent}
    /\ startStopEvent \in Time \cup {NoEvent}
    /\ on \in BOOLEAN
    /\ sendFirst \in BOOLEAN
    /\ residual \in 0 .. Bits
    /\ lastStart \in Time
    /\ totBytes \in Nat
    /\ seqNumber \in Nat
    /\ sent \in Seq(Nat)
    /\ onTicks \in Nat
    /\ cuts \in Nat
    /\ sentTicks \in 0 .. onTicks
    /\ sentCuts \in 0 .. cuts

Init ==
    /\ now = 0
    /\ appStart \in StartTimes
    /\ appStop \in StopTimes \cup {NoEvent}
    /\ socket = "none"
    /\ sendEvent = NoEvent
    /\ startStopEvent = NoEvent
    /\ on = FALSE
    /\ sendFirst = FALSE
    /\ residual = 0
    /\ lastStart = 0
    /\ totBytes = 0
    /\ seqNumber = 0
    /\ sent = <<>>
    /\ onTicks = 0
    /\ cuts = 0
    /\ sentTicks = 0
    /\ sentCuts = 0

-----------------------------------------------------------------------------
Sending == sendEvent # NoEvent

(* The event of time t runs: none is due before it. *)
Run(t) ==
    /\ t # NoEvent
    /\ t <= Horizon
    /\ \A u \in {appStart, appStop, sendEvent, startStopEvent} \ {NoEvent} : t <= u
    /\ now' = t
    /\ onTicks' = onTicks + (IF Sending THEN t - now ELSE 0)

(* The events of the application's own start and stop were scheduled when  *)
(* the simulation began.                                                   *)
AfterAppEvents(t) == t \notin {appStart, appStop}

MoreToSend(total) == MaxBytes = 0 \/ total < MaxBytes

(* The bits of a packet still to be generated, an unsigned difference. *)
RestBits(resid) == IF resid <= Bits THEN Bits - resid ELSE UIntSize + Bits - resid

(* Faulty variants of NextTx: forgets the residual; takes it for time. *)
NextTxFull(t, resid) == t + Bits * TicksPerBit
NextTxTicks(t, resid) == t + Bits * TicksPerBit - resid

(* ScheduleNextTx: the time at which the rest of a packet is generated. *)
NextTx(t, resid) == t + RestBits(resid) * TicksPerBit

(* Faulty variant of ResidualAt: overwrites what earlier periods left. *)
ResidualAtLast(t) ==
    IF Sending THEN (t - lastStart) \div TicksPerBit ELSE residual

(* CancelEvents at time t. *)
ResidualAt(t) ==
    IF Sending THEN residual + (t - lastStart) \div TicksPerBit ELSE residual

CancelEvents(t) ==
    /\ residual' = ResidualAt(t)
    /\ cuts' = IF Sending THEN cuts + 1 ELSE cuts
    /\ sendEvent' = NoEvent

Close == IF socket = "none" THEN "none" ELSE "closed"

(* The one-argument constructor of RqHeader, which drops its argument. *)
HeaderSeqno(seqno) == 0

-----------------------------------------------------------------------------
StartApplication ==
    /\ Run(appStart)
    /\ appStart' = NoEvent
    /\ socket' = "open"
    /\ CancelEvents(appStart)
    /\ \E off \in OffTimes : startStopEvent' = appStart + off
    /\ on' = FALSE
    /\ UNCHANGED <<appStop, sendFirst, lastStart, totBytes, seqNumber, sent, lastSent>>

(* Faulty variant of StopApplication: forgets the start/stop event. *)
StopApplicationStartStopStays ==
    /\ Run(appStop)
    /\ appStop # appStart
    /\ appStop' = NoEvent
    /\ CancelEvents(appStop)
    /\ socket' = Close
    /\ UNCHANGED <<appStart, startStopEvent, on, sendFirst, lastStart, totBytes,
                   seqNumber, sent, lastSent>>

StopApplication ==
    /\ Run(appStop)
    /\ appStop # appStart
    /\ appStop' = NoEvent
    /\ CancelEvents(appStop)
    /\ startStopEvent' = NoEvent
    /\ on' = FALSE
    /\ socket' = Close
    /\ UNCHANGED <<appStart, sendFirst, lastStart, totBytes, seqNumber, sent, lastSent>>

(* ScheduleNextTx closes the socket when all is sent; the stop event is    *)
(* scheduled all the same.                                                 *)
StartSending ==
    /\ Run(startStopEvent)
    /\ AfterAppEvents(startStopEvent)
    /\ ~on
    /\ lastStart' = startStopEvent
    /\ sendEvent' = IF MoreToSend(totBytes) THEN NextTx(startStopEvent, residual)
                    ELSE NoEvent
    /\ socket' = IF MoreToSend(totBytes) THEN socket ELSE Close
    /\ \E onTime \in OnTimes : startStopEvent' = startStopEvent + onTime
    /\ on' = TRUE
    /\ sendFirst' = TRUE
    /\ UNCHANGED <<appStart, appStop, residual, totBytes, seqNumber, sent, cuts, lastSent>>

StopSending ==
    /\ Run(startStopEvent)
    /\ AfterAppEvents(startStopEvent)
    /\ on
    /\ sendEvent = startStopEvent => ~sendFirst
    /\ CancelEvents(startStopEvent)
    /\ \E off \in OffTimes : startStopEvent' = startStopEvent + off
    /\ on' = FALSE
    /\ UNCHANGED <<appStart, appStop, socket, sendFirst, lastStart, totBytes,
                   seqNumber, sent, lastSent>>

(* Faulty variant of AfterSend: the limit is tested before the bytes of    *)
(* this packet are counted.                                                *)
AfterSendLate ==
    IF MoreToSend(totBytes)
    THEN /\ sendEvent' = NextTx(sendEvent, 0)
         /\ UNCHANGED <<socket, startStopEvent, on>>
    ELSE /\ sendEvent' = NoEvent
         /\ startStopEvent' = NoEvent
         /\ on' = FALSE
         /\ socket' = Close

(* ScheduleNextTx as SendPacket calls it, with the residual cleared: the   *)
(* next packet, or StopApplication.                                        *)
AfterSend ==
    IF MoreToSend(totBytes + PktSize)
    THEN /\ sendEvent' = NextTx(sendEvent, 0)
         /\ UNCHANGED <<socket, startStopEvent, on>>
    ELSE /\ sendEvent' = NoEvent
         /\ startStopEvent' = NoEvent
         /\ on' = FALSE
         /\ socket' = Close

(* The result of Send is ignored: a TCP socket may take nothing. *)
SendPacket(taken) ==
    /\ Run(sendEvent)
    /\ AfterAppEvents(sendEvent)
    /\ sendEvent = startStopEvent => sendFirst
    /\ sent' = IF taken /\ Datagram THEN Append(sent, HeaderSeqno(seqNumber))
               ELSE sent
    /\ seqNumber' = IF Datagram THEN seqNumber + 1 ELSE seqNumber
    /\ totBytes' = totBytes + PktSize
    /\ lastStart' = sendEvent
    /\ residual' = 0
    /\ sendFirst' = FALSE
    /\ sentTicks' = onTicks'
    /\ sentCuts' = cuts
    /\ AfterSend
    /\ UNCHANGED <<appStart, appStop, cuts>>

Next ==
    \/ StartApplication
    \/ StopApplication
    \/ StartSending
    \/ StopSending
    \/ \E taken \in BOOLEAN : (Datagram => taken) /\ SendPacket(taken)

Spec == Init /\ [][Next]_vars

-----------------------------------------------------------------------------
(* While the socket is open the next change of period is scheduled, and a  *)
(* packet exactly in an on period; before the start and after a stop       *)
(* nothing is ("During the Off state, no traffic is generated").           *)
EventsFollowState ==
    /\ socket = "open" <=> startStopEvent # NoEvent
    /\ on <=> Sending
    /\ on => socket = "open"
    /\ \A t \in {sendEvent, startStopEvent} : t = NoEvent \/ t >= now

(* However often it is interrupted, a packet leaves when the time spent in *)
(* on periods since the one before is that of its bits, or longer by less  *)
(* than a bit for each interruption: the unsigned difference of            *)
(* ScheduleNextTx never wraps, which would put it off by UIntSize bits.    *)
DueWhenGenerated ==
    Sending =>
        LET spent == onTicks + (sendEvent - now) - sentTicks
        IN  /\ Bits * TicksPerBit <= spent
            /\ spent <= Bits * TicksPerBit + (TicksPerBit - 1) * (cuts - sentCuts)

(* The bits sent, kept as residual and being generated account for the     *)
(* time spent in on periods, but for less than one bit per interruption    *)
(* ("the remaining time until when the next transmission would have        *)
(* occurred is cached").                                                   *)
RateAccounting ==
    LET generated == (8 * totBytes + residual) * TicksPerBit
                     + (IF Sending THEN now - lastStart ELSE 0)
    IN  /\ generated <= onTicks
        /\ onTicks <= generated + (TicksPerBit - 1) * cuts

(* "Once these bytes are sent, no packet is sent again": the limit is      *)
(* passed by less than a packet, and reaching it closes the socket.        *)
StopsAtLimit ==
    MaxBytes # 0 =>
        /\ totBytes < MaxBytes + PktSize
        /\ totBytes >= MaxBytes => socket = "closed"

(* Datagrams carry their number in the stream: m_seqNumber is the          *)
(* "Sequence number of next packet".                                       *)
DatagramsNumbered == \A i \in DOMAIN sent : sent[i] = i - 1
=============================================================================
