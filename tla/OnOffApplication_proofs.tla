---------------------- MODULE OnOffApplication_proofs -----------------------
(***************************************************************************)
(* Proofs about OnOffApplication, for every packet size, rate, limit and   *)
(* choice of on and off periods, start and stop times.                     *)
(***************************************************************************)
EXTENDS OnOffApplication, TLAPS

(* The clock never passes a pending event.                                 *)
ClockInv ==
    /\ appStart # NoEvent => appStart >= now
    /\ appStop # NoEvent => appStop >= now
    /\ sendEvent # NoEvent => sendEvent >= now
    /\ startStopEvent # NoEvent => startStopEvent >= now
    /\ lastStart <= now

(* Before StartApplication there is no socket and nothing is scheduled; a  *)
(* packet is scheduled only below the limit.                               *)
StageInv ==
    /\ appStart # NoEvent => socket = "none"
    /\ socket = "open" <=> startStopEvent # NoEvent
    /\ on <=> Sending
    /\ on => socket = "open"
    /\ Sending => MoreToSend(totBytes)

(* The pending packet is due when its remaining bits have been generated. *)
DueInv == Sending => sendEvent = lastStart + (Bits - residual) * TicksPerBit

(* The invariant that carries the scheduling properties. *)
OnOffInv ==
    /\ TypeOK
    /\ ClockInv
    /\ StageInv
    /\ DueInv
    /\ StopsAtLimit

LEMMA BitsType == Bits \in Nat \ {0}
BY OnOffAssumption DEF Bits

(* The difference of ScheduleNextTx does not wrap for a residual within the *)
(* packet.                                                                 *)
LEMMA NoWrap ==
    ASSUME NEW resid \in 0 .. Bits, NEW t
    PROVE  NextTx(t, resid) = t + (Bits - resid) * TicksPerBit
BY BitsType DEF NextTx, RestBits

(* Truncation to whole bits.                                               *)
LEMMA DivBounds ==
    ASSUME NEW a \in Nat, NEW c \in Nat \ {0}
    PROVE  /\ a \div c \in Nat
           /\ (a \div c) * c <= a
           /\ a <= (a \div c) * c + (c - 1)
OBVIOUS

(* No more whole bits fit into a time than bits that take at least as long. *)
LEMMA DivAtMost ==
    ASSUME NEW a \in Nat, NEW c \in Nat \ {0}, NEW b \in Nat, a <= b * c
    PROVE  a \div c <= b
<1>a. (a \div c) \in Nat /\ (a \div c) * c <= a
  BY DivBounds
<1>b. (a \div c) * c \in Int /\ b * c \in Int
  BY <1>a
<1>1. (a \div c) \in Nat /\ (a \div c) * c <= b * c
  BY <1>a, <1>b
<1>2. ASSUME a \div c >= b + 1 PROVE FALSE
  <2>1. (a \div c) * c >= (b + 1) * c
    BY <1>1, <1>2
  <2> QED
    BY <1>1, <2>1
<1> QED
  BY <1>1, <1>2

(* An event that is run is due next.                                       *)
LEMMA RunFacts ==
    ASSUME TypeOK, ClockInv, NEW t \in Time \cup {NoEvent}, Run(t),
           t \in {appStart, appStop, sendEvent, startStopEvent}
    PROVE  /\ t \in Nat
           /\ t >= now
           /\ now' = t
           /\ appStart # NoEvent => appStart >= t
           /\ appStop # NoEvent => appStop >= t
           /\ sendEvent # NoEvent => sendEvent >= t
           /\ startStopEvent # NoEvent => startStopEvent >= t
           /\ onTicks' = onTicks + (IF Sending THEN t - now ELSE 0)
           /\ onTicks' \in Nat /\ onTicks' >= onTicks
           /\ onTicks' >= onTicks
<1>1. t # NoEvent /\ now' = t
      /\ \A u \in {appStart, appStop, sendEvent, startStopEvent} \ {NoEvent} : t <= u
      /\ onTicks' = onTicks + (IF Sending THEN t - now ELSE 0)
  BY DEF Run
<1>2. t \in Nat /\ t >= now
  BY <1>1 DEF Time, TypeOK, ClockInv
<1>3. onTicks' \in Nat /\ onTicks' >= onTicks
  BY <1>1, <1>2 DEF TypeOK, Time
<1> QED
  BY <1>1, <1>2, <1>3

(* Interrupting a packet leaves at most a whole packet as residual.        *)
LEMMA ResidualFacts ==
    ASSUME TypeOK, ClockInv, DueInv, NEW t \in Nat, t >= now,
           sendEvent # NoEvent => sendEvent >= t
    PROVE  ResidualAt(t) \in 0 .. Bits
<1>1. CASE ~Sending
  BY <1>1 DEF ResidualAt, TypeOK
<1>2. CASE Sending
  <2>1. t - lastStart \in Nat /\ residual \in Nat /\ Bits - residual \in Nat
    BY BitsType DEF TypeOK, ClockInv, Time
  <2>2. t - lastStart <= (Bits - residual) * TicksPerBit
    BY <1>2, <2>1, OnOffAssumption DEF DueInv, Sending, TypeOK, Time
  <2>3. (t - lastStart) \div TicksPerBit \in Nat
        /\ (t - lastStart) \div TicksPerBit <= Bits - residual
    BY <2>1, <2>2, DivAtMost, DivBounds, OnOffAssumption
  <2> QED
    BY <1>2, <2>1, <2>3, BitsType DEF ResidualAt
<1> QED
  BY <1>1, <1>2

LEMMA OnOffInit == Init => OnOffInv
<1> SUFFICES ASSUME Init PROVE OnOffInv
  OBVIOUS
<1> USE OnOffAssumption DEF Init, NoEvent
<1>1. TypeOK
  <2>1. now \in Nat /\ appStart \in Nat /\ appStop \in Nat \cup {NoEvent}
        /\ lastStart \in Nat /\ totBytes \in Nat /\ seqNumber \in Nat
        /\ onTicks \in Nat /\ cuts \in Nat
        /\ sentTicks \in 0 .. onTicks /\ sentCuts \in 0 .. cuts
    OBVIOUS
  <2>2. residual \in 0 .. Bits
    BY BitsType
  <2>3. on \in BOOLEAN /\ sendFirst \in BOOLEAN
    OBVIOUS
  <2>4. sent \in Seq(Nat)
    OBVIOUS
  <2> QED
    BY <2>1, <2>2, <2>3, <2>4 DEF TypeOK, Time
<1>2. ClockInv
  BY DEF ClockInv
<1>3. StageInv
  BY DEF StageInv, Sending
<1>4. DueInv /\ StopsAtLimit
  BY DEF DueInv, Sending, StopsAtLimit
<1> QED
  BY <1>1, <1>2, <1>3, <1>4 DEF OnOffInv

LEMMA OnOffStep == OnOffInv /\ [Next]_vars => OnOffInv'
<1> SUFFICES ASSUME OnOffInv, [Next]_vars PROVE OnOffInv'
  OBVIOUS
<1>a. TypeOK /\ ClockInv /\ StageInv /\ DueInv /\ StopsAtLimit
  BY DEF OnOffInv
<1>1. CASE StartApplication
  <2>1. PICK off \in OffTimes : startStopEvent' = appStart + off
    BY <1>1 DEF StartApplication
  <2>2. Run(appStart) /\ appStart \in Nat /\ appStart >= now /\ now' = appStart
        /\ onTicks' \in Nat /\ onTicks' >= onTicks
        /\ (appStop # NoEvent => appStop >= appStart)
        /\ (sendEvent # NoEvent => sendEvent >= appStart)
    BY <1>1, <1>a, RunFacts DEF StartApplication, TypeOK
  <2>3. residual' \in 0 .. Bits
    BY <1>1, <1>a, <2>2, ResidualFacts DEF StartApplication, CancelEvents
  <2>4. off \in Nat
    BY OnOffAssumption
  <2>a. cuts' \in Nat /\ cuts' >= cuts /\ sendEvent' = NoEvent
    BY <1>1, <1>a DEF TypeOK, StartApplication, CancelEvents
  <2>c. sentTicks' \in 0 .. onTicks' /\ sentCuts' \in 0 .. cuts'
    BY <1>1, <1>a, <2>2, <2>a DEF TypeOK, StartApplication, lastSent
  <2>b. startStopEvent' \in Nat
    BY <2>1, <2>2, <2>4
  <2>5. TypeOK'
    BY <1>1, <1>a, <2>2, <2>3, <2>a, <2>b, <2>c DEF TypeOK, StartApplication, Time
  <2>6. ClockInv'
    BY <1>1, <1>a, <2>1, <2>2, <2>4 DEF ClockInv, TypeOK, StartApplication, CancelEvents, Time, NoEvent
  <2>7. StageInv'
    BY <1>1, <1>a, <2>1, <2>2, <2>4 DEF StageInv, StartApplication, CancelEvents, Sending, NoEvent
  <2>8. DueInv' /\ StopsAtLimit'
    BY <1>1, <1>a, <2>2 DEF DueInv, StopsAtLimit, StageInv, StartApplication, CancelEvents,
                    Sending, NoEvent
  <2> QED
    BY <2>5, <2>6, <2>7, <2>8 DEF OnOffInv
<1>2. CASE StopApplication
  <2>2. Run(appStop) /\ appStop \in Nat /\ appStop >= now /\ now' = appStop
        /\ onTicks' \in Nat /\ onTicks' >= onTicks
        /\ (appStart # NoEvent => appStart >= appStop)
        /\ (sendEvent # NoEvent => sendEvent >= appStop)
    BY <1>2, <1>a, RunFacts DEF StopApplication, TypeOK
  <2>3. residual' \in 0 .. Bits
    BY <1>2, <1>a, <2>2, ResidualFacts DEF StopApplication, CancelEvents
  <2>4. socket' \in {"none", "closed"} /\ (socket = "none" <=> socket' = "none")
    BY <1>2 DEF StopApplication, Close
  <2>a. cuts' \in Nat /\ cuts' >= cuts /\ sendEvent' = NoEvent
    BY <1>2, <1>a DEF TypeOK, StopApplication, CancelEvents
  <2>c. sentTicks' \in 0 .. onTicks' /\ sentCuts' \in 0 .. cuts'
    BY <1>2, <1>a, <2>2, <2>a DEF TypeOK, StopApplication, lastSent
  <2>5. TypeOK'
    BY <1>2, <1>a, <2>2, <2>3, <2>4, <2>a, <2>c DEF TypeOK, StopApplication, Time
  <2>6. ClockInv'
    BY <1>2, <1>a, <2>2 DEF ClockInv, TypeOK, StopApplication, CancelEvents, Time, NoEvent
  <2>7. StageInv'
    BY <1>2, <1>a, <2>4 DEF StageInv, StopApplication, CancelEvents, Sending, NoEvent
  <2>8. DueInv' /\ StopsAtLimit'
    BY <1>2, <1>a, <2>4 DEF DueInv, StopsAtLimit, StopApplication, CancelEvents,
                    Sending, NoEvent
  <2> QED
    BY <2>5, <2>6, <2>7, <2>8 DEF OnOffInv
<1>3. CASE StartSending
  <2>1. PICK onTime \in OnTimes : startStopEvent' = startStopEvent + onTime
    BY <1>3 DEF StartSending
  <2>2. startStopEvent \in Nat /\ startStopEvent >= now /\ now' = startStopEvent
        /\ onTicks' \in Nat /\ onTicks' >= onTicks
        /\ (appStart # NoEvent => appStart >= startStopEvent)
        /\ (appStop # NoEvent => appStop >= startStopEvent)
    BY <1>3, <1>a, RunFacts DEF StartSending, TypeOK
  <2>3. onTime \in Nat /\ startStopEvent # NoEvent
    BY <2>2, OnOffAssumption DEF NoEvent
  <2>4. socket = "open" /\ MoreToSend(totBytes)
    BY <1>a, <2>2, <2>3, OnOffAssumption DEF StageInv, StopsAtLimit, MoreToSend, TypeOK
  <2>5. sendEvent' = startStopEvent + (Bits - residual) * TicksPerBit /\ socket' = socket
    BY <1>3, <1>a, <2>4, NoWrap DEF StartSending, TypeOK
  <2>6. (Bits - residual) * TicksPerBit \in Nat
    BY <1>a, BitsType, OnOffAssumption DEF TypeOK
  <2>7. sendEvent' \in Nat /\ sendEvent' >= now'
    BY <2>2, <2>5, <2>6
  <2>a. sentTicks' \in 0 .. onTicks' /\ sentCuts' \in 0 .. cuts'
    BY <1>3, <1>a, <2>2 DEF TypeOK, StartSending, lastSent
  <2>8. TypeOK'
    BY <1>3, <1>a, <2>1, <2>2, <2>3, <2>5, <2>7, <2>a DEF TypeOK, StartSending, Time
  <2>9. ClockInv'
    BY <1>3, <1>a, <2>1, <2>2, <2>3, <2>7 DEF ClockInv, StartSending, Time
  <2>10. StageInv'
    <3>1. sendEvent' # NoEvent /\ startStopEvent' # NoEvent
      BY <2>1, <2>2, <2>3, <2>7 DEF NoEvent
    <3> QED
      BY <1>3, <1>a, <2>4, <2>5, <3>1 DEF StageInv, StartSending, Sending, MoreToSend
  <2>11. DueInv' /\ StopsAtLimit'
    BY <1>3, <1>a, <2>4, <2>5 DEF DueInv, StopsAtLimit, StartSending
  <2> QED
    BY <2>8, <2>9, <2>10, <2>11 DEF OnOffInv
<1>4. CASE StopSending
  <2>1. PICK off \in OffTimes : startStopEvent' = startStopEvent + off
    BY <1>4 DEF StopSending
  <2>2. startStopEvent \in Nat /\ startStopEvent >= now /\ now' = startStopEvent
        /\ onTicks' \in Nat /\ onTicks' >= onTicks
        /\ (appStart # NoEvent => appStart >= startStopEvent)
        /\ (appStop # NoEvent => appStop >= startStopEvent)
        /\ (sendEvent # NoEvent => sendEvent >= startStopEvent)
    BY <1>4, <1>a, RunFacts DEF StopSending, TypeOK
  <2>3. off \in Nat /\ startStopEvent # NoEvent /\ startStopEvent + off # NoEvent
    BY <2>2, OnOffAssumption DEF NoEvent
  <2>4. residual' \in 0 .. Bits
    BY <1>4, <1>a, <2>2, ResidualFacts DEF StopSending, CancelEvents
  <2>a. cuts' \in Nat /\ cuts' >= cuts /\ sendEvent' = NoEvent
    BY <1>4, <1>a DEF TypeOK, StopSending, CancelEvents
  <2>c. sentTicks' \in 0 .. onTicks' /\ sentCuts' \in 0 .. cuts'
    BY <1>4, <1>a, <2>2, <2>a DEF TypeOK, StopSending, lastSent
  <2>b. startStopEvent' \in Nat
    BY <2>1, <2>2, <2>3
  <2>5. TypeOK'
    BY <1>4, <1>a, <2>2, <2>4, <2>a, <2>b, <2>c DEF TypeOK, StopSending, Time
  <2>6. ClockInv'
    BY <1>4, <1>a, <2>1, <2>2, <2>3 DEF ClockInv, TypeOK, StopSending, CancelEvents, Time
  <2>7. StageInv'
    BY <1>4, <1>a, <2>1, <2>3 DEF StageInv, StopSending, CancelEvents, Sending
  <2>8. DueInv' /\ StopsAtLimit'
    BY <1>4, <1>a DEF DueInv, StopsAtLimit, StopSending, CancelEvents, Sending
  <2> QED
    BY <2>5, <2>6, <2>7, <2>8 DEF OnOffInv
<1>5. ASSUME NEW taken \in BOOLEAN, SendPacket(taken) PROVE OnOffInv'
  <2>2. sendEvent \in Nat /\ sendEvent >= now /\ now' = sendEvent
        /\ onTicks' \in Nat /\ onTicks' >= onTicks
        /\ (appStart # NoEvent => appStart >= sendEvent)
        /\ (appStop # NoEvent => appStop >= sendEvent)
        /\ (startStopEvent # NoEvent => startStopEvent >= sendEvent)
    BY <1>5, <1>a, RunFacts DEF SendPacket, TypeOK
  <2>3. Sending /\ socket = "open" /\ on /\ MoreToSend(totBytes) /\ startStopEvent # NoEvent
    BY <1>a, <2>2 DEF StageInv, Sending, NoEvent
  <2>4. totBytes' = totBytes + PktSize /\ residual' = 0 /\ lastStart' = sendEvent
        /\ UNCHANGED <<appStart, appStop, cuts>> /\ sendFirst' = FALSE
    BY <1>5 DEF SendPacket
  <2>5. seqNumber' \in Nat /\ sent' \in Seq(Nat)
    <3>1. HeaderSeqno(seqNumber) \in Nat
      BY DEF HeaderSeqno
    <3> QED
      BY <1>5, <1>a, <3>1 DEF SendPacket, TypeOK
  <2>a. sentTicks' \in 0 .. onTicks' /\ sentCuts' \in 0 .. cuts'
    BY <1>5, <1>a, <2>2 DEF TypeOK, SendPacket
  <2>6. CASE MoreToSend(totBytes + PktSize)
    <3>1. sendEvent' = sendEvent + (Bits - 0) * TicksPerBit
          /\ UNCHANGED <<socket, startStopEvent, on>>
      <4>1. 0 \in 0 .. Bits
        BY BitsType
      <4> QED
        BY <1>5, <2>6, <4>1, NoWrap DEF SendPacket, AfterSend
    <3>2. (Bits - 0) * TicksPerBit \in Nat
      BY BitsType, OnOffAssumption
    <3>3. sendEvent' \in Nat /\ sendEvent' >= now' /\ sendEvent' # NoEvent
      BY <2>2, <3>1, <3>2 DEF NoEvent
    <3>a. totBytes' \in Nat /\ residual' \in 0 .. Bits
      BY <1>a, <2>4, BitsType, OnOffAssumption DEF TypeOK
    <3>4. TypeOK'
      BY <1>a, <2>2, <2>4, <2>5, <2>a, <3>1, <3>3, <3>a DEF TypeOK, Time
    <3>5. ClockInv'
      BY <1>a, <2>2, <2>4, <3>1, <3>3 DEF ClockInv
    <3>6. StageInv'
      BY <1>a, <2>3, <2>4, <2>6, <3>1, <3>3 DEF StageInv, Sending, MoreToSend
    <3>7. DueInv'
      BY <2>4, <3>1 DEF DueInv
    <3>8. StopsAtLimit'
      BY <1>a, <2>4, <2>6, <3>1, OnOffAssumption DEF StopsAtLimit, MoreToSend, TypeOK
    <3> QED
      BY <3>4, <3>5, <3>6, <3>7, <3>8 DEF OnOffInv
  <2>7. CASE ~MoreToSend(totBytes + PktSize)
    <3>1. sendEvent' = NoEvent /\ startStopEvent' = NoEvent /\ on' = FALSE
          /\ socket' = "closed"
      BY <1>5, <2>3, <2>7 DEF SendPacket, AfterSend, Close
    <3>a. totBytes' \in Nat /\ residual' \in 0 .. Bits
      BY <1>a, <2>4, BitsType, OnOffAssumption DEF TypeOK
    <3>4. TypeOK'
      BY <1>a, <2>2, <2>4, <2>5, <2>a, <3>1, <3>a DEF TypeOK, Time
    <3>5. ClockInv'
      BY <1>a, <2>2, <2>4, <3>1 DEF ClockInv
    <3>6. StageInv'
      BY <1>a, <2>3, <2>4, <3>1 DEF StageInv, Sending
    <3>7. DueInv'
      BY <3>1 DEF DueInv, Sending
    <3>8. StopsAtLimit'
      BY <1>a, <2>3, <2>4, <3>1, OnOffAssumption DEF StopsAtLimit, MoreToSend, TypeOK
    <3> QED
      BY <3>4, <3>5, <3>6, <3>7, <3>8 DEF OnOffInv
  <2> QED
    BY <2>6, <2>7
<1>6. CASE UNCHANGED vars
  <2>1. TypeOK' /\ ClockInv'
    BY <1>6, <1>a DEF vars, events, lastSent, TypeOK, ClockInv
  <2>2. StageInv'
    BY <1>6, <1>a DEF vars, events, StageInv, Sending, MoreToSend
  <2>3. DueInv' /\ StopsAtLimit'
    BY <1>6, <1>a DEF vars, events, DueInv, Sending, StopsAtLimit
  <2> QED
    BY <2>1, <2>2, <2>3 DEF OnOffInv
<1> QED
  BY <1>1, <1>2, <1>3, <1>4, <1>5, <1>6 DEF Next

-----------------------------------------------------------------------------
(* Type correctness: the residual of an interrupted packet never exceeds   *)
(* the packet, so the difference in ScheduleNextTx never wraps.            *)
THEOREM OnOffTypeCorrect == Spec => []TypeOK
<1>1. OnOffInv => TypeOK
  BY DEF OnOffInv
<1> QED
  BY <1>1, OnOffInit, OnOffStep, PTL DEF Spec

(* CancelEvents and the reschedules of StartSending, StopSending and       *)
(* StopApplication leave exactly the events the state of the server calls  *)
(* for, and none in the past.                                              *)
THEOREM EventsFollowStateCorrect == Spec => []EventsFollowState
<1>1. OnOffInv => EventsFollowState
  BY DEF OnOffInv, ClockInv, StageInv, EventsFollowState
<1> QED
  BY <1>1, OnOffInit, OnOffStep, PTL DEF Spec

(* MaxBytes stops the server: it is passed by less than a packet, and the  *)
(* socket is closed once it is reached.                                    *)
THEOREM StopsAtLimitCorrect == Spec => []StopsAtLimit
<1>1. OnOffInv => StopsAtLimit
  BY DEF OnOffInv
<1> QED
  BY <1>1, OnOffInit, OnOffStep, PTL DEF Spec

-----------------------------------------------------------------------------
(* What RateAccounting says, with the time of the current period apart.    *)
Balanced(g, running, spent, c) ==
    /\ g + running <= spent
    /\ spent <= g + running + (TicksPerBit - 1) * c

Generated == (8 * totBytes + residual) * TicksPerBit
Running == IF Sending THEN now - lastStart ELSE 0

LEMMA RateIsBalanced ==
    RateAccounting <=> Balanced(Generated, Running, onTicks, cuts)
BY DEF RateAccounting, Balanced, Generated, Running

LEMMA RateTypes ==
    ASSUME TypeOK, ClockInv
    PROVE  Generated \in Nat /\ Running \in Nat /\ onTicks \in Nat /\ cuts \in Nat
<1>1. 8 * totBytes + residual \in Nat /\ TicksPerBit \in Nat
  BY OnOffAssumption, BitsType DEF TypeOK
<1>2. Generated \in Nat
  BY <1>1 DEF Generated
<1>3. Running \in Nat
  BY DEF Running, TypeOK, ClockInv, Time
<1> QED
  BY <1>2, <1>3 DEF TypeOK

(* CancelEvents turns the time of the period into bits and loses less than *)
(* one bit, which the count of interruptions covers.                       *)
LEMMA CutBalanced ==
    ASSUME NEW g \in Nat, NEW r \in Nat, NEW more \in Nat, NEW spent \in Nat,
           NEW c \in Nat, Balanced(g, r, spent, c)
    PROVE  Balanced(g + ((r + more) \div TicksPerBit) * TicksPerBit, 0,
                    spent + more, c + 1)
<1> DEFINE d == (r + more) \div TicksPerBit
           dT == d * TicksPerBit
           loss == (TicksPerBit - 1) * c
<1>1. d \in Nat /\ dT <= r + more /\ r + more <= dT + (TicksPerBit - 1)
  <2>1. r + more \in Nat /\ TicksPerBit \in Nat \ {0}
    BY OnOffAssumption
  <2> QED
    BY <2>1, DivBounds
<1>2. dT \in Nat /\ loss \in Nat
  BY <1>1, OnOffAssumption
<1>3. (TicksPerBit - 1) * (c + 1) = loss + (TicksPerBit - 1)
  BY OnOffAssumption
<1>4. g + r <= spent /\ spent <= g + r + loss
  BY DEF Balanced
<1> HIDE DEF loss, d, dT
<1>5. g + dT + 0 <= spent + more
      /\ spent + more <= g + dT + 0 + (loss + (TicksPerBit - 1))
  BY <1>1, <1>2, <1>4, OnOffAssumption
<1> QED
  BY <1>3, <1>5 DEF Balanced, dT, d

(* The three callers of CancelEvents keep the balance, of all packets and  *)
(* of the one being generated.                                             *)
LEMMA CancelKeepsRate ==
    ASSUME TypeOK, ClockInv, RateAccounting,
           NEW t \in Nat, t >= now,
           onTicks' = onTicks + (IF Sending THEN t - now ELSE 0),
           CancelEvents(t), totBytes' = totBytes
    PROVE  RateAccounting'
<1>1. Balanced(Generated, Running, onTicks, cuts)
  BY RateIsBalanced
<1>2. Generated \in Nat /\ Running \in Nat /\ onTicks \in Nat /\ cuts \in Nat
  BY RateTypes
<1>3. Running' = 0
  BY DEF Running, Sending, CancelEvents
<1>4. CASE Sending
  <2>1. onTicks' = onTicks + (t - now) /\ cuts' = cuts + 1
        /\ residual' = residual + (t - lastStart) \div TicksPerBit
    BY <1>4 DEF CancelEvents, ResidualAt
  <2>2. t - lastStart = Running + (t - now) /\ t - now \in Nat
    BY <1>4 DEF Running, TypeOK, Time
  <2>3. t - lastStart \in Nat
    BY <1>2, <2>2
  <2>4. (t - lastStart) \div TicksPerBit \in Nat
    BY <2>3, DivBounds, OnOffAssumption
  <2>5. Generated' = Generated + ((t - lastStart) \div TicksPerBit) * TicksPerBit
    <3>1. ASSUME NEW d \in Nat
          PROVE  (8 * totBytes + (residual + d)) * TicksPerBit
                 = (8 * totBytes + residual) * TicksPerBit + d * TicksPerBit
      BY OnOffAssumption, BitsType DEF TypeOK
    <3> QED
      BY <2>1, <2>4, <3>1 DEF Generated
  <2>6. Balanced(Generated + ((Running + (t - now)) \div TicksPerBit) * TicksPerBit, 0,
                 onTicks + (t - now), cuts + 1)
    BY <1>1, <1>2, <2>2, CutBalanced
  <2>7. Balanced(Generated', Running', onTicks', cuts')
    BY <1>3, <2>1, <2>2, <2>5, <2>6
  <2> QED
    BY <2>7 DEF RateAccounting, Balanced, Generated, Running
<1>5. CASE ~Sending
  <2>1. Running = 0 /\ onTicks' = onTicks /\ cuts' = cuts /\ Generated' = Generated
    BY <1>2, <1>5 DEF Running, CancelEvents, ResidualAt, Generated
  <2>2. Balanced(Generated', Running', onTicks', cuts')
    BY <1>1, <1>3, <2>1
  <2> QED
    BY <2>2 DEF RateAccounting, Balanced, Generated, Running
<1> QED
  BY <1>4, <1>5

LEMMA RateStep == OnOffInv /\ RateAccounting /\ [Next]_vars => RateAccounting'
<1> SUFFICES ASSUME OnOffInv, RateAccounting, [Next]_vars PROVE RateAccounting'
  OBVIOUS
<1>a. TypeOK /\ ClockInv /\ StageInv /\ DueInv
  BY DEF OnOffInv
<1>b. Balanced(Generated, Running, onTicks, cuts)
  BY RateIsBalanced
<1>c. Generated \in Nat /\ Running \in Nat /\ onTicks \in Nat /\ cuts \in Nat
  BY <1>a, RateTypes
<1>1. CASE StartApplication
  <2>1. appStart \in Nat /\ appStart >= now
        /\ onTicks' = onTicks + (IF Sending THEN appStart - now ELSE 0)
    BY <1>1, <1>a, RunFacts DEF StartApplication, TypeOK
  <2> QED
    BY <1>1, <1>a, <2>1, CancelKeepsRate DEF StartApplication
<1>2. CASE StopApplication
  <2>1. appStop \in Nat /\ appStop >= now
        /\ onTicks' = onTicks + (IF Sending THEN appStop - now ELSE 0)
    BY <1>2, <1>a, RunFacts DEF StopApplication, TypeOK
  <2> QED
    BY <1>2, <1>a, <2>1, CancelKeepsRate DEF StopApplication
<1>3. CASE StartSending
  <2>1. ~Sending /\ startStopEvent \in Nat
    BY <1>3, <1>a, RunFacts DEF StartSending, StageInv, TypeOK
  <2>2. Running = 0 /\ onTicks' = onTicks /\ cuts' = cuts /\ Generated' = Generated
    BY <1>3, <1>c, <2>1 DEF StartSending, Run, Running, Generated
  <2>3. Running' = 0
    BY <1>3, <2>1 DEF StartSending, Run, Running
  <2>4. Balanced(Generated', Running', onTicks', cuts')
    BY <1>b, <2>2, <2>3
  <2> QED
    BY <2>4 DEF RateAccounting, Balanced, Generated, Running
<1>4. CASE StopSending
  <2>1. startStopEvent \in Nat /\ startStopEvent >= now
        /\ onTicks' = onTicks + (IF Sending THEN startStopEvent - now ELSE 0)
    BY <1>4, <1>a, RunFacts DEF StopSending, TypeOK
  <2> QED
    BY <1>4, <1>a, <2>1, CancelKeepsRate DEF StopSending
<1>5. ASSUME NEW taken \in BOOLEAN, SendPacket(taken) PROVE RateAccounting'
  <2>1. sendEvent \in Nat /\ Sending /\ now' = sendEvent
        /\ onTicks' = onTicks + (IF Sending THEN sendEvent - now ELSE 0)
    BY <1>5, <1>a, RunFacts DEF SendPacket, TypeOK, Sending, Run
  <2>2. onTicks' = onTicks + (sendEvent - now) /\ Running = now - lastStart
    BY <2>1 DEF Running
  <2>3. sendEvent = lastStart + (Bits - residual) * TicksPerBit
    BY <1>a, <2>1 DEF DueInv
  <2>4. Generated' = Generated + (Bits - residual) * TicksPerBit
    <3>1. totBytes' = totBytes + PktSize /\ residual' = 0
      BY <1>5 DEF SendPacket
    <3>2. (8 * (totBytes + PktSize) + 0) * TicksPerBit
          = (8 * totBytes + residual) * TicksPerBit + (8 * PktSize - residual) * TicksPerBit
      BY <1>a, OnOffAssumption DEF TypeOK
    <3> QED
      BY <3>1, <3>2 DEF Generated, Bits
  <2>5. Running' = 0 /\ cuts' = cuts
    BY <1>5, <2>1 DEF SendPacket, Running
  <2>6. (Bits - residual) * TicksPerBit \in Int /\ (TicksPerBit - 1) * cuts \in Int
    BY <1>a, BitsType, OnOffAssumption DEF TypeOK
  <2>7. Generated' = Generated + Running + (sendEvent - now)
    <3>1. now \in Nat /\ lastStart \in Nat
      BY <1>a DEF TypeOK, Time
    <3> DEFINE rest == (Bits - residual) * TicksPerBit
    <3>2. rest \in Int /\ sendEvent = lastStart + rest /\ Generated' = Generated + rest
      BY <2>3, <2>4, <2>6
    <3> HIDE DEF rest
    <3> QED
      BY <1>c, <2>2, <3>1, <3>2
  <2>8. Balanced(Generated', Running', onTicks', cuts')
    BY <1>a, <1>b, <1>c, <2>1, <2>2, <2>5, <2>6, <2>7 DEF Balanced, TypeOK, Time
  <2> QED
    BY <2>8 DEF RateAccounting, Balanced, Generated, Running
<1>6. CASE UNCHANGED vars
  BY <1>6 DEF vars, events, RateAccounting, Sending
<1> QED
  BY <1>1, <1>2, <1>3, <1>4, <1>5, <1>6 DEF Next

(* The constant bit rate: the time spent in on periods is the time the     *)
(* bits sent, in the residual and under way take, less than one bit lost   *)
(* to truncation in each CancelEvents that interrupted a packet.           *)
THEOREM RateAccountingCorrect == Spec => []RateAccounting
<1>1. Init => RateAccounting
  BY OnOffAssumption DEF Init, RateAccounting, Sending, NoEvent
<1> QED
  BY <1>1, OnOffInit, OnOffStep, RateStep, PTL DEF Spec

-----------------------------------------------------------------------------
(* The same for the packet being generated: the time since the last one was *)
(* sent, the residual and the interruptions since.                         *)
Spent == onTicks - sentTicks
Cut == cuts - sentCuts
PacketBalanced == Balanced(residual * TicksPerBit, Running, Spent, Cut)

LEMMA PacketTypes ==
    ASSUME TypeOK, ClockInv
    PROVE  /\ residual * TicksPerBit \in Nat /\ Running \in Nat
           /\ Spent \in Nat /\ Cut \in Nat
<1>1. residual \in Nat
  BY BitsType DEF TypeOK
<1>2. residual * TicksPerBit \in Nat
  BY <1>1, OnOffAssumption
<1>3. Spent \in Nat /\ Cut \in Nat
  BY DEF TypeOK, Spent, Cut
<1> QED
  BY <1>2, <1>3, RateTypes

LEMMA CancelKeepsPacket ==
    ASSUME TypeOK, ClockInv, PacketBalanced,
           NEW t \in Nat, t >= now,
           onTicks' = onTicks + (IF Sending THEN t - now ELSE 0),
           CancelEvents(t), UNCHANGED lastSent
    PROVE  PacketBalanced'
<1> DEFINE kept == residual * TicksPerBit
<1>1. Balanced(kept, Running, Spent, Cut)
  BY DEF PacketBalanced
<1>2. kept \in Nat /\ Running \in Nat /\ Spent \in Nat /\ Cut \in Nat
  BY PacketTypes
<1>3. Running' = 0 /\ sentTicks' = sentTicks /\ sentCuts' = sentCuts
  BY DEF Running, Sending, CancelEvents, lastSent
<1>4. CASE Sending
  <2>1. onTicks' = onTicks + (t - now) /\ cuts' = cuts + 1
        /\ residual' = residual + (t - lastStart) \div TicksPerBit
    BY <1>4 DEF CancelEvents, ResidualAt
  <2>2. t - lastStart = Running + (t - now) /\ t - now \in Nat
    BY <1>4 DEF Running, TypeOK, Time
  <2>a. t - lastStart \in Nat
    BY <1>2, <2>2
  <2>3. (t - lastStart) \div TicksPerBit \in Nat
    BY <2>a, DivBounds, OnOffAssumption
  <2>4. kept' = kept + ((t - lastStart) \div TicksPerBit) * TicksPerBit
    <3>1. ASSUME NEW d \in Nat
          PROVE  (residual + d) * TicksPerBit = residual * TicksPerBit + d * TicksPerBit
      BY OnOffAssumption, BitsType DEF TypeOK
    <3> QED
      BY <2>1, <2>3, <3>1
  <2>5. Spent' = Spent + (t - now) /\ Cut' = Cut + 1
    BY <1>3, <2>1, <2>2 DEF Spent, Cut, TypeOK
  <2> HIDE DEF kept
  <2>6. Balanced(kept + ((Running + (t - now)) \div TicksPerBit) * TicksPerBit, 0,
                 Spent + (t - now), Cut + 1)
    BY <1>1, <1>2, <2>2, CutBalanced
  <2>7. Balanced(kept', Running', Spent', Cut')
    BY <1>3, <2>2, <2>4, <2>5, <2>6
  <2> QED
    BY <2>7 DEF PacketBalanced, Balanced, kept
<1>5. CASE ~Sending
  <2>1. Running = 0 /\ onTicks' = onTicks /\ cuts' = cuts /\ residual' = residual
    BY <1>2, <1>5 DEF Running, CancelEvents, ResidualAt, TypeOK
  <2>2. Spent' = Spent /\ Cut' = Cut /\ kept' = kept
    BY <1>3, <2>1 DEF Spent, Cut
  <2> HIDE DEF kept
  <2>3. Balanced(kept', Running', Spent', Cut')
    BY <1>1, <1>3, <2>1, <2>2
  <2> QED
    BY <2>3 DEF PacketBalanced, Balanced, kept
<1> QED
  BY <1>4, <1>5

LEMMA PacketStep == OnOffInv /\ PacketBalanced /\ [Next]_vars => PacketBalanced'
<1> SUFFICES ASSUME OnOffInv, PacketBalanced, [Next]_vars PROVE PacketBalanced'
  OBVIOUS
<1>a. TypeOK /\ ClockInv /\ StageInv
  BY DEF OnOffInv
<1>1. CASE StartApplication
  <2>1. appStart \in Nat /\ appStart >= now
        /\ onTicks' = onTicks + (IF Sending THEN appStart - now ELSE 0)
    BY <1>1, <1>a, RunFacts DEF StartApplication, TypeOK
  <2> QED
    BY <1>1, <1>a, <2>1, CancelKeepsPacket DEF StartApplication
<1>2. CASE StopApplication
  <2>1. appStop \in Nat /\ appStop >= now
        /\ onTicks' = onTicks + (IF Sending THEN appStop - now ELSE 0)
    BY <1>2, <1>a, RunFacts DEF StopApplication, TypeOK
  <2> QED
    BY <1>2, <1>a, <2>1, CancelKeepsPacket DEF StopApplication
<1>3. CASE StartSending
  <2>1. ~Sending /\ startStopEvent \in Nat
    BY <1>3, <1>a, RunFacts DEF StartSending, StageInv, TypeOK
  <2>2. /\ Running = 0 /\ onTicks' = onTicks /\ cuts' = cuts /\ residual' = residual
        /\ UNCHANGED lastSent
    BY <1>3, <1>a, <2>1 DEF StartSending, Run, Running, TypeOK
  <2>3. Running' = 0
    BY <1>3, <2>1 DEF StartSending, Run, Running
  <2>4. Spent' = Spent /\ Cut' = Cut
    BY <2>2 DEF Spent, Cut, lastSent
  <2>5. Balanced(residual * TicksPerBit, Running, Spent, Cut)
    BY DEF PacketBalanced
  <2>6. Balanced(residual' * TicksPerBit, Running', Spent', Cut')
    BY <2>2, <2>3, <2>4, <2>5
  <2> QED
    BY <2>6 DEF PacketBalanced, Balanced
<1>4. CASE StopSending
  <2>1. startStopEvent \in Nat /\ startStopEvent >= now
        /\ onTicks' = onTicks + (IF Sending THEN startStopEvent - now ELSE 0)
    BY <1>4, <1>a, RunFacts DEF StopSending, TypeOK
  <2> QED
    BY <1>4, <1>a, <2>1, CancelKeepsPacket DEF StopSending
<1>5. ASSUME NEW taken \in BOOLEAN, SendPacket(taken) PROVE PacketBalanced'
  <2>1. /\ residual' = 0 /\ now' = sendEvent /\ lastStart' = sendEvent
        /\ sentTicks' = onTicks' /\ sentCuts' = cuts' /\ cuts' = cuts
    BY <1>5 DEF SendPacket, Run
  <2>2. onTicks' \in Nat /\ sendEvent \in Nat /\ cuts \in Nat
    BY <1>5, <1>a, RunFacts DEF SendPacket, TypeOK
  <2>a. Running' = 0
    BY <2>1, <2>2 DEF Running
  <2>b. Spent' = 0 /\ Cut' = 0
    <3>1. Spent' = onTicks' - onTicks' /\ Cut' = cuts - cuts
      BY <2>1 DEF Spent, Cut
    <3>2. \A n \in Nat : n - n = 0
      OBVIOUS
    <3> QED
      BY <2>2, <3>1, <3>2
  <2>3. Running' = 0 /\ Spent' = 0 /\ Cut' = 0
    BY <2>a, <2>b
  <2>4. residual' * TicksPerBit = 0 /\ (TicksPerBit - 1) * 0 = 0
    BY <2>1, OnOffAssumption
  <2> QED
    BY <2>3, <2>4 DEF PacketBalanced, Balanced
<1>6. CASE UNCHANGED vars
  BY <1>6 DEF vars, events, lastSent, PacketBalanced, Balanced, Running, Spent, Cut, Sending
<1> QED
  BY <1>1, <1>2, <1>3, <1>4, <1>5, <1>6 DEF Next

(* ScheduleNextTx sets the send event so that, however often CancelEvents  *)
(* interrupts a packet, the on-time since the one before is that of its    *)
(* bits and less than one bit more per interruption.                       *)
THEOREM DueWhenGeneratedCorrect == Spec => []DueWhenGenerated
<1>1. Init => PacketBalanced
  BY OnOffAssumption DEF Init, PacketBalanced, Balanced, Running, Spent, Cut, Sending, NoEvent
<1>2. OnOffInv /\ PacketBalanced => DueWhenGenerated
  <2> SUFFICES ASSUME OnOffInv, PacketBalanced, Sending
               PROVE  LET spent == onTicks + (sendEvent - now) - sentTicks
                      IN  /\ Bits * TicksPerBit <= spent
                          /\ spent <= Bits * TicksPerBit + (TicksPerBit - 1) * (cuts - sentCuts)
    BY DEF DueWhenGenerated
  <2> DEFINE kept == residual * TicksPerBit
             all == Bits * TicksPerBit
             loss == (TicksPerBit - 1) * (cuts - sentCuts)
  <2>1. TypeOK /\ ClockInv /\ sendEvent = lastStart + (Bits - residual) * TicksPerBit
    BY DEF OnOffInv, DueInv
  <2>2. (Bits - residual) * TicksPerBit = all - kept
    BY <2>1, BitsType, OnOffAssumption DEF TypeOK
  <2>3. kept \in Nat /\ all \in Nat /\ loss \in Int
    BY <2>1, PacketTypes, BitsType, OnOffAssumption DEF TypeOK
  <2>4. kept + (now - lastStart) <= onTicks - sentTicks
        /\ onTicks - sentTicks <= kept + (now - lastStart) + loss
    BY DEF PacketBalanced, Balanced, Running, Spent, Cut
  <2>5. /\ now \in Nat /\ lastStart \in Nat /\ onTicks \in Nat /\ sentTicks \in Int
    BY <2>1 DEF TypeOK, Time
  <2>6. sendEvent = lastStart + (all - kept)
    BY <2>1, <2>2
  <2> HIDE DEF kept, all, loss
  <2>7. /\ all <= onTicks + (sendEvent - now) - sentTicks
        /\ onTicks + (sendEvent - now) - sentTicks <= all + loss
    BY <2>3, <2>4, <2>5, <2>6
  <2> QED
    BY <2>7 DEF all, loss
<1> QED
  BY <1>1, <1>2, OnOffInit, OnOffStep, PacketStep, PTL DEF Spec
=============================================================================
