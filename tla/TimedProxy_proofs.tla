------------------------- MODULE TimedProxy_proofs --------------------------
(***************************************************************************)
(* Proofs about TimedProxy, for every slot width, taper, map of active     *)
(* slots, rate, packet size and resolution of the clock.                   *)
(***************************************************************************)
EXTENDS TimedProxy, WellFoundedInduction, TLAPS

LEMMA TimesMonotone ==
    ASSUME NEW a \in Int, NEW b \in Int, NEW c \in Nat, a <= b
    PROVE  a * c <= b * c
OBVIOUS

LEMMA DivMod ==
    ASSUME NEW a \in Nat, NEW c \in Nat \ {0}
    PROVE  /\ a \div c \in Nat
           /\ a % c \in 0 .. c - 1
           /\ a = (a \div c) * c + (a % c)
OBVIOUS

(* Quotient and remainder are the only ones. *)
LEMMA DivModUnique ==
    ASSUME NEW c \in Nat \ {0}, NEW q \in Nat, NEW r \in 0 .. c - 1
    PROVE  (q * c + r) \div c = q /\ (q * c + r) % c = r
<1> DEFINE n == q * c + r
           d == n \div c
<1>1. n \in Nat /\ d \in Nat /\ n % c \in 0 .. c - 1 /\ n = d * c + (n % c)
  <2>1. n \in Nat
    OBVIOUS
  <2> QED
    BY <2>1, DivMod
<1>2. ASSUME d >= q + 1 PROVE FALSE
  <2>1. (q + 1) * c <= d * c /\ (q + 1) * c = q * c + c
    BY <1>1, <1>2, TimesMonotone
  <2>2. q * c \in Nat /\ d * c \in Nat
    BY <1>1
  <2> HIDE DEF d
  <2> QED
    BY <1>1, <2>1, <2>2
<1>3. ASSUME q >= d + 1 PROVE FALSE
  <2>1. (d + 1) * c <= q * c /\ (d + 1) * c = d * c + c
    BY <1>1, <1>3, TimesMonotone
  <2>2. q * c \in Nat /\ d * c \in Nat
    BY <1>1
  <2> HIDE DEF d
  <2> QED
    BY <1>1, <2>1, <2>2
<1>4. d = q
  BY <1>1, <1>2, <1>3
<1> QED
  BY <1>1, <1>4

LEMMA DivMonotone ==
    ASSUME NEW c \in Nat \ {0}, NEW a \in Nat, NEW b \in Nat, a <= b
    PROVE  a \div c <= b \div c
<1> DEFINE p == a \div c
           q == b \div c
<1>1. /\ p \in Nat /\ a % c \in 0 .. c - 1 /\ a = p * c + (a % c)
      /\ q \in Nat /\ b % c \in 0 .. c - 1 /\ b = q * c + (b % c)
  BY DivMod
<1>2. ASSUME q + 1 <= p PROVE FALSE
  <2>1. (q + 1) * c <= p * c /\ (q + 1) * c = q * c + c
    BY <1>1, <1>2, TimesMonotone
  <2>2. p * c \in Nat /\ q * c \in Nat
    BY <1>1
  <2> HIDE DEF p, q
  <2> QED
    BY <1>1, <2>1, <2>2
<1> QED
  BY <1>1, <1>2

LEMMA ModMonotone ==
    ASSUME NEW c \in Nat \ {0}, NEW a \in Nat, NEW b \in Nat, a <= b,
           a \div c = b \div c
    PROVE  a % c \in Nat /\ b % c \in Nat /\ a % c <= b % c
<1> DEFINE q == a \div c
           r == a % c
           v == b % c
<1>1. q \in Nat /\ r \in 0 .. c - 1 /\ a = q * c + r
  BY DivMod
<1>2. v \in 0 .. c - 1 /\ b = q * c + v
  BY DivMod
<1>3. q * c \in Nat
  BY <1>1
<1>4. r \in Nat /\ v \in Nat /\ r <= v
  <2> HIDE DEF q, r, v
  <2> QED
    BY <1>1, <1>2, <1>3
<1> QED
  BY <1>4

LEMMA DivBelow ==
    ASSUME NEW c \in Nat \ {0}, NEW n \in Nat, NEW k \in Nat, n < k * c
    PROVE  n \div c < k
<1> DEFINE d == n \div c
<1>1. d \in Nat /\ n % c \in 0 .. c - 1 /\ n = d * c + (n % c)
  BY DivMod
<1>2. ASSUME k <= d PROVE FALSE
  <2>1. k * c <= d * c /\ k * c \in Nat /\ d * c \in Nat
    BY <1>1, <1>2, TimesMonotone
  <2> HIDE DEF d
  <2> QED
    BY <1>1, <2>1
<1> QED
  BY <1>1, <1>2

(* A set of numbers has a least one. *)
LEMMA LeastNat ==
    ASSUME NEW T \in SUBSET Nat, T # {}
    PROVE  \E x \in T : \A y \in T : x <= y
<1>1. PICK x \in T : \A y \in T : <<y, x>> \notin OpToRel(<, Nat)
  BY WFMin, NatLessThanWellFounded, Zenon
<1>2. ASSUME NEW y \in T PROVE x <= y
  <2>1. ~ (y < x)
    BY <1>1 DEF OpToRel
  <2> QED
    BY <2>1
<1> QED
  BY <1>2

-----------------------------------------------------------------------------
(* NextActive's search ends: an active slice lies at most a cycle ahead,   *)
(* and no active slice is passed over.                                     *)
LEMMA NextActiveFacts ==
    ASSUME NEW slot \in Nat
    PROVE  \E d \in 1 .. NSlices :
               /\ NextActive(slot) = slot + d
               /\ Active(slot + d)
               /\ \A e \in 1 .. d - 1 : ~Active(slot + e)
<1>a. NSlices \in Nat \ {0} /\ ActiveMap \in SUBSET (0 .. NSlices - 1) /\ ActiveMap # {}
  BY TimedAssumption
<1> DEFINE T == {d \in 1 .. NSlices : Active(slot + d)}
<1>1. T # {}
  <2> DEFINE q == slot \div NSlices
             r == slot % NSlices
  <2>1. q \in Nat /\ r \in 0 .. NSlices - 1 /\ slot = q * NSlices + r
    BY <1>a, DivMod
  <2>2. PICK a \in ActiveMap : a \in 0 .. NSlices - 1
    BY <1>a
  <2>3. CASE a > r
    <3>1. a - r \in 1 .. NSlices /\ slot + (a - r) = q * NSlices + a
      BY <1>a, <2>1, <2>2, <2>3
    <3>2. (q * NSlices + a) % NSlices = a
      BY <1>a, <2>1, <2>2, DivModUnique
    <3> QED
      BY <2>2, <3>1, <3>2 DEF Active
  <2>4. CASE a <= r
    <3>1. a - r + NSlices \in 1 .. NSlices
          /\ (q + 1) * NSlices = q * NSlices + NSlices
          /\ slot + (a - r + NSlices) = (q + 1) * NSlices + a
      BY <1>a, <2>1, <2>2, <2>4
    <3>2. ((q + 1) * NSlices + a) % NSlices = a
      <4> DEFINE k == q + 1
      <4>1. k \in Nat
        BY <2>1
      <4> HIDE DEF k
      <4>2. (k * NSlices + a) % NSlices = a
        BY <1>a, <2>2, <4>1, DivModUnique
      <4> QED
        BY <4>2 DEF k
    <3> QED
      BY <2>2, <3>1, <3>2 DEF Active
  <2> QED
    BY <2>1, <2>2, <2>3, <2>4
<1>2. PICK d \in T : \A e \in T : d <= e
  <2>1. T \in SUBSET Nat
    BY <1>a
  <2> HIDE DEF T
  <2> QED
    BY <1>1, <2>1, LeastNat
<1>3. d \in 1 .. NSlices /\ Active(slot + d) /\ \A e \in 1 .. d - 1 : ~Active(slot + e)
  BY <1>2, <1>a
<1> HIDE DEF T
<1> QED
  BY <1>3 DEF NextActive

(* GetNextTxTime as a function of the time m from which it searches. *)
SearchFrom(m) ==
    LET ms == m \div TicksPerMs
        slot == Slot(ms)
    IN  IF Active(slot) /\ slot = Slot(ms + SliceTaperMS)
        THEN m
        ELSE NextActive(slot) * SliceWidthMS * TicksPerMs

(* Within its slot, a time is before the taper exactly if the slot is the  *)
(* same a taper later.                                                     *)
LEMMA TaperTest ==
    ASSUME NEW ms \in Nat
    PROVE  Slot(ms) = Slot(ms + SliceTaperMS)
             <=> (ms % SliceWidthMS) + SliceTaperMS < SliceWidthMS
<1>a. SliceWidthMS \in Nat \ {0} /\ SliceTaperMS \in Nat /\ ms + SliceTaperMS \in Nat
  BY TimedAssumption
<1> DEFINE q == ms \div SliceWidthMS
           r == ms % SliceWidthMS
           p == (ms + SliceTaperMS) \div SliceWidthMS
           v == (ms + SliceTaperMS) % SliceWidthMS
<1>1. /\ q \in Nat /\ r \in 0 .. SliceWidthMS - 1 /\ ms = q * SliceWidthMS + r
      /\ p \in Nat /\ v \in 0 .. SliceWidthMS - 1
      /\ ms + SliceTaperMS = p * SliceWidthMS + v
  BY <1>a, DivMod
<1>2. q * SliceWidthMS \in Nat
  BY <1>a, <1>1
<1>3. ASSUME r + SliceTaperMS < SliceWidthMS PROVE p = q
  <2>1. r + SliceTaperMS \in 0 .. SliceWidthMS - 1
        /\ ms + SliceTaperMS = q * SliceWidthMS + (r + SliceTaperMS)
    BY <1>a, <1>1, <1>2, <1>3
  <2>2. (q * SliceWidthMS + (r + SliceTaperMS)) \div SliceWidthMS = q
    BY <1>a, <1>1, <2>1, DivModUnique
  <2> QED
    BY <2>1, <2>2
<1>4. ASSUME p = q PROVE r + SliceTaperMS < SliceWidthMS
  <2> HIDE DEF q, p, r, v
  <2> QED
    BY <1>a, <1>1, <1>2, <1>4
<1> QED
  BY <1>3, <1>4 DEF Slot

(* No time before the one found permits sending: it lies in the slice of   *)
(* m, which is then inactive or tapering off, or in an inactive one.       *)
LEMMA NothingMissed ==
    ASSUME NEW m \in Nat, NEW slot \in Nat, slot = Slot(m \div TicksPerMs),
           ~(Active(slot) /\ slot = Slot((m \div TicksPerMs) + SliceTaperMS)),
           NEW d \in Nat, \A e \in 1 .. d - 1 : ~Active(slot + e),
           NEW u \in Nat, m <= u, u < (slot + d) * SliceWidthMS * TicksPerMs
    PROVE  ~MayBegin(u)
<1>a. SliceWidthMS \in Nat \ {0} /\ TicksPerMs \in Nat \ {0} /\ SliceTaperMS \in Nat
  BY TimedAssumption
<1> DEFINE ms == m \div TicksPerMs
           mu == u \div TicksPerMs
           su == mu \div SliceWidthMS
           last == (slot + d) * SliceWidthMS
<1>1. ms \in Nat /\ mu \in Nat /\ ms <= mu
  BY <1>a, DivMod, DivMonotone
<1>2. mu < last
  <2>1. last \in Nat
    BY <1>a
  <2>2. u < last * TicksPerMs
    OBVIOUS
  <2> HIDE DEF last
  <2> QED
    BY <1>a, <2>1, <2>2, DivBelow
<1>3. su \in Nat /\ slot <= su
  <2>1. slot = ms \div SliceWidthMS
    BY DEF Slot
  <2> HIDE DEF mu, ms, last
  <2>2. mu \div SliceWidthMS \in Nat
    BY <1>a, <1>1, DivMod
  <2>3. ms \div SliceWidthMS <= mu \div SliceWidthMS
    BY <1>a, <1>1, DivMonotone
  <2> QED
    BY <2>1, <2>2, <2>3
<1>4. su < slot + d
  <2> HIDE DEF mu
  <2>1. slot + d \in Nat
    OBVIOUS
  <2> QED
    BY <1>a, <1>1, <1>2, <2>1, DivBelow
<1>5. CASE ~Active(su)
  BY <1>5 DEF MayBegin, Active
<1>6. CASE Active(su)
  <2>1. su = slot
    <3>1. ASSUME su # slot PROVE FALSE
      <4> DEFINE e == su - slot
      <4> HIDE DEF su
      <4>1. e \in 1 .. d - 1 /\ slot + e = su
        BY <1>3, <1>4, <3>1
      <4> HIDE DEF e
      <4> QED
        BY <1>6, <4>1
    <3> QED
      BY <3>1
  <2>2. ~((ms % SliceWidthMS) + SliceTaperMS < SliceWidthMS)
    BY <1>1, <1>6, <2>1, TaperTest
  <2>3. slot = ms \div SliceWidthMS
    BY DEF Slot
  <2>4. ~((mu % SliceWidthMS) + SliceTaperMS < SliceWidthMS)
    <3> HIDE DEF mu, ms, last
    <3>1. ms % SliceWidthMS \in Nat /\ mu % SliceWidthMS \in Nat
          /\ ms % SliceWidthMS <= mu % SliceWidthMS
      BY <1>a, <1>1, <2>1, <2>3, ModMonotone
    <3> QED
      BY <1>a, <2>2, <3>1
  <2> QED
    BY <2>4 DEF MayBegin
<1> QED
  BY <1>5, <1>6

(* What GetNextTxTime promises. *)
LEMMA SearchFacts ==
    ASSUME NEW m \in Nat
    PROVE  /\ SearchFrom(m) \in Nat
           /\ m <= SearchFrom(m)
           /\ \A u \in m .. SearchFrom(m) - 1 : ~MayBegin(u)
           /\ SliceTaperMS < SliceWidthMS => MayBegin(SearchFrom(m))
<1>a. SliceWidthMS \in Nat \ {0} /\ TicksPerMs \in Nat \ {0} /\ SliceTaperMS \in Nat
  BY TimedAssumption
<1> DEFINE ms == m \div TicksPerMs
           slot == Slot(ms)
<1>1. ms \in Nat /\ m % TicksPerMs \in 0 .. TicksPerMs - 1
      /\ m = ms * TicksPerMs + (m % TicksPerMs)
  BY <1>a, DivMod
<1>2. slot \in Nat /\ ms % SliceWidthMS \in 0 .. SliceWidthMS - 1
      /\ ms = slot * SliceWidthMS + (ms % SliceWidthMS)
  <2> HIDE DEF ms
  <2> QED
    BY <1>a, <1>1, DivMod DEF Slot
<1>3. CASE Active(slot) /\ slot = Slot(ms + SliceTaperMS)
  <2>1. SearchFrom(m) = m
    BY <1>3 DEF SearchFrom
  <2>2. MayBegin(m)
    <3>1. (ms % SliceWidthMS) + SliceTaperMS < SliceWidthMS
      BY <1>1, <1>3, TaperTest
    <3> QED
      BY <1>3, <3>1 DEF MayBegin, Active, Slot
  <2> QED
    BY <2>1, <2>2
<1>4. CASE ~(Active(slot) /\ slot = Slot(ms + SliceTaperMS))
  <2>1. PICK d \in 1 .. NSlices :
            /\ NextActive(slot) = slot + d
            /\ Active(slot + d)
            /\ \A e \in 1 .. d - 1 : ~Active(slot + e)
    <3> HIDE DEF slot
    <3> QED
      BY <1>2, NextActiveFacts
  <2> DEFINE s == slot + d
             last == s * SliceWidthMS
             t == last * TicksPerMs
  <2>2. d \in Nat /\ d >= 1
    BY <2>1, TimedAssumption
  <2>3. s \in Nat /\ last \in Nat /\ t \in Nat
    <3>1. s \in Nat
      BY <1>2, <2>2
    <3>2. last \in Nat
      <4> HIDE DEF s
      <4> QED
        BY <1>a, <3>1
    <3> HIDE DEF last, s
    <3> QED
      BY <1>a, <3>1, <3>2
  <2>4. SearchFrom(m) = t
    BY <1>4, <2>1 DEF SearchFrom
  <2>5. m < t
    <3>1. ms + 1 <= last
      <4>1. (slot + 1) * SliceWidthMS <= last
        <5> HIDE DEF slot
        <5> QED
          BY <1>a, <1>2, <2>2, TimesMonotone
      <4>2. (slot + 1) * SliceWidthMS = slot * SliceWidthMS + SliceWidthMS
            /\ slot * SliceWidthMS \in Nat
        <5> HIDE DEF slot
        <5> QED
          BY <1>a, <1>2
      <4> HIDE DEF slot, ms, last
      <4> QED
        BY <1>a, <1>1, <1>2, <2>3, <4>1, <4>2
    <3>2. (ms + 1) * TicksPerMs <= t
      <4> HIDE DEF ms, last
      <4> QED
        BY <1>a, <1>1, <2>3, <3>1, TimesMonotone
    <3>3. (ms + 1) * TicksPerMs = ms * TicksPerMs + TicksPerMs
          /\ ms * TicksPerMs \in Nat
      <4> HIDE DEF ms
      <4> QED
        BY <1>a, <1>1
    <3> HIDE DEF ms, t
    <3> QED
      BY <1>a, <1>1, <2>3, <3>2, <3>3
  <2>6. ASSUME NEW u \in m .. t - 1 PROVE ~MayBegin(u)
    <3>1. u \in Nat /\ m <= u /\ u < t
      <4> HIDE DEF t
      <4> QED
        BY <2>3
    <3> QED
      BY <1>2, <1>4, <2>1, <2>2, <3>1, NothingMissed
  <2>7. ASSUME SliceTaperMS < SliceWidthMS PROVE MayBegin(t)
    <3>1. t \div TicksPerMs = last
      <4> HIDE DEF last
      <4>1. (last * TicksPerMs + 0) \div TicksPerMs = last
        BY <1>a, <2>3, DivModUnique
      <4> QED
        BY <1>a, <2>3, <4>1
    <3>2. last \div SliceWidthMS = s /\ last % SliceWidthMS = 0
      <4> HIDE DEF s
      <4>1. (s * SliceWidthMS + 0) \div SliceWidthMS = s
            /\ (s * SliceWidthMS + 0) % SliceWidthMS = 0
        BY <1>a, <2>3, DivModUnique
      <4> QED
        BY <1>a, <2>3, <4>1
    <3>3. s % NSlices \in ActiveMap
      BY <2>1 DEF Active
    <3> HIDE DEF t, last, s
    <3> QED
      BY <1>a, <2>7, <3>1, <3>2, <3>3 DEF MayBegin
  <2> HIDE DEF t
  <2> QED
    BY <2>3, <2>4, <2>5, <2>6, <2>7
<1> QED
  BY <1>3, <1>4

-----------------------------------------------------------------------------
(* If packets were waiting when the last one was sent, they still are, and *)
(* m_txEndTime leaves room for it after the pending event.                 *)
RoomForLast(q, ev, end) ==
    Len(q) >= 1 /\ q[Len(q)].more =>
        ev # {} /\ \A t \in ev : end >= t + Duration(q[Len(q)].size)

(* The packet after the last two keeps the distance the first of them asks *)
(* for: if it is not scheduled yet, m_txEndTime will see to that.          *)
RoomForSecond(q, ev, end) ==
    Len(q) >= 2 /\ q[Len(q) - 1].more =>
        LET free == q[Len(q)].at + Duration(q[Len(q) - 1].size)
        IN  /\ ev = {} => end >= free
            /\ \A t \in ev : t >= free

PaceInv ==
    /\ run = "init" => sent = <<>>
    /\ run = "running" => /\ RoomForLast(sent, sendEv, txEndTime)
                          /\ RoomForSecond(sent, sendEv, txEndTime)
    /\ PacedInBurst

SliceInv ==
    SliceTaperMS < SliceWidthMS =>
        SentInSlice /\ \A t \in sendEv : MayBegin(t)

(* The invariant that carries the properties. *)
TimedInv == TypeOK /\ EventPending /\ NoMissedSlice /\ SliceInv /\ PaceInv

Record == [at : Nat, size : Sizes, more : BOOLEAN]

LEMMA DurationType ==
    ASSUME NEW size \in Sizes
    PROVE  size \in Nat /\ Duration(size) \in Nat
BY TimedAssumption DEF Duration

(* What a newly scheduled event is known to satisfy. *)
LEMMA NextTxFacts ==
    ASSUME TypeOK
    PROVE  /\ MinTime \in Nat /\ GetNextTxTime \in Nat
           /\ now <= MinTime /\ txEndTime <= MinTime
           /\ MinTime <= GetNextTxTime
           /\ \A u \in MinTime .. GetNextTxTime - 1 : ~MayBegin(u)
           /\ SliceTaperMS < SliceWidthMS => MayBegin(GetNextTxTime)
<1>1. MinTime \in Nat /\ now <= MinTime /\ txEndTime <= MinTime
  BY DEF TypeOK, MinTime, LaterOf
<1>2. GetNextTxTime = SearchFrom(MinTime)
  BY DEF GetNextTxTime, SearchFrom
<1> QED
  BY <1>1, <1>2, SearchFacts

LEMMA TimedInit == Init => TimedInv
<1> SUFFICES ASSUME Init PROVE TimedInv
  OBVIOUS
<1>1. TypeOK
  <2>1. Proxy!ProxyTypeOK
    BY DEF Init, Proxy!ProxyInit, Proxy!ProxyTypeOK
  <2>2. now \in 0 .. MaxTime /\ txEndTime \in Nat /\ rxTotal \in Nat
        /\ txTotal \in Nat /\ earliest \in Nat /\ sendEv \in SUBSET Nat
    BY TimedAssumption DEF Init
  <2>3. store \in Seq(Sizes) /\ sent \in Seq(Record)
    BY DEF Init
  <2> QED
    BY <2>1, <2>2, <2>3 DEF TypeOK, Record
<1>2. EventPending /\ NoMissedSlice
  BY DEF Init, EventPending, NoMissedSlice
<1>3. SliceInv
  BY DEF Init, SliceInv, SentInSlice
<1>4. PaceInv
  <2>1. run = "init" /\ sent = <<>>
    BY DEF Init, Proxy!ProxyInit
  <2> QED
    BY <2>1 DEF PaceInv, PacedInBurst
<1> QED
  BY <1>1, <1>2, <1>3, <1>4 DEF TimedInv

(* The three properties of a step that leaves packets and events alone. *)
LEMMA QuietStep ==
    ASSUME TimedInv, UNCHANGED <<store, sendEv, txEndTime, earliest, sent>>
    PROVE  /\ NoMissedSlice'
           /\ SliceInv'
           /\ PacedInBurst'
           /\ RoomForLast(sent', sendEv', txEndTime') <=> RoomForLast(sent, sendEv, txEndTime)
           /\ RoomForSecond(sent', sendEv', txEndTime')
                <=> RoomForSecond(sent, sendEv, txEndTime)
<1>1. NoMissedSlice'
  BY DEF TimedInv, NoMissedSlice
<1>2. SliceInv'
  BY DEF TimedInv, SliceInv, SentInSlice
<1>3. PacedInBurst'
  BY DEF TimedInv, PaceInv, PacedInBurst
<1> QED
  BY <1>1, <1>2, <1>3

LEMMA TickStep == TimedInv /\ Tick => TimedInv'
<1> SUFFICES ASSUME TimedInv, Tick PROVE TimedInv'
  OBVIOUS
<1>1. TypeOK'
  BY TimedAssumption DEF TimedInv, TypeOK, Tick, Proxy!ProxyTypeOK
<1>2. EventPending'
  <2>1. \A t \in sendEv : t \in Nat /\ t >= now /\ t # now
    BY DEF TimedInv, TypeOK, EventPending, Tick
  <2> QED
    BY <2>1 DEF TimedInv, TypeOK, EventPending, Tick
<1>3. NoMissedSlice' /\ SliceInv' /\ PaceInv'
  BY QuietStep DEF TimedInv, PaceInv, Tick
<1> QED
  BY <1>1, <1>2, <1>3 DEF TimedInv

LEMMA StartStep == TimedInv /\ StartApplication => TimedInv'
<1> SUFFICES ASSUME TimedInv, StartApplication PROVE TimedInv'
  OBVIOUS
<1>a. run = "init" /\ run' = "running" /\ sent = <<>>
  BY DEF StartApplication, Proxy!StartApplication, TimedInv, PaceInv
<1>1. TypeOK'
  BY <1>a DEF TimedInv, TypeOK, StartApplication, Proxy!ProxyTypeOK
<1>2. EventPending'
  BY DEF TimedInv, EventPending, StartApplication
<1>3. NoMissedSlice' /\ SliceInv' /\ PacedInBurst'
  BY QuietStep DEF StartApplication
<1>4. PaceInv'
  <2>1. sent' = <<>>
    BY <1>a DEF StartApplication
  <2> QED
    BY <1>a, <1>3, <2>1 DEF PaceInv, RoomForLast, RoomForSecond
<1> QED
  BY <1>1, <1>2, <1>3, <1>4 DEF TimedInv

LEMMA StopStep == TimedInv /\ StopApplication => TimedInv'
<1> SUFFICES ASSUME TimedInv, StopApplication PROVE TimedInv'
  OBVIOUS
<1>a. run' = "stopped"
  BY DEF StopApplication, Proxy!StopApplication
<1>1. TypeOK'
  BY <1>a DEF TimedInv, TypeOK, StopApplication, Proxy!ProxyTypeOK
<1>2. EventPending'
  BY DEF TimedInv, EventPending, StopApplication
<1>3. NoMissedSlice' /\ SliceInv' /\ PacedInBurst'
  BY QuietStep DEF StopApplication
<1> QED
  BY <1>a, <1>1, <1>2, <1>3 DEF TimedInv, PaceInv

(* A step that schedules the one event for GetNextTxTime. *)
LEMMA ScheduledFacts ==
    ASSUME TypeOK, Schedule(GetNextTxTime)
    PROVE  /\ sendEv' = {GetNextTxTime}
           /\ sendEv' \in SUBSET Nat
           /\ earliest' \in Nat
           /\ NoMissedSlice'
           /\ SliceTaperMS < SliceWidthMS => \A t \in sendEv' : MayBegin(t)
<1>1. sendEv' = {GetNextTxTime} /\ earliest' = MinTime
  BY DEF Schedule
<1>2. /\ GetNextTxTime \in Nat /\ MinTime \in Nat /\ MinTime <= GetNextTxTime
      /\ \A u \in MinTime .. GetNextTxTime - 1 : ~MayBegin(u)
      /\ SliceTaperMS < SliceWidthMS => MayBegin(GetNextTxTime)
  BY NextTxFacts
<1>3. NoMissedSlice'
  <2> DEFINE next == GetNextTxTime
             from == MinTime
  <2>1. /\ sendEv' = {next} /\ earliest' = from
        /\ from <= next /\ \A u \in from .. next - 1 : ~MayBegin(u)
    BY <1>1, <1>2
  <2> HIDE DEF next, from
  <2> QED
    BY <2>1 DEF NoMissedSlice
<1>4. SliceTaperMS < SliceWidthMS => \A t \in sendEv' : MayBegin(t)
  <2> DEFINE next == GetNextTxTime
  <2>1. sendEv' = {next} /\ (SliceTaperMS < SliceWidthMS => MayBegin(next))
    BY <1>1, <1>2
  <2> HIDE DEF next
  <2> QED
    BY <2>1, Zenon
<1> QED
  BY <1>1, <1>2, <1>3, <1>4

LEMMA ReadStep ==
    ASSUME TimedInv, NEW size \in Sizes, HandleRead(size)
    PROVE  TimedInv'
<1>a. TypeOK /\ EventPending /\ NoMissedSlice /\ SliceInv /\ PaceInv
  BY DEF TimedInv
<1>b. /\ run = "running" /\ run' = "running" /\ now' = now
      /\ store' = Append(store, size) /\ rxTotal' = rxTotal + size
      /\ txEndTime' = txEndTime /\ txTotal' = txTotal /\ sent' = sent
  BY DEF HandleRead
<1>c. /\ now \in 0 .. MaxTime /\ store \in Seq(Sizes) /\ txEndTime \in Nat
      /\ rxTotal \in Nat /\ txTotal \in Nat /\ earliest \in Nat
      /\ sent \in Seq(Record) /\ sendEv \in SUBSET Nat
  BY <1>a DEF TypeOK, Record
<1>d. store' \in Seq(Sizes) /\ store' # <<>>
  BY <1>b, <1>c
<1>e. PacedInBurst'
  BY <1>a, <1>b DEF PaceInv, PacedInBurst
<1>f. SentInSlice' <=> SentInSlice
  BY <1>b DEF SentInSlice
<1>t. ASSUME sendEv' \in SUBSET Nat, earliest' \in Nat PROVE TypeOK'
  <2>1. Proxy!ProxyTypeOK'
    BY <1>a, <1>b DEF TypeOK, Proxy!ProxyTypeOK
  <2>2. rxTotal' \in Nat
    BY <1>b, <1>c, DurationType
  <2> QED
    BY <1>b, <1>c, <1>d, <1>t, <2>1, <2>2 DEF TypeOK, Record
<1>1. CASE store = <<>>
  <2>1. Schedule(GetNextTxTime)
    BY <1>1 DEF HandleRead
  <2>2. /\ sendEv' = {GetNextTxTime} /\ sendEv' \in SUBSET Nat /\ earliest' \in Nat
        /\ NoMissedSlice'
        /\ SliceTaperMS < SliceWidthMS => \A t \in sendEv' : MayBegin(t)
    BY <1>a, <2>1, ScheduledFacts
  <2>3. GetNextTxTime \in Nat /\ now <= GetNextTxTime /\ txEndTime <= GetNextTxTime
    BY <1>a, <1>c, NextTxFacts
  <2>4. EventPending'
    BY <1>b, <1>d, <2>2, <2>3 DEF EventPending
  <2>5. SliceInv'
    BY <1>a, <1>f, <2>2 DEF SliceInv
  <2>6. sendEv = {}
    BY <1>1, <1>a DEF EventPending
  <2>7. RoomForLast(sent', sendEv', txEndTime')
    BY <1>a, <1>b, <2>6 DEF PaceInv, RoomForLast
  <2>8. RoomForSecond(sent', sendEv', txEndTime')
    <3>1. SUFFICES ASSUME Len(sent) >= 2, sent[Len(sent) - 1].more
                   PROVE  GetNextTxTime >= sent[Len(sent)].at
                                             + Duration(sent[Len(sent) - 1].size)
      BY <1>b, <2>2 DEF RoomForSecond
    <3>2. txEndTime >= sent[Len(sent)].at + Duration(sent[Len(sent) - 1].size)
      BY <1>a, <1>b, <2>6, <3>1 DEF PaceInv, RoomForSecond
    <3>3. sent[Len(sent)].at \in Nat /\ Duration(sent[Len(sent) - 1].size) \in Nat
      <4>1. sent[Len(sent)] \in Record /\ sent[Len(sent) - 1] \in Record
        BY <1>c, <3>1
      <4> QED
        BY <4>1, DurationType DEF Record
    <3> QED
      BY <1>c, <2>3, <3>2, <3>3
  <2> QED
    BY <1>b, <1>e, <1>t, <2>2, <2>4, <2>5, <2>7, <2>8 DEF TimedInv, PaceInv
<1>2. CASE store # <<>>
  <2>1. sendEv' = sendEv /\ earliest' = earliest
    BY <1>2 DEF HandleRead
  <2>2. EventPending'
    BY <1>2, <1>a, <1>b, <1>d, <2>1 DEF EventPending
  <2>3. NoMissedSlice' /\ SliceInv'
    BY <1>a, <1>b, <1>f, <2>1 DEF NoMissedSlice, SliceInv
  <2>4. PaceInv'
    BY <1>a, <1>b, <1>e, <2>1 DEF PaceInv
  <2> QED
    BY <1>c, <1>t, <2>1, <2>2, <2>3, <2>4 DEF TimedInv
<1> QED
  BY <1>1, <1>2

LEMMA SendStep == TimedInv /\ SendNextPacket => TimedInv'
<1> SUFFICES ASSUME TimedInv, SendNextPacket PROVE TimedInv'
  OBVIOUS
<1> DEFINE n == Len(sent)
           packet == [at |-> now, size |-> Head(store), more |-> Tail(store) # <<>>]
<1>a. TypeOK /\ EventPending /\ NoMissedSlice /\ SliceInv /\ PaceInv
  BY DEF TimedInv
<1>b. /\ now \in sendEv /\ now' = now /\ run' = run /\ rxTotal' = rxTotal
      /\ store' = Tail(store) /\ txTotal' = txTotal + Head(store)
  BY DEF SendNextPacket
<1>c. /\ now \in 0 .. MaxTime /\ store \in Seq(Sizes) /\ txEndTime \in Nat
      /\ rxTotal \in Nat /\ txTotal \in Nat /\ earliest \in Nat
      /\ sent \in Seq(Record) /\ sendEv \in SUBSET Nat /\ n \in Nat
      /\ run \in {"init", "running", "stopped", "aborted"}
  BY <1>a DEF TypeOK, Record, Proxy!ProxyTypeOK
<1>d. store # <<>> /\ sendEv = {now}
  BY <1>a, <1>b DEF EventPending
<1>e. Head(store) \in Sizes /\ Tail(store) \in Seq(Sizes) /\ packet \in Record
      /\ Duration(Head(store)) \in Nat /\ now \in Nat
  <2>1. Head(store) \in Sizes /\ Tail(store) \in Seq(Sizes)
    BY <1>c, <1>d
  <2>2. now \in Nat
    BY <1>c
  <2> QED
    BY <2>1, <2>2, DurationType DEF Record
(* A packet that is counted only: the socket is closed. *)
<1>f. ASSUME run # "running"
      PROVE  /\ sent' = sent /\ sent' \in Seq(Record) /\ PaceInv'
             /\ SentInSlice' <=> SentInSlice
  <2>1. sent' = sent
    BY <1>f DEF SendNextPacket
  <2>2. PaceInv'
    BY <1>a, <1>b, <1>f, <2>1 DEF PaceInv, PacedInBurst
  <2>3. SentInSlice' <=> SentInSlice
    BY <2>1 DEF SentInSlice
  <2> QED
    BY <1>c, <2>1, <2>2, <2>3
(* The socket takes the packet, no sooner than its predecessors permit. *)
<1>g. ASSUME run = "running"
      PROVE  /\ sent' = Append(sent, packet) /\ sent' \in Seq(Record)
             /\ Len(sent') = n + 1 /\ sent'[n + 1] = packet
             /\ \A i \in 1 .. n : sent'[i] = sent[i] /\ sent[i] \in Record
  <2>1. sent' = Append(sent, packet)
    BY <1>g DEF SendNextPacket
  <2> HIDE DEF packet
  <2> QED
    BY <1>c, <1>e, <2>1
<1>h. SliceTaperMS < SliceWidthMS => SentInSlice'
  <2>1. SUFFICES ASSUME SliceTaperMS < SliceWidthMS, run = "running"
                 PROVE  SentInSlice'
    BY <1>a, <1>f DEF SliceInv
  <2>2. SentInSlice /\ MayBegin(now)
    BY <1>a, <1>b, <2>1 DEF SliceInv
  <2>3. \A i \in 1 .. n + 1 : MayBegin(sent'[i].at)
    <3>1. ASSUME NEW i \in 1 .. n PROVE MayBegin(sent'[i].at)
      BY <1>c, <1>g, <2>1, <2>2, <3>1 DEF SentInSlice
    <3>2. MayBegin(sent'[n + 1].at)
      BY <1>g, <2>1, <2>2
    <3> QED
      BY <1>c, <3>1, <3>2
  <2>4. DOMAIN sent' = 1 .. n + 1
    BY <1>c, <1>g, <2>1
  <2> QED
    BY <2>3, <2>4 DEF SentInSlice
<1>i. PacedInBurst'
  <2>1. CASE run # "running"
    BY <1>f, <2>1 DEF PaceInv
  <2>2. CASE run = "running"
    <3>1. SUFFICES ASSUME NEW i \in 1 .. n - 1, sent'[i].more
                   PROVE  sent'[i + 2].at >= sent'[i + 1].at + Duration(sent'[i].size)
      BY <1>c, <1>g, <2>2 DEF PacedInBurst
    <3>2. CASE i <= n - 2
      <4>1. i \in 1 .. n - 2 /\ i \in 1 .. n /\ i + 1 \in 1 .. n /\ i + 2 \in 1 .. n
        BY <1>c, <3>2
      <4>2. sent[i].more =>
                sent[i + 2].at >= sent[i + 1].at + Duration(sent[i].size)
        BY <1>a, <4>1 DEF PaceInv, PacedInBurst
      <4> QED
        BY <1>g, <2>2, <3>1, <4>1, <4>2
    <3>3. CASE i = n - 1
      <4>1. i \in 1 .. n /\ n \in 1 .. n /\ n >= 2 /\ i + 1 = n /\ i + 2 = n + 1
        BY <1>c, <3>3
      <4>2. sent[n - 1].more
        BY <1>g, <2>2, <3>1, <3>3, <4>1
      <4>3. now >= sent[n].at + Duration(sent[n - 1].size)
        BY <1>a, <1>d, <2>2, <4>1, <4>2 DEF PaceInv, RoomForSecond
      <4> QED
        BY <1>g, <2>2, <3>3, <4>1, <4>3
    <3> QED
      BY <1>c, <3>2, <3>3
  <2> QED
    BY <2>1, <2>2
<1>t. ASSUME sendEv' \in SUBSET Nat, earliest' \in Nat, txEndTime' \in Nat
      PROVE  TypeOK'
  <2>1. Proxy!ProxyTypeOK'
    BY <1>a, <1>b DEF TypeOK, Proxy!ProxyTypeOK
  <2>2. txTotal' \in Nat
    BY <1>b, <1>c, <1>e, DurationType
  <2>3. sent' \in Seq(Record)
    BY <1>f, <1>g
  <2> QED
    BY <1>b, <1>c, <1>e, <1>t, <2>1, <2>2, <2>3 DEF TypeOK, Record
<1>1. CASE Tail(store) = <<>>
  <2>1. sendEv' = {} /\ txEndTime' = txEndTime /\ earliest' = earliest
    BY <1>1 DEF SendNextPacket
  <2>2. EventPending'
    BY <1>1, <1>b, <2>1 DEF EventPending
  <2>3. NoMissedSlice' /\ SliceInv'
    BY <1>h, <2>1 DEF NoMissedSlice, SliceInv
  <2>4. PaceInv'
    <3>1. SUFFICES ASSUME run = "running"
                   PROVE  /\ RoomForLast(sent', sendEv', txEndTime')
                          /\ RoomForSecond(sent', sendEv', txEndTime')
      BY <1>b, <1>f, <1>i DEF PaceInv
    <3>2. RoomForLast(sent', sendEv', txEndTime')
      <4>1. ~ packet.more
        BY <1>1
      <4>2. Len(sent') = n + 1 /\ sent'[n + 1] = packet
        BY <1>g, <3>1
      <4> HIDE DEF packet
      <4> QED
        BY <4>1, <4>2 DEF RoomForLast
    <3>3. RoomForSecond(sent', sendEv', txEndTime')
      <4>1. SUFFICES ASSUME n >= 1, sent[n].more
                     PROVE  txEndTime >= now + Duration(sent[n].size)
        BY <1>c, <1>g, <2>1, <3>1 DEF RoomForSecond
      <4> QED
        BY <1>a, <1>d, <3>1, <4>1 DEF PaceInv, RoomForLast
    <3> QED
      BY <3>2, <3>3
  <2> QED
    BY <1>c, <1>t, <2>1, <2>2, <2>3, <2>4 DEF TimedInv
<1>2. CASE Tail(store) # <<>>
  <2>1. Schedule(GetNextTxTime) /\ txEndTime' = TxEnd(GetNextTxTime, Head(store))
    BY <1>2 DEF SendNextPacket
  <2>2. /\ sendEv' = {GetNextTxTime} /\ sendEv' \in SUBSET Nat /\ earliest' \in Nat
        /\ NoMissedSlice'
        /\ SliceTaperMS < SliceWidthMS => \A t \in sendEv' : MayBegin(t)
    BY <1>a, <2>1, ScheduledFacts
  <2>3. GetNextTxTime \in Nat /\ now <= GetNextTxTime /\ txEndTime <= GetNextTxTime
    BY <1>a, <1>c, NextTxFacts
  <2>4. txEndTime' = GetNextTxTime + Duration(Head(store)) /\ txEndTime' \in Nat
    BY <1>e, <2>1, <2>3 DEF TxEnd
  <2>5. EventPending'
    BY <1>2, <1>b, <2>2, <2>3 DEF EventPending
  <2>6. SliceInv'
    BY <1>h, <2>2 DEF SliceInv
  <2>7. PaceInv'
    <3>1. SUFFICES ASSUME run = "running"
                   PROVE  /\ RoomForLast(sent', sendEv', txEndTime')
                          /\ RoomForSecond(sent', sendEv', txEndTime')
      BY <1>b, <1>f, <1>i DEF PaceInv
    <3>2. RoomForLast(sent', sendEv', txEndTime')
      <4>1. sent'[Len(sent')].size = Head(store)
        BY <1>g, <3>1
      <4> QED
        BY <1>e, <2>2, <2>3, <2>4, <4>1 DEF RoomForLast
    <3>3. RoomForSecond(sent', sendEv', txEndTime')
      <4>1. SUFFICES ASSUME n >= 1, sent[n].more
                     PROVE  GetNextTxTime >= now + Duration(sent[n].size)
        BY <1>c, <1>g, <2>2, <3>1 DEF RoomForSecond
      <4>2. txEndTime >= now + Duration(sent[n].size)
        BY <1>a, <1>d, <3>1, <4>1 DEF PaceInv, RoomForLast
      <4>3. Duration(sent[n].size) \in Nat
        <5>1. n \in 1 .. n /\ n \in Nat
          BY <1>c, <4>1
        <5>2. sent[n] \in Record
          BY <1>g, <3>1, <5>1
        <5> QED
          BY <5>2, DurationType DEF Record
      <4> QED
        BY <1>c, <1>e, <2>3, <4>2, <4>3
    <3> QED
      BY <3>2, <3>3
  <2> QED
    BY <1>t, <2>2, <2>4, <2>5, <2>6, <2>7 DEF TimedInv
<1> QED
  BY <1>1, <1>2

LEMMA TimedStep == TimedInv /\ [Next]_vars => TimedInv'
<1> SUFFICES ASSUME TimedInv, [Next]_vars PROVE TimedInv'
  OBVIOUS
<1>1. CASE Tick
  BY <1>1, TickStep
<1>2. CASE StartApplication
  BY <1>2, StartStep
<1>3. CASE StopApplication
  BY <1>3, StopStep
<1>4. CASE \E size \in Sizes : HandleRead(size)
  BY <1>4, ReadStep
<1>5. CASE SendNextPacket
  BY <1>5, SendStep
<1>6. CASE UNCHANGED vars
  <2>1. TypeOK'
    BY <1>6 DEF TimedInv, TypeOK, vars, Proxy!ProxyTypeOK
  <2>2. EventPending'
    BY <1>6 DEF TimedInv, EventPending, vars
  <2>3. NoMissedSlice' /\ SliceInv' /\ PaceInv'
    BY <1>6, QuietStep DEF TimedInv, PaceInv, vars
  <2> QED
    BY <2>1, <2>2, <2>3 DEF TimedInv
<1> QED
  BY <1>1, <1>2, <1>3, <1>4, <1>5, <1>6 DEF Next

LEMMA TimedInvariant == Spec => []TimedInv
<1>1. Init => TimedInv
  BY TimedInit
<1>2. TimedInv /\ [Next]_vars => TimedInv'
  BY TimedStep
<1> QED
  BY <1>1, <1>2, PTL DEF Spec

-----------------------------------------------------------------------------
(* The state of timed-proxy.cc is well typed throughout: the search for a  *)
(* slot always ends in a time.                                             *)
THEOREM TimedTypeCorrect == Spec => []TypeOK
<1>1. TimedInv => TypeOK
  BY DEF TimedInv
<1> QED
  BY <1>1, TimedInvariant, PTL

(* No stored packet is without its send event, no event without a packet,  *)
(* and none lies in the past: SendNextPacket's assertions hold.            *)
THEOREM EventPendingCorrect == Spec => []EventPending
<1>1. TimedInv => EventPending
  BY DEF TimedInv
<1> QED
  BY <1>1, TimedInvariant, PTL

(* If the taper leaves anything of a slot, packets are sent in active      *)
(* slices before the taper only.  (If it does not, GetNextTxTime sends at  *)
(* the very beginning of a slice all the same.)                            *)
THEOREM SentInSliceCorrect ==
    ASSUME SliceTaperMS < SliceWidthMS
    PROVE  Spec => []SentInSlice
<1>1. TimedInv => SentInSlice
  BY DEF TimedInv, SliceInv
<1> QED
  BY <1>1, TimedInvariant, PTL

(* GetNextTxTime never passes over a time at which sending is permitted.   *)
THEOREM NoMissedSliceCorrect == Spec => []NoMissedSlice
<1>1. TimedInv => NoMissedSlice
  BY DEF TimedInv
<1> QED
  BY <1>1, TimedInvariant, PTL

(* While packets wait, the one after next leaves no sooner than the rate   *)
(* permits, whatever slices lie between.                                   *)
THEOREM PacedInBurstCorrect == Spec => []PacedInBurst
<1>1. TimedInv => PacedInBurst
  BY DEF TimedInv, PaceInv
<1> QED
  BY <1>1, TimedInvariant, PTL
=============================================================================
