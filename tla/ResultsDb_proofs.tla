-------------------------- MODULE ResultsDb_proofs --------------------------
(***************************************************************************)
(* Proofs about the logs and their summaries, for every window and every   *)
(* traffic.  For the packet loss log the argument is about arrivals q,     *)
(* heap h, largest number popped g and log: rxCb pops if the heap is full  *)
(* and then pushes, and each of the two preserves HeapInv.  A summary is a *)
(* fold, shown equal to a closed form.                                     *)
(***************************************************************************)
EXTENDS ResultsDb, FiniteSetTheorems, WellFoundedInduction, TLAPS

Lines == [ev : {"lost_range", "dup", "large_reorder", "largest"},
          seqno : Nat, seqno2 : Nat]

LinesIn(log, ev) == {l \in ToSet(log) : l.ev = ev}
LostIn(log) == UNION {l.seqno .. l.seqno2 : l \in LinesIn(log, "lost_range")}

Arrived(q, n) == \E j \in DOMAIN q : q[j] = n
AtLeast(q, n) == {j \in DOMAIN q : q[j] >= n}
Ahead(q, i) == {j \in 1 .. i - 1 : q[j] > q[i]}
First(q, i) == \A j \in 1 .. i - 1 : q[j] # q[i]

Logged(q, g, log) ==
    /\ \A n \in 0 .. g : n \in LostIn(log) \/ Arrived(q, n)
    /\ \A n \in LostIn(log) : n < g

LateIn(q, i) == Cardinality(Ahead(q, i)) >= Window

LateLost(q, log) ==
    \A i \in DOMAIN q :
        First(q, i) => (q[i] \in LostIn(log) <=> LateIn(q, i))

(* What has left the heap is at most g, and g was popped from a full heap, *)
(* so Window packets at least have come whose numbers are no smaller.      *)
Processed(q, h, g) ==
    /\ \A j \in DOMAIN q \ h : q[j] <= g
    /\ g >= 0 => /\ \E j \in DOMAIN q \ h : q[j] = g
                 /\ Cardinality(AtLeast(q, g)) >= Window

HeapType(q, h, g, log) ==
    /\ q \in Seq(Nat)
    /\ h \in SUBSET DOMAIN q
    /\ g \in Nat \cup {-1}
    /\ log \in Seq(Lines)
    /\ Cardinality(h) <= Window

HeapInv(q, h, g, log) ==
    /\ HeapType(q, h, g, log)
    /\ Processed(q, h, g)
    /\ Logged(q, g, log)
    /\ LateLost(q, log)

(* The packets with number n that have left the heap, late and not, and    *)
(* the lines of a kind about n.                                            *)
Gone(q, h, n) == {i \in DOMAIN q \ h : q[i] = n}
Behind(q, h, n) == {i \in Gone(q, h, n) : LateIn(q, i)}
OnTime(q, h, n) == Gone(q, h, n) \ Behind(q, h, n)
LinesAbout(log, ev, n) == {k \in DOMAIN log : log[k].ev = ev /\ log[k].seqno = n}
CopyLines(log, ev, n) == Cardinality(LinesAbout(log, ev, n))

(* What waits in the heap is late exactly if it is overtaken already; the  *)
(* lines about copies account for each packet that has left the heap.      *)
CopyInv(q, h, g, log) ==
    /\ \A i \in h : LateIn(q, i) <=> q[i] < g
    /\ g >= 0 => OnTime(q, h, g) # {}
    /\ \A n \in Nat :
           /\ CopyLines(log, "large_reorder", n) = Cardinality(Behind(q, h, n))
           /\ CopyLines(log, "dup", n) =
                  IF OnTime(q, h, n) = {} THEN 0 ELSE Cardinality(OnTime(q, h, n)) - 1

(* PoppedLine and the update of pl_largest_popped. *)
PoppedFrom(v, g) ==
    CASE v < g     -> <<Line("large_reorder", v, g)>>
      [] v = g     -> <<Line("dup", v, v)>>
      [] v > g + 1 -> <<Line("lost_range", g + 1, v - 1)>>
      [] OTHER     -> <<>>

LargestOf(v, g) == IF v > g THEN v ELSE g

-----------------------------------------------------------------------------
LEMMA PositionsFinite ==
    ASSUME NEW q \in Seq(Nat), NEW S \in SUBSET (DOMAIN q)
    PROVE  IsFiniteSet(S) /\ Cardinality(S) \in Nat
<1>1. DOMAIN q = 1 .. Len(q) /\ Len(q) \in Nat
  OBVIOUS
<1>2. IsFiniteSet(1 .. Len(q))
  BY <1>1, FS_Interval
<1>3. IsFiniteSet(S)
  BY <1>1, <1>2, FS_Subset
<1> QED
  BY <1>3, FS_CardinalityType

LEMMA MoreIsMore ==
    ASSUME NEW q \in Seq(Nat), NEW S \in SUBSET (DOMAIN q), NEW T \in SUBSET S
    PROVE  Cardinality(T) <= Cardinality(S)
BY PositionsFinite, FS_Subset

(* A set of numbers has a least one. *)
LEMMA LeastNumber ==
    ASSUME NEW S \in SUBSET Nat, S # {}
    PROVE  \E x \in S : \A y \in S : x <= y
<1>1. PICK x \in S : \A y \in S : <<y, x>> \notin OpToRel(<, Nat)
  BY WFMin, NatLessThanWellFounded, Zenon
<1>2. ASSUME NEW y \in S PROVE x <= y
  <2>1. ~ (y < x)
    BY <1>1 DEF OpToRel
  <2> QED
    BY <2>1
<1> QED
  BY <1>2

(* A line adds its numbers to the lost ones if it is a lost range.         *)
LEMMA LineAdds ==
    ASSUME NEW log \in Seq(Lines), NEW l \in Lines
    PROVE  /\ Append(log, l) \in Seq(Lines)
           /\ \A ev : LinesIn(Append(log, l), ev) =
                          LinesIn(log, ev) \cup (IF l.ev = ev THEN {l} ELSE {})
           /\ LostIn(Append(log, l)) =
                  LostIn(log) \cup (IF l.ev = "lost_range" THEN l.seqno .. l.seqno2 ELSE {})
<1>1. /\ Append(log, l) \in Seq(Lines)
      /\ DOMAIN log = 1 .. Len(log) /\ Len(log) \in Nat
      /\ DOMAIN Append(log, l) = 1 .. Len(log) + 1
      /\ Append(log, l)[Len(log) + 1] = l
      /\ \A i \in 1 .. Len(log) : Append(log, l)[i] = log[i]
  OBVIOUS
<1>2. ToSet(Append(log, l)) = ToSet(log) \cup {l}
  BY <1>1 DEF ToSet
<1>3. \A ev : LinesIn(Append(log, l), ev) =
                  LinesIn(log, ev) \cup (IF l.ev = ev THEN {l} ELSE {})
  BY <1>2 DEF LinesIn
<1>4. LostIn(Append(log, l)) =
          LostIn(log) \cup (IF l.ev = "lost_range" THEN l.seqno .. l.seqno2 ELSE {})
  BY <1>3 DEF LostIn
<1> QED
  BY <1>1, <1>3, <1>4

-----------------------------------------------------------------------------
(* Taking the smallest entry out of a full heap. *)
LEMMA PopKeeps ==
    ASSUME NEW q, NEW h, NEW g, NEW log, HeapInv(q, h, g, log),
           Cardinality(h) = Window,
           NEW i \in h, \A j \in h : q[i] <= q[j]
    PROVE  /\ HeapInv(q, h \ {i}, LargestOf(q[i], g), log \o PoppedFrom(q[i], g))
           /\ Cardinality(h \ {i}) < Window
<1> DEFINE v == q[i]
           r == h \ {i}
           top == LargestOf(v, g)
           log2 == log \o PoppedFrom(v, g)
<1>a. /\ q \in Seq(Nat) /\ h \in SUBSET DOMAIN q /\ i \in DOMAIN q /\ v \in Nat
      /\ g \in Nat \cup {-1} /\ log \in Seq(Lines)
  BY DEF HeapInv, HeapType
<1>b. Processed(q, h, g) /\ Logged(q, g, log) /\ LateLost(q, log)
  BY DEF HeapInv
<1>c. Window \in Nat \ {0}
  BY RxAssumption
<1>d. Cardinality(r) = Window - 1
  BY <1>a, <1>c, PositionsFinite, FS_RemoveElement
<1>e. top \in Nat /\ top >= v /\ top >= g /\ (top = v \/ top = g)
  BY <1>a DEF LargestOf
<1>f. \A j \in DOMAIN q : q[j] \in Nat
  BY <1>a
(* Numbers newly logged as lost are above g and below everything waiting. *)
<1>g. /\ log2 \in Seq(Lines)
      /\ LostIn(log2) = LostIn(log) \cup ((g + 1) .. (v - 1))
  <2>1. CASE v < g
    <3> DEFINE l == Line("large_reorder", v, g)
    <3>1. l \in Lines /\ l.ev = "large_reorder"
      BY <1>a, <2>1 DEF Line, Lines
    <3>2. log2 = Append(log, l)
      <4>1. PoppedFrom(v, g) = <<l>>
        BY <1>a, <2>1 DEF PoppedFrom
      <4> HIDE DEF l, v
      <4> QED
        BY <1>a, <3>1, <4>1
    <3>3. (g + 1) .. (v - 1) = {}
      BY <1>a, <2>1
    <3> HIDE DEF l, log2
    <3> QED
      BY <1>a, <3>1, <3>2, <3>3, LineAdds
  <2>2. CASE v = g
    <3> DEFINE l == Line("dup", v, v)
    <3>1. l \in Lines /\ l.ev = "dup" /\ l.seqno = v
      BY <1>a DEF Line, Lines
    <3>2. log2 = Append(log, l)
      <4>1. PoppedFrom(v, g) = <<l>>
        BY <1>a, <2>2 DEF PoppedFrom
      <4> HIDE DEF l, v
      <4> QED
        BY <1>a, <3>1, <4>1
    <3>3. (g + 1) .. (v - 1) = {}
      BY <1>a, <2>2
    <3> HIDE DEF l, log2
    <3> QED
      BY <1>a, <2>2, <3>1, <3>2, <3>3, LineAdds
  <2>3. CASE v > g + 1
    <3> DEFINE l == Line("lost_range", g + 1, v - 1)
    <3>1. l \in Lines /\ l.ev = "lost_range" /\ l.seqno = g + 1 /\ l.seqno2 = v - 1
      BY <1>a, <2>3 DEF Line, Lines
    <3>2. log2 = Append(log, l)
      <4>1. PoppedFrom(v, g) = <<l>>
        BY <1>a, <2>3 DEF PoppedFrom
      <4> HIDE DEF l, v
      <4> QED
        BY <1>a, <3>1, <4>1
    <3> HIDE DEF l, log2
    <3> QED
      BY <1>a, <3>1, <3>2, LineAdds
  <2>4. CASE v = g + 1
    <3>1. log2 = log
      <4>1. PoppedFrom(v, g) = <<>>
        BY <1>a, <2>4 DEF PoppedFrom
      <4> HIDE DEF v
      <4> QED
        BY <1>a, <4>1
    <3>2. (g + 1) .. (v - 1) = {}
      BY <1>a, <2>4
    <3> HIDE DEF log2
    <3> QED
      BY <1>a, <3>1, <3>2
  <2> QED
    BY <1>a, <2>1, <2>2, <2>3, <2>4
<1>1. HeapType(q, r, top, log2)
  <2> HIDE DEF log2, top
  <2> QED
    BY <1>a, <1>c, <1>d, <1>e, <1>g DEF HeapType
<1>2. Processed(q, r, top)
  <2>1. ASSUME NEW j \in DOMAIN q \ r PROVE q[j] <= top
    <3>1. CASE j = i
      BY <1>a, <1>e, <3>1
    <3>2. CASE j # i
      <4>1. q[j] <= g
        BY <1>b, <2>1, <3>2 DEF Processed
      <4> HIDE DEF top
      <4> QED
        BY <1>a, <1>e, <1>f, <2>1, <4>1
    <3> QED
      BY <3>1, <3>2
  <2>2. CASE top = v
    <3>1. i \in DOMAIN q \ r /\ q[i] = top
      BY <1>a, <2>2
    <3>2. h \in SUBSET AtLeast(q, top)
      BY <1>a, <1>f, <2>2 DEF AtLeast
    <3>3. AtLeast(q, top) \in SUBSET DOMAIN q
      BY DEF AtLeast
    <3>4. Cardinality(AtLeast(q, top)) >= Window
      <4> HIDE DEF top
      <4>1. Cardinality(h) <= Cardinality(AtLeast(q, top))
        BY <1>a, <3>2, <3>3, MoreIsMore
      <4>2. Cardinality(AtLeast(q, top)) \in Nat
        BY <1>a, <3>3, PositionsFinite
      <4> QED
        BY <1>c, <4>1, <4>2
    <3> HIDE DEF top
    <3> QED
      BY <2>1, <3>1, <3>4 DEF Processed
  <2>3. CASE top = g
    <3>1. g >= 0
      BY <1>e, <2>3
    <3>2. \E j \in DOMAIN q \ r : q[j] = top
      BY <1>b, <2>3, <3>1 DEF Processed
    <3>3. Cardinality(AtLeast(q, top)) >= Window
      BY <1>b, <2>3, <3>1 DEF Processed
    <3> HIDE DEF top
    <3> QED
      BY <2>1, <3>2, <3>3 DEF Processed
  <2> QED
    BY <1>e, <2>2, <2>3
<1>3. Logged(q, top, log2)
  <2>1. ASSUME NEW n \in 0 .. top PROVE n \in LostIn(log2) \/ Arrived(q, n)
    <3>1. CASE n <= g
      <4>1. n \in 0 .. g
        <5> HIDE DEF top
        <5> QED
          BY <1>a, <1>e, <2>1, <3>1
      <4> HIDE DEF log2
      <4> QED
        BY <1>b, <1>g, <4>1 DEF Logged
    <3>2. CASE n > g
      <4>1. n = v \/ n \in (g + 1) .. (v - 1)
        BY <1>a, <2>1, <3>2 DEF LargestOf
      <4>2. Arrived(q, v)
        BY <1>a DEF Arrived
      <4> HIDE DEF log2, v
      <4> QED
        BY <1>g, <4>1, <4>2
    <3> QED
      BY <1>a, <1>e, <2>1, <3>1, <3>2
  <2>2. ASSUME NEW n \in LostIn(log2) PROVE n < top
    <3>1. n \in LostIn(log) \/ n \in (g + 1) .. (v - 1)
      BY <1>g, <2>2
    <3>2. CASE n \in LostIn(log)
      <4>1. n < g
        BY <1>b, <3>2 DEF Logged
      <4>2. n \in Int
        BY <3>2 DEF LostIn
      <4> HIDE DEF top
      <4> QED
        BY <1>a, <1>e, <4>1, <4>2
    <3>3. CASE n \in (g + 1) .. (v - 1)
      BY <1>a, <1>e, <3>3
    <3> QED
      BY <3>1, <3>2, <3>3
  <2> HIDE DEF log2, top
  <2> QED
    BY <2>1, <2>2 DEF Logged
<1>5. LateLost(q, log2)
  <2>1. ASSUME NEW j \in DOMAIN q PROVE q[j] \notin (g + 1) .. (v - 1)
    <3>1. CASE j \in h
      BY <1>a, <1>f, <3>1
    <3>2. CASE j \notin h
      <4>1. q[j] <= g
        BY <1>b, <2>1, <3>2 DEF Processed
      <4> QED
        BY <1>a, <1>f, <2>1, <4>1
    <3> QED
      BY <3>1, <3>2
  <2>2. \A j \in DOMAIN q : q[j] \in LostIn(log2) <=> q[j] \in LostIn(log)
    <3> HIDE DEF log2, v
    <3> QED
      BY <1>g, <2>1
  <2> HIDE DEF log2
  <2> QED
    BY <1>b, <2>2 DEF LateLost
<1>6. HeapInv(q, r, top, log2)
  <2> HIDE DEF log2, top, r
  <2> QED
    BY <1>1, <1>2, <1>3, <1>5 DEF HeapInv
<1> QED
  BY <1>c, <1>d, <1>6

(* A packet that comes is late exactly if a larger number was processed:   *)
(* then a full heap of larger ones came before it, and otherwise all the   *)
(* larger ones are in the heap, which has room.                            *)
LEMMA NewIsLate ==
    ASSUME NEW q, NEW h, NEW g, NEW log, HeapInv(q, h, g, log),
           Cardinality(h) < Window, NEW s \in Nat
    PROVE  LateIn(Append(q, s), Len(q) + 1) <=> s < g
<1> DEFINE k == Len(q) + 1
           q2 == Append(q, s)
<1>a. q \in Seq(Nat) /\ h \in SUBSET DOMAIN q /\ g \in Nat \cup {-1}
  BY DEF HeapInv, HeapType
<1>b. Processed(q, h, g)
  BY DEF HeapInv
<1>c. /\ k \in Nat /\ DOMAIN q = 1 .. k - 1 /\ q2[k] = s
      /\ \A j \in DOMAIN q : q2[j] = q[j] /\ q[j] \in Nat
  BY <1>a
<1>d. Window \in Nat \ {0} /\ Cardinality(h) \in Nat /\ Cardinality(h) < Window
  BY <1>a, RxAssumption, PositionsFinite
<1> HIDE DEF q2, k
<1>3. Ahead(q2, k) = {j \in DOMAIN q : q[j] > s}
  BY <1>c DEF Ahead
<1>4. Ahead(q2, k) \in SUBSET DOMAIN q
  BY <1>3
<1>5. Cardinality(Ahead(q2, k)) \in Nat
  BY <1>a, <1>4, PositionsFinite
<1>6. ASSUME s < g PROVE Cardinality(Ahead(q2, k)) >= Window
  <2>1. g >= 0 /\ g \in Nat
    BY <1>a, <1>6
  <2>2. AtLeast(q, g) \in SUBSET Ahead(q2, k)
    BY <1>c, <1>3, <1>6, <2>1 DEF AtLeast
  <2>3. Cardinality(AtLeast(q, g)) >= Window
    BY <1>b, <2>1 DEF Processed
  <2>4. Cardinality(AtLeast(q, g)) <= Cardinality(Ahead(q2, k))
    BY <1>a, <1>4, <2>2, MoreIsMore
  <2>5. Cardinality(AtLeast(q, g)) \in Nat
    <3>1. AtLeast(q, g) \in SUBSET DOMAIN q
      BY DEF AtLeast
    <3> QED
      BY <1>a, <3>1, PositionsFinite
  <2> QED
    BY <1>d, <1>5, <2>3, <2>4, <2>5
<1>7. ASSUME ~(s < g) PROVE Cardinality(Ahead(q2, k)) < Window
  <2>1. ASSUME NEW j \in DOMAIN q, q[j] > s PROVE j \in h
    <3>1. ASSUME j \notin h PROVE FALSE
      <4>1. q[j] <= g
        BY <1>b, <2>1, <3>1 DEF Processed
      <4> QED
        BY <1>a, <1>c, <1>7, <2>1, <4>1
    <3> QED
      BY <3>1
  <2>2. Ahead(q2, k) \in SUBSET h
    BY <1>3, <2>1
  <2>3. Cardinality(Ahead(q2, k)) <= Cardinality(h)
    BY <1>a, <2>2, MoreIsMore
  <2> QED
    BY <1>d, <1>5, <2>3
<1> QED
  BY <1>d, <1>5, <1>6, <1>7 DEF LateIn, q2, k

(* Adding the packet that has come, to a heap with room for it. *)
LEMMA PushKeeps ==
    ASSUME NEW q, NEW h, NEW g, NEW log, HeapInv(q, h, g, log),
           Cardinality(h) < Window, NEW s \in Nat
    PROVE  HeapInv(Append(q, s), h \cup {Len(q) + 1}, g, log)
<1> DEFINE k == Len(q) + 1
           q2 == Append(q, s)
           h2 == h \cup {k}
<1>a. q \in Seq(Nat) /\ h \in SUBSET DOMAIN q /\ g \in Nat \cup {-1} /\ log \in Seq(Lines)
  BY DEF HeapInv, HeapType
<1>b. Processed(q, h, g) /\ Logged(q, g, log) /\ LateLost(q, log)
  BY DEF HeapInv
<1>c. /\ q2 \in Seq(Nat) /\ k \in Nat /\ k \notin DOMAIN q
      /\ DOMAIN q = 1 .. k - 1 /\ DOMAIN q2 = DOMAIN q \cup {k}
      /\ q2[k] = s
      /\ \A j \in DOMAIN q : q2[j] = q[j] /\ q[j] \in Nat
  BY <1>a
<1>d. Window \in Nat \ {0} /\ Cardinality(h) \in Nat /\ Cardinality(h) < Window
  BY <1>a, RxAssumption, PositionsFinite
<1> HIDE DEF q2, k
<1>1. HeapType(q2, h2, g, log)
  <2>1. Cardinality(h2) <= Window
    <3>1. IsFiniteSet(h)
      BY <1>a, PositionsFinite
    <3>2. Cardinality(h2) <= Cardinality(h) + 1
      BY <1>d, <3>1, FS_AddElement
    <3>3. Cardinality(h2) \in Nat
      BY <3>1, FS_AddElement, FS_CardinalityType
    <3> QED
      BY <1>d, <3>2, <3>3
  <2> QED
    BY <1>a, <1>c, <2>1 DEF HeapType
<1>2. Processed(q2, h2, g)
  <2>1. \A j \in DOMAIN q2 \ h2 : j \in DOMAIN q \ h /\ q2[j] = q[j]
    BY <1>c
  <2>2. \A j \in DOMAIN q \ h : j \in DOMAIN q2 \ h2 /\ q2[j] = q[j]
    BY <1>a, <1>c
  <2>3. ASSUME g >= 0 PROVE Cardinality(AtLeast(q2, g)) >= Window
    <3>1. AtLeast(q2, g) \in SUBSET DOMAIN q2 /\ AtLeast(q, g) \in SUBSET DOMAIN q
      BY DEF AtLeast
    <3>2. AtLeast(q, g) \in SUBSET AtLeast(q2, g)
      BY <1>c DEF AtLeast
    <3>3. Cardinality(AtLeast(q, g)) >= Window
      BY <1>b, <2>3 DEF Processed
    <3>4. Cardinality(AtLeast(q, g)) <= Cardinality(AtLeast(q2, g))
      BY <1>c, <3>1, <3>2, MoreIsMore
    <3>5. Cardinality(AtLeast(q, g)) \in Nat /\ Cardinality(AtLeast(q2, g)) \in Nat
      BY <1>a, <1>c, <3>1, PositionsFinite
    <3> QED
      BY <1>d, <3>3, <3>4, <3>5
  <2>4. \A j \in DOMAIN q2 \ h2 : q2[j] <= g
    BY <1>b, <2>1 DEF Processed
  <2>5. g >= 0 => \E j \in DOMAIN q2 \ h2 : q2[j] = g
    BY <1>b, <2>2 DEF Processed
  <2> QED
    BY <2>3, <2>4, <2>5 DEF Processed
<1>3. Logged(q2, g, log)
  <2>1. \A n : Arrived(q, n) => Arrived(q2, n)
    BY <1>c DEF Arrived
  <2> QED
    BY <1>b, <2>1 DEF Logged
<1>5. LateLost(q2, log)
  <2>1. ASSUME NEW i \in DOMAIN q, First(q2, i)
        PROVE  q2[i] \in LostIn(log) <=> LateIn(q2, i)
    <3>1. \A j \in 1 .. i - 1 : j \in DOMAIN q
      BY <1>c
    <3>2. First(q, i)
      BY <1>c, <2>1, <3>1 DEF First
    <3>3. Ahead(q2, i) = Ahead(q, i)
      BY <1>c, <3>1 DEF Ahead
    <3> QED
      BY <1>b, <1>c, <3>2, <3>3 DEF LateLost, LateIn
  <2>2. ASSUME First(q2, k)
        PROVE  s \in LostIn(log) <=> LateIn(q2, k)
    <3>1. ~Arrived(q, s)
      BY <1>c, <2>2 DEF First, Arrived
    <3>2. s \in LostIn(log) <=> s < g
      <4>1. s \in LostIn(log) => s < g
        BY <1>b DEF Logged
      <4>2. s < g => s \in 0 .. g
        BY <1>a
      <4> QED
        BY <1>b, <3>1, <4>1, <4>2 DEF Logged
    <3>3. LateIn(q2, k) <=> s < g
      BY NewIsLate DEF q2, k
    <3> QED
      BY <3>2, <3>3
  <2> QED
    BY <1>c, <2>1, <2>2 DEF LateLost
<1>6. HeapInv(q2, h2, g, log)
  BY <1>1, <1>2, <1>3, <1>5 DEF HeapInv
<1> QED
  BY <1>6 DEF q2, k

-----------------------------------------------------------------------------
(* A line adds one to the lines of its kind about its number. *)
LEMMA LineAbout ==
    ASSUME NEW log \in Seq(Lines), NEW l \in Lines, NEW ev, NEW n
    PROVE  /\ CopyLines(log, ev, n) \in Nat
           /\ CopyLines(Append(log, l), ev, n) =
                  CopyLines(log, ev, n) + (IF l.ev = ev /\ l.seqno = n THEN 1 ELSE 0)
<1> DEFINE log2 == Append(log, l)
           k == Len(log) + 1
           A == LinesAbout(log, ev, n)
           B == LinesAbout(log2, ev, n)
<1>1. /\ DOMAIN log = 1 .. Len(log) /\ Len(log) \in Nat /\ k \notin DOMAIN log
      /\ DOMAIN log2 = DOMAIN log \cup {k} /\ log2[k] = l
      /\ \A j \in DOMAIN log : log2[j] = log[j]
  OBVIOUS
<1>2. IsFiniteSet(A) /\ Cardinality(A) \in Nat
  <2>1. IsFiniteSet(1 .. Len(log))
    BY <1>1, FS_Interval
  <2>2. A \in SUBSET (1 .. Len(log))
    BY <1>1 DEF LinesAbout
  <2> HIDE DEF A
  <2> QED
    BY <2>1, <2>2, FS_Subset, FS_CardinalityType
<1> HIDE DEF log2, k
<1>3. CASE l.ev = ev /\ l.seqno = n
  <2>1. B = A \cup {k} /\ k \notin A
    BY <1>1, <1>3 DEF LinesAbout
  <2> HIDE DEF A, B
  <2>2. Cardinality(B) = Cardinality(A) + 1
    BY <1>2, <2>1, FS_AddElement
  <2> QED
    BY <1>2, <1>3, <2>2 DEF CopyLines, A, B, log2
<1>4. CASE ~(l.ev = ev /\ l.seqno = n)
  <2>1. B = A
    BY <1>1, <1>4 DEF LinesAbout
  <2> QED
    BY <1>2, <1>4, <2>1 DEF CopyLines, log2
<1> QED
  BY <1>3, <1>4

(* What the line of a popped number adds. *)
LEMMA PoppedAbout ==
    ASSUME NEW log \in Seq(Lines), NEW v \in Nat, NEW g \in Nat \cup {-1}, NEW n
    PROVE  LET log2 == log \o PoppedFrom(v, g)
           IN  /\ CopyLines(log2, "large_reorder", n) =
                      CopyLines(log, "large_reorder", n) + (IF v < g /\ n = v THEN 1 ELSE 0)
               /\ CopyLines(log2, "dup", n) =
                      CopyLines(log, "dup", n) + (IF v = g /\ n = v THEN 1 ELSE 0)
               /\ CopyLines(log, "large_reorder", n) \in Nat
               /\ CopyLines(log, "dup", n) \in Nat
<1> DEFINE late(l) == CopyLines(l, "large_reorder", n)
           dup(l) == CopyLines(l, "dup", n)
<1>1. ASSUME NEW l \in Lines, PoppedFrom(v, g) = <<l>>
      PROVE  log \o PoppedFrom(v, g) = Append(log, l)
  BY <1>1
<1>2. late(log) \in Nat /\ dup(log) \in Nat
  <2>1. Line("dup", v, v) \in Lines
    BY DEF Line, Lines
  <2> QED
    BY <2>1, LineAbout
<1>3. ASSUME NEW l \in Lines, PoppedFrom(v, g) = <<l>>
      PROVE  /\ late(log \o PoppedFrom(v, g)) =
                    late(log) + (IF l.ev = "large_reorder" /\ l.seqno = n THEN 1 ELSE 0)
             /\ dup(log \o PoppedFrom(v, g)) =
                    dup(log) + (IF l.ev = "dup" /\ l.seqno = n THEN 1 ELSE 0)
  <2>1. log \o PoppedFrom(v, g) = Append(log, l)
    BY <1>1, <1>3
  <2>2. late(Append(log, l)) =
            late(log) + (IF l.ev = "large_reorder" /\ l.seqno = n THEN 1 ELSE 0)
    BY LineAbout
  <2>3. dup(Append(log, l)) = dup(log) + (IF l.ev = "dup" /\ l.seqno = n THEN 1 ELSE 0)
    BY LineAbout
  <2> QED
    BY <2>1, <2>2, <2>3
<1>4. CASE v < g
  <2> DEFINE l == Line("large_reorder", v, g)
  <2>1. l \in Lines /\ PoppedFrom(v, g) = <<l>> /\ l.ev = "large_reorder" /\ l.seqno = v
    BY <1>4 DEF Line, Lines, PoppedFrom
  <2>2. v # g
    BY <1>4
  <2> HIDE DEF l, late, dup
  <2> QED
    BY <1>2, <1>3, <1>4, <2>1, <2>2 DEF late, dup
<1>5. CASE v = g
  <2> DEFINE l == Line("dup", v, v)
  <2>1. l \in Lines /\ PoppedFrom(v, g) = <<l>> /\ l.ev = "dup" /\ l.seqno = v
    BY <1>5 DEF Line, Lines, PoppedFrom
  <2>2. ~(v < g)
    BY <1>5
  <2> HIDE DEF l, late, dup
  <2> QED
    BY <1>2, <1>3, <1>5, <2>1, <2>2 DEF late, dup
<1>6. CASE v > g + 1
  <2> DEFINE l == Line("lost_range", g + 1, v - 1)
  <2>1. l \in Lines /\ PoppedFrom(v, g) = <<l>> /\ l.ev = "lost_range"
    BY <1>6 DEF Line, Lines, PoppedFrom
  <2>2. ~(v < g) /\ v # g
    BY <1>6
  <2> HIDE DEF l, late, dup
  <2> QED
    BY <1>2, <1>3, <2>1, <2>2 DEF late, dup
<1>7. CASE v = g + 1
  <2>1. PoppedFrom(v, g) = <<>> /\ ~(v < g) /\ v # g
    BY <1>7 DEF PoppedFrom
  <2>2. log \o PoppedFrom(v, g) = log
    BY <2>1
  <2> HIDE DEF late, dup
  <2> QED
    BY <1>2, <2>1, <2>2 DEF late, dup
<1> QED
  BY <1>4, <1>5, <1>6, <1>7

(* Each packet that leaves the heap is accounted for. *)
LEMMA PopCopies ==
    ASSUME NEW q, NEW h, NEW g, NEW log, HeapInv(q, h, g, log), CopyInv(q, h, g, log),
           NEW i \in h, \A j \in h : q[i] <= q[j]
    PROVE  CopyInv(q, h \ {i}, LargestOf(q[i], g), log \o PoppedFrom(q[i], g))
<1> DEFINE v == q[i]
           r == h \ {i}
           top == LargestOf(v, g)
           log2 == log \o PoppedFrom(v, g)
<1>a. /\ q \in Seq(Nat) /\ h \in SUBSET DOMAIN q /\ i \in DOMAIN q /\ v \in Nat
      /\ g \in Nat \cup {-1} /\ log \in Seq(Lines)
      /\ \A j \in DOMAIN q : q[j] \in Nat
  BY DEF HeapInv, HeapType
<1>b. \A j \in DOMAIN q \ h : q[j] <= g
  BY DEF HeapInv, Processed
<1>c. \A j \in h : LateIn(q, j) <=> q[j] < g
  BY DEF CopyInv
<1>d. ASSUME NEW n
      PROVE  /\ Gone(q, r, n) = Gone(q, h, n) \cup (IF n = v THEN {i} ELSE {})
             /\ i \notin Gone(q, h, n)
             /\ Gone(q, h, n) \in SUBSET DOMAIN q
  BY <1>a DEF Gone
<1>e. /\ \A n : n # v => Behind(q, r, n) = Behind(q, h, n) /\ OnTime(q, r, n) = OnTime(q, h, n)
      /\ v < g => /\ Behind(q, r, v) = Behind(q, h, v) \cup {i}
                  /\ OnTime(q, r, v) = OnTime(q, h, v)
      /\ ~(v < g) => /\ Behind(q, r, v) = Behind(q, h, v)
                     /\ OnTime(q, r, v) = OnTime(q, h, v) \cup {i}
  <2>1. LateIn(q, i) <=> v < g
    BY <1>c
  <2>2. ASSUME NEW n, n # v
        PROVE  Behind(q, r, n) = Behind(q, h, n) /\ OnTime(q, r, n) = OnTime(q, h, n)
    <3>1. Gone(q, r, n) = Gone(q, h, n)
      BY <1>d, <2>2
    <3> QED
      BY <3>1 DEF Behind, OnTime
  <2>3. Gone(q, r, v) = Gone(q, h, v) \cup {i} /\ i \notin Gone(q, h, v)
    BY <1>d
  <2> HIDE DEF v, r
  <2>4. ASSUME v < g
        PROVE  /\ Behind(q, r, v) = Behind(q, h, v) \cup {i}
               /\ OnTime(q, r, v) = OnTime(q, h, v)
    BY <2>1, <2>3, <2>4 DEF Behind, OnTime
  <2>5. ASSUME ~(v < g)
        PROVE  /\ Behind(q, r, v) = Behind(q, h, v)
               /\ OnTime(q, r, v) = OnTime(q, h, v) \cup {i}
    BY <2>1, <2>3, <2>5 DEF Behind, OnTime
  <2> QED
    BY <2>2, <2>4, <2>5
<1>f. ASSUME NEW n
      PROVE  /\ IsFiniteSet(Behind(q, h, n)) /\ Cardinality(Behind(q, h, n)) \in Nat
             /\ IsFiniteSet(OnTime(q, h, n)) /\ Cardinality(OnTime(q, h, n)) \in Nat
             /\ i \notin Behind(q, h, n) /\ i \notin OnTime(q, h, n)
  <2>1. Behind(q, h, n) \in SUBSET DOMAIN q /\ OnTime(q, h, n) \in SUBSET DOMAIN q
    BY <1>d DEF Behind, OnTime
  <2>2. i \notin Behind(q, h, n) /\ i \notin OnTime(q, h, n)
    BY <1>d DEF Behind, OnTime
  <2> QED
    BY <1>a, <2>1, <2>2, PositionsFinite
<1>g. ASSUME NEW n \in Nat
      PROVE  /\ CopyLines(log, "large_reorder", n) = Cardinality(Behind(q, h, n))
             /\ CopyLines(log, "dup", n) =
                    IF OnTime(q, h, n) = {} THEN 0 ELSE Cardinality(OnTime(q, h, n)) - 1
  BY DEF CopyInv
<1>h. /\ top \in Nat
      /\ ~(v > g) => top = g
      /\ v > g => top = v
  BY <1>a DEF LargestOf
<1> HIDE DEF log2, top, r, v
<1>1. ASSUME NEW j \in r PROVE LateIn(q, j) <=> q[j] < top
  <2>1. j \in h /\ j \in DOMAIN q /\ v <= q[j]
    BY <1>a DEF r, v
  <2>2. q[j] < g <=> q[j] < top
    BY <1>a, <1>h, <2>1
  <2> QED
    BY <1>c, <2>1, <2>2
<1>2. OnTime(q, r, top) # {}
  <2>1. CASE v > g
    <3>1. ~(v < g) /\ top = v
      BY <1>a, <1>h, <2>1
    <3> QED
      BY <1>e, <3>1
  <2>2. CASE ~(v > g)
    <3>1. top = g /\ g >= 0
      BY <1>h, <2>2
    <3>2. OnTime(q, h, g) # {}
      BY <3>1 DEF CopyInv
    <3>3. OnTime(q, h, g) \in SUBSET OnTime(q, r, g)
      <4>1. CASE g # v
        BY <1>e, <4>1
      <4>2. CASE g = v
        <5>1. ~(v < g)
          BY <1>a, <4>2
        <5> QED
          BY <1>e, <4>2, <5>1
      <4> QED
        BY <4>1, <4>2
    <3> QED
      BY <3>1, <3>2, <3>3
  <2> QED
    BY <2>1, <2>2
<1>3. ASSUME NEW n \in Nat
      PROVE  /\ CopyLines(log2, "large_reorder", n) = Cardinality(Behind(q, r, n))
             /\ CopyLines(log2, "dup", n) =
                    IF OnTime(q, r, n) = {} THEN 0 ELSE Cardinality(OnTime(q, r, n)) - 1
  <2>1. /\ CopyLines(log2, "large_reorder", n) =
               CopyLines(log, "large_reorder", n) + (IF v < g /\ n = v THEN 1 ELSE 0)
        /\ CopyLines(log2, "dup", n) =
               CopyLines(log, "dup", n) + (IF v = g /\ n = v THEN 1 ELSE 0)
        /\ CopyLines(log, "large_reorder", n) \in Nat
        /\ CopyLines(log, "dup", n) \in Nat
    BY <1>a, PoppedAbout DEF log2
  <2>2. CASE n # v
    <3>1. Behind(q, r, n) = Behind(q, h, n) /\ OnTime(q, r, n) = OnTime(q, h, n)
      BY <1>e, <2>2
    <3>2. /\ CopyLines(log2, "large_reorder", n) = CopyLines(log, "large_reorder", n)
          /\ CopyLines(log2, "dup", n) = CopyLines(log, "dup", n)
      BY <2>1, <2>2
    <3> QED
      BY <1>g, <3>1, <3>2
  <2>3. CASE n = v /\ v < g
    <3>1. Behind(q, r, n) = Behind(q, h, n) \cup {i} /\ OnTime(q, r, n) = OnTime(q, h, n)
      BY <1>e, <2>3
    <3>2. Cardinality(Behind(q, r, n)) = Cardinality(Behind(q, h, n)) + 1
      BY <1>f, <3>1, FS_AddElement
    <3>3. v # g
      BY <1>a, <2>3
    <3> QED
      BY <1>g, <2>1, <2>3, <3>1, <3>2, <3>3
  <2>4. CASE n = v /\ v = g
    <3>1. ~(v < g) /\ g >= 0
      BY <1>a, <2>4
    <3>2. Behind(q, r, n) = Behind(q, h, n) /\ OnTime(q, r, n) = OnTime(q, h, n) \cup {i}
      BY <1>e, <2>4, <3>1
    <3>3. Cardinality(OnTime(q, r, n)) = Cardinality(OnTime(q, h, n)) + 1
      BY <1>f, <3>2, FS_AddElement
    <3>4. OnTime(q, h, n) # {} /\ OnTime(q, r, n) # {}
      BY <2>4, <3>1, <3>2 DEF CopyInv
    <3>5. Cardinality(OnTime(q, h, n)) \in Nat
      BY <1>f
    <3> QED
      BY <1>g, <2>1, <2>4, <3>1, <3>2, <3>3, <3>4, <3>5
  <2>5. CASE n = v /\ v > g
    <3>1. ~(v < g) /\ v # g
      BY <1>a, <2>5
    <3>2. Gone(q, h, n) = {}
      BY <1>a, <1>b, <2>5 DEF Gone
    <3>3. Behind(q, h, n) = {} /\ OnTime(q, h, n) = {}
      BY <3>2 DEF Behind, OnTime
    <3>4. Behind(q, r, n) = {} /\ OnTime(q, r, n) = {i}
      BY <1>e, <2>5, <3>1, <3>3
    <3>5. Cardinality({}) = 0 /\ Cardinality({i}) = 1 /\ {i} # {}
      BY FS_EmptySet, FS_Singleton
    <3>6. /\ CopyLines(log, "large_reorder", n) = 0
          /\ CopyLines(log, "dup", n) = 0
      BY <1>g, <3>3, <3>5
    <3>7. /\ CopyLines(log2, "large_reorder", n) = 0
          /\ CopyLines(log2, "dup", n) = 0
      BY <2>1, <3>1, <3>6
    <3>8. Cardinality(OnTime(q, r, n)) = 1 /\ OnTime(q, r, n) # {}
      BY <3>4, <3>5
    <3>9. Cardinality(Behind(q, r, n)) = 0
      BY <3>4, <3>5
    <3> QED
      BY <3>7, <3>8, <3>9
  <2> QED
    BY <1>a, <2>2, <2>3, <2>4, <2>5
<1> QED
  BY <1>1, <1>2, <1>3 DEF CopyInv, log2, top, r, v

(* A packet that comes leaves those before it as late as they were. *)
LEMMA PushCopies ==
    ASSUME NEW q, NEW h, NEW g, NEW log, HeapInv(q, h, g, log), CopyInv(q, h, g, log),
           Cardinality(h) < Window, NEW s \in Nat
    PROVE  CopyInv(Append(q, s), h \cup {Len(q) + 1}, g, log)
<1> DEFINE k == Len(q) + 1
           q2 == Append(q, s)
           h2 == h \cup {k}
<1>a. q \in Seq(Nat) /\ h \in SUBSET DOMAIN q
  BY DEF HeapInv, HeapType
<1>b. /\ k \in Nat /\ k \notin DOMAIN q
      /\ DOMAIN q = 1 .. k - 1 /\ DOMAIN q2 = DOMAIN q \cup {k}
      /\ q2[k] = s
      /\ \A j \in DOMAIN q : q2[j] = q[j]
  BY <1>a
<1>c. LateIn(q2, k) <=> s < g
  BY NewIsLate
<1> HIDE DEF q2, k
<1>1. ASSUME NEW j \in DOMAIN q PROVE LateIn(q2, j) <=> LateIn(q, j)
  <2>1. \A m \in 1 .. j - 1 : m \in DOMAIN q
    BY <1>b
  <2>2. Ahead(q2, j) = Ahead(q, j)
    BY <1>b, <2>1 DEF Ahead
  <2> QED
    BY <2>2 DEF LateIn
<1>2. ASSUME NEW n PROVE Gone(q2, h2, n) = Gone(q, h, n)
  BY <1>a, <1>b DEF Gone
<1>3. ASSUME NEW n
      PROVE  Behind(q2, h2, n) = Behind(q, h, n) /\ OnTime(q2, h2, n) = OnTime(q, h, n)
  <2>1. \A j \in Gone(q, h, n) : LateIn(q2, j) <=> LateIn(q, j)
    BY <1>1 DEF Gone
  <2>2. Behind(q2, h2, n) = Behind(q, h, n)
    BY <1>2, <2>1 DEF Behind
  <2> QED
    BY <1>2, <2>2 DEF OnTime
<1>4. ASSUME NEW j \in h2 PROVE LateIn(q2, j) <=> q2[j] < g
  <2>1. CASE j = k
    BY <1>b, <1>c, <2>1
  <2>2. CASE j \in h
    <3>1. LateIn(q, j) <=> q[j] < g
      BY <2>2 DEF CopyInv
    <3> QED
      BY <1>1, <1>a, <1>b, <2>2, <3>1
  <2> QED
    BY <2>1, <2>2
<1>5. CopyInv(q2, h2, g, log)
  BY <1>3, <1>4 DEF CopyInv
<1> QED
  BY <1>5 DEF q2, k

-----------------------------------------------------------------------------
(* The invariant of the object and of what becomes of its logs. *)
LossInv ==
    /\ CbTypeOK
    /\ HeapInv(arrivals, heap, largest, plLog)
    /\ CopyInv(arrivals, heap, largest, plLog)

Packets == [seqno : Nat \cup {NoSeqno}, gap : Nat, size : Nat]

LEMMA LossInit == Init => LossInv
<1> SUFFICES ASSUME Init PROVE LossInv
  OBVIOUS
<1>a. CbInit
  BY DEF Init
<1>1. CbTypeOK
  <2>1. traffic \in Seq(Packets)
    BY <1>a, RxAssumption DEF CbInit, Packets
  <2>2. /\ arrivals = <<>> /\ heap = {} /\ largest = -1 /\ plLog = <<>>
        /\ now = 0 /\ rxLog = <<>> /\ rxByteCount = 0 /\ closed = FALSE
    BY <1>a DEF CbInit
  <2>3. plLog \in Seq(Lines) /\ rxLog \in Seq([time : Nat, bytes : Nat])
        /\ arrivals \in Seq(Nat)
    BY <2>2
  <2>4. heap \in SUBSET DOMAIN arrivals /\ largest \in Nat \cup {-1}
        /\ now \in Nat /\ rxByteCount \in Nat /\ closed \in BOOLEAN
    BY <2>2
  <2> QED
    BY <2>1, <2>3, <2>4 DEF CbTypeOK, Packets, Lines
<1>2. LostIn(<<>>) = {}
  BY DEF LinesIn, LostIn, ToSet
<1>3. Cardinality({}) <= Window
  BY FS_EmptySet, RxAssumption
<1>4. HeapInv(<<>>, {}, -1, <<>>)
  BY <1>2, <1>3 DEF HeapInv, HeapType, Processed, Logged, LateLost
<1>5. CopyInv(<<>>, {}, -1, <<>>)
  <2>1. ASSUME NEW n, NEW ev
        PROVE  /\ LinesAbout(<<>>, ev, n) = {}
               /\ Behind(<<>>, {}, n) = {} /\ OnTime(<<>>, {}, n) = {}
    BY DEF LinesAbout, Behind, OnTime, Gone
  <2>2. Cardinality({}) = 0
    BY FS_EmptySet
  <2>3. ASSUME NEW n
        PROVE  /\ CopyLines(<<>>, "large_reorder", n) = Cardinality(Behind(<<>>, {}, n))
               /\ CopyLines(<<>>, "dup", n) = 0
    BY <2>1, <2>2 DEF CopyLines
  <2> QED
    BY <2>1, <2>3 DEF CopyInv
<1> QED
  BY <1>a, <1>1, <1>4, <1>5 DEF CbInit, LossInv

(* What every rxCb does to the rest of the object. *)
LEMMA RxKeeps ==
    ASSUME CbTypeOK, NEW p, Rx(p)
    PROVE  /\ p \in Packets
           /\ traffic' \in Seq(Packets) /\ now' \in Nat /\ rxByteCount' \in Nat
           /\ rxLog' \in Seq([time : Nat, bytes : Nat]) /\ closed' \in BOOLEAN
<1>1. /\ traffic \in Seq(Packets) /\ now \in Nat /\ rxByteCount \in Nat
      /\ rxLog \in Seq([time : Nat, bytes : Nat]) /\ closed \in BOOLEAN
  BY DEF CbTypeOK, Packets
<1>2. traffic # <<>> /\ p = Head(traffic) /\ traffic' = Tail(traffic) /\ closed' = closed
  BY DEF Rx
<1>3. p \in Packets /\ traffic' \in Seq(Packets)
  BY <1>1, <1>2
<1>4. p.gap \in Nat /\ p.size \in Nat
  BY <1>3 DEF Packets
<1>5. /\ now' = now + p.gap /\ rxByteCount' = rxByteCount + p.size
      /\ rxLog' = Append(rxLog, [time |-> now + p.gap, bytes |-> rxByteCount + p.size])
  BY DEF Rx, LogByteCounts
<1>6. now' \in Nat /\ rxByteCount' \in Nat
  BY <1>1, <1>4, <1>5
<1>7. rxLog' \in Seq([time : Nat, bytes : Nat])
  BY <1>1, <1>4, <1>5
<1> QED
  BY <1>1, <1>2, <1>3, <1>6, <1>7

LEMMA FillStep ==
    ASSUME LossInv, NEW p, RxFill(p)
    PROVE  LossInv'
<1>1. Rx(p) /\ p.seqno # NoSeqno /\ Cardinality(heap) # Window
  BY DEF RxFill
<1>2. /\ CbTypeOK
      /\ HeapInv(arrivals, heap, largest, plLog)
      /\ CopyInv(arrivals, heap, largest, plLog)
  BY DEF LossInv
<1>3. p.seqno \in Nat
  BY <1>1, <1>2, RxKeeps DEF Packets
<1>4. Cardinality(heap) < Window
  <2>1. Cardinality(heap) <= Window /\ Cardinality(heap) \in Nat
    BY <1>2, PositionsFinite DEF HeapInv, HeapType
  <2> QED
    BY <1>1, <2>1, RxAssumption
<1>5. /\ HeapInv(Append(arrivals, p.seqno), heap \cup {Len(arrivals) + 1}, largest, plLog)
      /\ CopyInv(Append(arrivals, p.seqno), heap \cup {Len(arrivals) + 1}, largest, plLog)
  BY <1>2, <1>3, <1>4, PushKeeps, PushCopies
<1>6. /\ arrivals' = Append(arrivals, p.seqno)
      /\ heap' = heap \cup {Len(arrivals) + 1}
      /\ largest' = largest /\ plLog' = plLog
  BY DEF RxFill, Push
<1>7. /\ HeapInv(arrivals', heap', largest', plLog')
      /\ CopyInv(arrivals', heap', largest', plLog')
  BY <1>5, <1>6
<1>8. CbTypeOK'
  BY <1>1, <1>2, <1>7, RxKeeps DEF CbTypeOK, Packets, HeapInv, HeapType, Lines
<1> QED
  BY <1>7, <1>8 DEF LossInv

LEMMA SlideStep ==
    ASSUME LossInv, NEW p, RxSlide(p)
    PROVE  LossInv'
<1>1. Rx(p) /\ p.seqno # NoSeqno /\ Cardinality(heap) = Window
  BY DEF RxSlide
<1>2. /\ CbTypeOK
      /\ HeapInv(arrivals, heap, largest, plLog)
      /\ CopyInv(arrivals, heap, largest, plLog)
  BY DEF LossInv
<1>3. p.seqno \in Nat
  BY <1>1, <1>2, RxKeeps DEF Packets
<1>4. PICK i \in heap :
          /\ Smallest(i)
          /\ plLog' = plLog \o PoppedLine(arrivals[i])
          /\ largest' = IF arrivals[i] > largest THEN arrivals[i] ELSE largest
          /\ Push(heap \ {i}, p.seqno)
  BY DEF RxSlide
<1> DEFINE g == LargestOf(arrivals[i], largest)
           log == plLog \o PoppedFrom(arrivals[i], largest)
<1>5. /\ HeapInv(arrivals, heap \ {i}, g, log) /\ Cardinality(heap \ {i}) < Window
      /\ CopyInv(arrivals, heap \ {i}, g, log)
  <2>1. \A j \in heap : arrivals[i] <= arrivals[j]
    BY <1>4 DEF Smallest
  <2> QED
    BY <1>1, <1>2, <2>1, PopKeeps, PopCopies
<1>6. /\ HeapInv(Append(arrivals, p.seqno), (heap \ {i}) \cup {Len(arrivals) + 1}, g, log)
      /\ CopyInv(Append(arrivals, p.seqno), (heap \ {i}) \cup {Len(arrivals) + 1}, g, log)
  <2> HIDE DEF g, log
  <2> QED
    BY <1>3, <1>5, PushKeeps, PushCopies
<1>7. /\ arrivals' = Append(arrivals, p.seqno)
      /\ heap' = (heap \ {i}) \cup {Len(arrivals) + 1}
      /\ largest' = g /\ plLog' = log
  BY <1>4 DEF Push, LargestOf, PoppedFrom, PoppedLine
<1>8. /\ HeapInv(arrivals', heap', largest', plLog')
      /\ CopyInv(arrivals', heap', largest', plLog')
  BY <1>6, <1>7
<1>9. CbTypeOK'
  BY <1>1, <1>2, <1>8, RxKeeps DEF CbTypeOK, Packets, HeapInv, HeapType, Lines
<1> QED
  BY <1>8, <1>9 DEF LossInv

LEMMA NoHeaderStep ==
    ASSUME LossInv, NEW p, RxNoHeader(p)
    PROVE  LossInv'
<1>1. Rx(p) /\ UNCHANGED <<arrivals, heap, largest, plLog>>
  BY DEF RxNoHeader, plVars
<1>2. /\ CbTypeOK
      /\ HeapInv(arrivals, heap, largest, plLog)
      /\ CopyInv(arrivals, heap, largest, plLog)
  BY DEF LossInv
<1>3. /\ HeapInv(arrivals', heap', largest', plLog')
      /\ CopyInv(arrivals', heap', largest', plLog')
  BY <1>1, <1>2
<1>4. CbTypeOK'
  BY <1>1, <1>2, <1>3, RxKeeps DEF CbTypeOK, Packets, HeapInv, HeapType, Lines
<1> QED
  BY <1>3, <1>4 DEF LossInv

(* The last line of the log is neither a loss nor a copy. *)
LEMMA DestroyStep == LossInv /\ Destroy => LossInv'
<1> SUFFICES ASSUME LossInv, Destroy PROVE LossInv'
  OBVIOUS
<1>1. /\ closed' = TRUE
      /\ UNCHANGED <<traffic, arrivals, heap, largest, now, rxLog, rxByteCount>>
      /\ plLog' = IF largest > -1 THEN Append(plLog, Line("largest", largest, largest))
                  ELSE plLog
  BY DEF Destroy, rxVars
<1>2. /\ CbTypeOK
      /\ HeapInv(arrivals, heap, largest, plLog)
      /\ CopyInv(arrivals, heap, largest, plLog)
  BY DEF LossInv
<1>3. largest \in Nat \cup {-1} /\ plLog \in Seq(Lines)
  BY <1>2 DEF HeapInv, HeapType
<1>4. /\ plLog' \in Seq(Lines)
      /\ LostIn(plLog') = LostIn(plLog)
      /\ \A n, ev : ev # "largest" => CopyLines(plLog', ev, n) = CopyLines(plLog, ev, n)
  <2>1. CASE largest > -1
    <3> DEFINE l == Line("largest", largest, largest)
    <3>1. l \in Lines /\ l.ev = "largest"
      BY <1>3, <2>1 DEF Line, Lines
    <3>2. plLog' = Append(plLog, l)
      BY <1>1, <2>1
    <3> HIDE DEF l
    <3>3. plLog' \in Seq(Lines) /\ LostIn(plLog') = LostIn(plLog)
      BY <1>3, <3>1, <3>2, LineAdds
    <3>4. ASSUME NEW n, NEW ev, ev # "largest"
          PROVE  CopyLines(plLog', ev, n) = CopyLines(plLog, ev, n)
      <4>1. /\ CopyLines(plLog, ev, n) \in Nat
            /\ CopyLines(plLog', ev, n) =
                   CopyLines(plLog, ev, n) + (IF l.ev = ev /\ l.seqno = n THEN 1 ELSE 0)
        BY <1>3, <3>1, <3>2, LineAbout
      <4> QED
        BY <3>1, <3>4, <4>1
    <3> QED
      BY <3>3, <3>4
  <2>2. CASE ~(largest > -1)
    BY <1>1, <1>3, <2>2
  <2> QED
    BY <2>1, <2>2
<1>5. /\ HeapInv(arrivals', heap', largest', plLog')
      /\ CopyInv(arrivals', heap', largest', plLog')
  <2>1. HeapInv(arrivals, heap, largest, plLog')
    BY <1>2, <1>4 DEF HeapInv, HeapType, Logged, LateLost
  <2>2. CopyInv(arrivals, heap, largest, plLog')
    BY <1>2, <1>4 DEF CopyInv
  <2> QED
    BY <1>1, <2>1, <2>2
<1>6. CbTypeOK'
  BY <1>1, <1>2, <1>5 DEF CbTypeOK, HeapInv, HeapType, Lines
<1> QED
  BY <1>5, <1>6 DEF LossInv

(* A simulation that dies, and the script, leave the object alone. *)
LEMMA ObjectStep == [Next]_vars => CbNext \/ UNCHANGED cbVars
<1> SUFFICES ASSUME [Next]_vars PROVE CbNext \/ UNCHANGED cbVars
  OBVIOUS
<1>1. CASE Simulate
  BY <1>1 DEF Simulate
<1>2. CASE Die \/ CreateRaises \/ UNCHANGED vars
  BY <1>2 DEF Die, CreateRaises, vars
<1>3. ASSUME NEW m, NEW n, CreateResultsDb(m, n) \/ CreateResultsDbTorn(m, n)
      PROVE  UNCHANGED cbVars
  BY <1>3 DEF CreateResultsDb, CreateResultsDbTorn, Create
<1> QED
  BY <1>1, <1>2, <1>3 DEF Next

LEMMA LossStep == LossInv /\ [Next]_vars => LossInv'
<1> SUFFICES ASSUME LossInv, [Next]_vars PROVE LossInv'
  OBVIOUS
<1>1. CASE UNCHANGED cbVars
  <2>1. UNCHANGED <<traffic, arrivals, heap, largest, plLog, now, rxLog, rxByteCount, closed>>
    BY <1>1 DEF cbVars, plVars, rxVars
  <2>2. HeapInv(arrivals', heap', largest', plLog') /\ CopyInv(arrivals', heap', largest', plLog')
    BY <2>1 DEF LossInv
  <2>3. CbTypeOK'
    BY <2>1 DEF LossInv, CbTypeOK
  <2> QED
    BY <2>2, <2>3 DEF LossInv
<1>2. CASE CbNext
  <2>1. CASE Destroy
    BY <2>1, DestroyStep
  <2>2. CASE \E p \in ToSet(traffic) : RxFill(p) \/ RxSlide(p) \/ RxNoHeader(p)
    BY <2>2, FillStep, SlideStep, NoHeaderStep
  <2> QED
    BY <1>2, <2>1, <2>2 DEF CbNext
<1>3. CbNext \/ UNCHANGED cbVars
  BY ObjectStep
<1> QED
  BY <1>1, <1>2, <1>3

LEMMA LossInvariant == Spec => []LossInv
<1> QED
  BY LossInit, LossStep, PTL DEF Spec

-----------------------------------------------------------------------------
(* In the log of LogAndUpdateLosses a packet received is lost exactly if   *)
(* as many packets as the window holds, or more, have overtaken it.        *)
THEOREM LostIffLateCorrect == Spec => []LostIffLate
<1>1. LossInv => LostIffLate
  BY DEF LossInv, HeapInv, LateLost, LostIffLate, First, FirstArrival, Ahead, Overtaking,
         LateIn, Late, LostIn, LostNumbers, LinesIn, LinesOf
<1> QED
  BY <1>1, LossInvariant, PTL

(* If the first packet with a number came late, so did the others. *)
LEMMA LostAllLate ==
    ASSUME NEW q, NEW h, NEW g, NEW log, HeapInv(q, h, g, log)
    PROVE  LostIn(log) = {n \in 0 .. g : \A i \in DOMAIN q : q[i] = n => LateIn(q, i)}
<1>a. /\ q \in Seq(Nat) /\ DOMAIN q = 1 .. Len(q) /\ Len(q) \in Nat
      /\ \A j \in DOMAIN q : q[j] \in Nat
      /\ g \in Nat \cup {-1} /\ log \in Seq(Lines)
  BY DEF HeapInv, HeapType
<1>b. Logged(q, g, log) /\ LateLost(q, log)
  BY DEF HeapInv
<1>c. Window \in Nat
  BY RxAssumption
<1>1. ASSUME NEW n \in LostIn(log) PROVE n \in 0 .. g
  <2>1. PICK l \in LinesIn(log, "lost_range") : n \in l.seqno .. l.seqno2
    BY DEF LostIn
  <2>2. l \in Lines
    BY <1>a, <2>1 DEF LinesIn, ToSet
  <2>3. n \in Nat
    BY <2>1, <2>2 DEF Lines
  <2>4. n < g
    BY <1>b DEF Logged
  <2> QED
    BY <1>a, <2>3, <2>4
(* The first packet with a number. *)
<1>2. ASSUME NEW i \in DOMAIN q
      PROVE  \E f \in DOMAIN q : f <= i /\ q[f] = q[i] /\ First(q, f)
  <2> DEFINE S == {j \in DOMAIN q : q[j] = q[i]}
  <2>1. S \in SUBSET Nat /\ i \in S
    BY <1>a
  <2>2. PICK f \in S : \A j \in S : f <= j
    <3> HIDE DEF S
    <3> QED
      BY <2>1, LeastNumber
  <2>3. ASSUME NEW j \in 1 .. f - 1 PROVE q[j] # q[f]
    <3>1. j \in DOMAIN q /\ ~(f <= j)
      BY <1>a, <2>2
    <3> QED
      BY <2>2, <3>1
  <2> QED
    BY <2>1, <2>2, <2>3 DEF First
<1>3. ASSUME NEW n \in LostIn(log), NEW i \in DOMAIN q, q[i] = n
      PROVE  LateIn(q, i)
  <2>1. PICK f \in DOMAIN q : f <= i /\ q[f] = q[i] /\ First(q, f)
    BY <1>2
  <2>2. LateIn(q, f)
    BY <1>3, <1>b, <2>1 DEF LateLost
  <2>3. Ahead(q, f) \in SUBSET Ahead(q, i) /\ Ahead(q, i) \in SUBSET DOMAIN q
    BY <1>a, <2>1 DEF Ahead
  <2>4. /\ Cardinality(Ahead(q, f)) <= Cardinality(Ahead(q, i))
        /\ Cardinality(Ahead(q, f)) \in Nat /\ Cardinality(Ahead(q, i)) \in Nat
    BY <1>a, <2>3, MoreIsMore, PositionsFinite
  <2> QED
    BY <1>c, <2>2, <2>4 DEF LateIn
<1>4. ASSUME NEW n \in 0 .. g, \A i \in DOMAIN q : q[i] = n => LateIn(q, i)
      PROVE  n \in LostIn(log)
  <2>1. CASE ~Arrived(q, n)
    BY <1>b, <2>1 DEF Logged
  <2>2. CASE Arrived(q, n)
    <3>1. PICK i \in DOMAIN q : q[i] = n
      BY <2>2 DEF Arrived
    <3>2. PICK f \in DOMAIN q : q[f] = q[i] /\ First(q, f)
      BY <1>2
    <3>3. LateIn(q, f)
      BY <1>4, <3>1, <3>2
    <3> QED
      BY <1>b, <3>1, <3>2, <3>3 DEF LateLost
  <2> QED
    BY <2>1, <2>2
<1> QED
  BY <1>1, <1>3, <1>4

(* The log of LogAndUpdateLosses tells exactly what was lost, what came    *)
(* late and what came more than once, up to what is still in the heap, and *)
(* every line of it is well formed.                                        *)
THEOREM LogTrueCorrect == Spec => []LogTrue
<1>1. LossInv => LogTrue
  <2> SUFFICES ASSUME LossInv PROVE LogTrue
    OBVIOUS
  <2>1. /\ CbTypeOK /\ HeapInv(arrivals, heap, largest, plLog)
        /\ CopyInv(arrivals, heap, largest, plLog)
    BY DEF LossInv
  <2>2. \A i : Late(i) <=> LateIn(arrivals, i)
    BY DEF Late, LateIn, Overtaking, Ahead
  <2>3. LossesExact
    <3>1. LostNumbers = LostIn(plLog)
      BY DEF LostNumbers, LostIn, LinesOf, LinesIn
    <3>2. LostIn(plLog) = {n \in 0 .. largest :
                             \A i \in DOMAIN arrivals : arrivals[i] = n => LateIn(arrivals, i)}
      BY <2>1, LostAllLate
    <3> QED
      BY <2>2, <3>1, <3>2 DEF LossesExact
  <2>4. CopiesExact
    <3>1. Numbers \in SUBSET Nat
      <4>1. arrivals \in Seq(Nat) /\ plLog \in Seq(Lines)
        BY <2>1 DEF HeapInv, HeapType
      <4> QED
        <5>1. \A j \in DOMAIN arrivals : arrivals[j] \in Nat
          BY <4>1
        <5>2. \A j \in DOMAIN plLog : plLog[j] \in Lines
          BY <4>1
        <5> QED
          BY <5>1, <5>2 DEF Numbers, ToSet, Lines
    <3>2. ASSUME NEW n \in Numbers
          PROVE  LET late   == {i \in Left(n) : Late(i)}
                     ontime == Left(n) \ late
                 IN  /\ CountOf("large_reorder", n) = Cardinality(late)
                     /\ CountOf("dup", n) = IF ontime = {} THEN 0 ELSE Cardinality(ontime) - 1
      <4>1. n \in Nat
        BY <3>1
      <4>2. Left(n) = Gone(arrivals, heap, n)
        BY DEF Left, Gone
      <4>3. {i \in Left(n) : Late(i)} = Behind(arrivals, heap, n)
        BY <2>2, <4>2 DEF Behind
      <4>4. \A ev : CountOf(ev, n) = CopyLines(plLog, ev, n)
        BY DEF CountOf, CopyLines, LinesAbout
      <4> QED
        BY <2>1, <4>1, <4>2, <4>3, <4>4 DEF CopyInv, OnTime
    <3> QED
      BY <3>2 DEF CopiesExact
  <2> QED
    BY <2>1, <2>3, <2>4 DEF LogTrue
<1> QED
  BY <1>1, LossInvariant, PTL

-----------------------------------------------------------------------------
(* What the script finds.  The log has at most one line for the largest    *)
(* number, and only the destructor writes it; the object does not change   *)
(* any more once the script runs.                                          *)
LargestLast == \A l \in LinesIn(plLog, "largest") : closed /\ l.seqno = largest

NotYet == plFile = <<>> /\ pl = NoRow /\ rx = NoRow

DbInv ==
    /\ LossInv
    /\ LargestLast
    /\ died \in BOOLEAN
    /\ outcome \in {"none", "whole", "torn", "raised"}
    /\ outcome # "none" => closed \/ died
    /\ outcome \in {"none", "raised"} => NotYet
    /\ IsPrefix(plFile, plLog)
    /\ outcome = "whole" => IsPrefix(rxFile, rxLog)
    /\ Cardinality(pl) <= 1
    /\ Cardinality(rx) <= 1
    /\ pl # NoRow => closed

LEMMA PrefixOf ==
    ASSUME NEW S, NEW s \in Seq(S), NEW n \in 0 .. Len(s)
    PROVE  IsPrefix(SubSeq(s, 1, n), s)
<1> DEFINE r == SubSeq(s, 1, n)
<1>1. r \in Seq(S) /\ Len(r) = n /\ \A i \in 1 .. n : r[i] = s[i]
  OBVIOUS
<1>2. SubSeq(r, 1, n) = r
  <2> HIDE DEF r
  <2> QED
    BY <1>1
<1> QED
  BY <1>1, <1>2 DEF IsPrefix

LEMMA PoppedIsNotLargest ==
    ASSUME NEW i, HeapInv(arrivals, heap, largest, plLog), Cardinality(heap) = Window, Smallest(i)
    PROVE  LinesIn(plLog \o PoppedLine(arrivals[i]), "largest") = LinesIn(plLog, "largest")
<1> DEFINE v == arrivals[i]
           log2 == plLog \o PoppedLine(v)
<1>a. plLog \in Seq(Lines) /\ v \in Nat /\ largest \in Nat \cup {-1}
  BY DEF HeapInv, HeapType, Smallest
<1>1. PoppedLine(v) = <<>> \/ \E l \in Lines : l.ev # "largest" /\ PoppedLine(v) = <<l>>
  <2>1. CASE v < largest
    <3>1. Line("large_reorder", v, largest) \in Lines /\ Line("large_reorder", v, largest).ev # "largest"
      BY <1>a, <2>1 DEF Line, Lines
    <3>2. PoppedLine(v) = <<Line("large_reorder", v, largest)>>
      BY <1>a, <2>1 DEF PoppedLine
    <3> QED
      BY <3>1, <3>2
  <2>2. CASE v = largest
    <3>1. Line("dup", v, v) \in Lines /\ Line("dup", v, v).ev # "largest"
      BY <1>a, <2>2 DEF Line, Lines
    <3>2. PoppedLine(v) = <<Line("dup", v, v)>>
      BY <1>a, <2>2 DEF PoppedLine
    <3> QED
      BY <3>1, <3>2
  <2>3. CASE v > largest + 1
    <3>1. /\ Line("lost_range", largest + 1, v - 1) \in Lines
          /\ Line("lost_range", largest + 1, v - 1).ev # "largest"
      BY <1>a, <2>3 DEF Line, Lines
    <3>2. PoppedLine(v) = <<Line("lost_range", largest + 1, v - 1)>>
      BY <1>a, <2>3 DEF PoppedLine
    <3> QED
      BY <3>1, <3>2
  <2>4. CASE v = largest + 1
    <3>1. PoppedLine(v) = <<>>
      BY <1>a, <2>4 DEF PoppedLine
    <3> QED
      BY <3>1
  <2> QED
    BY <1>a, <2>1, <2>2, <2>3, <2>4
<1>2. CASE PoppedLine(v) = <<>>
  <2>1. log2 = plLog
    BY <1>a, <1>2
  <2> QED
    BY <2>1
<1>3. ASSUME NEW l \in Lines, l.ev # "largest", PoppedLine(v) = <<l>>
      PROVE  LinesIn(log2, "largest") = LinesIn(plLog, "largest")
  <2>1. log2 = Append(plLog, l)
    BY <1>a, <1>3
  <2>2. \A ev : LinesIn(Append(plLog, l), ev) =
                   LinesIn(plLog, ev) \cup (IF l.ev = ev THEN {l} ELSE {})
    BY <1>a, <1>3, LineAdds
  <2>3. LinesIn(Append(plLog, l), "largest") = LinesIn(plLog, "largest")
    BY <1>3, <2>2
  <2> QED
    BY <2>1, <2>3
<1> QED
  BY <1>1, <1>2, <1>3

LEMMA LargestStep ==
    ASSUME LossInv, LargestLast, [Next]_vars
    PROVE  LargestLast'
<1>a. HeapInv(arrivals, heap, largest, plLog) /\ plLog \in Seq(Lines) /\ largest \in Nat \cup {-1}
  BY DEF LossInv, HeapInv, HeapType
<1>1. ASSUME NEW p, RxFill(p) \/ RxNoHeader(p) PROVE LargestLast'
  BY <1>1 DEF RxFill, RxNoHeader, Rx, plVars, LargestLast
<1>2. ASSUME NEW p, RxSlide(p) PROVE LargestLast'
  <2>1. PICK i \in heap : Smallest(i) /\ plLog' = plLog \o PoppedLine(arrivals[i])
    BY <1>2 DEF RxSlide
  <2>2. LinesIn(plLog', "largest") = LinesIn(plLog, "largest")
    BY <1>a, <1>2, <2>1, PoppedIsNotLargest DEF RxSlide
  <2>3. ~closed
    BY <1>2 DEF RxSlide, Rx
  <2> QED
    BY <2>2, <2>3 DEF LargestLast
<1>3. CASE Destroy
  <2>1. closed' /\ largest' = largest /\ LinesIn(plLog, "largest") = {}
    BY <1>3 DEF Destroy, LargestLast
  <2>2. CASE largest > -1
    <3> DEFINE l == Line("largest", largest, largest)
    <3>1. l \in Lines /\ l.seqno = largest
      BY <1>a, <2>2 DEF Line, Lines
    <3>2. plLog' = Append(plLog, l)
      BY <1>3, <2>2 DEF Destroy
    <3> HIDE DEF l
    <3>3. LinesIn(Append(plLog, l), "largest") \subseteq LinesIn(plLog, "largest") \cup {l}
      BY <1>a, <3>1, LineAdds
    <3> QED
      BY <2>1, <3>1, <3>2, <3>3 DEF LargestLast
  <2>3. CASE ~(largest > -1)
    <3>1. plLog' = plLog
      BY <1>3, <2>3 DEF Destroy
    <3> QED
      BY <2>1, <3>1 DEF LargestLast
  <2> QED
    BY <2>2, <2>3
<1>4. CASE UNCHANGED cbVars
  BY <1>4 DEF cbVars, plVars, LargestLast
<1>5. CbNext \/ UNCHANGED cbVars
  BY ObjectStep
<1> QED
  BY <1>1, <1>2, <1>3, <1>4, <1>5 DEF CbNext

LEMMA DbInit == Init => DbInv
<1> SUFFICES ASSUME Init PROVE DbInv
  OBVIOUS
<1>1. LossInv
  BY LossInit
<1>2. plLog = <<>> /\ plFile = <<>> /\ pl = {} /\ rx = {} /\ outcome = "none" /\ died = FALSE
  BY DEF Init, CbInit, NoRow
<1>3. LargestLast
  BY <1>2 DEF LargestLast, LinesIn, ToSet
<1>4. IsPrefix(plFile, plLog)
  BY <1>2 DEF IsPrefix
<1>5. Cardinality(pl) = 0 /\ Cardinality(rx) = 0
  BY <1>2, FS_EmptySet
<1>6. Cardinality(pl) <= 1 /\ Cardinality(rx) <= 1
  BY <1>5
<1>7. /\ died \in BOOLEAN /\ outcome \in {"none", "whole", "torn", "raised"}
      /\ outcome # "whole" /\ rxFile = <<>> /\ NotYet
      /\ (outcome # "none" => closed \/ died) /\ pl = NoRow
  BY <1>2 DEF NotYet, NoRow, Init
<1> QED
  BY <1>1, <1>3, <1>4, <1>6, <1>7 DEF DbInv

(* The summaries made of a prefix of the log. *)
LEMMA RowsOf ==
    ASSUME LossInv, LargestLast, NEW m \in 0 .. Len(plLog)
    PROVE  /\ Cardinality(PlRows(SubSeq(plLog, 1, m))) <= 1
           /\ PlRows(SubSeq(plLog, 1, m)) # NoRow => closed
<1> DEFINE log == SubSeq(plLog, 1, m)
           rows == PlRows(log)
<1>1. plLog \in Seq(Lines)
  BY DEF LossInv, HeapInv, HeapType
<1>2. ToSet(log) \subseteq ToSet(plLog)
  <2>1. log \in Seq(Lines) /\ Len(log) = m /\ \A i \in 1 .. m : log[i] = plLog[i]
    BY <1>1
  <2>2. Len(plLog) \in Nat /\ 1 .. m \subseteq 1 .. Len(plLog)
    BY <1>1
  <2> HIDE DEF log
  <2> QED
    BY <1>1, <2>1, <2>2 DEF ToSet
<1> HIDE DEF log
<1>3. \A r \in rows : r = PlRow(log, largest) /\ closed
  BY <1>2 DEF PlRows, LargestLast, LinesIn
<1>4. rows = {} \/ rows = {PlRow(log, largest)}
  BY <1>3
<1>5. \A x : Cardinality({}) = 0 /\ Cardinality({x}) = 1
  BY FS_EmptySet, FS_Singleton
<1>6. Cardinality(rows) <= 1
  <2> DEFINE row == PlRow(log, largest)
  <2>1. rows = {} \/ rows = {row}
    BY <1>4
  <2>2. Cardinality({}) = 0 /\ Cardinality({row}) = 1
    BY <1>5
  <2> HIDE DEF rows, row
  <2>3. Cardinality(rows) = 0 \/ Cardinality(rows) = 1
    BY <2>1, <2>2
  <2> QED
    BY <2>3
<1> QED
  BY <1>3, <1>6 DEF log, NoRow

LEMMA CreateStep ==
    ASSUME DbInv, LossInv', LargestLast', NEW m \in 0 .. Len(plLog), NEW n \in 0 .. Len(rxLog),
           CreateResultsDb(m, n) \/ CreateResultsDbTorn(m, n)
    PROVE  DbInv'
<1>a. /\ LossInv /\ plLog \in Seq(Lines) /\ rxLog \in Seq([time : Nat, bytes : Nat])
  BY DEF DbInv, LossInv, HeapInv, HeapType, CbTypeOK
<1>1. /\ closed \/ died
      /\ UNCHANGED <<plLog, rxLog, closed, died>>
      /\ plFile' = SubSeq(plLog, 1, m) /\ pl' = PlRows(SubSeq(plLog, 1, m))
      /\ rx' = {RxRow(rxFile')}
      /\ outcome' \in {"whole", "torn"}
      /\ outcome' = "whole" => rxFile' = SubSeq(rxLog, 1, n)
  BY DEF CreateResultsDb, CreateResultsDbTorn, Create, cbVars, plVars, rxVars
<1>2. IsPrefix(plFile', plLog') /\ (outcome' = "whole" => IsPrefix(rxFile', rxLog'))
  BY <1>a, <1>1, PrefixOf
<1>3. Cardinality(pl') <= 1 /\ (pl' # NoRow => closed')
  <2>1. Cardinality(PlRows(SubSeq(plLog, 1, m))) <= 1 /\ (PlRows(SubSeq(plLog, 1, m)) # NoRow => closed)
    BY <1>a, RowsOf DEF DbInv
  <2> QED
    BY <1>1, <2>1
<1>4. Cardinality(rx') <= 1
  <2>1. Cardinality({RxRow(rxFile')}) = 1
    BY FS_Singleton
  <2> QED
    BY <1>1, <2>1
<1>5. died' \in BOOLEAN
  BY <1>1 DEF DbInv
<1> QED
  BY <1>1, <1>2, <1>3, <1>4, <1>5 DEF DbInv

LEMMA DbStep == DbInv /\ [Next]_vars => DbInv'
<1> SUFFICES ASSUME DbInv, [Next]_vars PROVE DbInv'
  OBVIOUS
<1>1. LossInv' /\ LargestLast'
  BY LossStep, LargestStep DEF DbInv
<1>2. CASE Simulate
  <2>1. ~died /\ ~closed /\ UNCHANGED dbVars
    BY <1>2 DEF Simulate, CbNext, RxFill, RxSlide, RxNoHeader, Rx, Destroy
  <2>2. outcome = "none" /\ NotYet
    BY <2>1 DEF DbInv
  <2>3. IsPrefix(<<>>, plLog')
    <3>1. plLog' \in Seq(Lines)
      BY <1>1 DEF LossInv, HeapInv, HeapType
    <3>2. SubSeq(plLog', 1, 0) = <<>>
      BY <3>1
    <3> QED
      BY <3>1, <3>2 DEF IsPrefix
  <2> QED
    BY <1>1, <2>1, <2>2, <2>3 DEF DbInv, dbVars, NotYet
<1>3. CASE Die
  BY <1>1, <1>3 DEF Die, DbInv, NotYet, cbVars, plVars, rxVars
<1>4. CASE CreateRaises
  BY <1>1, <1>4 DEF CreateRaises, DbInv, NotYet, cbVars, plVars, rxVars
<1>5. ASSUME NEW m \in 0 .. Len(plLog), NEW n \in 0 .. Len(rxLog),
             CreateResultsDb(m, n) \/ CreateResultsDbTorn(m, n)
      PROVE  DbInv'
  BY <1>1, <1>5, CreateStep
<1>6. CASE UNCHANGED vars
  BY <1>1, <1>6 DEF vars, dbVars, DbInv, NotYet, cbVars, plVars, rxVars
<1> QED
  BY <1>2, <1>3, <1>4, <1>5, <1>6 DEF Next

(* A simulation that died is never given a loss summary, however much of   *)
(* its log has been written: createresultsdb adds a row only if there is a *)
(* largest_seqno_processed line, which only the destructor of AppRxCb      *)
(* writes, and it adds no more than one.  For every window and traffic.    *)
THEOREM OnlyFinishedSummarisedCorrect == Spec => []OnlyFinishedSummarised
<1>1. DbInv => OnlyFinishedSummarised
  BY DEF DbInv, LossInv, OnlyFinishedSummarised, TypeOK
<1> QED
  BY <1>1, DbInit, DbStep, PTL DEF Spec

-----------------------------------------------------------------------------
(* The sums of the summary.  What sum(seqno2 - seqno + 1) adds up is the   *)
(* size of the set of the lost numbers, each with the line it is in.       *)
Sized(log, s) ==
    UNION {{i} \X (log[i].seqno .. log[i].seqno2) :
               i \in {j \in s : log[j].ev = "lost_range"}}

EvLines(log, ev) == {i \in DOMAIN log : log[i].ev = ev}

(* A lost range has a first and a last number. *)
Ranges(log) ==
    \A i \in DOMAIN log : log[i].ev = "lost_range" => log[i].seqno <= log[i].seqno2

(* LossPktCount's sum over the lines in s, from a sum f over fewer lines. *)
SumFrom(log, f) ==
    [s \in SUBSET (DOMAIN log) |->
        IF s = {} THEN 0
        ELSE (IF log[Max(s)].ev = "lost_range"
              THEN f[s \ {Max(s)}] + (log[Max(s)].seqno2 - log[Max(s)].seqno + 1)
              ELSE f[s \ {Max(s)}])]

(* A set of lines has a last one. *)
LEMMA LastLine ==
    ASSUME NEW n \in Nat, NEW S \in SUBSET (1 .. n), S # {}
    PROVE  Max(S) \in S
<1> DEFINE B == {b \in Nat : \A x \in S : x <= b}
<1>1. n \in B
  OBVIOUS
<1>2. PICK b \in B : \A c \in B : b <= c
  <2> HIDE DEF B
  <2>1. B \subseteq Nat
    BY DEF B
  <2> QED
    BY <1>1, <2>1, LeastNumber
<1>3. b \in S
  <2> SUFFICES ASSUME b \notin S PROVE FALSE
    OBVIOUS
  <2>1. PICK x : x \in S
    OBVIOUS
  <2>2. x \in 1 .. n /\ x <= b /\ b \in Nat
    BY <2>1
  <2>3. b - 1 \in Nat /\ \A y \in S : y <= b - 1
    BY <2>2
  <2> QED
    BY <1>2, <2>3
<1>4. \A y \in S : b >= y
  BY <1>2
<1> QED
  BY <1>3, <1>4, Zenon DEF Max

(* The lines of the log and their numbers. *)
LEMMA LineAt ==
    ASSUME NEW log \in Seq(Lines)
    PROVE  /\ DOMAIN log = 1 .. Len(log) /\ Len(log) \in Nat
           /\ \A x \in DOMAIN log : /\ log[x] \in Lines
                                     /\ log[x].seqno \in Nat
                                     /\ log[x].seqno2 \in Nat
<1>1. DOMAIN log = 1 .. Len(log) /\ Len(log) \in Nat
  OBVIOUS
<1>2. ASSUME NEW x \in DOMAIN log PROVE log[x] \in Lines
  BY <1>1
<1>3. ASSUME NEW l \in Lines PROVE l.seqno \in Nat /\ l.seqno2 \in Nat
  BY DEF Lines
<1> QED
  BY <1>1, <1>2, <1>3

(* One more line of lost numbers. *)
LEMMA SizedAdds ==
    ASSUME NEW log \in Seq(Lines), Ranges(log), NEW s \in SUBSET (DOMAIN log),
           NEW x \in DOMAIN log, x \notin s, IsFiniteSet(Sized(log, s))
    PROVE  /\ IsFiniteSet(Sized(log, s \cup {x}))
           /\ Cardinality(Sized(log, s \cup {x}))
                 = Cardinality(Sized(log, s))
                     + (IF log[x].ev = "lost_range" THEN log[x].seqno2 - log[x].seqno + 1 ELSE 0)
<1>1. log[x].seqno \in Nat /\ log[x].seqno2 \in Nat
  BY LineAt
<1>2. CASE log[x].ev # "lost_range"
  <2>1. Sized(log, s \cup {x}) = Sized(log, s)
    BY <1>2 DEF Sized
  <2>2. Cardinality(Sized(log, s)) \in Nat
    BY FS_CardinalityType
  <2> QED
    BY <1>2, <2>1, <2>2
<1>3. CASE log[x].ev = "lost_range"
  <2> DEFINE R == log[x].seqno .. log[x].seqno2
             P == {x} \X R
  <2>1. Sized(log, s \cup {x}) = Sized(log, s) \cup P
    BY <1>3 DEF Sized
  <2>2. Sized(log, s) \cap P = {}
    BY DEF Sized
  <2>3. IsFiniteSet(R) /\ Cardinality(R) = log[x].seqno2 - log[x].seqno + 1
    <3>1. log[x].seqno <= log[x].seqno2
      BY <1>3 DEF Ranges
    <3>2. \A a, b \in Nat : a <= b => IsFiniteSet(a .. b) /\ Cardinality(a .. b) = b - a + 1
      <4> TAKE a, b \in Nat
      <4>1. IsFiniteSet(a .. b) /\ Cardinality(a .. b) = IF a > b THEN 0 ELSE b - a + 1
        BY FS_Interval
      <4> QED
        BY <4>1
    <3> QED
      BY <1>1, <3>1, <3>2
  <2>4. IsFiniteSet({x}) /\ Cardinality({x}) = 1
    BY FS_Singleton
  <2>5. IsFiniteSet(P) /\ Cardinality(P) = Cardinality({x}) * Cardinality(R)
    <3> HIDE DEF R
    <3> QED
      BY <2>3, <2>4, FS_Product
  <2>6. Cardinality({}) = 0
    BY FS_EmptySet
  <2>7. Cardinality(Sized(log, s)) \in Nat
    BY FS_CardinalityType
  <2> HIDE DEF P, R
  <2>8. /\ IsFiniteSet(Sized(log, s) \cup P)
        /\ Cardinality(Sized(log, s) \cup P)
              = Cardinality(Sized(log, s)) + Cardinality(P) - Cardinality(Sized(log, s) \cap P)
    BY <2>5, FS_Union
  <2>9. Cardinality(P) = log[x].seqno2 - log[x].seqno + 1
    BY <1>1, <2>3, <2>4, <2>5
  <2>10. Cardinality(Sized(log, s) \cap P) = 0
    BY <2>2, <2>6
  <2>11. Cardinality(Sized(log, s) \cup P) = Cardinality(Sized(log, s)) + Cardinality(P)
    BY <1>1, <2>7, <2>8, <2>9, <2>10
  <2>12. /\ IsFiniteSet(Sized(log, s \cup {x}))
         /\ Cardinality(Sized(log, s \cup {x}))
              = Cardinality(Sized(log, s)) + (log[x].seqno2 - log[x].seqno + 1)
    BY <2>1, <2>8, <2>9, <2>11
  <2> QED
    BY <1>3, <2>12
<1> QED
  BY <1>2, <1>3

(* The size of that set satisfies the equation of the sum ... *)
LEMMA SizedIsSum ==
    ASSUME NEW log \in Seq(Lines), Ranges(log), IsFiniteSet(Sized(log, DOMAIN log)),
           NEW f, f = [s \in SUBSET (DOMAIN log) |-> Cardinality(Sized(log, s))]
    PROVE  f = SumFrom(log, f)
<1>1. ASSUME NEW s \in SUBSET (DOMAIN log) PROVE f[s] = SumFrom(log, f)[s]
  <2>1. CASE s = {}
    <3>1. Sized(log, {}) = {} /\ Cardinality({}) = 0
      BY FS_EmptySet DEF Sized
    <3> QED
      BY <2>1, <3>1 DEF SumFrom
  <2>2. CASE s # {}
    <3> DEFINE x == Max(s)
               r == s \ {x}
    <3>1. x \in s
      BY <2>2, LineAt, LastLine
    <3>2. x \in DOMAIN log /\ r \in SUBSET (DOMAIN log) /\ x \notin r /\ r \cup {x} = s
      BY <3>1
    <3>3. f[s] = Cardinality(Sized(log, s)) /\ f[r] = Cardinality(Sized(log, r))
      BY <3>2
    <3>4. SumFrom(log, f)[s] =
              IF log[x].ev = "lost_range" THEN f[r] + (log[x].seqno2 - log[x].seqno + 1) ELSE f[r]
      BY <2>2 DEF SumFrom
    <3> HIDE DEF x, r
    <3>5. IsFiniteSet(Sized(log, r))
      <4>1. Sized(log, r) \subseteq Sized(log, DOMAIN log)
        BY <3>2 DEF Sized
      <4> QED
        BY <4>1, FS_Subset
    <3>6. Cardinality(Sized(log, r)) \in Nat
      BY <3>5, FS_CardinalityType
    <3>7. log[x].seqno \in Nat /\ log[x].seqno2 \in Nat
      BY <3>2, LineAt
    <3>8. Cardinality(Sized(log, r \cup {x}))
            = Cardinality(Sized(log, r))
                + (IF log[x].ev = "lost_range" THEN log[x].seqno2 - log[x].seqno + 1 ELSE 0)
      BY <3>2, <3>5, SizedAdds
    <3>9. f[s] = Cardinality(Sized(log, r \cup {x}))
      BY <3>2, <3>3
    <3>10. CASE log[x].ev = "lost_range"
      BY <3>3, <3>4, <3>8, <3>9, <3>10
    <3>11. CASE log[x].ev # "lost_range"
      <4>1. f[s] = Cardinality(Sized(log, r)) + 0
        BY <3>8, <3>9, <3>11
      <4> QED
        BY <3>3, <3>4, <3>6, <3>11, <4>1
    <3> QED
      BY <3>10, <3>11
  <2> QED
    BY <2>1, <2>2
<1> QED
  BY <1>1 DEF SumFrom

(* ... and only one function does. *)
LEMMA SumUnique ==
    ASSUME NEW log \in Seq(Lines), NEW f, NEW g, f = SumFrom(log, f), g = SumFrom(log, g)
    PROVE  f[DOMAIN log] = g[DOMAIN log]
<1> DEFINE Bad == {k \in Nat : \E s \in SUBSET (DOMAIN log) :
                                  IsFiniteSet(s) /\ Cardinality(s) = k /\ f[s] # g[s]}
<1>1. ASSUME NEW k \in Bad, \A j \in Bad : k <= j PROVE FALSE
  <2>1. PICK s \in SUBSET (DOMAIN log) : IsFiniteSet(s) /\ Cardinality(s) = k /\ f[s] # g[s]
    OBVIOUS
  <2>2. /\ f[s] = SumFrom(log, f)[s]
        /\ g[s] = SumFrom(log, g)[s]
    OBVIOUS
  <2>3. s # {}
    BY <2>1, <2>2 DEF SumFrom
  <2> DEFINE x == Max(s)
             r == s \ {x}
  <2>4. x \in s
    BY <2>3, LineAt, LastLine
  <2>5. f[r] # g[r]
    BY <2>1, <2>2, <2>3 DEF SumFrom
  <2> HIDE DEF x
  <2>6. IsFiniteSet(r) /\ Cardinality(r) = Cardinality(s) - 1
    BY <2>1, <2>4, FS_RemoveElement
  <2>7. Cardinality(r) \in Nat /\ Cardinality(r) < k
    BY <2>1, <2>6, FS_CardinalityType
  <2>8. r \in SUBSET (DOMAIN log)
    OBVIOUS
  <2>9. Cardinality(r) \in Bad
    BY <2>5, <2>6, <2>7, <2>8
  <2>10. k \in Nat /\ k <= Cardinality(r)
    BY <1>1, <2>9
  <2> HIDE DEF Bad, r
  <2> QED
    BY <2>7, <2>10
<1>2. Bad = {}
  <2> HIDE DEF Bad
  <2>1. Bad \subseteq Nat
    BY DEF Bad
  <2> QED
    BY <1>1, <2>1, LeastNumber
<1>3. IsFiniteSet(DOMAIN log) /\ Cardinality(DOMAIN log) \in Nat
  <2>1. DOMAIN log = 1 .. Len(log) /\ Len(log) \in Nat
    OBVIOUS
  <2>2. IsFiniteSet(1 .. Len(log))
    BY <2>1, FS_Interval
  <2> QED
    BY <2>1, <2>2, FS_CardinalityType
<1>4. DOMAIN log \in SUBSET (DOMAIN log)
  OBVIOUS
<1> QED
  BY <1>2, <1>3, <1>4

(* LossPktCount, sum(seqno2 - seqno + 1) in the database, is that size.    *)
LEMMA LossPktCountIs ==
    ASSUME NEW log \in Seq(Lines), Ranges(log), IsFiniteSet(Sized(log, DOMAIN log))
    PROVE  LossPktCount(log) = Cardinality(Sized(log, DOMAIN log))
<1> DEFINE sum == CHOOSE iter : iter = SumFrom(log, iter)
           size == [s \in SUBSET (DOMAIN log) |-> Cardinality(Sized(log, s))]
<1>1. LossPktCount(log) = sum[DOMAIN log]
  BY Zenon DEF LossPktCount, FoldLeft, MapThenFoldSet, SumFrom
<1>2. size = SumFrom(log, size)
  BY SizedIsSum
<1>3. sum = SumFrom(log, sum)
  <2> HIDE DEF size
  <2> QED
    BY <1>2, Zenon
<1>4. sum[DOMAIN log] = size[DOMAIN log]
  <2> HIDE DEF sum, size
  <2> QED
    BY <1>2, <1>3, SumUnique
<1> QED
  BY <1>1, <1>4

-----------------------------------------------------------------------------
(* The account.  Every number up to the largest popped that is not lost,   *)
(* every copy and every packet reordered beyond the window is a packet     *)
(* that has been taken out of the heap.                                    *)
LostSize(log) == Cardinality(Sized(log, DOMAIN log))

Tally(g, log) ==
    (g + 1 - LostSize(log)) + EvCount(log, "dup") + EvCount(log, "large_reorder")

Countable(log) ==
    /\ log \in Seq(Lines)
    /\ Ranges(log)
    /\ IsFiniteSet(Sized(log, DOMAIN log))

AccountInv ==
    /\ DbInv
    /\ Countable(plLog)
    /\ Len(arrivals) = Cardinality(heap) + Tally(largest, plLog)
    /\ died => ~closed
    /\ \A row \in pl : row = PlRow(plLog, largest)

(* The counts are natural numbers, and all zero for an empty log.          *)
LEMMA CountTypes ==
    ASSUME NEW log, Countable(log)
    PROVE  /\ LostSize(log) \in Nat
           /\ EvCount(log, "dup") \in Nat
           /\ EvCount(log, "large_reorder") \in Nat
<1>1. LostSize(log) \in Nat
  BY FS_CardinalityType DEF Countable, LostSize
<1>2. ASSUME NEW ev PROVE IsFiniteSet(EvLines(log, ev)) /\ EvCount(log, ev) \in Nat
  <2>1. DOMAIN log = 1 .. Len(log) /\ Len(log) \in Nat
    BY LineAt DEF Countable
  <2>2. IsFiniteSet(DOMAIN log)
    BY <2>1, FS_Interval
  <2>3. IsFiniteSet(EvLines(log, ev))
    <3>1. EvLines(log, ev) \subseteq DOMAIN log
      BY DEF EvLines
    <3> QED
      BY <2>2, <3>1, FS_Subset
  <2>4. Cardinality(EvLines(log, ev)) \in Nat
    BY <2>3, FS_CardinalityType
  <2> QED
    BY <2>3, <2>4 DEF EvCount, EvLines
<1> QED
  BY <1>1, <1>2

(* A line counts once, under its own event, and a lost range with all its  *)
(* numbers.                                                                *)
LEMMA LineCounts ==
    ASSUME NEW log, Countable(log), NEW l \in Lines,
           l.ev = "lost_range" => l.seqno <= l.seqno2
    PROVE  /\ Countable(Append(log, l))
           /\ LostSize(Append(log, l)) = LostSize(log)
                 + (IF l.ev = "lost_range" THEN l.seqno2 - l.seqno + 1 ELSE 0)
           /\ \A ev : EvCount(Append(log, l), ev)
                          = EvCount(log, ev) + (IF l.ev = ev THEN 1 ELSE 0)
<1> DEFINE n == Len(log) + 1
           log2 == Append(log, l)
<1>1. /\ log \in Seq(Lines) /\ DOMAIN log = 1 .. Len(log) /\ Len(log) \in Nat
  BY LineAt DEF Countable
<1>2. /\ log2 \in Seq(Lines) /\ DOMAIN log2 = 1 .. n
      /\ log2[n] = l /\ \A i \in DOMAIN log : log2[i] = log[i]
  BY <1>1
<1>3. n \notin DOMAIN log /\ DOMAIN log2 = DOMAIN log \cup {n} /\ n \in DOMAIN log2
  BY <1>1, <1>2
<1> HIDE DEF n, log2
<1>4. Ranges(log2)
  BY <1>2, <1>3 DEF Ranges, Countable
<1>5. Sized(log2, DOMAIN log) = Sized(log, DOMAIN log)
  <2>1. {j \in DOMAIN log : log2[j].ev = "lost_range"} = {j \in DOMAIN log : log[j].ev = "lost_range"}
    BY <1>2
  <2>2. \A i \in {j \in DOMAIN log : log[j].ev = "lost_range"} : log2[i] = log[i]
    BY <1>2
  <2> QED
    BY <2>1, <2>2 DEF Sized
<1>6. /\ IsFiniteSet(Sized(log2, DOMAIN log \cup {n}))
      /\ Cardinality(Sized(log2, DOMAIN log \cup {n}))
            = Cardinality(Sized(log2, DOMAIN log))
                + (IF log2[n].ev = "lost_range" THEN log2[n].seqno2 - log2[n].seqno + 1 ELSE 0)
  <2>1. DOMAIN log \in SUBSET (DOMAIN log2)
    BY <1>3
  <2>2. IsFiniteSet(Sized(log2, DOMAIN log))
    BY <1>5 DEF Countable
  <2> QED
    BY <1>2, <1>3, <1>4, <2>1, <2>2, SizedAdds
<1>7. Countable(log2)
  BY <1>2, <1>3, <1>4, <1>6 DEF Countable
<1>8. LostSize(log2) = LostSize(log) + (IF l.ev = "lost_range" THEN l.seqno2 - l.seqno + 1 ELSE 0)
  BY <1>2, <1>3, <1>5, <1>6 DEF LostSize
<1>9. ASSUME NEW ev
      PROVE  EvCount(log2, ev) = EvCount(log, ev) + (IF l.ev = ev THEN 1 ELSE 0)
  <2>1. IsFiniteSet(EvLines(log, ev)) /\ Cardinality(EvLines(log, ev)) \in Nat
    <3>1. IsFiniteSet(DOMAIN log)
      BY <1>1, FS_Interval
    <3>2. EvLines(log, ev) \subseteq DOMAIN log
      BY DEF EvLines
    <3> QED
      BY <3>1, <3>2, FS_Subset, FS_CardinalityType
  <2>2. CASE l.ev = ev
    <3>1. EvLines(log2, ev) = EvLines(log, ev) \cup {n} /\ n \notin EvLines(log, ev)
      BY <1>2, <1>3, <2>2 DEF EvLines
    <3>2. Cardinality(EvLines(log2, ev)) = Cardinality(EvLines(log, ev)) + 1
      BY <2>1, <3>1, FS_AddElement
    <3> QED
      BY <2>2, <3>2 DEF EvCount, EvLines
  <2>3. CASE l.ev # ev
    <3>1. EvLines(log2, ev) = EvLines(log, ev)
      BY <1>2, <1>3, <2>3 DEF EvLines
    <3>2. Cardinality(EvLines(log2, ev)) = Cardinality(EvLines(log, ev)) + 0
      BY <2>1, <3>1
    <3> QED
      BY <2>3, <3>2 DEF EvCount, EvLines
  <2> QED
    BY <2>2, <2>3
<1> QED
  BY <1>7, <1>8, <1>9 DEF log2

(* An entry taken out of the heap is counted exactly once.                 *)
LEMMA PopCounts ==
    ASSUME NEW v \in Nat, NEW g \in Nat \cup {-1}, NEW log, Countable(log)
    PROVE  /\ Countable(log \o PoppedFrom(v, g))
           /\ Tally(LargestOf(v, g), log \o PoppedFrom(v, g)) = Tally(g, log) + 1
<1>1. /\ LostSize(log) \in Nat
      /\ EvCount(log, "dup") \in Nat
      /\ EvCount(log, "large_reorder") \in Nat
  BY CountTypes
<1>2. ASSUME NEW l \in Lines, PoppedFrom(v, g) = <<l>>,
             l.ev = "lost_range" => l.seqno <= l.seqno2
      PROVE  /\ Countable(log \o PoppedFrom(v, g))
             /\ LostSize(log \o PoppedFrom(v, g)) = LostSize(log)
                   + (IF l.ev = "lost_range" THEN l.seqno2 - l.seqno + 1 ELSE 0)
             /\ EvCount(log \o PoppedFrom(v, g), "dup")
                   = EvCount(log, "dup") + (IF l.ev = "dup" THEN 1 ELSE 0)
             /\ EvCount(log \o PoppedFrom(v, g), "large_reorder")
                   = EvCount(log, "large_reorder") + (IF l.ev = "large_reorder" THEN 1 ELSE 0)
  <2>1. log \o PoppedFrom(v, g) = Append(log, l)
    BY <1>2 DEF Countable
  <2> QED
    BY <1>2, <2>1, LineCounts
<1>3. CASE v < g
  <2> DEFINE l == Line("large_reorder", v, g)
  <2>1. l \in Lines /\ l.ev = "large_reorder"
    BY <1>3 DEF Line, Lines
  <2>2. PoppedFrom(v, g) = <<l>> /\ LargestOf(v, g) = g
    BY <1>3 DEF PoppedFrom, LargestOf
  <2> HIDE DEF l
  <2>3. /\ Countable(log \o PoppedFrom(v, g))
        /\ LostSize(log \o PoppedFrom(v, g)) = LostSize(log) + 0
        /\ EvCount(log \o PoppedFrom(v, g), "dup") = EvCount(log, "dup") + 0
        /\ EvCount(log \o PoppedFrom(v, g), "large_reorder") = EvCount(log, "large_reorder") + 1
    BY <1>2, <2>1, <2>2
  <2> QED
    BY <1>1, <2>2, <2>3 DEF Tally
<1>4. CASE v = g
  <2> DEFINE l == Line("dup", v, v)
  <2>1. l \in Lines /\ l.ev = "dup"
    BY <1>4 DEF Line, Lines
  <2>2. PoppedFrom(v, g) = <<l>> /\ LargestOf(v, g) = g
    BY <1>4 DEF PoppedFrom, LargestOf
  <2> HIDE DEF l
  <2>3. /\ Countable(log \o PoppedFrom(v, g))
        /\ LostSize(log \o PoppedFrom(v, g)) = LostSize(log) + 0
        /\ EvCount(log \o PoppedFrom(v, g), "dup") = EvCount(log, "dup") + 1
        /\ EvCount(log \o PoppedFrom(v, g), "large_reorder") = EvCount(log, "large_reorder") + 0
    BY <1>2, <2>1, <2>2
  <2> QED
    BY <1>1, <2>2, <2>3 DEF Tally
<1>5. CASE v > g + 1
  <2> DEFINE l == Line("lost_range", g + 1, v - 1)
  <2>1. l \in Lines /\ l.ev = "lost_range" /\ l.seqno = g + 1 /\ l.seqno2 = v - 1
    BY <1>5 DEF Line, Lines
  <2>2. PoppedFrom(v, g) = <<l>> /\ LargestOf(v, g) = v
    BY <1>5 DEF PoppedFrom, LargestOf
  <2> HIDE DEF l
  <2>3. l.seqno <= l.seqno2
    BY <1>5, <2>1
  <2>4. /\ Countable(log \o PoppedFrom(v, g))
        /\ LostSize(log \o PoppedFrom(v, g)) = LostSize(log) + (l.seqno2 - l.seqno + 1)
        /\ EvCount(log \o PoppedFrom(v, g), "dup") = EvCount(log, "dup") + 0
        /\ EvCount(log \o PoppedFrom(v, g), "large_reorder") = EvCount(log, "large_reorder") + 0
    BY <1>2, <2>1, <2>2, <2>3
  <2> QED
    BY <1>1, <2>1, <2>2, <2>4 DEF Tally
<1>6. CASE v = g + 1
  <2>1. PoppedFrom(v, g) = <<>> /\ LargestOf(v, g) = v
    BY <1>6 DEF PoppedFrom, LargestOf
  <2>2. log \o PoppedFrom(v, g) = log
    BY <2>1 DEF Countable
  <2>3. Tally(v, log) = Tally(g, log) + 1
    BY <1>1, <1>6 DEF Tally
  <2> QED
    BY <2>1, <2>2, <2>3 DEF Countable
<1> QED
  BY <1>3, <1>4, <1>5, <1>6

LEMMA AccountInit == Init => AccountInv
<1> SUFFICES ASSUME Init PROVE AccountInv
  OBVIOUS
<1>1. /\ arrivals = <<>> /\ heap = {} /\ largest = -1 /\ plLog = <<>>
      /\ died = FALSE /\ pl = {}
  BY DEF Init, CbInit, NoRow
<1>2. Sized(<<>>, DOMAIN <<>>) = {} /\ \A ev : {i \in DOMAIN <<>> : <<>>[i].ev = ev} = {}
  BY DEF Sized
<1>3. IsFiniteSet({}) /\ Cardinality({}) = 0
  BY FS_EmptySet
<1>4. Countable(<<>>)
  BY <1>2, <1>3 DEF Countable, Ranges
<1>5. Tally(-1, <<>>) = 0
  <2>1. LostSize(<<>>) = 0 /\ \A ev : EvCount(<<>>, ev) = 0
    BY <1>2, <1>3 DEF LostSize, EvCount
  <2> QED
    BY <2>1 DEF Tally
<1>6. Len(arrivals) = Cardinality(heap) + Tally(largest, plLog)
  BY <1>1, <1>3, <1>5
<1> QED
  BY <1>1, <1>4, <1>6, DbInit DEF AccountInv

(* The heap is a finite set of positions. *)
LEMMA HeapFinite ==
    ASSUME LossInv
    PROVE  /\ arrivals \in Seq(Nat) /\ heap \in SUBSET DOMAIN arrivals
           /\ IsFiniteSet(heap) /\ Cardinality(heap) \in Nat
           /\ Len(arrivals) \in Nat /\ Len(arrivals) + 1 \notin heap
           /\ largest \in Nat \cup {-1}
<1>1. /\ arrivals \in Seq(Nat) /\ heap \in SUBSET DOMAIN arrivals
      /\ largest \in Nat \cup {-1}
  BY DEF LossInv, HeapInv, HeapType
<1> QED
  BY <1>1, PositionsFinite

(* A packet that comes is one more in the heap. *)
LEMMA PushCounts ==
    ASSUME LossInv, NEW h \in SUBSET heap, NEW n \in Nat, Push(h, n)
    PROVE  /\ Cardinality(heap') = Cardinality(h) + 1
           /\ Len(arrivals') = Len(arrivals) + 1
           /\ Cardinality(h) \in Nat
<1>1. IsFiniteSet(h) /\ Cardinality(h) \in Nat /\ Len(arrivals) + 1 \notin h
  BY HeapFinite, FS_Subset, FS_CardinalityType
<1>2. Cardinality(h \cup {Len(arrivals) + 1}) = Cardinality(h) + 1
  BY <1>1, FS_AddElement
<1>3. Len(arrivals') = Len(arrivals) + 1
  BY HeapFinite DEF Push
<1> QED
  BY <1>1, <1>2, <1>3 DEF Push

(* What rxCb and the destructor do to the account. *)
Account == Countable(plLog) /\ Len(arrivals) = Cardinality(heap) + Tally(largest, plLog)

LEMMA FillAccount ==
    ASSUME AccountInv, NEW p, RxFill(p)
    PROVE  Account'
<1>1. LossInv /\ Countable(plLog) /\ Len(arrivals) = Cardinality(heap) + Tally(largest, plLog)
  BY DEF AccountInv, DbInv
<1>2. Push(heap, p.seqno) /\ largest' = largest /\ plLog' = plLog
  BY DEF RxFill
<1>3. p.seqno \in Nat
  BY <1>1, RxKeeps DEF RxFill, LossInv, Packets
<1>4. /\ Cardinality(heap') = Cardinality(heap) + 1 /\ Cardinality(heap) \in Nat
      /\ Len(arrivals') = Len(arrivals) + 1
  BY <1>1, <1>2, <1>3, PushCounts
<1>5. Tally(largest, plLog) \in Int
  BY <1>1, HeapFinite, CountTypes DEF Tally
<1>6. Len(arrivals') = Cardinality(heap') + Tally(largest, plLog)
  BY <1>1, <1>4, <1>5
<1> QED
  BY <1>1, <1>2, <1>6 DEF Account

LEMMA SlideAccount ==
    ASSUME AccountInv, NEW p, RxSlide(p)
    PROVE  Account'
<1>1. LossInv /\ Countable(plLog) /\ Len(arrivals) = Cardinality(heap) + Tally(largest, plLog)
  BY DEF AccountInv, DbInv
<1>2. PICK i \in heap :
          /\ plLog' = plLog \o PoppedLine(arrivals[i])
          /\ largest' = IF arrivals[i] > largest THEN arrivals[i] ELSE largest
          /\ Push(heap \ {i}, p.seqno)
  BY DEF RxSlide
<1>3. p.seqno \in Nat
  BY <1>1, RxKeeps DEF RxSlide, LossInv, Packets
<1>4. arrivals[i] \in Nat /\ largest \in Nat \cup {-1}
  BY <1>1, HeapFinite
<1>5. /\ Countable(plLog') /\ Tally(largest', plLog') = Tally(largest, plLog) + 1
  <2>1. plLog' = plLog \o PoppedFrom(arrivals[i], largest) /\ largest' = LargestOf(arrivals[i], largest)
    BY <1>2 DEF PoppedFrom, PoppedLine, LargestOf
  <2> QED
    BY <1>1, <1>4, <2>1, PopCounts
<1>6. Cardinality(heap \ {i}) = Cardinality(heap) - 1 /\ Cardinality(heap) \in Nat
  BY <1>1, HeapFinite, FS_RemoveElement
<1>7. /\ Cardinality(heap') = Cardinality(heap \ {i}) + 1
      /\ Len(arrivals') = Len(arrivals) + 1
  BY <1>1, <1>2, <1>3, PushCounts
<1>8. Tally(largest, plLog) \in Int
  BY <1>1, <1>4, CountTypes DEF Tally
<1>9. Len(arrivals') = Cardinality(heap') + Tally(largest', plLog')
  BY <1>1, <1>5, <1>6, <1>7, <1>8
<1> QED
  BY <1>5, <1>9 DEF Account

LEMMA DestroyAccount ==
    ASSUME AccountInv, Destroy
    PROVE  Account'
<1>1. LossInv /\ Countable(plLog) /\ Len(arrivals) = Cardinality(heap) + Tally(largest, plLog)
  BY DEF AccountInv, DbInv
<1>2. UNCHANGED <<arrivals, heap, largest>>
  BY DEF Destroy
<1>3. Countable(plLog') /\ Tally(largest, plLog') = Tally(largest, plLog)
  <2>1. CASE largest > -1
    <3> DEFINE l == Line("largest", largest, largest)
    <3>1. l \in Lines /\ l.ev = "largest"
      BY <1>1, <2>1, HeapFinite DEF Line, Lines
    <3>2. plLog' = Append(plLog, l)
      BY <2>1 DEF Destroy
    <3> HIDE DEF l
    <3>3. /\ Countable(plLog')
          /\ LostSize(plLog') = LostSize(plLog) + 0
          /\ EvCount(plLog', "dup") = EvCount(plLog, "dup") + 0
          /\ EvCount(plLog', "large_reorder") = EvCount(plLog, "large_reorder") + 0
      BY <1>1, <3>1, <3>2, LineCounts
    <3>4. LostSize(plLog) \in Nat /\ EvCount(plLog, "dup") \in Nat
          /\ EvCount(plLog, "large_reorder") \in Nat
      BY <1>1, CountTypes
    <3> QED
      BY <3>3, <3>4 DEF Tally
  <2>2. CASE ~(largest > -1)
    <3>1. plLog' = plLog
      BY <2>2 DEF Destroy
    <3> QED
      BY <1>1, <3>1
  <2> QED
    BY <2>1, <2>2
<1> QED
  BY <1>1, <1>2, <1>3 DEF Account

(* The script reads the whole log of a simulation that ended well. *)
LEMMA CreateRow ==
    ASSUME AccountInv, NEW m \in 0 .. Len(plLog), NEW n,
           CreateResultsDb(m, n) \/ CreateResultsDbTorn(m, n), closed
    PROVE  \A row \in pl' : row = PlRow(plLog, largest)
<1>1. plLog \in Seq(Lines) /\ LargestLast /\ ~died
  BY DEF AccountInv, Countable, DbInv
<1>2. m = Len(plLog) /\ pl' = PlRows(SubSeq(plLog, 1, m))
  BY <1>1 DEF CreateResultsDb, CreateResultsDbTorn, Create
<1>3. SubSeq(plLog, 1, Len(plLog)) = plLog
  BY <1>1
<1>4. pl' = PlRows(plLog)
  BY <1>2, <1>3
<1> QED
  BY <1>1, <1>4 DEF PlRows, LargestLast, LinesIn

LEMMA AccountStep == AccountInv /\ [Next]_vars => AccountInv'
<1> SUFFICES ASSUME AccountInv, [Next]_vars PROVE AccountInv'
  OBVIOUS
<1>1. DbInv /\ DbInv'
  BY DbStep DEF AccountInv
<1>2. Account'
  <2>1. CASE UNCHANGED cbVars
    BY <2>1 DEF cbVars, plVars, Account, AccountInv
  <2>2. ASSUME NEW p, RxNoHeader(p) PROVE Account'
    BY <2>2 DEF RxNoHeader, plVars, Account, AccountInv
  <2>3. CbNext \/ UNCHANGED cbVars
    BY ObjectStep
  <2> QED
    BY <2>1, <2>2, <2>3, FillAccount, SlideAccount, DestroyAccount DEF CbNext
<1>3. (died' => ~closed') /\ \A row \in pl' : row = PlRow(plLog', largest')
  <2>1. CASE Simulate
    <3>1. ~died' /\ ~closed /\ pl' = pl
      BY <2>1 DEF Simulate, dbVars, AccountInv, CbNext, RxFill, RxSlide, RxNoHeader, Rx, Destroy
    <3>2. pl' = {}
      BY <3>1, <1>1 DEF DbInv, NoRow
    <3> QED
      BY <3>1, <3>2
  <2>2. CASE Die \/ CreateRaises \/ UNCHANGED vars
    BY <2>2 DEF Die, CreateRaises, vars, dbVars, cbVars, plVars, AccountInv
  <2>3. ASSUME NEW m \in 0 .. Len(plLog), NEW n \in 0 .. Len(rxLog),
               CreateResultsDb(m, n) \/ CreateResultsDbTorn(m, n)
        PROVE  (died' => ~closed') /\ \A row \in pl' : row = PlRow(plLog', largest')
    <3>1. UNCHANGED <<died, closed, plLog, largest>>
      BY <2>3 DEF CreateResultsDb, CreateResultsDbTorn, Create, cbVars, plVars
    <3>2. \A row \in pl' : row = PlRow(plLog, largest)
      <4>1. CASE closed
        BY <2>3, <4>1, CreateRow
      <4>2. CASE ~closed
        <5>1. pl' = {}
          BY <4>2, <3>1, <1>1 DEF DbInv, NoRow
        <5> QED
          BY <5>1
      <4> QED
        BY <4>1, <4>2
    <3> QED
      BY <3>1, <3>2 DEF AccountInv
  <2> QED
    BY <2>1, <2>2, <2>3 DEF Next
<1> QED
  BY <1>1, <1>2, <1>3 DEF AccountInv, Account

(* The loss summary of createresultsdb accounts for every packet AppRxCb   *)
(* received, for every window and every traffic: losses, copies and        *)
(* reorderings, the largest number and what the heap still held.           *)
THEOREM SummaryAccountsCorrect == Spec => []SummaryAccounts
<1>1. AccountInv => SummaryAccounts
  <2> SUFFICES ASSUME AccountInv, NEW row \in pl
               PROVE  Len(arrivals) = Cardinality(heap) + (row.largest + 1 - row.lossPkts)
                                          + row.dups + row.reorders
    BY DEF SummaryAccounts
  <2>1. row = PlRow(plLog, largest) /\ LossInv /\ Countable(plLog)
        /\ Len(arrivals) = Cardinality(heap) + Tally(largest, plLog)
    BY DEF AccountInv, DbInv
  <2>2. LossPktCount(plLog) = LostSize(plLog)
    BY <2>1, LossPktCountIs DEF Countable, LostSize
  <2>3. /\ row.largest = largest /\ row.lossPkts = LostSize(plLog)
        /\ row.dups = EvCount(plLog, "dup") /\ row.reorders = EvCount(plLog, "large_reorder")
    BY <2>1, <2>2 DEF PlRow
  <2>4. /\ LostSize(plLog) \in Nat /\ EvCount(plLog, "dup") \in Nat
        /\ EvCount(plLog, "large_reorder") \in Nat
    BY <2>1, CountTypes
  <2>5. Cardinality(heap) \in Nat /\ largest \in Nat \cup {-1}
    BY <2>1, HeapFinite
  <2> QED
    BY <2>1, <2>3, <2>4, <2>5 DEF Tally
<1> QED
  BY <1>1, AccountInit, AccountStep, PTL DEF Spec

-----------------------------------------------------------------------------
(* The byte counts per second.  _get_rate_stddev counts down from the last *)
(* sample, a second at a time; the samples rise in time and in bytes.      *)
Samples == [time : Nat, bytes : Nat]

Rising(q) ==
    \A i, j \in DOMAIN q : i <= j => q[i].time <= q[j].time /\ q[i].bytes <= q[j].bytes

(* The boundaries passed after the samples in s, from the last to the      *)
(* first of them; the samples of s up to the i-th boundary.                *)
Turns(q, s) == IF s = {} THEN 0 ELSE ((Last(q).time - q[Min(s)].time) \div Second) + 1
UpTo(q, s, i) == {j \in s : q[j].time <= Last(q).time - (i - 1) * Second}

(* Limit and counts then. *)
CumAt(q, s) ==
    [limit |-> Last(q).time - Turns(q, s) * Second,
     cum |-> [i \in 1 .. Turns(q, s) |-> q[Max(UpTo(q, s, i))].bytes]]

CumsAt(q) == [s \in SUBSET (DOMAIN q) |-> CumAt(q, s)]

(* The loop, from limits and counts f after fewer samples. *)
CumFrom(q, f) ==
    [s \in SUBSET (DOMAIN q) |->
        IF s = {} THEN [limit |-> Last(q).time, cum |-> <<>>]
        ELSE CumStep(f[s \ {Min(s)}], q[Min(s)])]

(* Whole seconds in a time: the k-th has passed if k seconds fit.          *)
LEMMA WholeSeconds ==
    ASSUME NEW a \in Nat, NEW k \in Nat
    PROVE  /\ a \div Second \in Nat
           /\ k <= a \div Second <=> k * Second <= a
<1> DEFINE d == a \div Second
<1>1. /\ Second \in Nat \ {0} /\ d \in Nat /\ d * Second \in Nat
      /\ d * Second <= a /\ a < d * Second + Second
  BY SecondAssumption
<1>2. k * Second \in Nat
  BY <1>1
<1> HIDE DEF d
<1>3. ASSUME k <= d PROVE k * Second <= a
  <2>1. k * Second <= d * Second
    BY <1>1, <1>3
  <2> QED
    BY <1>1, <1>2, <2>1
<1>4. ASSUME k > d PROVE k * Second > a
  <2>1. (d + 1) * Second <= k * Second /\ (d + 1) * Second = d * Second + Second
    BY <1>1, <1>4
  <2> QED
    BY <1>1, <1>2, <2>1
<1>5. k <= d <=> k * Second <= a
  BY <1>1, <1>2, <1>3, <1>4
<1> QED
  BY <1>1, <1>5 DEF d

(* n boundaries passed already need not be passed again. *)
LEMMA SecondsAfter ==
    ASSUME NEW a \in Nat, NEW n \in Nat, n * Second <= a
    PROVE  /\ a - n * Second \in Nat
           /\ (a - n * Second) \div Second = (a \div Second) - n
<1> DEFINE b == a - n * Second
           x == a \div Second
           y == b \div Second
<1>1. Second \in Nat \ {0} /\ n * Second \in Nat /\ b \in Nat
  BY SecondAssumption
<1>2. x \in Nat /\ y \in Nat /\ n <= x
  BY <1>1, WholeSeconds
<1>3. y * Second <= b /\ x * Second <= a
  <2> HIDE DEF b
  <2>1. y <= b \div Second => y * Second <= b
    BY <1>1, <1>2, WholeSeconds
  <2>2. x <= a \div Second => x * Second <= a
    BY <1>1, <1>2, WholeSeconds
  <2> QED
    BY <1>2, <2>1, <2>2
<1>4. y + n <= x
  <2>1. (y + n) * Second = y * Second + n * Second
    BY <1>1, <1>2
  <2>2. y * Second \in Nat
    BY <1>1, <1>2
  <2> HIDE DEF x, y
  <2>3. (y + n) * Second <= a
    BY <1>1, <1>3, <2>1, <2>2
  <2>4. y + n \in Nat
    BY <1>2
  <2> QED
    BY <2>3, <2>4, WholeSeconds DEF x
<1>5. x - n <= y
  <2>1. x - n \in Nat
    BY <1>2
  <2>2. (x - n) * Second = x * Second - n * Second
    BY <1>1, <1>2
  <2>3. x * Second \in Nat
    BY <1>1, <1>2
  <2> HIDE DEF x, y
  <2>4. (x - n) * Second <= b
    BY <1>1, <1>3, <2>2, <2>3
  <2> HIDE DEF b
  <2> QED
    BY <1>1, <2>1, <2>4, WholeSeconds DEF y
<1> QED
  BY <1>1, <1>2, <1>4, <1>5

(* Largest and least of a set of positions. *)
LEMMA LargestIs ==
    ASSUME NEW S \in SUBSET Int, NEW m \in S, \A y \in S : m >= y
    PROVE  Max(S) = m
<1>1. Max(S) \in S /\ \A y \in S : Max(S) >= y
  <2>1. \E x \in S : \A y \in S : x >= y
    OBVIOUS
  <2> QED
    BY <2>1, Zenon DEF Max
<1>2. Max(S) >= m /\ m >= Max(S)
  BY <1>1
<1>3. Max(S) \in Int /\ m \in Int
  BY <1>1
<1> QED
  BY <1>2, <1>3

LEMMA LeastIs ==
    ASSUME NEW S \in SUBSET Nat, S # {}
    PROVE  Min(S) \in S /\ \A y \in S : Min(S) <= y
<1>1. \E x \in S : \A y \in S : x <= y
  BY LeastNumber
<1> QED
  BY <1>1, Zenon DEF Min

LEMMA SampleAt ==
    ASSUME NEW q \in Seq(Samples)
    PROVE  /\ DOMAIN q = 1 .. Len(q) /\ Len(q) \in Nat
           /\ \A j \in DOMAIN q : q[j].time \in Nat /\ q[j].bytes \in Nat
           /\ q # <<>> => /\ Len(q) \in DOMAIN q /\ 1 \in DOMAIN q
                          /\ Last(q) = q[Len(q)] /\ Head(q) = q[1]
<1>1. DOMAIN q = 1 .. Len(q) /\ Len(q) \in Nat
  OBVIOUS
<1>2. ASSUME NEW j \in DOMAIN q PROVE q[j] \in Samples
  BY <1>1
<1>3. \A x \in Samples : x.time \in Nat /\ x.bytes \in Nat
  BY DEF Samples
<1>4. q # <<>> => /\ Len(q) \in DOMAIN q /\ 1 \in DOMAIN q
                   /\ Last(q) = q[Len(q)] /\ Head(q) = q[1]
  BY <1>1 DEF Last
<1> QED
  BY <1>1, <1>2, <1>3, <1>4
(* n boundaries passed and those passed next are those the time holds.     *)
LEMMA TurnsAdd ==
    ASSUME NEW a \in Nat, NEW n \in Nat, n <= (a \div Second) + 1
    PROVE  n + (IF n * Second <= a THEN ((a - n * Second) \div Second) + 1 ELSE 0)
              = (a \div Second) + 1
<1>1. a \div Second \in Nat /\ (n <= a \div Second <=> n * Second <= a)
  BY WholeSeconds
<1>2. CASE n * Second <= a
  <2>1. (a - n * Second) \div Second = (a \div Second) - n
    BY <1>2, SecondsAfter
  <2> QED
    BY <1>1, <1>2, <2>1
<1>3. CASE ~(n * Second <= a)
  BY <1>1, <1>3
<1> QED
  BY <1>2, <1>3

(* The next sample, going down, and those after it. *)
LEMMA NextSample ==
    ASSUME NEW q \in Seq(Samples), Rising(q), q # <<>>,
           NEW s \in SUBSET (DOMAIN q), s # {}
    PROVE  /\ Min(s) \in s /\ Min(s) \in DOMAIN q
           /\ \A y \in s \ {Min(s)} : Min(s) < y /\ q[Min(s)].time <= q[y].time
           /\ q[Min(s)].time \in Nat /\ Last(q).time \in Nat
           /\ q[Min(s)].time <= Last(q).time
           /\ Last(q).time - q[Min(s)].time \in Nat
<1>1. /\ DOMAIN q = 1 .. Len(q) /\ Len(q) \in DOMAIN q /\ Last(q) = q[Len(q)]
      /\ \A j \in DOMAIN q : q[j].time \in Nat
  BY SampleAt
<1>2. Min(s) \in s /\ \A y \in s : Min(s) <= y
  <2>1. s \in SUBSET Nat
    BY <1>1
  <2> QED
    BY <2>1, LeastIs
<1>3. \A y \in s : Min(s) <= y /\ y \in DOMAIN q /\ y \in Int /\ Min(s) \in Int
  BY <1>1, <1>2
<1>4. Min(s) \in DOMAIN q /\ Min(s) <= Len(q)
  BY <1>1, <1>2
<1>5. q[Min(s)].time <= q[Len(q)].time
  BY <1>1, <1>4 DEF Rising
<1>6. \A y \in s \ {Min(s)} : Min(s) < y /\ q[Min(s)].time <= q[y].time
  BY <1>3, <1>4 DEF Rising
<1>7. q[Min(s)].time \in Nat /\ q[Len(q)].time \in Nat
  BY <1>1, <1>4
<1> QED
  BY <1>1, <1>2, <1>4, <1>5, <1>6, <1>7

LEMMA TurnsNext ==
    ASSUME NEW q \in Seq(Samples), Rising(q), q # <<>>,
           NEW s \in SUBSET (DOMAIN q), s # {}
    PROVE  LET r == s \ {Min(s)}
               m == Boundaries(Last(q).time - Turns(q, r) * Second, q[Min(s)].time)
           IN  /\ Turns(q, r) \in Nat /\ m \in Nat
               /\ Turns(q, s) = Turns(q, r) + m
<1> DEFINE r == s \ {Min(s)}
           T == Last(q).time
           t == q[Min(s)].time
           n == Turns(q, r)
<1>1. T \in Nat /\ t \in Nat /\ t <= T /\ T - t \in Nat
  BY NextSample
<1>2. n \in Nat /\ n <= ((T - t) \div Second) + 1
  <2>1. CASE r = {}
    <3>1. (T - t) \div Second \in Nat
      BY <1>1, WholeSeconds
    <3>2. n = 0
      BY <2>1 DEF Turns
    <3> QED
      BY <3>1, <3>2
  <2>2. CASE r # {}
    <3> DEFINE u == q[Min(r)].time
               k == (T - u) \div Second
    <3>1. r \in SUBSET (DOMAIN q)
      OBVIOUS
    <3>2. Min(r) \in r /\ u \in Nat /\ T - u \in Nat
      BY <2>2, <3>1, NextSample
    <3>3. t <= u
      BY <3>2, NextSample
    <3>4. k \in Nat /\ k * Second <= T - u
      <4>1. k \in Nat
        BY <3>2, WholeSeconds
      <4>2. k <= k
        BY <4>1
      <4> HIDE DEF u
      <4> QED
        BY <3>2, <4>1, <4>2, WholeSeconds
    <3>5. k * Second <= T - t
      <4>1. k * Second \in Int
        BY <3>4, SecondAssumption
      <4> HIDE DEF k, u, t, T
      <4> QED
        BY <1>1, <3>2, <3>3, <3>4, <4>1
    <3>6. k <= (T - t) \div Second
      <4> HIDE DEF k, t
      <4> QED
        BY <1>1, <3>4, <3>5, WholeSeconds
    <3>7. (T - t) \div Second \in Nat
      BY <1>1, WholeSeconds
    <3>8. n = k + 1
      BY <2>2 DEF Turns
    <3> HIDE DEF k, n
    <3> QED
      BY <3>4, <3>6, <3>7, <3>8
  <2> QED
    BY <2>1, <2>2
<1>3. Turns(q, s) = ((T - t) \div Second) + 1
  BY DEF Turns
<1>4. (T - t) \div Second \in Nat
  BY <1>1, WholeSeconds
<1>5. n + (IF n * Second <= T - t THEN (((T - t) - n * Second) \div Second) + 1 ELSE 0)
         = ((T - t) \div Second) + 1
  <2> HIDE DEF n, t, T
  <2> QED
    BY <1>1, <1>2, TurnsAdd
<1>6. Boundaries(T - n * Second, t)
         = IF n * Second <= T - t THEN (((T - t) - n * Second) \div Second) + 1 ELSE 0
  <2>1. n * Second \in Nat
    BY <1>2, SecondAssumption
  <2> HIDE DEF n, t, T
  <2>2. (t <= T - n * Second <=> n * Second <= T - t)
        /\ (T - n * Second) - t = (T - t) - n * Second
    BY <1>1, <2>1
  <2> QED
    BY <2>2 DEF Boundaries
<1>7. Boundaries(T - n * Second, t) \in Nat
  <2>1. CASE n * Second <= T - t
    <3> HIDE DEF n, t, T
    <3>1. (T - t) - n * Second \in Nat
      BY <1>1, <1>2, <2>1, SecondsAfter
    <3>2. ((T - t) - n * Second) \div Second \in Nat
      BY <3>1, WholeSeconds
    <3> QED
      BY <1>6, <2>1, <3>2
  <2>2. CASE ~(n * Second <= T - t)
    BY <1>6, <2>2
  <2> QED
    BY <2>1, <2>2
<1> QED
  BY <1>2, <1>3, <1>4, <1>5, <1>6, <1>7

(* Greatest element of a set of positions. *)
LEMMA GreatestIs ==
    ASSUME NEW n \in Nat, NEW S \in SUBSET (1 .. n), S # {}
    PROVE  Max(S) \in S /\ \A y \in S : y <= Max(S)
<1>1. \E x \in S : \A y \in S : x >= y
  <2> DEFINE D == {n - y : y \in S}
  <2>1. D \in SUBSET Nat /\ D # {}
    OBVIOUS
  <2>2. PICK d \in D : \A e \in D : d <= e
    <3> HIDE DEF D
    <3> QED
      BY <2>1, LeastNumber
  <2>3. PICK x \in S : d = n - x
    BY <2>2
  <2>4. ASSUME NEW y \in S PROVE x >= y
    <3>1. n - y \in D
      OBVIOUS
    <3>2. n - x <= n - y
      BY <2>2, <2>3, <3>1
    <3> QED
      BY <3>2
  <2> QED
    BY <2>4
<1>2. Max(S) \in S /\ \A y \in S : Max(S) >= y
  BY <1>1, Zenon DEF Max
<1> QED
  BY <1>2

(* Up to the i-th boundary there are samples, the first of them too, if and *)
(* only if so many are passed.                                             *)
LEMMA UpToTurns ==
    ASSUME NEW q \in Seq(Samples), Rising(q), q # <<>>,
           NEW s \in SUBSET (DOMAIN q), NEW i \in Nat \ {0}
    PROVE  /\ Turns(q, s) \in Nat
           /\ i <= Turns(q, s) => s # {} /\ Min(s) \in UpTo(q, s, i)
           /\ i > Turns(q, s) => UpTo(q, s, i) = {}
<1>1. CASE s = {}
  <2>1. Turns(q, s) = 0 /\ UpTo(q, s, i) = {}
    BY <1>1 DEF Turns, UpTo
  <2> QED
    BY <2>1
<1>2. CASE s # {}
  <2> DEFINE T == Last(q).time
             t == q[Min(s)].time
             k == (T - t) \div Second
  <2>1. /\ Min(s) \in s /\ t \in Nat /\ T \in Nat /\ T - t \in Nat
        /\ \A y \in s : t <= q[y].time
    BY <1>2, NextSample
  <2>2. k \in Nat /\ (i - 1 <= k <=> (i - 1) * Second <= T - t)
    <3>1. i - 1 \in Nat
      OBVIOUS
    <3> HIDE DEF T, t
    <3> QED
      BY <2>1, <3>1, WholeSeconds
  <2>3. (i - 1) * Second \in Int
    BY SecondAssumption
  <2>4. Turns(q, s) = k + 1
    BY <1>2 DEF Turns
  <2>5. ASSUME i <= Turns(q, s) PROVE Min(s) \in UpTo(q, s, i)
    <3>1. (i - 1) * Second <= T - t
      <4> HIDE DEF k, T, t
      <4> QED
        BY <2>2, <2>4, <2>5
    <3>2. t <= T - (i - 1) * Second
      <4> HIDE DEF T, t
      <4> QED
        BY <2>1, <2>3, <3>1
    <3> QED
      BY <2>1, <3>2 DEF UpTo
  <2>6. ASSUME i > Turns(q, s), NEW y \in UpTo(q, s, i) PROVE FALSE
    <3>1. ~((i - 1) * Second <= T - t)
      <4> HIDE DEF k, T, t
      <4> QED
        BY <2>2, <2>4, <2>6
    <3>2. t <= q[y].time /\ q[y].time <= T - (i - 1) * Second
      BY <2>1, <2>6 DEF UpTo
    <3>3. q[y].time \in Nat
      BY <2>6, SampleAt DEF UpTo
    <3> HIDE DEF T, t
    <3> QED
      BY <2>1, <2>3, <3>1, <3>2, <3>3
  <2> HIDE DEF k
  <2> QED
    BY <1>2, <2>2, <2>4, <2>5, <2>6
<1> QED
  BY <1>1, <1>2

(* The counts grow by those of the boundaries down to the next sample.     *)
LEMMA CumGrows ==
    ASSUME NEW q \in Seq(Samples), Rising(q), q # <<>>,
           NEW s \in SUBSET (DOMAIN q), s # {}
    PROVE  CumStep(CumAt(q, s \ {Min(s)}), q[Min(s)]) = CumAt(q, s)
<1> DEFINE x == Min(s)
           r == s \ {x}
           T == Last(q).time
           t == q[x].time
           n == Turns(q, r)
           m == Boundaries(T - n * Second, t)
           f == [i \in 1 .. n |-> q[Max(UpTo(q, r, i))].bytes]
           g == [i \in 1 .. m |-> q[x].bytes]
           h == [i \in 1 .. n + m |-> q[Max(UpTo(q, s, i))].bytes]
<1>1. /\ x \in s /\ x \in DOMAIN q /\ r \in SUBSET (DOMAIN q)
      /\ \A y \in r : x < y
      /\ t \in Nat /\ T \in Nat
  BY NextSample
<1>2. n \in Nat /\ m \in Nat /\ Turns(q, s) = n + m
  BY TurnsNext
<1>3. Second \in Nat \ {0} /\ n * Second \in Nat /\ m * Second \in Nat
      /\ (n + m) * Second = n * Second + m * Second
  <2> HIDE DEF n, m
  <2> QED
    BY <1>2, SecondAssumption
<1>4. ASSUME NEW i \in 1 .. n PROVE Max(UpTo(q, s, i)) = Max(UpTo(q, r, i))
  <2>1. i \in Nat \ {0} /\ i <= n
    BY <1>2
  <2>2. Min(r) \in UpTo(q, r, i)
    BY <1>1, <2>1, UpToTurns
  <2>3. /\ DOMAIN q = 1 .. Len(q) /\ Len(q) \in Nat
    BY SampleAt
  <2>4. UpTo(q, r, i) \in SUBSET (1 .. Len(q)) /\ UpTo(q, s, i) \in SUBSET Int
    BY <2>3 DEF UpTo
  <2>5. Max(UpTo(q, r, i)) \in UpTo(q, r, i)
        /\ \A y \in UpTo(q, r, i) : y <= Max(UpTo(q, r, i))
    BY <2>2, <2>3, <2>4, GreatestIs
  <2>6. /\ UpTo(q, r, i) \subseteq UpTo(q, s, i) /\ UpTo(q, r, i) \subseteq r
        /\ \A y \in UpTo(q, s, i) : y \in UpTo(q, r, i) \/ y = x
    BY DEF UpTo
  <2> DEFINE M == Max(UpTo(q, r, i))
  <2>7. M \in UpTo(q, s, i) /\ M \in Int /\ x < M
    BY <1>1, <2>4, <2>5, <2>6
  <2>8. x \in Int
    BY <1>1, <2>3
  <2>9. \A y \in UpTo(q, s, i) : y <= M
    <3>1. ASSUME NEW y \in UpTo(q, s, i) PROVE y <= M
      <4>1. CASE y \in UpTo(q, r, i)
        BY <2>5, <4>1
      <4>2. CASE y = x
        <5> HIDE DEF M, x
        <5> QED
          BY <2>7, <2>8, <4>2
      <4> QED
        BY <2>6, <3>1, <4>1, <4>2
    <3> QED
      BY <3>1
  <2>10. \A y \in UpTo(q, s, i) : M >= y
    <3> HIDE DEF M
    <3> QED
      BY <2>4, <2>7, <2>9
  <2> HIDE DEF M
  <2>11. Max(UpTo(q, s, i)) = M
    BY <2>4, <2>7, <2>10, LargestIs
  <2> QED
    BY <2>11 DEF M
<1>5. ASSUME NEW i \in (n + 1) .. (n + m) PROVE Max(UpTo(q, s, i)) = x
  <2>1. i \in Nat \ {0} /\ i > n /\ i <= n + m
    <3> HIDE DEF n, m
    <3> QED
      BY <1>2
  <2>2. x \in UpTo(q, s, i)
    <3> HIDE DEF n, m
    <3> QED
      BY <1>2, <2>1, UpToTurns
  <2>3. UpTo(q, r, i) = {}
    BY <1>1, <2>1, UpToTurns
  <2>4. \A y \in UpTo(q, s, i) : y = x
    BY <2>3 DEF UpTo
  <2>5. x \in Int
    BY <1>1, SampleAt
  <2> HIDE DEF x
  <2>6. UpTo(q, s, i) \in SUBSET Int /\ \A y \in UpTo(q, s, i) : x >= y
    BY <2>4, <2>5
  <2> QED
    BY <2>2, <2>6, LargestIs
<1>6. f \o g = h
  <2> HIDE DEF n, m
  <2>1. Len(f) = n /\ Len(g) = m
    BY <1>2
  <2>2. DOMAIN (f \o g) = 1 .. n + m
    BY <1>2, <2>1
  <2>3. ASSUME NEW i \in 1 .. n + m PROVE (f \o g)[i] = h[i]
    <3>1. (f \o g)[i] = IF i <= n THEN f[i] ELSE g[i - n]
      BY <1>2, <2>1
    <3>2. CASE i <= n
      <4>1. i \in 1 .. n
        BY <1>2, <3>2
      <4>2. Max(UpTo(q, s, i)) = Max(UpTo(q, r, i))
        BY <1>4, <4>1
      <4> HIDE DEF r
      <4> QED
        BY <3>1, <3>2, <4>1, <4>2
    <3>3. CASE ~(i <= n)
      <4>1. i \in (n + 1) .. (n + m) /\ i - n \in 1 .. m
        BY <1>2, <3>3
      <4>2. Max(UpTo(q, s, i)) = x
        BY <1>5, <4>1
      <4> HIDE DEF x
      <4>3. g[i - n] = q[x].bytes
        BY <4>1
      <4> QED
        BY <3>1, <3>3, <4>2, <4>3
    <3> QED
      BY <3>2, <3>3
  <2>4. DOMAIN h = 1 .. n + m
    OBVIOUS
  <2>5. f \o g = [i \in 1 .. n + m |-> (f \o g)[i]]
    <3>1. f \o g = [i \in 1 .. Len(f) + Len(g) |-> IF i <= Len(f) THEN f[i] ELSE g[i - Len(f)]]
      BY <1>2, <2>1
    <3> HIDE DEF f, g
    <3> QED
      BY <2>1, <3>1
  <2> HIDE DEF f, g
  <2> QED
    BY <2>3, <2>5, Zenon
<1>7. T - n * Second - m * Second = T - Turns(q, s) * Second
  <2> HIDE DEF n, m, T
  <2> QED
    BY <1>1, <1>2, <1>3
<1>8. CumStep(CumAt(q, r), q[x]) = [limit |-> T - n * Second - m * Second, cum |-> f \o g]
  <2> DEFINE acc == CumAt(q, r)
  <2>1. acc.limit = T - n * Second /\ acc.cum = f
    BY DEF CumAt
  <2>2. CumStep(acc, q[x]) = [limit |-> acc.limit - Boundaries(acc.limit, t) * Second,
                              cum |-> acc.cum \o [i \in 1 .. Boundaries(acc.limit, t) |-> q[x].bytes]]
    BY DEF CumStep
  <2> HIDE DEF acc, f, x, T, n
  <2>3. m = Boundaries(acc.limit, t)
    BY <2>1
  <2>4. CumStep(acc, q[x]) = [limit |-> acc.limit - m * Second, cum |-> acc.cum \o g]
    BY <2>2, <2>3
  <2> HIDE DEF m, g
  <2> QED
    BY <2>1, <2>4 DEF acc
<1>9. CumAt(q, s) = [limit |-> T - Turns(q, s) * Second, cum |-> h]
  BY <1>2 DEF CumAt
<1>10. CumStep(CumAt(q, r), q[x]) = CumAt(q, s)
  <2> HIDE DEF f, g, h, T, n, m, r, x
  <2> QED
    BY <1>6, <1>7, <1>8, <1>9
<1> QED
  BY <1>10

(* These limits and counts satisfy the equation of the loop ... *)
LEMMA CumsAreCum ==
    ASSUME NEW q \in Seq(Samples), Rising(q), q # <<>>
    PROVE  CumsAt(q) = CumFrom(q, CumsAt(q))
<1>1. ASSUME NEW s \in SUBSET (DOMAIN q)
      PROVE  CumAt(q, s) = CumFrom(q, CumsAt(q))[s]
  <2>1. CASE s = {}
    <3>1. Turns(q, s) = 0
      BY <2>1 DEF Turns
    <3>2. Last(q).time \in Nat /\ 0 * Second = 0
      BY SampleAt, SecondAssumption
    <3>3. CumAt(q, s) = [limit |-> Last(q).time, cum |-> <<>>]
      BY <3>1, <3>2 DEF CumAt
    <3> QED
      BY <2>1, <3>3 DEF CumFrom
  <2>2. CASE s # {}
    <3>1. s \ {Min(s)} \in SUBSET (DOMAIN q)
      OBVIOUS
    <3>2. CumFrom(q, CumsAt(q))[s] = CumStep(CumAt(q, s \ {Min(s)}), q[Min(s)])
      BY <2>2, <3>1, Zenon DEF CumFrom, CumsAt
    <3> QED
      BY <2>2, <3>2, CumGrows
  <2> QED
    BY <2>1, <2>2
<1>2. CumFrom(q, CumsAt(q)) = [s \in SUBSET (DOMAIN q) |-> CumFrom(q, CumsAt(q))[s]]
  BY Zenon DEF CumFrom
<1> QED
  BY <1>1, <1>2, Zenon DEF CumsAt

(* ... and only one function does. *)
LEMMA CumUnique ==
    ASSUME NEW q \in Seq(Samples), NEW f, NEW g, f = CumFrom(q, f), g = CumFrom(q, g)
    PROVE  f[DOMAIN q] = g[DOMAIN q]
<1> DEFINE Bad == {k \in Nat : \E s \in SUBSET (DOMAIN q) :
                                  IsFiniteSet(s) /\ Cardinality(s) = k /\ f[s] # g[s]}
<1>1. ASSUME NEW k \in Bad, \A j \in Bad : k <= j PROVE FALSE
  <2>1. PICK s \in SUBSET (DOMAIN q) : IsFiniteSet(s) /\ Cardinality(s) = k /\ f[s] # g[s]
    OBVIOUS
  <2> DEFINE x == Min(s)
             r == s \ {x}
  <2>2. \A e : e = CumFrom(q, e) =>
               e[s] = IF s = {} THEN [limit |-> Last(q).time, cum |-> <<>>]
                      ELSE CumStep(e[r], q[x])
    BY Zenon DEF CumFrom
  <2>3. s # {}
    BY <2>1, <2>2
  <2>4. x \in s
    <3>1. s \in SUBSET Nat
      BY SampleAt
    <3> QED
      BY <2>3, <3>1, LeastIs
  <2>5. f[r] # g[r]
    <3> HIDE DEF x, r
    <3> QED
      BY <2>1, <2>2, <2>3
  <2> HIDE DEF x
  <2>6. IsFiniteSet(r) /\ Cardinality(r) = Cardinality(s) - 1
    BY <2>1, <2>4, FS_RemoveElement
  <2>7. Cardinality(r) \in Nat /\ Cardinality(r) < k
    BY <2>1, <2>6, FS_CardinalityType
  <2>8. r \in SUBSET (DOMAIN q)
    OBVIOUS
  <2>9. Cardinality(r) \in Bad
    BY <2>5, <2>6, <2>7, <2>8
  <2>10. k \in Nat /\ k <= Cardinality(r)
    BY <1>1, <2>9
  <2> HIDE DEF Bad, r
  <2> QED
    BY <2>7, <2>10
<1>2. Bad = {}
  <2> HIDE DEF Bad
  <2>1. Bad \subseteq Nat
    BY DEF Bad
  <2> QED
    BY <1>1, <2>1, LeastNumber
<1>3. IsFiniteSet(DOMAIN q) /\ Cardinality(DOMAIN q) \in Nat
  <2>1. DOMAIN q = 1 .. Len(q) /\ Len(q) \in Nat
    OBVIOUS
  <2>2. IsFiniteSet(1 .. Len(q))
    BY <2>1, FS_Interval
  <2> QED
    BY <2>1, <2>2, FS_CardinalityType
<1>4. DOMAIN q \in SUBSET (DOMAIN q)
  OBVIOUS
<1> QED
  BY <1>2, <1>3, <1>4

(* What the loop of _get_rate_stddev leaves. *)
LEMMA CumCountsAre ==
    ASSUME NEW q \in Seq(Samples), Rising(q), q # <<>>
    PROVE  CumCounts(q) = CumAt(q, DOMAIN q).cum
<1> DEFINE loop == CHOOSE iter : iter = CumFrom(q, iter)
<1>1. CumCounts(q) = loop[DOMAIN q].cum
  BY Zenon DEF CumCounts, FoldRight, MapThenFoldSet, CumFrom
<1>2. CumsAt(q) = CumFrom(q, CumsAt(q))
  BY CumsAreCum
<1>3. loop = CumFrom(q, loop)
  BY <1>2, Zenon
<1>4. loop[DOMAIN q] = CumsAt(q)[DOMAIN q]
  <2> HIDE DEF loop
  <2> QED
    BY <1>2, <1>3, CumUnique
<1>5. CumsAt(q)[DOMAIN q] = CumAt(q, DOMAIN q)
  BY DEF CumsAt
<1> QED
  BY <1>1, <1>4, <1>5

(* BytesBy for samples q. *)
BytesIn(q, t) == Max({0} \cup {p.bytes : p \in {r \in ToSet(q) : r.time <= t}})

(* The bytes of the last sample up to a boundary passed are the most bytes  *)
(* counted by then.                                                        *)
LEMMA BytesAtBoundary ==
    ASSUME NEW q \in Seq(Samples), Rising(q), q # <<>>,
           NEW i \in 1 .. Turns(q, DOMAIN q)
    PROVE  /\ q[Max(UpTo(q, DOMAIN q, i))].bytes \in Nat
           /\ BytesIn(q, Last(q).time - (i - 1) * Second) = q[Max(UpTo(q, DOMAIN q, i))].bytes
<1> DEFINE U == UpTo(q, DOMAIN q, i)
           j == Max(U)
           B == {0} \cup {p.bytes : p \in {r \in ToSet(q) : r.time <= Last(q).time - (i - 1) * Second}}
<1>1. /\ DOMAIN q = 1 .. Len(q) /\ Len(q) \in Nat
      /\ \A k \in DOMAIN q : q[k].bytes \in Nat
  BY SampleAt
<1>2. U # {}
  <2>1. Turns(q, DOMAIN q) \in Nat
    BY UpToTurns
  <2>2. i \in Nat \ {0} /\ i <= Turns(q, DOMAIN q)
    BY <2>1
  <2> QED
    BY <2>2, UpToTurns
<1>3. j \in U /\ \A k \in U : k <= j
  <2>1. U \in SUBSET (1 .. Len(q))
    BY <1>1 DEF UpTo
  <2> HIDE DEF U
  <2> QED
    BY <1>1, <1>2, <2>1, GreatestIs
<1>4. j \in DOMAIN q /\ q[j].time <= Last(q).time - (i - 1) * Second
  BY <1>3 DEF UpTo
<1>5. q[j].bytes \in B
  <2>1. q[j] \in ToSet(q)
    BY <1>4 DEF ToSet
  <2> HIDE DEF j, U
  <2> QED
    BY <1>4, <2>1
<1>6. ASSUME NEW b \in B PROVE b \in Nat /\ q[j].bytes >= b
  <2>1. q[j].bytes \in Nat
    BY <1>1, <1>4
  <2>2. CASE b = 0
    <3> HIDE DEF j
    <3> QED
      BY <2>1, <2>2
  <2>3. CASE b # 0
    <3>1. PICK p \in ToSet(q) : b = p.bytes /\ p.time <= Last(q).time - (i - 1) * Second
      BY <1>6, <2>3
    <3>2. PICK k \in DOMAIN q : p = q[k]
      BY <3>1 DEF ToSet
    <3>3. k \in U
      BY <3>1, <3>2 DEF UpTo
    <3>4. k <= j
      BY <1>3, <3>3
    <3>5. q[k].bytes <= q[j].bytes
      BY <1>4, <3>4 DEF Rising
    <3>6. q[k].bytes \in Nat
      BY <1>1
    <3> HIDE DEF j, U
    <3> QED
      BY <2>1, <3>1, <3>2, <3>5, <3>6
  <2> QED
    BY <2>2, <2>3
<1>7. Max(B) = q[j].bytes
  <2> HIDE DEF B, j, U
  <2>1. B \in SUBSET Int /\ \A b \in B : q[j].bytes >= b
    BY <1>6
  <2> QED
    BY <1>5, <2>1, LargestIs
<1>8. q[j].bytes \in Nat
  BY <1>1, <1>4
<1> QED
  BY <1>7, <1>8 DEF BytesIn

(* The first and the last sample are the earliest and the latest. *)
LEMMA SpanIs ==
    ASSUME NEW q \in Seq(Samples), Rising(q), q # <<>>
    PROVE  LET times == {p.time : p \in ToSet(q)}
           IN  Max(times) = Last(q).time /\ Min(times) = Head(q).time
<1> DEFINE times == {p.time : p \in ToSet(q)}
           a == q[1].time
           z == q[Len(q)].time
<1>1. /\ DOMAIN q = 1 .. Len(q) /\ Len(q) \in DOMAIN q /\ 1 \in DOMAIN q
      /\ Last(q) = q[Len(q)] /\ Head(q) = q[1]
      /\ \A k \in DOMAIN q : q[k].time \in Nat
  BY SampleAt
<1>2. ASSUME NEW y \in times PROVE y \in Nat /\ z >= y /\ a <= y
  <2>1. PICK k \in DOMAIN q : y = q[k].time
    BY DEF ToSet
  <2>2. 1 <= k /\ k <= Len(q)
    BY <1>1
  <2>3. a <= q[k].time /\ q[k].time <= z
    BY <1>1, <2>2 DEF Rising
  <2>4. q[k].time \in Nat /\ z \in Nat
    BY <1>1
  <2> HIDE DEF a, z
  <2> QED
    BY <2>1, <2>3, <2>4
<1>3. a \in times /\ z \in times
  <2>1. q[1] \in ToSet(q) /\ q[Len(q)] \in ToSet(q)
    BY <1>1 DEF ToSet
  <2> QED
    BY <2>1
<1>4. Max(times) = z
  <2> HIDE DEF times, z, a
  <2>1. times \in SUBSET Int
    BY <1>2
  <2> QED
    BY <1>2, <1>3, <2>1, LargestIs
<1>5. Min(times) = a
  <2> HIDE DEF times, z, a
  <2>1. times \in SUBSET Nat /\ times # {}
    BY <1>2, <1>3
  <2>2. Min(times) \in times /\ \A y \in times : Min(times) <= y
    BY <2>1, LeastIs
  <2>3. Min(times) <= a /\ a <= Min(times) /\ a \in Int /\ Min(times) \in Int
    BY <1>2, <1>3, <2>2
  <2> QED
    BY <2>3
<1> QED
  BY <1>1, <1>4, <1>5

(* The row of the samples. *)
LEMMA RowCounts ==
    ASSUME NEW q \in Seq(Samples), Rising(q),
           NEW row, row = RxRow(q), row.perSecond # <<>>
    PROVE  LET end == Last(q).time
           IN  /\ Len(row.perSecond) = (end - Head(q).time) \div Second
               /\ Len(row.perSecond) >= 2
               /\ \A i \in DOMAIN row.perSecond :
                      row.perSecond[i] = BytesIn(q, end - (i - 1) * Second)
                                            - BytesIn(q, end - i * Second)
<1> DEFINE end == Last(q).time
           a == Head(q).time
           n == Turns(q, DOMAIN q)
           c(i) == q[Max(UpTo(q, DOMAIN q, i))].bytes
           times == {p.time : p \in ToSet(q)}
<1>1. q # <<>> /\ Max(times) - Min(times) > 2 * Second /\ row.perSecond = ByteCounts(q)
  <2>1. q # <<>>
    BY DEF RxRow
  <2>2. row.perSecond = IF Max(times) - Min(times) > 2 * Second THEN ByteCounts(q) ELSE <<>>
    BY <2>1 DEF RxRow
  <2> QED
    BY <2>1, <2>2
<1>2. Max(times) = end /\ Min(times) = a
  BY <1>1, SpanIs
<1>3. /\ DOMAIN q = 1 .. Len(q) /\ 1 \in DOMAIN q /\ Head(q) = q[1]
  BY <1>1, SampleAt
<1>4. Min(DOMAIN q) = 1
  <2>1. DOMAIN q \in SUBSET Nat /\ DOMAIN q # {}
    BY <1>3
  <2>2. Min(DOMAIN q) \in DOMAIN q /\ Min(DOMAIN q) <= 1
    BY <1>3, <2>1, LeastIs
  <2> QED
    BY <1>3, <2>2
<1>5. end - a \in Nat
  <2>1. DOMAIN q # {} /\ DOMAIN q \in SUBSET (DOMAIN q)
    BY <1>3
  <2> QED
    BY <1>1, <1>3, <1>4, <2>1, NextSample
<1>6. n = ((end - a) \div Second) + 1
  BY <1>3, <1>4 DEF Turns
<1>7. (end - a) \div Second \in Nat /\ (end - a) \div Second >= 2
  <2> HIDE DEF end, a
  <2>1. 2 * Second <= end - a
    BY <1>1, <1>2, <1>5, SecondAssumption
  <2> QED
    BY <1>5, <2>1, WholeSeconds
<1>8. CumCounts(q) = [i \in 1 .. n |-> c(i)]
  BY <1>1, CumCountsAre DEF CumAt
<1>9. n \in Nat /\ Len(CumCounts(q)) = n
  <2>1. n \in Nat
    <3> HIDE DEF end, a, n
    <3> QED
      BY <1>6, <1>7
  <2> HIDE DEF n, c
  <2> QED
    BY <1>8, <2>1
<1>10. row.perSecond = [i \in 1 .. n - 1 |-> c(i) - c(i + 1)]
  <2>1. row.perSecond = [i \in 1 .. n - 1 |-> CumCounts(q)[i] - CumCounts(q)[i + 1]]
    BY <1>1, <1>9 DEF ByteCounts
  <2>2. ASSUME NEW i \in 1 .. n - 1
        PROVE  CumCounts(q)[i] = c(i) /\ CumCounts(q)[i + 1] = c(i + 1)
    <3>1. i \in 1 .. n /\ i + 1 \in 1 .. n
      <4> HIDE DEF n
      <4> QED
        BY <1>9
    <3> HIDE DEF n, c
    <3> QED
      BY <1>8, <3>1
  <2> HIDE DEF n, c
  <2> QED
    BY <2>1, <2>2
<1>11. /\ DOMAIN row.perSecond = 1 .. n - 1
       /\ Len(row.perSecond) = (end - a) \div Second
  <2>1. n - 1 = (end - a) \div Second
    <3> HIDE DEF n, end, a
    <3> QED
      BY <1>6, <1>7
  <2>2. n - 1 \in Nat
    BY <1>7, <2>1
  <2> HIDE DEF n, c, end, a
  <2> QED
    BY <1>10, <2>1, <2>2
<1>12. ASSUME NEW i \in 1 .. n - 1
       PROVE  row.perSecond[i] = BytesIn(q, end - (i - 1) * Second)
                                    - BytesIn(q, end - i * Second)
  <2>1. i \in 1 .. n /\ i + 1 \in 1 .. n /\ (i + 1) - 1 = i
    <3> HIDE DEF n
    <3> QED
      BY <1>9
  <2>2. BytesIn(q, end - (i - 1) * Second) = c(i)
    BY <1>1, <2>1, BytesAtBoundary
  <2>3. BytesIn(q, end - ((i + 1) - 1) * Second) = c(i + 1)
    BY <1>1, <2>1, BytesAtBoundary
  <2>4. row.perSecond[i] = c(i) - c(i + 1)
    <3> HIDE DEF c, n
    <3> QED
      BY <1>10
  <2> HIDE DEF c, n, end
  <2> QED
    BY <2>1, <2>2, <2>3, <2>4
<1> QED
  BY <1>7, <1>11, <1>12

-----------------------------------------------------------------------------
(* The lines of trace-app-rx-N.txt rise in time and in bytes up to now, and *)
(* a row is that of the file as it was read.                               *)
RxGrows ==
    /\ Rising(rxLog)
    /\ \A j \in DOMAIN rxLog : rxLog[j].time <= now /\ rxLog[j].bytes <= rxByteCount

SecondsInv ==
    /\ DbInv
    /\ RxGrows
    /\ \A row \in rx : row = RxRow(rxFile)
    /\ outcome = "whole" => rxFile \in Seq(Samples) /\ Rising(rxFile)

LEMMA SecondsInit == Init => SecondsInv
<1> SUFFICES ASSUME Init PROVE SecondsInv
  OBVIOUS
<1>1. rxLog = <<>> /\ rx = {} /\ outcome = "none"
  BY DEF Init, CbInit, NoRow
<1> QED
  BY <1>1, DbInit DEF SecondsInv, RxGrows, Rising

(* A packet's line is the last and the largest. *)
LEMMA LineGrows ==
    ASSUME LossInv, RxGrows, NEW p, Rx(p)
    PROVE  RxGrows'
<1> DEFINE l == [time |-> now + p.gap, bytes |-> rxByteCount + p.size]
           k == Len(rxLog) + 1
<1>1. /\ rxLog \in Seq(Samples) /\ now \in Nat /\ rxByteCount \in Nat
      /\ p.gap \in Nat /\ p.size \in Nat
  BY RxKeeps DEF LossInv, CbTypeOK, Samples, Packets
<1>2. /\ rxLog' = Append(rxLog, l) /\ now' = now + p.gap /\ rxByteCount' = rxByteCount + p.size
  BY DEF Rx, LogByteCounts
<1>3. /\ DOMAIN rxLog = 1 .. Len(rxLog) /\ Len(rxLog) \in Nat
      /\ \A j \in DOMAIN rxLog : rxLog[j].time \in Nat /\ rxLog[j].bytes \in Nat
  BY <1>1, SampleAt
<1>4. /\ DOMAIN rxLog' = 1 .. k /\ rxLog'[k] = l
      /\ \A j \in DOMAIN rxLog : rxLog'[j] = rxLog[j]
  <2> HIDE DEF l
  <2> QED
    BY <1>1, <1>2
<1>5. /\ l.time = now' /\ l.bytes = rxByteCount' /\ now' \in Nat /\ rxByteCount' \in Nat
      /\ now <= now' /\ rxByteCount <= rxByteCount'
  BY <1>1, <1>2
<1> HIDE DEF l
<1>6. ASSUME NEW j \in 1 .. k
      PROVE  j = k \/ j \in DOMAIN rxLog
  BY <1>3
<1>7. ASSUME NEW j \in DOMAIN rxLog'
      PROVE  /\ rxLog'[j].time \in Nat /\ rxLog'[j].bytes \in Nat
             /\ rxLog'[j].time <= now' /\ rxLog'[j].bytes <= rxByteCount'
  <2>1. CASE j = k
    BY <1>4, <1>5, <2>1
  <2>2. CASE j \in DOMAIN rxLog
    <3>1. rxLog[j].time <= now /\ rxLog[j].bytes <= rxByteCount
      BY <2>2 DEF RxGrows
    <3> QED
      BY <1>1, <1>3, <1>4, <1>5, <2>2, <3>1
  <2> QED
    BY <1>4, <1>6, <2>1, <2>2
<1>8. ASSUME NEW i \in DOMAIN rxLog', NEW j \in DOMAIN rxLog', i <= j
      PROVE  rxLog'[i].time <= rxLog'[j].time /\ rxLog'[i].bytes <= rxLog'[j].bytes
  <2>1. CASE j = k
    BY <1>4, <1>5, <1>7, <2>1
  <2>2. CASE j \in DOMAIN rxLog
    <3>1. i \in DOMAIN rxLog
      BY <1>3, <1>4, <1>8, <2>2
    <3> QED
      BY <1>4, <1>8, <2>2, <3>1 DEF RxGrows, Rising
  <2> QED
    BY <1>4, <1>6, <2>1, <2>2
<1> QED
  BY <1>7, <1>8 DEF RxGrows, Rising

(* What the script reads of a log that rises does too. *)
LEMMA PrefixRises ==
    ASSUME NEW q \in Seq(Samples), Rising(q), NEW n \in 0 .. Len(q)
    PROVE  SubSeq(q, 1, n) \in Seq(Samples) /\ Rising(SubSeq(q, 1, n))
<1> DEFINE r == SubSeq(q, 1, n)
<1>1. /\ r \in Seq(Samples) /\ DOMAIN r = 1 .. n /\ DOMAIN q = 1 .. Len(q)
      /\ \A i \in 1 .. n : r[i] = q[i]
  OBVIOUS
<1>2. \A i \in 1 .. n : i \in DOMAIN q
  BY <1>1
<1> HIDE DEF r
<1>3. Rising(r)
  BY <1>1, <1>2 DEF Rising
<1> QED
  BY <1>1, <1>3 DEF r

LEMMA SecondsStep == SecondsInv /\ [Next]_vars => SecondsInv'
<1> SUFFICES ASSUME SecondsInv, [Next]_vars PROVE SecondsInv'
  OBVIOUS
<1>1. DbInv /\ LossInv /\ DbInv'
  BY DbStep DEF SecondsInv, DbInv
<1>2. RxGrows'
  <2>1. CASE UNCHANGED cbVars \/ Destroy
    BY <2>1 DEF cbVars, rxVars, Destroy, RxGrows, Rising, SecondsInv
  <2>2. ASSUME NEW p, Rx(p) PROVE RxGrows'
    BY <1>1, <2>2, LineGrows DEF SecondsInv
  <2>3. CbNext \/ UNCHANGED cbVars
    BY ObjectStep
  <2> QED
    BY <2>1, <2>2, <2>3 DEF CbNext, RxFill, RxSlide, RxNoHeader
<1>3. /\ \A row \in rx' : row = RxRow(rxFile')
      /\ outcome' = "whole" => rxFile' \in Seq(Samples) /\ Rising(rxFile')
  <2>1. CASE UNCHANGED <<rx, rxFile, outcome>>
    BY <2>1 DEF SecondsInv
  <2>2. CASE CreateRaises
    <3>1. rx = {} /\ UNCHANGED <<rx, rxFile>> /\ outcome' = "raised"
      BY <1>1, <2>2 DEF CreateRaises, DbInv, NotYet, NoRow
    <3> QED
      BY <3>1
  <2>3. ASSUME NEW m \in 0 .. Len(plLog), NEW n \in 0 .. Len(rxLog),
               CreateResultsDb(m, n)
        PROVE  /\ rx' = {RxRow(rxFile')}
               /\ rxFile' \in Seq(Samples) /\ Rising(rxFile')
    <3>1. rxFile' = SubSeq(rxLog, 1, n) /\ rx' = {RxRow(SubSeq(rxLog, 1, n))}
      BY <2>3 DEF CreateResultsDb, Create
    <3>2. rxLog \in Seq(Samples) /\ Rising(rxLog)
      BY <1>1 DEF LossInv, CbTypeOK, Samples, SecondsInv, RxGrows
    <3> QED
      BY <3>1, <3>2, PrefixRises
  <2>4. ASSUME NEW m, NEW n, CreateResultsDbTorn(m, n)
        PROVE  rx' = {RxRow(rxFile')} /\ outcome' = "torn"
    BY <2>4 DEF CreateResultsDbTorn, Create
  <2>5. CASE Simulate \/ Die \/ UNCHANGED vars
    BY <2>1, <2>5 DEF Simulate, Die, vars, dbVars
  <2> QED
    BY <2>2, <2>3, <2>4, <2>5 DEF Next
<1> QED
  BY <1>1, <1>2, <1>3 DEF SecondsInv

(* The bytes per second of createresultsdb (_get_rate_stddev) are those of  *)
(* whole seconds, at least two, counted back from the last packet without a *)
(* gap or an overlap, for every traffic and every unit of time.            *)
THEOREM SecondsCountedCorrect == Spec => []SecondsCounted
<1>1. SecondsInv => SecondsCounted
  <2> SUFFICES ASSUME SecondsInv, NEW row \in rx, outcome = "whole", row.perSecond # <<>>
               PROVE  LET end == Last(rxFile).time
                      IN  /\ Len(row.perSecond) = (end - Head(rxFile).time) \div Second
                          /\ Len(row.perSecond) >= 2
                          /\ \A i \in DOMAIN row.perSecond :
                                 row.perSecond[i] = BytesBy(end - (i - 1) * Second)
                                                       - BytesBy(end - i * Second)
    BY DEF SecondsCounted
  <2>1. row = RxRow(rxFile) /\ rxFile \in Seq(Samples) /\ Rising(rxFile)
    BY DEF SecondsInv
  <2>2. \A t : BytesBy(t) = BytesIn(rxFile, t)
    BY DEF BytesBy, BytesIn
  <2> QED
    BY <2>1, <2>2, RowCounts
<1> QED
  BY <1>1, SecondsInit, SecondsStep, PTL DEF Spec
=============================================================================
