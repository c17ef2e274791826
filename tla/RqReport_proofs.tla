-------------------------- MODULE RqReport_proofs ---------------------------
(***************************************************************************)
(* Proofs about RqReport: the decoding report is exact and complete, for   *)
(* every K, N and number of streams, on a link that loses and reorders     *)
(* packets but does not duplicate them.                                    *)
(*                                                                         *)
(* The record in the cache is looked at as the last line of the report, as *)
(* it will be when it is flushed: a trace call then appends a line, or     *)
(* replaces the last one if it is of the same block.                       *)
(***************************************************************************)
EXTENDS RqReport, RqPipeline_proofs

Line == [sbid : Int, success : BOOLEAN, nrcv : Nat, nsrcrcv : Nat]

Lines(c) == Flush(c).report

(* Only a fresh callback object has nothing in its cache. *)
CacheOK(c) ==
    /\ c.report \in Seq(Line)
    /\ \/ c.cached = {} /\ c.report = <<>>
       \/ \E l \in Line : c.cached = {l}

(* One line for each of the blocks bs, in the order of the blocks.         *)
InOrderOf(ls, bs) ==
    /\ ls \in Seq(Line)
    /\ \A i \in 1 .. Len(ls) : ls[i].sbid \in bs
    /\ \A b \in bs : \E i \in 1 .. Len(ls) : ls[i].sbid = b
    /\ \A i, j \in 1 .. Len(ls) : i < j => ls[i].sbid < ls[j].sbid

Sources(ns, b) == {n \in InBlock(ns, b) : n % N < K}

Exact(l, ns) ==
    /\ l.nrcv = Cardinality(InBlock(ns, l.sbid))
    /\ l.nsrcrcv = Cardinality(Sources(ns, l.sbid))
    /\ l.success = (Cardinality(InBlock(ns, l.sbid)) >= K)

(* Every line for a block before b is exact. *)
ExactBefore(ls, b, ns) == \A i \in 1 .. Len(ls) : ls[i].sbid < b => Exact(ls[i], ns)

(* The blocks that have been traced: those left, and the current one once  *)
(* it is decoded.                                                          *)
TracedIn(ns, b, rcv) ==
    {c \in 0 .. b : InBlock(ns, c) # {} /\ (c < b \/ rcv >= K)}

ReportInv ==
    /\ cb.report \in Seq(Line)
    /\ ~closed => CacheOK(cb)
    /\ closed => cb.cached = {}
    /\ InOrderOf(Lines(cb), TracedIn(counted, decSbid, nrcv))
    /\ ExactBefore(Lines(cb), decSbid, counted)
    /\ nsrcrcv = Cardinality(Sources(counted, decSbid))

-----------------------------------------------------------------------------
(* The callback. *)
LEMMA LinesIs ==
    ASSUME NEW c, CacheOK(c)
    PROVE  /\ c.cached = {} => Lines(c) = <<>>
           /\ \A l \in Line : c.cached = {l} => Lines(c) = Append(c.report, l)
<1>1. ASSUME NEW l \in Line, c.cached = {l} PROVE Lines(c) = Append(c.report, l)
  <2>1. (CHOOSE x \in c.cached : TRUE) = l
    BY <1>1
  <2> QED
    BY <1>1, <2>1 DEF Lines, Flush
<1> QED
  BY <1>1 DEF CacheOK, Lines, Flush

LEMMA AppendLine ==
    ASSUME NEW ls, NEW bs \in SUBSET Int, InOrderOf(ls, bs), NEW l \in Line,
           \A b \in bs : b < l.sbid
    PROVE  InOrderOf(Append(ls, l), bs \cup {l.sbid})
<1> DEFINE new == Append(ls, l)
<1>1. /\ ls \in Seq(Line) /\ new \in Seq(Line) /\ Len(new) = Len(ls) + 1 /\ Len(ls) \in Nat
      /\ \A i \in 1 .. Len(ls) : new[i] = ls[i]
      /\ new[Len(ls) + 1] = l
  BY DEF InOrderOf
<1> HIDE DEF new
<1>2. \A i \in 1 .. Len(new) : i \in 1 .. Len(ls) \/ i = Len(ls) + 1
  BY <1>1
<1>3. 1 .. Len(ls) \subseteq 1 .. Len(new) /\ Len(ls) + 1 \in 1 .. Len(new)
  BY <1>1
<1>4. \A i \in 1 .. Len(new) : new[i].sbid \in bs \cup {l.sbid}
  BY <1>1, <1>2 DEF InOrderOf
<1>5. \A b \in bs \cup {l.sbid} : \E i \in 1 .. Len(new) : new[i].sbid = b
  BY <1>1, <1>3 DEF InOrderOf
<1>6. ASSUME NEW i \in 1 .. Len(new), NEW j \in 1 .. Len(new), i < j
      PROVE  new[i].sbid < new[j].sbid
  <2>1. i \in 1 .. Len(ls)
    BY <1>1, <1>6
  <2>2. CASE j \in 1 .. Len(ls)
    BY <1>1, <1>6, <2>1, <2>2 DEF InOrderOf
  <2>3. CASE j = Len(ls) + 1
    BY <1>1, <2>1, <2>3 DEF InOrderOf
  <2> QED
    BY <1>2, <2>2, <2>3
<1> QED
  BY <1>1, <1>4, <1>5, <1>6 DEF InOrderOf, new

LEMMA ReplaceLine ==
    ASSUME NEW r \in Seq(Line), NEW k \in Line, NEW l \in Line, l.sbid = k.sbid,
           NEW bs, InOrderOf(Append(r, k), bs)
    PROVE  InOrderOf(Append(r, l), bs)
<1> DEFINE old == Append(r, k)
           new == Append(r, l)
<1>1. /\ old \in Seq(Line) /\ Len(old) = Len(r) + 1 /\ Len(r) \in Nat
      /\ new \in Seq(Line) /\ Len(new) = Len(r) + 1
  OBVIOUS
<1>2. \A i \in 1 .. Len(r) + 1 : new[i].sbid = old[i].sbid
  <2>1. \A i \in 1 .. Len(r) : new[i] = r[i] /\ old[i] = r[i]
    OBVIOUS
  <2>2. new[Len(r) + 1] = l /\ old[Len(r) + 1] = k
    OBVIOUS
  <2> HIDE DEF new, old
  <2> QED
    BY <1>1, <2>1, <2>2
<1>3. InOrderOf(old, bs)
  OBVIOUS
<1> HIDE DEF new, old
<1>4. InOrderOf(new, bs)
  BY <1>1, <1>2, <1>3 DEF InOrderOf
<1> QED
  BY <1>4 DEF new

(* Every line is l or, of another block, one of the lines old. *)
NewLines(new, old, l) ==
    \A i \in 1 .. Len(new) :
        \/ new[i] = l
        \/ new[i].sbid # l.sbid /\ \E j \in 1 .. Len(old) : new[i] = old[j]

(* A trace call of a block not before those already traced adds its line,  *)
(* or puts it in the place of the block's earlier line (rqDecCb).          *)
LEMMA TraceCall ==
    ASSUME NEW c, CacheOK(c), NEW bs \in SUBSET Int, InOrderOf(Lines(c), bs),
           NEW l \in Line, \A b \in bs : b <= l.sbid,
           NEW d, d = RqDecCb(c, l), NEW cs, cs = bs \cup {l.sbid}
    PROVE  /\ CacheOK(d)
           /\ InOrderOf(Lines(d), cs)
           /\ NewLines(Lines(d), Lines(c), l)
<1>0. c.report \in Seq(Line) /\ d.cached = {l}
  BY DEF CacheOK, RqDecCb
<1>1. CASE c.cached = {}
  <2>1. d.report = <<>> /\ c.report = <<>> /\ Lines(c) = <<>>
    BY <1>1, LinesIs DEF CacheOK, RqDecCb
  <2>2. CacheOK(d)
    BY <1>0, <2>1 DEF CacheOK
  <2>3. Lines(d) = Append(Lines(c), l)
    BY <1>0, <2>1, <2>2, LinesIs
  <2>4. bs = {}
    BY <2>1 DEF InOrderOf
  <2>5. InOrderOf(Lines(d), bs \cup {l.sbid})
    BY <2>3, <2>4, AppendLine
  <2>6. \A i \in 1 .. Len(Lines(d)) : Lines(d)[i] = l
    BY <2>1, <2>3
  <2> QED
    BY <2>2, <2>5, <2>6 DEF NewLines
<1>2. ASSUME NEW k \in Line, c.cached = {k}, k.sbid # l.sbid
      PROVE  /\ CacheOK(d)
             /\ InOrderOf(Lines(d), bs \cup {l.sbid})
             /\ NewLines(Lines(d), Lines(c), l)
  <2>1. d.report = Lines(c) /\ Lines(c) = Append(c.report, k)
    BY <1>2, LinesIs DEF RqDecCb, Lines
  <2>2. Lines(c) \in Seq(Line) /\ CacheOK(d)
    BY <1>0, <2>1 DEF CacheOK
  <2>3. Lines(d) = Append(Lines(c), l)
    BY <1>0, <2>1, <2>2, LinesIs
  <2>4. ASSUME NEW b \in bs PROVE b < l.sbid
    <3>1. PICK i \in 1 .. Len(Lines(c)) : Lines(c)[i].sbid = b
      BY DEF InOrderOf
    <3>2. Len(Lines(c)) \in Nat /\ Lines(c)[Len(Lines(c))] = k
      BY <1>0, <2>1
    <3>3. k.sbid \in bs /\ b <= k.sbid
      <4>1. Len(Lines(c)) \in 1 .. Len(Lines(c)) /\ i <= Len(Lines(c))
        BY <3>1, <3>2
      <4>2. i < Len(Lines(c)) => b < k.sbid
        BY <3>1, <3>2, <4>1 DEF InOrderOf
      <4>3. k.sbid \in bs /\ k.sbid \in Int
        BY <3>2, <4>1 DEF InOrderOf
      <4> QED
        BY <3>1, <3>2, <4>1, <4>2, <4>3
    <3>4. k.sbid <= l.sbid /\ k.sbid \in Int /\ l.sbid \in Int
      BY <3>3 DEF Line
    <3> QED
      BY <1>2, <3>3, <3>4
  <2>5. InOrderOf(Lines(d), bs \cup {l.sbid})
    BY <2>3, <2>4, AppendLine
  <2>6. ASSUME NEW i \in 1 .. Len(Lines(d)), Lines(d)[i] # l
        PROVE  /\ Lines(d)[i].sbid # l.sbid
               /\ \E j \in 1 .. Len(Lines(c)) : Lines(d)[i] = Lines(c)[j]
    <3>1. i \in 1 .. Len(Lines(c)) /\ Lines(d)[i] = Lines(c)[i]
      BY <2>2, <2>3, <2>6
    <3>2. Lines(c)[i].sbid \in bs /\ l.sbid \in Int
      BY <3>1 DEF InOrderOf, Line
    <3> QED
      BY <2>4, <3>1, <3>2
  <2> QED
    BY <2>2, <2>5, <2>6 DEF NewLines
<1>3. ASSUME NEW k \in Line, c.cached = {k}, k.sbid = l.sbid
      PROVE  /\ CacheOK(d)
             /\ InOrderOf(Lines(d), bs \cup {l.sbid})
             /\ NewLines(Lines(d), Lines(c), l)
  <2>1. d.report = c.report /\ Lines(c) = Append(c.report, k)
    BY <1>3, LinesIs DEF RqDecCb
  <2>2. CacheOK(d)
    BY <1>0, <2>1 DEF CacheOK
  <2>3. Lines(d) = Append(c.report, l)
    BY <1>0, <2>1, <2>2, LinesIs
  <2>4. InOrderOf(Lines(d), bs)
    BY <1>0, <1>3, <2>1, <2>3, ReplaceLine
  <2>5. Len(c.report) \in Nat /\ Len(Lines(c)) = Len(c.report) + 1 /\ Lines(c)[Len(c.report) + 1] = k
    BY <1>0, <2>1
  <2>6. l.sbid \in bs
    BY <1>3, <2>5 DEF InOrderOf
  <2>7. ASSUME NEW i \in 1 .. Len(Lines(d)), Lines(d)[i] # l
        PROVE  /\ Lines(d)[i].sbid # l.sbid
               /\ \E j \in 1 .. Len(Lines(c)) : Lines(d)[i] = Lines(c)[j]
    <3>1. i \in 1 .. Len(c.report) /\ Lines(d)[i] = c.report[i] /\ Lines(c)[i] = c.report[i]
      BY <1>0, <2>1, <2>3, <2>7
    <3>2. i \in 1 .. Len(Lines(c)) /\ i < Len(c.report) + 1
      BY <2>5, <3>1
    <3>3. Lines(c)[i].sbid < k.sbid /\ k.sbid \in Int /\ Lines(c)[i].sbid \in Int
      <4>1. Len(c.report) + 1 \in 1 .. Len(Lines(c))
        BY <2>5
      <4>2. Lines(c)[i].sbid < Lines(c)[Len(c.report) + 1].sbid
        BY <3>2, <4>1 DEF InOrderOf
      <4>3. k.sbid \in Int /\ Lines(c)[i].sbid \in bs
        BY <3>2 DEF InOrderOf, Line
      <4> QED
        BY <2>5, <4>2, <4>3
    <3> QED
      BY <1>3, <3>1, <3>2, <3>3
  <2>8. bs \cup {l.sbid} = bs
    BY <2>6
  <2> QED
    BY <2>2, <2>4, <2>7, <2>8 DEF NewLines
<1> QED
  BY <1>1, <1>2, <1>3 DEF CacheOK

LEMMA OnTraceOne ==
    ASSUME NEW c, NEW l
    PROVE  OnTrace(c, {l}) = RqDecCb(c, l) /\ OnTrace(c, {}) = c
<1>1. (CHOOSE i \in {l} : TRUE) = l
  OBVIOUS
<1> QED
  BY <1>1 DEF OnTrace

-----------------------------------------------------------------------------
(* What a counted packet does to the counts of the blocks.                 *)
LEMMA SourcesAdd ==
    ASSUME NEW ns \in SUBSET Nat, IsFiniteSet(ns), NEW n \in Nat, n \notin ns, NEW b
    PROVE  /\ Cardinality(Sources(ns, b)) \in Nat
           /\ Cardinality(Sources(ns \cup {n}, b)) =
                  Cardinality(Sources(ns, b)) + (IF BlockOf(n) = b /\ n % N < K THEN 1 ELSE 0)
<1>1. IsFiniteSet(Sources(ns, b)) /\ Cardinality(Sources(ns, b)) \in Nat
  <2>1. Sources(ns, b) \in SUBSET ns
    BY DEF Sources, InBlock
  <2>2. IsFiniteSet(Sources(ns, b))
    BY <2>1, FS_Subset
  <2> QED
    BY <2>2, FS_CardinalityType
<1>2. CASE BlockOf(n) = b /\ n % N < K
  <2>1. Sources(ns \cup {n}, b) = Sources(ns, b) \cup {n} /\ n \notin Sources(ns, b)
    BY <1>2 DEF Sources, InBlock
  <2> QED
    BY <1>1, <1>2, <2>1, FS_AddElement
<1>3. CASE ~(BlockOf(n) = b /\ n % N < K)
  <2>1. Sources(ns \cup {n}, b) = Sources(ns, b)
    BY <1>3 DEF Sources, InBlock
  <2> QED
    BY <1>1, <1>3, <2>1
<1> QED
  BY <1>2, <1>3

(* The blocks up to a of which a packet has been counted. *)
Begun(ns, a) == {c \in 0 .. a : InBlock(ns, c) # {}}

(* The blocks traced after packet n of block b, the first of its block or  *)
(* not: b is added when it is decoded.                                     *)
LEMMA TracedAfter ==
    ASSUME NEW ns, NEW n, NEW b \in Nat, BlockOf(n) = b, NEW a \in Int, a <= b, NEW rcv \in Nat,
           \A m \in ns : BlockOf(m) <= a
    PROVE  /\ rcv >= K => TracedIn(ns \cup {n}, b, rcv) = Begun(ns, a) \cup {b}
           /\ rcv < K => TracedIn(ns \cup {n}, b, rcv) = Begun(ns, a) \ {b}
<1>1. InBlock(ns \cup {n}, b) # {}
  BY DEF InBlock
<1>2. ASSUME NEW c \in 0 .. b, c # b
      PROVE  InBlock(ns \cup {n}, c) # {} <=> c \in Begun(ns, a)
  <2>1. InBlock(ns \cup {n}, c) = InBlock(ns, c)
    BY <1>2 DEF InBlock
  <2>2. c > a => InBlock(ns, c) = {}
    BY DEF InBlock
  <2> QED
    BY <2>1, <2>2 DEF Begun
<1>3. K \in Nat
  BY ParamAssumption
<1>4. CASE rcv >= K
  BY <1>1, <1>2, <1>3, <1>4 DEF TracedIn, Begun
<1>5. CASE rcv < K
  BY <1>1, <1>2, <1>3, <1>5 DEF TracedIn, Begun
<1> QED
  BY <1>3, <1>4, <1>5

RelayInv == TypeInv /\ BlocksInv /\ LinkInv /\ CountInv /\ OnceInv

LEMMA RelayStep ==
    ASSUME NoOverflow, DupBudget = 0, RelayInv, [Next]_vars
    PROVE  RelayInv'
<1>1. TypeInv'
  BY TypeStep DEF RelayInv
<1> QED
  BY <1>1, BlocksStep, LinkStep, CountStep, OnceStep DEF RelayInv

LEMMA OtherBlocks ==
    ASSUME NEW ns, NEW n, NEW l, BlockOf(n) # l.sbid, Exact(l, ns)
    PROVE  Exact(l, ns \cup {n})
<1>1. InBlock(ns \cup {n}, l.sbid) = InBlock(ns, l.sbid)
  BY DEF InBlock
<1>2. Sources(ns \cup {n}, l.sbid) = Sources(ns, l.sbid)
  BY <1>1 DEF Sources
<1> QED
  BY <1>1, <1>2 DEF Exact

LEMMA CountedRecv ==
    ASSUME NoOverflow, RelayInv, RelayInv', ReportInv, NEW p \in link, ~Stale(p), DecRecv(p)
    PROVE  LET b == BlockOf(p.seqno)
           IN  /\ SbidOf(p) = b /\ b \in Nat /\ decSbid \in Int /\ decSbid >= -1
               /\ IF NewBlock(p) THEN b > decSbid ELSE b = decSbid
               /\ decSbid' = b /\ nrcv' = RcvAfter(p)
               /\ counted' = counted \cup {p.seqno}
               /\ nsrcrcv' = SrcRcvAfter(p)
               /\ nsrcrcv' = Cardinality(Sources(counted', b))
               /\ \A n \in counted : BlockOf(n) \in Nat /\ BlockOf(n) <= decSbid
<1> DEFINE b == BlockOf(p.seqno)
<1> USE DEF RelayInv
<1>1. CountPacket(p) /\ counted' = counted \cup {p.seqno}
  BY DEF DecRecv, RecvPacket, DropStale
<1>2. /\ SbidOf(p) = b /\ EsiOf(p) = p.seqno % N /\ p.seqno \in Nat /\ b \in Nat
      /\ decSbid \in Int /\ decSbid >= -1 /\ b >= decSbid
  <2>1. SbidOf(p) = b /\ EsiOf(p) = p.seqno % N
    BY Decoded
  <2>2. p.seqno \in Nat /\ b \in Nat
    BY PacketType
  <2>3. decSbid \in Int /\ decSbid >= -1
    BY DEF CountInv, TypeInv, TypeOK, DecTypeOK, EncTypeOK
  <2> QED
    BY <2>1, <2>2, <2>3 DEF Stale
<1>3. IF NewBlock(p) THEN b > decSbid ELSE b = decSbid
  BY <1>2 DEF NewBlock
<1>4. /\ p.seqno \notin counted /\ IsFiniteSet(counted) /\ counted \in SUBSET Nat
      /\ \A n \in counted : BlockOf(n) \in Nat /\ BlockOf(n) <= decSbid
  BY BlockPosition DEF OnceInv, CountInv, TypeInv, TypeOK
<1>5. nsrcrcv' = Cardinality(Sources(counted', b))
  <2>1. /\ Cardinality(Sources(counted', b)) =
               Cardinality(Sources(counted, b)) + (IF p.seqno % N < K THEN 1 ELSE 0)
        /\ Cardinality(Sources(counted, b)) \in Nat
    BY <1>1, <1>2, <1>4, SourcesAdd
  <2>2. Cardinality(Sources(counted, b)) = IF NewBlock(p) THEN 0 ELSE nsrcrcv
    <3>1. CASE NewBlock(p)
      <4>1. \A n \in counted : BlockOf(n) # b
        BY <1>2, <1>3, <1>4, <3>1
      <4>2. Sources(counted, b) = {}
        BY <4>1 DEF Sources, InBlock
      <4> QED
        BY <3>1, <4>2, FS_EmptySet
    <3>2. CASE ~NewBlock(p)
      BY <1>3, <3>2 DEF ReportInv
    <3> QED
      BY <3>1, <3>2
  <2>3. nsrcrcv' = (IF NewBlock(p) THEN 0 ELSE nsrcrcv) + (IF p.seqno % N < K THEN 1 ELSE 0)
    BY <1>1, <1>2 DEF CountPacket, SrcRcvAfter
  <2> QED
    BY <2>1, <2>2, <2>3
<1> QED
  BY <1>1, <1>2, <1>3, <1>4, <1>5 DEF CountPacket

LEMMA InfoIsLine ==
    ASSUME NEW b \in Int, NEW rcv \in Nat, NEW src \in Nat
    PROVE  /\ DecodeInfo(b, rcv, src) \in Line
           /\ DecodeInfo(b, rcv, src).sbid = b
BY ParamAssumption DEF DecodeInfo, Line

(* A packet of the current block: its line appears when it is decoded.     *)
LEMMA SameBlockTrace ==
    ASSUME NoOverflow, RelayInv, RelayInv', ReportInv, ~closed, closed' = closed,
           NEW p \in link, TracedRecv(p), ~Stale(p), ~NewBlock(p)
    PROVE  ReportInv'
<1> DEFINE b == BlockOf(p.seqno)
           bs == TracedIn(counted, decSbid, nrcv)
           info == DecodeInfo(b, K, SrcRcvAfter(p))
<1>1. /\ SbidOf(p) = b /\ b \in Nat /\ b = decSbid
      /\ decSbid' = b /\ nrcv' = RcvAfter(p)
      /\ counted' = counted \cup {p.seqno}
      /\ nsrcrcv' = SrcRcvAfter(p)
      /\ nsrcrcv' = Cardinality(Sources(counted', b))
      /\ \A n \in counted : BlockOf(n) <= b
  BY CountedRecv DEF TracedRecv
<1>2. /\ CacheOK(cb) /\ InOrderOf(Lines(cb), bs) /\ ExactBefore(Lines(cb), b, counted)
      /\ bs \in SUBSET Int
  BY <1>1 DEF ReportInv, TracedIn
<1>3. /\ nrcv \in Nat /\ K \in Nat \ {0} /\ nrcv' = nrcv + 1 /\ nsrcrcv' \in Nat
      /\ InBlock(counted, b) # {} /\ InBlock(counted', b) # {}
  <2>1. nrcv \in Nat /\ K \in Nat \ {0} /\ nsrcrcv' \in Nat
    BY ParamAssumption DEF RelayInv, TypeInv, TypeOK, DecTypeOK
  <2>2. nrcv' = nrcv + 1
    BY <1>1 DEF RcvAfter
  <2>3. \E n \in counted : BlockOf(n) = b
    BY <1>1 DEF RelayInv, CountInv
  <2> QED
    BY <1>1, <2>1, <2>2, <2>3 DEF InBlock
<1>4. \A c \in 0 .. b : c # b => InBlock(counted', c) = InBlock(counted, c)
  BY <1>1 DEF InBlock
<1>5. LeaveTrace(p) = {}
  BY DEF LeaveTrace
<1>6. CASE nrcv' = K
  <2>1. DecodeTrace(p) = {info}
    BY <1>1, <1>6 DEF DecodeTrace
  <2>2. cb' = RqDecCb(cb, info)
    BY <1>5, <2>1, OnTraceOne DEF TracedRecv
  <2>3. info \in Line /\ info.sbid = b
    BY <1>1, <1>3, InfoIsLine
  <2> HIDE DEF info
  <2>4. /\ CacheOK(cb')
        /\ InOrderOf(Lines(cb'), bs \cup {b})
        /\ NewLines(Lines(cb'), Lines(cb), info)
    <3>1. \A c \in bs : c <= info.sbid
      BY <1>1, <2>3 DEF TracedIn
    <3> HIDE DEF bs, b
    <3> QED
      BY <1>2, <2>2, <2>3, <3>1, TraceCall
  <2>5. bs \cup {b} = TracedIn(counted', decSbid', nrcv')
    <3>1. bs = Begun(counted, b) \ {b}
      BY <1>1, <1>3, <1>6 DEF TracedIn, Begun
    <3>2. TracedIn(counted \cup {p.seqno}, b, nrcv') = Begun(counted, b) \cup {b}
      BY <1>1, <1>3, <1>6, TracedAfter
    <3> QED
      BY <1>1, <3>1, <3>2
  <2>6. ASSUME NEW i \in 1 .. Len(Lines(cb')), Lines(cb')[i].sbid < b
        PROVE  Exact(Lines(cb')[i], counted')
    <3>1. PICK j \in 1 .. Len(Lines(cb)) : Lines(cb')[i] = Lines(cb)[j]
      BY <1>1, <2>3, <2>4, <2>6 DEF NewLines
    <3>2. Exact(Lines(cb)[j], counted)
      BY <1>2, <2>6, <3>1 DEF ExactBefore
    <3> QED
      BY <1>1, <2>6, <3>1, <3>2, OtherBlocks
  <2>7. ExactBefore(Lines(cb'), decSbid', counted')
    BY <1>1, <2>6 DEF ExactBefore
  <2>8. cb'.report \in Seq(Line)
    BY <2>4 DEF CacheOK
  <2> QED
    BY <1>1, <2>4, <2>5, <2>7, <2>8 DEF ReportInv
<1>7. CASE nrcv' # K
  <2>1. DecodeTrace(p) = {}
    BY <1>1, <1>7 DEF DecodeTrace
  <2>2. cb' = cb
    BY <1>5, <2>1, OnTraceOne DEF TracedRecv
  <2>3. bs = TracedIn(counted', decSbid', nrcv')
    BY <1>1, <1>3, <1>4, <1>7 DEF TracedIn
  <2>4. ASSUME NEW i \in 1 .. Len(Lines(cb)), Lines(cb)[i].sbid < b
        PROVE  Exact(Lines(cb)[i], counted')
    <3>1. Exact(Lines(cb)[i], counted)
      BY <1>2, <2>4 DEF ExactBefore
    <3> QED
      BY <1>1, <2>4, <3>1, OtherBlocks
  <2>5. ExactBefore(Lines(cb'), decSbid', counted')
    BY <1>1, <2>2, <2>4 DEF ExactBefore
  <2> QED
    BY <1>1, <1>2, <2>2, <2>3, <2>5 DEF ReportInv
<1> QED
  BY <1>6, <1>7

(* A packet of a later block: the block left gets its final line, and the  *)
(* new one a line at once if one packet is enough to decode it.            *)
LEMMA LeaveBlockTrace ==
    ASSUME NoOverflow, RelayInv, RelayInv', ReportInv, ~closed, closed' = closed,
           NEW p \in link, TracedRecv(p), ~Stale(p), NewBlock(p)
    PROVE  LET left == OnTrace(cb, LeaveTrace(p))
           IN  /\ CacheOK(left)
               /\ InOrderOf(Lines(left), Begun(counted, decSbid))
               /\ \A i \in 1 .. Len(Lines(left)) : Exact(Lines(left)[i], counted)
<1> DEFINE left == OnTrace(cb, LeaveTrace(p))
           bs == TracedIn(counted, decSbid, nrcv)
           info == DecodeInfo(decSbid, nrcv, nsrcrcv)
<1>1. decSbid \in Int /\ decSbid >= -1
  BY CountedRecv DEF TracedRecv
<1>2. /\ CacheOK(cb) /\ InOrderOf(Lines(cb), bs) /\ ExactBefore(Lines(cb), decSbid, counted)
      /\ bs \in SUBSET Int
  BY DEF ReportInv, TracedIn
<1>3. CASE decSbid = -1
  <2>1. LeaveTrace(p) = {} /\ left = cb
    <3>1. ~(decSbid >= 0)
      BY <1>3
    <3>2. LeaveTrace(p) = {}
      BY <3>1 DEF LeaveTrace
    <3> QED
      BY <3>2, OnTraceOne
  <2>2. bs = {} /\ Begun(counted, decSbid) = {}
    BY <1>3 DEF TracedIn, Begun
  <2>3. 1 .. Len(Lines(cb)) = {}
    BY <1>2, <2>2 DEF InOrderOf
  <2> QED
    BY <1>2, <2>1, <2>2, <2>3
<1>4. CASE decSbid # -1
  <2>1. left = RqDecCb(cb, info)
    BY <1>1, <1>4, OnTraceOne DEF LeaveTrace
  <2>2. info \in Line /\ info.sbid = decSbid
    BY <1>1, InfoIsLine DEF RelayInv, TypeInv, TypeOK, DecTypeOK
  <2>3. Exact(info, counted)
    BY <2>2 DEF Exact, DecodeInfo, ReportInv, RelayInv, OnceInv
  <2>4. bs \cup {decSbid} = Begun(counted, decSbid)
    <3>1. InBlock(counted, decSbid) # {}
      BY <1>1, <1>4 DEF RelayInv, CountInv, InBlock
    <3> QED
      BY <1>1, <1>4, <3>1 DEF TracedIn, Begun
  <2> HIDE DEF info
  <2>5. /\ CacheOK(left)
        /\ InOrderOf(Lines(left), bs \cup {decSbid})
        /\ NewLines(Lines(left), Lines(cb), info)
    <3>1. \A c \in bs : c <= info.sbid
      BY <1>1, <2>2 DEF TracedIn
    <3> HIDE DEF bs, left
    <3> QED
      BY <1>2, <2>1, <2>2, <3>1, TraceCall
  <2> HIDE DEF left
  <2>6. ASSUME NEW i \in 1 .. Len(Lines(left)) PROVE Exact(Lines(left)[i], counted)
    <3>1. CASE Lines(left)[i] = info
      BY <2>3, <3>1
    <3>2. CASE Lines(left)[i] # info
      <4>1. PICK j \in 1 .. Len(Lines(cb)) : Lines(left)[i] = Lines(cb)[j]
        BY <2>5, <3>2 DEF NewLines
      <4>2. Lines(cb)[j].sbid < decSbid
        <5>1. Lines(cb)[j].sbid \in bs /\ Lines(cb)[j].sbid # decSbid
          BY <1>2, <2>2, <2>5, <3>2, <4>1 DEF InOrderOf, NewLines
        <5> QED
          BY <1>1, <5>1 DEF TracedIn
      <4> QED
        BY <1>2, <4>1, <4>2 DEF ExactBefore
    <3> QED
      BY <3>1, <3>2
  <2> QED
    BY <2>4, <2>5, <2>6 DEF left
<1> QED
  BY <1>3, <1>4

LEMMA NewBlockTrace ==
    ASSUME NoOverflow, RelayInv, RelayInv', ReportInv, ~closed, closed' = closed,
           NEW p \in link, TracedRecv(p), ~Stale(p), NewBlock(p)
    PROVE  ReportInv'
<1> DEFINE b == BlockOf(p.seqno)
           left == OnTrace(cb, LeaveTrace(p))
           bs == Begun(counted, decSbid)
           info == DecodeInfo(b, K, SrcRcvAfter(p))
<1>1. /\ SbidOf(p) = b /\ b \in Nat /\ decSbid \in Int /\ decSbid >= -1 /\ b > decSbid
      /\ decSbid' = b /\ nrcv' = RcvAfter(p)
      /\ counted' = counted \cup {p.seqno}
      /\ nsrcrcv' = SrcRcvAfter(p)
      /\ nsrcrcv' = Cardinality(Sources(counted', b))
      /\ \A n \in counted : BlockOf(n) \in Nat /\ BlockOf(n) <= decSbid
  BY CountedRecv DEF TracedRecv
<1>2. /\ CacheOK(left) /\ InOrderOf(Lines(left), bs) /\ bs \in SUBSET Int
      /\ \A i \in 1 .. Len(Lines(left)) : Exact(Lines(left)[i], counted)
  <2>1. bs \in SUBSET Int
    BY DEF Begun
  <2> QED
    BY <2>1, LeaveBlockTrace
<1>3. nrcv' = 1 /\ K \in Nat \ {0} /\ nsrcrcv' \in Nat
  BY <1>1, ParamAssumption DEF RcvAfter, RelayInv, TypeInv, TypeOK, DecTypeOK
<1>4. b \notin bs /\ \A c \in bs : c <= b
  BY <1>1 DEF Begun
<1>5. cb' = OnTrace(left, DecodeTrace(p))
  BY DEF TracedRecv
<1> HIDE DEF left
<1>6. ASSUME NEW l \in {Lines(left)[i] : i \in 1 .. Len(Lines(left))} PROVE Exact(l, counted')
  <2>1. l.sbid <= decSbid /\ l.sbid \in Int /\ Exact(l, counted)
    BY <1>2 DEF InOrderOf, Begun
  <2>2. b # l.sbid
    BY <1>1, <2>1
  <2> QED
    BY <1>1, <2>1, <2>2, OtherBlocks
<1>7. CASE K = 1
  <2>1. DecodeTrace(p) = {info}
    BY <1>1, <1>3, <1>7 DEF DecodeTrace
  <2>2. cb' = RqDecCb(left, info)
    BY <1>5, <2>1, OnTraceOne
  <2>3. info \in Line /\ info.sbid = b
    BY <1>1, <1>3, InfoIsLine
  <2> HIDE DEF info
  <2>4. /\ CacheOK(cb')
        /\ InOrderOf(Lines(cb'), bs \cup {b})
        /\ NewLines(Lines(cb'), Lines(left), info)
    <3>1. \A c \in bs : c <= info.sbid
      BY <1>4, <2>3
    <3> HIDE DEF bs, b, left
    <3> QED
      BY <1>2, <2>2, <2>3, <3>1, TraceCall
  <2>5. bs \cup {b} = TracedIn(counted', decSbid', nrcv')
    <3>1. nrcv' \in Nat /\ nrcv' >= K /\ decSbid <= b
      BY <1>1, <1>3, <1>7
    <3>2. TracedIn(counted \cup {p.seqno}, b, nrcv') = bs \cup {b}
      BY <1>1, <3>1, TracedAfter
    <3> QED
      BY <1>1, <3>2
  <2>6. ASSUME NEW i \in 1 .. Len(Lines(cb')), Lines(cb')[i].sbid < b
        PROVE  Exact(Lines(cb')[i], counted')
    <3>1. PICK j \in 1 .. Len(Lines(left)) : Lines(cb')[i] = Lines(left)[j]
      BY <1>1, <2>3, <2>4, <2>6 DEF NewLines
    <3> QED
      BY <1>6, <3>1
  <2>7. ExactBefore(Lines(cb'), decSbid', counted')
    BY <1>1, <2>6 DEF ExactBefore
  <2>8. cb'.report \in Seq(Line)
    BY <2>4 DEF CacheOK
  <2> QED
    BY <1>1, <2>4, <2>5, <2>7, <2>8 DEF ReportInv
<1>8. CASE K # 1
  <2>1. DecodeTrace(p) = {}
    BY <1>1, <1>3, <1>8 DEF DecodeTrace
  <2>2. cb' = left
    BY <1>5, <2>1, OnTraceOne
  <2>3. bs = TracedIn(counted', decSbid', nrcv')
    <3>1. nrcv' \in Nat /\ nrcv' < K /\ decSbid <= b
      BY <1>1, <1>3, <1>8
    <3>2. TracedIn(counted \cup {p.seqno}, b, nrcv') = bs \ {b}
      BY <1>1, <3>1, TracedAfter
    <3> QED
      BY <1>1, <1>4, <3>2
  <2>4. ExactBefore(Lines(cb'), decSbid', counted')
    BY <1>6, <2>2 DEF ExactBefore
  <2>5. cb'.report \in Seq(Line)
    BY <1>2, <2>2 DEF CacheOK
  <2> QED
    BY <1>1, <1>2, <2>2, <2>3, <2>4, <2>5 DEF ReportInv
<1> QED
  BY <1>7, <1>8

-----------------------------------------------------------------------------
(* The steps that trace nothing.                                           *)
LEMMA QuietReport ==
    ASSUME ReportInv, UNCHANGED <<blockVars, counted, cb, closed>>
    PROVE  ReportInv'
BY DEF ReportInv, blockVars, CacheOK, Lines, Flush

(* A packet of a block already left is dropped and traced nowhere.         *)
LEMMA StaleTrace ==
    ASSUME NEW p \in link, TracedRecv(p), Stale(p), RelayInv
    PROVE  UNCHANGED <<blockVars, counted, cb>>
<1>1. LeaveTrace(p) = {} /\ DecodeTrace(p) = {}
  <2>1. SbidOf(p) \in Int /\ decSbid \in Int
    BY SbidType, PacketType DEF RelayInv, TypeInv, TypeOK, DecTypeOK
  <2>2. ~NewBlock(p)
    BY <2>1 DEF NewBlock, Stale
  <2> QED
    BY <2>2 DEF LeaveTrace, DecodeTrace
<1>2. cb' = cb
  BY <1>1, OnTraceOne DEF TracedRecv
<1>3. UNCHANGED <<blockVars, counted>>
  BY DEF TracedRecv, DecRecv, RecvPacket, CountPacket, DropStale
<1> QED
  BY <1>2, <1>3

(* The destructor of the callback flushes the cache.                       *)
LEMMA FlushTrace ==
    ASSUME ReportInv, Destroy
    PROVE  ReportInv'
<1>1. UNCHANGED <<blockVars, counted>>
  BY DEF Destroy, vars, decVars
<1>2. closed' = TRUE /\ cb' = Flush(cb) /\ CacheOK(cb)
  BY DEF Destroy, ReportInv
<1>3. cb'.cached = {} /\ cb'.report = Lines(cb)
  BY <1>2 DEF Flush, Lines
<1>4. Lines(cb') = Lines(cb)
  BY <1>3 DEF Lines, Flush
<1>5. cb'.report \in Seq(Line)
  BY <1>3 DEF ReportInv, InOrderOf
<1> QED
  BY <1>1, <1>2, <1>3, <1>4, <1>5 DEF ReportInv, blockVars

LEMMA ReportIsRelay == [ReportNext]_reportVars => [Next]_vars
BY DEF ReportNext, reportVars, Simulate, SilentStep, TracedRecv, Destroy, Next

LEMMA ReportInitial == ReportInit => RelayInv /\ ReportInv
<1> SUFFICES ASSUME ReportInit PROVE RelayInv /\ ReportInv
  OBVIOUS
<1>1. RelayInv
  BY TypeInit, CountInit DEF ReportInit, RelayInv
<1>2. /\ cb.report = <<>> /\ cb.cached = {} /\ closed = FALSE
      /\ counted = {} /\ decSbid = -1 /\ nsrcrcv = 0
  BY DEF ReportInit, NewCb, Init, DecInit
<1>3. CacheOK(cb) /\ Lines(cb) = <<>> /\ cb.report \in Seq(Line)
  BY <1>2 DEF CacheOK, Lines, Flush
<1>4. TracedIn(counted, decSbid, nrcv) = {} /\ Sources(counted, decSbid) = {}
  BY <1>2 DEF TracedIn, Sources, InBlock
<1>5. InOrderOf(Lines(cb), {}) /\ ExactBefore(Lines(cb), decSbid, counted)
  BY <1>3 DEF InOrderOf, ExactBefore
<1>6. Cardinality({}) = 0
  BY FS_EmptySet
<1> QED
  BY <1>1, <1>2, <1>3, <1>4, <1>5, <1>6 DEF ReportInv

LEMMA ReportStep ==
    ASSUME NoOverflow, DupBudget = 0, RelayInv, ReportInv, [ReportNext]_reportVars
    PROVE  RelayInv' /\ ReportInv'
<1>1. RelayInv'
  BY ReportIsRelay, RelayStep
<1>2. CASE UNCHANGED reportVars
  BY <1>1, <1>2, QuietReport DEF reportVars, vars, decVars
<1>3. CASE Destroy
  BY <1>1, <1>3, FlushTrace
<1>4. CASE Simulate /\ SilentStep
  <2>1. UNCHANGED <<blockVars, counted>>
    <3>1. CASE EncStep
      BY <3>1 DEF EncStep, decVars
    <3>2. CASE DecStep
      BY <3>2, DecEventQuiet DEF QuietStep, RelayInv
    <3>3. CASE LinkLoss
      BY <3>3 DEF LinkLoss, decVars
    <3> QED
      BY <1>4, <3>1, <3>2, <3>3 DEF SilentStep
  <2> QED
    BY <1>1, <1>4, <2>1, QuietReport DEF Simulate, SilentStep
<1>5. ASSUME NEW p \in link, Simulate, TracedRecv(p) PROVE ReportInv'
  <2>1. ~closed /\ closed' = closed
    BY <1>5 DEF Simulate
  <2>2. CASE Stale(p)
    BY <1>5, <2>1, <2>2, StaleTrace, QuietReport
  <2>3. CASE ~Stale(p) /\ ~NewBlock(p)
    BY <1>1, <1>5, <2>1, <2>3, SameBlockTrace
  <2>4. CASE ~Stale(p) /\ NewBlock(p)
    BY <1>1, <1>5, <2>1, <2>4, NewBlockTrace
  <2> QED
    BY <2>2, <2>3, <2>4
<1> QED
  BY <1>1, <1>2, <1>3, <1>4, <1>5 DEF ReportNext, Simulate

(* What has been written so far are the first lines, all but the cached.   *)
LEMMA WrittenLines ==
    ASSUME ReportInv
    PROVE  /\ cb.report \in Seq(Line) /\ Lines(cb) \in Seq(Line)
           /\ \A i \in DOMAIN cb.report : i \in 1 .. Len(Lines(cb)) /\ cb.report[i] = Lines(cb)[i]
           /\ closed => Lines(cb) = cb.report
<1>1. cb.report \in Seq(Line) /\ Lines(cb) \in Seq(Line)
  BY DEF ReportInv, InOrderOf
<1>2. closed => Lines(cb) = cb.report
  BY DEF ReportInv, Lines, Flush
<1>3. ASSUME ~closed, NEW i \in DOMAIN cb.report
      PROVE  i \in 1 .. Len(Lines(cb)) /\ cb.report[i] = Lines(cb)[i]
  <2>1. CacheOK(cb)
    BY <1>3 DEF ReportInv
  <2>2. CASE cb.cached = {}
    BY <1>1, <1>3, <2>1, <2>2, LinesIs DEF CacheOK
  <2>3. ASSUME NEW l \in Line, cb.cached = {l}
        PROVE  i \in 1 .. Len(Lines(cb)) /\ cb.report[i] = Lines(cb)[i]
    <3>1. Lines(cb) = Append(cb.report, l)
      BY <2>1, <2>3, LinesIs
    <3> QED
      BY <1>1, <1>3, <3>1
  <2> QED
    BY <2>1, <2>2, <2>3 DEF CacheOK
<1> QED
  BY <1>1, <1>2, <1>3

(* The report tells the truth: every line for a block the decoder has left *)
(* has the numbers of packets and source packets received for it and       *)
(* whether it was decoded, and the lines are one for each block, in order, *)
(* although a block is traced again when it is left (AppRqDecCb::rqDecCb   *)
(* replaces the cached record).  For every K, N, T and number of streams,  *)
(* whatever is lost or reordered; the link must not duplicate packets and  *)
(* the sequence numbers must fit the int of HandleRead.                    *)
THEOREM ReportExactCorrect ==
    ASSUME NoOverflow, DupBudget = 0
    PROVE  ReportSpec => []ReportExact
<1>1. RelayInv /\ ReportInv => ReportExact
  <2> SUFFICES ASSUME RelayInv, ReportInv PROVE ReportExact
    OBVIOUS
  <2>1. ASSUME NEW i \in DOMAIN cb.report, cb.report[i].sbid < decSbid
        PROVE  Exact(cb.report[i], counted)
    BY <2>1, WrittenLines DEF ReportInv, ExactBefore
  <2>2. \A i, j \in DOMAIN cb.report : i < j => cb.report[i].sbid < cb.report[j].sbid
    BY WrittenLines DEF ReportInv, InOrderOf
  <2> QED
    BY <2>1, <2>2 DEF ReportExact, Exact, CountedIn, SourceIn, Sources, InBlock
<1> QED
  BY <1>1, ReportInitial, ReportStep, PTL DEF ReportSpec

(* The report is complete: when the simulation is over and the callback    *)
(* has been destroyed, it has a line for exactly the blocks of which a     *)
(* packet was received, save the last block if it was not decoded (Trace   *)
(* calls of rq-decoder.cc, ~AppRqDecCb).                                   *)
THEOREM ReportCompleteCorrect ==
    ASSUME NoOverflow, DupBudget = 0
    PROVE  ReportSpec => []ReportComplete
<1>1. RelayInv /\ ReportInv => ReportComplete
  <2> SUFFICES ASSUME RelayInv, ReportInv, closed
               PROVE  {cb.report[i].sbid : i \in DOMAIN cb.report} =
                          {b \in 0 .. decSbid : /\ CountedIn(b) # {}
                                                /\ b < decSbid \/ nrcv >= K}
    BY DEF ReportComplete
  <2>1. cb.report \in Seq(Line) /\ Lines(cb) = cb.report
    BY WrittenLines
  <2>2. {cb.report[i].sbid : i \in DOMAIN cb.report} = TracedIn(counted, decSbid, nrcv)
    BY <2>1 DEF ReportInv, InOrderOf
  <2> QED
    BY <2>2 DEF TracedIn, CountedIn, InBlock
<1> QED
  BY <1>1, ReportInitial, ReportStep, PTL DEF ReportSpec
=============================================================================
