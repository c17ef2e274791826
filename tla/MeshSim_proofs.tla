--------------------------- MODULE MeshSim_proofs ----------------------------
(***************************************************************************)
(* Proofs about MeshSim, for every network, every number of slots and      *)
(* every set of configuration files: what is never shared, who hears whom, *)
(* and that what is held is what the files say.                            *)
(***************************************************************************)
EXTENDS MeshSim, FiniteSetTheorems, SequenceTheorems, WellFoundedInduction, TLAPS

-----------------------------------------------------------------------------
(* The address plan of CreateInterfaces: the numbers of the devices of a   *)
(* node.                                                                   *)
Owns(x, b) ==
    \/ x = Backhaul /\ b = <<1, 1>>
    \/ \E i \in 1 .. MeshSize :
           /\ x = Mesh(i)
           /\ (b = <<2, i>> \/ b = <<3, i>> \/ (i = 1 /\ b = <<1, 2>>))
    \/ \E i \in 1 .. StaSize :
           /\ x = Sta(i)
           /\ (b = <<3, Offset + i>> \/ b = <<4, Offset + i>>)
    \/ \E i \in 1 .. StaSize : x = Wired(i) /\ b = <<4, i>>

LEMMA AddressPlan ==
    ASSUME NEW x \in Nodes, NEW b \in AddrsOf(x)
    PROVE  Owns(x, b)
<1>1. CASE x = Backhaul
  BY <1>1, Zenon DEF AddrsOf, Backhaul, BackhaulAddr, Owns
<1>2. ASSUME NEW i \in 1 .. MeshSize, x = Mesh(i) PROVE Owns(x, b)
  <2>1. x[1] = "mesh" /\ x[2] = i
    BY <1>2 DEF Mesh
  <2>2. AddrsOf(x) = {MeshAddr(i), ApAddr(i)} \cup (IF i = 1 THEN {GatewayAddr} ELSE {})
    BY <2>1 DEF AddrsOf
  <2>3. b = MeshAddr(i) \/ b = ApAddr(i) \/ (i = 1 /\ b = GatewayAddr)
    <3>1. b \in {MeshAddr(i), ApAddr(i)} \cup (IF i = 1 THEN {GatewayAddr} ELSE {})
      BY <2>2
    <3>2. CASE i = 1
      BY <3>1, <3>2
    <3>3. CASE i # 1
      BY <3>1, <3>3
    <3> QED
      BY <3>2, <3>3
  <2> QED
    BY <1>2, <2>3, Zenon DEF MeshAddr, ApAddr, GatewayAddr, Owns
<1>3. ASSUME NEW i \in 1 .. StaSize, x = Sta(i) PROVE Owns(x, b)
  <2>1. x[1] = "sta" /\ x[2] = i
    BY <1>3 DEF Sta
  <2>2. AddrsOf(x) = {StaAddr(i), Sta2wAddr(i)}
    BY <2>1 DEF AddrsOf
  <2> QED
    BY <1>3, <2>2 DEF StaAddr, Sta2wAddr, Owns
<1>4. ASSUME NEW i \in 1 .. StaSize, x = Wired(i) PROVE Owns(x, b)
  <2>1. x[1] = "wired" /\ x[2] = i
    BY <1>4 DEF Wired
  <2>2. AddrsOf(x) = {WiredAddr(i)}
    BY <2>1 DEF AddrsOf
  <2> QED
    BY <1>4, <2>2 DEF WiredAddr, Owns
<1> QED
  BY <1>1, <1>2, <1>3, <1>4 DEF Nodes, Meshes, Stas

(* An address belongs to one node: mesh nodes, access points, stations and *)
(* wired stations have numbers of their own in the address plan.           *)
LEMMA AddressesDistinct ==
    ASSUME NEW n \in Nodes, NEW m \in Nodes, NEW a \in AddrsOf(n), a \in AddrsOf(m)
    PROVE  n = m
<1>1. Offset \in Nat /\ MeshSize \in 1 .. Offset /\ StaSize \in 1 .. Offset
  BY SizeAssumption
<1>2. Owns(n, a) /\ Owns(m, a)
  BY AddressPlan
<1> QED
  BY <1>1, <1>2 DEF Owns, Backhaul, Mesh, Sta, Wired

(* SetToSeq lists every element of a finite set once. *)
LEMMA SetToSeqInjective ==
    ASSUME NEW S, IsFiniteSet(S), NEW q, q = SetToSeq(S)
    PROVE  /\ q \in Seq(S)
           /\ \A i, j \in DOMAIN q : q[i] = q[j] => i = j
<1>1. Cardinality(S) \in Nat /\ ExistsBijection(1 .. Cardinality(S), S)
  BY FS_CardinalityType
<1>2. \E f \in [1 .. Cardinality(S) -> S] : IsInjective(f)
  BY <1>1 DEF ExistsBijection, Bijection, Injection, IsInjective
<1>3. q \in [1 .. Cardinality(S) -> S] /\ IsInjective(q)
  BY <1>2 DEF SetToSeq
<1>4. q \in Seq(S)
  BY <1>1, <1>3
<1> QED
  BY <1>3, <1>4 DEF IsInjective

-----------------------------------------------------------------------------
(* Ports and trace files: what is in use when n connections are made.      *)
FreshPorts(used, n) ==
    /\ \A k \in DOMAIN used : used[k] \in FirstPort .. FirstPort + n - 1
    /\ \A k, l \in DOMAIN used : used[k] = used[l] => k = l

TraceFile(n) == [kind : {"rx", "pl", "rqdec"}, number : 1 .. n]

FreshTraces(files, n) ==
    /\ files \in Seq(TraceFile(n))
    /\ \A i, j \in DOMAIN files : files[i] = files[j] => i = j

LEMMA NextPortFresh ==
    ASSUME NEW used, NEW n \in Nat, NEW k, FreshPorts(used, n)
    PROVE  FreshPorts(Put(used, k, FirstPort + n), n + 1)
BY DEF FreshPorts, Put, FirstPort

LEMMA MoreFresh ==
    ASSUME NEW files, NEW n \in Nat, FreshTraces(files, n)
    PROVE  FreshTraces(files, n + 1)
<1>1. TraceFile(n) \subseteq TraceFile(n + 1)
  BY DEF TraceFile
<1> QED
  BY <1>1, SeqMonotonic DEF FreshTraces

LEMMA ElementsIn ==
    ASSUME NEW E, NEW s \in Seq(E)
    PROVE  \A i \in DOMAIN s : s[i] \in E
OBVIOUS

(* At most three files are opened for a receiver, all with a new number.   *)
LEMMA NextTracesFresh ==
    ASSUME NEW files, NEW n \in Nat, FreshTraces(files, n),
           NEW kinds \in SUBSET {"rx", "pl", "rqdec"},
           NEW S, S = [kind : kinds, number : {n + 1}]
    PROVE  FreshTraces(files \o SetToSeq(S), n + 1)
<1> DEFINE file(k) == [kind |-> k, number |-> n + 1]
           q == SetToSeq(S)
<1>1. IsFiniteSet(S)
  <2>1. IsFiniteSet({file("rx")} \cup {file("pl")} \cup {file("rqdec")})
    <3>1. IsFiniteSet({} \cup {file("rx")})
      BY FS_EmptySet, FS_AddElement
    <3>2. IsFiniteSet({file("rx")})
      BY <3>1
    <3>3. IsFiniteSet({file("rx")} \cup {file("pl")})
      BY <3>2, FS_AddElement
    <3> QED
      BY <3>3, FS_AddElement
  <2>2. S \subseteq {file("rx")} \cup {file("pl")} \cup {file("rqdec")}
    <3>1. ASSUME NEW x \in S PROVE x \in {file("rx")} \cup {file("pl")} \cup {file("rqdec")}
      <4>1. x = file(x.kind) /\ x.kind \in {"rx", "pl", "rqdec"}
        BY <3>1
      <4> QED
        BY <4>1
    <3> QED
      BY <3>1
  <2> QED
    BY <2>1, <2>2, FS_Subset
<1>2. q \in Seq(S) /\ \A i, j \in DOMAIN q : q[i] = q[j] => i = j
  BY <1>1, SetToSeqInjective
<1> HIDE DEF q
<1>3. \A i \in DOMAIN files : files[i].number \in 1 .. n
  <2>1. \A i \in DOMAIN files : files[i] \in TraceFile(n)
    BY DEF FreshTraces
  <2> QED
    BY <2>1 DEF TraceFile
<1>4. \A i \in DOMAIN q : q[i].number = n + 1
  <2>1. \A i \in DOMAIN q : q[i] \in S
    BY <1>2, ElementsIn
  <2> QED
    BY <2>1
<1>5. files \in Seq(TraceFile(n + 1))
  <2>1. TraceFile(n) \subseteq TraceFile(n + 1)
    BY DEF TraceFile
  <2> QED
    BY <2>1, SeqMonotonic DEF FreshTraces
<1>6. q \in Seq(TraceFile(n + 1))
  <2>1. ASSUME NEW x \in S PROVE x \in TraceFile(n + 1)
    <3>1. x = [kind |-> x.kind, number |-> x.number] /\ x.kind \in kinds /\ x.number = n + 1
      BY <2>1
    <3>2. x.kind \in {"rx", "pl", "rqdec"}
      BY <3>1
    <3>3. x.number \in 1 .. n + 1
      BY <3>1
    <3> QED
      BY <3>1, <3>2, <3>3 DEF TraceFile
  <2>2. S \subseteq TraceFile(n + 1)
    BY <2>1
  <2>3. Seq(S) \subseteq Seq(TraceFile(n + 1))
    BY <2>2, SeqMonotonic
  <2> QED
    BY <1>2, <2>3
<1>7. files \o q \in Seq(TraceFile(n + 1))
  BY <1>5, <1>6
<1>8. ASSUME NEW i \in DOMAIN (files \o q), NEW j \in DOMAIN (files \o q),
             (files \o q)[i] = (files \o q)[j]
      PROVE  i = j
  <2>1. \A x \in DOMAIN (files \o q) :
            IF x <= Len(files) THEN (files \o q)[x] = files[x] /\ x \in DOMAIN files
            ELSE (files \o q)[x] = q[x - Len(files)] /\ x - Len(files) \in DOMAIN q
    BY <1>5, <1>6
  <2>2. CASE i <= Len(files) /\ j <= Len(files)
    BY <1>8, <2>1, <2>2 DEF FreshTraces
  <2>3. CASE ~(i <= Len(files)) /\ ~(j <= Len(files))
    <3>1. i - Len(files) = j - Len(files)
      BY <1>2, <1>8, <2>1, <2>3
    <3> QED
      BY <3>1, <1>5, <1>7
  <2>4. CASE i <= Len(files) /\ ~(j <= Len(files))
    BY <1>3, <1>4, <1>8, <2>1, <2>4
  <2>5. CASE ~(i <= Len(files)) /\ j <= Len(files)
    BY <1>3, <1>4, <1>8, <2>1, <2>5
  <2> QED
    BY <2>2, <2>3, <2>4, <2>5
<1> QED
  BY <1>7, <1>8 DEF FreshTraces, q

-----------------------------------------------------------------------------
(* NothingShared is inductive once the ports and the numbers of the files  *)
(* in use are known to be those handed out so far.                         *)
SharedInv ==
    /\ sindex \in Nat
    /\ FreshPorts(listen, sindex)
    /\ FreshTraces(traces, sindex)
    /\ CapturesDistinct

LEMMA SharedInit == Init => SharedInv
<1> SUFFICES ASSUME Init PROVE SharedInv
  OBVIOUS
<1>1. sindex = 0 /\ listen = <<>> /\ traces = <<>> /\ captures = {}
  BY DEF Init, MgrInit
<1>2. DOMAIN listen = {} /\ DOMAIN traces = {} /\ traces \in Seq(TraceFile(0))
  BY <1>1, EmptySeq
<1> QED
  BY <1>1, <1>2 DEF SharedInv, FreshPorts, FreshTraces, CapturesDistinct

(* The connection that createConns turns to next: of receiver RxIndex and  *)
(* sender TxIndex of its statement, with the attributes it sets.           *)
Stmt    == conns[nextConn]
TxCount == Len(Stmt.senders)
RxIndex == pos \div TxCount
TxIndex == pos % TxCount
TxTag   == Stmt.senders[TxIndex + 1]
RxTag   == Stmt.receivers[RxIndex + 1]
TxKey   == <<TxTag, Slot(TxMultiple, TxTag, RxIndex)>>
RxKey   == <<RxTag, Slot(RxMultiple, RxTag, TxIndex)>>
Made    == [stmt |-> nextConn, tx |-> TxTag, rx |-> RxTag, port |-> FirstPort + sindex]

(* createConn1 dies or hands out the next port.                            *)
Connects ==
    /\ Possible(TxTag, RxTag, TxKey[2], RxKey[2])
    /\ sendTo' = Put(sendTo, TxKey, <<rec[RxTag].host, FirstPort + sindex>>)
    /\ listen' = Put(listen, RxKey, FirstPort + sindex)
    /\ rxProto' = IF TypeOf(TxTag) \in TxProtocol
                  THEN Put(rxProto, RxKey, ProtocolOf(TypeOf(TxTag)))
                  ELSE rxProto
    /\ traces' = IF TxIndex = TxCount - 1 THEN traces \o SetToSeq(TraceFiles(RxTag)) ELSE traces
    /\ made' = made \cup {Made}
    /\ sindex' = sindex + 1
    /\ \/ /\ pos' = 0 /\ nextConn' = nextConn + 1
          /\ pos + 1 = TxCount * Len(Stmt.receivers)
       \/ /\ pos' = pos + 1 /\ nextConn' = nextConn
          /\ pos + 1 # TxCount * Len(Stmt.receivers)
    /\ UNCHANGED <<readerVars, appsVars, rec>>

LEMMA ConnectStep ==
    ASSUME CreateConn1
    PROVE  /\ status = "connecting"
           /\ nextConn <= Len(conns)
           /\ Valid(Stmt)
           /\ End("crashed") \/ Connects
<1>1. /\ TxKey[2] = Slot(TxMultiple, TxTag, RxIndex)
      /\ RxKey[2] = Slot(RxMultiple, RxTag, TxIndex)
  BY DEF TxKey, RxKey
<1> QED
  BY <1>1 DEF CreateConn1, Connects, PortOf, Stmt, TxCount, RxIndex, TxIndex, TxTag, RxTag,
     TxKey, RxKey, Made

LEMMA ConnectShared ==
    ASSUME SharedInv, CreateConn1, captures' = captures
    PROVE  SharedInv'
<1> DEFINE kinds == (IF TypeOf(RxTag) \in RxTraced THEN {"rx", "pl"} ELSE {})
                        \cup (IF TypeOf(RxTag) \in DecoderTraced THEN {"rqdec"} ELSE {})
<1>0. End("crashed") \/ Connects
  BY ConnectStep
<1>1. \/ End("crashed")
      \/ /\ listen' = Put(listen, RxKey, FirstPort + sindex)
         /\ traces' = IF TxIndex = TxCount - 1
                      THEN traces \o SetToSeq(TraceFiles(RxTag)) ELSE traces
         /\ sindex' = sindex + 1
  BY <1>0 DEF Connects
<1>2. TraceFiles(RxTag) = [kind : kinds, number : {sindex + 1}]
  BY Zenon DEF TraceFiles, TraceNumber
<1>3. kinds \in SUBSET {"rx", "pl", "rqdec"}
  OBVIOUS
<1>4. sindex \in Nat /\ FreshPorts(listen, sindex) /\ FreshTraces(traces, sindex)
  BY DEF SharedInv
<1> HIDE DEF kinds
<1>5. CASE End("crashed")
  BY <1>5 DEF SharedInv, CapturesDistinct, End, mgrVars
<1>6. CASE ~End("crashed")
  <2>1. sindex' \in Nat /\ FreshPorts(listen', sindex')
    <3>1. FreshPorts(Put(listen, RxKey, FirstPort + sindex), sindex + 1)
      BY <1>4, NextPortFresh
    <3> QED
      BY <1>1, <1>4, <1>6, <3>1
  <2>2. FreshTraces(traces', sindex')
    <3>1. FreshTraces(traces \o SetToSeq(TraceFiles(RxTag)), sindex + 1)
      BY <1>2, <1>3, <1>4, NextTracesFresh
    <3>2. FreshTraces(traces, sindex + 1)
      BY <1>4, MoreFresh
    <3> QED
      BY <1>1, <1>6, <3>1, <3>2
  <2> QED
    BY <2>1, <2>2 DEF SharedInv, CapturesDistinct
<1> QED
  BY <1>5, <1>6

LEMMA SharedNext ==
    ASSUME SharedInv, [Next]_vars
    PROVE  SharedInv'
<1>1. CASE UNCHANGED <<sindex, listen, traces, captures>>
  BY <1>1 DEF SharedInv, CapturesDistinct
<1>2. CASE ProcessCommandLineArgs \/ CreateChannels \/ CreateNodes \/ CreateNetwork \/ Run
  BY <1>1, <1>2 DEF ProcessCommandLineArgs, CreateChannels, CreateNodes, Proceed,
     CreateNetwork, Run, mgrVars
<1>3. CASE LoadConfig
  BY <1>1, <1>3 DEF LoadConfig, LoadAppsConfig, mgrVars
<1>4. CASE CreateApps
  <2>1. CASE CreateConn1
    BY <1>4, <2>1, ConnectShared DEF CreateApps
  <2>2. CASE CreateApp \/ RefuseApp \/ AllCreated \/ RefuseConns \/ AllConnected
    BY <1>1, <1>4, <2>2 DEF CreateApps, CreateApp, RefuseApp, AllCreated, RefuseConns,
       AllConnected, End, mgrVars
  <2> QED
    BY <1>4, <2>1, <2>2 DEF CreateApps, InstallApps
<1>5. CASE PreparePcap
  <2>1. UNCHANGED <<sindex, listen, traces>>
    BY <1>5 DEF PreparePcap, mgrVars
  <2>2. \A c \in captures' : /\ c.node \in Nodes /\ c.addr \in AddrsOf(c.node)
                             /\ c = [prefix |-> CapturePrefix(c.node, c.addr),
                                     addr |-> c.addr, node |-> c.node]
    BY <1>5 DEF PreparePcap
  <2>3. ASSUME NEW c \in captures', NEW d \in captures', c.addr = d.addr PROVE c = d
    <3>1. c.node = d.node
      BY <2>2, <2>3, AddressesDistinct
    <3> QED
      BY <2>2, <2>3, <3>1
  <2> QED
    BY <2>1, <2>3 DEF SharedInv, CapturesDistinct
<1>6. CASE UNCHANGED vars
  BY <1>1, <1>6 DEF vars, mgrVars
<1> QED
  BY <1>2, <1>3, <1>4, <1>5, <1>6 DEF Next

(* No two listening sockets share a port, no two writers a trace file, no  *)
(* two devices a capture file (createConns, CreateInterfaces, PreparePcap).*)
THEOREM NothingSharedCorrect == Spec => []NothingShared
<1>1. Init => SharedInv
  BY SharedInit
<1>2. SharedInv /\ [Next]_vars => SharedInv'
  BY SharedNext
<1>3. SharedInv => NothingShared
  BY DEF SharedInv, FreshPorts, FreshTraces, NothingShared, PortsDistinct, TracesDistinct
<1> QED
  BY <1>1, <1>2, <1>3, PTL DEF Spec

-----------------------------------------------------------------------------
(* Who hears whom, as relations between the applications created, the      *)
(* statements read and the attributes set.                                 *)
KindIn(created, tag) == IF tag \in DOMAIN created THEN created[tag].type ELSE "none"

SlotIn(created, multiple, tag, i) == IF KindIn(created, tag) \in multiple THEN i ELSE 0

(* c is the connection of receiver i and sender j of its statement. *)
Joins(c, i, j, stmts) ==
    /\ c.stmt \in DOMAIN stmts
    /\ i \in 0 .. Len(stmts[c.stmt].receivers) - 1
    /\ j \in 0 .. Len(stmts[c.stmt].senders) - 1
    /\ c.tx = stmts[c.stmt].senders[j + 1]
    /\ c.rx = stmts[c.stmt].receivers[i + 1]

(* Statements of several senders and receivers that createConns accepts.   *)
Accepted(stmt, created) ==
    /\ Len(stmt.senders) = 1 \/ Len(stmt.receivers) = 1
    /\ Len(stmt.senders) > 1 => KindIn(created, stmt.receivers[1]) \in RxMultiple
    /\ Len(stmt.receivers) > 1 => KindIn(created, stmt.senders[1]) \in TxMultiple

(* Slot s of the sender and slot r of the receiver hold the connection.    *)
Works(c, s, r, created, send, hear, protos) ==
    /\ s \in 0 .. SlotCount - 1
    /\ r \in 0 .. SlotCount - 1
    /\ <<c.tx, s>> \in DOMAIN send
    /\ <<c.rx, r>> \in DOMAIN hear
    /\ send[<<c.tx, s>>] = <<created[c.rx].host, c.port>>
    /\ hear[<<c.rx, r>>] = c.port
    /\ KindIn(created, c.tx) \in TxProtocol =>
           /\ <<c.rx, r>> \in DOMAIN protos
           /\ protos[<<c.rx, r>>] = ProtocolOf(KindIn(created, c.tx))

Alone(c, all) ==
    \A d \in all : d # c =>
        /\ d.rx = c.rx => (d.stmt = c.stmt /\ d.tx # c.tx)
        /\ d.tx = c.tx => (d.stmt = c.stmt /\ d.rx # c.rx)

(* A connection works in the slots that its place in the statement gives   *)
(* it, unless another statement names one of its ends.                     *)
Linked(c, all, created, stmts, send, hear, protos) ==
    \E i, j \in Nat :
        /\ Joins(c, i, j, stmts)
        /\ Alone(c, all) =>
               Works(c, SlotIn(created, TxMultiple, c.tx, i), SlotIn(created, RxMultiple, c.rx, j),
                     created, send, hear, protos)

LEMMA PutWrites ==
    ASSUME NEW f, NEW a, NEW v
    PROVE  a \in DOMAIN Put(f, a, v) /\ Put(f, a, v)[a] = v
BY DEF Put

LEMMA PutKeeps ==
    ASSUME NEW f, NEW key, NEW v, NEW a \in DOMAIN f, a # key
    PROVE  a \in DOMAIN Put(f, key, v) /\ Put(f, key, v)[a] = f[a]
BY DEF Put

(* Two connections of one accepted statement that share an end use         *)
(* different slots of it, as this end has slots to tell them apart.        *)
LEMMA SlotsDiffer ==
    ASSUME NEW created, NEW stmts, NEW c, NEW d,
           NEW i \in Nat, NEW j \in Nat, NEW k \in Nat, NEW l \in Nat,
           Joins(c, i, j, stmts), Joins(d, k, l, stmts), c.stmt = d.stmt,
           stmts[d.stmt].senders \in Seq(STRING), stmts[d.stmt].receivers \in Seq(STRING),
           Accepted(stmts[d.stmt], created)
    PROVE  /\ c.tx = d.tx /\ c.rx # d.rx =>
                  SlotIn(created, TxMultiple, c.tx, i) # SlotIn(created, TxMultiple, d.tx, k)
           /\ c.rx = d.rx /\ c.tx # d.tx =>
                  SlotIn(created, RxMultiple, c.rx, j) # SlotIn(created, RxMultiple, d.rx, l)
<1> DEFINE S == stmts[d.stmt].senders
           R == stmts[d.stmt].receivers
<1>1. Len(S) \in Nat /\ Len(R) \in Nat
  BY LenProperties
<1>2. /\ i \in 0 .. Len(R) - 1 /\ k \in 0 .. Len(R) - 1
      /\ j \in 0 .. Len(S) - 1 /\ l \in 0 .. Len(S) - 1
      /\ c.tx = S[j + 1] /\ d.tx = S[l + 1] /\ c.rx = R[i + 1] /\ d.rx = R[k + 1]
  BY DEF Joins
<1>3. /\ Len(S) = 1 \/ Len(R) = 1
      /\ Len(S) > 1 => KindIn(created, R[1]) \in RxMultiple
      /\ Len(R) > 1 => KindIn(created, S[1]) \in TxMultiple
  BY DEF Accepted
<1> HIDE DEF S, R
<1>4. ASSUME c.tx = d.tx, c.rx # d.rx
      PROVE  SlotIn(created, TxMultiple, c.tx, i) # SlotIn(created, TxMultiple, d.tx, k)
  <2>1. i # k
    BY <1>2, <1>4
  <2>2. Len(R) > 1 /\ Len(S) = 1
    BY <1>1, <1>2, <1>3, <2>1
  <2>3. c.tx = S[1] /\ d.tx = S[1] /\ KindIn(created, S[1]) \in TxMultiple
    BY <1>2, <1>3, <2>2
  <2> QED
    BY <2>1, <2>3 DEF SlotIn
<1>5. ASSUME c.rx = d.rx, c.tx # d.tx
      PROVE  SlotIn(created, RxMultiple, c.rx, j) # SlotIn(created, RxMultiple, d.rx, l)
  <2>1. j # l
    BY <1>2, <1>5
  <2>2. Len(S) > 1 /\ Len(R) = 1
    BY <1>1, <1>2, <1>3, <2>1
  <2>3. c.rx = R[1] /\ d.rx = R[1] /\ KindIn(created, R[1]) \in RxMultiple
    BY <1>2, <1>3, <2>2
  <2> QED
    BY <2>1, <2>3 DEF SlotIn
<1> QED
  BY <1>4, <1>5

(* A connection that is made later and that leaves c alone does not write  *)
(* over the attributes that c is made of.                                  *)
LEMMA StillLinked ==
    ASSUME NEW all, NEW created, NEW stmts, NEW send, NEW hear, NEW protos,
           NEW c \in all, Linked(c, all, created, stmts, send, hear, protos),
           NEW d, d # c, NEW k \in Nat, NEW l \in Nat, Joins(d, k, l, stmts),
           stmts[d.stmt].senders \in Seq(STRING), stmts[d.stmt].receivers \in Seq(STRING),
           Accepted(stmts[d.stmt], created),
           NEW dTx, dTx = <<d.tx, SlotIn(created, TxMultiple, d.tx, k)>>,
           NEW dRx, dRx = <<d.rx, SlotIn(created, RxMultiple, d.rx, l)>>,
           NEW u, NEW v, NEW w,
           NEW protos2, protos2 = protos \/ protos2 = Put(protos, dRx, w)
    PROVE  Linked(c, all \cup {d}, created, stmts, Put(send, dTx, u), Put(hear, dRx, v), protos2)
<1>1. PICK i \in Nat, j \in Nat :
          /\ Joins(c, i, j, stmts)
          /\ Alone(c, all) =>
                 Works(c, SlotIn(created, TxMultiple, c.tx, i), SlotIn(created, RxMultiple, c.rx, j),
                       created, send, hear, protos)
  BY DEF Linked
<1> DEFINE s == SlotIn(created, TxMultiple, c.tx, i)
           r == SlotIn(created, RxMultiple, c.rx, j)
<1>2. ASSUME Alone(c, all \cup {d})
      PROVE  Works(c, s, r, created, Put(send, dTx, u), Put(hear, dRx, v), protos2)
  <2>1. Alone(c, all)
    BY <1>2 DEF Alone
  <2>2. Works(c, s, r, created, send, hear, protos)
    BY <1>1, <2>1
  <2>3. /\ d.rx = c.rx => (d.stmt = c.stmt /\ d.tx # c.tx)
        /\ d.tx = c.tx => (d.stmt = c.stmt /\ d.rx # c.rx)
    BY <1>2 DEF Alone
  <2>4. c.stmt = d.stmt =>
            /\ (c.tx = d.tx /\ c.rx # d.rx) => s # SlotIn(created, TxMultiple, d.tx, k)
            /\ (c.rx = d.rx /\ c.tx # d.tx) => r # SlotIn(created, RxMultiple, d.rx, l)
    BY <1>1, SlotsDiffer
  <2> HIDE DEF s, r
  <2>5. <<c.tx, s>> # dTx /\ <<c.rx, r>> # dRx
    BY <2>3, <2>4
  <2> DEFINE send2 == Put(send, dTx, u)
             hear2 == Put(hear, dRx, v)
  <2> DEFINE a == <<c.tx, s>>
             b == <<c.rx, r>>
  <2>6. /\ a \in DOMAIN send
        /\ b \in DOMAIN hear
        /\ KindIn(created, c.tx) \in TxProtocol => b \in DOMAIN protos
        /\ a # dTx /\ b # dRx
    BY <2>2, <2>5 DEF Works
  <2> HIDE DEF a, b
  <2>7. a \in DOMAIN send2 /\ send2[a] = send[a]
    BY <2>6, PutKeeps
  <2>8. b \in DOMAIN hear2 /\ hear2[b] = hear[b]
    BY <2>6, PutKeeps
  <2>9. b \in DOMAIN protos => (b \in DOMAIN protos2 /\ protos2[b] = protos[b])
    BY <2>6, PutKeeps
  <2> HIDE DEF send2, hear2
  <2>10. Works(c, s, r, created, send2, hear2, protos2)
    BY <2>2, <2>6, <2>7, <2>8, <2>9 DEF Works, a, b
  <2> QED
    BY <2>10 DEF send2, hear2
<1> QED
  BY <1>1, <1>2 DEF Linked

-----------------------------------------------------------------------------
(* A connect statement names someone on both of its sides. *)
Statement == [senders : Seq(STRING) \ {<<>>}, receivers : Seq(STRING) \ {<<>>}]

(* A set of numbers has a least one. *)
LEMMA LeastNat ==
    ASSUME NEW T \in SUBSET Nat, T # {}
    PROVE  \E x \in T : \A y \in T : x <= y
<1>1. PICK x \in T : \A y \in T : <<y, x>> \notin OpToRel(<, Nat)
  BY WFMin, NatLessThanWellFounded, Zenon
<1>2. ASSUME NEW y \in T PROVE x <= y
  <2>1. ~ (y < x)
    BY <1>1 DEF OpToRel
  <2> QED
    BY <2>1
<1> QED
  BY <1>2

(* A sequence is what lies before one of its elements, the element, and    *)
(* what lies after it.                                                     *)
LEMMA SplitAt ==
    ASSUME NEW S, NEW q \in Seq(S), NEW i \in 1 .. Len(q)
    PROVE  /\ SubSeq(q, 1, i - 1) \o <<q[i]>> \o SubSeq(q, i + 1, Len(q)) = q
           /\ \A x \in ToSet(SubSeq(q, 1, i - 1)) : \E j \in 1 .. i - 1 : x = q[j]
<1> DEFINE n == Len(q)
           a == SubSeq(q, 1, i - 1)
           b == SubSeq(q, i + 1, Len(q))
           c == <<q[i]>>
<1>1. n \in Nat /\ i \in 1 .. n /\ \A j \in 1 .. n : q[j] \in S
  BY LenProperties, ElementsIn
<1>2. /\ a \in Seq(S) /\ Len(a) = i - 1
      /\ \A j \in 1 .. i - 1 : a[j] = q[j]
  <2>1. /\ 1 \in Int /\ i - 1 \in Int /\ \A j \in 1 .. i - 1 : q[j] \in S
    BY <1>1
  <2>2. /\ a \in Seq(S) /\ Len(a) = IF 1 <= i - 1 THEN i - 1 - 1 + 1 ELSE 0
        /\ \A j \in 1 .. i - 1 - 1 + 1 : a[j] = q[1 + j - 1]
    BY <2>1, SubSeqProperties
  <2>3. \A j \in 1 .. i - 1 : j \in 1 .. i - 1 - 1 + 1 /\ 1 + j - 1 = j
    BY <1>1
  <2>4. Len(a) = i - 1
    BY <1>1, <2>2
  <2> QED
    BY <2>2, <2>3, <2>4
<1>3. /\ b \in Seq(S) /\ Len(b) = n - i
      /\ \A j \in 1 .. n - i : b[j] = q[i + j]
  <2>1. /\ i + 1 \in Int /\ n \in Int /\ \A j \in i + 1 .. n : q[j] \in S
    BY <1>1
  <2>2. /\ b \in Seq(S) /\ Len(b) = IF i + 1 <= n THEN n - (i + 1) + 1 ELSE 0
        /\ \A j \in 1 .. n - (i + 1) + 1 : b[j] = q[i + 1 + j - 1]
    BY <2>1, SubSeqProperties
  <2>3. \A j \in 1 .. n - i : j \in 1 .. n - (i + 1) + 1 /\ i + 1 + j - 1 = i + j
    BY <1>1
  <2>4. Len(b) = n - i
    BY <1>1, <2>2
  <2> QED
    BY <2>2, <2>3, <2>4
<1>4. c \in Seq(S) /\ Len(c) = 1 /\ c[1] = q[i]
  BY <1>1
<1> HIDE DEF n, a, b, c
<1>5. /\ a \o c \in Seq(S) /\ Len(a \o c) = i
      /\ \A j \in 1 .. i : (a \o c)[j] = q[j]
  <2>1. /\ a \o c \in Seq(S) /\ Len(a \o c) = Len(a) + Len(c)
        /\ \A j \in 1 .. Len(a) + Len(c) :
               (a \o c)[j] = IF j <= Len(a) THEN a[j] ELSE c[j - Len(a)]
    BY <1>2, <1>4, ConcatProperties
  <2>2. ASSUME NEW j \in 1 .. i PROVE (a \o c)[j] = q[j]
    BY <1>1, <1>2, <1>4, <2>1
  <2> QED
    BY <1>1, <1>2, <1>4, <2>1, <2>2
<1>6. ASSUME NEW f \in Seq(S), Len(f) = i, \A j \in 1 .. i : f[j] = q[j]
      PROVE  /\ f \o b \in Seq(S) /\ Len(f \o b) = n
             /\ \A j \in 1 .. n : (f \o b)[j] = q[j]
  <2>0. f \in Seq(S) /\ Len(f) = i /\ \A j \in 1 .. i : f[j] = q[j]
    BY <1>6
  <2> DEFINE r == f \o b
  <2>2. /\ r \in Seq(S) /\ Len(r) = Len(f) + Len(b)
        /\ \A j \in 1 .. Len(f) + Len(b) : r[j] = IF j <= Len(f) THEN f[j] ELSE b[j - Len(f)]
    BY <1>3, ConcatProperties
  <2> HIDE DEF r
  <2>3. Len(f) + Len(b) = n
    BY <1>1, <1>3, <2>0
  <2>4. ASSUME NEW j \in 1 .. n PROVE r[j] = q[j]
    <3>1. CASE j <= i
      <4>1. j \in 1 .. i /\ j \in 1 .. Len(f) + Len(b) /\ j <= Len(f)
        BY <1>1, <2>0, <2>3, <3>1
      <4> QED
        BY <2>0, <2>2, <4>1
    <3>2. CASE j > i
      <4>1. j - i \in 1 .. n - i /\ i + (j - i) = j /\ ~(j <= i)
        BY <1>1, <3>2
      <4>2. r[j] = b[j - i]
        BY <2>0, <2>2, <2>3, <4>1
      <4>3. b[j - i] = q[i + (j - i)]
        BY <1>3, <4>1
      <4> QED
        BY <4>1, <4>2, <4>3
    <3> QED
      BY <1>1, <3>1, <3>2
  <2>5. r \in Seq(S) /\ Len(r) = n
    BY <2>2, <2>3
  <2> QED
    BY <2>4, <2>5 DEF r
<1> DEFINE r == a \o c \o b
<1>7. r = q
  <2>2. r \in Seq(S) /\ Len(r) = n /\ \A j \in 1 .. n : r[j] = q[j]
    BY <1>5, <1>6
  <2> HIDE DEF r
  <2>1. Len(r) = Len(q) /\ \A j \in 1 .. Len(r) : r[j] = q[j]
    BY <2>2 DEF n
  <2> QED
    BY <2>1, <2>2, SeqEqual
<1>8. ASSUME NEW x \in ToSet(a) PROVE \E j \in 1 .. i - 1 : x = q[j]
  <2>1. DOMAIN a = 1 .. i - 1
    BY <1>2, LenProperties
  <2> QED
    BY <1>2, <2>1 DEF ToSet
<1> QED
  BY <1>7, <1>8, Zenon DEF r, a, b, c

(* What the parser makes of a connect line is a statement with the tags of *)
(* the line (readConnect).                                                 *)
LEMMA ParseConnectType ==
    ASSUME NEW tokens \in Seq(STRING), Connectable(tokens)
    PROVE  /\ ParseConnect(tokens) \in Statement
           /\ JoinsAsWritten(ParseConnect(tokens), tokens)
<1>1. Len(tokens) \in Nat /\ DOMAIN tokens = 1 .. Len(tokens)
  BY LenProperties
<1>2. CASE Len(tokens) = 2
  <2>1. ParseConnect(tokens) = [senders |-> <<tokens[1]>>, receivers |-> <<tokens[2]>>]
    BY <1>2 DEF ParseConnect
  <2>2. tokens[1] \in STRING /\ tokens[2] \in STRING
    BY <1>1, <1>2, ElementOfSeq
  <2>3. <<tokens[1]>> \in Seq(STRING) \ {<<>>} /\ <<tokens[2]>> \in Seq(STRING) \ {<<>>}
    BY <2>2
  <2>4. JoinsAsWritten(ParseConnect(tokens), tokens)
    BY <1>2, <2>1 DEF JoinsAsWritten
  <2> QED
    BY <2>1, <2>3, <2>4 DEF Statement
<1>3. CASE Len(tokens) > 2
  <2>0. Len(tokens) # 2
    <3>1. \A n \in Nat : n > 2 => n # 2
      OBVIOUS
    <3> QED
      BY <1>1, <1>3, <3>1, Zenon
  <2> DEFINE First(i) == /\ tokens[i] = Separator
                         /\ \A j \in 1 .. i - 1 : tokens[j] # Separator
             sep == CHOOSE i \in DOMAIN tokens : First(i)
             T == {i \in DOMAIN tokens : tokens[i] = Separator}
  <2>1. /\ T # {} /\ T \subseteq Nat
        /\ ParseConnect(tokens).senders # <<>>
        /\ ParseConnect(tokens).receivers # <<>>
    BY <1>1, <1>3 DEF Connectable
  <2>2. \E i \in DOMAIN tokens : First(i)
    <3>1. PICK i \in T : \A j \in T : i <= j
      BY <2>1, LeastNat
    <3>2. i \in DOMAIN tokens /\ tokens[i] = Separator
      OBVIOUS
    <3>3. ASSUME NEW j \in 1 .. i - 1, tokens[j] = Separator PROVE FALSE
      <4>1. j \in DOMAIN tokens /\ j < i
        BY <1>1, <3>2, <3>3
      <4> QED
        BY <1>1, <3>1, <3>2, <3>3, <4>1
    <3> QED
      BY <3>2, <3>3
  <2>3. sep \in DOMAIN tokens
    BY <2>2
  <2>4. ParseConnect(tokens) = [senders |-> SubSeq(tokens, 1, sep - 1),
                                receivers |-> SubSeq(tokens, sep + 1, Len(tokens))]
    <3>1. sep # 0
      <4> HIDE DEF sep
      <4> QED
        BY <1>1, <2>3
    <3> QED
      BY <2>0, <3>1, Zenon DEF ParseConnect
  <2> HIDE DEF sep
  <2>5. /\ SubSeq(tokens, 1, sep - 1) \in Seq(STRING)
        /\ SubSeq(tokens, sep + 1, Len(tokens)) \in Seq(STRING)
    BY <1>1, <2>3, SubSeqProperties
  <2>7. ParseConnect(tokens) \in Statement
    BY <2>1, <2>4, <2>5 DEF Statement
  <2> DEFINE a == SubSeq(tokens, 1, sep - 1)
             b == SubSeq(tokens, sep + 1, Len(tokens))
  <2>8. ParseConnect(tokens).senders = a /\ ParseConnect(tokens).receivers = b
    <3>1. ParseConnect(tokens) = [senders |-> a, receivers |-> b]
      BY <2>4
    <3> HIDE DEF a, b
    <3> QED
      BY <3>1
  <2>9. /\ a \o <<tokens[sep]>> \o b = tokens
        /\ \A x \in ToSet(a) : \E j \in 1 .. sep - 1 : x = tokens[j]
    <3>1. sep \in 1 .. Len(tokens)
      BY <1>1, <2>3
    <3> QED
      BY <3>1, SplitAt
  <2>10. tokens[sep] = Separator /\ \A j \in 1 .. sep - 1 : tokens[j] # Separator
    BY <2>2 DEF sep
  <2> HIDE DEF a, b
  <2>11. JoinsAsWritten(ParseConnect(tokens), tokens)
    BY <2>0, <2>8, <2>9, <2>10 DEF JoinsAsWritten
  <2> QED
    BY <2>7, <2>11
<1> QED
  BY <1>1, <1>2, <1>3 DEF Connectable

-----------------------------------------------------------------------------
(* The set-up around the connections: they are made after everything is    *)
(* read and created, one statement after the other.                        *)
Early == {"started", "loading", "loaded", "channels", "nodes", "interfaces"}

SetupInv ==
    /\ line \in Nat \ {0}
    /\ "apps" \in DOMAIN config => config["apps"] \in Seq(AppsFileLine)
    /\ conns \in Seq(Statement)
    /\ sindex \in Nat
    /\ pos \in Nat
    /\ nextConn \in Nat \ {0}
    /\ pos = 0 \/ (nextConn <= Len(conns) /\ pos < TxCount * Len(Stmt.receivers))
    /\ status \in Early => (pos = 0 /\ made = {})

LinkedInv ==
    \A c \in made :
        /\ c.port \in FirstPort .. FirstPort + sindex - 1
        /\ Linked(c, made, rec, conns, sendTo, listen, rxProto)

LEMMA SetupInit == Init => SetupInv /\ LinkedInv
<1> SUFFICES ASSUME Init PROVE SetupInv /\ LinkedInv
  OBVIOUS
<1>1. /\ line = 1 /\ status = "started" /\ conns = <<>> /\ sindex = 0 /\ pos = 0
      /\ nextConn = 1 /\ made = {}
  BY DEF Init, MgrInit, AppsConfigInit
<1>2. conns \in Seq(Statement)
  BY <1>1
<1>3. ASSUME "apps" \in DOMAIN config PROVE config["apps"] \in Seq(AppsFileLine)
  <2>0. PICK s \in Settings : \E further \in [1 .. s.count -> s.lines] :
            config = [s.config EXCEPT ![s.file] = @ \o further]
    BY DEF Init
  <2>1. PICK further \in [1 .. s.count -> s.lines] :
            config = [s.config EXCEPT ![s.file] = @ \o further]
    BY <2>0
  <2>2. "apps" \in DOMAIN s.config /\ s.config["apps"] \in Seq(AppsFileLine)
    <3>1. "apps" \in DOMAIN s.config
      BY <1>3, <2>1
    <3>2. FileLine("apps") = AppsFileLine
      BY DEF FileLine, MobilityFiles, WifiFiles
    <3> QED
      BY <3>1, <3>2, SettingsAssumption
  <2>3. CASE s.file = "apps"
    <3>1. further \in Seq(AppsFileLine)
      <4>1. FileLine("apps") = AppsFileLine
        BY DEF FileLine, MobilityFiles, WifiFiles
      <4>2. s.count \in Nat /\ s.lines \subseteq AppsFileLine
        BY <2>3, <4>1, SettingsAssumption
      <4> QED
        BY <2>1, <4>2
    <3>2. config["apps"] = s.config["apps"] \o further
      BY <2>1, <2>2, <2>3
    <3> QED
      BY <2>2, <3>1, <3>2, ConcatProperties
  <2>4. CASE s.file # "apps"
    BY <2>1, <2>2, <2>4
  <2> QED
    BY <2>3, <2>4
<1> QED
  BY <1>1, <1>2, <1>3 DEF SetupInv, LinkedInv

(* Reading goes on in the same files and changes, of what this is about,   *)
(* only the statements, by one that was parsed.                            *)
LEMMA LoadStep ==
    ASSUME SetupInv, LoadConfig
    PROVE  /\ status = "loading"
           /\ config' = config /\ line' \in Nat \ {0}
           /\ conns' \in Seq(Statement)
           /\ UNCHANGED mgrVars
<1>1. line \in Nat \ {0} /\ conns \in Seq(Statement)
  BY DEF SetupInv
<1>2. CASE OpenFails /\ UNCHANGED <<appsVars, mgrVars>>
  BY <1>1, <1>2 DEF OpenFails, Stop, appsVars
<1>3. CASE MobilityNext /\ UNCHANGED <<appsVars, mgrVars>>
  <2>1. PICK f \in MobilityFiles : ReadAllocator(f) \/ ReadPosition(f) \/ EndOfMobility(f)
    BY <1>3 DEF MobilityNext
  <2>2. Reading(f)
    BY <2>1 DEF ReadAllocator, ReadPosition, EndOfMobility, AtLine, AtEnd
  <2>3. NextLine \/ NextFile \/ \E outcome : Stop(outcome)
    BY <2>1 DEF ReadAllocator, ReadPosition, EndOfMobility
  <2> QED
    BY <1>1, <1>3, <2>2, <2>3 DEF Reading, NextLine, NextFile, Stop, appsVars
<1>4. CASE WifiNext /\ UNCHANGED <<appsVars, mgrVars>>
  <2>1. PICK f \in WifiFiles : ReadWifi(f) \/ EndOfWifi(f)
    BY <1>4 DEF WifiNext
  <2>2. Reading(f)
    BY <2>1 DEF ReadWifi, EndOfWifi, AtLine, AtEnd
  <2>3. NextLine \/ NextFile \/ \E outcome : Stop(outcome)
    BY <2>1 DEF ReadWifi, EndOfWifi
  <2> QED
    BY <1>1, <1>4, <2>2, <2>3 DEF Reading, NextLine, NextFile, Stop, appsVars
<1>5. CASE RoutingNext /\ UNCHANGED <<appsVars, mgrVars>>
  <2>1. Reading("routing")
    BY <1>5 DEF RoutingNext, ReadProto, ReadRoutesOn, ReadRoute, EndOfRouting, AtLine, AtEnd
  <2>2. NextLine \/ NextFile \/ \E outcome : Stop(outcome)
    BY <1>5 DEF RoutingNext, ReadProto, ReadRoutesOn, ReadRoute, EndOfRouting, ReadPastEnd, Refuse
  <2> QED
    BY <1>1, <1>5, <2>1, <2>2 DEF Reading, NextLine, NextFile, Stop, appsVars
<1>6. CASE AppsConfigNext /\ UNCHANGED mgrVars
  <2>1. Reading("apps")
    BY <1>6 DEF AppsConfigNext, ReadDefaults, ReadConnect, ReadApp, EndOfApps, AtLine, AtEnd
  <2>2. NextLine \/ NextFile \/ \E outcome : Stop(outcome)
    BY <1>6 DEF AppsConfigNext, ReadDefaults, ReadConnect, ReadApp, EndOfApps
  <2>3. conns' \in Seq(Statement)
    <3>1. CASE conns' = conns
      BY <1>1, <3>1
    <3>2. CASE ReadConnect /\ conns' # conns
      <4>1. /\ Connectable(AppsLine.tokens)
            /\ conns' = Append(conns, ParseConnect(AppsLine.tokens))
            /\ AppsLine.kind = "connect" /\ line <= Len(config["apps"])
            /\ "apps" \in DOMAIN config
        BY <3>2 DEF ReadConnect, AtLine, Reading, appsVars
      <4>2. AppsLine \in AppsFileLine
        BY <1>1, <4>1, ElementOfSeq, LenProperties DEF SetupInv, AppsLine
      <4>3. AppsLine.tokens \in Seq(STRING)
        BY <4>1, <4>2 DEF AppsFileLine
      <4> QED
        BY <1>1, <4>1, <4>3, ParseConnectType, AppendProperties
    <3> QED
      BY <1>6, <3>1, <3>2 DEF AppsConfigNext, ReadDefaults, ReadApp, EndOfApps, appsVars
  <2> QED
    BY <1>1, <1>6, <2>1, <2>2, <2>3 DEF Reading, NextLine, NextFile, Stop
<1> QED
  BY <1>2, <1>3, <1>4, <1>5, <1>6 DEF LoadConfig, LoadAppsConfig, LoadRoutingConfig

(* Steps that leave the connections alone: only those of the reader and    *)
(* CreateApp change what a connection is judged by, and there is none yet. *)
LEMMA OtherStep ==
    ASSUME [Next]_vars, ~LoadConfig, ~CreateConn1
    PROVE  /\ UNCHANGED <<config, line, conns, sindex, pos, nextConn, made, sendTo, listen, rxProto>>
           /\ status \in Early \/ status' \notin Early \/ status' = status
           /\ rec' = rec \/ status = "interfaces"
<1>1. CASE ProcessCommandLineArgs
  BY <1>1 DEF ProcessCommandLineArgs, Stop, Early, appsVars, mgrVars
<1>2. CASE CreateChannels \/ CreateNodes
  BY <1>2 DEF CreateChannels, CreateNodes, Proceed, Stop, Early, appsVars, mgrVars
<1>3. CASE CreateNetwork
  BY <1>3 DEF CreateNetwork, CreateInterfaces, Stop, Early, appsVars, mgrVars
<1>4. CASE CreateApps
  <2>1. CASE CreateApp
    BY <2>1 DEF CreateApp, readerVars, appsVars
  <2>2. CASE RefuseApp \/ AllCreated \/ RefuseConns \/ AllConnected
    BY <2>2 DEF RefuseApp, AllCreated, RefuseConns, AllConnected, End, Stop, Early,
       appsVars, mgrVars
  <2> QED
    BY <1>4, <2>1, <2>2 DEF CreateApps, InstallApps
<1>5. CASE PreparePcap
  BY <1>5 DEF PreparePcap, Stop, Early, appsVars, mgrVars
<1>6. CASE Run
  BY <1>6 DEF Run, Traffic, Emit, Forward, readerVars, appsVars, mgrVars
<1>7. CASE UNCHANGED vars
  BY <1>7 DEF vars, readerVars, appsVars, mgrVars
<1> QED
  BY <1>1, <1>2, <1>3, <1>4, <1>5, <1>6, <1>7 DEF Next

(* The place of the next connection in its statement. *)
LEMMA NextJoins ==
    ASSUME SetupInv, CreateConn1
    PROVE  /\ Stmt \in Statement
           /\ TxCount \in Nat \ {0} /\ Len(Stmt.receivers) \in Nat \ {0}
           /\ TxCount = 1 \/ Len(Stmt.receivers) = 1
           /\ pos < TxCount * Len(Stmt.receivers)
           /\ RxIndex \in Nat /\ TxIndex \in Nat
           /\ Joins(Made, RxIndex, TxIndex, conns)
<1>1. nextConn \in 1 .. Len(conns) /\ conns \in Seq(Statement) /\ pos \in Nat
  BY ConnectStep, LenProperties DEF SetupInv
<1>2. Stmt \in Statement /\ nextConn \in DOMAIN conns
  BY <1>1, ElementOfSeq, LenProperties DEF Stmt
<1>3. TxCount \in Nat \ {0} /\ Len(Stmt.receivers) \in Nat \ {0}
  BY <1>2, EmptySeq DEF TxCount, Statement
<1>4. TxCount = 1 \/ Len(Stmt.receivers) = 1
  BY ConnectStep DEF Valid, TxCount
<1>5. pos < TxCount * Len(Stmt.receivers)
  BY <1>1, <1>3, <1>4 DEF SetupInv
<1>6. RxIndex \in 0 .. Len(Stmt.receivers) - 1 /\ TxIndex \in 0 .. TxCount - 1
  <2>1. CASE TxCount = 1
    BY <1>1, <1>3, <1>5, <2>1 DEF RxIndex, TxIndex
  <2>2. CASE Len(Stmt.receivers) = 1
    BY <1>1, <1>3, <1>5, <2>2 DEF RxIndex, TxIndex
  <2> QED
    BY <1>4, <2>1, <2>2
<1>7. Joins(Made, RxIndex, TxIndex, conns)
  BY <1>2, <1>6 DEF Joins, Made, Stmt, TxCount, TxTag, RxTag
<1> QED
  BY <1>2, <1>3, <1>4, <1>5, <1>6, <1>7

LEMMA SetupNext ==
    ASSUME SetupInv, [Next]_vars
    PROVE  SetupInv'
<1>1. CASE LoadConfig
  BY <1>1, LoadStep DEF SetupInv, mgrVars, Early
<1>2. CASE CreateConn1
  <2>1. status = "connecting" /\ (End("crashed") \/ Connects)
    BY <1>2, ConnectStep
  <2>2. CASE End("crashed")
    BY <2>2 DEF SetupInv, End, Stop, appsVars, mgrVars, Early, TxCount, Stmt
  <2>3. CASE Connects
    <3>1. /\ UNCHANGED <<config, line, status, conns>>
          /\ sindex' = sindex + 1
          /\ \/ pos' = 0 /\ nextConn' = nextConn + 1
             \/ /\ pos' = pos + 1 /\ nextConn' = nextConn
                /\ pos + 1 # TxCount * Len(Stmt.receivers)
      BY <2>3 DEF Connects, readerVars, appsVars
    <3>2. sindex \in Nat /\ pos \in Nat /\ nextConn \in Nat \ {0}
      BY DEF SetupInv
    <3>3. pos' = 0 \/ (nextConn' <= Len(conns') /\ pos' < (TxCount * Len(Stmt.receivers))')
      <4>1. CASE pos' = 0
        BY <4>1
      <4>2. CASE pos' # 0
        <5>1. TxCount' = TxCount /\ Stmt' = Stmt
          BY <3>1, <4>2 DEF TxCount, Stmt
        <5>2. pos + 1 < TxCount * Len(Stmt.receivers)
          BY <1>2, <3>1, <3>2, <4>2, NextJoins
        <5> QED
          BY <1>2, <3>1, <4>2, <5>1, <5>2, ConnectStep
      <4> QED
        BY <4>1, <4>2
    <3> QED
      BY <2>1, <3>1, <3>2, <3>3 DEF SetupInv, Early
  <2> QED
    BY <2>1, <2>2, <2>3
<1>3. CASE ~LoadConfig /\ ~CreateConn1
  BY <1>3, OtherStep DEF SetupInv, TxCount, Stmt
<1> QED
  BY <1>1, <1>2, <1>3

(* What createConn1 writes is what its own connection needs.               *)
LEMMA MadeLinked ==
    ASSUME SetupInv, CreateConn1, Connects
    PROVE  Linked(Made, made', rec, conns, sendTo', listen', rxProto')
<1>1. /\ RxIndex \in Nat /\ TxIndex \in Nat
      /\ Joins(Made, RxIndex, TxIndex, conns)
  BY NextJoins
<1> DEFINE s == SlotIn(rec, TxMultiple, TxTag, RxIndex)
           r == SlotIn(rec, RxMultiple, RxTag, TxIndex)
<1>2. /\ TypeOf(TxTag) = KindIn(rec, TxTag)
      /\ TxKey = <<TxTag, s>> /\ RxKey = <<RxTag, r>>
  BY DEF TxKey, RxKey, Slot, SlotIn, TypeOf, KindIn
<1>3. s \in Nat /\ r \in Nat
  BY <1>1 DEF SlotIn
<1> HIDE DEF s, r
<1>4. s \in 0 .. SlotCount - 1 /\ r \in 0 .. SlotCount - 1
  <2>1. s < SlotCount /\ r < SlotCount
    BY <1>2 DEF Connects, Possible
  <2> QED
    BY <1>3, <2>1, SlotAssumption
<1>5. /\ sendTo' = Put(sendTo, TxKey, <<rec[RxTag].host, FirstPort + sindex>>)
      /\ listen' = Put(listen, RxKey, FirstPort + sindex)
      /\ TypeOf(TxTag) \in TxProtocol =>
             rxProto' = Put(rxProto, RxKey, ProtocolOf(TypeOf(TxTag)))
  BY DEF Connects
<1>6. /\ TxKey \in DOMAIN sendTo' /\ sendTo'[TxKey] = <<rec[RxTag].host, FirstPort + sindex>>
      /\ RxKey \in DOMAIN listen' /\ listen'[RxKey] = FirstPort + sindex
      /\ TypeOf(TxTag) \in TxProtocol =>
             RxKey \in DOMAIN rxProto' /\ rxProto'[RxKey] = ProtocolOf(TypeOf(TxTag))
  BY <1>5, PutWrites
<1>7. Made.tx = TxTag /\ Made.rx = RxTag /\ Made.port = FirstPort + sindex
  BY DEF Made
<1>8. Works(Made, s, r, rec, sendTo', listen', rxProto')
  BY <1>2, <1>4, <1>6, <1>7 DEF Works
<1> QED
  BY <1>1, <1>7, <1>8 DEF Linked, s, r

LEMMA LinkedNext ==
    ASSUME SetupInv, LinkedInv, [Next]_vars
    PROVE  LinkedInv'
<1>1. CASE LoadConfig
  BY <1>1, LoadStep DEF SetupInv, LinkedInv, mgrVars, Early
<1>2. CASE CreateConn1
  <2>1. End("crashed") \/ Connects
    BY <1>2, ConnectStep
  <2>2. CASE End("crashed")
    BY <2>2 DEF LinkedInv, End, appsVars, mgrVars
  <2>3. CASE Connects
    <3>1. /\ rec' = rec /\ conns' = conns /\ sindex' = sindex + 1
          /\ made' = made \cup {Made}
          /\ sendTo' = Put(sendTo, TxKey, <<rec[RxTag].host, FirstPort + sindex>>)
          /\ listen' = Put(listen, RxKey, FirstPort + sindex)
          /\ \/ rxProto' = rxProto
             \/ rxProto' = Put(rxProto, RxKey, ProtocolOf(TypeOf(TxTag)))
      BY <2>3 DEF Connects, appsVars
    <3>2. sindex \in Nat
      BY DEF SetupInv
    <3>3. Made.tx = TxTag /\ Made.rx = RxTag /\ Made.port = FirstPort + sindex
          /\ conns[Made.stmt] = Stmt
      BY DEF Made, Stmt
    <3>4. ASSUME NEW c \in made
          PROVE  /\ c.port \in FirstPort .. FirstPort + sindex' - 1
                 /\ Linked(c, made', rec', conns', sendTo', listen', rxProto')
      <4>1. /\ c.port \in FirstPort .. FirstPort + sindex - 1
            /\ Linked(c, made, rec, conns, sendTo, listen, rxProto)
        BY DEF LinkedInv
      <4>2. c.port \in FirstPort .. FirstPort + sindex' - 1 /\ Made # c
        BY <3>1, <3>2, <3>3, <4>1 DEF FirstPort
      <4>3. /\ RxIndex \in Nat /\ TxIndex \in Nat
            /\ Joins(Made, RxIndex, TxIndex, conns)
            /\ conns[Made.stmt].senders \in Seq(STRING)
            /\ conns[Made.stmt].receivers \in Seq(STRING)
        BY <1>2, <3>3, NextJoins DEF Statement
      <4>4. Accepted(conns[Made.stmt], rec)
        BY <1>2, <3>3, ConnectStep DEF Accepted, Valid, TypeOf, KindIn
      <4>5. /\ TxKey = <<Made.tx, SlotIn(rec, TxMultiple, Made.tx, RxIndex)>>
            /\ RxKey = <<Made.rx, SlotIn(rec, RxMultiple, Made.rx, TxIndex)>>
        BY <3>3 DEF TxKey, RxKey, Slot, SlotIn, TypeOf, KindIn
      <4>6. Linked(c, made \cup {Made}, rec, conns, sendTo', listen', rxProto')
        BY <3>1, <4>1, <4>2, <4>3, <4>4, <4>5, StillLinked
      <4> QED
        BY <3>1, <4>2, <4>6
    <3>5. Linked(Made, made', rec', conns', sendTo', listen', rxProto')
      BY <1>2, <2>3, <3>1, MadeLinked
    <3>6. Made.port \in FirstPort .. FirstPort + sindex' - 1
      BY <3>1, <3>2, <3>3 DEF FirstPort
    <3> QED
      BY <3>1, <3>4, <3>5, <3>6 DEF LinkedInv
  <2> QED
    BY <2>1, <2>2, <2>3
<1>3. CASE ~LoadConfig /\ ~CreateConn1
  <2>1. CASE made = {}
    BY <1>3, <2>1, OtherStep DEF LinkedInv
  <2>2. CASE made # {}
    <3>1. rec' = rec
      BY <1>3, <2>2, OtherStep DEF SetupInv, Early
    <3> QED
      BY <1>3, <3>1, OtherStep DEF LinkedInv
  <2> QED
    BY <2>1, <2>2
<1> QED
  BY <1>1, <1>2, <1>3

(* Every connection of applications that no other statement names is       *)
(* heard: the sender's target is a port on which the receiver listens by   *)
(* the sender's protocol, however many senders or receivers the statement  *)
(* joins and whatever was connected before or after (createConns).         *)
THEOREM ExclusiveHeardCorrect == Spec => []ExclusiveHeard
<1>1. Init => SetupInv /\ LinkedInv
  BY SetupInit
<1>2. SetupInv /\ LinkedInv /\ [Next]_vars => SetupInv' /\ LinkedInv'
  BY SetupNext, LinkedNext
<1>3. SetupInv /\ LinkedInv => ExclusiveHeard
  <2> SUFFICES ASSUME LinkedInv, NEW c \in made, Exclusive(c) PROVE Heard(c)
    BY DEF ExclusiveHeard
  <2>1. PICK i \in Nat, j \in Nat :
            Alone(c, made) =>
                Works(c, SlotIn(rec, TxMultiple, c.tx, i), SlotIn(rec, RxMultiple, c.rx, j),
                      rec, sendTo, listen, rxProto)
    BY DEF LinkedInv, Linked
  <2>2. Alone(c, made)
    BY DEF Exclusive, Alone
  <2> QED
    BY <2>1, <2>2 DEF Works, Heard, TypeOf, KindIn
<1> QED
  BY <1>1, <1>2, <1>3, PTL DEF Spec

-----------------------------------------------------------------------------
(* What the readers have taken of a file, as relations between its lines,  *)
(* how many of them have been read, and what is held.                      *)
CountOf(lines, kind, n) == Cardinality({i \in 1 .. n : lines[i].kind = kind})

LEMMA CountUpTo ==
    ASSUME NEW lines, NEW kind, NEW n \in Nat
    PROVE  /\ CountOf(lines, kind, n) \in Nat
           /\ CountOf(lines, kind, 0) = 0
           /\ CountOf(lines, kind, n + 1)
                 = CountOf(lines, kind, n) + (IF lines[n + 1].kind = kind THEN 1 ELSE 0)
           /\ \A i \in 1 .. n : lines[i].kind = kind =>
                 CountOf(lines, kind, i) \in 1 .. CountOf(lines, kind, n)
<1> DEFINE S(m) == {i \in 1 .. m : lines[i].kind = kind}
<1>1. ASSUME NEW m \in Nat PROVE IsFiniteSet(S(m)) /\ Cardinality(S(m)) \in Nat
  <2>1. IsFiniteSet(1 .. m) /\ S(m) \subseteq 1 .. m
    BY FS_Interval
  <2> HIDE DEF S
  <2> QED
    BY <2>1, FS_Subset, FS_CardinalityType
<1>2. S(0) = {} /\ Cardinality({}) = 0
  BY FS_EmptySet
<1>3. Cardinality(S(n + 1)) = Cardinality(S(n)) + (IF lines[n + 1].kind = kind THEN 1 ELSE 0)
  <2>1. CASE lines[n + 1].kind = kind
    <3>1. S(n + 1) = S(n) \cup {n + 1} /\ n + 1 \notin S(n)
      BY <2>1
    <3> HIDE DEF S
    <3>2. Cardinality(S(n + 1)) = Cardinality(S(n)) + 1
      BY <1>1, <3>1, FS_AddElement
    <3> QED
      BY <2>1, <3>2
  <2>2. CASE lines[n + 1].kind # kind
    <3>1. S(n + 1) = S(n)
      BY <2>2
    <3> HIDE DEF S
    <3> QED
      BY <1>1, <2>2, <3>1
  <2> QED
    BY <2>1, <2>2
<1>4. ASSUME NEW i \in 1 .. n, lines[i].kind = kind
      PROVE  Cardinality(S(i)) \in 1 .. Cardinality(S(n))
  <2>1. i \in Nat /\ i \in S(i) /\ S(i) \subseteq S(n)
    BY <1>4
  <2> HIDE DEF S
  <2>2. Cardinality(S(i)) <= Cardinality(S(n)) /\ Cardinality(S(i)) # 0
    BY <1>1, <2>1, FS_Subset, FS_EmptySet
  <2> QED
    BY <1>1, <2>1, <2>2
<1> QED
  BY <1>1, <1>2, <1>3, <1>4 DEF CountOf

(* Greatest element of a set of positions, and how to know it. *)
LEMMA LastOf ==
    ASSUME NEW n \in Nat, NEW S \in SUBSET (1 .. n), S # {}
    PROVE  Max(S) \in S /\ \A y \in S : y <= Max(S)
<1>1. \E x \in S : \A y \in S : x >= y
  <2> DEFINE D == {n - y : y \in S}
  <2>1. D \in SUBSET Nat /\ D # {}
    <3>1. \A y \in S : n - y \in Nat
      OBVIOUS
    <3>2. PICK y \in S : TRUE
      OBVIOUS
    <3>3. n - y \in D
      BY <3>2
    <3> QED
      BY <3>1, <3>3
  <2>2. PICK d \in D : \A e \in D : d <= e
    <3> HIDE DEF D
    <3> QED
      BY <2>1, LeastNat
  <2>3. PICK x \in S : d = n - x
    BY <2>2
  <2>4. ASSUME NEW y \in S PROVE x >= y
    <3>1. n - y \in D
      OBVIOUS
    <3>2. n - x <= n - y
      BY <2>2, <2>3, <3>1
    <3> QED
      BY <3>2
  <2> QED
    BY <2>4
<1>2. Max(S) \in S /\ \A y \in S : Max(S) >= y
  BY <1>1, Zenon DEF Max
<1> QED
  BY <1>2

LEMMA IsLast ==
    ASSUME NEW S \in SUBSET Int, NEW m \in S, \A y \in S : y <= m
    PROVE  Max(S) = m
<1>1. Max(S) \in S /\ \A y \in S : Max(S) >= y
  <2>1. \E x \in S : \A y \in S : x >= y
    OBVIOUS
  <2> QED
    BY <2>1, Zenon DEF Max
<1>2. Max(S) >= m /\ m >= Max(S)
  BY <1>1
<1>3. Max(S) \in Int /\ m \in Int
  BY <1>1
<1> QED
  BY <1>2, <1>3

LEMMA KeyValuesAt ==
    ASSUME NEW kvs \in Seq(KeyValue)
    PROVE  /\ DOMAIN kvs = 1 .. Len(kvs) /\ Len(kvs) \in Nat
           /\ \A i \in DOMAIN kvs : kvs[i].key \in STRING /\ kvs[i].val \in Text
<1>1. DOMAIN kvs = 1 .. Len(kvs) /\ Len(kvs) \in Nat
  BY LenProperties
<1>2. \A i \in DOMAIN kvs : kvs[i] \in KeyValue
  BY <1>1, ElementOfSeq
<1> QED
  BY <1>1, <1>2 DEF KeyValue

(* The last assignment is the effective one. *)
LEMMA EffectiveIs ==
    ASSUME NEW kvs \in Seq(KeyValue), NEW k,
           NEW m \in DOMAIN kvs, kvs[m].key = k,
           \A j \in DOMAIN kvs : kvs[j].key = k => j <= m
    PROVE  Assigns(kvs, k) /\ Effective(kvs, k) = kvs[m].val
<1> DEFINE P(i) == kvs[i].key = k /\ \A j \in i + 1 .. Len(kvs) : kvs[j].key # k
           c == CHOOSE i \in DOMAIN kvs : P(i)
<1>1. DOMAIN kvs = 1 .. Len(kvs) /\ Len(kvs) \in Nat
  BY KeyValuesAt
<1>2. P(m)
  <2>1. ASSUME NEW j \in m + 1 .. Len(kvs), kvs[j].key = k PROVE FALSE
    <3>1. j \in DOMAIN kvs /\ j > m
      BY <1>1
    <3>2. j <= m
      BY <2>1, <3>1
    <3> QED
      BY <1>1, <3>1, <3>2
  <2> QED
    BY <2>1
<1>3. c \in DOMAIN kvs /\ P(c)
  <2> HIDE DEF P
  <2> QED
    BY <1>2
<1>4. c = m
  <2>1. c <= m
    BY <1>3
  <2>2. ~ (m > c)
    <3>1. ASSUME m > c PROVE m \in c + 1 .. Len(kvs)
      <4> HIDE DEF c
      <4> QED
        BY <1>1, <1>3, <3>1
    <3> HIDE DEF c
    <3> QED
      BY <1>3, <3>1
  <2> HIDE DEF c, P
  <2> QED
    BY <1>1, <1>3, <2>1, <2>2
<1>5. Assigns(kvs, k)
  BY DEF Assigns
<1>6. Effective(kvs, k) = kvs[c].val
  BY <1>5 DEF Effective
<1> QED
  BY <1>4, <1>5, <1>6

LEMMA LastAssignment ==
    ASSUME NEW kvs \in Seq(KeyValue), NEW k, Assigns(kvs, k)
    PROVE  \E m \in DOMAIN kvs : /\ kvs[m].key = k
                                 /\ \A j \in DOMAIN kvs : kvs[j].key = k => j <= m
                                 /\ Effective(kvs, k) = kvs[m].val
<1> DEFINE S == {i \in DOMAIN kvs : kvs[i].key = k}
<1>1. DOMAIN kvs = 1 .. Len(kvs) /\ Len(kvs) \in Nat
  BY KeyValuesAt
<1>2. S \in SUBSET (1 .. Len(kvs)) /\ S # {}
  BY <1>1 DEF Assigns
<1>3. Max(S) \in S /\ \A y \in S : y <= Max(S)
  <2> HIDE DEF S
  <2> QED
    BY <1>1, <1>2, LastOf
<1>4. PICK m \in S : \A y \in S : y <= m
  BY <1>3
<1>5. /\ m \in DOMAIN kvs /\ kvs[m].key = k
      /\ \A j \in DOMAIN kvs : kvs[j].key = k => j <= m
  BY <1>4
<1>6. Effective(kvs, k) = kvs[m].val
  BY <1>5, EffectiveIs
<1> QED
  BY <1>5, <1>6

(* ... and SetToSeq leaves none out. *)
LEMMA SetToSeqOnto ==
    ASSUME NEW S, IsFiniteSet(S), NEW q, q = SetToSeq(S), NEW x \in S
    PROVE  \E i \in DOMAIN q : q[i] = x
<1> DEFINE n == Cardinality(S)
<1>1. n \in Nat /\ ExistsBijection(1 .. n, S)
  BY FS_CardinalityType
<1>2. \E f \in [1 .. n -> S] : IsInjective(f)
  BY <1>1 DEF ExistsBijection, Bijection, Injection, IsInjective
<1>3. q \in [1 .. n -> S] /\ IsInjective(q)
  BY <1>2 DEF SetToSeq
<1>4. IsFiniteSet(S \ {x}) /\ Cardinality(S \ {x}) = n - 1
  BY FS_RemoveElement
<1> HIDE DEF n
<1>5. IsFiniteSet(1 .. n) /\ Cardinality(1 .. n) = n
  <2>1. IsFiniteSet(1 .. n) /\ Cardinality(1 .. n) = IF 1 > n THEN 0 ELSE n - 1 + 1
    BY <1>1, FS_Interval
  <2> QED
    BY <1>1, <2>1
<1> SUFFICES ASSUME \A i \in DOMAIN q : q[i] # x PROVE FALSE
  OBVIOUS
<1>6. q \in [1 .. n -> S \ {x}]
  BY <1>3
<1>7. Cardinality(S \ {x}) < Cardinality(1 .. n)
  BY <1>1, <1>4, <1>5
<1> DEFINE D == 1 .. n
           R == S \ {x}
<1>8. IsFiniteSet(D) /\ IsFiniteSet(R) /\ Cardinality(R) < Cardinality(D) /\ q \in [D -> R]
  BY <1>4, <1>5, <1>6, <1>7
<1>9. DOMAIN q = D
  BY <1>3
<1> HIDE DEF D, R
<1>10. \E i, j \in D : i # j /\ q[i] = q[j]
  BY <1>8, FS_PigeonHole
<1> QED
  BY <1>3, <1>9, <1>10 DEF IsInjective

(* The defaults d that an application with attributes kvs gets. *)
Inherited(kvs, d) ==
    {[key |-> k, val |-> d[k]] : k \in {l \in Keys : d[l] # NoValue /\ ~Assigns(kvs, l)}}

LEMMA InheritedListed ==
    ASSUME NEW kvs, NEW d \in [Keys -> Text], NEW q, q = SetToSeq(Inherited(kvs, d))
    PROVE  /\ q \in Seq(KeyValue)
           /\ \A i \in DOMAIN q : q[i] \in Inherited(kvs, d)
           /\ \A i, j \in DOMAIN q : q[i].key = q[j].key => i = j
           /\ \A k \in Keys : (d[k] # NoValue /\ ~Assigns(kvs, k)) =>
                  \E i \in DOMAIN q : q[i] = [key |-> k, val |-> d[k]]
<1> DEFINE K == {l \in Keys : d[l] # NoValue /\ ~Assigns(kvs, l)}
           S == Inherited(kvs, d)
<1>1. IsFiniteSet(S)
  <2>1. IsFiniteSet(K)
    <3>1. K \subseteq Keys
      OBVIOUS
    <3> HIDE DEF K
    <3> QED
      BY <3>1, KeysAssumption, FS_Subset
  <2> DEFINE g == [k \in K |-> [key |-> k, val |-> d[k]]]
  <2>2. g \in Surjection(K, S)
    BY DEF Surjection, Inherited
  <2> HIDE DEF K, S, g
  <2> QED
    BY <2>1, <2>2, FS_Surjection
<1>2. q \in Seq(S) /\ \A i, j \in DOMAIN q : q[i] = q[j] => i = j
  BY <1>1, SetToSeqInjective
<1>3. \A x \in S : \E i \in DOMAIN q : q[i] = x
  BY <1>1, SetToSeqOnto
<1>4. S \subseteq KeyValue
  <2>1. ASSUME NEW x \in S PROVE x \in KeyValue
    <3>1. PICK k \in Keys : x = [key |-> k, val |-> d[k]]
      BY DEF Inherited
    <3>2. k \in STRING /\ d[k] \in Text
      BY KeysAssumption
    <3> QED
      BY <3>1, <3>2 DEF KeyValue
  <2> QED
    BY <2>1
<1>5. q \in Seq(KeyValue)
  <2> HIDE DEF S
  <2> QED
    BY <1>2, <1>4, SeqMonotonic
<1>6. \A i \in DOMAIN q : q[i] \in S
  <2> HIDE DEF S
  <2> QED
    BY <1>2, ElementsIn
<1>7. \A x, y \in S : x.key = y.key => x = y
  BY DEF Inherited
<1>8. \A k \in Keys : (d[k] # NoValue /\ ~Assigns(kvs, k)) => [key |-> k, val |-> d[k]] \in S
  BY DEF Inherited
<1> HIDE DEF S
<1> QED
  BY <1>2, <1>3, <1>5, <1>6, <1>7, <1>8 DEF S

(* In the list that WithDefaults makes, an attribute has the value of the  *)
(* application's line and otherwise its default.                           *)
LEMMA DefaultsApplied ==
    ASSUME NEW kvs \in Seq(KeyValue), NEW d \in [Keys -> Text], NEW k \in Keys,
           NEW q, q = SetToSeq(Inherited(kvs, d))
    PROVE  /\ kvs \o q \in Seq(KeyValue)
           /\ Effective(kvs \o q, k) = IF Assigns(kvs, k) THEN Effective(kvs, k) ELSE d[k]
<1>1. /\ q \in Seq(KeyValue)
      /\ \A i \in DOMAIN q : q[i] \in Inherited(kvs, d)
      /\ \A i, j \in DOMAIN q : q[i].key = q[j].key => i = j
      /\ (d[k] # NoValue /\ ~Assigns(kvs, k)) =>
             \E i \in DOMAIN q : q[i] = [key |-> k, val |-> d[k]]
  BY InheritedListed
<1>2. \A i \in DOMAIN q : ~Assigns(kvs, q[i].key) /\ d[q[i].key] # NoValue
  <2>1. \A x \in Inherited(kvs, d) : ~Assigns(kvs, x.key) /\ d[x.key] # NoValue
    BY DEF Inherited
  <2> QED
    BY <1>1, <2>1
<1> DEFINE both == kvs \o q
<1>3. both \in Seq(KeyValue)
  BY <1>1
<1>4. /\ Len(kvs) \in Nat /\ Len(q) \in Nat
      /\ DOMAIN kvs = 1 .. Len(kvs) /\ DOMAIN q = 1 .. Len(q)
      /\ DOMAIN both = 1 .. Len(kvs) + Len(q)
      /\ \A j \in DOMAIN both :
            both[j] = IF j <= Len(kvs) THEN kvs[j] ELSE q[j - Len(kvs)]
  BY <1>1
<1> HIDE DEF both
<1>5. CASE Assigns(kvs, k)
  <2>1. PICK m \in DOMAIN kvs : /\ kvs[m].key = k
                                /\ \A j \in DOMAIN kvs : kvs[j].key = k => j <= m
                                /\ Effective(kvs, k) = kvs[m].val
    BY <1>5, LastAssignment
  <2>2. m \in DOMAIN both /\ both[m] = kvs[m]
    BY <1>4
  <2>3. ASSUME NEW j \in DOMAIN both, both[j].key = k PROVE j <= m
    <3>1. CASE j <= Len(kvs)
      BY <1>4, <2>1, <2>3, <3>1
    <3>2. CASE ~(j <= Len(kvs))
      <4>1. j - Len(kvs) \in DOMAIN q /\ q[j - Len(kvs)].key = k
        BY <1>4, <2>3, <3>2
      <4> QED
        BY <1>2, <1>5, <4>1
    <3> QED
      BY <3>1, <3>2
  <2>4. Effective(both, k) = both[m].val
    BY <1>3, <2>1, <2>2, <2>3, EffectiveIs
  <2> QED
    BY <1>3, <1>5, <2>1, <2>2, <2>4 DEF both
<1>6. CASE ~Assigns(kvs, k) /\ d[k] # NoValue
  <2>1. PICK i \in DOMAIN q : q[i] = [key |-> k, val |-> d[k]]
    BY <1>1, <1>6
  <2>2. /\ Len(kvs) + i \in DOMAIN both
        /\ both[Len(kvs) + i].key = k /\ both[Len(kvs) + i].val = d[k]
    BY <1>4, <2>1
  <2>3. ASSUME NEW j \in DOMAIN both, both[j].key = k PROVE j <= Len(kvs) + i
    <3>1. ~(j <= Len(kvs))
      BY <1>4, <1>6, <2>3 DEF Assigns
    <3>2. j - Len(kvs) \in DOMAIN q /\ q[j - Len(kvs)].key = q[i].key
      BY <1>4, <2>1, <2>3, <3>1
    <3>3. j - Len(kvs) = i
      BY <1>1, <3>2
    <3> QED
      BY <1>4, <3>3
  <2>4. Effective(both, k) = d[k]
    BY <1>3, <2>2, <2>3, EffectiveIs
  <2> QED
    BY <1>3, <1>6, <2>4 DEF both
<1>7. CASE ~Assigns(kvs, k) /\ d[k] = NoValue
  <2>1. ASSUME NEW j \in DOMAIN both, both[j].key = k PROVE FALSE
    <3>1. CASE j <= Len(kvs)
      BY <1>4, <1>7, <2>1, <3>1 DEF Assigns
    <3>2. CASE ~(j <= Len(kvs))
      <4>1. j - Len(kvs) \in DOMAIN q /\ q[j - Len(kvs)].key = k
        BY <1>4, <2>1, <3>2
      <4> QED
        BY <1>2, <1>7, <4>1
    <3> QED
      BY <3>1, <3>2
  <2>2. ~Assigns(both, k)
    BY <2>1 DEF Assigns
  <2>3. Effective(both, k) = NoValue
    BY <2>2 DEF Effective
  <2> QED
    BY <1>3, <1>7, <2>3 DEF both
<1> QED
  BY <1>5, <1>6, <1>7

-----------------------------------------------------------------------------
(* The loop over the assignments of a defaults line, from the defaults f   *)
(* that fewer of its assignments leave.                                    *)
SetFrom(kvs, d, f) ==
    [s \in SUBSET (DOMAIN kvs) |->
        IF s = {} THEN d ELSE SetDefault(f[s \ {Max(s)}], kvs[Max(s)])]

(* What the assignments in s leave: of each key the last of them.          *)
Of(kvs, s, k) == {i \in s : kvs[i].key = k}
SetBy(kvs, d, s) ==
    [k \in Keys |-> IF Of(kvs, s, k) = {} THEN d[k] ELSE kvs[Max(Of(kvs, s, k))].val]
SetByAll(kvs, d) == [s \in SUBSET (DOMAIN kvs) |-> SetBy(kvs, d, s)]

LEMMA SetByStep ==
    ASSUME NEW kvs \in Seq(KeyValue), NEW d \in [Keys -> Text],
           NEW s \in SUBSET (DOMAIN kvs), s # {}
    PROVE  /\ Max(s) \in s
           /\ SetBy(kvs, d, s) = SetDefault(SetBy(kvs, d, s \ {Max(s)}), kvs[Max(s)])
<1> DEFINE m == Max(s)
           r == s \ {m}
           old == SetBy(kvs, d, r)
<1>1. DOMAIN kvs = 1 .. Len(kvs) /\ Len(kvs) \in Nat
  BY KeyValuesAt
<1>2. m \in s /\ \A y \in s : y <= m
  BY <1>1, LastOf
<1>3. m \in Int /\ s \subseteq Int
  BY <1>1, <1>2
<1> HIDE DEF m
<1>4. ASSUME NEW k \in Keys PROVE SetBy(kvs, d, s)[k] = SetDefault(old, kvs[m])[k]
  <2>1. SetDefault(old, kvs[m])[k] = IF kvs[m].key = k THEN kvs[m].val ELSE old[k]
    BY DEF SetDefault, SetBy
  <2>2. CASE kvs[m].key = k
    <3>1. m \in Of(kvs, s, k) /\ \A y \in Of(kvs, s, k) : y <= m
      BY <1>2, <2>2 DEF Of
    <3>2. Of(kvs, s, k) \subseteq Int
      BY <1>3 DEF Of
    <3>3. Max(Of(kvs, s, k)) = m
      BY <3>1, <3>2, IsLast
    <3> QED
      BY <2>1, <2>2, <3>1, <3>3 DEF SetBy
  <2>3. CASE kvs[m].key # k
    <3>1. Of(kvs, s, k) = Of(kvs, r, k)
      BY <2>3 DEF Of
    <3> QED
      BY <2>1, <2>3, <3>1 DEF SetBy
  <2> QED
    BY <2>2, <2>3
<1>5. SetBy(kvs, d, s) = SetDefault(old, kvs[m])
  <2>1. DOMAIN SetBy(kvs, d, s) = Keys /\ DOMAIN SetDefault(old, kvs[m]) = Keys
    BY DEF SetBy, SetDefault
  <2>2. SetBy(kvs, d, s) = [k \in Keys |-> SetBy(kvs, d, s)[k]]
    BY DEF SetBy
  <2>3. SetDefault(old, kvs[m]) = [k \in Keys |-> SetDefault(old, kvs[m])[k]]
    BY DEF SetBy, SetDefault
  <2> HIDE DEF old
  <2> QED
    BY <1>4, <2>2, <2>3
<1> QED
  BY <1>2, <1>5 DEF m

LEMMA SetByAllIsFrom ==
    ASSUME NEW kvs \in Seq(KeyValue), NEW d \in [Keys -> Text],
           NEW f, f = SetByAll(kvs, d)
    PROVE  f = SetFrom(kvs, d, f)
<1>1. ASSUME NEW s \in SUBSET (DOMAIN kvs) PROVE f[s] = SetFrom(kvs, d, f)[s]
  <2>1. f[s] = SetBy(kvs, d, s)
    BY DEF SetByAll
  <2>2. CASE s = {}
    <3>1. SetBy(kvs, d, s) = d
      <4>1. \A k \in Keys : Of(kvs, s, k) = {}
        BY <2>2 DEF Of
      <4>2. SetBy(kvs, d, s) = [k \in Keys |-> d[k]]
        BY <4>1 DEF SetBy
      <4> QED
        BY <4>2
    <3> QED
      BY <2>1, <2>2, <3>1 DEF SetFrom
  <2>3. CASE s # {}
    <3>1. SetFrom(kvs, d, f)[s] = SetDefault(f[s \ {Max(s)}], kvs[Max(s)])
      BY <2>3 DEF SetFrom
    <3>2. f[s \ {Max(s)}] = SetBy(kvs, d, s \ {Max(s)})
      BY DEF SetByAll
    <3> QED
      BY <2>1, <2>3, <3>1, <3>2, SetByStep
  <2> QED
    BY <2>2, <2>3
<1>2. f = [s \in SUBSET (DOMAIN kvs) |-> f[s]]
  BY DEF SetByAll
<1>3. SetFrom(kvs, d, f) = [s \in SUBSET (DOMAIN kvs) |-> SetFrom(kvs, d, f)[s]]
  BY DEF SetFrom
<1> QED
  BY <1>1, <1>2, <1>3

LEMMA SetFromUnique ==
    ASSUME NEW kvs \in Seq(KeyValue), NEW d \in [Keys -> Text],
           NEW f, NEW g, f = SetFrom(kvs, d, f), g = SetFrom(kvs, d, g)
    PROVE  f[DOMAIN kvs] = g[DOMAIN kvs]
<1> DEFINE Bad == {k \in Nat : \E s \in SUBSET (DOMAIN kvs) :
                                  IsFiniteSet(s) /\ Cardinality(s) = k /\ f[s] # g[s]}
<1>1. ASSUME NEW k \in Bad, \A j \in Bad : k <= j PROVE FALSE
  <2>1. PICK s \in SUBSET (DOMAIN kvs) : IsFiniteSet(s) /\ Cardinality(s) = k /\ f[s] # g[s]
    OBVIOUS
  <2>2. /\ f[s] = SetFrom(kvs, d, f)[s]
        /\ g[s] = SetFrom(kvs, d, g)[s]
    OBVIOUS
  <2>3. s # {}
    BY <2>1, <2>2 DEF SetFrom
  <2> DEFINE x == Max(s)
             r == s \ {x}
  <2>4. x \in s
    BY <2>3, SetByStep
  <2>5. f[r] # g[r]
    <3>1. /\ f[s] = SetDefault(f[r], kvs[x])
          /\ g[s] = SetDefault(g[r], kvs[x])
      BY <2>2, <2>3 DEF SetFrom
    <3> QED
      BY <2>1, <3>1
  <2> HIDE DEF x
  <2>6. IsFiniteSet(r) /\ Cardinality(r) = Cardinality(s) - 1
    BY <2>1, <2>4, FS_RemoveElement
  <2>7. Cardinality(r) \in Nat /\ Cardinality(r) < k
    BY <2>1, <2>6, FS_CardinalityType
  <2>8. r \in SUBSET (DOMAIN kvs)
    OBVIOUS
  <2>9. Cardinality(r) \in Bad
    BY <2>5, <2>6, <2>7, <2>8
  <2>10. k \in Nat /\ k <= Cardinality(r)
    BY <1>1, <2>9
  <2> HIDE DEF Bad, r
  <2> QED
    BY <2>7, <2>10
<1>2. Bad = {}
  <2>1. Bad \subseteq Nat
    OBVIOUS
  <2> HIDE DEF Bad
  <2> QED
    BY <1>1, <2>1, LeastNat
<1>3. IsFiniteSet(DOMAIN kvs) /\ Cardinality(DOMAIN kvs) \in Nat
  <2>1. DOMAIN kvs = 1 .. Len(kvs) /\ Len(kvs) \in Nat
    BY KeyValuesAt
  <2>2. IsFiniteSet(1 .. Len(kvs))
    BY <2>1, FS_Interval
  <2> QED
    BY <2>1, <2>2, FS_CardinalityType
<1>4. DOMAIN kvs \in SUBSET (DOMAIN kvs)
  OBVIOUS
<1> QED
  BY <1>2, <1>3, <1>4

(* A defaults line replaces the default of every key that it assigns by    *)
(* the last value it gives, and leaves the others (readDefaults).          *)
LEMMA DefaultsSet ==
    ASSUME NEW kvs \in Seq(KeyValue), NEW d \in [Keys -> Text],
           NEW e, e = FoldLeft(SetDefault, d, kvs)
    PROVE  /\ e \in [Keys -> Text]
           /\ \A k \in Keys : e[k] = IF Assigns(kvs, k) THEN Effective(kvs, k) ELSE d[k]
<1> DEFINE set == CHOOSE iter : iter = SetFrom(kvs, d, iter)
           all == SetByAll(kvs, d)
<1>1. e = set[DOMAIN kvs]
  BY Zenon DEF FoldLeft, MapThenFoldSet, SetFrom
<1>2. all = SetFrom(kvs, d, all)
  BY SetByAllIsFrom
<1>3. set = SetFrom(kvs, d, set)
  <2> HIDE DEF all
  <2> QED
    BY <1>2, Zenon
<1>4. set[DOMAIN kvs] = all[DOMAIN kvs]
  <2> HIDE DEF set, all
  <2> QED
    BY <1>2, <1>3, SetFromUnique
<1>5. all[DOMAIN kvs] = SetBy(kvs, d, DOMAIN kvs)
  BY DEF SetByAll
<1>6. e = SetBy(kvs, d, DOMAIN kvs)
  BY <1>1, <1>4, <1>5
<1>7. ASSUME NEW k \in Keys
      PROVE  /\ e[k] = IF Assigns(kvs, k) THEN Effective(kvs, k) ELSE d[k]
             /\ e[k] \in Text
  <2>1. e[k] = IF Of(kvs, DOMAIN kvs, k) = {} THEN d[k]
               ELSE kvs[Max(Of(kvs, DOMAIN kvs, k))].val
    BY <1>6 DEF SetBy
  <2>2. CASE Assigns(kvs, k)
    <3>1. PICK m \in DOMAIN kvs : /\ kvs[m].key = k
                                  /\ \A j \in DOMAIN kvs : kvs[j].key = k => j <= m
                                  /\ Effective(kvs, k) = kvs[m].val
      BY <2>2, LastAssignment
    <3>2. /\ m \in Of(kvs, DOMAIN kvs, k)
          /\ \A y \in Of(kvs, DOMAIN kvs, k) : y <= m
      BY <3>1 DEF Of
    <3>3. Of(kvs, DOMAIN kvs, k) \subseteq Int
      BY KeyValuesAt DEF Of
    <3>4. Max(Of(kvs, DOMAIN kvs, k)) = m
      BY <3>2, <3>3, IsLast
    <3>5. kvs[m].val \in Text
      BY KeyValuesAt
    <3> QED
      BY <2>1, <2>2, <3>1, <3>2, <3>4, <3>5
  <2>3. CASE ~Assigns(kvs, k)
    <3>1. Of(kvs, DOMAIN kvs, k) = {}
      BY <2>3 DEF Of, Assigns
    <3> QED
      BY <2>1, <2>3, <3>1
  <2> QED
    BY <2>2, <2>3
<1>8. e = [k \in Keys |-> e[k]]
  BY <1>6 DEF SetBy
<1> QED
  BY <1>7, <1>8

-----------------------------------------------------------------------------
(* The default of a key after n lines. *)
Giving(lines, n, k) == {i \in 1 .. n : lines[i].kind = "defaults" /\ Assigns(lines[i].kvs, k)}
Given(lines, n, k) ==
    IF Giving(lines, n, k) = {} THEN NoValue
    ELSE Effective(lines[Max(Giving(lines, n, k))].kvs, k)

LEMMA GivenNext ==
    ASSUME NEW lines, NEW n \in Nat, NEW k
    PROVE  /\ Given(lines, 0, k) = NoValue
           /\ Given(lines, n + 1, k) =
                  IF lines[n + 1].kind = "defaults" /\ Assigns(lines[n + 1].kvs, k)
                  THEN Effective(lines[n + 1].kvs, k)
                  ELSE Given(lines, n, k)
<1>1. Giving(lines, 0, k) = {}
  BY DEF Giving
<1>2. CASE lines[n + 1].kind = "defaults" /\ Assigns(lines[n + 1].kvs, k)
  <2>1. /\ n + 1 \in Giving(lines, n + 1, k)
        /\ \A y \in Giving(lines, n + 1, k) : y <= n + 1
        /\ Giving(lines, n + 1, k) \subseteq Int
    BY <1>2 DEF Giving
  <2>2. Max(Giving(lines, n + 1, k)) = n + 1
    BY <2>1, IsLast
  <2> QED
    BY <1>1, <1>2, <2>1, <2>2 DEF Given
<1>3. CASE ~(lines[n + 1].kind = "defaults" /\ Assigns(lines[n + 1].kvs, k))
  <2>1. Giving(lines, n + 1, k) = Giving(lines, n, k)
    BY <1>3 DEF Giving
  <2> QED
    BY <1>1, <1>3, <2>1 DEF Given
<1> QED
  BY <1>2, <1>3

AppRecord == [kind : {"app"}, tag : STRING, type : STRING, host : Nat \X Nat, kvs : Seq(KeyValue)]

(* Every assignment of the one list is in the other. *)
Holds(attrs, more) == \A i \in DOMAIN more : \E j \in DOMAIN attrs : attrs[j] = more[i]

(* app is the application of line m. *)
AppTaken(lines, m, app) ==
    /\ WellFormed(lines[m].kvs)
    /\ Holds(app.kvs, lines[m].kvs)
    /\ <<app.tag, app.type, app.host>> = <<lines[m].tag, lines[m].type, lines[m].host>>
    /\ \A k \in Keys : Effective(app.kvs, k) =
           IF Assigns(lines[m].kvs, k) THEN Effective(lines[m].kvs, k)
           ELSE Given(lines, m - 1, k)

(* c is the connect statement of line m, with all of its tags. *)
ConnTaken(lines, m, c) ==
    /\ Connectable(lines[m].tokens)
    /\ c = ParseConnect(lines[m].tokens)
    /\ JoinsAsWritten(c, lines[m].tokens)

DefaultsRead(lines, n, d) ==
    /\ d \in [Keys -> Text]
    /\ \A k \in Keys : d[k] = Given(lines, n, k)
    /\ \A m \in 1 .. n : lines[m].kind = "defaults" => WellFormed(lines[m].kvs)

(* The line of the application number i. *)
LineOf(lines, n, i) ==
    \E m \in 1 .. n : lines[m].kind = "app" /\ CountOf(lines, "app", m) = i

AppsRead(lines, n, got) ==
    /\ got \in Seq(AppRecord)
    /\ \A i \in DOMAIN got : got[i].type # "invalid"
    /\ Len(got) = CountOf(lines, "app", n)
    /\ \A m \in 1 .. n : lines[m].kind = "app" =>
           AppTaken(lines, m, got[CountOf(lines, "app", m)])
    /\ \A i \in DOMAIN got : LineOf(lines, n, i)

ConnsRead(lines, n, cs) ==
    /\ cs \in Seq(Statement)
    /\ Len(cs) = CountOf(lines, "connect", n)
    /\ \A m \in 1 .. n : lines[m].kind = "connect" =>
           ConnTaken(lines, m, cs[CountOf(lines, "connect", m)])

LEMMA AppendedAt ==
    ASSUME NEW S, NEW q \in Seq(S), NEW x \in S
    PROVE  /\ Append(q, x) \in Seq(S) /\ Len(q) \in Nat
           /\ Len(Append(q, x)) = Len(q) + 1
           /\ Append(q, x)[Len(q) + 1] = x
           /\ \A i \in 1 .. Len(q) : Append(q, x)[i] = q[i]
           /\ DOMAIN q = 1 .. Len(q) /\ DOMAIN Append(q, x) = 1 .. Len(q) + 1
OBVIOUS

(* Lines of other kinds leave the three lists alone. *)
LEMMA OthersKept ==
    ASSUME NEW lines, NEW n \in Nat
    PROVE  /\ \A d : (lines[n + 1].kind # "defaults" /\ DefaultsRead(lines, n, d)) =>
                  DefaultsRead(lines, n + 1, d)
           /\ \A got : (lines[n + 1].kind # "app" /\ AppsRead(lines, n, got)) =>
                  AppsRead(lines, n + 1, got)
           /\ \A cs : (lines[n + 1].kind # "connect" /\ ConnsRead(lines, n, cs)) =>
                  ConnsRead(lines, n + 1, cs)
<1>2. \A m \in 1 .. n + 1 : m \in 1 .. n \/ m = n + 1
  OBVIOUS
<1>0. \A i : LineOf(lines, n, i) => LineOf(lines, n + 1, i)
  BY DEF LineOf
<1>1. ASSUME NEW d, lines[n + 1].kind # "defaults", DefaultsRead(lines, n, d)
      PROVE  DefaultsRead(lines, n + 1, d)
  BY <1>1, <1>2, GivenNext DEF DefaultsRead
<1>3. ASSUME NEW got, lines[n + 1].kind # "app", AppsRead(lines, n, got)
      PROVE  AppsRead(lines, n + 1, got)
  <2>1. CountOf(lines, "app", n + 1) = CountOf(lines, "app", n)
    BY <1>3, CountUpTo
  <2> QED
    BY <1>0, <1>2, <1>3, <2>1 DEF AppsRead
<1>4. ASSUME NEW cs, lines[n + 1].kind # "connect", ConnsRead(lines, n, cs)
      PROVE  ConnsRead(lines, n + 1, cs)
  <2>1. CountOf(lines, "connect", n + 1) = CountOf(lines, "connect", n)
    BY <1>4, CountUpTo
  <2> QED
    BY <1>2, <1>4, <2>1 DEF ConnsRead
<1> QED
  BY <1>1, <1>3, <1>4

LEMMA DefaultsLine ==
    ASSUME NEW lines, NEW n \in Nat, lines[n + 1].kind = "defaults",
           lines[n + 1].kvs \in Seq(KeyValue), WellFormed(lines[n + 1].kvs),
           NEW d, DefaultsRead(lines, n, d)
    PROVE  DefaultsRead(lines, n + 1, FoldLeft(SetDefault, d, lines[n + 1].kvs))
<1> DEFINE kvs == lines[n + 1].kvs
           e == FoldLeft(SetDefault, d, kvs)
<1>1. d \in [Keys -> Text] /\ \A k \in Keys : d[k] = Given(lines, n, k)
  BY DEF DefaultsRead
<1>2. /\ e \in [Keys -> Text]
      /\ \A k \in Keys : e[k] = IF Assigns(kvs, k) THEN Effective(kvs, k) ELSE d[k]
  <2> HIDE DEF kvs
  <2>1. kvs \in Seq(KeyValue)
    BY DEF kvs
  <2> QED
    BY <1>1, <2>1, DefaultsSet
<1> HIDE DEF e
<1>3. \A k \in Keys : e[k] = Given(lines, n + 1, k)
  BY <1>1, <1>2, GivenNext
<1>4. \A m \in 1 .. n + 1 : lines[m].kind = "defaults" => WellFormed(lines[m].kvs)
  <2>1. \A m \in 1 .. n + 1 : m \in 1 .. n \/ m = n + 1
    OBVIOUS
  <2> QED
    BY <2>1 DEF DefaultsRead
<1> QED
  BY <1>2, <1>3, <1>4 DEF DefaultsRead, e

(* An application more. *)
LEMMA AppAppended ==
    ASSUME NEW lines, NEW n \in Nat, lines[n + 1].kind = "app",
           NEW got, AppsRead(lines, n, got),
           NEW app \in AppRecord, app.type # "invalid", AppTaken(lines, n + 1, app)
    PROVE  AppsRead(lines, n + 1, Append(got, app))
<1>1. /\ got \in Seq(AppRecord) /\ Len(got) = CountOf(lines, "app", n)
      /\ \A i \in DOMAIN got : got[i].type # "invalid"
      /\ \A m \in 1 .. n : lines[m].kind = "app" =>
             AppTaken(lines, m, got[CountOf(lines, "app", m)])
  BY DEF AppsRead
<1>2. /\ CountOf(lines, "app", n + 1) = Len(got) + 1
      /\ \A m \in 1 .. n : lines[m].kind = "app" => CountOf(lines, "app", m) \in 1 .. Len(got)
  <2>1. /\ CountOf(lines, "app", n + 1) = CountOf(lines, "app", n) + 1
        /\ \A m \in 1 .. n : lines[m].kind = "app" =>
               CountOf(lines, "app", m) \in 1 .. CountOf(lines, "app", n)
    BY CountUpTo
  <2> QED
    BY <1>1, <2>1, Zenon
<1> DEFINE more == Append(got, app)
<1>3. /\ more \in Seq(AppRecord) /\ Len(got) \in Nat /\ Len(more) = Len(got) + 1
      /\ more[Len(got) + 1] = app
      /\ \A i \in 1 .. Len(got) : more[i] = got[i]
      /\ DOMAIN got = 1 .. Len(got) /\ DOMAIN more = 1 .. Len(got) + 1
  <2>1. got \in Seq(AppRecord)
    BY <1>1
  <2>2. DOMAIN got = 1 .. Len(got) /\ DOMAIN more = 1 .. Len(got) + 1
    BY <2>1, AppendedAt
  <2>3. more \in Seq(AppRecord) /\ Len(got) \in Nat /\ Len(more) = Len(got) + 1
    BY <2>1, AppendedAt
  <2>4. more[Len(got) + 1] = app /\ \A i \in 1 .. Len(got) : more[i] = got[i]
    BY <2>1, AppendedAt
  <2> QED
    BY <2>2, <2>3, <2>4
<1> HIDE DEF more
<1>4. ASSUME NEW m \in 1 .. n + 1, lines[m].kind = "app"
       PROVE  AppTaken(lines, m, more[CountOf(lines, "app", m)])
  <2>1. CASE m = n + 1
    BY <1>2, <1>3, <2>1
  <2>2. CASE m # n + 1
    <3>1. m \in 1 .. n
      BY <2>2
    <3> QED
      BY <1>1, <1>2, <1>3, <1>4, <3>1
  <2> QED
    BY <2>1, <2>2
<1>5. ASSUME NEW i \in DOMAIN more PROVE more[i].type # "invalid"
  <2>1. CASE i = Len(got) + 1
    BY <1>3, <2>1
  <2>2. CASE i # Len(got) + 1
    <3>1. \A k \in Nat : i \in 1 .. k + 1 => i = k + 1 \/ i \in 1 .. k
      OBVIOUS
    <3>2. i \in 1 .. Len(got)
      BY <1>3, <2>2, <3>1, Zenon
    <3>3. i \in DOMAIN got /\ more[i] = got[i]
      BY <1>3, <3>2, Zenon
    <3> QED
      BY <1>1, <3>3, Zenon
  <2> QED
    BY <2>1, <2>2
<1>6. ASSUME NEW i \in DOMAIN more PROVE LineOf(lines, n + 1, i)
  <2>1. CASE i = Len(got) + 1
    BY <1>2, <2>1 DEF LineOf
  <2>2. CASE i # Len(got) + 1
    <3>1. i \in DOMAIN got
      BY <1>3, <2>2
    <3>2. LineOf(lines, n, i)
      BY <3>1 DEF AppsRead
    <3> QED
      BY <3>2 DEF LineOf
  <2> QED
    BY <2>1, <2>2
<1> QED
  BY <1>2, <1>3, <1>4, <1>5, <1>6 DEF AppsRead, more

(* A list holds the assignments of both its parts. *)
LEMMA FrontHeld ==
    ASSUME NEW S, NEW p \in Seq(S), NEW q \in Seq(S)
    PROVE  Holds(p \o q, p) /\ Holds(p \o q, q) /\ Len(p \o q) = Len(p) + Len(q)
<1>1. /\ p \o q \in Seq(S) /\ Len(p \o q) = Len(p) + Len(q)
      /\ Len(p) \in Nat /\ Len(q) \in Nat
      /\ \A i \in 1 .. Len(p) : (p \o q)[i] = p[i]
      /\ \A i \in 1 .. Len(q) : (p \o q)[Len(p) + i] = q[i]
  OBVIOUS
<1>2. /\ DOMAIN p = 1 .. Len(p) /\ DOMAIN q = 1 .. Len(q)
      /\ DOMAIN (p \o q) = 1 .. Len(p) + Len(q)
  BY <1>1, LenProperties
<1> DEFINE r == p \o q
<1>3. ASSUME NEW i \in DOMAIN p PROVE \E j \in DOMAIN r : r[j] = p[i]
  <2>1. i \in DOMAIN r /\ r[i] = p[i]
    BY <1>1, <1>2
  <2> QED
    BY <2>1
<1>4. ASSUME NEW i \in DOMAIN q PROVE \E j \in DOMAIN r : r[j] = q[i]
  <2>1. Len(p) + i \in DOMAIN r /\ r[Len(p) + i] = q[i]
    BY <1>1, <1>2
  <2> QED
    BY <2>1
<1> QED
  BY <1>1, <1>3, <1>4 DEF Holds

(* An application line is taken with the defaults in force at it (readApp). *)
LEMMA AppLine ==
    ASSUME NEW lines, NEW n \in Nat, lines[n + 1].kind = "app", lines[n + 1] \in AppRecord,
           lines[n + 1].type # "invalid", WellFormed(lines[n + 1].kvs),
           NEW d, DefaultsRead(lines, n, d), NEW got, AppsRead(lines, n, got),
           NEW app, app = [lines[n + 1] EXCEPT !.kvs = @ \o SetToSeq(Inherited(@, d))]
    PROVE  AppsRead(lines, n + 1, Append(got, app))
<1> DEFINE l == lines[n + 1]
           list == l.kvs \o SetToSeq(Inherited(l.kvs, d))
<1>1. l.kvs \in Seq(KeyValue) /\ d \in [Keys -> Text]
  BY DEF AppRecord, DefaultsRead
<1>2. ASSUME NEW k \in Keys
      PROVE  /\ list \in Seq(KeyValue)
             /\ Effective(list, k) = IF Assigns(l.kvs, k) THEN Effective(l.kvs, k) ELSE d[k]
  <2> DEFINE kvs == l.kvs
  <2>1. kvs \in Seq(KeyValue)
    BY <1>1
  <2> HIDE DEF kvs
  <2>2. /\ kvs \o SetToSeq(Inherited(kvs, d)) \in Seq(KeyValue)
        /\ Effective(kvs \o SetToSeq(Inherited(kvs, d)), k) =
               IF Assigns(kvs, k) THEN Effective(kvs, k) ELSE d[k]
    BY <1>1, <2>1, DefaultsApplied
  <2> QED
    BY <2>2 DEF kvs
<1>3. list \in Seq(KeyValue)
  <2> DEFINE kvs == l.kvs
             q == SetToSeq(Inherited(kvs, d))
  <2>1. kvs \in Seq(KeyValue)
    BY <1>1
  <2> HIDE DEF kvs
  <2>2. q \in Seq(KeyValue)
    BY <1>1, InheritedListed
  <2> HIDE DEF q
  <2>3. kvs \o q \in Seq(KeyValue)
    BY <2>1, <2>2, ConcatProperties
  <2> QED
    BY <2>3 DEF kvs, q
<1>8. Holds(list, l.kvs)
  <2> DEFINE kvs == l.kvs
             q == SetToSeq(Inherited(kvs, d))
  <2>1. kvs \in Seq(KeyValue)
    BY <1>1
  <2> HIDE DEF kvs
  <2>2. q \in Seq(KeyValue)
    BY <1>1, InheritedListed
  <2> HIDE DEF q
  <2>3. Holds(kvs \o q, kvs)
    BY <2>1, <2>2, FrontHeld
  <2> QED
    BY <2>3 DEF kvs, q
<1>4. app = [l EXCEPT !.kvs = list]
  OBVIOUS
<1> HIDE DEF list
<1>5. /\ app \in AppRecord
      /\ app.tag = l.tag /\ app.type = l.type /\ app.host = l.host /\ app.kvs = list
  BY <1>3, <1>4 DEF AppRecord
<1>6. AppTaken(lines, n + 1, app)
  <2>1. \A k \in Keys : d[k] = Given(lines, n, k)
    BY DEF DefaultsRead
  <2>2. n + 1 - 1 = n
    OBVIOUS
  <2>3. \A k \in Keys : Effective(app.kvs, k) =
            IF Assigns(l.kvs, k) THEN Effective(l.kvs, k) ELSE Given(lines, n + 1 - 1, k)
    BY <1>2, <1>5, <2>1, <2>2
  <2>4. WellFormed(l.kvs) /\ Holds(app.kvs, l.kvs)
    BY <1>5, <1>8
  <2>5. <<app.tag, app.type, app.host>> = <<l.tag, l.type, l.host>>
    BY <1>5
  <2> QED
    BY <2>3, <2>4, <2>5 DEF AppTaken
<1>7. app.type # "invalid"
  BY <1>5
<1> QED
  BY <1>5, <1>6, <1>7, AppAppended

(* A connect line is taken (readConnect). *)
LEMMA ConnLine ==
    ASSUME NEW lines, NEW n \in Nat, lines[n + 1].kind = "connect",
           NEW cs, ConnsRead(lines, n, cs), NEW c \in Statement, ConnTaken(lines, n + 1, c)
    PROVE  ConnsRead(lines, n + 1, Append(cs, c))
<1>1. /\ cs \in Seq(Statement) /\ Len(cs) = CountOf(lines, "connect", n)
      /\ \A m \in 1 .. n : lines[m].kind = "connect" =>
             ConnTaken(lines, m, cs[CountOf(lines, "connect", m)])
  BY DEF ConnsRead
<1>2. /\ CountOf(lines, "connect", n + 1) = Len(cs) + 1
      /\ \A m \in 1 .. n : lines[m].kind = "connect" =>
             CountOf(lines, "connect", m) \in 1 .. Len(cs)
  <2>1. /\ CountOf(lines, "connect", n + 1) = CountOf(lines, "connect", n) + 1
        /\ \A m \in 1 .. n : lines[m].kind = "connect" =>
               CountOf(lines, "connect", m) \in 1 .. CountOf(lines, "connect", n)
    BY CountUpTo
  <2> QED
    BY <1>1, <2>1, Zenon
<1> DEFINE more == Append(cs, c)
<1>3. /\ more \in Seq(Statement) /\ Len(cs) \in Nat /\ Len(more) = Len(cs) + 1
      /\ more[Len(cs) + 1] = c
      /\ \A i \in 1 .. Len(cs) : more[i] = cs[i]
  BY <1>1, AppendedAt
<1> HIDE DEF more
<1>4. ASSUME NEW m \in 1 .. n + 1, lines[m].kind = "connect"
      PROVE  ConnTaken(lines, m, more[CountOf(lines, "connect", m)])
  <2>1. CASE m = n + 1
    BY <1>2, <1>3, <2>1
  <2>2. CASE m # n + 1
    <3>1. m \in 1 .. n
      BY <2>2
    <3> QED
      BY <1>1, <1>2, <1>3, <1>4, <3>1
  <2> QED
    BY <2>1, <2>2
<1> QED
  BY <1>2, <1>3, <1>4 DEF ConnsRead, more

-----------------------------------------------------------------------------
(* What loadWifiConfig holds after n lines of a file. *)
Object == [type : Text, attrs : Seq(KeyValue)]
WifiHeld == [standard : Text, manager : Object, phy : Seq(KeyValue),
             default : BOOLEAN, delay : Object, losses : Seq(Object)]

WifiRead(lines, n, w) ==
    /\ w \in WifiHeld
    /\ w.default = (\A m \in 1 .. n : lines[m].kind \notin {"delay", "add_loss"})
    /\ Len(w.losses) = CountOf(lines, "add_loss", n)
    /\ \A m \in 1 .. n : lines[m].kind = "add_loss" =>
           w.losses[CountOf(lines, "add_loss", m)]
               = [type |-> lines[m].type, attrs |-> lines[m].attrs]

LEMMA ReadObjectType ==
    ASSUME NEW obj \in Object, NEW type \in Text, NEW attrs \in Seq(KeyValue)
    PROVE  /\ ReadObject(obj, type, attrs) \in Object
           /\ ReadObject(NoObject, type, attrs) = [type |-> type, attrs |-> attrs]
<1>1. obj.attrs \in Seq(KeyValue)
  BY DEF Object
<1>2. obj.attrs \o attrs \in Seq(KeyValue) /\ <<>> \o attrs = attrs
  BY <1>1, ConcatProperties, ConcatEmptySeq
<1> QED
  BY <1>2 DEF ReadObject, Object, NoObject

LEMMA WifiLine ==
    ASSUME NEW lines, NEW n \in Nat, lines[n + 1] \in WifiFileLine, Acceptable(lines[n + 1]),
           NEW w, WifiRead(lines, n, w)
    PROVE  WifiRead(lines, n + 1, Take(w, lines[n + 1]))
<1> DEFINE l == lines[n + 1]
           v == Take(w, l)
<1>1. l.kind \in STRING /\ l.type \in Text /\ l.attrs \in Seq(KeyValue)
  BY DEF WifiFileLine
<1>2. /\ w \in WifiHeld
      /\ w.default = (\A m \in 1 .. n : lines[m].kind \notin {"delay", "add_loss"})
      /\ Len(w.losses) = CountOf(lines, "add_loss", n)
      /\ \A m \in 1 .. n : lines[m].kind = "add_loss" =>
             w.losses[CountOf(lines, "add_loss", m)]
                 = [type |-> lines[m].type, attrs |-> lines[m].attrs]
  BY DEF WifiRead
<1>3. /\ w.losses \in Seq(Object) /\ w.manager \in Object /\ w.delay \in Object
      /\ w.phy \in Seq(KeyValue) /\ w.default \in BOOLEAN
  BY <1>2 DEF WifiHeld
<1>4. /\ CountOf(lines, "add_loss", n + 1)
             = Len(w.losses) + (IF l.kind = "add_loss" THEN 1 ELSE 0)
      /\ \A m \in 1 .. n : lines[m].kind = "add_loss" =>
             CountOf(lines, "add_loss", m) \in 1 .. Len(w.losses)
  <2>1. /\ CountOf(lines, "add_loss", n + 1)
               = CountOf(lines, "add_loss", n) + (IF l.kind = "add_loss" THEN 1 ELSE 0)
        /\ \A m \in 1 .. n : lines[m].kind = "add_loss" =>
               CountOf(lines, "add_loss", m) \in 1 .. CountOf(lines, "add_loss", n)
    BY CountUpTo
  <2> QED
    BY <1>2, <2>1, Zenon
<1>5. l.kind \in {"standard", "ratecontrol", "phy_attribs", "delay", "add_loss"}
  BY DEF Acceptable
<1>6. \A m \in 1 .. n + 1 : m \in 1 .. n \/ m = n + 1
  OBVIOUS
<1>7. (\A m \in 1 .. n + 1 : lines[m].kind \notin {"delay", "add_loss"})
          = (w.default /\ l.kind \notin {"delay", "add_loss"})
  <2>1. n + 1 \in 1 .. n + 1 /\ 1 .. n \subseteq 1 .. n + 1
    OBVIOUS
  <2> QED
    BY <1>2, <1>3, <1>6, <2>1
<1>8. CASE l.kind = "add_loss"
  <2>1. v = WithLoss(w, l)
    BY <1>8 DEF Take
  <2>2. v = [w EXCEPT !.losses = Append(w.losses, [type |-> l.type, attrs |-> l.attrs]),
                      !.default = FALSE]
    BY <1>1, <2>1, <1>3, ReadObjectType DEF WithLoss
  <2> DEFINE more == Append(w.losses, [type |-> l.type, attrs |-> l.attrs])
  <2>3. [type |-> l.type, attrs |-> l.attrs] \in Object
    BY <1>1 DEF Object
  <2>4. /\ more \in Seq(Object) /\ Len(w.losses) \in Nat /\ Len(more) = Len(w.losses) + 1
        /\ more[Len(w.losses) + 1] = [type |-> l.type, attrs |-> l.attrs]
        /\ \A i \in 1 .. Len(w.losses) : more[i] = w.losses[i]
    BY <1>3, <2>3, AppendedAt
  <2> HIDE DEF more
  <2>5. v \in WifiHeld /\ v.losses = more /\ v.default = FALSE
    BY <1>2, <2>2, <2>4 DEF WifiHeld, more
  <2>6. ASSUME NEW m \in 1 .. n + 1, lines[m].kind = "add_loss"
        PROVE  more[CountOf(lines, "add_loss", m)]
                   = [type |-> lines[m].type, attrs |-> lines[m].attrs]
    <3>1. CASE m = n + 1
      BY <1>4, <1>8, <2>4, <3>1
    <3>2. CASE m # n + 1
      <4>1. m \in 1 .. n
        BY <1>6, <3>2
      <4> QED
        BY <1>2, <1>4, <2>4, <2>6, <4>1
    <3> QED
      BY <3>1, <3>2
  <2> HIDE DEF v
  <2>7. WifiRead(lines, n + 1, v)
    BY <1>4, <1>7, <1>8, <2>4, <2>5, <2>6 DEF WifiRead
  <2> QED
    BY <2>7 DEF v
<1>9. CASE l.kind # "add_loss"
  <2>1. /\ v \in WifiHeld /\ v.losses = w.losses
        /\ v.default = (w.default /\ l.kind # "delay")
    <3>1. CASE l.kind = "standard"
      <4>1. v = [w EXCEPT !.standard = l.type]
        BY <3>1 DEF Take
      <4> QED
        BY <1>1, <1>2, <3>1, <4>1 DEF WifiHeld
    <3>2. CASE l.kind = "ratecontrol"
      <4>1. v = [w EXCEPT !.manager = ReadObject(w.manager, l.type, l.attrs)]
        BY <3>2 DEF Take
      <4>2. ReadObject(w.manager, l.type, l.attrs) \in Object
        BY <1>1, <1>3, ReadObjectType
      <4> QED
        BY <1>2, <3>2, <4>1, <4>2 DEF WifiHeld
    <3>3. CASE l.kind = "phy_attribs"
      <4>1. v = [w EXCEPT !.phy = w.phy \o l.attrs]
        BY <3>3 DEF Take
      <4>2. w.phy \o l.attrs \in Seq(KeyValue)
        BY <1>1, <1>3, ConcatProperties
      <4> QED
        BY <1>2, <3>3, <4>1, <4>2 DEF WifiHeld
    <3>4. CASE l.kind = "delay"
      <4>1. v = [w EXCEPT !.delay = ReadObject(w.delay, l.type, l.attrs), !.default = FALSE]
        BY <3>4 DEF Take
      <4>2. ReadObject(w.delay, l.type, l.attrs) \in Object
        BY <1>1, <1>3, ReadObjectType
      <4> QED
        BY <1>2, <3>4, <4>1, <4>2 DEF WifiHeld
    <3> QED
      BY <1>5, <1>9, <3>1, <3>2, <3>3, <3>4
  <2> HIDE DEF v
  <2>2. v.default = (\A m \in 1 .. n + 1 : lines[m].kind \notin {"delay", "add_loss"})
    BY <1>7, <1>9, <2>1
  <2>3. Len(w.losses) + 0 = Len(w.losses)
    BY <1>3, LenProperties
  <2>4. ASSUME NEW m \in 1 .. n + 1, lines[m].kind = "add_loss"
        PROVE  v.losses[CountOf(lines, "add_loss", m)]
                   = [type |-> lines[m].type, attrs |-> lines[m].attrs]
    <3>1. m \in 1 .. n
      BY <1>6, <1>9, <2>4
    <3> QED
      BY <1>2, <2>1, <2>4, <3>1
  <2>5. Len(v.losses) = CountOf(lines, "add_loss", n + 1)
    BY <1>4, <1>9, <2>1, <2>3
  <2>6. WifiRead(lines, n + 1, v)
    BY <2>1, <2>2, <2>4, <2>5 DEF WifiRead
  <2> QED
    BY <2>6 DEF v
<1> QED
  BY <1>8, <1>9

(* The lines of a kind among the first n. *)
KindUpTo(lines, kind, n) == {m \in 1 .. n : lines[m].kind = kind}

LEMMA KindMore ==
    ASSUME NEW lines, NEW kind, NEW n \in Nat
    PROVE  /\ KindUpTo(lines, kind, 0) = {}
           /\ KindUpTo(lines, kind, n) \subseteq 1 .. n
           /\ lines[n + 1].kind # kind => KindUpTo(lines, kind, n + 1) = KindUpTo(lines, kind, n)
           /\ lines[n + 1].kind = kind =>
                  /\ KindUpTo(lines, kind, n + 1) = KindUpTo(lines, kind, n) \cup {n + 1}
                  /\ Max(KindUpTo(lines, kind, n + 1)) = n + 1
<1>1. KindUpTo(lines, kind, 0) = {} /\ KindUpTo(lines, kind, n) \subseteq 1 .. n
  BY DEF KindUpTo
<1>2. ASSUME lines[n + 1].kind # kind
      PROVE  KindUpTo(lines, kind, n + 1) = KindUpTo(lines, kind, n)
  BY <1>2 DEF KindUpTo
<1>3. ASSUME lines[n + 1].kind = kind
      PROVE  /\ KindUpTo(lines, kind, n + 1) = KindUpTo(lines, kind, n) \cup {n + 1}
             /\ Max(KindUpTo(lines, kind, n + 1)) = n + 1
  <2>1. KindUpTo(lines, kind, n + 1) = KindUpTo(lines, kind, n) \cup {n + 1}
    BY <1>3 DEF KindUpTo
  <2>2. /\ n + 1 \in KindUpTo(lines, kind, n + 1)
        /\ \A y \in KindUpTo(lines, kind, n + 1) : y <= n + 1
        /\ KindUpTo(lines, kind, n + 1) \subseteq Int
    BY <1>3 DEF KindUpTo
  <2> QED
    BY <2>1, <2>2, IsLast
<1> QED
  BY <1>1, <1>2, <1>3

LEMMA PlacesMore ==
    ASSUME NEW lines, NEW n \in Nat, NEW about \in SUBSET (1 .. n),
           IsFiniteSet(Places(lines, about)),
           NEW S, lines[n + 1].attrs \in Seq(S)
    PROVE  /\ IsFiniteSet(Places(lines, about \cup {n + 1}))
           /\ Cardinality(Places(lines, about \cup {n + 1}))
                  = Cardinality(Places(lines, about)) + Len(lines[n + 1].attrs)
<1> DEFINE old == Places(lines, about)
           q == lines[n + 1].attrs
           new == {n + 1} \X DOMAIN q
<1>1. Places(lines, about \cup {n + 1}) = old \cup new
  BY DEF Places
<1>2. old \cap new = {}
  <2>1. \A x \in old : x[1] \in 1 .. n
    BY DEF Places
  <2>2. \A x \in new : x[1] = n + 1
    OBVIOUS
  <2>3. n + 1 \notin 1 .. n
    OBVIOUS
  <2> HIDE DEF old, new
  <2> QED
    BY <2>1, <2>2, <2>3
<1>3. DOMAIN q = 1 .. Len(q) /\ Len(q) \in Nat
  BY LenProperties
<1> HIDE DEF q
<1>4. IsFiniteSet(DOMAIN q) /\ Cardinality(DOMAIN q) = Len(q)
  <2>1. \A k \in Nat : IsFiniteSet(1 .. k) /\ Cardinality(1 .. k) = k
    <3> SUFFICES ASSUME NEW k \in Nat PROVE IsFiniteSet(1 .. k) /\ Cardinality(1 .. k) = k
      OBVIOUS
    <3>1. /\ IsFiniteSet(1 .. k)
          /\ Cardinality(1 .. k) = IF 1 > k THEN 0 ELSE k - 1 + 1
      BY FS_Interval
    <3> QED
      BY <3>1
  <2> QED
    BY <1>3, <2>1, Zenon
<1>5. IsFiniteSet({n + 1}) /\ Cardinality({n + 1}) = 1
  BY FS_Singleton
<1>6. IsFiniteSet(new) /\ Cardinality(new) = 1 * Len(q)
  <2>1. IsFiniteSet(new) /\ Cardinality(new) = Cardinality({n + 1}) * Cardinality(DOMAIN q)
    BY <1>4, <1>5, FS_Product
  <2> QED
    BY <1>4, <1>5, <2>1
<1> HIDE DEF old, new
<1>7. IsFiniteSet(old)
  BY DEF old
<1>8. /\ IsFiniteSet(old \cup new)
      /\ Cardinality(old \cup new) = Cardinality(old) + Cardinality(new) - Cardinality(old \cap new)
  BY <1>6, <1>7, FS_Union
<1>9. Cardinality(old \cap new) = 0 /\ Cardinality(old) \in Nat
  BY <1>2, <1>7, FS_EmptySet, FS_CardinalityType
<1>10. Cardinality(old \cup new) = Cardinality(old) + Len(q)
  BY <1>3, <1>6, <1>8, <1>9
<1> QED
  BY <1>1, <1>8, <1>10 DEF old, q

(* The assignments of the lines, each in its place.                        *)
Ordered(attrs, lines, about) ==
    /\ IsFiniteSet(Places(lines, about))
    /\ Len(attrs) = Cardinality(Places(lines, about))
    /\ \A m \in about : \A j \in DOMAIN lines[m].attrs :
           LET i == Cardinality(Places(lines, {k \in about : k < m})) + j
           IN  i \in DOMAIN attrs /\ attrs[i] = lines[m].attrs[j]

LEMMA OrderedHolds ==
    ASSUME NEW attrs, NEW lines, NEW about, Ordered(attrs, lines, about)
    PROVE  InOrder(attrs, lines, about) /\ \A m \in about : Holds(attrs, lines[m].attrs)
<1>1. \A m \in about : \A j \in DOMAIN lines[m].attrs :
          LET i == Cardinality(Places(lines, {k \in about : k < m})) + j
          IN  i \in DOMAIN attrs /\ attrs[i] = lines[m].attrs[j]
  BY DEF Ordered
<1>2. Len(attrs) = Cardinality(Places(lines, about))
  BY DEF Ordered
<1>3. InOrder(attrs, lines, about)
  BY <1>1, <1>2 DEF InOrder
<1>4. ASSUME NEW m \in about, NEW j \in DOMAIN lines[m].attrs
      PROVE  \E i \in DOMAIN attrs : attrs[i] = lines[m].attrs[j]
  BY <1>1
<1> QED
  BY <1>3, <1>4 DEF Holds

(* The assignments of a further line come after those of the lines before. *)
LEMMA OrderedMore ==
    ASSUME NEW lines, NEW n \in Nat, NEW about \in SUBSET (1 .. n), NEW S,
           NEW p \in Seq(S), NEW q \in Seq(S), q = lines[n + 1].attrs,
           Ordered(p, lines, about)
    PROVE  Ordered(p \o q, lines, about \cup {n + 1})
<1> DEFINE more == about \cup {n + 1}
           r == p \o q
           earlier(set, m) == {k \in set : k < m}
<1>1. /\ IsFiniteSet(Places(lines, about)) /\ Len(p) = Cardinality(Places(lines, about))
      /\ \A m \in about : \A j \in DOMAIN lines[m].attrs :
             LET i == Cardinality(Places(lines, earlier(about, m))) + j
             IN  i \in DOMAIN p /\ p[i] = lines[m].attrs[j]
  BY DEF Ordered
<1>2. /\ Len(p) \in Nat /\ Len(q) \in Nat /\ DOMAIN p = 1 .. Len(p) /\ DOMAIN q = 1 .. Len(q)
      /\ r \in Seq(S) /\ Len(r) = Len(p) + Len(q) /\ DOMAIN r = 1 .. Len(p) + Len(q)
      /\ \A i \in 1 .. Len(p) + Len(q) : r[i] = IF i <= Len(p) THEN p[i] ELSE q[i - Len(p)]
  <2>1. /\ r \in Seq(S) /\ Len(r) = Len(p) + Len(q)
        /\ \A i \in 1 .. Len(p) + Len(q) : r[i] = IF i <= Len(p) THEN p[i] ELSE q[i - Len(p)]
    BY ConcatProperties
  <2> HIDE DEF r
  <2>2. DOMAIN r = 1 .. Len(r)
    BY <2>1, LenProperties
  <2> QED
    BY <2>1, <2>2, LenProperties
<1> HIDE DEF r
<1>3. /\ IsFiniteSet(Places(lines, more))
      /\ Cardinality(Places(lines, more)) = Cardinality(Places(lines, about)) + Len(q)
  <2>1. lines[n + 1].attrs \in Seq(S)
    OBVIOUS
  <2>2. /\ IsFiniteSet(Places(lines, about \cup {n + 1}))
        /\ Cardinality(Places(lines, about \cup {n + 1}))
               = Cardinality(Places(lines, about)) + Len(lines[n + 1].attrs)
    BY <1>1, <2>1, PlacesMore
  <2> QED
    BY <2>2
<1>4. earlier(more, n + 1) = about /\ \A m \in about : earlier(more, m) = earlier(about, m)
  <2>1. \A k \in about : k \in 1 .. n /\ k < n + 1 /\ ~(n + 1 < k)
    OBVIOUS
  <2>2. earlier(more, n + 1) = about
    <3>1. ~(n + 1 < n + 1)
      OBVIOUS
    <3> QED
      BY <2>1, <3>1
  <2>3. ASSUME NEW m \in about PROVE earlier(more, m) = earlier(about, m)
    BY <2>1
  <2> QED
    BY <2>2, <2>3
<1> HIDE DEF earlier, more
<1>5. ASSUME NEW m \in more, NEW j \in DOMAIN lines[m].attrs, NEW i,
             i = Cardinality(Places(lines, earlier(more, m))) + j
      PROVE  i \in DOMAIN r /\ r[i] = lines[m].attrs[j]
  <2>1. CASE m = n + 1
    <3>1. j \in 1 .. Len(q) /\ i = Len(p) + j /\ lines[m].attrs[j] = q[j]
      BY <1>1, <1>2, <1>4, <1>5, <2>1
    <3>2. i \in 1 .. Len(p) + Len(q) /\ ~(i <= Len(p)) /\ i - Len(p) = j
      BY <1>2, <3>1
    <3> QED
      BY <1>2, <3>1, <3>2
  <2>2. CASE m # n + 1
    <3>1. m \in about
      BY <2>2 DEF more
    <3>2. i \in DOMAIN p /\ p[i] = lines[m].attrs[j]
      BY <1>1, <1>4, <1>5, <3>1
    <3>3. i \in 1 .. Len(p) + Len(q) /\ i <= Len(p)
      BY <1>2, <3>2
    <3> QED
      BY <1>2, <3>2, <3>3
  <2> QED
    BY <2>1, <2>2
<1>6. Len(r) = Cardinality(Places(lines, more))
  BY <1>1, <1>2, <1>3
<1>7. Ordered(r, lines, more)
  BY <1>3, <1>5, <1>6 DEF Ordered, earlier
<1> QED
  BY <1>7 DEF r, more

(* No line, no assignment. *)
LEMMA OrderedNone ==
    ASSUME NEW lines
    PROVE  Ordered(<<>>, lines, {})
<1>1. Places(lines, {}) = {} /\ Len(<<>>) = 0
  BY DEF Places
<1> QED
  BY <1>1, FS_EmptySet DEF Ordered

(* obj is what the lines about one object have left of it: the type of the *)
(* last, the assignments of all of them.                                   *)
ObjectRead(lines, about, obj) ==
    /\ about = {} => obj = NoObject
    /\ about # {} => obj.type = lines[Max(about)].type
    /\ Ordered(obj.attrs, lines, about)

LEMMA ObjectMore ==
    ASSUME NEW lines, NEW n \in Nat, NEW kind, lines[n + 1].kind = kind,
           lines[n + 1].type \in Text, lines[n + 1].attrs \in Seq(KeyValue),
           NEW obj \in Object, ObjectRead(lines, KindUpTo(lines, kind, n), obj)
    PROVE  ObjectRead(lines, KindUpTo(lines, kind, n + 1),
                      ReadObject(obj, lines[n + 1].type, lines[n + 1].attrs))
<1> DEFINE about == KindUpTo(lines, kind, n)
           more == KindUpTo(lines, kind, n + 1)
           q == lines[n + 1].attrs
           new == ReadObject(obj, lines[n + 1].type, q)
<1>1. about \in SUBSET (1 .. n) /\ more = about \cup {n + 1} /\ Max(more) = n + 1
  BY KindMore
<1>2. ObjectRead(lines, about, obj)
  OBVIOUS
<1> HIDE DEF about, more
<1>3. obj.attrs \in Seq(KeyValue)
  BY DEF Object
<1>4. new.type = lines[n + 1].type /\ new.attrs = obj.attrs \o q
  BY DEF ReadObject
<1> HIDE DEF new, q
<1>5. q \in Seq(KeyValue)
  BY DEF q
<1>6. Ordered(new.attrs, lines, more)
  <2>1. Ordered(obj.attrs, lines, about)
    BY <1>2 DEF ObjectRead
  <2>2. q = lines[n + 1].attrs
    BY DEF q
  <2>3. Ordered(obj.attrs \o q, lines, about \cup {n + 1})
    BY <1>1, <1>3, <1>5, <2>1, <2>2, OrderedMore
  <2> QED
    BY <1>1, <1>4, <2>3
<1>9. more # {} /\ new.type = lines[Max(more)].type
  BY <1>1, <1>4
<1>10. ObjectRead(lines, more, new)
  BY <1>6, <1>9 DEF ObjectRead
<1> QED
  BY <1>10 DEF more, new, q

(* What loadWifiConfig has accepted of the lines read, and kept of them. *)
WifiAccepted(lines, n, w) ==
    /\ \A m \in 1 .. n : Acceptable(lines[m])
    /\ w.standard = IF KindUpTo(lines, "standard", n) = {} THEN NoType
                    ELSE lines[Max(KindUpTo(lines, "standard", n))].type
    /\ ObjectRead(lines, KindUpTo(lines, "ratecontrol", n), w.manager)
    /\ ObjectRead(lines, KindUpTo(lines, "delay", n), w.delay)
    /\ Ordered(w.phy, lines, KindUpTo(lines, "phy_attribs", n))

LEMMA AcceptedLine ==
    ASSUME NEW lines, NEW n \in Nat, lines[n + 1] \in WifiFileLine, Acceptable(lines[n + 1]),
           NEW w \in WifiHeld, WifiAccepted(lines, n, w)
    PROVE  WifiAccepted(lines, n + 1, Take(w, lines[n + 1]))
<1> DEFINE l == lines[n + 1]
           v == Take(w, l)
           Up(kind, k) == KindUpTo(lines, kind, k)
<1>1. l.kind \in STRING /\ l.type \in Text /\ l.attrs \in Seq(KeyValue)
  BY DEF WifiFileLine
<1>2. w.manager \in Object /\ w.delay \in Object /\ w.phy \in Seq(KeyValue)
  BY DEF WifiHeld
<1>3. l.kind \in {"standard", "ratecontrol", "phy_attribs", "delay", "add_loss"}
  BY DEF Acceptable
<1>4. /\ v.standard = IF l.kind = "standard" THEN l.type ELSE w.standard
      /\ v.manager = IF l.kind = "ratecontrol" THEN ReadObject(w.manager, l.type, l.attrs)
                     ELSE w.manager
      /\ v.delay = IF l.kind = "delay" THEN ReadObject(w.delay, l.type, l.attrs) ELSE w.delay
      /\ v.phy = IF l.kind = "phy_attribs" THEN w.phy \o l.attrs ELSE w.phy
  <2>1. CASE l.kind = "standard"
    <3>1. v = [w EXCEPT !.standard = l.type]
      BY <2>1 DEF Take
    <3> HIDE DEF v
    <3> QED
      BY <2>1, <3>1 DEF WifiHeld
  <2>2. CASE l.kind = "ratecontrol"
    <3>1. v = [w EXCEPT !.manager = ReadObject(w.manager, l.type, l.attrs)]
      BY <2>2 DEF Take
    <3> HIDE DEF v
    <3> QED
      BY <2>2, <3>1 DEF WifiHeld
  <2>3. CASE l.kind = "phy_attribs"
    <3>1. v = [w EXCEPT !.phy = w.phy \o l.attrs]
      BY <2>3 DEF Take
    <3> HIDE DEF v
    <3> QED
      BY <2>3, <3>1 DEF WifiHeld
  <2>4. CASE l.kind = "delay"
    <3>1. v = [w EXCEPT !.delay = ReadObject(w.delay, l.type, l.attrs), !.default = FALSE]
      BY <2>4 DEF Take
    <3> HIDE DEF v
    <3> QED
      BY <2>4, <3>1 DEF WifiHeld
  <2>5. CASE l.kind = "add_loss"
    <3>1. v = [w EXCEPT !.losses = Append(w.losses, ReadObject(NoObject, l.type, l.attrs)),
                        !.default = FALSE]
      BY <2>5 DEF Take, WithLoss
    <3> HIDE DEF v
    <3> QED
      BY <2>5, <3>1 DEF WifiHeld
  <2> QED
    BY <1>3, <2>1, <2>2, <2>3, <2>4, <2>5
<1> HIDE DEF v
<1>5. \A m \in 1 .. n + 1 : Acceptable(lines[m])
  <2>1. \A m \in 1 .. n + 1 : m \in 1 .. n \/ m = n + 1
    OBVIOUS
  <2> QED
    BY <2>1 DEF WifiAccepted
<1>6. v.standard = IF Up("standard", n + 1) = {} THEN NoType
                   ELSE lines[Max(Up("standard", n + 1))].type
  <2>1. CASE l.kind = "standard"
    <3>1. Up("standard", n + 1) # {} /\ Max(Up("standard", n + 1)) = n + 1
      <4>1. /\ Up("standard", n + 1) = Up("standard", n) \cup {n + 1}
            /\ Max(Up("standard", n + 1)) = n + 1
        BY <2>1, KindMore
      <4> QED
        BY <4>1
    <3> QED
      BY <1>4, <2>1, <3>1
  <2>2. CASE l.kind # "standard"
    <3>1. Up("standard", n + 1) = Up("standard", n)
      BY <2>2, KindMore
    <3> QED
      BY <1>4, <2>2, <3>1 DEF WifiAccepted
  <2> QED
    BY <2>1, <2>2
<1>7. ASSUME NEW kind, NEW old \in Object, NEW new,
             new = IF l.kind = kind THEN ReadObject(old, l.type, l.attrs) ELSE old,
             ObjectRead(lines, Up(kind, n), old)
      PROVE  ObjectRead(lines, Up(kind, n + 1), new)
  <2>1. CASE l.kind = kind
    BY <1>1, <1>7, <2>1, ObjectMore
  <2>2. CASE l.kind # kind
    <3>1. Up(kind, n + 1) = Up(kind, n)
      BY <2>2, KindMore
    <3> QED
      BY <1>7, <2>2, <3>1
  <2> QED
    BY <2>1, <2>2
<1>8. /\ ObjectRead(lines, Up("ratecontrol", n + 1), v.manager)
      /\ ObjectRead(lines, Up("delay", n + 1), v.delay)
  <2>1. /\ ObjectRead(lines, Up("ratecontrol", n), w.manager)
        /\ ObjectRead(lines, Up("delay", n), w.delay)
    BY DEF WifiAccepted
  <2> HIDE DEF Up, l
  <2>2. ObjectRead(lines, Up("ratecontrol", n + 1), v.manager)
    BY <1>2, <1>4, <1>7, <2>1
  <2>3. ObjectRead(lines, Up("delay", n + 1), v.delay)
    BY <1>2, <1>4, <1>7, <2>1
  <2> QED
    BY <2>2, <2>3
<1>9. Ordered(v.phy, lines, Up("phy_attribs", n + 1))
  <2>0. Ordered(w.phy, lines, Up("phy_attribs", n))
    BY DEF WifiAccepted
  <2>1. CASE l.kind = "phy_attribs"
    <3>1. /\ Up("phy_attribs", n + 1) = Up("phy_attribs", n) \cup {n + 1}
          /\ Up("phy_attribs", n) \in SUBSET (1 .. n)
      BY <2>1, KindMore
    <3> DEFINE q == l.attrs
    <3>2. q \in Seq(KeyValue) /\ q = lines[n + 1].attrs
      BY <1>1
    <3> HIDE DEF Up, q
    <3>3. Ordered(w.phy \o q, lines, Up("phy_attribs", n) \cup {n + 1})
      BY <1>2, <2>0, <3>1, <3>2, OrderedMore
    <3> QED
      BY <1>4, <2>1, <3>1, <3>2, <3>3
  <2>2. CASE l.kind # "phy_attribs"
    <3>1. Up("phy_attribs", n + 1) = Up("phy_attribs", n)
      BY <2>2, KindMore
    <3> QED
      BY <1>4, <2>0, <2>2, <3>1
  <2> QED
    BY <2>1, <2>2
<1>10. WifiAccepted(lines, n + 1, v)
  BY <1>5, <1>6, <1>8, <1>9 DEF WifiAccepted
<1> QED
  BY <1>10 DEF v

(* What loadRoutingConfig has accepted of the lines read, and the routes   *)
(* in the tables.                                                          *)
RouteEntry == [target : Address, len : Nat, via : Address, gateway : Address, metric : Nat]

LineUsable(l) ==
    /\ l.ntok >= 2
    /\ l.kind = "proto" => l.name \in Protocols
    /\ l.kind = "routes_on" => l.host # BadAddress
    /\ l.kind = "route" =>
           /\ BadAddress \notin {l.target, l.via}
           /\ l.ntok > 2 => l.gateway # BadAddress
           /\ l.ntok > 3 => l.metric # BadMetric

Installed(host, via, tabs) ==
    host \in DOMAIN tabs /\ \E i \in DOMAIN tabs[host] : tabs[host][i].via = via

RoutingRead(lines, n, host, tabs) ==
    /\ host = HostBefore(lines, n)
    /\ \A h \in DOMAIN tabs : tabs[h] \in Seq(RouteEntry)
    /\ \A m \in 1 .. n :
           /\ LineUsable(lines[m])
           /\ lines[m].kind = "route" => Installed(HostBefore(lines, m), lines[m].via, tabs)

LEMMA HostNext ==
    ASSUME NEW lines, NEW n \in Nat
    PROVE  /\ HostBefore(lines, 0) = NoHost
           /\ HostBefore(lines, n + 1) = IF lines[n + 1].kind = "routes_on"
                                         THEN lines[n + 1].host ELSE HostBefore(lines, n)
<1> DEFINE named(k) == {i \in 1 .. k : lines[i].kind = "routes_on"}
<1>1. \A k : HostBefore(lines, k) = IF named(k) = {} THEN NoHost ELSE lines[Max(named(k))].host
  BY DEF HostBefore
<1>2. named(0) = {}
  OBVIOUS
<1>3. CASE lines[n + 1].kind = "routes_on"
  <2>1. /\ n + 1 \in named(n + 1)
        /\ \A y \in named(n + 1) : y <= n + 1
        /\ named(n + 1) \subseteq Int
    BY <1>3
  <2> HIDE DEF named
  <2>2. Max(named(n + 1)) = n + 1 /\ named(n + 1) # {}
    BY <2>1, IsLast
  <2> QED
    BY <1>1, <1>2, <1>3, <2>2
<1>4. CASE lines[n + 1].kind # "routes_on"
  <2>1. named(n + 1) = named(n)
    BY <1>4
  <2> HIDE DEF named
  <2> QED
    BY <1>1, <1>2, <1>4, <2>1
<1> QED
  BY <1>3, <1>4

(* A line that adds no route. *)
LEMMA OtherLine ==
    ASSUME NEW lines, NEW n \in Nat, LineUsable(lines[n + 1]), lines[n + 1].kind # "route",
           NEW host, NEW tabs, RoutingRead(lines, n, host, tabs), NEW new,
           new = IF lines[n + 1].kind = "routes_on" THEN lines[n + 1].host ELSE host
    PROVE  RoutingRead(lines, n + 1, new, tabs)
<1>1. new = HostBefore(lines, n + 1)
  BY HostNext DEF RoutingRead
<1>2. \A m \in 1 .. n + 1 : m \in 1 .. n \/ m = n + 1
  OBVIOUS
<1> QED
  BY <1>1, <1>2 DEF RoutingRead

(* A route line adds a route to the table of the host that is routed on. *)
LEMMA RouteLine ==
    ASSUME NEW lines, NEW n \in Nat, LineUsable(lines[n + 1]), lines[n + 1].kind = "route",
           NEW host, NEW tabs, RoutingRead(lines, n, host, tabs),
           NEW entry \in RouteEntry, entry.via = lines[n + 1].via, NEW table,
           table = IF host \in DOMAIN tabs THEN tabs[host] ELSE <<>>
    PROVE  RoutingRead(lines, n + 1, host, Put(tabs, host, Append(table, entry)))
<1> DEFINE more == Append(table, entry)
           new == Put(tabs, host, more)
<1>1. table \in Seq(RouteEntry)
  <2>1. <<>> \in Seq(RouteEntry)
    OBVIOUS
  <2> QED
    BY <2>1 DEF RoutingRead
<1>2. /\ more \in Seq(RouteEntry) /\ Len(table) \in Nat
      /\ more[Len(table) + 1] = entry
      /\ \A i \in 1 .. Len(table) : more[i] = table[i]
      /\ DOMAIN table = 1 .. Len(table) /\ DOMAIN more = 1 .. Len(table) + 1
  BY <1>1, AppendedAt
<1> HIDE DEF more
<1>3. /\ DOMAIN new = DOMAIN tabs \cup {host} /\ new[host] = more
      /\ \A h \in DOMAIN tabs : h # host => new[h] = tabs[h]
  BY DEF Put
<1> HIDE DEF new
<1>4. HostBefore(lines, n + 1) = host
  BY HostNext DEF RoutingRead
<1>5. ASSUME NEW h, NEW via, Installed(h, via, tabs) PROVE Installed(h, via, new)
  <2>1. PICK i \in DOMAIN tabs[h] : tabs[h][i].via = via
    BY <1>5 DEF Installed
  <2>2. h \in DOMAIN tabs
    BY <1>5 DEF Installed
  <2>3. CASE h = host
    <3>1. i \in DOMAIN more /\ more[i] = tabs[h][i]
      BY <1>2, <2>1, <2>2, <2>3
    <3> QED
      BY <1>3, <2>1, <2>3, <3>1 DEF Installed
  <2>4. CASE h # host
    BY <1>3, <2>1, <2>2, <2>4 DEF Installed
  <2> QED
    BY <2>3, <2>4
<1>6. Installed(host, lines[n + 1].via, new)
  <2>1. Len(table) + 1 \in DOMAIN more
    BY <1>2
  <2> QED
    BY <1>2, <1>3, <2>1 DEF Installed
<1>7. ASSUME NEW m \in 1 .. n + 1
      PROVE  /\ LineUsable(lines[m])
             /\ lines[m].kind = "route" => Installed(HostBefore(lines, m), lines[m].via, new)
  <2>1. CASE m = n + 1
    BY <1>4, <1>6, <2>1
  <2>2. CASE m # n + 1
    <3>1. m \in 1 .. n
      BY <2>2
    <3> QED
      BY <1>5, <3>1 DEF RoutingRead
  <2> QED
    BY <2>1, <2>2
<1>8. \A h \in DOMAIN new : new[h] \in Seq(RouteEntry)
  BY <1>2, <1>3 DEF RoutingRead
<1>9. RoutingRead(lines, n + 1, host, new)
  BY <1>4, <1>7, <1>8 DEF RoutingRead
<1> QED
  BY <1>9 DEF new, more

(* What has been accepted of a mobility file: the first line names the     *)
(* allocator, every other is a position for it.                            *)
MobilityHeld == [type : DOMAIN Known["allocator"] \cup {NoType}, n : Nat]

MobilityRead(lines, n, held) ==
    n > 0 =>
        /\ Allocator(lines[1]) = "ok"
        /\ held.type = lines[1].type
        /\ \A m \in 2 .. n : Position(held.type, lines[m]) = "ok"

-----------------------------------------------------------------------------
(* How far LoadConfig is: the files before the one being read are there,   *)
(* those with positions name an allocator, and once it is past all of them *)
(* have been read to the end.                                              *)
File == FileNames[reading]
Past == {"loaded", "channels", "nodes", "interfaces", "connecting", "installed", "ready"}
Reported == {"failed", "crashed"}

ReadInv ==
    /\ DOMAIN config \subseteq ToSet(FileNames)
    /\ \A f \in DOMAIN config : config[f] \in Seq(FileLine(f))
    /\ reading \in 1 .. 6
    /\ line \in Nat \ {0}
    /\ File \in DOMAIN config => line <= Len(config[File]) + 1
    /\ \A i \in 1 .. reading - 1 : FileNames[i] \in DOMAIN config
    /\ \A i \in 1 .. reading - 1 :
           FileNames[i] \in MobilityFiles => Len(config[FileNames[i]]) > 0
    /\ status \in Past =>
           /\ reading = 6
           /\ \A f \in ToSet(FileNames) : f \in DOMAIN config /\ LinesRead(f) = Len(config[f])

LEMMA TheFiles ==
    /\ DOMAIN FileNames = 1 .. 6 /\ Len(FileNames) = 6
    /\ \A i, j \in 1 .. 6 : FileNames[i] = FileNames[j] => i = j
    /\ ToSet(FileNames) = {FileNames[i] : i \in 1 .. 6}
    /\ MobilityFiles \cup WifiFiles \cup {"apps", "routing"} = ToSet(FileNames)
<1>1. DOMAIN FileNames = 1 .. 6 /\ Len(FileNames) = 6
  BY DEF FileNames
<1>2. ToSet(FileNames) = {FileNames[i] : i \in 1 .. 6}
  BY <1>1 DEF ToSet
<1>3. /\ FileNames[1] = "mesh_mobility" /\ FileNames[2] = "sta_mobility"
      /\ FileNames[3] = "apps" /\ FileNames[4] = "routing"
      /\ FileNames[5] = "mesh_wifi" /\ FileNames[6] = "apsta_wifi"
  BY DEF FileNames
<1>4. \A i \in 1 .. 6 : i = 1 \/ i = 2 \/ i = 3 \/ i = 4 \/ i = 5 \/ i = 6
  OBVIOUS
<1>5. \A i, j \in 1 .. 6 : FileNames[i] = FileNames[j] => i = j
  BY <1>3, <1>4
<1>6. MobilityFiles \cup WifiFiles \cup {"apps", "routing"} = {FileNames[i] : i \in 1 .. 6}
  BY <1>3, <1>4 DEF MobilityFiles, WifiFiles
<1> QED
  BY <1>1, <1>2, <1>5, <1>6

LEMMA NextLineRead ==
    ASSUME ReadInv, NEW f, AtLine(f), NextLine
    PROVE  /\ ReadInv'
           /\ config' = config
           /\ f \in DOMAIN config
           /\ line \in DOMAIN config[f] /\ config[f][line] \in FileLine(f)
           /\ \E n \in Nat : line = n + 1 /\ LinesRead(f) = n /\ LinesRead(f)' = n + 1
           /\ \A g : g # f => LinesRead(g)' = LinesRead(g)
<1>1. /\ status = "loading" /\ File = f /\ f \in DOMAIN config /\ line <= Len(config[f])
      /\ line' = line + 1 /\ config' = config /\ reading' = reading /\ status' = status
  BY DEF AtLine, Reading, NextLine, File
<1>2. line \in Nat \ {0} /\ config[f] \in Seq(FileLine(f)) /\ reading \in 1 .. 6
  BY <1>1 DEF ReadInv
<1>3. line \in DOMAIN config[f] /\ config[f][line] \in FileLine(f)
  <2>1. Len(config[f]) \in Nat /\ DOMAIN config[f] = 1 .. Len(config[f])
    BY <1>2, LenProperties
  <2>2. line \in 1 .. Len(config[f])
    BY <1>1, <1>2, <2>1
  <2> QED
    BY <1>2, <2>1, <2>2, ElementsIn
<1>4. \E n \in Nat : line = n + 1 /\ LinesRead(f) = n /\ LinesRead(f)' = n + 1
  <2>1. LinesRead(f) = line - 1 /\ LinesRead(f)' = line' - 1
    <3>1. FileNames[reading] = f /\ FileNames[reading'] = f
      BY <1>1 DEF File
    <3> QED
      BY <1>1, <3>1, Zenon DEF LinesRead
  <2>2. line - 1 \in Nat /\ line = (line - 1) + 1 /\ line + 1 - 1 = (line - 1) + 1
    BY <1>2
  <2> QED
    BY <1>1, <2>1, <2>2
<1>5. \A g : g # f => LinesRead(g)' = LinesRead(g)
  BY <1>1 DEF LinesRead, File
<1>6. ReadInv'
  <2>1. File' = File
    BY <1>1 DEF File
  <2>2. line' \in Nat \ {0} /\ line' <= Len(config[File]) + 1
    <3>1. Len(config[f]) \in Nat
      BY <1>2, LenProperties
    <3> QED
      BY <1>1, <1>2, <3>1
  <2> QED
    BY <1>1, <2>1, <2>2 DEF ReadInv, Past
<1> QED
  BY <1>1, <1>3, <1>4, <1>5, <1>6

LEMMA NextFileRead ==
    ASSUME ReadInv, NEW f, AtEnd(f), NextFile, f \in MobilityFiles => line # 1
    PROVE  /\ ReadInv'
           /\ config' = config
           /\ \A g : LinesRead(g)' = LinesRead(g)
<1>1. /\ status = "loading" /\ File = f /\ f \in DOMAIN config /\ line > Len(config[f])
      /\ config' = config
      /\ IF reading = 6
         THEN status' = "loaded" /\ reading' = reading /\ line' = line
         ELSE reading' = reading + 1 /\ line' = 1 /\ status' = status
  BY TheFiles DEF AtEnd, Reading, NextFile, File
<1>2. /\ line \in Nat \ {0} /\ reading \in 1 .. 6
      /\ config[f] \in Seq(FileLine(f)) /\ line <= Len(config[f]) + 1
      /\ \A i \in 1 .. reading - 1 : FileNames[i] \in DOMAIN config
      /\ \A i \in 1 .. reading - 1 :
             FileNames[i] \in MobilityFiles => Len(config[FileNames[i]]) > 0
      /\ DOMAIN config \subseteq ToSet(FileNames)
      /\ \A g \in DOMAIN config : config[g] \in Seq(FileLine(g))
  BY <1>1 DEF ReadInv
<1>3. line - 1 = Len(config[f]) /\ Len(config[f]) \in Nat
  <2>1. Len(config[f]) \in Nat
    BY <1>2, LenProperties
  <2> QED
    BY <1>1, <1>2, <2>1
<1>4. FileNames[reading] = f
  BY <1>1 DEF File
<1>5. CASE reading = 6
  <2>1. \A g : LinesRead(g)' = LinesRead(g)
    BY <1>1, <1>5 DEF LinesRead
  <2>2. ASSUME NEW g \in ToSet(FileNames)
        PROVE  g \in DOMAIN config /\ LinesRead(g) = Len(config[g])
    <3>1. PICK i \in 1 .. 6 : g = FileNames[i]
      BY TheFiles
    <3>2. CASE i = 6
      BY <1>1, <1>3, <1>4, <1>5, <3>1, <3>2 DEF LinesRead
    <3>3. CASE i # 6
      <4>1. i \in 1 .. reading - 1 /\ i \in 1 .. reading
        BY <1>5, <3>3
      <4>2. g \in DOMAIN config /\ FileNames[reading] # g
        BY <1>2, <1>5, <3>1, <3>3, <4>1, TheFiles
      <4> QED
        BY <3>1, <4>1, <4>2 DEF LinesRead
    <3> QED
      BY <3>2, <3>3
  <2>3. File' = File /\ line' <= Len(config[f]) + 1
    BY <1>1, <1>2, <1>5 DEF File
  <2> QED
    BY <1>1, <1>2, <1>5, <2>1, <2>2, <2>3 DEF ReadInv
<1>6. CASE reading # 6
  <2>1. reading + 1 \in 1 .. 6 /\ reading \in 1 .. 6
    BY <1>2, <1>6
  <2> DEFINE h == FileNames[reading + 1]
  <2>2. File' = h
    BY <1>1, <1>6 DEF File
  <2>3. h # f
    <3>1. reading + 1 # reading
      BY <1>2
    <3> QED
      BY <1>4, <2>1, <3>1, TheFiles
  <2>4. ASSUME NEW g PROVE LinesRead(g)' = LinesRead(g)
    <3>1. CASE g \notin DOMAIN config
      BY <1>1, <3>1 DEF LinesRead
    <3>2. CASE g \in DOMAIN config /\ g = h
      <4>1. LinesRead(g)' = 1 - 1
        BY <1>1, <1>6, <2>2, <3>2 DEF LinesRead, File
      <4>2. \A i \in 1 .. reading : FileNames[i] # g
        <5>1. \A i \in 1 .. reading : i \in 1 .. 6 /\ i # reading + 1
          BY <1>2
        <5> QED
          BY <2>1, <3>2, <5>1, TheFiles
      <4>3. LinesRead(g) = 0
        BY <1>4, <2>3, <3>2, <4>2 DEF LinesRead
      <4> QED
        BY <4>1, <4>3
    <3>3. CASE g \in DOMAIN config /\ g = f
      <4>1. LinesRead(g) = Len(config[g])
        BY <1>3, <1>4, <3>3 DEF LinesRead
      <4>2. reading \in 1 .. reading'
        BY <1>1, <1>2, <1>6
      <4>3. LinesRead(g)' = Len(config[g])
        BY <1>1, <1>4, <2>2, <2>3, <3>3, <4>2 DEF LinesRead, File
      <4> QED
        BY <4>1, <4>3
    <3>4. CASE g \in DOMAIN config /\ g # h /\ g # f
      <4>1. (\E i \in 1 .. reading : FileNames[i] = g)
                <=> (\E i \in 1 .. reading + 1 : FileNames[i] = g)
        <5>1. \A i \in 1 .. reading + 1 : i \in 1 .. reading \/ i = reading + 1
          BY <1>2
        <5>2. \A i \in 1 .. reading : i \in 1 .. reading + 1
          BY <1>2
        <5> QED
          BY <3>4, <5>1, <5>2
      <4>2. File = f /\ File' = h /\ reading' = reading + 1 /\ config' = config
        BY <1>1, <1>6, <2>2
      <4> HIDE DEF h
      <4>3. LinesRead(g) = IF \E i \in 1 .. reading : FileNames[i] = g THEN Len(config[g]) ELSE 0
        BY <3>4, <4>2 DEF LinesRead, File
      <4>4. LinesRead(g)' = IF \E i \in 1 .. reading + 1 : FileNames[i] = g
                            THEN Len(config[g]) ELSE 0
        BY <3>4, <4>2 DEF LinesRead, File
      <4> QED
        BY <4>1, <4>3, <4>4
    <3> QED
      BY <3>1, <3>2, <3>3, <3>4
  <2>5. \A i \in 1 .. reading' - 1 : FileNames[i] \in DOMAIN config
    <3>1. \A i \in 1 .. reading' - 1 : i \in 1 .. reading - 1 \/ i = reading
      BY <1>1, <1>2, <1>6
    <3> QED
      BY <1>1, <1>2, <1>4, <3>1
  <2>6. \A i \in 1 .. reading' - 1 :
            FileNames[i] \in MobilityFiles => Len(config[FileNames[i]]) > 0
    <3>1. \A i \in 1 .. reading' - 1 : i \in 1 .. reading - 1 \/ i = reading
      BY <1>1, <1>2, <1>6
    <3>2. f \in MobilityFiles => Len(config[f]) > 0
      BY <1>2, <1>3
    <3> QED
      BY <1>2, <1>4, <3>1, <3>2
  <2>7. h \in DOMAIN config => 1 <= Len(config[h]) + 1
    <3>1. h \in DOMAIN config => Len(config[h]) \in Nat
      BY <1>2, LenProperties
    <3> QED
      BY <3>1
  <2> HIDE DEF h
  <2>8. status' \notin Past
    BY <1>1, <1>6 DEF Past
  <2> QED
    BY <1>1, <1>2, <1>6, <2>1, <2>2, <2>4, <2>5, <2>6, <2>7, <2>8 DEF ReadInv
<1> QED
  BY <1>5, <1>6

LEMMA SameRead ==
    ASSUME ReadInv, UNCHANGED <<config, reading, line>>,
           status' \in Past => status \in Past
    PROVE  ReadInv' /\ \A g : LinesRead(g)' = LinesRead(g)
<1>1. \A g : LinesRead(g)' = LinesRead(g)
  BY DEF LinesRead
<1> QED
  BY <1>1 DEF ReadInv, File

-----------------------------------------------------------------------------
(* What has been taken of each file is what the lines read of it say. *)
AppsTaken ==
    /\ DefaultsRead(config["apps"], LinesRead("apps"), defaults)
    /\ AppsRead(config["apps"], LinesRead("apps"), apps)
    /\ ConnsRead(config["apps"], LinesRead("apps"), conns)

RoutingTaken == RoutingRead(config["routing"], LinesRead("routing"), routesOn, tables)

WifiTaken ==
    /\ wifi = [f \in WifiFiles |-> wifi[f]]
    /\ \A f \in WifiFiles : /\ WifiRead(config[f], LinesRead(f), wifi[f])
                           /\ WifiAccepted(config[f], LinesRead(f), wifi[f])

MobilityTaken ==
    /\ mobility \in [MobilityFiles -> MobilityHeld]
    /\ \A f \in MobilityFiles : MobilityRead(config[f], LinesRead(f), mobility[f])

TakenInv == ReadInv /\ AppsTaken /\ RoutingTaken /\ WifiTaken /\ MobilityTaken

(* A line of file f is for the part that reads f. *)
LEMMA OthersTaken ==
    ASSUME TakenInv, config' = config, NEW f, \A g : g # f => LinesRead(g)' = LinesRead(g)
    PROVE  /\ (f # "apps" /\ UNCHANGED appsVars) => AppsTaken'
           /\ (f # "routing" /\ UNCHANGED routingVars) => RoutingTaken'
           /\ (f \notin WifiFiles /\ UNCHANGED wifi) => WifiTaken'
           /\ (f \notin MobilityFiles /\ UNCHANGED mobility) => MobilityTaken'
<1>1. ASSUME f # "apps", UNCHANGED appsVars PROVE AppsTaken'
  <2>1. /\ LinesRead("apps")' = LinesRead("apps")
        /\ defaults' = defaults /\ apps' = apps /\ conns' = conns
    BY <1>1 DEF appsVars
  <2> QED
    BY <2>1 DEF TakenInv, AppsTaken
<1>2. ASSUME f # "routing", UNCHANGED routingVars PROVE RoutingTaken'
  <2>1. LinesRead("routing")' = LinesRead("routing") /\ routesOn' = routesOn /\ tables' = tables
    BY <1>2 DEF routingVars
  <2> QED
    BY <2>1 DEF TakenInv, RoutingTaken
<1>3. ASSUME f \notin WifiFiles, UNCHANGED wifi PROVE WifiTaken'
  <2>1. \A g \in WifiFiles : LinesRead(g)' = LinesRead(g)
    BY <1>3
  <2> QED
    BY <1>3, <2>1 DEF TakenInv, WifiTaken
<1>4. ASSUME f \notin MobilityFiles, UNCHANGED mobility PROVE MobilityTaken'
  <2>1. \A g \in MobilityFiles : LinesRead(g)' = LinesRead(g)
    BY <1>4
  <2> QED
    BY <1>4, <2>1 DEF TakenInv, MobilityTaken
<1> QED
  BY <1>1, <1>2, <1>3, <1>4

(* Steps that read no line leave everything as it is. *)
LEMMA NothingTaken ==
    ASSUME TakenInv, ReadInv', config' = config, \A g : LinesRead(g)' = LinesRead(g),
           UNCHANGED <<appsVars, routingVars, wifi, mobility>>
    PROVE  TakenInv'
<1>1. /\ "none" \notin {"apps", "routing"} /\ "none" \notin WifiFiles
      /\ "none" \notin MobilityFiles
  BY DEF WifiFiles, MobilityFiles
<1> QED
  BY <1>1, OthersTaken DEF TakenInv

LEMMA AppsReads ==
    ASSUME TakenInv, AppsConfigNext, UNCHANGED <<routingVars, wifi, mobility>>
    PROVE  TakenInv'
<1>0. ReadInv
  BY DEF TakenInv
<1>1. CASE EndOfApps
  <2>1. AtEnd("apps") /\ NextFile /\ UNCHANGED appsVars
    BY <1>1 DEF EndOfApps
  <2> QED
    BY <1>0, <2>1, NextFileRead, NothingTaken DEF MobilityFiles
<1>2. CASE Stop("failed") /\ UNCHANGED appsVars
  <2>1. UNCHANGED <<config, reading, line>> /\ status' \notin Past
    BY <1>2 DEF Stop, Past
  <2> QED
    BY <1>0, <1>2, <2>1, SameRead, NothingTaken
<1>3. ASSUME AtLine("apps"), NextLine,
             /\ AppsLine.kind # "defaults" => defaults' = defaults
             /\ AppsLine.kind # "app" => apps' = apps
             /\ AppsLine.kind # "connect" => conns' = conns,
             AppsLine.kind = "defaults" =>
                 /\ WellFormed(AppsLine.kvs)
                 /\ defaults' = FoldLeft(SetDefault, defaults, AppsLine.kvs),
             AppsLine.kind = "app" =>
                 /\ AppsLine.type # "invalid" /\ WellFormed(AppsLine.kvs)
                 /\ apps' = Append(apps, [AppsLine EXCEPT !.kvs = WithDefaults(@)]),
             AppsLine.kind = "connect" =>
                 /\ Connectable(AppsLine.tokens)
                 /\ conns' = Append(conns, ParseConnect(AppsLine.tokens))
      PROVE  TakenInv'
  <2>1. PICK n \in Nat : line = n + 1 /\ LinesRead("apps") = n /\ LinesRead("apps")' = n + 1
    BY <1>0, <1>3, NextLineRead
  <2>2. /\ ReadInv' /\ config' = config /\ config["apps"][line] \in FileLine("apps")
        /\ \A g : g # "apps" => LinesRead(g)' = LinesRead(g)
    BY <1>0, <1>3, NextLineRead
  <2>3. FileLine("apps") = AppsFileLine
    BY DEF FileLine, MobilityFiles, WifiFiles
  <2> DEFINE lines == config["apps"]
  <2>4. AppsLine = lines[n + 1] /\ lines[n + 1] \in AppsFileLine
    BY <2>1, <2>2, <2>3 DEF AppsLine
  <2>5. /\ DefaultsRead(lines, n, defaults)
        /\ AppsRead(lines, n, apps)
        /\ ConnsRead(lines, n, conns)
    BY <2>1 DEF TakenInv, AppsTaken
  <2> HIDE DEF lines
  <2>6. DefaultsRead(lines, n + 1, defaults')
    <3>1. CASE lines[n + 1].kind = "defaults"
      <4>1. lines[n + 1].kvs \in Seq(KeyValue)
        BY <2>4, <3>1 DEF AppsFileLine
      <4>2. /\ WellFormed(lines[n + 1].kvs)
            /\ defaults' = FoldLeft(SetDefault, defaults, lines[n + 1].kvs)
        BY <1>3, <2>4, <3>1
      <4> QED
        BY <2>5, <3>1, <4>1, <4>2, DefaultsLine
    <3>2. CASE lines[n + 1].kind # "defaults"
      BY <1>3, <2>4, <2>5, <3>2, OthersKept
    <3> QED
      BY <3>1, <3>2
  <2>7. AppsRead(lines, n + 1, apps')
    <3>1. CASE lines[n + 1].kind = "app"
      <4>1. lines[n + 1] \in AppRecord
        BY <2>4, <3>1 DEF AppsFileLine, AppRecord
      <4>2. /\ lines[n + 1].type # "invalid" /\ WellFormed(lines[n + 1].kvs)
            /\ apps' = Append(apps, [lines[n + 1] EXCEPT !.kvs = WithDefaults(@)])
        BY <1>3, <2>4, <3>1
      <4>3. \A kvs : WithDefaults(kvs) = kvs \o SetToSeq(Inherited(kvs, defaults))
        BY DEF WithDefaults, Inherited
      <4> DEFINE app == [lines[n + 1] EXCEPT !.kvs = @ \o SetToSeq(Inherited(@, defaults))]
      <4>4. apps' = Append(apps, app)
        BY <4>2, <4>3
      <4>5. AppsRead(lines, n + 1, Append(apps, app))
        BY <2>5, <3>1, <4>1, <4>2, AppLine
      <4> QED
        BY <4>4, <4>5
    <3>2. CASE lines[n + 1].kind # "app"
      BY <1>3, <2>4, <2>5, <3>2, OthersKept
    <3> QED
      BY <3>1, <3>2
  <2>8. ConnsRead(lines, n + 1, conns')
    <3>1. CASE lines[n + 1].kind = "connect"
      <4>1. /\ lines[n + 1].tokens \in Seq(STRING)
            /\ Connectable(lines[n + 1].tokens)
            /\ conns' = Append(conns, ParseConnect(lines[n + 1].tokens))
        BY <1>3, <2>4, <3>1 DEF AppsFileLine
      <4>2. /\ ParseConnect(lines[n + 1].tokens) \in Statement
            /\ ConnTaken(lines, n + 1, ParseConnect(lines[n + 1].tokens))
        BY <4>1, ParseConnectType DEF ConnTaken
      <4> QED
        BY <2>5, <3>1, <4>1, <4>2, ConnLine
    <3>2. CASE lines[n + 1].kind # "connect"
      BY <1>3, <2>4, <2>5, <3>2, OthersKept
    <3> QED
      BY <3>1, <3>2
  <2>9. AppsTaken'
    BY <2>1, <2>2, <2>6, <2>7, <2>8 DEF AppsTaken, lines
  <2> QED
    BY <2>2, <2>9, OthersTaken DEF TakenInv, WifiFiles, MobilityFiles
<1>4. CASE ReadDefaults
  <2>1. \/ Stop("failed") /\ UNCHANGED appsVars
        \/ /\ AtLine("apps") /\ NextLine /\ AppsLine.kind = "defaults"
           /\ WellFormed(AppsLine.kvs)
           /\ defaults' = FoldLeft(SetDefault, defaults, AppsLine.kvs)
           /\ UNCHANGED <<apps, conns>>
    BY <1>4 DEF ReadDefaults
  <2> QED
    BY <1>2, <1>3, <2>1
<1>5. CASE ReadApp
  <2>1. \/ Stop("failed") /\ UNCHANGED appsVars
        \/ /\ AtLine("apps") /\ NextLine /\ AppsLine.kind = "app" /\ AppsLine.type # "invalid"
           /\ WellFormed(AppsLine.kvs)
           /\ apps' = Append(apps, [AppsLine EXCEPT !.kvs = WithDefaults(@)])
           /\ UNCHANGED <<defaults, conns>>
    BY <1>5 DEF ReadApp
  <2> QED
    BY <1>2, <1>3, <2>1
<1>6. CASE ReadConnect
  <2>1. \/ Stop("failed") /\ UNCHANGED appsVars
        \/ /\ AtLine("apps") /\ NextLine /\ AppsLine.kind = "connect"
           /\ Connectable(AppsLine.tokens)
           /\ conns' = Append(conns, ParseConnect(AppsLine.tokens))
           /\ UNCHANGED <<defaults, apps>>
    BY <1>6 DEF ReadConnect
  <2> QED
    BY <1>2, <1>3, <2>1
<1> QED
  BY <1>1, <1>4, <1>5, <1>6 DEF AppsConfigNext

LEMMA WifiReads ==
    ASSUME TakenInv, WifiNext, UNCHANGED <<appsVars, routingVars, mobility>>
    PROVE  TakenInv'
<1>0. ReadInv
  BY DEF TakenInv
<1>1. PICK f \in WifiFiles : ReadWifi(f) \/ EndOfWifi(f)
  BY DEF WifiNext
<1>2. CASE EndOfWifi(f)
  <2>1. AtEnd(f) /\ NextFile /\ UNCHANGED wifi
    BY <1>2 DEF EndOfWifi
  <2> QED
    BY <1>0, <2>1, NextFileRead, NothingTaken DEF MobilityFiles, WifiFiles
<1>3. CASE Stop("failed") /\ UNCHANGED wifi
  <2>1. UNCHANGED <<config, reading, line>> /\ status' \notin Past
    BY <1>3 DEF Stop, Past
  <2> QED
    BY <1>0, <1>3, <2>1, SameRead, NothingTaken
<1>4. CASE ReadWifi(f) /\ ~(Stop("failed") /\ UNCHANGED wifi)
  <2>1. /\ AtLine(f) /\ NextLine /\ Acceptable(config[f][line])
        /\ wifi' = [wifi EXCEPT ![f] = Take(@, config[f][line])]
    BY <1>4 DEF ReadWifi
  <2>2. PICK n \in Nat : line = n + 1 /\ LinesRead(f) = n /\ LinesRead(f)' = n + 1
    BY <1>0, <2>1, NextLineRead
  <2>3. /\ ReadInv' /\ config' = config /\ config[f][line] \in FileLine(f)
        /\ \A g : g # f => LinesRead(g)' = LinesRead(g)
    BY <1>0, <2>1, NextLineRead
  <2>4. FileLine(f) = WifiFileLine
    BY DEF FileLine, MobilityFiles, WifiFiles
  <2> DEFINE lines == config[f]
  <2>5. /\ lines[n + 1] \in WifiFileLine /\ Acceptable(lines[n + 1])
        /\ WifiRead(lines, n, wifi[f]) /\ WifiAccepted(lines, n, wifi[f])
    BY <2>1, <2>2, <2>3, <2>4 DEF TakenInv, WifiTaken
  <2> HIDE DEF lines
  <2>6. /\ WifiRead(lines, n + 1, Take(wifi[f], lines[n + 1]))
        /\ WifiAccepted(lines, n + 1, Take(wifi[f], lines[n + 1]))
    <3>1. wifi[f] \in WifiHeld
      BY <2>5 DEF WifiRead
    <3> QED
      BY <2>5, <3>1, WifiLine, AcceptedLine
  <2>7. wifi = [g \in WifiFiles |-> wifi[g]]
    BY DEF TakenInv, WifiTaken
  <2>8. wifi' = [g \in WifiFiles |-> wifi'[g]] /\ wifi'[f] = Take(wifi[f], lines[n + 1])
    BY <2>1, <2>2, <2>7 DEF lines
  <2>9. ASSUME NEW g \in WifiFiles
        PROVE  /\ WifiRead(config'[g], LinesRead(g)', wifi'[g])
               /\ WifiAccepted(config'[g], LinesRead(g)', wifi'[g])
    <3>1. CASE g = f
      BY <2>2, <2>3, <2>6, <2>8, <3>1 DEF lines
    <3>2. CASE g # f
      <4>1. wifi'[g] = wifi[g]
        BY <2>1, <2>7, <3>2
      <4> QED
        BY <2>3, <3>2, <4>1 DEF TakenInv, WifiTaken
    <3> QED
      BY <3>1, <3>2
  <2>10. WifiTaken'
    BY <2>8, <2>9 DEF WifiTaken
  <2> QED
    BY <2>3, <2>10, OthersTaken DEF TakenInv, WifiFiles, MobilityFiles
<1> QED
  BY <1>1, <1>2, <1>3, <1>4

(* The first of several outcomes that is not "ok", if there is one.        *)
LEMMA FirstProblemIs ==
    ASSUME NEW n \in Nat, NEW q, DOMAIN q = 1 .. n
    PROVE  \/ FirstProblem(q) = "ok" /\ \A i \in DOMAIN q : q[i] = "ok"
           \/ FirstProblem(q) # "ok" /\ \E i \in DOMAIN q : FirstProblem(q) = q[i]
<1> DEFINE P(i) == q[i] # "ok" /\ \A j \in 1 .. i - 1 : q[j] = "ok"
           T == {i \in DOMAIN q : q[i] # "ok"}
<1>1. CASE T = {}
  BY <1>1 DEF FirstProblem
<1>2. CASE T # {}
  <2>1. PICK i \in T : \A j \in T : i <= j
    <3>1. T \in SUBSET Nat
      OBVIOUS
    <3> QED
      BY <1>2, <3>1, LeastNat
  <2>2. P(i)
    <3>1. ASSUME NEW j \in 1 .. i - 1, q[j] # "ok" PROVE FALSE
      <4>1. j \in T /\ j < i
        BY <3>1
      <4> QED
        BY <2>1, <4>1
    <3> QED
      BY <3>1
  <2> DEFINE k == CHOOSE j \in DOMAIN q : P(j)
  <2>3. k \in DOMAIN q /\ P(k)
    <3> HIDE DEF P
    <3> QED
      BY <2>1, <2>2
  <2>4. FirstProblem(q) = q[k]
    BY <1>2, Zenon DEF FirstProblem
  <2>5. q[k] # "ok"
    BY <2>3
  <2> HIDE DEF P, k
  <2> QED
    BY <2>3, <2>4, <2>5
<1> QED
  BY <1>1, <1>2

LEMMA FirstProblemIn ==
    ASSUME NEW S, NEW n \in Nat, NEW q, DOMAIN q = 1 .. n, \A i \in DOMAIN q : q[i] \in S
    PROVE  FirstProblem(q) \in S \cup {"ok"}
BY FirstProblemIs

(* Setting attributes is fine, refused, or the end of the program: never   *)
(* anything else (setObjectFromConfig, the configure functions).           *)
Outcomes == {"ok", "failed", "crashed"}

LEMMA SetAttributesOutcome ==
    ASSUME NEW role, NEW type, NEW attrs \in Seq(KeyValue)
    PROVE  SetAttributes(role, type, attrs) \in Outcomes
<1> DEFINE q == [i \in DOMAIN attrs |-> SetAttribute(role, type, attrs[i])]
<1>1. DOMAIN q = 1 .. Len(attrs) /\ Len(attrs) \in Nat
  BY LenProperties
<1>2. \A i \in DOMAIN q : q[i] \in Outcomes
  BY DEF SetAttribute, Outcomes
<1> HIDE DEF q
<1>3. FirstProblem(q) \in Outcomes \cup {"ok"}
  BY <1>1, <1>2, FirstProblemIn
<1> QED
  BY <1>3 DEF SetAttributes, Outcomes, q

LEMMA SetObjectOutcome ==
    ASSUME NEW role, NEW obj \in Object
    PROVE  SetObject(role, obj) \in Outcomes
<1>1. obj.attrs \in Seq(KeyValue)
  BY DEF Object
<1>2. SetAttributes(role, obj.type, obj.attrs) \in Outcomes
  BY <1>1, SetAttributesOutcome
<1> QED
  BY <1>2 DEF SetObject, Outcomes

LEMMA ConfigureOutcomes ==
    ASSUME NEW cfg \in WifiHeld
    PROVE  /\ ConfigureChannel(cfg) \in Outcomes
           /\ ConfigureWifi(cfg) \in Outcomes
           /\ ConfigurePhy(cfg) \in Outcomes
<1>1. /\ cfg.manager \in Object /\ cfg.delay \in Object /\ cfg.losses \in Seq(Object)
      /\ cfg.phy \in Seq(KeyValue)
  BY DEF WifiHeld
<1>2. ConfigureWifi(cfg) \in Outcomes
  BY <1>1, SetObjectOutcome DEF ConfigureWifi, Outcomes
<1>3. ConfigurePhy(cfg) \in Outcomes
  BY <1>1, SetAttributesOutcome DEF ConfigurePhy
<1>4. ConfigureChannel(cfg) \in Outcomes
  <2> DEFINE delay == IF cfg.delay.type = NoType THEN "ok" ELSE SetObject("delay", cfg.delay)
             loss(i) == IF cfg.losses[i].type = "@matrix" THEN "failed"
                        ELSE SetObject("loss", cfg.losses[i])
             losses == [i \in DOMAIN cfg.losses |-> loss(i)]
  <2>1. delay \in Outcomes
    BY <1>1, SetObjectOutcome DEF Outcomes
  <2>2. \A i \in DOMAIN cfg.losses : loss(i) \in Outcomes
    <3>1. \A i \in DOMAIN cfg.losses : cfg.losses[i] \in Object
      BY <1>1, ElementsIn
    <3> QED
      BY <3>1, SetObjectOutcome DEF Outcomes
  <2>3. losses \in Seq(Outcomes)
    <3>1. DOMAIN cfg.losses = 1 .. Len(cfg.losses) /\ Len(cfg.losses) \in Nat
      BY <1>1, LenProperties
    <3> HIDE DEF loss
    <3> QED
      BY <2>2, <3>1
  <2> HIDE DEF delay, losses
  <2>4. <<delay>> \o losses \in Seq(Outcomes)
    BY <2>1, <2>3
  <2> DEFINE all == <<delay>> \o losses
  <2> HIDE DEF all
  <2>5. DOMAIN all = 1 .. Len(all) /\ Len(all) \in Nat /\ \A i \in DOMAIN all : all[i] \in Outcomes
    <3>1. all \in Seq(Outcomes)
      BY <2>4 DEF all
    <3> QED
      BY <3>1, LenProperties, ElementsIn
  <2>6. FirstProblem(all) \in Outcomes \cup {"ok"}
    BY <2>5, FirstProblemIn
  <2>7. ConfigureChannel(cfg) = IF cfg.default THEN "ok" ELSE FirstProblem(all)
    BY DEF ConfigureChannel, all, delay, losses
  <2> QED
    BY <2>6, <2>7 DEF Outcomes
<1> QED
  BY <1>2, <1>3, <1>4

LEMMA AllocatorOutcome ==
    ASSUME NEW f, ReadInv, f \in MobilityFiles, AtLine(f), NEW l, l = config[f][line]
    PROVE  Allocator(l) \in Outcomes
<1>1. f \in DOMAIN config /\ config[f] \in Seq(FileLine(f)) /\ line \in DOMAIN config[f]
  <2>1. f \in DOMAIN config /\ line <= Len(config[f]) /\ line \in Nat \ {0}
    BY DEF AtLine, Reading, ReadInv
  <2>2. config[f] \in Seq(FileLine(f))
    BY <2>1 DEF ReadInv
  <2>3. Len(config[f]) \in Nat /\ DOMAIN config[f] = 1 .. Len(config[f])
    BY <2>2, LenProperties
  <2> QED
    BY <2>1, <2>2, <2>3
<1>2. FileLine(f) = MobilityFileLine
  BY DEF FileLine, MobilityFiles, WifiFiles
<1>3. l \in MobilityFileLine
  BY <1>1, <1>2, ElementsIn
<1>4. CASE l.kind = "allocator" /\ l.type \in DOMAIN Known["allocator"]
  <2>1. l.attrs \in Seq(KeyValue)
    BY <1>3, <1>4 DEF MobilityFileLine
  <2> QED
    BY <1>4, <2>1, SetAttributesOutcome DEF Allocator
<1>5. CASE ~(l.kind = "allocator" /\ l.type \in DOMAIN Known["allocator"])
  BY <1>5 DEF Allocator, Outcomes
<1> QED
  BY <1>4, <1>5

LEMMA MobilityReads ==
    ASSUME TakenInv, MobilityNext, UNCHANGED <<appsVars, routingVars, wifi>>
    PROVE  TakenInv'
<1>0. ReadInv /\ mobility \in [MobilityFiles -> MobilityHeld]
  BY DEF TakenInv, MobilityTaken
<1>1. PICK f \in MobilityFiles : ReadAllocator(f) \/ ReadPosition(f) \/ EndOfMobility(f)
  BY DEF MobilityNext
<1>2. CASE AtEnd(f) /\ line # 1 /\ NextFile /\ UNCHANGED mobility
  BY <1>0, <1>2, NextFileRead, NothingTaken
<1>3. ASSUME NEW outcome, outcome \notin Past, Stop(outcome), UNCHANGED mobility
      PROVE  TakenInv'
  <2>1. UNCHANGED <<config, reading, line>> /\ status' \notin Past
    BY <1>3 DEF Stop
  <2> QED
    BY <1>0, <1>3, <2>1, SameRead, NothingTaken
<1>4. ASSUME AtLine(f), NextLine,
             NEW held \in MobilityHeld, mobility' = [mobility EXCEPT ![f] = held],
             \A n \in Nat : (line = n + 1 /\ LinesRead(f) = n) =>
                 MobilityRead(config[f], n + 1, held)
      PROVE  TakenInv'
  <2>1. PICK n \in Nat : line = n + 1 /\ LinesRead(f) = n /\ LinesRead(f)' = n + 1
    BY <1>0, <1>4, NextLineRead
  <2>2. /\ ReadInv' /\ config' = config
        /\ \A g : g # f => LinesRead(g)' = LinesRead(g)
    BY <1>0, <1>4, NextLineRead
  <2>3. mobility' \in [MobilityFiles -> MobilityHeld] /\ mobility'[f] = held
    BY <1>0, <1>4
  <2>4. ASSUME NEW g \in MobilityFiles PROVE MobilityRead(config'[g], LinesRead(g)', mobility'[g])
    <3>1. CASE g = f
      BY <1>4, <2>1, <2>2, <2>3, <3>1
    <3>2. CASE g # f
      <4>1. mobility'[g] = mobility[g]
        BY <1>0, <1>4, <3>2
      <4> QED
        BY <2>2, <3>2, <4>1 DEF TakenInv, MobilityTaken
    <3> QED
      BY <3>1, <3>2
  <2>5. MobilityTaken'
    BY <2>3, <2>4 DEF MobilityTaken
  <2>6. AppsTaken' /\ RoutingTaken' /\ WifiTaken'
    BY <2>2, OthersTaken DEF WifiFiles, MobilityFiles
  <2> QED
    BY <2>2, <2>5, <2>6 DEF TakenInv
<1>6. CASE ReadAllocator(f)
  <2>1. CASE Allocator(config[f][line]) = "ok"
    <3>1. /\ AtLine(f) /\ NextLine
          /\ mobility' = [mobility EXCEPT ![f].type = config[f][line].type]
      BY <1>6, <2>1 DEF ReadAllocator
    <3>2. config[f][line].type \in DOMAIN Known["allocator"]
      BY <2>1 DEF Allocator
    <3> DEFINE held == [mobility[f] EXCEPT !.type = config[f][line].type]
    <3>3. held \in MobilityHeld /\ held.type = config[f][line].type
      BY <1>0, <3>2 DEF MobilityHeld
    <3>4. mobility' = [mobility EXCEPT ![f] = held]
      BY <1>0, <3>1
    <3> HIDE DEF held
    <3>5. ASSUME NEW n \in Nat, line = n + 1
          PROVE  MobilityRead(config[f], n + 1, held)
      <4>1. n = 0 /\ line = 1
        BY <1>6, <3>5 DEF ReadAllocator
      <4>2. 2 .. 0 + 1 = {}
        OBVIOUS
      <4> QED
        BY <2>1, <3>3, <4>1, <4>2 DEF MobilityRead
    <3> QED
      BY <1>4, <3>1, <3>3, <3>4, <3>5
  <2>2. CASE Allocator(config[f][line]) # "ok"
    <3>1. AtLine(f) /\ Stop(Allocator(config[f][line])) /\ UNCHANGED mobility
      BY <1>6, <2>2 DEF ReadAllocator
    <3>2. Allocator(config[f][line]) \in {"ok", "failed", "crashed"}
      BY <1>0, <3>1, AllocatorOutcome DEF Outcomes
    <3> QED
      BY <1>3, <3>1, <3>2 DEF Past
  <2> QED
    BY <2>1, <2>2
<1>7. CASE ReadPosition(f)
  <2>1. Position(mobility[f].type, config[f][line]) \in {"ok", "failed", "crashed"}
    BY DEF Position
  <2>2. CASE Position(mobility[f].type, config[f][line]) = "ok"
    <3>1. /\ AtLine(f) /\ NextLine
          /\ mobility' = [mobility EXCEPT ![f].n = @ + 1]
      BY <1>7, <2>2 DEF ReadPosition
    <3> DEFINE held == [mobility[f] EXCEPT !.n = @ + 1]
    <3>2. held \in MobilityHeld /\ held.type = mobility[f].type
      BY <1>0 DEF MobilityHeld
    <3>3. mobility' = [mobility EXCEPT ![f] = held]
      BY <1>0, <3>1
    <3> HIDE DEF held
    <3>4. ASSUME NEW n \in Nat, line = n + 1, LinesRead(f) = n
          PROVE  MobilityRead(config[f], n + 1, held)
      <4>1. n > 0
        BY <1>7, <3>4 DEF ReadPosition
      <4>2. MobilityRead(config[f], n, mobility[f])
        BY <3>4 DEF TakenInv, MobilityTaken
      <4>3. \A m \in 2 .. n + 1 : m \in 2 .. n \/ m = n + 1
        OBVIOUS
      <4> QED
        BY <2>2, <3>2, <3>4, <4>1, <4>2, <4>3 DEF MobilityRead
    <3> QED
      BY <1>4, <3>1, <3>2, <3>3, <3>4
  <2>3. CASE Position(mobility[f].type, config[f][line]) # "ok"
    <3> DEFINE result == Position(mobility[f].type, config[f][line])
    <3>1. result \notin Past
      BY <2>1, <2>3 DEF Past
    <3>2. Stop(result) /\ UNCHANGED mobility
      BY <1>7, <2>3 DEF ReadPosition
    <3> HIDE DEF result
    <3> QED
      BY <1>3, <3>1, <3>2
  <2> QED
    BY <2>2, <2>3
<1>8. CASE EndOfMobility(f)
  <2>1. AtEnd(f) /\ UNCHANGED mobility
    BY <1>8 DEF EndOfMobility
  <2>2. CASE line = 1
    <3>1. Stop("failed")
      BY <1>8, <2>2 DEF EndOfMobility
    <3> QED
      BY <1>3, <2>1, <3>1 DEF Past
  <2>3. CASE line # 1
    <3>1. NextFile
      BY <1>8, <2>3 DEF EndOfMobility
    <3> QED
      BY <1>2, <2>1, <2>3, <3>1
  <2> QED
    BY <2>2, <2>3
<1> QED
  BY <1>1, <1>6, <1>7, <1>8

LEMMA EmptyStrings == NoValue \in Text /\ NoType \in Text
BY Zenon DEF NoValue, NoType, Text

LEMMA TakenInit == Init => TakenInv
<1> SUFFICES ASSUME Init PROVE TakenInv
  OBVIOUS
<1>1. /\ reading = 1 /\ line = 1 /\ status = "started"
      /\ defaults = [k \in Keys |-> NoValue] /\ apps = <<>> /\ conns = <<>>
      /\ MobilityInit /\ WifiInit
  BY DEF Init, MgrInit, AppsConfigInit
<1>0. PICK s \in Settings : \E further \in [1 .. s.count -> s.lines] :
          config = [s.config EXCEPT ![s.file] = @ \o further]
  BY DEF Init
<1>2. PICK further \in [1 .. s.count -> s.lines] :
          config = [s.config EXCEPT ![s.file] = @ \o further]
  BY <1>0
<1>3. /\ DOMAIN config = DOMAIN s.config /\ DOMAIN s.config \subseteq ToSet(FileNames)
      /\ s.count \in Nat /\ s.lines \subseteq FileLine(s.file)
  BY <1>2, SettingsAssumption
<1>4. ASSUME NEW f \in DOMAIN config PROVE config[f] \in Seq(FileLine(f))
  <2>1. s.config[f] \in Seq(FileLine(f))
    BY <1>3, SettingsAssumption
  <2>2. CASE f = s.file
    <3>1. config[f] = s.config[f] \o further
      BY <1>2, <1>3, <2>2
    <3>2. further \in Seq(FileLine(f))
      BY <1>3, <2>2
    <3> QED
      BY <2>1, <3>1, <3>2, ConcatProperties
  <2>3. CASE f # s.file
    BY <1>2, <1>3, <2>1, <2>3
  <2> QED
    BY <2>2, <2>3
<1>5. ReadInv
  <2>1. File \in DOMAIN config => line <= Len(config[File]) + 1
    <3>1. File \in DOMAIN config => Len(config[File]) \in Nat
      BY <1>4, LenProperties
    <3> QED
      BY <1>1, <3>1
  <2>2. reading \in 1 .. 6 /\ line \in Nat \ {0} /\ 1 .. reading - 1 = {}
    BY <1>1
  <2> QED
    BY <1>1, <1>3, <1>4, <2>1, <2>2 DEF ReadInv, Past
<1>6. \A f \in ToSet(FileNames) : LinesRead(f) = 0
  <2>1. ASSUME NEW f \in ToSet(FileNames), f \in DOMAIN config PROVE LinesRead(f) = 0
    <3>1. CASE FileNames[1] = f
      BY <1>1, <3>1 DEF LinesRead
    <3>2. CASE FileNames[1] # f
      <4>1. \A i \in 1 .. 1 : i = 1
        OBVIOUS
      <4> QED
        BY <1>1, <3>2, <4>1 DEF LinesRead
    <3> QED
      BY <3>1, <3>2
  <2> QED
    BY <2>1 DEF LinesRead
<1>7. /\ "apps" \in ToSet(FileNames) /\ WifiFiles \subseteq ToSet(FileNames)
  BY TheFiles
<1>8. AppsTaken
  <2> DEFINE lines == config["apps"]
  <2>1. DefaultsRead(lines, 0, defaults)
    <3>1. ASSUME NEW k PROVE Given(lines, 0, k) = NoValue
      BY 0 \in Nat, GivenNext
    <3>2. defaults \in [Keys -> Text] /\ \A k \in Keys : defaults[k] = NoValue
      BY <1>1, EmptyStrings
    <3> QED
      BY <3>1, <3>2 DEF DefaultsRead
  <2>2. AppsRead(lines, 0, apps)
    <3>1. CountOf(lines, "app", 0) = 0
      BY CountUpTo
    <3>2. apps \in Seq(AppRecord) /\ Len(apps) = 0 /\ DOMAIN apps = {}
      BY <1>1
    <3> QED
      BY <3>1, <3>2 DEF AppsRead
  <2>3. ConnsRead(lines, 0, conns)
    <3>1. CountOf(lines, "connect", 0) = 0
      BY CountUpTo
    <3>2. conns \in Seq(Statement) /\ Len(conns) = 0
      BY <1>1
    <3> QED
      BY <3>1, <3>2 DEF ConnsRead
  <2>4. LinesRead("apps") = 0
    BY <1>6, <1>7
  <2> QED
    BY <2>1, <2>2, <2>3, <2>4 DEF AppsTaken
<1>9. WifiTaken
  <2>1. ASSUME NEW f \in WifiFiles PROVE WifiRead(config[f], 0, wifi[f])
    <3>1. wifi[f] = [standard |-> NoType, manager |-> NoObject, phy |-> <<>>,
                     default |-> TRUE, delay |-> NoObject, losses |-> <<>>]
      BY <1>1 DEF WifiInit
    <3>2. /\ <<>> \in Seq(KeyValue) /\ <<>> \in Seq(Object) /\ NoObject \in Object
          /\ NoType \in Text
      <4>1. <<>> \in Seq(KeyValue) /\ <<>> \in Seq(Object)
        OBVIOUS
      <4> QED
        BY <4>1, EmptyStrings DEF Object, NoObject
    <3>3. wifi[f] \in WifiHeld
      BY <3>1, <3>2 DEF WifiHeld
    <3>4. CountOf(config[f], "add_loss", 0) = 0 /\ Len(wifi[f].losses) = 0
      BY <3>1, CountUpTo
    <3> QED
      BY <3>1, <3>3, <3>4 DEF WifiRead
  <2>2. ASSUME NEW f \in WifiFiles PROVE WifiAccepted(config[f], 0, wifi[f])
    <3>1. /\ wifi[f].standard = NoType /\ wifi[f].manager = NoObject /\ wifi[f].delay = NoObject
      BY <1>1 DEF WifiInit
    <3>2. \A kind : KindUpTo(config[f], kind, 0) = {}
      BY 0 \in Nat, KindMore
    <3>3. ObjectRead(config[f], {}, NoObject) /\ Ordered(wifi[f].phy, config[f], {})
      <4>1. NoObject.attrs = <<>> /\ wifi[f].phy = <<>>
        BY <1>1 DEF NoObject, WifiInit
      <4> QED
        BY <4>1, OrderedNone DEF ObjectRead
    <3>4. 1 .. 0 = {}
      OBVIOUS
    <3> QED
      BY <3>1, <3>2, <3>3, <3>4, Zenon DEF WifiAccepted
  <2>3. wifi = [f \in WifiFiles |-> wifi[f]]
    BY <1>1 DEF WifiInit
  <2> QED
    BY <1>6, <1>7, <2>1, <2>2, <2>3 DEF WifiTaken
<1>10. MobilityTaken
  <2>1. mobility \in [MobilityFiles -> MobilityHeld]
    BY <1>1 DEF MobilityInit, MobilityHeld
  <2>2. \A f \in MobilityFiles : LinesRead(f) = 0
    BY <1>6, TheFiles
  <2> QED
    BY <2>1, <2>2 DEF MobilityTaken, MobilityRead
<1>11. RoutingTaken
  <2>1. routesOn = NoHost /\ tables = <<>> /\ LinesRead("routing") = 0
    BY <1>6, TheFiles DEF Init, NetInit, RoutingInit
  <2>2. HostBefore(config["routing"], 0) = NoHost
    BY 0 \in Nat, HostNext
  <2> QED
    BY <2>1, <2>2 DEF RoutingTaken, RoutingRead
<1> QED
  BY <1>5, <1>8, <1>9, <1>10, <1>11 DEF TakenInv

LEMMA RoutingReads ==
    ASSUME TakenInv, RoutingNext, UNCHANGED <<appsVars, wifi, mobility>>
    PROVE  TakenInv'
<1>0. ReadInv
  BY DEF TakenInv
<1>1. CASE EndOfRouting
  <2>1. AtEnd("routing") /\ NextFile /\ UNCHANGED routingVars
    BY <1>1 DEF EndOfRouting
  <2> QED
    BY <1>0, <2>1, NextFileRead, NothingTaken DEF MobilityFiles
<1>2. ASSUME NEW outcome, outcome \notin Past, Stop(outcome), UNCHANGED routingVars
      PROVE  TakenInv'
  <2>1. UNCHANGED <<config, reading, line>> /\ status' \notin Past
    BY <1>2 DEF Stop
  <2> QED
    BY <1>0, <1>2, <2>1, SameRead, NothingTaken
<1> DEFINE lines == config["routing"]
<1>4. ASSUME AtLine("routing"), NextLine,
             \A n \in Nat : (line = n + 1 /\ RoutingRead(lines, n, routesOn, tables)) =>
                 RoutingRead(lines, n + 1, routesOn', tables')
      PROVE  TakenInv'
  <2>1. PICK n \in Nat : /\ line = n + 1
                        /\ LinesRead("routing") = n /\ LinesRead("routing")' = n + 1
    BY <1>0, <1>4, NextLineRead
  <2>2. /\ ReadInv' /\ config' = config
        /\ \A g : g # "routing" => LinesRead(g)' = LinesRead(g)
    BY <1>0, <1>4, NextLineRead
  <2>3. RoutingRead(lines, n, routesOn, tables)
    BY <2>1 DEF TakenInv, RoutingTaken
  <2>4. RoutingTaken'
    BY <1>4, <2>1, <2>2, <2>3 DEF RoutingTaken
  <2> QED
    BY <2>2, <2>4, OthersTaken DEF TakenInv, WifiFiles, MobilityFiles
<1>5. ASSUME NEW n \in Nat, line = n + 1, RoutingRead(lines, n, routesOn, tables),
             LineUsable(lines[n + 1]), lines[n + 1].kind # "route", tables' = tables,
             routesOn' = IF lines[n + 1].kind = "routes_on" THEN lines[n + 1].host ELSE routesOn
      PROVE  RoutingRead(lines, n + 1, routesOn', tables')
  <2> HIDE DEF lines
  <2> QED
    BY <1>5, OtherLine
<1> DEFINE Refused == \E outcome \in Reported : Refuse(outcome)
<1>10. ASSUME AtLine("routing") PROVE lines[line] \in RoutingFileLine
  <2>1. FileLine("routing") = RoutingFileLine
    BY DEF FileLine, MobilityFiles, WifiFiles
  <2>2. "routing" \in DOMAIN config /\ line <= Len(lines) /\ line \in Nat \ {0}
    BY <1>0, <1>10 DEF AtLine, Reading, ReadInv
  <2>3. lines \in Seq(RoutingFileLine)
    BY <1>0, <2>1, <2>2 DEF ReadInv
  <2>4. line \in 1 .. Len(lines) /\ DOMAIN lines = 1 .. Len(lines)
    BY <2>2, <2>3, LenProperties
  <2> HIDE DEF lines
  <2> QED
    BY <2>3, <2>4, ElementsIn
<1>11. ReadPastEnd \/ Refuse("failed") \/ Refuse("crashed") => Refused
  BY DEF ReadPastEnd, Reported
<1>6. CASE ReadProto /\ ~Refused
  <2>1. /\ AtLine("routing") /\ NextLine
        /\ lines[line].kind = "proto" /\ lines[line].name \in Protocols
        /\ ~(lines[line].ntok < 2)
        /\ UNCHANGED <<routesOn, tables>>
    BY <1>6, <1>11 DEF ReadProto, RoutingLine
  <2>2. LineUsable(lines[line]) /\ lines[line].kind \notin {"route", "routes_on"}
    BY <1>10, <2>1 DEF LineUsable, RoutingFileLine
  <2> HIDE DEF lines
  <2> QED
    BY <1>4, <1>5, <2>1, <2>2
<1>7. CASE ReadRoutesOn /\ ~Refused
  <2>1. /\ AtLine("routing") /\ NextLine
        /\ lines[line].kind = "routes_on" /\ lines[line].host # BadAddress
        /\ ~(lines[line].ntok < 2)
        /\ routesOn' = lines[line].host /\ UNCHANGED tables
    BY <1>7, <1>11 DEF ReadRoutesOn, RoutingLine
  <2>2. LineUsable(lines[line]) /\ lines[line].kind # "route"
    BY <1>10, <2>1 DEF LineUsable, RoutingFileLine
  <2> HIDE DEF lines
  <2> QED
    BY <1>4, <1>5, <2>1, <2>2
<1>8. CASE ReadRoute /\ ~Refused
  <2> DEFINE l == lines[line]
             entry == Entry(l)
  <2>1. AtLine("routing") /\ l.kind = "route"
    BY <1>8 DEF ReadRoute, RoutingLine
  <2>2. l \in RoutingFileLine
    BY <1>10, <2>1
  <2>3. /\ l.ntok \in Nat /\ l.target \in Address /\ l.len \in Nat /\ l.via \in Address
        /\ l.gateway \in Address /\ l.metric \in Nat \cup {BadMetric}
    BY <2>1, <2>2 DEF RoutingFileLine
  <2>5. /\ NextLine /\ BadAddress \notin {l.target, l.via, entry.gateway} /\ ~(l.ntok < 2)
        /\ entry.metric # BadMetric
        /\ tables' = Put(tables, routesOn, Append(TableOn(routesOn), entry))
        /\ routesOn' = routesOn
    BY <1>8, <1>11 DEF ReadRoute, RoutingLine
  <2>4. entry \in RouteEntry /\ entry.via = l.via
    <3> DEFINE gw == IF l.ntok >= 3 THEN l.gateway ELSE NoHost
               metric == IF l.ntok >= 4 THEN l.metric ELSE 0
    <3>1. entry = [target |-> l.target, len |-> l.len, via |-> l.via, gateway |-> gw,
                   metric |-> metric]
      BY DEF Entry
    <3>2. gw \in Address /\ metric \in Nat \cup {BadMetric}
      BY <2>3 DEF NoHost, Address
    <3> HIDE DEF gw, metric, entry
    <3>3. metric # BadMetric
      BY <2>5, <3>1
    <3> QED
      BY <2>3, <3>1, <3>2, <3>3 DEF RouteEntry
  <2>6. LineUsable(l)
    <3>1. /\ entry.gateway = IF l.ntok >= 3 THEN l.gateway ELSE NoHost
          /\ entry.metric = IF l.ntok >= 4 THEN l.metric ELSE 0
      BY DEF Entry
    <3> HIDE DEF entry, lines
    <3>2. /\ l.ntok >= 2
          /\ l.ntok > 2 => l.gateway # BadAddress
          /\ l.ntok > 3 => l.metric # BadMetric
      BY <2>3, <2>5, <3>1
    <3> QED
      BY <2>1, <2>5, <3>2 DEF LineUsable
  <2>7. TableOn(routesOn) = IF routesOn \in DOMAIN tables THEN tables[routesOn] ELSE <<>>
    BY DEF TableOn
  <2>8. ASSUME NEW n \in Nat, line = n + 1, RoutingRead(lines, n, routesOn, tables)
        PROVE  RoutingRead(lines, n + 1, routesOn', tables')
    <3>1. /\ LineUsable(lines[n + 1]) /\ lines[n + 1].kind = "route"
          /\ entry.via = lines[n + 1].via
      BY <2>1, <2>4, <2>6, <2>8
    <3> HIDE DEF lines, entry
    <3>2. RoutingRead(lines, n + 1, routesOn,
                      Put(tables, routesOn, Append(TableOn(routesOn), entry)))
      BY <2>4, <2>7, <2>8, <3>1, RouteLine
    <3> QED
      BY <2>5, <3>2
  <2> HIDE DEF lines, entry
  <2> QED
    BY <1>4, <2>1, <2>5, <2>8
<1>9. CASE Refused
  BY <1>2, <1>9 DEF Refuse, Reported, Past
<1> QED
  BY <1>1, <1>6, <1>7, <1>8, <1>9 DEF RoutingNext

(* The two steps that follow the wifi configuration get past it only if    *)
(* every part they configure is fine.                                      *)
ChannelsFine ==
    /\ \A f \in WifiFiles : ConfigureChannel(wifi[f]) = "ok"
    /\ ConfigureWifi(wifi["apsta_wifi"]) = "ok" /\ ConfigurePhy(wifi["apsta_wifi"]) = "ok"
MeshFine == ConfigureWifi(wifi["mesh_wifi"]) = "ok" /\ ConfigurePhy(wifi["mesh_wifi"]) = "ok"

LEMMA ConfigureSteps ==
    ASSUME TakenInv
    PROVE  /\ CreateChannels => status' \in Reported \/ (status' = "channels" /\ ChannelsFine)
           /\ CreateNodes => status' \in Reported \/ (status' = "nodes" /\ MeshFine)
<1> DEFINE mesh == wifi["mesh_wifi"]
           apsta == wifi["apsta_wifi"]
<1>1. mesh \in WifiHeld /\ apsta \in WifiHeld
  BY DEF TakenInv, WifiTaken, WifiRead, WifiFiles
<1>2. /\ ChannelsFine <=> /\ ConfigureChannel(mesh) = "ok" /\ ConfigureChannel(apsta) = "ok"
                         /\ ConfigureWifi(apsta) = "ok" /\ ConfigurePhy(apsta) = "ok"
      /\ MeshFine <=> ConfigureWifi(mesh) = "ok" /\ ConfigurePhy(mesh) = "ok"
  BY DEF ChannelsFine, MeshFine, WifiFiles
<1> HIDE DEF mesh, apsta
<1>3. /\ ConfigureChannel(mesh) \in Outcomes /\ ConfigureChannel(apsta) \in Outcomes
      /\ ConfigureWifi(mesh) \in Outcomes /\ ConfigureWifi(apsta) \in Outcomes
      /\ ConfigurePhy(mesh) \in Outcomes /\ ConfigurePhy(apsta) \in Outcomes
  BY <1>1, ConfigureOutcomes
<1> DEFINE four == <<ConfigureChannel(mesh), ConfigureChannel(apsta),
                     ConfigureWifi(apsta), ConfigurePhy(apsta)>>
           two == <<ConfigureWifi(mesh), ConfigurePhy(mesh)>>
<1>4. DOMAIN four = 1 .. 4 /\ DOMAIN two = 1 .. 2
  OBVIOUS
<1>5. (\A i \in DOMAIN four : four[i] \in Outcomes) /\ (\A i \in DOMAIN two : two[i] \in Outcomes)
  BY <1>3
<1>6. /\ (\A i \in 1 .. 4 : four[i] = "ok") => ChannelsFine
      /\ (\A i \in 1 .. 2 : two[i] = "ok") => MeshFine
  <2>1. ASSUME \A i \in 1 .. 4 : four[i] = "ok" PROVE ChannelsFine
    <3>1. four[1] = "ok" /\ four[2] = "ok" /\ four[3] = "ok" /\ four[4] = "ok"
      <4> HIDE DEF four
      <4> QED
        BY <2>1
    <3> QED
      BY <1>2, <3>1
  <2>2. ASSUME \A i \in 1 .. 2 : two[i] = "ok" PROVE MeshFine
    <3>1. two[1] = "ok" /\ two[2] = "ok"
      <4> HIDE DEF two
      <4> QED
        BY <2>2
    <3> QED
      BY <1>2, <3>1
  <2> QED
    BY <2>1, <2>2
<1>7. ASSUME CreateChannels PROVE status' \in Reported \/ (status' = "channels" /\ ChannelsFine)
  <2>1. status' = IF FirstProblem(four) = "ok" THEN "channels" ELSE FirstProblem(four)
    BY <1>7 DEF CreateChannels, Proceed, Stop, mesh, apsta
  <2> HIDE DEF four
  <2> QED
    BY <1>4, <1>5, <1>6, <2>1, FirstProblemIs DEF Outcomes, Reported
<1>8. ASSUME CreateNodes PROVE status' \in Reported \/ (status' = "nodes" /\ MeshFine)
  <2>1. status' = IF FirstProblem(two) = "ok" THEN "nodes" ELSE FirstProblem(two)
    BY <1>8 DEF CreateNodes, Proceed, Stop, mesh, apsta
  <2> HIDE DEF two
  <2> QED
    BY <1>4, <1>5, <1>6, <2>1, FirstProblemIs DEF Outcomes, Reported
<1> QED
  BY <1>7, <1>8

(* Once loaded, what was read stays as it was. *)
LEMMA AfterLoading ==
    ASSUME TakenInv, [Next]_vars, ~LoadConfig
    PROVE  /\ UNCHANGED <<config, reading, line, appsVars, routingVars, wifi, mobility, args>>
           /\ status' \in Past => status \in Past
<1>1. CASE ProcessCommandLineArgs
  BY <1>1 DEF ProcessCommandLineArgs, Stop, Past
<1>2. CASE CreateChannels \/ CreateNodes
  BY <1>2, ConfigureSteps DEF CreateChannels, CreateNodes, Proceed, Stop, Past, Reported
<1>3. CASE CreateNetwork
  BY <1>3 DEF CreateNetwork, CreateInterfaces, Stop, Past
<1>4. CASE CreateApps
  <2>1. UNCHANGED <<routingVars, wifi, mobility, args>>
    BY <1>4 DEF CreateApps
  <2>2. CASE CreateApp
    BY <2>1, <2>2 DEF CreateApp, readerVars
  <2>3. CASE CreateConn1
    <3>1. End("crashed") \/ Connects
      BY <2>3, ConnectStep
    <3>2. status \in Past
      BY <2>3, ConnectStep DEF Past
    <3> QED
      BY <2>1, <3>1, <3>2 DEF End, Stop, Connects, readerVars, Past
  <2>4. CASE RefuseApp \/ AllCreated \/ RefuseConns \/ AllConnected
    BY <2>1, <2>4 DEF RefuseApp, AllCreated, RefuseConns, AllConnected, End, Stop, Past
  <2> QED
    BY <1>4, <2>2, <2>3, <2>4 DEF CreateApps, InstallApps
<1>5. CASE PreparePcap
  BY <1>5 DEF PreparePcap, Stop, Past
<1>6. CASE Run
  BY <1>6 DEF Run, Traffic, Emit, Forward, readerVars
<1>7. CASE UNCHANGED vars
  BY <1>7 DEF vars, readerVars
<1> QED
  BY <1>1, <1>2, <1>3, <1>4, <1>5, <1>6, <1>7 DEF Next

LEMMA TakenNext ==
    ASSUME TakenInv, [Next]_vars
    PROVE  TakenInv'
<1>0. ReadInv
  BY DEF TakenInv
<1>1. CASE LoadConfig
  <2>1. CASE OpenFails /\ UNCHANGED <<appsVars, routingVars, mobility, wifi>>
    <3>1. UNCHANGED <<config, reading, line>> /\ status' \notin Past
      BY <2>1 DEF OpenFails, Stop, Past
    <3> QED
      BY <1>0, <2>1, <3>1, SameRead, NothingTaken
  <2> QED
    BY <1>1, <2>1, MobilityReads, AppsReads, RoutingReads, WifiReads
    DEF LoadConfig, LoadAppsConfig, LoadRoutingConfig
<1>2. CASE ~LoadConfig
  <2>1. ReadInv' /\ \A g : LinesRead(g)' = LinesRead(g)
    BY <1>0, <1>2, AfterLoading, SameRead
  <2> QED
    BY <1>2, <2>1, AfterLoading, NothingTaken
<1> QED
  BY <1>1, <1>2

-----------------------------------------------------------------------------
(* How the program proceeds: reading ends with the last file, or with a    *)
(* problem; every later step does the one thing its status calls for.      *)
Statuses == {"started", "loading", "loaded", "channels", "nodes", "interfaces",
             "connecting", "installed", "ready", "failed", "crashed"}
WithRoutes == {"interfaces", "connecting", "installed", "ready"}

LEMMA LoadStatus ==
    ASSUME TakenInv, LoadConfig
    PROVE  /\ status = "loading"
           /\ status' \in {"loading", "loaded"} \cup Reported
<1>1. ASSUME status = "loading", NextLine \/ NextFile PROVE status' \in {"loading", "loaded"}
  BY <1>1 DEF NextLine, NextFile
<1>2. ASSUME NEW outcome \in Reported, Stop(outcome) PROVE status' \in Reported
  BY <1>2 DEF Stop
<1>3. CASE OpenFails
  BY <1>2, <1>3 DEF OpenFails, Reported
<1>4. CASE MobilityNext
  <2>1. PICK f \in MobilityFiles : ReadAllocator(f) \/ ReadPosition(f) \/ EndOfMobility(f)
    BY <1>4 DEF MobilityNext
  <2>2. status = "loading"
    BY <2>1 DEF ReadAllocator, ReadPosition, EndOfMobility, AtLine, AtEnd, Reading
  <2>3. CASE ReadAllocator(f)
    <3>1. AtLine(f) /\ ReadInv
      BY <2>3 DEF ReadAllocator, TakenInv
    <3>2. Allocator(config[f][line]) \in {"ok", "failed", "crashed"}
      BY <3>1, AllocatorOutcome DEF Outcomes
    <3>3. \/ NextLine
          \/ Allocator(config[f][line]) # "ok" /\ Stop(Allocator(config[f][line]))
      BY <2>3 DEF ReadAllocator
    <3> QED
      BY <1>1, <1>2, <2>2, <3>2, <3>3 DEF Reported
  <2>4. CASE ReadPosition(f)
    <3>1. Position(mobility[f].type, config[f][line]) \in {"ok", "failed", "crashed"}
      BY DEF Position
    <3>2. \/ NextLine
          \/ /\ Position(mobility[f].type, config[f][line]) # "ok"
             /\ Stop(Position(mobility[f].type, config[f][line]))
      BY <2>4 DEF ReadPosition
    <3> QED
      BY <1>1, <1>2, <2>2, <3>1, <3>2 DEF Reported
  <2>5. CASE EndOfMobility(f)
    <3>1. NextFile \/ Stop("failed")
      BY <2>5 DEF EndOfMobility
    <3> QED
      BY <1>1, <1>2, <2>2, <3>1 DEF Reported
  <2> QED
    BY <2>1, <2>2, <2>3, <2>4, <2>5
<1>5. CASE WifiNext
  <2>1. PICK f \in WifiFiles : ReadWifi(f) \/ EndOfWifi(f)
    BY <1>5 DEF WifiNext
  <2>2. status = "loading" /\ (NextLine \/ NextFile \/ Stop("failed"))
    BY <2>1 DEF ReadWifi, EndOfWifi, AtLine, AtEnd, Reading
  <2> QED
    BY <1>1, <1>2, <2>2 DEF Reported
<1>6. CASE AppsConfigNext
  <2>1. status = "loading" /\ (NextLine \/ NextFile \/ Stop("failed"))
    BY <1>6 DEF AppsConfigNext, ReadDefaults, ReadConnect, ReadApp, EndOfApps, AtLine, AtEnd,
       Reading
  <2> QED
    BY <1>1, <1>2, <2>1 DEF Reported
<1>7. CASE RoutingNext
  <2>1. status = "loading" /\ (NextLine \/ NextFile \/ Stop("failed") \/ Stop("crashed"))
    BY <1>7 DEF RoutingNext, ReadProto, ReadRoutesOn, ReadRoute, EndOfRouting, AtLine, AtEnd,
       Reading, ReadPastEnd, Refuse
  <2> QED
    BY <1>1, <1>2, <2>1 DEF Reported
<1> QED
  BY <1>3, <1>4, <1>5, <1>6, <1>7 DEF LoadConfig, LoadAppsConfig, LoadRoutingConfig

LEMMA StatusNext ==
    ASSUME TakenInv, [Next]_vars, status \in Statuses
    PROVE  /\ status' \in Statuses
           /\ status' \in {"started", "loading"} => status \in {"started", "loading"}
           /\ status' \in WithRoutes => status \in WithRoutes \/ CreateNetwork
<1>1. CASE ProcessCommandLineArgs
  BY <1>1 DEF ProcessCommandLineArgs, Stop, Statuses, WithRoutes
<1>2. CASE LoadConfig
  BY <1>2, LoadStatus DEF Reported, Statuses, WithRoutes
<1>3. CASE CreateChannels \/ CreateNodes
  BY <1>3, ConfigureSteps DEF Statuses, WithRoutes, Reported
<1>4. CASE CreateNetwork
  BY <1>4 DEF CreateNetwork, CreateInterfaces, Stop, Statuses
<1>5. CASE CreateApps
  <2>1. CASE CreateApp
    BY <2>1 DEF CreateApp, readerVars
  <2>2. CASE CreateConn1
    BY <2>2, ConnectStep DEF End, Stop, Connects, readerVars, Statuses, WithRoutes
  <2>3. CASE RefuseApp \/ AllCreated \/ RefuseConns \/ AllConnected
    BY <2>3 DEF RefuseApp, AllCreated, RefuseConns, AllConnected, End, Stop, Statuses, WithRoutes
  <2> QED
    BY <1>5, <2>1, <2>2, <2>3 DEF CreateApps, InstallApps
<1>6. CASE PreparePcap
  BY <1>6 DEF PreparePcap, Stop, Statuses, WithRoutes
<1>7. CASE Run
  BY <1>7 DEF Run, Traffic, Emit, Forward, readerVars
<1>8. CASE UNCHANGED vars
  BY <1>8 DEF vars, readerVars
<1> QED
  BY <1>1, <1>2, <1>3, <1>4, <1>5, <1>6, <1>7, <1>8 DEF Next

-----------------------------------------------------------------------------
(* The applications created and the connections made name each other.      *)
SlotOf(key, created) == key[1] \in DOMAIN created /\ key[2] \in 0 .. SlotCount - 1

MgrInv ==
    /\ status \in Statuses
    /\ nextApp \in 1 .. Len(apps) + 1
    /\ nextConn \in 1 .. Len(conns) + 1
    /\ status \in {"started", "loading"} => nextApp = 1 /\ nextConn = 1
    /\ \A t \in DOMAIN rec : rec[t].host \in Hosts
    /\ \A key \in DOMAIN sendTo \cup DOMAIN listen : SlotOf(key, rec)

LEMMA MgrStart == Init => MgrInv
<1> SUFFICES ASSUME Init PROVE MgrInv
  OBVIOUS
<1>1. /\ status = "started" /\ nextApp = 1 /\ nextConn = 1 /\ apps = <<>> /\ conns = <<>>
      /\ rec = <<>> /\ sendTo = <<>> /\ listen = <<>>
  BY DEF Init, MgrInit, AppsConfigInit
<1>2. DOMAIN rec = {} /\ DOMAIN sendTo = {} /\ DOMAIN listen = {}
      /\ Len(apps) = 0 /\ Len(conns) = 0
  BY <1>1
<1> QED
  BY <1>1, <1>2 DEF MgrInv, Statuses

LEMMA ConnectKeys ==
    ASSUME SetupInv, CreateConn1, Connects
    PROVE  SlotOf(TxKey, rec) /\ SlotOf(RxKey, rec)
<1>1. RxIndex \in Nat /\ TxIndex \in Nat
  BY NextJoins
<1>2. TxKey[1] = TxTag /\ RxKey[1] = RxTag /\ TxKey[2] \in Nat /\ RxKey[2] \in Nat
  BY <1>1 DEF TxKey, RxKey, Slot
<1>3. /\ TypeOf(TxTag) # "none" /\ TypeOf(RxTag) # "none"
      /\ TxKey[2] < SlotCount /\ RxKey[2] < SlotCount
  BY DEF Connects, Possible, Senders, Receivers
<1>4. TxTag \in DOMAIN rec /\ RxTag \in DOMAIN rec
  BY <1>3 DEF TypeOf
<1>5. TxKey[2] \in 0 .. SlotCount - 1 /\ RxKey[2] \in 0 .. SlotCount - 1
  BY <1>2, <1>3, SlotAssumption
<1> QED
  BY <1>2, <1>4, <1>5 DEF SlotOf

LEMMA MgrNext ==
    ASSUME TakenInv, TakenInv', SetupInv, MgrInv, [Next]_vars
    PROVE  MgrInv'
<1>1. /\ status' \in Statuses
      /\ status' \in {"started", "loading"} => status \in {"started", "loading"}
  BY StatusNext DEF MgrInv
<1>2. /\ Len(apps) \in Nat /\ Len(apps') \in Nat /\ Len(conns) \in Nat /\ Len(conns') \in Nat
  <2>1. apps \in Seq(AppRecord) /\ conns \in Seq(Statement)
    BY DEF TakenInv, AppsTaken, AppsRead, ConnsRead
  <2>2. apps' \in Seq(AppRecord) /\ conns' \in Seq(Statement)
    BY DEF TakenInv, AppsTaken, AppsRead, ConnsRead
  <2> QED
    BY <2>1, <2>2, LenProperties
<1>3. CASE LoadConfig
  <2>1. status = "loading" /\ UNCHANGED mgrVars
    BY <1>3, LoadStep
  <2>2. nextApp = 1 /\ nextConn = 1
    BY <2>1 DEF MgrInv
  <2> QED
    BY <1>1, <1>2, <2>1, <2>2 DEF MgrInv, mgrVars
<1>4. CASE ~LoadConfig /\ UNCHANGED mgrVars
  <2>1. apps' = apps /\ conns' = conns
    BY <1>4, AfterLoading DEF appsVars
  <2> QED
    BY <1>1, <1>4, <2>1 DEF MgrInv, mgrVars
<1>5. CASE CreateApps
  <2>1. CASE CreateApp
    <3>1. /\ UNCHANGED <<status, conns, apps, nextConn, sendTo, listen>>
          /\ status = "interfaces"
          /\ nextApp <= Len(apps) /\ nextApp' = nextApp + 1
          /\ apps[nextApp].host \in Hosts
          /\ rec' = Put(rec, apps[nextApp].tag, apps[nextApp])
      BY <2>1 DEF CreateApp, readerVars, appsVars
    <3>2. \A t \in DOMAIN rec' : rec'[t].host \in Hosts
      BY <3>1 DEF MgrInv, Put
    <3>3. DOMAIN rec \subseteq DOMAIN rec'
      BY <3>1 DEF Put
    <3>4. \A key \in DOMAIN sendTo' \cup DOMAIN listen' : SlotOf(key, rec')
      BY <3>1, <3>3 DEF MgrInv, SlotOf
    <3>5. nextApp' \in 1 .. Len(apps') + 1 /\ nextConn' \in 1 .. Len(conns') + 1
      BY <1>2, <3>1 DEF MgrInv
    <3> QED
      BY <1>1, <3>1, <3>2, <3>4, <3>5 DEF MgrInv
  <2>2. CASE CreateConn1
    <3>1. status = "connecting" /\ nextConn <= Len(conns) /\ (End("crashed") \/ Connects)
      BY <2>2, ConnectStep
    <3>2. CASE End("crashed")
      <4>1. UNCHANGED <<apps, conns>> /\ UNCHANGED mgrVars
        BY <3>2 DEF End, appsVars
      <4> QED
        BY <1>1, <3>1, <4>1 DEF MgrInv, mgrVars
    <3>3. CASE Connects
      <4>1. /\ UNCHANGED <<status, apps, conns, rec>>
            /\ sendTo' = Put(sendTo, TxKey, <<rec[RxTag].host, FirstPort + sindex>>)
            /\ listen' = Put(listen, RxKey, FirstPort + sindex)
            /\ nextConn' = nextConn + 1 \/ nextConn' = nextConn
        BY <3>3 DEF Connects, readerVars, appsVars
      <4>2. nextApp' = nextApp
        BY <2>2, <3>3, <4>1 DEF CreateConn1, End, mgrVars
      <4>3. SlotOf(TxKey, rec) /\ SlotOf(RxKey, rec)
        BY <2>2, <3>3, ConnectKeys
      <4>4. DOMAIN sendTo' = DOMAIN sendTo \cup {TxKey} /\ DOMAIN listen' = DOMAIN listen \cup {RxKey}
        BY <4>1 DEF Put
      <4>5. \A key \in DOMAIN sendTo' \cup DOMAIN listen' : SlotOf(key, rec')
        BY <4>1, <4>3, <4>4 DEF MgrInv
      <4>6. nextConn' \in 1 .. Len(conns') + 1
        BY <1>2, <3>1, <4>1 DEF MgrInv
      <4> QED
        BY <1>1, <3>1, <4>1, <4>2, <4>5, <4>6 DEF MgrInv
    <3> QED
      BY <3>1, <3>2, <3>3
  <2>3. CASE RefuseApp \/ AllCreated \/ RefuseConns \/ AllConnected
    <3>1. UNCHANGED <<apps, conns>> /\ UNCHANGED mgrVars
          /\ status \in {"interfaces", "connecting"}
      BY <2>3 DEF RefuseApp, AllCreated, RefuseConns, AllConnected, End, appsVars
    <3> QED
      BY <1>1, <3>1 DEF MgrInv, mgrVars
  <2> QED
    BY <1>5, <2>1, <2>2, <2>3 DEF CreateApps, InstallApps
<1>6. CASE ~LoadConfig /\ ~CreateApps
  <2>1. UNCHANGED mgrVars
    <3>1. CASE ProcessCommandLineArgs \/ CreateChannels \/ CreateNodes \/ CreateNetwork
      BY <3>1 DEF ProcessCommandLineArgs, CreateChannels, CreateNodes, Proceed, CreateNetwork
    <3>2. CASE PreparePcap \/ Run
      BY <3>2 DEF PreparePcap, Run
    <3>3. CASE UNCHANGED vars
      BY <3>3 DEF vars, mgrVars
    <3> QED
      BY <1>6, <3>1, <3>2, <3>3 DEF Next
  <2> QED
    BY <1>4, <1>6, <2>1
<1> QED
  BY <1>3, <1>5, <1>6

-----------------------------------------------------------------------------
(* A route leaves by an interface of its node once the tables are          *)
(* installed, and the packet is at a node or nowhere.                      *)
NetInv ==
    /\ proto \in Protocols
    /\ generated \in BOOLEAN
    /\ chain \in BOOLEAN
    /\ ap \in [Stas -> Meshes]
    /\ at \in Nodes \cup {Nowhere}
    /\ status \in WithRoutes =>
           \A n \in Nodes : \A r \in routes[n] : r.via \in AddrsOf(n)
    /\ path # {} => status = "ready"

LEMMA NetStart == Init => NetInv
<1> SUFFICES ASSUME Init PROVE NetInv
  OBVIOUS
<1>1. /\ status = "started" /\ proto = "olsr" /\ at = Nowhere /\ path = {}
      /\ generated \in BOOLEAN /\ chain \in BOOLEAN
      /\ ap \in (IF chain THEN {[s \in Stas |-> MeshSize]} ELSE [Stas -> Meshes])
  BY DEF Init, NetInit, RoutingInit
<1>2. MeshSize \in Meshes
  BY SizeAssumption DEF Meshes
<1>3. ap \in [Stas -> Meshes]
  <2>1. [s \in Stas |-> MeshSize] \in [Stas -> Meshes]
    BY <1>2
  <2>2. CASE chain
    BY <1>1, <2>1, <2>2
  <2>3. CASE ~chain
    BY <1>1, <2>3
  <2> QED
    BY <2>2, <2>3
<1> QED
  BY <1>1, <1>3 DEF NetInv, WithRoutes, Protocols

(* A frame reaches nodes, whatever interface of its node it leaves by.     *)
LEMMA ReachedNodes ==
    ASSUME NEW node \in Nodes, NEW via \in AddrsOf(node), NEW hop, NEW n \in Reached(node, via, hop)
    PROVE  n \in Nodes
<1>1. Owns(node, via)
  BY AddressPlan
<1>2. MeshSize \in Nat /\ StaSize \in Nat /\ 1 \in 1 .. MeshSize
  BY SizeAssumption
<1>3. /\ Backhaul \in Nodes /\ Mesh(1) \in Nodes
      /\ \A i \in 1 .. StaSize : Sta(i) \in Nodes /\ Wired(i) \in Nodes
  BY <1>2 DEF Nodes, Meshes, Stas
<1>4. via[1] \in {1, 2, 3, 4}
  BY <1>1 DEF Owns
<1>5. CASE via[1] = 1
  <2>1. n \in {Backhaul, Mesh(1)}
    BY <1>5 DEF Reached
  <2> QED
    BY <1>3, <2>1
<1>6. CASE via[1] \in {2, 3}
  <2>1. n \in Owners(hop)
    BY <1>6 DEF Reached
  <2> QED
    BY <2>1 DEF Owners
<1>7. CASE via[1] = 4
  <2>1. PICK i \in 1 .. StaSize : node = Sta(i) \/ node = Wired(i)
    BY <1>1, <1>7 DEF Owns
  <2>2. node[2] = i
    BY <2>1 DEF Sta, Wired
  <2>3. n \in {Sta(node[2]), Wired(node[2])}
    BY <1>7 DEF Reached
  <2> QED
    BY <1>3, <2>2, <2>3
<1> QED
  BY <1>4, <1>5, <1>6, <1>7

(* CreateInterfaces installs a table on the node that has its interfaces.  *)
LEMMA RoutesInstalled ==
    ASSUME CreateInterfaces, status' # "crashed"
    PROVE  \A n \in Nodes : \A r \in routes'[n] : r.via \in AddrsOf(n)
<1>1. Installable
  BY DEF CreateInterfaces, Stop
<1>2. routes' = [n \in Nodes |-> Connected(n) \cup
                     UNION {ToSet(tables[h]) : h \in AddrsOf(n) \cap DOMAIN tables}]
  BY <1>1 DEF CreateInterfaces
<1>3. ASSUME NEW n \in Nodes, NEW r \in routes'[n] PROVE r.via \in AddrsOf(n)
  <2>1. CASE r \in Connected(n)
    BY <2>1 DEF Connected
  <2>2. CASE r \notin Connected(n)
    <3>1. PICK h \in AddrsOf(n) \cap DOMAIN tables : r \in ToSet(tables[h])
      BY <1>2, <1>3, <2>2
    <3>2. PICK i \in DOMAIN tables[h] : r = tables[h][i]
      BY <3>1 DEF ToSet
    <3>3. Owners(r.via) = Owners(h)
      BY <1>1, <3>1, <3>2 DEF Installable
    <3>4. n \in Owners(h)
      BY <3>1 DEF Owners
    <3> QED
      BY <3>3, <3>4 DEF Owners
  <2> QED
    BY <2>1, <2>2
<1> QED
  BY <1>3

LEMMA NetNext ==
    ASSUME TakenInv, MgrInv, NetInv, [Next]_vars
    PROVE  NetInv'
<1>1. /\ status \in Statuses
      /\ status' \in WithRoutes => status \in WithRoutes \/ CreateNetwork
  BY StatusNext DEF MgrInv
<1>2. ASSUME UNCHANGED netVars, proto' \in Protocols, status # "ready",
             ~CreateNetwork
      PROVE  NetInv'
  <2>1. path = {}
    BY <1>2 DEF NetInv
  <2> QED
    BY <1>1, <1>2, <2>1 DEF NetInv, netVars
<1>3. CASE ProcessCommandLineArgs \/ CreateChannels \/ CreateNodes \/ PreparePcap
  <2>1. UNCHANGED netVars /\ proto' = proto /\ status # "ready" /\ ~CreateNetwork
    BY <1>3 DEF ProcessCommandLineArgs, CreateChannels, CreateNodes, Proceed, PreparePcap,
       routingVars, CreateNetwork, CreateInterfaces
  <2> QED
    BY <1>2, <2>1 DEF NetInv
<1>4. CASE LoadConfig
  <2>1. UNCHANGED netVars /\ status = "loading" /\ ~CreateNetwork
    BY <1>4, LoadStatus DEF LoadConfig, LoadRoutingConfig, CreateNetwork, CreateInterfaces
  <2>2. proto' \in Protocols
    <3>1. CASE UNCHANGED routingVars
      BY <3>1 DEF routingVars, NetInv
    <3>2. CASE RoutingNext
      BY <3>2 DEF RoutingNext, ReadProto, ReadRoutesOn, ReadRoute, EndOfRouting, routingVars,
         ReadPastEnd, Refuse, NetInv
    <3> QED
      BY <1>4, <3>1, <3>2 DEF LoadConfig, LoadRoutingConfig
  <2> QED
    BY <1>2, <2>1, <2>2
<1>5. CASE CreateNetwork
  <2>1. /\ CreateInterfaces /\ status = "nodes"
        /\ UNCHANGED <<proto, generated, chain, ap, at, path>>
        /\ status' = "interfaces" \/ status' = "crashed"
    BY <1>5 DEF CreateNetwork, CreateInterfaces, Stop, routingVars
  <2>2. path = {}
    BY <2>1 DEF NetInv
  <2>3. status' \in WithRoutes =>
            \A n \in Nodes : \A r \in routes'[n] : r.via \in AddrsOf(n)
    BY <2>1, RoutesInstalled DEF WithRoutes
  <2> QED
    BY <2>1, <2>2, <2>3 DEF NetInv
<1>6. CASE CreateApps
  <2>1. UNCHANGED netVars /\ proto' = proto
    BY <1>6 DEF CreateApps, routingVars
  <2>2. status \in {"interfaces", "connecting"}
    BY <1>6, ConnectStep DEF CreateApps, InstallApps, CreateApp, RefuseApp, AllCreated,
       RefuseConns, AllConnected
  <2> QED
    BY <1>2, <2>1, <2>2 DEF NetInv, CreateNetwork, CreateInterfaces
<1>7. CASE Run
  <2>1. UNCHANGED <<status, proto, generated, chain, ap, routes>>
    BY <1>7 DEF Run, Traffic, Emit, Forward, readerVars, routingVars
  <2>2. status = "ready" /\ at' \in Nodes \cup {Nowhere}
    <3>1. CASE \E n \in Nodes, a \in UNION {AddrsOf(n) : n \in Nodes} : Emit(n, a)
      BY <3>1 DEF Emit
    <3>2. CASE Forward
      <4>1. status = "ready" /\ at \in Nodes
        BY <3>2 DEF Forward, NetInv
      <4>2. PICK r \in Lookup(at, target) :
                \E n \in Reached(at, r.via, IF r.gateway = NoHost THEN target ELSE r.gateway) :
                    at' = IF n \in path THEN Nowhere ELSE n
        BY <3>2 DEF Forward
      <4>3. PICK n \in Reached(at, r.via, IF r.gateway = NoHost THEN target ELSE r.gateway) :
                at' = IF n \in path THEN Nowhere ELSE n
        BY <4>2
      <4>4. r.via \in AddrsOf(at)
        BY <4>1, <4>2 DEF NetInv, WithRoutes, Lookup
      <4>5. n \in Nodes
        BY <4>1, <4>3, <4>4, ReachedNodes
      <4> QED
        BY <4>1, <4>3, <4>5
    <3> QED
      BY <1>7, <3>1, <3>2 DEF Run, Traffic
  <2> QED
    BY <2>1, <2>2 DEF NetInv
<1>8. CASE UNCHANGED vars
  BY <1>8 DEF vars, readerVars, routingVars, netVars, NetInv
<1> QED
  BY <1>3, <1>4, <1>5, <1>6, <1>7, <1>8 DEF Next

-----------------------------------------------------------------------------
(* What the program has checked by the time it comes to a status. *)
StageInv ==
    /\ args \in CommandLine
    /\ status \in Past \cup {"loading"} => args.dirs <= 2 /\ args.outDir
    /\ status \in Past \ {"loaded"} => ChannelsFine
    /\ status \in Past \ {"loaded", "channels"} => MeshFine
    /\ status \in WithRoutes => Installable

LEMMA StageInit == Init => StageInv
BY SettingsAssumption DEF Init, StageInv, Past, WithRoutes

LEMMA StageNext ==
    ASSUME TakenInv, StageInv, [Next]_vars
    PROVE  StageInv'
<1>1. CASE LoadConfig
  <2>1. args' = args
    BY <1>1 DEF LoadConfig
  <2> QED
    BY <1>1, <2>1, LoadStatus DEF StageInv, Past, Reported, WithRoutes
<1>2. CASE ~LoadConfig
  <2>1. UNCHANGED <<wifi, args, routingVars>>
    BY <1>2, AfterLoading
  <2>2. /\ ChannelsFine' = ChannelsFine /\ MeshFine' = MeshFine
        /\ Installable' = Installable
    BY <2>1 DEF ChannelsFine, MeshFine, Installable, routingVars
  <2>3. ASSUME status' = status \/ status' \in Reported PROVE StageInv'
    BY <2>1, <2>2, <2>3 DEF StageInv, Past, Reported, WithRoutes
  <2>4. CASE ProcessCommandLineArgs
    <3>1. status' = IF args.dirs > 2 \/ ~args.outDir THEN "failed" ELSE "loading"
      BY <2>4 DEF ProcessCommandLineArgs, Stop
    <3>2. CASE args.dirs > 2 \/ ~args.outDir
      BY <2>3, <3>1, <3>2 DEF Reported
    <3>3. CASE ~(args.dirs > 2 \/ ~args.outDir)
      <4>1. args \in CommandLine /\ args.dirs <= 2 /\ args.outDir
        BY <3>3 DEF StageInv, CommandLine
      <4> QED
        BY <2>1, <3>1, <3>3, <4>1 DEF StageInv, Past, WithRoutes
    <3> QED
      BY <3>2, <3>3
  <2>5. CASE CreateChannels
    <3>1. status = "loaded"
      BY <2>5 DEF CreateChannels, Proceed
    <3> QED
      BY <2>1, <2>2, <2>3, <2>5, <3>1, ConfigureSteps DEF StageInv, Past, WithRoutes
  <2>6. CASE CreateNodes
    <3>1. status = "channels"
      BY <2>6 DEF CreateNodes, Proceed
    <3> QED
      BY <2>1, <2>2, <2>3, <2>6, <3>1, ConfigureSteps DEF StageInv, Past, WithRoutes
  <2>7. CASE CreateNetwork
    <3>1. status = "nodes" /\ (status' = "crashed" \/ (status' = "interfaces" /\ Installable))
      BY <2>7 DEF CreateNetwork, CreateInterfaces, Stop
    <3> QED
      BY <2>1, <2>2, <2>3, <3>1 DEF StageInv, Past, Reported, WithRoutes
  <2>8. CASE CreateApps \/ PreparePcap
    <3>1. /\ status \in {"interfaces", "connecting", "installed"}
          /\ status' \in {"interfaces", "connecting", "installed", "ready"} \cup Reported
      <4>1. CASE CreateApp
        BY <4>1 DEF CreateApp, readerVars
      <4>2. CASE CreateConn1
        BY <4>2, ConnectStep DEF End, Stop, Connects, readerVars, Reported
      <4>3. CASE RefuseApp \/ AllCreated \/ RefuseConns \/ AllConnected
        BY <4>3 DEF RefuseApp, AllCreated, RefuseConns, AllConnected, End, Stop, Reported
      <4>4. CASE PreparePcap
        BY <4>4 DEF PreparePcap, Stop
      <4> QED
        BY <2>8, <4>1, <4>2, <4>3, <4>4 DEF CreateApps, InstallApps
    <3> QED
      BY <2>1, <2>2, <2>3, <3>1 DEF StageInv, Past, WithRoutes
  <2>9. CASE Run
    BY <2>3, <2>9 DEF Run, Traffic, Emit, Forward, readerVars
  <2>10. CASE UNCHANGED vars
    BY <2>3, <2>10 DEF vars, readerVars
  <2> QED
    BY <1>2, <2>4, <2>5, <2>6, <2>7, <2>8, <2>9, <2>10 DEF Next
<1> QED
  BY <1>1, <1>2

-----------------------------------------------------------------------------
(* The applications created so far are the first ones of the list, each    *)
(* recorded by a tag of its own; the connections made so far are the first *)
(* ones of the statements, each of two applications that can be connected. *)
AppsDone == {"connecting", "installed", "ready"}
ConnsDone == {"installed", "ready"}

(* Connection p of a statement can be made. *)
Joined(stmt, p) ==
    LET i == p \div Len(stmt.senders)
        j == p % Len(stmt.senders)
        tx == stmt.senders[j + 1]
        rx == stmt.receivers[i + 1]
    IN  /\ Valid(stmt)
        /\ Possible(tx, rx, Slot(TxMultiple, tx, i), Slot(RxMultiple, rx, j))

CreatedInv ==
    /\ status \in AppsDone => nextApp > Len(apps)
    /\ \A a \in 1 .. nextApp - 1 :
           SetAppAttribs(apps[a]) = "ok" /\ apps[a].tag \in DOMAIN rec /\ rec[apps[a].tag] = apps[a]
    /\ \A a, b \in 1 .. nextApp - 1 : apps[a].tag = apps[b].tag => a = b
    /\ \A t \in DOMAIN rec : \E a \in 1 .. nextApp - 1 : apps[a].tag = t

JoinedInv ==
    /\ status \in Early => nextConn = 1
    /\ status \in ConnsDone => nextConn > Len(conns)
    /\ \A s \in 1 .. nextConn - 1 :
           \A p \in 0 .. Len(conns[s].senders) * Len(conns[s].receivers) - 1 : Joined(conns[s], p)
    /\ \A p \in 0 .. pos - 1 : Joined(Stmt, p)

LEMMA InstallInit == Init => CreatedInv /\ JoinedInv
<1> SUFFICES ASSUME Init PROVE CreatedInv /\ JoinedInv
  OBVIOUS
<1>1. status = "started" /\ nextApp = 1 /\ nextConn = 1 /\ pos = 0 /\ rec = <<>>
  BY DEF Init, MgrInit
<1>2. 1 .. nextApp - 1 = {} /\ 1 .. nextConn - 1 = {} /\ 0 .. pos - 1 = {} /\ DOMAIN rec = {}
  BY <1>1
<1>3. CreatedInv
  BY <1>1, <1>2 DEF CreatedInv, AppsDone
<1>4. JoinedInv
  BY <1>1, <1>2 DEF JoinedInv, Early, ConnsDone
<1> QED
  BY <1>3, <1>4

(* Which steps create applications and which change how far this is.       *)
LEMMA InstallStep ==
    ASSUME TakenInv, [Next]_vars, ~LoadConfig
    PROVE  /\ CreateApp \/ UNCHANGED <<nextApp, rec>>
           /\ status' \in Early => status \in Early
           /\ status' \in AppsDone => status \in AppsDone \/ AllCreated
           /\ status' \in ConnsDone => status \in ConnsDone \/ AllConnected
<1>1. CASE ProcessCommandLineArgs
  BY <1>1 DEF ProcessCommandLineArgs, Stop, Early, AppsDone, ConnsDone, mgrVars
<1>2. CASE CreateChannels \/ CreateNodes
  <2>1. status \in Early /\ UNCHANGED mgrVars
    BY <1>2 DEF CreateChannels, CreateNodes, Proceed, Early
  <2> QED
    BY <1>2, <2>1, ConfigureSteps DEF Reported, AppsDone, ConnsDone, mgrVars
<1>3. CASE CreateNetwork
  BY <1>3 DEF CreateNetwork, CreateInterfaces, Stop, Early, AppsDone, ConnsDone, mgrVars
<1>4. CASE CreateApps
  <2>1. CASE CreateApp
    BY <2>1 DEF CreateApp, readerVars
  <2>2. CASE CreateConn1
    <3>1. End("crashed") \/ Connects
      BY <2>2, ConnectStep
    <3>2. UNCHANGED <<nextApp, rec>>
      BY <2>2 DEF CreateConn1, End, mgrVars
    <3> QED
      BY <3>1, <3>2 DEF End, Stop, Connects, readerVars, Early, AppsDone, ConnsDone
  <2>3. CASE RefuseApp \/ RefuseConns
    BY <2>3 DEF RefuseApp, RefuseConns, End, Stop, Early, AppsDone, ConnsDone, mgrVars
  <2>4. CASE AllCreated \/ AllConnected
    BY <2>4 DEF AllCreated, AllConnected, End, Stop, Early, AppsDone, ConnsDone, mgrVars
  <2> QED
    BY <1>4, <2>1, <2>2, <2>3, <2>4 DEF CreateApps, InstallApps
<1>5. CASE PreparePcap
  BY <1>5 DEF PreparePcap, Stop, Early, AppsDone, ConnsDone, mgrVars
<1>6. CASE Run
  BY <1>6 DEF Run, Traffic, Emit, Forward, readerVars, mgrVars
<1>7. CASE UNCHANGED vars
  BY <1>7 DEF vars, readerVars, mgrVars
<1> QED
  BY <1>1, <1>2, <1>3, <1>4, <1>5, <1>6, <1>7 DEF Next

LEMMA CreatedNext ==
    ASSUME TakenInv, SetupInv, MgrInv, CreatedInv, [Next]_vars
    PROVE  CreatedInv'
<1>0. nextApp \in 1 .. Len(apps) + 1 /\ Len(apps) \in Nat
  <2>1. apps \in Seq(AppRecord)
    BY DEF TakenInv, AppsTaken, AppsRead
  <2> QED
    BY <2>1, LenProperties DEF MgrInv
<1>1. CASE LoadConfig
  <2>1. status = "loading" /\ status' \notin AppsDone
    BY <1>1, LoadStatus DEF Reported, AppsDone
  <2>2. nextApp = 1 /\ nextApp' = nextApp /\ rec' = rec
    BY <1>1, <2>1, LoadStep DEF MgrInv, mgrVars
  <2>3. 1 .. nextApp - 1 = {}
    BY <2>2
  <2>4. DOMAIN rec = {}
    BY <2>3 DEF CreatedInv
  <2> QED
    BY <2>1, <2>2, <2>3, <2>4 DEF CreatedInv
<1>2. CASE ~LoadConfig /\ ~CreateApp
  <2>1. apps' = apps /\ nextApp' = nextApp /\ rec' = rec
    BY <1>2, AfterLoading, InstallStep DEF appsVars
  <2>2. status' \in AppsDone => nextApp > Len(apps)
    BY <1>2, InstallStep DEF CreatedInv, AllCreated
  <2>3. \A a : SetAppAttribs(apps[a])' = SetAppAttribs(apps[a])
    BY <2>1 DEF SetAppAttribs
  <2> QED
    BY <2>1, <2>2, <2>3 DEF CreatedInv
<1>3. CASE ~LoadConfig /\ CreateApp
  <2> DEFINE app == apps[nextApp]
  <2>1. /\ status = "interfaces" /\ status' = status
        /\ SetAppAttribs(app) = "ok" /\ app.tag \notin DOMAIN rec
        /\ rec' = Put(rec, app.tag, app)
        /\ nextApp' = nextApp + 1 /\ apps' = apps
    BY <1>3 DEF CreateApp, readerVars, appsVars
  <2>2. /\ DOMAIN rec' = DOMAIN rec \cup {app.tag} /\ rec'[app.tag] = app
        /\ \A t \in DOMAIN rec : t # app.tag => rec'[t] = rec[t]
    BY <2>1 DEF Put
  <2>3. 1 .. nextApp' - 1 = 1 .. nextApp - 1 \cup {nextApp} /\ nextApp \notin 1 .. nextApp - 1
    BY <1>0, <2>1
  <2>4. \A a : SetAppAttribs(apps[a])' = SetAppAttribs(apps[a])
    BY <2>1 DEF SetAppAttribs
  <2>5. ASSUME NEW a \in 1 .. nextApp - 1
        PROVE  /\ SetAppAttribs(apps[a]) = "ok"
               /\ apps[a].tag \in DOMAIN rec' /\ rec'[apps[a].tag] = apps[a]
               /\ apps[a].tag # app.tag
    BY <2>1, <2>2 DEF CreatedInv
  <2>6. \A a \in 1 .. nextApp' - 1 :
            SetAppAttribs(apps[a]) = "ok" /\ apps[a].tag \in DOMAIN rec' /\ rec'[apps[a].tag] = apps[a]
    BY <2>1, <2>2, <2>3, <2>5
  <2>7. \A a, b \in 1 .. nextApp' - 1 : apps[a].tag = apps[b].tag => a = b
    BY <2>3, <2>5 DEF CreatedInv
  <2>8. \A t \in DOMAIN rec' : \E a \in 1 .. nextApp' - 1 : apps[a].tag = t
    BY <2>2, <2>3 DEF CreatedInv
  <2>9. status' \notin AppsDone
    BY <2>1 DEF AppsDone
  <2> HIDE DEF app
  <2> QED
    BY <2>1, <2>4, <2>6, <2>7, <2>8, <2>9 DEF CreatedInv
<1> QED
  BY <1>1, <1>2, <1>3

LEMMA JoinedNext ==
    ASSUME TakenInv, SetupInv, MgrInv, JoinedInv, [Next]_vars
    PROVE  JoinedInv'
<1>0. nextConn \in Nat \ {0} /\ pos \in Nat
  BY DEF SetupInv
<1>1. ASSUME rec' = rec PROVE \A stmt, p : Joined(stmt, p)' = Joined(stmt, p)
  BY <1>1 DEF Joined, Valid, Possible, Slot, TypeOf
<1>2. CASE LoadConfig
  <2>1. status = "loading" /\ status' \notin ConnsDone
    BY <1>2, LoadStatus DEF Reported, ConnsDone
  <2>2. nextConn = 1 /\ pos = 0 /\ nextConn' = nextConn /\ pos' = pos
    BY <1>2, <2>1, LoadStep DEF MgrInv, SetupInv, Early, mgrVars
  <2>3. 1 .. nextConn' - 1 = {} /\ 0 .. pos' - 1 = {}
    BY <2>2
  <2> QED
    BY <2>1, <2>2, <2>3 DEF JoinedInv
<1>3. CASE CreateApp
  <2>1. /\ status = "interfaces" /\ status' = status
        /\ nextConn' = nextConn /\ pos' = pos
    BY <1>3 DEF CreateApp, readerVars
  <2>2. nextConn = 1 /\ pos = 0
    BY <2>1 DEF JoinedInv, SetupInv, Early
  <2>3. 1 .. nextConn' - 1 = {} /\ 0 .. pos' - 1 = {}
    BY <2>1, <2>2
  <2> QED
    BY <2>1, <2>2, <2>3 DEF JoinedInv, ConnsDone
<1>4. CASE CreateConn1 /\ Connects
  <2>1. /\ rec' = rec /\ conns' = conns /\ status' = status /\ status = "connecting"
        /\ \/ /\ pos' = 0 /\ nextConn' = nextConn + 1
              /\ pos + 1 = TxCount * Len(Stmt.receivers)
           \/ pos' = pos + 1 /\ nextConn' = nextConn
    BY <1>4, ConnectStep DEF Connects, readerVars, appsVars
  <2>2. Joined(Stmt, pos)
    <3>1. Valid(Stmt) /\ Possible(TxTag, RxTag, TxKey[2], RxKey[2])
      BY <1>4, ConnectStep DEF Connects
    <3> QED
      BY <3>1 DEF Joined, TxTag, RxTag, TxKey, RxKey, TxIndex, RxIndex, TxCount
  <2>3. \A p \in 0 .. pos : Joined(Stmt, p)
    <3>1. \A p \in 0 .. pos : p \in 0 .. pos - 1 \/ p = pos
      BY <1>0
    <3> QED
      BY <2>2, <3>1 DEF JoinedInv
  <2>4. status' \notin Early /\ status' \notin ConnsDone
    BY <2>1 DEF Early, ConnsDone
  <2>5. CASE pos' = 0 /\ nextConn' = nextConn + 1 /\ pos + 1 = TxCount * Len(Stmt.receivers)
    <3>1. ASSUME NEW s \in 1 .. nextConn' - 1
          PROVE  \A p \in 0 .. Len(conns[s].senders) * Len(conns[s].receivers) - 1 :
                     Joined(conns[s], p)
      <4>1. CASE s = nextConn
        <5>1. conns[s] = Stmt /\ Len(Stmt.senders) * Len(Stmt.receivers) = pos + 1
          BY <2>5, <4>1 DEF Stmt, TxCount
        <5>2. 0 .. (pos + 1) - 1 = 0 .. pos
          BY <1>0
        <5> QED
          BY <2>3, <5>1, <5>2
      <4>2. CASE s # nextConn
        <5>1. s \in 1 .. nextConn - 1
          BY <1>0, <2>5, <4>2
        <5> QED
          BY <5>1 DEF JoinedInv
      <4> QED
        BY <4>1, <4>2
    <3>2. 0 .. pos' - 1 = {}
      BY <2>5
    <3> QED
      BY <1>1, <2>1, <2>4, <3>1, <3>2 DEF JoinedInv
  <2>6. CASE pos' = pos + 1 /\ nextConn' = nextConn
    <3>1. Stmt' = Stmt /\ 0 .. pos' - 1 = 0 .. pos
      BY <1>0, <2>1, <2>6 DEF Stmt
    <3>2. \A s \in 1 .. nextConn' - 1 :
              \A p \in 0 .. Len(conns[s].senders) * Len(conns[s].receivers) - 1 :
                  Joined(conns[s], p)
      BY <2>6 DEF JoinedInv
    <3> QED
      BY <1>1, <2>1, <2>3, <2>4, <3>1, <3>2 DEF JoinedInv
  <2> QED
    BY <2>1, <2>5, <2>6
<1>5. CASE ~LoadConfig /\ ~CreateApp /\ ~(CreateConn1 /\ Connects)
  <2>1. rec' = rec /\ conns' = conns
    BY <1>5, AfterLoading, InstallStep DEF appsVars
  <2>2. nextConn' = nextConn /\ pos' = pos
    <3>1. CASE CreateConn1
      <4>1. End("crashed")
        BY <1>5, <3>1, ConnectStep
      <4> QED
        BY <4>1 DEF End, mgrVars
    <3>2. CASE ~CreateConn1
      BY <1>5, <3>2, OtherStep
    <3> QED
      BY <3>1, <3>2
  <2>3. /\ status' \in Early => nextConn = 1
        /\ status' \in ConnsDone => nextConn > Len(conns)
    BY <1>5, InstallStep DEF JoinedInv, AllConnected
  <2>4. Stmt' = Stmt
    BY <2>1, <2>2 DEF Stmt
  <2> QED
    BY <1>1, <2>1, <2>2, <2>3, <2>4 DEF JoinedInv
<1> QED
  BY <1>2, <1>3, <1>4, <1>5

-----------------------------------------------------------------------------
(* A file that was read to the end, and found fine by the steps after, is  *)
(* sound.                                                                  *)
LEMMA AttributesSet ==
    ASSUME NEW role, NEW type, NEW attrs \in Seq(KeyValue),
           SetAttributes(role, type, attrs) = "ok"
    PROVE  \A i \in DOMAIN attrs : Has(role, type, attrs[i])
<1> DEFINE q == [i \in DOMAIN attrs |-> SetAttribute(role, type, attrs[i])]
<1>1. DOMAIN q = 1 .. Len(attrs) /\ Len(attrs) \in Nat /\ DOMAIN q = DOMAIN attrs
  BY LenProperties
<1>2. \A i \in DOMAIN attrs : q[i] = SetAttribute(role, type, attrs[i])
  OBVIOUS
<1>3. FirstProblem(q) = "ok"
  BY DEF SetAttributes
<1> HIDE DEF q
<1>4. \A i \in DOMAIN q : q[i] = "ok"
  BY <1>1, <1>3, FirstProblemIs
<1> QED
  BY <1>1, <1>2, <1>4 DEF SetAttribute

LEMMA ObjectSet ==
    ASSUME NEW role, NEW obj \in Object, SetObject(role, obj) = "ok"
    PROVE  /\ obj.type \in DOMAIN Known[role]
           /\ Len(obj.attrs) <= MaxAttributes
           /\ \A i \in DOMAIN obj.attrs : Has(role, obj.type, obj.attrs[i])
<1>1. obj.attrs \in Seq(KeyValue)
  BY DEF Object
<1>2. Len(obj.attrs) \in Nat
  BY <1>1, LenProperties
<1>3. /\ ~(Len(obj.attrs) > MaxAttributes) /\ obj.type \in DOMAIN Known[role]
      /\ SetAttributes(role, obj.type, obj.attrs) = "ok"
  BY DEF SetObject
<1> QED
  BY <1>1, <1>2, <1>3, AttributesSet, MaxAttributesAssumption

LEMMA ObjectIsSound ==
    ASSUME NEW role, NEW lines, NEW about, NEW obj \in Object,
           SetObject(role, obj) = "ok", ObjectRead(lines, about, obj),
           \A m \in about : lines[m].type # NoType
    PROVE  ObjectSound(role, lines, about)
<1>1. /\ obj.type \in DOMAIN Known[role]
      /\ Len(obj.attrs) <= MaxAttributes
      /\ \A i \in DOMAIN obj.attrs : Has(role, obj.type, obj.attrs[i])
  BY ObjectSet
<1>2. /\ about # {} => obj.type = lines[Max(about)].type
      /\ Len(obj.attrs) = Cardinality(Places(lines, about))
  BY DEF ObjectRead, Ordered
<1>3. ASSUME NEW m \in about, NEW i \in DOMAIN lines[m].attrs
      PROVE  Has(role, obj.type, lines[m].attrs[i])
  <2>1. PICK j \in DOMAIN obj.attrs : obj.attrs[j] = lines[m].attrs[i]
    BY OrderedHolds DEF ObjectRead, Holds
  <2> QED
    BY <1>1, <2>1
<1> QED
  BY <1>1, <1>2, <1>3 DEF ObjectSound

LEMMA UpToEnd ==
    ASSUME NEW S, NEW lines \in Seq(S), NEW kind
    PROVE  /\ Len(lines) \in Nat /\ DOMAIN lines = 1 .. Len(lines)
           /\ OfKind(lines, kind) = KindUpTo(lines, kind, Len(lines))
BY LenProperties DEF OfKind, KindUpTo

LEMMA Prefixed ==
    ASSUME NEW S, NEW x \in S, NEW q \in Seq(S)
    PROVE  /\ DOMAIN (<<x>> \o q) = 1 .. 1 + Len(q) /\ (<<x>> \o q)[1] = x
           /\ \A i \in 1 .. Len(q) : (<<x>> \o q)[i + 1] = q[i]
<1>1. <<x>> \in Seq(S) /\ Len(<<x>>) = 1 /\ <<x>>[1] = x /\ Len(q) \in Nat
  BY LenProperties
<1>2. /\ DOMAIN (<<x>> \o q) = 1 .. 1 + Len(q)
      /\ \A i \in 1 .. 1 + Len(q) : (<<x>> \o q)[i] = IF i <= 1 THEN <<x>>[i] ELSE q[i - 1]
  BY <1>1, ConcatProperties, LenProperties
<1>3. ASSUME NEW i \in 1 .. Len(q) PROVE (<<x>> \o q)[i + 1] = q[i]
  <2>1. i + 1 \in 1 .. 1 + Len(q) /\ ~(i + 1 <= 1) /\ (i + 1) - 1 = i
    BY <1>1
  <2> QED
    BY <1>2, <2>1
<1> QED
  BY <1>1, <1>2, <1>3

LEMMA ChannelSet ==
    ASSUME NEW cfg \in WifiHeld, ConfigureChannel(cfg) = "ok", ~cfg.default
    PROVE  /\ cfg.delay.type # NoType => SetObject("delay", cfg.delay) = "ok"
           /\ \A i \in DOMAIN cfg.losses : SetObject("loss", cfg.losses[i]) = "ok"
<1> DEFINE delay == IF cfg.delay.type = NoType THEN "ok" ELSE SetObject("delay", cfg.delay)
           loss(i) == IF cfg.losses[i].type = "@matrix" THEN "failed"
                      ELSE SetObject("loss", cfg.losses[i])
           losses == [i \in DOMAIN cfg.losses |-> loss(i)]
           all == <<delay>> \o losses
<1>1. DOMAIN cfg.losses = 1 .. Len(cfg.losses) /\ Len(cfg.losses) \in Nat
  BY LenProperties DEF WifiHeld
<1> DEFINE n == Len(cfg.losses)
<1>2. /\ DOMAIN losses = 1 .. n /\ Len(losses) = n
      /\ losses \in Seq({losses[i] : i \in 1 .. n})
      /\ \A i \in 1 .. n : losses[i] = loss(i)
  <2>1. DOMAIN losses = 1 .. n /\ \A i \in 1 .. n : losses[i] = loss(i)
    BY <1>1
  <2> HIDE DEF loss, losses, n
  <2>2. n \in Nat
    BY <1>1 DEF n
  <2>3. losses \in Seq({losses[i] : i \in 1 .. n})
    <3>1. losses = [i \in 1 .. n |-> loss(i)]
      BY <1>1 DEF losses, n
    <3> QED
      BY <2>1, <2>2, <3>1
  <2> QED
    BY <2>1, <2>2, <2>3, LenProperties
<1> HIDE DEF loss, losses, n, delay
<1>3. /\ DOMAIN all = 1 .. n + 1 /\ all[1] = delay
      /\ \A i \in 1 .. n : all[i + 1] = loss(i)
  <2>1. n \in Nat
    BY <1>1 DEF n
  <2> DEFINE S == {losses[i] : i \in 1 .. n} \cup {delay}
  <2>2. losses \in Seq(S) /\ delay \in S
    BY <1>2
  <2> HIDE DEF S
  <2>3. /\ DOMAIN all = 1 .. 1 + Len(losses) /\ all[1] = delay
        /\ \A i \in 1 .. Len(losses) : all[i + 1] = losses[i]
    BY <2>2, Prefixed
  <2> HIDE DEF all
  <2> QED
    BY <1>2, <2>1, <2>3
<1>4. FirstProblem(all) = "ok"
  BY DEF ConfigureChannel, losses, loss, delay
<1> HIDE DEF all
<1>5. \A i \in 1 .. n + 1 : all[i] = "ok"
  BY <1>1, <1>3, <1>4, FirstProblemIs DEF n
<1>6. delay = "ok" /\ \A i \in 1 .. n : loss(i) = "ok"
  <2>1. n \in Nat
    BY <1>1 DEF n
  <2>2. 1 \in 1 .. n + 1 /\ \A i \in 1 .. n : i + 1 \in 1 .. n + 1
    BY <2>1
  <2> QED
    BY <1>3, <1>5, <2>2
<1>7. ASSUME cfg.delay.type # NoType PROVE SetObject("delay", cfg.delay) = "ok"
  BY <1>6, <1>7 DEF delay
<1>8. ASSUME NEW i \in DOMAIN cfg.losses PROVE SetObject("loss", cfg.losses[i]) = "ok"
  BY <1>1, <1>6 DEF loss, n
<1> QED
  BY <1>7, <1>8

LEMMA WifiIsSound ==
    ASSUME NEW lines \in Seq(WifiFileLine), NEW w,
           WifiRead(lines, Len(lines), w), WifiAccepted(lines, Len(lines), w),
           ConfigureChannel(w) = "ok", ConfigureWifi(w) = "ok", ConfigurePhy(w) = "ok"
    PROVE  WifiSound(lines)
<1> DEFINE n == Len(lines)
           Up(kind) == KindUpTo(lines, kind, n)
<1>1. /\ n \in Nat /\ DOMAIN lines = 1 .. n
      /\ \A kind : OfKind(lines, kind) = Up(kind) /\ Up(kind) \subseteq 1 .. n
  BY UpToEnd, KindMore
<1>2. /\ w \in WifiHeld
      /\ w.manager \in Object /\ w.delay \in Object /\ w.losses \in Seq(Object)
      /\ w.phy \in Seq(KeyValue)
  BY DEF WifiRead, WifiHeld
<1>3. \A m \in 1 .. n : Acceptable(lines[m]) /\ lines[m] \in WifiFileLine
  <2>1. \A m \in 1 .. n : lines[m] \in WifiFileLine
    BY <1>1, ElementsIn
  <2> QED
    BY <2>1 DEF WifiAccepted
<1>4. /\ w.standard = IF Up("standard") = {} THEN NoType ELSE lines[Max(Up("standard"))].type
      /\ ObjectRead(lines, Up("ratecontrol"), w.manager)
      /\ ObjectRead(lines, Up("delay"), w.delay)
      /\ \A m \in Up("phy_attribs") : Holds(w.phy, lines[m].attrs)
  BY OrderedHolds DEF WifiAccepted
<1> HIDE DEF n
<1>5. \A kind \in {"ratecontrol", "delay", "add_loss"} : \A m \in Up(kind) : lines[m].type # NoType
  BY <1>3 DEF KindUpTo, Acceptable
<1>6. w.standard \in Standards /\ SetObject("manager", w.manager) = "ok"
  BY DEF ConfigureWifi
<1> HIDE DEF Up
<1>7. Up("standard") # {} /\ lines[Max(Up("standard"))].type \in Standards
  <2>1. NoType \notin Standards
    BY DEF NoType, Standards
  <2> QED
    BY <1>4, <1>6, <2>1
<1>8. Up("ratecontrol") # {} /\ ObjectSound("manager", lines, Up("ratecontrol"))
  <2>1. ObjectSound("manager", lines, Up("ratecontrol"))
    BY <1>2, <1>4, <1>5, <1>6, ObjectIsSound
  <2>2. w.manager.type \in DOMAIN Known["manager"]
    BY <1>2, <1>6, ObjectSet
  <2>3. NoType \notin DOMAIN Known["manager"]
    BY KnownAssumption
  <2>4. Up("ratecontrol") # {}
    BY <1>4, <2>2, <2>3 DEF ObjectRead, NoObject
  <2> QED
    BY <2>1, <2>4
<1>9. ASSUME NEW kind \in {"delay", "add_loss"}, Up(kind) # {} PROVE ~w.default
  BY <1>9 DEF WifiRead, Up, KindUpTo, n
<1>10. ObjectSound("delay", lines, Up("delay"))
  <2>1. CASE Up("delay") = {}
    BY <2>1 DEF ObjectSound
  <2>2. CASE Up("delay") # {}
    <3>1. w.delay.type # NoType
      <4>1. Max(Up("delay")) \in Up("delay")
        BY <1>1, <2>2, LastOf
      <4> QED
        BY <1>4, <1>5, <2>2, <4>1 DEF ObjectRead
    <3>2. SetObject("delay", w.delay) = "ok"
      BY <1>2, <1>9, <2>2, <3>1, ChannelSet
    <3> QED
      BY <1>2, <1>4, <1>5, <3>2, ObjectIsSound
  <2> QED
    BY <2>1, <2>2
<1>11. ASSUME NEW m \in Up("add_loss") PROVE ObjectSound("loss", lines, {m})
  <2> DEFINE obj == [type |-> lines[m].type, attrs |-> lines[m].attrs]
  <2>1. m \in 1 .. n /\ lines[m].kind = "add_loss" /\ lines[m] \in WifiFileLine
    BY <1>1, <1>3 DEF Up, KindUpTo
  <2>2. lines[m].type \in Text /\ lines[m].attrs \in Seq(KeyValue)
    BY <2>1 DEF WifiFileLine
  <2>3. obj \in Object
    BY <2>2 DEF Object
  <2>4. SetObject("loss", obj) = "ok"
    <3> DEFINE c == CountOf(lines, "add_loss", m)
    <3>1. c \in 1 .. CountOf(lines, "add_loss", n)
      BY <1>1, <2>1, CountUpTo
    <3>2. Len(w.losses) = CountOf(lines, "add_loss", n) /\ w.losses[c] = obj
      BY <2>1 DEF WifiRead, n
    <3>3. c \in DOMAIN w.losses
      BY <1>2, <3>1, <3>2, LenProperties
    <3> QED
      BY <1>2, <1>9, <3>2, <3>3, ChannelSet
  <2>5. ObjectRead(lines, {m}, obj)
    <3>1. Max({m}) = m
      <4>1. {m} \in SUBSET Int /\ m \in {m} /\ \A y \in {m} : y <= m
        BY <1>1, <2>1
      <4> QED
        BY <4>1, IsLast
    <3>2. Ordered(lines[m].attrs, lines, {m})
      <4> DEFINE k == m - 1
                 q == lines[m].attrs
      <4>1. k \in Nat /\ k + 1 = m
        BY <1>1, <2>1
      <4>2. q \in Seq(KeyValue) /\ <<>> \in Seq(KeyValue)
        BY <2>2
      <4>3. q = lines[k + 1].attrs
        BY <4>1
      <4> HIDE DEF k, q
      <4>4. {} \in SUBSET (1 .. k) /\ {} \cup {k + 1} = {m}
        BY <4>1
      <4>5. Ordered(<<>> \o q, lines, {} \cup {k + 1})
        BY <4>1, <4>2, <4>3, <4>4, OrderedNone, OrderedMore
      <4>6. <<>> \o q = q
        BY <4>2, ConcatEmptySeq
      <4>7. Ordered(q, lines, {m})
        BY <4>4, <4>5, <4>6
      <4> QED
        BY <4>7 DEF q
    <3> QED
      BY <3>1, <3>2 DEF ObjectRead
  <2>6. \A k \in {m} : lines[k].type # NoType
    BY <1>5
  <2> HIDE DEF obj
  <2> QED
    BY <2>3, <2>4, <2>5, <2>6, ObjectIsSound
<1>12. ASSUME NEW m \in Up("phy_attribs"), NEW i \in DOMAIN lines[m].attrs
       PROVE  Has("phy", "ns3::YansWifiPhy", lines[m].attrs[i])
  <2>1. PICK j \in DOMAIN w.phy : w.phy[j] = lines[m].attrs[i]
    BY <1>4 DEF Holds
  <2>2. \A k \in DOMAIN w.phy : Has("phy", "ns3::YansWifiPhy", w.phy[k])
    BY <1>2, AttributesSet DEF ConfigurePhy
  <2> QED
    BY <2>1, <2>2
<1>13. \A l \in ToSet(lines) : Acceptable(l)
  BY <1>1, <1>3 DEF ToSet
<1> QED
  BY <1>1, <1>7, <1>8, <1>10, <1>11, <1>12, <1>13 DEF WifiSound

LEMMA MobilityIsSound ==
    ASSUME NEW lines \in Seq(MobilityFileLine), NEW held, Len(lines) > 0,
           MobilityRead(lines, Len(lines), held)
    PROVE  MobilitySound(lines)
<1>1. /\ Len(lines) \in Nat /\ DOMAIN lines = 1 .. Len(lines)
      /\ Head(lines) = lines[1] /\ lines # <<>>
      /\ \A m \in 1 .. Len(lines) : lines[m] \in MobilityFileLine
  BY LenProperties, ElementsIn
<1>2. Allocator(lines[1]) = "ok" /\ held.type = lines[1].type
  BY DEF MobilityRead
<1>3. /\ lines[1].kind = "allocator" /\ lines[1].type \in DOMAIN Known["allocator"]
      /\ SetAttributes("allocator", lines[1].type, lines[1].attrs) = "ok"
  BY <1>2 DEF Allocator
<1>4. \A i \in DOMAIN lines[1].attrs : Has("allocator", lines[1].type, lines[1].attrs[i])
  <2>1. lines[1].attrs \in Seq(KeyValue)
    BY <1>1, <1>3 DEF MobilityFileLine
  <2> QED
    BY <1>3, <2>1, AttributesSet
<1>5. ASSUME NEW m \in 2 .. Len(lines)
      PROVE  /\ lines[m].kind = "position" /\ lines[m].ntok \in {2, 3} /\ lines[m].numbers
             /\ held.type = ListAllocator
  <2>1. Position(held.type, lines[m]) = "ok"
    BY DEF MobilityRead
  <2> QED
    BY <2>1 DEF Position, TokensOf
<1>6. \A l \in ToSet(Tail(lines)) : \E m \in 2 .. Len(lines) : l = lines[m]
  <2>1. /\ DOMAIN Tail(lines) = 1 .. Len(lines) - 1
        /\ \A i \in 1 .. Len(lines) - 1 : Tail(lines)[i] = lines[i + 1]
    BY <1>1
  <2>2. \A i \in 1 .. Len(lines) - 1 : i + 1 \in 2 .. Len(lines)
    BY <1>1
  <2> QED
    BY <2>1, <2>2 DEF ToSet
<1>7. Len(lines) > 1 => lines[1].type = ListAllocator
  BY <1>1, <1>2, <1>5
<1> QED
  BY <1>1, <1>3, <1>4, <1>5, <1>6, <1>7 DEF MobilitySound

LEMMA RoutingIsUsable ==
    ASSUME NEW lines \in Seq(RoutingFileLine), NEW host,
           RoutingRead(lines, Len(lines), host, tables), Installable
    PROVE  RoutingUsable(lines)
<1>1. DOMAIN lines = 1 .. Len(lines)
  BY LenProperties
<1>2. ASSUME NEW m \in DOMAIN lines
      PROVE  /\ LineUsable(lines[m])
             /\ lines[m].kind = "route" =>
                    /\ Owners(HostBefore(lines, m)) # {}
                    /\ Owners(lines[m].via) = Owners(HostBefore(lines, m))
  <2>1. /\ LineUsable(lines[m])
        /\ lines[m].kind = "route" => Installed(HostBefore(lines, m), lines[m].via, tables)
    BY <1>1 DEF RoutingRead
  <2> QED
    BY <2>1 DEF Installed, Installable
<1> QED
  BY <1>2 DEF RoutingUsable, LineUsable

LEMMA CountDistinct ==
    ASSUME NEW lines, NEW kind, NEW m \in Nat \ {0}, NEW n \in Nat,
           lines[m].kind = kind, lines[n].kind = kind, m < n
    PROVE  CountOf(lines, kind, m) < CountOf(lines, kind, n)
<1> DEFINE k == n - 1
<1>1. k \in Nat /\ n = k + 1 /\ m \in 1 .. k
  OBVIOUS
<1> HIDE DEF k
<1>2. /\ CountOf(lines, kind, k + 1) = CountOf(lines, kind, k) + 1
      /\ CountOf(lines, kind, m) \in 1 .. CountOf(lines, kind, k)
      /\ CountOf(lines, kind, k) \in Nat
  BY <1>1, CountUpTo
<1> QED
  BY <1>1, <1>2

(* All applications of the file have been created. *)
AllApps(lines) ==
    /\ \A a \in DOMAIN apps :
           /\ SetAppAttribs(apps[a]) = "ok" /\ apps[a].host \in Hosts
           /\ apps[a].tag \in DOMAIN rec /\ rec[apps[a].tag] = apps[a]
    /\ \A a, b \in DOMAIN apps : apps[a].tag = apps[b].tag => a = b
    /\ \A t \in DOMAIN rec : \E a \in DOMAIN apps : apps[a].tag = t

(* The application of a line. *)
LEMMA AppOfLine ==
    ASSUME NEW lines \in Seq(AppsFileLine), AppsRead(lines, Len(lines), apps), AllApps(lines),
           NEW m \in DOMAIN lines, lines[m].kind = "app"
    PROVE  /\ CountOf(lines, "app", m) \in DOMAIN apps
           /\ AppTaken(lines, m, apps[CountOf(lines, "app", m)])
<1>1. Len(lines) \in Nat /\ DOMAIN lines = 1 .. Len(lines)
  BY LenProperties
<1>2. CountOf(lines, "app", m) \in 1 .. CountOf(lines, "app", Len(lines))
  BY <1>1, CountUpTo
<1>3. apps \in Seq(AppRecord) /\ Len(apps) = CountOf(lines, "app", Len(lines))
  BY DEF AppsRead
<1>4. DOMAIN apps = 1 .. Len(apps)
  BY <1>3, LenProperties
<1> QED
  BY <1>1, <1>2, <1>3, <1>4 DEF AppsRead

(* A tag names the application of the last line with that tag. *)
LEMMA TypeAsWritten ==
    ASSUME NEW lines \in Seq(AppsFileLine), AppsRead(lines, Len(lines), apps), AllApps(lines),
           NEW tag
    PROVE  TypeOf(tag) = TypeIn(lines, tag)
<1> DEFINE named == {n \in OfKind(lines, "app") : lines[n].tag = tag}
<1>1. Len(lines) \in Nat /\ DOMAIN lines = 1 .. Len(lines)
  BY LenProperties
<1>2. ASSUME NEW m \in named
      PROVE  tag \in DOMAIN rec /\ rec[tag].type = lines[m].type
  <2>1. m \in DOMAIN lines /\ lines[m].kind = "app" /\ lines[m].tag = tag
    BY DEF OfKind
  <2> DEFINE app == apps[CountOf(lines, "app", m)]
  <2>2. CountOf(lines, "app", m) \in DOMAIN apps /\ AppTaken(lines, m, app)
    BY <2>1, AppOfLine
  <2>3. app.tag = tag /\ app.type = lines[m].type
    BY <2>1, <2>2 DEF AppTaken
  <2>4. app.tag \in DOMAIN rec /\ rec[app.tag] = app
    BY <2>2 DEF AllApps
  <2> HIDE DEF app
  <2> QED
    BY <2>3, <2>4
<1>3. ASSUME tag \in DOMAIN rec PROVE named # {}
  <2>1. PICK a \in DOMAIN apps : apps[a].tag = tag
    BY <1>3 DEF AllApps
  <2>2. PICK m \in 1 .. Len(lines) : lines[m].kind = "app" /\ CountOf(lines, "app", m) = a
    BY DEF AppsRead, LineOf
  <2>3. AppTaken(lines, m, apps[a])
    BY <1>1, <2>2, AppOfLine
  <2>4. lines[m].tag = tag
    BY <2>1, <2>3 DEF AppTaken
  <2> QED
    BY <1>1, <2>2, <2>4 DEF OfKind
<1>4. CASE named = {}
  BY <1>3, <1>4 DEF TypeOf, TypeIn
<1>5. CASE named # {}
  <2>1. named \subseteq 1 .. Len(lines)
    BY <1>1 DEF OfKind
  <2>2. TypeIn(lines, tag) = lines[Max(named)].type
    BY <1>5 DEF TypeIn
  <2> HIDE DEF named
  <2>3. Max(named) \in named
    BY <1>1, <1>5, <2>1, LastOf
  <2> QED
    BY <1>2, <2>2, <2>3 DEF TypeOf
<1> QED
  BY <1>4, <1>5

(* No application has an attribute that its type lacks, its own or one of  *)
(* the defaults in force at its line.                                      *)
LEMMA AppLineIsSound ==
    ASSUME NEW lines \in Seq(AppsFileLine), AppsRead(lines, Len(lines), apps), AllApps(lines),
           NEW m \in OfKind(lines, "app")
    PROVE  /\ lines[m].type # "invalid" /\ lines[m].host \in Hosts
           /\ DefaultKeys(lines, m) \cup {kv.key : kv \in ToSet(lines[m].kvs)}
                  \subseteq Known["app"][lines[m].type]
<1> DEFINE c == CountOf(lines, "app", m)
           app == apps[c]
<1>1. m \in DOMAIN lines /\ lines[m].kind = "app"
  BY DEF OfKind
<1>2. c \in DOMAIN apps /\ AppTaken(lines, m, app)
  BY <1>1, AppOfLine
<1>3. /\ app.type # "invalid" /\ app.host \in Hosts /\ SetAppAttribs(app) = "ok"
      /\ app.kvs \in Seq(KeyValue)
  <2>1. app \in AppRecord
    BY <1>2, ElementsIn DEF AppsRead
  <2>2. app.kvs \in Seq(KeyValue)
    BY <2>1 DEF AppRecord
  <2> QED
    BY <1>2, <2>2 DEF AppsRead, AllApps
<1> HIDE DEF app, c
<1>4. app.type = lines[m].type /\ app.host = lines[m].host
  BY <1>2 DEF AppTaken
<1>5. \A i \in DOMAIN app.kvs : app.kvs[i].key \in Known["app"][lines[m].type]
  BY <1>3, <1>4, AttributesSet DEF SetAppAttribs, Has
<1>6. ASSUME NEW kv \in ToSet(lines[m].kvs) PROVE kv.key \in Known["app"][lines[m].type]
  <2>1. PICK i \in DOMAIN lines[m].kvs : kv = lines[m].kvs[i]
    BY DEF ToSet
  <2>2. PICK j \in DOMAIN app.kvs : app.kvs[j] = kv
    BY <1>2, <2>1 DEF AppTaken, Holds
  <2> QED
    BY <1>5, <2>2
<1>7. ASSUME NEW k \in DefaultKeys(lines, m) PROVE k \in Known["app"][lines[m].type]
  <2>1. k \in Keys /\ DefaultAt(lines, m, k) # NoValue
    BY DEF DefaultKeys
  <2>2. CASE Assigns(lines[m].kvs, k)
    <3>1. PICK i \in DOMAIN lines[m].kvs : lines[m].kvs[i].key = k
      BY <2>2 DEF Assigns
    <3> QED
      BY <1>6, <3>1 DEF ToSet
  <2>3. CASE ~Assigns(lines[m].kvs, k)
    <3>1. Effective(app.kvs, k) = Given(lines, m - 1, k)
      BY <1>2, <2>1, <2>3 DEF AppTaken
    <3>2. Given(lines, m - 1, k) = DefaultAt(lines, m, k)
      BY DEF Given, Giving, DefaultAt
    <3>3. Assigns(app.kvs, k)
      BY <2>1, <3>1, <3>2 DEF Effective
    <3> QED
      BY <1>5, <3>3 DEF Assigns
  <2> QED
    BY <2>2, <2>3
<1> QED
  BY <1>3, <1>4, <1>6, <1>7

(* A statement whose connections have all been made is sound. *)
LEMMA ConnectIsSound ==
    ASSUME NEW lines, NEW tokens, Connectable(tokens), ParseConnect(tokens) \in Statement,
           \A tag : TypeOf(tag) = TypeIn(lines, tag),
           \A p \in 0 .. Len(ParseConnect(tokens).senders) * Len(ParseConnect(tokens).receivers) - 1 :
               Joined(ParseConnect(tokens), p)
    PROVE  ConnectSound(lines, tokens)
<1> DEFINE stmt == ParseConnect(tokens)
           S == stmt.senders
           R == stmt.receivers
<1>1. /\ S \in Seq(STRING) /\ R \in Seq(STRING)
      /\ Len(S) \in Nat \ {0} /\ Len(R) \in Nat \ {0}
      /\ DOMAIN S = 1 .. Len(S) /\ DOMAIN R = 1 .. Len(R)
  BY LenProperties, EmptySeq DEF Statement
<1>2. \A p \in 0 .. Len(S) * Len(R) - 1 : Joined(stmt, p)
  OBVIOUS
<1>3. ASSUME NEW tag PROVE TypeIn(lines, tag) = TypeOf(tag)
  OBVIOUS
<1> HIDE DEF stmt
<1>4. Valid(stmt)
  <2>1. \A x, y \in Nat \ {0} : 0 \in 0 .. x * y - 1
    <3> SUFFICES ASSUME NEW x \in Nat \ {0}, NEW y \in Nat \ {0} PROVE 0 \in 0 .. x * y - 1
      OBVIOUS
    <3>1. x * y \in Int /\ x * y > 0
      OBVIOUS
    <3> QED
      BY <3>1
  <2>2. 0 \in 0 .. Len(S) * Len(R) - 1
    <3> HIDE DEF S, R
    <3> QED
      BY <1>1, <2>1
  <2> QED
    BY <1>2, <2>2 DEF Joined
<1>5. Len(S) = 1 \/ Len(R) = 1
  BY <1>4 DEF Valid
<1>6. ASSUME NEW a \in 1 .. Len(S), NEW b \in 1 .. Len(R)
      PROVE  Possible(S[a], R[b], Slot(TxMultiple, S[a], b - 1), Slot(RxMultiple, R[b], a - 1))
  <2> DEFINE p == (b - 1) + (a - 1)
  <2>1. p \in 0 .. Len(S) * Len(R) - 1 /\ p \div Len(S) = b - 1 /\ p % Len(S) = a - 1
    <3>1. CASE Len(S) = 1
      <4>1. a = 1 /\ p = b - 1 /\ Len(S) * Len(R) = Len(R)
        BY <1>1, <3>1
      <4> QED
        BY <1>1, <3>1, <4>1
    <3>2. CASE Len(R) = 1
      <4>1. b = 1 /\ p = a - 1 /\ Len(S) * Len(R) = Len(S)
        BY <1>1, <3>2
      <4>2. \A n \in Nat \ {0} : \A q \in 0 .. n - 1 : q \div n = 0 /\ q % n = q
        OBVIOUS
      <4>3. p \in 0 .. Len(S) - 1
        BY <1>1, <4>1
      <4>4. p \div Len(S) = 0 /\ p % Len(S) = p
        <5> HIDE DEF p, S
        <5> QED
          BY <1>1, <4>2, <4>3
      <4>5. p \in 0 .. Len(S) * Len(R) - 1
        BY <4>1, <4>3
      <4>6. b - 1 = 0
        BY <4>1
      <4> HIDE DEF p, S, R
      <4> QED
        BY <4>1, <4>4, <4>5, <4>6
    <3> QED
      BY <1>5, <3>1, <3>2
  <2> HIDE DEF p
  <2>2. Joined(stmt, p)
    BY <1>2, <2>1
  <2>3. b - 1 + 1 = b /\ a - 1 + 1 = a
    OBVIOUS
  <2> QED
    BY <2>1, <2>2, <2>3 DEF Joined
<1>7. ASSUME NEW s \in ToSet(S), NEW r \in ToSet(R)
      PROVE  /\ TypeOf(s) \in Senders /\ TypeOf(r) \in Receivers
             /\ TypeOf(s) \in TxProtocol => TypeOf(r) \in RxProtocol
  <2>1. PICK a \in 1 .. Len(S) : s = S[a]
    BY <1>1 DEF ToSet
  <2>2. PICK b \in 1 .. Len(R) : r = R[b]
    BY <1>1 DEF ToSet
  <2> QED
    BY <1>6, <2>1, <2>2 DEF Possible
<1>8. ASSUME Len(S) > 1 PROVE TypeOf(R[1]) \in RxMultiple /\ Len(S) <= SlotCount
  <2>1. TypeOf(R[1]) \in RxMultiple
    BY <1>4, <1>8 DEF Valid
  <2>2. Slot(RxMultiple, R[1], Len(S) - 1) < SlotCount
    BY <1>1, <1>6 DEF Possible
  <2> QED
    BY <1>1, <2>1, <2>2, SlotAssumption DEF Slot
<1>9. ASSUME Len(R) > 1 PROVE TypeOf(S[1]) \in TxMultiple /\ Len(R) <= SlotCount
  <2>1. TypeOf(S[1]) \in TxMultiple
    BY <1>4, <1>9 DEF Valid
  <2>2. Slot(TxMultiple, S[1], Len(R) - 1) < SlotCount
    <3>1. 1 \in 1 .. Len(S) /\ Len(R) \in 1 .. Len(R)
      BY <1>1
    <3> QED
      BY <1>6, <3>1 DEF Possible
  <2> QED
    BY <1>1, <2>1, <2>2, SlotAssumption DEF Slot
<1> QED
  BY <1>3, <1>5, <1>7, <1>8, <1>9 DEF ConnectSound, stmt

LEMMA AppsIsSound ==
    ASSUME NEW lines \in Seq(AppsFileLine),
           DefaultsRead(lines, Len(lines), defaults), AppsRead(lines, Len(lines), apps),
           ConnsRead(lines, Len(lines), conns), AllApps(lines),
           \A s \in DOMAIN conns :
               \A p \in 0 .. Len(conns[s].senders) * Len(conns[s].receivers) - 1 : Joined(conns[s], p)
    PROVE  AppsSound(lines)
<1>1. Len(lines) \in Nat /\ DOMAIN lines = 1 .. Len(lines)
  BY LenProperties
<1>2. ASSUME NEW m \in DOMAIN lines, lines[m].kind \in {"defaults", "app"}
      PROVE  WellFormed(lines[m].kvs)
  <2>1. CASE lines[m].kind = "defaults"
    BY <1>1, <2>1 DEF DefaultsRead
  <2>2. CASE lines[m].kind = "app"
    BY <2>2, AppOfLine DEF AppTaken
  <2> QED
    BY <1>2, <2>1, <2>2
<1>3. ASSUME NEW m \in OfKind(lines, "app"), NEW n \in OfKind(lines, "app"),
             lines[m].tag = lines[n].tag
      PROVE  m = n
  <2>1. /\ m \in 1 .. Len(lines) /\ lines[m].kind = "app"
        /\ n \in 1 .. Len(lines) /\ lines[n].kind = "app"
    BY <1>1 DEF OfKind
  <2> DEFINE c(k) == CountOf(lines, "app", k)
  <2>2. /\ c(m) \in DOMAIN apps /\ apps[c(m)].tag = lines[m].tag
        /\ c(n) \in DOMAIN apps /\ apps[c(n)].tag = lines[n].tag
    BY <1>1, <2>1, AppOfLine DEF AppTaken
  <2>3. c(m) = c(n)
    BY <1>3, <2>2 DEF AllApps
  <2>4. c(m) \in Nat /\ c(n) \in Nat
    BY <1>1, <2>1, CountUpTo
  <2>5. ~(m < n) /\ ~(n < m)
    <3>1. ~(m < n)
      BY <1>1, <2>1, <2>3, <2>4, CountDistinct
    <3>2. ~(n < m)
      BY <1>1, <2>1, <2>3, <2>4, CountDistinct
    <3> QED
      BY <3>1, <3>2
  <2> QED
    BY <1>1, <2>1, <2>5
<1>4. ASSUME NEW m \in OfKind(lines, "connect") PROVE ConnectSound(lines, lines[m].tokens)
  <2>1. m \in 1 .. Len(lines) /\ lines[m].kind = "connect"
    BY <1>1 DEF OfKind
  <2> DEFINE c == CountOf(lines, "connect", m)
  <2>2. c \in 1 .. CountOf(lines, "connect", Len(lines))
    BY <1>1, <2>1, CountUpTo
  <2>3. c \in DOMAIN conns /\ conns[c] \in Statement
    <3>1. conns \in Seq(Statement) /\ Len(conns) = CountOf(lines, "connect", Len(lines))
      BY DEF ConnsRead
    <3> QED
      BY <2>2, <3>1, LenProperties, ElementsIn
  <2>4. ConnTaken(lines, m, conns[c])
    BY <2>1 DEF ConnsRead
  <2> HIDE DEF c
  <2>5. Connectable(lines[m].tokens) /\ conns[c] = ParseConnect(lines[m].tokens)
    BY <2>4 DEF ConnTaken
  <2>6. \A p \in 0 .. Len(conns[c].senders) * Len(conns[c].receivers) - 1 : Joined(conns[c], p)
    BY <2>3
  <2>7. \A tag : TypeOf(tag) = TypeIn(lines, tag)
    BY TypeAsWritten
  <2> QED
    BY <2>3, <2>5, <2>6, <2>7, ConnectIsSound
<1>5. \A m \in OfKind(lines, "app") :
          /\ lines[m].type # "invalid" /\ lines[m].host \in Hosts
          /\ DefaultKeys(lines, m) \cup {kv.key : kv \in ToSet(lines[m].kvs)}
                 \subseteq Known["app"][lines[m].type]
  BY AppLineIsSound
<1>6. \A l \in ToSet(lines) : l.kind \in {"defaults", "app"} => WellFormed(l.kvs)
  BY <1>2 DEF ToSet
<1> QED
  BY <1>3, <1>4, <1>5, <1>6 DEF AppsSound

-----------------------------------------------------------------------------
(* What ConfigAsWritten says follows from what the readers have taken. *)
LEMMA SameCounts ==
    ASSUME NEW name, NEW kind, NEW n
    PROVE  Nth(name, kind, n) = CountOf(config[name], kind, n)
BY DEF Nth, CountOf

LEMMA WellTyped ==
    ASSUME TakenInv, MgrInv, NetInv, SetupInv
    PROVE  TypeOK
<1>1. ReaderTypeOK
  <2>1. DOMAIN FileNames = 1 .. 6
    BY TheFiles
  <2>2. File \in DOMAIN config => line \in 1 .. Len(config[File]) + 1
    <3> SUFFICES ASSUME File \in DOMAIN config PROVE line \in 1 .. Len(config[File]) + 1
      OBVIOUS
    <3>1. config[File] \in Seq(FileLine(File)) /\ line <= Len(config[File]) + 1
          /\ line \in Nat \ {0}
      BY DEF TakenInv, ReadInv
    <3>2. Len(config[File]) \in Nat
      BY <3>1, LenProperties
    <3> QED
      BY <3>1, <3>2
  <2> QED
    BY <2>1, <2>2 DEF ReaderTypeOK, TakenInv, ReadInv, File
<1>2. MgrTypeOK
  <2>1. defaults \in [Keys -> Text] /\ \A i \in DOMAIN apps : apps[i].type # "invalid"
    BY DEF TakenInv, AppsTaken, DefaultsRead, AppsRead
  <2>2. \A i \in DOMAIN conns : conns[i].senders # <<>> /\ conns[i].receivers # <<>>
    <3>1. \A i \in DOMAIN conns : conns[i] \in Statement
      BY ElementsIn DEF SetupInv
    <3> QED
      BY <3>1 DEF Statement
  <2> QED
    BY <2>1, <2>2 DEF MgrTypeOK, AppsConfigTypeOK, MgrInv, SetupInv, SlotOf
<1>3. NetTypeOK
  BY DEF NetTypeOK, NetInv, WithRoutes
<1>4. MobilityTypeOK
  <2>1. \A f \in MobilityFiles : mobility[f] \in MobilityHeld
    BY DEF TakenInv, MobilityTaken
  <2> QED
    BY <2>1 DEF MobilityTypeOK, MobilityHeld
<1> QED
  BY <1>1, <1>2, <1>3, <1>4 DEF TypeOK, MgrInv, Statuses

LEMMA AttributesTaken ==
    ASSUME TakenInv
    PROVE  AttributesAsWritten
<1> SUFFICES ASSUME NEW n \in AppLines, NEW k \in Keys
             PROVE  Effective(apps[Nth("apps", "app", n)].kvs, k) =
                        IF Assigns(config["apps"][n].kvs, k)
                        THEN Effective(config["apps"][n].kvs, k)
                        ELSE DefaultAt(config["apps"], n, k)
  BY DEF AttributesAsWritten
<1>1. n \in 1 .. LinesRead("apps") /\ config["apps"][n].kind = "app"
  BY DEF AppLines
<1>2. AppTaken(config["apps"], n, apps[CountOf(config["apps"], "app", n)])
  BY <1>1 DEF TakenInv, AppsTaken, AppsRead
<1>3. DefaultAt(config["apps"], n, k) = Given(config["apps"], n - 1, k)
  BY DEF DefaultAt, Given, Giving
<1> QED
  BY <1>2, <1>3, SameCounts DEF AppTaken

LEMMA NothingLostTaken ==
    ASSUME TakenInv
    PROVE  NothingLost
<1> DEFINE lines == config["apps"]
<1> SUFFICES ASSUME status = "loaded"
             PROVE  /\ Len(apps) = Nth("apps", "app", Len(lines))
                    /\ Len(conns) = Nth("apps", "connect", Len(lines))
                    /\ \A n \in DOMAIN lines :
                           /\ lines[n].kind = "app" =>
                                  LET app == apps[Nth("apps", "app", n)]
                                  IN  <<app.tag, app.type, app.host>>
                                          = <<lines[n].tag, lines[n].type, lines[n].host>>
                           /\ lines[n].kind = "connect" =>
                                  JoinsAsWritten(conns[Nth("apps", "connect", n)], lines[n].tokens)
  BY DEF NothingLost
<1>1. LinesRead("apps") = Len(lines) /\ lines \in Seq(FileLine("apps"))
  BY TheFiles DEF TakenInv, ReadInv, Past
<1>2. DOMAIN lines = 1 .. Len(lines)
  BY <1>1, LenProperties
<1>3. AppsRead(lines, Len(lines), apps) /\ ConnsRead(lines, Len(lines), conns)
  BY <1>1 DEF TakenInv, AppsTaken
<1> HIDE DEF lines
<1>4. \A kind, n : Nth("apps", kind, n) = CountOf(lines, kind, n)
  BY SameCounts DEF lines
<1>5. /\ Len(apps) = Nth("apps", "app", Len(lines))
      /\ Len(conns) = Nth("apps", "connect", Len(lines))
  BY <1>3, <1>4, Zenon DEF AppsRead, ConnsRead
<1>6. ASSUME NEW n \in DOMAIN lines, lines[n].kind = "app"
      PROVE  AppTaken(lines, n, apps[Nth("apps", "app", n)])
  BY <1>2, <1>3, <1>4, <1>6, Zenon DEF AppsRead
<1>7. ASSUME NEW n \in DOMAIN lines, lines[n].kind = "connect"
      PROVE  ConnTaken(lines, n, conns[Nth("apps", "connect", n)])
  BY <1>2, <1>3, <1>4, <1>7, Zenon DEF ConnsRead
<1> QED
  BY <1>5, <1>6, <1>7, Zenon DEF AppTaken, ConnTaken

LEMMA WifiHeldAsWritten ==
    ASSUME TakenInv
    PROVE  WifiAsWritten
<1> SUFFICES ASSUME status = "loaded", NEW f \in WifiFiles
             PROVE  LET lines == config[f]
                    IN  /\ wifi[f].standard = LastType(lines, OfKind(lines, "standard"))
                        /\ DescribedBy(wifi[f].manager, lines, OfKind(lines, "ratecontrol"))
                        /\ DescribedBy(wifi[f].delay, lines, OfKind(lines, "delay"))
                        /\ InOrder(wifi[f].phy, lines, OfKind(lines, "phy_attribs"))
                        /\ wifi[f].default <=>
                               \A n \in DOMAIN lines : lines[n].kind \notin {"delay", "add_loss"}
                        /\ Len(wifi[f].losses) = Nth(f, "add_loss", Len(lines))
                        /\ \A n \in DOMAIN lines : lines[n].kind = "add_loss" =>
                               wifi[f].losses[Nth(f, "add_loss", n)]
                                   = [type |-> lines[n].type, attrs |-> lines[n].attrs]
  BY DEF WifiAsWritten
<1> DEFINE lines == config[f]
           Up(kind) == KindUpTo(lines, kind, Len(lines))
<1>1. LinesRead(f) = Len(lines) /\ lines \in Seq(FileLine(f))
  BY TheFiles DEF TakenInv, ReadInv, Past
<1>2. DOMAIN lines = 1 .. Len(lines) /\ \A kind : OfKind(lines, kind) = Up(kind)
  BY <1>1, UpToEnd
<1>3. WifiRead(lines, Len(lines), wifi[f]) /\ WifiAccepted(lines, Len(lines), wifi[f])
  BY <1>1 DEF TakenInv, WifiTaken
<1> HIDE DEF lines
<1>4. \A n : Nth(f, "add_loss", n) = CountOf(lines, "add_loss", n)
  BY SameCounts DEF lines
<1>5. wifi[f].default \in BOOLEAN
  BY <1>3 DEF WifiRead, WifiHeld
<1>6. /\ wifi[f].default <=>
             \A n \in DOMAIN lines : lines[n].kind \notin {"delay", "add_loss"}
      /\ Len(wifi[f].losses) = Nth(f, "add_loss", Len(lines))
      /\ \A n \in DOMAIN lines : lines[n].kind = "add_loss" =>
             wifi[f].losses[Nth(f, "add_loss", n)]
                 = [type |-> lines[n].type, attrs |-> lines[n].attrs]
  BY <1>2, <1>3, <1>4, <1>5 DEF WifiRead
<1>7. /\ wifi[f].standard = IF Up("standard") = {} THEN NoType
                            ELSE lines[Max(Up("standard"))].type
      /\ ObjectRead(lines, Up("ratecontrol"), wifi[f].manager)
      /\ ObjectRead(lines, Up("delay"), wifi[f].delay)
      /\ Ordered(wifi[f].phy, lines, Up("phy_attribs"))
  BY <1>3 DEF WifiAccepted
<1> HIDE DEF Up
<1>8. \A about, obj : ObjectRead(lines, about, obj) => DescribedBy(obj, lines, about)
  BY OrderedHolds DEF ObjectRead, DescribedBy, LastType, NoObject
<1>9. /\ wifi[f].standard = LastType(lines, OfKind(lines, "standard"))
      /\ DescribedBy(wifi[f].manager, lines, OfKind(lines, "ratecontrol"))
      /\ DescribedBy(wifi[f].delay, lines, OfKind(lines, "delay"))
      /\ InOrder(wifi[f].phy, lines, OfKind(lines, "phy_attribs"))
  BY <1>2, <1>7, <1>8, OrderedHolds DEF LastType
<1> QED
  BY <1>6, <1>9 DEF lines

(* What the program holds is what the files say, however many lines they   *)
(* have: the well-formed state throughout the run (TypeOK), the attributes *)
(* of every application with the defaults in force at its line, every      *)
(* application once and in order, every connection likewise and with the   *)
(* tags its line names, the objects of both wifi networks with their types *)
(* and attributes (loadAppsConfig, loadWifiConfig).                        *)
THEOREM ConfigAsWrittenCorrect == Spec => []ConfigAsWritten
<1> DEFINE Inv == SetupInv /\ TakenInv /\ MgrInv /\ NetInv
<1>1. Init => Inv
  BY SetupInit, TakenInit, MgrStart, NetStart
<1>2. Inv /\ [Next]_vars => Inv'
  BY SetupNext, TakenNext, MgrNext, NetNext
<1>3. Inv => ConfigAsWritten
  BY WellTyped, AttributesTaken, NothingLostTaken, WifiHeldAsWritten DEF ConfigAsWritten
<1> HIDE DEF Inv
<1> QED
  BY <1>1, <1>2, <1>3, PTL DEF Spec

-----------------------------------------------------------------------------
(* Once the set-up is ready every check of it has been passed. *)
LEMMA AllInstalled ==
    ASSUME TakenInv, MgrInv, CreatedInv, JoinedInv, status = "ready"
    PROVE  /\ AllApps(config["apps"])
           /\ \A s \in DOMAIN conns :
                  \A p \in 0 .. Len(conns[s].senders) * Len(conns[s].receivers) - 1 : Joined(conns[s], p)
<1>1. /\ Len(apps) \in Nat /\ DOMAIN apps = 1 .. Len(apps)
      /\ Len(conns) \in Nat /\ DOMAIN conns = 1 .. Len(conns)
  <2>1. apps \in Seq(AppRecord) /\ conns \in Seq(Statement)
    BY DEF TakenInv, AppsTaken, AppsRead, ConnsRead
  <2> QED
    BY <2>1, LenProperties
<1>2. /\ nextApp > Len(apps) /\ nextApp \in 1 .. Len(apps) + 1
      /\ nextConn > Len(conns) /\ nextConn \in 1 .. Len(conns) + 1
  BY DEF MgrInv, CreatedInv, JoinedInv, AppsDone, ConnsDone
<1>3. DOMAIN apps = 1 .. nextApp - 1 /\ DOMAIN conns = 1 .. nextConn - 1
  BY <1>1, <1>2
<1>4. ASSUME NEW a \in DOMAIN apps
      PROVE  /\ SetAppAttribs(apps[a]) = "ok" /\ apps[a].host \in Hosts
             /\ apps[a].tag \in DOMAIN rec /\ rec[apps[a].tag] = apps[a]
  <2>1. /\ SetAppAttribs(apps[a]) = "ok"
        /\ apps[a].tag \in DOMAIN rec /\ rec[apps[a].tag] = apps[a]
    BY <1>3 DEF CreatedInv
  <2>2. rec[apps[a].tag].host \in Hosts
    BY <2>1 DEF MgrInv
  <2> QED
    BY <2>1, <2>2
<1>5. \A a, b \in DOMAIN apps : apps[a].tag = apps[b].tag => a = b
  BY <1>3 DEF CreatedInv
<1>6. \A t \in DOMAIN rec : \E a \in DOMAIN apps : apps[a].tag = t
  BY <1>3 DEF CreatedInv
<1>7. \A s \in DOMAIN conns :
          \A p \in 0 .. Len(conns[s].senders) * Len(conns[s].receivers) - 1 : Joined(conns[s], p)
  BY <1>3 DEF JoinedInv
<1> QED
  BY <1>4, <1>5, <1>6, <1>7 DEF AllApps

(* What was checked on the way to "ready" adds up to a usable set-up. *)
LEMMA ReadyIsUsable ==
    ASSUME TakenInv, MgrInv, StageInv, CreatedInv, JoinedInv
    PROVE  OnlyUsableRuns
<1> SUFFICES ASSUME status = "ready" PROVE Usable
  BY DEF OnlyUsableRuns
<1>1. status \in Past /\ status \in Past \ {"loaded", "channels"} /\ status \in WithRoutes
  BY DEF Past, WithRoutes
<1>2. reading = 6 /\ \A f \in ToSet(FileNames) : f \in DOMAIN config /\ LinesRead(f) = Len(config[f])
  BY <1>1 DEF TakenInv, ReadInv
<1>3. DOMAIN config = ToSet(FileNames)
  BY <1>2 DEF TakenInv, ReadInv
<1>4. \A f \in ToSet(FileNames) : config[f] \in Seq(FileLine(f))
  BY <1>3 DEF TakenInv, ReadInv
<1>5. args.dirs <= 2 /\ args.outDir
  BY <1>1 DEF StageInv
<1>6. ASSUME NEW f \in MobilityFiles PROVE MobilitySound(config[f])
  <2>1. f \in ToSet(FileNames)
    BY TheFiles
  <2>2. FileLine(f) = MobilityFileLine
    BY DEF FileLine, MobilityFiles, WifiFiles
  <2>3. Len(config[f]) > 0
    <3>1. FileNames[1] = "mesh_mobility" /\ FileNames[2] = "sta_mobility"
      BY DEF FileNames
    <3>2. 1 \in 1 .. reading - 1 /\ 2 \in 1 .. reading - 1
      BY <1>2
    <3>3. f = FileNames[1] \/ f = FileNames[2]
      BY <3>1 DEF MobilityFiles
    <3> QED
      BY <3>2, <3>3 DEF TakenInv, ReadInv
  <2>4. MobilityRead(config[f], Len(config[f]), mobility[f])
    BY <1>2, <2>1 DEF TakenInv, MobilityTaken
  <2> QED
    BY <1>4, <2>1, <2>2, <2>3, <2>4, MobilityIsSound
<1>7. AppsSound(config["apps"])
  <2>1. "apps" \in ToSet(FileNames)
    BY TheFiles
  <2>2. FileLine("apps") = AppsFileLine
    BY DEF FileLine, MobilityFiles, WifiFiles
  <2>3. config["apps"] \in Seq(AppsFileLine) /\ LinesRead("apps") = Len(config["apps"])
    BY <1>2, <1>4, <2>1, <2>2
  <2>4. /\ DefaultsRead(config["apps"], Len(config["apps"]), defaults)
        /\ AppsRead(config["apps"], Len(config["apps"]), apps)
        /\ ConnsRead(config["apps"], Len(config["apps"]), conns)
    BY <2>3 DEF TakenInv, AppsTaken
  <2> QED
    BY <2>3, <2>4, AllInstalled, AppsIsSound
<1>8. RoutingUsable(config["routing"])
  <2>1. "routing" \in ToSet(FileNames)
    BY TheFiles
  <2>2. FileLine("routing") = RoutingFileLine
    BY DEF FileLine, MobilityFiles, WifiFiles
  <2>3. RoutingRead(config["routing"], Len(config["routing"]), routesOn, tables)
    BY <1>2, <2>1 DEF TakenInv, RoutingTaken
  <2>4. Installable
    BY <1>1 DEF StageInv
  <2> QED
    BY <1>4, <2>1, <2>2, <2>3, <2>4, RoutingIsUsable
<1>9. ASSUME NEW f \in WifiFiles PROVE WifiSound(config[f])
  <2>1. f \in ToSet(FileNames)
    BY TheFiles
  <2>2. FileLine(f) = WifiFileLine
    BY DEF FileLine, MobilityFiles, WifiFiles
  <2>3. WifiRead(config[f], Len(config[f]), wifi[f]) /\ WifiAccepted(config[f], Len(config[f]), wifi[f])
    BY <1>2, <2>1 DEF TakenInv, WifiTaken
  <2>4. f = "mesh_wifi" \/ f = "apsta_wifi"
    BY DEF WifiFiles
  <2>5. ConfigureChannel(wifi[f]) = "ok" /\ ConfigureWifi(wifi[f]) = "ok" /\ ConfigurePhy(wifi[f]) = "ok"
    <3>1. ChannelsFine /\ MeshFine
      BY <1>1 DEF StageInv
    <3> QED
      BY <2>4, <3>1 DEF ChannelsFine, MeshFine
  <2> QED
    BY <1>4, <2>1, <2>2, <2>3, <2>5, WifiIsSound
<1> QED
  BY <1>3, <1>5, <1>6, <1>7, <1>8, <1>9 DEF Usable

(* A simulation runs only if the command line is right and all six files   *)
(* are there, of however many lines, with nothing in them that cannot be   *)
(* followed: it would have been refused, or have ended the program, in one *)
(* of the loaders, in CreateChannels, CreateNodes, CreateInterfaces or in  *)
(* the applications manager.  Surplus tokens of a line of routing.txt pass.*)
THEOREM OnlyUsableRunsCorrect == Spec => []OnlyUsableRuns
<1> DEFINE Inv == SetupInv /\ TakenInv /\ MgrInv /\ StageInv /\ CreatedInv /\ JoinedInv
<1>1. Init => Inv
  BY SetupInit, TakenInit, MgrStart, StageInit, InstallInit
<1>2. Inv /\ [Next]_vars => Inv'
  <2> SUFFICES ASSUME Inv, [Next]_vars PROVE Inv'
    OBVIOUS
  <2>1. SetupInv' /\ TakenInv'
    BY SetupNext, TakenNext
  <2> QED
    BY <2>1, MgrNext, StageNext, CreatedNext, JoinedNext
<1>3. Inv => OnlyUsableRuns
  BY ReadyIsUsable
<1> HIDE DEF Inv
<1> QED
  BY <1>1, <1>2, <1>3, PTL DEF Spec
=============================================================================
