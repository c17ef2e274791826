---------------------------- MODULE AppsManager -----------------------------
(***************************************************************************)
(* sim/apps_manager.cc: creates the applications that AppsConfig read and  *)
(* connects them.  Every connection gets a port of its own; the sender is  *)
(* told the receiver's host and that port, the receiver where to listen.   *)
(* Applications with several connections have numbered slots for them.     *)
(***************************************************************************)
EXTENDS AppsConfig

CONSTANTS
    Hosts,       \* addresses that exist in the network
    SlotCount    \* RX_SLOT_COUNT, TX_SLOT_COUNT

ASSUME SlotAssumption == SlotCount \in Nat \ {0}

FirstPort == 1001

(* The attribute names of createApp, as the types that have them. *)
Senders       == {"echo_client", "file_server", "streaming_server", "web_client",
                  "timed_proxy", "rq_encoder", "rq_decoder"}
Receivers     == {"echo_server", "client", "web_server",
                  "timed_proxy", "rq_encoder", "rq_decoder"}
TxProtocol    == {"file_server", "streaming_server",
                  "timed_proxy", "rq_encoder", "rq_decoder"}
RxProtocol    == {"client", "timed_proxy", "rq_encoder", "rq_decoder"}
TxMultiple    == {"rq_decoder"}
RxMultiple    == {"rq_encoder"}
RxTraced      == RxProtocol
DecoderTraced == {"rq_decoder"}

(* The default of the sender's protocol attribute. *)
ProtocolOf(type) == IF type \in {"file_server", "rq_decoder"} THEN "tcp" ELSE "udp"

VARIABLES
    rec,         \* rec: from the tags to the applications created
    nextApp,     \* the application createApps creates next
    nextConn,    \* the connect statement it turns to next
    pos,         \* connections made of this statement
    sindex,      \* *sindex
    sendTo,      \* from <<tag, slot>> of a sender to host and port
    listen,      \* from <<tag, slot>> of a receiver to the port
    rxProto,     \* from <<tag, slot>> of a receiver to the protocol set
    traces,      \* the trace files opened, by kind and number
    made         \* history: the connections made

mgrVars == <<rec, nextApp, nextConn, pos, sindex, sendTo, listen, rxProto, traces, made>>

MgrTypeOK ==
    /\ AppsConfigTypeOK
    /\ nextApp \in 1 .. Len(apps) + 1
    /\ nextConn \in 1 .. Len(conns) + 1
    /\ pos \in Nat
    /\ sindex \in Nat
    /\ \A t \in DOMAIN rec : rec[t].host \in Hosts
    /\ \A key \in DOMAIN sendTo \cup DOMAIN listen :
           key[1] \in DOMAIN rec /\ key[2] \in 0 .. SlotCount - 1

MgrInit ==
    /\ AppsConfigInit
    /\ rec = <<>>
    /\ nextApp = 1
    /\ nextConn = 1
    /\ pos = 0
    /\ sindex = 0
    /\ sendTo = <<>>
    /\ listen = <<>>
    /\ rxProto = <<>>
    /\ traces = <<>>
    /\ made = {}

-----------------------------------------------------------------------------
LoadAppsConfig == AppsConfigNext /\ UNCHANGED mgrVars

End(outcome) == Stop(outcome) /\ UNCHANGED <<appsVars, mgrVars>>

(* setAppAttribs: the defaults that apply to the line are set like its own *)
(* attributes, and the type need not have them.                            *)
SetAppAttribs(app) == SetAttributes("app", app.type, app.kvs)

CreateApp ==
    /\ status = "interfaces"
    /\ nextApp <= Len(apps)
    /\ LET app == apps[nextApp]
       IN  /\ SetAppAttribs(app) = "ok"
           /\ app.tag \notin DOMAIN rec
           /\ app.host \in Hosts
           /\ rec' = Put(rec, app.tag, app)
    /\ nextApp' = nextApp + 1
    /\ UNCHANGED <<readerVars, appsVars, nextConn, pos, sindex, sendTo, listen,
                   rxProto, traces, made>>

(* A tag used twice is an error; an unknown host is looked up with at(). *)
RefuseApp ==
    /\ status = "interfaces"
    /\ nextApp <= Len(apps)
    /\ IF SetAppAttribs(apps[nextApp]) # "ok" THEN End("crashed")
       ELSE IF apps[nextApp].tag \in DOMAIN rec THEN End("failed")
       ELSE apps[nextApp].host \notin Hosts /\ End("crashed")

AllCreated ==
    /\ status = "interfaces"
    /\ nextApp > Len(apps)
    /\ End("connecting")

(* rec[tag] yields an empty record for a tag that does not exist. *)
TypeOf(tag) == IF tag \in DOMAIN rec THEN rec[tag].type ELSE "none"

Valid(stmt) ==
    /\ Len(stmt.senders) = 1 \/ Len(stmt.receivers) = 1
    /\ Len(stmt.senders) > 1 => TypeOf(stmt.receivers[1]) \in RxMultiple
    /\ Len(stmt.receivers) > 1 => TypeOf(stmt.senders[1]) \in TxMultiple

RefuseConns ==
    /\ status = "connecting"
    /\ nextConn <= Len(conns)
    /\ ~Valid(conns[nextConn])
    /\ End("failed")

(* What createConn1 needs of the two applications: a sender that can be    *)
(* told where to send, a receiver that can be told where to listen and by  *)
(* which protocol, and slots that exist.                                   *)
Possible(tx, rx, txSlot, rxSlot) ==
    /\ TypeOf(tx) \in Senders
    /\ TypeOf(rx) \in Receivers
    /\ TypeOf(tx) \in TxProtocol => TypeOf(rx) \in RxProtocol
    /\ txSlot < SlotCount
    /\ rxSlot < SlotCount

(* Faulty variant of Slot: the templates are not filled in. *)
SlotZero(multiple, tag, i) == 0

(* getNamesFromNameTemplates fills the index in for types with slots. *)
Slot(multiple, tag, i) == IF TypeOf(tag) \in multiple THEN i ELSE 0

PortOf == FirstPort + sindex

(* *sindex after the receiver's connections are made. *)
TraceNumber == sindex + 1

TraceFiles(rx) ==
    [kind : (IF TypeOf(rx) \in RxTraced THEN {"rx", "pl"} ELSE {})
                \cup (IF TypeOf(rx) \in DecoderTraced THEN {"rqdec"} ELSE {}),
     number : {TraceNumber}]

(* One round of the loops in createConns: createConn1, and after the last  *)
(* sender of a receiver its trace files.                                   *)
CreateConn1 ==
    /\ status = "connecting"
    /\ nextConn <= Len(conns)
    /\ LET stmt == conns[nextConn]
           nTx  == Len(stmt.senders)
           i    == pos \div nTx
           j    == pos % nTx
           tx   == stmt.senders[j + 1]
           rx   == stmt.receivers[i + 1]
           txSlot == Slot(TxMultiple, tx, i)
           rxSlot == Slot(RxMultiple, rx, j)
           last == pos + 1 = nTx * Len(stmt.receivers)
       IN  /\ Valid(stmt)
           /\ IF ~Possible(tx, rx, txSlot, rxSlot)
              THEN End("crashed")
              ELSE /\ sendTo' = Put(sendTo, <<tx, txSlot>>, <<rec[rx].host, PortOf>>)
                   /\ listen' = Put(listen, <<rx, rxSlot>>, PortOf)
                   /\ rxProto' = IF TypeOf(tx) \in TxProtocol
                                 THEN Put(rxProto, <<rx, rxSlot>>, ProtocolOf(TypeOf(tx)))
                                 ELSE rxProto
                   /\ traces' = IF j = nTx - 1 THEN traces \o SetToSeq(TraceFiles(rx))
                                ELSE traces
                   /\ made' = made \cup
                          {[stmt |-> nextConn, tx |-> tx, rx |-> rx, port |-> PortOf]}
                   /\ sindex' = sindex + 1
                   /\ pos' = IF last THEN 0 ELSE pos + 1
                   /\ nextConn' = IF last THEN nextConn + 1 ELSE nextConn
                   /\ UNCHANGED <<readerVars, appsVars, rec, nextApp>>

AllConnected ==
    /\ status = "connecting"
    /\ nextConn > Len(conns)
    /\ End("installed")

InstallApps ==
    \/ CreateApp
    \/ RefuseApp
    \/ AllCreated
    \/ RefuseConns
    \/ CreateConn1
    \/ AllConnected

-----------------------------------------------------------------------------
(* No two listening sockets share a port, so that none fails to bind.      *)
PortsDistinct ==
    \A k, l \in DOMAIN listen : listen[k] = listen[l] => k = l

(* fopen(..., "w") never truncates a trace file already open: the numbers  *)
(* of the files of a kind differ.                                          *)
TracesDistinct ==
    \A i, j \in DOMAIN traces : traces[i] = traces[j] => i = j

(* Neither end of the connection is named a second time, in its statement  *)
(* or in another.                                                          *)
Exclusive(c) ==
    \A d \in made : d # c =>
        /\ d.rx = c.rx => d.stmt = c.stmt /\ d.tx # c.tx
        /\ d.tx = c.tx => d.stmt = c.stmt /\ d.rx # c.rx

(* The sender's target is a port on which the receiver listens, by the     *)
(* sender's protocol.                                                      *)
Heard(c) ==
    \E s, r \in 0 .. SlotCount - 1 :
        /\ <<c.tx, s>> \in DOMAIN sendTo
        /\ <<c.rx, r>> \in DOMAIN listen
        /\ sendTo[<<c.tx, s>>] = <<rec[c.rx].host, c.port>>
        /\ listen[<<c.rx, r>>] = c.port
        /\ TypeOf(c.tx) \in TxProtocol =>
               rxProto[<<c.rx, r>>] = ProtocolOf(TypeOf(c.tx))

(* All connections of an N:1 or 1:N statement work together, as long as    *)
(* the applications are not connected by another statement too.            *)
ExclusiveHeard == \A c \in made : Exclusive(c) => Heard(c)

-----------------------------------------------------------------------------
(* The type of the application that a tag names. *)
TypeIn(lines, tag) ==
    LET named == {n \in OfKind(lines, "app") : lines[n].tag = tag}
    IN  IF named = {} THEN "none" ELSE lines[Max(named)].type

(* Between applications that exist, one of them alone on its side, and as  *)
(* many on the other side as it has slots for, if it has slots; all of     *)
(* them can send, or receive, and receive by the protocol sent.            *)
ConnectSound(lines, tokens) ==
    LET S == ParseConnect(tokens).senders
        R == ParseConnect(tokens).receivers
        typeOf(tag) == TypeIn(lines, tag)
    IN  /\ Connectable(tokens)
        /\ Len(S) = 1 \/ Len(R) = 1
        /\ Len(S) > 1 => typeOf(R[1]) \in RxMultiple /\ Len(S) <= SlotCount
        /\ Len(R) > 1 => typeOf(S[1]) \in TxMultiple /\ Len(R) <= SlotCount
        /\ \A s \in ToSet(S), r \in ToSet(R) :
               /\ typeOf(s) \in Senders
               /\ typeOf(r) \in Receivers
               /\ typeOf(s) \in TxProtocol => typeOf(r) \in RxProtocol

(* The keys the default lines before line n have given a value. *)
DefaultKeys(lines, n) == {k \in Keys : DefaultAt(lines, n, k) # NoValue}

(* Well-formed lines; applications of known types on hosts that exist,     *)
(* each with a tag of its own and with no attribute, its own or a default  *)
(* in force at its line, that its type lacks; sound connections.           *)
AppsSound(lines) ==
    /\ \A l \in ToSet(lines) : l.kind \in {"defaults", "app"} => WellFormed(l.kvs)
    /\ \A n \in OfKind(lines, "app") : lines[n].type # "invalid" /\ lines[n].host \in Hosts
    /\ \A m, n \in OfKind(lines, "app") : lines[m].tag = lines[n].tag => m = n
    /\ \A n \in OfKind(lines, "app") :
           DefaultKeys(lines, n) \cup {kv.key : kv \in ToSet(lines[n].kvs)}
               \subseteq Known["app"][lines[n].type]
    /\ \A n \in OfKind(lines, "connect") : ConnectSound(lines, lines[n].tokens)
=============================================================================
