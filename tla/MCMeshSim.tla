----------------------------- MODULE MCMeshSim ------------------------------
(* What the program is started with varies one part at a time: the network *)
(* with its routing file, the applications, the wifi and the mobility      *)
(* files, the command line and the files that are missing.                 *)
EXTENDS MeshSim

Assign(k, v) == [key |-> k, val |-> v]

MCHosts == UNION {AddrsOf(n) : n \in Nodes}

MCKnown ==
    [allocator |-> (ListAllocator :> {}) @@ ("Grid" :> {"MinX"}),
     manager   |-> ("Minstrel" :> {"Rts"}) @@ ("Constant" :> {"Rts", "DataMode"}),
     delay     |-> ("ConstantSpeed" :> {"Speed"}) @@ ("Random" :> {}),
     loss      |-> ("Range" :> {"MaxRange"}) @@ ("Log" :> {}),
     phy       |-> ("ns3::YansWifiPhy" :> {"Antennas"}),
     app       |-> [t \in Senders \cup Receivers |->
                       IF t = "client" THEN {"Start"} ELSE {"Start", "Rate"}]]

-----------------------------------------------------------------------------
Wifi(kind, type, attrs) == [kind |-> kind, ntok |-> 2, type |-> type, attrs |-> attrs]
Phy(attrs) == Wifi("phy_attribs", NoType, attrs)

DefaultWifi == <<Wifi("standard", "n5", <<>>), Wifi("ratecontrol", "Minstrel", <<>>)>>
DefaultMobility == <<[kind |-> "allocator", type |-> "Grid", attrs |-> <<Assign("MinX", "0")>>]>>

Default ==
    [generated |-> FALSE, chain |-> TRUE, ap |-> [s \in Stas |-> MeshSize],
     args |-> [dirs |-> 2, outDir |-> TRUE, pcap |-> FALSE],
     config |-> ("mesh_mobility" :> DefaultMobility) @@ ("sta_mobility" :> DefaultMobility)
                @@ ("apps" :> <<>>) @@ ("routing" :> <<>>)
                @@ ("mesh_wifi" :> DefaultWifi) @@ ("apsta_wifi" :> DefaultWifi),
     file |-> "apps", lines |-> {}, count |-> 0]

With(file, prefix, lines, n) ==
    [Default EXCEPT !.config[file] = prefix, !.file = file, !.lines = lines, !.count = n]

UpTo(n, file, prefix, lines) == {With(file, prefix, lines, k) : k \in 0 .. n}

-----------------------------------------------------------------------------
WrongLines ==
    {Proto("rip"), RoutesOn(BadAddress), RoutesOn(<<9, 9>>),
     Route(BadAddress, 32, MeshAddr(1), MeshAddr(1)),
     Direct(MeshAddr(1), 32, MeshAddr(1)),
     [Proto("none") EXCEPT !.ntok = 1], [RoutesOn(BackhaulAddr) EXCEPT !.ntok = 1],
     [Direct(MeshAddr(1), 32, MeshAddr(1)) EXCEPT !.ntok = 1],
     [Direct(MeshAddr(1), 32, MeshAddr(1)) EXCEPT !.ntok = 5]}

Fronts == {<<>>} \cup {<<l>> : l \in WrongLines}

(* A route line of so many tokens. *)
Tokens(n, metric) ==
    [Route(MeshAddr(2), 32, MeshAddr(1), MeshAddr(2)) EXCEPT !.ntok = n, !.metric = metric]

FurtherLines ==
    {RoutesOn(MeshAddr(1)), RoutesOn(<<9, 9>>), Direct(MeshAddr(1), 32, ApAddr(1)),
     Direct(MeshAddr(1), 32, ApAddr(2)), Route(MeshAddr(1), 32, ApAddr(1), BadAddress),
     Tokens(4, 3), Tokens(4, BadMetric), Tokens(5, 0), Tokens(5, BadMetric), Tokens(1, 0),
     [RoutesOn(MeshAddr(1)) EXCEPT !.ntok = 3], [Proto("aodv") EXCEPT !.ntok = 1]}

Network(c, a, lines) ==
    [With("routing", lines, {}, 0) EXCEPT !.generated = TRUE, !.chain = c, !.ap = a]

RoutingSettings ==
    {Network(TRUE, Default.ap, front \o ChainFile) : front \in Fronts}
    \cup {Network(FALSE, a, front \o GeneratedFile(a)) : front \in Fronts, a \in [Stas -> Meshes]}
    \cup UpTo(3, "routing", <<>>, FurtherLines)

-----------------------------------------------------------------------------
WifiLines ==
    {Wifi("standard", "802.11a", <<>>), Wifi("standard", "z", <<>>),
     [Wifi("standard", "a", <<>>) EXCEPT !.ntok = 3],
     Wifi("ratecontrol", "Minstrel", <<>>),
     Wifi("ratecontrol", "Constant", <<Assign("DataMode", "6"), Assign("Rts", "1")>>),
     Wifi("ratecontrol", "Minstrel", <<Assign("Rts", "2")>>),
     Wifi("ratecontrol", NoType, <<>>), Wifi("ratecontrol", "Other", <<>>),
     Phy(<<Assign("Antennas", "2")>>), Phy(<<Assign("Antennas", "2"), Malformed>>),
     Phy(<<Assign("Wheels", "2"), Malformed>>),
     Wifi("delay", "ConstantSpeed", <<Assign("Speed", "1")>>), Wifi("delay", "Random", <<>>),
     Wifi("delay", NoType, <<>>),
     Wifi("add_loss", "Range", <<Assign("MaxRange", "30")>>), Wifi("add_loss", "Log", <<>>),
     Wifi("add_loss", "Range", <<Malformed>>), Wifi("add_loss", "@matrix", <<>>),
     Wifi("channel", NoType, <<>>), Wifi("antenna", NoType, <<>>)}

WifiObjects == {l \in WifiLines : l.kind \in {"ratecontrol", "add_loss"} /\ l.type # NoType}

WifiSettings ==
    UNION {UpTo(2, f, <<>>, WifiLines) \cup UpTo(2, f, DefaultWifi, WifiLines)
              \cup {With(f, DefaultWifi, WifiObjects, 3)} : f \in WifiFiles}

-----------------------------------------------------------------------------
At(ntok, numbers) == [kind |-> "position", ntok |-> ntok, numbers |-> numbers]
Allocate(type, attrs) == [kind |-> "allocator", type |-> type, attrs |-> attrs]

MobilityLines ==
    {Allocate(ListAllocator, <<>>), Allocate("Grid", <<>>), Allocate("Other", <<>>),
     Allocate(ListAllocator, <<Assign("MinX", "1")>>), Allocate("Grid", <<Malformed>>),
     At(1, TRUE), At(2, TRUE), At(3, TRUE), At(4, TRUE), At(2, FALSE)}

MobilitySettings == UNION {UpTo(3, f, <<>>, MobilityLines) : f \in MobilityFiles}

ProgramSettings ==
    {[Default EXCEPT !.args = a] :
        a \in [dirs : 0 .. 3, outDir : BOOLEAN, pcap : BOOLEAN]}
    \cup {[Default EXCEPT !.config = [f \in DOMAIN @ \ {missing} |-> @[f]],
                               !.file = IF missing = "apps" THEN "routing" ELSE "apps"] :
             missing \in ToSet(FileNames)}
-----------------------------------------------------------------------------
AppWith(tag, type, host, kvs) ==
    [kind |-> "app", tag |-> tag, type |-> type, host |-> host, kvs |-> kvs]
App(tag, type, host) == AppWith(tag, type, host, <<>>)
Defaults(kvs) == [kind |-> "defaults", kvs |-> kvs]
Conn(tokens) == [kind |-> "connect", tokens |-> tokens]

h1 == BackhaulAddr
h2 == WiredAddr(1)

AppsLines ==
    {Defaults(<<Assign("Start", "1")>>),
     Defaults(<<Assign("Start", "2"), Assign("Rate", "1")>>),
     Defaults(<<Assign("Rate", "3"), Assign("Start", "")>>),
     Defaults(<<Assign("Rate", "")>>), Defaults(<<Malformed>>),
     App("a", "file_server", h1),
     AppWith("b", "client", h2, <<Assign("Start", "4")>>),
     AppWith("c", "rq_encoder", h2, <<Assign("Rate", "5"), Assign("Rate", "6")>>),
     App("d", "invalid", h1),
     Conn(<<"a">>), Conn(<<"a", "b">>), Conn(<<"a", ":", "b">>),
     Conn(<<"a", "a", ":", "c">>), Conn(<<"a", "b", "c">>), Conn(<<"a", "b", ":">>),
     Conn(<<"c", ":", "b", "b">>)}

Applications ==
    <<App("srv1", "file_server", h1), App("srv2", "file_server", h1),
      App("srv3", "streaming_server", h2),
      App("enc", "rq_encoder", h1), App("proxy", "timed_proxy", h1),
      App("dec", "rq_decoder", h2),
      App("cl1", "client", h2), App("cl2", "client", h2),
      App("echo1", "echo_client", h2), App("echo2", "echo_client", h2),
      App("echosrv", "echo_server", h1)>>

Connects ==
    {Conn(<<"srv1", "srv2", ":", "enc">>), Conn(<<"srv1", "enc">>),
     Conn(<<"srv1", "srv2", "srv3", ":", "enc">>), Conn(<<"srv3", "cl2">>),
     Conn(<<"enc", "dec">>), Conn(<<"enc", "proxy">>), Conn(<<"proxy", "dec">>),
     Conn(<<"dec", ":", "cl1", "cl2">>), Conn(<<"srv2", "cl1">>),
     Conn(<<"echo1", "echosrv">>), Conn(<<"echo2", "echosrv">>),
     Conn(<<"echo1", "cl1">>), Conn(<<"srv1", "srv2", ":", "cl2">>),
     Conn(<<"srv1", ":", "cl1", "cl2">>),
     Conn(<<"srv1", "srv2", ":", "enc", "dec">>), Conn(<<"srv1", ":">>),
     Conn(<<"srv1", "echosrv">>), Conn(<<"cl1", "srv1">>), Conn(<<"srv1", "nobody">>)}

(* Statements of the largest configurations of the repository. *)
Sessions ==
    {Conn(<<"srv1", "srv2", ":", "enc">>), Conn(<<"srv3", "cl2">>),
     Conn(<<"enc", "dec">>), Conn(<<"enc", "proxy">>), Conn(<<"proxy", "dec">>),
     Conn(<<"dec", ":", "cl1", "cl2">>), Conn(<<"srv2", "cl1">>), Conn(<<"echo1", "echosrv">>)}

AppsSettings ==
    UpTo(3, "apps", <<>>, AppsLines) \cup UpTo(2, "apps", Applications, Connects)
        \cup {With("apps", Applications, Sessions, 3),
              With("apps", Applications, {App("srv1", "client", h1),
                                          App("cl3", "client", <<9, 9>>)}, 1)}

MCSettings ==
    RoutingSettings \cup WifiSettings \cup MobilitySettings \cup AppsSettings
        \cup ProgramSettings
=============================================================================
