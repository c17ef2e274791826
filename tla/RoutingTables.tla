--------------------------- MODULE RoutingTables ----------------------------
(***************************************************************************)
(* The routing.txt files of the repository: the one scripts/               *)
(* genroutingtables makes from the mesh node of each station, and that of  *)
(* a chain of mesh nodes (sim_configs/rqtest).                             *)
(***************************************************************************)
EXTENDS Integers, Sequences, SequencesExt, FiniteSetsExt

CONSTANTS
    MeshSize,    \* meshSize: mesh nodes 1 .. MeshSize
    StaSize,     \* staSize: stations, and wired stations, 1 .. StaSize
    Offset       \* 100: the distance of the stations' addresses

Meshes == 1 .. MeshSize
Stas == 1 .. StaSize

(* The address plan of MeshSim::CreateInterfaces. *)
BackhaulAddr  == <<1, 1>>
GatewayAddr   == <<1, 2>>
MeshAddr(m)   == <<2, m>>
ApAddr(m)     == <<3, m>>

(* Faulty variant of StaAddr: no distance to the access points. *)
StaAddrFromOne(s) == <<3, s>>

StaAddr(s)    == <<3, Offset + s>>
Sta2wAddr(s)  == <<4, Offset + s>>
WiredAddr(s)  == <<4, s>>

StationAddrs(s) == {StaAddr(s), Sta2wAddr(s), WiredAddr(s)}

RoutesOn(host) == [kind |-> "routes_on", ntok |-> 2, host |-> host]
Proto(name) == [kind |-> "proto", ntok |-> 2, name |-> name]
Direct(target, len, via) ==
    [kind |-> "route", ntok |-> 2, target |-> target, len |-> len, via |-> via,
     gateway |-> <<0, 0>>, metric |-> 0]
Route(target, len, via, gateway) ==
    [kind |-> "route", ntok |-> 3, target |-> target, len |-> len, via |-> via,
     gateway |-> gateway, metric |-> 0]

AnyTarget == <<0, 0>>
Block(host, routes) ==
    <<RoutesOn(host)>> \o FoldSet(LAMBDA r, lines : Append(lines, r), <<>>, routes)

BackhaulBlock == Block(BackhaulAddr, {Route(AnyTarget, 0, BackhaulAddr, GatewayAddr)})

StaBlock(s, ap) ==
    Block(StaAddr(s), {Route(AnyTarget, 0, StaAddr(s), ApAddr(ap)),
                       Direct(WiredAddr(s), 32, Sta2wAddr(s))})

WiredBlock(s) ==
    Block(WiredAddr(s), {Route(AnyTarget, 0, WiredAddr(s), Sta2wAddr(s))})

(* genroutingtables: every mesh node reaches every other directly. *)
MeshRoutes(m, ap) ==
    {IF m = 1 THEN Route(<<1, 0>>, 24, GatewayAddr, BackhaulAddr)
     ELSE Route(<<1, 0>>, 24, MeshAddr(m), MeshAddr(1))}
    \cup UNION {{IF ap[s] = m THEN Route(a, 32, ApAddr(m), StaAddr(s))
                 ELSE Route(a, 32, MeshAddr(m), MeshAddr(ap[s]))
                    : a \in StationAddrs(s)} : s \in Stas}

(* Faulty variant of ChainRoutes: the backhaul lies away from itself. *)
ChainRoutesNoBackhaul(m) ==
    IF m < MeshSize
    THEN {Route(AnyTarget, 0, MeshAddr(m), MeshAddr(m + 1))}
    ELSE {Route(AnyTarget, 0, MeshAddr(m), MeshAddr(m - 1))}
         \cup UNION {{Route(a, 32, ApAddr(m), StaAddr(s)) : a \in StationAddrs(s)}
                        : s \in Stas}

(* The chain: a packet goes from neighbour to neighbour, away from the     *)
(* backhaul unless its target lies closer to it.                           *)
ChainRoutes(m) ==
    IF m < MeshSize
    THEN {Route(AnyTarget, 0, MeshAddr(m), MeshAddr(m + 1)),
          IF m > 1 THEN Route(BackhaulAddr, 32, MeshAddr(m), MeshAddr(m - 1))
          ELSE Route(BackhaulAddr, 32, GatewayAddr, BackhaulAddr)}
         \cup UNION {{Route(MeshAddr(k), 32, MeshAddr(m), MeshAddr(m - 1)),
                      Route(ApAddr(k), 32, MeshAddr(m), MeshAddr(m - 1))}
                        : k \in 1 .. m - 1}
    ELSE {Route(AnyTarget, 0, MeshAddr(m), MeshAddr(m - 1))}
         \cup UNION {{Route(a, 32, ApAddr(m), StaAddr(s)) : a \in StationAddrs(s)}
                        : s \in Stas}

(* ap[s] is the mesh node station s is connected to. *)
GeneratedFile(ap) ==
    <<Proto("none")>> \o BackhaulBlock
        \o FlattenSeq([m \in Meshes |-> Block(MeshAddr(m), MeshRoutes(m, ap))])
        \o FlattenSeq([s \in Stas |-> StaBlock(s, ap[s])])
        \o FlattenSeq([s \in Stas |-> WiredBlock(s)])

ChainFile ==
    <<Proto("none")>> \o BackhaulBlock
        \o FlattenSeq([s \in Stas |-> StaBlock(s, MeshSize)])
        \o FlattenSeq([s \in Stas |-> WiredBlock(s)])
        \o FlattenSeq([m \in Meshes |-> Block(MeshAddr(m), ChainRoutes(m))])
=============================================================================
