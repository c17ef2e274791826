---------------------------- MODULE MeshNetwork -----------------------------
(***************************************************************************)
(* sim/mesh_sim.cc: the nodes and addresses of the simulated network, the  *)
(* static routes installed on the nodes, and a packet forwarded by them.   *)
(*                                                                         *)
(* backhaul -- mesh 1, mesh nodes among each other, each station with its  *)
(* access point, each station with its wired station.                      *)
(***************************************************************************)
EXTENDS RoutingTables, RoutingConfig

(* The address plan has room for fewer mesh nodes, and as many stations,   *)
(* than the distance of the stations' addresses; the generator of tables   *)
(* limits the mesh nodes ("1 <= x < 100").                                 *)
ASSUME SizeAssumption ==
    /\ Offset \in Nat
    /\ MeshSize \in 1 .. Offset
    /\ StaSize \in 1 .. Offset

VARIABLES
    generated, \* TRUE: the routing file was made for the network
    chain,     \* TRUE: a chain of mesh nodes, the stations at the last of them
    ap,        \* the mesh node each station is connected to
    routes,    \* the routing table of each node
    at,        \* where the packet is
    target,    \* its destination address
    path       \* history: the nodes it has visited

netVars == <<generated, chain, ap, routes, at, target, path>>

Backhaul == <<"backhaul", 1>>
Mesh(m)  == <<"mesh", m>>
Sta(s)   == <<"sta", s>>
Wired(s) == <<"wired", s>>

Nodes == {Backhaul} \cup {Mesh(m) : m \in Meshes}
             \cup {Sta(s) : s \in Stas} \cup {Wired(s) : s \in Stas}
Nowhere == <<"nowhere", 0>>

(* The addresses CreateInterfaces assigns to the devices of a node. *)
AddrsOf(node) ==
    CASE node[1] = "backhaul" -> {BackhaulAddr}
      [] node[1] = "mesh"  -> {MeshAddr(node[2]), ApAddr(node[2])}
                                  \cup (IF node[2] = 1 THEN {GatewayAddr} ELSE {})
      [] node[1] = "sta"   -> {StaAddr(node[2]), Sta2wAddr(node[2])}
      [] node[1] = "wired" -> {WiredAddr(node[2])}

(* addr2netdev *)
Owners(addr) == {n \in Nodes : addr \in AddrsOf(n)}

NetTypeOK ==
    /\ proto \in Protocols
    /\ generated \in BOOLEAN
    /\ chain \in BOOLEAN
    /\ ap \in [Stas -> Meshes]
    /\ at \in Nodes \cup {Nowhere}
    /\ status = "ready" => \A n \in Nodes : \A r \in routes[n] : r.via \in AddrsOf(n)

NetInit ==
    /\ RoutingInit
    /\ generated \in BOOLEAN
    /\ chain \in BOOLEAN
    /\ ap \in (IF chain THEN {[s \in Stas |-> MeshSize]} ELSE [Stas -> Meshes])
    /\ routes = [n \in Nodes |-> {}]
    /\ at = Nowhere
    /\ target = BackhaulAddr
    /\ path = {}

LoadRoutingConfig == RoutingNext /\ UNCHANGED netVars

(* An interface brings the route to its network with it. *)
Connected(node) ==
    {[target |-> a, len |-> 24, via |-> a, gateway |-> NoHost, metric |-> 0]
        : a \in AddrsOf(node)}

(* The table of each named host, with interfaces the host has. *)
Installable ==
    \A h \in DOMAIN tables :
        /\ Owners(h) # {}
        /\ \A i \in DOMAIN tables[h] : Owners(tables[h][i].via) = Owners(h)

(* A table for an address that no device has is a null pointer, and the    *)
(* index of an interface that the node does not have is -1.                *)
CreateInterfaces ==
    /\ status = "nodes"
    /\ IF Installable
       THEN /\ routes' = [n \in Nodes |-> Connected(n) \cup
                             UNION {ToSet(tables[h]) : h \in AddrsOf(n) \cap DOMAIN tables}]
            /\ Stop("interfaces")
       ELSE /\ Stop("crashed")
            /\ UNCHANGED routes
    /\ UNCHANGED <<routingVars, generated, chain, ap, at, target, path>>

-----------------------------------------------------------------------------
Matches(r, addr) ==
    \/ r.len = 0
    \/ r.len = 24 /\ r.target[1] = addr[1]
    \/ r.len = 32 /\ r.target = addr

(* Of the entries that match those with the longest prefix, and of these   *)
(* those with the least metric.                                            *)
Lookup(node, addr) ==
    {r \in routes[node] : Matches(r, addr)
        /\ \A q \in routes[node] : Matches(q, addr) =>
               q.len < r.len \/ (q.len = r.len /\ r.metric <= q.metric)}

(* The nodes a frame that leaves by the interface reaches.  The two ends   *)
(* of a point-to-point link take whatever the other sends; on the wireless *)
(* networks the next hop is addressed.                                     *)
Reached(node, via, hop) ==
    CASE via[1] = 1 -> {Backhaul, Mesh(1)} \ {node}
      [] via[1] = 2 -> {n \in Owners(hop) : n[1] = "mesh"} \ {node}
      [] via[1] = 3 -> {n \in Owners(hop) : \E s \in Stas :
                            {node, n} = {Sta(s), Mesh(ap[s])}}
      [] via[1] = 4 -> {Sta(node[2]), Wired(node[2])} \ {node}

(* Traffic the generated tables are made for: from anywhere to the         *)
(* backhaul, and from the backhaul and the mesh to the stations.  In a     *)
(* chain these are the ones on the wired side (10.1.4.x), where the        *)
(* applications run: a mesh node takes 10.1.3.0/24 for its own network.    *)
Served(node, addr) ==
    /\ generated
    /\ \/ addr = BackhaulAddr
       \/ /\ node[1] \in {"backhaul", "mesh"}
          /\ \E s \in Stas : addr \in StationAddrs(s)
          /\ chain => addr[1] = 4

Emit(node, addr) ==
    /\ status = "ready"
    /\ path = {}
    /\ Served(node, addr)
    /\ at' = node
    /\ target' = addr
    /\ path' = {node}
    /\ UNCHANGED <<readerVars, routingVars, generated, chain, ap, routes>>

Arrived == at \in Owners(target)

(* A packet that has been at the next node before is not followed further. *)
Forward ==
    /\ path # {}
    /\ ~Arrived
    /\ at # Nowhere
    /\ \E r \in Lookup(at, target) :
         \E n \in Reached(at, r.via, IF r.gateway = NoHost THEN target ELSE r.gateway) :
             /\ at' = IF n \in path THEN Nowhere ELSE n
             /\ path' = path \cup {n}
    /\ UNCHANGED <<readerVars, routingVars, generated, chain, ap, routes, target>>

Traffic ==
    \/ \E n \in Nodes, a \in UNION {AddrsOf(n) : n \in Nodes} : Emit(n, a)
    \/ Forward

-----------------------------------------------------------------------------
(* The host the route lines after line n are for. *)
HostBefore(lines, n) ==
    LET named == {i \in 1 .. n : lines[i].kind = "routes_on"}
    IN  IF named = {} THEN NoHost ELSE lines[Max(named)].host

(* Known protocols, addresses and metrics; every route follows a routes_on *)
(* line that names a node, and leaves by an interface of that node.        *)
RoutingUsable(lines) ==
    \A n \in DOMAIN lines :
        /\ lines[n].ntok >= 2
        /\ lines[n].kind = "proto" => lines[n].name \in Protocols
        /\ lines[n].kind = "routes_on" => lines[n].host # BadAddress
        /\ lines[n].kind = "route" =>
               /\ BadAddress \notin {lines[n].target, lines[n].via}
               /\ lines[n].ntok > 2 => lines[n].gateway # BadAddress
               /\ lines[n].ntok > 3 => lines[n].metric # BadMetric
               /\ Owners(HostBefore(lines, n)) # {}
               /\ Owners(lines[n].via) = Owners(HostBefore(lines, n))

(* The documented format has no more tokens: "<target> <via-local>         *)
(* [<gateway> [<metric>]]" (examples/conf/routing.txt).                    *)
NoSurplus(lines) ==
    \A n \in DOMAIN lines : lines[n].ntok <= IF lines[n].kind = "route" THEN 4 ELSE 2

(* Every packet between the backhaul or the mesh and a station arrives:    *)
(* the tables hold no loop, no node lacks a route, and none sends a packet *)
(* where nobody takes it (genroutingtables, routing.txt.php).              *)
PacketArrives == (path # {}) ~> Arrived
=============================================================================
