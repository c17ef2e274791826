--------------------------- MODULE RoutingConfig ----------------------------
(***************************************************************************)
(* sim/routing_config.cc: reads routing.txt into the static routing        *)
(* tables, one for every host named by a routes_on line.                   *)
(*                                                                         *)
(* An address 10.1.n.h is the pair <<n, h>>; a target is an address and    *)
(* the length of its network part.  A line is a record that carries its    *)
(* number of tokens besides what they say.                                 *)
(***************************************************************************)
EXTENDS ConfigReader

NoHost == <<0, 0>>      \* routes_on = 0, and the gateway of a direct route
BadAddress == <<-1, -1>>   \* a token that is no address
BadMetric == -1            \* a token of which stoi can make no number
Address == Int \X Int

RoutingFileLine ==
    [kind : {"proto"}, ntok : Nat, name : STRING]
        \cup [kind : {"routes_on"}, ntok : Nat, host : Address]
        \cup [kind : {"route"}, ntok : Nat, target : Address, len : Nat,
               via : Address, gateway : Address, metric : Nat \cup {BadMetric}]

VARIABLES
    routesOn,  \* routes_on
    proto,     \* cfg->proto
    tables     \* cfg->tables: from hosts to sequences of entries

routingVars == <<routesOn, proto, tables>>

RoutingInit ==
    /\ routesOn = NoHost
    /\ proto = "olsr"
    /\ tables = <<>>

(* The line of routing.txt read next. *)
RoutingLine == config["routing"][line]

Protocols == {"olsr", "aodv", "none"}

Refuse(outcome) == Stop(outcome) /\ UNCHANGED routingVars

(* Where a second token is missing the parser reads past the end of the    *)
(* token list: whatever is there is refused, or the program dies.          *)
ReadPastEnd == Refuse("failed") \/ Refuse("crashed")

ReadProto ==
    /\ AtLine("routing") /\ RoutingLine.kind = "proto"
    /\ IF RoutingLine.ntok < 2 THEN ReadPastEnd
       ELSE IF RoutingLine.name \notin Protocols THEN Refuse("failed")
       ELSE proto' = RoutingLine.name /\ NextLine /\ UNCHANGED <<routesOn, tables>>

ReadRoutesOn ==
    /\ AtLine("routing") /\ RoutingLine.kind = "routes_on"
    /\ IF RoutingLine.ntok < 2 THEN ReadPastEnd
       ELSE IF RoutingLine.host = BadAddress THEN Refuse("failed")
       ELSE routesOn' = RoutingLine.host /\ NextLine /\ UNCHANGED <<proto, tables>>

(* "tokens.size() < 2 && tokens.size() > 4": never true, so that a line of *)
(* five tokens passes.                                                     *)
WrongCount(n) == n < 2 /\ n > 4

TableOn(host) == IF host \in DOMAIN tables THEN tables[host] ELSE <<>>

(* The entry a route line makes. *)
Entry(l) ==
    [target |-> l.target, len |-> l.len, via |-> l.via,
     gateway |-> IF l.ntok >= 3 THEN l.gateway ELSE NoHost,
     metric |-> IF l.ntok >= 4 THEN l.metric ELSE 0]

(* An exception of stoi is caught nowhere. *)
ReadRoute ==
    /\ AtLine("routing") /\ RoutingLine.kind = "route"
    /\ LET l == RoutingLine
           ent == Entry(l)
       IN  IF WrongCount(l.ntok) \/ l.target = BadAddress THEN Refuse("failed")
           ELSE IF l.ntok < 2 THEN ReadPastEnd
           ELSE IF BadAddress \in {l.via, ent.gateway} THEN Refuse("failed")
           ELSE IF ent.metric = BadMetric THEN Refuse("crashed")
           ELSE /\ tables' = Put(tables, routesOn, Append(TableOn(routesOn), ent))
                /\ NextLine
                /\ UNCHANGED <<routesOn, proto>>

EndOfRouting == AtEnd("routing") /\ NextFile /\ UNCHANGED routingVars

RoutingNext == ReadProto \/ ReadRoutesOn \/ ReadRoute \/ EndOfRouting
=============================================================================
