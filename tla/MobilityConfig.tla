--------------------------- MODULE MobilityConfig ---------------------------
(***************************************************************************)
(* sim/mobility_config.cc: reads mesh_mobility.txt and sta_mobility.txt,   *)
(* the type of a position allocator and a position on each further line.   *)
(*                                                                         *)
(* A line has a type and attributes, or it is a position: the number of    *)
(* its tokens, and whether they are numbers.                               *)
(***************************************************************************)
EXTENDS ConfigReader, ObjectConfig

MobilityFiles == {"mesh_mobility", "sta_mobility"}
ListAllocator == "ns3::ListPositionAllocator"

MobilityFileLine ==
    [kind : {"allocator"}, type : STRING, attrs : Seq(KeyValue)]
        \cup [kind : {"position"}, ntok : Nat, numbers : BOOLEAN]

VARIABLE mobility    \* by file: the type of pos_alloc, and its positions

MobilityTypeOK ==
    \A f \in MobilityFiles :
        mobility[f].type \in DOMAIN Known["allocator"] \cup {NoType} /\ mobility[f].n \in Nat

MobilityInit == mobility = [f \in MobilityFiles |-> [type |-> NoType, n |-> 0]]

TokensOf(l) == IF l.kind = "allocator" THEN 1 + Len(l.attrs) ELSE l.ntok

(* The first line, whatever it holds, begins with the type. *)
Allocator(l) ==
    IF l.kind # "allocator" \/ l.type \notin DOMAIN Known["allocator"] THEN "crashed"
    ELSE SetAttributes("allocator", l.type, l.attrs)

(* Faulty variants of Position: two tokens only; any number of them. *)
PositionLong(type, l) ==
    IF TokensOf(l) < 2 THEN "failed"
    ELSE IF l.kind = "position" /\ l.numbers /\ type = ListAllocator THEN "ok"
    ELSE "crashed"

PositionFlat(type, l) ==
    IF TokensOf(l) # 2 THEN "failed"
    ELSE IF l.kind = "position" /\ l.numbers /\ type = ListAllocator THEN "ok"
    ELSE "crashed"

(* stod throws what is no number; DynamicCast yields a null pointer when   *)
(* the allocator is of another type.                                       *)
Position(type, l) ==
    IF TokensOf(l) \notin {2, 3} THEN "failed"
    ELSE IF l.kind = "position" /\ l.numbers /\ type = ListAllocator THEN "ok"
    ELSE "crashed"

ReadAllocator(f) ==
    /\ AtLine(f)
    /\ line = 1
    /\ LET l == config[f][line]
       IN  IF Allocator(l) = "ok"
           THEN mobility' = [mobility EXCEPT ![f].type = l.type] /\ NextLine
           ELSE Stop(Allocator(l)) /\ UNCHANGED mobility

ReadPosition(f) ==
    /\ AtLine(f)
    /\ line > 1
    /\ LET outcome == Position(mobility[f].type, config[f][line])
       IN  IF outcome = "ok"
           THEN mobility' = [mobility EXCEPT ![f].n = @ + 1] /\ NextLine
           ELSE Stop(outcome) /\ UNCHANGED mobility

EndOfMobility(f) ==
    /\ AtEnd(f)
    /\ IF line = 1 THEN Stop("failed") ELSE NextFile
    /\ UNCHANGED mobility

MobilityNext ==
    \E f \in MobilityFiles : ReadAllocator(f) \/ ReadPosition(f) \/ EndOfMobility(f)

-----------------------------------------------------------------------------
(* A file that names an allocator, with attributes it has, and gives       *)
(* positions to one that takes them.                                       *)
MobilitySound(lines) ==
    /\ lines # <<>>
    /\ Head(lines).kind = "allocator"
    /\ \A i \in DOMAIN Head(lines).attrs :
           Has("allocator", Head(lines).type, Head(lines).attrs[i])
    /\ Head(lines).type \in DOMAIN Known["allocator"]
    /\ \A l \in ToSet(Tail(lines)) : l.kind = "position" /\ l.ntok \in {2, 3} /\ l.numbers
    /\ Len(lines) > 1 => Head(lines).type = ListAllocator
=============================================================================
