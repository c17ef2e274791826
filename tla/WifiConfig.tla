----------------------------- MODULE WifiConfig -----------------------------
(***************************************************************************)
(* sim/wifi_config.cc and the configure functions of sim/ns3_utils.cc, .h: *)
(* reads mesh_wifi.txt and apsta_wifi.txt and hands them to ns-3's wifi    *)
(* helpers.                                                                *)
(*                                                                         *)
(* A line has its directive as kind ("delay" and "add_loss" stand for the  *)
(* channel statements), the number of its tokens, and the type and the     *)
(* attributes that follow the directive.                                   *)
(***************************************************************************)
EXTENDS ConfigReader, ObjectConfig

WifiFiles == {"mesh_wifi", "apsta_wifi"}
WifiFileLine == [kind : STRING, ntok : Nat, type : Text, attrs : Seq(KeyValue)]

Standards == {"a", "b", "g", "n2.4", "n5", "ac", "ax2.4", "ax5", "802.11a", "802.11b",
              "802.11g", "802.11n2.4", "802.11n5", "802.11ac", "802.11ax2.4", "802.11ax5"}

VARIABLE wifi        \* wifiConfig, by file

WifiInit ==
    wifi = [f \in WifiFiles |->
               [standard |-> NoType, manager |-> NoObject, phy |-> <<>>,
                default |-> TRUE, delay |-> NoObject, losses |-> <<>>]]

(* Every add_loss line describes a model of its own. *)
WithLoss(cfg, l) ==
    [cfg EXCEPT !.losses = Append(@, ReadObject(NoObject, l.type, l.attrs)),
                !.default = FALSE]

(* What is kept of a line. *)
Take(cfg, l) ==
    CASE l.kind = "standard"    -> [cfg EXCEPT !.standard = l.type]
      [] l.kind = "ratecontrol" -> [cfg EXCEPT !.manager = ReadObject(@, l.type, l.attrs)]
      [] l.kind = "phy_attribs" -> [cfg EXCEPT !.phy = @ \o l.attrs]
      [] l.kind = "delay"       -> [cfg EXCEPT !.delay = ReadObject(@, l.type, l.attrs),
                                               !.default = FALSE]
      [] l.kind = "add_loss"    -> WithLoss(cfg, l)

(* Whether loadWifiConfig accepts the line: attribute specs pass unread. *)
Acceptable(l) ==
    \/ l.kind = "standard" /\ l.ntok = 2
    \/ l.kind \in {"ratecontrol", "delay", "add_loss"} /\ l.type # NoType
    \/ l.kind = "phy_attribs"

ReadWifi(f) ==
    /\ AtLine(f)
    /\ IF Acceptable(config[f][line])
       THEN wifi' = [wifi EXCEPT ![f] = Take(@, config[f][line])] /\ NextLine
       ELSE Stop("failed") /\ UNCHANGED wifi

EndOfWifi(f) == AtEnd(f) /\ NextFile /\ UNCHANGED wifi

WifiNext == \E f \in WifiFiles : ReadWifi(f) \/ EndOfWifi(f)

-----------------------------------------------------------------------------
(* configureWifiChannel: the delay model is left to a fixed one if no line *)
(* names it.                                                               *)
ConfigureChannel(cfg) ==
    IF cfg.default THEN "ok"
    ELSE FirstProblem(
             <<IF cfg.delay.type = NoType THEN "ok" ELSE SetObject("delay", cfg.delay)>>
             \o [i \in DOMAIN cfg.losses |->
                    IF cfg.losses[i].type = "@matrix" THEN "failed"
                    ELSE SetObject("loss", cfg.losses[i])])

(* configureWifiStdAndRateControl *)
ConfigureWifi(cfg) ==
    IF cfg.standard \notin Standards THEN "failed" ELSE SetObject("manager", cfg.manager)

(* configureWifiPhy *)
ConfigurePhy(cfg) == SetAttributes("phy", "ns3::YansWifiPhy", cfg.phy)

-----------------------------------------------------------------------------
(* Lines that describe one object: the last of them names its type, and    *)
(* the attributes that any of them sets must be attributes of that type,   *)
(* no more than MaxAttributes of them.                                     *)
ObjectSound(role, lines, about) ==
    about # {} =>
        LET type == lines[Max(about)].type
        IN  /\ type \in DOMAIN Known[role]
            /\ \A n \in about : lines[n].type # NoType
            /\ \A n \in about : \A i \in DOMAIN lines[n].attrs : Has(role, type, lines[n].attrs[i])
            /\ Cardinality(Places(lines, about)) <= MaxAttributes

(* A file with a standard and a rate control that exist, and a description *)
(* of every other object that ns-3 can follow.                             *)
WifiSound(lines) ==
    /\ \A l \in ToSet(lines) : Acceptable(l)
    /\ OfKind(lines, "standard") # {}
    /\ lines[Max(OfKind(lines, "standard"))].type \in Standards
    /\ OfKind(lines, "ratecontrol") # {}
    /\ ObjectSound("manager", lines, OfKind(lines, "ratecontrol"))
    /\ ObjectSound("delay", lines, OfKind(lines, "delay"))
    /\ \A n \in OfKind(lines, "add_loss") : ObjectSound("loss", lines, {n})
    /\ \A n \in OfKind(lines, "phy_attribs") : \A i \in DOMAIN lines[n].attrs :
           Has("phy", "ns3::YansWifiPhy", lines[n].attrs[i])

(* The type that the last of the lines names. *)
LastType(lines, about) == IF about = {} THEN NoType ELSE lines[Max(about)].type

(* The assignments of the lines, one after the other and no other. *)
InOrder(attrs, lines, about) ==
    /\ Len(attrs) = Cardinality(Places(lines, about))
    /\ \A n \in about : \A j \in DOMAIN lines[n].attrs :
           attrs[Cardinality(Places(lines, {m \in about : m < n})) + j] = lines[n].attrs[j]

DescribedBy(obj, lines, about) ==
    obj.type = LastType(lines, about) /\ InOrder(obj.attrs, lines, about)

(* Each wifi network is what its file says: the standard and the type of   *)
(* the rate control and of the delay model are those named last, with the  *)
(* attributes of all their lines, as for the PHY, in order.  The channel   *)
(* is ns-3's default one exactly if no line is about it, and otherwise has *)
(* the loss models of the add_loss lines, each with its own attributes, in *)
(* the order in which the file stacks them.                                *)
WifiAsWritten ==
    status = "loaded" => \A f \in WifiFiles :
        LET lines == config[f]
        IN  /\ wifi[f].standard = LastType(lines, OfKind(lines, "standard"))
            /\ DescribedBy(wifi[f].manager, lines, OfKind(lines, "ratecontrol"))
            /\ DescribedBy(wifi[f].delay, lines, OfKind(lines, "delay"))
            /\ InOrder(wifi[f].phy, lines, OfKind(lines, "phy_attribs"))
            /\ wifi[f].default <=>
                   \A n \in DOMAIN lines : lines[n].kind \notin {"delay", "add_loss"}
            /\ Len(wifi[f].losses) = Nth(f, "add_loss", Len(lines))
            /\ \A n \in DOMAIN lines : lines[n].kind = "add_loss" =>
                   wifi[f].losses[Nth(f, "add_loss", n)]
                       = [type |-> lines[n].type, attrs |-> lines[n].attrs]
=============================================================================
