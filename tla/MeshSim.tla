------------------------------ MODULE MeshSim -------------------------------
(***************************************************************************)
(* sim/main.cc and sim/mesh_sim.cc: from the command line and the six      *)
(* configuration files to a network with applications on it.               *)
(***************************************************************************)
EXTENDS AppsManager, MeshNetwork, MobilityConfig, WifiConfig

CONSTANTS
    Settings   \* what the program may be started with: the command line, the
               \* network's shape and the configuration files, one of which,
               \* named by "file", goes on with "count" of some "lines"

(* Applications are put on hosts that the set-up gave an address. *)
ASSUME HostsAssumption == Hosts = UNION {AddrsOf(n) : n \in Nodes}

(* What a line of a file may be. *)
FileLine(f) ==
    CASE f \in MobilityFiles -> MobilityFileLine
      [] f = "apps"          -> AppsFileLine
      [] f = "routing"       -> RoutingFileLine
      [] f \in WifiFiles     -> WifiFileLine

(* The directories given, whether the one for the output exists, enablePcap. *)
CommandLine == [dirs : Nat, outDir : BOOLEAN, pcap : BOOLEAN]

(* Each of the files that are there holds any lines of the kinds it has. *)
ASSUME SettingsAssumption == \A s \in Settings :
    /\ s.args \in CommandLine
    /\ s.count \in Nat
    /\ DOMAIN s.config \subseteq ToSet(FileNames)
    /\ \A f \in DOMAIN s.config : s.config[f] \in Seq(FileLine(f))
    /\ s.lines \subseteq FileLine(s.file)

VARIABLES
    args,      \* the command line
    captures   \* the pcap files enabled: name and device

vars == <<readerVars, appsVars, mgrVars, routingVars, netVars, mobility, wifi, args, captures>>

TypeOK ==
    /\ ReaderTypeOK
    /\ MgrTypeOK
    /\ NetTypeOK
    /\ MobilityTypeOK
    /\ status \in {"started", "loading", "loaded", "channels", "nodes", "interfaces",
                   "connecting", "installed", "ready", "failed", "crashed"}

Init ==
    /\ \E s \in Settings :
           /\ generated = s.generated
           /\ chain = s.chain
           /\ ap = s.ap
           /\ args = s.args
           /\ \E further \in [1 .. s.count -> s.lines] :
                  config = [s.config EXCEPT ![s.file] = @ \o further]
    /\ reading = 1
    /\ line = 1
    /\ status = "started"
    /\ MgrInit
    /\ NetInit
    /\ MobilityInit
    /\ WifiInit
    /\ captures = {}

-----------------------------------------------------------------------------
(* At most a directory for the configuration and one, which must exist,    *)
(* for the output.                                                         *)
ProcessCommandLineArgs ==
    /\ status = "started"
    /\ Stop(IF args.dirs > 2 \/ ~args.outDir THEN "failed" ELSE "loading")
    /\ UNCHANGED <<appsVars, mgrVars, routingVars, netVars, mobility, wifi, args, captures>>

LoadConfig ==
    /\ \/ OpenFails /\ UNCHANGED <<appsVars, mgrVars, routingVars, netVars, mobility, wifi>>
       \/ MobilityNext /\ UNCHANGED <<appsVars, mgrVars, routingVars, netVars, wifi>>
       \/ LoadAppsConfig /\ UNCHANGED <<routingVars, netVars, mobility, wifi>>
       \/ LoadRoutingConfig /\ UNCHANGED <<appsVars, mgrVars, mobility, wifi>>
       \/ WifiNext /\ UNCHANGED <<appsVars, mgrVars, routingVars, netVars, mobility>>
    /\ UNCHANGED <<args, captures>>

(* What a step of the set-up comes to. *)
Proceed(from, outcome, to) ==
    /\ status = from
    /\ Stop(IF outcome = "ok" THEN to ELSE outcome)
    /\ UNCHANGED <<appsVars, mgrVars, routingVars, netVars, mobility, wifi, args, captures>>

CreateChannels ==
    Proceed("loaded",
            FirstProblem(<<ConfigureChannel(wifi["mesh_wifi"]), ConfigureChannel(wifi["apsta_wifi"]),
                           ConfigureWifi(wifi["apsta_wifi"]), ConfigurePhy(wifi["apsta_wifi"])>>),
            "channels")

(* CreateMesh, CreateStas, CreateBackhaul, CreateWiredStas *)
CreateNodes ==
    Proceed("channels",
            FirstProblem(<<ConfigureWifi(wifi["mesh_wifi"]), ConfigurePhy(wifi["mesh_wifi"])>>),
            "nodes")

CreateNetwork ==
    CreateInterfaces /\ UNCHANGED <<appsVars, mgrVars, mobility, wifi, args, captures>>

CreateApps ==
    InstallApps /\ UNCHANGED <<routingVars, netVars, mobility, wifi, args, captures>>

(* The prefix of a capture file's name, by the network and the node. *)
CapturePrefix(node, addr) ==
    CASE node[1] = "mesh" /\ addr[1] = 2 -> "mesh"
      [] node[1] = "mesh" /\ addr[1] = 3 -> "ap"
      [] node[1] = "sta" /\ addr[1] = 3  -> "sta"
      [] node[1] = "sta" /\ addr[1] = 4  -> "sta2w"
      [] node[1] = "wired"               -> "wiredsta"
      [] OTHER                           -> "backhaul"

PreparePcap ==
    /\ status = "installed"
    /\ Stop("ready")
    /\ captures' = IF args.pcap
                   THEN UNION {{[prefix |-> CapturePrefix(n, a), addr |-> a, node |-> n]
                                   : a \in AddrsOf(n)} : n \in Nodes}
                   ELSE {}
    /\ UNCHANGED <<appsVars, mgrVars, routingVars, netVars, mobility, wifi, args>>

Run == Traffic /\ UNCHANGED <<appsVars, mgrVars, mobility, wifi, args, captures>>

Next ==
    \/ ProcessCommandLineArgs
    \/ LoadConfig
    \/ CreateChannels
    \/ CreateNodes
    \/ CreateNetwork
    \/ CreateApps
    \/ PreparePcap
    \/ Run

Spec == Init /\ [][Next]_vars

(* The program proceeds as long as it can, and the network forwards a      *)
(* packet as long as a route takes it further.                             *)
FairSpec == Spec /\ WF_vars(Next /\ path = path') /\ WF_vars(Run /\ path # {})

-----------------------------------------------------------------------------
(* What a simulation can be made of: all six files, each with nothing in   *)
(* it that the program or ns-3 cannot follow.                              *)
Usable ==
    /\ args.dirs <= 2 /\ args.outDir
    /\ DOMAIN config = ToSet(FileNames)
    /\ \A f \in MobilityFiles : MobilitySound(config[f])
    /\ AppsSound(config["apps"])
    /\ RoutingUsable(config["routing"])
    /\ \A f \in WifiFiles : WifiSound(config[f])

(* What the documentation asks for: nor is there a token too many.         *)
Sound == Usable /\ NoSurplus(config["routing"])

(* What the program holds of apps.txt and of the wifi files is well formed *)
(* and what they say: the attributes and their defaults, every application *)
(* and the tags of every connection, the objects of both wifi networks     *)
(* (loadAppsConfig, loadWifiConfig).                                       *)
ConfigAsWritten == TypeOK /\ AttributesAsWritten /\ NothingLost /\ WifiAsWritten

(* No two devices share an address: on one network, where the prefix of    *)
(* the capture file's name is the same, they would share the file, and     *)
(* anywhere the routes and the applications of that address.               *)
CapturesDistinct == \A c, d \in captures : c.addr = d.addr => c = d

(* No two users share a port, a trace file or a capture file.              *)
NothingShared == PortsDistinct /\ TracesDistinct /\ CapturesDistinct

(* What cannot be followed, in whatever file it is, is refused, or the     *)
(* program ends by itself: no simulation runs on it.  The surplus tokens   *)
(* of a line of routing.txt are the one exception to what the files should *)
(* look like: the check on their number never refuses a line, and they are *)
(* left out (loadRoutingConfig).                                           *)
OnlyUsableRuns == status = "ready" => Usable

(* A sound set-up is never refused: it runs in the end.                    *)
SoundRuns == Sound ~> status = "ready"
=============================================================================
