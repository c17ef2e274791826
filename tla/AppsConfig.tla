----------------------------- MODULE AppsConfig -----------------------------
(***************************************************************************)
(* sim/apps_config.cc: reads apps.txt line by line into the lists of       *)
(* applications and of connect statements.                                 *)
(*                                                                         *)
(* A line is a record: its kind, and the tokens the kind calls for.  An    *)
(* application line that the parser refuses (too few tokens, a bad         *)
(* address, an unknown type) has the type "invalid".                       *)
(***************************************************************************)
EXTENDS ConfigReader, ObjectConfig

CONSTANT Keys      \* attribute names

ASSUME KeysAssumption == IsFiniteSet(Keys) /\ Keys \subseteq STRING

(* A line of apps.txt; an address is a pair of numbers. *)
AppsFileLine ==
    [kind : {"defaults"}, kvs : Seq(KeyValue)]
        \cup [kind : {"app"}, tag : STRING, type : STRING, host : Nat \X Nat, kvs : Seq(KeyValue)]
        \cup [kind : {"connect"}, tokens : Seq(STRING)]

Separator == ":"
NoValue == ""                           \* as in "Foo="

VARIABLES
    defaults,  \* default_attribs, NoValue for a key that is not there
    apps,      \* target->app
    conns      \* target->conn

appsVars == <<defaults, apps, conns>>

AppsConfigTypeOK ==
    /\ defaults \in [Keys -> Text]
    /\ \A i \in DOMAIN apps : apps[i].type # "invalid"
    /\ \A i \in DOMAIN conns : conns[i].senders # <<>> /\ conns[i].receivers # <<>>

AppsConfigInit ==
    /\ defaults = [k \in Keys |-> NoValue]
    /\ apps = <<>>
    /\ conns = <<>>

-----------------------------------------------------------------------------
(* The line of apps.txt read next. *)
AppsLine == config["apps"][line]

(* An empty value is stored like any other and means that the key is gone. *)
SetDefault(d, kv) == [d EXCEPT ![kv.key] = kv.val]

ReadDefaults ==
    /\ AtLine("apps") /\ AppsLine.kind = "defaults"
    /\ IF WellFormed(AppsLine.kvs)
       THEN /\ defaults' = FoldLeft(SetDefault, defaults, AppsLine.kvs)
            /\ NextLine
            /\ UNCHANGED <<apps, conns>>
       ELSE Stop("failed") /\ UNCHANGED appsVars

(* The senders and receivers that the tokens after "connect" name. *)
ParseConnect(tokens) ==
    LET sep == IF Len(tokens) = 2 THEN 0 ELSE
                   CHOOSE i \in DOMAIN tokens :
                       /\ tokens[i] = Separator
                       /\ \A j \in 1 .. i - 1 : tokens[j] # Separator
    IN  IF sep = 0
        THEN [senders |-> <<tokens[1]>>, receivers |-> <<tokens[2]>>]
        ELSE [senders |-> SubSeq(tokens, 1, sep - 1),
              receivers |-> SubSeq(tokens, sep + 1, Len(tokens))]

(* Two tokens are a sender and a receiver whatever they are; more need a   *)
(* separator with something on both sides.                                 *)
Connectable(tokens) ==
    \/ Len(tokens) = 2
    \/ /\ Len(tokens) > 2
       /\ \E i \in DOMAIN tokens : tokens[i] = Separator
       /\ ParseConnect(tokens).senders # <<>>
       /\ ParseConnect(tokens).receivers # <<>>

ReadConnect ==
    /\ AtLine("apps") /\ AppsLine.kind = "connect"
    /\ IF Connectable(AppsLine.tokens)
       THEN /\ conns' = Append(conns, ParseConnect(AppsLine.tokens))
            /\ NextLine
            /\ UNCHANGED <<defaults, apps>>
       ELSE Stop("failed") /\ UNCHANGED appsVars

Assigns(kvs, k) == \E i \in DOMAIN kvs : kvs[i].key = k

(* Faulty variant of WithDefaults: a default for every key. *)
WithDefaultsAlways(kvs) ==
    kvs \o SetToSeq({[key |-> k, val |-> defaults[k]] :
                        k \in {l \in Keys : defaults[l] # NoValue}})

(* The attribute list of an application: the assignments of its line and   *)
(* the defaults for keys these leave alone, in the order of the hash map.  *)
WithDefaults(kvs) ==
    kvs \o SetToSeq({[key |-> k, val |-> defaults[k]] :
                        k \in {l \in Keys : defaults[l] # NoValue /\ ~Assigns(kvs, l)}})

ReadApp ==
    /\ AtLine("apps") /\ AppsLine.kind = "app"
    /\ IF AppsLine.type # "invalid" /\ WellFormed(AppsLine.kvs)
       THEN /\ apps' = Append(apps, [AppsLine EXCEPT !.kvs = WithDefaults(@)])
            /\ NextLine
            /\ UNCHANGED <<defaults, conns>>
       ELSE Stop("failed") /\ UNCHANGED appsVars

EndOfApps == AtEnd("apps") /\ NextFile /\ UNCHANGED appsVars

AppsConfigNext == ReadDefaults \/ ReadConnect \/ ReadApp \/ EndOfApps

-----------------------------------------------------------------------------
(* The value setAppAttribs leaves in attribute k: assignments are applied  *)
(* in the order of the list.                                               *)
Effective(kvs, k) ==
    IF Assigns(kvs, k)
    THEN kvs[CHOOSE i \in DOMAIN kvs :
                 kvs[i].key = k /\ \A j \in i + 1 .. Len(kvs) : kvs[j].key # k].val
    ELSE NoValue

(* The value the last of the defaults lines before line n that assign k    *)
(* leaves in it.                                                           *)
DefaultAt(lines, n, k) ==
    LET giving == {i \in 1 .. n - 1 : lines[i].kind = "defaults" /\ Assigns(lines[i].kvs, k)}
    IN  IF giving = {} THEN NoValue ELSE Effective(lines[Max(giving)].kvs, k)

AppLines == {i \in 1 .. LinesRead("apps") : config["apps"][i].kind = "app"}

(* An attribute has the value its application's line gives it, and         *)
(* otherwise the last one the defaults lines before it gave; an empty one  *)
(* removes the default ("attribute values that are applied to all          *)
(* subsequent apps").                                                      *)
AttributesAsWritten ==
    \A n \in AppLines : \A k \in Keys :
        Effective(apps[Nth("apps", "app", n)].kvs, k) =
            IF Assigns(config["apps"][n].kvs, k) THEN Effective(config["apps"][n].kvs, k)
            ELSE DefaultAt(config["apps"], n, k)

(* Two tags alone are a sender and a receiver; otherwise the tags are the  *)
(* senders up to the first separator and the receivers after it.           *)
JoinsAsWritten(c, tokens) ==
    IF Len(tokens) = 2
    THEN c = [senders |-> <<tokens[1]>>, receivers |-> <<tokens[2]>>]
    ELSE /\ c.senders \o <<Separator>> \o c.receivers = tokens
         /\ Separator \notin ToSet(c.senders)

(* A file that loads has one application and one connect statement for     *)
(* each such line, in the order of the file and with the tags the line     *)
(* names: none is lost or duplicated.                                      *)
NothingLost ==
    status = "loaded" =>
        LET lines == config["apps"]
        IN  /\ Len(apps) = Nth("apps", "app", Len(lines))
            /\ Len(conns) = Nth("apps", "connect", Len(lines))
            /\ \A n \in DOMAIN lines :
                   /\ lines[n].kind = "app" =>
                          LET app == apps[Nth("apps", "app", n)]
                          IN  <<app.tag, app.type, app.host>>
                                  = <<lines[n].tag, lines[n].type, lines[n].host>>
                   /\ lines[n].kind = "connect" =>
                          JoinsAsWritten(conns[Nth("apps", "connect", n)], lines[n].tokens)
=============================================================================
