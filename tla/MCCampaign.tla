----------------------------- MODULE MCCampaign -----------------------------
(* Campaigns of three kinds: many descriptions, staged only once; many     *)
(* templates; and few runs whose make is interrupted at any step.          *)
EXTENDS StagedCampaign, TLC

Var(key, vals) == [key |-> key, vals |-> vals]
Cartesian(vs) == [type |-> "cartesian", vars |-> vs]
Ext(enums) == [type |-> "cartesian_ext", enums |-> enums]
Union(enums) == [type |-> "union", enums |-> enums]
Listing(kvs) == [type |-> "list", list |-> kvs]
Singleton(kv) == [type |-> "singleton", vars |-> kv]

NoParameters == <<>>

(* Descriptions about the keys of one group: "size" and "seed", or "rate"  *)
(* and "proto".                                                            *)
Firsts ==
    {Cartesian(<<>>), Cartesian(<<Var("size", <<"1", "2">>)>>),
     Cartesian(<<Var("size", <<>>), Var("seed", <<"1", "2">>)>>),
     Singleton(NoParameters), Singleton("seed" :> "1"),
     [type |-> "listed", list |-> <<"seed" :> "1">>]}

Seconds ==
    {Listing(<<>>), Listing(<<"rate" :> "2", "rate" :> "nan">>),
     Listing(<<"rate" :> "tcp", "rate" :> "5.5">>),
     Listing(<<"rate" :> "2", "rate" :> "2">>),
     Listing(<<"rate" :> "2", "proto" :> "tcp">>), Singleton("proto" :> "tcp udp"),
     Singleton("id" :> "1"),
     Union(<<Listing(<<"rate" :> "5.5">>), Singleton("rate" :> "1")>>),
     Union(<<Singleton("rate" :> "1"), [type |-> "listed", list |-> <<>>],
             Singleton("rate" :> "2")>>)}

Grid == Cartesian(<<Var("size", <<"1", "2">>), Var("seed", <<"1", "5.5">>)>>)

Documented ==   \* as README.md writes cartesian_ext
    [type |-> "cartesian_ext", enum1 |-> Singleton("seed" :> "1"),
     enum2 |-> Singleton("rate" :> "1")]

Descriptions ==
    Firsts \cup Seconds \cup {Grid, Ext(<<Grid, Singleton("rate" :> "2")>>), Documented, Ext(<<>>), Union(<<>>), Union(<<Documented>>)}
    \cup {Ext(<<a>>) : a \in Firsts}
    \cup {Ext(<<a, b>>) : a \in Firsts, b \in Seconds}
    \cup {Ext(<<b, a>>) : a \in Firsts, b \in Seconds}
    \cup {Union(<<a, b>>) : a \in Firsts, b \in Seconds}
    \cup {Ext(<<Singleton(NoParameters), Ext(<<a, Singleton(NoParameters)>>), b>>) :
             a \in Firsts, b \in Seconds}

-----------------------------------------------------------------------------
File(name, ext, needs, breaks) ==
    [name |-> name, ext |-> ext, needs |-> needs, breaks |-> breaks]

Args(ext, needs, breaks) == File("cmdline_args.txt", ext, needs, breaks)
Apps(ext, needs, breaks) == File("apps.txt", ext, needs, breaks)

Plain == <<Args("", {}, FALSE)>>

Templates ==
    {<<Args(".in", needs, FALSE), Apps(".php", {}, breaks), File("routing.txt", "", {}, FALSE)>> :
        needs \in {{"seed"}, {"proto"}}, breaks \in BOOLEAN}
    \cup {<<Args(".php", {}, TRUE), Apps(".in", {"rate"}, FALSE)>>}

Mixed == Union(<<Singleton(("seed" :> "1") @@ ("rate" :> "1")), Singleton("seed" :> "2")>>)
Two == Cartesian(<<Var("seed", <<"1", "2">>)>>)
Three == Cartesian(<<Var("seed", <<"1", "2", "5.5">>)>>)

Of(enum, template, pcap, bad, n) ==
    [enum |-> enum, template |-> template, pcap |-> pcap, bad |-> bad, patience |-> n]

MCCampaigns ==
    {Of(d, Plain, FALSE, {}, 0) : d \in Descriptions}
    \cup {Of(e, t, TRUE, {}, 1) : e \in {Mixed, Two}, t \in Templates}
    \cup {Of(e, Plain, pcap, {}, 2) : e \in {Two, Three}, pcap \in BOOLEAN}
    \cup {Of(Three, Plain, TRUE, {"seed" :> s}, 1) : s \in {"1", "2"}}
=============================================================================
