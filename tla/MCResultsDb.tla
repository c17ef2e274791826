----------------------------- MODULE MCResultsDb ----------------------------
(* Traffic of two kinds: numbered packets in every order, with copies and  *)
(* gaps; and packets that come at all sorts of distances in time.          *)
EXTENDS ResultsDb

CONSTANTS Seqnos, Gaps

Numbered(seqnos, n) ==
    {[i \in 1 .. n |-> [seqno |-> s[i], gap |-> 1, size |-> 1]] : s \in [1 .. n -> seqnos]}

Timed(n) ==
    {[i \in 1 .. n |-> [seqno |-> IF i % 2 = 0 THEN i \div 2 ELSE NoSeqno,
                        gap |-> g[i], size |-> 5 * i]] : g \in [1 .. n -> Gaps]}

MCTraffic == Numbered(Seqnos, 5) \cup Timed(5)
=============================================================================
