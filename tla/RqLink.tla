------------------------------- MODULE RqLink -------------------------------
(***************************************************************************)
(* The UDP path from the encoder's Tx socket to the decoder's Rx socket:   *)
(* an ns-3 UDP socket over the simulated mesh.  It is not code of this     *)
(* repository; what it may do is what the repository's own statistics      *)
(* (sim/app_rx_cb.cc) look for: packets are lost, reordered and            *)
(* duplicated.  Every packet has its own seqno, so the packets in flight   *)
(* form a set.                                                             *)
(***************************************************************************)
EXTENDS RqHeader, FiniteSets

CONSTANTS
    MaxInFlight,  \* room of the Tx socket, in packets
    Reorder,      \* TRUE: packets overtake one another
    LossBudget,   \* losses allowed among the N packets of one block
    DupBudget,    \* duplications allowed in a behaviour
    StopAllowed   \* TRUE: applications have a stop time before the simulation's end

ASSUME LinkAssumption ==
    /\ MaxInFlight \in Nat \ {0}
    /\ Reorder \in BOOLEAN
    /\ LossBudget \in Nat
    /\ DupBudget \in Nat
    /\ StopAllowed \in BOOLEAN

VARIABLES
    link,    \* the packets in flight
    lost,    \* history: seqnos of the packets the link dropped
    dups     \* packets duplicated so far

linkVars == <<link, lost, dups>>

LinkTypeOK ==
    /\ link \in SUBSET Packet
    /\ lost \in SUBSET Nat
    /\ dups \in 0 .. DupBudget

LinkInit ==
    /\ link = {}
    /\ lost = {}
    /\ dups = 0

BlockOf(n) == n \div N

(* GetTxAvailable() covers a packet: the symbol, the 20 byte header and one *)
(* counter per stream.                                                      *)
TxAvailable == Cardinality(link) < MaxInFlight

Send(p) ==
    /\ link' = link \cup {p}
    /\ UNCHANGED <<lost, dups>>

Lose(p) ==
    /\ Cardinality({n \in lost : BlockOf(n) = BlockOf(p.seqno)}) < LossBudget
    /\ link' = link \ {p}
    /\ lost' = lost \cup {p.seqno}
    /\ UNCHANGED dups

(* p is the next packet to come out of the link. *)
Arriving(p) ==
    /\ p \in link
    /\ Reorder \/ \A q \in link : p.seqno <= q.seqno

Arrive(p) ==
    /\ link' = link \ {p}
    /\ UNCHANGED <<lost, dups>>

(* The packet arrives and another copy of it is still under way. *)
ArriveAndStay(p) ==
    /\ dups < DupBudget
    /\ dups' = dups + 1
    /\ UNCHANGED <<link, lost>>
=============================================================================
