------------------------------ MODULE RqHeader ------------------------------
(***************************************************************************)
(* The RaptorQ parameters shared by encoder and decoder, the packet header *)
(* of ns3_apps/rq-header.cc, and the arithmetic by which the decoder takes *)
(* a sequence number apart.                                                *)
(*                                                                         *)
(* K source symbols of T bytes make a source block, N >= K symbols are     *)
(* sent for it.  Up to NSlots TCP streams share the symbols of a block.    *)
(***************************************************************************)
EXTENDS Integers

CONSTANTS
    K,       \* Kval: source symbols per source block
    N,       \* Nval: symbols sent per source block
    T,       \* Tval: bytes per symbol
    NSlots,  \* streams multiplexed (RxAddr0.. of the encoder, TxAddr0.. of the decoder)
    IntMod   \* 2^32 in the code: the modulus of the decoder's cast to int

(* The attribute checkers demand K, N, T >= 1.  N >= K is demanded nowhere. *)
ASSUME ParamAssumption ==
    /\ K \in Nat \ {0}
    /\ N \in Nat \ {0}
    /\ T \in Nat \ {0}
    /\ NSlots \in 1 .. 8
    /\ IntMod \in Nat \ {0}

Slots == 0 .. NSlots - 1
NoStream == -1
NoSymbols == [s \in Slots |-> 0]

Packet == [seqno : Nat, streamid : Slots \cup {NoStream}, iseq : [Slots -> Nat]]

(* The four-argument constructor: it copies the stream counters. *)
Header(seqno, streamid, counts) ==
    [seqno |-> seqno, streamid |-> streamid, iseq |-> counts]

(* (int) of an unsigned 64 bit number: two's complement of its low bits. *)
ToInt(x) == LET low == x % IntMod
            IN  IF low < IntMod - low THEN low ELSE low - IntMod

(* C++ division and remainder, which truncate towards zero. *)
CDiv(a, d) == IF a >= 0 THEN a \div d ELSE -((-a) \div d)
CMod(a, d) == IF a >= 0 THEN a % d ELSE -((-a) % d)

SbidOf(p) == CDiv(ToInt(p.seqno), N)
EsiOf(p)  == CMod(ToInt(p.seqno), N)
=============================================================================
