---------------------------- MODULE ByteStreams -----------------------------
(***************************************************************************)
(* What the transports of the simulator promise to the applications at     *)
(* their ends: streams of bytes, taken at one end and delivered at the     *)
(* other, never taken back and never more delivered than was taken.        *)
(***************************************************************************)
EXTENDS Integers

CONSTANT Streams

VARIABLES
    taken,      \* bytes taken from the sender of each stream
    delivered   \* bytes handed to its receiver

Init ==
    /\ taken = [s \in Streams |-> 0]
    /\ delivered = [s \in Streams |-> 0]

(* More of one stream is taken. *)
Take(s) ==
    /\ taken'[s] > taken[s]
    /\ taken' = [taken EXCEPT ![s] = taken'[s]]
    /\ UNCHANGED delivered

(* Some of what was taken is delivered, on any of the streams. *)
Deliver ==
    /\ DOMAIN delivered' = Streams
    /\ \A s \in Streams : delivered[s] <= delivered'[s] /\ delivered'[s] <= taken[s]
    /\ UNCHANGED taken

Next == (\E s \in Streams : Take(s)) \/ Deliver

Spec == Init /\ [][Next]_<<taken, delivered>>
=============================================================================
