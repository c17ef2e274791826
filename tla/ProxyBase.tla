----------------------------- MODULE ProxyBase ------------------------------
(***************************************************************************)
(* ns3_apps/proxy-base.cc: the sockets of a proxy application.  A proxy    *)
(* listens on its Rx slots and connects its Tx slots.  RqEncoder and       *)
(* RqDecoder derive from it; each instantiates this module.                *)
(***************************************************************************)
EXTENDS Naturals, Sequences

CONSTANT Slots

VARIABLES
    run,        \* "init", "running", "stopped", or "aborted": an assertion failed
    conns,      \* per Rx slot, the accepted sockets, each the bytes it can deliver
    connected   \* per Tx slot, the flag connected

Idle == [s \in Slots |-> <<>>]
NotConnected == [s \in Slots |-> FALSE]

ProxyTypeOK ==
    /\ run \in {"init", "running", "stopped", "aborted"}
    /\ conns \in [Slots -> Seq(Nat)]
    /\ connected \in [Slots -> BOOLEAN]

ProxyInit ==
    /\ run = "init"
    /\ conns = Idle
    /\ connected = NotConnected

(* Sockets are created and connecting starts; the flags change only when a *)
(* callback arrives.                                                       *)
StartApplication ==
    /\ run = "init"
    /\ run' = "running"
    /\ UNCHANGED <<conns, connected>>

(* All accepted sockets are popped and closed, the listening and the Tx    *)
(* sockets are closed.  The flag connected is left as it is.               *)
StopApplication ==
    /\ run = "running"
    /\ run' = "stopped"
    /\ conns' = Idle
    /\ UNCHANGED connected

HandleAccept(s) ==
    /\ run = "running"
    /\ conns' = [conns EXCEPT ![s] = Append(@, 0)]
    /\ UNCHANGED <<run, connected>>

ConnectionSucceeded(s) ==
    /\ run = "running"
    /\ ~connected[s]
    /\ connected' = [connected EXCEPT ![s] = TRUE]
    /\ UNCHANGED <<run, conns>>

(* Bytes reach the i-th accepted socket of slot s (ns-3 TCP).              *)
PeerData(s, i, n) ==
    /\ run = "running"
    /\ i \in 1 .. Len(conns[s])
    /\ conns' = [conns EXCEPT ![s][i] = @ + n]
    /\ UNCHANGED <<run, connected>>

(* A failed assert() or NS_ASSERT() ends the program. *)
Abort ==
    /\ run' = "aborted"
    /\ UNCHANGED <<conns, connected>>
=============================================================================
