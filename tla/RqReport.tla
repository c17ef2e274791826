------------------------------ MODULE RqReport ------------------------------
(***************************************************************************)
(* The coded relay with the decoding report the simulator writes           *)
(* (apps_manager connects the decoder's trace to AppRqDecCb::rqDecCb; the  *)
(* callback object is destroyed when the simulation is over).              *)
(***************************************************************************)
EXTENDS RqPipeline, AppRqDecCb

VARIABLES
    cb,      \* the AppRqDecCb object
    closed   \* it has been destroyed

reportVars == <<vars, cb, closed>>

ReportInit ==
    /\ Init
    /\ cb = NewCb
    /\ closed = FALSE

TracedRecv(p) ==
    /\ DecRecv(p)
    /\ cb' = OnTrace(OnTrace(cb, LeaveTrace(p)), DecodeTrace(p))

SilentStep ==
    /\ EncStep \/ DecStep \/ LinkLoss
    /\ UNCHANGED cb

Simulate ==
    /\ ~closed
    /\ Alive
    /\ SilentStep \/ \E p \in link : TracedRecv(p)
    /\ UNCHANGED closed

Destroy ==
    /\ ~closed
    /\ ~reading
    /\ closed' = TRUE
    /\ cb' = Flush(cb)
    /\ UNCHANGED vars

ReportNext == Simulate \/ Destroy

ReportSpec == ReportInit /\ [][ReportNext]_reportVars

-----------------------------------------------------------------------------
CountedIn(b) == {n \in counted : BlockOf(n) = b}
SourceIn(b)  == {n \in CountedIn(b) : n % N < K}

(* Every line for a block the decoder has left gives the number of packets *)
(* and source packets received for it and whether it was decoded, although *)
(* the block was traced first when it was not complete; the lines are in   *)
(* the order of the blocks, one for each (AppRqDecCb::rqDecCb).            *)
ReportExact ==
    /\ \A i \in DOMAIN cb.report :
           LET l == cb.report[i]
           IN  l.sbid < decSbid =>
                   /\ l.nrcv = Cardinality(CountedIn(l.sbid))
                   /\ l.nsrcrcv = Cardinality(SourceIn(l.sbid))
                   /\ l.success = (Cardinality(CountedIn(l.sbid)) >= K)
    /\ \A i, j \in DOMAIN cb.report :
           i < j => cb.report[i].sbid < cb.report[j].sbid

(* At the end of the simulation every block of which a packet was received *)
(* has a line, save the last one if it was not decoded (RqDecoder traces a *)
(* block when it leaves it or decodes it, the destructor flushes).         *)
ReportComplete ==
    closed => {cb.report[i].sbid : i \in DOMAIN cb.report} =
                  {b \in 0 .. decSbid : /\ CountedIn(b) # {}
                                        /\ b < decSbid \/ nrcv >= K}
=============================================================================
