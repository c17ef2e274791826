------------------------------ MODULE ResultsDb -----------------------------
(***************************************************************************)
(* scripts/createresultsdb: the summaries of a receiver's two logs that    *)
(* the results database holds, from the logs as AppRxCb wrote them.        *)
(*                                                                         *)
(* The script reads every run directory it finds, of simulations that died *)
(* too.  Then the files end where the buffer was last written out, often   *)
(* in the middle of a line.  Rates are kept as fractions and the deviation *)
(* as the numbers whose deviation it is.                                   *)
(***************************************************************************)
EXTENDS AppRxCb, FiniteSetsExt

CONSTANT Second    \* 1000000: the time unit of the log is a microsecond

ASSUME SecondAssumption == Second \in Nat \ {0}

VARIABLES
    died,     \* the simulation ended without the destructor
    plFile,   \* trace-app-pl-N.txt as the script finds it
    rxFile,   \* trace-app-rx-N.txt
    outcome,  \* "none"; "whole" or "torn" when the script is done, "raised"
    pl,       \* rows of trace_app_pl_summaries
    rx        \* rows of trace_app_rx_summaries

dbVars == <<died, plFile, rxFile, outcome, pl, rx>>
vars == <<cbVars, dbVars>>

Null == -1
NoRow == {}

TypeOK ==
    /\ CbTypeOK
    /\ died \in BOOLEAN
    /\ IsPrefix(plFile, plLog)
    /\ outcome = "whole" => IsPrefix(rxFile, rxLog)
    /\ outcome \in {"none", "whole", "torn", "raised"}
    /\ Cardinality(pl) <= 1
    /\ Cardinality(rx) <= 1

Init ==
    /\ CbInit
    /\ died = FALSE
    /\ plFile = <<>>
    /\ rxFile = <<>>
    /\ outcome = "none"
    /\ pl = NoRow
    /\ rx = NoRow

-----------------------------------------------------------------------------
(* create_trace_app_pl_summaries_table *)
EvCount(log, ev) == Cardinality({i \in DOMAIN log : log[i].ev = ev})

(* Faulty variant of LossPktCount: sum(seqno2 - seqno). *)
LossPktCountExclusive(log) ==
    FoldLeft(LAMBDA sum, l : IF l.ev = "lost_range" THEN sum + (l.seqno2 - l.seqno) ELSE sum,
             0, log)

(* sum(seqno2 - seqno + 1) over the rows with evtype 0 *)
LossPktCount(log) ==
    FoldLeft(LAMBDA sum, l : IF l.ev = "lost_range" THEN sum + (l.seqno2 - l.seqno + 1) ELSE sum,
             0, log)

PlRow(log, top) ==
    [losses |-> EvCount(log, "lost_range"), lossPkts |-> LossPktCount(log),
     dups |-> EvCount(log, "dup"), reorders |-> EvCount(log, "large_reorder"),
     largest |-> top]

(* Faulty variant of PlRows: the largest number of any line is taken when  *)
(* there is no line for it.                                                *)
PlRowsAlways(log) ==
    IF log = <<>> THEN NoRow ELSE {PlRow(log, Max({l.seqno2 : l \in ToSet(log)}))}

(* "Either empty or incomplete data set; don't add it." *)
PlRows(log) ==
    {PlRow(log, l.seqno) : l \in {m \in ToSet(log) : m.ev = "largest"}}

(* _get_rate_stddev: one turn of the loop over the reversed samples, with  *)
(* the limit and the counts so far.  The inner loop counts the boundaries  *)
(* from the limit down to the sample's time.                               *)
Boundaries(limit, t) == IF t <= limit THEN ((limit - t) \div Second) + 1 ELSE 0

CumStep(acc, sample) ==
    LET n == Boundaries(acc.limit, sample.time)
    IN  [limit |-> acc.limit - n * Second,
         cum |-> acc.cum \o [i \in 1 .. n |-> sample.bytes]]

(* Faulty variant of CumCounts: runs over the samples from the front. *)
CumCountsForward(samples) ==
    FoldLeft(CumStep, [limit |-> Last(samples).time, cum |-> <<>>], samples).cum

CumCounts(samples) ==
    FoldRight(LAMBDA sample, acc : CumStep(acc, sample), samples,
              [limit |-> Last(samples).time, cum |-> <<>>]).cum

(* byte_counts: the bytes received within each second, the last one first. *)
ByteCounts(samples) ==
    LET cum == CumCounts(samples)
    IN  [i \in 1 .. Len(cum) - 1 |-> cum[i] - cum[i + 1]]

(* create_trace_app_rx_summaries_table.  ORDER BY time keeps the order of  *)
(* the file, whose times do not decrease.                                  *)
RxRow(samples) ==
    LET times == {s.time : s \in ToSet(samples)}
        bytes == {s.bytes : s \in ToSet(samples)}
        span  == Max(times) - Min(times)
    IN  IF samples = <<>>
        THEN [maxBytes |-> Null, minBytes |-> Null, rate |-> <<0, 1>>, perSecond |-> <<>>]
        ELSE [maxBytes |-> Max(bytes), minBytes |-> Min(bytes),
              rate |-> IF span > 0 THEN <<8 * (Max(bytes) - Min(bytes)), span>> ELSE <<0, 1>>,
              perSecond |-> IF span > 2 * Second THEN ByteCounts(samples) ELSE <<>>]

-----------------------------------------------------------------------------
(* An assertion of the simulator fails or somebody stops it. *)
Die ==
    /\ ~closed
    /\ ~died
    /\ died' = TRUE
    /\ UNCHANGED <<cbVars, plFile, rxFile, outcome, pl, rx>>

Simulate == ~died /\ CbNext /\ UNCHANGED dbVars

(* What the script makes of m lines of the one file and those of the other. *)
Create(m, samples, how) ==
    /\ closed \/ died
    /\ outcome = "none"
    /\ plFile' = SubSeq(plLog, 1, m)
    /\ rxFile' = samples
    /\ outcome' = how
    /\ pl' = PlRows(SubSeq(plLog, 1, m))
    /\ rx' = {RxRow(samples)}
    /\ UNCHANGED <<cbVars, died>>

CreateResultsDb(m, n) ==
    /\ closed => m = Len(plLog) /\ n = Len(rxLog)
    /\ Create(m, SubSeq(rxLog, 1, n), "whole")

(* The last line of trace-app-rx-N.txt lacks its last digit. *)
CreateResultsDbTorn(m, n) ==
    /\ died
    /\ n > 0
    /\ rxLog[n].bytes >= 10
    /\ Create(m, [SubSeq(rxLog, 1, n) EXCEPT ![n].bytes = @ \div 10], "torn")

(* A line cut elsewhere has too few words or an unknown first one: int() and *)
(* the indexing of a list raise.                                           *)
CreateRaises ==
    /\ died
    /\ outcome = "none"
    /\ plLog # <<>> \/ rxLog # <<>>
    /\ outcome' = "raised"
    /\ UNCHANGED <<cbVars, died, plFile, rxFile, pl, rx>>

Next ==
    \/ Simulate
    \/ Die
    \/ \E m \in 0 .. Len(plLog), n \in 0 .. Len(rxLog) :
           CreateResultsDb(m, n) \/ CreateResultsDbTorn(m, n)
    \/ CreateRaises

Spec == Init /\ [][Next]_vars

-----------------------------------------------------------------------------
(* The loss summary accounts for every packet: those processed are the     *)
(* numbers up to the largest that were not lost, the copies and the ones   *)
(* reordered beyond the window; the rest was in the heap when the          *)
(* simulation ended (loss_pkt_count, dup_count, large_reorder_count and    *)
(* largest_seqno of createresultsdb against AppRxCb).                      *)
SummaryAccounts ==
    \A row \in pl :
        Len(arrivals) = Cardinality(heap) + (row.largest + 1 - row.lossPkts)
                            + row.dups + row.reorders

(* At most one row for a log, and no loss summary of a simulation that     *)
(* died: it would miss the end of the log ("Either empty or incomplete     *)
(* data set; don't add it").                                               *)
OnlyFinishedSummarised == TypeOK /\ (pl # NoRow => closed)

(* Bytes received at time t or before, by the lines of the file. *)
BytesBy(t) == Max({0} \cup {s.bytes : s \in {r \in ToSet(rxFile) : r.time <= t}})

(* A deviation is computed from the bytes of at least two whole seconds,   *)
(* counted back from the last packet without a gap or an overlap, the      *)
(* first of them beginning no earlier than the first packet ("the number   *)
(* of bytes received within each second").                                 *)
SecondsCounted ==
    \A row \in rx :
        LET end == Last(rxFile).time
        IN  outcome = "whole" /\ row.perSecond # <<>> =>
                /\ Len(row.perSecond) = (end - Head(rxFile).time) \div Second
                /\ Len(row.perSecond) >= 2
                /\ \A i \in DOMAIN row.perSecond :
                       row.perSecond[i] = BytesBy(end - (i - 1) * Second)
                                              - BytesBy(end - i * Second)
=============================================================================
