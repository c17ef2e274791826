----------------------------- MODULE AppRqDecCb -----------------------------
(***************************************************************************)
(* sim/app_rq_dec_cb.cc: writes one line per source block from the         *)
(* decoder's DecodeInfo traces.  A block is traced once or twice, so a     *)
(* record is held in a cache until a record of another block replaces it.  *)
(* State: [cached |-> set of at most one record, report |-> lines].        *)
(***************************************************************************)
EXTENDS Sequences

NewCb == [cached |-> {}, report |-> <<>>]

Flush(cb) ==
    [cached |-> {},
     report |-> IF cb.cached = {} THEN cb.report
                ELSE Append(cb.report, CHOOSE c \in cb.cached : TRUE)]

(* Faulty variant of RqDecCb: the cached record is dropped, not printed. *)
RqDecCbDrops(cb, info) == [cached |-> {info}, report |-> cb.report]

RqDecCb(cb, info) ==
    LET other == \E c \in cb.cached : c.sbid # info.sbid
    IN  [cached |-> {info},
         report |-> IF other THEN Flush(cb).report ELSE cb.report]

(* The callback run for a trace call that may or may not have happened.    *)
OnTrace(cb, infos) ==
    IF infos = {} THEN cb ELSE RqDecCb(cb, CHOOSE i \in infos : TRUE)
=============================================================================
