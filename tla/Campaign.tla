------------------------------ MODULE Campaign ------------------------------
(***************************************************************************)
(* A simulation campaign on the file system: scripts/stagesim lays out a   *)
(* directory per parameter set and a Makefile, make runs the simulations,  *)
(* scripts/createresultsdb tabulates the parameter sets.  make, gzip and   *)
(* the shell are modelled from how the generated rules use them.           *)
(***************************************************************************)
EXTENDS Sequences, SequencesExt, FiniteSets, Integers

CONSTANTS
    Campaigns,     \* [enum: the description, template: a sequence of files
                   \*  [name, ext, needs: keys, breaks: the PHP code fails],
                   \*  pcap: captures are asked for, bad: assignments whose
                   \*  simulation does not end by itself, patience: the
                   \*  number of interruptions and cleanings]
    Buildable(_),  \* get_enumerator_from_dict makes an enumerator of a description
    EnumGen(_),    \* enum_gen, the enumerator: [out: the assignments it
                   \*  yields, ok: it ends by itself]
    MaxRuns,       \* parameter sets of a description, at most
    CaptureCount,  \* capture files of a simulation
    Jobs,          \* make -j
    IntValues, RealValues,   \* values int() takes, and float() besides
    NotNumbers,    \* those of RealValues that SQL takes for names: nan, inf
    Phrases        \* values that are several words

ASSUME CampaignAssumption ==
    /\ MaxRuns \in Nat
    /\ CaptureCount \in Nat
    /\ Jobs \in Nat \ {0}
    /\ IntValues \cap RealValues = {}
    /\ NotNumbers \subseteq RealValues
    /\ \A c \in Campaigns :
           /\ c.template \in Seq(ToSet(c.template))
           /\ Buildable(c.enum) =>
                  LET out == EnumGen(c.enum).out
                  IN  out \in Seq(ToSet(out)) /\ Len(out) <= MaxRuns

VARIABLES
    campaign,   \* the enum file and the conf.in directory
    sets,       \* enum_gen, once the description has been looked at
    listing,    \* the template files in the order os.listdir returns them
    stage,      \* "none", "conf" and "params" by turns, "whole", "broken"
    dirs,       \* the run directories, run/params_00000 first
    rules,      \* the number of runs the Makefile has rules for
    making,     \* "idle", "running", "failing" when a recipe failed
    tried,      \* the runs this make has started
    jobs,       \* recipes under way: run -> [step, pos, refused]
    patience,   \* interruptions and cleanings to come
    db          \* results.db: [table: params exists, types, rows]

stageVars == <<campaign, sets, listing, stage, dirs, rules>>
makeVars == <<making, tried, jobs>>
vars == <<stageVars, makeVars, patience, db>>

Runs == 1 .. rules
Captures == 1 .. CaptureCount

NoJobs == <<>>
NoSets == [out |-> <<>>, ok |-> TRUE]
NoDb == [table |-> FALSE, types |-> <<>>, rows |-> {}]

Contents == {"none", "part", "old", "new"}   \* of a file: by which simulation

TypeOK ==
    /\ stage \in {"none", "conf", "params", "whole", "broken"}
    /\ rules <= Len(dirs) /\ Len(dirs) <= MaxRuns
    /\ \A i \in DOMAIN dirs :
           /\ dirs[i].whole \subseteq dirs[i].written
           /\ dirs[i].params \in BOOLEAN /\ dirs[i].done \in BOOLEAN
           /\ dirs[i].log \in Contents
           /\ dirs[i].raw \in [Captures -> Contents]
           /\ dirs[i].gz \in [Captures -> Contents]
    /\ making \in {"idle", "running", "failing"}
    /\ making = "idle" => jobs = NoJobs
    /\ DOMAIN jobs \subseteq tried /\ tried \subseteq Runs
    /\ Cardinality(DOMAIN jobs) <= Jobs
    /\ \A i \in DOMAIN jobs :
           /\ jobs[i].step \in {"start", "run", "gzip", "zip"}
           /\ jobs[i].pos \in 1 .. CaptureCount + 1
    /\ patience \in Nat
    /\ {row.id : row \in db.rows} \subseteq 0 .. Len(dirs) - 1

(* The orders in which os.listdir may return the files. *)
Listings(template) ==
    LET D == DOMAIN template
    IN  {[i \in D |-> template[p[i]]] :
            p \in {f \in [D -> D] : \A t \in D : \E i \in D : f[i] = t}}

Init ==
    /\ campaign \in Campaigns
    /\ listing \in Listings(campaign.template)
    /\ sets = NoSets
    /\ stage = "none"
    /\ dirs = <<>>
    /\ rules = 0
    /\ making = "idle"
    /\ tried = {}
    /\ jobs = NoJobs
    /\ patience = campaign.patience
    /\ db = NoDb

-----------------------------------------------------------------------------
(* genconf.apply_template_to_file: a missing key leaves an empty file and  *)
(* raises, failing PHP code leaves what it printed and returns False.      *)
Applied(file, kv) ==
    CASE file.ext = ".in" /\ ~(file.needs \subseteq DOMAIN kv) -> "raises"
      [] file.ext = ".php" /\ file.breaks -> "stops"
      [] OTHER -> "goes on"

(* apply_template: the files it writes, and those that came out whole.     *)
Applications(kv) ==
    LET stops == {i \in DOMAIN listing : Applied(listing[i], kv) # "goes on"}
        end   == IF stops = {} THEN Len(listing) ELSE Min(stops)
    IN  [written |-> {listing[i].name : i \in 1 .. end},
         whole   |-> {listing[i].name : i \in (1 .. end) \ stops},
         raises  |-> stops # {} /\ Applied(listing[end], kv) = "raises"]

EmptyDir(kv) ==
    [kv |-> kv, written |-> {}, whole |-> {}, params |-> FALSE, log |-> "none",
     raw |-> [c \in Captures |-> "none"], gz |-> [c \in Captures |-> "none"], done |-> FALSE]

(* The description is looked at before the directory is made, which must   *)
(* not exist; then conf.in is copied into it and the Makefile opened.      *)
StageSim ==
    /\ stage = "none"
    /\ Buildable(campaign.enum)
    /\ stage' = "conf"
    /\ sets' = EnumGen(campaign.enum)
    /\ UNCHANGED <<campaign, listing, dirs, rules, makeVars, patience, db>>

(* Faulty variant of StageConf: an exception is caught, staging goes on. *)
StageConfGoesOn ==
    /\ stage = "conf"
    /\ Len(dirs) < Len(sets.out)
    /\ LET kv  == sets.out[Len(dirs) + 1]
           app == Applications(kv)
       IN  dirs' = Append(dirs, [EmptyDir(kv) EXCEPT !.written = app.written, !.whole = app.whole])
    /\ stage' = "params"
    /\ UNCHANGED <<campaign, sets, listing, rules, makeVars, patience, db>>

(* gen_mk_target_and_conf, up to the configuration.  The value returned by *)
(* apply_template is not looked at.                                        *)
StageConf ==
    /\ stage = "conf"
    /\ Len(dirs) < Len(sets.out)
    /\ LET kv  == sets.out[Len(dirs) + 1]
           app == Applications(kv)
       IN  /\ dirs' = Append(dirs, [EmptyDir(kv) EXCEPT !.written = app.written,
                                                        !.whole = app.whole])
           /\ stage' = IF app.raises THEN "broken" ELSE "params"
    /\ UNCHANGED <<campaign, sets, listing, rules, makeVars, patience, db>>

(* The rest of it: params.txt, then the rules. *)
StageParams ==
    /\ stage = "params"
    /\ dirs' = [dirs EXCEPT ![Len(dirs)].params = TRUE]
    /\ rules' = rules + 1
    /\ stage' = "conf"
    /\ UNCHANGED <<campaign, sets, listing, makeVars, patience, db>>

StageEnds ==
    /\ stage = "conf"
    /\ Len(dirs) = Len(sets.out)
    /\ stage' = IF sets.ok THEN "whole" ELSE "broken"
    /\ UNCHANGED <<campaign, sets, listing, dirs, rules, makeVars, patience, db>>

(* An interrupt: the file objects are closed, so the rules so far are in   *)
(* the Makefile.                                                           *)
StageInterrupted ==
    /\ stage \in {"conf", "params"}
    /\ patience > 0
    /\ stage' = "broken"
    /\ patience' = patience - 1
    /\ UNCHANGED <<campaign, sets, listing, dirs, rules, makeVars, db>>

Staging == StageSim \/ StageConf \/ StageParams \/ StageEnds

-----------------------------------------------------------------------------
Staged == stage \in {"whole", "broken"}

SetDir(i, d) == dirs' = [dirs EXCEPT ![i] = d]
SetJob(i, j) == jobs' = [jobs EXCEPT ![i] = j]
Drop(i) == jobs' = [k \in DOMAIN jobs \ {i} |-> jobs[k]]

(* make is called for the runs that have no done_sim. *)
Make ==
    /\ Staged
    /\ making = "idle"
    /\ \E i \in Runs : ~dirs[i].done
    /\ making' = "running"
    /\ tried' = {}
    /\ UNCHANGED <<stageVars, jobs, patience, db>>

(* The targets are taken in order, none after a recipe has failed.  The    *)
(* shell empties stdout.txt and stderr.txt; captures and traces of an      *)
(* earlier simulation are still there.                                     *)
StartJob ==
    /\ making = "running"
    /\ Cardinality(DOMAIN jobs) < Jobs
    /\ \E i \in Runs :
           /\ ~dirs[i].done
           /\ i \notin tried
           /\ \A k \in 1 .. i - 1 : dirs[k].done \/ k \in tried
           /\ tried' = tried \cup {i}
           /\ jobs' = [k \in DOMAIN jobs \cup {i} |->
                          IF k = i THEN [step |-> "start", pos |-> 1, refused |-> FALSE]
                                   ELSE jobs[k]]
           /\ SetDir(i, [dirs[i] EXCEPT !.raw = [c \in Captures |->
                                                    IF @[c] = "new" THEN "old" ELSE @[c]],
                                        !.gz = [c \in Captures |->
                                                    IF @[c] = "new" THEN "old" ELSE @[c]]])
    /\ UNCHANGED <<campaign, sets, listing, stage, rules, making, patience, db>>

(* Every file of the configuration must be there; the arguments, by "cat", *)
(* need not.  Of one that was not written to its end anything may come.    *)
Required == {campaign.template[i].name : i \in DOMAIN campaign.template} \ {"cmdline_args.txt"}
MayFail(d) == ~(Required \subseteq d.whole) \/ d.kv \in campaign.bad
MayRun(d) == Required \subseteq d.written /\ d.kv \notin campaign.bad

CapturesOf(d) ==
    IF campaign.pcap /\ "cmdline_args.txt" \in d.whole THEN Captures ELSE {}

RecipeFails(i) ==
    /\ making' = "failing"
    /\ Drop(i)

(* mesh_sim opens its traces and captures anew. *)
SimStarts(i) ==
    /\ jobs[i].step = "start"
    /\ SetDir(i, [dirs[i] EXCEPT !.log = "part",
                                 !.raw = [c \in Captures |-> IF c \in CapturesOf(dirs[i])
                                                             THEN "part" ELSE @[c]]])
    /\ SetJob(i, [jobs[i] EXCEPT !.step = "run"])
    /\ UNCHANGED making

SimRefuses(i) ==
    /\ jobs[i].step = "start"
    /\ MayFail(dirs[i])
    /\ RecipeFails(i)
    /\ UNCHANGED dirs

SimDies(i) ==
    /\ jobs[i].step = "run"
    /\ MayFail(dirs[i])
    /\ RecipeFails(i)
    /\ UNCHANGED dirs

(* Faulty variant of SimEnds: gzip is called with no capture to compress. *)
SimEndsUnguarded(i) ==
    /\ jobs[i].step = "run"
    /\ MayRun(dirs[i])
    /\ IF CapturesOf(dirs[i]) = {}
       THEN RecipeFails(i) /\ UNCHANGED dirs
       ELSE /\ SetDir(i, [dirs[i] EXCEPT !.log = "new", !.raw = [c \in Captures |-> "new"]])
            /\ SetJob(i, [jobs[i] EXCEPT !.step = "gzip"])
            /\ UNCHANGED making

SimEnds(i) ==
    /\ jobs[i].step = "run"
    /\ MayRun(dirs[i])
    /\ SetDir(i, [dirs[i] EXCEPT !.log = "new",
                                 !.raw = [c \in Captures |-> IF c \in CapturesOf(dirs[i])
                                                             THEN "new" ELSE @[c]]])
    /\ SetJob(i, [jobs[i] EXCEPT !.step = "gzip"])
    /\ UNCHANGED making

(* gzip takes the captures in turn.  One that has a .gz already it leaves  *)
(* alone, unless it is told at the terminal to overwrite it.               *)
GzipStarts(i) ==
    LET job == jobs[i]
        c   == job.pos
    IN  /\ job.step = "gzip"
        /\ c \in Captures
        /\ \/ /\ dirs[i].raw[c] = "none"
              /\ SetJob(i, [job EXCEPT !.pos = c + 1])
              /\ UNCHANGED dirs
           \/ /\ dirs[i].raw[c] # "none"
              /\ dirs[i].gz[c] # "none"
              /\ SetJob(i, [job EXCEPT !.pos = c + 1, !.refused = TRUE])
              /\ UNCHANGED dirs
           \/ /\ dirs[i].raw[c] # "none"
              /\ SetJob(i, [job EXCEPT !.step = "zip"])
              /\ SetDir(i, [dirs[i] EXCEPT !.gz[c] = "part"])
        /\ UNCHANGED making

GzipEnds(i) ==
    LET c == jobs[i].pos
    IN  /\ jobs[i].step = "zip"
        /\ SetDir(i, [dirs[i] EXCEPT !.gz[c] = dirs[i].raw[c], !.raw[c] = "none"])
        /\ SetJob(i, [jobs[i] EXCEPT !.step = "gzip", !.pos = c + 1])
        /\ UNCHANGED making

(* Faulty variant of RecipeEnds: the exit status of gzip is not looked at. *)
RecipeEndsAnyway(i) ==
    /\ jobs[i].step = "gzip"
    /\ jobs[i].pos > CaptureCount
    /\ SetDir(i, [dirs[i] EXCEPT !.done = TRUE])
    /\ Drop(i)
    /\ UNCHANGED making

(* date > done_sim, if gzip did not exit with 2. *)
RecipeEnds(i) ==
    /\ jobs[i].step = "gzip"
    /\ jobs[i].pos > CaptureCount
    /\ IF jobs[i].refused
       THEN RecipeFails(i) /\ UNCHANGED dirs
       ELSE /\ SetDir(i, [dirs[i] EXCEPT !.done = TRUE])
            /\ Drop(i)
            /\ UNCHANGED making

Recipe(i) ==
    /\ i \in DOMAIN jobs
    /\ \/ SimStarts(i) \/ SimRefuses(i) \/ SimDies(i) \/ SimEnds(i)
       \/ GzipStarts(i) \/ GzipEnds(i) \/ RecipeEnds(i)
    /\ UNCHANGED <<campaign, sets, listing, stage, rules, tried, patience, db>>

(* After a failure make waits for the recipes under way. *)
MakeEnds ==
    /\ making # "idle"
    /\ jobs = NoJobs
    /\ making = "failing" \/ \A i \in Runs : dirs[i].done \/ i \in tried
    /\ making' = "idle"
    /\ UNCHANGED <<stageVars, tried, jobs, patience, db>>

(* Interrupted, gzip removes the file it is writing; killed, it does not.  *)
MakeInterrupted(killed) ==
    /\ making # "idle"
    /\ patience > 0
    /\ dirs' = [i \in DOMAIN dirs |->
                   IF i \in DOMAIN jobs /\ jobs[i].step = "zip" /\ ~killed
                   THEN [dirs[i] EXCEPT !.gz[jobs[i].pos] = "none"]
                   ELSE dirs[i]]
    /\ making' = "idle"
    /\ jobs' = NoJobs
    /\ patience' = patience - 1
    /\ UNCHANGED <<campaign, sets, listing, stage, rules, tried, db>>

(* make clean *)
MakeClean ==
    /\ Staged
    /\ making = "idle"
    /\ patience > 0
    /\ dirs' = [i \in DOMAIN dirs |->
                   IF i \in Runs
                   THEN [dirs[i] EXCEPT !.done = FALSE, !.gz = [c \in Captures |-> "none"]]
                   ELSE dirs[i]]
    /\ patience' = patience - 1
    /\ UNCHANGED <<campaign, sets, listing, stage, rules, makeVars, db>>

-----------------------------------------------------------------------------
(* createresultsdb.  glob returns the directories in any order; the type   *)
(* of a column is narrowed line by line.                                   *)
ParamFiles == {i \in DOMAIN dirs : dirs[i].params}
Keys(is) == UNION {DOMAIN dirs[i].kv : i \in is}

(* Faulty variant of Narrow: a line that makes an int column real is not   *)
(* tried as a float.                                                       *)
NarrowOnce(type, v) ==
    CASE type = "int" /\ v \notin IntValues                   -> "real"
      [] type = "real" /\ v \notin IntValues \cup RealValues  -> "varchar"
      [] OTHER                                                -> type

Narrow(type, v) ==
    CASE type = "varchar" \/ v \notin IntValues \cup RealValues -> "varchar"
      [] type # "varchar" /\ v \in RealValues                   -> "real"
      [] OTHER                                                  -> type

GetParams(order) ==
    [k \in Keys(ToSet(order)) |->
        FoldLeft(LAMBDA type, i : IF k \in DOMAIN dirs[i].kv THEN Narrow(type, dirs[i].kv[k]) ELSE type,
                 "int", order)]

(* An insertion fails when the parameter set lacks a column, or SQL reads  *)
(* a number as a name.                                                     *)
Insertable(i, types) ==
    /\ dirs[i].params
    /\ \A k \in DOMAIN types :
           /\ k \in DOMAIN dirs[i].kv
           /\ types[k] \in {"int", "real"} => dirs[i].kv[k] \notin NotNumbers

(* Columns that the table has already. *)
Columns == {"id", "dir"}

(* run/params_00000 is the first. *)
RunId(i) == i - 1

(* Nothing is committed before the last row is in.  The script raises and  *)
(* changes nothing when the table exists, a line of params.txt has not two *)
(* words or a parameter has the name of a column.                          *)
CreateParamsTable ==
    /\ Staged
    /\ dirs # <<>>
    /\ ~db.table
    /\ \A i \in ParamFiles, k \in Keys(ParamFiles) :
           k \in DOMAIN dirs[i].kv => dirs[i].kv[k] \notin Phrases
    /\ \E order \in SetToSeqs(ParamFiles) :
           LET types == GetParams(order)
           IN  /\ Columns \cap DOMAIN types = {}
               /\ db' = [table |-> TRUE, types |-> types,
                         rows |-> IF \A i \in DOMAIN dirs : Insertable(i, types)
                                  THEN {[id |-> RunId(i), kv |-> dirs[i].kv] : i \in DOMAIN dirs}
                                  ELSE {}]
    /\ UNCHANGED <<stageVars, makeVars, patience>>

-----------------------------------------------------------------------------
Next ==
    \/ Staging
    \/ StageInterrupted
    \/ Make
    \/ StartJob
    \/ \E i \in DOMAIN jobs : Recipe(i)
    \/ MakeEnds
    \/ \E killed \in BOOLEAN : MakeInterrupted(killed)
    \/ MakeClean
    \/ CreateParamsTable

Spec == Init /\ [][Next]_vars

(* The programs go on, and make is called until all is done. *)
FairSpec ==
    /\ Spec
    /\ WF_vars(Staging)
    /\ WF_vars(Make)
    /\ WF_vars(StartJob)
    /\ WF_vars(\E i \in DOMAIN jobs : Recipe(i))
    /\ WF_vars(MakeEnds)

-----------------------------------------------------------------------------
Whole(d) == d.whole = {campaign.template[t].name : t \in DOMAIN campaign.template}
PhpFails == \E t \in DOMAIN campaign.template :
                campaign.template[t].ext = ".php" /\ campaign.template[t].breaks

(* Nothing is simulated with a configuration that genconf did not complete *)
(* or without a record of its parameters, except where failing PHP code    *)
(* goes unnoticed.                                                         *)
SimulatedAsStaged ==
    \A i \in DOMAIN dirs :
        i \in DOMAIN jobs \/ dirs[i].log # "none" =>
            dirs[i].params /\ (Whole(dirs[i]) \/ PhpFails)

(* done_sim says that the traces and all captures are whole and from one   *)
(* simulation, whatever was interrupted before (the Makefile's rules).     *)
DoneIsWhole ==
    \A i \in DOMAIN dirs :
        dirs[i].done =>
            /\ dirs[i].log = "new"
            /\ \A c \in Captures :
                   /\ dirs[i].raw[c] = "none"
                   /\ dirs[i].gz[c] = IF c \in CapturesOf(dirs[i]) THEN "new" ELSE "none"

(* The table lists every run under its number with all its parameters, and *)
(* a column has the type get_params promises, "if all the values can be    *)
(* interpreted as int, it's considered an int, otherwise if they all can   *)
(* be interpreted as float, it's a float, otherwise it's a string".        *)
ParamsTabulated ==
    db.rows # {} =>
        /\ db.rows = {[id |-> i - 1, kv |-> dirs[i].kv] : i \in DOMAIN dirs}
        /\ \A row \in db.rows : DOMAIN row.kv = DOMAIN db.types
        /\ \A k \in DOMAIN db.types :
               LET values == {row.kv[k] : row \in db.rows}
               IN  db.types[k] = CASE values \subseteq IntValues -> "int"
                                   [] values \subseteq IntValues \cup RealValues
                                          /\ ~(values \subseteq IntValues) -> "real"
                                   [] OTHER -> "varchar"

(* A run that cannot be completed by calling make again: its simulation    *)
(* fails, or captures were compressed when it was interrupted.             *)
Stuck(d) == MayFail(d) \/ \E c \in Captures : d.gz[c] # "none"

(* With make called until all is done, every run is done in the end, or    *)
(* waits for one up to it that is stuck.                                   *)
RunsFinish ==
    \A i \in 1 .. MaxRuns :
        <>[](i \in Runs => dirs[i].done \/ \E k \in 1 .. i : ~dirs[k].done /\ Stuck(dirs[k]))
=============================================================================
