-------------------------- MODULE Campaign_proofs ---------------------------
(***************************************************************************)
(* Proofs about Campaign, for every set of campaigns, number of captures   *)
(* and of jobs, with interrupts and cleanings at any step: nothing is      *)
(* simulated on half a configuration, done_sim stands for the whole        *)
(* results of one simulation, and the params table is that of the runs.    *)
(***************************************************************************)
EXTENDS Campaign, FiniteSetTheorems, WellFoundedInduction, SequenceTheorems, TLAPS

NamesIn(c) == {c.template[t].name : t \in DOMAIN c.template}
FailsIn(c) == \E t \in DOMAIN c.template : c.template[t].ext = ".php" /\ c.template[t].breaks

(* The configuration of a directory is whole, or PHP code fails unnoticed. *)
Complete(c, d) == d.whole = NamesIn(c) \/ FailsIn(c)

(* The captures that a simulation in d makes. *)
CapsOf(c, d) == IF c.pcap /\ "cmdline_args.txt" \in d.whole THEN Captures ELSE {}

Assignments(c) == IF Buildable(c.enum) THEN ToSet(EnumGen(c.enum).out) ELSE {}

RunDir(c) ==
    [kv : Assignments(c), written : SUBSET NamesIn(c), whole : SUBSET NamesIn(c),
     params : BOOLEAN, log : Contents, raw : [Captures -> Contents],
     gz : [Captures -> Contents], done : BOOLEAN]

Job == [step : {"start", "run", "gzip", "zip"}, pos : 1 .. CaptureCount + 1, refused : BOOLEAN]

(* The directory of the run that is being staged, or was when staging      *)
(* broke off.                                                              *)
Untouched(d) ==
    /\ d.log = "none"
    /\ \A c \in Captures : d.raw[c] = "none" /\ d.gz[c] = "none"
    /\ ~d.done

(* Captures that no simulation makes are not there; a run that is done has *)
(* the compressed captures of a simulation that ended.                     *)
Results(d, caps) ==
    /\ \A c \in Captures \ caps : d.raw[c] = "none" /\ d.gz[c] = "none"
    /\ d.done => /\ d.log = "new"
                 /\ \A c \in Captures :
                        /\ d.raw[c] = "none"
                        /\ d.gz[c] = IF c \in caps THEN "new" ELSE "none"

(* From the end of the simulation on its log is whole.  The captures that  *)
(* gzip has passed are compressed, unless it refused one; those to come    *)
(* are there and whole.                                                    *)
Zipping(d, j, caps) ==
    j.step \in {"gzip", "zip"} =>
        /\ d.log = "new"
        /\ \A c \in Captures : c < j.pos =>
               j.refused \/ (d.raw[c] = "none" /\ d.gz[c] = IF c \in caps THEN "new" ELSE "none")
        /\ \A c \in caps : c >= j.pos => d.raw[c] = "new"
        /\ j.step = "zip" => j.pos \in caps

(* Before that gzip has not passed any.                                    *)
Beginning(j) == j.step \in {"start", "run"} => j.pos = 1 /\ ~j.refused

StageInv ==
    /\ campaign \in Campaigns
    /\ listing \in Listings(campaign.template)
    /\ stage \in {"none", "conf", "params", "whole", "broken"}
    /\ stage = "none" => dirs = <<>> /\ rules = 0
    /\ stage # "none" => Buildable(campaign.enum) /\ sets = EnumGen(campaign.enum)
    /\ dirs \in Seq(RunDir(campaign))
    /\ rules \in Nat
    /\ rules <= Len(dirs)
    /\ stage \in {"conf", "whole"} => rules = Len(dirs)
    /\ stage = "params" => rules + 1 = Len(dirs) /\ Complete(campaign, dirs[Len(dirs)])
    /\ \A i \in Runs : dirs[i].params /\ Complete(campaign, dirs[i])
    /\ \A i \in DOMAIN dirs : i \notin Runs => Untouched(dirs[i])

IdleInv == making = "idle" => jobs = NoJobs

MakeInv ==
    /\ DOMAIN jobs \subseteq Runs
    /\ \A i \in DOMAIN jobs :
           /\ jobs[i] \in Job
           /\ ~dirs[i].done
           /\ Beginning(jobs[i])
           /\ Zipping(dirs[i], jobs[i], CapsOf(campaign, dirs[i]))
    /\ \A i \in DOMAIN dirs : Results(dirs[i], CapsOf(campaign, dirs[i]))

CampaignInv == StageInv /\ MakeInv /\ IdleInv

-----------------------------------------------------------------------------
(* The template. *)
LEMMA ListingComplete ==
    ASSUME NEW c \in Campaigns, NEW l \in Listings(c.template)
    PROVE  /\ Len(l) \in Nat
           /\ DOMAIN l = 1 .. Len(l)
           /\ \A i \in DOMAIN l : \E t \in DOMAIN c.template : l[i] = c.template[t]
           /\ \A t \in DOMAIN c.template : \E i \in DOMAIN l : l[i] = c.template[t]
<1> DEFINE D == DOMAIN c.template
<1>1. PICK p \in [D -> D] : (\A t \in D : \E i \in D : p[i] = t) /\ l = [i \in D |-> c.template[p[i]]]
  BY DEF Listings
<1>2. Len(c.template) \in Nat /\ D = 1 .. Len(c.template)
  BY CampaignAssumption
<1>3. DOMAIN l = D /\ Len(l) = Len(c.template)
  BY <1>1, <1>2
<1> QED
  BY <1>1, <1>2, <1>3

LEMMA LeastOf ==
    ASSUME NEW S \in SUBSET Nat, S # {}
    PROVE  Min(S) \in S
<1>1. PICK x \in S : \A y \in S : <<y, x>> \notin OpToRel(<, Nat)
  BY WFMin, NatLessThanWellFounded, Zenon
<1>2. ASSUME NEW y \in S PROVE x <= y
  <2>1. ~ (y < x)
    BY <1>1 DEF OpToRel
  <2> QED
    BY <2>1
<1> QED
  BY <1>2 DEF Min

(* apply_template leaves every file whole, or stops at one: with an        *)
(* exception, or without a word at PHP code that fails.                    *)
LEMMA TemplateApplied ==
    ASSUME campaign \in Campaigns, listing \in Listings(campaign.template),
           NEW kv, NEW app, app = Applications(kv)
    PROVE  /\ app.written \subseteq NamesIn(campaign)
           /\ app.whole \subseteq NamesIn(campaign)
           /\ ~app.raises => app.whole = NamesIn(campaign) \/ FailsIn(campaign)
<1> DEFINE stops == {i \in DOMAIN listing : Applied(listing[i], kv) # "goes on"}
           end   == IF stops = {} THEN Len(listing) ELSE Min(stops)
<1>1. /\ Len(listing) \in Nat
      /\ DOMAIN listing = 1 .. Len(listing)
      /\ \A i \in DOMAIN listing :
             \E t \in DOMAIN campaign.template : listing[i] = campaign.template[t]
      /\ \A t \in DOMAIN campaign.template :
             \E i \in DOMAIN listing : listing[i] = campaign.template[t]
  BY ListingComplete
<1>2. /\ app.written = {listing[i].name : i \in 1 .. end}
      /\ app.whole = {listing[i].name : i \in (1 .. end) \ stops}
      /\ app.raises = (stops # {} /\ Applied(listing[end], kv) = "raises")
  BY DEF Applications
<1>3. /\ stops = {} => end = Len(listing)
      /\ stops # {} => end = Min(stops)
      /\ stops \subseteq DOMAIN listing
      /\ \A i \in stops : Applied(listing[i], kv) # "goes on"
  OBVIOUS
<1> HIDE DEF stops, end
<1>8. stops # {} => end \in stops
  <2>1. DOMAIN listing \subseteq Nat
    BY <1>1
  <2>2. stops \in SUBSET Nat
    BY <1>3, <2>1, Zenon
  <2> QED
    BY <1>3, <2>2, LeastOf
<1>4. end \in Nat /\ 1 .. end \subseteq DOMAIN listing
  <2>1. CASE stops = {}
    BY <1>1, <1>3, <2>1
  <2>2. CASE stops # {}
    <3>1. end \in 1 .. Len(listing)
      BY <1>1, <1>3, <1>8, <2>2
    <3> QED
      BY <1>1, <3>1
  <2> QED
    BY <2>1, <2>2
<1>5. \A i \in 1 .. end : listing[i].name \in NamesIn(campaign)
  BY <1>1, <1>4 DEF NamesIn
<1>6. CASE stops = {}
  <2>1. (1 .. end) \ stops = DOMAIN listing
    BY <1>1, <1>3, <1>6
  <2>2. app.whole = NamesIn(campaign)
    BY <1>1, <1>2, <2>1 DEF NamesIn
  <2> QED
    BY <1>2, <1>5, <2>2
<1>7. CASE stops # {}
  <2>1. Applied(listing[end], kv) # "goes on"
    BY <1>3, <1>7, <1>8
  <2>2. ASSUME ~app.raises PROVE FailsIn(campaign)
    <3>1. Applied(listing[end], kv) # "raises"
      BY <1>2, <1>7, <2>2
    <3>2. listing[end].ext = ".php" /\ listing[end].breaks
      BY <2>1, <3>1 DEF Applied
    <3>3. end \in DOMAIN listing
      BY <1>3, <1>7, <1>8
    <3> QED
      BY <1>1, <3>2, <3>3 DEF FailsIn
  <2> QED
    BY <1>2, <1>5, <2>2
<1> QED
  BY <1>6, <1>7

-----------------------------------------------------------------------------
(* The steps of one recipe, on the directory d of its run. *)
GoodJob(d, j, caps) == j \in Job /\ ~d.done /\ Beginning(j) /\ Zipping(d, j, caps)

LEMMA StartGood ==
    ASSUME NEW c, NEW d \in RunDir(c), NEW caps \in SUBSET Captures, Results(d, caps), ~d.done,
           NEW e, e = [d EXCEPT !.raw = [k \in Captures |-> IF @[k] = "new" THEN "old" ELSE @[k]],
                                !.gz = [k \in Captures |-> IF @[k] = "new" THEN "old" ELSE @[k]]],
           NEW j, j = [step |-> "start", pos |-> 1, refused |-> FALSE]
    PROVE  e \in RunDir(c) /\ GoodJob(e, j, caps) /\ Results(e, caps)
<1>1. e \in RunDir(c) /\ ~e.done
  BY DEF RunDir, Contents
<1>2. Results(e, caps)
  BY DEF RunDir, Results
<1>3. GoodJob(e, j, caps)
  BY <1>1, CampaignAssumption DEF GoodJob, Job, Beginning, Zipping
<1> QED
  BY <1>1, <1>2, <1>3

LEMMA SimStartsGood ==
    ASSUME NEW c, NEW d \in RunDir(c), NEW caps \in SUBSET Captures, Results(d, caps),
           NEW j, GoodJob(d, j, caps), j.step = "start",
           NEW e, e = [d EXCEPT !.log = "part",
                                !.raw = [k \in Captures |-> IF k \in caps THEN "part" ELSE @[k]]],
           NEW i, i = [j EXCEPT !.step = "run"]
    PROVE  e \in RunDir(c) /\ GoodJob(e, i, caps) /\ Results(e, caps)
<1>1. e \in RunDir(c) /\ ~e.done
  BY DEF GoodJob, RunDir, Contents
<1>2. Results(e, caps)
  BY <1>1 DEF RunDir, Results
<1>3. i \in Job /\ i.pos = j.pos /\ i.refused = j.refused /\ i.step = "run"
  BY DEF GoodJob, Job
<1>4. GoodJob(e, i, caps)
  BY <1>1, <1>3 DEF GoodJob, Beginning, Zipping
<1> QED
  BY <1>1, <1>2, <1>4

LEMMA SimEndsGood ==
    ASSUME NEW c, NEW d \in RunDir(c), NEW caps \in SUBSET Captures, Results(d, caps),
           NEW j, GoodJob(d, j, caps), j.step = "run",
           NEW e, e = [d EXCEPT !.log = "new",
                                !.raw = [k \in Captures |-> IF k \in caps THEN "new" ELSE @[k]]],
           NEW i, i = [j EXCEPT !.step = "gzip"]
    PROVE  e \in RunDir(c) /\ GoodJob(e, i, caps) /\ Results(e, caps)
<1>1. e \in RunDir(c) /\ ~e.done /\ e.log = "new" /\ \A k \in caps : e.raw[k] = "new"
  BY DEF GoodJob, RunDir, Contents
<1>2. Results(e, caps)
  BY <1>1 DEF RunDir, Results
<1>3. i \in Job /\ i.pos = 1 /\ i.step = "gzip"
  BY DEF GoodJob, Job, Beginning
<1>4. Zipping(e, i, caps)
  BY <1>1, <1>3 DEF Zipping, Captures
<1> QED
  BY <1>1, <1>2, <1>3, <1>4 DEF GoodJob, Beginning

LEMMA NextPosition ==
    ASSUME NEW j \in Job, j.pos \in Captures
    PROVE  j.pos + 1 \in 1 .. CaptureCount + 1
BY CampaignAssumption DEF Captures

(* gzip passes over a capture that is not there. *)
LEMMA PassGood ==
    ASSUME NEW d, NEW caps \in SUBSET Captures, Results(d, caps),
           NEW j, GoodJob(d, j, caps), j.step = "gzip", j.pos \in Captures,
           d.raw[j.pos] = "none",
           NEW i, i = [j EXCEPT !.pos = j.pos + 1]
    PROVE  GoodJob(d, i, caps)
<1>1. i \in Job /\ i.pos = j.pos + 1 /\ i.refused = j.refused /\ i.step = "gzip"
  <2>1. j \in Job /\ j.pos + 1 \in 1 .. CaptureCount + 1
    BY NextPosition DEF GoodJob
  <2> QED
    BY <2>1 DEF Job
<1>2. j.pos \notin caps /\ d.gz[j.pos] = "none" /\ j.pos \in Nat
  BY DEF GoodJob, Zipping, Results, Captures
<1>3. ASSUME NEW k \in Captures, k < i.pos, ~i.refused
      PROVE  d.raw[k] = "none" /\ d.gz[k] = IF k \in caps THEN "new" ELSE "none"
  <2>1. k < j.pos \/ k = j.pos
    BY <1>1, <1>2, <1>3 DEF Captures
  <2>2. CASE k < j.pos
    BY <1>1, <1>3, <2>2 DEF GoodJob, Zipping
  <2> QED
    BY <1>2, <2>1, <2>2
<1>4. \A k \in caps : k >= i.pos => d.raw[k] = "new"
  BY <1>1, <1>2 DEF GoodJob, Zipping, Captures
<1> QED
  BY <1>1, <1>3, <1>4 DEF GoodJob, Beginning, Zipping

LEMMA RefuseGood ==
    ASSUME NEW d, NEW caps \in SUBSET Captures,
           NEW j, GoodJob(d, j, caps), j.step = "gzip", j.pos \in Captures,
           NEW i, i = [j EXCEPT !.pos = j.pos + 1, !.refused = TRUE]
    PROVE  GoodJob(d, i, caps)
<1>1. i \in Job /\ i.pos = j.pos + 1 /\ i.refused /\ i.step = "gzip"
  <2>1. j \in Job /\ j.pos + 1 \in 1 .. CaptureCount + 1
    BY NextPosition DEF GoodJob
  <2> QED
    BY <2>1 DEF Job
<1>2. \A k \in caps : k >= i.pos => d.raw[k] = "new"
  BY <1>1 DEF GoodJob, Zipping, Captures
<1> QED
  BY <1>1, <1>2 DEF GoodJob, Beginning, Zipping

LEMMA ZipGood ==
    ASSUME NEW c, NEW d \in RunDir(c), NEW caps \in SUBSET Captures, Results(d, caps),
           NEW j, GoodJob(d, j, caps), j.step = "gzip", j.pos \in Captures,
           d.raw[j.pos] # "none",
           NEW e, e = [d EXCEPT !.gz[j.pos] = "part"],
           NEW i, i = [j EXCEPT !.step = "zip"]
    PROVE  e \in RunDir(c) /\ GoodJob(e, i, caps) /\ Results(e, caps)
<1>1. /\ e \in RunDir(c) /\ ~e.done /\ e.log = d.log /\ e.raw = d.raw
      /\ \A k \in Captures : k # j.pos => e.gz[k] = d.gz[k]
  BY DEF GoodJob, RunDir, Contents
<1>2. i \in Job /\ i.pos = j.pos /\ i.refused = j.refused /\ i.step = "zip"
  BY DEF GoodJob, Job
<1>3. j.pos \in caps
  BY DEF Results
<1>4. Results(e, caps)
  BY <1>1, <1>3 DEF Results
<1>5. \A k \in Captures : k < j.pos => k # j.pos
  BY DEF Captures
<1>6. Zipping(e, i, caps)
  BY <1>1, <1>2, <1>3, <1>5 DEF GoodJob, Zipping
<1> QED
  BY <1>1, <1>2, <1>4, <1>6 DEF GoodJob, Beginning

LEMMA ZippedGood ==
    ASSUME NEW c, NEW d \in RunDir(c), NEW caps \in SUBSET Captures, Results(d, caps),
           NEW j, GoodJob(d, j, caps), j.step = "zip",
           NEW e, e = [d EXCEPT !.gz[j.pos] = d.raw[j.pos], !.raw[j.pos] = "none"],
           NEW i, i = [j EXCEPT !.step = "gzip", !.pos = j.pos + 1]
    PROVE  e \in RunDir(c) /\ GoodJob(e, i, caps) /\ Results(e, caps)
<1>1. j.pos \in caps /\ j.pos \in Captures /\ j.pos \in Nat /\ d.raw[j.pos] = "new"
  BY DEF GoodJob, Zipping, Captures
<1>2. /\ e \in RunDir(c) /\ ~e.done /\ e.log = d.log
      /\ e.raw[j.pos] = "none" /\ e.gz[j.pos] = "new"
      /\ \A k \in Captures : k # j.pos => e.gz[k] = d.gz[k] /\ e.raw[k] = d.raw[k]
  BY <1>1 DEF GoodJob, RunDir, Contents
<1>3. i \in Job /\ i.pos = j.pos + 1 /\ i.refused = j.refused /\ i.step = "gzip"
  <2>1. j \in Job /\ j.pos + 1 \in 1 .. CaptureCount + 1
    BY <1>1, NextPosition DEF GoodJob
  <2> QED
    BY <2>1 DEF Job
<1>4. Results(e, caps)
  BY <1>1, <1>2 DEF Results
<1>5. ASSUME NEW k \in Captures, k < i.pos, ~i.refused
      PROVE  e.raw[k] = "none" /\ e.gz[k] = IF k \in caps THEN "new" ELSE "none"
  <2>1. CASE k = j.pos
    BY <1>1, <1>2, <2>1
  <2>2. CASE k # j.pos
    <3>1. k < j.pos
      BY <1>1, <1>3, <1>5, <2>2 DEF Captures
    <3> QED
      BY <1>2, <1>3, <1>5, <2>2, <3>1 DEF GoodJob, Zipping
  <2> QED
    BY <2>1, <2>2
<1>6. \A k \in caps : k >= i.pos => e.raw[k] = "new"
  <2>1. \A k \in caps : k >= i.pos => k \in Captures /\ k >= j.pos /\ k # j.pos
    BY <1>1, <1>3 DEF Captures
  <2> QED
    BY <1>2, <2>1 DEF GoodJob, Zipping
<1>7. Zipping(e, i, caps)
  BY <1>2, <1>3, <1>5, <1>6 DEF GoodJob, Zipping
<1> QED
  BY <1>2, <1>3, <1>4, <1>7 DEF GoodJob, Beginning

(* The recipe is through, and gzip refused nothing. *)
LEMMA DoneGood ==
    ASSUME NEW c, NEW d \in RunDir(c), NEW caps \in SUBSET Captures, Results(d, caps),
           NEW j, GoodJob(d, j, caps), j.step = "gzip", j.pos > CaptureCount, ~j.refused,
           NEW e, e = [d EXCEPT !.done = TRUE]
    PROVE  e \in RunDir(c) /\ Results(e, caps)
<1>1. e \in RunDir(c) /\ e.log = d.log /\ e.raw = d.raw /\ e.gz = d.gz
  BY DEF RunDir
<1>2. \A k \in Captures : k < j.pos
  BY CampaignAssumption DEF GoodJob, Job, Captures
<1>3. e.log = "new" /\ \A k \in Captures :
          e.raw[k] = "none" /\ e.gz[k] = IF k \in caps THEN "new" ELSE "none"
  BY <1>1, <1>2 DEF GoodJob, Zipping
<1> QED
  BY <1>1, <1>3 DEF Results

-----------------------------------------------------------------------------
(* Steps of make. *)
LEMMA Replaced ==
    ASSUME NEW S, NEW s \in Seq(S), NEW i \in DOMAIN s, NEW d \in S,
           NEW t, t = [s EXCEPT ![i] = d]
    PROVE  /\ t \in Seq(S) /\ Len(t) = Len(s) /\ DOMAIN t = DOMAIN s
           /\ t[i] = d
           /\ \A k \in DOMAIN s : k # i => t[k] = s[k]
OBVIOUS

(* What a step of make leaves alone in the stage and in a directory.       *)
KeepsStage == UNCHANGED <<campaign, listing, sets, stage, rules>>
SameConf(d, e) == e.whole = d.whole /\ e.params = d.params

LEMMA RunsStaged ==
    ASSUME StageInv
    PROVE  /\ Len(dirs) \in Nat /\ DOMAIN dirs = 1 .. Len(dirs)
           /\ rules \in Nat /\ rules <= Len(dirs)
           /\ Runs \subseteq DOMAIN dirs
<1>1. Len(dirs) \in Nat /\ DOMAIN dirs = 1 .. Len(dirs)
  BY LenProperties DEF StageInv
<1>2. rules \in Nat /\ rules <= Len(dirs)
  BY DEF StageInv
<1> QED
  BY <1>1, <1>2 DEF Runs

LEMMA StageKept ==
    ASSUME StageInv, KeepsStage, dirs' \in Seq(RunDir(campaign)),
           Len(dirs') = Len(dirs),
           \A i \in DOMAIN dirs : SameConf(dirs[i], dirs'[i]),
           \A i \in DOMAIN dirs : i \notin Runs => dirs'[i] = dirs[i]
    PROVE  StageInv'
<1> DEFINE new == dirs'
<1>1. /\ campaign' = campaign /\ listing' = listing /\ sets' = sets /\ stage' = stage
      /\ rules' = rules /\ Runs' = Runs
  BY DEF KeepsStage, Runs
<1>2. /\ Len(dirs) \in Nat /\ DOMAIN dirs = 1 .. Len(dirs)
      /\ DOMAIN new = DOMAIN dirs /\ Len(new) = Len(dirs)
      /\ new \in Seq(RunDir(campaign))
      /\ dirs = <<>> => new = <<>>
  BY DEF StageInv
<1>3. \A i \in DOMAIN dirs : Complete(campaign, dirs[i]) => Complete(campaign, new[i])
  BY DEF SameConf, Complete
<1>4. stage = "params" => Complete(campaign, new[Len(new)])
  <2>1. stage = "params" => Len(dirs) \in DOMAIN dirs
    BY <1>2 DEF StageInv
  <2> QED
    BY <1>2, <1>3, <2>1 DEF StageInv
<1>5. \A i \in Runs : new[i].params /\ Complete(campaign, new[i])
  <2>1. Runs \subseteq DOMAIN dirs
    BY RunsStaged
  <2> QED
    BY <1>3, <2>1 DEF StageInv, SameConf
<1>6. \A i \in DOMAIN new : i \notin Runs => Untouched(new[i])
  BY <1>2 DEF StageInv
<1> HIDE DEF new
<1>7. /\ campaign \in Campaigns
      /\ listing \in Listings(campaign.template)
      /\ stage \in {"none", "conf", "params", "whole", "broken"}
  BY DEF StageInv
<1> QED
  BY <1>1, <1>2, <1>4, <1>5, <1>6, <1>7 DEF StageInv, new

(* One run takes a step: its directory becomes d, its recipe, if it is     *)
(* still under way, j.                                                     *)
LEMMA OneRun ==
    ASSUME StageInv, MakeInv, KeepsStage, NEW i \in Runs,
           NEW d \in RunDir(campaign), SameConf(dirs[i], d), SetDir(i, d),
           Results(d, CapsOf(campaign, dirs[i])),
           \A k \in DOMAIN jobs' : k # i => k \in DOMAIN jobs /\ jobs'[k] = jobs[k],
           i \in DOMAIN jobs' => GoodJob(d, jobs'[i], CapsOf(campaign, dirs[i]))
    PROVE  StageInv' /\ MakeInv'
<1> DEFINE new == dirs'
           newJobs == jobs'
<1>1. /\ Len(dirs) \in Nat /\ DOMAIN dirs = 1 .. Len(dirs)
      /\ Runs \subseteq DOMAIN dirs /\ i \in DOMAIN dirs
      /\ dirs \in Seq(RunDir(campaign))
  BY DEF StageInv, Runs
<1>2. /\ new \in Seq(RunDir(campaign)) /\ Len(new) = Len(dirs) /\ DOMAIN new = DOMAIN dirs
      /\ new[i] = d
      /\ \A k \in DOMAIN dirs : k # i => new[k] = dirs[k]
  BY <1>1, Replaced DEF SetDir
<1>3. \A k \in DOMAIN dirs : SameConf(dirs[k], new[k])
  BY <1>2 DEF SameConf
<1>4. StageInv'
  BY <1>2, <1>3, StageKept
<1>5. campaign' = campaign /\ Runs' = Runs
  BY DEF KeepsStage, Runs
<1>6. \A k \in DOMAIN dirs : CapsOf(campaign, new[k]) = CapsOf(campaign, dirs[k])
  BY <1>3 DEF SameConf, CapsOf
<1> HIDE DEF new, newJobs
<1>7. \A k \in DOMAIN new : Results(new[k], CapsOf(campaign, new[k]))
  BY <1>1, <1>2, <1>6 DEF MakeInv
<1>8. \A k \in DOMAIN newJobs : k \in Runs /\ GoodJob(new[k], newJobs[k], CapsOf(campaign, new[k]))
  BY <1>1, <1>2, <1>6 DEF MakeInv, GoodJob, newJobs
<1>9. MakeInv'
  BY <1>5, <1>7, <1>8 DEF MakeInv, GoodJob, new, newJobs
<1> QED
  BY <1>4, <1>9

LEMMA JobFacts ==
    ASSUME StageInv, MakeInv, NEW i \in DOMAIN jobs
    PROVE  /\ i \in Runs /\ i \in DOMAIN dirs /\ dirs[i] \in RunDir(campaign)
           /\ CapsOf(campaign, dirs[i]) \in SUBSET Captures
           /\ Results(dirs[i], CapsOf(campaign, dirs[i]))
           /\ GoodJob(dirs[i], jobs[i], CapsOf(campaign, dirs[i]))
<1>1. i \in Runs /\ i \in DOMAIN dirs
  BY RunsStaged DEF MakeInv
<1>2. dirs[i] \in RunDir(campaign)
  BY <1>1, ElementOfSeq, RunsStaged DEF StageInv
<1> QED
  BY <1>1, <1>2 DEF MakeInv, GoodJob, CapsOf

(* The recipe goes on. *)
LEMMA RunGoesOn ==
    ASSUME StageInv, MakeInv, KeepsStage, NEW i \in DOMAIN jobs,
           NEW d \in RunDir(campaign), SameConf(dirs[i], d), SetDir(i, d),
           Results(d, CapsOf(campaign, dirs[i])),
           NEW j, SetJob(i, j), GoodJob(d, j, CapsOf(campaign, dirs[i]))
    PROVE  StageInv' /\ MakeInv'
<1>1. i \in Runs
  BY JobFacts
<1>2. /\ \A k \in DOMAIN jobs' : k # i => k \in DOMAIN jobs /\ jobs'[k] = jobs[k]
      /\ jobs'[i] = j
  BY DEF SetJob
<1> QED
  BY <1>1, <1>2, OneRun

(* It ends. *)
LEMMA RunEnds ==
    ASSUME StageInv, MakeInv, KeepsStage, NEW i \in DOMAIN jobs,
           NEW d \in RunDir(campaign), SameConf(dirs[i], d), SetDir(i, d),
           Results(d, CapsOf(campaign, dirs[i])), Drop(i)
    PROVE  StageInv' /\ MakeInv'
<1>1. i \in Runs
  BY JobFacts
<1>2. /\ \A k \in DOMAIN jobs' : k # i => k \in DOMAIN jobs /\ jobs'[k] = jobs[k]
      /\ i \notin DOMAIN jobs'
  BY DEF Drop
<1> QED
  BY <1>1, <1>2, OneRun

LEMMA DirKept ==
    ASSUME StageInv, NEW i \in DOMAIN dirs, UNCHANGED dirs
    PROVE  SetDir(i, dirs[i]) /\ SameConf(dirs[i], dirs[i])
<1>1. dirs \in Seq(RunDir(campaign))
  BY DEF StageInv
<1>2. dirs = [dirs EXCEPT ![i] = dirs[i]]
  BY <1>1
<1> QED
  BY <1>2 DEF SetDir, SameConf

LEMMA RecipeStep ==
    ASSUME StageInv, MakeInv, NEW i \in DOMAIN jobs, Recipe(i)
    PROVE  StageInv' /\ MakeInv'
<1> DEFINE d == dirs[i]
           j == jobs[i]
           caps == CapsOf(campaign, d)
<1>1. /\ i \in DOMAIN dirs /\ d \in RunDir(campaign) /\ caps \in SUBSET Captures
      /\ Results(d, caps) /\ GoodJob(d, j, caps)
  BY JobFacts
<1>2. KeepsStage
  BY DEF Recipe, KeepsStage
<1>3. caps = CapturesOf(d)
  BY DEF CapsOf, CapturesOf
<1>4. ASSUME SimStarts(i) PROVE StageInv' /\ MakeInv'
  <2> DEFINE e == [d EXCEPT !.log = "part",
                            !.raw = [k \in Captures |-> IF k \in caps THEN "part" ELSE @[k]]]
             n == [j EXCEPT !.step = "run"]
  <2>1. j.step = "start" /\ SetDir(i, e) /\ SetJob(i, n)
    BY <1>3, <1>4 DEF SimStarts
  <2>2. SameConf(d, e)
    BY <1>1 DEF SameConf, RunDir
  <2>3. e \in RunDir(campaign) /\ GoodJob(e, n, caps) /\ Results(e, caps)
    BY <1>1, <2>1, SimStartsGood
  <2> HIDE DEF e, n
  <2> QED
    BY <1>2, <2>1, <2>2, <2>3, RunGoesOn
<1>5. ASSUME SimRefuses(i) \/ SimDies(i) PROVE StageInv' /\ MakeInv'
  <2>1. Drop(i) /\ UNCHANGED dirs
    BY <1>5 DEF SimRefuses, SimDies, RecipeFails
  <2>2. SetDir(i, d) /\ SameConf(d, d)
    BY <1>1, <2>1, DirKept
  <2> QED
    BY <1>1, <1>2, <2>1, <2>2, RunEnds
<1>6. ASSUME SimEnds(i) PROVE StageInv' /\ MakeInv'
  <2> DEFINE e == [d EXCEPT !.log = "new",
                            !.raw = [k \in Captures |-> IF k \in caps THEN "new" ELSE @[k]]]
             n == [j EXCEPT !.step = "gzip"]
  <2>1. j.step = "run" /\ SetDir(i, e) /\ SetJob(i, n)
    BY <1>3, <1>6 DEF SimEnds
  <2>2. SameConf(d, e)
    BY <1>1 DEF SameConf, RunDir
  <2>3. e \in RunDir(campaign) /\ GoodJob(e, n, caps) /\ Results(e, caps)
    BY <1>1, <2>1, SimEndsGood
  <2> HIDE DEF e, n
  <2> QED
    BY <1>2, <2>1, <2>2, <2>3, RunGoesOn
<1>7. ASSUME GzipStarts(i) PROVE StageInv' /\ MakeInv'
  <2>1. j.step = "gzip" /\ j.pos \in Captures
    BY <1>7 DEF GzipStarts
  <2>2. CASE d.raw[j.pos] = "none" /\ SetJob(i, [j EXCEPT !.pos = j.pos + 1]) /\ UNCHANGED dirs
    <3>1. GoodJob(d, [j EXCEPT !.pos = j.pos + 1], caps)
      BY <1>1, <2>1, <2>2, PassGood
    <3>2. SetDir(i, d) /\ SameConf(d, d)
      BY <1>1, <2>2, DirKept
    <3> QED
      BY <1>1, <1>2, <2>2, <3>1, <3>2, RunGoesOn
  <2>3. CASE SetJob(i, [j EXCEPT !.pos = j.pos + 1, !.refused = TRUE]) /\ UNCHANGED dirs
    <3>1. GoodJob(d, [j EXCEPT !.pos = j.pos + 1, !.refused = TRUE], caps)
      BY <1>1, <2>1, RefuseGood
    <3>2. SetDir(i, d) /\ SameConf(d, d)
      BY <1>1, <2>3, DirKept
    <3> QED
      BY <1>1, <1>2, <2>3, <3>1, <3>2, RunGoesOn
  <2>4. CASE /\ d.raw[j.pos] # "none"
             /\ SetJob(i, [j EXCEPT !.step = "zip"])
             /\ SetDir(i, [d EXCEPT !.gz[j.pos] = "part"])
    <3> DEFINE e == [d EXCEPT !.gz[j.pos] = "part"]
               n == [j EXCEPT !.step = "zip"]
    <3>1. SameConf(d, e)
      BY <1>1 DEF SameConf, RunDir
    <3>2. e \in RunDir(campaign) /\ GoodJob(e, n, caps) /\ Results(e, caps)
      BY <1>1, <2>1, <2>4, ZipGood
    <3>3. SetDir(i, e) /\ SetJob(i, n)
      BY <2>4
    <3> HIDE DEF e, n
    <3> QED
      BY <1>2, <3>1, <3>2, <3>3, RunGoesOn
  <2> QED
    BY <1>7, <2>2, <2>3, <2>4 DEF GzipStarts
<1>8. ASSUME GzipEnds(i) PROVE StageInv' /\ MakeInv'
  <2> DEFINE e == [d EXCEPT !.gz[j.pos] = d.raw[j.pos], !.raw[j.pos] = "none"]
             n == [j EXCEPT !.step = "gzip", !.pos = j.pos + 1]
  <2>1. j.step = "zip" /\ SetDir(i, e) /\ SetJob(i, n)
    BY <1>8 DEF GzipEnds
  <2>2. SameConf(d, e)
    BY <1>1 DEF SameConf, RunDir
  <2>3. e \in RunDir(campaign) /\ GoodJob(e, n, caps) /\ Results(e, caps)
    BY <1>1, <2>1, ZippedGood
  <2> HIDE DEF e, n
  <2> QED
    BY <1>2, <2>1, <2>2, <2>3, RunGoesOn
<1>9. ASSUME RecipeEnds(i) PROVE StageInv' /\ MakeInv'
  <2>1. j.step = "gzip" /\ j.pos > CaptureCount
    BY <1>9 DEF RecipeEnds
  <2>2. CASE j.refused
    <3>1. Drop(i) /\ UNCHANGED dirs
      BY <1>9, <2>2 DEF RecipeEnds, RecipeFails
    <3>2. SetDir(i, d) /\ SameConf(d, d)
      BY <1>1, <3>1, DirKept
    <3> QED
      BY <1>1, <1>2, <3>1, <3>2, RunEnds
  <2>3. CASE ~j.refused
    <3> DEFINE e == [d EXCEPT !.done = TRUE]
    <3>1. SetDir(i, e) /\ Drop(i)
      BY <1>9, <2>3 DEF RecipeEnds
    <3>2. SameConf(d, e)
      BY <1>1 DEF SameConf, RunDir
    <3>3. e \in RunDir(campaign) /\ Results(e, caps)
      BY <1>1, <2>1, <2>3, DoneGood
    <3> HIDE DEF e
    <3> QED
      BY <1>2, <3>1, <3>2, <3>3, RunEnds
  <2> QED
    BY <2>2, <2>3
<1> QED
  BY <1>4, <1>5, <1>6, <1>7, <1>8, <1>9 DEF Recipe

LEMMA StartJobStep ==
    ASSUME StageInv, MakeInv, StartJob
    PROVE  StageInv' /\ MakeInv'
<1> DEFINE new(d) == [d EXCEPT !.raw = [c \in Captures |-> IF @[c] = "new" THEN "old" ELSE @[c]],
                               !.gz = [c \in Captures |-> IF @[c] = "new" THEN "old" ELSE @[c]]]
           first == [step |-> "start", pos |-> 1, refused |-> FALSE]
<1>1. PICK i \in Runs :
          /\ ~dirs[i].done
          /\ jobs' = [k \in DOMAIN jobs \cup {i} |-> IF k = i THEN first ELSE jobs[k]]
          /\ SetDir(i, new(dirs[i]))
  BY DEF StartJob
<1> DEFINE d == dirs[i]
           caps == CapsOf(campaign, d)
           e == new(d)
<1>2. i \in DOMAIN dirs /\ d \in RunDir(campaign)
  BY RunsStaged, ElementOfSeq DEF StageInv
<1>3. caps \in SUBSET Captures /\ Results(d, caps) /\ ~d.done
  BY <1>1, <1>2 DEF MakeInv, CapsOf
<1>4. e \in RunDir(campaign) /\ GoodJob(e, first, caps) /\ Results(e, caps)
  BY <1>2, <1>3, StartGood
<1>5. SameConf(d, e)
  BY <1>2 DEF SameConf, RunDir
<1>6. KeepsStage
  BY DEF StartJob, KeepsStage
<1>7. SetDir(i, e)
  BY <1>1
<1> HIDE DEF first, e
<1>8. /\ \A k \in DOMAIN jobs' : k # i => k \in DOMAIN jobs /\ jobs'[k] = jobs[k]
      /\ i \in DOMAIN jobs' => jobs'[i] = first
  BY <1>1
<1> QED
  BY <1>1, <1>4, <1>5, <1>6, <1>7, <1>8, OneRun

(* make and its recipes are interrupted: gzip takes back the file it is    *)
(* writing, at most.  make clean removes what is compressed with done_sim. *)
LEMMA TakenBack ==
    ASSUME NEW c, NEW d \in RunDir(c), NEW caps \in SUBSET Captures, Results(d, caps), ~d.done,
           NEW p, NEW e, e = [d EXCEPT !.gz[p] = "none"]
    PROVE  e \in RunDir(c) /\ Results(e, caps) /\ SameConf(d, e)
BY DEF RunDir, Contents, Results, SameConf

LEMMA Cleaned ==
    ASSUME NEW c, NEW d \in RunDir(c), NEW caps \in SUBSET Captures, Results(d, caps),
           NEW e, e = [d EXCEPT !.done = FALSE, !.gz = [k \in Captures |-> "none"]]
    PROVE  e \in RunDir(c) /\ Results(e, caps) /\ SameConf(d, e)
BY DEF RunDir, Contents, Results, SameConf

(* All directories may change when no recipe is under way any more.        *)
LEMMA AllRuns ==
    ASSUME StageInv, KeepsStage, jobs' = NoJobs,
           NEW new, dirs' = new, DOMAIN new = DOMAIN dirs, new = [i \in DOMAIN dirs |-> new[i]],
           \A i \in DOMAIN dirs :
               /\ new[i] \in RunDir(campaign)
               /\ Results(new[i], CapsOf(campaign, dirs[i]))
               /\ SameConf(dirs[i], new[i])
               /\ i \notin Runs => new[i] = dirs[i]
    PROVE  StageInv' /\ MakeInv'
<1>1. Len(dirs) \in Nat /\ DOMAIN dirs = 1 .. Len(dirs)
  BY RunsStaged
<1>2. new \in Seq(RunDir(campaign)) /\ Len(new) = Len(dirs)
  BY <1>1
<1>3. StageInv'
  BY <1>2, StageKept
<1>4. campaign' = campaign /\ DOMAIN jobs' = {}
  BY DEF KeepsStage, NoJobs
<1>5. \A i \in DOMAIN new : Results(new[i], CapsOf(campaign, new[i]))
  BY DEF SameConf, CapsOf
<1> QED
  BY <1>3, <1>4, <1>5 DEF MakeInv

LEMMA InterruptedStep ==
    ASSUME StageInv, MakeInv, NEW killed, MakeInterrupted(killed)
    PROVE  StageInv' /\ MakeInv'
<1> DEFINE new == [i \in DOMAIN dirs |->
                      IF i \in DOMAIN jobs /\ jobs[i].step = "zip" /\ ~killed
                      THEN [dirs[i] EXCEPT !.gz[jobs[i].pos] = "none"]
                      ELSE dirs[i]]
<1>1. KeepsStage /\ jobs' = NoJobs /\ dirs' = new
  BY DEF MakeInterrupted, KeepsStage
<1>2. ASSUME NEW i \in DOMAIN dirs
      PROVE  /\ new[i] \in RunDir(campaign)
             /\ Results(new[i], CapsOf(campaign, dirs[i]))
             /\ SameConf(dirs[i], new[i])
             /\ i \notin Runs => new[i] = dirs[i]
  <2> DEFINE caps == CapsOf(campaign, dirs[i])
  <2>1. dirs[i] \in RunDir(campaign) /\ caps \in SUBSET Captures /\ Results(dirs[i], caps)
    BY RunsStaged, ElementOfSeq DEF StageInv, MakeInv, CapsOf
  <2>2. CASE i \in DOMAIN jobs /\ new[i] = [dirs[i] EXCEPT !.gz[jobs[i].pos] = "none"]
    <3>1. i \in Runs /\ ~dirs[i].done
      BY <2>2 DEF MakeInv
    <3> QED
      BY <2>1, <2>2, <3>1, TakenBack
  <2>3. CASE new[i] = dirs[i]
    BY <2>1, <2>3 DEF SameConf
  <2> QED
    BY <2>2, <2>3
<1>3. DOMAIN new = DOMAIN dirs /\ new = [i \in DOMAIN dirs |-> new[i]]
  OBVIOUS
<1> HIDE DEF new
<1> QED
  BY <1>1, <1>2, <1>3, AllRuns

LEMMA CleanStep ==
    ASSUME StageInv, MakeInv, IdleInv, MakeClean
    PROVE  StageInv' /\ MakeInv'
<1> DEFINE new == [i \in DOMAIN dirs |->
                      IF i \in Runs
                      THEN [dirs[i] EXCEPT !.done = FALSE, !.gz = [c \in Captures |-> "none"]]
                      ELSE dirs[i]]
<1>1. KeepsStage /\ jobs' = NoJobs /\ dirs' = new
  BY DEF MakeClean, KeepsStage, makeVars, IdleInv
<1>2. ASSUME NEW i \in DOMAIN dirs
      PROVE  /\ new[i] \in RunDir(campaign)
             /\ Results(new[i], CapsOf(campaign, dirs[i]))
             /\ SameConf(dirs[i], new[i])
             /\ i \notin Runs => new[i] = dirs[i]
  <2> DEFINE caps == CapsOf(campaign, dirs[i])
  <2>1. dirs[i] \in RunDir(campaign) /\ caps \in SUBSET Captures /\ Results(dirs[i], caps)
    BY RunsStaged, ElementOfSeq DEF StageInv, MakeInv, CapsOf
  <2>2. CASE i \in Runs
    BY <2>1, <2>2, Cleaned
  <2>3. CASE i \notin Runs
    BY <2>1, <2>3 DEF SameConf
  <2> QED
    BY <2>2, <2>3
<1>3. DOMAIN new = DOMAIN dirs /\ new = [i \in DOMAIN dirs |-> new[i]]
  OBVIOUS
<1> HIDE DEF new
<1> QED
  BY <1>1, <1>2, <1>3, AllRuns

-----------------------------------------------------------------------------
(* Steps of stagesim. *)
LEMMA SimStaged ==
    ASSUME StageInv, MakeInv, StageSim
    PROVE  StageInv' /\ MakeInv'
<1>1. /\ stage = "none" /\ stage' = "conf" /\ Buildable(campaign.enum)
      /\ sets' = EnumGen(campaign.enum)
      /\ UNCHANGED <<campaign, listing, dirs, rules, jobs>>
  BY DEF StageSim, makeVars
<1>2. dirs = <<>> /\ rules = 0 /\ Len(dirs) = 0
  BY <1>1 DEF StageInv
<1>3. StageInv'
  BY <1>1, <1>2 DEF StageInv, Runs
<1>4. MakeInv'
  BY <1>1 DEF MakeInv, Runs
<1> QED
  BY <1>3, <1>4

(* Nothing changes for the runs there are. *)
LEMMA RunAdded ==
    ASSUME StageInv, MakeInv, UNCHANGED <<campaign, jobs>>,
           rules' \in Nat, rules <= rules',
           DOMAIN dirs \subseteq DOMAIN dirs',
           \A i \in Runs : dirs'[i] = dirs[i],
           \A i \in DOMAIN dirs' : i \notin Runs => Untouched(dirs'[i])
    PROVE  MakeInv'
<1> DEFINE new == dirs'
<1>1. Runs \subseteq DOMAIN dirs /\ Runs \subseteq Runs'
  BY RunsStaged DEF Runs
<1>2. \A i \in DOMAIN new : Results(new[i], CapsOf(campaign, new[i]))
  BY <1>1 DEF MakeInv, Results, Untouched
<1>3. \A i \in DOMAIN jobs :
          /\ i \in Runs' /\ jobs[i] \in Job /\ ~new[i].done /\ Beginning(jobs[i])
          /\ Zipping(new[i], jobs[i], CapsOf(campaign, new[i]))
  BY <1>1 DEF MakeInv
<1> HIDE DEF new
<1>4. campaign' = campaign /\ jobs' = jobs
  OBVIOUS
<1> QED
  BY <1>2, <1>3, <1>4 DEF MakeInv, new

LEMMA ConfStaged ==
    ASSUME StageInv, MakeInv, StageConf
    PROVE  StageInv' /\ MakeInv'
<1> DEFINE kv  == sets.out[Len(dirs) + 1]
           app == Applications(kv)
           d   == [EmptyDir(kv) EXCEPT !.written = app.written, !.whole = app.whole]
           new == dirs'
<1>1. /\ stage = "conf" /\ Len(dirs) < Len(sets.out)
      /\ dirs' = Append(dirs, d)
      /\ stage' = IF app.raises THEN "broken" ELSE "params"
      /\ UNCHANGED <<campaign, sets, listing, rules, jobs>>
  BY DEF StageConf, makeVars
<1>2. /\ campaign \in Campaigns /\ Buildable(campaign.enum) /\ sets = EnumGen(campaign.enum)
      /\ listing \in Listings(campaign.template) /\ rules = Len(dirs)
      /\ dirs \in Seq(RunDir(campaign))
  BY <1>1 DEF StageInv
<1>3. kv \in Assignments(campaign)
  <2>1. sets.out \in Seq(ToSet(sets.out))
    BY <1>2, CampaignAssumption
  <2>2. Len(dirs) + 1 \in 1 .. Len(sets.out)
    BY <1>1, <2>1, RunsStaged
  <2> QED
    BY <1>2, <2>1, <2>2, ElementOfSeq DEF Assignments
<1>4. /\ app.written \subseteq NamesIn(campaign)
      /\ app.whole \subseteq NamesIn(campaign)
      /\ ~app.raises => app.whole = NamesIn(campaign) \/ FailsIn(campaign)
  BY <1>2, TemplateApplied
<1> HIDE DEF kv, app
<1>5. d \in RunDir(campaign) /\ Untouched(d) /\ d.whole = app.whole
  BY <1>3, <1>4 DEF EmptyDir, RunDir, Contents, Untouched
<1> HIDE DEF d
<1>6. /\ Len(dirs) \in Nat /\ DOMAIN dirs = 1 .. Len(dirs)
      /\ new \in Seq(RunDir(campaign))
      /\ Len(new) = Len(dirs) + 1
      /\ DOMAIN new = 1 .. Len(dirs) + 1
      /\ \A i \in 1 .. Len(dirs) : new[i] = dirs[i]
      /\ new[Len(dirs) + 1] = d
  BY <1>1, <1>2, <1>5
<1>7. Runs = DOMAIN dirs /\ Runs' = Runs
  BY <1>1, <1>2, <1>6 DEF Runs
<1>8. \A i \in DOMAIN new : i \notin Runs => Untouched(new[i])
  <2>1. \A i \in DOMAIN new : i \notin Runs => i = Len(dirs) + 1
    BY <1>6, <1>7
  <2> QED
    BY <1>5, <1>6, <2>1
<1>9. MakeInv'
  BY <1>1, <1>6, <1>7, <1>8, RunAdded, RunsStaged
<1>10. \A i \in Runs : new[i].params /\ Complete(campaign, new[i])
  BY <1>6, <1>7 DEF StageInv
<1>11. stage' = "params" => Complete(campaign, new[Len(new)])
  BY <1>1, <1>4, <1>5, <1>6 DEF Complete
<1>12. stage' \in {"params", "broken"} /\ rules \in Nat /\ rules + 1 = Len(new)
  BY <1>1, <1>2, <1>6
<1> HIDE DEF new
<1>13. StageInv'
  BY <1>1, <1>2, <1>6, <1>7, <1>8, <1>10, <1>11, <1>12 DEF StageInv, new
<1> QED
  BY <1>9, <1>13

LEMMA ParamsStaged ==
    ASSUME StageInv, MakeInv, StageParams
    PROVE  StageInv' /\ MakeInv'
<1> DEFINE last == Len(dirs)
           new == dirs'
<1>1. /\ stage = "params" /\ stage' = "conf" /\ rules' = rules + 1
      /\ dirs' = [dirs EXCEPT ![last].params = TRUE]
      /\ UNCHANGED <<campaign, sets, listing, jobs>>
  BY DEF StageParams, makeVars
<1>2. /\ campaign \in Campaigns /\ Buildable(campaign.enum) /\ sets = EnumGen(campaign.enum)
      /\ listing \in Listings(campaign.template) /\ rules + 1 = last
      /\ dirs \in Seq(RunDir(campaign)) /\ Complete(campaign, dirs[last])
  BY <1>1 DEF StageInv
<1>3. last \in Nat /\ DOMAIN dirs = 1 .. last /\ rules \in Nat /\ last \in DOMAIN dirs
  BY <1>2, RunsStaged
<1> DEFINE d == [dirs[last] EXCEPT !.params = TRUE]
<1>4. dirs[last] \in RunDir(campaign)
  BY <1>2, <1>3, ElementOfSeq
<1>5. d \in RunDir(campaign) /\ d.params /\ Complete(campaign, d)
  BY <1>2, <1>4 DEF RunDir, Complete
<1>6. Untouched(dirs[last]) => Untouched(d)
  BY <1>4 DEF RunDir, Untouched
<1>7. new = [dirs EXCEPT ![last] = d]
  BY <1>1
<1> HIDE DEF d
<1>8. /\ new \in Seq(RunDir(campaign)) /\ Len(new) = last /\ DOMAIN new = DOMAIN dirs
      /\ new[last] = d
      /\ \A i \in DOMAIN dirs : i # last => new[i] = dirs[i]
  BY <1>2, <1>3, <1>5, <1>7, Replaced
<1>9. /\ Runs = 1 .. rules /\ Runs' = DOMAIN dirs /\ last \notin Runs
      /\ \A i \in DOMAIN dirs : i \in Runs \/ i = last
  BY <1>1, <1>2, <1>3 DEF Runs
<1>10. \A i \in DOMAIN new : i \notin Runs => Untouched(new[i])
  BY <1>3, <1>6, <1>8, <1>9 DEF StageInv
<1>11. \A i \in Runs : new[i] = dirs[i]
  BY <1>8, <1>9, RunsStaged
<1>12. rules' \in Nat /\ rules <= rules' /\ rules' = Len(new)
  BY <1>1, <1>2, <1>3, <1>8
<1>13. UNCHANGED <<campaign, jobs>> /\ DOMAIN dirs \subseteq DOMAIN dirs'
  BY <1>1, <1>8
<1>14. MakeInv'
  BY <1>10, <1>11, <1>12, <1>13, RunAdded
<1>15. \A i \in DOMAIN new : new[i].params /\ Complete(campaign, new[i])
  BY <1>5, <1>8, <1>9 DEF StageInv
<1> HIDE DEF new
<1>16. StageInv'
  <2>1. \A i \in Runs' : new[i].params /\ Complete(campaign, new[i])
    BY <1>8, <1>9, <1>15
  <2>2. \A i \in DOMAIN new : i \in Runs'
    BY <1>8, <1>9
  <2>3. /\ campaign' = campaign /\ listing' = listing /\ sets' = sets
        /\ stage' \in {"none", "conf", "params", "whole", "broken"}
        /\ stage' # "none" /\ stage' # "params"
    BY <1>1
  <2>4. rules' \in Nat /\ rules' <= Len(new)
    BY <1>3, <1>8, <1>12
  <2> QED
    BY <1>2, <1>8, <1>12, <2>1, <2>2, <2>3, <2>4 DEF StageInv, new
<1> QED
  BY <1>14, <1>16

(* The stage ends or breaks off, or what the invariants are about stays as *)
(* it is.                                                                  *)
LEMMA OtherSteps ==
    ASSUME StageInv, MakeInv,
           UNCHANGED <<campaign, listing, sets, dirs, rules, jobs>>,
           stage' = stage \/ (stage # "none" /\ stage' = "broken")
               \/ (stage = "conf" /\ stage' = "whole")
    PROVE  StageInv' /\ MakeInv'
<1>1. Runs' = Runs
  BY DEF Runs
<1>2. stage' \in {"none", "conf", "params", "whole", "broken"}
  BY DEF StageInv
<1>3. StageInv'
  BY <1>1, <1>2 DEF StageInv
<1>4. MakeInv'
  BY <1>1 DEF MakeInv
<1> QED
  BY <1>3, <1>4

-----------------------------------------------------------------------------
LEMMA CampaignInit == Init => CampaignInv
<1> SUFFICES ASSUME Init PROVE CampaignInv
  OBVIOUS
<1>1. /\ campaign \in Campaigns /\ listing \in Listings(campaign.template)
      /\ stage = "none" /\ dirs = <<>> /\ rules = 0 /\ making = "idle" /\ jobs = NoJobs
  BY DEF Init
<1>2. /\ dirs \in Seq(RunDir(campaign)) /\ Len(dirs) = 0 /\ DOMAIN dirs = {} /\ Runs = {}
      /\ DOMAIN jobs = {}
  BY <1>1 DEF Runs, NoJobs
<1>3. StageInv
  BY <1>1, <1>2 DEF StageInv
<1> QED
  BY <1>1, <1>2, <1>3 DEF CampaignInv, MakeInv, IdleInv

LEMMA IdleNext ==
    ASSUME IdleInv, [Next]_vars
    PROVE  IdleInv'
<1>1. CASE Staging \/ StageInterrupted \/ CreateParamsTable \/ UNCHANGED vars
  BY <1>1 DEF Staging, StageSim, StageConf, StageParams, StageEnds, StageInterrupted,
              CreateParamsTable, makeVars, vars, IdleInv
<1>2. CASE Make \/ StartJob \/ MakeEnds \/ MakeClean \/ \E killed \in BOOLEAN : MakeInterrupted(killed)
  BY <1>2 DEF Make, StartJob, MakeEnds, MakeClean, MakeInterrupted, makeVars, IdleInv
<1>3. ASSUME NEW i \in DOMAIN jobs, Recipe(i) PROVE IdleInv'
  <2>1. making # "idle"
    BY <1>3 DEF IdleInv, NoJobs
  <2>2. making' = making \/ making' = "failing"
    BY <1>3 DEF Recipe, SimStarts, SimRefuses, SimDies, SimEnds, GzipStarts, GzipEnds,
                RecipeEnds, RecipeFails
  <2> QED
    BY <2>1, <2>2 DEF IdleInv
<1> QED
  BY <1>1, <1>2, <1>3 DEF Next

LEMMA CampaignNext == CampaignInv /\ [Next]_vars => CampaignInv'
<1> SUFFICES ASSUME CampaignInv, [Next]_vars PROVE StageInv' /\ MakeInv' /\ IdleInv'
  BY DEF CampaignInv
<1> USE DEF CampaignInv
<1>1. IdleInv'
  BY IdleNext
<1>2. CASE StageSim
  BY <1>1, <1>2, SimStaged
<1>3. CASE StageConf
  BY <1>1, <1>3, ConfStaged
<1>4. CASE StageParams
  BY <1>1, <1>4, ParamsStaged
<1>5. CASE StageEnds
  BY <1>1, <1>5, OtherSteps DEF StageEnds, makeVars
<1>6. CASE StageInterrupted
  BY <1>1, <1>6, OtherSteps DEF StageInterrupted, makeVars
<1>7. CASE Make
  BY <1>1, <1>7, OtherSteps DEF Make, stageVars
<1>8. CASE StartJob
  BY <1>1, <1>8, StartJobStep
<1>9. ASSUME NEW i \in DOMAIN jobs, Recipe(i) PROVE StageInv' /\ MakeInv' /\ IdleInv'
  BY <1>1, <1>9, RecipeStep
<1>10. CASE MakeEnds
  BY <1>1, <1>10, OtherSteps DEF MakeEnds, stageVars
<1>11. ASSUME NEW killed, MakeInterrupted(killed) PROVE StageInv' /\ MakeInv' /\ IdleInv'
  BY <1>1, <1>11, InterruptedStep
<1>12. CASE MakeClean
  BY <1>1, <1>12, CleanStep
<1>13. CASE CreateParamsTable
  BY <1>1, <1>13, OtherSteps DEF CreateParamsTable, stageVars, makeVars
<1>14. CASE UNCHANGED vars
  BY <1>1, <1>14, OtherSteps DEF vars, stageVars, makeVars
<1> QED
  BY <1>2, <1>3, <1>4, <1>5, <1>6, <1>7, <1>8, <1>9, <1>10, <1>11, <1>12, <1>13, <1>14
     DEF Next, Staging

(* Nothing is simulated with half a configuration or without a record of   *)
(* its parameters (stagesim, genconf.apply_template), for every campaign,  *)
(* except where PHP code fails.                                            *)
THEOREM SimulatedAsStagedCorrect == Spec => []SimulatedAsStaged
<1>1. StageInv /\ MakeInv => SimulatedAsStaged
  <2> SUFFICES ASSUME StageInv, MakeInv, NEW i \in DOMAIN dirs,
                      i \in DOMAIN jobs \/ dirs[i].log # "none"
               PROVE  dirs[i].params /\ (Whole(dirs[i]) \/ PhpFails)
    BY DEF SimulatedAsStaged
  <2>1. i \in Runs
    BY DEF StageInv, MakeInv, Untouched
  <2> QED
    BY <2>1 DEF StageInv, Complete, NamesIn, FailsIn, Whole, PhpFails
<1> QED
  BY <1>1, CampaignInit, CampaignNext, PTL DEF Spec, CampaignInv

(* done_sim stands for the whole log and all captures of one simulation,   *)
(* whatever was interrupted, killed or cleaned before, for every number of *)
(* runs, captures and jobs (the rules that stagesim writes).               *)
THEOREM DoneIsWholeCorrect == Spec => []DoneIsWhole
<1>1. MakeInv => DoneIsWhole
  BY DEF MakeInv, Results, DoneIsWhole, CapsOf, CapturesOf
<1> QED
  BY <1>1, CampaignInit, CampaignNext, PTL DEF Spec, CampaignInv

-----------------------------------------------------------------------------
(* The table of the parameter sets.  The type of a column is a function of *)
(* the set of its values, whatever the order of the directories.           *)
TypeOf(values) ==
    IF values \subseteq IntValues THEN "int"
    ELSE IF values \subseteq IntValues \cup RealValues THEN "real"
    ELSE "varchar"

(* The values of k in the directories ds[order[j]], j in s.                *)
ValuesAt(ds, k, order, s) ==
    {ds[order[j]].kv[k] : j \in {i \in s : k \in DOMAIN ds[order[i]].kv}}

(* The type that get_params has found after the lines in s, from the types *)
(* f after fewer lines.                                                    *)
NarrowFrom(ds, k, order, f) ==
    [s \in SUBSET (DOMAIN order) |->
        IF s = {} THEN "int"
        ELSE (IF k \in DOMAIN ds[order[Max(s)]].kv
              THEN Narrow(f[s \ {Max(s)}], ds[order[Max(s)]].kv[k])
              ELSE f[s \ {Max(s)}])]

TypesAt(ds, k, order) ==
    [s \in SUBSET (DOMAIN order) |-> TypeOf(ValuesAt(ds, k, order, s))]

LEMMA NarrowTypeOf ==
    ASSUME NEW V, NEW v
    PROVE  Narrow(TypeOf(V), v) = TypeOf(V \cup {v})
<1>1. v \in RealValues => v \notin IntValues
  BY CampaignAssumption
<1>2. CASE ~(V \subseteq IntValues \cup RealValues)
  <2>1. TypeOf(V) = "varchar" /\ TypeOf(V \cup {v}) = "varchar"
    BY <1>2 DEF TypeOf
  <2>2. Narrow("varchar", v) = "varchar"
    BY DEF Narrow
  <2> QED
    BY <2>1, <2>2
<1>3. CASE V \subseteq IntValues \cup RealValues /\ v \notin IntValues \cup RealValues
  <2>1. TypeOf(V) \in {"int", "real"} /\ TypeOf(V \cup {v}) = "varchar"
    BY <1>3 DEF TypeOf
  <2>2. \A t \in {"int", "real"} : Narrow(t, v) = "varchar"
    BY <1>3 DEF Narrow
  <2> QED
    BY <2>1, <2>2
<1>4. CASE V \subseteq IntValues \cup RealValues /\ v \in RealValues
  <2>1. TypeOf(V) \in {"int", "real"} /\ TypeOf(V \cup {v}) = "real"
    BY <1>1, <1>4 DEF TypeOf
  <2>2. \A t \in {"int", "real"} : Narrow(t, v) = "real"
    BY <1>4 DEF Narrow
  <2> QED
    BY <2>1, <2>2
<1>5. CASE V \subseteq IntValues \cup RealValues /\ v \in IntValues
  <2>1. TypeOf(V) \in {"int", "real"} /\ TypeOf(V \cup {v}) = TypeOf(V)
    BY <1>5 DEF TypeOf
  <2>2. \A t \in {"int", "real"} : Narrow(t, v) = t
    BY <1>1, <1>5 DEF Narrow
  <2> QED
    BY <2>1, <2>2
<1> QED
  BY <1>2, <1>3, <1>4, <1>5

LEMMA LastOf ==
    ASSUME NEW n \in Nat, NEW S \in SUBSET (1 .. n), S # {}
    PROVE  Max(S) \in S
<1> DEFINE B == {b \in Nat : \A x \in S : x <= b}
<1>1. n \in B
  OBVIOUS
<1>2. PICK b \in B : \A c \in B : <<c, b>> \notin OpToRel(<, Nat)
  <2> HIDE DEF B
  <2>1. B \subseteq Nat
    BY DEF B
  <2> QED
    BY <1>1, <2>1, WFMin, NatLessThanWellFounded, Zenon
<1>3. \A c \in B : ~(c < b)
  BY <1>2 DEF OpToRel
<1>4. b \in S
  <2> SUFFICES ASSUME b \notin S PROVE FALSE
    OBVIOUS
  <2>1. PICK x : x \in S
    OBVIOUS
  <2>2. x \in 1 .. n /\ x <= b /\ b \in Nat
    BY <2>1
  <2>3. b - 1 \in Nat /\ \A y \in S : y <= b - 1
    BY <2>2
  <2> QED
    BY <1>3, <2>3
<1>5. \A y \in S : b >= y
  BY <1>2
<1> QED
  BY <1>4, <1>5, Zenon DEF Max

(* The type of the values so far satisfies the equation ...                *)
LEMMA TypeIsNarrowed ==
    ASSUME NEW ds, NEW k, NEW S, NEW order \in Seq(S),
           NEW f, f = TypesAt(ds, k, order)
    PROVE  f = NarrowFrom(ds, k, order, f)
<1>1. ASSUME NEW s \in SUBSET (DOMAIN order) PROVE f[s] = NarrowFrom(ds, k, order, f)[s]
  <2>1. CASE s = {}
    <3>1. TypeOf(ValuesAt(ds, k, order, {})) = "int"
      BY DEF ValuesAt, TypeOf
    <3> QED
      BY <2>1, <3>1 DEF NarrowFrom, TypesAt
  <2>2. CASE s # {}
    <3> DEFINE x == Max(s)
               r == s \ {x}
    <3>1. x \in s
      <4>1. DOMAIN order = 1 .. Len(order) /\ Len(order) \in Nat
        OBVIOUS
      <4> QED
        BY <2>2, <4>1, LastOf
    <3>2. f[r] = TypeOf(ValuesAt(ds, k, order, r)) /\ f[s] = TypeOf(ValuesAt(ds, k, order, s))
      BY DEF TypesAt
    <3>3. NarrowFrom(ds, k, order, f)[s] =
              IF k \in DOMAIN ds[order[x]].kv THEN Narrow(f[r], ds[order[x]].kv[k]) ELSE f[r]
      BY <2>2 DEF NarrowFrom
    <3> HIDE DEF x
    <3>4. CASE k \in DOMAIN ds[order[x]].kv
      <4>1. ValuesAt(ds, k, order, s) = ValuesAt(ds, k, order, r) \cup {ds[order[x]].kv[k]}
        BY <3>1, <3>4 DEF ValuesAt
      <4>2. Narrow(TypeOf(ValuesAt(ds, k, order, r)), ds[order[x]].kv[k])
                = TypeOf(ValuesAt(ds, k, order, r) \cup {ds[order[x]].kv[k]})
        BY NarrowTypeOf
      <4> QED
        BY <3>2, <3>3, <3>4, <4>1, <4>2
    <3>5. CASE k \notin DOMAIN ds[order[x]].kv
      <4>1. ValuesAt(ds, k, order, s) = ValuesAt(ds, k, order, r)
        BY <3>1, <3>5 DEF ValuesAt
      <4> QED
        BY <3>2, <3>3, <3>5, <4>1
    <3> QED
      BY <3>4, <3>5
  <2> QED
    BY <2>1, <2>2
<1> QED
  BY <1>1 DEF NarrowFrom, TypesAt

(* ... which no other function does.                                       *)
LEMMA NarrowedUnique ==
    ASSUME NEW ds, NEW k, NEW S, NEW order \in Seq(S), NEW f, NEW g,
           f = NarrowFrom(ds, k, order, f), g = NarrowFrom(ds, k, order, g)
    PROVE  f[DOMAIN order] = g[DOMAIN order]
<1> DEFINE Bad == {n \in Nat : \E s \in SUBSET (DOMAIN order) :
                                  IsFiniteSet(s) /\ Cardinality(s) = n /\ f[s] # g[s]}
<1>0. DOMAIN order = 1 .. Len(order) /\ Len(order) \in Nat
  OBVIOUS
<1>1. ASSUME NEW n \in Bad PROVE \E m \in Bad : m < n
  <2>1. PICK s \in SUBSET (DOMAIN order) : IsFiniteSet(s) /\ Cardinality(s) = n /\ f[s] # g[s]
    OBVIOUS
  <2>2. /\ f[s] = NarrowFrom(ds, k, order, f)[s]
        /\ g[s] = NarrowFrom(ds, k, order, g)[s]
    OBVIOUS
  <2>3. s # {}
    BY <2>1, <2>2 DEF NarrowFrom
  <2> DEFINE x == Max(s)
             r == s \ {x}
  <2>4. x \in s
    BY <1>0, <2>3, LastOf
  <2>5. f[r] # g[r]
    BY <2>1, <2>2, <2>3 DEF NarrowFrom
  <2> HIDE DEF x
  <2>6. IsFiniteSet(r) /\ Cardinality(r) = Cardinality(s) - 1
    BY <2>1, <2>4, FS_RemoveElement
  <2>7. Cardinality(r) \in Nat /\ Cardinality(r) < n
    BY <2>1, <2>6, FS_CardinalityType
  <2>8. r \in SUBSET (DOMAIN order)
    OBVIOUS
  <2>9. Cardinality(r) \in Bad
    BY <2>5, <2>6, <2>7, <2>8
  <2> HIDE DEF Bad, r
  <2> QED
    BY <2>7, <2>9
<1>2. Bad = {}
  <2> HIDE DEF Bad
  <2>1. Bad \subseteq Nat
    BY DEF Bad
  <2>2. Bad # {} => Min(Bad) \in Bad /\ \E b \in Bad : \A c \in Bad : <<c, b>> \notin OpToRel(<, Nat)
    BY <2>1, LeastOf, WFMin, NatLessThanWellFounded, Zenon
  <2> QED
    BY <1>1, <2>1, <2>2 DEF OpToRel
<1>3. IsFiniteSet(DOMAIN order) /\ Cardinality(DOMAIN order) \in Nat
  <2>1. IsFiniteSet(1 .. Len(order))
    BY <1>0, FS_Interval
  <2> QED
    BY <1>0, <2>1, FS_CardinalityType
<1>4. DOMAIN order \in SUBSET (DOMAIN order)
  OBVIOUS
<1> QED
  BY <1>2, <1>3, <1>4

(* get_params gives a column the type of its values.                       *)
LEMMA ColumnType ==
    ASSUME NEW S, NEW order \in Seq(S), NEW k \in Keys(ToSet(order))
    PROVE  GetParams(order)[k] = TypeOf(ValuesAt(dirs, k, order, DOMAIN order))
<1> DEFINE found == CHOOSE iter : iter = NarrowFrom(dirs, k, order, iter)
           type == TypesAt(dirs, k, order)
<1>1. GetParams(order)[k] = found[DOMAIN order]
  BY Zenon DEF GetParams, FoldLeft, MapThenFoldSet, NarrowFrom
<1>2. type = NarrowFrom(dirs, k, order, type)
  BY TypeIsNarrowed
<1>3. found = NarrowFrom(dirs, k, order, found)
  <2> HIDE DEF type
  <2> QED
    BY <1>2, Zenon
<1>4. found[DOMAIN order] = type[DOMAIN order]
  <2> HIDE DEF found, type
  <2> QED
    BY <1>2, <1>3, NarrowedUnique
<1>5. type[DOMAIN order] = TypeOf(ValuesAt(dirs, k, order, DOMAIN order))
  BY DEF TypesAt
<1> QED
  BY <1>1, <1>4, <1>5

(* An order of a finite set has all of its elements. *)
LEMMA OrderOfAll ==
    ASSUME NEW S, IsFiniteSet(S), NEW order \in SetToSeqs(S)
    PROVE  order \in Seq(S) /\ ToSet(order) = S
<1> DEFINE n == Cardinality(S)
<1>1. n \in Nat
  BY FS_CardinalityType
<1>2. order \in [1 .. n -> S] /\ \A i, j \in 1 .. n : i # j => order[i] # order[j]
  BY DEF SetToSeqs
<1> HIDE DEF n
<1>3. order \in Seq(S) /\ DOMAIN order = 1 .. n
  BY <1>1, <1>2
<1>4. ASSUME NEW x \in S PROVE \E i \in 1 .. n : order[i] = x
  <2> SUFFICES ASSUME \A i \in 1 .. n : order[i] # x PROVE FALSE
    OBVIOUS
  <2>1. order \in [1 .. n -> S \ {x}]
    BY <1>2
  <2>2. IsFiniteSet(S \ {x}) /\ Cardinality(S \ {x}) = n - 1
    BY FS_RemoveElement DEF n
  <2>3. IsFiniteSet(1 .. n) /\ Cardinality(1 .. n) = n
    <3>1. IsFiniteSet(1 .. n) /\ Cardinality(1 .. n) = IF 1 > n THEN 0 ELSE n - 1 + 1
      BY <1>1, FS_Interval
    <3> QED
      BY <1>1, <3>1
  <2>4. Cardinality(S \ {x}) < Cardinality(1 .. n)
    BY <1>1, <2>2, <2>3
  <2>5. \E i, j \in 1 .. n : i # j /\ order[i] = order[j]
    <3> DEFINE D == 1 .. n
               R == S \ {x}
    <3>1. IsFiniteSet(D) /\ IsFiniteSet(R) /\ Cardinality(R) < Cardinality(D) /\ order \in [D -> R]
      BY <2>1, <2>2, <2>3, <2>4
    <3> HIDE DEF D, R
    <3>2. \E i, j \in D : i # j /\ order[i] = order[j]
      BY <3>1, FS_PigeonHole
    <3> QED
      BY <3>2 DEF D
  <2> QED
    BY <1>2, <2>5
<1> QED
  BY <1>2, <1>3, <1>4 DEF ToSet

(* What ParamsTabulated says of a table b and directories ds. *)
Tabulated(b, ds) ==
    /\ b.rows = {[id |-> i - 1, kv |-> ds[i].kv] : i \in DOMAIN ds}
    /\ \A i \in DOMAIN ds : DOMAIN ds[i].kv = DOMAIN b.types
    /\ \A k \in DOMAIN b.types : b.types[k] = TypeOf({ds[i].kv[k] : i \in DOMAIN ds})

TableInv ==
    /\ db.rows # {} => db.table /\ Staged /\ Tabulated(db, dirs)

(* The rows are those of all directories, each with all the columns.       *)
LEMMA TableStep ==
    ASSUME StageInv, CreateParamsTable, db'.rows # {}
    PROVE  db'.table /\ Tabulated(db', dirs)
<1>1. Len(dirs) \in Nat /\ DOMAIN dirs = 1 .. Len(dirs)
  BY RunsStaged
<1>2. PICK order \in SetToSeqs(ParamFiles) :
          db' = [table |-> TRUE, types |-> GetParams(order),
                 rows |-> IF \A i \in DOMAIN dirs : Insertable(i, GetParams(order))
                          THEN {[id |-> RunId(i), kv |-> dirs[i].kv] : i \in DOMAIN dirs}
                          ELSE {}]
  BY DEF CreateParamsTable
<1> DEFINE types == GetParams(order)
<1>3. /\ db'.table /\ db'.types = types
      /\ \A i \in DOMAIN dirs : Insertable(i, types)
      /\ db'.rows = {[id |-> i - 1, kv |-> dirs[i].kv] : i \in DOMAIN dirs}
  BY <1>2 DEF RunId
<1>4. ParamFiles = DOMAIN dirs
  BY <1>3 DEF ParamFiles, Insertable
<1>5. IsFiniteSet(DOMAIN dirs)
  BY <1>1, FS_Interval
<1>6. order \in Seq(DOMAIN dirs) /\ ToSet(order) = DOMAIN dirs
  BY <1>4, <1>5, OrderOfAll
<1>7. DOMAIN types = Keys(DOMAIN dirs)
  BY <1>6 DEF GetParams
<1>8. ASSUME NEW i \in DOMAIN dirs PROVE DOMAIN dirs[i].kv = DOMAIN types
  <2>1. DOMAIN types \subseteq DOMAIN dirs[i].kv
    BY <1>3 DEF Insertable
  <2>2. DOMAIN dirs[i].kv \subseteq DOMAIN types
    <3> HIDE DEF types
    <3> QED
      BY <1>7 DEF Keys
  <2> QED
    BY <2>1, <2>2
<1>9. ASSUME NEW k \in DOMAIN types
      PROVE  types[k] = TypeOf({dirs[i].kv[k] : i \in DOMAIN dirs})
  <2>1. k \in Keys(ToSet(order))
    BY <1>6, <1>7
  <2>2. types[k] = TypeOf(ValuesAt(dirs, k, order, DOMAIN order))
    BY <1>6, <2>1, ColumnType
  <2> HIDE DEF types
  <2>3. ValuesAt(dirs, k, order, DOMAIN order) = {dirs[i].kv[k] : i \in DOMAIN dirs}
    <3>1. \A i \in DOMAIN dirs : k \in DOMAIN dirs[i].kv
      BY <1>8
    <3>2. \A j \in DOMAIN order : order[j] \in DOMAIN dirs
      BY <1>6 DEF ToSet
    <3>3. \A i \in DOMAIN dirs : \E j \in DOMAIN order : order[j] = i
      BY <1>6 DEF ToSet
    <3> QED
      BY <3>1, <3>2, <3>3 DEF ValuesAt
  <2> QED
    BY <2>2, <2>3
<1> HIDE DEF types
<1> QED
  BY <1>3, <1>8, <1>9 DEF Tabulated

(* A directory keeps the parameters it was laid out for.                   *)
SameKv(ds, es) == DOMAIN es = DOMAIN ds /\ \A i \in DOMAIN ds : es[i].kv = ds[i].kv

LEMMA TabulatedKept ==
    ASSUME NEW b, NEW ds, NEW es, Tabulated(b, ds), SameKv(ds, es)
    PROVE  Tabulated(b, es)
<1>1. DOMAIN es = DOMAIN ds /\ \A i \in DOMAIN ds : es[i].kv = ds[i].kv
  BY DEF SameKv
<1>2. {[id |-> i - 1, kv |-> es[i].kv] : i \in DOMAIN es}
          = {[id |-> i - 1, kv |-> ds[i].kv] : i \in DOMAIN ds}
  BY <1>1
<1>3. \A k : {es[i].kv[k] : i \in DOMAIN es} = {ds[i].kv[k] : i \in DOMAIN ds}
  BY <1>1
<1> QED
  BY <1>1, <1>2, <1>3 DEF Tabulated

LEMMA KvKept ==
    ASSUME StageInv, MakeInv, ~Staging, [Next]_vars
    PROVE  SameKv(dirs, dirs')
<1>0. \A i \in DOMAIN dirs : dirs[i] \in RunDir(campaign)
  BY RunsStaged, ElementOfSeq DEF StageInv
<1>1. ASSUME UNCHANGED dirs PROVE SameKv(dirs, dirs')
  BY <1>1 DEF SameKv
<1>2. ASSUME NEW i \in DOMAIN dirs, NEW d, d.kv = dirs[i].kv, dirs' = [dirs EXCEPT ![i] = d]
      PROVE  SameKv(dirs, dirs')
  BY <1>2 DEF SameKv
<1>3. CASE StartJob
  <2>1. PICK i \in Runs : SetDir(i, [dirs[i] EXCEPT !.raw = [c \in Captures |->
                                                    IF @[c] = "new" THEN "old" ELSE @[c]],
                                        !.gz = [c \in Captures |->
                                                    IF @[c] = "new" THEN "old" ELSE @[c]]])
    BY <1>3 DEF StartJob
  <2>2. i \in DOMAIN dirs /\ dirs[i] \in RunDir(campaign)
    BY <1>0, RunsStaged
  <2> QED
    BY <1>2, <2>1, <2>2 DEF SetDir, RunDir
<1>4. ASSUME NEW i \in DOMAIN jobs, Recipe(i) PROVE SameKv(dirs, dirs')
  <2>1. i \in DOMAIN dirs /\ dirs[i] \in RunDir(campaign)
    BY <1>0, RunsStaged DEF MakeInv
  <2>2. \A x, y : /\ [dirs[i] EXCEPT !.log = x].kv = dirs[i].kv
                  /\ [dirs[i] EXCEPT !.log = x, !.raw = y].kv = dirs[i].kv
                  /\ [dirs[i] EXCEPT !.gz = x].kv = dirs[i].kv
                  /\ [dirs[i] EXCEPT !.gz = x, !.raw = y].kv = dirs[i].kv
                  /\ [dirs[i] EXCEPT !.done = x].kv = dirs[i].kv
    BY <2>1 DEF RunDir
  <2>3. CASE SimStarts(i)
    BY <1>2, <2>1, <2>2, <2>3 DEF SimStarts, SetDir
  <2>4. CASE SimRefuses(i) \/ SimDies(i)
    BY <1>1, <2>4 DEF SimRefuses, SimDies
  <2>5. CASE SimEnds(i)
    BY <1>2, <2>1, <2>2, <2>5 DEF SimEnds, SetDir
  <2>6. CASE GzipStarts(i)
    BY <1>1, <1>2, <2>1, <2>2, <2>6 DEF GzipStarts, SetDir
  <2>7. CASE GzipEnds(i)
    BY <1>2, <2>1, <2>2, <2>7 DEF GzipEnds, SetDir
  <2>8. CASE RecipeEnds(i)
    BY <1>1, <1>2, <2>1, <2>2, <2>8 DEF RecipeEnds, SetDir
  <2> QED
    BY <1>4, <2>3, <2>4, <2>5, <2>6, <2>7, <2>8 DEF Recipe
<1>5. ASSUME NEW killed, MakeInterrupted(killed) PROVE SameKv(dirs, dirs')
  <2>1. \A i \in DOMAIN dirs : \A x : [dirs[i] EXCEPT !.gz = x].kv = dirs[i].kv
    BY <1>0 DEF RunDir
  <2> QED
    BY <1>5, <2>1 DEF MakeInterrupted, SameKv
<1>6. CASE MakeClean
  <2>1. \A i \in DOMAIN dirs : \A x, y : [dirs[i] EXCEPT !.done = x, !.gz = y].kv = dirs[i].kv
    BY <1>0 DEF RunDir
  <2> QED
    BY <1>6, <2>1 DEF MakeClean, SameKv
<1>7. CASE StageInterrupted \/ Make \/ MakeEnds \/ CreateParamsTable \/ UNCHANGED vars
  BY <1>1, <1>7 DEF StageInterrupted, Make, MakeEnds, CreateParamsTable, vars, stageVars
<1> QED
  BY <1>3, <1>4, <1>5, <1>6, <1>7 DEF Next

LEMMA StagedStays ==
    ASSUME Staged, [Next]_vars
    PROVE  Staged'
<1>1. ~Staging /\ ~StageInterrupted
  BY DEF Staged, Staging, StageSim, StageConf, StageParams, StageEnds, StageInterrupted
<1>2. stage' = stage
  BY <1>1 DEF Next, vars, stageVars, Make, StartJob, Recipe, MakeEnds, MakeInterrupted, MakeClean,
              CreateParamsTable
<1> QED
  BY <1>2 DEF Staged

LEMMA TableInvNext == CampaignInv /\ TableInv /\ [Next]_vars => TableInv'
<1> SUFFICES ASSUME CampaignInv, TableInv, [Next]_vars, db'.rows # {}
             PROVE  db'.table /\ Staged' /\ Tabulated(db', dirs')
  BY DEF TableInv
<1>1. StageInv /\ MakeInv
  BY DEF CampaignInv
<1>2. CASE CreateParamsTable
  <2>1. Staged /\ dirs' = dirs
    BY <1>2 DEF CreateParamsTable, stageVars
  <2> QED
    BY <1>1, <1>2, <2>1, TableStep, StagedStays
<1>3. CASE db' = db
  <2>1. db.table /\ Staged /\ Tabulated(db, dirs)
    BY <1>3 DEF TableInv
  <2>2. SameKv(dirs, dirs')
    <3>1. ~Staging
      BY <2>1 DEF Staged, Staging, StageSim, StageConf, StageParams, StageEnds
    <3> QED
      BY <1>1, <3>1, KvKept
  <2>3. Tabulated(db, dirs')
    BY <2>1, <2>2, TabulatedKept
  <2> QED
    BY <1>3, <2>1, <2>3, StagedStays
<1>4. CreateParamsTable \/ db' = db
  BY DEF Next, vars, Staging, StageSim, StageConf, StageParams, StageEnds, StageInterrupted,
         Make, StartJob, Recipe, MakeEnds, MakeInterrupted, MakeClean
<1> QED
  BY <1>2, <1>3, <1>4

(* createresultsdb tabulates every run with all its parameters, and gives  *)
(* every column the type get_params promises, in whatever order the files  *)
(* were found, for every campaign and every kind of values.                *)
THEOREM ParamsTabulatedCorrect == Spec => []ParamsTabulated
<1>1. Init => TableInv
  BY DEF Init, TableInv, NoDb
<1>2. TableInv => ParamsTabulated
  <2> SUFFICES ASSUME TableInv, db.rows # {} PROVE ParamsTabulated
    BY DEF ParamsTabulated
  <2>1. Tabulated(db, dirs)
    BY DEF TableInv
  <2>2. \A row \in db.rows : DOMAIN row.kv = DOMAIN db.types
    BY <2>1 DEF Tabulated
  <2>3. ASSUME NEW k \in DOMAIN db.types, NEW values, values = {row.kv[k] : row \in db.rows}
        PROVE  db.types[k] = CASE values \subseteq IntValues -> "int"
                               [] values \subseteq IntValues \cup RealValues
                                      /\ ~(values \subseteq IntValues) -> "real"
                               [] OTHER -> "varchar"
    <3>1. values = {dirs[i].kv[k] : i \in DOMAIN dirs}
      <4>1. \A row : row \in db.rows <=> \E i \in DOMAIN dirs : row = [id |-> i - 1, kv |-> dirs[i].kv]
        BY <2>1 DEF Tabulated
      <4>2. \A i \in DOMAIN dirs : \E row \in db.rows : row.kv = dirs[i].kv
        <5> TAKE i \in DOMAIN dirs
        <5>1. [id |-> i - 1, kv |-> dirs[i].kv] \in db.rows
          BY <4>1
        <5> QED
          BY <5>1
      <4>3. \A row \in db.rows : \E i \in DOMAIN dirs : row.kv = dirs[i].kv
        BY <4>1
      <4>4. \A x : x \in values <=> x \in {dirs[i].kv[k] : i \in DOMAIN dirs}
        BY <2>3, <4>2, <4>3
      <4> QED
        BY <4>4
    <3>2. db.types[k] = TypeOf(values)
      BY <2>1, <3>1 DEF Tabulated
    <3>3. CASE values \subseteq IntValues
      BY <3>2, <3>3 DEF TypeOf
    <3>4. CASE values \subseteq IntValues \cup RealValues /\ ~(values \subseteq IntValues)
      BY <3>2, <3>4 DEF TypeOf
    <3>5. CASE ~(values \subseteq IntValues \cup RealValues)
      <4>1. ~(values \subseteq IntValues)
        BY <3>5
      <4> QED
        BY <3>2, <3>5, <4>1 DEF TypeOf
    <3> QED
      BY <3>3, <3>4, <3>5
  <2> QED
    BY <2>1, <2>2, <2>3 DEF ParamsTabulated, Tabulated
<1> QED
  BY <1>1, <1>2, CampaignInit, CampaignNext, TableInvNext, PTL DEF Spec

-----------------------------------------------------------------------------
(* The directories are those of the assignments the enumerator yields, one *)
(* each, in its order.                                                     *)
Yielded == EnumGen(campaign.enum)

OrderInv ==
    /\ \A i \in DOMAIN dirs : i \in DOMAIN Yielded.out /\ dirs[i].kv = Yielded.out[i]
    /\ stage = "whole" => Yielded.ok /\ Len(dirs) = Len(Yielded.out)

LEMMA OrderInvNext == CampaignInv /\ OrderInv /\ [Next]_vars => OrderInv'
<1> SUFFICES ASSUME CampaignInv, OrderInv, [Next]_vars PROVE OrderInv'
  OBVIOUS
<1>1. StageInv /\ MakeInv
  BY DEF CampaignInv
<1>2. Len(dirs) \in Nat /\ DOMAIN dirs = 1 .. Len(dirs)
  BY <1>1, RunsStaged
<1>3. Yielded' = Yielded
  <2>1. campaign' = campaign
    BY DEF Next, vars, stageVars, Staging, StageSim, StageConf, StageParams, StageEnds,
           StageInterrupted, Make, StartJob, Recipe, MakeEnds, MakeInterrupted, MakeClean,
           CreateParamsTable
  <2> QED
    BY <2>1 DEF Yielded
<1>4. CASE StageSim
  BY <1>3, <1>4 DEF StageSim, OrderInv
<1>5. CASE StageConf
  <2>1. stage = "conf" /\ stage' # "whole" /\ sets = Yielded /\ Buildable(campaign.enum)
    BY <1>1, <1>5 DEF StageConf, StageInv, Yielded
  <2>2. PICK d : dirs' = Append(dirs, d) /\ d.kv = Yielded.out[Len(dirs) + 1]
    <3> DEFINE kv  == Yielded.out[Len(dirs) + 1]
               app == Applications(kv)
               d   == [EmptyDir(kv) EXCEPT !.written = app.written, !.whole = app.whole]
    <3>1. dirs' = Append(dirs, d)
      BY <1>5, <2>1 DEF StageConf
    <3>2. d.kv = kv
      BY DEF EmptyDir
    <3> QED
      BY <3>1, <3>2, Zenon
  <2>3. Len(dirs) + 1 \in DOMAIN Yielded.out
    <3>1. Len(Yielded.out) \in Nat /\ DOMAIN Yielded.out = 1 .. Len(Yielded.out)
      BY <1>1, <2>1, CampaignAssumption, LenProperties DEF StageInv, Yielded
    <3>2. Len(dirs) < Len(Yielded.out)
      BY <1>5, <2>1 DEF StageConf
    <3> QED
      BY <1>2, <3>1, <3>2
  <2>4. /\ DOMAIN dirs' = DOMAIN dirs \cup {Len(dirs) + 1}
        /\ dirs'[Len(dirs) + 1] = d
        /\ \A i \in DOMAIN dirs : dirs'[i] = dirs[i]
    <3>1. dirs \in Seq(RunDir(campaign))
      BY <1>1 DEF StageInv
    <3> QED
      BY <1>2, <2>2, <3>1
  <2> QED
    BY <1>3, <2>1, <2>2, <2>3, <2>4 DEF OrderInv
<1>6. CASE StageParams
  <2>1. SameKv(dirs, dirs') /\ stage' # "whole"
    <3>1. rules + 1 = Len(dirs) /\ rules \in Nat /\ stage' # "whole"
          /\ dirs' = [dirs EXCEPT ![Len(dirs)].params = TRUE]
      BY <1>1, <1>6 DEF StageParams, StageInv
    <3>2. Len(dirs) \in DOMAIN dirs
      BY <1>2, <3>1
    <3>3. \A i \in DOMAIN dirs : [dirs[i] EXCEPT !.params = TRUE].kv = dirs[i].kv
      <4>1. \A i \in DOMAIN dirs : dirs[i] \in RunDir(campaign)
        BY <1>1, ElementOfSeq DEF StageInv
      <4> QED
        BY <4>1 DEF RunDir
    <3> QED
      BY <3>1, <3>2, <3>3 DEF SameKv
  <2> QED
    BY <1>3, <2>1 DEF SameKv, OrderInv
<1>7. CASE StageEnds
  <2>1. sets = Yielded /\ dirs' = dirs /\ Len(dirs) = Len(sets.out)
        /\ (stage' = "whole" => sets.ok)
    BY <1>1, <1>7 DEF StageEnds, StageInv, Yielded
  <2> QED
    BY <1>3, <2>1 DEF OrderInv
<1>8. CASE ~Staging
  <2>1. SameKv(dirs, dirs')
    BY <1>1, <1>8, KvKept
  <2>2. stage' = "whole" => stage = "whole"
    BY <1>8 DEF Next, vars, stageVars, StageInterrupted, Make, StartJob, Recipe, MakeEnds,
                MakeInterrupted, MakeClean, CreateParamsTable
  <2>3. Len(dirs') = Len(dirs)
    <3>1. StageInv'
      BY CampaignNext DEF CampaignInv
    <3>2. Len(dirs') \in Nat /\ DOMAIN dirs' = 1 .. Len(dirs')
      BY <3>1, LenProperties DEF StageInv
    <3> QED
      BY <1>2, <2>1, <3>2 DEF SameKv
  <2> QED
    BY <1>3, <2>1, <2>2, <2>3 DEF SameKv, OrderInv
<1> QED
  BY <1>4, <1>5, <1>6, <1>7, <1>8 DEF Staging

(* stagesim lays out one directory and one set of rules per assignment of  *)
(* the enumerator, in the order it yields them, and takes a stage for      *)
(* whole only if all of them were yielded; none is skipped, repeated or    *)
(* changed afterwards by make, its interruptions or a cleaning.            *)
THEOREM StagedAsYielded ==
    Spec => [](/\ \A i \in DOMAIN dirs : i \in DOMAIN Yielded.out /\ dirs[i].kv = Yielded.out[i]
               /\ stage = "whole" =>
                      Yielded.ok /\ Len(dirs) = Len(Yielded.out) /\ rules = Len(dirs))
<1>1. Init => OrderInv
  BY DEF Init, OrderInv
<1>2. CampaignInv /\ OrderInv =>
          /\ \A i \in DOMAIN dirs : i \in DOMAIN Yielded.out /\ dirs[i].kv = Yielded.out[i]
          /\ stage = "whole" =>
                 Yielded.ok /\ Len(dirs) = Len(Yielded.out) /\ rules = Len(dirs)
  BY DEF CampaignInv, StageInv, OrderInv
<1> QED
  BY <1>1, <1>2, CampaignInit, CampaignNext, OrderInvNext, PTL DEF Spec
=============================================================================
