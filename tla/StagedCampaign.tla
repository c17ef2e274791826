-------------------------- MODULE StagedCampaign ----------------------------
(***************************************************************************)
(* A campaign whose parameter sets come from enumerators.py: a             *)
(* configuration gives Campaign the operators of Enumerators.              *)
(***************************************************************************)
EXTENDS Campaign, Enumerators

ASSUME EnumeratorsAssumption == \A c \in Campaigns :
    /\ Buildable(c.enum) = Built(c.enum)
    /\ Built(c.enum) => EnumGen(c.enum) = Enumerate(c.enum)

(* A stage that was laid out to its end has a run for every assignment the *)
(* description stands for, as often as it stands for it, each with its     *)
(* rules (enumerators.py, stagesim).                                       *)
StagedAsDescribed ==
    /\ TypeOK
    /\ stage = "whole" =>
           /\ Len(dirs) = Size(campaign.enum)
           /\ rules = Len(dirs)
           /\ \A kv \in {dirs[i].kv : i \in DOMAIN dirs} :
                  Cardinality({i \in DOMAIN dirs : dirs[i].kv = kv}) = Times(campaign.enum, kv)
=============================================================================
