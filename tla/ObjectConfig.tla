---------------------------- MODULE ObjectConfig ----------------------------
(***************************************************************************)
(* sim/ns3object_config.cc and sim/ns3_utils.cc, .h: descriptions of ns-3  *)
(* objects, a type and assignments to its attributes, and what setting     *)
(* them comes to: "ok", "failed" when the program refuses them, "crashed"  *)
(* when ns-3 does.                                                         *)
(***************************************************************************)
EXTENDS Integers, Sequences, SequencesExt

CONSTANTS
    Known,         \* ns-3's types by role, each with the attributes it has
    MaxAttributes  \* 8: arguments that the setter methods of the helpers take

ASSUME MaxAttributesAssumption == MaxAttributes \in Nat

(* A value or a type that a line gives: nothing may be given too. *)
Text == STRING \cup {""}

KeyValue == [key : STRING, val : Text]
Malformed == [key |-> "", val |-> ""]   \* an assignment token without "="
NoType == ""                            \* nothing follows the directive
NoObject == [type |-> NoType, attrs |-> <<>>]

(* No type of ns-3 is without a name. *)
ASSUME KnownAssumption ==
    /\ {"app", "allocator", "manager", "delay", "loss", "phy"} \subseteq DOMAIN Known
    /\ \A role \in DOMAIN Known : NoType \notin DOMAIN Known[role]

(* ParseAttributeAssignmentSpec *)
WellFormed(attrs) == \A i \in DOMAIN attrs : attrs[i] # Malformed

(* readNs3objectConfig: the type replaces the one an earlier line gave,    *)
(* the assignments are added to those of earlier lines.                    *)
ReadObject(obj, type, attrs) == [type |-> type, attrs |-> obj.attrs \o attrs]

(* The assignments that the lines numbered in about make.                  *)
Places(lines, about) == UNION {{n} \X DOMAIN lines[n].attrs : n \in about}

(* The first of several outcomes that is not "ok". *)
FirstProblem(outcomes) ==
    IF \A i \in DOMAIN outcomes : outcomes[i] = "ok" THEN "ok"
    ELSE outcomes[CHOOSE i \in DOMAIN outcomes :
                      outcomes[i] # "ok" /\ \A j \in 1 .. i - 1 : outcomes[j] = "ok"]

Has(role, type, attr) == type \in DOMAIN Known[role] /\ attr.key \in Known[role][type]

(* SetAttributeByAssignmentSpec, SetFactoryAttributeByAssignmentSpec *)
SetAttribute(role, type, attr) ==
    IF attr = Malformed THEN "failed"
    ELSE IF Has(role, type, attr) THEN "ok" ELSE "crashed"

SetAttributes(role, type, attrs) ==
    FirstProblem([i \in DOMAIN attrs |-> SetAttribute(role, type, attrs[i])])

(* setObjectFromConfig: every assignment is parsed before any is made. *)
SetObject(role, obj) ==
    IF Len(obj.attrs) > MaxAttributes \/ ~WellFormed(obj.attrs) THEN "failed"
    ELSE IF obj.type \notin DOMAIN Known[role] THEN "crashed"
    ELSE SetAttributes(role, obj.type, obj.attrs)
=============================================================================
