---------------------------- MODULE Enumerators -----------------------------
(***************************************************************************)
(* scripts/modules/enumerators.py: the lists of parameter assignments that *)
(* a JSON description stands for.  An assignment is a function from keys   *)
(* to values.  The enumerators are Python generators, so one that goes     *)
(* wrong still yields what came before: a result has the assignments and   *)
(* whether the generator ended by itself.                                  *)
(***************************************************************************)
EXTENDS Sequences, SequencesExt, FiniteSets, Integers, TLC

(* The key of a description that holds what its type is about. *)
FieldOf ==
    [cartesian |-> "vars", cartesian_ext |-> "enums", union |-> "enums",
     list |-> "list", singleton |-> "vars"]

Nothing == <<>>      \* no assignment; also the assignment of no parameter

Yields(out) == [out |-> out, ok |-> TRUE]

(* The first variable in the order of the dict changes slowest. *)
EnumCartesian(vars) ==
    IF vars = Nothing
    THEN Nothing
    ELSE FoldRight(LAMBDA var, rest :
                       FlattenSeq([v \in DOMAIN var.vals |->
                           [d \in DOMAIN rest |-> rest[d] @@ (var.key :> var.vals[v])]]),
                   vars, <<Nothing>>)

(* Faulty variant of Joined: d2 is not copied, so every round of the outer *)
(* loop updates the same dicts.                                            *)
JoinedInPlace(ds1, ds2) ==
    FlattenSeq([i \in DOMAIN ds1 |-> [j \in DOMAIN ds2 |-> Last(ds1) @@ ds2[j]]])

(* d2.update(d1) for all pairs; an assignment of the first part wins. *)
Joined(ds1, ds2) ==
    FlattenSeq([i \in DOMAIN ds1 |-> [j \in DOMAIN ds2 |-> ds1[i] @@ ds2[j]]])

(* All enumerators but the first are listed before it yields anything. *)
EnumCartesianExt(enums) ==
    IF enums = <<>>
    THEN Yields(Nothing)
    ELSE LET later == Tail(enums)
         IN  IF \A i \in DOMAIN later : later[i].ok
             THEN [out |-> FoldLeft(LAMBDA ds, e : Joined(ds, e.out), enums[1].out, later),
                   ok  |-> enums[1].ok]
             ELSE [out |-> Nothing, ok |-> FALSE]

(* Up to the first enumerator that fails. *)
EnumUnion(enums) ==
    FoldLeft(LAMBDA u, e : IF u.ok THEN [out |-> u.out \o e.out, ok |-> e.ok] ELSE u,
             Yields(Nothing), enums)

(* get_enumerator_from_dict raises for a missing key, also one deeper in   *)
(* the description; an unknown type it returns None for, and None cannot   *)
(* be iterated over.                                                       *)
RECURSIVE Built(_)
Built(d) ==
    d.type \in DOMAIN FieldOf =>
        /\ FieldOf[d.type] \in DOMAIN d
        /\ FieldOf[d.type] = "enums" => \A i \in DOMAIN d.enums : Built(d.enums[i])

RECURSIVE Enumerate(_)
Enumerate(d) ==
    CASE d.type = "cartesian"     -> Yields(EnumCartesian(d.vars))
      [] d.type = "cartesian_ext" -> EnumCartesianExt([i \in DOMAIN d.enums |-> Enumerate(d.enums[i])])
      [] d.type = "union"         -> EnumUnion([i \in DOMAIN d.enums |-> Enumerate(d.enums[i])])
      [] d.type = "list"          -> Yields(d.list)
      [] d.type = "singleton"     -> Yields(<<d.vars>>)
      [] OTHER                    -> [out |-> Nothing, ok |-> FALSE]

-----------------------------------------------------------------------------
(* How often the documentation lets an assignment occur in the list: "all  *)
(* the possible combinations" of a cartesian enumerator; in a cartesian_ext *)
(* one "every combination of values for a and b is joined with every       *)
(* combination of values for c and d", so its keys can be split between    *)
(* the parts; in a union "Duplicates are not removed".                     *)
SumOver(S, F(_)) == MapThenSumSet(F, S)
HowOften(s, x) == Cardinality({i \in DOMAIN s : s[i] = x})
Product(s) == FoldLeft(LAMBDA p, n : p * n, 1, s)

RECURSIVE Times(_, _)
Times(d, kv) ==
    CASE d.type = "cartesian" ->
            IF d.vars # <<>> /\ DOMAIN kv = {d.vars[i].key : i \in DOMAIN d.vars}
            THEN Product([i \in DOMAIN d.vars |->
                     HowOften(d.vars[i].vals, kv[d.vars[i].key])])
            ELSE 0
      [] d.type = "cartesian_ext" ->
            IF d.enums = <<>>
            THEN 0
            ELSE SumOver([DOMAIN kv -> DOMAIN d.enums],
                     LAMBDA part : Product([i \in DOMAIN d.enums |->
                         Times(d.enums[i], Restrict(kv, {k \in DOMAIN kv : part[k] = i}))]))
      [] d.type = "union" -> SumOver(DOMAIN d.enums, LAMBDA i : Times(d.enums[i], kv))
      [] d.type = "list"  -> HowOften(d.list, kv)
      [] d.type = "singleton" -> IF d.vars = kv THEN 1 ELSE 0

(* The length of the list. *)
RECURSIVE Size(_)
Size(d) ==
    CASE d.type = "cartesian" ->
            IF d.vars = <<>> THEN 0 ELSE Product([i \in DOMAIN d.vars |-> Len(d.vars[i].vals)])
      [] d.type = "cartesian_ext" ->
            IF d.enums = <<>> THEN 0 ELSE Product([i \in DOMAIN d.enums |-> Size(d.enums[i])])
      [] d.type = "union" -> SumOver(DOMAIN d.enums, LAMBDA i : Size(d.enums[i]))
      [] d.type = "list"  -> Len(d.list)
      [] d.type = "singleton" -> 1
=============================================================================
