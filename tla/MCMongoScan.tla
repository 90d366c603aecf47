---------------------------- MODULE MCMongoScan ----------------------------
(* Instances of MongoScan for TLC. *)
EXTENDS MongoScan, TLC

ScanSymmetry == Permutations(Scans)

Plain ==
    [ids |-> <<"_id">>, selected |-> {"_id"}, filters |-> {}, pushed |-> TRUE, above |-> "none",
     pipeline |-> FALSE, explicit |-> FALSE, mode |-> "permissive", pref |-> "default"]

(* For runs about time: a scan under each operator, with a preference.       *)
OneColumn == <<"_id">>

ReadQueries ==
    {[Plain EXCEPT !.pref = "secondary"], [Plain EXCEPT !.above = "topn"],
     [Plain EXCEPT !.above = "aggregate"]}

AllTimes == 0..MaxTime \union {Unreadable}

ReadResults == {<<"good">>}

(* For runs about rows: two columns, filters in front of, behind and among   *)
(* the selected columns, and every mode.                                     *)
TwoColumns == <<"_id", "a">>

Shapes ==
    {[ids |-> <<"_id">>, selected |-> {"_id"}, filters |-> {}],
     [ids |-> <<"_id">>, selected |-> {"_id"}, filters |-> {"_id"}],
     [ids |-> <<"a", "_id">>, selected |-> {"_id"}, filters |-> {"a"}],
     [ids |-> <<"_id", "a">>, selected |-> {"_id"}, filters |-> {"a"}],
     [ids |-> <<"a", "_id">>, selected |-> {"_id", "a"}, filters |-> {"a"}],
     [ids |-> <<"a">>, selected |-> {}, filters |-> {"a"}],
     [ids |-> <<"a", "_id">>, selected |-> {}, filters |-> {"_id", "a"}]}

RowQueries ==
    {[Plain EXCEPT !.pref = "secondary"]} \union
    {q \in {[ids |-> shape.ids, selected |-> shape.selected, filters |-> shape.filters,
      pushed |-> pushed, above |-> op, pipeline |-> pipeline, explicit |-> mode # "permissive",
      mode |-> mode, pref |-> "default"]
           : shape \in Shapes, pushed \in BOOLEAN, op \in Above, pipeline \in BOOLEAN, mode \in Modes} :
        /\ q.above = "topn" => "_id" \in q.selected
        /\ q.pipeline \/ q.filters = {} => q.pushed
        /\ q.mode # "permissive" => q.above \in {"none", "topn"}}

(* SELECT _id ... WHERE a ... ORDER BY _id LIMIT n.                            *)
TopNWithFilter ==
    {[Plain EXCEPT !.ids = <<"a", "_id">>, !.filters = {"a"}, !.above = "topn"]}

RowResults == UNION {[1..n -> Documents] : n \in 0..4}
=============================================================================
