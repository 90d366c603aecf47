--------------------------- MODULE MongoScanProofs ---------------------------
(* What scans and operation times promise, for any number of scans, times,   *)
(* queries and servers.                                                      *)
EXTENDS MongoScan, SelectionProofs

Opened == {"open", "ended", "stopped"}

Fields == {"names", "ids", "columns", "filters", "pushed", "above", "pipeline", "explicit",
           "mode", "pref", "after"}

(* The state the argument needs, no more than its shape.                     *)
Shape ==
    /\ clock \in 1..MaxTime
    /\ applied \in 1..clock
    /\ settings \in [after : Nat \union {Unreadable}, pref : Preferences \union {"unreadable"}, sees : Nat]
    /\ DOMAIN stage = Scans
    /\ DOMAIN bind = Scans /\ \A s \in Scans : DOMAIN bind[s] = Fields
    /\ \A s \in Scans : bind[s].after \in Nat
    /\ DOMAIN session = Scans
    /\ sessionTime \in [Scans -> Nat]
    /\ node \in [Scans -> {"primary", "secondary"}]
    /\ asked \in [Scans -> Nat]
    /\ snapshot \in [Scans -> Nat]
    /\ sees \in [Scans -> Nat]

(* A time never is smaller than what was seen at it: of the connection, of   *)
(* the setting, and of each scan from its planning to its read.              *)
TimesCover ==
    /\ operationTime \in 0..clock
    /\ reported \in 0..operationTime
    /\ settings.sees # 0 => settings.sees <= settings.after
    /\ settings.after <= clock

PlannedTime(s) ==
    /\ stage[s] \in {"bound", "planned"} => sees[s] <= asked[s] /\ asked[s] <= clock
    /\ stage[s] = "bound" => bind[s].after = asked[s]
    /\ stage[s] = "planned" => bind[s].after \in {0, asked[s]}
    /\ stage[s] = "planned" /\ ~BecomesAggregate(bind[s]) => bind[s].after = asked[s]

OpenedTime(s) ==
    stage[s] \in Opened =>
        /\ snapshot[s] <= NodeTime(node[s])
        /\ session[s] # "timed" =>
              \/ sessionTime[s] = 0
              \/ Covered(s) <= sessionTime[s] /\ sessionTime[s] <= clock
        /\ session[s] = "timed" =>
              /\ snapshot[s] <= sessionTime[s]
              /\ sessionTime[s] <= NodeTime(node[s])
              /\ ~BecomesAggregate(bind[s]) => snapshot[s] >= sees[s]

TimeInv == Shape /\ TimesCover /\ \A s \in Scans : PlannedTime(s) /\ OpenedTime(s)

-----------------------------------------------------------------------------

LEMMA NodeTimes ==
    ASSUME Shape, NEW s \in Scans
    PROVE  /\ NodeTime(node[s]) \in Nat
           /\ NodeTime(node[s]) <= clock
BY ScanAssumption DEF Shape, NodeTime, ScanAssumption

(* The optimizer keeps a bind's parameters unless it makes an aggregate.     *)
LEMMA RewrittenKeeps ==
    ASSUME NEW b, DOMAIN b = Fields, b.after \in Nat
    PROVE  /\ DOMAIN Rewritten(b) = Fields
           /\ Rewritten(b).after \in Nat
           /\ Rewritten(b).after \in {0, b.after}
           /\ ~BecomesAggregate(Rewritten(b)) => Rewritten(b).after = b.after
<1>1. CASE b.above = "topn"
  <2>1. Rewritten(b) = WithTopN(b)
    BY <1>1 DEF Rewritten, BecomesAggregate
  <2>2. /\ DOMAIN WithTopN(b) = Fields
        /\ WithTopN(b).after = b.after
    BY DEF WithTopN, Fields
  <2> QED
    BY <2>1, <2>2
<1>2. CASE b.above # "topn" /\ BecomesAggregate(b)
  <2>1. Rewritten(b) = WithAggregate(b)
    BY <1>2 DEF Rewritten
  <2>2. /\ DOMAIN WithAggregate(b) = Fields
        /\ WithAggregate(b).after = 0
        /\ WithAggregate(b).explicit = FALSE
        /\ WithAggregate(b).above = b.above
    BY DEF WithAggregate, NoQuery, Fields
  <2> QED
    BY <1>2, <2>1, <2>2 DEF BecomesAggregate, Enforced
<1>3. CASE b.above # "topn" /\ ~BecomesAggregate(b)
  BY <1>3 DEF Rewritten
<1> QED
  BY <1>1, <1>2, <1>3

THEOREM TimeInvInit == Init => TimeInv
BY ScanAssumption
   DEF Init, TimeInv, Shape, TimesCover, PlannedTime, OpenedTime, NoQuery, Fields, Opened,
       ScanAssumption, Preferences

-----------------------------------------------------------------------------
(* The steps.                                                                *)

LEMMA ForgetKeeps ==
    ASSUME TimeInv, ForgetScans
    PROVE  TimeInv'
<1>1. /\ stage' = [s \in Scans |-> "idle"]
      /\ bind' = [s \in Scans |-> NoQuery]
      /\ session' = [s \in Scans |-> "none"]
      /\ sessionTime' = [s \in Scans |-> 0]
      /\ node' = [s \in Scans |-> "primary"]
      /\ asked' = [s \in Scans |-> 0]
      /\ snapshot' = [s \in Scans |-> 0]
      /\ sees' = [s \in Scans |-> 0]
      /\ UNCHANGED <<clusterVars, connectionVars>>
  BY DEF ForgetScans
<1>2. DOMAIN NoQuery = Fields /\ NoQuery.after \in Nat
  BY DEF NoQuery, Fields
<1>3. Shape'
  BY <1>1, <1>2 DEF TimeInv, Shape, connectionVars, clusterVars
<1>4. TimesCover'
  BY <1>1 DEF TimeInv, TimesCover, connectionVars, clusterVars
<1>5. ASSUME NEW s \in Scans PROVE (PlannedTime(s) /\ OpenedTime(s))'
  BY <1>1 DEF PlannedTime, OpenedTime, Opened
<1> QED
  BY <1>3, <1>4, <1>5 DEF TimeInv

LEMMA TimeInvNext ==
    ASSUME TimeInv, Next
    PROVE  TimeInv'
<1>0. clock \in Nat /\ applied \in Nat /\ MaxTime \in Nat
  BY ScanAssumption DEF TimeInv, Shape, ScanAssumption
<1> USE <1>0
<1>1. CASE Write
  <2>1. /\ clock' = clock + 1 /\ clock' \in 1..MaxTime
        /\ UNCHANGED <<applied, connectionVars, scanVars>>
    BY <1>1 DEF Write, TimeInv, Shape
  <2>2. Shape'
    BY <2>1 DEF TimeInv, Shape, scanVars, connectionVars
  <2>t. TimesCover'
    <3>1. settings.after \in Nat \union {Unreadable}
      BY DEF TimeInv, Shape
    <3> QED
      BY <2>1, <3>1 DEF TimeInv, TimesCover, Unreadable, connectionVars
  <2>3. ASSUME NEW s \in Scans PROVE (PlannedTime(s) /\ OpenedTime(s))'
    <3>1. PlannedTime(s) /\ OpenedTime(s)
      BY DEF TimeInv
    <3>2. Covered(s)' = Covered(s)
      BY <2>1 DEF Covered, scanVars, connectionVars
    <3>3. sessionTime[s] \in Nat /\ asked[s] \in Nat /\ snapshot[s] \in Nat
      BY DEF TimeInv, Shape
    <3> QED
      BY <2>1, <3>1, <3>2, <3>3 DEF PlannedTime, OpenedTime, NodeTime, BecomesAggregate, Enforced,
         scanVars
  <2> QED
    BY <2>2, <2>t, <2>3 DEF TimeInv
<1>2. CASE Replicate
  BY <1>2 DEF Replicate, TimeInv, Shape, TimesCover, PlannedTime, OpenedTime, Covered, NodeTime, scanVars,
              connectionVars
<1>3. CASE SetAfterClusterTime
  <2>1. PICK value \in KnownTimes \union (TimesGiven \intersect {Unreadable}) :
            settings' = [settings EXCEPT !.after = value, !.sees = SeenAt(value)]
    BY <1>3 DEF SetAfterClusterTime
  <2>2. value \in Nat \union {Unreadable} /\ value <= clock
    BY <1>0 DEF KnownTimes, Unreadable
  <2>3. /\ SeenAt(value) \in Nat
        /\ SeenAt(value) # 0 => SeenAt(value) <= value
    BY DEF SeenAt, TimeInv, TimesCover
  <2>4. /\ settings' \in [after : Nat \union {Unreadable}, pref : Preferences \union {"unreadable"}, sees : Nat]
        /\ settings'.sees # 0 => settings'.sees <= settings'.after
        /\ settings'.after <= clock
    BY <2>1, <2>2, <2>3 DEF TimeInv, Shape, Unreadable
  <2>5. UNCHANGED <<clusterVars, operationTime, reported, scanVars>> /\ Idle
    BY <1>3 DEF SetAfterClusterTime
  <2> QED
    BY <2>4, <2>5 DEF TimeInv, Shape, TimesCover, PlannedTime, OpenedTime, Idle, Opened, scanVars,
                      clusterVars
<1>4. CASE SetReadPreference
  <2>1. PICK value \in PreferencesSet : settings' = [settings EXCEPT !.pref = value]
    BY <1>4 DEF SetReadPreference
  <2>2. /\ settings' \in [after : Nat \union {Unreadable},
                          pref : Preferences \union {"unreadable"}, sees : Nat]
        /\ settings'.sees = settings.sees /\ settings'.after = settings.after
    BY <2>1, ScanAssumption DEF TimeInv, Shape, ScanAssumption
  <2>3. UNCHANGED <<clusterVars, operationTime, reported, scanVars>>
    BY <1>4 DEF SetReadPreference
  <2> QED
    BY <2>2, <2>3 DEF TimeInv, Shape, TimesCover, PlannedTime, OpenedTime, Covered, NodeTime, scanVars,
                      clusterVars
<1>5. CASE EndQuery
  BY <1>5, ForgetKeeps DEF EndQuery
<1>6. ASSUME NEW s \in Scans, MongoScanBind(s)
      PROVE  TimeInv'
  <2>1. PICK q \in Queries, after \in KnownTimes :
            /\ stage' = [stage EXCEPT ![s] = "bound"]
            /\ bind' = [bind EXCEPT ![s] =
                  [names |-> Schema, ids |-> q.ids,
                   columns |-> Keep(q.ids, q.selected),
                   filters |-> q.filters, pushed |-> q.pushed, above |-> q.above,
                   pipeline |-> q.pipeline, explicit |-> q.explicit, mode |-> q.mode,
                   pref |-> q.pref, after |-> after]]
            /\ asked' = [asked EXCEPT ![s] = after]
            /\ sees' = [sees EXCEPT ![s] = SeenAt(after)]
    BY <1>6 DEF MongoScanBind
  <2>2. UNCHANGED <<clusterVars, connectionVars, session, sessionTime, node, docs, position,
                    requested, finished, rows, filled, snapshot>>
    BY <1>6 DEF MongoScanBind
  <2>3. /\ after \in Nat
        /\ SeenAt(after) \in Nat
        /\ SeenAt(after) <= after
        /\ after <= clock
    BY DEF KnownTimes, SeenAt, TimeInv, TimesCover
  <2>4. /\ DOMAIN bind' = Scans
        /\ bind'[s].after = after
        /\ DOMAIN bind'[s] = Fields
        /\ \A u \in Scans \ {s} : bind'[u] = bind[u]
    BY <2>1 DEF TimeInv, Shape, Fields
  <2>5. Shape'
    BY <2>1, <2>2, <2>3, <2>4 DEF TimeInv, Shape, connectionVars, clusterVars
  <2>6. TimesCover'
    BY <2>2 DEF TimeInv, TimesCover, connectionVars, clusterVars
  <2>7. ASSUME NEW u \in Scans PROVE (PlannedTime(u) /\ OpenedTime(u))'
    BY <2>1, <2>2, <2>3, <2>4
       DEF TimeInv, Shape, PlannedTime, OpenedTime, Covered, NodeTime, Opened, BecomesAggregate, Enforced,
           clusterVars, connectionVars
  <2> QED
    BY <2>5, <2>6, <2>7 DEF TimeInv
<1>7. ASSUME NEW s \in Scans, Optimize(s)
      PROVE  TimeInv'
  BY <1>7, RewrittenKeeps
     DEF Optimize, Opened, TimeInv, Shape, TimesCover, PlannedTime, OpenedTime, Covered, NodeTime,
         connectionVars, clusterVars
<1>8. ASSUME NEW s \in Scans, MongoScanInitLocal(s)
      PROVE  TimeInv'
  <2>1. PICK has \in Servers, n \in ReadNodes(EffectivePreference(bind[s])) :
            /\ has = "timed" => NodeTime(n) >= EffectiveTime(bind[s])
            /\ session' = [session EXCEPT ![s] = has]
            /\ sessionTime' = [sessionTime EXCEPT ![s] =
                  CASE has = "timed"   -> NodeTime(n)
                    [] has = "untimed" -> EffectiveTime(bind[s])
                    [] OTHER           -> 0]
            /\ node' = [node EXCEPT ![s] = n]
            /\ snapshot' = [snapshot EXCEPT ![s] = NodeTime(n)]
    BY <1>8 DEF MongoScanInitLocal
  <2>2. /\ stage[s] = "planned"
        /\ stage' = [stage EXCEPT ![s] = "open"]
        /\ sees' = [sees EXCEPT ![s] = Promised(s)]
        /\ UNCHANGED <<clusterVars, connectionVars, bind, asked>>
    BY <1>8 DEF MongoScanInitLocal
  <2>3. n \in {"primary", "secondary"} /\ NodeTime(n) \in Nat
    BY DEF ReadNodes, NodeTime
  <2>4. /\ Promised(s) \in Nat
        /\ ~BecomesAggregate(bind[s]) => Promised(s) <= EffectiveTime(bind[s])
    BY <2>2 DEF Promised, EffectiveTime, Unreadable, TimeInv, Shape, TimesCover, PlannedTime
  <2>7. EffectiveTime(bind[s]) \in Nat /\ EffectiveTime(bind[s]) <= clock
    BY <2>2 DEF EffectiveTime, TimeInv, Shape, TimesCover, PlannedTime, Unreadable
  <2>t. /\ sessionTime'[s] \in {NodeTime(n), EffectiveTime(bind[s]), 0}
        /\ has = "timed" => sessionTime'[s] = NodeTime(n)
        /\ has # "timed" => sessionTime'[s] \in {EffectiveTime(bind[s]), 0}
        /\ \A u \in Scans \ {s} : sessionTime'[u] = sessionTime[u]
        /\ DOMAIN sessionTime' = Scans
    BY <2>1 DEF TimeInv, Shape
  <2>c. has # "timed" => Covered(s)' <= EffectiveTime(bind[s])
    BY <2>1, <2>2, <2>4
       DEF Covered, Promised, EffectiveTime, TimeInv, Shape, TimesCover, PlannedTime, Unreadable,
           connectionVars
  <2>5. Shape'
    <3>1. sessionTime' \in [Scans -> Nat]
      BY <2>1, <2>3, <2>7, <2>t DEF TimeInv, Shape
    <3> QED
      BY <2>1, <2>2, <2>3, <2>4, <3>1 DEF TimeInv, Shape, connectionVars, clusterVars
  <2>6. TimesCover'
    BY <2>2 DEF TimeInv, TimesCover, connectionVars, clusterVars
  <2>8. (PlannedTime(s) /\ OpenedTime(s))'
    BY <2>1, <2>2, <2>3, <2>4, <2>7, <2>t, <2>c
       DEF TimeInv, Shape, PlannedTime, OpenedTime, NodeTime, BecomesAggregate, Enforced,
           clusterVars
  <2>9. ASSUME NEW u \in Scans, u # s PROVE (PlannedTime(u) /\ OpenedTime(u))'
    BY <2>1, <2>2, <2>t, <2>9
       DEF TimeInv, Shape, PlannedTime, OpenedTime, Covered, NodeTime, BecomesAggregate, Enforced,
           clusterVars, connectionVars
  <2> QED
    BY <2>5, <2>6, <2>8, <2>9 DEF TimeInv
<1>9. ASSUME NEW s \in Scans, ScanIsFinished(s) \/ StopScan(s)
      PROVE  TimeInv'
  BY <1>9 DEF ScanIsFinished, StopScan, Opened, TimeInv, Shape, TimesCover, PlannedTime,
              OpenedTime, Covered, NodeTime, connectionVars, clusterVars
<1>10. ASSUME NEW s \in Scans, ScanCounts(s)
       PROVE  TimeInv'
  BY <1>10 DEF ScanCounts, SessionMayAdvance, StageAfter, Opened, TimeInv, Shape, TimesCover,
               PlannedTime, OpenedTime, Covered, NodeTime, connectionVars, clusterVars
<1>11. ASSUME NEW s \in Scans, ScanMakesZeroRow(s)
       PROVE  TimeInv'
  BY <1>11 DEF ScanMakesZeroRow, TimeInv, Shape, TimesCover, PlannedTime, OpenedTime, Covered, NodeTime,
               connectionVars, clusterVars
<1>12. ASSUME NEW s \in Scans, ScanDocuments(s)
       PROVE  TimeInv'
  <2>1. /\ stage[s] = "open"
        /\ \/ stage' = [stage EXCEPT ![s] = "open"]
           \/ stage' = [stage EXCEPT ![s] = "ended"]
        /\ UNCHANGED <<clusterVars, settings, bind, session, node, asked, snapshot, sees>>
    BY <1>12 DEF ScanDocuments, StageAfter
  <2>2. PICK time \in {sessionTime[s]} \union
                      (IF session[s] = "timed" THEN {NodeTime(node[s])} ELSE {}) :
            sessionTime' = [sessionTime EXCEPT ![s] = time]
    BY <1>12 DEF ScanDocuments, SessionMayAdvance
  <2>3. sessionTime'[s] = time
    BY <2>2 DEF TimeInv, Shape
  <2>4. \/ UNCHANGED <<operationTime, reported>>
        \/ time # 0 /\ operationTime' = time /\ reported' = Covered(s)
    BY <1>12, <2>3 DEF ScanDocuments, SetOperationTime
  <2>5. /\ time \in Nat /\ NodeTime(node[s]) \in Nat /\ NodeTime(node[s]) <= clock
        /\ session[s] # "timed" => time = 0 \/ (Covered(s) <= time /\ time <= clock)
        /\ session[s] = "timed" => snapshot[s] <= time /\ time <= NodeTime(node[s])
        /\ Covered(s) \in Nat
    BY <2>1, <2>2, NodeTimes DEF TimeInv, Shape, OpenedTime, Covered, Opened
  <2>6. Shape'
    BY <2>1, <2>2, <2>5 DEF TimeInv, Shape, clusterVars
  <2>7. TimesCover'
    <3>1. time # 0 => Covered(s) <= time /\ time <= clock
      <4>1. session[s] = "timed" => Covered(s) = snapshot[s]
        BY DEF Covered
      <4> QED
        BY <2>5, <4>1
    <3> QED
      BY <2>1, <2>4, <2>5, <3>1 DEF TimeInv, Shape, TimesCover, clusterVars
  <2>8. ASSUME NEW u \in Scans PROVE (PlannedTime(u) /\ OpenedTime(u))'
    BY <2>1, <2>2, <2>3, <2>5
       DEF TimeInv, Shape, PlannedTime, OpenedTime, Covered, NodeTime, Opened, BecomesAggregate, Enforced,
           clusterVars
  <2> QED
    BY <2>6, <2>7, <2>8 DEF TimeInv
<1>13. ASSUME NEW s \in Scans, ValidationFails(s) \/ MongoDBFails(s)
       PROVE  TimeInv'
  BY <1>13, ForgetKeeps DEF ValidationFails, MongoDBFails
<1> QED
  BY <1>1, <1>2, <1>3, <1>4, <1>5, <1>6, <1>7, <1>8, <1>9, <1>10, <1>11, <1>12, <1>13
     DEF Next, ScanStep

THEOREM TimesHold == Spec => []TimeInv
<1>1. TimeInv /\ UNCHANGED vars => TimeInv'
  BY DEF TimeInv, Shape, TimesCover, PlannedTime, OpenedTime, Covered, NodeTime, BecomesAggregate, Enforced,
         vars, clusterVars, connectionVars, scanVars
<1> QED
  BY <1>1, TimeInvInit, TimeInvNext, PTL DEF Spec

-----------------------------------------------------------------------------
(* mongo_operation_time() is never ahead of MongoDB, and never behind what   *)
(* the scan it comes from saw or, where the server has no times, what stood  *)
(* behind the time that scan was given (MongoScanInitLocal, SetOperationTime *)
(* at the end of MongoScanFunction).                                         *)
THEOREM OperationTimesCover == Spec => []OperationTimeCoversRead
<1>1. TimeInv => OperationTimeCoversRead
  BY ScanAssumption DEF TimeInv, Shape, TimesCover, OperationTimeCoversRead, ScanAssumption
<1> QED
  BY <1>1, TimesHold, PTL

(* A scan given the operation time of another, as parameter or by SET, shows *)
(* no less than that time stands for, also when scans of servers without     *)
(* times handed it on, unless it was rewritten as an aggregate               *)
(* (MongoScanBind, RewriteMongoTopN, MongoScanInitLocal).                    *)
THEOREM CausalReads == Spec => []CausalChain
<1>1. TimeInv => CausalChain
  BY DEF TimeInv, OpenedTime, Opened, CausalChain
<1> QED
  BY <1>1, TimesHold, PTL

-----------------------------------------------------------------------------
(* Types.                                                                    *)

Names == Columns \union Aggregates

(* Sequences of a set are sequences of a larger one.                         *)
LEMMA SeqWider ==
    ASSUME NEW A, NEW B, A \subseteq B, NEW q \in Seq(A)
    PROVE  q \in Seq(B)
OBVIOUS

LEMMA SchemaNames == Schema \in Seq(Names) /\ Columns \subseteq Names
<1>1. Schema \in Seq(STRING)
  BY ScanAssumption DEF ScanAssumption
<1>2. \A i \in 1..Len(Schema) : Schema[i] \in Columns
  BY <1>1 DEF Columns, Range
<1> QED
  BY <1>1, <1>2 DEF Names

(* What MongoScanBind makes of a query.                                      *)
LEMMA BoundType ==
    ASSUME NEW q \in Queries, NEW after \in Times
    PROVE  [names |-> Schema, ids |-> q.ids, columns |-> Keep(q.ids, q.selected),
            filters |-> q.filters, pushed |-> q.pushed, above |-> q.above,
            pipeline |-> q.pipeline, explicit |-> q.explicit, mode |-> q.mode,
            pref |-> q.pref, after |-> after] \in BindTypes
<1>1. q \in QueryTypes
  BY ScanAssumption DEF ScanAssumption
<1>2. q.ids \in Seq(Names)
  BY <1>1, SchemaNames, SeqWider DEF QueryTypes
<1>3. Keep(q.ids, q.selected) \in Seq(Names)
  BY <1>2, KeepSeq
<1> QED
  BY <1>1, <1>2, <1>3, SchemaNames DEF QueryTypes, BindTypes, Names

LEMMA NoQueryType == NoQuery \in BindTypes
BY ScanAssumption
   DEF NoQuery, BindTypes, Above, Modes, Preferences, Times, ScanAssumption

LEMMA RewrittenType ==
    ASSUME NEW b \in BindTypes
    PROVE  Rewritten(b) \in BindTypes
<1>1. WithTopN(b) \in BindTypes
  BY DEF WithTopN, BindTypes
<1>2. WithAggregate(b) \in BindTypes
  <2> DEFINE out == <<IF b.above = "count" THEN "count" ELSE "__agg0">>
  <2>1. out \in Seq(Columns \union Aggregates)
    BY DEF Aggregates
  <2>2. b.above \in Above
    BY DEF BindTypes
  <2>3. WithAggregate(b) = [NoQuery EXCEPT !.names = out, !.ids = out, !.columns = out,
                                           !.above = b.above, !.pipeline = TRUE]
    BY DEF WithAggregate
  <2> HIDE DEF out
  <2> QED
    BY <2>1, <2>2, <2>3, NoQueryType DEF BindTypes
<1> QED
  BY <1>1, <1>2 DEF Rewritten

LEMMA RequestedType ==
    ASSUME NEW b \in BindTypes
    PROVE  RequestedColumns(b) \in Seq(Names)
<1>1. b.ids \in Seq(Names) /\ b.names \in Seq(Names)
  BY DEF BindTypes, Names
<1>2. ASSUME NEW S PROVE Keep(b.ids, S) \in Seq(Names) /\ Keep(b.names, S) \in Seq(Names)
  BY <1>1, KeepSeq
<1> QED
  BY <1>1, <1>2 DEF RequestedColumns

(* The documents a chunk takes up, counted from 1.                           *)
LEMMA AcceptedType ==
    ASSUME NEW s, NEW from \in Nat, NEW to \in Nat, from <= to
    PROVE  Accepted(s, from, to) \in Seq(Nat \ {0})
<1> DEFINE all == [i \in 1..to - from |-> from + i]
<1>1. all \in Seq(Nat \ {0})
  OBVIOUS
<1> HIDE DEF all
<1>2. ASSUME NEW S PROVE Keep(all, S) \in Seq(Nat \ {0})
  BY <1>1, KeepSeq
<1> QED
  BY <1>2 DEF Accepted, all

LEMMA TypeNodeTime ==
    ASSUME TypeOK, NEW n
    PROVE  NodeTime(n) \in Times
BY ScanAssumption DEF TypeOK, NodeTime, Times, ScanAssumption

LEMMA SessionTimeType ==
    ASSUME TypeOK, NEW s \in Scans, SessionMayAdvance(s)
    PROVE  sessionTime' \in [Scans -> Times]
<1>1. PICK time \in {sessionTime[s]} \union
                    (IF session[s] = "timed" THEN {NodeTime(node[s])} ELSE {}) :
          sessionTime' = [sessionTime EXCEPT ![s] = time]
  BY DEF SessionMayAdvance
<1>2. time \in Times
  BY <1>1, TypeNodeTime DEF TypeOK
<1> QED
  BY <1>1, <1>2 DEF TypeOK

LEMMA FilledType ==
    ASSUME TypeOK, NEW s \in Scans
    PROVE  Filled(s) \in Seq(Names)
<1>1. requested[s] \in Seq(Names) /\ bind[s].names \in Seq(Names)
      /\ bind[s].columns \in Seq(Names)
  BY DEF TypeOK, BindTypes, Names
<1>2. Width(bind[s]) \in Nat
  BY <1>1 DEF Width
<1> QED
  BY <1>1, <1>2 DEF Filled

LEMMA ForgetTypes ==
    ASSUME TypeOK, ForgetScans
    PROVE  TypeOK'
BY NoQueryType, ScanAssumption
   DEF TypeOK, ForgetScans, clusterVars, connectionVars, Stages, Times, ScanAssumption

THEOREM TypeInit == Init => TypeOK
BY NoQueryType, ScanAssumption
   DEF Init, TypeOK, Stages, Times, Preferences, ScanAssumption

LEMMA TypeNext ==
    ASSUME TypeOK, Next
    PROVE  TypeOK'
<1>0. MaxTime \in Nat /\ clock \in Nat /\ applied \in Nat /\ ChunkSize \in Nat
  BY ScanAssumption DEF ScanAssumption, TypeOK
<1>1. CASE Write
  BY <1>0, <1>1 DEF Write, TypeOK, scanVars, connectionVars
<1>2. CASE Replicate
  BY <1>0, <1>2 DEF Replicate, TypeOK, scanVars, connectionVars
<1>3. CASE SetAfterClusterTime
  <2>1. PICK value \in KnownTimes \union (TimesGiven \intersect {Unreadable}) :
            settings' = [settings EXCEPT !.after = value, !.sees = SeenAt(value)]
    BY <1>3 DEF SetAfterClusterTime
  <2>2. value \in Times \union {Unreadable} /\ SeenAt(value) \in Times
    BY <1>0 DEF KnownTimes, SeenAt, TypeOK, Times
  <2> QED
    BY <1>3, <2>1, <2>2 DEF SetAfterClusterTime, TypeOK, clusterVars, scanVars
<1>4. CASE SetReadPreference
  <2>1. PICK value \in PreferencesSet : settings' = [settings EXCEPT !.pref = value]
    BY <1>4 DEF SetReadPreference
  <2>2. value \in Preferences \union {"unreadable"}
    BY ScanAssumption DEF ScanAssumption
  <2> QED
    BY <1>4, <2>1, <2>2 DEF SetReadPreference, TypeOK, clusterVars, scanVars
<1>5. CASE EndQuery
  BY <1>5, ForgetTypes DEF EndQuery
<1>6. ASSUME NEW s \in Scans, MongoScanBind(s)
      PROVE  TypeOK'
  <2>1. PICK q \in Queries, after \in KnownTimes :
            /\ stage' = [stage EXCEPT ![s] = "bound"]
            /\ bind' = [bind EXCEPT ![s] =
                  [names |-> Schema, ids |-> q.ids, columns |-> Keep(q.ids, q.selected),
                   filters |-> q.filters, pushed |-> q.pushed, above |-> q.above,
                   pipeline |-> q.pipeline, explicit |-> q.explicit, mode |-> q.mode,
                   pref |-> q.pref, after |-> after]]
            /\ asked' = [asked EXCEPT ![s] = after]
            /\ sees' = [sees EXCEPT ![s] = SeenAt(after)]
    BY <1>6 DEF MongoScanBind
  <2>2. after \in Times /\ SeenAt(after) \in Times
    BY <1>0 DEF KnownTimes, SeenAt, TypeOK, Times
  <2>3. bind' \in [Scans -> BindTypes]
    BY <2>1, <2>2, BoundType DEF TypeOK
  <2> QED
    BY <1>6, <2>1, <2>2, <2>3 DEF MongoScanBind, TypeOK, clusterVars, connectionVars, Stages
<1>7. ASSUME NEW s \in Scans, Optimize(s)
      PROVE  TypeOK'
  <2>1. bind' \in [Scans -> BindTypes]
    BY <1>7, RewrittenType DEF Optimize, TypeOK
  <2> QED
    BY <1>7, <2>1 DEF Optimize, TypeOK, clusterVars, connectionVars, Stages
<1>8. ASSUME NEW s \in Scans, MongoScanInitLocal(s)
      PROVE  TypeOK'
  <2>1. PICK has \in Servers, n \in ReadNodes(EffectivePreference(bind[s])), ds \in Yields(bind[s]) :
            /\ session' = [session EXCEPT ![s] = has]
            /\ sessionTime' = [sessionTime EXCEPT ![s] =
                  CASE has = "timed"   -> NodeTime(n)
                    [] has = "untimed" -> EffectiveTime(bind[s])
                    [] OTHER           -> 0]
            /\ node' = [node EXCEPT ![s] = n]
            /\ docs' = [docs EXCEPT ![s] = ds]
            /\ snapshot' = [snapshot EXCEPT ![s] = NodeTime(n)]
    BY <1>8 DEF MongoScanInitLocal
  <2>2. /\ sees' = [sees EXCEPT ![s] = Promised(s)]
        /\ requested' = [requested EXCEPT ![s] = RequestedColumns(bind[s])]
        /\ stage' = [stage EXCEPT ![s] = "open"]
        /\ UNCHANGED <<clusterVars, connectionVars, bind, position, finished, rows, filled, asked>>
    BY <1>8 DEF MongoScanInitLocal
  <2>3. /\ has \in {"none", "untimed", "timed"}
        /\ n \in {"primary", "secondary"}
        /\ NodeTime(n) \in Times /\ 0 \in Times
    BY <1>0, ScanAssumption, TypeNodeTime DEF ScanAssumption, ReadNodes, Times
  <2>e. EffectiveTime(bind[s]) \in Times
    <3>1. bind[s].after \in Times
      BY DEF TypeOK, BindTypes
    <3>2. settings.after \in Times \union {Unreadable} /\ 0 \in Times
      BY <1>0 DEF TypeOK, Times
    <3> QED
      BY <3>1, <3>2 DEF EffectiveTime
  <2>4. ds \in Seq(Documents)
    <3>1. ds \in {<<>>, <<"good">>} \/ ds \in Results
      BY DEF Yields
    <3>2. \A q \in Results : q \in Seq(Documents)
      BY ScanAssumption DEF ScanAssumption
    <3>3. <<>> \in Seq(Documents) /\ <<"good">> \in Seq(Documents)
      BY DEF Documents
    <3> QED
      BY <3>1, <3>2, <3>3
  <2>5. Promised(s) \in Times
    BY DEF Promised, TypeOK
  <2>6. requested' \in [Scans -> Seq(Columns \union Aggregates)]
    BY <2>2, RequestedType DEF TypeOK, Names
  <2> QED
    BY <2>1, <2>2, <2>3, <2>e, <2>4, <2>5, <2>6 DEF TypeOK, clusterVars, connectionVars, Stages
<1>9. ASSUME NEW s \in Scans, ScanIsFinished(s) \/ StopScan(s)
      PROVE  TypeOK'
  BY <1>9 DEF ScanIsFinished, StopScan, TypeOK, clusterVars, connectionVars, Stages
<1>10. ASSUME NEW s \in Scans, ScanCounts(s)
       PROVE  TypeOK'
  <2> DEFINE from == position[s]
             to == IF from + ChunkSize < Len(docs[s]) THEN from + ChunkSize ELSE Len(docs[s])
             given == [i \in 1..to - from |-> from + i]
  <2>1. from \in Nat /\ to \in Nat
    BY <1>0 DEF TypeOK
  <2>2. given \in Seq(Nat)
    <3> HIDE DEF from, to
    <3>1. CASE from <= to
      BY <2>1, <3>1
    <3>2. CASE to < from
      <4>1. 1..to - from = 1..0
        BY <2>1, <3>2
      <4>2. given \in [1..0 -> Nat]
        BY <4>1
      <4> HIDE DEF given
      <4> QED
        BY <4>2
    <3> QED
      BY <2>1, <3>1, <3>2
  <2>3. /\ requested' = [requested EXCEPT ![s] = <<>>]
        /\ position' = [position EXCEPT ![s] = to]
        /\ rows' = [rows EXCEPT ![s] = @ \o given]
        /\ filled' = [filled EXCEPT ![s] = @ \union {<<>> : k \in DOMAIN given}]
        /\ finished' = [finished EXCEPT ![s] = to = Len(docs[s])]
        /\ stage' = [stage EXCEPT ![s] = StageAfter(given)]
        /\ SessionMayAdvance(s)
        /\ UNCHANGED <<clusterVars, connectionVars, bind, session, node, docs, asked, snapshot,
                       sees>>
    BY <1>10 DEF ScanCounts
  <2> HIDE DEF from, to, given
  <2>4. rows' \in [Scans -> Seq(Nat)]
    <3>1. rows[s] \o given \in Seq(Nat)
      BY <2>2 DEF TypeOK
    <3> QED
      BY <2>3, <3>1 DEF TypeOK
  <2>6. filled' \in [Scans -> SUBSET Seq(Columns \union Aggregates)]
    <3>1. <<>> \in Seq(Columns \union Aggregates)
      OBVIOUS
    <3> QED
      BY <2>3, <3>1 DEF TypeOK
  <2>5. sessionTime' \in [Scans -> Times] /\ StageAfter(given) \in Stages
    BY <2>3, SessionTimeType DEF StageAfter, Stages
  <2>7. /\ requested' \in [Scans -> Seq(Columns \union Aggregates)]
        /\ position' \in [Scans -> Nat]
        /\ finished' \in [Scans -> BOOLEAN]
        /\ stage' \in [Scans -> Stages]
    BY <2>1, <2>3, <2>5 DEF TypeOK
  <2>8. UNCHANGED <<clusterVars, connectionVars, bind, session, node, docs, asked, snapshot, sees>>
    BY <2>3
  <2> QED
    BY <2>4, <2>5, <2>6, <2>7, <2>8 DEF TypeOK, clusterVars, connectionVars
<1>11. ASSUME NEW s \in Scans, ScanMakesZeroRow(s)
       PROVE  TypeOK'
  BY <1>11 DEF ScanMakesZeroRow, TypeOK, clusterVars, connectionVars
<1>12. ASSUME NEW s \in Scans, ScanDocuments(s)
       PROVE  TypeOK'
  <2>1. PICK to \in position[s]..Len(docs[s]) :
            /\ position' = [position EXCEPT ![s] = to]
            /\ rows' = [rows EXCEPT ![s] = @ \o Accepted(s, position[s], to)]
            /\ filled' = [filled EXCEPT ![s] =
                             @ \union {Filled(s) : k \in DOMAIN Accepted(s, position[s], to)}]
            /\ finished' = [finished EXCEPT ![s] = to = Len(docs[s])]
            /\ stage' = [stage EXCEPT ![s] = StageAfter(Accepted(s, position[s], to))]
            /\ \/ SetOperationTime(s, sessionTime'[s])
               \/ UNCHANGED <<operationTime, reported>>
    BY <1>12 DEF ScanDocuments
  <2>2. /\ SessionMayAdvance(s)
        /\ UNCHANGED <<clusterVars, settings, bind, session, node, docs, requested, asked,
                       snapshot, sees>>
    BY <1>12 DEF ScanDocuments
  <2>3. position[s] \in Nat /\ to \in Nat /\ position[s] <= to
    BY <2>1 DEF TypeOK
  <2> DEFINE given == Accepted(s, position[s], to)
  <2>4. given \in Seq(Nat)
    BY <2>3, AcceptedType, SeqWider
  <2> HIDE DEF given
  <2>5. rows' \in [Scans -> Seq(Nat)]
    BY <2>1, <2>4 DEF TypeOK, given
  <2>6. filled' \in [Scans -> SUBSET Seq(Columns \union Aggregates)]
    BY <2>1, FilledType, SMTT(30) DEF TypeOK, Names
  <2>7. sessionTime' \in [Scans -> Times] /\ StageAfter(given) \in Stages
    BY <2>2, SessionTimeType DEF StageAfter, Stages
  <2>8. operationTime' \in Times /\ reported' \in Times
    <3>1. sessionTime'[s] \in Times /\ Covered(s) \in Times
      BY <2>7 DEF TypeOK, Covered
    <3> QED
      BY <2>1, <3>1 DEF SetOperationTime, TypeOK
  <2> QED
    BY <2>1, <2>2, <2>3, <2>5, <2>6, <2>7, <2>8 DEF TypeOK, clusterVars, given
<1>13. ASSUME NEW s \in Scans, ValidationFails(s) \/ MongoDBFails(s)
       PROVE  TypeOK'
  BY <1>13, ForgetTypes DEF ValidationFails, MongoDBFails
<1> QED
  BY <1>1, <1>2, <1>3, <1>4, <1>5, <1>6, <1>7, <1>8, <1>9, <1>10, <1>11, <1>12, <1>13
     DEF Next, ScanStep

(* Every variable of every scan keeps its type: chunks, columns and times    *)
(* stay what the C++ structures hold (MongoScanData, MongoScanState).        *)
THEOREM TypesHold == Spec => []TypeOK
<1>1. TypeOK /\ UNCHANGED vars => TypeOK'
  BY DEF TypeOK, vars, clusterVars, connectionVars, scanVars
<1> QED
  BY <1>1, TypeInit, TypeNext, PTL DEF Spec

-----------------------------------------------------------------------------
(* Rows and their columns.                                                   *)

(* Rows come from the documents consumed so far and no others; a scan says   *)
(* that it has finished, and ends, at the end of the cursor only.            *)
RowsConsumed(s) ==
    /\ stage[s] \in {"idle", "bound", "planned"} =>
          rows[s] = <<>> /\ position[s] = 0 /\ ~finished[s] /\ filled[s] = {}
    /\ stage[s] \in Opened =>
          /\ position[s] <= Len(docs[s])
          /\ Keep(rows[s], Nat \ {0}) = Accepted(s, 0, position[s])
    /\ stage[s] \in Opened /\ finished[s] => position[s] = Len(docs[s])
    /\ stage[s] = "ended" => position[s] = Len(docs[s])

(* A count in MongoDB asks for one column and finishes with its row.         *)
CountRow(s) ==
    /\ stage[s] = "idle" => bind[s].above = "none"
    /\ bind[s].above = "count" /\ BecomesAggregate(bind[s]) /\ stage[s] # "bound" =>
          /\ bind[s].pipeline
          /\ bind[s].columns = <<"count">>
          /\ bind[s].ids = <<"count">>
          /\ stage[s] \in Opened =>
                /\ requested[s] = <<"count">>
                /\ docs[s] \in {<<>>, <<"good">>}
                /\ IF finished[s] THEN Len(rows[s]) = 1 ELSE rows[s] = <<>> /\ position[s] = 0
          /\ stage[s] = "ended" => finished[s]

(* The columns to give out are those of the scan less some with filters, in  *)
(* the same order.                                                           *)
GivesOut(b) ==
    /\ b.columns = Keep(b.ids, Range(b.columns))
    /\ Range(b.ids) \subseteq Range(b.columns) \union b.filters

Leads(a, b) == Len(a) <= Len(b) /\ SubSeq(b, 1, Len(a)) = a

(* They are the first of the columns asked for, and the only ones unless     *)
(* rows are validated.                                                       *)
LinesUp(s) ==
    bind[s].columns # <<>> /\ ~Widened(bind[s]) =>
        /\ filled[s] \subseteq {bind[s].columns}
        /\ stage[s] \in Opened =>
              /\ Leads(bind[s].columns, requested[s])
              /\ requested[s] = bind[s].columns \/ Enforced(bind[s])

ScanInv(s) == RowsConsumed(s) /\ CountRow(s) /\ GivesOut(bind[s]) /\ LinesUp(s)

RowInv == \A s \in Scans : ScanInv(s)

-----------------------------------------------------------------------------
(* Chunks.                                                                   *)

LEMMA AcceptedNone ==
    ASSUME NEW s
    PROVE  Accepted(s, 0, 0) = <<>>
<1>1. [i \in 1..0 - 0 |-> 0 + i] = <<>>
  OBVIOUS
<1> QED
  BY <1>1, KeepEmpty DEF Accepted

(* What two chunks accept is what one accepts that is as long as both.       *)
LEMMA AcceptedSplit ==
    ASSUME NEW s, NEW from \in Nat, NEW mid \in Nat, NEW to \in Nat, from <= mid, mid <= to
    PROVE  Accepted(s, from, to) = Accepted(s, from, mid) \o Accepted(s, mid, to)
<1> DEFINE S == {k \in DOMAIN docs[s] : Enforced(bind[s]) => docs[s][k] = "good"}
           a == [i \in 1..mid - from |-> from + i]
           b == [i \in 1..to - mid |-> mid + i]
           c == [i \in 1..to - from |-> from + i]
<1>1. a \in Seq(Nat) /\ b \in Seq(Nat) /\ c \in Seq(Nat)
  OBVIOUS
<1>2. c = a \o b
  <2>1. Len(a) = mid - from /\ Len(b) = to - mid /\ Len(c) = to - from
    OBVIOUS
  <2>2. a \o b = [i \in 1..(mid - from) + (to - mid) |->
                     IF i <= mid - from THEN a[i] ELSE b[i - (mid - from)]]
    BY <1>1, <2>1
  <2>3. (mid - from) + (to - mid) = to - from
    OBVIOUS
  <2>4. ASSUME NEW i \in 1..to - from
        PROVE  (IF i <= mid - from THEN a[i] ELSE b[i - (mid - from)]) = from + i
    OBVIOUS
  <2> HIDE DEF a, b
  <2> QED
    BY <2>2, <2>3, <2>4
<1> HIDE DEF a, b, S
<1>3. Keep(a \o b, S) = Keep(a, S) \o Keep(b, S)
  BY <1>1, KeepConcat
<1> QED
  BY <1>2, <1>3 DEF a, b, S, Accepted

(* Without enforcement every document is accepted.                           *)
LEMMA AcceptedAll ==
    ASSUME TypeOK, NEW s \in Scans, ~Enforced(bind[s]),
           NEW from \in Nat, NEW to \in Nat, from <= to, to <= Len(docs[s])
    PROVE  Accepted(s, from, to) = [i \in 1..to - from |-> from + i]
<1> DEFINE all == [i \in 1..to - from |-> from + i]
           S == {k \in DOMAIN docs[s] : Enforced(bind[s]) => docs[s][k] = "good"}
<1>1. docs[s] \in Seq(Documents)
  BY DEF TypeOK
<1>2. DOMAIN docs[s] = 1..Len(docs[s]) /\ Len(docs[s]) \in Nat
  BY <1>1
<1>3. all \in Seq(DOMAIN docs[s])
  BY <1>2
<1> HIDE DEF all
<1>4. DOMAIN docs[s] \subseteq S
  OBVIOUS
<1> HIDE DEF S
<1>5. Keep(all, S) = all
  BY <1>3, <1>4, KeepAll
<1> QED
  BY <1>5 DEF all, S, Accepted

(* A chunk carries on where the rows before it end.                          *)
LEMMA ChunkAdds ==
    ASSUME TypeOK, NEW s \in Scans, RowsConsumed(s), stage[s] \in Opened,
           NEW to \in position[s]..Len(docs[s])
    PROVE  Keep(rows[s] \o Accepted(s, position[s], to), Nat \ {0}) = Accepted(s, 0, to)
<1> DEFINE p == position[s]
           given == Accepted(s, p, to)
           r == rows[s]
<1>1. p \in Nat /\ to \in Nat /\ 0 <= p /\ p <= to /\ r \in Seq(Nat)
  BY DEF TypeOK
<1>2. Keep(r, Nat \ {0}) = Accepted(s, 0, p)
  BY DEF RowsConsumed
<1> HIDE DEF p, r
<1>3. given \in Seq(Nat \ {0})
  BY <1>1, AcceptedType
<1>4. Accepted(s, 0, to) = Accepted(s, 0, p) \o given
  BY <1>1, AcceptedSplit, ZenonT(30)
<1> HIDE DEF given
<1>5. given \in Seq(Nat)
  BY <1>3, SeqWider
<1>6. Keep(given, Nat \ {0}) = given
  BY <1>3, KeepAll
<1>7. Keep(r \o given, Nat \ {0}) = Keep(r, Nat \ {0}) \o Keep(given, Nat \ {0})
  BY <1>1, <1>5, KeepConcat
<1> QED
  BY <1>2, <1>4, <1>6, <1>7 DEF given, p, r

(* A chunk without rows is the last: the loop ends full or at the end.       *)
LEMMA EmptyChunkIsLast ==
    ASSUME NEW s, NEW to, StopsAt(s, to), Accepted(s, position[s], to) = <<>>
    PROVE  to = Len(docs[s])
<1>1. Len(<<>>) = 0 /\ ChunkSize # 0
  BY ScanAssumption DEF ScanAssumption
<1> QED
  BY <1>1 DEF StopsAt

-----------------------------------------------------------------------------
(* Columns.                                                                  *)

LEMMA NoQueryGivesOut == GivesOut(NoQuery)
<1>1. NoQuery.ids = <<>> /\ NoQuery.columns = <<>>
  BY DEF NoQuery
<1>2. Range(<<>>) = {}
  BY DEF Range
<1> QED
  BY <1>1, <1>2, KeepEmpty DEF GivesOut

(* The optimizer keeps it, whether it rewrites the scan or not.              *)
LEMMA RewrittenGivesOut ==
    ASSUME NEW b \in BindTypes, GivesOut(b)
    PROVE  GivesOut(Rewritten(b))
<1>1. GivesOut(WithTopN(b))
  <2>1. /\ WithTopN(b).ids = b.ids
        /\ WithTopN(b).columns = b.columns
        /\ WithTopN(b).filters = b.filters
    BY DEF WithTopN, BindTypes
  <2> QED
    BY <2>1 DEF GivesOut
<1>2. GivesOut(WithAggregate(b))
  <2> DEFINE out == <<IF b.above = "count" THEN "count" ELSE "__agg0">>
  <2>1. WithAggregate(b).ids = out /\ WithAggregate(b).columns = out
    BY DEF WithAggregate, NoQuery
  <2>2. out \in Seq(Range(out))
    BY DEF Range
  <2> HIDE DEF out
  <2>3. Keep(out, Range(out)) = out
    BY <2>2, KeepAll
  <2> QED
    BY <2>1, <2>3 DEF GivesOut
<1> QED
  BY <1>1, <1>2 DEF Rewritten

LEMMA BoundGivesOut ==
    ASSUME NEW q \in Queries, NEW b, b.ids = q.ids, b.filters = q.filters,
           b.columns = Keep(q.ids, q.selected)
    PROVE  GivesOut(b)
<1>1. q \in QueryTypes /\ Range(q.ids) \subseteq q.selected \union q.filters
  BY ScanAssumption DEF ScanAssumption
<1>2. q.ids \in Seq(Columns)
  BY <1>1 DEF QueryTypes
<1>3. q.ids \in Seq(Range(q.ids))
  BY <1>2 DEF Range
<1>4. Range(b.columns) = Range(q.ids) \intersect q.selected
  BY <1>2, KeepRange
<1>5. Keep(q.ids, q.selected) = Keep(q.ids, Range(b.columns))
  <2>1. q.selected \intersect Range(q.ids) = Range(b.columns) \intersect Range(q.ids)
    BY <1>4
  <2> QED
    BY <1>3, <2>1, KeepOnly
<1> QED
  BY <1>1, <1>4, <1>5 DEF GivesOut

(* So a scan that no unpushed filter widens asks for those columns first.    *)
LEMMA RequestedLeads ==
    ASSUME NEW b \in BindTypes, GivesOut(b), ~Widened(b)
    PROVE  /\ Leads(b.columns, RequestedColumns(b))
           /\ RequestedColumns(b) = b.columns \/ Enforced(b)
<1>1. b.ids \in Seq(Names) /\ b.names \in Seq(Names) /\ b.columns \in Seq(Names)
  BY DEF BindTypes, Names
<1>2. Leads(b.columns, b.columns)
  BY <1>1 DEF Leads
<1>3. CASE b.pipeline
  <2>1. b.filters \subseteq Range(b.columns)
    BY <1>3 DEF Widened
  <2>2. Range(b.ids) \subseteq Range(b.columns)
    BY <2>1 DEF GivesOut
  <2>3. b.ids \in Seq(Range(b.ids))
    BY <1>1 DEF Range
  <2>4. Keep(b.ids, Range(b.columns)) = b.ids
    BY <2>2, <2>3, KeepAll
  <2>5. RequestedColumns(b) = b.columns
    BY <1>3, <2>4 DEF GivesOut, RequestedColumns
  <2> QED
    BY <1>2, <2>5
<1>4. CASE ~b.pipeline
  <2> DEFINE wanted == Range(b.columns) \union (IF b.pushed THEN {} ELSE b.filters)
             more == IF Enforced(b) THEN Keep(b.names, Range(b.names) \ wanted) ELSE <<>>
  <2>1. wanted = Range(b.columns)
    <3>1. CASE b.pushed
      BY <3>1
    <3>2. CASE ~b.pushed
      BY <1>4, <3>2 DEF Widened
    <3> QED
      BY <3>1, <3>2
  <2>2. RequestedColumns(b) = Keep(b.ids, wanted) \o more
    BY <1>4 DEF RequestedColumns
  <2>3. RequestedColumns(b) = b.columns \o more
    BY <2>1, <2>2 DEF GivesOut
  <2>4. more \in Seq(Names)
    BY <1>1, KeepSeq
  <2>5. ~Enforced(b) => more = <<>>
    OBVIOUS
  <2> HIDE DEF more
  <2>6. Leads(b.columns, b.columns \o more)
    BY <1>1, <2>4 DEF Leads
  <2>7. more = <<>> => b.columns \o more = b.columns
    BY <1>1
  <2> QED
    BY <2>3, <2>5, <2>6, <2>7
<1> QED
  BY <1>3, <1>4

LEMMA FilledLinesUp ==
    ASSUME TypeOK, NEW s \in Scans, LinesUp(s), stage[s] \in Opened,
           bind[s].columns # <<>>, ~Widened(bind[s])
    PROVE  Filled(s) = bind[s].columns /\ ~CountsOnly(s)
<1> DEFINE a == bind[s].columns
           b == requested[s]
<1>1. a \in Seq(Names) /\ b \in Seq(Names)
  BY DEF TypeOK, BindTypes, Names
<1>2. a # <<>> /\ Width(bind[s]) = Len(a)
  BY DEF Width
<1>3. Leads(a, b) /\ (b = a \/ Enforced(bind[s]))
  BY DEF LinesUp
<1> HIDE DEF a, b
<1>4. b # <<>>
  BY <1>1, <1>2, <1>3 DEF Leads
<1>5. Filled(s) = IF Len(b) <= Len(a) THEN b ELSE SubSeq(b, 1, Len(a))
  BY <1>2, <1>4 DEF Filled, a, b
<1>6. Len(b) <= Len(a) => b = a
  BY <1>1, <1>3 DEF Leads
<1>7. Filled(s) = a
  BY <1>3, <1>5, <1>6 DEF Leads
<1>8. ASSUME CountsOnly(s) PROVE FALSE
  <2>1. Width(bind[s]) = 1 /\ Len(b) > 1 /\ ~Enforced(bind[s])
    BY <1>8 DEF CountsOnly, b
  <2>2. Len(a) = 1 /\ b = a
    BY <1>2, <1>3, <2>1
  <2>3. Len(b) = 1 /\ ~(1 > 1)
    BY <2>2
  <2> QED
    BY <2>1, <2>3
<1> QED
  BY <1>7, <1>8 DEF a

-----------------------------------------------------------------------------
(* The steps.                                                                *)

(* What these facts are about.                                               *)
Local(s) ==
    <<stage[s], bind[s], docs[s], position[s], requested[s], finished[s], rows[s], filled[s]>>

LEMMA SameScan ==
    ASSUME NEW s, ScanInv(s), Local(s)' = Local(s)
    PROVE  ScanInv(s)'
<1>1. /\ stage'[s] = stage[s] /\ bind'[s] = bind[s] /\ docs'[s] = docs[s]
      /\ position'[s] = position[s] /\ requested'[s] = requested[s]
      /\ finished'[s] = finished[s] /\ rows'[s] = rows[s] /\ filled'[s] = filled[s]
  BY DEF Local
<1>2. Accepted(s, 0, position[s])' = Accepted(s, 0, position[s])
  BY <1>1 DEF Accepted
<1>3. RowsConsumed(s)'
  BY <1>1, <1>2 DEF ScanInv, RowsConsumed
<1>4. CountRow(s)'
  BY <1>1 DEF ScanInv, CountRow
<1>5. (GivesOut(bind[s]) /\ LinesUp(s))'
  BY <1>1 DEF ScanInv, GivesOut, LinesUp
<1> QED
  BY <1>3, <1>4, <1>5 DEF ScanInv

(* A step of one scan leaves the others alone.                               *)
LEMMA OtherScans ==
    ASSUME TypeOK, NEW s \in Scans, NEW u \in Scans, u # s,
           \/ MongoScanBind(s) \/ Optimize(s) \/ MongoScanInitLocal(s) \/ ScanIsFinished(s)
           \/ ScanCounts(s) \/ ScanMakesZeroRow(s) \/ ScanDocuments(s) \/ StopScan(s)
    PROVE  Local(u)' = Local(u)
<1>1. CASE MongoScanBind(s) \/ Optimize(s)
  BY <1>1 DEF MongoScanBind, Optimize, Local, TypeOK
<1>2. CASE MongoScanInitLocal(s)
  BY <1>2 DEF MongoScanInitLocal, Local, TypeOK
<1>3. CASE ScanIsFinished(s) \/ StopScan(s) \/ ScanMakesZeroRow(s)
  BY <1>3 DEF ScanIsFinished, StopScan, ScanMakesZeroRow, Local, TypeOK
<1>4. CASE ScanCounts(s)
  BY <1>4 DEF ScanCounts, Local, TypeOK
<1>5. CASE ScanDocuments(s)
  BY <1>5 DEF ScanDocuments, Local, TypeOK
<1> QED
  BY <1>1, <1>2, <1>3, <1>4, <1>5

LEMMA FreshScan ==
    ASSUME NEW s, stage[s] = "idle", bind[s] = NoQuery, rows[s] = <<>>, position[s] = 0,
           finished[s] = FALSE, filled[s] = {}
    PROVE  ScanInv(s)
<1>1. NoQuery.above = "none"
  BY DEF NoQuery
<1>2. RowsConsumed(s)
  BY DEF RowsConsumed, Opened
<1>3. CountRow(s)
  BY <1>1 DEF CountRow
<1>4. LinesUp(s)
  BY DEF LinesUp, Opened
<1> QED
  BY <1>2, <1>3, <1>4, NoQueryGivesOut DEF ScanInv

LEMMA ForgetRows ==
    ASSUME ForgetScans
    PROVE  RowInv'
<1>1. ASSUME NEW s \in Scans PROVE ScanInv(s)'
  <2>1. /\ stage'[s] = "idle" /\ bind'[s] = NoQuery /\ rows'[s] = <<>> /\ position'[s] = 0
        /\ finished'[s] = FALSE /\ filled'[s] = {}
    BY DEF ForgetScans
  <2>2. (stage[s] = "idle" /\ bind[s] = NoQuery /\ rows[s] = <<>> /\ position[s] = 0
         /\ finished[s] = FALSE /\ filled[s] = {} => ScanInv(s))'
    BY FreshScan, PTL
  <2> QED
    BY <2>1, <2>2
<1> QED
  BY <1>1 DEF RowInv

LEMMA BindRows ==
    ASSUME TypeOK, RowInv, NEW s \in Scans, MongoScanBind(s)
    PROVE  ScanInv(s)'
<1>1. PICK q \in Queries, after \in KnownTimes :
          /\ stage' = [stage EXCEPT ![s] = "bound"]
          /\ bind' = [bind EXCEPT ![s] =
                [names |-> Schema, ids |-> q.ids, columns |-> Keep(q.ids, q.selected),
                 filters |-> q.filters, pushed |-> q.pushed, above |-> q.above,
                 pipeline |-> q.pipeline, explicit |-> q.explicit, mode |-> q.mode,
                 pref |-> q.pref, after |-> after]]
  BY DEF MongoScanBind
<1>2. /\ stage[s] = "idle"
      /\ UNCHANGED <<docs, position, requested, finished, rows, filled>>
  BY DEF MongoScanBind
<1>3. /\ stage'[s] = "bound"
      /\ bind'[s].ids = q.ids /\ bind'[s].filters = q.filters
      /\ bind'[s].columns = Keep(q.ids, q.selected)
  BY <1>1 DEF TypeOK
<1>4. rows[s] = <<>> /\ position[s] = 0 /\ ~finished[s] /\ filled[s] = {}
  BY <1>2 DEF RowInv, ScanInv, RowsConsumed
<1>5. RowsConsumed(s)'
  BY <1>2, <1>3, <1>4 DEF RowsConsumed, Opened
<1>6. CountRow(s)'
  BY <1>3 DEF CountRow
<1>7. GivesOut(bind[s])'
  <2> DEFINE b == bind'[s]
  <2>1. b.ids = q.ids /\ b.filters = q.filters /\ b.columns = Keep(q.ids, q.selected)
    BY <1>3
  <2> HIDE DEF b
  <2>2. GivesOut(b)
    BY <2>1, BoundGivesOut
  <2> QED
    BY <2>2 DEF b, GivesOut
<1>8. LinesUp(s)'
  BY <1>2, <1>3, <1>4 DEF LinesUp, Opened
<1> QED
  BY <1>5, <1>6, <1>7, <1>8 DEF ScanInv

LEMMA OptimizeRows ==
    ASSUME TypeOK, RowInv, NEW s \in Scans, Optimize(s)
    PROVE  ScanInv(s)'
<1> DEFINE b == bind[s]
<1>1. /\ stage[s] = "bound"
      /\ stage'[s] = "planned"
      /\ bind'[s] = Rewritten(b)
      /\ UNCHANGED <<docs, position, requested, finished, rows, filled>>
  BY DEF Optimize, TypeOK
<1>2. b \in BindTypes /\ GivesOut(b)
  BY DEF TypeOK, RowInv, ScanInv
<1> HIDE DEF b
<1>3. rows[s] = <<>> /\ position[s] = 0 /\ ~finished[s] /\ filled[s] = {}
  BY <1>1 DEF RowInv, ScanInv, RowsConsumed
<1>4. RowsConsumed(s)'
  BY <1>1, <1>3 DEF RowsConsumed, Opened
<1>5. LET r == Rewritten(b) IN
      r.above = "count" /\ BecomesAggregate(r) =>
          r.pipeline /\ r.columns = <<"count">> /\ r.ids = <<"count">>
  <2>1. CASE b.above = "topn"
    <3>1. Rewritten(b) = WithTopN(b) /\ WithTopN(b).above = "topn"
      BY <1>2, <2>1 DEF Rewritten, BecomesAggregate, WithTopN, BindTypes
    <3> QED
      BY <3>1
  <2>2. CASE b.above # "topn" /\ BecomesAggregate(b)
    <3>1. Rewritten(b) = WithAggregate(b)
      BY <2>2 DEF Rewritten
    <3>2. /\ WithAggregate(b).above = b.above
          /\ WithAggregate(b).pipeline
          /\ b.above = "count" => WithAggregate(b).columns = <<"count">>
                                  /\ WithAggregate(b).ids = <<"count">>
      BY DEF WithAggregate, NoQuery
    <3> QED
      BY <3>1, <3>2
  <2>3. CASE b.above # "topn" /\ ~BecomesAggregate(b)
    BY <2>3 DEF Rewritten
  <2> QED
    BY <2>1, <2>2, <2>3
<1>6. CountRow(s)'
  BY <1>1, <1>5 DEF CountRow, Opened, BecomesAggregate, Enforced
<1>7. GivesOut(bind[s])'
  <2>1. GivesOut(Rewritten(b))
    BY <1>2, RewrittenGivesOut
  <2> QED
    BY <1>1, <2>1 DEF GivesOut
<1>8. LinesUp(s)'
  BY <1>1, <1>3 DEF LinesUp, Opened
<1> QED
  BY <1>4, <1>6, <1>7, <1>8 DEF ScanInv

LEMMA InitLocalRows ==
    ASSUME TypeOK, RowInv, NEW s \in Scans, MongoScanInitLocal(s)
    PROVE  ScanInv(s)'
<1> DEFINE b == bind[s]
<1>1. PICK ds \in Yields(b) : docs' = [docs EXCEPT ![s] = ds]
  BY DEF MongoScanInitLocal
<1>2. /\ stage[s] = "planned"
      /\ stage'[s] = "open"
      /\ requested'[s] = RequestedColumns(b)
      /\ UNCHANGED <<bind, position, finished, rows, filled>>
  BY DEF MongoScanInitLocal, TypeOK
<1>3. b \in BindTypes /\ GivesOut(b) /\ CountRow(s)
  BY DEF TypeOK, RowInv, ScanInv
<1>4. docs'[s] = ds
  BY <1>1 DEF TypeOK
<1>5. ds \in Seq(Documents)
  <2>1. docs' \in [Scans -> Seq(Documents)]
    BY TypeNext DEF Next, ScanStep, TypeOK
  <2> QED
    BY <1>4, <2>1
<1>6. rows[s] = <<>> /\ position[s] = 0 /\ ~finished[s] /\ filled[s] = {}
  BY <1>2 DEF RowInv, ScanInv, RowsConsumed
<1>7. RowsConsumed(s)'
  <2>1. Accepted(s, 0, 0)' = <<>>
    <3>1. [i \in 1..0 - 0 |-> 0 + i] = <<>>
      OBVIOUS
    <3> QED
      BY <3>1, KeepEmpty DEF Accepted
  <2>2. Keep(<<>>, Nat \ {0}) = <<>>
    BY KeepEmpty
  <2>3. Len(ds) >= 0
    BY <1>5
  <2> QED
    BY <1>2, <1>4, <1>6, <2>1, <2>2, <2>3 DEF RowsConsumed
<1>8. CountRow(s)'
  <2>1. ASSUME b.above = "count", BecomesAggregate(b)
        PROVE  requested'[s] = <<"count">> /\ ds \in {<<>>, <<"good">>}
    BY <1>1, <1>2, <1>3, <2>1 DEF CountRow, Yields, RequestedColumns
  <2> QED
    BY <1>2, <1>3, <1>4, <1>6, <2>1 DEF CountRow
<1>9. GivesOut(bind[s])'
  BY <1>2, <1>3 DEF GivesOut
<1>10. LinesUp(s)'
  <2>1. ~Widened(b) => /\ Leads(b.columns, requested'[s])
                       /\ requested'[s] = b.columns \/ Enforced(b)
    BY <1>2, <1>3, RequestedLeads
  <2> QED
    BY <1>2, <1>6, <2>1 DEF LinesUp
<1> QED
  BY <1>7, <1>8, <1>9, <1>10 DEF ScanInv

LEMMA FinishedRows ==
    ASSUME TypeOK, RowInv, NEW s \in Scans, ScanIsFinished(s) \/ StopScan(s)
    PROVE  ScanInv(s)'
<1>1. /\ stage[s] = "open"
      /\ \/ stage'[s] = "ended" /\ finished[s]
         \/ stage'[s] = "stopped"
      /\ UNCHANGED <<bind, docs, position, requested, finished, rows, filled>>
  BY DEF ScanIsFinished, StopScan, TypeOK
<1>2. ScanInv(s)
  BY DEF RowInv
<1>3. RowsConsumed(s)'
  <2>1. Accepted(s, 0, position[s])' = Accepted(s, 0, position[s])
    BY <1>1 DEF Accepted
  <2> QED
    BY <1>1, <1>2, <2>1 DEF ScanInv, RowsConsumed, Opened
<1>4. CountRow(s)'
  BY <1>1, <1>2 DEF ScanInv, CountRow, Opened
<1>5. (GivesOut(bind[s]) /\ LinesUp(s))'
  BY <1>1, <1>2 DEF ScanInv, GivesOut, LinesUp, Opened
<1> QED
  BY <1>3, <1>4, <1>5 DEF ScanInv

LEMMA CountsRows ==
    ASSUME TypeOK, RowInv, NEW s \in Scans, ScanCounts(s)
    PROVE  ScanInv(s)'
<1> DEFINE from == position[s]
           to == IF from + ChunkSize < Len(docs[s]) THEN from + ChunkSize ELSE Len(docs[s])
           given == [i \in 1..to - from |-> from + i]
<1>1. /\ stage[s] = "open"
      /\ ~finished[s]
      /\ CountsOnly(s)
      /\ position'[s] = to
      /\ rows'[s] = rows[s] \o given
      /\ finished'[s] = (to = Len(docs[s]))
      /\ stage'[s] = StageAfter(given)
      /\ UNCHANGED <<bind, docs>>
  BY DEF ScanCounts, TypeOK
<1>2. ScanInv(s)
  BY DEF RowInv
<1>3. ~Enforced(bind[s]) /\ Len(requested[s]) > 1
  BY <1>1 DEF CountsOnly
<1>4. /\ from \in Nat /\ to \in Nat /\ from <= to /\ to <= Len(docs[s])
      /\ to = from => to = Len(docs[s])
  <2>1. from \in Nat /\ from <= Len(docs[s]) /\ Len(docs[s]) \in Nat
    BY <1>1, <1>2 DEF TypeOK, ScanInv, RowsConsumed, Opened
  <2>2. ChunkSize \in Nat /\ ChunkSize # 0
    BY ScanAssumption DEF ScanAssumption
  <2> HIDE DEF from
  <2> QED
    BY <2>1, <2>2
<1>5. given = Accepted(s, from, to)
  <2> HIDE DEF from, to
  <2> QED
    BY <1>3, <1>4, AcceptedAll
<1>6. Len(given) = to - from
  <2> HIDE DEF from, to
  <2> QED
    BY <1>4
<1> HIDE DEF to, given
<1>7. Keep(rows[s] \o given, Nat \ {0}) = Accepted(s, 0, to)
  BY <1>1, <1>2, <1>4, <1>5, ChunkAdds DEF ScanInv, Opened
<1>8. stage'[s] \in {"open", "ended"} /\ (stage'[s] = "ended" => given = <<>>)
  BY <1>1 DEF StageAfter
<1>9. given = <<>> => to = Len(docs[s])
  <2>1. given = <<>> => Len(given) = 0
    OBVIOUS
  <2> HIDE DEF from
  <2> QED
    BY <2>1, <1>4, <1>6
<1>10. RowsConsumed(s)'
  <2>1. Accepted(s, 0, position[s])' = Accepted(s, 0, to)
    BY <1>1 DEF Accepted
  <2> QED
    BY <1>1, <1>4, <1>7, <1>8, <1>9, <2>1 DEF RowsConsumed, Opened
<1>11. CountRow(s)'
  <2>1. ~(bind[s].above = "count" /\ BecomesAggregate(bind[s]))
    <3>1. ~(Len(<<"count">>) > 1)
      OBVIOUS
    <3>2. requested[s] # <<"count">>
      BY <1>3, <3>1
    <3> QED
      BY <1>1, <1>2, <3>2 DEF ScanInv, CountRow, Opened
  <2> QED
    BY <1>1, <1>8, <2>1 DEF CountRow, BecomesAggregate, Enforced
<1>12. GivesOut(bind[s])'
  BY <1>1, <1>2 DEF ScanInv, GivesOut
<1>13. LinesUp(s)'
  <2>1. ~(bind[s].columns # <<>> /\ ~Widened(bind[s]))
    BY <1>1, <1>2, FilledLinesUp DEF ScanInv, Opened
  <2> QED
    BY <1>1, <2>1 DEF LinesUp, Widened
<1> QED
  BY <1>10, <1>11, <1>12, <1>13 DEF ScanInv

LEMMA ZeroRows ==
    ASSUME TypeOK, RowInv, NEW s \in Scans, ScanMakesZeroRow(s)
    PROVE  ScanInv(s)'
<1>1. /\ stage[s] = "open"
      /\ ~finished[s]
      /\ position[s] = Len(docs[s])
      /\ rows'[s] = Append(rows[s], 0)
      /\ finished'[s]
      /\ UNCHANGED <<stage, bind, docs, position, requested, filled>>
  BY DEF ScanMakesZeroRow, MakesZeroRow, TypeOK
<1>2. ScanInv(s) /\ rows[s] \in Seq(Nat) /\ 0 \in Nat
  BY DEF RowInv, TypeOK
<1>3. RowsConsumed(s)'
  <2>1. Accepted(s, 0, position[s])' = Accepted(s, 0, position[s])
    BY <1>1 DEF Accepted
  <2>2. Keep(Append(rows[s], 0), Nat \ {0}) = Keep(rows[s], Nat \ {0})
    <3> DEFINE r == rows[s]
    <3>1. r \in Seq(Nat)
      BY <1>2
    <3> HIDE DEF r
    <3>2. Keep(Append(r, 0), Nat \ {0}) = Keep(r, Nat \ {0})
      BY <3>1, KeepAppend
    <3> QED
      BY <3>2 DEF r
  <2> QED
    BY <1>1, <1>2, <2>1, <2>2 DEF ScanInv, RowsConsumed, Opened
<1>4. CountRow(s)'
  <2>1. rows[s] = <<>> => Len(Append(rows[s], 0)) = 1
    OBVIOUS
  <2> QED
    BY <1>1, <1>2, <2>1 DEF ScanInv, CountRow, Opened
<1>5. (GivesOut(bind[s]) /\ LinesUp(s))'
  BY <1>1, <1>2 DEF ScanInv, GivesOut, LinesUp
<1> QED
  BY <1>3, <1>4, <1>5 DEF ScanInv

LEMMA DocumentsRows ==
    ASSUME TypeOK, RowInv, NEW s \in Scans, ScanDocuments(s)
    PROVE  ScanInv(s)'
<1>1. PICK to \in position[s]..Len(docs[s]) :
          /\ StopsAt(s, to)
          /\ position' = [position EXCEPT ![s] = to]
          /\ rows' = [rows EXCEPT ![s] = @ \o Accepted(s, position[s], to)]
          /\ filled' = [filled EXCEPT ![s] =
                           @ \union {Filled(s) : k \in DOMAIN Accepted(s, position[s], to)}]
          /\ finished' = [finished EXCEPT ![s] = to = Len(docs[s])]
          /\ stage' = [stage EXCEPT ![s] = StageAfter(Accepted(s, position[s], to))]
  BY DEF ScanDocuments
<1> DEFINE given == Accepted(s, position[s], to)
<1>2. /\ stage[s] = "open" /\ ~finished[s] /\ ~MakesZeroRow(s)
      /\ UNCHANGED <<bind, docs, requested>>
  BY DEF ScanDocuments
<1>3. /\ position'[s] = to
      /\ rows'[s] = rows[s] \o given
      /\ filled'[s] = filled[s] \union {Filled(s) : k \in DOMAIN given}
      /\ finished'[s] = (to = Len(docs[s]))
      /\ stage'[s] = StageAfter(given)
  BY <1>1 DEF TypeOK
<1>4. /\ position[s] \in Nat /\ to \in Nat /\ position[s] <= to /\ to <= Len(docs[s])
      /\ ScanInv(s)
  BY <1>1 DEF TypeOK, RowInv
<1>5. Keep(rows[s] \o given, Nat \ {0}) = Accepted(s, 0, to)
  BY <1>2, <1>4, ChunkAdds DEF ScanInv, Opened
<1>6. given = <<>> => to = Len(docs[s])
  BY <1>1, EmptyChunkIsLast
<1> HIDE DEF given
<1>7. stage'[s] \in {"open", "ended"} /\ (stage'[s] = "ended" => given = <<>>)
  BY <1>3 DEF StageAfter
<1>8. RowsConsumed(s)'
  <2>1. Accepted(s, 0, position[s])' = Accepted(s, 0, to)
    BY <1>2, <1>3 DEF Accepted
  <2> QED
    BY <1>2, <1>3, <1>4, <1>5, <1>6, <1>7, <2>1 DEF RowsConsumed, Opened
<1>9. CountRow(s)'
  <2>1. ASSUME bind[s].above = "count", BecomesAggregate(bind[s])
        PROVE  /\ finished'[s] /\ Len(rows'[s]) = 1 /\ given # <<>>
               /\ bind[s].pipeline /\ bind[s].columns = <<"count">> /\ bind[s].ids = <<"count">>
               /\ requested[s] = <<"count">> /\ docs[s] \in {<<>>, <<"good">>}
    <3>1. /\ bind[s].pipeline /\ bind[s].columns = <<"count">> /\ bind[s].ids = <<"count">>
          /\ requested[s] = <<"count">> /\ docs[s] \in {<<>>, <<"good">>}
          /\ rows[s] = <<>> /\ position[s] = 0
      BY <1>2, <1>4, <2>1 DEF ScanInv, CountRow, Opened
    <3>2. Width(bind[s]) = 1
      BY <3>1 DEF Width
    <3>3. docs[s] = <<"good">>
      BY <1>2, <3>1, <3>2 DEF MakesZeroRow
    <3>4. Len(docs[s]) = 1
      BY <3>3
    <3>5. ~Enforced(bind[s])
      BY <2>1 DEF BecomesAggregate
    <3>6. to = 1
      <4>1. given = <<>> \/ to # 0
        BY <3>1, AcceptedNone DEF given
      <4> QED
        BY <1>4, <1>6, <3>4, <4>1
    <3>7. Accepted(s, 0, 1) = [i \in 1..1 - 0 |-> 0 + i]
      <4>1. 0 \in Nat /\ 1 \in Nat /\ 0 <= 1 /\ 1 <= Len(docs[s])
        BY <3>4
      <4> QED
        BY <3>5, <4>1, AcceptedAll
    <3>8. given = <<1>>
      BY <3>1, <3>6, <3>7 DEF given
    <3>9. finished'[s]
      BY <1>3, <3>4, <3>6
    <3>10. given # <<>> /\ Len(rows'[s]) = 1
      <4>1. <<>> \o <<1>> = <<1>> /\ Len(<<1>>) = 1 /\ <<1>> # <<>>
        OBVIOUS
      <4> QED
        BY <1>3, <3>1, <3>8, <4>1
    <3> QED
      BY <3>1, <3>9, <3>10
  <2> QED
    BY <1>2, <1>7, <2>1 DEF CountRow, BecomesAggregate, Enforced
<1>10. GivesOut(bind[s])'
  BY <1>2, <1>4 DEF ScanInv, GivesOut
<1>11. LinesUp(s)'
  <2>1. ASSUME bind[s].columns # <<>>, ~Widened(bind[s])
        PROVE  /\ Filled(s) = bind[s].columns
               /\ filled[s] \subseteq {bind[s].columns}
               /\ Leads(bind[s].columns, requested[s])
               /\ requested[s] = bind[s].columns \/ Enforced(bind[s])
    <3>1. Filled(s) = bind[s].columns
      BY <1>2, <1>4, <2>1, FilledLinesUp DEF ScanInv, Opened
    <3> QED
      BY <1>2, <1>4, <2>1, <3>1 DEF ScanInv, LinesUp, Opened
  <2> QED
    BY <1>2, <1>3, <2>1 DEF LinesUp, Widened, Enforced
<1> QED
  BY <1>8, <1>9, <1>10, <1>11 DEF ScanInv

LEMMA RowInvNext ==
    ASSUME TypeOK, RowInv, Next
    PROVE  RowInv'
<1>1. CASE Write \/ Replicate \/ SetAfterClusterTime \/ SetReadPreference
  <2>1. UNCHANGED scanVars
    BY <1>1 DEF Write, Replicate, SetAfterClusterTime, SetReadPreference
  <2>2. ASSUME NEW s \in Scans PROVE ScanInv(s)'
    BY <2>1, SameScan DEF RowInv, Local, scanVars
  <2> QED
    BY <2>2 DEF RowInv
<1>2. CASE EndQuery
  BY <1>2, ForgetRows DEF EndQuery
<1>3. ASSUME NEW s \in Scans,
             \/ MongoScanBind(s) \/ Optimize(s) \/ MongoScanInitLocal(s) \/ ScanIsFinished(s)
             \/ ScanCounts(s) \/ ScanMakesZeroRow(s) \/ ScanDocuments(s) \/ StopScan(s)
      PROVE  RowInv'
  <2>1. ScanInv(s)'
    BY <1>3, BindRows, OptimizeRows, InitLocalRows, FinishedRows, CountsRows, ZeroRows,
       DocumentsRows
  <2>2. ASSUME NEW u \in Scans, u # s PROVE ScanInv(u)'
    BY <1>3, <2>2, OtherScans, SameScan DEF RowInv
  <2> QED
    BY <2>1, <2>2 DEF RowInv
<1>4. ASSUME NEW s \in Scans, ValidationFails(s) \/ MongoDBFails(s)
      PROVE  RowInv'
  BY <1>4, ForgetRows DEF ValidationFails, MongoDBFails
<1> QED
  BY <1>1, <1>2, <1>3, <1>4 DEF Next, ScanStep

THEOREM RowInvInit == Init => RowInv
<1> SUFFICES ASSUME Init, NEW s \in Scans PROVE ScanInv(s)
  BY DEF RowInv
<1> QED
  BY FreshScan DEF Init

THEOREM RowsHold == Spec => []RowInv
<1>1. RowInv /\ UNCHANGED vars => RowInv'
  BY SameScan DEF RowInv, Local, vars, scanVars
<1> QED
  BY <1>1, RowInvInit, RowInvNext, TypesHold, PTL DEF Spec

(* A drained scan has given DuckDB every document that fits, once and in     *)
(* order, however the documents fall into chunks (MongoScanFunction).        *)
THEOREM RowsOnce == Spec => []EveryRowOnce
<1>1. RowInv => EveryRowOnce
  BY DEF RowInv, ScanInv, RowsConsumed, Opened, EveryRowOnce
<1> QED
  BY <1>1, RowsHold, PTL

(* COUNT in MongoDB gives one row, also when nothing matched                 *)
(* (RewriteMongoAggregate, MongoScanFunction).                               *)
THEOREM CountsOnce == Spec => []CountGivesOneRow
<1>1. Len(<<>>) = 0
  OBVIOUS
<1>2. RowInv /\ TypeOK => CountGivesOneRow
  <2> SUFFICES ASSUME RowInv, TypeOK, NEW s \in Scans,
                      bind[s].above = "count", BecomesAggregate(bind[s])
               PROVE  /\ Len(rows[s]) <= 1
                      /\ stage[s] = "ended" => Len(rows[s]) = 1
    BY DEF CountGivesOneRow
  <2>1. stage[s] \in {"bound", "planned"} => rows[s] = <<>>
    BY DEF RowInv, ScanInv, RowsConsumed
  <2>2. stage[s] \in Stages /\ stage[s] # "idle"
    BY DEF TypeOK, RowInv, ScanInv, CountRow
  <2>3. stage[s] \in Opened => Len(rows[s]) = 1 \/ (rows[s] = <<>> /\ ~finished[s])
    BY <2>2 DEF RowInv, ScanInv, CountRow, Opened
  <2>4. stage[s] = "ended" => finished[s]
    BY DEF RowInv, ScanInv, CountRow
  <2>5. rows[s] = <<>> \/ Len(rows[s]) = 1
    BY <2>1, <2>2, <2>3 DEF Stages, Opened
  <2>6. rows[s] = <<>> => Len(rows[s]) <= 1
    BY <1>1
  <2>7. Len(rows[s]) = 1 => Len(rows[s]) <= 1
    OBVIOUS
  <2> QED
    BY <2>3, <2>4, <2>5, <2>6, <2>7 DEF Opened
<1> QED
  BY <1>2, RowsHold, TypesHold, PTL

(* The columns a row is filled with are those DuckDB asked for, unless a     *)
(* filter's column stays in the scan (MongoScanInitLocal, MongoScanFunction).*)
THEOREM RowsLineUp == Spec => []ColumnsLineUp
<1>1. RowInv => ColumnsLineUp
  BY DEF RowInv, ScanInv, LinesUp, ColumnsLineUp
<1> QED
  BY <1>1, RowsHold, PTL

=============================================================================
