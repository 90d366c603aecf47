-------------------------- MODULE CatalogFreshness --------------------------
(***************************************************************************)
(* MongoCatalog with history variables that remember what MongoDB held     *)
(* when an operation began, for the properties about how fresh a view is.  *)
(* The history is a function of the step taken: it never disables one.     *)
(***************************************************************************)
EXTENDS MongoCatalog

VARIABLES
    before,  (* ClearCache: the versions when the call began                 *)
    alone,   (* ClearCache: no other operation ran since before it began     *)
    floor    (* the versions when the last completed ClearCache began, for   *)
             (* every call and for the calls that ran alone                  *)

historyVars == <<before, alone, floor>>
freshnessVars == <<vars, historyVars>>

FirstVersions == [d \in Databases |-> [c \in Collections |-> 1]]

FreshnessInit ==
    /\ Init
    /\ before = [t \in Threads |-> FirstVersions]
    /\ alone = [t \in Threads |-> FALSE]
    /\ floor = [any |-> FirstVersions, alone |-> FirstVersions]

Begins(t) == pc[t] = "idle" /\ pc'[t] # "idle"
Clearing(t) == op[t] = "clear" /\ pc[t] # "idle"
Cleared(t) == Clearing(t) /\ pc[t] = "clear_next" /\ pc'[t] = "returned"

History ==
    /\ before' = [t \in Threads |->
          IF Begins(t) /\ op'[t] = "clear" THEN version
          ELSE IF pc'[t] = "idle" THEN FirstVersions ELSE before[t]]
    /\ alone' = [t \in Threads |->
          IF Begins(t) THEN op'[t] = "clear" /\ \A u \in Threads : pc[u] = "idle"
          ELSE alone[t] /\ pc'[t] # "idle" /\ ~\E u \in Threads : Begins(u)]
    /\ floor' = [any   |-> IF \E t \in Threads : Cleared(t)
                           THEN before[CHOOSE t \in Threads : Cleared(t)] ELSE floor.any,
                 alone |-> IF \E t \in Threads : Cleared(t) /\ alone[t]
                           THEN before[CHOOSE t \in Threads : Cleared(t)] ELSE floor.alone]

FreshnessNext == Next /\ History

FreshnessSpec == FreshnessInit /\ [][FreshnessNext]_freshnessVars

(* What the next query finds in a catalog at rest is at least as new as least. *)
NextQueryFinds(least) ==
    (\A t \in Threads : pc[t] = "idle") =>
    \A d \in Databases, c \in Collections :
        views[d][c] \in InferredVersions => views[d][c] >= least[d][c]

(* Once a mongo_clear_cache that met no other catalog operation has returned, *)
(* the next query finds no view older than what MongoDB held when the call    *)
(* began: view infos, views and generators are all let go, and no operation   *)
(* after it brings one back, even if that one overlaps another clear.         *)
ClearAloneRefreshes == NextQueryFinds(floor.alone)

(* The same of every mongo_clear_cache.  README.md:375 says "After clearing   *)
(* the cache, the next query will re-scan schemas and re-infer collection     *)
(* schemas."                                                                  *)
ClearRefreshes == NextQueryFinds(floor.any)

=============================================================================
