---------------------------- MODULE ViewRegistry ----------------------------
(***************************************************************************)
(* What the catalog promises its callers about views, with no threads, no  *)
(* locks and no generators: a view is installed in one step, under a name  *)
(* that has none, with the schema remembered for its collection or with    *)
(* one MongoDB had; it keeps that schema until it is erased; and only      *)
(* clearing the cache makes the registry forget a schema.                  *)
(***************************************************************************)
EXTENDS Integers

CONSTANTS Databases, Collections, MaxVersion, NoView, UserView

VARIABLES
    version,     (* MongoDB: the schema a collection's documents have now *)
    views,       (* the views a query can see                             *)
    remembered   (* the schemas kept for views yet to be installed        *)

registryVars == <<version, views, remembered>>

Init ==
    /\ version = [d \in Databases |-> [c \in Collections |-> 1]]
    /\ views = [d \in Databases |-> [c \in Collections |-> NoView]]
    /\ remembered = views

Change(d, c) ==
    /\ version[d][c] < MaxVersion
    /\ version' = [version EXCEPT ![d][c] = @ + 1]
    /\ UNCHANGED <<views, remembered>>

Recall(d, c) ==
    /\ views[d][c] = NoView
    /\ remembered[d][c] # NoView
    /\ views' = [views EXCEPT ![d][c] = remembered[d][c]]
    /\ UNCHANGED <<version, remembered>>

Learn(d, c) ==
    /\ views[d][c] = NoView
    /\ \E v \in 1..version[d][c] :
          /\ views' = [views EXCEPT ![d][c] = v]
          /\ remembered' = [remembered EXCEPT ![d][c] = v]
    /\ UNCHANGED version

Define(d, c) ==
    /\ views[d][c] = NoView
    /\ views' = [views EXCEPT ![d][c] = UserView]
    /\ UNCHANGED <<version, remembered>>

Erase(d, C) ==
    /\ views' = [views EXCEPT ![d] = [c \in Collections |->
                    IF c \in C THEN NoView ELSE views[d][c]]]
    /\ UNCHANGED <<version, remembered>>

Forget ==
    /\ remembered' = [d \in Databases |-> [c \in Collections |-> NoView]]
    /\ UNCHANGED <<version, views>>

Next ==
    \/ \E d \in Databases, c \in Collections :
          Change(d, c) \/ Recall(d, c) \/ Learn(d, c) \/ Define(d, c)
    \/ \E d \in Databases, C \in SUBSET Collections : Erase(d, C)
    \/ Forget

Spec == Init /\ [][Next]_registryVars
=============================================================================
