------------------------------- MODULE Mirror -------------------------------
(***************************************************************************)
(* What a watcher promises to the callbacks that follow it from its start: *)
(* they are told how the objects of a collection change.  They may miss    *)
(* versions, but are never told an older one than before, nor one that     *)
(* does not exist; and once the watcher is in step with the collection,    *)
(* each has been told the current version of every object that exists.     *)
(*                                                                         *)
(* A version is 0 for an object that does not exist yet, then 1, 2, ...;   *)
(* the version Dead says that it has been deleted.                         *)
(***************************************************************************)
EXTENDS Integers

CONSTANTS
    Uids,       \* the objects
    Followers,  \* the callbacks
    Dead        \* the version of what has been deleted

VARIABLES
    store,      \* the version of each object
    told,       \* the latest version each callback was told of each object
    following,  \* the callbacks that are registered
    inStep      \* whether the watcher is in step with the collection

vars == <<store, told, following, inStep>>

Exists(u) == store[u] \in 1 .. Dead - 1

Init ==
    /\ store \in [Uids -> 0 .. Dead - 1]
    /\ told = [f \in Followers |-> [u \in Uids |-> 0]]
    /\ following = {}
    /\ inStep = FALSE
-----------------------------------------------------------------------------
(* An object that is deleted does not come back.                           *)
Change(u) ==
    /\ store[u] # Dead
    /\ \E v \in {store[u] + 1, Dead} : store' = [store EXCEPT ![u] = v]
    /\ inStep' = FALSE
    /\ UNCHANGED <<told, following>>

(* In step, there is nothing to tell.                                      *)
Tell(f, u) ==
    /\ ~inStep
    /\ \E v \in told[f][u] + 1 .. store[u] : told' = [told EXCEPT ![f][u] = v]
    /\ UNCHANGED <<store, following, inStep>>

CatchUp ==
    /\ \A f \in following, u \in Uids : Exists(u) => told[f][u] = store[u]
    /\ inStep' = TRUE
    /\ UNCHANGED <<store, told, following>>

Lapse == inStep' = FALSE /\ UNCHANGED <<store, told, following>>

(* Callbacks come before the start of the watcher and have heard nothing.  *)
Join(f) ==
    /\ ~inStep
    /\ following' = following \cup {f}
    /\ told' = [told EXCEPT ![f] = [u \in Uids |-> 0]]
    /\ UNCHANGED <<store, inStep>>

(* They leave one at a time, or all of them when the watcher stops.        *)
Leave ==
    /\ following' \in {following \ {f} : f \in Followers} \cup {{}}
    /\ UNCHANGED <<store, told, inStep>>

Next == \/ \E u \in Uids : Change(u)
        \/ \E f \in Followers, u \in Uids : Tell(f, u)
        \/ CatchUp \/ Lapse
        \/ \E f \in Followers : Join(f)
        \/ Leave

Spec == Init /\ [][Next]_vars
=============================================================================
