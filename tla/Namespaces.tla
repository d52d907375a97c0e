----------------------------- MODULE Namespaces -----------------------------
(***************************************************************************)
(* Which watchers run, namespace by namespace, and who leads:              *)
(* controller/k8s_data/config_map_watcher.go, Start of controller/svc and  *)
(* controller/ingress, and the leader loop of main.go.                     *)
(*                                                                         *)
(* A handler is a callback on the watcher of the namespaces together with  *)
(* its map from namespaces to watchers.  The one for ConfigMaps is there   *)
(* from the beginning; each term as leader makes one for Ingresses and one *)
(* for Services, which losing the lead stops.  A handler is called by the  *)
(* goroutine of the namespace watcher on events, and by the goroutine that *)
(* registers it on the namespaces that are known already; its lock orders  *)
(* these two and the goroutine that stops it.                              *)
(*                                                                         *)
(* The namespace watcher is reduced to what Watcher shows of it as long as *)
(* its watch is not lost: it is told everything in order.  Ns are the      *)
(* namespaces that SkipNamespace lets through; Modified events do nothing. *)
(* Of the watchers that the handlers start only those of ConfigMaps are    *)
(* here: their goroutines call the functions that start and prepare        *)
(* tunnels, first with fnsLock held (fireEvents of tunnel_config_maps.go)  *)
(* and then without it; getZones, which those functions reach, returns     *)
(* only if an API call fails.                                              *)
(***************************************************************************)
EXTENDS Integers, Sequences, SequencesExt

CONSTANTS
    Ns,             \* the namespaces
    MaxChanges,     \* bound: how often a namespace is made or deleted
    MaxTerms,       \* bound: how often the controller becomes leader
    ApiMayFail      \* whether starting a watcher can fail

ASSUME NsAssumption == IsFiniteSet(Ns)

ASSUME BoundAssumption == {MaxChanges, MaxTerms} \subseteq Nat /\ ApiMayFail \in BOOLEAN

ConfigMaps   == [kind |-> "configmap", term |-> 0]
Ingresses(t) == [kind |-> "ingress", term |-> t]
Services(t)  == [kind |-> "service", term |-> t]
Handlers     == {ConfigMaps} \cup [kind : {"ingress", "service"}, term : 1 .. MaxTerms]

Added(n)   == [type |-> "ADDED", ns |-> n]
Deleted(n) == [type |-> "DELETED", ns |-> n]
Events     == [type : {"ADDED", "DELETED"}, ns : Ns]

VARIABLES
    there,      \* the namespaces that exist
    changes,    \* how often a namespace was made or deleted
    feed,       \* events the namespace watcher has not taken yet
    known,      \* w.state of the namespace watcher
    event,      \* the event its goroutine works on, <<>> if none
    stage,      \* where it is: "receive", "copy", "call", "wait"
    calls,      \* the handlers it still has to call
    reg,        \* how far each handler is registered
    todo,       \* the namespaces RegisterEvent still has to replay to it
    locked,     \* the handlers whose lock is held
    starting,   \* the calls that are starting a watcher
    items,      \* its map: the namespaces it has a watcher for
    running,    \* how many watchers it has running for each namespace
    firing,     \* where the goroutine that watches the ConfigMaps of a namespace is
    lead,       \* where the leader loop is
    term,       \* how often the controller has become leader
    dead,       \* why the process has ended, or "no"
    failed,     \* whether a watcher could not be started
    overlap,    \* the handlers that were registered during a deletion
    late        \* the handlers that were still to be called when they were stopped

cluster == <<there, changes>>
watcher == <<feed, known, event, stage>>
locks   == <<locked, starting>>
maps    == <<items, running>>
leader  == <<lead, term>>
ended   == <<dead, failed>>
history == <<overlap, late>>
vars    == <<there, changes, feed, known, event, stage, calls, reg, todo, locked, starting,
             items, running, firing, lead, term, dead, failed, overlap, late>>

(* The namespace watcher was started before any handler is registered, and *)
(* its watch begins with the namespaces it has listed.                     *)
Init ==
    /\ there \in SUBSET Ns
    /\ changes = 0
    /\ feed \in {[i \in DOMAIN s |-> Added(s[i])] : s \in SetToSeqs(there)}
    /\ known = there
    /\ event = <<>> /\ stage = "receive" /\ calls = {}
    /\ reg = [h \in Handlers |-> IF h = ConfigMaps THEN "bind" ELSE "none"]
    /\ todo = [h \in Handlers |-> {}]
    /\ locked = {}
    /\ starting = {}
    /\ items = [h \in Handlers |-> {}]
    /\ running = [h \in Handlers |-> [n \in Ns |-> 0]]
    /\ firing = [n \in Ns |-> "no"]
    /\ lead = "follower" /\ term = 0
    /\ dead = "no"
    /\ failed = FALSE
    /\ overlap = {} /\ late = {}

(* Variant: RegisterEvent adds the binding after it has replayed.          *)
Bound_Last(h) == reg[h] = "in"

Bound(h) == reg[h] \in {"copy", "replay", "in"}
-----------------------------------------------------------------------------
(***************************************************************************)
(* The cluster, and the goroutine of the namespace watcher: one event is   *)
(* applied, the bindings are copied, the handlers in the copy are called.  *)
(***************************************************************************)
Change(n) ==
    /\ changes < MaxChanges
    /\ changes' = changes + 1
    /\ there' = IF n \in there THEN there \ {n} ELSE there \cup {n}
    /\ feed' = Append(feed, IF n \in there THEN Deleted(n) ELSE Added(n))
    /\ UNCHANGED <<known, event, stage, calls, reg, todo, locks, maps, firing, leader,
                   ended, history>>

TakeEvent ==
    /\ stage = "receive" /\ feed # <<>>
    /\ LET ev == Head(feed)
       IN  known' = IF ev.type = "ADDED" THEN known \cup {ev.ns} ELSE known \ {ev.ns}
    /\ event' = <<Head(feed)>>
    /\ stage' = "copy"
    /\ feed' = Tail(feed)
    /\ overlap' = IF Head(feed).type = "ADDED" THEN overlap
                  ELSE overlap \cup {h \in Handlers : reg[h] \in {"copy", "replay"}}
    /\ UNCHANGED <<cluster, firing, calls, reg, todo, locks, maps, leader, ended, late>>

CopyBindings ==
    /\ stage = "copy"
    /\ calls' = {h \in Handlers : Bound(h)}
    /\ stage' = "call"
    /\ UNCHANGED <<cluster, firing, feed, known, event, reg, todo, locks, maps, leader,
                   ended, history>>

EventDone ==
    /\ stage = "call" /\ calls = {}
    /\ event' = <<>>
    /\ stage' = "receive"
    /\ UNCHANGED <<cluster, firing, feed, known, calls, reg, todo, locks, maps, leader,
                   ended, history>>
-----------------------------------------------------------------------------
(***************************************************************************)
(* The handlers.  A call that has a watcher to start keeps the lock of its *)
(* handler until that watcher has listed and watches.                      *)
(***************************************************************************)
(* The goroutine of the namespace watcher calls one handler at a time.     *)
Turn(h) == /\ h \in calls
           /\ \A c \in starting : c.by = "register"

Returns(h, by, n) ==
    IF by = "events" THEN calls' = calls \ {h} /\ UNCHANGED todo
                     ELSE todo' = [todo EXCEPT ![h] = @ \ {n}] /\ UNCHANGED calls

(* Variant: the map is looked up before the lock is taken.                 *)
HandleAdded_Unlocked(h, by, n) ==
    /\ IF n \in items[h]
       THEN Returns(h, by, n) /\ UNCHANGED locks
       ELSE /\ locked' = locked \cup {h}
            /\ starting' = starting \cup {[handler |-> h, by |-> by, ns |-> n]}
            /\ UNCHANGED <<calls, todo>>
    /\ UNCHANGED <<cluster, firing, watcher, reg, maps, leader, ended, history>>

HandleAdded(h, by, n) ==
    /\ h \notin locked
    /\ IF n \in items[h]
       THEN Returns(h, by, n) /\ UNCHANGED locks
       ELSE /\ locked' = locked \cup {h}
            /\ starting' = starting \cup {[handler |-> h, by |-> by, ns |-> n]}
            /\ UNCHANGED <<calls, todo>>
    /\ UNCHANGED <<cluster, firing, watcher, reg, maps, leader, ended, history>>

CallAdded(h) ==
    /\ stage = "call" /\ event[1].type = "ADDED"
    /\ Turn(h)
    /\ HandleAdded(h, "events", event[1].ns)

StartEnds(c) ==
    /\ starting' = starting \ {c}
    /\ Returns(c.handler, c.by, c.ns)
    /\ UNCHANGED <<cluster, firing, watcher, reg, leader, dead, history>>

Started(c) ==
    /\ running' = [running EXCEPT ![c.handler][c.ns] = @ + 1]
    /\ items' = [items EXCEPT ![c.handler] = @ \cup {c.ns}]
    /\ locked' = locked \ {c.handler}
    /\ StartEnds(c)
    /\ UNCHANGED failed

(* Variant: the early return forgets the lock.                             *)
StartFails_KeepsLock(c) ==
    /\ ApiMayFail
    /\ failed' = TRUE
    /\ StartEnds(c)
    /\ UNCHANGED <<locked, maps>>

(* Nothing is stored, and nobody tries again.                              *)
StartFails(c) ==
    /\ ApiMayFail
    /\ failed' = TRUE
    /\ locked' = locked \ {c.handler}
    /\ StartEnds(c)
    /\ UNCHANGED maps

(* Variant: the test of the two other packages.                            *)
ConfigMapsDeleted_IfUnknown(n) ==
    /\ dead' = IF n \in items[ConfigMaps] THEN dead ELSE "panic"
    /\ Returns(ConfigMaps, "events", n)
    /\ UNCHANGED <<maps, locked, stage>>

(* Variant: without the test.                                              *)
ConfigMapsDeleted_Anyway(n) ==
    /\ items' = [items EXCEPT ![ConfigMaps] = @ \ {n}]
    /\ running' = [running EXCEPT ![ConfigMaps][n] = @ - 1]
    /\ locked' = locked \cup {ConfigMaps}
    /\ stage' = "wait"
    /\ UNCHANGED <<calls, todo, dead>>

(* A watcher is unregistered and stopped.  The handler keeps its lock      *)
(* until the goroutine of that watcher is through, see StopWaited.         *)
ConfigMapsDeleted(n) ==
    /\ IF n \in items[ConfigMaps]
       THEN /\ items' = [items EXCEPT ![ConfigMaps] = @ \ {n}]
            /\ running' = [running EXCEPT ![ConfigMaps][n] = @ - 1]
            /\ locked' = locked \cup {ConfigMaps}
            /\ stage' = "wait"
            /\ UNCHANGED <<calls, todo>>
       ELSE /\ Returns(ConfigMaps, "events", n)
            /\ UNCHANGED <<maps, locked, stage>>
    /\ UNCHANGED dead

(* The test is inverted: for a namespace that has a watcher nothing        *)
(* happens, for another one the watcher to stop is nil.                    *)
OthersDeleted(h, n) ==
    /\ dead' = IF n \in items[h] THEN dead ELSE "panic"
    /\ Returns(h, "events", n)
    /\ UNCHANGED <<maps, locked, stage>>

CallDeleted(h) ==
    /\ stage = "call" /\ event[1].type = "DELETED"
    /\ Turn(h) /\ h \notin locked
    /\ IF h = ConfigMaps THEN ConfigMapsDeleted(event[1].ns)
                         ELSE OthersDeleted(h, event[1].ns)
    /\ UNCHANGED <<cluster, firing, feed, known, event, reg, starting, leader, failed,
                   history>>

(* Variant: the watcher is stopped and its lock forgotten.                 *)
StopWaited_KeepsLock ==
    /\ stage = "wait" /\ firing[event[1].ns] = "no"
    /\ stage' = "call"
    /\ Returns(ConfigMaps, "events", event[1].ns)
    /\ UNCHANGED <<cluster, firing, feed, known, event, reg, locks, maps, leader, ended,
                   history>>

StopWaited ==
    /\ stage = "wait" /\ firing[event[1].ns] = "no"
    /\ locked' = locked \ {ConfigMaps}
    /\ stage' = "call"
    /\ Returns(ConfigMaps, "events", event[1].ns)
    /\ UNCHANGED <<cluster, firing, feed, known, event, reg, starting, maps, leader, ended,
                   history>>
-----------------------------------------------------------------------------
(***************************************************************************)
(* The goroutine that watches the ConfigMaps of a namespace: its callback  *)
(* may find something to fire, and then calls every function again.        *)
(***************************************************************************)
FnsLockIsFree == \A n \in Ns : firing[n] # "fire"

ConfigMapEvent(n) ==
    /\ firing[n] = "no" /\ running[ConfigMaps][n] > 0
    /\ firing' = [firing EXCEPT ![n] = "upsert"]
    /\ UNCHANGED <<cluster, watcher, calls, reg, todo, locks, maps, leader, ended, history>>

FireEvents(n) ==
    /\ firing[n] = "upsert" /\ FnsLockIsFree
    /\ firing' = [firing EXCEPT ![n] = "fire"]
    /\ UNCHANGED <<cluster, watcher, calls, reg, todo, locks, maps, leader, ended, history>>

(* What is cached already is not fired.                                    *)
CopyFunctions(n) ==
    /\ firing[n] \in {"upsert", "copy"} /\ FnsLockIsFree
    /\ firing' = [firing EXCEPT ![n] = "pass"]
    /\ UNCHANGED <<cluster, watcher, calls, reg, todo, locks, maps, leader, ended, history>>

FunctionsReturn(n) ==
    /\ \/ firing[n] = "fire" /\ firing' = [firing EXCEPT ![n] = "copy"]
       \/ firing[n] = "pass" /\ firing' = [firing EXCEPT ![n] = "no"]
    /\ UNCHANGED <<cluster, watcher, calls, reg, todo, locks, maps, leader, ended, history>>
-----------------------------------------------------------------------------
(***************************************************************************)
(* Registering a handler: RegisterEvent adds the binding, copies what is   *)
(* known, and calls the handler with it.                                   *)
(***************************************************************************)
Bind(h) ==
    /\ reg[h] = "bind"
    /\ reg' = [reg EXCEPT ![h] = "copy"]
    /\ overlap' = IF stage = "copy" /\ event[1].type = "DELETED" THEN overlap \cup {h}
                                                               ELSE overlap
    /\ UNCHANGED <<cluster, firing, watcher, calls, todo, locks, maps, leader, ended, late>>

CopyKnown(h) ==
    /\ reg[h] = "copy"
    /\ reg' = [reg EXCEPT ![h] = "replay"]
    /\ todo' = [todo EXCEPT ![h] = known]
    /\ UNCHANGED <<cluster, firing, watcher, calls, locks, maps, leader, ended, history>>

Replay(h) ==
    /\ reg[h] = "replay"
    /\ \E n \in todo[h] : HandleAdded(h, "register", n)

Registered(h) ==
    /\ reg[h] = "replay" /\ todo[h] = {}
    /\ reg' = [reg EXCEPT ![h] = "in"]
    /\ UNCHANGED <<cluster, firing, watcher, calls, todo, locks, maps, leader, ended,
                   history>>
-----------------------------------------------------------------------------
(***************************************************************************)
(* The leader loop.  A goroutine of its own starts Ingresses, Services and *)
(* the preparation of tunnels, and only then stores the three functions    *)
(* that stop them.  The third of them waits for fnsLock.                   *)
(***************************************************************************)
StartedLeading ==
    /\ lead = "follower" /\ reg[ConfigMaps] = "in"
    /\ term < MaxTerms
    /\ term' = term + 1
    /\ lead' = "starting"
    /\ reg' = [reg EXCEPT ![Ingresses(term + 1)] = "bind"]
    /\ UNCHANGED <<cluster, firing, watcher, calls, todo, locks, maps, ended, history>>

StartServices ==
    /\ lead = "starting"
    /\ reg[Ingresses(term)] = "in" /\ reg[Services(term)] = "none"
    /\ reg' = [reg EXCEPT ![Services(term)] = "bind"]
    /\ UNCHANGED <<cluster, firing, watcher, calls, todo, locks, maps, leader, ended,
                   history>>

StartPreparing ==
    /\ lead = "starting" /\ reg[Services(term)] = "in"
    /\ FnsLockIsFree
    /\ lead' = "preparing"
    /\ UNCHANGED <<cluster, firing, watcher, calls, reg, todo, locks, maps, term, ended,
                   history>>

(* The new function has returned for everything that is cached.            *)
RunningLeaders ==
    /\ lead = "preparing"
    /\ lead' = "leading"
    /\ UNCHANGED <<cluster, firing, watcher, calls, reg, todo, locks, maps, term, ended,
                   history>>

(* Without anything to stop, the controller ends itself.                   *)
StoppedLeading ==
    /\ lead \in {"starting", "preparing", "leading"}
    /\ IF lead = "leading" THEN lead' = "stopping" /\ UNCHANGED dead
                           ELSE dead' = "fatal" /\ UNCHANGED lead
    /\ UNCHANGED <<cluster, firing, watcher, calls, reg, todo, locks, maps, term, failed,
                   history>>

(* Variant: without the lock.                                              *)
StopHandler_Unlocked(h) ==
    /\ reg[h] = "in"
    /\ running' = [running EXCEPT ![h] = [n \in Ns |-> 0]]
    /\ reg' = [reg EXCEPT ![h] = "gone"]
    /\ late' = IF h \in calls /\ \A c \in starting : c.handler # h THEN late \cup {h}
                                                              ELSE late
    /\ UNCHANGED <<cluster, firing, watcher, calls, todo, locks, items, leader, ended,
                   overlap>>

(* The map is left as it is.  The goroutine of the namespace watcher may   *)
(* have the handler in its copy of the bindings and call it afterwards.    *)
StopHandler(h) ==
    /\ reg[h] = "in" /\ h \notin locked
    /\ running' = [running EXCEPT ![h] = [n \in Ns |-> 0]]
    /\ reg' = [reg EXCEPT ![h] = "gone"]
    /\ late' = IF h \in calls /\ \A c \in starting : c.handler # h THEN late \cup {h}
                                                              ELSE late
    /\ UNCHANGED <<cluster, firing, watcher, calls, todo, locks, items, leader, ended,
                   overlap>>

Stop ==
    /\ lead = "stopping"
    /\ StopHandler(IF reg[Ingresses(term)] = "in" THEN Ingresses(term) ELSE Services(term))

StopPreparing ==
    /\ lead = "stopping" /\ reg[Services(term)] = "gone"
    /\ FnsLockIsFree
    /\ lead' = "follower"
    /\ UNCHANGED <<cluster, firing, watcher, calls, reg, todo, locks, maps, term, ended,
                   history>>
-----------------------------------------------------------------------------
Watching    == TakeEvent \/ CopyBindings \/ EventDone \/ StopWaited
Calling(h)  == CallAdded(h) \/ CallDeleted(h)
Starting    == \E c \in starting : Started(c) \/ StartFails(c)
Locking(n)  == FireEvents(n) \/ CopyFunctions(n)
Firing(n)   == ConfigMapEvent(n) \/ Locking(n) \/ FunctionsReturn(n)
Register(h) == Bind(h) \/ CopyKnown(h) \/ Replay(h) \/ Registered(h)
Leading     == StartServices \/ StartPreparing \/ RunningLeaders \/ Stop \/ StopPreparing

Next == /\ dead = "no"
        /\ \/ \E n \in Ns : Change(n) \/ Firing(n)
           \/ Watching \/ StartedLeading \/ StoppedLeading \/ Leading
           \/ Starting \/ \E h \in Handlers : Calling(h) \/ Register(h)

Spec == Init /\ [][Next]_vars

(* Every goroutine that can go on does; fnsLock, a fair mutex, is not kept *)
(* from one that waits for it.  Nobody has to gain or lose the lead, and   *)
(* the functions that fnsLock is held for need not return.                 *)
Fairness ==
    /\ WF_vars(dead = "no" /\ Watching)
    /\ WF_vars(dead = "no" /\ (StartServices \/ Stop))
    /\ SF_vars(dead = "no" /\ (StartPreparing \/ StopPreparing))
    /\ \A n \in Ns : SF_vars(dead = "no" /\ Locking(n))
    /\ \A h \in Handlers : /\ WF_vars(dead = "no" /\ Calling(h))
                           /\ WF_vars(dead = "no" /\ Register(h))
    /\ \A by \in {"events", "register"} :
          WF_vars(/\ dead = "no"
                  /\ \E c \in starting : c.by = by /\ (Started(c) \/ StartFails(c)))

FairSpec == Spec /\ Fairness
-----------------------------------------------------------------------------
TypeOK ==
    /\ there \subseteq Ns /\ known \subseteq Ns
    /\ changes \in 0 .. MaxChanges
    /\ feed \in Seq(Events)
    /\ stage \in {"receive", "copy", "call", "wait"}
    /\ event \in (IF stage = "receive" THEN {<<>>} ELSE {<<e>> : e \in Events})
    /\ calls \subseteq Handlers
    /\ reg \in [Handlers -> {"none", "bind", "copy", "replay", "in", "gone"}]
    /\ todo \in [Handlers -> SUBSET Ns]
    /\ locked \subseteq Handlers
    /\ starting \subseteq [handler : Handlers, by : {"events", "register"}, ns : Ns]
    /\ items \in [Handlers -> SUBSET Ns]
    /\ running \in [Handlers -> [Ns -> Nat]]
    /\ firing \in [Ns -> {"no", "upsert", "fire", "copy", "pass"}]
    /\ lead \in {"follower", "starting", "preparing", "leading", "stopping"}
    /\ term \in 0 .. MaxTerms
    /\ dead \in {"no", "panic", "fatal"}
    /\ failed \in BOOLEAN
    /\ overlap \subseteq Handlers /\ late \subseteq Handlers

(***************************************************************************)
(* What the rest of the controller relies on.                              *)
(***************************************************************************)
(* However the replay and the events meet in a handler, it never runs two  *)
(* watchers for a namespace: each change would be handled twice, and only  *)
(* one of them could be stopped.                                           *)
OneWatcher == \A h \in Handlers, n \in Ns : running[h][n] <= 1

(* Once its namespace watcher has caught up, a registered handler watches  *)
(* every namespace that exists, whenever it was registered and however     *)
(* often the namespace came and went, unless a watcher failed to start.    *)
Idle(h) == feed = <<>> /\ stage = "receive" /\ reg[h] = "in"

ServedAtRest ==
    dead = "no" /\ ~failed =>
        \A h \in Handlers : Idle(h) => \A n \in there : running[h][n] > 0

(* The handler of ConfigMaps also stops watching what does not exist,      *)
(* unless a namespace was deleted while that handler was registered.       *)
GoneIsUnwatched ==
    Idle(ConfigMaps) /\ ConfigMaps \notin overlap =>
        \A n \in Ns \ there : running[ConfigMaps][n] = 0

(* What a handler starts is stopped with it, even if it was just starting  *)
(* a watcher, unless it is called after that.                              *)
StoppedIsQuiet ==
    \A h \in Handlers \ late : reg[h] = "gone" => \A n \in Ns : running[h][n] = 0

(* Deleting a namespace only brings the controller down if a watcher could *)
(* not be started or the deletion met the registration of a handler.       *)
PanicHasCause == dead = "panic" => failed \/ overlap # {}

(* No handler waits for a lock for ever, and so every event is handled,    *)
(* unless a function called for a ConfigMap never returns: a deletion      *)
(* waits for the goroutine that called it, with its handler's lock held.   *)
FunctionHangs(n) == <>[](firing[n] \in {"fire", "pass"})

EventsHandled ==
    \/ \E n \in Ns : FunctionHangs(n)
    \/ (stage = "call") ~> (stage = "receive" \/ dead # "no")

(* Losing the lead comes to an end, and the next election can begin,       *)
(* unless a function never returns for which fnsLock is held: the third of *)
(* the functions that stop a term waits for that lock.                     *)
FnsLockHangs(n) == <>[](firing[n] = "fire")

StopEnds ==
    \/ \E n \in Ns : FnsLockHangs(n)
    \/ (lead = "stopping") ~> (lead = "follower" \/ dead # "no")

(* A follower runs no watcher of an earlier term.                          *)
FollowerIsInactive ==
    lead = "follower" =>
        \A h \in Handlers \ {ConfigMaps}, n \in Ns : running[h][n] = 0
=============================================================================
