-------------------------- MODULE TunnelConfigMaps --------------------------
(***************************************************************************)
(* controller/k8s_data/tunnel_config_maps.go: the ConfigMaps through which *)
(* the parts of the controller talk to each other.  Each one stands for a  *)
(* tunnel; its Data has one key per Service or Ingress (a source), whose   *)
(* value is the list of rules of that source.                              *)
(*                                                                         *)
(* The goroutine of a source upserts or removes its rules on the API       *)
(* server.  The goroutine of the ConfigMap watcher keeps a cache of the    *)
(* ConfigMaps and, on the leader, hands each event to the handler of       *)
(* prepare_tunnel.go, which writes the tunnel's id back to the ConfigMap.  *)
(* When the controller becomes leader that handler is also run, by the     *)
(* goroutine that registers it, on what the cache holds.                   *)
(*                                                                         *)
(* The API server accepts an update only if it carries the ConfigMap's     *)
(* current resourceVersion; an update that changes nothing leaves the      *)
(* resourceVersion alone and makes no event.                               *)
(***************************************************************************)
EXTENDS Integers, Sequences, FiniteSets

CONSTANTS
    Cms,            \* the ConfigMaps
    Sources,        \* the Services and Ingresses
    Kinds, Kind,    \* Kind[s] is "service" or "ingress"
    Vals,           \* what the rules of a source can be
    None,           \* no rules
    MaxChanges,     \* bound: how often the users change their sources
    MaxDeletes,     \* bound: how often a user deletes a ConfigMap
    MaxRev,         \* bound: how often a ConfigMap is written
    ApiMayFail      \* whether API calls can fail for other reasons than conflicts

ASSUME KindAssumption == Kind \in [Sources -> Kinds]
ASSUME NoneAssumption == None \notin Vals \cup Sources
ASSUME BoundAssumption == /\ {MaxChanges, MaxDeletes, MaxRev} \subseteq Nat
                          /\ ApiMayFail \in BOOLEAN

Rules == Vals \cup {None}
Data  == [Sources -> Rules]
Wants == [cm : Cms, val : Vals]

(* A ConfigMap object: its resourceVersion, its Data and whether its       *)
(* annotations hold the id of the tunnel.                                  *)
Objects == [rv : Nat, data : Data, prepared : BOOLEAN]
Events  == [type : {"ADDED", "MODIFIED", "DELETED"}, cm : Cms, obj : Objects]

(* The two goroutines that run the handler of prepare_tunnel.go.           *)
Workers == {"watch", "register"}

VARIABLES
    server,     \* API server: the object last stored for a ConfigMap
    exists,     \* and the ConfigMaps that exist
    feed,       \* events the watcher has not taken yet
    gaveUp,     \* history: the ConfigMaps with which the handler of
                \* prepare_tunnel.go gave up since they were last stored
    changes,    \* how many changes the users have made
    deletes,    \* how many ConfigMaps they have deleted
    want,       \* what the source's last event asks for, None or a Want
    pc,         \* where the source's goroutine is
    got,        \* what its Get returned: an object, or None
    left,       \* RemoveConfigMap: cached objects that it still has to visit
    lock,       \* lockConfigMap: who holds the lock of a kind and a ConfigMap
    objs,       \* the objects that were cached for a ConfigMap, the last is in
                \* tcm.cms; a goroutine that called Get may hold an older one
    event,      \* the event the watcher is working on, or None
    passes,     \* how often it still has to hand it to the handler
    leading,    \* whether the handler is registered
    replay,     \* Register: cached objects it still has to hand over
    prep,       \* where each worker is in the handler
    prepGot     \* what its Get returned

users   == <<changes, deletes, want>>
cluster == <<server, exists, feed, gaveUp>>
sources == <<pc, got, left, lock>>
handler == <<leading, replay, prep, prepGot>>
watcher == <<event, passes>>
vars    == <<server, exists, feed, gaveUp, changes, deletes, want, pc, got, left, lock,
             objs, event, passes, leading, replay, prep, prepGot>>

NoRules == [s \in Sources |-> None]
Absent  == [rv |-> 0, data |-> NoRules, prepared |-> FALSE]
Pointers == [cm : Cms, at : Nat]

Cached(c)  == objs[c] # <<>>
Current(c) == objs[c][Len(objs[c])]
Target(p)  == objs[p.cm][p.at]

(* Get: pointers to the objects that the cache holds at this moment.       *)
Get == {[cm |-> c, at |-> Len(objs[c])] : c \in {d \in Cms : Cached(d)}}

Init ==
    /\ server = [c \in Cms |-> Absent]
    /\ exists = {}
    /\ feed = <<>>
    /\ gaveUp = {}
    /\ changes = 0
    /\ deletes = 0
    /\ want = [s \in Sources |-> None]
    /\ pc = [s \in Sources |-> "idle"]
    /\ got = [s \in Sources |-> None]
    /\ left = [s \in Sources |-> {}]
    /\ lock = [k \in Kinds |-> [c \in Cms |-> None]]
    /\ objs = [c \in Cms |-> <<>>]
    /\ event = None
    /\ passes = 0
    /\ leading = FALSE
    /\ replay = {}
    /\ prep = [w \in Workers |-> "idle"]
    /\ prepGot = [w \in Workers |-> None]

-----------------------------------------------------------------------------
(***************************************************************************)
(* The API server.                                                         *)
(***************************************************************************)
Store(c, data, prepared) ==
    LET new == [rv |-> server[c].rv + 1, data |-> data, prepared |-> prepared]
    IN  /\ server' = [server EXCEPT ![c] = new]
        /\ exists' = exists \cup {c}
        /\ feed' = Append(feed, [type |-> IF c \in exists THEN "MODIFIED" ELSE "ADDED",
                                 cm |-> c, obj |-> new])
        /\ gaveUp' = gaveUp \ {c}

(* client.Update of a copy read at resourceVersion rv.                     *)
Update(c, rv, data, prepared) ==
    IF /\ c \in exists /\ rv = server[c].rv
       /\ <<data, prepared>> # <<server[c].data, server[c].prepared>>
    THEN Store(c, data, prepared)
    ELSE UNCHANGED cluster

(* client.Create fails if the ConfigMap exists.                            *)
Create(c, data) ==
    IF c \notin exists THEN Store(c, data, FALSE) ELSE UNCHANGED cluster

(* client.Get: an error, modelled as None, if there is no such ConfigMap,  *)
(* or if the call fails.                                                   *)
Fetch(c)   == IF c \in exists THEN server[c] ELSE None
Fetches(c) == {Fetch(c)} \cup IF ApiMayFail THEN {None} ELSE {}

UserDelete(c) ==
    /\ deletes < MaxDeletes /\ c \in exists
    /\ deletes' = deletes + 1
    /\ exists' = exists \ {c}
    /\ server' = [server EXCEPT ![c] = [rv |-> server[c].rv + 1, data |-> NoRules,
                                       prepared |-> FALSE]]
    /\ feed' = Append(feed, [type |-> "DELETED", cm |-> c, obj |-> server[c]])
    /\ UNCHANGED <<gaveUp, changes, want, sources, objs, watcher, handler>>
-----------------------------------------------------------------------------
(***************************************************************************)
(* The goroutine of a source.  An event of its watcher asks for rules in   *)
(* one ConfigMap (UpsertConfigMap) or in none (RemoveConfigMap).           *)
(***************************************************************************)
UserChange(s) ==
    /\ changes < MaxChanges
    /\ pc[s] = "idle"
    /\ \E w \in Wants \cup {None} :
         /\ want' = [want EXCEPT ![s] = w]
         /\ pc' = [pc EXCEPT ![s] = IF w = None THEN "scan" ELSE "lock"]
    /\ changes' = changes + 1
    /\ UNCHANGED <<deletes, cluster, got, left, lock, objs, watcher, handler>>

(* Variant: no lock.                                                       *)
UpsertLock_Ignored(s) ==
    LET c == want[s].cm
    IN  /\ pc[s] = "lock"
        /\ lock' = [lock EXCEPT ![Kind[s]][c] = s]
        /\ pc' = [pc EXCEPT ![s] = "get"]
        /\ UNCHANGED <<users, cluster, got, left, objs, watcher, handler>>

(* The lock is one per ConfigMap and kind.                                 *)
UpsertLock(s) ==
    LET c == want[s].cm
    IN  /\ pc[s] = "lock"
        /\ lock[Kind[s]][c] = None
        /\ lock' = [lock EXCEPT ![Kind[s]][c] = s]
        /\ pc' = [pc EXCEPT ![s] = "get"]
        /\ UNCHANGED <<users, cluster, got, left, objs, watcher, handler>>

UpsertGet(s) ==
    /\ pc[s] = "get"
    /\ \E o \in Fetches(want[s].cm) : got' = [got EXCEPT ![s] = o]
    /\ pc' = [pc EXCEPT ![s] = "put"]
    /\ UNCHANGED <<users, cluster, left, lock, objs, watcher, handler>>

(* Variant: an early return keeps the lock.                                *)
UpsertDone_KeepsLock(s) ==
    /\ got' = [got EXCEPT ![s] = None]
    /\ pc' = [pc EXCEPT ![s] = "idle"]
    /\ UNCHANGED <<users, left, lock, objs, watcher, handler>>

UpsertDone(s) ==
    /\ lock' = [lock EXCEPT ![Kind[s]][want[s].cm] = None]
    /\ got' = [got EXCEPT ![s] = None]
    /\ pc' = [pc EXCEPT ![s] = "idle"]
    /\ UNCHANGED <<users, left, objs, watcher, handler>>

(* Variant: the Data is replaced instead of merged.                        *)
UpsertPut_ReplacesData(s) ==
    LET c == want[s].cm
        mine == [NoRules EXCEPT ![s] = want[s].val]
    IN  /\ pc[s] = "put"
        /\ IF got[s] = None
           THEN Create(c, mine)
           ELSE Update(c, got[s].rv, mine, got[s].prepared)
        /\ UpsertDone(s)

(* Variant: the annotations are replaced instead of merged.                *)
UpsertPut_ReplacesAnnotations(s) ==
    LET c == want[s].cm
        v == want[s].val
    IN  /\ pc[s] = "put"
        /\ IF got[s] = None
           THEN Create(c, [NoRules EXCEPT ![s] = v])
           ELSE Update(c, got[s].rv, [got[s].data EXCEPT ![s] = v], FALSE)
        /\ UpsertDone(s)

(* What was read is written back with the rules of s merged into it; what  *)
(* was not found is created.  An error is returned and logged: the update  *)
(* is not tried again.                                                     *)
UpsertPut(s) ==
    LET c == want[s].cm
        v == want[s].val
    IN  /\ pc[s] = "put"
        /\ IF got[s] = None
           THEN Create(c, [NoRules EXCEPT ![s] = v])
           ELSE Update(c, got[s].rv, [got[s].data EXCEPT ![s] = v], got[s].prepared)
        /\ UpsertDone(s)

UpsertFails(s) ==
    /\ ApiMayFail
    /\ pc[s] = "put"
    /\ UNCHANGED cluster
    /\ UpsertDone(s)

(* RemoveConfigMap visits what Get returns.  Only this goroutine takes the *)
(* key of s out of a cached object, so the objects without it are skipped. *)
RemoveScan(s) ==
    /\ pc[s] = "scan"
    /\ LET hits == {p \in Get : Target(p).data[s] # None}
       IN  /\ left' = [left EXCEPT ![s] = hits]
           /\ pc' = [pc EXCEPT ![s] = IF hits = {} THEN "idle" ELSE "visit"]
    /\ UNCHANGED <<users, cluster, got, lock, objs, watcher, handler>>

(* Variant: the whole Data is dropped.                                     *)
RemoveKey_All(s) ==
    /\ pc[s] = "visit"
    /\ \E p \in left[s] :
         /\ objs' = [objs EXCEPT ![p.cm][p.at].data = NoRules]
         /\ got' = [got EXCEPT ![s] = p]
    /\ pc' = [pc EXCEPT ![s] = "send"]
    /\ UNCHANGED <<users, cluster, left, lock, watcher, handler>>

(* The key is deleted in the cached object itself, with no lock held ...   *)
RemoveKey(s) ==
    /\ pc[s] = "visit"
    /\ \E p \in left[s] :
         /\ objs' = [objs EXCEPT ![p.cm][p.at].data[s] = None]
         /\ got' = [got EXCEPT ![s] = p]
    /\ pc' = [pc EXCEPT ![s] = "send"]
    /\ UNCHANGED <<users, cluster, left, lock, watcher, handler>>

RemoveNext(s) ==
    /\ left' = [left EXCEPT ![s] = @ \ {got[s]}]
    /\ pc' = [pc EXCEPT ![s] = IF left[s] = {got[s]} THEN "idle" ELSE "visit"]
    /\ got' = [got EXCEPT ![s] = None]
    /\ UNCHANGED <<users, lock, objs, watcher, handler>>

(* ... and that object, with the resourceVersion it was cached with, is    *)
(* sent as an update.  (The lock around it is of a ConfigMap whose name    *)
(* has the prefix twice: no upsert ever waits for it.)                     *)
RemoveSend(s) ==
    LET p == got[s]
        o == Target(p)
    IN  /\ pc[s] = "send"
        /\ Update(p.cm, o.rv, o.data, o.prepared)
        /\ RemoveNext(s)

RemoveFails(s) ==
    /\ ApiMayFail
    /\ pc[s] = "send"
    /\ UNCHANGED cluster
    /\ RemoveNext(s)

Source(s) == \/ UpsertLock(s) \/ UpsertGet(s) \/ UpsertPut(s) \/ UpsertFails(s)
             \/ RemoveScan(s) \/ RemoveKey(s) \/ RemoveSend(s) \/ RemoveFails(s)
-----------------------------------------------------------------------------
(***************************************************************************)
(* The goroutine of the ConfigMap watcher: upsert and delete on the cache, *)
(* fireEvents, then the handlers once more.                                *)
(***************************************************************************)
(* Variant: the annotations are not compared.                              *)
SameContent_DataOnly(o, n) == o.data = n.data

SameContent(o, n) == o.data = n.data /\ o.prepared = n.prepared

(* An event whose content the cache has already is not stored, not even    *)
(* for its resourceVersion, and fires nothing; but the callback of the     *)
(* watcher goes on to call the handlers itself.                            *)
ObserveUpsert ==
    /\ event = None /\ feed # <<>> /\ Head(feed).type # "DELETED"
    /\ LET c    == Head(feed).cm
           o    == Head(feed).obj
           same == Cached(c) /\ SameContent(Current(c), o)
       IN  /\ objs' = IF same THEN objs ELSE [objs EXCEPT ![c] = Append(@, o)]
           /\ passes' = IF same THEN 1 ELSE 2
    /\ event' = Head(feed)
    /\ feed' = Tail(feed)
    /\ UNCHANGED <<server, exists, gaveUp, users, sources, handler>>

(* delete() removes an entry from tcm.watchers: the cache keeps its own.   *)
(* What the handlers do with a Deleted event is not about the ConfigMap.   *)
ObserveDelete ==
    /\ event = None /\ feed # <<>> /\ Head(feed).type = "DELETED"
    /\ feed' = Tail(feed)
    /\ UNCHANGED <<server, exists, gaveUp, users, sources, objs, watcher, handler>>

(* Variant: one pass too many.                                             *)
PassDone_Late ==
    /\ passes' = passes - 1
    /\ event' = IF passes = 0 THEN None ELSE event

PassDone ==
    /\ passes' = passes - 1
    /\ event' = IF passes = 1 THEN None ELSE event

(* Without the lead no handler of this controller writes.                  *)
PassSkip ==
    /\ event # None /\ prep["watch"] = "idle"
    /\ ~leading
    /\ PassDone
    /\ UNCHANGED <<cluster, users, sources, objs, handler>>
-----------------------------------------------------------------------------
(***************************************************************************)
(* The handler of prepare_tunnel.go, which the watcher calls with an event *)
(* and Register with a cached object.  In "prepare" it asks Cloudflare for *)
(* the tunnel and the API server for its Secret, makes what is missing,    *)
(* and routes the DNS names of the rules to the tunnel.  Then it sets the  *)
(* id in the object at hand and calls the function UpsertConfigMap, with   *)
(* no lock.  The routing may not end: getZones reads the same page again   *)
(* until it is empty, or until a call fails.                               *)
(***************************************************************************)
(* The handler is added under fnsLock, which fireEvents holds through its  *)
(* pass: a pass without the handler is one step (PassSkip), and comes      *)
(* before this one or after it.                                            *)
Lead ==
    /\ ~leading
    /\ leading' = TRUE
    /\ prep' = [prep EXCEPT !["register"] = "get"]
    /\ UNCHANGED <<cluster, users, sources, objs, watcher, replay, prepGot>>

(* Variant: what is in the cache already is not handed over.               *)
RegisterGet_Nothing ==
    /\ prep["register"] = "get"
    /\ prep' = [prep EXCEPT !["register"] = "idle"]
    /\ UNCHANGED <<cluster, users, sources, objs, watcher, leading, replay, prepGot>>

RegisterGet ==
    /\ prep["register"] = "get"
    /\ replay' = Get
    /\ prep' = [prep EXCEPT !["register"] = "idle"]
    /\ UNCHANGED <<cluster, users, sources, objs, watcher, leading, prepGot>>

PrepEvent ==
    /\ event # None /\ prep["watch"] = "idle"
    /\ leading
    /\ prep' = [prep EXCEPT !["watch"] = "prepare"]
    /\ UNCHANGED <<cluster, users, sources, objs, watcher, leading, replay, prepGot>>

PrepCached ==
    /\ prep["register"] = "idle"
    /\ \E p \in replay :
         prepGot' = [prepGot EXCEPT !["register"] = [to |-> p, obj |-> None]]
    /\ prep' = [prep EXCEPT !["register"] = "prepare"]
    /\ UNCHANGED <<cluster, users, sources, objs, watcher, leading, replay>>

PrepGetEvent ==
    /\ prep["watch"] = "prepare"
    /\ prep' = [prep EXCEPT !["watch"] = "put"]
    /\ prepGot' = [prepGot EXCEPT !["watch"] = Fetch(event.cm)]
    /\ UNCHANGED <<cluster, users, sources, objs, watcher, leading, replay>>

(* Register hands over the cached object itself: the id is set in it.      *)
PrepGetCached ==
    LET p == prepGot["register"].to
    IN  /\ prep["register"] = "prepare"
        /\ objs' = [objs EXCEPT ![p.cm][p.at].prepared = TRUE]
        /\ prep' = [prep EXCEPT !["register"] = "put"]
        /\ prepGot' = [prepGot EXCEPT !["register"].obj = Fetch(p.cm)]
        /\ UNCHANGED <<cluster, users, sources, watcher, leading, replay>>

(* The Data of the object at hand is written over what was read.  Create   *)
(* refuses an object that carries a resourceVersion, as all of these do.   *)
Merge(old, new) == [s \in Sources |-> IF new[s] # None THEN new[s] ELSE old[s]]

WriteBack(c, read, data) ==
    IF read = None \/ server[c].rv >= MaxRev
    THEN UNCHANGED cluster
    ELSE Update(c, read.rv, Merge(read.data, data), TRUE)

EventDone ==
    /\ prep' = [prep EXCEPT !["watch"] = "idle"]
    /\ prepGot' = [prepGot EXCEPT !["watch"] = None]
    /\ PassDone
    /\ UNCHANGED <<users, sources, objs, leading, replay>>

PrepPutEvent ==
    /\ prep["watch"] = "put"
    /\ WriteBack(event.cm, prepGot["watch"], event.obj.data)
    /\ EventDone

CachedDone ==
    /\ replay' = replay \ {prepGot["register"].to}
    /\ prep' = [prep EXCEPT !["register"] = "idle"]
    /\ prepGot' = [prepGot EXCEPT !["register"] = None]
    /\ UNCHANGED <<users, sources, objs, watcher, leading>>

PrepPutCached ==
    LET p == prepGot["register"].to
    IN  /\ prep["register"] = "put"
        /\ WriteBack(p.cm, prepGot["register"].obj, Target(p).data)
        /\ CachedDone

(* Any call before the write, or the write itself, fails: the error is     *)
(* logged and nobody tries again.  (A Get that fails is followed by a      *)
(* Create that is refused: the effect is that of an Update that fails.)    *)
GiveUp(c) ==
    /\ ApiMayFail
    /\ gaveUp' = gaveUp \cup {c}
    /\ UNCHANGED <<server, exists, feed>>

PrepFailsEvent ==
    /\ prep["watch"] \in {"prepare", "put"}
    /\ GiveUp(event.cm)
    /\ EventDone

PrepFailsCached ==
    /\ prep["register"] \in {"prepare", "put"}
    /\ GiveUp(prepGot["register"].to.cm)
    /\ CachedDone

Observe == ObserveUpsert \/ ObserveDelete
Pass    == PassSkip \/ PrepEvent \/ PrepPutEvent \/ PrepFailsEvent
Replay  == RegisterGet \/ PrepCached \/ PrepPutCached \/ PrepFailsCached
Routed  == PrepGetEvent \/ PrepGetCached
-----------------------------------------------------------------------------
Next == \/ \E s \in Sources : UserChange(s) \/ Source(s)
        \/ \E c \in Cms : UserDelete(c)
        \/ Observe \/ Pass \/ Lead \/ Replay \/ Routed

Spec == Init /\ [][Next]_vars

(* Every goroutine that can go on does; nobody has to change or delete     *)
(* anything, no call has to fail, and the routing of DNS names need not    *)
(* end.  Some controller of the deployment becomes the leader, and its     *)
(* Register gets fnsLock.                                                  *)
Fairness == /\ \A s \in Sources : SF_vars(UpsertLock(s)) /\ WF_vars(Source(s))
            /\ WF_vars(Observe) /\ WF_vars(Lead)
            /\ WF_vars(PassSkip \/ PrepEvent \/ PrepPutEvent)
            /\ WF_vars(RegisterGet \/ PrepCached \/ PrepPutCached)

FairSpec == Spec /\ Fairness
-----------------------------------------------------------------------------
(* What a source has at hand, wherever it is.                              *)
SourceOK(s) ==
    /\ pc[s] \in {"lock", "get", "put"} => want[s] # None
    /\ pc[s] = "put" => got[s] \in Objects \cup {None}
    /\ pc[s] = "send" => got[s] \in left[s]
    /\ pc[s] \notin {"put", "send"} => got[s] = None
    /\ \A p \in left[s] : p.cm \in Cms /\ p.at \in DOMAIN objs[p.cm]

TypeOK ==
    /\ server \in [Cms -> Objects]
    /\ exists \subseteq Cms
    /\ feed \in Seq(Events)
    /\ gaveUp \subseteq Cms
    /\ changes \in 0 .. MaxChanges /\ deletes \in 0 .. MaxDeletes
    /\ want \in [Sources -> Wants \cup {None}]
    /\ pc \in [Sources -> {"idle", "lock", "get", "put", "scan", "visit", "send"}]
    /\ DOMAIN got = Sources /\ DOMAIN left = Sources /\ DOMAIN prepGot = Workers
    /\ \A s \in Sources : SourceOK(s)
    /\ lock \in [Kinds -> [Cms -> Sources \cup {None}]]
    /\ objs \in [Cms -> Seq(Objects)]
    /\ event \in Events \cup {None}
    /\ passes \in 0 .. 2
    /\ leading \in BOOLEAN
    /\ \A p \in replay : p.cm \in Cms /\ p.at \in DOMAIN objs[p.cm]
    /\ prep \in [Workers -> {"idle", "get", "prepare", "put"}]
    /\ prepGot["watch"] \in Objects \cup {None}
    /\ prep["register"] \in {"prepare", "put"} =>
           prepGot["register"] \in [to : replay, obj : Objects \cup {None}]

(***************************************************************************)
(* What the users of the ConfigMaps rely on.                               *)
(***************************************************************************)
Wanted(s, c) == IF want[s] # None /\ want[s].cm = c THEN want[s].val ELSE None

(* The rules of a source change to what that source asks for and to        *)
(* nothing else: an update written from a copy, be it read from the server *)
(* or kept in the cache, never undoes someone else's.  Only the write-back *)
(* of the id may also put back what it found in its event or in the cache, *)
(* which updateCFTunnel does.                                              *)
PutBack(c, s) ==
    \/ PrepPutEvent /\ event.cm = c /\ server'[c].data[s] = event.obj.data[s]
    \/ /\ PrepPutCached
       /\ LET p == prepGot["register"].to
          IN  p.cm = c /\ server'[c].data[s] = Target(p).data[s]

RulesFollowSources ==
    [][\A c \in exists \cap exists', s \in Sources :
          server'[c].data[s] # server[c].data[s] =>
              server'[c].data[s] = Wanted(s, c) \/ PutBack(c, s)]_vars

(* A cached object whose resourceVersion the server would still accept     *)
(* differs from what is stored only in the keys of sources that are being  *)
(* removed: RemoveConfigMap may send it as it is.                          *)
CacheIsSafeToSend ==
    \A c \in exists : \A i \in DOMAIN objs[c] :
        LET o == objs[c][i]
        IN  o.rv = server[c].rv =>
              /\ server[c].prepared => o.prepared
              /\ \A s \in Sources : o.data[s] # server[c].data[s] =>
                                        o.data[s] = None /\ want[s] = None

(* Once the watcher has caught up, the cache holds every ConfigMap that    *)
(* exists, with all its rules but those somebody tried to remove.          *)
CacheCatchesUp ==
    feed = <<>> /\ event = None =>
        \A c \in exists :
            /\ Cached(c)
            /\ server[c].prepared => Current(c).prepared
            /\ \A s \in Sources : Current(c).data[s] \in {server[c].data[s], None}

(* Between the read and the write of an upsert nobody's upsert of the same *)
(* kind writes the ConfigMap: whatever makes an upsert fail, it is not     *)
(* another source of its kind.                                             *)
KindsTakeTurns ==
    [][\A s, s2 \in Sources :
          (/\ s # s2 /\ Kind[s] = Kind[s2]
           /\ pc[s] = "put" /\ pc'[s] = "put"
           /\ pc[s2] = "put" /\ pc'[s2] = "idle"
           /\ want[s].cm = want[s2].cm) => UNCHANGED server[want[s].cm]]_vars

(* The tunnel's id, once it is in a ConfigMap, stays there, whoever writes *)
(* the ConfigMap and from whichever copy.                                  *)
IdStays ==
    [][\A c \in exists \cap exists' :
          server[c].prepared => server'[c].prepared]_vars

(* Unless the routing of DNS names hangs for ever, every ConfigMap gets    *)
(* its tunnel's id, however the write-back is beaten by other writers,     *)
(* whether it came before or after the leader, and whatever calls failed   *)
(* earlier: all it takes is that the handler has not given up with it      *)
(* since it was last stored.                                               *)
RoutingHangs == \E w \in Workers : <>[](prep[w] = "prepare")

EventuallyPrepared ==
    \/ RoutingHangs
    \/ \A c \in Cms :
          (c \in exists) ~> (c \notin exists \/ server[c].prepared \/ c \in gaveUp)

(* The locks are given back: no source waits for one for ever.             *)
UpsertsEnd == \A s \in Sources : (pc[s] = "lock") ~> (pc[s] = "idle")
=============================================================================
