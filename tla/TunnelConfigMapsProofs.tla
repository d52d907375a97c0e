----------------------- MODULE TunnelConfigMapsProofs -----------------------
(***************************************************************************)
(* Theorems about TunnelConfigMaps, for all sets of ConfigMaps and of      *)
(* sources and all bounds.                                                 *)
(***************************************************************************)
EXTENDS TunnelConfigMaps, SequenceTheorems, TLAPS

(***************************************************************************)
(* Why the safety properties hold.                                         *)
(***************************************************************************)
ControlInv ==
    /\ \A s \in Sources :
         /\ pc[s] \in {"scan", "visit", "send"} => want[s] = None
         /\ pc[s] \in {"get", "put"} => lock[Kind[s]][want[s].cm] = s
    /\ event # None => passes > 0
    /\ prep["watch"] \in {"prepare", "put"} => event # None

(* What was read from c is out of date or what is stored.                  *)
Faithful(o, c) ==
    /\ o.rv <= server[c].rv
    /\ o.rv = server[c].rv => c \in exists /\ o = server[c]

CopyInv ==
    /\ \A i \in 1 .. Len(feed) : Faithful(feed[i].obj, feed[i].cm)
    /\ \A s \in Sources : pc[s] = "put" /\ got[s] # None => Faithful(got[s], want[s].cm)
    /\ prep["watch"] = "put" /\ prepGot["watch"] # None =>
          Faithful(prepGot["watch"], event.cm)
    /\ prep["register"] = "put" /\ prepGot["register"].obj # None =>
          Faithful(prepGot["register"].obj, prepGot["register"].to.cm)

(* A cached object that is not out of date lacks at most the keys that are *)
(* about to be sent.                                                       *)
CachedInv ==
    \A c \in Cms : \A i \in DOMAIN objs[c] :
        LET o == objs[c][i]
        IN  /\ o.rv <= server[c].rv
            /\ o.rv = server[c].rv =>
                  /\ c \in exists
                  /\ server[c].prepared => o.prepared
                  /\ ~ApiMayFail => \A s \in Sources : o.data[s] # server[c].data[s] =>
                        o.data[s] = None /\ pc[s] = "send" /\ got[s].cm = c /\ got[s].at = i

(* The object holds what is stored, but for what was to be removed.        *)
Holds(o, c) ==
    /\ server[c].prepared => o.prepared
    /\ \A s \in Sources : o.data[s] \in {server[c].data[s], None}

(* The last event about c shows what is stored.                            *)
FeedInv ==
    \A c \in exists :
        \/ /\ \A i \in 1 .. Len(feed) : feed[i].cm # c
           /\ Cached(c) /\ Holds(Current(c), c)
        \/ \E i \in 1 .. Len(feed) :
              /\ feed[i].cm = c /\ feed[i].type # "DELETED" /\ feed[i].obj = server[c]
              /\ \A j \in 1 .. Len(feed) : j > i => feed[j].cm # c

StoreInv == CopyInv /\ CachedInv /\ FeedInv
-----------------------------------------------------------------------------
(***************************************************************************)
(* Types.                                                                  *)
(***************************************************************************)
(* A source that did not move, while the cache may have grown.             *)
LEMMA OtherSource ==
    ASSUME NEW s \in Sources, SourceOK(s),
           pc'[s] = pc[s], got'[s] = got[s], left'[s] = left[s], want'[s] = want[s],
           \A c \in Cms : DOMAIN objs[c] \subseteq DOMAIN objs'[c]
    PROVE  SourceOK(s)'
  BY DEF SourceOK

(***************************************************************************)
(* The API server: either nothing happens, or c gets a new version, which  *)
(* the last event of the feed shows.                                       *)
(***************************************************************************)
Stored(c) ==
    /\ server' \in [Cms -> Objects]
    /\ server'[c].rv = server[c].rv + 1
    /\ \A d \in Cms \ {c} : server'[d] = server[d]
    /\ exists' = exists \cup {c} /\ gaveUp' = gaveUp \ {c}
    /\ \E e \in Events : /\ feed' = Append(feed, e)
                         /\ e.cm = c /\ e.obj = server'[c] /\ e.type # "DELETED"

LEMMA StoreStores ==
    ASSUME TypeOK, NEW c \in Cms, NEW data \in Data, NEW prepared \in BOOLEAN,
           Store(c, data, prepared)
    PROVE  Stored(c) /\ server'[c].data = data /\ server'[c].prepared = prepared
<1> DEFINE new == [rv |-> server[c].rv + 1, data |-> data, prepared |-> prepared]
           e == [type |-> IF c \in exists THEN "MODIFIED" ELSE "ADDED", cm |-> c, obj |-> new]
<1>1. server[c].rv \in Nat
  BY DEF TypeOK, Objects
<1>2. new \in Objects /\ new.rv = server[c].rv + 1 /\ new.data = data /\ new.prepared = prepared
  BY <1>1 DEF Objects
<1>3. /\ server' = [server EXCEPT ![c] = new] /\ exists' = exists \cup {c}
      /\ feed' = Append(feed, e) /\ gaveUp' = gaveUp \ {c}
  BY DEF Store
<1> HIDE DEF new
<1>4. e \in Events /\ e.cm = c /\ e.obj = new /\ e.type # "DELETED"
  BY <1>2 DEF Events
<1> HIDE DEF e
<1>5. server' \in [Cms -> Objects] /\ server'[c] = new
      /\ \A d \in Cms \ {c} : server'[d] = server[d]
  BY <1>2, <1>3 DEF TypeOK
<1> QED
  BY <1>2, <1>3, <1>4, <1>5 DEF Stored

ClusterOK == /\ server \in [Cms -> Objects] /\ exists \subseteq Cms
             /\ feed \in Seq(Events) /\ gaveUp \subseteq Cms

LEMMA StoredTypes ==
    ASSUME TypeOK, UNCHANGED cluster \/ \E c \in Cms : Stored(c)
    PROVE  ClusterOK'
<1>1. CASE UNCHANGED cluster
  BY <1>1 DEF TypeOK, ClusterOK, cluster
<1>2. ASSUME NEW c \in Cms, Stored(c)
      PROVE  ClusterOK'
  <2>1. feed' \in Seq(Events)
    BY <1>2, AppendProperties DEF TypeOK, Stored
  <2> QED
    BY <1>2, <2>1 DEF TypeOK, ClusterOK, Stored
<1> QED
  BY <1>1, <1>2

LEMMA FetchTypes ==
    ASSUME TypeOK, NEW c \in Cms
    PROVE  /\ Fetch(c) \in Objects \cup {None}
           /\ Fetch(c) # None => c \in exists /\ Fetch(c) = server[c]
  BY DEF TypeOK, Fetch

LEMMA CachedTypes ==
    ASSUME TypeOK, NEW c \in Cms, NEW i \in DOMAIN objs[c]
    PROVE  /\ objs[c][i] \in Objects
           /\ objs[c][i].rv \in Nat /\ objs[c][i].data \in Data
           /\ objs[c][i].prepared \in BOOLEAN
<1>1. objs[c] \in Seq(Objects) /\ DOMAIN objs[c] = 1 .. Len(objs[c])
  BY LenProperties DEF TypeOK
<1>2. objs[c][i] \in Objects
  BY <1>1, ElementOfSeq
<1> QED
  BY <1>2 DEF Objects

LEMMA FeedShrinks ==
    ASSUME TypeOK, feed # <<>>
    PROVE  /\ Head(feed) \in Events /\ Tail(feed) \in Seq(Events)
           /\ Head(feed).cm \in Cms /\ Head(feed).obj \in Objects
           /\ Head(feed) = feed[1] /\ Len(feed) > 0
           /\ Len(Tail(feed)) = Len(feed) - 1
           /\ \A i \in 1 .. Len(feed) - 1 : Tail(feed)[i] = feed[i + 1]
<1>1. /\ Head(feed) \in Events /\ Tail(feed) \in Seq(Events)
      /\ Len(Tail(feed)) = Len(feed) - 1 /\ Head(feed) = feed[1]
      /\ \A i \in 1 .. Len(Tail(feed)) : Tail(feed)[i] = feed[i + 1]
  BY HeadTailProperties DEF TypeOK
<1>2. Len(feed) \in Nat /\ Len(feed) # 0
  BY LenProperties, EmptySeq DEF TypeOK
<1> QED
  BY <1>1, <1>2 DEF Events

LEMMA InitTypes ==
    ASSUME Init
    PROVE  TypeOK /\ ControlInv
<1>1. Absent \in Objects
  BY DEF Absent, NoRules, Objects, Data, Rules
<1>2. server \in [Cms -> Objects]
  BY <1>1 DEF Init
<1>3. feed \in Seq(Events) /\ \A c \in Cms : objs[c] = <<>>
  BY DEF Init
<1>4. objs \in [Cms -> Seq(Objects)]
  BY DEF Init
<1>5. lock \in [Kinds -> [Cms -> Sources \cup {None}]] /\ want \in [Sources -> Wants \cup {None}]
  BY DEF Init
<1>6. changes \in 0 .. MaxChanges /\ deletes \in 0 .. MaxDeletes
  BY BoundAssumption DEF Init
<1>7. pc \in [Sources -> {"idle", "lock", "get", "put", "scan", "visit", "send"}]
      /\ prep \in [Workers -> {"idle", "get", "prepare", "put"}]
      /\ prep["register"] = "idle" /\ prepGot["watch"] = None
  BY DEF Init, Workers
<1>8. \A s \in Sources : SourceOK(s)
  BY DEF Init, SourceOK
<1>9. TypeOK
  <2>1. DOMAIN got = Sources /\ DOMAIN left = Sources /\ DOMAIN prepGot = Workers
    BY DEF Init
  <2>2. exists \subseteq Cms /\ gaveUp \subseteq Cms /\ passes \in 0 .. 2
    BY DEF Init
  <2>3. leading \in BOOLEAN
    BY Zenon DEF Init
  <2>4. event \in Events \cup {None} /\ prepGot["watch"] \in Objects \cup {None}
    BY <1>7 DEF Init
  <2>5. /\ \A p \in replay : p.cm \in Cms /\ p.at \in DOMAIN objs[p.cm]
        /\ prep["register"] \notin {"prepare", "put"}
    BY <1>7 DEF Init
  <2> QED
    BY <2>1, <2>2, <2>3, <2>4, <2>5, <1>2, <1>3, <1>4, <1>5, <1>6, <1>7, <1>8 DEF TypeOK
<1> QED
  BY <1>9 DEF Init, ControlInv, Workers

(***************************************************************************)
(* Every action keeps TypeOK and ControlInv.                               *)
(***************************************************************************)
LEMMA SourceStepTypes ==
    ASSUME TypeOK, ControlInv, NEW s \in Sources,
           UNCHANGED <<changes, deletes, want, event, passes, leading, replay, prep, prepGot>>,
           ClusterOK',
           objs' \in [Cms -> Seq(Objects)],
           \A c \in Cms : DOMAIN objs'[c] = DOMAIN objs[c],
           pc' \in [Sources -> {"idle", "lock", "get", "put", "scan", "visit", "send"}],
           DOMAIN got' = Sources, DOMAIN left' = Sources,
           lock' \in [Kinds -> [Cms -> Sources \cup {None}]],
           \A t \in Sources \ {s} : pc'[t] = pc[t] /\ got'[t] = got[t] /\ left'[t] = left[t],
           SourceOK(s)',
           pc'[s] \in {"scan", "visit", "send"} => want[s] = None,
           \A t \in Sources : pc'[t] \in {"get", "put"} => lock'[Kind[t]][want[t].cm] = t
    PROVE  TypeOK' /\ ControlInv'
<1>1. ASSUME NEW t \in Sources
      PROVE  SourceOK(t)'
  BY OtherSource DEF TypeOK
<1>2. TypeOK'
  BY <1>1 DEF TypeOK, ClusterOK
<1>3. ControlInv'
  BY DEF ControlInv
<1> QED
  BY <1>2, <1>3

LEMMA UpsertLockTypes ==
    ASSUME TypeOK, ControlInv, NEW s \in Sources, UpsertLock(s)
    PROVE  TypeOK' /\ ControlInv'
<1> DEFINE c == want[s].cm
<1>0. SourceOK(s)
  BY DEF TypeOK
<1>1. c \in Cms /\ Kind[s] \in Kinds /\ pc[s] = "lock" /\ lock[Kind[s]][c] = None
  BY <1>0, KindAssumption DEF UpsertLock, SourceOK, TypeOK, Wants
<1>2. /\ lock' = [lock EXCEPT ![Kind[s]][c] = s] /\ pc' = [pc EXCEPT ![s] = "get"]
      /\ UNCHANGED <<users, cluster, got, left, objs, watcher, handler>>
  BY DEF UpsertLock
<1>3. /\ lock' \in [Kinds -> [Cms -> Sources \cup {None}]] /\ lock'[Kind[s]][c] = s
      /\ \A k \in Kinds, d \in Cms : k # Kind[s] \/ d # c => lock'[k][d] = lock[k][d]
  BY <1>0, <1>1, <1>2 DEF TypeOK
<1>4. /\ pc' \in [Sources -> {"idle", "lock", "get", "put", "scan", "visit", "send"}]
      /\ pc'[s] = "get" /\ \A t \in Sources \ {s} : pc'[t] = pc[t]
  BY <1>0, <1>2 DEF TypeOK
<1>5. SourceOK(s)'
  BY <1>0, <1>1, <1>2, <1>4 DEF SourceOK, users
<1>6. \A t \in Sources : pc'[t] \in {"get", "put"} => lock'[Kind[t]][want[t].cm] = t
  <2> SUFFICES ASSUME NEW t \in Sources, t # s, pc[t] \in {"get", "put"}
               PROVE  lock'[Kind[t]][want[t].cm] = t
    BY <1>3, <1>4
  <2>1. want[t].cm \in Cms /\ Kind[t] \in Kinds /\ lock[Kind[t]][want[t].cm] = t
    BY KindAssumption DEF TypeOK, SourceOK, Wants, ControlInv
  <2>2. CASE Kind[t] # Kind[s] \/ want[t].cm # c
    BY <2>1, <2>2, <1>3
  <2>3. CASE Kind[t] = Kind[s] /\ want[t].cm = c
    BY <2>1, <2>3, <1>1, NoneAssumption
  <2> QED
    BY <2>2, <2>3
<1>7. ClusterOK' /\ objs' \in [Cms -> Seq(Objects)]
  BY <1>2 DEF TypeOK, ClusterOK, cluster
<1> QED
  BY <1>2, <1>3, <1>4, <1>5, <1>6, <1>7, SourceStepTypes
  DEF TypeOK, users, watcher, handler

LEMMA UpsertGetTypes ==
    ASSUME TypeOK, ControlInv, NEW s \in Sources, UpsertGet(s)
    PROVE  TypeOK' /\ ControlInv'
<1>1. SourceOK(s) /\ pc[s] = "get" /\ want[s].cm \in Cms
  BY DEF TypeOK, SourceOK, Wants, UpsertGet
<1>2. PICK o \in Fetches(want[s].cm) : got' = [got EXCEPT ![s] = o]
  BY DEF UpsertGet
<1>3. /\ pc' = [pc EXCEPT ![s] = "put"]
      /\ UNCHANGED <<users, cluster, left, lock, objs, watcher, handler>>
  BY DEF UpsertGet
<1>4. /\ DOMAIN got' = Sources /\ got'[s] = o /\ o \in Objects \cup {None}
      /\ \A t \in Sources \ {s} : got'[t] = got[t]
  BY <1>1, <1>2, FetchTypes DEF TypeOK, Fetches
<1>5. /\ pc' \in [Sources -> {"idle", "lock", "get", "put", "scan", "visit", "send"}]
      /\ pc'[s] = "put" /\ \A t \in Sources \ {s} : pc'[t] = pc[t]
  BY <1>3 DEF TypeOK
<1>6. SourceOK(s)'
  BY <1>1, <1>3, <1>4, <1>5 DEF SourceOK, users
<1>7. \A t \in Sources : pc'[t] \in {"get", "put"} => lock'[Kind[t]][want[t].cm] = t
  BY <1>1, <1>3, <1>5 DEF ControlInv
<1>8. ClusterOK' /\ objs' \in [Cms -> Seq(Objects)]
  BY <1>3 DEF TypeOK, ClusterOK, cluster
<1> QED
  BY <1>3, <1>4, <1>5, <1>6, <1>7, <1>8, SourceStepTypes
  DEF TypeOK, users, watcher, handler

(* Whatever an upsert has stored, its lock is given back.                  *)
LEMMA UpsertDoneTypes ==
    ASSUME TypeOK, ControlInv, NEW s \in Sources, pc[s] = "put", UpsertDone(s), ClusterOK'
    PROVE  TypeOK' /\ ControlInv'
<1> DEFINE c == want[s].cm
<1>1. SourceOK(s) /\ c \in Cms /\ Kind[s] \in Kinds
  BY KindAssumption DEF TypeOK, SourceOK, Wants
<1>2. /\ lock' = [lock EXCEPT ![Kind[s]][c] = None] /\ got' = [got EXCEPT ![s] = None]
      /\ pc' = [pc EXCEPT ![s] = "idle"]
      /\ UNCHANGED <<users, left, objs, watcher, handler>>
  BY DEF UpsertDone
<1>3. /\ lock' \in [Kinds -> [Cms -> Sources \cup {None}]]
      /\ \A k \in Kinds, d \in Cms : k # Kind[s] \/ d # c => lock'[k][d] = lock[k][d]
  BY <1>1, <1>2 DEF TypeOK
<1>4. /\ pc' \in [Sources -> {"idle", "lock", "get", "put", "scan", "visit", "send"}]
      /\ pc'[s] = "idle" /\ \A t \in Sources \ {s} : pc'[t] = pc[t]
  BY <1>2 DEF TypeOK
<1>5. /\ DOMAIN got' = Sources /\ got'[s] = None
      /\ \A t \in Sources \ {s} : got'[t] = got[t]
  BY <1>2 DEF TypeOK
<1>6. SourceOK(s)'
  BY <1>1, <1>2, <1>4, <1>5 DEF SourceOK
<1>7. \A t \in Sources : pc'[t] \in {"get", "put"} => lock'[Kind[t]][want[t].cm] = t
  <2> SUFFICES ASSUME NEW t \in Sources, t # s, pc[t] \in {"get", "put"}
               PROVE  lock'[Kind[t]][want[t].cm] = t
    BY <1>4
  <2>1. want[t].cm \in Cms /\ Kind[t] \in Kinds /\ lock[Kind[t]][want[t].cm] = t
    BY KindAssumption DEF TypeOK, SourceOK, Wants, ControlInv
  <2>2. lock[Kind[s]][c] = s
    BY DEF ControlInv
  <2> QED
    BY <2>1, <2>2, <1>3
<1>8. objs' \in [Cms -> Seq(Objects)]
  BY <1>2 DEF TypeOK
<1> QED
  BY <1>2, <1>3, <1>4, <1>5, <1>6, <1>7, <1>8, SourceStepTypes
  DEF TypeOK, users, watcher, handler

(* What an upsert sends: it keeps what it read, but for its own rules.     *)
LEMMA UpsertSends ==
    ASSUME TypeOK, NEW s \in Sources, UpsertPut(s)
    PROVE  /\ want[s].cm \in Cms /\ want[s].val \in Vals /\ pc[s] = "put"
           /\ \/ UNCHANGED cluster
              \/ Stored(want[s].cm) /\ want[s].cm \notin exists
              \/ /\ Stored(want[s].cm) /\ want[s].cm \in exists
                 /\ got[s] # None /\ got[s] \in Objects /\ got[s].rv = server[want[s].cm].rv
                 /\ server'[want[s].cm].prepared = got[s].prepared
                 /\ server'[want[s].cm].data[s] = want[s].val
                 /\ \A t \in Sources \ {s} : server'[want[s].cm].data[t] = got[s].data[t]
<1> DEFINE c == want[s].cm
           v == want[s].val
<1>1. c \in Cms /\ v \in Vals /\ pc[s] = "put" /\ got[s] \in Objects \cup {None}
  BY DEF TypeOK, SourceOK, Wants, UpsertPut
<1>2. CASE got[s] = None
  <2>1. CASE c \notin exists
    <3>1. PICK data \in Data, b \in BOOLEAN : Store(c, data, b)
      <4> DEFINE data == [NoRules EXCEPT ![s] = v]
      <4>1. data \in Data
        BY <1>1 DEF NoRules, Data, Rules
      <4>2. Store(c, data, FALSE)
        BY <1>2, <2>1 DEF UpsertPut, Create
      <4> QED
        BY <4>1, <4>2
    <3>2. Stored(c)
      BY <1>1, <3>1, StoreStores
    <3> QED
      BY <1>1, <2>1, <3>2
  <2>2. CASE c \in exists
    BY <1>1, <1>2, <2>2 DEF UpsertPut, Create
  <2> QED
    BY <2>1, <2>2
<1>3. CASE got[s] # None
  <2> DEFINE data == [got[s].data EXCEPT ![s] = v]
  <2>1. Update(c, got[s].rv, data, got[s].prepared)
    BY <1>3 DEF UpsertPut
  <2>2. got[s] \in Objects /\ got[s].data \in Data /\ got[s].prepared \in BOOLEAN
    BY <1>1, <1>3 DEF Objects
  <2>3. /\ data \in Data /\ data[s] = v
        /\ \A t \in Sources \ {s} : data[t] = got[s].data[t]
    BY <1>1, <2>2 DEF Data, Rules
  <2> HIDE DEF data
  <2>4. \/ UNCHANGED cluster
        \/ c \in exists /\ got[s].rv = server[c].rv /\ Store(c, data, got[s].prepared)
    BY <2>1 DEF Update
  <2> QED
    BY <1>1, <1>3, <2>2, <2>3, <2>4, StoreStores
<1> QED
  BY <1>2, <1>3

LEMMA UpsertPutTypes ==
    ASSUME TypeOK, ControlInv, NEW s \in Sources, UpsertPut(s) \/ UpsertFails(s)
    PROVE  TypeOK' /\ ControlInv'
<1>1. pc[s] = "put" /\ UpsertDone(s)
  BY DEF UpsertPut, UpsertFails
<1>2. UNCHANGED cluster \/ \E c \in Cms : Stored(c)
  BY UpsertSends DEF UpsertFails
<1> QED
  BY <1>1, <1>2, StoredTypes, UpsertDoneTypes

LEMMA GetTypes ==
    ASSUME TypeOK, NEW p \in Get
    PROVE  p.cm \in Cms /\ p.at \in DOMAIN objs[p.cm]
<1>1. PICK c \in Cms : Cached(c) /\ p = [cm |-> c, at |-> Len(objs[c])]
  BY DEF Get
<1>2. Len(objs[c]) \in DOMAIN objs[c]
  BY <1>1, LenProperties, EmptySeq DEF TypeOK, Cached
<1> QED
  BY <1>1, <1>2

LEMMA RemoveScanTypes ==
    ASSUME TypeOK, ControlInv, NEW s \in Sources, RemoveScan(s)
    PROVE  TypeOK' /\ ControlInv'
<1>1. PICK hits \in SUBSET Get :
         /\ left' = [left EXCEPT ![s] = hits]
         /\ pc' = [pc EXCEPT ![s] = IF hits = {} THEN "idle" ELSE "visit"]
  BY DEF RemoveScan
<1>2. /\ pc[s] = "scan" /\ SourceOK(s)
      /\ UNCHANGED <<users, cluster, got, lock, objs, watcher, handler>>
  BY DEF RemoveScan, TypeOK
<1>3. \A p \in hits : p.cm \in Cms /\ p.at \in DOMAIN objs[p.cm]
  BY GetTypes
<1>4. /\ DOMAIN left' = Sources /\ left'[s] = hits
      /\ \A t \in Sources \ {s} : left'[t] = left[t]
  BY <1>1 DEF TypeOK
<1>5. /\ pc' \in [Sources -> {"idle", "lock", "get", "put", "scan", "visit", "send"}]
      /\ pc'[s] \in {"idle", "visit"} /\ \A t \in Sources \ {s} : pc'[t] = pc[t]
  BY <1>1 DEF TypeOK
<1>6. SourceOK(s)'
  BY <1>2, <1>3, <1>4, <1>5 DEF SourceOK
<1>7. \A t \in Sources : pc'[t] \in {"get", "put"} => lock'[Kind[t]][want[t].cm] = t
  BY <1>2, <1>5 DEF ControlInv
<1>8. want[s] = None
  BY <1>2 DEF ControlInv
<1>9. ClusterOK' /\ objs' \in [Cms -> Seq(Objects)]
  BY <1>2 DEF TypeOK, ClusterOK, cluster
<1> QED
  BY <1>2, <1>4, <1>5, <1>6, <1>7, <1>8, <1>9, SourceStepTypes
  DEF TypeOK, users, watcher, handler

(* One cached object is changed in place.                                  *)
PutAt(c, i, o) == objs' = [objs EXCEPT ![c] = [objs[c] EXCEPT ![i] = o]]

LEMMA InPlace ==
    ASSUME TypeOK, NEW c \in Cms, NEW i \in DOMAIN objs[c], NEW o \in Objects,
           PutAt(c, i, o)
    PROVE  /\ objs' \in [Cms -> Seq(Objects)]
           /\ \A d \in Cms : DOMAIN objs'[d] = DOMAIN objs[d] /\ Len(objs'[d]) = Len(objs[d])
           /\ objs'[c][i] = o
           /\ \A d \in Cms : \A j \in DOMAIN objs[d] :
                 d # c \/ j # i => objs'[d][j] = objs[d][j]
<1> DEFINE q == [objs[c] EXCEPT ![i] = o]
<1>1. objs[c] \in Seq(Objects) /\ DOMAIN objs[c] = 1 .. Len(objs[c])
  BY LenProperties DEF TypeOK
<1>2. /\ q \in Seq(Objects) /\ Len(q) = Len(objs[c]) /\ q[i] = o
      /\ \A j \in DOMAIN objs[c] : j # i => q[j] = objs[c][j]
      /\ DOMAIN q = DOMAIN objs[c]
  BY <1>1, ExceptSeq
<1> HIDE DEF q
<1>3. objs'[c] = q /\ \A d \in Cms \ {c} : objs'[d] = objs[d]
  BY DEF TypeOK, PutAt, q
<1>4. objs' \in [Cms -> Seq(Objects)]
  BY <1>2 DEF TypeOK, PutAt, q
<1> QED
  BY <1>2, <1>3, <1>4

LEMMA KeyRemoved ==
    ASSUME TypeOK, NEW s \in Sources, NEW c \in Cms, NEW i \in DOMAIN objs[c],
           objs' = [objs EXCEPT ![c][i].data[s] = None]
    PROVE  /\ objs' \in [Cms -> Seq(Objects)]
           /\ \A d \in Cms : DOMAIN objs'[d] = DOMAIN objs[d] /\ Len(objs'[d]) = Len(objs[d])
           /\ \A d \in Cms : \A j \in DOMAIN objs[d] :
                 d # c \/ j # i => objs'[d][j] = objs[d][j]
           /\ objs'[c][i].rv = objs[c][i].rv
           /\ objs'[c][i].prepared = objs[c][i].prepared
           /\ objs'[c][i].data[s] = None
           /\ \A t \in Sources \ {s} : objs'[c][i].data[t] = objs[c][i].data[t]
<1>1. objs[c][i] \in Objects
  BY CachedTypes
<1>2. PICK o \in Objects :
        /\ PutAt(c, i, o)
        /\ o.rv = objs[c][i].rv /\ o.prepared = objs[c][i].prepared
        /\ o.data[s] = None /\ \A t \in Sources \ {s} : o.data[t] = objs[c][i].data[t]
  <2> DEFINE o == [objs[c][i] EXCEPT !.data = [@ EXCEPT ![s] = None]]
  <2>1. /\ o \in Objects /\ o.rv = objs[c][i].rv /\ o.prepared = objs[c][i].prepared
        /\ o.data[s] = None /\ \A t \in Sources \ {s} : o.data[t] = objs[c][i].data[t]
    BY <1>1 DEF Objects, Data, Rules
  <2>2. PutAt(c, i, o)
    BY DEF TypeOK, PutAt
  <2> QED
    BY <2>1, <2>2
<1>3. /\ objs' \in [Cms -> Seq(Objects)] /\ objs'[c][i] = o
      /\ \A d \in Cms : DOMAIN objs'[d] = DOMAIN objs[d] /\ Len(objs'[d]) = Len(objs[d])
      /\ \A d \in Cms : \A j \in DOMAIN objs[d] :
            d # c \/ j # i => objs'[d][j] = objs[d][j]
  BY <1>2, InPlace
<1> QED
  BY <1>2, <1>3

LEMMA RemoveKeyTypes ==
    ASSUME TypeOK, ControlInv, NEW s \in Sources, RemoveKey(s)
    PROVE  TypeOK' /\ ControlInv'
<1>1. PICK p \in left[s] : /\ objs' = [objs EXCEPT ![p.cm][p.at].data[s] = None]
                           /\ got' = [got EXCEPT ![s] = p]
  BY DEF RemoveKey
<1>2. /\ pc[s] = "visit" /\ pc' = [pc EXCEPT ![s] = "send"] /\ SourceOK(s)
      /\ UNCHANGED <<users, cluster, left, lock, watcher, handler>>
  BY DEF RemoveKey, TypeOK
<1>3. p.cm \in Cms /\ p.at \in DOMAIN objs[p.cm]
  BY <1>2 DEF SourceOK
<1>4. /\ objs' \in [Cms -> Seq(Objects)]
      /\ \A d \in Cms : DOMAIN objs'[d] = DOMAIN objs[d]
  BY <1>1, <1>3, KeyRemoved
<1>5. /\ pc' \in [Sources -> {"idle", "lock", "get", "put", "scan", "visit", "send"}]
      /\ pc'[s] = "send" /\ \A t \in Sources \ {s} : pc'[t] = pc[t]
  BY <1>2 DEF TypeOK
<1>6. /\ DOMAIN got' = Sources /\ got'[s] = p
      /\ \A t \in Sources \ {s} : got'[t] = got[t]
  BY <1>1 DEF TypeOK
<1>7. SourceOK(s)'
  BY <1>2, <1>4, <1>5, <1>6 DEF SourceOK
<1>8. \A t \in Sources : pc'[t] \in {"get", "put"} => lock'[Kind[t]][want[t].cm] = t
  BY <1>2, <1>5 DEF ControlInv
<1>9. want[s] = None
  BY <1>2 DEF ControlInv
<1>10. ClusterOK'
  BY <1>2 DEF TypeOK, ClusterOK, cluster
<1> QED
  BY <1>2, <1>4, <1>5, <1>6, <1>7, <1>8, <1>9, <1>10, SourceStepTypes
  DEF TypeOK, users, watcher, handler

(* What a removal sends: the cached object, as it is.                      *)
LEMMA RemoveSends ==
    ASSUME TypeOK, NEW s \in Sources, RemoveSend(s)
    PROVE  /\ pc[s] = "send" /\ got[s] \in left[s]
           /\ got[s].cm \in Cms /\ got[s].at \in DOMAIN objs[got[s].cm]
           /\ \/ /\ UNCHANGED cluster
                 /\ \/ got[s].cm \notin exists \/ Target(got[s]).rv # server[got[s].cm].rv
                    \/ Target(got[s]).data = server[got[s].cm].data
              \/ /\ Stored(got[s].cm) /\ got[s].cm \in exists
                 /\ Target(got[s]).rv = server[got[s].cm].rv
                 /\ server'[got[s].cm].prepared = Target(got[s]).prepared
                 /\ server'[got[s].cm].data = Target(got[s]).data
<1> DEFINE c == got[s].cm
           o == Target(got[s])
<1>1. pc[s] = "send" /\ got[s] \in left[s] /\ c \in Cms /\ got[s].at \in DOMAIN objs[c]
  BY DEF RemoveSend, TypeOK, SourceOK
<1>2. o \in Objects /\ o.data \in Data /\ o.prepared \in BOOLEAN
  BY <1>1, CachedTypes DEF Target
<1>3. Update(c, o.rv, o.data, o.prepared)
  BY DEF RemoveSend
<1> HIDE DEF o
<1>4. CASE /\ c \in exists /\ o.rv = server[c].rv
           /\ <<o.data, o.prepared>> # <<server[c].data, server[c].prepared>>
  <2>1. Store(c, o.data, o.prepared)
    BY <1>3, <1>4 DEF Update
  <2> QED
    BY <1>1, <1>2, <1>4, <2>1, StoreStores DEF o
<1>5. CASE ~(/\ c \in exists /\ o.rv = server[c].rv
             /\ <<o.data, o.prepared>> # <<server[c].data, server[c].prepared>>)
  BY <1>1, <1>3, <1>5 DEF Update, o
<1> QED
  BY <1>4, <1>5

LEMMA RemoveNextTypes ==
    ASSUME TypeOK, ControlInv, NEW s \in Sources, pc[s] = "send", RemoveNext(s), ClusterOK'
    PROVE  TypeOK' /\ ControlInv'
<1>1. /\ left' = [left EXCEPT ![s] = @ \ {got[s]}] /\ got' = [got EXCEPT ![s] = None]
      /\ pc' = [pc EXCEPT ![s] = IF left[s] = {got[s]} THEN "idle" ELSE "visit"]
      /\ UNCHANGED <<users, lock, objs, watcher, handler>> /\ SourceOK(s)
  BY DEF RemoveNext, TypeOK
<1>2. /\ pc' \in [Sources -> {"idle", "lock", "get", "put", "scan", "visit", "send"}]
      /\ pc'[s] \in {"idle", "visit"} /\ \A t \in Sources \ {s} : pc'[t] = pc[t]
  BY <1>1 DEF TypeOK
<1>3. /\ DOMAIN got' = Sources /\ got'[s] = None
      /\ \A t \in Sources \ {s} : got'[t] = got[t]
  BY <1>1 DEF TypeOK
<1>4. /\ DOMAIN left' = Sources /\ left'[s] \subseteq left[s]
      /\ \A t \in Sources \ {s} : left'[t] = left[t]
  BY <1>1 DEF TypeOK
<1>5. SourceOK(s)'
  BY <1>1, <1>2, <1>3, <1>4 DEF SourceOK
<1>6. \A t \in Sources : pc'[t] \in {"get", "put"} => lock'[Kind[t]][want[t].cm] = t
  BY <1>1, <1>2 DEF ControlInv
<1>7. want[s] = None
  BY DEF ControlInv
<1>8. objs' \in [Cms -> Seq(Objects)]
  BY <1>1 DEF TypeOK
<1> QED
  BY <1>1, <1>2, <1>3, <1>4, <1>5, <1>6, <1>7, <1>8, SourceStepTypes
  DEF TypeOK, users, watcher, handler

LEMMA RemoveSendTypes ==
    ASSUME TypeOK, ControlInv, NEW s \in Sources, RemoveSend(s) \/ RemoveFails(s)
    PROVE  TypeOK' /\ ControlInv'
<1>1. pc[s] = "send" /\ RemoveNext(s)
  BY DEF RemoveSend, RemoveFails
<1>2. UNCHANGED cluster \/ \E c \in Cms : Stored(c)
  BY RemoveSends DEF RemoveFails
<1> QED
  BY <1>1, <1>2, StoredTypes, RemoveNextTypes

(* The watcher and the handlers.                                           *)
HandlerOK ==
    /\ event \in Events \cup {None}
    /\ passes \in 0 .. 2
    /\ leading \in BOOLEAN
    /\ \A p \in replay : p.cm \in Cms /\ p.at \in DOMAIN objs[p.cm]
    /\ prep \in [Workers -> {"idle", "get", "prepare", "put"}]
    /\ DOMAIN prepGot = Workers
    /\ prepGot["watch"] \in Objects \cup {None}
    /\ prep["register"] \in {"prepare", "put"} =>
           prepGot["register"] \in [to : replay, obj : Objects \cup {None}]
    /\ event # None => passes > 0
    /\ prep["watch"] \in {"prepare", "put"} => event # None

LEMMA HandlerTypes ==
    ASSUME TypeOK, ControlInv
    PROVE  HandlerOK
  BY DEF TypeOK, ControlInv, HandlerOK

LEMMA OtherStepTypes ==
    ASSUME TypeOK, ControlInv,
           UNCHANGED <<want, pc, got, left, lock>>,
           changes' \in 0 .. MaxChanges, deletes' \in 0 .. MaxDeletes,
           ClusterOK', HandlerOK',
           objs' \in [Cms -> Seq(Objects)],
           \A c \in Cms : DOMAIN objs[c] \subseteq DOMAIN objs'[c]
    PROVE  TypeOK' /\ ControlInv'
<1>1. ASSUME NEW t \in Sources
      PROVE  SourceOK(t)'
  BY OtherSource DEF TypeOK
<1>2. TypeOK'
  BY <1>1 DEF TypeOK, ClusterOK, HandlerOK
<1>3. ControlInv'
  BY DEF ControlInv, HandlerOK
<1> QED
  BY <1>2, <1>3

LEMMA UserDeleteTypes ==
    ASSUME TypeOK, ControlInv, NEW c \in Cms, UserDelete(c)
    PROVE  TypeOK' /\ ControlInv'
<1> DEFINE gone == [rv |-> server[c].rv + 1, data |-> NoRules, prepared |-> FALSE]
           e == [type |-> "DELETED", cm |-> c, obj |-> server[c]]
<1>1. server[c] \in Objects /\ gone \in Objects
  BY DEF TypeOK, Objects, NoRules, Data, Rules
<1>2. e \in Events
  BY <1>1 DEF Events
<1>3. /\ server' = [server EXCEPT ![c] = gone] /\ feed' = Append(feed, e)
      /\ exists' = exists \ {c} /\ deletes < MaxDeletes /\ deletes' = deletes + 1
      /\ UNCHANGED <<gaveUp, changes, want, sources, objs, watcher, handler>>
  BY DEF UserDelete
<1> HIDE DEF gone, e
<1>4. feed' \in Seq(Events)
  BY <1>2, <1>3, AppendProperties DEF TypeOK
<1>5. ClusterOK'
  BY <1>1, <1>3, <1>4 DEF TypeOK, ClusterOK
<1>6. deletes' \in 0 .. MaxDeletes
  BY <1>3, BoundAssumption DEF TypeOK
<1>7. HandlerOK'
  BY <1>3, HandlerTypes DEF HandlerOK, watcher, handler
<1> QED
  BY <1>3, <1>5, <1>6, <1>7, OtherStepTypes DEF TypeOK, sources

LEMMA UserChangeTypes ==
    ASSUME TypeOK, ControlInv, NEW s \in Sources, UserChange(s)
    PROVE  TypeOK' /\ ControlInv'
<1>1. PICK w \in Wants \cup {None} :
         /\ want' = [want EXCEPT ![s] = w]
         /\ pc' = [pc EXCEPT ![s] = IF w = None THEN "scan" ELSE "lock"]
  BY DEF UserChange
<1>2. /\ changes < MaxChanges /\ changes' = changes + 1 /\ pc[s] = "idle"
      /\ UNCHANGED <<deletes, cluster, got, left, lock, objs, watcher, handler>>
  BY DEF UserChange
<1>3. /\ want' \in [Sources -> Wants \cup {None}] /\ want'[s] = w
      /\ \A t \in Sources \ {s} : want'[t] = want[t]
  BY <1>1 DEF TypeOK
<1>4. /\ pc' \in [Sources -> {"idle", "lock", "get", "put", "scan", "visit", "send"}]
      /\ pc'[s] \in {"scan", "lock"} /\ (pc'[s] = "scan" <=> w = None)
      /\ \A t \in Sources \ {s} : pc'[t] = pc[t]
  BY <1>1 DEF TypeOK
<1>5. SourceOK(s)'
  BY <1>2, <1>3, <1>4 DEF TypeOK, SourceOK
<1>6. ASSUME NEW t \in Sources
      PROVE  SourceOK(t)'
  <2>1. CASE t = s
    BY <1>5, <2>1
  <2>2. CASE t # s
    <3>1. SourceOK(t) /\ pc'[t] = pc[t] /\ want'[t] = want[t]
      BY <1>3, <1>4, <2>2 DEF TypeOK
    <3> QED
      BY <1>2, <3>1, OtherSource
  <2> QED
    BY <2>1, <2>2
<1>7. changes' \in 0 .. MaxChanges
  BY <1>2, BoundAssumption DEF TypeOK
<1>8. TypeOK'
  BY <1>2, <1>3, <1>4, <1>6, <1>7 DEF TypeOK, cluster, watcher, handler
<1>9. ControlInv'
  BY <1>2, <1>3, <1>4 DEF ControlInv, watcher, handler
<1> QED
  BY <1>8, <1>9

(* The cache only grows at the end, and only for the event's ConfigMap.    *)
Cache(c, o) == objs' = [objs EXCEPT ![c] = Append(@, o)]

LEMMA CacheGrows ==
    ASSUME TypeOK, NEW c \in Cms, NEW o \in Objects, Cache(c, o)
    PROVE  /\ objs' \in [Cms -> Seq(Objects)]
           /\ \A d \in Cms : DOMAIN objs[d] \subseteq DOMAIN objs'[d]
           /\ \A d \in Cms \ {c} : objs'[d] = objs[d]
           /\ DOMAIN objs'[c] = DOMAIN objs[c] \cup {Len(objs[c]) + 1}
           /\ Len(objs'[c]) = Len(objs[c]) + 1
           /\ objs'[c][Len(objs[c]) + 1] = o
           /\ \A i \in DOMAIN objs[c] : objs'[c][i] = objs[c][i]
<1>1. objs[c] \in Seq(Objects) /\ DOMAIN objs[c] = 1 .. Len(objs[c]) /\ Len(objs[c]) \in Nat
  BY LenProperties DEF TypeOK
<1> DEFINE q == Append(objs[c], o)
<1>2. /\ q \in Seq(Objects) /\ Len(q) = Len(objs[c]) + 1 /\ q[Len(objs[c]) + 1] = o
      /\ \A i \in 1 .. Len(objs[c]) : q[i] = objs[c][i]
  BY <1>1, AppendProperties
<1>3. DOMAIN q = 1 .. Len(objs[c]) + 1
  BY <1>1, <1>2, LenProperties
<1> HIDE DEF q
<1>4. objs'[c] = q /\ \A d \in Cms \ {c} : objs'[d] = objs[d]
  BY DEF TypeOK, Cache, q
<1>5. objs' \in [Cms -> Seq(Objects)]
  BY <1>2 DEF TypeOK, Cache, q
<1>6. DOMAIN q = DOMAIN objs[c] \cup {Len(objs[c]) + 1}
  BY <1>1, <1>3
<1> QED
  BY <1>1, <1>2, <1>4, <1>5, <1>6

(* What the watcher does with an event that is not a delete.               *)
LEMMA ObserveUpserts ==
    ASSUME TypeOK, ObserveUpsert
    PROVE  \E c \in Cms, o \in Objects :
             /\ c = feed[1].cm /\ o = feed[1].obj /\ feed[1].type # "DELETED"
             /\ feed # <<>> /\ feed' = Tail(feed)
             /\ \/ Cache(c, o)
                \/ objs' = objs /\ Cached(c) /\ SameContent(Current(c), o)
<1>1. /\ feed # <<>> /\ Head(feed).type # "DELETED" /\ feed' = Tail(feed)
      /\ \/ objs' = [objs EXCEPT ![Head(feed).cm] = Append(@, Head(feed).obj)]
         \/ /\ objs' = objs /\ Cached(Head(feed).cm)
            /\ SameContent(Current(Head(feed).cm), Head(feed).obj)
  BY DEF ObserveUpsert
<1>2. Head(feed) = feed[1] /\ Head(feed).cm \in Cms /\ Head(feed).obj \in Objects
  BY <1>1, FeedShrinks
<1> QED
  BY <1>1, <1>2 DEF Cache

LEMMA ObserveTypes ==
    ASSUME TypeOK, ControlInv, Observe
    PROVE  TypeOK' /\ ControlInv'
<1>1. /\ feed # <<>> /\ feed' = Tail(feed)
      /\ UNCHANGED <<server, exists, gaveUp, users, sources, handler>>
  BY DEF Observe, ObserveUpsert, ObserveDelete
<1>2. ClusterOK'
  BY <1>1, FeedShrinks DEF TypeOK, ClusterOK
<1>3. objs' \in [Cms -> Seq(Objects)] /\ \A c \in Cms : DOMAIN objs[c] \subseteq DOMAIN objs'[c]
  <2>1. CASE ObserveUpsert
    <3>1. PICK c \in Cms, o \in Objects : Cache(c, o) \/ objs' = objs
      BY <2>1, ObserveUpserts
    <3> QED
      BY <3>1, CacheGrows DEF TypeOK
  <2>2. CASE ObserveDelete
    BY <2>2 DEF ObserveDelete, TypeOK
  <2> QED
    BY <2>1, <2>2 DEF Observe
<1>4. event = None /\ event' \in Events \cup {None} /\ passes' \in 0 .. 2
      /\ (event' # None => passes' > 0)
  BY <1>1, FeedShrinks DEF Observe, ObserveUpsert, ObserveDelete, TypeOK, watcher
<1>5. HandlerOK'
  BY <1>1, <1>3, <1>4, HandlerTypes DEF HandlerOK, handler
<1> QED
  BY <1>1, <1>2, <1>3, <1>5, OtherStepTypes DEF TypeOK, users, sources

LEMMA PassDoneTypes ==
    ASSUME TypeOK, ControlInv, event # None, PassDone
    PROVE  /\ passes' \in 0 .. 2 /\ event' \in {event, None}
           /\ event' # None => passes' > 0
  BY DEF TypeOK, ControlInv, PassDone

LEMMA PassSkipTypes ==
    ASSUME TypeOK, ControlInv, PassSkip
    PROVE  TypeOK' /\ ControlInv'
<1>1. /\ event # None /\ prep["watch"] = "idle" /\ PassDone
      /\ UNCHANGED <<cluster, users, sources, objs, handler>>
  BY DEF PassSkip
<1>2. HandlerOK'
  BY <1>1, PassDoneTypes, HandlerTypes DEF HandlerOK, handler
<1> QED
  BY <1>1, <1>2, OtherStepTypes DEF TypeOK, ClusterOK, cluster, users, sources

LEMMA LeadTypes ==
    ASSUME TypeOK, ControlInv, Lead
    PROVE  TypeOK' /\ ControlInv'
<1>1. /\ prep' = [prep EXCEPT !["register"] = "get"]
      /\ UNCHANGED <<cluster, users, sources, objs, watcher, replay, prepGot>>
  BY DEF Lead
<1>2. leading' \in BOOLEAN
  BY Zenon DEF Lead
<1>3. /\ prep' \in [Workers -> {"idle", "get", "prepare", "put"}]
      /\ prep'["watch"] = prep["watch"] /\ prep'["register"] = "get"
  BY <1>1 DEF TypeOK, Workers
<1>4. HandlerOK'
  BY <1>1, <1>2, <1>3, HandlerTypes DEF HandlerOK, watcher
<1> QED
  BY <1>1, <1>4, OtherStepTypes DEF TypeOK, ClusterOK, cluster, users, sources

LEMMA RegisterGetTypes ==
    ASSUME TypeOK, ControlInv, RegisterGet
    PROVE  TypeOK' /\ ControlInv'
<1>1. /\ replay' = Get
      /\ prep' = [prep EXCEPT !["register"] = "idle"]
      /\ UNCHANGED <<cluster, users, sources, objs, watcher, leading, prepGot>>
  BY DEF RegisterGet
<1>2. \A p \in replay' : p.cm \in Cms /\ p.at \in DOMAIN objs'[p.cm]
  BY <1>1, GetTypes
<1>3. /\ prep' \in [Workers -> {"idle", "get", "prepare", "put"}]
      /\ prep'["watch"] = prep["watch"] /\ prep'["register"] = "idle"
  BY <1>1 DEF TypeOK, Workers
<1>4. HandlerOK'
  BY <1>1, <1>2, <1>3, HandlerTypes DEF HandlerOK, watcher
<1> QED
  BY <1>1, <1>4, OtherStepTypes DEF TypeOK, ClusterOK, cluster, users, sources

LEMMA PrepEventTypes ==
    ASSUME TypeOK, ControlInv, PrepEvent
    PROVE  TypeOK' /\ ControlInv'
<1>1. /\ event # None /\ prep' = [prep EXCEPT !["watch"] = "prepare"]
      /\ UNCHANGED <<cluster, users, sources, objs, watcher, leading, replay, prepGot>>
  BY DEF PrepEvent
<1>2. /\ prep' \in [Workers -> {"idle", "get", "prepare", "put"}]
      /\ prep'["register"] = prep["register"]
  BY <1>1 DEF TypeOK, Workers
<1>3. HandlerOK'
  BY <1>1, <1>2, HandlerTypes DEF HandlerOK, watcher
<1> QED
  BY <1>1, <1>3, OtherStepTypes DEF TypeOK, ClusterOK, cluster, users, sources

LEMMA PrepCachedTypes ==
    ASSUME TypeOK, ControlInv, PrepCached
    PROVE  TypeOK' /\ ControlInv'
<1>1. PICK p \in replay :
         prepGot' = [prepGot EXCEPT !["register"] = [to |-> p, obj |-> None]]
  BY DEF PrepCached
<1>2. /\ prep' = [prep EXCEPT !["register"] = "prepare"]
      /\ UNCHANGED <<cluster, users, sources, objs, watcher, leading, replay>>
  BY DEF PrepCached
<1>3. /\ prep' \in [Workers -> {"idle", "get", "prepare", "put"}]
      /\ prep'["watch"] = prep["watch"]
  BY <1>2 DEF TypeOK, Workers
<1>4. /\ DOMAIN prepGot' = Workers /\ prepGot'["watch"] = prepGot["watch"]
      /\ prepGot'["register"] \in [to : replay, obj : Objects \cup {None}]
  BY <1>1 DEF TypeOK, Workers
<1>5. HandlerOK'
  BY <1>2, <1>3, <1>4, HandlerTypes DEF HandlerOK, watcher
<1> QED
  BY <1>2, <1>5, OtherStepTypes DEF TypeOK, ClusterOK, cluster, users, sources

LEMMA PrepGetEventTypes ==
    ASSUME TypeOK, ControlInv, PrepGetEvent
    PROVE  TypeOK' /\ ControlInv'
<1>1. /\ event # None /\ prep["watch"] = "prepare"
      /\ prep' = [prep EXCEPT !["watch"] = "put"]
      /\ prepGot' = [prepGot EXCEPT !["watch"] = Fetch(event.cm)]
      /\ UNCHANGED <<cluster, users, sources, objs, watcher, leading, replay>>
  BY DEF PrepGetEvent, ControlInv
<1>2. event.cm \in Cms
  BY <1>1 DEF TypeOK, Events
<1>3. Fetch(event.cm) \in Objects \cup {None}
  BY <1>2, FetchTypes
<1>4. /\ prep' \in [Workers -> {"idle", "get", "prepare", "put"}]
      /\ DOMAIN prepGot' = Workers
      /\ prepGot'["watch"] = Fetch(event.cm) /\ prepGot'["register"] = prepGot["register"]
      /\ prep'["register"] = prep["register"]
  BY <1>1 DEF TypeOK, Workers
<1>5. HandlerOK'
  BY <1>1, <1>3, <1>4, HandlerTypes DEF HandlerOK, watcher
<1> QED
  BY <1>1, <1>5, OtherStepTypes DEF TypeOK, ClusterOK, cluster, users, sources

(* Register sets the id in the cached object.                              *)
LEMMA IdSet ==
    ASSUME TypeOK, NEW c \in Cms, NEW i \in DOMAIN objs[c],
           objs' = [objs EXCEPT ![c][i].prepared = TRUE]
    PROVE  /\ objs' \in [Cms -> Seq(Objects)]
           /\ \A d \in Cms : DOMAIN objs'[d] = DOMAIN objs[d] /\ Len(objs'[d]) = Len(objs[d])
           /\ \A d \in Cms : \A j \in DOMAIN objs[d] :
                 d # c \/ j # i => objs'[d][j] = objs[d][j]
           /\ objs'[c][i].rv = objs[c][i].rv
           /\ objs'[c][i].prepared
           /\ objs'[c][i].data = objs[c][i].data
<1>1. objs[c][i] \in Objects
  BY CachedTypes
<1>2. PICK o \in Objects : /\ PutAt(c, i, o)
                           /\ o.rv = objs[c][i].rv /\ o.prepared /\ o.data = objs[c][i].data
  <2> DEFINE o == [objs[c][i] EXCEPT !.prepared = TRUE]
  <2>1. o \in Objects /\ o.rv = objs[c][i].rv /\ o.prepared /\ o.data = objs[c][i].data
    BY <1>1 DEF Objects
  <2>2. PutAt(c, i, o)
    BY DEF TypeOK, PutAt
  <2> QED
    BY <2>1, <2>2
<1>3. /\ objs' \in [Cms -> Seq(Objects)] /\ objs'[c][i] = o
      /\ \A d \in Cms : DOMAIN objs'[d] = DOMAIN objs[d] /\ Len(objs'[d]) = Len(objs[d])
      /\ \A d \in Cms : \A j \in DOMAIN objs[d] :
            d # c \/ j # i => objs'[d][j] = objs[d][j]
  BY <1>2, InPlace
<1> QED
  BY <1>2, <1>3

LEMMA PrepGetsCached ==
    ASSUME TypeOK, PrepGetCached
    PROVE  \E p \in replay :
             /\ p.cm \in Cms /\ p.at \in DOMAIN objs[p.cm]
             /\ objs' = [objs EXCEPT ![p.cm][p.at].prepared = TRUE]
             /\ prepGot'["register"] = [to |-> p, obj |-> Fetch(p.cm)]
             /\ prepGot'["watch"] = prepGot["watch"] /\ DOMAIN prepGot' = Workers
<1> DEFINE p == prepGot["register"].to
<1>1. /\ prepGot["register"] \in [to : replay, obj : Objects \cup {None}]
      /\ objs' = [objs EXCEPT ![p.cm][p.at].prepared = TRUE]
      /\ prepGot' = [prepGot EXCEPT !["register"].obj = Fetch(p.cm)]
  BY DEF PrepGetCached, TypeOK
<1>2. p \in replay /\ p.cm \in Cms /\ p.at \in DOMAIN objs[p.cm]
  BY <1>1 DEF TypeOK
<1>3. /\ prepGot'["register"] = [to |-> p, obj |-> Fetch(p.cm)]
      /\ prepGot'["watch"] = prepGot["watch"] /\ DOMAIN prepGot' = Workers
  BY <1>1 DEF TypeOK, Workers
<1> QED
  BY <1>1, <1>2, <1>3

LEMMA PrepGetCachedTypes ==
    ASSUME TypeOK, ControlInv, PrepGetCached
    PROVE  TypeOK' /\ ControlInv'
<1>1. /\ prep' = [prep EXCEPT !["register"] = "put"]
      /\ UNCHANGED <<cluster, users, sources, watcher, leading, replay>>
  BY DEF PrepGetCached
<1>2. PICK p \in replay :
         /\ p.cm \in Cms /\ p.at \in DOMAIN objs[p.cm]
         /\ objs' = [objs EXCEPT ![p.cm][p.at].prepared = TRUE]
         /\ prepGot'["register"] = [to |-> p, obj |-> Fetch(p.cm)]
         /\ prepGot'["watch"] = prepGot["watch"] /\ DOMAIN prepGot' = Workers
  BY PrepGetsCached
<1>3. objs' \in [Cms -> Seq(Objects)] /\ \A d \in Cms : DOMAIN objs'[d] = DOMAIN objs[d]
  BY <1>2, IdSet
<1>4. prepGot'["register"] \in [to : replay, obj : Objects \cup {None}]
  BY <1>2, FetchTypes
<1>5. /\ prep' \in [Workers -> {"idle", "get", "prepare", "put"}]
      /\ prep'["watch"] = prep["watch"]
  BY <1>1 DEF TypeOK, Workers
<1>6. HandlerOK'
  BY <1>1, <1>2, <1>3, <1>4, <1>5, HandlerTypes DEF HandlerOK, watcher
<1> QED
  BY <1>1, <1>3, <1>6, OtherStepTypes DEF TypeOK, ClusterOK, cluster, users, sources

(* What a write-back sends: the Data at hand over what was read.           *)
LEMMA WritesBack ==
    ASSUME TypeOK, NEW c \in Cms, NEW read \in Objects \cup {None}, NEW data \in Data,
           WriteBack(c, read, data)
    PROVE  \/ UNCHANGED cluster
           \/ /\ Stored(c) /\ c \in exists /\ read # None /\ read \in Objects
              /\ read.rv = server[c].rv
              /\ server'[c].prepared
              /\ \A s \in Sources : server'[c].data[s] \in {data[s], read.data[s]}
<1>1. CASE read = None \/ server[c].rv >= MaxRev
  BY <1>1 DEF WriteBack
<1>2. CASE ~ (read = None \/ server[c].rv >= MaxRev)
  <2> DEFINE both == Merge(read.data, data)
  <2>1. read \in Objects /\ read.data \in Data
    BY <1>2 DEF Objects
  <2>2. both \in Data /\ \A s \in Sources : both[s] \in {data[s], read.data[s]}
    BY <2>1 DEF Merge, Data
  <2>3. Update(c, read.rv, both, TRUE)
    BY <1>2 DEF WriteBack
  <2> HIDE DEF both
  <2>4. PICK b \in BOOLEAN : b /\ Update(c, read.rv, both, b)
    BY <2>3
  <2>5. UNCHANGED cluster \/ (c \in exists /\ read.rv = server[c].rv /\ Store(c, both, b))
    BY <2>4 DEF Update
  <2> QED
    BY <1>2, <2>1, <2>2, <2>4, <2>5, StoreStores
<1> QED
  BY <1>1, <1>2

(* Whatever a worker has written, or failed to write, it is done.          *)
LEMMA EventDoneTypes ==
    ASSUME TypeOK, ControlInv, event # None, EventDone, ClusterOK'
    PROVE  TypeOK' /\ ControlInv'
<1>1. /\ prep' = [prep EXCEPT !["watch"] = "idle"]
      /\ prepGot' = [prepGot EXCEPT !["watch"] = None]
      /\ PassDone
      /\ UNCHANGED <<users, sources, objs, leading, replay>>
  BY DEF EventDone
<1>2. /\ prep' \in [Workers -> {"idle", "get", "prepare", "put"}]
      /\ DOMAIN prepGot' = Workers
      /\ prepGot'["watch"] = None /\ prepGot'["register"] = prepGot["register"]
      /\ prep'["register"] = prep["register"] /\ prep'["watch"] = "idle"
  BY <1>1 DEF TypeOK, Workers
<1>3. HandlerOK'
  BY <1>1, <1>2, PassDoneTypes, HandlerTypes DEF HandlerOK
<1> QED
  BY <1>1, <1>3, OtherStepTypes DEF TypeOK, users, sources

LEMMA CachedDoneTypes ==
    ASSUME TypeOK, ControlInv, CachedDone, ClusterOK'
    PROVE  TypeOK' /\ ControlInv'
<1>1. /\ replay' = replay \ {prepGot["register"].to}
      /\ prep' = [prep EXCEPT !["register"] = "idle"]
      /\ prepGot' = [prepGot EXCEPT !["register"] = None]
      /\ UNCHANGED <<users, sources, objs, watcher, leading>>
  BY DEF CachedDone
<1>2. /\ prep' \in [Workers -> {"idle", "get", "prepare", "put"}]
      /\ DOMAIN prepGot' = Workers
      /\ prepGot'["watch"] = prepGot["watch"]
      /\ prep'["register"] = "idle" /\ prep'["watch"] = prep["watch"]
  BY <1>1 DEF TypeOK, Workers
<1>3. HandlerOK'
  BY <1>1, <1>2, HandlerTypes DEF HandlerOK, watcher
<1> QED
  BY <1>1, <1>3, OtherStepTypes DEF TypeOK, users, sources

(* What the two workers have at hand when they write or give up.           *)
LEMMA EventAtHand ==
    ASSUME TypeOK, ControlInv, prep["watch"] \in {"prepare", "put"}
    PROVE  /\ event # None /\ event.cm \in Cms /\ event.obj.data \in Data
           /\ prepGot["watch"] \in Objects \cup {None}
  BY DEF TypeOK, ControlInv, Events, Objects

LEMMA CachedAtHand ==
    ASSUME TypeOK, prep["register"] \in {"prepare", "put"}
    PROVE  LET p == prepGot["register"].to
           IN  /\ p.cm \in Cms /\ p.at \in DOMAIN objs[p.cm] /\ Target(p).data \in Data
               /\ prepGot["register"].obj \in Objects \cup {None}
<1> DEFINE p == prepGot["register"].to
<1>1. prepGot["register"] \in [to : replay, obj : Objects \cup {None}]
  BY DEF TypeOK
<1>2. p.cm \in Cms /\ p.at \in DOMAIN objs[p.cm]
  BY <1>1 DEF TypeOK
<1>3. Target(p).data \in Data
  BY <1>2, CachedTypes DEF Target
<1> QED
  BY <1>1, <1>2, <1>3

LEMMA PrepPutEventTypes ==
    ASSUME TypeOK, ControlInv, PrepPutEvent \/ PrepFailsEvent
    PROVE  TypeOK' /\ ControlInv'
<1>1. event # None /\ event.cm \in Cms /\ EventDone
  BY EventAtHand DEF PrepPutEvent, PrepFailsEvent
<1>2. ClusterOK'
  <2>1. CASE PrepPutEvent
    <3>1. UNCHANGED cluster \/ Stored(event.cm)
      BY <2>1, EventAtHand, WritesBack DEF PrepPutEvent
    <3> QED
      BY <1>1, <3>1, StoredTypes
  <2>2. CASE PrepFailsEvent
    BY <1>1, <2>2 DEF PrepFailsEvent, GiveUp, TypeOK, ClusterOK
  <2> QED
    BY <2>1, <2>2
<1> QED
  BY <1>1, <1>2, EventDoneTypes

LEMMA PrepPutCachedTypes ==
    ASSUME TypeOK, ControlInv, PrepPutCached \/ PrepFailsCached
    PROVE  TypeOK' /\ ControlInv'
<1> DEFINE p == prepGot["register"].to
<1>1. p.cm \in Cms /\ CachedDone
  BY CachedAtHand DEF PrepPutCached, PrepFailsCached
<1>2. ClusterOK'
  <2>1. CASE PrepPutCached
    <3>1. UNCHANGED cluster \/ Stored(p.cm)
      BY <2>1, CachedAtHand, WritesBack DEF PrepPutCached
    <3> QED
      BY <1>1, <3>1, StoredTypes
  <2>2. CASE PrepFailsCached
    BY <1>1, <2>2 DEF PrepFailsCached, GiveUp, TypeOK, ClusterOK
  <2> QED
    BY <2>1, <2>2
<1> QED
  BY <1>1, <1>2, CachedDoneTypes

LEMMA NextTypes ==
    ASSUME TypeOK, ControlInv, [Next]_vars
    PROVE  TypeOK' /\ ControlInv'
<1>1. CASE UNCHANGED vars
  BY <1>1 DEF vars, TypeOK, ControlInv, SourceOK
<1>2. ASSUME NEW s \in Sources, Source(s)
      PROVE  TypeOK' /\ ControlInv'
  BY <1>2, UpsertLockTypes, UpsertGetTypes, UpsertPutTypes, RemoveScanTypes, RemoveKeyTypes,
     RemoveSendTypes DEF Source
<1>3. CASE Pass
  BY <1>3, PassSkipTypes, PrepEventTypes, PrepPutEventTypes DEF Pass
<1>4. CASE Replay
  BY <1>4, RegisterGetTypes, PrepCachedTypes, PrepPutCachedTypes DEF Replay
<1>5. CASE Routed
  BY <1>5, PrepGetEventTypes, PrepGetCachedTypes DEF Routed
<1> QED
  BY <1>1, <1>2, <1>3, <1>4, <1>5, UserChangeTypes, UserDeleteTypes, ObserveTypes, LeadTypes DEF Next

(***************************************************************************)
(* What a step does to each part.                                          *)
(***************************************************************************)
store == <<server, exists, feed>>

LEMMA ClusterSteps ==
    ASSUME TypeOK, ControlInv, [Next]_vars
    PROVE  \/ UNCHANGED store
           \/ \E c \in Cms : Stored(c) /\ objs' = objs
           \/ \E c \in Cms : UserDelete(c)
           \/ Observe
<1>1. CASE UNCHANGED vars
  BY <1>1 DEF vars, store
<1>2. ASSUME NEW s \in Sources, UserChange(s) \/ Source(s)
      PROVE  UNCHANGED cluster \/ \E c \in Cms : Stored(c) /\ objs' = objs
  <2>1. CASE UpsertPut(s)
    BY <2>1, UpsertSends DEF UpsertPut, UpsertDone
  <2>2. CASE RemoveSend(s)
    BY <2>2, RemoveSends DEF RemoveSend, RemoveNext
  <2>3. CASE ~ UpsertPut(s) /\ ~ RemoveSend(s)
    BY <1>2, <2>3 DEF Source, UserChange, UpsertLock, UpsertGet, UpsertFails, RemoveScan,
       RemoveKey, RemoveFails
  <2> QED
    BY <2>1, <2>2, <2>3
<1>3. CASE PrepPutEvent
  BY <1>3, EventAtHand, WritesBack DEF PrepPutEvent, EventDone, cluster, store
<1>4. CASE PrepPutCached
  BY <1>4, CachedAtHand, WritesBack DEF PrepPutCached, CachedDone, cluster, store
<1>5. CASE PrepFailsEvent \/ PrepFailsCached
  BY <1>5 DEF PrepFailsEvent, PrepFailsCached, GiveUp, store
<1>6. CASE Lead \/ PassSkip \/ RegisterGet \/ PrepEvent \/ PrepCached \/ Routed
  BY <1>6 DEF Lead, PassSkip, RegisterGet, PrepEvent, PrepCached, Routed, PrepGetEvent,
     PrepGetCached, cluster, store
<1>7. UNCHANGED cluster => UNCHANGED store
  BY DEF cluster, store
<1> QED
  BY <1>1, <1>2, <1>3, <1>4, <1>5, <1>6, <1>7 DEF Next, Pass, Replay

LEMMA CacheSteps ==
    ASSUME [Next]_vars
    PROVE  \/ objs' = objs
           \/ \E s \in Sources : RemoveKey(s)
           \/ PrepGetCached
           \/ ObserveUpsert
<1>1. CASE UNCHANGED vars
  BY <1>1 DEF vars
<1>2. ASSUME NEW s \in Sources, UserChange(s) \/ Source(s)
      PROVE  objs' = objs \/ RemoveKey(s)
  BY <1>2 DEF Source, UserChange, UpsertLock, UpsertGet, UpsertPut, UpsertFails, UpsertDone,
     RemoveScan, RemoveSend, RemoveFails, RemoveNext
<1>3. ASSUME NEW c \in Cms, UserDelete(c)
      PROVE  objs' = objs
  BY <1>3 DEF UserDelete
<1>4. CASE ObserveDelete \/ Lead \/ Pass \/ Replay \/ PrepGetEvent
  BY <1>4 DEF ObserveDelete, Lead, Pass, PassSkip, PrepEvent, PrepPutEvent, PrepFailsEvent,
     EventDone, Replay, RegisterGet, PrepCached, PrepPutCached, PrepFailsCached, CachedDone,
     PrepGetEvent
<1> QED
  BY <1>1, <1>2, <1>3, <1>4 DEF Next, Observe, Routed

(* A source writes what it read, and sends what it set out to send.        *)
LEMMA SourceSteps ==
    ASSUME TypeOK, [Next]_vars, NEW s \in Sources
    PROVE  /\ pc'[s] = "put" => UpsertGet(s) \/ (/\ pc[s] = "put"
                                                  /\ got'[s] = got[s] /\ want'[s] = want[s])
           /\ pc[s] = "send" => RemoveSend(s) \/ RemoveFails(s) \/ (/\ pc'[s] = "send"
                                                                    /\ got'[s] = got[s])
<1> DEFINE Stays == pc'[s] = pc[s] /\ got'[s] = got[s] /\ want'[s] = want[s]
<1>1. CASE UNCHANGED vars
  BY <1>1 DEF vars
<1>2. ASSUME NEW t \in Sources, t # s, UserChange(t) \/ Source(t)
      PROVE  Stays
  BY <1>2 DEF TypeOK, Source, UserChange, UpsertLock, UpsertGet, UpsertPut, UpsertFails,
     UpsertDone, RemoveScan, RemoveKey, RemoveSend, RemoveFails, RemoveNext, users
<1>3. CASE UserChange(s)
  BY <1>3 DEF TypeOK, UserChange
<1>4. CASE Source(s)
  BY <1>4 DEF TypeOK, Source, UpsertLock, UpsertGet, UpsertPut, UpsertFails,
     UpsertDone, RemoveScan, RemoveKey, RemoveSend, RemoveFails, RemoveNext, users
<1>5. ASSUME NEW c \in Cms, UserDelete(c)
      PROVE  Stays
  BY <1>5 DEF UserDelete, sources
<1>6. CASE Observe \/ Lead \/ Pass \/ Replay \/ Routed
  BY <1>6 DEF Observe, ObserveUpsert, ObserveDelete, Lead, Pass, PassSkip, PrepEvent,
     PrepPutEvent, PrepFailsEvent, EventDone, Replay, RegisterGet, PrepCached, PrepPutCached,
     PrepFailsCached, CachedDone, Routed, PrepGetEvent, PrepGetCached, users, sources
<1> QED
  BY <1>1, <1>2, <1>3, <1>4, <1>5, <1>6 DEF Next

LEMMA HandlerSteps ==
    ASSUME TypeOK, ControlInv, [Next]_vars
    PROVE  /\ prep'["watch"] = "put" =>
                PrepGetEvent \/ (/\ prep["watch"] = "put" /\ event' = event
                                 /\ prepGot'["watch"] = prepGot["watch"])
           /\ prep'["register"] = "put" =>
                PrepGetCached \/ (/\ prep["register"] = "put"
                                  /\ prepGot'["register"] = prepGot["register"])
<1>1. CASE UNCHANGED vars
  BY <1>1 DEF vars
<1>2. ASSUME NEW s \in Sources, UserChange(s) \/ Source(s)
      PROVE  UNCHANGED <<event, prep, prepGot>>
  BY <1>2 DEF Source, UserChange, UpsertLock, UpsertGet, UpsertPut, UpsertFails,
     UpsertDone, RemoveScan, RemoveKey, RemoveSend, RemoveFails, RemoveNext, watcher, handler
<1>3. ASSUME NEW c \in Cms, UserDelete(c)
      PROVE  UNCHANGED <<event, prep, prepGot>>
  BY <1>3 DEF UserDelete, watcher, handler
<1>4. CASE Observe
  BY <1>4 DEF ControlInv, Observe, ObserveUpsert, ObserveDelete, handler
<1>5. CASE Lead \/ PassSkip \/ RegisterGet \/ PrepEvent
  BY <1>5 DEF TypeOK, Workers, Lead, PassSkip, RegisterGet, PrepEvent, watcher, handler
<1>6. CASE PrepPutEvent \/ PrepFailsEvent
  BY <1>6 DEF TypeOK, Workers, PrepPutEvent, PrepFailsEvent, EventDone
<1>7. CASE PrepCached \/ PrepPutCached \/ PrepFailsCached
  BY <1>7 DEF TypeOK, Workers, PrepCached, PrepPutCached, PrepFailsCached, CachedDone, watcher
<1>8. CASE Routed
  BY <1>8 DEF TypeOK, Workers, Routed, PrepGetEvent, PrepGetCached, watcher
<1> QED
  BY <1>1, <1>2, <1>3, <1>4, <1>5, <1>6, <1>7, <1>8 DEF Next, Pass, Replay

(***************************************************************************)
(* A stored object is replaced by one with a higher resourceVersion, so    *)
(* that every copy which is not the object itself is out of date.          *)
(***************************************************************************)
Kept(c) == server'[c] = server[c] /\ (c \in exists' <=> c \in exists)

Moves(c) == Kept(c) \/ server'[c].rv = server[c].rv + 1

LEMMA EveryMove ==
    ASSUME TypeOK, ControlInv, [Next]_vars
    PROVE  \A c \in Cms : Moves(c)
<1>1. CASE UNCHANGED store \/ Observe
  BY <1>1 DEF store, Observe, ObserveUpsert, ObserveDelete, Moves, Kept
<1>2. ASSUME NEW c \in Cms, Stored(c)
      PROVE  \A d \in Cms : Moves(d)
  BY <1>2 DEF Stored, Moves, Kept
<1>3. ASSUME NEW c \in Cms, UserDelete(c)
      PROVE  \A d \in Cms : Moves(d)
  BY <1>3 DEF TypeOK, UserDelete, Moves, Kept
<1> QED
  BY <1>1, <1>2, <1>3, ClusterSteps

LEMMA StaysFaithful ==
    ASSUME TypeOK, NEW c \in Cms, Moves(c), NEW o \in Objects, Faithful(o, c)
    PROVE  /\ o.rv <= server'[c].rv
           /\ o.rv = server'[c].rv => c \in exists' /\ o = server'[c]
<1>1. o.rv \in Nat /\ server[c].rv \in Nat
  BY DEF TypeOK, Objects
<1> QED
  BY <1>1 DEF Faithful, Moves, Kept

LEMMA FetchFaithful ==
    ASSUME TypeOK, NEW c \in Cms, Fetch(c) # None, UNCHANGED cluster
    PROVE  /\ Fetch(c).rv <= server'[c].rv
           /\ Fetch(c).rv = server'[c].rv => c \in exists' /\ Fetch(c) = server'[c]
<1>1. c \in exists /\ Fetch(c) = server[c] /\ server[c].rv \in Nat
  BY FetchTypes DEF TypeOK, Objects
<1> QED
  BY <1>1 DEF cluster

(* The events of the feed.                                                 *)
LEMMA FeedElement ==
    ASSUME TypeOK, NEW i \in 1 .. Len(feed)
    PROVE  feed[i] \in Events /\ feed[i].cm \in Cms /\ feed[i].obj \in Objects
<1>1. feed \in Seq(Events)
  BY DEF TypeOK
<1>2. feed[i] \in Events
  BY <1>1, ElementOfSeq
<1> QED
  BY <1>2 DEF Events

LEMMA FeedAppended ==
    ASSUME TypeOK, NEW e \in Events, feed' = Append(feed, e)
    PROVE  /\ Len(feed) \in Nat /\ Len(feed') = Len(feed) + 1
           /\ feed'[Len(feed) + 1] = e
           /\ \A i \in 1 .. Len(feed) : feed'[i] = feed[i]
  BY AppendProperties, LenProperties DEF TypeOK

LEMMA FeedFaithful ==
    ASSUME TypeOK, ControlInv, CopyInv, [Next]_vars
    PROVE  \A i \in 1 .. Len(feed') : Faithful(feed[i].obj, feed[i].cm)'
<1>1. ASSUME NEW i \in 1 .. Len(feed)
      PROVE  /\ feed[i].obj.rv <= server'[feed[i].cm].rv
             /\ feed[i].obj.rv = server'[feed[i].cm].rv =>
                   feed[i].cm \in exists' /\ feed[i].obj = server'[feed[i].cm]
  BY FeedElement, EveryMove, StaysFaithful DEF CopyInv
<1>2. CASE UNCHANGED store
  BY <1>1, <1>2 DEF store, Faithful
<1>3. ASSUME NEW c \in Cms, NEW e \in Events, feed' = Append(feed, e), e.cm = c,
             e.obj.rv \in Nat,
             \/ e.obj = server'[c] /\ c \in exists'
             \/ e.obj.rv < server'[c].rv
      PROVE  \A i \in 1 .. Len(feed') : Faithful(feed[i].obj, feed[i].cm)'
  <2> SUFFICES ASSUME NEW i \in 1 .. Len(feed')
               PROVE  Faithful(feed[i].obj, feed[i].cm)'
    OBVIOUS
  <2>1. CASE i = Len(feed) + 1
    <3>1. feed'[i] = e
      BY <1>3, <2>1, FeedAppended
    <3>2. server'[c].rv \in Nat
      BY NextTypes DEF TypeOK, Objects
    <3>3. e.obj.rv <= server'[c].rv
          /\ (e.obj.rv = server'[c].rv => c \in exists' /\ e.obj = server'[c])
      BY <1>3, <3>2
    <3> QED
      BY <1>3, <3>1, <3>3 DEF Faithful
  <2>2. CASE i # Len(feed) + 1
    <3>1. i \in 1 .. Len(feed) /\ feed'[i] = feed[i]
      BY <1>3, <2>2, FeedAppended
    <3> QED
      BY <1>1, <3>1 DEF Faithful
  <2> QED
    BY <2>1, <2>2
<1>4. ASSUME NEW c \in Cms, Stored(c)
      PROVE  \A i \in 1 .. Len(feed') : Faithful(feed[i].obj, feed[i].cm)'
  <2>1. PICK e \in Events : feed' = Append(feed, e) /\ e.cm = c /\ e.obj = server'[c]
    BY <1>4 DEF Stored
  <2>2. c \in exists' /\ e.obj.rv \in Nat
    BY <1>4 DEF Stored, Events, Objects
  <2> QED
    BY <2>1, <2>2, <1>3
<1>5. ASSUME NEW c \in Cms, UserDelete(c)
      PROVE  \A i \in 1 .. Len(feed') : Faithful(feed[i].obj, feed[i].cm)'
  <2>1. PICK e \in Events : feed' = Append(feed, e) /\ e.cm = c /\ e.obj = server[c]
    <3>1. [type |-> "DELETED", cm |-> c, obj |-> server[c]] \in Events
      BY DEF TypeOK, Events
    <3> QED
      BY <1>5, <3>1 DEF UserDelete
  <2>2. server[c].rv \in Nat /\ server'[c].rv = server[c].rv + 1
    BY <1>5 DEF UserDelete, TypeOK, Objects
  <2>3. e.obj.rv \in Nat /\ e.obj.rv < server'[c].rv
    BY <2>1, <2>2
  <2> QED
    BY <2>1, <2>3, <1>3
<1>6. CASE Observe
  <2>1. feed # <<>> /\ feed' = Tail(feed) /\ UNCHANGED <<server, exists>>
    BY <1>6 DEF Observe, ObserveUpsert, ObserveDelete
  <2> SUFFICES ASSUME NEW i \in 1 .. Len(feed')
               PROVE  Faithful(feed[i].obj, feed[i].cm)'
    OBVIOUS
  <2>2. i + 1 \in 1 .. Len(feed) /\ feed'[i] = feed[i + 1]
    BY <2>1, FeedShrinks, LenProperties DEF TypeOK
  <2> QED
    BY <1>1, <2>2 DEF Faithful
<1> QED
  BY <1>2, <1>4, <1>5, <1>6, ClusterSteps

LEMMA CopySteps ==
    ASSUME TypeOK, ControlInv, CopyInv, [Next]_vars
    PROVE  CopyInv'
<1>1. ASSUME NEW s \in Sources, pc'[s] = "put", got'[s] # None
      PROVE  Faithful(got[s], want[s].cm)'
  <2>1. CASE UpsertGet(s)
    <3>1. got'[s] \in {Fetch(want[s].cm), None} /\ want'[s] = want[s] /\ UNCHANGED cluster
      BY <2>1 DEF UpsertGet, Fetches, TypeOK, users
    <3>2. want[s].cm \in Cms
      BY <2>1 DEF UpsertGet, TypeOK, SourceOK, Wants
    <3> QED
      BY <1>1, <3>1, <3>2, FetchFaithful DEF Faithful
  <2>2. CASE pc[s] = "put" /\ got'[s] = got[s] /\ want'[s] = want[s]
    <3>1. got[s] \in Objects /\ want[s].cm \in Cms /\ Faithful(got[s], want[s].cm)
      BY <1>1, <2>2 DEF TypeOK, SourceOK, Wants, CopyInv
    <3> QED
      BY <2>2, <3>1, EveryMove, StaysFaithful DEF Faithful
  <2> QED
    BY <1>1, <2>1, <2>2, SourceSteps
<1>2. ASSUME prep'["watch"] = "put", prepGot'["watch"] # None
      PROVE  Faithful(prepGot["watch"], event.cm)'
  <2>1. CASE PrepGetEvent
    <3>1. prepGot'["watch"] = Fetch(event.cm) /\ event' = event /\ UNCHANGED cluster
      BY <2>1 DEF PrepGetEvent, TypeOK, Workers, watcher
    <3>2. event.cm \in Cms
      BY <2>1, EventAtHand DEF PrepGetEvent
    <3> QED
      BY <1>2, <3>1, <3>2, FetchFaithful DEF Faithful
  <2>2. CASE prep["watch"] = "put" /\ event' = event /\ prepGot'["watch"] = prepGot["watch"]
    <3>1. prepGot["watch"] \in Objects /\ event.cm \in Cms
          /\ Faithful(prepGot["watch"], event.cm)
      BY <1>2, <2>2 DEF TypeOK, ControlInv, Events, CopyInv
    <3> QED
      BY <2>2, <3>1, EveryMove, StaysFaithful DEF Faithful
  <2> QED
    BY <1>2, <2>1, <2>2, HandlerSteps
<1>3. ASSUME prep'["register"] = "put", prepGot'["register"].obj # None
      PROVE  Faithful(prepGot["register"].obj, prepGot["register"].to.cm)'
  <2>1. CASE PrepGetCached
    <3>1. PICK p \in replay : /\ p.cm \in Cms
                              /\ prepGot'["register"] = [to |-> p, obj |-> Fetch(p.cm)]
      BY <2>1, PrepGetsCached
    <3>2. UNCHANGED cluster
      BY <2>1 DEF PrepGetCached
    <3> QED
      BY <1>3, <3>1, <3>2, FetchFaithful DEF Faithful
  <2>2. CASE prep["register"] = "put" /\ prepGot'["register"] = prepGot["register"]
    <3>1. /\ prepGot["register"].obj \in Objects /\ prepGot["register"].to.cm \in Cms
          /\ Faithful(prepGot["register"].obj, prepGot["register"].to.cm)
      BY <1>3, <2>2, CachedAtHand DEF CopyInv
    <3> QED
      BY <2>2, <3>1, EveryMove, StaysFaithful DEF Faithful
  <2> QED
    BY <1>3, <2>1, <2>2, HandlerSteps
<1> QED
  BY <1>1, <1>2, <1>3, FeedFaithful DEF CopyInv

(***************************************************************************)
(* The cache.                                                              *)
(***************************************************************************)
(* CachedInv of one cached object.                                         *)
CachedOK(c, i) ==
    /\ objs[c][i].rv <= server[c].rv
    /\ objs[c][i].rv = server[c].rv =>
          /\ c \in exists
          /\ server[c].prepared => objs[c][i].prepared
          /\ ~ApiMayFail => \A s \in Sources : objs[c][i].data[s] # server[c].data[s] =>
                objs[c][i].data[s] = None /\ pc[s] = "send" /\ got[s].cm = c /\ got[s].at = i

LEMMA CachedParts == CachedInv <=> \A c \in Cms : \A i \in DOMAIN objs[c] : CachedOK(c, i)
  BY DEF CachedInv, CachedOK

(* An object that the step leaves alone.                                   *)
LEMMA CachedStays ==
    ASSUME TypeOK, ControlInv, [Next]_vars, NEW c \in Cms, NEW i \in DOMAIN objs[c],
           CachedOK(c, i), objs'[c][i] = objs[c][i]
    PROVE  CachedOK(c, i)'
<1> DEFINE o == objs[c][i]
<1>1. o.rv \in Nat /\ server[c].rv \in Nat
  BY CachedTypes DEF TypeOK, Objects
<1>2. CASE server'[c].rv = server[c].rv + 1
  BY <1>1, <1>2 DEF CachedOK
<1>3. CASE Kept(c)
  <2>1. ASSUME ~ApiMayFail, o.rv = server[c].rv, NEW s \in Sources, o.data[s] # server[c].data[s]
        PROVE  pc'[s] = "send" /\ got'[s] = got[s]
    <3>1. /\ c \in exists /\ o.data[s] = None /\ pc[s] = "send"
          /\ got[s].cm = c /\ got[s].at = i
      BY <2>1 DEF CachedOK
    <3>2. ~RemoveFails(s)
      BY <2>1 DEF RemoveFails
    <3>3. ~RemoveSend(s)
      <4> SUFFICES ASSUME RemoveSend(s)
                   PROVE  FALSE
        OBVIOUS
      <4>1. Target(got[s]) = o
        BY <3>1 DEF Target
      <4>2. Stored(c)
        BY <2>1, <3>1, <4>1, RemoveSends
      <4> QED
        BY <1>1, <1>3, <4>2 DEF Stored, Kept
    <3> QED
      BY <3>1, <3>2, <3>3, SourceSteps
  <2> QED
    BY <1>3, <2>1 DEF CachedOK, Kept
<1> QED
  BY <1>2, <1>3, EveryMove DEF Moves

LEMMA CachedSteps ==
    ASSUME TypeOK, ControlInv, CopyInv, CachedInv, [Next]_vars
    PROVE  CachedInv'
<1>1. \A c \in Cms : \A i \in DOMAIN objs[c] : CachedOK(c, i)
  BY CachedParts
<1>2. CASE objs' = objs
  <2>1. \A c \in Cms : \A i \in DOMAIN objs[c] : CachedOK(c, i)'
    BY <1>1, <1>2, CachedStays
  <2> QED
    BY <1>2, <2>1 DEF CachedInv, CachedOK
<1>3. ASSUME NEW s \in Sources, RemoveKey(s)
      PROVE  CachedInv'
  <2>1. PICK p \in left[s] : /\ objs' = [objs EXCEPT ![p.cm][p.at].data[s] = None]
                             /\ got' = [got EXCEPT ![s] = p]
    BY <1>3 DEF RemoveKey
  <2>2. /\ pc[s] = "visit" /\ pc' = [pc EXCEPT ![s] = "send"] /\ UNCHANGED cluster
    BY <1>3 DEF RemoveKey
  <2>3. p.cm \in Cms /\ p.at \in DOMAIN objs[p.cm]
    BY DEF TypeOK, SourceOK
  <2>4. /\ pc'[s] = "send" /\ got'[s] = p
        /\ \A t \in Sources \ {s} : pc'[t] = pc[t] /\ got'[t] = got[t]
    BY <2>1, <2>2 DEF TypeOK
  <2>5. /\ \A d \in Cms : DOMAIN objs'[d] = DOMAIN objs[d]
        /\ \A d \in Cms : \A j \in DOMAIN objs[d] :
              d # p.cm \/ j # p.at => objs'[d][j] = objs[d][j]
        /\ objs'[p.cm][p.at].rv = objs[p.cm][p.at].rv
        /\ objs'[p.cm][p.at].prepared = objs[p.cm][p.at].prepared
        /\ objs'[p.cm][p.at].data[s] = None
        /\ \A t \in Sources \ {s} : objs'[p.cm][p.at].data[t] = objs[p.cm][p.at].data[t]
    BY <2>1, <2>3, KeyRemoved
  <2>6. CachedOK(p.cm, p.at)'
    <3>1. CachedOK(p.cm, p.at) /\ UNCHANGED <<server, exists>>
      BY <1>1, <2>2, <2>3 DEF cluster
    <3>2. ASSUME ~ApiMayFail, objs[p.cm][p.at].rv = server[p.cm].rv, NEW t \in Sources,
                 objs'[p.cm][p.at].data[t] # server[p.cm].data[t]
          PROVE  /\ objs'[p.cm][p.at].data[t] = None
                 /\ pc'[t] = "send" /\ got'[t].cm = p.cm /\ got'[t].at = p.at
      <4>1. CASE t = s
        BY <2>4, <2>5, <4>1
      <4>2. CASE t # s
        <5>1. objs'[p.cm][p.at].data[t] = objs[p.cm][p.at].data[t]
          BY <2>5, <3>2, <4>2
        <5>2. /\ objs[p.cm][p.at].data[t] = None
              /\ pc[t] = "send" /\ got[t].cm = p.cm /\ got[t].at = p.at
          BY <3>1, <3>2, <5>1 DEF CachedOK
        <5> QED
          BY <2>4, <3>2, <4>2, <5>1, <5>2
      <4> QED
        BY <4>1, <4>2
    <3> QED
      BY <2>5, <3>1, <3>2 DEF CachedOK
  <2>7. ASSUME NEW d \in Cms, NEW j \in DOMAIN objs[d], d # p.cm \/ j # p.at
        PROVE  CachedOK(d, j)'
    BY <1>1, <2>5, <2>7, CachedStays
  <2>8. \A d \in Cms : \A j \in DOMAIN objs'[d] : CachedOK(d, j)'
    BY <2>5, <2>6, <2>7
  <2> QED
    BY <2>8 DEF CachedInv, CachedOK
<1>4. CASE PrepGetCached
  <2>1. PICK p \in replay :
           /\ p.cm \in Cms /\ p.at \in DOMAIN objs[p.cm]
           /\ objs' = [objs EXCEPT ![p.cm][p.at].prepared = TRUE]
    BY <1>4, PrepGetsCached
  <2>2. UNCHANGED <<cluster, pc, got>>
    BY <1>4 DEF PrepGetCached, sources
  <2>3. /\ \A d \in Cms : DOMAIN objs'[d] = DOMAIN objs[d]
        /\ \A d \in Cms : \A j \in DOMAIN objs[d] :
              d # p.cm \/ j # p.at => objs'[d][j] = objs[d][j]
        /\ objs'[p.cm][p.at].rv = objs[p.cm][p.at].rv
        /\ objs'[p.cm][p.at].prepared
        /\ objs'[p.cm][p.at].data = objs[p.cm][p.at].data
    BY <2>1, IdSet
  <2>4. CachedOK(p.cm, p.at)'
    <3>1. CachedOK(p.cm, p.at)
      BY <1>1, <2>1
    <3> QED
      BY <2>2, <2>3, <3>1 DEF CachedOK, cluster
  <2>5. ASSUME NEW d \in Cms, NEW j \in DOMAIN objs[d], d # p.cm \/ j # p.at
        PROVE  CachedOK(d, j)'
    BY <1>1, <2>3, <2>5, CachedStays
  <2>6. \A d \in Cms : \A j \in DOMAIN objs'[d] : CachedOK(d, j)'
    BY <2>3, <2>4, <2>5
  <2> QED
    BY <2>6 DEF CachedInv, CachedOK
<1>5. CASE ObserveUpsert /\ objs' # objs
  <2>1. PICK c \in Cms, o \in Objects : /\ c = feed[1].cm /\ o = feed[1].obj /\ feed # <<>>
                                        /\ Cache(c, o)
    BY <1>5, ObserveUpserts
  <2>2. Faithful(o, c)
    <3>1. 1 \in 1 .. Len(feed)
      BY <2>1, FeedShrinks, LenProperties DEF TypeOK
    <3> QED
      BY <2>1, <3>1 DEF CopyInv
  <2>3. UNCHANGED <<server, exists>>
    BY <1>5 DEF ObserveUpsert
  <2>4. PICK n : /\ \A d \in Cms \ {c} : objs'[d] = objs[d]
                 /\ DOMAIN objs'[c] = DOMAIN objs[c] \cup {n}
                 /\ objs'[c][n] = o
                 /\ \A i \in DOMAIN objs[c] : objs'[c][i] = objs[c][i]
    BY <2>1, CacheGrows
  <2>5. CachedOK(c, n)'
    BY <2>2, <2>3, <2>4 DEF Faithful, CachedOK
  <2>6. ASSUME NEW d \in Cms, NEW i \in DOMAIN objs[d]
        PROVE  CachedOK(d, i)'
    <3>1. objs'[d][i] = objs[d][i]
      BY <2>4
    <3> QED
      BY <1>1, <3>1, CachedStays
  <2>7. \A d \in Cms : \A i \in DOMAIN objs'[d] : CachedOK(d, i)'
    BY <2>4, <2>5, <2>6
  <2> QED
    BY <2>7 DEF CachedInv, CachedOK
<1> QED
  BY <1>2, <1>3, <1>4, <1>5, CacheSteps

(* The last event about a ConfigMap.                                       *)
LastEvent(c, i) ==
    /\ feed[i].cm = c /\ feed[i].type # "DELETED" /\ feed[i].obj = server[c]
    /\ \A j \in 1 .. Len(feed) : j > i => feed[j].cm # c

FeedOK(c) ==
    \/ /\ \A i \in 1 .. Len(feed) : feed[i].cm # c
       /\ Cached(c) /\ Holds(Current(c), c)
    \/ \E i \in 1 .. Len(feed) : LastEvent(c, i)

LEMMA FeedParts == FeedInv <=> \A c \in exists : FeedOK(c)
  BY DEF FeedInv, FeedOK, LastEvent

LEMMA CurrentTypes ==
    ASSUME TypeOK, NEW c \in Cms, Cached(c)
    PROVE  Len(objs[c]) \in DOMAIN objs[c] /\ Current(c) \in Objects
<1>1. Len(objs[c]) \in DOMAIN objs[c]
  BY LenProperties, EmptySeq DEF TypeOK, Cached
<1> QED
  BY <1>1, CachedTypes DEF Current

LEMMA CachedLen ==
    ASSUME TypeOK, NEW c \in Cms
    PROVE  Cached(c) <=> Len(objs[c]) # 0
  BY LenProperties, EmptySeq DEF TypeOK, Cached

(* What the cache shows of c stays what it was, but for a key less or the  *)
(* id more.                                                                *)
LEMMA HoldsStays ==
    ASSUME TypeOK, ControlInv, [Next]_vars, ~ObserveUpsert, NEW c \in Cms, Cached(c),
           Holds(Current(c), c), server'[c] = server[c]
    PROVE  Cached(c)' /\ Holds(Current(c), c)'
<1> DEFINE n == Len(objs[c])
<1>1. n \in DOMAIN objs[c] /\ n # 0
  BY CurrentTypes, CachedLen
<1>2. CASE objs' = objs
  BY <1>2 DEF Cached, Current, Holds
<1>3. ASSUME Len(objs'[c]) = n,
             server[c].prepared => objs'[c][n].prepared,
             \A s \in Sources : objs'[c][n].data[s] \in {server[c].data[s], None}
      PROVE  Cached(c)' /\ Holds(Current(c), c)'
  <2>1. Cached(c)'
    BY <1>1, <1>3, EmptySeq DEF Cached
  <2> QED
    BY <1>3, <2>1 DEF Current, Holds
<1>4. ASSUME NEW s \in Sources, RemoveKey(s)
      PROVE  Cached(c)' /\ Holds(Current(c), c)'
  <2>1. PICK p \in left[s] : objs' = [objs EXCEPT ![p.cm][p.at].data[s] = None]
    BY <1>4 DEF RemoveKey
  <2>2. p.cm \in Cms /\ p.at \in DOMAIN objs[p.cm]
    BY DEF TypeOK, SourceOK
  <2>3. /\ \A d \in Cms : Len(objs'[d]) = Len(objs[d])
        /\ \A d \in Cms : \A j \in DOMAIN objs[d] :
              d # p.cm \/ j # p.at => objs'[d][j] = objs[d][j]
        /\ objs'[p.cm][p.at].prepared = objs[p.cm][p.at].prepared
        /\ objs'[p.cm][p.at].data[s] = None
        /\ \A t \in Sources \ {s} : objs'[p.cm][p.at].data[t] = objs[p.cm][p.at].data[t]
    BY <2>1, <2>2, KeyRemoved
  <2>4. /\ objs'[c][n].prepared = objs[c][n].prepared
        /\ \A t \in Sources : objs'[c][n].data[t] \in {objs[c][n].data[t], None}
    BY <1>1, <2>3
  <2> QED
    BY <1>3, <2>3, <2>4 DEF Holds, Current
<1>5. CASE PrepGetCached
  <2>1. PICK p \in replay :
           /\ p.cm \in Cms /\ p.at \in DOMAIN objs[p.cm]
           /\ objs' = [objs EXCEPT ![p.cm][p.at].prepared = TRUE]
    BY <1>5, PrepGetsCached
  <2>2. /\ \A d \in Cms : Len(objs'[d]) = Len(objs[d])
        /\ \A d \in Cms : \A j \in DOMAIN objs[d] :
              d # p.cm \/ j # p.at => objs'[d][j] = objs[d][j]
        /\ objs'[p.cm][p.at].prepared
        /\ objs'[p.cm][p.at].data = objs[p.cm][p.at].data
    BY <2>1, IdSet
  <2>3. /\ objs[c][n].prepared => objs'[c][n].prepared
        /\ objs'[c][n].data = objs[c][n].data
    BY <1>1, <2>2
  <2> QED
    BY <1>3, <2>2, <2>3 DEF Holds, Current
<1> QED
  BY <1>2, <1>4, <1>5, CacheSteps

LEMMA FeedSteps ==
    ASSUME TypeOK, ControlInv, FeedInv, [Next]_vars
    PROVE  FeedInv'
<1>1. \A c \in exists : c \in Cms /\ FeedOK(c)
  BY FeedParts DEF TypeOK
<1>2. Len(feed) \in Nat
  BY LenProperties DEF TypeOK
<1>3. CASE UNCHANGED store
  <2> SUFFICES ASSUME NEW c \in exists
               PROVE  FeedOK(c)'
    BY <1>3 DEF FeedInv, FeedOK, LastEvent, store
  <2>1. ~ObserveUpsert
    <3> SUFFICES ASSUME ObserveUpsert
                 PROVE  FALSE
      OBVIOUS
    <3>1. feed # <<>> /\ feed' = Tail(feed)
      BY DEF ObserveUpsert
    <3> QED
      BY <1>2, <1>3, <3>1, FeedShrinks DEF store
  <2>2. CASE \E i \in 1 .. Len(feed) : LastEvent(c, i)
    BY <1>3, <2>2 DEF FeedOK, LastEvent, store
  <2>3. CASE /\ \A i \in 1 .. Len(feed) : feed[i].cm # c
             /\ Cached(c) /\ Holds(Current(c), c)
    <3>1. Cached(c)' /\ Holds(Current(c), c)'
      BY <1>1, <1>3, <2>1, <2>3, HoldsStays DEF store
    <3> QED
      BY <1>3, <2>3, <3>1 DEF FeedOK, store
  <2> QED
    BY <1>1, <2>2, <2>3 DEF FeedOK
<1>4. ASSUME NEW d \in Cms, NEW e \in Events, feed' = Append(feed, e), e.cm = d,
             ~ObserveUpsert, NEW c \in exists, c # d, server'[c] = server[c]
      PROVE  FeedOK(c)'
  <2>1. /\ Len(feed') = Len(feed) + 1 /\ feed'[Len(feed) + 1] = e
        /\ \A i \in 1 .. Len(feed) : feed'[i] = feed[i]
    BY <1>4, FeedAppended
  <2>2. ASSUME NEW i \in 1 .. Len(feed')
        PROVE  \/ i = Len(feed) + 1 /\ feed'[i].cm # c
               \/ i \in 1 .. Len(feed) /\ feed'[i] = feed[i]
    BY <1>2, <1>4, <2>1
  <2>3. CASE \E i \in 1 .. Len(feed) : LastEvent(c, i)
    <3>1. PICK i \in 1 .. Len(feed) : LastEvent(c, i)
      BY <2>3
    <3>2. i \in 1 .. Len(feed') /\ LastEvent(c, i)'
      BY <1>2, <1>4, <2>1, <2>2, <3>1 DEF LastEvent
    <3> QED
      BY <3>2 DEF FeedOK
  <2>4. CASE /\ \A i \in 1 .. Len(feed) : feed[i].cm # c
             /\ Cached(c) /\ Holds(Current(c), c)
    <3>1. Cached(c)' /\ Holds(Current(c), c)'
      BY <1>1, <1>4, <2>4, HoldsStays
    <3> QED
      BY <2>2, <2>4, <3>1 DEF FeedOK
  <2> QED
    BY <1>1, <2>3, <2>4 DEF FeedOK
<1>5. ASSUME NEW d \in Cms, Stored(d), ~ObserveUpsert
      PROVE  FeedInv'
  <2>1. PICK e \in Events : /\ feed' = Append(feed, e)
                            /\ e.cm = d /\ e.obj = server'[d] /\ e.type # "DELETED"
    BY <1>5 DEF Stored
  <2>2. Len(feed') = Len(feed) + 1 /\ feed'[Len(feed) + 1] = e
    BY <2>1, FeedAppended
  <2>3. FeedOK(d)'
    <3>1. PICK n \in Nat : n = Len(feed) + 1
      BY <1>2
    <3>2. n \in 1 .. Len(feed') /\ LastEvent(d, n)'
      BY <1>2, <2>1, <2>2, <3>1 DEF LastEvent
    <3> QED
      BY <3>2 DEF FeedOK
  <2>4. \A c \in exists' : FeedOK(c)'
    BY <1>1, <1>4, <1>5, <2>1, <2>3 DEF Stored
  <2> QED
    BY <2>4 DEF FeedInv, FeedOK, LastEvent
<1>6. ASSUME NEW d \in Cms, UserDelete(d), ~ObserveUpsert
      PROVE  FeedInv'
  <2>1. PICK e \in Events : feed' = Append(feed, e) /\ e.cm = d
    <3>1. [type |-> "DELETED", cm |-> d, obj |-> server[d]] \in Events
      BY DEF TypeOK, Events
    <3> QED
      BY <1>6, <3>1 DEF UserDelete
  <2>2. exists' = exists \ {d} /\ \A c \in Cms \ {d} : server'[c] = server[c]
    BY <1>6 DEF UserDelete, TypeOK
  <2>3. \A c \in exists' : FeedOK(c)'
    BY <1>1, <1>4, <1>6, <2>1, <2>2
  <2> QED
    BY <2>3 DEF FeedInv, FeedOK, LastEvent
<1>7. CASE Observe
  <2>1. feed # <<>> /\ feed' = Tail(feed) /\ UNCHANGED <<server, exists>>
    BY <1>7 DEF Observe, ObserveUpsert, ObserveDelete
  <2>2. /\ Len(feed) > 0 /\ Len(feed') = Len(feed) - 1
        /\ \A i \in 1 .. Len(feed) - 1 : feed'[i] = feed[i + 1]
    BY <2>1, FeedShrinks
  <2>3. \A i \in 1 .. Len(feed') : i + 1 \in 1 .. Len(feed) /\ feed'[i] = feed[i + 1]
    BY <1>2, <2>2
  <2> SUFFICES ASSUME NEW c \in exists
               PROVE  FeedOK(c)'
    BY <2>1 DEF FeedInv, FeedOK, LastEvent
  <2>4. ASSUME NEW i \in 2 .. Len(feed), LastEvent(c, i)
        PROVE  FeedOK(c)'
    <3>1. i - 1 \in 1 .. Len(feed') /\ feed'[i - 1] = feed[i]
      BY <1>2, <2>2, <2>4
    <3>2. LastEvent(c, i - 1)'
      BY <1>2, <2>1, <2>2, <2>3, <2>4, <3>1 DEF LastEvent
    <3> QED
      BY <3>1, <3>2 DEF FeedOK
  <2>5. CASE LastEvent(c, 1)
    <3>1. ObserveUpsert
      BY <1>7, <2>1, <2>5, FeedShrinks DEF Observe, ObserveDelete, LastEvent
    <3>2. PICK d \in Cms, o \in Objects :
             /\ d = feed[1].cm /\ o = feed[1].obj
             /\ \/ Cache(d, o)
                \/ objs' = objs /\ Cached(d) /\ SameContent(Current(d), o)
      BY <3>1, ObserveUpserts
    <3>3. d = c /\ o = server[c]
      BY <2>5, <3>2 DEF LastEvent
    <3>4. Cached(c)' /\ Holds(Current(c), c)'
      <4>1. CASE Cache(c, o)
        <5>1. Len(objs'[c]) = Len(objs[c]) + 1 /\ objs'[c][Len(objs[c]) + 1] = o
              /\ Len(objs[c]) \in Nat
          BY <3>3, <4>1, CacheGrows, LenProperties DEF TypeOK
        <5>2. Cached(c)'
          BY <5>1, EmptySeq DEF Cached
        <5> QED
          BY <2>1, <3>3, <5>1, <5>2 DEF Current, Holds
      <4>2. CASE objs' = objs /\ Cached(c) /\ SameContent(Current(c), o)
        BY <2>1, <3>3, <4>2 DEF Cached, Current, Holds, SameContent
      <4> QED
        BY <3>2, <3>3, <4>1, <4>2
    <3>5. \A i \in 1 .. Len(feed') : feed'[i].cm # c
      BY <1>2, <2>2, <2>3, <2>5 DEF LastEvent
    <3> QED
      BY <3>4, <3>5 DEF FeedOK
  <2>6. CASE /\ \A i \in 1 .. Len(feed) : feed[i].cm # c
             /\ Cached(c) /\ Holds(Current(c), c)
    <3>1. Cached(c)' /\ Holds(Current(c), c)'
      <4>1. CASE objs'[c] = objs[c]
        BY <2>1, <2>6, <4>1 DEF Cached, Current, Holds
      <4>2. objs'[c] = objs[c]
        <5>1. CASE ObserveUpsert
          <6>1. PICK d \in Cms, o \in Objects : d = feed[1].cm /\ (Cache(d, o) \/ objs' = objs)
            BY <5>1, ObserveUpserts
          <6>2. d # c
            BY <1>2, <2>2, <2>6, <6>1
          <6> QED
            BY <1>1, <6>1, <6>2, CacheGrows
        <5>2. CASE ObserveDelete
          BY <5>2 DEF ObserveDelete
        <5> QED
          BY <1>7, <5>1, <5>2 DEF Observe
      <4> QED
        BY <4>1, <4>2
    <3> QED
      BY <2>3, <2>6, <3>1 DEF FeedOK
  <2>7. ASSUME NEW i \in 1 .. Len(feed), LastEvent(c, i)
        PROVE  FeedOK(c)'
    <3>1. i = 1 \/ i \in 2 .. Len(feed)
      BY <1>2
    <3> QED
      BY <2>4, <2>5, <2>7, <3>1
  <2> QED
    BY <1>1, <2>6, <2>7 DEF FeedOK
<1>8. CASE ObserveUpsert
  BY <1>7, <1>8 DEF Observe
<1> QED
  BY <1>3, <1>5, <1>6, <1>7, <1>8, ClusterSteps

(***************************************************************************)
(* The theorems.                                                           *)
(***************************************************************************)
IInv == TypeOK /\ ControlInv /\ StoreInv

LEMMA Start ==
    ASSUME Init
    PROVE  IInv
<1>1. TypeOK /\ ControlInv
  BY InitTypes
<1>2. CopyInv
  <2>1. Len(feed) = 0
    BY EmptySeq DEF Init
  <2> QED
    BY <2>1 DEF Init, CopyInv, Workers
<1>3. CachedInv
  <2>1. \A c \in Cms : DOMAIN objs[c] = {}
    BY EmptySeq DEF Init
  <2> QED
    BY <2>1 DEF CachedInv
<1>4. FeedInv
  BY DEF Init, FeedInv
<1> QED
  BY <1>1, <1>2, <1>3, <1>4 DEF IInv, StoreInv

LEMMA Keeps ==
    ASSUME IInv, [Next]_vars
    PROVE  IInv'
  BY NextTypes, CopySteps, CachedSteps, FeedSteps DEF IInv, StoreInv

THEOREM Invariance == Spec => []IInv
<1>1. Init => IInv
  BY Start
<1>2. IInv /\ [Next]_vars => IInv'
  BY Keeps
<1> QED
  BY <1>1, <1>2, PTL DEF Spec

(* The variables have their types, whatever the sources, the watcher and   *)
(* the two users of the write-back do to each other.                       *)
THEOREM TypeCorrect == Spec => []TypeOK
<1>1. IInv => TypeOK
  BY DEF IInv
<1> QED
  BY <1>1, Invariance, PTL

(* A caught-up watcher has a cached object for every ConfigMap, with all   *)
(* its rules but those somebody tried to remove (upsert and fireEvents of  *)
(* tunnel_config_maps.go), failing API calls included.                     *)
THEOREM CacheIsComplete == Spec => []CacheCatchesUp
<1>1. IInv => CacheCatchesUp
  <2> SUFFICES ASSUME IInv, feed = <<>>, event = None, NEW c \in exists
               PROVE  /\ Cached(c)
                      /\ server[c].prepared => Current(c).prepared
                      /\ \A s \in Sources : Current(c).data[s] \in {server[c].data[s], None}
    BY DEF CacheCatchesUp
  <2>1. FeedOK(c) /\ Len(feed) = 0
    BY FeedParts, EmptySeq DEF IInv, StoreInv
  <2> QED
    BY <2>1 DEF FeedOK, Holds
<1> QED
  BY <1>1, Invariance, PTL

(* Without failing API calls, what RemoveConfigMap may send from the cache *)
(* is what is stored but for rules that are to go.                         *)
THEOREM SafeToSend ==
    ASSUME ~ApiMayFail
    PROVE  Spec => []CacheIsSafeToSend
<1>1. IInv => CacheIsSafeToSend
  <2> SUFFICES ASSUME IInv, NEW c \in exists, NEW i \in DOMAIN objs[c],
                      objs[c][i].rv = server[c].rv
               PROVE  /\ server[c].prepared => objs[c][i].prepared
                      /\ \A s \in Sources : objs[c][i].data[s] # server[c].data[s] =>
                            objs[c][i].data[s] = None /\ want[s] = None
    BY DEF CacheIsSafeToSend
  <2>1. c \in Cms
    BY DEF IInv, TypeOK
  <2>2. CachedOK(c, i)
    BY <2>1, CachedParts DEF IInv, StoreInv
  <2> QED
    BY <2>2 DEF CachedOK, IInv, ControlInv
<1> QED
  BY <1>1, Invariance, PTL

(* The lock of a kind and a ConfigMap keeps the upserts of that kind from  *)
(* writing between each other's Get and Update (lockConfigMap).            *)
THEOREM TurnsAreTaken == Spec => KindsTakeTurns
<1>1. IInv => \A s, s2 \in Sources :
         s # s2 /\ Kind[s] = Kind[s2] /\ pc[s] = "put" /\ pc[s2] = "put"
            => want[s].cm # want[s2].cm
  BY DEF IInv, ControlInv
<1>2. IInv /\ [Next]_vars =>
         [\A s, s2 \in Sources :
            (/\ s # s2 /\ Kind[s] = Kind[s2]
             /\ pc[s] = "put" /\ pc'[s] = "put"
             /\ pc[s2] = "put" /\ pc'[s2] = "idle"
             /\ want[s].cm = want[s2].cm) => UNCHANGED server[want[s].cm]]_vars
  BY <1>1
<1> QED
  BY <1>2, Invariance, PTL DEF Spec, KindsTakeTurns

(***************************************************************************)
(* Who writes a ConfigMap, and what.                                       *)
(***************************************************************************)
LEMMA Writers ==
    ASSUME TypeOK, ControlInv, [Next]_vars, NEW c \in Cms, ~Kept(c)
    PROVE  \/ \E s \in Sources : UpsertPut(s) /\ want[s].cm = c
           \/ \E s \in Sources : RemoveSend(s) /\ got[s].cm = c
           \/ PrepPutEvent /\ event.cm = c
           \/ PrepPutCached /\ prepGot["register"].to.cm = c
           \/ UserDelete(c)
<1>0. ~ UNCHANGED store /\ ~ UNCHANGED cluster
  BY DEF Kept, cluster, store
<1>1. ~ UNCHANGED vars
  BY <1>0 DEF vars, store
<1>2. ASSUME NEW s \in Sources, UserChange(s) \/ Source(s)
      PROVE  \/ UpsertPut(s) /\ want[s].cm = c
             \/ RemoveSend(s) /\ got[s].cm = c
  <2>1. UpsertPut(s) \/ RemoveSend(s)
    BY <1>0, <1>2 DEF Source, UserChange, UpsertLock, UpsertGet, UpsertFails, RemoveScan,
       RemoveKey, RemoveFails
  <2>2. ASSUME UpsertPut(s)
        PROVE  want[s].cm = c
    BY <1>0, <2>2, UpsertSends DEF Stored, Kept
  <2>3. ASSUME RemoveSend(s)
        PROVE  got[s].cm = c
    BY <1>0, <2>3, RemoveSends DEF Stored, Kept
  <2> QED
    BY <2>1, <2>2, <2>3
<1>3. ASSUME PrepPutEvent
      PROVE  event.cm = c
  <2>1. Stored(event.cm)
    BY <1>0, <1>3, EventAtHand, WritesBack DEF PrepPutEvent
  <2> QED
    BY <2>1 DEF Stored, Kept
<1>4. ASSUME PrepPutCached
      PROVE  prepGot["register"].to.cm = c
  <2>1. Stored(prepGot["register"].to.cm)
    BY <1>0, <1>4, CachedAtHand, WritesBack DEF PrepPutCached
  <2> QED
    BY <2>1 DEF Stored, Kept
<1>5. ASSUME NEW d \in Cms, UserDelete(d)
      PROVE  d = c
  BY <1>5 DEF TypeOK, UserDelete, Kept
<1>6. ~ (Observe \/ Lead \/ PassSkip \/ PrepEvent \/ PrepFailsEvent)
  BY <1>0 DEF Kept, cluster, store, Observe, ObserveUpsert, ObserveDelete, Lead, PassSkip,
     PrepEvent, PrepFailsEvent, GiveUp
<1>7. ~ (RegisterGet \/ PrepCached \/ PrepFailsCached \/ Routed)
  BY <1>0 DEF cluster, store, RegisterGet, PrepCached, PrepFailsCached, GiveUp, Routed,
     PrepGetEvent, PrepGetCached
<1> QED
  BY <1>1, <1>2, <1>3, <1>4, <1>5, <1>6, <1>7 DEF Next, Pass, Replay

LEMMA Written ==
    ASSUME IInv, [Next]_vars, NEW c \in exists \cap exists'
    PROVE  /\ server[c].prepared => server'[c].prepared
           /\ ~ApiMayFail => \A t \in Sources : server'[c].data[t] # server[c].data[t] =>
                 server'[c].data[t] = Wanted(t, c) \/ PutBack(c, t)
<1>1. c \in Cms /\ TypeOK /\ ControlInv /\ CopyInv /\ CachedInv /\ c \in exists
  BY DEF IInv, StoreInv, TypeOK
<1>2. CASE Kept(c)
  BY <1>2 DEF Kept
<1>3. ASSUME NEW s \in Sources, UpsertPut(s), want[s].cm = c, ~Kept(c)
      PROVE  /\ server[c].prepared => server'[c].prepared
             /\ \A t \in Sources : server'[c].data[t] # server[c].data[t] =>
                   server'[c].data[t] = Wanted(t, c)
  <2>1. /\ pc[s] = "put" /\ got[s] # None /\ got[s] \in Objects /\ got[s].rv = server[c].rv
        /\ server'[c].prepared = got[s].prepared
        /\ server'[c].data[s] = want[s].val
        /\ \A t \in Sources \ {s} : server'[c].data[t] = got[s].data[t]
    <3>1. ~ UNCHANGED cluster
      BY <1>3 DEF Kept, cluster
    <3> QED
      BY <1>1, <1>3, <3>1, UpsertSends
  <2>2. got[s] = server[c]
    BY <1>1, <1>3, <2>1 DEF CopyInv, Faithful
  <2>3. want[s] # None
    BY <1>1, <2>1 DEF TypeOK, SourceOK
  <2> QED
    BY <1>3, <2>1, <2>2, <2>3 DEF Wanted
<1>4. ASSUME NEW s \in Sources, RemoveSend(s), got[s].cm = c, ~Kept(c)
      PROVE  /\ server[c].prepared => server'[c].prepared
             /\ ~ApiMayFail => \A t \in Sources : server'[c].data[t] # server[c].data[t] =>
                   server'[c].data[t] = Wanted(t, c)
  <2> DEFINE i == got[s].at
  <2>1. /\ i \in DOMAIN objs[c] /\ objs[c][i].rv = server[c].rv
        /\ server'[c].prepared = objs[c][i].prepared
        /\ server'[c].data = objs[c][i].data
    <3>1. ~ UNCHANGED cluster
      BY <1>4 DEF Kept, cluster
    <3> QED
      BY <1>1, <1>4, <3>1, RemoveSends DEF Target
  <2>2. CachedOK(c, i)
    BY <1>1, <2>1, CachedParts
  <2>3. \A t \in Sources : pc[t] = "send" => Wanted(t, c) = None
    BY <1>1 DEF ControlInv, Wanted
  <2> QED
    BY <2>1, <2>2, <2>3 DEF CachedOK
<1>5. ASSUME PrepPutEvent, event.cm = c, ~Kept(c)
      PROVE  /\ server'[c].prepared
             /\ \A t \in Sources : server'[c].data[t] # server[c].data[t] => PutBack(c, t)
  <2>1. event # None /\ event.obj.data \in Data /\ prepGot["watch"] \in Objects \cup {None}
        /\ prep["watch"] = "put"
    BY <1>1, <1>5, EventAtHand DEF PrepPutEvent
  <2>2. WriteBack(c, prepGot["watch"], event.obj.data)
    BY <1>5 DEF PrepPutEvent
  <2>3. ~ UNCHANGED cluster
    BY <1>5 DEF Kept, cluster
  <2>4. /\ prepGot["watch"] # None /\ prepGot["watch"].rv = server[c].rv
        /\ server'[c].prepared
        /\ \A t \in Sources :
              server'[c].data[t] \in {event.obj.data[t], prepGot["watch"].data[t]}
    BY <1>1, <2>1, <2>2, <2>3, WritesBack
  <2>5. prepGot["watch"] = server[c]
    BY <1>1, <1>5, <2>1, <2>4 DEF CopyInv, Faithful
  <2> QED
    BY <1>5, <2>4, <2>5 DEF PutBack
<1>6. ASSUME PrepPutCached, prepGot["register"].to.cm = c, ~Kept(c)
      PROVE  /\ server'[c].prepared
             /\ \A t \in Sources : server'[c].data[t] # server[c].data[t] => PutBack(c, t)
  <2> DEFINE p == prepGot["register"].to
             read == prepGot["register"].obj
  <2>1. read \in Objects \cup {None} /\ prep["register"] = "put"
    BY <1>1, <1>6, CachedAtHand DEF PrepPutCached
  <2>2. Target(p).data \in Data
    BY <1>1, <1>6, CachedAtHand DEF PrepPutCached
  <2>3. WriteBack(c, read, Target(p).data)
    BY <1>6 DEF PrepPutCached
  <2>4. ~ UNCHANGED cluster
    BY <1>6 DEF Kept, cluster
  <2>5. /\ read # None /\ read.rv = server[c].rv
        /\ server'[c].prepared
        /\ \A t \in Sources : server'[c].data[t] \in {Target(p).data[t], read.data[t]}
    BY <1>1, <2>1, <2>2, <2>3, <2>4, WritesBack
  <2>6. read = server[c]
    BY <1>1, <1>6, <2>1, <2>5 DEF CopyInv, Faithful
  <2> QED
    BY <1>6, <2>5, <2>6 DEF PutBack
<1>7. ~ UserDelete(c)
  BY DEF UserDelete
<1> QED
  BY <1>1, <1>2, <1>3, <1>4, <1>5, <1>6, <1>7, Writers

(* No writer takes the tunnel's id out of a ConfigMap again, whichever     *)
(* copy it writes from, with failing API calls and concurrent deletes.     *)
THEOREM IdIsKept == Spec => IdStays
<1>1. IInv /\ [Next]_vars =>
         [\A c \in exists \cap exists' : server[c].prepared => server'[c].prepared]_vars
  BY Written
<1> QED
  BY <1>1, Invariance, PTL DEF Spec, IdStays

(* Without failing API calls no write undoes the rules of another source,  *)
(* but for the write-back, which puts back what its event showed.          *)
THEOREM NobodyElsesRules ==
    ASSUME ~ApiMayFail
    PROVE  Spec => RulesFollowSources
<1>1. IInv /\ [Next]_vars =>
         [\A c \in exists \cap exists', s \in Sources :
            server'[c].data[s] # server[c].data[s] =>
                server'[c].data[s] = Wanted(s, c) \/ PutBack(c, s)]_vars
  BY Written
<1> QED
  BY <1>1, Invariance, PTL DEF Spec, RulesFollowSources
=============================================================================
