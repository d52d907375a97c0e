--------------------------- MODULE WatcherProofs ---------------------------
(***************************************************************************)
(* Theorems about Watcher, for every set of objects and callbacks and      *)
(* every bound.                                                            *)
(***************************************************************************)
EXTENDS Watcher, FiniteSetTheorems, SequenceTheorems, TLAPS

(***************************************************************************)
(* Why LateToldLive holds: an object that exists and no event of the       *)
(* channel is about is in the map by then, so a callback has heard of it,  *)
(* is being told now, or finds it in its snapshot.                         *)
(***************************************************************************)
Awaiting(b, u) == \/ BeingTold(b, u)
                  \/ reg[b] = "adding"
                  \/ reg[b] = "replaying" /\ todo[b][u] # 0

HeardInv ==
    wif = "open" /\ Running =>
        \A u \in Uids : NoneAbout(chan, u) /\ Live(u) =>
            \A b \in bindings : Awaiting(b, u) \/ view[b][u] \in Versions
-----------------------------------------------------------------------------
(* Events have the fields the loop reads.                                  *)
LEMMA EventTypes ==
    ASSUME NEW e \in Events
    PROVE  /\ e.type \in {"ADDED", "MODIFIED", "DELETED", "ERROR"}
           /\ e.type # "ERROR" => /\ e \in ObjectEvents
                                  /\ e.uid \in Uids
                                  /\ e.ver \in 1 .. Dead
                                  /\ e.type = "DELETED" <=> e.ver = Dead
                                  /\ Kept(e) \in 0 .. MaxVersion
           /\ e.type = "ERROR" <=> e = Status
<1>1. CASE e = Status
  BY <1>1 DEF Status
<1>2. CASE e \in ObjectEvents
  <2>1. PICK u \in Uids : e \in Event(u)
    BY <1>2 DEF ObjectEvents
  <2>2. CASE e \in [type : {"ADDED", "MODIFIED"}, uid : {u}, ver : Versions]
    <3>1. e.type \in {"ADDED", "MODIFIED"} /\ e.uid = u /\ e.ver \in Versions
      BY <2>2
    <3>2. e # Status
      BY <3>1 DEF Status
    <3> QED
      BY <1>2, <3>1, <3>2, BoundsAssumption DEF Versions, Dead, Kept
  <2>3. CASE e \in [type : {"DELETED"}, uid : {u}, ver : {Dead}]
    <3>1. e.type = "DELETED" /\ e.uid = u /\ e.ver = Dead
      BY <2>3
    <3>2. e # Status
      BY <3>1 DEF Status
    <3> QED
      BY <1>2, <3>1, <3>2, BoundsAssumption DEF Dead, Kept
  <2> QED
    BY <2>1, <2>2, <2>3 DEF Event
<1> QED
  BY <1>1, <1>2 DEF Events

(* The events the server makes are events.                                 *)
LEMMA MadeEvents ==
    ASSUME NEW u \in Uids
    PROVE  /\ \A v \in Versions :
                 /\ [type |-> "ADDED", uid |-> u, ver |-> v] \in ObjectEvents
                 /\ [type |-> "MODIFIED", uid |-> u, ver |-> v] \in ObjectEvents
           /\ [type |-> "DELETED", uid |-> u, ver |-> Dead] \in ObjectEvents
<1>1. \A v \in Versions :
         /\ [type |-> "ADDED", uid |-> u, ver |-> v] \in Event(u)
         /\ [type |-> "MODIFIED", uid |-> u, ver |-> v] \in Event(u)
  BY DEF Event
<1>2. [type |-> "DELETED", uid |-> u, ver |-> Dead] \in Event(u)
  BY DEF Event
<1> QED
  BY <1>1, <1>2 DEF ObjectEvents

(* A listing of the live objects, as the events a new watch starts with.   *)
LEMMA ListingEvents ==
    ASSUME NEW s \in Listings
    PROVE  /\ Added(s) \in Seq(Events)
           /\ \A i \in DOMAIN Added(s) :
                 /\ Added(s)[i].type = "ADDED"
                 /\ Added(s)[i].uid \in LiveUids
                 /\ Added(s)[i].ver = store[Added(s)[i].uid]
           /\ \A u \in LiveUids : \E i \in DOMAIN Added(s) : Added(s)[i].uid = u
<1> DEFINE n == Cardinality(LiveUids)
<1>1. LiveUids \subseteq Uids
  BY DEF LiveUids
<1>2. n \in Nat
  BY <1>1, UidsAssumption, FS_Subset, FS_CardinalityType
<1>3. s \in [1 .. n -> LiveUids] /\ \A u \in LiveUids : \E i \in 1 .. n : s[i] = u
  BY DEF Listings
<1>4. DOMAIN Added(s) = 1 .. n
  BY <1>3 DEF Added
<1>5. ASSUME NEW i \in 1 .. n
      PROVE  /\ Added(s)[i] = [type |-> "ADDED", uid |-> s[i], ver |-> store[s[i]]]
             /\ s[i] \in LiveUids
             /\ Added(s)[i] \in Events
  <2>1. s[i] \in LiveUids /\ s[i] \in Uids /\ store[s[i]] \in Versions
    BY <1>3 DEF LiveUids, Live
  <2>2. Added(s)[i] = [type |-> "ADDED", uid |-> s[i], ver |-> store[s[i]]]
    BY <1>3 DEF Added
  <2> QED
    BY <2>1, <2>2, MadeEvents DEF Events
<1>6. Added(s) \in [1 .. n -> Events]
  BY <1>3, <1>5 DEF Added
<1> QED
  BY <1>2, <1>3, <1>4, <1>5, <1>6

LEMMA CutEvents ==
    ASSUME chan \in Seq(Events), NEW rest \in Cuts
    PROVE  rest \in Seq(Events)
<1>1. PICK n \in 0 .. Len(chan) : rest = SubSeq(chan, 1, n)
  BY DEF Cuts
<1> QED
  BY <1>1, SubSeqProperties
-----------------------------------------------------------------------------
(* The variables have their types, whatever the interleaving.              *)
LEMMA TypeInit == Init => TypeOK
<1> SUFFICES ASSUME Init PROVE TypeOK
  OBVIOUS
<1>1. store \in [Uids -> 0 .. Dead] /\ closes \in 0 .. MaxCloses
  BY BoundsAssumption DEF Init, Dead
<1>2. /\ state \in [Uids -> 0 .. MaxVersion]
      /\ todo \in [Bindings -> [Uids -> 0 .. MaxVersion]]
      /\ view \in [Bindings -> [Uids -> 0 .. Dead]]
  BY BoundsAssumption DEF Init, Dead, NoTodo
<1>3. chan \in Seq(Events) /\ ev \in Events
  BY DEF Init, Events
<1> QED
  BY <1>1, <1>2, <1>3 DEF Init, TypeOK

LEMMA TypeServer == TypeOK /\ Server => TypeOK'
<1> SUFFICES ASSUME TypeOK, Server PROVE TypeOK'
  OBVIOUS
<1> USE BoundsAssumption
<1> HIDE DEF Events, ObjectEvents, Status
<1>1. ASSUME NEW u \in Uids, Create(u) PROVE TypeOK'
  <2>1. [type |-> "ADDED", uid |-> u, ver |-> 1] \in Events
    <3>1. 1 \in Versions
      BY DEF Versions
    <3> QED
      BY <3>1, MadeEvents DEF Events
  <2>2. store' \in [Uids -> 0 .. Dead]
    BY <1>1 DEF Create, TypeOK, Dead
  <2>3. chan' \in Seq(Events)
    BY <1>1, <2>1 DEF Create, TypeOK, Emit
  <2> QED
    BY <1>1, <2>2, <2>3 DEF Create, TypeOK, Local
<1>2. ASSUME NEW u \in Uids, Modify(u) PROVE TypeOK'
  <2>1. store[u] + 1 \in Versions
    BY <1>2 DEF Modify, Live, Versions, TypeOK
  <2>2. [type |-> "MODIFIED", uid |-> u, ver |-> store[u] + 1] \in Events
    BY <2>1, MadeEvents DEF Events
  <2>3. store' \in [Uids -> 0 .. Dead]
    BY <1>2, <2>1 DEF Modify, TypeOK, Dead, Versions
  <2>4. chan' \in Seq(Events)
    BY <1>2, <2>2 DEF Modify, TypeOK, Emit
  <2> QED
    BY <1>2, <2>3, <2>4 DEF Modify, TypeOK, Local
<1>3. ASSUME NEW u \in Uids, Remove(u) PROVE TypeOK'
  <2>1. [type |-> "DELETED", uid |-> u, ver |-> Dead] \in Events
    BY MadeEvents DEF Events
  <2>2. store' \in [Uids -> 0 .. Dead]
    BY <1>3 DEF Remove, TypeOK, Dead
  <2>3. chan' \in Seq(Events)
    BY <1>3, <2>1 DEF Remove, TypeOK, Emit
  <2> QED
    BY <1>3, <2>2, <2>3 DEF Remove, TypeOK, Local
<1>4. ASSUME CloseWatch PROVE TypeOK'
  <2>1. chan' \in Seq(Events)
    <3>1. PICK rest \in Cuts : chan' \in {rest, Append(rest, Status)}
      BY <1>4 DEF CloseWatch
    <3>2. rest \in Seq(Events)
      BY CutEvents DEF TypeOK
    <3> QED
      BY <3>1, <3>2 DEF Events
  <2>2. closes' \in 0 .. MaxCloses
    BY <1>4 DEF CloseWatch, TypeOK
  <2> QED
    BY <1>4, <2>1, <2>2 DEF CloseWatch, TypeOK, Local
<1> QED
  BY <1>1, <1>2, <1>3, <1>4 DEF Server

LEMMA TypeOwner == TypeOK /\ Owner => TypeOK'
<1> SUFFICES ASSUME TypeOK, Owner PROVE TypeOK'
  OBVIOUS
<1> USE DEF server, watch, thread, regs
<1>1. ASSUME StartWatch PROVE TypeOK'
  <2>1. chan' \in Seq(Events)
    BY <1>1, ListingEvents DEF StartWatch, OpenWatch
  <2> QED
    BY <1>1, <2>1 DEF StartWatch, OpenWatch, TypeOK
<1>2. ASSUME StartWatchFails PROVE TypeOK'
  BY <1>2 DEF StartWatchFails, TypeOK, Local
<1>3. ASSUME StartList PROVE TypeOK'
  <2>1. state' \in [Uids -> 0 .. MaxVersion]
    BY <1>3, BoundsAssumption DEF StartList, TypeOK, Live, Versions
  <2> QED
    BY <1>3, <2>1 DEF StartList, TypeOK
<1>4. ASSUME StartListFails PROVE TypeOK'
  BY <1>4 DEF StartListFails, TypeOK
<1>5. ASSUME StopBegin PROVE TypeOK'
  BY <1>5 DEF StopBegin, TypeOK
<1>6. ASSUME StopWif PROVE TypeOK'
  <2>1. chan' \in Seq(Events)
    BY <1>6, CutEvents DEF StopWif, TypeOK
  <2> QED
    BY <1>6, <2>1 DEF StopWif, TypeOK
<1>7. ASSUME StopNilWif PROVE TypeOK'
  BY <1>7 DEF StopNilWif, TypeOK
<1>8. ASSUME StopFinish PROVE TypeOK'
  <2>1. state' \in [Uids -> 0 .. MaxVersion]
    BY <1>8, BoundsAssumption DEF StopFinish
  <2>2. chan' \in Seq(Events)
    BY <1>8 DEF StopFinish
  <2>3. owner' = "idle" /\ watchState' = "stopped" /\ wif' = "nil"
    BY <1>8 DEF StopFinish
  <2>4. restarted' = FALSE /\ bindings' = {}
    BY <1>8 DEF StopFinish
  <2>5. UNCHANGED <<store, closes, loop, ev, calls, reg, todo, view, panicked>>
    BY <1>8 DEF StopFinish
  <2> QED
    BY <2>1, <2>2, <2>3, <2>4, <2>5 DEF TypeOK
<1> QED
  BY <1>1, <1>2, <1>3, <1>4, <1>5, <1>6, <1>7, <1>8 DEF Owner

LEMMA TypeLoop == TypeOK /\ LoopStep => TypeOK'
<1> SUFFICES ASSUME TypeOK, LoopStep PROVE TypeOK'
  OBVIOUS
<1> USE DEF server, watch, thread, regs
<1>1. ASSUME RecvObject PROVE TypeOK'
  <2>1. chan # <<>> /\ Head(chan) \in Events /\ Tail(chan) \in Seq(Events)
    BY <1>1 DEF RecvObject, Receiving, TypeOK
  <2>2. Head(chan) \in ObjectEvents /\ Kept(Head(chan)) \in 0 .. MaxVersion
    BY <1>1, <2>1, EventTypes DEF RecvObject
  <2>3. state' \in [Uids -> 0 .. MaxVersion]
    BY <1>1, <2>2 DEF RecvObject, TypeOK
  <2> QED
    BY <1>1, <2>1, <2>2, <2>3 DEF RecvObject, TypeOK
<1>2. ASSUME RecvStatus PROVE TypeOK'
  <2>1. chan # <<>> /\ Tail(chan) \in Seq(Events)
    BY <1>2 DEF RecvStatus, Receiving, TypeOK
  <2> QED
    BY <1>2, <2>1 DEF RecvStatus, TypeOK
<1>3. ASSUME RecvClosed PROVE TypeOK'
  BY <1>3 DEF RecvClosed, TypeOK
<1>4. ASSUME Rewatch PROVE TypeOK'
  <2>1. chan' \in Seq(Events)
    BY <1>4, ListingEvents DEF Rewatch, OpenWatch
  <2> QED
    BY <1>4, <2>1 DEF Rewatch, OpenWatch, TypeOK
<1>5. ASSUME RewatchFails PROVE TypeOK'
  BY <1>5 DEF RewatchFails, TypeOK
<1>6. ASSUME Wake PROVE TypeOK'
  BY <1>6 DEF Wake, TypeOK
<1>7. ASSUME CopyBindings PROVE TypeOK'
  BY <1>7 DEF CopyBindings, TypeOK
<1>8. ASSUME CallsDone PROVE TypeOK'
  BY <1>8 DEF CallsDone, TypeOK
<1>9. ASSUME NEW b \in Bindings, Call(b) PROVE TypeOK'
  <2>1. ev \in ObjectEvents /\ ev.type # "ERROR"
    <3>1. ev \in ObjectEvents
      BY <1>9 DEF Call, TypeOK
    <3> QED
      BY <3>1 DEF ObjectEvents, Event
  <2>2. ev.ver \in 0 .. Dead
    BY <2>1, EventTypes, BoundsAssumption DEF Events, Dead
  <2>3. view' \in [Bindings -> [Uids -> 0 .. Dead]]
    BY <1>9, <2>2 DEF Call, TypeOK
  <2> QED
    BY <1>9, <2>3 DEF Call, TypeOK
<1> QED
  BY <1>1, <1>2, <1>3, <1>4, <1>5, <1>6, <1>7, <1>8, <1>9 DEF LoopStep

LEMMA TypeCaller == ASSUME TypeOK, NEW b \in Bindings, Caller(b) PROVE TypeOK'
<1> USE DEF server, watch, thread, regs
<1>1. ASSUME RegisterAdd(b) PROVE TypeOK'
  <2>1. view' \in [Bindings -> [Uids -> 0 .. Dead]]
    BY <1>1, BoundsAssumption DEF RegisterAdd, TypeOK, Dead
  <2> QED
    BY <1>1, <2>1 DEF RegisterAdd, TypeOK
<1>2. ASSUME RegisterSnapshot(b) PROVE TypeOK'
  BY <1>2 DEF RegisterSnapshot, TypeOK
<1>3. ASSUME RegisterReplay(b) PROVE TypeOK'
  <2>1. PICK u \in Uids : /\ view' = [view EXCEPT ![b][u] = todo[b][u]]
                          /\ todo' = [todo EXCEPT ![b][u] = 0]
    BY <1>3 DEF RegisterReplay
  <2>2. view' \in [Bindings -> [Uids -> 0 .. Dead]]
    BY <2>1, BoundsAssumption DEF TypeOK, Dead
  <2>3. todo' \in [Bindings -> [Uids -> 0 .. MaxVersion]]
    BY <2>1, BoundsAssumption DEF TypeOK
  <2> QED
    BY <1>3, <2>2, <2>3 DEF RegisterReplay, TypeOK
<1>4. ASSUME RegisterReturn(b) PROVE TypeOK'
  BY <1>4 DEF RegisterReturn, TypeOK
<1>5. ASSUME Unregister(b) PROVE TypeOK'
  BY <1>5 DEF Unregister, TypeOK
<1> QED
  BY <1>1, <1>2, <1>3, <1>4, <1>5 DEF Caller

LEMMA TypeStep == TypeOK /\ [Next]_vars => TypeOK'
<1> SUFFICES ASSUME TypeOK, [Next]_vars PROVE TypeOK'
  OBVIOUS
<1>1. CASE UNCHANGED vars
  BY <1>1 DEF vars, TypeOK
<1> QED
  BY <1>1, TypeServer, TypeOwner, TypeLoop, TypeCaller DEF Next

(* Every step of every party, API failures and restarts included, keeps    *)
(* the variables of the watcher within their types.                        *)
THEOREM TypeCorrect == Spec => []TypeOK
<1> QED
  BY TypeInit, TypeStep, PTL DEF Spec
-----------------------------------------------------------------------------
(***************************************************************************)
(* What each use of the channel does to the events about an object.        *)
(***************************************************************************)
LEMMA AfterAppend ==
    ASSUME NEW q \in Seq(Events), NEW e \in Events, NEW u
    PROVE  /\ NoneAbout(Append(q, e), u) <=> NoneAbout(q, u) /\ ~IsAbout(e, u)
           /\ \A i \in DOMAIN Append(q, e) : LastAbout(Append(q, e), i, u) =>
                 \/ Append(q, e)[i] = e /\ IsAbout(e, u)
                 \/ /\ i \in DOMAIN q /\ Append(q, e)[i] = q[i]
                    /\ LastAbout(q, i, u) /\ ~IsAbout(e, u)
<1> DEFINE r == Append(q, e)
<1>1. /\ DOMAIN q = 1 .. Len(q) /\ Len(q) \in Nat
      /\ DOMAIN r = 1 .. Len(q) + 1
      /\ \A i \in 1 .. Len(q) : r[i] = q[i]
      /\ r[Len(q) + 1] = e
  OBVIOUS
<1> HIDE DEF r
<1>2. NoneAbout(r, u) <=> NoneAbout(q, u) /\ ~IsAbout(e, u)
  BY <1>1 DEF NoneAbout
<1>3. ASSUME NEW i \in DOMAIN r, LastAbout(r, i, u)
      PROVE  \/ r[i] = e /\ IsAbout(e, u)
             \/ i \in DOMAIN q /\ r[i] = q[i] /\ LastAbout(q, i, u) /\ ~IsAbout(e, u)
  <2>1. CASE i = Len(q) + 1
    BY <1>1, <1>3, <2>1 DEF LastAbout
  <2>2. CASE i \in 1 .. Len(q)
    BY <1>1, <1>3, <2>2 DEF LastAbout
  <2> QED
    BY <1>1, <2>1, <2>2
<1> QED
  BY <1>2, <1>3 DEF r

LEMMA AfterTail ==
    ASSUME NEW q \in Seq(Events), q # <<>>, NEW u
    PROVE  /\ NoneAbout(Tail(q), u) /\ ~IsAbout(Head(q), u) => NoneAbout(q, u)
           /\ NoneAbout(Tail(q), u) /\ IsAbout(Head(q), u) => LastAbout(q, 1, u)
           /\ \A i \in DOMAIN Tail(q) : LastAbout(Tail(q), i, u) =>
                 i + 1 \in DOMAIN q /\ Tail(q)[i] = q[i + 1] /\ LastAbout(q, i + 1, u)
<1> DEFINE r == Tail(q)
<1>1. /\ DOMAIN q = 1 .. Len(q) /\ Len(q) \in Nat \ {0}
      /\ DOMAIN r = 1 .. Len(q) - 1
      /\ \A i \in 1 .. Len(q) - 1 : r[i] = q[i + 1]
      /\ Head(q) = q[1]
  OBVIOUS
<1> HIDE DEF r
<1>2. ASSUME NoneAbout(r, u), NEW j \in DOMAIN q, j > 1
      PROVE  ~IsAbout(q[j], u)
  <2>1. j - 1 \in DOMAIN r /\ r[j - 1] = q[j]
    BY <1>1, <1>2
  <2> QED
    BY <1>2, <2>1 DEF NoneAbout
<1>3. NoneAbout(r, u) /\ ~IsAbout(Head(q), u) => NoneAbout(q, u)
  <2> SUFFICES ASSUME NoneAbout(r, u), ~IsAbout(Head(q), u), NEW j \in DOMAIN q
               PROVE  ~IsAbout(q[j], u)
    BY DEF NoneAbout
  <2>1. j = 1 \/ j > 1
    BY <1>1
  <2> QED
    BY <1>1, <1>2, <2>1
<1>4. NoneAbout(r, u) /\ IsAbout(Head(q), u) => LastAbout(q, 1, u)
  BY <1>1, <1>2 DEF LastAbout
<1>5. ASSUME NEW i \in DOMAIN r, LastAbout(r, i, u)
      PROVE  i + 1 \in DOMAIN q /\ r[i] = q[i + 1] /\ LastAbout(q, i + 1, u)
  <2>1. i + 1 \in DOMAIN q /\ r[i] = q[i + 1]
    BY <1>1
  <2>2. ASSUME NEW j \in DOMAIN q, j > i + 1 PROVE ~IsAbout(q[j], u)
    <3>1. j - 1 \in DOMAIN r /\ j - 1 > i /\ r[j - 1] = q[j]
      BY <1>1, <2>2
    <3> QED
      BY <1>5, <3>1 DEF LastAbout
  <2> QED
    BY <1>5, <2>1, <2>2 DEF LastAbout
<1> QED
  BY <1>3, <1>4, <1>5 DEF r

LEMMA AfterListing ==
    ASSUME NEW s \in Listings, NEW u \in Uids
    PROVE  /\ NoneAbout(Added(s), u) => ~Live(u)
           /\ \A i \in DOMAIN Added(s) : LastAbout(Added(s), i, u) =>
                 Added(s)[i].ver = store[u]
<1>1. ASSUME Live(u) PROVE ~NoneAbout(Added(s), u)
  <2>1. PICK i \in DOMAIN Added(s) : Added(s)[i].uid = u
    BY <1>1, ListingEvents DEF LiveUids
  <2>2. Added(s)[i].type # "ERROR"
    BY <2>1, ListingEvents
  <2> QED
    BY <2>1, <2>2 DEF NoneAbout, IsAbout
<1>2. ASSUME NEW i \in DOMAIN Added(s), LastAbout(Added(s), i, u)
      PROVE  Added(s)[i].ver = store[u]
  BY <1>2, ListingEvents DEF LastAbout, IsAbout
<1> QED
  BY <1>1, <1>2
-----------------------------------------------------------------------------
LEMMA ForwardInit == Init => ForwardInv
<1> SUFFICES ASSUME Init PROVE ForwardInv
  OBVIOUS
<1>1. QueueInv /\ WorkInv /\ ReplayInv
  BY BindingsAssumption DEF Init, QueueInv, WorkInv, Working, ReplayInv
<1>2. ViewInv
  <2> SUFFICES ASSUME NEW b \in EarlyBindings, NEW u \in Uids
               PROVE  view[b][u] <= store[u]
    BY DEF ViewInv
  <2>1. view[b][u] = 0 /\ store[u] \in 0 .. 1
    BY BindingsAssumption DEF Init
  <2> QED
    BY <2>1
<1> QED
  BY <1>1, <1>2 DEF ForwardInv

LEMMA SyncInit == Init => SyncInv
<1> SUFFICES ASSUME Init PROVE SyncInv
  OBVIOUS
<1>1. PhaseInv
  BY DEF Init, PhaseInv
<1>2. ChanInv /\ StateInv /\ ToldInv
  BY DEF Init, ChanInv, StateInv, ToldInv
<1> QED
  BY <1>1, <1>2, ForwardInit DEF SyncInv

LEMMA PhaseStep == TypeOK /\ PhaseInv /\ Next => PhaseInv'
<1> SUFFICES ASSUME TypeOK, PhaseInv, Next PROVE PhaseInv'
  OBVIOUS
<1> USE DEF PhaseInv, Settled, server, watch, thread, regs
<1>1. ASSUME Server PROVE PhaseInv'
  <2>1. UNCHANGED Local
    BY <1>1 DEF Server, Create, Modify, Remove, CloseWatch
  <2>2. UNCHANGED <<state, watchState, restarted, owner, loop, reg>>
    BY <2>1 DEF Local
  <2> QED
    BY <2>2
<1>2. ASSUME Owner PROVE PhaseInv'
  <2>1. CASE StartWatch
    BY <2>1 DEF StartWatch
  <2>2. CASE StartWatchFails
    BY <2>2 DEF StartWatchFails, Local
  <2>3. CASE StartList
    BY <2>3 DEF StartList
  <2>4. CASE StartListFails
    BY <2>4 DEF StartListFails
  <2>5. CASE StopBegin
    BY <2>5 DEF StopBegin
  <2>6. CASE StopWif
    BY <2>6 DEF StopWif
  <2>7. CASE StopNilWif
    BY <2>7 DEF StopNilWif
  <2>8. CASE StopFinish
    BY <2>8 DEF StopFinish
  <2> QED
    BY <1>2, <2>1, <2>2, <2>3, <2>4, <2>5, <2>6, <2>7, <2>8 DEF Owner
<1>3. ASSUME LoopStep PROVE PhaseInv'
  <2>1. CASE RecvObject
    BY <2>1 DEF RecvObject, Receiving
  <2>2. CASE RecvStatus \/ Wake \/ CopyBindings \/ CallsDone
    BY <2>2 DEF RecvStatus, Receiving, Wake, CopyBindings, CallsDone
  <2>3. CASE RecvClosed
    BY <2>3 DEF RecvClosed
  <2>4. CASE Rewatch \/ RewatchFails
    BY <2>4 DEF Rewatch, RewatchFails
  <2>5. ASSUME NEW b \in Bindings, Call(b) PROVE PhaseInv'
    BY <2>5 DEF Call
  <2> QED
    BY <1>3, <2>1, <2>2, <2>3, <2>4, <2>5 DEF LoopStep
<1>4. ASSUME NEW b \in Bindings, Caller(b) PROVE PhaseInv'
  <2>1. CASE RegisterAdd(b)
    <3>1. ~(watchState # "stopped" \/ owner # "idle") \/ b \notin EarlyBindings
      BY <2>1 DEF RegisterAdd, MayRegister
    <3> QED
      BY <2>1, <3>1, BindingsAssumption DEF RegisterAdd, TypeOK
  <2>2. CASE RegisterSnapshot(b)
    BY <2>2, BindingsAssumption DEF RegisterSnapshot, TypeOK
  <2>3. CASE RegisterReplay(b)
    BY <2>3 DEF RegisterReplay
  <2>4. CASE RegisterReturn(b)
    BY <2>4, BindingsAssumption DEF RegisterReturn, TypeOK
  <2>5. CASE Unregister(b)
    BY <2>5, BindingsAssumption DEF Unregister, TypeOK
  <2> QED
    BY <1>4, <2>1, <2>2, <2>3, <2>4, <2>5 DEF Caller
<1> QED
  BY <1>1, <1>2, <1>3, <1>4 DEF Next

(* A change of the store is answered by an event about the same object.    *)
LEMMA SyncEmit ==
    ASSUME TypeOK, SyncInv, NEW u \in Uids, NEW e \in ObjectEvents,
           e.uid = u, e.type # "ERROR", e.ver = store'[u],
           store' \in [Uids -> 0 .. Dead],
           \A v \in Uids \ {u} : store'[v] = store[v],
           Emit(e), UNCHANGED <<wif, Local>>
    PROVE  ChanInv' /\ StateInv' /\ ToldInv'
<1> SUFFICES ASSUME wif = "open" PROVE ChanInv' /\ StateInv' /\ ToldInv'
  BY DEF ChanInv, StateInv, ToldInv
<1>1. chan' = Append(chan, e) /\ e \in Events /\ chan \in Seq(Events)
  BY DEF Emit, Events, TypeOK
<1>2. \A v : IsAbout(e, v) <=> v = u
  BY DEF IsAbout
<1>3. \A v \in Uids : NoneAbout(chan', v) =>
           NoneAbout(chan, v) /\ v # u /\ store'[v] = store[v]
  BY <1>1, <1>2, AfterAppend
<1>4. ChanInv'
  <2> SUFFICES ASSUME NEW v \in Uids, NEW i \in DOMAIN chan', LastAbout(chan', i, v)
               PROVE  chan'[i].ver = store'[v]
    BY DEF ChanInv
  <2>1. CASE chan'[i] = e /\ IsAbout(e, v)
    BY <1>2, <2>1
  <2>2. CASE /\ i \in DOMAIN chan /\ chan'[i] = chan[i]
             /\ LastAbout(chan, i, v) /\ ~IsAbout(e, v)
    BY <1>2, <2>2 DEF SyncInv, ChanInv
  <2> QED
    BY <1>1, <2>1, <2>2, AfterAppend
<1>5. StateInv'
  BY <1>3 DEF SyncInv, StateInv, Local, Running, Live, Shown
<1>6. ToldInv'
  BY <1>3 DEF SyncInv, ToldInv, Local, Running, Live, BeingTold
<1> QED
  BY <1>4, <1>5, <1>6

LEMMA SyncServer == TypeOK /\ SyncInv /\ Server => ChanInv' /\ StateInv' /\ ToldInv'
<1> SUFFICES ASSUME TypeOK, SyncInv, Server
             PROVE  ChanInv' /\ StateInv' /\ ToldInv'
  OBVIOUS
<1> USE BoundsAssumption
<1>1. ASSUME NEW u \in Uids, Create(u) PROVE ChanInv' /\ StateInv' /\ ToldInv'
  <2> DEFINE e == [type |-> "ADDED", uid |-> u, ver |-> 1]
  <2>1. 1 \in Versions
    BY DEF Versions
  <2>2. e \in ObjectEvents
    BY <2>1, MadeEvents
  <2>3. e.uid = u /\ e.type # "ERROR" /\ e.ver = 1
    OBVIOUS
  <2>4. /\ store' \in [Uids -> 0 .. Dead] /\ store'[u] = 1
        /\ \A v \in Uids \ {u} : store'[v] = store[v]
    BY <1>1 DEF Create, TypeOK, Dead
  <2>5. Emit(e) /\ UNCHANGED <<wif, Local>>
    BY <1>1 DEF Create
  <2> HIDE DEF e
  <2> QED
    BY <2>2, <2>3, <2>4, <2>5, SyncEmit
<1>2. ASSUME NEW u \in Uids, Modify(u) PROVE ChanInv' /\ StateInv' /\ ToldInv'
  <2> DEFINE e == [type |-> "MODIFIED", uid |-> u, ver |-> store[u] + 1]
  <2>1. store[u] + 1 \in Versions
    BY <1>2 DEF Modify, Live, Versions, TypeOK
  <2>2. e \in ObjectEvents
    BY <2>1, MadeEvents
  <2>3. e.uid = u /\ e.type # "ERROR" /\ e.ver = store[u] + 1
    OBVIOUS
  <2>4. /\ store' \in [Uids -> 0 .. Dead] /\ store'[u] = store[u] + 1
        /\ \A v \in Uids \ {u} : store'[v] = store[v]
    BY <1>2, <2>1 DEF Modify, TypeOK, Dead, Versions
  <2>5. Emit(e) /\ UNCHANGED <<wif, Local>>
    BY <1>2 DEF Modify
  <2> HIDE DEF e
  <2> QED
    BY <2>2, <2>3, <2>4, <2>5, SyncEmit
<1>3. ASSUME NEW u \in Uids, Remove(u) PROVE ChanInv' /\ StateInv' /\ ToldInv'
  <2> DEFINE e == [type |-> "DELETED", uid |-> u, ver |-> Dead]
  <2>2. e \in ObjectEvents
    BY MadeEvents
  <2>3. e.uid = u /\ e.type # "ERROR" /\ e.ver = Dead
    OBVIOUS
  <2>4. /\ store' \in [Uids -> 0 .. Dead] /\ store'[u] = Dead
        /\ \A v \in Uids \ {u} : store'[v] = store[v]
    BY <1>3 DEF Remove, TypeOK, Dead
  <2>5. Emit(e) /\ UNCHANGED <<wif, Local>>
    BY <1>3 DEF Remove
  <2> HIDE DEF e
  <2> QED
    BY <2>2, <2>3, <2>4, <2>5, SyncEmit
<1>4. ASSUME CloseWatch PROVE ChanInv' /\ StateInv' /\ ToldInv'
  BY <1>4 DEF CloseWatch, ChanInv, StateInv, ToldInv
<1> QED
  BY <1>1, <1>2, <1>3, <1>4 DEF Server

LEMMA SyncOwner == TypeOK /\ SyncInv /\ Owner => ChanInv' /\ StateInv' /\ ToldInv'
<1> SUFFICES ASSUME TypeOK, SyncInv, Owner
             PROVE  ChanInv' /\ StateInv' /\ ToldInv'
  OBVIOUS
<1> USE DEF server, watch, thread, regs
<1>1. CASE StartWatch
  <2>1. PICK s \in Listings : chan' = Added(s)
    BY <1>1 DEF StartWatch, OpenWatch
  <2>2. ~Running' /\ UNCHANGED store
    BY <1>1 DEF StartWatch, SyncInv, PhaseInv, Running
  <2> QED
    BY <2>1, <2>2, AfterListing DEF ChanInv, StateInv, ToldInv, Live
<1>2. CASE StartWatchFails \/ StopWif \/ StopFinish
  <2>1. wif' # "open"
    BY <1>2 DEF StartWatchFails, StopWif, StopFinish
  <2> QED
    BY <2>1 DEF ChanInv, StateInv, ToldInv
<1>3. CASE StartList
  <2> SUFFICES ASSUME wif = "open" PROVE ChanInv' /\ StateInv' /\ ToldInv'
    BY <1>3 DEF StartList, ChanInv, StateInv, ToldInv
  <2>1. watchState = "stopped" /\ ~Running /\ \A u \in Uids : state[u] = 0
    BY <1>3 DEF StartList, SyncInv, PhaseInv, Running
  <2>2. \A u \in Uids : NoneAbout(chan, u) => ~Live(u) /\ state'[u] = 0
    BY <1>3, <2>1 DEF StartList, SyncInv, StateInv
  <2>3. UNCHANGED <<store, wif, chan>>
    BY <1>3 DEF StartList
  <2> QED
    BY <2>2, <2>3 DEF SyncInv, ChanInv, StateInv, ToldInv, Live, Shown
<1>4. CASE StartListFails \/ StopBegin \/ StopNilWif
  <2>1. UNCHANGED <<store, wif, chan, state, restarted, loop, ev, calls, bindings, view>>
    BY <1>4 DEF StartListFails, StopBegin, StopNilWif
  <2> QED
    BY <2>1 DEF SyncInv, ChanInv, StateInv, ToldInv, Running, Live, Shown, BeingTold
<1> QED
  BY <1>1, <1>2, <1>3, <1>4 DEF Owner

LEMMA SyncReceive == TypeOK /\ SyncInv /\ RecvObject => ChanInv' /\ StateInv' /\ ToldInv'
<1> SUFFICES ASSUME TypeOK, SyncInv, RecvObject
             PROVE  ChanInv' /\ StateInv' /\ ToldInv'
  OBVIOUS
<1>0. UNCHANGED <<store, wif, restarted, bindings, view>>
  BY DEF RecvObject, server, regs
<1> SUFFICES ASSUME wif = "open" PROVE ChanInv' /\ StateInv' /\ ToldInv'
  BY <1>0 DEF ChanInv, StateInv, ToldInv
<1> DEFINE e == Head(chan)
<1>1. /\ chan \in Seq(Events) /\ chan # <<>> /\ chan' = Tail(chan)
      /\ e \in Events /\ e.type # "ERROR" /\ e = chan[1] /\ 1 \in DOMAIN chan
      /\ ev' = e /\ loop = "receiving" /\ loop' = "applied"
  BY DEF RecvObject, Receiving, TypeOK
<1>2. /\ e.uid \in Uids /\ e.ver \in 1 .. Dead
      /\ e.type = "DELETED" <=> e.ver = Dead
  BY <1>1, EventTypes
<1>3. state' = [state EXCEPT ![e.uid] = Kept(e)] /\ state \in [Uids -> 0 .. MaxVersion]
  BY DEF RecvObject, TypeOK
<1> HIDE DEF e
<1>4. \A u : IsAbout(e, u) <=> u = e.uid
  BY <1>1 DEF IsAbout
<1>5. ASSUME NEW u \in Uids, NoneAbout(chan', u), u = e.uid
      PROVE  e.ver = store[u] /\ state'[u] = Shown(u)
  <2>1. LastAbout(chan, 1, u)
    BY <1>1, <1>4, <1>5, AfterTail DEF e
  <2>2. e.ver = store[u]
    BY <1>1, <2>1 DEF SyncInv, ChanInv
  <2>3. Kept(e) = Shown(u)
    BY <1>2, <2>2, BoundsAssumption DEF Kept, Shown, Live, Versions, Dead
  <2> QED
    BY <1>3, <1>5, <2>2, <2>3
<1>6. ASSUME NEW u \in Uids, NoneAbout(chan', u), u # e.uid
      PROVE  NoneAbout(chan, u) /\ state'[u] = state[u]
  BY <1>1, <1>3, <1>4, <1>6, AfterTail DEF e
<1>7. ChanInv'
  <2> SUFFICES ASSUME NEW u \in Uids, NEW i \in DOMAIN chan', LastAbout(chan', i, u)
               PROVE  chan'[i].ver = store[u]
    BY <1>0 DEF ChanInv
  <2> QED
    BY <1>1, AfterTail DEF SyncInv, ChanInv
<1>8. StateInv'
  <2> SUFFICES ASSUME NEW u \in Uids, NoneAbout(chan', u)
               PROVE  /\ Live(u) => state'[u] = store[u]
                      /\ ~restarted => state'[u] = Shown(u)
    BY <1>0, <1>1 DEF StateInv, Running, Live, Shown
  <2>1. CASE u = e.uid
    BY <1>5, <2>1 DEF Shown
  <2>2. CASE u # e.uid
    BY <1>1, <1>6, <2>2 DEF SyncInv, StateInv, Running
  <2> QED
    BY <2>1, <2>2
<1>9. ToldInv'
  <2> SUFFICES ASSUME NEW u \in Uids, NoneAbout(chan', u), Live(u)
               PROVE  /\ e.uid = u => e.ver = store[u]
                      /\ e.uid # u => \A b \in EarlyBindings \cap bindings :
                                        view[b][u] = store[u]
    BY <1>0, <1>1 DEF ToldInv, BeingTold, Live
  <2>1. CASE u = e.uid
    BY <1>5, <2>1
  <2>2. CASE u # e.uid
    BY <1>1, <1>6, <2>2 DEF SyncInv, ToldInv, Running, BeingTold
  <2> QED
    BY <2>1, <2>2
<1> QED
  BY <1>7, <1>8, <1>9

LEMMA SyncLoop == TypeOK /\ SyncInv /\ LoopStep => ChanInv' /\ StateInv' /\ ToldInv'
<1> SUFFICES ASSUME TypeOK, SyncInv, LoopStep
             PROVE  ChanInv' /\ StateInv' /\ ToldInv'
  OBVIOUS
<1> USE DEF server, watch, thread, regs
<1>1. CASE RecvObject
  BY <1>1, SyncReceive
<1>2. CASE RecvStatus
  <2>1. /\ chan \in Seq(Events) /\ chan # <<>> /\ chan' = Tail(chan)
        /\ Head(chan).type = "ERROR" /\ loop = "receiving"
    BY <1>2 DEF RecvStatus, Receiving, TypeOK
  <2>2. \A u \in Uids : NoneAbout(chan', u) => NoneAbout(chan, u)
    BY <2>1, AfterTail DEF IsAbout
  <2>3. UNCHANGED <<store, wif, state, restarted, loop, ev, calls, bindings, view>>
    BY <1>2 DEF RecvStatus
  <2>4. ChanInv'
    <3> SUFFICES ASSUME wif = "open",
                        NEW u \in Uids, NEW i \in DOMAIN chan', LastAbout(chan', i, u)
                 PROVE  chan'[i].ver = store[u]
      BY <2>3 DEF ChanInv
    <3> QED
      BY <2>1, AfterTail DEF SyncInv, ChanInv
  <2>5. StateInv' /\ ToldInv'
    BY <2>2, <2>3 DEF SyncInv, StateInv, ToldInv, Running, Live, Shown, BeingTold
  <2> QED
    BY <2>4, <2>5
<1>3. CASE RecvClosed \/ RewatchFails
  <2>1. wif' # "open"
    BY <1>3 DEF RecvClosed, RewatchFails
  <2> QED
    BY <2>1 DEF ChanInv, StateInv, ToldInv
<1>4. CASE Rewatch
  <2>1. PICK s \in Listings : chan' = Added(s)
    BY <1>4 DEF Rewatch, OpenWatch
  <2>2. restarted' /\ UNCHANGED store /\ Running'
    BY <1>4 DEF Rewatch, Running
  <2>3. ChanInv'
    BY <2>1, <2>2, AfterListing DEF ChanInv
  <2>4. \A u \in Uids : NoneAbout(chan', u) => ~Live(u) /\ store'[u] = store[u]
    BY <2>1, <2>2, AfterListing
  <2>5. StateInv' /\ ToldInv'
    BY <2>2, <2>4 DEF StateInv, ToldInv, Live
  <2> QED
    BY <2>3, <2>5
<1>5. CASE Wake \/ CopyBindings \/ CallsDone
  <2>1. UNCHANGED <<store, wif, chan, state, restarted, ev, bindings, view>>
    BY <1>5 DEF Wake, CopyBindings, CallsDone
  <2>2. Running /\ Running'
    BY <1>5 DEF Wake, CopyBindings, CallsDone, Running
  <2>3. ChanInv' /\ StateInv'
    BY <2>1, <2>2 DEF SyncInv, ChanInv, StateInv, Live, Shown
  <2>4. \A u \in Uids, b \in EarlyBindings \cap bindings : BeingTold(b, u) => BeingTold(b, u)'
    BY <1>5 DEF Wake, CopyBindings, CallsDone, BeingTold
  <2>5. loop' \in {"applied", "calling"} => loop \in {"applied", "calling"}
    BY <1>5 DEF Wake, CopyBindings, CallsDone
  <2>6. ToldInv'
    BY <2>1, <2>2, <2>4, <2>5 DEF SyncInv, ToldInv, Live
  <2> QED
    BY <2>3, <2>6
<1>6. ASSUME NEW c \in Bindings, Call(c) PROVE ChanInv' /\ StateInv' /\ ToldInv'
  <2>1. /\ UNCHANGED <<store, wif, chan, state, restarted, loop, ev, bindings>>
        /\ loop = "calling" /\ c \in calls /\ calls' = calls \ {c}
        /\ view' = [view EXCEPT ![c][ev.uid] = ev.ver]
    BY <1>6 DEF Call
  <2>2. ChanInv' /\ StateInv'
    BY <2>1 DEF SyncInv, ChanInv, StateInv, Running, Live, Shown
  <2>3. ToldInv'
    <3> SUFFICES ASSUME wif = "open", Running, NEW u \in Uids, NoneAbout(chan, u), Live(u)
                 PROVE  /\ ev.uid = u => ev.ver = store[u]
                        /\ \A b \in EarlyBindings \cap bindings :
                              ~(ev.uid = u /\ b \in calls') => view'[b][u] = store[u]
      BY <2>1 DEF ToldInv, Running, Live, BeingTold
    <3>1. /\ ev.uid = u => ev.ver = store[u]
          /\ \A b \in EarlyBindings \cap bindings :
                ~(ev.uid = u /\ b \in calls) => view[b][u] = store[u]
      BY <2>1 DEF SyncInv, ToldInv, BeingTold
    <3>2. ASSUME NEW b \in EarlyBindings \cap bindings, ~(ev.uid = u /\ b \in calls')
          PROVE  view'[b][u] = store[u]
      <4>1. CASE b = c /\ ev.uid = u
        BY <2>1, <3>1, <4>1 DEF TypeOK
      <4>2. CASE ~(b = c /\ ev.uid = u)
        <5>1. view'[b][u] = view[b][u]
          BY <2>1, <4>2, BindingsAssumption DEF TypeOK
        <5> QED
          BY <2>1, <3>1, <3>2, <4>2, <5>1
      <4> QED
        BY <4>1, <4>2
    <3> QED
      BY <3>1, <3>2
  <2> QED
    BY <2>2, <2>3
<1> QED
  BY <1>1, <1>2, <1>3, <1>4, <1>5, <1>6 DEF LoopStep

LEMMA SyncCaller ==
    ASSUME TypeOK, SyncInv, NEW c \in Bindings, Caller(c)
    PROVE  ChanInv' /\ StateInv' /\ ToldInv'
<1> USE DEF server, watch, thread, regs
<1>1. UNCHANGED <<store, wif, chan, state, restarted, loop, ev, calls, watchState, owner>>
  BY DEF Caller, RegisterAdd, RegisterSnapshot, RegisterReplay, RegisterReturn, Unregister
<1>2. ChanInv' /\ StateInv'
  BY <1>1 DEF SyncInv, ChanInv, StateInv, Running, Live, Shown
<1>3. ASSUME Running, NEW b \in EarlyBindings, b \in bindings', NEW u \in Uids
      PROVE  b \in bindings /\ view'[b][u] = view[b][u]
  <2>1. Settled(b) /\ watchState # "stopped" /\ b \in Bindings
    BY <1>3, BindingsAssumption DEF SyncInv, PhaseInv, Running
  <2>2. CASE RegisterAdd(c)
    BY <1>3, <2>1, <2>2 DEF RegisterAdd, MayRegister, TypeOK
  <2>3. CASE RegisterReplay(c)
    <3>1. c # b
      BY <2>1, <2>3 DEF RegisterReplay, Settled
    <3> QED
      BY <1>3, <2>1, <2>3, <3>1 DEF RegisterReplay, TypeOK
  <2>4. CASE RegisterSnapshot(c) \/ RegisterReturn(c)
    BY <1>3, <2>4 DEF RegisterSnapshot, RegisterReturn
  <2>5. CASE Unregister(c)
    BY <1>3, <2>5 DEF Unregister
  <2> QED
    BY <2>2, <2>3, <2>4, <2>5 DEF Caller
<1>4. ToldInv'
  BY <1>1, <1>3 DEF SyncInv, ToldInv, Running, Live, BeingTold
<1> QED
  BY <1>2, <1>4

-----------------------------------------------------------------------------
(***************************************************************************)
(* Nobody is told an older version than before.                            *)
(***************************************************************************)
(* What the channel keeps stays in order, if some events at its start (k   *)
(* of them) or at its end are gone.                                        *)
LEMMA QueueLess ==
    ASSUME TypeOK, QueueInv, store' = store,
           \A b \in EarlyBindings : view'[b] = view[b],
           NEW k \in Nat,
           \A i \in DOMAIN chan' :
              /\ i \in Nat
              /\ \/ chan'[i].type = "ERROR"
                 \/ i + k \in DOMAIN chan /\ chan'[i] = chan[i + k]
    PROVE  QueueInv'
<1>1. ASSUME NEW i \in DOMAIN chan'
      PROVE  Timely(chan[i])'
  BY <1>1 DEF QueueInv, Timely
<1>2. ASSUME NEW i \in DOMAIN chan', NEW j \in DOMAIN chan', i < j
      PROVE  Before(chan[i], chan[j])'
  <2>1. CASE chan'[i].type = "ERROR" \/ chan'[j].type = "ERROR"
    BY <2>1 DEF Before
  <2>2. CASE /\ i + k \in DOMAIN chan /\ chan'[i] = chan[i + k]
             /\ j + k \in DOMAIN chan /\ chan'[j] = chan[j + k]
    <3>1. i + k < j + k
      BY <1>2
    <3> QED
      BY <2>2, <3>1 DEF QueueInv, Before
  <2> QED
    BY <2>1, <2>2
<1> QED
  BY <1>1, <1>2 DEF QueueInv

(* The end of a watch loses the end of the channel.                        *)
LEMMA QueueCut ==
    ASSUME TypeOK, QueueInv, store' = store, view' = view,
           NEW rest \in Cuts, chan' \in {rest, Append(rest, Status)}
    PROVE  /\ QueueInv'
           /\ \A e : (\A i \in DOMAIN chan : Before(e, chan[i])) =>
                        \A i \in DOMAIN chan' : Before(e, chan'[i])
<1>1. PICK n \in 0 .. Len(chan) : rest = SubSeq(chan, 1, n)
  BY DEF Cuts
<1>2. chan \in Seq(Events)
  BY DEF TypeOK
<1>3. /\ DOMAIN chan = 1 .. Len(chan) /\ Len(chan) \in Nat
      /\ rest \in Seq(Events) /\ Len(rest) = n /\ DOMAIN rest = 1 .. n
      /\ \A i \in 1 .. n : i \in DOMAIN chan /\ rest[i] = chan[i]
  BY <1>1, <1>2, SubSeqProperties
<1>4. \A i \in DOMAIN chan' :
         /\ i \in Nat
         /\ \/ chan'[i].type = "ERROR"
            \/ i \in DOMAIN chan /\ chan'[i] = chan[i]
  <2>1. CASE chan' = rest
    BY <1>3, <2>1
  <2>2. CASE chan' = Append(rest, Status)
    <3>1. /\ DOMAIN chan' = 1 .. n + 1 /\ chan'[n + 1] = Status
          /\ \A i \in 1 .. n : chan'[i] = rest[i]
      BY <1>3, <2>2
    <3>2. Status.type = "ERROR"
      BY DEF Status
    <3> QED
      BY <1>3, <3>1, <3>2
  <2> QED
    BY <2>1, <2>2
<1>5. \A i \in DOMAIN chan' :
         /\ i \in Nat
         /\ \/ chan'[i].type = "ERROR"
            \/ i + 0 \in DOMAIN chan /\ chan'[i] = chan[i + 0]
  BY <1>4
<1>6. QueueInv'
  BY <1>5, QueueLess
<1>7. \A e : (\A i \in DOMAIN chan : Before(e, chan[i])) =>
                        \A i \in DOMAIN chan' : Before(e, chan'[i])
  BY <1>4 DEF Before
<1> QED
  BY <1>6, <1>7

(* A listing has one event about each object, with its current version.    *)
LEMMA QueueListing ==
    ASSUME TypeOK, ViewInv, UNCHANGED <<store, view>>,
           NEW s \in Listings, chan' = Added(s)
    PROVE  QueueInv'
<1>1. \A i \in DOMAIN chan' : /\ chan'[i].uid \in Uids
                              /\ chan'[i].ver = store[chan'[i].uid]
                              /\ store[chan'[i].uid] \in 0 .. Dead
  BY ListingEvents DEF LiveUids, TypeOK
<1>2. ASSUME NEW i \in DOMAIN chan' PROVE Timely(chan[i])'
  BY <1>1, BoundsAssumption DEF Timely, ViewInv, Dead
<1>3. ASSUME NEW i \in DOMAIN chan', NEW j \in DOMAIN chan'
      PROVE  Before(chan[i], chan[j])'
  BY <1>1, BoundsAssumption DEF Before, Dead
<1> QED
  BY <1>2, <1>3 DEF QueueInv

LEMMA ForwardEmit ==
    ASSUME TypeOK, ForwardInv, NEW u \in Uids, NEW e \in ObjectEvents,
           e.uid = u, e.type # "ERROR", e.ver = store'[u], store[u] <= store'[u],
           store' \in [Uids -> 0 .. Dead],
           \A v \in Uids \ {u} : store'[v] = store[v],
           Emit(e), UNCHANGED Local
    PROVE  ForwardInv'
<1>1. /\ store \in [Uids -> 0 .. Dead] /\ chan \in Seq(Events) /\ ev \in Events
      /\ view \in [Bindings -> [Uids -> 0 .. Dead]]
      /\ \A v \in Uids : store[v] <= store'[v]
      /\ Dead \in Nat /\ e \in Events
  <2>1. /\ store \in [Uids -> 0 .. Dead] /\ chan \in Seq(Events) /\ ev \in Events
        /\ view \in [Bindings -> [Uids -> 0 .. Dead]]
    BY DEF TypeOK
  <2>2. Dead \in Nat /\ e \in Events
    BY BoundsAssumption DEF Dead, Events
  <2>3. ASSUME NEW v \in Uids PROVE store[v] <= store'[v]
    <3>1. store[v] \in 0 .. Dead /\ (v # u => store'[v] = store[v])
      BY <2>1
    <3> QED
      BY <2>2, <3>1
  <2> QED
    BY <2>1, <2>2, <2>3
<1>2. UNCHANGED <<view, loop, ev, reg, todo>>
  BY DEF Local
<1>3. ASSUME NEW f \in Events, Timely(f) PROVE Timely(f)'
  <2> SUFFICES ASSUME f.type # "ERROR"
               PROVE  f.ver <= store'[f.uid]
    BY <1>2, <1>3 DEF Timely
  <2>1. f.uid \in Uids /\ f.ver \in 1 .. Dead
    BY EventTypes
  <2> QED
    BY <1>1, <1>3, <2>1 DEF Timely
<1>4. Timely(e)'
  <2> SUFFICES ASSUME NEW b \in EarlyBindings PROVE view[b][u] <= e.ver
    BY <1>1, <1>2 DEF Timely
  <2>1. view[b][u] \in 0 .. Dead /\ view[b][u] <= store[u]
    BY <1>1, BindingsAssumption DEF ForwardInv, ViewInv
  <2> QED
    BY <1>1, <2>1
<1>5. ASSUME NEW f \in Events, Timely(f) PROVE Before(f, e)
  <2> SUFFICES ASSUME f.type # "ERROR", f.uid = u PROVE f.ver <= e.ver
    BY DEF Before
  <2>1. f.ver \in 1 .. Dead /\ f.ver <= store[u]
    BY <1>5, EventTypes DEF Timely
  <2> QED
    BY <1>1, <2>1
<1>6. /\ \A i \in DOMAIN chan' : \/ i \in DOMAIN chan /\ chan'[i] = chan[i]
                                 \/ chan'[i] = e /\ \A j \in DOMAIN chan' : j <= i
      /\ \A i \in DOMAIN chan : chan[i] \in Events
      /\ DOMAIN chan' \subseteq Nat
  <2>1. CASE wif = "open"
    <3>1. chan' = Append(chan, e)
      BY <2>1 DEF Emit
    <3>2. /\ DOMAIN chan = 1 .. Len(chan) /\ Len(chan) \in Nat
          /\ DOMAIN chan' = 1 .. Len(chan) + 1
          /\ \A i \in 1 .. Len(chan) : chan'[i] = chan[i]
          /\ chan'[Len(chan) + 1] = e
      BY <1>1, <3>1
    <3> QED
      BY <1>1, <3>2
  <2>2. CASE wif # "open"
    BY <1>1, <2>2 DEF Emit
  <2> QED
    BY <2>1, <2>2
<1>7. QueueInv'
  <2>1. ASSUME NEW i \in DOMAIN chan' PROVE Timely(chan[i])'
    <3>1. CASE chan'[i] = e
      BY <1>4, <3>1
    <3>2. CASE i \in DOMAIN chan /\ chan'[i] = chan[i]
      <4>1. Timely(chan[i]) /\ chan[i] \in Events
        BY <1>6, <3>2 DEF ForwardInv, QueueInv
      <4> DEFINE f == chan[i]
      <4> HIDE DEF f
      <4>2. f \in Events /\ Timely(f) /\ chan'[i] = f
        BY <3>2, <4>1 DEF f
      <4>3. f.type # "ERROR" => /\ f.ver <= store'[f.uid]
                                /\ \A b \in EarlyBindings : view'[b][f.uid] <= f.ver
        <5>1. f.type # "ERROR" => f.uid \in Uids /\ f.ver \in 1 .. Dead
          BY <4>2, EventTypes
        <5> QED
          BY <1>1, <1>2, <4>2, <5>1 DEF Timely
      <4> QED
        BY <4>2, <4>3 DEF Timely
    <3> QED
      BY <1>6, <3>1, <3>2
  <2>2. ASSUME NEW i \in DOMAIN chan', NEW j \in DOMAIN chan', i < j
        PROVE  Before(chan[i], chan[j])'
    <3>1. i \in DOMAIN chan /\ chan'[i] = chan[i]
      BY <1>6, <2>2
    <3>2. Timely(chan[i]) /\ chan[i] \in Events
      BY <1>6, <3>1 DEF ForwardInv, QueueInv
    <3>3. CASE chan'[j] = e
      BY <1>5, <3>1, <3>2, <3>3
    <3>4. CASE j \in DOMAIN chan /\ chan'[j] = chan[j]
      BY <2>2, <3>1, <3>4 DEF ForwardInv, QueueInv
    <3> QED
      BY <1>6, <3>3, <3>4
  <2> QED
    BY <2>1, <2>2 DEF QueueInv
<1>8. WorkInv'
  <2> SUFFICES ASSUME Working
               PROVE  Timely(ev)' /\ \A i \in DOMAIN chan' : Before(ev, chan'[i])
    BY <1>2 DEF WorkInv, Working
  <2>1. Timely(ev) /\ ev \in Events
    BY <1>1 DEF ForwardInv, WorkInv
  <2>2. Timely(ev)'
    <3>1. ev.type # "ERROR" => ev.uid \in Uids /\ ev.ver \in 1 .. Dead
      BY <2>1, EventTypes
    <3> QED
      BY <1>1, <1>2, <2>1, <3>1 DEF Timely
  <2>3. Before(ev, e)
    BY <1>5, <2>1
  <2> QED
    BY <1>6, <2>2, <2>3 DEF ForwardInv, WorkInv
<1>9. ViewInv'
  <2> SUFFICES ASSUME NEW b \in EarlyBindings, NEW v \in Uids
               PROVE  view[b][v] <= store'[v]
    BY <1>2 DEF ViewInv
  <2>1. /\ view[b][v] \in 0 .. Dead /\ view[b][v] <= store[v]
        /\ store[v] \in 0 .. Dead /\ store'[v] \in 0 .. Dead /\ store[v] <= store'[v]
    BY <1>1, BindingsAssumption DEF ForwardInv, ViewInv
  <2> QED
    BY <1>1, <2>1
<1>10. ReplayInv'
  BY <1>2 DEF ForwardInv, ReplayInv, NoTodo
<1> QED
  BY <1>7, <1>8, <1>9, <1>10 DEF ForwardInv

LEMMA ForwardServer == TypeOK /\ ForwardInv /\ Server => ForwardInv'
<1> SUFFICES ASSUME TypeOK, ForwardInv, Server PROVE ForwardInv'
  OBVIOUS
<1> USE BoundsAssumption
<1>1. ASSUME NEW u \in Uids, Create(u) PROVE ForwardInv'
  <2> DEFINE e == [type |-> "ADDED", uid |-> u, ver |-> 1]
  <2>1. 1 \in Versions
    BY DEF Versions
  <2>2. e \in ObjectEvents
    BY <2>1, MadeEvents
  <2>3. e.uid = u /\ e.type # "ERROR" /\ e.ver = 1
    OBVIOUS
  <2>4. /\ store' \in [Uids -> 0 .. Dead] /\ store'[u] = 1 /\ store[u] <= 1
        /\ \A v \in Uids \ {u} : store'[v] = store[v]
    BY <1>1 DEF Create, TypeOK, Dead
  <2>5. Emit(e) /\ UNCHANGED Local
    BY <1>1 DEF Create
  <2> HIDE DEF e
  <2> QED
    BY <2>2, <2>3, <2>4, <2>5, ForwardEmit
<1>2. ASSUME NEW u \in Uids, Modify(u) PROVE ForwardInv'
  <2> DEFINE e == [type |-> "MODIFIED", uid |-> u, ver |-> store[u] + 1]
  <2>1. store[u] + 1 \in Versions
    BY <1>2 DEF Modify, Live, Versions, TypeOK
  <2>2. e \in ObjectEvents
    BY <2>1, MadeEvents
  <2>3. e.uid = u /\ e.type # "ERROR" /\ e.ver = store[u] + 1
    OBVIOUS
  <2>4. /\ store' \in [Uids -> 0 .. Dead] /\ store'[u] = store[u] + 1
        /\ store[u] <= store[u] + 1
        /\ \A v \in Uids \ {u} : store'[v] = store[v]
    BY <1>2, <2>1 DEF Modify, TypeOK, Dead, Versions
  <2>5. Emit(e) /\ UNCHANGED Local
    BY <1>2 DEF Modify
  <2> HIDE DEF e
  <2> QED
    BY <2>2, <2>3, <2>4, <2>5, ForwardEmit
<1>3. ASSUME NEW u \in Uids, Remove(u) PROVE ForwardInv'
  <2> DEFINE e == [type |-> "DELETED", uid |-> u, ver |-> Dead]
  <2>2. e \in ObjectEvents
    BY MadeEvents
  <2>3. e.uid = u /\ e.type # "ERROR" /\ e.ver = Dead
    OBVIOUS
  <2>4. /\ store' \in [Uids -> 0 .. Dead] /\ store'[u] = Dead /\ store[u] <= Dead
        /\ \A v \in Uids \ {u} : store'[v] = store[v]
    BY <1>3 DEF Remove, TypeOK, Dead
  <2>5. Emit(e) /\ UNCHANGED Local
    BY <1>3 DEF Remove
  <2> HIDE DEF e
  <2> QED
    BY <2>2, <2>3, <2>4, <2>5, ForwardEmit
<1>4. ASSUME CloseWatch PROVE ForwardInv'
  <2>1. PICK rest \in Cuts : chan' \in {rest, Append(rest, Status)}
    BY <1>4 DEF CloseWatch
  <2>2. UNCHANGED <<store, view, loop, ev, reg, todo>>
    BY <1>4 DEF CloseWatch, Local
  <2>3. /\ QueueInv'
        /\ \A e : (\A i \in DOMAIN chan : Before(e, chan[i])) =>
                        \A i \in DOMAIN chan' : Before(e, chan'[i])
    BY <2>1, <2>2, QueueCut DEF ForwardInv
  <2>4. WorkInv'
    BY <2>2, <2>3 DEF ForwardInv, WorkInv, Working, Timely
  <2> QED
    BY <2>2, <2>3, <2>4 DEF ForwardInv, ViewInv, ReplayInv, NoTodo
<1> QED
  BY <1>1, <1>2, <1>3, <1>4 DEF Server

LEMMA ForwardOwner == TypeOK /\ PhaseInv /\ ForwardInv /\ Owner => ForwardInv'
<1> SUFFICES ASSUME TypeOK, PhaseInv, ForwardInv, Owner PROVE ForwardInv'
  OBVIOUS
<1> USE DEF server, watch, thread, regs
<1>1. UNCHANGED <<store, ev, reg, todo, view>>
  BY DEF Owner, StartWatch, StartWatchFails, StartList, StartListFails, StopBegin,
         StopWif, StopNilWif, StopFinish, Local
<1>2. ViewInv' /\ ReplayInv'
  BY <1>1 DEF ForwardInv, ViewInv, ReplayInv, NoTodo
<1>3. ASSUME chan' = chan, loop' = loop \/ loop' = "receiving"
      PROVE  QueueInv' /\ WorkInv'
  BY <1>1, <1>3 DEF ForwardInv, QueueInv, WorkInv, Working, Timely
<1>4. CASE StartWatch
  <2>1. PICK s \in Listings : chan' = Added(s)
    BY <1>4 DEF StartWatch, OpenWatch
  <2>2. loop' = "none"
    BY <1>4 DEF StartWatch, PhaseInv
  <2>3. QueueInv'
    BY <1>1, <2>1, QueueListing DEF ForwardInv
  <2> QED
    BY <1>2, <2>2, <2>3 DEF ForwardInv, WorkInv, Working
<1>5. CASE StartWatchFails \/ StopFinish
  <2>1. chan' = <<>> /\ loop' = "none"
    BY <1>5 DEF StartWatchFails, StopFinish, PhaseInv, Local
  <2> QED
    BY <1>2, <2>1 DEF ForwardInv, QueueInv, WorkInv, Working
<1>6. CASE StartList \/ StartListFails \/ StopBegin \/ StopNilWif
  <2>1. chan' = chan /\ (loop' = loop \/ loop' = "receiving")
    BY <1>6 DEF StartList, StartListFails, StopBegin, StopNilWif
  <2> QED
    BY <1>2, <1>3, <2>1 DEF ForwardInv
<1>7. CASE StopWif
  <2>1. PICK rest \in Cuts : chan' = rest
    BY <1>7 DEF StopWif
  <2>2. loop' = loop
    BY <1>7 DEF StopWif
  <2>3. /\ QueueInv'
        /\ \A e : (\A i \in DOMAIN chan : Before(e, chan[i])) =>
                        \A i \in DOMAIN chan' : Before(e, chan'[i])
    BY <1>1, <2>1, QueueCut DEF ForwardInv
  <2>4. WorkInv'
    BY <1>1, <2>2, <2>3 DEF ForwardInv, WorkInv, Working, Timely
  <2> QED
    BY <1>2, <2>3, <2>4 DEF ForwardInv
<1> QED
  BY <1>4, <1>5, <1>6, <1>7 DEF Owner

LEMMA ForwardLoop == TypeOK /\ ForwardInv /\ LoopStep => ForwardInv'
<1> SUFFICES ASSUME TypeOK, ForwardInv, LoopStep PROVE ForwardInv'
  OBVIOUS
<1> USE DEF server, watch, thread, regs
<1>1. UNCHANGED <<store, reg, todo>>
  BY DEF LoopStep, RecvObject, RecvStatus, RecvClosed, Rewatch, RewatchFails, Wake,
         CopyBindings, CallsDone, Call
<1>2. ReplayInv'
  BY <1>1 DEF ForwardInv, ReplayInv, NoTodo
<1>3. CASE RecvObject \/ RecvStatus
  <2>1. /\ chan \in Seq(Events) /\ chan # <<>> /\ chan' = Tail(chan) /\ view' = view
    BY <1>3 DEF RecvObject, RecvStatus, Receiving, TypeOK
  <2>2. /\ DOMAIN chan = 1 .. Len(chan) /\ Len(chan) \in Nat \ {0}
        /\ DOMAIN chan' = 1 .. Len(chan) - 1
        /\ \A i \in 1 .. Len(chan) - 1 : chan'[i] = chan[i + 1]
        /\ Head(chan) = chan[1]
    BY <2>1
  <2>3. \A i \in DOMAIN chan' : i \in Nat /\ i + 1 \in DOMAIN chan /\ chan'[i] = chan[i + 1]
    BY <2>2
  <2>4. QueueInv'
    BY <1>1, <2>1, <2>3, QueueLess DEF ForwardInv
  <2>5. WorkInv'
    <3>1. CASE RecvStatus
      <4>1. ~Working'
        BY <3>1 DEF RecvStatus, Receiving, Working
      <4> QED
        BY <4>1 DEF WorkInv
    <3>2. CASE RecvObject
      <4>1. ev' = chan[1] /\ 1 \in DOMAIN chan
        BY <2>2, <3>2 DEF RecvObject
      <4>2. Timely(chan[1])
        BY <4>1 DEF ForwardInv, QueueInv
      <4>3. Timely(ev)'
        BY <1>1, <2>1, <4>1, <4>2 DEF Timely
      <4>4. ASSUME NEW i \in DOMAIN chan' PROVE Before(chan[1], chan'[i])
        <5>1. i + 1 \in DOMAIN chan /\ 1 < i + 1 /\ chan'[i] = chan[i + 1]
          BY <2>2
        <5> QED
          BY <4>1, <5>1 DEF ForwardInv, QueueInv
      <4> QED
        BY <4>1, <4>3, <4>4 DEF WorkInv
    <3> QED
      BY <1>3, <3>1, <3>2
  <2> QED
    BY <1>1, <1>2, <2>1, <2>4, <2>5 DEF ForwardInv, ViewInv
<1>4. CASE RecvClosed \/ Wake \/ CopyBindings \/ CallsDone
  <2>1. /\ UNCHANGED <<chan, ev, view>>
        /\ loop' \in {"applied", "calling"} => loop \in {"applied", "calling"}
    BY <1>4 DEF RecvClosed, Wake, CopyBindings, CallsDone
  <2> QED
    BY <1>1, <1>2, <2>1 DEF ForwardInv, QueueInv, WorkInv, ViewInv, Working, Timely
<1>5. CASE Rewatch
  <2>1. PICK s \in Listings : chan' = Added(s)
    BY <1>5 DEF Rewatch, OpenWatch
  <2>2. loop' = "receiving" /\ view' = view
    BY <1>5 DEF Rewatch
  <2>3. QueueInv'
    BY <1>1, <2>1, <2>2, QueueListing DEF ForwardInv
  <2> QED
    BY <1>1, <1>2, <2>2, <2>3 DEF ForwardInv, WorkInv, Working, ViewInv
<1>6. CASE RewatchFails
  <2>1. chan' = <<>> /\ loop' = "sleeping" /\ view' = view
    BY <1>6 DEF RewatchFails
  <2> QED
    BY <1>1, <1>2, <2>1 DEF ForwardInv, QueueInv, WorkInv, Working, ViewInv
<1>7. ASSUME NEW c \in Bindings, Call(c) PROVE ForwardInv'
  <2>1. /\ UNCHANGED <<chan, ev, loop>> /\ loop = "calling"
        /\ view' = [view EXCEPT ![c][ev.uid] = ev.ver]
        /\ view \in [Bindings -> [Uids -> 0 .. Dead]] /\ chan \in Seq(Events)
    BY <1>7 DEF Call, TypeOK
  <2>2. ev \in Events /\ ev.type # "ERROR" /\ ev.uid \in Uids /\ ev.ver \in 1 .. Dead
    <3>1. ev \in ObjectEvents /\ ev \in Events
      BY <2>1 DEF TypeOK
    <3>2. ev.type # "ERROR"
      BY <3>1 DEF ObjectEvents, Event
    <3> QED
      BY <3>1, <3>2, EventTypes
  <2>3. Timely(ev) /\ \A i \in DOMAIN chan : Before(ev, chan[i])
    BY <2>1 DEF ForwardInv, WorkInv, Working
  <2>4. \A b \in EarlyBindings, u \in Uids :
           view'[b][u] = IF b = c /\ u = ev.uid THEN ev.ver ELSE view[b][u]
    BY <2>1, BindingsAssumption
  <2>5. ViewInv'
    BY <1>1, <2>2, <2>3, <2>4 DEF ForwardInv, ViewInv, Timely
  <2>6. ASSUME NEW i \in DOMAIN chan PROVE Timely(chan[i])'
    <3> DEFINE f == chan[i]
    <3>1. f \in Events /\ Timely(f) /\ Before(ev, f)
      BY <2>1, <2>3 DEF ForwardInv, QueueInv
    <3> HIDE DEF f
    <3>2. f.type # "ERROR" => f.uid \in Uids
      BY <3>1, EventTypes
    <3>3. f.type # "ERROR" => /\ f.ver <= store[f.uid]
                              /\ \A b \in EarlyBindings : view'[b][f.uid] <= f.ver
      BY <2>2, <2>4, <3>1, <3>2 DEF Timely, Before
    <3> QED
      BY <1>1, <2>1, <3>3 DEF Timely, f
  <2>7. QueueInv'
    BY <2>1, <2>6 DEF ForwardInv, QueueInv
  <2>8. Timely(ev)'
    BY <1>1, <2>1, <2>2, <2>3, <2>4 DEF Timely
  <2>9. WorkInv'
    BY <2>1, <2>3, <2>8 DEF WorkInv
  <2> QED
    BY <1>2, <2>5, <2>7, <2>9 DEF ForwardInv
<1> QED
  BY <1>3, <1>4, <1>5, <1>6, <1>7 DEF LoopStep

(* Callers of early callbacks have nothing to replay, and forget what the  *)
(* callback was told when it comes back.                                   *)
LEMMA EarlyViews ==
    ASSUME TypeOK, PhaseInv, ReplayInv, NEW c \in Bindings, Caller(c)
    PROVE  /\ \A b \in EarlyBindings : view'[b] = IF b = c /\ RegisterAdd(c)
                                                  THEN [u \in Uids |-> 0] ELSE view[b]
           /\ ReplayInv'
<1> USE DEF server, watch, thread, regs
<1>1. CASE RegisterAdd(c)
  <2>1. \A b \in EarlyBindings : view'[b] = IF b = c THEN [u \in Uids |-> 0] ELSE view[b]
    BY <1>1, BindingsAssumption DEF RegisterAdd, TypeOK
  <2>2. ReplayInv'
    BY <1>1, BindingsAssumption DEF RegisterAdd, TypeOK, ReplayInv, NoTodo
  <2> QED
    BY <1>1, <2>1, <2>2
<1>2. CASE RegisterSnapshot(c)
  <2>1. view' = view /\ ~RegisterAdd(c)
    BY <1>2 DEF RegisterSnapshot, RegisterAdd
  <2>2. ASSUME c \in EarlyBindings PROVE state = NoTodo
    BY <1>2, <2>2 DEF RegisterSnapshot, PhaseInv, Settled, NoTodo
  <2>3. /\ todo' = [todo EXCEPT ![c] = state] /\ reg' = [reg EXCEPT ![c] = "replaying"]
        /\ todo \in [Bindings -> [Uids -> 0 .. MaxVersion]]
        /\ reg \in [Bindings -> {"out", "adding", "replaying", "in"}]
    BY <1>2 DEF RegisterSnapshot, TypeOK
  <2>4. ReplayInv'
    <3> SUFFICES ASSUME NEW b \in EarlyBindings, reg'[b] = "replaying"
                 PROVE  todo'[b] = NoTodo
      BY DEF ReplayInv, NoTodo
    <3>1. CASE b = c
      BY <2>2, <2>3, <3>1
    <3>2. CASE b # c
      <4>1. reg'[b] = reg[b] /\ todo'[b] = todo[b]
        BY <2>3, <3>2, BindingsAssumption
      <4> QED
        BY <4>1 DEF ReplayInv
    <3> QED
      BY <3>1, <3>2
  <2> QED
    BY <2>1, <2>4
<1>3. CASE RegisterReplay(c)
  <2>1. PICK u \in Uids : /\ todo[c][u] # 0
                          /\ view' = [view EXCEPT ![c][u] = todo[c][u]]
                          /\ todo' = [todo EXCEPT ![c][u] = 0]
    BY <1>3 DEF RegisterReplay
  <2>2. c \notin EarlyBindings
    BY <1>3, <2>1 DEF RegisterReplay, ReplayInv, NoTodo
  <2>3. reg' = reg /\ reg[c] # "out"
    BY <1>3 DEF RegisterReplay
  <2>4. \A b \in EarlyBindings : view'[b] = view[b] /\ todo'[b] = todo[b]
    BY <2>1, <2>2, BindingsAssumption DEF TypeOK
  <2>5. ~RegisterAdd(c)
    BY <2>3 DEF RegisterAdd
  <2> QED
    BY <2>3, <2>4, <2>5 DEF ReplayInv, NoTodo
<1>4. CASE RegisterReturn(c) \/ Unregister(c)
  <2>1. /\ UNCHANGED <<view, todo>> /\ ~RegisterAdd(c)
        /\ \A b \in EarlyBindings : reg'[b] = "replaying" => reg[b] = "replaying"
    BY <1>4, BindingsAssumption DEF RegisterReturn, Unregister, RegisterAdd, TypeOK
  <2> QED
    BY <2>1 DEF ReplayInv, NoTodo
<1> QED
  BY <1>1, <1>2, <1>3, <1>4 DEF Caller

LEMMA ForwardCaller ==
    ASSUME TypeOK, PhaseInv, ForwardInv, NEW c \in Bindings, Caller(c)
    PROVE  ForwardInv'
<1>1. UNCHANGED <<store, chan, loop, ev>>
  BY DEF Caller, RegisterAdd, RegisterSnapshot, RegisterReplay, RegisterReturn, Unregister,
         server, watch, thread
<1>2. /\ \A b \in EarlyBindings, u \in Uids : view'[b][u] = 0 \/ view'[b][u] = view[b][u]
      /\ ReplayInv'
  BY EarlyViews DEF ForwardInv
<1>3. /\ store \in [Uids -> 0 .. Dead] /\ chan \in Seq(Events) /\ ev \in Events
      /\ Dead \in Nat
  BY BoundsAssumption DEF TypeOK, Dead
<1>4. ViewInv'
  BY <1>1, <1>2, <1>3 DEF ForwardInv, ViewInv
<1>5. ASSUME NEW f \in Events, Timely(f)
      PROVE  f.type # "ERROR" => /\ f.ver <= store[f.uid]
                                 /\ \A b \in EarlyBindings : view'[b][f.uid] <= f.ver
  <2>1. f.type # "ERROR" => f.uid \in Uids /\ f.ver \in 1 .. Dead
    BY EventTypes
  <2> QED
    BY <1>2, <1>3, <1>5, <2>1 DEF Timely
<1>6. QueueInv'
  <2>1. \A i \in DOMAIN chan : chan[i] \in Events
    BY <1>3
  <2> QED
    BY <1>1, <1>5, <2>1 DEF ForwardInv, QueueInv, Timely
<1>7. WorkInv'
  BY <1>1, <1>3, <1>5 DEF ForwardInv, WorkInv, Working, Timely
<1> QED
  BY <1>2, <1>4, <1>6, <1>7 DEF ForwardInv

-----------------------------------------------------------------------------
LEMMA SyncStep == TypeOK /\ SyncInv /\ [Next]_vars => SyncInv'
<1> SUFFICES ASSUME TypeOK, SyncInv, [Next]_vars PROVE SyncInv'
  OBVIOUS
<1>1. CASE UNCHANGED vars
  <2>1. PhaseInv' /\ ChanInv' /\ StateInv' /\ ToldInv'
    BY <1>1 DEF vars, SyncInv, PhaseInv, Settled, ChanInv, StateInv, ToldInv, Running,
                Live, Shown, BeingTold
  <2>2. ForwardInv'
    BY <1>1 DEF vars, SyncInv, ForwardInv, QueueInv, WorkInv, Working, Timely, ViewInv,
                ReplayInv, NoTodo
  <2> QED
    BY <2>1, <2>2 DEF SyncInv
<1>2. CASE Next
  <2>1. PhaseInv'
    BY <1>2, PhaseStep DEF SyncInv
  <2>2. ChanInv' /\ StateInv' /\ ToldInv'
    BY <1>2, SyncServer, SyncOwner, SyncLoop, SyncCaller DEF Next
  <2>3. ForwardInv'
    BY <1>2, ForwardServer, ForwardOwner, ForwardLoop, ForwardCaller DEF Next, SyncInv
  <2> QED
    BY <2>1, <2>2, <2>3 DEF SyncInv
<1> QED
  BY <1>1, <1>2

(* The inductive invariant: the channel of an open watch, the map and the  *)
(* callbacks together always lead up to what the server holds.             *)
THEOREM SyncCorrect == Spec => []SyncInv
<1>1. Spec => []TypeOK
  BY TypeCorrect
<1>2. Init => SyncInv
  BY SyncInit
<1>3. TypeOK /\ SyncInv /\ [Next]_vars => SyncInv'
  BY SyncStep
<1> QED
  BY <1>1, <1>2, <1>3, PTL DEF Spec

LEMMA DrainedNone == ASSUME Drained, NEW u PROVE NoneAbout(chan, u) /\ Running /\ wif = "open"
BY DEF Drained, NoneAbout, Running

(* Once the loop has caught up the mirror holds every object that exists,  *)
(* at its current version, whatever happened to its watches.               *)
THEOREM MirrorsLiveCorrect == Spec => []MirrorsLive
<1>1. SyncInv => MirrorsLive
  BY DrainedNone DEF SyncInv, StateInv, MirrorsLive, LiveUids
<1> QED
  BY <1>1, SyncCorrect, PTL

(* Until the first restart of its watch it holds nothing else.             *)
THEOREM ExactUntilRestartCorrect == Spec => []ExactUntilRestart
<1>1. SyncInv => ExactUntilRestart
  BY DrainedNone DEF SyncInv, StateInv, ExactUntilRestart
<1> QED
  BY <1>1, SyncCorrect, PTL

(* A callback registered before Start has been told all of it.             *)
THEOREM EarlyToldLiveCorrect == Spec => []EarlyToldLive
<1>1. SyncInv => EarlyToldLive
  <2> SUFFICES ASSUME SyncInv, Drained,
                      NEW b \in EarlyBindings \cap bindings, NEW u \in LiveUids
               PROVE  view[b][u] = store[u]
    BY DEF EarlyToldLive
  <2>1. u \in Uids /\ Live(u) /\ NoneAbout(chan, u) /\ Running /\ wif = "open"
    BY DrainedNone DEF LiveUids
  <2>2. ~BeingTold(b, u)
    BY DEF BeingTold, Drained
  <2> QED
    BY <2>1, <2>2 DEF SyncInv, ToldInv
<1> QED
  BY <1>1, SyncCorrect, PTL
-----------------------------------------------------------------------------
(***************************************************************************)
(* A callback registered at any time hears of all that exists.             *)
(***************************************************************************)
(* The channel may only lose objects that somebody is told of, and the     *)
(* callbacks only what they await.                                         *)
LEMMA HeardKept ==
    ASSUME HeardInv, UNCHANGED <<wif, loop>>,
           \A u \in Uids : NoneAbout(chan', u) => NoneAbout(chan, u) /\ store'[u] = store[u],
           UNCHANGED <<ev, calls, bindings, reg, todo, view>>
    PROVE  HeardInv'
  BY DEF HeardInv, Awaiting, BeingTold, Running, Live

LEMMA HeardServer == TypeOK /\ HeardInv /\ Server => HeardInv'
<1> SUFFICES ASSUME TypeOK, HeardInv, Server PROVE HeardInv'
  OBVIOUS
<1> SUFFICES ASSUME wif' = "open" PROVE HeardInv'
  BY DEF HeardInv
<1>1. ASSUME NEW u \in Uids, NEW e \in ObjectEvents, e.uid = u, e.type # "ERROR",
             \A v \in Uids \ {u} : store'[v] = store[v], Emit(e), UNCHANGED <<wif, Local>>
      PROVE  HeardInv'
  <2>1. chan' = Append(chan, e) /\ e \in Events /\ chan \in Seq(Events)
    BY <1>1 DEF Emit, Events, TypeOK
  <2>2. \A v : IsAbout(e, v) <=> v = u
    BY <1>1 DEF IsAbout
  <2>3. \A v \in Uids : NoneAbout(chan', v) => NoneAbout(chan, v) /\ store'[v] = store[v]
    BY <1>1, <2>1, <2>2, AfterAppend
  <2> QED
    BY <1>1, <2>3, HeardKept DEF Local
<1>2. ASSUME NEW u \in Uids, Create(u) \/ Modify(u) \/ Remove(u)
      PROVE  \E e \in ObjectEvents :
                /\ e.uid = u /\ e.type # "ERROR" /\ Emit(e) /\ UNCHANGED <<wif, Local>>
                /\ \A v \in Uids \ {u} : store'[v] = store[v]
  <2>1. \A v \in Uids \ {u} : store'[v] = store[v]
    BY <1>2 DEF Create, Modify, Remove, TypeOK
  <2>2. UNCHANGED <<wif, Local>>
    BY <1>2 DEF Create, Modify, Remove
  <2>3. CASE Create(u)
    <3>1. 1 \in Versions
      BY BoundsAssumption DEF Versions
    <3>2. [type |-> "ADDED", uid |-> u, ver |-> 1] \in ObjectEvents
      BY <3>1, MadeEvents
    <3>3. Emit([type |-> "ADDED", uid |-> u, ver |-> 1])
      BY <2>3 DEF Create
    <3> QED
      BY <2>1, <2>2, <3>2, <3>3
  <2>4. CASE Modify(u)
    <3>1. store[u] + 1 \in Versions
      BY <2>4, BoundsAssumption DEF Modify, Live, Versions, TypeOK
    <3>2. [type |-> "MODIFIED", uid |-> u, ver |-> store[u] + 1] \in ObjectEvents
      BY <3>1, MadeEvents
    <3>3. Emit([type |-> "MODIFIED", uid |-> u, ver |-> store[u] + 1])
      BY <2>4 DEF Modify
    <3> QED
      BY <2>1, <2>2, <3>2, <3>3
  <2>5. CASE Remove(u)
    <3>1. [type |-> "DELETED", uid |-> u, ver |-> Dead] \in ObjectEvents
      BY MadeEvents
    <3>2. Emit([type |-> "DELETED", uid |-> u, ver |-> Dead])
      BY <2>5 DEF Remove
    <3> QED
      BY <2>1, <2>2, <3>1, <3>2
  <2> QED
    BY <1>2, <2>3, <2>4, <2>5
<1>3. ~CloseWatch
  BY DEF CloseWatch
<1> QED
  BY <1>1, <1>2, <1>3 DEF Server

LEMMA HeardOwner == TypeOK /\ SyncInv /\ HeardInv /\ Owner => HeardInv'
<1> SUFFICES ASSUME TypeOK, SyncInv, HeardInv, Owner PROVE HeardInv'
  OBVIOUS
<1> USE DEF server, watch, thread, regs
<1>1. CASE StartWatch
  <2>1. ~Running'
    BY <1>1 DEF StartWatch, SyncInv, PhaseInv, Running
  <2> QED
    BY <2>1 DEF HeardInv
<1>2. CASE StartWatchFails \/ StopWif \/ StopFinish
  <2>1. wif' # "open"
    BY <1>2 DEF StartWatchFails, StopWif, StopFinish
  <2> QED
    BY <2>1 DEF HeardInv
<1>3. CASE StartList
  <2>1. watchState = "stopped" /\ ~Running /\ UNCHANGED <<store, wif, chan>>
    BY <1>3 DEF StartList, SyncInv, PhaseInv, Running
  <2>2. wif = "open" => \A u \in Uids : NoneAbout(chan, u) => ~Live(u)
    BY <2>1 DEF SyncInv, StateInv
  <2> QED
    BY <2>1, <2>2 DEF HeardInv, Live
<1>4. CASE StartListFails \/ StopBegin \/ StopNilWif
  <2>1. UNCHANGED <<store, wif, chan, loop, ev, calls, bindings, reg, todo, view>>
    BY <1>4 DEF StartListFails, StopBegin, StopNilWif
  <2> QED
    BY <2>1, HeardKept
<1> QED
  BY <1>1, <1>2, <1>3, <1>4 DEF Owner

LEMMA HeardLoop == TypeOK /\ SyncInv /\ HeardInv /\ LoopStep => HeardInv'
<1> SUFFICES ASSUME TypeOK, SyncInv, HeardInv, LoopStep PROVE HeardInv'
  OBVIOUS
<1> USE DEF server, watch, thread, regs
<1>1. CASE RecvObject
  <2>1. UNCHANGED <<store, wif, bindings, reg, todo, view>>
    BY <1>1 DEF RecvObject
  <2>2. /\ chan \in Seq(Events) /\ chan # <<>> /\ chan' = Tail(chan)
        /\ Head(chan).type # "ERROR" /\ ev' = Head(chan)
        /\ loop = "receiving" /\ loop' = "applied"
    BY <1>1 DEF RecvObject, Receiving, TypeOK
  <2> SUFFICES ASSUME wif = "open", NEW u \in Uids, NoneAbout(chan', u), Live(u),
                      NEW b \in bindings, ev'.uid # u
               PROVE  Awaiting(b, u)' \/ view[b][u] \in Versions
    BY <2>1, <2>2 DEF HeardInv, Awaiting, BeingTold, Live
  <2>3. NoneAbout(chan, u)
    BY <2>2, AfterTail DEF IsAbout
  <2> QED
    BY <2>1, <2>2, <2>3 DEF HeardInv, Awaiting, BeingTold, Running
<1>2. CASE RecvStatus
  <2>1. /\ chan \in Seq(Events) /\ chan # <<>> /\ chan' = Tail(chan)
        /\ Head(chan).type = "ERROR"
    BY <1>2 DEF RecvStatus, Receiving, TypeOK
  <2>2. \A u \in Uids : NoneAbout(chan', u) => NoneAbout(chan, u)
    BY <2>1, AfterTail DEF IsAbout
  <2>3. UNCHANGED <<store, wif, loop, ev, calls, bindings, reg, todo, view>>
    BY <1>2 DEF RecvStatus
  <2> QED
    BY <2>2, <2>3, HeardKept
<1>3. CASE RecvClosed \/ RewatchFails
  <2>1. wif' # "open"
    BY <1>3 DEF RecvClosed, RewatchFails
  <2> QED
    BY <2>1 DEF HeardInv
<1>4. CASE Rewatch
  <2>1. PICK s \in Listings : chan' = Added(s)
    BY <1>4 DEF Rewatch, OpenWatch
  <2>2. UNCHANGED store
    BY <1>4 DEF Rewatch
  <2>3. \A u \in Uids : NoneAbout(chan', u) => ~Live(u) /\ store'[u] = store[u]
    BY <2>1, <2>2, AfterListing
  <2> QED
    BY <2>3 DEF HeardInv, Live
<1>5. CASE Wake \/ CopyBindings \/ CallsDone
  <2>1. UNCHANGED <<store, wif, chan, ev, bindings, reg, todo, view>> /\ Running
    BY <1>5 DEF Wake, CopyBindings, CallsDone, Running
  <2>2. \A u \in Uids, b \in bindings : BeingTold(b, u) => BeingTold(b, u)'
    BY <1>5 DEF Wake, CopyBindings, CallsDone, BeingTold
  <2> QED
    BY <2>1, <2>2 DEF HeardInv, Awaiting, Live
<1>6. ASSUME NEW c \in Bindings, Call(c) PROVE HeardInv'
  <2>1. /\ UNCHANGED <<store, wif, chan, loop, ev, bindings, reg, todo>>
        /\ loop = "calling" /\ c \in calls /\ calls' = calls \ {c}
        /\ view' = [view EXCEPT ![c][ev.uid] = ev.ver]
    BY <1>6 DEF Call
  <2> SUFFICES ASSUME wif = "open", NEW u \in Uids, NoneAbout(chan, u), Live(u),
                      NEW b \in bindings
               PROVE  Awaiting(b, u)' \/ view'[b][u] \in Versions
    BY <2>1 DEF HeardInv, Live
  <2>2. b \in Bindings /\ view \in [Bindings -> [Uids -> 0 .. Dead]]
    BY DEF TypeOK
  <2>3. CASE b = c /\ ev.uid = u
    <3>1. ev.ver = store[u]
      BY <2>1, <2>3 DEF SyncInv, ToldInv, Running
    <3>2. view'[b][u] = ev.ver
      BY <2>1, <2>2, <2>3
    <3> QED
      BY <3>1, <3>2 DEF Live
  <2>4. CASE ~(b = c /\ ev.uid = u)
    <3>1. view'[b][u] = view[b][u]
      BY <2>1, <2>2, <2>4
    <3>2. Awaiting(b, u) \/ view[b][u] \in Versions
      BY <2>1 DEF HeardInv, Running
    <3>3. Awaiting(b, u) => Awaiting(b, u)'
      BY <2>1, <2>4 DEF Awaiting, BeingTold
    <3> QED
      BY <3>1, <3>2, <3>3
  <2> QED
    BY <2>3, <2>4
<1> QED
  BY <1>1, <1>2, <1>3, <1>4, <1>5, <1>6 DEF LoopStep

LEMMA HeardCaller ==
    ASSUME TypeOK, SyncInv, HeardInv, NEW c \in Bindings, Caller(c)
    PROVE  HeardInv'
<1> USE DEF server, watch, thread, regs
<1>1. UNCHANGED <<store, wif, chan, state, loop, ev, calls>>
  BY DEF Caller, RegisterAdd, RegisterSnapshot, RegisterReplay, RegisterReturn, Unregister
<1> SUFFICES ASSUME wif = "open", Running, NEW u \in Uids, NoneAbout(chan, u), Live(u),
                    NEW b \in Bindings, b \in bindings'
             PROVE  Awaiting(b, u)' \/ view'[b][u] \in Versions
  <2>1. bindings' \subseteq Bindings
    BY DEF TypeOK, Caller, RegisterAdd, RegisterSnapshot, RegisterReplay, RegisterReturn,
       Unregister
  <2> QED
    BY <1>1, <2>1 DEF HeardInv, Running, Live
<1>2. state[u] = store[u]
  BY DEF SyncInv, StateInv
<1>3. b # c => b \in bindings /\ reg'[b] = reg[b] /\ todo'[b] = todo[b] /\ view'[b] = view[b]
  BY DEF TypeOK, Caller, RegisterAdd, RegisterSnapshot, RegisterReplay, RegisterReturn,
     Unregister
<1>4. CASE b # c
  <2>1. Awaiting(b, u) \/ view[b][u] \in Versions
    BY <1>3, <1>4 DEF HeardInv
  <2> QED
    BY <1>1, <1>3, <1>4, <2>1 DEF Awaiting, BeingTold
<1>5. CASE RegisterAdd(b)
  BY <1>5 DEF RegisterAdd, Awaiting, TypeOK
<1>6. CASE RegisterSnapshot(b)
  <2>1. reg'[b] = "replaying" /\ todo'[b] = state
    BY <1>6 DEF RegisterSnapshot, TypeOK
  <2>2. store[u] # 0
    BY DEF Live, Versions
  <2> QED
    BY <1>2, <2>1, <2>2 DEF Awaiting
<1>7. CASE RegisterReplay(b)
  <2>1. PICK x \in Uids : /\ todo[b][x] # 0
                          /\ view' = [view EXCEPT ![b][x] = todo[b][x]]
                          /\ todo' = [todo EXCEPT ![b][x] = 0]
    BY <1>7 DEF RegisterReplay
  <2>2. /\ todo \in [Bindings -> [Uids -> 0 .. MaxVersion]]
        /\ view \in [Bindings -> [Uids -> 0 .. Dead]]
    BY DEF TypeOK
  <2>3. CASE x = u
    <3>1. view'[b][u] = todo[b][u]
      BY <2>1, <2>2, <2>3
    <3>2. todo[b][u] \in Versions
      BY <2>1, <2>2, <2>3, BoundsAssumption DEF Versions
    <3> QED
      BY <3>1, <3>2
  <2>4. CASE x # u
    <3>1. view'[b][u] = view[b][u] /\ todo'[b][u] = todo[b][u] /\ reg' = reg /\ b \in bindings
      BY <1>7, <2>1, <2>2, <2>4 DEF RegisterReplay
    <3>2. Awaiting(b, u) \/ view[b][u] \in Versions
      BY <3>1 DEF HeardInv
    <3> QED
      BY <1>1, <3>1, <3>2 DEF Awaiting, BeingTold
  <2> QED
    BY <2>3, <2>4
<1>8. CASE RegisterReturn(b)
  <2>1. reg[b] = "replaying" /\ todo[b][u] = 0 /\ b \in bindings /\ view' = view
    BY <1>8 DEF RegisterReturn, NoTodo
  <2>2. BeingTold(b, u) \/ view[b][u] \in Versions
    BY <2>1 DEF HeardInv, Awaiting
  <2> QED
    BY <1>1, <2>1, <2>2 DEF Awaiting, BeingTold
<1>9. ~Unregister(b)
  BY DEF Unregister
<1> QED
  BY <1>4, <1>5, <1>6, <1>7, <1>8, <1>9 DEF Caller

(* What exists, and is not on its way to the loop, is known to a callback  *)
(* or on its way to it.                                                    *)
THEOREM HeardCorrect == Spec => []HeardInv
<1>1. Init => HeardInv
  BY DEF Init, HeardInv, Running
<1>2. TypeOK /\ SyncInv /\ HeardInv /\ [Next]_vars => HeardInv'
  <2> SUFFICES ASSUME TypeOK, SyncInv, HeardInv, [Next]_vars PROVE HeardInv'
    OBVIOUS
  <2>1. CASE UNCHANGED vars
    BY <2>1, HeardKept DEF vars
  <2>2. CASE Next
    BY <2>2, HeardServer, HeardOwner, HeardLoop, HeardCaller DEF Next
  <2> QED
    BY <2>1, <2>2
<1> QED
  BY <1>1, <1>2, TypeCorrect, SyncCorrect, PTL DEF Spec

(* A callback registered at any other time has heard of all that exists:   *)
(* nothing falls between adding the binding and taking the snapshot.       *)
THEOREM LateToldLiveCorrect == Spec => []LateToldLive
<1>1. HeardInv => LateToldLive
  <2> SUFFICES ASSUME HeardInv, Drained, NEW b \in bindings, NEW u \in LiveUids, Settled(b)
               PROVE  view[b][u] \in Versions
    BY DEF LateToldLive
  <2>1. u \in Uids /\ Live(u) /\ NoneAbout(chan, u) /\ Running /\ wif = "open"
    BY DrainedNone DEF LiveUids
  <2>2. ~Awaiting(b, u)
    BY DEF Awaiting, BeingTold, Drained, Settled
  <2> QED
    BY <2>1, <2>2 DEF HeardInv
<1> QED
  BY <1>1, HeardCorrect, PTL
-----------------------------------------------------------------------------
(***************************************************************************)
(* The watcher implements Mirror.                                          *)
(***************************************************************************)
LEMMA MirrorInit == Init => M!Init
<1> SUFFICES ASSUME Init PROVE M!Init
  OBVIOUS
<1>1. store \in [Uids -> 0 .. Dead - 1]
  BY BoundsAssumption DEF Init, Dead
<1>2. [b \in EarlyBindings |-> view[b]] = [b \in EarlyBindings |-> [u \in Uids |-> 0]]
  BY BindingsAssumption DEF Init
<1>3. EarlyBindings \cap bindings = {} /\ Drained = FALSE
  BY DEF Init, Drained
<1> QED
  BY <1>1, <1>2, <1>3 DEF M!Init

(* A step that nobody hears of, and after which all know everything if the *)
(* loop is drained then.                                                   *)
LEMMA MirrorQuiet ==
    ASSUME EarlyToldLive', store' = store,
           \A b \in EarlyBindings : view'[b] = view[b],
           EarlyBindings \cap bindings' = EarlyBindings \cap bindings
    PROVE  M!Next
<1>1. [b \in EarlyBindings |-> view'[b]] = [b \in EarlyBindings |-> view[b]]
  OBVIOUS
<1>2. CASE Drained'
  <2>1. \A f \in EarlyBindings \cap bindings, u \in Uids :
            M!Exists(u) => [b \in EarlyBindings |-> view[b]][f][u] = store[u]
    <3> SUFFICES ASSUME NEW f \in EarlyBindings \cap bindings, NEW u \in Uids, M!Exists(u)
                 PROVE  view[f][u] = store[u]
      OBVIOUS
    <3>1. u \in LiveUids' /\ f \in EarlyBindings \cap bindings'
      BY BoundsAssumption DEF M!Exists, LiveUids, Live, Versions, Dead
    <3>2. view'[f][u] = store'[u]
      BY <1>2, <3>1 DEF EarlyToldLive
    <3> QED
      BY <3>2
  <2>2. M!CatchUp
    BY <1>1, <1>2, <2>1 DEF M!CatchUp
  <2> QED
    BY <2>2 DEF M!Next
<1>3. CASE ~Drained'
  <2>1. M!Lapse
    BY <1>1, <1>3 DEF M!Lapse
  <2> QED
    BY <2>1 DEF M!Next
<1> QED
  BY <1>2, <1>3

LEMMA MirrorServer == ASSUME TypeOK, Server, EarlyToldLive' PROVE M!Next
<1>1. UNCHANGED <<view, bindings, loop, watchState>>
  BY DEF Server, Create, Modify, Remove, CloseWatch, Local
<1>2. ASSUME NEW u \in Uids, NEW e, Emit(e), wif' = wif, store[u] # Dead,
             NEW v \in {store[u] + 1, Dead}, store' = [store EXCEPT ![u] = v]
      PROVE  M!Next
  <2>1. chan \in Seq(Events)
    BY DEF TypeOK
  <2>2. Drained' = FALSE
    <3> SUFFICES ASSUME wif = "open" PROVE chan' # <<>>
      BY <1>2 DEF Drained
    <3>1. chan' = Append(chan, e)
      BY <1>2 DEF Emit
    <3> QED
      BY <2>1, <3>1
  <2>3. M!Change(u)
    BY <1>1, <1>2, <2>2 DEF M!Change
  <2> QED
    BY <2>3 DEF M!Next
<1>3. ASSUME NEW u \in Uids, Create(u) PROVE M!Next
  <2>1. store[u] # Dead /\ 1 \in {store[u] + 1, Dead}
    BY <1>3, BoundsAssumption DEF Create, Dead
  <2> QED
    BY <1>2, <1>3, <2>1 DEF Create
<1>4. ASSUME NEW u \in Uids, Modify(u) PROVE M!Next
  <2>1. store[u] # Dead
    BY <1>4, BoundsAssumption DEF Modify, Live, Versions, Dead
  <2> QED
    BY <1>2, <1>4, <2>1 DEF Modify
<1>5. ASSUME NEW u \in Uids, Remove(u) PROVE M!Next
  <2>1. store[u] # Dead
    BY <1>5, BoundsAssumption DEF Remove, Live, Versions, Dead
  <2> QED
    BY <1>2, <1>5, <2>1 DEF Remove
<1>6. ASSUME CloseWatch PROVE M!Next
  BY <1>1, <1>6, MirrorQuiet DEF CloseWatch
<1> QED
  BY <1>3, <1>4, <1>5, <1>6 DEF Server

LEMMA MirrorOwner == ASSUME TypeOK, PhaseInv, Owner, EarlyToldLive' PROVE M!Next
<1> USE DEF server, watch, thread, regs
<1>1. CASE StopFinish
  <2>1. UNCHANGED <<store, view>> /\ bindings' = {}
    BY <1>1 DEF StopFinish
  <2>2. UNCHANGED Drained
    BY <1>1 DEF StopFinish, PhaseInv, Drained
  <2>3. M!Leave
    BY <2>1, <2>2 DEF M!Leave
  <2> QED
    BY <2>3 DEF M!Next
<1>2. CASE ~StopFinish
  <2>1. UNCHANGED <<store, view, bindings>>
    BY <1>2 DEF Owner, StartWatch, StartWatchFails, StartList, StartListFails, StopBegin,
                StopWif, StopNilWif, Local
  <2> QED
    BY <2>1, MirrorQuiet
<1> QED
  BY <1>1, <1>2

LEMMA MirrorLoop == ASSUME TypeOK, ForwardInv, LoopStep, EarlyToldLive' PROVE M!Next
<1> USE DEF server, watch, thread, regs
<1>1. ASSUME NEW c \in Bindings, Call(c) PROVE M!Next
  <2>1. /\ UNCHANGED <<store, bindings>> /\ ~Drained /\ ~Drained'
        /\ view' = [view EXCEPT ![c][ev.uid] = ev.ver]
        /\ view \in [Bindings -> [Uids -> 0 .. Dead]]
    BY <1>1 DEF Call, TypeOK, Drained
  <2>2. ev.type # "ERROR" /\ ev.uid \in Uids /\ ev.ver \in 1 .. Dead
    <3>1. ev \in ObjectEvents /\ ev \in Events
      BY <1>1 DEF Call, TypeOK
    <3>2. ev.type # "ERROR"
      BY <3>1 DEF ObjectEvents, Event
    <3> QED
      BY <3>1, <3>2, EventTypes
  <2>3. ev.ver <= store[ev.uid] /\ \A b \in EarlyBindings : view[b][ev.uid] <= ev.ver
    BY <1>1, <2>2 DEF Call, ForwardInv, WorkInv, Working, Timely
  <2> DEFINE told == [b \in EarlyBindings |-> view[b]]
  <2>4. CASE c \in EarlyBindings /\ view[c][ev.uid] # ev.ver
    <3>1. ev.ver \in told[c][ev.uid] + 1 .. store[ev.uid]
      <4>1. view[c][ev.uid] \in 0 .. Dead /\ store[ev.uid] \in 0 .. Dead
        BY <2>1, <2>2 DEF TypeOK
      <4> QED
        BY <2>2, <2>3, <2>4, <4>1, BoundsAssumption DEF Dead
    <3>2. told' = [told EXCEPT ![c][ev.uid] = ev.ver]
      BY <2>1, <2>4, BindingsAssumption
    <3>3. UNCHANGED Drained
      BY <1>1 DEF Call, Drained
    <3>4. PICK u \in Uids : u = ev.uid
      BY <2>2
    <3>5. M!Tell(c, u)
      BY <2>1, <3>1, <3>2, <3>3, <3>4 DEF M!Tell
    <3> QED
      BY <2>4, <3>5 DEF M!Next
  <2>5. CASE ~(c \in EarlyBindings /\ view[c][ev.uid] # ev.ver)
    <3>1. \A b \in EarlyBindings : view'[b] = view[b]
      BY <2>1, <2>2, <2>5, BindingsAssumption
    <3> QED
      BY <2>1, <3>1, MirrorQuiet
  <2> QED
    BY <2>4, <2>5
<1>2. CASE ~\E c \in Bindings : Call(c)
  <2>1. UNCHANGED <<store, view, bindings>>
    BY <1>2 DEF LoopStep, RecvObject, RecvStatus, RecvClosed, Rewatch, RewatchFails, Wake,
                CopyBindings, CallsDone
  <2> QED
    BY <2>1, MirrorQuiet
<1> QED
  BY <1>1, <1>2

LEMMA MirrorCaller ==
    ASSUME TypeOK, PhaseInv, ForwardInv, NEW c \in Bindings, Caller(c), EarlyToldLive'
    PROVE  M!Next
<1> USE DEF server, watch, thread, regs
<1>1. UNCHANGED <<store, watchState, loop, wif, chan>>
  BY DEF Caller, RegisterAdd, RegisterSnapshot, RegisterReplay, RegisterReturn, Unregister
<1>2. Drained' = Drained
  BY <1>1 DEF Drained
<1>3. \A b \in EarlyBindings : view'[b] = IF b = c /\ RegisterAdd(c)
                                          THEN [u \in Uids |-> 0] ELSE view[b]
  BY EarlyViews DEF ForwardInv
<1> DEFINE told == [b \in EarlyBindings |-> view[b]]
           following == EarlyBindings \cap bindings
<1>4. CASE RegisterAdd(c) /\ c \in EarlyBindings
  <2>1. ~Drained
    BY <1>4 DEF RegisterAdd, MayRegister, Drained
  <2>2. following' = following \cup {c}
    BY <1>4 DEF RegisterAdd
  <2>3. told' = [told EXCEPT ![c] = [u \in Uids |-> 0]]
    BY <1>3, <1>4
  <2>4. M!Join(c)
    BY <1>1, <1>2, <2>1, <2>2, <2>3 DEF M!Join
  <2> QED
    BY <1>4, <2>4 DEF M!Next
<1>5. CASE Unregister(c) /\ c \in EarlyBindings
  <2>1. following' = following \ {c} /\ view' = view
    BY <1>5 DEF Unregister
  <2>2. M!Leave
    BY <1>1, <1>2, <1>5, <2>1 DEF M!Leave
  <2> QED
    BY <2>2 DEF M!Next
<1>6. CASE ~(RegisterAdd(c) \/ Unregister(c)) \/ c \notin EarlyBindings
  <2>1. following' = following
    BY <1>6 DEF Caller, RegisterAdd, RegisterSnapshot, RegisterReplay, RegisterReturn,
                Unregister
  <2>2. \A b \in EarlyBindings : view'[b] = view[b]
    BY <1>3, <1>6
  <2> QED
    BY <1>1, <2>1, <2>2, MirrorQuiet
<1> QED
  BY <1>4, <1>5, <1>6

LEMMA MirrorStep ==
    TypeOK /\ SyncInv /\ EarlyToldLive' /\ [Next]_vars => [M!Next]_(M!vars)
<1> SUFFICES ASSUME TypeOK, SyncInv, EarlyToldLive', [Next]_vars
             PROVE  M!Next \/ UNCHANGED M!vars
  OBVIOUS
<1>1. CASE UNCHANGED vars
  <2>1. UNCHANGED <<store, view, bindings, watchState, loop, wif, chan>>
    BY <1>1 DEF vars
  <2> QED
    BY <2>1 DEF M!vars, Drained
<1>2. CASE Next
  BY <1>2, MirrorServer, MirrorOwner, MirrorLoop, MirrorCaller DEF Next, SyncInv
<1> QED
  BY <1>1, <1>2

(* The callbacks registered before Start see every object only move        *)
(* forward, through restarts of the watch and through Stop and Start, and  *)
(* all of it is known to them when the loop has caught up.                 *)
THEOREM MirrorImplemented == Spec => ImplementsMirror
<1>1. Init => M!Init
  BY MirrorInit
<1>2. TypeOK /\ SyncInv /\ EarlyToldLive' /\ [Next]_vars => [M!Next]_(M!vars)
  BY MirrorStep
<1> QED
  BY <1>1, <1>2, TypeCorrect, SyncCorrect, EarlyToldLiveCorrect, PTL
     DEF Spec, ImplementsMirror, M!Spec
=============================================================================
