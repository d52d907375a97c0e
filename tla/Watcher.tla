------------------------------ MODULE Watcher ------------------------------
(***************************************************************************)
(* controller/watcher/watcher.go: the generic mirror of a Kubernetes       *)
(* collection that every other part of the controller is driven by.        *)
(*                                                                         *)
(* Four parties take steps: the API server (which holds the objects and    *)
(* feeds the watch), the owner of the watcher (Start and Stop), the        *)
(* goroutine that Start launches, and the callers of RegisterEvent.        *)
(*                                                                         *)
(* An object is a uid.  Its content is its version, 1 .. MaxVersion; the   *)
(* version Dead says that it has been deleted, 0 that it does not exist    *)
(* yet.  A uid never lives twice.                                          *)
(***************************************************************************)
EXTENDS Integers, Sequences, FiniteSets

CONSTANTS
    Uids,           \* the uids of the objects of the watched collection
    Bindings,       \* the callbacks given to RegisterEvent
    EarlyBindings,  \* those registered before Start (ConfigMaps, Services,
                    \* Ingresses); the others come later (Namespaces)
    MaxVersion,     \* bound: how often an object can change
    MaxCloses,      \* bound: how often the server ends a watch
    ApiMayFail      \* whether Watch and List can return an error

ASSUME UidsAssumption == IsFiniteSet(Uids)
ASSUME BindingsAssumption == EarlyBindings \subseteq Bindings
ASSUME BoundsAssumption == /\ MaxVersion \in Nat \ {0}
                           /\ MaxCloses \in Nat
                           /\ ApiMayFail \in BOOLEAN

Versions == 1 .. MaxVersion
Dead     == MaxVersion + 1

VARIABLES
    store,       \* server: version of every uid (0, a version, or Dead)
    wif,         \* w.wif: "nil", or the watch it holds is "open" or "closed"
    chan,        \* events of that watch the loop has not taken yet
    closes,      \* how many watches the server has ended
    state,       \* w.state: version held for a uid, 0 if there is no entry
    watchState,  \* w.watchState
    restarted,   \* w.restartCount # 0
    owner,       \* where the goroutine that calls Start and Stop is
    loop,        \* where the goroutine launched by Start is
    ev,          \* the event the loop is working on
    calls,       \* the copy of the bindings that it still has to call
    bindings,    \* w.bindings
    reg,         \* where each caller of RegisterEvent is
    todo,        \* the snapshot that RegisterEvent still has to replay
    view,        \* what each callback was last told of each uid (0: nothing)
    panicked     \* the process died on a nil pointer

server == <<store, closes>>
watch  == <<wif, chan>>
thread == <<loop, ev, calls>>
regs   == <<reg, todo>>
vars   == <<store, closes, wif, chan, state, watchState, restarted, owner,
            loop, ev, calls, bindings, reg, todo, view, panicked>>

(***************************************************************************)
(* Events.  ADDED and MODIFIED carry a live version, DELETED carries Dead; *)
(* a Status (sent as an ERROR event) is about no object.                   *)
(***************************************************************************)
Event(u) ==
    [type : {"ADDED", "MODIFIED"}, uid : {u}, ver : Versions]
        \cup [type : {"DELETED"}, uid : {u}, ver : {Dead}]
ObjectEvents == UNION {Event(u) : u \in Uids}
Status       == [type |-> "ERROR"]
Events       == ObjectEvents \cup {Status}

Live(u)  == store[u] \in Versions
LiveUids == {u \in Uids : Live(u)}

(* Variant: the Deleted case falls into the one before it.                 *)
Kept_DeletedStored(e) == e.ver

(* Variant: only Added stores an object.                                   *)
Kept_AddedOnly(e) == IF e.type = "ADDED" THEN e.ver ELSE 0

(* The version an event leaves in the mirror's map.                        *)
Kept(e) == IF e.type = "DELETED" THEN 0 ELSE e.ver

(* A watch opened without a resourceVersion starts with one ADDED event    *)
(* for each live object, in any order.                                     *)
Listings ==
    LET n == Cardinality(LiveUids)
    IN  {s \in [1 .. n -> LiveUids] : \A u \in LiveUids : \E i \in 1 .. n : s[i] = u}

Added(s) ==
    [i \in DOMAIN s |-> [type |-> "ADDED", uid |-> s[i], ver |-> store[s[i]]]]

(* What is left of the channel's content when a watch ends: whatever had   *)
(* not reached the reader may be lost, from some point on.                 *)
Cuts == {SubSeq(chan, 1, n) : n \in 0 .. Len(chan)}

NoTodo == [u \in Uids |-> 0]

Init ==
    /\ store \in [Uids -> 0 .. 1]
    /\ closes = 0
    /\ wif = "nil"
    /\ chan = <<>>
    /\ state = [u \in Uids |-> 0]
    /\ watchState = "stopped"
    /\ restarted = FALSE
    /\ owner = "idle"
    /\ loop = "none"
    /\ ev = Status
    /\ calls = {}
    /\ bindings = {}
    /\ reg = [b \in Bindings |-> "out"]
    /\ todo = [b \in Bindings |-> NoTodo]
    /\ view = [b \in Bindings |-> [u \in Uids |-> 0]]
    /\ panicked = FALSE
-----------------------------------------------------------------------------
(***************************************************************************)
(* The API server.                                                         *)
(***************************************************************************)
Emit(e) == chan' = IF wif = "open" THEN Append(chan, e) ELSE chan

Local == <<state, watchState, restarted, owner, loop, ev, calls, bindings,
           reg, todo, view, panicked>>

Create(u) ==
    /\ store[u] = 0
    /\ store' = [store EXCEPT ![u] = 1]
    /\ Emit([type |-> "ADDED", uid |-> u, ver |-> 1])
    /\ UNCHANGED <<closes, wif, Local>>

Modify(u) ==
    /\ Live(u) /\ store[u] < MaxVersion
    /\ store' = [store EXCEPT ![u] = store[u] + 1]
    /\ Emit([type |-> "MODIFIED", uid |-> u, ver |-> store[u] + 1])
    /\ UNCHANGED <<closes, wif, Local>>

Remove(u) ==
    /\ Live(u)
    /\ store' = [store EXCEPT ![u] = Dead]
    /\ Emit([type |-> "DELETED", uid |-> u, ver |-> Dead])
    /\ UNCHANGED <<closes, wif, Local>>

(* The server, or the connection, ends the watch.  It may send a Status    *)
(* first, and events on their way may be lost with it.                     *)
CloseWatch ==
    /\ wif = "open" /\ closes < MaxCloses
    /\ closes' = closes + 1
    /\ wif' = "closed"
    /\ \E rest \in Cuts : chan' \in {rest, Append(rest, Status)}
    /\ UNCHANGED <<store, Local>>

Server == \/ \E u \in Uids : Create(u) \/ Modify(u) \/ Remove(u)
          \/ CloseWatch
-----------------------------------------------------------------------------
(***************************************************************************)
(* The owner: Start and Stop.                                              *)
(***************************************************************************)
Settled(b) == reg[b] \notin {"adding", "replaying"}

(* Variant: the new watch resumes without the objects that exist already.  *)
OpenWatch_NoListing == wif' = "open" /\ chan' = <<>>

OpenWatch == /\ wif' = "open"
             /\ \E s \in Listings : chan' = Added(s)

(* Start opens the watch before it lists, so that nothing falls between.   *)
StartWatch ==
    /\ owner = "idle" /\ watchState = "stopped"
    /\ \A b \in EarlyBindings : Settled(b)
    /\ OpenWatch
    /\ owner' = "listing"
    /\ UNCHANGED <<server, state, watchState, restarted, thread, bindings, regs,
                   view, panicked>>

StartWatchFails ==
    /\ ApiMayFail
    /\ owner = "idle" /\ watchState = "stopped"
    /\ \A b \in EarlyBindings : Settled(b)
    /\ wif' = "nil"
    /\ chan' = <<>>
    /\ UNCHANGED <<server, Local>>

(* fetchFullState merges the list into the map, then the loop is launched. *)
StartList ==
    /\ owner = "listing"
    /\ state' = [u \in Uids |-> IF Live(u) THEN store[u] ELSE state[u]]
    /\ watchState' = "started"
    /\ owner' = "idle"
    /\ loop' = "receiving"
    /\ UNCHANGED <<server, watch, restarted, ev, calls, bindings, regs, view, panicked>>

StartListFails ==
    /\ ApiMayFail
    /\ owner = "listing"
    /\ owner' = "idle"
    /\ UNCHANGED <<server, watch, state, watchState, restarted, thread, bindings,
                   regs, view, panicked>>

StopBegin ==
    /\ owner = "idle" /\ watchState = "started"
    /\ watchState' = "stopping"
    /\ owner' = "stopping"
    /\ UNCHANGED <<server, watch, state, restarted, thread, bindings, regs, view,
                   panicked>>

(* w.wif.Stop(): closes the watch that w.wif holds at this moment.         *)
StopWif ==
    /\ owner = "stopping"
    /\ wif # "nil"
    /\ wif' = "closed"
    /\ chan' \in Cuts
    /\ owner' = "waiting"
    /\ UNCHANGED <<server, state, watchState, restarted, thread, bindings, regs,
                   view, panicked>>

StopNilWif ==
    /\ owner = "stopping"
    /\ wif = "nil"
    /\ panicked' = TRUE
    /\ UNCHANGED <<server, watch, state, watchState, restarted, owner, thread,
                   bindings, regs, view>>

(* Variant: Stop keeps the map.                                            *)
StopFinish_KeepsState ==
    /\ owner = "waiting" /\ loop = "none"
    /\ owner' = "idle"
    /\ watchState' = "stopped"
    /\ wif' = "nil"
    /\ chan' = <<>>
    /\ restarted' = FALSE
    /\ bindings' = {}
    /\ UNCHANGED <<server, state, thread, regs, view, panicked>>

(* w.watcher.Wait() returns when the loop is gone.                         *)
StopFinish ==
    /\ owner = "waiting" /\ loop = "none"
    /\ owner' = "idle"
    /\ watchState' = "stopped"
    /\ wif' = "nil"
    /\ chan' = <<>>
    /\ restarted' = FALSE
    /\ state' = [u \in Uids |-> 0]
    /\ bindings' = {}
    /\ UNCHANGED <<server, thread, regs, view, panicked>>

Owner == \/ StartWatch \/ StartWatchFails \/ StartList \/ StartListFails
         \/ StopBegin \/ StopWif \/ StopNilWif \/ StopFinish
-----------------------------------------------------------------------------
(***************************************************************************)
(* The goroutine launched by Start.                                        *)
(***************************************************************************)
Receiving == loop = "receiving" /\ chan # <<>>

(* One event is taken and applied to the map under stateSync.              *)
RecvObject ==
    /\ Receiving
    /\ Head(chan).type # "ERROR"
    /\ ev' = Head(chan)
    /\ chan' = Tail(chan)
    /\ state' = [state EXCEPT ![Head(chan).uid] = Kept(Head(chan))]
    /\ loop' = "applied"
    /\ UNCHANGED <<server, wif, watchState, restarted, owner, calls, bindings, regs,
                   view, panicked>>

RecvStatus ==
    /\ Receiving
    /\ Head(chan).type = "ERROR"
    /\ chan' = Tail(chan)
    /\ UNCHANGED <<server, wif, state, watchState, restarted, owner, thread, bindings,
                   regs, view, panicked>>

(* Variant: a closed channel always ends the loop.                         *)
RecvClosed_Ends ==
    /\ loop = "receiving" /\ chan = <<>> /\ wif = "closed"
    /\ loop' = "none"
    /\ UNCHANGED <<server, watch, state, watchState, restarted, owner, ev, calls,
                   bindings, regs, view, panicked>>

(* Variant: a closed channel always starts a new watch.                    *)
RecvClosed_Restarts ==
    /\ loop = "receiving" /\ chan = <<>> /\ wif = "closed"
    /\ loop' = "rewatching"
    /\ UNCHANGED <<server, watch, state, watchState, restarted, owner, ev, calls,
                   bindings, regs, view, panicked>>

(* The channel is closed: end, or start over, by what watchState says now. *)
RecvClosed ==
    /\ loop = "receiving" /\ chan = <<>> /\ wif = "closed"
    /\ loop' = IF watchState = "started" THEN "rewatching" ELSE "none"
    /\ UNCHANGED <<server, watch, state, watchState, restarted, owner, ev, calls,
                   bindings, regs, view, panicked>>

(* watchState is not read again in the loop around getResultChan.          *)
Rewatch ==
    /\ loop = "rewatching"
    /\ OpenWatch
    /\ restarted' = TRUE
    /\ loop' = "receiving"
    /\ UNCHANGED <<server, state, watchState, owner, ev, calls, bindings, regs, view,
                   panicked>>

RewatchFails ==
    /\ ApiMayFail
    /\ loop = "rewatching"
    /\ wif' = "nil"
    /\ chan' = <<>>
    /\ restarted' = TRUE
    /\ loop' = "sleeping"
    /\ UNCHANGED <<server, state, watchState, owner, ev, calls, bindings, regs, view,
                   panicked>>

Wake ==
    /\ loop = "sleeping"
    /\ loop' = "rewatching"
    /\ UNCHANGED <<server, watch, state, watchState, restarted, owner, ev, calls,
                   bindings, regs, view, panicked>>

(* Variant: a Modified event is not passed on.                             *)
CopyBindings_NotModified ==
    /\ loop = "applied"
    /\ calls' = IF ev.type = "MODIFIED" THEN {} ELSE bindings
    /\ loop' = "calling"
    /\ UNCHANGED <<server, watch, state, watchState, restarted, owner, ev, bindings,
                   regs, view, panicked>>

(* The bindings are copied under their lock, and called without it.        *)
CopyBindings ==
    /\ loop = "applied"
    /\ calls' = bindings
    /\ loop' = "calling"
    /\ UNCHANGED <<server, watch, state, watchState, restarted, owner, ev, bindings,
                   regs, view, panicked>>

Call(b) ==
    /\ loop = "calling" /\ b \in calls
    /\ view' = [view EXCEPT ![b][ev.uid] = ev.ver]
    /\ calls' = calls \ {b}
    /\ UNCHANGED <<server, watch, state, watchState, restarted, owner, loop, ev,
                   bindings, regs, panicked>>

CallsDone ==
    /\ loop = "calling" /\ calls = {}
    /\ loop' = "receiving"
    /\ UNCHANGED <<server, watch, state, watchState, restarted, owner, ev, calls,
                   bindings, regs, view, panicked>>

LoopStep == \/ RecvObject \/ RecvStatus \/ RecvClosed
            \/ Rewatch \/ RewatchFails \/ Wake
            \/ CopyBindings \/ CallsDone
            \/ \E b \in Bindings : Call(b)
-----------------------------------------------------------------------------
(***************************************************************************)
(* RegisterEvent, in the goroutine of its caller, and the function that it *)
(* returns.                                                                *)
(***************************************************************************)
(* Variant: the caller registers after Start.                              *)
MayRegister_Anytime(b) == TRUE

(* EarlyBindings are registered by the goroutine that calls Start next.    *)
MayRegister(b) ==
    b \in EarlyBindings => owner = "idle" /\ watchState = "stopped"

RegisterAdd(b) ==
    /\ reg[b] = "out" /\ MayRegister(b)
    /\ b \notin calls
    /\ bindings' = bindings \cup {b}
    /\ reg' = [reg EXCEPT ![b] = "adding"]
    /\ view' = [view EXCEPT ![b] = [u \in Uids |-> 0]]
    /\ UNCHANGED <<server, watch, state, watchState, restarted, owner, thread, todo,
                   panicked>>

(* Variant: what exists already is not replayed.                           *)
RegisterSnapshot_Nothing(b) ==
    /\ reg[b] = "adding"
    /\ todo' = [todo EXCEPT ![b] = NoTodo]
    /\ reg' = [reg EXCEPT ![b] = "replaying"]
    /\ UNCHANGED <<server, watch, state, watchState, restarted, owner, thread,
                   bindings, view, panicked>>

RegisterSnapshot(b) ==
    /\ reg[b] = "adding"
    /\ todo' = [todo EXCEPT ![b] = state]
    /\ reg' = [reg EXCEPT ![b] = "replaying"]
    /\ UNCHANGED <<server, watch, state, watchState, restarted, owner, thread,
                   bindings, view, panicked>>

RegisterReplay(b) ==
    /\ reg[b] = "replaying"
    /\ \E u \in Uids :
         /\ todo[b][u] # 0
         /\ view' = [view EXCEPT ![b][u] = todo[b][u]]
         /\ todo' = [todo EXCEPT ![b][u] = 0]
    /\ UNCHANGED <<server, watch, state, watchState, restarted, owner, thread,
                   bindings, reg, panicked>>

RegisterReturn(b) ==
    /\ reg[b] = "replaying" /\ todo[b] = NoTodo
    /\ reg' = [reg EXCEPT ![b] = "in"]
    /\ UNCHANGED <<server, watch, state, watchState, restarted, owner, thread,
                   bindings, todo, view, panicked>>

Unregister(b) ==
    /\ reg[b] = "in"
    /\ bindings' = bindings \ {b}
    /\ reg' = [reg EXCEPT ![b] = "out"]
    /\ UNCHANGED <<server, watch, state, watchState, restarted, owner, thread, todo,
                   view, panicked>>

Caller(b) == \/ RegisterAdd(b) \/ RegisterSnapshot(b) \/ RegisterReplay(b)
             \/ RegisterReturn(b) \/ Unregister(b)
-----------------------------------------------------------------------------
Next == /\ ~panicked
        /\ \/ Server
           \/ Owner
           \/ LoopStep
           \/ \E b \in Bindings : Caller(b)

Spec == Init /\ [][Next]_vars

(***************************************************************************)
(* A goroutine that can run is run: Go's scheduler is fair.  An API call   *)
(* that is tried again and again succeeds in the end (strong fairness of   *)
(* Rewatch); nothing forces the server to change anything, the owner to    *)
(* call Start or Stop, or a caller to register.                            *)
(***************************************************************************)
Alive(A) == ~panicked /\ A

Fairness ==
    /\ WF_vars(Alive(RecvObject \/ RecvStatus \/ RecvClosed))
    /\ WF_vars(Alive(Wake))
    /\ SF_vars(Alive(Rewatch))
    /\ WF_vars(Alive(CopyBindings \/ CallsDone))
    /\ \A b \in Bindings : WF_vars(Alive(Call(b)))
    /\ WF_vars(Alive(StopWif \/ StopNilWif \/ StopFinish))
    /\ WF_vars(Alive(StartList \/ StartListFails))
    /\ \A b \in Bindings :
          WF_vars(Alive(RegisterSnapshot(b) \/ RegisterReplay(b) \/ RegisterReturn(b)))

FairSpec == Spec /\ Fairness
-----------------------------------------------------------------------------
TypeOK ==
    /\ store \in [Uids -> 0 .. Dead]
    /\ closes \in 0 .. MaxCloses
    /\ wif \in {"nil", "open", "closed"}
    /\ chan \in Seq(Events)
    /\ state \in [Uids -> 0 .. MaxVersion]
    /\ watchState \in {"stopped", "started", "stopping"}
    /\ restarted \in BOOLEAN
    /\ owner \in {"idle", "listing", "stopping", "waiting"}
    /\ loop \in {"none", "receiving", "applied", "calling", "rewatching", "sleeping"}
    /\ ev \in Events
    /\ loop \in {"applied", "calling"} => ev \in ObjectEvents
    /\ calls \subseteq Bindings
    /\ bindings \subseteq Bindings
    /\ reg \in [Bindings -> {"out", "adding", "replaying", "in"}]
    /\ todo \in [Bindings -> [Uids -> 0 .. MaxVersion]]
    /\ view \in [Bindings -> [Uids -> 0 .. Dead]]
    /\ panicked \in BOOLEAN
-----------------------------------------------------------------------------
(***************************************************************************)
(* What the rest of the controller relies on.                              *)
(***************************************************************************)
Shown(u) == IF Live(u) THEN store[u] ELSE 0

(* The loop has nothing left to do and its watch is alive.                 *)
Drained == /\ watchState = "started"
           /\ loop = "receiving" /\ wif = "open" /\ chan = <<>>

(* However the watch was opened, listed, cut and opened again, once the    *)
(* loop has caught up GetState holds the current version of every object   *)
(* that exists (the order "watch, then list, then merge" of Start, and     *)
(* the restart in the loop).                                               *)
MirrorsLive == Drained => \A u \in LiveUids : state[u] = store[u]

(* As long as no watch was restarted it holds nothing else either.         *)
ExactUntilRestart == Drained /\ ~restarted => \A u \in Uids : state[u] = Shown(u)

(* A callback registered before Start has then been told the current       *)
(* version of every object that exists, although List itself tells nobody. *)
EarlyToldLive ==
    Drained => \A b \in EarlyBindings \cap bindings, u \in LiveUids :
                    view[b][u] = store[u]

(* One registered at any other time has heard of every object that exists: *)
(* nothing falls between "add the binding" and "take the snapshot".        *)
LateToldLive ==
    Drained => \A b \in bindings, u \in LiveUids :
                    Settled(b) => view[b][u] \in Versions

(* What the callbacks registered before Start are told is what Mirror      *)
(* promises: none sees an object go back to an older version or come back  *)
(* from its deletion, across restarts of the watch as well, nor a version  *)
(* that does not exist; and when the loop is drained, all have seen what   *)
(* there is to be seen.                                                    *)
M == INSTANCE Mirror WITH
        Followers <- EarlyBindings,
        told      <- [b \in EarlyBindings |-> view[b]],
        following <- EarlyBindings \cap bindings,
        inStep    <- Drained

ImplementsMirror == M!Spec

(* What exists is told to every callback that stays registered while the   *)
(* watcher stays started, unless it changes again: no restart of the watch *)
(* loses it for good.                                                      *)
EventuallyTold ==
    \A b \in EarlyBindings, u \in Uids, v \in Versions :
        (store[u] = v /\ watchState = "started" /\ b \in bindings)
            ~> \/ view[b][u] >= v
               \/ store[u] = Dead
               \/ watchState # "started" \/ b \notin bindings \/ panicked

(* Once the watch is closed Stop returns, whatever the loop, the callbacks  *)
(* and the server do, if the loop is not on its way to a new watch.        *)
StopReturnsUnlessRewatching ==
    (owner = "waiting" /\ wif = "closed" /\ loop \notin {"rewatching", "sleeping"})
        ~> (owner = "idle")

(* Stop returns.                                                           *)
StopReturns == (owner = "waiting") ~> (owner = "idle")
-----------------------------------------------------------------------------
(***************************************************************************)
(* Why MirrorsLive, ExactUntilRestart and EarlyToldLive hold: while a      *)
(* watch is open, the last event about an object that is still in the      *)
(* channel carries its current version, and if there is none the map, and  *)
(* the callbacks that are not being called now, have that version already. *)
(***************************************************************************)
IsAbout(e, u) == e.type # "ERROR" /\ e.uid = u
NoneAbout(q, u) == \A i \in DOMAIN q : ~IsAbout(q[i], u)
LastAbout(q, i, u) ==
    /\ IsAbout(q[i], u)
    /\ \A j \in DOMAIN q : j > i => ~IsAbout(q[j], u)

Running == loop # "none"

(* The phases of the owner, of watchState and of the loop fit together.    *)
PhaseInv ==
    /\ watchState = "stopping" <=> owner \in {"stopping", "waiting"}
    /\ owner = "listing" => watchState = "stopped"
    /\ watchState = "stopped" => /\ loop = "none" /\ ~restarted
                                 /\ state = [u \in Uids |-> 0]
    /\ watchState # "stopped" \/ owner # "idle" =>
            \A b \in EarlyBindings : Settled(b)

(* The events in the channel of an open watch lead up to the store.        *)
ChanInv ==
    wif = "open" => \A u \in Uids, i \in DOMAIN chan :
                        LastAbout(chan, i, u) => chan[i].ver = store[u]

(* What the map holds of an object no event of the channel is about.       *)
StateInv ==
    wif = "open" => \A u \in Uids : NoneAbout(chan, u) =>
        /\ ~Running => ~Live(u)
        /\ Running /\ Live(u) => state[u] = store[u]
        /\ Running /\ ~restarted => state[u] = Shown(u)

(* What the callbacks have been told of it.                                *)
BeingTold(b, u) ==
    /\ loop \in {"applied", "calling"} /\ ev.uid = u
    /\ loop = "calling" => b \in calls

ToldInv ==
    wif = "open" /\ Running =>
        \A u \in Uids : NoneAbout(chan, u) /\ Live(u) =>
            /\ loop \in {"applied", "calling"} /\ ev.uid = u => ev.ver = store[u]
            /\ \A b \in EarlyBindings \cap bindings :
                    ~BeingTold(b, u) => view[b][u] = store[u]

(***************************************************************************)
(* Why nobody is told an older version than before: what is on its way     *)
(* about an object comes in order, nothing of it is newer than the store,  *)
(* or older than what the callbacks know already.                          *)
(***************************************************************************)
Before(e, f) == e.type # "ERROR" /\ f.type # "ERROR" /\ e.uid = f.uid => e.ver <= f.ver

Timely(e) == e.type # "ERROR" => /\ e.ver <= store[e.uid]
                                 /\ \A b \in EarlyBindings : view[b][e.uid] <= e.ver

QueueInv == \A i \in DOMAIN chan : /\ Timely(chan[i])
                                  /\ \A j \in DOMAIN chan : i < j => Before(chan[i], chan[j])

Working == loop \in {"applied", "calling"}

WorkInv == Working => /\ Timely(ev)
                      /\ \A i \in DOMAIN chan : Before(ev, chan[i])

ViewInv == \A b \in EarlyBindings, u \in Uids : view[b][u] <= store[u]

(* Before Start there is nothing to replay.                                *)
ReplayInv == \A b \in EarlyBindings : reg[b] = "replaying" => todo[b] = NoTodo

ForwardInv == QueueInv /\ WorkInv /\ ViewInv /\ ReplayInv

SyncInv == PhaseInv /\ ChanInv /\ StateInv /\ ToldInv /\ ForwardInv
=============================================================================
