-------------------------- MODULE NamespacesProofs --------------------------
(***************************************************************************)
(* Theorems about Namespaces, for every finite set of namespaces and any   *)
(* number of changes and terms.                                            *)
(***************************************************************************)
EXTENDS Namespaces, SequenceTheorems, FiniteSetTheorems, TLAPS

(***************************************************************************)
(* Why the invariants hold.                                                *)
(***************************************************************************)
(* A watcher is started under the lock of its handler, for a namespace     *)
(* that has none, in the call that asks for it.                            *)
LockInv ==
    /\ \A c \in starting :
         /\ c.handler \in locked /\ c.ns \notin items[c.handler]
         /\ c.by = "events" =>
               stage = "call" /\ event[1] = Added(c.ns) /\ c.handler \in calls
         /\ c.by = "register" => reg[c.handler] = "replay" /\ c.ns \in todo[c.handler]
    /\ \A c, d \in starting : c.handler = d.handler => c = d

(* What is not registered yet was never called; a term begins with         *)
(* handlers of its own; the handler of ConfigMaps is for good.             *)
RegInv ==
    /\ \A h \in Handlers :
         /\ reg[h] \in {"none", "bind"} => items[h] = {} /\ h \notin calls
         /\ todo[h] # {} => reg[h] = "replay"
         /\ h.term > term => reg[h] = "none"
    /\ reg[ConfigMaps] # "gone"
    /\ lead # "follower" => term > 0

(* The map says what runs, until the handler is stopped.                   *)
RunInv ==
    \A h \in Handlers, n \in Ns :
        /\ running[h][n] <= 1
        /\ n \notin items[h] => running[h][n] = 0
        /\ n \in items[h] /\ reg[h] # "gone" => running[h][n] = 1

QuietInv ==
    \A h \in Handlers \ late : reg[h] = "gone" =>
        /\ h \notin calls
        /\ \A c \in starting : c.handler # h
        /\ \A n \in Ns : running[h][n] = 0

(* While a stopped watcher of ConfigMaps is waited for, its handler works  *)
(* on the deletion with its lock held, and the map has forgotten it.       *)
WaitInv ==
    stage = "wait" =>
        /\ event[1].type = "DELETED" /\ event[1].ns \notin items[ConfigMaps]
        /\ ConfigMaps \in locked /\ ConfigMaps \in calls
        /\ \A c \in starting : c.handler # ConfigMaps

(* The event e is on the way between the positions i and j.                *)
Between(e, i, j) == \E k \in i + 1 .. j - 1 : feed[k] = e

(* The events on the way lead from what is known to what exists, and no    *)
(* namespace is deleted twice in a row.                                    *)
FeedInv ==
    \A n \in Ns :
        /\ n \in there =>
              /\ n \in known \/ Between(Added(n), 0, Len(feed) + 1)
              /\ \A i \in 1 .. Len(feed) :
                    feed[i] = Deleted(n) => Between(Added(n), i, Len(feed) + 1)
        /\ n \notin there =>
              /\ n \notin known \/ Between(Deleted(n), 0, Len(feed) + 1)
              /\ \A i \in 1 .. Len(feed) :
                    feed[i] = Added(n) => Between(Deleted(n), i, Len(feed) + 1)
        /\ \A j \in 1 .. Len(feed) : feed[j] = Deleted(n) =>
              /\ n \in known \/ Between(Added(n), 0, j)
              /\ \A i \in 1 .. j - 1 : feed[i] = Deleted(n) => Between(Added(n), i, j)

EventInv ==
    /\ stage # "receive" => /\ event[1].type = "ADDED" => event[1].ns \in known
                            /\ event[1].type = "DELETED" => event[1].ns \notin known
    /\ stage \in {"receive", "copy"} => calls = {}

(* The event is of that kind and is still to be handed to h.               *)
Pending(e, h) == event = <<e>> /\ ((stage = "copy" /\ Bound(h)) \/ h \in calls)

(* A deletion that finds a handler being registered is remembered.         *)
MeetInv ==
    \A h \in Handlers, n \in Ns :
        Pending(Deleted(n), h) /\ reg[h] \in {"copy", "replay"} => h \in overlap

(* What is known has a watcher, or h is still to hear of it.               *)
ServedInv ==
    ~failed => \A h \in Handlers, n \in Ns : Bound(h) /\ n \in known =>
        n \in items[h] \/ reg[h] = "copy" \/ n \in todo[h] \/ Pending(Added(n), h)

(* What has a watcher is known, or its end is still to be heard of.        *)
GoneInv ==
    ConfigMaps \notin overlap => \A n \in Ns :
        n \in items[ConfigMaps] \cup todo[ConfigMaps] =>
            n \in known \/ Pending(Deleted(n), ConfigMaps)

(* Whose end is heard of has a watcher.                                    *)
PanicInv ==
    ~failed /\ overlap = {} =>
        /\ dead # "panic"
        /\ \A h \in Handlers \ {ConfigMaps}, n \in Ns :
             Pending(Deleted(n), h) => n \in items[h]

HandlersInv == LockInv /\ RegInv /\ RunInv /\ QuietInv /\ WaitInv
EventsInv   == FeedInv /\ EventInv /\ MeetInv /\ ServedInv /\ GoneInv /\ PanicInv
-----------------------------------------------------------------------------
LEMMA HandlerNames ==
    /\ ConfigMaps \in Handlers /\ ConfigMaps.term = 0
    /\ \A t \in 1 .. MaxTerms :
          /\ Ingresses(t) \in Handlers /\ Services(t) \in Handlers
          /\ Ingresses(t) # ConfigMaps /\ Services(t) # ConfigMaps
          /\ Ingresses(t) # Services(t)
          /\ Ingresses(t).term = t /\ Services(t).term = t
    /\ \A h \in Handlers : h # ConfigMaps =>
          /\ h.term \in 1 .. MaxTerms
          /\ h = Ingresses(h.term) \/ h = Services(h.term)
  BY DEF Handlers, ConfigMaps, Ingresses, Services

LEMMA EventNames ==
    /\ \A n \in Ns : /\ Added(n) \in Events /\ Deleted(n) \in Events
                     /\ Added(n).type = "ADDED" /\ Deleted(n).type = "DELETED"
                     /\ Added(n).ns = n /\ Deleted(n).ns = n
    /\ \A m, n : /\ Added(m) # Deleted(n)
                 /\ Added(m) = Added(n) => m = n
                 /\ Deleted(m) = Deleted(n) => m = n
    /\ \A e \in Events : /\ e.ns \in Ns
                         /\ \/ e.type = "ADDED" /\ e = Added(e.ns)
                            \/ e.type = "DELETED" /\ e = Deleted(e.ns)
  BY DEF Events, Added, Deleted

(* The event that is worked on.                                            *)
LEMMA TheEvent ==
    ASSUME TypeOK, stage # "receive"
    PROVE  event[1] \in Events /\ event = <<event[1]>>
<1>1. PICK e \in Events : event = <<e>>
  BY DEF TypeOK
<1> QED
  BY <1>1

LEMMA FeedShrinks ==
    ASSUME TypeOK, feed # <<>>
    PROVE  Head(feed) \in Events /\ Tail(feed) \in Seq(Events)
  BY HeadTailProperties DEF TypeOK

(***************************************************************************)
(* The initial states.                                                     *)
(***************************************************************************)
LEMMA InitFeed ==
    ASSUME Init
    PROVE  /\ feed \in Seq(Events)
           /\ \A i \in DOMAIN feed : \E n \in there : feed[i] = Added(n)
<1>1. PICK s \in SetToSeqs(there) : feed = [i \in DOMAIN s |-> Added(s[i])]
  BY DEF Init
<1>2. IsFiniteSet(there)
  BY NsAssumption, FS_Subset DEF Init
<1>3. Cardinality(there) \in Nat
  BY <1>2, FS_CardinalityType
<1>4. s \in [1 .. Cardinality(there) -> there]
  BY DEF SetToSeqs
<1>5. \A i \in DOMAIN s : s[i] \in there /\ Added(s[i]) \in Events
  BY <1>4, EventNames DEF Init
<1>6. feed \in [1 .. Cardinality(there) -> Events]
  BY <1>1, <1>4, <1>5
<1>7. feed \in Seq(Events)
  BY <1>3, <1>6, SeqDef
<1> QED
  BY <1>1, <1>5, <1>7

LEMMA InitType ==
    ASSUME Init
    PROVE  TypeOK
<1>1. feed \in Seq(Events)
  BY InitFeed
<1>2. reg \in [Handlers -> {"none", "bind", "copy", "replay", "in", "gone"}]
  BY DEF Init
<1>3. /\ todo \in [Handlers -> SUBSET Ns] /\ items \in [Handlers -> SUBSET Ns]
      /\ running \in [Handlers -> [Ns -> Nat]]
  BY DEF Init
<1>4. /\ changes \in 0 .. MaxChanges /\ term \in 0 .. MaxTerms
      /\ firing \in [Ns -> {"no", "upsert", "fire", "copy", "pass"}]
  BY BoundAssumption DEF Init
<1> QED
  BY <1>1, <1>2, <1>3, <1>4 DEF Init, TypeOK

LEMMA InitHandlers ==
    ASSUME Init
    PROVE  HandlersInv
<1>1. LockInv
  BY DEF Init, LockInv
<1>2. RegInv
  BY HandlerNames DEF Init, RegInv
<1>3. RunInv
  BY HandlerNames DEF Init, RunInv
<1>4. QuietInv /\ WaitInv
  BY DEF Init, QuietInv, WaitInv
<1> QED
  BY <1>1, <1>2, <1>3, <1>4 DEF HandlersInv

(***************************************************************************)
(* The watchers and the locks: every action keeps HandlersInv.             *)
(***************************************************************************)
LEMMA ChangeHandlers ==
    ASSUME TypeOK, HandlersInv, NEW n \in Ns, Change(n)
    PROVE  TypeOK' /\ HandlersInv'
<1> USE DEF Change, locks, maps, leader, ended, history
<1>1. there' \subseteq Ns /\ changes' \in 0 .. MaxChanges
  BY BoundAssumption DEF TypeOK
<1>2. feed' \in Seq(Events)
  BY EventNames, AppendProperties DEF TypeOK
<1>3. TypeOK'
  BY <1>1, <1>2 DEF TypeOK
<1>4. HandlersInv'
  BY DEF HandlersInv, LockInv, RegInv, RunInv, QuietInv, WaitInv
<1> QED
  BY <1>3, <1>4

LEMMA TakeEventHandlers ==
    ASSUME TypeOK, HandlersInv, TakeEvent
    PROVE  TypeOK' /\ HandlersInv'
<1> USE DEF TakeEvent, cluster, locks, maps, leader, ended
<1>1. Head(feed) \in Events /\ feed' \in Seq(Events)
  BY FeedShrinks
<1>2. known' \subseteq Ns
  BY <1>1, EventNames DEF TypeOK
<1>3. overlap' \subseteq Handlers
  BY DEF TypeOK
<1>4. TypeOK'
  BY <1>1, <1>2, <1>3 DEF TypeOK
<1>5. HandlersInv'
  BY DEF HandlersInv, LockInv, RegInv, RunInv, QuietInv, WaitInv
<1> QED
  BY <1>4, <1>5

LEMMA CopyBindingsHandlers ==
    ASSUME TypeOK, HandlersInv, CopyBindings
    PROVE  TypeOK' /\ HandlersInv'
<1> USE DEF CopyBindings, cluster, locks, maps, leader, ended, history
<1>1. TypeOK'
  BY DEF TypeOK
<1>2. HandlersInv'
  BY DEF HandlersInv, LockInv, RegInv, RunInv, QuietInv, WaitInv, Bound
<1> QED
  BY <1>1, <1>2

LEMMA EventDoneHandlers ==
    ASSUME TypeOK, HandlersInv, EventDone
    PROVE  TypeOK' /\ HandlersInv'
<1> USE DEF EventDone, cluster, locks, maps, leader, ended, history
<1>1. TypeOK'
  BY DEF TypeOK
<1>2. HandlersInv'
  BY DEF HandlersInv, LockInv, RegInv, RunInv, QuietInv, WaitInv
<1> QED
  BY <1>1, <1>2

(* A call of the handler, by either goroutine.                             *)
LEMMA HandleAddedHandlers ==
    ASSUME TypeOK, HandlersInv, NEW h \in Handlers, NEW n \in Ns,
           NEW by \in {"events", "register"}, HandleAdded(h, by, n),
           by = "events" => stage = "call" /\ event[1] = Added(n) /\ h \in calls,
           by = "register" => reg[h] = "replay" /\ n \in todo[h]
    PROVE  TypeOK' /\ HandlersInv'
<1> USE DEF HandleAdded, cluster, watcher, maps, leader, ended, history
<1>1. CASE n \in items[h]
  <2>1. UNCHANGED <<locked, starting>>
    BY <1>1 DEF locks
  <2>2. \/ by = "events" /\ calls' = calls \ {h} /\ todo' = todo
        \/ by = "register" /\ todo' = [todo EXCEPT ![h] = @ \ {n}] /\ calls' = calls
    BY <1>1 DEF Returns
  <2>3. TypeOK'
    BY <2>1, <2>2 DEF TypeOK
  <2>4. \A c \in starting : c.handler # h
    BY DEF HandlersInv, LockInv
  <2>5. LockInv'
    BY <2>1, <2>2, <2>4 DEF HandlersInv, LockInv, TypeOK
  <2>6. RegInv'
    BY <2>2 DEF HandlersInv, RegInv, TypeOK
  <2>7. RunInv'
    BY DEF HandlersInv, RunInv
  <2>8. QuietInv'
    BY <2>1, <2>2 DEF HandlersInv, QuietInv
  <2>9. WaitInv'
    BY <2>1, <2>2 DEF HandlersInv, WaitInv
  <2> QED
    BY <2>3, <2>5, <2>6, <2>7, <2>8, <2>9 DEF HandlersInv
<1>2. CASE n \notin items[h]
  <2> DEFINE d == [handler |-> h, by |-> by, ns |-> n]
  <2>1. /\ locked' = locked \cup {h} /\ starting' = starting \cup {d}
        /\ UNCHANGED <<calls, todo>>
    BY <1>2
  <2>2. d.handler = h /\ d.by = by /\ d.ns = n
        /\ d \in [handler : Handlers, by : {"events", "register"}, ns : Ns]
    OBVIOUS
  <2>3. TypeOK'
    BY <2>1, <2>2 DEF TypeOK
  <2>4. \A c \in starting : c.handler # h
    BY DEF HandlersInv, LockInv
  <2> HIDE DEF d
  <2>5. LockInv'
    BY <1>2, <2>1, <2>2, <2>4 DEF HandlersInv, LockInv
  <2>6. RegInv' /\ RunInv'
    BY <2>1 DEF HandlersInv, RegInv, RunInv
  <2>7. reg[h] = "gone" /\ h \notin late => FALSE
    BY DEF HandlersInv, QuietInv
  <2>8. QuietInv'
    BY <2>1, <2>2, <2>7 DEF HandlersInv, QuietInv
  <2>9. WaitInv'
    BY <2>1, <2>2 DEF HandlersInv, WaitInv
  <2> QED
    BY <2>3, <2>5, <2>6, <2>8, <2>9 DEF HandlersInv
<1> QED
  BY <1>1, <1>2

LEMMA CallAddedHandlers ==
    ASSUME TypeOK, HandlersInv, NEW h \in Handlers, CallAdded(h)
    PROVE  TypeOK' /\ HandlersInv'
<1>1. event[1] \in Events /\ event[1] = Added(event[1].ns) /\ event[1].ns \in Ns
  BY TheEvent, EventNames DEF CallAdded
<1> QED
  BY <1>1, HandleAddedHandlers DEF CallAdded, Turn

LEMMA ReplayHandlers ==
    ASSUME TypeOK, HandlersInv, NEW h \in Handlers, Replay(h)
    PROVE  TypeOK' /\ HandlersInv'
<1>1. PICK n \in todo[h] : HandleAdded(h, "register", n)
  BY DEF Replay
<1>2. n \in Ns
  BY DEF TypeOK
<1> QED
  BY <1>1, <1>2, HandleAddedHandlers DEF Replay

LEMMA StartTypes ==
    ASSUME TypeOK, HandlersInv, NEW c \in starting
    PROVE  /\ c.handler \in Handlers /\ c.ns \in Ns /\ c.by \in {"events", "register"}
           /\ \A d \in starting \ {c} : d.handler # c.handler
  BY DEF TypeOK, HandlersInv, LockInv

(* However the start ends, the call returns and its lock is free.          *)
LEMMA StartEndsTypes ==
    ASSUME TypeOK, HandlersInv, NEW c \in starting, StartEnds(c)
    PROVE  /\ calls' \subseteq calls /\ todo' \in [Handlers -> SUBSET Ns]
           /\ \A h \in Handlers : todo'[h] \subseteq todo[h]
           /\ \A h \in Handlers \ {c.handler} :
                 todo'[h] = todo[h] /\ (h \in calls' <=> h \in calls)
           /\ starting' = starting \ {c}
<1>1. c.handler \in Handlers /\ starting' = starting \ {c}
  BY StartTypes DEF StartEnds
<1>2. CASE c.by = "events"
  <2>1. calls' = calls \ {c.handler} /\ todo' = todo
    BY <1>2 DEF StartEnds, Returns
  <2> QED
    BY <1>1, <2>1 DEF TypeOK
<1>3. CASE c.by # "events"
  <2>1. calls' = calls /\ todo' = [todo EXCEPT ![c.handler] = @ \ {c.ns}]
    BY <1>3 DEF StartEnds, Returns
  <2> QED
    BY <1>1, <2>1 DEF TypeOK
<1> QED
  BY <1>2, <1>3

LEMMA StartedHandlers ==
    ASSUME TypeOK, HandlersInv, NEW c \in starting, Started(c)
    PROVE  TypeOK' /\ HandlersInv'
<1> DEFINE g == c.handler
<1> USE DEF Started, cluster, watcher, leader, history
<1>1. /\ g \in Handlers /\ c.ns \in Ns /\ c.by \in {"events", "register"}
      /\ \A d \in starting \ {c} : d.handler # g
  BY StartTypes
<1>2. /\ calls' \subseteq calls /\ todo' \in [Handlers -> SUBSET Ns]
      /\ \A h \in Handlers : todo'[h] \subseteq todo[h]
      /\ \A h \in Handlers \ {g} : todo'[h] = todo[h] /\ (h \in calls' <=> h \in calls)
      /\ starting' = starting \ {c} /\ locked' = locked \ {g}
  BY StartEndsTypes
<1>3. UNCHANGED <<there, changes, feed, known, event, stage, reg, lead, term, dead, failed,
                  firing, overlap, late>>
  BY DEF StartEnds
<1>4. g \in locked /\ c.ns \notin items[g] /\ reg[g] \notin {"none", "bind"}
  BY <1>1 DEF HandlersInv, LockInv, RegInv
<1>5. running[g][c.ns] = 0
  BY <1>1, <1>4 DEF HandlersInv, RunInv
<1>6. /\ items' \in [Handlers -> SUBSET Ns]
      /\ items'[g] = items[g] \cup {c.ns}
      /\ \A h \in Handlers \ {g} : items'[h] = items[h]
  BY <1>1 DEF TypeOK
<1>7. /\ running' \in [Handlers -> [Ns -> Nat]] /\ running'[g][c.ns] = 1
      /\ \A h \in Handlers, n \in Ns :
            h # g \/ n # c.ns => running'[h][n] = running[h][n]
  BY <1>1, <1>5 DEF TypeOK
<1>8. TypeOK'
  <2>1. calls' \subseteq Handlers /\ locked' \subseteq Handlers
        /\ starting' \subseteq [handler : Handlers, by : {"events", "register"}, ns : Ns]
    BY <1>2 DEF TypeOK
  <2> QED
    BY <2>1, <1>2, <1>3, <1>6, <1>7 DEF TypeOK
<1> HIDE DEF g, Started
<1>9. LockInv'
  <2>1. \A d \in starting' : d \in starting /\ d.handler # g /\ d.handler \in Handlers
    BY <1>1, <1>2 DEF TypeOK
  <2> QED
    BY <2>1, <1>2, <1>3, <1>6 DEF HandlersInv, LockInv
<1>10. RegInv'
  BY <1>1, <1>2, <1>3, <1>4, <1>6 DEF HandlersInv, RegInv
<1>11. RunInv'
  BY <1>1, <1>3, <1>6, <1>7 DEF HandlersInv, RunInv
<1>12. QuietInv'
  <2>1. reg[g] = "gone" => g \in late
    BY <1>1 DEF HandlersInv, QuietInv, g
  <2> QED
    BY <2>1, <1>2, <1>3, <1>7 DEF HandlersInv, QuietInv
<1>13. WaitInv'
  <2>1. stage = "wait" => g # ConfigMaps
    BY DEF HandlersInv, WaitInv, g
  <2> QED
    BY <2>1, <1>2, <1>3, <1>6, HandlerNames DEF HandlersInv, WaitInv
<1> QED
  BY <1>8, <1>9, <1>10, <1>11, <1>12, <1>13 DEF HandlersInv

LEMMA StartFailsHandlers ==
    ASSUME TypeOK, HandlersInv, NEW c \in starting, StartFails(c)
    PROVE  TypeOK' /\ HandlersInv'
<1>1. /\ c.handler \in Handlers
      /\ \A d \in starting \ {c} : d.handler # c.handler
  BY StartTypes
<1>2. /\ calls' \subseteq calls /\ todo' \in [Handlers -> SUBSET Ns]
      /\ \A h \in Handlers : todo'[h] \subseteq todo[h]
      /\ \A h \in Handlers \ {c.handler} :
            todo'[h] = todo[h] /\ (h \in calls' <=> h \in calls)
      /\ starting' = starting \ {c} /\ locked' = locked \ {c.handler}
  BY StartEndsTypes DEF StartFails
<1>3. /\ UNCHANGED <<there, changes, feed, known, event, stage, reg, lead, term, dead,
                     overlap, late, items, running, firing>>
      /\ failed' = TRUE
  BY DEF StartFails, StartEnds, cluster, watcher, leader, history, maps
<1>4. TypeOK'
  <2>1. calls' \subseteq Handlers /\ locked' \subseteq Handlers
        /\ starting' \subseteq [handler : Handlers, by : {"events", "register"}, ns : Ns]
    BY <1>2 DEF TypeOK
  <2> QED
    BY <2>1, <1>2, <1>3 DEF TypeOK
<1>5. LockInv'
  <2>1. \A d \in starting' : /\ d \in starting /\ d.handler # c.handler
                             /\ d.handler \in Handlers
    BY <1>1, <1>2 DEF TypeOK
  <2> QED
    BY <2>1, <1>2, <1>3 DEF HandlersInv, LockInv
<1>6. RegInv'
  BY <1>2, <1>3 DEF HandlersInv, RegInv
<1>7. RunInv'
  BY <1>3 DEF HandlersInv, RunInv
<1>8. QuietInv'
  BY <1>2, <1>3 DEF HandlersInv, QuietInv
<1>9. WaitInv'
  <2>1. stage = "wait" => c.handler # ConfigMaps
    BY DEF HandlersInv, WaitInv
  <2> QED
    BY <2>1, <1>2, <1>3, HandlerNames DEF HandlersInv, WaitInv
<1> QED
  BY <1>4, <1>5, <1>6, <1>7, <1>8, <1>9 DEF HandlersInv

LEMMA CallDeletedHandlers ==
    ASSUME TypeOK, HandlersInv, NEW h \in Handlers, CallDeleted(h)
    PROVE  TypeOK' /\ HandlersInv'
<1> DEFINE n == event[1].ns
<1>1. n \in Ns /\ event' = event /\ event[1].type = "DELETED"
  BY TheEvent, EventNames DEF CallDeleted
<1>2. /\ UNCHANGED <<there, changes, feed, known, event, reg, starting, firing, lead, term,
                     failed, overlap, late>>
      /\ stage = "call" /\ h \in calls /\ h \notin locked
  BY DEF CallDeleted, Turn, cluster, leader, history
<1>3. /\ \A c \in starting : c.handler # h
      /\ \A c \in starting : c.by = "register"
  BY <1>2, StartTypes DEF CallDeleted, Turn, HandlersInv, LockInv
<1>4. CASE h = ConfigMaps /\ n \in items[h]
  <2>1. /\ items' = [items EXCEPT ![h] = @ \ {n}] /\ running' = [running EXCEPT ![h][n] = @ - 1]
        /\ locked' = locked \cup {h} /\ stage' = "wait"
        /\ UNCHANGED <<calls, todo, dead>>
    BY <1>4 DEF CallDeleted, ConfigMapsDeleted
  <2>2. /\ items' \in [Handlers -> SUBSET Ns] /\ items'[h] = items[h] \ {n}
        /\ \A g \in Handlers \ {h} : items'[g] = items[g]
    BY <2>1 DEF TypeOK
  <2>3. reg[h] # "gone"
    BY <1>4 DEF HandlersInv, RegInv
  <2>4. running[h][n] = 1
    BY <1>1, <1>4, <2>3 DEF HandlersInv, RunInv
  <2>5. /\ running' \in [Handlers -> [Ns -> Nat]] /\ running'[h][n] = 0
        /\ \A g \in Handlers, m \in Ns : g # h \/ m # n => running'[g][m] = running[g][m]
    BY <1>1, <2>1, <2>4 DEF TypeOK
  <2>6. event \in {<<e>> : e \in Events}
    BY <1>2 DEF TypeOK
  <2>7. WaitInv'
    BY <1>1, <1>2, <1>3, <1>4, <2>1, <2>2 DEF WaitInv
  <2> HIDE DEF n
  <2>8. TypeOK'
    BY <1>2, <2>1, <2>2, <2>5, <2>6 DEF TypeOK
  <2>9. LockInv'
    BY <1>2, <1>3, <2>1, <2>2 DEF HandlersInv, LockInv, TypeOK
  <2>10. RegInv'
    BY <1>2, <2>1, <2>2 DEF HandlersInv, RegInv
  <2>11. RunInv'
    BY <1>2, <2>2, <2>5 DEF HandlersInv, RunInv
  <2>12. QuietInv'
    BY <1>2, <2>1, <2>3, <2>5 DEF HandlersInv, QuietInv
  <2> QED
    BY <2>7, <2>8, <2>9, <2>10, <2>11, <2>12 DEF HandlersInv
<1>5. CASE ~(h = ConfigMaps /\ n \in items[h])
  <2>1. /\ UNCHANGED <<items, running, locked, stage, todo>> /\ dead' \in {dead, "panic"}
        /\ calls' = calls \ {h}
    BY <1>5 DEF CallDeleted, ConfigMapsDeleted, OthersDeleted, Returns, maps
  <2>2. TypeOK'
    BY <1>2, <2>1 DEF TypeOK
  <2>3. LockInv'
    BY <1>2, <1>3, <2>1 DEF HandlersInv, LockInv
  <2>4. RegInv' /\ RunInv' /\ QuietInv'
    BY <1>2, <2>1 DEF HandlersInv, RegInv, RunInv, QuietInv
  <2>5. WaitInv'
    BY <1>2, <2>1 DEF WaitInv
  <2> QED
    BY <2>2, <2>3, <2>4, <2>5 DEF HandlersInv
<1> QED
  BY <1>4, <1>5

LEMMA StopWaitedHandlers ==
    ASSUME TypeOK, HandlersInv, StopWaited
    PROVE  TypeOK' /\ HandlersInv'
<1>1. /\ UNCHANGED <<there, changes, feed, known, event, reg, todo, starting, firing, items,
                     running, lead, term, dead, failed, overlap, late>>
      /\ stage = "wait" /\ stage' = "call"
      /\ calls' = calls \ {ConfigMaps} /\ locked' = locked \ {ConfigMaps}
  BY DEF StopWaited, Returns, cluster, maps, leader, ended, history
<1>2. \A c \in starting : c.handler # ConfigMaps /\ c.by # "events"
  BY <1>1 DEF HandlersInv, WaitInv, LockInv
<1>3. event \in {<<e>> : e \in Events}
  BY <1>1 DEF TypeOK
<1>4. TypeOK'
  BY <1>1, <1>3 DEF TypeOK
<1>5. LockInv'
  BY <1>1, <1>2 DEF HandlersInv, LockInv
<1>6. RegInv' /\ RunInv' /\ QuietInv'
  BY <1>1 DEF HandlersInv, RegInv, RunInv, QuietInv
<1>7. WaitInv'
  BY <1>1 DEF WaitInv
<1> QED
  BY <1>4, <1>5, <1>6, <1>7 DEF HandlersInv

(* The goroutines of the watchers of ConfigMaps leave the rest alone.      *)
LEMMA FiringSteps ==
    ASSUME TypeOK, NEW n \in Ns, Firing(n)
    PROVE  /\ firing' \in [Ns -> {"no", "upsert", "fire", "copy", "pass"}]
           /\ UNCHANGED <<there, changes, feed, known, event, stage, calls, reg, todo, locked,
                          starting, items, running, lead, term, dead, failed, overlap, late>>
  BY DEF TypeOK, Firing, ConfigMapEvent, Locking, FireEvents, CopyFunctions, FunctionsReturn,
         cluster, watcher, locks, maps, leader, ended, history

LEMMA FiringHandlers ==
    ASSUME TypeOK, HandlersInv, NEW n \in Ns, Firing(n)
    PROVE  TypeOK' /\ HandlersInv'
<1>1. TypeOK'
  BY FiringSteps DEF TypeOK
<1>2. HandlersInv'
  BY FiringSteps DEF HandlersInv, LockInv, RegInv, RunInv, QuietInv, WaitInv
<1> QED
  BY <1>1, <1>2

LEMMA BindHandlers ==
    ASSUME TypeOK, HandlersInv, NEW h \in Handlers, Bind(h)
    PROVE  TypeOK' /\ HandlersInv'
<1> USE DEF Bind, cluster, watcher, locks, maps, leader, ended
<1>2. TypeOK'
  BY HandlerNames DEF TypeOK
<1>3. LockInv'
  BY HandlerNames DEF HandlersInv, LockInv, TypeOK
<1>4. RegInv'
  BY HandlerNames DEF HandlersInv, RegInv, TypeOK
<1>5. RunInv' /\ QuietInv'
  BY HandlerNames DEF HandlersInv, RunInv, QuietInv, RegInv, TypeOK
<1>6. WaitInv'
  BY DEF HandlersInv, WaitInv
<1> QED
  BY <1>2, <1>3, <1>4, <1>5, <1>6 DEF HandlersInv

LEMMA CopyKnownHandlers ==
    ASSUME TypeOK, HandlersInv, NEW h \in Handlers, CopyKnown(h)
    PROVE  TypeOK' /\ HandlersInv'
<1> USE DEF CopyKnown, cluster, watcher, locks, maps, leader, ended, history
<1>2. TypeOK'
  BY HandlerNames DEF TypeOK
<1>3. LockInv'
  BY HandlerNames DEF HandlersInv, LockInv, TypeOK
<1>4. RegInv'
  BY HandlerNames DEF HandlersInv, RegInv, TypeOK
<1>5. RunInv' /\ QuietInv'
  BY HandlerNames DEF HandlersInv, RunInv, QuietInv, RegInv, TypeOK
<1>6. WaitInv'
  BY DEF HandlersInv, WaitInv
<1> QED
  BY <1>2, <1>3, <1>4, <1>5, <1>6 DEF HandlersInv

LEMMA RegisteredHandlers ==
    ASSUME TypeOK, HandlersInv, NEW h \in Handlers, Registered(h)
    PROVE  TypeOK' /\ HandlersInv'
<1> USE DEF Registered, cluster, watcher, locks, maps, leader, ended, history
<1>2. TypeOK'
  BY HandlerNames DEF TypeOK
<1>3. LockInv'
  BY HandlerNames DEF HandlersInv, LockInv, TypeOK
<1>4. RegInv'
  BY HandlerNames DEF HandlersInv, RegInv, TypeOK
<1>5. RunInv' /\ QuietInv'
  BY HandlerNames DEF HandlersInv, RunInv, QuietInv, RegInv, TypeOK
<1>6. WaitInv'
  BY DEF HandlersInv, WaitInv
<1> QED
  BY <1>2, <1>3, <1>4, <1>5, <1>6 DEF HandlersInv

LEMMA StartedLeadingHandlers ==
    ASSUME TypeOK, HandlersInv, StartedLeading
    PROVE  TypeOK' /\ HandlersInv'
<1> DEFINE h == Ingresses(term + 1)
<1> USE DEF cluster, watcher, locks, maps, ended, history
<1>1. term + 1 \in 1 .. MaxTerms
  BY BoundAssumption DEF TypeOK, StartedLeading
<1>2. h \in Handlers /\ h # ConfigMaps /\ h.term = term + 1
  BY <1>1, HandlerNames
<1>3. reg[h] = "none"
  BY <1>2 DEF HandlersInv, RegInv, TypeOK
<1>4. /\ UNCHANGED <<there, changes, feed, known, event, stage, calls, todo, locked, starting,
                     items, running, firing, dead, failed, overlap, late>>
      /\ term' = term + 1 /\ lead' = "starting"
      /\ reg' \in [Handlers -> {"none", "bind", "copy", "replay", "in", "gone"}]
      /\ reg'[h] = "bind" /\ \A g \in Handlers \ {h} : reg'[g] = reg[g]
  BY <1>2 DEF StartedLeading, TypeOK
<1> HIDE DEF h
<1>5. TypeOK'
  BY <1>1, <1>4 DEF TypeOK
<1>6. LockInv'
  BY <1>2, <1>3, <1>4 DEF HandlersInv, LockInv, TypeOK
<1>7. RegInv'
  <2>1. ConfigMaps \in Handlers \ {h}
    BY <1>2, HandlerNames
  <2>2. \A g \in Handlers : g.term \in Int
    BY HandlerNames
  <2>3. \A g \in Handlers : g.term > term + 1 => g.term > term
    BY <2>2 DEF TypeOK
  <2> QED
    BY <1>1, <1>2, <1>3, <1>4, <2>1, <2>3 DEF HandlersInv, RegInv
<1>8. RunInv'
  BY <1>3, <1>4 DEF HandlersInv, RunInv
<1>9. QuietInv' /\ WaitInv'
  BY <1>4 DEF HandlersInv, QuietInv, WaitInv
<1> QED
  BY <1>5, <1>6, <1>7, <1>8, <1>9 DEF HandlersInv

LEMMA StartServicesHandlers ==
    ASSUME TypeOK, HandlersInv, StartServices
    PROVE  TypeOK' /\ HandlersInv'
<1> USE DEF StartServices, cluster, watcher, locks, maps, leader, ended, history
<1>1. term \in 1 .. MaxTerms
  BY BoundAssumption DEF TypeOK, HandlersInv, RegInv
<1>2. TypeOK'
  BY <1>1, HandlerNames DEF TypeOK
<1>3. LockInv'
  BY <1>1, HandlerNames DEF HandlersInv, LockInv, TypeOK
<1>4. RegInv'
  BY <1>1, HandlerNames DEF HandlersInv, RegInv, TypeOK
<1>5. RunInv'
  BY <1>1, HandlerNames DEF HandlersInv, RunInv, RegInv, TypeOK
<1>6. QuietInv'
  BY <1>1, HandlerNames DEF HandlersInv, QuietInv, RegInv, TypeOK
<1>7. WaitInv'
  BY DEF HandlersInv, WaitInv
<1> QED
  BY <1>2, <1>3, <1>4, <1>5, <1>6, <1>7 DEF HandlersInv

LEMMA PreparingHandlers ==
    ASSUME TypeOK, HandlersInv, StartPreparing \/ RunningLeaders \/ StopPreparing
    PROVE  TypeOK' /\ HandlersInv'
<1>1. /\ UNCHANGED <<there, changes, feed, known, event, stage, calls, reg, todo, locked,
                     starting, items, running, firing, term, dead, failed, overlap, late>>
      /\ lead' \in {"follower", "preparing", "leading"} /\ lead # "follower"
  BY DEF StartPreparing, RunningLeaders, StopPreparing, cluster, watcher, locks, maps, ended,
         history
<1>2. TypeOK'
  BY <1>1 DEF TypeOK
<1>3. HandlersInv'
  BY <1>1 DEF HandlersInv, LockInv, RegInv, RunInv, QuietInv, WaitInv
<1> QED
  BY <1>2, <1>3

LEMMA StoppedLeadingHandlers ==
    ASSUME TypeOK, HandlersInv, StoppedLeading
    PROVE  TypeOK' /\ HandlersInv'
<1> USE DEF StoppedLeading, cluster, watcher, locks, maps, history
<1>1. TypeOK'
  BY DEF TypeOK
<1>2. HandlersInv'
  BY DEF HandlersInv, LockInv, RegInv, RunInv, QuietInv, WaitInv
<1> QED
  BY <1>1, <1>2

LEMMA StopHandlers ==
    ASSUME TypeOK, HandlersInv, Stop
    PROVE  TypeOK' /\ HandlersInv'
<1>1. term \in 1 .. MaxTerms
  BY BoundAssumption DEF TypeOK, HandlersInv, RegInv, Stop
<1>2. PICK h \in Handlers \ {ConfigMaps} : StopHandler(h)
  BY <1>1, HandlerNames DEF Stop
<1>3. lead' = lead /\ term' = term
  BY <1>2 DEF StopHandler, leader
<1> USE DEF StopHandler, cluster, watcher, locks, ended
<1>4. TypeOK'
  <2>1. running' \in [Handlers -> [Ns -> Nat]]
    BY <1>2 DEF TypeOK
  <2>2. late' \subseteq Handlers
    BY <1>2 DEF TypeOK
  <2> QED
    BY <2>1, <2>2, <1>2, <1>3 DEF TypeOK
<1>5. \A c \in starting : c.handler # h
  BY <1>2 DEF HandlersInv, LockInv
<1>6. LockInv'
  BY <1>2, <1>5 DEF HandlersInv, LockInv, TypeOK
<1>7. RegInv'
  BY <1>2, <1>3, HandlerNames DEF HandlersInv, RegInv, TypeOK
<1>8. RunInv'
  BY <1>2 DEF HandlersInv, RunInv, TypeOK
<1>9. QuietInv'
  BY <1>2, <1>5 DEF HandlersInv, QuietInv, TypeOK
<1>10. WaitInv'
  BY <1>2 DEF HandlersInv, WaitInv
<1> QED
  BY <1>4, <1>6, <1>7, <1>8, <1>9, <1>10 DEF HandlersInv

LEMMA NextHandlers ==
    ASSUME TypeOK, HandlersInv, [Next]_vars
    PROVE  TypeOK' /\ HandlersInv'
<1>1. CASE Next
  <2>1. CASE \E n \in Ns : Change(n) \/ Firing(n)
    BY <2>1, ChangeHandlers, FiringHandlers
  <2>2. CASE Watching
    BY <2>2, TakeEventHandlers, CopyBindingsHandlers, EventDoneHandlers, StopWaitedHandlers
    DEF Watching
  <2>3. CASE Starting
    BY <2>3, StartedHandlers, StartFailsHandlers DEF Starting
  <2>4. CASE \E h \in Handlers : Calling(h)
    BY <2>4, CallAddedHandlers, CallDeletedHandlers DEF Calling
  <2>5. CASE \E h \in Handlers : Register(h)
    BY <2>5, BindHandlers, CopyKnownHandlers, ReplayHandlers, RegisteredHandlers
    DEF Register
  <2>6. CASE StartedLeading \/ StoppedLeading \/ Leading
    BY <2>6, StartedLeadingHandlers, StoppedLeadingHandlers, StartServicesHandlers,
       PreparingHandlers, StopHandlers DEF Leading
  <2> QED
    BY <1>1, <2>1, <2>2, <2>3, <2>4, <2>5, <2>6 DEF Next
<1>2. CASE UNCHANGED vars
  <2> USE <1>2 DEF vars
  <2>1. TypeOK'
    BY DEF TypeOK
  <2>2. HandlersInv'
    BY DEF HandlersInv, LockInv, RegInv, RunInv, QuietInv, WaitInv
  <2> QED
    BY <2>1, <2>2
<1> QED
  BY <1>1, <1>2

(* Every reachable state is well typed, and the handlers are consistent    *)
(* with their locks, their maps and the watchers they run.                 *)
THEOREM HandlersInvariant == Spec => [](TypeOK /\ HandlersInv)
<1>1. Init => TypeOK /\ HandlersInv
  BY InitType, InitHandlers
<1>2. TypeOK /\ HandlersInv /\ [Next]_vars => TypeOK' /\ HandlersInv'
  BY NextHandlers
<1> QED
  BY <1>1, <1>2, PTL DEF Spec

(***************************************************************************)
(* The events: every action keeps EventsInv.                               *)
(***************************************************************************)
LEMMA InitEvents ==
    ASSUME Init
    PROVE  EventsInv
<1>1. \A i \in 1 .. Len(feed) : \E n \in there : feed[i] = Added(n)
  BY InitFeed
<1>2. /\ event = <<>> /\ stage = "receive" /\ calls = {} /\ known = there
      /\ items = [h \in Handlers |-> {}] /\ todo = [h \in Handlers |-> {}]
      /\ dead = "no" /\ \A h \in Handlers : ~Bound(h)
  BY DEF Init, Bound
<1>3. FeedInv
  BY <1>1, <1>2, EventNames DEF FeedInv, Between
<1>4. EventInv
  BY <1>2 DEF EventInv
<1>5. \A e : event # <<e>>
  BY <1>2
<1>6. MeetInv /\ ServedInv /\ PanicInv
  BY <1>2, <1>5 DEF MeetInv, ServedInv, PanicInv, Pending
<1>7. GoneInv
  BY <1>2, HandlerNames DEF GoneInv
<1> QED
  BY <1>3, <1>4, <1>6, <1>7 DEF EventsInv

(* Steps of the handlers alone: no handler is bound anew, none begins to   *)
(* copy or to replay.                                                      *)
LEMMA FrameEvents ==
    ASSUME TypeOK, HandlersInv, EventsInv, dead' \in {dead, "fatal"},
           UNCHANGED <<there, feed, known, event, stage, calls, items, todo, failed, overlap>>,
           \A h \in Handlers : /\ Bound(h)' => Bound(h) /\ (reg[h] = "copy" => reg'[h] = "copy")
                               /\ reg'[h] \in {"copy", "replay"} => reg[h] \in {"copy", "replay"},
           Bound(ConfigMaps) => Bound(ConfigMaps)'
    PROVE  EventsInv'
<1>1. FeedInv' /\ EventInv'
  BY DEF EventsInv, FeedInv, Between, EventInv
<1>2. \A e, h : h \in Handlers /\ Pending(e, h)' => Pending(e, h)
  BY DEF Pending
<1>3. MeetInv'
  BY <1>2 DEF EventsInv, MeetInv
<1>4. ServedInv'
  <2> SUFFICES ASSUME ~failed, NEW h \in Handlers, NEW n \in Ns, Bound(h)', n \in known,
                      n \notin items[h], reg'[h] # "copy", n \notin todo[h]
               PROVE  Pending(Added(n), h)'
    BY DEF ServedInv
  <2>1. Pending(Added(n), h)
    BY DEF EventsInv, ServedInv
  <2> QED
    BY <2>1 DEF Pending
<1>5. GoneInv'
  <2>1. \A e : Pending(e, ConfigMaps) => Pending(e, ConfigMaps)'
    BY DEF Pending
  <2> QED
    BY <2>1 DEF EventsInv, GoneInv
<1>6. PanicInv'
  BY <1>2 DEF EventsInv, PanicInv
<1> QED
  BY <1>1, <1>3, <1>4, <1>5, <1>6 DEF EventsInv

LEMMA ChangeEvents ==
    ASSUME TypeOK, EventsInv, NEW m \in Ns, Change(m)
    PROVE  EventsInv'
<1>1. PICK e \in Events : /\ feed' = Append(feed, e)
                          /\ m \in there => e = Deleted(m)
                          /\ m \notin there => e = Added(m)
  BY EventNames DEF Change
<1>2. PICK L \in Nat : L = Len(feed)
  BY LenProperties DEF TypeOK
<1>3. /\ Len(feed') = L + 1 /\ feed'[L + 1] = e
      /\ \A i \in 1 .. L : feed'[i] = feed[i]
  BY <1>1, <1>2, AppendProperties DEF TypeOK
<1>4. /\ UNCHANGED <<known, event, stage, calls, reg, items, todo, failed, overlap, dead>>
      /\ \A n \in Ns \ {m} : n \in there' <=> n \in there
      /\ m \in there' <=> m \notin there
  BY DEF Change, locks, maps, ended, history
<1>5. ASSUME NEW f, NEW i \in 0 .. L, NEW j \in 0 .. L + 1
      PROVE  Between(f, i, j)' <=> Between(f, i, j)
  BY <1>3 DEF Between
<1>6. ASSUME NEW f, NEW i \in 0 .. L, Between(f, i, L + 1)
      PROVE  Between(f, i, L + 2)'
  <2>1. PICK k \in i + 1 .. L : feed[k] = f
    BY <1>6 DEF Between
  <2>2. k \in i + 1 .. L + 1 /\ feed'[k] = f
    BY <2>1, <1>3
  <2> QED
    BY <2>2 DEF Between
<1>7. ASSUME NEW i \in 0 .. L
      PROVE  Between(e, i, L + 2)'
  BY <1>3 DEF Between
<1>8. FeedInv'
  <2> SUFFICES ASSUME NEW n \in Ns
               PROVE  /\ n \in there' =>
                            /\ n \in known \/ Between(Added(n), 0, L + 2)'
                            /\ \A i \in 1 .. L + 1 :
                                  feed'[i] = Deleted(n) => Between(Added(n), i, L + 2)'
                      /\ n \notin there' =>
                            /\ n \notin known \/ Between(Deleted(n), 0, L + 2)'
                            /\ \A i \in 1 .. L + 1 :
                                  feed'[i] = Added(n) => Between(Deleted(n), i, L + 2)'
                      /\ \A j \in 1 .. L + 1 : feed'[j] = Deleted(n) =>
                            /\ n \in known \/ Between(Added(n), 0, j)'
                            /\ \A i \in 1 .. j - 1 :
                                  feed'[i] = Deleted(n) => Between(Added(n), i, j)'
    BY <1>3, <1>4 DEF FeedInv
  <2>1. /\ n \in there =>
              /\ n \in known \/ Between(Added(n), 0, L + 1)
              /\ \A i \in 1 .. L : feed[i] = Deleted(n) => Between(Added(n), i, L + 1)
        /\ n \notin there =>
              /\ n \notin known \/ Between(Deleted(n), 0, L + 1)
              /\ \A i \in 1 .. L : feed[i] = Added(n) => Between(Deleted(n), i, L + 1)
        /\ \A j \in 1 .. L : feed[j] = Deleted(n) =>
              /\ n \in known \/ Between(Added(n), 0, j)
              /\ \A i \in 1 .. j - 1 : feed[i] = Deleted(n) => Between(Added(n), i, j)
    BY <1>2 DEF EventsInv, FeedInv
  <2>2. n \in there' =>
          /\ n \in known \/ Between(Added(n), 0, L + 2)'
          /\ \A i \in 1 .. L + 1 : feed'[i] = Deleted(n) => Between(Added(n), i, L + 2)'
    BY <2>1, <1>1, <1>3, <1>4, <1>6, <1>7, EventNames
  <2>3. n \notin there' =>
          /\ n \notin known \/ Between(Deleted(n), 0, L + 2)'
          /\ \A i \in 1 .. L + 1 : feed'[i] = Added(n) => Between(Deleted(n), i, L + 2)'
    BY <2>1, <1>1, <1>3, <1>4, <1>6, <1>7, EventNames
  <2>4. ASSUME NEW j \in 1 .. L + 1, feed'[j] = Deleted(n)
        PROVE  /\ n \in known \/ Between(Added(n), 0, j)'
               /\ \A i \in 1 .. j - 1 : feed'[i] = Deleted(n) => Between(Added(n), i, j)'
    <3>1. /\ n \in known \/ Between(Added(n), 0, j)
          /\ \A i \in 1 .. j - 1 : feed[i] = Deleted(n) => Between(Added(n), i, j)
      <4>1. CASE j \in 1 .. L
        BY <4>1, <2>1, <2>4, <1>3
      <4>2. CASE j = L + 1
        BY <4>2, <2>1, <2>4, <1>1, <1>3, EventNames
      <4> QED
        BY <4>1, <4>2
    <3>2. \A i \in 1 .. j - 1 : i \in 0 .. L /\ feed'[i] = feed[i]
      BY <1>3
    <3> QED
      BY <3>1, <3>2, <1>5
  <2> QED
    BY <2>2, <2>3, <2>4
<1>9. EventInv' /\ MeetInv' /\ ServedInv' /\ GoneInv' /\ PanicInv'
  BY <1>4 DEF EventsInv, EventInv, MeetInv, ServedInv, GoneInv, PanicInv, Pending, Bound
<1> QED
  BY <1>8, <1>9 DEF EventsInv

LEMMA TakeEventEvents ==
    ASSUME TypeOK, HandlersInv, EventsInv, TakeEvent
    PROVE  EventsInv'
<1>1. PICK e \in Events : e = Head(feed) /\ e = feed[1]
  BY FeedShrinks, HeadTailProperties DEF TypeOK, TakeEvent
<1>2. PICK L \in Nat \ {0} : L = Len(feed)
  BY LenProperties, EmptySeq DEF TypeOK, TakeEvent
<1>3. /\ Len(feed') = L - 1
      /\ \A i \in 1 .. L - 1 : feed'[i] = feed[i + 1]
  BY <1>2, HeadTailProperties DEF TypeOK, TakeEvent
<1>4. /\ event' = <<e>> /\ stage' = "copy" /\ event'[1] = e /\ calls = {}
      /\ UNCHANGED <<there, calls, reg, items, todo, failed, dead>>
      /\ known' = (IF e.type = "ADDED" THEN known \cup {e.ns} ELSE known \ {e.ns})
      /\ overlap' = (IF e.type = "ADDED" THEN overlap
                     ELSE overlap \cup {h \in Handlers : reg[h] \in {"copy", "replay"}})
  BY <1>1 DEF TakeEvent, cluster, locks, maps, ended, EventsInv, EventInv
<1>5. \A f, h : ~Pending(f, h)
  BY DEF TakeEvent, TypeOK, EventsInv, EventInv, Pending
<1>6. ASSUME NEW f, NEW i \in 0 .. L, NEW j \in 0 .. L
      PROVE  Between(f, i, j)' <=> Between(f, i + 1, j + 1)
  <2>1. ASSUME Between(f, i, j)'
        PROVE  Between(f, i + 1, j + 1)
    <3>1. PICK k \in i + 1 .. j - 1 : feed'[k] = f
      BY <2>1 DEF Between
    <3>2. k + 1 \in (i + 1) + 1 .. (j + 1) - 1 /\ feed[k + 1] = f
      BY <3>1, <1>3
    <3> QED
      BY <3>2 DEF Between
  <2>2. ASSUME Between(f, i + 1, j + 1)
        PROVE  Between(f, i, j)'
    <3>1. PICK k \in (i + 1) + 1 .. (j + 1) - 1 : feed[k] = f
      BY <2>2 DEF Between
    <3>2. k - 1 \in i + 1 .. j - 1 /\ feed'[k - 1] = f
      BY <3>1, <1>3
    <3> QED
      BY <3>2 DEF Between
  <2> QED
    BY <2>1, <2>2
<1>7. FeedInv'
  <2> SUFFICES ASSUME NEW n \in Ns
               PROVE  /\ n \in there =>
                            /\ n \in known' \/ Between(Added(n), 1, L + 1)
                            /\ \A i \in 1 .. L - 1 :
                                  feed[i + 1] = Deleted(n) => Between(Added(n), i + 1, L + 1)
                      /\ n \notin there =>
                            /\ n \notin known' \/ Between(Deleted(n), 1, L + 1)
                            /\ \A i \in 1 .. L - 1 :
                                  feed[i + 1] = Added(n) => Between(Deleted(n), i + 1, L + 1)
                      /\ \A j \in 1 .. L - 1 : feed[j + 1] = Deleted(n) =>
                            /\ n \in known' \/ Between(Added(n), 1, j + 1)
                            /\ \A i \in 1 .. j - 1 :
                                  feed[i + 1] = Deleted(n) => Between(Added(n), i + 1, j + 1)
    <3>1. \A n \in Ns : /\ Between(Added(n), 0, L)' <=> Between(Added(n), 1, L + 1)
                        /\ Between(Deleted(n), 0, L)' <=> Between(Deleted(n), 1, L + 1)
      BY <1>6
    <3>2. \A n \in Ns, i \in 1 .. L - 1 :
            /\ feed'[i] = feed[i + 1]
            /\ Between(Added(n), i, L)' <=> Between(Added(n), i + 1, L + 1)
            /\ Between(Deleted(n), i, L)' <=> Between(Deleted(n), i + 1, L + 1)
      BY <1>3, <1>6
    <3>3. \A n \in Ns, j \in 1 .. L - 1 :
            /\ Between(Added(n), 0, j)' <=> Between(Added(n), 1, j + 1)
            /\ \A i \in 1 .. j - 1 :
                  Between(Added(n), i, j)' <=> Between(Added(n), i + 1, j + 1)
      BY <1>6
    <3>4. \A j \in 1 .. L - 1 : \A i \in 1 .. j - 1 : feed'[i] = feed[i + 1]
      BY <1>3
    <3>5. Len(feed') + 1 = L /\ Len(feed') = L - 1
      BY <1>3
    <3>6. (\A n \in Ns :
             /\ n \in there' =>
                   /\ n \in known' \/ Between(Added(n), 0, L)'
                   /\ \A i \in 1 .. L - 1 :
                         feed'[i] = Deleted(n) => Between(Added(n), i, L)'
             /\ n \notin there' =>
                   /\ n \notin known' \/ Between(Deleted(n), 0, L)'
                   /\ \A i \in 1 .. L - 1 :
                         feed'[i] = Added(n) => Between(Deleted(n), i, L)'
             /\ \A j \in 1 .. L - 1 : feed'[j] = Deleted(n) =>
                   /\ n \in known' \/ Between(Added(n), 0, j)'
                   /\ \A i \in 1 .. j - 1 :
                         feed'[i] = Deleted(n) => Between(Added(n), i, j)')
          => FeedInv'
      BY <3>5 DEF FeedInv
    <3> QED
      BY <3>1, <3>2, <3>3, <3>4, <3>6, <1>4
  <2>1. /\ n \in there =>
              /\ n \in known \/ Between(Added(n), 0, L + 1)
              /\ \A i \in 1 .. L : feed[i] = Deleted(n) => Between(Added(n), i, L + 1)
        /\ n \notin there =>
              /\ n \notin known \/ Between(Deleted(n), 0, L + 1)
              /\ \A i \in 1 .. L : feed[i] = Added(n) => Between(Deleted(n), i, L + 1)
        /\ \A j \in 1 .. L : feed[j] = Deleted(n) =>
              /\ n \in known \/ Between(Added(n), 0, j)
              /\ \A i \in 1 .. j - 1 : feed[i] = Deleted(n) => Between(Added(n), i, j)
    BY <1>2 DEF EventsInv, FeedInv
  <2>2. \A i \in 1 .. L - 1 : i + 1 \in 1 .. L
    OBVIOUS
  <2>3. ASSUME NEW f, NEW j \in 1 .. L + 1, Between(f, 0, j), f # e
        PROVE  Between(f, 1, j)
    BY <2>3, <1>1 DEF Between
  <2>4. \/ e = Added(n) /\ n \in known'
        \/ e = Deleted(n) /\ n \notin known'
        \/ e # Added(n) /\ e # Deleted(n) /\ (n \in known' <=> n \in known)
    BY <1>4, EventNames
  <2>5. Added(n) # Deleted(n) /\ 1 \in 1 .. L
    BY EventNames
  <2>6. n \in there =>
          /\ n \in known' \/ Between(Added(n), 1, L + 1)
          /\ \A i \in 1 .. L - 1 :
                feed[i + 1] = Deleted(n) => Between(Added(n), i + 1, L + 1)
    BY <2>1, <2>2, <2>3, <2>4, <2>5, <1>1
  <2>7. n \notin there =>
          /\ n \notin known' \/ Between(Deleted(n), 1, L + 1)
          /\ \A i \in 1 .. L - 1 :
                feed[i + 1] = Added(n) => Between(Deleted(n), i + 1, L + 1)
    BY <2>1, <2>2, <2>3, <2>4, <2>5, <1>1
  <2>8. ASSUME NEW j \in 1 .. L - 1, feed[j + 1] = Deleted(n)
        PROVE  /\ n \in known' \/ Between(Added(n), 1, j + 1)
               /\ \A i \in 1 .. j - 1 :
                     feed[i + 1] = Deleted(n) => Between(Added(n), i + 1, j + 1)
    <3>1. j + 1 \in 1 .. L /\ j + 1 \in 1 .. L + 1 /\ 1 \in 1 .. (j + 1) - 1
          /\ \A i \in 1 .. j - 1 : i + 1 \in 1 .. (j + 1) - 1
      OBVIOUS
    <3> QED
      BY <3>1, <2>8, <2>1, <2>3, <2>4, <2>5, <1>1
  <2> QED
    BY <2>6, <2>7, <2>8
<1>8. EventInv'
  BY <1>4, EventNames DEF EventInv
<1>9. \A f, h : Pending(f, h)' <=> f = e /\ Bound(h)
  BY <1>4 DEF Pending, Bound, EventsInv, EventInv, TakeEvent
<1>10. MeetInv'
  BY <1>4, <1>9, EventNames DEF MeetInv
<1>11. ServedInv'
  BY <1>4, <1>5, <1>9, EventNames DEF EventsInv, ServedInv, Bound
<1>12. GoneInv'
  <2> SUFFICES ASSUME ConfigMaps \notin overlap', NEW n \in Ns,
                      n \in items[ConfigMaps] \cup todo[ConfigMaps]
               PROVE  n \in known' \/ (e = Deleted(n) /\ Bound(ConfigMaps))
    BY <1>4, <1>9 DEF GoneInv
  <2>1. n \in known
    BY <1>4, <1>5 DEF EventsInv, GoneInv
  <2>2. CASE e = Deleted(n)
    <3>1. reg[ConfigMaps] \notin {"copy", "replay"}
      BY <2>2, <1>4, EventNames, HandlerNames
    <3>2. reg[ConfigMaps] = "in"
      BY <3>1, HandlerNames DEF HandlersInv, RegInv, TypeOK
    <3> QED
      BY <2>2, <3>2 DEF Bound
  <2>3. CASE e # Deleted(n)
    BY <2>1, <2>3, <1>4, EventNames
  <2> QED
    BY <2>2, <2>3
<1>13. PanicInv'
  <2> SUFFICES ASSUME ~failed, overlap' = {}, NEW h \in Handlers \ {ConfigMaps}, NEW n \in Ns,
                      e = Deleted(n), Bound(h)
               PROVE  n \in items[h]
    BY <1>4, <1>9 DEF EventsInv, PanicInv
  <2>1. reg[h] \notin {"copy", "replay"}
    BY <1>4, EventNames
  <2>2. n \in known
    <3>1. ~Between(Added(n), 0, 1)
      BY DEF Between
    <3>2. 1 \in 1 .. Len(feed) /\ feed[1] = Deleted(n)
      BY <1>1, <1>2
    <3> QED
      BY <3>1, <3>2 DEF EventsInv, FeedInv
  <2> QED
    BY <2>1, <2>2, <1>5 DEF EventsInv, ServedInv, HandlersInv, RegInv
<1> QED
  BY <1>7, <1>8, <1>10, <1>11, <1>12, <1>13 DEF EventsInv

LEMMA CopyBindingsEvents ==
    ASSUME TypeOK, HandlersInv, EventsInv, CopyBindings
    PROVE  EventsInv'
<1>1. /\ calls = {} /\ event # <<>> /\ stage = "copy" /\ stage' = "call"
      /\ calls' = {h \in Handlers : Bound(h)}
      /\ UNCHANGED <<there, feed, known, event, reg, todo, items, failed, dead, overlap>>
  BY DEF CopyBindings, cluster, locks, maps, ended, history, EventsInv, EventInv, TypeOK
<1>2. \A e : \A h \in Handlers : Pending(e, h)' <=> Pending(e, h)
  BY <1>1 DEF Pending, Bound
<1>3. FeedInv' /\ EventInv'
  BY <1>1 DEF EventsInv, FeedInv, Between, EventInv
<1>4. MeetInv' /\ ServedInv' /\ PanicInv'
  BY <1>1, <1>2 DEF EventsInv, MeetInv, ServedInv, PanicInv, Bound
<1>5. GoneInv'
  BY <1>1, <1>2, HandlerNames DEF EventsInv, GoneInv
<1> QED
  BY <1>3, <1>4, <1>5 DEF EventsInv

LEMMA EventDoneEvents ==
    ASSUME TypeOK, HandlersInv, EventsInv, EventDone
    PROVE  EventsInv'
<1>1. /\ calls = {} /\ event' = <<>> /\ stage = "call" /\ stage' = "receive"
      /\ UNCHANGED <<there, feed, known, calls, reg, todo, items, failed, dead, overlap>>
  BY DEF EventDone, cluster, locks, maps, ended, history
<1>2. \A e, h : ~Pending(e, h) /\ ~Pending(e, h)'
  BY <1>1 DEF Pending
<1>3. FeedInv' /\ EventInv'
  BY <1>1 DEF EventsInv, FeedInv, Between, EventInv
<1>4. MeetInv' /\ ServedInv' /\ PanicInv'
  BY <1>1, <1>2 DEF EventsInv, MeetInv, ServedInv, PanicInv, Bound
<1>5. GoneInv'
  BY <1>1, <1>2 DEF EventsInv, GoneInv
<1> QED
  BY <1>3, <1>4, <1>5 DEF EventsInv

(* A call that finds a watcher returns; another one starts a watcher.      *)
LEMMA HandleAddedEvents ==
    ASSUME TypeOK, HandlersInv, EventsInv, NEW h \in Handlers, NEW n \in Ns,
           NEW by \in {"events", "register"}, HandleAdded(h, by, n),
           by = "events" => stage = "call" /\ event[1] = Added(n)
    PROVE  EventsInv'
<1>1. UNCHANGED <<there, feed, known, event, stage, reg, items, failed, overlap, dead>>
  BY DEF HandleAdded, cluster, watcher, maps, ended, history
<1>2. \/ UNCHANGED <<calls, todo>>
      \/ /\ n \in items[h] /\ stage = "call" /\ event[1] = Added(n)
         /\ calls' = calls \ {h} /\ todo' = todo
      \/ n \in items[h] /\ todo' = [todo EXCEPT ![h] = @ \ {n}] /\ calls' = calls
  BY DEF HandleAdded, Returns
<1>3. FeedInv'
  BY <1>1 DEF EventsInv, FeedInv, Between
<1>4. EventInv'
  BY <1>1, <1>2 DEF EventsInv, EventInv
<1>5. \A f : \A g \in Handlers :
        /\ Pending(f, g)' => Pending(f, g)
        /\ g # h \/ f # Added(n) => (Pending(f, g) => Pending(f, g)')
  BY <1>1, <1>2 DEF Pending, Bound
<1>6. \A g \in Handlers : /\ todo'[g] \subseteq todo[g]
                          /\ \A m \in Ns : g # h \/ m # n => (m \in todo[g] => m \in todo'[g])
  BY <1>2 DEF TypeOK
<1>7. UNCHANGED <<calls, todo>> \/ n \in items[h]
  BY <1>2
<1>8. MeetInv'
  BY <1>1, <1>5 DEF EventsInv, MeetInv
<1>9. ServedInv'
  <2>1. CASE UNCHANGED <<calls, todo>>
    BY <2>1, <1>1 DEF EventsInv, ServedInv, Pending, Bound
  <2>2. CASE n \in items[h]
    BY <2>2, <1>1, <1>5, <1>6, EventNames DEF EventsInv, ServedInv, Bound
  <2> QED
    BY <2>1, <2>2, <1>7
<1>10. GoneInv'
  BY <1>1, <1>5, <1>6, EventNames, HandlerNames DEF EventsInv, GoneInv
<1>11. PanicInv'
  BY <1>1, <1>5 DEF EventsInv, PanicInv
<1> QED
  BY <1>3, <1>4, <1>8, <1>9, <1>10, <1>11 DEF EventsInv

LEMMA CallAddedEvents ==
    ASSUME TypeOK, HandlersInv, EventsInv, NEW h \in Handlers, CallAdded(h)
    PROVE  EventsInv'
<1>1. event[1] \in Events /\ event[1] = Added(event[1].ns) /\ event[1].ns \in Ns
  BY TheEvent, EventNames DEF CallAdded
<1> QED
  BY <1>1, HandleAddedEvents DEF CallAdded

LEMMA ReplayEvents ==
    ASSUME TypeOK, HandlersInv, EventsInv, NEW h \in Handlers, Replay(h)
    PROVE  EventsInv'
<1>1. PICK n \in todo[h] : HandleAdded(h, "register", n)
  BY DEF Replay
<1>2. n \in Ns
  BY DEF TypeOK
<1> QED
  BY <1>1, <1>2, HandleAddedEvents

(* However a start ends, what the call was for is no longer asked for.     *)
LEMMA StartEndsEvents ==
    ASSUME TypeOK, HandlersInv, EventsInv, NEW c \in starting, StartEnds(c)
    PROVE  /\ UNCHANGED <<there, feed, known, event, stage, reg, dead, overlap>>
           /\ FeedInv' /\ EventInv' /\ MeetInv'
           /\ \A f : \A g \in Handlers :
                 /\ Pending(f, g)' => Pending(f, g)
                 /\ g # c.handler \/ f # Added(c.ns) => (Pending(f, g) => Pending(f, g)')
           /\ \A g \in Handlers :
                 /\ todo'[g] \subseteq todo[g]
                 /\ \A m \in Ns : g # c.handler \/ m # c.ns =>
                                  (m \in todo[g] => m \in todo'[g])
<1>1. c.handler \in Handlers /\ c.ns \in Ns /\ c.by \in {"events", "register"}
  BY StartTypes
<1>2. UNCHANGED <<there, feed, known, event, stage, reg, dead, overlap>>
  BY DEF StartEnds, cluster, watcher, history
<1>3. \/ /\ stage = "call" /\ event[1] = Added(c.ns)
         /\ calls' = calls \ {c.handler} /\ todo' = todo
      \/ todo' = [todo EXCEPT ![c.handler] = @ \ {c.ns}] /\ calls' = calls
  BY <1>1 DEF StartEnds, Returns, HandlersInv, LockInv
<1>4. \A f : \A g \in Handlers :
        /\ Pending(f, g)' => Pending(f, g)
        /\ g # c.handler \/ f # Added(c.ns) => (Pending(f, g) => Pending(f, g)')
  BY <1>2, <1>3 DEF Pending, Bound
<1>5. \A g \in Handlers :
        /\ todo'[g] \subseteq todo[g]
        /\ \A m \in Ns : g # c.handler \/ m # c.ns => (m \in todo[g] => m \in todo'[g])
  BY <1>1, <1>3 DEF TypeOK
<1>6. FeedInv'
  BY <1>2 DEF EventsInv, FeedInv, Between
<1>7. EventInv'
  BY <1>2, <1>3 DEF EventsInv, EventInv
<1>8. MeetInv'
  BY <1>2, <1>4 DEF EventsInv, MeetInv
<1> QED
  BY <1>2, <1>4, <1>5, <1>6, <1>7, <1>8

LEMMA StartedEvents ==
    ASSUME TypeOK, HandlersInv, EventsInv, NEW c \in starting, Started(c)
    PROVE  EventsInv'
<1> DEFINE h == c.handler
           n == c.ns
<1>1. h \in Handlers /\ n \in Ns /\ c.by \in {"events", "register"}
  BY StartTypes
<1>2. /\ UNCHANGED <<there, feed, known, event, stage, reg, dead, overlap>>
      /\ FeedInv' /\ EventInv' /\ MeetInv'
      /\ \A f : \A g \in Handlers :
            /\ Pending(f, g)' => Pending(f, g)
            /\ g # h \/ f # Added(n) => (Pending(f, g) => Pending(f, g)')
      /\ \A g \in Handlers :
            /\ todo'[g] \subseteq todo[g]
            /\ \A m \in Ns : g # h \/ m # n => (m \in todo[g] => m \in todo'[g])
  BY StartEndsEvents DEF Started
<1>3. /\ failed' = failed
      /\ items'[h] = items[h] \cup {n}
      /\ \A g \in Handlers \ {h} : items'[g] = items[g]
  BY <1>1 DEF Started, TypeOK
<1>4. n \in known \/ n \in todo[h]
  <2>1. c.by = "events" => stage = "call" /\ event[1] = Added(n)
    BY DEF HandlersInv, LockInv
  <2>2. c.by = "register" => n \in todo[h]
    BY DEF HandlersInv, LockInv
  <2> QED
    BY <1>1, <2>1, <2>2, EventNames DEF EventsInv, EventInv
<1> HIDE DEF h, n
<1>5. ServedInv'
  BY <1>1, <1>2, <1>3, EventNames DEF EventsInv, ServedInv, Bound
<1>6. GoneInv'
  <2> SUFFICES ASSUME ConfigMaps \notin overlap, NEW m \in Ns,
                      m \in items'[ConfigMaps] \cup todo'[ConfigMaps], m \notin known
               PROVE  Pending(Deleted(m), ConfigMaps)'
    BY <1>2 DEF GoneInv
  <2>1. m \in items[ConfigMaps] \cup todo[ConfigMaps]
    BY <1>1, <1>2, <1>3, <1>4, HandlerNames
  <2> QED
    BY <2>1, <1>2, EventNames, HandlerNames DEF EventsInv, GoneInv
<1>7. PanicInv'
  BY <1>2, <1>3 DEF EventsInv, PanicInv
<1> QED
  BY <1>2, <1>5, <1>6, <1>7 DEF EventsInv

LEMMA StartFailsEvents ==
    ASSUME TypeOK, HandlersInv, EventsInv, NEW c \in starting, StartFails(c)
    PROVE  EventsInv'
<1>1. /\ UNCHANGED <<there, feed, known, event, stage, reg, dead, overlap>>
      /\ FeedInv' /\ EventInv' /\ MeetInv'
      /\ \A f : \A g \in Handlers :
            /\ Pending(f, g)' => Pending(f, g)
            /\ g # c.handler \/ f # Added(c.ns) => (Pending(f, g) => Pending(f, g)')
      /\ \A g \in Handlers : todo'[g] \subseteq todo[g]
  BY StartEndsEvents DEF StartFails
<1>2. failed' = TRUE /\ items' = items
  BY DEF StartFails, maps
<1>3. ServedInv' /\ PanicInv'
  BY <1>2 DEF ServedInv, PanicInv
<1>4. GoneInv'
  BY <1>1, <1>2, EventNames, HandlerNames DEF EventsInv, GoneInv
<1> QED
  BY <1>1, <1>3, <1>4 DEF EventsInv

(* The handler of ConfigMaps has done with the deletion of n.              *)
LEMMA ReturnedEvents ==
    ASSUME TypeOK, HandlersInv, EventsInv, NEW h \in Handlers, NEW n \in Ns,
           event = <<Deleted(n)>>, stage \in {"call", "wait"}, stage' = "call", h \in calls,
           calls' = calls \ {h},
           UNCHANGED <<there, feed, known, event, reg, todo, failed, overlap, items>>,
           h = ConfigMaps => dead' = dead /\ n \notin items[h],
           h # ConfigMaps => dead' = IF n \in items[h] THEN dead ELSE "panic"
    PROVE  EventsInv'
<1>1. n \notin known
  BY EventNames DEF EventsInv, EventInv
<1>2. \A f : \A g \in Handlers :
        /\ Pending(f, g)' => Pending(f, g)
        /\ g # h \/ f # Deleted(n) => (Pending(f, g) => Pending(f, g)')
  BY DEF Pending, Bound
<1>3. FeedInv' /\ EventInv'
  BY EventNames DEF EventsInv, FeedInv, Between, EventInv
<1>4. MeetInv'
  BY <1>2 DEF EventsInv, MeetInv
<1>5. Pending(Deleted(n), h)
  BY DEF Pending
<1>6. ServedInv'
  BY <1>1, <1>2, EventNames DEF EventsInv, ServedInv, Bound
<1>7. CASE h = ConfigMaps
  <2>1. GoneInv'
    <3>1. h \notin overlap => n \notin todo[h]
      BY <1>5 DEF HandlersInv, RegInv, EventsInv, MeetInv
    <3>2. \A m \in Ns \ {n} : Deleted(m) # Deleted(n)
      BY EventNames
    <3> QED
      BY <3>1, <3>2, <1>2, <1>7 DEF EventsInv, GoneInv
  <2>2. PanicInv'
    BY <1>2, <1>7 DEF EventsInv, PanicInv
  <2> QED
    BY <1>3, <1>4, <1>6, <2>1, <2>2 DEF EventsInv
<1>8. CASE h # ConfigMaps
  <2>1. GoneInv'
    BY <1>2, <1>8, HandlerNames DEF EventsInv, GoneInv
  <2>2. ~failed /\ overlap = {} => dead' # "panic"
    BY <1>5, <1>8 DEF EventsInv, PanicInv
  <2>3. PanicInv'
    BY <2>2, <1>2 DEF EventsInv, PanicInv
  <2> QED
    BY <1>3, <1>4, <1>6, <2>1, <2>3 DEF EventsInv
<1> QED
  BY <1>7, <1>8

LEMMA CallDeletedEvents ==
    ASSUME TypeOK, HandlersInv, EventsInv, NEW h \in Handlers, CallDeleted(h)
    PROVE  EventsInv'
<1>1. PICK n \in Ns : event[1] = Deleted(n) /\ event = <<Deleted(n)>> /\ event[1].ns = n
  BY TheEvent, EventNames DEF CallDeleted
<1>2. /\ UNCHANGED <<there, feed, known, event, reg, failed, overlap>>
      /\ stage = "call" /\ h \in calls
  BY DEF CallDeleted, Turn, cluster, leader, history
<1>3. CASE h = ConfigMaps /\ n \in items[h]
  <2>1. /\ UNCHANGED <<calls, todo, dead>> /\ stage' = "wait"
        /\ items'[h] = items[h] \ {n} /\ \A g \in Handlers \ {h} : items'[g] = items[g]
    BY <1>1, <1>3 DEF CallDeleted, ConfigMapsDeleted, TypeOK
  <2>2. n \notin known
    BY <1>1, <1>2, EventNames DEF EventsInv, EventInv
  <2>3. \A f : \A g \in Handlers : Pending(f, g)' <=> Pending(f, g)
    BY <1>1, <1>2, <2>1 DEF Pending, Bound
  <2>4. FeedInv' /\ EventInv'
    BY <1>2, <2>1 DEF EventsInv, FeedInv, Between, EventInv
  <2>5. MeetInv' /\ GoneInv'
    BY <1>2, <2>1, <2>3, HandlerNames DEF EventsInv, MeetInv, GoneInv
  <2>6. ServedInv'
    BY <1>2, <2>1, <2>2, <2>3, EventNames DEF EventsInv, ServedInv, Bound
  <2>7. PanicInv'
    BY <1>2, <1>3, <2>1, <2>3 DEF EventsInv, PanicInv
  <2> QED
    BY <2>4, <2>5, <2>6, <2>7 DEF EventsInv
<1>4. CASE ~(h = ConfigMaps /\ n \in items[h])
  <2>1. /\ UNCHANGED <<items, stage, todo>> /\ calls' = calls \ {h}
        /\ h = ConfigMaps => dead' = dead /\ n \notin items[h]
        /\ h # ConfigMaps => dead' = IF n \in items[h] THEN dead ELSE "panic"
    BY <1>1, <1>4 DEF CallDeleted, ConfigMapsDeleted, OthersDeleted, Returns, maps
  <2> QED
    BY <1>1, <1>2, <2>1, ReturnedEvents
<1> QED
  BY <1>3, <1>4

LEMMA StopWaitedEvents ==
    ASSUME TypeOK, HandlersInv, EventsInv, StopWaited
    PROVE  EventsInv'
<1>1. /\ stage = "wait" /\ ConfigMaps \in calls /\ event[1].type = "DELETED"
      /\ event[1].ns \notin items[ConfigMaps]
  BY DEF StopWaited, HandlersInv, WaitInv
<1>2. PICK n \in Ns : event[1] = Deleted(n) /\ event = <<Deleted(n)>> /\ event[1].ns = n
  BY <1>1, TheEvent, EventNames
<1>3. /\ UNCHANGED <<there, feed, known, event, reg, todo, items, failed, overlap, dead>>
      /\ stage' = "call" /\ calls' = calls \ {ConfigMaps}
  BY DEF StopWaited, Returns, cluster, maps, ended, history
<1> QED
  BY <1>1, <1>2, <1>3, HandlerNames, ReturnedEvents

LEMMA FiringEvents ==
    ASSUME TypeOK, HandlersInv, EventsInv, NEW n \in Ns, Firing(n)
    PROVE  EventsInv'
  BY FiringSteps, FrameEvents DEF Bound

LEMMA BindEvents ==
    ASSUME TypeOK, HandlersInv, EventsInv, NEW h \in Handlers, Bind(h)
    PROVE  EventsInv'
<1>1. /\ UNCHANGED <<there, feed, known, event, stage, calls, todo, items, dead, failed>>
      /\ reg[h] = "bind" /\ reg'[h] = "copy"
      /\ \A g \in Handlers \ {h} : reg'[g] = reg[g]
      /\ overlap \subseteq overlap'
      /\ stage = "copy" /\ event[1].type = "DELETED" => h \in overlap'
  BY DEF Bind, TypeOK, cluster, watcher, locks, maps, ended
<1>2. items[h] = {} /\ h \notin calls /\ todo[h] = {}
  BY <1>1 DEF HandlersInv, RegInv
<1>3. /\ \A f : \A g \in Handlers \ {h} : Pending(f, g)' <=> Pending(f, g)
      /\ \A f : Pending(f, h)' => event = <<f>> /\ stage = "copy"
      /\ \A f : ~Pending(f, h)
  BY <1>1, <1>2 DEF Pending, Bound
<1>4. ASSUME NEW n \in Ns, Pending(Deleted(n), h)'
      PROVE  h \in overlap'
  <2>1. event = <<Deleted(n)>> /\ stage = "copy"
    BY <1>3, <1>4
  <2>2. event[1].type = "DELETED"
    BY <2>1, EventNames
  <2> QED
    BY <1>1, <2>1, <2>2
<1>5. FeedInv' /\ EventInv'
  BY <1>1 DEF EventsInv, FeedInv, Between, EventInv
<1>6. MeetInv'
  BY <1>1, <1>3, <1>4 DEF EventsInv, MeetInv
<1>7. ServedInv'
  BY <1>1, <1>3 DEF EventsInv, ServedInv, Bound
<1>8. GoneInv'
  BY <1>1, <1>2, <1>3, HandlerNames DEF EventsInv, GoneInv
<1>9. PanicInv'
  BY <1>1, <1>3, <1>4 DEF EventsInv, PanicInv
<1> QED
  BY <1>5, <1>6, <1>7, <1>8, <1>9 DEF EventsInv

LEMMA CopyKnownEvents ==
    ASSUME TypeOK, HandlersInv, EventsInv, NEW h \in Handlers, CopyKnown(h)
    PROVE  EventsInv'
<1>1. /\ UNCHANGED <<there, feed, known, event, stage, calls, items, dead, failed, overlap>>
      /\ reg[h] = "copy" /\ reg'[h] = "replay" /\ todo'[h] = known
      /\ \A g \in Handlers \ {h} : reg'[g] = reg[g] /\ todo'[g] = todo[g]
  BY DEF CopyKnown, TypeOK, cluster, watcher, locks, maps, ended, history
<1>2. \A f : \A g \in Handlers : Pending(f, g)' <=> Pending(f, g)
  BY <1>1 DEF Pending, Bound
<1>3. FeedInv' /\ EventInv'
  BY <1>1 DEF EventsInv, FeedInv, Between, EventInv
<1>4. MeetInv'
  BY <1>1, <1>2 DEF EventsInv, MeetInv
<1>5. ServedInv'
  BY <1>1, <1>2 DEF EventsInv, ServedInv, Bound
<1>6. GoneInv'
  BY <1>1, <1>2, HandlerNames DEF EventsInv, GoneInv
<1>7. PanicInv'
  BY <1>1, <1>2 DEF EventsInv, PanicInv
<1> QED
  BY <1>3, <1>4, <1>5, <1>6, <1>7 DEF EventsInv

LEMMA RegisteredEvents ==
    ASSUME TypeOK, HandlersInv, EventsInv, NEW h \in Handlers, Registered(h)
    PROVE  EventsInv'
  BY HandlerNames, FrameEvents
  DEF Registered, TypeOK, Bound, cluster, watcher, locks, maps, leader, ended, history

LEMMA StartedLeadingEvents ==
    ASSUME TypeOK, HandlersInv, EventsInv, StartedLeading
    PROVE  EventsInv'
<1>1. term + 1 \in 1 .. MaxTerms
  BY BoundAssumption DEF TypeOK, StartedLeading
<1> QED
  BY <1>1, HandlerNames, FrameEvents
  DEF StartedLeading, TypeOK, Bound, cluster, watcher, locks, maps, ended, history

LEMMA StartServicesEvents ==
    ASSUME TypeOK, HandlersInv, EventsInv, StartServices
    PROVE  EventsInv'
<1>1. term \in 1 .. MaxTerms
  BY BoundAssumption DEF TypeOK, HandlersInv, RegInv, StartServices
<1> QED
  BY <1>1, HandlerNames, FrameEvents
  DEF StartServices, TypeOK, Bound, cluster, watcher, locks, maps, leader, ended, history

LEMMA StopEvents ==
    ASSUME TypeOK, HandlersInv, EventsInv, Stop
    PROVE  EventsInv'
<1>1. term \in 1 .. MaxTerms
  BY BoundAssumption DEF TypeOK, HandlersInv, RegInv, Stop
<1>2. PICK h \in Handlers \ {ConfigMaps} : StopHandler(h)
  BY <1>1, HandlerNames DEF Stop
<1> QED
  BY <1>2, HandlerNames, FrameEvents
  DEF StopHandler, TypeOK, Bound, cluster, watcher, locks, leader, ended

LEMMA LeaderEvents ==
    ASSUME TypeOK, HandlersInv, EventsInv,
           StoppedLeading \/ StartPreparing \/ RunningLeaders \/ StopPreparing
    PROVE  EventsInv'
<1>1. /\ UNCHANGED <<there, feed, known, event, stage, calls, reg, items, todo, failed, overlap>>
      /\ dead' \in {dead, "fatal"}
  BY DEF StoppedLeading, StartPreparing, RunningLeaders, StopPreparing, cluster, watcher,
         locks, maps, ended, history
<1> QED
  BY <1>1, FrameEvents DEF Bound

LEMMA NextEvents ==
    ASSUME TypeOK, HandlersInv, EventsInv, [Next]_vars
    PROVE  EventsInv'
<1>1. CASE Next
  <2>1. CASE \E n \in Ns : Change(n) \/ Firing(n)
    BY <2>1, ChangeEvents, FiringEvents
  <2>2. CASE Watching
    BY <2>2, TakeEventEvents, CopyBindingsEvents, EventDoneEvents, StopWaitedEvents DEF Watching
  <2>3. CASE Starting
    BY <2>3, StartedEvents, StartFailsEvents DEF Starting
  <2>4. CASE \E h \in Handlers : Calling(h)
    BY <2>4, CallAddedEvents, CallDeletedEvents DEF Calling
  <2>5. CASE \E h \in Handlers : Register(h)
    BY <2>5, BindEvents, CopyKnownEvents, ReplayEvents, RegisteredEvents DEF Register
  <2>6. CASE StartedLeading \/ StoppedLeading \/ Leading
    BY <2>6, StartedLeadingEvents, StartServicesEvents, StopEvents, LeaderEvents DEF Leading
  <2> QED
    BY <1>1, <2>1, <2>2, <2>3, <2>4, <2>5, <2>6 DEF Next
<1>2. CASE UNCHANGED vars
  BY <1>2, FrameEvents DEF vars, Bound
<1> QED
  BY <1>1, <1>2

(* And the events lead every handler from what it watches to what exists.  *)
THEOREM EventsInvariant == Spec => []EventsInv
<1>1. Init => EventsInv
  BY InitEvents
<1>2. TypeOK /\ HandlersInv /\ EventsInv /\ [Next]_vars => EventsInv'
  BY NextEvents
<1> QED
  BY <1>1, <1>2, HandlersInvariant, PTL DEF Spec

(***************************************************************************)
(* What follows.                                                           *)
(***************************************************************************)
(* The state of the handlers is what its types say.                        *)
THEOREM TypeCorrect == Spec => []TypeOK
  BY HandlersInvariant, PTL

(* However registrations and events meet, a handler never runs two         *)
(* watchers for a namespace.                                               *)
THEOREM WatchedOnce == Spec => []OneWatcher
<1>1. HandlersInv => OneWatcher
  BY DEF HandlersInv, RunInv, OneWatcher
<1> QED
  BY <1>1, HandlersInvariant, PTL

(* A stopped handler runs no watcher, unless it was still to be called.    *)
THEOREM StopIsQuiet == Spec => []StoppedIsQuiet
<1>1. HandlersInv => StoppedIsQuiet
  BY DEF HandlersInv, QuietInv, StoppedIsQuiet
<1> QED
  BY <1>1, HandlersInvariant, PTL

(* Once it has caught up, a handler watches every namespace that exists,   *)
(* unless a watcher failed to start.                                       *)
THEOREM CaughtUpServes == Spec => []ServedAtRest
<1>1. TypeOK /\ HandlersInv /\ EventsInv => ServedAtRest
  <2> SUFFICES ASSUME TypeOK, HandlersInv, EventsInv, ~failed, NEW h \in Handlers, Idle(h),
                      NEW n \in there
               PROVE  running[h][n] > 0
    BY DEF ServedAtRest
  <2>1. n \in Ns /\ reg[h] = "in" /\ Len(feed) = 0
    BY EmptySeq DEF Idle, TypeOK
  <2>2. ~Between(Added(n), 0, Len(feed) + 1)
    BY <2>1 DEF Between
  <2>3. n \in known
    BY <2>1, <2>2 DEF EventsInv, FeedInv
  <2>4. ~Pending(Added(n), h) /\ n \notin todo[h]
    BY <2>1 DEF Idle, TypeOK, Pending, EventsInv, EventInv, HandlersInv, RegInv
  <2>5. n \in items[h]
    BY <2>1, <2>3, <2>4 DEF Bound, EventsInv, ServedInv
  <2> QED
    BY <2>1, <2>5 DEF HandlersInv, RunInv
<1> QED
  BY <1>1, HandlersInvariant, EventsInvariant, PTL

(* And the handler of ConfigMaps watches nothing else, unless a deletion   *)
(* met its registration.                                                   *)
THEOREM CaughtUpForgets == Spec => []GoneIsUnwatched
<1>1. TypeOK /\ HandlersInv /\ EventsInv => GoneIsUnwatched
  <2> SUFFICES ASSUME TypeOK, HandlersInv, EventsInv, Idle(ConfigMaps), ConfigMaps \notin overlap,
                      NEW n \in Ns \ there
               PROVE  running[ConfigMaps][n] = 0
    BY DEF GoneIsUnwatched
  <2>1. Len(feed) = 0
    BY EmptySeq DEF Idle, TypeOK
  <2>2. ~Between(Deleted(n), 0, Len(feed) + 1)
    BY <2>1 DEF Between
  <2>3. n \notin known
    BY <2>2 DEF EventsInv, FeedInv
  <2>4. ~Pending(Deleted(n), ConfigMaps)
    BY DEF Idle, Pending, EventsInv, EventInv
  <2>5. n \notin items[ConfigMaps]
    BY <2>3, <2>4 DEF EventsInv, GoneInv
  <2> QED
    BY <2>5, HandlerNames DEF HandlersInv, RunInv
<1> QED
  BY <1>1, HandlersInvariant, EventsInvariant, PTL

(* A deletion only panics after a watcher could not be started or after a  *)
(* deletion met a registration.                                            *)
THEOREM PanicsHaveACause == Spec => []PanicHasCause
<1>1. EventsInv /\ TypeOK => PanicHasCause
  BY DEF EventsInv, PanicInv, PanicHasCause, TypeOK
<1> QED
  BY <1>1, HandlersInvariant, EventsInvariant, PTL
=============================================================================
