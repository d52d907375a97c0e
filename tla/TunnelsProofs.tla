--------------------------- MODULE TunnelsProofs ---------------------------
(***************************************************************************)
(* Theorems about Tunnels, for every number of changes, tunnels and        *)
(* restarts, with or without failing calls.                                *)
(***************************************************************************)
EXTENDS Tunnels, SequenceTheorems, TLAPS

(***************************************************************************)
(* Why IdHasSecret holds.                                                  *)
(***************************************************************************)
(* A worker is in the handler only while it was called.                    *)
ControlInv ==
    /\ replay => leading
    /\ at["watch"] # "idle" => leading /\ event # "none"
    /\ at["register"] # "idle" => replay

(* No id is known that Cloudflare has not given out.                       *)
KnownInv ==
    /\ cf <= created /\ secret <= created /\ cmId <= created
    /\ \A w \in Workers : id[w] <= created

(* The worker that may delete the tunnel, to undo its creation or for a    *)
(* Deleted event, has it to itself; so none is left without a tunnel, and  *)
(* a Secret is deleted only when there is none and nobody is making one.   *)
Owning(w) == at[w] \in {"secret", "undo", "delete"}

OwnerInv ==
    /\ \A w \in Workers : Owning(w) => cf = id[w] /\ cf # 0
    /\ ~ (Owning("watch") /\ Owning("register"))
    /\ at["watch"] \in {"create", "secret", "undo"} => event = "upsert"
    /\ at["watch"] = "delete" /\ event = "deleted" => ~replay
    /\ at["watch"] = "drop" => ~replay /\ cf = 0
    /\ at["register"] # "drop"

(* A tunnel whose id is about to be written has its Secret.                *)
SecretInv ==
    /\ \A w \in Workers : at[w] \in {"get", "put"} /\ id[w] = cf /\ cf # 0 => secret = cf
    /\ cmId = cf /\ cf # 0 => secret = cf

TunnelInv == ControlInv /\ KnownInv /\ (~overlap => OwnerInv /\ SecretInv)
-----------------------------------------------------------------------------
(***************************************************************************)
(* Why PreparedAtRest and DeletedLeavesNothing hold.                       *)
(***************************************************************************)
Calm == ~failed /\ ~overlap

(* The events not handled yet end in what the ConfigMap is now, and the    *)
(* cache holds an object before a Deleted event comes.                     *)
FeedInv ==
    /\ ~cached => /\ event = "none"
                  /\ feed = <<>> => ~cmThere
                  /\ feed # <<>> => feed[1] = "upsert"
    /\ feed # <<>> => (cmThere <=> feed[Len(feed)] = "upsert")
    /\ feed = <<>> /\ event # "none" => (cmThere <=> event = "upsert")
    /\ fresh # {} => cmThere

(* Which call a worker may be at for which event, and with which tunnel.   *)
CallsInv ==
    /\ at["watch"] # "idle" =>
           (event = "deleted" <=> at["watch"] \in {"delete", "drop"})
    /\ at["watch"] = "delete" => passes = 2
    /\ at["register"] \notin {"delete", "drop"}
    /\ \A w \in Workers :
           /\ at[w] # "undo"
           /\ at[w] = "secret" => secret = 0
           /\ at[w] \in {"fetch", "secret", "get", "put"} => id[w] = cf /\ cf # 0

(* The tunnel and its Secret come together and go together: the first pass *)
(* of a Deleted event takes the tunnel, the second one the Secret.         *)
PairInv ==
    /\ ~leading => cf = 0 /\ secret = 0
    /\ event = "deleted" /\ passes = 1 => cf = 0 /\ ~replay
    /\ secret # 0 /\ secret # cf => cf = 0 /\ event = "deleted" /\ passes = 1
    /\ cf # 0 => secret = cf \/ \E w \in Workers : at[w] = "secret"
    /\ ~cmThere /\ feed = <<>> /\ event = "none" => ~replay /\ cf = 0 /\ secret = 0

(* A worker that goes on to write the id of the living tunnel.             *)
Preparing(w) ==
    \/ at[w] = "idle" /\ Upserting(w)
    \/ at[w] = "create" /\ cf = 0
    \/ at[w] = "fetch" /\ secret = cf
    \/ at[w] \in {"secret", "get"}
    \/ at[w] = "put" /\ w \in fresh

Prepared == cf # 0 /\ cmId = cf /\ secret = cf

PrepareInv ==
    leading /\ cmThere /\ feed = <<>> => Prepared \/ \E w \in Workers : Preparing(w)

CalmInv == Calm => FeedInv /\ CallsInv /\ PairInv /\ PrepareInv
-----------------------------------------------------------------------------
(* The queue of events: one more, one less.                                *)
LEMMA FeedGrows ==
    ASSUME NEW q \in Seq({"upsert", "deleted"}), NEW e \in {"upsert", "deleted"}
    PROVE  Append(q, e) \in Seq({"upsert", "deleted"})
  BY AppendProperties

LEMMA FeedShrinks ==
    ASSUME NEW q \in Seq({"upsert", "deleted"}), q # <<>>
    PROVE  Tail(q) \in Seq({"upsert", "deleted"})
  BY HeadTailProperties

(* The handler returns only while an event or the replay calls it.         *)
LEMMA ReturnTypes ==
    ASSUME TypeOK, NEW w \in Workers, Return(w), w = "watch" => event # "none"
    PROVE  /\ at' \in [Workers -> {"idle", "fetch", "create", "secret", "undo", "delete",
                                   "drop", "get", "put"}]
           /\ id' \in [Workers -> {0} \cup Ids]
           /\ event' \in {"none", "upsert", "deleted"} /\ passes' \in 0 .. 2
           /\ event' = "none" <=> passes' = 0
           /\ replay' \in BOOLEAN
           /\ at'[w] = "idle" /\ id'[w] = 0
           /\ \A v \in Workers : v # w => at'[v] = at[v] /\ id'[v] = id[v]
           /\ w = "watch" => replay' = replay
           /\ w # "watch" => ~replay' /\ event' = event
<1>1. /\ at' \in [Workers -> {"idle", "fetch", "create", "secret", "undo", "delete",
                              "drop", "get", "put"}]
      /\ id' \in [Workers -> {0} \cup Ids]
      /\ at'[w] = "idle" /\ id'[w] = 0
      /\ \A v \in Workers : v # w => at'[v] = at[v] /\ id'[v] = id[v]
  BY DEF TypeOK, Return
<1>2. CASE w = "watch"
  <2>1. event # "none" /\ passes \in 1 .. 2
    BY <1>2 DEF TypeOK
  <2>2. passes' = passes - 1 /\ event' = (IF passes = 1 THEN "none" ELSE event)
        /\ replay' = replay
    BY <1>2 DEF Return
  <2>3. event' \in {"none", "upsert", "deleted"} /\ passes' \in 0 .. 2
        /\ (event' = "none" <=> passes' = 0) /\ replay' \in BOOLEAN
    BY <2>1, <2>2 DEF TypeOK
  <2> QED
    BY <1>1, <1>2, <2>2, <2>3
<1>3. CASE w # "watch"
  BY <1>1, <1>3 DEF TypeOK, Return
<1> QED
  BY <1>2, <1>3

LEMMA GotoTypes ==
    ASSUME TypeOK, NEW w \in Workers, NEW i \in {0} \cup Ids,
           NEW call \in {"fetch", "create", "secret", "undo", "delete", "drop", "get", "put"},
           Goto(w, call, i)
    PROVE  /\ at' \in [Workers -> {"idle", "fetch", "create", "secret", "undo", "delete",
                                   "drop", "get", "put"}]
           /\ id' \in [Workers -> {0} \cup Ids]
           /\ event' = event /\ passes' = passes /\ replay' = replay
           /\ at'[w] = call /\ id'[w] = i
           /\ \A v \in Workers : v # w => at'[v] = at[v] /\ id'[v] = id[v]
  BY DEF TypeOK, Goto

(* Whoever is in the handler was called.                                   *)
LEMMA Called ==
    ASSUME TypeOK, ControlInv, NEW w \in Workers, Handle(w)
    PROVE  leading /\ (w = "watch" => event # "none") /\ (w = "register" => replay)
<1>1. at[w] # "idle" \/ Upserting(w) \/ Deleting(w)
  BY DEF Handle, FindTunnel, FetchSecret, CreateTunnel, CreateSecret, CreateSecretFails,
         FindForDelete, DeleteTunnel, DeleteSecret, ReadCm, WriteCm, CallFails
<1> QED
  BY <1>1 DEF ControlInv, Upserting, Deleting, Workers

(* What a step of the handler may do to the control state.                 *)
LEMMA HandleMoves ==
    ASSUME TypeOK, ControlInv, NEW w \in Workers, Handle(w)
    PROVE  /\ at' \in [Workers -> {"idle", "fetch", "create", "secret", "undo", "delete",
                                   "drop", "get", "put"}]
           /\ id' \in [Workers -> {0} \cup Ids]
           /\ event' \in {"none", "upsert", "deleted"} /\ passes' \in 0 .. 2
           /\ event' = "none" <=> passes' = 0
           /\ replay' \in BOOLEAN
           /\ \A v \in Workers : v # w => at'[v] = at[v] /\ id'[v] = id[v]
           /\ w = "watch" => replay' = replay
           /\ w # "watch" => event' = event
           /\ \/ event' = event /\ replay' = replay
              \/ at'[w] = "idle" /\ id'[w] = 0 /\ (w # "watch" => ~replay')
<1>1. w = "watch" => event # "none"
  BY Called
<1>2. CASE Return(w)
  BY <1>1, <1>2, ReturnTypes
<1>3. ASSUME NEW i \in {0} \cup Ids,
             NEW call \in {"fetch", "create", "secret", "undo", "delete", "drop", "get", "put"},
             Goto(w, call, i)
      PROVE  /\ at' \in [Workers -> {"idle", "fetch", "create", "secret", "undo", "delete",
                                     "drop", "get", "put"}]
             /\ id' \in [Workers -> {0} \cup Ids]
             /\ event' = event /\ passes' = passes /\ replay' = replay
             /\ \A v \in Workers : v # w => at'[v] = at[v] /\ id'[v] = id[v]
  BY <1>3, GotoTypes
<1>4. Return(w) \/ \E i \in {0} \cup Ids,
                      call \in {"fetch", "create", "secret", "undo", "delete", "drop", "get", "put"} :
                      Goto(w, call, i)
  <2>1. cf \in {0} \cup Ids /\ id[w] \in {0} \cup Ids
    BY DEF TypeOK
  <2>2. CASE CreateTunnel(w)
    <3>1. created < MaxTunnels => created + 1 \in Ids
      BY BoundAssumption DEF TypeOK, Ids
    <3> QED
      BY <2>2, <3>1 DEF CreateTunnel
  <2> QED
    BY <2>1, <2>2 DEF Handle, FindTunnel, FetchSecret, CreateSecret, CreateSecretFails,
       FindForDelete, DeleteTunnel, DeleteSecret, ReadCm, WriteCm, CallFails
<1> QED
  BY <1>2, <1>3, <1>4 DEF TypeOK
-----------------------------------------------------------------------------
LEMMA TypeStep ==
    ASSUME TypeOK, ControlInv, Next
    PROVE  TypeOK' /\ ControlInv'
<1> USE BoundAssumption
<1>1. CASE SourceCreates \/ SourceUpdates \/ UserDeletes
  <2>1. \E e \in {"upsert", "deleted"} : CmChanges(e)
    BY <1>1 DEF SourceCreates, SourceUpdates, UserDeletes
  <2>2. feed' \in Seq({"upsert", "deleted"})
    BY <2>1, FeedGrows DEF CmChanges, TypeOK
  <2>3. changes' \in 0 .. MaxChanges /\ cmThere' \in BOOLEAN /\ cmId' \in {0} \cup Ids
        /\ fresh' = {}
        /\ UNCHANGED <<cf, created, secret, cached, leading, crashes, overlap, event, passes,
                       replay, at, id, failed>>
    <3>1. changes' \in 0 .. MaxChanges
      BY <2>1 DEF CmChanges, TypeOK
    <3>2. fresh' = {} /\ UNCHANGED <<cf, created, secret, cached, leading, crashes, overlap,
                                     event, passes, replay, at, id, failed>>
      BY <2>1 DEF CmChanges, control
    <3>3. cmThere' \in BOOLEAN /\ cmId' \in {0} \cup Ids
      BY <1>1 DEF SourceCreates, SourceUpdates, UserDeletes, TypeOK
    <3> QED
      BY <3>1, <3>2, <3>3
  <2> QED
    BY <2>2, <2>3 DEF TypeOK, ControlInv
<1>2. CASE ObserveUpsert \/ ObserveDelete
  <2>1. feed' \in Seq({"upsert", "deleted"})
    BY <1>2, FeedShrinks DEF ObserveUpsert, ObserveDelete, TypeOK
  <2>2. /\ event' \in {"upsert", "deleted"} /\ passes' \in {1, 2} /\ cached' \in BOOLEAN
        /\ UNCHANGED <<cf, created, secret, cmThere, cmId, changes, leading, crashes, overlap,
                       replay, at, id, fresh, failed>>
    BY <1>2 DEF ObserveUpsert, ObserveDelete, TypeOK, control
  <2> QED
    BY <2>1, <2>2 DEF TypeOK, ControlInv
<1>3. CASE Lead
  BY <1>3 DEF Lead, TypeOK, ControlInv, outside, Workers
<1>4. CASE Follow
  <2>1. at["watch"] = "idle" /\ "watch" \in Workers
    BY <1>4 DEF Follow, ControlInv, Workers
  <2>2. at' = at
    BY <1>4, <2>1 DEF Follow, Return, TypeOK
  <2> QED
    BY <1>4, <2>1, <2>2, ReturnTypes DEF Follow, TypeOK, ControlInv, control, outside
<1>5. ASSUME NEW w \in Workers, Handle(w)
      PROVE  TypeOK' /\ ControlInv'
  <2>1. /\ cf' \in {0} \cup Ids /\ created' \in 0 .. MaxTunnels /\ secret' \in {0} \cup Ids
    BY <1>5 DEF Handle, FindTunnel, FetchSecret, CreateTunnel, CreateSecret, CreateSecretFails,
       FindForDelete, DeleteTunnel, DeleteSecret, ReadCm, WriteCm, CallFails, TypeOK, Ids
  <2>2. feed' \in Seq({"upsert", "deleted"}) /\ cmId' \in {0} \cup Ids
    BY <1>5, FeedGrows DEF Handle, FindTunnel, FetchSecret, CreateTunnel, CreateSecret,
       CreateSecretFails, FindForDelete, DeleteTunnel, DeleteSecret, ReadCm, WriteCm, CallFails,
       TypeOK, outside
  <2>3. /\ cmThere' = cmThere /\ changes' = changes /\ cached' = cached /\ leading' = leading
        /\ crashes' = crashes
    BY <1>5 DEF Handle, FindTunnel, FetchSecret, CreateTunnel, CreateSecret, CreateSecretFails,
       FindForDelete, DeleteTunnel, DeleteSecret, ReadCm, WriteCm, CallFails, outside, control
  <2>4. fresh' \subseteq Workers /\ failed' \in BOOLEAN /\ overlap' \in BOOLEAN
    BY <1>5 DEF Handle, FindTunnel, FetchSecret, CreateTunnel, CreateSecret, CreateSecretFails,
       FindForDelete, DeleteTunnel, DeleteSecret, ReadCm, WriteCm, CallFails, TypeOK, outside,
       control
  <2>5. TypeOK'
    BY <1>5, <2>1, <2>2, <2>3, <2>4, HandleMoves DEF TypeOK
  <2>6. ControlInv'
    BY <1>5, <2>3, HandleMoves, Called DEF ControlInv, Workers
  <2> QED
    BY <2>5, <2>6
<1>6. CASE Crash
  <2>1. feed' \in Seq({"upsert", "deleted"})
    <3>1. <<"upsert">> \in Seq({"upsert", "deleted"}) /\ <<>> \in Seq({"upsert", "deleted"})
      OBVIOUS
    <3> QED
      BY <1>6, <3>1 DEF Crash
  <2>2. /\ at' \in [Workers -> {"idle"}] /\ id' \in [Workers -> {0}]
        /\ event' = "none" /\ passes' = 0 /\ fresh' = {} /\ ~leading' /\ ~replay' /\ ~cached'
        /\ failed' /\ crashes' \in 0 .. MaxCrashes
        /\ UNCHANGED <<cf, created, secret, cmThere, cmId, changes, overlap>>
    BY <1>6 DEF Crash, TypeOK
  <2>3. ControlInv'
    BY <2>2 DEF ControlInv, Workers
  <2>4. leading' \in BOOLEAN /\ replay' \in BOOLEAN /\ cached' \in BOOLEAN /\ failed' \in BOOLEAN
    BY <1>6 DEF Crash
  <2>5. at' \in [Workers -> {"idle", "fetch", "create", "secret", "undo", "delete", "drop",
                             "get", "put"}] /\ id' \in [Workers -> {0} \cup Ids]
    BY <2>2
  <2>6. TypeOK'
    BY <2>1, <2>2, <2>4, <2>5 DEF TypeOK
  <2> QED
    BY <2>3, <2>6
<1> QED
  BY <1>1, <1>2, <1>3, <1>4, <1>5, <1>6 DEF Next
-----------------------------------------------------------------------------
(* The ids of a new tunnel are new.                                        *)
LEMMA KnownStep ==
    ASSUME TypeOK, ControlInv, KnownInv, Next
    PROVE  KnownInv'
<1> USE BoundAssumption
<1>0. cf \in Nat /\ created \in Nat /\ secret \in Nat /\ cmId \in Nat
      /\ \A w \in Workers : id[w] \in Nat
  BY DEF TypeOK, Ids
<1>1. CASE SourceCreates \/ SourceUpdates \/ UserDeletes
  <2>1. UNCHANGED <<cf, created, secret, id>> /\ (cmId' = cmId \/ cmId' = 0)
    BY <1>1 DEF SourceCreates, SourceUpdates, UserDeletes, CmChanges
  <2> QED
    BY <1>0, <2>1 DEF KnownInv
<1>2. CASE ObserveUpsert \/ ObserveDelete \/ Lead \/ Follow \/ Crash
  <2>1. UNCHANGED <<cf, created, secret, cmId>>
    BY <1>2 DEF ObserveUpsert, ObserveDelete, Lead, Follow, Crash, outside
  <2>2. \A w \in Workers : id'[w] = id[w] \/ id'[w] = 0
    BY <1>2 DEF ObserveUpsert, ObserveDelete, Lead, Follow, Return, Crash, TypeOK
  <2> QED
    BY <1>0, <2>1, <2>2 DEF KnownInv
<1>3. ASSUME NEW w \in Workers, Handle(w)
      PROVE  KnownInv'
  <2>1. /\ \/ created' = created /\ (cf' = cf \/ cf' = 0)
           \/ created' = created + 1 /\ cf' = created + 1
        /\ secret' \in {secret, id[w], 0} /\ cmId' \in {cmId, id[w]}
    BY <1>3 DEF Handle, FindTunnel, FetchSecret, CreateTunnel, CreateSecret, CreateSecretFails,
       FindForDelete, DeleteTunnel, DeleteSecret, ReadCm, WriteCm, CallFails, outside
  <2>2. id'[w] \in {0, cf, cf', id[w]}
    BY <1>3 DEF Handle, FindTunnel, FetchSecret, CreateTunnel, CreateSecret, CreateSecretFails,
       FindForDelete, DeleteTunnel, DeleteSecret, ReadCm, WriteCm, CallFails, Return, Goto, TypeOK
  <2>3. \A v \in Workers : v # w => id'[v] = id[v]
    BY <1>3, HandleMoves
  <2> QED
    BY <1>0, <2>1, <2>2, <2>3 DEF KnownInv
<1> QED
  BY <1>1, <1>2, <1>3 DEF Next

(* Steps outside the handler.                                              *)
LEMMA OutsideStep ==
    ASSUME TypeOK, TunnelInv, ~overlap', ControlInv',
           \/ SourceCreates \/ SourceUpdates \/ UserDeletes
           \/ ObserveUpsert \/ ObserveDelete \/ Lead \/ Follow \/ Crash
    PROVE  OwnerInv' /\ SecretInv'
<1>1. ~overlap /\ UNCHANGED <<cf, secret>> /\ cmId' \in {0, cmId}
  <2>1. CASE Lead
    BY <2>1 DEF Lead, outside
  <2>2. CASE SourceCreates \/ SourceUpdates \/ UserDeletes
    BY <2>2 DEF SourceCreates, SourceUpdates, UserDeletes, CmChanges, control
  <2>3. CASE ObserveUpsert \/ ObserveDelete \/ Follow \/ Crash
    BY <2>3 DEF ObserveUpsert, ObserveDelete, Follow, Crash, control, outside
  <2> QED
    BY <2>1, <2>2, <2>3
<1>2. OwnerInv /\ SecretInv /\ ControlInv
  BY <1>1 DEF TunnelInv
<1>3. \A w \in Workers : at'[w] = "idle" \/ (at'[w] = at[w] /\ id'[w] = id[w])
  BY DEF SourceCreates, SourceUpdates, UserDeletes, CmChanges, ObserveUpsert, ObserveDelete,
     Lead, Follow, Return, Crash, control, outside, TypeOK
<1>4. at'["watch"] # "idle" => event' = event /\ (replay' => replay)
  BY <1>2 DEF ControlInv, SourceCreates, SourceUpdates, UserDeletes, CmChanges, ObserveUpsert,
     ObserveDelete, Lead, Follow, Return, Crash, control, outside
<1>5. "watch" \in Workers /\ "register" \in Workers
  BY DEF Workers
<1>6. OwnerInv'
  BY <1>1, <1>2, <1>3, <1>4, <1>5 DEF OwnerInv, Owning
<1>7. SecretInv'
  BY <1>1, <1>2, <1>3 DEF SecretInv
<1> QED
  BY <1>6, <1>7

(* A step of the handler, while no Deleted event meets the replay.         *)
LEMMA HandleStep ==
    ASSUME TypeOK, TunnelInv, ~overlap', NEW w \in Workers, Handle(w)
    PROVE  OwnerInv' /\ SecretInv'
<1> USE BoundAssumption
<1>1. ~overlap /\ OwnerInv /\ SecretInv /\ ControlInv /\ KnownInv
  <2>1. overlap' = overlap \/ FindForDelete(w)
    BY DEF Handle, FindTunnel, FetchSecret, CreateTunnel, CreateSecret, CreateSecretFails,
       DeleteTunnel, DeleteSecret, ReadCm, WriteCm, CallFails, control
  <2>2. FindForDelete(w) => ~overlap
    BY DEF FindForDelete
  <2> QED
    BY <2>1, <2>2 DEF TunnelInv
<1>2. PICK v \in Workers : /\ v # w /\ Workers = {v, w}
                           /\ at'[v] = at[v] /\ id'[v] = id[v]
  <2>1. PICK v \in Workers : v # w /\ Workers = {v, w}
    BY DEF Workers
  <2> QED
    BY <1>1, <2>1, HandleMoves
<1>3. /\ cf \in Nat /\ created \in Nat /\ secret \in Nat /\ cmId \in Nat
      /\ id[w] \in Nat /\ id[v] \in Nat
      /\ cf <= created /\ secret <= created /\ cmId <= created /\ id[v] <= created
  BY <1>1 DEF TypeOK, Ids, KnownInv
<1>4. /\ w = "watch" => replay' = replay
      /\ w # "watch" => event' = event /\ (replay' => replay)
  BY <1>1, HandleMoves DEF TypeOK
<1>5. CASE FindTunnel(w)
  <2>1. /\ at'[w] \in {"create", "fetch"}
        /\ w = "watch" => event = "upsert"
        /\ UNCHANGED <<cf, secret, cmId>> /\ event' = event /\ replay' = replay
    BY <1>5 DEF FindTunnel, Upserting, Goto, TypeOK, outside
  <2> QED
    BY <1>1, <1>2, <2>1 DEF OwnerInv, SecretInv, Owning, Workers
<1>6. CASE FetchSecret(w)
  <2>1. /\ \/ at'[w] = "get" /\ id'[w] = id[w] /\ secret = id[w] /\ event' = event /\ replay' = replay
           \/ at'[w] = "idle"
        /\ UNCHANGED <<cf, secret, cmId>>
    BY <1>6 DEF FetchSecret, Goto, Return, TypeOK, outside
  <2> QED
    BY <1>1, <1>2, <1>4, <2>1 DEF OwnerInv, SecretInv, Owning, Workers
<1>7. CASE CreateTunnel(w)
  <2>1. \/ /\ cf = 0 /\ cf' = created + 1
           /\ at[w] = "create" /\ at'[w] = "secret" /\ id'[w] = created + 1
           /\ UNCHANGED <<secret, cmId>> /\ event' = event /\ replay' = replay
        \/ at'[w] = "idle" /\ UNCHANGED <<cf, secret, cmId>>
    BY <1>7 DEF CreateTunnel, Goto, Return, TypeOK, outside
  <2>2. at[v] # "drop"
    BY <1>1, <1>2, <1>7 DEF OwnerInv, ControlInv, CreateTunnel, Workers
  <2> QED
    BY <1>1, <1>2, <1>3, <1>4, <2>1, <2>2 DEF OwnerInv, SecretInv, Owning, Workers
<1>8. CASE CreateSecret(w) \/ CreateSecretFails(w)
  <2>1. /\ at[w] = "secret" /\ id'[w] = id[w]
        /\ \/ at'[w] = "get" /\ secret = 0 /\ secret' = id[w]
           \/ at'[w] = "undo" /\ secret' = secret
        /\ UNCHANGED <<cf, cmId>> /\ event' = event /\ replay' = replay
    BY <1>8 DEF CreateSecret, CreateSecretFails, Goto, TypeOK, outside
  <2> QED
    BY <1>1, <1>2, <1>3, <2>1 DEF OwnerInv, SecretInv, Owning, Workers
<1>9. CASE FindForDelete(w)
  <2>1. /\ at[w] = "undo" \/ (Deleting(w) /\ ~replay)
        /\ at'[w] = (IF cf = 0 THEN "drop" ELSE "delete") /\ id'[w] = cf
        /\ UNCHANGED <<cf, secret, cmId>> /\ event' = event /\ replay' = replay
    BY <1>9 DEF FindForDelete, Goto, TypeOK, outside
  <2>2. CASE at[w] = "undo"
    BY <1>1, <1>2, <2>1, <2>2 DEF OwnerInv, SecretInv, Owning, Workers
  <2>3. CASE Deleting(w) /\ ~replay
    BY <1>1, <1>2, <2>1, <2>3 DEF OwnerInv, SecretInv, Owning, Workers, Deleting, ControlInv
  <2> QED
    BY <2>1, <2>2, <2>3
<1>10. CASE DeleteTunnel(w)
  <2>1. at[w] = "delete" /\ at'[w] = "idle" /\ cf' = 0 /\ UNCHANGED <<secret, cmId>>
    BY <1>1, <1>10 DEF DeleteTunnel, Return, TypeOK, outside, OwnerInv, Owning
  <2> QED
    BY <1>1, <1>2, <1>4, <2>1 DEF OwnerInv, SecretInv, Owning, Workers
<1>11. CASE DeleteSecret(w)
  <2>1. at[w] = "drop" /\ at'[w] = "idle" /\ secret' = 0 /\ UNCHANGED <<cf, cmId>>
    BY <1>11 DEF DeleteSecret, Return, TypeOK, outside
  <2> QED
    BY <1>1, <1>2, <1>4, <2>1 DEF OwnerInv, SecretInv, Owning, Workers
<1>12. CASE ReadCm(w)
  <2>1. /\ at[w] = "get" /\ UNCHANGED <<cf, secret, cmId>>
        /\ \/ at'[w] = "put" /\ id'[w] = id[w] /\ event' = event /\ replay' = replay
           \/ at'[w] = "idle"
    BY <1>12 DEF ReadCm, Goto, Return, TypeOK, outside
  <2> QED
    BY <1>1, <1>2, <1>4, <2>1 DEF OwnerInv, SecretInv, Owning, Workers
<1>13. CASE WriteCm(w) \/ CallFails(w)
  <2>1. /\ at'[w] = "idle" /\ UNCHANGED <<cf, secret>>
        /\ cmId' = cmId \/ (at[w] = "put" /\ cmId' = id[w])
    BY <1>13 DEF WriteCm, CallFails, Return, TypeOK, outside
  <2> QED
    BY <1>1, <1>2, <1>4, <2>1 DEF OwnerInv, SecretInv, Owning, Workers
<1> QED
  BY <1>5, <1>6, <1>7, <1>8, <1>9, <1>10, <1>11, <1>12, <1>13 DEF Handle

LEMMA TunnelInitially == Init => TypeOK /\ TunnelInv
<1> SUFFICES ASSUME Init PROVE TypeOK /\ TunnelInv
  OBVIOUS
<1>1. feed \in Seq({"upsert", "deleted"})
  BY EmptySeq DEF Init
<1>2. TypeOK
  <2>1. /\ cf = 0 /\ created \in 0 .. MaxTunnels /\ secret = 0 /\ cmId = 0
        /\ changes \in 0 .. MaxChanges /\ crashes \in 0 .. MaxCrashes
    BY BoundAssumption DEF Init
  <2>2. /\ at \in [Workers -> {"idle", "fetch", "create", "secret", "undo", "delete", "drop",
                               "get", "put"}]
        /\ id \in [Workers -> {0} \cup Ids]
    BY DEF Init
  <2>3. {cached, leading, replay, failed, overlap} \subseteq BOOLEAN /\ cmThere \in BOOLEAN
    BY DEF Init
  <2> QED
    BY <1>1, <2>1, <2>2, <2>3 DEF Init, TypeOK
<1>3. ControlInv /\ KnownInv
  BY DEF Init, ControlInv, KnownInv, Workers
<1>4. OwnerInv /\ SecretInv
  BY DEF Init, OwnerInv, SecretInv, Owning, Workers
<1> QED
  BY <1>2, <1>3, <1>4 DEF TunnelInv

(* The workers, the tunnel and its Secret agree with each other.           *)
THEOREM TunnelInvariant == Spec => [](TypeOK /\ TunnelInv)
<1>1. TypeOK /\ TunnelInv /\ [Next]_vars => (TypeOK /\ TunnelInv)'
  <2> SUFFICES ASSUME TypeOK, TunnelInv, [Next]_vars PROVE TypeOK' /\ TunnelInv'
    OBVIOUS
  <2>1. CASE UNCHANGED vars
    BY <2>1 DEF vars, TypeOK, TunnelInv, ControlInv, KnownInv, OwnerInv, SecretInv, Owning
  <2>2. CASE Next
    <3>1. TypeOK' /\ ControlInv' /\ KnownInv'
      BY <2>2, TypeStep, KnownStep DEF TunnelInv
    <3>2. ~overlap' => OwnerInv' /\ SecretInv'
      BY <2>2, <3>1, OutsideStep, HandleStep DEF Next
    <3> QED
      BY <3>1, <3>2 DEF TunnelInv
  <2> QED
    BY <2>1, <2>2
<1> QED
  BY <1>1, TunnelInitially, PTL DEF Spec

(* Type correctness of the handler and of what it works on.                *)
THEOREM TypeCorrect == Spec => []TypeOK
  BY TunnelInvariant, PTL

(* The runner is never given the id of a living tunnel without a Secret.   *)
THEOREM IdsHaveSecrets == Spec => []IdHasSecret
<1>1. TypeOK /\ TunnelInv => IdHasSecret
  BY DEF TunnelInv, SecretInv, IdHasSecret
<1> QED
  BY <1>1, TunnelInvariant, PTL
-----------------------------------------------------------------------------
(* Where a queue of events ends and begins, after one more and one less.   *)
LEMMA FeedEnd ==
    ASSUME NEW q \in Seq({"upsert", "deleted"}), NEW e \in {"upsert", "deleted"}
    PROVE  /\ Append(q, e) # <<>>
           /\ Append(q, e)[Len(Append(q, e))] = e
           /\ q = <<>> => Append(q, e)[1] = e
           /\ q # <<>> => Append(q, e)[1] = q[1]
<1>1. Len(q) \in Nat /\ (q # <<>> => Len(q) >= 1) /\ (q = <<>> => Len(q) = 0)
  BY LenProperties, EmptySeq
<1>2. /\ Append(q, e) # <<>>
      /\ Len(Append(q, e)) = Len(q) + 1
      /\ Append(q, e)[Len(q) + 1] = e
      /\ \A i \in 1 .. Len(q) : Append(q, e)[i] = q[i]
  BY AppendProperties
<1>3. q = <<>> => Append(q, e)[1] = e
  BY <1>1, <1>2
<1>4. q # <<>> => 1 \in 1 .. Len(q)
  BY <1>1
<1> QED
  BY <1>2, <1>3, <1>4

LEMMA FeedTaken ==
    ASSUME NEW q \in Seq({"upsert", "deleted"}), q # <<>>
    PROVE  /\ Head(q) = q[1]
           /\ Tail(q) = <<>> => q[Len(q)] = Head(q)
           /\ Tail(q) # <<>> => Tail(q)[Len(Tail(q))] = q[Len(q)]
<1>1. Len(q) \in Nat /\ Len(q) >= 1
  BY LenProperties, EmptySeq
<1>2. /\ Head(q) = q[1]
      /\ Tail(q) \in Seq({"upsert", "deleted"})
      /\ Len(Tail(q)) = Len(q) - 1
      /\ \A i \in 1 .. Len(Tail(q)) : Tail(q)[i] = q[i + 1]
  BY <1>1, HeadTailProperties
<1>3. Tail(q) = <<>> => q[Len(q)] = Head(q)
  <2>1. Len(<<>>) = 0
    OBVIOUS
  <2>2. Tail(q) = <<>> => Len(Tail(q)) = 0
    BY <2>1, Zenon
  <2>3. Tail(q) = <<>> => Len(q) = 1
    BY <1>1, <1>2, <2>2
  <2> QED
    BY <1>2, <2>3
<1>4. Tail(q) # <<>> => Tail(q)[Len(Tail(q))] = q[Len(q)]
  <2>1. Tail(q) # <<>> => Len(Tail(q)) \in 1 .. Len(Tail(q))
    BY <1>1, <1>2, LenProperties, EmptySeq
  <2>2. Len(Tail(q)) + 1 = Len(q)
    BY <1>1, <1>2
  <2> QED
    BY <1>2, <2>1, <2>2
<1> QED
  BY <1>2, <1>3, <1>4

(* A failed call and a Deleted event that met the replay are not undone.   *)
LEMMA CalmBefore ==
    ASSUME TypeOK, Next, Calm'
    PROVE  Calm /\ UNCHANGED <<failed, overlap>> /\ ~Crash
<1>1. ~failed' /\ ~overlap'
  BY DEF Calm
<1>2. CASE SourceCreates \/ SourceUpdates \/ UserDeletes
  BY <1>1, <1>2 DEF SourceCreates, SourceUpdates, UserDeletes, CmChanges, control, Calm, Crash,
     TypeOK
<1>3. CASE ObserveUpsert \/ ObserveDelete \/ Lead \/ Follow
  BY <1>1, <1>3 DEF ObserveUpsert, ObserveDelete, Lead, Follow, control, Calm, Crash, TypeOK
<1>4. ASSUME NEW w \in Workers, Handle(w)
      PROVE  Calm /\ UNCHANGED <<failed, overlap>> /\ ~Crash
  BY <1>1, <1>4 DEF Handle, FindTunnel, FetchSecret, CreateTunnel, CreateSecret,
     CreateSecretFails, FindForDelete, DeleteTunnel, DeleteSecret, ReadCm, WriteCm, CallFails,
     control, Calm, Crash, TypeOK
<1>5. ~Crash
  BY <1>1 DEF Crash
<1> QED
  BY <1>2, <1>3, <1>4, <1>5 DEF Next

(* The ConfigMap changes, or a worker writes to it.                        *)
LEMMA FeedInvAppends ==
    ASSUME TypeOK, FeedInv, NEW e \in {"upsert", "deleted"},
           feed' = Append(feed, e), fresh' = {}, cmThere' = (e = "upsert"),
           e = "deleted" => cmThere,
           event' \in {event, "none"}, cached' = cached
    PROVE  FeedInv'
<1>1. feed \in Seq({"upsert", "deleted"})
  BY DEF TypeOK
<1>2. /\ feed' # <<>>
      /\ feed'[Len(feed')] = e
      /\ feed = <<>> => feed'[1] = e
      /\ feed # <<>> => feed'[1] = feed[1]
  BY <1>1, FeedEnd
<1> QED
  BY <1>2 DEF FeedInv

LEMMA FeedInvStep ==
    ASSUME TypeOK, ControlInv, FeedInv, Next, ~Crash
    PROVE  FeedInv'
<1>1. CASE SourceCreates \/ SourceUpdates \/ UserDeletes
  <2>1. PICK e \in {"upsert", "deleted"} :
             /\ CmChanges(e) /\ cmThere' = (e = "upsert") /\ (e = "deleted" => cmThere)
    BY <1>1 DEF SourceCreates, SourceUpdates, UserDeletes, TypeOK
  <2>2. feed' = Append(feed, e) /\ fresh' = {} /\ event' = event /\ cached' = cached
    BY <2>1 DEF CmChanges, control
  <2> QED
    BY <2>1, <2>2, FeedInvAppends
<1>2. CASE ObserveUpsert \/ ObserveDelete
  <2>1. /\ feed \in Seq({"upsert", "deleted"}) /\ feed # <<>> /\ feed' = Tail(feed)
        /\ event' = Head(feed) /\ Head(feed) \in {"upsert", "deleted"}
        /\ cached' = (cached \/ Head(feed) = "upsert")
        /\ UNCHANGED <<cmThere, fresh>>
    BY <1>2 DEF ObserveUpsert, ObserveDelete, control, TypeOK
  <2>2. /\ Head(feed) = feed[1]
        /\ Tail(feed) = <<>> => feed[Len(feed)] = Head(feed)
        /\ Tail(feed) # <<>> => Tail(feed)[Len(Tail(feed))] = feed[Len(feed)]
    BY <2>1, FeedTaken
  <2>3. cached'
    BY <2>1, <2>2 DEF FeedInv, TypeOK
  <2>4. cmThere \in BOOLEAN
    BY DEF TypeOK
  <2>5. feed' # <<>> => (cmThere' <=> feed'[Len(feed')] = "upsert")
    BY <2>1, <2>2, <2>4 DEF FeedInv
  <2>6. feed' = <<>> /\ event' # "none" => (cmThere' <=> event' = "upsert")
    BY <2>1, <2>2, <2>4 DEF FeedInv
  <2>7. fresh' # {} => cmThere'
    BY <2>1 DEF FeedInv
  <2> QED
    BY <2>3, <2>5, <2>6, <2>7 DEF FeedInv
<1>3. CASE Lead
  BY <1>3 DEF Lead, FeedInv, outside
<1>4. CASE Follow
  <2>1. event' \in {event, "none"} /\ UNCHANGED <<cached, feed, cmThere, fresh>>
    BY <1>4 DEF Follow, Return, outside, control
  <2> QED
    BY <2>1 DEF FeedInv
<1>5. ASSUME NEW w \in Workers, Handle(w)
      PROVE  FeedInv'
  <2>1. event' \in {event, "none"} /\ UNCHANGED <<cached, cmThere>>
    BY <1>5 DEF Handle, FindTunnel, FetchSecret, CreateTunnel, CreateSecret, CreateSecretFails,
       FindForDelete, DeleteTunnel, DeleteSecret, ReadCm, WriteCm, CallFails, Return, Goto,
       outside, control
  <2>2. CASE feed' = Append(feed, "upsert") /\ fresh' = {} /\ fresh # {}
    <3>1. cmThere' = ("upsert" = "upsert")
      BY <2>1, <2>2 DEF FeedInv, TypeOK
    <3> QED
      BY <2>1, <2>2, <3>1, FeedInvAppends
  <2>3. CASE feed' = feed /\ (fresh' # {} => fresh # {} \/ cmThere)
    BY <2>1, <2>3 DEF FeedInv
  <2>4. \/ feed' = Append(feed, "upsert") /\ fresh' = {} /\ fresh # {}
        \/ feed' = feed /\ (fresh' # {} => fresh # {} \/ cmThere)
    BY <1>5 DEF Handle, FindTunnel, FetchSecret, CreateTunnel, CreateSecret, CreateSecretFails,
       FindForDelete, DeleteTunnel, DeleteSecret, ReadCm, WriteCm, CallFails, outside
  <2> QED
    BY <2>2, <2>3, <2>4
<1> QED
  BY <1>1, <1>2, <1>3, <1>4, <1>5 DEF Next
-----------------------------------------------------------------------------
(* A worker goes on preparing while the other one leaves things alone.     *)
LEMMA PreparingStays ==
    ASSUME NEW v \in Workers, Preparing(v), at'[v] = at[v],
           UNCHANGED <<cf, secret, leading>>, v \in fresh => v \in fresh',
           v = "watch" => event' = event, v = "register" => replay' = replay
    PROVE  Preparing(v)'
  BY DEF Preparing, Upserting, Workers

(* The handler returns without having changed anything: it did what there  *)
(* was to do, or the other worker does it.                                 *)
LEMMA ReturnStep ==
    ASSUME TypeOK, ControlInv, FeedInv, CallsInv, PairInv, PrepareInv,
           NEW w \in Workers, Return(w), at[w] \notin {"idle", "secret", "delete", "drop"},
           UNCHANGED <<cf, secret, feed, cmThere, cmId, leading>>,
           fresh \ {w} \subseteq fresh',
           ~cmThere \/ Prepared \/ ~Preparing(w)
    PROVE  CallsInv' /\ PairInv' /\ PrepareInv'
<1>1. PICK v \in Workers : v # w /\ Workers = {v, w}
  BY DEF Workers
<1>2. /\ at'[w] = "idle" /\ at'[v] = at[v] /\ id'[v] = id[v]
      /\ w = "watch" => replay' = replay /\ event = "upsert" /\ event' \in {"upsert", "none"}
      /\ w = "register" => replay /\ ~replay' /\ event' = event /\ passes' = passes
  BY <1>1 DEF Return, TypeOK, ControlInv, CallsInv, Workers
<1>3. CallsInv'
  BY <1>1, <1>2 DEF CallsInv, Workers
<1>4. PairInv'
  BY <1>1, <1>2 DEF PairInv, FeedInv, Workers
<1>5. PrepareInv'
  <2> SUFFICES ASSUME leading', cmThere', feed' = <<>>
               PROVE  Prepared' \/ \E u \in Workers : Preparing(u)'
    BY DEF PrepareInv
  <2>1. Prepared \/ Preparing(v)
    BY <1>1 DEF PrepareInv
  <2>2. CASE Preparing(v)
    BY <1>1, <1>2, <2>2, PreparingStays DEF Workers
  <2>3. CASE Prepared
    BY <2>3 DEF Prepared
  <2> QED
    BY <2>1, <2>2, <2>3
<1> QED
  BY <1>3, <1>4, <1>5

(* A step of the handler, while no call fails.                             *)
LEMMA CalmHandleStep ==
    ASSUME TypeOK, TunnelInv, Calm, FeedInv, CallsInv, PairInv, PrepareInv,
           UNCHANGED <<failed, overlap>>, NEW w \in Workers, Handle(w)
    PROVE  CallsInv' /\ PairInv' /\ PrepareInv'
<1> USE BoundAssumption
<1>1. ~failed' /\ OwnerInv /\ SecretInv /\ ControlInv
  BY DEF TunnelInv, Calm
<1>2. PICK v \in Workers : /\ v # w /\ Workers = {v, w}
                           /\ at'[v] = at[v] /\ id'[v] = id[v]
  <2>1. PICK v \in Workers : v # w /\ Workers = {v, w}
    BY DEF Workers
  <2> QED
    BY <1>1, <2>1, HandleMoves
<1>3. /\ leading /\ leading' = leading /\ cmThere' = cmThere
      /\ w = "watch" => event # "none"
      /\ w = "register" => replay
  BY <1>1, Called DEF Handle, FindTunnel, FetchSecret, CreateTunnel, CreateSecret,
     CreateSecretFails, FindForDelete, DeleteTunnel, DeleteSecret, ReadCm, WriteCm, CallFails,
     outside, control
<1>4. cf \in Nat /\ secret \in Nat /\ created \in Nat
  BY DEF TypeOK, Ids
<1>5. CASE FindTunnel(w)
  <2>1. /\ at[w] = "idle" /\ (w = "watch" => event = "upsert")
        /\ at'[w] = (IF cf = 0 THEN "create" ELSE "fetch") /\ id'[w] = cf
        /\ UNCHANGED <<cf, secret, cmId, feed, fresh, event, passes, replay>>
    BY <1>5 DEF FindTunnel, Upserting, Goto, TypeOK, outside
  <2>2. CallsInv'
    BY <1>2, <2>1 DEF CallsInv, Workers
  <2>3. PairInv'
    BY <1>2, <1>3, <2>1 DEF PairInv
  <2>4. PrepareInv'
    <3>1. CASE cf = 0
      BY <1>2, <2>1, <3>1 DEF PrepareInv, Preparing
    <3>2. CASE cf # 0 /\ secret = cf
      BY <1>2, <2>1, <3>2 DEF PrepareInv, Preparing
    <3>3. CASE at[v] = "secret"
      BY <1>2, <2>1, <3>3 DEF PrepareInv, Preparing
    <3> QED
      BY <1>2, <2>1, <3>1, <3>2, <3>3 DEF PairInv
  <2> QED
    BY <2>2, <2>3, <2>4
<1>6. CASE FetchSecret(w)
  <2>1. at[w] = "fetch" /\ id[w] = cf /\ cf # 0
        /\ UNCHANGED <<cf, secret, cmId, feed, fresh>>
    BY <1>6 DEF FetchSecret, CallsInv, outside
  <2>2. CASE secret = cf
    <3>1. /\ at'[w] = "get" /\ id'[w] = cf
          /\ UNCHANGED <<event, passes, replay>>
      BY <1>6, <2>1, <2>2 DEF FetchSecret, Goto, TypeOK
    <3>2. CallsInv'
      BY <1>2, <2>1, <3>1 DEF CallsInv, Workers
    <3>3. PairInv'
      BY <1>2, <1>3, <2>1, <2>2, <3>1 DEF PairInv
    <3>4. PrepareInv'
      BY <3>1 DEF PrepareInv, Preparing
    <3> QED
      BY <3>2, <3>3, <3>4
  <2>3. CASE secret # cf
    <3>1. Return(w)
      BY <1>6, <2>1, <2>3 DEF FetchSecret
    <3>2. ~Preparing(w)
      BY <2>1, <2>3 DEF Preparing
    <3> QED
      BY <1>1, <1>3, <2>1, <3>1, <3>2, ReturnStep
  <2> QED
    BY <2>2, <2>3
<1>7. CASE CreateTunnel(w)
  <2>1. at[w] = "create" /\ UNCHANGED <<secret, cmId, feed, fresh>>
    BY <1>7 DEF CreateTunnel, outside
  <2>2. CASE cf = 0
    <3>1. /\ cf' = created + 1 /\ cf' # 0 /\ at'[w] = "secret" /\ id'[w] = cf'
          /\ UNCHANGED <<event, passes, replay>>
      BY <1>4, <1>7, <2>2 DEF CreateTunnel, Goto, TypeOK
    <3>2. ~ (event = "deleted" /\ passes = 1)
      BY <1>1, <1>3, <2>1 DEF OwnerInv, PairInv, Workers
    <3>3. secret = 0
      BY <2>2, <3>2 DEF PairInv
    <3>4. CallsInv'
      BY <1>1, <1>2, <2>1, <2>2, <3>1, <3>3 DEF CallsInv, Workers, OwnerInv
    <3>5. PairInv'
      <4>1. ~ (~cmThere /\ feed = <<>> /\ event = "none")
        BY <1>3 DEF PairInv, Workers
      <4> QED
        BY <1>2, <1>3, <2>1, <3>1, <3>2, <3>3, <4>1 DEF PairInv
    <3>6. PrepareInv'
      BY <3>1 DEF PrepareInv, Preparing
    <3> QED
      BY <3>4, <3>5, <3>6
  <2>3. CASE cf # 0
    <3>1. Return(w) /\ cf' = cf
      BY <1>7, <2>3 DEF CreateTunnel
    <3>2. ~Preparing(w)
      BY <2>1, <2>3 DEF Preparing
    <3> QED
      BY <1>1, <1>3, <2>1, <3>1, <3>2, ReturnStep
  <2> QED
    BY <2>2, <2>3
<1>8. CASE CreateSecret(w)
  <2>1. /\ at[w] = "secret" /\ secret = 0 /\ id[w] = cf /\ cf # 0
        /\ at'[w] = "get" /\ id'[w] = cf /\ secret' = cf
        /\ UNCHANGED <<cf, cmId, feed, fresh, event, passes, replay>>
    BY <1>8 DEF CreateSecret, CallsInv, Goto, TypeOK, outside
  <2>2. at[v] # "secret"
    BY <1>1, <1>2, <2>1 DEF OwnerInv, Owning, Workers
  <2>3. CallsInv'
    BY <1>1, <1>2, <2>1, <2>2 DEF CallsInv, Workers, OwnerInv, Owning
  <2>4. PairInv'
    BY <1>2, <1>3, <2>1 DEF PairInv
  <2>5. PrepareInv'
    BY <2>1 DEF PrepareInv, Preparing
  <2> QED
    BY <2>3, <2>4, <2>5
<1>9. CASE FindForDelete(w)
  <2>1. /\ w = "watch" /\ event = "deleted" /\ ~replay /\ at[w] = "idle"
        /\ at'[w] = (IF cf = 0 THEN "drop" ELSE "delete") /\ id'[w] = cf
        /\ UNCHANGED <<cf, secret, cmId, feed, fresh, event, passes, replay>>
    <3>1. at[w] = "idle" /\ Deleting(w)
      BY <1>9 DEF FindForDelete, CallsInv
    <3>2. ~replay
      <4>1. overlap' = (overlap \/ (Deleting(w) /\ replay)) /\ overlap' = FALSE
        BY <1>9 DEF FindForDelete, Calm
      <4> QED
        BY <3>1, <4>1, Zenon
    <3> QED
      BY <1>9, <3>1, <3>2 DEF FindForDelete, Deleting, Goto, TypeOK, outside
  <2>2. passes = 1 => cf = 0
    BY <2>1 DEF PairInv
  <2>3. passes \in 1 .. 2
    BY <2>1 DEF TypeOK
  <2>4. CallsInv'
    BY <1>2, <2>1, <2>2, <2>3 DEF CallsInv, Workers
  <2>5. PairInv'
    BY <1>2, <1>3, <2>1 DEF PairInv
  <2>6. PrepareInv'
    BY <1>3, <2>1 DEF PrepareInv, FeedInv
  <2> QED
    BY <2>4, <2>5, <2>6
<1>10. CASE DeleteTunnel(w)
  <2>1. /\ at[w] = "delete" /\ w = "watch" /\ event = "deleted" /\ passes = 2 /\ ~replay
        /\ cf = id[w] /\ cf # 0
    BY <1>1, <1>3, <1>10 DEF DeleteTunnel, CallsInv, OwnerInv, Owning, Workers
  <2>2. /\ cf' = 0 /\ at'[w] = "idle" /\ event' = "deleted" /\ passes' = 1 /\ ~replay'
        /\ UNCHANGED <<secret, cmId, feed, fresh>>
    BY <1>10, <2>1 DEF DeleteTunnel, Return, TypeOK, outside
  <2>3. at[v] = "idle" /\ v = "register"
    BY <1>1, <1>2, <2>1 DEF ControlInv, Workers
  <2>4. CallsInv'
    BY <1>2, <2>1, <2>2, <2>3 DEF CallsInv
  <2>5. PairInv'
    BY <1>2, <1>3, <2>2 DEF PairInv
  <2>6. PrepareInv'
    BY <1>3, <2>1, <2>2 DEF PrepareInv, FeedInv
  <2> QED
    BY <2>4, <2>5, <2>6
<1>11. CASE DeleteSecret(w)
  <2>1. /\ at[w] = "drop" /\ w = "watch" /\ event = "deleted" /\ ~replay /\ cf = 0
    BY <1>1, <1>3, <1>11 DEF DeleteSecret, CallsInv, OwnerInv, Workers
  <2>2. /\ secret' = 0 /\ at'[w] = "idle" /\ event' \in {"deleted", "none"} /\ ~replay'
        /\ UNCHANGED <<cf, cmId, feed, fresh>>
    BY <1>11, <2>1 DEF DeleteSecret, Return, TypeOK, outside
  <2>3. at[v] = "idle" /\ v = "register"
    BY <1>1, <1>2, <2>1 DEF ControlInv, Workers
  <2>4. CallsInv'
    BY <1>2, <2>1, <2>2, <2>3 DEF CallsInv
  <2>5. PairInv'
    BY <1>2, <1>3, <2>1, <2>2 DEF PairInv
  <2>6. PrepareInv'
    BY <1>3, <2>1, <2>2 DEF PrepareInv, FeedInv
  <2> QED
    BY <2>4, <2>5, <2>6
<1>12. CASE ReadCm(w)
  <2>1. at[w] = "get" /\ id[w] = cf /\ cf # 0 /\ UNCHANGED <<cf, secret, cmId, feed>>
    BY <1>12 DEF ReadCm, CallsInv, outside
  <2>2. CASE cmThere
    <3>1. /\ at'[w] = "put" /\ id'[w] = cf /\ fresh' = fresh \cup {w}
          /\ UNCHANGED <<event, passes, replay>>
      BY <1>12, <2>1, <2>2 DEF ReadCm, Goto, TypeOK
    <3>2. CallsInv'
      BY <1>2, <2>1, <3>1 DEF CallsInv, Workers
    <3>3. PairInv'
      BY <1>2, <1>3, <2>1, <3>1 DEF PairInv
    <3>4. PrepareInv'
      BY <3>1 DEF PrepareInv, Preparing
    <3> QED
      BY <3>2, <3>3, <3>4
  <2>3. CASE ~cmThere
    <3>1. Return(w) /\ fresh' = fresh
      BY <1>12, <2>3 DEF ReadCm
    <3> QED
      BY <1>1, <1>3, <2>1, <2>3, <3>1, ReturnStep
  <2> QED
    BY <2>2, <2>3
<1>13. CASE WriteCm(w)
  <2>1. at[w] = "put" /\ id[w] = cf /\ cf # 0 /\ Return(w) /\ UNCHANGED <<cf, secret>>
    BY <1>13 DEF WriteCm, CallsInv
  <2>2. CASE w \in fresh /\ cmId # id[w]
    <3>1. feed' # <<>>
      <4>1. feed' = Append(feed, "upsert") /\ feed \in Seq({"upsert", "deleted"})
        BY <1>13, <2>2 DEF WriteCm, TypeOK
      <4> QED
        BY <4>1, FeedEnd
    <3>2. /\ at'[w] = "idle"
          /\ w = "watch" => replay' = replay /\ event = "upsert" /\ event' \in {"upsert", "none"}
          /\ w = "register" => replay /\ ~replay' /\ event' = event /\ passes' = passes
      BY <1>3, <2>1 DEF Return, TypeOK, CallsInv
    <3>3. CallsInv'
      BY <1>2, <2>1, <3>2 DEF CallsInv, Workers
    <3>4. PairInv'
      BY <1>2, <1>3, <2>1, <3>1, <3>2 DEF PairInv, Workers
    <3>5. PrepareInv'
      BY <3>1 DEF PrepareInv
    <3> QED
      BY <3>3, <3>4, <3>5
  <2>3. CASE ~ (w \in fresh /\ cmId # id[w])
    <3>1. UNCHANGED <<cmId, feed>> /\ fresh' = fresh \ {w}
      BY <1>13, <2>3 DEF WriteCm
    <3>2. Prepared \/ ~Preparing(w)
      BY <1>1, <2>1, <2>3 DEF Prepared, Preparing, SecretInv
    <3> QED
      BY <1>1, <1>3, <2>1, <3>1, <3>2, ReturnStep
  <2> QED
    BY <2>2, <2>3
<1>14. ~CallFails(w) /\ ~CreateSecretFails(w)
  BY <1>1 DEF CallFails, CreateSecretFails
<1> QED
  BY <1>5, <1>6, <1>7, <1>8, <1>9, <1>10, <1>11, <1>12, <1>13, <1>14 DEF Handle

(* Steps outside the handler.                                              *)
LEMMA CalmOutsideStep ==
    ASSUME TypeOK, TunnelInv, Calm, FeedInv, CallsInv, PairInv, PrepareInv, Calm',
           \/ SourceCreates \/ SourceUpdates \/ UserDeletes
           \/ ObserveUpsert \/ ObserveDelete \/ Lead \/ Follow
    PROVE  CallsInv' /\ PairInv' /\ PrepareInv'
<1>1. OwnerInv /\ SecretInv /\ ControlInv
  BY DEF TunnelInv, Calm
<1>2. feed \in Seq({"upsert", "deleted"})
  BY DEF TypeOK
<1>3. CASE SourceCreates \/ SourceUpdates \/ UserDeletes
  <2>1. PICK e \in {"upsert", "deleted"} : CmChanges(e)
    BY <1>3 DEF SourceCreates, SourceUpdates, UserDeletes
  <2>2. feed' # <<>>
    BY <1>2, <2>1, FeedEnd DEF CmChanges
  <2>3. UNCHANGED <<cf, secret, leading, event, passes, replay, at, id>>
    BY <2>1 DEF CmChanges, control
  <2> QED
    BY <2>2, <2>3 DEF CallsInv, PairInv, PrepareInv
<1>4. CASE ObserveUpsert \/ ObserveDelete
  <2>1. /\ feed # <<>> /\ feed' = Tail(feed) /\ event = "none"
        /\ event' = Head(feed) /\ event' \in {"upsert", "deleted"}
        /\ cached => (event' = "deleted" => passes' = 2)
        /\ UNCHANGED <<cf, secret, cmThere, cmId, leading, replay, at, id, fresh>>
    BY <1>4 DEF ObserveUpsert, ObserveDelete, control
  <2>2. /\ Head(feed) = feed[1]
        /\ Tail(feed) = <<>> => feed[Len(feed)] = Head(feed)
    BY <1>2, <2>1, FeedTaken
  <2>3. event' = "deleted" => passes' = 2
    BY <2>1, <2>2 DEF FeedInv
  <2>4. at["watch"] = "idle" /\ "watch" \in Workers
    BY <1>1, <2>1 DEF ControlInv, Workers
  <2>5. CallsInv'
    BY <2>1, <2>4 DEF CallsInv
  <2>6. PairInv'
    BY <2>1, <2>3 DEF PairInv
  <2>7. PrepareInv'
    <3> SUFFICES ASSUME leading', cmThere', feed' = <<>> PROVE Preparing("watch")'
      BY <2>4 DEF PrepareInv
    <3>1. event' = "upsert"
      BY <2>1, <2>2 DEF FeedInv
    <3> QED
      BY <2>1, <2>4, <3>1 DEF Preparing, Upserting
  <2> QED
    BY <2>5, <2>6, <2>7
<1>5. CASE Lead
  <2>1. /\ ~leading /\ leading' /\ replay' = cached
        /\ UNCHANGED <<cf, secret, cmThere, cmId, feed, event, passes, at, id, fresh>>
    BY <1>5 DEF Lead, outside
  <2>2. ~ (cached /\ (event = "deleted" \/ ~cmThere))
    BY <1>5 DEF Lead, Calm
  <2>3. at["watch"] = "idle" /\ at["register"] = "idle" /\ "register" \in Workers
    BY <1>1, <2>1 DEF ControlInv, Workers
  <2>4. CallsInv'
    BY <2>1, <2>3 DEF CallsInv, Workers
  <2>5. PairInv'
    BY <2>1, <2>2 DEF PairInv
  <2>6. PrepareInv'
    <3> SUFFICES ASSUME leading', cmThere', feed' = <<>> PROVE Preparing("register")'
      BY <2>3 DEF PrepareInv
    <3>1. cached
      BY <2>1 DEF FeedInv
    <3> QED
      BY <2>1, <2>3, <3>1 DEF Preparing, Upserting
  <2> QED
    BY <2>4, <2>5, <2>6
<1>6. CASE Follow
  <2>1. /\ ~leading /\ ~leading' /\ ~replay /\ event # "none"
        /\ UNCHANGED <<cf, secret, cmThere, feed, replay>>
    BY <1>1, <1>6 DEF Follow, Return, control, outside, ControlInv
  <2>2. /\ at["watch"] = "idle" /\ at["register"] = "idle"
        /\ \A w \in Workers : at'[w] = "idle"
    BY <1>1, <1>6, <2>1 DEF Follow, Return, ControlInv, Workers, TypeOK
  <2>3. CallsInv'
    BY <2>2 DEF CallsInv, Workers
  <2>4. PairInv'
    BY <2>1 DEF PairInv
  <2>5. PrepareInv'
    BY <2>1 DEF PrepareInv
  <2> QED
    BY <2>3, <2>4, <2>5
<1> QED
  BY <1>3, <1>4, <1>5, <1>6

LEMMA CalmInitially == Init => CalmInv
<1> SUFFICES ASSUME Init PROVE FeedInv /\ CallsInv /\ PairInv /\ PrepareInv
  BY DEF CalmInv
<1>1. FeedInv
  BY DEF Init, FeedInv
<1>2. CallsInv
  BY DEF Init, CallsInv, Workers
<1>3. PairInv /\ PrepareInv
  BY DEF Init, PairInv, PrepareInv
<1> QED
  BY <1>1, <1>2, <1>3

(* While nothing fails, every event finds the tunnel and the Secret as the *)
(* last one left them.                                                     *)
THEOREM CalmInvariant == Spec => []CalmInv
<1>1. TypeOK /\ TunnelInv /\ CalmInv /\ [Next]_vars => CalmInv'
  <2> SUFFICES ASSUME TypeOK, TunnelInv, CalmInv, [Next]_vars PROVE CalmInv'
    OBVIOUS
  <2>1. CASE UNCHANGED vars
    BY <2>1 DEF vars, CalmInv, Calm, FeedInv, CallsInv, PairInv, PrepareInv, Prepared,
       Preparing, Upserting
  <2>2. CASE Next
    <3> SUFFICES ASSUME Calm' PROVE FeedInv' /\ CallsInv' /\ PairInv' /\ PrepareInv'
      BY DEF CalmInv
    <3>1. Calm /\ UNCHANGED <<failed, overlap>> /\ ~Crash
      BY <2>2, CalmBefore
    <3>2. FeedInv /\ CallsInv /\ PairInv /\ PrepareInv /\ ControlInv
      BY <3>1 DEF CalmInv, TunnelInv
    <3>3. FeedInv'
      BY <2>2, <3>1, <3>2, FeedInvStep
    <3>4. CASE \E w \in Workers : Handle(w)
      BY <3>1, <3>2, <3>3, <3>4, CalmHandleStep
    <3>5. CASE ~ \E w \in Workers : Handle(w)
      BY <2>2, <3>1, <3>2, <3>3, <3>5, CalmOutsideStep DEF Next
    <3> QED
      BY <3>4, <3>5
  <2> QED
    BY <2>1, <2>2
<1> QED
  BY <1>1, CalmInitially, TunnelInvariant, PTL DEF Spec

(* When no call failed, what is left of any sequence of changes, once the  *)
(* leader's handler has nothing more to do, is a ConfigMap that names the  *)
(* living tunnel, and the Secret of that tunnel.                           *)
THEOREM RestIsPrepared == Spec => []PreparedAtRest
<1>1. TunnelInv /\ CalmInv => PreparedAtRest
  <2> SUFFICES ASSUME TunnelInv, CalmInv, Quiet, leading, cmThere, ~failed, ~overlap
               PROVE  Prepared
    BY DEF PreparedAtRest, Prepared
  <2>1. ControlInv /\ PrepareInv
    BY DEF TunnelInv, CalmInv, Calm
  <2>2. \A w \in Workers : at[w] = "idle" /\ ~Upserting(w)
    BY <2>1 DEF ControlInv, Quiet, Workers, Upserting
  <2> QED
    BY <2>1, <2>2 DEF PrepareInv, Preparing, Quiet
<1> QED
  BY <1>1, TunnelInvariant, CalmInvariant, PTL

(* When no call failed, nothing is left of a ConfigMap that was deleted.   *)
THEOREM DeletedIsGone == Spec => []DeletedLeavesNothing
<1>1. CalmInv => DeletedLeavesNothing
  BY DEF CalmInv, Calm, PairInv, DeletedLeavesNothing, Quiet
<1> QED
  BY <1>1, CalmInvariant, PTL
=============================================================================
