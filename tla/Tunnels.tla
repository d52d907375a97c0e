------------------------------ MODULE Tunnels ------------------------------
(***************************************************************************)
(* controller/cloudflared/prepare_tunnel.go and k8s_data/secrets.go: the   *)
(* life of one tunnel.  A tunnel exists at Cloudflare; its credentials are *)
(* in a Kubernetes Secret; its id is in the annotations of its ConfigMap.  *)
(* The handler of the ConfigMap's events keeps the three together with one *)
(* API call after another, any of which may fail.                          *)
(*                                                                         *)
(* The handler runs in the goroutine of the ConfigMap watcher, once or     *)
(* twice for each event, and, when the controller becomes the leader, in   *)
(* the goroutine that registers it.  What else these two do to the         *)
(* ConfigMap is in TunnelConfigMaps.                                       *)
(***************************************************************************)
EXTENDS Integers, Sequences

CONSTANTS
    MaxChanges,     \* bound: how often the ConfigMap is made, changed, deleted
    MaxTunnels,     \* bound: how many tunnels are ever created
    MaxCrashes,     \* bound: how often the controller is restarted
    ApiMayFail      \* whether calls to Kubernetes and Cloudflare can fail

ASSUME BoundAssumption == /\ {MaxChanges, MaxTunnels, MaxCrashes} \subseteq Nat
                          /\ ApiMayFail \in BOOLEAN

Workers == {"watch", "register"}
Ids     == 1 .. MaxTunnels

VARIABLES
    cf,         \* Cloudflare: the id of the tunnel that has the name, or 0
    created,    \* how many tunnels have been created
    secret,     \* the id the Secret holds, 0 if there is no Secret
    cmThere,    \* whether the ConfigMap exists
    cmId,       \* the id in its annotations, or 0
    feed,       \* its events the watcher has not taken yet
    changes,    \* how often it was made, changed or deleted
    cached,     \* whether tcm.cms has an object for it
    event,      \* the event the watcher is working on, or "none"
    passes,     \* how often it still has to hand it to the handler
    leading,    \* whether the handler is registered
    replay,     \* whether Register still has to hand over the cached object
    at,         \* the API call a worker makes next, "idle" outside the handler
    id,         \* the tunnel it works with
    fresh,      \* the workers whose copy of the ConfigMap is current
    crashes,    \* how often the controller was restarted
    failed,     \* whether a call failed or the controller was restarted
    overlap     \* whether a Deleted event met the replay of Register

outside == <<cmThere, cmId, feed, changes>>
control == <<cached, leading, crashes, overlap>>
vars    == <<cf, created, secret, cmThere, cmId, feed, changes, cached, event, passes,
             leading, replay, at, id, fresh, crashes, failed, overlap>>

Init ==
    /\ cf = 0 /\ created = 0 /\ secret = 0
    /\ cmThere = FALSE /\ cmId = 0
    /\ feed = <<>>
    /\ changes = 0
    /\ cached = FALSE
    /\ event = "none" /\ passes = 0
    /\ leading \in BOOLEAN
    /\ replay = FALSE
    /\ at = [w \in Workers |-> "idle"]
    /\ id = [w \in Workers |-> 0]
    /\ fresh = {}
    /\ crashes = 0
    /\ failed = FALSE
    /\ overlap = FALSE

Quiet == feed = <<>> /\ event = "none" /\ ~replay
-----------------------------------------------------------------------------
(***************************************************************************)
(* The ConfigMap, as sources and users treat it.                           *)
(***************************************************************************)
CmChanges(type) ==
    /\ changes < MaxChanges
    /\ changes' = changes + 1
    /\ feed' = Append(feed, type)
    /\ fresh' = {}
    /\ UNCHANGED <<cf, created, secret, control, event, passes, replay, at, id, failed>>

SourceCreates ==
    /\ ~cmThere
    /\ cmThere' = TRUE
    /\ CmChanges("upsert")
    /\ UNCHANGED cmId

SourceUpdates ==
    /\ cmThere
    /\ CmChanges("upsert")
    /\ UNCHANGED <<cmThere, cmId>>

UserDeletes ==
    /\ cmThere
    /\ cmThere' = FALSE
    /\ cmId' = 0
    /\ CmChanges("deleted")
-----------------------------------------------------------------------------
(***************************************************************************)
(* The watcher takes an event, Register takes the cached object.           *)
(***************************************************************************)
(* Variant: a Deleted event is handed over once, as by the callback alone. *)
ObserveDelete_Once ==
    /\ event = "none" /\ feed # <<>> /\ Head(feed) = "deleted"
    /\ event' = "deleted"
    /\ passes' = 1
    /\ feed' = Tail(feed)
    /\ UNCHANGED <<cf, created, secret, cmThere, cmId, changes, control, replay, at, id,
                   fresh, failed>>

(* delete() fires for what the cache holds (and goes on holding), then the *)
(* callback calls the handlers itself.                                     *)
ObserveDelete ==
    /\ event = "none" /\ feed # <<>> /\ Head(feed) = "deleted"
    /\ event' = "deleted"
    /\ passes' = IF cached THEN 2 ELSE 1
    /\ feed' = Tail(feed)
    /\ UNCHANGED <<cf, created, secret, cmThere, cmId, changes, control, replay, at, id,
                   fresh, failed>>

(* An object that is cached already may have the same content, and is then *)
(* handed over only once.                                                  *)
ObserveUpsert ==
    /\ event = "none" /\ feed # <<>> /\ Head(feed) = "upsert"
    /\ event' = "upsert"
    /\ passes' \in (IF cached THEN {1, 2} ELSE {2})
    /\ cached' = TRUE
    /\ feed' = Tail(feed)
    /\ UNCHANGED <<cf, created, secret, cmThere, cmId, changes, leading, crashes, overlap,
                   replay, at, id, fresh, failed>>

Lead ==
    /\ ~leading
    /\ leading' = TRUE
    /\ replay' = cached
    /\ overlap' = (overlap \/ (cached /\ (event = "deleted" \/ ~cmThere)))
    /\ UNCHANGED <<cf, created, secret, outside, cached, event, passes, at, id, fresh,
                   crashes, failed>>

(* Variant: the watcher calls once more than it has handlers.              *)
Return_Late(w) ==
    /\ at' = [at EXCEPT ![w] = "idle"]
    /\ id' = [id EXCEPT ![w] = 0]
    /\ IF w = "watch"
       THEN /\ passes' = passes - 1
            /\ event' = IF passes = 0 THEN "none" ELSE event
            /\ UNCHANGED replay
       ELSE /\ replay' = FALSE
            /\ UNCHANGED <<event, passes>>

(* The handler returns: to the watcher or to Register.                     *)
Return(w) ==
    /\ at' = [at EXCEPT ![w] = "idle"]
    /\ id' = [id EXCEPT ![w] = 0]
    /\ IF w = "watch"
       THEN /\ passes' = passes - 1
            /\ event' = IF passes = 1 THEN "none" ELSE event
            /\ UNCHANGED replay
       ELSE /\ replay' = FALSE
            /\ UNCHANGED <<event, passes>>

Follow ==
    /\ event # "none" /\ ~leading
    /\ Return("watch")
    /\ UNCHANGED <<cf, created, secret, outside, control, fresh, failed>>

Goto(w, call, i) ==
    /\ at' = [at EXCEPT ![w] = call]
    /\ id' = [id EXCEPT ![w] = i]
    /\ UNCHANGED <<event, passes, replay>>

(* The handler is called for an Added or Modified, or for a Deleted event. *)
Upserting(w) == IF w = "watch" THEN leading /\ event = "upsert" ELSE replay
Deleting(w)  == w = "watch" /\ leading /\ event = "deleted"
-----------------------------------------------------------------------------
(***************************************************************************)
(* validateCFTunnel and createCFTunnel.                                    *)
(***************************************************************************)
FindTunnel(w) ==
    /\ at[w] = "idle" /\ Upserting(w)
    /\ Goto(w, IF cf = 0 THEN "create" ELSE "fetch", cf)
    /\ UNCHANGED <<cf, created, secret, outside, control, fresh, failed>>

FetchSecret(w) ==
    /\ at[w] = "fetch"
    /\ IF secret = id[w] THEN Goto(w, "get", id[w]) ELSE Return(w)
    /\ UNCHANGED <<cf, created, secret, outside, control, fresh, failed>>

(* Cloudflare refuses a name that is taken.                                *)
CreateTunnel(w) ==
    /\ at[w] = "create"
    /\ IF cf = 0
       THEN /\ created < MaxTunnels
            /\ created' = created + 1
            /\ cf' = created + 1
            /\ Goto(w, "secret", created + 1)
       ELSE /\ UNCHANGED <<cf, created>>
            /\ Return(w)
    /\ UNCHANGED <<secret, outside, control, fresh, failed>>

(* CreateSecret looks for a Secret with the name of the ConfigMap, finds   *)
(* none, and so creates the Secret, which fails if it exists.              *)
CreateSecret(w) ==
    /\ at[w] = "secret"
    /\ IF secret = 0
       THEN secret' = id[w] /\ Goto(w, "get", id[w])
       ELSE UNCHANGED secret /\ Goto(w, "undo", id[w])
    /\ UNCHANGED <<cf, created, outside, control, fresh, failed>>

(* Variant: the tunnel stays.                                              *)
CreateSecretFails_KeepsTunnel(w) ==
    /\ ApiMayFail
    /\ at[w] = "secret"
    /\ Goto(w, "get", id[w])
    /\ failed' = TRUE
    /\ UNCHANGED <<cf, created, secret, outside, control, fresh>>

CreateSecretFails(w) ==
    /\ ApiMayFail
    /\ at[w] = "secret"
    /\ Goto(w, "undo", id[w])
    /\ failed' = TRUE
    /\ UNCHANGED <<cf, created, secret, outside, control, fresh>>
-----------------------------------------------------------------------------
(***************************************************************************)
(* deleteCFTunnel, for a Deleted event and to undo a creation.  The Secret *)
(* is deleted only when no tunnel is found: by the second pass.            *)
(***************************************************************************)
FindForDelete(w) ==
    /\ at[w] = "undo" \/ (at[w] = "idle" /\ Deleting(w))
    /\ Goto(w, IF cf = 0 THEN "drop" ELSE "delete", cf)
    /\ overlap' = (overlap \/ (Deleting(w) /\ replay))
    /\ UNCHANGED <<cf, created, secret, outside, cached, leading, crashes, fresh, failed>>

DeleteTunnel(w) ==
    /\ at[w] = "delete"
    /\ cf' = IF cf = id[w] THEN 0 ELSE cf
    /\ Return(w)
    /\ UNCHANGED <<created, secret, outside, control, fresh, failed>>

DeleteSecret(w) ==
    /\ at[w] = "drop"
    /\ secret' = 0
    /\ Return(w)
    /\ UNCHANGED <<cf, created, outside, control, fresh, failed>>
-----------------------------------------------------------------------------
(***************************************************************************)
(* updateCFTunnel: the id is written to the ConfigMap, if it is there and  *)
(* was not changed since it was read.                                      *)
(***************************************************************************)
ReadCm(w) ==
    /\ at[w] = "get"
    /\ IF cmThere
       THEN fresh' = fresh \cup {w} /\ Goto(w, "put", id[w])
       ELSE UNCHANGED fresh /\ Return(w)
    /\ UNCHANGED <<cf, created, secret, outside, control, failed>>

(* Variant: an id that is there already is not replaced.                   *)
WriteCm_First(w) ==
    /\ at[w] = "put"
    /\ IF w \in fresh /\ cmId = 0
       THEN /\ cmId' = id[w]
            /\ feed' = Append(feed, "upsert")
            /\ fresh' = {}
       ELSE /\ fresh' = fresh \ {w}
            /\ UNCHANGED <<cmId, feed>>
    /\ Return(w)
    /\ UNCHANGED <<cf, created, secret, cmThere, changes, control, failed>>

WriteCm(w) ==
    /\ at[w] = "put"
    /\ IF w \in fresh /\ cmId # id[w]
       THEN /\ cmId' = id[w]
            /\ feed' = Append(feed, "upsert")
            /\ fresh' = {}
       ELSE /\ fresh' = fresh \ {w}
            /\ UNCHANGED <<cmId, feed>>
    /\ Return(w)
    /\ UNCHANGED <<cf, created, secret, cmThere, changes, control, failed>>

(* Any other call that fails ends the handler; nothing is tried again.     *)
CallFails(w) ==
    /\ ApiMayFail
    /\ at[w] \notin {"idle", "secret"} \/ (at[w] = "idle" /\ (Upserting(w) \/ Deleting(w)))
    /\ failed' = TRUE
    /\ fresh' = fresh \ {w}
    /\ Return(w)
    /\ UNCHANGED <<cf, created, secret, outside, control>>

Handle(w) ==
    \/ FindTunnel(w) \/ FetchSecret(w) \/ CreateTunnel(w) \/ CreateSecret(w)
    \/ CreateSecretFails(w) \/ FindForDelete(w) \/ DeleteTunnel(w) \/ DeleteSecret(w)
    \/ ReadCm(w) \/ WriteCm(w) \/ CallFails(w)
-----------------------------------------------------------------------------
(* The process ends between any two calls; the next one starts with an     *)
(* empty cache and hears of what exists.                                   *)
Crash ==
    /\ crashes < MaxCrashes
    /\ crashes' = crashes + 1
    /\ failed' = TRUE
    /\ feed' = IF cmThere THEN <<"upsert">> ELSE <<>>
    /\ cached' = FALSE
    /\ event' = "none" /\ passes' = 0
    /\ leading' = FALSE /\ replay' = FALSE
    /\ at' = [w \in Workers |-> "idle"]
    /\ id' = [w \in Workers |-> 0]
    /\ fresh' = {}
    /\ UNCHANGED <<cf, created, secret, cmThere, cmId, changes, overlap>>

Next == \/ SourceCreates \/ SourceUpdates \/ UserDeletes
        \/ ObserveUpsert \/ ObserveDelete \/ Lead \/ Follow
        \/ \E w \in Workers : Handle(w)
        \/ Crash

Spec == Init /\ [][Next]_vars
-----------------------------------------------------------------------------
TypeOK ==
    /\ cf \in {0} \cup Ids /\ created \in 0 .. MaxTunnels /\ secret \in {0} \cup Ids
    /\ cmThere \in BOOLEAN /\ cmId \in {0} \cup Ids
    /\ feed \in Seq({"upsert", "deleted"})
    /\ changes \in 0 .. MaxChanges
    /\ event \in {"none", "upsert", "deleted"}
    /\ passes \in 0 .. 2
    /\ event = "none" <=> passes = 0
    /\ at \in [Workers -> {"idle", "fetch", "create", "secret", "undo", "delete", "drop",
                           "get", "put"}]
    /\ id \in [Workers -> {0} \cup Ids]
    /\ fresh \subseteq Workers
    /\ {cached, leading, replay, failed, overlap} \subseteq BOOLEAN
    /\ crashes \in 0 .. MaxCrashes

(***************************************************************************)
(* What a reader of the ConfigMap (the runner) relies on.                  *)
(***************************************************************************)
(* The id of a living tunnel is in the ConfigMap only together with its    *)
(* Secret: whichever call fails, and wherever the controller is restarted, *)
(* a tunnel whose credentials were lost is never handed to the runner.     *)
IdHasSecret == ~overlap /\ cmThere /\ cmId # 0 /\ cf = cmId => secret = cmId

(* If no call fails, what is left in the end of any sequence of changes is *)
(* a ConfigMap that names the living tunnel and a Secret for it.           *)
PreparedAtRest ==
    Quiet /\ leading /\ cmThere /\ ~failed /\ ~overlap =>
        cf # 0 /\ cmId = cf /\ secret = cf

(* A ConfigMap that was deleted leaves neither a tunnel nor a Secret.      *)
DeletedLeavesNothing ==
    Quiet /\ leading /\ ~cmThere /\ ~failed /\ ~overlap => cf = 0 /\ secret = 0
=============================================================================
