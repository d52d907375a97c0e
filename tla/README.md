# A TLA+ model of cloudflared-controller

The controller watches Services and Ingresses of a Kubernetes cluster, turns
their annotations into rules, keeps the rules of a tunnel together in one
ConfigMap, creates the tunnel at Cloudflare, and runs one `cloudflared` process
per tunnel. Every part runs in goroutines of its own; they meet in shared maps,
in the API server and in the file system. This directory holds TLA+ models of
the parts, the configurations TLC checks them with, and proofs checked by TLAPS.

All paths below are relative to `src/`.

## 1. Inventory

| Component | State | Operations | Modelled by |
|---|---|---|---|
| Watcher (`controller/watcher/watcher.go`) | `w.state` (uid to object), `w.wif` (the watch), `w.watchState`, `w.bindings`, `w.restartCount` | `Start`, `Stop`, `RegisterEvent` and its unregister function, `GetState`, the goroutine that reads events and opens watches again | `Watcher` |
| Tunnel ConfigMaps (`controller/k8s_data/tunnel_config_maps.go`) | `tcm.cms` (the cache), `tcm.fns` (handlers), `tcm.watchers`, one mutex per kind, namespace and name | `UpsertConfigMap`, `RemoveConfigMap`, `Register`, `Get`, the callback of the ConfigMap watcher with `upsert`, `delete` and `fireEvents` | `TunnelConfigMaps` |
| Preparing a tunnel (`controller/cloudflared/prepare_tunnel.go`, `k8s_data/secrets.go`) | the tunnel at Cloudflare, its secret, the tunnel's id in the ConfigMap's annotations | `ConfigMapHandlerPrepareCloudflared`: find or create the tunnel, read or create the secret, write the id back; delete the tunnel | `Tunnels`; what the write-back does to rules in `TunnelConfigMaps` |
| Tunnel runner (`controller/cloudflared/cloudflared.go`) | `Tunnel.ri`, a `runningInstance` per start, its command and process, its directory | `TunnelRunner.Start`, `Stop`, `runningInstance.Stop`, the goroutine that waits for each process | `TunnelRunner` |
| Shutdown (`controller/controller.go`, `main.go`) | `shutdownFns` | `RegisterShutdown`, `Shutdown` on SIGINT | `TunnelRunner` |
| Services, Ingresses (`controller/svc/svc.go`, `controller/ingress/ingress.go`) | one watcher per namespace | each event becomes an upsert or a removal of that object's rules | `Sources` (what a callback makes of an object), `Namespaces` (which watchers run), `TunnelConfigMaps` (how the updates interleave) |
| Namespaces (`k8s_data/config_map_watcher.go`, the namespace callbacks of svc and ingress) | which namespaces have a watcher | start and stop a watcher when a namespace comes and goes | `Namespaces` |
| Leader loop (`main.go:129-168`, `controller/leader/leader.go`) | `runningLeaders` | start the leader's parts, stop them, elect again | `Namespaces` |
| Cloudflare clients (`controller/rest_clients.go`, `getZones`) | `cfs`, clients by zone | look up or make the client of a domain | not modelled (section 5) |
| Mapping (`utils/parse-mapping.go`, `unique_tunnel_name.go`) | none | from annotations to rules and names | `Mapping`; what it means: `RuleBook` |

`PROJECT.json` also lists the parts that are left out for good (flags, type
adapters, logging, the generator of custom resource definitions, the experiment
in `sync_acess_app.go`).

### How they interact

* The API server is shared by everything. A watch delivers its events on a
  channel; the server or the network may end it at any time. An update that
  carries an old resourceVersion is refused.
* A Watcher calls its callbacks in its own goroutine, after it has released its
  locks. `RegisterEvent` calls the new callback in the caller's goroutine with a
  snapshot of the map, so two goroutines may be in one callback.
* Sources (goroutines of Service and Ingress watchers) write ConfigMaps. The
  ConfigMap watcher caches them and calls the handlers: on every controller the
  one that runs `cloudflared`, on the leader also the one that prepares tunnels.
  That one writes the same ConfigMap, which makes the next event.
* `Get` hands out pointers to the cached objects. `RemoveConfigMap` and the
  replay of `Register` change them in place.
* A running instance is stopped by the watcher's goroutine, by the goroutine
  that waits for its process, and by the one that handles SIGINT.
* `fnsLock` is held while the handlers of a ConfigMap are called for a change; other
  watchers of ConfigMaps, `Register` and `unregister` wait for it, and with the last one
  the leader loop. A handler may wait for `getZones`, which need not return.

### What is hard

The hazards are listed one by one, with their lines, in `PROJECT.json`. They are
of five kinds: a watch that ends with events on their way (ordering, ghosts,
`Stop` against restart); read-merge-write of ConfigMaps by several writers, from
copies of several ages; cached objects changed in place; stages of `Stop` run
by several goroutines at once; and calls that fail half way, or never return.

## 2. The modules

| Module | What it is |
|---|---|
| `Watcher` | one Watcher, the API server, the owner, the registering callers |
| `MCWatcher` | its small instances |
| `Mirror` | abstract: what a watcher promises to its callbacks; implemented by `Watcher` |
| `WatcherProofs` | type correctness, all safety properties and the refinement, proved |
| `TunnelConfigMaps` | the ConfigMaps on the server and in the cache, sources, watcher, write-back |
| `MCTunnelConfigMaps` | its small instances |
| `TunnelConfigMapsProofs` | type correctness and five safety properties, proved |
| `TunnelRunner` | instances, directories, processes, SIGINT |
| `MCTunnelRunner` | its small instances |
| `TunnelRunnerProofs` | type correctness and all five safety properties, and who holds the mutexes, proved |
| `Tunnels` | one tunnel at Cloudflare, its Secret, its id in the ConfigMap |
| `TunnelsProofs` | type correctness and all three safety properties, proved |
| `Namespaces` | the handlers of namespaces, their locks and watchers, the leader loop |
| `MCNamespaces` | its small instances |
| `NamespacesProofs` | type correctness and the five invariants, proved |
| `Mapping` | the parsers of annotations and the naming functions |
| `Sources` | the callbacks that turn a Service or an Ingress into rules |
| `RuleBook` | abstract: what the authors of the annotations are promised; implemented by `Sources` |
| `MCSources` | a small instance: the forms of objects and of entries |
| `SourcesProofs` | keys are pages, and the refinement, proved up to the lists of rules |
| `EntriesProofs` | what the three parsers read in an entry is what its author means, proved |

Definitions whose name has a suffix (`Kept_AddedOnly`, `UpsertLock_Ignored`,
...) are variants: the same step with a plausible bug. No specification uses
them. `PROJECT.json` pairs each checked property with a variant that breaks it.

The inductive invariants are at the head of the module that proves them, since no model
needs them; `SyncInv` is in `Watcher`, because a run checks it.

### Watcher

A goroutine is a variable that says where it is: `owner` (the one that calls
`Start` and `Stop`), `loop` (the one `Start` launches) and `reg[b]` (the caller
that registers callback `b`). `chan` is the channel of the watch that `w.wif`
holds; `store` is the collection on the server. An object's content is its
version. `view[b][u]` is a history variable, what `b` was last told of `u`.

A step is what the code does between two places where another goroutine can
come in. One event is taken and applied to the map under `stateSync`
(`RecvObject`), the bindings are copied under their lock (`CopyBindings`), then
called one by one without it (`Call`). `Start` opens the watch (`StartWatch`)
and lists (`StartList`) in two steps, `Stop` sets `watchState`, closes the watch
and waits in three. `Rewatch` and `RewatchFails` are the loop in
`watcher.go:152-166`, which does not look at `watchState`. Callbacks take any
time, which the interleaving covers; what they do is the other modules' matter.

`EarlyBindings` are registered by the goroutine that goes on to call `Start`
(ConfigMaps, Services, Ingresses: `tunnel_config_maps.go:260-288` and its
counterparts). The others register whenever they like, as the callbacks on
`K8sData().Namespaces` do. A caller registers one callback at a time, and does
not register one that the loop is just about to call under its old
registration: every call of `RegisterEvent` in the code passes a new closure.

The server's part is external and modelled from what client-go promises: a
watch opened without a resourceVersion starts with an ADDED event for each
existing object in any order; a watch that ends may lose the events that are on
their way, and may send a Status (an ERROR event) first.

`Mirror` is the same from outside: objects change, callbacks are told a version that is
newer than the last one they were told and not newer than what exists (`Tell`), the watcher
may be in step with the collection or fall behind (`CatchUp`, `Lapse`), and in step it has
told everything. `Watcher!ImplementsMirror` maps `inStep` to `Drained` and the followers to
`EarlyBindings`; channel, map, restarts and the copied bindings are hidden. The callbacks that
register later get no such promise: the caller's replay of a snapshot races with the loop,
and may tell them an older version last.

### TunnelConfigMaps

A ConfigMap is a resourceVersion, one value per source, and whether the tunnel's
id is in its annotations. `objs[c]` is the sequence of objects that were cached
for `c`. The last one is in `tcm.cms`; the older ones stay because a goroutine
may still hold a pointer to them. The sources' steps are `UpsertConfigMap` (lock,
get, put) and `RemoveConfigMap` (for each cached object: delete the key *in that
object*, send it). The lock of a removal is on another name than that of an
upsert (the prefix is applied twice), so it orders nothing and is left out.
`ObserveUpsert` and `ObserveDelete` are the callback of the ConfigMap watcher; a
change is handed to the handlers twice (once by `fireEvents`, once by the callback
itself), a repetition once.

The handler of `prepare_tunnel.go` is run by the watcher's goroutine on an event
(`PrepEvent`, `PrepGetEvent`, `PrepPutEvent`) and by the one that registers it on a cached object
(`RegisterGet`, `PrepCached`, `PrepGetCached`, `PrepPutCached`). `prep[w]` is `"prepare"` while it looks for
the tunnel and its Secret, makes what is missing and routes the DNS names of the rules
(`prepare_tunnel.go:219-229,268-294`), which may not end; then it sets the id, reads the ConfigMap and
writes it back. Any of these calls may fail (`PrepFailsEvent`, `PrepFailsCached`): the error is ignored
(`prepare_tunnel.go:359,361`), and the history variable `gaveUp` remembers the ConfigMap until it is
next stored, which makes an event.

`Register` adds the handler under `fnsLock`. Here a pass of the watcher without the handler is
one step, before or after `Lead`; the waiting for that lock is in `Namespaces`.

Left out: losing the lead (`unregister`, see `Namespaces`), labels and the state annotation, and a
ConfigMap whose annotations are missing altogether.

### TunnelRunner

`inst` holds every `runningInstance` ever made; `cmd` and `proc` say what `ri.cmd`
is and what became of its process, `registered` whether its shutdown function is in
`shutdownFns`, `unreg` whether `ri.unregisterShutdown` is set. The directory of an instance is named by the
Data (`idFromConfigMap`).

`runningInstance.Stop` looks at `unregisterShutdown` (`StopFirst`), reads it again to call it
(`StopCall`), sets it to nil (`StopForget`), looks at `ri.cmd` (`StopCheck`), reads it again to kill the process
(`StopKill`), removes the directory (`StopRemove`) and sets `ri.cmd` to nil (`StopClear`). Any of the three
goroutines may run these stages, at the same time and on the same instance; what is nil at the
second look ends the controller (`panicked`).

`Start` and `Stop` of a `Tunnel` hold its mutex. A start makes the instance and registers it
(`NewInstance`), looks for the directory (`RefuseDir`, `NoDir`), makes it (`MakeDir`), writes two files
(`WriteFiles`), registers the DNS names (`RegisterNames`), sets `ri.cmd` (`SetCommand`), starts the process
(`StartProcess`), reads its pid through `ri.cmd`, which SIGINT's `Stop` may have cleared (`ReadPid`), and puts the
new instance in place of the old one, which it then stops (`Replace`). SIGINT picks the registered shutdown functions one by one, in any order,
and may miss those that are registered meanwhile.

Left out: what the registration of DNS names does (its errors are logged and ignored; it may
keep a watcher at `RegisterNames` for ever), the debug mode in
which directories are kept, and the output of the processes.

### Tunnels

`cf` is the id of the tunnel that has the name at Cloudflare, `secret` the id in
its Secret, `cmId` the one in the ConfigMap's annotations. `at[w]` is the API call
that worker `w` makes next: the goroutine of the ConfigMap watcher (`"watch"`), or
the one that registers the handler (`"register"`). Every call is a step; between
any two of them the other worker, a user or a restart may come in. An event is
handed to the handler once or twice, as in `TunnelConfigMaps`, and the model needs
this: the first pass of a Deleted event deletes the tunnel, only the second finds
none and deletes the Secret. A failed call ends the handler; only a Secret that
cannot be created is answered, by deleting the tunnel.

Left out: a tunnel with the same name made by somebody else, changes of the names
in the annotations, watches that end (see `Watcher`), DNS records, and an API call
that fails at the caller but not at the server.

### Namespaces

A handler is the callback that a part registers on the namespace watcher, with the
map `items` it closes over: one for ConfigMaps for good, one for Ingresses and one for
Services in each term. `reg[h]` follows it through `RegisterEvent` (`Bind`,
`CopyKnown`, `Replay`, `Registered`) to the end (`"gone"`). The goroutine of the
namespace watcher takes an event, copies the bindings and calls them one by one. A
call that has a watcher to start keeps the handler's lock (`locked`) until
`Started` or `StartFails`; it makes API calls in between. `OthersDeleted` is the test `!ok` of
`svc.go:296` and `ingress.go:393`: what has a watcher is left alone, what has none is
a nil function to call. `StartedLeading` to `StopPreparing` are the loop in
`main.go:132-168`: a term starts Ingresses, Services and the preparation of tunnels, and losing the
lead calls the three functions that stop them, the third of which waits for `fnsLock` (`StopPreparing`).
Losing the lead before `runningLeaders` is filled ends the process.

`firing[n]` is where the goroutine that watches the ConfigMaps of namespace `n` is in its callback:
calling the functions with `fnsLock` held (`FireEvents`), copying them under that lock
(`CopyFunctions`), or calling them once more without it. They may never return, since they reach
`getZones`. The deletion of a namespace stops its watcher of ConfigMaps and waits for that goroutine,
with the handler's lock held (stage `"wait"`, `StopWaited`).
`failed`, `overlap` and `late` are history variables for the premises of properties.

Left out: the inner life of the watchers (that one may hang in `Stop` is
`Watcher`'s matter), a namespace watch that ends, and other replicas.

### Mapping, Sources and RuleBook

A text is a sequence of tokens: the separators `/` and `|`, and words. An annotation is
the sequence of its entries; splitting at commas and trimming is in that form already.
`Mapping` has the three parsers with the places where they give up an entry, the key of a
source in the Data (`cmKey`), and the tunnel that an annotation names. A parser cuts an entry
(`SvcPieces`, `Pieces`), tests the pieces (`SvcOk`, `ClassOk`, `StackOk`) and makes a mapping of them
(`SvcMapping`, ...); `Halves` and `SplitN` are `strings.SplitN` with two and with `n` pieces. Kubernetes names are
sequences of the runs between their dashes, because the functions that make keys and names
forget where the dashes were.

One step of `Sources` is one event with all that its callback does to the ConfigMaps, in
the absence of other writers and of errors; those are in `TunnelConfigMaps`, which in turn does not
look into the rules. `updateConfigMap`, `classIngress` and `stackedIngress` have
the control of the code: which early return leaves the rules as they are, and which
removes them.

`RuleBook` says what this amounts to for somebody who never saw the parsers: an entry is
its parts and a path (`SvcMeaning`, ...), an object declares a list of rules (`Declared`), and an
event puts that list on the source's page in the ConfigMap of its tunnel, takes the page
out of all of them, or does nothing. `Written` turns an entry into the text the parsers get, so
that the refinement covers them. `Page` says who shares a page with whom. The abstract
specification states what the code does where users may have expected something else, and says so:
`Silent` (older rules stay when there are no new ones), `Promise` (rules in the ConfigMap of
another tunnel stay; a ConfigMap whose name Kubernetes would refuse is not written), `PortSound` (ports below 32768).
What the code does with the Ingresses that the repository itself shows is the run `sources_shown`.

Left out: a backend of an Ingress without a service (a nil pointer), event types that
Kubernetes does not send, `introSpectTunnelName`, which only tests reach with something to do (the callback
takes the rules out of whatever has no tunnel-name before `processEvent` gets to look for one,
`ingress.go:323`), and entries of 2^15 characters or more, where the number that stands for a missing separator
(`parse-mapping.go:58,62`) could be a place.

## 3. What TLC checks

Twelve runs. Eight pass; four show that something the repository says of the
program does not hold, the counterparts of the findings in `PROJECT.json`.

| Run | Question | Bounds |
|---|---|---|
| `watcher_safety` | `TypeOK`, `SyncInv` (the inductive invariant), `MirrorsLive`, `ExactUntilRestart`, `EarlyToldLive`, `LateToldLive`, `ImplementsMirror` | 1 object with 3 versions, 1 early and 1 late callback, 2 watches ended by the server, failing API calls, any number of `Start` and `Stop`. 1.7 million states |
| `watcher_liveness` | `EventuallyTold`, `StopReturnsUnlessRewatching` | 2 objects, 1 early callback, 2 ended watches, failing calls. 166 thousand states |
| `watcher_stop_hangs` | `StopReturns` is false | 1 object, 1 ended watch |
| `cm_safety` | `CacheIsSafeToSend`, `CacheCatchesUp`, `RulesFollowSources`, `IdStays` | 1 ConfigMap, a Service and an Ingress, 2 values, 3 changes, 1 deletion by a user, the leader may come at any time. 6.9 million states |
| `cm_liveness` | `TypeOK`, `KindsTakeTurns`, `EventuallyPrepared`, `UpsertsEnd` | 2 sources of one kind, 3 changes, failing calls of sources and handler, a routing that may not end. 194 thousand states |
| `runner_safety` | `TypeOK`, `NoStrays`, `InterruptStopsAll`, `LeftoversExplained`, `KeepsServing`, `DiesOfASecondStop` | 2 watchers of 1 tunnel name, 2 possible Data (symmetric), 2 events, every failure, SIGINT. 3.7 million states |
| `runner_already_running` | `RefusedIsRunning` is false | 1 watcher, an event that comes before the tunnel's id |
| `tunnels_safety` | `TypeOK`, `IdHasSecret`, `PreparedAtRest`, `DeletedLeavesNothing` | 4 changes of one ConfigMap, 3 tunnels, 1 restart, every failure. 105 thousand states |
| `namespaces_safety` | `TypeOK`, `OneWatcher`, `ServedAtRest`, `GoneIsUnwatched`, `StoppedIsQuiet`, `PanicHasCause`, `EventsHandled`, `StopEnds` | 1 namespace that changes 3 times, 1 term, failing starts, a callback for its ConfigMaps that may not return. 275 thousand states |
| `namespaces_follower` | `FollowerIsInactive` is false | 1 namespace, 2 changes, 1 term |
| `sources_safety` | `TypeOK`, `ParsersReadTheForm`, `ImplementsRuleBook` | a Service and an Ingress in some 280 forms, two Services whose keys coincide, 3 tunnels in 2 ConfigMaps, a tunnel whose ConfigMap has a refused name; all entries with paths of up to 3 tokens (1 for stacked ingresses). 7.7 thousand states, 510 thousand steps |
| `sources_shown` | `OneShownIngressIsServed` is false | the Ingress of `README.md:79-118` and that of `ingress_class_test.go:19-99`, as they are |

Why the bounds are enough. Objects of one Watcher do not influence one another
except through the order of the listing and through the position of a cut, so one
object with three versions and two cuts shows every relation of map, channel,
cut and callback; the run with two objects adds the order. Two callbacks are one
of each kind. For the properties proved in section 4 the proof removes the
bounds altogether. A ConfigMap is touched by its sources and by the handler
alone, so one is enough for the properties of a ConfigMap; two sources are the
smallest number that conflict. `MaxRev` stops the handler from writing back and
is a bound of the model alone: the handler's own write ends the chain earlier
(an update that changes nothing makes no event) unless the sources keep changing,
and their changes are bounded. In the runner, two events with every failure cover
one start beside another and a stop beside a start, for one mutex and one `Tunnel.ri`. Two tunnels meet
only in a directory, when their Data is equal: that instance (`OwnTunnel`, 16.7 million states) was checked as well and
is too large for a run, and so is a third event, with which Data comes back after it was replaced;
the theorems of section 4 cover both. A Tunnel at Cloudflare shares nothing with
another one, so one ConfigMap is enough; four changes are made, deleted, made again and
changed, and a third tunnel is only made after a restart or an undone creation. The
handlers look at one namespace at a time and share only the goroutine that calls
them and their locks, so one namespace shows how events, replay and stop meet; two
are too slow for a run with liveness, and the theorems cover any number for the invariants. Data in the runner is only compared with other
Data, so its permutations are a symmetry of the model and of the properties of that run. What
an event does to the rules depends on the object and on nothing that came before, except for what it
leaves alone; so in `sources_safety` one object takes all its forms in turn (`Menus`) while the other
sources have one, and any sequence of events is allowed. Entries are cut at the first separators
only, and what follows is copied: paths of three tokens show every position of two separators. The
ports are those at the limits of both tests, 0, 32767 and 32768.

`CHECK_DEADLOCK FALSE` is set everywhere, because every system may stop: bounds
are used up, a goroutine has died, the controller has exited.

### Fairness

`Spec` has none and is used for safety. `FairSpec` adds:

* a goroutine that can take its next step does (weak fairness, per goroutine);
* a mutex that is free again and again is acquired (strong fairness of `UpsertLock`, and of
  `Locking(n)`, `StartPreparing` and `StopPreparing` for `fnsLock`): Go's `sync.Mutex` hands
  itself over to a waiter that has starved;
* opening a watch that is tried again and again succeeds in the end (strong fairness of
  `Rewatch`), without which nothing could be promised;
* in `TunnelConfigMaps` some controller becomes leader. Cloudflare's answers are left to
  `Tunnels`, which has no liveness property.

Nothing is assumed of users, signals, processes that exit, calls that fail, or the server ending
a watch. An API call returns, with an error if need be, except one: `getZones`
(`controller.go:42-52`) asks for the same first page until that page is empty, so with one zone or
more it does not return unless a call errs. It is reached by the prepare handler
(`prepare_tunnel.go:227`, before the id is written) and by a start (`cloudflared.go:236-246`, before
`cloudflared` is run). The step past it has no fairness: `PrepGetEvent` and `PrepGetCached` in
`TunnelConfigMaps`, `RegisterNames` in `TunnelRunner`, `FunctionsReturn` in `Namespaces`, and
`RunningLeaders` with them. `EventuallyPrepared` names what it may have to wait for
(`RoutingHangs`, and a handler that gave up, `gaveUp`), so do `EventsHandled` (`FunctionHangs`) and `StopEnds`
(`FnsLockHangs`), and that a start ends in a running process is not claimed at all.

### What the violations show

* `watcher_stop_hangs`: the watch ends, the loop is on its way to a new one, and
  `Stop` closes the old one. The new watch is closed by nobody and `Stop` waits
  for ever. `StopReturnsUnlessRewatching` shows that this is the only way.
* `runner_already_running`: a start that fails leaves its directory behind, and the
  next start takes it for a running instance.
* `sources_shown`: the `Sample ingress` of the repository's README has no mapping, and its tunnel
  gets an empty list of rules; the Ingress that `ingress_class_test.go` expects to have rules has no
  tunnel-name, and is ignored. Neither is served.
* `namespaces_follower`: a handler that is called from copied bindings after it was
  stopped starts a watcher on a follower. `StoppedIsQuiet` shows that this is the only way.

More that the models show without a run of their own:

* An object deleted while no watch is open stays in `GetState` for good; that is why
  `ExactUntilRestart` ends with the first restart. `Stop` on a watcher whose watch could not
  be opened again calls a method of a nil interface (`StopNilWif`; the model stops there).
* The controller may die on a nil pointer when an instance is stopped or started, in three ways. Two
  goroutines in its `Stop` both see `unregisterShutdown`, one sets it to nil and the other calls it
  (`cloudflared.go:111-113`). Or one clears `ri.cmd` while another, or the one that waits, or the
  one that has started the process and prints its pid, reads it again (`:115-127`, `:157`, `:255`). Or
  `Stop` finds a command that was not started: its start has failed, or SIGINT comes between `:138` and
  `:152`. `DiesOfASecondStop` shows that there are no other ways, that in the second the process is
  over, and in the first too unless SIGINT has come. A controller that dies in `Shutdown` leaves the
  other processes running, which is why `InterruptStopsAll` ends with a panic.
* Services `a-b/c` and `a/b-c` have one key in the Data, and tunnels `t.one` and `t-one` one
  ConfigMap: the later event wins, and the deletion of either removes the rules of both.
* An object that moves to another tunnel leaves its rules in the old ConfigMap; a Service
  whose entries are all unusable keeps the rules it had (`svc.go:169`); a UDP port named `https` is preferred
  to TCP ports and then skipped; a port above 32767 makes an entry void (`parse-mapping.go:215`).
* An upsert of a Service and one of an Ingress in the same ConfigMap are not ordered by the
  lock, whose key has the kind in it: one of them is refused and its rules are missing until
  its next event. A removal is sent with the resourceVersion of the cached object, which
  an event that changes nothing else does not refresh; it is then refused, and never tried again.
* The write-back of the id also writes the rules of its event over newer ones (`PutBack`).
* If API calls fail, `CacheIsSafeToSend` and `RulesFollowSources` are false: a failed removal
  leaves the cached object without the key under a resourceVersion that is still valid, and a
  later removal by another source then drops a rule that is wanted again. This is why
  `cm_safety` has `ApiMayFail = FALSE`; conflicts do happen in it.
* Without `~overlap` the properties of `Tunnels` are false. A deleted ConfigMap stays in
  `tcm.cms` and is replayed to the next leader, which makes its tunnel again; if the replay is under
  way while the Deleted event is handled, a Secret may be deleted under a living tunnel.
* `CreateSecret` looks for a Secret by the name of the ConfigMap (`secrets.go:99`), so it never
  takes the branch that updates one: a Secret left by a lost tunnel blocks every new one.
* Deleting a namespace ends the controller (nil function) if its watcher could not be started
  or the deletion met the registration; otherwise its Service and Ingress watchers go on.

## 4. What is proved

`WatcherProofs` proves, for every set of objects and of callbacks, every number of
versions and of ended watches, with or without failing API calls:

| Theorem | Statement |
|---|---|
| `TypeCorrect` | `Spec => []TypeOK` |
| `SyncCorrect` | `Spec => []SyncInv` |
| `MirrorsLiveCorrect` | once the loop has caught up, the map holds the current version of what exists |
| `ExactUntilRestartCorrect` | and nothing else, as long as no watch was restarted |
| `EarlyToldLiveCorrect` | and each callback registered before `Start` has been told that version |
| `HeardCorrect` | `Spec => []HeardInv` |
| `LateToldLiveCorrect` | a callback registered at any other time has been told some version of all that exists |
| `MirrorImplemented` | `Watcher` implements `Mirror`: no such callback is ever told an older version than before, or one that does not exist |

The assumptions are those of the module: `Uids` is finite, `EarlyBindings` is a subset of
`Bindings`, `MaxVersion` and `MaxCloses` are natural numbers, `MaxVersion` not zero.

The properties speak about a moment of rest (the channel is empty and the loop is
receiving) and are not inductive: what leads there is the content of the channel.
`SyncInv` says what holds on the way. `PhaseInv` ties the positions of the owner and of
the loop to `watchState`. `ChanInv`: while a watch is open, the last event about an
object in its channel carries the object's version on the server. `StateInv`: if no
event in the channel is about an object, the map has that version already (before
`Start` has listed, the object does not exist). `ToldInv`: so does every callback that was
registered before `Start`, unless it is just being called. A closed watch needs no
invariant, since the next one begins with a listing (`AfterListing`). With an empty
channel `ChanInv` is void and `StateInv` and `ToldInv` are the properties.

A callback that registers while the loop runs gets its snapshot after its binding is in place, and
the loop copies the bindings after an object is in the map. `HeardInv` is what follows for an
object that exists and is in no event of the channel, so that it is in the map already: the callback
has been told of it, is being told now, or has its snapshot before it (`Awaiting`). A new watch
brings the object back into the channel, which asks for nothing, and taking that event out of it
again makes the loop call everybody.

`MirrorImplemented` needs one more part, `ForwardInv`: what is in the channel about an object
is in the order of its versions (`QueueInv`); it is not newer than the store, and not older than
the event the loop is working on (`WorkInv`) or than what a callback was told (`ViewInv`); and an early callback has
nothing to replay, since it registers while the map is empty (`ReplayInv`). A new watch keeps
this because a listing shows the store itself, and a cut because it only takes events away. Each step of `Watcher`
is then a step of `Mirror`: a change of the store is `Change`, a call with a newer version is `Tell`,
registering is `Join`, unregistering and the end of `Stop` are `Leave`, and whatever else happens is `CatchUp` (by
`EarlyToldLive`) if the loop is drained after it and `Lapse` if not.

The proof has a lemma for each group of actions (`SyncServer`, `SyncOwner`,
`SyncReceive`, ..., `ForwardEmit`, `ForwardLoop`, ...), which rest on lemmas about sequences of
events: what is last about an object after `Append`, after `Tail`, and in a listing, and what
stays in order when events at either end are gone (`QueueLess`). `TypeOK` is proved first and used
in each of them.

`TunnelRunnerProofs`, for every set of watchers and of Data, every map from watchers to
tunnels, every number of events, and every failure:

| Theorem | Statement |
|---|---|
| `TypeCorrect` | `Spec => []TypeOK` |
| `RunnerInvariant` | `Spec => []RunnerInv` |
| `StraysAreKilled` | `NoStrays`: a running process is the one its Tunnel knows, or somebody is about to kill it |
| `InterruptIsThorough` | `InterruptStopsAll`: from SIGINT to the exit, and as long as no nil pointer is met, a process that ran when it came and still runs will be stopped by `Shutdown` or is in the hands of another `Stop`; at the exit only the latter |
| `ServesOn` | `KeepsServing`: a process is only killed for a newer one of its tunnel, a deleted ConfigMap, or the shutdown |
| `DiesOfASecondStopOnly` | `DiesOfASecondStop`: a nil pointer or function is only met in the three ways of section 3 |
| `DirsInUse` | `Spec => [](MadeInv /\ DirInv)`, if no start fails |
| `NothingLeftOver` | `NoLeftovers` (of the proof module; no run checks it), if no start fails: at rest the only directories are those of running processes |
| `MutexIsHeldAtWork` | `Spec => []MutexInv`: a Tunnel's mutex is held exactly by the watcher in `Start` or `Stop` of it |
| `LeftoversOfFailedStarts` | `Spec => []LeftoversExplained`: whatever fails, any other directory at rest is that of an instance that could not be started |

It is assumed that the marker for no job is not a watcher and that the bounds are natural
numbers. Three goroutines run the seven stages of `Stop`, at the same time and on the same instances,
so `RunnerInv` says for each stage what the stages before it left (`StageInv`), and that before SIGINT
a function that is gone when `Stop` looks at it again is that of a process that is over (`CallInv`); how the
command, the process and the goroutine that waits for it go together (`CommandInv`, `WaiterInv`); that an
instance in the making belongs to one watcher, how far it got when it is handed over, and which
instances a watcher may be stopping (`MakingInv`, `StartedInv`, `TargetInv`, `RiInv`); who holds the mutex
of a Tunnel (`LockInv`); that what runs can be stopped by SIGINT or is about to be killed
(`SignalInv`); and that a process that its Tunnel does not know has a goroutine on the way to kill it
(`StrayInv`). All this ends when the controller dies of a nil pointer. A step of `Stop` is the
same for all three, so `StageEffect`, `StopInstances` and `StopOthers` are proved once and the lemmas
for the goroutines cite them.

`DirsInUse` and `NothingLeftOver` assume `~MayFail` and `~IdMayMiss` (`runner_already_running` shows why: a start
that fails does leave its directory), but neither that signals stay away nor that the controller
lives: what they say ends with SIGINT or a panic. `DirInv` is a statement about owners. A directory
belongs to a watcher that is about to start a process in it, or to an instance in it that will be
stopped and then have its directory removed (`Removing`): a Stop is at a stage before the removal, or
the goroutine that waits for the process will run one, with a command that is not cleared
yet. Several Stops may be at work on one instance; the first that gets to `StopClear` has been through
`StopRemove`, so the others, which will skip it, leave nothing. `MadeInv` says that what a
watcher makes has the Data it was told, so that the directory made is the one removed.

`LeftoversOfFailedStarts` is the same without the two assumptions. An instance that could not be started
(`Failed`) has no process, nobody is making it any more, and it is unregistered or at a stage of `Stop` before
that; nothing changes that, since only the watcher that made it could start it. `LeftInv` says that a directory is in
use or that of such an instance, which is what `runner_already_running` runs into: the proof shows that
starts that fail are the only way to it, and that no interleaving of the concurrent Stops is another.
`MutexInv` needs nothing but the types: each way out of `Start` and `Stop`, the refusals and the failures
among them, goes through `Unlock`.

`TunnelsProofs`, for every number of changes, tunnels and restarts, with or without failing
calls:

| Theorem | Statement |
|---|---|
| `TunnelInvariant` | `Spec => [](TypeOK /\ TunnelInv)` |
| `TypeCorrect` | `Spec => []TypeOK` |
| `IdsHaveSecrets` | `IdHasSecret`: a tunnel whose id is in the ConfigMap has its Secret |
| `CalmInvariant` | `Spec => []CalmInv` |
| `RestIsPrepared` | `PreparedAtRest`: if nothing failed, a leader at rest leaves a ConfigMap with the id of the living tunnel, and its Secret |
| `DeletedIsGone` | `DeletedLeavesNothing`: if nothing failed, nothing is left of a deleted ConfigMap |

The difficulty is that any of the handler's calls may be followed by a restart or by a step
of the other worker. As long as no Deleted event met the replay, a worker that may delete
the tunnel, to undo its creation or for a Deleted event, has the living tunnel to itself, and a Secret is
deleted only when there is no tunnel and nobody makes one (`OwnerInv`); so a tunnel whose id is in the
ConfigMap, or is about to be written there, has its Secret (`SecretInv`). `KnownInv` says that no id is
known that Cloudflare has not given out yet, and `ControlInv` that a worker is in the handler
only while it was called.

The other two properties are about rest, and about histories in which no call failed, the
controller was not restarted and no Deleted event met the replay (`Calm`; any of it can happen
later, and the properties say nothing from then on). `CalmInv` says what holds on the way there. The events not yet
handled end in what the ConfigMap is now (`FeedInv`), so that the last one of them asks for the right
thing. Tunnel and Secret come and go together, except that between the two passes of a
Deleted event the tunnel is gone and the Secret is not, and between the calls that make them the
Secret is missing (`PairInv`; `CallsInv` says which worker can be at which call then). And once the events
are used up either everything is prepared or some worker is still on its way to write
the id of the living tunnel (`Preparing`), with a write that will not be refused: it has read the
current ConfigMap, or it will read it. When two workers prepare at once, one's write makes the other's stale; the
one whose write was accepted has left everything prepared. At rest there is no such worker.

`NamespacesProofs`, for every finite set of namespaces, every number of changes and terms,
with or without watchers that fail to start:

| Theorem | Statement |
|---|---|
| `HandlersInvariant` | `Spec => [](TypeOK /\ HandlersInv)` |
| `EventsInvariant` | `Spec => []EventsInv` |
| `TypeCorrect` | `Spec => []TypeOK` |
| `WatchedOnce` | `OneWatcher`: never two watchers of a handler for a namespace |
| `StopIsQuiet` | `StoppedIsQuiet`: a stopped handler runs nothing, unless it was still to be called |
| `CaughtUpServes` | `ServedAtRest`: a handler that has caught up watches all that exists |
| `CaughtUpForgets` | `GoneIsUnwatched`: and the one for ConfigMaps nothing else |
| `PanicsHaveACause` | `PanicHasCause`: a panic needs a failed start, or a deletion that met a registration |

`HandlersInv` is about the locks: who starts a watcher holds the lock of its handler, for a
namespace that is not in the map (`LockInv`); the map says what runs (`RunInv`), until the handler is
stopped (`QuietInv`); and who deletes a namespace waits for its watcher with the lock held, when
the map has forgotten it already (`WaitInv`). `EventsInv` is about the way from the cluster to the handlers. The
feed leads from what is known to what exists (`FeedInv`): after a Deleted event comes an Added
one if the namespace exists, and between two Deleted events there is an Added one. What is known
is watched, or still has to be called with, replayed or copied (`ServedInv`); what is watched is known, or its
deletion is still to be called with (`GoneInv`); what will be called with a deletion is watched (`PanicInv`), since a
handler that is copying or replaying at that moment is one of `overlap` (`MeetInv`).
At rest the feed is empty and nothing is pending, and what is left is the property.
Steps that only move a handler from one state of registration to another share one lemma
(`FrameEvents`).

`TunnelConfigMapsProofs`, for all sets of ConfigMaps, of sources with their kinds and of values, and
all bounds:

| Theorem | Statement |
|---|---|
| `Invariance` | `Spec => [](TypeOK /\ ControlInv /\ StoreInv)` |
| `TypeCorrect` | `Spec => []TypeOK` |
| `IdIsKept` | `IdStays`: no write takes the tunnel's id out of a ConfigMap |
| `CacheIsComplete` | `CacheCatchesUp`: the cache of a watcher that has caught up lacks only what somebody tried to remove |
| `TurnsAreTaken` | `KindsTakeTurns`: upserts of a kind are not between each other's read and write |
| `SafeToSend` | `CacheIsSafeToSend`, if API calls do not fail |
| `NobodyElsesRules` | `RulesFollowSources`, if API calls do not fail |

`None` is assumed to be neither a value nor a source. `ControlInv` says who holds a lock. `StoreInv` is about copies:
every write gives the ConfigMap a new resourceVersion, so that a copy with the current one was made
after the last write. What was read from the server, or is on its way in an event, is then the
stored object itself (`CopyInv`, `Faithful`). A cached object is changed in place, and lacks the
keys that its holders are just about to send (`CachedInv`): when one of them has sent it, it is
either out of date or no key was missing. This is where failing calls come in. The last event about a
ConfigMap shows what is stored until the cache does (`FeedInv`). The two action properties
follow from who writes (`Writers`) and what (`Written`). The theorems without the assumption on
`ApiMayFail` hold with failing calls as well.

`SourcesProofs`, for all sources, objects, ConfigMaps and menus:

| Theorem | Statement |
|---|---|
| `KeysArePages` | two sources have one key in the Data exactly if they have one page |
| `SourcesInvariant` | `Spec => []SourcesInv` |
| `EventsMindTheirPage` | no event changes what is stored for a source of another page |
| `RuleBookImplemented` | `ImplementsRuleBook`, if `ListsAreDeclared` |

It is assumed that names are sequences of words; that two sources have one page if they are of one
kind and the words of namespace and name, one after the other, are the same (`PageAssumption`, which is how
`RuleBook` uses `Page`); that an annotation tunnel-name has at least one part; and that
the default namespace for tunnels is not empty. That a key has the kind as its first word makes keys
unique up to pages; hence taking a key out, or writing one, is an action on a page (`Struck`, `Promised`), and
each branch of the two callbacks is one of `Withdraw`, `Ignore` and `Promise` (`ServiceStep`, `IngressStep`).
The proof does not compute lists of rules. That what `SvcConfig`, `ClassConfig` and `StackConfig` make of
an object is what it declares is `ListsAreDeclared`, a hypothesis about constants: the lists
come out of `SelectSeq` and `SortSeq`, of which the prover knows nothing, and are put together
from as many parts as the object has. `sources_safety` checks it for the objects of its
menus, as part of `ParsersReadTheForm`. `EventsMindTheirPage` holds without it. What is proved of the lists is
how each entry of an annotation is read.

`EntriesProofs`, for all words, paths and values of `Number`:

| Theorem | Statement |
|---|---|
| `SvcEntriesAreRead` | an entry of a Service passes `SvcOk` exactly if it is sound (`SvcSound`), and its mapping is what it means (`SvcMeaning`) |
| `ClassEntriesAreRead` | the same for an Ingress of the class `cloudflared` (`ClassOk`, `ClassMapping`) |
| `StackEntriesAreRead` | the same for any other Ingress (`StackOk`, `StackMapping`), the port included |

The hypotheses are the form of an entry: `IsEntry` says that its words have no separator in them (they may be
empty), and that its path is any sequence of tokens, with separators, if there is one; `IsSvcEntry` and
`IsIngressEntry` say how many words there may be and what may stand before a path. What has more
words is not covered: the parsers then put a slash into the last word, or take the words for a
path. `sources_safety` checks the same over 4016 entries, each of which meets the hypotheses.

The text of an entry is its words with a slash between them, made by a recursive function (`FlattenSeq`), and
`SplitN` cuts it by another one. Both need an induction over the number of words, and the library's
induction theorems cannot be used. What is used instead is that the order of the natural
numbers is well founded: a set of numbers that lacked one would lack a least one (`Least`), so a set that has
1, and with each number the next, has them all (`Climb`). The sets are those of the numbers up to which
a statement holds. `Chain` gets from this that a function with a recursive definition exists, `Flattened` and `Rest`
that the text after the k-th word is that word, a slash and the text after the next, and
`NextCut` and `SplitJoined` that each cut of `SplitN` takes off one word, as no word has a slash in it. The
first of several separators is a matter of `SelectInSeq`, which is a minimum (`MinIs`, `HalvesCut`, `SchemaCut`, `Trimmed`).

The invariants of these modules were checked by TLC before they were proved, on the instances of
`runner_safety`, `tunnels_safety` and `namespaces_safety`, and on `cm_safety` as it is and with failing
calls and two changes; `HeardInv` on the instance of `watcher_safety`; `CalmInv` on that of `tunnels_safety`
and on a larger one without failures; `DirInv` and `MadeInv` on that of `runner_safety` without failures.

Only model-checked: the lists that the parsers and the callbacks make (`ParsersReadTheForm`
as a whole, with `ListsAreDeclared`, and `TypeOK` of `Sources`, which is about the entries of these lists), and all
liveness properties. `SelectSeq` and `SortSeq`, which make the lists, are symbols without a meaning to
the prover; that each entry is read as it should be is proved, that the entries are then taken in order is
not. Liveness under fairness and `ENABLED` are out of its reach as well. No module declares a `RECURSIVE` operator.

## 5. What is not modelled, and the plan

Done: `Watcher` with its proofs and `Mirror`, `TunnelConfigMaps`, `TunnelRunner`, `Tunnels`,
`Namespaces` with the leader loop, `Mapping` and `Sources` with `RuleBook`. Left, by importance:

1. A composition of two Watchers with the callback that stops one inside the other
   (the effect of a `Stop` that hangs while `watcherLock` is held).
2. `TunnelConfigMaps` above `Mirror` instead of its own abstraction of a watch, and losing
   the lead there.

Not modelled for good:

* The clients of Cloudflare: a cache by zone behind one lock, in which no two steps can meet, and
  `getZones`, which has one state and no outcome that a document promises. Only the registration of DNS
  names uses them, and its errors are logged and ignored. The models that reach it let it fail to return.
* Flags and names of annotations, type adapters, logging, the generator of custom resource
  definitions: no state, no decisions.
* `sync_acess_app.go`: an experiment behind a flag, most of it commented out.

The accidents of Go's runtime on unsynchronised maps (`delete` in
`RemoveConfigMap`, ranging over `shutdownFns`) are listed as hazards and not modelled:
a read or a write of a map is one step here.
