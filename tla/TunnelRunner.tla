---------------------------- MODULE TunnelRunner ----------------------------
(***************************************************************************)
(* controller/cloudflared/cloudflared.go: the cloudflared processes of one *)
(* controller.  The goroutines of the ConfigMap watchers (one for each     *)
(* namespace) call Start and Stop of the Tunnel that has the ConfigMap's   *)
(* name; each process has a goroutine that waits for its end; SIGINT runs  *)
(* the shutdown functions that the instances have registered.  All of them *)
(* call Stop of a runningInstance, and nothing keeps them from doing so at *)
(* the same time.  The events come one after the other (fireEvents holds   *)
(* fnsLock), but the replay of Register runs beside them; here any number  *)
(* of watchers may be at work.                                             *)
(*                                                                         *)
(* The Data of a ConfigMap is an abstract value; it also names the         *)
(* directory of the instance (idFromConfigMap hashes the Data alone).      *)
(***************************************************************************)
EXTENDS Integers, Sequences, FiniteSets

CONSTANTS
    Watchers,       \* the goroutines that deliver ConfigMap events
    Tunnels,        \* the names of the ConfigMaps
    TunnelOf,       \* the name of the ConfigMap a watcher reports about
    Datas,          \* the possible Data of a ConfigMap
    NoJob,          \* a watcher with nothing to do
    MaxEvents,      \* bound: how many events are delivered
    MayFail,        \* whether mkdir, reading the secret and exec can fail
    IdMayMiss,      \* whether an event can come before the tunnel's id
    MaySignal       \* whether SIGINT may come

ASSUME TunnelOfAssumption == TunnelOf \in [Watchers -> Tunnels]
ASSUME NoJobAssumption == NoJob \notin Watchers
ASSUME BoundAssumption == /\ MaxEvents \in Nat
                          /\ {MayFail, IdMayMiss, MaySignal} \subseteq BOOLEAN

Jobs == [op : {"start"}, data : Datas, id : BOOLEAN] \cup [op : {"stop"}]

(* runningInstance.cmd is nil, or a command that was not started (its      *)
(* Process is nil), or a started one.  That the instance is registered     *)
(* with Shutdown is one thing, that it has its function unregisterShutdown *)
(* (unreg) another.                                                        *)
Instances == [tunnel : Tunnels, data : Datas,
              cmd : {"nil", "unstarted", "started"},
              proc : {"none", "running", "killed", "exited"},
              registered : BOOLEAN, unreg : BOOLEAN]

(* The steps of runningInstance.Stop, and those of them before the kill.   *)
EarlyStages == {"stop", "call", "forget", "check", "kill"}
Stages      == EarlyStages \cup {"remove", "clear"}

VARIABLES
    events,     \* how many events have been delivered
    dirs,       \* the instance directories that exist, by Data
    inst,       \* every instance ever made
    waiter,     \* where the goroutine that waits for its process is
    ri,         \* Tunnel.ri: number of an instance, 0 for nil
    lock,       \* Tunnel.processing: the watcher that holds it, or NoJob
    pc,         \* where each watcher is
    job,        \* what it has to do
    made,       \* the instance it makes
    target,     \* the instance it stops
    listening,  \* whether the handler is registered for events
    sig,        \* where the goroutine that handles SIGINT is
    sigTarget,  \* the instance it stops
    sigLen,     \* how many instances there were when SIGINT came
    sigLive,    \* which of them had a running process
    panicked    \* the controller died on a nil pointer

callers == <<events, lock, pc, job, made, target>>
signal  == <<listening, sig, sigTarget, sigLen, sigLive>>
vars    == <<events, dirs, inst, waiter, ri, lock, pc, job, made, target, listening,
             sig, sigTarget, sigLen, sigLive, panicked>>

Ids      == DOMAIN inst
Live(i)  == inst[i].proc = "running"

Init ==
    /\ events = 0
    /\ dirs = {}
    /\ inst = <<>>
    /\ waiter = <<>>
    /\ ri = [t \in Tunnels |-> 0]
    /\ lock = [t \in Tunnels |-> NoJob]
    /\ pc = [w \in Watchers |-> "idle"]
    /\ job = [w \in Watchers |-> NoJob]
    /\ made = [w \in Watchers |-> 0]
    /\ target = [w \in Watchers |-> 0]
    /\ listening = TRUE
    /\ sig = "none"
    /\ sigTarget = 0
    /\ sigLen = 0
    /\ sigLive = {}
    /\ panicked = FALSE
-----------------------------------------------------------------------------
(***************************************************************************)
(* runningInstance.Stop, one stage of it, by any goroutine: the next stage *)
(* is to; "stopped" is the return.  ri.unregisterShutdown is read twice,   *)
(* ri.cmd too, and another goroutine may set it to nil in between.         *)
(***************************************************************************)
StopFirst(i, to) ==
    /\ to = IF inst[i].unreg THEN "call" ELSE "check"
    /\ UNCHANGED <<dirs, inst, panicked>>

StopCall(i, to) ==
    /\ IF inst[i].unreg
       THEN /\ inst' = [inst EXCEPT ![i].registered = FALSE]
            /\ UNCHANGED panicked
       ELSE /\ panicked' = TRUE
            /\ UNCHANGED inst
    /\ to = "forget"
    /\ UNCHANGED dirs

StopForget(i, to) ==
    /\ inst' = [inst EXCEPT ![i].unreg = FALSE]
    /\ to = "check"
    /\ UNCHANGED <<dirs, panicked>>

(* Variant: an instance that has no command is stopped like any other.     *)
StopCheck_Unguarded(i, to) ==
    /\ to = "kill"
    /\ UNCHANGED <<dirs, inst, panicked>>

StopCheck(i, to) ==
    /\ to = IF inst[i].cmd = "nil" THEN "stopped" ELSE "kill"
    /\ UNCHANGED <<dirs, inst, panicked>>

StopKill(i, to) ==
    /\ IF inst[i].cmd = "started"
       THEN /\ inst' = [inst EXCEPT ![i].proc = IF @ = "running" THEN "killed" ELSE @]
            /\ UNCHANGED panicked
       ELSE /\ panicked' = TRUE
            /\ UNCHANGED inst
    /\ to = "remove"
    /\ UNCHANGED dirs

(* Variant: the directory stays.                                           *)
StopRemove_KeepsDir(i, to) ==
    /\ to = "clear"
    /\ UNCHANGED <<dirs, inst, panicked>>

StopRemove(i, to) ==
    /\ dirs' = dirs \ {inst[i].data}
    /\ to = "clear"
    /\ UNCHANGED <<inst, panicked>>

StopClear(i, to) ==
    /\ inst' = [inst EXCEPT ![i].cmd = "nil"]
    /\ to = "stopped"
    /\ UNCHANGED <<dirs, panicked>>

StopStage(i, from, to) ==
    \/ from = "stop"   /\ StopFirst(i, to)
    \/ from = "call"   /\ StopCall(i, to)
    \/ from = "forget" /\ StopForget(i, to)
    \/ from = "check"  /\ StopCheck(i, to)
    \/ from = "kill"   /\ StopKill(i, to)
    \/ from = "remove" /\ StopRemove(i, to)
    \/ from = "clear"  /\ StopClear(i, to)
-----------------------------------------------------------------------------
(***************************************************************************)
(* The watchers: TunnelRunner.Start and Stop.                              *)
(***************************************************************************)
Deliver(w) ==
    /\ listening /\ events < MaxEvents
    /\ pc[w] = "idle"
    /\ \E j \in Jobs :
         /\ j.op = "start" => j.id \/ IdMayMiss
         /\ job' = [job EXCEPT ![w] = j]
    /\ pc' = [pc EXCEPT ![w] = "lock"]
    /\ events' = events + 1
    /\ UNCHANGED <<dirs, inst, waiter, ri, lock, made, target, signal, panicked>>

(* Variant: an instance that is nil is stopped too.                        *)
StopTarget_Nil(w, i) ==
    /\ target' = [target EXCEPT ![w] = i]
    /\ pc' = [pc EXCEPT ![w] = "stop"]

StopTarget(w, i) ==
    /\ target' = [target EXCEPT ![w] = i]
    /\ pc' = [pc EXCEPT ![w] = IF i = 0 THEN "stopped" ELSE "stop"]

Lock(w) ==
    LET t == TunnelOf[w]
    IN  /\ pc[w] = "lock" /\ lock[t] = NoJob
        /\ lock' = [lock EXCEPT ![t] = w]
        /\ IF job[w].op = "start"
           THEN pc' = [pc EXCEPT ![w] = "compare"] /\ UNCHANGED target
           ELSE StopTarget(w, ri[t])
        /\ UNCHANGED <<events, dirs, inst, waiter, ri, job, made, signal, panicked>>

(* "already running no change": by the Data of the last instance alone.    *)
Unchanged(w) ==
    LET r == ri[TunnelOf[w]]
    IN  r # 0 /\ inst[r].data = job[w].data

NoChange(w) ==
    /\ pc[w] = "compare" /\ Unchanged(w)
    /\ pc' = [pc EXCEPT ![w] = "stopped"]
    /\ UNCHANGED <<events, dirs, inst, waiter, ri, lock, job, made, target, signal,
                   panicked>>

(* Variant: no shutdown function.                                          *)
NewInstance_Unregistered(w) ==
    /\ pc[w] = "compare" /\ ~Unchanged(w)
    /\ inst' = Append(inst, [tunnel |-> TunnelOf[w], data |-> job[w].data,
                             cmd |-> "nil", proc |-> "none",
                             registered |-> FALSE, unreg |-> FALSE])
    /\ waiter' = Append(waiter, "none")
    /\ made' = [made EXCEPT ![w] = Len(inst) + 1]
    /\ pc' = [pc EXCEPT ![w] = "stat"]
    /\ UNCHANGED <<events, dirs, ri, lock, job, target, signal, panicked>>

(* The shutdown function is registered before anything else.               *)
NewInstance(w) ==
    /\ pc[w] = "compare" /\ ~Unchanged(w)
    /\ inst' = Append(inst, [tunnel |-> TunnelOf[w], data |-> job[w].data,
                             cmd |-> "nil", proc |-> "none",
                             registered |-> TRUE, unreg |-> TRUE])
    /\ waiter' = Append(waiter, "none")
    /\ made' = [made EXCEPT ![w] = Len(inst) + 1]
    /\ pc' = [pc EXCEPT ![w] = "stat"]
    /\ UNCHANGED <<events, dirs, ri, lock, job, target, signal, panicked>>

(* A directory that exists is taken for a running instance.                *)
RefuseDir(w) ==
    /\ pc[w] = "stat" /\ job[w].data \in dirs
    /\ pc' = [pc EXCEPT ![w] = "stopped"]
    /\ UNCHANGED <<events, dirs, inst, waiter, ri, lock, job, made, target, signal,
                   panicked>>

NoDir(w) ==
    /\ pc[w] = "stat" /\ job[w].data \notin dirs
    /\ pc' = [pc EXCEPT ![w] = "mkdir"]
    /\ UNCHANGED <<events, dirs, inst, waiter, ri, lock, job, made, target, signal,
                   panicked>>

(* MkdirAll is content with a directory that another tunnel of equal Data  *)
(* has made meanwhile.                                                     *)
MakeDir(w) ==
    /\ pc[w] = "mkdir"
    /\ dirs' = dirs \cup {job[w].data}
    /\ pc' = [pc EXCEPT ![w] = "files"]
    /\ UNCHANGED <<events, inst, waiter, ri, lock, job, made, target, signal, panicked>>

MakeDirFails(w) ==
    /\ MayFail
    /\ pc[w] = "mkdir"
    /\ StopTarget(w, made[w])
    /\ UNCHANGED <<events, dirs, inst, waiter, ri, lock, job, made, signal, panicked>>

(* The credentials need the tunnel's id and its secret, and both files     *)
(* need the directory, which another goroutine may have removed.           *)
WriteFiles(w) ==
    /\ pc[w] = "files"
    /\ job[w].id /\ job[w].data \in dirs
    /\ pc' = [pc EXCEPT ![w] = "dns"]
    /\ UNCHANGED <<events, dirs, inst, waiter, ri, lock, job, made, target, signal,
                   panicked>>

(* Variant: the failure stops the instance of the Tunnel, not the new one. *)
WriteFilesFails_StopsOld(w) ==
    /\ pc[w] = "files"
    /\ MayFail \/ ~job[w].id \/ job[w].data \notin dirs
    /\ StopTarget(w, ri[TunnelOf[w]])
    /\ UNCHANGED <<events, dirs, inst, waiter, ri, lock, job, made, signal, panicked>>

WriteFilesFails(w) ==
    /\ pc[w] = "files"
    /\ MayFail \/ ~job[w].id \/ job[w].data \notin dirs
    /\ StopTarget(w, made[w])
    /\ UNCHANGED <<events, dirs, inst, waiter, ri, lock, job, made, signal, panicked>>

(* The names of the rules are registered, with the mutex held.  getZones   *)
(* may keep the goroutine here for ever; errors are ignored.               *)
RegisterNames(w) ==
    /\ pc[w] = "dns"
    /\ pc' = [pc EXCEPT ![w] = "exec"]
    /\ UNCHANGED <<events, dirs, inst, waiter, ri, lock, job, made, target, signal,
                   panicked>>

SetCommand(w) ==
    /\ pc[w] = "exec"
    /\ inst' = [inst EXCEPT ![made[w]].cmd = "unstarted"]
    /\ pc' = [pc EXCEPT ![w] = "start"]
    /\ UNCHANGED <<events, dirs, waiter, ri, lock, job, made, target, signal, panicked>>

(* LookPath fails before ri.cmd is set, the pipes or cmd.Start after it.   *)
ExecFails(w) ==
    /\ MayFail
    /\ pc[w] \in {"exec", "start"}
    /\ StopTarget(w, made[w])
    /\ UNCHANGED <<events, dirs, inst, waiter, ri, lock, job, made, signal, panicked>>

StartProcess(w) ==
    /\ pc[w] = "start"
    /\ inst' = [inst EXCEPT ![made[w]].cmd = "started", ![made[w]].proc = "running"]
    /\ pc' = [pc EXCEPT ![w] = "pid"]
    /\ UNCHANGED <<events, dirs, waiter, ri, lock, job, made, target, signal, panicked>>

(* For its log the goroutine reads ri.cmd again; then it launches waitFn.  *)
ReadPid(w) ==
    /\ pc[w] = "pid"
    /\ panicked' = (inst[made[w]].cmd = "nil")
    /\ waiter' = [waiter EXCEPT ![made[w]] = "new"]
    /\ pc' = [pc EXCEPT ![w] = "replace"]
    /\ UNCHANGED <<events, dirs, inst, ri, lock, job, made, target, signal>>

(* Variant: the old process is not stopped.                                *)
Replace_KeepsOld(w) ==
    /\ pc[w] = "replace"
    /\ ri' = [ri EXCEPT ![TunnelOf[w]] = made[w]]
    /\ pc' = [pc EXCEPT ![w] = "stopped"]
    /\ UNCHANGED <<events, dirs, inst, waiter, lock, job, made, target, signal, panicked>>

(* The new process runs before the old one is stopped.                     *)
Replace(w) ==
    LET t == TunnelOf[w]
    IN  /\ pc[w] = "replace"
        /\ ri' = [ri EXCEPT ![t] = made[w]]
        /\ StopTarget(w, ri[t])
        /\ UNCHANGED <<events, dirs, inst, waiter, lock, job, made, signal, panicked>>

WatcherStops(w) ==
    /\ pc[w] \in Stages
    /\ \E to \in Stages \cup {"stopped"} :
         StopStage(target[w], pc[w], to) /\ pc' = [pc EXCEPT ![w] = to]
    /\ UNCHANGED <<events, waiter, ri, lock, job, made, target, signal>>

Unlock(w) ==
    /\ pc[w] = "stopped"
    /\ lock' = [lock EXCEPT ![TunnelOf[w]] = NoJob]
    /\ pc' = [pc EXCEPT ![w] = "idle"]
    /\ job' = [job EXCEPT ![w] = NoJob]
    /\ made' = [made EXCEPT ![w] = 0]
    /\ target' = [target EXCEPT ![w] = 0]
    /\ UNCHANGED <<events, dirs, inst, waiter, ri, signal, panicked>>

Work(w) == \/ NoChange(w) \/ NewInstance(w) \/ RefuseDir(w) \/ NoDir(w) \/ MakeDir(w)
           \/ MakeDirFails(w) \/ WriteFiles(w) \/ WriteFilesFails(w) \/ SetCommand(w)
           \/ ExecFails(w) \/ StartProcess(w) \/ ReadPid(w) \/ Replace(w)
           \/ WatcherStops(w) \/ Unlock(w)
-----------------------------------------------------------------------------
(***************************************************************************)
(* The process of an instance and the goroutine that waits for it.         *)
(***************************************************************************)
ProcessExits(i) ==
    /\ Live(i)
    /\ inst' = [inst EXCEPT ![i].proc = "exited"]
    /\ UNCHANGED <<dirs, waiter, ri, callers, signal, panicked>>

(* waitFn starts by reading ri.cmd.                                        *)
WaitBegins(i) ==
    /\ waiter[i] = "new"
    /\ panicked' = (inst[i].cmd = "nil")
    /\ waiter' = [waiter EXCEPT ![i] = "waiting"]
    /\ UNCHANGED <<dirs, inst, ri, callers, signal>>

WaitEnds(i) ==
    /\ waiter[i] = "waiting" /\ ~Live(i)
    /\ waiter' = [waiter EXCEPT ![i] = "stop"]
    /\ UNCHANGED <<dirs, inst, ri, callers, signal, panicked>>

WaiterStops(i) ==
    /\ waiter[i] \in Stages
    /\ \E to \in Stages \cup {"stopped"} :
         StopStage(i, waiter[i], to) /\ waiter' = [waiter EXCEPT ![i] = to]
    /\ UNCHANGED <<ri, callers, signal>>

(* "just in case"                                                          *)
WaiterClears(i) ==
    /\ waiter[i] = "stopped"
    /\ inst' = [inst EXCEPT ![i].cmd = "nil"]
    /\ waiter' = [waiter EXCEPT ![i] = "done"]
    /\ UNCHANGED <<dirs, ri, callers, signal, panicked>>

Waiter(i) == WaitBegins(i) \/ WaitEnds(i) \/ WaiterStops(i) \/ WaiterClears(i)
-----------------------------------------------------------------------------
(***************************************************************************)
(* SIGINT: Shutdown ranges over shutdownFns, an entry that is added        *)
(* meanwhile may be left out; then the controller exits.                   *)
(***************************************************************************)
Interrupt ==
    /\ MaySignal /\ sig = "none"
    /\ sig' = "range"
    /\ sigLen' = Len(inst)
    /\ sigLive' = {i \in Ids : Live(i)}
    /\ UNCHANGED <<dirs, inst, waiter, ri, callers, listening, sigTarget, panicked>>

(* The function that main registered takes the handler off the events.     *)
StopListening ==
    /\ sig = "range" /\ listening
    /\ listening' = FALSE
    /\ UNCHANGED <<dirs, inst, waiter, ri, callers, sig, sigTarget, sigLen, sigLive,
                   panicked>>

ShutdownPicks(i) ==
    /\ sig = "range" /\ inst[i].registered
    /\ sig' = "stop"
    /\ sigTarget' = i
    /\ UNCHANGED <<dirs, inst, waiter, ri, callers, listening, sigLen, sigLive, panicked>>

ShutdownStops ==
    /\ sig \in Stages
    /\ \E to \in Stages \cup {"stopped"} :
         /\ StopStage(sigTarget, sig, to)
         /\ sig' = IF to = "stopped" THEN "range" ELSE to
    /\ UNCHANGED <<waiter, ri, callers, listening, sigTarget, sigLen, sigLive>>

Exit ==
    /\ sig = "range" /\ ~listening
    /\ \A i \in 1 .. sigLen : ~inst[i].registered
    /\ sig' = "exited"
    /\ UNCHANGED <<dirs, inst, waiter, ri, callers, listening, sigTarget, sigLen, sigLive,
                   panicked>>

Shutdown == StopListening \/ ShutdownStops \/ Exit \/ \E i \in Ids : ShutdownPicks(i)
-----------------------------------------------------------------------------
Alive == ~panicked /\ sig # "exited"

Next == /\ Alive
        /\ \/ \E w \in Watchers : Deliver(w) \/ Lock(w) \/ RegisterNames(w) \/ Work(w)
           \/ \E i \in Ids : ProcessExits(i) \/ Waiter(i)
           \/ Interrupt \/ Shutdown

Spec == Init /\ [][Next]_vars
-----------------------------------------------------------------------------
(* A watcher makes an instance: its process is to be started, or has just  *)
(* been.                                                                   *)
Making(w)  == pc[w] \in {"stat", "mkdir", "files", "dns", "exec", "start"}
Started(w) == pc[w] \in {"pid", "replace"}

TypeOK ==
    /\ events \in 0 .. MaxEvents
    /\ dirs \subseteq Datas
    /\ inst \in Seq(Instances)
    /\ waiter \in Seq({"none", "new", "waiting", "stopped", "done"} \cup Stages)
    /\ Len(waiter) = Len(inst)
    /\ ri \in [Tunnels -> {0} \cup Ids]
    /\ lock \in [Tunnels -> Watchers \cup {NoJob}]
    /\ pc \in [Watchers -> {"idle", "lock", "compare", "stat", "mkdir", "files", "dns",
                            "exec", "start", "pid", "replace", "stopped"} \cup Stages]
    /\ job \in [Watchers -> Jobs \cup {NoJob}]
    /\ \A w \in Watchers : pc[w] # "idle" => job[w] \in Jobs
    /\ \A w \in Watchers :
           pc[w] = "compare" \/ Making(w) \/ Started(w) => job[w].op = "start"
    /\ made \in [Watchers -> {0} \cup Ids]
    /\ \A w \in Watchers : Making(w) \/ Started(w) => made[w] \in Ids
    /\ target \in [Watchers -> {0} \cup Ids]
    /\ \A w \in Watchers : pc[w] \in Stages => target[w] \in Ids
    /\ listening \in BOOLEAN
    /\ sig \in {"none", "range", "exited"} \cup Stages
    /\ sigTarget \in {0} \cup Ids
    /\ sig \in Stages => sigTarget \in Ids
    /\ sigLen \in 0 .. Len(inst)
    /\ sigLive \subseteq Ids
    /\ panicked \in BOOLEAN

(***************************************************************************)
(* What is to be relied on.                                                *)
(***************************************************************************)
(* Somebody is in Stop of i, and has not killed its process yet.           *)
AboutToKill(i) ==
    \/ \E w \in Watchers : pc[w] \in EarlyStages /\ target[w] = i
    \/ sig \in EarlyStages /\ sigTarget = i

(* No process runs unknown to its Tunnel: it is the one in Tunnel.ri, or   *)
(* the one that is about to be put there, or somebody is about to kill it. *)
(* In particular a tunnel has at most one process that stays.              *)
NoStrays ==
    Alive => \A i \in Ids : Live(i) =>
                 \/ ri[inst[i].tunnel] = i
                 \/ \E w \in Watchers : Started(w) /\ made[w] = i
                 \/ AboutToKill(i)

(* A process is killed for one of three reasons: a newer one of its tunnel *)
(* has been started, its ConfigMap was deleted, or the controller ends.  A *)
(* start that fails leaves the old process alone.                          *)
KeepsServing ==
    [][\A i \in Ids : Live(i) /\ inst'[i].proc = "killed" =>
          \/ \E r \in Ids \ {i} : ri[inst[i].tunnel] = r /\ inst[r].proc # "none"
          \/ \E w \in Watchers : target[w] = i /\ job[w].op = "stop"
          \/ sig \in Stages]_vars

(* A process that ran when SIGINT came is not forgotten by Shutdown: as    *)
(* long as it runs and the controller lives, Shutdown will still come to   *)
(* it, or another goroutine is in Stop of it; and when the controller      *)
(* exits, only the latter may be left.  A controller that dies of a nil    *)
(* pointer instead leaves behind whatever still runs (DiesOfASecondStop).  *)
InterruptStopsAll ==
    sig # "none" /\ ~panicked =>
        \A i \in sigLive : Live(i) =>
            \/ sig # "exited" /\ inst[i].registered
            \/ AboutToKill(i)

(* When all goroutines have come to rest, a directory is that of a running *)
(* process, or of a start that has failed: its instance never got a        *)
(* process and is unregistered, so that not even SIGINT will remove it.    *)
AtRest == /\ Alive /\ sig = "none"
          /\ \A w \in Watchers : pc[w] = "idle"
          /\ \A i \in Ids : waiter[i] \in {"none", "waiting", "done"}
          /\ \A i \in Ids : waiter[i] = "waiting" => Live(i)

Tried(i) == inst[i].proc # "none"

LeftoversExplained ==
    AtRest => \A d \in dirs : \E i \in Ids :
                  inst[i].data = d /\ (Live(i) \/ (~Tried(i) /\ ~inst[i].registered))

(* "already running" is said of what runs.                                 *)
RefusedIsRunning ==
    \A w \in Watchers :
        pc[w] = "stat" /\ job[w].data \in dirs =>
            \E i \in Ids : Live(i) /\ inst[i].data = job[w].data

AtStage(stage, i) ==
    \/ \E w \in Watchers : pc[w] = stage /\ target[w] = i
    \/ sig = stage /\ sigTarget = i
    \/ waiter[i] = stage

UsesCommand(i) ==
    \/ AtStage("kill", i)
    \/ waiter[i] = "new"
    \/ \E w \in Watchers : pc[w] = "pid" /\ made[w] = i

IsOver(i) == inst[i].proc \in {"killed", "exited"}

FailedToStart(i) == \E w \in Watchers : pc[w] = "kill" /\ target[w] = i /\ made[w] = i

DiesOver(i) ==
    /\ ~inst[i].registered
    /\ \/ AtStage("call", i) /\ ~inst[i].unreg /\ (IsOver(i) \/ sig # "none")
       \/ UsesCommand(i) /\ inst[i].cmd = "nil" /\ IsOver(i)
       \/ /\ AtStage("kill", i) /\ inst[i].cmd = "unstarted"
          /\ FailedToStart(i) \/ sig # "none"

(* The controller dies of a nil pointer or function only in one of three   *)
(* ways: of two Stops of an instance at once the slower one calls a        *)
(* function that the other has set to nil, and this with the process still *)
(* running only after SIGINT; or ri.cmd is cleared by one goroutine while  *)
(* another uses it, when the process is over; or Stop meets a command that *)
(* was not started, whose start has failed or which SIGINT finds as it is  *)
(* being started.  Never because an instance did not get as far as its     *)
(* command.                                                                *)
DiesOfASecondStop == [][~panicked /\ panicked' => \E i \in Ids : DiesOver(i)]_vars
=============================================================================
