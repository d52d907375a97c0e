------------------------- MODULE TunnelRunnerProofs -------------------------
(***************************************************************************)
(* Theorems about TunnelRunner, for every set of watchers, tunnels and     *)
(* Data and every bound.                                                   *)
(***************************************************************************)
EXTENDS TunnelRunner, SequenceTheorems, TLAPS

(***************************************************************************)
(* Why NoStrays, InterruptStopsAll, KeepsServing and DiesOfASecondStop     *)
(* hold, until the controller dies.                                        *)
(***************************************************************************)
(* The stages of Stop at which the shutdown function has been called.      *)
PastCall == {"forget", "check", "kill", "remove", "clear"}

(* A command that runs is known to its instance, and one that is not known *)
(* any more is over and cannot be stopped by SIGINT.                       *)
CommandInv ==
    \A i \in Ids : /\ Live(i) => inst[i].cmd = "started"
                   /\ inst[i].cmd = "started" => Tried(i)
                   /\ inst[i].cmd = "unstarted" => ~Tried(i)
                   /\ inst[i].cmd = "nil" /\ Tried(i) => ~inst[i].registered
                   /\ inst[i].registered => inst[i].unreg

(* Who waits for a process goes on to Stop when it is over.                *)
WaiterInv ==
    \A i \in Ids : /\ waiter[i] # "none" => Tried(i)
                   /\ waiter[i] \in Stages \cup {"stopped", "done"} => IsOver(i)
                   /\ waiter[i] = "stopped" => ~inst[i].registered

(* Each stage of Stop finds what the ones before it left; a function that  *)
(* is gone at the second look was set to nil by another Stop, and before   *)
(* SIGINT one of the two is that of the goroutine that has waited.         *)
StageInv ==
    \A i \in Ids : /\ \A s \in PastCall : AtStage(s, i) => ~inst[i].registered
                   /\ AtStage("kill", i) => inst[i].cmd # "nil" \/ Tried(i)
                   /\ AtStage("remove", i) \/ AtStage("clear", i) => IsOver(i)

CallInv ==
    sig = "none" =>
        \A i \in Ids : AtStage("call", i) /\ ~inst[i].unreg => IsOver(i)

(* An instance that is being made belongs to one watcher, which has the    *)
(* Tunnel to itself; only SIGINT may have unregistered it, even when its   *)
(* process runs, as long as nobody waits for that.                         *)
LockInv ==
    \A w \in Watchers :
        /\ pc[w] \notin {"idle", "lock"} => lock[TunnelOf[w]] = w
        /\ \A v \in Watchers \ {w} : made[v] = made[w] => made[w] = 0

MakingInv ==
    \A w \in Watchers :
        Making(w) =>
            /\ inst[made[w]].tunnel = TunnelOf[w]
            /\ inst[made[w]].cmd = IF pc[w] = "start" THEN "unstarted" ELSE "nil"
            /\ ~Tried(made[w])
            /\ sig = "none" => inst[made[w]].registered

StartedInv ==
    \A w \in Watchers :
        /\ Started(w) => /\ inst[made[w]].tunnel = TunnelOf[w] /\ Tried(made[w])
                         /\ ri[TunnelOf[w]] # made[w]
        /\ pc[w] = "pid" => /\ waiter[made[w]] = "none"
                            /\ sig = "none" => inst[made[w]].registered

(* What a watcher stops is an instance of its Tunnel: because the          *)
(* ConfigMap was deleted, or the one it could not start, or the one before *)
(* that which it has started.                                              *)
TargetInv ==
    \A w \in Watchers : pc[w] \in Stages =>
        /\ inst[target[w]].tunnel = TunnelOf[w]
        /\ \/ job[w].op = "stop" /\ Tried(target[w])
           \/ /\ job[w].op = "start"
              /\ target[w] = made[w] /\ ~Tried(made[w])
           \/ /\ job[w].op = "start"
              /\ target[w] # made[w] /\ Tried(target[w])
              /\ made[w] \in Ids /\ ri[TunnelOf[w]] = made[w] /\ Tried(made[w])

RiInv == \A t \in Tunnels : ri[t] # 0 => inst[ri[t]].tunnel = t /\ Tried(ri[t])

(* What runs can be stopped by SIGINT, or is about to be killed.           *)
Stoppable(i) == Live(i) => inst[i].registered \/ AboutToKill(i)

SignalInv ==
    /\ sig = "none" => \A i \in Ids : Stoppable(i)
    /\ sig # "none" => \A i \in sigLive : i <= sigLen /\ Tried(i) /\ Stoppable(i)
    /\ sig = "exited" => \A i \in 1 .. sigLen : ~inst[i].registered

(* What runs is known to its Tunnel, or soon will be, or soon be killed.   *)
StrayInv ==
    \A i \in Ids : Live(i) => \/ ri[inst[i].tunnel] = i
                              \/ \E w \in Watchers : Started(w) /\ made[w] = i
                              \/ AboutToKill(i)

(* The mutex of a Tunnel is held by the watcher that is at work on it, and *)
(* by nobody else; so it is released at every way out of Start and Stop.   *)
MutexInv ==
    \A t \in Tunnels, w \in Watchers :
        lock[t] = w <=> TunnelOf[w] = t /\ pc[w] \notin {"idle", "lock"}

RunnerInv ==
    IF panicked THEN sig # "exited"
    ELSE /\ CommandInv /\ WaiterInv /\ StageInv /\ CallInv /\ LockInv /\ MakingInv
         /\ StartedInv /\ TargetInv /\ RiInv /\ SignalInv /\ StrayInv
-----------------------------------------------------------------------------
(***************************************************************************)
(* Why LeftoversExplained holds, and NoLeftovers if no start fails.        *)
(***************************************************************************)
(* A Stop of i will remove its directory: the one that is on its way to do *)
(* so, or else that of the goroutine that waits for the process, unless    *)
(* another one, which has removed it, ends first.                          *)
Removing(i) ==
    \/ AtStage("kill", i) \/ AtStage("remove", i)
    \/ /\ waiter[i] \in {"new", "waiting"} \cup (EarlyStages \ {"kill"})
       /\ inst[i].cmd # "nil" /\ ~AtStage("clear", i)

(* A directory is made for a process that is started in it next, and stays *)
(* until that process is over.                                             *)
Preparing(w) == pc[w] \in {"files", "dns", "exec", "start", "pid"}

InUse(d) == \/ \E w \in Watchers : Preparing(w) /\ job[w].data = d
            \/ \E i \in Ids : inst[i].data = d /\ Removing(i)

DirInv == sig = "none" /\ ~panicked => \A d \in dirs : InUse(d)

(* What is left behind when starts may fail: the directory of an instance  *)
(* that never gets a process because its start has failed, so that it is   *)
(* unregistered, or about to be.  One that was refused stays registered.   *)
Failed(i) == /\ ~Tried(i)
             /\ \A w \in Watchers : Making(w) => made[w] # i
             /\ ~inst[i].registered \/ AtStage("stop", i) \/ AtStage("call", i)

LeftInv == sig = "none" /\ ~panicked =>
               \A d \in dirs : InUse(d) \/ \E i \in Ids : inst[i].data = d /\ Failed(i)

(* When all goroutines have come to rest, no directory is left but those   *)
(* of running processes.                                                   *)
NoLeftovers == AtRest => \A d \in dirs : \E i \in Ids : Live(i) /\ inst[i].data = d

(* What a watcher makes is what it was told to.                            *)
MadeInv ==
    \A w \in Watchers :
        /\ pc[w] # "idle" /\ job[w].op = "start" => job[w].id \/ IdMayMiss
        /\ Making(w) \/ Started(w) => inst[made[w]].data = job[w].data
-----------------------------------------------------------------------------
(* An edit of one instance leaves the others alone.                        *)
LEMMA EditOne ==
    ASSUME inst \in Seq(Instances), NEW i \in Ids, NEW v \in Instances,
           inst' = [inst EXCEPT ![i] = v]
    PROVE  /\ inst' \in Seq(Instances) /\ Len(inst') = Len(inst) /\ Ids' = Ids
           /\ inst'[i] = v
           /\ \A j \in Ids : j # i => inst'[j] = inst[j]
<1>1. Ids = 1 .. Len(inst) /\ inst' \in Seq(Instances) /\ Len(inst') = Len(inst)
  BY ExceptSeq DEF Ids
<1>2. DOMAIN inst' = DOMAIN inst
  OBVIOUS
<1> QED
  BY <1>1, <1>2 DEF Ids

(* The fields of an instance, and that they are all it has.                *)
LEMMA Fields ==
    ASSUME inst \in Seq(Instances), NEW i \in Ids
    PROVE  /\ inst[i] \in Instances
           /\ inst[i].tunnel \in Tunnels /\ inst[i].data \in Datas
           /\ inst[i].cmd \in {"nil", "unstarted", "started"}
           /\ inst[i].proc \in {"none", "running", "killed", "exited"}
           /\ inst[i].registered \in BOOLEAN /\ inst[i].unreg \in BOOLEAN
<1>1. inst[i] \in Instances
  BY ElementOfSeq DEF Ids
<1> QED
  BY <1>1 DEF Instances

(* What an edit of instance i leaves alone.                                *)
Edited(i) ==
    /\ inst' \in Seq(Instances) /\ Len(inst') = Len(inst) /\ Ids' = Ids
    /\ \A j \in Ids : j # i => inst'[j] = inst[j]
    /\ inst'[i].tunnel = inst[i].tunnel /\ inst'[i].data = inst[i].data

(* The edits of an instance: of its command, of its process, of both, of   *)
(* the shutdown function.                                                  *)
LEMMA CommandEffect ==
    ASSUME inst \in Seq(Instances), NEW i \in Ids, NEW c \in {"nil", "unstarted"},
           inst' = [inst EXCEPT ![i].cmd = c]
    PROVE  /\ Edited(i)
           /\ inst'[i].cmd = c /\ inst'[i].proc = inst[i].proc
           /\ inst'[i].registered = inst[i].registered /\ inst'[i].unreg = inst[i].unreg
<1> DEFINE v == [inst[i] EXCEPT !.cmd = c]
<1>1. /\ v \in Instances /\ v.tunnel = inst[i].tunnel /\ v.data = inst[i].data
      /\ v.registered = inst[i].registered /\ v.unreg = inst[i].unreg
      /\ v.cmd = c /\ v.proc = inst[i].proc
  BY Fields DEF Instances
<1>2. inst' = [inst EXCEPT ![i] = v]
  OBVIOUS
<1> HIDE DEF v
<1> QED
  BY <1>1, <1>2, EditOne DEF Edited

LEMMA ProcessEffect ==
    ASSUME inst \in Seq(Instances), NEW i \in Ids, NEW p \in {"killed", "exited"},
           inst' = [inst EXCEPT ![i].proc = p]
    PROVE  /\ Edited(i)
           /\ inst'[i].cmd = inst[i].cmd /\ inst'[i].proc = p
           /\ inst'[i].registered = inst[i].registered /\ inst'[i].unreg = inst[i].unreg
<1> DEFINE v == [inst[i] EXCEPT !.proc = p]
<1>1. /\ v \in Instances /\ v.tunnel = inst[i].tunnel /\ v.data = inst[i].data
      /\ v.registered = inst[i].registered /\ v.unreg = inst[i].unreg
      /\ v.cmd = inst[i].cmd /\ v.proc = p
  BY Fields DEF Instances
<1>2. inst' = [inst EXCEPT ![i] = v]
  OBVIOUS
<1> HIDE DEF v
<1> QED
  BY <1>1, <1>2, EditOne DEF Edited

LEMMA StartEffect ==
    ASSUME inst \in Seq(Instances), NEW i \in Ids,
           inst' = [inst EXCEPT ![i].cmd = "started", ![i].proc = "running"]
    PROVE  /\ Edited(i)
           /\ inst'[i].cmd = "started" /\ inst'[i].proc = "running"
           /\ inst'[i].registered = inst[i].registered /\ inst'[i].unreg = inst[i].unreg
<1> DEFINE v == [[inst[i] EXCEPT !.cmd = "started"] EXCEPT !.proc = "running"]
<1>1. /\ v \in Instances /\ v.tunnel = inst[i].tunnel /\ v.data = inst[i].data
      /\ v.registered = inst[i].registered /\ v.unreg = inst[i].unreg
      /\ v.cmd = "started" /\ v.proc = "running"
  BY Fields DEF Instances
<1>2. inst' = [inst EXCEPT ![i] = v]
  OBVIOUS
<1> HIDE DEF v
<1> QED
  BY <1>1, <1>2, EditOne DEF Edited

LEMMA UnregisterEffect ==
    ASSUME inst \in Seq(Instances), NEW i \in Ids,
           inst' = [inst EXCEPT ![i].registered = FALSE]
    PROVE  /\ Edited(i)
           /\ inst'[i].cmd = inst[i].cmd /\ inst'[i].proc = inst[i].proc
           /\ inst'[i].registered = FALSE /\ inst'[i].unreg = inst[i].unreg
<1> DEFINE v == [inst[i] EXCEPT !.registered = FALSE]
<1>1. /\ v \in Instances /\ v.tunnel = inst[i].tunnel /\ v.data = inst[i].data
      /\ v.registered = FALSE /\ v.unreg = inst[i].unreg
      /\ v.cmd = inst[i].cmd /\ v.proc = inst[i].proc
  BY Fields DEF Instances
<1>2. inst' = [inst EXCEPT ![i] = v]
  OBVIOUS
<1> HIDE DEF v
<1> QED
  BY <1>1, <1>2, EditOne DEF Edited

LEMMA ForgetEffect ==
    ASSUME inst \in Seq(Instances), NEW i \in Ids,
           inst' = [inst EXCEPT ![i].unreg = FALSE]
    PROVE  /\ Edited(i)
           /\ inst'[i].cmd = inst[i].cmd /\ inst'[i].proc = inst[i].proc
           /\ inst'[i].unreg = FALSE /\ inst'[i].registered = inst[i].registered
<1> DEFINE v == [inst[i] EXCEPT !.unreg = FALSE]
<1>1. /\ v \in Instances /\ v.tunnel = inst[i].tunnel /\ v.data = inst[i].data
      /\ v.unreg = FALSE /\ v.registered = inst[i].registered
      /\ v.cmd = inst[i].cmd /\ v.proc = inst[i].proc
  BY Fields DEF Instances
<1>2. inst' = [inst EXCEPT ![i] = v]
  OBVIOUS
<1> HIDE DEF v
<1> QED
  BY <1>1, <1>2, EditOne DEF Edited

(* What a stage of the Stop of i does to it, and where it goes on; it      *)
(* panics at "call" and at "kill" only, and leaves the instance alone.     *)
SameBut(i, field) ==
    /\ field # "cmd" => inst'[i].cmd = inst[i].cmd
    /\ field # "proc" => inst'[i].proc = inst[i].proc
    /\ field # "registered" => inst'[i].registered = inst[i].registered
    /\ field # "unreg" => inst'[i].unreg = inst[i].unreg

Unpanicked == panicked' = panicked

StageMove(i, from, to) ==
    \/ /\ from = "stop" /\ to = IF inst[i].unreg THEN "call" ELSE "check"
       /\ SameBut(i, "") /\ Unpanicked
    \/ /\ from = "call" /\ to = "forget"
       /\ SameBut(i, "registered")
       /\ IF inst[i].unreg THEN inst'[i].registered = FALSE /\ Unpanicked ELSE panicked'
    \/ /\ from = "forget" /\ to = "check"
       /\ SameBut(i, "unreg") /\ inst'[i].unreg = FALSE /\ Unpanicked
    \/ /\ from = "check" /\ to = IF inst[i].cmd = "nil" THEN "stopped" ELSE "kill"
       /\ SameBut(i, "") /\ Unpanicked
    \/ /\ from = "kill" /\ to = "remove"
       /\ SameBut(i, "proc")
       /\ IF inst[i].cmd = "started"
          THEN inst'[i].proc = (IF Live(i) THEN "killed" ELSE inst[i].proc) /\ Unpanicked
          ELSE panicked'
    \/ /\ from = "remove" /\ to = "clear"
       /\ SameBut(i, "") /\ Unpanicked
    \/ /\ from = "clear" /\ to = "stopped"
       /\ SameBut(i, "cmd") /\ inst'[i].cmd = "nil" /\ Unpanicked

StageChange(i, from, to) ==
    /\ Edited(i) /\ StageMove(i, from, to)
    /\ panicked' => inst' = inst \/ panicked
    /\ dirs' = IF from = "remove" THEN dirs \ {inst[i].data} ELSE dirs
    /\ panicked' \in BOOLEAN

(* Every stage is such a change.                                           *)
LEMMA StageEffect ==
    ASSUME inst \in Seq(Instances), NEW i \in Ids, NEW from, NEW to,
           panicked \in BOOLEAN, StopStage(i, from, to)
    PROVE  StageChange(i, from, to)
<1>1. inst' = inst => Edited(i)
  BY DEF Edited, Ids
<1>2. CASE from = "stop" /\ StopFirst(i, to)
  BY <1>1, <1>2 DEF StopFirst, StageChange, StageMove, SameBut, Unpanicked
<1>3. CASE from = "call" /\ StopCall(i, to)
  <2>1. CASE inst[i].unreg
    <3>1. inst' = [inst EXCEPT ![i].registered = FALSE]
      BY <1>3, <2>1 DEF StopCall
    <3> QED
      BY <1>3, <2>1, <3>1, UnregisterEffect
         DEF StopCall, StageChange, StageMove, SameBut, Unpanicked
  <2>2. CASE ~inst[i].unreg
    BY <1>1, <1>3, <2>2 DEF StopCall, StageChange, StageMove, SameBut, Unpanicked
  <2> QED
    BY <2>1, <2>2
<1>4. CASE from = "forget" /\ StopForget(i, to)
  <2>1. inst' = [inst EXCEPT ![i].unreg = FALSE]
    BY <1>4 DEF StopForget
  <2> QED
    BY <1>4, <2>1, ForgetEffect
       DEF StopForget, StageChange, StageMove, SameBut, Unpanicked
<1>5. CASE from = "check" /\ StopCheck(i, to)
  BY <1>1, <1>5 DEF StopCheck, StageChange, StageMove, SameBut, Unpanicked
<1>6. CASE from = "kill" /\ StopKill(i, to)
  <2>1. CASE inst[i].cmd = "started" /\ Live(i)
    <3>1. inst' = [inst EXCEPT ![i].proc = "killed"]
      BY <1>6, <2>1 DEF StopKill, Live
    <3> QED
      BY <1>6, <2>1, <3>1, ProcessEffect
         DEF StopKill, StageChange, StageMove, SameBut, Unpanicked
  <2>2. CASE inst[i].cmd = "started" /\ ~Live(i)
    <3> DEFINE v == [inst[i] EXCEPT !.proc = inst[i].proc]
    <3>1. /\ v \in Instances /\ v.tunnel = inst[i].tunnel /\ v.data = inst[i].data
          /\ v.registered = inst[i].registered /\ v.unreg = inst[i].unreg
          /\ v.cmd = inst[i].cmd /\ v.proc = inst[i].proc
      BY Fields DEF Instances
    <3>2. inst' = [inst EXCEPT ![i] = v]
      BY <1>6, <2>2 DEF StopKill, Live
    <3> HIDE DEF v
    <3>3. Edited(i) /\ SameBut(i, "proc") /\ inst'[i].proc = inst[i].proc
      BY <3>1, <3>2, EditOne DEF Edited, SameBut
    <3> QED
      BY <1>6, <2>2, <3>3 DEF StopKill, StageChange, StageMove, Unpanicked
  <2>3. CASE inst[i].cmd # "started"
    BY <1>1, <1>6, <2>3 DEF StopKill, StageChange, StageMove, SameBut, Unpanicked
  <2> QED
    BY <2>1, <2>2, <2>3
<1>7. CASE from = "remove" /\ StopRemove(i, to)
  BY <1>1, <1>7 DEF StopRemove, StageChange, StageMove, SameBut, Unpanicked
<1>8. CASE from = "clear" /\ StopClear(i, to)
  BY <1>8, CommandEffect DEF StopClear, StageChange, StageMove, SameBut, Unpanicked
<1> QED
  BY <1>2, <1>3, <1>4, <1>5, <1>6, <1>7, <1>8 DEF StopStage

(* A new instance is the last one, and nobody waits for it yet.            *)
LEMMA NewEffect ==
    ASSUME TypeOK, NEW w \in Watchers, NewInstance(w)
    PROVE  LET n == Len(inst) + 1
           IN  /\ inst' \in Seq(Instances) /\ Len(inst') = n /\ Ids' = Ids \cup {n}
               /\ n \notin Ids /\ n \in Nat \ {0}
               /\ \A j \in Ids : inst'[j] = inst[j] /\ waiter'[j] = waiter[j]
               /\ inst'[n].tunnel = TunnelOf[w] /\ inst'[n].data = job[w].data
               /\ inst'[n].registered /\ inst'[n].unreg
               /\ inst'[n].cmd = "nil" /\ inst'[n].proc = "none"
               /\ waiter' \in Seq({"none", "new", "waiting", "stopped", "done"} \cup Stages)
               /\ Len(waiter') = n /\ waiter'[n] = "none"
<1> DEFINE v == [tunnel |-> TunnelOf[w], data |-> job[w].data,
                 cmd |-> "nil", proc |-> "none",
                 registered |-> TRUE, unreg |-> TRUE]
           W == {"none", "new", "waiting", "stopped", "done"} \cup Stages
<1>1. job[w].data \in Datas
  BY DEF TypeOK, NewInstance, Jobs
<1>2. v \in Instances
  BY <1>1, TunnelOfAssumption DEF Instances
<1>3. /\ v.tunnel = TunnelOf[w] /\ v.data = job[w].data
      /\ v.registered /\ v.unreg /\ v.cmd = "nil" /\ v.proc = "none"
  OBVIOUS
<1>4. inst' = Append(inst, v) /\ waiter' = Append(waiter, "none")
  BY DEF NewInstance
<1>5. inst \in Seq(Instances) /\ waiter \in Seq(W) /\ Len(waiter) = Len(inst)
  BY DEF TypeOK
<1> HIDE DEF v, W
<1>6. "none" \in W
  BY DEF W
<1>7. /\ inst' \in Seq(Instances) /\ Len(inst') = Len(inst) + 1
      /\ \A j \in 1 .. Len(inst) : inst'[j] = inst[j]
      /\ inst'[Len(inst) + 1] = v
  BY <1>2, <1>4, <1>5, AppendProperties
<1>8. /\ waiter' \in Seq(W) /\ Len(waiter') = Len(inst) + 1
      /\ \A j \in 1 .. Len(inst) : waiter'[j] = waiter[j]
      /\ waiter'[Len(inst) + 1] = "none"
  BY <1>4, <1>5, <1>6, AppendProperties
<1>9. Ids = 1 .. Len(inst) /\ Ids' = 1 .. Len(inst) + 1 /\ Len(inst) \in Nat
  BY <1>5, <1>7 DEF Ids
<1> QED
  BY <1>3, <1>7, <1>8, <1>9 DEF W

(* The goroutine that waits for a process is the one of its instance.      *)
LEMMA WaiterMoves ==
    ASSUME TypeOK, NEW i \in Ids,
           NEW to \in {"none", "new", "waiting", "stopped", "done"} \cup Stages,
           waiter' = [waiter EXCEPT ![i] = to]
    PROVE  /\ waiter' \in Seq({"none", "new", "waiting", "stopped", "done"} \cup Stages)
           /\ Len(waiter') = Len(waiter)
           /\ waiter'[i] = to
           /\ \A j \in Ids : j # i => waiter'[j] = waiter[j]
<1> DEFINE W == {"none", "new", "waiting", "stopped", "done"} \cup Stages
<1>1. waiter \in Seq(W) /\ i \in 1 .. Len(waiter) /\ Ids = 1 .. Len(waiter) /\ to \in W
  BY DEF TypeOK, Ids
<1> HIDE DEF W
<1>2. /\ waiter' \in Seq(W) /\ Len(waiter') = Len(waiter)
      /\ \A j \in 1 .. Len(waiter) : waiter'[j] = IF j = i THEN to ELSE waiter[j]
  BY <1>1, ExceptSeq
<1> QED
  BY <1>1, <1>2 DEF W
-----------------------------------------------------------------------------
(* The pieces of TypeOK that a step of the watchers, and one of the other  *)
(* goroutines, leaves alone.                                               *)
LEMMA TypeStep ==
    ASSUME TypeOK, Next
    PROVE  TypeOK'
<1> USE BoundAssumption, TunnelOfAssumption
<1>1. ASSUME NEW w \in Watchers, Deliver(w)
      PROVE  TypeOK'
  <2>1. PICK j \in Jobs : job' = [job EXCEPT ![w] = j]
    BY <1>1 DEF Deliver
  <2>2. Ids' = Ids
    BY <1>1 DEF Deliver, Ids
  <2> QED
    BY <1>1, <2>1, <2>2 DEF TypeOK, Deliver, Making, Started, Stages, EarlyStages, signal
<1>2. ASSUME NEW w \in Watchers, Lock(w)
      PROVE  TypeOK'
  <2>1. Ids' = Ids
    BY <1>2 DEF Lock, Ids
  <2>2. ri[TunnelOf[w]] \in {0} \cup Ids
    BY DEF TypeOK
  <2>3. CASE job[w].op = "start"
    BY <1>2, <2>1, <2>3, SMTT(30)
       DEF TypeOK, Lock, Making, Started, Stages, EarlyStages, signal
  <2>4. CASE job[w].op # "start"
    <3>1. PICK t \in Tunnels, p \in {"stop", "stopped"} :
             /\ t = TunnelOf[w] /\ lock' = [lock EXCEPT ![t] = w]
             /\ pc' = [pc EXCEPT ![w] = p] /\ target' = [target EXCEPT ![w] = ri[t]]
             /\ p = "stop" => ri[t] # 0
      BY <1>2, <2>4 DEF Lock, StopTarget
    <3>2. /\ pc[w] = "lock" /\ made' = made /\ job' = job
          /\ UNCHANGED <<events, dirs, inst, waiter, ri, panicked>>
          /\ UNCHANGED <<listening, sig, sigTarget, sigLen, sigLive>>
      BY <1>2 DEF Lock, signal
    <3> QED
      BY <2>1, <2>2, <3>1, <3>2 DEF TypeOK, Making, Started, Stages, EarlyStages
  <2> QED
    BY <2>3, <2>4
<1>3. ASSUME NEW w \in Watchers,
             \/ NoChange(w) \/ RefuseDir(w) \/ NoDir(w) \/ MakeDir(w) \/ WriteFiles(w)
             \/ RegisterNames(w) \/ Unlock(w)
      PROVE  TypeOK'
  <2>1. Ids' = Ids
    BY <1>3 DEF NoChange, RefuseDir, NoDir, MakeDir, WriteFiles, RegisterNames, Unlock, Ids
  <2>2. CASE NoChange(w) \/ RefuseDir(w) \/ NoDir(w) \/ WriteFiles(w) \/ RegisterNames(w)
    BY <2>1, <2>2 DEF TypeOK, NoChange, RefuseDir, NoDir, WriteFiles, RegisterNames, Making,
       Started, Stages, EarlyStages, signal
  <2>3. CASE MakeDir(w)
    <3>1. dirs' \subseteq Datas
      BY <2>3 DEF TypeOK, MakeDir, Making, Jobs
    <3> QED
      BY <2>1, <2>3, <3>1 DEF TypeOK, MakeDir, Making, Started, Stages, EarlyStages, signal
  <2>4. CASE Unlock(w)
    BY <2>1, <2>4 DEF TypeOK, Unlock, Making, Started, Stages, EarlyStages, signal
  <2> QED
    BY <1>3, <2>2, <2>3, <2>4
<1>4. ASSUME NEW w \in Watchers, MakeDirFails(w) \/ WriteFilesFails(w) \/ ExecFails(w)
      PROVE  TypeOK'
  <2>1. Ids' = Ids
    BY <1>4 DEF MakeDirFails, WriteFilesFails, ExecFails, Ids
  <2>2. PICK m \in Ids : m = made[w] /\ m # 0
    BY <1>4 DEF MakeDirFails, WriteFilesFails, ExecFails, TypeOK, Making, Ids
  <2>3. /\ pc' = [pc EXCEPT ![w] = "stop"] /\ target' = [target EXCEPT ![w] = m]
        /\ pc[w] \in {"mkdir", "files", "exec", "start"}
        /\ UNCHANGED <<events, dirs, inst, waiter, ri, lock, job, made, panicked>>
        /\ UNCHANGED <<listening, sig, sigTarget, sigLen, sigLive>>
    BY <1>4, <2>2 DEF MakeDirFails, WriteFilesFails, ExecFails, StopTarget, signal
  <2> QED
    BY <2>1, <2>2, <2>3 DEF TypeOK, Making, Started, Stages, EarlyStages
<1>5. ASSUME NEW w \in Watchers, NewInstance(w)
      PROVE  TypeOK'
  <2> DEFINE n == Len(inst) + 1
  <2>1. /\ inst' \in Seq(Instances) /\ Len(inst') = n /\ Ids' = Ids \cup {n}
        /\ waiter' \in Seq({"none", "new", "waiting", "stopped", "done"} \cup Stages)
        /\ Len(waiter') = n
    BY <1>5, NewEffect
  <2>2. Len(inst) \in Nat /\ sigLen' \in 0 .. n
    BY <1>5 DEF TypeOK, NewInstance, signal
  <2>3. made' = [made EXCEPT ![w] = n] /\ pc' = [pc EXCEPT ![w] = "stat"]
    BY <1>5 DEF NewInstance
  <2> HIDE DEF n
  <2> QED
    BY <1>5, <2>1, <2>2, <2>3
       DEF TypeOK, NewInstance, Making, Started, Stages, EarlyStages, signal
<1>6. ASSUME NEW w \in Watchers,
             SetCommand(w) \/ StartProcess(w) \/ ReadPid(w) \/ Replace(w)
      PROVE  TypeOK'
  <2>1. PICK m \in Ids : m = made[w] /\ m # 0
    BY <1>6 DEF SetCommand, StartProcess, ReadPid, Replace, TypeOK, Making, Started, Ids
  <2>2. CASE SetCommand(w) \/ StartProcess(w)
    <3>1. inst' \in Seq(Instances) /\ Len(inst') = Len(inst) /\ Ids' = Ids
      BY <2>1, <2>2, CommandEffect, StartEffect DEF SetCommand, StartProcess, TypeOK, Edited
    <3>2. CASE SetCommand(w)
      BY <2>1, <3>1, <3>2
         DEF TypeOK, SetCommand, Making, Started, Stages, EarlyStages, signal
    <3>3. CASE StartProcess(w)
      BY <2>1, <3>1, <3>3
         DEF TypeOK, StartProcess, Making, Started, Stages, EarlyStages, signal
    <3> QED
      BY <2>2, <3>2, <3>3
  <2>3. CASE ReadPid(w)
    <3>1. waiter' \in Seq({"none", "new", "waiting", "stopped", "done"} \cup Stages)
            /\ Len(waiter') = Len(waiter)
      BY <2>1, <2>3, WaiterMoves DEF ReadPid
    <3>2. Ids' = Ids /\ panicked' \in BOOLEAN
      BY <2>3 DEF ReadPid, Ids
    <3> QED
      BY <2>1, <2>3, <3>1, <3>2
         DEF TypeOK, ReadPid, Making, Started, Stages, EarlyStages, signal
  <2>4. CASE Replace(w)
    <3>1. PICK t \in Tunnels, p \in {"stop", "stopped"} :
             /\ t = TunnelOf[w] /\ ri' = [ri EXCEPT ![t] = m]
             /\ pc' = [pc EXCEPT ![w] = p] /\ target' = [target EXCEPT ![w] = ri[t]]
             /\ p = "stop" => ri[t] # 0
      BY <2>1, <2>4 DEF Replace, StopTarget
    <3>2. /\ pc[w] = "replace" /\ Ids' = Ids
          /\ UNCHANGED <<events, dirs, inst, waiter, lock, job, made, panicked>>
          /\ UNCHANGED <<listening, sig, sigTarget, sigLen, sigLive>>
      BY <2>4 DEF Replace, signal, Ids
    <3> QED
      BY <2>1, <3>1, <3>2 DEF TypeOK, Making, Started, Stages, EarlyStages
  <2> QED
    BY <1>6, <2>2, <2>3, <2>4
<1>7. ASSUME NEW w \in Watchers, WatcherStops(w)
      PROVE  TypeOK'
  <2>1. PICK to \in Stages \cup {"stopped"} :
           StopStage(target[w], pc[w], to) /\ pc' = [pc EXCEPT ![w] = to]
    BY <1>7 DEF WatcherStops
  <2>2. target[w] \in Ids
    BY <1>7 DEF WatcherStops, TypeOK
  <2>3. /\ inst' \in Seq(Instances) /\ Len(inst') = Len(inst) /\ Ids' = Ids
        /\ dirs' \subseteq Datas /\ panicked' \in BOOLEAN
    BY <2>1, <2>2, StageEffect DEF TypeOK, StageChange, Edited
  <2> QED
    BY <1>7, <2>1, <2>2, <2>3
       DEF TypeOK, WatcherStops, Making, Started, Stages, EarlyStages, signal
<1>8. ASSUME NEW i \in Ids, ProcessExits(i)
      PROVE  TypeOK'
  <2>1. inst' \in Seq(Instances) /\ Len(inst') = Len(inst) /\ Ids' = Ids
    BY <1>8, ProcessEffect DEF ProcessExits, TypeOK, Edited
  <2> QED
    BY <1>8, <2>1 DEF TypeOK, ProcessExits, Making, Started, callers, signal
<1>9. ASSUME NEW i \in Ids, WaitBegins(i) \/ WaitEnds(i) \/ WaiterClears(i)
      PROVE  TypeOK'
  <2>1. inst' \in Seq(Instances) /\ Len(inst') = Len(inst) /\ Ids' = Ids
    BY <1>9, CommandEffect DEF WaitBegins, WaitEnds, WaiterClears, TypeOK, Edited, Ids
  <2>2. waiter' \in Seq({"none", "new", "waiting", "stopped", "done"} \cup Stages)
           /\ Len(waiter') = Len(waiter)
    BY <1>9, WaiterMoves DEF WaitBegins, WaitEnds, WaiterClears, Stages, EarlyStages
  <2> QED
    BY <1>9, <2>1, <2>2
       DEF TypeOK, WaitBegins, WaitEnds, WaiterClears, Making, Started, callers, signal
<1>10. ASSUME NEW i \in Ids, WaiterStops(i)
       PROVE  TypeOK'
  <2>1. PICK to \in Stages \cup {"stopped"} :
           StopStage(i, waiter[i], to) /\ waiter' = [waiter EXCEPT ![i] = to]
    BY <1>10 DEF WaiterStops
  <2>2. /\ inst' \in Seq(Instances) /\ Len(inst') = Len(inst) /\ Ids' = Ids
        /\ dirs' \subseteq Datas /\ panicked' \in BOOLEAN
    BY <2>1, StageEffect DEF TypeOK, StageChange, Edited
  <2>3. waiter' \in Seq({"none", "new", "waiting", "stopped", "done"} \cup Stages)
           /\ Len(waiter') = Len(waiter)
    BY <2>1, WaiterMoves
  <2> QED
    BY <1>10, <2>2, <2>3 DEF TypeOK, WaiterStops, Making, Started, callers, signal
<1>11. ASSUME Interrupt \/ StopListening \/ Exit \/ \E i \in Ids : ShutdownPicks(i)
       PROVE  TypeOK'
  <2>1. Ids' = Ids /\ Len(inst) \in Nat
    BY <1>11 DEF Interrupt, StopListening, Exit, ShutdownPicks, Ids, TypeOK
  <2>2. CASE Interrupt
    BY <2>1, <2>2 DEF TypeOK, Interrupt, Making, Started, callers, Stages, EarlyStages
  <2>3. CASE StopListening \/ Exit
    BY <2>1, <2>3 DEF TypeOK, StopListening, Exit, Making, Started, callers, Stages, EarlyStages
  <2>4. ASSUME NEW i \in Ids, ShutdownPicks(i)
        PROVE  TypeOK'
    BY <2>1, <2>4 DEF TypeOK, ShutdownPicks, Making, Started, callers, Stages, EarlyStages
  <2> QED
    BY <1>11, <2>2, <2>3, <2>4
<1>12. ASSUME ShutdownStops
       PROVE  TypeOK'
  <2>1. PICK to \in Stages \cup {"stopped"} :
           /\ StopStage(sigTarget, sig, to)
           /\ sig' = IF to = "stopped" THEN "range" ELSE to
    BY <1>12 DEF ShutdownStops
  <2>2. sigTarget \in Ids
    BY <1>12 DEF ShutdownStops, TypeOK
  <2>3. /\ inst' \in Seq(Instances) /\ Len(inst') = Len(inst) /\ Ids' = Ids
        /\ dirs' \subseteq Datas /\ panicked' \in BOOLEAN
    BY <2>1, <2>2, StageEffect DEF TypeOK, StageChange, Edited
  <2> QED
    BY <1>12, <2>1, <2>3 DEF TypeOK, ShutdownStops, Making, Started, callers, Stages, EarlyStages
<1> QED
  BY <1>1, <1>2, <1>3, <1>4, <1>5, <1>6, <1>7, <1>8, <1>9, <1>10, <1>11, <1>12
     DEF Next, Work, Waiter, Shutdown

(* Type correctness of the runner.                                         *)
THEOREM TypeCorrect == Spec => []TypeOK
<1>1. Init => TypeOK
  <2> SUFFICES ASSUME Init PROVE TypeOK
    OBVIOUS
  <2>1. inst \in Seq(Instances) /\ Len(inst) = 0 /\ Ids = {}
    BY EmptySeq DEF Init, Ids
  <2>2. waiter \in Seq({"none", "new", "waiting", "stopped", "done"} \cup Stages)
           /\ Len(waiter) = 0
    BY EmptySeq DEF Init
  <2>3. /\ sigLen \in 0 .. Len(inst) /\ events \in 0 .. MaxEvents
        /\ dirs \subseteq Datas /\ sigLive \subseteq Ids
    BY <2>1, BoundAssumption DEF Init
  <2>4. /\ ri \in [Tunnels -> {0} \cup Ids]
        /\ lock \in [Tunnels -> Watchers \cup {NoJob}]
        /\ made \in [Watchers -> {0} \cup Ids] /\ target \in [Watchers -> {0} \cup Ids]
        /\ job \in [Watchers -> Jobs \cup {NoJob}]
    BY DEF Init
  <2> QED
    BY <2>1, <2>2, <2>3, <2>4 DEF Init, TypeOK, Making, Started, Stages, EarlyStages
<1>2. TypeOK /\ [Next]_vars => TypeOK'
  <2>1. CASE UNCHANGED vars
    BY <2>1 DEF TypeOK, vars, Ids, Making, Started
  <2> QED
    BY <2>1, TypeStep
<1> QED
  BY <1>1, <1>2, PTL DEF Spec
-----------------------------------------------------------------------------
(* A step of a watcher that is not in Stop, and that changes no instance.  *)
LEMMA QuietStep ==
    ASSUME TypeOK, RunnerInv, ~panicked, NEW w \in Watchers,
           UNCHANGED <<inst, waiter, ri, signal, panicked>>,
           \A v \in Watchers : v # w => pc'[v] = pc[v] /\ target'[v] = target[v],
           \A v \in Watchers : Started(v) => Started(v)' /\ made'[v] = made[v],
           pc[w] \notin Stages, pc'[w] \notin PastCall \cup {"call"},
           LockInv', MakingInv', StartedInv', TargetInv'
    PROVE  RunnerInv'
<1>1. Ids' = Ids
  BY DEF Ids
<1>2. CommandInv' /\ WaiterInv' /\ RiInv'
  BY <1>1 DEF RunnerInv, CommandInv, WaiterInv, RiInv, Live, Tried, IsOver
<1>3. \A i \in Ids : AboutToKill(i) => AboutToKill(i)'
  BY DEF AboutToKill, Stages, EarlyStages, signal
<1>4. \A i \in Ids, s \in PastCall \cup {"call"} : AtStage(s, i)' => AtStage(s, i)
  BY DEF AtStage, signal
<1>5. StageInv' /\ CallInv'
  <2>1. CallInv'
    BY <1>1, <1>4 DEF RunnerInv, CallInv, IsOver, signal
  <2>2. StageInv'
    BY <1>1, <1>4 DEF RunnerInv, StageInv, PastCall, IsOver, Tried
  <2> QED
    BY <2>1, <2>2
<1>6. SignalInv' /\ StrayInv'
  <2>1. sigLive \subseteq Ids
    BY DEF TypeOK
  <2>2. SignalInv'
    BY <1>1, <1>3, <2>1 DEF RunnerInv, SignalInv, Stoppable, Tried, Live, signal
  <2>3. StrayInv'
    BY <1>1, <1>3 DEF RunnerInv, StrayInv, Live
  <2> QED
    BY <2>2, <2>3
<1> QED
  BY <1>2, <1>5, <1>6 DEF RunnerInv

(* An event comes, a mutex is taken or given back, a start goes on.        *)
LEMMA StartSteps ==
    ASSUME TypeOK, RunnerInv, ~panicked, NEW w \in Watchers,
           \/ Deliver(w) \/ Lock(w) \/ NoChange(w) \/ RefuseDir(w) \/ NoDir(w) \/ MakeDir(w)
           \/ WriteFiles(w) \/ RegisterNames(w) \/ Unlock(w)
    PROVE  RunnerInv'
<1> USE TunnelOfAssumption, NoJobAssumption
<1>1. CASE Deliver(w)
  <2>1. PICK j \in Jobs : job' = [job EXCEPT ![w] = j]
    BY <1>1 DEF Deliver
  <2>2. /\ pc[w] = "idle" /\ pc' = [pc EXCEPT ![w] = "lock"]
        /\ UNCHANGED <<inst, waiter, ri, lock, made, target, signal, panicked>>
    BY <1>1 DEF Deliver
  <2>3. LockInv' /\ MakingInv' /\ StartedInv'
    BY <2>2 DEF RunnerInv, LockInv, MakingInv, StartedInv, TypeOK, Making, Started, Tried,
       signal
  <2>4. TargetInv'
    BY <2>1, <2>2 DEF RunnerInv, TargetInv, TypeOK, Stages, EarlyStages, Tried, Ids
  <2> QED
    BY <2>2, <2>3, <2>4, QuietStep DEF TypeOK, Stages, EarlyStages, PastCall, Started
<1>2. CASE Lock(w)
  <2> DEFINE t == TunnelOf[w]
  <2>1. /\ pc[w] = "lock" /\ lock[t] = NoJob /\ lock' = [lock EXCEPT ![t] = w]
        /\ UNCHANGED <<inst, waiter, ri, job, made, signal, panicked>>
        /\ job[w] \in Jobs
    BY <1>2 DEF Lock, TypeOK
  <2>2. \A v \in Watchers : pc[v] \notin {"idle", "lock"} => TunnelOf[v] # t
    BY <2>1 DEF RunnerInv, LockInv
  <2>3. \/ pc' = [pc EXCEPT ![w] = "compare"] /\ target' = target
        \/ /\ job[w].op = "stop" /\ target' = [target EXCEPT ![w] = ri[t]]
           /\ pc' = [pc EXCEPT ![w] = IF ri[t] = 0 THEN "stopped" ELSE "stop"]
    BY <1>2, <2>1 DEF Lock, StopTarget, Jobs
  <2>4. LockInv'
    BY <2>1, <2>2, <2>3 DEF RunnerInv, LockInv, TypeOK
  <2>5. MakingInv' /\ StartedInv'
    BY <2>1, <2>3 DEF RunnerInv, MakingInv, StartedInv, TypeOK, Making, Started, Tried, signal
  <2>6. TargetInv'
    BY <2>1, <2>2, <2>3
       DEF RunnerInv, TargetInv, RiInv, TypeOK, Stages, EarlyStages, Tried, Ids
  <2> QED
    BY <2>1, <2>3, <2>4, <2>5, <2>6, QuietStep
       DEF TypeOK, Stages, EarlyStages, PastCall, Started
<1>3. CASE \/ NoChange(w) \/ RefuseDir(w) \/ NoDir(w) \/ MakeDir(w) \/ WriteFiles(w)
           \/ RegisterNames(w)
  <2>1. /\ \/ pc[w] = "compare" /\ pc' = [pc EXCEPT ![w] = "stopped"]
           \/ pc[w] = "stat" /\ pc' = [pc EXCEPT ![w] = "stopped"]
           \/ pc[w] = "stat" /\ pc' = [pc EXCEPT ![w] = "mkdir"]
           \/ pc[w] = "mkdir" /\ pc' = [pc EXCEPT ![w] = "files"]
           \/ pc[w] = "files" /\ pc' = [pc EXCEPT ![w] = "dns"]
           \/ pc[w] = "dns" /\ pc' = [pc EXCEPT ![w] = "exec"]
        /\ UNCHANGED <<inst, waiter, ri, lock, job, made, target, signal, panicked>>
    BY <1>3 DEF NoChange, RefuseDir, NoDir, MakeDir, WriteFiles, RegisterNames
  <2>2. LockInv'
    BY <2>1 DEF RunnerInv, LockInv, TypeOK
  <2>3. MakingInv' /\ StartedInv'
    BY <2>1 DEF RunnerInv, MakingInv, StartedInv, TypeOK, Making, Started, Tried, signal
  <2>4. TargetInv'
    BY <2>1 DEF RunnerInv, TargetInv, TypeOK, Stages, EarlyStages, Tried, Ids
  <2> QED
    BY <2>1, <2>2, <2>3, <2>4, QuietStep DEF TypeOK, Stages, EarlyStages, PastCall, Started
<1>4. CASE Unlock(w)
  <2>1. /\ pc[w] = "stopped" /\ lock' = [lock EXCEPT ![TunnelOf[w]] = NoJob]
        /\ pc' = [pc EXCEPT ![w] = "idle"] /\ made' = [made EXCEPT ![w] = 0]
        /\ job' = [job EXCEPT ![w] = NoJob] /\ target' = [target EXCEPT ![w] = 0]
        /\ UNCHANGED <<inst, waiter, ri, signal, panicked>>
    BY <1>4 DEF Unlock
  <2>2. LockInv'
    BY <2>1 DEF RunnerInv, LockInv, TypeOK
  <2>3. MakingInv' /\ StartedInv'
    BY <2>1 DEF RunnerInv, MakingInv, StartedInv, TypeOK, Making, Started, Tried, signal
  <2>4. TargetInv'
    BY <2>1 DEF RunnerInv, TargetInv, TypeOK, Stages, EarlyStages, Tried, Ids
  <2> QED
    BY <2>1, <2>2, <2>3, <2>4, QuietStep DEF TypeOK, Stages, EarlyStages, PastCall, Started
<1> QED
  BY <1>1, <1>2, <1>3, <1>4

(* A start fails, and the instance that was being made is stopped.         *)
LEMMA FailSteps ==
    ASSUME TypeOK, RunnerInv, ~panicked, NEW w \in Watchers,
           MakeDirFails(w) \/ WriteFilesFails(w) \/ ExecFails(w)
    PROVE  RunnerInv'
<1>1. /\ Making(w) /\ made[w] \in Ids /\ made[w] # 0 /\ job[w].op = "start"
      /\ target' = [target EXCEPT ![w] = made[w]]
      /\ pc' = [pc EXCEPT ![w] = "stop"]
      /\ UNCHANGED <<inst, waiter, ri, lock, job, made, signal, panicked>>
  BY DEF MakeDirFails, WriteFilesFails, ExecFails, StopTarget, TypeOK, Making, Ids
<1>2. LockInv'
  BY <1>1 DEF RunnerInv, LockInv, TypeOK, Making
<1>3. MakingInv' /\ StartedInv'
  BY <1>1 DEF RunnerInv, MakingInv, StartedInv, TypeOK, Making, Started, Tried, signal
<1>4. TargetInv'
  <2>1. inst[made[w]].tunnel = TunnelOf[w] /\ ~Tried(made[w])
    BY <1>1 DEF RunnerInv, MakingInv
  <2> QED
    BY <1>1, <2>1 DEF RunnerInv, TargetInv, TypeOK, Stages, EarlyStages, Tried, Ids
<1> QED
  BY <1>1, <1>2, <1>3, <1>4, QuietStep
     DEF TypeOK, Making, Stages, EarlyStages, PastCall, Started

LEMMA NewStep ==
    ASSUME TypeOK, RunnerInv, ~panicked, NEW w \in Watchers, NewInstance(w)
    PROVE  RunnerInv'
<1>0. PICK n : n = Len(inst) + 1
  OBVIOUS
<1>1. /\ inst' \in Seq(Instances) /\ Ids' = Ids \cup {n}
      /\ n \notin Ids /\ n # 0
      /\ \A j \in Ids : inst'[j] = inst[j] /\ waiter'[j] = waiter[j]
      /\ inst'[n].tunnel = TunnelOf[w] /\ inst'[n].registered /\ inst'[n].unreg
      /\ inst'[n].cmd = "nil" /\ inst'[n].proc = "none"
      /\ waiter'[n] = "none"
  BY <1>0, NewEffect
<1>2. /\ pc[w] = "compare" /\ pc' = [pc EXCEPT ![w] = "stat"]
      /\ made' = [made EXCEPT ![w] = n]
      /\ UNCHANGED <<ri, lock, job, target, signal, panicked>>
  BY <1>0 DEF NewInstance
<1>3. CommandInv' /\ WaiterInv'
  <2>1. /\ ~Live(n)' /\ ~Tried(n)' /\ n \notin Ids
        /\ \A j \in Ids : /\ Live(j)' <=> Live(j)
                          /\ Tried(j)' <=> Tried(j)
                          /\ IsOver(j)' <=> IsOver(j)
    BY <1>1 DEF Live, Tried, IsOver
  <2>2. CommandInv'
    BY <1>1, <2>1 DEF RunnerInv, CommandInv
  <2>3. WaiterInv'
    BY <1>1, <2>1 DEF RunnerInv, WaiterInv, Stages, EarlyStages
  <2> QED
    BY <2>2, <2>3
<1>4. RiInv'
  BY <1>1, <1>2 DEF RunnerInv, RiInv, TypeOK, Tried
<1>5. StageInv' /\ CallInv'
  <2>1. \A i \in Ids, s \in Stages : AtStage(s, i)' => AtStage(s, i)
    BY <1>1, <1>2 DEF AtStage, TypeOK, signal, Stages, EarlyStages
  <2>2. ASSUME NEW s \in Stages, AtStage(s, n)'
        PROVE  FALSE
    <3>1. s # "none"
      BY DEF Stages, EarlyStages
    <3>2. ~ (sig = s /\ sigTarget = n)
      BY <1>1, <2>2 DEF TypeOK
    <3>3. s # "stat"
      BY DEF Stages, EarlyStages
    <3>4. \A v \in Watchers : ~ (pc'[v] = s /\ target'[v] = n)
      BY <1>1, <1>2, <2>2, <3>3 DEF TypeOK
    <3> QED
      BY <1>1, <1>2, <2>2, <3>1, <3>2, <3>4 DEF AtStage, signal
  <2>3. PastCall \subseteq Stages /\ {"call", "kill", "remove", "clear"} \subseteq Stages
    BY DEF PastCall, Stages, EarlyStages
  <2>4. ASSUME NEW i \in Ids'
        PROVE  /\ \A s \in PastCall : AtStage(s, i)' => ~inst'[i].registered
               /\ AtStage("kill", i)' => inst'[i].cmd # "nil" \/ Tried(i)'
               /\ AtStage("remove", i)' \/ AtStage("clear", i)' => IsOver(i)'
               /\ AtStage("call", i)' /\ ~inst'[i].unreg /\ sig = "none" => IsOver(i)'
    <3>1. CASE i = n
      BY <2>2, <2>3, <3>1
    <3>2. CASE i \in Ids
      BY <1>1, <2>1, <2>3, <3>2 DEF RunnerInv, StageInv, CallInv, IsOver, Tried
    <3> QED
      BY <1>1, <3>1, <3>2
  <2> QED
    BY <1>2, <2>4 DEF StageInv, CallInv, signal
<1>6. LockInv'
  BY <1>1, <1>2 DEF RunnerInv, LockInv, TypeOK
<1>7. MakingInv'
  <2>1. ASSUME NEW v \in Watchers, v # w, Making(v)'
        PROVE  Making(v) /\ made[v] \in Ids /\ made'[v] = made[v] /\ pc'[v] = pc[v]
    BY <1>2, <2>1 DEF TypeOK, Making
  <2>2. made'[w] = n /\ pc'[w] = "stat"
    BY <1>2 DEF TypeOK
  <2> QED
    BY <1>1, <1>2, <2>1, <2>2 DEF RunnerInv, MakingInv, Tried, signal
<1>8. StartedInv'
  BY <1>1, <1>2 DEF RunnerInv, StartedInv, TypeOK, Started, Tried, signal
<1>9. TargetInv'
  <2>1. ASSUME NEW v \in Watchers, pc'[v] \in Stages
        PROVE  /\ pc[v] \in Stages /\ v # w /\ target[v] \in Ids
               /\ made'[v] = made[v]
    BY <1>2, <2>1 DEF TypeOK, Stages, EarlyStages
  <2>2. \A j \in Ids : Tried(j)' <=> Tried(j)
    BY <1>1 DEF Tried
  <2> QED
    BY <1>1, <1>2, <2>1, <2>2 DEF RunnerInv, TargetInv, Tried
<1>10. SignalInv' /\ StrayInv'
  <2>1. \A i \in Ids : AboutToKill(i) => AboutToKill(i)'
    BY <1>2 DEF AboutToKill, TypeOK, signal, EarlyStages
  <2>2. sigLive \subseteq Ids /\ \A i \in 1 .. sigLen : i \in Ids
    BY DEF TypeOK, Ids
  <2>3. \A v \in Watchers : Started(v) => Started(v)' /\ made'[v] = made[v]
    BY <1>2 DEF Started, TypeOK
  <2>4. SignalInv'
    BY <1>1, <1>2, <2>1, <2>2 DEF RunnerInv, SignalInv, Stoppable, Tried, Live, signal
  <2>5. StrayInv'
    BY <1>1, <1>2, <2>1, <2>3 DEF RunnerInv, StrayInv, Live
  <2> QED
    BY <2>4, <2>5
<1> QED
  BY <1>2, <1>3, <1>4, <1>5, <1>6, <1>7, <1>8, <1>9, <1>10 DEF RunnerInv

(* A step that starts no process, makes no instance and moves no Tunnel:   *)
(* what was about to be killed still is, or runs no more.                  *)
LEMMA ShrinkingStep ==
    ASSUME TypeOK, RunnerInv, ~panicked, Ids' = Ids,
           UNCHANGED <<ri, sigLive, sigLen>>,
           \A j \in Ids : /\ inst'[j].tunnel = inst[j].tunnel
                          /\ inst'[j].registered => inst[j].registered
                          /\ Tried(j)' <=> Tried(j)
                          /\ Live(j)' => Live(j)
                          /\ Live(j)' /\ inst[j].registered =>
                                inst'[j].registered \/ AboutToKill(j)'
                          /\ Live(j)' /\ AboutToKill(j) => AboutToKill(j)',
           \A v \in Watchers : Started(v) => Started(v)' /\ made'[v] = made[v],
           sig' = "none" <=> sig = "none",
           sig' = "exited" => \A j \in 1 .. sigLen : ~inst[j].registered
    PROVE  RiInv' /\ SignalInv' /\ StrayInv'
<1>1. sigLive \subseteq Ids /\ \A i \in 1 .. sigLen : i \in Ids
  BY DEF TypeOK, Ids
<1>2. \A i \in Ids : Stoppable(i) => Stoppable(i)'
  BY DEF Stoppable
<1>3. RiInv'
  BY DEF RunnerInv, RiInv, TypeOK
<1>4. SignalInv'
  <2>1. sig' = "none" => \A i \in Ids' : Stoppable(i)'
    BY <1>2 DEF RunnerInv, SignalInv
  <2>2. sig' # "none" => \A i \in sigLive' : i <= sigLen' /\ Tried(i)' /\ Stoppable(i)'
    BY <1>1, <1>2 DEF RunnerInv, SignalInv
  <2>3. sig' = "exited" => \A i \in 1 .. sigLen' : ~inst'[i].registered
    BY <1>1
  <2> QED
    BY <2>1, <2>2, <2>3 DEF SignalInv
<1>5. StrayInv'
  BY DEF RunnerInv, StrayInv, TypeOK
<1> QED
  BY <1>3, <1>4, <1>5

(* The command of an instance is set before it is started.                 *)
LEMMA SetCommandStep ==
    ASSUME TypeOK, RunnerInv, ~panicked, NEW w \in Watchers, SetCommand(w)
    PROVE  RunnerInv'
<1>0. PICK m \in Ids : m = made[w] /\ m # 0
  BY DEF SetCommand, TypeOK, Making, Ids
<1>1. /\ Ids' = Ids
      /\ \A j \in Ids : j # m => inst'[j] = inst[j]
      /\ inst'[m].tunnel = inst[m].tunnel /\ inst'[m].cmd = "unstarted"
      /\ inst'[m].proc = inst[m].proc /\ inst'[m].registered = inst[m].registered
      /\ inst'[m].unreg = inst[m].unreg
  BY <1>0, CommandEffect DEF SetCommand, TypeOK, Edited
<1>2. /\ pc[w] = "exec" /\ pc' = [pc EXCEPT ![w] = "start"]
      /\ UNCHANGED <<waiter, ri, lock, job, made, target, signal, panicked>>
  BY DEF SetCommand
<1>3. ~Tried(m) /\ inst[m].tunnel = TunnelOf[w] /\ (sig = "none" => inst[m].registered)
  BY <1>0, <1>2 DEF RunnerInv, MakingInv, Making
<1>4. \A j \in Ids : /\ Tried(j)' <=> Tried(j)
                     /\ IsOver(j)' <=> IsOver(j)
                     /\ Live(j)' <=> Live(j)
                     /\ AboutToKill(j) => AboutToKill(j)'
                     /\ inst'[j].tunnel = inst[j].tunnel
                     /\ inst'[j].registered = inst[j].registered
                     /\ inst'[j].unreg = inst[j].unreg
  <2>1. \A j \in Ids : AboutToKill(j) => AboutToKill(j)'
    BY <1>2 DEF AboutToKill, TypeOK, signal, EarlyStages
  <2> QED
    BY <1>1, <2>1 DEF Tried, IsOver, Live
<1>5. \A j \in Ids, s \in Stages : AtStage(s, j)' => AtStage(s, j)
  BY <1>2 DEF AtStage, TypeOK, signal, Stages, EarlyStages
<1>6. CommandInv' /\ WaiterInv'
  <2>1. ~Live(m)
    BY <1>3 DEF Tried, Live
  <2>2. CommandInv'
    BY <1>1, <1>3, <1>4, <2>1 DEF RunnerInv, CommandInv
  <2>3. WaiterInv'
    BY <1>1, <1>2, <1>4 DEF RunnerInv, WaiterInv
  <2> QED
    BY <2>2, <2>3
<1>7. StageInv' /\ CallInv'
  <2>1. PastCall \subseteq Stages /\ {"call", "kill", "remove", "clear"} \subseteq Stages
    BY DEF PastCall, Stages, EarlyStages
  <2>2. StageInv'
    BY <1>1, <1>4, <1>5, <2>1 DEF RunnerInv, StageInv
  <2>3. CallInv'
    BY <1>1, <1>2, <1>4, <1>5, <2>1 DEF RunnerInv, CallInv, signal
  <2> QED
    BY <2>2, <2>3
<1>8. LockInv'
  BY <1>2 DEF RunnerInv, LockInv, TypeOK
<1>9. MakingInv'
  <2>1. ASSUME NEW v \in Watchers, v # w, Making(v)'
        PROVE  Making(v) /\ made[v] \in Ids /\ made[v] # m /\ pc'[v] = pc[v]
    BY <1>0, <1>2, <2>1 DEF RunnerInv, LockInv, TypeOK, Making
  <2> QED
    BY <1>0, <1>1, <1>2, <1>3, <1>4, <2>1 DEF RunnerInv, MakingInv, TypeOK, signal
<1>10. StartedInv'
  BY <1>2, <1>4 DEF RunnerInv, StartedInv, TypeOK, Started, signal
<1>11. TargetInv'
  BY <1>1, <1>2, <1>4 DEF RunnerInv, TargetInv, TypeOK, Stages, EarlyStages
<1>12. RiInv' /\ SignalInv' /\ StrayInv'
  <2>1. sig' = sig /\ UNCHANGED <<ri, sigLive, sigLen>>
    BY <1>2 DEF signal
  <2>2. sig = "exited" => \A j \in 1 .. sigLen : ~inst[j].registered
    BY DEF RunnerInv, SignalInv
  <2>3. \A v \in Watchers : Started(v) => Started(v)' /\ made'[v] = made[v]
    BY <1>2 DEF Started, TypeOK
  <2> QED
    BY <1>1, <1>4, <2>1, <2>2, <2>3, ShrinkingStep
<1> QED
  BY <1>2, <1>6, <1>7, <1>8, <1>9, <1>10, <1>11, <1>12 DEF RunnerInv

(* The process runs; only who made it knows of it, and SIGINT.             *)
LEMMA StartProcessStep ==
    ASSUME TypeOK, RunnerInv, ~panicked, NEW w \in Watchers, StartProcess(w)
    PROVE  RunnerInv'
<1>0. PICK m \in Ids, t \in Tunnels : m = made[w] /\ t = TunnelOf[w] /\ m # 0
  <2>1. made[w] \in Ids /\ made[w] # 0
    BY DEF StartProcess, TypeOK, Making, Ids
  <2> QED
    BY <2>1, TunnelOfAssumption
<1>1. /\ Ids' = Ids
      /\ \A j \in Ids : j # m => inst'[j] = inst[j]
      /\ inst'[m].tunnel = inst[m].tunnel /\ inst'[m].cmd = "started"
      /\ inst'[m].proc = "running" /\ inst'[m].registered = inst[m].registered
      /\ inst'[m].unreg = inst[m].unreg
  BY <1>0, StartEffect DEF StartProcess, TypeOK, Edited
<1>2. /\ pc[w] = "start" /\ pc' = [pc EXCEPT ![w] = "pid"]
      /\ UNCHANGED <<waiter, ri, lock, job, made, target, signal, panicked>>
  BY DEF StartProcess
<1>3. /\ inst[m].tunnel = t /\ ~Tried(m) /\ lock[t] = w
      /\ sig = "none" => inst[m].registered
  BY <1>0, <1>2 DEF RunnerInv, MakingInv, LockInv, Making
<1>4. \A v \in Watchers : v # w => /\ pc[v] \notin {"idle", "lock"} => TunnelOf[v] # t
                                   /\ made[v] # m
  BY <1>0, <1>3 DEF RunnerInv, LockInv
<1>5. /\ waiter[m] = "none" /\ ri[t] # m
      /\ \A s \in {"remove", "clear"} : ~AtStage(s, m)
      /\ sig = "none" => ~ (AtStage("call", m) /\ ~inst[m].unreg)
  <2>1. waiter[m] = "none"
    BY <1>3 DEF RunnerInv, WaiterInv
  <2>2. ri[t] # m
    BY <1>0, <1>3 DEF RunnerInv, RiInv
  <2>3. ~IsOver(m)
    BY <1>3 DEF Tried, IsOver
  <2> QED
    BY <2>1, <2>2, <2>3 DEF RunnerInv, StageInv, CallInv
<1>6. /\ \A j \in Ids : j # m => /\ Tried(j)' <=> Tried(j)
                                 /\ IsOver(j)' <=> IsOver(j)
                                 /\ Live(j)' <=> Live(j)
      /\ Tried(m)' /\ ~IsOver(m)' /\ Live(m)' /\ ~IsOver(m)
  BY <1>1, <1>3 DEF Tried, IsOver, Live
<1>7. \A j \in Ids : /\ AboutToKill(j) => AboutToKill(j)'
                     /\ inst'[j].tunnel = inst[j].tunnel
                     /\ inst'[j].registered = inst[j].registered
                     /\ inst'[j].unreg = inst[j].unreg
                     /\ Tried(j) => Tried(j)'
  <2>1. \A j \in Ids : AboutToKill(j) => AboutToKill(j)'
    BY <1>2 DEF AboutToKill, TypeOK, signal, EarlyStages
  <2> QED
    BY <1>1, <1>6, <2>1
<1>8. \A j \in Ids, s \in Stages : AtStage(s, j)' => AtStage(s, j)
  BY <1>2 DEF AtStage, TypeOK, signal, Stages, EarlyStages
<1>9. CommandInv' /\ WaiterInv'
  <2>1. CommandInv'
    BY <1>1, <1>6, <1>7 DEF RunnerInv, CommandInv
  <2>2. WaiterInv'
    BY <1>1, <1>2, <1>5, <1>6, <1>7 DEF RunnerInv, WaiterInv, Stages, EarlyStages
  <2> QED
    BY <2>1, <2>2
<1>10. StageInv' /\ CallInv'
  <2>1. PastCall \subseteq Stages /\ {"call", "kill", "remove", "clear"} \subseteq Stages
    BY DEF PastCall, Stages, EarlyStages
  <2>2. StageInv'
    BY <1>1, <1>5, <1>6, <1>7, <1>8, <2>1 DEF RunnerInv, StageInv
  <2>3. CallInv'
    BY <1>1, <1>2, <1>5, <1>6, <1>7, <1>8, <2>1 DEF RunnerInv, CallInv, signal
  <2> QED
    BY <2>2, <2>3
<1>11. LockInv'
  BY <1>2 DEF RunnerInv, LockInv, TypeOK
<1>12. MakingInv'
  <2>1. ASSUME NEW v \in Watchers, Making(v)'
        PROVE  v # w /\ Making(v) /\ made[v] \in Ids /\ made[v] # m /\ pc'[v] = pc[v]
    BY <1>2, <1>4, <2>1 DEF TypeOK, Making
  <2> QED
    BY <1>1, <1>2, <1>6, <2>1 DEF RunnerInv, MakingInv, signal
<1>13. StartedInv'
  <2>1. ASSUME NEW v \in Watchers, v # w, Started(v)'
        PROVE  Started(v) /\ made[v] \in Ids /\ pc'[v] = pc[v]
    BY <1>2, <2>1 DEF TypeOK, Started
  <2>2. pc'[w] = "pid"
    BY <1>2 DEF TypeOK
  <2>3. \A v \in Watchers : pc'[v] = "pid" => Started(v)'
    BY DEF Started
  <2> QED
    BY <1>0, <1>1, <1>2, <1>3, <1>5, <1>6, <1>7, <2>1, <2>2, <2>3
       DEF RunnerInv, StartedInv, signal
<1>14. TargetInv'
  <2>1. ASSUME NEW v \in Watchers, pc'[v] \in Stages
        PROVE  v # w /\ pc[v] \in Stages /\ target[v] \in Ids /\ TunnelOf[v] # t
    BY <1>2, <1>4, <2>1 DEF TypeOK, Stages, EarlyStages
  <2>2. ASSUME NEW v \in Watchers, pc'[v] \in Stages
        PROVE  target[v] # m /\ made[v] # m
    BY <1>3, <1>4, <2>1, <2>2 DEF RunnerInv, TargetInv
  <2> QED
    BY <1>1, <1>2, <1>6, <1>7, <2>1, <2>2 DEF RunnerInv, TargetInv, Tried
<1>15. RiInv'
  BY <1>1, <1>2, <1>7 DEF RunnerInv, RiInv, TypeOK
<1>16. SignalInv'
  <2>1. sigLive \subseteq Ids /\ \A i \in 1 .. sigLen : i \in Ids
    BY DEF TypeOK, Ids
  <2>2. \A i \in Ids : Stoppable(i) => Stoppable(i)' \/ i = m
    BY <1>6, <1>7 DEF Stoppable
  <2>3. sig = "none" => Stoppable(m)'
    BY <1>3, <1>7 DEF Stoppable
  <2>4. sig # "none" => m \notin sigLive
    BY <1>3 DEF RunnerInv, SignalInv
  <2> QED
    BY <1>1, <1>2, <1>7, <2>1, <2>2, <2>3, <2>4 DEF RunnerInv, SignalInv, signal
<1>17. StrayInv'
  <2>1. Started(w)' /\ made'[w] = m
    BY <1>0, <1>2 DEF Started, TypeOK
  <2>2. \A v \in Watchers : Started(v) => Started(v)' /\ made'[v] = made[v]
    BY <1>2 DEF Started, TypeOK
  <2> QED
    BY <1>1, <1>2, <1>6, <1>7, <2>1, <2>2 DEF RunnerInv, StrayInv
<1> QED
  BY <1>2, <1>9, <1>10, <1>11, <1>12, <1>13, <1>14, <1>15, <1>16, <1>17 DEF RunnerInv

(* Somebody waits for the process now.                                     *)
LEMMA ReadPidStep ==
    ASSUME TypeOK, RunnerInv, ~panicked, ~panicked', NEW w \in Watchers, ReadPid(w)
    PROVE  RunnerInv'
<1>0. PICK m \in Ids : m = made[w] /\ m # 0
  BY DEF ReadPid, TypeOK, Started, Ids
<1>1. /\ pc[w] = "pid" /\ pc' = [pc EXCEPT ![w] = "replace"] /\ Ids' = Ids
      /\ UNCHANGED <<inst, ri, lock, job, made, target, signal>>
  BY DEF ReadPid, Ids
<1>2. waiter'[m] = "new" /\ \A j \in Ids : j # m => waiter'[j] = waiter[j]
  BY <1>0, WaiterMoves, ZenonT(60) DEF ReadPid
<1>3. Tried(m)
  BY <1>0, <1>1 DEF RunnerInv, StartedInv, Started
<1>4. \A j \in Ids : /\ Tried(j)' <=> Tried(j)
                     /\ IsOver(j)' <=> IsOver(j)
                     /\ Live(j)' <=> Live(j)
                     /\ AboutToKill(j) => AboutToKill(j)'
  <2>1. \A j \in Ids : AboutToKill(j) => AboutToKill(j)'
    BY <1>1 DEF AboutToKill, TypeOK, signal, EarlyStages
  <2> QED
    BY <1>1, <2>1 DEF Tried, IsOver, Live
<1>5. \A j \in Ids, s \in Stages : AtStage(s, j)' => AtStage(s, j)
  <2>1. \A s \in Stages : s # "new" /\ s # "replace"
    BY DEF Stages, EarlyStages
  <2> QED
    BY <1>1, <1>2, <2>1 DEF AtStage, TypeOK, signal
<1>6. CommandInv' /\ WaiterInv'
  <2>1. CommandInv'
    BY <1>1, <1>4 DEF RunnerInv, CommandInv
  <2>2. WaiterInv'
    BY <1>1, <1>2, <1>3, <1>4 DEF RunnerInv, WaiterInv, Stages, EarlyStages
  <2> QED
    BY <2>1, <2>2
<1>7. StageInv' /\ CallInv'
  <2>1. PastCall \subseteq Stages /\ {"call", "kill", "remove", "clear"} \subseteq Stages
    BY DEF PastCall, Stages, EarlyStages
  <2>2. StageInv'
    BY <1>1, <1>4, <1>5, <2>1 DEF RunnerInv, StageInv
  <2>3. CallInv'
    BY <1>1, <1>4, <1>5, <2>1 DEF RunnerInv, CallInv, signal
  <2> QED
    BY <2>2, <2>3
<1>8. LockInv'
  BY <1>1 DEF RunnerInv, LockInv, TypeOK
<1>9. MakingInv'
  BY <1>1, <1>4 DEF RunnerInv, MakingInv, TypeOK, Making, signal
<1>10. StartedInv'
  <2>1. ASSUME NEW v \in Watchers, Started(v)'
        PROVE  Started(v) /\ made[v] \in Ids
    BY <1>1, <2>1 DEF TypeOK, Started
  <2>2. ASSUME NEW v \in Watchers, pc'[v] = "pid"
        PROVE  pc[v] = "pid" /\ made[v] # m /\ made[v] \in Ids
    BY <1>0, <1>1, <2>2 DEF RunnerInv, LockInv, TypeOK, Started
  <2> QED
    BY <1>1, <1>2, <1>4, <2>1, <2>2 DEF RunnerInv, StartedInv, signal
<1>11. TargetInv'
  BY <1>1, <1>4 DEF RunnerInv, TargetInv, TypeOK, Stages, EarlyStages
<1>12. RiInv' /\ SignalInv' /\ StrayInv'
  <2>1. sig' = sig /\ UNCHANGED <<ri, sigLive, sigLen>>
    BY <1>1 DEF signal
  <2>2. sig = "exited" => \A j \in 1 .. sigLen : ~inst[j].registered
    BY DEF RunnerInv, SignalInv
  <2>3. \A v \in Watchers : Started(v) => Started(v)' /\ made'[v] = made[v]
    BY <1>1 DEF Started, TypeOK
  <2> QED
    BY <1>1, <1>4, <2>1, <2>2, <2>3, ShrinkingStep
<1> QED
  BY <1>6, <1>7, <1>8, <1>9, <1>10, <1>11, <1>12 DEF RunnerInv

(* The Tunnel has the new instance, and the old one is stopped.            *)
LEMMA ReplaceStep ==
    ASSUME TypeOK, RunnerInv, ~panicked, NEW w \in Watchers, Replace(w)
    PROVE  RunnerInv'
<1>0. PICK m \in Ids, t \in Tunnels : m = made[w] /\ t = TunnelOf[w] /\ m # 0
  <2>1. made[w] \in Ids /\ made[w] # 0
    BY DEF Replace, TypeOK, Started, Ids
  <2> QED
    BY <2>1, TunnelOfAssumption
<1>1. /\ pc[w] = "replace"
      /\ pc' = [pc EXCEPT ![w] = IF ri[t] = 0 THEN "stopped" ELSE "stop"]
      /\ target' = [target EXCEPT ![w] = ri[t]]
      /\ ri' = [ri EXCEPT ![t] = m] /\ Ids' = Ids
      /\ UNCHANGED <<inst, waiter, lock, job, made, signal, panicked>>
  BY <1>0 DEF Replace, StopTarget, Ids
<1>2. /\ inst[m].tunnel = t /\ Tried(m) /\ ri[t] # m /\ lock[t] = w
      /\ job[w].op = "start"
  BY <1>0, <1>1 DEF RunnerInv, StartedInv, LockInv, Started, TypeOK
<1>3. \A v \in Watchers : v # w => /\ pc[v] \notin {"idle", "lock"} => TunnelOf[v] # t
                                   /\ pc'[v] = pc[v] /\ target'[v] = target[v]
  BY <1>1, <1>2 DEF RunnerInv, LockInv, TypeOK
<1>4. /\ ri'[t] = m
      /\ \A u \in Tunnels : u # t => ri'[u] = ri[u]
      /\ pc'[w] \in {"stop", "stopped"} /\ target'[w] = ri[t]
      /\ pc'[w] = "stop" <=> ri[t] # 0
      /\ ri[t] # 0 => ri[t] \in Ids /\ inst[ri[t]].tunnel = t /\ Tried(ri[t])
  BY <1>1 DEF TypeOK, RunnerInv, RiInv
<1>5. \A j \in Ids : /\ Tried(j)' <=> Tried(j)
                     /\ IsOver(j)' <=> IsOver(j)
                     /\ Live(j)' <=> Live(j)
  BY <1>1 DEF Tried, IsOver, Live
<1>6. \A j \in Ids : /\ AboutToKill(j) => AboutToKill(j)'
                     /\ j = ri[t] => AboutToKill(j)'
  <2>1. \A j \in Ids : AboutToKill(j) => AboutToKill(j)'
    BY <1>1 DEF AboutToKill, TypeOK, signal, EarlyStages
  <2>2. \A j \in Ids : j # 0
    BY DEF TypeOK, Ids
  <2> QED
    BY <1>4, <2>1, <2>2 DEF AboutToKill, EarlyStages
<1>7. \A j \in Ids, s \in Stages : s # "stop" /\ AtStage(s, j)' => AtStage(s, j)
  <2>1. \A s \in Stages : s # "stopped"
    BY DEF Stages, EarlyStages
  <2> QED
    BY <1>1, <1>3, <1>4, <2>1 DEF AtStage, signal
<1>8. CommandInv' /\ WaiterInv'
  BY <1>1, <1>5 DEF RunnerInv, CommandInv, WaiterInv
<1>9. StageInv' /\ CallInv'
  <2>1. /\ PastCall \subseteq Stages /\ {"call", "kill", "remove", "clear"} \subseteq Stages
        /\ "stop" \notin PastCall
    BY DEF PastCall, Stages, EarlyStages
  <2>2. StageInv'
    BY <1>1, <1>5, <1>7, <2>1 DEF RunnerInv, StageInv
  <2>3. CallInv'
    BY <1>1, <1>5, <1>7, <2>1 DEF RunnerInv, CallInv, signal
  <2> QED
    BY <2>2, <2>3
<1>10. LockInv'
  BY <1>1 DEF RunnerInv, LockInv, TypeOK
<1>11. MakingInv'
  <2>1. ASSUME NEW v \in Watchers, Making(v)'
        PROVE  v # w /\ Making(v) /\ made[v] \in Ids /\ pc'[v] = pc[v]
    BY <1>3, <1>4, <2>1 DEF TypeOK, Making
  <2> QED
    BY <1>1, <1>5, <2>1 DEF RunnerInv, MakingInv, signal
<1>12. StartedInv'
  <2>1. ASSUME NEW v \in Watchers, Started(v)'
        PROVE  /\ v # w /\ Started(v) /\ made[v] \in Ids /\ pc'[v] = pc[v]
               /\ ri'[TunnelOf[v]] = ri[TunnelOf[v]]
    <3>1. v # w
      BY <1>4, <2>1 DEF Started
    <3>2. Started(v) /\ pc'[v] = pc[v] /\ TunnelOf[v] # t
      BY <1>3, <2>1, <3>1 DEF Started
    <3> QED
      BY <1>4, <3>1, <3>2, TunnelOfAssumption DEF TypeOK
  <2>2. \A v \in Watchers : pc'[v] = "pid" => Started(v)'
    BY DEF Started
  <2> QED
    BY <1>1, <1>5, <2>1, <2>2 DEF RunnerInv, StartedInv, signal
<1>13. TargetInv'
  <2>1. ASSUME NEW v \in Watchers, v # w, pc'[v] \in Stages
        PROVE  /\ pc[v] \in Stages /\ target'[v] = target[v] /\ target[v] \in Ids
               /\ ri'[TunnelOf[v]] = ri[TunnelOf[v]]
    <3>1. pc[v] \in Stages /\ target'[v] = target[v] /\ target[v] \in Ids
      BY <1>3, <2>1 DEF TypeOK
    <3>2. TunnelOf[v] # t
      BY <1>3, <2>1, <3>1 DEF Stages, EarlyStages
    <3> QED
      BY <1>4, <3>1, <3>2, TunnelOfAssumption
  <2>2. ASSUME pc'[w] \in Stages
        PROVE  ri[t] # 0 /\ ri[t] \in Ids
    BY <1>4, <2>2 DEF Stages, EarlyStages
  <2>3. ASSUME NEW v \in Watchers, pc'[v] \in Stages, v # w
        PROVE  /\ inst'[target'[v]].tunnel = TunnelOf[v]
               /\ \/ job'[v].op = "stop" /\ Tried(target[v])'
                  \/ job'[v].op = "start" /\ target'[v] = made'[v] /\ ~Tried(made[v])'
                  \/ /\ job'[v].op = "start"
                     /\ target'[v] # made'[v] /\ Tried(target[v])'
                     /\ made'[v] \in Ids' /\ ri'[TunnelOf[v]] = made'[v] /\ Tried(made[v])'
    BY <1>1, <2>1, <2>3 DEF RunnerInv, TargetInv, Tried
  <2>4. ASSUME pc'[w] \in Stages
        PROVE  /\ inst'[target'[w]].tunnel = TunnelOf[w]
               /\ job'[w].op = "start"
               /\ target'[w] # made'[w] /\ Tried(target[w])'
               /\ made'[w] \in Ids' /\ ri'[TunnelOf[w]] = made'[w] /\ Tried(made[w])'
    BY <1>0, <1>1, <1>2, <1>4, <1>5, <2>2, <2>4 DEF Tried
  <2> QED
    BY <2>3, <2>4 DEF TargetInv
<1>14. RiInv'
  BY <1>1, <1>2, <1>4, <1>5 DEF RunnerInv, RiInv, TypeOK, Tried
<1>15. SignalInv'
  <2>1. sigLive \subseteq Ids
    BY DEF TypeOK
  <2>2. \A i \in Ids : Stoppable(i) => Stoppable(i)'
    BY <1>1, <1>5, <1>6 DEF Stoppable
  <2> QED
    BY <1>1, <1>5, <2>1, <2>2 DEF RunnerInv, SignalInv, signal
<1>16. StrayInv'
  <2>1. ASSUME NEW i \in Ids, Live(i)
        PROVE  \/ ri'[inst'[i].tunnel] = i
               \/ \E v \in Watchers : Started(v)' /\ made'[v] = i
               \/ AboutToKill(i)'
    <3>1. inst[i].tunnel \in Tunnels
      BY Fields DEF TypeOK
    <3>2. CASE ri[inst[i].tunnel] = i
      BY <1>1, <1>4, <1>6, <3>1, <3>2
    <3>3. ASSUME NEW v \in Watchers, Started(v), made[v] = i
          PROVE  ri'[inst'[i].tunnel] = i \/ (Started(v)' /\ made'[v] = i)
      <4>1. CASE v = w
        BY <1>0, <1>1, <1>2, <1>4, <3>3, <4>1
      <4>2. CASE v # w
        BY <1>1, <1>3, <3>3, <4>2 DEF Started
      <4> QED
        BY <4>1, <4>2
    <3>4. CASE AboutToKill(i)
      BY <1>6, <3>4
    <3> QED
      BY <2>1, <3>2, <3>3, <3>4 DEF RunnerInv, StrayInv
  <2> QED
    BY <1>1, <1>5, <2>1 DEF StrayInv
<1> QED
  BY <1>1, <1>8, <1>9, <1>10, <1>11, <1>12, <1>13, <1>14, <1>15, <1>16 DEF RunnerInv

(* The end of a process.                                                   *)
LEMMA ExitStep ==
    ASSUME TypeOK, RunnerInv, ~panicked, NEW i \in Ids, ProcessExits(i)
    PROVE  RunnerInv'
<1>1. /\ Ids' = Ids
      /\ \A j \in Ids : j # i => inst'[j] = inst[j]
      /\ inst'[i].tunnel = inst[i].tunnel /\ inst'[i].registered = inst[i].registered
      /\ inst'[i].unreg = inst[i].unreg
      /\ inst'[i].proc = "exited" /\ inst'[i].cmd = inst[i].cmd /\ Live(i)
  BY ProcessEffect DEF ProcessExits, TypeOK, Edited
<1>2. UNCHANGED <<waiter, ri, lock, pc, job, made, target, signal, panicked>>
  BY DEF ProcessExits, callers
<1>3. \A j \in Ids : /\ Tried(j)' <=> Tried(j)
                     /\ IsOver(j) => IsOver(j)'
                     /\ Live(j)' => Live(j) /\ j # i
                     /\ AboutToKill(j)' <=> AboutToKill(j)
                     /\ inst'[j].tunnel = inst[j].tunnel /\ inst'[j].cmd = inst[j].cmd
                     /\ inst'[j].registered = inst[j].registered
                     /\ inst'[j].unreg = inst[j].unreg
  BY <1>1, <1>2 DEF Tried, IsOver, Live, AboutToKill, signal
<1>4. CommandInv' /\ WaiterInv'
  BY <1>1, <1>2, <1>3 DEF RunnerInv, CommandInv, WaiterInv
<1>5. StageInv' /\ CallInv'
  <2>1. \A j \in Ids, s \in Stages : AtStage(s, j)' <=> AtStage(s, j)
    BY <1>2 DEF AtStage, signal
  <2>2. PastCall \subseteq Stages /\ {"call", "kill", "remove", "clear"} \subseteq Stages
    BY DEF PastCall, Stages, EarlyStages
  <2>3. StageInv'
    BY <1>1, <1>3, <2>1, <2>2 DEF RunnerInv, StageInv
  <2>4. CallInv'
    BY <1>1, <1>2, <1>3, <2>1, <2>2 DEF RunnerInv, CallInv, signal
  <2> QED
    BY <2>3, <2>4
<1>6. LockInv'
  BY <1>2 DEF RunnerInv, LockInv
<1>7. MakingInv' /\ StartedInv'
  BY <1>1, <1>2, <1>3
     DEF RunnerInv, MakingInv, StartedInv, TypeOK, Making, Started, signal
<1>8. TargetInv'
  BY <1>1, <1>2, <1>3 DEF RunnerInv, TargetInv, TypeOK
<1>9. RiInv' /\ SignalInv' /\ StrayInv'
  <2>1. sig' = "exited" => \A j \in 1 .. sigLen : ~inst[j].registered
    BY <1>2 DEF RunnerInv, SignalInv, signal
  <2>2. \A v \in Watchers : Started(v) => Started(v)' /\ made'[v] = made[v]
    BY <1>2 DEF Started
  <2> QED
    BY <1>1, <1>2, <1>3, <2>1, <2>2, ShrinkingStep DEF signal
<1> QED
  BY <1>2, <1>4, <1>5, <1>6, <1>7, <1>8, <1>9 DEF RunnerInv

(* What the goroutine that waits for a process does outside of Stop.       *)
LEMMA WaitStep ==
    ASSUME TypeOK, RunnerInv, ~panicked, ~panicked', NEW i \in Ids,
           WaitBegins(i) \/ WaitEnds(i) \/ WaiterClears(i)
    PROVE  RunnerInv'
<1>1. PICK from \in {"new", "waiting", "stopped"}, to \in {"waiting", "stop", "done"} :
         /\ waiter[i] = from /\ waiter' = [waiter EXCEPT ![i] = to]
         /\ from = "new" => to = "waiting"
         /\ from = "waiting" => to = "stop" /\ ~Live(i)
         /\ from = "stopped" => to = "done" /\ WaiterClears(i)
         /\ from # "stopped" => inst' = inst
  BY DEF WaitBegins, WaitEnds, WaiterClears
<1>2. waiter'[i] = to /\ \A j \in Ids : j # i => waiter'[j] = waiter[j]
  BY <1>1, WaiterMoves DEF Stages, EarlyStages
<1>3. /\ Ids' = Ids
      /\ \A j \in Ids : j # i => inst'[j] = inst[j]
      /\ inst'[i].tunnel = inst[i].tunnel /\ inst'[i].registered = inst[i].registered
      /\ inst'[i].unreg = inst[i].unreg /\ inst'[i].proc = inst[i].proc
      /\ inst'[i].cmd = IF from = "stopped" THEN "nil" ELSE inst[i].cmd
  <2>1. CASE from = "stopped"
    BY <1>1, <2>1, CommandEffect DEF WaiterClears, TypeOK, Edited
  <2>2. CASE from # "stopped"
    BY <1>1, <2>2 DEF Ids
  <2> QED
    BY <2>1, <2>2
<1>4. UNCHANGED <<ri, lock, pc, job, made, target, signal>>
  BY DEF WaitBegins, WaitEnds, WaiterClears, callers
<1>5. \A j \in Ids : /\ Tried(j)' <=> Tried(j)
                     /\ IsOver(j)' <=> IsOver(j)
                     /\ Live(j)' <=> Live(j)
                     /\ AboutToKill(j)' <=> AboutToKill(j)
                     /\ inst'[j].tunnel = inst[j].tunnel
                     /\ inst'[j].registered = inst[j].registered
                     /\ inst'[j].unreg = inst[j].unreg
  BY <1>3, <1>4 DEF Tried, IsOver, Live, AboutToKill, signal
<1>6. /\ Tried(i)
      /\ from = "waiting" => IsOver(i)
      /\ from = "stopped" => IsOver(i) /\ ~Live(i) /\ ~inst[i].registered
  <2>1. Tried(i)
    BY <1>1 DEF RunnerInv, WaiterInv
  <2>2. from = "waiting" => IsOver(i)
    BY <1>1, <2>1, Fields DEF TypeOK, Tried, IsOver, Live
  <2>3. from = "stopped" => IsOver(i) /\ ~Live(i) /\ ~inst[i].registered
    BY <1>1 DEF RunnerInv, WaiterInv, IsOver, Live
  <2> QED
    BY <2>1, <2>2, <2>3
<1>7. CommandInv'
  BY <1>3, <1>5, <1>6 DEF RunnerInv, CommandInv
<1>8. WaiterInv'
  BY <1>1, <1>2, <1>3, <1>5, <1>6 DEF RunnerInv, WaiterInv, Stages, EarlyStages
<1>9. StageInv' /\ CallInv'
  <2>1. \A j \in Ids, s \in PastCall \cup {"call"} : AtStage(s, j)' => AtStage(s, j)
    <3>1. \A s \in PastCall \cup {"call"} : s \notin {"waiting", "stop", "done"}
      BY DEF PastCall
    <3> QED
      BY <1>1, <1>2, <1>4, <3>1 DEF AtStage, signal
  <2>2. {"kill", "remove", "clear"} \subseteq PastCall
    BY DEF PastCall
  <2>3. StageInv'
    BY <1>3, <1>5, <1>6, <2>1, <2>2 DEF RunnerInv, StageInv
  <2>4. CallInv'
    BY <1>3, <1>4, <1>5, <2>1 DEF RunnerInv, CallInv, signal
  <2> QED
    BY <2>3, <2>4
<1>10. LockInv'
  BY <1>4 DEF RunnerInv, LockInv
<1>11. MakingInv' /\ StartedInv'
  <2>1. MakingInv'
    BY <1>3, <1>4, <1>5, <1>6 DEF RunnerInv, MakingInv, TypeOK, Making, signal
  <2>2. ASSUME NEW v \in Watchers, pc[v] = "pid"
        PROVE  made[v] # i /\ made[v] \in Ids
    BY <1>1, <2>2 DEF RunnerInv, StartedInv, TypeOK, Started
  <2>3. StartedInv'
    BY <1>2, <1>3, <1>4, <1>5, <2>2 DEF RunnerInv, StartedInv, TypeOK, Started, signal
  <2> QED
    BY <2>1, <2>3
<1>12. TargetInv'
  BY <1>3, <1>4, <1>5 DEF RunnerInv, TargetInv, TypeOK
<1>13. RiInv' /\ SignalInv' /\ StrayInv'
  <2>1. sig' = "exited" => \A j \in 1 .. sigLen : ~inst[j].registered
    BY <1>4 DEF RunnerInv, SignalInv, signal
  <2>2. \A v \in Watchers : Started(v) => Started(v)' /\ made'[v] = made[v]
    BY <1>4 DEF Started
  <2> QED
    BY <1>3, <1>4, <1>5, <2>1, <2>2, ShrinkingStep DEF signal
<1> QED
  BY <1>7, <1>8, <1>9, <1>10, <1>11, <1>12, <1>13 DEF RunnerInv

(* SIGINT, and what Shutdown does outside of Stop.                         *)
LEMMA SignalStep ==
    ASSUME TypeOK, RunnerInv, ~panicked,
           Interrupt \/ StopListening \/ Exit \/ \E i \in Ids : ShutdownPicks(i)
    PROVE  RunnerInv'
<1>1. /\ Ids' = Ids
      /\ UNCHANGED <<inst, waiter, ri, lock, pc, job, made, target, panicked>>
  BY DEF Interrupt, StopListening, Exit, ShutdownPicks, Ids, callers
<1>2. \A j \in Ids : /\ Tried(j)' <=> Tried(j)
                     /\ IsOver(j)' <=> IsOver(j)
                     /\ Live(j)' <=> Live(j)
                     /\ AboutToKill(j) => AboutToKill(j)'
  <2>1. \A j \in Ids : AboutToKill(j) => AboutToKill(j)'
    BY <1>1 DEF AboutToKill, EarlyStages, Interrupt, StopListening, Exit, ShutdownPicks
  <2> QED
    BY <1>1, <2>1 DEF Tried, IsOver, Live
<1>3. CommandInv' /\ WaiterInv' /\ LockInv'
  BY <1>1, <1>2 DEF RunnerInv, CommandInv, WaiterInv, LockInv
<1>4. sig' # "none"
  BY DEF Interrupt, StopListening, Exit, ShutdownPicks
<1>5. StageInv' /\ CallInv'
  <2>1. sig' \notin PastCall
    BY DEF Interrupt, StopListening, Exit, ShutdownPicks, PastCall
  <2>2. \A j \in Ids, s \in PastCall : AtStage(s, j)' => AtStage(s, j)
    BY <1>1, <2>1 DEF AtStage
  <2>3. {"kill", "remove", "clear"} \subseteq PastCall
    BY DEF PastCall
  <2>4. StageInv'
    BY <1>1, <1>2, <2>2, <2>3 DEF RunnerInv, StageInv
  <2> QED
    BY <1>4, <2>4 DEF CallInv
<1>6. MakingInv' /\ StartedInv'
  BY <1>1, <1>2, <1>4 DEF RunnerInv, MakingInv, StartedInv, TypeOK, Making, Started
<1>7. TargetInv'
  BY <1>1, <1>2 DEF RunnerInv, TargetInv, TypeOK
<1>8. \A v \in Watchers : Started(v) => Started(v)' /\ made'[v] = made[v]
  BY <1>1 DEF Started
<1>9. RiInv' /\ StrayInv'
  BY <1>1, <1>2, <1>8 DEF RunnerInv, RiInv, StrayInv, TypeOK
<1>10. SignalInv'
  <2>1. CASE Interrupt
    <3>1. \A j \in Ids : Stoppable(j) => Stoppable(j)'
      BY <1>1, <1>2 DEF Stoppable
    <3>2. \A j \in Ids : j <= Len(inst)
      BY DEF TypeOK, Ids
    <3>3. \A j \in Ids : Live(j) => Tried(j)'
      BY <1>1 DEF Live, Tried
    <3> QED
      BY <1>1, <2>1, <3>1, <3>2, <3>3 DEF RunnerInv, SignalInv, Interrupt
  <2>2. CASE ~Interrupt
    <3>1. /\ UNCHANGED <<sigLive, sigLen>> /\ sig # "none"
          /\ sig' = "exited" => \A j \in 1 .. sigLen : ~inst[j].registered
      BY <2>2 DEF StopListening, Exit, ShutdownPicks
    <3> QED
      BY <1>1, <1>2, <1>4, <1>8, <3>1, ShrinkingStep
  <2> QED
    BY <2>1, <2>2
<1> QED
  BY <1>1, <1>3, <1>5, <1>6, <1>7, <1>9, <1>10 DEF RunnerInv

(* What a stage of the Stop of i leaves of what the others rely on.        *)
StopKeeps(i, from, to) ==
    /\ Edited(i) /\ StageMove(i, from, to) /\ CommandInv'
    /\ \A j \in Ids : /\ inst'[j].tunnel = inst[j].tunnel
                      /\ inst'[j].registered => inst[j].registered
                      /\ Tried(j)' <=> Tried(j)
                      /\ IsOver(j) => IsOver(j)'
                      /\ Live(j)' => Live(j)
                      /\ inst'[j].cmd = inst[j].cmd \/ IsOver(j)
                      /\ inst[j].unreg => inst'[j].unreg \/ (j = i /\ from = "forget")
    /\ to \in PastCall \cup {"stopped"} => ~inst'[i].registered
    /\ from \notin {"stop", "call"} => ~inst[i].registered
    /\ to = "call" => inst'[i].unreg
    /\ to = "kill" => inst'[i].cmd # "nil"
    /\ to \in {"remove", "clear"} => IsOver(i)'
    /\ to \notin EarlyStages => ~Live(i)'
    /\ from = "stop" => to \in {"call", "check"}

(* A stage of the Stop of i, by any goroutine: its effect on the instances *)
(* and on what the others rely on.                                         *)
LEMMA StopInstances ==
    ASSUME TypeOK, RunnerInv, ~panicked, ~panicked', NEW i \in Ids,
           NEW from \in Stages, NEW to, StopStage(i, from, to), AtStage(from, i)
    PROVE  StopKeeps(i, from, to)
<1>1. Edited(i) /\ StageMove(i, from, to)
  BY StageEffect DEF TypeOK, StageChange
<1>2. /\ Live(i) => inst[i].cmd = "started"
      /\ inst[i].cmd = "started" => Tried(i)
      /\ inst[i].cmd = "unstarted" => ~Tried(i)
      /\ inst[i].cmd = "nil" /\ Tried(i) => ~inst[i].registered
      /\ inst[i].registered => inst[i].unreg
      /\ from \in PastCall => ~inst[i].registered
      /\ from = "remove" \/ from = "clear" => IsOver(i)
  BY DEF RunnerInv, CommandInv, StageInv
<1>3. inst[i].proc \in {"none", "running", "killed", "exited"}
  BY Fields DEF TypeOK
<1>4. Ids' = Ids /\ \A j \in Ids : j # i => inst'[j] = inst[j]
  BY <1>1 DEF Edited
<1>5. \A j \in Ids : j # i => /\ Tried(j)' <=> Tried(j)
                              /\ IsOver(j)' <=> IsOver(j)
                              /\ Live(j)' <=> Live(j)
  BY <1>4 DEF Tried, IsOver, Live
<1>6. /\ from = "stop" => /\ to = (IF inst[i].unreg THEN "call" ELSE "check")
                          /\ SameBut(i, "")
      /\ from = "call" => /\ to = "forget" /\ SameBut(i, "registered")
                          /\ inst[i].unreg /\ inst'[i].registered = FALSE
      /\ from = "forget" => to = "check" /\ SameBut(i, "unreg") /\ inst'[i].unreg = FALSE
      /\ from = "check" => /\ to = (IF inst[i].cmd = "nil" THEN "stopped" ELSE "kill")
                           /\ SameBut(i, "")
      /\ from = "kill" => /\ to = "remove" /\ SameBut(i, "proc") /\ inst[i].cmd = "started"
                          /\ inst'[i].proc = (IF Live(i) THEN "killed" ELSE inst[i].proc)
      /\ from = "remove" => to = "clear" /\ SameBut(i, "")
      /\ from = "clear" => to = "stopped" /\ SameBut(i, "cmd") /\ inst'[i].cmd = "nil"
  BY <1>1 DEF StageMove, Unpanicked
<1>7. from \in {"stop", "call", "forget", "check", "kill", "remove", "clear"}
  BY DEF Stages, EarlyStages
<1>8. /\ Tried(i)' <=> Tried(i)
      /\ IsOver(i) => IsOver(i)'
      /\ Live(i)' => Live(i)
      /\ from = "kill" => IsOver(i)' /\ ~Live(i)'
      /\ from # "kill" => (IsOver(i)' <=> IsOver(i)) /\ (Live(i)' <=> Live(i))
  BY <1>2, <1>3, <1>6, <1>7 DEF SameBut, Tried, IsOver, Live
<1>9. /\ inst'[i].tunnel = inst[i].tunnel
      /\ inst'[i].registered => inst[i].registered
      /\ inst'[i].cmd = inst[i].cmd \/ (from = "clear" /\ inst'[i].cmd = "nil")
      /\ inst[i].unreg => inst'[i].unreg \/ from = "forget"
  BY <1>1, <1>6, <1>7 DEF SameBut, Edited
<1>10. /\ to \in PastCall \cup {"stopped"} => ~inst'[i].registered
       /\ from \notin {"stop", "call"} => ~inst[i].registered
  BY <1>2, <1>6, <1>7, <1>9 DEF SameBut, PastCall
<1>11. IsOver(i) => ~Live(i)
  BY DEF IsOver, Live
<1>12. /\ to = "call" => inst'[i].unreg
       /\ to = "kill" => inst'[i].cmd # "nil"
       /\ to \in {"remove", "clear"} => IsOver(i)'
       /\ to \notin EarlyStages => ~Live(i)'
       /\ from = "stop" => to \in {"call", "check"}
  BY <1>2, <1>6, <1>7, <1>8, <1>11 DEF SameBut, EarlyStages
<1>13. CommandInv'
  <2>1. ASSUME inst'[i].registered
        PROVE  inst'[i].unreg
    BY <1>2, <1>6, <1>7, <1>9, <1>10, <2>1 DEF SameBut
  <2>2. /\ Live(i)' => inst'[i].cmd = "started"
        /\ inst'[i].cmd = "started" => Tried(i)'
        /\ inst'[i].cmd = "unstarted" => ~Tried(i)'
        /\ inst'[i].cmd = "nil" /\ Tried(i)' => ~inst'[i].registered
    BY <1>2, <1>8, <1>9, <1>10, <1>11 DEF PastCall
  <2> QED
    BY <1>4, <1>5, <2>1, <2>2 DEF RunnerInv, CommandInv
<1>14. \A j \in Ids : /\ inst'[j].tunnel = inst[j].tunnel
                      /\ inst'[j].registered => inst[j].registered
                      /\ Tried(j)' <=> Tried(j)
                      /\ IsOver(j) => IsOver(j)'
                      /\ Live(j)' => Live(j)
                      /\ inst'[j].cmd = inst[j].cmd \/ IsOver(j)
                      /\ inst[j].unreg => inst'[j].unreg \/ (j = i /\ from = "forget")
  BY <1>2, <1>4, <1>5, <1>8, <1>9
<1> QED
  BY <1>1, <1>10, <1>12, <1>13, <1>14 DEF StopKeeps

(* The same for what does not depend on which goroutine it is.             *)
LEMMA StopOthers ==
    ASSUME TypeOK, RunnerInv, ~panicked, ~panicked', NEW i \in Ids,
           NEW from \in Stages, NEW to, StopStage(i, from, to), AtStage(from, i),
           UNCHANGED <<ri, lock, job, made, target, sigLive, sigLen>>,
           \A j \in Ids, s \in PastCall \cup {"call"} :
              AtStage(s, j)' => AtStage(s, j) \/ (j = i /\ s = to),
           \A j \in Ids : AboutToKill(j) => AboutToKill(j)' \/ (j = i /\ to \notin EarlyStages),
           Live(i)' /\ to \in EarlyStages => AboutToKill(i)',
           \A v \in Watchers :
              /\ pc'[v] \in Stages => pc[v] \in Stages
              /\ pc'[v] \notin {"idle", "lock"} => pc[v] \notin {"idle", "lock"}
              /\ Making(v)' \/ Started(v)' => pc'[v] = pc[v]
              /\ Started(v) => Started(v)'
              /\ pc[v] = "pid" => waiter'[made[v]] = waiter[made[v]],
           sig = "none" => ~ \E v \in Watchers : (Making(v) \/ pc[v] = "pid") /\ made[v] = i,
           sig = "none" /\ from = "forget" /\ AtStage("call", i)' => IsOver(i),
           sig' = "none" <=> sig = "none", sig' # "exited"
    PROVE  /\ CommandInv' /\ StageInv' /\ CallInv' /\ LockInv' /\ MakingInv' /\ StartedInv'
           /\ TargetInv' /\ RiInv' /\ SignalInv' /\ StrayInv'
<1>0. StopKeeps(i, from, to)
  BY StopInstances
<1>1. /\ Ids' = Ids /\ CommandInv'
      /\ \A j \in Ids : /\ inst'[j].tunnel = inst[j].tunnel
                        /\ inst'[j].registered => inst[j].registered
                        /\ Tried(j)' <=> Tried(j)
                        /\ IsOver(j) => IsOver(j)'
                        /\ Live(j)' => Live(j)
                        /\ inst'[j].cmd = inst[j].cmd \/ IsOver(j)
                        /\ inst[j].unreg => inst'[j].unreg \/ (j = i /\ from = "forget")
      /\ to \in PastCall \cup {"stopped"} => ~inst'[i].registered
      /\ from \notin {"stop", "call"} => ~inst[i].registered
      /\ to = "call" => inst'[i].unreg
      /\ to = "kill" => inst'[i].cmd # "nil"
      /\ to \in {"remove", "clear"} => IsOver(i)'
      /\ to \notin EarlyStages => ~Live(i)'
      /\ from = "stop" => to \in {"call", "check"}
  BY <1>0 DEF StopKeeps, Edited
<1>2. \A j \in Ids : j # i => inst'[j] = inst[j]
  BY <1>0 DEF StopKeeps, Edited
<1>3. \A j \in Ids : IsOver(j) => Tried(j) /\ ~Live(j)
  BY DEF IsOver, Tried, Live
<1>4. StageInv'
  <2>1. ASSUME NEW j \in Ids, NEW s \in PastCall, AtStage(s, j)'
        PROVE  /\ ~inst'[j].registered
               /\ s = "kill" => inst'[j].cmd # "nil" \/ Tried(j)'
               /\ s = "remove" \/ s = "clear" => IsOver(j)'
    <3>1. CASE AtStage(s, j)
      <4>1. /\ ~inst[j].registered
            /\ s = "kill" => inst[j].cmd # "nil" \/ Tried(j)
            /\ s = "remove" \/ s = "clear" => IsOver(j)
        BY <3>1 DEF RunnerInv, StageInv
      <4> QED
        BY <1>1, <1>3, <4>1
    <3>2. CASE j = i /\ s = to
      BY <1>1, <3>2
    <3> QED
      BY <2>1, <3>1, <3>2
  <2>2. {"kill", "remove", "clear"} \subseteq PastCall
    BY DEF PastCall
  <2> QED
    BY <1>1, <2>1, <2>2 DEF StageInv
<1>5. CallInv'
  <2>1. ASSUME NEW j \in Ids, sig = "none", AtStage("call", j)', ~inst'[j].unreg
        PROVE  IsOver(j)
    <3>1. AtStage("call", j)
      BY <1>1, <2>1
    <3>2. CASE inst[j].unreg
      BY <1>1, <2>1, <3>2
    <3>3. CASE ~inst[j].unreg
      BY <2>1, <3>1, <3>3 DEF RunnerInv, CallInv
    <3> QED
      BY <3>2, <3>3
  <2> QED
    BY <1>1, <2>1 DEF CallInv
<1>6. LockInv'
  BY <1>1 DEF RunnerInv, LockInv
<1>7. MakingInv'
  <2>1. ASSUME NEW v \in Watchers, Making(v)'
        PROVE  pc'[v] = pc[v] /\ Making(v) /\ made[v] \in Ids
    BY <2>1 DEF Making, TypeOK
  <2>2. ASSUME NEW v \in Watchers, Making(v)', sig = "none"
        PROVE  inst'[made[v]].registered
    BY <1>2, <2>1, <2>2 DEF RunnerInv, MakingInv
  <2> QED
    BY <1>1, <1>3, <2>1, <2>2 DEF RunnerInv, MakingInv
<1>8. StartedInv'
  <2>1. ASSUME NEW v \in Watchers, Started(v)'
        PROVE  pc'[v] = pc[v] /\ Started(v) /\ made[v] \in Ids
    BY <2>1 DEF Started, TypeOK
  <2>2. ASSUME NEW v \in Watchers, pc'[v] = "pid"
        PROVE  Started(v)'
    BY <2>2 DEF Started
  <2>3. ASSUME NEW v \in Watchers, pc'[v] = "pid", sig = "none"
        PROVE  inst'[made[v]].registered
    BY <1>2, <2>1, <2>2, <2>3 DEF RunnerInv, StartedInv
  <2> QED
    BY <1>1, <2>1, <2>2, <2>3 DEF RunnerInv, StartedInv
<1>9. TargetInv'
  BY <1>1 DEF RunnerInv, TargetInv, TypeOK
<1>10. RiInv' /\ SignalInv' /\ StrayInv'
  <2>1. \A j \in Ids : Live(j)' /\ inst[j].registered =>
                          inst'[j].registered \/ AboutToKill(j)'
    BY <1>1, <1>2
  <2>2. \A j \in Ids : Live(j)' /\ AboutToKill(j) => AboutToKill(j)'
    BY <1>1
  <2> QED
    BY <1>1, <2>1, <2>2, ShrinkingStep
<1> QED
  BY <1>1, <1>4, <1>5, <1>6, <1>7, <1>8, <1>9, <1>10

(* Stop, called by a watcher.                                              *)
LEMMA WatcherStopsStep ==
    ASSUME TypeOK, RunnerInv, ~panicked, ~panicked', sig # "exited",
           NEW w \in Watchers, WatcherStops(w)
    PROVE  RunnerInv'
<1>1. PICK i \in Ids, from \in Stages, to \in Stages \cup {"stopped"} :
         /\ i = target[w] /\ from = pc[w]
         /\ StopStage(i, from, to) /\ pc' = [pc EXCEPT ![w] = to]
  BY DEF WatcherStops, TypeOK
<1>2. UNCHANGED <<waiter, ri, lock, job, made, target, signal>>
  BY DEF WatcherStops
<1>3. AtStage(from, i)
  BY <1>1 DEF AtStage
<1>4. StopKeeps(i, from, to)
  BY <1>1, <1>3, StopInstances
<1>5. pc'[w] = to /\ \A v \in Watchers : v # w => pc'[v] = pc[v]
  BY <1>1 DEF TypeOK
<1>6. WaiterInv'
  BY <1>2, <1>4 DEF RunnerInv, WaiterInv, StopKeeps, Edited
<1>7. \A j \in Ids, s \in PastCall \cup {"call"} :
         AtStage(s, j)' => AtStage(s, j) \/ (j = i /\ s = to)
  <2>1. ASSUME NEW j \in Ids, NEW s \in PastCall \cup {"call"}, AtStage(s, j)', ~AtStage(s, j)
        PROVE  j = i /\ s = to
    <3>1. PICK v \in Watchers : pc'[v] = s /\ target'[v] = j
      BY <1>2, <2>1 DEF AtStage, signal
    <3>2. v = w
      BY <1>2, <1>5, <2>1, <3>1 DEF AtStage
    <3> QED
      BY <1>1, <1>2, <1>5, <3>1, <3>2
  <2> QED
    BY <2>1
<1>8. \A j \in Ids : AboutToKill(j) => AboutToKill(j)' \/ (j = i /\ to \notin EarlyStages)
  <2>1. ASSUME NEW j \in Ids, NEW v \in Watchers, pc[v] \in EarlyStages, target[v] = j
        PROVE  AboutToKill(j)' \/ (j = i /\ to \notin EarlyStages)
    <3>1. CASE v = w
      BY <1>1, <1>2, <1>5, <2>1, <3>1 DEF AboutToKill
    <3>2. CASE v # w
      BY <1>2, <1>5, <2>1, <3>2 DEF AboutToKill
    <3> QED
      BY <3>1, <3>2
  <2>2. \A j \in Ids : sig \in EarlyStages /\ sigTarget = j => AboutToKill(j)'
    BY <1>2 DEF AboutToKill, signal
  <2> QED
    BY <2>1, <2>2 DEF AboutToKill
<1>9. to \in EarlyStages => AboutToKill(i)'
  BY <1>1, <1>2, <1>5 DEF AboutToKill
<1>10. \A v \in Watchers :
          /\ pc'[v] \in Stages => pc[v] \in Stages
          /\ pc'[v] \notin {"idle", "lock"} => pc[v] \notin {"idle", "lock"}
          /\ Making(v)' \/ Started(v)' => pc'[v] = pc[v]
          /\ Started(v) => Started(v)'
          /\ pc[v] = "pid" => waiter'[made[v]] = waiter[made[v]]
  BY <1>1, <1>2, <1>5 DEF Making, Started, Stages, EarlyStages
<1>11. \A v \in Watchers : pc[v] \notin {"idle", "lock"} /\ TunnelOf[v] = TunnelOf[w] => v = w
  BY <1>1 DEF RunnerInv, LockInv, Stages, EarlyStages
<1>12. inst[i].tunnel = TunnelOf[w]
  BY <1>1 DEF RunnerInv, TargetInv
<1>13. ~ \E v \in Watchers : (Making(v) \/ pc[v] = "pid") /\ made[v] = i
  <2>1. SUFFICES ASSUME NEW v \in Watchers, Making(v) \/ pc[v] = "pid", made[v] = i
                 PROVE  FALSE
    OBVIOUS
  <2>2. inst[i].tunnel = TunnelOf[v] /\ pc[v] \notin Stages \cup {"idle", "lock"}
    BY <2>1 DEF RunnerInv, MakingInv, StartedInv, Making, Started, Stages, EarlyStages
  <2> QED
    BY <1>1, <1>11, <1>12, <2>2
<1>14. sig = "none" /\ from = "forget" /\ AtStage("call", i)' => IsOver(i)
  <2>1. SUFFICES ASSUME sig = "none", from = "forget", AtStage("call", i)'
                 PROVE  IsOver(i)
    OBVIOUS
  <2>2. to # "call"
    BY <1>4, <2>1 DEF StopKeeps, StageMove
  <2>3. ASSUME NEW v \in Watchers, pc'[v] = "call", target'[v] = i
        PROVE  FALSE
    <3>1. v # w /\ pc[v] = "call" /\ target[v] = i
      BY <1>2, <1>5, <2>2, <2>3
    <3>2. inst[i].tunnel = TunnelOf[v]
      BY <3>1 DEF RunnerInv, TargetInv, Stages, EarlyStages
    <3> QED
      BY <1>11, <1>12, <3>1, <3>2
  <2>4. waiter[i] = "call"
    BY <1>2, <2>1, <2>3 DEF AtStage, signal
  <2> QED
    BY <2>4 DEF RunnerInv, WaiterInv, Stages, EarlyStages
<1>15. sig' = sig /\ sig # "exited" /\ sigLive' = sigLive /\ sigLen' = sigLen
  BY <1>2 DEF signal
<1>16. /\ CommandInv' /\ StageInv' /\ CallInv' /\ LockInv' /\ MakingInv' /\ StartedInv'
       /\ TargetInv' /\ RiInv' /\ SignalInv' /\ StrayInv'
  BY <1>1, <1>2, <1>3, <1>7, <1>8, <1>9, <1>10, <1>13, <1>14, <1>15, StopOthers
<1> QED
  BY <1>6, <1>16 DEF RunnerInv

(* Stop, called by the goroutine that has waited for the process.          *)
LEMMA WaiterStopsStep ==
    ASSUME TypeOK, RunnerInv, ~panicked, ~panicked', sig # "exited", NEW i \in Ids,
           WaiterStops(i)
    PROVE  RunnerInv'
<1>1. PICK from \in Stages, to \in Stages \cup {"stopped"} :
         /\ from = waiter[i]
         /\ StopStage(i, from, to) /\ waiter' = [waiter EXCEPT ![i] = to]
  BY DEF WaiterStops
<1>2. UNCHANGED <<ri, lock, pc, job, made, target, signal>>
  BY DEF WaiterStops, callers
<1>3. AtStage(from, i)
  BY <1>1 DEF AtStage
<1>4. StopKeeps(i, from, to)
  BY <1>1, <1>3, StopInstances
<1>5. waiter'[i] = to /\ \A j \in Ids : j # i => waiter'[j] = waiter[j]
  BY <1>1, WaiterMoves
<1>6. Tried(i) /\ IsOver(i) /\ ~Live(i)
  BY <1>1 DEF RunnerInv, WaiterInv, IsOver, Live, Tried
<1>7. WaiterInv'
  BY <1>1, <1>4, <1>5, <1>6 DEF RunnerInv, WaiterInv, StopKeeps, Edited
<1>8. \A j \in Ids, s \in PastCall \cup {"call"} :
         AtStage(s, j)' => AtStage(s, j) \/ (j = i /\ s = to)
  <2>1. ASSUME NEW j \in Ids, NEW s \in PastCall \cup {"call"}, AtStage(s, j)', ~AtStage(s, j)
        PROVE  j = i /\ s = to
    <3>1. waiter'[j] = s /\ waiter[j] # s
      BY <1>2, <2>1 DEF AtStage, signal
    <3> QED
      BY <1>5, <3>1
  <2> QED
    BY <2>1
<1>9. \A j \in Ids : AboutToKill(j) => AboutToKill(j)'
  BY <1>2 DEF AboutToKill, signal
<1>10. ~Live(i)'
  BY <1>4, <1>6 DEF StopKeeps
<1>11. \A v \in Watchers : pc[v] = "pid" => made[v] # i /\ made[v] \in Ids
  <2>1. waiter[i] # "none"
    BY <1>1 DEF Stages, EarlyStages
  <2> QED
    BY <2>1 DEF RunnerInv, StartedInv, TypeOK, Started
<1>12. \A v \in Watchers :
          /\ pc'[v] \in Stages => pc[v] \in Stages
          /\ pc'[v] \notin {"idle", "lock"} => pc[v] \notin {"idle", "lock"}
          /\ Making(v)' \/ Started(v)' => pc'[v] = pc[v]
          /\ Started(v) => Started(v)'
          /\ pc[v] = "pid" => waiter'[made[v]] = waiter[made[v]]
  BY <1>2, <1>5, <1>11 DEF Making, Started
<1>13. ~ \E v \in Watchers : (Making(v) \/ pc[v] = "pid") /\ made[v] = i
  BY <1>6, <1>11 DEF RunnerInv, MakingInv
<1>14. sig' = sig /\ sig' # "exited" /\ sigLive' = sigLive /\ sigLen' = sigLen
  BY <1>2 DEF signal
<1>15. /\ CommandInv' /\ StageInv' /\ CallInv' /\ LockInv' /\ MakingInv' /\ StartedInv'
       /\ TargetInv' /\ RiInv' /\ SignalInv' /\ StrayInv'
  BY <1>1, <1>2, <1>3, <1>6, <1>8, <1>9, <1>10, <1>12, <1>13, <1>14, StopOthers
<1> QED
  BY <1>7, <1>15 DEF RunnerInv

(* Stop, called by Shutdown.                                               *)
LEMMA ShutdownStopsStep ==
    ASSUME TypeOK, RunnerInv, ~panicked, ~panicked', ShutdownStops
    PROVE  RunnerInv'
<1>1. PICK i \in Ids, from \in Stages, to \in Stages \cup {"stopped"} :
         /\ i = sigTarget /\ from = sig
         /\ StopStage(i, from, to) /\ sig' = IF to = "stopped" THEN "range" ELSE to
  BY DEF ShutdownStops, TypeOK
<1>2. UNCHANGED <<waiter, ri, lock, pc, job, made, target, sigTarget, sigLen, sigLive>>
  BY DEF ShutdownStops, callers
<1>3. AtStage(from, i)
  BY <1>1 DEF AtStage
<1>4. StopKeeps(i, from, to)
  BY <1>1, <1>3, StopInstances
<1>5. WaiterInv'
  BY <1>2, <1>4 DEF RunnerInv, WaiterInv, StopKeeps, Edited
<1>6. \A j \in Ids, s \in PastCall \cup {"call"} :
         AtStage(s, j)' => AtStage(s, j) \/ (j = i /\ s = to)
  <2>1. ASSUME NEW j \in Ids, NEW s \in PastCall \cup {"call"}, AtStage(s, j)', ~AtStage(s, j)
        PROVE  j = i /\ s = to
    <3>1. sig' = s /\ sigTarget = j
      BY <1>2, <2>1 DEF AtStage
    <3>2. s # "range"
      BY DEF PastCall
    <3> QED
      BY <1>1, <3>1, <3>2
  <2> QED
    BY <2>1
<1>7. \A j \in Ids : AboutToKill(j) => AboutToKill(j)' \/ (j = i /\ to \notin EarlyStages)
  <2>1. \A j \in Ids, v \in Watchers :
           pc[v] \in EarlyStages /\ target[v] = j => AboutToKill(j)'
    BY <1>2 DEF AboutToKill
  <2>2. to \in EarlyStages => sig' = to
    BY <1>1 DEF EarlyStages
  <2>3. \A j \in Ids : sig \in EarlyStages /\ sigTarget = j =>
                          AboutToKill(j)' \/ (j = i /\ to \notin EarlyStages)
    BY <1>1, <1>2, <2>2 DEF AboutToKill
  <2> QED
    BY <2>1, <2>3 DEF AboutToKill
<1>8. to \in EarlyStages => AboutToKill(i)'
  <2>1. to \in EarlyStages => sig' = to
    BY <1>1 DEF EarlyStages
  <2> QED
    BY <1>1, <1>2, <2>1 DEF AboutToKill
<1>9. \A v \in Watchers :
         /\ pc'[v] \in Stages => pc[v] \in Stages
         /\ pc'[v] \notin {"idle", "lock"} => pc[v] \notin {"idle", "lock"}
         /\ Making(v)' \/ Started(v)' => pc'[v] = pc[v]
         /\ Started(v) => Started(v)'
         /\ pc[v] = "pid" => waiter'[made[v]] = waiter[made[v]]
  BY <1>2 DEF Making, Started
<1>10. sig # "none" /\ sig' # "none" /\ sig' # "exited"
  BY <1>1 DEF Stages, EarlyStages
<1>11. /\ CommandInv' /\ StageInv' /\ CallInv' /\ LockInv' /\ MakingInv' /\ StartedInv'
       /\ TargetInv' /\ RiInv' /\ SignalInv' /\ StrayInv'
  BY <1>1, <1>2, <1>3, <1>6, <1>7, <1>8, <1>9, <1>10, StopOthers
<1> QED
  BY <1>5, <1>11 DEF RunnerInv
-----------------------------------------------------------------------------
(* A step in which the controller dies is none of its end.                 *)
LEMMA DyingStep ==
    ASSUME TypeOK, Next, panicked'
    PROVE  RunnerInv'
<1>1. ~Exit /\ sig # "exited" /\ ~panicked
  BY DEF Next, Alive, Exit
<1>2. sig' = sig \/ sig' = "range" \/ sig' \in Stages
  <2>1. ASSUME NEW w \in Watchers, Deliver(w) \/ Lock(w) \/ RegisterNames(w) \/ Work(w)
        PROVE  sig' = sig
    BY <2>1 DEF Deliver, Lock, RegisterNames, Work, NoChange, NewInstance, RefuseDir, NoDir,
       MakeDir, MakeDirFails, WriteFiles, WriteFilesFails, SetCommand, ExecFails,
       StartProcess, ReadPid, Replace, WatcherStops, Unlock, signal
  <2>2. ASSUME NEW i \in Ids, ProcessExits(i) \/ Waiter(i)
        PROVE  sig' = sig
    BY <2>2 DEF ProcessExits, Waiter, WaitBegins, WaitEnds, WaiterStops, WaiterClears, signal
  <2>3. ASSUME Interrupt \/ Shutdown
        PROVE  sig' = sig \/ sig' = "range" \/ sig' \in Stages
    BY <1>1, <2>3 DEF Interrupt, Shutdown, StopListening, ShutdownStops, ShutdownPicks, Stages,
       EarlyStages
  <2> QED
    BY <2>1, <2>2, <2>3 DEF Next
<1>3. sig' # "exited"
  BY <1>1, <1>2 DEF Stages, EarlyStages
<1> QED
  BY <1>3 DEF RunnerInv

LEMMA RunnerStep ==
    ASSUME TypeOK, RunnerInv, Next
    PROVE  RunnerInv'
<1>1. ~panicked /\ sig # "exited"
  BY DEF Next, Alive
<1>2. CASE panicked'
  BY <1>2, DyingStep
<1>3. CASE ~panicked'
  <2>1. ASSUME NEW w \in Watchers, Deliver(w) \/ Lock(w) \/ RegisterNames(w) \/ Work(w)
        PROVE  RunnerInv'
    BY <1>1, <1>3, <2>1, StartSteps, FailSteps, NewStep, SetCommandStep, StartProcessStep,
       ReadPidStep, ReplaceStep, WatcherStopsStep DEF Work
  <2>2. ASSUME NEW i \in Ids, ProcessExits(i) \/ Waiter(i)
        PROVE  RunnerInv'
    BY <1>1, <1>3, <2>2, ExitStep, WaitStep, WaiterStopsStep DEF Waiter
  <2>3. ASSUME Interrupt \/ Shutdown
        PROVE  RunnerInv'
    BY <1>1, <1>3, <2>3, SignalStep, ShutdownStopsStep DEF Shutdown
  <2> QED
    BY <2>1, <2>2, <2>3 DEF Next
<1> QED
  BY <1>2, <1>3


LEMMA RunnerInitially == Init => RunnerInv
<1> SUFFICES ASSUME Init PROVE RunnerInv
  OBVIOUS
<1>1. Ids = {} /\ ~panicked
  BY DEF Init, Ids
<1>2. CommandInv /\ WaiterInv /\ StageInv /\ CallInv /\ StrayInv /\ SignalInv
  BY <1>1 DEF Init, CommandInv, WaiterInv, StageInv, CallInv, StrayInv, SignalInv
<1>3. RiInv
  BY DEF Init, RiInv
<1>4. LockInv /\ MakingInv /\ StartedInv
  BY DEF Init, LockInv, MakingInv, StartedInv, Making, Started
<1>5. TargetInv
  BY DEF Init, TargetInv, Stages, EarlyStages
<1> QED
  BY <1>1, <1>2, <1>3, <1>4, <1>5 DEF RunnerInv

(* Until the controller dies, its instances, the stages of Stop, the       *)
(* Tunnels and the shutdown agree with each other.                         *)
THEOREM RunnerInvariant == Spec => []RunnerInv
<1>1. TypeOK /\ RunnerInv /\ [Next]_vars => RunnerInv'
  <2>1. ASSUME UNCHANGED vars, RunnerInv
        PROVE  RunnerInv'
    <3>1. /\ CommandInv' <=> CommandInv
          /\ WaiterInv' <=> WaiterInv
          /\ StageInv' <=> StageInv
          /\ CallInv' <=> CallInv
      BY <2>1 DEF vars, CommandInv, WaiterInv, StageInv, CallInv, Ids, Live, Tried, IsOver,
         AtStage
    <3>2. /\ LockInv' <=> LockInv
          /\ MakingInv' <=> MakingInv
          /\ StartedInv' <=> StartedInv
          /\ TargetInv' <=> TargetInv
          /\ RiInv' <=> RiInv
      BY <2>1 DEF vars, LockInv, MakingInv, StartedInv, TargetInv, RiInv, Ids, Tried, Making,
         Started
    <3>3. /\ SignalInv' <=> SignalInv
          /\ StrayInv' <=> StrayInv
      BY <2>1 DEF vars, SignalInv, StrayInv, Ids, Live, Tried, Started, Stoppable, AboutToKill
    <3>4. panicked' = panicked /\ sig' = sig
      BY <2>1 DEF vars
    <3> QED
      BY <2>1, <3>1, <3>2, <3>3, <3>4 DEF RunnerInv
  <2> QED
    BY <2>1, RunnerStep
<1> QED
  BY <1>1, RunnerInitially, TypeCorrect, PTL DEF Spec

(* No process runs unknown to its Tunnel.                                  *)
THEOREM StraysAreKilled == Spec => []NoStrays
<1>1. RunnerInv => NoStrays
  BY DEF RunnerInv, StrayInv, NoStrays, Alive
<1> QED
  BY <1>1, RunnerInvariant, PTL

(* From SIGINT on, every process that ran then is one that Shutdown will   *)
(* still come to or that somebody is about to kill; at the exit only the   *)
(* latter is left.  It says nothing of a controller that has died.         *)
THEOREM InterruptIsThorough == Spec => []InterruptStopsAll
<1>1. TypeOK /\ RunnerInv => InterruptStopsAll
  <2> SUFFICES ASSUME TypeOK, RunnerInv, sig # "none", ~panicked,
                      NEW i \in sigLive, Live(i)
               PROVE  (sig # "exited" /\ inst[i].registered) \/ AboutToKill(i)
    BY DEF InterruptStopsAll
  <2>1. SignalInv
    BY DEF RunnerInv
  <2>2. i \in Ids /\ Stoppable(i) /\ i <= sigLen
    BY <2>1 DEF SignalInv, TypeOK
  <2>3. i \in 1 .. sigLen
    BY <2>2 DEF TypeOK, Ids
  <2>4. sig = "exited" => ~inst[i].registered
    BY <2>1, <2>3 DEF SignalInv
  <2> QED
    BY <2>2, <2>4 DEF Stoppable
<1> QED
  BY <1>1, TypeCorrect, RunnerInvariant, PTL

(* Who kills the process of an instance is in the Stop of that instance.   *)
LEMMA KillStep ==
    ASSUME TypeOK, Next, NEW i \in Ids, Live(i), inst'[i].proc = "killed"
    PROVE  \/ \E w \in Watchers : pc[w] \in Stages /\ target[w] = i
           \/ sig \in Stages
           \/ waiter[i] \in Stages
<1>1. inst \in Seq(Instances) /\ inst[i].proc = "running"
  BY DEF TypeOK, Live
<1>2. inst' # inst
  BY <1>1
<1>3. ASSUME NEW w \in Watchers, Deliver(w) \/ Lock(w) \/ RegisterNames(w) \/ Work(w)
      PROVE  pc[w] \in Stages /\ target[w] = i
  <2>1. ~NewInstance(w)
    BY <1>1, NewEffect
  <2>2. ~SetCommand(w)
    <3>1. ASSUME SetCommand(w) PROVE FALSE
      <4>1. made[w] \in Ids
        BY <3>1 DEF SetCommand, TypeOK, Making
      <4>2. PICK m \in Ids : m = made[w]
        BY <4>1
      <4>3. inst'[m].proc = inst[m].proc /\ Edited(m)
        BY <1>1, <3>1, <4>2, CommandEffect DEF SetCommand
      <4> QED
        BY <1>1, <4>3 DEF Edited
    <3> QED
      BY <3>1
  <2>3. ~StartProcess(w)
    <3>1. ASSUME StartProcess(w) PROVE FALSE
      <4>1. made[w] \in Ids
        BY <3>1 DEF StartProcess, TypeOK, Making
      <4>2. PICK m \in Ids : m = made[w]
        BY <4>1
      <4>3. inst'[m].proc = "running" /\ Edited(m)
        BY <1>1, <3>1, <4>2, StartEffect DEF StartProcess
      <4> QED
        BY <1>1, <4>3 DEF Edited
    <3> QED
      BY <3>1
  <2>4. WatcherStops(w)
    BY <1>2, <1>3, <2>1, <2>2, <2>3 DEF Deliver, Lock, RegisterNames, Work, NoChange,
       RefuseDir, NoDir, MakeDir, MakeDirFails, WriteFiles, WriteFilesFails, ExecFails,
       ReadPid, Replace, Unlock
  <2>5. PICK to : StopStage(target[w], pc[w], to)
    BY <2>4 DEF WatcherStops
  <2>6. pc[w] \in Stages /\ target[w] \in Ids
    BY <2>4 DEF WatcherStops, TypeOK
  <2>7. Edited(target[w])
    BY <2>5, <2>6, StageEffect DEF TypeOK, StageChange
  <2>8. target[w] = i
    BY <1>1, <2>7 DEF Edited
  <2> QED
    BY <2>6, <2>8
<1>4. ASSUME NEW j \in Ids, ProcessExits(j) \/ Waiter(j)
      PROVE  waiter[i] \in Stages
  <2>1. ~ProcessExits(j)
    <3>1. ASSUME ProcessExits(j) PROVE FALSE
      <4>1. Edited(j) /\ inst'[j].proc = "exited"
        BY <1>1, <3>1, ProcessEffect DEF ProcessExits
      <4> QED
        BY <1>1, <4>1 DEF Edited
    <3> QED
      BY <3>1
  <2>2. ~WaiterClears(j)
    <3>1. ASSUME WaiterClears(j) PROVE FALSE
      <4>1. Edited(j) /\ inst'[j].proc = inst[j].proc
        BY <1>1, <3>1, CommandEffect DEF WaiterClears
      <4> QED
        BY <1>1, <4>1 DEF Edited
    <3> QED
      BY <3>1
  <2>3. WaiterStops(j)
    BY <1>2, <1>4, <2>1, <2>2 DEF Waiter, WaitBegins, WaitEnds
  <2>4. PICK to : StopStage(j, waiter[j], to)
    BY <2>3 DEF WaiterStops
  <2>5. Edited(j)
    BY <2>4, StageEffect DEF TypeOK, StageChange
  <2>6. j = i
    BY <1>1, <2>5 DEF Edited
  <2> QED
    BY <2>3, <2>6 DEF WaiterStops
<1>5. ASSUME Interrupt \/ Shutdown
      PROVE  sig \in Stages
  BY <1>2, <1>5 DEF Interrupt, Shutdown, StopListening, ShutdownStops, Exit, ShutdownPicks
<1> QED
  BY <1>3, <1>4, <1>5 DEF Next

(* A process is killed only for a newer one of its tunnel, for a deleted   *)
(* ConfigMap or for the end of the controller.                             *)
THEOREM ServesOn == Spec => KeepsServing
<1>1. ASSUME TypeOK, RunnerInv, Next, NEW i \in Ids, Live(i), inst'[i].proc = "killed"
      PROVE  \/ \E r \in Ids \ {i} : ri[inst[i].tunnel] = r /\ inst[r].proc # "none"
             \/ \E w \in Watchers : target[w] = i /\ job[w].op = "stop"
             \/ sig \in Stages
  <2>1. ~panicked
    BY <1>1 DEF Next, Alive
  <2>2. waiter[i] \notin Stages
    BY <1>1, <2>1 DEF RunnerInv, WaiterInv, IsOver, Live
  <2>3. ASSUME NEW w \in Watchers, pc[w] \in Stages, target[w] = i
        PROVE  \/ \E r \in Ids \ {i} : ri[inst[i].tunnel] = r /\ inst[r].proc # "none"
               \/ job[w].op = "stop"
    <3>1. Tried(i)
      BY <1>1 DEF Live, Tried
    <3>2. TargetInv
      BY <1>1, <2>1 DEF RunnerInv
    <3> QED
      BY <2>3, <3>1, <3>2 DEF TargetInv, Tried
  <2> QED
    BY <1>1, <2>2, <2>3, KillStep
<1>2. TypeOK /\ RunnerInv /\ [Next]_vars =>
        [\A i \in Ids : Live(i) /\ inst'[i].proc = "killed" =>
            \/ \E r \in Ids \ {i} : ri[inst[i].tunnel] = r /\ inst[r].proc # "none"
            \/ \E w \in Watchers : target[w] = i /\ job[w].op = "stop"
            \/ sig \in Stages]_vars
  BY <1>1
<1> QED
  BY <1>2, TypeCorrect, RunnerInvariant, PTL DEF Spec, KeepsServing

(* A Tunnel's mutex is held by the watcher that is at work on it: nobody   *)
(* else is in Start or Stop of that Tunnel, and no way out of the two (no  *)
(* change, the refusal, every failure, the return of Stop) keeps it.       *)
THEOREM MutexIsHeldAtWork == Spec => []MutexInv
<1>1. Init => MutexInv
  BY NoJobAssumption DEF Init, MutexInv
<1>2. ASSUME TypeOK, MutexInv, Next
      PROVE  MutexInv'
  <2>1. ASSUME NEW w \in Watchers, Lock(w)
        PROVE  MutexInv'
    <3>1. PICK t \in Tunnels : t = TunnelOf[w]
      BY TunnelOfAssumption
    <3>2. lock[t] = NoJob /\ lock' = [lock EXCEPT ![t] = w]
      BY <2>1, <3>1 DEF Lock
    <3>3. PICK p \in {"compare", "stop", "stopped"} : pc' = [pc EXCEPT ![w] = p]
      BY <2>1 DEF Lock, StopTarget
    <3> QED
      BY <1>2, <3>1, <3>2, <3>3, NoJobAssumption DEF MutexInv, TypeOK
  <2>2. ASSUME NEW w \in Watchers, Unlock(w)
        PROVE  MutexInv'
    <3>1. PICK t \in Tunnels : t = TunnelOf[w]
      BY TunnelOfAssumption
    <3>2. pc[w] = "stopped" /\ lock' = [lock EXCEPT ![t] = NoJob]
             /\ pc' = [pc EXCEPT ![w] = "idle"]
      BY <2>2, <3>1 DEF Unlock
    <3> QED
      BY <1>2, <3>1, <3>2, NoJobAssumption DEF MutexInv, TypeOK
  <2>3. ASSUME lock' = lock,
               \A v \in Watchers : pc'[v] \in {"idle", "lock"} <=> pc[v] \in {"idle", "lock"}
        PROVE  MutexInv'
    BY <1>2, <2>3 DEF MutexInv
  <2>4. ASSUME NEW w \in Watchers, Deliver(w) \/ RegisterNames(w) \/ Work(w), ~Unlock(w)
        PROVE  /\ lock' = lock
               /\ \A v \in Watchers :
                      pc'[v] \in {"idle", "lock"} <=> pc[v] \in {"idle", "lock"}
    BY <1>2, <2>4 DEF Deliver, RegisterNames, Work, NoChange, NewInstance, RefuseDir, NoDir,
       MakeDir, MakeDirFails, WriteFiles, WriteFilesFails, SetCommand, ExecFails,
       StartProcess, ReadPid, Replace, WatcherStops, StopTarget, Stages, EarlyStages, TypeOK
  <2>5. ASSUME NEW i \in Ids, ProcessExits(i) \/ Waiter(i)
        PROVE  lock' = lock /\ pc' = pc
    BY <2>5 DEF ProcessExits, Waiter, WaitBegins, WaitEnds, WaiterStops, WaiterClears, callers
  <2>6. ASSUME Interrupt \/ Shutdown
        PROVE  lock' = lock /\ pc' = pc
    BY <2>6 DEF Interrupt, Shutdown, StopListening, ShutdownStops, Exit, ShutdownPicks, callers
  <2> QED
    BY <1>2, <2>1, <2>2, <2>3, <2>4, <2>5, <2>6 DEF Next, Work
<1>3. TypeOK /\ MutexInv /\ [Next]_vars => MutexInv'
  BY <1>2 DEF vars, MutexInv
<1> QED
  BY <1>1, <1>3, TypeCorrect, PTL DEF Spec

(* A stage of Stop that panics is one that calls a function that is gone,  *)
(* or kills where there is no command, or one that was not started.        *)
LEMMA StagePanics ==
    ASSUME TypeOK, RunnerInv, ~panicked, NEW i \in Ids, NEW from, NEW to,
           StopStage(i, from, to), AtStage(from, i), panicked'
    PROVE  DiesOver(i)
<1>1. StageMove(i, from, to) /\ inst \in Seq(Instances)
  BY StageEffect DEF StageChange, TypeOK
<1>2. \/ from = "call" /\ ~inst[i].unreg
      \/ from = "kill" /\ inst[i].cmd # "started"
  BY <1>1 DEF StageMove, Unpanicked
<1>3. CASE from = "call" /\ ~inst[i].unreg
  <2>1. ~inst[i].registered
    BY <1>3 DEF RunnerInv, CommandInv
  <2>2. IsOver(i) \/ sig # "none"
    BY <1>3 DEF RunnerInv, CallInv
  <2> QED
    BY <1>3, <2>1, <2>2 DEF DiesOver
<1>4. CASE from = "kill" /\ inst[i].cmd # "started"
  <2>1. ~inst[i].registered /\ (inst[i].cmd # "nil" \/ Tried(i))
    BY <1>4 DEF RunnerInv, StageInv, PastCall
  <2>2. /\ inst[i].cmd \in {"nil", "unstarted", "started"}
        /\ inst[i].proc \in {"none", "running", "killed", "exited"}
    BY <1>1, Fields
  <2>3. CASE inst[i].cmd = "nil"
    <3>1. ~Live(i)
      BY <2>3 DEF RunnerInv, CommandInv
    <3>2. IsOver(i)
      BY <2>1, <2>2, <2>3, <3>1 DEF IsOver, Tried, Live
    <3> QED
      BY <1>4, <2>1, <2>3, <3>2 DEF DiesOver, UsesCommand
  <2>4. CASE inst[i].cmd = "unstarted"
    <3>1. ~Tried(i)
      BY <2>4 DEF RunnerInv, CommandInv
    <3>2. waiter[i] # "kill"
      BY <3>1 DEF RunnerInv, WaiterInv
    <3>3. sig = "none" => \E w \in Watchers : pc[w] = "kill" /\ target[w] = i
      BY <1>4, <3>2 DEF AtStage
    <3>4. ASSUME NEW w \in Watchers, pc[w] = "kill", target[w] = i
          PROVE  made[w] = i
      <4>1. pc[w] \in Stages
        BY <3>4 DEF Stages, EarlyStages
      <4> QED
        BY <3>1, <3>4, <4>1 DEF RunnerInv, TargetInv
    <3> QED
      BY <1>4, <2>1, <2>4, <3>3, <3>4 DEF DiesOver, FailedToStart
  <2> QED
    BY <1>4, <2>2, <2>3, <2>4
<1> QED
  BY <1>2, <1>3, <1>4

(* The controller dies over an instance only: by a Stop that comes after   *)
(* another one, by a goroutine that finds the command gone when the        *)
(* process is over, or by a Stop of what was not started.                  *)
THEOREM DiesOfASecondStopOnly == Spec => DiesOfASecondStop
<1>1. ASSUME TypeOK, RunnerInv, Next, ~panicked, panicked'
      PROVE  \E i \in Ids : DiesOver(i)
  <2>1. ASSUME NEW w \in Watchers, Deliver(w) \/ Lock(w) \/ RegisterNames(w) \/ Work(w)
        PROVE  \E i \in Ids : DiesOver(i)
    <3>1. WatcherStops(w) \/ ReadPid(w)
      BY <1>1, <2>1 DEF Deliver, Lock, RegisterNames, Work, NoChange, NewInstance, RefuseDir,
         NoDir, MakeDir, MakeDirFails, WriteFiles, WriteFilesFails, SetCommand, ExecFails,
         StartProcess, Replace, Unlock
    <3>2. CASE WatcherStops(w)
      <4>1. PICK i \in Ids, to \in Stages \cup {"stopped"} :
           i = target[w] /\ StopStage(i, pc[w], to)
        BY <1>1, <3>2 DEF WatcherStops, TypeOK
      <4>2. AtStage(pc[w], i)
        BY <4>1 DEF AtStage
      <4> QED
        BY <1>1, <4>1, <4>2, StagePanics
    <3>3. CASE ReadPid(w)
      <4>1. PICK i \in Ids : i = made[w]
        BY <1>1, <3>3 DEF ReadPid, TypeOK, Started
      <4>2. pc[w] = "pid" /\ inst[i].cmd = "nil"
        BY <1>1, <3>3, <4>1 DEF ReadPid
      <4>3. Tried(i)
        BY <1>1, <4>1, <4>2 DEF RunnerInv, StartedInv, Started
      <4>4. ~Live(i) /\ ~inst[i].registered
        BY <1>1, <4>2, <4>3 DEF RunnerInv, CommandInv
      <4>5. inst[i].proc \in {"none", "running", "killed", "exited"}
        BY <1>1, Fields DEF TypeOK
      <4>6. IsOver(i)
        BY <4>3, <4>4, <4>5 DEF IsOver, Tried, Live
      <4> QED
        BY <4>1, <4>2, <4>4, <4>6 DEF DiesOver, UsesCommand
    <3> QED
      BY <3>1, <3>2, <3>3
  <2>2. ASSUME NEW i \in Ids, ProcessExits(i) \/ Waiter(i)
        PROVE  DiesOver(i)
    <3>1. WaitBegins(i) \/ WaiterStops(i)
      BY <1>1, <2>2 DEF ProcessExits, Waiter, WaitEnds, WaiterClears
    <3>2. CASE WaitBegins(i)
      <4>1. waiter[i] = "new" /\ inst[i].cmd = "nil"
        BY <1>1, <3>2 DEF WaitBegins
      <4>2. Tried(i)
        BY <1>1, <4>1 DEF RunnerInv, WaiterInv
      <4>3. ~Live(i) /\ ~inst[i].registered
        BY <1>1, <4>1, <4>2 DEF RunnerInv, CommandInv
      <4>4. inst[i].proc \in {"none", "running", "killed", "exited"}
        BY <1>1, Fields DEF TypeOK
      <4>5. IsOver(i)
        BY <4>2, <4>3, <4>4 DEF IsOver, Tried, Live
      <4> QED
        BY <4>1, <4>3, <4>5 DEF DiesOver, UsesCommand
    <3>3. CASE WaiterStops(i)
      <4>1. PICK to : StopStage(i, waiter[i], to)
        BY <3>3 DEF WaiterStops
      <4>2. AtStage(waiter[i], i)
        BY DEF AtStage
      <4> QED
        BY <1>1, <4>1, <4>2, StagePanics
    <3> QED
      BY <3>1, <3>2, <3>3
  <2>3. ASSUME Interrupt \/ Shutdown
        PROVE  \E i \in Ids : DiesOver(i)
    <3>1. ShutdownStops
      BY <1>1, <2>3 DEF Interrupt, Shutdown, StopListening, Exit, ShutdownPicks
    <3>2. PICK i \in Ids, to \in Stages \cup {"stopped"} :
           i = sigTarget /\ StopStage(i, sig, to)
      BY <1>1, <3>1 DEF ShutdownStops, TypeOK
    <3>3. AtStage(sig, i)
      BY <3>2 DEF AtStage
    <3> QED
      BY <1>1, <3>2, <3>3, StagePanics
  <2> QED
    BY <1>1, <2>1, <2>2, <2>3 DEF Next
<1>2. TypeOK /\ RunnerInv /\ [Next]_vars =>
        [~panicked /\ panicked' => \E i \in Ids : DiesOver(i)]_vars
  BY <1>1
<1> QED
  BY <1>2, TypeCorrect, RunnerInvariant, PTL DEF Spec, DiesOfASecondStop
-----------------------------------------------------------------------------
(***************************************************************************)
(* If no start fails no directory is left behind.                          *)
(***************************************************************************)
(* An instance is where it was made, in the directory it was made for.     *)
LEMMA DataStays ==
    ASSUME TypeOK, Next
    PROVE  Ids \subseteq Ids' /\ \A i \in Ids : inst'[i].data = inst[i].data
<1>1. inst \in Seq(Instances)
  BY DEF TypeOK
<1>2. ASSUME NEW i \in Ids, Edited(i)
      PROVE  Ids \subseteq Ids' /\ \A j \in Ids : inst'[j].data = inst[j].data
  BY <1>2 DEF Edited
<1>3. ASSUME inst' = inst
      PROVE  Ids \subseteq Ids' /\ \A j \in Ids : inst'[j].data = inst[j].data
  BY <1>3 DEF Ids
<1>4. ASSUME NEW w \in Watchers, Deliver(w) \/ Lock(w) \/ RegisterNames(w) \/ Work(w)
      PROVE  Ids \subseteq Ids' /\ \A j \in Ids : inst'[j].data = inst[j].data
  <2>1. CASE NewInstance(w)
    BY <2>1, NewEffect
  <2>2. CASE SetCommand(w)
    <3>1. PICK m \in Ids : m = made[w]
      BY <2>2 DEF SetCommand, TypeOK, Making
    <3>2. Edited(m)
      BY <1>1, <2>2, <3>1, CommandEffect DEF SetCommand
    <3> QED
      BY <1>2, <3>2
  <2>3. CASE StartProcess(w)
    <3>1. PICK m \in Ids : m = made[w]
      BY <2>3 DEF StartProcess, TypeOK, Making
    <3>2. Edited(m)
      BY <1>1, <2>3, <3>1, StartEffect DEF StartProcess
    <3> QED
      BY <1>2, <3>2
  <2>4. CASE WatcherStops(w)
    <3>1. PICK i \in Ids, to \in Stages \cup {"stopped"} :
           i = target[w] /\ StopStage(i, pc[w], to)
      BY <2>4 DEF WatcherStops, TypeOK
    <3>2. Edited(i)
      BY <3>1, StageEffect DEF StageChange, TypeOK
    <3> QED
      BY <1>2, <3>2
  <2>5. CASE ~NewInstance(w) /\ ~SetCommand(w) /\ ~StartProcess(w) /\ ~WatcherStops(w)
    BY <1>3, <1>4, <2>5 DEF Deliver, Lock, RegisterNames, Work, NoChange, RefuseDir, NoDir,
       MakeDir, MakeDirFails, WriteFiles, WriteFilesFails, ExecFails, ReadPid, Replace, Unlock
  <2> QED
    BY <2>1, <2>2, <2>3, <2>4, <2>5
<1>5. ASSUME NEW i \in Ids, ProcessExits(i) \/ Waiter(i)
      PROVE  Ids \subseteq Ids' /\ \A j \in Ids : inst'[j].data = inst[j].data
  <2>1. CASE ProcessExits(i)
    BY <1>1, <1>2, <2>1, ProcessEffect DEF ProcessExits
  <2>2. CASE WaiterClears(i)
    BY <1>1, <1>2, <2>2, CommandEffect DEF WaiterClears
  <2>3. CASE WaiterStops(i)
    <3>1. PICK to : StopStage(i, waiter[i], to)
      BY <2>3 DEF WaiterStops
    <3>2. Edited(i)
      BY <3>1, StageEffect DEF StageChange, TypeOK
    <3> QED
      BY <1>2, <3>2
  <2>4. CASE WaitBegins(i) \/ WaitEnds(i)
    BY <1>3, <2>4 DEF WaitBegins, WaitEnds
  <2> QED
    BY <1>5, <2>1, <2>2, <2>3, <2>4 DEF Waiter
<1>6. ASSUME Interrupt \/ Shutdown
      PROVE  Ids \subseteq Ids' /\ \A j \in Ids : inst'[j].data = inst[j].data
  <2>1. CASE ShutdownStops
    <3>1. PICK i \in Ids, to \in Stages \cup {"stopped"} :
           i = sigTarget /\ StopStage(i, sig, to)
      BY <2>1 DEF ShutdownStops, TypeOK
    <3>2. Edited(i)
      BY <3>1, StageEffect DEF StageChange, TypeOK
    <3> QED
      BY <1>2, <3>2
  <2>2. CASE ~ShutdownStops
    BY <1>3, <1>6, <2>2 DEF Interrupt, Shutdown, StopListening, Exit, ShutdownPicks
  <2> QED
    BY <2>1, <2>2
<1> QED
  BY <1>4, <1>5, <1>6 DEF Next

(* The instance a watcher makes is the one its event is about, and an      *)
(* event comes with the id of the tunnel, unless it may miss.              *)
LEMMA MadeStep ==
    ASSUME TypeOK, MadeInv, Next
    PROVE  MadeInv'
<1>1. ASSUME NEW w \in Watchers, Deliver(w)
      PROVE  MadeInv'
  <2>1. PICK j \in Jobs : (j.op = "start" => j.id \/ IdMayMiss) /\ job' = [job EXCEPT ![w] = j]
    BY <1>1 DEF Deliver
  <2>2. /\ job'[w] = j /\ pc' = [pc EXCEPT ![w] = "lock"] /\ UNCHANGED <<inst, made>>
        /\ \A v \in Watchers : v # w => job'[v] = job[v]
    BY <1>1, <2>1 DEF Deliver, TypeOK
  <2> QED
    BY <2>1, <2>2 DEF MadeInv, Making, Started, TypeOK
<1>2. ASSUME NEW w \in Watchers, NewInstance(w)
      PROVE  MadeInv'
  <2>1. PICK n : n = Len(inst) + 1
    OBVIOUS
  <2>2. /\ n \notin Ids /\ \A j \in Ids : inst'[j] = inst[j]
        /\ inst'[n].data = job[w].data
    BY <1>2, <2>1, NewEffect
  <2>3. /\ pc[w] = "compare" /\ pc' = [pc EXCEPT ![w] = "stat"]
        /\ made' = [made EXCEPT ![w] = n] /\ job' = job
    BY <1>2, <2>1 DEF NewInstance
  <2> QED
    BY <2>2, <2>3 DEF MadeInv, Making, Started, TypeOK
<1>3. ASSUME job' = job, made' = made,
             \A v \in Watchers : /\ Making(v)' \/ Started(v)' => Making(v) \/ Started(v)
                                 /\ pc'[v] # "idle" => pc[v] # "idle"
      PROVE  MadeInv'
  BY <1>3, DataStays DEF MadeInv, TypeOK
<1>4. ASSUME NEW w \in Watchers, Lock(w) \/ RegisterNames(w) \/ Work(w),
             ~NewInstance(w), ~Unlock(w)
      PROVE  /\ job' = job /\ made' = made
             /\ \A v \in Watchers :
                    /\ Making(v)' \/ Started(v)' => Making(v) \/ Started(v)
                    /\ pc'[v] # "idle" => pc[v] # "idle"
  BY <1>4 DEF Lock, RegisterNames, Work, NoChange, RefuseDir, NoDir, MakeDir, MakeDirFails,
     WriteFiles, WriteFilesFails, SetCommand, ExecFails, StartProcess, ReadPid, Replace,
     WatcherStops, StopTarget, Making, Started, Stages, EarlyStages, TypeOK
<1>5. ASSUME NEW w \in Watchers, Unlock(w)
      PROVE  MadeInv'
  BY <1>5 DEF Unlock, MadeInv, Making, Started, TypeOK
<1>6. ASSUME NEW i \in Ids, ProcessExits(i) \/ Waiter(i)
      PROVE  UNCHANGED <<job, made, pc>>
  BY <1>6 DEF ProcessExits, Waiter, WaitBegins, WaitEnds, WaiterStops, WaiterClears, callers
<1>7. ASSUME Interrupt \/ Shutdown
      PROVE  UNCHANGED <<job, made, pc>>
  BY <1>7 DEF Interrupt, Shutdown, StopListening, ShutdownStops, Exit, ShutdownPicks, callers
<1>8. UNCHANGED <<job, made, pc>> => MadeInv'
  BY <1>3 DEF Making, Started
<1> QED
  BY <1>1, <1>2, <1>3, <1>4, <1>5, <1>6, <1>7, <1>8 DEF Next, Work

(* A directory stays in use while those that use it go on.                 *)
LEMMA UseKept ==
    ASSUME TypeOK, Next, NEW d, InUse(d),
           \A v \in Watchers :
               Preparing(v) /\ job[v].data = d =>
                   (Preparing(v)' /\ job'[v].data = d) \/ InUse(d)',
           \A i \in Ids : Removing(i) /\ inst[i].data = d => Removing(i)'
    PROVE  InUse(d)'
<1> SUFFICES ASSUME ~InUse(d)' PROVE FALSE
  OBVIOUS
<1>1. ~ \E w \in Watchers : Preparing(w) /\ job[w].data = d
  BY DEF InUse
<1>2. PICK i \in Ids : inst[i].data = d /\ Removing(i)
  BY <1>1 DEF InUse
<1>3. i \in Ids' /\ inst'[i].data = d /\ Removing(i)'
  BY <1>2, DataStays
<1> QED
  BY <1>3 DEF InUse

(* A stage of Stop, by a goroutine that leaves the other ones alone: after *)
(* "remove" the directory is gone, and it was this Stop that removed it.   *)
LEMMA RemovingKept ==
    ASSUME TypeOK, NEW i \in Ids, NEW from \in Stages, NEW to,
           AtStage(from, i), StopStage(i, from, to),
           \A j \in Ids, s \in {"kill", "remove", "clear"} :
               j # i => (AtStage(s, j)' <=> AtStage(s, j)),
           \A s \in {"kill", "remove", "clear"} :
               /\ s # from /\ AtStage(s, i) => AtStage(s, i)'
               /\ s # to /\ AtStage(s, i)' => AtStage(s, i)
               /\ s = to => AtStage(s, i)',
           \A j \in Ids : j # i => waiter'[j] = waiter[j],
           waiter'[i] = waiter[i] \/ (waiter[i] = from /\ waiter'[i] = to)
    PROVE  /\ \A j \in Ids : Removing(j) /\ inst[j].data \in dirs' => Removing(j)'
           /\ dirs' \subseteq dirs
<1>1. StageChange(i, from, to)
  BY StageEffect DEF TypeOK
<1>2. dirs' \subseteq dirs
  BY <1>1 DEF StageChange
<1>3. Edited(i) /\ StageMove(i, from, to)
  BY <1>1 DEF StageChange
<1>4. ASSUME NEW j \in Ids, j # i, Removing(j)
      PROVE  Removing(j)'
  <2>1. inst'[j] = inst[j]
    BY <1>3, <1>4 DEF Edited
  <2>2. \A s \in {"kill", "remove", "clear"} : AtStage(s, j)' <=> AtStage(s, j)
    BY <1>4
  <2>3. waiter'[j] = waiter[j]
    BY <1>4
  <2> QED
    BY <1>4, <2>1, <2>2, <2>3 DEF Removing
<1>5. ASSUME Removing(i), inst[i].data \in dirs'
      PROVE  Removing(i)'
  <2>1. CASE from = "kill"
    <3>1. to = "remove"
      BY <1>3, <2>1 DEF StageMove
    <3> QED
      BY <3>1 DEF Removing
  <2>2. CASE from = "remove"
    <3>1. dirs' = dirs \ {inst[i].data}
      BY <1>1, <2>2 DEF StageChange
    <3> QED
      BY <1>5, <3>1
  <2>3. CASE from = "clear"
    <3>1. AtStage("kill", i) \/ AtStage("remove", i)
      BY <1>5, <2>3 DEF Removing
    <3> QED
      BY <2>3, <3>1 DEF Removing
  <2>4. CASE from \in EarlyStages \ {"kill"}
    <3>1. CASE AtStage("kill", i) \/ AtStage("remove", i)
      <4>1. from # "kill" /\ from # "remove"
        BY <2>4 DEF EarlyStages
      <4> QED
        BY <3>1, <4>1 DEF Removing
    <3>2. CASE ~AtStage("kill", i) /\ ~AtStage("remove", i)
      <4>1. /\ waiter[i] \in {"new", "waiting"} \cup (EarlyStages \ {"kill"})
            /\ inst[i].cmd # "nil" /\ ~AtStage("clear", i)
        BY <1>5, <3>2 DEF Removing
      <4>2. inst'[i].cmd = inst[i].cmd /\ to \in EarlyStages /\ to # "clear"
        BY <1>3, <2>4, <4>1 DEF StageMove, SameBut, EarlyStages
      <4>3. ~AtStage("clear", i)'
        BY <4>1, <4>2
      <4>4. CASE to = "kill"
        BY <4>4 DEF Removing
      <4>5. CASE to # "kill"
        <5>1. waiter'[i] \in {"new", "waiting"} \cup (EarlyStages \ {"kill"})
          BY <4>1, <4>2, <4>5
        <5> QED
          BY <4>1, <4>2, <4>3, <5>1 DEF Removing
      <4> QED
        BY <4>4, <4>5
    <3> QED
      BY <3>1, <3>2
  <2> QED
    BY <2>1, <2>2, <2>3, <2>4 DEF Stages
<1> QED
  BY <1>2, <1>4, <1>5

(* A step of a watcher that is not in Stop: a Stop goes on to remove its   *)
(* directory, and so will the one of a process that is waited for.         *)
LEMMA RemovingStarting ==
    ASSUME TypeOK, RunnerInv, ~panicked, ~panicked', sig = "none",
           NEW w \in Watchers, Deliver(w) \/ Lock(w) \/ RegisterNames(w) \/ Work(w),
           ~WatcherStops(w)
    PROVE  /\ ReadPid(w) => Removing(made[w])' /\ made[w] \in Ids
           /\ \A i \in Ids : Removing(i) => Removing(i)'
           /\ \A v \in Watchers : v # w => pc'[v] = pc[v] /\ job'[v] = job[v]
<1>1. /\ sig' = "none" /\ pc[w] \notin Stages /\ pc'[w] \notin {"kill", "remove", "clear"}
      /\ \A v \in Watchers : v # w => /\ pc'[v] = pc[v] /\ target'[v] = target[v]
                                      /\ job'[v] = job[v]
  BY DEF Deliver, Lock, RegisterNames, Work, NoChange, NewInstance, RefuseDir, NoDir,
     MakeDir, MakeDirFails, WriteFiles, WriteFilesFails, SetCommand, ExecFails,
     StartProcess, ReadPid, Replace, Unlock, StopTarget, Stages, EarlyStages, signal, TypeOK
<1>2. \A i \in Ids : waiter'[i] = waiter[i] \/ (ReadPid(w) /\ i = made[w] /\ waiter'[i] = "new")
  <2>1. CASE NewInstance(w)
    BY <2>1, NewEffect
  <2>2. CASE ReadPid(w)
    <3>1. PICK m \in Ids : m = made[w]
      BY <2>2 DEF ReadPid, TypeOK, Started
    <3> QED
      BY <2>2, <3>1, WaiterMoves DEF ReadPid
  <2>3. CASE ~NewInstance(w) /\ ~ReadPid(w)
    BY <2>3 DEF Deliver, Lock, RegisterNames, Work, NoChange, RefuseDir, NoDir, MakeDir,
       MakeDirFails, WriteFiles, WriteFilesFails, SetCommand, ExecFails, StartProcess,
       Replace, Unlock
  <2> QED
    BY <2>1, <2>2, <2>3
<1>3. \A i \in Ids, s \in {"kill", "remove", "clear"} : AtStage(s, i)' <=> AtStage(s, i)
  <2>1. \A i \in Ids : ReadPid(w) /\ i = made[w] => waiter[i] = "none"
    BY DEF RunnerInv, StartedInv, ReadPid
  <2> SUFFICES ASSUME NEW i \in Ids, NEW s \in {"kill", "remove", "clear"}
               PROVE  AtStage(s, i)' <=> AtStage(s, i)
    OBVIOUS
  <2>2. waiter'[i] = s <=> waiter[i] = s
    BY <1>2, <2>1
  <2>3. \A v \in Watchers :
           pc'[v] = s /\ target'[v] = i <=> pc[v] = s /\ target[v] = i
    BY <1>1 DEF Stages, EarlyStages
  <2>4. (\E v \in Watchers : pc'[v] = s /\ target'[v] = i)
           <=> (\E v \in Watchers : pc[v] = s /\ target[v] = i)
    BY <2>3
  <2> QED
    BY <1>1, <2>2, <2>4 DEF AtStage
<1>4. ASSUME SetCommand(w) \/ StartProcess(w)
      PROVE  /\ made[w] \in Ids /\ ~Removing(made[w])
             /\ \A i \in Ids : i # made[w] => inst'[i] = inst[i]
  <2>1. PICK m \in Ids : m = made[w]
    BY <1>4 DEF SetCommand, StartProcess, TypeOK, Making
  <2>2. ~Tried(m) /\ inst[m].registered
    BY <1>4, <2>1 DEF RunnerInv, MakingInv, Making, SetCommand, StartProcess
  <2>3. waiter[m] = "none"
    BY <2>2 DEF RunnerInv, WaiterInv
  <2>4. ~AtStage("kill", m) /\ ~AtStage("remove", m)
    BY <2>2 DEF RunnerInv, StageInv, PastCall
  <2>5. Edited(m)
    BY <1>4, <2>1, CommandEffect, StartEffect DEF SetCommand, StartProcess, TypeOK
  <2>6. ~Removing(m)
    BY <2>3, <2>4 DEF Removing, EarlyStages
  <2> QED
    BY <2>1, <2>5, <2>6 DEF Edited
<1>5. ASSUME ReadPid(w)
      PROVE  Removing(made[w])' /\ made[w] \in Ids
  <2>1. PICK m \in Ids : m = made[w]
    BY <1>5 DEF ReadPid, TypeOK, Started
  <2>2. waiter'[m] = "new" /\ inst' = inst /\ made' = made
    BY <1>5, <2>1, WaiterMoves, ZenonT(30) DEF ReadPid
  <2>3. inst[m].registered
    BY <1>5, <2>1 DEF RunnerInv, StartedInv, ReadPid
  <2>4. inst[m].cmd # "nil"
    BY <1>5, <2>1 DEF ReadPid
  <2>5. ~AtStage("clear", m)'
    BY <1>3, <2>3 DEF RunnerInv, StageInv, PastCall
  <2>6. Removing(m)'
    BY <2>2, <2>4, <2>5 DEF Removing
  <2> QED
    BY <2>1, <2>2, <2>6
<1>6. \A i \in Ids : Removing(i) => Removing(i)'
  <2> SUFFICES ASSUME NEW i \in Ids, Removing(i)
               PROVE  Removing(i)'
    OBVIOUS
  <2>1. CASE ReadPid(w) /\ i = made[w]
    BY <1>5, <2>1 DEF ReadPid
  <2>2. CASE ~(ReadPid(w) /\ i = made[w])
    <3>1. waiter'[i] = waiter[i]
      BY <1>2, <2>2
    <3>2. inst'[i] = inst[i]
      <4>1. CASE NewInstance(w)
        BY <4>1, NewEffect
      <4>2. CASE SetCommand(w) \/ StartProcess(w)
        BY <1>4, <4>2
      <4>3. CASE ~NewInstance(w) /\ ~SetCommand(w) /\ ~StartProcess(w)
        BY <4>3 DEF Deliver, Lock, RegisterNames, Work, NoChange, RefuseDir, NoDir, MakeDir,
           MakeDirFails, WriteFiles, WriteFilesFails, ExecFails, ReadPid, Replace, Unlock
      <4> QED
        BY <4>1, <4>2, <4>3
    <3>3. \A s \in {"kill", "remove", "clear"} : AtStage(s, i)' <=> AtStage(s, i)
      BY <1>3
    <3> QED
      BY <3>1, <3>2, <3>3 DEF Removing
  <2> QED
    BY <2>1, <2>2
<1> QED
  BY <1>1, <1>5, <1>6

(* The start of watcher w fails, when its directory is made.               *)
FailsIn(w, d) == /\ WriteFilesFails(w) \/ ExecFails(w)
                 /\ Preparing(w) /\ job[w].data = d

(* So a directory is in use afterwards if it was before or is new, but for *)
(* that of a start that fails.                                             *)
LEMMA UseStarting ==
    ASSUME TypeOK, RunnerInv, MadeInv, ~panicked, ~panicked', sig = "none",
           NEW w \in Watchers, Deliver(w) \/ Lock(w) \/ RegisterNames(w) \/ Work(w),
           ~WatcherStops(w), Next, NEW d \in dirs', ~FailsIn(w, d)
    PROVE  IF d \in dirs THEN InUse(d) => InUse(d)' ELSE InUse(d)'
<1>1. CASE d \in dirs
  <2>1. ASSUME Preparing(w), job[w].data = d
        PROVE  (Preparing(w)' /\ job'[w].data = d) \/ InUse(d)'
    <3>1. CASE WriteFiles(w) \/ RegisterNames(w) \/ SetCommand(w) \/ StartProcess(w)
      BY <2>1, <3>1 DEF WriteFiles, RegisterNames, SetCommand, StartProcess, Preparing, TypeOK
    <3>2. CASE ReadPid(w)
      <4>1. PICK m \in Ids : m = made[w]
        BY <3>2, RemovingStarting
      <4>2. inst[m].data = d
        BY <2>1, <3>2, <4>1 DEF MadeInv, Started, ReadPid
      <4>3. m \in Ids' /\ inst'[m].data = d
        BY <4>1, <4>2, DataStays
      <4>4. made' = made
        BY <3>2 DEF ReadPid
      <4>5. Removing(m)'
        BY <3>2, <4>1, <4>4, RemovingStarting
      <4> QED
        BY <4>3, <4>5 DEF InUse
    <3>3. \/ WriteFiles(w) \/ RegisterNames(w) \/ SetCommand(w) \/ StartProcess(w)
          \/ ReadPid(w)
      BY <2>1 DEF FailsIn, Preparing, Deliver, Lock, Work, NoChange, NewInstance, RefuseDir,
         NoDir, MakeDir, MakeDirFails, Replace, Unlock
    <3> QED
      BY <3>1, <3>2, <3>3
  <2>2. \A v \in Watchers : v # w => pc'[v] = pc[v] /\ job'[v] = job[v]
    BY RemovingStarting
  <2>3. \A i \in Ids : Removing(i) => Removing(i)'
    BY RemovingStarting
  <2>4. ASSUME NEW v \in Watchers, Preparing(v) /\ job[v].data = d
        PROVE  (Preparing(v)' /\ job'[v].data = d) \/ InUse(d)'
    <3>1. CASE v = w
      BY <2>1, <2>4, <3>1
    <3>2. CASE v # w
      BY <2>2, <2>4, <3>2 DEF Preparing
    <3> QED
      BY <3>1, <3>2
  <2> QED
    BY <1>1, <2>3, <2>4, UseKept
<1>2. CASE d \notin dirs
  <2>1. MakeDir(w)
    BY <1>2 DEF Deliver, Lock, RegisterNames, Work, NoChange, NewInstance, RefuseDir, NoDir,
       MakeDirFails, WriteFiles, WriteFilesFails, SetCommand, ExecFails, StartProcess,
       ReadPid, Replace, Unlock
  <2>2. d = job[w].data /\ pc'[w] = "files" /\ job'[w] = job[w]
    BY <1>2, <2>1 DEF MakeDir, TypeOK
  <2> QED
    BY <1>2, <2>2 DEF InUse, Preparing
<1> QED
  BY <1>1, <1>2

(* A step of the Stop that a watcher has called.                           *)
LEMMA UseWatcherStops ==
    ASSUME TypeOK, sig = "none", NEW w \in Watchers, WatcherStops(w), Next
    PROVE  dirs' \subseteq dirs /\ \A d \in dirs' : InUse(d) => InUse(d)'
<1>1. PICK i \in Ids, from \in Stages, to \in Stages \cup {"stopped"} :
         /\ i = target[w] /\ from = pc[w]
         /\ StopStage(i, from, to) /\ pc' = [pc EXCEPT ![w] = to]
  BY DEF WatcherStops, TypeOK
<1>2. UNCHANGED <<waiter, job, target>> /\ sig' = "none"
  BY DEF WatcherStops, signal
<1>3. pc'[w] = to /\ \A v \in Watchers : v # w => pc'[v] = pc[v]
  BY <1>1 DEF TypeOK
<1>4. AtStage(from, i)
  BY <1>1 DEF AtStage
<1>5. \A j \in Ids, s \in {"kill", "remove", "clear"} :
         j # i => (AtStage(s, j)' <=> AtStage(s, j))
  BY <1>1, <1>2, <1>3 DEF AtStage
<1>6. \A s \in {"kill", "remove", "clear"} :
         /\ s # from /\ AtStage(s, i) => AtStage(s, i)'
         /\ s # to /\ AtStage(s, i)' => AtStage(s, i)
         /\ s = to => AtStage(s, i)'
  BY <1>1, <1>2, <1>3 DEF AtStage
<1>7. /\ \A j \in Ids : Removing(j) /\ inst[j].data \in dirs' => Removing(j)'
      /\ dirs' \subseteq dirs
  <2>1. /\ \A j \in Ids : j # i => waiter'[j] = waiter[j]
        /\ waiter'[i] = waiter[i] \/ (waiter[i] = from /\ waiter'[i] = to)
    BY <1>2
  <2>2. StopStage(i, from, to)
    BY <1>1
  <2> QED
    BY <1>4, <1>5, <1>6, <2>1, <2>2, RemovingKept
<1>8. \A v \in Watchers : Preparing(v) => Preparing(v)' /\ job'[v] = job[v]
  BY <1>1, <1>2, <1>3 DEF Preparing, Stages, EarlyStages
<1> QED
  BY <1>7, <1>8, UseKept

(* A step of the goroutine that waits for a process, or its end.           *)
LEMMA UseWaiter ==
    ASSUME TypeOK, sig = "none", NEW i \in Ids, ProcessExits(i) \/ Waiter(i), Next
    PROVE  dirs' \subseteq dirs /\ \A d \in dirs' : InUse(d) => InUse(d)'
<1>1. UNCHANGED <<pc, job, target>> /\ sig' = "none"
  BY DEF ProcessExits, Waiter, WaitBegins, WaitEnds, WaiterStops, WaiterClears, signal, callers
<1>2. \A v \in Watchers : Preparing(v) => Preparing(v)' /\ job'[v] = job[v]
  BY <1>1 DEF Preparing
<1>3. CASE WaiterStops(i)
  <2>1. PICK from \in Stages, to \in Stages \cup {"stopped"} :
           /\ from = waiter[i]
           /\ StopStage(i, from, to) /\ waiter' = [waiter EXCEPT ![i] = to]
    BY <1>3 DEF WaiterStops
  <2>2. waiter'[i] = to /\ \A j \in Ids : j # i => waiter'[j] = waiter[j]
    BY <2>1, WaiterMoves
  <2>3. AtStage(from, i)
    BY <2>1 DEF AtStage
  <2>4. \A j \in Ids, s \in {"kill", "remove", "clear"} :
           j # i => (AtStage(s, j)' <=> AtStage(s, j))
    BY <1>1, <2>2 DEF AtStage
  <2>5. \A s \in {"kill", "remove", "clear"} :
           /\ s # from /\ AtStage(s, i) => AtStage(s, i)'
           /\ s # to /\ AtStage(s, i)' => AtStage(s, i)
           /\ s = to => AtStage(s, i)'
    BY <1>1, <2>1, <2>2 DEF AtStage
  <2>6. /\ \A j \in Ids : Removing(j) /\ inst[j].data \in dirs' => Removing(j)'
        /\ dirs' \subseteq dirs
    BY <2>1, <2>2, <2>3, <2>4, <2>5, RemovingKept
  <2> QED
    BY <1>2, <2>6, UseKept
<1>4. CASE ~WaiterStops(i)
  <2>1. dirs' = dirs
    BY <1>4 DEF ProcessExits, Waiter, WaitBegins, WaitEnds, WaiterClears
  <2>2. \A j \in Ids : j # i => inst'[j] = inst[j] /\ waiter'[j] = waiter[j]
    BY <1>4, ProcessEffect, CommandEffect, WaiterMoves
       DEF ProcessExits, Waiter, WaitBegins, WaitEnds, WaiterClears, TypeOK, Stages, EarlyStages,
           Edited
  <2>3. \/ waiter[i] \in {"new", "waiting"} /\ waiter'[i] \in {"waiting", "stop"} /\ inst' = inst
        \/ waiter'[i] = waiter[i] /\ inst'[i].cmd = inst[i].cmd
        \/ waiter[i] = "stopped" /\ waiter'[i] = "done"
    BY <1>4, ProcessEffect, WaiterMoves
       DEF ProcessExits, Waiter, WaitBegins, WaitEnds, WaiterClears, TypeOK, Stages, EarlyStages
  <2>4. \A j \in Ids, s \in {"kill", "remove", "clear"} : AtStage(s, j)' <=> AtStage(s, j)
    BY <1>1, <2>2, <2>3 DEF AtStage
  <2>5. \A j \in Ids : Removing(j) => Removing(j)'
    <3>1. \A j \in Ids : j # i /\ Removing(j) => Removing(j)'
      BY <2>2, <2>4 DEF Removing
    <3>2. Removing(i) => Removing(i)'
      BY <2>3, <2>4 DEF Removing, EarlyStages
    <3> QED
      BY <3>1, <3>2
  <2> QED
    BY <1>2, <2>1, <2>5, UseKept
<1> QED
  BY <1>3, <1>4

(* Whatever brings SIGINT about, or comes after it, is the only thing that *)
(* moves the goroutine that handles it.                                    *)
LEMMA BeforeSignal ==
    ASSUME TypeOK, Next, sig' = "none"
    PROVE  sig = "none" /\ ~Interrupt /\ ~Shutdown
<1>1. ASSUME NEW w \in Watchers, Deliver(w) \/ Lock(w) \/ RegisterNames(w) \/ Work(w)
      PROVE  sig' = sig
  BY <1>1 DEF Deliver, Lock, RegisterNames, Work, NoChange, NewInstance, RefuseDir, NoDir,
     MakeDir, MakeDirFails, WriteFiles, WriteFilesFails, SetCommand, ExecFails,
     StartProcess, ReadPid, Replace, WatcherStops, Unlock, signal
<1>2. ASSUME NEW i \in Ids, ProcessExits(i) \/ Waiter(i)
      PROVE  sig' = sig
  BY <1>2 DEF ProcessExits, Waiter, WaitBegins, WaitEnds, WaiterStops, WaiterClears, signal
<1>3. ~Interrupt /\ ~Shutdown
  BY DEF Interrupt, Shutdown, StopListening, ShutdownStops, Exit, ShutdownPicks, Stages,
     EarlyStages
<1> QED
  BY <1>1, <1>2, <1>3 DEF Next

(* Until SIGINT comes the steps are those of the watchers and processes.   *)
LEMMA UseStep ==
    ASSUME TypeOK, RunnerInv, MadeInv, ~panicked', sig' = "none", Next,
           NEW d \in dirs', \A w \in Watchers : ~FailsIn(w, d)
    PROVE  IF d \in dirs THEN InUse(d) => InUse(d)' ELSE InUse(d)'
<1>1. ~panicked
  BY DEF Next, Alive
<1>2. sig = "none" /\ ~Interrupt /\ ~Shutdown
  BY BeforeSignal
<1>3. ASSUME NEW w \in Watchers, Deliver(w) \/ Lock(w) \/ RegisterNames(w) \/ Work(w)
      PROVE  IF d \in dirs THEN InUse(d) => InUse(d)' ELSE InUse(d)'
  <2>1. CASE WatcherStops(w)
    BY <1>1, <1>2, <2>1, UseWatcherStops
  <2>2. CASE ~WatcherStops(w)
    BY <1>1, <1>2, <1>3, <2>2, UseStarting
  <2> QED
    BY <2>1, <2>2
<1>4. ASSUME NEW i \in Ids, ProcessExits(i) \/ Waiter(i)
      PROVE  IF d \in dirs THEN InUse(d) => InUse(d)' ELSE InUse(d)'
  BY <1>1, <1>2, <1>4, UseWaiter
<1> QED
  BY <1>2, <1>3, <1>4 DEF Next

LEMMA DirStep ==
    ASSUME TypeOK, RunnerInv, MadeInv, DirInv, ~MayFail, ~IdMayMiss, Next
    PROVE  DirInv'
<1> SUFFICES ASSUME ~panicked', sig' = "none", NEW d \in dirs' PROVE InUse(d)'
  BY DEF DirInv
<1>1. ~panicked /\ sig = "none"
  BY BeforeSignal DEF Next, Alive
<1>2. CASE \A w \in Watchers : ~FailsIn(w, d)
  <2>1. IF d \in dirs THEN InUse(d) => InUse(d)' ELSE InUse(d)'
    BY <1>2, UseStep
  <2> QED
    BY <1>1, <2>1 DEF DirInv
<1>3. ASSUME NEW w \in Watchers, FailsIn(w, d)
      PROVE  FALSE
  <2>1. WriteFilesFails(w) /\ job[w].data = d
    BY <1>3 DEF FailsIn, ExecFails
  <2>2. dirs' = dirs /\ job[w] \in Jobs /\ job[w].op = "start" /\ pc[w] # "idle"
    BY <2>1 DEF WriteFilesFails, TypeOK, Making
  <2>3. job[w].id
    BY <2>2 DEF MadeInv
  <2> QED
    BY <2>1, <2>2, <2>3 DEF WriteFilesFails
<1> QED
  BY <1>2, <1>3

(* If no start fails, every directory is in use, until SIGINT comes.       *)
THEOREM DirsInUse ==
    ASSUME ~MayFail, ~IdMayMiss
    PROVE  Spec => [](MadeInv /\ DirInv)
<1>1. Init => MadeInv /\ DirInv
  BY DEF Init, MadeInv, DirInv, Making, Started
<1>2. TypeOK /\ RunnerInv /\ MadeInv /\ DirInv /\ [Next]_vars => (MadeInv /\ DirInv)'
  <2> SUFFICES ASSUME TypeOK, RunnerInv, MadeInv, DirInv, [Next]_vars
               PROVE  MadeInv' /\ DirInv'
    OBVIOUS
  <2>1. CASE UNCHANGED vars
    BY <2>1 DEF vars, MadeInv, DirInv, InUse, Removing, AtStage, Making, Started, Preparing, Ids
  <2>2. CASE Next
    BY <2>2, MadeStep, DirStep
  <2> QED
    BY <2>1, <2>2
<1> QED
  BY <1>1, <1>2, TypeCorrect, RunnerInvariant, PTL DEF Spec

(* When all goroutines have come to rest, what is in use is what runs.     *)
LEMMA UsedAtRest ==
    ASSUME AtRest, NEW d, InUse(d)
    PROVE  \E i \in Ids : Live(i) /\ inst[i].data = d
<1>1. sig = "none" /\ \A w \in Watchers : pc[w] = "idle"
  BY DEF AtRest
<1>2. PICK i \in Ids : inst[i].data = d /\ Removing(i)
  BY <1>1 DEF InUse, Preparing
<1>3. waiter[i] = "waiting"
  BY <1>1, <1>2 DEF Removing, AtStage, AtRest, EarlyStages
<1> QED
  BY <1>2, <1>3 DEF AtRest

(* When all goroutines have come to rest, no directory is left but those   *)
(* of running processes, if mkdir, the Secret and exec do not fail and     *)
(* every event comes with the id of its tunnel.                            *)
THEOREM NothingLeftOver ==
    ASSUME ~MayFail, ~IdMayMiss
    PROVE  Spec => []NoLeftovers
<1>1. DirInv => NoLeftovers
  <2> SUFFICES ASSUME DirInv, AtRest, NEW d \in dirs
               PROVE  \E i \in Ids : Live(i) /\ inst[i].data = d
    BY DEF NoLeftovers
  <2>1. InUse(d)
    BY DEF DirInv, AtRest, Alive
  <2> QED
    BY <2>1, UsedAtRest
<1> QED
  BY <1>1, DirsInUse, PTL
-----------------------------------------------------------------------------
(***************************************************************************)
(* Whatever fails, only the directory of a failed start is left behind.    *)
(***************************************************************************)
(* A start that has failed is not taken up again.                          *)
LEMMA FailedStays ==
    ASSUME TypeOK, RunnerInv, ~panicked, ~panicked', sig' = "none", Next,
           NEW i \in Ids, Failed(i)
    PROVE  i \in Ids' /\ Failed(i)'
<1>1. inst \in Seq(Instances) /\ sig = "none"
  BY BeforeSignal DEF TypeOK
<1>2. i \in Ids'
  BY DataStays
<1>3. waiter[i] = "none"
  <2>1. waiter[i] # "none" => Tried(i)
    BY DEF RunnerInv, WaiterInv
  <2> QED
    BY <2>1 DEF Failed
<1>4. ASSUME NEW w \in Watchers, WatcherStops(w)
      PROVE  Failed(i)'
  <2>1. PICK j \in Ids, to \in Stages \cup {"stopped"} :
           /\ j = target[w] /\ StopStage(j, pc[w], to) /\ pc' = [pc EXCEPT ![w] = to]
    BY <1>4 DEF WatcherStops, TypeOK
  <2>2. Edited(j) /\ StageMove(j, pc[w], to)
    BY <2>1, StageEffect DEF TypeOK, StageChange
  <2>3. made' = made /\ target' = target /\ pc[w] \in Stages
    BY <1>4 DEF WatcherStops
  <2>4. pc'[w] = to /\ \A v \in Watchers : v # w => pc'[v] = pc[v]
    BY <2>1 DEF TypeOK
  <2>5. \A v \in Watchers : Making(v)' => made'[v] # i
    BY <2>3, <2>4 DEF Failed, Making, Stages, EarlyStages
  <2>6. ~Tried(i)'
    <3>1. CASE j = i
      BY <2>2, <3>1 DEF Failed, Tried, StageMove, SameBut, Live
    <3>2. CASE j # i
      BY <2>2, <3>2 DEF Failed, Tried, Edited
    <3> QED
      BY <3>1, <3>2
  <2>7. ~inst'[i].registered \/ AtStage("stop", i)' \/ AtStage("call", i)'
    <3>1. CASE ~inst[i].registered
      <4>1. CASE j = i
        BY <2>2, <3>1, <4>1 DEF StageMove, SameBut
      <4>2. CASE j # i
        BY <2>2, <3>1, <4>2 DEF Edited
      <4> QED
        BY <4>1, <4>2
    <3>2. CASE inst[i].registered
      <4>1. PICK v \in Watchers : pc[v] \in {"stop", "call"} /\ target[v] = i
        BY <1>1, <1>3, <3>2 DEF Failed, AtStage
      <4>2. inst[i].unreg
        BY <3>2 DEF RunnerInv, CommandInv
      <4>3. CASE v = w
        BY <2>1, <2>2, <2>3, <2>4, <4>1, <4>2, <4>3 DEF StageMove, AtStage
      <4>4. CASE v # w
        BY <2>3, <2>4, <4>1, <4>4 DEF AtStage
      <4> QED
        BY <4>3, <4>4
    <3> QED
      BY <3>1, <3>2
  <2> QED
    BY <2>5, <2>6, <2>7 DEF Failed
<1>5. ASSUME NEW w \in Watchers, NewInstance(w)
      PROVE  Failed(i)'
  <2>1. PICK n : n = Len(inst) + 1
    OBVIOUS
  <2>2. n \notin Ids /\ inst'[i] = inst[i] /\ waiter'[i] = waiter[i]
    BY <1>5, <2>1, NewEffect
  <2>3. /\ pc[w] = "compare" /\ pc' = [pc EXCEPT ![w] = "stat"]
        /\ made' = [made EXCEPT ![w] = n] /\ target' = target /\ sig' = sig
    BY <1>5, <2>1 DEF NewInstance, signal
  <2>4. \A v \in Watchers : Making(v)' => made'[v] # i
    BY <2>2, <2>3 DEF Failed, Making, TypeOK
  <2>5. \A s \in {"stop", "call"} : AtStage(s, i) => AtStage(s, i)'
    BY <1>1, <1>3, <2>3 DEF AtStage, TypeOK
  <2> QED
    BY <2>2, <2>4, <2>5 DEF Failed, Tried
<1>6. ASSUME inst'[i] = inst[i],
             \A v \in Watchers :
                 /\ Making(v)' => Making(v) /\ made'[v] = made[v]
                 /\ pc[v] \in {"stop", "call"} => pc'[v] = pc[v] /\ target'[v] = target[v]
      PROVE  Failed(i)'
  <2>1. \A s \in {"stop", "call"} : AtStage(s, i) => AtStage(s, i)'
    BY <1>1, <1>3, <1>6 DEF AtStage
  <2> QED
    BY <1>6, <2>1 DEF Failed, Tried
<1>7. ASSUME NEW w \in Watchers, SetCommand(w) \/ StartProcess(w)
      PROVE  inst'[i] = inst[i]
  <2>1. PICK m \in Ids : m = made[w]
    BY <1>7 DEF SetCommand, StartProcess, TypeOK, Making
  <2>2. m # i
    BY <1>7, <2>1 DEF Failed, Making, SetCommand, StartProcess
  <2>3. Edited(m)
    BY <1>1, <1>7, <2>1, CommandEffect, StartEffect DEF SetCommand, StartProcess
  <2> QED
    BY <2>2, <2>3 DEF Edited
<1>8. ASSUME NEW w \in Watchers, Deliver(w) \/ Lock(w) \/ RegisterNames(w) \/ Work(w),
             ~NewInstance(w), ~WatcherStops(w)
      PROVE  Failed(i)'
  <2>1. inst'[i] = inst[i]
    BY <1>7, <1>8 DEF Deliver, Lock, RegisterNames, Work, NoChange, RefuseDir, NoDir, MakeDir,
       MakeDirFails, WriteFiles, WriteFilesFails, ExecFails, ReadPid, Replace, Unlock
  <2>2. \A v \in Watchers : v # w => /\ pc'[v] = pc[v] /\ made'[v] = made[v]
                                     /\ target'[v] = target[v]
    BY <1>8 DEF Deliver, Lock, RegisterNames, Work, NoChange, RefuseDir, NoDir, MakeDir,
       MakeDirFails, WriteFiles, WriteFilesFails, SetCommand, ExecFails, StartProcess,
       ReadPid, Replace, Unlock, StopTarget, TypeOK
  <2>3. /\ Making(w)' => Making(w) /\ made'[w] = made[w]
        /\ pc[w] \notin {"stop", "call"}
    BY <1>8 DEF Deliver, Lock, RegisterNames, Work, NoChange, RefuseDir, NoDir, MakeDir,
       MakeDirFails, WriteFiles, WriteFilesFails, SetCommand, ExecFails, StartProcess,
       ReadPid, Replace, Unlock, StopTarget, Making, TypeOK
  <2>4. ASSUME NEW v \in Watchers
        PROVE  /\ Making(v)' => Making(v) /\ made'[v] = made[v]
               /\ pc[v] \in {"stop", "call"} => pc'[v] = pc[v] /\ target'[v] = target[v]
    BY <2>2, <2>3 DEF Making
  <2> QED
    BY <1>6, <2>1, <2>4
<1>9. ASSUME NEW j \in Ids, ProcessExits(j) \/ Waiter(j)
      PROVE  inst'[i] = inst[i] /\ UNCHANGED <<pc, made, target>>
  <2>1. j # i
    BY <1>3, <1>9 DEF ProcessExits, Waiter, WaitBegins, WaitEnds, WaiterStops, WaiterClears,
       Stages, EarlyStages, Failed, Tried, Live
  <2>2. UNCHANGED <<pc, made, target>>
    BY <1>9 DEF ProcessExits, Waiter, WaitBegins, WaitEnds, WaiterStops, WaiterClears, callers
  <2>3. inst' = inst \/ Edited(j)
    <3>1. CASE ProcessExits(j)
      BY <1>1, <3>1, ProcessEffect DEF ProcessExits
    <3>2. CASE WaiterClears(j)
      BY <1>1, <3>2, CommandEffect DEF WaiterClears
    <3>3. CASE WaiterStops(j)
      <4>1. PICK to : StopStage(j, waiter[j], to)
        BY <3>3 DEF WaiterStops
      <4> QED
        BY <4>1, StageEffect DEF TypeOK, StageChange
    <3>4. CASE WaitBegins(j) \/ WaitEnds(j)
      BY <3>4 DEF WaitBegins, WaitEnds
    <3> QED
      BY <1>9, <3>1, <3>2, <3>3, <3>4 DEF Waiter
  <2> QED
    BY <2>1, <2>2, <2>3 DEF Edited
<1>10. ASSUME NEW j \in Ids, ProcessExits(j) \/ Waiter(j)
       PROVE  Failed(i)'
  BY <1>6, <1>9, <1>10 DEF Making
<1>11. ~Interrupt /\ ~Shutdown
  BY BeforeSignal
<1> QED
  BY <1>2, <1>4, <1>5, <1>8, <1>10, <1>11 DEF Next

(* A start that fails after its directory was made is a failed one.        *)
LEMMA FailsNow ==
    ASSUME TypeOK, RunnerInv, MadeInv, ~panicked, Next,
           NEW w \in Watchers, WriteFilesFails(w) \/ ExecFails(w)
    PROVE  \E i \in Ids' : inst'[i].data = job[w].data /\ Failed(i)'
<1>1. Making(w)
  BY DEF WriteFilesFails, ExecFails, Making
<1>2. PICK m \in Ids : m = made[w]
  BY <1>1 DEF TypeOK
<1>3. inst[m].data = job[w].data /\ ~Tried(m)
  BY <1>1, <1>2 DEF RunnerInv, MakingInv, MadeInv
<1>4. m \in Ids' /\ inst'[m].data = job[w].data
  BY <1>3, DataStays
<1>5. m # 0
  BY DEF TypeOK, Ids
<1>6. /\ pc'[w] = "stop" /\ target'[w] = m /\ made' = made /\ inst' = inst
      /\ \A v \in Watchers : v # w => pc'[v] = pc[v]
  BY <1>2, <1>5 DEF WriteFilesFails, ExecFails, StopTarget, TypeOK
<1>7. \A v \in Watchers : v # w => made[v] # m
  BY <1>2, <1>5 DEF RunnerInv, LockInv
<1>8. \A v \in Watchers : Making(v)' => made'[v] # m
  BY <1>6, <1>7 DEF Making
<1>9. AtStage("stop", m)'
  BY <1>6 DEF AtStage
<1>10. Failed(m)'
  BY <1>3, <1>6, <1>8, <1>9 DEF Failed, Tried
<1> QED
  BY <1>4, <1>10

LEMMA LeftStep ==
    ASSUME TypeOK, RunnerInv, MadeInv, LeftInv, Next
    PROVE  LeftInv'
<1> SUFFICES ASSUME ~panicked', sig' = "none", NEW d \in dirs'
             PROVE  InUse(d)' \/ \E i \in Ids' : inst'[i].data = d /\ Failed(i)'
  BY DEF LeftInv
<1>1. ~panicked /\ sig = "none"
  BY BeforeSignal DEF Next, Alive
<1>2. CASE \E w \in Watchers : FailsIn(w, d)
  BY <1>1, <1>2, FailsNow DEF FailsIn
<1>3. CASE \A w \in Watchers : ~FailsIn(w, d)
  <2>1. IF d \in dirs THEN InUse(d) => InUse(d)' ELSE InUse(d)'
    BY <1>3, UseStep
  <2>2. CASE d \in dirs /\ ~InUse(d)
    <3>1. PICK i \in Ids : inst[i].data = d /\ Failed(i)
      BY <1>1, <2>2 DEF LeftInv
    <3>2. i \in Ids' /\ inst'[i].data = d /\ Failed(i)'
      BY <1>1, <3>1, FailedStays, DataStays
    <3> QED
      BY <3>2
  <2> QED
    BY <2>1, <2>2
<1> QED
  BY <1>2, <1>3

(* Whatever fails, a directory that is left when all goroutines have come  *)
(* to rest is that of a running process, or of an instance that could not  *)
(* be started: its Stop returns before it removes the directory.  No other *)
(* interleaving of starts, stops and exits leaves one behind.              *)
THEOREM LeftoversOfFailedStarts == Spec => []LeftoversExplained
<1>1. Init => MadeInv /\ LeftInv
  BY DEF Init, MadeInv, LeftInv, Making, Started
<1>2. TypeOK /\ RunnerInv /\ MadeInv /\ LeftInv /\ [Next]_vars => (MadeInv /\ LeftInv)'
  <2> SUFFICES ASSUME TypeOK, RunnerInv, MadeInv, LeftInv, [Next]_vars
               PROVE  MadeInv' /\ LeftInv'
    OBVIOUS
  <2>1. CASE UNCHANGED vars
    BY <2>1 DEF vars, MadeInv, LeftInv, InUse, Removing, Failed, Tried, AtStage, Making,
       Started, Preparing, Ids
  <2>2. CASE Next
    BY <2>2, MadeStep, LeftStep
  <2> QED
    BY <2>1, <2>2
<1>3. LeftInv => LeftoversExplained
  <2> SUFFICES ASSUME LeftInv, AtRest, NEW d \in dirs
               PROVE  \E i \in Ids : /\ inst[i].data = d
                                     /\ Live(i) \/ (~Tried(i) /\ ~inst[i].registered)
    BY DEF LeftoversExplained
  <2>1. /\ sig = "none" /\ ~panicked /\ \A w \in Watchers : pc[w] = "idle"
        /\ \A i \in Ids : waiter[i] \in {"none", "waiting", "done"}
    BY DEF AtRest, Alive
  <2>2. CASE InUse(d)
    BY <2>2, UsedAtRest
  <2>3. CASE ~InUse(d)
    <3>1. PICK i \in Ids : inst[i].data = d /\ Failed(i)
      BY <2>1, <2>3 DEF LeftInv
    <3>2. ~AtStage("stop", i) /\ ~AtStage("call", i)
      BY <2>1 DEF AtStage
    <3> QED
      BY <3>1, <3>2 DEF Failed
  <2> QED
    BY <2>2, <2>3
<1> QED
  BY <1>1, <1>2, <1>3, TypeCorrect, RunnerInvariant, PTL DEF Spec
=============================================================================
