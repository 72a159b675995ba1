------------------------ MODULE KubernetesPerformer ------------------------
(***************************************************************************)
(* The performers of one AVS in Kubernetes: AvsKubernetesPerformer         *)
(* (ponos/pkg/executor/avsPerformer/avsKubernetesPerformer) with the       *)
(* Performer resources that it creates through CRDOperations               *)
(* (pkg/kubernetesManager), and the operator that turns a resource into a  *)
(* pod (hourglass-operator/internal/controller/performerController.go).    *)
(*                                                                         *)
(* Callers are the executor's handlers and its shutdown; performerMu is    *)
(* performerResourcesMu, held by CreatePerformer through the whole wait    *)
(* for readiness.  A nil dereference and a negative WaitGroup counter are  *)
(* panics, which nothing recovers: the process ends.                       *)
(***************************************************************************)
EXTENDS Integers, FiniteSets

CONSTANTS
    Performers,      \* performer IDs (uuids: each is used once)
    Callers,         \* handlers of the executor
    Tasks,           \* tasks that the executor runs
    MaxFaults,       \* bound on failed calls, failed connections and lost pods
    MaxStarts,       \* bound on starts of the executor
    Unset, TypedNil, \* currentPerformer before any Store, and the stored nil pointer
    None             \* no performer, no caller

ASSUME KubernetesConstants ==
    /\ MaxFaults \in Nat /\ MaxStarts \in Nat \ {0}
    /\ IsFiniteSet(Tasks)
    /\ \A x \in Performers \cup Callers : x \notin {Unset, TypedNil, None}
    /\ Unset # TypedNil /\ Unset # None /\ TypedNil # None

VARIABLES
    alive, starts,   \* the executor process
    current, next,   \* the two slots
    performerMu,     \* the caller that holds performerResourcesMu, or None
    deployMu,        \* the caller that holds activeDeploymentMu, or None
    call,            \* each caller's operation, its step and the performer it is about
    task,            \* each task's step and the performer it was given to
    lifecycle,       \* performerTaskStates: "none" when a performer has no entry
    count,           \* the counter of the entry's WaitGroup
    drain,           \* the drain goroutine of each performer
    crd,             \* the Performer resource: "new" until the operator has set its finalizer
    ready,           \* Status.Ready of the resource
    pod,             \* the pod of the resource
    faults,          \* faults so far
    wasReady,        \* for the properties: performers whose pod was ever ready
    left,            \* for the properties: why a resource was left behind
    removed          \* for the properties: performers that somebody asked to remove

slots   == <<current, next, performerMu, deployMu>>
tracking == <<lifecycle, count, drain>>
cluster == <<crd, ready, pod, wasReady>>
process == <<alive, starts>>
ghosts  == <<left, removed>>
vars    == <<process, slots, call, task, tracking, cluster, faults, ghosts>>

IdleCall == [op |-> "none", at |-> "idle", p |-> None]
IdleTask == [at |-> "idle", p |-> None]

Init ==
    /\ alive = TRUE /\ starts = 1
    /\ current = Unset /\ next = None
    /\ performerMu = None /\ deployMu = None
    /\ call = [c \in Callers |-> IdleCall]
    /\ task = [t \in Tasks |-> IdleTask]
    /\ lifecycle = [p \in Performers |-> "none"]
    /\ count = [p \in Performers |-> 0]
    /\ drain = [p \in Performers |-> "none"]
    /\ crd = [p \in Performers |-> "absent"]
    /\ ready = [p \in Performers |-> FALSE]
    /\ pod = [p \in Performers |-> "none"]
    /\ faults = 0 /\ wasReady = {} /\ removed = {}
    /\ left = [p \in Performers |-> "no"]

Exists(p) == crd[p] \in {"new", "live"}

Fault == faults < MaxFaults /\ faults' = faults + 1

\* The volatile state goes; the resources, and what they run, stay.  Nothing looks for
\* them again: a Kubernetes performer is not rehydrated.
ProcessEnds(why) ==
    /\ alive' = FALSE
    /\ call' = [c \in Callers |-> IdleCall]
    /\ task' = [t \in Tasks |-> IdleTask]
    /\ current' = Unset /\ next' = None /\ performerMu' = None /\ deployMu' = None
    /\ lifecycle' = [p \in Performers |-> "none"]
    /\ count' = [p \in Performers |-> 0]
    /\ drain' = [p \in Performers |-> "none"]
    /\ left' = [p \in Performers |-> IF Exists(p) /\ left[p] = "no" THEN why ELSE left[p]]
    /\ UNCHANGED <<starts, cluster, faults, removed>>

Panic == ProcessEnds("panic")

Crash == alive /\ ProcessEnds("crash")

NewAvsKubernetesPerformer ==
    /\ ~alive /\ starts < MaxStarts
    /\ alive' = TRUE /\ starts' = starts + 1
    /\ UNCHANGED <<slots, call, task, tracking, cluster, faults, ghosts>>

-----------------------------------------------------------------------------
(* CRDOperations: the resources in the API server *)

CRDCreate(p) ==
    /\ crd[p] = "absent"
    /\ crd' = [crd EXCEPT ![p] = "new"]

CRDDelete(p) ==
    crd' = [crd EXCEPT ![p] = CASE @ = "new" -> "gone" [] @ = "live" -> "deleting" [] OTHER -> @]

\* The pod of a resource without a finalizer is collected with it.
PodAfterDelete(p) == pod' = [pod EXCEPT ![p] = IF crd[p] = "new" THEN "none" ELSE @]

\* DeletePerformer with a live context: it may fail, and its callers go on.
DeletePerformer(p) ==
    \/ CRDDelete(p) /\ PodAfterDelete(p) /\ UNCHANGED <<faults, left>>
    \/ /\ Fault
       /\ left' = [left EXCEPT ![p] = "fault"]
       /\ UNCHANGED <<crd, pod>>

GetPerformerStatus(p) == crd[p] \in {"new", "live", "deleting"} /\ ready[p]

-----------------------------------------------------------------------------
(* The operator and the pods *)

\* shouldRecreatePod: failed, or pending for five minutes.
shouldRecreatePod(p) == pod[p] \in {"pending", "failed"}

\* A new pod; its readiness probe decides when it is more than running.
buildPodSpec(p) == pod' = [pod EXCEPT ![p] = "pending"]

\* reconcilePod: no pod, create one; one to recreate, delete it; else leave it.
reconcilePod(p) ==
    \/ pod[p] = "none" /\ buildPodSpec(p)
    \/ shouldRecreatePod(p) /\ pod' = [pod EXCEPT ![p] = "none"]
    \/ pod[p] \notin {"none", "failed"} /\ UNCHANGED pod

(* Slip: a running pod counts as ready, whatever its readiness probe says. *)
updateStatusRunning(p, seen) ==
    ready' = [ready EXCEPT ![p] = IF seen = "none" THEN @ ELSE seen \in {"running", "ready"}]

\* updateStatus, from a pod that the cache may show as it was before reconcilePod: when it
\* finds none it leaves Ready as it was.
updateStatus(p, seen) ==
    ready' = [ready EXCEPT ![p] = IF seen = "none" THEN @ ELSE seen = "ready"]

\* An error of reconcileService ends the reconciliation before the status is written; so,
\* in effect, does a status update that meets conflicts three times.
reconcileServiceFails == UNCHANGED ready

\* Reconcile a resource that is not being deleted: finalizer, pod, service, status.
Reconcile(p) ==
    /\ Exists(p)
    /\ crd' = [crd EXCEPT ![p] = "live"]
    /\ reconcilePod(p)
    /\ \/ \E seen \in {pod[p], pod'[p]} : updateStatus(p, seen)
       \/ reconcileServiceFails
    /\ UNCHANGED <<process, slots, call, task, tracking, faults, wasReady, ghosts>>

\* handleDeletion: the finalizer goes, and with the resource its pod.
handleDeletion(p) ==
    /\ crd[p] = "deleting"
    /\ crd' = [crd EXCEPT ![p] = "gone"]
    /\ pod' = [pod EXCEPT ![p] = "none"]
    /\ UNCHANGED <<process, slots, call, task, tracking, ready, wasReady, faults, ghosts>>

\* The cluster: a pod starts, becomes ready, loses its readiness, fails or is evicted.
PodChanges(p) ==
    /\ \/ pod[p] = "pending" /\ pod' = [pod EXCEPT ![p] = "running"] /\ UNCHANGED <<wasReady, faults>>
       \/ /\ pod[p] = "running"
          /\ pod' = [pod EXCEPT ![p] = "ready"]
          /\ wasReady' = wasReady \cup {p}
          /\ UNCHANGED faults
       \/ /\ pod[p] # "none" /\ Fault
          /\ \E s \in {"running", "failed", "none"} : s # pod[p] /\ pod' = [pod EXCEPT ![p] = s]
          /\ UNCHANGED wasReady
    /\ UNCHANGED <<process, slots, call, task, tracking, crd, ready, ghosts>>

-----------------------------------------------------------------------------
(* Task tracking *)

\* tryAddTask, for a performer that has no entry yet or an active one.
tryAddTask(p) ==
    /\ lifecycle[p] \in {"none", "active"}
    /\ lifecycle' = [lifecycle EXCEPT ![p] = "active"]
    /\ count' = [count EXCEPT ![p] = @ + 1]

\* RunTask reads the slot; with no performer in it the task is refused.
RunTask(t) ==
    /\ alive /\ task[t].at = "idle" /\ current \in Performers
    /\ task' = [task EXCEPT ![t] = [at |-> "loaded", p |-> current]]
    /\ UNCHANGED <<process, slots, call, tracking, cluster, faults, ghosts>>

\* ... then asks for a place with the performer that it read.
TaskAdmitted(t) ==
    LET p == task[t].p IN
    /\ task[t].at = "loaded"
    /\ tryAddTask(p)
    /\ task' = [task EXCEPT ![t].at = "running"]
    /\ UNCHANGED <<process, slots, call, drain, cluster, faults, ghosts>>

(* Slip: taskCompleted is deferred before tryAddTask is asked. *)
TaskRefusedCounted(t) ==
    LET p == task[t].p IN
    /\ task[t].at = "loaded" /\ lifecycle[p] \in {"draining", "shutdown"}
    /\ IF count[p] = 0 THEN Panic
       ELSE /\ count' = [count EXCEPT ![p] = @ - 1]
            /\ task' = [task EXCEPT ![t] = IdleTask]
            /\ UNCHANGED <<process, slots, call, lifecycle, drain, cluster, faults, ghosts>>

TaskRefused(t) ==
    /\ task[t].at = "loaded" /\ lifecycle[task[t].p] \in {"draining", "shutdown"}
    /\ task' = [task EXCEPT ![t] = IdleTask]
    /\ UNCHANGED <<process, slots, call, tracking, cluster, faults, ghosts>>

\* taskCompleted counts down the entry that the map holds now.
taskCompleted(p) ==
    count' = [count EXCEPT ![p] = IF lifecycle[p] # "none" THEN @ - 1 ELSE @]

\* ExecuteTask has returned, with a result or an error; an entry made after Shutdown
\* emptied the map may be counted below zero.
TaskReturns(t) ==
    LET p == task[t].p IN
    /\ task[t].at = "running"
    /\ IF lifecycle[p] # "none" /\ count[p] = 0 THEN Panic
       ELSE /\ taskCompleted(p)
            /\ task' = [task EXCEPT ![t] = IdleTask]
            /\ UNCHANGED <<process, slots, call, lifecycle, drain, cluster, faults, ghosts>>

(* Slip: a performer without an entry gets none. *)
startDrainUnmarked(p) ==
    /\ lifecycle' = [lifecycle EXCEPT ![p] = IF @ = "active" THEN "draining" ELSE @]
    /\ drain' = [drain EXCEPT ![p] = IF lifecycle[p] \in {"none", "active"} THEN "started" ELSE @]

\* startDrainAndRemove: the entry is marked (made, if there is none) before the goroutine
\* starts; a performer that is draining or shut down is left alone.
startDrain(p) ==
    /\ lifecycle' = [lifecycle EXCEPT ![p] = IF @ \in {"none", "active"} THEN "draining" ELSE @]
    /\ drain' = [drain EXCEPT ![p] = IF lifecycle[p] \in {"none", "active"} THEN "started" ELSE @]

\* waitForTaskCompletion takes the WaitGroup of the entry; without an entry it returns.
waitForTaskCompletion(p) ==
    /\ drain[p] = "started"
    /\ lifecycle' = [lifecycle EXCEPT ![p] = IF @ \in {"none", "shutdown"} THEN @ ELSE "draining"]
    /\ drain' = [drain EXCEPT ![p] = IF lifecycle[p] = "none" THEN "released" ELSE "waiting"]
    /\ UNCHANGED <<process, slots, call, task, count, cluster, faults, ghosts>>

\* wg.Wait() has returned: the connection is closed and the resource deleted, then
\* cleanupTaskWaitGroup.
DrainEnds(p) ==
    /\ \/ drain[p] = "released"
       \/ drain[p] = "waiting" /\ count[p] = 0
    /\ drain' = [drain EXCEPT ![p] = "done"]
    /\ lifecycle' = [lifecycle EXCEPT ![p] = IF @ = "none" THEN @ ELSE "shutdown"]
    /\ DeletePerformer(p)
    /\ UNCHANGED <<process, slots, call, task, count, ready, wasReady, removed>>

-----------------------------------------------------------------------------
(* Operations on the slots *)

Step(c, op, at) == alive /\ call[c].op = op /\ call[c].at = at

Move(c, at, p) == call' = [call EXCEPT ![c].at = at, ![c].p = p]

Return(c) == call' = [call EXCEPT ![c] = IdleCall]

\* DeployArtifact and the configured AVSs call Deploy, RemovePerformer names any performer,
\* ListPerformers lists; the executor's end calls Shutdown, once.
CallBegins(c) ==
    /\ alive /\ call[c] = IdleCall
    /\ \/ call' = [call EXCEPT ![c] = [op |-> "deploy", at |-> "begin", p |-> None]]
       \/ \E p \in Performers :
             call' = [call EXCEPT ![c] = [op |-> "remove", at |-> "lock", p |-> p]]
       \/ call' = [call EXCEPT ![c] = [op |-> "list", at |-> "lock", p |-> None]]
       \/ /\ \A d \in Callers : call[d].op # "shutdown"
          /\ call' = [call EXCEPT ![c] = [op |-> "shutdown", at |-> "lock", p |-> None]]
    /\ UNCHANGED <<process, slots, task, tracking, cluster, faults, ghosts>>

\* Initialize: an image in the configuration is started at once, as the current performer.
Initialize(c) ==
    /\ alive /\ \A d \in Callers : call[d] = IdleCall
    /\ current = Unset /\ next = None
    /\ \A p \in Performers : drain[p] = "none"
    /\ performerMu' = c
    /\ call' = [call EXCEPT ![c] = [op |-> "initialize", at |-> "create", p |-> None]]
    /\ UNCHANGED <<process, current, next, deployMu, task, tracking, cluster, faults, ghosts>>

\* Deploy: TryLock on activeDeploymentMu.
Deploy(c) ==
    /\ Step(c, "deploy", "begin")
    /\ IF deployMu # None THEN Return(c) /\ UNCHANGED deployMu
       ELSE deployMu' = c /\ Move(c, "lock", None)
    /\ UNCHANGED <<process, current, next, performerMu, task, tracking, cluster, faults, ghosts>>

EndDeploy(c) ==
    /\ Return(c)
    /\ deployMu' = IF deployMu = c THEN None ELSE deployMu

\* CreatePerformer: the lock, and a free next slot.
CreatePerformer(c) ==
    /\ Step(c, "deploy", "lock") /\ performerMu = None
    /\ IF next # None THEN EndDeploy(c) /\ UNCHANGED performerMu
       ELSE performerMu' = c /\ Move(c, "create", None) /\ UNCHANGED deployMu
    /\ UNCHANGED <<process, current, next, task, tracking, cluster, faults, ghosts>>

\* createPerformerResource makes the resource ...
CreateResource(c) ==
    /\ alive /\ call[c].at = "create"
    /\ \E p \in Performers : CRDCreate(p) /\ Move(c, "waiting", p)
    /\ UNCHANGED <<process, slots, task, tracking, ready, pod, wasReady, faults, ghosts>>

\* ... unless ValidateCreatePerformerRequest or the API server refuses it ...
CreateRefused(c) ==
    /\ alive /\ call[c].at = "create"
    /\ Fault
    /\ EndDeploy(c) /\ performerMu' = None
    /\ UNCHANGED <<process, current, next, task, tracking, cluster, ghosts>>

\* ... waits until its status says Ready, connects, and the performer takes its slot.  When
\* the connection fails the resource stays.
PerformerReady(c) ==
    LET p == call[c].p IN
    /\ alive /\ call[c].at = "waiting" /\ GetPerformerStatus(p)
    /\ performerMu' = None
    /\ \/ /\ call[c].op = "deploy"
          /\ next' = p /\ Move(c, "monitoring", p)
          /\ UNCHANGED <<current, deployMu, faults, left>>
       \/ /\ call[c].op = "initialize"
          /\ current' = p /\ Return(c)
          /\ UNCHANGED <<next, deployMu, faults, left>>
       \/ /\ Fault /\ EndDeploy(c)
          /\ left' = [left EXCEPT ![p] = "fault"]
          /\ UNCHANGED <<current, next>>
    /\ UNCHANGED <<process, task, tracking, cluster, removed>>

(* Slip: nothing is cleaned up. *)
CleanUpNot(c) == UNCHANGED <<crd, pod, faults, left>>

\* The cleanup of createPerformerResource uses the context whose deadline has just ended
\* the wait: that of Deploy (its deadline is the earlier one) has expired, so the resource
\* is not deleted; that of Initialize has not.
CleanUp(c) ==
    IF call[c].op = "deploy"
    THEN left' = [left EXCEPT ![call[c].p] = "expired"] /\ UNCHANGED <<crd, pod, faults>>
    ELSE DeletePerformer(call[c].p)

\* waitForPerformerReady ends without a ready performer.
NotReady(c) ==
    /\ alive /\ call[c].at = "waiting"
    /\ CleanUp(c)
    /\ performerMu' = None /\ EndDeploy(c)
    /\ UNCHANGED <<process, current, next, task, tracking, ready, wasReady, removed>>

\* Deploy waits once more, outside the lock.
Monitor(c) ==
    LET p == call[c].p IN
    /\ alive /\ call[c].at = "monitoring"
    /\ \/ GetPerformerStatus(p) /\ Move(c, "promote", p)
       \/ Move(c, "cleanup", p)
    /\ UNCHANGED <<process, slots, task, tracking, cluster, faults, ghosts>>

InNextSlot(p) == next = p

\* PromotePerformer.  The performer in service starts to drain, while RunTask still reads
\* it in its slot; the typed nil pointer that RemovePerformer and Shutdown store is
\* dereferenced.
PromotePerformer(c) ==
    LET p == call[c].p IN
    /\ alive /\ call[c].at = "promote" /\ performerMu = None
    /\ IF current = TypedNil THEN Panic
       ELSE /\ IF InNextSlot(p)
               THEN /\ IF current = Unset THEN UNCHANGED <<lifecycle, drain>> ELSE startDrain(current)
                    /\ performerMu' = c
                    /\ Move(c, "switch", p)
               ELSE Move(c, "cleanup", p) /\ UNCHANGED <<lifecycle, drain, performerMu>>
            /\ UNCHANGED <<process, current, next, deployMu, task, count, cluster, faults, ghosts>>

\* ... then the slots are switched, and Deploy returns.
SwitchSlots(c) ==
    /\ Step(c, "deploy", "switch")
    /\ current' = call[c].p /\ next' = None /\ performerMu' = None
    /\ EndDeploy(c)
    /\ UNCHANGED <<process, task, tracking, cluster, faults, ghosts>>

CurrentAfterRemove(p) == IF current = p THEN TypedNil ELSE current

\* RemovePerformer: a handler's, or Deploy's own cleanup (which only logs an error).
RemovePerformer(c) ==
    LET p == call[c].p IN
    /\ performerMu = None
    /\ Step(c, "remove", "lock") \/ Step(c, "deploy", "cleanup")
    /\ IF current = TypedNil THEN Panic
       ELSE /\ IF p \in {current, next}
               THEN /\ current' = CurrentAfterRemove(p)
                    /\ next' = IF current # p THEN None ELSE next
                    /\ removed' = removed \cup {p}
                    /\ DeletePerformer(p)
               ELSE UNCHANGED <<current, next, removed, crd, pod, faults, left>>
            /\ EndDeploy(c)
            /\ UNCHANGED <<process, performerMu, task, tracking, ready, wasReady>>

\* ListPerformers.
ListPerformers(c) ==
    /\ Step(c, "list", "lock") /\ performerMu = None
    /\ IF current = TypedNil THEN Panic
       ELSE Return(c) /\ UNCHANGED <<process, slots, task, tracking, cluster, faults, ghosts>>

\* Shutdown takes the lock and empties performerTaskStates: a drain that waits for tasks
\* keeps a WaitGroup that nobody will count down.
Shutdown(c) ==
    /\ Step(c, "shutdown", "lock") /\ performerMu = None
    /\ performerMu' = c
    /\ lifecycle' = [p \in Performers |-> "none"]
    /\ count' = [p \in Performers |-> 0]
    /\ drain' = [p \in Performers |->
                    IF drain[p] # "waiting" THEN drain[p]
                    ELSE IF count[p] = 0 THEN "released" ELSE "stranded"]
    /\ left' = [p \in Performers |-> IF drain'[p] = "stranded" THEN "stranded" ELSE left[p]]
    /\ Move(c, IF current = Unset THEN "next" ELSE "current", None)
    /\ UNCHANGED <<process, current, next, deployMu, task, cluster, faults, removed>>

\* The current performer: its connection is closed, an entry that a task has made since
\* is marked.
ShutdownCurrent(c) ==
    /\ Step(c, "shutdown", "current")
    /\ IF current = TypedNil THEN Panic
       ELSE /\ lifecycle' = [lifecycle EXCEPT ![current] = IF @ = "none" THEN @ ELSE "draining"]
            /\ Move(c, IF lifecycle[current] = "none" THEN "delete" ELSE "wait", current)
            /\ UNCHANGED <<process, slots, task, count, drain, cluster, faults, ghosts>>

\* Its tasks are done: its resource is deleted while RunTask still reads it in its slot ...
ShutdownWaited(c) ==
    LET p == call[c].p IN
    /\ \/ Step(c, "shutdown", "delete")
       \/ Step(c, "shutdown", "wait") /\ count[p] = 0
    /\ DeletePerformer(p)
    /\ removed' = removed \cup {p}
    /\ Move(c, "clear", p)
    /\ UNCHANGED <<process, slots, task, tracking, ready, wasReady>>

\* ... then cleanupTaskWaitGroup, and the slot is cleared.
ClearCurrent(c) ==
    LET p == call[c].p IN
    /\ Step(c, "shutdown", "clear")
    /\ lifecycle' = [lifecycle EXCEPT ![p] = IF @ = "none" THEN @ ELSE "shutdown"]
    /\ current' = TypedNil
    /\ Move(c, "next", None)
    /\ UNCHANGED <<process, next, performerMu, deployMu, task, count, drain, cluster, faults, ghosts>>

\* The next performer, which never had a task, in the same way ...
ShutdownNext(c) ==
    /\ Step(c, "shutdown", "next")
    /\ IF next = None THEN UNCHANGED <<crd, pod, faults, left, removed>>
       ELSE DeletePerformer(next) /\ removed' = removed \cup {next}
    /\ Move(c, "clearNext", None)
    /\ UNCHANGED <<process, slots, task, tracking, ready, wasReady>>

\* ... and the end.
ClearNext(c) ==
    /\ Step(c, "shutdown", "clearNext")
    /\ next' = None /\ performerMu' = None
    /\ Move(c, "stopped", None)
    /\ UNCHANGED <<process, current, deployMu, task, tracking, cluster, faults, ghosts>>

-----------------------------------------------------------------------------
TaskStep(t) == TaskAdmitted(t) \/ TaskRefused(t) \/ TaskReturns(t)

DrainStep(p) == waitForTaskCompletion(p) \/ DrainEnds(p)

CallStep(c) ==
    \/ Deploy(c) \/ CreatePerformer(c) \/ CreateResource(c) \/ CreateRefused(c)
    \/ PerformerReady(c) \/ NotReady(c) \/ Monitor(c)
    \/ PromotePerformer(c) \/ SwitchSlots(c) \/ RemovePerformer(c) \/ ListPerformers(c)
    \/ Shutdown(c) \/ ShutdownCurrent(c) \/ ShutdownWaited(c) \/ ClearCurrent(c)
    \/ ShutdownNext(c) \/ ClearNext(c)

Next ==
    \/ Crash \/ NewAvsKubernetesPerformer
    \/ \E p \in Performers : Reconcile(p) \/ handleDeletion(p) \/ PodChanges(p) \/ DrainStep(p)
    \/ \E t \in Tasks : RunTask(t) \/ TaskStep(t)
    \/ \E c \in Callers : CallBegins(c) \/ Initialize(c) \/ CallStep(c)

Spec == Init /\ [][Next]_vars

-----------------------------------------------------------------------------
(* Properties *)

CallRecords ==
    [op : {"none", "deploy", "remove", "list", "shutdown", "initialize"},
     at : {"idle", "begin", "lock", "create", "waiting", "monitoring", "promote", "switch",
           "cleanup", "current", "wait", "delete", "clear", "next", "clearNext", "stopped"},
     p  : Performers \cup {None}]

TaskRecords == [at : {"idle", "loaded", "running"}, p : Performers \cup {None}]

Lifecycles == {"none", "active", "draining", "shutdown"}
Drains     == {"none", "started", "waiting", "released", "stranded", "done"}
CRDs       == {"absent", "new", "live", "deleting", "gone"}
Pods       == {"none", "pending", "running", "ready", "failed"}
Causes     == {"no", "fault", "expired", "stranded", "crash", "panic"}

TypeOK ==
    /\ alive \in BOOLEAN /\ starts \in 1 .. MaxStarts /\ faults \in 0 .. MaxFaults
    /\ current \in Performers \cup {Unset, TypedNil} /\ next \in Performers \cup {None}
    /\ performerMu \in Callers \cup {None} /\ deployMu \in Callers \cup {None}
    /\ call \in [Callers -> CallRecords] /\ task \in [Tasks -> TaskRecords]
    /\ lifecycle \in [Performers -> Lifecycles]
    /\ count \in [Performers -> 0 .. Cardinality(Tasks)]
    /\ drain \in [Performers -> Drains]
    /\ crd \in [Performers -> CRDs] /\ pod \in [Performers -> Pods]
    /\ ready \in [Performers -> BOOLEAN]
    /\ wasReady \subseteq Performers /\ removed \subseteq Performers
    /\ left \in [Performers -> Causes]

ShuttingDown == \E c \in Callers : call[c].op = "shutdown" /\ call[c].at # "lock"

RunningOn(p) == {t \in Tasks : task[t].at = "running" /\ task[t].p = p}

\* A promotion never cuts off a task: the resource of a performer with a running task is
\* deleted only if somebody asked for it to be removed or the executor shuts down
\* (startDrainAndRemove against RunTask's read of the slot and tryAddTask).  The
\* WaitGroup that the drain waits for counts exactly the tasks on the performer, until
\* Shutdown forgets the entries.
NoTaskCutOff ==
    ShuttingDown \/
        /\ \A t \in Tasks :
             task[t].at = "running" => Exists(task[t].p) \/ task[t].p \in removed
        /\ \A p \in Performers :
             lifecycle[p] # "none" => count[p] = Cardinality(RunningOn(p))

\* The performers that somebody still answers for.
Tracked ==
    {current, next} \cup {call[c].p : c \in Callers}
        \cup {p \in Performers : drain[p] \in {"started", "waiting", "released"}}

\* A resource that nobody answers for any more was left behind by a failed call to the
\* cluster, by the expired context of Deploy's cleanup, by a drain that Shutdown
\* stranded, or by the end of the process; there is no other way to leak a pod.
LeakHasCause ==
    \A p \in Performers : Exists(p) /\ p \notin Tracked => left[p] # "no"

\* The performers whose slot the holder of the lock is about to clear.
Leaving ==
    {current : c \in {d \in Callers : call[d].at \in {"switch", "clear"}}}
        \cup {next : c \in {d \in Callers : call[d].at = "clearNext"}}

\* The performer in service was ready once, as its readiness probe saw it: through the
\* operator's status, its stale copies of the pod and the two waits of a deployment.  And
\* whatever is in a slot has its resource, which no removal, failed deployment or drain of
\* another performer deletes: only PromotePerformer and Shutdown, under the lock, let a
\* deleted performer be read from the slot, until they clear it.
ServingWasReady ==
    /\ TypeOK
    /\ current \in Performers => current \in wasReady
    /\ \A p \in Performers : p \in {current, next} => Exists(p) \/ p \in Leaving

\* Only the removal of a performer, or a shutdown, can bring the executor down by a
\* panic: deployments, tasks and promotions in any order cannot.
PanicNeedsRemoval ==
    [][(\E p \in Performers : left[p] = "no" /\ left'[p] = "panic") => removed # {} \/ ShuttingDown]_vars

=============================================================================
