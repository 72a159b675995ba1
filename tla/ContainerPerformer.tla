-------------------------- MODULE ContainerPerformer --------------------------
(***************************************************************************)
(* AvsContainerPerformer, the executor's Docker performer of one AVS       *)
(* (ponos/pkg/executor/avsPerformer/avsContainerPerformer/                 *)
(* containerPerformer.go), with the executor's RPCs that drive it          *)
(* (ponos/pkg/executor/handlers.go).                                       *)
(*                                                                         *)
(* A performer is one PerformerContainer object and the Docker container   *)
(* behind it.  There are two slots, current (tasks run there) and next     *)
(* (being deployed), one monitor goroutine per container, one drain        *)
(* goroutine per replaced container and at most one Deploy at a time.      *)
(* An action that the code runs under performerContainersMu is one step.   *)
(* RunTask and the drain take no such lock and are split where the others  *)
(* can come between.                                                       *)
(*                                                                         *)
(* The container manager is seen through its interface: a call succeeds or *)
(* fails, a monitored container reports any event at any time, and a call  *)
(* made with a cancelled context fails.                                    *)
(***************************************************************************)
EXTENDS Integers, Sequences

CONSTANTS
    Performers,     \* performer IDs (uuids: each is used once)
    Tasks,          \* calls of RunTask
    Unset,          \* what currentContainer.Load() returns before any Store
    TypedNil,       \* the stored (*PerformerContainer)(nil)
    NoPerformer,    \* the nil pointer in the next slot
    Events,         \* the container events that happen
    MaxFailures,    \* maxConsecutiveApplicationHealthFailures (3)
    ChanCap         \* capacity of statusChan (10)

ASSUME DistinctNils ==
    /\ {Unset, TypedNil, NoPerformer} \cap Performers = {}
    /\ Unset # TypedNil /\ Unset # NoPerformer /\ TypedNil # NoPerformer

\* The container manager's events by what the performer does with them: "Healthy" is
\* EventStarted and EventHealthy; "Unhealthy" is EventCrashed, EventOOMKilled,
\* EventUnhealthy, EventRestarting and a plain EventRestartFailed;
\* "RecreationNeeded" is an EventRestartFailed with that message.
ASSUME EventsAssumption ==
    Events \subseteq {"Healthy", "Unhealthy", "Restarted", "RecreationNeeded", "Stopped"}

ASSUME BoundsAssumption == MaxFailures \in Nat \ {0} /\ ChanCap \in Nat \ {0}

VARIABLES
    boot,           \* "new" until Initialize or RehydrateFromState, then "ready"
    current,        \* currentContainer, an atomic.Value
    next,           \* nextContainer
    docker,         \* each container: "absent", "live", "removed", or "orphan"
                    \* when its removal was tried and failed
    health,         \* performerHealth of the performers in the two slots; nobody
                    \* reads it once they have left
    status,         \* PerformerResourceStatus of each performer
    statusChan,     \* status events of the performer being deployed, the only one
                    \* whose channel has a reader
    monitors,       \* performers whose monitorContainerEvents goroutine runs
    ctxDone,        \* performers whose statusContext is cancelled
    chanClosed,     \* performers whose event channel is closed
    rootCtx,        \* the performer started under the executor's own context
    draining,       \* drainingPerformers
    drain,          \* the drain goroutine of each performer
    deploy,         \* the Deploy that holds activeDeploymentMu
    task,           \* each RunTask call; late records, for the properties, that
                    \* it joined the WaitGroup after the drain had begun
    shutdown,       \* "no", "signalled", "current" and "next" (lock held), "done"
    panicked        \* the process died of a nil dereference

slots   == <<current, next, status>>
watch   == <<monitors, ctxDone, chanClosed, rootCtx>>
reports == <<health, statusChan>>
drains  == <<draining, drain>>
life    == <<boot, shutdown, panicked>>
vars    == <<slots, docker, reports, watch, drains, deploy, task, life>>

Statuses == {"none", "Staged", "InService", "running"}

DeployPhases == {"idle", "creating", "waiting", "promoting", "cleanup", "returning"}

NoHealth == [container |-> FALSE, app |-> FALSE, failures |-> 0]

NoDeploy == [pc |-> "idle", on |-> NoPerformer, expired |-> FALSE]

Init ==
    /\ boot = "new"
    /\ current = Unset
    /\ next = NoPerformer
    /\ docker = [p \in Performers |-> "absent"]
    /\ health = [p \in Performers |-> NoHealth]
    /\ status = [p \in Performers |-> "none"]
    /\ statusChan = <<>>
    /\ monitors = {} /\ ctxDone = {} /\ chanClosed = {}
    /\ rootCtx = NoPerformer
    /\ draining = {}
    /\ drain = [p \in Performers |-> "none"]
    /\ deploy = NoDeploy
    /\ task = [t \in Tasks |-> [pc |-> "idle", on |-> NoPerformer, late |-> FALSE]]
    /\ shutdown = "no"
    /\ panicked = FALSE

-----------------------------------------------------------------------------
(* Helpers *)

\* performerContainersMu is held across steps by Shutdown only.
MuFree == shutdown \notin {"current", "next"}

\* taskWaitGroups[p]: the calls that have joined and not left.
InFlight(p) == {t \in Tasks : task[t].pc = "executing" /\ task[t].on = p}

InSlot(p) == p \in {current, next}

\* A non-blocking send on statusChan: a full channel drops the event.
Send(p, event) == IF p = deploy.on /\ Len(statusChan) < ChanCap
                  THEN Append(statusChan, event) ELSE statusChan

\* containerManager.Remove: the container is gone, or stays behind.
DockerRemove(p) == \E left \in {"removed", "orphan"} : docker' = [docker EXCEPT ![p] = left]

\* shutdownContainer: stops the liveness monitoring and removes the container.
ShutdownContainer(p) ==
    /\ chanClosed' = chanClosed \cup {p}
    /\ DockerRemove(p)

\* The container that createAndStartContainer returns, already Docker-healthy.
Created(p, flag) == [health EXCEPT ![p] = [container |-> TRUE, app |-> flag, failures |-> 0]]

\* What is left of the health of a performer that leaves its slot.
Forget(p) == [q \in Performers |-> IF q = p THEN NoHealth ELSE health[q]]

-----------------------------------------------------------------------------
(* Startup *)

\* Initialize without an image in the configuration: nothing is started.
InitializeEmpty ==
    /\ boot = "new"
    /\ boot' = "ready"
    /\ UNCHANGED <<slots, docker, reports, watch, drains, deploy, task, shutdown, panicked>>

\* Initialize with an image: the container goes straight into service, unchecked.
InitializeImage(p) ==
    /\ boot = "new"
    /\ boot' = "ready"
    /\ docker' = [docker EXCEPT ![p] = "live"]
    /\ health' = Created(p, FALSE)
    /\ status' = [status EXCEPT ![p] = "InService"]
    /\ current' = p
    /\ monitors' = monitors \cup {p}
    /\ rootCtx' = p
    /\ UNCHANGED <<next, statusChan, ctxDone, chanClosed, drains, deploy, task, shutdown, panicked>>

\* RehydrateFromState: adopts the container that outlived the last executor.
\* The saved record says healthy and carries the status "running".
RehydrateFromState(p) ==
    /\ boot = "new"
    /\ boot' = "ready"
    /\ docker' = [docker EXCEPT ![p] = "live"]
    /\ health' = Created(p, TRUE)
    /\ status' = [status EXCEPT ![p] = "running"]
    /\ current' = p
    /\ monitors' = monitors \cup {p}
    /\ rootCtx' = p
    /\ UNCHANGED <<next, statusChan, ctxDone, chanClosed, drains, deploy, task, shutdown, panicked>>

-----------------------------------------------------------------------------
(* Monitoring *)

\* recreateContainer stops the monitoring and cancels the context with which it then
\* asks for a new container: the creation fails and nothing else is changed.
RecreateContainer(m) ==
    /\ chanClosed' = chanClosed \cup {m}
    /\ ctxDone' = ctxDone \cup {m}

\* handleContainerEvent: "Healthy" only sets the Docker flag.  All other events send
\* an unhealthy status; all but "Stopped" clear both flags.
HandleContainerEvent(m, event) ==
    /\ m \in monitors
    /\ MuFree
    /\ health' = IF ~InSlot(m) THEN health ELSE [health EXCEPT ![m] =
         [container |-> IF event = "Stopped" THEN @.container ELSE event = "Healthy",
          app       |-> event \in {"Healthy", "Stopped"} /\ @.app,
          failures  |-> IF event = "Restarted" THEN 0 ELSE @.failures]]
    /\ statusChan' = IF event = "Healthy" THEN statusChan ELSE Send(m, "Unhealthy")
    /\ IF event = "RecreationNeeded" THEN RecreateContainer(m) ELSE UNCHANGED <<ctxDone, chanClosed>>
    /\ UNCHANGED <<slots, docker, monitors, rootCtx, drains, deploy, task, life>>

\* One failed check; the MaxFailures-th in a row reports and asks for a restart,
\* whose outcome comes back as events.
CheckFailed(p) ==
    LET n == health[p].failures + 1
    IN  [health[p] EXCEPT !.app = FALSE, !.failures = IF n >= MaxFailures THEN 0 ELSE n]

CheckedHealth(p, ok) == IF ok THEN [health[p] EXCEPT !.app = TRUE, !.failures = 0]
                        ELSE CheckFailed(p)

\* The containers in the two slots that Docker calls healthy.
ToCheck == {p \in {current, next} \cap Performers : health[p].container}

\* What the check of the two slots sends to the waiting Deploy.
CheckReports(good) ==
    IF deploy.on \notin ToCheck THEN statusChan
    ELSE IF deploy.on \in good THEN Send(deploy.on, "Healthy")
    ELSE IF health[deploy.on].failures + 1 >= MaxFailures THEN Send(deploy.on, "Unhealthy")
    ELSE statusChan

\* performPeriodicApplicationHealthChecks, at a tick of m's goroutine.  A check
\* made with m's cancelled context, or of a container that is gone, fails.
PeriodicCheck(m) ==
    /\ m \in monitors
    /\ MuFree
    /\ current # TypedNil
    /\ \E good \in SUBSET {p \in ToCheck : m \notin ctxDone /\ docker[p] = "live"} :
         /\ health' = [p \in Performers |->
              IF p \in ToCheck THEN CheckedHealth(p, p \in good) ELSE health[p]]
         /\ statusChan' = CheckReports(good)
    /\ UNCHANGED <<slots, docker, watch, drains, deploy, task, life>>

\* The same tick when the current slot holds the stored nil pointer: its
\* performerHealth is read without a nil test.
PeriodicCheckPanics(m) ==
    /\ m \in monitors
    /\ MuFree
    /\ current = TypedNil
    /\ panicked' = TRUE
    /\ UNCHANGED <<slots, docker, reports, watch, drains, deploy, task, boot, shutdown>>

MonitorExit(m) ==
    /\ m \in monitors
    /\ m \in ctxDone \cup chanClosed
    /\ monitors' = monitors \ {m}
    /\ UNCHANGED <<slots, docker, reports, ctxDone, chanClosed, rootCtx, drains, deploy, task, life>>

-----------------------------------------------------------------------------
(* Deploy *)

\* The caller that wins activeDeploymentMu.TryLock; a second one only gets an error.
DeployBegin ==
    /\ boot = "ready"
    /\ deploy.pc = "idle"
    /\ deploy' = [deploy EXCEPT !.pc = "creating"]
    /\ UNCHANGED <<slots, docker, reports, watch, drains, task, life>>

\* CreatePerformer: the new container takes the next slot and is monitored under a
\* child of the deployment's context.
CreatePerformer(p) ==
    /\ deploy.pc = "creating"
    /\ MuFree
    /\ next = NoPerformer
    /\ docker[p] = "absent"
    /\ docker' = [docker EXCEPT ![p] = "live"]
    /\ health' = Created(p, FALSE)
    /\ status' = [status EXCEPT ![p] = "Staged"]
    /\ next' = p
    /\ monitors' = monitors \cup {p}
    /\ deploy' = [pc |-> "waiting", on |-> p, expired |-> FALSE]
    /\ UNCHANGED <<current, statusChan, ctxDone, chanClosed, rootCtx, drains, task, life>>

\* CreatePerformer fails: the next slot is taken, or a step of
\* createAndStartContainer fails and the container, if there is one, is removed
\* by cleanupFailedContainer.
CreateFails ==
    /\ deploy.pc = "creating"
    /\ MuFree
    /\ \/ UNCHANGED docker
       \/ /\ next = NoPerformer
          /\ \E p \in Performers : docker[p] = "absent" /\ DockerRemove(p)
    /\ deploy' = [deploy EXCEPT !.pc = "returning"]
    /\ UNCHANGED <<slots, reports, watch, drains, task, life>>

\* The one-minute deadline, or the caller's cancellation.
DeployExpires ==
    /\ deploy.pc \in {"waiting", "promoting"}
    /\ ~deploy.expired
    /\ deploy' = [deploy EXCEPT !.expired = TRUE]
    /\ ctxDone' = ctxDone \cup {deploy.on}
    /\ UNCHANGED <<slots, docker, reports, monitors, chanClosed, rootCtx, drains, task, life>>

\* waitForHealthy: goes on at the first healthy event, gives up at the deadline.
AwaitStatus ==
    /\ deploy.pc = "waiting"
    /\ statusChan # <<>>
    /\ statusChan' = Tail(statusChan)
    /\ deploy' = IF Head(statusChan) = "Healthy"
                 THEN [deploy EXCEPT !.pc = "promoting"] ELSE deploy
    /\ UNCHANGED <<slots, docker, health, watch, drains, task, life>>

AwaitGivesUp ==
    /\ deploy.pc = "waiting"
    /\ deploy.expired
    /\ deploy' = [deploy EXCEPT !.pc = "cleanup"]
    /\ UNCHANGED <<slots, docker, reports, watch, drains, task, life>>

(* Slip: the healthy event is taken as good enough. *)
PromotableUnchecked(p) == next = p

\* PromotePerformer's test: still in the next slot, and healthy now.
Promotable(p) == next = p /\ health[p].container /\ health[p].app

(* Slip: the performer is marked as draining and no goroutine is started. *)
StartDrainMarksOnly(old) ==
    /\ draining' = draining \cup ({old} \cap Performers)
    /\ UNCHANGED drain

\* startDrainAndRemove, unless the performer is draining already.
StartDrain(old) ==
    IF old \in Performers \ draining
    THEN /\ draining' = draining \cup {old}
         /\ drain' = [drain EXCEPT ![old] = "waiting"]
    ELSE UNCHANGED drains

PromotePerformer ==
    /\ deploy.pc = "promoting"
    /\ MuFree
    /\ Promotable(deploy.on)
    /\ StartDrain(current)
    /\ health' = Forget(current)
    /\ status' = [status EXCEPT ![deploy.on] = "InService"]
    /\ current' = deploy.on
    /\ next' = NoPerformer
    /\ deploy' = [deploy EXCEPT !.pc = "returning"]
    /\ UNCHANGED <<docker, statusChan, watch, task, life>>

PromoteFails ==
    /\ deploy.pc = "promoting"
    /\ MuFree
    /\ ~Promotable(deploy.on)
    /\ deploy' = [deploy EXCEPT !.pc = "cleanup"]
    /\ UNCHANGED <<slots, docker, reports, watch, drains, task, life>>

\* RemovePerformer(p): empties p's slot, stops its monitoring and removes its
\* container, whatever tasks run on it.  With the nil pointer in the current slot
\* it fails before it looks at the next one.
RemovePerformer(p) ==
    IF current = TypedNil \/ ~InSlot(p)
    THEN UNCHANGED <<slots, docker, watch, health>>
    ELSE /\ current' = IF current = p THEN TypedNil ELSE current
         /\ next' = IF current # p THEN NoPerformer ELSE next
         /\ ctxDone' = ctxDone \cup {p}
         /\ ShutdownContainer(p)
         /\ health' = Forget(p)
         /\ UNCHANGED <<status, monitors, rootCtx>>

DeployCleanup ==
    /\ deploy.pc = "cleanup"
    /\ MuFree
    /\ RemovePerformer(deploy.on)
    /\ deploy' = [deploy EXCEPT !.pc = "returning"]
    /\ UNCHANGED <<statusChan, drains, task, life>>

\* Deploy returns: the deferred cancel ends the context of the new container's
\* monitor, and the lock is released.
DeployReturns ==
    /\ deploy.pc = "returning"
    /\ ctxDone' = ctxDone \cup ({deploy.on} \cap Performers)
    /\ deploy' = NoDeploy
    /\ statusChan' = <<>>
    /\ UNCHANGED <<slots, docker, health, monitors, chanClosed, rootCtx, drains, task, life>>

-----------------------------------------------------------------------------
(* The executor's RPCs on a deployed performer *)

\* ListPerformers: nothing at all while the current slot holds the nil pointer.
ListPerformers == IF current = TypedNil THEN {} ELSE {current, next} \cap Performers

\* The RemovePerformer RPC finds the performer in the listing, then removes it.
RemoveRequest(p) ==
    /\ boot = "ready"
    /\ MuFree
    /\ p \in ListPerformers
    /\ RemovePerformer(p)
    /\ UNCHANGED <<statusChan, drains, deploy, task, life>>

\* RunTask reads the current slot, and returns an error when it is empty,
TaskLoads(t) ==
    /\ boot = "ready"
    /\ task[t].pc = "idle"
    /\ task' = [task EXCEPT ![t] = IF current \in Performers
                                   THEN [@ EXCEPT !.pc = "loaded", !.on = current]
                                   ELSE [@ EXCEPT !.pc = "returned"]]
    /\ UNCHANGED <<slots, docker, reports, watch, drains, deploy, life>>

\* joins the performer's WaitGroup,
TaskJoins(t) ==
    /\ task[t].pc = "loaded"
    /\ task' = [task EXCEPT ![t].pc = "executing", ![t].late = drain[task[t].on] # "none"]
    /\ UNCHANGED <<slots, docker, reports, watch, drains, deploy, life>>

\* and leaves it when ExecuteTask answers or fails, as it does without its container.
TaskReturns(t) ==
    /\ task[t].pc = "executing"
    /\ task' = [task EXCEPT ![t].pc = "returned"]
    /\ UNCHANGED <<slots, docker, reports, watch, drains, deploy, life>>

-----------------------------------------------------------------------------
(* The drain goroutine *)

(* Slip: the drain does not wait for the tasks. *)
DrainWaitsNot(p) ==
    /\ drain[p] = "waiting"
    /\ drain' = [drain EXCEPT ![p] = "removing"]
    /\ UNCHANGED <<slots, docker, reports, watch, draining, deploy, task, life>>

DrainWaits(p) ==
    /\ drain[p] = "waiting"
    /\ InFlight(p) = {}
    /\ drain' = [drain EXCEPT ![p] = "removing"]
    /\ UNCHANGED <<slots, docker, reports, watch, draining, deploy, task, life>>

DrainRemoves(p) ==
    /\ drain[p] = "removing"
    /\ chanClosed' = chanClosed \cup {p}
    /\ DockerRemove(p)
    /\ draining' = draining \ {p}
    /\ drain' = [drain EXCEPT ![p] = "done"]
    /\ UNCHANGED <<slots, reports, monitors, ctxDone, rootCtx, deploy, task, life>>

-----------------------------------------------------------------------------
(* Shutdown, called when the executor's context ends; it holds the lock while *)
(* it waits.  The drain goroutines it forgets go on.                          *)

ContextEnds ==
    /\ boot = "ready"
    /\ shutdown = "no"
    /\ shutdown' = "signalled"
    /\ ctxDone' = ctxDone \cup ({rootCtx} \cap Performers)
    /\ UNCHANGED <<slots, docker, reports, monitors, chanClosed, rootCtx, drains, deploy, task, boot, panicked>>

ShutdownBegins ==
    /\ shutdown = "signalled"
    /\ shutdown' = "current"
    /\ draining' = {}
    /\ UNCHANGED <<slots, docker, reports, watch, drain, deploy, task, boot, panicked>>

ShutdownCurrent ==
    /\ shutdown = "current"
    /\ shutdown' = "next"
    /\ IF current \in Performers
       THEN /\ InFlight(current) = {}
            /\ ShutdownContainer(current)
            /\ health' = Forget(current)
            /\ current' = TypedNil
       ELSE UNCHANGED <<chanClosed, docker, health, current>>
    /\ UNCHANGED <<next, status, statusChan, monitors, ctxDone, rootCtx, drains, deploy, task, boot, panicked>>

ShutdownNext ==
    /\ shutdown = "next"
    /\ shutdown' = "done"
    /\ IF next \in Performers
       THEN /\ InFlight(next) = {}
            /\ ShutdownContainer(next)
            /\ health' = Forget(next)
            /\ next' = NoPerformer
       ELSE UNCHANGED <<chanClosed, docker, health, next>>
    /\ UNCHANGED <<current, status, statusChan, monitors, ctxDone, rootCtx, drains, deploy, task, boot, panicked>>

-----------------------------------------------------------------------------

Startup == InitializeEmpty \/ \E p \in Performers : InitializeImage(p) \/ RehydrateFromState(p)

Monitor(m) ==
    \/ \E event \in Events : HandleContainerEvent(m, event)
    \/ PeriodicCheck(m)
    \/ PeriodicCheckPanics(m)
    \/ MonitorExit(m)

DeployStep ==
    \/ \E p \in Performers : CreatePerformer(p)
    \/ CreateFails \/ AwaitStatus \/ AwaitGivesUp
    \/ PromotePerformer \/ PromoteFails \/ DeployCleanup \/ DeployReturns

TaskStep(t) == TaskJoins(t) \/ TaskReturns(t)

DrainStep(p) == DrainWaits(p) \/ DrainRemoves(p)

ShutdownStep == ShutdownBegins \/ ShutdownCurrent \/ ShutdownNext

Next ==
    /\ ~panicked
    /\ \/ Startup
       \/ \E p \in Performers : Monitor(p) \/ RemoveRequest(p) \/ DrainStep(p)
       \/ DeployBegin \/ DeployExpires \/ DeployStep
       \/ \E t \in Tasks : TaskLoads(t) \/ TaskStep(t)
       \/ ContextEnds \/ ShutdownStep

Spec == Init /\ [][Next]_vars

-----------------------------------------------------------------------------
(* Properties *)

Healths == [container : BOOLEAN, app : BOOLEAN, failures : 0 .. MaxFailures - 1]

Deploys == [pc : DeployPhases, on : Performers \cup {NoPerformer}, expired : BOOLEAN]

Calls == [pc : {"idle", "loaded", "executing", "returned"},
          on : Performers \cup {NoPerformer}, late : BOOLEAN]

\* The performer's state is well typed; failure counts and the channel stay within
\* their limits.
TypeOK ==
    /\ boot \in {"new", "ready"}
    /\ current \in Performers \cup {Unset, TypedNil}
    /\ next \in Performers \cup {NoPerformer}
    /\ docker \in [Performers -> {"absent", "live", "removed", "orphan"}]
    /\ health \in [Performers -> Healths]
    /\ status \in [Performers -> Statuses]
    /\ statusChan \in Seq({"Healthy", "Unhealthy"}) /\ Len(statusChan) <= ChanCap
    /\ monitors \subseteq Performers /\ ctxDone \subseteq Performers
    /\ chanClosed \subseteq Performers
    /\ rootCtx \in Performers \cup {NoPerformer}
    /\ draining \subseteq Performers
    /\ drain \in [Performers -> {"none", "waiting", "removing", "done"}]
    /\ deploy \in Deploys
    /\ task \in [Tasks -> Calls]
    /\ shutdown \in {"no", "signalled", "current", "next", "done"}
    /\ panicked \in BOOLEAN

\* No container is left running and forgotten: whatever fails, times out or is
\* removed meanwhile, a live container is in a slot or being drained.
NoContainerLeaks ==
    \A p \in Performers : docker[p] = "live" =>
        p \in {current, next} \/ drain[p] \in {"waiting", "removing"}

\* A task that joined the WaitGroup before its performer was replaced keeps its
\* container until it returns (startDrainAndRemove waits for it).
DrainSparesJoinedTasks ==
    \A t \in Tasks : task[t].pc = "executing" /\ drain[task[t].on] \in {"removing", "done"}
        => task[t].late

\* A deployment that failed leaves the next slot empty, so that the next one can
\* begin, as long as the current slot does not hold the nil pointer.
FailedDeployFreesSlot ==
    deploy.pc = "idle" /\ current # TypedNil => next = NoPerformer

\* Tasks are only switched to a container that was healthy at that moment, although
\* the event Deploy waited for may be long out of date.
PromotesHealthy ==
    [][boot = "ready" /\ current' # current /\ current' \in Performers =>
         /\ docker[current'] = "live"
         /\ health[current'].container /\ health[current'].app]_vars

=============================================================================
