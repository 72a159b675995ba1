---------------------------- MODULE DockerManager ----------------------------
(***************************************************************************)
(* DockerContainerManager (ponos/pkg/containerManager/dockerManager.go):   *)
(* the life of a container in the hands of its user (the performer's       *)
(* createAndStartContainer, RehydrateFromState and shutdownContainer), and *)
(* the liveness monitor that watches and restarts it.                      *)
(*                                                                         *)
(* A monitor is one containerMonitor object with its event channel and     *)
(* four actors: the goroutines monitorContainerLiveness,                   *)
(* monitorDockerEvents and monitorContainerResources, and the caller of    *)
(* TriggerRestart.  They share restartCount, and each runs attemptRestart  *)
(* on its own.  Docker itself is external.                                 *)
(***************************************************************************)
EXTENDS Integers, Sequences, FiniteSets

CONSTANTS
    Containers,         \* container IDs
    Monitors,           \* containerMonitor objects
    None,               \* no monitor, no container
    Actors,             \* the actors at work in a monitor
    MaxRestarts,        \* RestartPolicy.MaxRestarts
    FailureThreshold,   \* HealthCheckConfig.FailureThreshold
    MaxDeaths,          \* bound: how often containers die
    MaxFaults           \* bound: how often Docker refuses a call or breaks a stream

ASSUME DockerConstants ==
    /\ None \notin Containers \cup Monitors
    /\ Actors \subseteq {"liveness", "events", "resources", "manual"}
    /\ {MaxRestarts, MaxDeaths, MaxFaults} \subseteq Nat
    /\ FailureThreshold \in Nat \ {0}

VARIABLES
    container,      \* "absent", "created", "running", "exited", "gone"
    user,           \* what the performer does next with each container
    registered,     \* livenessMonitors: the monitor of each container
    of,             \* the container that a monitor object was made for
    cancelled,      \* monitors whose context is cancelled
    closing,        \* monitors whose channel a goroutine closes after ten milliseconds
    closed,         \* monitors whose eventChan is closed
    restartCount,   \* restarts so far, shared by the actors
    failures,       \* consecutive failed health checks
    dockerEvent,    \* the Docker event that waits for monitorDockerEvents
    actor,          \* where each actor of a monitor is
    panicked,       \* the process died: send on a closed channel
    deaths, faults  \* how often the environment struck

monitor == <<registered, of, cancelled, closing, closed>>
env     == <<deaths, faults>>
vars    == <<container, user, monitor, restartCount, failures, dockerEvent, actor,
             panicked, env>>

\* How a process ends: exit code zero, or a crash (an OOM kill is treated like one).
Deaths == {"stopped", "crashed"}

\* The containers that a previous executor left running can be adopted.
Init ==
    /\ container \in [Containers -> {"absent", "running"}]
    /\ user = [c \in Containers |-> "none"]
    /\ registered = [c \in Containers |-> None]
    /\ of = [m \in Monitors |-> None]
    /\ cancelled = {} /\ closing = {} /\ closed = {}
    /\ restartCount = [m \in Monitors |-> 0]
    /\ failures = [m \in Monitors |-> 0]
    /\ dockerEvent = [m \in Monitors |-> None]
    /\ actor = [m \in Monitors |-> [k \in Actors |-> "none"]]
    /\ panicked = FALSE
    /\ deaths = 0 /\ faults = 0

-----------------------------------------------------------------------------
(* The user of a container *)

\* Docker refuses a call, within the bound.
Fault == faults < MaxFaults /\ faults' = faults + 1 /\ UNCHANGED deaths

quiet == <<monitor, restartCount, failures, dockerEvent, actor, panicked>>

\* A call of the user: what it makes of the container and the user's next call, or Docker
\* refuses it and the user goes on with what follows a failure.
UserCall(c, from, result, next, onError) ==
    /\ ~panicked /\ user[c] = from
    /\ \/ /\ container' = [container EXCEPT ![c] = result]
          /\ user' = [user EXCEPT ![c] = next]
          /\ UNCHANGED env
       \/ /\ Fault
          /\ user' = [user EXCEPT ![c] = onError]
          /\ UNCHANGED container
    /\ UNCHANGED quiet

\* Create: the image is looked up and pulled,
EnsureImageExists(c) == container[c] = "absent" /\ UserCall(c, "none", "absent", "network", "done")

\* the network is looked up and created,
CreateNetworkIfNotExists(c) == UserCall(c, "network", "absent", "create", "done")

\* and then the container is created.
Create(c) == UserCall(c, "create", "created", "start", "done")

\* When Start fails the user removes the container.
Start(c) == UserCall(c, "start", "running", "wait", "remove")

\* Stop and Remove of shutdownContainer: a failed Stop is only logged, Remove is forced,
\* and a container that is gone counts as removed.
Stop(c) ==
    UserCall(c, "stop", IF container[c] = "running" THEN "exited" ELSE container[c], "remove", "remove")

Remove(c) == UserCall(c, "remove", "gone", "done", "done")

\* IsRunning and Inspect.
IsRunning(c) == container[c] = "running"

\* WaitForRunning: polls until the container runs; an inspection that fails, or the
\* timeout, ends the wait with an error.
WaitForRunning(c) ==
    /\ ~panicked /\ user[c] = "wait"
    /\ user' = [user EXCEPT ![c] = IF IsRunning(c) THEN "watch" ELSE "remove"]
    /\ UNCHANGED <<container, quiet, env>>

\* The containerMonitor objects that are not made yet.
Fresh == {m \in Monitors : of[m] = None}

\* StartLivenessMonitoring, under the manager's lock: a new monitor is registered and its
\* goroutines start.
StartLivenessMonitoring(c) ==
    /\ ~panicked /\ user[c] = "watch" /\ Fresh # {}
    /\ user' = [user EXCEPT ![c] = "up"]
    /\ LET m == CHOOSE m \in Fresh : TRUE
       IN  /\ of' = [of EXCEPT ![m] = c]
           /\ registered' = [registered EXCEPT ![c] = m]
           /\ actor' = [actor EXCEPT ![m] = [k \in Actors |-> "idle"]]
    /\ UNCHANGED <<container, cancelled, closing, closed, restartCount, failures, dockerEvent,
                   panicked, env>>

(* Slip: the monitor that is replaced is not stopped. *)
StopExistingKeeps(m) == UNCHANGED <<cancelled, closed>>

\* When the container has a monitor already, StartLivenessMonitoring cancels it and closes
\* its channel at once, while its goroutines may be between two steps.
StopExisting(m) == cancelled' = cancelled \cup {m} /\ closed' = closed \cup {m}

\* RehydrateFromState of a container that still runs: AdoptContainer starts a monitor, and
\* StartLivenessMonitoring a second one, only to get its channel.
AdoptContainer(c) ==
    /\ ~panicked /\ user[c] = "none" /\ container[c] = "running"
    /\ user' = [user EXCEPT ![c] = "up"]
    /\ Cardinality(Fresh) > 1
    /\ LET first  == CHOOSE m \in Fresh : TRUE
           second == CHOOSE m \in Fresh \ {first} : TRUE
       IN
         /\ of' = [of EXCEPT ![first] = c, ![second] = c]
         /\ registered' = [registered EXCEPT ![c] = second]
         /\ actor' = [actor EXCEPT ![first] = [k \in Actors |-> "idle"],
                                   ![second] = [k \in Actors |-> "idle"]]
         /\ StopExisting(first)
    /\ UNCHANGED <<container, closing, restartCount, failures, dockerEvent, panicked, env>>

\* StopLivenessMonitoring, the first half of shutdownContainer.
StopLivenessMonitoring(c) ==
    /\ ~panicked /\ user[c] = "up"
    /\ user' = [user EXCEPT ![c] = "stop"]
    /\ cancelled' = cancelled \cup {registered[c]}
    /\ closing' = closing \cup {registered[c]}
    /\ registered' = [registered EXCEPT ![c] = None]
    /\ UNCHANGED <<container, of, closed, restartCount, failures, dockerEvent, actor,
                   panicked, env>>

\* The manager's Shutdown stops every monitor in the same way; nobody removes then.
Shutdown ==
    /\ ~panicked
    /\ \E c \in Containers : user[c] = "up"
    /\ LET live == {registered[c] : c \in Containers} \ {None}
       IN  /\ cancelled' = cancelled \cup live
           /\ closing' = closing \cup live
    /\ registered' = [c \in Containers |-> None]
    /\ user' = [c \in Containers |-> "done"]
    /\ UNCHANGED <<container, of, closed, restartCount, failures, dockerEvent, actor,
                   panicked, env>>

\* A monitor's context is a child of its caller's.  Deploy cancels that when it returns,
\* and the executor's ends with it: the goroutines stop, but nobody takes the monitor out
\* of the table or closes its channel, and TriggerRestart still finds it.
CallerContextEnds(c) ==
    /\ ~panicked /\ user[c] = "up" /\ registered[c] \notin cancelled
    /\ cancelled' = cancelled \cup {registered[c]}
    /\ UNCHANGED <<container, user, registered, of, closing, closed, restartCount, failures,
                   dockerEvent, actor, panicked, env>>

CloseChannel(m) ==
    /\ ~panicked /\ m \in closing
    /\ closing' = closing \ {m}
    /\ closed' = closed \cup {m}
    /\ UNCHANGED <<container, user, registered, of, cancelled, restartCount, failures,
                   dockerEvent, actor, panicked, env>>

-----------------------------------------------------------------------------
(* Docker and its events *)

\* The process of c ends: Docker sends a die event on every open stream of events.
Report(c, how) ==
    dockerEvent' = [m \in Monitors |->
        IF of[m] = c /\ m \notin cancelled /\ "events" \in Actors THEN how ELSE dockerEvent[m]]

ContainerDies(c, how) ==
    /\ ~panicked /\ container[c] = "running" /\ deaths < MaxDeaths
    /\ deaths' = deaths + 1
    /\ container' = [container EXCEPT ![c] = "exited"]
    /\ Report(c, how)
    /\ UNCHANGED <<user, monitor, restartCount, failures, actor, panicked, faults>>

\* Somebody else removes the container.
ContainerVanishes(c) ==
    /\ ~panicked /\ container[c] \in {"running", "exited"} /\ deaths < MaxDeaths
    /\ deaths' = deaths + 1
    /\ container' = [container EXCEPT ![c] = "gone"]
    /\ UNCHANGED <<user, monitor, restartCount, failures, dockerEvent, actor, panicked, faults>>

\* The event stream breaks and is opened again after five seconds: what happens
\* meanwhile is not reported.
EventStreamBreaks(m) ==
    /\ ~panicked /\ dockerEvent[m] # None
    /\ dockerEvent' = [dockerEvent EXCEPT ![m] = None]
    /\ Fault
    /\ UNCHANGED <<container, user, monitor, restartCount, failures, actor, panicked>>

-----------------------------------------------------------------------------
(* attemptRestart *)

Goto(m, k, pc) == actor' = [actor EXCEPT ![m][k] = pc]

At(m, k, pc) == ~panicked /\ k \in Actors /\ actor[m][k] = pc

\* A non-blocking send on eventChan: on a closed channel it panics, although the select
\* has a default branch.  What the performer makes of the events is modelled in
\* ContainerPerformer.
SendEvent(m) == panicked' = (m \in closed)

\* In attemptRestart the select also waits for the end of the context, which is over
\* before the channel is closed: either branch may be taken.  (TriggerRestart's is not.)
SendOrDone(m, k) == panicked' \in IF m \notin closed THEN {FALSE}
                                  ELSE IF k = "manual" THEN {TRUE} ELSE BOOLEAN

(* Slip: the limit is off by one. *)
LimitReachedLate(m) == MaxRestarts > 0 /\ restartCount[m] > MaxRestarts

\* The restarts that succeeded, against the limit; 0 means no limit.
LimitReached(m) == MaxRestarts > 0 /\ restartCount[m] >= MaxRestarts

\* An actor reports what it has seen and calls attemptRestart: at the limit it sends
\* another event and gives up, below it calculateRestartDelay's backoff follows.
SendAndRestart(m, k) ==
    /\ SendEvent(m)
    /\ Goto(m, k, IF LimitReached(m) THEN "idle" ELSE "delay")

\* After the delay, RestartContainer.  Docker's own restart of a running container ends
\* its process, which may be reported like a crash.  On success the count of the monitor
\* goes up that is registered now, which need not be m.
RestartContainer(m, k) ==
    /\ At(m, k, "delay")
    /\ k # "manual" => m \notin cancelled
    /\ container[of[m]] \in {"running", "exited"}
    /\ SendOrDone(m, k)
    /\ container' = [container EXCEPT ![of[m]] = "running"]
    /\ restartCount' = [n \in Monitors |->
         IF n = registered[of[m]] THEN restartCount[n] + 1 ELSE restartCount[n]]
    /\ IF container[of[m]] = "running"
       THEN \E how \in {"stopped", "crashed"} : Report(of[m], how)
       ELSE UNCHANGED dockerEvent
    /\ Goto(m, k, "report")
    /\ UNCHANGED <<user, monitor, failures, env>>

RestartReported(m, k) ==
    /\ At(m, k, "report")
    /\ SendOrDone(m, k)
    /\ Goto(m, k, "idle")
    /\ UNCHANGED <<container, user, monitor, restartCount, failures, dockerEvent, env>>

\* A missing container asks the performer to recreate it; a cancelled context or Docker
\* makes the restart fail.  Neither is counted as a restart.
RestartFails(m, k) ==
    /\ At(m, k, "delay")
    /\ \/ container[of[m]] = "gone" /\ UNCHANGED env
       \/ k # "manual" /\ m \in cancelled /\ UNCHANGED env
       \/ container[of[m]] # "gone" /\ Fault
    /\ SendOrDone(m, k)
    /\ Goto(m, k, "idle")
    /\ UNCHANGED <<container, user, monitor, restartCount, failures, dockerEvent>>

AttemptRestart(m, k) == RestartContainer(m, k) \/ RestartReported(m, k) \/ RestartFails(m, k)

-----------------------------------------------------------------------------
(* The goroutines of a monitor *)

(* Slip: a stopped container is not counted. *)
FailuresAfterOnlyGone(m) ==
    CASE container[of[m]] = "running" -> 0
      [] container[of[m]] = "gone" -> FailureThreshold
      [] OTHER -> failures[m]

\* What one health check makes of the counter: a missing container counts at once.
FailuresAfter(m) ==
    CASE IsRunning(of[m]) -> 0
      [] container[of[m]] = "gone" -> FailureThreshold
      [] OTHER -> failures[m] + 1

\* A tick of monitorContainerLiveness, with the new number of failures.
Tick(m, n) ==
    /\ At(m, "liveness", "idle")
    /\ failures' = [failures EXCEPT ![m] = IF n >= FailureThreshold THEN 0 ELSE n]
    /\ CASE n >= FailureThreshold         -> SendAndRestart(m, "liveness")
         [] n = 0 /\ failures[m] > 0      -> SendOrDone(m, "liveness") /\ UNCHANGED actor
         [] OTHER                         -> UNCHANGED <<panicked, actor>>
    /\ UNCHANGED <<container, user, monitor, restartCount, dockerEvent>>

\* A failed inspection counts like a container that does not run.
LivenessTick(m) ==
    /\ m \notin cancelled /\ of[m] # None
    /\ \/ Tick(m, FailuresAfter(m)) /\ UNCHANGED env
       \/ Tick(m, failures[m] + 1) /\ Fault

\* A last tick that wins against the cancellation: its inspection fails with the context.
\* Short of the threshold it has no effect.
LivenessTickLate(m) ==
    /\ m \in cancelled /\ failures[m] + 1 >= FailureThreshold
    /\ Tick(m, failures[m] + 1) /\ UNCHANGED env

\* handleDockerEvent: a crash asks for a restart, a normal stop does not.
HandleDockerEvent(m) ==
    /\ At(m, "events", "idle") /\ dockerEvent[m] # None
    /\ IF dockerEvent[m] = "stopped" THEN SendEvent(m) /\ UNCHANGED actor
                                     ELSE SendAndRestart(m, "events")
    /\ dockerEvent' = [dockerEvent EXCEPT ![m] = None]
    /\ UNCHANGED <<container, user, monitor, restartCount, failures, env>>

\* GetResourceUsage answers for a running container.  The CPU usage is always read as
\* zero; the memory may be over its threshold at any time.
MayExceedMemory(c) == IsRunning(c)

\* monitorContainerResources finds the memory threshold exceeded.
ResourceTick(m) ==
    /\ At(m, "resources", "idle") /\ m \notin cancelled
    /\ MayExceedMemory(of[m])
    /\ SendAndRestart(m, "resources")
    /\ UNCHANGED <<container, user, monitor, restartCount, failures, dockerEvent, env>>

\* TriggerRestart looks the monitor up, releases the lock and then sends.
TriggerRestart(c) ==
    /\ registered[c] # None
    /\ At(registered[c], "manual", "idle")
    /\ Goto(registered[c], "manual", "trigger")
    /\ UNCHANGED <<container, user, monitor, restartCount, failures, dockerEvent, panicked, env>>

TriggerSends(m) ==
    /\ At(m, "manual", "trigger")
    /\ SendAndRestart(m, "manual")
    /\ UNCHANGED <<container, user, monitor, restartCount, failures, dockerEvent, env>>

\* A goroutine sees in the delay of attemptRestart that its context is done.  One that is
\* idle ends then: it takes no further step but, perhaps, LivenessTickLate.
\* TriggerRestart has a context of its own.
ContextDone(m, k) ==
    /\ k # "manual" /\ m \in cancelled
    /\ At(m, k, "delay")
    /\ Goto(m, k, "idle")
    /\ UNCHANGED <<container, user, monitor, restartCount, failures, dockerEvent, panicked, env>>

-----------------------------------------------------------------------------

User(c) ==
    \/ EnsureImageExists(c) \/ CreateNetworkIfNotExists(c) \/ Create(c)
    \/ Start(c) \/ WaitForRunning(c) \/ Stop(c) \/ Remove(c)
    \/ StartLivenessMonitoring(c) \/ AdoptContainer(c) \/ StopLivenessMonitoring(c)
    \/ TriggerRestart(c) \/ CallerContextEnds(c)

Docker ==
    \/ \E c \in Containers : ContainerVanishes(c) \/ \E how \in Deaths : ContainerDies(c, how)
    \/ \E m \in Monitors : EventStreamBreaks(m)

Goroutine(m) ==
    \/ LivenessTick(m) \/ HandleDockerEvent(m) \/ TriggerSends(m)
    \/ \E k \in Actors : AttemptRestart(m, k)

Next ==
    \/ Shutdown
    \/ \E c \in Containers : User(c)
    \/ Docker
    \/ \E m \in Monitors : \/ Goroutine(m) \/ CloseChannel(m) \/ LivenessTickLate(m) \/ ResourceTick(m)
                           \/ \E k \in Actors : ContextDone(m, k)

Spec == Init /\ [][Next]_vars

\* The ticker of a monitor keeps ticking, and a goroutine that has begun a restart goes
\* on with it: Go schedules every runnable goroutine.
FairSpec ==
    /\ Spec
    /\ \A m \in Monitors : WF_vars(LivenessTick(m))
    /\ \A m \in Monitors, k \in Actors : WF_vars(AttemptRestart(m, k))

-----------------------------------------------------------------------------
(* Properties *)

ContainerStates == {"absent", "created", "running", "exited", "gone"}

UserSteps == {"none", "network", "create", "start", "wait", "watch", "up", "stop", "remove", "done"}

ActorSteps == {"none", "idle", "trigger", "delay", "report"}

\* Types, and a monitor's channel is only closed once its context is cancelled.
TypeOK ==
    /\ container \in [Containers -> ContainerStates]
    /\ user \in [Containers -> UserSteps]
    /\ registered \in [Containers -> Monitors \cup {None}]
    /\ of \in [Monitors -> Containers \cup {None}]
    /\ cancelled \subseteq Monitors /\ closing \subseteq cancelled /\ closed \subseteq cancelled
    /\ restartCount \in [Monitors -> Nat]
    /\ failures \in [Monitors -> 0 .. FailureThreshold - 1]
    /\ dockerEvent \in [Monitors -> Deaths \cup {None}]
    /\ actor \in [Monitors -> [Actors -> ActorSteps]]
    /\ panicked \in BOOLEAN /\ deaths \in 0 .. MaxDeaths /\ faults \in 0 .. MaxFaults

\* A container has one active monitor at most: whatever is adopted, watched again or
\* stopped, every other monitor of it is cancelled and will not restart it for ever.
OneWatcher ==
    TypeOK /\ \A m \in Monitors : of[m] # None /\ m \notin cancelled => registered[of[m]] = m

\* The actors test the restart limit without the lock, each before its own restart, and a
\* restart of a running container may be reported as a crash that asks for another one.
\* The limit can be passed, but only by the other actors that were past the test.
RestartsBounded ==
    MaxRestarts > 0 =>
        \A m \in Monitors : restartCount[m] < MaxRestarts + Cardinality(Actors)

\* Somebody watches the container: its monitor is in the table and its goroutines run.
Watches(c) == registered[c] # None /\ registered[c] \notin cancelled

\* A container that dies under a watching monitor runs again, unless its restarts are used
\* up, it has vanished, or the watch or the whole process ends first: the polling makes up
\* for lost Docker events and failed inspections, and no actor's restart is in its way.
\* A container whose caller's context is over is not restarted by anybody but
\* TriggerRestart, and a send on a closed channel ends the process.
CrashIsHandled ==
    \A c \in Containers :
        container[c] = "exited" /\ Watches(c) ~>
            \/ container[c] # "exited" \/ ~Watches(c) \/ panicked
            \/ LimitReached(registered[c])

=============================================================================
