---------------------- MODULE ContainerPerformerProofs ----------------------
(***************************************************************************)
(* Proofs about ContainerPerformer, for any performers, tasks, events and  *)
(* bounds.                                                                 *)
(***************************************************************************)
EXTENDS ContainerPerformer, TLAPS

\* A performer in a slot has a live container that nobody drains, and the two slots
\* never hold the same one.
SlotsAreLive ==
    /\ current # next
    /\ \A p \in Performers : InSlot(p) =>
         docker[p] = "live" /\ drain[p] = "none" /\ p \notin draining

\* Only a container that was created is drained, and drainingPerformers names only
\* performers whose drain was started.
DrainsAreReal ==
    /\ \A p \in Performers : drain[p] # "none" => docker[p] # "absent"
    /\ \A p \in draining : drain[p] # "none"

\* Nothing exists before the start.
NothingBeforeBoot ==
    boot = "new" =>
        /\ current = Unset /\ next = NoPerformer /\ deploy.pc = "idle"
        /\ \A p \in Performers : docker[p] = "absent"

\* While Deploy works on a performer the next slot holds it or nothing; otherwise it is
\* empty, or the current slot holds the nil pointer.
SlotFollowsDeploy ==
    /\ deploy.pc \in {"waiting", "promoting", "cleanup"} =>
         deploy.on \in Performers /\ next \in {NoPerformer, deploy.on}
    /\ deploy.pc \in {"idle", "creating", "returning"} /\ current # TypedNil =>
         next = NoPerformer

\* A call that has read the current slot found a performer there.
TasksHavePerformers ==
    \A t \in Tasks : task[t].pc \in {"loaded", "executing"} => task[t].on \in Performers

\* What the inductive invariant says beyond the types.
Safe ==
    /\ SlotsAreLive
    /\ DrainsAreReal
    /\ NothingBeforeBoot
    /\ SlotFollowsDeploy
    /\ TasksHavePerformers
    /\ NoContainerLeaks
    /\ DrainSparesJoinedTasks

\* The inductive invariant.
IInv == TypeOK /\ Safe

-----------------------------------------------------------------------------
(* Types *)

StatusEvents == {"Healthy", "Unhealthy"}

\* A send keeps the channel within its capacity.
LEMMA SendType ==
    ASSUME TypeOK, NEW p, NEW event \in StatusEvents
    PROVE  Send(p, event) \in Seq(StatusEvents) /\ Len(Send(p, event)) <= ChanCap
BY BoundsAssumption DEF TypeOK, Send, StatusEvents

\* The health of a performer that leaves its slot is well typed.
LEMMA ForgetType ==
    ASSUME TypeOK, NEW p
    PROVE  Forget(p) \in [Performers -> Healths]
<1>1. NoHealth \in Healths
    BY BoundsAssumption DEF NoHealth, Healths
<1> QED
    BY <1>1 DEF TypeOK, Forget

\* One health check leaves a well typed record, its failures below the limit.
LEMMA CheckType ==
    ASSUME TypeOK, NEW p \in Performers, NEW ok
    PROVE  CheckedHealth(p, ok) \in Healths
<1> DEFINE h == health[p]
<1>1. h \in Healths
    BY DEF TypeOK
<1>2. \A n \in 0 .. MaxFailures - 1 : [h EXCEPT !.app = TRUE, !.failures = n] \in Healths
    BY <1>1 DEF Healths
<1>3. \A n \in 0 .. MaxFailures - 1 : [h EXCEPT !.app = FALSE, !.failures = n] \in Healths
    BY <1>1 DEF Healths
<1>4. h.failures \in 0 .. MaxFailures - 1
    BY <1>1 DEF Healths
<1>5. CheckFailed(p) \in Healths
    <2> DEFINE n == h.failures + 1
               m == IF n >= MaxFailures THEN 0 ELSE n
    <2>1. m \in 0 .. MaxFailures - 1
        BY <1>4, BoundsAssumption
    <2>2. CheckFailed(p) = [h EXCEPT !.app = FALSE, !.failures = m]
        BY DEF CheckFailed
    <2> HIDE DEF m
    <2> QED
        BY <2>1, <2>2, <1>3
<1>6. 0 \in 0 .. MaxFailures - 1
    BY BoundsAssumption
<1> QED
    BY <1>2, <1>5, <1>6 DEF CheckedHealth

\* Moving a deployment to another phase keeps its record well typed.
LEMMA PhaseType ==
    ASSUME TypeOK, NEW phase \in DeployPhases
    PROVE  [deploy EXCEPT !.pc = phase] \in Deploys
BY DEF TypeOK, Deploys

\* RemovePerformer keeps the variables it changes well typed.
LEMMA RemoveType ==
    ASSUME TypeOK, NEW p \in Performers, RemovePerformer(p)
    PROVE  /\ current' \in Performers \cup {Unset, TypedNil}
           /\ next' \in Performers \cup {NoPerformer}
           /\ status' \in [Performers -> Statuses]
           /\ docker' \in [Performers -> {"absent", "live", "removed", "orphan"}]
           /\ health' \in [Performers -> Healths]
           /\ monitors' \subseteq Performers /\ ctxDone' \subseteq Performers
           /\ chanClosed' \subseteq Performers
           /\ rootCtx' \in Performers \cup {NoPerformer}
<1>1. CASE current = TypedNil \/ ~InSlot(p)
    BY <1>1 DEF TypeOK, RemovePerformer, slots, watch
<1>2. CASE ~(current = TypedNil \/ ~InSlot(p))
    BY <1>2, ForgetType DEF TypeOK, RemovePerformer, ShutdownContainer, DockerRemove
<1> QED
    BY <1>1, <1>2

\* Every action keeps the state well typed, given what the invariant says of the
\* performer being deployed and of the performers that tasks run on.
LEMMA TypeStep ==
    ASSUME TypeOK, SlotFollowsDeploy, TasksHavePerformers, Next PROVE TypeOK'
<1> USE DistinctNils, EventsAssumption, BoundsAssumption
       DEF slots, watch, reports, drains, life
<1>1. ASSUME InitializeEmpty PROVE TypeOK'
    BY <1>1 DEF TypeOK, InitializeEmpty
<1>2. ASSUME NEW p \in Performers, InitializeImage(p) PROVE TypeOK'
    BY <1>2 DEF TypeOK, Healths, InitializeImage, Created, Statuses
<1>3. ASSUME NEW p \in Performers, RehydrateFromState(p) PROVE TypeOK'
    BY <1>3 DEF TypeOK, Healths, RehydrateFromState, Created, Statuses
<1>4. ASSUME NEW p \in Performers, NEW event \in Events, HandleContainerEvent(p, event) PROVE TypeOK'
    <2> DEFINE h == health[p]
               r == [container |-> IF event = "Stopped" THEN h.container ELSE event = "Healthy",
                     app       |-> event \in {"Healthy", "Stopped"} /\ h.app,
                     failures  |-> IF event = "Restarted" THEN 0 ELSE h.failures]
    <2>a. h \in Healths
        BY DEF TypeOK
    <2>b. (IF event = "Stopped" THEN h.container ELSE event = "Healthy") \in BOOLEAN
        BY <2>a DEF Healths
    <2>c. (event \in {"Healthy", "Stopped"} /\ h.app) \in BOOLEAN
        BY <2>a DEF Healths
    <2>d. (IF event = "Restarted" THEN 0 ELSE h.failures) \in 0 .. MaxFailures - 1
        BY <2>a DEF Healths
    <2>e. r \in Healths
        BY <2>b, <2>c, <2>d, Zenon DEF Healths
    <2>f. health' = IF ~InSlot(p) THEN health ELSE [health EXCEPT ![p] = r]
        BY <1>4 DEF HandleContainerEvent
    <2> HIDE DEF r
    <2>1. health' \in [Performers -> Healths]
        BY <2>e, <2>f DEF TypeOK
    <2>2. statusChan' \in Seq(StatusEvents) /\ Len(statusChan') <= ChanCap
        BY <1>4, SendType DEF TypeOK, HandleContainerEvent, StatusEvents
    <2> QED
        BY <1>4, <2>1, <2>2 DEF TypeOK, HandleContainerEvent, RecreateContainer, StatusEvents
<1>5. ASSUME NEW p \in Performers, PeriodicCheck(p) PROVE TypeOK'
    <2>1. PICK good : /\ health' = [q \in Performers |->
                           IF q \in ToCheck THEN CheckedHealth(q, q \in good) ELSE health[q]]
                      /\ statusChan' = CheckReports(good)
        BY <1>5 DEF PeriodicCheck
    <2>2. \A q \in Performers : CheckedHealth(q, q \in good) \in Healths
        BY CheckType
    <2>3. health' \in [Performers -> Healths]
        BY <2>1, <2>2 DEF TypeOK
    <2>4. statusChan' \in Seq(StatusEvents) /\ Len(statusChan') <= ChanCap
        BY <2>1, SendType DEF TypeOK, CheckReports, StatusEvents
    <2> QED
        BY <1>5, <2>3, <2>4 DEF TypeOK, PeriodicCheck, StatusEvents
<1>6. ASSUME NEW p \in Performers, PeriodicCheckPanics(p) PROVE TypeOK'
    BY <1>6 DEF TypeOK, PeriodicCheckPanics
<1>7. ASSUME NEW p \in Performers, MonitorExit(p) PROVE TypeOK'
    BY <1>7 DEF TypeOK, MonitorExit
<1>8. ASSUME NEW p \in Performers, RemoveRequest(p) PROVE TypeOK'
    BY <1>8, RemoveType DEF TypeOK, RemoveRequest
<1>9. ASSUME NEW p \in Performers, DrainWaits(p) PROVE TypeOK'
    BY <1>9 DEF TypeOK, DrainWaits
<1>10. ASSUME NEW p \in Performers, DrainRemoves(p) PROVE TypeOK'
    BY <1>10 DEF TypeOK, DrainRemoves, DockerRemove
<1>11. ASSUME DeployBegin PROVE TypeOK'
    BY <1>11, PhaseType DEF TypeOK, DeployBegin, DeployPhases
<1>12. ASSUME DeployExpires PROVE TypeOK'
    BY <1>12 DEF TypeOK, Deploys, DeployExpires, SlotFollowsDeploy
<1>13. ASSUME NEW p \in Performers, CreatePerformer(p) PROVE TypeOK'
    BY <1>13 DEF TypeOK, Healths, Deploys, CreatePerformer, Created, Statuses, DeployPhases
<1>14. ASSUME CreateFails PROVE TypeOK'
    <2>1. deploy' \in Deploys
        BY <1>14, PhaseType DEF CreateFails, DeployPhases
    <2>2. docker' \in [Performers -> {"absent", "live", "removed", "orphan"}]
        BY <1>14 DEF TypeOK, CreateFails, DockerRemove
    <2> QED
        BY <1>14, <2>1, <2>2 DEF TypeOK, CreateFails
<1>15. ASSUME AwaitStatus PROVE TypeOK'
    <2>1. deploy' \in Deploys
        BY <1>15, PhaseType DEF AwaitStatus, DeployPhases, TypeOK
    <2>2. statusChan' \in Seq(StatusEvents) /\ Len(statusChan') <= ChanCap
        BY <1>15 DEF TypeOK, AwaitStatus, StatusEvents
    <2> QED
        BY <1>15, <2>1, <2>2 DEF TypeOK, AwaitStatus, StatusEvents
<1>16. ASSUME AwaitGivesUp PROVE TypeOK'
    BY <1>16, PhaseType DEF TypeOK, AwaitGivesUp, DeployPhases
<1>17. ASSUME PromotePerformer PROVE TypeOK'
    <2>1. deploy' \in Deploys /\ deploy.on \in Performers
        BY <1>17, PhaseType DEF PromotePerformer, DeployPhases, SlotFollowsDeploy
    <2>2. health' \in [Performers -> Healths]
        BY <1>17, ForgetType DEF PromotePerformer
    <2>3. draining' \subseteq Performers /\ drain' \in [Performers -> {"none", "waiting", "removing", "done"}]
        BY <1>17 DEF TypeOK, PromotePerformer, StartDrain
    <2> QED
        BY <1>17, <2>1, <2>2, <2>3 DEF TypeOK, PromotePerformer, Statuses
<1>18. ASSUME PromoteFails PROVE TypeOK'
    BY <1>18, PhaseType DEF TypeOK, PromoteFails, DeployPhases
<1>19. ASSUME DeployCleanup PROVE TypeOK'
    <2>1. deploy' \in Deploys
        BY <1>19, PhaseType DEF DeployCleanup, DeployPhases
    <2>2. deploy.on \in Performers
        BY <1>19 DEF DeployCleanup, SlotFollowsDeploy
    <2> QED
        BY <1>19, <2>1, <2>2, RemoveType DEF TypeOK, DeployCleanup
<1>20. ASSUME DeployReturns PROVE TypeOK'
    BY <1>20 DEF TypeOK, Deploys, DeployReturns, NoDeploy, DeployPhases
<1>21. ASSUME NEW t \in Tasks, TaskLoads(t) PROVE TypeOK'
    <2>a. task[t] \in Calls
        BY DEF TypeOK
    <2>b. \A q \in Performers : [task[t] EXCEPT !.pc = "loaded", !.on = q] \in Calls
        BY <2>a DEF Calls
    <2>c. [task[t] EXCEPT !.pc = "returned"] \in Calls
        BY <2>a DEF Calls
    <2>1. task' \in [Tasks -> Calls]
        BY <1>21, <2>b, <2>c DEF TypeOK, TaskLoads
    <2> QED
        BY <1>21, <2>1 DEF TypeOK, TaskLoads
<1>22. ASSUME NEW t \in Tasks, TaskJoins(t) PROVE TypeOK'
    <2> DEFINE late == drain[task[t].on] # "none"
    <2>a. task[t] \in Calls /\ late \in BOOLEAN
        BY DEF TypeOK
    <2>b. \A b \in BOOLEAN : [task[t] EXCEPT !.pc = "executing", !.late = b] \in Calls
        BY <2>a DEF Calls
    <2>c. task' = [task EXCEPT ![t] = [task[t] EXCEPT !.pc = "executing", !.late = late]]
        BY <1>22 DEF TypeOK, TaskJoins, Calls
    <2> HIDE DEF late
    <2>1. task' \in [Tasks -> Calls]
        BY <2>a, <2>b, <2>c DEF TypeOK
    <2> QED
        BY <1>22, <2>1 DEF TypeOK, TaskJoins
<1>23. ASSUME NEW t \in Tasks, TaskReturns(t) PROVE TypeOK'
    <2>a. [task[t] EXCEPT !.pc = "returned"] \in Calls
        BY DEF TypeOK, Calls
    <2>b. task' = [task EXCEPT ![t] = [task[t] EXCEPT !.pc = "returned"]]
        BY <1>23 DEF TypeOK, TaskReturns
    <2>1. task' \in [Tasks -> Calls]
        BY <2>a, <2>b DEF TypeOK
    <2> QED
        BY <1>23, <2>1 DEF TypeOK, TaskReturns
<1>24. ASSUME ContextEnds PROVE TypeOK'
    BY <1>24 DEF TypeOK, ContextEnds
<1>25. ASSUME ShutdownBegins PROVE TypeOK'
    BY <1>25 DEF TypeOK, ShutdownBegins
<1>26. ASSUME ShutdownCurrent PROVE TypeOK'
    <2>1. health' \in [Performers -> Healths]
        BY <1>26, ForgetType DEF TypeOK, ShutdownCurrent
    <2>2. docker' \in [Performers -> {"absent", "live", "removed", "orphan"}]
        BY <1>26 DEF TypeOK, ShutdownCurrent, ShutdownContainer, DockerRemove
    <2>3. chanClosed' \subseteq Performers
        BY <1>26 DEF TypeOK, ShutdownCurrent, ShutdownContainer
    <2> QED
        BY <1>26, <2>1, <2>2, <2>3 DEF TypeOK, ShutdownCurrent
<1>27. ASSUME ShutdownNext PROVE TypeOK'
    <2>1. health' \in [Performers -> Healths]
        BY <1>27, ForgetType DEF TypeOK, ShutdownNext
    <2>2. docker' \in [Performers -> {"absent", "live", "removed", "orphan"}]
        BY <1>27 DEF TypeOK, ShutdownNext, ShutdownContainer, DockerRemove
    <2>3. chanClosed' \subseteq Performers
        BY <1>27 DEF TypeOK, ShutdownNext, ShutdownContainer
    <2> QED
        BY <1>27, <2>1, <2>2, <2>3 DEF TypeOK, ShutdownNext
<1> QED
    BY <1>1, <1>2, <1>3, <1>4, <1>5, <1>6, <1>7, <1>8, <1>9, <1>10, <1>11, <1>12, <1>13, <1>14, <1>15, <1>16, <1>17, <1>18, <1>19, <1>20, <1>21, <1>22, <1>23, <1>24, <1>25, <1>26, <1>27
    DEF Next, Startup, Monitor, DeployStep, TaskStep, DrainStep, ShutdownStep


-----------------------------------------------------------------------------
(* The invariant *)

\* Safe is a matter of the slots, the containers, the drains, the tasks and the
\* deployment's phase alone.
LEMMA SafeFrame ==
    ASSUME Safe,
           UNCHANGED <<boot, current, next, docker, draining, drain, task>>,
           deploy'.pc = deploy.pc, deploy'.on = deploy.on
    PROVE  Safe'
BY DEF Safe, SlotsAreLive, InSlot, DrainsAreReal, NothingBeforeBoot, SlotFollowsDeploy,
       TasksHavePerformers, NoContainerLeaks, DrainSparesJoinedTasks

\* A container that is put into service at the start is the only one.
LEMMA SafeStartup ==
    ASSUME TypeOK, Safe, NEW p \in Performers, boot = "new", boot' = "ready",
           docker' = [docker EXCEPT ![p] = "live"], current' = p,
           UNCHANGED <<next, drains, deploy, task>>
    PROVE  Safe'
<1>1. next = NoPerformer /\ deploy.pc = "idle" /\ \A q \in Performers : docker[q] = "absent"
    BY DEF Safe, NothingBeforeBoot
<1>2. \A q \in Performers : drain[q] = "none" /\ q \notin draining
    BY <1>1 DEF Safe, DrainsAreReal
<1>3. SlotsAreLive' /\ NoContainerLeaks'
    BY <1>1, <1>2, DistinctNils DEF TypeOK, SlotsAreLive, NoContainerLeaks, InSlot, drains
<1>4. DrainsAreReal'
    BY <1>2 DEF TypeOK, DrainsAreReal, drains
<1>5. NothingBeforeBoot' /\ SlotFollowsDeploy'
    BY <1>1 DEF NothingBeforeBoot, SlotFollowsDeploy
<1>6. TasksHavePerformers' /\ DrainSparesJoinedTasks'
    BY DEF Safe, TasksHavePerformers, DrainSparesJoinedTasks, drains
<1> QED
    BY <1>3, <1>4, <1>5, <1>6 DEF Safe

\* A new container in the next slot: it was absent, so it was in no slot and no drain.
LEMMA SafeCreate ==
    ASSUME TypeOK, Safe, NEW p \in Performers, CreatePerformer(p)
    PROVE  Safe'
<1> USE DEF CreatePerformer, drains, life
<1>1. drain[p] = "none" /\ p \notin draining /\ p # current
    BY DEF Safe, SlotsAreLive, DrainsAreReal, InSlot
<1>2. SlotsAreLive'
    BY <1>1 DEF TypeOK, Safe, SlotsAreLive, InSlot
<1>3. DrainsAreReal'
    BY DEF TypeOK, Safe, DrainsAreReal
<1>4. NothingBeforeBoot' /\ SlotFollowsDeploy'
    BY DEF TypeOK, Safe, NothingBeforeBoot, SlotFollowsDeploy
<1>5. TasksHavePerformers' /\ DrainSparesJoinedTasks'
    BY DEF Safe, TasksHavePerformers, DrainSparesJoinedTasks
<1>6. NoContainerLeaks'
    BY DistinctNils DEF TypeOK, Safe, NoContainerLeaks
<1> QED
    BY <1>2, <1>3, <1>4, <1>5, <1>6 DEF Safe

\* The promoted performer comes from the next slot, where nobody drained it; the one it
\* replaces was not draining either, so a drain does start and its container is not lost.
LEMMA SafePromote ==
    ASSUME TypeOK, Safe, PromotePerformer
    PROVE  Safe'
<1> USE DEF PromotePerformer, life
<1>1. next = deploy.on /\ next \in Performers /\ current # next
    BY DEF Safe, SlotFollowsDeploy, SlotsAreLive, Promotable
<1>2. current \in Performers => current \notin draining /\ docker[current] = "live"
    BY DEF Safe, SlotsAreLive, InSlot
<1>3. \A q \in Performers : drain'[q] = IF q = current THEN "waiting" ELSE drain[q]
    BY <1>2 DEF TypeOK, StartDrain, drains
<1>4. \A q \in Performers : q \in draining' <=> q \in draining \/ q = current
    BY <1>2 DEF TypeOK, StartDrain, drains
<1>5. draining' \subseteq Performers
    BY DEF TypeOK, StartDrain, drains
<1>6. SlotsAreLive'
    BY <1>1, <1>3, <1>4, DistinctNils DEF TypeOK, Safe, SlotsAreLive, InSlot
<1>7. DrainsAreReal'
    BY <1>2, <1>3, <1>4, <1>5 DEF Safe, DrainsAreReal
<1>8. NothingBeforeBoot' /\ SlotFollowsDeploy'
    BY DEF TypeOK, Deploys, Safe, NothingBeforeBoot, SlotFollowsDeploy
<1>9. TasksHavePerformers'
    BY DEF Safe, TasksHavePerformers
<1>10. NoContainerLeaks'
    BY <1>1, <1>3 DEF Safe, NoContainerLeaks
<1>11. DrainSparesJoinedTasks'
    BY <1>3 DEF Safe, TasksHavePerformers, DrainSparesJoinedTasks
<1> QED
    BY <1>6, <1>7, <1>8, <1>9, <1>10, <1>11 DEF Safe

\* RemovePerformer removes the container of the slot it empties.  Only its effect on the
\* slots is left to the caller, whose deployment may be the one that fails.
LEMMA SafeRemove ==
    ASSUME TypeOK, Safe, NEW p \in Performers, RemovePerformer(p),
           UNCHANGED <<drains, task, boot>>
    PROVE  /\ SlotsAreLive' /\ DrainsAreReal' /\ NoContainerLeaks'
           /\ TasksHavePerformers' /\ DrainSparesJoinedTasks'
<1> USE DEF drains
<1>1. TasksHavePerformers' /\ DrainSparesJoinedTasks'
    BY DEF Safe, TasksHavePerformers, DrainSparesJoinedTasks
<1>2. CASE current = TypedNil \/ ~InSlot(p)
    BY <1>1, <1>2 DEF RemovePerformer, slots, Safe, SlotsAreLive, InSlot, DrainsAreReal, NoContainerLeaks
<1>3. CASE ~(current = TypedNil \/ ~InSlot(p))
    <2>1. /\ current' = IF current = p THEN TypedNil ELSE current
          /\ next' = IF current # p THEN NoPerformer ELSE next
        BY <1>3 DEF RemovePerformer
    <2>2. PICK left \in {"removed", "orphan"} : docker' = [docker EXCEPT ![p] = left]
        BY <1>3 DEF RemovePerformer, ShutdownContainer, DockerRemove
    <2>3. SlotsAreLive'
        BY <1>3, <2>1, <2>2, DistinctNils DEF TypeOK, Safe, SlotsAreLive, InSlot
    <2>4. DrainsAreReal'
        BY <2>2 DEF TypeOK, Safe, DrainsAreReal
    <2>5. NoContainerLeaks'
        BY <1>3, <2>1, <2>2 DEF TypeOK, InSlot, Safe, NoContainerLeaks
    <2> QED
        BY <1>1, <2>3, <2>4, <2>5
<1> QED
    BY <1>2, <1>3

\* A drain removes a container that is in no slot, once the tasks that joined are gone.
LEMMA SafeDrain ==
    ASSUME TypeOK, Safe, NEW p \in Performers, DrainStep(p)
    PROVE  Safe'
<1> USE DEF life, slots
<1>1. CASE DrainWaits(p)
    <2> USE <1>1 DEF DrainWaits
    <2>1. SlotsAreLive' /\ DrainsAreReal' /\ NoContainerLeaks'
        BY DEF TypeOK, Safe, SlotsAreLive, InSlot, DrainsAreReal, NoContainerLeaks
    <2>2. TasksHavePerformers' /\ DrainSparesJoinedTasks'
        BY DEF TypeOK, Safe, InFlight, TasksHavePerformers, DrainSparesJoinedTasks
    <2>3. NothingBeforeBoot' /\ SlotFollowsDeploy'
        BY DEF Safe, NothingBeforeBoot, SlotFollowsDeploy
    <2> QED
        BY <2>1, <2>2, <2>3 DEF Safe
<1>2. CASE DrainRemoves(p)
    <2> USE <1>2 DEF DrainRemoves
    <2>1. ~InSlot(p)
        BY DEF Safe, SlotsAreLive
    <2>2. PICK left \in {"removed", "orphan"} : docker' = [docker EXCEPT ![p] = left]
        BY DEF DockerRemove
    <2>3. SlotsAreLive' /\ DrainsAreReal' /\ NoContainerLeaks'
        BY <2>1, <2>2 DEF TypeOK, Safe, SlotsAreLive, InSlot, DrainsAreReal, NoContainerLeaks
    <2>4. TasksHavePerformers' /\ DrainSparesJoinedTasks'
        BY DEF TypeOK, Safe, TasksHavePerformers, DrainSparesJoinedTasks
    <2>5. NothingBeforeBoot' /\ SlotFollowsDeploy'
        BY <2>2 DEF TypeOK, Safe, DrainsAreReal, NothingBeforeBoot, SlotFollowsDeploy
    <2> QED
        BY <2>3, <2>4, <2>5 DEF Safe
<1> QED
    BY <1>1, <1>2 DEF DrainStep

\* Shutdown empties each slot together with the container in it.
LEMMA SafeShutdown ==
    ASSUME TypeOK, Safe, ShutdownStep
    PROVE  Safe'
<1> USE DEF drains, slots
<1>1. CASE ShutdownBegins
    BY <1>1 DEF ShutdownBegins, Safe, SlotsAreLive, InSlot, DrainsAreReal, NothingBeforeBoot,
       SlotFollowsDeploy, TasksHavePerformers, NoContainerLeaks, DrainSparesJoinedTasks
<1>2. ASSUME NEW p \in Performers, p = current \/ p = next,
             DockerRemove(p),
             current' = IF p = current THEN TypedNil ELSE current,
             next' = IF p = current THEN next ELSE NoPerformer,
             UNCHANGED <<drains, deploy, task, boot>>
      PROVE  Safe'
    <2>1. PICK left \in {"removed", "orphan"} : docker' = [docker EXCEPT ![p] = left]
        BY <1>2 DEF DockerRemove
    <2>2. SlotsAreLive' /\ NoContainerLeaks'
        BY <1>2, <2>1, DistinctNils DEF TypeOK, Safe, SlotsAreLive, InSlot, NoContainerLeaks
    <2>3. DrainsAreReal'
        BY <1>2, <2>1 DEF TypeOK, Safe, DrainsAreReal
    <2>4. NothingBeforeBoot' /\ SlotFollowsDeploy'
        BY <1>2, DistinctNils DEF Safe, NothingBeforeBoot, SlotFollowsDeploy
    <2>5. TasksHavePerformers' /\ DrainSparesJoinedTasks'
        BY <1>2 DEF Safe, TasksHavePerformers, DrainSparesJoinedTasks
    <2> QED
        BY <2>2, <2>3, <2>4, <2>5 DEF Safe
<1>3. CASE ShutdownCurrent
    <2>1. CASE current \in Performers
        BY <1>2, <1>3, <2>1 DEF ShutdownCurrent, ShutdownContainer
    <2>2. CASE current \notin Performers
        BY <1>3, <2>2, SafeFrame DEF ShutdownCurrent
    <2> QED
        BY <2>1, <2>2
<1>4. CASE ShutdownNext
    <2>1. CASE next \in Performers
        <3>1. next # current
            BY DEF Safe, SlotsAreLive
        <3> QED
            BY <1>2, <1>4, <2>1, <3>1 DEF ShutdownNext, ShutdownContainer
    <2>2. CASE next \notin Performers
        BY <1>4, <2>2, SafeFrame DEF ShutdownNext
    <2> QED
        BY <2>1, <2>2
<1> QED
    BY <1>1, <1>3, <1>4 DEF ShutdownStep

\* RunTask touches nothing but its own record, and a late task is marked.
LEMMA SafeTask ==
    ASSUME TypeOK, Safe, NEW t \in Tasks, TaskLoads(t) \/ TaskStep(t)
    PROVE  Safe'
<1>1. UNCHANGED <<slots, docker, drains, deploy, life>>
    BY DEF TaskLoads, TaskStep, TaskJoins, TaskReturns
<1>2. SlotsAreLive' /\ DrainsAreReal' /\ NoContainerLeaks' /\ NothingBeforeBoot' /\ SlotFollowsDeploy'
    BY <1>1 DEF slots, drains, life, Safe, SlotsAreLive, InSlot, DrainsAreReal, NoContainerLeaks,
       NothingBeforeBoot, SlotFollowsDeploy
<1>3. CASE TaskLoads(t)
    <2>1. TasksHavePerformers' /\ DrainSparesJoinedTasks'
        BY <1>1, <1>3 DEF drains, TypeOK, Calls, Safe, TaskLoads, TasksHavePerformers, DrainSparesJoinedTasks
    <2> QED
        BY <1>2, <2>1 DEF Safe
<1>4. CASE TaskJoins(t)
    <2>1. TasksHavePerformers' /\ DrainSparesJoinedTasks'
        BY <1>1, <1>4 DEF drains, TypeOK, Calls, Safe, TaskJoins, TasksHavePerformers, DrainSparesJoinedTasks
    <2> QED
        BY <1>2, <2>1 DEF Safe
<1>5. CASE TaskReturns(t)
    <2>1. TasksHavePerformers' /\ DrainSparesJoinedTasks'
        BY <1>1, <1>5 DEF drains, TypeOK, Calls, Safe, TaskReturns, TasksHavePerformers, DrainSparesJoinedTasks
    <2> QED
        BY <1>2, <2>1 DEF Safe
<1> QED
    BY <1>3, <1>4, <1>5 DEF TaskStep

\* Every action keeps Safe.
LEMMA SafeStep ==
    ASSUME TypeOK, Safe, Next PROVE Safe'
<1> USE DEF slots, watch, reports, drains, life
<1>1. ASSUME Startup PROVE Safe'
    <2>1. CASE InitializeEmpty
        BY <2>1 DEF InitializeEmpty, Safe, SlotsAreLive, InSlot, DrainsAreReal, NothingBeforeBoot,
           SlotFollowsDeploy, TasksHavePerformers, NoContainerLeaks, DrainSparesJoinedTasks
    <2>2. ASSUME NEW p \in Performers, InitializeImage(p) \/ RehydrateFromState(p) PROVE Safe'
        BY <2>2, SafeStartup DEF InitializeImage, RehydrateFromState
    <2> QED
        BY <1>1, <2>1, <2>2 DEF Startup
<1>2. ASSUME NEW p \in Performers, Monitor(p) PROVE Safe'
    BY <1>2, SafeFrame DEF Monitor, HandleContainerEvent, PeriodicCheck, PeriodicCheckPanics, MonitorExit
<1>3. ASSUME NEW p \in Performers, RemoveRequest(p) PROVE Safe'
    <2>1. NothingBeforeBoot' /\ SlotFollowsDeploy'
        BY <1>3, DistinctNils DEF Safe, RemoveRequest, ListPerformers, RemovePerformer,
           NothingBeforeBoot, SlotFollowsDeploy
    <2> QED
        BY <1>3, <2>1, SafeRemove DEF Safe, RemoveRequest
<1>4. ASSUME DeployBegin PROVE Safe'
    BY <1>4 DEF DeployBegin, TypeOK, Deploys, Safe, SlotsAreLive, InSlot, DrainsAreReal,
       NothingBeforeBoot, SlotFollowsDeploy, TasksHavePerformers, NoContainerLeaks, DrainSparesJoinedTasks
<1>5. ASSUME DeployExpires PROVE Safe'
    BY <1>5, SafeFrame DEF DeployExpires, TypeOK, Deploys
<1>6. ASSUME DeployStep PROVE Safe'
    <2>1. ASSUME UNCHANGED <<boot, current, next, docker, draining, drain, task>>,
                 AwaitStatus \/ AwaitGivesUp \/ PromoteFails \/ DeployReturns
          PROVE  Safe'
        <3>1. SlotFollowsDeploy' /\ NothingBeforeBoot'
            BY <2>1 DEF AwaitStatus, AwaitGivesUp, PromoteFails, DeployReturns, NoDeploy,
               TypeOK, Deploys, Safe, SlotFollowsDeploy, NothingBeforeBoot
        <3> QED
            BY <2>1, <3>1 DEF Safe, SlotsAreLive, InSlot, DrainsAreReal, TasksHavePerformers,
               NoContainerLeaks, DrainSparesJoinedTasks
    <2>2. CASE CreateFails
        <3>1. \A q \in Performers : docker'[q] # docker[q] =>
                  docker[q] = "absent" /\ docker'[q] \in {"removed", "orphan"}
            BY <2>2 DEF CreateFails, DockerRemove, TypeOK
        <3>2. SlotsAreLive' /\ DrainsAreReal' /\ NoContainerLeaks'
            BY <2>2, <3>1 DEF CreateFails, TypeOK, Safe, SlotsAreLive, InSlot, DrainsAreReal, NoContainerLeaks
        <3>3. SlotFollowsDeploy' /\ NothingBeforeBoot'
            BY <2>2 DEF CreateFails, TypeOK, Deploys, Safe, SlotFollowsDeploy, NothingBeforeBoot
        <3>4. TasksHavePerformers' /\ DrainSparesJoinedTasks'
            BY <2>2 DEF CreateFails, Safe, TasksHavePerformers, DrainSparesJoinedTasks
        <3> QED
            BY <3>2, <3>3, <3>4 DEF Safe
    <2>3. CASE DeployCleanup
        <3>1. deploy.on \in Performers
            BY <2>3 DEF DeployCleanup, Safe, SlotFollowsDeploy
        <3>2. NothingBeforeBoot' /\ SlotFollowsDeploy'
            BY <2>3, <3>1, DistinctNils DEF Safe, DeployCleanup, RemovePerformer, InSlot, TypeOK, Deploys,
               NothingBeforeBoot, SlotFollowsDeploy
        <3> QED
            BY <2>3, <3>1, <3>2, SafeRemove DEF Safe, DeployCleanup
    <2> QED
        BY <1>6, <2>1, <2>2, <2>3, SafeCreate, SafePromote
        DEF DeployStep, AwaitStatus, AwaitGivesUp, PromoteFails, DeployReturns
<1>7. ASSUME ContextEnds PROVE Safe'
    BY <1>7, SafeFrame DEF ContextEnds
<1> QED
    BY <1>1, <1>2, <1>3, <1>4, <1>5, <1>6, <1>7, SafeDrain, SafeTask, SafeShutdown DEF Next

\* A new performer satisfies the invariant.
LEMMA InitSafe ==
    ASSUME Init PROVE IInv
<1>1. NoHealth \in Healths /\ NoDeploy \in Deploys
    BY BoundsAssumption DEF NoHealth, Healths, NoDeploy, Deploys, DeployPhases
<1>2. task \in [Tasks -> Calls]
    BY DEF Init, Calls
<1>3. statusChan \in Seq({"Healthy", "Unhealthy"}) /\ Len(statusChan) <= ChanCap
    BY BoundsAssumption DEF Init
<1>4. TypeOK
    BY <1>1, <1>2, <1>3 DEF Init, TypeOK, Statuses
<1>5. Safe
    BY DistinctNils DEF Init, NoDeploy, Safe, SlotsAreLive, InSlot, DrainsAreReal, NothingBeforeBoot,
       SlotFollowsDeploy, TasksHavePerformers, NoContainerLeaks, DrainSparesJoinedTasks
<1> QED
    BY <1>4, <1>5 DEF IInv

\* A stuttering step keeps it.
LEMMA StutterSafe ==
    ASSUME IInv, UNCHANGED vars PROVE IInv'
<1> USE DEF vars, slots, watch, reports, drains, life
<1>1. TypeOK'
    BY DEF IInv, TypeOK
<1>2. Safe'
    BY SafeFrame DEF IInv
<1> QED
    BY <1>1, <1>2 DEF IInv

\* The inductive invariant holds in every reachable state.
THEOREM PerformerInvariant == Spec => []IInv
<1>1. Init => IInv
    BY InitSafe
<1>2. IInv /\ [Next]_vars => IInv'
    <2>1. ASSUME IInv, Next PROVE IInv'
        BY <2>1, TypeStep, SafeStep DEF IInv, Safe
    <2> QED
        BY <2>1, StutterSafe
<1> QED
    BY <1>1, <1>2, PTL DEF Spec

-----------------------------------------------------------------------------
(* The properties *)

\* The state of the performer is well typed: failure counts stay below the limit that
\* restarts a container, and the status channel within its capacity.
THEOREM PerformerTypeOK == Spec => []TypeOK
<1>1. IInv => TypeOK
    BY DEF IInv
<1> QED
    BY <1>1, PerformerInvariant, PTL

\* No container is ever left running without a slot or a drain that will remove it,
\* in whatever order deployments, drains, removals and Shutdown come.
THEOREM PerformerNoLeaks == Spec => []NoContainerLeaks
<1>1. IInv => NoContainerLeaks
    BY DEF IInv, Safe
<1> QED
    BY <1>1, PerformerInvariant, PTL

\* The drain of a replaced container spares every task that had joined before it began.
THEOREM PerformerDrain == Spec => []DrainSparesJoinedTasks
<1>1. IInv => DrainSparesJoinedTasks
    BY DEF IInv, Safe
<1> QED
    BY <1>1, PerformerInvariant, PTL

\* Between deployments the next slot is free, unless the current slot holds the nil
\* pointer.
THEOREM PerformerFreesSlot == Spec => []FailedDeployFreesSlot
<1>1. IInv => FailedDeployFreesSlot
    BY DEF IInv, Safe, SlotFollowsDeploy, FailedDeployFreesSlot
<1> QED
    BY <1>1, PerformerInvariant, PTL

\* After the start only PromotePerformer puts a container into service, and that
\* container is live and healthy at that moment.
THEOREM PerformerPromotesHealthy == Spec => PromotesHealthy
<1> DEFINE Step == boot = "ready" /\ current' # current /\ current' \in Performers =>
                     /\ docker[current'] = "live"
                     /\ health[current'].container /\ health[current'].app
<1>1. ASSUME IInv, Next PROVE Step
    <2>1. CASE PromotePerformer
        BY <1>1, <2>1 DEF PromotePerformer, Promotable, IInv, Safe, SlotsAreLive, SlotFollowsDeploy, InSlot
    <2>2. CASE ~PromotePerformer
        <3>1. boot = "ready" => current' \in {current, TypedNil}
            BY <1>1, <2>2 DEF slots, Next, Startup, InitializeEmpty, InitializeImage, RehydrateFromState,
               Monitor, HandleContainerEvent, PeriodicCheck, PeriodicCheckPanics, MonitorExit,
               RemoveRequest, RemovePerformer, DrainStep, DrainWaits, DrainRemoves,
               DeployBegin, DeployExpires, DeployStep, CreatePerformer, CreateFails, AwaitStatus,
               AwaitGivesUp, PromoteFails, DeployCleanup, DeployReturns,
               TaskLoads, TaskStep, TaskJoins, TaskReturns,
               ContextEnds, ShutdownStep, ShutdownBegins, ShutdownCurrent, ShutdownNext
        <3> QED
            BY <3>1, DistinctNils
    <2> QED
        BY <2>1, <2>2
<1>2. ASSUME IInv, UNCHANGED vars PROVE Step
    BY <1>2 DEF vars, slots
<1>3. IInv /\ [Next]_vars => [Step]_vars
    BY <1>1, <1>2
<1> QED
    BY <1>3, PerformerInvariant, PTL DEF Spec, PromotesHealthy

=============================================================================
