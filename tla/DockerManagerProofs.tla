------------------------- MODULE DockerManagerProofs -------------------------
(***************************************************************************)
(* Proofs about DockerManager, for any containers, monitors, actors,       *)
(* limits and bounds.                                                      *)
(***************************************************************************)
EXTENDS DockerManager, FiniteSetTheorems, TLAPS

\* What a user does with a container before it is watched.
Unwatched == {"none", "network", "create", "start", "wait", "watch"}

\* A container is watched for the first time when its user brings it up: until then no
\* monitor was made for it, and it is up exactly while a monitor of it is registered.
WatchedWhileUp ==
    \A c \in Containers :
        /\ user[c] \in Unwatched => \A m \in Monitors : of[m] # c
        /\ registered[c] # None <=> user[c] = "up"
        /\ registered[c] # None => of[registered[c]] = c

\* The monitors that are not cancelled are the registered ones.
ActiveAreRegistered ==
    \A m \in Monitors : of[m] # None /\ m \notin cancelled => registered[of[m]] = m

\* A monitor object that is not made yet has no actor, and nobody cancelled it.
FreshAreIdle ==
    \A m \in Monitors : of[m] = None =>
        m \notin cancelled /\ \A k \in Actors : actor[m][k] = "none"

\* A caller of TriggerRestart found its monitor registered, and no other monitor follows
\* it: the caller's restart counts for nobody else.
CallersOutliveNobody ==
    \A m \in Monitors :
        "manual" \in Actors /\ actor[m]["manual"] \notin {"none", "idle"} =>
            registered[of[m]] \in {m, None}

Watched == WatchedWhileUp /\ ActiveAreRegistered /\ FreshAreIdle /\ CallersOutliveNobody

\* The actors of m that are past the test of the limit, and whose restart is to come.
InDelay(m) == {k \in Actors : actor[m][k] = "delay"}

\* Restarts done and to come: the test leaves room for one of each actor.
WithinBudget ==
    MaxRestarts > 0 =>
        \A m \in Monitors :
            restartCount[m] + Cardinality(InDelay(m)) < MaxRestarts + Cardinality(Actors)

IInv == TypeOK /\ Watched /\ WithinBudget

-----------------------------------------------------------------------------
(* Types *)

\* What changing one entry of a table of tables does to its type and to its entries.
LEMMA TableUpdate ==
    ASSUME NEW S, NEW T, NEW U, NEW f \in [S -> [T -> U]],
           NEW s \in S, NEW t \in T, NEW u \in U
    PROVE  /\ [f EXCEPT ![s][t] = u] \in [S -> [T -> U]]
           /\ \A x \in S, y \in T :
                [f EXCEPT ![s][t] = u][x][y] = IF x = s /\ y = t THEN u ELSE f[x][y]
<1>1. [f[s] EXCEPT ![t] = u] \in [T -> U]
    OBVIOUS
<1> QED
    BY <1>1

\* An actor's step changes where it is and no other actor.
LEMMA GotoFacts ==
    ASSUME TypeOK, NEW m \in Monitors, NEW k \in Actors, NEW pc \in ActorSteps, Goto(m, k, pc)
    PROVE  /\ actor' \in [Monitors -> [Actors -> ActorSteps]]
           /\ \A n \in Monitors, j \in Actors :
                 actor'[n][j] = IF n = m /\ j = k THEN pc ELSE actor[n][j]
BY TableUpdate DEF TypeOK, Goto

\* Reporting and asking for a restart keeps the actors and the panic flag well typed.
LEMMA SendAndRestartType ==
    ASSUME TypeOK, NEW m \in Monitors, NEW k \in Actors, SendAndRestart(m, k)
    PROVE  actor' \in [Monitors -> [Actors -> ActorSteps]] /\ panicked' \in BOOLEAN
<1>1. {"idle", "delay"} \subseteq ActorSteps
    BY DEF ActorSteps
<1>2. \E pc \in {"idle", "delay"} : Goto(m, k, pc)
    BY DEF SendAndRestart
<1> QED
    BY <1>1, <1>2, GotoFacts DEF SendAndRestart, SendEvent

\* A user's call keeps the state well typed.
LEMMA UserCallType ==
    ASSUME TypeOK, NEW c \in Containers, NEW from, NEW result \in ContainerStates,
           NEW next \in UserSteps, NEW onError \in UserSteps,
           UserCall(c, from, result, next, onError)
    PROVE  TypeOK'
<1>1. deaths' \in 0 .. MaxDeaths /\ faults' \in 0 .. MaxFaults
    BY DockerConstants DEF TypeOK, UserCall, Fault, env
<1> QED
    BY <1>1 DEF TypeOK, UserCall, quiet, monitor, Fault, env

\* A report is a Docker event.
LEMMA ReportType ==
    ASSUME TypeOK, NEW c, NEW how \in Deaths, Report(c, how)
    PROVE  dockerEvent' \in [Monitors -> Deaths \cup {None}]
BY DEF TypeOK, Report

\* Two monitors that are not made yet are two.
LEMMA TwoFresh ==
    ASSUME Cardinality(Fresh) > 1
    PROVE  LET first  == CHOOSE m \in Fresh : TRUE
               second == CHOOSE m \in Fresh \ {first} : TRUE
           IN  first \in Fresh /\ second \in Fresh /\ first # second
<1> DEFINE first == CHOOSE m \in Fresh : TRUE
<1>1. Fresh # {}
    BY FS_EmptySet
<1>2. first \in Fresh
    BY <1>1
<1>3. Fresh # {first}
    <2>1. Cardinality({first}) = 1
        BY FS_Singleton
    <2> HIDE DEF first
    <2> QED
        BY <2>1
<1>4. Fresh \ {first} # {}
    BY <1>2, <1>3
<1> QED
    BY <1>2, <1>4

\* Every action keeps the state well typed, given what is known of the monitors.
LEMMA TypeStep == ASSUME TypeOK, Watched, Next PROVE TypeOK'
<1> USE DEF monitor, env
<1>a. {"idle", "trigger", "delay", "report"} \subseteq ActorSteps
    BY DEF ActorSteps
<1>b. \A m \in Monitors, k \in Actors : actor[m][k] # "none" => of[m] \in Containers
    BY DEF TypeOK, Watched, FreshAreIdle
<1>c. ASSUME Fault PROVE deaths' \in 0 .. MaxDeaths /\ faults' \in 0 .. MaxFaults
    BY <1>c, DockerConstants DEF TypeOK, Fault
<1>1. ASSUME Shutdown PROVE TypeOK'
    BY <1>1 DEF TypeOK, Shutdown, UserSteps
<1>2. ASSUME NEW c \in Containers,
             \/ EnsureImageExists(c) \/ CreateNetworkIfNotExists(c) \/ Create(c)
             \/ Start(c) \/ Stop(c) \/ Remove(c)
      PROVE  TypeOK'
    <2>1. {"absent", "created", "running", "exited", "gone"} \subseteq ContainerStates
          /\ container[c] \in ContainerStates
        BY DEF TypeOK, ContainerStates
    <2>2. {"network", "create", "start", "wait", "stop", "remove", "done"} \subseteq UserSteps
        BY DEF UserSteps
    <2> QED
        BY <1>2, <2>1, <2>2, UserCallType
        DEF EnsureImageExists, CreateNetworkIfNotExists, Create, Start, Stop, Remove
<1>3. ASSUME NEW c \in Containers, WaitForRunning(c) PROVE TypeOK'
    BY <1>3 DEF TypeOK, WaitForRunning, quiet, UserSteps
<1>4. ASSUME NEW c \in Containers, StartLivenessMonitoring(c) PROVE TypeOK'
    <2> DEFINE m == CHOOSE m \in Fresh : TRUE
    <2>1. m \in Monitors
        BY <1>4 DEF StartLivenessMonitoring, Fresh
    <2>2. /\ of' = [of EXCEPT ![m] = c]
          /\ registered' = [registered EXCEPT ![c] = m]
          /\ actor' = [actor EXCEPT ![m] = [k \in Actors |-> "idle"]]
        BY <1>4 DEF StartLivenessMonitoring
    <2> HIDE DEF m
    <2>3. actor' \in [Monitors -> [Actors -> ActorSteps]]
        BY <1>a, <2>1, <2>2 DEF TypeOK
    <2> QED
        BY <1>4, <2>1, <2>2, <2>3 DEF TypeOK, StartLivenessMonitoring, UserSteps
<1>5. ASSUME NEW c \in Containers, AdoptContainer(c) PROVE TypeOK'
    <2> DEFINE first  == CHOOSE m \in Fresh : TRUE
               second == CHOOSE m \in Fresh \ {first} : TRUE
    <2>1. first \in Monitors /\ second \in Monitors
        BY <1>5, TwoFresh DEF AdoptContainer, Fresh
    <2>2. /\ of' = [of EXCEPT ![first] = c, ![second] = c]
          /\ registered' = [registered EXCEPT ![c] = second]
          /\ actor' = [actor EXCEPT ![first] = [k \in Actors |-> "idle"],
                                    ![second] = [k \in Actors |-> "idle"]]
          /\ cancelled' = cancelled \cup {first} /\ closed' = closed \cup {first}
        BY <1>5 DEF AdoptContainer, StopExisting
    <2> HIDE DEF first, second
    <2>3. actor' \in [Monitors -> [Actors -> ActorSteps]]
        BY <1>a, <2>1, <2>2 DEF TypeOK
    <2> QED
        BY <1>5, <2>1, <2>2, <2>3 DEF TypeOK, AdoptContainer, UserSteps
<1>6. ASSUME NEW c \in Containers, StopLivenessMonitoring(c) PROVE TypeOK'
    <2>1. registered[c] \in Monitors
        BY <1>6 DEF TypeOK, StopLivenessMonitoring, Watched, WatchedWhileUp
    <2> QED
        BY <1>6, <2>1 DEF TypeOK, StopLivenessMonitoring, UserSteps
<1>7. ASSUME NEW c \in Containers, TriggerRestart(c) PROVE TypeOK'
    <2>1. registered[c] \in Monitors /\ "manual" \in Actors
        BY <1>7 DEF TypeOK, TriggerRestart, At
    <2>2. actor' \in [Monitors -> [Actors -> ActorSteps]]
        BY <1>7, <1>a, <2>1, GotoFacts DEF TriggerRestart
    <2> QED
        BY <1>7, <2>2 DEF TypeOK, TriggerRestart
<1>8. ASSUME NEW c \in Containers, ContainerVanishes(c) PROVE TypeOK'
    <2>1. deaths' \in 0 .. MaxDeaths
        BY <1>8, DockerConstants DEF TypeOK, ContainerVanishes
    <2> QED
        BY <1>8, <2>1 DEF TypeOK, ContainerVanishes, ContainerStates
<1>9. ASSUME NEW c \in Containers, NEW how \in Deaths, ContainerDies(c, how) PROVE TypeOK'
    <2>1. deaths' \in 0 .. MaxDeaths
        BY <1>9, DockerConstants DEF TypeOK, ContainerDies
    <2>2. dockerEvent' \in [Monitors -> Deaths \cup {None}]
        BY <1>9, ReportType DEF ContainerDies
    <2> QED
        BY <1>9, <2>1, <2>2 DEF TypeOK, ContainerDies, ContainerStates
<1>10. ASSUME NEW m \in Monitors, EventStreamBreaks(m) PROVE TypeOK'
    BY <1>10, <1>c DEF TypeOK, EventStreamBreaks
<1>11. ASSUME NEW m \in Monitors, CloseChannel(m) PROVE TypeOK'
    BY <1>11 DEF TypeOK, CloseChannel
<1>12. ASSUME NEW m \in Monitors, NEW n \in Nat, Tick(m, n), UNCHANGED env \/ Fault PROVE TypeOK'
    <2>1. failures' \in [Monitors -> 0 .. FailureThreshold - 1]
        BY <1>12, DockerConstants DEF TypeOK, Tick
    <2>2. "liveness" \in Actors
        BY <1>12 DEF Tick, At
    <2>3. actor' \in [Monitors -> [Actors -> ActorSteps]] /\ panicked' \in BOOLEAN
        BY <1>12, <2>2, SendAndRestartType DEF TypeOK, Tick, SendOrDone
    <2>4. deaths' \in 0 .. MaxDeaths /\ faults' \in 0 .. MaxFaults
        BY <1>12, <1>c DEF TypeOK
    <2> QED
        BY <1>12, <2>1, <2>3, <2>4 DEF TypeOK, Tick
<1>13. ASSUME NEW m \in Monitors, LivenessTick(m) \/ LivenessTickLate(m) PROVE TypeOK'
    <2>1. FailuresAfter(m) \in Nat /\ failures[m] + 1 \in Nat
        BY DockerConstants DEF TypeOK, FailuresAfter
    <2> QED
        BY <1>12, <1>13, <2>1 DEF LivenessTick, LivenessTickLate
<1>14. ASSUME NEW m \in Monitors, HandleDockerEvent(m) PROVE TypeOK'
    <2>1. "events" \in Actors
        BY <1>14 DEF HandleDockerEvent, At
    <2>2. actor' \in [Monitors -> [Actors -> ActorSteps]] /\ panicked' \in BOOLEAN
        <3>1. CASE dockerEvent[m] = "stopped"
            BY <1>14, <3>1 DEF TypeOK, HandleDockerEvent, SendEvent
        <3>2. CASE dockerEvent[m] # "stopped"
            BY <1>14, <2>1, <3>2, SendAndRestartType DEF HandleDockerEvent
        <3> QED
            BY <3>1, <3>2
    <2> QED
        BY <1>14, <2>2 DEF TypeOK, HandleDockerEvent
<1>15. ASSUME NEW m \in Monitors, TriggerSends(m) PROVE TypeOK'
    BY <1>15, SendAndRestartType DEF TypeOK, TriggerSends, At
<1>16. ASSUME NEW m \in Monitors, ResourceTick(m) PROVE TypeOK'
    BY <1>16, SendAndRestartType DEF TypeOK, ResourceTick, At
<1>17. ASSUME NEW m \in Monitors, NEW k \in Actors, RestartContainer(m, k) PROVE TypeOK'
    <2>1. of[m] \in Containers
        BY <1>17, <1>b DEF RestartContainer, At
    <2>2. actor' \in [Monitors -> [Actors -> ActorSteps]]
        BY <1>17, <1>a, GotoFacts DEF RestartContainer
    <2>3. panicked' \in BOOLEAN
        BY <1>17 DEF RestartContainer, SendOrDone
    <2>4. dockerEvent' \in [Monitors -> Deaths \cup {None}]
        <3>1. CASE container[of[m]] = "running"
            <4>1. PICK how \in Deaths : Report(of[m], how)
                BY <1>17, <3>1 DEF RestartContainer, Deaths
            <4> QED
                BY <4>1, ReportType
        <3>2. CASE container[of[m]] # "running"
            BY <1>17, <3>2 DEF TypeOK, RestartContainer
        <3> QED
            BY <3>1, <3>2
    <2>5. restartCount' \in [Monitors -> Nat]
        BY <1>17 DEF TypeOK, RestartContainer
    <2> QED
        BY <1>17, <2>1, <2>2, <2>3, <2>4, <2>5 DEF TypeOK, RestartContainer, ContainerStates
<1>18. ASSUME NEW m \in Monitors, NEW k \in Actors, RestartReported(m, k) PROVE TypeOK'
    BY <1>18, <1>a, GotoFacts DEF TypeOK, RestartReported, SendOrDone
<1>19. ASSUME NEW m \in Monitors, NEW k \in Actors, RestartFails(m, k) PROVE TypeOK'
    <2>1. actor' \in [Monitors -> [Actors -> ActorSteps]]
        BY <1>19, <1>a, GotoFacts DEF RestartFails
    <2>2. panicked' \in BOOLEAN
        BY <1>19 DEF RestartFails, SendOrDone
    <2>3. deaths' \in 0 .. MaxDeaths /\ faults' \in 0 .. MaxFaults
        BY <1>19, <1>c DEF TypeOK, RestartFails
    <2> QED
        BY <1>19, <2>1, <2>2, <2>3 DEF TypeOK, RestartFails
<1>20. ASSUME NEW m \in Monitors, NEW k \in Actors, ContextDone(m, k) PROVE TypeOK'
    BY <1>20, <1>a, GotoFacts DEF TypeOK, ContextDone
<1>21. ASSUME NEW c \in Containers, CallerContextEnds(c) PROVE TypeOK'
    <2>1. registered[c] \in Monitors
        BY <1>21 DEF TypeOK, CallerContextEnds, Watched, WatchedWhileUp
    <2> QED
        BY <1>21, <2>1 DEF TypeOK, CallerContextEnds
<1> QED
    BY <1>1, <1>2, <1>3, <1>4, <1>5, <1>6, <1>7, <1>8, <1>9, <1>10, <1>11, <1>13, <1>14,
       <1>15, <1>16, <1>17, <1>18, <1>19, <1>20, <1>21
    DEF Next, User, Docker, Goroutine, AttemptRestart

-----------------------------------------------------------------------------
(* Monitors *)

\* An actor that is at work belongs to a monitor that was made.
LEMMA AtWork ==
    ASSUME TypeOK, Watched, NEW m \in Monitors, NEW k \in Actors, actor[m][k] # "none"
    PROVE  of[m] \in Containers
BY DEF TypeOK, Watched, FreshAreIdle

\* The monitors and their users stay as they are: what an actor does on its own is safe
\* unless it is a caller of TriggerRestart that starts on a monitor out of the table.
LEMMA WatchedFrame ==
    ASSUME Watched, UNCHANGED <<user, registered, of, cancelled>>,
           \A m \in Monitors, k \in Actors :
              /\ actor[m][k] = "none" => actor'[m][k] = "none"
              /\ k = "manual" /\ actor[m][k] \in {"none", "idle"} /\ registered[of[m]] # m =>
                    actor'[m][k] \in {"none", "idle"}
    PROVE  Watched'
<1>1. WatchedWhileUp' /\ ActiveAreRegistered'
    BY DEF Watched, WatchedWhileUp, ActiveAreRegistered
<1>2. FreshAreIdle'
    BY DEF Watched, FreshAreIdle
<1>3. CallersOutliveNobody'
    BY DEF Watched, CallersOutliveNobody
<1> QED
    BY <1>1, <1>2, <1>3 DEF Watched

\* One actor moves that is at work already.
LEMMA WatchedGoto ==
    ASSUME TypeOK, Watched, UNCHANGED <<user, registered, of, cancelled>>,
           NEW m \in Monitors, NEW k \in Actors, NEW pc \in ActorSteps, Goto(m, k, pc),
           actor[m][k] # "none",
           k = "manual" => registered[of[m]] = m \/ actor[m][k] # "idle" \/ pc = "idle"
    PROVE  Watched'
<1>1. \A n \in Monitors, j \in Actors :
         actor'[n][j] = IF n = m /\ j = k THEN pc ELSE actor[n][j]
    BY GotoFacts
<1> QED
    BY <1>1, WatchedFrame

\* A call of the user other than the ones that start and stop the monitoring.
LEMMA WatchedCall ==
    ASSUME TypeOK, Watched, NEW c \in Containers, NEW to,
           user[c] # "up", to # "up", to \in Unwatched => user[c] \in Unwatched,
           user' = [user EXCEPT ![c] = to], UNCHANGED <<registered, of, cancelled, actor>>
    PROVE  Watched'
<1>1. WatchedWhileUp'
    BY DEF TypeOK, Watched, WatchedWhileUp
<1> QED
    BY <1>1 DEF Watched, ActiveAreRegistered, FreshAreIdle, CallersOutliveNobody

\* A first monitor is registered for a container that had none.
LEMMA WatchedStart ==
    ASSUME TypeOK, Watched, NEW c \in Containers, StartLivenessMonitoring(c)
    PROVE  Watched'
<1> DEFINE m == CHOOSE m \in Fresh : TRUE
<1>1. m \in Monitors /\ of[m] = None
    BY DEF StartLivenessMonitoring, Fresh
<1>2. /\ of' = [of EXCEPT ![m] = c]
      /\ registered' = [registered EXCEPT ![c] = m]
      /\ actor' = [actor EXCEPT ![m] = [k \in Actors |-> "idle"]]
      /\ user' = [user EXCEPT ![c] = "up"] /\ user[c] = "watch"
      /\ UNCHANGED cancelled
    BY DEF StartLivenessMonitoring
<1> HIDE DEF m
<1>3. m \notin cancelled /\ \A n \in Monitors : of[n] # c
    BY <1>1, <1>2 DEF Watched, WatchedWhileUp, FreshAreIdle, Unwatched
<1>4. registered[c] = None /\ c # None /\ m # None
    BY <1>1, <1>2, DockerConstants DEF TypeOK, Watched, WatchedWhileUp
<1>a. \A n \in Monitors : n # m => of'[n] = of[n] /\ actor'[n] = actor[n]
    BY <1>2 DEF TypeOK
<1>b. of'[m] = c /\ actor'[m] = [k \in Actors |-> "idle"]
    BY <1>1, <1>2 DEF TypeOK
<1>c. \A d \in Containers : d # c => registered'[d] = registered[d] /\ user'[d] = user[d]
    BY <1>2 DEF TypeOK
<1>d. registered'[c] = m /\ user'[c] = "up"
    BY <1>2 DEF TypeOK
<1>e. \A d \in Containers : registered[d] # None => registered[d] \in Monitors \ {m}
    BY <1>1, DockerConstants DEF TypeOK, Watched, WatchedWhileUp
<1>5. WatchedWhileUp'
    <2> SUFFICES ASSUME NEW d \in Containers
                 PROVE  /\ user'[d] \in Unwatched => \A n \in Monitors : of'[n] # d
                        /\ registered'[d] # None <=> user'[d] = "up"
                        /\ registered'[d] # None => of'[registered'[d]] = d
        BY <1>2 DEF WatchedWhileUp
    <2>1. CASE d = c
        BY <2>1, <1>b, <1>d, <1>3, <1>4 DEF Unwatched
    <2>2. CASE d # c
        BY <2>2, <1>a, <1>b, <1>c, <1>e DEF Watched, WatchedWhileUp
    <2> QED
        BY <2>1, <2>2
<1>6. ActiveAreRegistered'
    <2> SUFFICES ASSUME NEW n \in Monitors, of'[n] # None, n \notin cancelled
                 PROVE  registered'[of'[n]] = n
        BY <1>2 DEF ActiveAreRegistered
    <2>1. CASE n = m
        BY <2>1, <1>b, <1>d
    <2>2. CASE n # m
        BY <2>2, <1>3, <1>a, <1>c DEF TypeOK, Watched, ActiveAreRegistered
    <2> QED
        BY <2>1, <2>2
<1>7. FreshAreIdle'
    BY <1>2, <1>4, <1>a, <1>b DEF Watched, FreshAreIdle
<1>8. CallersOutliveNobody'
    <2> SUFFICES ASSUME NEW n \in Monitors, "manual" \in Actors,
                        actor'[n]["manual"] \notin {"none", "idle"}
                 PROVE  registered'[of'[n]] \in {n, None}
        BY <1>2 DEF CallersOutliveNobody
    <2>1. CASE n = m
        BY <2>1, <1>b
    <2>2. CASE n # m
        <3>1. of[n] \in Containers /\ of[n] # c /\ registered[of[n]] \in {n, None}
            BY <2>2, <1>a, <1>3, AtWork DEF Watched, CallersOutliveNobody
        <3> QED
            BY <2>2, <3>1, <1>a, <1>c
    <2> QED
        BY <2>1, <2>2
<1> QED
    BY <1>5, <1>6, <1>7, <1>8 DEF Watched

\* AdoptContainer registers the second monitor, and the first is cancelled at once.
LEMMA WatchedAdopt ==
    ASSUME TypeOK, Watched, NEW c \in Containers, AdoptContainer(c)
    PROVE  Watched'
<1> DEFINE first  == CHOOSE m \in Fresh : TRUE
           second == CHOOSE m \in Fresh \ {first} : TRUE
<1>0. first \in Fresh /\ second \in Fresh /\ first # second
    BY TwoFresh DEF AdoptContainer
<1>1. /\ first \in Monitors /\ second \in Monitors /\ first # second
      /\ of[first] = None /\ of[second] = None
    BY <1>0 DEF Fresh
<1>2. /\ of' = [of EXCEPT ![first] = c, ![second] = c]
      /\ registered' = [registered EXCEPT ![c] = second]
      /\ actor' = [actor EXCEPT ![first] = [k \in Actors |-> "idle"],
                                ![second] = [k \in Actors |-> "idle"]]
      /\ user' = [user EXCEPT ![c] = "up"] /\ user[c] = "none"
      /\ cancelled' = cancelled \cup {first}
    BY DEF AdoptContainer, StopExisting
<1> HIDE DEF first, second
<1>3. second \notin cancelled' /\ \A n \in Monitors : of[n] # c
    BY <1>1, <1>2 DEF Watched, WatchedWhileUp, FreshAreIdle, Unwatched
<1>4. registered[c] = None /\ c # None /\ second # None
    BY <1>1, <1>2, DockerConstants DEF TypeOK, Watched, WatchedWhileUp
<1>a. \A n \in Monitors : n \notin {first, second} =>
         of'[n] = of[n] /\ actor'[n] = actor[n] /\ (n \in cancelled' <=> n \in cancelled)
    BY <1>2 DEF TypeOK
<1>b. \A n \in {first, second} : of'[n] = c /\ actor'[n] = [k \in Actors |-> "idle"]
    BY <1>1, <1>2 DEF TypeOK
<1>c. \A d \in Containers : d # c => registered'[d] = registered[d] /\ user'[d] = user[d]
    BY <1>2 DEF TypeOK
<1>d. registered'[c] = second /\ user'[c] = "up"
    BY <1>2 DEF TypeOK
<1>e. \A d \in Containers : registered[d] # None => registered[d] \in Monitors \ {first, second}
    BY <1>1, DockerConstants DEF TypeOK, Watched, WatchedWhileUp
<1>5. WatchedWhileUp'
    <2> SUFFICES ASSUME NEW d \in Containers
                 PROVE  /\ user'[d] \in Unwatched => \A n \in Monitors : of'[n] # d
                        /\ registered'[d] # None <=> user'[d] = "up"
                        /\ registered'[d] # None => of'[registered'[d]] = d
        BY DEF WatchedWhileUp
    <2>1. CASE d = c
        BY <2>1, <1>b, <1>d, <1>3, <1>4 DEF Unwatched
    <2>2. CASE d # c
        BY <2>2, <1>a, <1>b, <1>c, <1>e DEF Watched, WatchedWhileUp
    <2> QED
        BY <2>1, <2>2
<1>6. ActiveAreRegistered'
    <2> SUFFICES ASSUME NEW n \in Monitors, of'[n] # None, n \notin cancelled'
                 PROVE  registered'[of'[n]] = n
        BY DEF ActiveAreRegistered
    <2>1. CASE n = second
        BY <2>1, <1>b, <1>d
    <2>2. CASE n \notin {first, second}
        BY <2>2, <1>3, <1>a, <1>c DEF TypeOK, Watched, ActiveAreRegistered
    <2> QED
        BY <2>1, <2>2, <1>2
<1>7. FreshAreIdle'
    BY <1>4, <1>a, <1>b DEF Watched, FreshAreIdle
<1>8. CallersOutliveNobody'
    <2> SUFFICES ASSUME NEW n \in Monitors, "manual" \in Actors,
                        actor'[n]["manual"] \notin {"none", "idle"}
                 PROVE  registered'[of'[n]] \in {n, None}
        BY DEF CallersOutliveNobody
    <2>1. n \notin {first, second}
        BY <1>b
    <2>2. of[n] \in Containers /\ of[n] # c /\ registered[of[n]] \in {n, None}
        BY <2>1, <1>a, <1>3, AtWork DEF Watched, CallersOutliveNobody
    <2> QED
        BY <2>1, <2>2, <1>a, <1>c
<1> QED
    BY <1>5, <1>6, <1>7, <1>8 DEF Watched

\* A monitor that is stopped is cancelled with its registration, for good.
LEMMA WatchedStop ==
    ASSUME TypeOK, Watched, NEW c \in Containers, StopLivenessMonitoring(c)
    PROVE  Watched'
<1> USE DEF StopLivenessMonitoring
<1>1. registered[c] \in Monitors /\ of[registered[c]] = c
    BY DEF TypeOK, Watched, WatchedWhileUp
<1>2. \A d \in Containers : d # c => registered'[d] = registered[d] /\ user'[d] = user[d]
    BY DEF TypeOK
<1>3. registered'[c] = None /\ user'[c] = "stop"
    BY DEF TypeOK
<1>4. WatchedWhileUp'
    <2> SUFFICES ASSUME NEW d \in Containers
                 PROVE  /\ user'[d] \in Unwatched => \A n \in Monitors : of[n] # d
                        /\ registered'[d] # None <=> user'[d] = "up"
                        /\ registered'[d] # None => of[registered'[d]] = d
        BY DEF WatchedWhileUp
    <2>1. CASE d = c
        BY <2>1, <1>3 DEF Unwatched
    <2>2. CASE d # c
        BY <2>2, <1>1, <1>2 DEF Watched, WatchedWhileUp
    <2> QED
        BY <2>1, <2>2
<1>5. ActiveAreRegistered'
    BY <1>1, <1>2 DEF TypeOK, Watched, ActiveAreRegistered
<1>6. FreshAreIdle'
    BY <1>1, DockerConstants DEF Watched, FreshAreIdle
<1>7. CallersOutliveNobody'
    <2> SUFFICES ASSUME NEW n \in Monitors, "manual" \in Actors,
                        actor[n]["manual"] \notin {"none", "idle"}
                 PROVE  registered'[of[n]] \in {n, None}
        BY DEF CallersOutliveNobody
    <2>1. of[n] \in Containers
        BY AtWork
    <2>2. CASE of[n] = c
        BY <2>2, <1>3
    <2>3. CASE of[n] # c
        BY <2>1, <2>3, <1>1, <1>2 DEF Watched, CallersOutliveNobody
    <2> QED
        BY <2>2, <2>3
<1> QED
    BY <1>4, <1>5, <1>6, <1>7 DEF Watched

\* The manager's Shutdown cancels every registered monitor.
LEMMA WatchedShutdown == ASSUME TypeOK, Watched, Shutdown PROVE Watched'
<1> DEFINE live == {registered[c] : c \in Containers} \ {None}
<1>1. /\ cancelled' = cancelled \cup live /\ UNCHANGED <<of, actor>>
      /\ registered' = [c \in Containers |-> None] /\ user' = [c \in Containers |-> "done"]
    BY DEF Shutdown
<1>2. \A m \in live : of[m] \in Containers
    BY DEF Watched, WatchedWhileUp
<1>3. \A m \in Monitors : of[m] \in Containers /\ m \notin cancelled => m \in live
    BY DockerConstants DEF Watched, ActiveAreRegistered
<1> HIDE DEF live
<1>4. WatchedWhileUp'
    BY <1>1 DEF WatchedWhileUp, Unwatched
<1>5. ActiveAreRegistered'
    BY <1>1, <1>3 DEF TypeOK, ActiveAreRegistered
<1>6. FreshAreIdle'
    BY <1>1, <1>2, DockerConstants DEF Watched, FreshAreIdle
<1>7. CallersOutliveNobody'
    <2> SUFFICES ASSUME NEW n \in Monitors, "manual" \in Actors,
                        actor[n]["manual"] \notin {"none", "idle"}
                 PROVE  registered'[of[n]] \in {n, None}
        BY <1>1 DEF CallersOutliveNobody
    <2>1. of[n] \in Containers
        BY AtWork
    <2> QED
        BY <2>1, <1>1
<1> QED
    BY <1>4, <1>5, <1>6, <1>7 DEF Watched

\* An actor that reports and asks for a restart.
LEMMA WatchedSend ==
    ASSUME TypeOK, Watched, UNCHANGED <<user, registered, of, cancelled>>,
           NEW m \in Monitors, NEW k \in Actors, SendAndRestart(m, k),
           actor[m][k] # "none", k = "manual" => actor[m][k] = "trigger"
    PROVE  Watched'
<1>1. PICK pc \in ActorSteps : Goto(m, k, pc)
    BY DEF SendAndRestart, ActorSteps
<1> QED
    BY <1>1, WatchedGoto

\* Every action keeps the monitors and their registrations in step.
LEMMA WatchedStep == ASSUME TypeOK, Watched, Next PROVE Watched'
<1> USE DEF monitor
<1>a. {"idle", "trigger", "delay", "report"} \subseteq ActorSteps
    BY DEF ActorSteps
<1>1. ASSUME Shutdown PROVE Watched'
    BY <1>1, WatchedShutdown
<1>2. ASSUME NEW c \in Containers,
             \/ EnsureImageExists(c) \/ CreateNetworkIfNotExists(c) \/ Create(c)
             \/ Start(c) \/ Stop(c) \/ Remove(c) \/ WaitForRunning(c)
      PROVE  Watched'
    BY <1>2, WatchedCall
    DEF EnsureImageExists, CreateNetworkIfNotExists, Create, Start, Stop, Remove,
        WaitForRunning, UserCall, quiet, Unwatched
<1>3. ASSUME NEW c \in Containers,
             StartLivenessMonitoring(c) \/ AdoptContainer(c) \/ StopLivenessMonitoring(c)
      PROVE  Watched'
    BY <1>3, WatchedStart, WatchedAdopt, WatchedStop
<1>4. ASSUME NEW c \in Containers, TriggerRestart(c) PROVE Watched'
    <2>1. registered[c] \in Monitors /\ of[registered[c]] = c /\ "manual" \in Actors
        BY <1>4 DEF TypeOK, TriggerRestart, At, Watched, WatchedWhileUp
    <2> QED
        BY <1>4, <1>a, <2>1, WatchedGoto DEF TriggerRestart, At
<1>5. ASSUME NEW c \in Containers, ContainerVanishes(c) \/ \E how \in Deaths : ContainerDies(c, how)
      PROVE  Watched'
    BY <1>5, WatchedFrame DEF ContainerVanishes, ContainerDies
<1>6. ASSUME NEW m \in Monitors, EventStreamBreaks(m) \/ CloseChannel(m) PROVE Watched'
    BY <1>6, WatchedFrame DEF EventStreamBreaks, CloseChannel
<1>7. ASSUME NEW m \in Monitors, NEW n, Tick(m, n) PROVE Watched'
    <2>1. CASE UNCHANGED actor
        BY <1>7, <2>1, WatchedFrame DEF Tick
    <2>2. CASE SendAndRestart(m, "liveness")
        BY <1>7, <2>2, WatchedSend DEF Tick, At
    <2> QED
        BY <1>7, <2>1, <2>2 DEF Tick
<1>8. ASSUME NEW m \in Monitors, LivenessTick(m) \/ LivenessTickLate(m) PROVE Watched'
    BY <1>7, <1>8 DEF LivenessTick, LivenessTickLate
<1>9. ASSUME NEW m \in Monitors, HandleDockerEvent(m) PROVE Watched'
    <2>1. CASE UNCHANGED actor
        BY <1>9, <2>1, WatchedFrame DEF HandleDockerEvent
    <2>2. CASE SendAndRestart(m, "events")
        BY <1>9, <2>2, WatchedSend DEF HandleDockerEvent, At
    <2> QED
        BY <1>9, <2>1, <2>2 DEF HandleDockerEvent
<1>10. ASSUME NEW m \in Monitors, TriggerSends(m) \/ ResourceTick(m) PROVE Watched'
    BY <1>10, WatchedSend DEF TriggerSends, ResourceTick, At
<1>11. ASSUME NEW m \in Monitors, NEW k \in Actors, AttemptRestart(m, k) PROVE Watched'
    BY <1>11, <1>a, WatchedGoto
    DEF AttemptRestart, RestartContainer, RestartReported, RestartFails, At
<1>12. ASSUME NEW m \in Monitors, NEW k \in Actors, ContextDone(m, k) PROVE Watched'
    BY <1>12, <1>a, WatchedGoto DEF ContextDone, At
<1>13. ASSUME NEW c \in Containers, CallerContextEnds(c) PROVE Watched'
    <2>1. of[registered[c]] = c /\ registered[c] \in Monitors /\ c # None
        BY <1>13, DockerConstants DEF TypeOK, CallerContextEnds, Watched, WatchedWhileUp
    <2> QED
        BY <1>13, <2>1
        DEF CallerContextEnds, Watched, WatchedWhileUp, ActiveAreRegistered, FreshAreIdle,
            CallersOutliveNobody
<1> QED
    BY <1>1, <1>2, <1>3, <1>4, <1>5, <1>6, <1>8, <1>9, <1>10, <1>11, <1>12, <1>13
    DEF Next, User, Docker, Goroutine

-----------------------------------------------------------------------------
(* Restarts *)

\* A monitor has finitely many actors, and a set of them is no larger than all.
LEMMA ActorsFinite ==
    ASSUME NEW S \in SUBSET Actors
    PROVE  /\ IsFiniteSet(S) /\ Cardinality(S) \in Nat /\ Cardinality(Actors) \in Nat
           /\ Cardinality(S) <= Cardinality(Actors)
<1> DEFINE F0 == {}
           F1 == F0 \cup {"liveness"}
           F2 == F1 \cup {"events"}
           F3 == F2 \cup {"resources"}
           F4 == F3 \cup {"manual"}
<1>1. IsFiniteSet(F4)
    <2>0. IsFiniteSet(F0)
        BY FS_EmptySet
    <2>1. IsFiniteSet(F1)
        BY <2>0, FS_AddElement
    <2>2. IsFiniteSet(F2)
        BY <2>1, FS_AddElement
    <2>3. IsFiniteSet(F3)
        BY <2>2, FS_AddElement
    <2> QED
        BY <2>3, FS_AddElement
<1>2. Actors \subseteq F4
    BY DockerConstants
<1> HIDE DEF F4
<1>3. IsFiniteSet(Actors)
    BY <1>1, <1>2, FS_Subset
<1>4. IsFiniteSet(S) /\ Cardinality(S) <= Cardinality(Actors)
    BY <1>3, FS_Subset
<1> QED
    BY <1>3, <1>4, FS_CardinalityType

\* No restart, and no actor that passes the test: the budget is kept.
LEMMA BudgetFrame ==
    ASSUME TypeOK, WithinBudget, UNCHANGED restartCount,
           \A m \in Monitors, k \in Actors : actor'[m][k] = "delay" => actor[m][k] = "delay"
    PROVE  WithinBudget'
<1> SUFFICES ASSUME MaxRestarts > 0, NEW m \in Monitors
             PROVE  restartCount[m] + Cardinality(InDelay(m)') < MaxRestarts + Cardinality(Actors)
    BY DEF WithinBudget
<1>1. InDelay(m)' \subseteq InDelay(m) /\ InDelay(m) \in SUBSET Actors /\ InDelay(m)' \in SUBSET Actors
    BY DEF InDelay
<1>2. IsFiniteSet(InDelay(m)) /\ Cardinality(InDelay(m)) \in Nat
    BY <1>1, ActorsFinite
<1>3. Cardinality(InDelay(m)') \in Nat /\ Cardinality(Actors) \in Nat
    BY <1>1, ActorsFinite
<1>4. Cardinality(InDelay(m)') <= Cardinality(InDelay(m))
    BY <1>1, <1>2, FS_Subset
<1>5. restartCount[m] \in Nat /\ MaxRestarts \in Nat
    BY DockerConstants DEF TypeOK
<1>6. restartCount[m] + Cardinality(InDelay(m)) < MaxRestarts + Cardinality(Actors)
    BY DEF WithinBudget
<1> QED
    BY <1>2, <1>3, <1>4, <1>5, <1>6

\* An actor passes the test only below the limit, which leaves room for all of them.
LEMMA BudgetSend ==
    ASSUME TypeOK, WithinBudget, NEW m \in Monitors, NEW k \in Actors, SendAndRestart(m, k),
           UNCHANGED restartCount
    PROVE  WithinBudget'
<1>a. {"idle", "delay"} \subseteq ActorSteps
    BY DEF ActorSteps
<1>1. CASE LimitReached(m)
    <2>1. Goto(m, k, "idle")
        BY <1>1 DEF SendAndRestart
    <2>2. \A n \in Monitors, j \in Actors :
             actor'[n][j] = IF n = m /\ j = k THEN "idle" ELSE actor[n][j]
        BY <1>a, <2>1, GotoFacts
    <2> QED
        BY <2>2, BudgetFrame
<1>2. CASE ~LimitReached(m)
    <2>1. Goto(m, k, "delay")
        BY <1>2 DEF SendAndRestart
    <2>2. \A n \in Monitors, j \in Actors :
             actor'[n][j] = IF n = m /\ j = k THEN "delay" ELSE actor[n][j]
        BY <1>a, <2>1, GotoFacts
    <2> SUFFICES ASSUME MaxRestarts > 0, NEW n \in Monitors
                 PROVE  restartCount[n] + Cardinality(InDelay(n)') < MaxRestarts + Cardinality(Actors)
        BY DEF WithinBudget
    <2>3. CASE n # m
        <3>1. InDelay(n)' = InDelay(n)
            BY <2>2, <2>3 DEF InDelay
        <3> QED
            BY <3>1 DEF WithinBudget
    <2>4. CASE n = m
        <3>1. InDelay(n)' \in SUBSET Actors
            BY DEF InDelay
        <3>2. Cardinality(InDelay(n)') \in Nat /\ Cardinality(Actors) \in Nat
              /\ Cardinality(InDelay(n)') <= Cardinality(Actors)
            BY <3>1, ActorsFinite
        <3>3. restartCount[n] \in Nat /\ MaxRestarts \in Nat
            BY DockerConstants DEF TypeOK
        <3>4. restartCount[n] < MaxRestarts
            BY <1>2, <2>4, <3>3 DEF LimitReached
        <3> QED
            BY <3>2, <3>3, <3>4
    <2> QED
        BY <2>3, <2>4
<1> QED
    BY <1>1, <1>2

\* A restart counts for the monitor whose actor leaves its delay for it, or for none: only
\* a caller of TriggerRestart gets this far on a cancelled monitor, and no other follows it.
LEMMA BudgetRestart ==
    ASSUME TypeOK, Watched, WithinBudget, NEW m \in Monitors, NEW k \in Actors,
           RestartContainer(m, k)
    PROVE  WithinBudget'
<1>a. {"idle", "report"} \subseteq ActorSteps
    BY DEF ActorSteps
<1>1. \A n \in Monitors, j \in Actors :
         actor'[n][j] = IF n = m /\ j = k THEN "report" ELSE actor[n][j]
    BY <1>a, GotoFacts DEF RestartContainer
<1>2. actor[m][k] = "delay" /\ of[m] \in Containers
    BY AtWork DEF RestartContainer, At
<1>3. registered[of[m]] \in {m, None}
    <2>1. CASE k = "manual"
        BY <2>1, <1>2 DEF Watched, CallersOutliveNobody
    <2>2. CASE k # "manual"
        BY <2>2, <1>2, DockerConstants DEF RestartContainer, Watched, ActiveAreRegistered
    <2> QED
        BY <2>1, <2>2
<1>4. \A n \in Monitors : restartCount'[n] \in {restartCount[n], restartCount[n] + 1}
    BY DEF RestartContainer
<1>5. \A n \in Monitors : n # m => restartCount'[n] = restartCount[n]
    BY <1>3, DockerConstants DEF RestartContainer
<1> SUFFICES ASSUME MaxRestarts > 0, NEW n \in Monitors
             PROVE  restartCount'[n] + Cardinality(InDelay(n)') < MaxRestarts + Cardinality(Actors)
    BY DEF WithinBudget
<1>6. CASE n # m
    <2>1. InDelay(n)' = InDelay(n)
        BY <1>1, <1>6 DEF InDelay
    <2> QED
        BY <2>1, <1>5, <1>6 DEF WithinBudget
<1>7. CASE n = m
    <2>1. InDelay(m)' = InDelay(m) \ {k} /\ k \in InDelay(m)
        BY <1>1, <1>2 DEF InDelay
    <2>2. InDelay(m) \in SUBSET Actors
        BY DEF InDelay
    <2>3. IsFiniteSet(InDelay(m)) /\ Cardinality(InDelay(m)) \in Nat /\ Cardinality(Actors) \in Nat
        BY <2>2, ActorsFinite
    <2>4. Cardinality(InDelay(m)') = Cardinality(InDelay(m)) - 1
        BY <2>1, <2>3, FS_RemoveElement
    <2>5. restartCount[m] \in Nat /\ MaxRestarts \in Nat
        BY DockerConstants DEF TypeOK
    <2>6. restartCount[m] + Cardinality(InDelay(m)) < MaxRestarts + Cardinality(Actors)
        BY DEF WithinBudget
    <2>7. restartCount'[m] \in {restartCount[m], restartCount[m] + 1}
        BY <1>4
    <2> HIDE DEF InDelay
    <2> QED
        BY <1>7, <2>3, <2>4, <2>5, <2>6, <2>7
<1> QED
    BY <1>6, <1>7

\* An actor that moves without passing the test, and without a restart.
LEMMA BudgetGoto ==
    ASSUME TypeOK, WithinBudget, NEW m \in Monitors, NEW k \in Actors,
           NEW pc \in ActorSteps \ {"delay"}, Goto(m, k, pc), UNCHANGED restartCount
    PROVE  WithinBudget'
<1>1. \A n \in Monitors, j \in Actors :
         actor'[n][j] = IF n = m /\ j = k THEN pc ELSE actor[n][j]
    BY GotoFacts
<1> QED
    BY <1>1, BudgetFrame

\* Every action keeps the restarts within the budget.
LEMMA BudgetStep == ASSUME TypeOK, Watched, WithinBudget, Next PROVE WithinBudget'
<1> USE DEF monitor
<1>a. {"idle", "trigger", "report"} \subseteq ActorSteps \ {"delay"}
    BY DEF ActorSteps
<1>1. ASSUME UNCHANGED <<restartCount, actor>> PROVE WithinBudget'
    BY <1>1, BudgetFrame
<1>2. ASSUME Shutdown PROVE WithinBudget'
    BY <1>1, <1>2 DEF Shutdown
<1>3. ASSUME NEW c \in Containers,
             \/ EnsureImageExists(c) \/ CreateNetworkIfNotExists(c) \/ Create(c)
             \/ Start(c) \/ Stop(c) \/ Remove(c) \/ WaitForRunning(c) \/ StopLivenessMonitoring(c)
             \/ CallerContextEnds(c)
      PROVE  WithinBudget'
    BY <1>1, <1>3
    DEF EnsureImageExists, CreateNetworkIfNotExists, Create, Start, Stop, Remove,
        WaitForRunning, UserCall, quiet, StopLivenessMonitoring, CallerContextEnds
<1>4. ASSUME NEW c \in Containers, StartLivenessMonitoring(c) PROVE WithinBudget'
    <2> DEFINE m == CHOOSE m \in Fresh : TRUE
    <2>1. m \in Monitors /\ actor' = [actor EXCEPT ![m] = [k \in Actors |-> "idle"]]
        BY <1>4 DEF StartLivenessMonitoring, Fresh
    <2> HIDE DEF m
    <2>2. \A n \in Monitors, k \in Actors : actor'[n][k] = "delay" => actor[n][k] = "delay"
        BY <2>1 DEF TypeOK
    <2> QED
        BY <1>4, <2>2, BudgetFrame DEF StartLivenessMonitoring
<1>5. ASSUME NEW c \in Containers, AdoptContainer(c) PROVE WithinBudget'
    <2> DEFINE first  == CHOOSE m \in Fresh : TRUE
               second == CHOOSE m \in Fresh \ {first} : TRUE
    <2>1. /\ first \in Monitors /\ second \in Monitors
          /\ actor' = [actor EXCEPT ![first] = [k \in Actors |-> "idle"],
                                    ![second] = [k \in Actors |-> "idle"]]
        BY <1>5, TwoFresh DEF AdoptContainer, Fresh
    <2> HIDE DEF first, second
    <2>2. \A n \in Monitors, k \in Actors : actor'[n][k] = "delay" => actor[n][k] = "delay"
        BY <2>1 DEF TypeOK
    <2> QED
        BY <1>5, <2>2, BudgetFrame DEF AdoptContainer
<1>6. ASSUME NEW c \in Containers, TriggerRestart(c) PROVE WithinBudget'
    <2>1. registered[c] \in Monitors /\ "manual" \in Actors
        BY <1>6 DEF TypeOK, TriggerRestart, At
    <2> QED
        BY <1>6, <1>a, <2>1, BudgetGoto DEF TriggerRestart
<1>7. ASSUME NEW c \in Containers, ContainerVanishes(c) \/ \E how \in Deaths : ContainerDies(c, how)
      PROVE  WithinBudget'
    BY <1>1, <1>7 DEF ContainerVanishes, ContainerDies
<1>8. ASSUME NEW m \in Monitors, EventStreamBreaks(m) \/ CloseChannel(m) PROVE WithinBudget'
    BY <1>1, <1>8 DEF EventStreamBreaks, CloseChannel
<1>9. ASSUME NEW m \in Monitors, NEW n, Tick(m, n) PROVE WithinBudget'
    <2>1. CASE UNCHANGED actor
        BY <1>1, <1>9, <2>1 DEF Tick
    <2>2. CASE SendAndRestart(m, "liveness")
        BY <1>9, <2>2, BudgetSend DEF Tick, At
    <2> QED
        BY <1>9, <2>1, <2>2 DEF Tick
<1>10. ASSUME NEW m \in Monitors, LivenessTick(m) \/ LivenessTickLate(m) PROVE WithinBudget'
    BY <1>9, <1>10 DEF LivenessTick, LivenessTickLate
<1>11. ASSUME NEW m \in Monitors, HandleDockerEvent(m) PROVE WithinBudget'
    <2>1. CASE UNCHANGED actor
        BY <1>1, <1>11, <2>1 DEF HandleDockerEvent
    <2>2. CASE SendAndRestart(m, "events")
        BY <1>11, <2>2, BudgetSend DEF HandleDockerEvent, At
    <2> QED
        BY <1>11, <2>1, <2>2 DEF HandleDockerEvent
<1>12. ASSUME NEW m \in Monitors, TriggerSends(m) \/ ResourceTick(m) PROVE WithinBudget'
    BY <1>12, BudgetSend DEF TriggerSends, ResourceTick, At
<1>13. ASSUME NEW m \in Monitors, NEW k \in Actors, RestartContainer(m, k) PROVE WithinBudget'
    BY <1>13, BudgetRestart
<1>14. ASSUME NEW m \in Monitors, NEW k \in Actors,
              RestartReported(m, k) \/ RestartFails(m, k) \/ ContextDone(m, k)
       PROVE  WithinBudget'
    BY <1>14, <1>a, BudgetGoto DEF RestartReported, RestartFails, ContextDone
<1> QED
    BY <1>2, <1>3, <1>4, <1>5, <1>6, <1>7, <1>8, <1>10, <1>11, <1>12, <1>13, <1>14
    DEF Next, User, Docker, Goroutine, AttemptRestart

-----------------------------------------------------------------------------
(* The invariant *)

\* Before the first container is created or adopted there is no monitor.
LEMMA InitIInv == Init => IInv
<1> SUFFICES ASSUME Init PROVE IInv
    OBVIOUS
<1> USE DEF Init
<1>1. TypeOK
    <2>1. 0 \in 0 .. FailureThreshold - 1 /\ deaths \in 0 .. MaxDeaths /\ faults \in 0 .. MaxFaults
        BY DockerConstants
    <2>2. container \in [Containers -> ContainerStates] /\ user \in [Containers -> UserSteps]
        BY DEF ContainerStates, UserSteps
    <2>3. actor \in [Monitors -> [Actors -> ActorSteps]]
        BY DEF ActorSteps
    <2> QED
        BY <2>1, <2>2, <2>3 DEF TypeOK
<1>2. Watched
    BY DockerConstants DEF Watched, WatchedWhileUp, ActiveAreRegistered, FreshAreIdle,
                           CallersOutliveNobody
<1>3. WithinBudget
    <2> SUFFICES ASSUME MaxRestarts > 0, NEW m \in Monitors
                 PROVE  restartCount[m] + Cardinality(InDelay(m)) < MaxRestarts + Cardinality(Actors)
        BY DEF WithinBudget
    <2>1. InDelay(m) \in SUBSET Actors
        BY DEF InDelay
    <2>2. Cardinality(InDelay(m)) \in Nat /\ Cardinality(Actors) \in Nat
          /\ Cardinality(InDelay(m)) <= Cardinality(Actors)
        BY <2>1, ActorsFinite
    <2>3. MaxRestarts \in Nat /\ restartCount[m] = 0
        BY DockerConstants
    <2> QED
        BY <2>2, <2>3
<1> QED
    BY <1>1, <1>2, <1>3 DEF IInv

\* Every step, and every stutter, keeps the invariant.
LEMMA StepIInv == IInv /\ [Next]_vars => IInv'
<1> SUFFICES ASSUME IInv, [Next]_vars PROVE IInv'
    OBVIOUS
<1>1. CASE Next
    BY <1>1, TypeStep, WatchedStep, BudgetStep DEF IInv
<1>2. CASE UNCHANGED vars
    <2>1. TypeOK'
        BY <1>2 DEF vars, monitor, env, IInv, TypeOK
    <2> QED
        BY <1>2, <2>1, WatchedFrame, BudgetFrame DEF vars, monitor, IInv
<1> QED
    BY <1>1, <1>2

\* The invariant holds in every state that the manager and its monitors reach.
THEOREM IInvInvariant == Spec => []IInv
BY InitIInv, StepIInv, PTL DEF Spec

\* A container is never watched by two live monitors, whatever AdoptContainer,
\* StartLivenessMonitoring, StopLivenessMonitoring and Shutdown do to the table.
THEOREM OneWatcherTheorem == Spec => []OneWatcher
<1>1. IInv => OneWatcher
    BY DEF IInv, OneWatcher, Watched, ActiveAreRegistered
<1> QED
    BY <1>1, IInvInvariant, PTL

\* The unlocked test of MaxRestarts can be passed by the actors of a monitor together, by
\* no more than one restart of each but one, however often restarts look like crashes.
THEOREM RestartsBoundedTheorem == Spec => []RestartsBounded
<1>1. IInv => RestartsBounded
    <2> SUFFICES ASSUME IInv, MaxRestarts > 0, NEW m \in Monitors
                 PROVE  restartCount[m] < MaxRestarts + Cardinality(Actors)
        BY DEF RestartsBounded
    <2>1. InDelay(m) \in SUBSET Actors
        BY DEF InDelay
    <2>2. Cardinality(InDelay(m)) \in Nat /\ Cardinality(Actors) \in Nat
        BY <2>1, ActorsFinite
    <2>3. restartCount[m] \in Nat /\ MaxRestarts \in Nat
        BY DockerConstants DEF IInv, TypeOK
    <2>4. restartCount[m] + Cardinality(InDelay(m)) < MaxRestarts + Cardinality(Actors)
        BY DEF IInv, WithinBudget
    <2> QED
        BY <2>2, <2>3, <2>4
<1> QED
    BY <1>1, IInvInvariant, PTL
=============================================================================
