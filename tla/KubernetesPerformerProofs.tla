--------------------- MODULE KubernetesPerformerProofs ---------------------
(***************************************************************************)
(* Proofs about KubernetesPerformer, for any performers, callers, tasks    *)
(* and bounds.                                                             *)
(***************************************************************************)
EXTENDS KubernetesPerformer, FiniteSetTheorems, TLAPS

\* The step a caller can be at, by its operation, and whether it names a performer there.
CallFits(k) ==
    \/ k.op = "none" /\ k.at = "idle" /\ k.p = None
    \/ k.op = "deploy" /\ k.at \in {"begin", "lock", "create"} /\ k.p = None
    \/ /\ k.op = "deploy" /\ k.at \in {"waiting", "monitoring", "promote", "switch", "cleanup"}
       /\ k.p \in Performers
    \/ k.op = "remove" /\ k.at = "lock" /\ k.p \in Performers
    \/ k.op = "list" /\ k.at = "lock" /\ k.p = None
    \/ k.op = "shutdown" /\ k.at \in {"lock", "current", "next", "clearNext", "stopped"} /\ k.p = None
    \/ k.op = "shutdown" /\ k.at \in {"wait", "delete", "clear"} /\ k.p \in Performers
    \/ k.op = "initialize" /\ k.at = "create" /\ k.p = None
    \/ k.op = "initialize" /\ k.at = "waiting" /\ k.p \in Performers

\* The steps that hold performerResourcesMu.
LockedSteps ==
    {"create", "waiting", "switch", "current", "wait", "delete", "clear", "next", "clearNext"}

\* What the holder of the lock relies on: nobody changes the slots meanwhile.
HolderFits(k) ==
    /\ k.at \in {"create", "waiting"} => next = None
    /\ k.at \in {"create", "waiting"} /\ k.op = "initialize" => current = Unset
    /\ k.op = "shutdown" /\ k.at = "current" => current # Unset
    /\ k.at \in {"wait", "delete", "clear"} => current = k.p
    /\ k.at = "switch" => next = k.p

CallsFit ==
    \A c \in Callers :
        /\ CallFits(call[c])
        /\ call[c].at \in LockedSteps => performerMu = c
        /\ HolderFits(call[c])

\* A performer that no task and no drain knows.
Unused(p) ==
    /\ lifecycle[p] = "none" /\ drain[p] = "none"
    /\ \A t \in Tasks : task[t].p # p

Waiting(p) == \E c \in Callers : call[c].at = "waiting" /\ call[c].p = p

\* The holder of the lock has marked the current performer; is between the mark and the
\* switch of a promotion; has deleted a performer that it has yet to take from its slot.
Marking      == \E c \in Callers : call[c].at \in {"wait", "delete", "clear", "switch"}
Switching    == \E c \in Callers : call[c].at = "switch"
Clearing     == \E c \in Callers : call[c].at = "clear"
ClearingNext == \E c \in Callers : call[c].at = "clearNext"

\* A performer is absent, waited for, in the next slot, in the current one or draining,
\* in this order; in two of them at once, or in a slot without its resource, only while
\* the holder of the lock is about to clear the slot.
PlaceFits(p) ==
    /\ crd[p] = "absent" => Unused(p) /\ p \notin {current, next} /\ ~Waiting(p)
    /\ Waiting(p) => Unused(p) /\ p \notin {current, next} /\ Exists(p)
    /\ next = p => Unused(p) /\ current # p
    /\ current = p /\ drain[p] # "none" => Switching
    /\ current = p /\ lifecycle[p] \notin {"none", "active"} => Marking
    /\ current = p /\ ~Exists(p) => Clearing \/ drain[p] = "done"
    /\ next = p /\ ~Exists(p) => ClearingNext
    /\ p \in {current, next} => p \in wasReady

PlacesFit == \A p \in Performers : PlaceFits(p)

\* What the operator reports was true once.
StatusFits ==
    \A p \in Performers : (pod[p] = "ready" \/ ready[p]) => p \in wasReady

\* In a slot that is not about to be cleared.
Held(p) ==
    \/ current = p /\ ~Switching /\ ~Clearing
    \/ next = p /\ ~ClearingNext

\* Somebody answers for p, or the reason that nobody does is known.
Answered(p) ==
    \/ left[p] # "no" \/ Held(p) \/ Waiting(p)
    \/ drain[p] \in {"started", "waiting", "released"}

\* A resource is answered for by a wait, a slot or a drain, or its loss has a cause.
ResourcesFit == \A p \in Performers : Exists(p) => Answered(p)

NilFits == current = TypedNil \/ Clearing => removed # {}

TasksFit ==
    \A t \in Tasks : task[t].at # "idle" <=> task[t].p \in Performers

\* The WaitGroup never counts more tasks than there are on the performer.
CountsFit ==
    \A p \in Performers :
        /\ lifecycle[p] = "none" => count[p] = 0
        /\ count[p] <= Cardinality(RunningOn(p))

\* Until Shutdown empties performerTaskStates, a draining performer has an entry that
\* admits nobody, a running task has an entry, which counts it, and its resource exists.
Calm ==
    /\ \A p \in Performers :
          /\ drain[p] \in {"none", "started", "waiting", "done"}
          /\ drain[p] # "none" => lifecycle[p] \in {"draining", "shutdown"}
          /\ lifecycle[p] # "none" => count[p] = Cardinality(RunningOn(p))
    /\ \A t \in Tasks :
          /\ task[t].at = "running" => lifecycle[task[t].p] # "none"
          /\ task[t].at # "idle" =>
                \/ Exists(task[t].p) \/ task[t].p \in removed
                \/ drain[task[t].p] = "done" /\ task[t].at = "loaded"

CalmUntilShutdown == ShuttingDown \/ Calm

\* The inductive invariant.
IInv ==
    /\ TypeOK /\ CallsFit /\ PlacesFit /\ StatusFits /\ ResourcesFit
    /\ NilFits /\ TasksFit /\ CountsFit /\ CalmUntilShutdown

-----------------------------------------------------------------------------
(* What the helper operators do *)

\* A caller's step leaves the other callers alone.
LEMMA MoveEffect ==
    ASSUME TypeOK, NEW c \in Callers, NEW at, NEW p, Move(c, at, p)
    PROVE  /\ call'[c].op = call[c].op /\ call'[c].at = at /\ call'[c].p = p
           /\ \A d \in Callers : d # c => call'[d] = call[d]
<1>1. call \in [Callers -> CallRecords]
    BY DEF TypeOK
<1>2. call' = [call EXCEPT ![c] = [call[c] EXCEPT !.at = at, !.p = p]]
    BY <1>1 DEF CallRecords, Move
<1>3. call'[c] = [call[c] EXCEPT !.at = at, !.p = p]
    BY <1>1, <1>2
<1>4. call[c] \in CallRecords
    BY <1>1
<1>5. call'[c].op = call[c].op /\ call'[c].at = at /\ call'[c].p = p
    BY <1>3, <1>4 DEF CallRecords
<1>6. \A d \in Callers : d # c => call'[d] = call[d]
    BY <1>1, <1>2
<1> QED
    BY <1>5, <1>6

LEMMA MoveType ==
    ASSUME TypeOK, NEW c \in Callers, NEW p \in Performers \cup {None}, NEW at,
           at \in {"lock", "create", "waiting", "monitoring", "promote", "switch", "cleanup",
                   "current", "wait", "delete", "clear", "next", "clearNext", "stopped"},
           Move(c, at, p)
    PROVE  call' \in [Callers -> CallRecords]
<1>0. call[c] \in CallRecords
    BY DEF TypeOK
<1>1. [call[c] EXCEPT !.at = at, !.p = p] \in CallRecords
    BY <1>0 DEF CallRecords
<1>2. call' = [call EXCEPT ![c] = [call[c] EXCEPT !.at = at, !.p = p]]
    BY DEF TypeOK, CallRecords, Move
<1> QED
    BY <1>1, <1>2 DEF TypeOK

LEMMA ReturnEffect ==
    ASSUME TypeOK, NEW c \in Callers, Return(c)
    PROVE  /\ call'[c] = IdleCall
           /\ \A d \in Callers : d # c => call'[d] = call[d]
           /\ call' \in [Callers -> CallRecords]
<1>1. IdleCall \in CallRecords
    BY DEF IdleCall, CallRecords
<1> QED
    BY <1>1 DEF TypeOK, Return

\* A request to delete a resource: it succeeds, or fails and leaves a cause.
LEMMA DeleteEffect ==
    ASSUME TypeOK, NEW p \in Performers, DeletePerformer(p)
    PROVE  /\ crd' \in [Performers -> CRDs] /\ pod' \in [Performers -> Pods]
           /\ left' \in [Performers -> Causes] /\ faults' \in 0 .. MaxFaults
           /\ Exists(p)' => left'[p] # "no"
           /\ crd'[p] = "absent" <=> crd[p] = "absent"
           /\ pod'[p] = "ready" => pod[p] = "ready"
           /\ \A q \in Performers : q # p =>
                 crd'[q] = crd[q] /\ pod'[q] = pod[q] /\ left'[q] = left[q]
           /\ \A q \in Performers : Exists(q)' => Exists(q)
<1> USE KubernetesConstants
<1>t. /\ crd \in [Performers -> CRDs] /\ pod \in [Performers -> Pods]
      /\ left \in [Performers -> Causes] /\ faults \in 0 .. MaxFaults
    BY DEF TypeOK
<1>1. CASE CRDDelete(p) /\ PodAfterDelete(p) /\ UNCHANGED <<faults, left>>
    BY <1>t, <1>1 DEF CRDDelete, PodAfterDelete, CRDs, Pods, Exists
<1>2. CASE Fault /\ left' = [left EXCEPT ![p] = "fault"] /\ UNCHANGED <<crd, pod>>
    BY <1>t, <1>2 DEF Fault, Causes, Exists
<1> QED
    BY <1>1, <1>2 DEF DeletePerformer

-----------------------------------------------------------------------------
(* The end of the process *)

LEMMA EndPreserves ==
    ASSUME IInv, NEW why \in {"panic", "crash"}, ProcessEnds(why)
    PROVE  IInv'
<1> USE KubernetesConstants DEF ProcessEnds
<1>0. TypeOK /\ StatusFits /\ PlacesFit
    BY DEF IInv
<1>1. \A p \in Performers : RunningOn(p)' = {}
    BY DEF RunningOn, IdleTask
<1>2. Cardinality({}) = 0 /\ Cardinality(Tasks) \in Nat
    BY FS_EmptySet, FS_CardinalityType
<1>3. TypeOK'
    <2>1. IdleCall \in CallRecords /\ IdleTask \in TaskRecords
        BY DEF IdleCall, IdleTask, CallRecords, TaskRecords
    <2>2. left' \in [Performers -> Causes]
        BY <1>0 DEF TypeOK, Causes
    <2>3. /\ call' \in [Callers -> CallRecords] /\ task' \in [Tasks -> TaskRecords]
          /\ lifecycle' \in [Performers -> Lifecycles] /\ drain' \in [Performers -> Drains]
        BY <2>1 DEF Lifecycles, Drains
    <2>4. count' \in [Performers -> 0 .. Cardinality(Tasks)]
        BY <1>2
    <2> QED
        BY <1>0, <2>2, <2>3, <2>4 DEF TypeOK, cluster
<1>4. \A c \in Callers : call'[c] = IdleCall
    OBVIOUS
<1>5. CallsFit'
    BY <1>4 DEF CallsFit, CallFits, HolderFits, LockedSteps, IdleCall
<1>6. PlacesFit'
    <2>1. \A p \in Performers : ~Waiting(p)' /\ p \notin {current', next'}
        BY <1>4 DEF Waiting, IdleCall
    <2>2. \A p \in Performers : Unused(p)'
        BY DEF Unused, IdleTask
    <2> QED
        BY <2>1, <2>2 DEF PlacesFit, PlaceFits
<1>7. StatusFits'
    BY <1>0 DEF StatusFits, cluster
<1>8. ResourcesFit'
    BY <1>0 DEF ResourcesFit, Answered, Exists, cluster, TypeOK
<1>9. NilFits' /\ TasksFit'
    <2>1. ~Clearing'
        BY <1>4 DEF Clearing, IdleCall
    <2> QED
        BY <2>1 DEF NilFits, TasksFit, IdleTask
<1>10. CountsFit'
    <2> SUFFICES ASSUME NEW p \in Performers PROVE count'[p] = 0 /\ Cardinality(RunningOn(p)') = 0
        BY DEF CountsFit
    <2> QED
        BY <1>1, <1>2
<1>11. CalmUntilShutdown'
    BY DEF CalmUntilShutdown, Calm, IdleTask
<1> QED
    BY <1>3, <1>5, <1>6, <1>7, <1>8, <1>9, <1>10, <1>11 DEF IInv

-----------------------------------------------------------------------------
(* Tasks and their counts *)

LEMMA SubsetFacts ==
    ASSUME NEW S \in SUBSET Tasks
    PROVE  /\ IsFiniteSet(S) /\ Cardinality(S) \in Nat /\ Cardinality(Tasks) \in Nat
           /\ Cardinality(S) <= Cardinality(Tasks)
<1>1. IsFiniteSet(Tasks)
    BY KubernetesConstants
<1>2. IsFiniteSet(S) /\ Cardinality(S) <= Cardinality(Tasks)
    BY <1>1, FS_Subset
<1> QED
    BY <1>1, <1>2, FS_CardinalityType

LEMMA CountOne ==
    ASSUME NEW S \in SUBSET Tasks, NEW t \in Tasks, t \notin S
    PROVE  Cardinality(S \cup {t}) = Cardinality(S) + 1
BY SubsetFacts, FS_AddElement

\* A task that moves changes the running tasks of its own performer only.
LEMMA RunningChange ==
    ASSUME TypeOK, NEW t \in Tasks, NEW k, task' = [task EXCEPT ![t] = k],
           NEW p \in Performers
    PROVE  RunningOn(p)' = IF k.at = "running" /\ k.p = p
                           THEN RunningOn(p) \cup {t} ELSE RunningOn(p) \ {t}
<1>1. task \in [Tasks -> TaskRecords]
    BY DEF TypeOK
<1>2. \A u \in Tasks : task'[u] = IF u = t THEN k ELSE task[u]
    BY <1>1
<1>3. \A u : u \in RunningOn(p)' <=> u \in Tasks /\ task'[u].at = "running" /\ task'[u].p = p
    BY DEF RunningOn
<1>4. \A u : u \in RunningOn(p) <=> u \in Tasks /\ task[u].at = "running" /\ task[u].p = p
    BY DEF RunningOn
<1>5. CASE k.at = "running" /\ k.p = p
    <2>1. \A u : u \in RunningOn(p)' <=> u \in RunningOn(p) \cup {t}
        BY <1>2, <1>3, <1>4, <1>5
    <2> QED
        BY <1>5, <2>1
<1>6. CASE ~(k.at = "running" /\ k.p = p)
    <2>1. \A u : u \in RunningOn(p)' <=> u \in RunningOn(p) \ {t}
        BY <1>2, <1>3, <1>4, <1>6
    <2> QED
        BY <1>6, <2>1
<1> QED
    BY <1>5, <1>6

\* The tasks' steps, as changes of one task's record.
LEMMA TaskChange ==
    ASSUME TypeOK, TasksFit, NEW t \in Tasks
    PROVE  /\ RunTask(t) => /\ current \in Performers /\ task[t].at = "idle"
                            /\ task' = [task EXCEPT ![t] = [at |-> "loaded", p |-> current]]
           /\ TaskAdmitted(t) =>
                 /\ task[t].at = "loaded" /\ task[t].p \in Performers
                 /\ task' = [task EXCEPT ![t] = [at |-> "running", p |-> task[t].p]]
           /\ TaskRefused(t) => /\ task[t].at = "loaded" /\ task[t].p \in Performers
                                /\ task' = [task EXCEPT ![t] = IdleTask]
           /\ TaskReturns(t) /\ ~Panic =>
                 /\ task[t].at = "running" /\ task[t].p \in Performers
                 /\ task' = [task EXCEPT ![t] = IdleTask]
<1>1. task \in [Tasks -> TaskRecords] /\ task[t] \in TaskRecords
    BY DEF TypeOK
<1>2. task[t].at # "idle" => task[t].p \in Performers
    BY DEF TasksFit
<1>3. [task[t] EXCEPT !.at = "running"] = [at |-> "running", p |-> task[t].p]
    BY <1>1 DEF TaskRecords
<1>4. [task EXCEPT ![t].at = "running"] = [task EXCEPT ![t] = [at |-> "running", p |-> task[t].p]]
    BY <1>1, <1>3
<1>5. RunTask(t) => /\ current \in Performers /\ task[t].at = "idle"
                    /\ task' = [task EXCEPT ![t] = [at |-> "loaded", p |-> current]]
    BY DEF RunTask
<1>6. TaskAdmitted(t) => /\ task[t].at = "loaded" /\ task[t].p \in Performers
                         /\ task' = [task EXCEPT ![t] = [at |-> "running", p |-> task[t].p]]
    BY <1>2, <1>4 DEF TaskAdmitted
<1>7. TaskRefused(t) => /\ task[t].at = "loaded" /\ task[t].p \in Performers
                        /\ task' = [task EXCEPT ![t] = IdleTask]
    BY <1>2 DEF TaskRefused
<1>8. TaskReturns(t) /\ ~Panic => /\ task[t].at = "running" /\ task[t].p \in Performers
                                  /\ task' = [task EXCEPT ![t] = IdleTask]
    BY <1>2 DEF TaskReturns
<1> QED
    BY <1>5, <1>6, <1>7, <1>8

\* Only the tasks' own steps change their records.
LEMMA TaskFrame ==
    ASSUME Next, ~Panic, ~Crash, ~(\E t \in Tasks : RunTask(t) \/ TaskStep(t))
    PROVE  UNCHANGED task
BY DEF Next, DrainStep, CallStep, NewAvsKubernetesPerformer, Reconcile, handleDeletion,
       PodChanges, waitForTaskCompletion, DrainEnds, CallBegins, Initialize, Deploy,
       CreatePerformer, CreateResource, CreateRefused, PerformerReady, NotReady, Monitor,
       PromotePerformer, SwitchSlots, RemovePerformer, ListPerformers, Shutdown,
       ShutdownCurrent, ShutdownWaited, ClearCurrent, ShutdownNext, ClearNext

LEMMA TasksStep ==
    ASSUME IInv, Next, ~Panic, ~Crash
    PROVE  TasksFit' /\ task' \in [Tasks -> TaskRecords]
<1>0. TypeOK /\ TasksFit
    BY DEF IInv
<1>1. task \in [Tasks -> TaskRecords]
    BY <1>0 DEF TypeOK
<1>2. CASE UNCHANGED task
    BY <1>0, <1>1, <1>2 DEF TasksFit
<1>3. ASSUME NEW t \in Tasks, NEW k \in TaskRecords, task' = [task EXCEPT ![t] = k],
             k.at # "idle" <=> k.p \in Performers
      PROVE  TasksFit' /\ task' \in [Tasks -> TaskRecords]
    BY <1>0, <1>1, <1>3 DEF TasksFit
<1>4. CASE \E t \in Tasks : RunTask(t) \/ TaskStep(t)
    <2>1. PICK t \in Tasks : RunTask(t) \/ TaskStep(t)
        BY <1>4
    <2>2. IdleTask \in TaskRecords /\ IdleTask.at = "idle" /\ IdleTask.p \notin Performers
        BY KubernetesConstants DEF IdleTask, TaskRecords
    <2>3. \A p \in Performers : /\ [at |-> "loaded", p |-> p] \in TaskRecords
                                /\ [at |-> "running", p |-> p] \in TaskRecords
        BY DEF TaskRecords
    <2> QED
        BY <1>0, <1>3, <2>1, <2>2, <2>3, TaskChange DEF TaskStep
<1> QED
    BY <1>2, <1>4, TaskFrame

\* The step that takes a task in or lets it go, for the counter of its performer.
LEMMA CountsStep ==
    ASSUME IInv, Next, ~Panic, ~Crash
    PROVE  CountsFit' /\ count' \in [Performers -> 0 .. Cardinality(Tasks)]
<1>0. TypeOK /\ TasksFit /\ CountsFit
    BY DEF IInv
<1>1. /\ count \in [Performers -> Nat] /\ lifecycle \in [Performers -> Lifecycles]
      /\ Cardinality(Tasks) \in Nat
    <2>1. Cardinality(Tasks) \in Nat
        BY KubernetesConstants, FS_CardinalityType
    <2> QED
        BY <1>0, <2>1 DEF TypeOK
<1>2. \A p \in Performers : RunningOn(p) \in SUBSET Tasks /\ RunningOn(p)' \in SUBSET Tasks
    BY DEF RunningOn
<1>3. \A p \in Performers :
         /\ Cardinality(RunningOn(p)) \in Nat /\ Cardinality(RunningOn(p)') \in Nat
         /\ Cardinality(RunningOn(p)') <= Cardinality(Tasks)
    BY <1>2, SubsetFacts
<1>4. ASSUME count' \in [Performers -> Nat],
             \A p \in Performers : /\ lifecycle'[p] = "none" => count'[p] = 0
                                   /\ count'[p] <= Cardinality(RunningOn(p)')
      PROVE  CountsFit' /\ count' \in [Performers -> 0 .. Cardinality(Tasks)]
    <2>1. CountsFit'
        BY <1>4 DEF CountsFit
    <2>2. \A p \in Performers : count'[p] \in 0 .. Cardinality(Tasks)
        BY <1>1, <1>3, <1>4
    <2> QED
        BY <1>4, <2>1, <2>2
<1>5. \A p \in Performers : /\ lifecycle[p] = "none" => count[p] = 0
                            /\ count[p] <= Cardinality(RunningOn(p))
    BY <1>0 DEF CountsFit
\* Steps that leave the running tasks alone.
<1>6. ASSUME UNCHANGED task PROVE \A p \in Performers : RunningOn(p)' = RunningOn(p)
    BY <1>6 DEF RunningOn
<1>7. CASE UNCHANGED <<lifecycle, count, task>>
    BY <1>1, <1>4, <1>5, <1>6, <1>7
<1>8. CASE UNCHANGED <<count, task>> /\ \A p \in Performers : lifecycle'[p] = "none" => lifecycle[p] = "none"
    BY <1>1, <1>4, <1>5, <1>6, <1>8
<1>9. CASE \E c \in Callers : Shutdown(c)
    <2>1. \A p \in Performers : count'[p] = 0
        BY <1>9 DEF Shutdown
    <2>2. count' \in [Performers -> Nat]
        BY <1>9 DEF Shutdown
    <2> QED
        BY <1>3, <1>4, <2>1, <2>2
<1>10. ASSUME NEW t \in Tasks, RunTask(t) \/ TaskRefused(t)
       PROVE  CountsFit' /\ count' \in [Performers -> 0 .. Cardinality(Tasks)]
    <2>1. UNCHANGED <<lifecycle, count>>
        BY <1>10 DEF RunTask, TaskRefused, tracking
    <2>2. \A p \in Performers : t \notin RunningOn(p) /\ RunningOn(p)' = RunningOn(p)
        BY <1>0, <1>10, TaskChange, RunningChange DEF RunningOn, IdleTask
    <2> QED
        BY <1>1, <1>4, <1>5, <2>1, <2>2
<1>11. ASSUME NEW t \in Tasks, TaskAdmitted(t)
       PROVE  CountsFit' /\ count' \in [Performers -> 0 .. Cardinality(Tasks)]
    <2>0. PICK p \in Performers : p = task[t].p /\ task[t].at = "loaded"
        BY <1>0, <1>11, TaskChange
    <2>1. p \in Performers /\ p = task[t].p /\ task[t].at = "loaded"
        BY <2>0
    <2>2. /\ lifecycle' = [lifecycle EXCEPT ![p] = "active"]
          /\ count' = [count EXCEPT ![p] = @ + 1]
        BY <1>11, <2>1 DEF TaskAdmitted, tryAddTask
    <2>3. \A q \in Performers : t \notin RunningOn(q)
        BY <2>1 DEF RunningOn
    <2>4. \A q \in Performers : RunningOn(q)' = IF q = p THEN RunningOn(q) \cup {t} ELSE RunningOn(q)
        <3> DEFINE k == [at |-> "running", p |-> p]
        <3>1. task' = [task EXCEPT ![t] = k] /\ k.at = "running" /\ k.p = p
            BY <1>0, <1>11, <2>1, TaskChange
        <3> HIDE DEF k
        <3>2. \A q \in Performers : RunningOn(q)' = IF q = p THEN RunningOn(q) \cup {t}
                                                          ELSE RunningOn(q) \ {t}
            BY <1>0, <3>1, RunningChange
        <3> QED
            BY <2>3, <3>2
    <2>5. Cardinality(RunningOn(p)') = Cardinality(RunningOn(p)) + 1
        BY <1>2, <2>1, <2>3, <2>4, CountOne
    <2> QED
        BY <1>1, <1>3, <1>4, <1>5, <2>1, <2>2, <2>4, <2>5
<1>12. ASSUME NEW t \in Tasks, TaskReturns(t)
       PROVE  CountsFit' /\ count' \in [Performers -> 0 .. Cardinality(Tasks)]
    <2>0. PICK p \in Performers : p = task[t].p /\ task[t].at = "running"
        BY <1>0, <1>12, TaskChange
    <2>1. p \in Performers /\ p = task[t].p /\ task[t].at = "running"
        BY <2>0
    <2>2. /\ UNCHANGED lifecycle /\ ~(lifecycle[p] # "none" /\ count[p] = 0)
          /\ count' = [count EXCEPT ![p] = IF lifecycle[p] # "none" THEN @ - 1 ELSE @]
        BY <1>12, <2>1 DEF TaskReturns, taskCompleted
    <2>3. \A q \in Performers : t \in RunningOn(q) <=> q = p
        BY <2>1 DEF RunningOn
    <2>4. \A q \in Performers : RunningOn(q)' = RunningOn(q) \ {t}
        <3>1. task' = [task EXCEPT ![t] = IdleTask] /\ IdleTask.at # "running"
            BY <1>0, <1>12, TaskChange DEF IdleTask
        <3> QED
            BY <1>0, <3>1, RunningChange
    <2>5. Cardinality(RunningOn(p)') = Cardinality(RunningOn(p)) - 1
        <3>1. t \notin RunningOn(p)' /\ RunningOn(p) = RunningOn(p)' \cup {t}
            BY <2>1, <2>3, <2>4
        <3> QED
            BY <1>2, <1>3, <2>1, <3>1, CountOne
    <2>6. \A q \in Performers : q # p => RunningOn(q)' = RunningOn(q)
        BY <2>3, <2>4
    <2> QED
        BY <1>1, <1>3, <1>4, <1>5, <2>1, <2>2, <2>5, <2>6
<1>13. CASE \E p \in Performers : waitForTaskCompletion(p) \/ DrainEnds(p)
    BY <1>1, <1>8, <1>13 DEF waitForTaskCompletion, DrainEnds
<1>14. CASE \E c \in Callers : PromotePerformer(c) \/ ShutdownCurrent(c) \/ ClearCurrent(c)
    BY <1>1, <1>8, <1>14 DEF PromotePerformer, ShutdownCurrent, ClearCurrent, startDrain
<1>15. CASE \/ NewAvsKubernetesPerformer
            \/ \E p \in Performers : Reconcile(p) \/ handleDeletion(p) \/ PodChanges(p)
            \/ \E c \in Callers : \/ CallBegins(c) \/ Initialize(c) \/ Deploy(c) \/ CreatePerformer(c)
                                  \/ CreateResource(c) \/ CreateRefused(c) \/ PerformerReady(c)
                                  \/ NotReady(c) \/ Monitor(c) \/ RemovePerformer(c)
                                  \/ ListPerformers(c) \/ SwitchSlots(c) \/ ShutdownWaited(c)
                                  \/ ShutdownNext(c) \/ ClearNext(c)
    <2>1. UNCHANGED <<lifecycle, count, task>>
        BY <1>15 DEF NewAvsKubernetesPerformer, Reconcile, handleDeletion, PodChanges, CallBegins,
             Initialize, Deploy, CreatePerformer, CreateResource, CreateRefused, PerformerReady,
             NotReady, Monitor, RemovePerformer, ListPerformers, SwitchSlots, ShutdownWaited,
             ShutdownNext, ClearNext, tracking
    <2> QED
        BY <1>7, <2>1
<1> QED
    BY <1>9, <1>10, <1>11, <1>12, <1>13, <1>14, <1>15 DEF Next, TaskStep, DrainStep, CallStep

-----------------------------------------------------------------------------
(* The callers and the lock *)

\* One caller moves: the others keep what they rely on, if the slots and the lock stay as
\* they are or the caller itself has, or takes, the lock.
LEMMA CallsFrame ==
    ASSUME CallsFit, NEW c \in Callers,
           \A d \in Callers : d # c => call'[d] = call[d],
           CallFits(call'[c]), HolderFits(call[c])',
           call'[c].at \in LockedSteps => performerMu' = c,
           UNCHANGED <<performerMu, current, next>> \/ performerMu \in {None, c}
    PROVE  CallsFit'
<1> SUFFICES ASSUME NEW d \in Callers
             PROVE  /\ CallFits(call'[d]) /\ HolderFits(call[d])'
                    /\ call'[d].at \in LockedSteps => performerMu' = d
    BY DEF CallsFit, CallFits
<1>1. CASE d = c
    BY <1>1
<1>2. CASE d # c
    <2>1. CallFits(call[d]) /\ HolderFits(call[d]) /\ (call[d].at \in LockedSteps => performerMu = d)
        BY DEF CallsFit
    <2>2. call'[d] = call[d]
        BY <1>2
    <2>3. CASE UNCHANGED <<performerMu, current, next>>
        BY <2>1, <2>2, <2>3 DEF HolderFits
    <2>4. CASE performerMu \in {None, c}
        <3>1. call[d].at \notin LockedSteps
            BY <1>2, <2>1, <2>4, KubernetesConstants
        <3> QED
            BY <2>1, <2>2, <3>1 DEF HolderFits, LockedSteps
    <2> QED
        BY <2>3, <2>4
<1> QED
    BY <1>1, <1>2

\* A caller that returns relies on nothing.
LEMMA ReturnFits ==
    ASSUME CallsFit, NEW c \in Callers, call'[c] = IdleCall,
           \A d \in Callers : d # c => call'[d] = call[d],
           UNCHANGED <<performerMu, current, next>> \/ performerMu \in {None, c}
    PROVE  CallsFit'
<1>1. CallFits(call'[c]) /\ HolderFits(call[c])' /\ call'[c].at \notin LockedSteps
    BY DEF CallFits, HolderFits, LockedSteps, IdleCall
<1> QED
    BY <1>1, CallsFrame

LEMMA CallsStep ==
    ASSUME IInv, Next, ~Panic, ~Crash
    PROVE  CallsFit'
<1> USE KubernetesConstants
<1>0. TypeOK /\ CallsFit
    BY DEF IInv
<1>1. CASE UNCHANGED <<call, performerMu, current, next>>
    BY <1>0, <1>1 DEF CallsFit, CallFits, HolderFits
<1>2. \A c \in Callers : /\ CallFits(call[c]) /\ HolderFits(call[c])
                         /\ call[c].at \in LockedSteps => performerMu = c
    BY <1>0 DEF CallsFit
<1>3. call \in [Callers -> CallRecords] /\ current \in Performers \cup {Unset, TypedNil}
         /\ next \in Performers \cup {None}
    BY <1>0 DEF TypeOK
<1>4. ASSUME NEW c \in Callers, CallBegins(c) PROVE CallsFit'
    <2>1. /\ \A d \in Callers : d # c => call'[d] = call[d]
          /\ UNCHANGED <<performerMu, current, next>>
        BY <1>3, <1>4 DEF CallBegins, slots
    <2>2. CallFits(call'[c]) /\ call'[c].at \in {"begin", "lock"}
        BY <1>3, <1>4 DEF CallBegins, CallFits
    <2>3. HolderFits(call[c])' /\ call'[c].at \notin LockedSteps
        BY <2>2 DEF HolderFits, LockedSteps
    <2> QED
        BY <1>0, <2>1, <2>2, <2>3, CallsFrame
<1>5. ASSUME NEW c \in Callers, Initialize(c) PROVE CallsFit'
    <2>1. /\ \A d \in Callers : d # c => call'[d] = call[d]
          /\ UNCHANGED <<current, next>> /\ performerMu' = c
          /\ current = Unset /\ next = None
          /\ call'[c] = [op |-> "initialize", at |-> "create", p |-> None]
        BY <1>3, <1>5 DEF Initialize
    <2>2. \A d \in Callers : call'[d].at \in LockedSteps => d = c
        BY <1>5, <2>1 DEF Initialize, IdleCall, LockedSteps
    <2>3. CallFits(call'[c]) /\ HolderFits(call[c])'
        BY <2>1 DEF CallFits, HolderFits
    <2>4. \A d \in Callers : d # c => CallFits(call'[d]) /\ HolderFits(call[d])'
        BY <1>5, <2>1 DEF Initialize, IdleCall, CallFits, HolderFits
    <2>5. \A d \in Callers : /\ CallFits(call'[d]) /\ HolderFits(call[d])'
                             /\ call'[d].at \in LockedSteps => performerMu' = d
        BY <2>1, <2>2, <2>3, <2>4
    <2> QED
        BY <2>5 DEF CallsFit, CallFits
<1>6. ASSUME NEW c \in Callers, Deploy(c) PROVE CallsFit'
    <2>1. UNCHANGED <<performerMu, current, next>> /\ call[c].op = "deploy"
        BY <1>6 DEF Deploy, Step
    <2>2. CASE Return(c)
        BY <1>0, <2>1, <2>2, ReturnEffect, ReturnFits
    <2>3. CASE Move(c, "lock", None)
        <3>1. CallFits(call'[c]) /\ HolderFits(call[c])' /\ call'[c].at \notin LockedSteps
            BY <1>0, <2>1, <2>3, MoveEffect DEF CallFits, HolderFits, LockedSteps
        <3> QED
            BY <1>0, <2>1, <2>3, <3>1, MoveEffect, CallsFrame
    <2> QED
        BY <1>6, <2>2, <2>3 DEF Deploy
<1>7. ASSUME NEW c \in Callers, CreatePerformer(c) PROVE CallsFit'
    <2>1. UNCHANGED <<current, next>> /\ call[c].op = "deploy" /\ performerMu = None
        BY <1>7 DEF CreatePerformer, Step
    <2>2. CASE Return(c)
        BY <1>0, <2>1, <2>2, ReturnEffect, ReturnFits
    <2>3. CASE Move(c, "create", None) /\ next = None /\ performerMu' = c
        <3>1. CallFits(call'[c]) /\ HolderFits(call[c])'
            BY <1>0, <2>1, <2>3, MoveEffect DEF CallFits, HolderFits
        <3> QED
            BY <1>0, <2>1, <2>3, <3>1, MoveEffect, CallsFrame
    <2> QED
        BY <1>7, <2>2, <2>3 DEF CreatePerformer, EndDeploy
<1>8. ASSUME NEW c \in Callers, CreateResource(c) PROVE CallsFit'
    <2>1. UNCHANGED <<performerMu, current, next>> /\ performerMu = c
             /\ call[c].at = "create"
        BY <1>2, <1>8 DEF CreateResource, slots, LockedSteps
    <2>2. PICK p \in Performers : Move(c, "waiting", p)
        BY <1>8 DEF CreateResource
    <2>3. call[c].op \in {"deploy", "initialize"} /\ HolderFits(call[c])
        BY <1>2, <2>1 DEF CallFits
    <2>4. CallFits(call'[c])
        BY <1>0, <2>2, <2>3, MoveEffect DEF CallFits
    <2>5. HolderFits(call[c])'
        BY <1>0, <2>1, <2>2, <2>3, MoveEffect DEF HolderFits
    <2> QED
        BY <1>0, <2>1, <2>2, <2>4, <2>5, MoveEffect, CallsFrame
<1>9. ASSUME NEW c \in Callers, CreateRefused(c) \/ NotReady(c) PROVE CallsFit'
    <2>1. Return(c) /\ performerMu = c
        BY <1>2, <1>9 DEF CreateRefused, NotReady, EndDeploy, LockedSteps
    <2> QED
        BY <1>0, <2>1, ReturnEffect, ReturnFits
<1>10. ASSUME NEW c \in Callers, PerformerReady(c) PROVE CallsFit'
    <2>1. performerMu = c /\ call[c].at = "waiting" /\ CallFits(call[c])
        BY <1>2, <1>10 DEF PerformerReady, LockedSteps
    <2>2. CASE Return(c)
        BY <1>0, <2>1, <2>2, ReturnEffect, ReturnFits
    <2>3. CASE call[c].op = "deploy" /\ Move(c, "monitoring", call[c].p)
        <3>1. CallFits(call'[c]) /\ HolderFits(call[c])' /\ call'[c].at \notin LockedSteps
            BY <1>0, <2>1, <2>3, MoveEffect DEF CallFits, HolderFits, LockedSteps
        <3> QED
            BY <1>0, <2>1, <2>3, <3>1, MoveEffect, CallsFrame
    <2> QED
        BY <1>10, <2>2, <2>3 DEF PerformerReady, EndDeploy
<1>11. ASSUME NEW c \in Callers, Monitor(c) PROVE CallsFit'
    <2>1. UNCHANGED <<performerMu, current, next>> /\ call[c].at = "monitoring"
        BY <1>11 DEF Monitor, slots
    <2>2. PICK at \in {"promote", "cleanup"} : Move(c, at, call[c].p)
        BY <1>11 DEF Monitor
    <2>3. CallFits(call'[c])
        BY <1>0, <1>2, <2>1, <2>2, MoveEffect DEF CallFits
    <2>4. HolderFits(call[c])' /\ call'[c].at \notin LockedSteps
        BY <1>0, <2>2, MoveEffect DEF HolderFits, LockedSteps
    <2> QED
        BY <1>0, <2>1, <2>2, <2>3, <2>4, MoveEffect, CallsFrame
<1>12. ASSUME NEW c \in Callers, PromotePerformer(c) PROVE CallsFit'
    <2>1. performerMu = None /\ call[c].at = "promote" /\ UNCHANGED <<current, next>>
        BY <1>12 DEF PromotePerformer
    <2>2. CASE Move(c, "switch", call[c].p) /\ next = call[c].p /\ performerMu' = c
        <3>1. CallFits(call'[c])
            BY <1>0, <1>2, <2>1, <2>2, MoveEffect DEF CallFits
        <3>2. HolderFits(call[c])'
            BY <1>0, <2>1, <2>2, MoveEffect DEF HolderFits
        <3> QED
            BY <1>0, <2>1, <2>2, <3>1, <3>2, MoveEffect, CallsFrame
    <2>3. CASE Move(c, "cleanup", call[c].p)
        <3>1. CallFits(call'[c])
            BY <1>0, <1>2, <2>1, <2>3, MoveEffect DEF CallFits
        <3>2. HolderFits(call[c])' /\ call'[c].at \notin LockedSteps
            BY <1>0, <2>3, MoveEffect DEF HolderFits, LockedSteps
        <3> QED
            BY <1>0, <2>1, <2>3, <3>1, <3>2, MoveEffect, CallsFrame
    <2> QED
        BY <1>12, <2>2, <2>3 DEF PromotePerformer, InNextSlot
<1>13. ASSUME NEW c \in Callers, RemovePerformer(c) \/ ListPerformers(c) PROVE CallsFit'
    <2>1. performerMu = None /\ Return(c)
        BY <1>13 DEF RemovePerformer, ListPerformers, EndDeploy
    <2> QED
        BY <1>0, <2>1, ReturnEffect, ReturnFits
<1>14. ASSUME NEW c \in Callers, Shutdown(c) PROVE CallsFit'
    <2>1. /\ performerMu = None /\ performerMu' = c /\ UNCHANGED <<current, next>>
          /\ call[c].op = "shutdown"
        BY <1>14 DEF Shutdown, Step
    <2>2. PICK at \in {"next", "current"} :
             Move(c, at, None) /\ (at = "current" => current # Unset)
        BY <1>14 DEF Shutdown
    <2>3. CallFits(call'[c]) /\ HolderFits(call[c])'
        BY <1>0, <2>1, <2>2, MoveEffect DEF CallFits, HolderFits
    <2> QED
        BY <1>0, <2>1, <2>2, <2>3, MoveEffect, CallsFrame
<1>15. ASSUME NEW c \in Callers, ShutdownCurrent(c) PROVE CallsFit'
    <2>1. /\ performerMu = c /\ UNCHANGED <<performerMu, current, next>>
          /\ call[c].op = "shutdown" /\ current \in Performers
        BY <1>2, <1>3, <1>15 DEF ShutdownCurrent, Step, slots, LockedSteps, HolderFits
    <2>2. PICK at \in {"delete", "wait"} : Move(c, at, current)
        BY <1>15 DEF ShutdownCurrent
    <2>3. CallFits(call'[c]) /\ HolderFits(call[c])'
        BY <1>0, <2>1, <2>2, MoveEffect DEF CallFits, HolderFits
    <2> QED
        BY <1>0, <2>1, <2>2, <2>3, MoveEffect, CallsFrame
<1>16. ASSUME NEW c \in Callers, ShutdownWaited(c) PROVE CallsFit'
    <2>1. /\ performerMu = c /\ UNCHANGED <<performerMu, current, next>>
          /\ CallFits(call[c]) /\ HolderFits(call[c])
          /\ call[c].op = "shutdown" /\ call[c].at \in {"wait", "delete"}
          /\ Move(c, "clear", call[c].p)
        BY <1>2, <1>16 DEF ShutdownWaited, Step, LockedSteps, slots
    <2>2. CallFits(call'[c])
        BY <1>0, <2>1, MoveEffect DEF CallFits
    <2>3. HolderFits(call[c])'
        BY <1>0, <2>1, MoveEffect DEF HolderFits
    <2> QED
        BY <1>0, <2>1, <2>2, <2>3, MoveEffect, CallsFrame
<1>17. ASSUME NEW c \in Callers, ClearCurrent(c) \/ ShutdownNext(c) PROVE CallsFit'
    <2>1. /\ performerMu = c /\ performerMu' = c /\ call[c].op = "shutdown"
          /\ \E at \in {"next", "clearNext"} : Move(c, at, None)
        BY <1>2, <1>17 DEF ClearCurrent, ShutdownNext, Step, LockedSteps, slots
    <2>2. CallFits(call'[c]) /\ HolderFits(call[c])'
        BY <1>0, <2>1, MoveEffect DEF CallFits, HolderFits
    <2> QED
        BY <1>0, <2>1, <2>2, MoveEffect, CallsFrame
<1>19. ASSUME NEW c \in Callers, SwitchSlots(c) PROVE CallsFit'
    <2>1. performerMu = c /\ Return(c)
        BY <1>2, <1>19 DEF SwitchSlots, Step, EndDeploy, LockedSteps
    <2> QED
        BY <1>0, <2>1, ReturnEffect, ReturnFits
<1>20. ASSUME NEW c \in Callers, ClearNext(c) PROVE CallsFit'
    <2>1. performerMu = c /\ call[c].op = "shutdown" /\ Move(c, "stopped", None)
        BY <1>2, <1>20 DEF ClearNext, Step, LockedSteps
    <2>2. CallFits(call'[c]) /\ HolderFits(call[c])' /\ call'[c].at \notin LockedSteps
        BY <1>0, <2>1, MoveEffect DEF CallFits, HolderFits, LockedSteps
    <2> QED
        BY <1>0, <2>1, <2>2, MoveEffect, CallsFrame
<1>18. CASE \/ NewAvsKubernetesPerformer
            \/ \E p \in Performers : Reconcile(p) \/ handleDeletion(p) \/ PodChanges(p) \/ DrainStep(p)
            \/ \E t \in Tasks : RunTask(t) \/ TaskStep(t)
    <2>1. UNCHANGED <<call, performerMu, current, next>>
        BY <1>18 DEF NewAvsKubernetesPerformer, Reconcile, handleDeletion, PodChanges, DrainStep,
             TaskStep, waitForTaskCompletion, DrainEnds, RunTask, TaskAdmitted, TaskRefused,
             TaskReturns, slots
    <2> QED
        BY <1>1, <2>1
<1> QED
    BY <1>4, <1>5, <1>6, <1>7, <1>8, <1>9, <1>10, <1>11, <1>12, <1>13, <1>14, <1>15, <1>16,
       <1>17, <1>18, <1>19, <1>20 DEF Next, CallStep

-----------------------------------------------------------------------------
(* Types *)

LEMMA CallTypeStep ==
    ASSUME IInv, Next, ~Panic, ~Crash
    PROVE  call' \in [Callers -> CallRecords]
<1> USE KubernetesConstants
<1>0. TypeOK /\ CallsFit
    BY DEF IInv
<1>1. /\ call \in [Callers -> CallRecords] /\ current \in Performers \cup {Unset, TypedNil}
      /\ \A c \in Callers : call[c].p \in Performers \cup {None}
    BY <1>0 DEF TypeOK, CallRecords
<1>2. CASE UNCHANGED call
    BY <1>1, <1>2
<1>3. CASE \E c \in Callers : CallBegins(c) \/ Initialize(c)
    <2>1. PICK c \in Callers : CallBegins(c) \/ Initialize(c)
        BY <1>3
    <2>2. /\ [op |-> "deploy", at |-> "begin", p |-> None] \in CallRecords
          /\ \A p \in Performers : [op |-> "remove", at |-> "lock", p |-> p] \in CallRecords
          /\ [op |-> "list", at |-> "lock", p |-> None] \in CallRecords
          /\ [op |-> "shutdown", at |-> "lock", p |-> None] \in CallRecords
          /\ [op |-> "initialize", at |-> "create", p |-> None] \in CallRecords
        BY DEF CallRecords
    <2>3. PICK k \in CallRecords : call' = [call EXCEPT ![c] = k]
        BY <2>1, <2>2 DEF CallBegins, Initialize
    <2> QED
        BY <1>1, <2>3
<1>4. CASE \E c \in Callers : Return(c)
    BY <1>0, <1>4, ReturnEffect
<1>5. CASE \E c \in Callers, p \in Performers \cup {None} :
              \E at \in {"lock", "create", "waiting", "monitoring", "promote", "switch",
                         "cleanup", "current", "wait", "delete", "clear", "next", "clearNext",
                         "stopped"} : Move(c, at, p)
    BY <1>0, <1>5, MoveType
<1>6. ASSUME NEW c \in Callers, CallStep(c)
      PROVE  call' \in [Callers -> CallRecords]
    <2>1. CASE Deploy(c) \/ CreatePerformer(c)
        BY <1>4, <1>5, <2>1 DEF Deploy, CreatePerformer, EndDeploy
    <2>2. CASE CreateResource(c)
        BY <1>5, <2>2 DEF CreateResource
    <2>3. CASE \/ CreateRefused(c) \/ NotReady(c) \/ RemovePerformer(c) \/ ListPerformers(c)
               \/ SwitchSlots(c)
        BY <1>4, <2>3
           DEF CreateRefused, NotReady, RemovePerformer, ListPerformers, SwitchSlots, EndDeploy
    <2>4. CASE PerformerReady(c) \/ Monitor(c) \/ PromotePerformer(c)
        BY <1>1, <1>4, <1>5, <2>4 DEF PerformerReady, Monitor, PromotePerformer, EndDeploy
    <2>5. CASE \/ Shutdown(c) \/ ShutdownWaited(c) \/ ClearCurrent(c) \/ ShutdownNext(c)
               \/ ClearNext(c)
        BY <1>1, <1>5, <2>5 DEF Shutdown, ShutdownWaited, ClearCurrent, ShutdownNext, ClearNext
    <2>6. CASE ShutdownCurrent(c)
        <3>1. current \in Performers
            BY <1>0, <1>1, <2>6 DEF ShutdownCurrent, Step, CallsFit, HolderFits
        <3> QED
            BY <1>5, <2>6, <3>1 DEF ShutdownCurrent
    <2> QED
        BY <1>6, <2>1, <2>2, <2>3, <2>4, <2>5, <2>6 DEF CallStep
<1>7. CASE \/ NewAvsKubernetesPerformer
           \/ \E p \in Performers : Reconcile(p) \/ handleDeletion(p) \/ PodChanges(p) \/ DrainStep(p)
           \/ \E t \in Tasks : RunTask(t) \/ TaskStep(t)
    <2>1. UNCHANGED call
        BY <1>7 DEF NewAvsKubernetesPerformer, Reconcile, handleDeletion, PodChanges, DrainStep,
             TaskStep, waitForTaskCompletion, DrainEnds, RunTask, TaskAdmitted, TaskRefused,
             TaskReturns
    <2> QED
        BY <1>2, <2>1
<1> QED
    BY <1>3, <1>6, <1>7 DEF Next

\* The caller's performer, where the step needs one.
LEMMA CallPerformer ==
    ASSUME IInv, NEW c \in Callers
    PROVE  /\ call[c].at \in {"waiting", "monitoring", "promote", "switch", "cleanup", "wait",
                              "delete", "clear"}
                 => call[c].p \in Performers
           /\ call[c].op = "remove" => call[c].p \in Performers
           /\ call[c].at \in {"create", "waiting"} => call[c].op \in {"deploy", "initialize"}
           /\ call[c].at \in LockedSteps => performerMu = c
           /\ HolderFits(call[c])
<1>1. CallFits(call[c]) /\ (call[c].at \in LockedSteps => performerMu = c) /\ HolderFits(call[c])
    BY DEF IInv, CallsFit
<1> QED
    BY <1>1 DEF CallFits

LEMMA TypeStep ==
    ASSUME IInv, Next, ~Panic, ~Crash
    PROVE  TypeOK'
<1> USE KubernetesConstants
<1>0. TypeOK
    BY DEF IInv
<1>t. /\ call' \in [Callers -> CallRecords] /\ task' \in [Tasks -> TaskRecords]
      /\ count' \in [Performers -> 0 .. Cardinality(Tasks)]
    BY CallTypeStep, TasksStep, CountsStep
<1> DEFINE Rest ==
        /\ alive \in BOOLEAN /\ starts \in 1 .. MaxStarts /\ faults \in 0 .. MaxFaults
        /\ current \in Performers \cup {Unset, TypedNil} /\ next \in Performers \cup {None}
        /\ performerMu \in Callers \cup {None} /\ deployMu \in Callers \cup {None}
        /\ lifecycle \in [Performers -> Lifecycles]
        /\ drain \in [Performers -> Drains]
        /\ crd \in [Performers -> CRDs] /\ pod \in [Performers -> Pods]
        /\ ready \in [Performers -> BOOLEAN]
        /\ wasReady \subseteq Performers /\ removed \subseteq Performers
        /\ left \in [Performers -> Causes]
<1>q. SUFFICES Rest'
    BY <1>t DEF TypeOK
<1>r. Rest
    BY <1>0 DEF TypeOK
<1> USE <1>r DEF process, slots, tracking, cluster, ghosts
<1>1. CASE NewAvsKubernetesPerformer
    BY <1>1 DEF NewAvsKubernetesPerformer
<1>2. ASSUME NEW p \in Performers, Reconcile(p) PROVE Rest'
    <2>1. crd' \in [Performers -> CRDs]
        BY <1>2 DEF Reconcile, CRDs
    <2>2. pod' \in [Performers -> Pods]
        BY <1>2 DEF Reconcile, reconcilePod, buildPodSpec, Pods
    <2>3. ready' \in [Performers -> BOOLEAN]
        <3>1. CASE UNCHANGED ready
            BY <3>1
        <3>2. CASE \E b \in BOOLEAN : ready' = [ready EXCEPT ![p] = b]
            BY <3>2
        <3>3. ASSUME NEW seen, updateStatus(p, seen) PROVE \E b \in BOOLEAN : ready' = [ready EXCEPT ![p] = b]
            <4>1. (IF seen = "none" THEN ready[p] ELSE seen = "ready") \in BOOLEAN
                OBVIOUS
            <4> QED
                BY <3>3, <4>1 DEF updateStatus
        <3> QED
            BY <1>2, <3>1, <3>2, <3>3 DEF Reconcile, reconcileServiceFails
    <2> QED
        BY <1>2, <2>1, <2>2, <2>3 DEF Reconcile
<1>3. ASSUME NEW p \in Performers, handleDeletion(p) PROVE Rest'
    BY <1>3 DEF handleDeletion, CRDs, Pods
<1>4. ASSUME NEW p \in Performers, PodChanges(p) PROVE Rest'
    <2>1. pod' \in [Performers -> Pods] /\ wasReady' \subseteq Performers /\ faults' \in 0 .. MaxFaults
        BY <1>4 DEF PodChanges, Pods, Fault
    <2> QED
        BY <1>4, <2>1 DEF PodChanges
<1>5. ASSUME NEW p \in Performers, waitForTaskCompletion(p) PROVE Rest'
    <2>1. lifecycle' \in [Performers -> Lifecycles] /\ drain' \in [Performers -> Drains]
        BY <1>5 DEF waitForTaskCompletion, Lifecycles, Drains
    <2> QED
        BY <1>5, <2>1 DEF waitForTaskCompletion
<1>6. ASSUME NEW p \in Performers, DrainEnds(p) PROVE Rest'
    <2>1. lifecycle' \in [Performers -> Lifecycles] /\ drain' \in [Performers -> Drains]
        BY <1>6 DEF DrainEnds, Lifecycles, Drains
    <2>2. DeletePerformer(p)
        BY <1>6 DEF DrainEnds
    <2> QED
        BY <1>0, <1>6, <2>1, <2>2, DeleteEffect DEF DrainEnds
<1>7. ASSUME NEW t \in Tasks, RunTask(t) \/ TaskStep(t) PROVE Rest'
    <2>1. lifecycle' \in [Performers -> Lifecycles]
        BY <1>7 DEF RunTask, TaskStep, TaskAdmitted, tryAddTask, TaskRefused, TaskReturns, Lifecycles
    <2>2. UNCHANGED <<process, slots, drain, cluster, faults, ghosts>>
        BY <1>7 DEF RunTask, TaskStep, TaskAdmitted, TaskRefused, TaskReturns
    <2> QED
        BY <2>1, <2>2
<1>8. ASSUME NEW c \in Callers, CallBegins(c) \/ Initialize(c) PROVE Rest'
    BY <1>8 DEF CallBegins, Initialize
<1>9. ASSUME NEW c \in Callers, Deploy(c) \/ CreatePerformer(c) PROVE Rest'
    <2>1. performerMu' \in Callers \cup {None} /\ deployMu' \in Callers \cup {None}
        BY <1>9 DEF Deploy, CreatePerformer, EndDeploy
    <2> QED
        BY <1>9, <2>1 DEF Deploy, CreatePerformer
<1>10. ASSUME NEW c \in Callers, CreateResource(c) PROVE Rest'
    <2>1. crd' \in [Performers -> CRDs]
        BY <1>10 DEF CreateResource, CRDCreate, CRDs
    <2> QED
        BY <1>10, <2>1 DEF CreateResource
<1>11. ASSUME NEW c \in Callers, CreateRefused(c) PROVE Rest'
    BY <1>11 DEF CreateRefused, EndDeploy, Fault
<1>12. ASSUME NEW c \in Callers, PerformerReady(c) PROVE Rest'
    <2>1. call[c].p \in Performers
        BY <1>12, CallPerformer DEF PerformerReady
    <2>2. /\ current' \in Performers \cup {Unset, TypedNil} /\ next' \in Performers \cup {None}
          /\ deployMu' \in Callers \cup {None} /\ faults' \in 0 .. MaxFaults
        BY <1>12, <2>1 DEF PerformerReady, EndDeploy, Fault
    <2>3. left' \in [Performers -> Causes]
        BY <1>12, <2>1 DEF PerformerReady, Causes
    <2> QED
        BY <1>12, <2>2, <2>3 DEF PerformerReady
<1>13. ASSUME NEW c \in Callers, NotReady(c) PROVE Rest'
    <2>1. call[c].p \in Performers
        BY <1>13, CallPerformer DEF NotReady
    <2>2. /\ crd' \in [Performers -> CRDs] /\ pod' \in [Performers -> Pods]
          /\ left' \in [Performers -> Causes] /\ faults' \in 0 .. MaxFaults
        <3>1. CASE DeletePerformer(call[c].p)
            BY <1>0, <2>1, <3>1, DeleteEffect
        <3>2. CASE left' = [left EXCEPT ![call[c].p] = "expired"] /\ UNCHANGED <<crd, pod, faults>>
            BY <3>2 DEF Causes
        <3> QED
            BY <1>13, <3>1, <3>2 DEF NotReady, CleanUp
    <2> QED
        BY <1>13, <2>2 DEF NotReady, EndDeploy
<1>14. ASSUME NEW c \in Callers, Monitor(c) \/ ListPerformers(c) PROVE Rest'
    BY <1>14 DEF Monitor, ListPerformers
<1>15. ASSUME NEW c \in Callers, PromotePerformer(c) PROVE Rest'
    <2>2. lifecycle' \in [Performers -> Lifecycles] /\ drain' \in [Performers -> Drains]
        <3>1. CASE UNCHANGED <<lifecycle, drain>>
            BY <3>1
        <3>2. CASE startDrain(current)
            BY <3>2 DEF startDrain, Lifecycles, Drains
        <3> QED
            BY <1>15, <3>1, <3>2 DEF PromotePerformer
    <2> QED
        BY <1>15, <2>2 DEF PromotePerformer
<1>16. ASSUME NEW c \in Callers, RemovePerformer(c) PROVE Rest'
    <2>1. call[c].p \in Performers
        BY <1>16, CallPerformer DEF RemovePerformer, Step
    <2>2. /\ crd' \in [Performers -> CRDs] /\ pod' \in [Performers -> Pods]
          /\ left' \in [Performers -> Causes] /\ faults' \in 0 .. MaxFaults
        <3>1. CASE DeletePerformer(call[c].p)
            BY <1>0, <2>1, <3>1, DeleteEffect
        <3> QED
            BY <1>16, <3>1 DEF RemovePerformer
    <2>3. /\ current' \in Performers \cup {Unset, TypedNil} /\ next' \in Performers \cup {None}
          /\ deployMu' \in Callers \cup {None} /\ removed' \subseteq Performers
        BY <1>16, <2>1 DEF RemovePerformer, EndDeploy, CurrentAfterRemove
    <2> QED
        BY <1>16, <2>2, <2>3 DEF RemovePerformer
<1>17. ASSUME NEW c \in Callers, Shutdown(c) PROVE Rest'
    <2>1. drain' \in [Performers -> Drains] /\ lifecycle' \in [Performers -> Lifecycles]
        BY <1>17 DEF Shutdown, Drains, Lifecycles
    <2>2. left' \in [Performers -> Causes]
        BY <1>17 DEF Shutdown, Causes
    <2> QED
        BY <1>17, <2>1, <2>2 DEF Shutdown
<1>18. ASSUME NEW c \in Callers, ShutdownCurrent(c) PROVE Rest'
    <2>1. lifecycle' \in [Performers -> Lifecycles]
        BY <1>18 DEF ShutdownCurrent, Lifecycles
    <2> QED
        BY <1>18, <2>1 DEF ShutdownCurrent
<1>19. ASSUME NEW c \in Callers, ShutdownWaited(c) PROVE Rest'
    <2>1. call[c].p \in Performers /\ DeletePerformer(call[c].p)
        BY <1>19, CallPerformer DEF ShutdownWaited, Step
    <2> QED
        BY <1>0, <1>19, <2>1, DeleteEffect DEF ShutdownWaited
<1>20. ASSUME NEW c \in Callers, ShutdownNext(c) PROVE Rest'
    <2>1. CASE next = None
        BY <1>20, <2>1 DEF ShutdownNext
    <2>2. CASE next # None
        <3>1. next \in Performers /\ DeletePerformer(next) /\ removed' = removed \cup {next}
            BY <1>20, <2>2 DEF ShutdownNext
        <3> QED
            BY <1>0, <1>20, <3>1, DeleteEffect DEF ShutdownNext
    <2> QED
        BY <2>1, <2>2
<1>21. ASSUME NEW c \in Callers, SwitchSlots(c) PROVE Rest'
    <2>1. call[c].p \in Performers
        BY <1>21, CallPerformer DEF SwitchSlots, Step
    <2> QED
        BY <1>21, <2>1 DEF SwitchSlots, EndDeploy
<1>22. ASSUME NEW c \in Callers, ClearCurrent(c) \/ ClearNext(c) PROVE Rest'
    <2>1. lifecycle' \in [Performers -> Lifecycles]
        BY <1>22 DEF ClearCurrent, ClearNext, Lifecycles
    <2> QED
        BY <1>22, <2>1 DEF ClearCurrent, ClearNext
<1> HIDE DEF Rest
<1> QED
    BY <1>1, <1>2, <1>3, <1>4, <1>5, <1>6, <1>7, <1>8, <1>9, <1>10, <1>11, <1>12, <1>13,
       <1>14, <1>15, <1>16, <1>17, <1>18, <1>19, <1>20, <1>21, <1>22
       DEF Next, DrainStep, CallStep

-----------------------------------------------------------------------------
(* The operator's status, and the nil pointer *)

LEMMA StatusStep ==
    ASSUME IInv, Next, ~Panic, ~Crash
    PROVE  StatusFits'
<1>0. TypeOK /\ StatusFits
    BY DEF IInv
<1>t. /\ pod \in [Performers -> Pods] /\ ready \in [Performers -> BOOLEAN]
      /\ \A p \in Performers : (pod[p] = "ready" \/ ready[p]) => p \in wasReady
    BY <1>0 DEF TypeOK, StatusFits
<1>1. ASSUME \A p \in Performers : pod'[p] = "ready" => pod[p] = "ready", UNCHANGED <<ready, wasReady>>
      PROVE  StatusFits'
    BY <1>t, <1>1 DEF StatusFits
<1>2. ASSUME NEW p \in Performers, Reconcile(p) PROVE StatusFits'
    <2>1. \A q \in Performers : pod'[q] = "ready" => pod[q] = "ready"
        BY <1>t, <1>2 DEF Reconcile, reconcilePod, buildPodSpec
    <2>2. wasReady' = wasReady
        BY <1>2 DEF Reconcile
    <2>3. CASE UNCHANGED ready
        BY <1>1, <2>1, <2>2, <2>3
    <2>4. ASSUME NEW seen \in {pod[p], pod'[p]}, updateStatus(p, seen) PROVE StatusFits'
        <3>1. seen = "ready" => p \in wasReady
            BY <1>t, <2>1, <2>4
        <3>2. \A q \in Performers : ready'[q] => q \in wasReady
            BY <1>t, <2>4, <3>1 DEF updateStatus
        <3> QED
            BY <1>t, <2>1, <2>2, <3>2 DEF StatusFits
    <2> QED
        BY <1>2, <2>3, <2>4 DEF Reconcile, reconcileServiceFails
<1>3. ASSUME NEW p \in Performers, PodChanges(p) PROVE StatusFits'
    BY <1>t, <1>3 DEF PodChanges, StatusFits
<1>4. ASSUME NEW p \in Performers, handleDeletion(p) PROVE StatusFits'
    BY <1>t, <1>1, <1>4 DEF handleDeletion
<1>5. ASSUME NEW p \in Performers, DeletePerformer(p), UNCHANGED <<ready, wasReady>> PROVE StatusFits'
    <2>1. \A q \in Performers : pod'[q] = "ready" => pod[q] = "ready"
        BY <1>0, <1>5, DeleteEffect
    <2> QED
        BY <1>1, <1>5, <2>1
<1>6. CASE UNCHANGED <<pod, ready, wasReady>>
    BY <1>1, <1>6
<1>7. ASSUME NEW p \in Performers, DrainStep(p) PROVE StatusFits'
    BY <1>5, <1>6, <1>7 DEF DrainStep, DrainEnds, waitForTaskCompletion, cluster
<1>8. ASSUME NEW c \in Callers, NotReady(c) \/ RemovePerformer(c) \/ ShutdownWaited(c)
      PROVE  StatusFits'
    <2>1. call[c].p \in Performers
        BY <1>8, CallPerformer DEF NotReady, RemovePerformer, ShutdownWaited, Step
    <2> QED
        BY <1>5, <1>6, <1>8, <2>1 DEF NotReady, RemovePerformer, ShutdownWaited, CleanUp
<1>9. ASSUME NEW c \in Callers, ShutdownNext(c) PROVE StatusFits'
    <2>1. next # None => next \in Performers
        BY <1>0 DEF TypeOK
    <2> QED
        BY <1>5, <1>6, <1>9, <2>1 DEF ShutdownNext
<1>10. CASE \/ NewAvsKubernetesPerformer
            \/ \E t \in Tasks : RunTask(t) \/ TaskStep(t)
            \/ \E c \in Callers : \/ CallBegins(c) \/ Initialize(c) \/ Deploy(c) \/ CreatePerformer(c)
                                  \/ CreateResource(c) \/ CreateRefused(c) \/ PerformerReady(c)
                                  \/ Monitor(c) \/ PromotePerformer(c) \/ ListPerformers(c)
                                  \/ Shutdown(c) \/ ShutdownCurrent(c) \/ SwitchSlots(c)
                                  \/ ClearCurrent(c) \/ ClearNext(c)
    <2>1. UNCHANGED <<pod, ready, wasReady>>
        BY <1>10 DEF NewAvsKubernetesPerformer, RunTask, TaskStep, TaskAdmitted, TaskRefused,
             TaskReturns, CallBegins, Initialize, Deploy, CreatePerformer, CreateResource,
             CreateRefused, PerformerReady, Monitor, PromotePerformer, ListPerformers,
             Shutdown, ShutdownCurrent, SwitchSlots, ClearCurrent, ClearNext, cluster
    <2> QED
        BY <1>6, <2>1
<1> QED
    BY <1>2, <1>3, <1>4, <1>7, <1>8, <1>9, <1>10 DEF Next, CallStep

LEMMA NilStep ==
    ASSUME IInv, Next, ~Panic, ~Crash
    PROVE  NilFits'
<1> USE KubernetesConstants
<1>0. TypeOK /\ NilFits
    BY DEF IInv
<1>t. call \in [Callers -> CallRecords]
    BY <1>0 DEF TypeOK
<1>1. CASE current' = current /\ removed \subseteq removed' /\ (Clearing' => Clearing)
    BY <1>0, <1>1 DEF NilFits
<1>2. CASE current' \in Performers /\ removed \subseteq removed' /\ (Clearing' => Clearing)
    BY <1>0, <1>2 DEF NilFits
<1>3. CASE removed' # {}
    BY <1>3 DEF NilFits
<1>4. ASSUME NEW c \in Callers, CallStep(c), ~ShutdownWaited(c) PROVE Clearing' => Clearing
    <2>1. /\ \A d \in Callers : d # c => call'[d] = call[d]
          /\ call'[c].at # "clear"
        <3>1. CASE Return(c)
            BY <1>0, <3>1, ReturnEffect DEF IdleCall
        <3>2. CASE \E x, at : Move(c, at, x) /\ at # "clear"
            BY <1>0, <3>2, MoveEffect
        <3> QED
            BY <1>4, <3>1, <3>2 DEF CallStep, Deploy, CreatePerformer, CreateResource,
               CreateRefused, PerformerReady, NotReady, Monitor, PromotePerformer, SwitchSlots,
               RemovePerformer, ListPerformers, Shutdown, ShutdownCurrent, ClearCurrent,
               ShutdownNext, ClearNext, EndDeploy
    <2> QED
        BY <2>1 DEF Clearing
<1>5. ASSUME NEW c \in Callers, PerformerReady(c) \/ SwitchSlots(c) PROVE NilFits'
    <2>1. call[c].p \in Performers
        BY <1>5, CallPerformer DEF PerformerReady, SwitchSlots, Step
    <2>2. Clearing' => Clearing
        BY <1>4, <1>5 DEF CallStep, PerformerReady, SwitchSlots, ShutdownWaited, Step
    <2> QED
        BY <1>1, <1>2, <1>5, <2>1, <2>2 DEF PerformerReady, SwitchSlots, ghosts
<1>6. ASSUME NEW c \in Callers, ShutdownWaited(c) PROVE NilFits'
    BY <1>3, <1>6 DEF ShutdownWaited
<1>7. ASSUME NEW c \in Callers, ClearCurrent(c) PROVE NilFits'
    <2>1. Clearing
        BY <1>7 DEF ClearCurrent, Step, Clearing
    <2> QED
        BY <1>0, <1>3, <1>7, <2>1 DEF NilFits, ClearCurrent, ghosts
<1>8. ASSUME NEW c \in Callers, CallStep(c), ~PerformerReady(c), ~SwitchSlots(c),
             ~ShutdownWaited(c), ~ClearCurrent(c)
      PROVE  NilFits'
    <2>1. removed \subseteq removed' /\ (current' = current \/ removed' # {})
        BY <1>8 DEF CallStep, Deploy, CreatePerformer, CreateResource, CreateRefused, NotReady,
           Monitor, PromotePerformer, RemovePerformer, ListPerformers, Shutdown, ShutdownCurrent,
           ShutdownNext, ClearNext, slots, ghosts
    <2> QED
        BY <1>1, <1>3, <1>4, <1>8, <2>1
<1>9. ASSUME NEW c \in Callers, CallBegins(c) \/ Initialize(c) PROVE NilFits'
    <2>1. UNCHANGED <<current, removed>>
        BY <1>9 DEF CallBegins, Initialize, slots, ghosts
    <2>2. Clearing' => Clearing
        BY <1>t, <1>9 DEF CallBegins, Initialize, Clearing
    <2> QED
        BY <1>1, <2>1, <2>2
<1>10. CASE \/ NewAvsKubernetesPerformer
            \/ \E p \in Performers : Reconcile(p) \/ handleDeletion(p) \/ PodChanges(p) \/ DrainStep(p)
            \/ \E t \in Tasks : RunTask(t) \/ TaskStep(t)
    <2>1. UNCHANGED <<current, removed, call>>
        BY <1>10 DEF NewAvsKubernetesPerformer, Reconcile, handleDeletion, PodChanges, DrainStep,
             DrainEnds, waitForTaskCompletion, RunTask, TaskStep, TaskAdmitted, TaskRefused,
             TaskReturns, slots, ghosts
    <2>2. Clearing' => Clearing
        BY <2>1 DEF Clearing
    <2> QED
        BY <1>1, <2>1, <2>2
<1> QED
    BY <1>5, <1>6, <1>7, <1>8, <1>9, <1>10 DEF Next

-----------------------------------------------------------------------------
(* The places of a performer *)

\* Whether a caller waits for a performer changes only with that caller.
LEMMA WaitingChange ==
    ASSUME NEW c \in Callers, \A d \in Callers : d # c => call'[d] = call[d],
           NEW p \in Performers
    PROVE  /\ call'[c].at # "waiting" /\ Waiting(p)' => Waiting(p)
           /\ call[c].at # "waiting" /\ Waiting(p) => Waiting(p)'
           /\ call'[c].at = "waiting" /\ call'[c].p # p /\ Waiting(p)' => Waiting(p)
           /\ call[c].p # p /\ Waiting(p) => Waiting(p)'
BY DEF Waiting

\* Only the holder of the lock waits, so one caller at a time.
LEMMA OneWaits ==
    ASSUME IInv, NEW p \in Performers, Waiting(p)
    PROVE  \E c \in Callers : performerMu = c /\ call[c].at = "waiting" /\ call[c].p = p
BY CallPerformer DEF Waiting, LockedSteps

\* When nobody else holds the lock, what is about to happen to the slots is known from the
\* caller that moves; and it stays so when that caller begins and ends at another step.
LEMMA SignsOfHolder ==
    ASSUME IInv, NEW c \in Callers, performerMu \in {None, c},
           \A d \in Callers : d # c => call'[d] = call[d]
    PROVE  /\ Marking => call[c].at \in {"wait", "delete", "clear", "switch"}
           /\ Switching => call[c].at = "switch"
           /\ Clearing => call[c].at = "clear"
           /\ ClearingNext => call[c].at = "clearNext"
           /\ Switching' => call'[c].at = "switch"
           /\ Clearing' => call'[c].at = "clear"
           /\ ClearingNext' => call'[c].at = "clearNext"
<1>1. \A d \in Callers : call[d].at \in LockedSteps => d = c
    BY CallPerformer, KubernetesConstants
<1>2. /\ {"wait", "delete", "clear", "switch"} \subseteq LockedSteps
      /\ "clearNext" \in LockedSteps
    BY DEF LockedSteps
<1>3. \A d \in Callers : d # c =>
         call'[d] = call[d] /\ call[d].at \notin {"wait", "delete", "clear", "switch", "clearNext"}
    BY <1>1, <1>2
<1> QED
    BY <1>3 DEF Marking, Switching, Clearing, ClearingNext

SignSteps == {"wait", "delete", "clear", "switch", "clearNext"}

LEMMA SignsKept ==
    ASSUME NEW c \in Callers, \A d \in Callers : d # c => call'[d] = call[d],
           call[c].at \notin SignSteps, call'[c].at \notin SignSteps
    PROVE  /\ Marking' <=> Marking
           /\ Switching' <=> Switching
           /\ Clearing' <=> Clearing
           /\ ClearingNext' <=> ClearingNext
BY DEF SignSteps, Marking, Switching, Clearing, ClearingNext

\* With the lock free, or held by a caller that creates a performer, nothing is about to
\* happen to the slots.
LEMMA NoSigns ==
    ASSUME IInv, NEW c \in Callers, performerMu \in {None, c}, call[c].at \notin SignSteps
    PROVE  ~Marking /\ ~Switching /\ ~Clearing /\ ~ClearingNext
<1>1. \A d \in Callers : call[d].at \in LockedSteps => d = c
    BY CallPerformer, KubernetesConstants
<1>2. \A d \in Callers : call[d].at \notin SignSteps
    BY <1>1 DEF LockedSteps, SignSteps
<1> QED
    BY <1>2 DEF SignSteps, Marking, Switching, Clearing, ClearingNext

LEMMA PlacesByOne ==
    /\ PlacesFit => \A p \in Performers : PlaceFits(p)
    /\ (\A p \in Performers : PlaceFits(p)') => PlacesFit'
BY DEF PlacesFit

\* A step that moves this performer nowhere: its resource stays, it enters no slot, nobody
\* begins to wait for it, if it is used now it was used before or is the current one, and
\* whoever was about to clear its slot still is.
LEMMA PlaceKept ==
    ASSUME NEW p \in Performers, PlaceFits(p),
           crd'[p] = "absent" <=> crd[p] = "absent", Exists(p)' <=> Exists(p),
           current' = p => current = p, next' = p => next = p, wasReady \subseteq wasReady',
           Waiting(p)' => Waiting(p),
           Unused(p) => Unused(p)' \/ current = p,
           current' = p => /\ drain'[p] = drain[p]
                           /\ Switching => Switching'
                           /\ Clearing => Clearing'
                           /\ lifecycle'[p] \notin {"none", "active"} => Marking',
           next' = p => (ClearingNext => ClearingNext')
    PROVE  PlaceFits(p)'
BY DEF PlaceFits

\* A performer that was created and has no place any more.
LEMMA PlaceLeft ==
    ASSUME NEW p \in Performers, p \notin {current', next'}, ~Waiting(p)', crd'[p] # "absent"
    PROVE  PlaceFits(p)'
BY DEF PlaceFits

\* A caller's step that touches neither the performers nor the slots.
LEMMA PlacesCallOnly ==
    ASSUME IInv, NEW c \in Callers, \A d \in Callers : d # c => call'[d] = call[d],
           call'[c].at # "waiting", call[c].at \notin SignSteps, call'[c].at \notin SignSteps,
           UNCHANGED <<current, next, crd, lifecycle, drain, task, wasReady>>
    PROVE  PlacesFit'
<1> SUFFICES ASSUME NEW p \in Performers PROVE PlaceFits(p)'
    BY PlacesByOne
<1>1. PlaceFits(p)
    BY PlacesByOne DEF IInv
<1>2. Waiting(p)' => Waiting(p)
    BY WaitingChange
<1>3. /\ Marking' <=> Marking
      /\ Switching' <=> Switching
      /\ Clearing' <=> Clearing
      /\ ClearingNext' <=> ClearingNext
    BY SignsKept
<1>4. Exists(p)' <=> Exists(p)
    BY DEF Exists
<1>5. Unused(p)' <=> Unused(p)
    BY DEF Unused
<1> QED
    BY <1>1, <1>2, <1>3, <1>4, <1>5, PlaceKept DEF PlaceFits

\* The cluster, the drains and the tasks.
LEMMA PlacesEnvironment ==
    ASSUME IInv, ~Panic,
           \/ NewAvsKubernetesPerformer
           \/ \E p \in Performers : Reconcile(p) \/ handleDeletion(p) \/ PodChanges(p) \/ DrainStep(p)
           \/ \E t \in Tasks : RunTask(t) \/ TaskStep(t)
    PROVE  PlacesFit'
<1> SUFFICES ASSUME NEW p \in Performers PROVE PlaceFits(p)'
    BY PlacesByOne
<1>0. TypeOK /\ TasksFit
    BY DEF IInv
<1>1. PlaceFits(p)
    BY PlacesByOne DEF IInv
<1>2. UNCHANGED <<call, current, next>>
    BY DEF NewAvsKubernetesPerformer, Reconcile, handleDeletion, PodChanges, DrainStep,
           waitForTaskCompletion, DrainEnds, RunTask, TaskStep, TaskAdmitted, TaskRefused,
           TaskReturns, slots
<1>3. /\ Waiting(p)' <=> Waiting(p)
      /\ Marking' <=> Marking
      /\ Switching' <=> Switching
      /\ Clearing' <=> Clearing
      /\ ClearingNext' <=> ClearingNext
    BY <1>2 DEF Waiting, Marking, Switching, Clearing, ClearingNext
<1>4. /\ crd \in [Performers -> CRDs] /\ lifecycle \in [Performers -> Lifecycles]
      /\ drain \in [Performers -> Drains]
    BY <1>0 DEF TypeOK
<1>5. ASSUME NEW q \in Performers, Reconcile(q) \/ handleDeletion(q) \/ PodChanges(q)
      PROVE  PlaceFits(p)'
    <2>1. UNCHANGED <<lifecycle, drain, task>> /\ wasReady \subseteq wasReady'
        BY <1>5 DEF Reconcile, handleDeletion, PodChanges, tracking
    <2>2. (crd'[p] = "absent" <=> crd[p] = "absent") /\ (Exists(p)' <=> Exists(p))
        BY <1>4, <1>5 DEF Reconcile, handleDeletion, PodChanges, Exists
    <2>3. Unused(p)' <=> Unused(p)
        BY <2>1 DEF Unused
    <2> QED
        BY <1>1, <1>2, <1>3, <2>1, <2>2, <2>3, PlaceKept DEF PlaceFits
<1>6. ASSUME NEW q \in Performers, DrainStep(q) PROVE PlaceFits(p)'
    <2>1. drain[q] # "none"
        BY <1>6 DEF DrainStep, waitForTaskCompletion, DrainEnds
    <2>2. CASE p = q
        <3>1. /\ p # next /\ ~Waiting(p) /\ crd[p] # "absent"
              /\ current = p => Switching /\ Marking /\ p \in wasReady
            BY <1>1, <2>1, <2>2 DEF PlaceFits, Unused, Switching, Marking
        <3>2. crd'[p] # "absent" /\ wasReady' = wasReady
            BY <1>0, <1>6, <2>2, <3>1, DeleteEffect DEF DrainStep, waitForTaskCompletion, DrainEnds, cluster
        <3>3. current = p /\ ~Exists(p)' => Clearing \/ drain'[p] = "done"
            <4>1. CASE waitForTaskCompletion(p)
                BY <1>1, <1>4, <4>1 DEF PlaceFits, waitForTaskCompletion, cluster, Exists
            <4>2. CASE DrainEnds(p)
                BY <1>4, <4>2 DEF DrainEnds
            <4> QED
                BY <1>6, <2>2, <4>1, <4>2 DEF DrainStep
        <3> QED
            BY <1>2, <1>3, <3>1, <3>2, <3>3 DEF PlaceFits
    <2>3. CASE p # q
        <3>1. crd'[p] = crd[p] /\ wasReady' = wasReady
            BY <1>0, <1>6, <2>3, DeleteEffect DEF DrainStep, waitForTaskCompletion, DrainEnds, cluster
        <3>2. lifecycle'[p] = lifecycle[p] /\ drain'[p] = drain[p] /\ task' = task
            BY <1>4, <1>6, <2>3 DEF DrainStep, waitForTaskCompletion, DrainEnds
        <3>3. (Unused(p)' <=> Unused(p)) /\ (Exists(p)' <=> Exists(p))
            BY <3>1, <3>2 DEF Unused, Exists
        <3> QED
            BY <1>1, <1>2, <1>3, <3>1, <3>2, <3>3, PlaceKept DEF PlaceFits
    <2> QED
        BY <2>2, <2>3
<1>7. ASSUME NEW t \in Tasks, RunTask(t) \/ TaskStep(t) PROVE PlaceFits(p)'
    <2>1. UNCHANGED <<crd, drain, wasReady>>
        BY <1>7 DEF RunTask, TaskStep, TaskAdmitted, TaskRefused, TaskReturns, cluster, tracking
    <2>2. Exists(p)' <=> Exists(p)
        BY <2>1 DEF Exists
    <2>3. lifecycle'[p] # lifecycle[p] => lifecycle'[p] = "active" /\ task[t].p = p
        BY <1>4, <1>7 DEF RunTask, TaskStep, TaskAdmitted, tryAddTask, TaskRefused, TaskReturns, tracking
    <2>4. ASSUME Unused(p), current # p PROVE Unused(p)'
        <3>1. lifecycle'[p] = "none" /\ drain'[p] = "none"
            BY <2>1, <2>3, <2>4 DEF Unused
        <3>2. PICK k : task' = [task EXCEPT ![t] = k] /\ k.p # p
            <4>1. IdleTask.p # p
                BY KubernetesConstants DEF IdleTask
            <4>2. task[t].p # p
                BY <2>4 DEF Unused
            <4> QED
                BY <1>0, <1>7, <2>4, <4>1, <4>2, TaskChange DEF TaskStep
        <3>3. \A u \in Tasks : task'[u].p # p
            BY <1>0, <2>4, <3>2 DEF Unused, TypeOK
        <3> QED
            BY <3>1, <3>3 DEF Unused
    <2> QED
        BY <1>1, <1>2, <1>3, <2>1, <2>2, <2>3, <2>4, PlaceKept DEF PlaceFits
<1>8. CASE NewAvsKubernetesPerformer
    <2>1. UNCHANGED <<lifecycle, drain, task, crd, wasReady>>
        BY <1>8 DEF NewAvsKubernetesPerformer, tracking, cluster
    <2>2. (Unused(p)' <=> Unused(p)) /\ (Exists(p)' <=> Exists(p))
        BY <2>1 DEF Unused, Exists
    <2> QED
        BY <1>1, <1>2, <1>3, <2>1, <2>2, PlaceKept DEF PlaceFits
<1> QED
    BY <1>5, <1>6, <1>7, <1>8

\* A caller whose performer gets its resource, becomes ready, or is given up.
LEMMA PlacesCreate ==
    ASSUME IInv, NEW c \in Callers, CreateResource(c) \/ PerformerReady(c) \/ NotReady(c)
    PROVE  PlacesFit'
<1> USE KubernetesConstants
<1> SUFFICES ASSUME NEW q \in Performers PROVE PlaceFits(q)'
    BY PlacesByOne
<1>0. TypeOK /\ StatusFits
    BY DEF IInv
<1>1. PlaceFits(q)
    BY PlacesByOne DEF IInv
<1>2. crd \in [Performers -> CRDs]
    BY <1>0 DEF TypeOK
<1>3. UNCHANGED <<lifecycle, drain, task, wasReady>>
    BY DEF CreateResource, PerformerReady, NotReady, tracking, cluster
<1>4. Unused(q)' <=> Unused(q)
    BY <1>3 DEF Unused
<1>5. /\ performerMu = c /\ call[c].at \in {"create", "waiting"} /\ next = None
      /\ call[c].op \in {"deploy", "initialize"} /\ (call[c].op = "initialize" => current = Unset)
    BY CallPerformer DEF CreateResource, PerformerReady, NotReady, LockedSteps, HolderFits
<1>6. ~Marking /\ ~Switching /\ ~Clearing /\ ~ClearingNext
    BY <1>5, NoSigns DEF SignSteps
<1>7. CASE CreateResource(c)
    <2>1. PICK p \in Performers : CRDCreate(p) /\ Move(c, "waiting", p)
        BY <1>7 DEF CreateResource
    <2>2. UNCHANGED <<current, next>> /\ \A d \in Callers : d # c => call'[d] = call[d]
        BY <1>0, <1>7, <2>1, MoveEffect DEF CreateResource, slots
    <2>3. CASE q = p
        <3>1. Unused(q) /\ q \notin {current, next} /\ Exists(q)'
            BY <1>1, <1>2, <2>1, <2>3 DEF CRDCreate, PlaceFits, Exists
        <3>2. crd'[q] # "absent"
            BY <3>1 DEF Exists
        <3> QED
            BY <1>4, <2>2, <3>1, <3>2 DEF PlaceFits
    <2>4. CASE q # p
        <3>1. crd'[q] = crd[q] /\ (Exists(q)' <=> Exists(q))
            BY <1>2, <2>1, <2>4 DEF CRDCreate, Exists
        <3>2. Waiting(q)' => Waiting(q)
            BY <1>0, <2>1, <2>2, <2>4, MoveEffect, WaitingChange
        <3> QED
            BY <1>1, <1>3, <1>4, <1>6, <2>2, <3>1, <3>2, PlaceKept DEF PlaceFits
    <2> QED
        BY <2>3, <2>4
<1>8. CASE PerformerReady(c) \/ NotReady(c)
    <2>0. PICK p \in Performers : p = call[c].p /\ call[c].at = "waiting"
        BY <1>8, CallPerformer DEF PerformerReady, NotReady
    <2>1. Waiting(p)
        BY <2>0 DEF Waiting
    <2>2. /\ Unused(p) /\ p \notin {current, next} /\ Exists(p)
        BY <2>1, PlacesByOne DEF IInv, PlaceFits
    <2>3. /\ \A d \in Callers : d # c => call'[d] = call[d]
          /\ call'[c].at # "waiting"
        BY <1>0, <1>8, MoveEffect, ReturnEffect DEF PerformerReady, NotReady, EndDeploy, IdleCall
    <2>4. ~Waiting(q)'
        BY <1>5, <2>3, CallPerformer DEF Waiting, LockedSteps
    <2>5. CASE PerformerReady(c)
        <3>1. crd' = crd
            BY <2>5 DEF PerformerReady, cluster
        <3>2. Exists(q)' <=> Exists(q)
            BY <3>1 DEF Exists
        <3>3. p \in wasReady
            BY <1>0, <2>0, <2>5 DEF PerformerReady, GetPerformerStatus, StatusFits
        <3>4. \/ current' = current /\ next' = next
              \/ current' = current /\ next' = p
              \/ current' = p /\ next' = next /\ call[c].op = "initialize"
            BY <2>0, <2>5 DEF PerformerReady
        <3>5. CASE q = p
            <4>1. lifecycle'[p] = "none" /\ drain'[p] = "none"
                BY <1>3, <2>2 DEF Unused
            <4>2. crd'[p] # "absent"
                BY <2>2, <3>1 DEF Exists
            <4>3. ~(current' = p /\ next' = p)
                BY <1>5, <2>2, <3>4
            <4> QED
                BY <1>3, <1>4, <2>2, <2>4, <3>2, <3>3, <3>5, <4>1, <4>2, <4>3 DEF PlaceFits
        <3>6. CASE q # p
            BY <1>1, <1>3, <1>4, <1>6, <2>4, <3>1, <3>2, <3>4, <3>6, PlaceKept DEF PlaceFits
        <3> QED
            BY <3>5, <3>6
    <2>6. CASE NotReady(c)
        <3>1. UNCHANGED <<current, next>>
            BY <2>6 DEF NotReady
        <3>2. CASE q = p
            <4>1. crd[p] # "absent"
                BY <2>2 DEF Exists
            <4>2. crd'[p] # "absent"
                BY <1>0, <2>0, <2>6, <4>1, DeleteEffect DEF NotReady, CleanUp
            <4> QED
                BY <2>2, <2>4, <3>1, <3>2, <4>2, PlaceLeft
        <3>3. CASE q # p
            <4>1. crd'[q] = crd[q]
                BY <1>0, <2>0, <2>6, <3>3, DeleteEffect DEF NotReady, CleanUp
            <4>2. Exists(q)' <=> Exists(q)
                BY <4>1 DEF Exists
            <4> QED
                BY <1>1, <1>3, <1>4, <1>6, <2>4, <3>1, <4>1, <4>2, PlaceKept DEF PlaceFits
        <3> QED
            BY <3>2, <3>3
    <2> QED
        BY <1>8, <2>5, <2>6
<1> QED
    BY <1>7, <1>8

\* Promotion and removal.
LEMMA PlacesSwitch ==
    ASSUME IInv, ~Panic, NEW c \in Callers, PromotePerformer(c) \/ RemovePerformer(c)
    PROVE  PlacesFit'
<1> USE KubernetesConstants
<1> SUFFICES ASSUME NEW q \in Performers PROVE PlaceFits(q)'
    BY PlacesByOne
<1>0. TypeOK
    BY DEF IInv
<1>1. PlaceFits(q) /\ (current \in Performers => PlaceFits(current))
    BY PlacesByOne DEF IInv
<1>2. /\ crd \in [Performers -> CRDs] /\ lifecycle \in [Performers -> Lifecycles]
      /\ drain \in [Performers -> Drains] /\ current \in Performers \cup {Unset, TypedNil}
    BY <1>0 DEF TypeOK
<1>3. PICK p \in Performers : p = call[c].p
    BY CallPerformer DEF PromotePerformer, RemovePerformer, Step
<1>4. performerMu = None /\ call[c].at # "waiting" /\ call[c].at \notin SignSteps
    BY DEF PromotePerformer, RemovePerformer, Step, SignSteps
<1>5. /\ ~Marking /\ ~Switching /\ ~Clearing /\ ~ClearingNext
      /\ \A r \in Performers : ~Waiting(r)
    BY <1>4, NoSigns, OneWaits
<1>6. /\ \A d \in Callers : d # c => call'[d] = call[d]
      /\ call'[c].at # "waiting"
    BY <1>0, MoveEffect, ReturnEffect DEF PromotePerformer, RemovePerformer, EndDeploy, IdleCall
<1>7. ~Waiting(q)'
    BY <1>5, <1>6, WaitingChange
<1>8. CASE PromotePerformer(c)
    <2>1. crd' = crd /\ task' = task /\ wasReady' = wasReady /\ UNCHANGED <<current, next>>
        BY <1>8 DEF PromotePerformer, cluster
    <2>2. Exists(q)' <=> Exists(q)
        BY <2>1 DEF Exists
    <2>3. CASE UNCHANGED <<lifecycle, drain>>
        <3>1. Unused(q)' <=> Unused(q)
            BY <2>1, <2>3 DEF Unused
        <3> QED
            BY <1>1, <1>5, <1>7, <2>1, <2>2, <2>3, <3>1, PlaceKept DEF PlaceFits
    <2>4. CASE Move(c, "switch", p) /\ startDrain(current)
        <3>1. Switching' /\ Marking'
            BY <1>0, <2>4, MoveEffect DEF Switching, Marking
        <3>2. CASE q = current
            BY <1>1, <1>5, <1>7, <2>1, <2>2, <3>1, <3>2 DEF PlaceFits
        <3>3. CASE q # current
            <4>1. lifecycle'[q] = lifecycle[q] /\ drain'[q] = drain[q]
                BY <1>2, <2>4, <3>3 DEF startDrain
            <4>2. Unused(q)' <=> Unused(q)
                BY <2>1, <4>1 DEF Unused
            <4> QED
                BY <1>1, <1>5, <1>7, <2>1, <2>2, <3>3, <4>1, <4>2, PlaceKept
        <3> QED
            BY <3>2, <3>3
    <2> QED
        BY <1>3, <1>8, <2>3, <2>4 DEF PromotePerformer
<1>9. CASE RemovePerformer(c)
    <2>1. UNCHANGED <<task, lifecycle, drain, wasReady>>
        BY <1>9 DEF RemovePerformer, tracking
    <2>2. Unused(q)' <=> Unused(q)
        BY <2>1 DEF Unused
    <2>3. CASE p \notin {current, next}
        <3>1. UNCHANGED <<current, next, crd>>
            BY <1>3, <1>9, <2>3 DEF RemovePerformer
        <3>2. Exists(q)' <=> Exists(q)
            BY <3>1 DEF Exists
        <3> QED
            BY <1>1, <1>5, <1>7, <2>1, <2>2, <3>1, <3>2, PlaceKept DEF PlaceFits
    <2>4. CASE p \in {current, next}
        <3>1. /\ DeletePerformer(p)
              /\ current' = IF current = p THEN TypedNil ELSE current
              /\ next' = IF current # p THEN None ELSE next
            BY <1>3, <1>9, <2>4 DEF RemovePerformer, CurrentAfterRemove
        <3>2. crd[p] # "absent" /\ (next = p => current # p)
            BY <2>4, PlacesByOne DEF IInv, PlaceFits
        <3>3. CASE q = p
            <4>1. crd'[q] # "absent" /\ q \notin {current', next'}
                BY <1>0, <2>4, <3>1, <3>2, <3>3, DeleteEffect
            <4> QED
                BY <1>7, <4>1, PlaceLeft
        <3>4. CASE q # p
            <4>1. crd'[q] = crd[q]
                BY <1>0, <3>1, <3>4, DeleteEffect
            <4>2. (Exists(q)' <=> Exists(q)) /\ (current' = q => current = q) /\ (next' = q => next = q)
                BY <3>1, <4>1 DEF Exists
            <4> QED
                BY <1>1, <1>5, <1>7, <2>1, <2>2, <4>1, <4>2, PlaceKept DEF PlaceFits
        <3> QED
            BY <3>3, <3>4
    <2> QED
        BY <2>3, <2>4
<1> QED
    BY <1>8, <1>9

\* The slots are switched.
LEMMA PlacesSwitched ==
    ASSUME IInv, NEW c \in Callers, SwitchSlots(c)
    PROVE  PlacesFit'
<1> USE KubernetesConstants
<1> SUFFICES ASSUME NEW q \in Performers PROVE PlaceFits(q)'
    BY PlacesByOne
<1>0. TypeOK
    BY DEF IInv
<1>1. PlaceFits(q)
    BY PlacesByOne DEF IInv
<1>2. PICK p \in Performers : p = call[c].p
    BY CallPerformer DEF SwitchSlots, Step
<1>3. performerMu = c /\ call[c].at = "switch" /\ next = p
    BY <1>2, CallPerformer DEF SwitchSlots, Step, LockedSteps, HolderFits
<1>4. (\A d \in Callers : d # c => call'[d] = call[d]) /\ call'[c].at = "idle"
    BY <1>0, ReturnEffect DEF SwitchSlots, EndDeploy, IdleCall
<1>5. ~Clearing /\ ~ClearingNext /\ ~ClearingNext'
    BY <1>3, <1>4, SignsOfHolder
<1>6. ~Waiting(q)'
    BY <1>3, <1>4, OneWaits, WaitingChange
<1>7. /\ current' = p /\ next' = None
      /\ UNCHANGED <<lifecycle, drain, crd, task, wasReady>>
    BY <1>2 DEF SwitchSlots, tracking, cluster
<1>8. (Exists(q)' <=> Exists(q)) /\ (Unused(q)' <=> Unused(q))
    BY <1>7 DEF Exists, Unused
<1>9. CASE q = p
    <2>1. /\ Unused(q) /\ Exists(q) /\ q \in wasReady /\ crd[q] # "absent"
        BY <1>1, <1>3, <1>5, <1>9 DEF PlaceFits
    <2>2. lifecycle'[q] = "none" /\ drain'[q] = "none"
        BY <1>7, <2>1 DEF Unused
    <2> QED
        BY <1>6, <1>7, <1>8, <1>9, <2>1, <2>2 DEF PlaceFits
<1>10. CASE q # p
    BY <1>1, <1>6, <1>7, <1>8, <1>10, PlaceKept
<1> QED
    BY <1>9, <1>10

\* Shutdown, up to the deletion of a performer ...
LEMMA PlacesShutdown ==
    ASSUME IInv, ~Panic, NEW c \in Callers,
           Shutdown(c) \/ ShutdownCurrent(c) \/ ShutdownWaited(c) \/ ShutdownNext(c)
    PROVE  PlacesFit'
<1> USE KubernetesConstants
<1> SUFFICES ASSUME NEW q \in Performers PROVE PlaceFits(q)'
    BY PlacesByOne
<1>0. TypeOK
    BY DEF IInv
<1>1. PlaceFits(q)
    BY PlacesByOne DEF IInv
<1>2. /\ crd \in [Performers -> CRDs] /\ lifecycle \in [Performers -> Lifecycles]
      /\ drain \in [Performers -> Drains] /\ current \in Performers \cup {Unset, TypedNil}
      /\ next \in Performers \cup {None} /\ call \in [Callers -> CallRecords]
    BY <1>0 DEF TypeOK
<1>3. /\ performerMu \in {None, c} /\ call[c].at # "waiting"
      /\ call[c].at \in {"lock", "current", "wait", "delete", "next"}
    BY CallPerformer DEF Shutdown, ShutdownCurrent, ShutdownWaited, ShutdownNext, Step, LockedSteps
<1>4. \A r \in Performers : ~Waiting(r)
    BY <1>3, OneWaits
<1>5. /\ \A d \in Callers : d # c => call'[d] = call[d]
      /\ call'[c].at \in {"next", "current", "wait", "delete", "clear", "clearNext"}
    <2>1. \E x : \E at \in {"next", "current", "wait", "delete", "clear", "clearNext"} : Move(c, at, x)
        BY DEF Shutdown, ShutdownCurrent, ShutdownWaited, ShutdownNext
    <2> QED
        BY <1>0, <2>1, MoveEffect
<1>6. ~Waiting(q)'
    BY <1>4, <1>5, WaitingChange
<1>7. /\ ~Switching /\ ~Clearing /\ ~ClearingNext
      /\ Marking => call[c].at \in {"wait", "delete"}
    BY <1>3, <1>5, SignsOfHolder
<1>8. wasReady' = wasReady /\ task' = task /\ UNCHANGED <<current, next>>
    BY DEF Shutdown, ShutdownCurrent, ShutdownWaited, ShutdownNext, cluster, slots
<1>9. CASE Shutdown(c)
    <2>1. /\ crd' = crd /\ lifecycle'[q] = "none"
          /\ drain[q] = "none" => drain'[q] = "none"
        BY <1>9 DEF Shutdown, cluster
    <2>2. (Exists(q)' <=> Exists(q)) /\ (Unused(q) => Unused(q)')
        BY <1>8, <2>1 DEF Exists, Unused
    <2> QED
        BY <1>1, <1>6, <1>7, <1>8, <2>1, <2>2, PlaceKept DEF PlaceFits
<1>10. CASE ShutdownCurrent(c)
    <2>1. UNCHANGED <<crd, drain>>
        BY <1>10 DEF ShutdownCurrent, cluster
    <2>2. q # current => lifecycle'[q] = lifecycle[q]
        BY <1>2, <1>10 DEF ShutdownCurrent
    <2>3. Marking'
        <3>1. PICK at \in {"wait", "delete"} : Move(c, at, current)
            BY <1>10 DEF ShutdownCurrent
        <3>2. call'[c].at \in {"wait", "delete"}
            BY <1>0, <3>1, MoveEffect
        <3> QED
            BY <3>2 DEF Marking
    <2>4. (Exists(q)' <=> Exists(q)) /\ (Unused(q) => Unused(q)' \/ current = q)
        BY <1>8, <2>1, <2>2 DEF Exists, Unused
    <2> QED
        BY <1>1, <1>6, <1>7, <1>8, <2>1, <2>3, <2>4, PlaceKept
<1>11. CASE ShutdownWaited(c)
    <2>1. PICK p \in Performers : p = call[c].p /\ p = current
        BY <1>11, CallPerformer DEF ShutdownWaited, Step, HolderFits
    <2>2. DeletePerformer(p) /\ UNCHANGED <<lifecycle, drain>> /\ Move(c, "clear", p)
        BY <1>11, <2>1 DEF ShutdownWaited, tracking
    <2>3. Clearing' /\ Marking'
        BY <1>0, <2>2, MoveEffect DEF Clearing, Marking
    <2>4. Unused(q)' <=> Unused(q)
        BY <1>8, <2>2 DEF Unused
    <2>5. CASE q = p
        <3>1. q # next /\ crd[q] # "absent" /\ drain[q] = "none" /\ q \in wasReady
            BY <1>1, <1>7, <2>1, <2>5 DEF PlaceFits
        <3>2. crd'[q] # "absent"
            BY <1>0, <2>2, <2>5, <3>1, DeleteEffect
        <3> QED
            BY <1>6, <1>8, <2>2, <2>3, <3>1, <3>2 DEF PlaceFits
    <2>6. CASE q # p
        <3>1. crd'[q] = crd[q]
            BY <1>0, <2>2, <2>6, DeleteEffect
        <3>2. Exists(q)' <=> Exists(q)
            BY <3>1 DEF Exists
        <3> QED
            BY <1>1, <1>6, <1>7, <1>8, <2>1, <2>4, <2>6, <3>1, <3>2, PlaceKept
    <2> QED
        BY <2>5, <2>6
<1>12. CASE ShutdownNext(c)
    <2>1. UNCHANGED <<lifecycle, drain>> /\ call[c].at = "next" /\ Move(c, "clearNext", None)
        BY <1>12 DEF ShutdownNext, tracking, Step
    <2>2. ClearingNext' /\ ~Marking
        BY <1>0, <1>7, <2>1, MoveEffect DEF ClearingNext
    <2>3. Unused(q)' <=> Unused(q)
        BY <1>8, <2>1 DEF Unused
    <2>4. CASE q = next
        <3>1. q # current /\ crd[q] # "absent" /\ DeletePerformer(q) /\ Unused(q) /\ q \in wasReady
            BY <1>1, <1>12, <2>4 DEF PlaceFits, ShutdownNext
        <3>2. crd'[q] # "absent"
            BY <1>0, <3>1, DeleteEffect
        <3> QED
            BY <1>6, <1>8, <2>2, <2>3, <3>1, <3>2 DEF PlaceFits
    <2>5. CASE q # next
        <3>1. crd'[q] = crd[q]
            BY <1>0, <1>2, <1>12, <2>5, DeleteEffect DEF ShutdownNext
        <3>2. Exists(q)' <=> Exists(q)
            BY <3>1 DEF Exists
        <3>3. current = q => lifecycle'[q] \in {"none", "active"}
            BY <1>1, <2>1, <2>2 DEF PlaceFits
        <3> QED
            BY <1>1, <1>6, <1>7, <1>8, <2>1, <2>3, <2>5, <3>1, <3>2, <3>3, PlaceKept
    <2> QED
        BY <2>4, <2>5
<1> QED
    BY <1>9, <1>10, <1>11, <1>12

\* ... and the clearing of its slot.
LEMMA PlacesCleared ==
    ASSUME IInv, NEW c \in Callers, ClearCurrent(c) \/ ClearNext(c)
    PROVE  PlacesFit'
<1> USE KubernetesConstants
<1> SUFFICES ASSUME NEW q \in Performers PROVE PlaceFits(q)'
    BY PlacesByOne
<1>0. TypeOK
    BY DEF IInv
<1>1. PlaceFits(q) /\ lifecycle \in [Performers -> Lifecycles]
    BY <1>0, PlacesByOne DEF IInv, TypeOK
<1>2. performerMu = c /\ call[c].at \in {"clear", "clearNext"}
    BY CallPerformer DEF ClearCurrent, ClearNext, Step, LockedSteps
<1>3. /\ \A d \in Callers : d # c => call'[d] = call[d]
      /\ call'[c].at \in {"next", "stopped"}
    BY <1>0, MoveEffect DEF ClearCurrent, ClearNext
<1>4. ~Switching /\ (Clearing => call[c].at = "clear") /\ (ClearingNext => call[c].at = "clearNext")
         /\ (Marking => call[c].at = "clear")
    BY <1>2, <1>3, SignsOfHolder
<1>5. ~Waiting(q)'
    BY <1>2, <1>3, OneWaits, WaitingChange
<1>6. UNCHANGED <<drain, crd, task, wasReady>>
    BY DEF ClearCurrent, ClearNext, tracking, cluster
<1>7. Exists(q)' <=> Exists(q)
    BY <1>6 DEF Exists
<1>8. CASE ClearCurrent(c)
    <2>1. PICK p \in Performers : p = call[c].p /\ p = current /\ call[c].at = "clear"
        BY <1>8, CallPerformer DEF ClearCurrent, Step, HolderFits
    <2>2. current' = TypedNil /\ next' = next /\ (q # p => lifecycle'[q] = lifecycle[q])
        BY <1>1, <1>8, <2>1 DEF ClearCurrent
    <2>3. CASE q = p
        <3>1. q # next /\ crd[q] # "absent"
            BY <1>1, <2>1, <2>3 DEF PlaceFits
        <3> QED
            BY <1>5, <1>6, <2>2, <3>1, PlaceLeft
    <2>4. CASE q # p
        <3>1. Unused(q)' <=> Unused(q)
            BY <1>6, <2>2, <2>4 DEF Unused
        <3> QED
            BY <1>1, <1>4, <1>5, <1>6, <1>7, <2>1, <2>2, <3>1, PlaceKept
    <2> QED
        BY <2>3, <2>4
<1>9. CASE ClearNext(c)
    <2>1. next' = None /\ current' = current /\ UNCHANGED lifecycle /\ call[c].at = "clearNext"
        BY <1>9 DEF ClearNext, Step, tracking
    <2>2. CASE q = next
        <3>1. q # current /\ crd[q] # "absent"
            BY <1>1, <2>2 DEF PlaceFits
        <3> QED
            BY <1>5, <1>6, <2>1, <3>1, PlaceLeft
    <2>3. CASE q # next
        <3>1. Unused(q)' <=> Unused(q)
            BY <1>6, <2>1 DEF Unused
        <3>2. current = q => lifecycle'[q] \in {"none", "active"}
            BY <1>1, <1>4, <2>1 DEF PlaceFits
        <3> QED
            BY <1>1, <1>4, <1>5, <1>6, <1>7, <2>1, <3>1, <3>2, PlaceKept
    <2> QED
        BY <2>2, <2>3
<1> QED
    BY <1>8, <1>9

LEMMA PlacesStep ==
    ASSUME IInv, Next, ~Panic, ~Crash
    PROVE  PlacesFit'
<1>0. TypeOK
    BY DEF IInv
<1>t. call \in [Callers -> CallRecords]
    BY <1>0 DEF TypeOK
<1>1. ASSUME NEW c \in Callers,
             \/ CallBegins(c) \/ Initialize(c) \/ Deploy(c) \/ CreatePerformer(c)
             \/ CreateRefused(c) \/ Monitor(c) \/ ListPerformers(c)
      PROVE  PlacesFit'
    <2>1. UNCHANGED <<current, next, crd, lifecycle, drain, task, wasReady>>
        BY <1>1 DEF CallBegins, Initialize, Deploy, CreatePerformer, CreateRefused, Monitor,
                    ListPerformers, slots, tracking, cluster
    <2>2. call[c].at \notin SignSteps
        BY <1>1 DEF CallBegins, Initialize, Deploy, CreatePerformer, CreateRefused, Monitor,
                    ListPerformers, Step, IdleCall, SignSteps
    <2>3. /\ \A d \in Callers : d # c => call'[d] = call[d]
          /\ call'[c].at # "waiting" /\ call'[c].at \notin SignSteps
        <3>1. CASE CallBegins(c) \/ Initialize(c)
            BY <1>t, <3>1 DEF CallBegins, Initialize, SignSteps
        <3>2. CASE Return(c)
            BY <1>0, <3>2, ReturnEffect DEF IdleCall, SignSteps
        <3>3. CASE \E x : \E at \in {"lock", "create", "promote", "cleanup"} : Move(c, at, x)
            BY <1>0, <3>3, MoveEffect DEF SignSteps
        <3> QED
            BY <1>1, <3>1, <3>2, <3>3
               DEF Deploy, CreatePerformer, CreateRefused, Monitor, ListPerformers, EndDeploy
    <2> QED
        BY <2>1, <2>2, <2>3, PlacesCallOnly
<1> QED
    BY <1>1, PlacesEnvironment, PlacesCreate, PlacesSwitch, PlacesSwitched, PlacesShutdown,
       PlacesCleared DEF Next, CallStep

-----------------------------------------------------------------------------
(* Nobody loses a resource *)

LEMMA ResourcesStep ==
    ASSUME IInv, Next, ~Panic, ~Crash
    PROVE  ResourcesFit'
<1> USE KubernetesConstants
<1>0. TypeOK /\ PlacesFit
    BY DEF IInv
<1>1. /\ crd \in [Performers -> CRDs] /\ lifecycle \in [Performers -> Lifecycles]
      /\ drain \in [Performers -> Drains] /\ left \in [Performers -> Causes]
      /\ current \in Performers \cup {Unset, TypedNil} /\ next \in Performers \cup {None}
      /\ call \in [Callers -> CallRecords]
    BY <1>0 DEF TypeOK
<1>2. \A q \in Performers : Exists(q) => Answered(q)
    BY DEF IInv, ResourcesFit
<1>3. SUFFICES ASSUME NEW q \in Performers, Exists(q)' PROVE Answered(q)'
    BY DEF ResourcesFit
<1>4. PlaceFits(q)
    BY <1>0, PlacesByOne
\* Enough: the resource was there, and whoever answered for it still does.
<1>5. ASSUME Exists(q), left[q] # "no" => left'[q] # "no",
             Held(q) => Held(q)',
             Waiting(q) => Waiting(q)',
             drain[q] \in {"started", "waiting", "released"} =>
                 drain'[q] \in {"started", "waiting", "released"}
      PROVE  Answered(q)'
    BY <1>2, <1>5 DEF Answered
\* A deletion by a caller or a drain: the other performers keep what they had.
<1>6. ASSUME NEW p \in Performers, DeletePerformer(p)
      PROVE  IF q = p THEN Answered(q)' ELSE Exists(q) /\ left'[q] = left[q]
    <2>1. CASE q = p
        BY <1>0, <1>3, <1>6, <2>1, DeleteEffect DEF Answered
    <2>2. CASE q # p
        BY <1>0, <1>3, <1>6, <2>2, DeleteEffect
    <2> QED
        BY <2>1, <2>2
<1>h. ASSUME UNCHANGED <<call, current, next>> PROVE Held(q)' <=> Held(q)
    BY <1>h DEF Held, Switching, Clearing, ClearingNext
<1>7. CASE \/ NewAvsKubernetesPerformer
           \/ \E p \in Performers : Reconcile(p) \/ handleDeletion(p) \/ PodChanges(p)
           \/ \E t \in Tasks : RunTask(t) \/ TaskStep(t)
    <2>1. UNCHANGED <<call, current, next, drain, left>>
        BY <1>7 DEF NewAvsKubernetesPerformer, Reconcile, handleDeletion, PodChanges, RunTask,
             TaskStep, TaskAdmitted, TaskRefused, TaskReturns, slots, tracking, ghosts
    <2>2. Exists(q)
        BY <1>1, <1>3, <1>7 DEF NewAvsKubernetesPerformer, Reconcile, handleDeletion, PodChanges,
             RunTask, TaskStep, TaskAdmitted, TaskRefused, TaskReturns, cluster, Exists
    <2>3. Waiting(q)' <=> Waiting(q)
        BY <2>1 DEF Waiting
    <2> QED
        BY <1>5, <1>h, <2>1, <2>2, <2>3
<1>8. ASSUME NEW p \in Performers, waitForTaskCompletion(p) PROVE Answered(q)'
    <2>1. UNCHANGED <<call, current, next, left, crd>>
        BY <1>8 DEF waitForTaskCompletion, slots, cluster, ghosts
    <2>2. Exists(q) /\ (Waiting(q)' <=> Waiting(q))
        BY <1>3, <2>1 DEF Exists, Waiting
    <2>3. drain[q] \in {"started", "waiting", "released"} => drain'[q] \in {"started", "waiting", "released"}
        BY <1>1, <1>8 DEF waitForTaskCompletion
    <2> QED
        BY <1>5, <1>h, <2>1, <2>2, <2>3
<1>9. ASSUME NEW p \in Performers, DrainEnds(p) PROVE Answered(q)'
    <2>1. DeletePerformer(p) /\ UNCHANGED <<call, current, next>>
        BY <1>9 DEF DrainEnds, slots
    <2>2. Waiting(q)' <=> Waiting(q)
        BY <2>1 DEF Waiting
    <2>3. q # p => drain'[q] = drain[q]
        BY <1>1, <1>9 DEF DrainEnds
    <2> QED
        BY <1>5, <1>6, <1>h, <2>1, <2>2, <2>3
<1>10. ASSUME NEW c \in Callers,
              \/ CallBegins(c) \/ Initialize(c) \/ Deploy(c) \/ CreatePerformer(c)
              \/ CreateRefused(c) \/ Monitor(c) \/ ListPerformers(c)
       PROVE  Answered(q)'
    <2>1. UNCHANGED <<current, next, crd, drain, left>>
        BY <1>10 DEF CallBegins, Initialize, Deploy, CreatePerformer, CreateRefused, Monitor,
                    ListPerformers, slots, tracking, cluster, ghosts
    <2>2. call[c].at # "waiting" /\ call[c].at \notin SignSteps
        BY <1>10 DEF CallBegins, Initialize, Deploy, CreatePerformer, CreateRefused, Monitor,
                    ListPerformers, Step, IdleCall, SignSteps
    <2>3. (\A d \in Callers : d # c => call'[d] = call[d]) /\ call'[c].at \notin SignSteps
        <3>1. CASE CallBegins(c) \/ Initialize(c)
            BY <1>1, <3>1 DEF CallBegins, Initialize, SignSteps
        <3>2. CASE Return(c)
            BY <1>0, <3>2, ReturnEffect DEF IdleCall, SignSteps
        <3>3. CASE \E x : \E at \in {"lock", "create", "promote", "cleanup"} : Move(c, at, x)
            BY <1>0, <3>3, MoveEffect DEF SignSteps
        <3> QED
            BY <1>10, <3>1, <3>2, <3>3
               DEF Deploy, CreatePerformer, CreateRefused, Monitor, ListPerformers, EndDeploy
    <2>4. Exists(q) /\ (Waiting(q) => Waiting(q)')
        BY <1>3, <2>1, <2>2, <2>3, WaitingChange DEF Exists
    <2>5. Held(q) => Held(q)'
        BY <2>1, <2>2, <2>3, SignsKept DEF Held
    <2> QED
        BY <1>5, <2>1, <2>4, <2>5
<1>11. ASSUME NEW c \in Callers, CreateResource(c) PROVE Answered(q)'
    <2>1. PICK p \in Performers : CRDCreate(p) /\ Move(c, "waiting", p)
        BY <1>11 DEF CreateResource
    <2>2. UNCHANGED <<current, next, drain, left>> /\ call[c].at = "create"
        BY <1>11 DEF CreateResource, slots, tracking, ghosts
    <2>3. CASE q = p
        BY <1>0, <2>1, <2>3, MoveEffect DEF Answered, Waiting
    <2>4. CASE q # p
        <3>1. Exists(q)
            BY <1>1, <1>3, <2>1, <2>4 DEF CRDCreate, Exists
        <3>2. Waiting(q) => Waiting(q)'
            BY <1>0, <2>1, <2>2, MoveEffect, WaitingChange
        <3>3. Held(q) => Held(q)'
            BY <1>0, <2>1, <2>2, MoveEffect, SignsKept DEF Held, SignSteps
        <3> QED
            BY <1>5, <2>2, <3>1, <3>2, <3>3
    <2> QED
        BY <2>3, <2>4
<1>12. ASSUME NEW c \in Callers, PerformerReady(c) PROVE Answered(q)'
    <2>1. PICK p \in Performers : p = call[c].p /\ call[c].at = "waiting"
        BY <1>12, CallPerformer DEF PerformerReady
    <2>2. /\ next = None /\ (call[c].op = "initialize" => current = Unset) /\ performerMu = c
        BY <2>1, CallPerformer DEF HolderFits, LockedSteps
    <2>3. Exists(q) /\ drain' = drain
        BY <1>3, <1>12 DEF PerformerReady, Exists, cluster, tracking
    <2>4. (\A d \in Callers : d # c => call'[d] = call[d]) /\ call'[c].at \in {"idle", "monitoring"}
        BY <1>0, <1>12, MoveEffect, ReturnEffect DEF PerformerReady, EndDeploy, IdleCall
    <2>7. ~Switching' /\ ~Clearing' /\ ~ClearingNext'
        BY <2>2, <2>4, SignsOfHolder
    <2>5. CASE q = p
        BY <1>1, <1>12, <2>1, <2>5, <2>7 DEF PerformerReady, Answered, Held
    <2>6. CASE q # p
        <3>1. Waiting(q) => Waiting(q)'
            BY <2>1, <2>4, <2>6, WaitingChange
        <3>2. left'[q] = left[q]
            BY <1>1, <1>12, <2>1, <2>6 DEF PerformerReady
        <3>3. Held(q) => Held(q)'
            BY <1>12, <2>2, <2>7 DEF PerformerReady, Held
        <3> QED
            BY <1>5, <2>3, <3>1, <3>2, <3>3
    <2> QED
        BY <2>5, <2>6
<1>13. ASSUME NEW c \in Callers, NotReady(c) PROVE Answered(q)'
    <2>1. PICK p \in Performers : p = call[c].p /\ call[c].at = "waiting"
        BY <1>13, CallPerformer DEF NotReady
    <2>2. UNCHANGED <<current, next, drain>> /\ Return(c)
        BY <1>13 DEF NotReady, EndDeploy, tracking
    <2>3. /\ q # p => (Waiting(q) => Waiting(q)')
          /\ Held(q) => Held(q)'
        BY <1>0, <2>1, <2>2, ReturnEffect, WaitingChange, SignsKept DEF Held, SignSteps, IdleCall
    <2>4. CASE DeletePerformer(p)
        BY <1>5, <1>6, <2>2, <2>3, <2>4
    <2>5. CASE left' = [left EXCEPT ![p] = "expired"] /\ UNCHANGED crd
        <3>1. Exists(q)
            BY <1>3, <2>5 DEF Exists
        <3>2. (q = p => left'[q] = "expired") /\ (q # p => left'[q] = left[q])
            BY <1>1, <2>5
        <3>3. CASE q = p
            BY <3>2, <3>3 DEF Answered
        <3>4. CASE q # p
            BY <1>5, <2>2, <2>3, <3>1, <3>2, <3>4
        <3> QED
            BY <3>3, <3>4
    <2> QED
        BY <1>13, <2>1, <2>4, <2>5 DEF NotReady, CleanUp
<1>14. ASSUME NEW c \in Callers, PromotePerformer(c) PROVE Answered(q)'
    <2>1. PICK p \in Performers : p = call[c].p
        BY <1>14, CallPerformer DEF PromotePerformer
    <2>2. /\ performerMu = None /\ left' = left /\ Exists(q) /\ call[c].at = "promote"
          /\ UNCHANGED <<current, next>>
        BY <1>3, <1>14 DEF PromotePerformer, ghosts, cluster, Exists
    <2>3. (\A d \in Callers : d # c => call'[d] = call[d]) /\ call'[c].at \in {"switch", "cleanup"}
        BY <1>0, <1>14, MoveEffect DEF PromotePerformer
    <2>4. Waiting(q) => Waiting(q)'
        BY <2>2, <2>3, WaitingChange
    <2>5. ~Clearing' /\ ~ClearingNext' /\ (Switching' => call'[c].at = "switch")
        BY <2>2, <2>3, SignsOfHolder
    <2>6. CASE q # current
        <3>1. drain'[q] = drain[q]
            BY <1>1, <1>14, <2>6 DEF PromotePerformer, startDrain
        <3>2. Held(q) => Held(q)'
            BY <2>2, <2>5, <2>6 DEF Held
        <3> QED
            BY <1>5, <2>2, <2>4, <3>1, <3>2
    <2>7. CASE q = current /\ Move(c, "cleanup", p) /\ UNCHANGED drain
        <3>1. ~Switching'
            BY <1>0, <2>5, <2>7, MoveEffect
        <3>2. Held(q)'
            BY <2>2, <2>5, <2>7, <3>1 DEF Held
        <3> QED
            BY <3>2 DEF Answered
    <2>8. CASE q = current /\ startDrain(current)
        <3>1. ~Marking
            BY <2>2, NoSigns DEF SignSteps
        <3>2. lifecycle[q] \in {"none", "active"}
            BY <1>4, <2>8, <3>1 DEF PlaceFits
        <3>3. drain'[q] = "started"
            BY <1>1, <2>8, <3>2 DEF startDrain
        <3> QED
            BY <3>3 DEF Answered
    <2> QED
        BY <1>14, <2>1, <2>6, <2>7, <2>8 DEF PromotePerformer
<1>15. ASSUME NEW c \in Callers, RemovePerformer(c) PROVE Answered(q)'
    <2>1. PICK p \in Performers : p = call[c].p
        BY <1>15, CallPerformer DEF RemovePerformer, Step
    <2>2. /\ drain' = drain /\ Return(c) /\ call[c].at # "waiting"
          /\ performerMu = None
        BY <1>15 DEF RemovePerformer, EndDeploy, tracking, Step
    <2>3. Waiting(q) => Waiting(q)'
        BY <1>0, <2>2, ReturnEffect, WaitingChange
    <2>6. ~Switching' /\ ~Clearing' /\ ~ClearingNext'
        BY <1>0, <2>2, ReturnEffect, SignsOfHolder DEF IdleCall
    <2>4. CASE UNCHANGED <<current, next, crd, left>>
        <3>1. Exists(q) /\ (Held(q) => Held(q)')
            BY <1>3, <2>4, <2>6 DEF Exists, Held
        <3> QED
            BY <1>5, <2>2, <2>3, <2>4, <3>1
    <2>5. CASE /\ DeletePerformer(p) /\ p \in {current, next}
               /\ current' = IF current = p THEN TypedNil ELSE current
               /\ next' = IF current # p THEN None ELSE next
        <3>1. q # p => (Held(q) => Held(q)')
            BY <2>5, <2>6 DEF Held
        <3> QED
            BY <1>5, <1>6, <2>2, <2>3, <2>5, <3>1
    <2> QED
        BY <1>15, <2>1, <2>4, <2>5 DEF RemovePerformer, CurrentAfterRemove
<1>16. ASSUME NEW c \in Callers, Shutdown(c) PROVE Answered(q)'
    <2>1. UNCHANGED <<current, next, crd>> /\ call[c].at = "lock"
        BY <1>16 DEF Shutdown, cluster, Step
    <2>2. /\ drain'[q] = IF drain[q] # "waiting" THEN drain[q]
                         ELSE IF count[q] = 0 THEN "released" ELSE "stranded"
          /\ left'[q] = IF drain'[q] = "stranded" THEN "stranded" ELSE left[q]
        BY <1>16 DEF Shutdown
    <2>3. PICK at \in {"next", "current"} : Move(c, at, None)
        BY <1>16 DEF Shutdown
    <2>4. Exists(q) /\ (Waiting(q) => Waiting(q)')
        BY <1>0, <1>3, <2>1, <2>3, MoveEffect, WaitingChange DEF Exists
    <2>7. Held(q) => Held(q)'
        BY <1>0, <2>1, <2>3, MoveEffect, SignsKept DEF Held, SignSteps
    <2>5. CASE drain'[q] = "stranded"
        BY <2>2, <2>5 DEF Answered
    <2>6. CASE drain'[q] # "stranded"
        BY <1>5, <2>2, <2>4, <2>6, <2>7
    <2> QED
        BY <2>5, <2>6
<1>17. ASSUME NEW c \in Callers, ShutdownCurrent(c) PROVE Answered(q)'
    <2>1. UNCHANGED <<current, next, crd, drain, left>> /\ call[c].at = "current"
        BY <1>17 DEF ShutdownCurrent, slots, cluster, ghosts, Step
    <2>2. PICK at \in {"wait", "delete"} : Move(c, at, current)
        BY <1>17 DEF ShutdownCurrent
    <2>3. Exists(q) /\ (Waiting(q) => Waiting(q)')
        BY <1>0, <1>3, <2>1, <2>2, MoveEffect, WaitingChange DEF Exists
    <2>4. ~Switching' /\ ~Clearing' /\ ~ClearingNext'
        <3>1. performerMu = c
            BY <2>1, CallPerformer DEF LockedSteps
        <3> QED
            BY <1>0, <2>2, <3>1, MoveEffect, SignsOfHolder
    <2>5. Held(q) => Held(q)'
        BY <2>1, <2>4 DEF Held
    <2> QED
        BY <1>5, <2>1, <2>3, <2>5
<1>18. ASSUME NEW c \in Callers, ShutdownWaited(c) PROVE Answered(q)'
    <2>1. PICK p \in Performers : p = call[c].p /\ p = current
        BY <1>18, CallPerformer DEF ShutdownWaited, Step, HolderFits
    <2>2. /\ DeletePerformer(p) /\ UNCHANGED <<current, next, drain>> /\ Move(c, "clear", p)
          /\ call[c].at # "waiting" /\ performerMu = c
        BY <1>18, <2>1, CallPerformer DEF ShutdownWaited, Step, tracking, slots, LockedSteps
    <2>3. Waiting(q) => Waiting(q)'
        BY <1>0, <2>2, MoveEffect, WaitingChange
    <2>4. ~ClearingNext'
        BY <1>0, <2>2, MoveEffect, SignsOfHolder
    <2>5. q # p => (Held(q) => Held(q)')
        BY <2>1, <2>2, <2>4 DEF Held
    <2> QED
        BY <1>5, <1>6, <2>2, <2>3, <2>5
<1>19. ASSUME NEW c \in Callers, ShutdownNext(c) PROVE Answered(q)'
    <2>1. /\ UNCHANGED <<current, next, drain>> /\ call[c].at = "next" /\ performerMu = c
          /\ Move(c, "clearNext", None)
        BY <1>19, CallPerformer DEF ShutdownNext, tracking, slots, Step, LockedSteps
    <2>2. Waiting(q) => Waiting(q)'
        BY <1>0, <2>1, MoveEffect, WaitingChange
    <2>3. ~Switching' /\ ~Clearing'
        BY <1>0, <2>1, MoveEffect, SignsOfHolder
    <2>4. q # next => (Held(q) => Held(q)')
        BY <2>1, <2>3 DEF Held
    <2>5. CASE next = None
        <3>1. Exists(q) /\ left' = left
            BY <1>3, <1>19, <2>5 DEF ShutdownNext, Exists
        <3> QED
            BY <1>5, <2>1, <2>2, <2>4, <2>5, <3>1
    <2>6. CASE next # None
        <3>1. next \in Performers /\ DeletePerformer(next)
            BY <1>1, <1>19, <2>6 DEF ShutdownNext
        <3> QED
            BY <1>5, <1>6, <2>1, <2>2, <2>4, <3>1
    <2> QED
        BY <2>5, <2>6
\* The slot of a performer that was about to leave it.
<1>20. ASSUME NEW c \in Callers, SwitchSlots(c) \/ ClearCurrent(c) \/ ClearNext(c)
       PROVE  Answered(q)'
    <2>1. /\ performerMu = c /\ call[c].at \in {"switch", "clear", "clearNext"}
          /\ UNCHANGED <<drain, left, crd>> /\ HolderFits(call[c])
        BY <1>20, CallPerformer DEF SwitchSlots, ClearCurrent, ClearNext, Step, LockedSteps,
           tracking, ghosts, cluster
    <2>2. /\ \A d \in Callers : d # c => call'[d] = call[d]
          /\ call'[c].at \in {"idle", "next", "stopped"}
        <3>1. CASE Return(c)
            BY <1>0, <3>1, ReturnEffect DEF IdleCall
        <3>2. CASE Move(c, "next", None) \/ Move(c, "stopped", None)
            BY <1>0, <3>2, MoveEffect
        <3> QED
            BY <1>20, <3>1, <3>2 DEF SwitchSlots, ClearCurrent, ClearNext, EndDeploy
    <2>3. ~Switching' /\ ~Clearing' /\ ~ClearingNext'
        BY <2>1, <2>2, SignsOfHolder
    <2>4. Exists(q) /\ (Waiting(q) => Waiting(q)')
        BY <1>3, <2>1, <2>2, WaitingChange DEF Exists
    <2>5. Held(q) => Held(q)'
        <3>1. CASE SwitchSlots(c)
            <4>1. Switching /\ current' = call[c].p /\ next = call[c].p
                BY <2>1, <3>1 DEF SwitchSlots, Step, Switching, HolderFits
            <4> QED
                BY <2>3, <4>1 DEF Held
        <3>2. CASE ClearCurrent(c)
            <4>1. Clearing /\ next' = next
                BY <3>2 DEF ClearCurrent, Step, Clearing
            <4> QED
                BY <2>3, <4>1 DEF Held
        <3>3. CASE ClearNext(c)
            <4>1. ClearingNext /\ current' = current
                BY <3>3 DEF ClearNext, Step, ClearingNext
            <4> QED
                BY <2>3, <4>1 DEF Held
        <3> QED
            BY <1>20, <3>1, <3>2, <3>3
    <2> QED
        BY <1>5, <2>1, <2>4, <2>5
<1> QED
    BY <1>7, <1>8, <1>9, <1>10, <1>11, <1>12, <1>13, <1>14, <1>15, <1>16, <1>17, <1>18, <1>19,
       <1>20 DEF Next, DrainStep, CallStep

-----------------------------------------------------------------------------
(* Until the shutdown *)

\* A shutdown that has begun goes on until the process ends.
LEMMA ShutdownStays ==
    ASSUME IInv, Next, ~Panic, ~Crash, ShuttingDown
    PROVE  ShuttingDown'
<1>0. TypeOK /\ CallsFit
    BY DEF IInv
<1>1. PICK c \in Callers : call[c].op = "shutdown" /\ call[c].at # "lock"
    BY DEF ShuttingDown
<1>t. call \in [Callers -> CallRecords]
    BY <1>0 DEF TypeOK
<1>2. CASE call'[c] = call[c]
    BY <1>1, <1>2 DEF ShuttingDown
<1>3. call[c].at \in {"current", "next", "clearNext", "stopped", "wait", "delete", "clear"}
    BY <1>0, <1>1 DEF CallsFit, CallFits
<1>4. ASSUME NEW d \in Callers, CallBegins(d) \/ Initialize(d) PROVE ShuttingDown'
    <2>1. call[d] = IdleCall
        BY <1>4 DEF CallBegins, Initialize
    <2>2. d # c
        BY <1>1, <2>1 DEF IdleCall
    <2>3. call'[c] = call[c]
        BY <1>t, <1>4, <2>2 DEF CallBegins, Initialize
    <2> QED
        BY <1>2, <2>3
<1>5. ASSUME NEW d \in Callers, CallStep(d), d # c PROVE ShuttingDown'
    <2>1. CASE Return(d)
        BY <1>0, <1>2, <1>5, <2>1, ReturnEffect
    <2>2. CASE \E x, at : Move(d, at, x)
        BY <1>0, <1>2, <1>5, <2>2, MoveEffect
    <2> QED
        BY <1>5, <2>1, <2>2 DEF CallStep, Deploy, CreatePerformer, CreateResource,
           CreateRefused, PerformerReady, NotReady, Monitor, PromotePerformer, SwitchSlots,
           RemovePerformer, ListPerformers, Shutdown, ShutdownCurrent, ShutdownWaited,
           ClearCurrent, ShutdownNext, ClearNext, EndDeploy
<1>6. ASSUME CallStep(c) PROVE ShuttingDown'
    <2>1. \/ ShutdownCurrent(c) \/ ShutdownWaited(c) \/ ClearCurrent(c) \/ ShutdownNext(c)
          \/ ClearNext(c)
        BY <1>1, <1>3, <1>6 DEF CallStep, Step, Deploy, CreatePerformer, CreateResource,
           CreateRefused, PerformerReady, NotReady, Monitor, PromotePerformer, SwitchSlots,
           RemovePerformer, ListPerformers, Shutdown
    <2>2. call'[c].op = "shutdown" /\ call'[c].at # "lock"
        <3>1. \E x : \E at \in {"wait", "delete", "clear", "next", "clearNext", "stopped"} : Move(c, at, x)
            BY <2>1 DEF ShutdownCurrent, ShutdownWaited, ClearCurrent, ShutdownNext, ClearNext
        <3> QED
            BY <1>0, <1>1, <3>1, MoveEffect
    <2> QED
        BY <2>2 DEF ShuttingDown
<1>7. CASE \/ NewAvsKubernetesPerformer
           \/ \E p \in Performers : Reconcile(p) \/ handleDeletion(p) \/ PodChanges(p) \/ DrainStep(p)
           \/ \E t \in Tasks : RunTask(t) \/ TaskStep(t)
    <2>1. UNCHANGED call
        BY <1>7 DEF NewAvsKubernetesPerformer, Reconcile, handleDeletion, PodChanges, DrainStep,
             TaskStep, waitForTaskCompletion, DrainEnds, RunTask, TaskAdmitted, TaskRefused,
             TaskReturns
    <2> QED
        BY <1>2, <2>1
<1> QED
    BY <1>4, <1>5, <1>6, <1>7 DEF Next

\* Calm, for one performer and for one task.
CalmPerformer(p) ==
    /\ drain[p] \in {"none", "started", "waiting", "done"}
    /\ drain[p] # "none" => lifecycle[p] \in {"draining", "shutdown"}
    /\ lifecycle[p] # "none" => count[p] = Cardinality(RunningOn(p))

CalmTask(t) ==
    /\ task[t].at = "running" => lifecycle[task[t].p] # "none"
    /\ task[t].at # "idle" =>
          \/ Exists(task[t].p) \/ task[t].p \in removed
          \/ drain[task[t].p] = "done" /\ task[t].at = "loaded"

LEMMA CalmByOne ==
    /\ Calm <=> (\A p \in Performers : CalmPerformer(p)) /\ (\A t \in Tasks : CalmTask(t))
    /\ Calm' <=> (\A p \in Performers : CalmPerformer(p)') /\ (\A t \in Tasks : CalmTask(t)')
BY DEF Calm, CalmPerformer, CalmTask

\* With no entry for a performer there is no task on it.
LEMMA NoEntryNoTask ==
    ASSUME IInv, Calm, NEW p \in Performers, lifecycle[p] = "none"
    PROVE  count[p] = 0 /\ RunningOn(p) = {} /\ Cardinality(RunningOn(p)) = 0
<1>1. count[p] = 0
    BY DEF IInv, CountsFit
<1>2. RunningOn(p) = {}
    BY DEF Calm, RunningOn
<1> QED
    BY <1>1, <1>2, FS_EmptySet

\* A step that leaves the tasks, their entries and the drains alone, and deletes only
\* performers that were removed or never had a task.
LEMMA CalmKept ==
    ASSUME IInv, Calm, UNCHANGED <<task, lifecycle, count, drain>>, removed \subseteq removed',
           \A p \in Performers : Exists(p) => Exists(p)' \/ p \in removed' \/ Unused(p)
    PROVE  Calm'
<1>1. \A p \in Performers : RunningOn(p)' = RunningOn(p)
    BY DEF RunningOn
<1>2. \A p \in Performers : CalmPerformer(p)'
    BY <1>1, CalmByOne DEF CalmPerformer
<1>3. ASSUME NEW t \in Tasks PROVE CalmTask(t)'
    <2>1. CalmTask(t)
        BY CalmByOne
    <2>2. task[t].at # "idle" => task[t].p \in Performers /\ ~Unused(task[t].p)
        BY DEF IInv, TasksFit, Unused
    <2>3. task'[t] = task[t]
        OBVIOUS
    <2>4. task[t].at # "idle" /\ Exists(task[t].p) => Exists(task[t].p)' \/ task[t].p \in removed'
        <3>1. task[t].at # "idle" => \E p \in Performers : p = task[t].p /\ p = task'[t].p
            BY <2>2, <2>3
        <3> QED
            BY <2>2, <3>1
    <2> QED
        BY <2>1, <2>3, <2>4 DEF CalmTask
<1> QED
    BY <1>2, <1>3, CalmByOne

\* A drain waits until its performer has no task left.
LEMMA CalmDrain ==
    ASSUME IInv, Calm, NEW p \in Performers, DrainStep(p)
    PROVE  Calm'
<1>0. TypeOK /\ TasksFit
    BY DEF IInv
<1>1. /\ lifecycle \in [Performers -> Lifecycles] /\ drain \in [Performers -> Drains]
      /\ task \in [Tasks -> TaskRecords]
    BY <1>0 DEF TypeOK
<1>2. CalmPerformer(p) /\ \A t \in Tasks : CalmTask(t)
    BY CalmByOne
<1>3. UNCHANGED <<task, count, removed>>
    BY DEF DrainStep, waitForTaskCompletion, DrainEnds, ghosts
<1>4. \A q \in Performers : RunningOn(q)' = RunningOn(q)
    BY <1>3 DEF RunningOn
<1>5. lifecycle[p] \in {"draining", "shutdown"} /\ drain[p] \in {"started", "waiting"}
    BY <1>2 DEF CalmPerformer, DrainStep, waitForTaskCompletion, DrainEnds
<1>6. /\ lifecycle'[p] \in {"draining", "shutdown"} /\ drain'[p] \in {"waiting", "done"}
      /\ \A q \in Performers : q # p => lifecycle'[q] = lifecycle[q] /\ drain'[q] = drain[q]
    BY <1>1, <1>5 DEF DrainStep, waitForTaskCompletion, DrainEnds
<1>7. ASSUME NEW q \in Performers PROVE CalmPerformer(q)'
    <2>1. CalmPerformer(q)
        BY CalmByOne
    <2>2. CASE q = p
        BY <1>3, <1>4, <1>5, <1>6, <2>1, <2>2 DEF CalmPerformer
    <2>3. CASE q # p
        BY <1>3, <1>4, <1>6, <2>1, <2>3 DEF CalmPerformer
    <2> QED
        BY <2>2, <2>3
<1>8. ASSUME NEW t \in Tasks PROVE CalmTask(t)'
    <2>1. CASE task[t].at = "idle"
        BY <1>3, <2>1 DEF CalmTask
    <2>2. CASE task[t].at # "idle"
        <3>1. PICK q \in Performers : q = task[t].p /\ q = task'[t].p
            BY <1>0, <1>3, <2>2 DEF TasksFit
        <3>2. task[t].at = "running" => lifecycle'[q] # "none"
            BY <1>2, <1>6, <3>1 DEF CalmTask
        <3>3. CASE waitForTaskCompletion(p)
            <4>1. Exists(q)' <=> Exists(q)
                BY <3>3 DEF waitForTaskCompletion, cluster, Exists
            <4>2. drain[q] = "done" => drain'[q] = "done"
                BY <1>5, <1>6
            <4> QED
                BY <1>2, <1>3, <3>1, <3>2, <4>1, <4>2 DEF CalmTask
        <3>4. CASE DrainEnds(p) /\ q # p
            <4>1. Exists(q)' <=> Exists(q)
                BY <1>0, <3>4, DeleteEffect DEF DrainEnds, Exists
            <4>2. drain'[q] = drain[q]
                BY <1>6, <3>4
            <4> QED
                BY <1>2, <1>3, <3>1, <3>2, <4>1, <4>2 DEF CalmTask
        <3>5. CASE DrainEnds(p) /\ q = p
            <4>1. count[p] = 0 /\ drain'[p] = "done"
                BY <1>1, <1>5, <1>2, <3>5 DEF DrainEnds, CalmPerformer
            <4>2. Cardinality(RunningOn(p)) = 0
                BY <1>2, <1>5, <4>1 DEF CalmPerformer
            <4>3. RunningOn(p) = {}
                <5>1. RunningOn(p) \in SUBSET Tasks
                    BY DEF RunningOn
                <5> QED
                    BY <4>2, <5>1, SubsetFacts, FS_EmptySet
            <4>4. task[t].at # "running"
                BY <3>1, <3>5, <4>3 DEF RunningOn
            <4>5. task[t].at = "loaded"
                BY <1>1, <2>2, <4>4 DEF TaskRecords
            <4> QED
                BY <1>3, <3>1, <3>5, <4>1, <4>5 DEF CalmTask
        <3> QED
            BY <3>3, <3>4, <3>5 DEF DrainStep
    <2> QED
        BY <2>1, <2>2
<1> QED
    BY <1>7, <1>8, CalmByOne

\* A task is let in only by a performer that is not draining.
LEMMA CalmTasks ==
    ASSUME IInv, Calm, ~ShuttingDown, ~Panic, NEW t \in Tasks, RunTask(t) \/ TaskStep(t)
    PROVE  Calm'
<1> USE KubernetesConstants
<1>0. TypeOK /\ TasksFit
    BY DEF IInv
<1>1. /\ lifecycle \in [Performers -> Lifecycles] /\ drain \in [Performers -> Drains]
      /\ task \in [Tasks -> TaskRecords] /\ count \in [Performers -> 0 .. Cardinality(Tasks)]
    BY <1>0 DEF TypeOK
<1>2. /\ \A p \in Performers : CalmPerformer(p)
      /\ \A u \in Tasks : CalmTask(u)
    BY CalmByOne
<1>3. UNCHANGED <<crd, drain, removed>>
    BY DEF RunTask, TaskStep, TaskAdmitted, TaskRefused, TaskReturns, cluster, tracking, ghosts
<1>4. \A p \in Performers : Exists(p)' <=> Exists(p)
    BY <1>3 DEF Exists
<1>5. \A p \in Performers : RunningOn(p) \in SUBSET Tasks /\ Cardinality(RunningOn(p)) \in Nat
    BY SubsetFacts DEF RunningOn
\* Enough: what happens to the task itself and to the counts.
<1>6. ASSUME CalmTask(t)', \A u \in Tasks : u # t => task'[u] = task[u],
             \A p \in Performers : lifecycle[p] # "none" => lifecycle'[p] # "none",
             \A p \in Performers : drain[p] # "none" => lifecycle'[p] = lifecycle[p],
             \A p \in Performers : lifecycle'[p] # "none" => count'[p] = Cardinality(RunningOn(p)')
      PROVE  Calm'
    <2>1. ASSUME NEW p \in Performers PROVE CalmPerformer(p)'
        BY <1>2, <1>3, <1>6 DEF CalmPerformer
    <2>2. ASSUME NEW u \in Tasks, u # t PROVE CalmTask(u)'
        <3>1. task'[u] = task[u] /\ CalmTask(u)
            BY <1>2, <1>6, <2>2
        <3>2. CASE task[u].at = "idle"
            BY <3>1, <3>2 DEF CalmTask
        <3>3. CASE task[u].at # "idle"
            <4>1. PICK p \in Performers : p = task[u].p /\ p = task'[u].p
                BY <1>0, <3>1, <3>3 DEF TasksFit
            <4> QED
                BY <1>3, <1>4, <1>6, <3>1, <4>1 DEF CalmTask
        <3> QED
            BY <3>2, <3>3
    <2> QED
        BY <1>6, <2>1, <2>2, CalmByOne
<1>7. CASE RunTask(t)
    <2>1. /\ current \in Performers /\ task[t].at = "idle"
          /\ task' = [task EXCEPT ![t] = [at |-> "loaded", p |-> current]]
          /\ UNCHANGED <<lifecycle, count>>
        BY <1>0, <1>7, TaskChange DEF RunTask, tracking
    <2>0. ~Clearing
        BY DEF ShuttingDown, Clearing, IInv, CallsFit, CallFits
    <2>2. PICK p \in Performers : p = current /\ (Exists(p) \/ drain[p] = "done")
        BY <2>0, <2>1, PlacesByOne DEF IInv, PlaceFits
    <2>3. task'[t] = [at |-> "loaded", p |-> p] /\ \A u \in Tasks : u # t => task'[u] = task[u]
        BY <1>1, <2>1, <2>2
    <2>4. CalmTask(t)'
        BY <1>3, <1>4, <2>2, <2>3 DEF CalmTask
    <2>5. \A q \in Performers : RunningOn(q)' = RunningOn(q)
        BY <2>1, <2>3 DEF RunningOn
    <2> QED
        BY <1>2, <1>6, <2>1, <2>3, <2>4, <2>5 DEF CalmPerformer
<1>8. CASE TaskAdmitted(t)
    <2>1. PICK p \in Performers : p = task[t].p /\ task[t].at = "loaded"
        BY <1>0, <1>8, TaskChange
    <2> DEFINE k == [at |-> "running", p |-> p]
    <2>2. task' = [task EXCEPT ![t] = k] /\ k.at = "running" /\ k.p = p
        BY <1>0, <1>8, <2>1, TaskChange
    <2> HIDE DEF k
    <2>3. task'[t] = k /\ \A u \in Tasks : u # t => task'[u] = task[u]
        BY <1>1, <2>2
    <2>4. /\ lifecycle[p] \in {"none", "active"} /\ lifecycle' = [lifecycle EXCEPT ![p] = "active"]
          /\ count' = [count EXCEPT ![p] = @ + 1]
        BY <1>8, <2>1 DEF TaskAdmitted, tryAddTask
    <2>5. drain[p] = "none" /\ drain'[p] = "none"
        BY <1>2, <1>3, <2>4 DEF CalmPerformer
    <2>6. lifecycle'[p] = "active" /\ \A q \in Performers : q # p => lifecycle'[q] = lifecycle[q]
        BY <1>1, <2>4
    <2>7. CalmTask(t)'
        <3>1. Exists(p) \/ p \in removed
            BY <1>2, <2>1, <2>5 DEF CalmTask
        <3>2. Exists(p)' \/ p \in removed'
            BY <1>3, <1>4, <3>1
        <3> QED
            BY <2>2, <2>3, <2>6, <3>2 DEF CalmTask
    <2>8. \A q \in Performers : t \notin RunningOn(q)
        BY <2>1 DEF RunningOn
    <2>9. \A q \in Performers : RunningOn(q)' = IF q = p THEN RunningOn(q) \cup {t} ELSE RunningOn(q)
        <3>1. \A q \in Performers : RunningOn(q)' = IF q = p THEN RunningOn(q) \cup {t}
                                                          ELSE RunningOn(q) \ {t}
            BY <1>0, <2>2, RunningChange
        <3> QED
            BY <2>8, <3>1
    <2>10. count[p] = Cardinality(RunningOn(p))
        BY <1>2, <2>1, NoEntryNoTask DEF CalmPerformer
    <2>11. count'[p] = Cardinality(RunningOn(p)')
        <3>1. count'[p] = count[p] + 1
            BY <1>1, <2>4
        <3>2. Cardinality(RunningOn(p) \cup {t}) = Cardinality(RunningOn(p)) + 1
            BY <1>5, <2>8, CountOne
        <3> QED
            BY <2>9, <2>10, <3>1, <3>2
    <2>12. \A q \in Performers : q # p => count'[q] = count[q] /\ RunningOn(q)' = RunningOn(q)
        BY <1>1, <2>4, <2>9
    <2>13. \A q \in Performers : lifecycle'[q] # "none" => count'[q] = Cardinality(RunningOn(q)')
        BY <1>2, <2>6, <2>11, <2>12 DEF CalmPerformer
    <2> QED
        BY <1>6, <2>3, <2>5, <2>6, <2>7, <2>13
<1>9. CASE TaskRefused(t) \/ TaskReturns(t)
    <2>1. PICK p \in Performers : p = task[t].p /\ task[t].at # "idle"
        BY <1>0, <1>9, TaskChange
    <2>2. task' = [task EXCEPT ![t] = IdleTask] /\ UNCHANGED lifecycle
        BY <1>0, <1>9, TaskChange DEF TaskRefused, TaskReturns, tracking
    <2>3. task'[t] = IdleTask /\ \A u \in Tasks : u # t => task'[u] = task[u]
        BY <1>1, <2>2
    <2>4. CalmTask(t)'
        BY <2>3 DEF CalmTask, IdleTask
    <2>5. \A q \in Performers : RunningOn(q)' = RunningOn(q) \ {t}
        <3>1. IdleTask.at # "running"
            BY DEF IdleTask
        <3> QED
            BY <1>0, <2>2, <3>1, RunningChange
    <2>6. CASE TaskRefused(t)
        <3>1. \A q \in Performers : RunningOn(q)' = RunningOn(q)
            BY <2>5, <2>6 DEF TaskRefused, RunningOn
        <3>2. count' = count
            BY <2>6 DEF TaskRefused, tracking
        <3> QED
            BY <1>2, <1>6, <2>2, <2>3, <2>4, <3>1, <3>2 DEF CalmPerformer
    <2>7. CASE TaskReturns(t)
        <3>1. task[t].at = "running" /\ lifecycle[p] # "none"
            BY <1>2, <2>1, <2>7 DEF TaskReturns, CalmTask
        <3>2. count' = [count EXCEPT ![p] = @ - 1]
            BY <2>1, <2>7, <3>1 DEF TaskReturns, taskCompleted
        <3>3. \A q \in Performers : t \in RunningOn(q) <=> q = p
            BY <2>1, <3>1 DEF RunningOn
        <3>4. Cardinality(RunningOn(p)) = Cardinality(RunningOn(p) \ {t}) + 1
            <4>1. /\ RunningOn(p) \ {t} \in SUBSET Tasks /\ t \notin RunningOn(p) \ {t}
                  /\ (RunningOn(p) \ {t}) \cup {t} = RunningOn(p)
                BY <1>5, <3>3
            <4> QED
                BY <4>1, CountOne
        <3>5. count'[p] = Cardinality(RunningOn(p)')
            <4>1. count[p] = Cardinality(RunningOn(p)) /\ count'[p] = count[p] - 1
                BY <1>1, <1>2, <3>1, <3>2 DEF CalmPerformer
            <4>2. Cardinality(RunningOn(p) \ {t}) \in Nat
                <5>1. RunningOn(p) \ {t} \in SUBSET Tasks
                    BY <1>5
                <5> QED
                    BY <5>1, SubsetFacts
            <4>3. RunningOn(p)' = RunningOn(p) \ {t}
                BY <2>5
            <4>4. count'[p] = Cardinality(RunningOn(p) \ {t})
                BY <3>4, <4>1, <4>2
            <4> QED
                BY <4>3, <4>4
        <3>6. ASSUME NEW q \in Performers, q # p
              PROVE  count'[q] = count[q] /\ RunningOn(q)' = RunningOn(q)
            <4>1. RunningOn(q)' = RunningOn(q) \ {t} /\ t \notin RunningOn(q)
                BY <2>5, <3>3, <3>6
            <4>2. RunningOn(q) \ {t} = RunningOn(q)
                BY <4>1
            <4>3. count'[q] = count[q]
                BY <1>1, <3>2, <3>6
            <4> QED
                BY <4>1, <4>2, <4>3
        <3>7. \A q \in Performers : lifecycle'[q] # "none" => count'[q] = Cardinality(RunningOn(q)')
            BY <1>2, <2>2, <3>5, <3>6 DEF CalmPerformer
        <3> QED
            BY <1>6, <2>2, <2>3, <2>4, <3>7
    <2> QED
        BY <1>9, <2>6, <2>7
<1> QED
    BY <1>7, <1>8, <1>9 DEF TaskStep

\* A promotion marks the performer that it replaces before its drain begins.
LEMMA CalmPromotion ==
    ASSUME IInv, Calm, ~Panic, NEW c \in Callers, PromotePerformer(c)
    PROVE  Calm'
<1> USE KubernetesConstants
<1>0. TypeOK /\ TasksFit
    BY DEF IInv
<1>1. /\ lifecycle \in [Performers -> Lifecycles] /\ drain \in [Performers -> Drains]
      /\ current \in Performers \cup {Unset, TypedNil}
    BY <1>0 DEF TypeOK
<1>2. UNCHANGED <<task, count, crd, removed>> /\ performerMu = None /\ current # TypedNil
    BY DEF PromotePerformer, cluster, ghosts
<1>3. \A p \in Performers : (Exists(p)' <=> Exists(p)) /\ RunningOn(p)' = RunningOn(p)
    BY <1>2 DEF Exists, RunningOn
<1>4. CASE UNCHANGED <<lifecycle, drain>>
    BY <1>2, <1>3, <1>4, CalmKept
<1>5. CASE current \in Performers /\ startDrain(current)
    <2>1. PICK p \in Performers : p = current
        BY <1>5
    <2>2. ~Marking /\ ~Switching
        BY <1>2, NoSigns DEF PromotePerformer, SignSteps
    <2>3. lifecycle[p] \in {"none", "active"} /\ drain[p] = "none"
        BY <2>1, <2>2, PlacesByOne DEF IInv, PlaceFits
    <2>4. /\ lifecycle'[p] = "draining" /\ drain'[p] = "started"
          /\ \A q \in Performers : q # p => lifecycle'[q] = lifecycle[q] /\ drain'[q] = drain[q]
        BY <1>1, <1>5, <2>1, <2>3 DEF startDrain
    <2>5. count[p] = Cardinality(RunningOn(p))
        BY CalmByOne, NoEntryNoTask DEF CalmPerformer
    <2>6. ASSUME NEW q \in Performers PROVE CalmPerformer(q)'
        BY <1>2, <1>3, <2>4, <2>5, CalmByOne DEF CalmPerformer
    <2>7. ASSUME NEW t \in Tasks PROVE CalmTask(t)'
        <3>1. task'[t] = task[t] /\ CalmTask(t)
            BY <1>2, CalmByOne
        <3>2. CASE task[t].at = "idle"
            BY <3>1, <3>2 DEF CalmTask
        <3>3. CASE task[t].at # "idle"
            <4>1. PICK q \in Performers : q = task[t].p /\ q = task'[t].p
                BY <1>0, <3>1, <3>3 DEF TasksFit
            <4>2. (lifecycle[q] # "none" => lifecycle'[q] # "none") /\ (drain[q] = "done" => drain'[q] = "done")
                BY <2>3, <2>4
            <4> QED
                BY <1>2, <1>3, <3>1, <4>1, <4>2 DEF CalmTask
        <3> QED
            BY <3>2, <3>3
    <2> QED
        BY <2>6, <2>7, CalmByOne
<1> QED
    BY <1>1, <1>2, <1>4, <1>5 DEF PromotePerformer

LEMMA CalmStep ==
    ASSUME IInv, Next, ~Panic, ~Crash
    PROVE  CalmUntilShutdown'
<1> USE KubernetesConstants
<1>1. CASE ShuttingDown
    BY <1>1, ShutdownStays DEF CalmUntilShutdown
<1>2. CASE ~ShuttingDown
    <2>1. Calm
        BY <1>2 DEF IInv, CalmUntilShutdown
    <2>2. TypeOK
        BY DEF IInv
    <2>3. CASE \E p \in Performers : DrainStep(p)
        BY <2>1, <2>3, CalmDrain DEF CalmUntilShutdown
    <2>4. CASE \E t \in Tasks : RunTask(t) \/ TaskStep(t)
        BY <1>2, <2>1, <2>4, CalmTasks DEF CalmUntilShutdown
    <2>5. CASE \E c \in Callers : PromotePerformer(c)
        BY <2>1, <2>5, CalmPromotion DEF CalmUntilShutdown
    <2>6. ASSUME NEW c \in Callers,
                 \/ Shutdown(c) \/ ShutdownCurrent(c) \/ ShutdownWaited(c) \/ ClearCurrent(c)
                 \/ ShutdownNext(c) \/ ClearNext(c)
          PROVE  ShuttingDown'
        <3>1. CASE Shutdown(c)
            <4>1. PICK at \in {"next", "current"} : Move(c, at, None)
                BY <3>1 DEF Shutdown
            <4>2. call'[c].op = "shutdown" /\ call'[c].at # "lock"
                BY <2>2, <3>1, <4>1, MoveEffect DEF Shutdown, Step
            <4> QED
                BY <4>2 DEF ShuttingDown
        <3>2. CASE \/ ShutdownCurrent(c) \/ ShutdownWaited(c) \/ ClearCurrent(c)
                   \/ ShutdownNext(c) \/ ClearNext(c)
            <4>1. ShuttingDown
                BY <3>2 DEF ShutdownCurrent, ShutdownWaited, ClearCurrent, ShutdownNext, ClearNext,
                   Step, ShuttingDown
            <4> QED
                BY <1>2, <4>1
        <3> QED
            BY <2>6, <3>1, <3>2
    <2>7. CASE \/ NewAvsKubernetesPerformer
               \/ \E p \in Performers : Reconcile(p) \/ handleDeletion(p) \/ PodChanges(p)
               \/ \E c \in Callers : \/ CallBegins(c) \/ Initialize(c) \/ Deploy(c)
                                     \/ CreatePerformer(c) \/ CreateResource(c)
                                     \/ CreateRefused(c) \/ PerformerReady(c) \/ Monitor(c)
                                     \/ ListPerformers(c) \/ SwitchSlots(c)
        <3>1. UNCHANGED <<task, lifecycle, count, drain, removed>>
            BY <2>7 DEF NewAvsKubernetesPerformer, Reconcile, handleDeletion, PodChanges, CallBegins,
                 Initialize, Deploy, CreatePerformer, CreateResource, CreateRefused,
                 PerformerReady, Monitor, ListPerformers, SwitchSlots, tracking, ghosts
        <3>2. \A p \in Performers : Exists(p) => Exists(p)'
            <4>1. crd \in [Performers -> CRDs]
                BY <2>2 DEF TypeOK
            <4>2. CASE crd' = crd
                BY <4>2 DEF Exists
            <4>3. CASE \E p \in Performers : Reconcile(p) \/ handleDeletion(p)
                BY <4>1, <4>3 DEF Reconcile, handleDeletion, Exists
            <4>4. CASE \E c \in Callers : CreateResource(c)
                BY <4>1, <4>4 DEF CreateResource, CRDCreate, Exists
            <4> QED
                BY <2>7, <4>2, <4>3, <4>4 DEF NewAvsKubernetesPerformer, PodChanges, CallBegins,
                   Initialize, Deploy, CreatePerformer, CreateRefused, PerformerReady, Monitor,
                   ListPerformers, SwitchSlots, cluster
        <3> QED
            BY <2>1, <3>1, <3>2, CalmKept DEF CalmUntilShutdown
    <2>8. ASSUME NEW c \in Callers, NotReady(c) \/ RemovePerformer(c) PROVE Calm'
        <3>1. PICK p \in Performers : p = call[c].p
            BY <2>8, CallPerformer DEF NotReady, RemovePerformer, Step
        <3>2. UNCHANGED <<task, lifecycle, count, drain>> /\ removed \subseteq removed'
            BY <2>8 DEF NotReady, RemovePerformer, tracking
        <3>3. NotReady(c) => Unused(p)
            <4>1. NotReady(c) => Waiting(p)
                BY <3>1 DEF NotReady, Waiting
            <4> QED
                BY <4>1, PlacesByOne DEF IInv, PlaceFits
        <3>4. crd' = crd \/ (DeletePerformer(p) /\ (Unused(p) \/ p \in removed'))
            BY <2>8, <3>1, <3>3 DEF NotReady, RemovePerformer, CleanUp
        <3>5. ASSUME NEW q \in Performers, Exists(q)
              PROVE  Exists(q)' \/ q \in removed' \/ Unused(q)
            <4>1. CASE crd' = crd
                BY <3>5, <4>1 DEF Exists
            <4>2. CASE DeletePerformer(p) /\ q # p
                BY <2>2, <3>5, <4>2, DeleteEffect DEF Exists
            <4> QED
                BY <3>4, <4>1, <4>2
        <3> QED
            BY <2>1, <3>2, <3>5, CalmKept
    <2> QED
        BY <2>3, <2>4, <2>5, <2>6, <2>7, <2>8 DEF Next, CallStep, CalmUntilShutdown
<1> QED
    BY <1>1, <1>2

-----------------------------------------------------------------------------
(* The theorems *)

LEMMA InitIInv == Init => IInv
<1> SUFFICES ASSUME Init PROVE IInv
    OBVIOUS
<1> USE KubernetesConstants DEF Init
<1>1. Cardinality(Tasks) \in Nat /\ Cardinality({}) = 0
    BY FS_CardinalityType, FS_EmptySet
<1>2. \A p \in Performers : RunningOn(p) = {}
    BY DEF RunningOn, IdleTask
<1>3. TypeOK
    <2>1. IdleCall \in CallRecords /\ IdleTask \in TaskRecords
        BY DEF IdleCall, IdleTask, CallRecords, TaskRecords
    <2>2. call \in [Callers -> CallRecords] /\ task \in [Tasks -> TaskRecords]
        BY <2>1
    <2>3. count \in [Performers -> 0 .. Cardinality(Tasks)]
        BY <1>1
    <2> QED
        BY <2>2, <2>3 DEF TypeOK, Lifecycles, Drains, CRDs, Pods, Causes
<1>4. CallsFit
    BY DEF CallsFit, CallFits, HolderFits, LockedSteps, IdleCall
<1>5. PlacesFit
    BY DEF PlacesFit, PlaceFits, Unused, Waiting, IdleTask, IdleCall
<1>6. StatusFits /\ ResourcesFit /\ NilFits /\ TasksFit
    BY DEF StatusFits, ResourcesFit, NilFits, TasksFit, Exists, IdleTask, Clearing, IdleCall
<1>7. CountsFit
    BY <1>1, <1>2 DEF CountsFit
<1>8. CalmUntilShutdown
    BY DEF CalmUntilShutdown, Calm, IdleTask
<1> QED
    BY <1>3, <1>4, <1>5, <1>6, <1>7, <1>8 DEF IInv

LEMMA StutterIInv == IInv /\ UNCHANGED vars => IInv'
<1> SUFFICES ASSUME IInv, UNCHANGED vars PROVE IInv'
    OBVIOUS
<1> USE DEF vars, process, slots, tracking, cluster, ghosts
<1>1. TypeOK' /\ CallsFit' /\ StatusFits' /\ NilFits' /\ TasksFit'
    BY DEF IInv, TypeOK, CallsFit, CallFits, HolderFits, StatusFits, NilFits, Clearing, TasksFit
<1>2. PlacesFit' /\ ResourcesFit'
    BY DEF IInv, PlacesFit, PlaceFits, ResourcesFit, Answered, Held, Unused, Waiting, Exists,
           Marking, Switching, Clearing, ClearingNext
<1>3. CountsFit' /\ CalmUntilShutdown'
    BY DEF IInv, CountsFit, CalmUntilShutdown, ShuttingDown, Calm, RunningOn, Exists
<1> QED
    BY <1>1, <1>2, <1>3 DEF IInv

\* The inductive invariant: callers follow their operations and the lock, a performer has
\* one place at a time, the counters match the tasks until a shutdown.
THEOREM IInvInvariant == Spec => []IInv
<1>1. IInv /\ [Next]_vars => IInv'
    <2> SUFFICES ASSUME IInv, [Next]_vars PROVE IInv'
        OBVIOUS
    <2>1. CASE Panic \/ Crash
        BY <2>1, EndPreserves DEF Panic, Crash
    <2>2. CASE Next /\ ~Panic /\ ~Crash
        BY <2>2, TypeStep, CallsStep, PlacesStep, StatusStep, ResourcesStep, NilStep, TasksStep,
           CountsStep, CalmStep DEF IInv
    <2> QED
        BY <2>1, <2>2, StutterIInv
<1> QED
    BY InitIInv, <1>1, PTL DEF Spec

\* The performer in service was ready once, and whatever is in a slot has its resource,
\* unless the holder of the lock has let it go (a drain that ended before the switch, a
\* shutdown's deletion) and is about to clear that slot.
THEOREM ServingWasReadyTheorem == Spec => []ServingWasReady
<1>1. IInv => ServingWasReady
    <2> SUFFICES ASSUME IInv PROVE ServingWasReady
        OBVIOUS
    <2>1. \A p \in Performers : PlaceFits(p)
        BY DEF IInv, PlacesFit
    <2>2. ASSUME NEW p \in Performers, p \in {current, next}, ~Exists(p) PROVE p \in Leaving
        <3>1. CASE current = p
            <4>1. Clearing \/ Switching
                BY <2>1, <2>2, <3>1 DEF PlaceFits
            <4>2. \E c \in Callers : call[c].at \in {"switch", "clear"}
                BY <4>1 DEF Clearing, Switching
            <4> QED
                BY <3>1, <4>2 DEF Leaving
        <3>2. CASE next = p
            <4>1. \E c \in Callers : call[c].at = "clearNext"
                BY <2>1, <2>2, <3>2 DEF PlaceFits, ClearingNext
            <4> QED
                BY <3>2, <4>1 DEF Leaving
        <3> QED
            BY <2>2, <3>1, <3>2
    <2> QED
        BY <2>1, <2>2 DEF IInv, ServingWasReady, PlaceFits
<1> QED
    BY IInvInvariant, <1>1, PTL

\* No promotion cuts off a task: the entry that the drain waits for counts exactly the
\* tasks on the performer, and it is marked before a late task can ask for a place.
THEOREM NoTaskCutOffTheorem == Spec => []NoTaskCutOff
<1>1. IInv => NoTaskCutOff
    BY DEF IInv, CalmUntilShutdown, Calm, NoTaskCutOff
<1> QED
    BY IInvInvariant, <1>1, PTL

\* A resource without an owner was left by a failed call, an expired context, a stranded
\* drain or the end of the process, and by nothing else.
THEOREM LeakHasCauseTheorem == Spec => []LeakHasCause
<1>1. IInv => LeakHasCause
    BY DEF IInv, ResourcesFit, Answered, Held, Waiting, LeakHasCause, Tracked
<1> QED
    BY IInvInvariant, <1>1, PTL

\* Only a removal or a shutdown can lead to a panic: until then the current slot never
\* holds the nil pointer and no WaitGroup counts below zero.
THEOREM PanicNeedsRemovalTheorem == Spec => PanicNeedsRemoval
<1> DEFINE Caused ==
        (\E p \in Performers : left[p] = "no" /\ left'[p] = "panic") => removed # {} \/ ShuttingDown
<1>1. IInv /\ [Next]_vars => [Caused]_vars
    <2> SUFFICES ASSUME IInv, Next, NEW p \in Performers, left[p] = "no", left'[p] = "panic",
                        removed = {}, ~ShuttingDown
                 PROVE  FALSE
        OBVIOUS
    <2>0. TypeOK /\ Calm /\ current # TypedNil
        BY DEF IInv, CalmUntilShutdown, NilFits
    <2>1. left \in [Performers -> Causes]
        BY <2>0 DEF TypeOK
    <2>2. \A t \in Tasks : task[t].at = "running" => count[task[t].p] # 0
        <3> SUFFICES ASSUME NEW t \in Tasks, task[t].at = "running" PROVE count[task[t].p] # 0
            OBVIOUS
        <3>1. PICK q \in Performers : q = task[t].p
            BY DEF IInv, TasksFit
        <3>2. count[q] = Cardinality(RunningOn(q)) /\ RunningOn(q) \in SUBSET Tasks
            BY <2>0, <3>1 DEF Calm, RunningOn
        <3>3. RunningOn(q) # {} /\ IsFiniteSet(RunningOn(q))
            BY <3>1, <3>2, SubsetFacts DEF RunningOn
        <3> QED
            BY <3>1, <3>2, <3>3, FS_EmptySet
    <2>3. ~Crash
        BY <2>1 DEF Crash, ProcessEnds
    <2>4. ASSUME NEW q \in Performers, DeletePerformer(q) PROVE FALSE
        BY <2>1, <2>4 DEF DeletePerformer
    <2>5. CASE UNCHANGED left
        BY <2>5
    <2>6. ASSUME NEW t \in Tasks, RunTask(t) \/ TaskStep(t) PROVE FALSE
        BY <2>2, <2>5, <2>6 DEF RunTask, TaskStep, TaskAdmitted, TaskRefused, TaskReturns, ghosts
    <2>7. ASSUME NEW q \in Performers, Reconcile(q) \/ handleDeletion(q) \/ PodChanges(q) \/ DrainStep(q)
          PROVE  FALSE
        BY <2>4, <2>5, <2>7 DEF Reconcile, handleDeletion, PodChanges, DrainStep,
           waitForTaskCompletion, DrainEnds, ghosts
    <2>8. ASSUME NEW c \in Callers,
                 \/ CallBegins(c) \/ Initialize(c) \/ Deploy(c) \/ CreatePerformer(c)
                 \/ CreateResource(c) \/ CreateRefused(c) \/ Monitor(c) \/ PromotePerformer(c)
                 \/ ListPerformers(c) \/ ShutdownCurrent(c) \/ SwitchSlots(c)
                 \/ ClearCurrent(c) \/ ClearNext(c)
          PROVE  FALSE
        BY <2>0, <2>5, <2>8 DEF CallBegins, Initialize, Deploy, CreatePerformer, CreateResource,
           CreateRefused, Monitor, PromotePerformer, ListPerformers, ShutdownCurrent, SwitchSlots,
           ClearCurrent, ClearNext, ghosts
    <2>9. ASSUME NEW c \in Callers, PerformerReady(c) \/ Shutdown(c) PROVE FALSE
        BY <2>1, <2>9 DEF PerformerReady, Shutdown
    <2>10. ASSUME NEW c \in Callers, NotReady(c) \/ RemovePerformer(c) \/ ShutdownWaited(c) PROVE FALSE
        <3>1. call[c].p \in Performers
            BY <2>10, CallPerformer DEF NotReady, RemovePerformer, ShutdownWaited, Step
        <3>2. ~(left' = [left EXCEPT ![call[c].p] = "expired"])
            BY <2>1
        <3> QED
            BY <2>0, <2>4, <2>5, <2>10, <3>1, <3>2 DEF NotReady, RemovePerformer, ShutdownWaited, CleanUp
    <2>11. ASSUME NEW c \in Callers, ShutdownNext(c) PROVE FALSE
        BY <2>0, <2>4, <2>5, <2>11 DEF ShutdownNext, TypeOK
    <2>12. CASE NewAvsKubernetesPerformer
        BY <2>5, <2>12 DEF NewAvsKubernetesPerformer, ghosts
    <2> QED
        BY <2>3, <2>6, <2>7, <2>8, <2>9, <2>10, <2>11, <2>12 DEF Next, CallStep
<1> QED
    BY <1>1, IInvInvariant, PTL DEF Spec, PanicNeedsRemoval
=============================================================================
