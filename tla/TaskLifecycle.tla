---------------------------- MODULE TaskLifecycle ----------------------------
(***************************************************************************)
(* The life of the tasks of one AVS in the aggregator: the chain poller    *)
(* (processTask, recoverInProgressTasks, reconcileReorg), the block        *)
(* contexts (taskBlockContextManager), the task records of the store, and  *)
(* the AVS execution manager with the goroutines it starts, one per task   *)
(* session (a session itself is module TaskSession; the poller's walk over *)
(* blocks is module ChainPoller).                                          *)
(*                                                                         *)
(* The task queue is an unbuffered channel: the poller's send and the      *)
(* manager's receive are one step, Handoff.                                *)
(***************************************************************************)
EXTENDS Integers, Sequences

CONSTANTS Tasks,       \* task ids
          NumBlocks,   \* bound: length of the chain
          LogsOf,      \* TaskCreated logs a block may have, in order
          Durable,     \* TRUE: badger store, FALSE: in-memory store
          NoTask,      \* "no task", a value outside Tasks
          MaxReorgs,   \* bound: number of reorganisations
          MaxCrashes,  \* bound: number of crashes
          MaxStoreFaults, \* bound: number of store calls that fail
          MaxTroubles  \* bound: number of all three together

Blocks == 1..NumBlocks

ASSUME LifecycleAssumption ==
    /\ NumBlocks \in Nat
    /\ LogsOf \in [Blocks -> Seq(Tasks)]
    /\ Durable \in BOOLEAN
    /\ NoTask \notin Tasks
    /\ MaxReorgs \in Nat /\ MaxCrashes \in Nat /\ MaxStoreFaults \in Nat
    /\ MaxTroubles \in Nat

VARIABLES present,     \* tasks created in a block of the canonical chain
          passed,      \* tasks whose deadline has passed
          reorgs,      \* number of reorganisations so far
          crashes,     \* number of crashes so far
          status,      \* task records of the store
          processed,   \* the last processed block, in the store
          storeFaults, \* number of store calls that failed so far
          unsaved,     \* history: tasks whose SavePendingTask failed
          reopened,    \* history: tasks whose record was deleted, not yet written
                       \* when the process died, or not seen by a look-up
          blockCtx,    \* blockContexts: TaskIDs, and the task that set the deadline
          poller,      \* where the poller goroutine is
          todo,        \* logs of the current block still to handle
          offered,     \* Context of the task being sent: whose deadline ends it
          manager,     \* where the execution manager's goroutine is
          task,        \* the task it is handling, or NoTask
          ctxOwner,    \* task.Context: the task whose deadline ends it,
          ctxCancelled,\* and whether CancelBlock has ended it
          result,      \* doneChan and errorsChan of the session it waits for
          inflight,    \* inflightTasks
          running,     \* number of live session goroutines of every task
          submitted    \* number of times a result was submitted, by task

chainVars   == <<present, passed, reorgs, crashes>>
storeVars   == <<status, processed, storeFaults, unsaved, reopened>>
historyVars == <<unsaved, reopened>>
pollerVars  == <<blockCtx, poller, todo, offered>>
managerVars == <<manager, task, ctxOwner, ctxCancelled, result, inflight>>
sessionVars == <<running, submitted>>
vars == <<chainVars, storeVars, pollerVars, managerVars, sessionVars>>

Statuses == {"none", "pending", "processing", "completed", "failed"}
NoCtx == [owner |-> NoTask, ids |-> {}]
TasksOf(b) == {LogsOf[b][i] : i \in DOMAIN LogsOf[b]}

Init ==
    /\ present \in SUBSET Tasks
    /\ passed = {} /\ reorgs = 0 /\ crashes = 0
    /\ status = [t \in Tasks |-> "none"]
    /\ processed = 0 /\ storeFaults = 0 /\ unsaved = {} /\ reopened = {}
    /\ blockCtx = [b \in Blocks |-> NoCtx]
    /\ poller = "off" /\ todo = <<>> /\ offered = NoTask
    /\ manager = "off" /\ task = NoTask /\ ctxOwner = NoTask /\ ctxCancelled = FALSE
    /\ result = "none" /\ inflight = {}
    /\ running = [t \in Tasks |-> 0]
    /\ submitted = [t \in Tasks |-> 0]

-----------------------------------------------------------------------------
(* validateTaskStatusTransition, isValidStatusTransition. *)
ValidTransition(from, to) ==
    \/ from = "pending" /\ to \in {"processing", "failed"}
    \/ from = "processing" /\ to \in {"completed", "failed"}

EnoughTrouble == reorgs + crashes + storeFaults >= MaxTroubles

(* A call of the store returns an error of its own. *)
StoreFault ==
    /\ storeFaults < MaxStoreFaults /\ ~EnoughTrouble
    /\ storeFaults' = storeFaults + 1

(* UpdateTaskStatus: no record (ErrNotFound), an invalid transition and a  *)
(* fault of the store are errors that every caller only logs.              *)
UpdateTaskStatus(t, to) ==
    \/ /\ status' = IF ValidTransition(status[t], to)
                    THEN [status EXCEPT ![t] = to]
                    ELSE status
       /\ UNCHANGED storeFaults
    \/ StoreFault /\ UNCHANGED status

(* The pending tasks of a recovery that have expired are marked failed;    *)
(* the error of one update is only logged.                                 *)
MarkFailed(expired) ==
    LET Marked(S) == [t \in Tasks |-> IF t \in S THEN "failed" ELSE status[t]]
    IN  \/ status' = Marked(expired) /\ UNCHANGED storeFaults
        \/ StoreFault /\ \E t \in expired : status' = Marked(expired \ {t})

(* SavePendingTask: badger refuses an existing record, the in-memory store *)
(* overwrites it; the caller only logs an error.                           *)
SavePendingTask(t) ==
    \/ /\ status' = IF Durable /\ status[t] # "none"
                    THEN status
                    ELSE [status EXCEPT ![t] = "pending"]
       /\ UNCHANGED <<storeFaults, unsaved>>
    \/ StoreFault /\ unsaved' = unsaved \cup {t} /\ UNCHANGED status

(* GetContext: the first task of a block decides the deadline. *)
GetContext(b, t) ==
    blockCtx' = [blockCtx EXCEPT ![b] =
                    [owner |-> IF @ = NoCtx THEN t ELSE @.owner,
                     ids   |-> @.ids \cup {t}]]

-----------------------------------------------------------------------------
(* The environment: deadlines pass. *)
DeadlinePasses(t) ==
    /\ t \notin passed
    /\ passed' = passed \cup {t}
    /\ UNCHANGED <<present, reorgs, crashes, storeVars, pollerVars, managerVars, sessionVars>>

(* EVMChainPoller.Start, with recoverInProgressTasks: every pending task   *)
(* gets a context of its block again; when that context is done the task   *)
(* is marked failed.  The sends of the others time out, because            *)
(* registerAvs starts the execution manager only after the pollers.        *)
StartPoller ==
    /\ poller = "off"
    /\ LET pending == {t \in Tasks : status[t] = "pending"}
           In(b) == pending \cap TasksOf(b)
       IN  \/ /\ blockCtx' \in {c \in [Blocks -> [owner : pending \cup {NoTask},
                                                  ids : SUBSET pending]] :
                    \A b \in Blocks :
                       /\ c[b].ids = In(b)
                       /\ IF In(b) = {} THEN c[b].owner = NoTask ELSE c[b].owner \in In(b)}
              /\ MarkFailed({t \in pending :
                               \E b \in Blocks : t \in In(b) /\ blockCtx'[b].owner \in passed})
           \/ StoreFault /\ UNCHANGED <<status, blockCtx>>    \* the list cannot be read
    /\ poller' = "idle"
    /\ UNCHANGED <<chainVars, processed, historyVars, todo, offered, managerVars, sessionVars>>

(* AvsExecutionManager.Start, with recoverPendingTasks: expired tasks are  *)
(* marked failed, the non-blocking sends of the others find no receiver.   *)
StartManager ==
    /\ poller # "off"
    /\ manager = "off"
    /\ \/ MarkFailed({t \in passed : status[t] = "pending"})
       \/ StoreFault /\ UNCHANGED status                        \* the list cannot be read
    /\ manager' = "idle"
    /\ UNCHANGED <<chainVars, processed, historyVars, pollerVars, task, ctxOwner,
                   ctxCancelled, result, inflight, sessionVars>>

-----------------------------------------------------------------------------
(* The poller.  processNextBlock takes the next block and its logs. *)
PollBlock ==
    /\ poller = "idle"
    /\ processed < NumBlocks
    /\ todo' = LogsOf[processed + 1]
    /\ poller' = "logs"
    /\ UNCHANGED <<chainVars, storeVars, blockCtx, offered, managerVars, sessionVars>>

(* The canonical block does not have this log. *)
NoSuchLog ==
    /\ poller = "logs"
    /\ todo # <<>>
    /\ Head(todo) \notin present
    /\ todo' = Tail(todo)
    /\ UNCHANGED <<chainVars, storeVars, blockCtx, poller, offered, managerVars, sessionVars>>

(* Slip: the look-up of an existing record is missing. *)
TakeLogUnchecked ==
    /\ poller = "logs"
    /\ todo # <<>>
    /\ Head(todo) \in present
    /\ GetContext(processed + 1, Head(todo))
    /\ offered' = blockCtx'[processed + 1].owner
    /\ poller' = "offer"
    /\ UNCHANGED <<chainVars, storeVars, todo, managerVars, sessionVars>>

(* processTask up to the send: a task that has a record is skipped, unless *)
(* the look-up fails with another error than ErrNotFound, which is only    *)
(* logged.                                                                 *)
TakeLog ==
    /\ poller = "logs"
    /\ todo # <<>>
    /\ Head(todo) \in present
    /\ GetContext(processed + 1, Head(todo))
    /\ \/ /\ status[Head(todo)] # "none"
          /\ todo' = Tail(todo)
          /\ UNCHANGED <<poller, offered, storeFaults, reopened>>
       \/ /\ status[Head(todo)] = "none"
          /\ poller' = "offer"
          /\ offered' = blockCtx'[processed + 1].owner
          /\ UNCHANGED <<todo, storeFaults, reopened>>
       \/ /\ status[Head(todo)] # "none"
          /\ StoreFault
          /\ reopened' = reopened \cup {Head(todo)}
          /\ poller' = "offer"
          /\ offered' = blockCtx'[processed + 1].owner
          /\ UNCHANGED todo
    /\ UNCHANGED <<chainVars, status, processed, unsaved, managerVars, sessionVars>>

(* The send meets the manager's receive. *)
Handoff ==
    /\ poller = "offer"
    /\ manager = "idle"
    /\ poller' = "save"
    /\ offered' = NoTask
    /\ manager' = "received"
    /\ task' = Head(todo)
    /\ ctxOwner' = offered
    /\ ctxCancelled' = FALSE
    /\ UNCHANGED <<chainVars, storeVars, blockCtx, todo, result, inflight, sessionVars>>

(* Slip: a task that cannot be queued is logged and skipped. *)
OfferSkipsTask ==
    /\ poller = "offer"
    /\ manager # "idle"
    /\ poller' = "logs"
    /\ todo' = Tail(todo)
    /\ offered' = NoTask
    /\ UNCHANGED <<chainVars, storeVars, blockCtx, managerVars, sessionVars>>

(* Nobody receives for 100ms: the block is not saved and will be retried. *)
OfferTimesOut ==
    /\ poller = "offer"
    /\ manager # "idle"
    /\ poller' = "idle"
    /\ todo' = <<>>
    /\ offered' = NoTask
    /\ UNCHANGED <<chainVars, storeVars, blockCtx, managerVars, sessionVars>>

(* processTask after the send. *)
SaveTask ==
    /\ poller = "save"
    /\ SavePendingTask(Head(todo))
    /\ todo' = Tail(todo)
    /\ poller' = "logs"
    /\ UNCHANGED <<chainVars, processed, reopened, blockCtx, offered, managerVars,
                   sessionVars>>

(* All logs are handled: SaveBlock. *)
FinishBlock ==
    /\ poller = "logs"
    /\ todo = <<>>
    /\ processed' = processed + 1
    /\ poller' = "idle"
    /\ UNCHANGED <<chainVars, status, storeFaults, historyVars, blockCtx, todo, offered,
                   managerVars, sessionVars>>

(* A reorganisation replaces block b, which may create other tasks.  If    *)
(* the poller has processed b, reconcileReorg cancels its context, deletes *)
(* the tasks registered there and the block; if not, it never knows.       *)
Reorg(b, kept) ==
    /\ poller = "idle"
    /\ reorgs < MaxReorgs /\ ~EnoughTrouble
    /\ b \in {processed, processed + 1} \cap Blocks
    /\ present' = (present \ TasksOf(b)) \cup kept
    /\ reorgs' = reorgs + 1
    /\ IF b = processed
       THEN /\ status' = [t \in Tasks |-> IF t \in blockCtx[b].ids THEN "none" ELSE status[t]]
            /\ ctxCancelled' = (ctxCancelled \/ (blockCtx[b] # NoCtx /\ task \in TasksOf(b)))
            /\ blockCtx' = [blockCtx EXCEPT ![b] = NoCtx]
            /\ processed' = processed - 1
            /\ reopened' = reopened \cup blockCtx[b].ids
       ELSE UNCHANGED <<status, ctxCancelled, blockCtx, processed, reopened>>
    /\ UNCHANGED <<passed, crashes, storeFaults, unsaved, poller, todo, offered, manager,
                   task, ctxOwner, result, inflight, sessionVars>>

(* cleanupContexts drops the contexts that are done. *)
CleanupContexts ==
    /\ poller # "off"
    /\ \E b \in Blocks : blockCtx[b].owner \in passed
    /\ blockCtx' = [b \in Blocks |-> IF blockCtx[b].owner \in passed
                                     THEN NoCtx ELSE blockCtx[b]]
    /\ UNCHANGED <<chainVars, storeVars, poller, todo, offered, managerVars, sessionVars>>

-----------------------------------------------------------------------------
(* handleTask returns, and the task and its context are forgotten. *)
HandleTaskReturns ==
    /\ manager' = "idle" /\ task' = NoTask
    /\ ctxOwner' = NoTask /\ ctxCancelled' = FALSE

(* handleTask, up to the status update: a task that is in flight is        *)
(* dropped with an error.                                                  *)
BeginTask ==
    /\ manager = "received"
    /\ IF task \in inflight
       THEN HandleTaskReturns /\ UNCHANGED <<status, storeFaults>>
       ELSE /\ manager' = "preparing"
            /\ UpdateTaskStatus(task, "processing")
            /\ UNCHANGED <<task, ctxOwner, ctxCancelled>>
    /\ UNCHANGED <<chainVars, processed, historyVars, pollerVars, result, inflight, sessionVars>>

(* handleTask fails to get the configuration, the operators or a session. *)
PrepareFails ==
    /\ manager = "preparing"
    /\ HandleTaskReturns
    /\ UNCHANGED <<chainVars, storeVars, pollerVars, result, inflight, sessionVars>>

(* processBN254Task, processECDSATask: the session gets its goroutine. *)
StartSession ==
    /\ manager = "preparing"
    /\ manager' = "waiting"
    /\ result' = "none"
    /\ inflight' = inflight \cup {task}
    /\ running' = [running EXCEPT ![task] = @ + 1]
    /\ UNCHANGED <<chainVars, storeVars, pollerVars, task, ctxOwner, ctxCancelled, submitted>>

(* The goroutine the manager waits for ends, with or without having        *)
(* submitted the result.                                                   *)
SessionEnds(outcome) ==
    /\ manager = "waiting"
    /\ result = "none"
    /\ result' = outcome
    /\ running' = [running EXCEPT ![task] = @ - 1]
    /\ submitted' = IF outcome = "done" THEN [submitted EXCEPT ![task] = @ + 1] ELSE submitted
    /\ UNCHANGED <<chainVars, storeVars, pollerVars, manager, task, ctxOwner,
                   ctxCancelled, inflight>>

(* A goroutine the manager no longer waits for ends. *)
Abandoned(t) ==
    running[t] - IF manager = "waiting" /\ task = t /\ result = "none" THEN 1 ELSE 0

AbandonedSessionEnds(t, outcome) ==
    /\ Abandoned(t) > 0
    /\ running' = [running EXCEPT ![t] = @ - 1]
    /\ submitted' = IF outcome = "done" THEN [submitted EXCEPT ![t] = @ + 1] ELSE submitted
    /\ UNCHANGED <<chainVars, storeVars, pollerVars, managerVars>>

(* The select at the end: doneChan or errorsChan ... *)
ReceiveResult ==
    /\ manager = "waiting"
    /\ result # "none"
    /\ UpdateTaskStatus(task, IF result = "done" THEN "completed" ELSE "failed")
    /\ inflight' = inflight \ {task}
    /\ HandleTaskReturns
    /\ result' = "none"
    /\ UNCHANGED <<chainVars, processed, historyVars, pollerVars, sessionVars>>

(* Slip: the task leaves inflightTasks while its session still runs. *)
TaskContextDoneForgets ==
    /\ manager = "waiting"
    /\ ctxCancelled \/ ctxOwner \in passed
    /\ HandleTaskReturns
    /\ result' = "none"
    /\ inflight' = inflight \ {task}
    /\ UNCHANGED <<chainVars, storeVars, pollerVars, sessionVars>>

(* ... or task.Context.Done(): the error looked at is the one of the AVS   *)
(* context, which is nil, so neither status nor inflightTasks change.      *)
TaskContextDone ==
    /\ manager = "waiting"
    /\ ctxCancelled \/ ctxOwner \in passed
    /\ HandleTaskReturns
    /\ result' = "none"
    /\ UNCHANGED <<chainVars, storeVars, pollerVars, inflight, sessionVars>>

(* The aggregator dies and the badger store survives. *)
Crash ==
    /\ Durable
    /\ crashes < MaxCrashes /\ ~EnoughTrouble
    /\ poller # "off"
    /\ crashes' = crashes + 1
    /\ blockCtx' = [b \in Blocks |-> NoCtx]
    /\ poller' = "off" /\ todo' = <<>> /\ offered' = NoTask
    /\ manager' = "off" /\ task' = NoTask /\ ctxOwner' = NoTask /\ ctxCancelled' = FALSE
    /\ result' = "none" /\ inflight' = {}
    /\ running' = [t \in Tasks |-> 0]
    /\ reopened' = reopened \cup (IF poller = "save" THEN {Head(todo)} ELSE {})
    /\ UNCHANGED <<present, passed, reorgs, status, processed, storeFaults, unsaved, submitted>>

PollerStep ==
    \/ StartPoller \/ PollBlock \/ NoSuchLog \/ TakeLog \/ OfferTimesOut
    \/ SaveTask \/ FinishBlock
ManagerStep ==
    StartManager \/ BeginTask \/ PrepareFails \/ StartSession \/ ReceiveResult \/ TaskContextDone

Next ==
    \/ PollerStep \/ Handoff \/ ManagerStep
    \/ \E t \in Tasks : DeadlinePasses(t)
    \/ \E b \in Blocks : \E kept \in SUBSET TasksOf(b) : Reorg(b, kept)
    \/ CleanupContexts
    \/ \E outcome \in {"done", "error"} :
          SessionEnds(outcome) \/ \E t \in Tasks : AbandonedSessionEnds(t, outcome)
    \/ Crash

(* The two goroutines run, and time passes; sessions owe nothing. *)
Fairness ==
    /\ WF_vars(PollerStep) /\ WF_vars(Handoff) /\ WF_vars(ManagerStep)
    /\ \A t \in Tasks : WF_vars(DeadlinePasses(t))

Spec == Init /\ [][Next]_vars
FairSpec == Spec /\ Fairness

-----------------------------------------------------------------------------
(* Types of the store, the contexts and the goroutines' states. *)
TypeOK ==
    /\ present \in SUBSET Tasks /\ passed \in SUBSET Tasks
    /\ reorgs \in Nat /\ crashes \in Nat
    /\ status \in [Tasks -> Statuses]
    /\ processed \in 0..NumBlocks
    /\ storeFaults \in Nat /\ unsaved \in SUBSET Tasks /\ reopened \in SUBSET Tasks
    /\ blockCtx \in [Blocks -> [owner : Tasks \cup {NoTask}, ids : SUBSET Tasks]]
    /\ poller \in {"off", "idle", "logs", "offer", "save"}
    /\ todo \in Seq(Tasks)
    /\ manager \in {"off", "idle", "received", "preparing", "waiting"}
    /\ task \in Tasks \cup {NoTask}
    /\ offered \in Tasks \cup {NoTask} /\ ctxOwner \in Tasks \cup {NoTask}
    /\ ctxCancelled \in BOOLEAN
    /\ result \in {"none", "done", "error"}
    /\ inflight \in SUBSET Tasks
    /\ running \in [Tasks -> Nat]
    /\ submitted \in [Tasks -> Nat]

(* A task never has two live session goroutines, although the manager      *)
(* stops waiting for a session without stopping it, and a reorganisation   *)
(* or a retried block may bring the same task again.                       *)
OneSessionPerTask == \A t \in Tasks : running[t] <= 1

(* A task's result is submitted at most once, however often its block is   *)
(* retried, whatever reorganisations and crashes there were, unless its    *)
(* record was missing when the block was retried: deleted by a             *)
(* reorganisation, not written when the process died between the send and  *)
(* the save, or a save or look-up of it failed.                            *)
SubmittedOnce ==
    \A t \in Tasks \ (unsaved \cup reopened) : submitted[t] <= 1

(* A record is "completed" only if a result was submitted. *)
CompletedWasSubmitted ==
    \A t \in Tasks : status[t] = "completed" => submitted[t] > 0

(* Every task on the chain is handed to the execution manager and recorded *)
(* in the end: a full queue, a slow session, a reorganisation or a crash   *)
(* only delay it.  Only a failing save leaves a task without a record, and *)
(* that task has been handed over.                                         *)
TaskIsRecorded ==
    \A t \in Tasks :
        t \in present ~> (status[t] # "none" \/ t \notin present \/ t \in unsaved)

(* avsExecutionManager.go: "recoverPendingTasks loads pending tasks from   *)
(* storage and re-queues them".  A task found pending after a crash is     *)
(* handled again, or failed because it expired.                            *)
PendingIsRequeued ==
    \A t \in Tasks :
        (status[t] = "pending" /\ crashes > 0 /\ poller = "off")
            ~> (status[t] # "pending" \/ task = t)

=============================================================================
