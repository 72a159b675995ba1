------------------------- MODULE TaskLifecycleProofs -------------------------
(***************************************************************************)
(* Proofs about the life of tasks, for any tasks, chain, store and number  *)
(* of reorganisations and crashes; and, further below, about the           *)
(* transactions that submit their results.                                 *)
(***************************************************************************)
EXTENDS TaskLifecycle, ContractWrites, FiniteSetTheorems, TLAPS

(* While the poller is in a block there is one to process, and the task it *)
(* sends has no record yet, unless a look-up missed it.                    *)
PollerInv ==
    /\ poller \in {"logs", "offer", "save"} => processed < NumBlocks
    /\ poller \in {"offer", "save"} => 
          todo # <<>> /\ (status[Head(todo)] = "none" \/ Head(todo) \in reopened)

(* A live goroutine is in inflightTasks; the session the manager waits for *)
(* is live until it leaves a result; a result "done" was submitted.        *)
ManagerInv ==
    /\ manager \in {"received", "preparing", "waiting"} => task \in Tasks
    /\ \A t \in Tasks : running[t] > 0 => t \in inflight
    /\ manager = "preparing" => task \notin inflight
    /\ manager = "waiting" => running[task] = IF result = "none" THEN 1 ELSE 0
    /\ manager = "waiting" /\ result = "done" => submitted[task] > 0

(* The inductive invariant. *)
IInv ==
    /\ TypeOK
    /\ PollerInv
    /\ ManagerInv
    /\ OneSessionPerTask
    /\ CompletedWasSubmitted

LEMMA InitIInv == Init => IInv
<1> SUFFICES ASSUME Init PROVE IInv
  OBVIOUS
<1> USE LifecycleAssumption DEF Init
<1>1. TypeOK
  <2>1. blockCtx \in [Blocks -> [owner : Tasks \cup {NoTask}, ids : SUBSET Tasks]]
    BY DEF NoCtx
  <2>2. processed \in 0..NumBlocks /\ todo \in Seq(Tasks)
    OBVIOUS
  <2> QED
    BY <2>1, <2>2 DEF TypeOK, Statuses
<1>2. PollerInv /\ ManagerInv
  BY DEF PollerInv, ManagerInv
<1>3. OneSessionPerTask /\ CompletedWasSubmitted
  BY DEF OneSessionPerTask, CompletedWasSubmitted
<1> QED
  BY <1>1, <1>2, <1>3 DEF IInv

LEMMA TodoHead ==
    ASSUME TypeOK, todo # <<>>
    PROVE  Head(todo) \in Tasks /\ Tail(todo) \in Seq(Tasks)
  BY DEF TypeOK

LEMMA TypeStep == IInv /\ [Next]_vars => TypeOK'
<1> SUFFICES ASSUME IInv, [Next]_vars PROVE TypeOK'
  OBVIOUS
<1> USE LifecycleAssumption
<1>0. TypeOK /\ PollerInv /\ ManagerInv
  BY DEF IInv
<1> USE <1>0 DEF TypeOK, chainVars, storeVars, pollerVars, managerVars, sessionVars, historyVars
<1>1. CASE StartPoller
  <2>1. status' \in [Tasks -> Statuses]
    BY <1>1 DEF StartPoller, MarkFailed, Statuses
  <2>2. blockCtx' \in [Blocks -> [owner : Tasks \cup {NoTask}, ids : SUBSET Tasks]]
    BY <1>1 DEF StartPoller
  <2>3. storeFaults' \in Nat
    BY <1>1 DEF StartPoller, MarkFailed, StoreFault
  <2> QED
    BY <1>1, <2>1, <2>2, <2>3 DEF StartPoller
<1>2. CASE StartManager
  <2>1. status' \in [Tasks -> Statuses]
    BY <1>2 DEF StartManager, MarkFailed, Statuses
  <2>2. storeFaults' \in Nat
    BY <1>2 DEF StartManager, MarkFailed, StoreFault
  <2> QED
    BY <1>2, <2>1, <2>2 DEF StartManager
<1>3. CASE PollBlock
  <2>1. processed + 1 \in Blocks
    BY <1>3 DEF PollBlock, Blocks
  <2>2. todo' \in Seq(Tasks)
    BY <1>3, <2>1 DEF PollBlock
  <2> QED
    BY <1>3, <2>2 DEF PollBlock
<1>4. CASE NoSuchLog
  <2>1. todo' \in Seq(Tasks)
    BY <1>4, TodoHead DEF NoSuchLog
  <2> QED
    BY <1>4, <2>1 DEF NoSuchLog
<1>5. CASE TakeLog
  <2>1. Head(todo) \in Tasks /\ Tail(todo) \in Seq(Tasks)
    BY <1>5, TodoHead DEF TakeLog
  <2>2. processed + 1 \in Blocks
    BY <1>5 DEF TakeLog, PollerInv, Blocks
  <2>3. blockCtx' \in [Blocks -> [owner : Tasks \cup {NoTask}, ids : SUBSET Tasks]]
    BY <1>5, <2>1, <2>2 DEF TakeLog, GetContext
  <2>4. offered' \in Tasks \cup {NoTask}
    BY <1>5, <2>2, <2>3 DEF TakeLog
  <2>5. storeFaults' \in Nat /\ reopened' \in SUBSET Tasks
    BY <1>5, <2>1 DEF TakeLog, StoreFault
  <2> QED
    BY <1>5, <2>1, <2>3, <2>4, <2>5 DEF TakeLog
<1>6. CASE Handoff
  <2>1. Head(todo) \in Tasks
    BY <1>6, TodoHead DEF Handoff, PollerInv
  <2> QED
    BY <1>6, <2>1 DEF Handoff
<1>7. CASE OfferTimesOut
  BY <1>7 DEF OfferTimesOut
<1>8. CASE SaveTask
  <2>1. Head(todo) \in Tasks /\ Tail(todo) \in Seq(Tasks)
    BY <1>8, TodoHead DEF SaveTask, PollerInv
  <2>2. status' \in [Tasks -> Statuses]
    BY <1>8, <2>1 DEF SaveTask, SavePendingTask, Statuses
  <2>3. storeFaults' \in Nat /\ unsaved' \in SUBSET Tasks
    BY <1>8, <2>1 DEF SaveTask, SavePendingTask, StoreFault
  <2> QED
    BY <1>8, <2>1, <2>2, <2>3 DEF SaveTask
<1>9. CASE FinishBlock
  BY <1>9 DEF FinishBlock, PollerInv
<1>10. CASE \E b \in Blocks : \E kept \in SUBSET TasksOf(b) : Reorg(b, kept)
  <2>0. PICK b \in Blocks : \E kept \in SUBSET TasksOf(b) : Reorg(b, kept)
    BY <1>10
  <2>1. PICK kept \in SUBSET TasksOf(b) : Reorg(b, kept)
    BY <2>0
  <2>2. TasksOf(b) \subseteq Tasks
    <3>1. LogsOf[b] \in Seq(Tasks)
      OBVIOUS
    <3> QED
      BY <3>1 DEF TasksOf
  <2>3. present' \in SUBSET Tasks
    BY <2>1, <2>2 DEF Reorg
  <2>4. status' \in [Tasks -> Statuses]
    BY <2>1 DEF Reorg, Statuses
  <2>5. blockCtx' \in [Blocks -> [owner : Tasks \cup {NoTask}, ids : SUBSET Tasks]]
    <3>1. NoCtx \in [owner : Tasks \cup {NoTask}, ids : SUBSET Tasks]
      BY DEF NoCtx
    <3>2. \/ blockCtx' = [blockCtx EXCEPT ![b] = NoCtx]
          \/ blockCtx' = blockCtx
      BY <2>1 DEF Reorg
    <3>3. blockCtx \in [Blocks -> [owner : Tasks \cup {NoTask}, ids : SUBSET Tasks]]
      OBVIOUS
    <3> HIDE <1>0
    <3> QED
      BY <3>1, <3>2, <3>3, Zenon
  <2>6. processed' \in 0..NumBlocks
    BY <2>1 DEF Reorg, Blocks
  <2>7. ctxCancelled' \in BOOLEAN
    BY <2>1, Zenon DEF Reorg
  <2>8. reopened' \in SUBSET Tasks
    BY <2>1 DEF Reorg
  <2> QED
    BY <2>1, <2>3, <2>4, <2>5, <2>6, <2>7, <2>8 DEF Reorg
<1>11. CASE CleanupContexts
  <2>1. blockCtx' \in [Blocks -> [owner : Tasks \cup {NoTask}, ids : SUBSET Tasks]]
    BY <1>11 DEF CleanupContexts, NoCtx
  <2> QED
    BY <1>11, <2>1 DEF CleanupContexts
<1>12. CASE BeginTask
  <2>1. status' \in [Tasks -> Statuses]
    BY <1>12 DEF BeginTask, UpdateTaskStatus, Statuses
  <2>2. storeFaults' \in Nat
    BY <1>12 DEF BeginTask, UpdateTaskStatus, StoreFault
  <2> QED
    BY <1>12, <2>1, <2>2 DEF BeginTask, HandleTaskReturns
<1>13. CASE PrepareFails
  BY <1>13 DEF PrepareFails, HandleTaskReturns
<1>14. CASE StartSession
  <2>1. task \in Tasks
    BY <1>14 DEF StartSession, ManagerInv
  <2> QED
    BY <1>14, <2>1 DEF StartSession
<1>15. CASE \E outcome \in {"done", "error"} : SessionEnds(outcome)
  <2>1. PICK outcome \in {"done", "error"} : SessionEnds(outcome)
    BY <1>15
  <2>2. task \in Tasks /\ running[task] = 1
    BY <2>1 DEF SessionEnds, ManagerInv
  <2>3. running' \in [Tasks -> Nat] /\ submitted' \in [Tasks -> Nat]
    BY <2>1, <2>2 DEF SessionEnds
  <2> QED
    BY <2>1, <2>3 DEF SessionEnds
<1>16. CASE \E outcome \in {"done", "error"}, t \in Tasks : AbandonedSessionEnds(t, outcome)
  <2>1. PICK outcome \in {"done", "error"}, t \in Tasks : AbandonedSessionEnds(t, outcome)
    BY <1>16
  <2>2. running[t] > 0
    BY <2>1 DEF AbandonedSessionEnds, Abandoned
  <2>3. running' \in [Tasks -> Nat] /\ submitted' \in [Tasks -> Nat]
    BY <2>1, <2>2 DEF AbandonedSessionEnds
  <2> QED
    BY <2>1, <2>3 DEF AbandonedSessionEnds
<1>17. CASE ReceiveResult
  <2>1. status' \in [Tasks -> Statuses]
    BY <1>17 DEF ReceiveResult, UpdateTaskStatus, Statuses
  <2>2. storeFaults' \in Nat
    BY <1>17 DEF ReceiveResult, UpdateTaskStatus, StoreFault
  <2> QED
    BY <1>17, <2>1, <2>2 DEF ReceiveResult, HandleTaskReturns
<1>18. CASE TaskContextDone
  BY <1>18 DEF TaskContextDone, HandleTaskReturns
<1>19. CASE Crash
  <2>1. blockCtx' \in [Blocks -> [owner : Tasks \cup {NoTask}, ids : SUBSET Tasks]]
    BY <1>19 DEF Crash, NoCtx
  <2>2. running' \in [Tasks -> Nat] /\ todo' \in Seq(Tasks)
    BY <1>19 DEF Crash
  <2>3. crashes' \in Nat
    BY <1>19 DEF Crash
  <2>4. reopened' \in SUBSET Tasks
    BY <1>19, TodoHead DEF Crash, PollerInv
  <2> QED
    BY <1>19, <2>1, <2>2, <2>3, <2>4 DEF Crash
<1>20. CASE \E t \in Tasks : DeadlinePasses(t)
  BY <1>20 DEF DeadlinePasses
<1>21. CASE UNCHANGED vars
  BY <1>21 DEF vars
<1> QED
  BY <1>1, <1>2, <1>3, <1>4, <1>5, <1>6, <1>7, <1>8, <1>9, <1>10, <1>11, <1>12, <1>13,
     <1>14, <1>15, <1>16, <1>17, <1>18, <1>19, <1>20, <1>21
     DEF Next, PollerStep, ManagerStep

LEMMA PollerStepInv == IInv /\ [Next]_vars => PollerInv'
<1> SUFFICES ASSUME IInv, [Next]_vars PROVE PollerInv'
  OBVIOUS
<1> USE LifecycleAssumption
<1>0. TypeOK /\ TypeOK' /\ PollerInv /\ ManagerInv
  BY TypeStep DEF IInv
<1>t. todo # <<>> => Head(todo) \in Tasks
  BY <1>0, TodoHead
<1>s. status \in [Tasks -> Statuses] /\ processed \in 0..NumBlocks
  BY <1>0 DEF TypeOK
<1> USE <1>0, <1>t, <1>s
        DEF PollerInv, chainVars, storeVars, historyVars, pollerVars, managerVars, sessionVars
<1>1. CASE StartPoller
  BY <1>1 DEF StartPoller
<1>2. CASE StartManager
  BY <1>2 DEF StartManager, MarkFailed
<1>3. CASE PollBlock
  BY <1>3 DEF PollBlock
<1>4. CASE NoSuchLog
  BY <1>4 DEF NoSuchLog
<1>5. CASE TakeLog
  BY <1>5 DEF TakeLog
<1>6. CASE Handoff
  BY <1>6 DEF Handoff
<1>7. CASE OfferTimesOut
  BY <1>7 DEF OfferTimesOut
<1>8. CASE SaveTask
  BY <1>8 DEF SaveTask
<1>9. CASE FinishBlock
  BY <1>9 DEF FinishBlock
<1>10. CASE \E b \in Blocks : \E kept \in SUBSET TasksOf(b) : Reorg(b, kept)
  BY <1>10 DEF Reorg
<1>11. CASE CleanupContexts
  BY <1>11 DEF CleanupContexts
<1>12. CASE BeginTask
  BY <1>12 DEF BeginTask, UpdateTaskStatus, ValidTransition, ManagerInv
<1>13. CASE PrepareFails
  BY <1>13 DEF PrepareFails
<1>14. CASE StartSession
  BY <1>14 DEF StartSession
<1>15. CASE \E outcome \in {"done", "error"} : SessionEnds(outcome)
  BY <1>15 DEF SessionEnds
<1>16. CASE \E outcome \in {"done", "error"}, t \in Tasks : AbandonedSessionEnds(t, outcome)
  BY <1>16 DEF AbandonedSessionEnds
<1>17. CASE ReceiveResult
  BY <1>17 DEF ReceiveResult, UpdateTaskStatus, ValidTransition, ManagerInv
<1>18. CASE TaskContextDone
  BY <1>18 DEF TaskContextDone
<1>19. CASE Crash
  BY <1>19 DEF Crash
<1>20. CASE \E t \in Tasks : DeadlinePasses(t)
  BY <1>20 DEF DeadlinePasses
<1>21. CASE UNCHANGED vars
  BY <1>21 DEF vars
<1> QED
  BY <1>1, <1>2, <1>3, <1>4, <1>5, <1>6, <1>7, <1>8, <1>9, <1>10, <1>11, <1>12, <1>13,
     <1>14, <1>15, <1>16, <1>17, <1>18, <1>19, <1>20, <1>21
     DEF Next, PollerStep, ManagerStep

(* The manager's own steps are the only ones that touch its state and the  *)
(* goroutines, apart from a crash and a cancelled context.                 *)
LEMMA ManagerStepInv ==
    IInv /\ [Next]_vars => ManagerInv' /\ OneSessionPerTask'
<1> SUFFICES ASSUME IInv, [Next]_vars PROVE ManagerInv' /\ OneSessionPerTask'
  OBVIOUS
<1> USE LifecycleAssumption
<1>0. TypeOK /\ PollerInv /\ ManagerInv /\ OneSessionPerTask
  BY DEF IInv
<1>t. running \in [Tasks -> Nat] /\ submitted \in [Tasks -> Nat] /\ inflight \in SUBSET Tasks
  BY <1>0 DEF TypeOK
<1>h. poller = "offer" => Head(todo) \in Tasks
  BY <1>0, TodoHead DEF PollerInv
<1>m. ManagerInv /\ OneSessionPerTask
  BY <1>0
<1> USE <1>t, <1>h, <1>m
        DEF ManagerInv, OneSessionPerTask, chainVars, storeVars, pollerVars, managerVars,
            sessionVars, HandleTaskReturns
<1>1. CASE UNCHANGED <<manager, task, result, inflight, running, submitted>>
  BY <1>1
<1>2. CASE StartManager
  BY <1>2 DEF StartManager
<1>3. CASE Handoff
  BY <1>3 DEF Handoff
<1>4. CASE BeginTask
  BY <1>4 DEF BeginTask
<1>5. CASE PrepareFails
  BY <1>5 DEF PrepareFails
<1>6. CASE StartSession
  <2>1. task \in Tasks /\ running[task] = 0
    BY <1>6 DEF StartSession
  <2> QED
    BY <1>6, <2>1 DEF StartSession
<1>7. CASE \E outcome \in {"done", "error"} : SessionEnds(outcome)
  <2>1. PICK outcome \in {"done", "error"} : SessionEnds(outcome)
    BY <1>7
  <2>2. task \in Tasks /\ running[task] = 1
    BY <2>1 DEF SessionEnds
  <2> QED
    BY <2>1, <2>2 DEF SessionEnds
<1>8. CASE \E outcome \in {"done", "error"}, t \in Tasks : AbandonedSessionEnds(t, outcome)
  <2>1. PICK outcome \in {"done", "error"}, t \in Tasks : AbandonedSessionEnds(t, outcome)
    BY <1>8
  <2>2. running[t] > 0 /\ ~(manager = "waiting" /\ task = t)
    BY <2>1 DEF AbandonedSessionEnds, Abandoned
  <2> QED
    BY <2>1, <2>2 DEF AbandonedSessionEnds
<1>9. CASE ReceiveResult
  BY <1>9 DEF ReceiveResult
<1>10. CASE TaskContextDone
  BY <1>10 DEF TaskContextDone
<1>11. CASE Crash
  BY <1>11 DEF Crash
<1>12. CASE \/ PollerStep
            \/ CleanupContexts
            \/ \E t \in Tasks : DeadlinePasses(t)
            \/ \E b \in Blocks : \E kept \in SUBSET TasksOf(b) : Reorg(b, kept)
            \/ UNCHANGED vars
  <2>1. UNCHANGED <<manager, task, result, inflight, running, submitted>>
    BY <1>12 DEF PollerStep, StartPoller, PollBlock, NoSuchLog, TakeLog, OfferTimesOut,
                 SaveTask, FinishBlock, CleanupContexts, DeadlinePasses, Reorg, vars
  <2> QED
    BY <2>1, <1>1
<1> QED
  BY <1>2, <1>3, <1>4, <1>5, <1>6, <1>7, <1>8, <1>9, <1>10, <1>11, <1>12
     DEF Next, ManagerStep

LEMMA CompletedStep == IInv /\ [Next]_vars => CompletedWasSubmitted'
<1> SUFFICES ASSUME IInv, [Next]_vars, NEW t \in Tasks, status'[t] = "completed"
             PROVE  submitted'[t] > 0
  BY DEF CompletedWasSubmitted
<1>0. TypeOK /\ ManagerInv /\ CompletedWasSubmitted
  BY DEF IInv
<1>t. status \in [Tasks -> Statuses] /\ submitted \in [Tasks -> Nat]
  BY <1>0 DEF TypeOK
<1>p. submitted' \in [Tasks -> Nat]
  BY TypeStep DEF TypeOK
<1>1. submitted'[t] >= submitted[t]
  <2>1. CASE UNCHANGED submitted
    BY <1>t, <2>1
  <2>2. CASE \E outcome \in {"done", "error"} : SessionEnds(outcome)
    BY <1>t, <2>2 DEF SessionEnds
  <2>3. CASE \E outcome \in {"done", "error"}, u \in Tasks : AbandonedSessionEnds(u, outcome)
    BY <1>t, <2>3 DEF AbandonedSessionEnds
  <2> QED
    BY <2>1, <2>2, <2>3
       DEF Next, PollerStep, ManagerStep, StartPoller, PollBlock, NoSuchLog, TakeLog,
           Handoff, OfferTimesOut, SaveTask, FinishBlock, Reorg, CleanupContexts,
           StartManager, BeginTask, PrepareFails, StartSession, ReceiveResult,
           TaskContextDone, Crash, DeadlinePasses, vars, sessionVars
<1>2. CASE status[t] = "completed"
  BY <1>0, <1>t, <1>p, <1>1, <1>2 DEF CompletedWasSubmitted
<1>3. CASE status[t] # "completed"
  <2>1. CASE ReceiveResult
    <3>1. task = t /\ result = "done" /\ manager = "waiting"
      BY <1>t, <1>3, <2>1 DEF ReceiveResult, UpdateTaskStatus
    <3> QED
      BY <1>0, <1>t, <1>p, <1>1, <3>1 DEF ManagerInv
  <2>2. CASE UNCHANGED status
    BY <1>3, <2>2
  <2>3. CASE StartPoller \/ StartManager
    BY <1>t, <1>3, <2>3 DEF StartPoller, StartManager, MarkFailed
  <2>4. CASE SaveTask
    BY <1>t, <1>3, <2>4 DEF SaveTask, SavePendingTask
  <2>5. CASE \E b \in Blocks : \E kept \in SUBSET TasksOf(b) : Reorg(b, kept)
    BY <1>t, <1>3, <2>5 DEF Reorg
  <2>6. CASE BeginTask
    BY <1>t, <1>3, <2>6 DEF BeginTask, UpdateTaskStatus
  <2> QED
    BY <2>1, <2>2, <2>3, <2>4, <2>5, <2>6
       DEF Next, PollerStep, ManagerStep, PollBlock, NoSuchLog, TakeLog, Handoff,
           OfferTimesOut, FinishBlock, CleanupContexts, PrepareFails, StartSession,
           SessionEnds, AbandonedSessionEnds, TaskContextDone, Crash, DeadlinePasses,
           vars, storeVars
<1> QED
  BY <1>2, <1>3

(* The inductive invariant holds in every reachable state. *)
THEOREM LifecycleInvariant == Spec => []IInv
<1>1. IInv /\ [Next]_vars => IInv'
  BY TypeStep, PollerStepInv, ManagerStepInv, CompletedStep DEF IInv
<1> QED
  BY InitIInv, <1>1, PTL DEF Spec

(* The types of the store's records, the contexts and the goroutines'      *)
(* states are preserved by every operation.                                *)
THEOREM LifecycleTypeOK == Spec => []TypeOK
<1>1. IInv => TypeOK
  BY DEF IInv
<1> QED
  BY LifecycleInvariant, <1>1, PTL

(* No task ever has two live session goroutines, although handleTask only  *)
(* looks at inflightTasks and gives up waiting without stopping a session. *)
THEOREM LifecycleOneSession == Spec => []OneSessionPerTask
<1>1. IInv => OneSessionPerTask
  BY DEF IInv
<1> QED
  BY LifecycleInvariant, <1>1, PTL

(* A record says "completed" only if a result was submitted to the chain.  *)
THEOREM LifecycleCompleted == Spec => []CompletedWasSubmitted
<1>1. IInv => CompletedWasSubmitted
  BY DEF IInv
<1> QED
  BY LifecycleInvariant, <1>1, PTL

(* The manager holds t but has not given it a session yet. *)
Held(t) == manager \in {"received", "preparing"} /\ task = t

(* The attempts at t so far: results, live sessions, and a task in hand. *)
Attempts(t) == submitted[t] + running[t] + IF Held(t) THEN 1 ELSE 0

(* A task whose record cannot have been missed is attempted at most once,  *)
(* and once attempted it has a record or is about to get it.               *)
AttemptedOnce ==
    \A t \in Tasks \ (unsaved \cup reopened) :
        /\ Attempts(t) <= 1
        /\ Attempts(t) > 0 => status[t] # "none" \/ (poller = "save" /\ Head(todo) = t)

(* The histories only grow. *)
LEMMA HistoriesGrow ==
    [Next]_vars => unsaved \subseteq unsaved' /\ reopened \subseteq reopened'
  BY DEF Next, PollerStep, ManagerStep, StartPoller, PollBlock, NoSuchLog, TakeLog,
         Handoff, OfferTimesOut, SaveTask, SavePendingTask, FinishBlock, Reorg,
         CleanupContexts, StartManager, BeginTask, PrepareFails, StartSession,
         ReceiveResult, SessionEnds, AbandonedSessionEnds, TaskContextDone, Crash,
         DeadlinePasses, vars, storeVars, historyVars

LEMMA AttemptedStep == IInv /\ AttemptedOnce /\ [Next]_vars => AttemptedOnce'
<1> SUFFICES ASSUME IInv, AttemptedOnce, [Next]_vars,
                    NEW t \in Tasks, t \notin unsaved', t \notin reopened'
             PROVE  /\ Attempts(t)' <= 1
                    /\ Attempts(t)' > 0 =>
                          status'[t] # "none" \/ (poller' = "save" /\ Head(todo') = t)
  BY DEF AttemptedOnce
<1>0. TypeOK /\ PollerInv /\ ManagerInv
  BY DEF IInv
<1>t. /\ running \in [Tasks -> Nat] /\ submitted \in [Tasks -> Nat]
      /\ status \in [Tasks -> Statuses]
  BY <1>0 DEF TypeOK
<1>u. t \notin unsaved /\ t \notin reopened
  BY HistoriesGrow
<1>a. /\ Attempts(t) <= 1
      /\ Attempts(t) > 0 => status[t] # "none" \/ (poller = "save" /\ Head(todo) = t)
  BY <1>u DEF AttemptedOnce
<1>n. submitted[t] \in Nat /\ running[t] \in Nat
  BY <1>t
<1> USE DEF storeVars, historyVars, pollerVars, managerVars, sessionVars
(* Enough: no new attempt, and whoever was attempted keeps its record. *)
<1>k. ASSUME Attempts(t)' <= Attempts(t), Attempts(t)' \in Nat,
             status[t] # "none" => status'[t] # "none",
             (poller = "save" /\ Head(todo) = t) =>
                 (status'[t] # "none" \/ (poller' = "save" /\ Head(todo') = t))
      PROVE  /\ Attempts(t)' <= 1
             /\ Attempts(t)' > 0 =>
                   status'[t] # "none" \/ (poller' = "save" /\ Head(todo') = t)
  <2>1. Attempts(t) \in Nat
    BY <1>n DEF Attempts
  <2> QED
    BY <1>a, <1>k, <2>1
<1>s. ASSUME UNCHANGED <<submitted, running, manager, task>>
      PROVE  Attempts(t)' = Attempts(t) /\ Attempts(t)' \in Nat
  BY <1>n, <1>s DEF Attempts, Held
<1>1. CASE Handoff
  <2>1. poller' = "save" /\ todo' = todo /\ status' = status
    BY <1>1 DEF Handoff
  <2>2. CASE Head(todo) = t
    <3>1. status[t] = "none" /\ poller = "offer"
      BY <1>0, <1>1, <1>u, <2>2 DEF Handoff, PollerInv
    <3>2. Attempts(t) = 0
      BY <1>a, <1>n, <3>1 DEF Attempts
    <3>3. submitted'[t] = 0 /\ running'[t] = 0
      BY <1>1, <1>n, <3>2 DEF Handoff, Attempts
    <3> QED
      BY <2>1, <2>2, <3>3 DEF Attempts
  <2>3. CASE Head(todo) # t
    <3>1. ~Held(t)' /\ UNCHANGED <<submitted, running>>
      BY <1>1, <2>3 DEF Handoff, Held
    <3>2. Attempts(t)' <= Attempts(t) /\ Attempts(t)' \in Nat
      BY <1>n, <3>1 DEF Attempts
    <3> QED
      BY <1>k, <2>1, <2>3, <3>2
  <2> QED
    BY <2>2, <2>3
<1>2. CASE SaveTask
  <2>1. Attempts(t)' = Attempts(t) /\ Attempts(t)' \in Nat
    BY <1>2, <1>s DEF SaveTask
  <2>2. /\ status[t] # "none" => status'[t] # "none"
        /\ Head(todo) = t => status'[t] # "none"
    BY <1>2, <1>t, <1>u DEF SaveTask, SavePendingTask
  <2> QED
    BY <1>k, <1>2, <2>1, <2>2, <1>n DEF Attempts
<1>3. CASE StartPoller \/ PollBlock \/ NoSuchLog \/ TakeLog \/ OfferTimesOut \/ FinishBlock
  <2>1. Attempts(t)' = Attempts(t) /\ Attempts(t)' \in Nat
    BY <1>3, <1>s DEF StartPoller, PollBlock, NoSuchLog, TakeLog, OfferTimesOut, FinishBlock
  <2>2. poller # "save"
    BY <1>3 DEF StartPoller, PollBlock, NoSuchLog, TakeLog, OfferTimesOut, FinishBlock
  <2>3. status[t] # "none" => status'[t] # "none"
    BY <1>3, <1>t DEF StartPoller, MarkFailed, PollBlock, NoSuchLog, TakeLog, OfferTimesOut,
                      FinishBlock
  <2> QED
    BY <1>k, <2>1, <2>2, <2>3, <1>n DEF Attempts
<1>4. CASE StartManager \/ BeginTask \/ PrepareFails \/ ReceiveResult \/ TaskContextDone
  <2>1. UNCHANGED <<poller, todo, submitted, running>>
    BY <1>4 DEF StartManager, BeginTask, PrepareFails, ReceiveResult, TaskContextDone
  <2>2. Held(t)' => Held(t)
    BY <1>4 DEF StartManager, BeginTask, PrepareFails, ReceiveResult, TaskContextDone, Held,
                HandleTaskReturns
  <2>3. status[t] # "none" => status'[t] # "none"
    BY <1>4, <1>t DEF StartManager, BeginTask, PrepareFails, ReceiveResult, TaskContextDone,
                      UpdateTaskStatus, MarkFailed
  <2>4. Attempts(t)' <= Attempts(t) /\ Attempts(t)' \in Nat
    BY <1>n, <2>1, <2>2 DEF Attempts
  <2> QED
    BY <1>k, <2>1, <2>3, <2>4
<1>5. CASE StartSession
  <2>1. UNCHANGED <<poller, todo, submitted, status, task>> /\ ~Held(t)'
    BY <1>5 DEF StartSession, Held
  <2>2. CASE task = t
    <3>1. running'[t] = running[t] + 1 /\ Held(t)
      BY <1>5, <1>t, <2>2 DEF StartSession, Held
    <3>2. Attempts(t)' <= Attempts(t) /\ Attempts(t)' \in Nat
      BY <1>n, <2>1, <3>1 DEF Attempts
    <3> QED
      BY <1>k, <2>1, <3>2
  <2>3. CASE task # t
    <3>1. running'[t] = running[t]
      BY <1>5, <1>t, <2>3 DEF StartSession
    <3>2. Attempts(t)' <= Attempts(t) /\ Attempts(t)' \in Nat
      BY <1>n, <2>1, <3>1 DEF Attempts
    <3> QED
      BY <1>k, <2>1, <3>2
  <2> QED
    BY <2>2, <2>3
<1>6. CASE \E outcome \in {"done", "error"} :
              SessionEnds(outcome) \/ \E u \in Tasks : AbandonedSessionEnds(u, outcome)
  <2>1. UNCHANGED <<poller, todo, status, manager, task>>
    BY <1>6 DEF SessionEnds, AbandonedSessionEnds
  <2>2. PICK u \in Tasks : /\ running[u] > 0
                           /\ running' = [running EXCEPT ![u] = @ - 1]
                           /\ \/ submitted' = submitted
                              \/ submitted' = [submitted EXCEPT ![u] = @ + 1]
    <3>1. CASE \E outcome \in {"done", "error"} : SessionEnds(outcome)
      <4>1. task \in Tasks /\ running[task] > 0
        BY <1>0, <3>1 DEF SessionEnds, ManagerInv
      <4> QED
        BY <3>1, <4>1 DEF SessionEnds
    <3>2. CASE \E outcome \in {"done", "error"}, u \in Tasks : AbandonedSessionEnds(u, outcome)
      <4>1. PICK outcome \in {"done", "error"}, u \in Tasks : AbandonedSessionEnds(u, outcome)
        BY <3>2
      <4>2. running[u] > 0
        BY <1>t, <4>1 DEF AbandonedSessionEnds, Abandoned
      <4> QED
        BY <4>1, <4>2 DEF AbandonedSessionEnds
    <3> QED
      BY <1>6, <3>1, <3>2
  <2>3. submitted'[t] + running'[t] <= submitted[t] + running[t]
           /\ submitted'[t] \in Nat /\ running'[t] \in Nat
    BY <1>t, <2>2
  <2>4. Attempts(t)' <= Attempts(t) /\ Attempts(t)' \in Nat
    BY <1>n, <2>1, <2>3 DEF Attempts, Held
  <2> QED
    BY <1>k, <2>1, <2>4
<1>7. CASE CleanupContexts \/ (\E u \in Tasks : DeadlinePasses(u)) \/ UNCHANGED vars
  <2>1. UNCHANGED <<submitted, running, manager, task, poller, todo, status>>
    BY <1>7 DEF CleanupContexts, DeadlinePasses, vars
  <2> QED
    BY <1>k, <1>s, <2>1, <1>n DEF Attempts
<1>8. CASE Crash
  <2>1. status' = status /\ ~(poller = "save" /\ Head(todo) = t)
    BY <1>8 DEF Crash
  <2>2. submitted'[t] = submitted[t] /\ running'[t] = 0 /\ ~Held(t)'
    BY <1>8 DEF Crash, Held
  <2>3. Attempts(t)' <= Attempts(t) /\ Attempts(t)' \in Nat
    BY <1>n, <2>2 DEF Attempts
  <2> QED
    BY <1>k, <2>1, <2>3
<1>9. CASE \E b \in Blocks : \E kept \in SUBSET TasksOf(b) : Reorg(b, kept)
  <2>1. UNCHANGED <<submitted, running, manager, task>> /\ poller # "save"
    BY <1>9 DEF Reorg
  <2>2. status'[t] = status[t]
    BY <1>9, <1>t DEF Reorg
  <2> QED
    BY <1>k, <1>s, <2>1, <2>2, <1>n DEF Attempts
<1> QED
  BY <1>1, <1>2, <1>3, <1>4, <1>5, <1>6, <1>7, <1>8, <1>9 DEF Next, PollerStep, ManagerStep

(* A task's result is submitted at most once, across retried blocks,       *)
(* reorganisations and crashes, unless its record was missed: deleted by a *)
(* reorganisation, not saved when the process died, or its save or look-up *)
(* failed.  handleTask may find the record missing, because the poller     *)
(* saves it after the send, yet the poller does not send the task again    *)
(* before it has saved it.                                                 *)
THEOREM LifecycleSubmittedOnce == Spec => []SubmittedOnce
<1>1. Init => AttemptedOnce
  <2> SUFFICES ASSUME Init, NEW t \in Tasks
               PROVE  Attempts(t) <= 1 /\ ~(Attempts(t) > 0)
    BY DEF AttemptedOnce
  <2>1. submitted[t] = 0 /\ running[t] = 0 /\ ~Held(t)
    BY DEF Init, Held
  <2> QED
    BY <2>1 DEF Attempts
<1>2. IInv /\ AttemptedOnce => SubmittedOnce
  <2> SUFFICES ASSUME IInv, AttemptedOnce, NEW t \in Tasks \ (unsaved \cup reopened)
               PROVE  submitted[t] <= 1
    BY DEF SubmittedOnce
  <2>1. submitted[t] \in Nat /\ running[t] \in Nat
    BY DEF IInv, TypeOK
  <2>2. Attempts(t) <= 1
    BY DEF AttemptedOnce
  <2> QED
    BY <2>1, <2>2 DEF Attempts
<1> QED
  BY <1>1, <1>2, AttemptedStep, LifecycleInvariant, PTL DEF Spec
-----------------------------------------------------------------------------
(* The transactions of an account, which submit the results: ContractWrites, *)
(* for any writers, calls, facts, gas prices, retries and faults.            *)

(* A writer that sleeps has an attempt left. *)
WritesTypes ==
    /\ WritesTypeOK
    /\ step \in [Writers -> Nat]
    /\ \A w \in Writers : pc[w] = "sleep" => try[w] < MaxAttempts

(* No two pending transactions have one nonce, the nonces follow the last  *)
(* mined one without a hole, and a writer about to send holds one of them  *)
(* or the next: the node's count may have moved on since, never back.      *)
PoolIsContiguous ==
    /\ IsFiniteSet(pool)
    /\ \A t \in pool : t.nonce \in Nat /\ t.by \in Writers
    /\ \A t, u \in pool : t.nonce = u.nonce => t = u
    /\ {t.nonce : t \in pool} = mined .. PendingNonceAt - 1
    /\ \A w \in Writers : pc[w] = "send" => nonce[w] <= PendingNonceAt

(* A good receipt is of a transaction that took effect; a call that looks  *)
(* at its receipts has left no step behind that did not.                   *)
EffectsAreSettled ==
    /\ \A r \in receipts : r.ok => <<r.by, r.step>> \in settled
    /\ \A w \in Writers : ChecksStatus(w) /\ Waits(w) =>
          \A s \in 1 .. Len(Program(w)) :
              s < step[w] \/ out[w] = "ok" => <<w, s>> \in settled

WritesInv == WritesTypes /\ PoolIsContiguous /\ EffectsAreSettled

(* What the constants must be. *)

LEMMA WritesCardinality == ASSUME NEW S PROVE Cardinality(S) = Cardinality(S)
  BY DEF Cardinality, Cardinality

(* Every call has a transaction. *)
LEMMA PonosProgram ==
    ASSUME NEW c \in DOMAIN PonosCalls
    PROVE  Len(PonosCalls[c]) \in Nat \ {0}
<1>1. Len(CreateOperatorAndRegisterWithAvs) = 2
  BY DEF CreateOperatorAndRegisterWithAvs, createOperator, registerOperatorWithAvs
<1>2. /\ Len(SubmitBN254TaskResult) = 1 /\ Len(SubmitECDSATaskResult) = 1
      /\ Len(PublishMessageToInbox) = 1 /\ Len(ConfigureAVSOperatorSet) = 1
      /\ Len(RegisterKeyWithKeyRegistrar) = 1 /\ Len(SetupTaskMailboxForAvs) = 2
      /\ Len(DelegateToOperator) = 1 /\ Len(ModifyAllocations) = 1
      /\ Len(CreateGenerationReservation) = 1 /\ Len(VerifyBN254Certificate) = 1
  BY DEF SubmitBN254TaskResult, SubmitECDSATaskResult, PublishMessageToInbox,
         ConfigureAVSOperatorSet, RegisterKeyWithKeyRegistrar,
         SetupTaskMailboxForAvs, DelegateToOperator, ModifyAllocations,
         CreateGenerationReservation, VerifyBN254Certificate
<1> QED
  BY <1>1, <1>2 DEF PonosCalls

LEMMA HgctlProgram ==
    ASSUME NEW c \in DOMAIN HgctlCalls
    PROVE  Len(HgctlCalls[c]) \in Nat \ {0}
<1>1. /\ Len(RegisterAsOperator) = 1 /\ Len(RegisterOperatorToAVS) = 1
      /\ Len(DepositIntoStrategy) = 2 /\ Len(DelegateTo) = 1
      /\ Len(RegisterECDSAKey) = 1 /\ Len(RegisterKey) = 1
      /\ Len(RegisterBN254Key) = 1 /\ Len(SetAllocationDelay) = 1
      /\ Len(CliModifyAllocations) = 1 /\ Len(CreateOperatorSets) = 1
  BY DEF RegisterAsOperator, RegisterOperatorToAVS, DepositIntoStrategy,
         DelegateTo, RegisterECDSAKey, RegisterKey, RegisterBN254Key,
         SetAllocationDelay, CliModifyAllocations, CreateOperatorSets
<1>2. /\ Len(DeregisterOperatorFromAVS) = 1 /\ Len(DeregisterKey) = 1
      /\ Len(AddPendingAdmin) = 1 /\ Len(RemovePendingAdmin) = 1
      /\ Len(AcceptAdmin) = 1 /\ Len(RemoveAdmin) = 1
      /\ Len(SetAppointee) = 1 /\ Len(RemoveAppointee) = 1
      /\ Len(SetClaimerFor) = 1 /\ Len(ProcessClaim) = 1
  BY DEF DeregisterOperatorFromAVS, DeregisterKey, AddPendingAdmin,
         RemovePendingAdmin, AcceptAdmin, RemoveAdmin, SetAppointee,
         RemoveAppointee, SetClaimerFor, ProcessClaim
<1> QED
  BY <1>1, <1>2 DEF HgctlCalls

LEMMA ProgramLen ==
    ASSUME call \in CallChoices, NEW w \in Writers
    PROVE  Len(Program(w)) \in Nat \ {0}
  BY PonosProgram, HgctlProgram, CallsAssumption DEF Program, InPonos

(* How a failed attempt and a finished transaction leave the writer. *)
LEMMA FailTypes ==
    ASSUME WritesTypes, NEW w \in Writers, pc[w] # "done", Fail(w)
    PROVE  /\ pc' \in [Writers -> {"build", "send", "wait", "sleep", "done"}]
           /\ out' \in [Writers -> {"none", "ok", "error"}]
           /\ \A x \in Writers : (out'[x] = "none") <=> (pc'[x] # "done")
           /\ \A x \in Writers : pc'[x] = "sleep" => try[x] < MaxAttempts
           /\ \A x \in Writers : pc'[x] = "send" => pc[x] = "send"
           /\ \A x \in Writers : out'[x] = "ok" => out[x] = "ok"
  BY DEF WritesTypes, WritesTypeOK, Fail

LEMMA AdvanceTypes ==
    ASSUME WritesTypes, NEW w \in Writers, pc[w] # "done", Advance(w)
    PROVE  /\ pc' \in [Writers -> {"build", "send", "wait", "sleep", "done"}]
           /\ out' \in [Writers -> {"none", "ok", "error"}]
           /\ \A x \in Writers : (out'[x] = "none") <=> (pc'[x] # "done")
           /\ \A x \in Writers : pc'[x] = "sleep" => pc[x] = "sleep"
           /\ \A x \in Writers : pc'[x] = "send" => pc[x] = "send"
           /\ step' \in [Writers -> Nat]
           /\ \A x \in Writers : step'[x] \in 1 .. Len(Program(x))
<1>1. \A x \in Writers : Len(Program(x)) \in Nat
  BY ProgramLen DEF WritesTypes, WritesTypeOK
<1>2. \A x \in Writers : step[x] \in 1 .. Len(Program(x)) /\ step[x] \in Nat
  BY DEF WritesTypes, WritesTypeOK
<1>3. step' \in [Writers -> Nat] /\ \A x \in Writers : step'[x] \in 1 .. Len(Program(x))
  BY <1>1, <1>2 DEF Advance, WritesTypes
<1> QED
  BY <1>3 DEF WritesTypes, WritesTypeOK, Advance

LEMMA PendingIsNat ==
    ASSUME mined \in Nat, IsFiniteSet(pool)
    PROVE  PendingNonceAt \in Nat
  BY FS_CardinalityType, WritesCardinality DEF PendingNonceAt

(* Only the calls' parameters decide the programs. *)
LEMMA ProgramsStay ==
    ASSUME UNCHANGED call
    PROVE  \A w \in Writers : Program(w)' = Program(w)
  BY DEF Program, InPonos

LEMMA WritesTypesStep ==
    WritesInv /\ [WritesNext]_writesVars => WritesTypes'
<1> SUFFICES ASSUME WritesInv, [WritesNext]_writesVars PROVE WritesTypes'
  OBVIOUS
<1>0. /\ WritesTypes /\ WritesTypeOK
      /\ IsFiniteSet(pool) /\ \A t \in pool : t.by \in Writers
  BY DEF WritesInv, WritesTypes, PoolIsContiguous
<1>1. ASSUME NEW w \in Writers, Sleep(w) PROVE WritesTypes'
  BY <1>0, <1>1, ProgramsStay, WritesAssumption
     DEF WritesTypes, WritesTypeOK, Sleep, callVars, nodeVars
<1>2. ASSUME NEW w \in Writers, RequestFails(w) PROVE WritesTypes'
  <2>1. pc[w] # "done" /\ Fail(w)
    BY <1>2 DEF RequestFails
  <2>2. faults' \in 0 .. MaxFaults
    BY <1>0, <1>2, WritesAssumption DEF RequestFails, WritesTypeOK
  <2>3. UNCHANGED <<remote, call, valid, step, try, nonce, mined, expired>>
    BY <1>2 DEF RequestFails, callVars, nodeVars
  <2> QED
    BY <1>0, <2>1, <2>2, <2>3, FailTypes, ProgramsStay DEF WritesTypes, WritesTypeOK
<1>3. ASSUME NEW w \in Writers, Skip(w) PROVE WritesTypes'
  <2>1. pc[w] # "done" /\ Advance(w)
    BY <1>3 DEF Skip
  <2>2. UNCHANGED <<remote, call, valid, try, nonce, mined, expired, faults>>
    BY <1>3 DEF Skip, callVars, nodeVars
  <2> QED
    BY <1>0, <2>1, <2>2, AdvanceTypes, ProgramsStay DEF WritesTypes, WritesTypeOK
<1>4. ASSUME NEW w \in Writers, Build(w) PROVE WritesTypes'
  <2>1. pc[w] = "build"
    BY <1>4 DEF Build
  <2>2. UNCHANGED <<remote, call, valid, step, try, mined, expired, faults>>
    BY <1>4 DEF Build, callVars, nodeVars
  <2>3. CASE Fail(w) /\ UNCHANGED nonce
    BY <1>0, <2>1, <2>2, <2>3, FailTypes, ProgramsStay DEF WritesTypes, WritesTypeOK
  <2>4. CASE /\ nonce' = [nonce EXCEPT ![w] = PendingNonceAt]
             /\ pc' = [pc EXCEPT ![w] = "send"]
             /\ UNCHANGED out
    <3>1. PendingNonceAt \in Nat
      BY <1>0, PendingIsNat DEF WritesTypeOK
    <3> QED
      BY <1>0, <2>1, <2>2, <2>4, <3>1, ProgramsStay DEF WritesTypes, WritesTypeOK
  <2> QED
    BY <1>4, <2>3, <2>4 DEF Build
<1>5. ASSUME NEW w \in Writers, Send(w) PROVE WritesTypes'
  <2>1. pc[w] = "send"
    BY <1>5 DEF Send
  <2>2. UNCHANGED <<remote, call, valid, try, nonce, mined, expired, faults>>
    BY <1>5 DEF Send, callVars
  <2>3. CASE Fail(w) /\ UNCHANGED step
    BY <1>0, <2>1, <2>2, <2>3, FailTypes, ProgramsStay DEF WritesTypes, WritesTypeOK
  <2>4. CASE pc' = [pc EXCEPT ![w] = "wait"] /\ UNCHANGED <<out, step>>
    BY <1>0, <2>1, <2>2, <2>4, ProgramsStay DEF WritesTypes, WritesTypeOK
  <2>5. CASE Advance(w)
    BY <1>0, <2>1, <2>2, <2>5, AdvanceTypes, ProgramsStay DEF WritesTypes, WritesTypeOK
  <2> QED
    BY <1>5, <2>3, <2>4, <2>5 DEF Send
<1>6. ASSUME NEW w \in Writers, EnsureTransactionEvaled(w) PROVE WritesTypes'
  <2>1. pc[w] = "wait"
    BY <1>6 DEF EnsureTransactionEvaled
  <2>2. UNCHANGED <<remote, call, valid, try, nonce, mined, expired, faults>>
    BY <1>6 DEF EnsureTransactionEvaled, callVars, nodeVars
  <2>3. CASE Fail(w) /\ UNCHANGED step
    BY <1>0, <2>1, <2>2, <2>3, FailTypes, ProgramsStay DEF WritesTypes, WritesTypeOK
  <2>4. CASE Advance(w)
    BY <1>0, <2>1, <2>2, <2>4, AdvanceTypes, ProgramsStay DEF WritesTypes, WritesTypeOK
  <2> QED
    BY <1>6, <2>3, <2>4 DEF EnsureTransactionEvaled
<1>7. ASSUME NEW w \in Writers, WaitExpires(w) PROVE WritesTypes'
  <2>1. pc[w] # "done" /\ Fail(w)
    BY <1>7 DEF WaitExpires
  <2>2. UNCHANGED <<remote, call, valid, step, try, nonce, mined, expired, faults>>
    BY <1>7 DEF WaitExpires, callVars, nodeVars
  <2> QED
    BY <1>0, <2>1, <2>2, FailTypes, ProgramsStay DEF WritesTypes, WritesTypeOK
<1>8. ASSUME NEW w \in Writers, ContextEnds(w) PROVE WritesTypes'
  BY <1>0, <1>8, ProgramsStay
     DEF WritesTypes, WritesTypeOK, ContextEnds, callVars, nodeVars
<1>9. CASE Mine
  <2>1. UNCHANGED <<remote, call, valid, pc, step, try, nonce, out, expired>>
    BY <1>9 DEF Mine, callVars
  <2>2. mined' \in Nat /\ faults' \in 0 .. MaxFaults
    BY <1>0, <1>9, WritesAssumption DEF Mine, WritesTypeOK
  <2> QED
    BY <1>0, <2>1, <2>2, ProgramsStay DEF WritesTypes, WritesTypeOK
<1>10. CASE UNCHANGED writesVars
  BY <1>0, <1>10, ProgramsStay DEF WritesTypes, WritesTypeOK, writesVars
<1> QED
  BY <1>1, <1>2, <1>3, <1>4, <1>5, <1>6, <1>7, <1>8, <1>9, <1>10 DEF WritesNext, Work

(* A transaction at the next nonce lengthens the queue by one; one at the  *)
(* nonce of a pending one takes its place.                                 *)
LEMMA SendKeepsPool ==
    ASSUME WritesTypes, PoolIsContiguous, NEW w \in Writers, NEW f,
           mined <= nonce[w], nonce[w] <= PendingNonceAt,
           pool' = (pool \ Rivals(w)) \cup {Sent(w, f)}, UNCHANGED mined
    PROVE  /\ IsFiniteSet(pool')
           /\ \A t \in pool' : t.nonce \in Nat /\ t.by \in Writers
           /\ \A t, u \in pool' : t.nonce = u.nonce => t = u
           /\ {t.nonce : t \in pool'} = mined .. PendingNonceAt' - 1
           /\ PendingNonceAt <= PendingNonceAt'
<1> DEFINE new == Sent(w, f)
<1>0. /\ nonce[w] \in Nat /\ mined \in Nat
      /\ new.nonce = nonce[w] /\ new.by = w
  BY DEF WritesTypes, WritesTypeOK, Sent
<1> HIDE DEF new
<1>1. /\ IsFiniteSet(pool) /\ Cardinality(pool) \in Nat
      /\ PendingNonceAt = mined + Cardinality(pool)
  BY FS_CardinalityType, WritesCardinality DEF PoolIsContiguous, PendingNonceAt
<1>2. PendingNonceAt' = mined + Cardinality(pool')
  BY WritesCardinality DEF PendingNonceAt
<1>3. pool' = (pool \ Rivals(w)) \cup {new}
  BY DEF new
<1>4. \A t \in pool : t.nonce \in Nat /\ t.by \in Writers
  BY DEF PoolIsContiguous
<1>5. \A t, u \in pool : t.nonce = u.nonce => t = u
  BY DEF PoolIsContiguous
<1>6. {t.nonce : t \in pool} = mined .. PendingNonceAt - 1
  BY DEF PoolIsContiguous
<1>7. \A t \in pool \ Rivals(w) : t \in pool /\ t.nonce # nonce[w]
  BY DEF Rivals
<1>8. \A t \in pool' : t.nonce \in Nat /\ t.by \in Writers
  BY <1>0, <1>3, <1>4, <1>7
<1>9. \A t, u \in pool' : t.nonce = u.nonce => t = u
  BY <1>0, <1>3, <1>5, <1>7
<1>10. new \notin pool \ Rivals(w)
  BY <1>0, <1>7
<1>11. CASE Rivals(w) = {}
  <2>1. nonce[w] = PendingNonceAt
    <3>1. nonce[w] \notin {t.nonce : t \in pool}
      BY <1>11 DEF Rivals
    <3> QED
      BY <1>0, <1>1, <1>6, <3>1
  <2>2. pool' = pool \cup {new} /\ new \notin pool
    BY <1>3, <1>10, <1>11
  <2>3. IsFiniteSet(pool') /\ Cardinality(pool') = Cardinality(pool) + 1
    <3>1. IsFiniteSet(pool)
      BY <1>1
    <3> QED
      BY <2>2, <3>1, FS_AddElement
  <2>4. {t.nonce : t \in pool'} = {t.nonce : t \in pool} \cup {nonce[w]}
    BY <1>0, <2>2
  <2>5. {t.nonce : t \in pool'} = mined .. PendingNonceAt' - 1
    <3>1. PendingNonceAt' = PendingNonceAt + 1
      BY <1>0, <1>1, <1>2, <2>3
    <3>2. PendingNonceAt \in Int /\ mined <= PendingNonceAt
      BY <1>0, <1>1
    <3>3. mined .. PendingNonceAt = (mined .. PendingNonceAt - 1) \cup {PendingNonceAt}
      BY <1>0, <3>2
    <3>4. PendingNonceAt' - 1 = PendingNonceAt
      BY <3>1, <3>2
    <3> QED
      BY <1>6, <2>1, <2>4, <3>3, <3>4
  <2>6. PendingNonceAt <= PendingNonceAt'
    BY <1>0, <1>1, <1>2, <2>3
  <2> QED
    BY <1>8, <1>9, <2>3, <2>5, <2>6
<1>12. CASE Rivals(w) # {}
  <2>1. PICK r \in pool : r.nonce = nonce[w] /\ Rivals(w) = {r}
    <3>1. PICK r \in Rivals(w) : TRUE
      BY <1>12
    <3>2. r \in pool /\ r.nonce = nonce[w]
      BY <3>1 DEF Rivals
    <3>3. \A t \in Rivals(w) : t = r
      BY <1>5, <3>2 DEF Rivals
    <3> QED
      BY <3>1, <3>2, <3>3
  <2>2. /\ IsFiniteSet(pool \ {r})
        /\ Cardinality(pool \ {r}) = Cardinality(pool) - 1
    BY <1>1, <2>1, FS_RemoveElement
  <2>3. /\ IsFiniteSet(pool')
        /\ Cardinality(pool') = Cardinality(pool \ {r}) + 1
    BY <1>3, <1>10, <2>1, <2>2, FS_AddElement
  <2>4. {t.nonce : t \in pool'} = {t.nonce : t \in pool}
    <3>1. ASSUME NEW t \in pool' PROVE t.nonce \in {u.nonce : u \in pool}
      BY <1>0, <1>3, <1>7, <2>1
    <3>2. ASSUME NEW t \in pool PROVE t.nonce \in {u.nonce : u \in pool'}
      <4>1. CASE t = r
        BY <1>0, <1>3, <2>1, <4>1
      <4>2. CASE t # r
        BY <1>3, <2>1, <4>2
      <4> QED
        BY <4>1, <4>2
    <3> QED
      BY <3>1, <3>2
  <2>5. PendingNonceAt' = PendingNonceAt
    BY <1>0, <1>1, <1>2, <2>2, <2>3
  <2>6. PendingNonceAt <= PendingNonceAt'
    BY <1>0, <1>1, <2>5
  <2> QED
    BY <1>6, <1>8, <1>9, <2>3, <2>4, <2>5, <2>6
<1> QED
  BY <1>11, <1>12

(* The transaction of the lowest nonce leaves the queue for the chain. *)
LEMMA MineKeepsPool ==
    ASSUME WritesTypes, PoolIsContiguous, NEW m \in pool, m.nonce = mined,
           mined' = mined + 1, pool' = pool \ {m}
    PROVE  /\ IsFiniteSet(pool')
           /\ \A t \in pool' : t.nonce \in Nat /\ t.by \in Writers
           /\ \A t, u \in pool' : t.nonce = u.nonce => t = u
           /\ {t.nonce : t \in pool'} = mined' .. PendingNonceAt' - 1
           /\ PendingNonceAt' = PendingNonceAt
<1>1. mined \in Nat /\ mined' \in Nat
  BY DEF WritesTypes, WritesTypeOK
<1>2. /\ IsFiniteSet(pool) /\ Cardinality(pool) \in Nat
      /\ PendingNonceAt = mined + Cardinality(pool)
      /\ PendingNonceAt' = mined' + Cardinality(pool')
  BY FS_CardinalityType, WritesCardinality DEF PoolIsContiguous, PendingNonceAt
<1>3. IsFiniteSet(pool') /\ Cardinality(pool') = Cardinality(pool) - 1
  BY <1>2, FS_RemoveElement
<1>4. PendingNonceAt' = PendingNonceAt /\ PendingNonceAt \in Nat
  BY <1>1, <1>2, <1>3
<1>5. {t.nonce : t \in pool} = mined .. PendingNonceAt - 1
  BY DEF PoolIsContiguous
<1>6. {t.nonce : t \in pool'} = {t.nonce : t \in pool} \ {mined}
  BY DEF PoolIsContiguous
<1>7. {t.nonce : t \in pool'} = mined' .. PendingNonceAt' - 1
  <2>1. (mined .. PendingNonceAt - 1) \ {mined} = mined' .. PendingNonceAt - 1
    BY <1>1, <1>4
  <2> QED
    BY <1>4, <1>5, <1>6, <2>1
<1> QED
  BY <1>3, <1>4, <1>7 DEF PoolIsContiguous

LEMMA PoolStep ==
    WritesInv /\ [WritesNext]_writesVars => PoolIsContiguous'
<1> SUFFICES ASSUME WritesInv, [WritesNext]_writesVars PROVE PoolIsContiguous'
  OBVIOUS
<1>0. /\ WritesTypes /\ WritesTypeOK /\ PoolIsContiguous
      /\ nonce \in [Writers -> Nat] /\ pc \in [Writers -> {"build", "send", "wait", "sleep", "done"}]
  BY DEF WritesInv, WritesTypes, WritesTypeOK
<1>p. PendingNonceAt \in Nat
  BY <1>0, PendingIsNat DEF PoolIsContiguous, WritesTypeOK
<1>k. ASSUME UNCHANGED <<pool, mined, nonce>>,
             \A x \in Writers : pc'[x] = "send" => pc[x] = "send"
      PROVE  PoolIsContiguous'
  BY <1>0, <1>k DEF PoolIsContiguous, PendingNonceAt
<1>1. ASSUME NEW w \in Writers, Sleep(w) PROVE PoolIsContiguous'
  BY <1>0, <1>1, <1>k DEF Sleep, nodeVars
<1>2. ASSUME NEW w \in Writers, RequestFails(w) PROVE PoolIsContiguous'
  <2>1. pc[w] # "done" /\ Fail(w) /\ UNCHANGED <<pool, mined, nonce>>
    BY <1>2 DEF RequestFails, nodeVars
  <2> QED
    BY <1>0, <1>k, <2>1, FailTypes
<1>3. ASSUME NEW w \in Writers, Skip(w) PROVE PoolIsContiguous'
  <2>1. pc[w] # "done" /\ Advance(w) /\ UNCHANGED <<pool, mined, nonce>>
    BY <1>3 DEF Skip, nodeVars
  <2> QED
    BY <1>0, <1>k, <2>1, AdvanceTypes
<1>4. ASSUME NEW w \in Writers, Build(w) PROVE PoolIsContiguous'
  <2>1. pc[w] = "build" /\ UNCHANGED <<pool, mined>>
    BY <1>4 DEF Build, nodeVars
  <2>2. CASE Fail(w) /\ UNCHANGED nonce
    BY <1>0, <1>k, <2>1, <2>2, FailTypes
  <2>3. CASE /\ nonce' = [nonce EXCEPT ![w] = PendingNonceAt]
             /\ pc' = [pc EXCEPT ![w] = "send"]
    <3>1. PendingNonceAt' = PendingNonceAt
      BY <2>1 DEF PendingNonceAt
    <3>2. \A x \in Writers : pc'[x] = "send" => nonce'[x] <= PendingNonceAt
      BY <1>0, <1>p, <2>3 DEF PoolIsContiguous
    <3> QED
      BY <1>0, <2>1, <3>1, <3>2 DEF PoolIsContiguous
  <2> QED
    BY <1>4, <2>2, <2>3 DEF Build
<1>5. ASSUME NEW w \in Writers, Send(w) PROVE PoolIsContiguous'
  <2>1. pc[w] = "send" /\ UNCHANGED <<mined, nonce>>
    BY <1>5 DEF Send
  <2>2. CASE Fail(w) /\ UNCHANGED pool
    BY <1>0, <1>k, <2>1, <2>2, FailTypes
  <2>3. ASSUME NEW f, ~Refused(w, f),
               pool' = (pool \ Rivals(w)) \cup {Sent(w, f)},
               pc' = [pc EXCEPT ![w] = "wait"] \/ Advance(w)
        PROVE  PoolIsContiguous'
    <3>1. mined <= nonce[w] /\ nonce[w] <= PendingNonceAt
      BY <1>0, <2>1, <2>3 DEF Refused, PoolIsContiguous, WritesTypeOK
    <3>2. /\ IsFiniteSet(pool')
          /\ \A t \in pool' : t.nonce \in Nat /\ t.by \in Writers
          /\ \A t, u \in pool' : t.nonce = u.nonce => t = u
          /\ {t.nonce : t \in pool'} = mined .. PendingNonceAt' - 1
          /\ PendingNonceAt <= PendingNonceAt'
      BY <1>0, <2>1, <2>3, <3>1, SendKeepsPool
    <3>3. \A x \in Writers : pc'[x] = "send" => pc[x] = "send"
      BY <1>0, <2>1, <2>3, AdvanceTypes
    <3>4. PendingNonceAt' \in Nat
      BY <1>0, <2>1, <3>2, PendingIsNat, FS_CardinalityType, WritesCardinality
         DEF PendingNonceAt, WritesTypeOK
    <3>5. \A x \in Writers : pc'[x] = "send" => nonce'[x] <= PendingNonceAt'
      BY <1>0, <1>p, <2>1, <3>2, <3>3, <3>4 DEF PoolIsContiguous
    <3> QED
      BY <2>1, <3>2, <3>5 DEF PoolIsContiguous
  <2> QED
    BY <1>5, <2>2, <2>3 DEF Send
<1>6. ASSUME NEW w \in Writers, EnsureTransactionEvaled(w) PROVE PoolIsContiguous'
  <2>1. pc[w] = "wait" /\ UNCHANGED <<pool, mined, nonce>> /\ (Fail(w) \/ Advance(w))
    BY <1>6 DEF EnsureTransactionEvaled, nodeVars
  <2> QED
    BY <1>0, <1>k, <2>1, FailTypes, AdvanceTypes
<1>7. ASSUME NEW w \in Writers, WaitExpires(w) PROVE PoolIsContiguous'
  <2>1. pc[w] # "done" /\ Fail(w) /\ UNCHANGED <<pool, mined, nonce>>
    BY <1>7 DEF WaitExpires, nodeVars
  <2> QED
    BY <1>0, <1>k, <2>1, FailTypes
<1>8. ASSUME NEW w \in Writers, ContextEnds(w) PROVE PoolIsContiguous'
  BY <1>k, <1>8 DEF ContextEnds, nodeVars
<1>9. CASE Mine
  <2>1. PICK m \in pool : m.nonce = mined /\ mined' = mined + 1 /\ pool' = pool \ {m}
    BY <1>9 DEF Mine
  <2>2. UNCHANGED <<pc, nonce>>
    BY <1>9 DEF Mine
  <2> QED
    BY <1>0, <2>1, <2>2, MineKeepsPool DEF PoolIsContiguous
<1>10. CASE UNCHANGED writesVars
  BY <1>k, <1>10 DEF writesVars
<1> QED
  BY <1>1, <1>2, <1>3, <1>4, <1>5, <1>6, <1>7, <1>8, <1>9, <1>10 DEF WritesNext, Work

LEMMA EffectsStep ==
    WritesInv /\ [WritesNext]_writesVars => EffectsAreSettled'
<1> SUFFICES ASSUME WritesInv, [WritesNext]_writesVars PROVE EffectsAreSettled'
  OBVIOUS
<1>0. /\ WritesTypes /\ EffectsAreSettled
      /\ call \in CallChoices /\ step \in [Writers -> Nat]
      /\ out \in [Writers -> {"none", "ok", "error"}]
      /\ \A x \in Writers : step[x] \in 1 .. Len(Program(x))
      /\ \A x \in Writers : out[x] = "none" <=> pc[x] # "done"
  BY DEF WritesInv, WritesTypes, WritesTypeOK
<1>l. \A x \in Writers : Len(Program(x)) \in Nat
  BY <1>0, ProgramLen
<1>c. UNCHANGED <<call, remote>>
  BY DEF WritesNext, Work, Mine, ContextEnds, Sleep, RequestFails, Skip, Build, Send,
         EnsureTransactionEvaled, WaitExpires, callVars, writesVars
<1>s. \A x \in Writers : /\ Program(x)' = Program(x)
                         /\ ChecksStatus(x)' <=> ChecksStatus(x)
                         /\ Waits(x)' <=> Waits(x)
  BY <1>c, ProgramsStay DEF ChecksStatus, Waits, InPonos
<1>k. ASSUME receipts' = receipts, settled \subseteq settled', step' = step,
             \A x \in Writers : out'[x] = "ok" => out[x] = "ok"
      PROVE  EffectsAreSettled'
  BY <1>0, <1>k, <1>s DEF EffectsAreSettled
\* A writer moves on from a step that took effect, or whose effect it does not ask for.
<1>a. ASSUME NEW w \in Writers, pc[w] # "done", Advance(w), receipts' = receipts, settled \subseteq settled',
             ChecksStatus(w) /\ Waits(w) => <<w, step[w]>> \in settled'
      PROVE  EffectsAreSettled'
  <2>1. \A r \in receipts' : r.ok => <<r.by, r.step>> \in settled'
    BY <1>0, <1>a DEF EffectsAreSettled
  <2>2. ASSUME NEW x \in Writers, ChecksStatus(x), Waits(x),
               NEW s \in 1 .. Len(Program(x)), s < step'[x] \/ out'[x] = "ok"
        PROVE  <<x, s>> \in settled'
    <3>1. CASE x # w
      <4>1. step'[x] = step[x] /\ out'[x] = out[x]
        BY <1>0, <1>a, <3>1 DEF Advance
      <4> QED
        BY <1>0, <1>a, <2>2, <4>1 DEF EffectsAreSettled
    <3>2. CASE x = w
      <4>1. s < step[w] \/ s = step[w]
        <5>1. s \in 1 .. Len(Program(w)) /\ step[w] \in Nat /\ Len(Program(w)) \in Nat
          BY <1>0, <1>l, <2>2, <3>2
        <5>2. CASE step[w] < Len(Program(w))
          <6>1. step'[w] = step[w] + 1 /\ out'[w] = out[w]
            BY <1>0, <1>a, <5>2 DEF Advance
          <6>2. out[w] = "ok" => pc[w] = "done"
            BY <1>0
          <6> QED
            BY <1>a, <2>2, <3>2, <5>1, <6>1, <6>2
        <5>3. CASE ~(step[w] < Len(Program(w)))
          BY <5>1, <5>3
        <5> QED
          BY <5>2, <5>3
      <4>2. CASE s < step[w]
        BY <1>0, <1>a, <2>2, <3>2, <4>2 DEF EffectsAreSettled
      <4>3. CASE s = step[w]
        BY <1>a, <2>2, <3>2, <4>3
      <4> QED
        BY <4>1, <4>2, <4>3
    <3> QED
      BY <3>1, <3>2
  <2> QED
    BY <1>s, <2>1, <2>2 DEF EffectsAreSettled
<1>1. ASSUME NEW w \in Writers, Sleep(w) PROVE EffectsAreSettled'
  BY <1>1, <1>k DEF Sleep, nodeVars
<1>2. ASSUME NEW w \in Writers, RequestFails(w) PROVE EffectsAreSettled'
  <2>1. pc[w] # "done" /\ Fail(w) /\ UNCHANGED <<receipts, settled, step>>
    BY <1>2 DEF RequestFails, nodeVars
  <2> QED
    BY <1>0, <1>k, <2>1, FailTypes
<1>3. ASSUME NEW w \in Writers, Skip(w) PROVE EffectsAreSettled'
  BY <1>3, <1>a DEF Skip, nodeVars
<1>4. ASSUME NEW w \in Writers, Build(w) PROVE EffectsAreSettled'
  <2>1. pc[w] = "build" /\ UNCHANGED <<receipts, settled, step>> /\ (Fail(w) \/ UNCHANGED out)
    BY <1>4 DEF Build, nodeVars
  <2> QED
    BY <1>0, <1>k, <2>1, FailTypes
<1>5. ASSUME NEW w \in Writers, Send(w) PROVE EffectsAreSettled'
  <2>1. pc[w] = "send" /\ UNCHANGED <<receipts, settled>>
    BY <1>5 DEF Send
  <2>2. \/ UNCHANGED step /\ (Fail(w) \/ UNCHANGED out)
        \/ ~Waits(w) /\ Advance(w)
    BY <1>5 DEF Send
  <2> QED
    BY <1>0, <1>k, <1>a, <2>1, <2>2, FailTypes
<1>6. ASSUME NEW w \in Writers, EnsureTransactionEvaled(w) PROVE EffectsAreSettled'
  <2>1. pc[w] = "wait" /\ UNCHANGED <<receipts, settled>>
    BY <1>6 DEF EnsureTransactionEvaled, nodeVars
  <2>2. PICK r \in receipts :
          /\ r.by = w /\ r.step = step[w]
          /\ \/ (r.ok \/ ~ChecksStatus(w)) /\ Advance(w)
             \/ Fail(w) /\ UNCHANGED step
    BY <1>6 DEF EnsureTransactionEvaled, Receipts
  <2>3. CASE (r.ok \/ ~ChecksStatus(w)) /\ Advance(w)
    BY <1>0, <1>a, <2>1, <2>2, <2>3 DEF EffectsAreSettled
  <2>4. CASE Fail(w) /\ UNCHANGED step
    BY <1>0, <1>k, <2>1, <2>4, FailTypes
  <2> QED
    BY <2>2, <2>3, <2>4
<1>7. ASSUME NEW w \in Writers, WaitExpires(w) PROVE EffectsAreSettled'
  <2>1. pc[w] # "done" /\ Fail(w) /\ UNCHANGED <<receipts, settled, step>>
    BY <1>7 DEF WaitExpires, nodeVars
  <2> QED
    BY <1>0, <1>k, <2>1, FailTypes
<1>8. ASSUME NEW w \in Writers, ContextEnds(w) PROVE EffectsAreSettled'
  BY <1>k, <1>8 DEF ContextEnds, nodeVars
<1>9. CASE Mine
  <2>1. UNCHANGED <<step, out>>
    BY <1>9 DEF Mine
  <2>2. PICK t \in pool, ok \in BOOLEAN :
          /\ receipts' = receipts \cup
               {[by |-> t.by, step |-> t.step, try |-> t.try, ok |-> ok]}
          /\ settled' = IF ok THEN settled \cup {<<t.by, t.step>>} ELSE settled
    BY <1>9 DEF Mine
  <2>3. settled \subseteq settled'
    BY <2>2
  <2>4. \A r \in receipts' : r.ok => <<r.by, r.step>> \in settled'
    BY <1>0, <2>2, <2>3 DEF EffectsAreSettled
  <2> QED
    BY <1>0, <1>s, <2>1, <2>3, <2>4 DEF EffectsAreSettled
<1>10. CASE UNCHANGED writesVars
  BY <1>k, <1>10 DEF writesVars
<1> QED
  BY <1>1, <1>2, <1>3, <1>4, <1>5, <1>6, <1>7, <1>8, <1>9, <1>10 DEF WritesNext, Work

LEMMA WritesInitHolds == WritesInit => WritesInv
<1> SUFFICES ASSUME WritesInit PROVE WritesInv
  OBVIOUS
<1>1. WritesTypes
  <2>1. \A w \in Writers : Len(Program(w)) \in Nat \ {0}
    BY ProgramLen DEF WritesInit
  <2>2. step = [w \in Writers |-> 1]
    BY DEF WritesInit
  <2>3. \A w \in Writers : step[w] \in 1 .. Len(Program(w))
    BY <2>1, <2>2
  <2> QED
    BY <2>3, WritesAssumption DEF WritesTypes, WritesTypeOK, WritesInit
<1>2. PoolIsContiguous
  <2>1. IsFiniteSet(pool) /\ PendingNonceAt = 0
    BY FS_EmptySet, WritesCardinality DEF WritesInit, PendingNonceAt
  <2>2. {t.nonce : t \in pool} = 0 .. 0 - 1
    BY DEF WritesInit
  <2> QED
    BY <2>1, <2>2 DEF PoolIsContiguous, WritesInit
<1>3. EffectsAreSettled
  BY DEF EffectsAreSettled, WritesInit
<1> QED
  BY <1>1, <1>2, <1>3 DEF WritesInv

(* The three parts support each other: the queue of nonces needs the       *)
(* writers' types, and what is settled needs the steps' bounds.            *)
THEOREM WritesInvariant == WritesSpec => []WritesInv
<1>1. WritesInit => WritesInv
  BY WritesInitHolds
<1>2. WritesInv /\ [WritesNext]_writesVars => WritesInv'
  BY WritesTypesStep, PoolStep, EffectsStep DEF WritesInv
<1> QED
  BY <1>1, <1>2, PTL DEF WritesSpec

(* Calls of one account that race for nonces never leave a hole in its     *)
(* pending transactions: EnsureTransactionEvaled and the retry loop ask    *)
(* the node for the pending nonce at every attempt.                        *)
THEOREM WritesNoNonceGap == WritesSpec => []NoNonceGap
<1>1. WritesInv => NoNonceGap
  BY DEF WritesInv, WritesTypes, PoolIsContiguous, NoNonceGap
<1> QED
  BY <1>1, WritesInvariant, PTL

(* A call that waits for its receipts, looks at their status and returns   *)
(* success has taken effect on the chain, every transaction of it.         *)
THEOREM WritesSuccessIsOnChain == WritesSpec => []SuccessIsOnChain
<1>1. WritesInv => SuccessIsOnChain
  BY DEF WritesInv, EffectsAreSettled, SuccessIsOnChain
<1> QED
  BY <1>1, WritesInvariant, PTL
=============================================================================
