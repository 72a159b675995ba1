----------------------------- MODULE ChainPoller -----------------------------
(***************************************************************************)
(* The EVM chain poller of one AVS on one chain                            *)
(* (ponos/pkg/chainPoller/EVMChainPoller), with the block records of the   *)
(* aggregator's store and the block contexts it uses, while the chain      *)
(* grows and reorganises under it.                                         *)
(*                                                                         *)
(* The canonical chain is the sequence of the branches its blocks were     *)
(* produced on, and the hash of block n is the prefix of length n: it      *)
(* determines the number and every ancestor, as a block hash does.  The    *)
(* tasks created in a block are identified with the block's hash.  Every   *)
(* call to the node is a step of its own, so the chain may change between  *)
(* any two of them.                                                        *)
(***************************************************************************)
EXTENDS Integers, Sequences, SequencesExt, FiniteSetsExt

CONSTANTS Setups,       \* the configurations and environments that are explored
          StartHeight,  \* height of the chain when the aggregator starts
          MaxHeight,    \* bound: height no chain grows past
          MaxReorgs     \* bound: reorganisations of one run

(* A setup is the store, the poller's configuration and what may go wrong. *)
SetupType ==
    [durable : BOOLEAN,           \* badger store instead of the in-memory one
     maxReorgDepth : Nat \ {0},   \* config.MaxReorgDepth
     blockHistorySize : Nat \ {0}, \* config.BlockHistorySize
     rpcMayFail : BOOLEAN,        \* calls to the node, the task queue, may fail
     saveMayFail : BOOLEAN,       \* SaveBlock may fail in processBlockLogs
     forksAboveStore : BOOLEAN,   \* no reorganisation below the records that are kept
     branchesReturn : BOOLEAN,    \* an abandoned branch may become canonical
     top : StartHeight .. MaxHeight, \* bound: height at which the chain stops
     reorgs : 0 .. MaxReorgs,     \* bound: number of reorganisations
     expiries : Nat,              \* bound: tasks whose block context expires
     crashes : Nat]               \* bound: number of crashes

ASSUME PollerAssumption ==
    /\ MaxHeight \in Nat /\ MaxReorgs \in Nat
    /\ StartHeight \in 1..MaxHeight
    /\ \A s \in Setups : s \in SetupType

VARIABLES setup,          \* the setup of this run
          chain,          \* the canonical chain, as the node sees it
          branch,         \* the branch it is growing on
          reorgs,         \* number of reorganisations so far
          crashes,        \* number of crashes so far
          blocks,         \* stored block records of this chain, by number
          lastProcessed,  \* lastProcessedBlocks of the in-memory store
          strays,         \* block records stored under ChainId 0
          tasks,          \* stored tasks, by block number
          contexts,       \* TaskIDs of blockContexts, by block number
          forgotten,      \* history: tasks whose block context was dropped
          pc,             \* where the poller is
          last,           \* latestBlockRecord of the running poll
          target,         \* latestBlockNum of the running poll
          block,          \* newCanonBlock
          orphans         \* orphanedBlocks, newest first

chainVars  == <<setup, chain, branch, reorgs, crashes>>
storeVars  == <<blocks, lastProcessed, strays, tasks>>
pollerVars == <<pc, last, target, block, orphans>>
contextVars == <<contexts, forgotten>>
vars == <<chainVars, storeVars, contextVars, pollerVars>>

Durable == setup.durable
MaxReorgDepth == setup.maxReorgDepth
BlockHistorySize == setup.blockHistorySize
RpcMayFail == setup.rpcMayFail
SaveMayFail == setup.saveMayFail

NoBlock == <<>>
Branches == 0..MaxReorgs
Hashes == UNION {[1..n -> Branches] : n \in 1..MaxHeight}
Numbers == 1..MaxHeight

(* The block the node returns for number n (GetBlockByNumber). *)
HashAt(n) == SubSeq(chain, 1, n)
Height == Len(chain)
Canonical(h) == IsPrefix(h, chain)

-----------------------------------------------------------------------------
(* The block records of the store.                                         *)

Stored == {n \in Numbers : blocks[n] # NoBlock}

(* GetLastProcessedBlock: the in-memory store follows its pointer, the     *)
(* badger store takes the highest stored number.  NoBlock is ErrNotFound.  *)
LastRecord ==
    IF Durable
    THEN IF Stored = {} THEN NoBlock ELSE blocks[Max(Stored)]
    ELSE IF lastProcessed = 0 THEN NoBlock ELSE blocks[lastProcessed]

LastFound == LastRecord # NoBlock

(* The in-memory store's SaveBlock moves its pointer to the block saved,   *)
(* whichever it is.                                                        *)
PointTo(h) == lastProcessed' = IF Durable THEN lastProcessed ELSE Len(h)

(* SaveBlock of a record of this chain. *)
SaveBlock(h) ==
    /\ blocks' = [blocks EXCEPT ![Len(h)] = h]
    /\ PointTo(h)

(* DeleteBlock: the record goes, the in-memory store's pointer stays. *)
DeleteBlock(n) ==
    /\ blocks' = [blocks EXCEPT ![n] = NoBlock]
    /\ UNCHANGED lastProcessed

(* SaveBlock and then DeleteBlock of the block that leaves the history;    *)
(* the error of either is only logged.                                     *)
SaveBlockAndPrune(h, saved, pruned) ==
    /\ blocks' = [n \in Numbers |->
                    CASE n = Len(h) /\ saved                     -> h
                      [] n = Len(h) - BlockHistorySize /\ pruned -> NoBlock
                      [] OTHER                                   -> blocks[n]]
    /\ IF saved THEN PointTo(h) ELSE UNCHANGED lastProcessed

(* GetBlock of the search: NoBlock is ErrNotFound. *)
GetBlock(n) == blocks[n]

(* The task records of the block numbers. *)
SavePendingTask(n, created) == tasks' = [tasks EXCEPT ![n] = @ \cup created]

DeleteTasks(n, cancelled) == tasks' = [tasks EXCEPT ![n] = @ \ cancelled]

(* What the store may list as pending: some of the tasks it holds, whose   *)
(* statuses are left to TaskLifecycle.                                     *)
ListPendingTasksForAVS == SUBSET UNION {tasks[n] : n \in Numbers}

-----------------------------------------------------------------------------
Init ==
    /\ setup \in Setups
    /\ chain = [n \in 1..StartHeight |-> 0]
    /\ branch = 0
    /\ reorgs = 0
    /\ crashes = 0
    /\ blocks = [n \in Numbers |-> NoBlock]
    /\ lastProcessed = 0
    /\ strays = {}
    /\ tasks = [n \in Numbers |-> {}]
    /\ contexts = [n \in Numbers |-> {}]
    /\ forgotten = {}
    /\ pc = "stopped"
    /\ last = NoBlock
    /\ target = 0
    /\ block = NoBlock
    /\ orphans = <<>>

(* The chain (external).  It always grows past its last reorganisation.    *)
Grow ==
    /\ Height < setup.top
    /\ chain' = Append(chain, branch)
    /\ UNCHANGED <<setup, branch, reorgs, crashes, storeVars, contextVars, pollerVars>>

(* The numbers that are stored once the block in hand, if there is one, is *)
(* saved and the oldest record has left the history.                       *)
Surviving ==
    IF pc = "logs" THEN (Stored \ {Len(block) - BlockHistorySize}) \cup {Len(block)} ELSE Stored

(* The blocks above fork are replaced by new ones, at least one of them. *)
Reorg(fork, height, b) ==
    /\ reorgs < setup.reorgs /\ Height < setup.top
    /\ fork < Height
    /\ setup.forksAboveStore /\ Surviving # {} => \E n \in Surviving : n <= fork
    /\ height \in fork + 1 .. setup.top - 1
    /\ b # chain[fork + 1]
    /\ setup.branchesReturn \/ b = reorgs + 1
    /\ chain' = [n \in 1..height |-> IF n <= fork THEN chain[n] ELSE b]
    /\ branch' = b
    /\ reorgs' = reorgs + 1
    /\ UNCHANGED <<setup, crashes, storeVars, contextVars, pollerVars>>

-----------------------------------------------------------------------------
(* Start, with recoverInProgressTasks: the tasks still pending get a block *)
(* context again.                                                          *)
RecoverContexts ==
    \E pending \in ListPendingTasksForAVS :
        contexts' = [n \in Numbers |-> tasks[n] \cap pending]

Start ==
    /\ pc = "stopped"
    /\ IF LastFound
       THEN /\ RecoverContexts
            /\ pc' = "idle"
            /\ UNCHANGED target
       ELSE /\ target' = Height
            /\ pc' = "starting"
            /\ UNCHANGED contexts
    /\ UNCHANGED <<chainVars, storeVars, forgotten, last, block, orphans>>

(* No last block: the latest one, fetched by its number, is saved. *)
StartFromLatest ==
    /\ pc = "starting"
    /\ IF target <= Height
       THEN /\ SaveBlock(HashAt(target))
            /\ RecoverContexts
            /\ pc' = "idle"
       ELSE /\ pc' = "stopped"
            /\ UNCHANGED <<blocks, lastProcessed, contexts>>
    /\ UNCHANGED <<chainVars, strays, forgotten, tasks, last, target, block, orphans>>

(* Slip: the loop stops one block short. *)
PollOffByOne ==
    /\ pc = "idle"
    /\ LastFound
    /\ Height > Len(LastRecord) + 1
    /\ last' = LastRecord
    /\ target' = Height - 1
    /\ pc' = "fetch"
    /\ UNCHANGED <<chainVars, storeVars, contextVars, block, orphans>>

(* A tick of pollForBlocks.  With no last block, or no block above it,     *)
(* processNextBlock returns at once.                                       *)
Poll ==
    /\ pc = "idle"
    /\ LastFound
    /\ Height > Len(LastRecord)
    /\ last' = LastRecord
    /\ target' = Height
    /\ pc' = "fetch"
    /\ UNCHANGED <<chainVars, storeVars, contextVars, block, orphans>>

(* Slip: the parent is not compared. *)
FetchBlockUnchecked ==
    /\ pc = "fetch"
    /\ Len(last) < Height
    /\ block' = HashAt(Len(last) + 1)
    /\ pc' = "logs"
    /\ orphans' = <<>>
    /\ UNCHANGED <<chainVars, storeVars, contextVars, last, target>>

(* The next block of the loop, and the comparison with its parent. *)
FetchBlock ==
    /\ pc = "fetch"
    /\ Len(last) < Height
    /\ block' = HashAt(Len(last) + 1)
    /\ pc' = IF Front(block') = last THEN "logs" ELSE "walk"
    /\ orphans' = <<>>
    /\ UNCHANGED <<chainVars, storeVars, contextVars, last, target>>

(* processBlockLogs: the logs are requested by block number, each task is  *)
(* put in the block's context, queued and stored, and the block is saved.  *)
(* A node that no longer has the block returns no logs.                    *)
HandleLogs ==
    /\ pc = "logs"
    /\ LET n == Len(block)
           created == IF n <= Height THEN {HashAt(n)} ELSE {}
       IN  /\ contexts' = [contexts EXCEPT ![n] = @ \cup created]
           /\ SavePendingTask(n, created)
           /\ \E saved, pruned \in BOOLEAN :
                /\ SaveMayFail \/ (saved /\ pruned)
                /\ SaveBlockAndPrune(block, saved, pruned)
           /\ pc' = IF n = target THEN "idle" ELSE "fetch"
    /\ last' = block
    /\ UNCHANGED <<chainVars, strays, forgotten, target, block, orphans>>

(* An RPC of the poll fails, or a block the loop wants is no longer there; *)
(* the next tick starts again from the store.                              *)
PollFails ==
    /\ \/ pc \in {"fetch", "logs", "walk"} /\ RpcMayFail
       \/ pc = "fetch" /\ Len(last) >= Height
    /\ pc' = "idle"
    /\ UNCHANGED <<chainVars, storeVars, contextVars, last, target, block, orphans>>

(* The queue takes no task within 100ms (or a log does not decode), after  *)
(* some of the block's tasks, all of them in its context, may have passed. *)
QueueFails ==
    /\ pc = "logs"
    /\ RpcMayFail
    /\ Len(block) <= Height
    /\ LET n == Len(block)
       IN  /\ contexts' = [contexts EXCEPT ![n] = @ \cup {HashAt(n)}]
           /\ \/ SavePendingTask(n, {HashAt(n)})
              \/ UNCHANGED tasks
    /\ pc' = "idle"
    /\ UNCHANGED <<chainVars, blocks, lastProcessed, strays, forgotten, last, target, block,
                   orphans>>

-----------------------------------------------------------------------------
(* reconcileReorg.  findOrphanedBlocks goes down from the new block, one   *)
(* GetBlockByNumber at a time.                                             *)
ParentNumber == Len(block) - 1 - Len(orphans)

(* Slip: the depth is compared with < instead of <=. *)
SearchExhaustedEarly == Len(orphans) + 1 = MaxReorgDepth \/ ParentNumber = 0
SearchExhausted == Len(orphans) = MaxReorgDepth \/ ParentNumber = 0

(* Where the search leads: with no orphan reconcileReorg only reports it. *)
AfterSearch == IF orphans = <<>> THEN "idle" ELSE "cancel"

(* The stored parent is not the canonical one. *)
FindOrphan ==
    /\ pc = "walk"
    /\ ~SearchExhausted
    /\ ParentNumber <= Height
    /\ GetBlock(ParentNumber) \notin {NoBlock, HashAt(ParentNumber)}
    /\ orphans' = Append(orphans, GetBlock(ParentNumber))
    /\ UNCHANGED <<chainVars, storeVars, contextVars, pc, last, target, block>>

(* The stored parent is canonical: it becomes the last processed block. *)
FindForkPoint ==
    /\ pc = "walk"
    /\ ~SearchExhausted
    /\ ParentNumber <= Height
    /\ GetBlock(ParentNumber) = HashAt(ParentNumber)
    /\ SaveBlock(GetBlock(ParentNumber))
    /\ pc' = AfterSearch
    /\ UNCHANGED <<chainVars, strays, tasks, contextVars, last, target, block, orphans>>

(* The parent is not stored: a record is made of the canonical block,      *)
(* whose ChainId the client never sets, and saved under ChainId 0.         *)
FindUnknownParent ==
    /\ pc = "walk"
    /\ ~SearchExhausted
    /\ ParentNumber <= Height
    /\ GetBlock(ParentNumber) = NoBlock
    /\ strays' = strays \cup {HashAt(ParentNumber)}
    /\ pc' = AfterSearch
    /\ UNCHANGED <<chainVars, blocks, lastProcessed, tasks, contextVars, last, target,
                   block, orphans>>

(* The node does not have the block any more. *)
SearchFails ==
    /\ pc = "walk"
    /\ ~SearchExhausted
    /\ ParentNumber > Height
    /\ pc' = "idle"
    /\ UNCHANGED <<chainVars, storeVars, contextVars, last, target, block, orphans>>

(* Maximum depth: the oldest orphan is saved as the last processed block   *)
(* (there is none when the new block is block 1: SaveBlock(nil) fails).    *)
SearchEnds ==
    /\ pc = "walk"
    /\ SearchExhausted
    /\ IF orphans = <<>>
       THEN UNCHANGED <<blocks, lastProcessed>>
       ELSE SaveBlock(Last(orphans))
    /\ pc' = AfterSearch
    /\ UNCHANGED <<chainVars, strays, tasks, contextVars, last, target, block, orphans>>

(* Slip: the block record is deleted and its context is not cancelled. *)
DeleteOrphanOnly ==
    /\ pc = "cancel"
    /\ DeleteBlock(Len(Head(orphans)))
    /\ orphans' = Tail(orphans)
    /\ pc' = IF Len(orphans) = 1 THEN "idle" ELSE "cancel"
    /\ UNCHANGED <<chainVars, strays, tasks, contextVars, last, target, block>>

(* One orphan: CancelBlock deletes the tasks of its context, DeleteBlock   *)
(* the record.                                                             *)
CancelOrphan ==
    /\ pc = "cancel"
    /\ LET n == Len(Head(orphans))
       IN  /\ DeleteTasks(n, contexts[n])
           /\ contexts' = [contexts EXCEPT ![n] = {}]
           /\ DeleteBlock(n)
    /\ orphans' = Tail(orphans)
    /\ pc' = IF Len(orphans) = 1 THEN "idle" ELSE "cancel"
    /\ UNCHANGED <<chainVars, strays, forgotten, last, target, block>>

(* A tick of cleanupExpiredContexts: the contexts of some blocks, those    *)
(* whose deadline has passed, are dropped with their TaskIDs.              *)
cleanupContexts(expired) ==
    /\ pc # "stopped"
    /\ \A n \in expired : contexts[n] # {}
    /\ contexts' = [n \in Numbers |-> IF n \in expired THEN {} ELSE contexts[n]]
    /\ forgotten' = forgotten \cup UNION {contexts[n] : n \in expired}
    /\ Cardinality(forgotten') <= setup.expiries
    /\ UNCHANGED <<chainVars, storeVars, pollerVars>>

(* The process dies: what is not in the badger store is lost. *)
Crash ==
    /\ crashes < setup.crashes
    /\ pc # "stopped"
    /\ crashes' = crashes + 1
    /\ contexts' = [n \in Numbers |-> {}]
    /\ forgotten' = forgotten \cup UNION {contexts[n] : n \in Numbers}
    /\ pc' = "stopped"
    /\ last' = NoBlock /\ target' = 0 /\ block' = NoBlock /\ orphans' = <<>>
    /\ IF Durable
       THEN UNCHANGED storeVars
       ELSE /\ blocks' = [n \in Numbers |-> NoBlock]
            /\ lastProcessed' = 0
            /\ strays' = {}
            /\ tasks' = [n \in Numbers |-> {}]
    /\ UNCHANGED <<setup, chain, branch, reorgs>>

PollerStep ==
    \/ Start \/ StartFromLatest \/ Poll
    \/ FetchBlock \/ HandleLogs
    \/ FindOrphan \/ FindForkPoint \/ FindUnknownParent \/ SearchFails \/ SearchEnds
    \/ CancelOrphan

Next ==
    \/ Grow
    \/ \E fork, height \in Numbers, b \in Branches : Reorg(fork, height, b)
    \/ PollerStep
    \/ PollFails \/ QueueFails
    \/ \E expired \in SUBSET Numbers : cleanupContexts(expired)
    \/ Crash

(* The poll ticker keeps firing, and blocks keep being produced. *)
Fairness ==
    /\ WF_vars(PollerStep \/ PollFails)
    /\ WF_vars(Grow)

Spec == Init /\ [][Next]_vars
FairSpec == Spec /\ Fairness

-----------------------------------------------------------------------------
(* Types of the store's maps and of the poller's local variables. *)
TypeOK ==
    /\ setup \in Setups /\ chain \in Hashes
    /\ branch \in Branches /\ reorgs \in 0..setup.reorgs /\ crashes \in 0..setup.crashes
    /\ blocks \in [Numbers -> Hashes \cup {NoBlock}]
    /\ \A n \in Stored : Len(blocks[n]) = n
    /\ lastProcessed \in 0..MaxHeight
    /\ strays \subseteq Hashes
    /\ tasks \in [Numbers -> SUBSET Hashes] /\ contexts \in [Numbers -> SUBSET Hashes]
    /\ forgotten \subseteq Hashes
    /\ pc \in {"stopped", "starting", "idle", "fetch", "logs", "walk", "cancel"}
    /\ last \in Hashes \cup {NoBlock} /\ block \in Hashes \cup {NoBlock}
    /\ target \in 0..MaxHeight
    /\ orphans \in Seq(Hashes)

(* The stored records are one chain: a record and the one below it are     *)
(* linked by hash, whatever the node reported between two calls, and after *)
(* a crash in the middle of a reconciliation too.  This is what lets one   *)
(* parent comparison in processNextBlock detect every reorganisation.  And *)
(* no record above the block the next poll resumes from survives a poll:   *)
(* what a reorganisation orphaned is deleted, not shadowed.                *)
StoredChainLinked ==
    /\ TypeOK
    /\ \A n \in Stored : n - 1 \in Stored => Front(blocks[n]) = blocks[n - 1]
    /\ pc = "idle" /\ LastFound => \A n \in Stored : n <= Len(LastRecord)

(* Between polls GetLastProcessedBlock succeeds: reconcileReorg never      *)
(* leaves the poller without a block to resume from, as long as saves      *)
(* succeed and no reorganisation reaches below the records that are kept.  *)
(* The pointer of the in-memory store needs a search as long as the        *)
(* history too, since a shorter one points it to an orphan.                *)
AlwaysResumable ==
    /\ pc = "idle" /\ setup.forksAboveStore /\ ~SaveMayFail
    /\ Durable \/ MaxReorgDepth >= BlockHistorySize
    => LastFound

(* The tasks the store holds for a processed block that is canonical are   *)
(* that block's, and all of them: a reorganisation between the requests    *)
(* for a block and for its logs, or a reconciliation that another one      *)
(* interrupts, that gives up or that a crash cuts short, leaves no task of *)
(* the canonical block out, and a task of an abandoned block behind only   *)
(* if the context in which CancelBlock would have found it was dropped     *)
(* before, by cleanupContexts or with the process.  A block whose logs     *)
(* failed half way is processed again, one whose save failed has no record *)
(* to cancel, and one that was saved with the logs of another branch may   *)
(* return: none of these.                                                  *)
TasksMatchChain ==
    ~RpcMayFail /\ ~SaveMayFail /\ ~setup.branchesReturn =>
        \A n \in Stored :
            n - 1 \in Stored /\ Canonical(blocks[n]) =>
                blocks[n] \in tasks[n] /\ tasks[n] \subseteq {blocks[n]} \cup forgotten

(* The poller catches up: once the chain has grown past its last           *)
(* reorganisation, the last processed block is the head of the chain,      *)
(* unless calls may fail for ever, the chain forked below the store, or a  *)
(* search gave up at MaxReorgDepth on the in-memory store, whose pointer   *)
(* then names an orphan that is deleted, so that every poll fails.         *)
CatchesUp ==
    \/ RpcMayFail \/ SaveMayFail \/ ~setup.forksAboveStore
    \/ ~Durable /\ <>(pc = "walk" /\ SearchExhausted)
    \/ <>[](LastFound /\ LastRecord = chain)
=============================================================================
