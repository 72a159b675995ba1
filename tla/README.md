# Hourglass: a TLA+ model of the task pipeline

Hourglass runs off-chain tasks for EigenLayer AVSs. A task is created on a chain by the
TaskMailbox contract. The **aggregator** sees it, sends it to the operators of the task's
operator set, collects signed answers until one output has enough stake behind it, and
submits the certificate. An **executor**, one per operator, runs the task in a performer
container and signs the output; **hgctl** is the operator's command line. This directory
holds TLA+ models of the Go code in `ponos`, `hourglass-operator` and `hgctl-go`, the TLC
configurations that check them and TLAPS proofs. `PROJECT.json` maps
every definition to its source lines.

## Inventory

| Part | State it keeps | Operations | What makes it correct |
| --- | --- | --- | --- |
| Result aggregation (`signing/aggregation`) | received signatures, groups by digest with their weight, cached winner | ProcessNewSignature, SigningThresholdMet, GenerateFinalCertificate | stake counted once; certificate exactly when a digest has a quorum; right signers |
| Task session (`taskSession`) | result channel, goroutine per operator, certificate channel | Process, Broadcast | a quorum ends it, nothing else does |
| Chain poller (`chainPoller/EVMChainPoller`) | none of its own between polls: it resumes from the stored block records | Start, processNextBlock, processBlockLogs, reconcileReorg, recovery | every canonical block handled; stored records are one chain; orphaned tasks deleted; it always catches up |
| Block contexts (`contextManager`) | a context and task ids per block number | GetContext, CancelBlock, cleanupContexts | a reorganisation ends exactly the tasks of the orphaned blocks |
| Aggregator store (`aggregator/storage`) | block records, last-block pointer, task records | Save/Get/Delete block, SavePendingTask, UpdateTaskStatus, DeleteTask | status transitions; what a crash leaves is consistent |
| Execution manager (`aggregator/avsExecutionManager`) | inflightTasks, configuration caches | Start, recoverPendingTasks, handleTask, processBN254Task, processECDSATask | one session per task; records follow the outcome |
| Aggregator (`aggregator`, `cmd/aggregator`) | managers by AVS address, root context | Initialize, Start, registerAvs, deregisterAvs | an acknowledged registration works; nothing is left running after a deregistration or a lost race |
| Operator manager, peering (`operatorManager`, `peering`) | none | operators, weights, infos and root for a task | all of one table, indices of the right leaves |
| Table transporter (`internal/tableTransporter`, hgctl's copy) | on-chain roots, tables, owner, generator | transports of three kinds | success means the table is there, and it is the table of its block |
| Contract caller, transaction signers, hgctl's contract client | the account's nonce, on the node | every write; the retry loop of task results | success is on the chain; no hole in the nonces; a submission ends unless its transaction was replaced |
| Executor (`executor`, `executor/storage`) | performers by AVS, processed tasks, saved performer states | all RPCs, rehydration, shutdown | a retry is harmless; what was removed stays removed; no container is forgotten |
| Authentication, gRPC retry (`auth`, `clients`) | challenge tokens | issue, use; retries of a call | a token authorises at most once |
| Container performer (`executor/avsPerformer`) | current and next container, draining set, wait groups per performer | Deploy, PromotePerformer, RemovePerformer, RunTask, health and restart events | no container lost; a replaced container outlives its tasks; only healthy ones go into service |
| Container manager (`containerManager`) | monitors, restart counters, event channels | create, start, monitor, restart, stop, remove | one watcher; restarts bounded; crashes handled |
| Kubernetes performer, manager and operator (`avsKubernetesPerformer`, `kubernetesManager`, `hourglass-operator`) | slots, task states, Performer resources, pods | Deploy, promotion, removal, RunTask, Shutdown, reconcile loop | promotions cut off no task; no resource leaks without a cause; only ready pods serve |
| hgctl configuration (`hgctl-go/internal`) | `~/.hgctl/config.yaml`, keystore files | context, keystore, signer and telemetry commands | the file stays usable when commands overlap or die |

`PROJECT.json` lists every part with its status and the reason for what is left out.

How the parts interact: a poller per chain and an execution manager per AVS share one
*unbuffered* task queue and the store. The manager handles one task at a time: it reads
operators and weights from L1 and the transported table from the task's chain, starts a
session goroutine and waits for its result or for the task's block context to end. The
session runs under the context of the AVS, not of the task. It talks to executors from one
goroutine each, through a client that retries, and feeds a result aggregator; the certificate
is submitted by the contract caller in a retry loop of its own, beside the submissions of
other tasks from the same account. An executor runs the task on the current performer of the
AVS, a container it manages itself or a pod that the operator makes of a resource. hgctl is
the operator's tool: it writes the configuration, registers keys and operators on the chain
and calls the executor's management RPCs.

Hard behaviours: the chain changing between two RPCs of one poll; a task queued before its
record exists; a block retried with half of its tasks already running; a manager that stops
waiting for a session that goes on; two registrations of one AVS at once; a request sent again
while its first handler still runs; crashes in the middle of a reconciliation, a deployment or
a save; conflicting answers arriving in any order; one nonce for two transactions; tables read
from two blocks while they move; a container replaced, removed or shut down between two steps
of a deployment, of a drain or of a task; monitors that restart a container behind each
other's back; commands that write back a file they read minutes ago. The `hazards` of
`PROJECT.json` list them by line.

## Modules

* **ResultAggregator** - state and operators of both aggregators (BN254 and ECDSA): an answer
  carries the claimed address, the digest of its output and the first check it would fail;
  an address is an operator with a spelling, because look-ups ignore the letter case and Go
  maps do not. Stake is `Weights[0]`, the threshold the truncated product of the code.
* **TaskSession** - `Process` and `Broadcast` on top of it. `PeerAnswers`/`PeerFails` are the
  goroutine per operator, `AcceptResult`/`SkipResult`/`BroadcastStops` the collecting loop,
  `ReturnCertificate`/`ReturnContextError` the select of `Process`.
* **QuorumCertificate** - the abstract specification: operators sign, each once, and the
  certificate is issued at the signature that gives its digest the stake. `TaskSession` refines
  it (`ImplementsQuorumCertificate`).
* **ChainPoller** - the poller with the block records of either store, against an external
  chain that grows and reorganises between any two calls. A block hash is the sequence of
  branches from the first block to it, so that it determines the ancestors; the tasks of a
  block are identified with its hash. `Poll`, `FetchBlock`, `HandleLogs` are
  `processNextBlock`; `Find*`, `Search*`, `CancelOrphan` are `reconcileReorg`. The variable
  `setup` is the configuration, the store and what may go wrong; it never changes.
* **TaskLifecycle** - the records of the tasks between poller, block contexts, store and
  execution manager, with the queue as a rendezvous (`Handoff`). A session is reduced to its
  end.
* **AvsRegistry** - the aggregator process around them: `registerAvs` split where it releases
  the lock (check, pollers, manager, store, start), `deregisterAvs`, the configured AVSs, the
  end of the process. Pollers and managers are cut down to one block per chain with one task,
  so that several of them over one store stay small. Addresses are compared as written, and
  `AvsOf` says which AVS a spelling means.
* **StakeTables** - the three transporters call by call (ownership, generator, curve and keys,
  root, tables per chain), a registry whose history is kept per L1 block, and the reads of
  `GetExecutorPeersAndWeightsForTask`/`ForBlock` for a task on either chain. A table is the
  sequence of its leaves; `NoTable` stands where a set has none.
* **ContractWrites** - the writes of ponos and of hgctl as programs of transactions over one
  account: build (pending nonce, gas), send, wait, look at the receipt, retry. The node keeps
  a pool with one transaction per nonce, refuses or replaces, mines in order; contracts are
  sets of facts with what a call needs, adds and removes.
* **Executor** - calls of clients, each sent up to `MaxAttempts` times with the same contents;
  every attempt is a handler of its own, split where the code holds no lock; tokens, the saved
  states and processed tasks of either store, crash, rehydration in key order. A performer is
  reduced to its two slots and the deployment lock.
* **ContainerPerformer** - the Docker performer of one AVS in an executor, with the RPCs that
  drive it: the two slots, `Deploy` (`DeployBegin`, `CreatePerformer`, `AwaitStatus`,
  `PromotePerformer`, `DeployCleanup`, `DeployReturns` and their failures), the monitor
  goroutine of each container (`HandleContainerEvent`, `PeriodicCheck`, `MonitorExit`),
  `RunTask` split where no lock protects it (`TaskLoads`, `TaskJoins`, `TaskReturns`), the
  drain goroutine and `Shutdown`. What runs under `performerContainersMu` is one step. The
  current slot is an `atomic.Value`, so it distinguishes never stored (`Unset`) from a stored
  nil pointer (`TypedNil`), which the code does not treat alike. The container manager is seen
  through its interface: calls succeed or fail, events come at any time, a removal may leave
  the container behind (`orphan`), a call under a cancelled context fails. The wait group of a
  performer is the set of calls that joined it. Health is kept only for performers in a slot
  and the status channel only for the one being deployed: nobody reads the others.
* **DockerManager** - below that interface: a container's life in the hands of its user, and
  `containerMonitor` objects with their channel, restart counter and four actors (health loop,
  Docker events, resources, `TriggerRestart`), each of which runs `attemptRestart` on its own.
* **KubernetesPerformer** - the performer, the resource operations and the operator's
  reconcile loop in one module, with `performerResourcesMu` held where the code holds it, the
  stored nil pointer, wait groups as counters, and panics that end the process. `left` records
  why a resource was left behind.
* **HgctlConfig** - each command is a process that loads the file, works on its copy and saves
  it; saving truncates, writes and may die in between. Contexts hold keystores and signers;
  telemetry and the wizard of the signer commands are commands like the others.
* **MC...** - the instances. **TaskSessionProofs**, **ChainPollerProofs**,
  **TaskLifecycleProofs**, **AvsRegistryProofs**, **ExecutorProofs**,
  **ContainerPerformerProofs**, **DockerManagerProofs**, **KubernetesPerformerProofs** - the
  theorems. Three of them extend two components each: the theorems about StakeTables are at
  the end of TaskSessionProofs, beside the session that reads the tables; those about
  ContractWrites at the end of TaskLifecycleProofs, beside the tasks whose results the
  transactions submit; those about HgctlConfig at the end of AvsRegistryProofs. The two share
  no variable, and the second names its formulas for itself (`TablesSpec`, `WritesSpec`,
  `HgctlSpec`, with their `...Init` and `...Next`).

Definitions whose comment starts with "Slip:" are altered versions of the definition below
them, with a plausible mistake; no specification uses them. They serve to show that each
property can fail.

## Runs

| Run | Instance | Shows |
| --- | --- | --- |
| SessionBn254 | stakes 3, 2, 1, threshold 50%, two outputs, two letter cases, all faults | the refinement of the abstract certificate, and that a quorum of arrived answers makes the session return |
| Poller | 5 blocks, 2 reorganisations, in seven setups: in-memory store with a search as long as the history; the same with a history of two blocks; in-memory store with a search shorter than the history (the shape of the defaults) and block contexts that expire; badger, search depth 2, deeper reorganisations and a crash; the same with forks below the records and an expiry; badger with failing RPCs, queue and saves, returning branches and forks below the store, without and with a crash | records stay one chain with nothing above the last one; the poller stays resumable, keeps the tasks of the chain and catches up where the code promises it |
| LifecycleCrash | 2 tasks in one block, badger; of a reorganisation, a crash and a failing save or look-up of a task, two | one session per task; one submission unless the record was missing when the block was retried; every task recorded unless its save failed |
| LifecycleRecovery | 1 crash | *violation*: a pending task is not queued again after a restart |
| Registry | 2 registrations, 2 spellings, 2 chains and an unknown one, 3 configurations | what was acknowledged runs, no poller is left over, no task is passed without a taker |
| Tables | 2 operators, 2 transports, 3 L1 blocks, 4 set-ups, in two of which a call may fail | sessions get matching infos and roots and the right leaves; transports that report success succeeded; tables are those of their block |
| Writes | a submission beside each of the other writes of ponos and hgctl, 2 gas prices, 5 attempts, 1 fault | success is on the chain, nonces have no hole, submissions end unless their transaction was replaced |
| ExecutorRetries | 2 calls of any kind, one of them sent twice, 2 performers, 1 task, 1 crash or shutdown, 3 configurations | a token authorises one attempt; removed performers stay out; only promoted containers serve, after a restart too; every live container is in a slot or drained, unless an earlier process left it |
| PerformerTasks | 2 performers, 2 tasks, all container events | no container lost, tasks spared by the drain, only healthy promotions |
| DockerRestarts | 1 container, 2 monitors with 4 actors, 2 deaths, 1 Docker fault, limit of 2 restarts, the caller's context ending at any time | one active monitor, restarts bounded by limit and actors, every crash under a living monitor is handled |
| Kubernetes | 2 performers, 2 handlers, 2 tasks, 1 fault, 2 starts | no task cut off by a promotion, leaks have a cause, the serving performer was ready and what is in a slot has its resource until the lock's holder clears it, panics need a removal or a shutdown |
| HgctlFiles | 2 terminals, 3 commands from an absent file or one with two contexts and a keystore in use, 1 key name of either type, 1 crash or torn write | the current context exists and signers are listed unless the text was cut or mixed; a key is lost only to a race for its file |

**Bounds.** Operators with unequal stakes give every relation between two groups (lighter,
equal after an answer, overtaking) and two digests give conflict; the theorems remove the
bound. Five blocks with a search depth of 2 or 4 contain a reorganisation at, below and beyond
the depth, and two reorganisations contain one that happens during the reconciliation of the
other. `Grow` stops at the setup's `top` and `Reorg` stays below it, so the chain always grows
past its last reorganisation, as a chain does. Two tasks in a block are what makes a retry of a
block with one of them handled possible; one crash suffices for recovery, since it depends on
the store alone. Two performers are a replacement, or a deployment that fails before the next
one succeeds. The theorems remove the bounds of every safety property of the runs that pass.
`MaxFailures` and `ChanCap` are 1 in the runs (3 and 10 in the code): the interesting cases are
at the limit, and the theorems hold for every value. Two calls, of which one is sent twice, are
three handlers at once, more than one of them past a check of the other; authentication
and configured AVSs are in different configurations, for no step reads both;
two registrations are the race the code's second check is for. Two writers are enough for
a shared nonce, a refusal and a replacement; the attempts are the code's five. Three L1 blocks
put a change of the registry between the reference block, the task and the present. Four
monitor actors are all that the code starts, two monitors are one and its replacement. Three
commands in two terminals are a command that overlaps with two others in a row, on a file that
earlier ones left; the fault is a crash or a torn write at any of their steps. One key name is
enough for a keystore replaced by one of the other type. CHECK_DEADLOCK is off everywhere: a
finished session, a poller at the head of a finished chain, an executor after its last call and
a performer after Shutdown, or after a panic, stop.

**Fairness.** Sessions: the collecting loop and the select in `Process` are goroutines that run
when they can; executors owe nothing. Poller: its ticker fires again and again, a failed poll
counts as a step, and blocks go on being produced. Lifecycle: the poller, the manager and the
clock run; a session may never end. Docker manager: the health loop's ticker fires and a
restart that was begun goes on; Docker's events owe nothing. Contract writes: every goroutine
is scheduled and pending transactions are mined; the context of a submission is that of the
AVS, which has no deadline, so its end (`ContextEnds`) may happen and need not. The other runs
check safety only. No strong fairness is used.

## What the runs and the modelling say

*LifecycleRecovery* is a violation: both recoveries send into the unbuffered queue before the
manager's goroutine receives from it, so a task that was pending at a crash stays pending.

The passing properties have conditions, and each is there because the code does not give more:

* The refinement of the abstract certificate says who signed, and holds in both letter cases.
  Nothing is claimed of the list of non-signers: `bn254.go` keys signers by the address as
  spelled in the answer, looks operators up ignoring the letter case, and computes non-signers
  with the table's spelling. A signer that answers in another case is in the aggregate and is
  listed as a non-signer too, against the comment at `bn254.go:280-286`.
* `AlwaysResumable` needs forks above the oldest record: an unstored fork point is saved with
  the chain id of the block the client returned, which it never sets. The oldest record is the
  oldest that is left when the block in hand is saved (`Surviving`): a reorganisation as long
  as the history that happens between the fetch of a block and its save leaves only the record
  that is pruned next, and the following search then deletes all the others. The attempt to
  prove the property for forks above the records stored at the time showed this, on chains
  longer than those of the runs. It needs the search to be as long as the history when the
  store is the in-memory one, whose pointer to the last block survives the deletion of that
  block (the defaults are 10 and 100). And it needs saves to succeed: pruning goes on when they
  fail, until the store is empty.
* `TasksMatchChain` needs the calls of a poll to succeed and no abandoned branch to come back:
  a block may be saved with the tasks of the block that replaced it for a while. It holds for
  both stores and any depth of search, but a task of an abandoned block stays in the store when
  the context that named it is gone (`forgotten`): `cleanupContexts` drops the ids of an expired
  block, and a restart drops all of them.
* `CatchesUp` exempts the in-memory store after a search that gave up at `MaxReorgDepth`: the
  pointer then names an orphan that is deleted and every poll fails. The run contains it.
* `SubmittedOnce` exempts tasks whose record was missing when their block was retried: deleted
  by a reorganisation, unwritten when the process died between the send and the save, or after
  a save or a look-up that failed, which the poller only logs. `TaskIsRecorded` exempts a failed
  save: the block is finished, the task is running and has no record.
* `OneSessionPerTask` holds because an abandoned task stays in flight for good: when a task's
  context ends, the code looks at the error of the AVS context, which is nil, and the record
  stays in `processing` (the state diagram of `docs/components/aggregator.md` says "Failed").
* `PassedWasTaken` says that some manager took a task. Two may: a second spelling of an
  address, or a registration made while the poller of the deregistered one still runs.
* `IndexNamesItsLeaf` needs every member to have weight, and on L1 a registry that did not
  change since the reference block: indices are positions among the members, leaves positions
  among the weighted ones, and the two are read at different blocks.
* `SuccessIsOnChain` exempts calls through the Web3Signer, which does not look at the status
  of a receipt, and `CreateOperatorSets`, which does not wait for one. A failure says nothing:
  it may be reported for a result that is on the chain.
* `SubmissionsEnd` exempts the wait for a transaction that another one of the same account has
  replaced: `WaitMined` polls for ever, since the AVS context has no deadline.
* `RetryAuthorisedOnce` is about executors with authentication. Without it a call that takes
  longer than the client's ten seconds is carried out twice; with it the second attempt is
  refused, whatever became of the first. A task result whose answer was lost cannot be fetched
  again. That a task is marked says neither that it ran once nor that it was answered.
* `NoContainerForgotten` exempts containers that an earlier process left and the rehydration did
  not adopt, and those whose removal failed (`strangers`).
* `DrainSparesJoinedTasks` exempts late tasks: RunTask reads the current slot before it joins
  the wait group, so a promotion in between starts a drain that finds the group empty.
* `FailedDeployFreesSlot` (proved) exempts the nil pointer in the current slot: with it
  RemovePerformer fails before it looks at the next slot, which then stays taken. The monitor
  of a deployed container runs under the deployment's context, which `Deploy` cancels when it
  returns, so that a container in service is not watched.
* `RestartsBounded` lets the limit be passed by the number of actors: each tests it without a
  lock. `CrashIsHandled` holds while the container's monitor lives: its context is a child of
  the caller's, which `Deploy` cancels when it returns, and then only `TriggerRestart` restarts
  the container. A goroutine may also send on a channel that StartLivenessMonitoring or
  StopLivenessMonitoring has closed; the panic ends the process.
* `ServingWasReady` exempts the slots that the holder of the lock is about to clear: a promotion
  starts the drain before it switches the slot, and Shutdown deletes the resource, which may
  take half a minute, before it stores nil. RunTask reads the slot without the lock.
* `LeakHasCause` lists the ways in which a resource stays in the cluster; among them is every
  failed deployment whose cleanup runs under the context that has just expired.
  `PanicNeedsRemoval` admits the panics after a removal of the current performer, whose nil
  pointer every later operation dereferences, and during Shutdown.
* `CurrentExists`, `SignersAreListed` and `KeyLossNeedsRace` say what survives overlapping
  commands. What does not is any update made while another command held an older copy. A
  text that a full disk cut short, or that is followed by the tail of another command's longer
  one, may load: the current context is its first line and keystores come before signers, so
  it may name a context or a signer that is gone. `cut` marks such a configuration and all that
  is written back from it; the first two properties leave it out, the third does not.

## What is proved

For every value of the constants that satisfies the modules' assumptions:

* `SessionInvariant`, from which `SessionTypeOK`, `SessionNoQuorumMissed` (with
  `StakeCountedOnce`), `SessionCertificateBacked`. The inductive invariant adds to the
  checked properties that an operator's answer is in the channel, counted or absent but never
  two of these (`AnswersOnce`), and that an operator is in at most one group
  (`GroupsPartition`); without them a second spelling could add stake twice. That the cached
  winner is heaviest (`WinnerIsHeaviest`) is what turns "the winner is below the threshold"
  into "every digest is".
* `SessionRefinesQuorumCertificate`: initial states map to initial states; `AcceptResult` maps
  to `Sign`, everything else to a stutter. The step proof needs the invariant, since the
  mapping reads an operator's digest off the groups.
* `LifecycleInvariant`, from which `LifecycleTypeOK`, `LifecycleOneSession`,
  `LifecycleCompleted`. The invariant relates live sessions to
  `inflightTasks` (a live session's task is in flight, a task being prepared is not), the
  awaited session to its result, and a task that is being offered or saved to the absence of
  a record unless its look-up missed it; the last is what keeps the in-memory store's
  unconditional overwrite from undoing a completed status.
* `LifecycleSubmittedOnce`. Results, live sessions and the task in the manager's hand are
  counted together (`AttemptedOnce`): of a task that is neither `unsaved` nor `reopened` there is
  one of them at most, and a task that has one has a record or is being saved, so that the
  poller does not offer it again.
* ChainPoller: `StoredChainLinkedTheorem` from `IInv`, which ties the poll's last block, the
  search and the in-memory store's pointer to the records (`PollFits`, `SearchFits`,
  `PointerFits`); `AlwaysResumableTheorem` and `TasksMatchChainTheorem` from `RecordInv`, which
  says more of the records: each is an ancestor of those above it (`Ancestry`), they have no gap
  and are no more than the history (`RecordsFit`), and one of them is canonical and below
  everything the search collects (`Anchored`). A search as long as the history therefore ends
  at a stored fork point (`SearchSucceeds`), and the record the pointer names stays. That the
  records have no gap needs only saves to succeed; the rest needs forks above the records. For
  the tasks (`QuietInv`), at any depth of search: what was recorded has no branch that is to
  come (`BranchesFit`), so neither growth nor reorganisation makes an abandoned block canonical
  again, and a task that is not forgotten is in the context of its block, where a cancellation
  finds it (`TasksFit`).
* AvsRegistry: `AcknowledgedRunsTheorem`, `NoStrayPollerTheorem` and `PassedWasTakenTheorem`.
  `IInv` books every registration (`Booked`: the one in the map was stored last, a deregistered
  one is cancelled or about to be, contexts and goroutines follow the steps) and says that a
  task past the queue was taken (`OffersWereTaken`).
* Executor: `RetryAuthorisedOnceTheorem` from `TokensFit` (a token that admitted an attempt is
  used up), `RemovedStaysRemovedTheorem`, `ServingWasPromotedTheorem` and
  `NoContainerForgottenTheorem` from `PlacesFit` (a container in a slot lives, is not drained,
  and only promoted ones are saved; what a handler holds is in its place) and `LiveHeld` (a live
  container is held by a slot or a drain, or is a
  stranger), all through restarts and rehydrations.
* DockerManager: `OneWatcherTheorem` (`Watched`: the monitors that are not cancelled are the
  registered ones) and `RestartsBoundedTheorem`, by counting: the restarts done and the actors
  past the test of the limit together stay below the limit plus the number of actors
  (`WithinBudget`).
* KubernetesPerformer: `ServingWasReadyTheorem`, `NoTaskCutOffTheorem`, `LeakHasCauseTheorem`
  and the action property `PanicNeedsRemovalTheorem`. A performer has one place at a time -
  waited for, next, current, draining (`PlacesFit`) -, but for the moment in which the lock's
  holder has drained or deleted it and not yet cleared its slot; whoever holds the lock may
  rely on the slots (`CallsFit`), a resource is answered for or has a cause (`ResourcesFit`),
  and until a shutdown empties the map of task states the wait groups count the tasks
  (`CountsFit`, `CalmUntilShutdown`). The tasks are assumed to be finitely many.
* `PerformerInvariant`, from which `PerformerTypeOK`, `PerformerNoLeaks`, `PerformerDrain`,
  `PerformerFreesSlot` and the action property `PerformerPromotesHealthy`. The invariant adds
  that a performer in a slot is live and undrained (`SlotsAreLive`): without it a promotion
  could find its predecessor already in the draining set and start no drain. It also adds
  that the next slot holds what is being deployed (`SlotFollowsDeploy`) and that only created
  containers are drained (`DrainsAreReal`).

* ContractWrites: `WritesInvariant`, from which `WritesNoNonceGap` and
  `WritesSuccessIsOnChain`. No two pending transactions have one nonce, together they follow
  the last mined one without a hole, and a call about to send holds one of these nonces, an
  older one or the next (`PoolIsContiguous`): the node's count may move on between build and
  send but never back, so a send fills the next place, replaces a rival or is refused. That a
  good receipt is of a transaction whose effect is recorded, and that a call at a step has
  settled the earlier ones (`EffectsAreSettled`), gives the second.
* HgctlConfig: `HgctlInvariant`, from which `HgctlCurrentExists`, `HgctlSignersAreListed` and
  `HgctlKeyLossNeedsRace`. The file alone is not inductive, because commands write back what
  they read minutes before: every copy in a terminal is as sound as the file
  (`CopiesAreSound`; one made from a cut or mixed text at least lists no missing key), a
  command about to copy or to write has a context under its name
  (`NamesAreSet`), and between `os.Stat` and the end of a write nobody else is at the key file
  unless there was a race (`KeyWritersAreAlone`).
* StakeTables: `TablesInvariant`, from which `TablesAreOfTheirBlocks`, `TablesSuccess`,
  `TablesProofsMatch` and `TablesIndexNamesLeaf`. From its computation on a transport holds
  the table of its block, and so do the roots and the verifiers; a chain's blocks are posted
  in their order (`TablesAreOfBlocks`), which is why a session whose root has arrived reads
  the task's own timestamp. The chains behind a transport in its last loop have its table or a
  newer one (`TransportsLeaveTables`); tables are never taken back, whoever takes the
  ownership. A task keeps what its block held, and a session is what the manager reads of it
  at blocks that no later change of the registry touches (`TaskIsOfItsBlock`,
  `SessionIsOfItsTask`).

Constants are assumed to be what the constructors enforce (threshold in 1..10000, at least one
operator) and the model values to be distinct; `StakeOf` is characterised by the two equations
of a sum, which TLC evaluates on the instances. The setups of StakeTables run one of the three
transporters each and start from a well-formed registry (`SetupsAssumption`); the files that
hgctl starts from are the sound ones, with keys on disk for the keystores in them
(`StartsAssumption`), and "external", which stands for the directories that imported keystores
come from, is not a context's name. TLC evaluates these assumptions on the instances, too.
Every inductive invariant was checked with TLC before it was proved. Two definitions were
rewritten on the way, `Shutdown` of KubernetesPerformer and `CheckReports` of
ContainerPerformer: their CASE had overlapping guards, so that their meaning depended on the
order in which TLC tries them. The proof of `TableIsOfItsBlock` failed on a multi-operator
transport of a set without a reservation that is told to ignore every chain: the model let it
go on to the verifier, where the code has returned "was not found in the calculated stake
tables"; `OurSetNotFound` is now an action. `CalculatedTable` is written with positions instead
of a filter of the sequence, because what a filter returns can only be proved by induction over
data.

Only model-checked: all liveness (`QuorumReturns`, `CatchesUp`, `TaskIsRecorded`,
`CrashIsHandled`, `SubmissionsEnd`), since fairness is outside the prover's reach. `TypeOK`,
`NoQuorumMissed`, `CertificateBacked`, `CompletedWasSubmitted` and `FailedDeployFreesSlot` are
proved, and no run repeats them; `TypeOK` of the other modules is a conjunct of one invariant
of their run.

## Not modelled

Cryptography (an answer either verifies or not), encodings, generated bindings, logging and
metrics; the Ethereum client, whose calls succeed or fail; configuration parsing; hgctl's
deployment and query commands (they pull a release, fill in templates and start one container)
and the Solidity scripts under `contracts/`.

In TaskLifecycle: cancellation of the AVS context, tasks of other AVSs in the same block and
more than one chain per AVS. In ChainPoller: failures of the store other than of SaveBlock
(those of the task records are TaskLifecycle's), and the key layout of badger (a chain id that
is a prefix of another). In AvsRegistry: reorganisations and crashes, which are ChainPoller's
and TaskLifecycle's. In StakeTables: amounts of weight (an operator has weight or not) and more
than one operator set. In ContractWrites: amounts of tokens and gas estimation, and reads that
only print. In ContainerPerformer and KubernetesPerformer: image, network and pod layout. In
Executor: the inner steps of a performer. In HgctlConfig: fields of a context that are strings
without further use, the screens of the wizard and its text fields (one step for all of them),
and values cut in half (half a name is no name, half a path no file). That every drain and
every deployment of the Docker performer ends is not checked by a run.

## Plan

1. *Done:* the models of the aggregator (ResultAggregator, TaskSession, ChainPoller,
   TaskLifecycle, AvsRegistry, StakeTables, ContractWrites), of the executor (Executor,
   ContainerPerformer, DockerManager, KubernetesPerformer) and of hgctl (HgctlConfig); the
   proofs of all their safety properties.
2. *Models*, where time is left: badger's key layout, the deployment commands of hgctl with
   the end point they write, several AVSs in one block.
