----------------------------- MODULE AvsRegistry -----------------------------
(***************************************************************************)
(* Registration of AVSs with the aggregator (ponos/pkg/aggregator:         *)
(* aggregator.go and handlers.go, cmd/aggregator/run.go): a registration   *)
(* checks the map of managers, lets it go, starts a poller per chain, and  *)
(* only then stores and starts its execution manager; the end of its       *)
(* context stops them all.  Pollers and managers are those of ChainPoller  *)
(* and TaskLifecycle, cut down to one block per chain, which holds a task  *)
(* of every AVS: what the module is about is several of them at once, over *)
(* one store.                                                              *)
(***************************************************************************)
EXTENDS Naturals, Sequences, FiniteSets

CONSTANTS
    Addresses,      \* AVS addresses as they are written
    AvsOf,          \* the AVS that an address means: the map's keys are compared as written
    Chains,         \* the chains of the configuration
    Mailboxes,      \* those with a TaskMailbox contract
    Requests,       \* sets of chains that a registration may ask for
    Regs,           \* registrations
    Configs,        \* what config.AVSs may be: sequences of addresses and chains
    None            \* no registration

\* An AVS of the configuration.
Entries == [addr : Addresses, chains : Requests]

ASSUME RegistryConstants ==
    /\ Addresses # {}
    /\ AvsOf \in [Addresses -> Addresses]
    /\ Mailboxes \subseteq Chains
    /\ Configs \subseteq Seq(Entries)
    /\ None \notin Regs

VARIABLES
    phase,          \* of the process: "setup", "built", "starting", "serving", "failed", "stopped"
    todo,           \* configured AVSs still to register
    managers,       \* avsManagers
    reg,            \* each registration: its step, who asked, for what
    ctx,            \* registrations whose context is live
    cancelling,     \* deregistered, and their cancel function still to be called
    poller,         \* the poller of each registration and chain
    consumer,       \* the execution manager's goroutine of each registration
    mined,          \* chains whose block has been mined
    last,           \* per address and chain, the last processed block in the store
    stored,         \* tasks in the store
    taken,          \* per task, the registrations whose manager took it
    deregistered    \* for the properties: registrations that were ever deregistered

vars == <<phase, todo, managers, reg, ctx, cancelling, poller, consumer, mined, last, stored,
          taken, deregistered>>

Avss == {AvsOf[a] : a \in Addresses}

Idle == [at |-> "idle", by |-> "rpc", addr |-> CHOOSE a \in Addresses : TRUE, chains |-> {}]

\* What Config.Validate lets through: a chain at least, and the L1 chain among them; AVSs
\* need an address, nothing compares them.
Init ==
    /\ phase = "setup" /\ todo \in Configs
    /\ managers = [a \in Addresses |-> None]
    /\ reg = [r \in Regs |-> Idle]
    /\ ctx = {} /\ cancelling = {} /\ deregistered = {}
    /\ poller = [r \in Regs |-> [c \in Chains |-> "off"]]
    /\ consumer = [r \in Regs |-> "off"]
    /\ mined = {}
    /\ last = [a \in Addresses |-> [c \in Chains |-> "none"]]
    /\ stored = {}
    /\ taken = [v \in Avss |-> [c \in Chains |-> {}]]

work == <<poller, consumer, mined, last, stored, taken>>

InProgress == {r \in Regs : reg[r].at \in {"polling", "started", "created", "stored"}}

-----------------------------------------------------------------------------
(* registerAvs and deregisterAvs *)

\* getValidChainsForAvs: every chain asked for is configured.
getValidChainsForAvs(chains) == chains \subseteq Chains

\* The check under the read lock, and what needs no poller: refused, or the context and
\* the pollers of the registration are made.
registerAvs(r, by, a, chains) ==
    /\ reg[r].at = "idle"
    /\ \A s \in Regs : by = "config" => s \notin InProgress \/ reg[s].by # "config"
    /\ IF managers[a] # None \/ ~getValidChainsForAvs(chains)
       THEN /\ reg' = [reg EXCEPT ![r] = [at |-> "failed", by |-> by, addr |-> a, chains |-> chains]]
            /\ UNCHANGED ctx
       ELSE /\ reg' = [reg EXCEPT ![r] = [at |-> "polling", by |-> by, addr |-> a, chains |-> chains]]
            /\ ctx' = ctx \cup {r}
    /\ UNCHANGED <<managers, cancelling, work, deregistered>>

\* Start registers the configured AVSs one after the other, before the server starts.
RegisterConfigured(r) ==
    /\ phase = "starting" /\ todo # <<>>
    /\ registerAvs(r, "config", Head(todo).addr, Head(todo).chains)
    /\ todo' = Tail(todo)
    /\ UNCHANGED phase

\* The RPC, once verifyAuth has let it through.
RegisterAvs(r) ==
    /\ phase = "serving"
    /\ \E a \in Addresses, chains \in Requests : registerAvs(r, "rpc", a, chains)
    /\ UNCHANGED <<phase, todo>>

(* Slip: the error returned is one that the deferred function does not see. *)
DeferredCancelNot(r) == UNCHANGED ctx

\* The deferred function of registerAvs: an error ends the registration's context.
DeferredCancel(r) == ctx' = ctx \ {r}

RegistrationFails(r) ==
    /\ reg' = [reg EXCEPT ![r].at = "failed"]
    /\ DeferredCancel(r)
    /\ UNCHANGED <<phase, todo, managers, cancelling, work, deregistered>>

\* A poller's Start: an address new to the store begins at the latest block.
StartPoller(r, c) ==
    /\ reg[r].at = "polling" /\ c \in reg[r].chains /\ poller[r][c] = "off"
    /\ \/ /\ poller' = [poller EXCEPT ![r][c] = "idle"]
          /\ last' = [last EXCEPT ![reg[r].addr][c] =
                         IF @ # "none" THEN @ ELSE IF c \in mined THEN "skipped" ELSE "before"]
       \/ poller' = [poller EXCEPT ![r][c] = "error"] /\ UNCHANGED last
    /\ UNCHANGED <<phase, todo, managers, reg, ctx, cancelling, consumer, mined, stored, taken,
                   deregistered>>

\* startPollers returns when every Start has; an error of any of them fails all.
PollersStarted(r) ==
    /\ reg[r].at = "polling"
    /\ \A c \in reg[r].chains : poller[r][c] # "off"
    /\ IF \E c \in reg[r].chains : poller[r][c] = "error" THEN RegistrationFails(r)
       ELSE /\ reg' = [reg EXCEPT ![r].at = "started"]
            /\ UNCHANGED <<phase, todo, managers, ctx, cancelling, work, deregistered>>

\* NewAvsExecutionManager: a mailbox on every chain.
CreateManager(r) ==
    /\ reg[r].at = "started"
    /\ IF ~(reg[r].chains \subseteq Mailboxes) THEN RegistrationFails(r)
       ELSE /\ reg' = [reg EXCEPT ![r].at = "created"]
            /\ UNCHANGED <<phase, todo, managers, ctx, cancelling, work, deregistered>>

(* Slip: the map is not looked at again. *)
StillFreeUnchecked(a) == TRUE

StillFree(a) == managers[a] = None

\* storeAvsManager looks again, under the lock.
storeAvsManager(r) ==
    /\ reg[r].at = "created"
    /\ IF ~StillFree(reg[r].addr) THEN RegistrationFails(r)
       ELSE /\ managers' = [managers EXCEPT ![reg[r].addr] = r]
            /\ reg' = [reg EXCEPT ![r].at = "stored"]
            /\ UNCHANGED <<phase, todo, ctx, cancelling, work, deregistered>>

\* AvsExecutionManager.Start, which never fails, and the reply.
StartManager(r) ==
    /\ reg[r].at = "stored"
    /\ consumer' = [consumer EXCEPT ![r] = "idle"]
    /\ reg' = [reg EXCEPT ![r].at = "done"]
    /\ UNCHANGED <<phase, todo, managers, ctx, cancelling, poller, mined, last, stored, taken,
                   deregistered>>

\* deregisterAvs: out of the map under the lock ...
DeRegisterAvs(a) ==
    /\ phase = "serving" /\ managers[a] # None
    /\ managers' = [managers EXCEPT ![a] = None]
    /\ cancelling' = cancelling \cup {managers[a]}
    /\ deregistered' = deregistered \cup {managers[a]}
    /\ UNCHANGED <<phase, todo, reg, ctx, work>>

\* ... then its context is cancelled.
CancelDeregistered(r) ==
    /\ r \in cancelling
    /\ cancelling' = cancelling \ {r} /\ ctx' = ctx \ {r}
    /\ UNCHANGED <<phase, todo, managers, reg, work, deregistered>>

-----------------------------------------------------------------------------
(* The process *)

\* The command reads the contracts and opens the store ...
SetUp ==
    /\ phase = "setup" /\ phase' = "built"
    /\ UNCHANGED <<todo, managers, reg, ctx, cancelling, work, deregistered>>

\* ... then a contract caller is made for every chain, and the handlers are registered.
Initialize ==
    /\ phase = "built" /\ phase' = "starting"
    /\ UNCHANGED <<todo, managers, reg, ctx, cancelling, work, deregistered>>

\* Before either, Validate may refuse the configuration; any failure ends the process.
SetUpFails ==
    /\ phase \in {"setup", "built"} /\ phase' = "stopped" /\ todo' = <<>>
    /\ UNCHANGED <<managers, reg, ctx, cancelling, work, deregistered>>

ConfigFailed == \E r \in Regs : reg[r].by = "config" /\ reg[r].at = "failed"

\* The management server starts when every configured AVS is registered.
ServerStarts ==
    /\ phase = "starting" /\ todo = <<>> /\ InProgress = {} /\ ~ConfigFailed
    /\ phase' = "serving"
    /\ UNCHANGED <<todo, managers, reg, ctx, cancelling, work, deregistered>>

\* A configured AVS failed, or the port is taken: Start returns, run.go cancels the root context and goes on
\* waiting for a signal, without a server.
StartFails ==
    /\ phase = "starting" /\ (ConfigFailed \/ (todo = <<>> /\ InProgress = {}))
    /\ phase' = "failed" /\ ctx' = {} /\ todo' = <<>>
    /\ UNCHANGED <<managers, reg, cancelling, work, deregistered>>

\* A signal cancels the root context.
Stop ==
    /\ phase \in {"starting", "serving", "failed"}
    /\ phase' = "stopped" /\ ctx' = {} /\ todo' = <<>>
    /\ UNCHANGED <<managers, reg, cancelling, work, deregistered>>

-----------------------------------------------------------------------------
(* Pollers and execution managers over one store *)

MineBlock(c) ==
    /\ c \notin mined
    /\ mined' = mined \cup {c}
    /\ UNCHANGED <<phase, todo, managers, reg, ctx, cancelling, poller, consumer, last, stored, taken,
                   deregistered>>

Task(r, c) == <<AvsOf[reg[r].addr], c>>

\* The block is saved as the last processed one; a failure is only logged.
Pass(r, c) == last' \in {last, [last EXCEPT ![reg[r].addr][c] = "past"]}

\* A tick: the block after the last processed one; a task that is in the store already is
\* skipped, any other is offered to the registration's own queue.
Poll(r, c) ==
    /\ poller[r][c] = "idle" /\ c \in mined /\ last[reg[r].addr][c] = "before"
    /\ IF Task(r, c) \in stored
       THEN Pass(r, c) /\ UNCHANGED poller
       ELSE poller' = [poller EXCEPT ![r][c] = "offering"] /\ UNCHANGED last
    /\ UNCHANGED <<phase, todo, managers, reg, ctx, cancelling, consumer, mined, stored, taken,
                   deregistered>>

\* The manager's goroutine takes the task; it may do so even when its context has ended.
Take(r, c) ==
    /\ poller[r][c] = "offering" /\ consumer[r] = "idle"
    /\ poller' = [poller EXCEPT ![r][c] = "offered"]
    /\ consumer' = [consumer EXCEPT ![r] = "busy"]
    /\ taken' = [taken EXCEPT ![AvsOf[reg[r].addr]][c] = @ \cup {r}]
    /\ UNCHANGED <<phase, todo, managers, reg, ctx, cancelling, mined, last, stored, deregistered>>

(* Slip: the error is not returned, and the block counts as processed. *)
NotTakenPasses(r, c) ==
    /\ poller[r][c] = "offering" /\ consumer[r] # "idle"
    /\ poller' = [poller EXCEPT ![r][c] = "idle"]
    /\ Pass(r, c)
    /\ UNCHANGED <<phase, todo, managers, reg, ctx, cancelling, consumer, mined, stored, taken,
                   deregistered>>

\* Nobody takes it in time: the block stays unprocessed and is read again.
NotTaken(r, c) ==
    /\ poller[r][c] = "offering"
    /\ poller' = [poller EXCEPT ![r][c] = "idle"]
    /\ UNCHANGED <<phase, todo, managers, reg, ctx, cancelling, consumer, mined, last, stored, taken,
                   deregistered>>

\* Only then is the task saved (a failure is only logged), and the block.
SaveTask(r, c) ==
    /\ poller[r][c] = "offered"
    /\ poller' = [poller EXCEPT ![r][c] = "idle"]
    /\ stored' \in {stored, stored \cup {Task(r, c)}}
    /\ Pass(r, c)
    /\ UNCHANGED <<phase, todo, managers, reg, ctx, cancelling, consumer, mined, taken, deregistered>>

TaskEnds(r) ==
    /\ consumer[r] = "busy"
    /\ consumer' = [consumer EXCEPT ![r] = "idle"]
    /\ UNCHANGED <<phase, todo, managers, reg, ctx, cancelling, poller, mined, last, stored, taken,
                   deregistered>>

\* The end of the context is seen between two tasks or two ticks.
ManagerStops(r) ==
    /\ r \notin ctx /\ consumer[r] = "idle"
    /\ consumer' = [consumer EXCEPT ![r] = "stopped"]
    /\ UNCHANGED <<phase, todo, managers, reg, ctx, cancelling, poller, mined, last, stored, taken,
                   deregistered>>

PollerStops(r, c) ==
    /\ r \notin ctx /\ poller[r][c] = "idle"
    /\ poller' = [poller EXCEPT ![r][c] = "stopped"]
    /\ UNCHANGED <<phase, todo, managers, reg, ctx, cancelling, consumer, mined, last, stored, taken,
                   deregistered>>

-----------------------------------------------------------------------------
Register(r) == PollersStarted(r) \/ CreateManager(r) \/ storeAvsManager(r) \/ StartManager(r)

PollerStep(r, c) == Poll(r, c) \/ NotTaken(r, c) \/ SaveTask(r, c) \/ PollerStops(r, c)

Next ==
    \/ SetUp \/ Initialize \/ SetUpFails
    \/ ServerStarts \/ StartFails \/ Stop
    \/ \E a \in Addresses : DeRegisterAvs(a)
    \/ \E c \in Chains : MineBlock(c)
    \/ \E r \in Regs :
          \/ RegisterConfigured(r) \/ RegisterAvs(r) \/ Register(r) \/ CancelDeregistered(r)
          \/ TaskEnds(r) \/ ManagerStops(r)
          \/ \E c \in Chains : StartPoller(r, c) \/ PollerStep(r, c) \/ Take(r, c)

Spec == Init /\ [][Next]_vars

-----------------------------------------------------------------------------
(* Properties *)

RegRecords ==
    [at : {"idle", "polling", "started", "created", "stored", "done", "failed"},
     by : {"rpc", "config"}, addr : Addresses, chains : Requests \cup {{}}]

PollerSteps == {"off", "error", "idle", "offering", "offered", "stopped"}

LastBlocks == {"none", "before", "past", "skipped"}

TypeOK ==
    /\ phase \in {"setup", "built", "starting", "serving", "failed", "stopped"}
    /\ todo \in Seq(Entries)
    /\ managers \in [Addresses -> Regs \cup {None}]
    /\ reg \in [Regs -> RegRecords]
    /\ ctx \subseteq Regs /\ cancelling \subseteq Regs /\ deregistered \subseteq Regs
    /\ poller \in [Regs -> [Chains -> PollerSteps]]
    /\ consumer \in [Regs -> {"off", "idle", "busy", "stopped"}]
    /\ mined \subseteq Chains /\ stored \subseteq Avss \X Chains
    /\ last \in [Addresses -> [Chains -> LastBlocks]]
    /\ taken \in [Avss -> [Chains -> SUBSET Regs]]

\* An acknowledged registration works until it is deregistered or the process ends: its
\* manager is the one in the map and its context lives, whatever other registrations of
\* the address were tried meanwhile.
AcknowledgedRuns ==
    TypeOK /\ \A r \in Regs :
        reg[r].at = "done" /\ r \notin deregistered /\ phase \in {"starting", "serving"} =>
            managers[reg[r].addr] = r /\ r \in ctx /\ consumer[r] \in {"idle", "busy"}

\* No poller outlives its registration: one whose context lives belongs to the manager in
\* the map, to a registration that is still going on, or to one about to be cancelled.
NoStrayPoller ==
    \A r \in ctx :
        (\E c \in Chains : poller[r][c] \in {"idle", "offering", "offered"}) =>
            managers[reg[r].addr] = r \/ r \in InProgress \cup cancelling

\* The store never says that a block is done while its task was taken by no manager:
\* pollers of registrations that lose the race, and have nobody to take what they offer,
\* never move the address past a task.
PassedWasTaken ==
    \A a \in Addresses, c \in Chains : last[a][c] = "past" => taken[AvsOf[a]][c] # {}
=============================================================================
