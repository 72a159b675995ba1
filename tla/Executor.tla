------------------------------ MODULE Executor ------------------------------
(***************************************************************************)
(* The executor process (ponos/pkg/executor/executor.go and handlers.go)   *)
(* with its store (pkg/executor/storage), its challenge tokens (pkg/auth)  *)
(* and the clients that call it through the retrying gRPC interceptor      *)
(* (pkg/clients/grpcRetry.go, pkg/clients/executorClient).                 *)
(*                                                                         *)
(* A call is one client call: it is sent, and sent again with the same     *)
(* contents, up to MaxAttempts times; every attempt that arrives is a      *)
(* handler of its own, and the handler of an attempt that the client gave  *)
(* up runs on.  The performer of an AVS is reduced to its two slots and    *)
(* its deployment lock (ContainerPerformer has the detail): any of its     *)
(* operations may fail.  A crash loses everything but the containers and,  *)
(* when the store is badger, the saved performers and processed tasks.     *)
(***************************************************************************)
EXTENDS Integers, FiniteSets

CONSTANTS
    Avss,           \* AVS addresses, in lower case
    Performers,     \* performer IDs (uuids: each is used once)
    Tasks,          \* task IDs
    Flaws,          \* what may be wrong with a task submission
    Calls,          \* client calls
    Retrying,       \* those whose context outlives the first attempt (hgctl's client never retries)
    MaxAttempts,    \* RetryConfig.MaxRetries + 1
    MaxStops,       \* bound on crashes and shutdowns
    Confs,          \* configurations: auth, badger store, configured AVSs and their mode
    Unset, TypedNil,\* currentContainer before any Store, and the stored nil pointer
    None            \* nothing: no performer, no AVS, no handler

ASSUME ExecutorConstants ==
    /\ Retrying \subseteq Calls
    /\ MaxAttempts \in Nat \ {0} /\ MaxStops \in Nat
    /\ Flaws \subseteq {"none", "format", "executor", "operatorSet", "signature"}
    /\ Confs \subseteq [auth : BOOLEAN, badger : BOOLEAN, avss : SUBSET Avss,
                       mode : {"docker", "kubernetes"}]
    /\ {Unset, TypedNil, None} \cap (Performers \cup Avss) = {}
    /\ Cardinality({Unset, TypedNil, None}) = 3

Attempts == 1 .. MaxAttempts

VARIABLES
    conf,           \* the configuration
    phase,          \* "down", "rehydrating", "configuring", "serving"
    todo,           \* saved states that the rehydration has still to look at
    known,          \* the keys of avsPerformers
    current, next,  \* the slots of each AVS's performer
    busy,           \* the handler that holds activeDeploymentMu of an AVS, or None
    docker,         \* each container: "absent", "live", "removed", "orphan"
    owner,          \* the AVS that a container was created for
    draining,       \* replaced performers that are still to be removed
    promoted,       \* for the properties: the performers that were ever promoted
    saved,          \* performer:<id> records of the store
    processed,      \* processed:<id> records of the store
    token,          \* the challenge token of each call
    call,           \* the client's side of each call
    handler,        \* the executor's side of each attempt
    stops,          \* crashes and shutdowns so far
    strangers       \* for the properties: containers of an earlier process, not adopted

places == <<known, current, next, busy, owner, draining, promoted>>
store  == <<saved, processed>>
proc   == <<conf, phase, todo, stops, strangers>>
vars   == <<proc, places, docker, store, token, call, handler>>

\* What a call asks for; id is the performer to remove or the task to run.
Requests ==
    [op : {"deploy"}, avs : Avss, id : {None}, flaw : {"none"}] \cup
    [op : {"remove"}, avs : {None}, id : Performers, flaw : {"none"}] \cup
    [op : {"list"}, avs : {None}, id : {None}, flaw : {"none"}] \cup
    [op : {"submit"}, avs : Avss, id : Tasks, flaw : Flaws]

Replies == {"ok", "refused", "internal"}

Ended == Replies \cup {"none", "dead"}

NoHandler == [pc |-> "none", on |-> None, authed |-> FALSE]

IdleCall == [req |-> [op |-> "list", avs |-> None, id |-> None, flaw |-> "none"],
             signed |-> "nil", attempt |-> 0, pc |-> "idle"]

Init ==
    /\ conf \in Confs
    /\ phase = "down" /\ todo = {} /\ stops = 0 /\ strangers = {}
    /\ known = {}
    /\ current = [a \in Avss |-> Unset]
    /\ next = [a \in Avss |-> None]
    /\ busy = [a \in Avss |-> None]
    /\ docker = [p \in Performers |-> "absent"]
    /\ owner = [p \in Performers |-> None]
    /\ draining = {} /\ promoted = {}
    /\ saved = {} /\ processed = {}
    /\ token = [c \in Calls |-> "none"]
    /\ call = [c \in Calls |-> IdleCall]
    /\ handler = [c \in Calls |-> [i \in Attempts |-> NoHandler]]

-----------------------------------------------------------------------------
(* Start, stop and rehydration *)

\* The store.  A write may fail, and every caller only logs that.  Only badger outlives
\* the process, and the memory store does not remember tasks at all.
SavePerformerState(p) == saved' \in {saved, saved \cup {p}}

DeletePerformerState(p) == saved' \in {saved, saved \ {p}}

ListPerformerStates == {saved, {}}

\* What a look-up may say: the caller only logs its error and runs the task.
IsTaskProcessed(t) == {(t \in processed), FALSE}

MarkTaskProcessed(t) ==
    \/ conf.badger /\ processed' = processed \cup {t}
    \/ UNCHANGED processed

Reopened == IF conf.badger THEN saved ELSE {}

\* createPerformer: a configured AVS runs in the mode that its configuration names;
\* what DeployArtifact creates and what is rehydrated is always a Docker performer.
InKubernetes(p) == conf.mode = "kubernetes" /\ owner[p] \in conf.avss

\* NewExecutor, then the list of the saved states (a failure to list is only logged).
NewExecutor ==
    /\ phase = "down"
    /\ phase' = "rehydrating"
    /\ todo' \in ListPerformerStates
    /\ UNCHANGED <<conf, stops, strangers, places, docker, store, token, call, handler>>

(* Slip: the container is not looked for. *)
AdoptableUnchecked(p) == p \in saved

\* RehydrateFromState of the container performer: adoption needs the Docker container.
Adoptable(p) == docker[p] = "live" /\ ~InKubernetes(p)

\* One state, in the order of the store's keys, which is no order of time: skipped when
\* the AVS has a performer already, none can be made or the state's mode is not Docker;
\* a failure to adopt deletes the state.
RehydratePerformer(p) ==
    /\ phase = "rehydrating" /\ p \in todo
    /\ todo' = todo \ {p}
    /\ \/ UNCHANGED <<known, current, saved, strangers>>
       \/ /\ owner[p] \notin known /\ Adoptable(p)
          /\ known' = known \cup {owner[p]}
          /\ current' = [current EXCEPT ![owner[p]] = p]
          /\ strangers' = strangers \ {p}
          /\ UNCHANGED saved
       \/ /\ owner[p] \notin known
          /\ DeletePerformerState(p)
          /\ UNCHANGED <<known, current, strangers>>
    /\ UNCHANGED <<conf, phase, stops, next, busy, owner, draining, promoted, docker, processed,
                   token, call, handler>>

RehydrationEnds ==
    /\ phase = "rehydrating" /\ todo = {}
    /\ phase' = "configuring"
    /\ UNCHANGED <<conf, todo, stops, strangers, places, docker, store, token, call, handler>>

\* Initialize deploys a configured AVS that has no performer yet and saves its state
\* (a failed save is only logged).
DeployConfigured(a, p) ==
    /\ phase = "configuring"
    /\ a \in conf.avss \ known /\ docker[p] = "absent"
    /\ known' = known \cup {a}
    /\ current' = [current EXCEPT ![a] = p]
    /\ owner' = [owner EXCEPT ![p] = a]
    /\ docker' = [docker EXCEPT ![p] = "live"]
    /\ promoted' = promoted \cup {p}
    /\ SavePerformerState(p)
    /\ UNCHANGED <<proc, next, busy, draining, processed, token, call, handler>>

\* registerHandlers and Run: the RPC servers answer.
Run ==
    /\ phase = "configuring" /\ conf.avss \subseteq known
    /\ phase' = "serving"
    /\ UNCHANGED <<conf, todo, stops, strangers, places, docker, store, token, call, handler>>

\* What the end of the process leaves of its state.
ProcessEnds ==
    /\ phase # "down" /\ stops < MaxStops
    /\ stops' = stops + 1
    /\ strangers' = {p \in Performers : docker[p] # "absent"}
    /\ phase' = "down" /\ todo' = {}
    /\ known' = {} /\ draining' = {}
    /\ current' = [a \in Avss |-> Unset]
    /\ next' = [a \in Avss |-> None]
    /\ busy' = [a \in Avss |-> None]
    /\ saved' = Reopened
    /\ token' = [c \in Calls |-> IF token[c] = "none" THEN "none" ELSE "void"]
    /\ handler' = [c \in Calls |-> [i \in Attempts |->
         [handler[c][i] EXCEPT !.pc = IF @ \in Ended THEN @ ELSE "dead", !.on = None]]]
    /\ UNCHANGED <<conf, owner, promoted, processed, call>>

\* A crash, or an error that Initialize returns when a configured AVS cannot be deployed.
Crash == ProcessEnds /\ UNCHANGED docker

InSlots == (UNION {{current[a], next[a]} : a \in Avss}) \cap Performers

\* The executor's context ends: every performer is shut down, which removes the containers
\* in its slots, except those whose removal fails or comes after the five seconds' grace.
Shutdown ==
    /\ phase = "serving"
    /\ ProcessEnds
    /\ \E gone \in SUBSET InSlots :
         docker' = [p \in Performers |-> IF p \in gone THEN "removed" ELSE docker[p]]

-----------------------------------------------------------------------------
(* The client: AuthenticatedExecutorClient and retryUnaryInterceptor *)

\* An attempt arrives if the executor serves; else it will end as unavailable.
Arrive(c, i, first) ==
    handler' = IF phase # "serving" THEN handler
               ELSE [handler EXCEPT ![c][i] = [NoHandler EXCEPT !.pc = first]]

\* A call begins.  A client of the management service that knows how to authenticate
\* asks for a token first; another sends no auth or signs with a key that is not the
\* operator's.  SubmitTask carries no token.
CallBegins(c, req, signed) ==
    /\ call[c].pc = "idle"
    /\ req.op = "submit" => signed = "nil"
    /\ IF signed = "nil"
       THEN /\ call' = [call EXCEPT ![c] = [req |-> req, signed |-> signed, attempt |-> 1, pc |-> "waiting"]]
            /\ Arrive(c, 1, IF req.op = "submit" THEN "check" ELSE "auth")
       ELSE /\ call' = [call EXCEPT ![c] = [req |-> req, signed |-> signed, attempt |-> 0, pc |-> "token"]]
            /\ UNCHANGED handler
    /\ UNCHANGED <<proc, places, docker, store, token>>

\* createAuthSignature: GetChallengeToken, the signature, and then the call itself.
GetChallengeToken(c) ==
    /\ call[c].pc = "token" /\ phase = "serving"
    /\ IF conf.auth
       THEN /\ token' = [token EXCEPT ![c] = "issued"]
            /\ call' = [call EXCEPT ![c].pc = "waiting", ![c].attempt = 1]
            /\ Arrive(c, 1, "auth")
       ELSE /\ call' = [call EXCEPT ![c].pc = "ended"]
            /\ UNCHANGED <<token, handler>>
    /\ UNCHANGED <<proc, places, docker, store>>

\* The same request, with the same token and signature, once more, or the end of the call.
Retry(c) ==
    IF c \in Retrying /\ call[c].attempt < MaxAttempts
    THEN /\ call' = [call EXCEPT ![c].attempt = @ + 1]
         /\ Arrive(c, call[c].attempt + 1, IF call[c].req.op = "submit" THEN "check" ELSE "auth")
    ELSE /\ call' = [call EXCEPT ![c].pc = "ended"]
         /\ UNCHANGED handler

\* isRetryableError: Internal is tried again, success and a refusal end the call.
ClientReceives(c) ==
    /\ call[c].pc = "waiting"
    /\ LET reply == handler[c][call[c].attempt].pc
       IN  \/ reply = "internal" /\ Retry(c)
           \/ /\ reply \in {"ok", "refused"}
              /\ call' = [call EXCEPT ![c].pc = "ended"]
              /\ handler' = [handler EXCEPT ![c][call[c].attempt].pc = IF @ = "ok" THEN @ ELSE "dead"]
    /\ UNCHANGED <<proc, places, docker, store, token>>

\* The attempt's ten seconds are over (DeadlineExceeded) or the connection breaks
\* (Unavailable): both are tried again.  The handler of the attempt runs on.
ClientGivesUp(c) ==
    /\ call[c].pc = "waiting"
    /\ handler[c][call[c].attempt].pc \notin {"ok", "refused", "internal"}
    /\ Retry(c)
    /\ UNCHANGED <<proc, places, docker, store, token>>

-----------------------------------------------------------------------------
(* The management service *)

At(c, i, pc) == phase = "serving" /\ handler[c][i].pc = pc

\* A handler goes on at pc, or answers; nobody hears the error of an attempt given up.
Goto(c, i, pc) ==
    LET heard == call[c].pc = "waiting" /\ call[c].attempt = i
    IN  handler' = [handler EXCEPT
          ![c][i].pc = IF pc \in {"refused", "internal"} /\ ~heard THEN "dead" ELSE pc,
          ![c][i].on = IF pc \in Ended THEN None ELSE @]

(* Slip: a token stays good after its use. *)
UseChallengeTokenKeeps(c) == token[c] = "issued" /\ UNCHANGED token

\* UseChallengeToken, atomic under the token manager's mutex.
UseChallengeToken(c) ==
    /\ token[c] = "issued"
    /\ token' = [token EXCEPT ![c] = "void"]

\* The token is not good, or its five minutes have just passed; it stays so when the
\* cleanup has deleted it.
TokenExpired(c) == token' = [token EXCEPT ![c] = IF @ = "none" THEN "none" ELSE "void"]

\* verifyAuth: the token is used up before the signature is compared, so a failing
\* signer and a wrong signature cost the token too.
VerifyAuth(c, i) ==
    /\ At(c, i, "auth")
    /\ LET pass == /\ handler' = [handler EXCEPT ![c][i].authed = TRUE,
                         ![c][i].pc = CASE call[c].req.op = "deploy" -> "get"
                                        [] call[c].req.op = "remove" -> "find"
                                        [] call[c].req.op = "list" -> "list"]
       IN  \/ ~conf.auth /\ pass /\ UNCHANGED token
           \/ /\ conf.auth /\ UseChallengeToken(c)
              /\ \/ call[c].signed = "operator" /\ pass
                 \/ call[c].signed # "operator" /\ Goto(c, i, "refused")
                 \/ Goto(c, i, "internal")
           \/ conf.auth /\ TokenExpired(c) /\ Goto(c, i, "refused")
    /\ UNCHANGED <<proc, places, docker, store, call>>

\* getOrCreateAvsPerformer: the fast path, or a new performer that is initialized first.
GetAvsPerformer(c, i) ==
    /\ At(c, i, "get")
    /\ \/ Goto(c, i, IF call[c].req.avs \in known THEN "deploy" ELSE "store")
       \/ call[c].req.avs \notin known /\ Goto(c, i, "internal")
    /\ UNCHANGED <<proc, places, docker, store, token, call>>

(* Slip: Store, not LoadOrStore: the performer stored meanwhile is overwritten. *)
StoreAvsPerformerOverwrites(c, i) ==
    /\ At(c, i, "store")
    /\ known' = known \cup {call[c].req.avs}
    /\ current' = [current EXCEPT ![call[c].req.avs] = Unset]
    /\ next' = [next EXCEPT ![call[c].req.avs] = None]
    /\ busy' = [busy EXCEPT ![call[c].req.avs] = None]
    /\ Goto(c, i, "deploy")
    /\ UNCHANGED <<proc, owner, draining, promoted, docker, store, token, call>>

\* LoadOrStore: the one that comes second shuts its own empty performer down.
StoreAvsPerformer(c, i) ==
    /\ At(c, i, "store")
    /\ known' = known \cup {call[c].req.avs}
    /\ Goto(c, i, "deploy")
    /\ UNCHANGED <<proc, current, next, busy, owner, draining, promoted, docker, store, token, call>>

(* Slip: the state is saved as soon as the container exists. *)
DeployBeginsSaved(c, i, p) ==
    /\ At(c, i, "deploy")
    /\ LET a == call[c].req.avs
       IN  /\ busy[a] = None /\ next[a] = None /\ docker[p] = "absent"
           /\ busy' = [busy EXCEPT ![a] = <<c, i>>]
           /\ next' = [next EXCEPT ![a] = p]
           /\ owner' = [owner EXCEPT ![p] = a]
    /\ docker' = [docker EXCEPT ![p] = "live"]
    /\ saved' = saved \cup {p}
    /\ handler' = [handler EXCEPT ![c][i].pc = "promote", ![c][i].on = p]
    /\ UNCHANGED <<proc, known, current, draining, promoted, processed, token, call>>

\* Deploy takes the deployment lock and creates a container in the next slot.
DeployBegins(c, i, p) ==
    /\ At(c, i, "deploy")
    /\ LET a == call[c].req.avs
       IN  /\ busy[a] = None /\ next[a] = None /\ docker[p] = "absent"
           /\ busy' = [busy EXCEPT ![a] = <<c, i>>]
           /\ next' = [next EXCEPT ![a] = p]
           /\ owner' = [owner EXCEPT ![p] = a]
    /\ docker' = [docker EXCEPT ![p] = "live"]
    /\ handler' = [handler EXCEPT ![c][i].pc = "promote", ![c][i].on = p]
    /\ UNCHANGED <<proc, known, current, draining, promoted, store, token, call>>

\* Another deployment holds the lock, or nothing could be created.
DeployRefused(c, i) ==
    /\ At(c, i, "deploy")
    /\ Goto(c, i, "internal")
    /\ UNCHANGED <<proc, places, docker, store, token, call>>

\* The container became healthy and takes over; the old one is drained.
DeployPromotes(c, i) ==
    /\ At(c, i, "promote")
    /\ LET a == call[c].req.avs   p == handler[c][i].on
       IN  /\ next[a] = p
           /\ current' = [current EXCEPT ![a] = p]
           /\ next' = [next EXCEPT ![a] = None]
           /\ busy' = [busy EXCEPT ![a] = None]
           /\ draining' = draining \cup ({current[a]} \cap Performers)
           /\ promoted' = promoted \cup {p}
    /\ Goto(c, i, "save")
    /\ UNCHANGED <<proc, known, owner, docker, store, token, call>>

\* The container never became healthy or was removed meanwhile: Deploy removes it, which
\* fails without effect when RemovePerformer finds the nil pointer in the current slot.
DeployFails(c, i) ==
    /\ At(c, i, "promote")
    /\ LET a == call[c].req.avs   p == handler[c][i].on
       IN  /\ busy' = [busy EXCEPT ![a] = None]
           /\ IF next[a] = p /\ current[a] # TypedNil
              THEN /\ next' = [next EXCEPT ![a] = None]
                   /\ \E left \in {"removed", "orphan"} : docker' = [docker EXCEPT ![p] = left]
              ELSE UNCHANGED <<next, docker>>
    /\ Goto(c, i, "internal")
    /\ UNCHANGED <<proc, known, current, owner, draining, promoted, store, token, call>>

\* DeployArtifact saves the new performer.  The state of the one that was replaced
\* stays in the store.
SaveDeployed(c, i) ==
    /\ At(c, i, "save")
    /\ SavePerformerState(handler[c][i].on)
    /\ Goto(c, i, "ok")
    /\ UNCHANGED <<proc, places, docker, processed, token, call>>

\* The drain goroutine of a replaced performer removes its container.
DrainRemoves(p) ==
    /\ phase = "serving" /\ p \in draining
    /\ draining' = draining \ {p}
    /\ \E left \in {"removed", "orphan"} : docker' = [docker EXCEPT ![p] = left]
    /\ UNCHANGED <<proc, known, current, next, busy, owner, promoted, store, token, call, handler>>

\* findPerformerByID looks at the live performers only: a state that is only in the
\* store cannot be removed.
FindPerformerByID(c, i) ==
    /\ At(c, i, "find")
    /\ Goto(c, i, IF call[c].req.id \in InSlots THEN "remove" ELSE "refused")
    /\ UNCHANGED <<proc, places, docker, store, token, call>>

\* RemovePerformer of the AVS's performer: the slot is emptied even if Docker then fails.
RemovePerformer(c, i) ==
    /\ At(c, i, "remove")
    /\ LET p == call[c].req.id
       IN  \/ \E a \in Avss : \E left \in {"removed", "orphan"} :
                /\ p \in {current[a], next[a]} /\ current[a] # TypedNil
                /\ current' = [current EXCEPT ![a] = IF @ = p THEN TypedNil ELSE @]
                /\ next' = [next EXCEPT ![a] = IF @ = p THEN None ELSE @]
                /\ docker' = [docker EXCEPT ![p] = left]
                /\ Goto(c, i, IF left = "removed" THEN "delete" ELSE "internal")
           \/ /\ \A a \in Avss : p \in {current[a], next[a]} => current[a] = TypedNil
              /\ Goto(c, i, "internal")
              /\ UNCHANGED <<current, next, docker>>
    /\ UNCHANGED <<proc, known, busy, owner, draining, promoted, store, token, call>>

\* Not found is an error of the store too.
DeleteRemoved(c, i) ==
    /\ At(c, i, "delete")
    /\ DeletePerformerState(call[c].req.id)
    /\ Goto(c, i, "ok")
    /\ UNCHANGED <<proc, places, docker, processed, token, call>>

\* ListPerformers answers with the live performers and the saved ones beside them.
ListPerformers(c, i) ==
    /\ At(c, i, "list")
    /\ Goto(c, i, "ok")
    /\ UNCHANGED <<proc, places, docker, store, token, call>>

-----------------------------------------------------------------------------
(* The task service *)

\* The tests of a submission, by what each of them finds.
ValidateTaskSubmission(req) == req.flaw # "format"

ForThisExecutor(req) == req.flaw # "executor"

ValidateOperatorInSet(req) == req.flaw # "operatorSet"

ValidateTaskSignature(req) == req.flaw # "signature"

\* SubmitTask and handleReceivedTask up to RunTask.  A chain read that fails refuses the
\* task like a failed test.
CheckTask(c, i) ==
    /\ At(c, i, "check")
    /\ LET req == call[c].req
       IN  \/ /\ ValidateTaskSubmission(req) /\ FALSE \in IsTaskProcessed(req.id)
              /\ ForThisExecutor(req) /\ ValidateOperatorInSet(req) /\ ValidateTaskSignature(req)
              /\ req.avs \in known
              /\ Goto(c, i, "run")
           \/ Goto(c, i, "refused")
    /\ UNCHANGED <<proc, places, docker, store, token, call>>

\* RunTask takes whatever container is in service now.
RunTask(c, i) ==
    /\ At(c, i, "run")
    /\ Goto(c, i, IF current[call[c].req.avs] \in Performers THEN "exec" ELSE "internal")
    /\ UNCHANGED <<proc, places, docker, store, token, call>>

\* The performer answers and signResult signs the answer, or one of them fails.
SignResult(c, i) ==
    /\ At(c, i, "exec")
    /\ \E pc \in {"mark", "internal"} : Goto(c, i, pc)
    /\ UNCHANGED <<proc, places, docker, store, token, call>>

\* The task is marked as processed ...
MarkTask(c, i) ==
    /\ At(c, i, "mark")
    /\ MarkTaskProcessed(call[c].req.id)
    /\ Goto(c, i, "return")
    /\ UNCHANGED <<proc, places, docker, saved, token, call>>

\* ... and only then its result is returned.
ReturnResult(c, i) ==
    /\ At(c, i, "return")
    /\ Goto(c, i, "ok")
    /\ UNCHANGED <<proc, places, docker, store, token, call>>

-----------------------------------------------------------------------------

Management(c, i) ==
    \/ VerifyAuth(c, i)
    \/ GetAvsPerformer(c, i)
    \/ StoreAvsPerformer(c, i)
    \/ \E p \in Performers : DeployBegins(c, i, p)
    \/ DeployRefused(c, i)
    \/ DeployPromotes(c, i)
    \/ DeployFails(c, i)
    \/ SaveDeployed(c, i)
    \/ FindPerformerByID(c, i)
    \/ RemovePerformer(c, i)
    \/ DeleteRemoved(c, i)
    \/ ListPerformers(c, i)

SubmitTask(c, i) ==
    \/ CheckTask(c, i) \/ RunTask(c, i) \/ SignResult(c, i)
    \/ MarkTask(c, i) \/ ReturnResult(c, i)

Client(c) ==
    \/ \E req \in Requests, signed \in {"nil", "operator", "other"} : CallBegins(c, req, signed)
    \/ GetChallengeToken(c)
    \/ ClientReceives(c)
    \/ ClientGivesUp(c)

Next ==
    \/ NewExecutor \/ RehydrationEnds \/ Run \/ Crash \/ Shutdown
    \/ \E p \in Performers : RehydratePerformer(p) \/ DrainRemoves(p)
    \/ \E a \in Avss, p \in Performers : DeployConfigured(a, p)
    \/ \E c \in Calls : Client(c)
    \/ \E c \in Calls, i \in Attempts : Management(c, i) \/ SubmitTask(c, i)

Spec == Init /\ [][Next]_vars

-----------------------------------------------------------------------------
(* Properties *)

HandlerPcs == Ended \cup {"auth", "get", "store", "deploy", "promote", "save", "find", "remove",
                          "delete", "list", "check", "run", "exec", "mark", "return"}

HandlerRecords == [pc : HandlerPcs, on : Performers \cup {None}, authed : BOOLEAN]

CallRecords == [req : Requests, signed : {"nil", "operator", "other"},
                attempt : 0 .. MaxAttempts, pc : {"idle", "token", "waiting", "ended"}]

\* Types: a slot holds a performer of its AVS, and only badger remembers a task.
TypeOK ==
    /\ conf \in Confs
    /\ phase \in {"down", "rehydrating", "configuring", "serving"}
    /\ todo \subseteq saved /\ stops \in 0 .. MaxStops
    /\ strangers \subseteq Performers
    /\ known \subseteq Avss
    /\ current \in [Avss -> Performers \cup {Unset, TypedNil}]
    /\ next \in [Avss -> Performers \cup {None}]
    /\ \A a \in Avss, p \in Performers : p \in {current[a], next[a]} => owner[p] = a
    /\ busy \in [Avss -> (Calls \X Attempts) \cup {None}]
    /\ docker \in [Performers -> {"absent", "live", "removed", "orphan"}]
    /\ owner \in [Performers -> Avss \cup {None}]
    /\ draining \subseteq Performers /\ promoted \subseteq Performers /\ saved \subseteq Performers
    /\ processed \subseteq Tasks /\ (processed # {} => conf.badger)
    /\ token \in [Calls -> {"none", "issued", "void"}]
    /\ call \in [Calls -> CallRecords]
    /\ handler \in [Calls -> [Attempts -> HandlerRecords]]

\* A challenge token admits one request (UseChallengeToken): of the attempts of a
\* management call at most one is carried out, however often the client sends it again,
\* and a restart of the executor between two attempts makes no difference.
RetryAuthorisedOnce ==
    conf.auth => \A c \in Calls : Cardinality({i \in Attempts : handler[c][i].authed}) <= 1

\* A performer whose removal was acknowledged never serves again, even if the state of
\* it is saved after it was deleted (DeployArtifact saves after Deploy returns) and
\* the executor restarts on that store.
RemovedStaysRemoved ==
    \A c \in Calls, i \in Attempts :
        call[c].req.op = "remove" /\ handler[c][i].pc = "ok" => call[c].req.id \notin InSlots

\* Only a container that Deploy found healthy ever serves: no crash during a deployment
\* lets the rehydration adopt one that was only created.
ServingWasPromoted ==
    TypeOK /\ \A a \in Avss : current[a] \in Performers => current[a] \in promoted

\* A container that runs is known to the process: it is in a slot or being drained, unless
\* an earlier process left it and the rehydration did not adopt it, or its removal failed.
\* Two first deployments of an AVS at once, a removal in the middle of a deployment and a
\* deployment that fails lose none of them.
NoContainerForgotten ==
    \A p \in Performers \ strangers : docker[p] = "live" => p \in InSlots \cup draining


=============================================================================
