--------------------------- MODULE ContractWrites ---------------------------
(***************************************************************************)
(* Transactions of one account.                                            *)
(*                                                                         *)
(* The contract caller of ponos and the contract client of hgctl turn each *)
(* write into one or more transactions, ask the node for the account's     *)
(* pending nonce, send, and wait for the receipt.  Several calls of one    *)
(* account run at the same time (the aggregator submits the results of     *)
(* concurrent tasks, an operator runs hgctl beside it) and nothing         *)
(* serialises them: two calls may be given the same nonce, and the node    *)
(* then refuses the later transaction or lets it replace the earlier one.  *)
(* Task results are submitted in a retry loop; every other call is made    *)
(* once.                                                                   *)
(*                                                                         *)
(* The node, its transaction pool and the contracts are external.  A       *)
(* contract is what its calls add to, and take from, a set of facts.       *)
(***************************************************************************)
EXTENDS Integers, FiniteSets, Sequences

CONSTANTS
    Writers,        \* concurrent calls
    CallChoices,    \* the assignments of calls to Writers that are explored
    FactChoices,    \* what the contracts may hold at first
    Fees,           \* gas prices the node may suggest
    MaxAttempts,    \* length of the retry loop's list of backoffs
    MaxFaults       \* bound: failed requests and reverts of outside causes

ASSUME WritesAssumption ==
    /\ Fees \subseteq Nat /\ Fees # {}
    /\ MaxAttempts \in Nat \ {0}
    /\ MaxFaults \in Nat

-----------------------------------------------------------------------------
(* The calls.  A call is the sequence of its transactions.  A transaction  *)
(* gives and takes facts; it reverts when a fact it needs is missing or    *)
(* one it refuses is there; the client skips it when it reads the facts of *)
(* "unless" (never, when there are none).                                  *)

Tx(g) ==
    [gives |-> g, takes |-> {}, needs |-> {}, refuses |-> {}, unless |-> {}]

Withdraw(g) == [Tx({}) EXCEPT !.takes = g, !.needs = g]

(* ponos *)
SubmitBN254TaskResult == << [Tx({"result"}) EXCEPT !.refuses = {"result"}] >>
SubmitECDSATaskResult == << [Tx({"result"}) EXCEPT !.refuses = {"result"}] >>
PublishMessageToInbox == << Tx({"task"}) >>
ConfigureAVSOperatorSet ==
    << [Tx({"curve"}) EXCEPT !.refuses = {"curve"}] >>
RegisterKeyWithKeyRegistrar == << [Tx({"key"}) EXCEPT !.needs = {"curve"}] >>
createOperator ==
    << [Tx({"operator"}) EXCEPT !.refuses = {"operator"},
                                !.unless = {"operator"}] >>
registerOperatorWithAvs == << [Tx({"avs"}) EXCEPT !.needs = {"operator"}] >>
CreateOperatorAndRegisterWithAvs == createOperator \o registerOperatorWithAvs
SetupTaskMailboxForAvs == << Tx({"mailbox0"}), Tx({"mailbox1"}) >>
DelegateToOperator == << [Tx({"delegated"}) EXCEPT !.refuses = {"delegated"}] >>
ModifyAllocations == << [Tx({"magnitude"}) EXCEPT !.needs = {"operator"}] >>
CreateGenerationReservation == << Tx({"reservation"}) >>
VerifyBN254Certificate == << Tx({"verified"}) >>

(* hgctl *)
RegisterAsOperator ==
    << [Tx({"operator"}) EXCEPT !.refuses = {"operator"}] >>
RegisterOperatorToAVS == << [Tx({"avs"}) EXCEPT !.needs = {"operator"}] >>
DepositIntoStrategy ==
    << Tx({"allowance"}),
       [Tx({"deposit"}) EXCEPT !.needs = {"allowance"},
                               !.takes = {"allowance"}] >>
DelegateTo == << [Tx({"delegated"}) EXCEPT !.refuses = {"delegated"}] >>
RegisterECDSAKey == << Tx({"key"}) >>
RegisterKey == << Tx({"key"}) >>
RegisterBN254Key == << Tx({"key"}) >>
SetAllocationDelay == << Tx({"delay"}) >>
CliModifyAllocations == << [Tx({"magnitude"}) EXCEPT !.needs = {"operator"}] >>
CreateOperatorSets == << Tx({"sets"}) >>
DeregisterOperatorFromAVS == << Withdraw({"avs"}) >>
DeregisterKey == << Withdraw({"key"}) >>
AddPendingAdmin == << Tx({"pending"}) >>
RemovePendingAdmin == << Withdraw({"pending"}) >>
AcceptAdmin ==
    << [Withdraw({"pending"}) EXCEPT !.gives = {"admin"}] >>
RemoveAdmin == << Withdraw({"admin"}) >>
SetAppointee == << Tx({"appointee"}) >>
RemoveAppointee == << Withdraw({"appointee"}) >>
SetClaimerFor == << Tx({"claimer"}) >>
ProcessClaim == << Tx({"claimed"}) >>

PonosCalls ==
    [SubmitBN254TaskResult |-> SubmitBN254TaskResult,
     SubmitECDSATaskResult |-> SubmitECDSATaskResult,
     PublishMessageToInbox |-> PublishMessageToInbox,
     ConfigureAVSOperatorSet |-> ConfigureAVSOperatorSet,
     RegisterKeyWithKeyRegistrar |-> RegisterKeyWithKeyRegistrar,
     CreateOperatorAndRegisterWithAvs |-> CreateOperatorAndRegisterWithAvs,
     SetupTaskMailboxForAvs |-> SetupTaskMailboxForAvs,
     DelegateToOperator |-> DelegateToOperator,
     ModifyAllocations |-> ModifyAllocations,
     CreateGenerationReservation |-> CreateGenerationReservation,
     VerifyBN254Certificate |-> VerifyBN254Certificate]

HgctlCalls ==
    [RegisterAsOperator |-> RegisterAsOperator,
     RegisterOperatorToAVS |-> RegisterOperatorToAVS,
     DepositIntoStrategy |-> DepositIntoStrategy,
     DelegateTo |-> DelegateTo,
     RegisterECDSAKey |-> RegisterECDSAKey,
     RegisterKey |-> RegisterKey,
     RegisterBN254Key |-> RegisterBN254Key,
     SetAllocationDelay |-> SetAllocationDelay,
     CliModifyAllocations |-> CliModifyAllocations,
     CreateOperatorSets |-> CreateOperatorSets,
     DeregisterOperatorFromAVS |-> DeregisterOperatorFromAVS,
     DeregisterKey |-> DeregisterKey,
     AddPendingAdmin |-> AddPendingAdmin,
     RemovePendingAdmin |-> RemovePendingAdmin,
     AcceptAdmin |-> AcceptAdmin,
     RemoveAdmin |-> RemoveAdmin,
     SetAppointee |-> SetAppointee,
     RemoveAppointee |-> RemoveAppointee,
     SetClaimerFor |-> SetClaimerFor,
     ProcessClaim |-> ProcessClaim]

Submissions == {"SubmitBN254TaskResult", "SubmitECDSATaskResult"}

(* The calls that check their certificate before they send anything. *)
Checked == Submissions \cup {"VerifyBN254Certificate"}

ASSUME CallsAssumption ==
    CallChoices \subseteq
        [Writers -> DOMAIN PonosCalls \cup DOMAIN HgctlCalls]

-----------------------------------------------------------------------------
VARIABLES
    remote,     \* ponos signs with Web3Signer instead of a private key
    call,       \* the call each writer makes
    valid,      \* the writer's parameters pass the caller's own checks
    facts,      \* what the contracts hold
    mined,      \* nonces of the account that are in a block
    pool,       \* the account's pending transactions
    receipts,   \* receipts of mined transactions: <<writer, step, try, ok>>
    pc, step, try, nonce, fee,
    out,        \* what the call returned
    expired,    \* writers whose context has ended
    settled,    \* history: <<writer, step>> that took effect, or were skipped
    faults

nodeVars == <<facts, mined, pool, receipts>>
callVars == <<remote, call, valid>>
writesVars == <<remote, call, valid, facts, mined, pool, receipts, pc, step, try,
                nonce, fee, out, expired, settled, faults>>

InPonos(w) == call[w] \in DOMAIN PonosCalls
Program(w) == IF InPonos(w) THEN PonosCalls[call[w]] ELSE HgctlCalls[call[w]]
Current(w) == Program(w)[step[w]]
Retries(w) == call[w] \in Submissions
Waits(w) == call[w] # "CreateOperatorSets"

(* Only the private-key signer and hgctl look at the receipt's status. *)
ChecksStatus(w) == ~(InPonos(w) /\ remote)

Reverts(tx) == ~(tx.needs \subseteq facts) \/ tx.refuses \cap facts # {}

(* eth_getTransactionCount(account, "pending") *)
PendingNonceAt == mined + Cardinality(pool)

WritesInit ==
    /\ remote \in BOOLEAN
    /\ call \in CallChoices
    /\ valid \in [Writers -> BOOLEAN]
    /\ \A w \in Writers : ~valid[w] => call[w] \in Checked
    /\ facts \in FactChoices
    /\ mined = 0 /\ pool = {} /\ receipts = {}
    /\ pc = [w \in Writers |-> "build"]
    /\ step = [w \in Writers |-> 1]
    /\ try = [w \in Writers |-> 1]
    /\ nonce = [w \in Writers |-> 0]
    /\ fee = [w \in Writers |-> 0]
    /\ out = [w \in Writers |-> "none"]
    /\ expired = {} /\ settled = {}
    /\ faults = 0

-----------------------------------------------------------------------------
(* One attempt at one transaction. *)

(* An error ends the call, except that a submission sleeps and tries again *)
(* until its last backoff.                                                 *)
Fail(w) ==
    IF Retries(w) /\ try[w] < MaxAttempts
    THEN /\ pc' = [pc EXCEPT ![w] = "sleep"]
         /\ UNCHANGED out
    ELSE /\ pc' = [pc EXCEPT ![w] = "done"]
         /\ out' = [out EXCEPT ![w] = "error"]

(* time.Sleep does not watch the context. *)
Sleep(w) ==
    /\ pc[w] = "sleep"
    /\ try' = [try EXCEPT ![w] = @ + 1]
    /\ pc' = [pc EXCEPT ![w] = "build"]
    /\ UNCHANGED <<callVars, nodeVars, step, nonce, fee, out, expired, settled, faults>>

(* The transaction of this step is done: the next one, or success. *)
Advance(w) ==
    IF step[w] < Len(Program(w))
    THEN /\ step' = [step EXCEPT ![w] = @ + 1]
         /\ pc' = [pc EXCEPT ![w] = "build"]
         /\ UNCHANGED out
    ELSE /\ pc' = [pc EXCEPT ![w] = "done"]
         /\ out' = [out EXCEPT ![w] = "ok"]
         /\ UNCHANGED step

(* A request to the node or to Web3Signer fails, for a reason of its own   *)
(* or because the caller's context has ended; or the parameters are        *)
(* refused before anything is sent (an empty operator table or root, a     *)
(* root that does not match, a non-signer out of range, no signatures, a   *)
(* certificate that the simulated call finds below the threshold).         *)
RequestFails(w) ==
    /\ pc[w] \in {"build", "send"}
    /\ \/ w \in expired /\ UNCHANGED faults
       \/ pc[w] = "build" /\ ~valid[w] /\ UNCHANGED faults
       \/ faults < MaxFaults /\ faults' = faults + 1
    /\ Fail(w)
    /\ UNCHANGED <<callVars, nodeVars, step, try, nonce, fee, expired, settled>>

Ready(w) == valid[w] /\ w \notin expired

(* createOperator returns without a transaction when the operator exists. *)
Skip(w) ==
    /\ pc[w] = "build" /\ Ready(w)
    /\ Current(w).unless # {} /\ Current(w).unless \subseteq facts
    /\ settled' = settled \cup {<<w, step[w]>>}
    /\ Advance(w)
    /\ UNCHANGED <<callVars, nodeVars, try, nonce, fee, expired,
                   faults>>

(* Plausible bugs, used to show that the properties are sensitive. *)

(* A retry moves past the nonce that was refused instead of asking again. *)
BuildBumpsNonce(w) ==
    /\ pc[w] = "build" /\ Ready(w)
    /\ Current(w).unless = {} \/ ~(Current(w).unless \subseteq facts)
    /\ IF Reverts(Current(w))
       THEN Fail(w) /\ UNCHANGED <<nonce, fee>>
       ELSE /\ nonce' = [nonce EXCEPT ![w] =
                            IF try[w] > 1 THEN @ + 1 ELSE PendingNonceAt]
            /\ \E f \in Fees : fee' = [fee EXCEPT ![w] = f]
            /\ pc' = [pc EXCEPT ![w] = "send"]
            /\ UNCHANGED out
    /\ UNCHANGED <<callVars, nodeVars, step, try, expired, settled,
                   faults>>

(* The binding estimates gas on the latest block, which refuses what would *)
(* revert, and takes the pending nonce.                                    *)
Build(w) ==
    /\ pc[w] = "build" /\ Ready(w)
    /\ Current(w).unless = {} \/ ~(Current(w).unless \subseteq facts)
    /\ IF Reverts(Current(w))
       THEN Fail(w) /\ UNCHANGED <<nonce, fee>>
       ELSE /\ nonce' = [nonce EXCEPT ![w] = PendingNonceAt]
            /\ \E f \in Fees : fee' = [fee EXCEPT ![w] = f]
            /\ pc' = [pc EXCEPT ![w] = "send"]
            /\ UNCHANGED out
    /\ UNCHANGED <<callVars, nodeVars, step, try, expired, settled,
                   faults>>

(* The private-key signer of ponos prices and estimates the transaction    *)
(* again; Web3Signer signs it, and hgctl sends it, as it was built.        *)
Reprices(w) == InPonos(w) /\ ~remote
PriceAtSend(w) == IF Reprices(w) THEN Fees ELSE {fee[w]}

Sent(w, f) ==
    [nonce |-> nonce[w], by |-> w, step |-> step[w], try |-> try[w], fee |-> f]

Rivals(w) == {t \in pool : t.nonce = nonce[w]}

(* The node refuses a nonce that is in a block already, and a transaction  *)
(* with the nonce of a pending one unless it pays more.                    *)
Refused(w, f) ==
    \/ nonce[w] < mined
    \/ \E t \in Rivals(w) : t.fee >= f

Send(w) ==
    /\ pc[w] = "send" /\ Ready(w)
    /\ \E f \in PriceAtSend(w) :
         IF (Reprices(w) /\ Reverts(Current(w))) \/ Refused(w, f)
         THEN /\ Fail(w)
              /\ UNCHANGED <<pool, step>>
         ELSE /\ pool' = (pool \ Rivals(w)) \cup {Sent(w, f)}
              /\ IF Waits(w)
                 THEN /\ pc' = [pc EXCEPT ![w] = "wait"]
                      /\ UNCHANGED <<out, step>>
                 ELSE Advance(w)
    /\ fee' = [fee EXCEPT ![w] = 0]
    /\ UNCHANGED <<callVars, facts, mined, receipts, try, nonce, expired,
                   settled, faults>>

Receipts(w) ==
    {r \in receipts : r.by = w /\ r.step = step[w] /\ r.try = try[w]}

(* A mined transaction is taken for a successful one. *)
EnsureTransactionEvaledMined(w) ==
    /\ pc[w] = "wait"
    /\ Receipts(w) # {}
    /\ Advance(w)
    /\ UNCHANGED <<callVars, nodeVars, try, nonce, fee, expired,
                   settled, faults>>

(* bind.WaitMined found the receipt. *)
EnsureTransactionEvaled(w) ==
    /\ pc[w] = "wait"
    /\ \E r \in Receipts(w) :
         IF r.ok \/ ~ChecksStatus(w)
         THEN Advance(w)
         ELSE Fail(w) /\ UNCHANGED step
    /\ UNCHANGED <<callVars, nodeVars, try, nonce, fee, expired,
                   settled, faults>>

(* The wait polls for the receipt without watching the context. *)
WaitExpiresNever(w) == FALSE /\ pc[w] = "wait" /\ UNCHANGED writesVars

(* bind.WaitMined returns without a receipt only when the context ends. *)
WaitExpires(w) ==
    /\ pc[w] = "wait" /\ w \in expired /\ Receipts(w) = {}
    /\ Fail(w)
    /\ UNCHANGED <<callVars, nodeVars, step, try, nonce, fee, expired, settled, faults>>

-----------------------------------------------------------------------------
(* External: the node, and whoever cancels the context of an AVS. *)

Mine ==
    \E t \in pool : LET tx == Program(t.by)[t.step] IN
    /\ t.nonce = mined
    /\ mined' = mined + 1
    /\ pool' = pool \ {t}
    /\ \E ok \in BOOLEAN :
         /\ ok => ~Reverts(tx)
         /\ IF ok \/ Reverts(tx)
            THEN UNCHANGED faults
            ELSE faults < MaxFaults /\ faults' = faults + 1
         /\ receipts' = receipts \cup
              {[by |-> t.by, step |-> t.step, try |-> t.try, ok |-> ok]}
         /\ facts' = IF ok THEN (facts \ tx.takes) \cup tx.gives ELSE facts
         /\ settled' = IF ok THEN settled \cup {<<t.by, t.step>>} ELSE settled
    /\ UNCHANGED <<callVars, pc, step, try, nonce, fee, out, expired>>

(* A submission runs under the context of its AVS, not under that of its   *)
(* task: it has no deadline and ends only when the AVS is deregistered or  *)
(* the aggregator stops.                                                   *)
ContextEnds(w) ==
    /\ Retries(w) /\ pc[w] # "done" /\ w \notin expired
    /\ expired' = expired \cup {w}
    /\ UNCHANGED <<callVars, nodeVars, pc, step, try, nonce, fee, out, settled, faults>>

Work(w) ==
    \/ Sleep(w) \/ RequestFails(w) \/ Skip(w) \/ Build(w) \/ Send(w)
    \/ EnsureTransactionEvaled(w) \/ WaitExpires(w)

WritesNext == Mine \/ \E w \in Writers : Work(w) \/ ContextEnds(w)

WritesSpec == WritesInit /\ [][WritesNext]_writesVars

(* Every goroutine is scheduled and the next transaction is mined; nobody  *)
(* needs to cancel a context.                                              *)
WritesFairness ==
    /\ WF_writesVars(Mine)
    /\ \A w \in Writers : WF_writesVars(Work(w))

FairWrites == WritesSpec /\ WritesFairness

-----------------------------------------------------------------------------
(* Properties. *)

(* Every variable has its type; a call never makes more attempts than the  *)
(* retry loop has backoffs.                                                *)
WritesTypeOK ==
    /\ remote \in BOOLEAN /\ call \in CallChoices
    /\ valid \in [Writers -> BOOLEAN]
    /\ pc \in [Writers -> {"build", "send", "wait", "sleep", "done"}]
    /\ try \in [Writers -> 1 .. MaxAttempts]
    /\ \A w \in Writers : step[w] \in 1 .. Len(Program(w))
    /\ nonce \in [Writers -> Nat] /\ mined \in Nat
    /\ out \in [Writers -> {"none", "ok", "error"}]
    /\ \A w \in Writers : out[w] = "none" <=> pc[w] # "done"
    /\ expired \subseteq Writers
    /\ faults \in 0 .. MaxFaults

(* A call that returns success has taken effect, every transaction of it,  *)
(* when its code looks at the status of the receipt (the private-key       *)
(* signer and hgctl do, Web3Signer's SignAndSendTransaction does not) and  *)
(* waits for it (CreateOperatorSets does not).                             *)
SuccessIsOnChain ==
    \A w \in Writers :
        out[w] = "ok" /\ ChecksStatus(w) /\ Waits(w) =>
            \A s \in 1 .. Len(Program(w)) : <<w, s>> \in settled

(* Calls that race for nonces never leave a hole in the account's pending  *)
(* transactions, behind which everything would wait for ever: a refused    *)
(* call gives up its nonce, and the next attempt asks the node again.      *)
NoNonceGap == WritesTypeOK /\ {t.nonce : t \in pool} = mined .. PendingNonceAt - 1

(* The writer waits for a transaction that another one has replaced: no    *)
(* receipt will ever come.                                                 *)
Orphaned(w) ==
    /\ pc[w] = "wait" /\ Receipts(w) = {}
    /\ \A t \in pool : <<t.by, t.step, t.try>> # <<w, step[w], try[w]>>

(* Every submission of a task result ends, whatever is refused, reverted   *)
(* or replaced and however many attempts it needs, unless it comes to wait *)
(* for a replaced transaction and its context lives on: that wait alone    *)
(* lasts for ever.                                                         *)
SubmissionsEnd ==
    \A w \in Writers :
        []<>(Retries(w) => pc[w] = "done" \/ (Orphaned(w) /\ w \notin expired))

=============================================================================
