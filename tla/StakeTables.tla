----------------------------- MODULE StakeTables -----------------------------
(***************************************************************************)
(* Stake tables: how they travel, and what a task session reads of them.   *)
(*                                                                         *)
(* A transporter picks an L1 block, computes the operator tables at it,    *)
(* posts their root on every chain and then the table of our operator set  *)
(* to each chain's certificate verifier.  Several transporters may run:    *)
(* the one of ponos, its copy in hgctl, and the single-operator one; each  *)
(* takes the contracts' ownership and installs its own generator key.      *)
(*                                                                         *)
(* The aggregator reads, for a task created meanwhile, the operators and   *)
(* weights at one L1 block, the operator infos at another, and the tree    *)
(* root from the verifier at the task's block; a certificate carries the   *)
(* reference timestamp of the task's own event.                            *)
(*                                                                         *)
(* Block numbers of L1 stand for timestamps.  Contracts are external.      *)
(***************************************************************************)
EXTENDS Integers, Sequences, FiniteSets, SequencesExt

CONSTANTS
    Ops,            \* operators
    L1, L2,         \* the two chains
    Transports,     \* runs of a transporter
    Ignores,        \* chains each transport is told to ignore
    Registers,      \* operators whose keys each transport registers
    NoTable,        \* what is computed or read where there is no table
    Setups,         \* what the contracts may hold at the first block, and
                    \* how much of MaxFaults is used up
    MaxBlocks,      \* bound: L1 blocks
    MaxFaults       \* bound: failed requests

Chains == {L1, L2}
ChainOrder == <<L1, L2>>

ASSUME TablesAssumption ==
    /\ NoTable \notin Seq(Ops)
    /\ L1 # L2 /\ Chains \cap {"none", "error", "panic"} = {}
    /\ MaxBlocks \in Nat \ {0} /\ MaxFaults \in Nat
    /\ Ignores \in [Transports -> SUBSET Chains]
    /\ Registers \in [Transports -> SUBSET Ops]

(* The registry at a block: the members of our operator set in their       *)
(* order, who has a key and who has weight, and whether the curve is set.  *)
Registries ==
    [members : Seq(Ops), keyed : SUBSET Ops, weighted : SUBSET Ops, curve : BOOLEAN]

(* One of the three transporters each, and the chains that a transporter   *)
(* can have an updater address for.                                        *)
ASSUME SetupsAssumption ==
    \A s \in Setups : /\ s.reserved \in BOOLEAN /\ s.chains \subseteq Chains
                      /\ s.registry \in Registries
                      /\ s.kind \in [Transports -> {"ponos", "hgctl", "single"}]
                      /\ s.faults \in 0 .. MaxFaults

VARIABLES
    curve,      \* the curve of our operator set: "BN254" or "ECDSA"
    reserved,   \* our operator set has a generation reservation
    chains,     \* the chains the cross-chain registry lists
    kind,       \* which transporter each transport runs
    hist,       \* L1 registry contents, by block
    owner,      \* who owns the table updater of each chain
    generator,  \* whose key confirms roots on each chain
    roots,      \* posted roots of each chain, by reference block
    tables,     \* the verifier's tables of our set, by reference block
    pc, at,     \* a transport's stage, and where it is in the stage's loop
    block,      \* the block it chose
    calc,       \* the table it computed
    out,        \* what it returned
    task,       \* the task: what its block holds
    session,    \* what the operator manager gave the session
    faults

setVars == <<curve, reserved, chains, kind>>
chainVars == <<owner, generator, roots, tables>>
runVars == <<pc, at, block, calc, out>>
taskVars == <<task, session>>
tablesVars == <<curve, reserved, chains, kind, hist, owner, generator, roots,
                tables, pc, at, block, calc, out, task, session, faults>>

Now == Len(hist)
Latest(f) == IF DOMAIN f = {} THEN 0
             ELSE CHOOSE b \in DOMAIN f : \A d \in DOMAIN f : d <= b
With(f, b, v) == [d \in DOMAIN f \cup {b} |-> IF d = b THEN v ELSE f[d]]
NoTask == [chain |-> "none"]

(* External: the table calculator lists the members that have weight and a *)
(* registered key, in the order of the membership.                         *)
Counted(r) == {i \in DOMAIN r.members : r.members[i] \in r.weighted \cap r.keyed}
CalculatedTable(r) ==
    [k \in 1 .. Cardinality(Counted(r)) |->
        r.members[CHOOSE i \in Counted(r) :
                    Cardinality({j \in Counted(r) : j <= i}) = k]]

TablesInit ==
    /\ \E s \in Setups : /\ curve = s.curve /\ reserved = s.reserved
                         /\ chains = s.chains /\ hist = <<s.registry>>
                         /\ kind = s.kind /\ faults = s.faults
    /\ owner = [c \in Chains |-> "other"]
    /\ generator = [c \in Chains |-> "other"]
    /\ roots = [c \in Chains |-> <<>>] /\ tables = [c \in Chains |-> <<>>]
    /\ pc = [t \in Transports |-> "block"] /\ at = [t \in Transports |-> 1]
    /\ block = [t \in Transports |-> 0]
    /\ calc = [t \in Transports |-> NoTable]
    /\ out = [t \in Transports |-> "none"]
    /\ task = NoTask /\ session = NoTask

-----------------------------------------------------------------------------
(* The transporters. *)

(* The transporter of ponos chooses its block first, sets everything up    *)
(* and computes the tables of that block last.                             *)
PonosTransport ==
    [stages |-> <<"block", "curve", "keys", "owner", "generator", "root",
                  "global", "tables", "verifier", "done">>,
     warnsOf |-> {"generator"},      \* failures that are only warned of
     mustKnowCurve |-> TRUE]

(* The copy in hgctl configures the curve also when it cannot read it. *)
HgctlTransport == [PonosTransport EXCEPT !.mustKnowCurve = FALSE]

(* The transporter with one operator computes the tables before it         *)
(* installs its generator, and leaves curve and keys of our set alone.     *)
TransportTable ==
    [stages |-> <<"block", "root", "owner", "generator", "global", "tables",
                  "done">>,
     warnsOf |-> {"tables"},
     mustKnowCurve |-> TRUE]

Transporter(t) ==
    CASE kind[t] = "ponos" -> PonosTransport
      [] kind[t] = "hgctl" -> HgctlTransport
      [] kind[t] = "single" -> TransportTable

Stages(t) == Transporter(t).stages
WarnsOf(t, s) == s \in Transporter(t).warnsOf

After(t, s) == LET i == CHOOSE j \in 1 .. Len(Stages(t)) : Stages(t)[j] = s
               IN  Stages(t)[i + 1]

Abort(t) ==
    /\ pc' = [pc EXCEPT ![t] = "done"]
    /\ out' = [out EXCEPT ![t] = "error"]
    /\ UNCHANGED at

Finish(t) ==
    /\ pc' = [pc EXCEPT ![t] = After(t, @)]
    /\ at' = [at EXCEPT ![t] = 1]
    /\ out' = IF After(t, pc[t]) = "done"
              THEN [out EXCEPT ![t] = "ok"] ELSE out

(* The chain a stage's loop is at; chains that the registry does not list  *)
(* are passed over.                                                        *)
Listed(c) == c \in chains
AtChain(t, c) == at[t] <= Len(ChainOrder) /\ c = ChainOrder[at[t]]
LastChain(t) == at[t] = Len(ChainOrder)

(* Go to the next chain, or to the next stage after the last one. *)
NextChain(t) ==
    IF LastChain(t)
    THEN Finish(t)
    ELSE /\ at' = [at EXCEPT ![t] = @ + 1]
         /\ UNCHANGED <<pc, out>>

(* The ownership and the generator of a chain are set in one pass of the   *)
(* same loop.                                                              *)
BackToOwner(t) ==
    IF LastChain(t)
    THEN Finish(t)
    ELSE /\ at' = [at EXCEPT ![t] = @ + 1]
         /\ pc' = [pc EXCEPT ![t] = "owner"]
         /\ UNCHANGED out

(* The multi-operator transport looks for its operator set among the       *)
(* computed ones before it goes through the chains with its table.         *)
OurSetMissing(t) == pc[t] = "tables" /\ ~reserved /\ ~WarnsOf(t, "tables")

PassOver(t) ==
    /\ pc[t] \in {"owner", "global", "tables", "verifier"}
    /\ ~OurSetMissing(t)
    /\ \E c \in Chains :
         /\ AtChain(t, c)
         /\ \/ ~Listed(c)
            \/ c \in Ignores[t] /\ pc[t] \in {"global", "tables"}
    /\ IF pc[t] = "owner" /\ LastChain(t)
       THEN /\ pc' = [pc EXCEPT ![t] = After(t, "generator")]
            /\ at' = [at EXCEPT ![t] = 1]
            /\ UNCHANGED out
       ELSE NextChain(t)
    /\ UNCHANGED <<setVars, hist, chainVars, block, calc, taskVars,
                   faults>>

Due(t, s, c) == pc[t] = s /\ AtChain(t, c) /\ Listed(c)

(* The reference block is the latest one when the transport starts. *)
ChooseBlock(t) ==
    /\ pc[t] = "block"
    /\ block' = [block EXCEPT ![t] = Now]
    /\ Finish(t)
    /\ UNCHANGED <<setVars, hist, chainVars, calc, taskVars, faults>>

(* A request fails where the code returns (or exits) on the error; before  *)
(* a generator is set, getGenerator reads the one in place.                *)
RequestFails(t) ==
    /\ pc[t] \notin {"done", "owner"}
    /\ pc[t] = "tables" => ~WarnsOf(t, "tables")
    /\ faults < MaxFaults
    /\ faults' = faults + 1
    /\ Abort(t)
    /\ UNCHANGED <<setVars, hist, chainVars, block, calc, taskVars>>

InNewBlock(r) == Now < MaxBlocks /\ hist' = Append(hist, r)

(* Nothing is sent when the operator set has its curve. *)
configureCurveTypeAsAVS(t) ==
    /\ pc[t] = "curve"
    /\ \/ hist[Now].curve /\ UNCHANGED hist
       \/ ~hist[Now].curve /\ InNewBlock([hist[Now] EXCEPT !.curve = TRUE])
    /\ Finish(t)
    /\ UNCHANGED <<setVars, chainVars, block, calc, taskVars, faults>>

(* hgctl goes on to configure the set when the answer cannot be decoded;   *)
(* the transaction of a set that has its curve reverts, which is logged.   *)
ConfigureBlindly(t) ==
    /\ pc[t] = "curve" /\ ~Transporter(t).mustKnowCurve
    /\ faults < MaxFaults /\ faults' = faults + 1
    /\ InNewBlock([hist[Now] EXCEPT !.curve = TRUE])
    /\ Finish(t)
    /\ UNCHANGED <<setVars, chainVars, block, calc, taskVars>>

(* IsRegistered; a failed answer counts as no. *)
Unregistered(t) == Registers[t] \ hist[Now].keyed

(* Sent as the operator itself; the registrar refuses a second key and a   *)
(* set without a curve.                                                    *)
RegisterKey(o) ==
    /\ hist[Now].curve
    /\ InNewBlock([hist[Now] EXCEPT !.keyed = @ \cup {o}])

(* Each operator that has no key registers one, in a block of its own. *)
registerOperatorKeys(t) ==
    /\ pc[t] = "keys"
    /\ IF Unregistered(t) = {}
       THEN Finish(t) /\ UNCHANGED hist
       ELSE /\ \E o \in Unregistered(t) : RegisterKey(o)
            /\ UNCHANGED <<pc, at, out>>
    /\ UNCHANGED <<setVars, chainVars, block, calc, taskVars, faults>>

(* The current owner is impersonated; a failure is only logged. *)
transferOwnership(t) ==
    \E c \in Chains :
    /\ Due(t, "owner", c)
    /\ \/ owner' = [owner EXCEPT ![c] = t] /\ UNCHANGED faults
       \/ faults < MaxFaults /\ faults' = faults + 1 /\ UNCHANGED owner
    /\ pc' = [pc EXCEPT ![t] = "generator"]
    /\ UNCHANGED <<setVars, hist, generator, roots, tables, at, block,
                   calc, out, taskVars>>

(* The generator is an operator set of one, which has the transporter's    *)
(* own key.                                                                *)
GeneratorOf(t) == t

(* Only the owner may set the generator.  The multi-operator transport     *)
(* warns and goes on when it cannot, the single-operator one exits.        *)
updateGeneratorFromContext(t) ==
    \E c \in Chains :
    /\ Due(t, "generator", c)
    /\ \/ /\ owner[c] = t
          /\ generator' = [generator EXCEPT ![c] = GeneratorOf(t)]
          /\ BackToOwner(t) /\ UNCHANGED faults
       \/ /\ \/ owner[c] # t /\ UNCHANGED faults
             \/ /\ WarnsOf(t, "generator")
                /\ faults < MaxFaults /\ faults' = faults + 1
          /\ IF WarnsOf(t, "generator") THEN BackToOwner(t) ELSE Abort(t)
          /\ UNCHANGED generator
    /\ UNCHANGED <<setVars, hist, owner, roots, tables, block, calc,
                   taskVars>>

(* Plausible bug: the tables are computed at the latest block. *)
CalculateStakeTableRootNow(t) ==
    /\ pc[t] = "root"
    /\ calc' = [calc EXCEPT ![t] =
                  IF reserved THEN CalculatedTable(hist[Now]) ELSE NoTable]
    /\ Finish(t)
    /\ UNCHANGED <<setVars, hist, chainVars, block, taskVars, faults>>

(* The tables at the chosen block; ours is among them when it is reserved. *)
CalculateStakeTableRoot(t) ==
    /\ pc[t] = "root"
    /\ calc' = [calc EXCEPT ![t] =
                  IF reserved THEN CalculatedTable(hist[block[t]]) ELSE NoTable]
    /\ Finish(t)
    /\ UNCHANGED <<setVars, hist, chainVars, block, taskVars, faults>>

(* A chain accepts a root that is newer than its last one and is signed by *)
(* the generator's key.                                                    *)
RootAccepted(t, c) ==
    generator[c] = GeneratorOf(t) /\ block[t] > Latest(roots[c])

SignAndTransportGlobalTableRoot(t) ==
    \E c \in Chains \ Ignores[t] :
    /\ Due(t, "global", c)
    /\ IF RootAccepted(t, c)
       THEN /\ roots' = [roots EXCEPT ![c] = With(@, block[t], calc[t])]
            /\ NextChain(t)
       ELSE Abort(t) /\ UNCHANGED roots
    /\ UNCHANGED <<setVars, hist, owner, generator, tables, block,
                   calc, taskVars, faults>>

(* A verifier accepts a table that a posted root proves, if it is newer.   *)
Proven(t, c) == block[t] \in DOMAIN roots[c] /\ roots[c][block[t]] = calc[t]
PastTimestamp(t, c) == block[t] <= Latest(tables[c])
WithTable(t, c) == [tables EXCEPT ![c] = With(@, block[t], calc[t])]

OurSetNotFound(t) ==
    /\ OurSetMissing(t)
    /\ Abort(t)
    /\ UNCHANGED <<setVars, hist, chainVars, block, calc, taskVars, faults>>

(* The multi-operator transport returns the error; the other one warns and *)
(* goes on.                                                                *)
SignAndTransportAvsStakeTable(t) ==
    \E c \in Chains \ Ignores[t] :
    /\ Due(t, "tables", c) /\ ~OurSetMissing(t)
    /\ IF reserved /\ Proven(t, c) /\ ~PastTimestamp(t, c)
       THEN tables' = WithTable(t, c) /\ NextChain(t)
       ELSE /\ UNCHANGED tables
            /\ IF WarnsOf(t, "tables") THEN NextChain(t) ELSE Abort(t)
    /\ UNCHANGED <<setVars, hist, owner, generator, roots, block,
                   calc, taskVars, faults>>

(* TransportTable warns also of a failed request. *)
TableRequestFails(t) ==
    /\ pc[t] = "tables" /\ WarnsOf(t, "tables") /\ faults < MaxFaults
    /\ faults' = faults + 1
    /\ NextChain(t)
    /\ UNCHANGED <<setVars, hist, chainVars, block, calc, taskVars>>

(* Plausible bug: any refusal is taken for "already updated". *)
updateOperatorTableInVerifierLax(t) ==
    \E c \in Chains :
    /\ Due(t, "verifier", c)
    /\ tables' = IF Proven(t, c) /\ ~PastTimestamp(t, c)
                 THEN WithTable(t, c) ELSE tables
    /\ NextChain(t)
    /\ UNCHANGED <<setVars, hist, owner, generator, roots, block,
                   calc, taskVars, faults>>

(* TableUpdateForPastTimestamp counts as success; it is raised before the  *)
(* proof is looked at.                                                     *)
updateOperatorTableInVerifier(t) ==
    \E c \in Chains :
    /\ Due(t, "verifier", c)
    /\ IF PastTimestamp(t, c)
       THEN NextChain(t) /\ UNCHANGED tables
       ELSE IF Proven(t, c)
            THEN tables' = WithTable(t, c) /\ NextChain(t)
            ELSE Abort(t) /\ UNCHANGED tables
    /\ UNCHANGED <<setVars, hist, owner, generator, roots, block,
                   calc, taskVars, faults>>

Transport(t) ==
    \/ ChooseBlock(t) \/ PassOver(t) \/ RequestFails(t)
    \/ configureCurveTypeAsAVS(t) \/ ConfigureBlindly(t)
    \/ registerOperatorKeys(t)
    \/ transferOwnership(t) \/ updateGeneratorFromContext(t)
    \/ CalculateStakeTableRoot(t) \/ SignAndTransportGlobalTableRoot(t)
    \/ OurSetNotFound(t) \/ SignAndTransportAvsStakeTable(t)
    \/ TableRequestFails(t)
    \/ updateOperatorTableInVerifier(t)

-----------------------------------------------------------------------------
(* What the aggregator reads for a task.  All reads are of the state at    *)
(* fixed blocks, so they do not depend on when they are made.              *)

(* Plausible bug: the latest L1 block, also for a task on L2. *)
getL1BlockForAnyBlock(k) == k.block

(* The L1 block whose registry gives operators and weights. *)
getL1BlockForChainBlock(k) == IF k.chain = L1 THEN k.block ELSE k.root

WeightsAt(b) == Range(hist[b].members) \cap hist[b].weighted

(* GetMembers, with each member's position; a member without a key, or in  *)
(* a set without a curve, leaves a nil entry behind.                       *)
HasDetails(o, b) == hist[b].curve /\ o \in hist[b].keyed
NilEntries(b) == {i \in DOMAIN hist[b].members :
                    ~HasDetails(hist[b].members[i], b)}
Peers(b) == {[op |-> hist[b].members[i], index |-> i] :
               i \in DOMAIN hist[b].members}

filterOperatorsForSet(peers, weights) == {p \in peers : p.op \in weights}

(* The updater of the task's chain must be listed. *)
HasUpdater(k) == k.chain \in chains

(* The root is the verifier's for the chain's last reference timestamp; it *)
(* is empty when that table has not arrived.                               *)
GetOperatorInfoTreeRoot(k) ==
    IF k.root \in DOMAIN k.tables THEN k.tables[k.root] ELSE NoTable

(* Plausible bug: the infos of the block the weights are read at. *)
GetOperatorInfosOfWeights(k) ==
    CalculatedTable(hist[getL1BlockForChainBlock(k)])

GetOperatorInfos(k) == CalculatedTable(hist[k.root])

PeersForTask(k) ==
    LET b == getL1BlockForChainBlock(k)
        bn == curve = "BN254"
    IN  [chain |-> k.chain,
         ts |-> k.ts,
         weights |-> WeightsAt(b),
         operators |-> filterOperatorsForSet(Peers(b), WeightsAt(b)),
         infos |-> IF bn THEN GetOperatorInfos(k) ELSE <<>>,
         root |-> IF bn THEN GetOperatorInfoTreeRoot(k) ELSE NoTable]

(* The variant for a block takes the timestamp of the last posted root. *)
PeersForBlock(k) ==
    [PeersForTask(k) EXCEPT !.ts = k.root]

(* At block 0 there are no contracts; an empty set is an error. *)
CanRead(k) ==
    LET b == getL1BlockForChainBlock(k)
    IN  /\ HasUpdater(k) /\ b > 0
        /\ curve = "BN254" => k.root > 0
        /\ hist[b].members # <<>>

GetExecutorPeersAndWeightsForTask ==
    /\ task # NoTask /\ session = NoTask
    /\ LET b == getL1BlockForChainBlock(task)
       IN  \/ /\ ~CanRead(task) /\ UNCHANGED faults
              /\ session' = [chain |-> "error"]
           \/ /\ faults < MaxFaults /\ faults' = faults + 1
              /\ session' = [chain |-> "error"]
           \/ /\ CanRead(task) /\ UNCHANGED faults
              /\ session' =
                   IF NilEntries(b) # {} THEN [chain |-> "panic"]
                   ELSE IF PeersForTask(task).operators = {}
                        THEN [chain |-> "error"]
                        ELSE PeersForTask(task)
    /\ UNCHANGED <<setVars, hist, chainVars, runVars, task>>

-----------------------------------------------------------------------------
(* External: operators, the registry, and the mailbox. *)

Successors(r) ==
    {[r EXCEPT !.members = Append(@, o)] : o \in Ops \ Range(r.members)}
    \cup {[r EXCEPT !.members = RemoveAt(@, i)] : i \in DOMAIN r.members}
    \cup {[r EXCEPT !.weighted = (@ \ {o}) \cup ({o} \ @)] : o \in Ops}

RegistryChanges ==
    /\ \E r \in Successors(hist[Now]) : InNewBlock(r)
    /\ UNCHANGED <<setVars, chainVars, runVars, taskVars, faults>>

(* The event carries the timestamp of the last table of the set. *)
CreateTask(c) ==
    /\ task = NoTask
    /\ task' = [chain |-> c, block |-> Now, ts |-> Latest(tables[c]),
                root |-> Latest(roots[c]), tables |-> tables[c]]
    /\ UNCHANGED <<setVars, hist, chainVars, runVars, session, faults>>

TablesNext ==
    \/ \E t \in Transports : Transport(t)
    \/ \E c \in Chains : CreateTask(c)
    \/ GetExecutorPeersAndWeightsForTask
    \/ RegistryChanges

TablesSpec == TablesInit /\ [][TablesNext]_tablesVars

-----------------------------------------------------------------------------
(* Properties. *)

(* The reference blocks of tables were posted, and a loop over chains is   *)
(* never past its end.                                                     *)
TablesTypeOK ==
    /\ Now \in 1 .. MaxBlocks /\ hist \in Seq(Registries)
    /\ owner \in [Chains -> Transports \cup {"other"}]
    /\ generator \in [Chains -> Transports \cup {"other"}]
    /\ \A c \in Chains : /\ DOMAIN roots[c] \subseteq 1 .. Now
                         /\ DOMAIN tables[c] \subseteq DOMAIN roots[c]
    /\ \A t \in Transports : /\ at[t] \in 1 .. Len(ChainOrder)
                             /\ pc[t] \in Range(Stages(t))
                             /\ pc[t] = "done" <=> out[t] # "none"
    /\ faults \in 0 .. MaxFaults

Given == session.chain \in Chains

(* When a session has a tree root at all, it is the root of the operator   *)
(* infos the session carries, and the certificate's timestamp, the one of  *)
(* the task's event, is that of the root (as in the variant for a block):  *)
(* the Merkle proofs built of them verify, although the three come from    *)
(* different blocks and chains while tables are moving.                    *)
ProofsMatchCertificate ==
    Given /\ session.root # NoTable =>
        /\ session.root = session.infos
        /\ session = PeersForBlock(task)

(* On L2 the operators and weights are those of the transported table, and *)
(* an operator's index is the position of its leaf, if every member of the *)
(* set had weight; on L1 only when the registry did not change since.      *)
IndexNamesItsLeaf ==
    LET b == getL1BlockForChainBlock(task)
    IN  Given /\ curve = "BN254"
        /\ Range(hist[b].members) \subseteq hist[b].weighted
        /\ (task.chain = L1 => \A d \in task.root .. b : hist[d] = hist[b]) =>
            \A p \in session.operators :
                p.index \in DOMAIN session.infos /\ session.infos[p.index] = p.op

(* A multi-operator transport that returns success has left, on every      *)
(* chain it went through, its table or a newer one: also when another      *)
(* transport took the ownership or the generator between two of its steps. *)
SuccessMeansTable ==
    \A t \in Transports :
        "verifier" \in Range(Stages(t)) /\ out[t] = "ok" =>
            \A c \in chains : block[t] <= Latest(tables[c])

(* What a verifier holds for a reference block is the table of the         *)
(* registry at that block, whoever transported it and however long it      *)
(* took.                                                                   *)
TableIsOfItsBlock ==
    TablesTypeOK /\ \A c \in Chains : \A b \in DOMAIN tables[c] :
        tables[c][b] = CalculatedTable(hist[b])

=============================================================================
