----------------------------- MODULE TaskSession -----------------------------
(***************************************************************************)
(* One task session of the aggregator (ponos/pkg/taskSession): Process     *)
(* starts Broadcast, which sends the task to every operator from a         *)
(* goroutine of its own, feeds the answers to the result aggregator and    *)
(* stops at the first answer that makes the winning digest reach the       *)
(* threshold.                                                              *)
(*                                                                         *)
(* resultsChan has one slot per operator, so no sender ever blocks, and    *)
(* the goroutines race to fill it: it is the set of answers not yet read.  *)
(***************************************************************************)
EXTENDS ResultAggregator

CONSTANTS Bn254,        \* TRUE: BN254 session, FALSE: ECDSA session
          RpcMayFail    \* TRUE: the L1 calls of ProcessNewSignature may fail

ASSUME SessionAssumption == Bn254 \in BOOLEAN /\ RpcMayFail \in BOOLEAN

VARIABLES peer,         \* the goroutine talking to every operator
          results,      \* resultsChan
          contextDone,  \* ts.context is done
          broadcast,    \* state of the Broadcast goroutine
          certificate,  \* what it put on certChan
          outcome       \* what Process returned

sessionVars == <<peer, results, contextDone, broadcast, certificate, outcome>>
vars == <<aggVars, sessionVars>>

NoCertificate == [digest |-> NoDigest, signers |-> {}, nonSigners |-> {}]

Init ==
    /\ AggInit
    /\ peer = [o \in Operators |-> "waiting"]
    /\ results = {}
    /\ contextDone = FALSE
    /\ broadcast = "collecting"
    /\ certificate = NoCertificate
    /\ outcome = "running"

-----------------------------------------------------------------------------
(* The goroutine of operator o ends without a result: no socket, no        *)
(* client, no signature, SubmitTask failed or was cancelled, the answer    *)
(* names another operator, or its output is too large.                     *)
PeerFails(o) ==
    /\ peer[o] = "waiting"
    /\ peer' = [peer EXCEPT ![o] = "failed"]
    /\ UNCHANGED <<aggVars, results, contextDone, broadcast, certificate, outcome>>

(* SubmitTask returns an answer that names operator o (in some letter      *)
(* case) and is small enough; its content is up to the executor.           *)
PeerAnswers(o) ==
    /\ peer[o] = "waiting"
    /\ peer' = [peer EXCEPT ![o] = "answered"]
    /\ \E r \in TaskResults : r.operator = o /\ results' = results \cup {r}
    /\ UNCHANGED <<aggVars, contextDone, broadcast, certificate, outcome>>

(* The Broadcast loop reads an answer that ProcessNewSignature accepts,    *)
(* and ends with a certificate when that makes the threshold.              *)
AcceptResult(r) ==
    /\ broadcast = "collecting"
    /\ r \in results
    /\ Acceptable(r)
    /\ results' = results \ {r}
    /\ AddSignature(r)
    /\ IF SigningThresholdMet(groups', winningDigest')
       THEN /\ certificate' = GenerateFinalCertificate(groups', winningDigest', Bn254)
            /\ broadcast' = "certified"
       ELSE UNCHANGED <<certificate, broadcast>>
    /\ UNCHANGED <<peer, contextDone, outcome>>

(* The loop reads an answer and skips it ("continue"): it does not pass    *)
(* the checks, or the call to the L1 node needed to check it fails, as it  *)
(* does once the session's context, which it is made under, is done.       *)
SkipResult(r) ==
    /\ broadcast = "collecting"
    /\ r \in results
    /\ ~Acceptable(r) \/ RpcMayFail \/ contextDone
    /\ results' = results \ {r}
    /\ UNCHANGED <<aggVars, peer, contextDone, broadcast, certificate, outcome>>

(* The loop takes the ctx.Done() branch. *)
BroadcastStops ==
    /\ broadcast = "collecting"
    /\ contextDone
    /\ broadcast' = "stopped"
    /\ UNCHANGED <<aggVars, peer, results, contextDone, certificate, outcome>>

(* The context of the AVS, under which the session runs, is cancelled. *)
ContextDone ==
    /\ ~contextDone
    /\ contextDone' = TRUE
    /\ UNCHANGED <<aggVars, peer, results, broadcast, certificate, outcome>>

(* Process: the two branches of its select. *)
ReturnCertificate ==
    /\ outcome = "running"
    /\ broadcast = "certified"
    /\ outcome' = "certificate"
    /\ UNCHANGED <<aggVars, peer, results, contextDone, broadcast, certificate>>

ReturnContextError ==
    /\ outcome = "running"
    /\ contextDone
    /\ outcome' = "error"
    /\ UNCHANGED <<aggVars, peer, results, contextDone, broadcast, certificate>>

Next ==
    \/ \E o \in Operators : PeerFails(o) \/ PeerAnswers(o)
    \/ \E r \in results : AcceptResult(r) \/ SkipResult(r)
    \/ BroadcastStops
    \/ ContextDone
    \/ ReturnCertificate
    \/ ReturnContextError

(* The two goroutines of the session keep running; executors owe nothing. *)
Fairness ==
    /\ WF_vars(BroadcastStops \/ \E r \in results : AcceptResult(r) \/ SkipResult(r))
    /\ WF_vars(ReturnCertificate \/ ReturnContextError)

Spec == Init /\ [][Next]_vars
FairSpec == Spec /\ Fairness

-----------------------------------------------------------------------------
(* Types of the aggregator's maps, the channel and the goroutines' states. *)
TypeOK ==
    /\ AggTypeOK
    /\ peer \in [Operators -> {"waiting", "failed", "answered"}]
    /\ results \in SUBSET TaskResults
    /\ contextDone \in BOOLEAN
    /\ broadcast \in {"collecting", "certified", "stopped"}
    /\ certificate \in Certificates \cup {NoCertificate}
    /\ outcome \in {"running", "certificate", "error"}

(* The weight accumulated for a digest (currentWeight) is the stake of the *)
(* distinct operators that signed it: no operator is counted twice, in     *)
(* whatever letter case it answers and in whatever order answers arrive.   *)
StakeCountedOnce ==
    \A d \in Digests :
        groups[d].weight = StakeOf[OperatorsOf(groups[d].signers)]

(* The tracked winner is the heaviest digest and winningWeight its weight, *)
(* although updateWinningResponse only looks at the group that just grew.  *)
WinnerIsHeaviest ==
    IF winningDigest = NoDigest
    THEN received = {}
    ELSE /\ groups[winningDigest].signers # {}
         /\ winningWeight = groups[winningDigest].weight
         /\ \A d \in Digests : groups[d].weight <= winningWeight

(* updateWinningResponse compares only the group that just grew, yet while *)
(* the session is still collecting no digest has a quorum: a digest cannot *)
(* reach the threshold without the loop noticing.                          *)
NoQuorumMissed ==
    broadcast = "collecting" /\ TotalStake # 0 =>
        \A d \in Digests :
            groups[d].signers # {} => groups[d].weight < ThresholdStake

(* A certificate is backed by the stake it needs, and its signers are      *)
(* operators whose verified answers carry exactly its digest.              *)
CertificateBacked ==
    broadcast = "certified" =>
        /\ certificate.digest \in Digests
        /\ certificate.signers = OperatorsOf(groups[certificate.digest].signers)
        /\ StakeOf[certificate.signers] >= ThresholdStake

(* Operators known (answer in resultsChan or already counted) to have      *)
(* signed d with a verifiable answer.                                      *)
Answered(d) ==
    {o \in Operators :
        \/ \E r \in results : r.operator = o /\ r.fault = "none" /\ r.digest = d
        \/ \E s \in Spellings : <<o, s>> \in groups[d].signers}

(* Once answers worth a quorum for one digest have arrived, the session    *)
(* returns: it does not wait for the remaining operators, and a winner     *)
(* among conflicting digests is found.  (False when an L1 call fails: the  *)
(* answer it concerned is dropped for good.)                               *)
QuorumReturns ==
    (\E d \in Digests : TotalStake # 0 /\ StakeOf[Answered(d)] >= ThresholdStake
                        /\ Answered(d) # {})
        ~> outcome # "running"

(* The session implements the abstract quorum certificate: what an         *)
(* operator signed is the digest of the group it is in.                    *)
SignedBy(o) ==
    IF \E d \in Digests : o \in OperatorsOf(groups[d].signers)
    THEN CHOOSE d \in Digests : o \in OperatorsOf(groups[d].signers)
    ELSE NoDigest

QC == INSTANCE QuorumCertificate WITH
        signed    <- [o \in Operators |-> SignedBy(o)],
        certified <- certificate.digest,
        Threshold <- ThresholdStake

ImplementsQuorumCertificate == QC!QCSpec
=============================================================================
