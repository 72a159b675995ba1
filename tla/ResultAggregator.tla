--------------------------- MODULE ResultAggregator ---------------------------
(***************************************************************************)
(* The signature aggregation of one task                                   *)
(* (ponos/pkg/signing/aggregation): operators' answers are grouped by the  *)
(* digest they signed, the stake behind every digest is accumulated, and   *)
(* the heaviest digest is tracked as the winner.                           *)
(*                                                                         *)
(* A digest stands for an output: CalculateTaskMessageHash is injective    *)
(* up to hash collisions.  An address is a pair <<operator, spelling>>:    *)
(* operators are looked up with strings.EqualFold, but the Go maps are     *)
(* keyed by the exact string the executor put in its answer.               *)
(***************************************************************************)
EXTENDS Integers, FiniteSets

CONSTANTS Operators,      \* the operators selected for the task
          Digests,        \* the output digests operators may sign
          NoDigest,       \* "no digest yet", a value outside Digests
          Spellings,      \* letter cases an address may be written in
          TableSpelling,  \* the one the operator table (the chain) uses
          Weight,         \* Weights[0] of every operator
          StakeOf,        \* the stake of a set of operators
          ThresholdBips   \* required share of the stake, in 1/10000

(* The constructor's checks (ErrNoOperatorAddresses, ErrInvalidThreshold). *)
ASSUME AggregatorAssumption ==
    /\ Operators # {} /\ IsFiniteSet(Operators)
    /\ NoDigest \notin Digests
    /\ TableSpelling \in Spellings
    /\ Weight \in [Operators -> Nat]
    /\ ThresholdBips \in 1..10000

(* StakeOf sums Weight over a set.  It is given by the equations that      *)
(* determine it, so that the proofs can use them.                          *)
ASSUME StakeOfAssumption ==
    /\ StakeOf \in [SUBSET Operators -> Nat]
    /\ StakeOf[{}] = 0
    /\ \A S \in SUBSET Operators : \A o \in Operators \ S :
          StakeOf[S \cup {o}] = StakeOf[S] + Weight[o]

VARIABLES received,       \* keys of ReceivedSignatures: addresses heard from
          groups,         \* digestGroups: signers and currentWeight by digest
          winningDigest,
          winningWeight

aggVars == <<received, groups, winningDigest, winningWeight>>

-----------------------------------------------------------------------------
Addresses == Operators \X Spellings

(* What ProcessNewSignature distinguishes in a TaskResult: the claimed     *)
(* address, the digest of the output, and the first check it would fail.   *)
Faults == {"none", "taskId", "operatorSet", "signature"}
TaskResults ==
    [operator : Operators, spelling : Spellings, digest : Digests, fault : Faults]

Address(r) == <<r.operator, r.spelling>>

(* Operators behind a set of addresses. *)
OperatorsOf(addresses) == {a[1] : a \in addresses}

TotalStake == StakeOf[Operators]

(* thresholdStake: the product is divided by Quo, which rounds down. *)
ThresholdStake == (TotalStake * ThresholdBips) \div 10000

AggInit ==
    /\ received = {}
    /\ groups = [d \in Digests |-> [signers |-> {}, weight |-> 0]]
    /\ winningDigest = NoDigest
    /\ winningWeight = 0

(* The two signatures of an answer: over the certificate digest, and over  *)
(* the answer's own fields.                                                *)
VerifyResponseSignature(r) == r.fault # "signature"

(* The checks of ProcessNewSignature before it records anything; an        *)
(* operator is heard once per spelling of its address.                     *)
Acceptable(r) ==
    /\ r.fault \notin {"taskId", "operatorSet"}
    /\ VerifyResponseSignature(r)
    /\ Address(r) \notin received

(* The group of the signed digest, created on its first signature, with    *)
(* the signer and its weight added.                                        *)
GrownGroup(r) ==
    [signers |-> groups[r.digest].signers \cup {Address(r)},
     weight  |-> groups[r.digest].weight + Weight[r.operator]]

(* Whether a group that grew takes the lead: there is no winner yet, or it *)
(* is strictly heavier (a tie leaves the winner).                          *)
updateWinningResponse(group) ==
    winningDigest = NoDigest \/ group.weight > winningWeight

(* Slip: the first digest stays the winner. *)
AddSignatureFirstWins(r) ==
    LET new == GrownGroup(r)
        leads == winningDigest = NoDigest
    IN  /\ received' = received \cup {Address(r)}
        /\ groups' = [groups EXCEPT ![r.digest] = new]
        /\ winningDigest' = IF leads THEN r.digest ELSE winningDigest
        /\ winningWeight' = IF leads THEN new.weight ELSE winningWeight

(* The part of ProcessNewSignature that records an accepted signature:     *)
(* the map entry, the digest group with its weight, updateWinningResponse. *)
AddSignature(r) ==
    LET new == GrownGroup(r)
        leads == updateWinningResponse(new)
    IN  /\ received' = received \cup {Address(r)}
        /\ groups' = [groups EXCEPT ![r.digest] = new]
        /\ winningDigest' = IF leads THEN r.digest ELSE winningDigest
        /\ winningWeight' = IF leads THEN new.weight ELSE winningWeight

(* Slip: the threshold itself does not count. *)
AboveThreshold(grps, winner) ==
    /\ winner # NoDigest
    /\ TotalStake # 0
    /\ grps[winner].weight > ThresholdStake

(* SigningThresholdMet, on a given state of the groups and the winner. *)
SigningThresholdMet(grps, winner) ==
    /\ winner # NoDigest
    /\ TotalStake # 0
    /\ grps[winner].weight >= ThresholdStake

(* The ECDSA certificate only maps the signers' table addresses to their   *)
(* signatures; the contract sees everybody else as a non-signer.           *)
EcdsaNonSigners(group) == Operators \ OperatorsOf(group.signers)

(* GenerateFinalCertificate.  The BN254 variant lists as non-signers the   *)
(* operators whose table address is not a key of the winning group: one    *)
(* that signed in another letter case is both a signer and a non-signer.   *)
GenerateFinalCertificate(grps, winner, bn254) ==
    [digest     |-> winner,
     signers    |-> OperatorsOf(grps[winner].signers),
     nonSigners |-> IF bn254
                    THEN {o \in Operators :
                            <<o, TableSpelling>> \notin grps[winner].signers}
                    ELSE EcdsaNonSigners(grps[winner])]

Certificates ==
    [digest : Digests, signers : SUBSET Operators, nonSigners : SUBSET Operators]

AggTypeOK ==
    /\ received \in SUBSET Addresses
    /\ groups \in [Digests -> [signers : SUBSET Addresses, weight : Nat]]
    /\ winningDigest \in Digests \cup {NoDigest}
    /\ winningWeight \in Nat
=============================================================================
