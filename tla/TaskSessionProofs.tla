-------------------------- MODULE TaskSessionProofs --------------------------
(***************************************************************************)
(* Proofs about a task session, for any operators, stakes, threshold and   *)
(* number of conflicting digests; and, further below, about the stake      *)
(* tables that its operators, weights and tree root are read from.         *)
(***************************************************************************)
EXTENDS TaskSession, StakeTables, FiniteSetTheorems, TLAPS

(* Every operator's goroutine delivers at most one answer, which is either *)
(* waiting in resultsChan or has been counted, in exactly one group.       *)
AnswersOnce ==
    /\ \A r \in results : peer[r.operator] = "answered"
    /\ \A r1, r2 \in results : r1.operator = r2.operator => r1 = r2
    /\ \A r \in results, a \in received : r.operator # a[1]
    /\ \A a \in received : peer[a[1]] = "answered"
    /\ \A a, b \in received : a[1] = b[1] => a = b

GroupsPartition ==
    /\ \A d \in Digests : groups[d].signers \subseteq received
    /\ \A a \in received : \E d \in Digests : a \in groups[d].signers
    /\ \A d, e \in Digests :
          groups[d].signers \cap groups[e].signers # {} => d = e

CertificateState ==
    broadcast # "certified" => certificate = NoCertificate

(* The inductive invariant of the session. *)
IInv ==
    /\ TypeOK
    /\ AnswersOnce
    /\ GroupsPartition
    /\ StakeCountedOnce
    /\ WinnerIsHeaviest
    /\ NoQuorumMissed
    /\ CertificateBacked
    /\ CertificateState

-----------------------------------------------------------------------------
LEMMA ThresholdType == TotalStake \in Nat /\ ThresholdStake \in Nat
<1>1. TotalStake \in Nat
  BY StakeOfAssumption DEF TotalStake
<1>2. ThresholdBips \in Nat
  BY AggregatorAssumption
<1>3. TotalStake * ThresholdBips \in Nat
  BY <1>1, <1>2
<1>4. ThresholdStake \in Nat
  BY <1>3 DEF ThresholdStake
<1> QED
  BY <1>1, <1>4

LEMMA InitIInv == Init => IInv
<1> SUFFICES ASSUME Init PROVE IInv
  OBVIOUS
<1> USE AggregatorAssumption, StakeOfAssumption DEF Init, AggInit
<1>1. TypeOK
  <2>1. groups \in [Digests -> [signers : SUBSET Addresses, weight : Nat]]
    OBVIOUS
  <2>2. AggTypeOK
    BY <2>1 DEF AggTypeOK
  <2>3. peer \in [Operators -> {"waiting", "failed", "answered"}]
    OBVIOUS
  <2>4. results \in SUBSET TaskResults /\ contextDone \in BOOLEAN
    OBVIOUS
  <2>5. certificate \in Certificates \cup {NoCertificate}
    OBVIOUS
  <2> QED
    BY <2>2, <2>3, <2>4, <2>5 DEF TypeOK
<1>2. AnswersOnce /\ GroupsPartition
  BY DEF AnswersOnce, GroupsPartition
<1>3. StakeCountedOnce
  <2>1. OperatorsOf({}) = {}
    BY DEF OperatorsOf
  <2> SUFFICES ASSUME NEW d \in Digests
               PROVE  groups[d].weight = StakeOf[OperatorsOf(groups[d].signers)]
    BY DEF StakeCountedOnce
  <2>2. groups[d].signers = {} /\ groups[d].weight = 0
    OBVIOUS
  <2>3. StakeOf[{}] = 0
    BY StakeOfAssumption
  <2> QED
    BY ONLY <2>1, <2>2, <2>3, Zenon
<1>4. WinnerIsHeaviest /\ NoQuorumMissed
  BY DEF WinnerIsHeaviest, NoQuorumMissed
<1>5. CertificateBacked /\ CertificateState
  BY DEF CertificateBacked, CertificateState
<1> QED
  BY <1>1, <1>2, <1>3, <1>4, <1>5 DEF IInv

-----------------------------------------------------------------------------
(* What AcceptResult does to the aggregator, in the terms of the proofs.   *)
LEMMA AcceptFacts ==
    ASSUME IInv, NEW r \in results, AcceptResult(r)
    PROVE  LET a == Address(r)
               d == r.digest
               old == groups[d]
           IN  /\ r \in TaskResults /\ a \in Addresses /\ d \in Digests
               /\ a[1] = r.operator /\ r.operator \in Operators
               /\ a \notin received
               /\ \A b \in received : b[1] # r.operator
               /\ received' = received \cup {a}
               /\ groups' \in [Digests -> [signers : SUBSET Addresses, weight : Nat]]
               /\ groups'[d].signers = old.signers \cup {a}
               /\ groups'[d].weight = old.weight + Weight[r.operator]
               /\ \A e \in Digests \ {d} : groups'[e] = groups[e]
               /\ Weight[r.operator] \in Nat
<1> USE DEF IInv
<1>1. r \in TaskResults
  BY DEF TypeOK
<1>2. /\ Address(r) = <<r.operator, r.spelling>>
      /\ r.operator \in Operators /\ r.spelling \in Spellings /\ r.digest \in Digests
  BY <1>1 DEF Address, TaskResults
<1>3. Address(r) \in Addresses /\ Address(r)[1] = r.operator
  BY <1>2 DEF Addresses
<1>4. /\ Address(r) \notin received
      /\ received' = received \cup {Address(r)}
  BY DEF AcceptResult, Acceptable, AddSignature
<1>5. \A b \in received : b[1] # r.operator
  BY DEF AnswersOnce
<1>6. groups \in [Digests -> [signers : SUBSET Addresses, weight : Nat]]
  BY DEF TypeOK, AggTypeOK
<1>7. Weight[r.operator] \in Nat
  BY <1>2, AggregatorAssumption
<1>8. groups' = [groups EXCEPT ![r.digest] =
                   [signers |-> groups[r.digest].signers \cup {Address(r)},
                    weight  |-> groups[r.digest].weight + Weight[r.operator]]]
  BY DEF AcceptResult, AddSignature, GrownGroup, updateWinningResponse
<1>9. /\ groups[r.digest].signers \in SUBSET Addresses
      /\ groups[r.digest].weight \in Nat
  BY <1>2, <1>6
<1>10. [signers |-> groups[r.digest].signers \cup {Address(r)},
        weight  |-> groups[r.digest].weight + Weight[r.operator]]
          \in [signers : SUBSET Addresses, weight : Nat]
  BY <1>3, <1>7, <1>9
<1>11. groups' \in [Digests -> [signers : SUBSET Addresses, weight : Nat]]
  BY <1>2, <1>6, <1>8, <1>10
<1>12. /\ groups'[r.digest].signers = groups[r.digest].signers \cup {Address(r)}
       /\ groups'[r.digest].weight = groups[r.digest].weight + Weight[r.operator]
       /\ \A e \in Digests \ {r.digest} : groups'[e] = groups[e]
  BY <1>2, <1>6, <1>8
<1> QED
  BY <1>1, <1>2, <1>3, <1>4, <1>5, <1>7, <1>11, <1>12

(* Counting the answer adds the operator's stake to its digest's group. *)
LEMMA AcceptStake ==
    ASSUME IInv, NEW r \in results, AcceptResult(r)
    PROVE  StakeCountedOnce'
<1> DEFINE d == r.digest
           S == OperatorsOf(groups[d].signers)
<1> SUFFICES ASSUME NEW e \in Digests
             PROVE  groups'[e].weight = StakeOf[OperatorsOf(groups'[e].signers)]
  BY DEF StakeCountedOnce
<1>0. groups[e].weight = StakeOf[OperatorsOf(groups[e].signers)]
  BY DEF IInv, StakeCountedOnce
<1>1. CASE e # d
  <2>1. groups'[e] = groups[e]
    BY <1>1, AcceptFacts
  <2> QED
    BY ONLY <1>0, <2>1, Zenon
<1>2. CASE e = d
  <2>1. S \in SUBSET Operators
    BY AcceptFacts DEF IInv, TypeOK, AggTypeOK, OperatorsOf, Addresses
  <2>2. r.operator \in Operators \ S
    BY AcceptFacts DEF IInv, GroupsPartition, OperatorsOf
  <2>3. OperatorsOf(groups'[d].signers) = S \cup {r.operator}
    BY AcceptFacts DEF OperatorsOf
  <2>4. StakeOf[S \cup {r.operator}] = StakeOf[S] + Weight[r.operator]
    BY <2>1, <2>2, StakeOfAssumption
  <2>5. groups[d].weight = StakeOf[S]
    BY ONLY <1>0, <1>2, Zenon
  <2>6. groups'[d].weight = StakeOf[S] + Weight[r.operator]
    BY <2>5, AcceptFacts
  <2> HIDE DEF d, S
  <2>7. groups'[d].weight = StakeOf[S \cup {r.operator}]
    BY ONLY <2>4, <2>6, Zenon
  <2>8. groups'[d].weight = StakeOf[OperatorsOf(groups'[d].signers)]
    BY ONLY <2>3, <2>7, Zenon
  <2> QED
    BY ONLY <2>8, <1>2, Zenon
<1> QED
  BY <1>1, <1>2

(* The group that grew becomes the winner exactly when it is the heaviest. *)
LEMMA AcceptWinner ==
    ASSUME IInv, NEW r \in results, AcceptResult(r)
    PROVE  /\ WinnerIsHeaviest'
           /\ winningDigest' \in Digests
           /\ winningWeight' \in Nat
<1> DEFINE d == r.digest
           w == groups[d].weight + Weight[r.operator]
           leads == winningDigest = NoDigest \/ w > winningWeight
<1>1. /\ winningDigest' = IF leads THEN d ELSE winningDigest
      /\ winningWeight' = IF leads THEN w ELSE winningWeight
  BY DEF AcceptResult, AddSignature, GrownGroup, updateWinningResponse
<1>2. d \in Digests /\ NoDigest \notin Digests
  BY AcceptFacts, AggregatorAssumption
<1>3. /\ winningDigest \in Digests \cup {NoDigest}
      /\ winningWeight \in Nat
      /\ \A e \in Digests : groups[e].weight \in Nat
  BY DEF IInv, TypeOK, AggTypeOK
<1>4. w \in Nat /\ w >= groups[d].weight
  BY <1>2, <1>3, AcceptFacts
<1>5. /\ groups'[d].weight = w
      /\ groups'[d].signers # {}
      /\ \A e \in Digests \ {d} : groups'[e] = groups[e]
  BY AcceptFacts
<1>6. winningDigest = NoDigest => \A e \in Digests : groups[e].weight = 0
  <2> SUFFICES ASSUME winningDigest = NoDigest, NEW e \in Digests
               PROVE  groups[e].weight = 0
    OBVIOUS
  <2>1. groups[e].signers = {}
    BY DEF IInv, WinnerIsHeaviest, GroupsPartition
  <2>2. OperatorsOf({}) = {}
    BY DEF OperatorsOf
  <2>3. groups[e].weight = StakeOf[OperatorsOf(groups[e].signers)]
    BY DEF IInv, StakeCountedOnce
  <2>4. StakeOf[{}] = 0
    BY StakeOfAssumption
  <2> QED
    BY ONLY <2>1, <2>2, <2>3, <2>4, Zenon
<1>7. winningDigest # NoDigest =>
         /\ groups[winningDigest].signers # {}
         /\ winningWeight = groups[winningDigest].weight
         /\ \A e \in Digests : groups[e].weight <= winningWeight
  BY DEF IInv, WinnerIsHeaviest
<1>8. CASE leads
  <2>1. winningDigest' = d /\ winningWeight' = w
    BY <1>1, <1>8
  <2>2. \A e \in Digests : groups'[e].weight <= w
    BY <1>2, <1>3, <1>4, <1>5, <1>6, <1>7, <1>8
  <2> QED
    BY <2>1, <2>2, <1>2, <1>4, <1>5 DEF WinnerIsHeaviest
<1>9. CASE ~leads
  <2>1. winningDigest' = winningDigest /\ winningWeight' = winningWeight
    BY <1>1, <1>9
  <2>2. winningDigest \in Digests
    BY <1>3, <1>9
  <2>3. \A e \in Digests : groups'[e].weight <= winningWeight
    BY <1>3, <1>4, <1>5, <1>7, <1>9
  <2>4. winningDigest = d => w = winningWeight
    BY <1>3, <1>4, <1>7, <1>9
  <2>5. /\ groups'[winningDigest].signers # {}
        /\ groups'[winningDigest].weight = winningWeight
    BY <1>2, <1>5, <1>7, <1>9, <2>2, <2>4
  <2> QED
    BY <2>1, <2>2, <2>3, <2>5, <1>2, <1>3 DEF WinnerIsHeaviest
<1> QED
  BY <1>8, <1>9

(* The loop issues a certificate at once when some digest has the stake. *)
LEMMA AcceptQuorum ==
    ASSUME IInv, NEW r \in results, AcceptResult(r)
    PROVE  /\ NoQuorumMissed'
           /\ CertificateBacked'
           /\ CertificateState'
           /\ broadcast' \in {"collecting", "certified"}
           /\ certificate' \in Certificates \cup {NoCertificate}
<1>1. /\ winningDigest' \in Digests
      /\ winningWeight' = groups'[winningDigest'].weight
      /\ \A e \in Digests : groups'[e].weight <= winningWeight'
      /\ winningWeight' \in Nat
      /\ NoDigest \notin Digests
  BY AcceptWinner, AggregatorAssumption DEF WinnerIsHeaviest
<1>2. groups' \in [Digests -> [signers : SUBSET Addresses, weight : Nat]]
  BY AcceptFacts
<1>3. broadcast = "collecting" /\ certificate = NoCertificate
  BY DEF AcceptResult, IInv, CertificateState
<1>4. CASE SigningThresholdMet(groups', winningDigest')
  <2> DEFINE c == GenerateFinalCertificate(groups', winningDigest', Bn254)
  <2>1. broadcast' = "certified" /\ certificate' = c
    BY <1>4 DEF AcceptResult
  <2>2. /\ c.digest = winningDigest'
        /\ c.signers = OperatorsOf(groups'[winningDigest'].signers)
    BY DEF GenerateFinalCertificate, EcdsaNonSigners
  <2>3. c \in Certificates
    <3>1. groups'[winningDigest'].signers \in SUBSET Addresses
      BY <1>1, <1>2
    <3>2. OperatorsOf(groups'[winningDigest'].signers) \in SUBSET Operators
      BY <3>1 DEF OperatorsOf, Addresses
    <3> QED
      BY <3>2, <1>1 DEF GenerateFinalCertificate, EcdsaNonSigners, Certificates
  <2>4. groups'[winningDigest'].weight >= ThresholdStake
    BY <1>4 DEF SigningThresholdMet
  <2>5. groups'[winningDigest'].weight
          = StakeOf[OperatorsOf(groups'[winningDigest'].signers)]
    BY AcceptStake, <1>1 DEF StakeCountedOnce
  <2>6. StakeOf[OperatorsOf(groups'[winningDigest'].signers)] >= ThresholdStake
    BY ONLY <2>4, <2>5, Zenon
  <2>7. CertificateBacked'
    <3> HIDE DEF c
    <3>1. certificate'.digest = winningDigest'
      BY <2>1, <2>2
    <3>2. certificate'.signers = OperatorsOf(groups'[winningDigest'].signers)
      BY ONLY <2>1, <2>2, Zenon
    <3>3. certificate'.signers = OperatorsOf(groups'[certificate'.digest].signers)
      BY ONLY <3>1, <3>2, Zenon
    <3>4. StakeOf[certificate'.signers] >= ThresholdStake
      BY ONLY <2>6, <3>2, Zenon
    <3> QED
      BY <1>1, <3>1, <3>3, <3>4, Zenon DEF CertificateBacked
  <2> QED
    BY <2>1, <2>3, <2>7 DEF NoQuorumMissed, CertificateState
<1>5. CASE ~SigningThresholdMet(groups', winningDigest')
  <2>1. broadcast' = broadcast /\ certificate' = certificate
    BY <1>5 DEF AcceptResult
  <2>2. TotalStake # 0 => groups'[winningDigest'].weight < ThresholdStake
    BY <1>1, <1>2, <1>5, ThresholdType DEF SigningThresholdMet
  <2>3. TotalStake # 0 => \A e \in Digests : groups'[e].weight < ThresholdStake
    BY <1>1, <1>2, <2>2, ThresholdType
  <2> QED
    BY <1>3, <2>1, <2>3 DEF NoQuorumMissed, CertificateBacked, CertificateState
<1> QED
  BY <1>4, <1>5

LEMMA AcceptBookkeeping ==
    ASSUME IInv, NEW r \in results, AcceptResult(r)
    PROVE  TypeOK' /\ AnswersOnce' /\ GroupsPartition'
<1>1. /\ results' = results \ {r}
      /\ peer' = peer /\ contextDone' = contextDone /\ outcome' = outcome
  BY DEF AcceptResult
<1>2. TypeOK'
  <2>1. received' \in SUBSET Addresses
    BY AcceptFacts DEF IInv, TypeOK, AggTypeOK
  <2>2. AggTypeOK'
    BY <2>1, AcceptFacts, AcceptWinner DEF AggTypeOK
  <2> QED
    BY <1>1, <2>2, AcceptQuorum DEF IInv, TypeOK
<1>3. AnswersOnce'
  <2>1. peer[r.operator] = "answered"
    BY DEF IInv, AnswersOnce
  <2> QED
    BY <1>1, <2>1, AcceptFacts DEF IInv, AnswersOnce
<1>4. GroupsPartition'
  <2> DEFINE d == r.digest
             a == Address(r)
  <2>1. \A e \in Digests : a \notin groups[e].signers
    BY AcceptFacts DEF IInv, GroupsPartition
  <2>2. /\ groups'[d].signers = groups[d].signers \cup {a}
        /\ \A e \in Digests \ {d} : groups'[e].signers = groups[e].signers
        /\ received' = received \cup {a}
        /\ d \in Digests
    BY AcceptFacts
  <2> HIDE DEF a, d
  <2>3. \A e \in Digests : groups'[e].signers \subseteq received'
    BY <2>2 DEF IInv, GroupsPartition
  <2>4. \A b \in received' : \E e \in Digests : b \in groups'[e].signers
    <3> SUFFICES ASSUME NEW b \in received'
                 PROVE  \E e \in Digests : b \in groups'[e].signers
      OBVIOUS
    <3>1. CASE b = a
      BY <2>2, <3>1
    <3>2. CASE b \in received
      <4>1. PICK e \in Digests : b \in groups[e].signers
        BY <3>2 DEF IInv, GroupsPartition
      <4> QED
        BY <2>2, <4>1
    <3> QED
      BY <2>2, <3>1, <3>2
  <2>5. \A e, f \in Digests :
           groups'[e].signers \cap groups'[f].signers # {} => e = f
    BY <2>1, <2>2 DEF IInv, GroupsPartition
  <2> QED
    BY <2>3, <2>4, <2>5 DEF GroupsPartition
<1> QED
  BY <1>2, <1>3, <1>4

(* Steps that leave the aggregator, the Broadcast goroutine and its        *)
(* certificate alone keep what is said about them.                         *)
LEMMA AggUnchanged ==
    ASSUME IInv, UNCHANGED <<aggVars, certificate>>,
           broadcast' = broadcast \/ broadcast' = "stopped"
    PROVE  /\ AggTypeOK' /\ GroupsPartition' /\ StakeCountedOnce'
           /\ WinnerIsHeaviest' /\ NoQuorumMissed'
           /\ CertificateBacked'
           /\ (broadcast' = broadcast \/ certificate = NoCertificate) => CertificateState'
<1>1. /\ received' = received /\ groups' = groups /\ certificate' = certificate
      /\ winningDigest' = winningDigest /\ winningWeight' = winningWeight
  BY DEF aggVars
<1>2. AggTypeOK' /\ GroupsPartition' /\ WinnerIsHeaviest'
  BY <1>1 DEF IInv, TypeOK, AggTypeOK, GroupsPartition, WinnerIsHeaviest
<1>3. StakeCountedOnce'
  BY <1>1, Zenon DEF IInv, StakeCountedOnce
<1>4. NoQuorumMissed'
  BY <1>1 DEF IInv, NoQuorumMissed
<1>5. CertificateBacked'
  <2>1. CASE broadcast' = broadcast
    BY <1>1, <2>1, Zenon DEF IInv, CertificateBacked
  <2>2. CASE broadcast' = "stopped"
    BY <2>2 DEF CertificateBacked
  <2> QED
    BY <2>1, <2>2
<1>6. (broadcast' = broadcast \/ certificate = NoCertificate) => CertificateState'
  BY <1>1 DEF IInv, CertificateState
<1> QED
  BY <1>2, <1>3, <1>4, <1>5, <1>6

LEMMA NextIInv == IInv /\ [Next]_vars => IInv'
<1> SUFFICES ASSUME IInv, [Next]_vars PROVE IInv'
  OBVIOUS
<1>1. ASSUME NEW o \in Operators, PeerFails(o) PROVE IInv'
  <2>1. /\ peer' = [peer EXCEPT ![o] = "failed"] /\ peer[o] = "waiting"
        /\ UNCHANGED <<aggVars, certificate>> /\ broadcast' = broadcast
        /\ results' = results /\ contextDone' = contextDone /\ outcome' = outcome
        /\ received' = received
    BY <1>1 DEF PeerFails, aggVars
  <2>2. TypeOK'
    BY <2>1, AggUnchanged DEF IInv, TypeOK
  <2>3. AnswersOnce'
    BY <2>1 DEF IInv, AnswersOnce, TypeOK, AggTypeOK, TaskResults, Addresses
  <2> QED
    BY <2>1, <2>2, <2>3, AggUnchanged DEF IInv
<1>2. ASSUME NEW o \in Operators, PeerAnswers(o) PROVE IInv'
  <2>1. PICK r \in TaskResults : r.operator = o /\ results' = results \cup {r}
    BY <1>2 DEF PeerAnswers
  <2>2. /\ peer' = [peer EXCEPT ![o] = "answered"] /\ peer[o] = "waiting"
        /\ UNCHANGED <<aggVars, certificate>> /\ broadcast' = broadcast
        /\ contextDone' = contextDone /\ outcome' = outcome
        /\ received' = received
    BY <1>2 DEF PeerAnswers, aggVars
  <2>3. TypeOK'
    BY <2>1, <2>2, AggUnchanged DEF IInv, TypeOK
  <2>4. AnswersOnce'
    BY <2>1, <2>2 DEF IInv, AnswersOnce, TypeOK, AggTypeOK, TaskResults, Addresses
  <2> QED
    BY <2>2, <2>3, <2>4, AggUnchanged DEF IInv
<1>3. ASSUME NEW r \in results, AcceptResult(r) PROVE IInv'
  BY <1>3, AcceptBookkeeping, AcceptStake, AcceptWinner, AcceptQuorum DEF IInv
<1>4. ASSUME NEW r \in results, SkipResult(r) PROVE IInv'
  <2>1. /\ results' = results \ {r} /\ peer' = peer
        /\ UNCHANGED <<aggVars, certificate>> /\ broadcast' = broadcast
        /\ contextDone' = contextDone /\ outcome' = outcome
        /\ received' = received
    BY <1>4 DEF SkipResult, aggVars
  <2>2. TypeOK' /\ AnswersOnce'
    BY <2>1, AggUnchanged DEF IInv, TypeOK, AnswersOnce
  <2> QED
    BY <2>1, <2>2, AggUnchanged DEF IInv
<1>5. ASSUME BroadcastStops PROVE IInv'
  <2>1. /\ results' = results /\ peer' = peer /\ certificate = NoCertificate
        /\ UNCHANGED <<aggVars, certificate>> /\ broadcast' = "stopped"
        /\ contextDone' = contextDone /\ outcome' = outcome
        /\ received' = received
    BY <1>5 DEF BroadcastStops, aggVars, IInv, CertificateState
  <2>2. TypeOK' /\ AnswersOnce'
    BY <2>1, AggUnchanged DEF IInv, TypeOK, AnswersOnce
  <2> QED
    BY <2>1, <2>2, AggUnchanged DEF IInv
<1>6. ASSUME ContextDone \/ ReturnCertificate \/ ReturnContextError \/ UNCHANGED vars
      PROVE  IInv'
  <2>1. /\ results' = results /\ peer' = peer
        /\ UNCHANGED <<aggVars, certificate>> /\ broadcast' = broadcast
        /\ received' = received
    BY <1>6 DEF ContextDone, ReturnCertificate, ReturnContextError,
                vars, aggVars, sessionVars
  <2>2. contextDone' \in BOOLEAN /\ outcome' \in {"running", "certificate", "error"}
    BY <1>6 DEF ContextDone, ReturnCertificate, ReturnContextError,
                vars, sessionVars, IInv, TypeOK
  <2>3. TypeOK' /\ AnswersOnce'
    BY <2>1, <2>2, AggUnchanged DEF IInv, TypeOK, AnswersOnce
  <2> QED
    BY <2>1, <2>3, AggUnchanged DEF IInv
<1> QED
  BY <1>1, <1>2, <1>3, <1>4, <1>5, <1>6 DEF Next

(* The inductive invariant holds of every behaviour of a session. *)
THEOREM SessionInvariant == Spec => []IInv
  BY InitIInv, NextIInv, PTL DEF Spec

(* Types of the session's state (ResultAggregator maps, channel, states).  *)
THEOREM SessionTypeOK == Spec => []TypeOK
<1>1. IInv => TypeOK
  BY DEF IInv
<1> QED
  BY <1>1, SessionInvariant, PTL

(* ProcessNewSignature and updateWinningResponse: stake is counted once    *)
(* per operator, and no digest reaches the threshold unnoticed.            *)
THEOREM SessionNoQuorumMissed == Spec => [](StakeCountedOnce /\ NoQuorumMissed)
<1>1. IInv => StakeCountedOnce /\ NoQuorumMissed
  BY DEF IInv
<1> QED
  BY <1>1, SessionInvariant, PTL

(* GenerateFinalCertificate: a certificate carries the stake it needs.     *)
THEOREM SessionCertificateBacked == Spec => []CertificateBacked
<1>1. IInv => CertificateBacked
  BY DEF IInv
<1> QED
  BY <1>1, SessionInvariant, PTL

-----------------------------------------------------------------------------
(* The refinement mapping: an operator has signed d when it is in d's group. *)
LEMMA SignedByGroup ==
    ASSUME IInv, NEW o \in Operators
    PROVE  /\ \A d \in Digests : SignedBy(o) = d <=> o \in OperatorsOf(groups[d].signers)
           /\ SignedBy(o) = NoDigest <=>
                \A d \in Digests : o \notin OperatorsOf(groups[d].signers)
<1>1. ASSUME NEW d \in Digests, NEW e \in Digests,
             o \in OperatorsOf(groups[d].signers), o \in OperatorsOf(groups[e].signers)
      PROVE  d = e
  <2>1. PICK a \in groups[d].signers : a[1] = o
    BY <1>1 DEF OperatorsOf
  <2>2. PICK b \in groups[e].signers : b[1] = o
    BY <1>1 DEF OperatorsOf
  <2>3. a \in received /\ b \in received
    BY DEF IInv, GroupsPartition
  <2>4. a = b
    BY <2>1, <2>2, <2>3 DEF IInv, AnswersOnce
  <2> QED
    BY <2>4 DEF IInv, GroupsPartition
<1>2. NoDigest \notin Digests
  BY AggregatorAssumption
<1>3. CASE \E d \in Digests : o \in OperatorsOf(groups[d].signers)
  <2>1. PICK d \in Digests : o \in OperatorsOf(groups[d].signers)
    BY <1>3
  <2>2. /\ SignedBy(o) \in Digests
        /\ o \in OperatorsOf(groups[SignedBy(o)].signers)
    BY <1>3, Zenon DEF SignedBy
  <2> QED
    BY <1>1, <1>2, <2>1, <2>2
<1>4. CASE ~ \E d \in Digests : o \in OperatorsOf(groups[d].signers)
  <2>1. SignedBy(o) = NoDigest
    BY <1>4, Zenon DEF SignedBy
  <2> QED
    BY <1>2, <1>4, <2>1
<1> QED
  BY <1>3, <1>4

SignedByFacts ==
    \A o \in Operators :
        /\ \A d \in Digests : SignedBy(o) = d <=> o \in OperatorsOf(groups[d].signers)
        /\ SignedBy(o) = NoDigest <=>
             \A d \in Digests : o \notin OperatorsOf(groups[d].signers)

LEMMA SignedByNow == IInv => SignedByFacts
  BY SignedByGroup DEF SignedByFacts

LEMMA SignedByNext == IInv' => SignedByFacts'
  BY SignedByNow, PTL

LEMMA RefinementInit == Init => QC!QCInit
<1> SUFFICES ASSUME Init PROVE QC!QCInit
  OBVIOUS
<1>1. IInv
  BY InitIInv
<1>2. \A d \in Digests : groups[d].signers = {}
  BY DEF Init, AggInit
<1>3. \A o \in Operators : SignedBy(o) = NoDigest
  BY <1>1, <1>2, SignedByGroup DEF OperatorsOf
<1>4. certificate.digest = NoDigest
  BY DEF Init, NoCertificate
<1> QED
  BY <1>3, <1>4 DEF QC!QCInit

(* An accepted answer is a Sign step of the abstract specification. *)
LEMMA RefinementAccept ==
    ASSUME IInv, IInv', NEW r \in results, AcceptResult(r)
    PROVE  QC!Sign(r.operator, r.digest)
<1> DEFINE o == r.operator
           d == r.digest
           signed == [p \in Operators |-> SignedBy(p)]
           signedN == [p \in Operators |-> SignedBy(p)']
           Supp == {p \in Operators : signed[p] = d}
<1>1. o \in Operators /\ d \in Digests
  BY AcceptFacts
<1>2. broadcast = "collecting" /\ certificate = NoCertificate
  BY DEF AcceptResult, IInv, CertificateState
<1>3. certificate.digest = NoDigest
  BY <1>2 DEF NoCertificate
<1>4. signed[o] = NoDigest
  <2>1. \A e \in Digests : o \notin OperatorsOf(groups[e].signers)
    BY AcceptFacts DEF IInv, GroupsPartition, OperatorsOf
  <2> QED
    BY <1>1, <2>1, SignedByGroup
<1>5. OperatorsOf(groups'[d].signers) = OperatorsOf(groups[d].signers) \cup {o}
  BY AcceptFacts DEF OperatorsOf
<1>6. SignedByFacts /\ SignedByFacts'
  BY SignedByNow, SignedByNext
<1>7. signedN = [signed EXCEPT ![o] = d]
  <2>1. SignedBy(o)' = d
    BY <1>1, <1>5, <1>6 DEF SignedByFacts
  <2>2. ASSUME NEW p \in Operators, p # o
        PROVE  SignedBy(p)' = SignedBy(p)
    <3>1. \A e \in Digests :
             p \in OperatorsOf(groups'[e].signers) <=> p \in OperatorsOf(groups[e].signers)
      BY <1>1, <2>2, AcceptFacts DEF OperatorsOf
    <3>2. SignedBy(p) \in Digests \cup {NoDigest}
      <4>1. CASE \E e \in Digests : p \in OperatorsOf(groups[e].signers)
        BY <4>1, <1>6 DEF SignedByFacts
      <4>2. CASE ~ \E e \in Digests : p \in OperatorsOf(groups[e].signers)
        BY <4>2, <1>6 DEF SignedByFacts
      <4> QED
        BY <4>1, <4>2
    <3> QED
      BY <1>6, <3>1, <3>2 DEF SignedByFacts
  <2> QED
    BY <1>1, <2>1, <2>2
<1>8. Supp = OperatorsOf(groups[d].signers)
  <2>1. OperatorsOf(groups[d].signers) \subseteq Operators
    BY <1>1 DEF IInv, TypeOK, AggTypeOK, OperatorsOf, Addresses
  <2> QED
    BY <1>1, <1>6, <2>1 DEF SignedByFacts
<1>9. StakeOf[Supp \cup {o}] = groups'[d].weight
  <2>1. groups'[d].weight = StakeOf[OperatorsOf(groups'[d].signers)]
    BY <1>1 DEF IInv, StakeCountedOnce
  <2> HIDE DEF Supp, o, d
  <2> QED
    BY ONLY <1>5, <1>8, <2>1, Zenon
<1>10. certificate'.digest = IF TotalStake # 0 /\ groups'[d].weight >= ThresholdStake
                             THEN d ELSE NoDigest
  <2>1. /\ groups \in [Digests -> [signers : SUBSET Addresses, weight : Nat]]
        /\ groups' \in [Digests -> [signers : SUBSET Addresses, weight : Nat]]
    BY AcceptFacts DEF IInv, TypeOK, AggTypeOK
  <2>2. /\ winningDigest' \in Digests
        /\ groups'[winningDigest'].signers # {}
        /\ \A e \in Digests : groups'[e].weight <= groups'[winningDigest'].weight
        /\ NoDigest \notin Digests
    BY AcceptWinner, AggregatorAssumption DEF WinnerIsHeaviest
  <2>3. CASE SigningThresholdMet(groups', winningDigest')
    <3>1. certificate'.digest = winningDigest'
      BY <2>3 DEF AcceptResult, GenerateFinalCertificate, EcdsaNonSigners
    <3>2. TotalStake # 0 /\ groups'[winningDigest'].weight >= ThresholdStake
      BY <2>3 DEF SigningThresholdMet
    <3>3. ASSUME winningDigest' # d PROVE FALSE
      <4>1. groups'[winningDigest'] = groups[winningDigest']
        BY <2>2, <3>3, AcceptFacts
      <4>2. groups[winningDigest'].signers # {}
        BY <2>2, <4>1
      <4>3. groups[winningDigest'].weight < ThresholdStake
        BY <1>2, <2>2, <3>2, <4>2 DEF IInv, NoQuorumMissed
      <4> QED
        BY <2>1, <2>2, <3>2, <4>1, <4>3, ThresholdType
    <3> QED
      BY <3>1, <3>2, <3>3
  <2>4. CASE ~SigningThresholdMet(groups', winningDigest')
    <3>1. certificate'.digest = NoDigest
      BY <1>3, <2>4 DEF AcceptResult
    <3>2. TotalStake # 0 => groups'[winningDigest'].weight < ThresholdStake
      BY <2>1, <2>2, <2>4, ThresholdType DEF SigningThresholdMet
    <3>3. TotalStake # 0 => groups'[d].weight < ThresholdStake
      BY <1>1, <2>1, <2>2, <3>2, ThresholdType
    <3> QED
      BY <1>1, <2>1, <3>1, <3>3, ThresholdType
  <2> QED
    BY <2>3, <2>4
<1>11. QC!Supporters(d) = Supp
  BY DEF QC!Supporters
<1> HIDE DEF Supp
<1>12. certificate'.digest =
          IF StakeOf[Operators] # 0 /\ StakeOf[QC!Supporters(d) \cup {o}] >= ThresholdStake
          THEN d ELSE NoDigest
  BY <1>9, <1>10, <1>11, Zenon DEF TotalStake
<1> QED
  BY <1>3, <1>4, <1>7, <1>12 DEF QC!Sign

LEMMA RefinementStep == IInv /\ IInv' /\ [Next]_vars => [QC!QCNext]_(QC!qcVars)
<1> SUFFICES ASSUME IInv, IInv', [Next]_vars PROVE [QC!QCNext]_(QC!qcVars)
  OBVIOUS
<1>1. ASSUME NEW r \in results, AcceptResult(r)
      PROVE  QC!QCNext
  BY <1>1, RefinementAccept, AcceptFacts DEF QC!QCNext
<1>2. ASSUME groups' = groups, certificate' = certificate
      PROVE  UNCHANGED QC!qcVars
  BY <1>2, Zenon DEF QC!qcVars, SignedBy
<1>3. ASSUME ~ \E r \in results : AcceptResult(r)
      PROVE  groups' = groups /\ certificate' = certificate
  BY <1>3 DEF Next, vars, aggVars, sessionVars, PeerFails, PeerAnswers, SkipResult,
              BroadcastStops, ContextDone, ReturnCertificate, ReturnContextError
<1> QED
  BY <1>1, <1>2, <1>3

(* A session implements the abstract quorum certificate: certificates are  *)
(* issued for a digest exactly when the stake behind it reaches the        *)
(* threshold (taskSession.Broadcast over ProcessNewSignature).             *)
THEOREM SessionRefinesQuorumCertificate == Spec => ImplementsQuorumCertificate
  BY RefinementInit, RefinementStep, SessionInvariant, PTL
     DEF Spec, ImplementsQuorumCertificate, QC!QCSpec

-----------------------------------------------------------------------------
(* The tables that a session's operators, infos and root come from:        *)
(* StakeTables, for any operators, transports, chains of the registry,     *)
(* setups, blocks and faults.                                              *)

Multi == {"block", "curve", "keys", "owner", "generator", "root", "global", "tables",
          "verifier", "done"}
Single == {"block", "root", "owner", "generator", "global", "tables", "done"}

(* The stages of each transporter. *)
LEMMA StagesAre ==
    ASSUME NEW t \in Transports, kind[t] \in {"ponos", "hgctl", "single"}
    PROVE  /\ kind[t] = "single" => Range(Stages(t)) = Single
           /\ kind[t] # "single" => Range(Stages(t)) = Multi
           /\ kind[t] = "single" => Transporter(t) = TransportTable
           /\ kind[t] = "ponos" => Transporter(t) = PonosTransport
           /\ kind[t] = "hgctl" => Transporter(t) = HgctlTransport
<1>1. /\ kind[t] = "single" => Transporter(t) = TransportTable
      /\ kind[t] = "ponos" => Transporter(t) = PonosTransport
      /\ kind[t] = "hgctl" => Transporter(t) = HgctlTransport
  BY DEF Transporter
<1>2. ASSUME kind[t] = "single" PROVE Range(Stages(t)) = Single
  <2>1. Stages(t) = <<"block", "root", "owner", "generator", "global", "tables", "done">>
    BY <1>1, <1>2 DEF Stages, TransportTable
  <2> QED
    BY <2>1 DEF Range, Single
<1>3. ASSUME kind[t] # "single" PROVE Range(Stages(t)) = Multi
  <2>1. Stages(t) = <<"block", "curve", "keys", "owner", "generator", "root",
                  "global", "tables", "verifier", "done">>
    BY <1>1, <1>3 DEF Stages, HgctlTransport, PonosTransport
  <2> QED
    BY <2>1 DEF Range, Multi
<1> QED
  BY <1>1, <1>2, <1>3

LEMMA StagesAreMulti ==
    ASSUME NEW t \in Transports, kind[t] \in {"ponos", "hgctl", "single"}
    PROVE  Range(Stages(t)) \subseteq Multi /\ "block" \in Range(Stages(t))
<1>1. Single \subseteq Multi /\ "block" \in Multi /\ "block" \in Single
  BY DEF Multi, Single
<1>2. CASE kind[t] = "single"
  BY <1>1, <1>2, StagesAre
<1>3. CASE kind[t] # "single"
  BY <1>1, <1>3, StagesAre
<1> QED
  BY <1>2, <1>3

(* Only the transporters of a whole set go to the certificate verifier. *)
LEMMA VerifierStage ==
    ASSUME NEW t \in Transports, kind[t] \in {"ponos", "hgctl", "single"}
    PROVE  "verifier" \in Range(Stages(t)) <=> kind[t] # "single"
<1>1. "verifier" \in Multi /\ "verifier" \notin Single
  BY DEF Multi, Single
<1>2. CASE kind[t] = "single"
  BY <1>1, <1>2, StagesAre
<1>3. CASE kind[t] # "single"
  BY <1>1, <1>3, StagesAre
<1> QED
  BY <1>2, <1>3

LEMMA AfterMulti ==
    ASSUME NEW t \in Transports, kind[t] \in {"ponos", "hgctl"}
    PROVE  /\ After(t, "block") = "curve" /\ After(t, "curve") = "keys"
           /\ After(t, "keys") = "owner" /\ After(t, "owner") = "generator"
           /\ After(t, "generator") = "root" /\ After(t, "root") = "global"
           /\ After(t, "global") = "tables" /\ After(t, "tables") = "verifier"
           /\ After(t, "verifier") = "done"
<1>1. Stages(t) = <<"block", "curve", "keys", "owner", "generator", "root",
                  "global", "tables", "verifier", "done">>
  BY StagesAre DEF Stages, HgctlTransport, PonosTransport
<1> DEFINE S == Stages(t)
<1>2. /\ Len(S) = 10 /\ S[1] = "block" /\ S[2] = "curve" /\ S[3] = "keys" /\ S[4] = "owner"
      /\ S[5] = "generator" /\ S[6] = "root" /\ S[7] = "global" /\ S[8] = "tables"
      /\ S[9] = "verifier" /\ S[10] = "done"
  BY <1>1
<1> HIDE DEF S
<1>3. \A i \in 1 .. 10 : \A s : s = S[i] => (CHOOSE j \in 1 .. 10 : S[j] = s) = i
  BY <1>2
<1>4. \A i \in 1 .. 10 : \A s : s = S[i] => After(t, s) = S[i + 1]
  BY <1>2, <1>3 DEF After, S
<1> QED
  BY <1>2, <1>4

LEMMA AfterSingle ==
    ASSUME NEW t \in Transports, kind[t] = "single"
    PROVE  /\ After(t, "block") = "root" /\ After(t, "root") = "owner"
           /\ After(t, "owner") = "generator" /\ After(t, "generator") = "global"
           /\ After(t, "global") = "tables" /\ After(t, "tables") = "done"
<1>1. Stages(t) = <<"block", "root", "owner", "generator", "global", "tables", "done">>
  BY StagesAre DEF Stages, TransportTable
<1> DEFINE S == Stages(t)
<1>2. /\ Len(S) = 7 /\ S[1] = "block" /\ S[2] = "root" /\ S[3] = "owner" /\ S[4] = "generator"
      /\ S[5] = "global" /\ S[6] = "tables" /\ S[7] = "done"
  BY <1>1
<1> HIDE DEF S
<1>3. \A i \in 1 .. 7 : \A s : s = S[i] => (CHOOSE j \in 1 .. 7 : S[j] = s) = i
  BY <1>2
<1>4. \A i \in 1 .. 7 : \A s : s = S[i] => After(t, s) = S[i + 1]
  BY <1>2, <1>3 DEF After, S
<1> QED
  BY <1>2, <1>4

LEMMA WarnsAre ==
    ASSUME NEW t \in Transports, kind[t] \in {"ponos", "hgctl", "single"}
    PROVE  /\ kind[t] = "single" => /\ WarnsOf(t, "tables") /\ ~WarnsOf(t, "generator")
           /\ kind[t] # "single" => /\ ~WarnsOf(t, "tables") /\ WarnsOf(t, "generator")
  BY StagesAre DEF WarnsOf, TransportTable, PonosTransport, HgctlTransport

(* A record's field that is replaced by its own value. *)
LEMMA SameField ==
    ASSUME NEW a, NEW b, NEW c, NEW d, NEW e, NEW f, NEW g, g = b
    PROVE  [[chain |-> a, ts |-> b, weights |-> c, operators |-> d, infos |-> e, root |-> f]
              EXCEPT !.ts = g]
           = [chain |-> a, ts |-> b, weights |-> c, operators |-> d, infos |-> e, root |-> f]
  OBVIOUS

(* The loops and the choices of a transport have their values. *)
TablesTypes ==
    /\ TablesTypeOK
    /\ reserved \in BOOLEAN /\ chains \subseteq Chains
    /\ kind \in [Transports -> {"ponos", "hgctl", "single"}]
    /\ roots = [c \in Chains |-> roots[c]] /\ tables = [c \in Chains |-> tables[c]]
    /\ pc \in [Transports -> Multi] /\ at \in [Transports -> 1 .. 2]
    /\ block \in [Transports -> 0 .. Len(hist)]
    /\ calc = [t \in Transports |-> calc[t]]
    /\ out \in [Transports -> {"none", "ok", "error"}]
    /\ \A t \in Transports : pc[t] \notin {"block", "done"} => block[t] > 0

(* What the root of a block says of our operator set. *)
TableAt(b) == IF reserved THEN CalculatedTable(hist[b]) ELSE NoTable

HasLast(f) == DOMAIN f # {} => \E b \in DOMAIN f : \A d \in DOMAIN f : d <= b

(* From its computation on, what a transport holds, posts and sends is the *)
(* table of its block; and each chain's blocks are posted in their order.  *)
PastRoot(t, s) ==
    \/ s \in {"global", "tables", "verifier"}
    \/ kind[t] = "single" /\ s \in {"owner", "generator"}
HasCalculated(t) == PastRoot(t, pc[t])
TablesAreOfBlocks ==
    /\ \A t \in Transports : HasCalculated(t) => calc[t] = TableAt(block[t])
    /\ \A t \in Transports : pc[t] = "verifier" => reserved /\ kind[t] # "single"
    /\ \A c \in Chains : \A b \in DOMAIN roots[c] : roots[c][b] = TableAt(b)
    /\ \A c \in Chains : \A b \in DOMAIN tables[c] :
          tables[c][b] = CalculatedTable(hist[b])
    /\ \A c \in Chains : HasLast(roots[c]) /\ HasLast(tables[c])

(* The chains behind a transport in its last loop have its table. *)
TransportsLeaveTables ==
    /\ SuccessMeansTable
    /\ \A t \in Transports : pc[t] = "verifier" /\ at[t] = 2 /\ L1 \in chains =>
          block[t] <= Latest(tables[L1])

(* A task keeps what its block held, and a session is what the manager     *)
(* reads of it, although the registry has changed since.                   *)
TaskIsOfItsBlock ==
    task # NoTask =>
        /\ task.chain \in Chains /\ task.block \in 1 .. Len(hist)
        /\ task.root \in 0 .. task.block
        /\ DOMAIN task.tables \subseteq 1 .. Len(hist)
        /\ \A b \in DOMAIN task.tables : task.tables[b] = CalculatedTable(hist[b])
        /\ task.root \in DOMAIN task.tables => task.ts = task.root
SessionIsOfItsTask ==
    Given =>
        /\ task # NoTask
        /\ getL1BlockForChainBlock(task) > 0
        /\ curve = "BN254" => task.root > 0
        /\ NilEntries(getL1BlockForChainBlock(task)) = {}
        /\ session = PeersForTask(task)

TablesInv ==
    /\ TablesTypes
    /\ TablesAreOfBlocks
    /\ TransportsLeaveTables
    /\ TaskIsOfItsBlock
    /\ SessionIsOfItsTask

-----------------------------------------------------------------------------
(* Posting a newer block. *)

LEMMA LatestIs ==
    ASSUME NEW f, HasLast(f), DOMAIN f \subseteq Nat
    PROVE  /\ Latest(f) \in Nat /\ (DOMAIN f # {} => Latest(f) \in DOMAIN f)
           /\ \A d \in DOMAIN f : d <= Latest(f)
<1>1. CASE DOMAIN f = {}
  BY <1>1 DEF Latest
<1>2. CASE DOMAIN f # {}
  <2> DEFINE P(b) == \A d \in DOMAIN f : d <= b
  <2>1. \E b \in DOMAIN f : P(b)
    BY <1>2 DEF HasLast
  <2>2. Latest(f) = CHOOSE b \in DOMAIN f : P(b)
    BY <1>2 DEF Latest
  <2> HIDE DEF P
  <2>3. Latest(f) \in DOMAIN f /\ P(Latest(f))
    BY <2>1, <2>2
  <2> QED
    BY <2>3 DEF P
<1> QED
  BY <1>1, <1>2

LEMMA LatestIsUnique ==
    ASSUME NEW f, HasLast(f), DOMAIN f \subseteq Nat, NEW m \in DOMAIN f, \A d \in DOMAIN f : d <= m
    PROVE  Latest(f) = m
<1>1. Latest(f) \in DOMAIN f /\ m <= Latest(f)
  BY LatestIs
<1> QED
  BY <1>1

LEMMA WithNewer ==
    ASSUME NEW f, HasLast(f), DOMAIN f \subseteq Nat, NEW b \in Nat, b > Latest(f), NEW v
    PROVE  /\ DOMAIN With(f, b, v) = DOMAIN f \cup {b} /\ With(f, b, v)[b] = v
           /\ \A d \in DOMAIN f : With(f, b, v)[d] = f[d]
           /\ HasLast(With(f, b, v)) /\ Latest(With(f, b, v)) = b
<1>1. Latest(f) \in Nat /\ \A d \in DOMAIN f : d <= Latest(f)
  BY LatestIs
<1>2. b \notin DOMAIN f /\ \A d \in DOMAIN f : d <= b
  BY <1>1
<1> DEFINE g == With(f, b, v)
<1>3. DOMAIN g = DOMAIN f \cup {b} /\ g[b] = v /\ \A d \in DOMAIN f : g[d] = f[d]
  BY <1>2 DEF With
<1> HIDE DEF g
<1>4. b \in DOMAIN g /\ \A d \in DOMAIN g : d <= b
  BY <1>2, <1>3
<1>5. HasLast(g)
  BY <1>4 DEF HasLast
<1>6. DOMAIN g \subseteq Nat
  BY <1>3
<1>7. Latest(g) = b
  BY <1>4, <1>5, <1>6, LatestIsUnique
<1> QED
  BY <1>3, <1>5, <1>7 DEF g

-----------------------------------------------------------------------------
(* What a step may do to the history, the roots and the tables. *)

HistoryGrows ==
    /\ Len(hist) <= Len(hist') /\ Len(hist') \in 1 .. MaxBlocks
    /\ \A i \in 1 .. Len(hist) : hist'[i] = hist[i]
    /\ hist' \in Seq(Registries)

Posts(t, f, g) ==
    /\ HasCalculated(t) /\ block[t] > Latest(f)
    /\ g = With(f, block[t], calc[t])

PostsGrow ==
    /\ roots' = [c \in Chains |-> roots'[c]] /\ tables' = [c \in Chains |-> tables'[c]]
    /\ \A c \in Chains :
          \/ roots'[c] = roots[c]
          \/ \E t \in Transports : Posts(t, roots[c], roots'[c])
    /\ \A c \in Chains :
          \/ tables'[c] = tables[c]
          \/ \E t \in Transports : /\ Posts(t, tables[c], tables'[c])
                                   /\ reserved /\ block[t] \in DOMAIN roots[c]

SetupIsFixed == curve' = curve /\ reserved' = reserved /\ chains' = chains /\ kind' = kind

LEMMA HistoryStays ==
    ASSUME TablesTypes, UNCHANGED hist
    PROVE  HistoryGrows
  BY DEF TablesTypes, TablesTypeOK, Now, HistoryGrows

LEMMA HistoryAppends ==
    ASSUME TablesTypes, NEW r \in Registries, InNewBlock(r)
    PROVE  HistoryGrows
<1> DEFINE n == Len(hist)
<1>1. n \in Nat /\ n >= 1 /\ n < MaxBlocks /\ MaxBlocks \in Nat /\ hist' = Append(hist, r)
  BY TablesAssumption DEF InNewBlock, Now, TablesTypes, TablesTypeOK
<1>2. hist \in Seq(Registries)
  BY DEF TablesTypes, TablesTypeOK
<1>3. /\ Len(hist') = n + 1 /\ hist' \in Seq(Registries)
      /\ \A i \in 1 .. n : hist'[i] = hist[i]
  BY <1>1, <1>2
<1> QED
  BY <1>1, <1>3 DEF HistoryGrows

LEMMA PostsStay ==
    ASSUME TablesTypes, UNCHANGED <<roots, tables>>
    PROVE  PostsGrow
  BY DEF TablesTypes, PostsGrow

(* Tables of blocks that exist stay what they are. *)
LEMMA TableStays ==
    ASSUME HistoryGrows, SetupIsFixed, NEW b \in 1 .. Len(hist)
    PROVE  /\ TableAt(b)' = TableAt(b)
           /\ CalculatedTable(hist[b])' = CalculatedTable(hist[b])
<1>1. hist'[b] = hist[b]
  BY DEF HistoryGrows
<1>2. CalculatedTable(hist'[b]) = CalculatedTable(hist[b])
  BY <1>1
<1> QED
  BY <1>2 DEF SetupIsFixed, TableAt

LEMMA PostsAreOfBlocks ==
    ASSUME TablesTypes, TablesAreOfBlocks, HistoryGrows, SetupIsFixed, PostsGrow,
           NEW c \in Chains
    PROVE  /\ DOMAIN roots'[c] \subseteq 1 .. Len(hist') /\ DOMAIN tables'[c] \subseteq DOMAIN roots'[c]
           /\ \A b \in DOMAIN roots'[c] : roots'[c][b] = TableAt(b)'
           /\ \A b \in DOMAIN tables'[c] : tables'[c][b] = CalculatedTable(hist[b])'
           /\ HasLast(roots'[c]) /\ HasLast(tables'[c])
           /\ Latest(tables[c]) \in Nat /\ Latest(tables'[c]) \in Nat
           /\ Latest(tables[c]) <= Latest(tables'[c])
<1>1. /\ Len(hist) \in Nat /\ Len(hist') \in Nat /\ Len(hist) <= Len(hist')
      /\ DOMAIN roots[c] \subseteq 1 .. Len(hist) /\ DOMAIN tables[c] \subseteq DOMAIN roots[c]
      /\ \A t \in Transports : block[t] \in 0 .. Len(hist)
  BY DEF TablesTypes, TablesTypeOK, Now, HistoryGrows
<1>2. /\ \A b \in DOMAIN roots[c] : roots[c][b] = TableAt(b)
      /\ \A b \in DOMAIN tables[c] : tables[c][b] = CalculatedTable(hist[b])
      /\ HasLast(roots[c]) /\ HasLast(tables[c])
      /\ \A t \in Transports : HasCalculated(t) => calc[t] = TableAt(block[t])
  BY DEF TablesAreOfBlocks
<1>3. \A b \in 1 .. Len(hist) : /\ TableAt(b)' = TableAt(b)
                                /\ CalculatedTable(hist[b])' = CalculatedTable(hist[b])
  BY TableStays
<1>4. ASSUME NEW t \in Transports, HasCalculated(t)
      PROVE  block[t] \in 1 .. Len(hist)
  <2>1. pc[t] \notin {"block", "done"} => block[t] > 0
    BY DEF TablesTypes
  <2>2. pc[t] \notin {"block", "done"}
    BY <1>4 DEF HasCalculated, PastRoot
  <2> QED
    BY <1>1, <2>1, <2>2
<1>5. /\ DOMAIN roots[c] \subseteq Nat /\ DOMAIN tables[c] \subseteq Nat
      /\ DOMAIN roots[c] \subseteq 1 .. Len(hist')
  BY <1>1
<1>6. /\ DOMAIN roots'[c] \subseteq 1 .. Len(hist') /\ DOMAIN roots[c] \subseteq DOMAIN roots'[c]
      /\ \A b \in DOMAIN roots'[c] : roots'[c][b] = TableAt(b)'
      /\ HasLast(roots'[c])
  <2>1. CASE roots'[c] = roots[c]
    BY <1>1, <1>2, <1>3, <1>5, <2>1
  <2>2. CASE \E t \in Transports : Posts(t, roots[c], roots'[c])
    <3>a. PICK t \in Transports : Posts(t, roots[c], roots'[c])
      BY <2>2
    <3>b. HasCalculated(t)
      BY <3>a DEF Posts
    <3>0. PICK n \in 1 .. Len(hist) : n = block[t]
      BY <1>4, <3>b
    <3>1. calc[t] = TableAt(n)'
      BY <1>2, <1>3, <3>b, <3>0
    <3>2. /\ DOMAIN roots'[c] = DOMAIN roots[c] \cup {n} /\ roots'[c][n] = calc[t]
          /\ \A b \in DOMAIN roots[c] : roots'[c][b] = roots[c][b]
          /\ HasLast(roots'[c])
      <4>1. n \in Nat
        BY <1>1
      <4>2. roots'[c] = With(roots[c], n, calc[t]) /\ n > Latest(roots[c])
        BY <3>a, <3>0 DEF Posts
      <4>3. HasLast(roots[c]) /\ DOMAIN roots[c] \subseteq Nat
        BY <1>2, <1>5
      <4> DEFINE f == roots[c]
                 g == With(f, n, calc[t])
      <4>4. /\ DOMAIN g = DOMAIN f \cup {n} /\ g[n] = calc[t]
            /\ \A d \in DOMAIN f : g[d] = f[d]
            /\ HasLast(g) /\ Latest(g) = n
        <5> DEFINE v == calc[t]
        <5>1. HasLast(f) /\ DOMAIN f \subseteq Nat /\ n > Latest(f)
          BY <4>2, <4>3
        <5>2. g = With(f, n, v)
          OBVIOUS
        <5> HIDE DEF f, g
        <5>3. /\ DOMAIN g = DOMAIN f \cup {n} /\ g[n] = v
              /\ \A d \in DOMAIN f : g[d] = f[d]
              /\ HasLast(g) /\ Latest(g) = n
          <6> HIDE DEF v
          <6>1. /\ DOMAIN With(f, n, v) = DOMAIN f \cup {n} /\ With(f, n, v)[n] = v
                /\ \A d \in DOMAIN f : With(f, n, v)[d] = f[d]
                /\ HasLast(With(f, n, v)) /\ Latest(With(f, n, v)) = n
            BY <4>1, <5>1, WithNewer, Zenon
          <6> QED
            BY <5>2, <6>1
        <5> QED
          BY <5>3
      <4> QED
        BY <4>2, <4>4
    <3>3. \A b \in DOMAIN roots[c] : roots'[c][b] = TableAt(b)'
      BY <1>1, <1>2, <1>3, <3>2
    <3> QED
      BY <1>1, <1>5, <3>0, <3>1, <3>2, <3>3
  <2> QED
    BY <2>1, <2>2 DEF PostsGrow
<1>7. /\ DOMAIN tables'[c] \subseteq DOMAIN roots'[c]
      /\ \A b \in DOMAIN tables'[c] : tables'[c][b] = CalculatedTable(hist[b])'
      /\ HasLast(tables'[c])
      /\ Latest(tables[c]) \in Nat /\ Latest(tables'[c]) \in Nat
      /\ Latest(tables[c]) <= Latest(tables'[c])
  <2>0. Latest(tables[c]) \in Nat
    BY <1>2, <1>5, LatestIs
  <2>1. CASE tables'[c] = tables[c]
    <3>1. Latest(tables'[c]) = Latest(tables[c])
      BY <2>1
    <3> QED
      BY <1>1, <1>2, <1>3, <1>6, <2>0, <2>1, <3>1
  <2>2. CASE \E t \in Transports : /\ Posts(t, tables[c], tables'[c]) /\ reserved
                                   /\ block[t] \in DOMAIN roots[c]
    <3>a. PICK t \in Transports : /\ Posts(t, tables[c], tables'[c]) /\ reserved
                                  /\ block[t] \in DOMAIN roots[c]
      BY <2>2
    <3>b. HasCalculated(t)
      BY <3>a DEF Posts
    <3>0. PICK n \in 1 .. Len(hist) : n = block[t]
      BY <1>4, <3>b
    <3>1. calc[t] = CalculatedTable(hist[n])'
      BY <1>2, <1>3, <3>a, <3>b, <3>0 DEF TableAt
    <3>2. /\ DOMAIN tables'[c] = DOMAIN tables[c] \cup {n} /\ tables'[c][n] = calc[t]
          /\ \A b \in DOMAIN tables[c] : tables'[c][b] = tables[c][b]
          /\ HasLast(tables'[c]) /\ Latest(tables'[c]) = n
          /\ n > Latest(tables[c])
      <4>1. n \in Nat
        BY <1>1
      <4>2. tables'[c] = With(tables[c], n, calc[t]) /\ n > Latest(tables[c])
        BY <3>a, <3>0 DEF Posts
      <4>3. HasLast(tables[c]) /\ DOMAIN tables[c] \subseteq Nat
        BY <1>2, <1>5
      <4> DEFINE f == tables[c]
                 g == With(f, n, calc[t])
      <4>4. /\ DOMAIN g = DOMAIN f \cup {n} /\ g[n] = calc[t]
            /\ \A d \in DOMAIN f : g[d] = f[d]
            /\ HasLast(g) /\ Latest(g) = n
        <5> DEFINE v == calc[t]
        <5>1. HasLast(f) /\ DOMAIN f \subseteq Nat /\ n > Latest(f)
          BY <4>2, <4>3
        <5>2. g = With(f, n, v)
          OBVIOUS
        <5> HIDE DEF f, g
        <5>3. /\ DOMAIN g = DOMAIN f \cup {n} /\ g[n] = v
              /\ \A d \in DOMAIN f : g[d] = f[d]
              /\ HasLast(g) /\ Latest(g) = n
          <6> HIDE DEF v
          <6>1. /\ DOMAIN With(f, n, v) = DOMAIN f \cup {n} /\ With(f, n, v)[n] = v
                /\ \A d \in DOMAIN f : With(f, n, v)[d] = f[d]
                /\ HasLast(With(f, n, v)) /\ Latest(With(f, n, v)) = n
            BY <4>1, <5>1, WithNewer, Zenon
          <6> QED
            BY <5>2, <6>1
        <5> QED
          BY <5>3
      <4> QED
        BY <4>2, <4>4
    <3>3. \A b \in DOMAIN tables[c] : tables'[c][b] = CalculatedTable(hist[b])'
      BY <1>1, <1>2, <1>3, <3>2
    <3>4. Latest(tables[c]) <= Latest(tables'[c]) /\ Latest(tables'[c]) \in Nat
      BY <2>0, <3>1, <3>2
    <3> QED
      BY <1>1, <1>6, <2>0, <3>a, <3>0, <3>1, <3>2, <3>3, <3>4
  <2> QED
    BY <2>1, <2>2 DEF PostsGrow
<1> QED
  BY <1>6, <1>7

-----------------------------------------------------------------------------
(* How a transport moves on. *)

Moved(t, s, i, o) ==
    /\ pc' = [pc EXCEPT ![t] = s]
    /\ at' = [at EXCEPT ![t] = i]
    /\ out' = [out EXCEPT ![t] = o]

LEMMA AbortMoves ==
    ASSUME TablesTypes, NEW t \in Transports, Abort(t)
    PROVE  Moved(t, "done", at[t], "error")
  BY DEF TablesTypes, Abort, Moved

LEMMA FinishMoves ==
    ASSUME TablesTypes, NEW t \in Transports, Finish(t)
    PROVE  \/ After(t, pc[t]) = "done" /\ Moved(t, "done", 1, "ok")
           \/ After(t, pc[t]) # "done" /\ Moved(t, After(t, pc[t]), 1, out[t])
  BY DEF TablesTypes, Finish, Moved

LEMMA NextChainMoves ==
    ASSUME TablesTypes, NEW t \in Transports, NextChain(t)
    PROVE  \/ at[t] = 2 /\ Finish(t)
           \/ at[t] = 1 /\ Moved(t, pc[t], 2, out[t])
<1>1. at[t] \in 1 .. 2 /\ Len(ChainOrder) = 2
  BY DEF TablesTypes, ChainOrder
<1> QED
  BY <1>1 DEF TablesTypes, NextChain, LastChain, Moved

LEMMA BackToOwnerMoves ==
    ASSUME TablesTypes, NEW t \in Transports, BackToOwner(t)
    PROVE  \/ Finish(t)
           \/ Moved(t, "owner", 2, out[t])
<1>1. at[t] \in 1 .. 2 /\ Len(ChainOrder) = 2
  BY DEF TablesTypes, ChainOrder
<1> QED
  BY <1>1 DEF TablesTypes, BackToOwner, LastChain, Moved

(* A step of t to stage s, place i and result o, with block b and table v, *)
(* that keeps the invariant.                                               *)
Step(t, s, i, o, b, v) ==
    /\ SetupIsFixed /\ HistoryGrows /\ PostsGrow
    /\ owner' \in [Chains -> Transports \cup {"other"}]
    /\ generator' \in [Chains -> Transports \cup {"other"}]
    /\ faults' \in 0 .. MaxFaults
    /\ UNCHANGED <<task, session>>
    /\ Moved(t, s, i, o)
    /\ s \in Range(Stages(t)) /\ i \in 1 .. 2 /\ o \in {"none", "ok", "error"}
    /\ s = "done" <=> o # "none"
    /\ block' = [block EXCEPT ![t] = b] /\ b \in 0 .. Len(hist)
    /\ s \notin {"block", "done"} => b > 0
    /\ calc' = [calc EXCEPT ![t] = v] /\ (PastRoot(t, s) => v = TableAt(b))
    /\ s = "verifier" => /\ reserved /\ kind[t] # "single"
                         /\ i = 2 /\ L1 \in chains => b <= Latest(tables'[L1])
    /\ o = "ok" /\ kind[t] # "single" => \A c \in chains : b <= Latest(tables'[c])

LEMMA StepKeepsTypes ==
    ASSUME TablesInv, NEW t \in Transports, NEW s, NEW i, NEW o, NEW b, NEW v,
           Step(t, s, i, o, b, v)
    PROVE  TablesTypes'
<1>1. TablesTypes /\ TablesAreOfBlocks
  BY DEF TablesInv
<1>2. SetupIsFixed /\ HistoryGrows /\ PostsGrow /\ Moved(t, s, i, o)
  BY DEF Step
<1>3. /\ Len(hist) \in Nat /\ Len(hist') \in 1 .. MaxBlocks /\ Len(hist) <= Len(hist')
      /\ hist' \in Seq(Registries)
  BY <1>1, <1>2 DEF TablesTypes, TablesTypeOK, Now, HistoryGrows
<1>4. reserved' \in BOOLEAN /\ chains' \subseteq Chains' /\ kind' = kind
      /\ kind \in [Transports -> {"ponos", "hgctl", "single"}]
  BY <1>1, <1>2 DEF TablesTypes, SetupIsFixed, Chains
<1>5. \A u \in Transports : Range(Stages(u)) \subseteq Multi
  BY <1>4, StagesAreMulti
<1>6. /\ pc' = [pc EXCEPT ![t] = s] /\ at' = [at EXCEPT ![t] = i] /\ out' = [out EXCEPT ![t] = o]
      /\ block' = [block EXCEPT ![t] = b] /\ calc' = [calc EXCEPT ![t] = v]
      /\ s \in Range(Stages(t)) /\ i \in 1 .. 2 /\ o \in {"none", "ok", "error"}
      /\ s = "done" <=> o # "none"
      /\ b \in 0 .. Len(hist) /\ (s \notin {"block", "done"} => b > 0)
  BY <1>2 DEF Step, Moved
<1>7. /\ pc \in [Transports -> Multi] /\ at \in [Transports -> 1 .. 2]
      /\ block \in [Transports -> 0 .. Len(hist)]
      /\ calc = [u \in Transports |-> calc[u]]
      /\ out \in [Transports -> {"none", "ok", "error"}]
      /\ \A u \in Transports : pc[u] \notin {"block", "done"} => block[u] > 0
      /\ \A u \in Transports : pc[u] \in Range(Stages(u)) /\ (pc[u] = "done" <=> out[u] # "none")
  BY <1>1 DEF TablesTypes, TablesTypeOK
<1>8. /\ pc' \in [Transports -> Multi] /\ at' \in [Transports -> 1 .. 2]
      /\ block' \in [Transports -> 0 .. Len(hist')]
      /\ out' \in [Transports -> {"none", "ok", "error"}]
      /\ \A u \in Transports : pc'[u] \notin {"block", "done"} => block'[u] > 0
  <2>1. pc' \in [Transports -> Multi] /\ at' \in [Transports -> 1 .. 2]
        /\ out' \in [Transports -> {"none", "ok", "error"}]
    BY <1>5, <1>6, <1>7
  <2>2. block' \in [Transports -> 0 .. Len(hist')]
    BY <1>3, <1>6, <1>7
  <2>3. \A u \in Transports : pc'[u] \notin {"block", "done"} => block'[u] > 0
    BY <1>6, <1>7
  <2> QED
    BY <2>1, <2>2, <2>3
<1>9. calc' = [u \in Transports |-> calc'[u]]
  BY <1>6, <1>7
<1>10. \A u \in Transports : /\ Range(Stages(u))' = Range(Stages(u))
                             /\ pc'[u] \in Range(Stages(u))
                             /\ pc'[u] = "done" <=> out'[u] # "none"
  <2>1. \A u \in Transports : Stages(u)' = Stages(u)
    BY <1>4 DEF Stages, Transporter
  <2>2. \A u \in Transports : Range(Stages(u))' = Range(Stages(u))
    BY <2>1
  <2> QED
    BY <1>6, <1>7, <2>2
<1>11. \A c \in Chains : /\ DOMAIN roots'[c] \subseteq 1 .. Len(hist')
                           /\ DOMAIN tables'[c] \subseteq DOMAIN roots'[c]
  BY <1>1, <1>2, PostsAreOfBlocks
<1>12. TablesTypeOK'
  <2>1. Len(ChainOrder) = 2
    BY DEF ChainOrder
  <2>2. /\ owner' \in [Chains -> Transports \cup {"other"}]
        /\ generator' \in [Chains -> Transports \cup {"other"}]
        /\ faults' \in 0 .. MaxFaults
    BY DEF Step
  <2>3. \A u \in Transports : at'[u] \in 1 .. 2
    BY <1>8
  <2> QED
    BY <1>3, <1>10, <1>11, <2>1, <2>2, <2>3 DEF TablesTypeOK, Now, Chains, ChainOrder, Registries
<1>13. roots' = [c \in Chains |-> roots'[c]] /\ tables' = [c \in Chains |-> tables'[c]]
  BY <1>2 DEF PostsGrow
<1> QED
  BY <1>3, <1>4, <1>8, <1>9, <1>12, <1>13 DEF TablesTypes, Chains

LEMMA StepKeepsTables ==
    ASSUME TablesInv, NEW t \in Transports, NEW s, NEW i, NEW o, NEW b, NEW v,
           Step(t, s, i, o, b, v)
    PROVE  TablesAreOfBlocks'
<1>1. TablesTypes /\ TablesAreOfBlocks
  BY DEF TablesInv
<1>2. SetupIsFixed /\ HistoryGrows /\ PostsGrow /\ Moved(t, s, i, o)
  BY DEF Step
<1>3. /\ pc' = [pc EXCEPT ![t] = s] /\ kind' = kind /\ reserved' = reserved
      /\ block' = [block EXCEPT ![t] = b] /\ calc' = [calc EXCEPT ![t] = v]
      /\ b \in 0 .. Len(hist) /\ (s \notin {"block", "done"} => b > 0)
      /\ PastRoot(t, s) => v = TableAt(b)
      /\ s = "verifier" => reserved /\ kind[t] # "single"
  BY <1>2 DEF Step, Moved, SetupIsFixed
<1>4. /\ pc \in [Transports -> Multi] /\ block \in [Transports -> 0 .. Len(hist)]
      /\ calc = [u \in Transports |-> calc[u]] /\ Len(hist) \in Nat
      /\ \A u \in Transports : pc[u] \notin {"block", "done"} => block[u] > 0
  BY <1>1 DEF TablesTypes, TablesTypeOK, Now
<1>5. /\ \A u \in Transports : HasCalculated(u) => calc[u] = TableAt(block[u])
      /\ \A u \in Transports : pc[u] = "verifier" => reserved /\ kind[u] # "single"
  BY <1>1 DEF TablesAreOfBlocks
<1>6. \A d \in 1 .. Len(hist) : TableAt(d)' = TableAt(d)
  BY <1>2, TableStays
<1>7. ASSUME NEW u \in Transports, HasCalculated(u)'
      PROVE  (calc[u] = TableAt(block[u]))'
  <2>0. PICK d : d = block'[u]
    OBVIOUS
  <2>1. PastRoot(u, pc'[u]) /\ pc'[u] \notin {"block", "done"}
    BY <1>3, <1>7 DEF HasCalculated, PastRoot
  <2>2. d \in 1 .. Len(hist)
    BY <1>3, <1>4, <2>0, <2>1
  <2>3. calc'[u] = TableAt(d)
    <3>1. CASE u = t
      BY <1>3, <1>4, <2>0, <2>1, <3>1
    <3>2. CASE u # t
      BY <1>3, <1>4, <1>5, <2>0, <2>1, <3>2 DEF HasCalculated
    <3> QED
      BY <3>1, <3>2
  <2>4. calc'[u] = TableAt(d)'
    BY <1>6, <2>2, <2>3
  <2> QED
    BY <2>0, <2>4
<1>8. \A u \in Transports : (pc[u] = "verifier" => reserved /\ kind[u] # "single")'
  BY <1>3, <1>4, <1>5
<1>9. \A c \in Chains :
        /\ \A d \in DOMAIN roots'[c] : roots'[c][d] = TableAt(d)'
        /\ \A d \in DOMAIN tables'[c] : tables'[c][d] = CalculatedTable(hist[d])'
        /\ HasLast(roots'[c]) /\ HasLast(tables'[c])
  BY <1>1, <1>2, PostsAreOfBlocks
<1> QED
  BY <1>7, <1>8, <1>9 DEF TablesAreOfBlocks, Chains, HasLast

LEMMA StepKeepsSuccess ==
    ASSUME TablesInv, NEW t \in Transports, NEW s, NEW i, NEW o, NEW b, NEW v,
           Step(t, s, i, o, b, v)
    PROVE  TransportsLeaveTables'
<1>1. TablesTypes /\ TablesAreOfBlocks /\ TransportsLeaveTables
  BY DEF TablesInv
<1>2. SetupIsFixed /\ HistoryGrows /\ PostsGrow /\ Moved(t, s, i, o)
  BY DEF Step
<1>3. /\ pc' = [pc EXCEPT ![t] = s] /\ at' = [at EXCEPT ![t] = i] /\ out' = [out EXCEPT ![t] = o]
      /\ block' = [block EXCEPT ![t] = b] /\ kind' = kind /\ chains' = chains
      /\ s = "verifier" /\ i = 2 /\ L1 \in chains => b <= Latest(tables'[L1])
      /\ o = "ok" /\ kind[t] # "single" => \A c \in chains : b <= Latest(tables'[c])
  BY <1>2 DEF Step, Moved, SetupIsFixed
<1>4. /\ pc \in [Transports -> Multi] /\ at \in [Transports -> 1 .. 2]
      /\ block \in [Transports -> 0 .. Len(hist)] /\ Len(hist) \in Nat
      /\ out \in [Transports -> {"none", "ok", "error"}]
      /\ kind \in [Transports -> {"ponos", "hgctl", "single"}]
      /\ chains \subseteq Chains /\ L1 \in Chains
  BY <1>1 DEF TablesTypes, TablesTypeOK, Now, Chains
<1>5. \A c \in Chains : /\ Latest(tables[c]) \in Nat /\ Latest(tables'[c]) \in Nat
                          /\ Latest(tables[c]) <= Latest(tables'[c])
  BY <1>1, <1>2, PostsAreOfBlocks
<1>6. \A u \in Transports : "verifier" \in Range(Stages(u)) <=> kind[u] # "single"
  BY <1>4, VerifierStage
<1>7. ASSUME NEW u \in Transports, kind[u] # "single", out'[u] = "ok", NEW c \in chains
      PROVE  block'[u] <= Latest(tables'[c])
  <2>1. CASE u = t
    BY <1>3, <1>4, <1>7, <2>1
  <2>2. CASE u # t
    <3>1. out[u] = "ok" /\ block'[u] = block[u] /\ block[u] \in Nat
      BY <1>3, <1>4, <1>7, <2>2
    <3>2. block[u] <= Latest(tables[c])
      BY <1>1, <1>6, <1>7, <3>1 DEF TransportsLeaveTables, SuccessMeansTable
    <3>3. c \in Chains
      BY <1>4
    <3> QED
      BY <1>5, <3>1, <3>2, <3>3
  <2> QED
    BY <2>1, <2>2
<1>8. SuccessMeansTable'
  <2>1. \A u \in Transports : Range(Stages(u))' = Range(Stages(u))
    BY <1>3 DEF Stages, Transporter
  <2>2. \A u \in Transports : "verifier" \in Range(Stages(u))' <=> kind[u] # "single"
    BY <1>6, <2>1
  <2> QED
    BY <1>3, <1>7, <2>2 DEF SuccessMeansTable
<1>9. ASSUME NEW u \in Transports, pc'[u] = "verifier", at'[u] = 2, L1 \in chains
      PROVE  block'[u] <= Latest(tables'[L1])
  <2>1. CASE u = t
    BY <1>3, <1>4, <1>9, <2>1
  <2>2. CASE u # t
    <3>1. pc[u] = "verifier" /\ at[u] = 2 /\ block'[u] = block[u] /\ block[u] \in Nat
      BY <1>3, <1>4, <1>9, <2>2
    <3>2. block[u] <= Latest(tables[L1])
      BY <1>1, <1>9, <3>1 DEF TransportsLeaveTables
    <3> QED
      BY <1>4, <1>5, <3>1, <3>2
  <2> QED
    BY <2>1, <2>2
<1> QED
  BY <1>3, <1>8, <1>9 DEF TransportsLeaveTables

(* What is read at a block that exists does not change with the registry. *)
LEMMA ReadsStay ==
    ASSUME HistoryGrows, SetupIsFixed, UNCHANGED task,
           getL1BlockForChainBlock(task) \in 1 .. Len(hist),
           curve = "BN254" => task.root \in 1 .. Len(hist)
    PROVE  /\ PeersForTask(task)' = PeersForTask(task)
           /\ NilEntries(getL1BlockForChainBlock(task))' = NilEntries(getL1BlockForChainBlock(task))
<1> DEFINE b == getL1BlockForChainBlock(task)
<1>1. getL1BlockForChainBlock(task)' = b
  BY DEF getL1BlockForChainBlock
<1>2. hist'[b] = hist[b] /\ curve' = curve /\ task' = task
  BY DEF HistoryGrows, SetupIsFixed
<1>3. curve = "BN254" => hist'[task.root] = hist[task.root]
  BY DEF HistoryGrows
<1>4. /\ WeightsAt(b)' = WeightsAt(b) /\ Peers(b)' = Peers(b)
      /\ NilEntries(b)' = NilEntries(b)
  BY <1>1, <1>2 DEF WeightsAt, Peers, NilEntries, HasDetails
<1>5. curve = "BN254" => GetOperatorInfos(task)' = GetOperatorInfos(task)
  BY <1>2, <1>3 DEF GetOperatorInfos
<1>6. GetOperatorInfoTreeRoot(task)' = GetOperatorInfoTreeRoot(task)
  BY <1>2 DEF GetOperatorInfoTreeRoot
<1> QED
  BY <1>1, <1>2, <1>4, <1>5, <1>6 DEF PeersForTask, filterOperatorsForSet

LEMMA TaskStays ==
    ASSUME TablesTypes, TaskIsOfItsBlock, HistoryGrows, SetupIsFixed, UNCHANGED task
    PROVE  TaskIsOfItsBlock'
<1>1. Len(hist) \in Nat /\ Len(hist') \in Nat /\ Len(hist) <= Len(hist')
  BY DEF TablesTypes, TablesTypeOK, Now, HistoryGrows
<1>2. \A b \in 1 .. Len(hist) : CalculatedTable(hist[b])' = CalculatedTable(hist[b])
  BY TableStays
<1> QED
  BY <1>1, <1>2 DEF TaskIsOfItsBlock, NoTask, Chains

LEMMA SessionStays ==
    ASSUME TablesTypes, TaskIsOfItsBlock, SessionIsOfItsTask, HistoryGrows, SetupIsFixed,
           UNCHANGED <<task, session>>
    PROVE  SessionIsOfItsTask'
<1>1. Given' = Given /\ getL1BlockForChainBlock(task)' = getL1BlockForChainBlock(task)
  BY DEF Given, Chains, getL1BlockForChainBlock
<1>2. CASE ~Given
  BY <1>1, <1>2 DEF SessionIsOfItsTask
<1>3. CASE Given
  <2>1. /\ task # NoTask /\ getL1BlockForChainBlock(task) > 0
        /\ curve = "BN254" => task.root > 0
        /\ NilEntries(getL1BlockForChainBlock(task)) = {}
        /\ session = PeersForTask(task)
    BY <1>3 DEF SessionIsOfItsTask
  <2>2. task.block \in 1 .. Len(hist) /\ task.root \in 0 .. Len(hist) /\ Len(hist) \in Nat
    BY <2>1 DEF TaskIsOfItsBlock, TablesTypes, TablesTypeOK, Now
  <2>3. /\ getL1BlockForChainBlock(task) \in 1 .. Len(hist)
        /\ curve = "BN254" => task.root \in 1 .. Len(hist)
    BY <2>1, <2>2 DEF getL1BlockForChainBlock
  <2>4. /\ PeersForTask(task)' = PeersForTask(task)
        /\ NilEntries(getL1BlockForChainBlock(task))' = NilEntries(getL1BlockForChainBlock(task))
    BY <2>3, ReadsStay
  <2>5. curve' = curve /\ task' = task /\ session' = session /\ NoTask' = NoTask
    BY DEF SetupIsFixed, NoTask
  <2> QED
    BY <1>1, <2>1, <2>4, <2>5 DEF SessionIsOfItsTask
<1> QED
  BY <1>2, <1>3

LEMMA StepKeepsInv ==
    ASSUME TablesInv, NEW t \in Transports, NEW s, NEW i, NEW o, NEW b, NEW v,
           Step(t, s, i, o, b, v)
    PROVE  TablesInv'
<1>1. TablesTypes' /\ TablesAreOfBlocks' /\ TransportsLeaveTables'
  BY StepKeepsTypes, StepKeepsTables, StepKeepsSuccess
<1>2. TaskIsOfItsBlock' /\ SessionIsOfItsTask'
  BY TaskStays, SessionStays DEF Step, TablesInv
<1> QED
  BY <1>1, <1>2 DEF TablesInv

-----------------------------------------------------------------------------
(* Steps that keep the transport's block and table. *)

Quiet ==
    /\ SetupIsFixed /\ HistoryGrows /\ PostsGrow
    /\ owner' \in [Chains -> Transports \cup {"other"}]
    /\ generator' \in [Chains -> Transports \cup {"other"}]
    /\ faults' \in 0 .. MaxFaults
    /\ UNCHANGED <<task, session, block, calc>>

Legal(t, s, i, o) ==
    /\ s \in Range(Stages(t)) /\ i \in 1 .. 2 /\ o \in {"none", "ok", "error"}
    /\ s = "done" <=> o # "none"
    /\ s # "done" => pc[t] \notin {"block", "done"}
    /\ PastRoot(t, s) => HasCalculated(t)
    /\ s = "verifier" => /\ reserved /\ kind[t] # "single"
                         /\ i = 2 /\ L1 \in chains => block[t] <= Latest(tables'[L1])
    /\ o = "ok" /\ kind[t] # "single" => \A c \in chains : block[t] <= Latest(tables'[c])

LEMMA LegalKeepsInv ==
    ASSUME TablesInv, Quiet, NEW t \in Transports, NEW s, NEW i, NEW o,
           Moved(t, s, i, o), Legal(t, s, i, o)
    PROVE  TablesInv'
<1>1. /\ block \in [Transports -> 0 .. Len(hist)] /\ calc = [u \in Transports |-> calc[u]]
      /\ pc[t] \notin {"block", "done"} => block[t] > 0
      /\ HasCalculated(t) => calc[t] = TableAt(block[t])
  BY DEF TablesInv, TablesTypes, TablesAreOfBlocks
<1>2. /\ block' = [block EXCEPT ![t] = block[t]] /\ block[t] \in 0 .. Len(hist)
      /\ calc' = [calc EXCEPT ![t] = calc[t]]
  BY <1>1 DEF Quiet
<1>3. /\ s \notin {"block", "done"} => block[t] > 0
      /\ PastRoot(t, s) => calc[t] = TableAt(block[t])
  BY <1>1 DEF Legal
<1>4. Step(t, s, i, o, block[t], calc[t])
  BY <1>2, <1>3 DEF Step, Quiet, Legal
<1> QED
  BY <1>4, StepKeepsInv

(* Where a transport is. *)
LEMMA TransportIs ==
    ASSUME TablesInv, NEW t \in Transports
    PROVE  /\ kind[t] \in {"ponos", "hgctl", "single"}
           /\ pc[t] \in Range(Stages(t)) /\ at[t] \in 1 .. 2
           /\ Range(Stages(t)) = IF kind[t] = "single" THEN Single ELSE Multi
           /\ pc[t] = "done" <=> out[t] # "none"
           /\ out[t] \in {"none", "ok", "error"}
           /\ block[t] \in 0 .. Len(hist) /\ Len(hist) \in Nat
           /\ pc[t] \notin {"block", "done"} => block[t] > 0
<1>1. kind[t] \in {"ponos", "hgctl", "single"}
  BY DEF TablesInv, TablesTypes
<1> QED
  BY <1>1, StagesAre DEF TablesInv, TablesTypes, TablesTypeOK, Now

LEMMA QuietAbort ==
    ASSUME TablesInv, Quiet, NEW t \in Transports, Abort(t)
    PROVE  TablesInv'
<1>1. Moved(t, "done", at[t], "error")
  BY AbortMoves DEF TablesInv
<1>2. Legal(t, "done", at[t], "error")
  BY TransportIs DEF Legal, PastRoot, Single, Multi
<1> QED
  BY <1>1, <1>2, LegalKeepsInv

(* The end of a loop. *)
LEMMA QuietFinish ==
    ASSUME TablesInv, Quiet, NEW t \in Transports, Finish(t),
           pc[t] \notin {"block", "root", "owner", "done"},
           pc[t] = "tables" /\ kind[t] # "single" => reserved,
           pc[t] = "verifier" => \A c \in chains : block[t] <= Latest(tables'[c])
    PROVE  TablesInv'
<1>1. /\ kind[t] \in {"ponos", "hgctl", "single"} /\ pc[t] \in Range(Stages(t))
      /\ Range(Stages(t)) = IF kind[t] = "single" THEN Single ELSE Multi
      /\ out[t] = "none"
  BY TransportIs
<1>2. \/ After(t, pc[t]) = "done" /\ Moved(t, "done", 1, "ok")
      \/ After(t, pc[t]) # "done" /\ Moved(t, After(t, pc[t]), 1, out[t])
  BY FinishMoves DEF TablesInv
<1> DEFINE s == After(t, pc[t])
<1>3. CASE kind[t] = "single"
  <2>1. \/ (pc[t] = "generator" /\ s = "global") \/ (pc[t] = "global" /\ s = "tables")
        \/ (pc[t] = "tables" /\ s = "done")
    BY <1>1, <1>3, AfterSingle DEF Single
  <2> HIDE DEF s
  <2>2. CASE s = "done"
    <3>1. Legal(t, "done", 1, "ok")
      BY <1>1, <1>3 DEF Legal, PastRoot, Single
    <3> QED
      BY <1>2, <2>2, <3>1, LegalKeepsInv DEF s
  <2>3. CASE s # "done"
    <3>1. Legal(t, s, 1, out[t])
      BY <1>1, <1>3, <2>1, <2>3 DEF Legal, PastRoot, HasCalculated, Single
    <3> QED
      BY <1>2, <2>3, <3>1, LegalKeepsInv DEF s
  <2> QED
    BY <2>2, <2>3
<1>4. CASE kind[t] # "single"
  <2>1. \/ (pc[t] = "curve" /\ s = "keys") \/ (pc[t] = "keys" /\ s = "owner")
        \/ (pc[t] = "generator" /\ s = "root") \/ (pc[t] = "global" /\ s = "tables")
        \/ (pc[t] = "tables" /\ s = "verifier") \/ (pc[t] = "verifier" /\ s = "done")
    BY <1>1, <1>4, AfterMulti DEF Multi
  <2> HIDE DEF s
  <2>2. CASE s = "done"
    <3>1. Legal(t, "done", 1, "ok")
      BY <1>1, <1>4, <2>1, <2>2 DEF Legal, PastRoot, Multi
    <3> QED
      BY <1>2, <2>2, <3>1, LegalKeepsInv DEF s
  <2>3. CASE s # "done"
    <3>1. Legal(t, s, 1, out[t])
      BY <1>1, <1>4, <2>1, <2>3 DEF Legal, PastRoot, HasCalculated, Multi
    <3> QED
      BY <1>2, <2>3, <3>1, LegalKeepsInv DEF s
  <2> QED
    BY <2>2, <2>3
<1> QED
  BY <1>3, <1>4

(* The chain a loop is at, and what it has behind it. *)
LEMMA ChainAt ==
    ASSUME TablesInv, NEW t \in Transports, NEW c
    PROVE  AtChain(t, c) <=> c = IF at[t] = 1 THEN L1 ELSE L2
<1>1. at[t] \in 1 .. 2
  BY TransportIs
<1> QED
  BY <1>1 DEF AtChain, ChainOrder

LEMMA QuietNext ==
    ASSUME TablesInv, Quiet, NEW t \in Transports, NextChain(t),
           pc[t] \in {"owner", "global", "tables", "verifier"},
           pc[t] = "owner" => at[t] = 1,
           pc[t] = "tables" /\ kind[t] # "single" => reserved,
           pc[t] = "verifier" => \A c \in chains : AtChain(t, c) =>
                                     block[t] <= Latest(tables'[c])
    PROVE  TablesInv'
<1>0. at[t] \in 1 .. 2 /\ chains \subseteq {L1, L2} /\ block[t] \in Nat
  BY TransportIs DEF TablesInv, TablesTypes, Chains
<1>1. ASSUME pc[t] = "verifier", L1 \in chains
      PROVE  block[t] <= Latest(tables'[L1])
  <2>1. CASE at[t] = 1
    BY <1>1, <2>1, ChainAt
  <2>2. CASE at[t] = 2
    <3>1. block[t] <= Latest(tables[L1])
      BY <1>1, <2>2 DEF TablesInv, TransportsLeaveTables
    <3>2. /\ Latest(tables[L1]) \in Nat /\ Latest(tables'[L1]) \in Nat
          /\ Latest(tables[L1]) <= Latest(tables'[L1])
      BY PostsAreOfBlocks DEF TablesInv, Quiet, Chains
    <3> QED
      BY <1>0, <3>1, <3>2
  <2> QED
    BY <1>0, <2>1, <2>2
<1>2. CASE at[t] = 2 /\ Finish(t)
  <2>1. pc[t] = "verifier" => \A c \in chains : block[t] <= Latest(tables'[c])
    BY <1>0, <1>1, <1>2, ChainAt
  <2> QED
    BY <1>2, <2>1, QuietFinish
<1>3. CASE at[t] = 1 /\ Moved(t, pc[t], 2, out[t])
  <2>1. pc[t] = "verifier" => reserved /\ kind[t] # "single"
    BY DEF TablesInv, TablesAreOfBlocks
  <2>2. Legal(t, pc[t], 2, out[t])
    BY <1>1, <2>1, TransportIs DEF Legal, HasCalculated
  <2> QED
    BY <1>3, <2>2, LegalKeepsInv
<1> QED
  BY <1>2, <1>3, NextChainMoves DEF TablesInv

LEMMA QuietBack ==
    ASSUME TablesInv, Quiet, NEW t \in Transports, BackToOwner(t), pc[t] = "generator"
    PROVE  TablesInv'
<1>1. CASE Finish(t)
  BY <1>1, QuietFinish
<1>2. CASE Moved(t, "owner", 2, out[t])
  <2>1. Legal(t, "owner", 2, out[t])
    BY TransportIs DEF Legal, PastRoot, HasCalculated, Single, Multi
  <2> QED
    BY <1>2, <2>1, LegalKeepsInv
<1> QED
  BY <1>1, <1>2, BackToOwnerMoves DEF TablesInv

LEMMA StillIsQuiet ==
    ASSUME TablesInv,
           UNCHANGED <<curve, reserved, chains, kind, hist, owner, generator, roots, tables,
                       block, calc, task, session>>,
           faults' = faults \/ (faults < MaxFaults /\ faults' = faults + 1)
    PROVE  Quiet
<1>1. HistoryGrows /\ PostsGrow
  BY HistoryStays, PostsStay DEF TablesInv
<1> QED
  BY <1>1, TablesAssumption DEF Quiet, SetupIsFixed, TablesInv, TablesTypes, TablesTypeOK

(* Only the registry's history grows. *)
LEMMA HistoryIsQuiet ==
    ASSUME TablesInv, HistoryGrows,
           UNCHANGED <<curve, reserved, chains, kind, owner, generator, roots, tables,
                       block, calc, task, session>>,
           faults' = faults \/ (faults < MaxFaults /\ faults' = faults + 1)
    PROVE  Quiet
<1>1. PostsGrow
  BY PostsStay DEF TablesInv
<1> QED
  BY <1>1, TablesAssumption DEF Quiet, SetupIsFixed, TablesInv, TablesTypes, TablesTypeOK

LEMMA ChooseBlockStep ==
    ASSUME TablesInv, NEW t \in Transports, ChooseBlock(t)
    PROVE  TablesInv'
<1> DEFINE s == IF kind[t] = "single" THEN "root" ELSE "curve"
<1>1. /\ kind[t] \in {"ponos", "hgctl", "single"} /\ out[t] = "none" /\ Len(hist) \in Nat \ {0}
      /\ Range(Stages(t)) = IF kind[t] = "single" THEN Single ELSE Multi
  BY TransportIs DEF ChooseBlock, TablesInv, TablesTypes, TablesTypeOK, Now
<1>2. pc[t] = "block" /\ Finish(t)
  BY DEF ChooseBlock
<1>3. After(t, pc[t]) = s
  BY <1>1, <1>2, AfterSingle, AfterMulti
<1>4. Moved(t, s, 1, "none")
  BY <1>1, <1>2, <1>3, FinishMoves DEF TablesInv
<1>5. HistoryGrows /\ PostsGrow /\ SetupIsFixed
  BY HistoryStays, PostsStay DEF TablesInv, ChooseBlock, setVars, chainVars, SetupIsFixed
<1>6. /\ block' = [block EXCEPT ![t] = Len(hist)] /\ calc' = [calc EXCEPT ![t] = calc[t]]
      /\ UNCHANGED <<task, session, owner, generator, faults>>
  BY DEF ChooseBlock, Now, chainVars, taskVars, TablesInv, TablesTypes
<1>7. /\ owner' \in [Chains -> Transports \cup {"other"}]
      /\ generator' \in [Chains -> Transports \cup {"other"}]
      /\ faults' \in 0 .. MaxFaults
  BY <1>6 DEF TablesInv, TablesTypes, TablesTypeOK
<1>8. Step(t, s, 1, "none", Len(hist), calc[t])
  BY <1>1, <1>4, <1>5, <1>6, <1>7 DEF Step, PastRoot, Single, Multi
<1> QED
  BY <1>8, StepKeepsInv

LEMMA CalculateStep ==
    ASSUME TablesInv, NEW t \in Transports, CalculateStakeTableRoot(t)
    PROVE  TablesInv'
<1> DEFINE s == IF kind[t] = "single" THEN "owner" ELSE "global"
<1>1. /\ kind[t] \in {"ponos", "hgctl", "single"} /\ out[t] = "none"
      /\ block[t] \in 0 .. Len(hist) /\ block[t] > 0
      /\ Range(Stages(t)) = IF kind[t] = "single" THEN Single ELSE Multi
  BY TransportIs DEF CalculateStakeTableRoot
<1>2. pc[t] = "root" /\ Finish(t)
  BY DEF CalculateStakeTableRoot
<1>3. After(t, pc[t]) = s
  BY <1>1, <1>2, AfterSingle, AfterMulti
<1>4. Moved(t, s, 1, "none")
  BY <1>1, <1>2, <1>3, FinishMoves DEF TablesInv
<1>5. HistoryGrows /\ PostsGrow /\ SetupIsFixed
  BY HistoryStays, PostsStay DEF TablesInv, CalculateStakeTableRoot, setVars, chainVars,
     SetupIsFixed
<1>6. /\ block' = [block EXCEPT ![t] = block[t]]
      /\ UNCHANGED <<task, session, owner, generator, faults>>
  BY DEF CalculateStakeTableRoot, chainVars, taskVars, TablesInv, TablesTypes
<1>7. calc' = [calc EXCEPT ![t] = TableAt(block[t])]
  BY DEF CalculateStakeTableRoot, TableAt
<1>8. /\ owner' \in [Chains -> Transports \cup {"other"}]
      /\ generator' \in [Chains -> Transports \cup {"other"}]
      /\ faults' \in 0 .. MaxFaults
  BY <1>6 DEF TablesInv, TablesTypes, TablesTypeOK
<1>9. Step(t, s, 1, "none", block[t], TableAt(block[t]))
  BY <1>1, <1>4, <1>5, <1>6, <1>7, <1>8 DEF Step, Single, Multi
<1> QED
  BY <1>9, StepKeepsInv

LEMMA PassOverStep ==
    ASSUME TablesInv, NEW t \in Transports, PassOver(t)
    PROVE  TablesInv'
<1>1. Quiet
  BY StillIsQuiet DEF PassOver, setVars, chainVars, taskVars
<1>2. /\ kind[t] \in {"ponos", "hgctl", "single"} /\ at[t] \in 1 .. 2
      /\ pc[t] = "done" <=> out[t] # "none"
      /\ Range(Stages(t)) = IF kind[t] = "single" THEN Single ELSE Multi
      /\ LastChain(t) <=> at[t] = 2
  BY TransportIs DEF LastChain, ChainOrder
<1>3. CASE pc[t] = "owner" /\ LastChain(t)
  <2> DEFINE s == IF kind[t] = "single" THEN "global" ELSE "root"
  <2>1. After(t, "generator") = s
    BY <1>2, AfterSingle, AfterMulti
  <2>2. pc' = [pc EXCEPT ![t] = s] /\ at' = [at EXCEPT ![t] = 1] /\ out' = out
    BY <1>3, <2>1 DEF PassOver
  <2>3. Moved(t, s, 1, out[t])
    BY <2>2 DEF Moved, TablesInv, TablesTypes
  <2>4. Legal(t, s, 1, out[t])
    BY <1>2, <1>3 DEF Legal, PastRoot, HasCalculated, Single, Multi
  <2> QED
    BY <1>1, <2>3, <2>4, LegalKeepsInv
<1>4. CASE ~(pc[t] = "owner" /\ LastChain(t))
  <2>1. /\ NextChain(t) /\ pc[t] \in {"owner", "global", "tables", "verifier"}
        /\ pc[t] = "owner" => at[t] = 1
    BY <1>2, <1>4 DEF PassOver
  <2>2. pc[t] = "tables" /\ kind[t] # "single" => reserved
    BY <1>2, WarnsAre DEF PassOver, OurSetMissing
  <2>3. ASSUME pc[t] = "verifier", NEW c \in chains PROVE ~AtChain(t, c)
    <3>1. PICK d \in Chains : AtChain(t, d) /\ d \notin chains
      BY <2>3 DEF PassOver, Listed
    <3> QED
      BY <2>3, <3>1, ChainAt
  <2> QED
    BY <1>1, <2>1, <2>2, <2>3, QuietNext
<1> QED
  BY <1>3, <1>4

LEMMA RequestFailsStep ==
    ASSUME TablesInv, NEW t \in Transports,
           RequestFails(t) \/ OurSetNotFound(t)
    PROVE  TablesInv'
<1>1. Abort(t) /\ Quiet
  BY StillIsQuiet DEF RequestFails, OurSetNotFound, setVars, chainVars, taskVars
<1> QED
  BY <1>1, QuietAbort

LEMMA LastRegistry ==
    ASSUME TablesInv
    PROVE  hist[Len(hist)] \in Registries
  BY DEF TablesInv, TablesTypes, TablesTypeOK, Now

LEMMA CurveStep ==
    ASSUME TablesInv, NEW t \in Transports,
           configureCurveTypeAsAVS(t) \/ ConfigureBlindly(t)
    PROVE  TablesInv'
<1>1. HistoryGrows
  <2>1. UNCHANGED hist \/ InNewBlock([hist[Len(hist)] EXCEPT !.curve = TRUE])
    BY DEF configureCurveTypeAsAVS, ConfigureBlindly, Now
  <2>2. [hist[Len(hist)] EXCEPT !.curve = TRUE] \in Registries
    BY LastRegistry DEF Registries
  <2> QED
    BY <2>1, <2>2, HistoryStays, HistoryAppends DEF TablesInv
<1>2. Quiet
  BY <1>1, HistoryIsQuiet DEF configureCurveTypeAsAVS, ConfigureBlindly, setVars,
     chainVars, taskVars
<1>3. pc[t] = "curve" /\ Finish(t)
  BY DEF configureCurveTypeAsAVS, ConfigureBlindly
<1> QED
  BY <1>2, <1>3, QuietFinish

LEMMA KeysStep ==
    ASSUME TablesInv, NEW t \in Transports, registerOperatorKeys(t)
    PROVE  TablesInv'
<1>1. HistoryGrows
  <2>1. \/ UNCHANGED hist
        \/ \E k \in Registers[t] :
              InNewBlock([hist[Len(hist)] EXCEPT !.keyed = @ \cup {k}])
    BY DEF registerOperatorKeys, RegisterKey, Unregistered, Now
  <2>2. \A k \in Registers[t] : [hist[Len(hist)] EXCEPT !.keyed = @ \cup {k}] \in Registries
    <3>1. Registers[t] \subseteq Ops
      BY TablesAssumption
    <3> QED
      BY <3>1, LastRegistry DEF Registries
  <2> QED
    BY <2>1, <2>2, HistoryStays, HistoryAppends DEF TablesInv
<1>2. Quiet
  BY <1>1, HistoryIsQuiet DEF registerOperatorKeys, setVars, chainVars, taskVars
<1>3. pc[t] = "keys"
  BY DEF registerOperatorKeys
<1>4. CASE Finish(t)
  BY <1>2, <1>3, <1>4, QuietFinish
<1>5. CASE UNCHANGED <<pc, at, out>>
  <2>1. Moved(t, pc[t], at[t], out[t])
    BY <1>5 DEF Moved, TablesInv, TablesTypes
  <2>2. Legal(t, pc[t], at[t], out[t])
    BY <1>3, TransportIs DEF Legal, HasCalculated
  <2> QED
    BY <1>2, <2>1, <2>2, LegalKeepsInv
<1> QED
  BY <1>4, <1>5 DEF registerOperatorKeys

LEMMA OwnerStep ==
    ASSUME TablesInv, NEW t \in Transports, transferOwnership(t)
    PROVE  TablesInv'
<1>1. PICK c \in Chains :
        /\ Due(t, "owner", c)
        /\ \/ owner' = [owner EXCEPT ![c] = t] /\ UNCHANGED faults
           \/ faults < MaxFaults /\ faults' = faults + 1 /\ UNCHANGED owner
        /\ pc' = [pc EXCEPT ![t] = "generator"]
        /\ UNCHANGED <<setVars, hist, generator, roots, tables, at, block, calc, out, taskVars>>
  BY DEF transferOwnership
<1>2. HistoryGrows /\ PostsGrow
  BY <1>1, HistoryStays, PostsStay DEF TablesInv
<1>3. /\ owner' \in [Chains -> Transports \cup {"other"}]
      /\ generator' \in [Chains -> Transports \cup {"other"}]
      /\ faults' \in 0 .. MaxFaults
  <2>1. /\ owner \in [Chains -> Transports \cup {"other"}]
        /\ generator \in [Chains -> Transports \cup {"other"}]
        /\ faults \in 0 .. MaxFaults /\ MaxFaults \in Nat
    BY TablesAssumption DEF TablesInv, TablesTypes, TablesTypeOK
  <2>2. faults' \in 0 .. MaxFaults
    BY <1>1, <2>1
  <2> QED
    BY <1>1, <2>1, <2>2
<1>4. Quiet
  BY <1>1, <1>2, <1>3 DEF Quiet, SetupIsFixed, setVars, taskVars
<1>5. Moved(t, "generator", at[t], out[t])
  BY <1>1 DEF Moved, TablesInv, TablesTypes
<1>6. pc[t] = "owner"
  BY <1>1 DEF Due
<1>7. Legal(t, "generator", at[t], out[t])
  BY <1>6, TransportIs DEF Legal, PastRoot, HasCalculated, Single, Multi
<1> QED
  BY <1>4, <1>5, <1>7, LegalKeepsInv

LEMMA GeneratorStep ==
    ASSUME TablesInv, NEW t \in Transports, updateGeneratorFromContext(t)
    PROVE  TablesInv'
<1>1. PICK c \in Chains :
        /\ pc[t] = "generator"
        /\ generator' = [generator EXCEPT ![c] = t] \/ UNCHANGED generator
        /\ faults' = faults \/ (faults < MaxFaults /\ faults' = faults + 1)
        /\ BackToOwner(t) \/ Abort(t)
        /\ UNCHANGED <<setVars, hist, owner, roots, tables, block, calc, taskVars>>
  BY DEF updateGeneratorFromContext, Due, GeneratorOf
<1>2. HistoryGrows /\ PostsGrow
  BY <1>1, HistoryStays, PostsStay DEF TablesInv
<1>3. /\ owner' \in [Chains -> Transports \cup {"other"}]
      /\ generator' \in [Chains -> Transports \cup {"other"}]
      /\ faults' \in 0 .. MaxFaults
  <2>1. /\ owner \in [Chains -> Transports \cup {"other"}]
        /\ generator \in [Chains -> Transports \cup {"other"}]
        /\ faults \in 0 .. MaxFaults /\ MaxFaults \in Nat
    BY TablesAssumption DEF TablesInv, TablesTypes, TablesTypeOK
  <2>2. faults' \in 0 .. MaxFaults
    BY <1>1, <2>1
  <2> QED
    BY <1>1, <2>1, <2>2
<1>4. Quiet
  BY <1>1, <1>2, <1>3 DEF Quiet, SetupIsFixed, setVars, taskVars
<1> QED
  BY <1>1, <1>4, QuietBack, QuietAbort

(* A chain's roots, or its tables, change alone. *)
LEMMA PostIsQuiet ==
    ASSUME TablesInv, PostsGrow,
           UNCHANGED <<curve, reserved, chains, kind, hist, owner, generator, block, calc,
                       task, session, faults>>
    PROVE  Quiet
<1>1. HistoryGrows
  BY HistoryStays DEF TablesInv
<1> QED
  BY <1>1 DEF Quiet, SetupIsFixed, TablesInv, TablesTypes, TablesTypeOK

LEMMA GlobalRootStep ==
    ASSUME TablesInv, NEW t \in Transports,
           SignAndTransportGlobalTableRoot(t)
    PROVE  TablesInv'
<1>1. PICK c \in Chains :
        /\ pc[t] = "global"
        /\ IF RootAccepted(t, c)
           THEN /\ roots' = [roots EXCEPT ![c] = With(roots[c], block[t], calc[t])]
                /\ NextChain(t)
           ELSE Abort(t) /\ UNCHANGED roots
        /\ UNCHANGED <<setVars, hist, owner, generator, tables, block, calc, taskVars, faults>>
  BY DEF SignAndTransportGlobalTableRoot, Due
<1>2. roots = [d \in Chains |-> roots[d]] /\ tables = [d \in Chains |-> tables[d]]
  BY DEF TablesInv, TablesTypes
<1>3. CASE RootAccepted(t, c)
  <2>1. roots' = [roots EXCEPT ![c] = With(roots[c], block[t], calc[t])] /\ NextChain(t)
    BY <1>1, <1>3
  <2>2. Posts(t, roots[c], With(roots[c], block[t], calc[t]))
    BY <1>1, <1>3 DEF RootAccepted, Posts, HasCalculated, PastRoot
  <2>3. PostsGrow
    BY <1>1, <1>2, <2>1, <2>2 DEF PostsGrow
  <2>4. Quiet
    BY <1>1, <2>3, PostIsQuiet DEF setVars, taskVars
  <2> QED
    BY <1>1, <2>1, <2>4, QuietNext
<1>4. CASE ~RootAccepted(t, c)
  <2>1. Quiet
    BY <1>1, <1>4, StillIsQuiet DEF setVars, taskVars
  <2> QED
    BY <1>1, <1>4, <2>1, QuietAbort
<1> QED
  BY <1>3, <1>4

(* A table that the verifier of chain c accepts. *)
LEMMA TablePosted ==
    ASSUME TablesInv, NEW t \in Transports, NEW c \in Chains, reserved,
           HasCalculated(t), Proven(t, c), ~PastTimestamp(t, c),
           tables' = WithTable(t, c),
           UNCHANGED <<curve, reserved, chains, kind, hist, owner, generator, roots, block,
                       calc, task, session, faults>>
    PROVE  Quiet /\ block[t] <= Latest(tables'[c])
<1>1. /\ roots = [d \in Chains |-> roots[d]] /\ tables = [d \in Chains |-> tables[d]]
      /\ HasLast(tables[c]) /\ DOMAIN tables[c] \subseteq Nat /\ block[t] \in Nat
  <2>1. DOMAIN tables[c] \subseteq 1 .. Len(hist)
    BY DEF TablesInv, TablesTypes, TablesTypeOK, Now
  <2>2. block[t] \in Nat
    BY TransportIs
  <2> QED
    BY <2>1, <2>2 DEF TablesInv, TablesTypes, TablesAreOfBlocks
<1>2. Latest(tables[c]) \in Nat
  BY <1>1, LatestIs
<1>3. block[t] > Latest(tables[c]) /\ block[t] \in DOMAIN roots[c]
  BY <1>1, <1>2 DEF PastTimestamp, Proven
<1>4. tables' = [tables EXCEPT ![c] = With(tables[c], block[t], calc[t])]
  BY DEF WithTable
<1>5. Posts(t, tables[c], With(tables[c], block[t], calc[t]))
  BY <1>3 DEF Posts
<1>6. PostsGrow
  BY <1>1, <1>3, <1>4, <1>5 DEF PostsGrow
<1>7. Latest(tables'[c]) = block[t]
  <2>0. PICK n \in Nat : n = block[t]
    BY <1>1
  <2> DEFINE f == tables[c]
             g == With(f, n, calc[t])
  <2>1. tables'[c] = g
    BY <1>1, <1>4, <2>0
  <2>2. Latest(g) = n
    <3> DEFINE v == calc[t]
    <3>1. HasLast(f) /\ DOMAIN f \subseteq Nat /\ n > Latest(f)
      BY <1>1, <1>3, <2>0
    <3>2. g = With(f, n, v)
      OBVIOUS
    <3> HIDE DEF f, g, v
    <3> QED
      BY <3>1, <3>2, WithNewer, Zenon
  <2> QED
    BY <2>0, <2>1, <2>2
<1> QED
  BY <1>1, <1>6, <1>7, PostIsQuiet

LEMMA AvsTableStep ==
    ASSUME TablesInv, NEW t \in Transports, SignAndTransportAvsStakeTable(t)
    PROVE  TablesInv'
<1>1. PICK c \in Chains :
        /\ pc[t] = "tables" /\ ~OurSetMissing(t)
        /\ IF reserved /\ Proven(t, c) /\ ~PastTimestamp(t, c)
           THEN tables' = WithTable(t, c) /\ NextChain(t)
           ELSE UNCHANGED tables /\ (NextChain(t) \/ Abort(t))
        /\ UNCHANGED <<setVars, hist, owner, generator, roots, block, calc, taskVars, faults>>
  BY DEF SignAndTransportAvsStakeTable, Due
<1>2. kind[t] # "single" => reserved
  BY <1>1, TransportIs, WarnsAre DEF OurSetMissing
<1>3. Quiet
  <2>1. CASE UNCHANGED tables
    BY <1>1, <2>1, StillIsQuiet DEF setVars, taskVars
  <2>2. CASE reserved /\ Proven(t, c) /\ ~PastTimestamp(t, c)
    <3>1. HasCalculated(t)
      BY <1>1 DEF HasCalculated, PastRoot
    <3> QED
      BY <1>1, <2>2, <3>1, TablePosted DEF setVars, taskVars
  <2> QED
    BY <1>1, <2>1, <2>2
<1>4. CASE NextChain(t)
  BY <1>1, <1>2, <1>3, <1>4, QuietNext
<1>5. CASE Abort(t)
  BY <1>3, <1>5, QuietAbort
<1> QED
  BY <1>1, <1>4, <1>5

LEMMA TableFailsStep ==
    ASSUME TablesInv, NEW t \in Transports, TableRequestFails(t)
    PROVE  TablesInv'
<1>1. pc[t] = "tables" /\ NextChain(t) /\ WarnsOf(t, "tables")
  BY DEF TableRequestFails
<1>2. kind[t] = "single"
  BY <1>1, TransportIs, WarnsAre
<1>3. Quiet
  BY StillIsQuiet DEF TableRequestFails, setVars, chainVars, taskVars
<1> QED
  BY <1>1, <1>2, <1>3, QuietNext

LEMMA VerifierStep ==
    ASSUME TablesInv, NEW t \in Transports, updateOperatorTableInVerifier(t)
    PROVE  TablesInv'
<1>1. PICK c \in Chains :
        /\ pc[t] = "verifier" /\ AtChain(t, c)
        /\ IF PastTimestamp(t, c)
           THEN NextChain(t) /\ UNCHANGED tables
           ELSE IF Proven(t, c)
                THEN tables' = WithTable(t, c) /\ NextChain(t)
                ELSE Abort(t) /\ UNCHANGED tables
        /\ UNCHANGED <<setVars, hist, owner, generator, roots, block, calc, taskVars, faults>>
  BY DEF updateOperatorTableInVerifier, Due
<1>2. reserved /\ HasCalculated(t)
  BY <1>1 DEF TablesInv, TablesAreOfBlocks, HasCalculated, PastRoot
<1>3. \A d \in chains : AtChain(t, d) => d = c
  BY <1>1, ChainAt
<1>4. CASE PastTimestamp(t, c)
  <2>1. Quiet
    BY <1>1, <1>4, StillIsQuiet DEF setVars, taskVars
  <2>2. block[t] <= Latest(tables'[c])
    BY <1>1, <1>4 DEF PastTimestamp
  <2> QED
    BY <1>1, <1>3, <1>4, <2>1, <2>2, QuietNext
<1>5. CASE ~PastTimestamp(t, c) /\ Proven(t, c)
  <2>1. Quiet /\ block[t] <= Latest(tables'[c])
    BY <1>1, <1>2, <1>5, TablePosted DEF setVars, taskVars
  <2> QED
    BY <1>1, <1>3, <1>5, <2>1, QuietNext
<1>6. CASE ~PastTimestamp(t, c) /\ ~Proven(t, c)
  <2>1. Quiet
    BY <1>1, <1>6, StillIsQuiet DEF setVars, taskVars
  <2> QED
    BY <1>1, <1>6, <2>1, QuietAbort
<1> QED
  BY <1>4, <1>5, <1>6

-----------------------------------------------------------------------------
(* Steps of nobody's transport. *)

LEMMA IdleKeeps ==
    ASSUME TablesInv, SetupIsFixed, HistoryGrows, faults' \in 0 .. MaxFaults,
           UNCHANGED <<owner, generator, roots, tables, pc, at, block, calc, out>>
    PROVE  TablesTypes' /\ TablesAreOfBlocks' /\ TransportsLeaveTables'
<1>1. TablesTypes /\ TablesAreOfBlocks /\ TransportsLeaveTables
  BY DEF TablesInv
<1>2. /\ Len(hist) \in Nat /\ Len(hist') \in 1 .. MaxBlocks /\ Len(hist) <= Len(hist')
      /\ hist' \in Seq(Registries)
  BY <1>1 DEF TablesTypes, TablesTypeOK, Now, HistoryGrows
<1>3. PostsGrow
  BY <1>1, PostsStay
<1>4. \A c \in Chains :
        /\ DOMAIN roots'[c] \subseteq 1 .. Len(hist') /\ DOMAIN tables'[c] \subseteq DOMAIN roots'[c]
        /\ \A b \in DOMAIN roots'[c] : roots'[c][b] = TableAt(b)'
        /\ \A b \in DOMAIN tables'[c] : tables'[c][b] = CalculatedTable(hist[b])'
        /\ HasLast(roots'[c]) /\ HasLast(tables'[c])
  BY <1>1, <1>3, PostsAreOfBlocks
<1>5. \A u \in Transports : Stages(u)' = Stages(u)
  BY DEF SetupIsFixed, Stages, Transporter
<1>6. TablesTypeOK'
  <2>1. /\ owner' \in [Chains -> Transports \cup {"other"}]
        /\ generator' \in [Chains -> Transports \cup {"other"}]
    BY <1>1 DEF TablesTypes, TablesTypeOK
  <2>2. \A u \in Transports : /\ at'[u] \in 1 .. Len(ChainOrder)
                              /\ pc'[u] \in Range(Stages(u))'
                              /\ pc'[u] = "done" <=> out'[u] # "none"
    BY <1>1, <1>5 DEF TablesTypes, TablesTypeOK
  <2> QED
    BY <1>2, <1>4, <2>1, <2>2 DEF TablesTypeOK, Now, Chains, ChainOrder, Registries
<1>7. TablesTypes'
  <2>1. block' \in [Transports -> 0 .. Len(hist')]
    BY <1>1, <1>2 DEF TablesTypes
  <2> QED
    BY <1>1, <1>2, <1>6, <2>1 DEF TablesTypes, SetupIsFixed, Chains
<1>8. ASSUME NEW u \in Transports, HasCalculated(u)'
      PROVE  (calc[u] = TableAt(block[u]))'
  <2>0. PICK d : d = block[u]
    OBVIOUS
  <2>1. HasCalculated(u)
    BY <1>8 DEF HasCalculated, PastRoot, SetupIsFixed
  <2>2. pc[u] \notin {"block", "done"}
    BY <2>1 DEF HasCalculated, PastRoot
  <2>3. d \in 1 .. Len(hist)
    BY <1>1, <1>2, <2>0, <2>2 DEF TablesTypes
  <2>4. calc[u] = TableAt(d) /\ TableAt(d)' = TableAt(d)
    BY <1>1, <2>0, <2>1, <2>3, TableStays DEF TablesAreOfBlocks
  <2> QED
    BY <2>0, <2>4
<1>9. TablesAreOfBlocks'
  <2>1. \A u \in Transports : (pc[u] = "verifier" => reserved /\ kind[u] # "single")'
    BY <1>1 DEF TablesAreOfBlocks, SetupIsFixed
  <2> QED
    BY <1>4, <1>8, <2>1 DEF TablesAreOfBlocks, Chains, HasLast
<1>10. TransportsLeaveTables'
  <2>1. \A u \in Transports : Range(Stages(u))' = Range(Stages(u))
    BY <1>5
  <2>2. SuccessMeansTable'
    BY <1>1, <2>1 DEF TransportsLeaveTables, SuccessMeansTable, SetupIsFixed
  <2> QED
    BY <1>1, <2>2 DEF TransportsLeaveTables, SetupIsFixed
<1> QED
  BY <1>7, <1>9, <1>10

LEMMA SuccessorsAre ==
    ASSUME NEW r \in Registries
    PROVE  Successors(r) \subseteq Registries
<1>1. ASSUME NEW o \in Ops PROVE [r EXCEPT !.members = Append(@, o)] \in Registries
  <2>1. Append(r.members, o) \in Seq(Ops)
    BY <1>1 DEF Registries
  <2> QED
    BY <2>1 DEF Registries
<1>2. ASSUME NEW i \in DOMAIN r.members
      PROVE  [r EXCEPT !.members = RemoveAt(@, i)] \in Registries
  <2>1. r.members \in Seq(Ops) /\ i \in 1 .. Len(r.members)
    BY <1>2 DEF Registries
  <2>2. RemoveAt(r.members, i) \in Seq(Ops)
    <3>1. SubSeq(r.members, 1, i - 1) \in Seq(Ops) /\ SubSeq(r.members, i + 1, Len(r.members)) \in Seq(Ops)
      BY <2>1
    <3> QED
      BY <3>1 DEF RemoveAt
  <2> QED
    BY <2>2 DEF Registries
<1>3. ASSUME NEW o \in Ops
      PROVE  [r EXCEPT !.weighted = (@ \ {o}) \cup ({o} \ @)] \in Registries
  BY <1>3 DEF Registries
<1> QED
  BY <1>1, <1>2, <1>3 DEF Successors

LEMMA RegistryStep ==
    ASSUME TablesInv, RegistryChanges \/ UNCHANGED tablesVars
    PROVE  TablesInv'
<1>1. UNCHANGED hist \/ \E r \in Registries : InNewBlock(r)
  <2>1. UNCHANGED hist \/ \E r \in Successors(hist[Len(hist)]) : InNewBlock(r)
    BY DEF RegistryChanges, tablesVars, Now
  <2> QED
    BY <2>1, LastRegistry, SuccessorsAre
<1>2. HistoryGrows
  BY <1>1, HistoryStays, HistoryAppends DEF TablesInv
<1>3. /\ SetupIsFixed /\ faults' = faults
      /\ UNCHANGED <<owner, generator, roots, tables, pc, at, block, calc, out, task, session>>
  BY DEF RegistryChanges, tablesVars, setVars, chainVars, runVars, taskVars, SetupIsFixed
<1>4. faults' \in 0 .. MaxFaults
  BY <1>3 DEF TablesInv, TablesTypes, TablesTypeOK
<1>5. TablesTypes' /\ TablesAreOfBlocks' /\ TransportsLeaveTables'
  BY <1>2, <1>3, <1>4, IdleKeeps
<1>6. TaskIsOfItsBlock' /\ SessionIsOfItsTask'
  BY <1>2, <1>3, TaskStays, SessionStays DEF TablesInv
<1> QED
  BY <1>5, <1>6 DEF TablesInv

LEMMA CreateTaskStep ==
    ASSUME TablesInv, NEW c \in Chains, CreateTask(c)
    PROVE  TablesInv'
<1>1. /\ SetupIsFixed /\ faults' = faults /\ UNCHANGED hist /\ session' = session
      /\ UNCHANGED <<owner, generator, roots, tables, pc, at, block, calc, out>>
  BY DEF CreateTask, setVars, chainVars, runVars, SetupIsFixed
<1>2. HistoryGrows /\ faults' \in 0 .. MaxFaults
  BY <1>1, HistoryStays DEF TablesInv, TablesTypes, TablesTypeOK
<1>3. TablesTypes' /\ TablesAreOfBlocks' /\ TransportsLeaveTables'
  BY <1>1, <1>2, IdleKeeps
<1>4. /\ task = NoTask
      /\ task' = [chain |-> c, block |-> Len(hist), ts |-> Latest(tables[c]),
                  root |-> Latest(roots[c]), tables |-> tables[c]]
  BY DEF CreateTask, Now
<1>5. /\ task'.chain = c /\ task'.block = Len(hist) /\ task'.ts = Latest(tables[c])
      /\ task'.root = Latest(roots[c]) /\ task'.tables = tables[c]
  BY <1>4
<1>6. /\ Len(hist) \in Nat \ {0} /\ DOMAIN roots[c] \subseteq 1 .. Len(hist)
      /\ DOMAIN tables[c] \subseteq DOMAIN roots[c]
      /\ HasLast(roots[c]) /\ HasLast(tables[c])
      /\ \A b \in DOMAIN tables[c] : tables[c][b] = CalculatedTable(hist[b])
  BY DEF TablesInv, TablesTypes, TablesTypeOK, Now, TablesAreOfBlocks
<1>7. /\ Latest(roots[c]) \in 0 .. Len(hist)
      /\ \A d \in DOMAIN roots[c] : d <= Latest(roots[c])
  <2>1. DOMAIN roots[c] \subseteq Nat
    BY <1>6
  <2>2. /\ Latest(roots[c]) \in Nat
        /\ DOMAIN roots[c] # {} => Latest(roots[c]) \in DOMAIN roots[c]
        /\ \A d \in DOMAIN roots[c] : d <= Latest(roots[c])
    BY <1>6, <2>1, LatestIs
  <2>3. DOMAIN roots[c] = {} => Latest(roots[c]) = 0
    BY DEF Latest
  <2> QED
    BY <1>6, <2>2, <2>3
<1>8. Latest(roots[c]) \in DOMAIN tables[c] => Latest(tables[c]) = Latest(roots[c])
  <2>1. DOMAIN tables[c] \subseteq Nat
    BY <1>6
  <2> DEFINE m == Latest(roots[c])
  <2>2. \A d \in DOMAIN tables[c] : d <= m
    BY <1>6, <1>7
  <2> HIDE DEF m
  <2>3. m \in DOMAIN tables[c] => Latest(tables[c]) = m
    BY <1>6, <2>1, <2>2, LatestIsUnique
  <2> QED
    BY <2>3 DEF m
<1>9. TaskIsOfItsBlock'
  <2>1. hist' = hist
    BY <1>1
  <2>2. /\ task'.chain \in Chains /\ task'.block \in 1 .. Len(hist')
        /\ task'.root \in 0 .. task'.block
        /\ DOMAIN task'.tables \subseteq 1 .. Len(hist')
        /\ task'.root \in DOMAIN task'.tables => task'.ts = task'.root
    BY <1>5, <1>6, <1>7, <1>8, <2>1
  <2>3. \A b \in DOMAIN task'.tables : task'.tables[b] = CalculatedTable(hist'[b])
    BY <1>5, <1>6, <2>1
  <2> QED
    BY <2>2, <2>3 DEF TaskIsOfItsBlock, Chains
<1>10. SessionIsOfItsTask'
  <2>1. ~Given
    BY <1>4 DEF TablesInv, SessionIsOfItsTask
  <2>2. ~Given'
    BY <1>1, <2>1 DEF Given, Chains
  <2> QED
    BY <2>2 DEF SessionIsOfItsTask
<1> QED
  BY <1>3, <1>9, <1>10 DEF TablesInv

LEMMA ManagerStep ==
    ASSUME TablesInv, GetExecutorPeersAndWeightsForTask
    PROVE  TablesInv'
<1>1. /\ SetupIsFixed /\ UNCHANGED <<hist, task>>
      /\ UNCHANGED <<owner, generator, roots, tables, pc, at, block, calc, out>>
      /\ faults' = faults \/ (faults < MaxFaults /\ faults' = faults + 1)
  BY DEF GetExecutorPeersAndWeightsForTask, setVars, chainVars, runVars, SetupIsFixed
<1>2. HistoryGrows /\ faults' \in 0 .. MaxFaults
  <2>1. faults \in 0 .. MaxFaults /\ MaxFaults \in Nat
    BY TablesAssumption DEF TablesInv, TablesTypes, TablesTypeOK
  <2> QED
    BY <1>1, <2>1, HistoryStays DEF TablesInv
<1>3. TablesTypes' /\ TablesAreOfBlocks' /\ TransportsLeaveTables'
  BY <1>1, <1>2, IdleKeeps
<1>4. TaskIsOfItsBlock'
  BY <1>1, <1>2, TaskStays DEF TablesInv
<1>5. SessionIsOfItsTask'
  <2>1. task # NoTask
    BY DEF GetExecutorPeersAndWeightsForTask
  <2>2. \/ session' \in {[chain |-> "error"], [chain |-> "panic"]}
        \/ /\ CanRead(task) /\ session' = PeersForTask(task)
           /\ NilEntries(getL1BlockForChainBlock(task)) = {}
    BY DEF GetExecutorPeersAndWeightsForTask
  <2>3. CASE session' \in {[chain |-> "error"], [chain |-> "panic"]}
    <3>1. session'.chain \in {"error", "panic"}
      BY <2>3
    <3>2. ~Given'
      BY <3>1, TablesAssumption DEF Given, Chains
    <3> QED
      BY <3>2 DEF SessionIsOfItsTask
  <2>4. CASE /\ CanRead(task) /\ session' = PeersForTask(task)
             /\ NilEntries(getL1BlockForChainBlock(task)) = {}
    <3>1. /\ getL1BlockForChainBlock(task) > 0
          /\ curve = "BN254" => task.root > 0
      BY <2>4 DEF CanRead
    <3>a. NilEntries(getL1BlockForChainBlock(task)) = {}
      BY <2>4
    <3>2. task.block \in 1 .. Len(hist) /\ task.root \in 0 .. Len(hist) /\ Len(hist) \in Nat
      BY <2>1 DEF TablesInv, TaskIsOfItsBlock, TablesTypes, TablesTypeOK, Now
    <3>3. /\ getL1BlockForChainBlock(task) \in 1 .. Len(hist)
          /\ curve = "BN254" => task.root \in 1 .. Len(hist)
      BY <3>1, <3>2 DEF getL1BlockForChainBlock
    <3>4. /\ PeersForTask(task)' = PeersForTask(task)
          /\ NilEntries(getL1BlockForChainBlock(task))' = NilEntries(getL1BlockForChainBlock(task))
      BY <1>1, <1>2, <3>3, ReadsStay
    <3>5. /\ getL1BlockForChainBlock(task)' = getL1BlockForChainBlock(task)
          /\ curve' = curve /\ task' = task /\ NoTask' = NoTask
      BY <1>1 DEF SetupIsFixed, getL1BlockForChainBlock, NoTask
    <3> QED
      BY <2>1, <2>4, <3>a, <3>1, <3>4, <3>5 DEF SessionIsOfItsTask
  <2> QED
    BY <2>2, <2>3, <2>4
<1> QED
  BY <1>3, <1>4, <1>5 DEF TablesInv

-----------------------------------------------------------------------------

LEMMA TablesInitHolds ==
    ASSUME TablesInit
    PROVE  TablesInv
<1>1. PICK s \in Setups : /\ curve = s.curve /\ reserved = s.reserved
                          /\ chains = s.chains /\ hist = <<s.registry>>
                          /\ kind = s.kind /\ faults = s.faults
  BY DEF TablesInit
<1>2. /\ reserved \in BOOLEAN /\ chains \subseteq Chains /\ faults \in 0 .. MaxFaults
      /\ kind \in [Transports -> {"ponos", "hgctl", "single"}]
  BY <1>1, SetupsAssumption
<1>3. Len(hist) = 1 /\ hist \in Seq(Registries) /\ MaxBlocks \in Nat \ {0}
  <2>1. s.registry \in Registries
    BY SetupsAssumption
  <2>2. Len(hist) = 1 /\ hist \in Seq(Registries)
    BY <1>1, <2>1
  <2>3. MaxBlocks \in Nat \ {0}
    BY TablesAssumption
  <2> QED
    BY <2>1, <2>2, <2>3
<1>4. /\ owner = [c \in Chains |-> "other"] /\ generator = [c \in Chains |-> "other"]
      /\ roots = [c \in Chains |-> <<>>] /\ tables = [c \in Chains |-> <<>>]
      /\ pc = [t \in Transports |-> "block"] /\ at = [t \in Transports |-> 1]
      /\ block = [t \in Transports |-> 0]
      /\ calc = [t \in Transports |-> NoTable]
      /\ out = [t \in Transports |-> "none"]
      /\ task = NoTask /\ session = NoTask
  BY DEF TablesInit
<1>5. \A c \in Chains : DOMAIN roots[c] = {} /\ DOMAIN tables[c] = {}
  BY <1>4
<1>6. \A t \in Transports : "block" \in Range(Stages(t))
  BY <1>2, StagesAreMulti
<1>7. TablesTypeOK
  <2>1. Len(ChainOrder) = 2
    BY DEF ChainOrder
  <2> QED
    BY <1>2, <1>3, <1>4, <1>5, <1>6, <2>1 DEF TablesTypeOK, Now
<1>8. TablesTypes
  BY <1>2, <1>3, <1>4, <1>7 DEF TablesTypes, Multi
<1>9. TablesAreOfBlocks
  BY <1>4, <1>5 DEF TablesAreOfBlocks, HasLast, HasCalculated, PastRoot
<1>10. TransportsLeaveTables
  BY <1>4 DEF TransportsLeaveTables, SuccessMeansTable
<1>11. TaskIsOfItsBlock /\ SessionIsOfItsTask
  <2>1. session.chain = "none"
    BY <1>4 DEF NoTask
  <2>2. ~Given
    BY <2>1, TablesAssumption DEF Given, Chains
  <2> QED
    BY <1>4, <2>2 DEF TaskIsOfItsBlock, SessionIsOfItsTask
<1> QED
  BY <1>8, <1>9, <1>10, <1>11 DEF TablesInv

LEMMA TablesStepHolds ==
    ASSUME TablesInv, [TablesNext]_tablesVars
    PROVE  TablesInv'
<1>1. ASSUME NEW t \in Transports, Transport(t) PROVE TablesInv'
  BY <1>1, ChooseBlockStep, PassOverStep, RequestFailsStep, CurveStep, KeysStep, OwnerStep,
     GeneratorStep, CalculateStep, GlobalRootStep, AvsTableStep, TableFailsStep, VerifierStep
     DEF Transport
<1>2. ASSUME NEW c \in Chains, CreateTask(c) PROVE TablesInv'
  BY <1>2, CreateTaskStep
<1>3. CASE GetExecutorPeersAndWeightsForTask
  BY <1>3, ManagerStep
<1>4. CASE RegistryChanges \/ UNCHANGED tablesVars
  BY <1>4, RegistryStep
<1> QED
  BY <1>1, <1>2, <1>3, <1>4 DEF TablesNext

(* What the transporters, the chains and the sessions keep, whatever the   *)
(* order of their steps and whichever requests fail.                       *)
THEOREM TablesInvariant == TablesSpec => []TablesInv
<1>1. TablesInit => TablesInv
  BY TablesInitHolds
<1>2. TablesInv /\ [TablesNext]_tablesVars => TablesInv'
  BY TablesStepHolds
<1> QED
  BY <1>1, <1>2, PTL DEF TablesSpec

(* What a verifier holds for a reference block is the table of the         *)
(* registry at that block, whoever transported it and however long it      *)
(* took.                                                                   *)
THEOREM TablesAreOfTheirBlocks == TablesSpec => []TableIsOfItsBlock
<1>1. TablesInv => TableIsOfItsBlock
  BY DEF TablesInv, TablesTypes, TablesAreOfBlocks, TableIsOfItsBlock
<1> QED
  BY <1>1, TablesInvariant, PTL

(* A multi-operator transport that returns success has left, on every      *)
(* chain it went through, its table or a newer one.                        *)
THEOREM TablesSuccess == TablesSpec => []SuccessMeansTable
<1>1. TablesInv => SuccessMeansTable
  BY DEF TablesInv, TransportsLeaveTables
<1> QED
  BY <1>1, TablesInvariant, PTL

(* When a session has a tree root, it is the root of the operator infos    *)
(* the session carries, and the certificate's timestamp is that of the     *)
(* root.                                                                   *)
THEOREM TablesProofsMatch == TablesSpec => []ProofsMatchCertificate
<1>1. TablesInv => ProofsMatchCertificate
  <2> SUFFICES ASSUME TablesInv, Given, session.root # NoTable
               PROVE  session.root = session.infos /\ session = PeersForBlock(task)
    BY DEF ProofsMatchCertificate
  <2>1. /\ task # NoTask /\ session = PeersForTask(task)
    BY DEF TablesInv, SessionIsOfItsTask
  <2>2. /\ session.ts = task.ts
        /\ session.root = IF curve = "BN254" THEN GetOperatorInfoTreeRoot(task) ELSE NoTable
        /\ session.infos = IF curve = "BN254" THEN GetOperatorInfos(task) ELSE <<>>
    BY <2>1 DEF PeersForTask
  <2>3. /\ task.root \in DOMAIN task.tables /\ session.root = task.tables[task.root]
        /\ session.infos = CalculatedTable(hist[task.root])
    BY <2>2 DEF GetOperatorInfoTreeRoot, GetOperatorInfos
  <2>4. session.root = session.infos /\ task.ts = task.root
    BY <2>1, <2>3 DEF TablesInv, TaskIsOfItsBlock
  <2>5. PeersForBlock(task) = PeersForTask(task)
    BY <2>4, SameField DEF PeersForBlock, PeersForTask
  <2> QED
    BY <2>1, <2>4, <2>5
<1> QED
  BY <1>1, TablesInvariant, PTL

(* A table that leaves out nobody lists the members in their order. *)
LEMMA WholeTable ==
    ASSUME NEW r \in Registries,
           \A i \in DOMAIN r.members : r.members[i] \in r.weighted \cap r.keyed
    PROVE  CalculatedTable(r) = r.members
<1> DEFINE n == Len(r.members)
<1>1. r.members \in Seq(Ops) /\ n \in Nat /\ DOMAIN r.members = 1 .. n
  BY DEF Registries
<1>2. Counted(r) = 1 .. n
  BY <1>1 DEF Counted
<1>3. \A S : Cardinality(S) = Cardinality(S)
  BY DEF Cardinality, Cardinality
<1>4. \A k \in 0 .. n : Cardinality(1 .. k) = k
  <2>1. ASSUME NEW k \in 0 .. n PROVE Cardinality(1 .. k) = k
    <3>1. k \in Nat /\ 1 \in Int /\ k \in Int
      BY <1>1
    <3>2. Cardinality(1 .. k) = IF 1 > k THEN 0 ELSE k - 1 + 1
      BY ONLY <3>1, FS_Interval
    <3> QED
      BY <3>1, <3>2
  <2> QED
    BY <2>1
<1> DEFINE C == Counted(r)
           Upto(i) == {j \in C : j <= i}
<1>5. ASSUME NEW i \in C PROVE Cardinality(Upto(i)) = i
  <2>1. Upto(i) = 1 .. i /\ i \in 0 .. n
    BY <1>1, <1>2, <1>5
  <2> HIDE DEF Upto
  <2> QED
    BY <1>3, <1>4, <2>1
<1>6. Cardinality(C) = n
  BY <1>1, <1>2, <1>3, <1>4
<1>7. CalculatedTable(r) =
        [k \in 1 .. Cardinality(C) |-> r.members[CHOOSE i \in C : Cardinality(Upto(i)) = k]]
  BY DEF CalculatedTable
<1> HIDE DEF C, Upto
<1>8. \A k \in C : (CHOOSE i \in C : Cardinality(Upto(i)) = k) = k
  BY <1>5
<1>9. CalculatedTable(r) = [k \in 1 .. n |-> r.members[k]]
  BY <1>2, <1>6, <1>7, <1>8 DEF C
<1> QED
  BY <1>1, <1>9

(* On L2, and on L1 while the registry did not change since the last root, *)
(* an operator's index is the position of its leaf in the transported      *)
(* table, if every member of the set had weight.                           *)
THEOREM TablesIndexNamesLeaf == TablesSpec => []IndexNamesItsLeaf
<1>1. TablesInv => IndexNamesItsLeaf
  <2> DEFINE b == getL1BlockForChainBlock(task)
  <2> SUFFICES ASSUME TablesInv, Given, curve = "BN254",
                      Range(hist[b].members) \subseteq hist[b].weighted,
                      task.chain = L1 => \A d \in task.root .. b : hist[d] = hist[b],
                      NEW p \in session.operators
               PROVE  p.index \in DOMAIN session.infos /\ session.infos[p.index] = p.op
    BY DEF IndexNamesItsLeaf
  <2>1. /\ task # NoTask /\ b > 0 /\ task.root > 0 /\ NilEntries(b) = {}
        /\ session = PeersForTask(task)
    BY DEF TablesInv, SessionIsOfItsTask
  <2>2. /\ task.block \in 1 .. Len(hist) /\ task.root \in 0 .. task.block /\ Len(hist) \in Nat
        /\ hist \in Seq(Registries)
    BY <2>1 DEF TablesInv, TaskIsOfItsBlock, TablesTypes, TablesTypeOK, Now
  <2>3. b \in 1 .. Len(hist) /\ hist[task.root] = hist[b]
    BY <2>1, <2>2 DEF getL1BlockForChainBlock
  <2>4. /\ session.infos = CalculatedTable(hist[b])
        /\ session.operators = filterOperatorsForSet(Peers(b), WeightsAt(b))
    BY <2>1, <2>3 DEF PeersForTask, GetOperatorInfos
  <2>5. hist[b] \in Registries
    BY <2>2, <2>3
  <2>6. \A i \in DOMAIN hist[b].members : hist[b].members[i] \in hist[b].weighted \cap hist[b].keyed
    BY <2>1 DEF NilEntries, HasDetails, Range
  <2>7. session.infos = hist[b].members
    BY <2>4, <2>5, <2>6, WholeTable
  <2>8. PICK i \in DOMAIN hist[b].members : p.op = hist[b].members[i] /\ p.index = i
    BY <2>4 DEF filterOperatorsForSet, Peers
  <2> QED
    BY <2>7, <2>8
<1> QED
  BY <1>1, TablesInvariant, PTL
=============================================================================
