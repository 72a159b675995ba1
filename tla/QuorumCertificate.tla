--------------------------- MODULE QuorumCertificate ---------------------------
(***************************************************************************)
(* What the aggregation of a task promises, without groups, winners or     *)
(* accumulated weights: operators sign digests, each at most once, and the *)
(* certificate is issued for a digest exactly when the stake of the        *)
(* operators that signed it reaches the threshold - neither before, nor    *)
(* later, nor for another digest.                                          *)
(***************************************************************************)
EXTENDS Integers

CONSTANTS Operators, Digests, NoDigest, StakeOf, Threshold

VARIABLES signed,     \* what every operator is known to have signed
          certified   \* the digest of the certificate, or NoDigest

qcVars == <<signed, certified>>

Supporters(d) == {o \in Operators : signed[o] = d}

QCInit == signed = [o \in Operators |-> NoDigest] /\ certified = NoDigest

(* Operator o is heard to sign d; the certificate follows at once when the *)
(* supporters of d have the stake.                                         *)
Sign(o, d) ==
    /\ certified = NoDigest
    /\ signed[o] = NoDigest
    /\ signed' = [signed EXCEPT ![o] = d]
    /\ certified' = IF StakeOf[Operators] # 0
                       /\ StakeOf[Supporters(d) \cup {o}] >= Threshold
                    THEN d ELSE NoDigest

QCNext == \E o \in Operators, d \in Digests : Sign(o, d)

QCSpec == QCInit /\ [][QCNext]_qcVars
=============================================================================
