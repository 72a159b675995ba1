---------------------------- MODULE MCStakeTables ----------------------------
(* A multi-operator transport beside one of the other kind. *)
EXTENDS StakeTables

CONSTANTS o1, o2, t1, t2

Beside(k) == t1 :> k @@ t2 :> "single"
IgnoresOf == t1 :> {L2} @@ t2 :> {}
RegistersOf == t1 :> {o1} @@ t2 :> {}

(* A set that is set up on both chains, one whose keys are not registered, *)
(* one of the other curve on L1 alone, and one without a reservation.  A   *)
(* request may fail in the second and the last.                            *)
Ready ==
    [members |-> <<o1, o2>>, keyed |-> {o1, o2}, weighted |-> {o1, o2},
     curve |-> TRUE]
Bare == [Ready EXCEPT !.members = <<o2>>, !.keyed = {o2}, !.curve = FALSE]

SetupsOf ==
    {[curve |-> "BN254", reserved |-> TRUE, chains |-> Chains,
      faults |-> 1, registry |-> Ready, kind |-> Beside("ponos")],
     [curve |-> "BN254", reserved |-> TRUE, chains |-> Chains,
      faults |-> 0, registry |-> Bare, kind |-> Beside("hgctl")],
     [curve |-> "ECDSA", reserved |-> TRUE, chains |-> {L1},
      faults |-> 1, registry |-> Ready, kind |-> Beside("ponos")],
     [curve |-> "BN254", reserved |-> FALSE, chains |-> {L1},
      faults |-> 0, registry |-> Ready, kind |-> Beside("ponos")]}

=============================================================================
