---------------------------- MODULE MCAvsRegistry ----------------------------
(* An AVS with an address written in two ways, two chains and an unknown one. *)
EXTENDS AvsRegistry

MCAddresses == {"0xab", "0xAB"}
MCAvsOf == [a \in MCAddresses |-> "0xab"]
MCRequests == {{"l1"}, {"l1", "l2"}, {"other"}}
Entry(a) == [addr |-> a, chains |-> {"l1"}]
MCConfigs == {<<>>, <<Entry("0xab")>>, <<Entry("0xab"), Entry("0xab")>>}
=============================================================================
