--------------------------- MODULE MCChainPoller ---------------------------
(* The settings in which the poller is checked. *)
EXTENDS ChainPoller

(* The in-memory store; every call succeeds. *)
Memory ==
    [durable |-> FALSE, maxReorgDepth |-> 4, blockHistorySize |-> 4,
     rpcMayFail |-> FALSE, saveMayFail |-> FALSE, forksAboveStore |-> TRUE,
     branchesReturn |-> FALSE, top |-> 5, reorgs |-> 2, expiries |-> 0, crashes |-> 0]

(* The badger store, a crash, and reorganisations deeper than the search. *)
DeepReorg ==
    [Memory EXCEPT !.durable = TRUE, !.maxReorgDepth = 2, !.crashes = 1]

(* The badger store when everything may fail and forks reach below it. *)
Faulty ==
    [durable |-> TRUE, maxReorgDepth |-> 2, blockHistorySize |-> 3,
     rpcMayFail |-> TRUE, saveMayFail |-> TRUE, forksAboveStore |-> FALSE,
     branchesReturn |-> TRUE, top |-> 4, reorgs |-> 2, expiries |-> 0, crashes |-> 0]

(* The same with a crash, and one reorganisation less. *)
FaultyCrash == [Faulty EXCEPT !.reorgs = 1, !.crashes = 1]

(* A history so short that blocks leave it while the chain reorganises. *)
ShortHistory == [Memory EXCEPT !.maxReorgDepth = 2, !.blockHistorySize = 2]

(* The shape of the defaults (10 and 100): the in-memory store with a      *)
(* search shorter than the history, and a block context that expires.      *)
ShallowSearch == [Memory EXCEPT !.maxReorgDepth = 2, !.expiries = 2]

(* The badger store, forks below its records, a crash, an expiry. *)
DeepFork ==
    [DeepReorg EXCEPT !.blockHistorySize = 3, !.forksAboveStore = FALSE, !.expiries = 1]

MCSetups == {Memory, DeepReorg, ShortHistory, ShallowSearch, DeepFork, Faulty,
             FaultyCrash}
=============================================================================
