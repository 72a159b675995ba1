---------------------------- MODULE MCTaskSession ----------------------------
(* Model instance of TaskSession: three operators, two of which outweigh  *)
(* the third, two conflicting outputs and two letter cases.                *)
EXTENDS TaskSession, FiniteSetsExt

CONSTANTS o1, o2, o3

MCOperators == {o1, o2, o3}
MCWeight ==
    [o \in MCOperators |->
        CASE o = o1 -> 3 [] o = o2 -> 2 [] o = o3 -> 1]
MCStakeOf == [S \in SUBSET MCOperators |-> MapThenSumSet(LAMBDA o : MCWeight[o], S)]
=============================================================================
