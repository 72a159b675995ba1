---------------------------- MODULE MCHgctlConfig ----------------------------
(* Two terminals; they are interchangeable. *)
EXTENDS HgctlConfig, TLC

\* Nothing yet.
Fresh == [file |-> Absent, keys |-> [q \in Paths |-> "none"]]

\* A current context that signs with a keystore created for it, and another context.
OwnKey == [name |-> "k", path |-> <<"default", "k">>, type |-> "ecdsa"]
Used ==
    [file |-> Complete(WithContext(
                  Config("default", Single("b", NewContext)), "default",
                  [NewContext EXCEPT !.keystores = {OwnKey}, !.op = InKeystore(OwnKey)])),
     keys |-> [q \in Paths |-> IF q = OwnKey.path THEN "ecdsa" ELSE "none"]]

MCStarts == {Fresh, Used}

Symmetric == Permutations(Procs)
=============================================================================
