----------------------------- MODULE MCMultisig -----------------------------
(* Two addresses, one of them perhaps listed twice; one proposal of every  *)
(* kind. `vary` raises or lowers the threshold; the signer that `drop`     *)
(* removes may come back through `admit`, with the approvals it gave.      *)
EXTENDS Multisig

MCCall == [pay   |-> [function |-> "invoke", arg |-> "b"],
           admit |-> [function |-> "add_signer", arg |-> "b"],
           drop  |-> [function |-> "remove_signer", arg |-> "b"],
           vary  |-> [function |-> "set_threshold", arg |-> 2],
           stop  |-> [function |-> "cancel", arg |-> "pay"]]
MCHashes == DOMAIN MCCall
MCSignerLists == {<<"a", "b">>, <<"b", "a", "b">>}
=============================================================================
