---------------------------- MODULE MCSep41Token ----------------------------
(* Two accounts and a ceiling of three tokens each; both approve one.        *)
EXTENDS Sep41Token

MCAmounts == {-1, 1, 2}
=============================================================================
