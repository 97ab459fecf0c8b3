---------------------------- MODULE MCGovernance ----------------------------
(* A small governor: two holders, a keeper with roles in the timelock.     *)
EXTENDS Governance, TLC

MCCalls == {"pay", "set"}
MCDescriptions == {"d"}
MCOperations == MCCalls \X MCDescriptions
MCActions == {<<"pay", "set">>}
MCGrants == {<<"proposer", "keeper", TRUE>>}
MCInitial == [proposer |-> {"governor"}, executor |-> {"governor", "keeper"},
              canceller |-> {}]
MCSymmetry == Permutations(Holders)
=============================================================================
