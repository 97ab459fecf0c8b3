------------------------------- MODULE Bridge -------------------------------
(* contracts/bridge: transfers of another chain, each executed once when a     *)
(* threshold of signers approves it.                                           *)
EXTENDS SignerCount

CONSTANTS Transfer   \* a transfer: source chain, transaction, target, amount

VARIABLES signers, bridgeThreshold,  \* instance storage; 0: not initialised
          done,                      \* the hashes stored under DataKey::Transfer
          bridged,                   \* how many "bridged" events a transfer raised
          bridgeSigners              \* history: who signed when it was executed

bridgeVars == <<signers, bridgeThreshold, done, bridged, bridgeSigners>>

BridgeInit ==
  /\ signers = <<>> /\ bridgeThreshold = 0 /\ done = {}
  /\ bridged = [t \in Transfer |-> 0] /\ bridgeSigners = [t \in Transfer |-> {}]

BridgeSetup(list, threshold) ==
  /\ bridgeThreshold = 0
  /\ threshold \in 1..Len(list)
  /\ signers' = list /\ bridgeThreshold' = threshold
  /\ UNCHANGED <<done, bridged, bridgeSigners>>

\* A bridge that forgets what it executed.
NeverDone(t) == FALSE

\* The hash is of all four parts of the transfer, so it stands for the transfer.
AlreadyDone(t) == t \in done

\* A repeated transfer returns before anyone is asked to sign; any other needs
\* the threshold.
ExecuteTransfer(t, listed, signed) ==
  /\ bridgeThreshold > 0
  /\ ~AlreadyDone(t)
  /\ Approved(signers, bridgeThreshold, listed, signed)
  /\ done' = done \cup {t}
  /\ bridged' = [bridged EXCEPT ![t] = @ + 1]
  /\ bridgeSigners' = [bridgeSigners EXCEPT ![t] = signed]
  /\ UNCHANGED <<signers, bridgeThreshold>>

BridgeNext ==
  \/ \E list \in Lists(Address, MaxList), n \in 1..MaxList : BridgeSetup(list, n)
  \/ \E t \in Transfer, l \in Lists(Address, MaxList), s \in SUBSET Address : ExecuteTransfer(t, l, s)

BridgeSpec == BridgeInit /\ [][BridgeNext]_bridgeVars

BridgeTypeOK ==
  /\ signers \in Seq(Address) /\ bridgeThreshold \in Nat /\ done \subseteq Transfer
  /\ bridged \in [Transfer -> Nat] /\ bridgeSigners \in [Transfer -> SUBSET Address]

(* A transfer is bridged at most once however often it is submitted, and only  *)
(* with the signatures of a threshold of different signers (execute_transfer). *)
BridgedOnceByQuorum ==
  \A t \in Transfer :
    /\ bridged[t] <= 1
    /\ bridged[t] = 1 => Cardinality(bridgeSigners[t] \cap Range(signers)) >= bridgeThreshold
=============================================================================
