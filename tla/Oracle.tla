------------------------------- MODULE Oracle -------------------------------
(* contracts/oracle: a price that a threshold of validators approves, and that *)
(* is served while it is recent enough.                                        *)
EXTENDS SignerCount

CONSTANTS NoPrice, MaxPrice, MaxTime

ASSUME OracleAssumption == MaxTime \in Nat

VARIABLES validators, priceThreshold,   \* instance storage; 0: not initialised
          priceData,                    \* [price, timestamp] or NoPrice
          now,                          \* the ledger's clock
          priceSigners                  \* history: who signed the stored price

oracleVars == <<validators, priceThreshold, priceData, now, priceSigners>>

OracleInit ==
  /\ validators = <<>> /\ priceThreshold = 0 /\ priceData = NoPrice
  /\ now = 0 /\ priceSigners = {}

\* init is taken once; the threshold is compared with the length of the list.
OracleSetup(list, threshold) ==
  /\ priceThreshold = 0
  /\ threshold \in 1..Len(list)
  /\ validators' = list /\ priceThreshold' = threshold
  /\ UNCHANGED <<priceData, now, priceSigners>>

\* No timestamp is compared, neither with the stored one nor with the clock.
UpdatePrice(price, timestamp, listed, signed) ==
  /\ priceThreshold > 0
  /\ Approved(validators, priceThreshold, listed, signed)
  /\ priceData' = [price |-> price, timestamp |-> timestamp]
  /\ priceSigners' = signed
  /\ UNCHANGED <<validators, priceThreshold, now>>

\* get_price answers unless the price is older than maxAge.
Serves(maxAge) == priceData # NoPrice /\ now <= priceData.timestamp + maxAge

OracleTick == now < MaxTime /\ now' = now + 1
              /\ UNCHANGED <<validators, priceThreshold, priceData, priceSigners>>

OracleNext ==
  \/ \E list \in Lists(Address, MaxList), t \in 1..MaxList : OracleSetup(list, t)
  \/ \E p \in 1..MaxPrice, ts \in 0..MaxTime, l \in Lists(Address, MaxList), s \in SUBSET Address :
       UpdatePrice(p, ts, l, s)
  \/ OracleTick

OracleSpec == OracleInit /\ [][OracleNext]_oracleVars

OracleTypeOK ==
  /\ validators \in Seq(Address) /\ priceThreshold \in Nat
  /\ priceData = NoPrice \/ priceData \in [price : 1..MaxPrice, timestamp : 0..MaxTime]
  /\ now \in 0..MaxTime /\ priceSigners \subseteq Address

(* Whatever the lists hold twice, a price that is served was signed by as many *)
(* different trusted addresses as the threshold says, and it is served no      *)
(* longer than maxAge after the time it claims (update_price, get_price).      *)
ServedPriceApproved ==
  \A maxAge \in 0..MaxTime : Serves(maxAge) =>
    /\ Cardinality(priceSigners \cap Range(validators)) >= priceThreshold
    /\ now - priceData.timestamp <= maxAge
=============================================================================
