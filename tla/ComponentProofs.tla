-------------------------- MODULE ComponentProofs ---------------------------
(* What holds of the smaller contracts for any addresses, amounts and caps, of *)
(* the editor extension and the analyze route for any number of documents and  *)
(* requests, and of the diff command for any findings.                         *)
EXTENDS Oracle, Bridge, Proxy, CircuitBreaker, FlashLoan, GuardWrapper,
        EditorSession, ScanRoute, Baseline, FoldLemmas, TLAPS

(* ---- oracle and bridge ---- *)
LEMMA ListsAreSequences == ASSUME NEW n \in Nat, NEW l \in Lists(Address, n) PROVE l \in Seq(Address)
  BY DEF Lists

CountState == [processed : SUBSET Address, count : Nat, authorised : BOOLEAN]
NoneCounted == [processed |-> {}, count |-> 0, authorised |-> TRUE]

\* The recursion of the loop over the positions of the list, the last one first.
CountsUp(trusted, listed, signed, it) ==
  it = [s \in SUBSET DOMAIN listed |-> IF s = {} THEN NoneCounted
          ELSE LET x == Max(s) IN CountStep(it[s \ {x}], trusted, listed[x], signed)]

LEMMA CountIsIterated ==
  ASSUME NEW trusted, NEW listed, NEW signed
  PROVE  Count(trusted, listed, signed)
           = (CHOOSE it : CountsUp(trusted, listed, signed, it))[DOMAIN listed]
  BY DEF Count, FoldLeft, MapThenFoldSet, CountsUp, NoneCounted

LEMMA CountStepTyped ==
  ASSUME NEW st \in CountState, NEW trusted, NEW a \in Address, NEW signed
  PROVE  CountStep(st, trusted, a, signed) \in CountState
<1>1. PICK P \in SUBSET Address, n \in Nat, b \in BOOLEAN :
        st = [processed |-> P, count |-> n, authorised |-> b]
  BY DEF CountState
<1>2. P \cup {a} \in SUBSET Address /\ n + 1 \in Nat
  OBVIOUS
<1>3. PICK d \in BOOLEAN : d = (b /\ a \in signed)
  BY Zenon
<1>4. [processed |-> P \cup {a}, count |-> n + 1, authorised |-> d] \in CountState
  BY <1>2 DEF CountState
<1>5. \/ CountStep(st, trusted, a, signed) = st
      \/ CountStep(st, trusted, a, signed)
           = [processed |-> P \cup {a}, count |-> n + 1, authorised |-> d]
  <2>1. st.processed = P /\ st.count = n /\ st.authorised = b
    BY <1>1
  <2> QED
    BY <1>3, <2>1, Zenon DEF CountStep
<1> QED
  BY <1>4, <1>5

CountTable(trusted, listed, signed, D, it) ==
  /\ it \in [SUBSET D -> CountState]
  /\ Count(trusted, listed, signed) = it[D]
  /\ it[{}] = NoneCounted
  /\ \A s \in SUBSET D : s # {} =>
       \E x \in s : it[s] = CountStep(it[s \ {x}], trusted, listed[x], signed)

\* One table holds what the loop has after any of the positions.
LEMMA CountTabled ==
  ASSUME NEW trusted, NEW listed \in Seq(Address), NEW signed, NEW D, D = DOMAIN listed
  PROVE  \E it : CountTable(trusted, listed, signed, D, it)
<1>1. D = DOMAIN listed
  OBVIOUS
<1>2. IsFiniteSet(D) /\ D \subseteq Int /\ \A i \in D : listed[i] \in Address
  <2>1. PICK n \in Nat : D = 1..n /\ n = Len(listed)
    BY <1>1
  <2>2. IsFiniteSet(1..n)
    BY <2>1, FS_Interval
  <2> QED
    BY <1>1, <2>1, <2>2
<1>3. \A s \in SUBSET D : s # {} => Max(s) \in s
  <2>1. \A s \in SUBSET D : s # {} => \E x \in s : \A y \in s : x >= y
    BY <1>2, LargestExists
  <2> QED
    BY <2>1 DEF Max
<1>4. PICK p : p = [s \in SUBSET D |-> Max(s)]
  OBVIOUS
<1>5. PICK st : st = [s \in SUBSET D |-> [v \in CountState |->
                        CountStep(v, trusted, listed[Max(s)], signed)]]
  OBVIOUS
<1>6. PicksFrom(D, p)
  BY <1>3, <1>4 DEF PicksFrom
<1>7. ASSUME NEW s \in SUBSET D, NEW v \in CountState, s # {} PROVE st[s][v] \in CountState
  <2>1. st[s][v] = CountStep(v, trusted, listed[Max(s)], signed)
    BY <1>5
  <2>2. listed[Max(s)] \in Address
    BY <1>2, <1>3, <1>7
  <2> QED
    BY <2>1, <2>2, CountStepTyped
<1>8. StepsIn(D, CountState, st)
  BY <1>7 DEF StepsIn
<1>9. NoneCounted \in CountState
  BY Zenon DEF NoneCounted, CountState
<1>10. PICK g : Iterates(D, CountState, NoneCounted, p, st, g)
  BY <1>2, <1>6, <1>8, <1>9, RecursionOnSubsets
<1>11. ASSUME NEW s \in SUBSET D
       PROVE  g[s] = IF s = {} THEN NoneCounted
                     ELSE CountStep(g[s \ {Max(s)}], trusted, listed[Max(s)], signed)
  <2>1. g[s \ {Max(s)}] \in CountState
    BY <1>10 DEF Iterates
  <2>2. g[s] = IF s = {} THEN NoneCounted ELSE st[s][g[s \ {p[s]}]]
    BY <1>10 DEF Iterates
  <2>3. p[s] = Max(s) /\ \A v \in CountState : st[s][v] = CountStep(v, trusted, listed[Max(s)], signed)
    BY <1>4, <1>5
  <2> QED
    BY <2>1, <2>2, <2>3
<1>12. CountsUp(trusted, listed, signed, g)
  BY <1>1, <1>10, <1>11 DEF CountsUp, Iterates
<1>13. PICK it : it = CHOOSE h : CountsUp(trusted, listed, signed, h)
  OBVIOUS
<1>14. CountsUp(trusted, listed, signed, it)
  BY <1>12, <1>13
<1>15. \A s \in SUBSET D : it[s] = IF s = {} THEN NoneCounted
         ELSE CountStep(it[s \ {Max(s)}], trusted, listed[Max(s)], signed)
  BY <1>1, <1>14 DEF CountsUp
<1> DEFINE G == {s \in SUBSET D : it[s] \in CountState}
<1>16. ASSUME NEW s \in SUBSET D, \A t \in SUBSET s : t # s => t \in G PROVE s \in G
  <2>1. ASSUME s = {} PROVE it[s] \in CountState
    BY <1>9, <1>15, <2>1
  <2>2. ASSUME s # {} PROVE it[s] \in CountState
    <3>1. PICK x \in s : x = Max(s)
      BY <1>3, <2>2
    <3>2. it[s \ {x}] \in CountState /\ listed[x] \in Address
      BY <1>2, <1>16
    <3>3. it[s] = CountStep(it[s \ {x}], trusted, listed[x], signed)
      BY <1>15, <2>2, <3>1
    <3> QED
      BY <3>2, <3>3, CountStepTyped
  <2> QED
    BY <2>1, <2>2
<1> HIDE DEF G
<1>17. SUBSET D \subseteq G
  BY <1>2, <1>16, SubsetsByInduction
<1>18. it \in [SUBSET D -> CountState]
  BY <1>1, <1>14, <1>17 DEF G, CountsUp
<1>19. it[{}] = NoneCounted
  BY <1>15
<1>20. ASSUME NEW s \in SUBSET D, s # {}
       PROVE  \E x \in s : it[s] = CountStep(it[s \ {x}], trusted, listed[x], signed)
  BY <1>3, <1>15, <1>20
<1>21. Count(trusted, listed, signed) = it[D]
  BY <1>1, <1>13, CountIsIterated
<1> QED
  BY <1>1, <1>18, <1>19, <1>20, <1>21 DEF CountTable

\* What the loop has counted: the different trusted addresses of the list, and
\* whether each of them signed.
LEMMA CountIsOfDifferent ==
  ASSUME NEW trusted, NEW listed \in Seq(Address), NEW signed
  PROVE  LET c == Count(trusted, listed, signed)
             S == Range(listed) \cap Range(trusted)
         IN  /\ IsFiniteSet(S) /\ c.processed = S
             /\ c.count = Cardinality(S)
             /\ c.authorised <=> S \subseteq signed
<1>1. PICK D : D = DOMAIN listed
  OBVIOUS
<1>2. IsFiniteSet(D)
  <2>1. PICK n \in Nat : D = 1..n /\ n = Len(listed)
    BY <1>1
  <2> QED
    BY <2>1, FS_Interval
<1>3. PICK it : CountTable(trusted, listed, signed, D, it)
  BY <1>1, CountTabled
<1>4. /\ it \in [SUBSET D -> CountState]
      /\ Count(trusted, listed, signed) = it[D]
      /\ it[{}] = NoneCounted
      /\ \A s \in SUBSET D : s # {} =>
           \E x \in s : it[s] = CountStep(it[s \ {x}], trusted, listed[x], signed)
  BY <1>3 DEF CountTable
<1> DEFINE Of(s) == {listed[i] : i \in s} \cap Range(trusted)
           Good(s) == /\ IsFiniteSet(Of(s)) /\ it[s].processed = Of(s)
                      /\ it[s].count = Cardinality(Of(s))
                      /\ it[s].authorised <=> Of(s) \subseteq signed
           G == {s \in SUBSET D : Good(s)}
<1>5. ASSUME NEW s \in SUBSET D, \A t \in SUBSET s : t # s => t \in G PROVE s \in G
  <2>1. ASSUME s = {} PROVE Good(s)
    <3>1. Of(s) = {}
      BY <2>1
    <3>2. IsFiniteSet({}) /\ Cardinality({}) = 0
      BY FS_EmptySet
    <3>3. it[s].processed = {} /\ it[s].count = 0 /\ it[s].authorised
      BY <1>4, <2>1 DEF NoneCounted
    <3> QED
      BY <3>1, <3>2, <3>3
  <2>2. ASSUME s # {} PROVE Good(s)
    <3>1. PICK x \in s : it[s] = CountStep(it[s \ {x}], trusted, listed[x], signed)
      BY <1>4, <2>2
    <3>2. PICK t \in SUBSET s : t = s \ {x}
      OBVIOUS
    <3>3. Good(t)
      <4>1. t \in G
        BY <1>5, <3>2
      <4> QED
        BY <4>1
    <3>4. PICK a : a = listed[x]
      OBVIOUS
    <3>5. {listed[i] : i \in s} = {listed[i] : i \in t} \cup {a}
      BY <3>2, <3>4
    <3>6. it[s] = CountStep(it[t], trusted, a, signed)
      BY <3>1, <3>2, <3>4
    <3>7. ASSUME a \notin Range(trusted) \/ a \in it[t].processed PROVE Good(s)
      <4>1. Of(s) = Of(t)
        BY <3>3, <3>5, <3>7
      <4>2. it[s] = it[t]
        BY <3>6, <3>7 DEF CountStep
      <4> QED
        BY <3>3, <4>1, <4>2
    <3>8. ASSUME a \in Range(trusted), a \notin it[t].processed PROVE Good(s)
      <4>1. Of(s) = Of(t) \cup {a} /\ a \notin Of(t)
        BY <3>3, <3>5, <3>8
      <4>2. it[s] = [processed |-> it[t].processed \cup {a}, count |-> it[t].count + 1,
                     authorised |-> it[t].authorised /\ a \in signed]
        BY <3>6, <3>8 DEF CountStep
      <4>3. IsFiniteSet(Of(t) \cup {a}) /\ Cardinality(Of(t) \cup {a}) = Cardinality(Of(t)) + 1
        BY <3>3, <4>1, FS_AddElement
      <4>4. PICK d \in BOOLEAN : d = (it[t].authorised /\ a \in signed)
        BY Zenon
      <4>5. it[s] = [processed |-> it[t].processed \cup {a}, count |-> it[t].count + 1,
                     authorised |-> d]
        BY <4>2, <4>4, Zenon
      <4>6. /\ it[s].processed = it[t].processed \cup {a}
            /\ it[s].count = it[t].count + 1
            /\ it[s].authorised = d
        BY <4>5
      <4>7. it[s].processed = Of(s) /\ it[s].count = Cardinality(Of(s)) /\ IsFiniteSet(Of(s))
        BY <3>3, <4>1, <4>3, <4>6
      <4>8. it[s].authorised <=> it[t].authorised /\ a \in signed
        BY <4>4, <4>6, Zenon
      <4>9. it[s].authorised <=> Of(s) \subseteq signed
        BY <3>3, <4>1, <4>8
      <4> QED
        BY <4>7, <4>9
    <3> QED
      BY <3>7, <3>8
  <2> QED
    BY <2>1, <2>2
<1>6. SUBSET D \subseteq G
  <2> HIDE DEF G
  <2> QED
    BY <1>2, <1>5, SubsetsByInduction
<1>7. Good(D) /\ D \in SUBSET D
  BY <1>6
<1>8. Of(D) = Range(listed) \cap Range(trusted)
  BY <1>1 DEF Range
<1> QED
  BY <1>4, <1>7, <1>8

(* A call that is approved was signed by as many different trusted addresses   *)
(* as the threshold says, whatever is listed twice.                            *)
LEMMA ApprovedBySigners ==
  ASSUME NEW trusted \in Seq(Address), NEW threshold \in Nat,
         NEW listed \in Seq(Address), NEW signed, Approved(trusted, threshold, listed, signed)
  PROVE  Cardinality(signed \cap Range(trusted)) >= threshold
<1>1. PICK S : /\ S = Range(listed) \cap Range(trusted)
               /\ IsFiniteSet(S) /\ Cardinality(S) >= threshold /\ S \subseteq signed
  <2>1. PICK c : c = Count(trusted, listed, signed)
    OBVIOUS
  <2>2. PICK S : S = Range(listed) \cap Range(trusted)
    OBVIOUS
  <2>3. IsFiniteSet(S) /\ c.count = Cardinality(S) /\ (c.authorised <=> S \subseteq signed)
    BY <2>1, <2>2, CountIsOfDifferent
  <2>4. c.authorised /\ c.count >= threshold
    BY <2>1 DEF Approved
  <2> QED
    BY <2>2, <2>3, <2>4
<1>2. IsFiniteSet(Range(trusted))
  <2>1. PICK n \in Nat : trusted \in [1..n -> Address]
    <3>1. Len(trusted) \in Nat /\ trusted \in [1..Len(trusted) -> Address]
      BY LenProperties
    <3> QED
      BY <3>1
  <2>2. IsFiniteSet(1..n)
    BY FS_Interval
  <2> QED
    BY <2>1, <2>2, RangeIsFinite
<1>3. PICK T : T = signed \cap Range(trusted)
  OBVIOUS
<1>4. IsFiniteSet(T) /\ S \subseteq T
  BY <1>1, <1>2, <1>3, FS_Subset
<1>5. Cardinality(S) <= Cardinality(T) /\ Cardinality(S) \in Nat /\ Cardinality(T) \in Nat
  BY <1>4, FS_Subset, FS_CardinalityType
<1> QED
  BY <1>1, <1>3, <1>5

(* Every key of the oracle holds a value of its type.                          *)
THEOREM OracleTypes == OracleSpec => []OracleTypeOK
<1>1. OracleInit => OracleTypeOK
  BY OracleAssumption DEF OracleInit, OracleTypeOK
<1>2. OracleTypeOK /\ [OracleNext]_oracleVars => OracleTypeOK'
  <2> SUFFICES ASSUME OracleTypeOK, [OracleNext]_oracleVars PROVE OracleTypeOK'
    OBVIOUS
  <2>1. ASSUME NEW l \in Lists(Address, MaxList), NEW t \in 1..MaxList, OracleSetup(l, t)
        PROVE  OracleTypeOK'
    BY <2>1, ListsAreSequences, SignerAssumption DEF OracleSetup, OracleTypeOK
  <2>2. ASSUME NEW p \in 1..MaxPrice, NEW ts \in 0..MaxTime, NEW l \in Lists(Address, MaxList),
               NEW s \in SUBSET Address, UpdatePrice(p, ts, l, s)
        PROVE  OracleTypeOK'
    BY <2>2 DEF UpdatePrice, OracleTypeOK
  <2>3. ASSUME OracleTick PROVE OracleTypeOK'
    BY <2>3, OracleAssumption DEF OracleTick, OracleTypeOK
  <2>4. ASSUME UNCHANGED oracleVars PROVE OracleTypeOK'
    BY <2>4 DEF oracleVars, OracleTypeOK
  <2> QED
    BY <2>1, <2>2, <2>3, <2>4 DEF OracleNext
<1> QED
  BY <1>1, <1>2, PTL DEF OracleSpec

\* A price is stored only once the contract is initialised, and the validators
\* do not change after that.
OracleIInv ==
  /\ OracleTypeOK
  /\ priceData # NoPrice =>
       /\ priceThreshold > 0
       /\ Cardinality(priceSigners \cap Range(validators)) >= priceThreshold

(* For any list of validators and threshold, whatever is listed twice: a price *)
(* that is served was signed by that many different validators.                *)
THEOREM ServedIsApproved == OracleSpec => []ServedPriceApproved
<1>1. OracleInit => OracleIInv
  <2>1. OracleInit => OracleTypeOK
    BY OracleAssumption DEF OracleInit, OracleTypeOK
  <2> QED
    BY <2>1 DEF OracleInit, OracleIInv
<1>2. OracleTypeOK' /\ OracleIInv /\ [OracleNext]_oracleVars => OracleIInv'
  <2> SUFFICES ASSUME OracleTypeOK', OracleIInv, [OracleNext]_oracleVars PROVE OracleIInv'
    OBVIOUS
  <2>1. ASSUME NEW l \in Lists(Address, MaxList), NEW t \in 1..MaxList, OracleSetup(l, t)
        PROVE  OracleIInv'
    BY <2>1 DEF OracleSetup, OracleIInv
  <2>2. ASSUME NEW p \in 1..MaxPrice, NEW ts \in 0..MaxTime, NEW l \in Lists(Address, MaxList),
               NEW s \in SUBSET Address, UpdatePrice(p, ts, l, s)
        PROVE  OracleIInv'
    <3>1. validators \in Seq(Address) /\ priceThreshold \in Nat /\ l \in Seq(Address)
      BY ListsAreSequences, SignerAssumption DEF OracleIInv, OracleTypeOK
    <3>2. Cardinality(s \cap Range(validators)) >= priceThreshold
      BY <2>2, <3>1, ApprovedBySigners DEF UpdatePrice
    <3> QED
      BY <2>2, <3>2 DEF UpdatePrice, OracleIInv
  <2>3. ASSUME UNCHANGED <<validators, priceThreshold, priceData, priceSigners>>
        PROVE  OracleIInv'
    BY <2>3 DEF OracleIInv
  <2> QED
    BY <2>1, <2>2, <2>3 DEF OracleNext, OracleTick, oracleVars
<1>3. OracleIInv => ServedPriceApproved
  <2> SUFFICES ASSUME OracleIInv, NEW maxAge \in 0..MaxTime, Serves(maxAge)
               PROVE  /\ Cardinality(priceSigners \cap Range(validators)) >= priceThreshold
                      /\ now - priceData.timestamp <= maxAge
    BY DEF ServedPriceApproved
  <2>1. now \in Int /\ maxAge \in Int /\ priceData.timestamp \in Int
    BY OracleAssumption DEF OracleIInv, OracleTypeOK, Serves
  <2> QED
    BY <2>1 DEF OracleIInv, Serves
<1> QED
  BY <1>1, <1>2, <1>3, OracleTypes, PTL DEF OracleSpec

\* The stored hashes are those of the transfers that were bridged.
BridgeIInv == BridgeTypeOK /\ \A t \in Transfer : bridged[t] = IF t \in done THEN 1 ELSE 0

(* Every key of the bridge holds a value of its type, and no transfer is       *)
(* bridged twice, however many transfers, signers and submissions there are.   *)
THEOREM BridgesOnce == BridgeSpec => [](BridgeTypeOK /\ \A t \in Transfer : bridged[t] <= 1)
<1>1. BridgeInit => BridgeIInv
  BY DEF BridgeInit, BridgeIInv, BridgeTypeOK
<1>2. BridgeIInv /\ [BridgeNext]_bridgeVars => BridgeIInv'
  <2> SUFFICES ASSUME BridgeIInv, [BridgeNext]_bridgeVars PROVE BridgeIInv'
    OBVIOUS
  <2>1. ASSUME NEW l \in Lists(Address, MaxList), NEW n \in 1..MaxList, BridgeSetup(l, n)
        PROVE  BridgeIInv'
    BY <2>1, ListsAreSequences, SignerAssumption DEF BridgeSetup, BridgeIInv, BridgeTypeOK
  <2>2. ASSUME NEW t \in Transfer, NEW l \in Lists(Address, MaxList), NEW s \in SUBSET Address,
               ExecuteTransfer(t, l, s)
        PROVE  BridgeIInv'
    BY <2>2 DEF ExecuteTransfer, AlreadyDone, BridgeIInv, BridgeTypeOK
  <2>3. ASSUME UNCHANGED bridgeVars PROVE BridgeIInv'
    BY <2>3 DEF bridgeVars, BridgeIInv, BridgeTypeOK
  <2> QED
    BY <2>1, <2>2, <2>3 DEF BridgeNext
<1>3. BridgeIInv => BridgeTypeOK /\ \A t \in Transfer : bridged[t] <= 1
  BY DEF BridgeIInv, BridgeTypeOK
<1> QED
  BY <1>1, <1>2, <1>3, PTL DEF BridgeSpec

BridgeQuorum ==
  \A t \in Transfer : bridged[t] = 1 =>
    /\ bridgeThreshold > 0
    /\ Cardinality(bridgeSigners[t] \cap Range(signers)) >= bridgeThreshold

(* For any list of signers and threshold, whatever is listed twice: what is    *)
(* bridged is bridged once, with that many different signatures.               *)
THEOREM BridgedByQuorum == BridgeSpec => []BridgedOnceByQuorum
<1>1. BridgeInit => BridgeQuorum
  BY DEF BridgeInit, BridgeQuorum
<1>2. BridgeTypeOK /\ BridgeQuorum /\ [BridgeNext]_bridgeVars => BridgeQuorum'
  <2> SUFFICES ASSUME BridgeTypeOK, BridgeQuorum, [BridgeNext]_bridgeVars PROVE BridgeQuorum'
    OBVIOUS
  <2>1. ASSUME NEW l \in Lists(Address, MaxList), NEW n \in 1..MaxList, BridgeSetup(l, n)
        PROVE  BridgeQuorum'
    BY <2>1 DEF BridgeSetup, BridgeQuorum
  <2>2. ASSUME NEW t \in Transfer, NEW l \in Lists(Address, MaxList), NEW s \in SUBSET Address,
               ExecuteTransfer(t, l, s)
        PROVE  BridgeQuorum'
    <3>1. signers \in Seq(Address) /\ bridgeThreshold \in Nat /\ l \in Seq(Address)
      BY ListsAreSequences, SignerAssumption DEF BridgeTypeOK
    <3>2. Cardinality(s \cap Range(signers)) >= bridgeThreshold
      BY <2>2, <3>1, ApprovedBySigners DEF ExecuteTransfer
    <3>3. /\ bridged' = [bridged EXCEPT ![t] = bridged[t] + 1]
          /\ bridgeSigners' = [bridgeSigners EXCEPT ![t] = s]
          /\ bridgeThreshold > 0 /\ UNCHANGED <<signers, bridgeThreshold>>
      BY <2>2 DEF ExecuteTransfer
    <3> QED
      BY <3>2, <3>3 DEF BridgeQuorum, BridgeTypeOK
  <2>3. ASSUME UNCHANGED bridgeVars PROVE BridgeQuorum'
    BY <2>3 DEF bridgeVars, BridgeQuorum
  <2> QED
    BY <2>1, <2>2, <2>3 DEF BridgeNext
<1>3. BridgeTypeOK /\ (\A t \in Transfer : bridged[t] <= 1) /\ BridgeQuorum => BridgedOnceByQuorum
  BY DEF BridgeQuorum, BridgedOnceByQuorum
<1> QED
  BY <1>1, <1>2, <1>3, BridgesOnce, PTL DEF BridgeSpec

(* ---- proxy ---- *)
ProxyIInv == ProxyTypeOK /\ ProxyOwned

LEMMA ProxyStep == ProxyIInv /\ [ProxyNext]_proxyVars => ProxyIInv'
<1> SUFFICES ASSUME ProxyIInv, [ProxyNext]_proxyVars PROVE ProxyIInv'
  OBVIOUS
<1> USE ProxyAssumption DEF ProxyIInv, ProxyTypeOK, ProxyOwned
<1>1. ASSUME NEW c \in Account, NEW h \in Wasm, ProxyInitialize(c, h) PROVE ProxyIInv'
  BY <1>1 DEF ProxyInitialize
<1>2. ASSUME NEW c \in Account, NEW w \in Wasm, Upgrade(c, w) PROVE ProxyIInv'
  BY <1>2 DEF Upgrade
<1>3. ASSUME NEW c \in Account, NEW a \in Account, TransferAdmin(c, a) PROVE ProxyIInv'
  BY <1>3 DEF TransferAdmin
<1>4. ASSUME NEW c \in Account, AcceptAdmin(c) PROVE ProxyIInv'
  BY <1>4 DEF AcceptAdmin
<1>5. CASE UNCHANGED proxyVars
  BY <1>5 DEF proxyVars
<1> QED
  BY <1>1, <1>2, <1>3, <1>4, <1>5 DEF ProxyNext

(* Every key of the proxy holds a value of its type, for any number of         *)
(* addresses and codes.                                                        *)
THEOREM ProxyTypes == ProxySpec => []ProxyTypeOK
<1>1. ProxyInit => ProxyIInv
  BY ProxyAssumption DEF ProxyInit, ProxyIInv, ProxyTypeOK, ProxyOwned
<1>2. ProxyIInv => ProxyTypeOK
  BY DEF ProxyIInv
<1> QED
  BY <1>1, <1>2, ProxyStep, PTL DEF ProxySpec

(* Whoever can accept was named by the admin of this moment, and after an      *)
(* upgrade the stored hash is that of the code that runs.                      *)
THEOREM ProxyIsOwned == ProxySpec => []ProxyOwned
<1>1. ProxyInit => ProxyIInv
  BY ProxyAssumption DEF ProxyInit, ProxyIInv, ProxyTypeOK, ProxyOwned
<1>2. ProxyIInv => ProxyOwned
  BY DEF ProxyIInv
<1> QED
  BY <1>1, <1>2, ProxyStep, PTL DEF ProxySpec

(* ---- circuit breaker ---- *)
(* The balance never leaves its range, whatever is deposited and withdrawn.    *)
THEOREM BreakerTypes == BreakerSpec => []BreakerTypeOK
<1>1. BreakerInit => BreakerTypeOK
  BY BreakerAssumption DEF BreakerInit, BreakerTypeOK
<1>2. BreakerTypeOK /\ [BreakerNext]_breakerVars => BreakerTypeOK'
  BY BreakerAssumption
     DEF BreakerTypeOK, BreakerNext, breakerVars, Pause, EmergencyShutdown, Unpause,
         BreakerDeposit, BreakerWithdraw, UpdateData
<1> QED
  BY <1>1, <1>2, PTL DEF BreakerSpec

(* While the contract is paused nothing it holds changes, and no sequence of   *)
(* calls lifts an emergency shutdown.                                          *)
THEOREM ShutdownIsFinal == BreakerSpec => ShutdownHolds
<1>1. [BreakerNext]_breakerVars =>
        [/\ shutdown # "Active" => balance' = balance /\ data' = data
         /\ shutdown = "Emergency" => shutdown' = "Emergency"]_breakerVars
  BY DEF BreakerNext, breakerVars, Pause, EmergencyShutdown, Unpause, RequireActive,
         BreakerDeposit, BreakerWithdraw, UpdateData
<1> QED
  BY <1>1, PTL DEF BreakerSpec, ShutdownHolds

(* ---- flash loan ---- *)
Loan == [before : Int, fee : Int, given : Int,
         undo : [feeBps : Int, paused : BOOLEAN, locked : BOOLEAN, fees : Int, loans : Int,
                 held : Int, initialised : BOOLEAN]]

\* No loan waits: the books balance and the lock is free.
AtRest ==
  /\ frames = <<>> /\ held = given + totalFees /\ ~locked
  /\ ~initialised => totalFees = 0

\* One loan waits, taken at rest: what it would restore balances too.
OnLoan(f) ==
  /\ frames = <<f>> /\ initialised /\ locked
  /\ f.undo.initialised /\ ~f.undo.locked
  /\ f.before = f.undo.held /\ f.before = f.given + f.undo.fees
  /\ totalFees = f.undo.fees /\ given = f.given

FlashTypes ==
  /\ held \in Int /\ given \in Int /\ totalFees \in Int /\ totalLoans \in Int /\ feeBps \in Int
  /\ initialised \in BOOLEAN /\ locked \in BOOLEAN /\ paused \in BOOLEAN

FlashIInv ==
  /\ early \in BOOLEAN
  /\ ~early => FlashTypes /\ (AtRest \/ \E f \in Loan : OnLoan(f))

LEMMA OneFrame ==
  ASSUME NEW f
  PROVE  /\ Append(<<>>, f) = <<f>>
         /\ Len(<<f>>) = 1 /\ <<f>>[1] = f
         /\ SubSeq(<<f>>, 1, 0) = <<>>
         /\ <<f>> # <<>>
  OBVIOUS

LEMMA FeeType == ASSUME NEW n \in Nat, NEW bps \in Int PROVE Fee(n, bps) \in Int
  BY FlashAssumption DEF Fee

\* A second loan needs the lock, which the first one holds.
LEMMA BorrowStep ==
  ASSUME FlashIInv, NEW n \in 1..MaxTokens, Borrow(n) PROVE FlashIInv'
<1>1. early' \in BOOLEAN /\ (~early' => ~early /\ initialised)
  BY DEF Borrow, FlashIInv
<1> SUFFICES ASSUME ~early' PROVE (FlashTypes /\ (AtRest \/ \E f \in Loan : OnLoan(f)))'
  BY <1>1 DEF FlashIInv
<1>2. FlashTypes /\ AtRest /\ initialised
  BY <1>1 DEF FlashIInv, OnLoan, Borrow, AcquireLock
<1>3. n \in Nat
  BY FlashAssumption
<1>4. [before |-> held, fee |-> Fee(n, feeBps), undo |-> Stored, given |-> given] \in Loan
  BY <1>2, <1>3, FeeType DEF Loan, Stored, FlashTypes
<1>5. PICK f \in Loan : f = [before |-> held, fee |-> Fee(n, feeBps), undo |-> Stored,
                            given |-> given]
  BY <1>4
<1>6. frames' = <<f>>
  BY <1>2, <1>5, OneFrame DEF Borrow, AtRest
<1>7. FlashTypes'
  <2>1. held' \in Int
    BY <1>2, <1>3 DEF FlashTypes, Borrow
  <2>2. locked' = TRUE /\ UNCHANGED <<given, totalFees, totalLoans, feeBps, initialised, paused>>
    BY DEF Borrow, AcquireLock
  <2> QED
    BY <1>2, <2>1, <2>2 DEF FlashTypes
<1>8. OnLoan(f)'
  <2>1. initialised' /\ locked' /\ totalFees' = totalFees /\ given' = given
    BY <1>2 DEF Borrow, AcquireLock
  <2>2. f.undo.initialised /\ ~f.undo.locked /\ f.before = held /\ f.undo.held = held
        /\ f.undo.fees = totalFees /\ f.given = given
    BY <1>2, <1>5 DEF Stored, AtRest
  <2>3. held = given + totalFees
    BY <1>2 DEF AtRest
  <2> QED
    BY <1>6, <2>1, <2>2, <2>3 DEF OnLoan
<1> QED
  BY <1>7, <1>8

LEMMA SettleStep == ASSUME FlashIInv, Settle PROVE FlashIInv'
<1> SUFFICES ASSUME ~early PROVE (FlashTypes /\ (AtRest \/ \E f \in Loan : OnLoan(f)))'
  BY DEF Settle, FlashIInv
<1>1. PICK f \in Loan : OnLoan(f)
  BY DEF FlashIInv, AtRest, Settle
<1>2. Top = f /\ Rest = <<>>
  BY <1>1, OneFrame DEF Top, Rest, OnLoan
<1>3. f.before \in Int /\ f.before = given + totalFees
  BY <1>1 DEF OnLoan, Loan
<1>4. FlashTypes
  BY DEF FlashIInv
<1>5. FlashTypes'
  <2>1. totalFees' \in Int /\ totalLoans' \in Int
    BY <1>2, <1>3, <1>4 DEF Settle, FlashTypes
  <2>2. locked' = FALSE /\ UNCHANGED <<held, given, feeBps, initialised, paused>>
    BY DEF Settle
  <2> QED
    BY <1>4, <2>1, <2>2 DEF FlashTypes
<1>6. AtRest'
  BY <1>1, <1>2, <1>3, <1>4 DEF Settle, FlashTypes, AtRest, OnLoan
<1> QED
  BY <1>5, <1>6

LEMMA UndoStep == ASSUME FlashIInv, Undo PROVE FlashIInv'
<1> SUFFICES ASSUME ~early PROVE (FlashTypes /\ (AtRest \/ \E f \in Loan : OnLoan(f)))'
  BY DEF Undo, FlashIInv
<1>1. PICK f \in Loan : OnLoan(f)
  BY DEF FlashIInv, AtRest, Undo
<1>2. Top = f /\ Rest = <<>>
  BY <1>1, OneFrame DEF Top, Rest, OnLoan
<1>3. FlashTypes'
  BY <1>2 DEF Undo, FlashTypes, FlashIInv, Loan
<1>4. AtRest'
  BY <1>1, <1>2 DEF Undo, AtRest, OnLoan, Loan
<1> QED
  BY <1>3, <1>4

LEMMA ReceiveStep ==
  ASSUME FlashIInv, NEW n \in 1..MaxTokens, Receive(n) PROVE FlashIInv'
<1> SUFFICES ASSUME ~early PROVE (FlashTypes /\ (AtRest \/ \E f \in Loan : OnLoan(f)))'
  BY DEF Receive, FlashIInv
<1>1. FlashTypes'
  BY FlashAssumption DEF Receive, FlashIInv, FlashTypes
<1>2. ASSUME AtRest PROVE AtRest'
  BY <1>2, FlashAssumption DEF Receive, AtRest, FlashIInv, FlashTypes
<1>3. ASSUME NEW f \in Loan, OnLoan(f) PROVE OnLoan(f)'
  BY <1>3, OneFrame DEF Receive, OnLoan
<1> QED
  BY <1>1, <1>2, <1>3 DEF FlashIInv

LEMMA FlashStep == FlashIInv /\ [FlashNext]_flashVars => FlashIInv'
<1> SUFFICES ASSUME FlashIInv, [FlashNext]_flashVars PROVE FlashIInv'
  OBVIOUS
<1>1. ASSUME NEW bps \in 0..MaxFeeBps, Initialize(bps) PROVE FlashIInv'
  <2> SUFFICES ASSUME ~early PROVE FlashTypes' /\ AtRest'
    BY <1>1 DEF Initialize, FlashIInv
  <2>1. FlashTypes /\ AtRest
    BY <1>1 DEF FlashIInv, OnLoan, Initialize
  <2> QED
    <3>1. bps \in Int /\ totalFees = 0 /\ totalFees' = 0 /\ totalLoans' = 0 /\ feeBps' = bps
      BY <1>1, <2>1, FlashAssumption DEF Initialize, AtRest
    <3>2. initialised' = TRUE /\ locked' = FALSE /\ paused' = FALSE
          /\ UNCHANGED <<held, given, frames>>
      BY <1>1 DEF Initialize
    <3> QED
      BY <2>1, <3>1, <3>2 DEF FlashTypes, AtRest
<1>2. ASSUME NEW bps \in 0..MaxFeeBps, SetFee(bps) PROVE FlashIInv'
  BY <1>2, FlashAssumption DEF SetFee, FlashIInv, FlashTypes, AtRest, OnLoan
<1>3. ASSUME NEW p \in BOOLEAN, SetPaused(p) PROVE FlashIInv'
  BY <1>3 DEF SetPaused, FlashIInv, FlashTypes, AtRest, OnLoan
<1>4. ASSUME UNCHANGED flashVars PROVE FlashIInv'
  BY <1>4 DEF flashVars, FlashIInv, FlashTypes, AtRest, OnLoan
<1> QED
  BY <1>1, <1>2, <1>3, <1>4, BorrowStep, ReceiveStep, SettleStep, UndoStep DEF FlashNext

\* The values of the contract and of every call it could fall back to.
FlashFrame ==
  [before : 0..MaxTokens, fee : Nat, given : Nat,
   undo : [feeBps : Nat, paused : BOOLEAN, locked : BOOLEAN, fees : Nat, loans : Nat,
           held : 0..MaxTokens, initialised : BOOLEAN]]

FlashTyped == FlashTypeOK /\ frames \in Seq(FlashFrame)

LEMMA FeeIsNat == ASSUME NEW n \in Nat, NEW bps \in Nat PROVE Fee(n, bps) \in Nat
<1>1. n * bps \in Nat
  OBVIOUS
<1>2. \A k \in Nat : k \div BpsDenom \in Nat
  BY FlashAssumption
<1> QED
  BY <1>1, <1>2 DEF Fee

LEMMA TopFrame ==
  ASSUME frames \in Seq(FlashFrame), frames # <<>>
  PROVE  Top \in FlashFrame /\ Rest \in Seq(FlashFrame)
<1>1. Len(frames) \in Nat /\ Len(frames) >= 1
  BY LenProperties, EmptySeq
<1>2. \A i \in 1..(Len(frames) - 1) : frames[i] \in FlashFrame
  BY <1>1, ElementOfSeq
<1>3. Rest \in Seq(FlashFrame)
  BY <1>1, <1>2, SubSeqProperties DEF Rest
<1>4. Top \in FlashFrame
  BY <1>1, ElementOfSeq DEF Top
<1> QED
  BY <1>3, <1>4

LEMMA FlashTypedStep == FlashTyped /\ [FlashNext]_flashVars => FlashTyped'
<1> SUFFICES ASSUME FlashTyped, [FlashNext]_flashVars PROVE FlashTyped'
  OBVIOUS
<1>1. ASSUME NEW bps \in 0..MaxFeeBps, Initialize(bps) PROVE FlashTyped'
  <2>1. feeBps' \in Nat /\ totalFees' \in Nat /\ totalLoans' \in Nat
    BY <1>1, FlashAssumption DEF Initialize
  <2>2. initialised' = TRUE /\ paused' = FALSE /\ locked' = FALSE
        /\ UNCHANGED <<held, given, frames, early>>
    BY <1>1 DEF Initialize
  <2> QED
    BY <2>1, <2>2 DEF FlashTyped, FlashTypeOK
<1>8. ASSUME NEW bps \in 0..MaxFeeBps, SetFee(bps) PROVE FlashTyped'
  BY <1>8, FlashAssumption DEF SetFee, FlashTyped, FlashTypeOK
<1>2. ASSUME NEW p \in BOOLEAN, SetPaused(p) PROVE FlashTyped'
  BY <1>2 DEF SetPaused, FlashTyped, FlashTypeOK
<1>3. ASSUME NEW n \in 1..MaxTokens, Borrow(n) PROVE FlashTyped'
  <2>1. n \in Nat /\ feeBps \in Nat
    BY FlashAssumption DEF FlashTyped, FlashTypeOK
  <2>2. Fee(n, feeBps) \in Nat
    BY <2>1, FeeIsNat
  <2>3. [before |-> held, fee |-> Fee(n, feeBps), undo |-> Stored, given |-> given] \in FlashFrame
    BY <2>2 DEF FlashFrame, Stored, FlashTyped, FlashTypeOK
  <2>4. frames' \in Seq(FlashFrame)
    BY <1>3, <2>3, AppendProperties DEF Borrow, FlashTyped
  <2>5. held' \in 0..MaxTokens
    BY <1>3, <2>1, FlashAssumption DEF Borrow, FlashTyped, FlashTypeOK
  <2>6. locked' = TRUE /\ early' \in BOOLEAN
        /\ UNCHANGED <<initialised, feeBps, paused, totalFees, totalLoans, given>>
    BY <1>3 DEF Borrow, AcquireLock
  <2> QED
    BY <2>4, <2>5, <2>6 DEF FlashTyped, FlashTypeOK
<1>4. ASSUME NEW n \in 1..MaxTokens, Receive(n) PROVE FlashTyped'
  BY <1>4, FlashAssumption DEF Receive, FlashTyped, FlashTypeOK
<1>5. ASSUME Settle PROVE FlashTyped'
  <2>1. Top \in FlashFrame /\ Rest \in Seq(FlashFrame)
    BY <1>5, TopFrame DEF Settle, FlashTyped
  <2>2. totalFees' \in Nat /\ totalLoans' \in Nat
    <3>1. Top.before \in Nat /\ Top.fee \in Nat /\ held \in Nat /\ totalFees \in Nat
          /\ totalLoans \in Nat
      BY <2>1, FlashAssumption DEF FlashFrame, FlashTyped, FlashTypeOK
    <3>2. held - Top.before >= 0
      BY <1>5, <3>1 DEF Settle, Repaid
    <3> QED
      BY <1>5, <3>1, <3>2 DEF Settle
  <2>3. locked' = FALSE /\ frames' = Rest
        /\ UNCHANGED <<initialised, feeBps, paused, held, given, early>>
    BY <1>5 DEF Settle
  <2> QED
    BY <2>1, <2>2, <2>3 DEF FlashTyped, FlashTypeOK
<1>6. ASSUME Undo PROVE FlashTyped'
  <2>1. Top \in FlashFrame /\ Rest \in Seq(FlashFrame)
    BY <1>6, TopFrame DEF Undo, FlashTyped
  <2> QED
    BY <1>6, <2>1 DEF Undo, FlashFrame, FlashTyped, FlashTypeOK
<1>7. ASSUME UNCHANGED flashVars PROVE FlashTyped'
  BY <1>7 DEF flashVars, FlashTyped, FlashTypeOK
<1> QED
  BY <1>1, <1>2, <1>3, <1>4, <1>5, <1>6, <1>7, <1>8 DEF FlashNext

(* Whatever calls nest and whichever of them are undone, the recorded fees are *)
(* never negative and the contract never holds more tokens than there are.     *)
THEOREM FlashTypesHold == FlashSpec => []FlashTypeOK
<1>1. FlashInit => FlashTyped
  <2> SUFFICES ASSUME FlashInit PROVE FlashTyped
    OBVIOUS
  <2>1. feeBps \in Nat /\ totalFees \in Nat /\ totalLoans \in Nat /\ held \in 0..MaxTokens
        /\ given \in Nat /\ frames \in Seq(FlashFrame)
    BY FlashAssumption, EmptySeq DEF FlashInit
  <2>2. initialised \in BOOLEAN /\ locked \in BOOLEAN /\ paused \in BOOLEAN /\ early \in BOOLEAN
    BY Zenon DEF FlashInit
  <2> QED
    BY <2>1, <2>2 DEF FlashTyped, FlashTypeOK
<1>2. FlashTyped => FlashTypeOK
  BY DEF FlashTyped
<1> QED
  BY <1>1, <1>2, FlashTypedStep, PTL DEF FlashSpec

(* For any fees, amounts and number of loans, whatever is called while a loan  *)
(* waits: between transactions the contract holds what it was given and its    *)
(* recorded fees, and the lock is free.                                        *)
THEOREM FeesAreEarned == FlashSpec => []FeesAreTheGains
<1>1. FlashInit => FlashIInv
  <2> SUFFICES ASSUME FlashInit PROVE FlashTypes /\ AtRest /\ early \in BOOLEAN
    BY DEF FlashIInv
  <2>1. held \in Int /\ given \in Int /\ totalFees \in Int /\ totalLoans \in Int /\ feeBps \in Int
        /\ held = given + totalFees
    BY FlashAssumption DEF FlashInit
  <2>2. frames = <<>> /\ ~locked /\ totalFees = 0
        /\ initialised \in BOOLEAN /\ locked \in BOOLEAN /\ paused \in BOOLEAN /\ early \in BOOLEAN
    BY Zenon DEF FlashInit
  <2> QED
    BY <2>1, <2>2 DEF FlashTypes, AtRest
<1>2. FlashIInv => FeesAreTheGains
  BY OneFrame DEF FlashIInv, FeesAreTheGains, AtRest, OnLoan
<1> QED
  BY <1>1, <1>2, FlashStep, PTL DEF FlashSpec

(* ---- guard wrapper ---- *)
\* The most recent entries of s, at most cap of them.
Latest(s, cap) == SubSeq(s, IF Len(s) > cap THEN Len(s) - cap + 1 ELSE 1, Len(s))

\* Appending before or after taking the end of a sequence is the same.
LEMMA SuffixAppended ==
  ASSUME NEW S, NEW s \in Seq(S), NEW x \in S, NEW m \in 1..(Len(s) + 1)
  PROVE  /\ Append(SubSeq(s, m, Len(s)), x) = SubSeq(Append(s, x), m, Len(s) + 1)
         /\ Append(SubSeq(s, m, Len(s)), x) \in Seq(S)
         /\ Len(Append(SubSeq(s, m, Len(s)), x)) = Len(s) - m + 2
<1>1. PICK n \in Nat : n = Len(s)
  BY LenProperties
<1>2. m \in Nat /\ m >= 1 /\ m <= n + 1
  BY <1>1
<1>3. PICK t \in Seq(S) : t = Append(s, x)
  BY AppendProperties
<1>4. /\ Len(t) = n + 1 /\ t[n + 1] = x
      /\ \A i \in 1..n : t[i] = s[i]
  BY <1>1, <1>3, AppendProperties
<1>5. /\ \A i \in m..n : s[i] \in S
      /\ \A i \in m..(n + 1) : t[i] \in S
  BY <1>1, <1>2, <1>4, ElementOfSeq
<1>14. PICK k \in Int : k = n + 1
  OBVIOUS
<1>15. m \in Int /\ n \in Int /\ \A i \in m..k : t[i] \in S
  BY <1>2, <1>5, <1>14
<1>6. PICK u : u = SubSeq(s, m, n)
  OBVIOUS
<1>7. /\ u \in Seq(S)
      /\ Len(u) = IF m <= n THEN n - m + 1 ELSE 0
      /\ \A i \in 1..(n - m + 1) : u[i] = s[m + i - 1]
  BY <1>5, <1>6, <1>15, SubSeqProperties
<1>8. PICK v : v = SubSeq(t, m, k)
  OBVIOUS
<1>9. /\ v \in Seq(S)
      /\ Len(v) = IF m <= k THEN k - m + 1 ELSE 0
      /\ \A i \in 1..(k - m + 1) : v[i] = t[m + i - 1]
  BY <1>8, <1>15, SubSeqProperties
<1>16. Len(u) = n - m + 1 /\ Len(v) = n - m + 2
  BY <1>2, <1>7, <1>9, <1>14
<1>10. PICK w \in Seq(S) : w = Append(u, x)
  BY <1>7, AppendProperties
<1>11. Len(w) = Len(u) + 1 /\ w[Len(u) + 1] = x /\ \A i \in 1..Len(u) : w[i] = u[i]
  BY <1>7, <1>10, AppendProperties
<1>12. ASSUME NEW i \in 1..Len(w) PROVE w[i] = v[i]
  <2>1. i \in Nat /\ i >= 1 /\ i <= n - m + 2
    BY <1>2, <1>11, <1>16
  <2>2. v[i] = t[m + i - 1]
    BY <1>2, <1>9, <1>14, <2>1
  <2>3. ASSUME i = n - m + 2 PROVE w[i] = v[i]
    BY <1>2, <1>4, <1>11, <1>16, <2>2, <2>3
  <2>4. ASSUME i <= n - m + 1 PROVE w[i] = v[i]
    <3>1. w[i] = u[i] /\ u[i] = s[m + i - 1]
      BY <1>2, <1>7, <1>11, <1>16, <2>1, <2>4
    <3>2. m + i - 1 \in 1..n
      BY <1>2, <2>1, <2>4
    <3> QED
      BY <1>4, <2>2, <3>1, <3>2
  <2> QED
    BY <1>2, <2>1, <2>3, <2>4
<1>13. w = v
  <2>1. Len(w) = Len(v)
    BY <1>2, <1>11, <1>16
  <2> QED
    BY <1>9, <1>12, <2>1, SeqEqual
<1> QED
  <2>1. Len(w) = n - m + 2
    BY <1>2, <1>11, <1>16
  <2> QED
    BY <1>1, <1>3, <1>6, <1>8, <1>10, <1>13, <1>14, <2>1

\* Appending to a capped log and dropping the oldest keeps the latest entries.
LEMMA LatestAppended ==
  ASSUME NEW S, NEW s \in Seq(S), NEW x \in S, NEW cap \in Nat \ {0}
  PROVE  LET log == Append(Latest(s, cap), x) IN
         Latest(Append(s, x), cap) = IF Len(log) > cap THEN Tail(log) ELSE log
<1>1. PICK n \in Nat : n = Len(s)
  BY LenProperties
<1>2. PICK t \in Seq(S) : t = Append(s, x)
  BY AppendProperties
<1>3. Len(t) = n + 1
  BY <1>1, <1>2, AppendProperties
<1>10. (IF n > cap THEN n - cap + 1 ELSE 1) \in 1..(n + 1)
  OBVIOUS
<1>4. PICK m \in 1..(n + 1) : m = IF n > cap THEN n - cap + 1 ELSE 1
  BY <1>10
<1>9. Latest(s, cap) = SubSeq(s, m, n)
  BY <1>1, <1>4 DEF Latest
<1>5. PICK log \in Seq(S) : log = Append(Latest(s, cap), x) /\ log = SubSeq(t, m, n + 1)
                            /\ Len(log) = n - m + 2
  <2>1. m \in 1..(Len(s) + 1)
    BY <1>1
  <2>2. /\ Append(SubSeq(s, m, Len(s)), x) = SubSeq(Append(s, x), m, Len(s) + 1)
        /\ Append(SubSeq(s, m, Len(s)), x) \in Seq(S)
        /\ Len(Append(SubSeq(s, m, Len(s)), x)) = Len(s) - m + 2
    BY <2>1, SuffixAppended
  <2> QED
    BY <1>1, <1>2, <1>9, <2>2
<1>6. SUFFICES Latest(t, cap) = IF Len(log) > cap THEN Tail(log) ELSE log
  BY <1>2, <1>5
<1>7. ASSUME n < cap PROVE Latest(t, cap) = IF Len(log) > cap THEN Tail(log) ELSE log
  <2>1. m = 1 /\ ~(n + 1 > cap) /\ ~(n - m + 2 > cap)
    BY <1>4, <1>7
  <2> QED
    BY <1>3, <1>5, <2>1 DEF Latest
<1>8. ASSUME n >= cap PROVE Latest(t, cap) = IF Len(log) > cap THEN Tail(log) ELSE log
  <2>1. m = n - cap + 1 /\ n - m + 2 > cap /\ n + 1 > cap /\ (n + 1) - cap + 1 = m + 1
        /\ m \in 1..(n + 1) /\ n + 1 \in m..(n + 1)
    BY <1>4, <1>8
  <2>2. Tail(SubSeq(t, m, n + 1)) = SubSeq(t, m + 1, n + 1)
    BY <1>3, <2>1, HeadTailOfSubSeq
  <2> QED
    BY <1>3, <1>5, <2>1, <2>2 DEF Latest
<1> QED
  BY <1>7, <1>8

Books == [checked : Nat, log : Seq(Functions), failures : {<<>>}, metrics : Nat]

\* Before init there has been no successful call.
WrapperIInv ==
  /\ wrapped \in BOOLEAN /\ calls \in Seq(Functions) /\ book \in Books
  /\ BookTellsTheCalls
  /\ ~wrapped => calls = <<>>

LEMMA EmptyBook ==
  /\ [checked |-> 0, log |-> <<>>, failures |-> <<>>, metrics |-> 0] \in Books
  /\ Len(<<>>) = 0
  /\ <<>> = SubSeq(<<>>, IF 0 > LogCap THEN 0 - LogCap + 1 ELSE 1, 0)
  /\ 0 = IF 0 > MetricsCap THEN MetricsCap ELSE 0
<1>1. LogCap \in Nat /\ MetricsCap \in Nat /\ ~(0 > LogCap) /\ ~(0 > MetricsCap)
  BY WrapperAssumption
<1>2. Len(<<>>) = 0 /\ SubSeq(<<>>, 1, 0) = <<>> /\ <<>> \in Seq(Functions)
  OBVIOUS
<1> QED
  BY <1>1, <1>2 DEF Books

LEMMA LatestLength ==
  ASSUME NEW S, NEW s \in Seq(S), NEW cap \in Nat \ {0}
  PROVE  Len(Latest(s, cap)) = IF Len(s) > cap THEN cap ELSE Len(s)
<1>1. PICK n \in Nat : n = Len(s)
  BY LenProperties
<1>2. (IF n > cap THEN n - cap + 1 ELSE 1) \in 1..(n + 1)
  OBVIOUS
<1>3. PICK m \in 1..(n + 1) : m = IF n > cap THEN n - cap + 1 ELSE 1
  BY <1>2
<1>4. m \in Int /\ n \in Int /\ \A i \in m..n : s[i] \in S
  BY <1>1, ElementOfSeq
<1>5. Len(SubSeq(s, m, n)) = IF m <= n THEN n - m + 1 ELSE 0
  BY <1>4, SubSeqProperties
<1>6. (IF m <= n THEN n - m + 1 ELSE 0) = IF n > cap THEN cap ELSE n
  BY <1>3
<1> QED
  BY <1>1, <1>3, <1>5, <1>6 DEF Latest

\* What the guards leave in the book of a call that succeeds.
LEMMA GuardedCall ==
  ASSUME NEW b \in Books, NEW fn \in Functions, NEW args \in 0..2, NEW numbers \in BOOLEAN,
         ExecuteGuarded(b, fn, args, numbers).ok
  PROVE  LET log == Append(b.log, fn) IN
         /\ wrapped
         /\ ExecuteGuarded(b, fn, args, numbers).book =
              [checked  |-> b.checked + 1,
               log      |-> IF Len(log) > LogCap THEN Tail(log) ELSE log,
               failures |-> b.failures,
               metrics  |-> IF b.metrics + 1 > MetricsCap THEN MetricsCap ELSE b.metrics + 1]
<1>1. wrapped /\ ExecuteGuarded(b, fn, args, numbers).book =
        LogExecution(PostGuards(RecordMetrics(b)), fn)
  BY DEF ExecuteGuarded
<1>2. PostGuards(RecordMetrics(b)) =
        [checked |-> b.checked + 1, log |-> b.log, failures |-> b.failures,
         metrics |-> IF b.metrics + 1 > MetricsCap THEN MetricsCap ELSE b.metrics + 1]
  <2>1. b = [checked |-> b.checked, log |-> b.log, failures |-> b.failures,
             metrics |-> b.metrics]
    BY DEF Books
  <2>2. RecordMetrics(b) =
          [checked |-> b.checked, log |-> b.log, failures |-> b.failures,
           metrics |-> IF b.metrics + 1 > MetricsCap THEN MetricsCap ELSE b.metrics + 1]
    BY <2>1 DEF RecordMetrics
  <2> QED
    BY <2>2 DEF PostGuards
<1>3. PICK m : m = IF b.metrics + 1 > MetricsCap THEN MetricsCap ELSE b.metrics + 1
  OBVIOUS
<1>4. PICK l : l = IF Len(Append(b.log, fn)) > LogCap THEN Tail(Append(b.log, fn))
                   ELSE Append(b.log, fn)
  OBVIOUS
<1>5. PICK q : q = [checked |-> b.checked + 1, log |-> b.log, failures |-> b.failures,
                    metrics |-> m]
  OBVIOUS
<1>6. q.log = b.log /\ LogExecution(q, fn) = [q EXCEPT !.log = l]
  BY <1>4, <1>5 DEF LogExecution
<1>7. [q EXCEPT !.log = l] = [checked |-> b.checked + 1, log |-> l, failures |-> b.failures,
                              metrics |-> m]
  BY <1>5
<1> QED
  BY <1>1, <1>2, <1>3, <1>4, <1>5, <1>6, <1>7

LEMMA InvokeStep ==
  ASSUME WrapperIInv, NEW fn \in Functions, NEW args \in 0..2, NEW numbers \in BOOLEAN,
         Invoke(fn, args, numbers)
  PROVE  WrapperIInv' /\ (calls' = calls \/ Len(calls') = Len(calls) + 1)
<1> DEFINE r == ExecuteGuarded(book, fn, args, numbers)
<1>1. CASE ~r.ok
  <2>1. UNCHANGED <<book, calls, wrapped>>
    BY <1>1 DEF Invoke
  <2> QED
    BY <2>1 DEF WrapperIInv, BookTellsTheCalls
<1>2. CASE r.ok
  <2>1. wrapped /\ wrapped' = wrapped /\ calls' = Append(calls, fn) /\ book' = r.book
    BY <1>2, GuardedCall DEF Invoke, WrapperIInv
  <2>2. PICK log : log = Append(book.log, fn)
    OBVIOUS
  <2>3. book' = [checked  |-> book.checked + 1,
                 log      |-> IF Len(log) > LogCap THEN Tail(log) ELSE log,
                 failures |-> book.failures,
                 metrics  |-> IF book.metrics + 1 > MetricsCap THEN MetricsCap
                              ELSE book.metrics + 1]
    BY <1>2, <2>1, <2>2, GuardedCall DEF WrapperIInv
  <2>4. calls \in Seq(Functions) /\ calls' \in Seq(Functions) /\ Len(calls') = Len(calls) + 1
        /\ Len(calls) \in Nat
    BY <2>1, AppendProperties, LenProperties DEF WrapperIInv
  <2>5. book.log = Latest(calls, LogCap)
    BY DEF WrapperIInv, BookTellsTheCalls, Latest
  <2>6. book'.log = Latest(calls', LogCap)
    BY <2>1, <2>2, <2>3, <2>4, <2>5, LatestAppended, WrapperAssumption
  <2>7. book'.checked = Len(calls')
    BY <2>3, <2>4 DEF WrapperIInv, BookTellsTheCalls
  <2>8. book'.failures = <<>>
    BY <2>3 DEF WrapperIInv, BookTellsTheCalls
  <2>9. book'.metrics = IF Len(calls') > MetricsCap THEN MetricsCap ELSE Len(calls')
    BY <2>3, <2>4, WrapperAssumption DEF WrapperIInv, BookTellsTheCalls
  <2>10. BookTellsTheCalls'
    BY <2>6, <2>7, <2>8, <2>9 DEF BookTellsTheCalls, Latest
  <2>11. book' \in Books
    <3>1. log \in Seq(Functions) /\ log # <<>>
      BY <2>2, AppendProperties DEF WrapperIInv, Books
    <3>2. Tail(log) \in Seq(Functions)
      BY <3>1, HeadTailProperties
    <3>3. book.checked + 1 \in Nat /\ book.failures = <<>>
          /\ (IF book.metrics + 1 > MetricsCap THEN MetricsCap ELSE book.metrics + 1) \in Nat
      BY WrapperAssumption DEF WrapperIInv, Books
    <3> QED
      BY <2>3, <3>1, <3>2, <3>3 DEF Books
  <2> QED
    BY <2>1, <2>4, <2>10, <2>11 DEF WrapperIInv
<1> QED
  BY <1>1, <1>2

LEMMA WrapperStep == WrapperIInv /\ [WrapperNext]_wrapperVars => WrapperIInv'
<1> SUFFICES ASSUME WrapperIInv, [WrapperNext]_wrapperVars PROVE WrapperIInv'
  OBVIOUS
<1>1. ASSUME WrapperSetup PROVE WrapperIInv'
  <2>1. calls = <<>> /\ calls' = <<>> /\ wrapped' = TRUE
        /\ book' = [checked |-> 0, log |-> <<>>, failures |-> <<>>, metrics |-> 0]
    BY <1>1 DEF WrapperSetup, WrapperIInv
  <2>2. (book \in Books /\ BookTellsTheCalls)'
    BY <2>1, EmptyBook DEF BookTellsTheCalls
  <2> QED
    BY <2>1, <2>2 DEF WrapperIInv
<1>2. ASSUME UNCHANGED wrapperVars PROVE WrapperIInv'
  BY <1>2 DEF wrapperVars, WrapperIInv, BookTellsTheCalls
<1> QED
  BY <1>1, <1>2, InvokeStep DEF WrapperNext

LEMMA WrapperStarts == WrapperInit => WrapperIInv
<1> SUFFICES ASSUME WrapperInit PROVE WrapperIInv
  OBVIOUS
<1>1. book \in Books /\ BookTellsTheCalls
  BY EmptyBook DEF WrapperInit, BookTellsTheCalls
<1>2. calls \in Seq(Functions)
  BY DEF WrapperInit
<1> QED
  BY <1>1, <1>2 DEF WrapperInit, WrapperIInv

(* For any caps, the book of the guard wrapper is that of its successful calls:*)
(* the counters and the capped log lose and invent nothing, and the record of  *)
(* failures is empty.                                                          *)
THEOREM BookIsExact == WrapperSpec => []BookTellsTheCalls
<1>1. WrapperIInv => BookTellsTheCalls
  BY DEF WrapperIInv
<1> QED
  BY <1>1, WrapperStarts, WrapperStep, PTL DEF WrapperSpec

(* Every key of the wrapper holds a value of its type, the metrics one within  *)
(* the cap.                                                                    *)
THEOREM WrapperTypes == WrapperSpec => []WrapperTypeOK
<1>1. WrapperIInv => WrapperTypeOK
  BY WrapperAssumption DEF WrapperIInv, WrapperTypeOK, Books, BookTellsTheCalls
<1> QED
  BY <1>1, WrapperStarts, WrapperStep, PTL DEF WrapperSpec

(* A wrapper that was once unhealthy never reports healthy again, for any caps *)
(* that are not below the limit of the health check.                           *)
THEOREM UnhealthyIsFinal == WrapperSpec => StaysUnhealthy
<1>1. WrapperIInv /\ [WrapperNext]_wrapperVars
        => [wrapped /\ ~HealthCheck => ~HealthCheck']_wrapperVars
  <2> SUFFICES ASSUME WrapperIInv, WrapperNext, wrapped, ~HealthCheck PROVE ~HealthCheck'
    BY DEF wrapperVars
  <2>1. WrapperIInv' /\ Len(calls') >= Len(calls)
    BY InvokeStep, LenProperties DEF WrapperNext, WrapperSetup, WrapperIInv
  <2>2. Len(calls) \in Nat /\ Len(calls') \in Nat
    BY <2>1, LenProperties DEF WrapperIInv
  <2>3. /\ Len(book.log) = IF Len(calls) > LogCap THEN LogCap ELSE Len(calls)
        /\ book.metrics = IF Len(calls) > MetricsCap THEN MetricsCap ELSE Len(calls)
    BY LatestLength, WrapperAssumption DEF WrapperIInv, BookTellsTheCalls, Latest
  <2>4. /\ Len(book'.log) = IF Len(calls') > LogCap THEN LogCap ELSE Len(calls')
        /\ book'.metrics = IF Len(calls') > MetricsCap THEN MetricsCap ELSE Len(calls')
    BY <2>1, LatestLength, WrapperAssumption DEF WrapperIInv, BookTellsTheCalls, Latest
  <2>5. Len(calls) >= HealthyLimit
    BY <2>2, <2>3, WrapperAssumption DEF HealthCheck
  <2> QED
    BY <2>1, <2>2, <2>4, <2>5, WrapperAssumption DEF HealthCheck
<1> QED
  BY <1>1, WrapperStarts, WrapperStep, PTL DEF WrapperSpec, StaysUnhealthy

(* ---- the editor extension ---- *)

Text == Nat \cup {Never}
JobState == [doc : Doc \cup {Never}, stage : {"timer", "lookup", "done"}, kept : Text,
             saw : SUBSET Verdicts]

EditorTypeOK ==
  /\ textOf \in [Doc -> Text] /\ shown \in [Doc -> Text]
  /\ debouncers \in [Doc -> JobIds \cup {Never}]
  /\ jobs \in [JobIds -> JobState]
  /\ settings \in [enable : BOOLEAN, only : BOOLEAN, changes : Nat]
  /\ workspace \in [is : Verdicts, edits : Nat]
  /\ found \in SUBSET Verdicts /\ workspace.is \in found /\ wsCache \in found \cup {Never}
  /\ crossed \subseteq Doc

\* A search brings a verdict that is counted as one it may have found.
SearchesFound == \A j \in JobIds : jobs[j].stage = "lookup" => jobs[j].saw \subseteq found

\* Some verdict since the cache was cleared explains what the document shows.
Explained(d) == \E verdict \in found : shown[d] = Wanted(d, verdict)

JobsAreOfDocuments ==
  /\ \A j \in JobIds : jobs[j].stage # "done" => jobs[j].doc \in Doc
  /\ \A d \in Doc : debouncers[d] # Never => jobs[debouncers[d]].doc = d

UncrossedIsCurrent ==
  \A d \in Doc \ crossed :
    /\ \A j \in Pending(d) : /\ jobs[j].kept = Never /\ textOf[d] # Never
                             /\ jobs[j].stage = "lookup" => settings.only
    /\ Pending(d) = {} => Explained(d)
EditorIInv == EditorTypeOK /\ SearchesFound /\ JobsAreOfDocuments /\ UncrossedIsCurrent

LEMMA EditorInitHolds == EditorInit => EditorIInv
<1> SUFFICES ASSUME EditorInit PROVE EditorIInv
  OBVIOUS
<1>1. EditorTypeOK
  <2>1. jobs \in [JobIds -> JobState]
    BY DEF EditorInit, JobState, NoJob, Text
  <2>2. settings \in [enable : BOOLEAN, only : BOOLEAN, changes : Nat]
    <3>1. PICK only \in BOOLEAN : settings = [enable |-> TRUE, only |-> only, changes |-> 0]
      BY DEF EditorInit
    <3> QED
      BY <3>1
  <2>3. /\ workspace \in [is : Verdicts, edits : Nat] /\ found \in SUBSET Verdicts
        /\ workspace.is \in found /\ wsCache \in found \cup {Never}
    <3>1. workspace \in [is : Verdicts, edits : {0}] /\ wsCache = Never /\ found = {workspace.is}
      BY DEF EditorInit
    <3> QED
      BY <3>1
  <2> QED
    BY <2>1, <2>2, <2>3 DEF EditorInit, EditorTypeOK, Text
<1>2. JobsAreOfDocuments /\ SearchesFound
  BY DEF EditorInit, JobsAreOfDocuments, SearchesFound, NoJob
<1>3. ASSUME NEW d \in Doc PROVE Pending(d) = {} /\ Explained(d)
  BY <1>1 DEF EditorInit, Pending, NoJob, Explained, Wanted, EditorTypeOK
<1> QED
  BY <1>1, <1>2, <1>3 DEF EditorIInv, UncrossedIsCurrent

\* schedule gives each document a timer of its own and leaves the jobs of the others.
LEMMA ScheduleDoes ==
  ASSUME EditorTypeOK, JobsAreOfDocuments, NEW docs \in SUBSET Doc, Schedule(docs)
  PROVE  /\ \A d \in docs : debouncers'[d] \in JobIds /\ jobs'[debouncers'[d]] = Job(d)
         /\ \A d \in Doc \ docs : debouncers'[d] = debouncers[d]
         /\ \A j \in JobIds : jobs[j].doc \in Doc \ docs => jobs'[j] = jobs[j]
         /\ \A j \in JobIds : \/ \E d \in docs : jobs'[j] = Job(d)
                              \/ jobs'[j] \in {jobs[j], [jobs[j] EXCEPT !.stage = "done"]}
<1>1. PICK fresh \in Fresh(docs) : Rescheduled(docs, fresh)
  BY DEF Schedule
<1>2. /\ fresh \in [docs -> Unused] /\ \A d, e \in docs : fresh[d] = fresh[e] => d = e
      /\ Unused \subseteq JobIds
  BY <1>1 DEF Fresh, Unused
<1>3. /\ \A j \in JobIds : jobs'[j] =
           IF \E d \in docs : fresh[d] = j THEN Job(CHOOSE d \in docs : fresh[d] = j)
           ELSE IF \E d \in docs : debouncers[d] = j THEN [jobs[j] EXCEPT !.stage = "done"]
           ELSE jobs[j]
      /\ \A d \in Doc : debouncers'[d] = IF d \in docs THEN fresh[d] ELSE debouncers[d]
  BY <1>1 DEF Rescheduled
<1>4. ASSUME NEW d \in docs PROVE debouncers'[d] \in JobIds /\ jobs'[debouncers'[d]] = Job(d)
  <2>1. debouncers'[d] = fresh[d] /\ fresh[d] \in JobIds
    BY <1>2, <1>3
  <2>2. (CHOOSE e \in docs : fresh[e] = fresh[d]) = d
    BY <1>2
  <2> QED
    BY <1>3, <2>1, <2>2
<1>5. ASSUME NEW j \in JobIds, jobs[j].doc \in Doc \ docs PROVE jobs'[j] = jobs[j]
  <2>1. ~\E d \in docs : fresh[d] = j
    BY <1>2, <1>5, EditorAssumption DEF Unused
  <2>2. ~\E d \in docs : debouncers[d] = j
    <3> SUFFICES ASSUME NEW d \in docs, debouncers[d] = j PROVE FALSE
      OBVIOUS
    <3>1. j # Never
      BY EditorAssumption DEF JobIds
    <3> QED
      BY <1>5, <3>1 DEF JobsAreOfDocuments
  <2> QED
    BY <1>3, <2>1, <2>2
<1>6. ASSUME NEW j \in JobIds
      PROVE  \/ \E d \in docs : jobs'[j] = Job(d)
             \/ jobs'[j] \in {jobs[j], [jobs[j] EXCEPT !.stage = "done"]}
  <2>1. ASSUME \E d \in docs : fresh[d] = j PROVE \E d \in docs : jobs'[j] = Job(d)
    BY <1>3, <2>1
  <2> QED
    BY <1>3, <2>1
<1> QED
  BY <1>3, <1>4, <1>5, <1>6

\* The jobs after a schedule: those of the scheduled documents and the others.
LEMMA JobsAfterSchedule ==
  ASSUME EditorTypeOK, JobsAreOfDocuments, NEW docs \in SUBSET Doc, Schedule(docs)
  PROVE  /\ jobs' \in [JobIds -> JobState] /\ debouncers' \in [Doc -> JobIds \cup {Never}]
         /\ JobsAreOfDocuments'
         /\ \A j \in JobIds : jobs'[j].stage = "lookup" => jobs'[j] = jobs[j]
         /\ \A d \in docs :
              /\ Pending(d)' # {}
              /\ \A j \in Pending(d)' : jobs'[j] = Job(d) \/ (j \in Pending(d) /\ jobs'[j] = jobs[j])
         /\ \A d \in Doc \ docs :
              Pending(d)' = Pending(d) /\ \A j \in Pending(d) : jobs'[j] = jobs[j]
<1>1. /\ \A d \in docs : debouncers'[d] \in JobIds /\ jobs'[debouncers'[d]] = Job(d)
      /\ \A d \in Doc \ docs : debouncers'[d] = debouncers[d]
      /\ \A j \in JobIds : jobs[j].doc \in Doc \ docs => jobs'[j] = jobs[j]
      /\ \A j \in JobIds : \/ \E d \in docs : jobs'[j] = Job(d)
                           \/ jobs'[j] \in {jobs[j], [jobs[j] EXCEPT !.stage = "done"]}
  BY ScheduleDoes
<1>2. jobs \in [JobIds -> JobState] /\ debouncers \in [Doc -> JobIds \cup {Never}]
  BY DEF EditorTypeOK
<1>3. \A d \in Doc : Job(d).doc = d /\ Job(d).stage = "timer" /\ Job(d) \in JobState
  BY DEF Job, JobState, Text
<1>4. \A j \in JobIds : /\ [jobs[j] EXCEPT !.stage = "done"].doc = jobs[j].doc
                        /\ [jobs[j] EXCEPT !.stage = "done"].stage = "done"
                        /\ [jobs[j] EXCEPT !.stage = "done"] \in JobState
  BY <1>2 DEF JobState
<1>5. jobs' \in [JobIds -> JobState]
  <2>1. jobs' = [j \in JobIds |-> jobs'[j]]
    BY DEF Schedule, Rescheduled
  <2>2. \A j \in JobIds : jobs'[j] \in JobState
    BY <1>1, <1>2, <1>3, <1>4
  <2> QED
    BY <2>1, <2>2
<1>6. debouncers' \in [Doc -> JobIds \cup {Never}]
  <2>1. debouncers' = [d \in Doc |-> debouncers'[d]]
    BY DEF Schedule, Rescheduled
  <2>2. \A d \in Doc : debouncers'[d] \in JobIds \cup {Never}
    BY <1>1, <1>2
  <2> QED
    BY <2>1, <2>2
<1>7. ASSUME NEW j \in JobIds, jobs'[j].stage # "done"
      PROVE  (\E d \in docs : jobs'[j] = Job(d)) \/ jobs'[j] = jobs[j]
  BY <1>1, <1>4, <1>7
<1>8. JobsAreOfDocuments'
  <2>1. ASSUME NEW j \in JobIds, jobs'[j].stage # "done" PROVE jobs'[j].doc \in Doc
    BY <1>3, <1>7, <2>1 DEF JobsAreOfDocuments
  <2>2. ASSUME NEW d \in Doc, debouncers'[d] # Never PROVE jobs'[debouncers'[d]].doc = d
    <3>1. ASSUME d \notin docs PROVE jobs'[debouncers[d]].doc = d
      BY <1>1, <1>2, <2>2, <3>1 DEF JobsAreOfDocuments
    <3> QED
      BY <1>1, <1>3, <3>1
  <2> QED
    BY <2>1, <2>2 DEF JobsAreOfDocuments
<1>9. ASSUME NEW d \in docs
      PROVE  /\ Pending(d)' # {}
             /\ \A j \in Pending(d)' : jobs'[j] = Job(d) \/ (j \in Pending(d) /\ jobs'[j] = jobs[j])
  <2>1. debouncers'[d] \in Pending(d)'
    BY <1>1, <1>3 DEF Pending
  <2>2. ASSUME NEW j \in Pending(d)'
        PROVE  jobs'[j] = Job(d) \/ (j \in Pending(d) /\ jobs'[j] = jobs[j])
    <3>1. j \in JobIds /\ jobs'[j].doc = d /\ jobs'[j].stage # "done"
      BY <2>2 DEF Pending
    <3>2. ASSUME \E e \in docs : jobs'[j] = Job(e) PROVE jobs'[j] = Job(d)
      BY <1>3, <3>1, <3>2
    <3>3. ASSUME jobs'[j] = jobs[j] PROVE j \in Pending(d)
      BY <3>1, <3>3 DEF Pending
    <3>4. (\E e \in docs : jobs'[j] = Job(e)) \/ jobs'[j] = jobs[j]
      BY <1>7, <3>1
    <3>5. jobs'[j] = Job(d) \/ jobs'[j] = jobs[j]
      BY <3>2, <3>4
    <3> QED
      BY <3>3, <3>5
  <2> QED
    BY <2>1, <2>2
<1>10. ASSUME NEW d \in Doc \ docs
       PROVE  Pending(d)' = Pending(d) /\ \A j \in Pending(d) : jobs'[j] = jobs[j]
  <2>1. \A j \in Pending(d) : jobs'[j] = jobs[j]
    BY <1>1 DEF Pending
  <2>2. Pending(d) \subseteq Pending(d)'
    BY <2>1 DEF Pending
  <2>3. ASSUME NEW j \in Pending(d)' PROVE j \in Pending(d)
    <3>1. j \in JobIds /\ jobs'[j].doc = d /\ jobs'[j].stage # "done"
      BY <2>3 DEF Pending
    <3>2. ~\E e \in docs : jobs'[j] = Job(e)
      BY <1>3, <3>1
    <3> QED
      BY <1>7, <3>1, <3>2 DEF Pending
  <2> QED
    BY <2>1, <2>2, <2>3
<1>11. \A j \in JobIds : jobs'[j].stage = "lookup" => jobs'[j] = jobs[j]
  BY <1>3, <1>7
<1> QED
  BY <1>5, <1>6, <1>8, <1>9, <1>10, <1>11

\* Opening and changing a document.
LEMMA EditorEdits ==
  ASSUME EditorIInv, NEW d \in Doc, NEW v \in Nat, textOf' = [textOf EXCEPT ![d] = v],
         Schedule({d}), UNCHANGED <<settings, cacheVars, shown, crossed>>
  PROVE  EditorIInv'
<1>1. /\ jobs' \in [JobIds -> JobState] /\ debouncers' \in [Doc -> JobIds \cup {Never}]
      /\ JobsAreOfDocuments'
      /\ \A j \in JobIds : jobs'[j].stage = "lookup" => jobs'[j] = jobs[j]
      /\ Pending(d)' # {}
      /\ \A j \in Pending(d)' : jobs'[j] = Job(d) \/ (j \in Pending(d) /\ jobs'[j] = jobs[j])
      /\ \A e \in Doc : e # d =>
           Pending(e)' = Pending(e) /\ \A j \in Pending(e) : jobs'[j] = jobs[j]
  <2>1. {d} \in SUBSET Doc
    OBVIOUS
  <2> QED
    BY <2>1, JobsAfterSchedule DEF EditorIInv
<1>2. EditorTypeOK' /\ SearchesFound'
  BY <1>1 DEF EditorIInv, EditorTypeOK, SearchesFound, Text, cacheVars
<1>3. textOf'[d] = v /\ v # Never /\ \A e \in Doc : e # d => textOf'[e] = textOf[e]
  BY EditorAssumption DEF EditorIInv, EditorTypeOK
<1>4. ASSUME NEW e \in Doc \ crossed', NEW j \in Pending(e)'
      PROVE  /\ jobs'[j].kept = Never /\ textOf'[e] # Never
             /\ jobs'[j].stage = "lookup" => settings'.only
  <2>1. Job(d).kept = Never /\ Job(d).stage = "timer"
    BY DEF Job
  <2>2. jobs'[j] = Job(d) \/ (j \in Pending(e) /\ jobs'[j] = jobs[j])
    BY <1>1
  <2>3. e # d => j \in Pending(e)
    BY <1>1
  <2> QED
    BY <1>1, <1>3, <2>1, <2>2, <2>3 DEF EditorIInv, UncrossedIsCurrent
<1>5. ASSUME NEW e \in Doc \ crossed', Pending(e)' = {} PROVE Explained(e)'
  BY <1>1, <1>3, <1>5 DEF EditorIInv, UncrossedIsCurrent, Explained, Wanted, cacheVars
<1>6. UncrossedIsCurrent'
  BY <1>4, <1>5 DEF UncrossedIsCurrent
<1> QED
  BY <1>1, <1>2, <1>6 DEF EditorIInv

\* A closed document that is not crossed had nothing pending and shows nothing.
LEMMA EditorCloses == ASSUME EditorIInv, NEW d \in Doc, CloseDocument(d) PROVE EditorIInv'
<1>1. /\ textOf \in [Doc -> Text] /\ shown \in [Doc -> Text] /\ jobs \in [JobIds -> JobState]
      /\ debouncers \in [Doc -> JobIds \cup {Never}]
  BY DEF EditorIInv, EditorTypeOK
<1>2. \A j \in JobIds : /\ jobs'[j].doc = jobs[j].doc /\ jobs'[j].stage = jobs[j].stage
                        /\ j \notin Pending(d) => jobs'[j] = jobs[j]
                        /\ jobs'[j] \in JobState
  BY <1>1 DEF CloseDocument, JobState
<1>3. EditorTypeOK'
  <2>1. jobs' \in [JobIds -> JobState]
    BY <1>2 DEF CloseDocument
  <2>2. /\ textOf' \in [Doc -> Text] /\ shown' \in [Doc -> Text]
        /\ debouncers' \in [Doc -> JobIds \cup {Never}]
    BY <1>1 DEF CloseDocument, Text
  <2>3. crossed' \subseteq Doc
    BY DEF CloseDocument, EditorIInv, EditorTypeOK
  <2> QED
    BY <2>1, <2>2, <2>3 DEF CloseDocument, EditorIInv, EditorTypeOK, cacheVars
<1>3a. SearchesFound'
  <2>1. \A j \in JobIds : jobs'[j].saw = jobs[j].saw
    BY <1>1 DEF CloseDocument, JobState
  <2> QED
    BY <1>2, <2>1 DEF CloseDocument, cacheVars, EditorIInv, SearchesFound
<1>4. JobsAreOfDocuments'
  <2>1. ASSUME NEW e \in Doc, debouncers'[e] # Never PROVE jobs'[debouncers'[e]].doc = e
    <3>1. debouncers'[e] = debouncers[e] /\ debouncers[e] \in JobIds
      BY <1>1, <2>1 DEF CloseDocument
    <3> QED
      BY <1>2, <2>1, <3>1 DEF EditorIInv, JobsAreOfDocuments
  <2> QED
    BY <1>2, <2>1 DEF EditorIInv, JobsAreOfDocuments
<1>5. \A e : Pending(e)' = Pending(e)
  BY <1>2 DEF Pending
<1>6. ASSUME NEW e \in Doc \ crossed', e # d
      PROVE  /\ \A j \in Pending(e)' : /\ jobs'[j].kept = Never /\ textOf'[e] # Never
                                       /\ jobs'[j].stage = "lookup" => settings'.only
             /\ Pending(e)' = {} => Explained(e)'
  <2>1. /\ e \notin crossed /\ textOf'[e] = textOf[e] /\ shown'[e] = shown[e]
        /\ settings' = settings /\ found' = found
    BY <1>1, <1>6 DEF CloseDocument, cacheVars
  <2>2. \A j \in Pending(e) : jobs'[j] = jobs[j]
    BY <1>2, <1>6 DEF Pending
  <2> QED
    BY <1>5, <2>1, <2>2 DEF EditorIInv, UncrossedIsCurrent, Explained, Wanted
<1>7. ASSUME d \notin crossed' PROVE Pending(d)' = {} /\ Explained(d)'
  <2>1. Pending(d) = {}
    BY <1>7 DEF CloseDocument
  <2>2. textOf'[d] = Never /\ shown'[d] = Never
    BY <1>1 DEF CloseDocument
  <2>3. found' # {}
    BY <1>3 DEF EditorTypeOK
  <2> QED
    BY <1>5, <2>1, <2>2, <2>3 DEF Explained, Wanted
<1>8. UncrossedIsCurrent'
  BY <1>6, <1>7 DEF UncrossedIsCurrent
<1> QED
  BY <1>3, <1>3a, <1>4, <1>8 DEF EditorIInv

\* An edited manifest adds a verdict and takes none away.
LEMMA EditorManifest ==
  ASSUME EditorIInv, NEW verdict \in Verdicts, EditManifest(verdict) PROVE EditorIInv'
<1>1. /\ jobs \in [JobIds -> JobState] /\ workspace \in [is : Verdicts, edits : Nat]
      /\ found \in SUBSET Verdicts /\ wsCache \in found \cup {Never}
  BY DEF EditorIInv, EditorTypeOK
<1>2. \A j \in JobIds :
        /\ jobs'[j].doc = jobs[j].doc /\ jobs'[j].stage = jobs[j].stage
        /\ jobs'[j].kept = jobs[j].kept /\ jobs'[j].saw \subseteq jobs[j].saw \cup {verdict}
        /\ jobs'[j] \in JobState
  <2> SUFFICES ASSUME NEW j \in JobIds
               PROVE  /\ jobs'[j].doc = jobs[j].doc /\ jobs'[j].stage = jobs[j].stage
                      /\ jobs'[j].kept = jobs[j].kept
                      /\ jobs'[j].saw \subseteq jobs[j].saw \cup {verdict}
                      /\ jobs'[j] \in JobState
    OBVIOUS
  <2>1. jobs[j] \in JobState
    BY <1>1
  <2>2. jobs'[j] \in {jobs[j], [jobs[j] EXCEPT !.saw = @ \union {verdict}]}
    BY DEF EditManifest
  <2> QED
    BY <2>1, <2>2 DEF JobState
<1>3. EditorTypeOK'
  <2>1. jobs' \in [JobIds -> JobState]
    BY <1>2 DEF EditManifest
  <2>2. /\ workspace' \in [is : Verdicts, edits : Nat] /\ found' \in SUBSET Verdicts
        /\ workspace'.is \in found' /\ wsCache' \in found' \cup {Never}
    BY <1>1 DEF EditManifest
  <2> QED
    BY <2>1, <2>2 DEF EditManifest, EditorIInv, EditorTypeOK
<1>4. found' = found \cup {verdict} /\ UNCHANGED <<textOf, debouncers, settings, shown, crossed>>
  BY DEF EditManifest
<1>5. SearchesFound'
  BY <1>2, <1>4 DEF EditorIInv, SearchesFound
<1>6. JobsAreOfDocuments'
  <2>1. ASSUME NEW e \in Doc, debouncers[e] # Never PROVE jobs'[debouncers[e]].doc = e
    <3>1. debouncers[e] \in JobIds
      BY <2>1 DEF EditorIInv, EditorTypeOK
    <3> QED
      BY <1>2, <2>1, <3>1 DEF EditorIInv, JobsAreOfDocuments
  <2> QED
    BY <1>2, <1>4, <2>1 DEF EditorIInv, JobsAreOfDocuments
<1>7. ASSUME NEW e PROVE Pending(e)' = Pending(e)
  BY <1>2 DEF Pending
<1>8. ASSUME NEW e \in Doc \ crossed', NEW k \in Pending(e)'
      PROVE  /\ jobs'[k].kept = Never /\ textOf'[e] # Never
             /\ jobs'[k].stage = "lookup" => settings'.only
  <2>1. k \in Pending(e) /\ k \in JobIds
    BY <1>7 DEF Pending
  <2> QED
    BY <1>2, <1>4, <2>1 DEF EditorIInv, UncrossedIsCurrent
<1>9. ASSUME NEW e \in Doc \ crossed', Pending(e)' = {} PROVE Explained(e)'
  BY <1>4, <1>7, <1>9 DEF EditorIInv, UncrossedIsCurrent, Explained, Wanted
<1>10. UncrossedIsCurrent'
  BY <1>8, <1>9 DEF UncrossedIsCurrent
<1> QED
  BY <1>3, <1>5, <1>6, <1>10 DEF EditorIInv

LEMMA EditorReconfigures ==
  ASSUME EditorIInv, NEW enable \in BOOLEAN, NEW only \in BOOLEAN, Reconfigure(enable, only)
  PROVE  EditorIInv'
<1>1. PICK open \in SUBSET Doc : open = {d \in Doc : textOf[d] # Never}
  OBVIOUS
<1>2. /\ jobs' \in [JobIds -> JobState] /\ debouncers' \in [Doc -> JobIds \cup {Never}]
      /\ JobsAreOfDocuments'
      /\ \A j \in JobIds : jobs'[j].stage = "lookup" => jobs'[j] = jobs[j]
      /\ \A d \in open :
           /\ Pending(d)' # {}
           /\ \A j \in Pending(d)' : jobs'[j] = Job(d) \/ (j \in Pending(d) /\ jobs'[j] = jobs[j])
      /\ \A d \in Doc \ open :
           Pending(d)' = Pending(d) /\ \A j \in Pending(d) : jobs'[j] = jobs[j]
  <2>1. Schedule(open)
    BY <1>1 DEF Reconfigure
  <2> QED
    BY <2>1, JobsAfterSchedule DEF EditorIInv
<1>3. EditorTypeOK'
  <2>1. settings' \in [enable : BOOLEAN, only : BOOLEAN, changes : Nat]
    BY DEF Reconfigure, EditorIInv, EditorTypeOK
  <2>2. crossed' \subseteq Doc
    BY DEF Reconfigure, EditorIInv, EditorTypeOK
  <2>3. /\ found' \in SUBSET Verdicts /\ workspace'.is \in found' /\ wsCache' = Never
        /\ workspace' = workspace
    <3>1. \A j \in Searching : jobs[j].saw \subseteq Verdicts
      BY DEF Searching, EditorIInv, EditorTypeOK, JobState
    <3>2. workspace.is \in Verdicts
      BY DEF EditorIInv, EditorTypeOK
    <3> QED
      BY <3>1, <3>2 DEF Reconfigure
  <2> QED
    BY <1>2, <2>1, <2>2, <2>3 DEF Reconfigure, EditorIInv, EditorTypeOK
<1>3a. SearchesFound'
  <2> SUFFICES ASSUME NEW j \in JobIds, jobs'[j].stage = "lookup" PROVE jobs'[j].saw \subseteq found'
    BY DEF SearchesFound
  <2>1. jobs'[j] = jobs[j] /\ j \in Searching
    BY <1>2 DEF Searching
  <2> QED
    BY <2>1 DEF Reconfigure
<1>4. textOf' = textOf /\ shown' = shown /\ crossed \subseteq crossed'
  BY DEF Reconfigure
<1>5. ASSUME NEW d \in Doc \ crossed', NEW j \in Pending(d) PROVE jobs[j].stage # "lookup"
  BY <1>5 DEF Reconfigure
<1>6. ASSUME NEW d \in Doc \ crossed', d \in open
      PROVE  /\ \A j \in Pending(d)' : /\ jobs'[j].kept = Never /\ textOf'[d] # Never
                                       /\ jobs'[j].stage # "lookup"
             /\ Pending(d)' # {}
  <2>1. Job(d).kept = Never /\ Job(d).stage = "timer" /\ textOf[d] # Never
    BY <1>1, <1>6 DEF Job
  <2> QED
    BY <1>2, <1>4, <1>5, <1>6, <2>1 DEF EditorIInv, UncrossedIsCurrent
<1>7. ASSUME NEW d \in Doc \ crossed', d \notin open PROVE Pending(d)' = {} /\ Explained(d)'
  <2>1. textOf[d] = Never
    BY <1>1, <1>7
  <2>2. Pending(d) = {} /\ Explained(d)
    BY <1>4, <2>1 DEF EditorIInv, UncrossedIsCurrent
  <2>3. shown[d] = Never
    BY <2>1, <2>2 DEF Explained, Wanted
  <2>4. found' # {}
    BY <1>3 DEF EditorTypeOK
  <2> QED
    BY <1>2, <1>4, <1>7, <2>1, <2>2, <2>3, <2>4 DEF Explained, Wanted
<1>8. UncrossedIsCurrent'
  BY <1>6, <1>7, Zenon DEF UncrossedIsCurrent
<1> QED
  BY <1>2, <1>3, <1>3a, <1>8 DEF EditorIInv

\* A job that ends shows what is wanted now, unless its document was crossed.
LEMMA EditorJobEnds ==
  ASSUME EditorIInv, NEW j \in JobIds, NEW d \in Doc, d = jobs[j].doc, NEW show \in Text,
         Finish(j, show), UNCHANGED <<textOf, settings, workspace, found, crossed>>,
         wsCache' \in found \cup {Never},
         debouncers' \in {debouncers, [debouncers EXCEPT ![d] = Never]},
         d \notin crossed => \E verdict \in found : show = Wanted(d, verdict)
  PROVE  EditorIInv'
<1>1. /\ jobs \in [JobIds -> JobState] /\ shown \in [Doc -> Text]
      /\ debouncers \in [Doc -> JobIds \cup {Never}]
  BY DEF EditorIInv, EditorTypeOK
<1>2. /\ jobs' \in [JobIds -> JobState] /\ shown' = [shown EXCEPT ![d] = show]
      /\ jobs'[j].doc = d /\ jobs'[j].stage = "done"
      /\ \A k \in JobIds : k # j => jobs'[k] = jobs[k]
  BY <1>1 DEF Finish, JobState
<1>3. EditorTypeOK'
  BY <1>1, <1>2 DEF EditorIInv, EditorTypeOK
<1>3a. SearchesFound'
  BY <1>2 DEF EditorIInv, SearchesFound
<1>4. JobsAreOfDocuments'
  <2>1. ASSUME NEW e \in Doc, debouncers'[e] # Never PROVE jobs'[debouncers'[e]].doc = e
    <3>1. debouncers'[e] = debouncers[e] /\ debouncers[e] \in JobIds
      BY <1>1, <2>1
    <3> QED
      BY <1>2, <2>1, <3>1 DEF EditorIInv, JobsAreOfDocuments
  <2> QED
    BY <1>2, <2>1 DEF EditorIInv, JobsAreOfDocuments
<1>5. ASSUME NEW e PROVE Pending(e)' = Pending(e) \ {j}
  BY <1>2 DEF Pending
<1>6. ASSUME NEW e \in Doc, e # d PROVE Pending(e)' = Pending(e) /\ shown'[e] = shown[e]
  <2>1. j \notin Pending(e)
    BY <1>6 DEF Pending
  <2> QED
    BY <1>1, <1>2, <1>5, <1>6, <2>1
<1>7. shown'[d] = show
  BY <1>1, <1>2
<1>8. ASSUME NEW e \in Doc \ crossed', NEW k \in Pending(e)'
      PROVE  /\ jobs'[k].kept = Never /\ textOf'[e] # Never
             /\ jobs'[k].stage = "lookup" => settings'.only
  <2>1. k \in Pending(e) /\ k # j /\ k \in JobIds
    BY <1>5 DEF Pending
  <2> QED
    BY <1>2, <2>1 DEF EditorIInv, UncrossedIsCurrent
<1>9. ASSUME NEW e \in Doc \ crossed', Pending(e)' = {} PROVE Explained(e)'
  <2>1. CASE e = d
    BY <1>7, <2>1 DEF Explained, Wanted
  <2>2. CASE e # d
    <3>1. Explained(e)
      BY <1>6, <1>9, <2>2 DEF EditorIInv, UncrossedIsCurrent
    <3> QED
      BY <1>6, <2>2, <3>1 DEF Explained, Wanted
  <2> QED
    BY <2>1, <2>2
<1>10. UncrossedIsCurrent'
  BY <1>8, <1>9 DEF UncrossedIsCurrent
<1> QED
  BY <1>3, <1>3a, <1>4, <1>10 DEF EditorIInv

\* What an ending job analyses is the open document's text.
LEMMA AnalysedIsWanted ==
  ASSUME EditorIInv, NEW j \in JobIds, NEW d \in Doc, d = jobs[j].doc, jobs[j].stage # "done"
  PROVE  /\ Analysed(j) \in Text
         /\ \A verdict : d \notin crossed =>
              Wanted(d, verdict) = IF settings.only => verdict = "soroban" THEN Analysed(j) ELSE Never
         /\ d \notin crossed /\ jobs[j].stage = "lookup" => settings.only
<1>1. Analysed(j) \in Text
  BY DEF EditorIInv, EditorTypeOK, JobState, Analysed, Text
<1>2. j \in Pending(d)
  BY DEF Pending
<1> QED
  BY <1>1, <1>2 DEF EditorIInv, UncrossedIsCurrent, Analysed, Wanted

LEMMA EditorTimerFires == ASSUME EditorIInv, NEW j \in JobIds, TimerFires(j) PROVE EditorIInv'
<1>1. PICK d \in Doc : d = jobs[j].doc
  BY DEF TimerFires, EditorIInv, JobsAreOfDocuments
<1>2. ASSUME Cached PROVE EditorIInv'
  <2>1. PICK show : show = IF settings.only /\ wsCache = "other" THEN Never ELSE Analysed(j)
    OBVIOUS
  <2>2. /\ Finish(j, show) /\ UNCHANGED <<textOf, settings, workspace, found, crossed>>
        /\ wsCache' \in found \cup {Never} /\ debouncers' = [debouncers EXCEPT ![d] = Never]
    BY <1>1, <1>2, <2>1 DEF TimerFires, AtOnce, cacheVars, EditorIInv, EditorTypeOK
  <2>3. /\ Analysed(j) \in Text
        /\ \A verdict : d \notin crossed =>
             Wanted(d, verdict) = IF settings.only => verdict = "soroban" THEN Analysed(j) ELSE Never
    BY <1>1, AnalysedIsWanted DEF TimerFires
  <2>4. workspace.is \in found /\ wsCache \in found \cup {Never} /\ found \subseteq Verdicts
    BY DEF EditorIInv, EditorTypeOK
  <2>5. ASSUME d \notin crossed PROVE \E verdict \in found : show = Wanted(d, verdict)
    <3>1. CASE ~settings.only
      BY <2>1, <2>3, <2>4, <2>5, <3>1
    <3>2. CASE settings.only
      <4>1. wsCache \in found /\ wsCache \in {"soroban", "other"}
        BY <1>2, <2>4, <3>2 DEF Cached, Verdicts
      <4>2. show = IF wsCache = "soroban" THEN Analysed(j) ELSE Never
        BY <2>1, <3>2, <4>1
      <4> QED
        BY <2>3, <2>5, <3>2, <4>1, <4>2
    <3> QED
      BY <3>1, <3>2
  <2>6. show \in Text
    BY <2>1, <2>3 DEF Text
  <2> QED
    BY <1>1, <2>2, <2>5, <2>6, EditorJobEnds
<1>3. ASSUME ~Cached PROVE EditorIInv'
  <2>0. settings.only /\ workspace.is \in found /\ workspace.is \in Verdicts
    BY <1>3 DEF Cached, EditorIInv, EditorTypeOK
  <2>1. /\ jobs' = [jobs EXCEPT ![j].stage = "lookup", ![j].saw = {workspace.is}]
        /\ debouncers' = [debouncers EXCEPT ![d] = Never]
        /\ UNCHANGED <<shown, textOf, settings, workspace, wsCache, found, crossed>>
    BY <1>1, <1>3 DEF TimerFires, cacheVars
  <2>2. jobs \in [JobIds -> JobState] /\ debouncers \in [Doc -> JobIds \cup {Never}]
    BY DEF EditorIInv, EditorTypeOK
  <2>3. /\ jobs' \in [JobIds -> JobState] /\ jobs'[j].doc = d /\ jobs'[j].kept = jobs[j].kept
        /\ jobs'[j].stage = "lookup" /\ jobs'[j].saw = {workspace.is}
        /\ \A k \in JobIds : k # j => jobs'[k] = jobs[k]
    BY <1>1, <2>0, <2>1, <2>2 DEF JobState
  <2>4. EditorTypeOK'
    BY <2>1, <2>2, <2>3 DEF EditorIInv, EditorTypeOK
  <2>4a. SearchesFound'
    BY <2>0, <2>1, <2>3 DEF EditorIInv, SearchesFound
  <2>5. JobsAreOfDocuments'
    <3>1. ASSUME NEW e \in Doc, debouncers'[e] # Never PROVE jobs'[debouncers'[e]].doc = e
      <4>1. debouncers'[e] = debouncers[e] /\ debouncers[e] \in JobIds
        BY <2>1, <2>2, <3>1
      <4> QED
        BY <1>1, <2>3, <3>1, <4>1 DEF EditorIInv, JobsAreOfDocuments
    <3> QED
      BY <1>1, <2>3, <3>1 DEF EditorIInv, JobsAreOfDocuments
  <2>6. ASSUME NEW e PROVE Pending(e)' = Pending(e)
    BY <1>1, <2>3 DEF Pending, TimerFires
  <2>7. ASSUME NEW e \in Doc \ crossed', NEW k \in Pending(e)'
        PROVE  /\ jobs'[k].kept = Never /\ textOf'[e] # Never
               /\ jobs'[k].stage = "lookup" => settings'.only
    <3>1. k \in Pending(e) /\ k \in JobIds
      BY <2>6 DEF Pending
    <3>2. jobs[k].kept = Never /\ textOf[e] # Never
      BY <2>1, <3>1 DEF EditorIInv, UncrossedIsCurrent
    <3> QED
      BY <2>0, <2>1, <2>3, <3>1, <3>2
  <2>8. ASSUME NEW e \in Doc \ crossed', Pending(e)' = {} PROVE Explained(e)'
    BY <2>1, <2>6, <2>8 DEF EditorIInv, UncrossedIsCurrent, Explained, Wanted
  <2>9. UncrossedIsCurrent'
    BY <2>7, <2>8 DEF UncrossedIsCurrent
  <2> QED
    BY <2>4, <2>4a, <2>5, <2>9 DEF EditorIInv
<1> QED
  BY <1>2, <1>3

LEMMA EditorWorkspaceKnown ==
  ASSUME EditorIInv, NEW j \in JobIds, WorkspaceKnown(j) PROVE EditorIInv'
<1>1. PICK d \in Doc : d = jobs[j].doc
  BY DEF WorkspaceKnown, EditorIInv, JobsAreOfDocuments
<1>2. PICK verdict \in jobs[j].saw :
        wsCache' = verdict /\ Finish(j, IF verdict = "soroban" THEN Analysed(j) ELSE Never)
  BY DEF WorkspaceKnown
<1>3. verdict \in found /\ UNCHANGED <<textOf, debouncers, settings, workspace, found, crossed>>
  BY <1>2 DEF WorkspaceKnown, EditorIInv, SearchesFound
<1>4. PICK show \in Text : show = IF verdict = "soroban" THEN Analysed(j) ELSE Never
  BY <1>1, AnalysedIsWanted DEF WorkspaceKnown, Text
<1>5. d \notin crossed => show = Wanted(d, verdict)
  BY <1>1, <1>4, AnalysedIsWanted DEF WorkspaceKnown
<1> QED
  BY <1>1, <1>2, <1>3, <1>4, <1>5, EditorJobEnds

(* When nothing is pending every open document shows the findings of its       *)
(* present text and a closed one none, whatever the order of the timers and    *)
(* the workspace searches, for any number of documents, versions, jobs,        *)
(* changes of the configuration and edits of the manifests (schedule, the      *)
(* handlers of activate, runAnalysis, sorobanWorkspaceCache).                  *)
THEOREM EditorShowsText == EditorSpec => []DocumentsShowTheirText
<1>1. EditorIInv /\ [EditorNext]_editorVars => EditorIInv'
  <2> SUFFICES ASSUME EditorIInv, [EditorNext]_editorVars PROVE EditorIInv'
    OBVIOUS
  <2>1. ASSUME NEW d \in Doc, OpenDocument(d) PROVE EditorIInv'
    BY <2>1, EditorEdits DEF OpenDocument
  <2>2. ASSUME NEW d \in Doc, ChangeDocument(d) PROVE EditorIInv'
    <3>1. textOf[d] + 1 \in Nat
      BY <2>2 DEF ChangeDocument, EditorIInv, EditorTypeOK, Text
    <3> QED
      BY <2>2, <3>1, EditorEdits DEF ChangeDocument
  <2>3. ASSUME NEW d \in Doc, CloseDocument(d) PROVE EditorIInv'
    BY <2>3, EditorCloses
  <2>4. ASSUME NEW enable \in BOOLEAN, NEW only \in BOOLEAN, Reconfigure(enable, only)
        PROVE  EditorIInv'
    BY <2>4, EditorReconfigures
  <2>5. ASSUME NEW j \in JobIds, TimerFires(j) PROVE EditorIInv'
    BY <2>5, EditorTimerFires
  <2>6. ASSUME NEW j \in JobIds, WorkspaceKnown(j) PROVE EditorIInv'
    BY <2>6, EditorWorkspaceKnown
  <2>7. ASSUME NEW verdict \in Verdicts, EditManifest(verdict) PROVE EditorIInv'
    BY <2>7, EditorManifest
  <2>8. ASSUME UNCHANGED editorVars PROVE EditorIInv'
    BY <2>8 DEF editorVars, EditorIInv, EditorTypeOK, SearchesFound, JobsAreOfDocuments,
                UncrossedIsCurrent, Pending, Explained, Wanted
  <2> QED
    BY <2>1, <2>2, <2>3, <2>4, <2>5, <2>6, <2>7, <2>8 DEF EditorNext
<1>2. EditorIInv => DocumentsShowTheirText
  BY DEF EditorIInv, UncrossedIsCurrent, Explained, DocumentsShowTheirText
<1> QED
  BY <1>1, <1>2, EditorInitHolds, PTL DEF EditorSpec

(* ---- POST of the analyze route ---- *)
CliState == {"none", "running", "failed", "signalled", "ended"}
PromiseState == {"open", "report", "noReport", "error", "timedOut"}
HandlerState == [at : {"unsent", "mkdtemp", "parse", "analysing", "removing", "answered"},
                 status : Nat]
AuditRecord == [request : Request, outcomeCode : Nat]

RouteTypeOK ==
  /\ clock \in 0..MaxClock
  /\ rateLimitMap \in [Client -> [count : Nat, resetTime : Nat]]
  /\ handler \in [Request -> HandlerState]
  /\ cli \in [Request -> CliState]
  /\ promise \in [Request -> PromiseState]
  /\ auditLog \in Seq(AuditRecord)
  /\ Len(auditLog) <= MaxLogSize
  /\ admitted \subseteq [request : Request, client : Client, time : 0..clock]
  /\ IsFiniteSet(admitted)

\* The log holds one record of a request, and only of requests that are settled.
LogIsOfDone ==
  /\ \A i \in DOMAIN auditLog :
       /\ auditLog[i].request \in Done
       /\ auditLog[i].outcomeCode = handler[auditLog[i].request].status
  /\ \A i, j \in DOMAIN auditLog : auditLog[i].request = auditLog[j].request => i = j
  /\ \A r \in Done : Records(r) # {} \/ Len(auditLog) = MaxLogSize

\* The CLI runs from its start until the promise is settled.
PromiseOfCli ==
  \A r \in Request :
    /\ handler[r].at \in {"unsent", "mkdtemp", "parse"} => cli[r] = "none" /\ promise[r] = "open"
    /\ handler[r].at = "analysing" => promise[r] # "open" \/ cli[r] = "running"
    /\ r \in Done => IF promise[r] = "open" THEN cli[r] = "none"
                     ELSE handler[r].status = StatusOf[promise[r]]
    /\ promise[r] # "open" => cli[r] # "running"

\* What the limit has let through of a client from a moment on, and before another.
Since(c, from) == {a \in admitted : a.client = c /\ a.time >= from}
Within(c, from, end) == {a \in admitted : a.client = c /\ a.time >= from /\ a.time < end}
Moment == 0..MaxClock

\* The count of an entry is of its window, and the time of a window before it
\* (before now, when there is no entry) had no more than the limit.
WindowHeld(c) ==
  LET entry == rateLimitMap[c]
      start == entry.resetTime - Window
  IN IF entry.count = 0
     THEN /\ Since(c, clock) = {}
          /\ \A t \in Moment : t + Window >= clock => Cardinality(Since(c, t)) <= RateLimit
     ELSE /\ entry.count <= RateLimit /\ start \in 0..clock
          /\ Since(c, entry.resetTime + 1) = {}
          /\ Cardinality(Since(c, start)) <= entry.count
          /\ \A t \in Moment : t + Window >= start => Cardinality(Within(c, t, start)) <= RateLimit

RateIInv == RateHeld /\ \A c \in Client : WindowHeld(c)

RouteIInv == RouteTypeOK /\ LogIsOfDone /\ PromiseOfCli /\ RateIInv

LEMMA RouteInitHolds == RouteInit => RouteIInv
<1> SUFFICES ASSUME RouteInit PROVE RouteIInv
  OBVIOUS
<1>1. RouteTypeOK
  BY RouteAssumption, FS_EmptySet DEF RouteInit, RouteTypeOK, HandlerState, CliState, PromiseState
<1>2. Done = {} /\ DOMAIN auditLog = {}
  BY DEF RouteInit, Done
<1>3. LogIsOfDone
  BY <1>2 DEF LogIsOfDone
<1>4. PromiseOfCli
  BY <1>2 DEF RouteInit, PromiseOfCli
<1>5. ASSUME NEW c \in Client PROVE WindowHeld(c)
  BY RouteAssumption, FS_EmptySet DEF RouteInit, WindowHeld, Since
<1>6. RateHeld
  <2>1. ASSUME NEW c \in Client, NEW t \in 0..MaxClock
        PROVE  {a \in admitted : a.client = c /\ a.time \in t..t + Window} = {}
    BY DEF RouteInit
  <2>2. 0 <= 2 * RateLimit /\ Cardinality({}) = 0
    BY RouteAssumption, FS_EmptySet
  <2> QED
    BY <2>1, <2>2, Zenon DEF RateHeld
<1> QED
  BY <1>1, <1>3, <1>4, <1>5, <1>6 DEF RouteIInv, RateIInv

\* The ring buffer takes one more record and, when full, drops its first.
LEMMA Recorded ==
  ASSUME RouteTypeOK, NEW r \in Request, NEW code \in Nat, recordScanAudit(r, code)
  PROVE  /\ auditLog' \in Seq(AuditRecord) /\ Len(auditLog') <= MaxLogSize
         /\ \E k \in Nat, d \in {0, 1} :
              /\ Len(auditLog') = k + 1
              /\ auditLog'[k + 1] = [request |-> r, outcomeCode |-> code]
              /\ \A i \in 1..k : i + d \in DOMAIN auditLog /\ auditLog'[i] = auditLog[i + d]
              /\ Len(auditLog) = k + d
              /\ d = 1 => k + 1 = MaxLogSize
<1>1. PICK x \in AuditRecord : x = [request |-> r, outcomeCode |-> code]
  BY DEF AuditRecord
<1>2. auditLog \in Seq(AuditRecord) /\ Len(auditLog) <= MaxLogSize /\ MaxLogSize \in Nat \ {0}
  BY RouteAssumption DEF RouteTypeOK
<1>3. ASSUME Len(auditLog) < MaxLogSize
      PROVE  /\ auditLog' \in Seq(AuditRecord) /\ Len(auditLog') = Len(auditLog) + 1
             /\ auditLog'[Len(auditLog) + 1] = x
             /\ \A i \in 1..Len(auditLog) : auditLog'[i] = auditLog[i]
  <2>1. auditLog' = Append(auditLog, x)
    BY <1>1, <1>2, <1>3 DEF recordScanAudit
  <2> QED
    BY <1>2, <2>1
<1>4. ASSUME Len(auditLog) >= MaxLogSize
      PROVE  /\ auditLog' \in Seq(AuditRecord) /\ Len(auditLog') = Len(auditLog)
             /\ auditLog'[Len(auditLog)] = x
             /\ \A i \in 1..Len(auditLog) - 1 : auditLog'[i] = auditLog[i + 1]
  <2>1. auditLog' = Append(Tail(auditLog), x)
    BY <1>1, <1>2, <1>4 DEF recordScanAudit
  <2>2. auditLog # <<>>
    BY <1>2, <1>4
  <2>3. /\ Tail(auditLog) \in Seq(AuditRecord) /\ Len(Tail(auditLog)) = Len(auditLog) - 1
        /\ \A i \in 1..Len(auditLog) - 1 : Tail(auditLog)[i] = auditLog[i + 1]
    BY <1>2, <2>2
  <2>4. PICK rest \in Seq(AuditRecord) : rest = Tail(auditLog)
    BY <2>3
  <2>5. /\ auditLog' \in Seq(AuditRecord) /\ Len(auditLog') = Len(rest) + 1
        /\ auditLog'[Len(rest) + 1] = x
        /\ \A i \in 1..Len(rest) : auditLog'[i] = rest[i]
    BY <2>1, <2>4
  <2>6. Len(rest) = Len(auditLog) - 1 /\ Len(rest) + 1 = Len(auditLog)
    BY <1>2, <1>4, <2>3, <2>4
  <2> QED
    BY <2>3, <2>4, <2>5, <2>6
<1>5. PICK n \in Nat : n = Len(auditLog) /\ DOMAIN auditLog = 1..n
  BY <1>2
<1>6. ASSUME n < MaxLogSize
      PROVE  \E k \in Nat, d \in {0, 1} :
              /\ Len(auditLog') = k + 1 /\ auditLog'[k + 1] = x
              /\ \A i \in 1..k : i + d \in DOMAIN auditLog /\ auditLog'[i] = auditLog[i + d]
              /\ n = k + d /\ (d = 1 => k + 1 = MaxLogSize)
  <2>1. /\ Len(auditLog') = n + 1 /\ auditLog'[n + 1] = x
        /\ \A i \in 1..n : i + 0 \in DOMAIN auditLog /\ auditLog'[i] = auditLog[i + 0]
        /\ n = n + 0 /\ 0 # 1
    BY <1>3, <1>5, <1>6
  <2> QED
    BY <2>1, Zenon
<1>7. ASSUME ~(n < MaxLogSize)
      PROVE  \E k \in Nat, d \in {0, 1} :
              /\ Len(auditLog') = k + 1 /\ auditLog'[k + 1] = x
              /\ \A i \in 1..k : i + d \in DOMAIN auditLog /\ auditLog'[i] = auditLog[i + d]
              /\ n = k + d /\ (d = 1 => k + 1 = MaxLogSize)
  <2>1. PICK k \in Nat : k = n - 1
    BY <1>2, <1>5, <1>7
  <2>2. /\ Len(auditLog') = k + 1 /\ auditLog'[k + 1] = x
        /\ \A i \in 1..k : i + 1 \in DOMAIN auditLog /\ auditLog'[i] = auditLog[i + 1]
        /\ n = k + 1 /\ k + 1 = MaxLogSize
    <3>1. n = k + 1 /\ k + 1 = MaxLogSize
      BY <1>2, <1>5, <1>7, <2>1
    <3>2. /\ Len(auditLog') = n /\ auditLog'[n] = x
          /\ \A i \in 1..n - 1 : auditLog'[i] = auditLog[i + 1]
      BY <1>2, <1>4, <1>5, <1>7
    <3>3. ASSUME NEW i \in 1..k PROVE i + 1 \in DOMAIN auditLog
      BY <1>5, <2>1
    <3> QED
      BY <2>1, <3>1, <3>2, <3>3
  <2> QED
    BY <2>2, Zenon
<1>8. auditLog' \in Seq(AuditRecord) /\ Len(auditLog') <= MaxLogSize
  BY <1>2, <1>3, <1>4, <1>5
<1>9. \E k \in Nat, d \in {0, 1} :
        /\ Len(auditLog') = k + 1 /\ auditLog'[k + 1] = x
        /\ \A i \in 1..k : i + d \in DOMAIN auditLog /\ auditLog'[i] = auditLog[i + d]
        /\ n = k + d /\ (d = 1 => k + 1 = MaxLogSize)
  BY <1>6, <1>7, Zenon
<1> QED
  BY <1>1, <1>5, <1>8, <1>9, Zenon

\* Whoever is settled now is recorded now, and was not recorded before.
LEMMA SettledIsRecorded ==
  ASSUME RouteTypeOK, LogIsOfDone, NEW r \in Request, r \notin Done, NEW code \in Nat,
         NEW to \in {"removing", "answered"}, recordScanAudit(r, code), Moves(r, to, code)
  PROVE  LogIsOfDone'
<1>1. PICK k \in Nat, d \in {0, 1} :
        /\ Len(auditLog') = k + 1
        /\ auditLog'[k + 1] = [request |-> r, outcomeCode |-> code]
        /\ \A i \in 1..k : i + d \in DOMAIN auditLog /\ auditLog'[i] = auditLog[i + d]
        /\ Len(auditLog) = k + d
        /\ d = 1 => k + 1 = MaxLogSize
  BY Recorded
<1>2. DOMAIN auditLog' = 1..k + 1 /\ DOMAIN auditLog = 1..k + d
  <2>1. auditLog' \in Seq(AuditRecord) /\ auditLog \in Seq(AuditRecord)
    BY Recorded DEF RouteTypeOK
  <2> QED
    BY <1>1, <2>1
<1>3. /\ Done' = Done \cup {r} /\ handler'[r].status = code
      /\ \A s \in Done : handler'[s] = handler[s]
  BY DEF RouteTypeOK, HandlerState, Done, Moves
<1>4. \A i \in 1..k + 1 : i = k + 1 \/ i \in 1..k
  BY <1>1
<1>5. ASSUME NEW i \in DOMAIN auditLog'
      PROVE  /\ auditLog'[i].request \in Done'
             /\ auditLog'[i].outcomeCode = handler'[auditLog'[i].request].status
  <2>1. ASSUME i = k + 1
        PROVE  auditLog'[i].request = r /\ auditLog'[i].outcomeCode = code
    BY <1>1, <2>1
  <2>2. ASSUME i \in 1..k
        PROVE  /\ auditLog'[i].request \in Done
               /\ auditLog'[i].outcomeCode = handler[auditLog'[i].request].status
    <3>1. i + d \in DOMAIN auditLog /\ auditLog'[i] = auditLog[i + d]
      BY <1>1, <2>2
    <3> QED
      BY <3>1 DEF LogIsOfDone
  <2> QED
    BY <1>2, <1>3, <1>4, <2>1, <2>2
<1>6. ASSUME NEW i \in DOMAIN auditLog', NEW j \in DOMAIN auditLog',
             auditLog'[i].request = auditLog'[j].request
      PROVE  i = j
  <2>1. ASSUME NEW x \in 1..k
        PROVE  /\ x + d \in DOMAIN auditLog /\ auditLog'[x] = auditLog[x + d]
               /\ auditLog'[x].request # r
    <3>1. x + d \in DOMAIN auditLog /\ auditLog'[x] = auditLog[x + d]
      BY <1>1, <2>1
    <3> QED
      BY <3>1 DEF LogIsOfDone
  <2>2. auditLog'[k + 1].request = r
    BY <1>1
  <2>3. ASSUME i \in 1..k, j \in 1..k PROVE i = j
    <3>1. i + d = j + d
      BY <1>6, <2>1, <2>3, Zenon DEF LogIsOfDone
    <3> QED
      BY <2>3, <3>1
  <2> QED
    BY <1>2, <1>4, <1>6, <2>1, <2>2, <2>3
<1>7. ASSUME NEW s \in Done' PROVE Records(s)' # {} \/ Len(auditLog') = MaxLogSize
  <2>1. ASSUME s = r PROVE Records(s)' # {}
    <3>1. k + 1 \in DOMAIN auditLog'
      BY <1>1, <1>2
    <3>2. auditLog'[k + 1].request = r
      BY <1>1
    <3> QED
      BY <2>1, <3>1, <3>2 DEF Records
  <2>2. ASSUME s # r, d # 1 PROVE Records(s)' # {}
    <3>1. d = 0 /\ Len(auditLog) = k /\ k # MaxLogSize
      BY <1>1, <2>2, Recorded, RouteAssumption
    <3>2. PICK i \in DOMAIN auditLog : auditLog[i].request = s
      BY <1>3, <2>2, <3>1 DEF LogIsOfDone, Records
    <3>3. i \in 1..k /\ i \in 1..k + 1 /\ i + d = i
      BY <1>2, <3>1
    <3>4. auditLog'[i].request = s
      BY <1>1, <3>2, <3>3
    <3> QED
      BY <1>2, <3>3, <3>4 DEF Records
  <2> QED
    BY <1>1, <2>1, <2>2
<1> QED
  BY <1>5, <1>6, <1>7 DEF LogIsOfDone

LEMMA NobodySettled ==
  ASSUME LogIsOfDone, auditLog' = auditLog, Done' = Done,
         \A s \in Done : handler'[s].status = handler[s].status
  PROVE  LogIsOfDone'
<1>1. \A s : Records(s)' = Records(s)
  BY DEF Records
<1> QED
  BY <1>1 DEF LogIsOfDone

LEMMA StatusIsNat == ASSUME NEW how \in PromiseState \ {"open"} PROVE StatusOf[how] \in Nat
  BY DEF PromiseState, StatusOf

LEMMA ToAnother ==
  ASSUME RouteTypeOK, NEW r \in Request, NEW to, NEW status \in Nat, Moves(r, to, status),
         to \in {"unsent", "mkdtemp", "parse", "analysing", "removing", "answered"}
  PROVE  handler' \in [Request -> HandlerState]
  BY DEF RouteTypeOK, Moves, HandlerState

LEMMA RouteTypeStep ==
  ASSUME RouteTypeOK, [RouteNext]_routeVars
  PROVE  RouteTypeOK'
<1>1. /\ clock \in Nat /\ Window \in Nat /\ MaxClock \in Nat
      /\ \A st \in Refusals \cup {0, 429, 500} : st \in Nat
  BY RouteAssumption DEF RouteTypeOK, Refusals
<1>2. /\ \A r \in Request, x \in CliState : [cli EXCEPT ![r] = x] \in [Request -> CliState]
      /\ \A r \in Request, x \in PromiseState : Settled(r, x) \in [Request -> PromiseState]
  BY DEF RouteTypeOK, Settled
<1>3. ASSUME NEW r \in Request, NEW c \in Client, Arrive(r, c) PROVE RouteTypeOK'
  <2>1. rateLimitMap' \in [Client -> [count : Nat, resetTime : Nat]]
    <3>1. PICK n \in Nat, e \in Nat : rateLimitMap[c] = [count |-> n, resetTime |-> e]
      BY DEF RouteTypeOK
    <3>2. clock + Window \in Nat /\ n + 1 \in Nat
      BY <1>1
    <3>3. \/ rateLimitMap' = [rateLimitMap EXCEPT ![c] = [count |-> 1, resetTime |-> clock + Window]]
          \/ rateLimitMap' = [rateLimitMap EXCEPT ![c] = [rateLimitMap[c] EXCEPT !.count = @ + 1]]
          \/ rateLimitMap' = rateLimitMap
      BY <1>3 DEF Arrive, Counted, RouteTypeOK
    <3>4. [rateLimitMap[c] EXCEPT !.count = @ + 1] = [count |-> n + 1, resetTime |-> e]
      BY <3>1
    <3>5. /\ [count |-> n + 1, resetTime |-> e] \in [count : Nat, resetTime : Nat]
          /\ [count |-> 1, resetTime |-> clock + Window] \in [count : Nat, resetTime : Nat]
      BY <3>2
    <3> QED
      BY <3>3, <3>4, <3>5 DEF RouteTypeOK
  <2>2. ASSUME Allowed(c) PROVE RouteTypeOK'
    <3>1. PICK x : x = [request |-> r, client |-> c, time |-> clock]
      OBVIOUS
    <3>2. admitted' = admitted \cup {x} /\ x \in [request : Request, client : Client, time : 0..clock]
      BY <1>1, <1>3, <2>2, <3>1 DEF Arrive
    <3>3. IsFiniteSet(admitted')
      BY <3>2, FS_AddElement DEF RouteTypeOK
    <3>4. handler' \in [Request -> HandlerState]
      BY <1>1, <1>3, <2>2, ToAnother DEF Arrive
    <3> QED
      BY <1>3, <2>1, <2>2, <3>2, <3>3, <3>4 DEF Arrive, RouteTypeOK
  <2>3. ASSUME ~Allowed(c) PROVE RouteTypeOK'
    <3>1. auditLog' \in Seq(AuditRecord) /\ Len(auditLog') <= MaxLogSize
      <4>1. recordScanAudit(r, 429) /\ 429 \in Nat
        BY <1>3, <2>3 DEF Arrive
      <4> QED
        BY <4>1, Recorded
    <3>2. handler' \in [Request -> HandlerState]
      BY <1>1, <1>3, <2>3, ToAnother DEF Arrive
    <3> QED
      BY <1>3, <2>1, <2>3, <3>1, <3>2 DEF Arrive, RouteTypeOK
  <2> QED
    BY <2>2, <2>3
<1>4. ASSUME NEW r \in Request, NEW status \in Nat, Respond(r, status),
             UNCHANGED <<clock, rateLimitMap, cli, promise, admitted>>
      PROVE  RouteTypeOK'
  <2>1. auditLog' \in Seq(AuditRecord) /\ Len(auditLog') <= MaxLogSize
    BY <1>4, Recorded DEF Respond
  <2>2. handler' \in [Request -> HandlerState]
    BY <1>4, ToAnother DEF Respond
  <2> QED
    BY <1>4, <2>1, <2>2 DEF RouteTypeOK
<1>5. ASSUME NEW r \in Request, MakeTempDir(r) PROVE RouteTypeOK'
  <2>1. ASSUME Moves(r, "parse", 0), UNCHANGED auditLog PROVE RouteTypeOK'
    <3>1. handler' \in [Request -> HandlerState]
      BY <2>1, ToAnother
    <3> QED
      BY <1>5, <2>1, <3>1 DEF MakeTempDir, RouteTypeOK
  <2> QED
    BY <1>4, <1>5, <2>1 DEF MakeTempDir
<1>6. ASSUME NEW r \in Request, Refuse(r) PROVE RouteTypeOK'
  BY <1>1, <1>4, <1>6 DEF Refuse
<1>7. ASSUME NEW r \in Request, runAnalyzeCommand(r) PROVE RouteTypeOK'
  <2>1. handler' \in [Request -> HandlerState]
    BY <1>7, ToAnother DEF runAnalyzeCommand
  <2> QED
    BY <1>2, <1>7, <2>1 DEF runAnalyzeCommand, RouteTypeOK, CliState
<1>8. ASSUME NEW r \in Request, CliCloses(r) PROVE RouteTypeOK'
  BY <1>2, <1>8 DEF CliCloses, RouteTypeOK, CliState, PromiseState
<1>9. ASSUME NEW r \in Request, CliErrors(r) PROVE RouteTypeOK'
  BY <1>2, <1>9 DEF CliErrors, RouteTypeOK, CliState, PromiseState
<1>10. ASSUME NEW r \in Request, TimeLimit(r) PROVE RouteTypeOK'
  BY <1>2, <1>10 DEF TimeLimit, RouteTypeOK, CliState, PromiseState
<1>11. ASSUME NEW r \in Request, Resume(r) PROVE RouteTypeOK'
  <2>1. StatusOf[promise[r]] \in Nat
    BY <1>11, StatusIsNat DEF Resume, RouteTypeOK
  <2> QED
    BY <1>4, <1>11, <2>1 DEF Resume
<1>12. ASSUME NEW r \in Request, RemoveTempDir(r) PROVE RouteTypeOK'
  <2>1. handler[r].status \in Nat
    BY DEF RouteTypeOK, HandlerState
  <2>2. handler' \in [Request -> HandlerState]
    BY <1>12, <2>1, ToAnother DEF RemoveTempDir
  <2> QED
    BY <1>12, <2>2 DEF RemoveTempDir, RouteTypeOK
<1>13. ASSUME SweepExpired PROVE RouteTypeOK'
  BY <1>13 DEF SweepExpired, RouteTypeOK
<1>14. ASSUME ClockTicks PROVE RouteTypeOK'
  <2>1. clock' \in 0..MaxClock /\ \A t \in 0..clock : t \in 0..clock'
    BY <1>1, <1>14 DEF ClockTicks, RouteTypeOK
  <2>2. admitted' \subseteq [request : Request, client : Client, time : 0..clock']
    BY <1>14, <2>1 DEF ClockTicks, RouteTypeOK
  <2> QED
    BY <1>14, <2>1, <2>2 DEF ClockTicks, RouteTypeOK
<1>15. ASSUME UNCHANGED routeVars PROVE RouteTypeOK'
  BY <1>15 DEF routeVars, RouteTypeOK
<1> QED
  BY <1>3, <1>5, <1>6, <1>7, <1>8, <1>9, <1>10, <1>11, <1>12, <1>13, <1>14, <1>15 DEF RouteNext

LEMMA RouteLogStep ==
  ASSUME RouteTypeOK, LogIsOfDone, [RouteNext]_routeVars
  PROVE  LogIsOfDone'
<1>1. handler \in [Request -> HandlerState]
  BY DEF RouteTypeOK
<1>2. \A st \in Refusals \cup {429, 500} : st \in Nat
  BY DEF Refusals
<1>3. ASSUME NEW r \in Request, r \notin Done, NEW to \in {"mkdtemp", "parse", "analysing"},
             Moves(r, to, 0), auditLog' = auditLog
      PROVE  LogIsOfDone'
  <2>1. Done' = Done /\ \A s \in Done : handler'[s].status = handler[s].status
    BY <1>1, <1>3 DEF Done, Moves
  <2> QED
    BY <1>3, <2>1, NobodySettled
<1>4. ASSUME auditLog' = auditLog, handler' = handler PROVE LogIsOfDone'
  BY <1>4, NobodySettled DEF Done
<1>5. ASSUME NEW r \in Request, r \notin Done, NEW status \in Nat, Respond(r, status)
      PROVE  LogIsOfDone'
  BY <1>5, SettledIsRecorded DEF Respond
<1>6. ASSUME NEW r \in Request, NEW c \in Client, Arrive(r, c) PROVE LogIsOfDone'
  <2>1. r \notin Done
    BY <1>6 DEF Arrive, Arriving, Done
  <2>2. ASSUME ~Allowed(c) PROVE LogIsOfDone'
    BY <1>2, <1>6, <2>1, <2>2, SettledIsRecorded DEF Arrive
  <2> QED
    BY <1>3, <1>6, <2>1, <2>2 DEF Arrive
<1>7. ASSUME NEW r \in Request, MakeTempDir(r) PROVE LogIsOfDone'
  BY <1>3, <1>5, <1>7 DEF MakeTempDir, Done
<1>8. ASSUME NEW r \in Request, Refuse(r) PROVE LogIsOfDone'
  BY <1>2, <1>5, <1>8 DEF Refuse, Done
<1>9. ASSUME NEW r \in Request, runAnalyzeCommand(r) PROVE LogIsOfDone'
  BY <1>3, <1>9 DEF runAnalyzeCommand, Done
<1>10. ASSUME NEW r \in Request, Resume(r) PROVE LogIsOfDone'
  <2>1. StatusOf[promise[r]] \in Nat
    BY <1>10, StatusIsNat DEF Resume, RouteTypeOK
  <2> QED
    BY <1>5, <1>10, <2>1 DEF Resume, Done
<1>11. ASSUME NEW r \in Request, RemoveTempDir(r) PROVE LogIsOfDone'
  <2>1. Done' = Done /\ \A s \in Done : handler'[s].status = handler[s].status
    BY <1>1, <1>11 DEF RemoveTempDir, Done, Moves
  <2> QED
    BY <1>11, <2>1, NobodySettled DEF RemoveTempDir
<1>12. ASSUME NEW r \in Request, CliCloses(r) \/ CliErrors(r) \/ TimeLimit(r) PROVE LogIsOfDone'
  BY <1>4, <1>12 DEF CliCloses, CliErrors, TimeLimit
<1>13. ASSUME SweepExpired \/ ClockTicks \/ UNCHANGED routeVars PROVE LogIsOfDone'
  BY <1>4, <1>13 DEF SweepExpired, ClockTicks, routeVars
<1> QED
  BY <1>6, <1>7, <1>8, <1>9, <1>10, <1>11, <1>12, <1>13 DEF RouteNext

LEMMA RoutePromiseStep ==
  ASSUME RouteTypeOK, PromiseOfCli, [RouteNext]_routeVars
  PROVE  PromiseOfCli'
<1> DEFINE One(s) ==
      /\ handler[s].at \in {"unsent", "mkdtemp", "parse"} => cli[s] = "none" /\ promise[s] = "open"
      /\ handler[s].at = "analysing" => promise[s] # "open" \/ cli[s] = "running"
      /\ handler[s].at \in {"removing", "answered"} =>
           IF promise[s] = "open" THEN cli[s] = "none" ELSE handler[s].status = StatusOf[promise[s]]
      /\ promise[s] # "open" => cli[s] # "running"
<1>1. \A s \in Request : One(s)
  BY DEF PromiseOfCli, Done
<1>2. ASSUME \A s \in Request : One(s)' PROVE PromiseOfCli'
  BY <1>2 DEF PromiseOfCli, Done
<1>3. /\ handler \in [Request -> HandlerState] /\ cli \in [Request -> CliState]
      /\ promise \in [Request -> PromiseState]
  BY DEF RouteTypeOK
<1>4. ASSUME NEW s \in Request, handler'[s] = handler[s], cli'[s] = cli[s],
             promise'[s] = promise[s]
      PROVE  One(s)'
  BY <1>1, <1>4
<1>5. ASSUME NEW r \in Request, One(r)', \A s \in Request : s # r =>
               handler'[s] = handler[s] /\ cli'[s] = cli[s] /\ promise'[s] = promise[s]
      PROVE  \A s \in Request : One(s)'
  <2> HIDE DEF One
  <2> QED
    BY <1>4, <1>5
<1>6. ASSUME NEW r \in Request, NEW status, Respond(r, status), UNCHANGED <<cli, promise>>,
             promise[r] = "open" => cli[r] = "none",
             promise[r] # "open" => status = StatusOf[promise[r]]
      PROVE  PromiseOfCli'
  <2>1. /\ handler'[r] = [at |-> "removing", status |-> status]
        /\ \A s \in Request : s # r => handler'[s] = handler[s]
    BY <1>3, <1>6 DEF Respond, Moves
  <2>2. One(r)'
    BY <1>1, <1>6, <2>1
  <2> QED
    BY <1>2, <1>5, <1>6, <2>1, <2>2
<1>7. ASSUME NEW r \in Request, NEW c \in Client, Arrive(r, c) PROVE PromiseOfCli'
  <2>1. /\ handler'[r].at \in {"mkdtemp", "answered"} /\ handler[r].at = "unsent"
        /\ \A s \in Request : s # r => handler'[s] = handler[s]
        /\ UNCHANGED <<cli, promise>>
    BY <1>3, <1>7 DEF Arrive, Moves, Arriving
  <2>2. One(r)'
    BY <1>1, <2>1
  <2> QED
    BY <1>2, <1>5, <2>1, <2>2
<1>8. ASSUME NEW r \in Request, MakeTempDir(r) PROVE PromiseOfCli'
  <2>1. ASSUME Moves(r, "parse", 0) PROVE PromiseOfCli'
    <3>1. /\ handler'[r].at = "parse" /\ handler[r].at = "mkdtemp"
          /\ \A s \in Request : s # r => handler'[s] = handler[s]
          /\ UNCHANGED <<cli, promise>>
      BY <1>3, <1>8, <2>1 DEF MakeTempDir, Moves
    <3>2. One(r)'
      BY <1>1, <3>1
    <3> QED
      BY <1>2, <1>5, <3>1, <3>2
  <2>2. ASSUME Respond(r, 500) PROVE PromiseOfCli'
    <3>1. promise[r] = "open" /\ cli[r] = "none" /\ UNCHANGED <<cli, promise>>
      BY <1>1, <1>8 DEF MakeTempDir
    <3> QED
      BY <1>6, <2>2, <3>1
  <2> QED
    BY <1>8, <2>1, <2>2 DEF MakeTempDir
<1>9. ASSUME NEW r \in Request, Refuse(r) PROVE PromiseOfCli'
  <2>1. promise[r] = "open" /\ cli[r] = "none" /\ UNCHANGED <<cli, promise>>
    BY <1>1, <1>9 DEF Refuse
  <2>2. PICK status \in Refusals : Respond(r, status)
    BY <1>9 DEF Refuse
  <2> QED
    BY <1>6, <2>1, <2>2
<1>10. ASSUME NEW r \in Request, runAnalyzeCommand(r) PROVE PromiseOfCli'
  <2>1. /\ handler'[r].at = "analysing" /\ handler[r].at = "parse" /\ cli'[r] = "running"
        /\ promise' = promise
        /\ \A s \in Request : s # r => handler'[s] = handler[s] /\ cli'[s] = cli[s]
    BY <1>3, <1>10 DEF runAnalyzeCommand, Moves
  <2>2. One(r)'
    BY <1>1, <2>1
  <2> QED
    BY <1>2, <1>5, <2>1, <2>2
<1>11. ASSUME NEW r \in Request, NEW how \in PromiseState \ {"open"}, cli[r] # "none",
              NEW to \in {"ended", "failed", "signalled"},
              cli' = [cli EXCEPT ![r] = to], promise' = Settled(r, how), handler' = handler
       PROVE  PromiseOfCli'
  <2>1. /\ cli'[r] = to /\ promise'[r] # "open"
        /\ promise[r] # "open" => promise'[r] = promise[r]
        /\ \A s \in Request : s # r => cli'[s] = cli[s] /\ promise'[s] = promise[s]
    BY <1>3, <1>11 DEF Settled
  <2>2. One(r)'
    BY <1>1, <1>11, <2>1
  <2> QED
    BY <1>2, <1>5, <1>11, <2>1, <2>2
<1>12. ASSUME NEW r \in Request, CliCloses(r) PROVE PromiseOfCli'
  BY <1>11, <1>12 DEF CliCloses, PromiseState
<1>13. ASSUME NEW r \in Request, CliErrors(r) PROVE PromiseOfCli'
  BY <1>11, <1>13 DEF CliErrors, PromiseState
<1>14. ASSUME NEW r \in Request, TimeLimit(r) PROVE PromiseOfCli'
  <2>1. cli[r] # "none"
    BY <1>1, <1>14 DEF TimeLimit
  <2> QED
    BY <1>11, <1>14, <2>1 DEF TimeLimit, PromiseState
<1>15. ASSUME NEW r \in Request, Resume(r) PROVE PromiseOfCli'
  BY <1>6, <1>15 DEF Resume
<1>16. ASSUME NEW r \in Request, RemoveTempDir(r) PROVE PromiseOfCli'
  <2>1. /\ handler'[r] = [at |-> "answered", status |-> handler[r].status]
        /\ handler[r].at = "removing"
        /\ \A s \in Request : s # r => handler'[s] = handler[s]
        /\ UNCHANGED <<cli, promise>>
    BY <1>3, <1>16 DEF RemoveTempDir, Moves
  <2>2. One(r)'
    BY <1>1, <2>1
  <2> QED
    BY <1>2, <1>5, <2>1, <2>2
<1>17. ASSUME SweepExpired \/ ClockTicks \/ UNCHANGED routeVars PROVE PromiseOfCli'
  BY <1>2, <1>4, <1>17 DEF SweepExpired, ClockTicks, routeVars
<1> QED
  BY <1>7, <1>8, <1>9, <1>10, <1>12, <1>13, <1>14, <1>15, <1>16, <1>17 DEF RouteNext

LEMMA AtMost ==
  ASSUME NEW T, IsFiniteSet(T), NEW S, S \subseteq T, NEW n \in Nat, Cardinality(T) <= n
  PROVE  IsFiniteSet(S) /\ Cardinality(S) \in Nat /\ Cardinality(S) <= n
  BY FS_Subset, FS_CardinalityType

LEMMA OneMore ==
  ASSUME NEW T, IsFiniteSet(T), NEW x, NEW S, S \subseteq T \cup {x},
         NEW n \in Nat, Cardinality(T) <= n
  PROVE  Cardinality(S) \in Nat /\ Cardinality(S) <= n + 1
<1>1. /\ IsFiniteSet(T \cup {x}) /\ Cardinality(T) \in Nat
      /\ Cardinality(T \cup {x}) \in Nat /\ Cardinality(T \cup {x}) <= n + 1
  BY FS_AddElement, FS_CardinalityType
<1> QED
  BY <1>1, AtMost

LEMMA BothAtMost ==
  ASSUME NEW T, IsFiniteSet(T), NEW U, IsFiniteSet(U), NEW S, S \subseteq T \cup U,
         NEW n \in Nat, Cardinality(T) <= n, Cardinality(U) <= n
  PROVE  Cardinality(S) <= 2 * n
<1>1. /\ IsFiniteSet(T \cup U) /\ Cardinality(T) \in Nat /\ Cardinality(U) \in Nat
      /\ Cardinality(T \cap U) \in Nat /\ Cardinality(T \cup U) \in Nat
      /\ Cardinality(T \cup U) = Cardinality(T) + Cardinality(U) - Cardinality(T \cap U)
  <2>1. IsFiniteSet(T \cap U)
    BY FS_Subset
  <2> QED
    BY <2>1, FS_Union, FS_CardinalityType
<1>2. Cardinality(T \cup U) <= 2 * n /\ 2 * n \in Nat
  BY <1>1
<1> QED
  BY <1>1, <1>2, AtMost

\* A step that admits nobody and leaves the client's entry, at the same moment or later.
LEMMA WindowUntouched ==
  ASSUME RouteTypeOK, RouteTypeOK', NEW c \in Client, WindowHeld(c), clock' >= clock,
         rateLimitMap'[c] = rateLimitMap[c],
         {a \in admitted' : a.client = c} = {a \in admitted : a.client = c}
  PROVE  WindowHeld(c)'
<1>1. /\ \A t : Since(c, t)' = {a \in admitted' : a.client = c /\ a.time >= t}
      /\ \A t, u : Within(c, t, u)' = {a \in admitted' : a.client = c /\ a.time >= t /\ a.time < u}
  BY DEF Since, Within
<1>2. \A t : {a \in admitted' : a.client = c /\ a.time >= t} = Since(c, t)
  BY DEF Since
<1>3. \A t, u : {a \in admitted' : a.client = c /\ a.time >= t /\ a.time < u} = Within(c, t, u)
  BY DEF Within
<1>4. clock \in Nat /\ clock' \in Nat
  BY RouteAssumption DEF RouteTypeOK
<1>5. PICK n \in Nat, e \in Nat : rateLimitMap[c].count = n /\ rateLimitMap[c].resetTime = e
  BY DEF RouteTypeOK
<1>6. Since(c, clock') \subseteq Since(c, clock)
  <2>1. \A a \in admitted : a.time \in Nat
    BY RouteAssumption DEF RouteTypeOK
  <2> QED
    BY <1>4, <2>1 DEF Since
<1>7. ASSUME n = 0 PROVE WindowHeld(c)'
  <2>1. Since(c, clock)' = {}
    BY <1>1, <1>2, <1>5, <1>6, <1>7 DEF WindowHeld
  <2>2. ASSUME NEW t \in Moment, t + Window >= clock' PROVE Cardinality(Since(c, t)') <= RateLimit
    <3>1. t + Window >= clock
      BY <1>4, <2>2, RouteAssumption DEF Moment
    <3> QED
      BY <1>1, <1>2, <1>5, <1>7, <3>1 DEF WindowHeld
  <2> QED
    BY <1>5, <1>7, <2>1, <2>2 DEF WindowHeld
<1>8. ASSUME n # 0 PROVE WindowHeld(c)'
  <2>1. /\ n <= RateLimit /\ e - Window \in 0..clock
        /\ Since(c, e + 1) = {} /\ Cardinality(Since(c, e - Window)) <= n
        /\ \A t \in Moment : t + Window >= e - Window
             => Cardinality(Within(c, t, e - Window)) <= RateLimit
    BY <1>5, <1>8 DEF WindowHeld
  <2>2. e - Window \in 0..clock'
    BY <1>4, <2>1, RouteAssumption
  <2>3. rateLimitMap'[c].count = n /\ rateLimitMap'[c].resetTime = e
    BY <1>5
  <2>4. /\ Since(c, e + 1)' = {} /\ Cardinality(Since(c, e - Window)') <= n
        /\ \A t \in Moment : t + Window >= e - Window
             => Cardinality(Within(c, t, e - Window)') <= RateLimit
    <3>1. \A t : Since(c, t)' = Since(c, t)
      BY <1>1, <1>2
    <3>2. ASSUME NEW t, NEW u PROVE Within(c, t, u)' = Within(c, t, u)
      <4>1. Within(c, t, u)' = {a \in admitted' : a.client = c /\ a.time >= t /\ a.time < u}
        BY <1>1
      <4>2. Within(c, t, u) = {a \in admitted' : a.client = c /\ a.time >= t /\ a.time < u}
        BY <1>3
      <4> QED
        BY <4>1, <4>2
    <3> QED
      BY <2>1, <3>1, <3>2
  <2> QED
    BY <1>8, <2>1, <2>2, <2>3, <2>4 DEF WindowHeld
<1> QED
  BY <1>5, <1>7, <1>8

\* An entry that has expired tells of a window that is over.
LEMMA NobodySinceExpiry ==
  ASSUME RouteTypeOK, NEW c \in Client, WindowHeld(c), Expired(rateLimitMap[c])
  PROVE  /\ Since(c, clock) = {}
         /\ \A t \in Moment : t + Window >= clock => Cardinality(Since(c, t)) <= RateLimit
<1>1. PICK n \in Nat, e \in Nat : rateLimitMap[c].count = n /\ rateLimitMap[c].resetTime = e
  BY DEF RouteTypeOK
<1>2. clock \in Nat /\ Window \in Nat /\ RateLimit \in Nat
  BY RouteAssumption DEF RouteTypeOK
<1> SUFFICES ASSUME n # 0, clock > e
             PROVE  /\ Since(c, clock) = {}
                    /\ \A t \in Moment : t + Window >= clock => Cardinality(Since(c, t)) <= RateLimit
  BY <1>1 DEF WindowHeld, Expired
<1>3. /\ n <= RateLimit /\ e - Window \in 0..clock
      /\ Since(c, e + 1) = {} /\ Cardinality(Since(c, e - Window)) <= n
  BY <1>1 DEF WindowHeld
<1>4. IsFiniteSet(admitted) /\ \A a \in admitted : a.time \in Nat
  BY <1>2 DEF RouteTypeOK
<1>5. ASSUME NEW t \in Nat, NEW u \in Nat, u <= t PROVE Since(c, t) \subseteq Since(c, u)
  BY <1>4, <1>5 DEF Since
<1>6. Since(c, clock) = {}
  <2>1. e + 1 \in Nat /\ e + 1 <= clock
    BY <1>2
  <2> QED
    BY <1>2, <1>3, <1>5, <2>1
<1>7. ASSUME NEW t \in Moment, t + Window >= clock PROVE Cardinality(Since(c, t)) <= RateLimit
  <2>1. t \in Nat /\ e - Window \in Nat /\ e - Window <= t
    BY <1>2, <1>3, <1>7, RouteAssumption DEF Moment
  <2>2. Since(c, t) \subseteq Since(c, e - Window)
    BY <1>5, <2>1
  <2>3. IsFiniteSet(Since(c, e - Window))
    BY <1>4, FS_Subset DEF Since
  <2>4. Cardinality(Since(c, t)) <= n /\ Cardinality(Since(c, t)) \in Nat
    BY <1>3, <2>2, <2>3, AtMost
  <2> QED
    BY <1>2, <1>3, <2>4
<1> QED
  BY <1>6, <1>7

LEMMA WindowsAreFinite ==
  ASSUME RouteTypeOK, NEW c
  PROVE  /\ clock \in Nat /\ \A a \in admitted : a.time \in Nat /\ a.time <= clock
         /\ \A t : IsFiniteSet(Since(c, t))
         /\ \A t, u : IsFiniteSet(Within(c, t, u))
<1>1. clock \in Nat /\ IsFiniteSet(admitted) /\ \A a \in admitted : a.time \in Nat /\ a.time <= clock
  BY RouteAssumption DEF RouteTypeOK
<1>2. ASSUME NEW t PROVE IsFiniteSet(Since(c, t))
  BY <1>1, FS_Subset DEF Since
<1>3. ASSUME NEW t, NEW u PROVE IsFiniteSet(Within(c, t, u))
  BY <1>1, FS_Subset DEF Within
<1> QED
  BY <1>1, <1>2, <1>3

\* Whoever is admitted is admitted now: the windows before are as they were.
LEMMA AdmittedNow ==
  ASSUME RouteTypeOK, NEW c, NEW x, x.client = c, x.time = clock,
         admitted' = admitted \cup {x}
  PROVE  /\ \A t, u : u \in Nat /\ u <= clock => Within(c, t, u)' = Within(c, t, u)
         /\ \A t : Since(c, t)' \subseteq Since(c, t) \cup {x}
         /\ \A t : t \in Nat /\ t > clock => Since(c, t)' = {}
         /\ \A d : d # c => {a \in admitted' : a.client = d} = {a \in admitted : a.client = d}
<1>1. clock \in Nat /\ \A a \in admitted : a.time \in Nat /\ a.time <= clock
  BY WindowsAreFinite
<1>2. ASSUME NEW t, NEW u \in Nat, u <= clock PROVE Within(c, t, u)' = Within(c, t, u)
  <2>1. ~(x.time < u)
    BY <1>1, <1>2
  <2> QED
    BY <2>1 DEF Within
<1>3. ASSUME NEW t PROVE Since(c, t)' \subseteq Since(c, t) \cup {x}
  BY DEF Since
<1>4. ASSUME NEW t \in Nat, t > clock PROVE Since(c, t)' = {}
  <2>1. \A a \in admitted' : ~(a.time >= t)
    BY <1>1, <1>4
  <2> QED
    BY <2>1, Zenon DEF Since
<1>5. ASSUME NEW d, d # c
      PROVE  {a \in admitted' : a.client = d} = {a \in admitted : a.client = d}
  BY <1>5
<1> QED
  BY <1>2, <1>3, <1>4, <1>5, Zenon

\* The first request of a window: the one before had no more than the limit.
LEMMA WindowOpens ==
  ASSUME RouteTypeOK, NEW c \in Client, WindowHeld(c), Expired(rateLimitMap[c]),
         NEW x, x.client = c, x.time = clock, admitted' = admitted \cup {x}, clock' = clock,
         rateLimitMap'[c] = [count |-> 1, resetTime |-> clock + Window]
  PROVE  WindowHeld(c)'
<1>1. /\ clock \in Nat /\ Window \in Nat /\ RateLimit \in Nat /\ RateLimit >= 1
      /\ \A t : IsFiniteSet(Since(c, t))
  BY RouteAssumption, WindowsAreFinite
<1>2. /\ Since(c, clock) = {}
      /\ \A t \in Moment : t + Window >= clock => Cardinality(Since(c, t)) <= RateLimit
  BY NobodySinceExpiry
<1>3. /\ \A t, u : u \in Nat /\ u <= clock => Within(c, t, u)' = Within(c, t, u)
      /\ \A t : Since(c, t)' \subseteq Since(c, t) \cup {x}
      /\ \A t : t \in Nat /\ t > clock => Since(c, t)' = {}
  BY AdmittedNow
<1>4. /\ rateLimitMap'[c].count = 1 /\ rateLimitMap'[c].resetTime = clock + Window
      /\ (clock + Window) - Window = clock /\ clock \in 0..clock
      /\ clock + Window + 1 \in Nat /\ clock + Window + 1 > clock
  BY <1>1
<1>5. Since(c, clock + Window + 1)' = {}
  BY <1>3, <1>4
<1>6. Cardinality(Since(c, clock)') <= 1
  <2>1. PICK S : S = Since(c, clock)'
    OBVIOUS
  <2>2. S \subseteq {x}
    BY <1>2, <1>3, <2>1
  <2>3. IsFiniteSet({x}) /\ Cardinality({x}) <= 1
    <3>1. IsFiniteSet({x}) /\ Cardinality({x}) = 1
      BY FS_Singleton, Zenon
    <3> QED
      BY <3>1
  <2> QED
    BY <2>1, <2>2, <2>3, AtMost
<1>7. ASSUME NEW t \in Moment, t + Window >= clock
      PROVE  Cardinality(Within(c, t, clock)') <= RateLimit
  <2>1. Within(c, t, clock)' = Within(c, t, clock)
    BY <1>1, <1>3
  <2>2. Within(c, t, clock) \subseteq Since(c, t)
    BY DEF Since, Within
  <2> QED
    BY <1>1, <1>2, <1>7, <2>1, <2>2, AtMost
<1> QED
  BY <1>1, <1>4, <1>5, <1>6, <1>7 DEF WindowHeld

\* One more in an open window.
LEMMA WindowFills ==
  ASSUME RouteTypeOK, NEW c \in Client, WindowHeld(c),
         ~Expired(rateLimitMap[c]), Allowed(c),
         NEW x, x.client = c, x.time = clock, admitted' = admitted \cup {x}, clock' = clock,
         rateLimitMap'[c] = [rateLimitMap[c] EXCEPT !.count = @ + 1]
  PROVE  WindowHeld(c)'
<1>1. /\ clock \in Nat /\ Window \in Nat /\ RateLimit \in Nat
      /\ \A t : IsFiniteSet(Since(c, t))
  BY RouteAssumption, WindowsAreFinite
<1>2. PICK n \in Nat, e \in Nat : rateLimitMap[c] = [count |-> n, resetTime |-> e]
  BY DEF RouteTypeOK
<1>3. n # 0 /\ clock <= e /\ n < RateLimit
  BY <1>1, <1>2 DEF Expired, Allowed
<1>4. PICK s \in Nat : s = e - Window
  BY <1>2, <1>3, RouteAssumption DEF WindowHeld
<1>5. /\ s <= clock /\ Cardinality(Since(c, s)) <= n
      /\ \A t \in Moment : t + Window >= s => Cardinality(Within(c, t, s)) <= RateLimit
  BY <1>1, <1>2, <1>3, <1>4 DEF WindowHeld
<1>6. /\ \A t, u : u \in Nat /\ u <= clock => Within(c, t, u)' = Within(c, t, u)
      /\ \A t : Since(c, t)' \subseteq Since(c, t) \cup {x}
      /\ \A t : t \in Nat /\ t > clock => Since(c, t)' = {}
  BY AdmittedNow
<1>7. /\ rateLimitMap'[c].count = n + 1 /\ rateLimitMap'[c].resetTime = e
      /\ n + 1 # 0 /\ n + 1 <= RateLimit /\ s \in 0..clock
      /\ e + 1 \in Nat /\ e + 1 > clock
  BY <1>1, <1>2, <1>3, <1>5
<1>8. Since(c, e + 1)' = {}
  BY <1>6, <1>7
<1>9. Cardinality(Since(c, s)') <= n + 1
  <2>1. PICK S : S = Since(c, s)'
    OBVIOUS
  <2>2. S \subseteq Since(c, s) \cup {x}
    BY <1>6, <2>1
  <2> QED
    BY <1>1, <1>5, <2>1, <2>2, OneMore
<1>10. ASSUME NEW t \in Moment, t + Window >= s PROVE Cardinality(Within(c, t, s)') <= RateLimit
  BY <1>5, <1>6, <1>10
<1> QED
  BY <1>1, <1>4, <1>7, <1>8, <1>9, <1>10 DEF WindowHeld

\* What a client has been let through in a window's time, whenever it starts.
Passed(c, t) == {a \in admitted : a.client = c /\ a.time \in t..t + Window}

LEMMA RateHeldWhenOpened ==
  ASSUME RouteTypeOK, RateHeld, NEW c \in Client, WindowHeld(c), Expired(rateLimitMap[c]),
         NEW x, x.client = c, x.time = clock, admitted' = admitted \cup {x},
         NEW t \in Moment
  PROVE  Cardinality(Passed(c, t)') <= 2 * RateLimit
<1>1. /\ clock \in Nat /\ Window \in Nat /\ RateLimit \in Nat /\ RateLimit >= 1 /\ t \in Nat
      /\ \A u : IsFiniteSet(Since(c, u)) /\ \A a \in admitted : a.time \in Nat
  BY RouteAssumption, WindowsAreFinite DEF Moment
<1>2. PICK S : S = Passed(c, t)'
  OBVIOUS
<1>3. ASSUME clock \in t..t + Window PROVE Cardinality(S) <= 2 * RateLimit
  <2>1. S \subseteq Since(c, t) \cup {x}
    BY <1>1, <1>2 DEF Passed, Since
  <2>2. Cardinality(Since(c, t)) <= RateLimit
    BY <1>1, <1>3, NobodySinceExpiry
  <2>3. Cardinality(S) \in Nat /\ Cardinality(S) <= RateLimit + 1
    BY <1>1, <2>1, <2>2, OneMore
  <2> QED
    BY <1>1, <2>3
<1>4. ASSUME clock \notin t..t + Window PROVE Cardinality(S) <= 2 * RateLimit
  <2>1. S = Passed(c, t)
    BY <1>2, <1>4 DEF Passed
  <2> QED
    BY <2>1 DEF RateHeld, Passed, Moment
<1> QED
  BY <1>2, <1>3, <1>4

LEMMA RateHeldWhenFilled ==
  ASSUME RouteTypeOK, RateHeld, NEW c \in Client, WindowHeld(c),
         ~Expired(rateLimitMap[c]), Allowed(c),
         NEW x, x.client = c, x.time = clock, admitted' = admitted \cup {x},
         NEW t \in Moment
  PROVE  Cardinality(Passed(c, t)') <= 2 * RateLimit
<1>1. /\ clock \in Nat /\ Window \in Nat /\ RateLimit \in Nat /\ RateLimit >= 1 /\ t \in Nat
      /\ \A u : IsFiniteSet(Since(c, u)) /\ \A a \in admitted : a.time \in Nat /\ a.time <= clock
      /\ \A u, v : IsFiniteSet(Within(c, u, v))
  BY RouteAssumption, WindowsAreFinite DEF Moment
<1>2. PICK S : S = Passed(c, t)'
  OBVIOUS
<1>3. PICK n \in Nat, e \in Nat : rateLimitMap[c] = [count |-> n, resetTime |-> e]
  BY DEF RouteTypeOK
<1>4. n # 0 /\ clock <= e /\ n + 1 <= RateLimit
  BY <1>1, <1>3 DEF Expired, Allowed
<1>5. PICK s \in Nat : s = e - Window
  BY <1>3, <1>4, RouteAssumption DEF WindowHeld
<1>6. /\ s <= clock /\ Cardinality(Since(c, s)) <= n
      /\ \A u \in Moment : u + Window >= s => Cardinality(Within(c, u, s)) <= RateLimit
  BY <1>1, <1>3, <1>4, <1>5 DEF WindowHeld
<1>7. ASSUME clock \in t..t + Window PROVE Cardinality(S) <= 2 * RateLimit
  <2>1. t + Window >= s
    BY <1>1, <1>6, <1>7
  <2>2. PICK T : T = Since(c, s) \cup {x}
    OBVIOUS
  <2>3. IsFiniteSet(T) /\ Cardinality(T) \in Nat /\ Cardinality(T) <= RateLimit
    <3>1. IsFiniteSet(T)
      BY <1>1, <2>2, FS_AddElement
    <3>2. Cardinality(T) \in Nat /\ Cardinality(T) <= n + 1
      BY <1>1, <1>6, <2>2, OneMore
    <3> QED
      BY <1>1, <1>4, <3>1, <3>2
  <2>4. S \subseteq Within(c, t, s) \cup T
    BY <1>1, <1>2, <2>2 DEF Passed, Since, Within
  <2> QED
    BY <1>1, <1>6, <2>1, <2>3, <2>4, BothAtMost
<1>8. ASSUME clock \notin t..t + Window PROVE Cardinality(S) <= 2 * RateLimit
  <2>1. S = Passed(c, t)
    BY <1>2, <1>8 DEF Passed
  <2> QED
    BY <2>1 DEF RateHeld, Passed, Moment
<1> QED
  BY <1>2, <1>7, <1>8

LEMMA RateOnArrive ==
  ASSUME RouteTypeOK, RouteTypeOK', RateIInv, NEW r \in Request, NEW c \in Client, Arrive(r, c)
  PROVE  RateIInv'
<1>1. clock' = clock /\ clock \in Nat
  BY RouteAssumption DEF Arrive, RouteTypeOK
<1>2. ASSUME NEW d \in Client, rateLimitMap'[d] = rateLimitMap[d],
             {a \in admitted' : a.client = d} = {a \in admitted : a.client = d}
      PROVE  WindowHeld(d)'
  BY <1>1, <1>2, WindowUntouched DEF RateIInv
<1>3. ASSUME NEW d, {a \in admitted' : a.client = d} = {a \in admitted : a.client = d}, NEW t
      PROVE  Passed(d, t)' = Passed(d, t)
  BY <1>3 DEF Passed
<1>4. \A d \in Client, t \in Moment : Cardinality(Passed(d, t)) <= 2 * RateLimit
  BY DEF RateIInv, RateHeld, Passed, Moment
<1>5. ASSUME ~Allowed(c) PROVE RateIInv'
  <2>1. rateLimitMap' = rateLimitMap /\ admitted' = admitted
    BY <1>5 DEF Arrive, Counted, Allowed
  <2>2. \A d \in Client : WindowHeld(d)'
    BY <1>2, <2>1
  <2>3. RateHeld'
    BY <1>4, <2>1 DEF RateHeld, Passed, Moment
  <2> QED
    BY <2>2, <2>3 DEF RateIInv
<1>6. ASSUME Allowed(c) PROVE RateIInv'
  <2>1. PICK x : x = [request |-> r, client |-> c, time |-> clock]
    OBVIOUS
  <2>2. x.client = c /\ x.time = clock /\ admitted' = admitted \cup {x}
    BY <1>6, <2>1 DEF Arrive
  <2>3. \A d \in Client : d # c =>
          /\ rateLimitMap'[d] = rateLimitMap[d]
          /\ {a \in admitted' : a.client = d} = {a \in admitted : a.client = d}
    <3>1. \A d \in Client : d # c => rateLimitMap'[d] = rateLimitMap[d]
      BY DEF Arrive, Counted, RouteTypeOK
    <3>2. \A d : d # c => {a \in admitted' : a.client = d} = {a \in admitted : a.client = d}
      BY <2>2, AdmittedNow
    <3> QED
      BY <3>1, <3>2
  <2>4. WindowHeld(c)' /\ \A t \in Moment : Cardinality(Passed(c, t)') <= 2 * RateLimit
    <3>1. WindowHeld(c) /\ RateHeld
      BY DEF RateIInv
    <3>2. ASSUME Expired(rateLimitMap[c])
          PROVE  WindowHeld(c)' /\ \A t \in Moment : Cardinality(Passed(c, t)') <= 2 * RateLimit
      <4>1. rateLimitMap'[c] = [count |-> 1, resetTime |-> clock + Window]
        BY <3>2 DEF Arrive, Counted, RouteTypeOK
      <4>2. WindowHeld(c)'
        BY <1>1, <2>2, <3>1, <3>2, <4>1, WindowOpens
      <4>3. \A t \in Moment : Cardinality(Passed(c, t)') <= 2 * RateLimit
        BY <2>2, <3>1, <3>2, RateHeldWhenOpened
      <4> QED
        BY <4>2, <4>3
    <3>3. ASSUME ~Expired(rateLimitMap[c])
          PROVE  WindowHeld(c)' /\ \A t \in Moment : Cardinality(Passed(c, t)') <= 2 * RateLimit
      <4>1. rateLimitMap'[c] = [rateLimitMap[c] EXCEPT !.count = @ + 1]
        BY <1>6, <3>3 DEF Arrive, Counted, RouteTypeOK
      <4>2. WindowHeld(c)'
        BY <1>1, <1>6, <2>2, <3>1, <3>3, <4>1, WindowFills
      <4>3. \A t \in Moment : Cardinality(Passed(c, t)') <= 2 * RateLimit
        BY <1>6, <2>2, <3>1, <3>3, RateHeldWhenFilled
      <4> QED
        BY <4>2, <4>3
    <3> QED
      BY <3>2, <3>3
  <2>5. \A d \in Client : WindowHeld(d)'
    BY <1>2, <2>3, <2>4
  <2>6. \A d \in Client, t \in Moment : Cardinality(Passed(d, t)') <= 2 * RateLimit
    BY <1>3, <1>4, <2>3, <2>4
  <2>7. RateHeld'
    BY <2>6 DEF RateHeld, Passed, Moment
  <2> QED
    BY <2>5, <2>7 DEF RateIInv
<1> QED
  BY <1>5, <1>6

LEMMA RateOnSweep ==
  ASSUME RouteTypeOK, RouteTypeOK', RateIInv, SweepExpired
  PROVE  RateIInv'
<1>1. clock' = clock /\ admitted' = admitted /\ clock \in Nat
  BY RouteAssumption DEF SweepExpired, RouteTypeOK
<1>2. ASSUME NEW c \in Client PROVE WindowHeld(c)'
  <2>1. WindowHeld(c)
    BY DEF RateIInv
  <2>2. ASSUME ~Expired(rateLimitMap[c]) PROVE WindowHeld(c)'
    <3>1. rateLimitMap'[c] = rateLimitMap[c]
      BY <2>2 DEF SweepExpired
    <3> QED
      BY <1>1, <2>1, <3>1, WindowUntouched
  <2>3. ASSUME Expired(rateLimitMap[c]) PROVE WindowHeld(c)'
    <3>1. rateLimitMap'[c].count = 0
      BY <2>3 DEF SweepExpired
    <3>2. /\ Since(c, clock) = {}
          /\ \A t \in Moment : t + Window >= clock => Cardinality(Since(c, t)) <= RateLimit
      BY <2>1, <2>3, NobodySinceExpiry
    <3>3. \A t : Since(c, t)' = Since(c, t)
      BY <1>1 DEF Since
    <3> QED
      BY <1>1, <3>1, <3>2, <3>3 DEF WindowHeld
  <2> QED
    BY <2>2, <2>3
<1>3. RateHeld'
  BY <1>1 DEF RateIInv, RateHeld
<1> QED
  BY <1>2, <1>3 DEF RateIInv

LEMMA RateElsewhere ==
  ASSUME RouteTypeOK, RouteTypeOK', RateIInv, UNCHANGED <<rateLimitMap, admitted>>, clock' >= clock
  PROVE  RateIInv'
<1>1. \A c \in Client : WindowHeld(c)'
  BY WindowUntouched DEF RateIInv
<1>2. RateHeld'
  BY DEF RateIInv, RateHeld
<1> QED
  BY <1>1, <1>2 DEF RateIInv

LEMMA RouteRateStep ==
  ASSUME RouteTypeOK, RouteTypeOK', RateIInv, [RouteNext]_routeVars
  PROVE  RateIInv'
<1>1. clock \in Nat
  BY RouteAssumption DEF RouteTypeOK
<1>2. ASSUME UNCHANGED <<clock, rateLimitMap, admitted>> PROVE RateIInv'
  BY <1>1, <1>2, RateElsewhere
<1>3. ASSUME NEW r \in Request, NEW c \in Client, Arrive(r, c) PROVE RateIInv'
  BY <1>3, RateOnArrive
<1>4. ASSUME NEW r \in Request,
             MakeTempDir(r) \/ Refuse(r) \/ runAnalyzeCommand(r) \/ Resume(r) \/ RemoveTempDir(r)
      PROVE  RateIInv'
  BY <1>2, <1>4 DEF MakeTempDir, Refuse, runAnalyzeCommand, Resume, RemoveTempDir
<1>5. ASSUME NEW r \in Request, CliCloses(r) \/ CliErrors(r) \/ TimeLimit(r) PROVE RateIInv'
  BY <1>2, <1>5 DEF CliCloses, CliErrors, TimeLimit
<1>6. ASSUME SweepExpired PROVE RateIInv'
  BY <1>6, RateOnSweep
<1>7. ASSUME ClockTicks PROVE RateIInv'
  <2>1. clock' >= clock /\ UNCHANGED <<rateLimitMap, admitted>>
    BY <1>1, <1>7 DEF ClockTicks
  <2> QED
    BY <2>1, RateElsewhere
<1>8. ASSUME UNCHANGED routeVars PROVE RateIInv'
  BY <1>2, <1>8 DEF routeVars
<1> QED
  BY <1>3, <1>4, <1>5, <1>6, <1>7, <1>8 DEF RouteNext

LEMMA RouteAccounts == RouteIInv => ScansAccountedFor
<1> SUFFICES ASSUME RouteIInv PROVE ScansAccountedFor
  OBVIOUS
<1>1. ASSUME NEW r \in Request, NEW i \in Records(r)
      PROVE  auditLog[i].outcomeCode = handler[r].status /\ Records(r) = {i}
  BY <1>1 DEF RouteIInv, LogIsOfDone, Records
<1>2. \A r \in Done : Records(r) # {} \/ Len(auditLog) = MaxLogSize
  BY DEF RouteIInv, LogIsOfDone
<1>3. ASSUME NEW r \in Done
      PROVE  cli[r] # "running" /\ (promise[r] # "open" => handler[r].status = StatusOf[promise[r]])
  BY DEF RouteIInv, PromiseOfCli, Done
<1>4. RecordedAsAnswered
  BY <1>1, <1>2, <1>3, Zenon DEF RecordedAsAnswered
<1>5. FirstEventAnswers
  BY <1>3 DEF FirstEventAnswers
<1> QED
  BY <1>4, <1>5 DEF ScansAccountedFor, RouteIInv, RateIInv

(* Every settled request of the analyze route left one audit record of the     *)
(* very status it answered, unless the ring buffer has moved on, that status   *)
(* is of the first of the CLI's events, no CLI runs on unsignalled, and no     *)
(* client passes more than twice the limit in a window's time: for any number  *)
(* of requests and clients and any limit, window and buffer (POST,             *)
(* checkRateLimit, runAnalyzeCommand, recordScanAudit).                        *)
THEOREM RouteAccountsForScans == RouteSpec => []ScansAccountedFor
<1>1. RouteIInv /\ [RouteNext]_routeVars => RouteIInv'
  <2> SUFFICES ASSUME RouteIInv, [RouteNext]_routeVars PROVE RouteIInv'
    OBVIOUS
  <2>1. RouteTypeOK'
    BY RouteTypeStep DEF RouteIInv
  <2> QED
    BY <2>1, RouteLogStep, RoutePromiseStep, RouteRateStep DEF RouteIInv
<1> QED
  BY <1>1, RouteInitHolds, RouteAccounts, PTL DEF RouteSpec

(* ---- diff command ---- *)
\* What a run told is what its baseline does not fingerprint.
DiffIInv ==
  /\ source \subseteq Finding /\ report \subseteq Finding /\ baseline.findings \subseteq Finding
  /\ told = CollectNewFindings(report, ExtractFingerprints(baseline.findings))
  /\ exit = 1 /\ ~failed => Considered(told) # {}
  /\ report # {} => baseline.exists /\ baseline.parses

LEMMA FindingForm ==
  ASSUME NEW f \in Finding
  PROVE  /\ f.kind \in Kinds /\ f.file \in File /\ f.fn \in Function /\ f.fn # "line n"
         /\ f.line \in 1..MaxLine
  BY DiffAssumption DEF Finding

\* Equal fingerprints are of one kind and one function, and except for the
\* kinds keyed by name of one file.
LEMMA SameFingerprint ==
  ASSUME NEW f \in Finding, NEW g \in Finding, Fingerprint(f) = Fingerprint(g)
  PROVE  LikeOf(f, g) /\ (f.file = g.file \/ f.kind \in Named)
<1>1. \A h \in Finding : Fingerprint(h)[1] = h.kind /\ Fingerprint(h)[3] = h.fn
  BY DEF Fingerprint, FingerprintPlaced, FingerprintSnippet, FingerprintNamed, FingerprintCustom
<1>2. f.kind = g.kind /\ f.fn = g.fn
  BY <1>1
<1>3. \A h \in Finding : h.kind \notin Named => Fingerprint(h)[2][1] = h.file
  BY FindingForm
     DEF Fingerprint, FingerprintPlaced, FingerprintSnippet, FingerprintCustom, Location,
         StripLineNumber, Named
<1>4. f.kind \notin Named => f.file = g.file
  BY <1>2, <1>3
<1> QED
  BY <1>2, <1>4 DEF LikeOf

\* Like findings of one file have one fingerprint, except an event's or a
\* custom match's on another line.
LEMMA LikeFingerprint ==
  ASSUME NEW f \in Finding, NEW g \in Finding, LikeOf(f, g), f.file = g.file,
         f.kind \notin {"event", "custom"} \/ f.line = g.line
  PROVE  Fingerprint(f) = Fingerprint(g)
<1>1. f.fn # "line n" /\ g.fn # "line n"
  BY FindingForm
<1>2. ASSUME f.line = g.line PROVE Fingerprint(f) = Fingerprint(g)
  BY <1>2 DEF Fingerprint, FingerprintPlaced, FingerprintSnippet, FingerprintNamed, LikeOf,
              FingerprintCustom, Location, StripLineNumber
<1>3. ASSUME f.kind \in Placed \ {"event"} PROVE Fingerprint(f) = Fingerprint(g)
  BY <1>1, <1>3 DEF Fingerprint, FingerprintPlaced, LikeOf, Location, StripLineNumber, Placed
<1>4. ASSUME f.kind \in Snippets \cup Named PROVE Fingerprint(f) = Fingerprint(g)
  BY <1>4 DEF Fingerprint, FingerprintSnippet, FingerprintNamed, LikeOf, Placed, Snippets, Named
<1> QED
  <2>1. f.kind \in Placed \cup Snippets \cup Named \cup {"custom"}
    BY DiffAssumption, FindingForm
  <2> QED
    BY <1>2, <1>3, <1>4, <2>1

LEMMA DiffStep == DiffIInv /\ [DiffNext]_diffVars => DiffIInv'
<1> SUFFICES ASSUME DiffIInv, [DiffNext]_diffVars PROVE DiffIInv'
  OBVIOUS
<1>1. ASSUME source' \subseteq Finding, Forget, UNCHANGED baseline PROVE DiffIInv'
  <2>1. told' = CollectNewFindings(report', ExtractFingerprints(baseline'.findings))
    BY <1>1 DEF Forget, CollectNewFindings
  <2> QED
    BY <1>1, <2>1 DEF Forget, DiffIInv
<1>2. ASSUME NEW f \in Finding, WriteCode(f) \/ RepairCode(f) PROVE DiffIInv'
  BY <1>1, <1>2 DEF WriteCode, RepairCode, DiffIInv
<1>3. ASSUME NEW file \in File, InsertLine(file) PROVE DiffIInv'
  <2>1. ASSUME NEW f \in source, f.file = file PROVE [f EXCEPT !.line = f.line + 1] \in Finding
    <3>1. f \in Finding /\ f.line < MaxLine
      BY <1>3, <2>1 DEF InsertLine, DiffIInv
    <3>2. f.line + 1 \in 1..MaxLine
      <4>1. MaxLine \in Nat /\ f.line \in 1..MaxLine
        BY <3>1, FindingForm, DiffAssumption
      <4> QED
        BY <3>1, <4>1
    <3> QED
      BY <3>1, <3>2 DEF Finding
  <2>2. source' \subseteq Finding
    BY <1>3, <2>1 DEF InsertLine, DiffIInv
  <2> QED
    BY <1>1, <1>3, <2>2 DEF InsertLine
<1>4. ASSUME NEW code, Fails(code), source' = source, baseline'.findings \subseteq Finding
      PROVE  DiffIInv'
  <2>1. told' = CollectNewFindings(report', ExtractFingerprints(baseline'.findings))
    BY <1>4 DEF Fails, CollectNewFindings
  <2> QED
    BY <1>4, <2>1 DEF Fails, DiffIInv
<1>5. ASSUME DiffRefused \/ BaselineNotWritten PROVE DiffIInv'
  <2>1. baseline'.findings \subseteq Finding /\ source' = source
    BY <1>5 DEF DiffRefused, BaselineNotWritten, TornFile, DiffIInv
  <2> QED
    BY <1>4, <1>5, <2>1 DEF DiffRefused, BaselineNotWritten
<1>6. ASSUME NEW update \in BOOLEAN, NEW gated \in BOOLEAN, NEW readable \in BOOLEAN,
             NEW min \in Thresholds, NEW unread \in SUBSET File,
             Diff(update, gated, min, unread, readable)
      PROVE  DiffIInv'
  <2>1. PICK current : current = CurrentReport(unread) /\ current \subseteq Finding
    BY DEF CurrentReport, DiffIInv
  <2>2. PICK base : base = IF update THEN FileOf(current) ELSE baseline
    OBVIOUS
  <2>3. PICK new : new = CollectNewFindings(current, ExtractFingerprints(base.findings))
    OBVIOUS
  <2>4. /\ baseline' = base /\ source' = source
        /\ \/ Fails(2) \/ Fails(1)
           \/ /\ base.exists /\ base.parses
              /\ report' = current /\ told' = new /\ failed' = FALSE
              /\ exit' = IF gated /\ GateCloses(new, min) THEN 1 ELSE 0
    BY <1>6, <2>1, <2>2, <2>3 DEF Diff
  <2>5. base.findings \subseteq Finding
    BY <2>1, <2>2 DEF FileOf, DiffIInv
  <2>6. CASE Fails(2) \/ Fails(1)
    BY <1>4, <2>4, <2>5, <2>6
  <2>7. CASE /\ base.exists /\ base.parses
             /\ report' = current /\ told' = new /\ failed' = FALSE
             /\ exit' = IF gated /\ GateCloses(new, min) THEN 1 ELSE 0
    <3>1. told' = CollectNewFindings(report', ExtractFingerprints(baseline'.findings))
      BY <2>3, <2>4, <2>7 DEF CollectNewFindings
    <3>2. exit' = 1 => Considered(told') # {}
      BY <2>7 DEF GateCloses
    <3> QED
      BY <2>1, <2>4, <2>5, <2>7, <3>1, <3>2 DEF DiffIInv
  <2> QED
    BY <2>4, <2>6, <2>7
<1>7. ASSUME UNCHANGED diffVars PROVE DiffIInv'
  BY <1>7 DEF diffVars, DiffIInv
<1> QED
  BY <1>2, <1>3, <1>5, <1>6, <1>7 DEF DiffNext

(* For any files, functions and findings, whatever changes between runs and    *)
(* whichever files a run cannot read and wherever one fails: what the baseline *)
(* holds is not reported again when lines move, what is left out was in it, the*)
(* gate closes only for a finding it ranks, and no half-written baseline is    *)
(* taken for an empty one.                                                     *)
THEOREM BaselineSilences == DiffSpec => []BaselineSilencesItself
<1>1. DiffInit => DiffIInv
  BY DEF DiffInit, DiffIInv, NoFile, CollectNewFindings
<1>2. DiffIInv => BaselineSilencesItself
  <2> SUFFICES ASSUME DiffIInv PROVE BaselineSilencesItself
    OBVIOUS
  <2>1. told \subseteq report /\ report \subseteq Finding /\ baseline.findings \subseteq Finding
    BY DEF DiffIInv, CollectNewFindings
  <2>2. ASSUME NEW f \in told, NEW g \in baseline.findings, LikeOf(f, g), f.file = g.file
        PROVE  f.kind \in {"event", "custom"} /\ f.line # g.line
    <3>1. Fingerprint(f) # Fingerprint(g)
      BY DEF DiffIInv, CollectNewFindings, ExtractFingerprints
    <3> QED
      BY <2>1, <2>2, <3>1, LikeFingerprint
  <2>3. ASSUME NEW f \in report \ told
        PROVE  \E g \in baseline.findings : LikeOf(f, g) /\ (f.file = g.file \/ f.kind \in Named)
    <3>1. PICK g \in baseline.findings : Fingerprint(f) = Fingerprint(g)
      BY DEF DiffIInv, CollectNewFindings, ExtractFingerprints
    <3> QED
      BY <2>1, <3>1, SameFingerprint
  <2>4. exit = 1 /\ ~failed => \E f \in told : f.kind # "custom"
    <3>1. \A f \in told : f.kind = "custom" => SeverityOf(f) = 4
      BY DEF SeverityOf
    <3> QED
      BY <3>1 DEF DiffIInv, Considered
  <2>5. told # {} => baseline.exists /\ baseline.parses
    BY <2>1 DEF DiffIInv
  <2> QED
    BY <2>2, <2>3, <2>4, <2>5 DEF BaselineSilencesItself
<1> QED
  BY <1>1, <1>2, DiffStep, PTL DEF DiffSpec
=============================================================================
