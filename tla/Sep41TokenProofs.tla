-------------------------- MODULE Sep41TokenProofs --------------------------
(* What holds of the token for any accounts, amounts and ceiling. The      *)
(* conservation of supply is a sum over the accounts: FoldLemmas says what *)
(* a write to one balance does to it.                                      *)
EXTENDS Sep41Token, FoldLemmas, TLAPS

LEMMA InitTypes == Init => TokenTypeOK
<1> SUFFICES ASSUME Init PROVE TokenTypeOK
  OBVIOUS
<1>1. -1 \in -1..MaxAmount /\ 0 \in 0..MaxAmount /\ 0 \in 0..MaxLedger
  BY TokenAssumption
<1>2. NoAllowance \in AllowanceValue
  BY <1>1 DEF NoAllowance, AllowanceValue
<1>3. allowance \in [Pairs -> AllowanceValue] /\ granted \in [Pairs -> -1..MaxAmount]
  BY <1>1, <1>2 DEF Init
<1>4. sequence \in 0..MaxLedger /\ issued \in Int /\ excess \in Nat
  BY <1>1 DEF Init
<1>5. initialized \in BOOLEAN
  BY ZenonT(30) DEF Init
<1>6. balance \in [Accounts -> 0..MaxAmount]
  BY <1>1 DEF Init
<1>7. drawn \in [Pairs -> Nat] /\ drawnAt \in [Pairs -> Nat]
  BY DEF Init
<1> QED
  BY <1>3, <1>4, <1>5, <1>6, <1>7 DEF TokenTypeOK

LEMMA AmountReplaced ==
  ASSUME NEW r \in AllowanceValue, NEW x
  PROVE  [r EXCEPT !.amount = x] = [amount |-> x, expiration_ledger |-> r.expiration_ledger]
BY DEF AllowanceValue

(* A move between two accounts leaves every balance between 0 and MaxAmount:     *)
(* negative amounts, overdrafts and overflows are refused.                 *)
LEMMA MoveTypes ==
  ASSUME TokenTypeOK, NEW f \in Accounts, NEW t \in Accounts, NEW n \in Amounts,
         Move(f, t, n)
  PROVE  balance' \in [Accounts -> 0..MaxAmount] /\ excess' \in Nat
<1>1. n \in Nat /\ balance \in [Accounts -> 0..MaxAmount] /\ MaxAmount \in Nat
  BY TokenAssumption DEF Move, TokenTypeOK
<1>2. balance[f] - n \in 0..MaxAmount /\ balance[t] + n \in 0..MaxAmount
  BY <1>1 DEF Move, canDebit
<1>3. balance' = [balance EXCEPT ![f] = balance[f] - n, ![t] = balance[t] + n]
  BY DEF Move, moved
<1>4. excess' \in Nat
  BY <1>1 DEF Move, TokenTypeOK
<1> QED
  BY <1>1, <1>2, <1>3, <1>4

LEMMA DestroyTypes ==
  ASSUME TokenTypeOK, NEW a \in Accounts, NEW n \in Amounts, Destroy(a, n)
  PROVE  balance' \in [Accounts -> 0..MaxAmount] /\ issued' \in Int
<1>1. n \in Nat /\ balance \in [Accounts -> 0..MaxAmount] /\ MaxAmount \in Nat /\ issued \in Int
  BY TokenAssumption DEF Destroy, TokenTypeOK
<1>2. balance[a] - n \in 0..MaxAmount
  BY <1>1 DEF Destroy, canDebit
<1>3. balance' = [balance EXCEPT ![a] = balance[a] - n] /\ issued' = issued - n
  BY DEF Destroy
<1> QED
  BY <1>1, <1>2, <1>3

(* A draw takes from the allowance what it adds to the record of draws.    *)
LEMMA DrawKeeps ==
  ASSUME TokenTypeOK, DrawsWithinGrant,
         NEW f \in Accounts, NEW s \in Spenders, NEW n \in Amounts, Draw(f, s, n)
  PROVE  /\ allowance' \in [Pairs -> AllowanceValue]
         /\ granted' \in [Pairs -> -1..MaxAmount]
         /\ drawn' \in [Pairs -> Nat]
         /\ drawnAt' \in [Pairs -> Nat]
         /\ DrawsWithinGrant'
<1> DEFINE p == <<f, s>>
<1>1. p \in Pairs
  BY DEF Pairs
<1>2. /\ n \in Nat /\ sequence \in Nat
      /\ allowance \in [Pairs -> AllowanceValue]
      /\ granted \in [Pairs -> -1..MaxAmount]
      /\ drawn \in [Pairs -> Nat] /\ drawnAt \in [Pairs -> Nat]
  BY TokenAssumption DEF Draw, TokenTypeOK
<1>3. /\ allowance[p].amount \in -1..MaxAmount /\ allowance[p].expiration_ledger \in Nat
      /\ allowance[p] = [amount |-> allowance[p].amount,
                         expiration_ledger |-> allowance[p].expiration_ledger]
  BY <1>1, <1>2 DEF AllowanceValue
<1>4. /\ allowance[p].amount - n >= 0
      /\ sequence <= allowance[p].expiration_ledger
      /\ allowance' = [allowance EXCEPT ![p].amount = allowance[p].amount - n]
      /\ drawn' = [drawn EXCEPT ![p] = drawn[p] + n]
      /\ drawnAt' = [drawnAt EXCEPT ![p] = sequence]
      /\ granted' = granted
  BY <1>2, <1>3 DEF Draw, alive
<1> DEFINE v == [amount |-> allowance[p].amount - n,
                 expiration_ledger |-> allowance[p].expiration_ledger]
<1>5. v \in AllowanceValue
  BY <1>2, <1>3, <1>4, TokenAssumption DEF AllowanceValue
<1>6. allowance' = [allowance EXCEPT ![p] = v]
  <2>1. [allowance[p] EXCEPT !.amount = allowance[p].amount - n] = v
    BY <1>1, <1>2, AmountReplaced
  <2>2. allowance' = [allowance EXCEPT
                        ![p] = [allowance[p] EXCEPT !.amount = allowance[p].amount - n]]
    BY <1>4
  <2> QED
    BY <2>1, <2>2
<1>7. allowance' \in [Pairs -> AllowanceValue]
  BY <1>1, <1>2, <1>5, <1>6
<1>8. DrawsWithinGrant'
  <2> SUFFICES ASSUME NEW q \in Pairs
               PROVE  /\ allowance'[q].amount + drawn'[q] = granted'[q]
                      /\ drawn'[q] > 0 => drawnAt'[q] <= allowance'[q].expiration_ledger
    BY DEF DrawsWithinGrant
  <2>1. CASE q # p
    <3>1. /\ allowance'[q] = allowance[q] /\ drawn'[q] = drawn[q]
          /\ drawnAt'[q] = drawnAt[q] /\ granted'[q] = granted[q]
      BY <1>2, <1>4, <1>6, <2>1
    <3> QED
      BY <3>1 DEF DrawsWithinGrant
  <2>2. CASE q = p
    <3>1. /\ allowance'[p] = v /\ drawn'[p] = drawn[p] + n
          /\ drawnAt'[p] = sequence /\ granted'[p] = granted[p]
      BY <1>1, <1>2, <1>4, <1>6
    <3>2. allowance[p].amount + drawn[p] = granted[p]
      BY <1>1 DEF DrawsWithinGrant
    <3>3. /\ v.amount + (drawn[p] + n) = granted[p]
          /\ sequence <= v.expiration_ledger
      BY <1>1, <1>2, <1>3, <1>4, <3>2
    <3> QED
      BY <2>2, <3>1, <3>3
  <2> QED
    BY <2>1, <2>2
<1>9. drawn' \in [Pairs -> Nat] /\ drawnAt' \in [Pairs -> Nat]
  <2>1. drawn[p] + n \in Nat
    BY <1>1, <1>2
  <2> QED
    BY <1>2, <1>4, <2>1
<1>10. granted' \in [Pairs -> -1..MaxAmount]
  BY <1>2, <1>4
<1> QED
  BY <1>7, <1>8, <1>9, <1>10

(* A new approval starts a new record.                                     *)
LEMMA ApproveKeeps ==
  ASSUME TokenTypeOK, DrawsWithinGrant,
         NEW f \in Accounts, NEW s \in Spenders, NEW n \in Amounts, NEW e \in Expiries,
         Approve(f, s, n, e)
  PROVE  TokenTypeOK' /\ DrawsWithinGrant'
<1> DEFINE p == <<f, s>>
           v == [amount |-> n, expiration_ledger |-> e]
<1>1. p \in Pairs
  BY DEF Pairs
<1>2. n \in 0..MaxAmount /\ e \in Nat /\ v \in AllowanceValue
  BY TokenAssumption DEF Approve, AllowanceValue
<1>3. /\ allowance' = [allowance EXCEPT ![p] = v]
      /\ granted' = [granted EXCEPT ![p] = n]
      /\ drawn' = [drawn EXCEPT ![p] = 0]
      /\ drawnAt' = [drawnAt EXCEPT ![p] = 0]
      /\ UNCHANGED <<sequence, initialized, balance, issued, excess>>
  BY DEF Approve, books
<1>4. TokenTypeOK'
  <2>1. /\ allowance' \in [Pairs -> AllowanceValue]
        /\ granted' \in [Pairs -> -1..MaxAmount]
    BY <1>1, <1>2, <1>3, TokenAssumption DEF TokenTypeOK
  <2>2. drawn' \in [Pairs -> Nat] /\ drawnAt' \in [Pairs -> Nat]
    BY <1>1, <1>3 DEF TokenTypeOK
  <2> QED
    BY <2>1, <2>2, <1>3 DEF TokenTypeOK
<1>5. DrawsWithinGrant'
  <2> SUFFICES ASSUME NEW q \in Pairs
               PROVE  /\ allowance'[q].amount + drawn'[q] = granted'[q]
                      /\ drawn'[q] > 0 => drawnAt'[q] <= allowance'[q].expiration_ledger
    BY DEF DrawsWithinGrant
  <2>1. CASE q # p
    <3>1. /\ allowance'[q] = allowance[q] /\ drawn'[q] = drawn[q]
          /\ drawnAt'[q] = drawnAt[q] /\ granted'[q] = granted[q]
      BY <1>3, <2>1 DEF TokenTypeOK
    <3> QED
      BY <3>1 DEF DrawsWithinGrant
  <2>2. CASE q = p
    <3>1. /\ allowance'[p] = v /\ drawn'[p] = 0 /\ granted'[p] = n
      BY <1>1, <1>3 DEF TokenTypeOK
    <3> QED
      BY <2>2, <3>1, <1>2
  <2> QED
    BY <2>1, <2>2
<1> QED
  BY <1>4, <1>5

LEMMA SameDraws ==
  ASSUME DrawsWithinGrant, UNCHANGED <<allowance, draws>>
  PROVE  DrawsWithinGrant'
BY DEF DrawsWithinGrant, draws

LEMMA StepKeeps ==
  ASSUME TokenTypeOK, DrawsWithinGrant, [Next]_vars
  PROVE  TokenTypeOK' /\ DrawsWithinGrant'
<1>1. CASE UNCHANGED vars
  BY <1>1, SameDraws DEF vars, TokenTypeOK, books, draws
<1>2. CASE Initialize
  BY <1>2, SameDraws DEF Initialize, TokenTypeOK, books, draws
<1>3. CASE Close
  BY <1>3, SameDraws, TokenAssumption DEF Close, TokenTypeOK, books, draws
<1>4. ASSUME NEW a \in Accounts, NEW n \in Amounts, Mint(a, n)
      PROVE  TokenTypeOK' /\ DrawsWithinGrant'
  <2>1. n \in Nat /\ balance[a] + n \in 0..MaxAmount
    BY <1>4, TokenAssumption DEF Mint, TokenTypeOK
  <2>2. balance' \in [Accounts -> 0..MaxAmount] /\ issued' \in Int
    BY <1>4, <2>1 DEF Mint, TokenTypeOK
  <2> QED
    BY <1>4, <2>2, SameDraws DEF Mint, TokenTypeOK, draws
<1>5. ASSUME NEW a \in Accounts, NEW n \in Amounts, Burn(a, n)
      PROVE  TokenTypeOK' /\ DrawsWithinGrant'
  <2>1. Destroy(a, n) /\ UNCHANGED <<sequence, initialized, allowance, excess, draws>>
    BY <1>5 DEF Burn
  <2> QED
    BY <2>1, DestroyTypes, SameDraws DEF TokenTypeOK, draws
<1>6. ASSUME NEW a \in Accounts, NEW b \in Accounts, NEW n \in Amounts, Transfer(a, b, n)
      PROVE  TokenTypeOK' /\ DrawsWithinGrant'
  <2>1. Move(a, b, n) /\ UNCHANGED <<sequence, initialized, allowance, issued, draws>>
    BY <1>6 DEF Transfer
  <2> QED
    BY <2>1, MoveTypes, SameDraws DEF TokenTypeOK, draws
<1>7. ASSUME NEW a \in Accounts, NEW s \in Spenders, NEW b \in Accounts, NEW n \in Amounts,
             TransferFrom(s, a, b, n)
      PROVE  TokenTypeOK' /\ DrawsWithinGrant'
  <2>1. Draw(a, s, n) /\ Move(a, b, n) /\ UNCHANGED <<sequence, initialized, issued>>
    BY <1>7 DEF TransferFrom
  <2> QED
    BY <2>1, MoveTypes, DrawKeeps DEF TokenTypeOK
<1>8. ASSUME NEW a \in Accounts, NEW s \in Spenders, NEW n \in Amounts, BurnFrom(s, a, n)
      PROVE  TokenTypeOK' /\ DrawsWithinGrant'
  <2>1. Draw(a, s, n) /\ Destroy(a, n) /\ UNCHANGED <<sequence, initialized, excess>>
    BY <1>8 DEF BurnFrom
  <2> QED
    BY <2>1, DestroyTypes, DrawKeeps DEF TokenTypeOK
<1> QED
  BY <1>1, <1>2, <1>3, <1>4, <1>5, <1>6, <1>7, <1>8, ApproveKeeps DEF Next

LEMMA Inductive == Spec => [](TokenTypeOK /\ DrawsWithinGrant)
<1>1. Init => TokenTypeOK /\ DrawsWithinGrant
  BY InitTypes DEF Init, DrawsWithinGrant, NoAllowance
<1>2. TokenTypeOK /\ DrawsWithinGrant /\ [Next]_vars
        => TokenTypeOK' /\ DrawsWithinGrant'
  BY StepKeeps
<1> QED
  BY <1>1, <1>2, PTL DEF Spec

(* TokenTypeOK for every instance: a balance is never negative and never   *)
(* above the ceiling, whatever amounts callers pass.                       *)
THEOREM TokenTypes == Spec => []TokenTypeOK
BY Inductive, PTL

(* DrawsWithinGrant for every instance.                                    *)
THEOREM GrantsHold == Spec => []DrawsWithinGrant
BY Inductive, PTL

-----------------------------------------------------------------------------
(* The sum of the balances.                                                *)
LEMMA TotalChanges ==
  ASSUME NEW b \in [Accounts -> Int], NEW a \in Accounts, NEW v \in Int
  PROVE  total([b EXCEPT ![a] = v]) = total(b) + (v - b[a])
<1>1. IsFiniteSet(Accounts)
  BY TokenAssumption
<1>2. PICK c : c = [b EXCEPT ![a] = v]
  OBVIOUS
<1>3. /\ \A x \in Accounts : b[x] \in Int
      /\ c[a] = v /\ \A x \in Accounts : x # a => c[x] = b[x]
      /\ DOMAIN b = Accounts /\ DOMAIN c = Accounts
  BY <1>2
<1>4. SumFunctionOnSet(c, Accounts) = SumFunctionOnSet(b, Accounts) + (c[a] - b[a])
  BY <1>1, <1>3, SumChanges
<1>5. /\ total(c) = SumFunctionOnSet(c, Accounts)
      /\ total(b) = SumFunctionOnSet(b, Accounts)
  BY <1>3, TotalIsSum DEF total
<1> QED
  BY <1>2, <1>3, <1>4, <1>5

LEMMA TotalIsInt ==
  ASSUME NEW b \in [Accounts -> Int] PROVE total(b) \in Int
<1>1. IsFiniteSet(Accounts) /\ (\A x \in Accounts : b[x] \in Int) /\ DOMAIN b = Accounts
  BY TokenAssumption
<1>2. SumFunctionOnSet(b, Accounts) \in Int
  BY <1>1, SumIsInt
<1> QED
  BY <1>1, <1>2, TotalIsSum DEF total

(* A move changes the sum by what the account moves to itself.             *)
LEMMA MoveBalances ==
  ASSUME TokenTypeOK, SupplyBooksBalance, issued' = issued,
         NEW f \in Accounts, NEW t \in Accounts, NEW n \in Amounts, Move(f, t, n)
  PROVE  SupplyBooksBalance'
<1>1. /\ n \in Int /\ issued \in Int /\ excess \in Int
      /\ \A a \in Accounts : balance[a] \in Int
      /\ balance \in [Accounts -> Int]
  BY TokenAssumption DEF TokenTypeOK
<1>2. PICK d : d = [balance EXCEPT ![f] = balance[f] - n]
  OBVIOUS
<1>3. /\ d \in [Accounts -> Int] /\ balance[f] - n \in Int /\ balance[t] + n \in Int
  BY <1>1, <1>2
<1>4. balance' = [d EXCEPT ![t] = balance[t] + n]
  BY <1>2 DEF Move, moved
<1>5. total(d) = total(balance) + ((balance[f] - n) - balance[f])
  BY <1>1, <1>2, <1>3, TotalChanges
<1>6. total(balance') = total(d) + ((balance[t] + n) - d[t])
  BY <1>3, <1>4, TotalChanges
<1>7. total(balance) \in Int /\ total(d) \in Int
  BY <1>1, <1>3, TotalIsInt
<1>8. ASSUME f = t PROVE total(balance') = total(balance) + n /\ excess' = excess + n
  <2>1. d[t] = balance[t] - n
    BY <1>1, <1>2, <1>8
  <2>2. excess' = excess + n
    BY <1>8 DEF Move
  <2> QED
    BY <1>1, <1>5, <1>6, <1>7, <1>8, <2>1, <2>2
<1>9. ASSUME f # t PROVE total(balance') = total(balance) /\ excess' = excess
  <2>1. d[t] = balance[t]
    BY <1>1, <1>2, <1>9
  <2>2. excess' = excess
    BY <1>9 DEF Move
  <2> QED
    BY <1>1, <1>5, <1>6, <1>7, <2>1, <2>2
<1> QED
  BY <1>1, <1>7, <1>8, <1>9 DEF SupplyBooksBalance

LEMMA DestroyBalances ==
  ASSUME TokenTypeOK, SupplyBooksBalance, excess' = excess,
         NEW a \in Accounts, NEW n \in Amounts, Destroy(a, n)
  PROVE  SupplyBooksBalance'
<1>1. /\ n \in Int /\ issued \in Int /\ excess \in Int
      /\ balance[a] \in Int /\ balance \in [Accounts -> Int]
  BY TokenAssumption DEF TokenTypeOK
<1>2. balance' = [balance EXCEPT ![a] = balance[a] - n] /\ issued' = issued - n
  BY DEF Destroy
<1>3. total(balance') = total(balance) + ((balance[a] - n) - balance[a])
  <2>1. PICK v \in Int : v = balance[a] - n
    BY <1>1
  <2>2. total([balance EXCEPT ![a] = v]) = total(balance) + (v - balance[a])
    BY <1>1, TotalChanges
  <2> QED
    BY <1>2, <2>1, <2>2
<1>4. total(balance) \in Int
  BY <1>1, TotalIsInt
<1> QED
  BY <1>1, <1>2, <1>3, <1>4 DEF SupplyBooksBalance

LEMMA MintBalances ==
  ASSUME TokenTypeOK, SupplyBooksBalance, NEW a \in Accounts, NEW n \in Amounts, Mint(a, n)
  PROVE  SupplyBooksBalance'
<1>1. /\ n \in Int /\ issued \in Int /\ excess \in Int
      /\ balance[a] \in Int /\ balance \in [Accounts -> Int]
  BY TokenAssumption DEF TokenTypeOK
<1>2. balance' = [balance EXCEPT ![a] = balance[a] + n] /\ issued' = issued + n /\ excess' = excess
  BY DEF Mint
<1>3. total(balance') = total(balance) + ((balance[a] + n) - balance[a])
  <2>1. PICK v \in Int : v = balance[a] + n
    BY <1>1
  <2>2. total([balance EXCEPT ![a] = v]) = total(balance) + (v - balance[a])
    BY <1>1, TotalChanges
  <2> QED
    BY <1>2, <2>1, <2>2
<1>4. total(balance) \in Int
  BY <1>1, TotalIsInt
<1> QED
  BY <1>1, <1>2, <1>3, <1>4 DEF SupplyBooksBalance

LEMMA StepBalances ==
  ASSUME TokenTypeOK, SupplyBooksBalance, [Next]_vars
  PROVE  SupplyBooksBalance'
<1>1. ASSUME UNCHANGED <<balance, books>> PROVE SupplyBooksBalance'
  BY <1>1 DEF SupplyBooksBalance, books
<1>2. (UNCHANGED vars \/ Initialize \/ Close) => UNCHANGED <<balance, books>>
  BY DEF vars, Initialize, Close
<1>3. \A f \in Accounts, s \in Spenders, n \in Amounts, e \in Expiries :
        Approve(f, s, n, e) => UNCHANGED <<balance, books>>
  BY DEF Approve
<1>4. \A a \in Accounts, n \in Amounts : Burn(a, n) => SupplyBooksBalance'
  BY DestroyBalances DEF Burn
<1>5. \A s \in Spenders, a \in Accounts, n \in Amounts : BurnFrom(s, a, n) => SupplyBooksBalance'
  BY DestroyBalances DEF BurnFrom
<1>6. \A a, b \in Accounts, n \in Amounts : Transfer(a, b, n) => SupplyBooksBalance'
  BY MoveBalances DEF Transfer
<1>7. \A s \in Spenders, a, b \in Accounts, n \in Amounts :
        TransferFrom(s, a, b, n) => SupplyBooksBalance'
  BY MoveBalances DEF TransferFrom
<1> QED
  BY <1>1, <1>2, <1>3, <1>4, <1>5, <1>6, <1>7, MintBalances DEF Next

(* SupplyBooksBalance for every instance: what the accounts hold is what   *)
(* was minted less what was burned, and what they sent to themselves.      *)
THEOREM SupplyHolds == Spec => []SupplyBooksBalance
<1>1. Init => SupplyBooksBalance
  <2> SUFFICES ASSUME Init PROVE total(balance) = 0 /\ issued + excess = 0
    BY DEF SupplyBooksBalance
  <2>1. IsFiniteSet(Accounts) /\ (\A x \in Accounts : balance[x] = 0) /\ DOMAIN balance = Accounts
    BY TokenAssumption DEF Init
  <2>2. SumFunctionOnSet(balance, Accounts) = 0
    BY <2>1, SumOfZeros
  <2>3. total(balance) = 0
    BY <2>1, <2>2, TotalIsSum DEF total
  <2> QED
    BY <2>3 DEF Init
<1>2. TokenTypeOK /\ SupplyBooksBalance /\ [Next]_vars => SupplyBooksBalance'
  BY StepBalances
<1> QED
  BY <1>1, <1>2, TokenTypes, PTL DEF Spec
=============================================================================
