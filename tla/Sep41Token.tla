----------------------------- MODULE Sep41Token -----------------------------
(***************************************************************************)
(* contracts/my-contract: the SEP-41 token template.                       *)
(*                                                                         *)
(* A call is one transaction, which the account that must authorize it     *)
(* has signed; a panic undoes it, so a call that fails is no step.         *)
(* Amounts are i128: MaxAmount is i128::MAX and every sum is checked.      *)
(***************************************************************************)
EXTENDS Integers, FiniteSets, Functions

CONSTANTS
  Accounts,
  Spenders,   \* the accounts that are approved
  Amounts,    \* the arguments in use, negative ones too
  MaxAmount,  \* i128::MAX, scaled down
  Expiries,   \* values of expiration_ledger
  MaxLedger,  \* bound: the last ledger sequence considered
  MaxExcess   \* bound: what accounts transfer to themselves

ASSUME TokenAssumption ==
  /\ IsFiniteSet(Accounts) \* an address is 32 bytes
  /\ Spenders \subseteq Accounts
  /\ MaxAmount \in Nat
  /\ Amounts \subseteq Int
  /\ \A n \in Amounts : n <= MaxAmount
  /\ Expiries \subseteq Nat
  /\ MaxLedger \in Nat /\ MaxExcess \in Nat

Pairs == Accounts \X Spenders

(* AllowanceValue. The amount -1 stands for an entry that does not exist:  *)
(* like it, it covers no draw, not even of nothing.                        *)
AllowanceValue == [amount : -1..MaxAmount, expiration_ledger : Nat]
NoAllowance == [amount |-> -1, expiration_ledger |-> 0]

VARIABLES
  sequence,    \* env.ledger().sequence()
  initialized, \* DataKey::Admin is set
  balance,     \* DataKey::Balance, 0 where there is no entry
  allowance,   \* DataKey::Allowance of <<from, spender>>
  issued,      \* history: minted less burned
  excess,      \* history: the amounts accounts have transferred to themselves
  granted,     \* history: of <<from, spender>>, the last amount approved
  drawn,       \* history: what was drawn since
  drawnAt      \* history: the ledger of the last of those draws

books == <<issued, excess>>
draws == <<granted, drawn, drawnAt>>
vars == <<sequence, initialized, balance, allowance, books, draws>>

TokenTypeOK ==
  /\ sequence \in 0..MaxLedger
  /\ initialized \in BOOLEAN
  /\ balance \in [Accounts -> 0..MaxAmount]
  /\ allowance \in [Pairs -> AllowanceValue]
  /\ issued \in Int /\ excess \in Nat
  /\ granted \in [Pairs -> -1..MaxAmount]
  /\ drawn \in [Pairs -> Nat]
  /\ drawnAt \in [Pairs -> Nat]

Init ==
  /\ sequence = 0
  /\ initialized = FALSE
  /\ balance = [a \in Accounts |-> 0]
  /\ allowance = [p \in Pairs |-> NoAllowance]
  /\ issued = 0 /\ excess = 0
  /\ granted = [p \in Pairs |-> -1]
  /\ drawn = [p \in Pairs |-> 0]
  /\ drawnAt = [p \in Pairs |-> 0]

-----------------------------------------------------------------------------
Initialize ==
  /\ ~initialized
  /\ initialized' = TRUE
  /\ UNCHANGED <<sequence, balance, allowance, books, draws>>

Mint(to, n) ==
  /\ initialized
  /\ n >= 0
  /\ balance[to] + n <= MaxAmount
  /\ balance' = [balance EXCEPT ![to] = @ + n]
  /\ issued' = issued + n
  /\ UNCHANGED <<sequence, initialized, allowance, excess, draws>>

(* The earlier allowance, drawn or not, is replaced.                       *)
Approve(from, spender, n, expiry) ==
  LET p == <<from, spender>>
  IN /\ n >= 0
     /\ allowance' = [allowance EXCEPT ![p] = [amount |-> n, expiration_ledger |-> expiry]]
     /\ granted' = [granted EXCEPT ![p] = n]
     /\ drawn' = [drawn EXCEPT ![p] = 0]
     /\ drawnAt' = [drawnAt EXCEPT ![p] = 0]
     /\ UNCHANGED <<sequence, initialized, balance, books>>

\* Fault: checked_sub alone, which refuses no negative result.
anyDebit(a, n) == TRUE

canDebit(a, n) == balance[a] - n >= 0

\* Fault: the debit is not written.
onlyCredited(from, to, n) == [balance EXCEPT ![to] = @ + n]

(* Both balances are read before either is written, the recipient's last:  *)
(* between an account and itself the debit is overwritten.                 *)
moved(from, to, n) ==
  [balance EXCEPT ![from] = balance[from] - n, ![to] = balance[to] + n]

Move(from, to, n) ==
  /\ n >= 0
  /\ canDebit(from, n)
  /\ balance[to] + n <= MaxAmount
  /\ balance' = moved(from, to, n)
  /\ excess' = IF from = to THEN excess + n ELSE excess
  /\ excess' <= MaxExcess

Transfer(from, to, n) ==
  /\ Move(from, to, n)
  /\ UNCHANGED <<sequence, initialized, allowance, issued, draws>>

\* Fault: expiration_ledger is not compared.
neverExpires(p) == TRUE

alive(p) == allowance[p].expiration_ledger >= sequence

(* What transfer_from and burn_from do to the allowance.                   *)
Draw(from, spender, n) ==
  LET p == <<from, spender>>
  IN /\ n >= 0
     /\ alive(p)
     /\ allowance[p].amount - n >= 0
     /\ allowance' = [allowance EXCEPT ![p].amount = @ - n]
     /\ drawn' = [drawn EXCEPT ![p] = @ + n]
     /\ drawnAt' = [drawnAt EXCEPT ![p] = sequence]
     /\ UNCHANGED granted

TransferFrom(spender, from, to, n) ==
  /\ Draw(from, spender, n)
  /\ Move(from, to, n)
  /\ UNCHANGED <<sequence, initialized, issued>>

Destroy(a, n) ==
  /\ n >= 0
  /\ canDebit(a, n)
  /\ balance' = [balance EXCEPT ![a] = @ - n]
  /\ issued' = issued - n

Burn(from, n) ==
  /\ Destroy(from, n)
  /\ UNCHANGED <<sequence, initialized, allowance, excess, draws>>

BurnFrom(spender, from, n) ==
  /\ Draw(from, spender, n)
  /\ Destroy(from, n)
  /\ UNCHANGED <<sequence, initialized, excess>>

Close ==
  /\ sequence < MaxLedger
  /\ sequence' = sequence + 1
  /\ UNCHANGED <<initialized, balance, allowance, books, draws>>

Next ==
  \/ Initialize
  \/ Close
  \/ \E a \in Accounts, n \in Amounts :
       \/ Mint(a, n)
       \/ Burn(a, n)
       \/ \E b \in Accounts : Transfer(a, b, n)
       \/ \E s \in Spenders :
            \/ \E e \in Expiries : Approve(a, s, n, e)
            \/ \E b \in Accounts : TransferFrom(s, a, b, n)
            \/ BurnFrom(s, a, n)

Spec == Init /\ [][Next]_vars

-----------------------------------------------------------------------------
total(b) == FoldFunction(+, 0, b)

(* No sequence of transfers, draws and burns creates or loses a token,     *)
(* apart from what accounts have transferred to themselves.                *)
SupplyBooksBalance == total(balance) = issued + excess

(* What a spender has drawn since the owner's last approve and what it may *)
(* still draw are together what was approved, and nothing was drawn after  *)
(* the expiry, whether the draws were transfers or burns, failed or not.   *)
DrawsWithinGrant ==
  \A p \in Pairs :
    /\ allowance[p].amount + drawn[p] = granted[p]
    /\ drawn[p] > 0 => drawnAt[p] <= allowance[p].expiration_ledger
=============================================================================
