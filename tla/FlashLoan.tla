------------------------------ MODULE FlashLoan ------------------------------
(* contracts/flashloan-token: a loan is taken and repaid in one call. The      *)
(* receiver's exec_op runs between the two halves and may call anything,       *)
(* this contract included; a call that panics is undone, and so is all it did. *)
(* One token; the admin signs its own calls.                                   *)
EXTENDS Naturals, Integers, Sequences

CONSTANTS BpsDenom,       \* BPS_DENOM, 10000 in the code
          MaxFeeBps,      \* MAX_FEE_BPS
          DefaultFeeBps,  \* DEFAULT_FEE_BPS, when no fee is stored
          MaxTokens,      \* bound: the tokens there are
          MaxLoans        \* bound: the loans that complete

ASSUME FlashAssumption ==
  /\ BpsDenom \in Nat \ {0} /\ MaxFeeBps \in Nat /\ DefaultFeeBps \in Nat
  /\ MaxTokens \in Nat /\ MaxLoans \in Nat

VARIABLES initialised, feeBps, paused, locked, totalFees, totalLoans,  \* storage
          held,     \* the contract's balance of the token
          given,    \* history: tokens the contract got outside every loan
          frames,   \* the calls of flashloan that wait for their exec_op
          early     \* history: a loan was taken before initialize

flashVars == <<initialised, feeBps, paused, locked, totalFees, totalLoans,
               held, given, frames, early>>

FlashInit ==
  /\ initialised = FALSE /\ feeBps = DefaultFeeBps /\ paused = FALSE /\ locked = FALSE
  /\ totalFees = 0 /\ totalLoans = 0 /\ held = 0 /\ given = 0
  /\ frames = <<>> /\ early = FALSE

\* What the host restores when a call panics.
Stored == [feeBps |-> feeBps, paused |-> paused, locked |-> locked, fees |-> totalFees,
           loans |-> totalLoans, held |-> held, initialised |-> initialised]

\* initialize also clears the lock and the totals.
Initialize(bps) ==
  /\ ~initialised /\ bps <= MaxFeeBps
  /\ initialised' = TRUE /\ feeBps' = bps /\ paused' = FALSE /\ locked' = FALSE
  /\ totalFees' = 0 /\ totalLoans' = 0
  /\ UNCHANGED <<held, given, frames, early>>

SetFee(bps) ==
  /\ initialised /\ bps <= MaxFeeBps
  /\ feeBps' = bps
  /\ UNCHANGED <<initialised, paused, locked, totalFees, totalLoans, held, given, frames, early>>

SetPaused(p) ==
  /\ initialised /\ paused' = p
  /\ UNCHANGED <<initialised, feeBps, locked, totalFees, totalLoans, held, given, frames, early>>

Fee(amount, bps) == (amount * bps) \div BpsDenom

AcquireLock == ~locked /\ locked' = TRUE

\* The first half of flashloan, up to invoke_contract.
Borrow(amount) ==
  /\ ~paused
  /\ AcquireLock
  /\ amount \in 1..held
  /\ frames' = Append(frames, [before |-> held, fee |-> Fee(amount, feeBps),
                               undo |-> Stored, given |-> given])
  /\ held' = held - amount
  /\ early' = (early \/ ~initialised)
  /\ UNCHANGED <<initialised, feeBps, paused, totalFees, totalLoans, given>>

\* Tokens sent to the contract: a repayment while a loan waits.
Receive(amount) ==
  /\ amount >= 1 /\ held + amount <= MaxTokens
  /\ held' = held + amount
  /\ given' = IF frames = <<>> THEN given + amount ELSE given
  /\ UNCHANGED <<initialised, feeBps, paused, locked, totalFees, totalLoans, frames, early>>

Top == frames[Len(frames)]
Rest == SubSeq(frames, 1, Len(frames) - 1)

\* The second half: exec_op has returned and the balance is enough.
Repaid == held >= Top.before + Top.fee
\* Booking the fee that was asked instead of the one that was paid.
SettleQuoted ==
  /\ frames # <<>> /\ totalLoans < MaxLoans
  /\ Repaid
  /\ totalFees' = totalFees + Top.fee
  /\ totalLoans' = totalLoans + 1
  /\ locked' = FALSE
  /\ frames' = Rest
  /\ UNCHANGED <<initialised, feeBps, paused, held, given, early>>

Settle ==
  /\ frames # <<>> /\ totalLoans < MaxLoans
  /\ Repaid
  /\ totalFees' = totalFees + (held - Top.before)
  /\ totalLoans' = totalLoans + 1
  /\ locked' = FALSE
  /\ frames' = Rest
  /\ UNCHANGED <<initialised, feeBps, paused, held, given, early>>

\* exec_op panics, or the assertion after it does: all of the call is undone.
Undo ==
  /\ frames # <<>>
  /\ LET u == Top.undo IN
     /\ feeBps' = u.feeBps /\ paused' = u.paused /\ locked' = u.locked
     /\ totalFees' = u.fees /\ totalLoans' = u.loans /\ held' = u.held
     /\ initialised' = u.initialised
  /\ given' = Top.given /\ frames' = Rest
  /\ UNCHANGED early

FlashNext ==
  \/ \E bps \in 0..MaxFeeBps : Initialize(bps) \/ SetFee(bps)
  \/ \E p \in BOOLEAN : SetPaused(p)
  \/ \E n \in 1..MaxTokens : Borrow(n) \/ Receive(n)
  \/ Settle
  \/ Undo

FlashSpec == FlashInit /\ [][FlashNext]_flashVars

FlashTypeOK ==
  /\ initialised \in BOOLEAN /\ paused \in BOOLEAN /\ locked \in BOOLEAN /\ early \in BOOLEAN
  /\ feeBps \in Nat /\ totalFees \in Nat /\ totalLoans \in Nat
  /\ held \in 0..MaxTokens /\ given \in Nat

(* Between transactions the contract holds what it was given and the fees it   *)
(* has on record, and is not locked - provided it was initialised before its   *)
(* first loan (flashloan, initialize): an initialize inside an exec_op would   *)
(* clear the lock, and one after a loan clears the totals.                     *)
FeesAreTheGains ==
  frames = <<>> /\ ~early => held = given + totalFees /\ ~locked
=============================================================================
