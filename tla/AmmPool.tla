------------------------------ MODULE AmmPool -------------------------------
(***************************************************************************)
(* contracts/amm-pool: a constant-product pool of two tokens.              *)
(*                                                                         *)
(* A call is one transaction. Amounts are u128 and every operation on them *)
(* is checked: Max stands for u128::MAX, and a result above it, like every *)
(* other refusal, makes the call return 0. A call that returns 0 without   *)
(* writing is no step; a refused swap does write, and is one.              *)
(* Every operation is authorized by the contract's own address; who holds  *)
(* the LP tokens it counts is not in its state, nor are token balances.    *)
(***************************************************************************)
EXTENDS Integers, Sequences, Functions

CONSTANTS
  Tokens,
  Amounts,            \* the arguments in use
  Max,                \* u128::MAX, scaled down
  MINIMUM_LIQUIDITY,  \* scaled down
  MaxVersion,         \* bound: migrations start below it
  NoPair              \* the pool has not been seeded

ASSUME PoolAssumption ==
  /\ Max \in Nat
  /\ MaxVersion \in Nat \ {0}
  /\ MINIMUM_LIQUIDITY \in Nat \ {0}
  /\ Amounts \subseteq 0..Max
  /\ NoPair \notin Tokens \X Tokens

CONTRACT_VERSION == 1

VARIABLES
  pair,         \* <<DataKey::TokenA, DataKey::TokenB>>
  reserve_a,
  reserve_b,
  total_supply, \* 0 where there is no entry
  version,      \* CONTRACT_VERSION where there is no entry
  applied       \* history: the from_version of each migration that succeeded

poolState == <<reserve_a, reserve_b, total_supply>>
vars == <<pair, reserve_a, reserve_b, total_supply, version, applied>>

PoolTypeOK ==
  /\ pair \in (Tokens \X Tokens) \cup {NoPair}
  /\ reserve_a \in 0..Max
  /\ reserve_b \in 0..Max
  /\ total_supply \in 0..Max
  /\ version \in 1..MaxVersion
  /\ applied \in Seq(1..MaxVersion)

Init ==
  /\ pair = NoPair
  /\ reserve_a = 0 /\ reserve_b = 0 /\ total_supply = 0
  /\ version = CONTRACT_VERSION
  /\ applied = <<>>

-----------------------------------------------------------------------------
ceil_half(v) == (v + 1) \div 2

(* Newton's iteration from above, which stops when it no longer falls. It  *)
(* has no answer for u128::MAX, whose successor overflows.                 *)
integer_sqrt(v) ==
  LET from[e \in 0..v] ==
        LET next == ceil_half(e + (v \div e)) IN IF next < e THEN from[next] ELSE e
  IN IF ceil_half(v) < v THEN from[ceil_half(v)] ELSE v

(* The first add_liquidity. It stores the version, whatever it was.        *)
Seed(a, b, x, y, min_lp) ==
  /\ total_supply = 0
  /\ x # 0 /\ y # 0 /\ a # b
  /\ x * y < Max
  /\ \E initial \in MINIMUM_LIQUIDITY..Max :
       /\ initial = integer_sqrt(x * y)
       /\ initial - MINIMUM_LIQUIDITY >= min_lp
       /\ total_supply' = initial
  /\ pair' = <<a, b>>
  /\ reserve_a' = x /\ reserve_b' = y
  /\ version' = CONTRACT_VERSION
  /\ UNCHANGED applied

share(amount, reserve) == (amount * total_supply) \div reserve

\* Fault: the larger share is minted.
largerShare(x, y) ==
  IF share(x, reserve_a) < share(y, reserve_b) THEN share(y, reserve_b) ELSE share(x, reserve_a)

calculate_liquidity_mint(x, y) ==
  IF share(x, reserve_a) < share(y, reserve_b) THEN share(x, reserve_a) ELSE share(y, reserve_b)

(* Every later add_liquidity.                                              *)
AddLiquidity(x, y, min_lp) ==
  /\ total_supply # 0
  /\ x # 0 /\ y # 0
  /\ reserve_a # 0 /\ reserve_b # 0
  /\ x * total_supply <= Max /\ y * total_supply <= Max
  /\ reserve_a + x <= Max /\ reserve_b + y <= Max
  /\ LET minted == calculate_liquidity_mint(x, y)
     IN /\ minted # 0
        /\ minted >= min_lp
        /\ total_supply + minted <= Max
        /\ total_supply' = total_supply + minted
  /\ reserve_a' = reserve_a + x
  /\ reserve_b' = reserve_b + y
  /\ UNCHANGED <<pair, version, applied>>

\* Fault: the subtraction wraps.
anyRemainder(lp) == TRUE

\* Fault: the locked liquidity can be burned.
lockedToo(lp) == total_supply - lp >= 0

burnable(lp) == total_supply - lp >= MINIMUM_LIQUIDITY

proportional_amount(reserve, lp) == (reserve * lp) \div total_supply

RemoveLiquidity(lp, min_a, min_b) ==
  LET amount_a == proportional_amount(reserve_a, lp)
      amount_b == proportional_amount(reserve_b, lp)
  IN /\ total_supply # 0
     /\ lp # 0 /\ burnable(lp)
     /\ reserve_a * lp <= Max /\ reserve_b * lp <= Max
     /\ amount_a >= min_a /\ amount_b >= min_b
     /\ amount_a # 0 /\ amount_b # 0
     /\ reserve_a' = reserve_a - amount_a
     /\ reserve_b' = reserve_b - amount_b
     /\ total_supply' = total_supply - lp
     /\ UNCHANGED <<pair, version, applied>>

calculate_swap_output(reserve_in, reserve_out, x) ==
  (x * reserve_out) \div (reserve_in + x)

(* A swap that is refused gives out 0.                                     *)
execute_swap(reserve_in, reserve_out, x, min_out) ==
  LET out == calculate_swap_output(reserve_in, reserve_out, x)
  IN IF \/ reserve_in = 0 \/ reserve_out = 0
        \/ x * reserve_out > Max \/ reserve_in + x > Max
        \/ out < min_out \/ out >= reserve_out
     THEN 0 ELSE out

(* Whatever comes out, the input goes in.                                  *)
SwapA(x, min_out) ==
  LET out == execute_swap(reserve_a, reserve_b, x, min_out)
  IN /\ pair # NoPair
     /\ x # 0
     /\ reserve_a + x <= Max
     /\ reserve_b - out >= 0
     /\ reserve_a' = reserve_a + x
     /\ reserve_b' = reserve_b - out
     /\ UNCHANGED <<pair, total_supply, version, applied>>

SwapB(x, min_out) ==
  LET out == execute_swap(reserve_b, reserve_a, x, min_out)
  IN /\ pair # NoPair
     /\ x # 0
     /\ reserve_b + x <= Max
     /\ reserve_a - out >= 0
     /\ reserve_b' = reserve_b + x
     /\ reserve_a' = reserve_a - out
     /\ UNCHANGED <<pair, total_supply, version, applied>>

Migrate(from_version) ==
  /\ version = from_version
  /\ version < MaxVersion
  /\ version' = version + 1
  /\ applied' = Append(applied, from_version)
  /\ UNCHANGED <<pair, poolState>>

Next ==
  \/ \E x, y, m \in Amounts :
       \/ \E a, b \in Tokens : Seed(a, b, x, y, m)
       \/ AddLiquidity(x, y, m)
       \/ RemoveLiquidity(x, y, m)
  \/ \E x, m \in Amounts : SwapA(x, m) \/ SwapB(x, m)
  \/ \E v \in 1..MaxVersion : Migrate(v)

Spec == Init /\ [][Next]_vars

-----------------------------------------------------------------------------
(* Once seeded, no sequence of deposits, withdrawals and swaps empties the *)
(* pool: both reserves stay positive and the minimum liquidity is never    *)
(* burned, so that no second pair can be seeded over the first.            *)
PoolAlive ==
  IF pair = NoPair
  THEN reserve_a = 0 /\ reserve_b = 0 /\ total_supply = 0
  ELSE reserve_a > 0 /\ reserve_b > 0 /\ total_supply >= MINIMUM_LIQUIDITY

(* No call makes an LP token worth less: the product of the reserves per   *)
(* square of the supply never falls, every division being rounded in the   *)
(* pool's favour.                                                          *)
ShareNeverDiluted ==
  [][pair # NoPair =>
       reserve_a' * reserve_b' * total_supply * total_supply
         >= reserve_a * reserve_b * total_supply' * total_supply']_vars

-----------------------------------------------------------------------------
(* What the documentation says and the code does not do.                   *)

(* lib.rs:275 "Returns `true` on success and `false` when the stored       *)
(* version does not match `from_version` (prevents replaying an            *)
(* already-applied migration)": no migration succeeds twice.               *)
MigratesOnce == IsInjective(applied)
=============================================================================
