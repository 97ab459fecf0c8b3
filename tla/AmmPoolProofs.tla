--------------------------- MODULE AmmPoolProofs ----------------------------
(***************************************************************************)
(* Proofs about AmmPool. The arithmetic is stated first, free of the state: *)
(* each of the pool's divisions rounds in its favour. No fact about         *)
(* integer_sqrt is used but the range Seed tests its result against.        *)
(***************************************************************************)
EXTENDS AmmPool, TLAPS

IInv == PoolTypeOK /\ PoolAlive

-----------------------------------------------------------------------------
(* Arithmetic.                                                             *)

(* What a rounded-down quotient is.                                        *)
LEMMA QuotientBound ==
  ASSUME NEW n \in Nat, NEW d \in Nat \ {0}
  PROVE  /\ n \div d \in Nat
         /\ (n \div d) * d <= n
BY SMT

(* Products are monotone in both factors.                                  *)
LEMMA ProductMonotone ==
  ASSUME NEW p \in Nat, NEW q \in Nat, NEW r \in Nat, NEW s \in Nat,
         p >= r, q >= s
  PROVE  p * q >= r * s
<1>1. p * q >= r * q
  <2>1. PICK d \in Nat : p = r + d
    <3>1. p - r \in Nat /\ p = r + (p - r)
      OBVIOUS
    <3> QED BY <3>1
  <2>2. p * q = r * q + d * q
    BY <2>1
  <2>3. d * q >= 0 /\ d * q \in Nat /\ r * q \in Nat
    OBVIOUS
  <2> QED BY <2>2, <2>3
<1>2. r * q >= r * s
  <2>1. PICK d \in Nat : q = s + d
    <3>1. q - s \in Nat /\ q = s + (q - s)
      OBVIOUS
    <3> QED BY <3>1
  <2>2. r * q = r * s + r * d
    BY <2>1
  <2>3. r * d >= 0 /\ r * d \in Nat /\ r * s \in Nat
    OBVIOUS
  <2> QED BY <2>2, <2>3
<1>3. p * q \in Nat /\ r * q \in Nat /\ r * s \in Nat
  OBVIOUS
<1> QED BY <1>1, <1>2, <1>3

(* A part of the supply takes a smaller part of the reserve.               *)
LEMMA PartIsSmaller ==
  ASSUME NEW r \in Nat \ {0}, NEW l \in Nat, NEW t \in Nat \ {0}, l < t
  PROVE  /\ (r * l) \div t \in Nat
         /\ (r * l) \div t < r
<1> DEFINE q == (r * l) \div t
<1>1. q \in Nat /\ q * t <= r * l
  <2>1. r * l \in Nat
    OBVIOUS
  <2> QED BY <2>1, QuotientBound
<1>2. r * l < r * t
  <2>1. t - l \in Nat \ {0}
    OBVIOUS
  <2>2. r * (t - l) > 0
    BY <2>1
  <2>3. r * (t - l) = r * t - r * l
    OBVIOUS
  <2> QED BY <2>2, <2>3
<1>3. ASSUME q >= r PROVE FALSE
  <2>1. q * t >= r * t
    BY <1>1, <1>3, ProductMonotone
  <2> QED BY <1>1, <1>2, <2>1
<1> HIDE DEF q
<1>4. q < r
  BY <1>1, <1>3
<1> QED BY <1>1, <1>4 DEF q

(* Two reserves that each gain on the supply gain on its square.           *)
LEMMA GainsMultiply ==
  ASSUME NEW a \in Nat, NEW b \in Nat, NEW t \in Nat,
         NEW a1 \in Nat, NEW b1 \in Nat, NEW t1 \in Nat,
         a1 * t >= a * t1, b1 * t >= b * t1
  PROVE  a1 * b1 * t * t >= a * b * t1 * t1
<1>1. (a1 * t) * (b1 * t) >= (a * t1) * (b * t1)
  <2>1. /\ a1 * t \in Nat /\ b1 * t \in Nat
        /\ a * t1 \in Nat /\ b * t1 \in Nat
    OBVIOUS
  <2> QED BY <2>1, ProductMonotone
<1>2. (a1 * t) * (b1 * t) = a1 * b1 * t * t
  OBVIOUS
<1>3. (a * t1) * (b * t1) = a * b * t1 * t1
  OBVIOUS
<1> QED BY <1>1, <1>2, <1>3

(* What a swap gives out leaves the product of the reserves no smaller.    *)
LEMMA SwapKeepsProduct ==
  ASSUME NEW a \in Nat, NEW b \in Nat, NEW x \in Nat, NEW out \in Nat,
         out <= b, out * (a + x) <= x * b
  PROVE  (a + x) * (b - out) >= a * b
<1>1. (a + x) * (b - out) = a * b + x * b - out * (a + x)
  OBVIOUS
<1>2. a * b \in Nat /\ x * b \in Nat /\ out * (a + x) \in Nat
  OBVIOUS
<1> QED BY <1>1, <1>2

-----------------------------------------------------------------------------
(* Types and liveness of the pool.                                         *)

LEMMA InitIsGood == Init => IInv
BY PoolAssumption DEF Init, IInv, PoolTypeOK, PoolAlive, CONTRACT_VERSION

(* What is given out is less than the reserve it comes from, and is priced *)
(* by the constant product.                                                *)
LEMMA SwapOutput ==
  ASSUME NEW a \in 0..Max, NEW b \in 1..Max, NEW x \in Amounts, x # 0,
         NEW m \in Amounts
  PROVE  /\ execute_swap(a, b, x, m) \in Nat
         /\ execute_swap(a, b, x, m) < b
         /\ execute_swap(a, b, x, m) * (a + x) <= x * b
<1> DEFINE q == calculate_swap_output(a, b, x)
           out == execute_swap(a, b, x, m)
<1>1. x \in Nat \ {0} /\ a \in Nat /\ b \in Nat \ {0} /\ a + x \in Nat \ {0}
  BY PoolAssumption
<1>2. x * b \in Nat
  BY <1>1
<1>3. q \in Nat /\ q * (a + x) <= x * b
  <2>1. (x * b) \div (a + x) \in Nat /\ ((x * b) \div (a + x)) * (a + x) <= x * b
    BY <1>1, <1>2, QuotientBound
  <2> QED BY <2>1 DEF calculate_swap_output
<1>4. out = 0 \/ (out = q /\ q < b)
  <2>1. \/ out = 0
        \/ out = q /\ ~(q >= b)
    BY DEF execute_swap
  <2> QED BY <2>1, <1>1, <1>3
<1> HIDE DEF q, out
<1>5. CASE out = 0
  <2>1. 0 * (a + x) = 0
    BY <1>1
  <2> QED BY <1>1, <1>2, <1>5, <2>1 DEF out
<1>6. CASE out = q /\ q < b
  BY <1>3, <1>6 DEF out
<1> QED BY <1>4, <1>5, <1>6

(* The first deposit: at least the minimum liquidity is counted.           *)
LEMMA SeedKeeps ==
  ASSUME IInv, NEW a \in Tokens, NEW b \in Tokens,
         NEW x \in Amounts, NEW y \in Amounts, NEW m \in Amounts,
         Seed(a, b, x, y, m)
  PROVE  IInv'
<1>1. x \in 1..Max /\ y \in 1..Max
  BY PoolAssumption DEF Seed
<1>2. total_supply' \in MINIMUM_LIQUIDITY..Max
  BY DEF Seed
<1>3. pair' \in Tokens \X Tokens /\ pair' # NoPair
  BY PoolAssumption DEF Seed
<1>4. PoolTypeOK'
  <2>1. version' \in 1..MaxVersion /\ applied' = applied
    BY PoolAssumption DEF Seed, CONTRACT_VERSION
  <2>2. total_supply' \in 0..Max
    BY <1>2, PoolAssumption
  <2>3. reserve_a' \in 0..Max /\ reserve_b' \in 0..Max
    BY <1>1 DEF Seed
  <2> QED BY <1>3, <2>1, <2>2, <2>3 DEF IInv, PoolTypeOK
<1>5. PoolAlive'
  BY <1>1, <1>2, <1>3, PoolAssumption DEF Seed, PoolAlive
<1> QED BY <1>4, <1>5 DEF IInv

(* What a deposit mints, and that it is no more than either side brings.   *)
LEMMA DepositMints ==
  ASSUME IInv, NEW x \in Amounts, NEW y \in Amounts, NEW m \in Amounts,
         AddLiquidity(x, y, m)
  PROVE  \E minted \in Nat :
           /\ total_supply' = total_supply + minted
           /\ total_supply + minted <= Max
           /\ minted * reserve_a <= x * total_supply
           /\ minted * reserve_b <= y * total_supply
<1> DEFINE minted == calculate_liquidity_mint(x, y)
           sa == share(x, reserve_a)
           sb == share(y, reserve_b)
<1>1. /\ x \in Nat /\ y \in Nat /\ total_supply \in Nat
      /\ reserve_a \in Nat \ {0} /\ reserve_b \in Nat \ {0}
  BY PoolAssumption DEF IInv, PoolTypeOK, AddLiquidity
<1>2. x * total_supply \in Nat /\ y * total_supply \in Nat
  BY <1>1
<1>3. sa \in Nat /\ sa * reserve_a <= x * total_supply
  BY <1>1, <1>2, QuotientBound DEF share
<1>4. sb \in Nat /\ sb * reserve_b <= y * total_supply
  BY <1>1, <1>2, QuotientBound DEF share
<1>5. minted = (IF sa < sb THEN sa ELSE sb)
  BY DEF calculate_liquidity_mint
<1>6. total_supply' = total_supply + minted /\ total_supply + minted <= Max
  BY DEF AddLiquidity
<1> HIDE DEF minted, sa, sb
<1>7. minted \in Nat /\ minted <= sa /\ minted <= sb
  BY <1>3, <1>4, <1>5
<1>8. minted * reserve_a <= sa * reserve_a /\ minted * reserve_b <= sb * reserve_b
  BY <1>1, <1>3, <1>4, <1>7, ProductMonotone
<1>9. /\ minted * reserve_a \in Nat /\ sa * reserve_a \in Nat
      /\ minted * reserve_b \in Nat /\ sb * reserve_b \in Nat
  BY <1>1, <1>3, <1>4, <1>7
<1>10. minted * reserve_a <= x * total_supply /\ minted * reserve_b <= y * total_supply
  BY <1>2, <1>3, <1>4, <1>8, <1>9
<1> QED BY <1>6, <1>7, <1>10

LEMMA DepositKeeps ==
  ASSUME IInv, NEW x \in Amounts, NEW y \in Amounts, NEW m \in Amounts,
         AddLiquidity(x, y, m)
  PROVE  IInv'
<1>1. PICK minted \in Nat : /\ total_supply' = total_supply + minted
                            /\ total_supply + minted <= Max
  BY DepositMints
<1>2. x \in 0..Max /\ y \in 0..Max
  BY PoolAssumption
<1>3. PoolTypeOK'
  <2>1. total_supply' \in 0..Max
    BY <1>1, PoolAssumption DEF IInv, PoolTypeOK
  <2>2. reserve_a' \in 0..Max /\ reserve_b' \in 0..Max
    BY <1>2, PoolAssumption DEF AddLiquidity, IInv, PoolTypeOK
  <2> QED BY <2>1, <2>2 DEF AddLiquidity, IInv, PoolTypeOK
<1>4. PoolAlive'
  <2>1. pair' = pair /\ pair # NoPair
    BY DEF AddLiquidity, IInv, PoolAlive
  <2>2. reserve_a' > 0 /\ reserve_b' > 0
    BY <1>2, PoolAssumption DEF AddLiquidity, IInv, PoolTypeOK
  <2>3. total_supply' >= MINIMUM_LIQUIDITY
    BY <1>1, <2>1, PoolAssumption DEF IInv, PoolTypeOK, PoolAlive
  <2> QED BY <2>1, <2>2, <2>3 DEF PoolAlive
<1> QED BY <1>3, <1>4 DEF IInv

(* A withdrawal takes from each reserve less than all of it.               *)
LEMMA WithdrawalTakes ==
  ASSUME IInv, NEW lp \in Amounts, NEW m \in Amounts, NEW n \in Amounts,
         RemoveLiquidity(lp, m, n)
  PROVE  /\ lp \in Nat /\ lp < total_supply
         /\ reserve_a > 0 /\ reserve_b > 0
         /\ proportional_amount(reserve_a, lp) \in Nat
         /\ proportional_amount(reserve_a, lp) < reserve_a
         /\ proportional_amount(reserve_b, lp) \in Nat
         /\ proportional_amount(reserve_b, lp) < reserve_b
<1>1. /\ lp \in Nat /\ total_supply \in Nat \ {0}
      /\ reserve_a \in Nat /\ reserve_b \in Nat
  BY PoolAssumption DEF IInv, PoolTypeOK, RemoveLiquidity
<1>2. lp < total_supply
  BY <1>1, PoolAssumption DEF RemoveLiquidity, burnable
<1>3. reserve_a \in Nat \ {0} /\ reserve_b \in Nat \ {0}
  BY <1>1 DEF RemoveLiquidity, IInv, PoolAlive
<1>4. /\ (reserve_a * lp) \div total_supply \in Nat
      /\ (reserve_a * lp) \div total_supply < reserve_a
  BY <1>1, <1>2, <1>3, PartIsSmaller
<1>5. /\ (reserve_b * lp) \div total_supply \in Nat
      /\ (reserve_b * lp) \div total_supply < reserve_b
  BY <1>1, <1>2, <1>3, PartIsSmaller
<1> QED BY <1>1, <1>2, <1>3, <1>4, <1>5 DEF proportional_amount

LEMMA WithdrawalKeeps ==
  ASSUME IInv, NEW lp \in Amounts, NEW m \in Amounts, NEW n \in Amounts,
         RemoveLiquidity(lp, m, n)
  PROVE  IInv'
<1> DEFINE taken_a == proportional_amount(reserve_a, lp)
           taken_b == proportional_amount(reserve_b, lp)
<1>1. /\ lp \in Nat /\ lp < total_supply
      /\ taken_a \in Nat /\ taken_a < reserve_a
      /\ taken_b \in Nat /\ taken_b < reserve_b
  BY WithdrawalTakes
<1>2. /\ reserve_a' = reserve_a - taken_a
      /\ reserve_b' = reserve_b - taken_b
      /\ total_supply' = total_supply - lp
      /\ pair' = pair /\ version' = version /\ applied' = applied
  BY DEF RemoveLiquidity
<1>3. total_supply' >= MINIMUM_LIQUIDITY
  BY <1>2 DEF RemoveLiquidity, burnable
<1>4. pair # NoPair
  BY DEF RemoveLiquidity, IInv, PoolAlive
<1> HIDE DEF taken_a, taken_b
<1>5. /\ reserve_a' \in 1..Max /\ reserve_b' \in 1..Max
      /\ total_supply' \in 0..Max
  BY <1>1, <1>2, PoolAssumption DEF IInv, PoolTypeOK
<1> QED BY <1>2, <1>3, <1>4, <1>5 DEF IInv, PoolTypeOK, PoolAlive

(* A swap, refused or not, leaves both reserves positive.                  *)
LEMMA SwapAKeeps ==
  ASSUME IInv, NEW x \in Amounts, NEW m \in Amounts, SwapA(x, m)
  PROVE  IInv'
<1> DEFINE out == execute_swap(reserve_a, reserve_b, x, m)
<1>1. reserve_a \in 1..Max /\ reserve_b \in 1..Max /\ x \in Nat \ {0}
  BY PoolAssumption DEF SwapA, IInv, PoolTypeOK, PoolAlive
<1>2. out \in Nat /\ out < reserve_b
  BY <1>1, SwapOutput
<1>3. /\ pair' = pair /\ pair # NoPair
      /\ total_supply' = total_supply /\ version' = version /\ applied' = applied
      /\ reserve_a' = reserve_a + x /\ reserve_a + x <= Max
      /\ reserve_b' = reserve_b - out
  BY DEF SwapA
<1> HIDE DEF out
<1>4. reserve_a' \in 1..Max /\ reserve_b' \in 1..Max
  BY <1>1, <1>2, <1>3, PoolAssumption
<1> QED BY <1>3, <1>4 DEF IInv, PoolTypeOK, PoolAlive

LEMMA SwapBKeeps ==
  ASSUME IInv, NEW x \in Amounts, NEW m \in Amounts, SwapB(x, m)
  PROVE  IInv'
<1> DEFINE out == execute_swap(reserve_b, reserve_a, x, m)
<1>1. reserve_a \in 1..Max /\ reserve_b \in 1..Max /\ x \in Nat \ {0}
  BY PoolAssumption DEF SwapB, IInv, PoolTypeOK, PoolAlive
<1>2. out \in Nat /\ out < reserve_a
  BY <1>1, SwapOutput
<1>3. /\ pair' = pair /\ pair # NoPair
      /\ total_supply' = total_supply /\ version' = version /\ applied' = applied
      /\ reserve_b' = reserve_b + x /\ reserve_b + x <= Max
      /\ reserve_a' = reserve_a - out
  BY DEF SwapB
<1> HIDE DEF out
<1>4. reserve_a' \in 1..Max /\ reserve_b' \in 1..Max
  BY <1>1, <1>2, <1>3, PoolAssumption
<1> QED BY <1>3, <1>4 DEF IInv, PoolTypeOK, PoolAlive

LEMMA MigrateKeeps ==
  ASSUME IInv, NEW v \in 1..MaxVersion, Migrate(v)
  PROVE  IInv'
<1>1. version' \in 1..MaxVersion
  BY PoolAssumption DEF Migrate, IInv, PoolTypeOK
<1>2. applied' \in Seq(1..MaxVersion)
  BY DEF Migrate, IInv, PoolTypeOK
<1> QED BY <1>1, <1>2 DEF Migrate, poolState, IInv, PoolTypeOK, PoolAlive

LEMMA StepIsGood == IInv /\ [Next]_vars => IInv'
<1> SUFFICES ASSUME IInv, [Next]_vars PROVE IInv'
  OBVIOUS
<1>1. ASSUME NEW x \in Amounts, NEW y \in Amounts, NEW m \in Amounts,
             NEW a \in Tokens, NEW b \in Tokens, Seed(a, b, x, y, m)
      PROVE  IInv'
  BY <1>1, SeedKeeps
<1>2. ASSUME NEW x \in Amounts, NEW y \in Amounts, NEW m \in Amounts,
             AddLiquidity(x, y, m)
      PROVE  IInv'
  BY <1>2, DepositKeeps
<1>3. ASSUME NEW x \in Amounts, NEW y \in Amounts, NEW m \in Amounts,
             RemoveLiquidity(x, y, m)
      PROVE  IInv'
  BY <1>3, WithdrawalKeeps
<1>4. ASSUME NEW x \in Amounts, NEW m \in Amounts, SwapA(x, m) PROVE IInv'
  BY <1>4, SwapAKeeps
<1>5. ASSUME NEW x \in Amounts, NEW m \in Amounts, SwapB(x, m) PROVE IInv'
  BY <1>5, SwapBKeeps
<1>6. ASSUME NEW v \in 1..MaxVersion, Migrate(v) PROVE IInv'
  BY <1>6, MigrateKeeps
<1>7. CASE UNCHANGED vars
  BY <1>7 DEF vars, IInv, PoolTypeOK, PoolAlive
<1> QED BY <1>1, <1>2, <1>3, <1>4, <1>5, <1>6, <1>7 DEF Next

LEMMA Invariance == Spec => []IInv
BY InitIsGood, StepIsGood, PTL DEF Spec

(* For every width of the amounts and every minimum liquidity, no checked  *)
(* operation stores a value outside it.                                    *)
THEOREM PoolTypes == Spec => []PoolTypeOK
<1>1. IInv => PoolTypeOK
  BY DEF IInv
<1> QED BY <1>1, Invariance, PTL

(* A seeded pool stays seeded, with both reserves and the locked minimum.  *)
THEOREM PoolStaysAlive == Spec => []PoolAlive
<1>1. IInv => PoolAlive
  BY DEF IInv
<1> QED BY <1>1, Invariance, PTL

-----------------------------------------------------------------------------
(* What an LP token is worth.                                              *)

LEMMA DepositDilutesNone ==
  ASSUME IInv, NEW x \in Amounts, NEW y \in Amounts, NEW m \in Amounts,
         AddLiquidity(x, y, m)
  PROVE  reserve_a' * reserve_b' * total_supply * total_supply
           >= reserve_a * reserve_b * total_supply' * total_supply'
<1>1. PICK minted \in Nat :
        /\ total_supply' = total_supply + minted
        /\ minted * reserve_a <= x * total_supply
        /\ minted * reserve_b <= y * total_supply
  BY DepositMints
<1>2. /\ reserve_a \in Nat /\ reserve_b \in Nat /\ total_supply \in Nat
      /\ x \in Nat /\ y \in Nat
  BY PoolAssumption DEF IInv, PoolTypeOK
<1>3. reserve_a' = reserve_a + x /\ reserve_b' = reserve_b + y
  BY DEF AddLiquidity
<1>4. ASSUME NEW r \in Nat, NEW z \in Nat, minted * r <= z * total_supply
      PROVE  (r + z) * total_supply >= r * (total_supply + minted)
  <2>1. (r + z) * total_supply = r * total_supply + z * total_supply
    BY <1>2
  <2>2. r * (total_supply + minted) = r * total_supply + minted * r
    BY <1>1, <1>2
  <2>3. r * total_supply \in Nat /\ z * total_supply \in Nat /\ minted * r \in Nat
    BY <1>1, <1>2
  <2> QED BY <1>4, <2>1, <2>2, <2>3
<1>5. /\ (reserve_a + x) * total_supply >= reserve_a * (total_supply + minted)
      /\ (reserve_b + y) * total_supply >= reserve_b * (total_supply + minted)
  BY <1>1, <1>2, <1>4
<1>6. reserve_a + x \in Nat /\ reserve_b + y \in Nat /\ total_supply + minted \in Nat
  BY <1>1, <1>2
<1>7. (reserve_a + x) * (reserve_b + y) * total_supply * total_supply
        >= reserve_a * reserve_b * (total_supply + minted) * (total_supply + minted)
  BY <1>2, <1>5, <1>6, GainsMultiply
<1> QED BY <1>1, <1>3, <1>7

LEMMA WithdrawalDilutesNone ==
  ASSUME IInv, NEW lp \in Amounts, NEW m \in Amounts, NEW n \in Amounts,
         RemoveLiquidity(lp, m, n)
  PROVE  reserve_a' * reserve_b' * total_supply * total_supply
           >= reserve_a * reserve_b * total_supply' * total_supply'
<1> DEFINE taken_a == proportional_amount(reserve_a, lp)
           taken_b == proportional_amount(reserve_b, lp)
<1>1. /\ reserve_a \in Nat /\ reserve_b \in Nat /\ total_supply \in Nat \ {0}
      /\ lp \in Nat /\ lp < total_supply
      /\ taken_a \in Nat /\ taken_a < reserve_a
      /\ taken_b \in Nat /\ taken_b < reserve_b
  BY WithdrawalTakes, PoolAssumption DEF IInv, PoolTypeOK, RemoveLiquidity
<1>2. /\ reserve_a' = reserve_a - taken_a
      /\ reserve_b' = reserve_b - taken_b
      /\ total_supply' = total_supply - lp
  BY DEF RemoveLiquidity
<1>3. taken_a * total_supply <= reserve_a * lp
  BY <1>1, QuotientBound DEF proportional_amount
<1>4. taken_b * total_supply <= reserve_b * lp
  BY <1>1, QuotientBound DEF proportional_amount
<1> HIDE DEF taken_a, taken_b
<1>5. ASSUME NEW r \in Nat, NEW z \in Nat, z * total_supply <= r * lp
      PROVE  (r - z) * total_supply >= r * (total_supply - lp)
  <2>1. (r - z) * total_supply = r * total_supply - z * total_supply
    BY <1>1
  <2>2. r * (total_supply - lp) = r * total_supply - r * lp
    BY <1>1
  <2>3. r * total_supply \in Nat /\ z * total_supply \in Nat /\ r * lp \in Nat
    BY <1>1
  <2> QED BY <1>5, <2>1, <2>2, <2>3
<1>6. /\ (reserve_a - taken_a) * total_supply >= reserve_a * (total_supply - lp)
      /\ (reserve_b - taken_b) * total_supply >= reserve_b * (total_supply - lp)
  BY <1>1, <1>3, <1>4, <1>5
<1>7. reserve_a - taken_a \in Nat /\ reserve_b - taken_b \in Nat /\ total_supply - lp \in Nat
  BY <1>1
<1>8. (reserve_a - taken_a) * (reserve_b - taken_b) * total_supply * total_supply
        >= reserve_a * reserve_b * (total_supply - lp) * (total_supply - lp)
  BY <1>1, <1>6, <1>7, GainsMultiply
<1> QED BY <1>2, <1>8

(* Reserves whose product does not fall, under a supply that is kept.      *)
LEMMA ProductDilutesNone ==
  ASSUME NEW a \in Nat, NEW b \in Nat, NEW a1 \in Nat, NEW b1 \in Nat,
         NEW t \in Nat, a1 * b1 >= a * b
  PROVE  a1 * b1 * t * t >= a * b * t * t
<1>1. a1 * b1 \in Nat /\ a * b \in Nat /\ t * t \in Nat
  OBVIOUS
<1>2. (a1 * b1) * (t * t) >= (a * b) * (t * t)
  BY <1>1, ProductMonotone
<1>3. a1 * b1 * t * t = (a1 * b1) * (t * t) /\ a * b * t * t = (a * b) * (t * t)
  OBVIOUS
<1> QED BY <1>2, <1>3

LEMMA SwapADilutesNone ==
  ASSUME IInv, NEW x \in Amounts, NEW m \in Amounts, SwapA(x, m)
  PROVE  reserve_a' * reserve_b' * total_supply * total_supply
           >= reserve_a * reserve_b * total_supply' * total_supply'
<1> DEFINE out == execute_swap(reserve_a, reserve_b, x, m)
<1>1. /\ reserve_a \in 1..Max /\ reserve_b \in 1..Max /\ x \in Nat \ {0}
      /\ total_supply \in Nat
  BY PoolAssumption DEF SwapA, IInv, PoolTypeOK, PoolAlive
<1>2. out \in Nat /\ out < reserve_b /\ out * (reserve_a + x) <= x * reserve_b
  BY <1>1, SwapOutput
<1>3. /\ reserve_a' = reserve_a + x /\ reserve_b' = reserve_b - out
      /\ total_supply' = total_supply
  BY DEF SwapA
<1> HIDE DEF out
<1>4. (reserve_a + x) * (reserve_b - out) >= reserve_a * reserve_b
  BY <1>1, <1>2, SwapKeepsProduct
<1>5. /\ reserve_a + x \in Nat /\ reserve_b - out \in Nat
      /\ reserve_a \in Nat /\ reserve_b \in Nat
  BY <1>1, <1>2
<1>6. (reserve_a + x) * (reserve_b - out) * total_supply * total_supply
        >= reserve_a * reserve_b * total_supply * total_supply
  BY <1>1, <1>4, <1>5, ProductDilutesNone
<1> QED BY <1>3, <1>6

LEMMA SwapBDilutesNone ==
  ASSUME IInv, NEW x \in Amounts, NEW m \in Amounts, SwapB(x, m)
  PROVE  reserve_a' * reserve_b' * total_supply * total_supply
           >= reserve_a * reserve_b * total_supply' * total_supply'
<1> DEFINE out == execute_swap(reserve_b, reserve_a, x, m)
<1>1. /\ reserve_a \in 1..Max /\ reserve_b \in 1..Max /\ x \in Nat \ {0}
      /\ total_supply \in Nat
  BY PoolAssumption DEF SwapB, IInv, PoolTypeOK, PoolAlive
<1>2. out \in Nat /\ out < reserve_a /\ out * (reserve_b + x) <= x * reserve_a
  BY <1>1, SwapOutput
<1>3. /\ reserve_b' = reserve_b + x /\ reserve_a' = reserve_a - out
      /\ total_supply' = total_supply
  BY DEF SwapB
<1> HIDE DEF out
<1>4. (reserve_b + x) * (reserve_a - out) >= reserve_b * reserve_a
  BY <1>1, <1>2, SwapKeepsProduct
<1>5. /\ reserve_b + x \in Nat /\ reserve_a - out \in Nat
      /\ reserve_a \in Nat /\ reserve_b \in Nat
  BY <1>1, <1>2
<1>6. (reserve_a - out) * (reserve_b + x) >= reserve_a * reserve_b
  <2>1. /\ (reserve_a - out) * (reserve_b + x) = (reserve_b + x) * (reserve_a - out)
        /\ reserve_a * reserve_b = reserve_b * reserve_a
    BY <1>5
  <2> QED BY <1>4, <2>1
<1>7. (reserve_a - out) * (reserve_b + x) * total_supply * total_supply
        >= reserve_a * reserve_b * total_supply * total_supply
  BY <1>1, <1>5, <1>6, ProductDilutesNone
<1> QED BY <1>3, <1>7

(* No deposit, withdrawal, swap or migration of a seeded pool makes an LP  *)
(* token worth less, whatever the amounts: the pool is never seeded twice, *)
(* and every division rounds for those who stay.                           *)
THEOREM NoDilution == Spec => ShareNeverDiluted
<1> DEFINE Kept == reserve_a' * reserve_b' * total_supply * total_supply
                     >= reserve_a * reserve_b * total_supply' * total_supply'
<1>1. IInv /\ [Next]_vars => [pair # NoPair => Kept]_vars
  <2> SUFFICES ASSUME IInv, Next, pair # NoPair PROVE Kept
    OBVIOUS
  <2>1. ASSUME NEW x \in Amounts, NEW y \in Amounts, NEW m \in Amounts,
               NEW a \in Tokens, NEW b \in Tokens, Seed(a, b, x, y, m)
        PROVE  Kept
    <3>1. total_supply = 0 /\ total_supply >= MINIMUM_LIQUIDITY
      BY <2>1 DEF Seed, IInv, PoolAlive
    <3> QED BY <3>1, PoolAssumption
  <2>2. ASSUME NEW x \in Amounts, NEW y \in Amounts, NEW m \in Amounts,
               AddLiquidity(x, y, m)
        PROVE  Kept
    BY <2>2, DepositDilutesNone
  <2>3. ASSUME NEW x \in Amounts, NEW y \in Amounts, NEW m \in Amounts,
               RemoveLiquidity(x, y, m)
        PROVE  Kept
    BY <2>3, WithdrawalDilutesNone
  <2>4. ASSUME NEW x \in Amounts, NEW m \in Amounts, SwapA(x, m) PROVE Kept
    BY <2>4, SwapADilutesNone
  <2>5. ASSUME NEW x \in Amounts, NEW m \in Amounts, SwapB(x, m) PROVE Kept
    BY <2>5, SwapBDilutesNone
  <2>6. ASSUME NEW v \in 1..MaxVersion, Migrate(v) PROVE Kept
    <3>1. /\ reserve_a' = reserve_a /\ reserve_b' = reserve_b
          /\ total_supply' = total_supply
      BY <2>6 DEF Migrate, poolState
    <3>2. reserve_a * reserve_b * total_supply * total_supply \in Nat
      BY DEF IInv, PoolTypeOK
    <3> QED BY <3>1, <3>2
  <2> QED BY <2>1, <2>2, <2>3, <2>4, <2>5, <2>6 DEF Next
<1> HIDE DEF Kept
<1>2. Spec => [][pair # NoPair => Kept]_vars
  BY <1>1, Invariance, PTL DEF Spec
<1> QED BY <1>2 DEF Kept, ShareNeverDiluted
=============================================================================
