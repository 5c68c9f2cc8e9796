------------------------- MODULE ArithmeticTheorems -------------------------
(***************************************************************************)
(* The arithmetic the other proofs rest on.                                *)
(*                                                                         *)
(* Laws of Tally, each for every finite set and every natural-valued       *)
(* function: its type, its value on a function that is zero on the set,    *)
(* bounds, and how it moves with the function and with the set.            *)
(*                                                                         *)
(* Facts about the operators of Pricing and of FeePreview, for every       *)
(* amount, every book and every fee curve.                                 *)
(***************************************************************************)
EXTENDS PricingGrid, FeePreview, Tally, FiniteSetTheorems, FunctionTheorems, TLAPS

(***************************************************************************)
(* One element contributes finitely many units: exactly f[k] of them.      *)
(***************************************************************************)
LEMMA UnitsAt ==
  ASSUME NEW k, NEW n \in Nat
  PROVE  /\ IsFiniteSet({k} \X (1 .. n))
         /\ Cardinality({k} \X (1 .. n)) = n
<1>1. IsFiniteSet({k}) /\ Cardinality({k}) = 1
  BY FS_Singleton
<1>2. IsFiniteSet(1 .. n) /\ Cardinality(1 .. n) = n
  BY FS_Interval
<1>3. /\ IsFiniteSet({k} \X (1 .. n))
      /\ Cardinality({k} \X (1 .. n)) = Cardinality({k}) * Cardinality(1 .. n)
  BY <1>1, <1>2, FS_Product
<1> QED BY <1>1, <1>2, <1>3

(***************************************************************************)
(* The units of a natural-valued function over a finite set are finite.    *)
(***************************************************************************)
LEMMA UnitsFinite ==
  ASSUME NEW S, IsFiniteSet(S), NEW f, \A k \in S : f[k] \in Nat
  PROVE  IsFiniteSet(Units(f, S))
<1> DEFINE Blocks == {{k} \X (1 .. f[k]) : k \in S}
           g == [k \in S |-> {k} \X (1 .. f[k])]
<1>1. g \in Surjection(S, Blocks)
  BY DEF Surjection
<1>2. IsFiniteSet(Blocks)
  BY <1>1, FS_Surjection
<1>3. \A B \in Blocks : IsFiniteSet(B)
  <2>1. SUFFICES ASSUME NEW k \in S
                 PROVE  IsFiniteSet({k} \X (1 .. f[k]))
    OBVIOUS
  <2>2. f[k] \in Nat
    OBVIOUS
  <2> QED BY <2>2, UnitsAt
<1> HIDE DEF Blocks
<1>4. IsFiniteSet(UNION Blocks)
  BY <1>2, <1>3, FS_UNION
<1> QED BY <1>4 DEF Units, Blocks

(***************************************************************************)
(* A tally is a natural number.                                            *)
(***************************************************************************)
LEMMA TallyType ==
  ASSUME NEW S, IsFiniteSet(S), NEW f, \A k \in S : f[k] \in Nat
  PROVE  Tally(f, S) \in Nat
BY UnitsFinite, FS_CardinalityType DEF Tally

(***************************************************************************)
(* A function that is zero everywhere on the set has tally zero.           *)
(***************************************************************************)
LEMMA TallyZero ==
  ASSUME NEW S, NEW f, \A k \in S : f[k] = 0
  PROVE  Tally(f, S) = 0
<1>1. Units(f, S) = {}
  BY DEF Units
<1> QED BY <1>1, FS_EmptySet DEF Tally

(***************************************************************************)
(* Splitting one element off: its value plus the tally of the others.      *)
(***************************************************************************)
LEMMA TallySplit ==
  ASSUME NEW S, IsFiniteSet(S), NEW f, \A k \in S : f[k] \in Nat, NEW j \in S
  PROVE  Tally(f, S) = f[j] + Tally(f, S \ {j})
<1> DEFINE A == {j} \X (1 .. f[j])
           B == Units(f, S \ {j})
<1>1. Units(f, S) = A \cup B
  BY DEF Units
<1>2. A \cap B = {}
  BY DEF Units
<1>3. IsFiniteSet(A) /\ Cardinality(A) = f[j]
  BY UnitsAt
<1>4. IsFiniteSet(S \ {j})
  BY FS_RemoveElement
<1>5. IsFiniteSet(B)
  BY <1>4, UnitsFinite
<1>6. Cardinality(B) \in Nat
  BY <1>5, FS_CardinalityType
<1> HIDE DEF A, B
<1>7. Cardinality(A \cup B) = Cardinality(A) + Cardinality(B) - Cardinality(A \cap B)
  BY <1>3, <1>5, FS_Union
<1>8. Cardinality(A \cap B) = 0
  BY <1>2, FS_EmptySet
<1>9. Tally(f, S) = Cardinality(A \cup B) /\ Tally(f, S \ {j}) = Cardinality(B)
  BY <1>1 DEF Tally, B
<1> QED BY <1>3, <1>6, <1>7, <1>8, <1>9

(***************************************************************************)
(* A tally depends only on the values on its set.                          *)
(***************************************************************************)
LEMMA TallySame ==
  ASSUME NEW S, NEW f, NEW g, \A k \in S : f[k] = g[k]
  PROVE  Tally(f, S) = Tally(g, S)
<1>1. Units(f, S) = Units(g, S)
  BY DEF Units
<1> QED BY <1>1 DEF Tally

(***************************************************************************)
(* No element exceeds the tally.                                           *)
(***************************************************************************)
LEMMA TallyMember ==
  ASSUME NEW S, IsFiniteSet(S), NEW f, \A k \in S : f[k] \in Nat, NEW j \in S
  PROVE  f[j] <= Tally(f, S)
<1>1. IsFiniteSet(S \ {j})
  BY FS_RemoveElement
<1>2. Tally(f, S \ {j}) \in Nat
  BY <1>1, TallyType
<1> QED BY <1>2, TallySplit

(***************************************************************************)
(* Changing the function at one point of the set moves the tally by        *)
(* exactly the difference.                                                 *)
(***************************************************************************)
LEMMA TallyUpdate ==
  ASSUME NEW S, IsFiniteSet(S), NEW j \in S,
         NEW f, \A k \in S : f[k] \in Nat,
         NEW g, g[j] \in Nat, \A k \in S \ {j} : g[k] = f[k]
  PROVE  Tally(g, S) = Tally(f, S) - f[j] + g[j]
<1>1. Tally(g, S) = g[j] + Tally(g, S \ {j})
  BY TallySplit
<1>2. Tally(f, S) = f[j] + Tally(f, S \ {j})
  BY TallySplit
<1>3. Tally(g, S \ {j}) = Tally(f, S \ {j})
  BY TallySame
<1>4. IsFiniteSet(S \ {j})
  BY FS_RemoveElement
<1>5. Tally(f, S \ {j}) \in Nat
  BY <1>4, TallyType
<1> QED BY <1>1, <1>2, <1>3, <1>5

(***************************************************************************)
(* Elements whose value is zero do not count: a tally is the same over two *)
(* sets that differ in such elements only.                                 *)
(***************************************************************************)
LEMMA TallySupport ==
  ASSUME NEW S, NEW T, NEW f, NEW g,
         \A k \in S \cap T : f[k] = g[k],
         \A k \in S \ T : f[k] = 0,
         \A k \in T \ S : g[k] = 0
  PROVE  Tally(f, S) = Tally(g, T)
<1>1. ASSUME NEW u \in Units(f, S) PROVE u \in Units(g, T)
  <2>1. PICK k \in S : u \in {k} \X (1 .. f[k])
    BY DEF Units
  <2>2. k \in T
    BY <2>1
  <2> QED BY <2>1, <2>2 DEF Units
<1>2. ASSUME NEW u \in Units(g, T) PROVE u \in Units(f, S)
  <2>1. PICK k \in T : u \in {k} \X (1 .. g[k])
    BY DEF Units
  <2>2. k \in S
    BY <2>1
  <2> QED BY <2>1, <2>2 DEF Units
<1>3. Units(f, S) = Units(g, T)
  BY <1>1, <1>2
<1> QED BY <1>3 DEF Tally

\* A tally over fewer elements is no larger.
LEMMA TallyMonotone ==
  ASSUME NEW T, IsFiniteSet(T), NEW S \in SUBSET T, NEW f, \A k \in T : f[k] \in Nat
  PROVE  Tally(f, S) <= Tally(f, T)
<1>1. IsFiniteSet(Units(f, T))
  BY UnitsFinite
<1>2. Units(f, S) \subseteq Units(f, T)
  BY DEF Units
<1> QED BY <1>1, <1>2, FS_Subset DEF Tally

\* A tally over a set covered by two others is at most the sum of theirs.
LEMMA TallyCovered ==
  ASSUME NEW A, IsFiniteSet(A), NEW B, IsFiniteSet(B), NEW S \in SUBSET (A \cup B),
         NEW f, \A k \in A \cup B : f[k] \in Nat
  PROVE  Tally(f, S) <= Tally(f, A) + Tally(f, B)
<1> DEFINE U == Units(f, A)
           V == Units(f, B)
<1>1. IsFiniteSet(U) /\ IsFiniteSet(V)
  BY UnitsFinite
<1>2. Units(f, S) \subseteq U \cup V
  BY DEF Units
<1>3. Tally(f, S) = Cardinality(Units(f, S)) /\ Tally(f, A) = Cardinality(U)
      /\ Tally(f, B) = Cardinality(V)
  BY DEF Tally
<1> HIDE DEF U, V
<1>4. /\ IsFiniteSet(U \cup V)
      /\ Cardinality(U \cup V) = Cardinality(U) + Cardinality(V) - Cardinality(U \cap V)
  BY <1>1, FS_Union
<1>5. Cardinality(Units(f, S)) \in Nat /\ Cardinality(Units(f, S)) <= Cardinality(U \cup V)
  BY <1>2, <1>4, FS_Subset, FS_CardinalityType
<1>6. IsFiniteSet(U \cap V)
  BY <1>1, FS_Subset
<1>7. Cardinality(U) \in Nat /\ Cardinality(V) \in Nat /\ Cardinality(U \cap V) \in Nat
  BY <1>1, <1>6, FS_CardinalityType
<1> QED BY <1>3, <1>4, <1>5, <1>7

-----------------------------------------------------------------------------
(* Integers. *)

(***************************************************************************)
(* Floor division: the quotient is a natural number and the best one whose *)
(* product with the divisor does not exceed the dividend.                  *)
(***************************************************************************)
LEMMA FloorDivision ==
  ASSUME NEW a \in Nat, NEW b \in Nat \ {0}
  PROVE  /\ a \div b \in Nat
         /\ (a \div b) * b <= a
         /\ a < (a \div b + 1) * b
OBVIOUS

\* A quotient is at most any natural whose product with the divisor reaches the dividend.
LEMMA FloorBelow ==
  ASSUME NEW a \in Nat, NEW b \in Nat \ {0}, NEW c \in Nat, a <= c * b
  PROVE  a \div b <= c
OBVIOUS

\* A natural number whose product with b is at most a is at most the quotient.
LEMMA FloorAbove ==
  ASSUME NEW a \in Nat, NEW b \in Nat \ {0}, NEW c \in Nat, c * b <= a
  PROVE  c <= a \div b
OBVIOUS

\* A quotient grows with its dividend.
LEMMA QuotientMonotone ==
  ASSUME NEW a \in Nat, NEW b \in Nat, NEW c \in Nat \ {0}, a <= b
  PROVE  a \div c <= b \div c
OBVIOUS

\* A product of naturals is a natural.
LEMMA ProductNat ==
  ASSUME NEW a \in Nat, NEW b \in Nat
  PROVE  a * b \in Nat
OBVIOUS

\* A product grows with its factors.
LEMMA ProductMonotone ==
  ASSUME NEW a \in Nat, NEW b \in Nat, NEW c \in Nat, a <= b
  PROVE  a * c <= b * c
OBVIOUS

\* A common positive factor can be cancelled from an inequality.
LEMMA CancelFactor ==
  ASSUME NEW a \in Nat, NEW b \in Nat, NEW c \in Nat \ {0}, a * c <= b * c
  PROVE  a <= b
OBVIOUS

-----------------------------------------------------------------------------
(* Share math. *)

\* The virtual offsets of the share math keep divisors positive.
LEMMA OffsetsPositive ==
  ASSUME NEW total_assets \in Nat, NEW total_shares \in Nat
  PROVE  /\ AssetsOff(total_assets) \in Nat \ {0}
         /\ SharesOff(total_shares) \in Nat \ {0}
BY PricingAssumption DEF AssetsOff, SharesOff

(***************************************************************************)
(* The shares minted by a deposit are worth at most the deposit, and the   *)
(* assets paid by a redemption at most the shares, at the price before it. *)
(***************************************************************************)
LEMMA DepositRoundsDown ==
  ASSUME NEW amount \in Nat, NEW total_assets \in Nat, NEW total_shares \in Nat
  PROVE  /\ preview_deposit(amount, total_assets, total_shares) \in Nat
         /\ preview_deposit(amount, total_assets, total_shares)
              * AssetsOff(total_assets)
              <= amount * SharesOff(total_shares)
<1>1. amount * SharesOff(total_shares) \in Nat
  BY OffsetsPositive, ProductNat
<1> QED BY <1>1, OffsetsPositive, FloorDivision DEF preview_deposit

\* preview_redeem never pays more than the exact share of the assets.
LEMMA RedeemRoundsDown ==
  ASSUME NEW shares \in Nat, NEW total_assets \in Nat, NEW total_shares \in Nat
  PROVE  /\ preview_redeem(shares, total_assets, total_shares) \in Nat
         /\ preview_redeem(shares, total_assets, total_shares)
              * SharesOff(total_shares)
              <= shares * AssetsOff(total_assets)
<1>1. shares * AssetsOff(total_assets) \in Nat
  BY OffsetsPositive, ProductNat
<1> QED BY <1>1, OffsetsPositive, FloorDivision DEF preview_redeem

(***************************************************************************)
(* Depositing and redeeming at once never returns more than was deposited, *)
(* for every state of the books (TESTING_PLAN.md T-POOL-02).               *)
(***************************************************************************)
THEOREM RoundTrip ==
  ASSUME NEW amount \in Nat, NEW total_assets \in Nat, NEW total_shares \in Nat
  PROVE  LET minted == preview_deposit(amount, total_assets, total_shares)
         IN preview_redeem(minted, total_assets + amount, total_shares + minted)
              <= amount
<1> DEFINE minted == preview_deposit(amount, total_assets, total_shares)
           A == AssetsOff(total_assets)
           S == SharesOff(total_shares)
<1>1. A \in Nat \ {0} /\ S \in Nat \ {0}
  BY OffsetsPositive
<1>2. minted \in Nat /\ minted * A <= amount * S
  BY DepositRoundsDown
<1>3. /\ AssetsOff(total_assets + amount) = A + amount
      /\ SharesOff(total_shares + minted) = S + minted
  BY <1>2, PricingAssumption DEF AssetsOff, SharesOff
<1> HIDE DEF minted, A, S
<1>4. minted * (A + amount) = minted * A + minted * amount
  BY <1>1, <1>2
<1>5. amount * (S + minted) = amount * S + minted * amount
  BY <1>1, <1>2
<1>6. minted * A \in Nat /\ amount * S \in Nat /\ minted * amount \in Nat
  BY <1>1, <1>2, ProductNat
<1>7. minted * (A + amount) <= amount * (S + minted)
  BY <1>2, <1>4, <1>5, <1>6
<1>8. A + amount \in Nat /\ S + minted \in Nat \ {0}
  BY <1>1, <1>2
<1>9. minted * (A + amount) \in Nat
  BY <1>2, <1>8, ProductNat
<1>10. (minted * (A + amount)) \div (S + minted) <= amount
  BY <1>7, <1>8, <1>9, FloorBelow
<1> QED BY <1>3, <1>10 DEF preview_redeem, minted

(***************************************************************************)
(* Two deposits mint no more shares than one deposit of the sum: what the  *)
(* first one loses to rounding is never won back by the second.            *)
(***************************************************************************)
THEOREM SplitDeposit ==
  ASSUME NEW n \in Nat, NEW more \in Nat,
         NEW total_assets \in Nat, NEW total_shares \in Nat
  PROVE  LET first == preview_deposit(n, total_assets, total_shares)
             second == preview_deposit(more, total_assets + n,
                                       total_shares + first)
         IN first + second
              <= preview_deposit(n + more, total_assets, total_shares)
<1> DEFINE first == preview_deposit(n, total_assets, total_shares)
           second == preview_deposit(more, total_assets + n,
                                     total_shares + first)
           A == AssetsOff(total_assets)
           S == SharesOff(total_shares)
<1>1. A \in Nat \ {0} /\ S \in Nat \ {0}
  BY OffsetsPositive
<1>2. first \in Nat /\ first * A <= n * S
  BY DepositRoundsDown
<1>3. /\ AssetsOff(total_assets + n) = A + n
      /\ SharesOff(total_shares + first) = S + first
  BY <1>2, PricingAssumption DEF AssetsOff, SharesOff
<1>4. total_assets + n \in Nat /\ total_shares + first \in Nat
  BY <1>2
<1> HIDE DEF first
<1>5. second \in Nat /\ second * (A + n) <= more * (S + first)
  BY <1>3, <1>4, DepositRoundsDown
<1> HIDE DEF second, A, S
<1>6. (second * A) * (A + n) <= (more * S) * (A + n)
  <2>1. /\ A + n \in Nat /\ S + first \in Nat
        /\ second * (A + n) \in Nat /\ more * (S + first) \in Nat
    BY <1>1, <1>2, <1>5, ProductNat
  <2>2. (second * (A + n)) * A <= (more * (S + first)) * A
    BY <1>1, <1>5, <2>1, ProductMonotone
  <2>3. (S + first) * A <= S * (A + n)
    <3>1. (S + first) * A = S * A + first * A /\ S * (A + n) = S * A + n * S
      BY <1>1, <1>2
    <3>2. S * A \in Nat /\ first * A \in Nat /\ n * S \in Nat
      BY <1>1, <1>2, ProductNat
    <3> QED BY <1>2, <3>1, <3>2
  <2>4. ((S + first) * A) * more <= (S * (A + n)) * more
    BY <1>1, <2>1, <2>3, ProductNat, ProductMonotone
  <2>5. /\ (second * (A + n)) * A = (second * A) * (A + n)
        /\ (more * (S + first)) * A = ((S + first) * A) * more
        /\ (S * (A + n)) * more = (more * S) * (A + n)
    BY <1>1, <1>2, <1>5
  <2>6. /\ (second * A) * (A + n) \in Nat /\ (more * S) * (A + n) \in Nat
        /\ ((S + first) * A) * more \in Nat
    BY <1>1, <1>5, <2>1, ProductNat
  <2> QED BY <2>2, <2>4, <2>5, <2>6
<1>7. second * A <= more * S
  <2>1. second * A \in Nat /\ more * S \in Nat /\ A + n \in Nat \ {0}
    BY <1>1, <1>5, ProductNat
  <2> QED BY <1>6, <2>1, CancelFactor
<1>8. (first + second) * A <= (n + more) * S
  <2>1. /\ (first + second) * A = first * A + second * A
        /\ (n + more) * S = n * S + more * S
    BY <1>1, <1>2, <1>5
  <2>2. /\ first * A \in Nat /\ second * A \in Nat
        /\ n * S \in Nat /\ more * S \in Nat
    BY <1>1, <1>2, <1>5, ProductNat
  <2> QED BY <1>2, <1>7, <2>1, <2>2
<1>9. first + second <= ((n + more) * S) \div A
  BY <1>1, <1>2, <1>5, <1>8, ProductNat, FloorAbove
<1> QED BY <1>9 DEF preview_deposit, first, second, A, S

(***************************************************************************)
(* The price of a share, with the offsets, does not fall when shares are   *)
(* bought or redeemed at the preview prices: rounding favours the pool.    *)
(***************************************************************************)
LEMMA DepositKeepsPrice ==
  ASSUME NEW amount \in Nat, NEW total_assets \in Nat, NEW total_shares \in Nat
  PROVE  LET minted == preview_deposit(amount, total_assets, total_shares)
         IN AssetsOff(total_assets + amount) * SharesOff(total_shares)
              >= AssetsOff(total_assets) * SharesOff(total_shares + minted)
<1> DEFINE minted == preview_deposit(amount, total_assets, total_shares)
           A == AssetsOff(total_assets)
           S == SharesOff(total_shares)
<1>1. A \in Nat \ {0} /\ S \in Nat \ {0}
  BY OffsetsPositive
<1>2. minted \in Nat /\ minted * A <= amount * S
  BY DepositRoundsDown
<1>3. /\ AssetsOff(total_assets + amount) = A + amount
      /\ SharesOff(total_shares + minted) = S + minted
  BY <1>2, PricingAssumption DEF AssetsOff, SharesOff
<1> HIDE DEF minted, A, S
<1>4. (A + amount) * S = A * S + amount * S /\ A * (S + minted) = A * S + minted * A
  BY <1>1, <1>2
<1>5. A * S \in Nat /\ amount * S \in Nat /\ minted * A \in Nat
  BY <1>1, <1>2, ProductNat
<1>6. (A + amount) * S >= A * (S + minted)
  BY <1>2, <1>4, <1>5
<1> QED BY <1>3, <1>6 DEF minted, A, S

\* The same for a redemption.
LEMMA RedeemKeepsPrice ==
  ASSUME NEW n \in Nat, NEW total_assets \in Nat, NEW total_shares \in Nat,
         preview_redeem(n, total_assets, total_shares) <= total_assets,
         n <= total_shares
  PROVE  LET assets == preview_redeem(n, total_assets, total_shares)
         IN AssetsOff(total_assets - assets) * SharesOff(total_shares)
              >= AssetsOff(total_assets) * SharesOff(total_shares - n)
<1> DEFINE assets == preview_redeem(n, total_assets, total_shares)
           A == AssetsOff(total_assets)
           S == SharesOff(total_shares)
<1>1. A \in Nat \ {0} /\ S \in Nat \ {0}
  BY OffsetsPositive
<1>2. assets \in Nat /\ assets * S <= n * A
  BY RedeemRoundsDown
<1>3. /\ AssetsOff(total_assets - assets) = A - assets
      /\ SharesOff(total_shares - n) = S - n
  BY <1>2, PricingAssumption DEF AssetsOff, SharesOff
<1> HIDE DEF assets, A, S
<1>4. (A - assets) * S = A * S - assets * S /\ A * (S - n) = A * S - n * A
  BY <1>1, <1>2
<1>5. A * S \in Nat /\ assets * S \in Nat /\ n * A \in Nat
  BY <1>1, <1>2, ProductNat
<1>6. (A - assets) * S >= A * (S - n)
  BY <1>2, <1>4, <1>5
<1> QED BY <1>3, <1>6 DEF assets, A, S

\* Income that reaches the book does not lower it either.
LEMMA IncomeKeepsPrice ==
  ASSUME NEW total_assets \in Nat, NEW more \in Nat, total_assets <= more,
         NEW total_shares \in Nat
  PROVE  AssetsOff(more) * SharesOff(total_shares)
           >= AssetsOff(total_assets) * SharesOff(total_shares)
<1> DEFINE A == AssetsOff(total_assets)
           B == AssetsOff(more)
           S == SharesOff(total_shares)
<1>1. A \in Nat /\ B \in Nat /\ S \in Nat /\ A <= B
  BY PricingAssumption DEF AssetsOff, SharesOff
<1> HIDE DEF A, B, S
<1>2. A * S \in Nat /\ B * S \in Nat /\ A * S <= B * S
  BY <1>1, ProductNat, ProductMonotone
<1>3. B * S >= A * S
  BY <1>2
<1> QED BY <1>3 DEF A, B, S

-----------------------------------------------------------------------------
(* Fees. *)

\* min returns one of its arguments and at most each.
LEMMA LesserFacts ==
  ASSUME NEW x \in Nat, NEW y \in Nat
  PROVE  /\ Lesser(x, y) \in Nat
         /\ Lesser(x, y) <= x
         /\ Lesser(x, y) <= y
BY DEF Lesser

\* The rate is a natural number before the clamp, on both sides of the kink.
LEMMA UtilizationRateType ==
  ASSUME NEW u \in Nat, NEW curve \in FeeCurve
  PROVE  utilization_rate(u, curve) \in Nat
<1>1. /\ curve.utilization_kink_bps \in Nat /\ curve.base_rate_bps \in Nat
      /\ curve.kink_rate_bps \in Nat /\ curve.max_rate_bps \in Nat
  BY DEF FeeCurve
<1>2. CASE /\ u > curve.utilization_kink_bps
           /\ BPS_DENOMINATOR > curve.utilization_kink_bps
  <2> DEFINE rise == (u - curve.utilization_kink_bps)
                       * SatSub(curve.max_rate_bps, curve.kink_rate_bps)
             span == BPS_DENOMINATOR - curve.utilization_kink_bps
  <2>1. u - curve.utilization_kink_bps \in Nat /\ span \in Nat \ {0}
    BY <1>1, <1>2, PricingAssumption
  <2>0. SatSub(curve.max_rate_bps, curve.kink_rate_bps) \in Nat
    BY <1>1 DEF SatSub
  <2>2. rise \in Nat
    BY <2>0, <2>1, ProductNat
  <2> HIDE DEF rise, span
  <2>3. rise \div span \in Nat
    BY <2>1, <2>2, FloorDivision
  <2> QED BY <1>1, <1>2, <2>3 DEF utilization_rate, rate_above_kink, rise, span
<1>3. CASE ~ (/\ u > curve.utilization_kink_bps
              /\ BPS_DENOMINATOR > curve.utilization_kink_bps)
  <2> DEFINE rise == u * SatSub(curve.kink_rate_bps, curve.base_rate_bps)
  <2>0. SatSub(curve.kink_rate_bps, curve.base_rate_bps) \in Nat
    BY <1>1 DEF SatSub
  <2>1. rise \in Nat
    BY <2>0, ProductNat
  <2> HIDE DEF rise
  <2>2. curve.utilization_kink_bps > 0
          => rise \div curve.utilization_kink_bps \in Nat
    BY <1>1, <2>1, FloorDivision
  <2>3. rate_below_kink(u, curve) \in Nat
    BY <1>1, <2>2 DEF rate_below_kink, rise
  <2> QED BY <1>3, <2>3 DEF utilization_rate
<1> QED BY <1>2, <1>3

(***************************************************************************)
(* A fee is a natural number, and for a curve that validate accepts it is  *)
(* at most the principal.                                                  *)
(***************************************************************************)
THEOREM FeeBounded ==
  ASSUME NEW principal \in Nat, NEW tenor \in Nat, NEW u \in Nat,
         NEW defaults \in Nat, NEW curve \in FeeCurve
  PROVE  /\ compute_fee_amount(principal, tenor, u, defaults, curve) \in Nat
         /\ validate(curve) =>
              compute_fee_amount(principal, tenor, u, defaults, curve)
                <= principal
<1> DEFINE days == tenor \div SECONDS_PER_DAY
           risk == Lesser(defaults, MAX_RISK_FACTOR)
           raw == utilization_rate(u, curve) + days * curve.duration_per_day_bps
                    + risk * curve.risk_premium_bps
           rate == fee_rate(tenor, u, defaults, curve)
<1>1. /\ curve.duration_per_day_bps \in Nat /\ curve.risk_premium_bps \in Nat
      /\ curve.max_rate_bps \in Nat
  BY DEF FeeCurve
<1>2. days \in Nat /\ risk \in Nat
  BY FloorDivision, LesserFacts, PricingAssumption
<1>3. days * curve.duration_per_day_bps \in Nat
      /\ risk * curve.risk_premium_bps \in Nat
  BY <1>1, <1>2, ProductNat
<1>4. raw \in Nat
  BY <1>3, UtilizationRateType
<1>5. rate = Lesser(raw, curve.max_rate_bps)
  BY DEF fee_rate
<1> HIDE DEF raw, rate
<1>6. rate \in Nat /\ rate <= curve.max_rate_bps
  BY <1>1, <1>4, <1>5, LesserFacts
<1>7. principal * rate \in Nat
  BY <1>6, ProductNat
<1>8. compute_fee_amount(principal, tenor, u, defaults, curve)
        = (principal * rate) \div BPS_DENOMINATOR
  BY DEF compute_fee_amount, rate
<1>9. (principal * rate) \div BPS_DENOMINATOR \in Nat
  BY <1>7, FloorDivision, PricingAssumption
<1>10. ASSUME validate(curve)
       PROVE  (principal * rate) \div BPS_DENOMINATOR <= principal
  <2>1. rate <= BPS_DENOMINATOR
    BY <1>1, <1>6, <1>10, PricingAssumption DEF validate
  <2>2. rate * principal <= BPS_DENOMINATOR * principal
    BY <1>6, <2>1, ProductMonotone, PricingAssumption
  <2>3. principal * rate <= principal * BPS_DENOMINATOR
    BY <1>6, <2>2, PricingAssumption
  <2> QED BY <1>7, <2>3, FloorBelow, PricingAssumption
<1> QED BY <1>8, <1>9, <1>10

\* min grows with its arguments.
LEMMA LesserMonotone ==
  ASSUME NEW x \in Nat, NEW y \in Nat, NEW z \in Nat, x <= y
  PROVE  Lesser(x, z) <= Lesser(y, z)
BY DEF Lesser

\* Below the kink a valid curve climbs, and reaches the kink rate at the latest
\* at the kink.
LEMMA RateBelowKink ==
  ASSUME NEW curve \in FeeCurve, validate(curve), NEW u \in Nat, NEW w \in Nat, u <= w
  PROVE  /\ rate_below_kink(u, curve) <= rate_below_kink(w, curve)
         /\ u <= curve.utilization_kink_bps
              => rate_below_kink(u, curve) <= curve.kink_rate_bps
<1> DEFINE kink == curve.utilization_kink_bps
           rise == SatSub(curve.kink_rate_bps, curve.base_rate_bps)
<1>1. /\ kink \in Nat /\ curve.base_rate_bps \in Nat
      /\ curve.kink_rate_bps \in Nat
  BY DEF FeeCurve
<1>2. rise \in Nat /\ curve.base_rate_bps + rise = curve.kink_rate_bps
  BY <1>1 DEF SatSub, validate
<1>3. \A x : rate_below_kink(x, curve)
              = curve.base_rate_bps + (IF kink > 0 THEN (x * rise) \div kink ELSE 0)
  BY DEF rate_below_kink
<1> HIDE DEF kink, rise
<1>4. CASE kink = 0
  BY <1>1, <1>2, <1>3, <1>4
<1>5. CASE kink > 0
  <2>1. u * rise \in Nat /\ w * rise \in Nat /\ u * rise <= w * rise
    BY <1>2, ProductNat, ProductMonotone
  <2>2. (u * rise) \div kink \in Nat /\ (w * rise) \div kink \in Nat
        /\ (u * rise) \div kink <= (w * rise) \div kink
    BY <1>1, <1>5, <2>1, QuotientMonotone, FloorDivision
  <2>3. ASSUME u <= kink PROVE (u * rise) \div kink <= rise
    <3>1. u * rise <= kink * rise
      BY <1>1, <1>2, <2>3, ProductMonotone
    <3>2. u * rise <= rise * kink
      BY <1>1, <1>2, <3>1
    <3> QED BY <1>1, <1>2, <1>5, <2>1, <3>2, FloorBelow
  <2> QED BY <1>1, <1>2, <1>3, <1>5, <2>2, <2>3 DEF kink
<1> QED BY <1>1, <1>4, <1>5

\* Above the kink it climbs on, from the kink rate.
LEMMA RateAboveKink ==
  ASSUME NEW curve \in FeeCurve, NEW u \in Nat, NEW w \in Nat, u <= w,
         u > curve.utilization_kink_bps,
         BPS_DENOMINATOR > curve.utilization_kink_bps
  PROVE  /\ rate_above_kink(u, curve) <= rate_above_kink(w, curve)
         /\ curve.kink_rate_bps <= rate_above_kink(u, curve)
<1> DEFINE kink == curve.utilization_kink_bps
           span == BPS_DENOMINATOR - kink
           rise == SatSub(curve.max_rate_bps, curve.kink_rate_bps)
<1>1. /\ kink \in Nat /\ curve.kink_rate_bps \in Nat
      /\ curve.max_rate_bps \in Nat
  BY DEF FeeCurve
<1>2. rise \in Nat
  BY <1>1 DEF SatSub
<1>3. span \in Nat \ {0} /\ u - kink \in Nat /\ w - kink \in Nat
      /\ u - kink <= w - kink
  BY <1>1, PricingAssumption
<1>4. \A x : rate_above_kink(x, curve)
              = curve.kink_rate_bps + ((x - kink) * rise) \div span
  BY DEF rate_above_kink
<1> HIDE DEF kink, span, rise
<1>5. /\ (u - kink) * rise \in Nat /\ (w - kink) * rise \in Nat
      /\ (u - kink) * rise <= (w - kink) * rise
  BY <1>2, <1>3, ProductNat, ProductMonotone
<1>6. /\ ((u - kink) * rise) \div span \in Nat
      /\ ((w - kink) * rise) \div span \in Nat
      /\ ((u - kink) * rise) \div span <= ((w - kink) * rise) \div span
  BY <1>3, <1>5, QuotientMonotone, FloorDivision
<1> QED BY <1>1, <1>4, <1>6

\* So the utilization part of the rate never falls, across the kink included.
LEMMA UtilizationRateMonotone ==
  ASSUME NEW curve \in FeeCurve, validate(curve), NEW u \in Nat, NEW w \in Nat, u <= w
  PROVE  utilization_rate(u, curve) <= utilization_rate(w, curve)
<1> DEFINE kink == curve.utilization_kink_bps
<1>1. kink \in Nat /\ kink <= BPS_DENOMINATOR /\ curve.kink_rate_bps \in Nat
  BY DEF FeeCurve, validate
<1>2. /\ utilization_rate(u, curve) \in Nat /\ utilization_rate(w, curve) \in Nat
  BY UtilizationRateType
<1>3. CASE BPS_DENOMINATOR > kink /\ u > kink
  BY <1>1, <1>3, RateAboveKink DEF utilization_rate
<1>4. CASE BPS_DENOMINATOR > kink /\ u <= kink /\ w > kink
  <2>1. rate_below_kink(u, curve) <= curve.kink_rate_bps
    BY <1>4, RateBelowKink
  <2>2. curve.kink_rate_bps <= rate_above_kink(w, curve)
    BY <1>4, RateAboveKink
  <2>3. /\ utilization_rate(u, curve) = rate_below_kink(u, curve)
        /\ utilization_rate(w, curve) = rate_above_kink(w, curve)
    BY <1>1, <1>4 DEF utilization_rate
  <2> QED BY <1>1, <1>2, <2>1, <2>2, <2>3
<1>5. CASE ~ (BPS_DENOMINATOR > kink) \/ w <= kink
  <2>1. /\ utilization_rate(u, curve) = rate_below_kink(u, curve)
        /\ utilization_rate(w, curve) = rate_below_kink(w, curve)
    BY <1>1, <1>5 DEF utilization_rate
  <2> QED BY <2>1, RateBelowKink
<1> QED BY <1>1, <1>3, <1>4, <1>5, PricingAssumption

(***************************************************************************)
(* compute_fee_amount never drops when the principal, the tenor, the       *)
(* utilization or the number of defaults grows, for every curve validate   *)
(* accepts: neither of the roundings nor the clamp inverts the order.      *)
(***************************************************************************)
THEOREM FeeMonotone ==
  ASSUME NEW curve \in FeeCurve, validate(curve),
         NEW p \in Nat, NEW q \in Nat, p <= q,
         NEW s \in Nat, NEW t \in Nat, s <= t,
         NEW u \in Nat, NEW w \in Nat, u <= w,
         NEW d \in Nat, NEW e \in Nat, d <= e
  PROVE  compute_fee_amount(p, s, u, d, curve) <= compute_fee_amount(q, t, w, e, curve)
<1> DEFINE perDay == curve.duration_per_day_bps
           perDefault == curve.risk_premium_bps
           raw1 == utilization_rate(u, curve) + (s \div SECONDS_PER_DAY) * perDay
                     + Lesser(d, MAX_RISK_FACTOR) * perDefault
           raw2 == utilization_rate(w, curve) + (t \div SECONDS_PER_DAY) * perDay
                     + Lesser(e, MAX_RISK_FACTOR) * perDefault
<1>1. /\ perDay \in Nat /\ perDefault \in Nat /\ curve.max_rate_bps \in Nat
  BY DEF FeeCurve
<1>2. /\ (s \div SECONDS_PER_DAY) * perDay \in Nat
      /\ (t \div SECONDS_PER_DAY) * perDay \in Nat
      /\ (s \div SECONDS_PER_DAY) * perDay <= (t \div SECONDS_PER_DAY) * perDay
  <2>1. /\ s \div SECONDS_PER_DAY \in Nat /\ t \div SECONDS_PER_DAY \in Nat
        /\ s \div SECONDS_PER_DAY <= t \div SECONDS_PER_DAY
    BY FloorDivision, QuotientMonotone, PricingAssumption
  <2> QED BY <1>1, <2>1, ProductNat, ProductMonotone
<1>3. /\ Lesser(d, MAX_RISK_FACTOR) * perDefault \in Nat
      /\ Lesser(e, MAX_RISK_FACTOR) * perDefault \in Nat
      /\ Lesser(d, MAX_RISK_FACTOR) * perDefault
           <= Lesser(e, MAX_RISK_FACTOR) * perDefault
  <2>1. /\ Lesser(d, MAX_RISK_FACTOR) \in Nat /\ Lesser(e, MAX_RISK_FACTOR) \in Nat
        /\ Lesser(d, MAX_RISK_FACTOR) <= Lesser(e, MAX_RISK_FACTOR)
    BY LesserFacts, LesserMonotone, PricingAssumption
  <2> QED BY <1>1, <2>1, ProductNat, ProductMonotone
<1>4. /\ utilization_rate(u, curve) \in Nat /\ utilization_rate(w, curve) \in Nat
      /\ utilization_rate(u, curve) <= utilization_rate(w, curve)
  BY UtilizationRateType, UtilizationRateMonotone
<1>5. raw1 \in Nat /\ raw2 \in Nat /\ raw1 <= raw2
  BY <1>2, <1>3, <1>4
<1>6. /\ fee_rate(s, u, d, curve) = Lesser(raw1, curve.max_rate_bps)
      /\ fee_rate(t, w, e, curve) = Lesser(raw2, curve.max_rate_bps)
  BY DEF fee_rate
<1> DEFINE r1 == fee_rate(s, u, d, curve)
           r2 == fee_rate(t, w, e, curve)
           top == curve.max_rate_bps
<1> HIDE DEF raw1, raw2, r1, r2, top
<1>7. r1 \in Nat /\ r2 \in Nat /\ r1 <= r2
  <2>1. r1 = Lesser(raw1, top) /\ r2 = Lesser(raw2, top) /\ top \in Nat
    BY <1>1, <1>6 DEF r1, r2, top
  <2> QED BY <1>5, <2>1, LesserFacts, LesserMonotone
<1>8. p * r1 \in Nat /\ q * r2 \in Nat /\ p * r1 <= q * r2
  <2>1. p * r1 <= q * r1
    BY <1>7, ProductMonotone
  <2>2. r1 * q <= r2 * q
    BY <1>7, ProductMonotone
  <2>3. q * r1 = r1 * q /\ q * r2 = r2 * q
    BY <1>7
  <2>4. p * r1 \in Nat /\ q * r1 \in Nat /\ q * r2 \in Nat
    BY <1>7, ProductNat
  <2> QED BY <2>1, <2>2, <2>3, <2>4
<1>9. (p * r1) \div BPS_DENOMINATOR <= (q * r2) \div BPS_DENOMINATOR
  BY <1>8, QuotientMonotone, PricingAssumption
<1> QED BY <1>9 DEF compute_fee_amount, r1, r2

-----------------------------------------------------------------------------
(* The fee curve against its exact definition. *)

\* Products of an inequality with a natural, and with a positive, number.
LEMMA ScaleLeq ==
  ASSUME NEW a \in Int, NEW b \in Int, NEW c \in Nat, a <= b
  PROVE  a * c <= b * c
OBVIOUS

LEMMA ScaleLess ==
  ASSUME NEW a \in Int, NEW b \in Int, NEW c \in Nat \ {0}, a < b
  PROVE  a * c < b * c
OBVIOUS

\* A rise over a run, rounded down and added to a start, is the exact line
\* rounded down to a whole basis point.
LEMMA LineRounded ==
  ASSUME NEW start \in Nat, NEW rise \in Nat, NEW den \in Nat \ {0}
  PROVE  LET rate == start + rise \div den
         IN /\ rate \in Nat
            /\ rate * den <= start * den + rise
            /\ start * den + rise < (rate + 1) * den
<1> DEFINE q == rise \div den
<1>1. q \in Nat /\ q * den <= rise /\ rise < (q + 1) * den
  BY FloorDivision
<1> HIDE DEF q
<1>2. (start + q) * den = start * den + q * den
  BY <1>1
<1>3. (start + q + 1) * den = start * den + (q + 1) * den
  BY <1>1
<1>4. start * den \in Int /\ q * den \in Int /\ (q + 1) * den \in Int
  BY <1>1
<1> QED BY <1>1, <1>2, <1>3, <1>4 DEF q

\* utilization_rate is the exact line rounded down, below, at and above the
\* kink, for a kink at zero and at full utilization too.
LEMMA RateFollowsLine ==
  ASSUME NEW curve \in FeeCurve, validate(curve), NEW u \in 0 .. BPS_DENOMINATOR
  PROVE  LET den == ExactDen(curve, u)
             rate == utilization_rate(u, curve)
         IN /\ den \in Nat \ {0} /\ rate \in Nat
            /\ ExactLine(curve, u) \in Nat
            /\ rate * den <= ExactLine(curve, u)
            /\ ExactLine(curve, u) < (rate + 1) * den
<1> USE PricingAssumption
<1> DEFINE kink == curve.utilization_kink_bps
           base == curve.base_rate_bps
           mid == curve.kink_rate_bps
           top == curve.max_rate_bps
           den == ExactDen(curve, u)
<1>1. /\ kink \in Nat /\ base \in Nat /\ mid \in Nat /\ top \in Nat
      /\ kink <= BPS_DENOMINATOR /\ base <= mid /\ mid <= top
  BY DEF FeeCurve, validate
<1>2. /\ SatSub(mid, base) = mid - base /\ mid - base \in Nat
      /\ SatSub(top, mid) = top - mid /\ top - mid \in Nat
  BY <1>1 DEF SatSub
<1>3. CASE u <= kink /\ kink > 0
  <2>1. den = kink /\ ExactLine(curve, u) = base * kink + u * (mid - base)
    BY <1>1, <1>3 DEF ExactDen, ExactLine
  <2>2. utilization_rate(u, curve) = base + (u * (mid - base)) \div kink
    BY <1>1, <1>2, <1>3 DEF utilization_rate, rate_below_kink
  <2>3. u * (mid - base) \in Nat /\ base * kink \in Nat
    BY <1>1, <1>2, ProductNat
  <2> DEFINE rise == u * (mid - base)
  <2>4. rise \in Nat /\ kink \in Nat \ {0} /\ base \in Nat
    BY <1>1, <1>3, <2>3
  <2> HIDE DEF rise, kink, base
  <2>5. LET rate == base + rise \div kink
        IN /\ rate \in Nat
           /\ rate * kink <= base * kink + rise
           /\ base * kink + rise < (rate + 1) * kink
    BY <2>4, LineRounded
  <2> QED BY <2>1, <2>2, <2>3, <2>4, <2>5 DEF rise
<1>4. CASE u <= kink /\ kink = 0
  <2>1. den = 1 /\ ExactLine(curve, u) = base
    BY <1>1, <1>2, <1>4 DEF ExactDen, ExactLine
  <2>2. utilization_rate(u, curve) = base
    BY <1>1, <1>4 DEF utilization_rate, rate_below_kink
  <2> QED BY <1>1, <2>1, <2>2
<1>5. CASE u > kink
  <2> DEFINE span == BPS_DENOMINATOR - kink
             rise == (u - kink) * (top - mid)
  <2>1. den = span /\ ExactLine(curve, u) = mid * span + rise
    BY <1>1, <1>5 DEF ExactDen, ExactLine
  <2>2. utilization_rate(u, curve) = mid + rise \div span
    BY <1>1, <1>2, <1>5 DEF utilization_rate, rate_above_kink
  <2>3. span \in Nat \ {0}
    BY <1>1, <1>5
  <2>4. u - kink \in Nat
    BY <1>1, <1>5
  <2>5. rise \in Nat /\ mid * span \in Nat
    BY <1>1, <1>2, <2>3, <2>4, ProductNat
  <2> HIDE DEF rise, span, mid
  <2>6. LET rate == mid + rise \div span
        IN /\ rate \in Nat
           /\ rate * span <= mid * span + rise
           /\ mid * span + rise < (rate + 1) * span
    BY <1>1, <2>3, <2>5, LineRounded
  <2> QED BY <2>1, <2>2, <2>3, <2>5, <2>6
<1> QED BY <1>1, <1>3, <1>4, <1>5

\* The factor of the risk premium is the number of defaults up to its ceiling.
LEMMA PremiumsExact ==
  ASSUME NEW query, query.curve \in FeeCurve, query.tenor \in Nat,
         query.defaults \in Nat
  PROVE  /\ ExactPremiums(query) \in Nat
         /\ ExactPremiums(query)
              = (query.tenor \div SECONDS_PER_DAY) * query.curve.duration_per_day_bps
                  + Lesser(query.defaults, MAX_RISK_FACTOR)
                      * query.curve.risk_premium_bps
<1> USE PricingAssumption
<1> DEFINE P(d) == \/ d = query.defaults
                   \/ d = MAX_RISK_FACTOR /\ query.defaults > d
           factor == Lesser(query.defaults, MAX_RISK_FACTOR)
           days == query.tenor \div SECONDS_PER_DAY
<1>1. factor \in 0 .. MAX_RISK_FACTOR /\ P(factor)
  BY DEF Lesser
<1>2. \A d \in 0 .. MAX_RISK_FACTOR : P(d) => d = factor
  BY DEF Lesser
<1>3. (CHOOSE d \in 0 .. MAX_RISK_FACTOR : P(d)) = factor
  BY <1>1, <1>2
<1>4. /\ query.curve.duration_per_day_bps \in Nat
      /\ query.curve.risk_premium_bps \in Nat
  BY DEF FeeCurve
<1>5. days \in Nat
  BY FloorDivision
<1>6. factor \in Nat
  BY <1>1
<1>7. ExactPremiums(query) = query.curve.duration_per_day_bps * days
                               + query.curve.risk_premium_bps * factor
  BY <1>3 DEF ExactPremiums
<1> HIDE DEF factor, days
<1>8. /\ days * query.curve.duration_per_day_bps \in Nat
      /\ factor * query.curve.risk_premium_bps \in Nat
      /\ query.curve.duration_per_day_bps * days
           = days * query.curve.duration_per_day_bps
      /\ query.curve.risk_premium_bps * factor
           = factor * query.curve.risk_premium_bps
  BY <1>4, <1>5, <1>6, ProductNat
<1> QED BY <1>7, <1>8 DEF factor, days

\* Premiums and the clamp to the maximum rate commute with the rounding.
LEMMA ClampRounded ==
  ASSUME NEW line \in Nat, NEW den \in Nat \ {0}, NEW r \in Nat,
         r * den <= line, line < (r + 1) * den,
         NEW premiums \in Nat, NEW top \in Nat
  PROVE  LET rate == Lesser(r + premiums, top)
             exact == IF line + premiums * den <= top * den
                        THEN line + premiums * den ELSE top * den
         IN /\ rate \in Nat /\ exact \in Nat
            /\ rate * den <= exact
            /\ exact < (rate + 1) * den
<1>1. /\ (r + premiums) * den = r * den + premiums * den
      /\ (r + premiums + 1) * den = (r + 1) * den + premiums * den
      /\ (top + 1) * den = top * den + den
  OBVIOUS
<1>2. /\ r * den \in Nat /\ (r + 1) * den \in Nat /\ premiums * den \in Nat
      /\ top * den \in Nat
  BY ProductNat
<1>3. CASE r + premiums <= top
  <2>1. (r + premiums) * den <= top * den
    BY <1>3, ScaleLeq
  <2> QED BY <1>1, <1>2, <1>3, <2>1 DEF Lesser
<1>4. CASE ~(r + premiums <= top)
  <2>1. (top + 1) * den <= (r + premiums) * den
    BY <1>4, ScaleLeq
  <2> QED BY <1>1, <1>2, <1>4, <2>1 DEF Lesser
<1> QED BY <1>3, <1>4

\* Rounding the rate and then the fee loses less than a basis point of the
\* principal and an atom.
LEMMA FeeRounded ==
  ASSUME NEW p \in Nat, NEW den \in Nat \ {0}, NEW rate \in Nat, NEW exact \in Nat,
         rate * den <= exact, exact < (rate + 1) * den,
         NEW D \in Nat \ {0}
  PROVE  LET scaled == ((p * rate) \div D) * D * den
         IN /\ scaled <= p * exact
            /\ scaled > p * (exact - den) - D * den
<1> DEFINE pr == p * rate
           fee == pr \div D
<1>1. pr \in Nat
  BY ProductNat
<1> HIDE DEF pr
<1>2. fee \in Nat /\ fee * D <= pr /\ pr < (fee + 1) * D
  BY <1>1, FloorDivision
<1> HIDE DEF fee
<1> DEFINE fD == fee * D
<1>3. fD \in Nat /\ (fee + 1) * D = fD + D
  BY <1>2
<1> HIDE DEF fD
<1>4. fD <= pr /\ pr < fD + D
  BY <1>2, <1>3 DEF fD
<1>5. fD * den <= pr * den
  BY <1>1, <1>3, <1>4, ScaleLeq
<1>6. pr * den < (fD + D) * den
  BY <1>1, <1>3, <1>4, ScaleLess
<1>7. (fD + D) * den = fD * den + D * den
  BY <1>3
<1>8. pr * den = (rate * den) * p
  BY DEF pr
<1>9. rate * den \in Nat /\ (rate + 1) * den = rate * den + den
  BY ProductNat
<1>10. (rate * den) * p <= exact * p
  BY <1>9, ScaleLeq
<1>11. (exact - den) * p <= (rate * den) * p
  BY <1>9, ScaleLeq
<1>12. p * exact = exact * p /\ p * (exact - den) = (exact - den) * p
  OBVIOUS
<1>13. /\ fD * den \in Int /\ pr * den \in Int /\ D * den \in Int
       /\ exact * p \in Int /\ (exact - den) * p \in Int
  BY <1>1, <1>3
<1>14. fD * den <= p * exact /\ fD * den > p * (exact - den) - D * den
  BY <1>5, <1>6, <1>7, <1>8, <1>10, <1>11, <1>12, <1>13
<1> QED BY <1>14 DEF fD, fee, pr

\* The inputs of a fee query, without the bounds of the grid.
AllFeeQueries ==
  [principal : Nat, utilization : 0 .. BPS_DENOMINATOR, tenor : Nat,
   defaults : Nat, curve : {c \in FeeCurve : validate(c)}]

(***************************************************************************)
(* compute_fee_amount is the published curve rounded down twice, for every *)
(* curve that validate accepts and all inputs: never above the exact fee,  *)
(* below it by less than a basis point of the principal and one atom.      *)
(***************************************************************************)
THEOREM FeeIsCurveRounded ==
  ASSUME NEW query \in AllFeeQueries
  PROVE  FollowsCurve(query)
<1> DEFINE c == query.curve
           u == query.utilization
           den == ExactDen(c, u)
           r == utilization_rate(u, c)
           prem == ExactPremiums(query)
           rate == fee_rate(query.tenor, u, query.defaults, c)
           exact == ExactNum(query)
<1>1. /\ c \in FeeCurve /\ validate(c) /\ u \in 0 .. BPS_DENOMINATOR
      /\ query.tenor \in Nat /\ query.defaults \in Nat
      /\ query.principal \in Nat /\ c.max_rate_bps \in Nat
  BY DEF AllFeeQueries, FeeCurve
<1>2. /\ den \in Nat \ {0} /\ r \in Nat /\ ExactLine(c, u) \in Nat
      /\ r * den <= ExactLine(c, u) /\ ExactLine(c, u) < (r + 1) * den
  BY <1>1, RateFollowsLine
<1>3. prem \in Nat
      /\ prem = (query.tenor \div SECONDS_PER_DAY) * c.duration_per_day_bps
                  + Lesser(query.defaults, MAX_RISK_FACTOR) * c.risk_premium_bps
  BY <1>1, PremiumsExact
<1>4. rate = Lesser(r + prem, c.max_rate_bps)
  <2>1. /\ (query.tenor \div SECONDS_PER_DAY) * c.duration_per_day_bps \in Int
        /\ Lesser(query.defaults, MAX_RISK_FACTOR) * c.risk_premium_bps \in Int
    <3>1. /\ query.tenor \div SECONDS_PER_DAY \in Nat
          /\ Lesser(query.defaults, MAX_RISK_FACTOR) \in Nat
          /\ c.duration_per_day_bps \in Nat /\ c.risk_premium_bps \in Nat
      BY <1>1, FloorDivision, LesserFacts, PricingAssumption DEF FeeCurve
    <3> QED BY <3>1, ProductNat
  <2>2. r + prem = r + (query.tenor \div SECONDS_PER_DAY) * c.duration_per_day_bps
                     + Lesser(query.defaults, MAX_RISK_FACTOR) * c.risk_premium_bps
    BY <1>2, <1>3, <2>1
  <2> QED BY <2>2 DEF fee_rate
<1>5. exact = IF ExactLine(c, u) + prem * den <= c.max_rate_bps * den
                THEN ExactLine(c, u) + prem * den ELSE c.max_rate_bps * den
  BY DEF ExactNum
<1>6. Fee(query) = (query.principal * rate) \div BPS_DENOMINATOR
  BY DEF Fee, compute_fee_amount
<1> HIDE DEF den, r, prem, rate, exact
<1>7. /\ rate \in Nat /\ exact \in Nat
      /\ rate * den <= exact /\ exact < (rate + 1) * den
  <2> DEFINE line == ExactLine(c, u)
             top == c.max_rate_bps
  <2>1. line \in Nat /\ r * den <= line /\ line < (r + 1) * den /\ top \in Nat
    BY <1>1, <1>2
  <2>2. /\ rate = Lesser(r + prem, top)
        /\ exact = IF line + prem * den <= top * den
                     THEN line + prem * den ELSE top * den
    BY <1>4, <1>5
  <2> HIDE DEF line, top
  <2>3. den \in Nat \ {0} /\ r \in Nat /\ prem \in Nat
    BY <1>2, <1>3
  <2>4. LET clamped == Lesser(r + prem, top)
            number == IF line + prem * den <= top * den
                        THEN line + prem * den ELSE top * den
        IN /\ clamped \in Nat /\ number \in Nat
           /\ clamped * den <= number
           /\ number < (clamped + 1) * den
    BY <2>1, <2>3, ClampRounded
  <2> QED BY <2>2, <2>4
<1>8. /\ ((query.principal * rate) \div BPS_DENOMINATOR) * BPS_DENOMINATOR * den
           <= query.principal * exact
      /\ ((query.principal * rate) \div BPS_DENOMINATOR) * BPS_DENOMINATOR * den
           > query.principal * (exact - den) - BPS_DENOMINATOR * den
  BY <1>1, <1>2, <1>7, FeeRounded, PricingAssumption
<1> QED BY <1>6, <1>8 DEF FollowsCurve, den, exact

(***************************************************************************)
(* One more atom, basis point, second or default never costs less, for     *)
(* every curve that validate accepts and all inputs.                       *)
(***************************************************************************)
THEOREM FeeNeverCheaper ==
  ASSUME NEW query \in AllFeeQueries
  PROVE  NoCheaperBeyond(query)
<1> SUFFICES ASSUME NEW field \in {"principal", "utilization", "tenor", "defaults"}
             PROVE  Fee([query EXCEPT ![field] = @ + 1]) >= Fee(query)
  BY DEF NoCheaperBeyond
<1> DEFINE more == [query EXCEPT ![field] = @ + 1]
<1>1. /\ query.curve \in FeeCurve /\ validate(query.curve)
      /\ query.principal \in Nat /\ query.utilization \in Nat
      /\ query.tenor \in Nat /\ query.defaults \in Nat
  BY PricingAssumption DEF AllFeeQueries
<1>2. /\ more.curve = query.curve
      /\ more.principal \in Nat /\ query.principal <= more.principal
      /\ more.utilization \in Nat /\ query.utilization <= more.utilization
      /\ more.tenor \in Nat /\ query.tenor <= more.tenor
      /\ more.defaults \in Nat /\ query.defaults <= more.defaults
  BY <1>1 DEF AllFeeQueries
<1> HIDE DEF more
<1>3. compute_fee_amount(query.principal, query.tenor, query.utilization,
                         query.defaults, query.curve)
        <= compute_fee_amount(more.principal, more.tenor, more.utilization,
                              more.defaults, query.curve)
  BY <1>1, <1>2, FeeMonotone
<1>4. /\ compute_fee_amount(query.principal, query.tenor, query.utilization,
                            query.defaults, query.curve) \in Nat
      /\ compute_fee_amount(more.principal, more.tenor, more.utilization,
                            more.defaults, query.curve) \in Nat
  BY <1>1, <1>2, FeeBounded
<1>5. Fee(more) >= Fee(query)
  BY <1>2, <1>3, <1>4 DEF Fee
<1> QED BY <1>5 DEF more

\* The grid that TLC evaluates is part of that.
LEMMA GridQueries == FeeQueries \subseteq AllFeeQueries
<1>1. Curves \subseteq FeeCurve
  BY DEF Curves, FeeCurve
<1>2. 1 .. MaxPrincipal \subseteq Nat /\ 0 .. MaxTenor \subseteq Nat
      /\ 0 .. MaxDefaults \subseteq Nat
  OBVIOUS
<1> QED BY <1>1, <1>2 DEF FeeQueries, AllFeeQueries

-----------------------------------------------------------------------------
(* The server's preview. *)

\* Math.round keeps the order of what it is applied to.
LEMMA RoundHalfUpMonotone ==
  ASSUME NEW a \in Nat, NEW b \in Nat, a <= b, NEW den \in Nat \ {0}
  PROVE  /\ RoundHalfUp(a, den) \in Nat /\ RoundHalfUp(b, den) \in Nat
         /\ RoundHalfUp(a, den) <= RoundHalfUp(b, den)
<1>1. /\ 2 * a + den \in Nat /\ 2 * b + den \in Nat /\ 2 * den \in Nat \ {0}
      /\ 2 * a + den <= 2 * b + den
  OBVIOUS
<1> QED BY <1>1, FloorDivision, QuotientMonotone DEF RoundHalfUp

\* The same books with more of them lent out.
BusierPool(p, q) ==
  /\ p.totalAssets \in Nat /\ p.accruedDefaultLoss \in Nat
  /\ p.deployedAmount \in Nat /\ q.deployedAmount \in Nat
  /\ q.totalAssets = p.totalAssets
  /\ q.accruedDefaultLoss = p.accruedDefaultLoss
  /\ p.deployedAmount <= q.deployedAmount

\* A busier pool is no less utilized, in the same unit, also when losses have
\* used up the capital.
LEMMA PreviewUtilization ==
  ASSUME NEW p, NEW q, BusierPool(p, q)
  PROVE  LET u == computeUtilization(p)
             v == computeUtilization(q)
         IN /\ u[2] \in Nat \ {0} /\ v[2] = u[2]
            /\ u[1] \in Nat /\ v[1] \in Nat /\ u[1] <= v[1]
<1> DEFINE capital == p.totalAssets - p.accruedDefaultLoss
           lent1 == capital - (p.totalAssets - p.deployedAmount)
           lent2 == capital - (p.totalAssets - q.deployedAmount)
<1>1. capital \in Int /\ lent1 \in Int /\ lent2 \in Int /\ lent1 <= lent2
  BY DEF BusierPool
<1>2. CASE capital <= 0
  BY <1>2 DEF computeUtilization, BusierPool
<1>3. CASE ~(capital <= 0)
  <2>1. /\ computeUtilization(p) = <<ClampOver(lent1, capital, 0, 1), capital>>
        /\ computeUtilization(q) = <<ClampOver(lent2, capital, 0, 1), capital>>
    BY <1>3 DEF computeUtilization, BusierPool
  <2> HIDE DEF capital, lent1, lent2
  <2>2. capital \in Nat \ {0}
    BY <1>1, <1>3
  <2>3. /\ ClampOver(lent1, capital, 0, 1) \in Nat
        /\ ClampOver(lent2, capital, 0, 1) \in Nat
        /\ ClampOver(lent1, capital, 0, 1) <= ClampOver(lent2, capital, 0, 1)
    BY <1>1, <2>2 DEF ClampOver
  <2> QED BY <2>1, <2>2, <2>3
<1> QED BY <1>2, <1>3

\* The utilization premium climbs on both sides of its kink and across it.
LEMMA PreviewPremium ==
  ASSUME NEW u, NEW v, u[2] \in Nat, v[2] = u[2], u[1] \in Nat, v[1] \in Nat,
         u[1] <= v[1]
  PROVE  /\ computeUtilizationPremium(u) \in Nat
         /\ computeUtilizationPremium(v) \in Nat
         /\ computeUtilizationPremium(u) <= computeUtilizationPremium(v)
<1> DEFINE x == u[1]
           y == v[1]
           d == u[2]
<1>1. /\ computeUtilizationPremium(u)
           = IF 5 * x <= 4 * d THEN 200 * d + 500 * x
                               ELSE 600 * d + 6000 * (5 * x - 4 * d)
      /\ computeUtilizationPremium(v)
           = IF 5 * y <= 4 * d THEN 200 * d + 500 * y
                               ELSE 600 * d + 6000 * (5 * y - 4 * d)
  BY DEF computeUtilizationPremium
<1>2. x \in Nat /\ y \in Nat /\ d \in Nat /\ x <= y
  OBVIOUS
<1> HIDE DEF x, y, d
<1> QED BY <1>1, <1>2

(***************************************************************************)
(* A busier pool, a longer advance or a worse record never lowers the      *)
(* rate of the server's preview: no bracket, kink, rounding or clamp of    *)
(* computeFee turns the order around.                                      *)
(***************************************************************************)
LEMMA PreviewRateMonotone ==
  ASSUME NEW p, NEW q, BusierPool(p, q),
         NEW h \in Nat, NEW k \in Nat, h <= k,
         NEW repaid \in 0 .. 100, NEW repaidLess \in 0 .. repaid,
         NEW completed \in 0 .. 100, NEW completedLess \in 0 .. completed
  PROVE  /\ totalRate(h, repaid, completed, p) \in Nat
         /\ totalRate(k, repaidLess, completedLess, q) \in Nat
         /\ totalRate(h, repaid, completed, p)
              <= totalRate(k, repaidLess, completedLess, q)
<1> DEFINE u == computeUtilization(p)
           v == computeUtilization(q)
           d == u[2]
           assets == IF p.totalAssets <= 0 THEN 1 ELSE p.totalAssets
           util1 == computeUtilizationPremium(u)
           util2 == computeUtilizationPremium(v)
           prem1 == computeDurationPremium(h) + computeRiskPremium(repaid, completed)
           prem2 == computeDurationPremium(k)
                      + computeRiskPremium(repaidLess, completedLess)
           loss == computePoolLossSurcharge(p)
           raw1 == (util1 + prem1 * d) * assets + loss * d
           raw2 == (util2 + prem2 * d) * assets + loss * d
<1>1. /\ d \in Nat \ {0} /\ v[2] = d
      /\ u[1] \in Nat /\ v[1] \in Nat /\ u[1] <= v[1]
  BY PreviewUtilization
<1>2. util1 \in Nat /\ util2 \in Nat /\ util1 <= util2
  BY <1>1, PreviewPremium
<1>3. prem1 \in Nat /\ prem2 \in Nat /\ prem1 <= prem2
  BY DEF computeDurationPremium, computeRiskPremium
<1>4. assets \in Nat \ {0}
  BY DEF BusierPool
<1>5. loss \in Nat /\ computePoolLossSurcharge(q) = loss
  <2>1. computePoolLossSurcharge(q) = loss
    BY DEF computePoolLossSurcharge, BusierPool
  <2>2. CASE p.totalAssets <= 0
    BY <2>1, <2>2 DEF computePoolLossSurcharge
  <2>3. CASE ~(p.totalAssets <= 0)
    <3> DEFINE lost == 1500 * p.accruedDefaultLoss
    <3>1. lost \in Int /\ lost >= 0 /\ p.totalAssets \in Nat
      BY DEF BusierPool
    <3>2. loss = ClampOver(lost, p.totalAssets, 0, 300)
      BY <2>3 DEF computePoolLossSurcharge
    <3> HIDE DEF lost
    <3>3. ClampOver(lost, p.totalAssets, 0, 300) \in Nat
      BY <2>3, <3>1 DEF ClampOver
    <3> QED BY <2>1, <3>2, <3>3
  <2> QED BY <2>2, <2>3
<1>6. /\ totalRate(h, repaid, completed, p)
           = ClampOver(RoundHalfUp(raw1, d * assets), 1, 200, 2500)
      /\ totalRate(k, repaidLess, completedLess, q)
           = ClampOver(RoundHalfUp(raw2, d * assets), 1, 200, 2500)
  BY <1>1, <1>5 DEF totalRate, BusierPool
<1> HIDE DEF u, v, d, assets, util1, util2, prem1, prem2, loss
<1>7. raw1 \in Nat /\ raw2 \in Nat /\ raw1 <= raw2
  <2>1. prem1 * d \in Nat /\ prem2 * d \in Nat /\ prem1 * d <= prem2 * d
    BY <1>1, <1>3, ProductNat, ProductMonotone
  <2> DEFINE s1 == util1 + prem1 * d
             s2 == util2 + prem2 * d
  <2>2. s1 \in Nat /\ s2 \in Nat /\ s1 <= s2
    BY <1>2, <2>1
  <2> HIDE DEF s1, s2
  <2>3. s1 * assets \in Nat /\ s2 * assets \in Nat /\ s1 * assets <= s2 * assets
    BY <1>4, <2>2, ProductNat, ProductMonotone
  <2>4. loss * d \in Nat
    BY <1>1, <1>5, ProductNat
  <2>5. raw1 = s1 * assets + loss * d /\ raw2 = s2 * assets + loss * d
    BY DEF s1, s2
  <2> QED BY <2>3, <2>4, <2>5
<1>8. d * assets \in Nat \ {0}
  BY <1>1, <1>4
<1> HIDE DEF raw1, raw2
<1> DEFINE unit == d * assets
<1>9. unit \in Nat \ {0}
  BY <1>8
<1> HIDE DEF unit
<1>10. /\ RoundHalfUp(raw1, unit) \in Nat /\ RoundHalfUp(raw2, unit) \in Nat
       /\ RoundHalfUp(raw1, unit) <= RoundHalfUp(raw2, unit)
  BY <1>7, <1>9, RoundHalfUpMonotone
<1>11. /\ ClampOver(RoundHalfUp(raw1, unit), 1, 200, 2500) \in Nat
       /\ ClampOver(RoundHalfUp(raw2, unit), 1, 200, 2500) \in Nat
       /\ ClampOver(RoundHalfUp(raw1, unit), 1, 200, 2500)
            <= ClampOver(RoundHalfUp(raw2, unit), 1, 200, 2500)
  BY <1>10 DEF ClampOver
<1> QED BY <1>6, <1>11 DEF unit

\* Nor does it lower the fee that the preview shows, for any principal.
THEOREM PreviewMonotone ==
  ASSUME NEW principal \in Nat,
         NEW p, NEW q, BusierPool(p, q),
         NEW h \in Nat, NEW k \in Nat, h <= k,
         NEW repaid \in 0 .. 100, NEW repaidLess \in 0 .. repaid,
         NEW completed \in 0 .. 100, NEW completedLess \in 0 .. completed
  PROVE  /\ computeFee(principal, h, repaid, completed, p) \in Nat
         /\ computeFee(principal, k, repaidLess, completedLess, q) \in Nat
         /\ computeFee(principal, h, repaid, completed, p)
              <= computeFee(principal, k, repaidLess, completedLess, q)
<1> DEFINE r1 == totalRate(h, repaid, completed, p)
           r2 == totalRate(k, repaidLess, completedLess, q)
<1>1. r1 \in Nat /\ r2 \in Nat /\ r1 <= r2
  BY PreviewRateMonotone
<1> HIDE DEF r1, r2
<1>2. /\ principal * r1 \in Nat /\ principal * r2 \in Nat
      /\ principal * r1 <= principal * r2
  <2>1. r1 * principal <= r2 * principal
    BY <1>1, ProductMonotone
  <2>2. principal * r1 = r1 * principal /\ principal * r2 = r2 * principal
    BY <1>1
  <2> QED BY <1>1, <2>1, <2>2, ProductNat
<1>3. /\ RoundHalfUp(principal * r1, 10000) \in Nat
      /\ RoundHalfUp(principal * r2, 10000) \in Nat
      /\ RoundHalfUp(principal * r1, 10000) <= RoundHalfUp(principal * r2, 10000)
  BY <1>2, RoundHalfUpMonotone
<1> QED BY <1>3 DEF computeFee, r1, r2

-----------------------------------------------------------------------------
(* The settlement waterfall. *)

\* claim_and_settle splits the fee without remainder.
LEMMA WaterfallSplit ==
  ASSUME NEW fee \in Nat
  PROVE  /\ protocol_cut(fee) \in Nat
         /\ lp_fee(fee) \in Nat
         /\ protocol_cut(fee) + lp_fee(fee) = fee
<1>1. PROTOCOL_FEE_BPS * fee <= BPS_DENOMINATOR * fee
  BY ProductMonotone, PricingAssumption
<1>2. fee * PROTOCOL_FEE_BPS \in Nat
      /\ fee * PROTOCOL_FEE_BPS <= fee * BPS_DENOMINATOR
  BY <1>1, ProductNat, PricingAssumption
<1>3. protocol_cut(fee) \in Nat /\ protocol_cut(fee) <= fee
  BY <1>2, FloorDivision, FloorBelow, PricingAssumption DEF protocol_cut
<1> QED BY <1>3 DEF lp_fee

\* The fee collected at settlement is a natural number.
LEMMA TotalFeeType ==
  ASSUME NEW adv, adv.fee_owed \in Nat, adv.late_penalty_per_day \in Nat,
         adv.expires_at \in Int, NEW now \in Nat
  PROVE  total_fee(adv, now) \in Nat
<1>1. SatSub(now, adv.expires_at) \in Nat
  BY DEF SatSub
<1>2. SatSub(now, adv.expires_at) \div SECONDS_PER_DAY \in Nat
  BY <1>1, FloorDivision, PricingAssumption
<1>3. late_days(now, adv.expires_at) \in Nat
  BY <1>2, LesserFacts, PricingAssumption DEF late_days
<1>4. late_days(now, adv.expires_at) * adv.late_penalty_per_day \in Nat
  BY <1>3, ProductNat
<1> QED BY <1>4 DEF total_fee
=============================================================================
