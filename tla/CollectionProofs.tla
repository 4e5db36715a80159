--------------------------- MODULE CollectionProofs ---------------------------
(***************************************************************************)
(* Coins are accounted for (Purses), for every precision of Decimal, every *)
(* largest amount and every commission rate; a Map is a dictionary         *)
(* (MapCollection), for any keys and values, as long as insert and swap    *)
(* are used as they must be.                                               *)
(***************************************************************************)
EXTENDS Purses, MapCollection, TLAPS

USE ZenonT(60)

-----------------------------------------------------------------------------
(* Purses. *)

\* Decimal is linear, so the proofs below need not look at its definition.
LEMMA DecimalLinear ==
    ASSUME NEW m \in Int, NEW n \in Int
    PROVE  /\ Decimal(m) \in Int
           /\ Decimal(m + n) = Decimal(m) + Decimal(n)
           /\ Decimal(m - n) = Decimal(m) - Decimal(n)
           /\ Decimal(0) = 0 /\ Decimal(1) = Unit
  BY UnitAssumption, SMTT(60) DEF Decimal

\* Integer division by Unit, as the provers know it.
LEMMA DivMod ==
    ASSUME NEW d \in Int
    PROVE  /\ d \div Unit \in Int /\ d % Unit \in 0..(Unit - 1)
           /\ d = Unit * (d \div Unit) + (d % Unit)
  BY UnitAssumption, SMTT(60)

\* Dividing a whole number of coins by Unit leaves nothing.
LEMMA DivExact ==
    ASSUME NEW k \in Int
    PROVE  Decimal(k) \div Unit = k /\ Decimal(k) % Unit = 0
<1> DEFINE f == Decimal(k) \div Unit
           m == Decimal(k) % Unit
<1>1. Unit \in Nat \ {0} /\ Decimal(k) \in Int
  BY UnitAssumption, DecimalLinear
<1>2. f \in Int /\ m \in 0..(Unit - 1) /\ k * Unit = Unit * f + m
  BY <1>1, DivMod DEF Decimal
<1> HIDE DEF f, m
<1>3. m = Unit * (k - f)
  BY <1>1, <1>2, SMTT(60)
<1>4. ~(k - f >= 1)
  <2>1. k - f >= 1 => Unit * (k - f) >= Unit
    BY <1>1, <1>2, SMTT(60)
  <2> QED BY <1>1, <1>2, <1>3, <2>1, SMTT(60)
<1>5. ~(k - f <= -1)
  <2>1. k - f <= -1 => Unit * (k - f) <= -Unit
    BY <1>1, <1>2, SMTT(60)
  <2> QED BY <1>1, <1>2, <1>3, <2>1, SMTT(60)
<1>6. k = f
  BY <1>2, <1>4, <1>5, SMTT(60)
<1> QED BY <1>1, <1>2, <1>6, SMTT(60) DEF f, m

\* Decimal::amount errs by half a coin at most.
LEMMA AmountError ==
    ASSUME NEW d \in Int
    PROVE  /\ amount(d) \in Int
           /\ 2 * (Decimal(amount(d)) - d) <= Unit
           /\ 2 * (d - Decimal(amount(d))) <= Unit
<1> DEFINE f == d \div Unit
           m == d % Unit
<1>1. f \in Int /\ m \in 0..(Unit-1) /\ d = Unit * f + m
  BY DivMod
<1>2. amount(d) = IF 2 * m > Unit \/ (2 * m = Unit /\ f % 2 = 1) THEN f + 1 ELSE f
  BY DEF amount
<1>3. Unit \in Nat \ {0}
  BY UnitAssumption
<1> HIDE DEF f, m
<1>4. (amount(d) = f + 1 /\ 2 * m >= Unit) \/ (amount(d) = f /\ 2 * m <= Unit)
  BY <1>1, <1>2, <1>3, SMTT(60)
<1>5. (f + 1) * Unit = Unit * f + Unit /\ f * Unit = Unit * f
  BY <1>1, <1>3, SMTT(60)
<1> QED BY <1>1, <1>3, <1>4, <1>5, SMTT(60) DEF Decimal

\* ... and not at all on whole coins.
LEMMA AmountExact ==
    ASSUME NEW k \in Int
    PROVE  amount(Decimal(k)) = k
  BY DivExact, UnitAssumption, SMTT(60) DEF amount

\* The same of the checked conversion.
LEMMA ToAmountError ==
    ASSUME NEW d \in Int, NEW n \in ToAmount(d)
    PROVE  /\ n \in Nat
           /\ 2 * (Decimal(n) - d) <= Unit /\ 2 * (d - Decimal(n)) <= Unit
<1>1. n = amount(d) /\ 0 <= n
  BY DEF ToAmount, CheckedAmount
<1> QED BY <1>1, AmountError, SMTT(60)

\* A checked product is a number.
LEMMA MulDecimalType ==
    ASSUME NEW d \in Int, NEW e \in Int, NEW r \in MulDecimal(d, e)
    PROVE  r \in Int
<1>1. d * e \in Int /\ r = (d * e) \div Unit
  BY SMTT(60) DEF MulDecimal, CheckedDecimal
<1> QED BY <1>1, DivMod

\* The two parts of a reward add up to it within a coin.
LEMMA SplitError ==
    ASSUME NEW n \in Nat, NEW rate \in Rates,
           NEW d \in delegator_amount(n, rate), NEW v \in validator_amount(n, rate)
    PROVE  /\ d \in Nat /\ v \in Nat
           /\ 2 * (Decimal(d) + Decimal(v) - Decimal(n)) <= Unit + Unit
           /\ 2 * (Decimal(n) - Decimal(d) - Decimal(v)) <= Unit + Unit
<1>1. rate \in Int /\ Unit \in Nat \ {0} /\ Decimal(1) = Unit
  BY PursesAssumption, UnitAssumption, DecimalLinear, SMTT(60)
<1>2. PICK x \in MulDecimal(Decimal(n), Unit - rate) : d \in ToAmount(x)
  BY <1>1 DEF delegator_amount
<1>3. PICK y \in MulDecimal(Decimal(n), rate) : v \in ToAmount(y)
  BY DEF validator_amount
<1>4. x = n * (Unit - rate)
  <2>1. x = (Decimal(n) * (Unit - rate)) \div Unit
    BY <1>2 DEF MulDecimal, CheckedDecimal
  <2>2. Decimal(n) * (Unit - rate) = Decimal(n * (Unit - rate)) /\ n * (Unit - rate) \in Int
    BY <1>1, SMTT(60) DEF Decimal
  <2> QED BY <2>1, <2>2, DivExact
<1>5. y = n * rate
  <2>1. y = (Decimal(n) * rate) \div Unit
    BY <1>3 DEF MulDecimal, CheckedDecimal
  <2>2. Decimal(n) * rate = Decimal(n * rate) /\ n * rate \in Int
    BY <1>1, SMTT(60) DEF Decimal
  <2> QED BY <2>1, <2>2, DivExact
<1>6. x \in Int /\ y \in Int /\ x + y = Decimal(n)
  BY <1>1, <1>4, <1>5, SMTT(60) DEF Decimal
<1>7. /\ d \in Nat /\ v \in Nat
      /\ 2 * (Decimal(d) - x) <= Unit /\ 2 * (x - Decimal(d)) <= Unit
      /\ 2 * (Decimal(v) - y) <= Unit /\ 2 * (y - Decimal(v)) <= Unit
  BY <1>2, <1>3, <1>6, ToAmountError
<1>8. Decimal(d) \in Int /\ Decimal(v) \in Int /\ Decimal(n) \in Int
  BY <1>7, DecimalLinear, SMTT(60)
<1> QED BY <1>1, <1>6, <1>7, <1>8, SMTT(60)

-----------------------------------------------------------------------------
\* Balanced is CoinsAreAccountedFor without what follows from IsWhole.
Balanced ==
    /\ 2 * (Held + gone - Decimal(minted)) <= Decimal(rounded)
    /\ 2 * (Decimal(minted) - Held - gone) <= Decimal(rounded)
IsWhole == \E k \in Int : liquid = Decimal(k)
IInv == TypeOK /\ Balanced /\ IsWhole

\* Coins given to the account are in it or gone.
LEMMA GiveCoinKeeps ==
    ASSUME TypeOK, NEW n \in Nat, GiveCoin(n)
    PROVE  /\ coin' \in Nat /\ gone' \in Int
           /\ Decimal(coin') + gone' = Decimal(coin) + gone + Decimal(n)
<1>1. coin \in Nat /\ gone \in Int /\ Decimal(n) \in Int /\ Decimal(coin) \in Int
  BY DecimalLinear, SMTT(60) DEF TypeOK
<1>2. CASE coin' \in CoinGive(coin, n) /\ gone' = gone
  <2>1. coin' = coin + n
    BY <1>2 DEF CoinGive, AddAmount, CheckedAmount
  <2>2. Decimal(coin + n) = Decimal(coin) + Decimal(n)
    BY <1>1, DecimalLinear, SMTT(60)
  <2> QED BY <1>1, <1>2, <2>1, <2>2, SMTT(60)
<1>3. CASE gone' = gone + Decimal(n) /\ coin' = coin
  BY <1>1, <1>3, SMTT(60)
<1> QED BY <1>2, <1>3 DEF GiveCoin

\* Coins given to the liquid purse are in it or gone, and it stays whole.
LEMMA GiveLiquidKeeps ==
    ASSUME TypeOK, IsWhole, NEW n \in Nat, GiveLiquid(n)
    PROVE  /\ liquid' \in Int /\ gone' \in Int /\ IsWhole'
           /\ liquid' + gone' = liquid + gone + Decimal(n)
<1>1. liquid \in Int /\ gone \in Int /\ Decimal(n) \in Int
  BY DecimalLinear, SMTT(60) DEF TypeOK
<1>2. CASE liquid' \in MultiGive(liquid, n) /\ gone' = gone
  <2>1. liquid' = liquid + Decimal(n)
    BY <1>2 DEF MultiGive, AddDecimal, CheckedDecimal
  <2>2. PICK k \in Int : liquid = Decimal(k)
    BY DEF IsWhole
  <2>3. liquid' = Decimal(k + n) /\ k + n \in Int
    BY <2>1, <2>2, DecimalLinear, SMTT(60)
  <2> QED BY <1>1, <1>2, <2>1, <2>3, SMTT(60) DEF IsWhole
<1>3. CASE gone' = gone + Decimal(n) /\ liquid' = liquid
  BY <1>1, <1>3, SMTT(60) DEF IsWhole
<1> QED BY <1>2, <1>3 DEF GiveLiquid

\* A Share that is asked for n coins gives up exactly those.
LEMMA ShareTakeExact ==
    ASSUME NEW s \in Int, NEW n \in Nat, NEW t \in ShareTake(s, n)
    PROVE  t \in Int /\ t = s - Decimal(n)
<1>1. Decimal(n) \in Int
  BY DecimalLinear, SMTT(60)
<1> QED BY <1>1, SMTT(60) DEF ShareTake, SubDecimal, CheckedDecimal

\* The inductive invariant holds at first,
LEMMA InductiveInit == Init => IInv
<1>1. Decimal(0) = 0 /\ 0 \in Int
  BY DecimalLinear, SMTT(60)
<1> QED BY <1>1, SMTT(60) DEF Init, IInv, TypeOK, Balanced, IsWhole, Held

\* every step keeps it,
LEMMA InductiveNext == IInv /\ [Next]_vars => IInv'
<1> SUFFICES ASSUME IInv, [Next]_vars PROVE IInv'
  OBVIOUS
<1> USE DEF IInv
<1>t. /\ coin \in Nat /\ staked \in Int /\ unbonding \in Int /\ liquid \in Int
      /\ pot \in Nat /\ minted \in Nat /\ gone \in Int /\ rounded \in Nat
  BY DEF TypeOK
<1>d. /\ Decimal(coin) \in Int /\ Decimal(pot) \in Int /\ Decimal(minted) \in Int
      /\ Decimal(rounded) \in Int /\ Unit \in Nat
  BY <1>t, DecimalLinear, UnitAssumption, SMTT(60)
<1>1. ASSUME NEW n \in 1..MaxMinted, Mint(n) PROVE IInv'
  <2>1. n \in Nat /\ Decimal(n) \in Int /\ Decimal(minted + n) = Decimal(minted) + Decimal(n)
    <3>1. n \in Nat
      BY PursesAssumption, SMTT(60)
    <3> QED BY <1>t, <3>1, DecimalLinear, SMTT(60)
  <2>2. /\ coin' \in Nat /\ gone' \in Int
        /\ Decimal(coin') + gone' = Decimal(coin) + gone + Decimal(n)
    BY <1>1, <2>1, GiveCoinKeeps DEF Mint
  <2>3. Decimal(coin') \in Int
    BY <2>2, DecimalLinear, SMTT(60)
  <2>4. TypeOK' /\ IsWhole'
    BY <1>1, <1>t, <2>1, <2>2, SMTT(60) DEF Mint, TypeOK, IsWhole
  <2>5. Balanced'
    BY <1>1, <1>t, <1>d, <2>1, <2>2, <2>3, SMTT(60) DEF Mint, Balanced, Held
  <2> QED BY <2>4, <2>5
<1>2. ASSUME NEW n \in 1..MaxMinted, add_stake(n) PROVE IInv'
  <2>1. n \in Nat /\ Decimal(n) \in Int /\ Decimal(coin - n) = Decimal(coin) - Decimal(n)
    BY <1>t, PursesAssumption, DecimalLinear, SMTT(60)
  <2>2. coin' \in Nat /\ coin' = coin - n
    BY <1>2, <1>t, <2>1, SMTT(60) DEF add_stake, CoinTake, SubAmount, CheckedAmount
  <2>3. staked' \in Int /\ gone' \in Int /\ staked' + gone' = staked + gone + Decimal(n)
    BY <1>2, <1>t, <2>1, SMTT(60) DEF add_stake, ShareGive, AddDecimal, CheckedDecimal
  <2>4. TypeOK' /\ IsWhole'
    BY <1>2, <1>t, <2>1, <2>2, <2>3 DEF add_stake, TypeOK, IsWhole
  <2>5. Balanced'
    BY <1>2, <1>t, <1>d, <2>1, <2>2, <2>3, SMTT(60) DEF add_stake, Balanced, Held
  <2> QED BY <2>4, <2>5
<1>3. ASSUME NEW n \in 1..MaxMinted, unbond(n) PROVE IInv'
  <2>1. n \in Nat /\ Decimal(n) \in Int
    BY PursesAssumption, DecimalLinear, SMTT(60)
  <2>2. staked' \in Int /\ staked' = staked - Decimal(n)
    BY <1>3, <1>t, <2>1, ShareTakeExact DEF unbond
  <2>3. TypeOK' /\ IsWhole'
    BY <1>3, <1>t, <2>1, <2>2 DEF unbond, TypeOK, IsWhole
  <2>4. Balanced'
    BY <1>3, <1>t, <1>d, <2>1, <2>2, SMTT(60) DEF unbond, Balanced, Held
  <2> QED BY <2>3, <2>4
<1>4. ASSUME NEW n \in 1..MaxMinted, unbond_now(n) PROVE IInv'
  <2>1. n \in Nat /\ Decimal(n) \in Int
    BY PursesAssumption, DecimalLinear, SMTT(60)
  <2>2. staked' \in Int /\ staked' = staked - Decimal(n)
    BY <1>4, <1>t, <2>1, ShareTakeExact DEF unbond_now
  <2>3. /\ liquid' \in Int /\ gone' \in Int /\ IsWhole'
        /\ liquid' + gone' = liquid + gone + Decimal(n)
    BY <1>4, <2>1, GiveLiquidKeeps DEF unbond_now
  <2>4. TypeOK'
    BY <1>4, <1>t, <2>2, <2>3 DEF unbond_now, TypeOK
  <2>5. Balanced'
    BY <1>4, <1>t, <1>d, <2>1, <2>2, <2>3, SMTT(60) DEF unbond_now, Balanced, Held
  <2> QED BY <2>3, <2>4, <2>5
<1>5. ASSUME NEW n \in 1..MaxMinted, adjust_entry(n) PROVE IInv'
  <2>1. n \in Nat /\ Decimal(n) \in Int /\ Decimal(pot - n) = Decimal(pot) - Decimal(n)
    BY <1>t, PursesAssumption, DecimalLinear, SMTT(60)
  <2>2. /\ liquid' \in Int /\ gone' \in Int /\ IsWhole'
        /\ liquid' + gone' = liquid + gone + Decimal(n)
    BY <1>5, <2>1, GiveLiquidKeeps DEF adjust_entry
  <2>3. TypeOK'
    BY <1>5, <1>t, <2>1, <2>2, SMTT(60) DEF adjust_entry, TypeOK
  <2>4. Balanced'
    BY <1>5, <1>t, <1>d, <2>1, <2>2, SMTT(60) DEF adjust_entry, Balanced, Held
  <2> QED BY <2>2, <2>3, <2>4
<1>6. ASSUME NEW n \in 1..MaxMinted, NEW rate \in Rates, give(n, rate) PROVE IInv'
  <2>1. n \in Nat /\ Decimal(n) \in Int /\ Decimal(minted + n) = Decimal(minted) + Decimal(n)
    <3>1. n \in Nat
      BY PursesAssumption, SMTT(60)
    <3> QED BY <1>t, <3>1, DecimalLinear, SMTT(60)
  <2>2. CASE gone' = gone + Decimal(n) /\ UNCHANGED <<pot, liquid, rounded>>
    <3>1. TypeOK' /\ IsWhole'
      BY <1>6, <1>t, <2>1, <2>2, SMTT(60) DEF give, TypeOK, IsWhole
    <3>2. Balanced'
      BY <1>6, <1>t, <1>d, <2>1, <2>2, SMTT(60) DEF give, Balanced, Held
    <3> QED BY <3>1, <3>2
  <2>3. CASE /\ \E d \in delegator_amount(n, rate), v \in validator_amount(n, rate) :
                  pot' = pot + d /\ GiveLiquid(v)
             /\ rounded' = rounded + 2
    <3>1. PICK d \in delegator_amount(n, rate), v \in validator_amount(n, rate) :
                  pot' = pot + d /\ GiveLiquid(v)
      BY <2>3
    <3>2. /\ d \in Nat /\ v \in Nat
          /\ 2 * (Decimal(d) + Decimal(v) - Decimal(n)) <= Unit + Unit
          /\ 2 * (Decimal(n) - Decimal(d) - Decimal(v)) <= Unit + Unit
      BY <2>1, SplitError
    <3>3. /\ Decimal(d) \in Int /\ Decimal(v) \in Int
          /\ Decimal(pot + d) = Decimal(pot) + Decimal(d)
      BY <1>t, <3>2, DecimalLinear, SMTT(60)
    <3>4. Decimal(rounded + 2) = Decimal(rounded) + Unit + Unit
      BY <1>t, UnitAssumption, SMTT(60) DEF Decimal
    <3>5. /\ liquid' \in Int /\ gone' \in Int /\ IsWhole'
          /\ liquid' + gone' = liquid + gone + Decimal(v)
      BY <3>1, <3>2, GiveLiquidKeeps
    <3>6. TypeOK'
      BY <1>6, <1>t, <2>1, <2>3, <3>1, <3>2, <3>5, SMTT(60) DEF give, TypeOK
    <3>7. Balanced'
      <4>1. UNCHANGED <<coin, staked, unbonding>> /\ minted' = minted + n
        BY <1>6 DEF give
      <4> QED BY <1>t, <1>d, <2>1, <2>3, <3>1, <3>2, <3>3, <3>4, <3>5, <4>1, SMTT(60) DEF Balanced, Held
    <3> QED BY <3>5, <3>6, <3>7
  <2> QED BY <1>6, <2>2, <2>3 DEF give
<1>7. ASSUME NEW m \in Rates, NEW fault \in BOOLEAN, slash(m, fault) PROVE IInv'
  <2>1. m \in Int
    BY PursesAssumption, UnitAssumption, SMTT(60)
  <2>2. PICK s \in MulDecimal(staked, m),
             u \in IF fault THEN {unbonding} ELSE MulDecimal(unbonding, m) :
                /\ staked' = s /\ unbonding' = u
                /\ gone' = gone + (staked - s) + (unbonding - u)
    BY <1>7 DEF slash
  <2>3. s \in Int /\ u \in Int
    BY <1>t, <2>1, <2>2, MulDecimalType
  <2>4. TypeOK' /\ IsWhole'
    BY <1>7, <1>t, <2>2, <2>3, SMTT(60) DEF slash, TypeOK, IsWhole
  <2>5. Balanced'
    BY <1>7, <1>t, <1>d, <2>2, <2>3, SMTT(60) DEF slash, Balanced, Held
  <2> QED BY <2>4, <2>5
<1>8. ASSUME process_unbonds PROVE IInv'
  <2>1. CASE (\E n \in ToAmount(unbonding) : GiveLiquid(n)) /\ rounded' = rounded + 1
    <3>1. PICK n \in ToAmount(unbonding) : GiveLiquid(n)
      BY <2>1
    <3>2. /\ n \in Nat
          /\ 2 * (Decimal(n) - unbonding) <= Unit /\ 2 * (unbonding - Decimal(n)) <= Unit
      BY <1>t, ToAmountError
    <3>3. Decimal(n) \in Int /\ Decimal(rounded + 1) = Decimal(rounded) + Unit
      BY <1>t, <3>2, DecimalLinear, SMTT(60)
    <3>4. /\ liquid' \in Int /\ gone' \in Int /\ IsWhole'
          /\ liquid' + gone' = liquid + gone + Decimal(n)
      BY <3>1, <3>2, GiveLiquidKeeps
    <3>5. TypeOK'
      BY <1>8, <1>t, <2>1, <3>4, SMTT(60) DEF process_unbonds, TypeOK
    <3>6. Balanced'
      <4>1. UNCHANGED <<coin, staked, pot, minted>> /\ unbonding' = 0
        BY <1>8 DEF process_unbonds
      <4> QED BY <1>t, <1>d, <2>1, <3>2, <3>3, <3>4, <4>1, SMTT(60) DEF Balanced, Held
    <3> QED BY <3>4, <3>5, <3>6
  <2>2. CASE gone' = gone + unbonding /\ UNCHANGED <<liquid, rounded>>
    <3>1. TypeOK' /\ IsWhole'
      BY <1>8, <1>t, <2>2, SMTT(60) DEF process_unbonds, TypeOK, IsWhole
    <3>2. Balanced'
      BY <1>8, <1>t, <1>d, <2>2, SMTT(60) DEF process_unbonds, Balanced, Held
    <3> QED BY <3>1, <3>2
  <2> QED BY <1>8, <2>1, <2>2 DEF process_unbonds
<1>9. ASSUME claim PROVE IInv'
  <2>1. PICK n \in ToAmount(liquid) : liquid' \in deduct(liquid, n) /\ GiveCoin(n)
    BY <1>9 DEF claim
  <2>2. n \in Nat /\ Decimal(n) \in Int
    <3>1. n \in Nat
      BY <1>t, ToAmountError
    <3> QED BY <3>1, DecimalLinear, SMTT(60)
  <2>3. liquid' = liquid - Decimal(n)
    BY <1>t, <2>1, <2>2 DEF deduct, SubDecimal, CheckedDecimal
  <2>4. /\ coin' \in Nat /\ gone' \in Int
        /\ Decimal(coin') + gone' = Decimal(coin) + gone + Decimal(n)
    BY <2>1, <2>2, GiveCoinKeeps
  <2>5. IsWhole'
    <3>1. PICK k \in Int : liquid = Decimal(k)
      BY DEF IsWhole
    <3>2. liquid' = Decimal(k - n) /\ k - n \in Int
      BY <2>2, <2>3, <3>1, DecimalLinear, SMTT(60)
    <3> QED BY <3>2 DEF IsWhole
  <2>6. TypeOK'
    BY <1>9, <1>t, <2>2, <2>3, <2>4, SMTT(60) DEF claim, TypeOK
  <2>7. Balanced'
    <3>1. UNCHANGED <<staked, unbonding, pot, minted, rounded>> /\ Decimal(coin') \in Int
      BY <1>9, <2>4, DecimalLinear, SMTT(60) DEF claim
    <3> QED BY <1>t, <1>d, <2>2, <2>3, <2>4, <3>1, SMTT(60) DEF Balanced, Held
  <2> QED BY <2>5, <2>6, <2>7
<1>10. CASE UNCHANGED vars
  BY <1>10 DEF vars, TypeOK, Balanced, IsWhole, Held
<1> QED BY <1>1, <1>2, <1>3, <1>4, <1>5, <1>6, <1>7, <1>8, <1>9, <1>10 DEF Next

\* and it says that coins are accounted for.
LEMMA InductiveImplies == IInv => CoinsAreAccountedFor
<1> SUFFICES ASSUME IInv PROVE CoinsAreAccountedFor
  OBVIOUS
<1>1. ASSUME NEW n \in ToAmount(liquid) PROVE Decimal(n) = liquid
  <2>1. PICK k \in Int : liquid = Decimal(k)
    BY DEF IInv, IsWhole
  <2>2. n = amount(liquid)
    BY <1>1 DEF ToAmount, CheckedAmount
  <2> QED BY <2>1, <2>2, AmountExact
<1> QED BY <1>1 DEF IInv, Balanced, CoinsAreAccountedFor

(***************************************************************************)
(* Purses lose or make at most half a coin for each use of Decimal::amount *)
(* and claims are covered, whatever the precision of Decimal, the largest  *)
(* amount, the commission rates and the slashing multipliers.              *)
(***************************************************************************)
THEOREM PursesAreSound == Spec => []CoinsAreAccountedFor
<1>1. Init => IInv
  BY InductiveInit
<1>2. IInv /\ [Next]_vars => IInv'
  BY InductiveNext
<1>3. IInv => CoinsAreAccountedFor
  BY InductiveImplies
<1> QED BY <1>1, <1>2, <1>3, PTL DEF Spec

-----------------------------------------------------------------------------
(* MapCollection. *)

Assumptions == MapAssumption /\ ChildAssumption /\ Careful

MapType ==
    /\ store \in [Key -> Value \cup {Absent}]
    /\ substore \in [Key -> [SubKey -> Value \cup {Absent}]]
    /\ children \in [Key -> Child \cup {Absent, Clean}]

\* Nothing is left below a key without a value.
NoOrphans == \A k \in Key : store[k] = Absent => substore[k] = NoEntries

\* A value that is attached below another key, since a swap, has nothing below
\* it, nor has the value that is now at that key: flushing either in whatever
\* order writes nothing that the other reads.
Moved(k, j) == contains_key(k) /\ Loaded(k).at = j /\ j # k
MovedAreBare ==
    \A k, j \in Key : Moved(k, j) =>
        /\ Loaded(k).changes = NoChanges
        /\ substore[k] = NoEntries /\ substore[j] = NoEntries
        /\ contains_key(j) => Loaded(j).changes = NoChanges

\* The inductive invariant.
MapInv == Assumptions /\ MapType /\ NoOrphans /\ MovedAreBare

-----------------------------------------------------------------------------
\* A key that is there has a value, wherever it is held, and reads as one.
LEMMA LoadedIsChild ==
    ASSUME MapInv, NEW k \in Key
    PROVE  /\ contains_key(k) => Loaded(k) \in Child /\ get(k) \in Read
           /\ contains_key(k) <=> get(k) # Absent
           /\ children[k] \notin {Absent, Clean} => children[k] \in Child /\ contains_key(k)
<1>1. contains_key(k) => Loaded(k) \in Child
  <2>1. CASE children[k] = Clean
    <3>1. contains_key(k) => store[k] \in Value
      BY <2>1 DEF MapInv, MapType, contains_key
    <3>2. NoChanges \in [SubKey -> Value \cup {Absent, Clean}]
      BY DEF NoChanges
    <3>3. QED
      BY <2>1, <3>1, <3>2 DEF Loaded, get_from_store, Child
  <2>2. CASE children[k] # Clean
    BY <2>2 DEF MapInv, MapType, contains_key, Loaded
  <2>3. QED
    BY <2>1, <2>2
<1>2. contains_key(k) => get(k) \in Read
  <2>1. SUFFICES ASSUME contains_key(k)
                 PROVE  get(k) \in Read
    OBVIOUS
  <2>2. Loaded(k) \in Child
    BY <1>1, <2>1
  <2>3. substore[Loaded(k).at] \in [SubKey -> Value \cup {Absent}]
    BY <2>2 DEF MapInv, MapType, Child
  <2>4. Loaded(k).changes \in [SubKey -> Value \cup {Absent, Clean}] /\ Loaded(k).base \in Value
    BY <2>2 DEF Child
  <2>5. Entries(Loaded(k)) \in [SubKey -> Value \cup {Absent}]
    BY <2>3, <2>4 DEF Entries
  <2>6. QED
    BY <2>1, <2>4, <2>5 DEF get, Read
<1>3. contains_key(k) <=> get(k) # Absent
  BY <1>2 DEF get, MapInv, Assumptions, ChildAssumption
<1>4. children[k] \notin {Absent, Clean} => children[k] \in Child /\ contains_key(k)
  BY DEF MapInv, MapType, contains_key
<1>5. QED
  BY <1>1, <1>2, <1>3, <1>4

\* A value that takes the place of what a key holds: fresh, as it was but for its
\* own data, or changed below it while no value is moved.
Fits(k, child) ==
    \/ child.at = k /\ child.changes = NoChanges
    \/ contains_key(k) /\ child.at = Loaded(k).at /\ child.changes = Loaded(k).changes
    \/ child.at = k /\ Settled

\* Putting a value into children changes what is read at its key only.
LEMMA PutChild ==
    ASSUME MapInv, NEW k \in Key, NEW child \in Child, Fits(k, child),
           children' = [children EXCEPT ![k] = child], UNCHANGED <<store, substore>>
    PROVE  /\ MapInv'
           /\ Contents' = [Contents EXCEPT ![k] = [base |-> child.base, entries |-> Entries(child)]]
<1>1. MapType'
  BY DEF MapInv, MapType
<1>2. NoOrphans'
  BY DEF MapInv, NoOrphans
<1>3. children'[k] = child /\ \A m \in Key : m # k => children'[m] = children[m]
  BY DEF MapInv, MapType
<1>4. contains_key(k)' /\ Loaded(k)' = child
  BY <1>3 DEF MapInv, Assumptions, ChildAssumption, contains_key, Loaded
<1>5. ASSUME NEW m \in Key, m # k
      PROVE  contains_key(m)' = contains_key(m) /\ Loaded(m)' = Loaded(m) /\ get(m)' = get(m)
  BY <1>3, <1>5 DEF contains_key, Loaded, get_from_store, get, Entries
<1>6. get(k)' = [base |-> child.base, entries |-> Entries(child)]
  BY <1>4 DEF get, Entries
<1>7. Contents' = [Contents EXCEPT ![k] = [base |-> child.base, entries |-> Entries(child)]]
  BY <1>5, <1>6 DEF Contents
<1>8. MovedAreBare'
  <2>1. SUFFICES ASSUME NEW m \in Key, NEW j \in Key, Moved(m, j)'
                 PROVE  /\ Loaded(m)'.changes = NoChanges
                        /\ substore[m] = NoEntries /\ substore[j] = NoEntries
                        /\ contains_key(j)' => Loaded(j)'.changes = NoChanges
    BY DEF MovedAreBare, NoChanges, NoEntries
  <2>2. CASE m = k
    <3>1. Moved(k, j) /\ child.changes = Loaded(k).changes
      BY <1>4, <2>1, <2>2 DEF Moved, Fits
    <3>2. QED
      BY <1>4, <1>5, <2>2, <3>1 DEF MapInv, MovedAreBare, Moved
  <2>3. CASE m # k
    <3>1. Moved(m, j) /\ Loaded(m)' = Loaded(m)
      BY <1>5, <2>1, <2>3 DEF Moved
    <3>2. CASE j # k
      BY <1>5, <3>1, <3>2 DEF MapInv, MovedAreBare
    <3>3. CASE j = k
      <4>1. ~Settled
        BY <3>1 DEF Settled, Moved
      <4>2. child.changes = NoChanges
        BY <3>1, <3>3, <4>1 DEF Fits, MapInv, MovedAreBare
      <4>3. QED
        BY <1>4, <3>1, <3>3, <4>2 DEF MapInv, MovedAreBare
    <3>4. QED
      BY <3>2, <3>3
  <2>4. QED
    BY <2>2, <2>3
<1>9. QED
  BY <1>1, <1>2, <1>7, <1>8 DEF MapInv, Assumptions

\* remove leaves a None, or nothing, where the value was.
LEMMA RemoveChild ==
    ASSUME MapInv, NEW k \in Key, UNCHANGED <<store, substore>>,
           children' = [children EXCEPT ![k] = IF Occupied(k) THEN Absent ELSE Clean]
    PROVE  /\ MapInv'
           /\ Contents' = [Contents EXCEPT ![k] = Absent]
<1>1. MapType' /\ NoOrphans'
  BY DEF MapInv, MapType, NoOrphans
<1>2. ~contains_key(k)'
  BY StoreAssumption DEF MapInv, MapType, contains_key, Occupied
<1>3. ASSUME NEW m \in Key, m # k
      PROVE  contains_key(m)' = contains_key(m) /\ Loaded(m)' = Loaded(m) /\ get(m)' = get(m)
  <2>1. children'[m] = children[m]
    BY <1>3 DEF MapInv, MapType
  <2>2. QED
    BY <2>1 DEF contains_key, Loaded, get_from_store, get, Entries
<1>4. get(k)' = Absent
  BY <1>2 DEF get
<1>5. Contents' = [Contents EXCEPT ![k] = Absent]
  BY <1>3, <1>4 DEF Contents
<1>6. MovedAreBare'
  <2>1. SUFFICES ASSUME NEW m \in Key, NEW j \in Key, Moved(m, j)'
                 PROVE  /\ Loaded(m)'.changes = NoChanges
                        /\ substore[m] = NoEntries /\ substore[j] = NoEntries
                        /\ contains_key(j)' => Loaded(j)'.changes = NoChanges
    BY DEF MovedAreBare, NoChanges, NoEntries
  <2>2. m # k /\ Moved(m, j) /\ Loaded(m)' = Loaded(m)
    BY <1>2, <1>3, <2>1 DEF Moved
  <2>3. QED
    BY <1>2, <1>3, <2>2 DEF MapInv, MovedAreBare
<1>7. QED
  BY <1>1, <1>5, <1>6 DEF MapInv, Assumptions

\* swap exchanges what is read at two keys: each value still reads the entries
\* below the key it is attached to.
LEMMA SwapChildren ==
    ASSUME MapInv, NEW a \in Key, NEW b \in Key, swap(a, b)
    PROVE  /\ MapInv'
           /\ Contents' = [Contents EXCEPT ![a] = Contents[b], ![b] = Contents[a]]
<1>1. /\ Bare(a) /\ Bare(b) /\ contains_key(a) /\ contains_key(b)
      /\ Loaded(a) \in Child /\ Loaded(b) \in Child
      /\ UNCHANGED <<store, substore>>
      /\ children' = [children EXCEPT ![a] = Loaded(b), ![b] = Loaded(a)]
  BY LoadedIsChild DEF swap, MapInv, Assumptions
<1>2. MapType' /\ NoOrphans'
  BY <1>1 DEF MapInv, MapType, NoOrphans
<1>3. /\ children'[b] = Loaded(a) /\ children'[a] = Loaded(b)
      /\ \A m \in Key : m # a /\ m # b => children'[m] = children[m]
  BY <1>1 DEF MapInv, MapType
<1>4. /\ contains_key(a)' /\ Loaded(a)' = Loaded(b)
      /\ contains_key(b)' /\ Loaded(b)' = Loaded(a)
  BY <1>1, <1>3 DEF MapInv, Assumptions, ChildAssumption, contains_key, Loaded
<1>5. get(a)' = get(b) /\ get(b)' = get(a)
  BY <1>1, <1>4 DEF get, Entries
<1>6. ASSUME NEW m \in Key, m # a, m # b
      PROVE  contains_key(m)' = contains_key(m) /\ Loaded(m)' = Loaded(m) /\ get(m)' = get(m)
  BY <1>1, <1>3, <1>6 DEF contains_key, Loaded, get_from_store, get, Entries
<1>7. Contents' = [Contents EXCEPT ![a] = Contents[b], ![b] = Contents[a]]
  <2>1. \A m \in Key : get(m)' = IF m = b THEN get(a) ELSE IF m = a THEN get(b) ELSE get(m)
    BY <1>5, <1>6
  <2>2. QED
    BY <2>1 DEF Contents
<1>8. MovedAreBare'
  <2>1. SUFFICES ASSUME NEW m \in Key, NEW j \in Key, Moved(m, j)'
                 PROVE  /\ Loaded(m)'.changes = NoChanges
                        /\ substore[m] = NoEntries /\ substore[j] = NoEntries
                        /\ contains_key(j)' => Loaded(j)'.changes = NoChanges
    BY <1>1 DEF MovedAreBare, NoChanges, NoEntries
  <2>2. Loaded(a).changes = NoChanges /\ Loaded(b).changes = NoChanges
    BY <1>1 DEF Bare
  <2>3. substore[a] = NoEntries /\ substore[b] = NoEntries
    BY <1>1 DEF Bare
  <2>4. substore[Loaded(a).at] = NoEntries /\ substore[Loaded(b).at] = NoEntries
    BY <1>1, <2>3 DEF MapInv, MovedAreBare, Moved, Child
  <2>5. j # a /\ j # b /\ contains_key(j) /\ (Loaded(a).at = j \/ Loaded(b).at = j)
          => Loaded(j).changes = NoChanges
    BY <1>1 DEF MapInv, MovedAreBare, Moved
  <2>6. CASE m \in {a, b}
    BY <1>4, <1>6, <2>1, <2>2, <2>3, <2>4, <2>5, <2>6 DEF Moved
  <2>7. CASE m \notin {a, b}
    <3>1. Moved(m, j) /\ Loaded(m)' = Loaded(m)
      BY <1>6, <2>1, <2>7 DEF Moved
    <3>2. QED
      BY <1>4, <1>6, <2>2, <3>1 DEF MapInv, MovedAreBare
  <2>8. QED
    BY <2>6, <2>7
<1>9. QED
  BY <1>2, <1>7, <1>8 DEF MapInv, Assumptions

\* Flushing a key changes nothing that is read, at that key or at another.
LEMMA FlushChild ==
    ASSUME MapInv, NEW k \in Key, children[k] # Clean, apply_change(k)
    PROVE  MapInv' /\ Contents' = Contents
<1>1. /\ children'[k] = Clean
      /\ \A m \in Key : m # k => children'[m] = children[m]
      /\ \A m \in Key : m # k => store'[m] = store[m]
  BY DEF apply_change, MapInv, MapType
<1>2. ASSUME NEW child \in Child, children[k] = child
      PROVE  /\ contains_key(k) /\ Loaded(k) = child
             /\ store' = [store EXCEPT ![k] = child.base]
             /\ substore' = [substore EXCEPT ![child.at] = Entries(child)]
             /\ Entries(child) \in [SubKey -> Value \cup {Absent}]
             /\ child.base \in Value /\ child.base # Absent /\ child.at \in Key
             /\ child.at # k => substore' = substore /\ substore[k] = Entries(child)
             /\ \A m \in Key : Moved(m, k) => Entries(child) = NoEntries
  <2>1. child # Absent /\ child # Clean
    BY DEF MapInv, Assumptions, ChildAssumption
  <2>2. contains_key(k) /\ Loaded(k) = child
    BY <1>2, <2>1 DEF contains_key, Loaded
  <2>3. /\ store' = [store EXCEPT ![k] = child.base]
        /\ substore' = [substore EXCEPT ![child.at] = Entries(child)]
    BY <1>2, <2>1 DEF apply_change
  <2>4. /\ child.base \in Value /\ child.base # Absent /\ child.at \in Key
        /\ child.changes \in [SubKey -> Value \cup {Absent, Clean}]
    BY StoreAssumption DEF Child, MapInv, Assumptions, MapAssumption
  <2>5. substore[child.at] \in [SubKey -> Value \cup {Absent}]
    BY <2>4 DEF MapInv, MapType
  <2>6. Entries(child) \in [SubKey -> Value \cup {Absent}]
    BY <2>4, <2>5 DEF Entries
  <2>7. child.changes = NoChanges => Entries(child) = substore[child.at]
    BY <2>4, <2>5 DEF Entries, NoChanges
  <2>8. ASSUME child.at # k
        PROVE  substore' = substore /\ substore[k] = Entries(child)
    <3>1. Moved(k, child.at)
      BY <2>2, <2>8 DEF Moved
    <3>2. Entries(child) = substore[child.at] /\ substore[k] = substore[child.at]
      BY <2>2, <2>4, <2>7, <3>1 DEF MapInv, MovedAreBare
    <3>3. QED
      BY <2>3, <2>4, <3>2 DEF MapInv, MapType
  <2>9. ASSUME NEW m \in Key, Moved(m, k)
        PROVE  Entries(child) = NoEntries
    <3>1. child.changes = NoChanges /\ substore[k] = NoEntries
      BY <2>2, <2>9 DEF MapInv, MovedAreBare
    <3>2. QED
      BY <2>7, <2>8, <3>1
  <2>10. QED
    BY <2>2, <2>3, <2>4, <2>6, <2>8, <2>9
<1>3. /\ store' \in [Key -> Value \cup {Absent}]
      /\ substore' \in [Key -> [SubKey -> Value \cup {Absent}]]
      /\ \A m \in Key : m # k => substore'[m] = substore[m]
      /\ \A m \in Key : Moved(m, k) => substore'[k] = NoEntries
      /\ store'[k] = Absent => substore'[k] = NoEntries
      /\ contains_key(k)' = contains_key(k)
      /\ get(k)' = get(k)
      /\ Loaded(k)'.changes = NoChanges /\ Loaded(k)'.at = k
  <2>1. Loaded(k)'.changes = NoChanges /\ Loaded(k)'.at = k
    BY <1>1 DEF Loaded, get_from_store, NoChanges
  <2>2. CASE children[k] = Absent
    <3>1. /\ store' = [store EXCEPT ![k] = Absent]
          /\ substore' = [substore EXCEPT ![k] = NoEntries]
      <4>1. children[k] \notin Child
        BY <2>2 DEF MapInv, Assumptions, ChildAssumption
      <4>2. QED
        BY <2>2 DEF apply_change
    <3>2. ~contains_key(k) /\ ~contains_key(k)'
      BY <1>1, <2>2, <3>1 DEF contains_key, MapInv, MapType
    <3>3. contains_key(k)' = contains_key(k) /\ get(k)' = get(k)
      BY <3>2 DEF get, contains_key
    <3>4. NoEntries \in [SubKey -> Value \cup {Absent}]
      BY DEF NoEntries
    <3>5. QED
      BY <2>1, <3>1, <3>3, <3>4 DEF MapInv, MapType
  <2>3. CASE children[k] # Absent
    <3>1. children[k] \in Child
      BY <2>3 DEF MapInv, MapType
    <3>2. PICK child \in Child : children[k] = child
      BY <3>1
    <3>3. /\ contains_key(k) /\ Loaded(k) = child
          /\ store' = [store EXCEPT ![k] = child.base]
          /\ substore' = [substore EXCEPT ![child.at] = Entries(child)]
          /\ Entries(child) \in [SubKey -> Value \cup {Absent}]
          /\ child.base \in Value /\ child.base # Absent /\ child.at \in Key
          /\ child.at # k => substore' = substore /\ substore[k] = Entries(child)
          /\ \A m \in Key : Moved(m, k) => Entries(child) = NoEntries
      BY <1>2, <3>2
    <3>4. store'[k] = child.base /\ substore'[k] = Entries(child)
      BY <3>3 DEF MapInv, MapType
    <3>5. contains_key(k)' /\ Loaded(k)' = [base |-> child.base, changes |-> NoChanges, at |-> k]
      BY <1>1, <3>3, <3>4 DEF contains_key, Loaded, get_from_store, NoChanges
    <3>6. Entries(Loaded(k))' = substore'[k]
      BY <3>3, <3>4, <3>5, SMTT(60) DEF Entries, NoChanges
    <3>7. get(k)' = get(k)
      BY <3>3, <3>4, <3>5, <3>6, SMTT(60) DEF get
    <3>8. /\ store' \in [Key -> Value \cup {Absent}]
          /\ substore' \in [Key -> [SubKey -> Value \cup {Absent}]]
          /\ \A m \in Key : m # k => substore'[m] = substore[m]
      BY <3>3 DEF MapInv, MapType
    <3>9. QED
      BY <2>1, <3>3, <3>4, <3>5, <3>7, <3>8
  <2>4. QED
    BY <2>2, <2>3
<1>4. MapType' /\ NoOrphans'
  <2>1. children' = [children EXCEPT ![k] = Clean]
    BY DEF apply_change
  <2>2. QED
    BY <1>1, <1>3, <2>1 DEF MapInv, MapType, NoOrphans, NoEntries
<1>5. ASSUME NEW m \in Key, m # k
      PROVE  contains_key(m)' = contains_key(m) /\ Loaded(m)' = Loaded(m) /\ get(m)' = get(m)
  <2>1. contains_key(m)' = contains_key(m) /\ Loaded(m)' = Loaded(m)
    BY <1>1, <1>5 DEF contains_key, Loaded, get_from_store, NoChanges
  <2>2. ASSUME contains_key(m)
        PROVE  substore'[Loaded(m).at] = substore[Loaded(m).at]
    <3>1. Loaded(m).at \in Key
      BY <2>2, LoadedIsChild DEF Child
    <3>2. CASE Loaded(m).at = k
      BY <1>3, <1>5, <2>2, <3>2 DEF Moved, MapInv, MovedAreBare
    <3>3. QED
      BY <1>3, <3>1, <3>2
  <2>3. QED
    BY <2>1, <2>2 DEF get, Entries
<1>6. Contents' = Contents
  BY <1>3, <1>5 DEF Contents
<1>7. MovedAreBare'
  <2>1. SUFFICES ASSUME NEW m \in Key, NEW j \in Key, Moved(m, j)'
                 PROVE  /\ Loaded(m)'.changes = NoChanges
                        /\ substore'[m] = NoEntries /\ substore'[j] = NoEntries
                        /\ contains_key(j)' => Loaded(j)'.changes = NoChanges
    BY DEF MovedAreBare, NoChanges, NoEntries
  <2>2. m # k /\ Moved(m, j) /\ Loaded(m)' = Loaded(m)
    BY <1>3, <1>5, <2>1 DEF Moved
  <2>3. /\ Loaded(m).changes = NoChanges
        /\ substore[m] = NoEntries /\ substore[j] = NoEntries
        /\ contains_key(j) => Loaded(j).changes = NoChanges
    BY <2>2 DEF MapInv, MovedAreBare
  <2>4. QED
    BY <1>3, <1>5, <2>2, <2>3
<1>8. QED
  BY <1>4, <1>6, <1>7 DEF MapInv, Assumptions

-----------------------------------------------------------------------------
\* A new Map is an empty dictionary.
LEMMA MapStart ==
    ASSUME Assumptions, MapInit
    PROVE  MapInv /\ D!DictionaryInit
<1>1. MapType /\ NoOrphans
  BY DEF MapInit, MapType, NoOrphans, NoChildren, NoEntries
<1>2. \A k \in Key : ~contains_key(k)
  BY DEF MapInit, contains_key, NoChildren
<1>3. MovedAreBare
  BY <1>2 DEF MovedAreBare, Moved
<1>4. Contents = [k \in Key |-> Absent]
  BY <1>2 DEF Contents, get
<1>5. QED
  BY <1>1, <1>3, <1>4 DEF MapInv, MapInit, D!DictionaryInit

\* A step of the map keeps the invariant and is a step of the dictionary, or
\* changes nothing that can be read.
LEMMA MapStep ==
    ASSUME MapInv, [MapNext]_map_vars
    PROVE  MapInv' /\ D!DictionaryStep
<1> USE DEF D!DictionaryStep, D!DictionaryNext
<1>1. ASSUME UNCHANGED <<store, substore, children, last>>
      PROVE  MapInv' /\ UNCHANGED <<Contents, last>>
  <2>1. \A k \in Key : /\ contains_key(k)' = contains_key(k)
                       /\ Loaded(k)' = Loaded(k) /\ get(k)' = get(k)
    BY <1>1, SMTT(60) DEF contains_key, Loaded, get_from_store, get, Entries
  <2>2. MovedAreBare'
    BY <1>1, <2>1, SMTT(60) DEF MapInv, MovedAreBare, Moved, NoChanges, NoEntries
  <2>3. MapType' /\ NoOrphans'
    BY <1>1 DEF MapInv, MapType, NoOrphans, NoEntries
  <2>4. QED
    BY <1>1, <2>1, <2>2, <2>3 DEF MapInv, Assumptions, Contents
<1>2. \A k \in Key, v \in Value :
         LET new == [base |-> v, changes |-> NoChanges, at |-> k]
         IN  /\ new \in Child
             /\ substore[k] = NoEntries => Entries(new) = NoEntries
  <2>1. NoChanges \in [SubKey -> Value \cup {Absent, Clean}]
    BY DEF NoChanges
  <2>2. ASSUME NEW k \in Key, NEW v \in Value, substore[k] = NoEntries
        PROVE  Entries([base |-> v, changes |-> NoChanges, at |-> k]) = NoEntries
    BY <2>2 DEF Entries, NoChanges, NoEntries
  <2>3. QED
    BY <2>1, <2>2 DEF Child
<1>3. ASSUME NEW k \in Key, NEW v \in Value, insert(k, v)
      PROVE  MapInv' /\ D!Set(k, v)
  <2> DEFINE new == [base |-> v, changes |-> NoChanges, at |-> k]
  <2>1. new \in Child /\ Entries(new) = NoEntries
    BY <1>2, <1>3 DEF insert, MapInv, Assumptions
  <2>2. children' = [children EXCEPT ![k] = new] /\ UNCHANGED <<store, substore>>
    BY <1>3 DEF insert
  <2>3. Fits(k, new) /\ new.base = v
    BY DEF Fits
  <2> HIDE DEF new
  <2>4. MapInv' /\ Contents' = [Contents EXCEPT ![k] = [base |-> v, entries |-> NoEntries]]
    BY <2>1, <2>2, <2>3, PutChild
  <2>5. QED
    BY <1>3, <2>4 DEF insert, D!Set, D!Fresh, NoEntries, D!NoEntries
<1>4. ASSUME NEW k \in Key, Occupied(k), ~Unwraps(k)
      PROVE  /\ contains_key(k) /\ Loaded(k) \in Child /\ get(k) # Absent
             /\ get(k) = [base |-> Loaded(k).base, entries |-> Entries(Loaded(k))]
             /\ Loaded(k) = [base |-> Loaded(k).base, changes |-> Loaded(k).changes, at |-> Loaded(k).at]
             /\ Loaded(k).changes \in [SubKey -> Value \cup {Absent, Clean}]
             /\ Loaded(k).base \in Value /\ Loaded(k).at \in Key
  <2>1. contains_key(k)
    BY <1>4 DEF Occupied, Unwraps, contains_key
  <2>2. Loaded(k) \in Child /\ get(k) # Absent
    BY <2>1, LoadedIsChild
  <2>3. QED
    BY <2>1, <2>2 DEF Child, get
<1>5. ASSUME NEW k \in Key, NEW v \in Value, or_insert(k, v)
      PROVE  MapInv' /\ (D!SetIfAbsent(k, v) \/ UNCHANGED <<Contents, last>>)
  <2>1. CASE Panic
    BY <1>1, <2>1 DEF Panic
  <2>2. CASE ~Unwraps(k) /\ Occupied(k) /\ ~Panic
    <3>1. /\ children' = [children EXCEPT ![k] = Loaded(k)] /\ UNCHANGED <<store, substore>>
          /\ last' = <<"or_insert", k, v>>
      BY <1>5, <2>2 DEF or_insert
    <3>2. Fits(k, Loaded(k)) /\ Loaded(k) \in Child
      BY <1>4, <2>2 DEF Fits
    <3>3. MapInv' /\ Contents' = [Contents EXCEPT ![k] = get(k)]
      <4>1. PICK old \in Child : old = Loaded(k)
        BY <3>2
      <4>2. MapInv' /\ Contents' = [Contents EXCEPT ![k] = [base |-> old.base, entries |-> Entries(old)]]
        BY <3>1, <3>2, <4>1, PutChild
      <4>3. QED
        BY <1>4, <2>2, <4>1, <4>2
    <3>4. QED
      BY <1>4, <2>2, <3>1, <3>3 DEF D!SetIfAbsent, Contents
  <2>3. CASE ~Unwraps(k) /\ ~Occupied(k) /\ ~Panic
    <3> DEFINE new == [base |-> v, changes |-> NoChanges, at |-> k]
    <3>1. /\ children' = [children EXCEPT ![k] = new] /\ UNCHANGED <<store, substore>>
          /\ last' = <<"or_insert", k, v>>
      BY <1>5, <2>3 DEF or_insert
    <3>2. substore[k] = NoEntries /\ get(k) = Absent
      BY <2>3 DEF Occupied, MapInv, NoOrphans, get, contains_key
    <3>3. new \in Child /\ Entries(new) = NoEntries /\ Fits(k, new) /\ new.base = v
      BY <1>2, <3>2 DEF Fits
    <3> HIDE DEF new
    <3>4. MapInv' /\ Contents' = [Contents EXCEPT ![k] = [base |-> v, entries |-> NoEntries]]
      BY <3>1, <3>3, PutChild
    <3>5. QED
      BY <3>1, <3>2, <3>4 DEF D!SetIfAbsent, D!Fresh, NoEntries, D!NoEntries, Contents
  <2>4. QED
    BY <1>5, <2>1, <2>2, <2>3 DEF or_insert
<1>6. ASSUME NEW k \in Key, NEW v \in Value, get_mut(k, v)
      PROVE  MapInv' /\ (D!Update(k, v) \/ UNCHANGED <<Contents, last>>)
  <2>1. CASE Panic
    BY <1>1, <2>1 DEF Panic
  <2>2. CASE ~Unwraps(k) /\ ~Panic
    <3> DEFINE new == [Loaded(k) EXCEPT !.base = v]
    <3>1. /\ children' = [children EXCEPT ![k] = new] /\ UNCHANGED <<store, substore>>
          /\ last' = <<"get_mut", k, v>> /\ Occupied(k)
      BY <1>6, <2>2 DEF get_mut
    <3>2. new = [base |-> v, changes |-> Loaded(k).changes, at |-> Loaded(k).at]
      BY <1>4, <2>2, <3>1, SMTT(60)
    <3>3. new \in Child /\ Fits(k, new) /\ new.base = v
      BY <1>4, <2>2, <3>1, <3>2 DEF Child, Fits
    <3>4. Entries(new) = Entries(Loaded(k))
      BY <3>2 DEF Entries
    <3> HIDE DEF new
    <3>5. MapInv' /\ Contents' = [Contents EXCEPT ![k] = [base |-> v, entries |-> Entries(Loaded(k))]]
      BY <3>1, <3>3, <3>4, PutChild
    <3>6. [get(k) EXCEPT !.base = v] = [base |-> v, entries |-> Entries(Loaded(k))]
      BY <1>4, <2>2, <3>1, SMTT(60)
    <3>7. QED
      BY <1>4, <2>2, <3>1, <3>5, <3>6 DEF D!Update, Contents
  <2>3. QED
    BY <1>6, <2>1, <2>2 DEF get_mut
<1>7. ASSUME NEW k \in Key, NEW c \in SubKey, NEW v \in Value \cup {Absent}, get_mut_entry(k, c, v)
      PROVE  MapInv' /\ (D!SetEntry(k, c, v) \/ UNCHANGED <<Contents, last>>)
  <2>1. CASE Panic
    BY <1>1, <2>1 DEF Panic
  <2>2. CASE ~Unwraps(k) /\ ~Panic
    <3> DEFINE old == Loaded(k)
               none == v = Absent /\ old.changes[c] = Clean /\ substore[old.at][c] = Absent
               new == IF none THEN old ELSE [old EXCEPT !.changes[c] = v]
    <3>1. /\ children' = [children EXCEPT ![k] = new] /\ UNCHANGED <<store, substore>>
          /\ last' = <<"entry", k, c, v>> /\ Occupied(k) /\ Settled
      BY <1>7, <2>2 DEF get_mut_entry, MapInv, Assumptions
    <3>2. /\ contains_key(k) /\ old \in Child /\ old.at = k
          /\ old = [base |-> old.base, changes |-> old.changes, at |-> k]
          /\ old.changes \in [SubKey -> Value \cup {Absent, Clean}] /\ old.base \in Value
      BY <1>4, <2>2, <3>1 DEF Settled
    <3>3. [old EXCEPT !.changes[c] = v] = [base |-> old.base, changes |-> [old.changes EXCEPT ![c] = v], at |-> k]
      BY <3>2, SMTT(60)
    <3>4. new \in Child /\ new.base = old.base /\ new.at = k
      BY <3>2, <3>3 DEF Child
    <3>5. Fits(k, new)
      BY <3>1, <3>4 DEF Fits
    <3>6. Entries(new) = [Entries(old) EXCEPT ![c] = v]
      <4>1. v # Clean
        BY StoreAssumption DEF MapInv, Assumptions, MapAssumption
      <4>2. CASE none
        BY <3>2, <4>2 DEF Entries
      <4>3. CASE ~none
        BY <3>2, <3>3, <4>1, <4>3 DEF Entries
      <4>4. QED
        BY <4>2, <4>3
    <3>7. get(k) = [base |-> old.base, entries |-> Entries(old)] /\ get(k) # Absent
      BY <1>4, <2>2, <3>1
    <3> HIDE DEF new, old
    <3>8. MapInv' /\ Contents' = [Contents EXCEPT ![k] =
                          [base |-> old.base, entries |-> [Entries(old) EXCEPT ![c] = v]]]
      <4>1. MapInv' /\ Contents' = [Contents EXCEPT ![k] = [base |-> new.base, entries |-> Entries(new)]]
        BY <3>1, <3>4, <3>5, PutChild
      <4>2. QED
        BY <3>4, <3>6, <4>1
    <3>9. [get(k) EXCEPT !.entries[c] = v] = [base |-> old.base, entries |-> [Entries(old) EXCEPT ![c] = v]]
      BY <3>7, SMTT(60)
    <3>10. QED
      BY <3>1, <3>7, <3>8, <3>9 DEF D!SetEntry, Contents
  <2>3. QED
    BY <1>7, <2>1, <2>2 DEF get_mut_entry
<1>8. ASSUME NEW k \in Key, remove(k)
      PROVE  MapInv' /\ D!Unset(k)
  BY <1>8, RemoveChild DEF remove, D!Unset
<1>9. ASSUME NEW a \in Key, NEW b \in Key, swap(a, b)
      PROVE  MapInv' /\ D!Exchange(a, b)
  <2>1. get(a) # Absent /\ get(b) # Absent
    BY <1>9, LoadedIsChild DEF swap
  <2>2. QED
    BY <1>9, <2>1, SwapChildren DEF swap, D!Exchange, Contents
<1>10. ASSUME StartFlush \/ UNCHANGED map_vars
       PROVE  MapInv' /\ UNCHANGED <<Contents, last>>
  BY <1>1, <1>10 DEF StartFlush, map_vars
<1>11. ASSUME FlushStep
       PROVE  MapInv' /\ UNCHANGED <<Contents, last>>
  BY <1>11, FlushChild DEF FlushStep
<1>12. QED
  BY <1>3, <1>5, <1>6, <1>7, <1>8, <1>9, <1>10, <1>11 DEF MapNext

(***************************************************************************)
(* For any keys, any values and any maps below them, every operation of a  *)
(* Map changes what can be read as the dictionary's does, and loading,     *)
(* flushing key by key and panics change nothing of it, as long as callers *)
(* insert and swap only where nothing is stored below the keys.            *)
(***************************************************************************)
THEOREM MapsAreDictionaries == Assumptions /\ MapSpec => ImplementsDictionary
<1>1. Assumptions /\ MapInit => MapInv /\ D!DictionaryInit
  BY MapStart
<1>2. MapInv /\ [MapNext]_map_vars => MapInv' /\ [D!DictionaryNext]_<<Contents, last>>
  BY MapStep DEF D!DictionaryStep
<1>3. QED
  BY <1>1, <1>2, PTL DEF MapSpec, ImplementsDictionary, D!DictionarySpec
=============================================================================
