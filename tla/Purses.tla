-------------------------------- MODULE Purses --------------------------------
(***************************************************************************)
(* Where one delegator's coins are: in an account (Coin), staked and       *)
(* unbonding (Share), and claimable (MultiShare, one denomination); and    *)
(* the rewards of the validator, which are split by its commission.  A     *)
(* Coin taken from one purse and refused by the next is gone: nothing puts *)
(* it back.                                                                *)
(***************************************************************************)
EXTENDS Decimals

CONSTANTS MaxAmount,   \* u64::MAX
          MaxDecimal   \* the largest Decimal, in units of 1 / Unit

CONSTANTS Rates,       \* commission rates and slashing multipliers: Decimals up to one
          OtherStake,  \* what others have staked with the validator
          MaxMinted,   \* bound: coins made in all
          MaxRounded   \* bound: uses of Decimal::amount

ASSUME AmountsAssumption == MaxAmount \in Nat /\ MaxDecimal \in Nat

ASSUME PursesAssumption ==
    Rates \subseteq 0..Unit /\ OtherStake \in Nat /\ MaxMinted \in Nat /\ MaxRounded \in Nat

VARIABLES coin,      \* Coin.amount of the account
          staked,    \* Share.shares of the delegator
          unbonding, \* Share.shares of an unbond
          liquid,    \* the share of the denomination in Delegator.liquid
          pot,       \* rewards in the pool of the validator's delegators
          minted,    \* history: coins made
          gone,      \* history: what was slashed, and what was taken and not given
          rounded    \* history: how often Decimal::amount made coins of a fraction

vars == <<coin, staked, unbonding, liquid, pot, minted, gone, rounded>>

-----------------------------------------------------------------------------
(* Checked arithmetic on Amount and Decimal (coins/ops, coins/math.rs).  A   *)
(* MathResult is the set of its value, empty when it is an error, so that an *)
(* error in an operand is an error of the result.                            *)

CheckedAmount(n) == {m \in {n} : 0 <= m /\ m <= MaxAmount}
CheckedDecimal(d) == {e \in {d} : -MaxDecimal <= e /\ e <= MaxDecimal}

AddAmount(m, n) == CheckedAmount(m + n)
SubAmount(m, n) == CheckedAmount(m - n)

AddDecimal(d, e) == CheckedDecimal(d + e)
SubDecimal(d, e) == CheckedDecimal(d - e)
MulDecimal(d, e) == CheckedDecimal((d * e) \div Unit)

\* An Amount is a Decimal in a comparison with one.
LessThan(d, n) == d < Decimal(n)

\* Decimal::amount, with its errors.
ToAmount(d) == IF d < 0 THEN {} ELSE CheckedAmount(amount(d))

-----------------------------------------------------------------------------
\* Coin::take and Coin::give.
CoinTake_Keeps(amt, n) == IF n > amt THEN {} ELSE {amt}
CoinTake(amt, n) == IF n > amt THEN {} ELSE SubAmount(amt, n)
CoinGive(amt, n) == AddAmount(amt, n)

\* Share::take and Share::give.
ShareTake(shares, n) == IF LessThan(shares, n) THEN {} ELSE SubDecimal(shares, Decimal(n))
ShareGive(shares, n) == AddDecimal(shares, Decimal(n))

\* MultiShare::deduct and MultiShare::give.
deduct(shares, n) == IF LessThan(shares, n) THEN {} ELSE SubDecimal(shares, Decimal(n))
MultiGive(shares, n) == AddDecimal(shares, Decimal(n))

\* The two parts of a reward in Validator::give, each rounded.
delegator_amount(n, rate) ==
    UNION {ToAmount(d) : d \in MulDecimal(Decimal(n), Decimal(1) - rate)}
validator_amount(n, rate) == UNION {ToAmount(d) : d \in MulDecimal(Decimal(n), rate)}

-----------------------------------------------------------------------------
\* Coins given to a purse that refuses them are dropped.
GiveCoin(n) ==
    \/ coin' \in CoinGive(coin, n) /\ UNCHANGED gone
    \/ CoinGive(coin, n) = {} /\ gone' = gone + Decimal(n) /\ UNCHANGED coin

GiveLiquid(n) ==
    \/ liquid' \in MultiGive(liquid, n) /\ UNCHANGED gone
    \/ MultiGive(liquid, n) = {} /\ gone' = gone + Decimal(n) /\ UNCHANGED liquid

Mint(n) ==
    /\ minted + n <= MaxMinted
    /\ minted' = minted + n
    /\ GiveCoin(n)
    /\ UNCHANGED <<staked, unbonding, liquid, pot, rounded>>

\* Delegator::add_stake.
add_stake(n) ==
    /\ coin' \in CoinTake(coin, n)
    /\ \/ staked' \in ShareGive(staked, n) /\ UNCHANGED gone
       \/ ShareGive(staked, n) = {} /\ gone' = gone + Decimal(n) /\ UNCHANGED staked
    /\ UNCHANGED <<unbonding, liquid, pot, minted, rounded>>

\* Delegator::unbond, with and without a time to wait for.
unbond(n) ==
    /\ unbonding = 0
    /\ staked' \in ShareTake(staked, n)
    /\ unbonding' = Decimal(n)
    /\ UNCHANGED <<coin, liquid, pot, minted, gone, rounded>>

unbond_now(n) ==
    /\ staked' \in ShareTake(staked, n)
    /\ GiveLiquid(n)
    /\ UNCHANGED <<coin, unbonding, pot, minted, rounded>>

\* Delegator::process_unbonds: the fraction that slashing left is rounded.
process_unbonds ==
    /\ unbonding > 0 /\ rounded < MaxRounded
    /\ unbonding' = 0
    /\ \/ /\ \E n \in ToAmount(unbonding) : GiveLiquid(n)
          /\ rounded' = rounded + 1
       \/ /\ ToAmount(unbonding) = {}
          /\ gone' = gone + unbonding /\ UNCHANGED <<liquid, rounded>>
    /\ UNCHANGED <<coin, staked, pot, minted>>

\* Delegator::slash; unbonds are spared after a liveness fault.
slash(multiplier, liveness_fault) ==
    /\ \E s \in MulDecimal(staked, multiplier),
          u \in IF liveness_fault THEN {unbonding} ELSE MulDecimal(unbonding, multiplier) :
          /\ staked' = s /\ unbonding' = u
          /\ gone' = gone + (staked - s) + (unbonding - u)
    /\ UNCHANGED <<coin, liquid, pot, minted, rounded>>

\* Validator::give: nothing is given when a part is out of range, or when the pool
\* has no stake to divide its part by.
give(n, rate) ==
    /\ minted + n <= MaxMinted
    /\ minted' = minted + n
    /\ \/ /\ \/ staked + Decimal(OtherStake) = 0
             \/ delegator_amount(n, rate) = {} \/ validator_amount(n, rate) = {}
          /\ gone' = gone + Decimal(n)
          /\ UNCHANGED <<pot, liquid, rounded>>
       \/ /\ staked + Decimal(OtherStake) # 0 /\ rounded + 1 < MaxRounded
          /\ \E d \in delegator_amount(n, rate), v \in validator_amount(n, rate) :
                pot' = pot + d /\ GiveLiquid(v)
          /\ rounded' = rounded + 2
    /\ UNCHANGED <<coin, staked, unbonding>>

\* Pool::adjust_entry: the delegator's part of the pot, whatever it is (Pool).
adjust_entry(n) ==
    /\ 0 < n /\ n <= pot
    /\ pot' = pot - n
    /\ GiveLiquid(n)
    /\ UNCHANGED <<coin, staked, unbonding, minted, rounded>>

\* What MultiShare::amounts says is there is deducted and paid out.
claim ==
    /\ \E n \in ToAmount(liquid) :
          /\ n > 0
          /\ liquid' \in deduct(liquid, n)
          /\ GiveCoin(n)
    /\ UNCHANGED <<staked, unbonding, pot, minted, rounded>>

Init ==
    /\ coin = 0 /\ staked = 0 /\ unbonding = 0 /\ liquid = 0 /\ pot = 0
    /\ minted = 0 /\ gone = 0 /\ rounded = 0

Next ==
    \/ \E n \in 1..MaxMinted :
          \/ Mint(n) \/ add_stake(n) \/ unbond(n) \/ unbond_now(n) \/ adjust_entry(n)
          \/ \E rate \in Rates : give(n, rate)
    \/ \E multiplier \in Rates, liveness_fault \in BOOLEAN : slash(multiplier, liveness_fault)
    \/ process_unbonds
    \/ claim

Spec == Init /\ [][Next]_vars

-----------------------------------------------------------------------------
TypeOK ==
    /\ coin \in Nat /\ staked \in Int /\ unbonding \in Int /\ liquid \in Int /\ pot \in Nat
    /\ minted \in Nat /\ gone \in Int /\ rounded \in Nat

Held == Decimal(coin) + staked + unbonding + liquid + Decimal(pot)

(***************************************************************************)
(* Take, give, slash and the split of a reward neither make nor lose coins *)
(* but for the half a coin by which each use of Decimal::amount may err:   *)
(* the commission split rounds both parts of Validator::give, so they need *)
(* not add up to the reward, and process_unbonds rounds a slashed unbond.  *)
(* What MultiShare::amounts reports can always be deducted in full, since  *)
(* only whole coins are given to it; a Share has no such promise.          *)
(***************************************************************************)
CoinsAreAccountedFor ==
    /\ 2 * (Held + gone - Decimal(minted)) <= Decimal(rounded)
    /\ 2 * (Decimal(minted) - Held - gone) <= Decimal(rounded)
    /\ \A n \in ToAmount(liquid) : Decimal(n) = liquid
=============================================================================
