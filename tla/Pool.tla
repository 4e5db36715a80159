-------------------------------- MODULE Pool ----------------------------------
(***************************************************************************)
(* Pool (coins/pool.rs): rewards given to the pool are divided among its   *)
(* entries in proportion to their balances, one entry at a time, when the  *)
(* entry is next accessed.  One denomination is modelled; the code treats  *)
(* each on its own.                                                        *)
(***************************************************************************)
EXTENDS Decimals, FiniteSetsExt

CONSTANTS Account,      \* the keys of the pool
          MayEmpty,     \* the last contribution may be withdrawn
          ReadsAll,     \* Pool::get is used on compounding pools too
          MaxBalance,   \* bound: contributions to the pool
          MaxGiven      \* bound: rewards given to the pool

PoolAssumption ==
    /\ IsFiniteSet(Account)
    /\ MaxBalance \in Nat /\ MaxGiven \in Nat
    /\ MayEmpty \in BOOLEAN /\ ReadsAll \in BOOLEAN
    \* dividing by the shares issued is exact; the code has 28 digits for it
    /\ \A s \in 1..MaxBalance : Unit % s = 0

VARIABLES compounding,  \* the kind of the pool: a reward is added to the balance of its
                        \* entry, as Share does, or kept apart from it
          contributions, shares_issued, rewards_this_period, last_period_entry,
          entries,  \* Pool.map: shares, last_update_period_entry and the inner
                    \* value, of which balance and the rewards received matter
          cached,   \* the keys whose entry the map holds in memory
          given,    \* history: what was given to the pool
          payouts   \* history: how often an entry had a reward to receive

vars == <<compounding, contributions, shares_issued, rewards_this_period,
          last_period_entry, entries, cached, given, payouts>>

-----------------------------------------------------------------------------
\* What period_entry_hashmap holds, in get_mut and in get.
PeriodEntry == last_period_entry + (rewards_this_period * Unit) \div shares_issued

\* The delta of adjust_entry.
Owed(a) ==
    IF shares_issued = 0 THEN 0
    ELSE ((PeriodEntry - entries[a].last_update) * contributions * entries[a].shares)
            \div shares_issued

adjust_entry(a) ==
    IF shares_issued = 0 THEN entries[a]
    ELSE [entries[a] EXCEPT !.last_update = PeriodEntry,
                            !.balance  = IF compounding THEN @ + amount(Owed(a)) ELSE @,
                            !.received = @ + amount(Owed(a))]

CountPayout(a) == payouts' = IF Owed(a) > 0 THEN payouts + 1 ELSE payouts

(***************************************************************************)
(* get_mut, the change the caller makes to the balance, and the drop of    *)
(* the ChildMut, which issues shares for the change since before the entry *)
(* was adjusted.                                                           *)
(***************************************************************************)
initial_balance(a) == entries[a].balance

\* The rewards of the period are moved into last_period_entry.
Settle_Skipped == UNCHANGED <<rewards_this_period, last_period_entry>>
Settle ==
    /\ rewards_this_period' = 0
    /\ last_period_entry' = IF shares_issued = 0 THEN last_period_entry ELSE PeriodEntry

\* The caller takes no more than there is: Coin and Share refuse to.
CanTake(balance, change) == balance + change >= 0

get_mut(a, change) ==
    LET adjusted       == adjust_entry(a)
        end            == adjusted.balance + change
        balance_change == end - initial_balance(a)
        new_shares     == IF contributions = 0 THEN balance_change
                          ELSE (shares_issued * balance_change) \div contributions
    IN  /\ CanTake(adjusted.balance, change)
        /\ contributions + balance_change \in 0..MaxBalance
        /\ MayEmpty \/ contributions + balance_change > 0
        /\ Settle
        /\ entries' = [entries EXCEPT ![a] = [adjusted EXCEPT
                          !.balance = end, !.shares = @ + new_shares]]
        /\ contributions' = contributions + balance_change
        /\ shares_issued' = shares_issued + new_shares
        /\ cached' = cached \cup {a}
        /\ CountPayout(a)
        /\ UNCHANGED <<compounding, given>>

\* Pool::get adjusts the entry it finds: a copy loaded from the store, or the
\* entry itself when the map holds it in memory.
get(a) ==
    /\ ReadsAll \/ ~compounding
    /\ a \in cached
    /\ entries' = [entries EXCEPT ![a] = adjust_entry(a)]
    /\ CountPayout(a)
    /\ UNCHANGED <<compounding, contributions, shares_issued, rewards_this_period,
                   last_period_entry, cached, given>>

give(n) ==
    /\ contributions # 0
    /\ given + n <= MaxGiven
    /\ rewards_this_period' = rewards_this_period + n
    /\ given' = given + n
    /\ UNCHANGED <<compounding, contributions, shares_issued, last_period_entry,
                   entries, cached, payouts>>

\* The map is flushed and loaded again.
flush ==
    /\ cached # {}
    /\ cached' = {}
    /\ UNCHANGED <<compounding, contributions, shares_issued, rewards_this_period,
                   last_period_entry, entries, given, payouts>>

Init ==
    /\ compounding \in BOOLEAN
    /\ contributions = 0 /\ shares_issued = 0
    /\ rewards_this_period = 0 /\ last_period_entry = 0
    /\ entries = [a \in Account |->
                    [shares |-> 0, last_update |-> 0, balance |-> 0, received |-> 0]]
    /\ cached = {}
    /\ given = 0 /\ payouts = 0

Next ==
    \/ \E a \in Account : \E change \in -MaxBalance..MaxBalance : get_mut(a, change)
    \/ \E a \in Account : get(a)
    \/ \E n \in 1..MaxGiven : give(n)
    \/ flush

Spec == Init /\ [][Next]_vars

-----------------------------------------------------------------------------
Total(f(_)) == MapThenSumSet(f, Account)

(***************************************************************************)
(* What the pool keeps of its entries when a ChildMut drops agrees with    *)
(* the entries: contributions is the sum of the balances and shares_issued *)
(* the sum of the shares, whatever order accounts come, go and are paid.   *)
(* So no reward is made up and none is lost: what was given to the pool is *)
(* what its entries have received and what they are still owed, up to half *)
(* a coin for each time an entry was paid (Decimal::amount rounds).        *)
(***************************************************************************)
RewardsAreConserved ==
    LET received == Total(LAMBDA a : entries[a].received)
        owed     == Total(Owed)
        error    == given * Unit - received * Unit - owed
        unowed   == IF shares_issued = 0 THEN rewards_this_period * Unit ELSE 0
    IN  /\ contributions = Total(LAMBDA a : entries[a].balance)
        /\ shares_issued = Total(LAMBDA a : entries[a].shares)
        /\ 2 * (error - unowed) <= payouts * Unit
        /\ 2 * (unowed - error) <= payouts * Unit
=============================================================================
