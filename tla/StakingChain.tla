---------------------------- MODULE StakingChain ------------------------------
(***************************************************************************)
(* Staking under ABCIPlugin on a Tendermint chain: genesis, blocks with    *)
(* votes and evidence, the calls of accounts, and the validator updates    *)
(* that EndBlock returns.  Tendermint is external: an update returned for  *)
(* block H validates from block H + 2, and BeginBlock of H carries the     *)
(* votes for H - 1 by the validators of H - 1.                             *)
(***************************************************************************)
EXTENDS Staking

CONSTANTS Genesis,    \* the calls a genesis may make, as sequences
          GenesisPowers,   \* the validators of the genesis file
          Funds,      \* what each account holds besides
          Amounts,    \* the amounts calls are made with
          TimeSteps,  \* the seconds that may pass from block to block
          MaxHeight, MaxCalls, MaxFaults

VARIABLES s,          \* Staking
          plugin,     \* ABCIPlugin
          wallet,     \* balances of the accounts outside of Staking
          phase,      \* "begin", "txs" or "halted"
          valsets,    \* external: the powers that validate height, height + 1, height + 2
          missed,     \* history: keys that missed a vote asked of them
          reported,   \* history: keys that evidence was found against
          told,       \* history: keys whose power an EndBlock has returned
          calls       \* history: calls made

vars == <<s, plugin, wallet, phase, valsets, missed, reported, told, calls>>

-----------------------------------------------------------------------------
(* The validator set of ABCIPlugin (plugins/abci.rs): the Validators context *)
(* a call may change, and what the plugin does with its changes once the     *)
(* call has returned Ok.  p is the part of the plugin's state that is about  *)
(* validators; p.ctx holds the updates of the context.                       *)

NoUpdates == [k \in Key |-> None]

NewPlugin == [current_vp |-> NoUpdates, ctx |-> NoUpdates, updates |-> NoUpdates,
              validator_updates |-> NoUpdates]

\* The power is visible in current_vp at once, also when it is 0.
set_voting_power(p, k, power) ==
    [p EXCEPT !.current_vp[k] = power, !.ctx[k] = power]

\* Update map u overridden by the updates in v.
Override(u, v) == [k \in Key |-> IF v[k] = None THEN u[k] ELSE v[k]]

\* Drains the pending updates into those the node returns to Tendermint.
build_updates(p) ==
    [p EXCEPT !.validator_updates = p.updates, !.updates = NoUpdates]

\* The end of call: the entries of validators without power are deleted.  A
\* variant that leaves them.
FinishCall_KeepsZero(p) ==
    build_updates([p EXCEPT !.updates = Override(@, p.ctx),
                            !.current_vp = Override(@, p.ctx),
                            !.ctx = NoUpdates])
FinishCall(p) ==
    build_updates([p EXCEPT !.updates = Override(@, p.ctx),
                            !.current_vp = [k \in Key |-> IF p.ctx[k] = None THEN @[k]
                                                          ELSE IF p.ctx[k] > 0 THEN p.ctx[k]
                                                          ELSE None],
                            !.ctx = NoUpdates])

-----------------------------------------------------------------------------

\* set_voting_power for each update, then the end of the plugin's call.
SetPowers(p, x, y) ==
    FinishCall(
        FoldSet(LAMBDA v, q : set_voting_power(q, y.validators[v].key,
                                                      y.last_validator_powers[v]),
                p, {v \in Operator : x.last_validator_powers[v] # y.last_validator_powers[v]}))

\* Tendermint applies the updates of a response to the set of height + 2.
Applied(set, updates) ==
    [k \in Key |-> IF updates[k] = None THEN set[k] ELSE updates[k]]

GenesisCall(x, c) ==
    IF c.call = "declare" THEN declare(x, c.address, c.key, c.min_self, c.amount)
    ELSE delegate(x, c.address, c.delegator, c.amount)

NoPowers == [k \in Key |-> 0]

\* A genesis makes its calls in init_chain, which sets no voting power.
Init ==
    /\ \E calls_made \in Genesis : s = FoldLeft(GenesisCall, Empty, calls_made)
    /\ plugin = NewPlugin
    /\ valsets = <<NoPowers, GenesisPowers, GenesisPowers>>
    /\ wallet = Funds
    /\ phase = "begin" /\ calls = 0
    /\ missed = {} /\ reported = {} /\ told = {}

Voters == {k \in Key : valsets[1][k] > 0}
PowerOf(keys) == MapThenSumSet(LAMBDA k : valsets[1][k], keys)

\* A block carries more than two thirds of the power of the last one's voters.
BeginBlock(t, signed, byzantine) ==
    LET x == begin_block(Ok(s), t, signed, byzantine)
    IN  /\ phase = "begin" /\ s.height < MaxHeight
        /\ 3 * PowerOf(signed) >= 2 * PowerOf(Voters) + (IF Voters = {} THEN 0 ELSE 1)
        /\ Cardinality(reported) + Len(byzantine) <= MaxFaults
        /\ s' = x
        /\ plugin' = IF x.err THEN plugin ELSE FinishCall(plugin)
        /\ phase' = IF x.err THEN "halted" ELSE "txs"
        /\ missed' = missed \cup (Voters \ signed)
        /\ reported' = reported \cup Range(byzantine)
        /\ UNCHANGED <<wallet, valsets, told, calls>>

\* A paid call: the payer call takes the coins it pays with, then x is the
\* outcome of the paid one.  When that fails its state is flushed all the same,
\* and the coins are gone.  A call without effect is left out.
Call(x, paid) ==
    LET purse == [d \in Address |-> wallet[d] + IF x.err /\ paid[d] > 0 THEN 0 ELSE paid[d]]
    IN  /\ phase = "txs" /\ calls < MaxCalls
        /\ Ok(x) # Ok(s) \/ purse # wallet
        /\ s' = x
        /\ wallet' = purse
        /\ plugin' = IF x.err THEN plugin ELSE FinishCall(plugin)
        /\ calls' = calls + 1
        /\ UNCHANGED <<phase, valsets, missed, reported, told>>
Pays(d, n) == [a \in Address |-> IF a = d THEN -n ELSE 0]

delegate_from_self(d, v, n) ==
    n <= wallet[d] /\ Call(delegate(Ok(s), v, d, n), Pays(d, n))
declare_self(v, key, min_self_delegation, n) ==
    n <= wallet[v] /\ Call(declare(Ok(s), v, key, min_self_delegation, n), Pays(v, n))
unbond_self(d, v, n) == Call(unbond(Ok(s), v, d, n), Pays(d, 0))
redelegate_self(d, src, dst, n) == Call(redelegate(Ok(s), src, dst, d, n), Pays(d, 0))
take_as_funding(d, v, n) == Call(deduct(Ok(s), v, d, n), Pays(d, -n))
claim_all_self(d) ==
    Call(claim_all(Ok(s), d),
         Pays(d, -MapThenSumSet(LAMBDA v : s.delegators[v][d].liquid, Claimable(s, d))))
unjail_self(v) == Call(unjail(Ok(s), v), Pays(v, 0))
edit_validator_self(v, min_self_delegation) ==
    Call(edit_validator(Ok(s), v, min_self_delegation), Pays(v, 0))

EndBlock ==
    LET x == end_block_step(Ok(s))
        p == SetPowers(plugin, s, x)
    IN  /\ phase = "txs"
        /\ s' = x
        /\ plugin' = p
        /\ valsets' = <<valsets[2], valsets[3], Applied(valsets[3], p.validator_updates)>>
        /\ phase' = "begin"
        /\ told' = told \cup {k \in Key : p.validator_updates[k] # None}
        /\ UNCHANGED <<wallet, missed, reported, calls>>

Next ==
    \/ \E dt \in TimeSteps, signed \in SUBSET Voters :
         \E byzantine \in {<<>>} \cup {<<k>> : k \in Voters} : BeginBlock(s.now + dt, signed, byzantine)
    \/ \E d \in Address, v \in Operator, n \in Amounts :
         \/ delegate_from_self(d, v, n)
         \/ unbond_self(d, v, n)
         \/ take_as_funding(d, v, n)
         \/ \E dst \in Operator : redelegate_self(d, v, dst, n)
    \/ \E v \in Operator, key \in Key, min \in Amounts, n \in Amounts :
         declare_self(v, key, min, n)
    \/ \E v \in Operator : unjail_self(v) \/ \E min \in Amounts : edit_validator_self(v, min)
    \/ \E d \in Address : claim_all_self(d)
    \/ EndBlock

Spec == Init /\ [][Next]_vars
-----------------------------------------------------------------------------
(* Properties. *)

DelegationType(del) ==
    /\ del.staked >= 0 /\ del.liquid \in Nat
    /\ \A i \in DOMAIN del.unbonding : del.unbonding[i].coins >= 0
Total(x, purse) ==
    Unit * MapThenSumSet(LAMBDA d : purse[d], Address)
    + MapThenSumSet(LAMBDA p :
          LET del == x.delegators[p[1]][p[2]]
          IN  Unit * del.liquid + del.staked
              + FoldLeft(LAMBDA sum, u : sum + u.coins, 0, del.unbonding),
        Operator \X Address)

\* The index the active set is chosen from has one entry per declared
\* validator, of the power last recorded, and that is the power its delegations
\* give it now: every path that changes a stake, a jail term or a required
\* self-delegation updates the index (update_vp), or, as edit_validator,
\* cannot change the power.  Two paths do not, until the validator's next own
\* change: punish_double_sign for the validator that slashed stake was
\* redelegated to, and redelegate for the source when the destination is
\* refused.  Balances never become negative.
PowerIndexMatchesStake ==
    /\ \A v \in Operator, d \in Address : DelegationType(s.delegators[v][d])
    /\ phase # "halted" => \A v \in Operator :
         LET mine == {e \in s.validators_by_power : e.address = v}
         IN  IF Declared(s, v)
             THEN /\ mine = {[address |-> v, power |-> s.last_indexed_power[v]]}
                  /\ v \notin s.stale => s.last_indexed_power[v] = potential_vp(s, v)
             ELSE mine = {}

\* Tendermint's upcoming validator set, the application's current_vp
\* and the powers Staking believes it reported are the same for every key that
\* was ever reported; a validator is in the active set exactly when it has
\* such a power, is queued for unbonding exactly once while it unbonds, and is
\* never both.  A tombstoned validator that Staking has ended a block with is out.
ActiveSetMatchesTendermint ==
    /\ \A v \in Operator :
         LET val  == s.validators[v]
             power == s.last_validator_powers[v]
             queued == {e \in s.validator_queue : e.address = v}
         IN  /\ val.in_active_set <=> power > 0
             /\ ~(val.in_active_set /\ val.unbonding)
             /\ val.key \in told => /\ valsets[3][val.key] = power
                                    /\ plugin.current_vp[val.key] = IF power > 0 THEN power ELSE None
             /\ power > 0 => val.key \in told
             /\ queued = IF val.unbonding THEN {[start |-> val.unbonding_start, address |-> v]} ELSE {}
             /\ phase = "begin" /\ val.tombstoned => ~val.in_active_set
    /\ phase = "begin" =>
         max_validators = 0 \/ Cardinality({v \in Operator : s.validators[v].in_active_set}) <= max_validators

\* Where the module's unbonding_seconds are not shorter than the delegators'
\* UNBONDING_SECONDS, whatever was asked to be unbonded or redelegated
\* unbonding_seconds ago is settled by the end of the block, although the
\* queues are popped from the front only and entries made at an unbonding
\* validator have earlier start times than those before them.  Outbound entries
\* are not included: a redelegation that is refused leaves one that no queue
\* entry releases.
UnbondsAreTimely ==
    phase = "begin" /\ unbonding_seconds >= UNBONDING_SECONDS =>
        \A v \in Operator, d \in Address :
            LET del == s.delegators[v][d]
            IN  \A e \in Range(del.unbonding) \cup Range(del.redelegations_in) :
                    s.now - e.asked < unbonding_seconds

\* Calls and the end of a block move coins and make none: they can add to the
\* total only by rounding unbonds with a fraction of a coin, and take from it
\* only by that and, when a call fails, by no more than the amount it was made
\* with.  The beginning of a block only burns.
CoinsAreConserved ==
    [][IF phase = "begin" THEN Total(s', wallet') <= Total(s, wallet)
       ELSE LET fractions == {<<v, d, i>> \in Operator \X Address \X (1..MaxCalls) :
                                /\ i \in DOMAIN s.delegators[v][d].unbonding
                                /\ s.delegators[v][d].unbonding[i].coins % Unit # 0}
                rounded == Unit * Cardinality(fractions)
                change == Total(s', wallet') - Total(s, wallet)
                failed == IF s'.err THEN Unit * Max(Amounts) ELSE 0
            IN  2 * change <= rounded /\ -2 * change <= rounded + 2 * failed]_vars

\* A validator that never missed a vote and was never reported is never
\* jailed, and what is delegated to it is cut only for a delegator who asked to
\* move stake there from a validator that was reported.  In particular the
\* blocks between joining the active set and voting do not count as downtime.
OnlyFaultsArePunished ==
    [][\A v \in Operator :
         LET key == s.validators[v].key
         IN  key # None /\ key \notin missed' \cup reported' =>
               /\ ~jailed(s'.validators[v])
               /\ phase = "begin" => \A d \in Address :
                    \/ s'.delegators[v][d].staked >= s.delegators[v][d].staked
                    \/ \E w \in Operator :
                         /\ s.validators[w].key \in reported'
                         /\ \E e \in Range(s.delegators[w][d].redelegations_out) : e.address = v
      ]_vars
===============================================================================
