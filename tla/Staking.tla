------------------------------- MODULE Staking --------------------------------
(***************************************************************************)
(* The staking module (coins/staking): delegations, unbonding,             *)
(* redelegation, slashing and the active validator set.  A handler is an   *)
(* operator from the state s of the module to its next state, in which err *)
(* records that it returned an error; what it changed before that stays    *)
(* changed, as in the code.  Rewards and the shares of the two   *)
(* levels of pools are modelled in Pool; the balance of a pool is the sum  *)
(* of the balances in it.                                                  *)
(***************************************************************************)
EXTENDS Decimals, SequencesExt

CONSTANTS Address,    \* accounts, as numbers in the order of their bytes
          Operator,   \* the accounts that may declare a validator
          Key,        \* consensus keys
          None,
          Forever,    \* i64::MAX seconds
          unbonding_seconds,
          UNBONDING_SECONDS,   \* the constant Delegator uses
          max_validators, max_offline_blocks, downtime_jail_seconds,
          min_self_delegation_min,
          EDIT_INTERVAL_SECONDS,
          SlashDen,            \* slash fractions are parts of SlashDen
          slash_double_sign, slash_downtime

StakingAssumption ==
    /\ Address \subseteq Nat /\ IsFiniteSet(Address) /\ Operator \subseteq Address
    /\ None \notin Key
    /\ {unbonding_seconds, UNBONDING_SECONDS} \subseteq Nat
    /\ {max_validators, max_offline_blocks, downtime_jail_seconds,
        min_self_delegation_min, EDIT_INTERVAL_SECONDS} \subseteq Nat
    /\ SlashDen \in Nat \ {0}
    /\ slash_double_sign \in 0..SlashDen /\ slash_downtime \in 0..SlashDen

-----------------------------------------------------------------------------
(* The state. *)

NoDelegation == [staked |-> 0, liquid |-> 0, unbonding |-> <<>>,
                 redelegations_out |-> <<>>, redelegations_in |-> <<>>]

\* A validator that is not declared has no consensus key.
Undeclared == [key |-> None, jailed_until |-> None, tombstoned |-> FALSE,
               in_active_set |-> FALSE, unbonding |-> FALSE, unbonding_start |-> 0,
               last_edited |-> -Forever, min_self_delegation |-> 0]

Empty ==
    [now |-> 0, height |-> 0, err |-> FALSE,
     validators |-> [v \in Operator |-> Undeclared],
     delegators |-> [v \in Operator |-> [d \in Address |-> NoDelegation]],
     last_signed_block |-> [k \in Key |-> None],
     validators_by_power |-> {},
     last_indexed_power |-> [v \in Operator |-> None],
     last_validator_powers |-> [v \in Operator |-> 0],
     validator_queue |-> {},
     unbonding_delegation_queue |-> <<>>,
     redelegation_queue |-> <<>>,
     delegation_index |-> [d \in Address |-> {}],
     stale |-> {}]   \* history: validators that lost stake since their last update_vp

Err(s) == [s EXCEPT !.err = TRUE]
Ok(s) == [s EXCEPT !.err = FALSE]
Then(s, next(_)) == IF s.err THEN s ELSE next(s)

Declared(s, v) == s.validators[v].key # None
address_for_tm_hash(s, k) == {v \in Operator : s.validators[v].key = k}

staked(s, v) == MapThenSumSet(LAMBDA d : s.delegators[v][d].staked, Address)
self_delegation(s, v) == amount(s.delegators[v][v].staked)
jailed(val) == val.jailed_until # None

\* Validator::balance, with in_active_set taken to be set.
potential_vp(s, v) ==
    LET val == s.validators[v]
    IN  IF jailed(val) \/ self_delegation(s, v) < val.min_self_delegation
        THEN 0 ELSE amount(staked(s, v))

\* Validator::status: the start of an unbond, None when it takes no time.
UnbondingStart(s, v) ==
    LET val == s.validators[v]
    IN  IF val.unbonding THEN val.unbonding_start
        ELSE IF val.in_active_set THEN s.now ELSE None

\* set_potential_voting_power with the new power; a variant that leaves the
\* entry of the old power in the index.
update_vp_KeepsOld(s, v) ==
    [s EXCEPT !.validators_by_power = @ \cup {[address |-> v, power |-> potential_vp(s, v)]},
              !.last_indexed_power[v] = potential_vp(s, v),
              !.stale = @ \ {v}]
update_vp(s, v) ==
    LET old == {e \in s.validators_by_power :
                  e.address = v /\ e.power = s.last_indexed_power[v]}
    IN  [s EXCEPT !.validators_by_power =
                     (@ \ old) \cup {[address |-> v, power |-> potential_vp(s, v)]},
                  !.last_indexed_power[v] = potential_vp(s, v),
                  !.stale = @ \ {v}]

-----------------------------------------------------------------------------
(* Delegators. *)

matured(s, start, period) == s.now - start >= period

\* The entries at the front of a queue that a loop over matured ones pops.
MaturedFront(s, queue, period) ==
    LET runs == {n \in 0..Len(queue) :
                   \A i \in 1..n : matured(s, queue[i].start, period)}
    IN  SubSeq(queue, 1, Max(runs))
Rest(queue, front) == SubSeq(queue, Len(front) + 1, Len(queue))

SumOf(queue) == FoldLeft(LAMBDA sum, u : sum + amount(u.coins), 0, queue)

\* Delegator::process_unbonds.
process_unbonds(s, v, d) ==
    LET del  == s.delegators[v][d]
        done == MaturedFront(s, del.unbonding, UNBONDING_SECONDS)
    IN  [s EXCEPT !.delegators[v][d].unbonding = Rest(@, done),
                  !.delegators[v][d].liquid = @ + SumOf(done)]

process_redelegations_out(s, v, d) ==
    LET out == s.delegators[v][d].redelegations_out
    IN  [s EXCEPT !.delegators[v][d].redelegations_out =
                      Rest(out, MaturedFront(s, out, UNBONDING_SECONDS))]

process_redelegations_in(s, v, d) ==
    LET in == s.delegators[v][d].redelegations_in
    IN  [s EXCEPT !.delegators[v][d].redelegations_in =
                      Rest(in, MaturedFront(s, in, UNBONDING_SECONDS))]

\* Delegator::slash; multiplier is in parts of SlashDen.
SlashDelegator(del, multiplier, liveness_fault) ==
    [del EXCEPT
       !.staked = Times(@, multiplier, SlashDen),
       !.unbonding = [i \in DOMAIN del.unbonding |->
          [del.unbonding[i] EXCEPT !.coins =
             IF liveness_fault THEN @ ELSE Times(@, multiplier, SlashDen)]]]

\* Share::take of a slash no larger than the rounded share, which fails when
\* the share was rounded up to it.
TakeSlash(x, share, slash) ==
    [left |-> share - Decimal(slash), remaining |-> x.remaining - slash,
     err |-> x.err \/ share < Decimal(slash)]

\* Delegator::slash_redelegation: first the stake, then the unbonds in order.
slash_redelegation(del, slash) ==
    LET least(n, share) == IF n > amount(share) THEN amount(share) ELSE n
        stake == TakeSlash([remaining |-> slash, err |-> FALSE], del.staked,
                           least(slash, del.staked))
        step(x, u) ==
            LET taken == TakeSlash(x, u.coins, least(x.remaining, u.coins))
            IN  [remaining |-> taken.remaining, err |-> taken.err,
                 unbonding |-> Append(x.unbonding, [u EXCEPT !.coins = taken.left])]
        rest == FoldLeft(step, [remaining |-> stake.remaining, err |-> stake.err,
                                unbonding |-> <<>>], del.unbonding)
    IN  [err |-> rest.err,
         del |-> [del EXCEPT !.staked = stake.left, !.unbonding = rest.unbonding]]

-----------------------------------------------------------------------------
(* Delegating. *)

\* Staking::delegate, with index_delegation.
delegate(s, v, d, n) ==
    IF ~Declared(s, v) \/ s.validators[v].tombstoned THEN Err(s)
    ELSE update_vp([s EXCEPT !.delegators[v][d].staked = @ + Decimal(n),
                             !.delegation_index[d] = @ \cup {v}], v)

declare(s, v, key, min_self_delegation, n) ==
    IF \/ Declared(s, v)
       \/ n < min_self_delegation
       \/ address_for_tm_hash(s, key) # {}
       \/ min_self_delegation < min_self_delegation_min
    THEN Err(s)
    ELSE delegate([s EXCEPT !.validators[v].key = key,
                            !.validators[v].min_self_delegation = min_self_delegation,
                            !.validators[v].last_edited = -Forever],
                  v, v, n)

edit_validator(s, v, min_self_delegation) ==
    IF \/ ~Declared(s, v)
       \/ self_delegation(s, v) < min_self_delegation
       \/ min_self_delegation < s.validators[v].min_self_delegation
       \/ s.now - EDIT_INTERVAL_SECONDS < s.validators[v].last_edited
    THEN Err(s)
    ELSE [s EXCEPT !.validators[v].min_self_delegation = min_self_delegation,
                   !.validators[v].last_edited = s.now]

\* Staking::unbond with Delegator::unbond; asked is history.
unbond(s, v, d, n) ==
    LET start == UnbondingStart(s, v)
        taken == [s EXCEPT !.delegators[v][d].staked = @ - Decimal(n)]
        entry == [coins |-> Decimal(n), start |-> start, asked |-> s.now]
    IN  IF s.delegators[v][d].staked < Decimal(n) THEN Err(s)
        ELSE update_vp(
               IF start = None
               THEN [taken EXCEPT !.delegators[v][d].liquid = @ + n]
               ELSE [taken EXCEPT !.delegators[v][d].unbonding = Append(@, entry),
                                  !.unbonding_delegation_queue =
                                     Append(@, [validator |-> v, delegator |-> d, start |-> start])],
               v)

\* Delegator::redelegate_out; asked is history.  A variant that leaves the
\* stake where it was.
redelegate_out_Copies(s, src, dst, d, n, start) ==
    IF \/ s.delegators[src][d].redelegations_in # <<>>
       \/ s.delegators[src][d].staked < Decimal(n)
    THEN Err(s)
    ELSE [s EXCEPT !.delegators[src][d].redelegations_out =
                       IF start = None THEN @
                       ELSE Append(@, [amount |-> n, address |-> dst, start |-> start, asked |-> s.now])]
redelegate_out(s, src, dst, d, n, start) ==
    IF \/ s.delegators[src][d].redelegations_in # <<>>
       \/ s.delegators[src][d].staked < Decimal(n)
    THEN Err(s)
    ELSE [s EXCEPT !.stale = @ \cup {src},
                   !.delegators[src][d].staked = @ - Decimal(n),
                   !.delegators[src][d].redelegations_out =
                       IF start = None THEN @
                       ELSE Append(@, [amount |-> n, address |-> dst, start |-> start, asked |-> s.now])]

redelegate_in(s, src, dst, d, n, start) ==
    [s EXCEPT !.delegators[dst][d].redelegations_in =
                  IF start = None THEN @
                  ELSE Append(@, [amount |-> n, address |-> src, start |-> start, asked |-> s.now]),
              !.delegators[dst][d].staked = @ + Decimal(n)]

redelegate(s, src, dst, d, n) ==
    LET start == UnbondingStart(s, src)
        val   == s.validators[dst]
        moved(x) ==
            IF ~Declared(x, dst) \/ val.tombstoned \/ ~val.in_active_set \/ val.unbonding
            THEN Err(x)
            ELSE redelegate_in(x, src, dst, d, n, start)
        queued(x) ==
            [x EXCEPT !.redelegation_queue =
                          IF start = None THEN @
                          ELSE Append(@, [src |-> src, dst |-> dst, delegator |-> d,
                                          start |-> start]),
                      !.delegation_index[d] = @ \cup {dst}]
        updated(x) == update_vp(update_vp(x, src), dst)
    IN  IF src = dst THEN Err(s)
        ELSE Then(Then(Then(redelegate_out(s, src, dst, d, n, start), moved), queued), updated)

\* Staking::deduct.
deduct(s, v, d, n) ==
    LET x == process_unbonds(s, v, d)
    IN  IF x.delegators[v][d].liquid < n THEN Err(x)
        ELSE [x EXCEPT !.delegators[v][d].liquid = @ - n]

\* claim_all takes what the delegations of the signer show as liquid.
Claimable(s, d) ==
    {v \in s.delegation_index[d] : s.delegators[v][d].liquid > 0}
claim_all(s, d) ==
    FoldSet(LAMBDA v, x : deduct(x, v, d, s.delegators[v][d].liquid), s, Claimable(s, d))

\* try_unjail.
unjail(s, v) ==
    LET until == s.validators[v].jailed_until
    IN  IF until = None \/ s.now <= until THEN Err(s)
        ELSE update_vp([s EXCEPT !.validators[v].jailed_until = None], v)

-----------------------------------------------------------------------------
(* Punishing. *)

\* Validator::slash; it does nothing to a tombstoned validator.
slash(s, v, penalty, liveness_fault) ==
    IF s.validators[v].tombstoned THEN s
    ELSE [s EXCEPT
            !.validators[v].tombstoned = ~liveness_fault,
            !.delegators[v] = [d \in Address |->
                SlashDelegator(s.delegators[v][d], SlashDen - penalty, liveness_fault)]]

\* jail_for_seconds does not shorten the term.
punish_downtime(s, v) ==
    LET until == s.now + downtime_jail_seconds
        term  == IF jailed(s.validators[v])
                 THEN Max({until, s.validators[v].jailed_until}) ELSE until
    IN  update_vp(slash([s EXCEPT !.validators[v].jailed_until = term],
                        v, slash_downtime, TRUE), v)

\* The outbound redelegations that slash returns, delegator by delegator.
Outbound(s, v) ==
    IF s.validators[v].tombstoned THEN <<>>
    ELSE FoldLeft(LAMBDA all, d :
                    all \o [i \in DOMAIN s.delegators[v][d].redelegations_out |->
                              [delegator |-> d,
                               dst |-> s.delegators[v][d].redelegations_out[i].address,
                               amount |-> s.delegators[v][d].redelegations_out[i].amount]],
                  <<>>, SetToSortSeq(Address, <))

\* punish_double_sign: jail_forever, slash, and slash what was redelegated away.
punish_double_sign(s, v) ==
    LET multiplier == SlashDen - slash_double_sign
        slashed == slash([s EXCEPT !.validators[v].jailed_until = Forever],
                         v, slash_double_sign, FALSE)
        follow(x, r) ==
            LET res == slash_redelegation(x.delegators[r.dst][r.delegator],
                         amount(Times(Decimal(r.amount), multiplier, SlashDen)))
            IN  IF x.err \/ res.err THEN Err(x)
                ELSE [x EXCEPT !.delegators[r.dst][r.delegator] = res.del,
                               !.stale = @ \cup {r.dst}]
    IN  Then(FoldLeft(follow, slashed, Outbound(s, v)), LAMBDA x : update_vp(x, v))

\* Votes are recorded for any key, known to the module or not.
RecordVotes(s, signed) ==
    [s EXCEPT !.last_signed_block = [k \in Key |-> IF k \in signed THEN s.height ELSE @[k]]]

\* More than max_offline_blocks without a vote; a variant that is off by one.
Offline_OrEqual(s, k) ==
    /\ s.last_signed_block[k] # None
    /\ s.last_signed_block[k] + max_offline_blocks <= s.height
Offline(s, k) ==
    /\ s.last_signed_block[k] # None
    /\ s.last_signed_block[k] + max_offline_blocks < s.height

PunishOffline(s, k) ==
    LET v == CHOOSE w \in address_for_tm_hash(s, k) : TRUE
        x == IF s.validators[v].in_active_set THEN punish_downtime(s, v) ELSE s
    IN  [x EXCEPT !.last_signed_block[k] = None]

\* begin_block at time t, with the votes of the last commit and the keys that
\* evidence was found against.
begin_block(s0, t, signed, byzantine) ==
    LET s == RecordVotes([s0 EXCEPT !.now = t, !.height = @ + 1], signed)
        offline == {k \in Key : Offline(s, k) /\ address_for_tm_hash(s, k) # {}}
        punish(x, k) == IF x.err \/ address_for_tm_hash(x, k) = {} THEN Err(x)
                        ELSE punish_double_sign(x, CHOOSE v \in address_for_tm_hash(x, k) : TRUE)
    IN  FoldLeft(punish, FoldSet(LAMBDA k, x : PunishOffline(x, k), s, offline), byzantine)

-----------------------------------------------------------------------------
(* The end of the block. *)

\* transition_to_unbonded; the queue is in the order of the start times.
process_validator_queue(s) ==
    LET done == {e \in s.validator_queue : matured(s, e.start, unbonding_seconds)}
    IN  [s EXCEPT !.validators = [v \in Operator |->
                     [@[v] EXCEPT !.unbonding = @ /\ \A e \in done : e.address # v]],
                  !.validator_queue = @ \ done]

\* A variant that leaves the first entry of the queue unprocessed.
process_unbonding_delegation_queue_SkipsFirst(s) ==
    LET done == MaturedFront(s, s.unbonding_delegation_queue, unbonding_seconds)
        work == IF Len(done) > 1 THEN Tail(done) ELSE done
    IN  FoldLeft(LAMBDA x, e : process_unbonds(x, e.validator, e.delegator),
                 [s EXCEPT !.unbonding_delegation_queue = Rest(@, done)], work)
process_unbonding_delegation_queue(s) ==
    LET done == MaturedFront(s, s.unbonding_delegation_queue, unbonding_seconds)
    IN  FoldLeft(LAMBDA x, e : process_unbonds(x, e.validator, e.delegator),
                 [s EXCEPT !.unbonding_delegation_queue = Rest(@, done)], done)

process_redelegation_queue(s) ==
    LET done == MaturedFront(s, s.redelegation_queue, unbonding_seconds)
    IN  FoldLeft(LAMBDA x, e : process_redelegations_in(
                                 process_redelegations_out(x, e.src, e.delegator),
                                 e.dst, e.delegator),
                 [s EXCEPT !.redelegation_queue = Rest(@, done)], done)

process_all_queues(s) ==
    process_redelegation_queue(process_unbonding_delegation_queue(process_validator_queue(s)))

\* The first max_validators entries of the index with power; when it is 0 the
\* count never meets it and all of them are taken.
Before(e, f) == e.power > f.power \/ (e.power = f.power /\ e.address < f.address)
TopEntries(s) ==
    {e \in s.validators_by_power :
        /\ e.power > 0
        /\ \/ max_validators = 0
           \/ Cardinality({f \in s.validators_by_power : Before(f, e)}) < max_validators}
NewPower(s, v) ==
    LET mine == {e \in TopEntries(s) : e.address = v}
    IN  IF mine = {} THEN 0 ELSE (CHOOSE e \in mine : TRUE).power

\* The updates for Tendermint: the validators whose power changes.
NewPowerUpdates(s) == {v \in Operator : NewPower(s, v) # s.last_validator_powers[v]}

\* Entering and leaving the active set.
Transition(s, v) ==
    LET was == s.validators[v].in_active_set
        is  == NewPower(s, v) > 0
        key == s.validators[v].key
        set == [s EXCEPT !.validators[v].in_active_set = is]
    IN  CASE was /\ ~is ->
               [set EXCEPT !.validators[v].unbonding = TRUE,
                           !.validators[v].unbonding_start = s.now,
                           !.validator_queue = @ \cup {[start |-> s.now, address |-> v]},
                           !.last_signed_block[key] = None]
          [] ~was /\ is ->
               [set EXCEPT !.validators[v].unbonding = FALSE,
                           !.validator_queue = {e \in @ : e.address # v},
                           !.last_signed_block[key] = s.height]
          [] was = is -> set

end_block_step(s0) ==
    LET s == process_all_queues(s0)
        x == FoldSet(LAMBDA v, y : Transition(y, v), s, NewPowerUpdates(s))
    IN  [x EXCEPT !.last_validator_powers = [v \in Operator |-> NewPower(s, v)]]
===============================================================================
