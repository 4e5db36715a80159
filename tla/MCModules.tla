------------------------------ MODULE MCModules -------------------------------
(***************************************************************************)
(* The modules of an application: staking, with three accounts that may    *)
(* all declare a validator, and IBC on two chains: the handshakes that     *)
(* open connections and channels, transfers over an open channel, and the  *)
(* keys under which a chain keeps what it proves.  A behaviour is one of   *)
(* the component that which names, and the others stay as they were.       *)
(***************************************************************************)
EXTENDS Handshake, Ibc, TLC

CONSTANT None

VARIABLES which, store, held, removed,
          s, plugin, wallet, phase, valsets, missed, reported, told, calls

\* Identifiers of which one is the beginning of another.
P == INSTANCE IbcPaths WITH
       ClientId <- {<<"t", "1">>, <<"t", "1", "0">>},
       ConnectionId <- {<<"n", "1">>, <<"n", "1", "0">>},
       PortId <- {<<"x">>}, ChannelId <- {<<"k", "1">>, <<"k", "1", "0">>},
       Denom <- {<<"d">>, <<"d", "e">>}, Address <- {<<"e", "f">>, <<"f">>},
       Sequence <- {1, 10}, Height <- {1, 10}, MaxHeld <- 2

declared(v, k, n) == [call |-> "declare", address |-> v, key |-> k, min_self |-> 1, amount |-> n]
delegated(v, d, n) == [call |-> "delegate", address |-> v, delegator |-> d, amount |-> n]

\* The module's unbonding period is longer than the delegators' constant.
S == INSTANCE StakingChain WITH
       Key <- {"k1", "k2", "k3"}, Address <- {1, 2, 3}, Operator <- {1, 2, 3},
       Genesis <- {<<declared(1, "k1", 3), declared(2, "k2", 1), delegated(1, 3, 1)>>, <<>>},
       GenesisPowers <- "k1" :> 3 @@ "k2" :> 1 @@ "k3" :> 0,
       Funds <- <<0, 0, 1>>, Amounts <- {1}, Unit <- 16, Forever <- 100,
       unbonding_seconds <- 4, UNBONDING_SECONDS <- 2,
       max_validators <- 2, max_offline_blocks <- 2, downtime_jail_seconds <- 1,
       min_self_delegation_min <- 1, EDIT_INTERVAL_SECONDS <- 2,
       SlashDen <- 4, slash_double_sign <- 1, slash_downtime <- 1,
       TimeSteps <- {2}, MaxHeight <- 5, MaxCalls <- 2, MaxFaults <- 1

ASSUME ChainsAssumption
ASSUME S!StakingAssumption

pvars == <<store, held, removed>>
svars == <<s, plugin, wallet, phase, valsets, missed, reported, told, calls>>

MCInit ==
    /\ which \in {"handshake", "packets", "paths", "staking"}
    /\ HandshakeInit /\ IbcInit /\ P!Init /\ S!Init
    /\ which = "staking" \/ s = S!Empty

MCNext ==
    \/ which = "handshake" /\ HandshakeNext /\ UNCHANGED <<which, ibc_vars, pvars, svars>>
    \/ which = "packets" /\ IbcNext /\ UNCHANGED <<which, handshake_vars, pvars, svars>>
    \/ which = "paths" /\ P!Next /\ UNCHANGED <<which, handshake_vars, ibc_vars, svars>>
    \/ which = "staking" /\ S!Next /\ UNCHANGED <<which, handshake_vars, ibc_vars, pvars>>

MCSpec == MCInit /\ [][MCNext]_<<which, handshake_vars, ibc_vars, pvars, svars>>

\* The two chains run the same code.
MCSymmetry == Permutations(Chain)

-----------------------------------------------------------------------------
\* What is in the maps is found under its path, and nothing else, but for what
\* entries whose keys begin one another take from each other (IbcPaths).
PathsFindTheirEntries == which = "paths" => P!PathsFindTheirEntries

\* The index the active set is chosen from agrees with the stakes (StakingChain).
PowerIndexMatchesStake == which = "staking" => S!PowerIndexMatchesStake

\* The active set, current_vp and Tendermint's set agree (StakingChain).
ActiveSetMatchesTendermint == which = "staking" => S!ActiveSetMatchesTendermint

\* Unbonds and redelegations are settled in time (StakingChain).
UnbondsAreTimely == which = "staking" => S!UnbondsAreTimely

\* Calls and the end of a block make no coins (StakingChain).
CoinsAreConserved == S!CoinsAreConserved

\* Only validators that missed a vote or were reported are punished, and those
\* who moved stake away from them (StakingChain).
OnlyFaultsArePunished == S!OnlyFaultsArePunished
===============================================================================
