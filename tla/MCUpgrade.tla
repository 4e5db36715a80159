------------------------------- MODULE MCUpgrade -------------------------------
(***************************************************************************)
(* What may stop a node and start it anew: an application that fails, a    *)
(* network upgrade that its validators signal, and the set-up of its home  *)
(* directory.  A behaviour is one of the component that which names, and   *)
(* the others stay as they were.                                           *)
(***************************************************************************)
EXTENDS MCAbci, Setup, TLC

CONSTANTS A, B, C, NoSignal

VARIABLES which,
          now, power, signals, current_version, bin_version, stopped, reached, since

Halved == (A :> 2) @@ (B :> 1) @@ (C :> 1)
Shifted == (A :> 0) @@ (B :> 1) @@ (C :> 4)

Network == INSTANCE Upgrade WITH
             Validator <- {A, B, C}, Version <- 0..2, InitialVersion <- 0,
             Powers <- {Halved, Shifted}, ThresholdNum <- 1, ThresholdDen <- 2,
             activation_delay <- 2, rate_limit <- 1, MaxTime <- 3

ASSUME Network!UpgradeAssumption /\ Network!SignalAssumption

nvars == <<now, power, signals, current_version, bin_version, stopped, reached, since>>

\* A component that is not chosen starts in one of its initial states.
MCInit ==
    /\ which \in {"machine", "upgrade", "setup"}
    /\ Init /\ (which # "machine" => merk = EmptyTree)
    /\ Network!Init /\ (which # "upgrade" => power = Halved)
    /\ HomeInit /\ (which # "setup" => opts = [chain_id |-> "default", genesis_bytes |-> "none"])

MCNext ==
    \/ which = "machine" /\ Next /\ UNCHANGED <<which, nvars, home_vars>>
    \/ which = "upgrade" /\ Network!Next /\ UNCHANGED <<which, vars, home_vars>>
    \/ which = "setup" /\ HomeNext /\ UNCHANGED <<which, vars, nvars>>

MCSpec == MCInit /\ [][MCNext]_<<which, vars, nvars, home_vars>>

-----------------------------------------------------------------------------
\* Every node moves to the same version, and none too early (Upgrade).
UpgradesAreSound == Network!UpgradesAreSound
===============================================================================
