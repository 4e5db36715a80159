------------------------------- MODULE Upgrade --------------------------------
(***************************************************************************)
(* Network upgrade coordination (upgrade/mod.rs): validators signal a      *)
(* version, and BeginBlock moves the network to it once old enough signals *)
(* carry more than the threshold of the voting power.                      *)
(***************************************************************************)
EXTENDS Naturals, FiniteSetsExt

CONSTANTS Validator,
          Version,
          InitialVersion,
          Powers,             \* the voting powers that are taken in turn
          ThresholdNum, ThresholdDen,  \* threshold, as a fraction
          activation_delay,   \* activation_delay_seconds
          rate_limit,         \* rate_limit_seconds
          NoSignal,
          MaxTime             \* bound: the time in blocks' headers

UpgradeAssumption ==
    /\ IsFiniteSet(Validator)
    /\ InitialVersion \in Version
    /\ Powers # {} /\ Powers \subseteq [Validator -> Nat]
    /\ ThresholdNum \in Nat /\ ThresholdDen \in Nat \ {0}
    /\ 2 * ThresholdNum >= ThresholdDen
    /\ activation_delay \in Nat /\ rate_limit \in Nat /\ MaxTime \in Nat

Signal == [version : Version, time : 0..MaxTime]

SignalAssumption == NoSignal \notin Signal

VARIABLES now,              \* the time of the current block
          power,            \* the validator set, from the Validators context
          signals,          \* Upgrade.signals
          current_version,
          bin_version,      \* the version of the node's binary
          stopped,          \* step returned Error::Version: the node has stopped
          reached,          \* history: since when the threshold has been
                            \* reached for each version, counting all signals
          since             \* history: the time of the last change of power

vars == <<now, power, signals, current_version, bin_version, stopped, reached, since>>

Never == MaxTime + 1

-----------------------------------------------------------------------------
TotalPower(pow, S) == MapThenSumSet(LAMBDA v : pow[v], S)

\* More than the threshold of the voting power is among S.
Exceeds(pow, S) ==
    ThresholdDen * TotalPower(pow, S) > ThresholdNum * TotalPower(pow, Validator)

Signalled(sig, version) == {v \in Validator : sig[v] # NoSignal /\ sig[v].version = version}

\* The signals that upgrade_ready counts.
Counted_Young(version) ==
    {v \in Signalled(signals, version) : version # current_version /\ power[v] > 0}
Counted(version) ==
    {v \in Signalled(signals, version) :
        signals[v].time + activation_delay <= now /\ version # current_version /\ power[v] > 0}

\* upgrade_ready returns one of these: find takes the first in the order of a
\* hash map.
upgrade_ready == {version \in Version : Exceeds(power, Counted(version))}

\* Called in BeginBlock; the app authorizes an upgrade or not.
step(authorized) ==
    /\ ~stopped
    /\ IF bin_version # current_version
       THEN /\ stopped' = TRUE
            /\ UNCHANGED current_version
       ELSE /\ IF authorized /\ upgrade_ready # {}
               THEN current_version' \in upgrade_ready
               ELSE UNCHANGED current_version
            /\ UNCHANGED stopped
    /\ UNCHANGED <<now, power, signals, bin_version, reached, since>>

Reached(sig, pow, t) ==
    [version \in Version |->
        IF ~Exceeds(pow, Signalled(sig, version)) THEN Never
        ELSE IF reached[version] = Never THEN t ELSE reached[version]]

\* The time and the validator set of the next block (external).
NextBlock(t, pow) ==
    /\ ~stopped
    /\ t \in now..MaxTime
    /\ now' = t
    /\ power' = pow
    /\ reached' = Reached(signals, pow, t)
    /\ since' = IF pow = power THEN since ELSE t
    /\ UNCHANGED <<signals, current_version, bin_version, stopped>>

signal(v, version) ==
    /\ ~stopped
    /\ signals[v] # NoSignal =>
          /\ now >= signals[v].time + rate_limit
          /\ version # signals[v].version
    /\ signals' = [signals EXCEPT ![v] = [version |-> version, time |-> now]]
    /\ reached' = Reached(signals', power, now)
    /\ UNCHANGED <<now, power, current_version, bin_version, stopped, since>>

\* A stopped node is started again, with some binary (external).
Restart(version) ==
    /\ stopped
    /\ stopped' = FALSE
    /\ bin_version' = version
    /\ UNCHANGED <<now, power, signals, current_version, reached, since>>

Init ==
    /\ now = 0
    /\ power \in Powers
    /\ signals = [v \in Validator |-> NoSignal]
    /\ current_version = InitialVersion /\ bin_version = InitialVersion
    /\ stopped = FALSE
    /\ reached = [version \in Version |-> Never]
    /\ since = 0

Next ==
    \/ \E authorized \in BOOLEAN : step(authorized)
    \/ \E t \in 0..MaxTime, pow \in Powers : NextBlock(t, pow)
    \/ \E v \in Validator, version \in Version : signal(v, version)
    \/ \E version \in Version : Restart(version)

Spec == Init /\ [][Next]_vars

-----------------------------------------------------------------------------
\* The version to return is unique.
IsDeterministic == \A v, w \in upgrade_ready : v = w

\* The power has not changed and the threshold has been reached for as long as
\* the delay.
IsTimely ==
    current_version' # current_version /\ since + activation_delay <= now =>
        reached[current_version'] + activation_delay <= now

(***************************************************************************)
(* Every node moves to the same version, and none too early.  However the  *)
(* hash map that upgrade_ready tallies in is ordered, find has at most one *)
(* version to return, also when validators change their signals and their  *)
(* power.  And "only signals older than activation_delay_seconds are       *)
(* considered when tallying votes, meaning that the network will           *)
(* transition to the new version activation_delay_seconds after the        *)
(* threshold is reached at the earliest" (the doc of Upgrade): step weighs *)
(* the signals with the power of the day, so this is so when the power has *)
(* not changed for as long.                                                *)
(***************************************************************************)
UpgradesAreSound == []IsDeterministic /\ [][IsTimely]_vars
=============================================================================
