---------------------------- MODULE MCCollections -----------------------------
(***************************************************************************)
(* The collections and the coins, each by itself: a behaviour is one of    *)
(* the component that which names, and the others stay as they were.       *)
(***************************************************************************)
EXTENDS Purses, MapCollection, Deque

VARIABLES which,
          i_store, i_children, range, map_iter, next_key, end_key, front, back, result, calls,
          compounding, contributions, shares_issued, rewards_this_period, last_period_entry,
          entries, cached, given, payouts,
          is_key_field, map, kept

\* Keys of one byte 0..3 where 3 is the largest; some of the values have
\* entries in their substores, and the collection's own value is at the empty
\* key.
ByteKeys == {<<0>>, <<1>>, <<2>>}
Bounded(kind, byte) == [kind |-> kind, key |-> <<byte>>]
Anywhere == [kind |-> "Unbounded", key |-> <<>>]
StoredKeys ==
    {ks \in SUBSET {<<>>, <<0>>, <<0, 3>>, <<1>>, <<1, 0>>, <<2>>} :
       \A k \in ks : Len(k) = 2 => <<k[1]>> \in ks}
I == INSTANCE MapIteration WITH
       MaxByte <- 3, MapKey <- ByteKeys, StoreKeys <- StoredKeys,
       Children <- [ByteKeys -> {Clean, Absent, "mem"}],
       Ranges <- {<<Anywhere, Anywhere>>,
                  <<Bounded("Included", 0), Bounded("Excluded", 2)>>,
                  <<Bounded("Included", 1), Bounded("Included", 2)>>},
       MaxCalls <- 4,
       store <- i_store, children <- i_children

P == INSTANCE Pool WITH
       Account <- {"a", "b"}, Unit <- 6, MayEmpty <- FALSE, ReadsAll <- FALSE,
       MaxBalance <- 3, MaxGiven <- 3

E == INSTANCE EntryMap WITH Arity <- 3, Value <- {0, 1}

ASSUME MapAssumption /\ ChildAssumption /\ DequeAssumption /\ P!PoolAssumption

ivars == <<i_store, i_children, range, map_iter, next_key, end_key, front, back, result, calls>>
pvars == <<compounding, contributions, shares_issued, rewards_this_period, last_period_entry,
           entries, cached, given, payouts>>
evars == <<is_key_field, map, kept>>
allvars == <<which, vars, map_vars, ivars, deque_vars, pvars, evars>>

\* A component that is not chosen starts in one of its initial states.
MCInit ==
    /\ which \in {"map", "iteration", "deque", "pool", "purses", "entries"}
    /\ Init /\ MapInit /\ DequeInit
    /\ I!Init
    /\ which # "iteration" =>
           i_store = {} /\ i_children = [k \in ByteKeys |-> Clean] /\ range = <<Anywhere, Anywhere>>
    /\ P!Init /\ (which # "pool" => compounding)
    /\ E!Init /\ (which # "entries" => is_key_field = [i \in 1..3 |-> TRUE])

MCNext ==
    \/ which = "map" /\ MapNext /\ UNCHANGED <<which, vars, ivars, deque_vars, pvars, evars>>
    \/ which = "iteration" /\ I!Next /\ UNCHANGED <<which, vars, map_vars, deque_vars, pvars, evars>>
    \/ which = "deque" /\ DequeNext /\ UNCHANGED <<which, vars, map_vars, ivars, pvars, evars>>
    \/ which = "pool" /\ P!Next /\ UNCHANGED <<which, vars, map_vars, ivars, deque_vars, evars>>
    \/ which = "purses" /\ Next /\ UNCHANGED <<which, map_vars, ivars, deque_vars, pvars, evars>>
    \/ which = "entries" /\ E!Next /\ UNCHANGED <<which, vars, map_vars, ivars, deque_vars, pvars>>

MCSpec == MCInit /\ [][MCNext]_allvars

-----------------------------------------------------------------------------
\* The iterator of a Map yields its entries, each once (MapIteration).
YieldsEntriesInOrder == which = "iteration" => I!YieldsEntriesInOrder
\* A pool's rewards go to its entries (Pool).
RewardsAreConserved == which = "pool" => P!RewardsAreConserved
\* An EntryMap gives back the entries it was given (EntryMap).
EntriesComeBack == which = "entries" => E!EntriesComeBack
===============================================================================
