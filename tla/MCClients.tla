------------------------------- MODULE MCClients -------------------------------
(***************************************************************************)
(* The clients and what they reach: a light client that runs programs on   *)
(* a partial copy of the store, and transactions through the plugins of    *)
(* an application.  A behaviour is one of the component that which names,  *)
(* and the other stays as it was.                                          *)
(***************************************************************************)
EXTENDS LightClient, Txs

VARIABLE which

-----------------------------------------------------------------------------
(* The light client: an application of two levels of maps, and what a        *)
(* program may ask of it.                                                    *)

Plain == [id |-> "u8", kind |-> "none"]
MapOf(id, value) ==
    [id |-> id, kind |-> "dynamic", fields |-> <<>>, calls |-> <<>>, value |-> value,
     queries |-> <<[args |-> 1, body |-> "get", at |-> <<>>],     \* contains_key
                   [args |-> 1, body |-> "get", at |-> <<>>]>>]   \* get
Map == MapOf("Map", Plain)
MapOfMaps == MapOf("Map<Map>", Map)
FieldOf(op, prefix, call, public, ty) ==
    [op |-> op, prefix |-> prefix, call |-> call, public |-> public, ty |-> ty]
Leaf == [id |-> "Leaf", kind |-> "named", fields |-> <<>>, queries |-> <<>>,
         calls |-> <<[args |-> 0], [args |-> 1]>>]
MCApp ==
    [id |-> "Foo", kind |-> "named",
     fields |-> <<FieldOf("Append", <<0>>, FALSE, TRUE, Plain),
                  FieldOf("Append", <<1>>, FALSE, TRUE, MapOfMaps),
                  FieldOf("Append", <<2>>, TRUE, TRUE, Leaf),
                  FieldOf("Absolute", <<9>>, TRUE, TRUE, Leaf),
                  FieldOf("Append", <<3>>, FALSE, FALSE, Map),
                  FieldOf("Append", <<4>>, TRUE, TRUE, Map)>>,
     calls |-> <<[args |-> 0], [args |-> 1]>>,
     queries |-> <<[args |-> 0, body |-> "iter", at |-> <<1>>],
                   [args |-> 0, body |-> "iter_rev", at |-> <<3>>],
                   [args |-> 0, body |-> "none", at |-> <<>>]>>]
MCPrefix == <<0>>
KeyBytes == {0, 255}

Entries == {<<>>} \cup {<<0, 1, k>> : k \in KeyBytes} \cup {<<0, 1, 0, k>> : k \in KeyBytes}
           \cup {<<0, 3, 0>>}
ReadKeys == Entries \cup {<<0>>, <<0, 1>>, <<0, 3>>, <<0, 4>>} \cup {<<0, 4, k>> : k \in KeyBytes}
         \cup {<<0, 1, k, j>> : k \in KeyBytes, j \in KeyBytes}
MCKeys == ReadKeys \cup {increment_bytes(k) : k \in ReadKeys}
\* Every store has a root, and entries of a nested map only below its entry.
MCStores == {s \in SUBSET Entries :
                /\ <<>> \in s
                /\ \A k \in KeyBytes : <<0, 1, 0, k>> \in s => <<0, 1, 0>> \in s}

\* Queries of the application, of its maps, and of the maps in a map.
MapQueries == {<<Method(1, <<0>>)>>, <<Method(2, <<0>>)>>, <<Method(2, <<255>>)>>}
Traced == {<<Method(m, <<>>)>> : m \in {1, 2, 3}}
          \cup {<<Field(2)>> \o q : q \in MapQueries}
          \cup {<<Field(2), Method(GetMethod, <<k>>)>> \o q : k \in KeyBytes, q \in MapQueries}
          \cup {<<Field(6)>> \o q : q \in MapQueries}
TracedChains == {ChainOf(m) : m \in Traced}
IterOf(body, key) == <<[message |-> <<>>, body |-> body, key |-> key]>>
UntracedChains == {IterOf(b, k) : b \in {"iter", "iter_rev"}, k \in {<<0, 1>>, <<0, 4>>}}

ProgramsOf(chains) == {<<c, d>> : c \in chains, d \in chains}
MCPrograms == {<<>>} \cup ProgramsOf(TracedChains) \cup ProgramsOf(UntracedChains)
MixedPrograms == {<<c, d>> : c \in TracedChains, d \in UntracedChains}

MCBuilt == {<<Method(1, <<>>)>>, <<Method(2, <<7>>)>>,
            <<Field(3), Method(1, <<>>)>>, <<Field(3), Method(2, <<7>>)>>}

-----------------------------------------------------------------------------
(* Transactions of the wallet and of others. *)

take(n) == [op |-> "take_as_funding", amount |-> n]
send(d, n) == [op |-> "transfer", to |-> d, amount |-> n]
give(n) == [op |-> "give_from_funding", amount |-> n]
give_all == [op |-> "give_from_funding_all"]
no_fee == [op |-> "disable_fee"]

MCCalls == {[payer |-> take(2), paid |-> give_all],
            [payer |-> take(1), paid |-> send(3, 2)]}

Tx(form, signature, chain, nonce, payer, paid) ==
    [kind |-> form, signature |-> signature, by |-> 2, chain |-> chain, nonce |-> nonce,
     payer |-> payer, paid |-> paid]

MCOthers ==
    {Tx("native", "good", "this", 1, take(1), give(1)),
     Tx("native", "good", "that", 2, no_fee, send(3, 1)),
     Tx("native", "half", "this", 1, no_fee, send(3, 1)),
     Tx("native", "none", "this", None, None, give_all),
     Tx("native", "none", "this", 2, no_fee, send(3, 1)),
     Tx("amino", "good", "this", 1, take(2), give(1)),
     Tx("protobuf", "good", "this", None, no_fee, send(1, 1))}

MCGenesis == [nonce |-> [d \in 1..3 |-> 0], accounts |-> <<3, 3, None>>,
              transfers_allowed |-> FALSE, transfer_exceptions |-> {1, 2},
              chain_id |-> "this", amount_minted |-> 0]
MCfaucet == [num_periods |-> 2, seconds_per_period |-> 1, total_to_mint |-> 4,
             period_decay |-> <<1, 2>>, start_seconds |-> 0]

ASSUME TxsAssumption /\ SoleWallet

\* A component that is not chosen starts in one of its initial states.
MCInit ==
    /\ which \in {"light client", "transactions"}
    /\ \/ which = "light client"
       \/ which = "transactions" /\ store = {<<>>} /\ kind = "PartialMap" /\ program = <<>>
    /\ ClientInit /\ Init

MCNext ==
    \/ which = "light client" /\ ClientNext /\ UNCHANGED <<which, vars>>
    \/ which = "transactions" /\ Next /\ UNCHANGED <<which, client_vars>>

MCSpec == MCInit /\ [][MCNext]_<<which, client_vars, vars>>

-----------------------------------------------------------------------------
\* Reads of a partial copy have the node's answer (LightClient).
CopiesAreRight == which = "light client" => PartialReadsAreRight
===============================================================================
