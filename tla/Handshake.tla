------------------------------- MODULE Handshake -------------------------------
(***************************************************************************)
(* The connection and channel handshakes of two chains that run this IBC   *)
(* host.  The handlers are those of the ibc library, modelled by how the   *)
(* host's contexts are used; the stores and counters are the host's.       *)
(* Relayers work from what the query services answered at any time, so     *)
(* several of them race each other with proofs that may be old.            *)
(***************************************************************************)
EXTENDS Naturals

CONSTANTS Chain, MaxClients, MaxConnections, MaxChannels

ASSUME HandshakeAssumption ==
    /\ \E a, b \in Chain : a # b /\ Chain = {a, b}
    /\ MaxClients \in Nat /\ MaxConnections \in Nat /\ MaxChannels \in Nat

VARIABLES client_counter, connection_counter, channel_counter,
          clients,            \* clients[c][k]: the connections of the client k of c
          connections,        \* connections[c][i]: a ConnectionEnd
          channel_ends,       \* channel_ends[c][i]: a ChannelEnd of the transfer port
          next_sequence,      \* next_sequence[c][i]: those of send, recv and ack
          shown_connections,  \* shown_connections[c]: what the services of c ever
          shown_channels      \* answered, as pairs of an identifier and its end

hosts == <<client_counter, connection_counter, channel_counter,
           clients, connections, channel_ends, next_sequence>>
handshake_vars == <<hosts, shown_connections, shown_channels>>

Other(c) == CHOOSE d \in Chain : d # c

\* Map::insert
Put(map, key, value) ==
    [k \in DOMAIN map \cup {key} |-> IF k = key THEN value ELSE map[k]]

\* An end names its counterparty's once it knows it.
ConnectionEnd(state, client, remote_client, remote) ==
    [state |-> state, client |-> client, remote_client |-> remote_client, remote |-> remote]
Channel(state, connection, remote) ==
    [state |-> state, connection |-> connection, remote |-> remote]

-----------------------------------------------------------------------------
query_all_connections(map) == {<<i, map[i]>> : i \in DOMAIN map}
query_all_channels(map) == {<<i, map[i]>> : i \in DOMAIN map}

\* Every block's state can be asked for, and proved, from then on.
Answer ==
    /\ shown_connections' =
           [c \in Chain |-> shown_connections[c] \cup query_all_connections(connections'[c])]
    /\ shown_channels' =
           [c \in Chain |-> shown_channels[c] \cup query_all_channels(channel_ends'[c])]

HandshakeInit ==
    /\ client_counter = [c \in Chain |-> 0]
    /\ connection_counter = [c \in Chain |-> 0]
    /\ channel_counter = [c \in Chain |-> 0]
    /\ clients = [c \in Chain |-> [k \in {} |-> {}]]
    /\ connections = [c \in Chain |-> [i \in {} |-> {}]]
    /\ channel_ends = [c \in Chain |-> [i \in {} |-> {}]]
    /\ next_sequence = [c \in Chain |-> [i \in {} |-> 0]]
    /\ shown_connections = [c \in Chain |-> {}]
    /\ shown_channels = [c \in Chain |-> {}]

create_client(c) ==
    /\ client_counter[c] < MaxClients
    /\ clients' = [clients EXCEPT ![c] = Put(@, client_counter[c], {})]
    /\ client_counter' = [client_counter EXCEPT ![c] = @ + 1]
    /\ UNCHANGED <<connection_counter, channel_counter, connections, channel_ends, next_sequence>>
    /\ Answer

-----------------------------------------------------------------------------
store_connection(c, i, end) ==
    connections' = [connections EXCEPT ![c] = Put(@, i, end)]

store_connection_to_client(c, k, i) ==
    clients' = [clients EXCEPT ![c] = Put(@, k, @[k] \cup {i})]

increase_connection_counter_Keeps(c) ==
    connection_counter' = connection_counter

increase_connection_counter(c) ==
    connection_counter' = [connection_counter EXCEPT ![c] = @ + 1]

NewConnection(c, end) ==
    /\ end.client \in DOMAIN clients[c]
    /\ connection_counter[c] < MaxConnections
    /\ increase_connection_counter(c)
    /\ store_connection_to_client(c, end.client, connection_counter[c])
    /\ store_connection(c, connection_counter[c], end)
    /\ UNCHANGED <<client_counter, channel_counter, channel_ends, next_sequence>>
    /\ Answer

conn_open_init(c, k, remote_k) ==
    NewConnection(c, ConnectionEnd("INIT", k, remote_k, {}))

\* validate_self_client accepts any client state for the host itself.
conn_open_try(c, k, remote_k, j) ==
    /\ <<j, ConnectionEnd("INIT", remote_k, k, {})>> \in shown_connections[Other(c)]
    /\ NewConnection(c, ConnectionEnd("TRYOPEN", k, remote_k, {j}))

\* The end i of c is state and waits for the proof of its counterparty j.
OpenConnection(c, i, j, state, remote_state) ==
    /\ i \in DOMAIN connections[c]
    /\ LET end == connections[c][i]
       IN  /\ end.state = state
           /\ <<j, ConnectionEnd(remote_state, end.remote_client, end.client, {i})>>
                  \in shown_connections[Other(c)]
           /\ store_connection(c, i, [end EXCEPT !.state = "OPEN", !.remote = {j}])
    /\ UNCHANGED <<client_counter, connection_counter, channel_counter,
                   clients, channel_ends, next_sequence>>
    /\ Answer

conn_open_ack(c, i, j) == OpenConnection(c, i, j, "INIT", "TRYOPEN")

conn_open_confirm(c, i, j) ==
    /\ i \in DOMAIN connections[c] /\ connections[c][i].remote = {j}
    /\ OpenConnection(c, i, j, "TRYOPEN", "OPEN")

-----------------------------------------------------------------------------
store_channel(c, i, end) ==
    channel_ends' = [channel_ends EXCEPT ![c] = Put(@, i, end)]

increase_channel_counter(c) ==
    channel_counter' = [channel_counter EXCEPT ![c] = @ + 1]

\* store_next_sequence_send, _recv and _ack
store_next_sequences(c, i, n) ==
    next_sequence' = [next_sequence EXCEPT ![c] = Put(@, i, n)]

NewChannel(c, end) ==
    /\ channel_counter[c] < MaxChannels
    /\ store_channel(c, channel_counter[c], end)
    /\ increase_channel_counter(c)
    /\ store_next_sequences(c, channel_counter[c], 1)
    /\ UNCHANGED <<client_counter, connection_counter, clients, connections>>
    /\ Answer

IsOpen(c, i) == i \in DOMAIN connections[c] /\ connections[c][i].state = "OPEN"

\* The connection of a new channel need not be open yet.
chan_open_init(c, i) ==
    /\ i \in DOMAIN connections[c]
    /\ NewChannel(c, Channel("INIT", i, {}))

chan_open_try(c, i, j) ==
    /\ IsOpen(c, i)
    /\ \E r \in connections[c][i].remote :
           <<j, Channel("INIT", r, {})>> \in shown_channels[Other(c)]
    /\ NewChannel(c, Channel("TRYOPEN", i, {j}))

OpenChannel(c, i, j, state, remote_state) ==
    /\ i \in DOMAIN channel_ends[c]
    /\ LET end == channel_ends[c][i]
       IN  /\ end.state = state
           /\ IsOpen(c, end.connection)
           /\ \E r \in connections[c][end.connection].remote :
                  <<j, Channel(remote_state, r, {i})>> \in shown_channels[Other(c)]
           /\ store_channel(c, i, [end EXCEPT !.state = "OPEN", !.remote = {j}])
    /\ UNCHANGED <<client_counter, connection_counter, channel_counter,
                   clients, connections, next_sequence>>
    /\ Answer

chan_open_ack(c, i, j) == OpenChannel(c, i, j, "INIT", "TRYOPEN")

chan_open_confirm(c, i, j) ==
    /\ i \in DOMAIN channel_ends[c] /\ channel_ends[c][i].remote = {j}
    /\ OpenChannel(c, i, j, "TRYOPEN", "OPEN")

HandshakeNext ==
    \E c \in Chain :
        \/ create_client(c)
        \/ \E k, r \in 0..(MaxClients - 1) :
               \/ conn_open_init(c, k, r)
               \/ \E j \in 0..(MaxConnections - 1) : conn_open_try(c, k, r, j)
        \/ \E i, j \in 0..(MaxConnections - 1) : conn_open_ack(c, i, j) \/ conn_open_confirm(c, i, j)
        \/ \E i \in 0..(MaxConnections - 1) :
               \/ chan_open_init(c, i)
               \/ \E j \in 0..(MaxChannels - 1) : chan_open_try(c, i, j)
        \/ \E i, j \in 0..(MaxChannels - 1) : chan_open_ack(c, i, j) \/ chan_open_confirm(c, i, j)

HandshakeSpec == HandshakeInit /\ [][HandshakeNext]_handshake_vars

-----------------------------------------------------------------------------
\* The two ends of a connection name each other and each other's clients.
ConnectionsAgree(c) ==
    \A i \in DOMAIN connections[c] :
        LET end == connections[c][i] IN
        end.state = "OPEN" =>
            \E j \in DOMAIN connections[Other(c)] :
                LET remote == connections[Other(c)][j] IN
                /\ end.remote = {j} /\ remote.remote = {i}
                /\ remote.state \in {"TRYOPEN", "OPEN"}
                /\ remote.client = end.remote_client /\ remote.remote_client = end.client

\* So do those of a channel, over the two ends of one connection.
ChannelsAgree(c) ==
    \A i \in DOMAIN channel_ends[c] :
        LET end == channel_ends[c][i] IN
        end.state = "OPEN" =>
            \E j \in DOMAIN channel_ends[Other(c)] :
                LET remote == channel_ends[Other(c)][j] IN
                /\ end.remote = {j} /\ remote.remote = {i}
                /\ remote.state \in {"TRYOPEN", "OPEN"}
                /\ IsOpen(c, end.connection)
                /\ connections[c][end.connection].remote = {remote.connection}

\* An end that is OPEN has one counterparty end, which names it alone, with
\* the same pair of clients below, whichever relayer was first and however
\* old the proofs it brought: the counters of the host give an end an
\* identifier that no other end ever had.
HandshakesAgree == \A c \in Chain : ConnectionsAgree(c) /\ ChannelsAgree(c)
===============================================================================
