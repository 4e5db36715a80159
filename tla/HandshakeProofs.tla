--------------------------- MODULE HandshakeProofs ---------------------------
(***************************************************************************)
(* The two ends of every connection and of every channel agree, for any    *)
(* number of clients, connections and channels.                            *)
(***************************************************************************)
EXTENDS Handshake, TLAPS

USE ZenonT(60)

-----------------------------------------------------------------------------

State == {"INIT", "TRYOPEN", "OPEN"}
Ends == [state : State, client : Nat, remote_client : Nat, remote : SUBSET Nat]
Channels == [state : State, connection : Nat, remote : SUBSET Nat]

IsMap(map, size, V) ==
    \A i \in DOMAIN map : i \in Nat /\ i < size /\ map[i] \in V

\* The parts that the connections, and the channels, keep by themselves.
ConnectionTypes ==
    /\ connections = [c \in Chain |-> connections[c]]
    /\ connection_counter \in [Chain -> Nat]
    /\ shown_connections = [c \in Chain |-> shown_connections[c]]
    /\ \A c \in Chain : IsMap(connections[c], connection_counter[c], Ends)

ChannelTypes ==
    /\ channel_ends = [c \in Chain |-> channel_ends[c]]
    /\ channel_counter \in [Chain -> Nat]
    /\ shown_channels = [c \in Chain |-> shown_channels[c]]
    /\ \A c \in Chain : IsMap(channel_ends[c], channel_counter[c], Channels)

\* What an end may have become since it was shown: its clients never change,
\* one that knew its counterparty still has it, and an open one is as it was.
Became(old, new) ==
    /\ new.client = old.client /\ new.remote_client = old.remote_client
    /\ old.state = "TRYOPEN" => new.state \in {"TRYOPEN", "OPEN"} /\ new.remote = old.remote
    /\ old.state = "OPEN" => new = old

ChannelBecame(old, new) ==
    /\ new.connection = old.connection
    /\ old.state = "TRYOPEN" => new.state \in {"TRYOPEN", "OPEN"} /\ new.remote = old.remote
    /\ old.state = "OPEN" => new = old

ConnectionHistory(c) ==
    \A i, end : <<i, end>> \in shown_connections[c] =>
        i \in DOMAIN connections[c] /\ Became(end, connections[c][i])

ChannelHistory(c) ==
    \A i, end : <<i, end>> \in shown_channels[c] =>
        i \in DOMAIN channel_ends[c] /\ ChannelBecame(end, channel_ends[c][i])

ConnectionInv == ConnectionTypes /\ \A c \in Chain : ConnectionHistory(c) /\ ConnectionsAgree(c)
ChannelInv == ChannelTypes /\ \A c \in Chain : ChannelHistory(c) /\ ChannelsAgree(c)

\* The inductive invariant.
HandshakeInv == ConnectionInv /\ ChannelInv

-----------------------------------------------------------------------------
\* The other of two chains is the other one, and back.
LEMMA OtherChain ==
    ASSUME NEW c \in Chain
    PROVE  /\ Other(c) \in Chain /\ Other(c) # c /\ Other(Other(c)) = c
           /\ \A d \in Chain : d = c \/ d = Other(c)
<1>1. PICK a \in Chain, b \in Chain : a # b /\ Chain = {a, b}
  BY HandshakeAssumption
<1>2. \A x \in Chain : \E d \in Chain : d # x
  BY <1>1, SMTT(60)
<1>3. \A x \in Chain : Other(x) \in Chain /\ Other(x) # x
  BY <1>2 DEF Other
<1>4. \A d \in Chain : d = c \/ d = Other(c)
  BY <1>1, <1>3
<1>. QED
  BY <1>3, <1>4

\* The pairs the services show are the entries of the map.
LEMMA Listed ==
    ASSUME NEW map, NEW i, NEW end
    PROVE  /\ <<i, end>> \in query_all_connections(map) <=> i \in DOMAIN map /\ end = map[i]
           /\ <<i, end>> \in query_all_channels(map) <=> i \in DOMAIN map /\ end = map[i]
BY DEF query_all_connections, query_all_channels

-----------------------------------------------------------------------------
\* A step that touches no connection keeps what holds of them.
LEMMA ConnectionsSame ==
    ASSUME ConnectionInv, Answer, UNCHANGED <<connections, connection_counter>>
    PROVE  ConnectionInv'
<1>1. ConnectionTypes'
  BY DEF ConnectionInv, ConnectionTypes, Answer
<1>2. ASSUME NEW c \in Chain
      PROVE  ConnectionHistory(c)'
  <2>1. SUFFICES ASSUME NEW i, NEW end, <<i, end>> \in shown_connections'[c]
                 PROVE  i \in DOMAIN connections[c] /\ Became(end, connections[c][i])
    BY DEF ConnectionHistory
  <2>2. CASE <<i, end>> \in shown_connections[c]
    BY <2>2, <1>2 DEF ConnectionInv, ConnectionHistory
  <2>3. CASE <<i, end>> \in query_all_connections(connections[c])
    <3>1. i \in DOMAIN connections[c] /\ end = connections[c][i]
      BY <2>3, Listed
    <3>2. end \in Ends
      BY <3>1, <1>2 DEF ConnectionInv, ConnectionTypes, IsMap
    <3>. QED
      BY <3>1, <3>2 DEF Became, Ends, State
  <2>. QED
    BY <2>1, <2>2, <2>3, <1>2 DEF Answer
<1>3. ASSUME NEW c \in Chain PROVE ConnectionsAgree(c)'
  BY <1>3 DEF ConnectionInv, ConnectionsAgree
<1>. QED
  BY <1>1, <1>2, <1>3 DEF ConnectionInv

\* What happens to an end of c in a step that stores one end of it.
StoresEnd(c, i, end) ==
    /\ connections' = [connections EXCEPT ![c] = Put(@, i, end)]
    /\ Answer

\* A new end has an identifier that no end had, and is not open.
LEMMA ConnectionsNew ==
    ASSUME NEW c \in Chain, NEW end \in Ends, end.state # "OPEN", ConnectionInv,
           StoresEnd(c, connection_counter[c], end),
           connection_counter' = [connection_counter EXCEPT ![c] = @ + 1]
    PROVE  /\ ConnectionInv'
           /\ \A d \in Chain : \A i \in DOMAIN connections[d] :
                  i \in DOMAIN connections'[d] /\ connections'[d][i] = connections[d][i]
<1>. DEFINE n == connection_counter[c]
<1>1. /\ connections'[c] = Put(connections[c], n, end)
      /\ \A d \in Chain : d # c => connections'[d] = connections[d]
      /\ connections' = [d \in Chain |-> connections'[d]]
  BY DEF ConnectionInv, ConnectionTypes, StoresEnd
<1>2. n \in Nat /\ n \notin DOMAIN connections[c]
  BY SMTT(60) DEF ConnectionInv, ConnectionTypes, IsMap
<1>3. /\ DOMAIN connections'[c] = DOMAIN connections[c] \cup {n}
      /\ connections'[c][n] = end
      /\ \A i \in DOMAIN connections[c] : connections'[c][i] = connections[c][i]
  <2>. HIDE DEF n
  <2>1. /\ DOMAIN Put(connections[c], n, end) = DOMAIN connections[c] \cup {n}
        /\ Put(connections[c], n, end)[n] = end
        /\ \A i \in DOMAIN connections[c] : i # n =>
               Put(connections[c], n, end)[i] = connections[c][i]
    BY DEF Put
  <2>. QED
    BY <1>1, <1>2, <2>1
<1>4. \A d \in Chain : \A i \in DOMAIN connections[d] :
          i \in DOMAIN connections'[d] /\ connections'[d][i] = connections[d][i]
  BY <1>1, <1>3
<1>5. ConnectionTypes'
  <2>1. /\ connection_counter' \in [Chain -> Nat]
        /\ connection_counter'[c] = n + 1
        /\ \A d \in Chain : d # c => connection_counter'[d] = connection_counter[d]
    BY SMTT(60) DEF ConnectionInv, ConnectionTypes
  <2>2. IsMap(connections'[c], connection_counter'[c], Ends)
    BY <1>2, <1>3, <2>1, SMTT(60) DEF ConnectionInv, ConnectionTypes, IsMap
  <2>3. \A d \in Chain : IsMap(connections'[d], connection_counter'[d], Ends)
    BY <1>1, <2>1, <2>2 DEF ConnectionInv, ConnectionTypes
  <2>4. shown_connections' = [d \in Chain |-> shown_connections'[d]]
    BY DEF StoresEnd, Answer
  <2>. QED
    BY <1>1, <2>1, <2>3, <2>4 DEF ConnectionTypes
<1>6. ASSUME NEW d \in Chain
      PROVE  ConnectionHistory(d)'
  <2>1. SUFFICES ASSUME NEW i, NEW old, <<i, old>> \in shown_connections'[d]
                 PROVE  i \in DOMAIN connections'[d] /\ Became(old, connections'[d][i])
    BY DEF ConnectionHistory
  <2>2. CASE <<i, old>> \in shown_connections[d]
    BY <2>2, <1>4, <1>6 DEF ConnectionInv, ConnectionHistory
  <2>3. CASE <<i, old>> \in query_all_connections(connections'[d])
    <3>1. i \in DOMAIN connections'[d] /\ old = connections'[d][i]
      BY <2>3, Listed
    <3>2. old \in Ends
      BY <3>1, <1>5, <1>6 DEF ConnectionTypes, IsMap
    <3>. QED
      BY <3>1, <3>2 DEF Became, Ends, State
  <2>. QED
    BY <2>1, <2>2, <2>3, <1>6 DEF StoresEnd, Answer
<1>7. ASSUME NEW d \in Chain
      PROVE  ConnectionsAgree(d)'
  <2>1. SUFFICES ASSUME NEW i \in DOMAIN connections'[d], connections'[d][i].state = "OPEN"
                 PROVE  \E j \in DOMAIN connections'[Other(d)] :
                            /\ connections'[d][i].remote = {j}
                            /\ connections'[Other(d)][j].remote = {i}
                            /\ connections'[Other(d)][j].state \in {"TRYOPEN", "OPEN"}
                            /\ connections'[Other(d)][j].client = connections'[d][i].remote_client
                            /\ connections'[Other(d)][j].remote_client = connections'[d][i].client
    BY DEF ConnectionsAgree
  <2>2. i \in DOMAIN connections[d] /\ connections'[d][i] = connections[d][i]
    BY <2>1, <1>1, <1>3, <1>4
  <2>3. PICK j \in DOMAIN connections[Other(d)] :
            /\ connections[d][i].remote = {j}
            /\ connections[Other(d)][j].remote = {i}
            /\ connections[Other(d)][j].state \in {"TRYOPEN", "OPEN"}
            /\ connections[Other(d)][j].client = connections[d][i].remote_client
            /\ connections[Other(d)][j].remote_client = connections[d][i].client
    BY <2>1, <2>2, <1>7 DEF ConnectionInv, ConnectionsAgree
  <2>4. j \in DOMAIN connections'[Other(d)] /\ connections'[Other(d)][j] = connections[Other(d)][j]
    BY <1>4, <2>3, <1>7, OtherChain, SMTT(60)
  <2>. QED
    BY <2>2, <2>3, <2>4
<1>. QED
  BY <1>4, <1>5, <1>6, <1>7 DEF ConnectionInv

\* An end opens with a counterparty that names it, and no other end does.
LEMMA ConnectionsOpened ==
    ASSUME NEW c \in Chain, NEW i \in DOMAIN connections[c], NEW j \in Nat, NEW end,
           ConnectionInv, UNCHANGED connection_counter,
           connections[c][i].state \in {"INIT", "TRYOPEN"},
           connections[c][i].state = "TRYOPEN" => connections[c][i].remote = {j},
           end = [connections[c][i] EXCEPT !.state = "OPEN", !.remote = {j}],
           NEW state \in {"TRYOPEN", "OPEN"},
           <<j, ConnectionEnd(state, connections[c][i].remote_client, connections[c][i].client, {i})>>
               \in shown_connections[Other(c)],
           StoresEnd(c, i, end)
    PROVE  /\ ConnectionInv'
           /\ \A d \in Chain : \A k \in DOMAIN connections[d] :
                  /\ k \in DOMAIN connections'[d]
                  /\ connections[d][k].state = "OPEN" => connections'[d][k] = connections[d][k]
<1>. DEFINE old == connections[c][i]
<1>. DEFINE proof == ConnectionEnd(state, old.remote_client, old.client, {i})
<1>1. /\ connections'[c] = Put(connections[c], i, end)
      /\ \A d \in Chain : d # c => connections'[d] = connections[d]
      /\ connections' = [d \in Chain |-> connections'[d]]
  BY DEF ConnectionInv, ConnectionTypes, StoresEnd
<1>2. i \in Nat /\ i < connection_counter[c] /\ old \in Ends
  BY DEF ConnectionInv, ConnectionTypes, IsMap
<1>3. /\ DOMAIN connections'[c] = DOMAIN connections[c]
      /\ connections'[c][i] = end
      /\ \A k \in DOMAIN connections[c] : k # i => connections'[c][k] = connections[c][k]
  BY <1>1 DEF Put
<1>4. /\ end \in Ends /\ end.state = "OPEN" /\ end.remote = {j}
      /\ end.client = old.client /\ end.remote_client = old.remote_client
  BY <1>2 DEF Ends, State
<1>5. \A d \in Chain : \A k \in DOMAIN connections[d] :
          /\ k \in DOMAIN connections'[d]
          /\ ~(d = c /\ k = i) => connections'[d][k] = connections[d][k]
  BY <1>1, <1>3
<1>6. ConnectionTypes'
  <2>1. IsMap(connections'[c], connection_counter'[c], Ends)
    BY <1>2, <1>3, <1>4 DEF ConnectionInv, ConnectionTypes, IsMap
  <2>2. \A d \in Chain : IsMap(connections'[d], connection_counter'[d], Ends)
    BY <1>1, <2>1 DEF ConnectionInv, ConnectionTypes
  <2>3. shown_connections' = [d \in Chain |-> shown_connections'[d]]
    BY DEF StoresEnd, Answer
  <2>. QED
    BY <1>1, <2>2, <2>3 DEF ConnectionInv, ConnectionTypes
<1>7. Became(old, end)
  BY <1>2, <1>4 DEF Became
<1>8. ASSUME NEW d \in Chain
      PROVE  ConnectionHistory(d)'
  <2>1. SUFFICES ASSUME NEW k, NEW was, <<k, was>> \in shown_connections'[d]
                 PROVE  k \in DOMAIN connections'[d] /\ Became(was, connections'[d][k])
    BY DEF ConnectionHistory
  <2>2. CASE <<k, was>> \in shown_connections[d]
    <3>1. k \in DOMAIN connections[d] /\ Became(was, connections[d][k])
      BY <2>2, <1>8 DEF ConnectionInv, ConnectionHistory
    <3>2. CASE d = c /\ k = i
      <4>1. Became(was, old)
        BY <3>1, <3>2
      <4>2. was.state # "OPEN"
        BY <4>1 DEF Became
      <4>3. Became(was, end)
        BY <4>1, <4>2, <1>7 DEF Became
      <4>. QED
        BY <3>1, <3>2, <1>3, <4>3
    <3>. QED
      BY <3>1, <3>2, <1>5, <1>8
  <2>3. CASE <<k, was>> \in query_all_connections(connections'[d])
    <3>1. k \in DOMAIN connections'[d] /\ was = connections'[d][k]
      BY <2>3, Listed
    <3>2. was \in Ends
      BY <3>1, <1>6, <1>8 DEF ConnectionTypes, IsMap
    <3>. QED
      BY <3>1, <3>2 DEF Became, Ends, State
  <2>. QED
    BY <2>1, <2>2, <2>3, <1>8 DEF StoresEnd, Answer
<1>9. /\ j \in DOMAIN connections[Other(c)]
      /\ connections[Other(c)][j].remote = {i}
      /\ connections[Other(c)][j].state \in {"TRYOPEN", "OPEN"}
      /\ connections[Other(c)][j].client = old.remote_client
      /\ connections[Other(c)][j].remote_client = old.client
  <2>1. j \in DOMAIN connections[Other(c)] /\ Became(proof, connections[Other(c)][j])
    BY OtherChain DEF ConnectionInv, ConnectionHistory
  <2>. QED
    BY <2>1, SMTT(60) DEF Became, ConnectionEnd
<1>10. ASSUME NEW d \in Chain
       PROVE  ConnectionsAgree(d)'
  <2>1. SUFFICES ASSUME NEW k \in DOMAIN connections'[d], connections'[d][k].state = "OPEN"
                 PROVE  \E l \in DOMAIN connections'[Other(d)] :
                            /\ connections'[d][k].remote = {l}
                            /\ connections'[Other(d)][l].remote = {k}
                            /\ connections'[Other(d)][l].state \in {"TRYOPEN", "OPEN"}
                            /\ connections'[Other(d)][l].client = connections'[d][k].remote_client
                            /\ connections'[Other(d)][l].remote_client = connections'[d][k].client
    BY DEF ConnectionsAgree
  <2>2. CASE d = c /\ k = i
    <3>1. j \in DOMAIN connections'[Other(c)] /\ connections'[Other(c)][j] = connections[Other(c)][j]
      BY <1>9, <1>5, OtherChain, SMTT(60)
    <3>. QED
      BY <2>2, <3>1, <1>9, <1>3, <1>4, SMTT(60)
  <2>3. CASE ~(d = c /\ k = i)
    <3>1. k \in DOMAIN connections[d] /\ connections'[d][k] = connections[d][k]
      BY <2>1, <2>3, <1>1, <1>3, <1>5
    <3>2. PICK l \in DOMAIN connections[Other(d)] :
              /\ connections[d][k].remote = {l}
              /\ connections[Other(d)][l].remote = {k}
              /\ connections[Other(d)][l].state \in {"TRYOPEN", "OPEN"}
              /\ connections[Other(d)][l].client = connections[d][k].remote_client
              /\ connections[Other(d)][l].remote_client = connections[d][k].client
      <4>1. connections[d][k].state = "OPEN" /\ ConnectionsAgree(d)
        BY <2>1, <3>1, <1>10 DEF ConnectionInv
      <4>. QED
        BY <3>1, <4>1 DEF ConnectionsAgree
    <3>3. CASE Other(d) = c /\ l = i
      <4>1. old.state = "TRYOPEN" /\ old.remote = {j} /\ old.remote = {k}
        BY <3>2, <3>3
      <4>2. connections'[Other(d)][l] = end /\ l \in DOMAIN connections'[Other(d)]
        BY <3>3, <1>3
      <4>3. end.remote = {k} /\ end.state \in {"TRYOPEN", "OPEN"}
        BY <4>1, <1>4
      <4>4. end.client = connections[d][k].remote_client /\ end.remote_client = connections[d][k].client
        BY <3>2, <3>3, <1>4
      <4>. QED
        BY <3>1, <3>2, <4>2, <4>3, <4>4
    <3>4. CASE ~(Other(d) = c /\ l = i)
      <4>1. l \in DOMAIN connections'[Other(d)] /\ connections'[Other(d)][l] = connections[Other(d)][l]
        BY <3>2, <3>4, <1>5, <1>10, OtherChain
      <4>. QED
        BY <3>1, <3>2, <4>1
    <3>. QED
      BY <3>3, <3>4
  <2>. QED
    BY <2>2, <2>3
<1>. QED
  BY <1>5, <1>6, <1>8, <1>10 DEF ConnectionInv

-----------------------------------------------------------------------------
\* An open connection stays as it is.
OpenStays ==
    \A d \in Chain : \A k \in DOMAIN connections[d] : connections[d][k].state = "OPEN" =>
        k \in DOMAIN connections'[d] /\ connections'[d][k] = connections[d][k]

\* A step that touches no channel keeps what holds of them.
LEMMA ChannelsSame ==
    ASSUME ChannelInv, Answer, OpenStays, UNCHANGED <<channel_ends, channel_counter>>
    PROVE  ChannelInv'
<1>1. ChannelTypes'
  BY DEF ChannelInv, ChannelTypes, Answer
<1>2. ASSUME NEW d \in Chain
      PROVE  ChannelHistory(d)'
  <2>1. SUFFICES ASSUME NEW k, NEW was, <<k, was>> \in shown_channels'[d]
                 PROVE  k \in DOMAIN channel_ends[d] /\ ChannelBecame(was, channel_ends[d][k])
    BY DEF ChannelHistory
  <2>2. CASE <<k, was>> \in shown_channels[d]
    BY <2>2, <1>2 DEF ChannelInv, ChannelHistory
  <2>3. CASE <<k, was>> \in query_all_channels(channel_ends[d])
    <3>1. k \in DOMAIN channel_ends[d] /\ was = channel_ends[d][k]
      BY <2>3, Listed
    <3>2. was \in Channels
      BY <3>1, <1>2 DEF ChannelInv, ChannelTypes, IsMap
    <3>. QED
      BY <3>1, <3>2 DEF ChannelBecame, Channels, State
  <2>. QED
    BY <2>1, <2>2, <2>3, <1>2 DEF Answer
<1>3. ASSUME NEW d \in Chain
      PROVE  ChannelsAgree(d)'
  <2>1. SUFFICES ASSUME NEW k \in DOMAIN channel_ends'[d], channel_ends'[d][k].state = "OPEN"
                 PROVE  \E l \in DOMAIN channel_ends'[Other(d)] :
                            /\ channel_ends'[d][k].remote = {l}
                            /\ channel_ends'[Other(d)][l].remote = {k}
                            /\ channel_ends'[Other(d)][l].state \in {"TRYOPEN", "OPEN"}
                            /\ channel_ends'[d][k].connection \in DOMAIN connections'[d]
                            /\ connections'[d][channel_ends'[d][k].connection].state = "OPEN"
                            /\ connections'[d][channel_ends'[d][k].connection].remote =
                                   {channel_ends'[Other(d)][l].connection}
    BY DEF ChannelsAgree, IsOpen
  <2>2. PICK l \in DOMAIN channel_ends[Other(d)] :
            /\ channel_ends[d][k].remote = {l}
            /\ channel_ends[Other(d)][l].remote = {k}
            /\ channel_ends[Other(d)][l].state \in {"TRYOPEN", "OPEN"}
            /\ channel_ends[d][k].connection \in DOMAIN connections[d]
            /\ connections[d][channel_ends[d][k].connection].state = "OPEN"
            /\ connections[d][channel_ends[d][k].connection].remote =
                   {channel_ends[Other(d)][l].connection}
    BY <2>1, <1>3, SMTT(60) DEF ChannelInv, ChannelsAgree, IsOpen
  <2>3. /\ channel_ends[d][k].connection \in DOMAIN connections'[d]
        /\ connections'[d][channel_ends[d][k].connection] = connections[d][channel_ends[d][k].connection]
    BY <2>2, <1>3 DEF OpenStays
  <2>. QED
    BY <2>2, <2>3
<1>. QED
  BY <1>1, <1>2, <1>3 DEF ChannelInv

\* What happens to a channel end of c in a step that stores one.
StoresChannel(c, i, end) ==
    /\ channel_ends' = [channel_ends EXCEPT ![c] = Put(@, i, end)]
    /\ UNCHANGED connections
    /\ Answer

\* A new channel end has an identifier that none had, and is not open.
LEMMA ChannelsNew ==
    ASSUME NEW c \in Chain, NEW end \in Channels, end.state # "OPEN", ChannelInv,
           StoresChannel(c, channel_counter[c], end),
           channel_counter' = [channel_counter EXCEPT ![c] = @ + 1]
    PROVE  ChannelInv'
<1>. DEFINE n == channel_counter[c]
<1>1. /\ channel_ends'[c] = Put(channel_ends[c], n, end)
      /\ \A d \in Chain : d # c => channel_ends'[d] = channel_ends[d]
      /\ channel_ends' = [d \in Chain |-> channel_ends'[d]]
  BY DEF ChannelInv, ChannelTypes, StoresChannel
<1>2. n \in Nat /\ n \notin DOMAIN channel_ends[c]
  BY SMTT(60) DEF ChannelInv, ChannelTypes, IsMap
<1>3. /\ DOMAIN channel_ends'[c] = DOMAIN channel_ends[c] \cup {n}
      /\ channel_ends'[c][n] = end
      /\ \A k \in DOMAIN channel_ends[c] : channel_ends'[c][k] = channel_ends[c][k]
  <2>. HIDE DEF n
  <2>1. /\ DOMAIN Put(channel_ends[c], n, end) = DOMAIN channel_ends[c] \cup {n}
        /\ Put(channel_ends[c], n, end)[n] = end
        /\ \A k \in DOMAIN channel_ends[c] : k # n =>
               Put(channel_ends[c], n, end)[k] = channel_ends[c][k]
    BY DEF Put
  <2>. QED
    BY <1>1, <1>2, <2>1
<1>4. \A d \in Chain : \A k \in DOMAIN channel_ends[d] :
          k \in DOMAIN channel_ends'[d] /\ channel_ends'[d][k] = channel_ends[d][k]
  BY <1>1, <1>3
<1>5. ChannelTypes'
  <2>1. /\ channel_counter' \in [Chain -> Nat]
        /\ channel_counter'[c] = n + 1
        /\ \A d \in Chain : d # c => channel_counter'[d] = channel_counter[d]
    BY SMTT(60) DEF ChannelInv, ChannelTypes
  <2>2. IsMap(channel_ends'[c], channel_counter'[c], Channels)
    BY <1>2, <1>3, <2>1, SMTT(60) DEF ChannelInv, ChannelTypes, IsMap
  <2>3. \A d \in Chain : IsMap(channel_ends'[d], channel_counter'[d], Channels)
    BY <1>1, <2>1, <2>2 DEF ChannelInv, ChannelTypes
  <2>4. shown_channels' = [d \in Chain |-> shown_channels'[d]]
    BY DEF StoresChannel, Answer
  <2>. QED
    BY <1>1, <2>1, <2>3, <2>4 DEF ChannelTypes
<1>6. ASSUME NEW d \in Chain
      PROVE  ChannelHistory(d)'
  <2>1. SUFFICES ASSUME NEW k, NEW was, <<k, was>> \in shown_channels'[d]
                 PROVE  k \in DOMAIN channel_ends'[d] /\ ChannelBecame(was, channel_ends'[d][k])
    BY DEF ChannelHistory
  <2>2. CASE <<k, was>> \in shown_channels[d]
    BY <2>2, <1>4, <1>6 DEF ChannelInv, ChannelHistory
  <2>3. CASE <<k, was>> \in query_all_channels(channel_ends'[d])
    <3>1. k \in DOMAIN channel_ends'[d] /\ was = channel_ends'[d][k]
      BY <2>3, Listed
    <3>2. was \in Channels
      BY <3>1, <1>5, <1>6 DEF ChannelTypes, IsMap
    <3>. QED
      BY <3>1, <3>2 DEF ChannelBecame, Channels, State
  <2>. QED
    BY <2>1, <2>2, <2>3, <1>6 DEF StoresChannel, Answer
<1>7. ASSUME NEW d \in Chain
      PROVE  ChannelsAgree(d)'
  <2>1. SUFFICES ASSUME NEW k \in DOMAIN channel_ends'[d], channel_ends'[d][k].state = "OPEN"
                 PROVE  \E l \in DOMAIN channel_ends'[Other(d)] :
                            /\ channel_ends'[d][k].remote = {l}
                            /\ channel_ends'[Other(d)][l].remote = {k}
                            /\ channel_ends'[Other(d)][l].state \in {"TRYOPEN", "OPEN"}
                            /\ channel_ends'[d][k].connection \in DOMAIN connections'[d]
                            /\ connections'[d][channel_ends'[d][k].connection].state = "OPEN"
                            /\ connections'[d][channel_ends'[d][k].connection].remote =
                                   {channel_ends'[Other(d)][l].connection}
    BY DEF ChannelsAgree, IsOpen
  <2>2. k \in DOMAIN channel_ends[d] /\ channel_ends'[d][k] = channel_ends[d][k]
    BY <2>1, <1>1, <1>3, <1>4
  <2>3. PICK l \in DOMAIN channel_ends[Other(d)] :
            /\ channel_ends[d][k].remote = {l}
            /\ channel_ends[Other(d)][l].remote = {k}
            /\ channel_ends[Other(d)][l].state \in {"TRYOPEN", "OPEN"}
            /\ channel_ends[d][k].connection \in DOMAIN connections[d]
            /\ connections[d][channel_ends[d][k].connection].state = "OPEN"
            /\ connections[d][channel_ends[d][k].connection].remote =
                   {channel_ends[Other(d)][l].connection}
    <3>1. channel_ends[d][k].state = "OPEN" /\ ChannelsAgree(d)
      BY <2>1, <2>2, <1>7 DEF ChannelInv
    <3>. QED
      BY <2>2, <3>1 DEF ChannelsAgree, IsOpen
  <2>4. l \in DOMAIN channel_ends'[Other(d)] /\ channel_ends'[Other(d)][l] = channel_ends[Other(d)][l]
    BY <1>4, <2>3, <1>7, OtherChain
  <2>5. connections' = connections
    BY DEF StoresChannel
  <2>. QED
    BY <2>2, <2>3, <2>4, <2>5
<1>. QED
  BY <1>5, <1>6, <1>7 DEF ChannelInv

\* A channel opens with a counterparty that names it, over the two ends of an
\* open connection.
LEMMA ChannelsOpened ==
    ASSUME NEW c \in Chain, NEW i \in DOMAIN channel_ends[c], NEW j \in Nat, NEW end,
           ConnectionInv, ChannelInv, UNCHANGED channel_counter,
           channel_ends[c][i].state \in {"INIT", "TRYOPEN"},
           channel_ends[c][i].state = "TRYOPEN" => channel_ends[c][i].remote = {j},
           end = [channel_ends[c][i] EXCEPT !.state = "OPEN", !.remote = {j}],
           IsOpen(c, channel_ends[c][i].connection),
           NEW r \in connections[c][channel_ends[c][i].connection].remote,
           NEW state \in {"TRYOPEN", "OPEN"},
           <<j, Channel(state, r, {i})>> \in shown_channels[Other(c)],
           StoresChannel(c, i, end)
    PROVE  ChannelInv'
<1>. DEFINE old == channel_ends[c][i]
<1>1. /\ channel_ends'[c] = Put(channel_ends[c], i, end)
      /\ \A d \in Chain : d # c => channel_ends'[d] = channel_ends[d]
      /\ channel_ends' = [d \in Chain |-> channel_ends'[d]]
  BY DEF ChannelInv, ChannelTypes, StoresChannel
<1>2. i \in Nat /\ i < channel_counter[c] /\ old \in Channels
  BY DEF ChannelInv, ChannelTypes, IsMap
<1>3. /\ DOMAIN channel_ends'[c] = DOMAIN channel_ends[c]
      /\ channel_ends'[c][i] = end
      /\ \A k \in DOMAIN channel_ends[c] : k # i => channel_ends'[c][k] = channel_ends[c][k]
  BY <1>1 DEF Put
<1>4. /\ end \in Channels /\ end.state = "OPEN" /\ end.remote = {j}
      /\ end.connection = old.connection
  BY <1>2 DEF Channels, State
<1>5. \A d \in Chain : \A k \in DOMAIN channel_ends[d] :
          /\ k \in DOMAIN channel_ends'[d]
          /\ ~(d = c /\ k = i) => channel_ends'[d][k] = channel_ends[d][k]
  BY <1>1, <1>3
<1>6. ChannelTypes'
  <2>1. IsMap(channel_ends'[c], channel_counter'[c], Channels)
    BY <1>2, <1>3, <1>4 DEF ChannelInv, ChannelTypes, IsMap
  <2>2. \A d \in Chain : IsMap(channel_ends'[d], channel_counter'[d], Channels)
    BY <1>1, <2>1 DEF ChannelInv, ChannelTypes
  <2>3. shown_channels' = [d \in Chain |-> shown_channels'[d]]
    BY DEF StoresChannel, Answer
  <2>. QED
    BY <1>1, <2>2, <2>3 DEF ChannelInv, ChannelTypes
<1>7. ChannelBecame(old, end)
  BY <1>2, <1>4 DEF ChannelBecame
<1>8. ASSUME NEW d \in Chain
      PROVE  ChannelHistory(d)'
  <2>1. SUFFICES ASSUME NEW k, NEW was, <<k, was>> \in shown_channels'[d]
                 PROVE  k \in DOMAIN channel_ends'[d] /\ ChannelBecame(was, channel_ends'[d][k])
    BY DEF ChannelHistory
  <2>2. CASE <<k, was>> \in shown_channels[d]
    <3>1. k \in DOMAIN channel_ends[d] /\ ChannelBecame(was, channel_ends[d][k])
      BY <2>2, <1>8 DEF ChannelInv, ChannelHistory
    <3>2. CASE d = c /\ k = i
      <4>1. ChannelBecame(was, old)
        BY <3>1, <3>2
      <4>2. was.state # "OPEN"
        BY <4>1 DEF ChannelBecame
      <4>3. ChannelBecame(was, end)
        BY <4>1, <4>2, <1>7 DEF ChannelBecame
      <4>. QED
        BY <3>1, <3>2, <1>3, <4>3
    <3>. QED
      BY <3>1, <3>2, <1>5, <1>8
  <2>3. CASE <<k, was>> \in query_all_channels(channel_ends'[d])
    <3>1. k \in DOMAIN channel_ends'[d] /\ was = channel_ends'[d][k]
      BY <2>3, Listed
    <3>2. was \in Channels
      BY <3>1, <1>6, <1>8 DEF ChannelTypes, IsMap
    <3>. QED
      BY <3>1, <3>2 DEF ChannelBecame, Channels, State
  <2>. QED
    BY <2>1, <2>2, <2>3, <1>8 DEF StoresChannel, Answer
<1>9. /\ j \in DOMAIN channel_ends[Other(c)]
      /\ channel_ends[Other(c)][j].remote = {i}
      /\ channel_ends[Other(c)][j].state \in {"TRYOPEN", "OPEN"}
      /\ channel_ends[Other(c)][j].connection = r
  <2>1. /\ j \in DOMAIN channel_ends[Other(c)]
        /\ ChannelBecame(Channel(state, r, {i}), channel_ends[Other(c)][j])
    BY OtherChain DEF ChannelInv, ChannelHistory
  <2>. QED
    BY <2>1, SMTT(60) DEF ChannelBecame, Channel
<1>10. connections[c][old.connection].remote = {r}
  <2>1. ConnectionsAgree(c) /\ old.connection \in DOMAIN connections[c]
        /\ connections[c][old.connection].state = "OPEN"
    BY DEF ConnectionInv, IsOpen
  <2>2. PICK x \in DOMAIN connections[Other(c)] : connections[c][old.connection].remote = {x}
    BY <2>1 DEF ConnectionsAgree
  <2>. QED
    BY <2>2
<1>11. connections' = connections
  BY DEF StoresChannel
<1>12. ASSUME NEW d \in Chain
       PROVE  ChannelsAgree(d)'
  <2>1. SUFFICES ASSUME NEW k \in DOMAIN channel_ends'[d], channel_ends'[d][k].state = "OPEN"
                 PROVE  \E l \in DOMAIN channel_ends'[Other(d)] :
                            /\ channel_ends'[d][k].remote = {l}
                            /\ channel_ends'[Other(d)][l].remote = {k}
                            /\ channel_ends'[Other(d)][l].state \in {"TRYOPEN", "OPEN"}
                            /\ channel_ends'[d][k].connection \in DOMAIN connections'[d]
                            /\ connections'[d][channel_ends'[d][k].connection].state = "OPEN"
                            /\ connections'[d][channel_ends'[d][k].connection].remote =
                                   {channel_ends'[Other(d)][l].connection}
    BY DEF ChannelsAgree, IsOpen
  <2>2. CASE d = c /\ k = i
    <3>1. j \in DOMAIN channel_ends'[Other(c)] /\ channel_ends'[Other(c)][j] = channel_ends[Other(c)][j]
      BY <1>9, <1>5, OtherChain, SMTT(60)
    <3>2. channel_ends'[d][k] = end
      BY <2>2, <1>3
    <3>3. old.connection \in DOMAIN connections[c] /\ connections[c][old.connection].state = "OPEN"
      BY DEF IsOpen
    <3>4. channel_ends'[d][k].remote = {j} /\ channel_ends'[d][k].connection = old.connection
      BY <3>2, <1>4
    <3>5. /\ channel_ends'[Other(d)][j].remote = {k} /\ j \in DOMAIN channel_ends'[Other(d)]
          /\ channel_ends'[Other(d)][j].state \in {"TRYOPEN", "OPEN"}
          /\ channel_ends'[Other(d)][j].connection = r
      BY <2>2, <3>1, <1>9
    <3>6. /\ old.connection \in DOMAIN connections'[d]
          /\ connections'[d][old.connection].state = "OPEN"
          /\ connections'[d][old.connection].remote = {r}
      BY <2>2, <3>3, <1>10, <1>11
    <3>. HIDE DEF old
    <3>. QED
      BY <3>4, <3>5, <3>6
  <2>3. CASE ~(d = c /\ k = i)
    <3>1. k \in DOMAIN channel_ends[d] /\ channel_ends'[d][k] = channel_ends[d][k]
      BY <2>1, <2>3, <1>1, <1>3, <1>5
    <3>2. PICK l \in DOMAIN channel_ends[Other(d)] :
              /\ channel_ends[d][k].remote = {l}
              /\ channel_ends[Other(d)][l].remote = {k}
              /\ channel_ends[Other(d)][l].state \in {"TRYOPEN", "OPEN"}
              /\ channel_ends[d][k].connection \in DOMAIN connections[d]
              /\ connections[d][channel_ends[d][k].connection].state = "OPEN"
              /\ connections[d][channel_ends[d][k].connection].remote =
                     {channel_ends[Other(d)][l].connection}
      <4>1. channel_ends[d][k].state = "OPEN" /\ ChannelsAgree(d)
        BY <2>1, <3>1, <1>12 DEF ChannelInv
      <4>. QED
        BY <3>1, <4>1 DEF ChannelsAgree, IsOpen
    <3>3. CASE Other(d) = c /\ l = i
      <4>1. old.state = "TRYOPEN" /\ old.remote = {j} /\ old.remote = {k}
        BY <3>2, <3>3
      <4>2. channel_ends'[Other(d)][l] = end /\ l \in DOMAIN channel_ends'[Other(d)]
        BY <3>3, <1>3
      <4>3. end.remote = {k} /\ end.state \in {"TRYOPEN", "OPEN"}
        BY <4>1, <1>4
      <4>4. end.connection = channel_ends[Other(d)][l].connection
        BY <3>3, <1>4
      <4>5. /\ channel_ends'[d][k].remote = {l}
            /\ channel_ends'[d][k].connection \in DOMAIN connections'[d]
            /\ connections'[d][channel_ends'[d][k].connection].state = "OPEN"
            /\ connections'[d][channel_ends'[d][k].connection].remote = {end.connection}
        BY <3>1, <3>2, <4>4, <1>11
      <4>. HIDE DEF old
      <4>. QED
        BY <4>2, <4>3, <4>5
    <3>4. CASE ~(Other(d) = c /\ l = i)
      <4>1. l \in DOMAIN channel_ends'[Other(d)] /\ channel_ends'[Other(d)][l] = channel_ends[Other(d)][l]
        BY <3>2, <3>4, <1>5, <1>12, OtherChain
      <4>. QED
        BY <3>1, <3>2, <4>1, <1>11
    <3>. QED
      BY <3>3, <3>4
  <2>. QED
    BY <2>2, <2>3
<1>. QED
  BY <1>6, <1>8, <1>12 DEF ChannelInv

-----------------------------------------------------------------------------
\* Without any connections or channels the invariant holds, ...
LEMMA HandshakesStart ==
    ASSUME HandshakeInit
    PROVE  HandshakeInv
<1>1. ConnectionTypes /\ ChannelTypes
  BY DEF HandshakeInit, ConnectionTypes, ChannelTypes, IsMap
<1>2. ASSUME NEW c \in Chain
      PROVE  ConnectionHistory(c) /\ ChannelHistory(c)
  BY <1>2 DEF HandshakeInit, ConnectionHistory, ChannelHistory
<1>3. ASSUME NEW c \in Chain
      PROVE  ConnectionsAgree(c) /\ ChannelsAgree(c)
  BY <1>3 DEF HandshakeInit, ConnectionsAgree, ChannelsAgree
<1>. QED
  BY <1>1, <1>2, <1>3 DEF HandshakeInv, ConnectionInv, ChannelInv

\* ... and every message keeps it.
LEMMA HandshakeStep ==
    ASSUME HandshakeInv, [HandshakeNext]_handshake_vars
    PROVE  HandshakeInv'
<1>. USE DEF HandshakeInv
<1>1. ASSUME UNCHANGED handshake_vars
      PROVE  HandshakeInv'
  <2>1. ConnectionInv'
    <3>1. \A c \in Chain : ConnectionHistory(c)' /\ ConnectionsAgree(c)'
      BY <1>1 DEF handshake_vars, hosts, ConnectionInv, ConnectionHistory, ConnectionsAgree
    <3>. QED
      BY <1>1, <3>1 DEF handshake_vars, hosts, ConnectionInv, ConnectionTypes
  <2>2. ChannelInv'
    <3>1. \A c \in Chain : ChannelHistory(c)'
      BY <1>1 DEF handshake_vars, hosts, ChannelInv, ChannelHistory
    <3>2. ASSUME NEW c \in Chain
          PROVE  ChannelsAgree(c)'
      <4>1. channel_ends' = channel_ends /\ connections' = connections
        BY <1>1 DEF handshake_vars, hosts
      <4>2. ChannelsAgree(c)
        BY DEF ChannelInv
      <4>. QED
        BY <4>1, <4>2 DEF ChannelsAgree, IsOpen
    <3>. QED
      BY <1>1, <3>1, <3>2 DEF handshake_vars, hosts, ChannelInv, ChannelTypes
  <2>. QED
    BY <2>1, <2>2
<1>2. ASSUME NEW c \in Chain, create_client(c)
      PROVE  HandshakeInv'
  BY <1>2, ConnectionsSame, ChannelsSame DEF create_client, OpenStays
<1>3. ASSUME NEW c \in Chain, NEW end \in Ends, end.state # "OPEN", NewConnection(c, end)
      PROVE  HandshakeInv'
  <2>1. StoresEnd(c, connection_counter[c], end)
    BY <1>3 DEF NewConnection, store_connection, StoresEnd
  <2>2. connection_counter' = [connection_counter EXCEPT ![c] = @ + 1]
    BY <1>3 DEF NewConnection, increase_connection_counter
  <2>3. ConnectionInv' /\ OpenStays
    BY <1>3, <2>1, <2>2, ConnectionsNew DEF OpenStays, IsOpen
  <2>. QED
    BY <1>3, <2>3, ChannelsSame DEF NewConnection
<1>4. ASSUME NEW c \in Chain, NEW i, NEW j \in Nat,
             conn_open_ack(c, i, j) \/ conn_open_confirm(c, i, j)
      PROVE  HandshakeInv'
  <2>. DEFINE old == connections[c][i]
              end == [old EXCEPT !.state = "OPEN", !.remote = {j}]
  <2>1. PICK state \in {"TRYOPEN", "OPEN"} :
            /\ i \in DOMAIN connections[c]
            /\ old.state \in {"INIT", "TRYOPEN"}
            /\ old.state = "TRYOPEN" => old.remote = {j}
            /\ <<j, ConnectionEnd(state, old.remote_client, old.client, {i})>>
                   \in shown_connections[Other(c)]
            /\ store_connection(c, i, end)
            /\ UNCHANGED <<connection_counter, channel_counter, channel_ends>>
            /\ Answer
    BY <1>4 DEF conn_open_ack, conn_open_confirm, OpenConnection
  <2>2. StoresEnd(c, i, end)
    BY <2>1 DEF store_connection, StoresEnd
  <2>3. ConnectionInv' /\ OpenStays
    BY <1>4, <2>1, <2>2, ConnectionsOpened DEF OpenStays, IsOpen
  <2>. QED
    BY <2>1, <2>3, ChannelsSame
<1>5. ASSUME NEW c \in Chain, NEW end \in Channels, end.state # "OPEN", NewChannel(c, end)
      PROVE  HandshakeInv'
  <2>1. StoresChannel(c, channel_counter[c], end)
    BY <1>5 DEF NewChannel, store_channel, StoresChannel
  <2>2. channel_counter' = [channel_counter EXCEPT ![c] = @ + 1]
    BY <1>5 DEF NewChannel, increase_channel_counter
  <2>. QED
    BY <1>5, <2>1, <2>2, ConnectionsSame, ChannelsNew DEF NewChannel
<1>6. ASSUME NEW c \in Chain, NEW i, NEW j \in Nat,
             chan_open_ack(c, i, j) \/ chan_open_confirm(c, i, j)
      PROVE  HandshakeInv'
  <2>. DEFINE old == channel_ends[c][i]
              end == [old EXCEPT !.state = "OPEN", !.remote = {j}]
  <2>1. PICK state \in {"TRYOPEN", "OPEN"} :
            /\ i \in DOMAIN channel_ends[c]
            /\ old.state \in {"INIT", "TRYOPEN"}
            /\ old.state = "TRYOPEN" => old.remote = {j}
            /\ IsOpen(c, old.connection)
            /\ \E r \in connections[c][old.connection].remote :
                   <<j, Channel(state, r, {i})>> \in shown_channels[Other(c)]
            /\ store_channel(c, i, end)
            /\ UNCHANGED <<connection_counter, channel_counter, connections>>
            /\ Answer
    BY <1>6 DEF chan_open_ack, chan_open_confirm, OpenChannel
  <2>2. StoresChannel(c, i, end)
    BY <2>1 DEF store_channel, StoresChannel
  <2>3. PICK r \in connections[c][old.connection].remote :
            <<j, Channel(state, r, {i})>> \in shown_channels[Other(c)]
    BY <2>1
  <2>4. ChannelInv'
    BY <1>6, <2>1, <2>2, <2>3, ChannelsOpened
  <2>. QED
    BY <2>1, <2>4, ConnectionsSame
<1>7. ASSUME NEW c \in Chain, NEW k \in Nat, NEW r \in Nat, conn_open_init(c, k, r)
      PROVE  HandshakeInv'
  BY <1>3, <1>7 DEF conn_open_init, ConnectionEnd, Ends, State
<1>8. ASSUME NEW c \in Chain, NEW k \in Nat, NEW r \in Nat, NEW j \in Nat, conn_open_try(c, k, r, j)
      PROVE  HandshakeInv'
  BY <1>3, <1>8 DEF conn_open_try, ConnectionEnd, Ends, State
<1>9. ASSUME NEW c \in Chain, NEW i \in Nat, chan_open_init(c, i)
      PROVE  HandshakeInv'
  BY <1>5, <1>9 DEF chan_open_init, Channel, Channels, State
<1>10. ASSUME NEW c \in Chain, NEW i \in Nat, NEW j \in Nat, chan_open_try(c, i, j)
       PROVE  HandshakeInv'
  BY <1>5, <1>10 DEF chan_open_try, Channel, Channels, State
<1>11. /\ 0..(MaxClients - 1) \subseteq Nat
       /\ 0..(MaxConnections - 1) \subseteq Nat
       /\ 0..(MaxChannels - 1) \subseteq Nat
  BY HandshakeAssumption, SMTT(60)
<1>. QED
  BY <1>1, <1>2, <1>4, <1>6, <1>7, <1>8, <1>9, <1>10, <1>11 DEF HandshakeNext

\* An OPEN connection or channel end has exactly the counterparty that names
\* it (the handlers over store_connection, store_channel and their counters),
\* for every interleaving of relayers with proofs of any age.
THEOREM HandshakesAreSound == HandshakeSpec => []HandshakesAgree
<1>1. HandshakeInv => HandshakesAgree
  BY DEF HandshakeInv, ConnectionInv, ChannelInv, HandshakesAgree
<1>. QED
  BY <1>1, HandshakesStart, HandshakeStep, PTL DEF HandshakeSpec
==============================================================================
