--------------------------------- MODULE Ibc ----------------------------------
(***************************************************************************)
(* A chain's IBC host: IbcContext, the transfer module and the queries the *)
(* relayers use, with the message handlers of ibc-rs that call them; and   *)
(* two chains that run it, their users and any number of relayers, which   *)
(* see what the query services answer at any queryable height and may be   *)
(* late, race each other and repeat themselves.                            *)
(*                                                                         *)
(* The counterparty is known by the headers its client took in.  A message *)
(* proves its claim about the counterparty's state at a height; proof is   *)
(* the state the proof was made from, the one before the height of the     *)
(* header that holds its hash.  Block times are heights, both chains are   *)
(* in their first epoch, and their connection and (unordered) channel are  *)
(* open.  A handler maps a record r = [x, err] to the next one.            *)
(***************************************************************************)
EXTENDS Integers, Sequences, FiniteSets, Functions

CONSTANTS MAX_HOST_CONSENSUS_STATES, trusting_period, Fund,
          Radix    \* numbers are written to base 10 in the code

IbcAssumption ==
    /\ MAX_HOST_CONSENSUS_STATES \in Nat \ {0}
    /\ trusting_period \in Nat /\ Fund \in Nat
    /\ Radix \in Nat \ {0, 1}

-----------------------------------------------------------------------------
(* Heights and sequence numbers are the ends of keys, as text. *)

\* EpochHeight: a height as a key, "0-8".
EpochHeight(h) == <<0, h>>

Text[n \in Nat] == IF n < Radix THEN <<n>> ELSE Append(Text[n \div Radix], n % Radix)

\* The text of m begins that of n, as "1" begins "10".
Begins(m, n) == m = n \/ \E i \in DOMAIN Text[n] : Text[m] = SubSeq(Text[n], 1, i)

\* The order of keys: "1", "10", "11", "2", ...
Before(m, n) ==
    \/ m # n /\ Begins(m, n)
    \/ \E i \in DOMAIN Text[m] \cap DOMAIN Text[n] :
           Text[m][i] < Text[n][i] /\ \A j \in 1..(i - 1) : Text[m][j] = Text[n][j]

\* Map::iter over entries with these numbers: from an entry it goes on behind
\* all the keys that begin with its own.
Yielded(ns) == {n \in ns : \A m \in ns : Begins(m, n) => m = n}

\* Map::remove, at the flush: with an entry go all whose keys begin with its own.
Erased(ns, m) == IF m \in ns THEN {n \in ns : Begins(m, n)} ELSE {}

-----------------------------------------------------------------------------
NewHost(h, client) ==
    [height |-> h, host_consensus_states |-> <<h>>, client |-> client,
     next_sequence_send |-> 1, commitments |-> {}, receipts |-> {}, acks |-> <<>>,
     user |-> Fund, escrow |-> 0, voucher |-> 0,
     sent |-> <<>>, acknowledged |-> {}, refunded |-> {}]

\* A client created from the header of height h.
NewClient(h) ==
    [latest |-> h, frozen |-> FALSE,
     consensus_states |-> {EpochHeight(h)}, updates |-> {EpochHeight(h)}]

Err(r) == [r EXCEPT !.err = TRUE]

-----------------------------------------------------------------------------
(* The host's own consensus states. *)

\* The deque of them holds at most MAX_HOST_CONSENSUS_STATES, the newest.
begin_block(x, h) ==
    LET states == Append(x.host_consensus_states, h)
        kept == IF Len(states) > MAX_HOST_CONSENSUS_STATES THEN Tail(states) ELSE states
    IN  [x EXCEPT !.height = h, !.host_consensus_states = kept]

\* By its distance from the last one; 0 when the index is out of range.
host_consensus_state(x, h) ==
    LET i == Len(x.host_consensus_states) - (x.height - h)
    IN  IF i \in DOMAIN x.host_consensus_states THEN x.host_consensus_states[i] ELSE 0

host_timestamp(x) == host_consensus_state(x, x.height)

-----------------------------------------------------------------------------
(* The client of the counterparty. *)

\* The height of the consensus state found, if any, in the order of the keys.
next_consensus_state(client, h) ==
    LET after == {k[2] : k \in {k \in client.consensus_states : Before(h, k[2])}}
    IN  {g \in after : \A l \in after : l = g \/ Before(g, l)}
prev_consensus_state(client, h) ==
    LET prior == {k[2] : k \in {k \in client.consensus_states :
                                     Before(k[2], h) /\ (k[2] = 1 \/ Before(1, k[2]))}}
    IN  {g \in prior : \A l \in prior : l = g \/ Before(l, g)}

Heights(keys) == {k[2] : k \in keys}
consensus_state_heights(client) == Yielded(Heights(client.consensus_states))

\* Of each of some heights; the key is built without the epoch.
delete_consensus_state(client, hs) ==
    [client EXCEPT !.consensus_states = @ \ {<<h>> : h \in hs}]
\* A variant that clears the map.
delete_update_meta_Clears(client, hs) ==
    [client EXCEPT !.updates = IF hs = {} THEN @ ELSE {}]
delete_update_meta(client, hs) ==
    LET erased == UNION {Erased(Heights(client.updates), h) : h \in hs}
    IN  [client EXCEPT !.updates = {k \in @ : k[2] \notin erased}]
store_consensus_state(client, h) ==
    [client EXCEPT !.consensus_states = @ \union {EpochHeight(h)}]
store_update_meta(client, h) == [client EXCEPT !.updates = @ \union {EpochHeight(h)}]

expired(x, h) == host_timestamp(x) - h > trusting_period

\* query_client_status; the client's latest consensus state must not be too old.
Active(x) == ~x.client.frozen /\ ~expired(x, x.client.latest)

\* ibc-rs: whether a valid header shows that the counterparty misbehaved.
misbehaviour(client, h) ==
    /\ EpochHeight(h) \notin client.consensus_states
    /\ \/ \E prev \in prev_consensus_state(client, h) : h <= prev
       \/ h < client.latest /\ \E next \in next_consensus_state(client, h) : h >= next

\* ibc-rs: the consensus states that are too old are removed on an update.
prune_oldest_consensus_state(x) ==
    LET old == {h \in consensus_state_heights(x.client) : expired(x, h)}
    IN  delete_update_meta(delete_consensus_state(x.client, old), old)

\* ibc-rs: UpdateClient with the header of height h, verified from an earlier
\* consensus state the host still trusts.
update_client(r, h) ==
    LET x == r.x
        trusted == \E k \in x.client.consensus_states : k[2] < h /\ ~expired(x, k[2])
        pruned == prune_oldest_consensus_state(x)
        new == [store_update_meta(store_consensus_state(pruned, h), h)
                    EXCEPT !.latest = IF h > @ THEN h ELSE @]
    IN  IF ~Active(x) \/ host_timestamp(x) = 0 \/ ~trusted THEN Err(r)
        ELSE [r EXCEPT !.x.client =
                  IF misbehaviour(x.client, h) THEN [x.client EXCEPT !.frozen = TRUE]
                  ELSE IF EpochHeight(h) \in x.client.consensus_states THEN pruned ELSE new]

\* ibc-rs: whether a proof at a height can be verified at all.
Verifiable(x, h) ==
    /\ Active(x) /\ host_timestamp(x) # 0
    /\ EpochHeight(h) \in x.client.consensus_states
    /\ EpochHeight(h) \in x.client.updates

-----------------------------------------------------------------------------
(* ICS-20: a coin is the chain's own ("native") or a voucher of one of the  *)
(* counterparty's.                                                          *)

ToEscrow(x, n) == [x EXCEPT !.user = @ - n, !.escrow = @ + n]
escrow_coins(r, n) == IF r.x.user < n THEN Err(r) ELSE [r EXCEPT !.x = ToEscrow(@, n)]
unescrow_coins(r, n) == IF r.x.escrow < n THEN Err(r) ELSE [r EXCEPT !.x = ToEscrow(@, -n)]
\* A variant that leaves the coins.
burn_coins_Keeps(r, n) == IF r.x.voucher < n THEN Err(r) ELSE r
burn_coins(r, n) ==
    IF r.x.voucher < n THEN Err(r) ELSE [r EXCEPT !.x.voucher = @ - n]
mint_coins(r, n) == [r EXCEPT !.x.voucher = @ + n]

\* The coin is native to the sender: the receiver mints a voucher of it.
on_recv_packet_execute(r, p) ==
    LET given == IF p.receiver = "invalid" THEN Err(r)
                 ELSE IF p.denom = "native" THEN mint_coins(r, p.amount)
                 ELSE unescrow_coins(r, p.amount)
    IN  IF given.err THEN [r |-> r, ack |-> "error"] ELSE [r |-> given, ack |-> "success"]

\* An error acknowledgement is not refunded.
on_acknowledgement_packet_execute(r, p) == r
on_timeout_packet_execute(r, p) ==
    IF p.denom = "native" THEN unescrow_coins(r, p.amount) ELSE mint_coins(r, p.amount)

-----------------------------------------------------------------------------
(* ICS-4: packets. *)

query_unreceived_packets(x, packets) == {p \in packets : p.sequence \notin x.receipts}
query_packet_acks(x, packets) ==
    {a \in Range(x.acks) : \E p \in packets : p.sequence = a.sequence}
query_unreceived_acks(x, packets) == {p \in packets : p \in x.commitments}

\* A variant that forgets the receipt.
store_packet_receipt_Forgets(r, p) == r
store_packet_receipt(r, p) == [r EXCEPT !.x.receipts = @ \union {p.sequence}]
store_packet_acknowledgement(r, p, ack) ==
    [r EXCEPT !.x.acks = Append(@, [sequence |-> p.sequence, ack |-> ack])]
\* sent is history.
Counted(x, p) == [x EXCEPT !.next_sequence_send = @ + 1, !.sent = Append(@, p)]
store_next_sequence_send(r, p) == [r EXCEPT !.x = Counted(@, p)]
store_packet_commitment(r, p) == [r EXCEPT !.x.commitments = @ \union {p}]
Sequences(packets) == {p.sequence : p \in packets}
delete_packet_commitment(r, p) ==
    LET erased == Erased(Sequences(r.x.commitments), p.sequence)
    IN  [r EXCEPT !.x.commitments = {q \in @ : q.sequence \notin erased}]

\* raw_transfer, signed by the sender: send_transfer of ibc-rs.
raw_transfer(x, denom, amount, receiver, timeout) ==
    LET r == [x |-> x, err |-> FALSE]
        p == [sequence |-> x.next_sequence_send, denom |-> denom, amount |-> amount,
              receiver |-> receiver, timeout |-> timeout]
        taken == IF denom = "native" THEN escrow_coins(r, amount) ELSE burn_coins(r, amount)
    IN  IF ~Active(x) \/ x.client.latest > timeout THEN Err(r)
        ELSE IF taken.err THEN taken
        ELSE store_packet_commitment(store_next_sequence_send(taken, p), p)

\* A receipt makes a second delivery a success without effect.
recv_packet(r, p, h, proof) ==
    IF r.x.height > p.timeout \/ ~Verifiable(r.x, h) \/ p \notin proof.commitments THEN Err(r)
    ELSE IF p.sequence \in r.x.receipts THEN r
    ELSE LET done == on_recv_packet_execute(store_packet_receipt(r, p), p)
         IN  store_packet_acknowledgement(done.r, p, done.ack)

\* acknowledged and refunded are history.
acknowledge(r, p) == [r EXCEPT !.x.acknowledged = @ \union {p.sequence}]
refund(r, p) == [r EXCEPT !.x.refunded = @ \union {p.sequence}]

\* Without its commitment the packet is taken for acknowledged or timed out.
acknowledge_packet(r, p, h, proof) ==
    IF p \notin r.x.commitments THEN r
    ELSE IF ~Verifiable(r.x, h) \/ ~\E a \in Range(proof.acks) : a.sequence = p.sequence THEN Err(r)
    ELSE acknowledge(delete_packet_commitment(on_acknowledgement_packet_execute(r, p), p), p)

\* The receiver's height the absence of a receipt was proved at is past the
\* timeout.
timeout_packet(r, p, h, proof) ==
    IF p \notin r.x.commitments THEN r
    ELSE IF ~Verifiable(r.x, h) \/ h <= p.timeout \/ p.sequence \in proof.receipts THEN Err(r)
    ELSE refund(delete_packet_commitment(on_timeout_packet_execute(r, p), p), p)

deliver_message(r, m) ==
    CASE m.type = "update" -> update_client(r, m.height)
      [] m.type = "recv" -> recv_packet(r, m.packet, m.height, m.proof)
      [] m.type = "ack" -> acknowledge_packet(r, m.packet, m.height, m.proof)
      [] m.type = "timeout" -> timeout_packet(r, m.packet, m.height, m.proof)

\* A relayer's batch, here of one or two messages, up to the first that fails;
\* what was done before that stays.
deliver(x, messages) ==
    LET first == deliver_message([x |-> x, err |-> FALSE], messages[1])
    IN  IF first.err \/ Len(messages) = 1 THEN first ELSE deliver_message(first, messages[2])

-----------------------------------------------------------------------------
(* Two chains and their relayers. *)

CONSTANTS Side, Start, MaxHeight, Timeouts, MaxSends

ChainsAssumption ==
    /\ IbcAssumption
    /\ \E a, b \in Side : a # b /\ Side = {a, b}
    /\ Start \in Nat \ {0} /\ Timeouts \subseteq Nat

VARIABLES chain, \* chain[c]: the state of c's block in progress
          past   \* past[c][h]: the committed state of c at height h

ibc_vars == <<chain, past>>

Peer(c) == CHOOSE d \in Side : d # c

\* What a proof can be about.
Committed(x) == [commitments |-> x.commitments, receipts |-> x.receipts, acks |-> x.acks]

IbcInit ==
    /\ chain = [c \in Side |-> NewHost(Start, NewClient(Start - 1))]
    /\ past = [c \in Side |-> [h \in {Start - 1} |-> Committed(chain[c])]]

\* The block is committed and the next one begins.
NextBlock(c) ==
    /\ chain[c].height < MaxHeight
    /\ past' = [past EXCEPT ![c] = [h \in DOMAIN @ \union {chain[c].height} |->
                                  IF h \in DOMAIN @ THEN @[h] ELSE Committed(chain[c])]]
    /\ chain' = [chain EXCEPT ![c] = begin_block(@, @.height + 1)]

Transfer(c) ==
    /\ Len(chain[c].sent) + Len(chain[Peer(c)].sent) < MaxSends
    /\ \E denom \in {"native", "voucher"}, receiver \in {"user", "invalid"}, timeout \in Timeouts :
           LET r == raw_transfer(chain[c], denom, 1, receiver, timeout)
           IN  ~r.err /\ chain' = [chain EXCEPT ![c] = r.x]
    /\ UNCHANGED past

\* The headers of c, up to that of its last commit.
Headers(c) == DOMAIN past[c]

\* A relayer's transaction on c; a failing one keeps what it did before.
Deliver(c, messages) ==
    /\ chain' = [chain EXCEPT ![c] = deliver(@, messages).x]
    /\ UNCHANGED past

Update(h) == [type |-> "update", height |-> h]
Message(c, type, p, h) == [type |-> type, packet |-> p, height |-> h, proof |-> past[c][h - 1]]
Provable(c) == {h \in Headers(c) : h - 1 \in Headers(c)}

\* A relayer leaves the update out when it finds the consensus state there.
Batch(c, type, p, h) ==
    IF EpochHeight(h) \in chain[c].client.consensus_states
    THEN <<Message(Peer(c), type, p, h)>>
    ELSE <<Update(h), Message(Peer(c), type, p, h)>>

UpdateClient(c) == \E h \in Headers(Peer(c)) : Deliver(c, <<Update(h)>>)

\* The channel service of c, answering from the state of the height h.
packet_acknowledgements(c, h, packets) == query_packet_acks(past[c][h], packets)
unreceived_packets(c, h, packets) == query_unreceived_packets(past[c][h], packets)
unreceived_acks(c, h, packets) == query_unreceived_acks(past[c][h], packets)

\* What is committed on the other chain and not received on this one, each
\* as of a height the relayer asked about.  It hears of a packet when it is
\* sent, and asks for the proof of its commitment by its path.
RelayPackets(c) ==
    \E h \in Provable(Peer(c)) :
        LET packets == past[Peer(c)][h - 1].commitments
        IN  \E p \in UNION {unreceived_packets(c, g, packets) : g \in Headers(c)} :
                Deliver(c, Batch(c, "recv", p, h))

RelayAcks(c) ==
    \E h \in Provable(Peer(c)) :
        \E p \in UNION {unreceived_acks(c, g, Range(chain[c].sent)) : g \in Headers(c)} :
            /\ packet_acknowledgements(Peer(c), h - 1, {p}) # {}
            /\ Deliver(c, Batch(c, "ack", p, h))

RelayTimeouts(c) ==
    \E h \in Provable(Peer(c)) :
        \E p \in UNION {past[c][g].commitments : g \in Headers(c)} :
            /\ unreceived_packets(Peer(c), h - 1, {p}) # {}
            /\ Deliver(c, Batch(c, "timeout", p, h))

IbcNext ==
    \E c \in Side :
        \/ NextBlock(c) \/ Transfer(c)
        \/ UpdateClient(c) \/ RelayPackets(c) \/ RelayAcks(c) \/ RelayTimeouts(c)

IbcSpec == IbcInit /\ [][IbcNext]_ibc_vars

-----------------------------------------------------------------------------
Succeeded(x, p) == [sequence |-> p.sequence, ack |-> "success"] \in Range(x.acks)

\* The packets with a coin of denom that x sent to y and that neither arrived
\* nor came back: those on their way, and those whose error acknowledgement is
\* not refunded.
Missing(x, y, denom) ==
    {i \in DOMAIN x.sent : /\ x.sent[i].denom = denom
                           /\ ~Succeeded(y, x.sent[i]) /\ x.sent[i].sequence \notin x.refunded}

Backed(x, y) ==
    /\ x.escrow = y.voucher + Cardinality(Missing(x, y, "native")) + Cardinality(Missing(y, x, "voucher"))
    /\ x.user + x.escrow = Fund

\* What a chain holds in escrow backs, one for one, the vouchers of it on the
\* other chain and the packets that have not ended, or ended in an error
\* acknowledgement, which is not refunded; however packets, acknowledgements
\* and timeouts are relayed, repeated and reordered.
EscrowBacksVouchers == \A c \in Side : Backed(chain[c], chain[Peer(c)])

\* A packet is received at most once and never both received and refunded: the
\* height a timeout is proved at is past any the packet is received at.
ReceivedOrRefunded ==
    \A c \in Side :
        /\ \A s \in chain[c].refunded : s \notin chain[Peer(c)].receipts
        /\ Len(chain[c].acks) = Cardinality(chain[c].receipts)

\* The packets that ended in an acknowledgement or a refund.
Ended(x) == x.acknowledged \union x.refunded

LastHeader(c) == CHOOSE h \in Headers(c) : \A g \in Headers(c) : g <= h
Accepts(c, type, p) ==
    ~deliver(chain[c], Batch(c, type, p, LastHeader(Peer(c)))).err

\* The newest header of the other chain is new to the client of c, or is still
\* there with its metadata.
Usable(c) ==
    LET k == EpochHeight(LastHeader(Peer(c)))
    IN  k \in chain[c].client.consensus_states => k \in chain[c].client.updates

\* A packet without its commitment has ended, or one has whose number begins
\* its own; with its commitment it can be brought to its end: received up to
\* its timeout, then acknowledged or timed out, by a relayer who brings the
\* newest header along, as long as both clients are active and the header is
\* usable.  It is not only where a height that has expired begins its own.
NoPacketIsStuck ==
    \A c \in Side : LET d == Peer(c) IN
        /\ \A p \in Range(chain[c].sent) \ chain[c].commitments :
              \E n \in Ended(chain[c]) : Begins(n, p.sequence)
        /\ \/ Usable(c)
           \/ \E k \in chain[c].client.consensus_states :
                  expired(chain[c], k[2]) /\ Begins(k[2], LastHeader(d))
        /\ /\ Provable(c) # {} /\ Provable(d) # {} /\ Active(chain[c]) /\ Active(chain[d])
           /\ Usable(c) /\ Usable(d)
           => \A p \in past[c][LastHeader(c) - 1].commitments \cap chain[c].commitments :
                IF p.sequence \in past[d][LastHeader(d) - 1].receipts THEN Accepts(c, "ack", p)
                ELSE /\ chain[d].height <= p.timeout => Accepts(d, "recv", p)
                     /\ LastHeader(d) > p.timeout => Accepts(c, "timeout", p)

\* A packet whose commitment is gone was acknowledged or refunded: removing one
\* "Removes the value at the given key" and no other.
OnlyEndedAreForgotten ==
    \A c \in Side : \A p \in Range(chain[c].sent) \ chain[c].commitments :
        p.sequence \in Ended(chain[c])

\* next_consensus_state and prev_consensus_state find the nearest stored
\* consensus states above and below the height of a header.
NeighboursFollowHeights ==
    \A c \in Side : \A h \in Headers(Peer(c)) :
        LET heights == Heights(chain[c].client.consensus_states)
        IN  /\ \A next \in next_consensus_state(chain[c].client, h) :
                  next > h /\ \A g \in heights : g > h => next <= g
            /\ \A prev \in prev_consensus_state(chain[c].client, h) :
                  prev < h /\ \A g \in heights : g < h => prev >= g
===============================================================================
