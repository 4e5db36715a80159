-------------------------------- MODULE IbcSteps -------------------------------
(* What the messages of IBC do to the chain they are delivered to, and that a  *)
(* link between two chains stays sound when one of them sends, acknowledges or *)
(* times out a packet.                                                         *)
EXTENDS Ibc, TLAPS

USE ZenonT(60)

Packet == [sequence : Nat, denom : {"native", "voucher"}, amount : {1},
           receiver : {"user", "invalid"}, timeout : Nat]
Ack == [sequence : Nat, ack : {"success", "error"}]
HeightKeys == {0} \X Nat
Client == [latest : Nat, frozen : BOOLEAN,
           consensus_states : SUBSET HeightKeys, updates : SUBSET HeightKeys]
Host == [height : Nat, host_consensus_states : Seq(Nat), client : Client,
         next_sequence_send : Nat, commitments : SUBSET Packet, receipts : SUBSET Nat,
         acks : Seq(Ack), user : Nat, escrow : Nat, voucher : Nat,
         sent : Seq(Packet), acknowledged : SUBSET Nat, refunded : SUBSET Nat]
Proof == [commitments : SUBSET Packet, receipts : SUBSET Nat, acks : Seq(Ack)]
Run == [x : Host, err : BOOLEAN]

-----------------------------------------------------------------------------
(* What the handlers do to a host, apart from its client. *)

SameHeight(x, y) ==
    /\ y.height = x.height /\ y.host_consensus_states = x.host_consensus_states
    /\ y.next_sequence_send = x.next_sequence_send /\ y.sent = x.sent
SameBlock(x, y) == SameHeight(x, y) /\ y.client = x.client
SameCoins(x, y) == y.user = x.user /\ y.escrow = x.escrow /\ y.voucher = x.voucher
SameReceipts(x, y) == y.receipts = x.receipts /\ y.acks = x.acks
SameEnds(x, y) == y.acknowledged = x.acknowledged /\ y.refunded = x.refunded
SameSends(x, y) == y.commitments = x.commitments /\ SameEnds(x, y)

Still(x, y) == SameHeight(x, y) /\ SameCoins(x, y) /\ SameReceipts(x, y) /\ SameSends(x, y)

Minted(x, y) == y.user = x.user /\ y.escrow = x.escrow /\ y.voucher = x.voucher + 1
Unescrowed(x, y) ==
    x.escrow > 0 /\ y.user = x.user + 1 /\ y.escrow = x.escrow - 1 /\ y.voucher = x.voucher

AckOf(p, ack) == [sequence |-> p.sequence, ack |-> ack]

Receives(x, y, p) ==
    /\ p.sequence \notin x.receipts /\ x.height <= p.timeout
    /\ SameBlock(x, y) /\ SameSends(x, y)
    /\ y.receipts = x.receipts \union {p.sequence}
    /\ \/ y.acks = Append(x.acks, AckOf(p, "error")) /\ SameCoins(x, y)
       \/ /\ y.acks = Append(x.acks, AckOf(p, "success"))
          /\ p.denom = "native" => Minted(x, y)
          /\ p.denom = "voucher" => Unescrowed(x, y)

\* The commitments that are left when that of p is deleted.
Left(x, p) == {q \in x.commitments : ~Begins(p.sequence, q.sequence)}

Ends(x, y, p) ==
    /\ p \in x.commitments /\ y.commitments = Left(x, p)
    /\ Ended(y) = Ended(x) \union {p.sequence}
    /\ SameBlock(x, y) /\ SameReceipts(x, y)

Acknowledges(x, y, p) == Ends(x, y, p) /\ y.refunded = x.refunded /\ SameCoins(x, y)

TimesOut(x, y, p) ==
    /\ Ends(x, y, p) /\ y.refunded = x.refunded \union {p.sequence}
    /\ p.denom = "native" => Unescrowed(x, y) \/ (x.escrow = 0 /\ SameCoins(x, y))
    /\ p.denom = "voucher" => Minted(x, y)

Sends(x, y, p) ==
    /\ p.sequence = x.next_sequence_send
    /\ y.height = x.height /\ y.next_sequence_send = x.next_sequence_send + 1
    /\ y.client = x.client /\ y.host_consensus_states = x.host_consensus_states
    /\ y.sent = Append(x.sent, p) /\ y.commitments = x.commitments \union {p}
    /\ SameEnds(x, y) /\ SameReceipts(x, y)
    /\ p.denom = "native" => /\ x.user > 0 /\ y.user = x.user - 1
                             /\ y.escrow = x.escrow + 1 /\ y.voucher = x.voucher
    /\ p.denom = "voucher" => /\ x.voucher > 0 /\ y.voucher = x.voucher - 1
                              /\ y.user = x.user /\ y.escrow = x.escrow

\* A failing handler changes nothing.
LEMMA Fails == ASSUME NEW r \in Run PROVE Err(r) \in Run /\ Err(r).x = r.x
<1>1. Err(r) \in Run
  BY DEF Err, Run
<1>2. Err(r).x = r.x
  BY DEF Err, Run
<1>. QED
  BY <1>1, <1>2

\* Balances are numbers.
LEMMA Coins == ASSUME NEW x \in Host PROVE {x.user, x.escrow, x.voucher} \subseteq Nat
  BY DEF Host

\* Nothing happens in a step that changes nothing.
LEMMA StillStays == ASSUME NEW x PROVE Still(x, x)
  BY DEF Still, SameBlock, SameHeight, SameCoins, SameReceipts, SameSends, SameEnds

\* A handler that changes a field of the host changes no other.
LEMMA RunWith ==
    ASSUME NEW r \in Run, NEW x \in Host
    PROVE  [r EXCEPT !.x = x] \in Run /\ [r EXCEPT !.x = x].x = x
<1>1. [r EXCEPT !.x = x] \in Run
  BY DEF Run
<1>2. [r EXCEPT !.x = x].x = x
  BY DEF Run
<1>. QED
  BY <1>1, <1>2

\* A handler of client messages changes only the client.
LEMMA ClientsOnly ==
    ASSUME NEW r \in Run, NEW k \in Client
    PROVE  [r EXCEPT !.x.client = k] \in Run /\ Still(r.x, [r EXCEPT !.x.client = k].x)
<1>1. r.x \in Host
  BY DEF Run
<1>2. PICK y : y = [r.x EXCEPT !.client = k]
  OBVIOUS
<1>3. y \in Host
  BY <1>1, <1>2 DEF Host
<1>4. Still(r.x, y)
  BY <1>1, <1>2 DEF Host, Still, SameBlock, SameHeight, SameCoins, SameReceipts, SameSends, SameEnds
<1>5. [r EXCEPT !.x.client = k] = [r EXCEPT !.x = y]
  BY <1>2
<1>. QED
  BY <1>3, <1>4, <1>5, RunWith

\* Deleting consensus states and their update metadata leaves a client.
LEMMA PrunedClient ==
    ASSUME NEW k \in Client, NEW hs
    PROVE  delete_update_meta(delete_consensus_state(k, hs), hs) \in Client
<1>1. PICK k2 : k2 = delete_consensus_state(k, hs)
  OBVIOUS
<1>2. k.consensus_states \ {<<h>> : h \in hs} \in SUBSET HeightKeys
  BY DEF Client
<1>3. k2 \in Client
  BY <1>1, <1>2 DEF delete_consensus_state, Client
<1>4. PICK erased : erased = UNION {Erased(Heights(k2.updates), h) : h \in hs}
  OBVIOUS
<1>5. {u \in k2.updates : u[2] \notin erased} \in SUBSET HeightKeys
  BY <1>3 DEF Client
<1>6. delete_update_meta(k2, hs) \in Client
  BY <1>3, <1>4, <1>5 DEF delete_update_meta, Client
<1>. QED
  BY <1>1, <1>6

\* Storing a consensus state leaves a client.
LEMMA StoredClient ==
    ASSUME NEW k \in Client, NEW h \in Nat
    PROVE  [store_update_meta(store_consensus_state(k, h), h)
                EXCEPT !.latest = IF h > @ THEN h ELSE @] \in Client
<1>1. EpochHeight(h) \in HeightKeys
  BY DEF EpochHeight, HeightKeys
<1>2. PICK k2 : k2 = store_consensus_state(k, h)
  OBVIOUS
<1>3. k2 \in Client
  <2>1. k.consensus_states \union {EpochHeight(h)} \in SUBSET HeightKeys
    BY <1>1 DEF Client
  <2>. QED
    BY <2>1, <1>2 DEF store_consensus_state, Client
<1>4. PICK k3 : k3 = store_update_meta(k2, h)
  OBVIOUS
<1>5. k3 \in Client
  <2>1. k2.updates \union {EpochHeight(h)} \in SUBSET HeightKeys
    BY <1>1, <1>3 DEF Client
  <2>. QED
    BY <2>1, <1>3, <1>4 DEF store_update_meta, Client
<1>6. (IF h > k3.latest THEN h ELSE k3.latest) \in Nat
  BY <1>5 DEF Client
<1>7. [k3 EXCEPT !.latest = IF h > @ THEN h ELSE @] \in Client
  BY <1>5, <1>6 DEF Client
<1>. QED
  BY <1>2, <1>4, <1>7

\* update_client changes the client only.
LEMMA UpdateIsStill ==
    ASSUME NEW r \in Run, NEW h \in Nat
    PROVE  update_client(r, h) \in Run /\ Still(r.x, update_client(r, h).x)
<1>. DEFINE old == {g \in consensus_state_heights(r.x.client) : expired(r.x, g)}
            pruned == prune_oldest_consensus_state(r.x)
            new == [store_update_meta(store_consensus_state(pruned, h), h)
                        EXCEPT !.latest = IF h > @ THEN h ELSE @]
            frozen == [r.x.client EXCEPT !.frozen = TRUE]
<1>1. r.x \in Host /\ r.x.client \in Client
  BY DEF Run, Host
<1>2. pruned \in Client
  <2>1. pruned = delete_update_meta(delete_consensus_state(r.x.client, old), old)
    BY DEF prune_oldest_consensus_state
  <2>. QED
    BY <2>1, <1>1, PrunedClient
<1>3. frozen \in Client
  BY <1>1 DEF Client
<1>4. new \in Client
  <2>. HIDE DEF pruned
  <2>. QED
    BY <1>2, StoredClient
<1>5. \A k \in Client : [r EXCEPT !.x.client = k] \in Run /\ Still(r.x, [r EXCEPT !.x.client = k].x)
  BY ClientsOnly
<1>6. \/ update_client(r, h) = Err(r)
      \/ update_client(r, h) = [r EXCEPT !.x.client = frozen]
      \/ update_client(r, h) = [r EXCEPT !.x.client = pruned]
      \/ update_client(r, h) = [r EXCEPT !.x.client = new]
  BY DEF update_client
<1>. HIDE DEF pruned, new, frozen
<1>. QED
  BY <1>2, <1>3, <1>4, <1>5, <1>6, Fails, StillStays

-----------------------------------------------------------------------------
(* Coins and packets. *)

\* A field of the host in a record of a run.
LEMMA Deeper ==
    ASSUME NEW r \in Run, NEW y \in Host, NEW q, q = [r EXCEPT !.x = y]
    PROVE  q \in Run /\ q.x = y /\ q.err = r.err
<1>1. q \in Run /\ q.x = y
  BY RunWith
<1>2. q.err = r.err
  BY DEF Run
<1>. QED
  BY <1>1, <1>2

\* mint_coins adds a voucher, ...
LEMMA Mints ==
    ASSUME NEW r \in Run
    PROVE  LET q == mint_coins(r, 1)
           IN  /\ q \in Run /\ q.err = r.err /\ Minted(r.x, q.x) /\ SameBlock(r.x, q.x)
               /\ SameReceipts(r.x, q.x) /\ SameSends(r.x, q.x)
<1>1. r.x \in Host /\ r.x.voucher + 1 \in Nat
  BY SMTT(60) DEF Run, Host
<1>2. PICK y : y = [r.x EXCEPT !.voucher = @ + 1]
  OBVIOUS
<1>3. y \in Host
  BY <1>1, <1>2 DEF Host
<1>4. Minted(r.x, y) /\ SameBlock(r.x, y) /\ SameReceipts(r.x, y) /\ SameSends(r.x, y)
  BY <1>1, <1>2 DEF Host, Minted, SameBlock, SameHeight, SameReceipts, SameSends, SameEnds
<1>5. PICK q : q = mint_coins(r, 1)
  OBVIOUS
<1>6. q = [r EXCEPT !.x = y]
  BY <1>2, <1>5 DEF mint_coins
<1>7. q \in Run /\ q.x = y /\ q.err = r.err
  BY <1>3, <1>6, Deeper, SMTT(60)
<1>. QED
  BY <1>4, <1>5, <1>7

\* ... burn_coins takes one or fails, ...
LEMMA Burns ==
    ASSUME NEW r \in Run
    PROVE  LET q == burn_coins(r, 1)
           IN  \/ q = Err(r)
               \/ /\ q \in Run /\ q.err = r.err /\ r.x.voucher > 0
                  /\ q.x.voucher = r.x.voucher - 1 /\ q.x.user = r.x.user /\ q.x.escrow = r.x.escrow
                  /\ SameBlock(r.x, q.x) /\ SameReceipts(r.x, q.x) /\ SameSends(r.x, q.x)
<1>0. r.x \in Host
  BY DEF Run
<1>1. CASE r.x.voucher < 1
  BY <1>1 DEF burn_coins
<1>2. CASE ~(r.x.voucher < 1)
  <2>1. r.x.voucher > 0 /\ r.x.voucher - 1 \in Nat
    BY <1>0, <1>2, Coins, SMTT(60)
  <2>2. PICK y : y = [r.x EXCEPT !.voucher = @ - 1]
    OBVIOUS
  <2>3. y \in Host
    BY <1>0, <2>1, <2>2 DEF Host
  <2>4. /\ y.voucher = r.x.voucher - 1 /\ y.user = r.x.user /\ y.escrow = r.x.escrow
        /\ SameBlock(r.x, y) /\ SameReceipts(r.x, y) /\ SameSends(r.x, y)
    BY <1>0, <2>2 DEF Host, SameBlock, SameHeight, SameReceipts, SameSends, SameEnds
  <2>5. PICK q : q = burn_coins(r, 1)
    OBVIOUS
  <2>6. q = [r EXCEPT !.x = y]
    BY <1>2, <2>2, <2>5 DEF burn_coins
  <2>7. q \in Run /\ q.x = y /\ q.err = r.err
    BY <2>3, <2>6, Deeper, SMTT(60)
  <2>. QED
    BY <2>1, <2>4, <2>5, <2>7
<1>. QED
  BY <1>1, <1>2

\* ... escrow_coins moves a coin of the user to the escrow or fails, ...
LEMMA Escrows ==
    ASSUME NEW r \in Run
    PROVE  LET q == escrow_coins(r, 1)
           IN  \/ q = Err(r)
               \/ /\ q \in Run /\ q.err = r.err /\ r.x.user > 0
                  /\ q.x.user = r.x.user - 1 /\ q.x.escrow = r.x.escrow + 1 /\ q.x.voucher = r.x.voucher
                  /\ SameBlock(r.x, q.x) /\ SameReceipts(r.x, q.x) /\ SameSends(r.x, q.x)
<1>0. r.x \in Host
  BY DEF Run
<1>1. CASE r.x.user < 1
  BY <1>1 DEF escrow_coins
<1>2. CASE ~(r.x.user < 1)
  <2>1. r.x.user > 0 /\ r.x.user - 1 \in Nat /\ r.x.escrow + 1 \in Nat
    BY <1>0, <1>2, Coins, SMTT(60)
  <2>2. PICK y : y = ToEscrow(r.x, 1)
    OBVIOUS
  <2>3. y \in Host
    BY <1>0, <2>1, <2>2 DEF Host, ToEscrow
  <2>4. /\ y.user = r.x.user - 1 /\ y.escrow = r.x.escrow + 1 /\ y.voucher = r.x.voucher
        /\ SameBlock(r.x, y) /\ SameReceipts(r.x, y) /\ SameSends(r.x, y)
    BY <1>0, <2>2 DEF Host, ToEscrow, SameBlock, SameHeight, SameReceipts, SameSends, SameEnds
  <2>5. PICK q : q = escrow_coins(r, 1)
    OBVIOUS
  <2>6. q = [r EXCEPT !.x = y]
    BY <1>2, <2>2, <2>5 DEF escrow_coins
  <2>7. q \in Run /\ q.x = y /\ q.err = r.err
    BY <2>3, <2>6, Deeper, SMTT(60)
  <2>. QED
    BY <2>1, <2>4, <2>5, <2>7
<1>. QED
  BY <1>1, <1>2

\* ... unescrow_coins moves it back and fails only without one, and none of
\* them touches anything but coins.
LEMMA Unescrows ==
    ASSUME NEW r \in Run
    PROVE  LET q == unescrow_coins(r, 1)
           IN  \/ q = Err(r) /\ r.x.escrow = 0
               \/ /\ q \in Run /\ q.err = r.err /\ Unescrowed(r.x, q.x)
                  /\ SameBlock(r.x, q.x) /\ SameReceipts(r.x, q.x) /\ SameSends(r.x, q.x)
<1>0. r.x \in Host
  BY DEF Run
<1>1. CASE r.x.escrow < 1
  <2>1. r.x.escrow = 0
    BY <1>0, <1>1, Coins, SMTT(60)
  <2>. QED
    BY <1>1, <2>1 DEF unescrow_coins
<1>2. CASE ~(r.x.escrow < 1)
  <2>1. r.x.escrow > 0 /\ r.x.escrow + (-1) \in Nat /\ r.x.user - (-1) \in Nat
    BY <1>0, <1>2, Coins, SMTT(60)
  <2>2. PICK y : y = ToEscrow(r.x, -1)
    OBVIOUS
  <2>3. y \in Host
    BY <1>0, <2>1, <2>2 DEF Host, ToEscrow
  <2>4. Unescrowed(r.x, y) /\ SameBlock(r.x, y) /\ SameReceipts(r.x, y) /\ SameSends(r.x, y)
    BY <1>0, <2>1, <2>2, SMTT(60) DEF Host, ToEscrow, Unescrowed, SameBlock, SameHeight,
       SameReceipts, SameSends, SameEnds
  <2>5. PICK q : q = unescrow_coins(r, 1)
    OBVIOUS
  <2>6. q = [r EXCEPT !.x = y]
    BY <1>2, <2>2, <2>5 DEF unescrow_coins
  <2>7. q \in Run /\ q.x = y /\ q.err = r.err
    BY <2>3, <2>6, Deeper, SMTT(60)
  <2>. QED
    BY <2>4, <2>5, <2>7
<1>. QED
  BY <1>1, <1>2

\* store_packet_commitment adds a commitment, ...
LEMMA StoresCommitment ==
    ASSUME NEW r \in Run, NEW p \in Packet
    PROVE  LET q == store_packet_commitment(r, p)
           IN  /\ q \in Run /\ q.err = r.err /\ q.x.commitments = r.x.commitments \union {p}
               /\ SameBlock(r.x, q.x) /\ SameCoins(r.x, q.x)
               /\ SameReceipts(r.x, q.x) /\ SameEnds(r.x, q.x)
<1>1. r.x \in Host
  BY DEF Run
<1>2. PICK v : v = r.x.commitments \union {p}
  OBVIOUS
<1>3. v \in SUBSET Packet
  BY <1>1, <1>2 DEF Host
<1>4. PICK y : y = [r.x EXCEPT !.commitments = v]
  OBVIOUS
<1>5. y \in Host
  BY <1>1, <1>3, <1>4 DEF Host
<1>6. /\ y.commitments = v /\ SameBlock(r.x, y) /\ SameCoins(r.x, y)
      /\ SameReceipts(r.x, y) /\ SameEnds(r.x, y)
  BY <1>1, <1>4 DEF Host, SameBlock, SameHeight, SameCoins, SameReceipts, SameSends, SameEnds
<1>7. PICK q : q = store_packet_commitment(r, p)
  OBVIOUS
<1>8. q = [r EXCEPT !.x = y]
  BY <1>2, <1>4, <1>7 DEF store_packet_commitment
<1>9. q \in Run /\ q.x = y /\ q.err = r.err
  BY <1>5, <1>8, Deeper, SMTT(60)
<1>. QED
  BY <1>2, <1>6, <1>7, <1>9

\* ... delete_packet_commitment removes it, and those whose numbers it begins, ...
LEMMA DeletesCommitment ==
    ASSUME NEW r \in Run, NEW p \in Packet, p \in r.x.commitments
    PROVE  LET q == delete_packet_commitment(r, p)
           IN  /\ q \in Run /\ q.err = r.err /\ q.x.commitments = Left(r.x, p)
               /\ SameBlock(r.x, q.x) /\ SameCoins(r.x, q.x)
               /\ SameReceipts(r.x, q.x) /\ SameEnds(r.x, q.x)
<1>1. r.x \in Host
  BY DEF Run
<1>2. PICK v : v = Left(r.x, p)
  OBVIOUS
<1>3. v \in SUBSET Packet
  BY <1>1, <1>2 DEF Host, Left
<1>4. PICK y : y = [r.x EXCEPT !.commitments = v]
  OBVIOUS
<1>5. y \in Host
  BY <1>1, <1>3, <1>4 DEF Host
<1>6. /\ y.commitments = v /\ SameBlock(r.x, y) /\ SameCoins(r.x, y)
      /\ SameReceipts(r.x, y) /\ SameEnds(r.x, y)
  BY <1>1, <1>4 DEF Host, SameBlock, SameHeight, SameCoins, SameReceipts, SameEnds
<1>7. PICK q : q = delete_packet_commitment(r, p)
  OBVIOUS
<1>8. q = [r EXCEPT !.x = y]
  <2>1. PICK erased : erased = Erased(Sequences(r.x.commitments), p.sequence)
    OBVIOUS
  <2>2. p.sequence \in Sequences(r.x.commitments)
    BY DEF Sequences
  <2>3. erased = {n \in Sequences(r.x.commitments) : Begins(p.sequence, n)}
    BY <2>1, <2>2 DEF Erased
  <2>4. v = {m \in r.x.commitments : m.sequence \notin erased}
    BY <1>2, <2>3 DEF Left, Sequences
  <2>. QED
    BY <1>4, <1>7, <2>1, <2>4 DEF delete_packet_commitment
<1>9. q \in Run /\ q.x = y /\ q.err = r.err
  BY <1>5, <1>8, Deeper, SMTT(60)
<1>. QED
  BY <1>2, <1>6, <1>7, <1>9

\* ... a refund is recorded, ...
LEMMA Refunded ==
    ASSUME NEW r \in Run, NEW p \in Packet
    PROVE  LET q == refund(r, p)
           IN  /\ q \in Run /\ q.err = r.err /\ q.x.refunded = r.x.refunded \union {p.sequence}
               /\ SameBlock(r.x, q.x) /\ SameCoins(r.x, q.x) /\ SameReceipts(r.x, q.x)
               /\ q.x.commitments = r.x.commitments /\ q.x.acknowledged = r.x.acknowledged
<1>1. r.x \in Host
  BY DEF Run
<1>2. PICK v : v = r.x.refunded \union {p.sequence}
  OBVIOUS
<1>3. v \in SUBSET Nat
  BY <1>1, <1>2 DEF Host, Packet
<1>4. PICK y : y = [r.x EXCEPT !.refunded = v]
  OBVIOUS
<1>5. y \in Host
  BY <1>1, <1>3, <1>4 DEF Host
<1>6. /\ y.refunded = v /\ SameBlock(r.x, y) /\ SameCoins(r.x, y) /\ SameReceipts(r.x, y)
      /\ y.commitments = r.x.commitments /\ y.acknowledged = r.x.acknowledged
  BY <1>1, <1>4 DEF Host, SameBlock, SameHeight, SameCoins, SameReceipts
<1>7. PICK q : q = refund(r, p)
  OBVIOUS
<1>8. q = [r EXCEPT !.x = y]
  BY <1>2, <1>4, <1>7 DEF refund
<1>9. q \in Run /\ q.x = y /\ q.err = r.err
  BY <1>5, <1>8, Deeper, SMTT(60)
<1>. QED
  BY <1>2, <1>6, <1>7, <1>9

\* ... and an acknowledgement, ...
LEMMA Acknowledged ==
    ASSUME NEW r \in Run, NEW p \in Packet
    PROVE  LET q == acknowledge(r, p)
           IN  /\ q \in Run /\ q.err = r.err /\ q.x.acknowledged = r.x.acknowledged \union {p.sequence}
               /\ SameBlock(r.x, q.x) /\ SameCoins(r.x, q.x) /\ SameReceipts(r.x, q.x)
               /\ q.x.commitments = r.x.commitments /\ q.x.refunded = r.x.refunded
<1>1. r.x \in Host
  BY DEF Run
<1>2. PICK v : v = r.x.acknowledged \union {p.sequence}
  OBVIOUS
<1>3. v \in SUBSET Nat
  BY <1>1, <1>2 DEF Host, Packet
<1>4. PICK y : y = [r.x EXCEPT !.acknowledged = v]
  OBVIOUS
<1>5. y \in Host
  BY <1>1, <1>3, <1>4 DEF Host
<1>6. /\ y.acknowledged = v /\ SameBlock(r.x, y) /\ SameCoins(r.x, y) /\ SameReceipts(r.x, y)
      /\ y.commitments = r.x.commitments /\ y.refunded = r.x.refunded
  BY <1>1, <1>4 DEF Host, SameBlock, SameHeight, SameCoins, SameReceipts
<1>7. PICK q : q = acknowledge(r, p)
  OBVIOUS
<1>8. q = [r EXCEPT !.x = y]
  BY <1>2, <1>4, <1>7 DEF acknowledge
<1>9. q \in Run /\ q.x = y /\ q.err = r.err
  BY <1>5, <1>8, Deeper, SMTT(60)
<1>. QED
  BY <1>2, <1>6, <1>7, <1>9

\* ... store_packet_receipt adds a receipt ...
LEMMA StoresReceipt ==
    ASSUME NEW r \in Run, NEW p \in Packet
    PROVE  LET q == store_packet_receipt(r, p)
           IN  /\ q \in Run /\ q.err = r.err /\ q.x.receipts = r.x.receipts \union {p.sequence}
               /\ SameBlock(r.x, q.x) /\ SameCoins(r.x, q.x)
               /\ SameSends(r.x, q.x) /\ q.x.acks = r.x.acks
<1>1. r.x \in Host
  BY DEF Run
<1>2. PICK v : v = r.x.receipts \union {p.sequence}
  OBVIOUS
<1>3. v \in SUBSET Nat
  BY <1>1, <1>2 DEF Host, Packet
<1>4. PICK y : y = [r.x EXCEPT !.receipts = v]
  OBVIOUS
<1>5. y \in Host
  BY <1>1, <1>3, <1>4 DEF Host
<1>6. /\ y.receipts = v /\ SameBlock(r.x, y) /\ SameCoins(r.x, y)
      /\ SameSends(r.x, y) /\ y.acks = r.x.acks
  BY <1>1, <1>4 DEF Host, SameBlock, SameHeight, SameCoins, SameReceipts, SameSends, SameEnds
<1>7. PICK q : q = store_packet_receipt(r, p)
  OBVIOUS
<1>8. q = [r EXCEPT !.x = y]
  BY <1>2, <1>4, <1>7 DEF store_packet_receipt
<1>9. q \in Run /\ q.x = y /\ q.err = r.err
  BY <1>5, <1>8, Deeper, SMTT(60)
<1>. QED
  BY <1>2, <1>6, <1>7, <1>9

\* ... and store_packet_acknowledgement an acknowledgement.
LEMMA StoresAck ==
    ASSUME NEW r \in Run, NEW p \in Packet, NEW ack \in {"success", "error"}
    PROVE  LET q == store_packet_acknowledgement(r, p, ack)
           IN  /\ q \in Run /\ q.err = r.err /\ q.x.acks = Append(r.x.acks, AckOf(p, ack))
               /\ SameBlock(r.x, q.x) /\ SameCoins(r.x, q.x)
               /\ SameSends(r.x, q.x) /\ q.x.receipts = r.x.receipts
<1>1. r.x \in Host
  BY DEF Run
<1>2. PICK v : v = Append(r.x.acks, AckOf(p, ack))
  OBVIOUS
<1>3. v \in Seq(Ack)
  BY <1>1, <1>2, SMTT(60) DEF Host, Packet, AckOf, Ack
<1>4. PICK y : y = [r.x EXCEPT !.acks = v]
  OBVIOUS
<1>5. y \in Host
  BY <1>1, <1>3, <1>4 DEF Host
<1>6. /\ y.acks = v /\ SameBlock(r.x, y) /\ SameCoins(r.x, y)
      /\ SameSends(r.x, y) /\ y.receipts = r.x.receipts
  BY <1>1, <1>4 DEF Host, SameBlock, SameHeight, SameCoins, SameReceipts, SameSends, SameEnds
<1>7. PICK q : q = store_packet_acknowledgement(r, p, ack)
  OBVIOUS
<1>8. q = [r EXCEPT !.x = y]
  BY <1>2, <1>4, <1>7 DEF store_packet_acknowledgement, AckOf
<1>9. q \in Run /\ q.x = y /\ q.err = r.err
  BY <1>5, <1>8, Deeper, SMTT(60)
<1>. QED
  BY <1>2, <1>6, <1>7, <1>9

\* recv_packet does nothing, or receives a packet whose commitment was proved.
LEMMA RecvReceives ==
    ASSUME NEW r \in Run, NEW p \in Packet, NEW h \in Nat, NEW proof \in Proof,
           NEW q, q = recv_packet(r, p, h, proof)
    PROVE  /\ q \in Run
           /\ q.x = r.x \/ (p \in proof.commitments /\ Receives(r.x, q.x, p))
           /\ q.err => \/ r.err \/ r.x.height > p.timeout \/ ~Verifiable(r.x, h)
                       \/ p \notin proof.commitments
<1>. DEFINE r1 == store_packet_receipt(r, p)
            done == on_recv_packet_execute(r1, p)
<1>0. r.x \in Host /\ p.sequence \in Nat /\ p.timeout \in Nat /\ p.denom \in {"native", "voucher"} /\ p.amount = 1
  BY DEF Run, Packet
<1>1. CASE r.x.height > p.timeout \/ ~Verifiable(r.x, h) \/ p \notin proof.commitments
  <2>1. q = Err(r)
    BY <1>1 DEF recv_packet
  <2>. QED
    BY <1>1, <2>1, Fails
<1>2. CASE /\ ~(r.x.height > p.timeout \/ ~Verifiable(r.x, h) \/ p \notin proof.commitments)
           /\ p.sequence \in r.x.receipts
  <2>1. q = r
    BY <1>2 DEF recv_packet
  <2>. QED
    BY <2>1
<1>3. CASE /\ ~(r.x.height > p.timeout \/ ~Verifiable(r.x, h) \/ p \notin proof.commitments)
           /\ p.sequence \notin r.x.receipts
  <2>1. /\ ~(r.x.height > p.timeout) /\ p \in proof.commitments /\ p.sequence \notin r.x.receipts
        /\ q = store_packet_acknowledgement(done.r, p, done.ack)
    BY <1>3 DEF recv_packet
  <2>2. r.x.height <= p.timeout
    BY <1>0, <2>1, SMTT(60) DEF Host
  <2>4. /\ r1 \in Run /\ r1.x.receipts = r.x.receipts \union {p.sequence}
        /\ SameBlock(r.x, r1.x) /\ SameCoins(r.x, r1.x) /\ SameSends(r.x, r1.x)
        /\ r1.x.acks = r.x.acks /\ r1.err = r.err
    BY StoresReceipt
  <2>. HIDE DEF r1
  <2>5. PICK given : given = IF p.receiver = "invalid" THEN Err(r1)
                             ELSE IF p.denom = "native" THEN mint_coins(r1, 1)
                             ELSE unescrow_coins(r1, 1)
    OBVIOUS
  <2>6. done = IF given.err THEN [r |-> r1, ack |-> "error"] ELSE [r |-> given, ack |-> "success"]
    BY <1>0, <2>5 DEF on_recv_packet_execute
  <2>. HIDE DEF done
  <2>7. \/ done.r = r1 /\ done.ack = "error"
        \/ done.r = given /\ done.ack = "success" /\ ~given.err
    BY <2>6
  <2>8. ~given.err =>
          /\ given \in Run /\ SameBlock(r1.x, given.x) /\ SameReceipts(r1.x, given.x) /\ SameSends(r1.x, given.x)
          /\ p.denom = "native" => Minted(r1.x, given.x)
          /\ p.denom = "voucher" => Unescrowed(r1.x, given.x)
    <3>1. Err(r1).err
      BY <2>4 DEF Err, Run
    <3>. QED
      BY <1>0, <2>4, <2>5, <3>1, Mints, Unescrows
  <2>9. /\ done.r \in Run /\ (done.r.err => r.err) /\ done.ack \in {"error", "success"}
        /\ SameBlock(r.x, done.r.x) /\ SameSends(r.x, done.r.x)
        /\ done.r.x.receipts = r.x.receipts \union {p.sequence} /\ done.r.x.acks = r.x.acks
        /\ done.ack = "error" => SameCoins(r.x, done.r.x)
        /\ done.ack = "success" => /\ p.denom = "native" => Minted(r.x, done.r.x)
                                   /\ p.denom = "voucher" => Unescrowed(r.x, done.r.x)
    BY <2>4, <2>7, <2>8 DEF SameBlock, SameHeight, SameSends, SameEnds, SameReceipts, SameCoins, Minted,
       Unescrowed
  <2>13. /\ q \in Run /\ q.err = done.r.err /\ SameBlock(done.r.x, q.x) /\ SameCoins(done.r.x, q.x) /\ SameSends(done.r.x, q.x)
         /\ q.x.receipts = done.r.x.receipts /\ q.x.acks = Append(done.r.x.acks, AckOf(p, done.ack))
    <3>1. PICK r2, ack : r2 = done.r /\ ack = done.ack
      OBVIOUS
    <3>2. q = store_packet_acknowledgement(r2, p, ack) /\ r2 \in Run /\ ack \in {"success", "error"}
      BY <2>1, <2>9, <3>1
    <3>3. PICK s : s = store_packet_acknowledgement(r2, p, ack)
      OBVIOUS
    <3>4. /\ s \in Run /\ s.err = r2.err /\ SameBlock(r2.x, s.x) /\ SameCoins(r2.x, s.x)
          /\ SameSends(r2.x, s.x) /\ s.x.receipts = r2.x.receipts
      BY <3>2, <3>3, StoresAck
    <3>5. s.x.acks = Append(r2.x.acks, AckOf(p, ack))
      BY <3>2, <3>3, StoresAck
    <3>. QED
      BY <3>1, <3>2, <3>3, <3>4, <3>5
  <2>14. Receives(r.x, q.x, p)
    BY <2>1, <2>2, <2>9, <2>13 DEF Receives, SameBlock, SameHeight, SameSends, SameEnds, SameCoins,
       Minted, Unescrowed
  <2>. QED
    BY <2>1, <2>9, <2>13, <2>14
<1>. QED
  BY <1>1, <1>2, <1>3

\* acknowledge_packet does nothing, or ends a packet.
LEMMA AckAcknowledges ==
    ASSUME NEW r \in Run, NEW p \in Packet, NEW h \in Nat, NEW proof \in Proof,
           NEW q, q = acknowledge_packet(r, p, h, proof)
    PROVE  /\ q \in Run /\ (q.x = r.x \/ Acknowledges(r.x, q.x, p))
           /\ q.err => \/ r.err \/ ~Verifiable(r.x, h)
                       \/ ~\E a \in Range(proof.acks) : a.sequence = p.sequence
<1>0. r.x \in Host
  BY DEF Run
<1>1. CASE p \notin r.x.commitments
  <2>1. q = r
    BY <1>1 DEF acknowledge_packet
  <2>. QED
    BY <2>1
<1>2. CASE ~Verifiable(r.x, h) \/ ~\E a \in Range(proof.acks) : a.sequence = p.sequence
  <2>1. q \in {r, Err(r)}
    BY <1>2 DEF acknowledge_packet
  <2>. QED
    BY <1>2, <2>1, Fails
<1>3. CASE ~(\/ p \notin r.x.commitments \/ ~Verifiable(r.x, h)
             \/ ~\E a \in Range(proof.acks) : a.sequence = p.sequence)
  <2>1. PICK r1 : r1 = delete_packet_commitment(r, p)
    OBVIOUS
  <2>2. p \in r.x.commitments /\ q = acknowledge(r1, p)
    BY <1>3, <2>1 DEF acknowledge_packet, on_acknowledgement_packet_execute
  <2>3. /\ r1 \in Run /\ r1.err = r.err /\ r1.x.commitments = Left(r.x, p)
        /\ SameBlock(r.x, r1.x) /\ SameCoins(r.x, r1.x)
        /\ SameReceipts(r.x, r1.x) /\ SameEnds(r.x, r1.x)
    BY <2>1, <2>2, DeletesCommitment
  <2>4. /\ q \in Run /\ q.err = r1.err /\ q.x.acknowledged = r1.x.acknowledged \union {p.sequence}
        /\ SameBlock(r1.x, q.x) /\ SameCoins(r1.x, q.x) /\ SameReceipts(r1.x, q.x)
        /\ q.x.commitments = r1.x.commitments /\ q.x.refunded = r1.x.refunded
    BY <2>2, <2>3, Acknowledged
  <2>5. q.x.refunded = r.x.refunded /\ q.x.acknowledged = r.x.acknowledged \union {p.sequence}
    BY <2>3, <2>4 DEF SameEnds
  <2>6. Ended(q.x) = Ended(r.x) \union {p.sequence}
    BY <2>5 DEF Ended
  <2>7. SameBlock(r.x, q.x) /\ SameCoins(r.x, q.x) /\ SameReceipts(r.x, q.x)
    BY <2>3, <2>4 DEF SameBlock, SameHeight, SameCoins, SameReceipts
  <2>8. Acknowledges(r.x, q.x, p)
    BY <2>2, <2>3, <2>4, <2>5, <2>6, <2>7 DEF Acknowledges, Ends
  <2>. QED
    BY <2>3, <2>4, <2>8
<1>. QED
  BY <1>1, <1>2, <1>3

\* timeout_packet does nothing, or ends and refunds a packet whose receipt was
\* absent at a height past its timeout.
LEMMA TimeoutTimesOut ==
    ASSUME NEW r \in Run, NEW p \in Packet, NEW h \in Nat, NEW proof \in Proof,
           NEW q, q = timeout_packet(r, p, h, proof)
    PROVE  /\ q \in Run
           /\ \/ q.x = r.x
              \/ h > p.timeout /\ p.sequence \notin proof.receipts /\ TimesOut(r.x, q.x, p)
           /\ q.err => \/ r.err \/ ~Verifiable(r.x, h) \/ h <= p.timeout
                       \/ p.sequence \in proof.receipts
                       \/ p.denom = "native" /\ r.x.escrow = 0
<1>. DEFINE r1 == on_timeout_packet_execute(r, p)
            r2 == delete_packet_commitment(r1, p)
<1>0. r.x \in Host /\ p.sequence \in Nat /\ p.timeout \in Nat /\ p.denom \in {"native", "voucher"} /\ p.amount = 1
  BY DEF Run, Packet
<1>1. CASE p \notin r.x.commitments
  <2>1. q = r
    BY <1>1 DEF timeout_packet
  <2>. QED
    BY <2>1
<1>2. CASE ~Verifiable(r.x, h) \/ h <= p.timeout \/ p.sequence \in proof.receipts
  <2>1. q \in {r, Err(r)}
    BY <1>2 DEF timeout_packet
  <2>. QED
    BY <1>2, <2>1, Fails
<1>3. CASE ~(\/ p \notin r.x.commitments \/ ~Verifiable(r.x, h) \/ h <= p.timeout
             \/ p.sequence \in proof.receipts)
  <2>1. /\ p \in r.x.commitments /\ ~(h <= p.timeout) /\ p.sequence \notin proof.receipts
        /\ q = refund(r2, p)
    BY <1>3 DEF timeout_packet
  <2>2. h > p.timeout
    BY <1>0, <2>1, SMTT(60)
  <2>3. r1 = IF p.denom = "native" THEN unescrow_coins(r, 1) ELSE mint_coins(r, 1)
    BY <1>0 DEF on_timeout_packet_execute
  <2>. HIDE DEF r1
  <2>4. /\ r1 \in Run /\ (r1.err => r.err \/ (p.denom = "native" /\ r.x.escrow = 0)) /\ SameBlock(r.x, r1.x) /\ SameReceipts(r.x, r1.x) /\ SameSends(r.x, r1.x)
        /\ p.denom = "native" => Unescrowed(r.x, r1.x) \/ (r.x.escrow = 0 /\ SameCoins(r.x, r1.x))
        /\ p.denom = "voucher" => Minted(r.x, r1.x)
    <3>1. CASE p.denom = "native"
      <4>1. CASE r1 = Err(r) /\ r.x.escrow = 0
        BY <3>1, <4>1, Fails DEF SameBlock, SameHeight, SameReceipts, SameSends, SameEnds, SameCoins
      <4>2. CASE /\ r1 \in Run /\ r1.err = r.err /\ Unescrowed(r.x, r1.x) /\ SameBlock(r.x, r1.x)
                 /\ SameReceipts(r.x, r1.x) /\ SameSends(r.x, r1.x)
        BY <3>1, <4>2
      <4>. QED
        BY <2>3, <3>1, <4>1, <4>2, Unescrows
    <3>2. CASE p.denom = "voucher"
      BY <2>3, <3>2, Mints
    <3>. QED
      BY <1>0, <3>1, <3>2
  <2>. HIDE DEF r2
  <2>6. p \in r1.x.commitments /\ Left(r1.x, p) = Left(r.x, p)
    BY <2>1, <2>4 DEF SameSends, Left
  <2>7. /\ r2 \in Run /\ r2.err = r1.err /\ r2.x.commitments = Left(r1.x, p)
        /\ SameBlock(r1.x, r2.x) /\ SameCoins(r1.x, r2.x)
        /\ SameReceipts(r1.x, r2.x) /\ SameEnds(r1.x, r2.x)
    BY <2>4, <2>6, DeletesCommitment DEF r2
  <2>9. /\ q \in Run /\ q.err = r2.err /\ q.x.refunded = r2.x.refunded \union {p.sequence}
        /\ SameBlock(r2.x, q.x) /\ SameCoins(r2.x, q.x) /\ SameReceipts(r2.x, q.x)
        /\ q.x.commitments = r2.x.commitments /\ q.x.acknowledged = r2.x.acknowledged
    BY <2>1, <2>7, Refunded
  <2>10. TimesOut(r.x, q.x, p)
    <3>1. q.x.refunded = r.x.refunded \union {p.sequence} /\ q.x.acknowledged = r.x.acknowledged
      BY <2>4, <2>7, <2>9 DEF SameSends, SameEnds
    <3>2. Ended(q.x) = Ended(r.x) \union {p.sequence}
      BY <3>1 DEF Ended
    <3>3. /\ q.x.commitments = Left(r.x, p)
          /\ SameBlock(r.x, q.x) /\ SameReceipts(r.x, q.x) /\ SameCoins(r1.x, q.x)
      BY <2>4, <2>6, <2>7, <2>9 DEF SameBlock, SameHeight, SameReceipts, SameCoins
    <3>. QED
      BY <2>1, <2>4, <3>1, <3>2, <3>3 DEF TimesOut, Ends, SameCoins, Minted, Unescrowed
  <2>. QED
    BY <2>1, <2>2, <2>4, <2>7, <2>9, <2>10
<1>. QED
  BY <1>1, <1>2, <1>3

\* raw_transfer fails, or sends a packet.
LEMMA TransferSends ==
    ASSUME NEW x \in Host, NEW denom \in {"native", "voucher"},
           NEW receiver \in {"user", "invalid"}, NEW timeout \in Nat,
           ~raw_transfer(x, denom, 1, receiver, timeout).err
    PROVE  LET y == raw_transfer(x, denom, 1, receiver, timeout).x
           IN  y \in Host /\ \E p \in Packet : Sends(x, y, p)
<1>. DEFINE r == [x |-> x, err |-> FALSE]
            p == [sequence |-> x.next_sequence_send, denom |-> denom, amount |-> 1,
                  receiver |-> receiver, timeout |-> timeout]
            taken == IF denom = "native" THEN escrow_coins(r, 1) ELSE burn_coins(r, 1)
            q == raw_transfer(x, denom, 1, receiver, timeout)
<1>1. r \in Run /\ r.x = x /\ ~r.err
  BY DEF Run
<1>2. p \in Packet /\ p.sequence = x.next_sequence_send /\ p.denom = denom
  <2>1. x.next_sequence_send \in Nat
    BY DEF Host
  <2>. QED
    BY <2>1 DEF Packet
<1>3. Err(r).err
  BY <1>1 DEF Err, Run
<1>4. ~taken.err /\ q = store_packet_commitment(store_next_sequence_send(taken, p), p)
  <2>1. ~q.err
    OBVIOUS
  <2>2. \/ q = Err(r) \/ (q = taken /\ taken.err)
        \/ ~taken.err /\ q = store_packet_commitment(store_next_sequence_send(taken, p), p)
    BY DEF raw_transfer
  <2>. QED
    BY <1>3, <2>1, <2>2
<1>. HIDE DEF r, p, q
<1>5. /\ taken \in Run /\ SameBlock(x, taken.x) /\ SameReceipts(x, taken.x) /\ SameSends(x, taken.x)
      /\ denom = "native" => /\ x.user > 0 /\ taken.x.user = x.user - 1
                             /\ taken.x.escrow = x.escrow + 1 /\ taken.x.voucher = x.voucher
      /\ denom = "voucher" => /\ x.voucher > 0 /\ taken.x.voucher = x.voucher - 1
                              /\ taken.x.user = x.user /\ taken.x.escrow = x.escrow
  BY <1>1, <1>3, <1>4, Escrows, Burns
<1>. HIDE DEF taken
<1>6. PICK y1 : y1 = Counted(taken.x, p)
  OBVIOUS
<1>7. taken.x \in Host /\ taken.x.next_sequence_send + 1 \in Nat /\ Append(taken.x.sent, p) \in Seq(Packet)
  <2>1. taken.x \in Host
    BY <1>5 DEF Run
  <2>2. taken.x.next_sequence_send \in Nat /\ taken.x.sent \in Seq(Packet)
    BY <2>1 DEF Host
  <2>. QED
    BY <1>2, <2>1, <2>2, SMTT(60)
<1>8. y1 \in Host
  BY <1>6, <1>7 DEF Counted, Host
<1>9. /\ y1.height = taken.x.height /\ y1.client = taken.x.client
      /\ y1.host_consensus_states = taken.x.host_consensus_states
      /\ y1.next_sequence_send = taken.x.next_sequence_send + 1
      /\ y1.sent = Append(taken.x.sent, p)
      /\ SameReceipts(taken.x, y1) /\ SameSends(taken.x, y1) /\ SameCoins(taken.x, y1)
  BY <1>6, <1>7 DEF Counted, Host, SameReceipts, SameSends, SameEnds, SameCoins
<1>10. PICK r1 : r1 = store_next_sequence_send(taken, p)
  OBVIOUS
<1>11. r1 = [taken EXCEPT !.x = y1]
  BY <1>6, <1>10 DEF store_next_sequence_send
<1>12. r1 \in Run /\ r1.x = y1
  BY <1>5, <1>8, <1>11, Deeper
<1>15. /\ q \in Run /\ q.x.commitments = r1.x.commitments \union {p}
       /\ SameBlock(r1.x, q.x) /\ SameCoins(r1.x, q.x)
       /\ SameReceipts(r1.x, q.x) /\ SameEnds(r1.x, q.x)
  BY <1>2, <1>4, <1>10, <1>12, StoresCommitment
<1>16. Sends(x, q.x, p)
  BY <1>2, <1>5, <1>9, <1>12, <1>15 DEF Sends, SameBlock, SameHeight, SameCoins, SameReceipts,
     SameSends, SameEnds
<1>17. q.x \in Host
  BY <1>15 DEF Run
<1>. QED
  BY <1>2, <1>16, <1>17 DEF q

-----------------------------------------------------------------------------
(* The packets from x to y, where px and py hold the committed states of x and *)
(* y: a receipt that was not there yet when a height was committed came before *)
(* the packet's timeout, and after it was refunded none can come.              *)

IsSent(x, p) == p.sequence \in DOMAIN x.sent /\ x.sent[p.sequence] = p

Numbered(x) ==
    /\ x.next_sequence_send = Len(x.sent) + 1
    /\ \A i \in DOMAIN x.sent : x.sent[i].sequence = i

Refunds(x, y) ==
    \A n \in x.refunded : /\ n \in DOMAIN x.sent /\ x.sent[n] \notin x.commitments
                          /\ n \notin y.receipts /\ x.sent[n].timeout < y.height

Receipts(x, y, py) ==
    \A n \in y.receipts :
        /\ n \in DOMAIN x.sent
        /\ \A h \in DOMAIN py : n \notin py[h].receipts => h < x.sent[n].timeout

\* The commitment of a packet is deleted when it ends, or one whose number
\* begins its own.
Forgotten(x) ==
    \A n \in DOMAIN x.sent : x.sent[n] \in x.commitments \/ \E m \in Ended(x) : Begins(m, n)

Acks(y) ==
    /\ \A i \in DOMAIN y.acks : y.acks[i].sequence \in y.receipts
    /\ IsFiniteSet(y.receipts) /\ Len(y.acks) = Cardinality(y.receipts)

Link(x, px, y, py) ==
    /\ Numbered(x) /\ \A p \in x.commitments : IsSent(x, p)
    /\ \A h \in DOMAIN px : \A p \in px[h].commitments : IsSent(x, p)
    /\ Refunds(x, y) /\ Receipts(x, y, py) /\ Acks(y) /\ Forgotten(x)

\* What neither sends, receives nor ends a packet, on x or on y.
LEMMA LinkStays ==
    ASSUME NEW x \in Host, NEW x2 \in Host, NEW y \in Host, NEW y2 \in Host, NEW px, NEW py,
           Link(x, px, y, py),
           x2.sent = x.sent, x2.next_sequence_send = x.next_sequence_send, SameSends(x, x2),
           SameReceipts(y, y2), y2.height >= y.height
    PROVE  Link(x2, px, y2, py)
<1>1. Numbered(x2) /\ Receipts(x2, y2, py) /\ Acks(y2) /\ \A p : IsSent(x2, p) <=> IsSent(x, p)
  BY DEF Link, Numbered, Receipts, Acks, IsSent, SameReceipts
<1>2. Refunds(x2, y2)
  <2>1. \A n \in DOMAIN x.sent : x.sent[n].timeout \in Nat
    <3>1. x.sent \in Seq(Packet)
      BY DEF Host
    <3>2. \A n \in DOMAIN x.sent : x.sent[n] \in Packet
      BY <3>1, SMTT(60)
    <3>3. \A q \in Packet : q.timeout \in Nat
      BY DEF Packet
    <3>. QED
      BY <3>2, <3>3
  <2>2. y.height \in Nat /\ y2.height \in Nat
    BY DEF Host
  <2>. QED
    BY <2>1, <2>2, SMTT(60) DEF Link, Refunds, SameSends, SameEnds, SameReceipts
<1>3. Forgotten(x2)
  <2>1. Ended(x2) = Ended(x) /\ x2.commitments = x.commitments
    BY DEF Ended, SameSends, SameEnds
  <2>. QED
    BY <2>1 DEF Link, Forgotten
<1>. QED
  BY <1>1, <1>2, <1>3 DEF Link, SameSends

\* Sending a packet keeps the link, ...
LEMMA LinkSends ==
    ASSUME NEW x \in Host, NEW x2 \in Host, NEW y \in Host, NEW px, NEW py,
           Link(x, px, y, py), NEW p \in Packet, Sends(x, x2, p)
    PROVE  Link(x2, px, y, py)
<1>1. x.sent \in Seq(Packet) /\ x2.sent = Append(x.sent, p) /\ p.sequence = Len(x.sent) + 1
  <2>1. x.sent \in Seq(Packet)
    BY DEF Host
  <2>. QED
    BY <2>1 DEF Sends, Link, Numbered
<1>2. /\ Len(x2.sent) = Len(x.sent) + 1 /\ DOMAIN x2.sent = DOMAIN x.sent \union {Len(x.sent) + 1}
      /\ x2.sent[Len(x.sent) + 1] = p /\ \A i \in DOMAIN x.sent : x2.sent[i] = x.sent[i]
      /\ Len(x.sent) + 1 \notin DOMAIN x.sent
  BY <1>1, SMTT(60)
<1>3. Numbered(x2)
  BY <1>1, <1>2 DEF Link, Numbered, Sends
<1>4. \A q : IsSent(x, q) => IsSent(x2, q)
  BY <1>2 DEF IsSent
<1>5. \A q \in x2.commitments : IsSent(x2, q)
  BY <1>1, <1>2, <1>4 DEF Link, Sends, IsSent
<1>6. Refunds(x2, y)
  <2>. SUFFICES ASSUME NEW n \in x2.refunded
                PROVE  /\ n \in DOMAIN x2.sent /\ x2.sent[n] \notin x2.commitments
                       /\ n \notin y.receipts /\ x2.sent[n].timeout < y.height
    BY DEF Refunds
  <2>1. /\ n \in DOMAIN x.sent /\ x.sent[n] \notin x.commitments
        /\ n \notin y.receipts /\ x.sent[n].timeout < y.height
    BY DEF Sends, SameEnds, Link, Refunds
  <2>2. x.sent[n] # p
    BY <1>1, <1>2, <2>1 DEF Link, Numbered
  <2>. QED
    BY <1>2, <2>1, <2>2, SMTT(60) DEF Sends
<1>7. Receipts(x2, y, py)
  BY <1>2 DEF Link, Receipts
<1>8. Forgotten(x2)
  <2>1. Ended(x2) = Ended(x) /\ x2.commitments = x.commitments \union {p}
    BY DEF Ended, Sends, SameEnds
  <2>. QED
    BY <1>2, <2>1 DEF Link, Forgotten
<1>. QED
  BY <1>3, <1>4, <1>5, <1>6, <1>7, <1>8 DEF Link

\* ... so does ending one, if one that is refunded was not received and
\* cannot be any more, ...
LEMMA LinkEnds ==
    ASSUME NEW x \in Host, NEW x2 \in Host, NEW y \in Host, NEW px, NEW py,
           Link(x, px, y, py), NEW p \in Packet, Ends(x, x2, p),
           \/ x2.refunded = x.refunded
           \/ /\ x2.refunded = x.refunded \union {p.sequence}
              /\ p.sequence \notin y.receipts /\ p.timeout < y.height
    PROVE  Link(x2, px, y, py)
<1>1. IsSent(x, p) /\ x2.sent = x.sent /\ x2.next_sequence_send = x.next_sequence_send
  BY DEF Ends, Link, SameBlock, SameHeight
<1>2. Numbered(x2) /\ Receipts(x2, y, py) /\ \A q : IsSent(x, q) => IsSent(x2, q)
  BY <1>1 DEF Link, Numbered, Receipts, IsSent
<1>3. x2.commitments \subseteq x.commitments /\ p \notin x2.commitments
  BY DEF Ends, Left, Begins
<1>4. Refunds(x2, y)
  <2>. SUFFICES ASSUME NEW n \in x2.refunded
                PROVE  /\ n \in DOMAIN x.sent /\ x.sent[n] \notin x2.commitments
                       /\ n \notin y.receipts /\ x.sent[n].timeout < y.height
    BY <1>1 DEF Refunds
  <2>1. CASE n \in x.refunded
    BY <1>3, <2>1 DEF Link, Refunds
  <2>2. CASE n \notin x.refunded
    <3>1. n = p.sequence /\ n \notin y.receipts /\ p.timeout < y.height
      BY <2>2
    <3>. QED
      BY <1>1, <1>3, <3>1 DEF IsSent
  <2>. QED
    BY <2>1, <2>2
<1>5. Forgotten(x2)
  <2>. SUFFICES ASSUME NEW n \in DOMAIN x.sent, x.sent[n] \notin x2.commitments
                PROVE  \E m \in Ended(x2) : Begins(m, n)
    BY <1>1 DEF Forgotten
  <2>1. p.sequence \in Ended(x2) /\ Ended(x) \subseteq Ended(x2)
    BY DEF Ends
  <2>2. CASE x.sent[n] \in x.commitments
    <3>1. Begins(p.sequence, x.sent[n].sequence) /\ x.sent[n].sequence = n
      BY <2>2 DEF Ends, Left, Link, Numbered
    <3>. QED
      BY <2>1, <3>1
  <2>3. CASE x.sent[n] \notin x.commitments
    BY <2>1, <2>3 DEF Link, Forgotten
  <2>. QED
    BY <2>2, <2>3
<1>. QED
  BY <1>2, <1>3, <1>4, <1>5 DEF Link, Ends, SameReceipts, Acks

\* A receipt that was absent at the committed height h - 1, when h is past the
\* timeout, is absent now.
LEMMA AbsentReceipt ==
    ASSUME NEW x \in Host, NEW y \in Host, NEW px, NEW py, Link(x, px, y, py),
           NEW p \in Packet, p \in x.commitments, NEW h \in Nat, h - 1 \in DOMAIN py,
           h > p.timeout, p.sequence \notin py[h - 1].receipts
    PROVE  p.sequence \notin y.receipts
<1>1. IsSent(x, p) /\ p.timeout \in Nat
  BY DEF Link, Packet
<1>. QED
  BY <1>1, SMTT(60) DEF Link, Receipts, IsSent

\* A block of x, or of y, is committed.
LEMMA LinkCommits ==
    ASSUME NEW x \in Host, NEW x2 \in Host, NEW y \in Host, NEW px, NEW px2, NEW py,
           Link(x, px, y, py), SameSends(x, x2), x2.sent = x.sent,
           x2.next_sequence_send = x.next_sequence_send,
           \A h \in DOMAIN px2 : \/ px2[h].commitments = x.commitments
                                 \/ h \in DOMAIN px /\ px2[h] = px[h]
    PROVE  Link(x2, px2, y, py)
<1>1. Link(x2, px, y, py)
  <2>1. SameReceipts(y, y) /\ y.height >= y.height
    <3>1. y.height \in Nat
      BY DEF Host
    <3>. QED
      BY <3>1, SMTT(60) DEF SameReceipts
  <2>. QED
    BY <2>1, LinkStays
<1>2. \A h \in DOMAIN px2 : \A p \in px2[h].commitments : IsSent(x2, p)
  BY <1>1 DEF Link, SameSends, SameEnds
<1>. QED
  BY <1>1, <1>2 DEF Link

\* ... the commit of the other chain's block ...
LEMMA LinkCommitted ==
    ASSUME NEW x \in Host, NEW y \in Host, NEW y2 \in Host, NEW px, NEW py, NEW py2,
           Link(x, px, y, py), SameReceipts(y, y2), y2.height >= y.height,
           \A h \in DOMAIN py2 : \/ py2[h].receipts = y.receipts
                                 \/ h \in DOMAIN py /\ py2[h] = py[h]
    PROVE  Link(x, px, y2, py2)
<1>1. Link(x, px, y2, py)
  BY LinkStays DEF SameSends, SameEnds
<1>2. Receipts(x, y2, py2)
  BY <1>1 DEF Link, Receipts, SameReceipts
<1>. QED
  BY <1>1, <1>2 DEF Link

-----------------------------------------------------------------------------
(* Two chains x and y, with their committed states px and py: what a step of *)
(* x may do, and that it keeps both directions sound.                        *)

BothBacked(x, y) == Backed(x, y) /\ Backed(y, x)
Linked(x, px, y, py) == Link(x, px, y, py) /\ Link(y, py, x, px) /\ BothBacked(x, y)

\* The latest height of the client of x is that of a header of y, the highest
\* one it knows.
Known(k, py) ==
    /\ k.latest \in DOMAIN py /\ EpochHeight(k.latest) \in k.consensus_states
    /\ \A key \in k.consensus_states : key[2] <= k.latest

\* A consensus state without its metadata: a height that has expired by the
\* time t begins its own.
Explained(k, t) ==
    \A key \in k.consensus_states \ k.updates :
        \E old \in k.consensus_states : t - old[2] > trusting_period /\ Begins(old[2], key[2])

Tracks(x, py) == Known(x.client, py) /\ Explained(x.client, host_timestamp(x))

Sound(x, px, y, py) == Linked(x, px, y, py) /\ Tracks(x, py) /\ Tracks(y, px)

\* What is received is acknowledged in the same step.
Acked(s) == \A n \in s.receipts : \E i \in DOMAIN s.acks : s.acks[i].sequence = n

\* The newest of the host's consensus states is that of its block.
Hosted(x) ==
    LET states == x.host_consensus_states
    IN  Len(states) > 0 /\ states[Len(states)] = x.height /\ x.height >= Start

Committing(x, px) ==
    /\ x \in Host /\ Hosted(x) /\ Acked(x) /\ DOMAIN px = (Start - 1)..(x.height - 1)
    /\ \A h \in DOMAIN px : h \in Nat /\ h < x.height /\ px[h] \in Proof /\ Acked(px[h])

Moves(x, x2, y) ==
    \/ Still(x, x2)
    \/ \E p \in Packet : Sends(x, x2, p)
    \/ \E p \in Packet : IsSent(y, p) /\ Receives(x, x2, p)
    \/ \E p \in Packet : Acknowledges(x, x2, p)
    \/ \E p \in Packet : /\ p.sequence \notin y.receipts /\ p.timeout < y.height
                         /\ TimesOut(x, x2, p)

Steps(x, x2, y, py) == Moves(x, x2, y) /\ (Tracks(x, py) => Tracks(x2, py))

\* The host's time changes with its block only, ...
LEMMA SameTime ==
    ASSUME NEW x, NEW x2, x2.height = x.height, x2.host_consensus_states = x.host_consensus_states
    PROVE  host_timestamp(x2) = host_timestamp(x)
  BY DEF host_timestamp, host_consensus_state

\* ... so what leaves the client alone in a block keeps it on the headers it has.
LEMMA TracksStays ==
    ASSUME NEW x, NEW x2, NEW py, Tracks(x, py), x2.client = x.client,
           x2.height = x.height, x2.host_consensus_states = x.host_consensus_states
    PROVE  Tracks(x2, py)
  BY SameTime DEF Tracks

\* What changes nothing of a link but, at most, the time on the other side.
LEMMA LinkHere ==
    ASSUME NEW x \in Host, NEW x2 \in Host, NEW y \in Host, NEW px, NEW py,
           Link(x, px, y, py), x2.sent = x.sent,
           x2.next_sequence_send = x.next_sequence_send, SameSends(x, x2)
    PROVE  Link(x2, px, y, py)
<1>1. SameReceipts(y, y) /\ y.height >= y.height
  <2>1. y.height \in Nat
    BY DEF Host
  <2>. QED
    BY <2>1, SMTT(60) DEF SameReceipts
<1>. QED
  BY <1>1, LinkStays

\* ... and what the other chain does without receiving.
LEMMA LinkThere ==
    ASSUME NEW x \in Host, NEW y \in Host, NEW y2 \in Host, NEW px, NEW py,
           Link(x, px, y, py), SameReceipts(y, y2), y2.height = y.height
    PROVE  Link(x, px, y2, py)
<1>1. SameSends(x, x) /\ y2.height >= y.height
  <2>1. y.height \in Nat
    BY DEF Host
  <2>. QED
    BY <2>1, SMTT(60) DEF SameSends, SameEnds
<1>. QED
  BY <1>1, LinkStays

\* A packet received together with its acknowledgement.
LEMMA AckedAppend ==
    ASSUME NEW x \in Host, NEW x2, Acked(x), NEW p, NEW ack,
           x2.receipts = x.receipts \union {p.sequence}, x2.acks = Append(x.acks, AckOf(p, ack))
    PROVE  Acked(x2)
<1>1. x.acks \in Seq(Ack)
  BY DEF Host
<1>2. PICK a : a = AckOf(p, ack)
  OBVIOUS
<1>3. a.sequence = p.sequence
  BY <1>2 DEF AckOf
<1>4. /\ DOMAIN x2.acks = 1..(Len(x.acks) + 1) /\ x2.acks[Len(x.acks) + 1] = a
      /\ DOMAIN x.acks = 1..Len(x.acks) /\ Len(x.acks) \in Nat
      /\ \A i \in DOMAIN x.acks : x2.acks[i] = x.acks[i]
  BY <1>1, <1>2, SMTT(60)
<1>5. \A i \in DOMAIN x.acks : i \in DOMAIN x2.acks
  BY <1>4, SMTT(60)
<1>6. Len(x.acks) + 1 \in DOMAIN x2.acks
  BY <1>4, SMTT(60)
<1>. QED
  BY <1>3, <1>4, <1>5, <1>6 DEF Acked

-----------------------------------------------------------------------------
(* A relayer's batch. *)

\* Pruning leaves the consensus states, and takes the metadata of those that
\* an expired height begins.
LEMMA PrunedKnows ==
    ASSUME NEW x \in Host, NEW py, Tracks(x, py)
    PROVE  LET k2 == prune_oldest_consensus_state(x)
           IN  /\ Known(k2, py) /\ Explained(k2, host_timestamp(x))
               /\ k2.latest = x.client.latest /\ k2.frozen = x.client.frozen
<1>1. PICK k, t : k = x.client /\ t = host_timestamp(x)
  OBVIOUS
<1>2. k \in Client /\ Known(k, py) /\ Explained(k, t)
  BY <1>1 DEF Host, Tracks
<1>3. PICK old : old = {g \in consensus_state_heights(k) : expired(x, g)}
  OBVIOUS
<1>4. \A g \in old : t - g > trusting_period /\ \E key \in k.consensus_states : key[2] = g
  BY <1>1, <1>3 DEF consensus_state_heights, Yielded, Heights, expired
<1>5. PICK k1 : k1 = delete_consensus_state(k, old)
  OBVIOUS
<1>6. /\ k1 \in Client /\ k1.latest = k.latest /\ k1.updates = k.updates /\ k1.frozen = k.frozen
      /\ k1.consensus_states = k.consensus_states
  <2>1. k.consensus_states \ {<<g>> : g \in old} = k.consensus_states
    <3>1. k.consensus_states \in SUBSET HeightKeys
      BY <1>2 DEF Client
    <3>2. \A key \in HeightKeys : \A g : key # <<g>>
      BY SMTT(60) DEF HeightKeys
    <3>. QED
      BY <3>1, <3>2
  <2>2. k1 \in Client
    BY <1>2, <1>5, <2>1 DEF delete_consensus_state, Client
  <2>. QED
    BY <1>2, <1>5, <2>1, <2>2 DEF delete_consensus_state, Client
<1>7. PICK k2 : k2 = delete_update_meta(k1, old)
  OBVIOUS
<1>8. PICK erased : erased = UNION {Erased(Heights(k.updates), g) : g \in old}
  OBVIOUS
<1>9. /\ k2.latest = k.latest /\ k2.frozen = k.frozen /\ k2.consensus_states = k.consensus_states
      /\ k2.updates = {u \in k.updates : u[2] \notin erased}
  BY <1>6, <1>7, <1>8 DEF delete_update_meta, Client
<1>10. prune_oldest_consensus_state(x) = k2
  BY <1>1, <1>3, <1>5, <1>7 DEF prune_oldest_consensus_state
<1>11. Known(k2, py)
  BY <1>2, <1>9 DEF Known
<1>12. ASSUME NEW key \in k2.consensus_states \ k2.updates
       PROVE  \E o \in k2.consensus_states : t - o[2] > trusting_period /\ Begins(o[2], key[2])
  <2>1. CASE key \in k.updates
    <3>1. PICK g \in old : key[2] \in Erased(Heights(k.updates), g)
      BY <1>8, <1>9, <1>12, <2>1
    <3>2. Begins(g, key[2])
      BY <3>1 DEF Erased
    <3>. QED
      BY <1>4, <1>9, <3>1, <3>2
  <2>2. CASE key \notin k.updates
    BY <1>2, <1>9, <1>12, <2>2 DEF Explained
  <2>. QED
    BY <2>1, <2>2
<1>13. Explained(k2, t)
  BY <1>12 DEF Explained
<1>. QED
  BY <1>1, <1>9, <1>10, <1>11, <1>13

\* Storing the consensus state of a header keeps the latest one.
LEMMA StoredKnows ==
    ASSUME NEW k \in Client, NEW py, NEW t, Known(k, py), Explained(k, t),
           NEW h \in Nat, h \in DOMAIN py
    PROVE  LET k3 == [store_update_meta(store_consensus_state(k, h), h)
                          EXCEPT !.latest = IF h > @ THEN h ELSE @]
           IN  /\ Known(k3, py) /\ Explained(k3, t) /\ k3.frozen = k.frozen
               /\ k3.latest = IF h > k.latest THEN h ELSE k.latest
               /\ EpochHeight(h) \in k3.consensus_states \cap k3.updates
<1>1. PICK k1 : k1 = store_consensus_state(k, h)
  OBVIOUS
<1>2. EpochHeight(h) \in HeightKeys /\ EpochHeight(h)[2] = h /\ k.latest \in Nat
  BY DEF EpochHeight, HeightKeys, Client
<1>3. /\ k1 \in Client /\ k1.latest = k.latest /\ k1.updates = k.updates /\ k1.frozen = k.frozen
      /\ k1.consensus_states = k.consensus_states \union {EpochHeight(h)}
  <2>1. k.consensus_states \union {EpochHeight(h)} \in SUBSET HeightKeys
    BY <1>2 DEF Client
  <2>2. k1 \in Client
    BY <1>1, <2>1 DEF store_consensus_state, Client
  <2>. QED
    BY <1>1, <2>2 DEF store_consensus_state, Client
<1>4. PICK k2 : k2 = store_update_meta(k1, h)
  OBVIOUS
<1>5. /\ k2 \in Client /\ k2.latest = k.latest /\ k2.updates = k.updates \union {EpochHeight(h)}
      /\ k2.consensus_states = k.consensus_states \union {EpochHeight(h)} /\ k2.frozen = k.frozen
  <2>1. k1.updates \union {EpochHeight(h)} \in SUBSET HeightKeys
    BY <1>2, <1>3 DEF Client
  <2>2. k2 \in Client
    BY <1>3, <1>4, <2>1 DEF store_update_meta, Client
  <2>. QED
    BY <1>3, <1>4, <2>2 DEF store_update_meta, Client
<1>6. PICK k3 : k3 = [k2 EXCEPT !.latest = IF h > @ THEN h ELSE @]
  OBVIOUS
<1>7. /\ k3.latest = (IF h > k.latest THEN h ELSE k.latest) /\ k3.frozen = k.frozen
      /\ k3.consensus_states = k2.consensus_states /\ k3.updates = k2.updates
  BY <1>5, <1>6 DEF Client
<1>8. k3.latest \in DOMAIN py /\ k3.latest >= k.latest /\ k3.latest >= h
  BY <1>2, <1>7, SMTT(60) DEF Known
<1>9. EpochHeight(k3.latest) \in k3.consensus_states
  BY <1>5, <1>7 DEF Known
<1>10. ASSUME NEW key \in k3.consensus_states PROVE key[2] <= k3.latest
  <2>1. CASE key = EpochHeight(h)
    BY <1>2, <1>8, <2>1
  <2>2. CASE key \in k.consensus_states
    <3>1. key[2] \in Nat /\ key[2] <= k.latest
      BY <2>2 DEF Client, HeightKeys, Known
    <3>. QED
      BY <1>2, <1>7, <3>1, SMTT(60)
  <2>. QED
    BY <1>5, <1>7, <2>1, <2>2
<1>11. Known(k3, py)
  BY <1>8, <1>9, <1>10 DEF Known
<1>12. EpochHeight(h) \in k3.consensus_states \cap k3.updates
  BY <1>5, <1>7
<1>13. Explained(k3, t)
  <2>1. /\ k3.consensus_states \ k3.updates \subseteq k.consensus_states \ k.updates
        /\ k.consensus_states \subseteq k3.consensus_states
    BY <1>5, <1>7
  <2>. QED
    BY <2>1 DEF Explained
<1>. QED
  BY <1>1, <1>4, <1>6, <1>7, <1>11, <1>12, <1>13

\* An update of the client from a committed header keeps it on the highest
\* one it knows, ...
LEMMA UpdateTracks ==
    ASSUME NEW r \in Run, NEW py, NEW h \in Nat, h \in DOMAIN py, Tracks(r.x, py)
    PROVE  Tracks(update_client(r, h).x, py)
<1>. DEFINE pruned == prune_oldest_consensus_state(r.x)
            new == [store_update_meta(store_consensus_state(pruned, h), h)
                        EXCEPT !.latest = IF h > @ THEN h ELSE @]
            frozen == [r.x.client EXCEPT !.frozen = TRUE]
            t == host_timestamp(r.x)
            Fits(k) == Known(k, py) /\ Explained(k, t)
<1>1. r.x \in Host /\ r.x.client \in Client /\ Fits(r.x.client)
  BY DEF Run, Host, Tracks
<1>2. \/ update_client(r, h) = Err(r)
      \/ update_client(r, h) = [r EXCEPT !.x.client = frozen]
      \/ update_client(r, h) = [r EXCEPT !.x.client = pruned]
      \/ update_client(r, h) = [r EXCEPT !.x.client = new]
  BY DEF update_client
<1>3. Fits(frozen)
  BY <1>1 DEF Known, Explained, Client
<1>4. Fits(pruned) /\ pruned \in Client
  <2>1. pruned \in Client
    BY <1>1, PrunedClient DEF prune_oldest_consensus_state
  <2>. QED
    BY <1>1, <2>1, PrunedKnows
<1>. HIDE DEF pruned, frozen
<1>5. Fits(new)
  BY <1>4, StoredKnows
<1>. HIDE DEF new, Fits
<1>6. \A k : [r EXCEPT !.x.client = k].x.client = k
  BY <1>1 DEF Run, Host
<1>7. PICK q : q = update_client(r, h)
  OBVIOUS
<1>8. q.x.client \in {r.x.client, frozen, pruned, new}
  <2>1. Err(r).x = r.x
    BY Fails
  <2>. QED
    BY <1>2, <1>6, <1>7, <2>1
<1>9. Fits(q.x.client)
  BY <1>1, <1>3, <1>4, <1>5, <1>8
<1>10. host_timestamp(q.x) = t
  BY <1>7, UpdateIsStill, SameTime DEF Still, SameHeight
<1>. QED
  BY <1>7, <1>9, <1>10 DEF Tracks, Fits

\* ... and is a step of the chain.
LEMMA UpdateSteps ==
    ASSUME NEW r \in Run, NEW h \in Nat, NEW y, NEW py, h \in DOMAIN py
    PROVE  /\ deliver_message(r, Update(h)) = update_client(r, h)
           /\ update_client(r, h) \in Run /\ Steps(r.x, update_client(r, h).x, y, py)
<1>1. Update(h).type = "update" /\ Update(h).height = h
  BY DEF Update
<1>2. deliver_message(r, Update(h)) = update_client(r, h)
  BY <1>1 DEF deliver_message
<1>3. Tracks(r.x, py) => Tracks(update_client(r, h).x, py)
  BY UpdateTracks
<1>. QED
  BY <1>2, <1>3, UpdateIsStill DEF Steps, Moves

\* Every other message is a step of the chain: nothing, a packet received,
\* acknowledged or timed out as the proof allows.
LEMMA MessageSteps ==
    ASSUME NEW r \in Run, NEW px, NEW y, NEW py, Committing(r.x, px), Committing(y, py),
           Sound(r.x, px, y, py), NEW type \in {"recv", "ack", "timeout"}, NEW p \in Packet,
           NEW h \in DOMAIN py, h - 1 \in DOMAIN py, NEW m,
           m = [type |-> type, packet |-> p, height |-> h, proof |-> py[h - 1]]
    PROVE  deliver_message(r, m) \in Run /\ Steps(r.x, deliver_message(r, m).x, y, py)
<1>1. m.type = type /\ m.packet = p /\ m.height = h /\ m.proof = py[h - 1]
  OBVIOUS
<1>2. PICK proof : proof = py[h - 1]
  OBVIOUS
<1>3. h \in Nat /\ h < y.height /\ proof \in Proof /\ r.x \in Host /\ y \in Host
  BY <1>2 DEF Committing
<1>4. CASE type = "recv"
  <2>1. deliver_message(r, m) = recv_packet(r, p, h, proof)
    BY <1>1, <1>2, <1>4 DEF deliver_message
  <2>2. PICK q : q = recv_packet(r, p, h, proof)
    OBVIOUS
  <2>3. q \in Run /\ (q.x = r.x \/ (p \in proof.commitments /\ Receives(r.x, q.x, p)))
    BY <1>3, <2>2, RecvReceives
  <2>4. p \in proof.commitments => IsSent(y, p)
    BY <1>2 DEF Sound, Linked, Link
  <2>5. SameBlock(r.x, q.x)
    BY <2>3 DEF Receives, SameBlock, SameHeight
  <2>6. Moves(r.x, q.x, y)
    BY <2>3, <2>4, StillStays DEF Moves
  <2>. QED
    BY <2>1, <2>2, <2>3, <2>5, <2>6, TracksStays DEF Steps, SameBlock, SameHeight
<1>5. CASE type = "ack"
  <2>1. deliver_message(r, m) = acknowledge_packet(r, p, h, proof)
    BY <1>1, <1>2, <1>5 DEF deliver_message
  <2>2. PICK q : q = acknowledge_packet(r, p, h, proof)
    OBVIOUS
  <2>3. q \in Run /\ (q.x = r.x \/ Acknowledges(r.x, q.x, p))
    BY <1>3, <2>2, AckAcknowledges
  <2>4. SameBlock(r.x, q.x)
    BY <2>3 DEF Acknowledges, Ends, SameBlock, SameHeight
  <2>5. Moves(r.x, q.x, y)
    BY <2>3, StillStays DEF Moves
  <2>. QED
    BY <2>1, <2>2, <2>3, <2>4, <2>5, TracksStays DEF Steps, SameBlock, SameHeight
<1>6. CASE type = "timeout"
  <2>1. deliver_message(r, m) = timeout_packet(r, p, h, proof)
    BY <1>1, <1>2, <1>6 DEF deliver_message
  <2>2. PICK q : q = timeout_packet(r, p, h, proof)
    OBVIOUS
  <2>3. /\ q \in Run
        /\ \/ q.x = r.x
           \/ h > p.timeout /\ p.sequence \notin proof.receipts /\ TimesOut(r.x, q.x, p)
    BY <1>3, <2>2, TimeoutTimesOut
  <2>4. ASSUME h > p.timeout, p.sequence \notin proof.receipts, TimesOut(r.x, q.x, p)
        PROVE  Moves(r.x, q.x, y)
    <3>1. p \in r.x.commitments
      BY <2>4 DEF TimesOut, Ends
    <3>2. p.sequence \notin y.receipts
      BY <1>2, <1>3, <2>4, <3>1, AbsentReceipt DEF Sound, Linked
    <3>3. p.timeout \in Nat /\ y.height \in Nat
      BY <1>3 DEF Packet, Host
    <3>4. p.timeout < y.height
      BY <1>3, <2>4, <3>3, SMTT(60)
    <3>. QED
      BY <2>4, <3>2, <3>4 DEF Moves
  <2>5. Moves(r.x, q.x, y)
    <3>1. CASE q.x = r.x
      BY <3>1, StillStays DEF Moves
    <3>. QED
      BY <2>3, <2>4, <3>1
  <2>6. SameBlock(r.x, q.x)
    BY <2>3 DEF TimesOut, Ends, SameBlock, SameHeight
  <2>. QED
    BY <2>1, <2>2, <2>3, <2>5, <2>6, TracksStays DEF Steps, SameBlock, SameHeight
<1>. QED
  BY <1>4, <1>5, <1>6

-----------------------------------------------------------------------------
(* What the proofs use of finite sets. It is carried along as a hypothesis, *)
(* and IbcProofs discharges it.                                             *)

Counting ==
    /\ IsFiniteSet({}) /\ Cardinality({}) = 0
    /\ \A n \in Nat : \A S \in SUBSET (1..n) : IsFiniteSet(S)
    /\ \A S : IsFiniteSet(S) => Cardinality(S) \in Nat /\ (Cardinality(S) = 0 => S = {})
    /\ \A S, x : IsFiniteSet(S) =>
           /\ x \notin S => IsFiniteSet(S \union {x}) /\ Cardinality(S \union {x}) = Cardinality(S) + 1
           /\ Cardinality(S \ {x}) = IF x \in S THEN Cardinality(S) - 1 ELSE Cardinality(S)

\* The empty set has no elements.
LEMMA CountNone == Counting => Cardinality({}) = 0 /\ IsFiniteSet({})
  BY DEF Counting

\* A set of numbers up to n is finite.
LEMMA CountInterval ==
    ASSUME Counting, NEW n \in Nat, NEW S \in SUBSET (1..n)
    PROVE  IsFiniteSet(S) /\ Cardinality(S) \in Nat /\ (Cardinality(S) = 0 => S = {})
  BY DEF Counting

\* An element more, ...
LEMMA CountAdd ==
    ASSUME Counting, NEW S, IsFiniteSet(S), NEW x, x \notin S
    PROVE  IsFiniteSet(S \union {x}) /\ Cardinality(S \union {x}) = Cardinality(S) + 1
  BY DEF Counting

\* ... and an element less.
LEMMA CountRemove ==
    ASSUME Counting, NEW S, IsFiniteSet(S), NEW x
    PROVE  Cardinality(S \ {x}) = IF x \in S THEN Cardinality(S) - 1 ELSE Cardinality(S)
  BY DEF Counting

\* A packet that is received is one that was sent and not refunded, and has
\* not been received before.
LEMMA LinkReceives ==
    ASSUME Counting, NEW x \in Host, NEW y \in Host, NEW y2 \in Host, NEW px, NEW py,
           Link(x, px, y, py), NEW p \in Packet, IsSent(x, p), Receives(y, y2, p),
           \A h \in DOMAIN py : h \in Nat /\ h < y.height
    PROVE  Link(x, px, y2, py)
<1>0. p.sequence \in Nat /\ p.timeout \in Nat /\ y.height \in Nat /\ y.acks \in Seq(Ack)
  BY DEF Host, Packet
<1>1. Refunds(x, y2)
  <2>. SUFFICES ASSUME NEW n \in x.refunded
                PROVE  n \notin y2.receipts
    BY DEF Refunds, Link, Receives, SameBlock, SameHeight
  <2>1. n \notin y.receipts /\ x.sent[n].timeout < y.height
    BY DEF Refunds, Link
  <2>2. n # p.sequence
    BY <1>0, <2>1, SMTT(60) DEF Receives, IsSent
  <2>. QED
    BY <2>1, <2>2 DEF Receives
<1>2. Receipts(x, y2, py)
  <2>. SUFFICES ASSUME NEW n \in y2.receipts
                PROVE  /\ n \in DOMAIN x.sent
                       /\ \A h \in DOMAIN py : n \notin py[h].receipts => h < x.sent[n].timeout
    BY DEF Receipts
  <2>1. CASE n \in y.receipts
    BY <2>1 DEF Link, Receipts
  <2>2. CASE n = p.sequence
    BY <2>2, <1>0, SMTT(60) DEF IsSent, Receives
  <2>. QED
    BY <2>1, <2>2 DEF Receives
<1>3. Acks(y2)
  <2>1. PICK ack : y2.acks = Append(y.acks, AckOf(p, ack))
    BY DEF Receives
  <2>2. Len(y2.acks) = Len(y.acks) + 1
    BY <1>0, <2>1, SMTT(60)
  <2>3. Cardinality(y2.receipts) = Cardinality(y.receipts) + 1 /\ IsFiniteSet(y2.receipts)
    <3>1. PICK S, n : S = y.receipts /\ n = p.sequence
      OBVIOUS
    <3>2. IsFiniteSet(S) /\ n \notin S /\ y2.receipts = S \union {n}
      BY <3>1 DEF Receives, Link, Acks
    <3>. QED
      BY <3>1, <3>2, CountAdd, SMTT(60)
  <2>4. \A i \in DOMAIN y2.acks : y2.acks[i] = AckOf(p, ack) \/ (i \in DOMAIN y.acks /\ y2.acks[i] = y.acks[i])
    BY <1>0, <2>1, SMTT(60)
  <2>5. AckOf(p, ack).sequence = p.sequence
    BY DEF AckOf
  <2>6. \A i \in DOMAIN y2.acks : y2.acks[i].sequence \in y2.receipts
    BY <2>4, <2>5 DEF Receives, Link, Acks
  <2>. QED
    BY <2>2, <2>3, <2>6 DEF Acks, Link
<1>. QED
  BY <1>1, <1>2, <1>3 DEF Link

-----------------------------------------------------------------------------
(* A relayer who brings the newest header of the counterparty. *)

\* The time of a host is that of its block.
LEMMA HostTime ==
    ASSUME ChainsAssumption, NEW x \in Host, Hosted(x)
    PROVE  host_timestamp(x) = x.height /\ x.height \in Nat \ {0}
<1>1. x.height \in Nat /\ x.host_consensus_states \in Seq(Nat)
  BY DEF Host
<1>2. PICK s, n : s = x.host_consensus_states /\ n = Len(s)
  OBVIOUS
<1>3. n \in Nat /\ n > 0 /\ n \in DOMAIN s /\ s[n] = x.height /\ x.height >= Start
  BY <1>1, <1>2, SMTT(60) DEF Hosted
<1>4. n - (x.height - x.height) = n
  BY <1>1, <1>3, SMTT(60)
<1>5. host_timestamp(x) = x.height
  BY <1>2, <1>3, <1>4 DEF host_timestamp, host_consensus_state
<1>. QED
  BY <1>1, <1>3, <1>5, SMTT(60) DEF ChainsAssumption

\* A header above every consensus state of the client is no misbehaviour.
LEMMA NewestBehaves ==
    ASSUME NEW k \in Client, NEW l \in Nat, k.latest < l,
           \A key \in k.consensus_states : key[2] <= k.latest
    PROVE  ~misbehaviour(k, l)
<1>1. k.latest \in Nat /\ k.consensus_states \in SUBSET HeightKeys
  BY DEF Client
<1>2. ASSUME NEW g \in prev_consensus_state(k, l) PROVE ~(l <= g)
  <2>1. PICK key \in k.consensus_states : g = key[2]
    BY <1>2 DEF prev_consensus_state
  <2>2. g \in Nat /\ g <= k.latest
    BY <1>1, <2>1 DEF HeightKeys
  <2>. QED
    BY <1>1, <2>2, SMTT(60)
<1>3. ~(l < k.latest)
  BY <1>1, SMTT(60)
<1>. QED
  BY <1>2, <1>3 DEF misbehaviour

\* The header brought along is taken in, and proofs at its height can be
\* verified from then on.
LEMMA NewestHeader ==
    ASSUME ChainsAssumption, NEW x \in Host, Hosted(x), NEW py, Tracks(x, py), Active(x),
           NEW l \in Nat, l \in DOMAIN py, \A h \in DOMAIN py : h <= l,
           EpochHeight(l) \in x.client.consensus_states => EpochHeight(l) \in x.client.updates,
           NEW r \in Run, r.x = x, ~r.err, NEW q, q = update_client(r, l)
    PROVE  /\ EpochHeight(l) \in x.client.consensus_states => Verifiable(x, l)
           /\ EpochHeight(l) \notin x.client.consensus_states =>
                  q \in Run /\ ~q.err /\ Still(x, q.x) /\ Verifiable(q.x, l)
<1>1. PICK k : k = x.client
  OBVIOUS
<1>2. k \in Client /\ Known(k, py) /\ ~k.frozen /\ ~expired(x, k.latest)
  BY <1>1 DEF Host, Tracks, Active
<1>3. k.latest \in Nat /\ k.consensus_states \in SUBSET HeightKeys /\ trusting_period \in Nat
  BY <1>2 DEF Client, ChainsAssumption, IbcAssumption
<1>4. host_timestamp(x) = x.height /\ x.height \in Nat \ {0}
  BY HostTime
<1>5. k.latest <= l /\ EpochHeight(k.latest) \in k.consensus_states
  BY <1>2 DEF Known
<1>6. \A h : EpochHeight(h)[2] = h
  BY DEF EpochHeight
<1>7. ASSUME EpochHeight(l) \in k.consensus_states
      PROVE  Verifiable(x, l)
  BY <1>1, <1>4, <1>7, SMTT(60) DEF Verifiable
<1>8. ASSUME EpochHeight(l) \notin k.consensus_states
      PROVE  q \in Run /\ ~q.err /\ Still(x, q.x) /\ Verifiable(q.x, l)
  <2>1. k.latest < l
    BY <1>3, <1>5, <1>8, SMTT(60)
  <2>2. \E key \in k.consensus_states : key[2] < l /\ ~expired(x, key[2])
    BY <1>2, <1>5, <1>6, <2>1
  <2>3. ~misbehaviour(k, l)
    BY <1>2, <1>3, <2>1, NewestBehaves DEF Known
  <2>4. PICK pruned : pruned = prune_oldest_consensus_state(x)
    OBVIOUS
  <2>5. PICK new : new = [store_update_meta(store_consensus_state(pruned, l), l)
                              EXCEPT !.latest = IF l > @ THEN l ELSE @]
    OBVIOUS
  <2>6. q = [r EXCEPT !.x.client = new]
    BY <1>1, <1>4, <1>8, <2>2, <2>3, <2>4, <2>5 DEF update_client
  <2>7. pruned \in Client /\ Known(pruned, py) /\ Explained(pruned, host_timestamp(x)) /\ pruned.latest = k.latest /\ ~pruned.frozen
    <3>1. pruned \in Client
      BY <1>1, <1>2, <2>4, PrunedClient DEF prune_oldest_consensus_state
    <3>. QED
      BY <1>1, <1>2, <2>4, <3>1, PrunedKnows
  <2>8. ~new.frozen /\ new.latest = l /\ EpochHeight(l) \in new.consensus_states \cap new.updates
    BY <1>3, <2>1, <2>5, <2>7, StoredKnows
  <2>9. q.x.client = new /\ ~q.err
    BY <2>6 DEF Run, Host
  <2>10. q \in Run /\ Still(x, q.x)
    BY UpdateIsStill
  <2>11. host_timestamp(q.x) = x.height
    BY <1>4, <2>10 DEF host_timestamp, host_consensus_state, Still, SameHeight
  <2>12. ~(x.height - l > trusting_period)
    BY <1>2, <1>3, <1>4, <2>1, SMTT(60) DEF expired
  <2>. QED
    BY <1>4, <2>8, <2>9, <2>10, <2>11, <2>12 DEF Verifiable, Active, expired
<1>. QED
  BY <1>1, <1>7, <1>8

-----------------------------------------------------------------------------
(* A new block, and the first one. *)

\* The packets on their way depend on what was sent, refunded and
\* acknowledged only.
LEMMA MissingStays ==
    ASSUME NEW x, NEW x2, NEW y, NEW y2, NEW denom,
           x2.sent = x.sent, x2.refunded = x.refunded, y2.acks = y.acks
    PROVE  Missing(x2, y2, denom) = Missing(x, y, denom)
  BY DEF Missing, Succeeded

\* The escrow backs the vouchers as long as neither coins nor packets
\* change.
LEMMA BackedStays ==
    ASSUME NEW x, NEW x2, NEW y, BothBacked(x, y),
           SameCoins(x, x2), x2.sent = x.sent, x2.refunded = x.refunded, x2.acks = x.acks
    PROVE  BothBacked(x2, y)
<1>1. \A d : Missing(x2, y, d) = Missing(x, y, d) /\ Missing(y, x2, d) = Missing(y, x, d)
  BY MissingStays, SMTT(60)
<1>. QED
  BY <1>1 DEF BothBacked, Backed, SameCoins

\* The commit of a block keeps both directions sound.
LEMMA CommitIsSound ==
    ASSUME ChainsAssumption, NEW x, NEW px, NEW y, NEW py, Committing(x, px), Committing(y, py),
           Sound(x, px, y, py), NEW px2,
           px2 = [h \in DOMAIN px \union {x.height} |->
                     IF h \in DOMAIN px THEN px[h] ELSE Committed(x)]
    PROVE  LET x2 == begin_block(x, x.height + 1)
           IN  Sound(x2, px2, y, py) /\ Committing(x2, px2)
<1>1. x \in Host /\ y \in Host
  BY DEF Committing
<1>2. x.height \in Nat /\ x.host_consensus_states \in Seq(Nat)
  BY <1>1 DEF Host
<1>3. PICK states : states = Append(x.host_consensus_states, x.height + 1)
  OBVIOUS
<1>4. states \in Seq(Nat) /\ Len(states) > 0
  BY <1>2, <1>3, SMTT(60)
<1>5. PICK kept : kept = IF Len(states) > MAX_HOST_CONSENSUS_STATES THEN Tail(states) ELSE states
  OBVIOUS
<1>6. kept \in Seq(Nat) /\ Len(kept) > 0 /\ kept[Len(kept)] = x.height + 1
  <2>1. states[Len(states)] = x.height + 1
    BY <1>2, <1>3, SMTT(60)
  <2>2. Tail(states) \in Seq(Nat) /\ Len(Tail(states)) = Len(states) - 1
    BY <1>4, SMTT(60)
  <2>3. ASSUME Len(states) > 1 PROVE Tail(states)[Len(states) - 1] = states[Len(states)]
    BY <1>4, <2>3, SMTT(60)
  <2>4. MAX_HOST_CONSENSUS_STATES \in Nat \ {0} /\ Len(states) \in Nat
    BY <1>4, SMTT(60) DEF ChainsAssumption, IbcAssumption
  <2>. QED
    BY <1>4, <1>5, <2>1, <2>2, <2>3, <2>4, SMTT(60)
<1>7. PICK x2 : x2 = [x EXCEPT !.height = x.height + 1, !.host_consensus_states = kept]
  OBVIOUS
<1>8. begin_block(x, x.height + 1) = x2
  BY <1>3, <1>5, <1>7 DEF begin_block
<1>9. x2 \in Host
  <2>1. x.height + 1 \in Nat
    BY <1>2, SMTT(60)
  <2>. QED
    BY <1>1, <1>6, <1>7, <2>1 DEF Host
<1>10. /\ x2.height = x.height + 1 /\ x2.sent = x.sent
       /\ x2.host_consensus_states = kept /\ x2.client = x.client
       /\ x2.next_sequence_send = x.next_sequence_send
       /\ SameCoins(x, x2) /\ SameReceipts(x, x2) /\ SameSends(x, x2)
  BY <1>1, <1>7 DEF Host, SameCoins, SameReceipts, SameSends, SameEnds
<1>11. /\ Committed(x) \in Proof /\ Committed(x).receipts = x.receipts
       /\ Committed(x).commitments = x.commitments /\ Committed(x).acks = x.acks
  <2>1. x.receipts \in SUBSET Nat /\ x.acks \in Seq(Ack) /\ x.commitments \in SUBSET Packet
    BY <1>1 DEF Host
  <2>. QED
    BY <2>1 DEF Committed, Proof
<1>12. \A h \in DOMAIN px2 : \/ h \in DOMAIN px /\ px2[h] = px[h]
                             \/ h = x.height /\ px2[h] = Committed(x)
  OBVIOUS
<1>13. Committing(x2, px2)
  <2>1. Acked(x2) /\ Acked(Committed(x))
    BY <1>10, <1>11, SMTT(60) DEF Committing, Acked, SameReceipts
  <2>2. ASSUME NEW h \in DOMAIN px2
        PROVE  h \in Nat /\ h < x2.height /\ px2[h] \in Proof /\ Acked(px2[h])
    <3>1. CASE h \in DOMAIN px /\ px2[h] = px[h]
      <4>1. h \in Nat /\ h < x.height /\ px[h] \in Proof /\ Acked(px[h])
        BY <3>1 DEF Committing
      <4>. QED
        BY <1>2, <1>10, <3>1, <4>1, SMTT(60)
    <3>2. CASE h = x.height /\ px2[h] = Committed(x)
      BY <1>2, <1>10, <1>11, <2>1, <3>2, SMTT(60)
    <3>. QED
      BY <1>12, <3>1, <3>2
  <2>3. x.height >= Start /\ Start \in Nat
    BY DEF Committing, Hosted, ChainsAssumption
  <2>4. Hosted(x2)
    BY <1>2, <1>6, <1>10, <2>3, SMTT(60) DEF Hosted
  <2>5. DOMAIN px2 = (Start - 1)..(x2.height - 1)
    <3>1. DOMAIN px2 = DOMAIN px \union {x.height} /\ DOMAIN px = (Start - 1)..(x.height - 1)
      BY DEF Committing
    <3>. QED
      BY <1>2, <1>10, <2>3, <3>1, SMTT(60)
  <2>. QED
    BY <1>9, <2>1, <2>2, <2>4, <2>5 DEF Committing
<1>14. Link(x2, px2, y, py)
  BY <1>1, <1>9, <1>10, <1>11, <1>12, LinkCommits, SMTT(60) DEF Sound, Linked
<1>15. Link(y, py, x2, px2)
  <2>1. x2.height >= x.height
    BY <1>2, <1>10, SMTT(60)
  <2>. QED
    BY <1>1, <1>9, <1>10, <1>11, <1>12, <2>1, LinkCommitted DEF Sound, Linked
<1>16. BothBacked(x2, y)
  BY <1>10, BackedStays DEF Sound, Linked, SameReceipts, SameSends, SameEnds
<1>17. Tracks(x2, py) /\ Tracks(y, px2)
  <2>1. DOMAIN px \subseteq DOMAIN px2
    OBVIOUS
  <2>2. Known(x2.client, py) /\ Known(y.client, px2)
    BY <1>10, <2>1 DEF Sound, Tracks, Known
  <2>3. host_timestamp(x) = x.height /\ host_timestamp(x2) = x.height + 1
    BY <1>1, <1>9, <1>10, <1>13, HostTime DEF Committing
  <2>4. ASSUME NEW key \in x.client.consensus_states \ x.client.updates
        PROVE  \E old \in x.client.consensus_states :
                   (x.height + 1) - old[2] > trusting_period /\ Begins(old[2], key[2])
    <3>1. PICK old \in x.client.consensus_states :
              x.height - old[2] > trusting_period /\ Begins(old[2], key[2])
      BY <2>3, <2>4 DEF Sound, Tracks, Explained
    <3>2. old[2] \in Nat /\ trusting_period \in Nat
      BY <1>1, <3>1 DEF Host, Client, HeightKeys, ChainsAssumption, IbcAssumption
    <3>3. (x.height + 1) - old[2] > trusting_period
      BY <1>2, <3>1, <3>2, SMTT(60)
    <3>. QED
      BY <3>1, <3>3
  <2>5. Explained(x.client, x.height + 1)
    BY <2>4 DEF Explained
  <2>6. Explained(x2.client, host_timestamp(x2))
    BY <1>10, <2>3, <2>5
  <2>. QED
    BY <2>2, <2>6 DEF Sound, Tracks
<1>. QED
  BY <1>8, <1>13, <1>14, <1>15, <1>16, <1>17 DEF Sound, Linked

Fresh(x) ==
    /\ x \in Host /\ x.height = Start /\ x.next_sequence_send = 1
    /\ x.host_consensus_states = <<Start>> /\ x.client = NewClient(Start - 1)
    /\ x.sent = <<>> /\ x.acks = <<>>
    /\ x.commitments = {} /\ x.receipts = {} /\ x.acknowledged = {} /\ x.refunded = {}
    /\ x.user = Fund /\ x.escrow = 0 /\ x.voucher = 0

\* A new chain is one without packets, ...
LEMMA FreshStart ==
    ASSUME ChainsAssumption
    PROVE  Fresh(NewHost(Start, NewClient(Start - 1)))
<1>1. Start \in Nat /\ Start - 1 \in Nat /\ Fund \in Nat
  BY SMTT(60) DEF ChainsAssumption, IbcAssumption
<1>2. EpochHeight(Start - 1) \in HeightKeys
  BY <1>1 DEF EpochHeight, HeightKeys
<1>3. NewClient(Start - 1) \in Client
  BY <1>1, <1>2 DEF NewClient, Client
<1>4. PICK k : k = NewClient(Start - 1)
  OBVIOUS
<1>5. <<Start>> \in Seq(Nat) /\ <<>> \in Seq(Ack) /\ <<>> \in Seq(Packet)
  BY <1>1, SMTT(60)
<1>6. NewHost(Start, k) \in Host
  BY <1>1, <1>3, <1>4, <1>5 DEF NewHost, Host
<1>. QED
  BY <1>4, <1>6 DEF NewHost, Fresh

\* ... and commits to none.
LEMMA FreshCommit ==
    ASSUME NEW x, Fresh(x)
    PROVE  Committed(x) \in Proof /\ Committed(x).commitments = {} /\ Committed(x).receipts = {}
<1>1. x.acks \in Seq(Ack) /\ x.receipts \in SUBSET Nat /\ x.commitments \in SUBSET Packet
  BY DEF Fresh, Host
<1>2. PICK a, b, d : a = x.commitments /\ b = x.receipts /\ d = x.acks
  OBVIOUS
<1>3. Committed(x) = [commitments |-> a, receipts |-> b, acks |-> d]
  BY <1>2 DEF Committed
<1>4. [commitments |-> a, receipts |-> b, acks |-> d] \in Proof
  BY <1>1, <1>2 DEF Proof
<1>. QED
  BY <1>2, <1>3, <1>4, SMTT(60) DEF Fresh

\* Two new chains are sound.
LEMMA FreshIsSound ==
    ASSUME Counting, NEW x, NEW px, NEW y, NEW py, Fresh(x), Fresh(y),
           \A h \in DOMAIN px : px[h].commitments = {},
           \A h \in DOMAIN py : py[h].commitments = {}, Fund \in Nat,
           Start \in Nat, Start - 1 \in DOMAIN px, Start - 1 \in DOMAIN py
    PROVE  Sound(x, px, y, py)
<1>1. Cardinality({}) = 0 /\ IsFiniteSet({})
  BY CountNone
<1>2. ASSUME NEW u, NEW pu, NEW v, NEW pv, Fresh(u), Fresh(v),
             \A h \in DOMAIN pu : pu[h].commitments = {}
      PROVE  Link(u, pu, v, pv)
  <2>1. u.sent = <<>> /\ u.next_sequence_send = 1 /\ u.commitments = {} /\ u.refunded = {}
    BY <1>2 DEF Fresh
  <2>2. v.acks = <<>> /\ v.receipts = {}
    BY <1>2 DEF Fresh
  <2>3. Numbered(u) /\ Refunds(u, v)
    BY <2>1, SMTT(60) DEF Numbered, Refunds
  <2>4. Acks(v)
    BY <1>1, <2>2, SMTT(60) DEF Acks
  <2>5. Receipts(u, v, pv)
    BY <2>2 DEF Receipts
  <2>6. Forgotten(u)
    <3>1. DOMAIN u.sent = {}
      BY <2>1, SMTT(60)
    <3>. QED
      BY <3>1 DEF Forgotten
  <2>. QED
    BY <1>2, <2>1, <2>3, <2>4, <2>5, <2>6 DEF Link
<1>3. Link(x, px, y, py) /\ Link(y, py, x, px)
  BY <1>2
<1>4. ASSUME NEW u, NEW v, Fresh(u), Fresh(v)
      PROVE  Backed(u, v)
  <2>1. u.sent = <<>> /\ v.sent = <<>>
    BY <1>4 DEF Fresh
  <2>2. \A d : Missing(u, v, d) = {} /\ Missing(v, u, d) = {}
    BY <2>1, SMTT(60) DEF Missing
  <2>3. u.user = Fund /\ u.escrow = 0 /\ v.voucher = 0
    BY <1>4 DEF Fresh
  <2>4. /\ Cardinality(Missing(u, v, "native")) = 0
        /\ Cardinality(Missing(v, u, "voucher")) = 0
    BY <1>1, <2>2
  <2>5. u.escrow = v.voucher + 0 + 0 /\ u.user + u.escrow = Fund
    BY <2>3, SMTT(60)
  <2>. QED
    BY <2>4, <2>5 DEF Backed
<1>5. BothBacked(x, y)
  BY <1>4 DEF BothBacked
<1>6. Tracks(x, py) /\ Tracks(y, px)
  <2>1. PICK k : k = NewClient(Start - 1)
    OBVIOUS
  <2>2. /\ k.latest = Start - 1 /\ k.consensus_states = {EpochHeight(Start - 1)}
        /\ k.updates = {EpochHeight(Start - 1)}
    BY <2>1 DEF NewClient
  <2>3. EpochHeight(Start - 1)[2] = Start - 1 /\ Start - 1 <= Start - 1
    BY SMTT(60) DEF EpochHeight
  <2>4. Known(k, px) /\ Known(k, py)
    BY <2>2, <2>3 DEF Known
  <2>5. \A t : Explained(k, t)
    BY <2>2 DEF Explained
  <2>. QED
    BY <2>1, <2>4, <2>5 DEF Tracks, Fresh
<1>. QED
  BY <1>3, <1>5, <1>6 DEF Sound, Linked

\* What it takes for a message to succeed.
LEMMA AckSucceeds ==
    ASSUME NEW r \in Run, ~r.err, NEW p \in Packet, NEW h \in Nat, NEW proof \in Proof,
           Verifiable(r.x, h), Acked(proof), p.sequence \in proof.receipts,
           NEW m, m.type = "ack", m.packet = p, m.height = h, m.proof = proof
    PROVE  ~deliver_message(r, m).err
<1>1. PICK q : q = acknowledge_packet(r, p, h, proof)
  OBVIOUS
<1>2. deliver_message(r, m) = q
  BY <1>1 DEF deliver_message
<1>3. \E a \in Range(proof.acks) : a.sequence = p.sequence
  BY SMTT(60) DEF Acked, Range
<1>4. ~q.err
  BY <1>1, <1>3, AckAcknowledges
<1>. QED
  BY <1>2, <1>4

\* A packet that is proved and not late is received without an error, ...
LEMMA RecvSucceeds ==
    ASSUME NEW r \in Run, ~r.err, NEW p \in Packet, NEW h \in Nat, NEW proof \in Proof,
           Verifiable(r.x, h), p \in proof.commitments, ~(r.x.height > p.timeout),
           NEW m, m.type = "recv", m.packet = p, m.height = h, m.proof = proof
    PROVE  ~deliver_message(r, m).err
<1>1. PICK q : q = recv_packet(r, p, h, proof)
  OBVIOUS
<1>2. deliver_message(r, m) = q
  BY <1>1 DEF deliver_message
<1>3. ~q.err
  BY <1>1, RecvReceives
<1>. QED
  BY <1>2, <1>3

\* ... one that is proved missing and late times out without one, if there
\* is a coin in escrow for it, ...
LEMMA TimeoutSucceeds ==
    ASSUME NEW r \in Run, ~r.err, NEW p \in Packet, NEW h \in Nat, NEW proof \in Proof,
           Verifiable(r.x, h), p.sequence \notin proof.receipts, ~(h <= p.timeout),
           ~(p.denom = "native" /\ r.x.escrow = 0),
           NEW m, m.type = "timeout", m.packet = p, m.height = h, m.proof = proof
    PROVE  ~deliver_message(r, m).err
<1>1. PICK q : q = timeout_packet(r, p, h, proof)
  OBVIOUS
<1>2. deliver_message(r, m) = q
  BY <1>1 DEF deliver_message
<1>3. ~q.err
  BY <1>1, TimeoutTimesOut
<1>. QED
  BY <1>2, <1>3

\* ... and so it is after an update of the client in the same batch.
LEMMA BatchSucceeds ==
    ASSUME NEW x, NEW m, NEW h, NEW r, r = [x |-> x, err |-> FALSE], ~update_client(r, h).err
    PROVE  deliver(x, <<Update(h), m>>) = deliver_message(update_client(r, h), m)
<1>1. PICK messages, q : messages = <<Update(h), m>> /\ q = update_client(r, h)
  OBVIOUS
<1>2. messages[1] = Update(h) /\ messages[2] = m /\ Len(messages) = 2
  BY <1>1
<1>3. deliver_message(r, Update(h)) = q
  BY <1>1 DEF deliver_message, Update
<1>4. deliver(x, messages) = deliver_message(q, m)
  BY <1>1, <1>2, <1>3, SMTT(60) DEF deliver
<1>. QED
  BY <1>1, <1>4
================================================================================
