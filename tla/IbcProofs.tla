-------------------------------- MODULE IbcProofs ------------------------------
(* The inductive invariant of two chains and their relayers, that every step   *)
(* keeps it, and that it leaves no packet stuck: ReceivedOrRefunded,           *)
(* EscrowBacksVouchers and NoPacketIsStuck, for any number of transfers,       *)
(* blocks, timeouts and relayers.                                              *)
EXTENDS IbcSteps, FiniteSetTheorems

USE ZenonT(60)

-----------------------------------------------------------------------------
(* The packets that are missing, as each kind of step changes them. *)

\* The packets on their way can be counted.
LEMMA MissingIsFinite ==
    ASSUME Counting, NEW x \in Host, NEW y, NEW denom
    PROVE  /\ IsFiniteSet(Missing(x, y, denom)) /\ Cardinality(Missing(x, y, denom)) \in Nat
           /\ \A i \in Missing(x, y, denom) : Cardinality(Missing(x, y, denom)) > 0
<1>1. x.sent \in Seq(Packet)
  BY DEF Host
<1>2. PICK S : S = Missing(x, y, denom)
  OBVIOUS
<1>3. S \in SUBSET (1..Len(x.sent)) /\ Len(x.sent) \in Nat
  BY <1>1, <1>2, SMTT(60) DEF Missing
<1>4. IsFiniteSet(S) /\ Cardinality(S) \in Nat /\ (Cardinality(S) = 0 => S = {})
  BY <1>3, CountInterval
<1>. QED
  BY <1>2, <1>4, SMTT(60)

\* The sequence number of a successful acknowledgement has a receipt.
LEMMA SuccessHasReceipt ==
    ASSUME NEW y \in Host, Acks(y), NEW p, Succeeded(y, p)
    PROVE  p.sequence \in y.receipts
<1>1. PICK i \in DOMAIN y.acks : y.acks[i] = [sequence |-> p.sequence, ack |-> "success"]
  BY DEF Succeeded, Range
<1>2. y.acks[i].sequence = p.sequence
  BY <1>1, SMTT(60)
<1>. QED
  BY <1>2 DEF Acks

\* A packet that was not received is backed by what was escrowed for it.
LEMMA EscrowCovers ==
    ASSUME Counting, NEW x \in Host, NEW y \in Host, NEW px, NEW py, Link(x, px, y, py), Backed(x, y),
           NEW p \in x.commitments, p.sequence \notin y.receipts, p.denom = "native"
    PROVE  x.escrow > 0
<1>1. PICK n : n = p.sequence
  OBVIOUS
<1>2. n \in DOMAIN x.sent /\ x.sent[n] = p
  BY <1>1 DEF IsSent, Link
<1>3. n \notin x.refunded
  BY <1>2 DEF Link, Refunds
<1>4. ~Succeeded(y, p)
  BY SuccessHasReceipt DEF Link
<1>5. n \in Missing(x, y, "native")
  BY <1>1, <1>2, <1>3, <1>4 DEF Missing
<1>6. PICK a, b : a = Cardinality(Missing(x, y, "native")) /\ b = Cardinality(Missing(y, x, "voucher"))
  OBVIOUS
<1>7. a \in Nat /\ b \in Nat /\ a > 0
  BY <1>5, <1>6, MissingIsFinite
<1>8. x.escrow = y.voucher + a + b
  BY <1>6 DEF Backed
<1>9. y.voucher \in Nat
  BY Coins
<1>. QED
  BY <1>7, <1>8, <1>9, SMTT(60)

\* A packet whose timeout has passed without it, as the newest header of the
\* other chain shows, was not received, and its coins can be given back.
LEMMA NotReceived ==
    ASSUME Counting, NEW x, NEW px, NEW y, NEW py,
           Committing(x, px), Committing(y, py), Sound(x, px, y, py),
           NEW p \in x.commitments, NEW l \in Nat, l - 1 \in DOMAIN py, l > p.timeout,
           p.sequence \notin py[l - 1].receipts
    PROVE  p.denom = "native" => x.escrow > 0
<1>1. x \in Host /\ y \in Host
  BY DEF Committing
<1>2. Link(x, px, y, py) /\ Backed(x, y)
  BY DEF Sound, Linked, BothBacked
<1>3. x.commitments \in SUBSET Packet
  BY <1>1 DEF Host
<1>4. p.sequence \notin y.receipts
  BY <1>1, <1>2, <1>3, AbsentReceipt
<1>. QED
  BY <1>1, <1>2, <1>4, EscrowCovers

\* Sending a packet puts one more on its way.
LEMMA SendMisses ==
    ASSUME Counting, NEW x \in Host, NEW x2 \in Host, NEW y \in Host, NEW px, NEW py,
           Link(x, px, y, py), NEW p \in Packet, Sends(x, x2, p), NEW denom
    PROVE  Cardinality(Missing(x2, y, denom)) =
               Cardinality(Missing(x, y, denom)) + IF p.denom = denom THEN 1 ELSE 0
<1>1. x.sent \in Seq(Packet) /\ x2.sent = Append(x.sent, p) /\ p.sequence = Len(x.sent) + 1
  <2>1. x.sent \in Seq(Packet)
    BY DEF Host
  <2>. QED
    BY <2>1 DEF Sends, Link, Numbered
<1>2. PICK n : n = Len(x.sent) + 1
  OBVIOUS
<1>3. /\ DOMAIN x2.sent = DOMAIN x.sent \union {n}
      /\ x2.sent[n] = p /\ \A i \in DOMAIN x.sent : x2.sent[i] = x.sent[i]
      /\ n \notin DOMAIN x.sent
  BY <1>1, <1>2, SMTT(60)
<1>4. x2.refunded = x.refunded /\ p.sequence = n /\ n \notin x.refunded /\ n \notin y.receipts
  BY <1>1, <1>2, <1>3 DEF Sends, SameEnds, Link, Refunds, Receipts
<1>5. ~Succeeded(y, p)
  BY <1>4, SuccessHasReceipt DEF Link
<1>6. PICK S : S = Missing(x, y, denom)
  OBVIOUS
<1>7. Missing(x2, y, denom) = IF p.denom = denom THEN S \union {n} ELSE S
  <2>1. \A i \in DOMAIN x.sent : i \in Missing(x2, y, denom) <=> i \in Missing(x, y, denom)
    BY <1>3, <1>4 DEF Missing
  <2>2. n \in Missing(x2, y, denom) <=> p.denom = denom
    BY <1>3, <1>4, <1>5 DEF Missing
  <2>3. Missing(x2, y, denom) \subseteq DOMAIN x.sent \union {n} /\ S \subseteq DOMAIN x.sent
    BY <1>3, <1>6 DEF Missing
  <2>. QED
    BY <1>3, <1>6, <2>1, <2>2, <2>3, SMTT(60)
<1>8. IsFiniteSet(S) /\ Cardinality(S) \in Nat /\ n \notin S
  <2>1. IsFiniteSet(S) /\ Cardinality(S) \in Nat
    BY <1>6, MissingIsFinite
  <2>2. S \subseteq DOMAIN x.sent
    BY <1>6 DEF Missing
  <2>. QED
    BY <1>3, <2>1, <2>2
<1>9. Cardinality(S \union {n}) = Cardinality(S) + 1
  BY <1>8, CountAdd
<1>. QED
  BY <1>6, <1>7, <1>8, <1>9, SMTT(60)

\* The elements of a sequence with one more.
LEMMA AppendRange ==
    ASSUME NEW T, NEW s \in Seq(T), NEW a \in T
    PROVE  Range(Append(s, a)) = Range(s) \union {a}
<1>1. PICK t : t = Append(s, a)
  OBVIOUS
<1>2. /\ DOMAIN t = DOMAIN s \union {Len(s) + 1} /\ t[Len(s) + 1] = a
      /\ \A i \in DOMAIN s : t[i] = s[i]
  BY <1>1, SMTT(60)
<1>3. {t[i] : i \in DOMAIN t} = {s[i] : i \in DOMAIN s} \union {a}
  BY <1>2, SMTT(60)
<1>. QED
  BY <1>1, <1>3 DEF Range

\* A packet received with success is no longer on its way; with an error it
\* stays lost to its sender.
LEMMA ReceiveFinds ==
    ASSUME Counting, NEW x \in Host, NEW y \in Host, NEW y2 \in Host, NEW px, NEW py,
           Link(x, px, y, py), NEW p \in Packet, IsSent(x, p), Receives(y, y2, p), NEW denom
    PROVE  /\ y2.acks = Append(y.acks, AckOf(p, "error")) =>
                  Missing(x, y2, denom) = Missing(x, y, denom)
           /\ y2.acks = Append(y.acks, AckOf(p, "success")) =>
                  Cardinality(Missing(x, y2, denom)) =
                      Cardinality(Missing(x, y, denom)) - IF p.denom = denom THEN 1 ELSE 0
<1>0. y.acks \in Seq(Ack) /\ p.sequence \in Nat /\ p.timeout \in Nat /\ y.height \in Nat
  BY DEF Host, Packet
<1>1. \A a \in Ack : Range(Append(y.acks, a)) = Range(y.acks) \union {a}
  BY <1>0, AppendRange
<1>2. ASSUME y2.acks = Append(y.acks, AckOf(p, "error"))
      PROVE  Missing(x, y2, denom) = Missing(x, y, denom)
  <2>1. \A q : [sequence |-> q.sequence, ack |-> "success"] # AckOf(p, "error")
    BY DEF AckOf
  <2>2. \A q : Succeeded(y2, q) <=> Succeeded(y, q)
    <3>1. AckOf(p, "error") \in Ack
      BY <1>0 DEF AckOf, Ack
    <3>. QED
      BY <1>1, <1>2, <2>1, <3>1, SMTT(60) DEF Succeeded
  <2>. QED
    BY <2>2 DEF Missing
<1>3. ASSUME y2.acks = Append(y.acks, AckOf(p, "success"))
      PROVE  Cardinality(Missing(x, y2, denom)) =
                 Cardinality(Missing(x, y, denom)) - IF p.denom = denom THEN 1 ELSE 0
  <2>1. PICK n : n = p.sequence
    OBVIOUS
  <2>2. n \in DOMAIN x.sent /\ x.sent[n] = p /\ \A i \in DOMAIN x.sent : x.sent[i].sequence = i
    BY <2>1 DEF IsSent, Link, Numbered
  <2>3. \A q : [sequence |-> q.sequence, ack |-> "success"] = AckOf(p, "success") <=> q.sequence = n
    BY <2>1 DEF AckOf
  <2>4. \A q : Succeeded(y2, q) <=> Succeeded(y, q) \/ q.sequence = n
    <3>1. AckOf(p, "success") \in Ack
      BY <1>0 DEF AckOf, Ack
    <3>. QED
      BY <1>1, <1>3, <2>3, <3>1, SMTT(60) DEF Succeeded
  <2>5. ~Succeeded(y, p)
    BY SuccessHasReceipt DEF Link, Receives
  <2>6. n \notin x.refunded
    BY <1>0, <2>1, <2>2, SMTT(60) DEF Link, Refunds, Receives
  <2>7. PICK S : S = Missing(x, y, denom)
    OBVIOUS
  <2>8. n \in S <=> p.denom = denom
    BY <2>1, <2>2, <2>5, <2>6, <2>7 DEF Missing
  <2>9. Missing(x, y2, denom) = S \ {n}
    BY <2>2, <2>4, <2>7 DEF Missing
  <2>10. IsFiniteSet(S) /\ Cardinality(S) \in Nat
    BY <2>7, MissingIsFinite
  <2>11. Cardinality(S \ {n}) = IF n \in S THEN Cardinality(S) - 1 ELSE Cardinality(S)
    BY <2>10, CountRemove
  <2>. QED
    BY <2>7, <2>8, <2>9, <2>10, <2>11, SMTT(60)
<1>. QED
  BY <1>2, <1>3

\* A packet that timed out is no longer on its way, and it was.
LEMMA TimeoutFinds ==
    ASSUME Counting, NEW x \in Host, NEW x2 \in Host, NEW y \in Host, NEW px, NEW py,
           Link(x, px, y, py), NEW p \in Packet, TimesOut(x, x2, p),
           p.sequence \notin y.receipts, NEW denom
    PROVE  /\ Cardinality(Missing(x2, y, denom)) =
                  Cardinality(Missing(x, y, denom)) - IF p.denom = denom THEN 1 ELSE 0
           /\ p.denom = denom => Cardinality(Missing(x, y, denom)) > 0
<1>1. PICK n : n = p.sequence
  OBVIOUS
<1>2. n \in DOMAIN x.sent /\ x.sent[n] = p /\ \A i \in DOMAIN x.sent : x.sent[i].sequence = i
  BY <1>1 DEF IsSent, Link, Numbered, TimesOut, Ends
<1>3. n \notin x.refunded
  BY <1>2 DEF Link, Refunds, TimesOut, Ends
<1>4. ~Succeeded(y, p)
  BY SuccessHasReceipt DEF Link
<1>5. x2.sent = x.sent /\ x2.refunded = x.refunded \union {n}
  BY <1>1 DEF TimesOut, Ends, SameBlock, SameHeight
<1>6. PICK S : S = Missing(x, y, denom)
  OBVIOUS
<1>7. n \in S <=> p.denom = denom
  BY <1>1, <1>2, <1>3, <1>4, <1>6 DEF Missing
<1>8. Missing(x2, y, denom) = S \ {n}
  BY <1>2, <1>5, <1>6 DEF Missing
<1>9. IsFiniteSet(S) /\ Cardinality(S) \in Nat /\ (n \in S => Cardinality(S) > 0)
  BY <1>6, MissingIsFinite
<1>10. Cardinality(S \ {n}) = IF n \in S THEN Cardinality(S) - 1 ELSE Cardinality(S)
  BY <1>9, CountRemove
<1>. QED
  BY <1>6, <1>7, <1>8, <1>9, <1>10, SMTT(60)

-----------------------------------------------------------------------------
(* What backs the vouchers, in both directions, as each kind of step changes *)
(* it.                                                                     *)

\* The escrow backs the vouchers when a packet is sent, ...
LEMMA BackedSends ==
    ASSUME Counting, NEW x \in Host, NEW x2 \in Host, NEW y \in Host, NEW px, NEW py,
           Link(x, px, y, py), BothBacked(x, y), NEW p \in Packet, Sends(x, x2, p)
    PROVE  BothBacked(x2, y)
<1>1. \A d : Missing(y, x2, d) = Missing(y, x, d)
  BY MissingStays, SMTT(60) DEF Sends, SameReceipts
<1>2. \A d \in {"native", "voucher"} :
          Cardinality(Missing(x2, y, d)) =
              Cardinality(Missing(x, y, d)) + IF p.denom = d THEN 1 ELSE 0
  BY SendMisses, SMTT(60)
<1>3. PICK a, b : a = Cardinality(Missing(x, y, "native")) /\ b = Cardinality(Missing(x, y, "voucher"))
  OBVIOUS
<1>4. PICK e, f : e = Cardinality(Missing(y, x, "native")) /\ f = Cardinality(Missing(y, x, "voucher"))
  OBVIOUS
<1>5. {a, b, e, f} \subseteq Nat
  BY <1>3, <1>4, MissingIsFinite
<1>6. /\ x.escrow = y.voucher + a + f /\ y.escrow = x.voucher + e + b
      /\ x.user + x.escrow = Fund /\ y.user + y.escrow = Fund
  BY <1>3, <1>4 DEF BothBacked, Backed
<1>7. {x.user, x.escrow, x.voucher, y.user, y.escrow, y.voucher} \subseteq Nat
  BY Coins
<1>8. CASE p.denom = "native"
  <2>1. Cardinality(Missing(x2, y, "native")) = a + 1 /\ Cardinality(Missing(x2, y, "voucher")) = b
    BY <1>2, <1>3, <1>5, <1>8, SMTT(60)
  <2>2. /\ x2.escrow = y.voucher + (a + 1) + f /\ y.escrow = x2.voucher + e + b
        /\ x2.user + x2.escrow = Fund
    <3>1. x2.user = x.user - 1 /\ x2.escrow = x.escrow + 1 /\ x2.voucher = x.voucher
      BY <1>8 DEF Sends
    <3>. QED
      BY <1>5, <1>6, <1>7, <3>1, SMTT(60)
  <2>. QED
    BY <1>1, <1>4, <1>6, <2>1, <2>2 DEF BothBacked, Backed
<1>9. CASE p.denom = "voucher"
  <2>1. Cardinality(Missing(x2, y, "native")) = a /\ Cardinality(Missing(x2, y, "voucher")) = b + 1
    BY <1>2, <1>3, <1>5, <1>9, SMTT(60)
  <2>2. /\ x2.escrow = y.voucher + a + f /\ y.escrow = x2.voucher + e + (b + 1)
        /\ x2.user + x2.escrow = Fund
    <3>1. x2.user = x.user /\ x2.escrow = x.escrow /\ x2.voucher = x.voucher - 1
      BY <1>9 DEF Sends
    <3>. QED
      BY <1>5, <1>6, <1>7, <3>1, SMTT(60)
  <2>. QED
    BY <1>1, <1>4, <1>6, <2>1, <2>2 DEF BothBacked, Backed
<1>. QED
  BY <1>8, <1>9 DEF Packet

\* ... when it is received ...
LEMMA BackedReceives ==
    ASSUME Counting, NEW x \in Host, NEW y \in Host, NEW y2 \in Host, NEW px, NEW py,
           Link(x, px, y, py), BothBacked(x, y), NEW p \in Packet, IsSent(x, p),
           Receives(y, y2, p)
    PROVE  BothBacked(x, y2)
<1>1. \A d : Missing(y2, x, d) = Missing(y, x, d)
  BY MissingStays, SMTT(60) DEF Receives, SameBlock, SameHeight, SameSends, SameEnds
<1>2. CASE y2.acks = Append(y.acks, AckOf(p, "error")) /\ SameCoins(y, y2)
  <2>1. \A d : Missing(x, y2, d) = Missing(x, y, d)
    BY <1>2, ReceiveFinds, SMTT(60)
  <2>. QED
    BY <1>1, <1>2, <2>1 DEF BothBacked, Backed, SameCoins
<1>3. CASE /\ y2.acks = Append(y.acks, AckOf(p, "success"))
           /\ p.denom = "native" => Minted(y, y2)
           /\ p.denom = "voucher" => Unescrowed(y, y2)
  <2>2. \A d \in {"native", "voucher"} :
            Cardinality(Missing(x, y2, d)) =
                Cardinality(Missing(x, y, d)) - IF p.denom = d THEN 1 ELSE 0
    BY <1>3, ReceiveFinds, SMTT(60)
  <2>3. PICK a, b : a = Cardinality(Missing(x, y, "native")) /\ b = Cardinality(Missing(x, y, "voucher"))
    OBVIOUS
  <2>4. PICK e, f : e = Cardinality(Missing(y, x, "native")) /\ f = Cardinality(Missing(y, x, "voucher"))
    OBVIOUS
  <2>5. {a, b, e, f} \subseteq Nat
    BY <2>3, <2>4, MissingIsFinite
  <2>6. /\ x.escrow = y.voucher + a + f /\ y.escrow = x.voucher + e + b
        /\ x.user + x.escrow = Fund /\ y.user + y.escrow = Fund
    BY <2>3, <2>4 DEF BothBacked, Backed
  <2>7. {x.user, x.escrow, x.voucher, y.user, y.escrow, y.voucher} \subseteq Nat
    BY Coins
  <2>8. CASE p.denom = "native"
    <3>1. Cardinality(Missing(x, y2, "native")) = a - 1 /\ Cardinality(Missing(x, y2, "voucher")) = b
      BY <2>2, <2>3, <2>5, <2>8, SMTT(60)
    <3>2. /\ x.escrow = y2.voucher + (a - 1) + f /\ y2.escrow = x.voucher + e + b
          /\ y2.user + y2.escrow = Fund
      <4>1. Minted(y, y2)
        BY <1>3, <2>8
      <4>. QED
        BY <2>5, <2>6, <2>7, <4>1, SMTT(60) DEF Minted
    <3>. QED
      BY <1>1, <2>4, <2>6, <3>1, <3>2 DEF BothBacked, Backed
  <2>9. CASE p.denom = "voucher"
    <3>1. Cardinality(Missing(x, y2, "native")) = a /\ Cardinality(Missing(x, y2, "voucher")) = b - 1
      BY <2>2, <2>3, <2>5, <2>9, SMTT(60)
    <3>2. /\ x.escrow = y2.voucher + a + f /\ y2.escrow = x.voucher + e + (b - 1)
          /\ y2.user + y2.escrow = Fund
      <4>1. Unescrowed(y, y2)
        BY <1>3, <2>9
      <4>. QED
        BY <2>5, <2>6, <2>7, <4>1, SMTT(60) DEF Unescrowed
    <3>. QED
      BY <1>1, <2>4, <2>6, <3>1, <3>2 DEF BothBacked, Backed
  <2>. QED
    BY <2>8, <2>9 DEF Packet
<1>. QED
  BY <1>2, <1>3 DEF Receives

\* ... and when it times out.
LEMMA BackedTimesOut ==
    ASSUME Counting, NEW x \in Host, NEW x2 \in Host, NEW y \in Host, NEW px, NEW py,
           Link(x, px, y, py), BothBacked(x, y), NEW p \in Packet, TimesOut(x, x2, p),
           p.sequence \notin y.receipts
    PROVE  BothBacked(x2, y)
<1>1. \A d : Missing(y, x2, d) = Missing(y, x, d)
  BY MissingStays, SMTT(60) DEF TimesOut, Ends, SameReceipts
<1>2. \A d : /\ Cardinality(Missing(x2, y, d)) =
                    Cardinality(Missing(x, y, d)) - IF p.denom = d THEN 1 ELSE 0
             /\ p.denom = d => Cardinality(Missing(x, y, d)) > 0
  BY TimeoutFinds, SMTT(60)
<1>3. \A d : Cardinality(Missing(x, y, d)) \in Nat /\ Cardinality(Missing(y, x, d)) \in Nat
  BY MissingIsFinite
<1>4. p.denom \in {"native", "voucher"}
  BY DEF Packet
<1>5. {x.user, x.escrow, x.voucher, y.user, y.escrow, y.voucher} \subseteq Nat
  BY Coins
<1>6. p.denom = "native" => Unescrowed(x, x2)
  BY <1>2, <1>3, <1>5, SMTT(60) DEF BothBacked, Backed, TimesOut
<1>7. CASE p.denom = "native"
  BY <1>1, <1>2, <1>3, <1>5, <1>6, <1>7, SMTT(60) DEF BothBacked, Backed, Unescrowed
<1>8. CASE p.denom = "voucher"
  BY <1>1, <1>2, <1>3, <1>5, <1>8, SMTT(60) DEF BothBacked, Backed, TimesOut, Minted
<1>. QED
  BY <1>4, <1>7, <1>8

-----------------------------------------------------------------------------
(* A step of a chain, or a batch of messages, keeps both directions sound. *)

\* So a step of a chain keeps both directions sound, ...
LEMMA SoundSteps ==
    ASSUME Counting, NEW x, NEW px, NEW y, NEW py, Committing(x, px), Committing(y, py),
           Sound(x, px, y, py), NEW x2 \in Host, Steps(x, x2, y, py)
    PROVE  Sound(x2, px, y, py) /\ Committing(x2, px)
<1>1. x \in Host /\ y \in Host /\ x.height \in Nat
  <2>1. x \in Host /\ y \in Host
    BY DEF Committing
  <2>. QED
    BY <2>1 DEF Host
<1>. Linked(x, px, y, py)
  BY DEF Sound
<1>2. x2.height = x.height /\ x2.host_consensus_states = x.host_consensus_states
  BY DEF Steps, Moves, Still, SameBlock, SameHeight, Sends, Receives, Acknowledges, TimesOut,
     Ends
<1>3. Committing(x2, px)
  <2>1. Acked(x2)
    <3>1. CASE SameReceipts(x, x2)
      BY <3>1, SMTT(60) DEF Committing, Acked, SameReceipts
    <3>2. ASSUME NEW p \in Packet, Receives(x, x2, p)
          PROVE  Acked(x2)
      <4>1. /\ x2.receipts = x.receipts \union {p.sequence}
            /\ \E ack : x2.acks = Append(x.acks, AckOf(p, ack))
        BY <3>2 DEF Receives
      <4>. QED
        BY <1>1, <4>1, AckedAppend DEF Committing
    <3>. QED
      BY <3>1, <3>2 DEF Steps, Moves, Still, Sends, Acknowledges, TimesOut, Ends
  <2>. QED
    BY <1>2, <2>1 DEF Committing, Hosted
<1>4. ASSUME Still(x, x2)
      PROVE  Linked(x2, px, y, py)
  <2>1. BothBacked(x2, y)
    BY <1>4, BackedStays DEF Linked, Still, SameBlock, SameHeight, SameReceipts, SameSends, SameEnds
  <2>2. Link(x2, px, y, py) /\ Link(y, py, x2, px)
    <3>1. /\ x2.sent = x.sent /\ x2.next_sequence_send = x.next_sequence_send
          /\ SameSends(x, x2) /\ SameReceipts(x, x2) /\ SameReceipts(y, y) /\ SameSends(y, y)
      BY <1>4 DEF Still, SameBlock, SameHeight, SameReceipts, SameSends, SameEnds
    <3>. QED
      BY <1>1, <1>2, <3>1, LinkHere, LinkThere DEF Linked
  <2>. QED
    BY <2>1, <2>2 DEF Linked
<1>5. ASSUME NEW p \in Packet, Sends(x, x2, p)
      PROVE  Linked(x2, px, y, py)
  <2>1. BothBacked(x2, y)
    BY <1>1, <1>5, BackedSends DEF Linked
  <2>2. Link(x2, px, y, py)
    BY <1>1, <1>5, LinkSends DEF Linked
  <2>3. SameReceipts(x, x2)
    BY <1>5 DEF Sends
  <2>4. Link(y, py, x2, px)
    BY <1>1, <1>2, <2>3, LinkThere DEF Linked
  <2>. QED
    BY <2>1, <2>2, <2>4 DEF Linked
<1>6. ASSUME NEW p \in Packet, IsSent(y, p), Receives(x, x2, p)
      PROVE  Linked(x2, px, y, py)
  <2>0. BothBacked(y, x)
    BY DEF Linked, BothBacked
  <2>1. BothBacked(y, x2)
    BY <1>1, <1>6, <2>0, BackedReceives DEF Linked
  <2>2. Link(y, py, x2, px)
    BY <1>1, <1>6, LinkReceives DEF Linked, Committing
  <2>3. /\ SameSends(x, x2) /\ x2.sent = x.sent
        /\ x2.next_sequence_send = x.next_sequence_send
    BY <1>6 DEF Receives, SameBlock, SameHeight
  <2>4. Link(x2, px, y, py)
    BY <1>1, <2>3, LinkHere DEF Linked
  <2>. QED
    BY <2>1, <2>2, <2>4 DEF Linked, BothBacked
<1>7. ASSUME NEW p \in Packet, Ends(x, x2, p), BothBacked(x2, y),
             \/ x2.refunded = x.refunded
             \/ /\ x2.refunded = x.refunded \union {p.sequence}
                /\ p.sequence \notin y.receipts /\ p.timeout < y.height
      PROVE  Linked(x2, px, y, py)
  <2>1. Link(x2, px, y, py)
    BY <1>1, <1>7, LinkEnds DEF Linked
  <2>2. SameReceipts(x, x2)
    BY <1>7 DEF Ends
  <2>3. Link(y, py, x2, px)
    BY <1>1, <1>2, <2>2, LinkThere DEF Linked
  <2>. QED
    BY <1>7, <2>1, <2>3 DEF Linked
<1>8. ASSUME NEW p \in Packet, Acknowledges(x, x2, p)
      PROVE  Linked(x2, px, y, py)
  <2>1. /\ Ends(x, x2, p) /\ x2.refunded = x.refunded /\ SameCoins(x, x2)
        /\ x2.sent = x.sent /\ x2.acks = x.acks
    BY <1>8 DEF Acknowledges, Ends, SameBlock, SameHeight, SameReceipts
  <2>2. BothBacked(x2, y)
    BY <2>1, BackedStays DEF Linked
  <2>. QED
    BY <1>7, <2>1, <2>2
<1>9. ASSUME NEW p \in Packet, p.sequence \notin y.receipts, p.timeout < y.height,
             TimesOut(x, x2, p)
      PROVE  Linked(x2, px, y, py)
  <2>1. Ends(x, x2, p) /\ x2.refunded = x.refunded \union {p.sequence}
    BY <1>9 DEF TimesOut
  <2>2. BothBacked(x2, y)
    BY <1>1, <1>9, BackedTimesOut DEF Linked
  <2>. QED
    BY <1>7, <1>9, <2>1, <2>2
<1>10. Linked(x2, px, y, py)
  BY <1>4, <1>5, <1>6, <1>8, <1>9 DEF Steps, Moves
<1>. QED
  BY <1>3, <1>10 DEF Sound, Steps

\* A batch of a message, or of an update and a message.
IsBatch(messages, py) ==
    \E type \in {"recv", "ack", "timeout"}, p \in Packet, h \in DOMAIN py :
        LET m == [type |-> type, packet |-> p, height |-> h, proof |-> py[h - 1]]
        IN  h - 1 \in DOMAIN py /\ messages \in {<<m>>, <<Update(h), m>>}

\* ... so does a batch of an update and a message, whatever fails in it, ...
LEMMA BatchIsSound ==
    ASSUME Counting, NEW x, NEW px, NEW y, NEW py, Committing(x, px), Committing(y, py),
           Sound(x, px, y, py), NEW messages, IsBatch(messages, py)
    PROVE  LET x2 == deliver(x, messages).x
           IN  Sound(x2, px, y, py) /\ Committing(x2, px)
<1>a. PICK type \in {"recv", "ack", "timeout"}, p \in Packet, h \in DOMAIN py :
          \E m : /\ m = [type |-> type, packet |-> p, height |-> h, proof |-> py[h - 1]]
                 /\ h - 1 \in DOMAIN py /\ messages \in {<<m>>, <<Update(h), m>>}
  BY DEF IsBatch
<1>0. PICK m : /\ m = [type |-> type, packet |-> p, height |-> h, proof |-> py[h - 1]]
               /\ h - 1 \in DOMAIN py /\ messages \in {<<m>>, <<Update(h), m>>}
  BY <1>a
<1>1. PICK r : r = [x |-> x, err |-> FALSE]
  OBVIOUS
<1>2. r \in Run /\ r.x = x
  BY <1>1 DEF Run, Committing
<1>3. h \in Nat
  BY DEF Committing
<1>4. CASE messages = <<m>>
  <2>1. deliver(x, messages) = deliver_message(r, m)
    BY <1>1, <1>4 DEF deliver
  <2>2. PICK q : q = deliver_message(r, m)
    OBVIOUS
  <2>3. q \in Run /\ Steps(x, q.x, y, py)
    BY <1>0, <1>2, <2>2, MessageSteps
  <2>4. q.x \in Host
    BY <2>3 DEF Run
  <2>. QED
    BY <2>1, <2>2, <2>3, <2>4, SoundSteps
<1>5. CASE messages = <<Update(h), m>>
  <2>1. PICK q : q = update_client(r, h)
    OBVIOUS
  <2>2. q \in Run /\ Steps(x, q.x, y, py) /\ deliver_message(r, Update(h)) = q
    BY <1>2, <1>3, <2>1, UpdateSteps
  <2>3. q.x \in Host
    BY <2>2 DEF Run
  <2>4. Sound(q.x, px, y, py) /\ Committing(q.x, px)
    BY <2>2, <2>3, SoundSteps
  <2>5. messages[1] = Update(h) /\ messages[2] = m /\ Len(messages) = 2
    BY <1>5
  <2>6. deliver(x, messages) = IF q.err THEN q ELSE deliver_message(q, m)
    BY <1>1, <2>2, <2>5, SMTT(60) DEF deliver
  <2>7. PICK s : s = deliver_message(q, m)
    OBVIOUS
  <2>8. s \in Run /\ Steps(q.x, s.x, y, py)
    BY <1>0, <2>2, <2>4, <2>7, MessageSteps
  <2>9. s.x \in Host
    BY <2>8 DEF Run
  <2>10. Sound(s.x, px, y, py) /\ Committing(s.x, px)
    BY <2>4, <2>8, <2>9, SoundSteps
  <2>. QED
    BY <2>4, <2>6, <2>7, <2>10
<1>. QED
  BY <1>0, <1>4, <1>5

\* ... and an update alone.
LEMMA UpdateIsSound ==
    ASSUME Counting, NEW x, NEW px, NEW y, NEW py, Committing(x, px), Committing(y, py),
           Sound(x, px, y, py), NEW h \in Nat, h \in DOMAIN py
    PROVE  LET x2 == deliver(x, <<Update(h)>>).x
           IN  Sound(x2, px, y, py) /\ Committing(x2, px)
<1>1. PICK r : r = [x |-> x, err |-> FALSE]
  OBVIOUS
<1>2. r \in Run /\ r.x = x
  BY <1>1 DEF Run, Committing
<1>3. PICK q : q = update_client(r, h)
  OBVIOUS
<1>4. q \in Run /\ Steps(x, q.x, y, py) /\ deliver_message(r, Update(h)) = q
  BY <1>2, <1>3, UpdateSteps
<1>5. q.x \in Host
  BY <1>4 DEF Run
<1>6. deliver(x, <<Update(h)>>) = q
  BY <1>1, <1>4 DEF deliver
<1>. QED
  BY <1>4, <1>5, <1>6, SoundSteps

-----------------------------------------------------------------------------
(* The two chains. *)

\* The other of two chains is the other one, and back.
LEMMA OtherChain ==
    ASSUME ChainsAssumption, NEW c \in Side
    PROVE  /\ Peer(c) \in Side /\ Peer(c) # c /\ Peer(Peer(c)) = c
           /\ \A d \in Side : d = c \/ d = Peer(c)
<1>1. PICK a \in Side, b \in Side : a # b /\ Side = {a, b}
  BY DEF ChainsAssumption
<1>2. \A x \in Side : \E d \in Side : d # x
  BY <1>1, SMTT(60)
<1>3. \A x \in Side : Peer(x) \in Side /\ Peer(x) # x
  BY <1>2 DEF Peer
<1>4. \A d \in Side : d = c \/ d = Peer(c)
  BY <1>1, <1>3
<1>. QED
  BY <1>3, <1>4

\* The inductive invariant: the states are those of hosts, the committed ones
\* lie below the block in progress, and either chain's packets, receipts,
\* acknowledgements, refunds and coins agree with the other's.
IbcInv ==
    /\ ChainsAssumption
    /\ chain = [c \in Side |-> chain[c]] /\ past = [c \in Side |-> past[c]]
    /\ \A c \in Side : /\ Committing(chain[c], past[c])
                       /\ Sound(chain[c], past[c], chain[Peer(c)], past[Peer(c)])

\* Soundness is symmetric.
LEMMA SoundBack ==
    ASSUME NEW x, NEW px, NEW y, NEW py, Sound(x, px, y, py)
    PROVE  Sound(y, py, x, px)
  BY DEF Sound, Linked, BothBacked

\* The chains start sound.
LEMMA InitIsSound == Counting /\ ChainsAssumption /\ IbcInit => IbcInv
<1>. SUFFICES ASSUME Counting, ChainsAssumption, IbcInit
              PROVE  IbcInv
  OBVIOUS
<1>1. PICK x : x = NewHost(Start, NewClient(Start - 1))
  OBVIOUS
<1>2. Fresh(x) /\ x.height = Start
  BY <1>1, FreshStart DEF Fresh
<1>3. Committed(x) \in Proof /\ Committed(x).commitments = {} /\ Committed(x).receipts = {}
  BY <1>2, FreshCommit
<1>4. \A c \in Side : chain[c] = x
  BY <1>1 DEF IbcInit
<1>5. \A c \in Side : past[c] = [h \in {Start - 1} |-> Committed(x)]
  BY <1>4 DEF IbcInit
<1>6. chain = [c \in Side |-> chain[c]] /\ past = [c \in Side |-> past[c]]
  BY DEF IbcInit
<1>7. Start \in Nat \ {0} /\ Fund \in Nat
  BY DEF ChainsAssumption, IbcAssumption
<1>8. PICK px : px = [h \in {Start - 1} |-> Committed(x)]
  OBVIOUS
<1>9. \A h \in DOMAIN px : h = Start - 1 /\ px[h] = Committed(x)
  BY <1>8
<1>10. Committing(x, px)
  <2>1. Hosted(x) /\ Acked(x)
    BY <1>2, <1>7, SMTT(60) DEF Fresh, Hosted, Acked
  <2>2. Acked(Committed(x))
    BY <1>3 DEF Acked
  <2>3. DOMAIN px = (Start - 1)..(x.height - 1)
    BY <1>2, <1>7, <1>8, SMTT(60)
  <2>. QED
    BY <1>2, <1>3, <1>7, <1>9, <2>1, <2>2, <2>3, SMTT(60) DEF Committing, Fresh
<1>11. Sound(x, px, x, px)
  <2>1. Start - 1 \in DOMAIN px
    BY <1>8
  <2>. QED
    BY <1>2, <1>3, <1>7, <1>9, <2>1, FreshIsSound
<1>12. \A c \in Side : Peer(c) \in Side
  BY OtherChain
<1>. QED
  BY <1>4, <1>5, <1>6, <1>8, <1>10, <1>11, <1>12 DEF IbcInv

\* A step of one chain that keeps the two sound keeps the invariant.
LEMMA OneChain ==
    ASSUME IbcInv, NEW c \in Side, NEW x, NEW px,
           chain' = [chain EXCEPT ![c] = x], past' = [past EXCEPT ![c] = px],
           Committing(x, px), Sound(x, px, chain[Peer(c)], past[Peer(c)])
    PROVE  IbcInv'
<1>1. /\ Peer(c) \in Side /\ Peer(c) # c /\ Peer(Peer(c)) = c
      /\ \A d \in Side : d = c \/ d = Peer(c)
  BY OtherChain DEF IbcInv
<1>2. chain' = [d \in Side |-> IF d = c THEN x ELSE chain[d]]
  BY DEF IbcInv
<1>3. past' = [d \in Side |-> IF d = c THEN px ELSE past[d]]
  BY DEF IbcInv
<1>4. /\ chain'[c] = x /\ past'[c] = px
      /\ chain'[Peer(c)] = chain[Peer(c)] /\ past'[Peer(c)] = past[Peer(c)]
  BY <1>1, <1>2, <1>3
<1>5. chain' = [d \in Side |-> chain'[d]] /\ past' = [d \in Side |-> past'[d]]
  BY <1>2, <1>3
<1>6. Committing(chain'[c], past'[c]) /\ Committing(chain'[Peer(c)], past'[Peer(c)])
  BY <1>1, <1>4 DEF IbcInv
<1>7. /\ Sound(chain'[c], past'[c], chain'[Peer(c)], past'[Peer(c)])
      /\ Sound(chain'[Peer(c)], past'[Peer(c)], chain'[c], past'[c])
  BY <1>4, SoundBack
<1>8. ASSUME NEW d \in Side
      PROVE  /\ Committing(chain'[d], past'[d])
             /\ Sound(chain'[d], past'[d], chain'[Peer(d)], past'[Peer(d)])
  BY <1>1, <1>6, <1>7
<1>. QED
  BY <1>5, <1>8 DEF IbcInv

\* What the relayers deliver.
LEMMA DeliverIsSound ==
    ASSUME IbcInv, NEW c \in Side, NEW messages, Deliver(c, messages),
           LET x == deliver(chain[c], messages).x
           IN  Sound(x, past[c], chain[Peer(c)], past[Peer(c)]) /\ Committing(x, past[c])
    PROVE  IbcInv'
<1>1. PICK x : x = deliver(chain[c], messages).x
  OBVIOUS
<1>2. chain' = [chain EXCEPT ![c] = x]
  BY <1>1 DEF Deliver
<1>3. past' = [past EXCEPT ![c] = past[c]]
  BY DEF Deliver, IbcInv
<1>4. Sound(x, past[c], chain[Peer(c)], past[Peer(c)]) /\ Committing(x, past[c])
  BY <1>1
<1>. QED
  BY <1>2, <1>3, <1>4, OneChain

\* A relayer's batch for either chain keeps the invariant.
LEMMA BatchDelivered ==
    ASSUME Counting, IbcInv, NEW c \in Side, NEW type \in {"recv", "ack", "timeout"}, NEW p \in Packet,
           NEW h \in Provable(Peer(c)), Deliver(c, Batch(c, type, p, h))
    PROVE  IbcInv'
<1>1. Peer(c) \in Side
  BY OtherChain DEF IbcInv
<1>2. h \in DOMAIN past[Peer(c)] /\ h - 1 \in DOMAIN past[Peer(c)]
  BY DEF Provable, Headers
<1>3. PICK m : m = [type |-> type, packet |-> p, height |-> h, proof |-> past[Peer(c)][h - 1]]
  OBVIOUS
<1>4. Message(Peer(c), type, p, h) = m
  BY <1>3 DEF Message
<1>5. Batch(c, type, p, h) \in {<<m>>, <<Update(h), m>>}
  BY <1>4 DEF Batch
<1>6. PICK messages : messages = Batch(c, type, p, h)
  OBVIOUS
<1>7. /\ Committing(chain[c], past[c]) /\ Committing(chain[Peer(c)], past[Peer(c)])
      /\ Sound(chain[c], past[c], chain[Peer(c)], past[Peer(c)])
  BY <1>1 DEF IbcInv
<1>8. LET x == deliver(chain[c], messages).x
      IN  Sound(x, past[c], chain[Peer(c)], past[Peer(c)]) /\ Committing(x, past[c])
  <2>1. PICK x, px, y, py : /\ x = chain[c] /\ px = past[c]
                            /\ y = chain[Peer(c)] /\ py = past[Peer(c)]
    OBVIOUS
  <2>2. Committing(x, px) /\ Committing(y, py) /\ Sound(x, px, y, py)
    BY <1>7, <2>1
  <2>3. IsBatch(messages, py)
    BY <1>2, <1>3, <1>5, <1>6, <2>1 DEF IsBatch
  <2>4. LET x2 == deliver(x, messages).x
        IN  Sound(x2, px, y, py) /\ Committing(x2, px)
    BY <2>2, <2>3, BatchIsSound
  <2>. QED
    BY <2>1, <2>4
<1>9. Deliver(c, messages)
  BY <1>6
<1>. QED
  BY <1>8, <1>9, DeliverIsSound

\* One step per action.
LEMMA StepIsSound == Counting /\ IbcInv /\ [IbcNext]_ibc_vars => IbcInv'
<1>. SUFFICES ASSUME Counting, IbcInv, [IbcNext]_ibc_vars
              PROVE  IbcInv'
  OBVIOUS
<1>1. ASSUME NEW c \in Side
      PROVE  /\ Peer(c) \in Side
             /\ Committing(chain[c], past[c]) /\ Committing(chain[Peer(c)], past[Peer(c)])
             /\ Sound(chain[c], past[c], chain[Peer(c)], past[Peer(c)])
  <2>1. Peer(c) \in Side
    BY OtherChain DEF IbcInv
  <2>. QED
    BY <2>1 DEF IbcInv
<1>2. ASSUME NEW c \in Side, NextBlock(c)
      PROVE  IbcInv'
  <2>1. PICK px : px = [h \in DOMAIN past[c] \union {chain[c].height} |->
                            IF h \in DOMAIN past[c] THEN past[c][h] ELSE Committed(chain[c])]
    OBVIOUS
  <2>2. past' = [past EXCEPT ![c] = px]
    BY <1>2, <2>1 DEF NextBlock
  <2>3. PICK x : x = begin_block(chain[c], chain[c].height + 1)
    OBVIOUS
  <2>4. chain' = [chain EXCEPT ![c] = x]
    BY <1>2, <2>3 DEF NextBlock
  <2>5. Sound(x, px, chain[Peer(c)], past[Peer(c)]) /\ Committing(x, px)
    BY <1>1, <2>1, <2>3, CommitIsSound, SMTT(60) DEF IbcInv
  <2>. QED
    BY <2>2, <2>4, <2>5, OneChain
<1>3. ASSUME NEW c \in Side, Transfer(c)
      PROVE  IbcInv'
  <2>1. PICK denom \in {"native", "voucher"}, receiver \in {"user", "invalid"}, timeout \in Timeouts :
            /\ ~raw_transfer(chain[c], denom, 1, receiver, timeout).err
            /\ chain' = [chain EXCEPT ![c] = raw_transfer(chain[c], denom, 1, receiver, timeout).x]
    BY <1>3 DEF Transfer
  <2>2. timeout \in Nat
    BY DEF IbcInv, ChainsAssumption
  <2>3. chain[c] \in Host
    BY <1>1 DEF Committing
  <2>4. PICK x : x = raw_transfer(chain[c], denom, 1, receiver, timeout).x
    OBVIOUS
  <2>5. x \in Host /\ \E p \in Packet : Sends(chain[c], x, p)
    BY <2>1, <2>2, <2>3, <2>4, TransferSends
  <2>6. Steps(chain[c], x, chain[Peer(c)], past[Peer(c)])
    <3>1. /\ x.client = chain[c].client /\ x.height = chain[c].height
          /\ x.host_consensus_states = chain[c].host_consensus_states
      BY <2>5 DEF Sends
    <3>2. Moves(chain[c], x, chain[Peer(c)])
      BY <2>5 DEF Moves
    <3>. QED
      BY <3>1, <3>2, TracksStays DEF Steps
  <2>7. Sound(x, past[c], chain[Peer(c)], past[Peer(c)]) /\ Committing(x, past[c])
    BY <1>1, <2>5, <2>6, SoundSteps
  <2>8. past' = [past EXCEPT ![c] = past[c]]
    BY <1>3 DEF Transfer, IbcInv
  <2>. QED
    BY <2>1, <2>4, <2>7, <2>8, OneChain
<1>4. ASSUME NEW c \in Side, UpdateClient(c)
      PROVE  IbcInv'
  <2>1. PICK h \in DOMAIN past[Peer(c)] : Deliver(c, <<Update(h)>>)
    BY <1>4 DEF UpdateClient, Headers
  <2>2. h \in Nat
    BY <1>1 DEF Committing
  <2>. QED
    BY <1>1, <2>1, <2>2, UpdateIsSound, DeliverIsSound
<1>5. ASSUME NEW c \in Side, NEW h \in DOMAIN past[c]
      PROVE  past[c][h].commitments \in SUBSET Packet
  <2>1. past[c][h] \in Proof
    BY <1>1 DEF Committing
  <2>. QED
    BY <2>1 DEF Proof
<1>6. ASSUME NEW c \in Side, RelayPackets(c)
      PROVE  IbcInv'
  <2>1. PICK h \in Provable(Peer(c)) :
            \E p \in UNION {unreceived_packets(c, g, past[Peer(c)][h - 1].commitments) : g \in Headers(c)} :
                Deliver(c, Batch(c, "recv", p, h))
    BY <1>6 DEF RelayPackets
  <2>2. PICK p \in past[Peer(c)][h - 1].commitments : Deliver(c, Batch(c, "recv", p, h))
    BY <2>1 DEF unreceived_packets, query_unreceived_packets
  <2>3. p \in Packet
    BY <1>1, <1>5 DEF Provable, Headers
  <2>. QED
    BY <2>2, <2>3, BatchDelivered
<1>7. ASSUME NEW c \in Side, RelayAcks(c)
      PROVE  IbcInv'
  <2>1. PICK h \in Provable(Peer(c)) :
            \E p \in UNION {unreceived_acks(c, g, Range(chain[c].sent)) : g \in Headers(c)} :
                Deliver(c, Batch(c, "ack", p, h))
    BY <1>7 DEF RelayAcks
  <2>2. PICK p \in Range(chain[c].sent) : Deliver(c, Batch(c, "ack", p, h))
    BY <2>1 DEF unreceived_acks, query_unreceived_acks
  <2>3. chain[c] \in Host
    BY <1>1 DEF Committing
  <2>4. chain[c].sent \in Seq(Packet)
    BY <2>3 DEF Host
  <2>5. p \in Packet
    BY <2>4, SMTT(60) DEF Range
  <2>. QED
    BY <2>2, <2>5, BatchDelivered
<1>8. ASSUME NEW c \in Side, RelayTimeouts(c)
      PROVE  IbcInv'
  <2>1. PICK h \in Provable(Peer(c)), g \in Headers(c) :
            \E p \in past[c][g].commitments : Deliver(c, Batch(c, "timeout", p, h))
    BY <1>8 DEF RelayTimeouts
  <2>2. PICK p \in past[c][g].commitments : Deliver(c, Batch(c, "timeout", p, h))
    BY <2>1
  <2>3. p \in Packet
    BY <1>5 DEF Headers
  <2>. QED
    BY <2>2, <2>3, BatchDelivered
<1>9. CASE UNCHANGED ibc_vars
  BY <1>9 DEF ibc_vars, IbcInv
<1>. QED
  BY <1>2, <1>3, <1>4, <1>6, <1>7, <1>8, <1>9 DEF IbcNext

-----------------------------------------------------------------------------
(* No packet is stuck. *)

\* The headers are those of the committed blocks, up to the last one.
LEMMA Last ==
    ASSUME IbcInv, NEW c \in Side
    PROVE  /\ LastHeader(c) \in DOMAIN past[c] /\ LastHeader(c) \in Nat
           /\ \A h \in DOMAIN past[c] : h <= LastHeader(c)
           /\ Provable(c) # {} => LastHeader(c) - 1 \in DOMAIN past[c]
<1>1. Committing(chain[c], past[c]) /\ Start \in Nat \ {0}
  BY DEF IbcInv, ChainsAssumption
<1>2. PICK D, n : D = DOMAIN past[c] /\ n = chain[c].height
  OBVIOUS
<1>3. D = (Start - 1)..(n - 1) /\ n >= Start /\ n \in Nat
  <2>1. chain[c] \in Host
    BY <1>1 DEF Committing
  <2>2. chain[c].height \in Nat
    BY <2>1 DEF Host
  <2>. QED
    BY <1>1, <1>2, <2>2 DEF Committing, Hosted
<1>4. PICK m : m = CHOOSE h \in D : \A g \in D : g <= h
  OBVIOUS
<1>5. n - 1 \in D /\ \A g \in D : g <= n - 1
  BY <1>1, <1>3, SMTT(60)
<1>6. m \in D /\ \A g \in D : g <= m
  BY <1>4, <1>5
<1>7. LastHeader(c) = m
  BY <1>2, <1>4 DEF LastHeader, Headers
<1>8. m = n - 1
  BY <1>1, <1>3, <1>5, <1>6, SMTT(60)
<1>9. ASSUME Provable(c) # {} PROVE m - 1 \in D
  <2>1. PICK h \in D : h - 1 \in D
    BY <1>2, <1>9 DEF Provable, Headers
  <2>. QED
    BY <1>1, <1>3, <1>8, <2>1, SMTT(60)
<1>. QED
  BY <1>1, <1>2, <1>3, <1>6, <1>7, <1>8, <1>9, SMTT(60)

\* What the relayer's message meets once the header it brings is there.
LEMMA Arrives ==
    ASSUME Counting, IbcInv, NEW c \in Side, Active(chain[c]), Usable(c), NEW type, NEW p,
           NEW l, l = LastHeader(Peer(c)), NEW m, m = Message(Peer(c), type, p, l)
    PROVE  \E r \in Run : /\ ~r.err /\ Still(chain[c], r.x) /\ Verifiable(r.x, l)
                          /\ deliver(chain[c], Batch(c, type, p, l)) = deliver_message(r, m)
<1>1. Peer(c) \in Side /\ ChainsAssumption
  BY OtherChain DEF IbcInv
<1>2. PICK x, py : x = chain[c] /\ py = past[Peer(c)]
  OBVIOUS
<1>3. Committing(x, past[c]) /\ Sound(x, past[c], chain[Peer(c)], py)
  BY <1>2 DEF IbcInv
<1>4. x \in Host /\ Hosted(x) /\ Tracks(x, py)
  BY <1>3 DEF Committing, Sound
<1>5. l \in DOMAIN py /\ l \in Nat /\ \A h \in DOMAIN py : h <= l
  BY <1>1, <1>2, Last
<1>6. PICK r : r = [x |-> x, err |-> FALSE]
  OBVIOUS
<1>7. r \in Run /\ r.x = x /\ ~r.err
  BY <1>4, <1>6 DEF Run
<1>8. PICK q : q = update_client(r, l)
  OBVIOUS
<1>9. /\ EpochHeight(l) \in x.client.consensus_states => Verifiable(x, l)
      /\ EpochHeight(l) \notin x.client.consensus_states =>
             q \in Run /\ ~q.err /\ Still(x, q.x) /\ Verifiable(q.x, l)
  <2>1. EpochHeight(l) \in x.client.consensus_states => EpochHeight(l) \in x.client.updates
    BY <1>2 DEF Usable
  <2>. QED
    BY <1>1, <1>2, <1>4, <1>5, <1>7, <1>8, <2>1, NewestHeader
<1>10. CASE EpochHeight(l) \in x.client.consensus_states
  <2>1. deliver(x, Batch(c, type, p, l)) = deliver_message(r, m)
    <3>1. Batch(c, type, p, l) = <<m>>
      BY <1>2, <1>10 DEF Batch
    <3>. QED
      BY <1>4, <1>6, <3>1, SMTT(60) DEF deliver
  <2>. QED
    BY <1>2, <1>7, <1>9, <1>10, <2>1, StillStays
<1>11. CASE EpochHeight(l) \notin x.client.consensus_states
  <2>1. deliver(x, Batch(c, type, p, l)) = deliver_message(q, m)
    <3>1. Batch(c, type, p, l) = <<Update(l), m>>
      BY <1>2, <1>11 DEF Batch
    <3>2. ~update_client(r, l).err
      BY <1>8, <1>9, <1>11
    <3>3. deliver(x, <<Update(l), m>>) = deliver_message(q, m)
      BY <1>6, <1>8, <3>2, BatchSucceeds
    <3>. QED
      BY <3>1, <3>3
  <2>. QED
    BY <1>2, <1>9, <1>11, <2>1
<1>. QED
  BY <1>10, <1>11

\* What a relayer who brings the newest header along can do about a packet of c:
\* acknowledge it if the other chain has received it, ...
LEMMA AckAccepted ==
    ASSUME Counting, IbcInv, NEW c \in Side, Active(chain[c]), Usable(c),
           NEW p \in Packet, p \in chain[c].commitments,
           NEW l \in Nat, l = LastHeader(Peer(c)), NEW s \in Proof, s = past[Peer(c)][l - 1],
           Acked(s), p.sequence \in s.receipts
    PROVE  Accepts(c, "ack", p)
<1>1. PICK m : m = Message(Peer(c), "ack", p, l)
  OBVIOUS
<1>2. m.type = "ack" /\ m.packet = p /\ m.height = l /\ m.proof = s
  BY <1>1 DEF Message
<1>3. PICK r \in Run : /\ ~r.err /\ Verifiable(r.x, l)
                       /\ deliver(chain[c], Batch(c, "ack", p, l)) = deliver_message(r, m)
  BY <1>1, Arrives, SMTT(60)
<1>4. ~deliver_message(r, m).err
  BY <1>2, <1>3, AckSucceeds
<1>. QED
  BY <1>3, <1>4 DEF Accepts

\* ... bring it to the other chain d before its timeout, ...
LEMMA RecvAccepted ==
    ASSUME Counting, IbcInv, NEW d \in Side, Active(chain[d]), Usable(d), chain[d].height \in Nat,
           NEW p \in Packet, chain[d].height <= p.timeout,
           NEW g \in Nat, g = LastHeader(Peer(d)), NEW s \in Proof, s = past[Peer(d)][g - 1],
           p \in s.commitments
    PROVE  Accepts(d, "recv", p)
<1>1. PICK m : m = Message(Peer(d), "recv", p, g)
  OBVIOUS
<1>2. m.type = "recv" /\ m.packet = p /\ m.height = g /\ m.proof = s
  BY <1>1 DEF Message
<1>3. PICK r \in Run : /\ ~r.err /\ Still(chain[d], r.x) /\ Verifiable(r.x, g)
                       /\ deliver(chain[d], Batch(d, "recv", p, g)) = deliver_message(r, m)
  BY <1>1, Arrives, SMTT(60)
<1>4. p.timeout \in Nat
  BY DEF Packet
<1>5. ~(r.x.height > p.timeout)
  BY <1>3, <1>4, SMTT(60) DEF Still, SameHeight
<1>6. ~deliver_message(r, m).err
  BY <1>2, <1>3, <1>5, RecvSucceeds
<1>. QED
  BY <1>3, <1>6 DEF Accepts

\* ... or time it out.
LEMMA TimeoutAccepted ==
    ASSUME Counting, IbcInv, NEW c \in Side, Active(chain[c]), Usable(c),
           NEW p \in Packet, p \in chain[c].commitments,
           p.denom = "native" => chain[c].escrow > 0,
           NEW l \in Nat, l = LastHeader(Peer(c)), NEW s \in Proof, s = past[Peer(c)][l - 1],
           l > p.timeout, p.sequence \notin s.receipts
    PROVE  Accepts(c, "timeout", p)
<1>1. PICK m : m = Message(Peer(c), "timeout", p, l)
  OBVIOUS
<1>2. m.type = "timeout" /\ m.packet = p /\ m.height = l /\ m.proof = s
  BY <1>1 DEF Message
<1>3. PICK r \in Run : /\ ~r.err /\ Still(chain[c], r.x) /\ Verifiable(r.x, l)
                       /\ deliver(chain[c], Batch(c, "timeout", p, l)) = deliver_message(r, m)
  BY <1>1, Arrives, SMTT(60)
<1>4. p.timeout \in Nat
  BY DEF Packet
<1>5. ~(p.denom = "native" /\ r.x.escrow = 0) /\ ~(l <= p.timeout)
  BY <1>3, <1>4, SMTT(60) DEF Still, SameCoins
<1>6. ~deliver_message(r, m).err
  BY <1>2, <1>3, <1>5, TimeoutSucceeds
<1>. QED
  BY <1>3, <1>6 DEF Accepts

\* A packet that has not ended can be received, acknowledged or timed out by
\* the next batch, ...
LEMMA NextBatch ==
    ASSUME Counting, IbcInv, NEW c \in Side, NEW d, d = Peer(c),
           Provable(c) # {}, Provable(d) # {}, Active(chain[c]), Active(chain[d]),
           Usable(c), Usable(d),
           NEW p \in past[c][LastHeader(c) - 1].commitments \cap chain[c].commitments
    PROVE  IF p.sequence \in past[d][LastHeader(d) - 1].receipts THEN Accepts(c, "ack", p)
           ELSE /\ chain[d].height <= p.timeout => Accepts(d, "recv", p)
                /\ LastHeader(d) > p.timeout => Accepts(c, "timeout", p)
<1>1. d \in Side /\ Peer(d) = c
  BY OtherChain DEF IbcInv
<1>2. PICK g, l : g = LastHeader(c) /\ l = LastHeader(d)
  OBVIOUS
<1>3. g \in Nat /\ l \in Nat /\ g - 1 \in DOMAIN past[c] /\ l - 1 \in DOMAIN past[d]
  BY <1>1, <1>2, Last
<1>4. PICK s, u : s = past[d][l - 1] /\ u = past[c][g - 1]
  OBVIOUS
<1>5. /\ Committing(chain[c], past[c]) /\ Committing(chain[d], past[d])
      /\ Sound(chain[c], past[c], chain[d], past[d])
  BY <1>1 DEF IbcInv
<1>6. chain[c] \in Host /\ chain[d] \in Host /\ s \in Proof /\ u \in Proof /\ Acked(s)
  BY <1>3, <1>4, <1>5 DEF Committing
<1>7. p \in chain[c].commitments /\ p \in u.commitments
  BY <1>2, <1>4
<1>8. chain[c].commitments \in SUBSET Packet /\ chain[d].height \in Nat
  BY <1>6 DEF Host
<1>9. p \in Packet
  BY <1>7, <1>8
<1>10. p.sequence \in s.receipts => Accepts(c, "ack", p)
  BY <1>2, <1>3, <1>4, <1>6, <1>7, <1>9, AckAccepted
<1>11. chain[d].height <= p.timeout => Accepts(d, "recv", p)
  BY <1>1, <1>2, <1>3, <1>4, <1>6, <1>7, <1>8, <1>9, RecvAccepted
<1>12. ASSUME p.sequence \notin s.receipts, l > p.timeout PROVE Accepts(c, "timeout", p)
  <2>1. p.denom = "native" => chain[c].escrow > 0
    BY <1>3, <1>4, <1>5, <1>7, <1>12, NotReceived
  <2>. QED
    BY <1>2, <1>3, <1>4, <1>6, <1>7, <1>9, <1>12, <2>1, TimeoutAccepted
<1>. QED
  BY <1>2, <1>4, <1>10, <1>11, <1>12

\* ... one without its commitment has ended, or was erased with one that has, ...
LEMMA NoneIsForgotten ==
    ASSUME IbcInv, NEW c \in Side, NEW p \in Range(chain[c].sent) \ chain[c].commitments
    PROVE  \E n \in Ended(chain[c]) : Begins(n, p.sequence)
<1>1. Link(chain[c], past[c], chain[Peer(c)], past[Peer(c)])
  BY DEF IbcInv, Sound, Linked
<1>2. PICK i \in DOMAIN chain[c].sent : chain[c].sent[i] = p
  BY DEF Range
<1>3. p.sequence = i
  BY <1>1, <1>2 DEF Link, Numbered
<1>. QED
  BY <1>1, <1>2, <1>3 DEF Link, Forgotten

\* ... and the newest header can be used, or was erased with one that expired.
LEMMA NewestIsUsable ==
    ASSUME IbcInv, NEW c \in Side
    PROVE  \/ Usable(c)
           \/ \E k \in chain[c].client.consensus_states :
                  expired(chain[c], k[2]) /\ Begins(k[2], LastHeader(Peer(c)))
<1>1. Explained(chain[c].client, host_timestamp(chain[c]))
  BY DEF IbcInv, Sound, Tracks
<1>2. PICK l : l = LastHeader(Peer(c))
  OBVIOUS
<1>3. EpochHeight(l)[2] = l
  BY DEF EpochHeight
<1>. SUFFICES ASSUME EpochHeight(l) \in chain[c].client.consensus_states,
                     EpochHeight(l) \notin chain[c].client.updates
              PROVE  \E k \in chain[c].client.consensus_states :
                         expired(chain[c], k[2]) /\ Begins(k[2], l)
  BY <1>2 DEF Usable
<1>. QED
  BY <1>1, <1>3 DEF Explained, expired

\* So no packet is stuck for another reason.
LEMMA NoneStuck == Counting /\ IbcInv => NoPacketIsStuck
  BY NextBatch, NoneIsForgotten, NewestIsUsable DEF NoPacketIsStuck

-----------------------------------------------------------------------------
(* The theorems. *)

\* What IbcSteps and IbcSound suppose about counting, from
\* FiniteSetTheorems.
LEMMA CountingHolds == Counting
<1>2. IsFiniteSet({}) /\ Cardinality({}) = 0
  BY FS_EmptySet
<1>3. ASSUME NEW n \in Nat, NEW S \in SUBSET (1..n) PROVE IsFiniteSet(S)
  <2>1. IsFiniteSet(1..n)
    BY FS_Interval, SMTT(60)
  <2>. QED
    BY <2>1, FS_Subset
<1>4. ASSUME NEW S, IsFiniteSet(S)
      PROVE  Cardinality(S) \in Nat /\ (Cardinality(S) = 0 => S = {})
  BY <1>4, FS_CardinalityType, FS_EmptySet
<1>5. ASSUME NEW S, NEW x, IsFiniteSet(S)
      PROVE  /\ x \notin S => IsFiniteSet(S \union {x}) /\ Cardinality(S \union {x}) = Cardinality(S) + 1
             /\ Cardinality(S \ {x}) = IF x \in S THEN Cardinality(S) - 1 ELSE Cardinality(S)
  <2>1. x \notin S => IsFiniteSet(S \union {x}) /\ Cardinality(S \union {x}) = Cardinality(S) + 1
    BY <1>5, FS_AddElement
  <2>2. Cardinality(S \ {x}) = IF x \in S THEN Cardinality(S) - 1 ELSE Cardinality(S)
    BY <1>5, FS_RemoveElement
  <2>. QED
    BY <2>1, <2>2
<1>. QED
  BY <1>2, <1>3, <1>4, <1>5 DEF Counting

\* The invariant holds of every state.
LEMMA AlwaysSound == ChainsAssumption /\ IbcSpec => []IbcInv
<1>1. ChainsAssumption /\ IbcInit => IbcInv
  BY CountingHolds, InitIsSound
<1>2. IbcInv /\ [IbcNext]_ibc_vars => IbcInv'
  BY CountingHolds, StepIsSound
<1>. QED
  BY <1>1, <1>2, PTL DEF IbcSpec

\* Whatever the numbers of blocks, packets and relayers, the timeouts chosen
\* and the way clients expire, freeze and are pruned, a packet is received at
\* most once and is never both received and refunded.
THEOREM PacketsEndOnce == ChainsAssumption /\ IbcSpec => []ReceivedOrRefunded
<1>1. IbcInv => ReceivedOrRefunded
  <2>. SUFFICES ASSUME IbcInv, NEW c \in Side
                PROVE  /\ \A s \in chain[c].refunded : s \notin chain[Peer(c)].receipts
                       /\ Len(chain[c].acks) = Cardinality(chain[c].receipts)
    BY DEF ReceivedOrRefunded
  <2>1. Sound(chain[c], past[c], chain[Peer(c)], past[Peer(c)])
    BY DEF IbcInv
  <2>. QED
    BY <2>1 DEF Sound, Linked, Link, Refunds, Acks
<1>. QED
  BY <1>1, AlwaysSound, PTL

\* Under the same conditions the coins in escrow back, one for one, the vouchers
\* of them on the other chain and the packets that have not ended.
THEOREM EscrowIsSound == ChainsAssumption /\ IbcSpec => []EscrowBacksVouchers
<1>1. IbcInv => EscrowBacksVouchers
  BY DEF IbcInv, EscrowBacksVouchers, Sound, Linked, BothBacked
<1>. QED
  BY <1>1, AlwaysSound, PTL

\* Whatever the radix numbers are written to, a packet loses its commitment
\* only when it, or one whose number begins its own, is acknowledged or timed
\* out; and while it has it, both clients are active and the newest headers are
\* usable, a relayer who brings them along can receive, acknowledge or time it
\* out: no earlier update and no message of another relayer stands in the way,
\* and pruning does only where an expired height begins that of the header.
THEOREM PacketsCanEnd == ChainsAssumption /\ IbcSpec => []NoPacketIsStuck
<1>1. IbcInv => NoPacketIsStuck
  BY CountingHolds, NoneStuck
<1>. QED
  BY <1>1, AlwaysSound, PTL
================================================================================
