----------------------------- MODULE AbciProofs ------------------------------
(***************************************************************************)
(* Proofs about Abci, for every key and value set, every application that  *)
(* reads by key, every set of blocks and any number of crashes: the type   *)
(* invariant, the height invariant, that Abci implements Ledger, and that  *)
(* queries see committed states only.                                      *)
(***************************************************************************)
EXTENDS Abci, FiniteSetTheorems, TLAPS

USE ZenonT(60)

-----------------------------------------------------------------------------
(* The store operators. *)

\* Reading through an empty buffer reads the underlying store.
LEMMA ViewEmpty ==
    ASSUME NEW t \in Tree
    PROVE  View(EmptyBuffer, t) = t
BY StoreAssumption DEF View, EmptyBuffer, Tree

\* Reading through a buffer gives a tree.
LEMMA ViewType ==
    ASSUME NEW b \in Buffer, NEW t \in Tree
    PROVE  View(b, t) \in Tree
BY StoreAssumption DEF View, Buffer, Tree

\* Flushing one buffer into another gives a buffer.
LEMMA FlushType ==
    ASSUME NEW b \in Buffer, NEW l \in Buffer
    PROVE  Flush(b, l) \in Buffer
BY StoreAssumption DEF Flush, Buffer

\* Flushing a buffer into the one below does not change what is read through
\* both (BufStore::flush against BufStore::get).
LEMMA FlushPreservesView ==
    ASSUME NEW b \in Buffer, NEW l \in Buffer, NEW t \in Tree
    PROVE  View(Flush(b, l), t) = View(b, View(l, t))
BY StoreAssumption DEF Flush, View, Buffer, Tree

\* The constant buffers and trees.
LEMMA EmptyTypes == EmptyBuffer \in Buffer /\ EmptyTree \in Tree
BY DEF EmptyBuffer, Buffer, EmptyTree, Tree

-----------------------------------------------------------------------------
(* The application interface. *)

\* What InternalApp::run writes is a buffer.
LEMMA RunType ==
    ASSUME NEW v \in Tree, NEW s \in Tree, NEW c \in Call
    PROVE  /\ Run(v, s, c).writes \in Buffer
           /\ Run(v, s, c).outcome \in Outcome
<1> DEFINE d == InitialState(v)
<1> DEFINE r == Exec(View(d, v), View(d, s), c)
<1>1. d \in Buffer
  BY ApplicationAssumption, EmptyTypes DEF InitialState, EmptyBuffer, Buffer
<1>2. View(d, v) \in Tree /\ View(d, s) \in Tree
  BY <1>1, ViewType
<1>3. r \in Result
  BY <1>2, ApplicationAssumption
<1>4. r.writes \in Buffer /\ r.outcome \in Outcome
  BY <1>3 DEF Result
<1>5. Flush(r.writes, d) \in Buffer
  BY <1>1, <1>4, FlushType
<1> QED
  BY <1>1, <1>4, <1>5 DEF Run

\* An application that reads by key does not depend on what iteration sees.
LEMMA RunPointReads ==
    ASSUME NEW v \in Tree, NEW s \in Tree, NEW c \in Call
    PROVE  Run(v, s, c) = Run(v, v, c)
<1> DEFINE d == InitialState(v)
<1>1. d \in Buffer
  BY ApplicationAssumption, EmptyTypes DEF InitialState, EmptyBuffer, Buffer
<1>2. View(d, v) \in Tree /\ View(d, s) \in Tree
  BY <1>1, ViewType
<1>3. Exec(View(d, v), View(d, s), c) = Exec(View(d, v), View(d, v), c)
  BY <1>2, PointReadsAssumption
<1> QED
  BY <1>3 DEF Run

-----------------------------------------------------------------------------
(* The calls of a block. *)

\* The elements of a concatenation.
LEMMA ConcatProperties ==
    ASSUME NEW S, NEW s \in Seq(S), NEW t \in Seq(S)
    PROVE  /\ s \o t \in Seq(S) /\ Len(s \o t) = Len(s) + Len(t)
           /\ \A i \in 1..(Len(s) + Len(t)) :
                  (s \o t)[i] = IF i <= Len(s) THEN s[i] ELSE t[i - Len(s)]
BY SMTT(60)

\* Nothing before or after a sequence.
LEMMA ConcatEmptySeq ==
    ASSUME NEW S, NEW s \in Seq(S)
    PROVE  s \o <<>> = s /\ <<>> \o s = s
BY SMTT(60)

\* The number of calls that come before BeginBlock.
Before(h) == IF h = 1 THEN 1 ELSE 0

\* Tendermint sends calls the app knows; BeginBlock comes right after the
\* InitChain of the first block, and carries the height of the block, as
\* EndBlock does.
LEMMA ProgramCalls ==
    ASSUME NEW bs \in Seq(Blocks), Len(bs) <= MaxHeight,
           NEW h \in Nat \ {0}
    PROVE  /\ Program(bs, h) \in Seq(Call)
           /\ h \in DOMAIN bs => Len(Program(bs, h)) > Before(h)
           /\ h \notin DOMAIN bs => Len(Program(bs, h)) = Before(h)
           /\ \A i \in 1..Len(Program(bs, h)) :
                /\ Program(bs, h)[i].type = "BeginBlock" =>
                     i = Before(h) + 1 /\ Program(bs, h)[i].height = h
                /\ i = Before(h) + 1 => Program(bs, h)[i].type = "BeginBlock"
                /\ Program(bs, h)[i].type = "InitChain" => i <= Before(h)
                /\ Program(bs, h)[i].type = "EndBlock" =>
                     Program(bs, h)[i].height = h /\ h \in Height
                /\ Program(bs, h)[i].type # "CheckTx"
<1> DEFINE genesis == [type |-> "InitChain"]
           begin   == [type |-> "BeginBlock", height |-> h]
           end     == [type |-> "EndBlock", height |-> h]
           txs     == [i \in 1..Len(bs[h]) |-> [type |-> "DeliverTx", tx |-> bs[h][i]]]
           p       == IF h = 1 THEN <<genesis>> ELSE <<>>
           q       == IF h \notin DOMAIN bs THEN <<>>
                      ELSE <<begin>> \o txs \o <<end>>
<1>1. Program(bs, h) = p \o q
  BY DEF Program
<1>2. p \in Seq(Call) /\ Len(p) = Before(h) /\ (h = 1 => p[1] = genesis)
  <2>1. genesis \in Call
    BY DEF Call
  <2> QED
    BY <2>1, SMTT(60) DEF Before
<1>3. CASE h \notin DOMAIN bs
  <2>1. Program(bs, h) = p
    BY <1>1, <1>2, <1>3, ConcatEmptySeq
  <2> QED
    BY <2>1, <1>2, <1>3, SMTT(60) DEF Before
<1>4. CASE h \in DOMAIN bs
  <2>1. h \in Height /\ bs[h] \in Seq(Tx)
    BY <1>4, ApplicationAssumption, SMTT(60) DEF Height
  <2>2. txs \in Seq(Call) /\ Len(txs) = Len(bs[h])
    BY <2>1, SMTT(60) DEF Call
  <2>3. <<begin>> \in Seq(Call) /\ <<end>> \in Seq(Call)
    BY <2>1, SMTT(60) DEF Call
  <2>4. /\ <<begin>> \o txs \in Seq(Call)
        /\ Len(<<begin>> \o txs) = 1 + Len(txs)
        /\ \A i \in 1..(1 + Len(txs)) : (<<begin>> \o txs)[i] =
              IF i <= 1 THEN <<begin>>[i] ELSE txs[i - 1]
    BY <2>2, <2>3, ConcatProperties, SMTT(60)
  <2>5. /\ q \in Seq(Call)
        /\ Len(q) = 2 + Len(txs)
        /\ \A i \in 1..(2 + Len(txs)) : q[i] =
              IF i <= 1 + Len(txs) THEN (<<begin>> \o txs)[i]
              ELSE <<end>>[i - (1 + Len(txs))]
    BY <2>2, <2>3, <2>4, <1>4, ConcatProperties, SMTT(60)
  <2>6. /\ q[1] = begin
        /\ \A i \in 2..(1 + Len(txs)) : q[i] = txs[i - 1]
        /\ q[2 + Len(txs)] = end
    BY <2>2, <2>4, <2>5, SMTT(60)
  <2>7. /\ p \o q \in Seq(Call)
        /\ Len(p \o q) = Before(h) + Len(q)
        /\ \A i \in 1..(Before(h) + Len(q)) : (p \o q)[i] =
              IF i <= Before(h) THEN p[i] ELSE q[i - Before(h)]
    <3> HIDE DEF p, q, txs
    <3>1. p \in Seq(Call) /\ q \in Seq(Call) /\ Len(p) = Before(h)
      BY <1>2, <2>5
    <3>2. /\ p \o q \in Seq(Call)
          /\ Len(p \o q) = Len(p) + Len(q)
          /\ \A i \in 1..(Len(p) + Len(q)) : (p \o q)[i] =
                IF i <= Len(p) THEN p[i] ELSE q[i - Len(p)]
      BY <3>1, ConcatProperties
    <3> QED
      BY <3>1, <3>2
  <2>8. \A i \in 1..Len(q) :
          \/ i = 1 /\ q[i].type = "BeginBlock" /\ q[i].height = h
          \/ i > 1 /\ q[i].type = "DeliverTx"
          \/ i > 1 /\ q[i].type = "EndBlock" /\ q[i].height = h
    <3> HIDE DEF q, txs, begin, end
    <3>1. TAKE i \in 1..Len(q)
    <3>2. i = 1 \/ i \in 2..(1 + Len(txs)) \/ i = 2 + Len(txs)
      BY <2>2, <2>5, SMTT(60)
    <3>3. CASE i = 1
      BY <2>6, <3>3, SMTT(60) DEF begin
    <3>4. CASE i \in 2..(1 + Len(txs))
      <4>1. i > 1 /\ i - 1 \in 1..Len(bs[h])
        BY <2>1, <2>2, <3>4, SMTT(60)
      <4>2. q[i] = txs[i - 1]
        BY <2>6, <3>4
      <4>3. txs[i - 1].type = "DeliverTx"
        BY <4>1, SMTT(60) DEF txs
      <4> QED
        BY <4>1, <4>2, <4>3
    <3>5. CASE i = 2 + Len(txs)
      BY <2>2, <2>6, <3>5, SMTT(60) DEF end
    <3> QED
      BY <3>2, <3>3, <3>4, <3>5
  <2>9. \A i \in 1..Len(p \o q) :
          \/ i <= Before(h) /\ (p \o q)[i].type = "InitChain"
          \/ /\ i = Before(h) + 1
             /\ (p \o q)[i].type = "BeginBlock" /\ (p \o q)[i].height = h
          \/ i > Before(h) + 1 /\ (p \o q)[i].type = "DeliverTx"
          \/ /\ i > Before(h) + 1
             /\ (p \o q)[i].type = "EndBlock" /\ (p \o q)[i].height = h
    <3> SUFFICES ASSUME NEW i \in 1..Len(p \o q)
                 PROVE  \/ i <= Before(h) /\ (p \o q)[i].type = "InitChain"
                        \/ /\ i = Before(h) + 1
                           /\ (p \o q)[i].type = "BeginBlock"
                           /\ (p \o q)[i].height = h
                        \/ i > Before(h) + 1 /\ (p \o q)[i].type = "DeliverTx"
                        \/ /\ i > Before(h) + 1
                           /\ (p \o q)[i].type = "EndBlock"
                           /\ (p \o q)[i].height = h
      OBVIOUS
    <3> HIDE DEF p, q, txs
    <3>1. CASE i <= Before(h)
      BY <3>1, <2>7, <2>5, <1>2, SMTT(60) DEF Before
    <3>2. CASE i > Before(h)
      <4>1. Before(h) \in Nat /\ Len(q) \in Nat
        BY <2>5, <2>2, <2>1, SMTT(60) DEF Before
      <4>2. i \in 1..(Before(h) + Len(q))
        BY <2>7
      <4>3. (p \o q)[i] = q[i - Before(h)]
        BY <3>2, <4>1, <4>2, <2>7, SMTT(60)
      <4>4. i - Before(h) \in 1..Len(q)
        BY <3>2, <4>1, <4>2, SMTT(60)
      <4> QED
        BY <4>1, <4>3, <4>4, <2>8, <3>2, SMTT(60)
    <3> QED
      BY <3>1, <3>2, <2>7, <2>5, SMTT(60) DEF Before
  <2> HIDE DEF p, q, txs
  <2> QED
    BY <1>1, <1>4, <2>1, <2>2, <2>5, <2>7, <2>9, SMTT(60) DEF Before
<1> QED
  BY <1>3, <1>4

-----------------------------------------------------------------------------
(* The inductive invariant. *)

\* The header that Commit will use is the one of the current block as soon as
\* the block's BeginBlock was answered; before that it may be the last one.
HeaderInv ==
    /\ aux_height <= Len(blocks)
    /\ Len(blocks) <= aux_height + 1
    /\ Len(blocks) <= MaxHeight
    /\ sent <= Len(CurrentProgram)
    /\ sent > Before(aux_height + 1) => header = aux_height + 1

IInv == TypeOK /\ InfoIsLastCommit /\ HeaderInv

\* The call Tendermint sends next is one the app knows, and what point reads
\* and iteration see are trees.
LEMMA NextCallType ==
    ASSUME IInv, NEW t, NextIs(t)
    PROVE  /\ NextCall \in Call
           /\ NextCall.type = t
           /\ sent + 1 \in 1..Len(CurrentProgram)
           /\ t = "BeginBlock" => /\ sent = Before(aux_height + 1)
                                  /\ NextCall.height = aux_height + 1
                                  /\ NextCall.height \in Height
           /\ sent = Before(aux_height + 1) => t = "BeginBlock"
           /\ t = "EndBlock" => NextCall.height \in Height
<1>1. /\ blocks \in Seq(Blocks) /\ Len(blocks) <= MaxHeight
      /\ aux_height \in Nat /\ aux_height + 1 \in Nat \ {0}
      /\ sent \in Nat
  BY ApplicationAssumption, SMTT(60) DEF IInv, TypeOK, HeaderInv
<1>2. /\ CurrentProgram \in Seq(Call)
      /\ aux_height + 1 \notin DOMAIN blocks =>
           Len(CurrentProgram) = Before(aux_height + 1)
      /\ \A i \in 1..Len(CurrentProgram) :
           /\ CurrentProgram[i].type = "BeginBlock" =>
                /\ i = Before(aux_height + 1) + 1
                /\ CurrentProgram[i].height = aux_height + 1
           /\ i = Before(aux_height + 1) + 1 =>
                CurrentProgram[i].type = "BeginBlock"
           /\ CurrentProgram[i].type = "EndBlock" =>
                CurrentProgram[i].height = aux_height + 1 /\ aux_height + 1 \in Height
  BY <1>1, ProgramCalls, SMTT(60) DEF CurrentProgram
<1>3. sent + 1 \in 1..Len(CurrentProgram) /\ CurrentProgram[sent + 1].type = t
  BY <1>1, <1>2, SMTT(60) DEF NextIs
<1>4. NextCall \in Call
  BY <1>2, <1>3, SMTT(60) DEF NextCall
<1>5. aux_height + 1 \in DOMAIN blocks => aux_height + 1 \in Height
  BY <1>1, ApplicationAssumption, SMTT(60) DEF Height
<1>6. Before(aux_height + 1) \in Nat
  BY DEF Before
<1>7. t = "BeginBlock" => aux_height + 1 \in DOMAIN blocks
  BY <1>1, <1>2, <1>3, <1>6, SMTT(60)
<1> QED
  BY <1>1, <1>2, <1>3, <1>4, <1>5, <1>6, <1>7, SMTT(60) DEF NextCall

\* The reads of consensus and mempool calls.
LEMMA ViewTypes ==
    ASSUME TypeOK, NEW b \in Buffer
    PROVE  GetView(b) \in Tree /\ ScanView(b) \in Tree
BY ViewType DEF TypeOK, GetView, ScanView

\* What a consensus call writes.
LEMMA CallType ==
    ASSUME IInv, NEW t, NextIs(t)
    PROVE  LET r == Run(GetView(consensus_state), ScanView(consensus_state), NextCall)
           IN  r.writes \in Buffer /\ r.outcome \in Outcome
<1>1. NextCall \in Call
  BY NextCallType
<1>2. GetView(consensus_state) \in Tree /\ ScanView(consensus_state) \in Tree
  BY ViewTypes DEF IInv, TypeOK
<1> QED
  BY <1>1, <1>2, RunType

\* Ending the process keeps the invariant: only durable state remains.
LEMMA LoseVolatileKeepsIInv ==
    ASSUME IInv, LoseVolatile, UNCHANGED <<merk, aux_height, history, blocks>>,
           machine' \in {"handshake", "running", "stopped", "panicked", "killed"},
           crashes' \in 0..MaxCrashes
    PROVE  IInv'
<1>1. TypeOK'
  BY EmptyTypes, ApplicationAssumption, SMTT(60) DEF IInv, TypeOK, LoseVolatile
<1>2. InfoIsLastCommit'
  BY DEF IInv, InfoIsLastCommit
<1>3. Len(CurrentProgram') \in Nat
  <2>1. /\ blocks' \in Seq(Blocks) /\ Len(blocks') <= MaxHeight
        /\ aux_height' + 1 \in Nat \ {0}
    BY ApplicationAssumption, SMTT(60) DEF IInv, TypeOK, HeaderInv
  <2> QED
    BY <2>1, ProgramCalls, SMTT(60) DEF CurrentProgram
<1>4. HeaderInv'
  BY <1>3, SMTT(60) DEF IInv, HeaderInv, LoseVolatile, Before
<1> QED
  BY <1>1, <1>2, <1>4 DEF IInv

\* So does a call that fails.
LEMMA FailKeepsIInv ==
    ASSUME IInv, NEW outcome, Fail(outcome) PROVE IInv'
  BY LoseVolatileKeepsIInv DEF Fail, Stop, IInv, TypeOK

\* A consensus call that is answered counts one more call of the block and
\* leaves the durable state alone.
LEMMA AnsweredCallKeepsIInv ==
    ASSUME IInv, NEW t, NextIs(t),
           sent' = sent + 1,
           UNCHANGED <<merkVars, mem_snapshots, mempool_state, machine, blocks,
                       crashes>>,
           map' \in Buffer, consensus_state' \in Buffer,
           height' \in 0..MaxHeight,
           IF t = "BeginBlock" THEN header' = NextCall.height ELSE header' = header
    PROVE  IInv'
<1>1. header' \in 0..MaxHeight
  BY NextCallType, SMTT(60) DEF IInv, TypeOK, Height
<1>2. TypeOK'
  BY <1>1, SMTT(60) DEF IInv, TypeOK, merkVars
<1>3. InfoIsLastCommit'
  BY DEF IInv, InfoIsLastCommit, merkVars
<1>4. CurrentProgram' = CurrentProgram
  BY DEF CurrentProgram, merkVars
<1>5. sent' <= Len(CurrentProgram')
  BY <1>4, NextCallType, SMTT(60) DEF IInv, TypeOK
<1>6. sent' > Before(aux_height' + 1) => header' = aux_height' + 1
  <2>1. Before(aux_height + 1) \in Nat /\ sent \in Nat
    BY DEF Before, IInv, TypeOK
  <2>2. CASE t = "BeginBlock"
    BY <2>2, NextCallType DEF merkVars
  <2>3. CASE t # "BeginBlock"
    BY <2>1, <2>3, NextCallType, SMTT(60) DEF IInv, HeaderInv, merkVars
  <2> QED
    BY <2>2, <2>3
<1>7. HeaderInv'
  BY <1>5, <1>6 DEF IInv, HeaderInv, merkVars
<1> QED
  BY <1>2, <1>3, <1>7 DEF IInv

\* The snapshot window holds trees committed at heights of the chain.
LEMMA RememberType ==
    ASSUME TypeOK, NEW h \in Height, NEW t \in Tree
    PROVE  LET s == Remember(mem_snapshots, h, t)
           IN  DOMAIN s \subseteq Height /\ \A i \in DOMAIN s : s[i] \in Tree
BY DEF Remember, TypeOK

\* Every step of the node keeps the invariant.
LEMMA StepKeepsIInv == IInv /\ [Next]_vars => IInv'
<1> SUFFICES ASSUME IInv, [Next]_vars PROVE IInv'
  OBVIOUS
<1> USE DEF Stop, Fail
<1>1. CASE DecideBlock
  <2>1. PICK b \in Blocks : blocks' = Append(blocks, b)
    BY <1>1 DEF DecideBlock
  <2>2. /\ blocks' \in Seq(Blocks) /\ Len(blocks') = Len(blocks) + 1
        /\ Len(blocks') <= MaxHeight
    BY <1>1, <2>1, ApplicationAssumption, SMTT(60) DEF DecideBlock, IInv, TypeOK
  <2>3. UNCHANGED <<aux_height, sent, header>>
    BY <1>1 DEF DecideBlock, merkVars
  <2>4. /\ Len(CurrentProgram) = Before(aux_height + 1)
        /\ Len(CurrentProgram') > Before(aux_height + 1)
        /\ Len(CurrentProgram') \in Nat
    <3>1. /\ blocks \in Seq(Blocks) /\ Len(blocks) <= MaxHeight
          /\ aux_height + 1 \in Nat \ {0}
          /\ aux_height + 1 \notin DOMAIN blocks
          /\ aux_height + 1 \in DOMAIN blocks'
      BY <1>1, <2>2, SMTT(60) DEF DecideBlock, IInv, TypeOK, HeaderInv
    <3> QED
      BY <3>1, <2>2, <2>3, ProgramCalls, SMTT(60) DEF CurrentProgram
  <2>5. TypeOK'
    BY <1>1, <2>2 DEF DecideBlock, IInv, TypeOK, merkVars, storeVars
  <2>6. InfoIsLastCommit'
    BY <1>1 DEF DecideBlock, IInv, InfoIsLastCommit, merkVars
  <2>7. HeaderInv'
    BY <1>1, <2>2, <2>3, <2>4, SMTT(60) DEF DecideBlock, IInv, HeaderInv, Before, TypeOK
  <2> QED
    BY <2>5, <2>6, <2>7 DEF IInv
<1>2. CASE Info
  BY <1>2 DEF Info, IInv, TypeOK, InfoIsLastCommit, HeaderInv, CurrentProgram,
              merkVars, storeVars
<1>3. CASE InitChain
  <2> DEFINE r == Run(GetView(consensus_state), ScanView(consensus_state), NextCall)
  <2>1. NextIs("InitChain") /\ r.writes \in Buffer
    BY <1>3, CallType DEF InitChain
  <2>2. Flush(Flush(r.writes, consensus_state), map) \in Buffer
    BY <2>1, FlushType DEF IInv, TypeOK
  <2>3. CASE sent' = sent + 1
    BY <1>3, <2>1, <2>2, <2>3, EmptyTypes, AnsweredCallKeepsIInv, SMTT(60)
       DEF InitChain, LoseVolatile, IInv, TypeOK, storeVars
  <2>4. CASE Fail(r.outcome)
    <3> HIDE DEF Stop, Fail, r
    <3> QED
      BY <2>4, FailKeepsIInv
  <2> QED
    BY <1>3, <2>3, <2>4 DEF InitChain
<1>4. CASE BeginBlock
  <2> DEFINE r == Run(GetView(consensus_state), ScanView(consensus_state), NextCall)
  <2>1. NextIs("BeginBlock") /\ r.writes \in Buffer
    BY <1>4, CallType DEF BeginBlock
  <2>2. Flush(r.writes, consensus_state) \in Buffer
    BY <2>1, FlushType DEF IInv, TypeOK
  <2>3. CASE Fail(r.outcome) \/ Fail("err")
    <3> HIDE DEF Stop, Fail, r
    <3> QED
      BY <2>3, FailKeepsIInv
  <2>4. CASE ~(Fail(r.outcome) \/ Fail("err"))
    <3>1. /\ header' = NextCall.height /\ sent' = sent + 1
          /\ consensus_state' = Flush(r.writes, consensus_state)
          /\ UNCHANGED <<merkVars, storeVars, mempool_state, height, machine,
                         blocks, crashes>>
      BY <1>4, <2>4 DEF BeginBlock
    <3> QED
      BY <2>1, <2>2, <3>1, AnsweredCallKeepsIInv DEF IInv, TypeOK, storeVars
  <2> QED
    BY <2>3, <2>4
<1>5. CASE DeliverTx
  <2> DEFINE r == Run(GetView(consensus_state), ScanView(consensus_state), NextCall)
  <2>1. NextIs("DeliverTx") /\ r.writes \in Buffer
    BY <1>5, CallType DEF DeliverTx
  <2>2. Flush(Flush(r.writes, consensus_state), map) \in Buffer
    BY <2>1, FlushType DEF IInv, TypeOK
  <2>3. CASE Fail("panic")
    <3> HIDE DEF Stop, Fail, r
    <3> QED
      BY <2>3, FailKeepsIInv
  <2>4. CASE ~Fail("panic")
    <3>1. /\ sent' = sent + 1 /\ consensus_state' = EmptyBuffer
          /\ map' = Flush(Flush(r.writes, consensus_state), map)
          /\ UNCHANGED <<merkVars, mem_snapshots, mempool_state, height, header,
                         machine, blocks, crashes>>
      BY <1>5, <2>4 DEF DeliverTx
    <3> QED
      BY <2>1, <2>2, <3>1, EmptyTypes, AnsweredCallKeepsIInv DEF IInv, TypeOK
  <2> QED
    BY <2>3, <2>4
<1>6. CASE EndBlock
  <2> DEFINE r == Run(GetView(consensus_state), ScanView(consensus_state), NextCall)
  <2>1. /\ NextIs("EndBlock") /\ r.writes \in Buffer
        /\ NextCall.height \in 0..MaxHeight
    BY <1>6, CallType, NextCallType, SMTT(60) DEF EndBlock, Height
  <2>2. Flush(r.writes, consensus_state) \in Buffer
    BY <2>1, FlushType DEF IInv, TypeOK
  <2>3. CASE Fail(r.outcome)
    <3> HIDE DEF Stop, Fail, r
    <3> QED
      BY <2>3, FailKeepsIInv
  <2>4. CASE ~Fail(r.outcome)
    <3>1. /\ height' = NextCall.height /\ sent' = sent + 1
          /\ consensus_state' = Flush(r.writes, consensus_state)
          /\ UNCHANGED <<merkVars, storeVars, mempool_state, header, machine,
                         blocks, crashes>>
      BY <1>6, <2>4 DEF EndBlock
    <3> QED
      BY <2>1, <2>2, <3>1, AnsweredCallKeepsIInv DEF IInv, TypeOK, storeVars
  <2> QED
    BY <2>3, <2>4
<1>7. CASE Commit
  <2> DEFINE tree == Write(Flush(consensus_state, map), merk)
  <2>1. tree \in Tree
    BY FlushType, ViewType DEF IInv, TypeOK, Write
  <2>2. header = aux_height + 1 /\ header \in Height
    <3>1. /\ blocks \in Seq(Blocks) /\ Len(blocks) <= MaxHeight
          /\ aux_height \in Nat /\ aux_height + 1 \in DOMAIN blocks
          /\ aux_height + 1 \in Nat \ {0} /\ aux_height + 1 <= MaxHeight
      BY <1>7, SMTT(60) DEF Commit, IInv, TypeOK, HeaderInv
    <3>2. Len(CurrentProgram) > Before(aux_height + 1)
      BY <3>1, ProgramCalls DEF CurrentProgram
    <3> QED
      BY <1>7, <3>1, <3>2, ApplicationAssumption, SMTT(60)
         DEF Commit, IInv, HeaderInv, Height
  <2>3. /\ merk' = tree /\ history' = Append(history, tree)
        /\ aux_height' = header /\ sent' = 0
        /\ map' = EmptyBuffer /\ consensus_state' = EmptyBuffer
        /\ mempool_state' = EmptyBuffer /\ UNCHANGED <<blocks, crashes>>
        /\ aux_height < Len(blocks)
    BY <1>7 DEF Commit
  <2>4. /\ DOMAIN mem_snapshots' \subseteq Height
        /\ \A h \in DOMAIN mem_snapshots' : mem_snapshots'[h] \in Tree
    BY <1>7, <2>1, <2>2, RememberType DEF Commit, IInv
  <2>5. /\ height' \in 0..MaxHeight /\ header' \in 0..MaxHeight
        /\ machine' \in {"running", "stopped"}
    BY <1>7, ApplicationAssumption, SMTT(60) DEF Commit, IInv, TypeOK
  <2>6. TypeOK'
    BY <2>1, <2>2, <2>3, <2>4, <2>5, EmptyTypes, SMTT(60) DEF IInv, TypeOK, Height
  <2>7. InfoIsLastCommit'
    BY <2>1, <2>2, <2>3, SMTT(60) DEF IInv, TypeOK, InfoIsLastCommit
  <2>8. HeaderInv'
    <3>1. /\ blocks' \in Seq(Blocks) /\ Len(blocks') <= MaxHeight
          /\ aux_height' + 1 \in Nat \ {0}
      BY <2>2, <2>3, SMTT(60) DEF IInv, TypeOK, HeaderInv, Height
    <3>2. Len(CurrentProgram') \in Nat
      BY <3>1, ProgramCalls, SMTT(60) DEF CurrentProgram
    <3> QED
      BY <2>2, <2>3, <3>1, <3>2, SMTT(60) DEF IInv, HeaderInv, TypeOK, Before
  <2> QED
    BY <2>6, <2>7, <2>8 DEF IInv
<1>8. CASE CheckTx
  <2>1. PICK tx \in Tx : mempool_state' =
          Flush(Run(GetView(mempool_state), ScanView(mempool_state),
                    [type |-> "CheckTx", tx |-> tx]).writes, mempool_state)
    BY <1>8 DEF CheckTx
  <2>2. [type |-> "CheckTx", tx |-> tx] \in Call
    BY DEF Call
  <2>3. mempool_state' \in Buffer
    BY <2>1, <2>2, ViewTypes, RunType, FlushType DEF IInv, TypeOK
  <2> QED
    BY <1>8, <2>3 DEF CheckTx, IInv, TypeOK, InfoIsLastCommit, HeaderInv,
                      CurrentProgram, merkVars, storeVars
<1>9. CASE Crash
  <2>1. crashes' \in 0..MaxCrashes
    BY <1>9, AbciAssumption, SMTT(60) DEF Crash, IInv, TypeOK
  <2> QED
    BY <1>9, <2>1, LoseVolatileKeepsIInv DEF Crash
<1>10. CASE Restart
  BY <1>10, LoseVolatileKeepsIInv DEF Restart, merkVars, IInv, TypeOK
<1>11. CASE UNCHANGED vars
  BY <1>11 DEF vars, IInv, TypeOK, InfoIsLastCommit, HeaderInv, CurrentProgram
<1> QED
  BY <1>1, <1>2, <1>3, <1>4, <1>5, <1>6, <1>7, <1>8, <1>9, <1>10, <1>11 DEF Next

\* The node starts in the invariant.
LEMMA InitIInv == Init => IInv
<1> SUFFICES ASSUME Init PROVE IInv
  OBVIOUS
<1>1. TypeOK
  BY EmptyTypes, ApplicationAssumption, AbciAssumption, SMTT(60) DEF Init, TypeOK
<1>2. InfoIsLastCommit
  BY SMTT(60) DEF Init, InfoIsLastCommit
<1>3. Len(CurrentProgram) \in Nat
  BY ProgramCalls, ApplicationAssumption, SMTT(60) DEF CurrentProgram, Init
<1>4. HeaderInv
  BY <1>3, ApplicationAssumption, SMTT(60) DEF Init, HeaderInv, Before
<1> QED
  BY <1>1, <1>2, <1>4 DEF IInv

\* The invariant holds throughout.
THEOREM Invariance == Spec => []IInv
BY InitIInv, StepKeepsIInv, PTL DEF Spec

\* Every variable of the state machine and its stores keeps its type, and so
\* the unwraps of run on taken state, header and heights are of values that
\* are there.
THEOREM TypeCorrect == Spec => []TypeOK
<1>1. IInv => TypeOK
  BY DEF IInv
<1> QED
  BY <1>1, Invariance, PTL

\* After any interleaving, failure and restart, Info reports the number of
\* blocks committed and the tree committed last.
THEOREM InfoCorrect == Spec => []InfoIsLastCommit
<1>1. IInv => InfoIsLastCommit
  BY DEF IInv
<1> QED
  BY <1>1, Invariance, PTL

-----------------------------------------------------------------------------
(* Refinement. *)

\* The state the consensus calls work on.
Working == GetView(consensus_state)

\* A call that is answered with its writes flushed somewhere into the layers
\* executes the call on the single tree of the Ledger.
LEMMA CallExecutes ==
    ASSUME IInv, NEW t, NextIs(t), ~Skipped(NextCall),
           GetView(consensus_state)' =
             View(Run(Working, ScanView(consensus_state), NextCall).writes, Working),
           sent' = sent + 1, UNCHANGED <<merk, aux_height, blocks>>
    PROVE  L!ExecuteCall
<1>1. NextCall \in Call /\ sent + 1 \in 1..Len(CurrentProgram) /\ sent \in Nat
  BY NextCallType DEF IInv, TypeOK
<1>2. Working \in Tree /\ ScanView(consensus_state) \in Tree
  BY ViewTypes DEF Working, IInv, TypeOK
<1>3. Run(Working, ScanView(consensus_state), NextCall) = Run(Working, Working, NextCall)
  BY <1>1, <1>2, RunPointReads
<1>4. L!Program(blocks, aux_height + 1) = CurrentProgram
  BY DEF L!Program, Program, CurrentProgram
<1>5. L!Apply(Working, NextCall) = View(Run(Working, Working, NextCall).writes, Working)
  BY DEF L!Apply, L!Skipped, Skipped, L!View, View, L!Run, Run,
         L!InitialState, InitialState, L!Flush, Flush, L!EmptyBuffer, EmptyBuffer
<1> QED
  BY <1>1, <1>3, <1>4, <1>5, SMTT(60) DEF L!ExecuteCall, NextCall, Working

\* Losing the volatile state brings the Ledger back to its committed state.
LEMMA LosingVolatileLosesWork ==
    ASSUME IInv, LoseVolatile, UNCHANGED <<merk, aux_height, blocks>>
    PROVE  L!LoseWork
<1>1. GetView(consensus_state)' = merk
  BY ViewEmpty DEF LoseVolatile, GetView, IInv, TypeOK
<1> QED
  BY <1>1 DEF L!LoseWork, LoseVolatile

\* What the next call sees once the writes of this one are flushed into the
\* consensus buffer, or through it into the MerkStore's map.
LEMMA CallWrites ==
    ASSUME IInv, NEW t, NextIs(t)
    PROVE  LET r == Run(Working, ScanView(consensus_state), NextCall)
           IN  /\ View(Flush(r.writes, consensus_state), View(map, merk))
                    = View(r.writes, Working)
               /\ View(EmptyBuffer, View(Flush(Flush(r.writes, consensus_state), map), merk))
                    = View(r.writes, Working)
<1> DEFINE r == Run(Working, ScanView(consensus_state), NextCall)
<1>1. r.writes \in Buffer
  BY CallType DEF Working
<1>2. consensus_state \in Buffer /\ map \in Buffer /\ merk \in Tree
  BY DEF IInv, TypeOK
<1>3. /\ View(map, merk) \in Tree
      /\ Flush(r.writes, consensus_state) \in Buffer
      /\ Flush(Flush(r.writes, consensus_state), map) \in Buffer
  BY <1>1, <1>2, ViewType, FlushType
<1>4. View(Flush(r.writes, consensus_state), View(map, merk)) = View(r.writes, Working)
  BY <1>1, <1>2, <1>3, FlushPreservesView DEF Working, GetView
<1>5. View(Flush(Flush(r.writes, consensus_state), map), merk)
        = View(Flush(r.writes, consensus_state), View(map, merk))
  BY <1>2, <1>3, FlushPreservesView
<1>6. View(Flush(Flush(r.writes, consensus_state), map), merk) \in Tree
  BY <1>2, <1>3, ViewType
<1> QED
  BY <1>4, <1>5, <1>6, ViewEmpty

\* Every step of the node is a step of the Ledger or leaves it unchanged.
LEMMA StepRefines == IInv /\ [Next]_vars => [L!LedgerNext]_(L!ledgerVars)
<1> SUFFICES ASSUME IInv, [Next]_vars PROVE L!LedgerNext \/ UNCHANGED L!ledgerVars
  OBVIOUS
<1> DEFINE r == Run(Working, ScanView(consensus_state), NextCall)
<1>0. ASSUME NEW t, NextIs(t)
      PROVE  /\ View(Flush(r.writes, consensus_state), View(map, merk))
                  = View(r.writes, Working)
             /\ View(EmptyBuffer, View(Flush(Flush(r.writes, consensus_state), map), merk))
                  = View(r.writes, Working)
  BY <1>0, CallWrites
<1> USE DEF Stop, Fail
<1>1. CASE DecideBlock
  BY <1>1 DEF DecideBlock, L!DecideBlock, L!LedgerNext, merkVars, storeVars, GetView
<1>2. CASE Info
  BY <1>2 DEF Info, L!ledgerVars, merkVars, storeVars, GetView
<1>3. CASE InitChain
  <2>1. NextIs("InitChain") /\ NextCall.type = "InitChain"
    BY <1>3, NextCallType DEF InitChain
  <2>2. CASE Fail(r.outcome)
    BY <2>2, LosingVolatileLosesWork DEF L!LedgerNext
  <2>3. CASE ~Fail(r.outcome) /\ ~SkipInitChain
    <3>1. /\ map' = Flush(Flush(r.writes, consensus_state), map)
          /\ consensus_state' = EmptyBuffer
          /\ sent' = sent + 1 /\ UNCHANGED <<merk, aux_height, blocks>>
      BY <1>3, <2>3 DEF InitChain, merkVars, Working
    <3>2. L!ExecuteCall
      BY <1>0, <2>1, <2>3, <3>1, CallExecutes DEF Skipped, GetView
    <3> QED
      BY <3>2 DEF L!LedgerNext
  <2>4. CASE ~Fail(r.outcome) /\ SkipInitChain
    <3>1. /\ sent' = sent + 1
          /\ UNCHANGED <<merk, aux_height, blocks, map, consensus_state>>
      BY <1>3, <2>4 DEF InitChain, merkVars, storeVars
    <3>2. /\ L!Program(blocks, aux_height + 1) = CurrentProgram
          /\ sent < Len(CurrentProgram)
      BY <2>1 DEF L!Program, Program, CurrentProgram, NextIs
    <3>3. L!Apply(Working, NextCall) = Working
      BY <2>1, <2>4 DEF L!Apply, L!Skipped
    <3> QED
      BY <3>1, <3>2, <3>3 DEF L!LedgerNext, L!ExecuteCall, NextCall, Working, GetView
  <2> QED
    BY <2>2, <2>3, <2>4, ApplicationAssumption
<1>4. CASE BeginBlock
  <2>1. NextIs("BeginBlock") /\ NextCall.type = "BeginBlock"
    BY <1>4, NextCallType DEF BeginBlock
  <2>2. CASE Fail(r.outcome) \/ Fail("err")
    BY <2>2, LosingVolatileLosesWork DEF L!LedgerNext
  <2>3. CASE ~(Fail(r.outcome) \/ Fail("err"))
    <3>1. /\ consensus_state' = Flush(r.writes, consensus_state)
          /\ sent' = sent + 1 /\ UNCHANGED <<merk, map, aux_height, blocks>>
      BY <1>4, <2>3 DEF BeginBlock, merkVars, storeVars, Working
    <3>2. L!ExecuteCall
      BY <1>0, <2>1, <3>1, CallExecutes DEF Skipped, GetView
    <3> QED
      BY <3>2 DEF L!LedgerNext
  <2> QED
    BY <2>2, <2>3
<1>5. CASE DeliverTx
  <2>1. NextIs("DeliverTx") /\ NextCall.type = "DeliverTx"
    BY <1>5, NextCallType DEF DeliverTx
  <2>2. CASE Fail("panic")
    BY <2>2, LosingVolatileLosesWork DEF L!LedgerNext
  <2>3. CASE ~Fail("panic")
    <3>1. /\ map' = Flush(Flush(r.writes, consensus_state), map)
          /\ consensus_state' = EmptyBuffer
          /\ sent' = sent + 1 /\ UNCHANGED <<merk, aux_height, blocks>>
      BY <1>5, <2>3 DEF DeliverTx, merkVars, Working
    <3>2. L!ExecuteCall
      BY <1>0, <2>1, <3>1, CallExecutes DEF Skipped, GetView
    <3> QED
      BY <3>2 DEF L!LedgerNext
  <2> QED
    BY <2>2, <2>3
<1>6. CASE EndBlock
  <2>1. NextIs("EndBlock") /\ NextCall.type = "EndBlock"
    BY <1>6, NextCallType DEF EndBlock
  <2>2. CASE Fail(r.outcome)
    BY <2>2, LosingVolatileLosesWork DEF L!LedgerNext
  <2>3. CASE ~Fail(r.outcome)
    <3>1. /\ consensus_state' = Flush(r.writes, consensus_state)
          /\ sent' = sent + 1 /\ UNCHANGED <<merk, map, aux_height, blocks>>
      BY <1>6, <2>3 DEF EndBlock, merkVars, storeVars, Working
    <3>2. L!ExecuteCall
      BY <1>0, <2>1, <3>1, CallExecutes DEF Skipped, GetView
    <3> QED
      BY <3>2 DEF L!LedgerNext
  <2> QED
    BY <2>2, <2>3
<1>7. CASE Commit
  <2>1. /\ merk' = Write(Flush(consensus_state, map), merk)
        /\ map' = EmptyBuffer /\ consensus_state' = EmptyBuffer
        /\ aux_height' = header /\ sent' = 0 /\ UNCHANGED blocks
        /\ aux_height < Len(blocks) /\ sent = Len(CurrentProgram)
    BY <1>7 DEF Commit
  <2>2. merk' = Working /\ Working \in Tree
    BY <2>1, FlushPreservesView, ViewTypes DEF Write, Working, GetView, IInv, TypeOK
  <2>3. GetView(consensus_state)' = Working
    BY <2>1, <2>2, ViewEmpty DEF GetView
  <2>4. aux_height' = aux_height + 1
    <3>1. /\ blocks \in Seq(Blocks) /\ Len(blocks) <= MaxHeight
          /\ aux_height + 1 \in DOMAIN blocks /\ aux_height + 1 \in Nat \ {0}
      BY <2>1, SMTT(60) DEF IInv, TypeOK, HeaderInv
    <3>2. Len(CurrentProgram) > Before(aux_height + 1)
      BY <3>1, ProgramCalls DEF CurrentProgram
    <3> QED
      BY <2>1, <3>2 DEF IInv, HeaderInv
  <2>5. L!Program(blocks, aux_height + 1) = CurrentProgram
    BY DEF L!Program, Program, CurrentProgram
  <2> QED
    BY <2>1, <2>2, <2>3, <2>4, <2>5 DEF L!CommitBlock, L!LedgerNext, Working
<1>8. CASE CheckTx
  BY <1>8 DEF CheckTx, L!ledgerVars, merkVars, storeVars, GetView
<1>9. CASE Crash
  BY <1>9, LosingVolatileLosesWork DEF Crash, L!LedgerNext
<1>10. CASE Restart
  BY <1>10, LosingVolatileLosesWork DEF Restart, merkVars, L!LedgerNext
<1>11. CASE UNCHANGED vars
  BY <1>11 DEF vars, L!ledgerVars, GetView
<1> QED
  BY <1>1, <1>2, <1>3, <1>4, <1>5, <1>6, <1>7, <1>8, <1>9, <1>10, <1>11 DEF Next

\* The ABCI state machine implements the Ledger: CheckTx, queries, failing
\* transactions, crashes and restarts are invisible to the sequence of states
\* the blocks produce, for every app that reads its state by key.
THEOREM Refinement == Spec => ImplementsLedger
<1>1. Init => L!LedgerInit
  BY ViewEmpty, ApplicationAssumption DEF Init, L!LedgerInit, GetView
<1> QED
  BY <1>1, Invariance, StepRefines, PTL DEF Spec, ImplementsLedger, L!LedgerSpec

-----------------------------------------------------------------------------
(* The snapshots that answer queries. *)

\* Kept snapshots are the newest commits without a gap, and each holds an app
\* state; so does the block's state once BeginBlock ran.
SnapshotsInv ==
    /\ \A h \in DOMAIN mem_snapshots :
          /\ h \in 1..aux_height /\ mem_snapshots[h] = history[h]
          /\ mem_snapshots[h][Root] # Absent
    /\ DOMAIN mem_snapshots # {} =>
          \E n \in 1..MaxSnapshots :
             n <= aux_height /\ DOMAIN mem_snapshots = (aux_height + 1 - n)..aux_height
    /\ sent > Before(aux_height + 1) => Working[Root] # Absent

\* Whatever a call that did not panic wrote, it wrote the app's state.
LEMMA RunWritesRoot ==
    ASSUME NEW v \in Tree, NEW s \in Tree, NEW c \in Call, Run(v, s, c).outcome # "panic"
    PROVE  View(Run(v, s, c).writes, v)[Root] # Absent
<1> DEFINE d == InitialState(v)
<1> DEFINE r == Exec(View(d, v), View(d, s), c)
<1>1. d \in Buffer
  BY ApplicationAssumption, EmptyTypes DEF InitialState, EmptyBuffer, Buffer
<1>2. View(d, v) \in Tree /\ View(d, s) \in Tree
  BY <1>1, ViewType
<1>3. r.writes[Root] \in Value
  BY <1>2, ApplicationAssumption
<1>4. Run(v, s, c).writes = Flush(r.writes, d)
  BY DEF Run
<1>5. Root \in Key
  BY ApplicationAssumption
<1>6. PICK w : w = r.writes
  OBVIOUS
<1>7. Flush(w, d)[Root] \in Value
  <2> HIDE DEF d, r
  <2> QED
    BY <1>3, <1>5, <1>6, StoreAssumption DEF Flush
<1> QED
  BY <1>4, <1>5, <1>6, <1>7, StoreAssumption DEF View

\* A window of heights moves up by one and keeps its newest.
LEMMA WindowMoves ==
    ASSUME NEW b \in Nat \ {0}, NEW a \in 1..b, NEW s, NEW t,
           DOMAIN s \cup {b} = a..b, MaxSnapshots \in Nat \ {0}
    PROVE  LET r == Remember(s, b, t)
           IN  /\ \E n \in 1..MaxSnapshots : n <= b /\ DOMAIN r = (b + 1 - n)..b
               /\ \A i \in DOMAIN r : i \in 1..b /\ r[i] = IF i = b THEN t ELSE s[i]
               /\ \A i \in DOMAIN r : i # b => i \in DOMAIN s
<1> DEFINE H == DOMAIN s \cup {b}
           r == Remember(s, b, t)
<1>1. DOMAIN r = {i \in H : Cardinality({j \in H : j > i}) < MaxSnapshots}
  BY DEF Remember
<1>2. \A i \in DOMAIN r : r[i] = IF i = b THEN t ELSE s[i]
  BY DEF Remember
<1>3. H = a..b /\ \A i \in H : i # b => i \in DOMAIN s
  OBVIOUS
<1> HIDE DEF H, r
<1>4. \A i \in H : Cardinality({j \in H : j > i}) = b - i
  <2>1. TAKE i \in H
  <2>2. {j \in H : j > i} = (i + 1)..b
    BY <1>3, SMTT(60)
  <2>3. Cardinality((i + 1)..b) = IF i + 1 > b THEN 0 ELSE b - (i + 1) + 1
    BY <1>3, FS_Interval, SMTT(60)
  <2>4. Cardinality({j \in H : j > i}) = Cardinality((i + 1)..b)
    BY <2>2
  <2>5. (IF i + 1 > b THEN 0 ELSE b - (i + 1) + 1) = b - i
    BY <1>3, SMTT(60)
  <2> QED
    BY <2>3, <2>4, <2>5
<1>5. DOMAIN r = {i \in a..b : b - i < MaxSnapshots}
  BY <1>1, <1>3, <1>4
<1>6. \E n \in 1..MaxSnapshots : n <= b /\ DOMAIN r = (b + 1 - n)..b
  <2>1. CASE b + 1 - a <= MaxSnapshots
    <3>1. PICK n \in 1..MaxSnapshots : n = b + 1 - a
      BY <2>1, SMTT(60)
    <3>2. DOMAIN r = (b + 1 - n)..b
      BY <1>5, <2>1, <3>1, SMTT(60)
    <3> QED
      BY <3>1, <3>2, SMTT(60)
  <2>2. CASE b + 1 - a > MaxSnapshots
    <3>1. DOMAIN r = (b + 1 - MaxSnapshots)..b
      BY <1>5, <2>2, SMTT(60)
    <3> QED
      BY <2>2, <3>1, SMTT(60)
  <2> QED
    BY <2>1, <2>2, SMTT(60)
<1>7. \A i \in DOMAIN r : i \in 1..b /\ (i # b => i \in DOMAIN s)
  BY <1>3, <1>5, SMTT(60)
<1> QED
  BY <1>2, <1>6, <1>7 DEF r

\* The calls of a block: a call that was answered has written the app's state.
LEMMA AnsweredKeepsSnapshots ==
    ASSUME IInv, SnapshotsInv, NEW t, NextIs(t), sent' = sent + 1,
           UNCHANGED <<merk, aux_height, history, mem_snapshots>>,
           \/ t # "BeginBlock" /\ UNCHANGED <<map, consensus_state>>
           \/ LET r == Run(Working, ScanView(consensus_state), NextCall)
              IN  /\ r.outcome # "panic"
                  /\ GetView(consensus_state)' = View(r.writes, Working)
    PROVE  SnapshotsInv'
<1> DEFINE r == Run(Working, ScanView(consensus_state), NextCall)
<1>1. /\ NextCall \in Call /\ sent \in Nat /\ aux_height \in Nat
      /\ sent = Before(aux_height + 1) => t = "BeginBlock"
  BY NextCallType, SMTT(60) DEF IInv, TypeOK
<1>2. Working \in Tree /\ ScanView(consensus_state) \in Tree
  BY ViewTypes DEF IInv, TypeOK, Working
<1>3. sent' > Before(aux_height' + 1) => Working'[Root] # Absent
  <2>1. CASE t # "BeginBlock" /\ UNCHANGED <<map, consensus_state>>
    <3>1. Working' = Working
      BY <2>1 DEF Working, GetView
    <3>2. sent' > Before(aux_height + 1) => sent > Before(aux_height + 1)
      BY <1>1, <2>1, SMTT(60) DEF Before
    <3> QED
      BY <3>1, <3>2 DEF SnapshotsInv
  <2>2. CASE r.outcome # "panic" /\ GetView(consensus_state)' = View(r.writes, Working)
    BY <1>1, <1>2, <2>2, RunWritesRoot DEF Working
  <2> QED
    BY <2>1, <2>2
<1> QED
  BY <1>3 DEF SnapshotsInv

\* Without snapshots and calls there is nothing to keep.
LEMMA LosingVolatileLosesSnapshots ==
    ASSUME IInv, LoseVolatile, UNCHANGED aux_height
    PROVE  SnapshotsInv'
<1>1. DOMAIN mem_snapshots' = {} /\ sent' = 0
  BY DEF LoseVolatile
<1> QED
  BY <1>1, SMTT(60) DEF SnapshotsInv, Before

\* Every step keeps the snapshots those of the last heights.
LEMMA StepKeepsSnapshots == IInv /\ SnapshotsInv /\ [Next]_vars => SnapshotsInv'
<1> SUFFICES ASSUME IInv, SnapshotsInv, [Next]_vars PROVE SnapshotsInv'
  OBVIOUS
<1> DEFINE r == Run(Working, ScanView(consensus_state), NextCall)
<1>0. ASSUME NEW t, NextIs(t)
      PROVE  /\ View(Flush(r.writes, consensus_state), View(map, merk))
                  = View(r.writes, Working)
             /\ View(EmptyBuffer, View(Flush(Flush(r.writes, consensus_state), map), merk))
                  = View(r.writes, Working)
  BY <1>0, CallWrites
<1> USE DEF Stop, Fail
<1>1. CASE DecideBlock \/ Info \/ CheckTx \/ UNCHANGED vars
  <2>1. UNCHANGED <<merk, aux_height, history, map, consensus_state, mem_snapshots, sent>>
    BY <1>1 DEF DecideBlock, Info, CheckTx, vars, merkVars, storeVars
  <2>2. Working' = Working
    BY <2>1 DEF Working, GetView
  <2> QED
    BY <2>1, <2>2 DEF SnapshotsInv
<1>2. CASE LoseVolatile /\ UNCHANGED aux_height
  BY <1>2, LosingVolatileLosesSnapshots
<1>3. CASE InitChain /\ ~LoseVolatile
  <2>1. NextIs("InitChain") /\ sent' = sent + 1 /\ UNCHANGED <<merk, aux_height, history, mem_snapshots>>
    BY <1>3 DEF InitChain, merkVars
  <2>2. CASE SkipInitChain
    BY <1>3, <2>1, <2>2, AnsweredKeepsSnapshots DEF InitChain
  <2>3. CASE ~SkipInitChain
    <3>1. /\ r.outcome = "ok" /\ map' = Flush(Flush(r.writes, consensus_state), map)
          /\ consensus_state' = EmptyBuffer
      BY <1>3, <2>3 DEF InitChain, Working
    <3>2. GetView(consensus_state)' = View(r.writes, Working)
      BY <1>0, <2>1, <3>1 DEF GetView
    <3> QED
      BY <2>1, <3>1, <3>2, AnsweredKeepsSnapshots
  <2> QED
    BY <2>2, <2>3
<1>4. CASE BeginBlock /\ ~LoseVolatile
  <2>1. /\ NextIs("BeginBlock") /\ sent' = sent + 1 /\ r.outcome = "ok"
        /\ UNCHANGED <<merk, aux_height, history, mem_snapshots, map>>
        /\ consensus_state' = Flush(r.writes, consensus_state)
    BY <1>4 DEF BeginBlock, merkVars, storeVars, Working
  <2>2. GetView(consensus_state)' = View(r.writes, Working)
    BY <1>0, <2>1 DEF GetView
  <2> QED
    BY <2>1, <2>2, AnsweredKeepsSnapshots
<1>5. CASE DeliverTx /\ ~LoseVolatile
  <2>1. /\ NextIs("DeliverTx") /\ sent' = sent + 1 /\ r.outcome # "panic"
        /\ UNCHANGED <<merk, aux_height, history, mem_snapshots>>
        /\ map' = Flush(Flush(r.writes, consensus_state), map)
        /\ consensus_state' = EmptyBuffer
    BY <1>5 DEF DeliverTx, merkVars, Working
  <2>2. GetView(consensus_state)' = View(r.writes, Working)
    BY <1>0, <2>1 DEF GetView
  <2> QED
    BY <2>1, <2>2, AnsweredKeepsSnapshots
<1>6. CASE EndBlock /\ ~LoseVolatile
  <2>1. /\ NextIs("EndBlock") /\ sent' = sent + 1 /\ r.outcome = "ok"
        /\ UNCHANGED <<merk, aux_height, history, mem_snapshots, map>>
        /\ consensus_state' = Flush(r.writes, consensus_state)
    BY <1>6 DEF EndBlock, merkVars, storeVars, Working
  <2>2. GetView(consensus_state)' = View(r.writes, Working)
    BY <1>0, <2>1 DEF GetView
  <2> QED
    BY <2>1, <2>2, AnsweredKeepsSnapshots
<1>7. CASE Commit
  <2>1. /\ merk' = Write(Flush(consensus_state, map), merk)
        /\ mem_snapshots' = IF height >= StopHeight THEN [h \in {} |-> EmptyTree]
                            ELSE Remember(mem_snapshots, header, merk')
        /\ history' = Append(history, merk') /\ aux_height' = header /\ sent' = 0
        /\ aux_height < Len(blocks) /\ sent = Len(CurrentProgram)
    BY <1>7 DEF Commit
  <2>2. merk' = Working /\ Working \in Tree
    BY <2>1, FlushPreservesView, ViewTypes DEF Write, Working, GetView, IInv, TypeOK
  <2>3. /\ aux_height \in Nat /\ history \in Seq(Tree) /\ aux_height = Len(history)
        /\ MaxSnapshots \in Nat \ {0}
    BY AbciAssumption, SMTT(60) DEF IInv, TypeOK, InfoIsLastCommit
  <2>4. sent > Before(aux_height + 1) /\ header = aux_height + 1
    <3>1. /\ blocks \in Seq(Blocks) /\ Len(blocks) <= MaxHeight
          /\ aux_height + 1 \in DOMAIN blocks /\ aux_height + 1 \in Nat \ {0}
      BY <2>1, SMTT(60) DEF IInv, TypeOK, HeaderInv
    <3>2. Len(CurrentProgram) > Before(aux_height + 1)
      BY <3>1, ProgramCalls DEF CurrentProgram
    <3> QED
      BY <2>1, <3>2 DEF IInv, HeaderInv
  <2>a. merk'[Root] # Absent
    BY <2>2, <2>4 DEF SnapshotsInv
  <2>b. merk' \in Tree
    BY <2>2
  <2>c. history'[header] = merk' /\ \A h \in 1..aux_height : history'[h] = history[h]
    BY <2>1, <2>3, <2>4, <2>b, SMTT(60)
  <2>5. /\ history'[header] = merk' /\ \A h \in 1..aux_height : history'[h] = history[h]
        /\ merk'[Root] # Absent
    BY <2>a, <2>c
  <2>6. sent' > Before(aux_height' + 1) => Working'[Root] # Absent
    BY <2>1, SMTT(60) DEF Before
  <2>7. CASE height >= StopHeight
    <3>1. DOMAIN mem_snapshots' = {}
      BY <2>1, <2>7
    <3> QED
      BY <2>6, <3>1 DEF SnapshotsInv
  <2>8. CASE ~(height >= StopHeight)
    <3>1. \E a \in 1..header : DOMAIN mem_snapshots \cup {header} = a..header
      <4>1. CASE DOMAIN mem_snapshots = {}
        <5>1. {header} = header..header /\ header \in 1..header
          BY <2>3, <2>4, SMTT(60)
        <5> QED
          BY <4>1, <5>1
      <4>2. CASE DOMAIN mem_snapshots # {}
        <5>1. PICK n \in 1..MaxSnapshots :
                 n <= aux_height /\ DOMAIN mem_snapshots = (aux_height + 1 - n)..aux_height
          BY <4>2 DEF SnapshotsInv
        <5>2. PICK a \in 1..header : a = aux_height + 1 - n /\ a <= aux_height
          BY <2>3, <2>4, <5>1, SMTT(60)
        <5>3. (a..aux_height) \cup {header} = a..header
          BY <2>3, <2>4, <5>2, SMTT(60)
        <5> QED
          BY <5>1, <5>2, <5>3
      <4> QED
        BY <4>1, <4>2
    <3>2. PICK a \in 1..header : DOMAIN mem_snapshots \cup {header} = a..header
      BY <3>1
    <3>3. PICK m : m = Remember(mem_snapshots, header, merk')
      OBVIOUS
    <3>4. header \in Nat \ {0}
      BY <2>3, <2>4, SMTT(60)
    <3>5. /\ \E n \in 1..MaxSnapshots : n <= header /\ DOMAIN m = (header + 1 - n)..header
          /\ \A i \in DOMAIN m : i \in 1..header /\ m[i] = IF i = header THEN merk' ELSE mem_snapshots[i]
          /\ \A i \in DOMAIN m : i # header => i \in DOMAIN mem_snapshots
      BY <2>3, <3>2, <3>3, <3>4, WindowMoves, SMTT(60)
    <3>6. mem_snapshots' = m
      BY <2>1, <2>8, <3>3
    <3>a. \A h \in DOMAIN mem_snapshots :
             mem_snapshots[h] = history'[h] /\ mem_snapshots[h][Root] # Absent
      BY <2>5 DEF SnapshotsInv
    <3>7. \A h \in DOMAIN m : /\ h \in 1..header /\ m[h] = history'[h] /\ m[h][Root] # Absent
      BY <2>5, <3>5, <3>a
    <3> QED
      BY <2>1, <2>6, <3>5, <3>6, <3>7 DEF SnapshotsInv
  <2> QED
    BY <2>7, <2>8
<1>8. CASE Crash \/ Restart
  BY <1>8, LosingVolatileLosesSnapshots DEF Crash, Restart, merkVars
<1>9. (InitChain \/ BeginBlock \/ DeliverTx \/ EndBlock) /\ LoseVolatile => UNCHANGED aux_height
  BY DEF InitChain, BeginBlock, DeliverTx, EndBlock, merkVars
<1> QED
  BY <1>1, <1>2, <1>3, <1>4, <1>5, <1>6, <1>7, <1>8, <1>9 DEF Next

\* A node without blocks has no snapshots.
LEMMA SnapshotsStart == Init => SnapshotsInv
  BY SMTT(60) DEF Init, SnapshotsInv, Before

\* With snapshots of the last heights only, a query sees the state committed
\* at the height it is answered at.
LEMMA SnapshotsSeen == IInv /\ SnapshotsInv => QueriesSeeCommittedState
<1> SUFFICES ASSUME IInv, SnapshotsInv PROVE QueriesSeeCommittedState
  OBVIOUS
<1>1. aux_height \in Nat /\ history \in Seq(Tree) /\ aux_height = Len(history)
  BY SMTT(60) DEF IInv, TypeOK, InfoIsLastCommit
<1>2. \A r \in 0..MaxHeight : \A h \in QuerySnapshot(r) :
         h \in DOMAIN history /\ mem_snapshots[h] = history[h]
  BY <1>1, SMTT(60) DEF QuerySnapshot, SnapshotsInv
<1>3. DOMAIN mem_snapshots # {} =>
         \E n \in 1..MaxSnapshots : DOMAIN mem_snapshots = (aux_height + 1 - n)..aux_height
  BY DEF SnapshotsInv
<1>4. QuerySnapshot(0) = IF DOMAIN mem_snapshots = {} THEN {} ELSE {aux_height}
  <2>1. CASE DOMAIN mem_snapshots = {}
    BY <2>1 DEF QuerySnapshot
  <2>2. CASE DOMAIN mem_snapshots # {}
    <3>1. PICK n \in 1..MaxSnapshots :
             n <= aux_height /\ DOMAIN mem_snapshots = (aux_height + 1 - n)..aux_height
      BY <2>2 DEF SnapshotsInv
    <3>2. /\ aux_height \in DOMAIN mem_snapshots
          /\ \A i \in DOMAIN mem_snapshots : i \in Nat /\ i <= aux_height
      BY <1>1, <3>1, SMTT(60)
    <3>3. mem_snapshots[aux_height][Root] # Absent
      BY <3>2 DEF SnapshotsInv
    <3> QED
      BY <1>1, <2>2, <3>2, <3>3, SMTT(60) DEF QuerySnapshot
  <2> QED
    BY <2>1, <2>2
<1>5. \A r \in 0..MaxHeight : \A h \in QuerySnapshot(r) : r = 0 => h = aux_height
  BY <1>4
<1> QED
  BY <1>2, <1>3, <1>4, <1>5 DEF QueriesSeeCommittedState

\* Queries are answered from committed states at the height they report, the
\* newest when none was asked for, out of a window without gaps: whatever
\* crashes, stops and failing calls came before.
THEOREM QueriesCorrect == Spec => []QueriesSeeCommittedState
  BY InitIInv, StepKeepsIInv, SnapshotsStart, StepKeepsSnapshots, SnapshotsSeen, PTL DEF Spec
=============================================================================
