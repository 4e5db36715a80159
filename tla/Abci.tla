-------------------------------- MODULE Abci ---------------------------------
(***************************************************************************)
(* ABCIStateMachine over a MerkStore: every ABCI request that reads or     *)
(* changes the store, with the buffers between the app and the Merk tree.  *)
(* Consensus, mempool and query requests arrive on different connections   *)
(* and interleave freely; the node may stop at any point and is restarted  *)
(* from its durable state.                                                 *)
(*                                                                         *)
(*   app -> BufStore -> BufStore(consensus_state or mempool_state)         *)
(*       -> MerkStore { map } -> merk                                      *)
(***************************************************************************)
EXTENDS Application, FiniteSets

CONSTANTS StopHeight,    \* ORGA_STOP_HEIGHT (above MaxHeight when it is not set)
          MaxSnapshots,  \* how many mem_snapshots are kept (20 in the code)
          MaxCrashes     \* bound: how often the process is killed

ASSUME AbciAssumption ==
    /\ StopHeight \in Nat
    /\ MaxSnapshots \in Nat \ {0}
    /\ MaxCrashes \in Nat

\* MerkStore::get_next and get_prev do not see the MerkStore's map, so an app
\* that iterates over its collections can observe the buffers
\* (ScansSeeEveryEntry); what the state machine guarantees to the others, which
\* reach their state by key only, is proved under this assumption.
ASSUME PointReadsAssumption ==
    \A v \in Tree, s \in Tree, c \in Call : Exec(v, s, c) = Exec(v, v, c)

VARIABLES
    \* durable: the Merk database
    merk,             \* the Merkle tree
    aux_height,       \* the auxiliary "height" entry
    \* volatile: MerkStore
    map,              \* writes that are not yet in merk
    mem_snapshots,    \* height -> tree, for historical queries
    \* volatile: ABCIStateMachine
    consensus_state,
    mempool_state,
    height,           \* set by EndBlock
    header,           \* height of the header of the last BeginBlock, 0 for None
    machine,          \* "handshake", "running", or why it is not
    \* Tendermint (external)
    blocks,           \* the blocks decided so far
    sent,             \* calls of block aux_height + 1 answered so far
    \* history
    history,          \* the tree committed at each height
    crashes

merkVars  == <<merk, aux_height, history>>
storeVars == <<map, mem_snapshots>>
vars == <<merk, aux_height, map, mem_snapshots, consensus_state, mempool_state,
          height, header, machine, blocks, sent, history, crashes>>

-----------------------------------------------------------------------------

\* What point reads and iteration through BufStore(buffer) over the MerkStore
\* see: MerkStore::get consults map first, get_next and get_prev only merk.
GetView(buffer)  == View(buffer, View(map, merk))
ScanView(buffer) == View(buffer, merk)

\* The call Tendermint is to send next, and whether it is of the given type.
CurrentProgram == Program(blocks, aux_height + 1)
NextIs(type) ==
    /\ machine = "running"
    /\ sent < Len(CurrentProgram)
    /\ CurrentProgram[sent + 1].type = type
NextCall == CurrentProgram[sent + 1]

\* The volatile state is gone: the process ended, or self.app and self.store
\* were taken by a request that returned Err and never put back.
LoseVolatile ==
    /\ map' = EmptyBuffer
    /\ consensus_state' = EmptyBuffer
    /\ mempool_state' = EmptyBuffer
    /\ mem_snapshots' = [h \in {} |-> EmptyTree]
    /\ height' = 0
    /\ header' = 0
    /\ sent' = 0

Stop(reason) ==
    /\ machine' = reason
    /\ LoseVolatile
    /\ UNCHANGED <<merk, aux_height, history, blocks>>

\* The app failed in a way the state machine does not answer.
Fail(outcome) ==
    /\ Stop(IF outcome = "panic" THEN "panicked" ELSE "stopped")
    /\ UNCHANGED crashes

-----------------------------------------------------------------------------

Init ==
    /\ merk \in InitialTrees
    /\ aux_height = 0
    /\ map = EmptyBuffer
    /\ mem_snapshots = [h \in {} |-> EmptyTree]
    /\ consensus_state = EmptyBuffer
    /\ mempool_state = EmptyBuffer
    /\ height = 0
    /\ header = 0
    /\ machine = "handshake"
    /\ blocks = <<>>
    /\ sent = 0
    /\ history = <<>>
    /\ crashes = 0

\* The network decides the next block; it is stored by Tendermint before it
\* is sent to the app, so a restarted node is sent the same block again.
DecideBlock ==
    /\ Len(blocks) = aux_height
    /\ Len(blocks) < MaxHeight
    /\ \E b \in Blocks : blocks' = Append(blocks, b)
    /\ UNCHANGED <<merkVars, storeVars, consensus_state, mempool_state, height,
                   header, machine, sent, crashes>>

\* Info answers with the durable height and root hash, from which Tendermint
\* continues.
Info ==
    /\ machine = "handshake"
    /\ machine' = "running"
    /\ UNCHANGED <<merkVars, storeVars, consensus_state, mempool_state, height,
                   header, blocks, sent, crashes>>

\* Genesis is flushed through consensus_state into the MerkStore's map, and
\* becomes durable with the first commit.
InitChain ==
    /\ NextIs("InitChain")
    /\ LET r == Run(GetView(consensus_state), ScanView(consensus_state), NextCall)
       IN  \/ /\ SkipInitChain
              /\ sent' = sent + 1
              /\ UNCHANGED <<map, consensus_state, machine>>
              /\ UNCHANGED <<merkVars, mem_snapshots, mempool_state, height,
                             header, blocks, crashes>>
           \/ /\ ~SkipInitChain
              /\ r.outcome = "ok"
              /\ map' = Flush(Flush(r.writes, consensus_state), map)
              /\ consensus_state' = EmptyBuffer
              /\ sent' = sent + 1
              /\ UNCHANGED <<merkVars, mem_snapshots, mempool_state, height,
                             header, machine, blocks, crashes>>
           \/ /\ ~SkipInitChain
              /\ r.outcome # "ok"
              /\ Fail(r.outcome)

PastStopHeight_Early(h) == h >= StopHeight

PastStopHeight(h) == h > StopHeight

\* A variant that does not keep the header.
BeginBlock_StaleHeader ==
    /\ NextIs("BeginBlock")
    /\ LET r == Run(GetView(consensus_state), ScanView(consensus_state), NextCall)
       IN  consensus_state' = Flush(r.writes, consensus_state)
    /\ sent' = sent + 1
    /\ UNCHANGED <<merkVars, storeVars, mempool_state, height, header, machine,
                   blocks, crashes>>

BeginBlock ==
    /\ NextIs("BeginBlock")
    /\ LET r == Run(GetView(consensus_state), ScanView(consensus_state), NextCall)
       IN  \/ /\ PastStopHeight(NextCall.height)
              /\ Fail("err")
           \/ /\ ~PastStopHeight(NextCall.height)
              /\ r.outcome = "ok"
              /\ header' = NextCall.height
              /\ consensus_state' = Flush(r.writes, consensus_state)
              /\ sent' = sent + 1
              /\ UNCHANGED <<merkVars, storeVars, mempool_state, height,
                             machine, blocks, crashes>>
           \/ /\ ~PastStopHeight(NextCall.height)
              /\ r.outcome # "ok"
              /\ Fail(r.outcome)

\* Unlike the other calls of a block, DeliverTx flushes consensus_state into
\* the MerkStore.  A transaction that returned Err is flushed too; one that
\* panicked takes the state machine's thread down when its poisoned state is
\* locked again.
DeliverTx ==
    /\ NextIs("DeliverTx")
    /\ LET r == Run(GetView(consensus_state), ScanView(consensus_state), NextCall)
       IN  \/ /\ r.outcome # "panic"
              /\ map' = Flush(Flush(r.writes, consensus_state), map)
              /\ consensus_state' = EmptyBuffer
              /\ sent' = sent + 1
              /\ UNCHANGED <<merkVars, mem_snapshots, mempool_state, height,
                             header, machine, blocks, crashes>>
           \/ /\ r.outcome = "panic"
              /\ Fail("panic")

EndBlock ==
    /\ NextIs("EndBlock")
    /\ LET r == Run(GetView(consensus_state), ScanView(consensus_state), NextCall)
       IN  \/ /\ r.outcome = "ok"
              /\ height' = NextCall.height
              /\ consensus_state' = Flush(r.writes, consensus_state)
              /\ sent' = sent + 1
              /\ UNCHANGED <<merkVars, storeVars, mempool_state, header,
                             machine, blocks, crashes>>
           \/ /\ r.outcome # "ok"
              /\ Fail(r.outcome)

\* A variant that drops the newest snapshot of a full window.
Remember_DropsNewest(snapshots, h, tree) ==
    IF Cardinality(DOMAIN snapshots) = MaxSnapshots THEN snapshots
    ELSE [i \in DOMAIN snapshots \cup {h} |->
            IF i = h THEN tree ELSE snapshots[i]]

\* MerkStore::commit's window of in-memory snapshots: the new one is added,
\* the oldest ones are popped while there are too many.
Remember(snapshots, h, tree) ==
    LET heights == DOMAIN snapshots \cup {h}
        kept    == {i \in heights :
                      Cardinality({j \in heights : j > i}) < MaxSnapshots}
    IN  [i \in kept |-> IF i = h THEN tree ELSE snapshots[i]]

\* Commit flushes consensus_state into the MerkStore, whose map is written to
\* merk in one batch with the header's height; listen then stops the node if
\* the stop height is reached.
Commit ==
    /\ machine = "running"
    /\ aux_height < Len(blocks)
    /\ sent = Len(CurrentProgram)
    /\ LET tree == Write(Flush(consensus_state, map), merk)
       IN  /\ merk' = tree
           /\ mem_snapshots' = IF height >= StopHeight
                               THEN [h \in {} |-> EmptyTree]
                               ELSE Remember(mem_snapshots, header, tree)
           /\ history' = Append(history, tree)
    /\ aux_height' = header
    /\ map' = EmptyBuffer
    /\ consensus_state' = EmptyBuffer
    /\ mempool_state' = EmptyBuffer
    /\ sent' = 0
    /\ \/ /\ height < StopHeight
          /\ UNCHANGED <<height, header, machine>>
       \/ /\ height >= StopHeight
          /\ machine' = "stopped"
          /\ height' = 0
          /\ header' = 0
    /\ UNCHANGED <<blocks, crashes>>

\* A variant that wraps the store with the consensus buffer.
CheckTx_OnConsensusState ==
    /\ machine = "running"
    /\ \E tx \in Tx :
         LET r == Run(GetView(consensus_state), ScanView(consensus_state),
                      [type |-> "CheckTx", tx |-> tx])
         IN  consensus_state' = Flush(r.writes, consensus_state)
    /\ UNCHANGED <<merkVars, storeVars, mempool_state, height, header,
                   machine, blocks, sent, crashes>>

\* CheckTx runs on mempool_state over the MerkStore, including what the
\* current block has already flushed into map.  Every outcome is answered.
CheckTx ==
    /\ machine = "running"
    /\ \E tx \in Tx :
         LET r == Run(GetView(mempool_state), ScanView(mempool_state),
                      [type |-> "CheckTx", tx |-> tx])
         IN  mempool_state' = Flush(r.writes, mempool_state)
    /\ UNCHANGED <<merkVars, storeVars, consensus_state, height, header,
                   machine, blocks, sent, crashes>>

\* InternalApp::query reads an in-memory snapshot, the last one or the one of
\* the requested height, and changes nothing; None is an error response.
QuerySnapshot(req_height) ==
    LET available == {h \in DOMAIN mem_snapshots :
                        /\ req_height \in {0, h}
                        /\ \A i \in DOMAIN mem_snapshots :
                             req_height = 0 => i <= h}
    IN  {h \in available : mem_snapshots[h][Root] # Absent}

Crash ==
    /\ machine \in {"handshake", "running"}
    /\ crashes < MaxCrashes
    /\ crashes' = crashes + 1
    /\ Stop("killed")

\* Node::run: MerkStore::new and ABCIStateMachine::new on the existing
\* database.
Restart ==
    /\ machine \in {"stopped", "panicked", "killed"}
    /\ machine' = "handshake"
    /\ LoseVolatile
    /\ UNCHANGED <<merkVars, blocks, crashes>>

Next ==
    \/ DecideBlock
    \/ Info
    \/ InitChain
    \/ BeginBlock
    \/ DeliverTx
    \/ EndBlock
    \/ Commit
    \/ CheckTx
    \/ Crash
    \/ Restart

Spec == Init /\ [][Next]_vars

-----------------------------------------------------------------------------

TypeOK ==
    /\ merk \in Tree
    /\ aux_height \in 0..MaxHeight
    /\ map \in Buffer
    /\ DOMAIN mem_snapshots \subseteq Height
    /\ \A h \in DOMAIN mem_snapshots : mem_snapshots[h] \in Tree
    /\ consensus_state \in Buffer
    /\ mempool_state \in Buffer
    /\ height \in 0..MaxHeight
    /\ header \in 0..MaxHeight
    /\ machine \in {"handshake", "running", "stopped", "panicked", "killed"}
    /\ blocks \in Seq(Blocks)
    /\ sent \in Nat
    /\ history \in Seq(Tree)
    /\ crashes \in 0..MaxCrashes

(***************************************************************************)
(* The state machine implements the Ledger: whatever CheckTx requests,     *)
(* failing transactions, crashes and restarts come between the calls of a  *)
(* block, the state seen by the next consensus call is the one a single    *)
(* unbuffered tree would have, and Commit makes exactly that state durable *)
(* under the next height.  (ABCIStateMachine::run with BufStore and        *)
(* MerkStore.)                                                             *)
(***************************************************************************)
L == INSTANCE Ledger WITH working   <- GetView(consensus_state),
                          committed <- merk,
                          height    <- aux_height,
                          done      <- sent

ImplementsLedger == L!LedgerSpec

(***************************************************************************)
(* What Info reports after any restart is the number of blocks committed   *)
(* so far, and the tree it hashes is the one of that block: Commit takes   *)
(* the height from the header of a BeginBlock that the same process saw.   *)
(***************************************************************************)
InfoIsLastCommit ==
    /\ aux_height = Len(history)
    /\ aux_height > 0 => merk = history[aux_height]

(***************************************************************************)
(* A query is answered from a state that was committed, at the height that *)
(* it reports: the requested one, or the newest when none was requested.   *)
(* The available heights are the newest ones without a gap, and no more    *)
(* than the window allows.  (InternalApp::query, MerkStore::commit.)       *)
(***************************************************************************)
QueriesSeeCommittedState ==
    /\ \A r \in 0..MaxHeight : \A h \in QuerySnapshot(r) :
          /\ h \in DOMAIN history
          /\ mem_snapshots[h] = history[h]
          /\ r = 0 => h = aux_height
    /\ DOMAIN mem_snapshots # {} =>
          /\ QuerySnapshot(0) = {aux_height}
          /\ \E n \in 1..MaxSnapshots :
                DOMAIN mem_snapshots = (aux_height + 1 - n)..aux_height

(***************************************************************************)
(* Read::get_next: "Gets the key/value entry which comes directly after    *)
(* `key`": an entry that can be read can be found by iterating, for every  *)
(* consensus call.                                                         *)
(***************************************************************************)
ScansSeeEveryEntry ==
    machine = "running" => ScanView(consensus_state) = GetView(consensus_state)

(***************************************************************************)
(* The requests of one connection are answered one after another and       *)
(* Tendermint sends them as long as the node is up; a stopped node is      *)
(* started again.                                                          *)
(***************************************************************************)
Consensus == InitChain \/ BeginBlock \/ DeliverTx \/ EndBlock \/ Commit

Fairness == WF_vars(DecideBlock) /\ WF_vars(Info) /\ WF_vars(Consensus) /\ WF_vars(Restart)

FairSpec == Spec /\ Fairness

(***************************************************************************)
(* Every decided block up to ORGA_STOP_HEIGHT is eventually committed, and *)
(* none above it: a node that is killed finitely often replays the block   *)
(* until it is, and one that has stopped stops again when it is restarted. *)
(***************************************************************************)
BlocksAreCommitted ==
    /\ [](aux_height <= StopHeight)
    /\ \A h \in Height : (h <= StopHeight /\ Len(blocks) >= h) ~> (aux_height >= h)
=============================================================================
