------------------------------ MODULE StateSync -------------------------------
(***************************************************************************)
(* State sync of one node: the snapshots MerkStore::commit takes and       *)
(* prunes, and the restore of a peer's snapshot chunk by chunk, with       *)
(* crashes between the steps that change the disk.  The state of the chain *)
(* after block h is represented by h; the empty tree is 0.                 *)
(***************************************************************************)
EXTENDS Integers, FiniteSets

CONSTANTS Interval, First, Limit, \* the filters (1000, 2 and 4 in the code)
          Chunks,                 \* chunks of a snapshot
          Modulus,                \* of the heights' arithmetic (2^64)
          MaxTip, MaxSyncCrashes, MaxResets

StateSyncAssumption ==
    /\ {Interval, First, Limit, Chunks, Modulus, MaxTip} \subseteq Nat \ {0}
    /\ {MaxSyncCrashes, MaxResets} \subseteq Nat
    /\ First % Interval # 0
    /\ MaxTip + Interval * Limit <= Modulus

SnapHeight == 1 .. MaxTip

\* A tree that is the state after no block.
Mixed == MaxTip + 1

VARIABLES db,         \* disk: tree and height of the Merk store
          restore,    \* disk: the tree in "restore", 0 without the directory
          disk,       \* disk: the heights under "snapshots"
          snapshots,  \* memory: the snapshots that are offered to peers
          target,     \* memory: target_snapshot, 0 for None
          restorer,   \* memory: the snapshot it restores, and chunks applied
          pc,         \* memory: where commit or apply_snapshot_chunk is
          phase,      \* Tendermint: syncing state, or running blocks
          next,       \* Tendermint: the chunk it applies next
          tip, fresh, \* the network: its height, its last block is recent
          sync_crashes, resets

node == <<db, restore, disk>>
memory == <<snapshots, target, restorer, pc>>
network == <<tip, fresh>>
counts == <<sync_crashes, resets>>
sync_vars == <<node, memory, phase, next, network, counts>>

NoRestorer == [of |-> 0, applied |-> 0]

-----------------------------------------------------------------------------
(* Snapshots. *)

should_create(h) == h % Interval = 0 \/ h = First

\* u64 subtraction wraps around.
should_keep_Late(ss, cur) ==
    \/ ss % Interval = 0 /\ (cur - ss) % Modulus <= Interval * Limit
    \/ ss = First
should_keep(ss, cur) ==
    \/ ss % Interval = 0 /\ (cur - ss) % Modulus < Interval * Limit
    \/ ss = First

\* Less than ten seconds old: only the last block can be.
Recent(h) == h = tip /\ fresh

\* Tree and height are written in one batch, and flushed.
SyncCommit ==
    LET h == db.height + 1 IN
    /\ pc = "idle" /\ phase = "blocks" /\ h <= tip
    /\ db' = [tree |-> h, height |-> h]
    /\ pc' = IF Recent(h) /\ should_create(h) THEN "checkpoint" ELSE "idle"
    /\ UNCHANGED <<restore, disk, snapshots, target, restorer, phase, next, network, counts>>

\* RocksDB does not write a checkpoint over another: commit fails, and the
\* server stops with it.
Checkpoint ==
    /\ pc = "checkpoint"
    /\ IF db.height \notin disk
       THEN /\ disk' = disk \cup {db.height}
            /\ snapshots' = snapshots \cup {db.height}
            /\ pc' = "prune"
            /\ UNCHANGED <<target, restorer>>
       ELSE /\ pc' = "down" /\ snapshots' = {} /\ target' = 0 /\ restorer' = NoRestorer
            /\ UNCHANGED disk
    /\ UNCHANGED <<db, restore, phase, next, network, counts>>

\* One directory of maybe_prune at a time, the oldest first.
Prune ==
    LET remove == {ss \in snapshots : ~should_keep(ss, db.height)} IN
    /\ pc = "prune"
    /\ IF remove = {}
       THEN pc' = "idle" /\ UNCHANGED <<snapshots, disk>>
       ELSE \E ss \in remove :
              /\ \A other \in remove : ss <= other
              /\ snapshots' = snapshots \ {ss} /\ disk' = disk \ {ss}
              /\ UNCHANGED pc
    /\ UNCHANGED <<db, restore, target, restorer, phase, next, network, counts>>

-----------------------------------------------------------------------------
(* Restore. *)

\* A peer's snapshot, with a hash that Tendermint has verified; it may have
\* given up on another one.
OfferSnapshot(h) ==
    /\ pc = "idle" /\ phase = "sync"
    /\ h <= tip /\ should_create(h)
    /\ target' = h /\ next' = 0
    /\ UNCHANGED <<node, snapshots, restorer, pc, phase, network, counts>>

\* merk::Restorer takes the chunks of its snapshot in their order (external).
process_chunk_Unverified(r, h, i) == TRUE
process_chunk(r, h, i) == h = r.of /\ i = r.applied

chunks_remaining(r) == Chunks - r.applied

\* Tendermint hands over chunk i of snapshot h, or one that a peer made up
\* (h = 0); an error makes it fetch the chunk again.
ApplyChunk(h, i) ==
    LET r == IF restorer # NoRestorer THEN restorer ELSE [of |-> target, applied |-> 0]
        r1 == [r EXCEPT !.applied = @ + 1]
        fails == restorer = NoRestorer /\ restore # 0
    IN
    /\ pc = "idle" /\ phase = "sync" /\ target # 0
    /\ IF fails
       THEN UNCHANGED <<restore, restorer, pc, next>>
       ELSE IF ~process_chunk(r, h, i)
       THEN restorer' = r /\ restore' = r.of /\ UNCHANGED <<pc, next>>
       ELSE /\ next' = (i + 1) % Chunks
            /\ restore' = IF h = r.of /\ i = r.applied THEN r.of ELSE Mixed
            /\ IF chunks_remaining(r1) = 0
               THEN restorer' = NoRestorer /\ pc' = "destroy"
               ELSE restorer' = r1 /\ UNCHANGED pc
    /\ UNCHANGED <<db, disk, snapshots, target, phase, network, counts>>

Destroy ==
    /\ pc = "destroy"
    /\ pc' = "rename"
    /\ db' = [tree |-> 0, height |-> 0]
    /\ UNCHANGED <<restore, disk, snapshots, target, restorer, phase, next, network, counts>>

\* The restored tree has no height yet.
Rename ==
    /\ pc = "rename"
    /\ pc' = "height"
    /\ db' = [tree |-> restore, height |-> 0] /\ restore' = 0
    /\ UNCHANGED <<disk, snapshots, target, restorer, phase, next, network, counts>>

\* The height is written and flushed; Tendermint goes on to the blocks.
WriteHeight ==
    /\ pc = "height"
    /\ pc' = "idle"
    /\ db' = [db EXCEPT !.height = target]
    /\ phase' = "blocks"
    /\ UNCHANGED <<restore, disk, snapshots, target, restorer, next, network, counts>>

-----------------------------------------------------------------------------
SyncCrash ==
    /\ pc # "down" /\ sync_crashes < MaxSyncCrashes
    /\ sync_crashes' = sync_crashes + 1
    /\ pc' = "down" /\ snapshots' = {} /\ target' = 0 /\ restorer' = NoRestorer
    /\ UNCHANGED <<node, phase, next, network, resets>>

\* MerkStore::new.
maybe_remove_restore_Kept == UNCHANGED restore
maybe_remove_restore == restore' = 0
SyncRestart ==
    /\ pc = "down"
    /\ pc' = "idle" /\ snapshots' = disk /\ next' = 0
    /\ maybe_remove_restore
    /\ UNCHANGED <<db, disk, target, restorer, phase, network, counts>>

\* The operator clears Tendermint's data and syncs the state again, which
\* takes longer than a block is recent (external).
Reset ==
    /\ pc = "down" /\ resets < MaxResets
    /\ resets' = resets + 1
    /\ phase' = "sync" /\ fresh' = FALSE
    /\ UNCHANGED <<node, memory, next, tip, sync_crashes>>

\* The network makes a block; a block ages (external).
NewBlock ==
    /\ tip < MaxTip
    /\ tip' = tip + 1 /\ fresh' = TRUE
    /\ UNCHANGED <<node, memory, phase, next, counts>>
Age ==
    /\ fresh' = FALSE
    /\ UNCHANGED <<node, memory, phase, next, tip, counts>>

SyncInit ==
    /\ db = [tree |-> 0, height |-> 0] /\ restore = 0 /\ disk = {}
    /\ snapshots = {} /\ target = 0 /\ restorer = NoRestorer /\ pc = "idle"
    /\ phase \in {"sync", "blocks"} /\ next = 0
    /\ tip = 0 /\ fresh = FALSE
    /\ sync_crashes = 0 /\ resets = 0

\* The handlers of a request, each of which runs to its end.
Handler == Checkpoint \/ Prune \/ Destroy \/ Rename \/ WriteHeight

SyncNext ==
    \/ SyncCommit \/ Handler
    \/ \E h \in SnapHeight : OfferSnapshot(h)
    \/ ApplyChunk(target, next) \/ ApplyChunk(0, next)
    \/ SyncCrash \/ SyncRestart \/ Reset
    \/ NewBlock \/ Age

(***************************************************************************)
(* Tendermint looks for a snapshot and fetches its chunks until one comes  *)
(* from a peer that has it; a node that is down is started again.          *)
(***************************************************************************)
Offer == target = 0 /\ \E h \in SnapHeight : OfferSnapshot(h)
Fetch == ApplyChunk(target, next)

SyncFairness ==
    /\ WF_sync_vars(Handler) /\ WF_sync_vars(SyncRestart)
    /\ WF_sync_vars(Offer) /\ SF_sync_vars(Fetch)

SyncSpec == SyncInit /\ [][SyncNext]_sync_vars /\ SyncFairness

-----------------------------------------------------------------------------
(***************************************************************************)
(* A height that Info reports after any crash is that of the tree it is    *)
(* stored with: commit writes both in one batch, and a restore writes the  *)
(* height last.                                                            *)
(***************************************************************************)
HeightHasItsTree == db.height # 0 => db.tree = db.height

(***************************************************************************)
(* MerkStore::commit takes a checkpoint only where none is on disk, though *)
(* it does not look, and though blocks are run again after a restore: they *)
(* are no longer recent.  When it has pruned the others, the interval      *)
(* filter's limit holds on disk, whatever earlier crashes between a        *)
(* checkpoint and its prune left behind.                                   *)
(***************************************************************************)
SnapshotsAreSound ==
    /\ [](pc = "checkpoint" => db.height \notin disk)
    /\ [][pc = "prune" /\ pc' = "idle"
            => Cardinality({h \in disk' : h % Interval = 0}) <= Limit]_sync_vars

(***************************************************************************)
(* A state sync ends, with crashes and bad chunks on its way, unless       *)
(* Tendermint turns to a snapshot when chunks of another have been         *)
(* applied: offer_snapshot keeps the restorer of the first.                *)
(***************************************************************************)
Turned == restorer # NoRestorer /\ restorer # [of |-> target, applied |-> next]

SyncCompletes == (phase = "sync" /\ tip >= First) ~> (phase = "blocks" \/ Turned)
=============================================================================
