------------------------------ MODULE NodeProofs ------------------------------
(***************************************************************************)
(* What a node can rely on however it is stopped: the height in its store  *)
(* is that of its tree and its snapshots are within their limit            *)
(* (StateSync), nothing runs after a kill (Shutdown), and it starts on     *)
(* files that belong together (Setup).                                     *)
(***************************************************************************)
EXTENDS StateSync, Shutdown, Setup, FiniteSetTheorems, TLAPS

USE ZenonT(60)

-----------------------------------------------------------------------------
(* StateSync. *)

Handling == {"destroy", "rename", "height"}

\* The part of the invariant that the height of the store rests on: from the
\* last chunk to the write of the height, the tree that was restored is that
\* of the target, which no offer changes in between.
RestoreInv ==
    /\ pc \in {"destroy", "rename"} => restore = target
    /\ pc = "height" => db.tree = target
    /\ restorer # NoRestorer => restorer.of # 0
    /\ pc \in Handling => phase = "sync"

\* The part that checkpoints rest on: a snapshot of the newest block, while it
\* is recent, is there only if that block was the last to be committed.
SnapshotInv ==
    /\ db.height <= tip /\ target <= tip
    /\ disk \subseteq 1..tip
    /\ fresh /\ tip \in disk => phase = "blocks" /\ db.height = tip
    /\ pc = "checkpoint" => phase = "blocks" /\ db.height # 0 /\ db.height \notin disk
    /\ pc # "down" => snapshots = disk

SyncType ==
    /\ db \in [tree : Nat, height : Nat] /\ restore \in Nat
    /\ target \in Nat /\ restorer \in [of : Nat, applied : Nat]
    /\ tip \in 0..MaxTip

SyncInv ==
    StateSyncAssumption /\ SyncType /\ HeightHasItsTree /\ RestoreInv /\ SnapshotInv

\* A new store has no snapshots, ...
LEMMA SyncStart == StateSyncAssumption /\ SyncInit => SyncInv
  BY SMTT(60) DEF StateSyncAssumption, SyncInit, SyncInv, SyncType, HeightHasItsTree,
     RestoreInv, SnapshotInv,
         Handling, NoRestorer

\* ... and every commit, snapshot, sync, crash and restart keeps the
\* invariant.
LEMMA SyncStep == SyncInv /\ [SyncNext]_sync_vars => SyncInv'
<1> SUFFICES ASSUME SyncInv, [SyncNext]_sync_vars PROVE SyncInv'
  OBVIOUS
<1> USE DEF SyncInv, SyncType, HeightHasItsTree, RestoreInv, SnapshotInv, Handling
<1>0. Interval \in Nat \ {0} /\ MaxTip \in Nat \ {0}
  BY DEF StateSyncAssumption
<1>1. CASE SyncCommit
  BY <1>0, <1>1, SMTT(60) DEF SyncCommit, Recent, network, counts
<1>2. CASE Checkpoint
  <2>1. /\ disk' = disk \cup {db.height} /\ snapshots' = snapshots \cup {db.height}
        /\ pc = "checkpoint" /\ pc' = "prune"
        /\ UNCHANGED <<db, restore, target, restorer, phase, tip, fresh>>
    BY <1>2 DEF Checkpoint, network
  <2>2. db.height \in 1..tip /\ phase = "blocks"
    BY <1>0, <2>1, SMTT(60)
  <2>3. SnapshotInv'
    BY <2>1, <2>2
  <2> QED BY <2>1, <2>3
<1>3. CASE Prune
  <2>1. /\ disk' \subseteq disk /\ snapshots' = disk'
        /\ pc = "prune" /\ pc' \in {"prune", "idle"}
        /\ UNCHANGED <<db, restore, target, restorer, phase, tip, fresh>>
    <3> DEFINE remove == {ss \in snapshots : ~should_keep(ss, db.height)}
    <3>1. snapshots = disk
      BY <1>3 DEF Prune
    <3>2. CASE remove = {}
      BY <1>3, <3>1, <3>2 DEF Prune, network
    <3>3. CASE remove # {}
      <4>1. PICK ss \in remove : snapshots' = snapshots \ {ss} /\ disk' = disk \ {ss} /\ UNCHANGED pc
        BY <1>3, <3>3 DEF Prune
      <4> QED BY <1>3, <3>1, <4>1 DEF Prune, network
    <3> QED BY <3>2, <3>3
  <2> QED BY <2>1
<1>4. CASE Destroy
  BY <1>0, <1>4, SMTT(60) DEF Destroy, network, counts
<1>5. CASE Rename
  BY <1>0, <1>5, SMTT(60) DEF Rename, network, counts
<1>6. CASE WriteHeight
  BY <1>0, <1>6 DEF WriteHeight, network, counts
<1>7. ASSUME NEW h \in SnapHeight, OfferSnapshot(h) PROVE SyncInv'
  BY <1>0, <1>7, SMTT(60) DEF OfferSnapshot, SnapHeight, node, network, counts
<1>8. ASSUME NEW h, h = target \/ h = 0, ApplyChunk(h, next) PROVE SyncInv'
  BY <1>0, <1>8, SMTT(60) DEF ApplyChunk, process_chunk, NoRestorer, network, counts
<1>9. CASE SyncCrash
  BY <1>0, <1>9, SMTT(60) DEF SyncCrash, NoRestorer, node, network
<1>10. CASE SyncRestart
  BY <1>0, <1>10 DEF SyncRestart, maybe_remove_restore, network, counts
<1>11. CASE Reset
  BY <1>0, <1>11 DEF Reset, node, memory
<1>12. CASE NewBlock
  BY <1>0, <1>12, SMTT(60) DEF NewBlock, node, memory, counts
<1>13. CASE Age
  BY <1>0, <1>13 DEF Age, node, memory, counts
<1>14. CASE UNCHANGED sync_vars
  BY <1>14 DEF sync_vars, node, memory, network, counts
<1> QED
  BY <1>1, <1>2, <1>3, <1>4, <1>5, <1>6, <1>7, <1>8, <1>9, <1>10, <1>11, <1>12, <1>13, <1>14
     DEF SyncNext, Handler

\* Integer division, as the provers know it.
LEMMA DivMod ==
    ASSUME NEW n \in Int, NEW m \in Nat \ {0}
    PROVE  n \div m \in Int /\ (n % m) \in 0..(m - 1) /\ n = m * (n \div m) + (n % m)
  BY SMTT(60)

\* The order of multiples.
LEMMA MulOrder ==
    ASSUME NEW m \in Nat \ {0}, NEW a \in Int, NEW b \in Int, a < b
    PROVE  m * a + m <= m * b
<1>1. m * a + m = m * (a + 1)
  BY SMTT(60)
<1>2. m * (b - (a + 1)) >= 0
  BY SMTT(60)
<1>3. m * (b - (a + 1)) = m * b - m * (a + 1)
  BY SMTT(60)
<1> QED BY <1>1, <1>2, <1>3, SMTT(60)

\* The difference of two heights, wrapped around, is not small.
LEMMA Wrapped ==
    ASSUME NEW m \in Nat \ {0}, NEW d \in Int, d < 0, -m <= d
    PROVE  d % m = d + m
<1> DEFINE q == d \div m
           r == d % m
<1>1. q \in Int /\ r \in 0..(m - 1) /\ d = m * q + r
  BY DivMod
<1> HIDE DEF q, r
<1>2. CASE q >= 0
  BY <1>1, <1>2, SMTT(60)
<1>3. CASE q < -1
  <2>1. m * q + m <= m * (-1)
    BY <1>1, <1>3, MulOrder, SMTT(60)
  <2> QED BY <1>1, <2>1, SMTT(60)
<1>4. CASE q = -1
  BY <1>1, <1>4, SMTT(60) DEF r
<1> QED BY <1>1, <1>2, <1>3, <1>4, SMTT(60)

\* At most Limit multiples of Interval lie in a window of Interval * Limit.
LEMMA Window ==
    ASSUME NEW i \in Nat \ {0}, NEW l \in Nat \ {0}, NEW cur \in Nat, NEW S \in SUBSET Nat,
           \A h \in S : h % i = 0 /\ h <= cur /\ cur - h < i * l
    PROVE  Cardinality(S) <= l
<1> DEFINE b == cur \div i
           f == [h \in S |-> h \div i]
           T == (b - l + 1)..b
<1>1. b \in Int /\ cur % i \in 0..(i - 1) /\ cur = i * b + (cur % i)
  BY DivMod, SMTT(60)
<1>2. ASSUME NEW h \in S PROVE h = i * f[h] /\ f[h] \in Int
  BY DivMod, SMTT(60)
<1> HIDE DEF b
<1>3. ASSUME NEW h \in S PROVE f[h] \in T
  <2> DEFINE q == f[h]
  <2>1. h \in Nat /\ h = i * q /\ q \in Int /\ h <= cur /\ cur - h < i * l
    BY <1>2
  <2> HIDE DEF f
  <2>2. ~(b < q)
    <3> SUFFICES ASSUME b < q PROVE FALSE
      OBVIOUS
    <3>1. i * b + i <= i * q
      BY <1>1, <2>1, MulOrder
    <3> QED BY <1>1, <2>1, <3>1, SMTT(60)
  <2>3. ~(q < b - l + 1)
    <3> SUFFICES ASSUME q < b - l + 1 PROVE FALSE
      OBVIOUS
    <3>1. i * q + i <= i * (b - l + 1)
      BY <1>1, <2>1, MulOrder, SMTT(60)
    <3>2. i * (b - l + 1) = i * b - i * l + i
      BY <1>1, SMTT(60)
    <3> QED BY <1>1, <2>1, <3>1, <3>2, SMTT(60)
  <2> QED BY <1>1, <2>1, <2>2, <2>3, SMTT(60)
<1>4. f \in Injection(S, T)
  <2>1. f \in [S -> T]
    BY <1>3
  <2>2. \A g, h \in S : f[g] = f[h] => g = h
    BY <1>2
  <2> QED BY <2>1, <2>2 DEF Injection, IsInjective
<1> HIDE DEF f
<1>5. IsFiniteSet(T) /\ Cardinality(T) = l
  <2>1. b - l + 1 \in Int /\ ~(b - l + 1 > b) /\ b - (b - l + 1) + 1 = l
    BY <1>1, SMTT(60)
  <2> QED BY <1>1, <2>1, FS_Interval
<1>6. Cardinality(S) <= Cardinality(T)
  BY <1>4, <1>5, FS_Injection
<1> QED BY <1>5, <1>6

\* The commit that ends a prune leaves no more than Limit regular snapshots.
LEMMA PruneStep ==
    ASSUME SyncInv, [SyncNext]_sync_vars, pc = "prune", pc' = "idle"
    PROVE  Cardinality({h \in disk' : h % Interval = 0}) <= Limit
<1> DEFINE cur == db.height
<1>1. /\ {Interval, Limit, Modulus, MaxTip} \subseteq Nat \ {0}
      /\ First % Interval # 0 /\ MaxTip + Interval * Limit <= Modulus
  BY DEF SyncInv, StateSyncAssumption
<1>2. /\ cur \in Nat /\ cur <= tip /\ tip \in 0..MaxTip
      /\ disk \subseteq 1..tip /\ snapshots = disk
  BY DEF SyncInv, SyncType, SnapshotInv
<1>3. Prune
  BY DEF SyncNext, Handler, SyncCommit, Checkpoint, Destroy, Rename, WriteHeight, OfferSnapshot,
         ApplyChunk, SyncCrash, SyncRestart, Reset, NewBlock, Age, memory, sync_vars
<1>4. disk' = disk /\ \A h \in disk : should_keep(h, cur)
  BY <1>2, <1>3 DEF Prune
<1>5. ASSUME NEW h \in disk, h % Interval = 0
      PROVE  h <= cur /\ cur - h < Interval * Limit
  <2>1. h \in 1..tip /\ (cur - h) % Modulus < Interval * Limit
    BY <1>1, <1>2, <1>4, <1>5 DEF should_keep
  <2>2. h <= cur
    <3> SUFFICES ASSUME h > cur PROVE FALSE
      BY <1>2, <2>1, SMTT(60)
    <3>1. cur - h \in Int /\ cur - h < 0 /\ -Modulus <= cur - h /\ -MaxTip <= cur - h
      BY <1>1, <1>2, <2>1, SMTT(60)
    <3>2. (cur - h) % Modulus = (cur - h) + Modulus
      BY <1>1, <3>1, Wrapped
    <3> QED BY <1>1, <2>1, <3>1, <3>2, SMTT(60)
  <2>3. (cur - h) % Modulus = cur - h
    <3>1. cur - h \in 0..(Modulus - 1)
      BY <1>1, <1>2, <2>1, <2>2, SMTT(60)
    <3> QED BY <1>1, <3>1, SMTT(60)
  <2> QED BY <2>1, <2>2, <2>3
<1>6. {h \in disk : h % Interval = 0} \in SUBSET Nat
  <2>1. disk \subseteq Nat
    BY <1>2, SMTT(60)
  <2> QED BY <2>1
<1> QED BY <1>1, <1>2, <1>4, <1>5, <1>6, Window

\* For every interval and limit, any number of blocks, crashes and resets, the
\* height that MerkStore reports is that of the tree it holds: after commit,
\* after apply_snapshot_chunk, and after a crash between any two of their
\* writes.
THEOREM HeightsAreSound == StateSyncAssumption /\ SyncSpec => []HeightHasItsTree
<1>1. StateSyncAssumption /\ SyncInit => SyncInv
  BY SyncStart
<1>2. SyncInv /\ [SyncNext]_sync_vars => SyncInv'
  BY SyncStep
<1>3. SyncInv => HeightHasItsTree
  BY DEF SyncInv
<1> QED BY <1>1, <1>2, <1>3, PTL DEF SyncSpec

\* maybe_create_snapshot never meets a checkpoint of its height, and
\* maybe_prune_snapshots leaves no more than Limit regular ones, whatever
\* crashes left on disk.
THEOREM SnapshotsStaySound == StateSyncAssumption /\ SyncSpec => SnapshotsAreSound
<1>1. StateSyncAssumption /\ SyncInit => SyncInv
  BY SyncStart
<1>2. SyncInv /\ [SyncNext]_sync_vars => SyncInv'
  BY SyncStep
<1>3. SyncInv => (pc = "checkpoint" => db.height \notin disk)
  BY DEF SyncInv, SnapshotInv
<1>4. SyncInv /\ [SyncNext]_sync_vars
        => [pc = "prune" /\ pc' = "idle"
              => Cardinality({h \in disk' : h % Interval = 0}) <= Limit]_sync_vars
  BY PruneStep
<1> QED BY <1>1, <1>2, <1>3, <1>4, PTL DEF SyncSpec, SnapshotsAreSound

-----------------------------------------------------------------------------
(* Shutdown. *)

\* The notifier that kill waits for is set by a server that takes no more
\* requests, and no server goes back to taking them.
KillInv ==
    /\ notified => server \in Stopped
    /\ killer = "done" => notified

\* Once Child::kill has returned no request runs, for any number of connections
\* and however requests end.
THEOREM KillIsSound == ThreadsSpec => []NothingRunsAfterKill
<1> USE DEF Stopped, Ended, At, StopServer, others
<1>1. ThreadsInit => KillInv
  BY DEF ThreadsInit, KillInv
<1>2. KillInv /\ [ThreadsNext]_thread_vars => KillInv'
  <2> SUFFICES ASSUME KillInv, [ThreadsNext]_thread_vars PROVE KillInv'
    OBVIOUS
  <2> USE DEF KillInv
  <2>1. CASE Check \/ Timeout \/ Reply \/ Leave
    BY <2>1, SMTT(60) DEF Check, Timeout, Reply, Leave
  <2>2. ASSUME NEW w \in Worker, Receive(w) \/ Accept(w) PROVE KillInv'
    BY <2>2, SMTT(60) DEF Receive, Accept
  <2>3. ASSUME NEW outcome \in Outcomes, RunRequest(outcome) PROVE KillInv'
    BY <2>3, SMTT(60) DEF RunRequest
  <2>4. ASSUME NEW w \in Worker, WorkerStep(w) PROVE KillInv'
    BY <2>4, SMTT(60) DEF WorkerStep, WorkerCheck, WorkerRead,
                WorkerSendFails, WorkerWrite
  <2>5. CASE kill \/ KillTendermint \/ KillFails \/ KillReturn
    BY <2>5, SMTT(60) DEF kill, KillTendermint, KillFails, KillReturn
  <2>6. CASE wait \/ TendermintExit \/ UNCHANGED thread_vars
    BY <2>6, SMTT(60) DEF wait, TendermintExit, thread_vars
  <2> QED BY <2>1, <2>2, <2>3, <2>4, <2>5, <2>6 DEF ThreadsNext, Server
<1>3. KillInv => NothingRunsAfterKill
  BY DEF KillInv, NothingRunsAfterKill
<1> QED BY <1>1, <1>2, <1>3, PTL DEF ThreadsSpec

-----------------------------------------------------------------------------
(* Setup. *)

Setting == Defaults \cup Edits \cup NoFile \cup Cut
GenesisFile == {"none", "partial", "default", "chosen", "given"}

HomeType ==
    /\ opts \in [chain_id : {"default", "chosen"}, genesis_bytes : {"none", "given"}]
    /\ home \in [tm_home : BOOLEAN, binary : {"none", "partial", "complete"},
                 mode : {"plain", "executable"}, config : SUBSET Setting,
                 genesis : GenesisFile, merk : Nat, tm : Nat]
    /\ doc \in SUBSET Setting /\ chain_id \in GenesisFile

\* A file that a start relies on is whole from the step that wrote it.
FilesInv ==
    /\ home.mode = "executable" => home.binary = "complete"
    /\ stage \in {"apply_genesis", "write_config_toml", "spawn", "running"}
         => home.mode = "executable"
    /\ stage \in {"write_config_toml", "spawn", "running"} /\ opts.genesis_bytes = "given"
         => home.genesis = "given"
    /\ stage \in {"spawn", "running"} /\ doc # NoFile => home.config = doc
    /\ stage = "running" => home.genesis = chain_id

\* The store is empty while a reset has yet to clear Tendermint's data.
StoreInv ==
    /\ stage \in {"install for reset", "unsafe_reset_all"} => home.merk = 0
    /\ home.merk <= home.tm

HomeInv == HomeType /\ FilesInv /\ StoreInv

\* Every step of the setup and of what an operator does keeps the invariant.
LEMMA HomeStep == HomeInv /\ [HomeNext]_home_vars => HomeInv'
<1> SUFFICES ASSUME HomeInv, [HomeNext]_home_vars PROVE HomeInv'
  OBVIOUS
<1> USE DEF HomeInv, AtStage, Goto, Panic
<1>0. NoFile \in SUBSET Setting /\ Cut \in SUBSET Setting
  BY DEF Setting
<1>1. CASE new
  BY <1>0, <1>1 DEF new, GenesisFile, HomeType, FilesInv, StoreInv
<1>2. CASE install
  <2>1. PICK from \in {"install for init", "install for reset", "install for start"} :
            stage = from /\ InstallStep(from) /\ UNCHANGED <<opts, doc, chain_id>>
    BY <1>2 DEF install
  <2> DEFINE to == AfterInstall(from)
  <2>2. to \in {"init", "unsafe_reset_all", "apply_genesis"}
        /\ (to = "unsafe_reset_all" => from = "install for reset")
    BY DEF AfterInstall
  <2>3. \/ home.mode = "executable" /\ stage' = to /\ home' = home
        \/ home.mode = "plain" /\ stage' = from /\ home' = [home EXCEPT !.binary = "partial"]
        \/ home.mode = "plain" /\ stage' = from /\ home' = [home EXCEPT !.binary = "complete"]
        \/ home.binary = "complete" /\ stage' = to /\ home' = [home EXCEPT !.mode = "executable"]
    BY <2>1 DEF InstallStep, is_executable, HomeType
  <2> HIDE DEF to
  <2>4. HomeType'
    BY <2>1, <2>3 DEF HomeType
  <2> QED BY <2>1, <2>2, <2>3, <2>4 DEF HomeType, FilesInv, StoreInv
<1>3. CASE init
  <2>1. /\ stage' \in {"init", "configure", "abci_port"} /\ UNCHANGED <<opts, doc, chain_id>>
        /\ \/ home' = home
           \/ home' = [home EXCEPT !.config = {}]
           \/ home' = [home EXCEPT !.genesis = "default"]
    BY <1>3 DEF init
  <2>2. HomeType'
    BY <2>1 DEF GenesisFile, HomeType
  <2> QED BY <2>1, <2>2 DEF HomeType, FilesInv, StoreInv
<1>4. CASE write_toml
  BY <1>0, <1>4 DEF write_toml, HomeType, FilesInv, StoreInv
<1>5. CASE finish_toml
  BY <1>5 DEF finish_toml, Setting, HomeType, FilesInv, StoreInv
<1>6. CASE write_chain_id
  <2>1. /\ stage' \in {"off", "chain_id", "abci_port"} /\ UNCHANGED <<opts, doc>>
        /\ \/ UNCHANGED <<home, chain_id>>
           \/ /\ chain_id' \in {"chosen", home.genesis}
              /\ home' = [home EXCEPT !.genesis = "partial"]
           \/ UNCHANGED chain_id /\ home' = [home EXCEPT !.genesis = chain_id]
    BY <1>6 DEF write_chain_id
  <2>2. HomeType'
    BY <2>1 DEF GenesisFile, HomeType
  <2> QED BY <2>1, <2>2 DEF HomeType, FilesInv, StoreInv
<1>7. CASE abci_port
  BY <1>7 DEF abci_port, HomeType, FilesInv, StoreInv
<1>8. CASE reset \/ unsafe_reset_all
  <2>1. CASE reset
    <3>1. /\ home' = [home EXCEPT !.merk = 0]
          /\ stage' = "install for reset" /\ UNCHANGED <<opts, doc, chain_id>>
      BY <2>1 DEF reset, StoreInv
    <3>2. 0 \in Nat /\ home.merk \in Nat /\ home.tm \in Nat
      BY DEF HomeType
    <3>3. HomeType'
      BY <3>1, <3>2 DEF HomeType
    <3>4. /\ home'.merk = 0 /\ home'.tm = home.tm
          /\ home'.binary = home.binary /\ home'.mode = home.mode
          /\ home'.genesis = home.genesis /\ home'.config = home.config
      BY <3>1 DEF HomeType
    <3>5. FilesInv'
      BY <3>1, <3>4 DEF FilesInv
    <3>6. StoreInv'
      <4>1. home'.merk <= home'.tm
        BY <3>2, <3>4, SMTT(60)
      <4> QED BY <3>4, <4>1 DEF StoreInv
    <3> QED BY <3>3, <3>5, <3>6
  <2>2. CASE unsafe_reset_all
    <3>1. /\ home' = [home EXCEPT !.tm = 0]
          /\ stage' = "built" /\ home.merk = 0 /\ UNCHANGED <<opts, doc, chain_id>>
      BY <2>2 DEF unsafe_reset_all, StoreInv
    <3>2. 0 \in Nat /\ home.merk \in Nat /\ home.tm \in Nat
      BY DEF HomeType
    <3>3. HomeType'
      BY <3>1, <3>2 DEF HomeType
    <3>4. /\ home'.tm = 0 /\ home'.merk = home.merk
          /\ home'.binary = home.binary /\ home'.mode = home.mode
          /\ home'.genesis = home.genesis /\ home'.config = home.config
      BY <3>1 DEF HomeType
    <3>5. FilesInv'
      BY <3>1, <3>4 DEF FilesInv
    <3>6. StoreInv'
      BY <3>1, <3>2, <3>4, SMTT(60) DEF StoreInv
    <3> QED BY <3>3, <3>5, <3>6
  <2> QED BY <1>8, <2>1, <2>2
<1>9. CASE run
  BY <1>9 DEF run, HomeType, FilesInv, StoreInv
<1>10. CASE apply_genesis
  BY <1>10 DEF apply_genesis, GenesisFile, HomeType, FilesInv, StoreInv
<1>11. CASE write_config_toml
  BY <1>0, <1>11 DEF write_config_toml, HomeType, FilesInv, StoreInv
<1>12. CASE spawn
  BY <1>12 DEF spawn, HomeType, FilesInv, StoreInv
<1>13. ASSUME NEW setting \in Edits, edit(setting) PROVE HomeInv'
  BY <1>13 DEF edit, Setting, HomeType, FilesInv, StoreInv
<1>14. CASE StoreBlock \/ CommitBlock
  <2>1. CASE StoreBlock
    <3>1. /\ home' = [home EXCEPT !.tm = home.tm + 1]
          /\ stage = "running" /\ UNCHANGED stage /\ UNCHANGED <<opts, doc, chain_id>>
      BY <2>1 DEF StoreBlock, StoreInv
    <3>2. home.tm + 1 \in Nat /\ home.merk \in Nat /\ home.tm \in Nat
      BY SMTT(60) DEF HomeType
    <3>3. HomeType'
      BY <3>1, <3>2 DEF HomeType
    <3>4. /\ home'.tm = home.tm + 1 /\ home'.merk = home.merk
          /\ home'.binary = home.binary /\ home'.mode = home.mode
          /\ home'.genesis = home.genesis /\ home'.config = home.config
      BY <3>1 DEF HomeType
    <3>5. FilesInv'
      BY <3>1, <3>4 DEF FilesInv
    <3>6. StoreInv'
      BY <3>1, <3>2, <3>4, SMTT(60) DEF StoreInv
    <3> QED BY <3>3, <3>5, <3>6
  <2>2. CASE CommitBlock
    <3>1. /\ home' = [home EXCEPT !.merk = home.merk + 1]
          /\ home.merk < home.tm /\ stage = "running" /\ UNCHANGED stage /\ UNCHANGED <<opts, doc, chain_id>>
      BY <2>2 DEF CommitBlock, StoreInv
    <3>2. home.merk + 1 \in Nat /\ home.merk \in Nat /\ home.tm \in Nat
      BY SMTT(60) DEF HomeType
    <3>3. HomeType'
      BY <3>1, <3>2 DEF HomeType
    <3>4. /\ home'.merk = home.merk + 1 /\ home'.tm = home.tm
          /\ home'.binary = home.binary /\ home'.mode = home.mode
          /\ home'.genesis = home.genesis /\ home'.config = home.config
      BY <3>1 DEF HomeType
    <3>5. FilesInv'
      BY <3>1, <3>4 DEF FilesInv
    <3>6. StoreInv'
      BY <3>1, <3>2, <3>4, SMTT(60) DEF StoreInv
    <3> QED BY <3>3, <3>5, <3>6
  <2> QED BY <1>14, <2>1, <2>2
<1>15. CASE HomeCrash \/ UNCHANGED home_vars
  BY <1>15 DEF HomeCrash, home_vars, HomeType, FilesInv, StoreInv
<1> QED BY <1>1, <1>2, <1>3, <1>4, <1>5, <1>6, <1>7, <1>8, <1>9, <1>10, <1>11, <1>12, <1>13,
           <1>14, <1>15 DEF HomeNext

\* A node that runs does so with a whole binary, on the genesis file it was given
\* and with the settings the program made, over a store that is not ahead of
\* Tendermint, wherever Node::new, Node::reset and Node::run were cut off before
\* and whatever settings they write.
THEOREM StartsAreSound == HomeSpec => []NodesStartSound
<1>1. HomeInit => HomeInv
  BY SMTT(60) DEF HomeInit, HomeInv, HomeType, FilesInv, StoreInv, Setting, GenesisFile
<1>2. HomeInv /\ [HomeNext]_home_vars => HomeInv'
  BY HomeStep
<1>3. HomeInv => NodesStartSound
  BY DEF HomeInv, HomeType, FilesInv, StoreInv, NodesStartSound, AtStage
<1> QED BY <1>1, <1>2, <1>3, PTL DEF HomeSpec
=============================================================================
