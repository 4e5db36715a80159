# A TLA+ specification of orga

orga is a framework for replicated state machines on Tendermint (CometBFT). An
application is a tree of Rust values whose state lives in a Merkle-ised
key/value store; Tendermint decides blocks of transactions and drives the
application through ABCI requests. This directory models the parts of orga
whose correctness depends on the order in which things happen, checks them with
TLC on small instances, and proves the most important properties with TLAPS for
every instance.

Paths below are relative to the crate's `src/` (in the repository: `src/src/`)
unless they start with `macros/`.

## 1. The system: parts, state, operations

| part | source | state | operations that change it |
|---|---|---|---|
| Layered stores | `store/bufstore.rs`, `store/share.rs` | pending puts and deletes over another store | `put`, `delete`, `flush` |
| Ordered reads | `store/mod.rs`, `store/iter.rs`, `store/store.rs` | a double-ended iterator's bounds | `next`, `next_back`; `Store` adds a key prefix |
| Merk store | `merk/store.rs`, `merk/memsnapshot.rs` | tree and height, pending map, window of in-memory snapshots | `write`, `commit` |
| State sync | `merk/store.rs`, `merk/snapshot.rs` | snapshots on disk, restore directory, target, restorer | `commit`, `offer_snapshot`, `apply_snapshot_chunk`, `load` |
| ABCI state machine | `abci/mod.rs` | the store, `consensus_state`, `mempool_state`, height | one per ABCI request |
| Application adapter | `abci/node.rs` | the app's root value | load, call, write back |
| Node threads | `abci/mod.rs`, `abci/node.rs` | server loop, workers, shutdown handle, notifier | `listen`, the worker's loop, `Child::kill`, `Child::wait` |
| Home directory | `abci/node.rs`, `tendermint/mod.rs` | binary, config.toml, genesis.json, store | `Node::new`, `reset`, `run`, `Tendermint::install` ... |
| Map, its iterators | `collections/map.rs` | children in memory over a store | `insert`, `remove`, `swap`, `entry`, `get_mut`, `flush`; `next`, `next_back` |
| Deque, EntryMap | `collections/deque.rs`, `collections/entry_map.rs` | head, tail, a Map; a Map | pushes, pops, swaps, `retain`, `flush`; `insert`, `delete` |
| Pool, coins, shares | `coins/pool.rs`, `coin.rs`, `share.rs`, `math.rs` ... | contributions, shares, rewards; amounts | `get_mut` and the drop of its `ChildMut`, `give`; `give`, `take`, `deduct` |
| Staking | `coins/staking/` | validators, delegators, queues, the power index | `declare`, `delegate`, `unbond`, `redelegate`, votes, evidence, `end_block_step` |
| Plugins, accounts, faucet | `plugins/`, `coins/accounts.rs`, `coins/faucet.rs` | nonces, balances, `Context` | one handler per plugin; `transfer`, `mint` |
| Client calls | `client/mod.rs`, `tendermint/client.rs` | pinned height, what was read | `AppClient::call` |
| Light client | `client/exec.rs`, `store/partialmap.rs`, `describe/` | a partial copy of the store, the trace | `execute`, `step`, `join` |
| Upgrade, migration | `upgrade/mod.rs`, `migrate.rs`, `macros/src/` | signals, version; the store of an older build | `signal`, `step`; `migrate` |
| IBC | `ibc/` | clients, connections, channels, packets, escrow | `deliver` and the contexts the `ibc` crate calls |

`MerkStore` holds what is durable. `ABCIStateMachine` puts a `BufStore` over it
for the block and another for the mempool, and each call runs on one more
`BufStore`, which is flushed downwards when the call returns. The app's
collections buffer once more, in memory. A transaction passes the plugins
(signer, chain commitment, nonce, payable, fee) before it reaches the app.
Tendermint talks to the state machine over four connections, one worker thread
each, that hand requests to a single server thread.

What is hard here, and what the properties are aimed at: `CheckTx` between the
calls of a block; a crash, an error or a panic at any point of a block; reads
that merge layers with pending deletes; iterators driven from both ends; loops
that fail half way; rounding; votes that age while voting power moves; crashes
between the steps that replace a database; threads that wait for each other;
late, lost and repeated transactions and packets; state left over from an
earlier call. `PROJECT.json` lists each hazard at its line.

## 2. Modules

| module | models | role |
|---|---|---|
| `LayeredStore` | `BufStore`, `MerkStore::write` | `View`, `Flush`, `Write` on trees and buffers |
| `Application` | `InternalApp`, ABCI calls | an arbitrary app, the constant operator `Exec` |
| `Ledger` / `Abci` | what the stores promise / `ABCIStateMachine::run` with `MerkStore` | abstract / detailed |
| `Bytes`, `StoreIteration` | `get_next`, `get_prev`, `Iter`, `Store` | ordered reads through two buffers |
| `Layout`, `Migration` | the State, Orga and Migrate macros; `Node::migrate` | state laid out in a store, and a chain of builds |
| `Dictionary` / `MapCollection` | `Map` | abstract / detailed |
| `MapIteration` | `map::Iter` | iteration over memory and store |
| `Queue` / `Deque` | `Deque` | abstract / detailed |
| `EntryMap` | `EntryMap`, `#[derive(Entry)]` | entries split into key and value |
| `Decimals`, `Pool`, `Purses` | `Decimal`, `Amount`; `Pool`; `Coin`, `Share`, `MultiShare` | amounts, rewards, where a delegator's coins are |
| `Staking`, `StakingChain` | `coins/staking`; `ABCIPlugin` and Tendermint around it | handlers as operators; blocks, votes, evidence, updates |
| `Plugins`, `Txs` | the plugins, accounts, faucet; client and blocks around them | handlers as operators; delivery in any order |
| `Messages`, `LightClient` | call, query and describe; `client/exec.rs` | encoding and dispatch; the client's loop |
| `Upgrade` | `Upgrade` | the vote and the version check |
| `StateSync`, `Shutdown`, `Setup` | snapshots and restore; threads; home directory | one node each |
| `Handshake`, `Ibc`, `IbcPaths` | connections and channels; packets and clients; the keys of the maps | two chains; two chains; one store |

The modules beginning with `MC` give constants their values, and those ending in
`Proofs`, with `IbcSteps`, hold the theorems.

### How state and actions correspond to the code

* **Abci.** `merk`/`aux_height` are the durable tree and height, `map` is
  `MerkStore.map`, `mem_snapshots` the window for queries; `consensus_state` and
  `mempool_state` are the two buffers. One action per request. An action runs
  the app, flushes where the code does, and ends the machine on an `Err` or a
  panic. `DecideBlock`, `sent` and `Program` are Tendermint. `Crash` loses
  everything but `merk` and `aux_height`. `GetView` is what point reads see and
  `ScanView` what iteration sees, which leaves out `map`. `history` records the
  committed trees. The assumption that the app reads by key is
  `PointReadsAssumption`.
* **StoreIteration.** `get_next` and `get_prev` are written through
  `iter_merge_next`, as in the code, and compared with what `get` says of every
  key; with `BottomIsMerk = TRUE` the store at the bottom is Merk's.
* **Migration.** A type is a record; `flush`, `load`, `attach` and `migrate` are
  recursive over it. A behaviour starts on a store written by one build and
  starts later builds on it, with the node's compatibility mode on or off.
* **MapCollection.** A value in memory has its own data, the changes of the map
  below it, and the key whose substore it is attached to; `swap` moves the value
  and not the attachment. `Flush` goes entry by entry.
* **Deque.** `retain` and `retain_unordered` are one action per iteration, whose
  closure may fail at each. `Drop` is a deque dropped without a flush and loaded
  again. The Map below is its view and its buffer of plain values.
* **Pool, Purses.** A Decimal is an integer in units of `1/Unit`. In `Pool`
  `get_mut(a, change)` is the access, the change by its user and the drop of the
  `ChildMut`. In `Purses` coins go from account to stake to unbonding to
  claimable and back, and a validator's reward is split by its commission; a
  coin taken and then refused by the next purse goes to the history variable
  `gone`.
* **Staking, Plugins, Ibc.** A handler is an operator from a state record to the
  next, with `err` for a returned error. What was changed before the error stays
  changed, as in the code; the store's buffer decides what of it survives.
  `StakingChain`, `Txs` and the second half of `Ibc` are the chains around them.
* **Txs.** `committed[h]` is the state of height h, `consensus` and `mempool` are
  the two states the code keeps, `ctx` the process-wide `Context`. The client's
  call is a sequence of queries, a broadcast that waits for `CheckTx`, and the
  wait for the block. Transactions of others are delivered at any time and any
  number of times.
* **LightClient.** A store is its set of keys; a copy knows entries and gaps.
  Queries are made from the trace of the method that was entered last, otherwise
  by the raw key.
* **Upgrade.** The arbitrary order of the hash map is a free choice among the
  ready versions. `reached` and `since` are history.
* **StateSync.** The state after block h is the number h. `pc` is the step of
  `commit` or `apply_snapshot_chunk` between any two of which the process may
  crash. `merk::Restorer` is external. A block is recent, less than ten seconds
  old, only if it is the newest, and need not be then. Heights are subtracted modulo `Modulus`,
  as u64 are.
* **Shutdown.** A program counter per thread. Channels have no buffer, so a
  request is handed over in one step. A panic of the server's thread sets neither
  handle nor notifier; the stop height ends the process.
* **Setup.** `home` is the disk, `stage` the next step of the program. A write of
  a file is two steps, truncate and fill, and the process may end in between.
  `remove_dir_all` is one step.
* **Handshake.** The relayers' messages prove what the services of the other
  chain ever answered, so `shown_connections` and `shown_channels` only grow.
* **Ibc.** A chain is its block in progress and its committed past. A relayer's
  message proves something of a past state under a header of it. Block times are
  heights; amounts are 1. A relayer's transaction is a client update, a message,
  or a message after the update it needs. Heights and sequence numbers are the
  ends of keys, as text to base `Radix`, without a terminator: `Erased` is what
  goes with an entry that is removed, `Yielded` what an iteration finds
  (`collections/map.rs:462` and `:805`).

## 3. Runs

A run asks one question of the system, often of several components that do not
share state. Its MC module then composes them as a sum: the variable `which`
names, from the initial state on, the component whose steps a behaviour takes,
and the others stay in an initial state. Nothing is lost by this, as the
components it puts together have no variables in common; components that do
interact (the stores and the state machine, staking and the chain, plugins and
the client, two IBC chains) are one specification. Every passing run is
exhaustive for its bounds.

| run | components | properties |
|---|---|---|
| `node` | `Abci` (an app that does not fail, on an existing store), `Shutdown`, `StateSync` | `BlocksAreCommitted`, `NothingRunsAfterKill`, `ShutdownCompletes`, `HeightHasItsTree`, `SnapshotsAreSound`, `SyncCompletes` |
| `upgrade` | `Abci` (calls that fail and panic), `Upgrade`, `Setup` | `InfoIsLastCommit`, `QueriesSeeCommittedState`, `ImplementsLedger`, `UpgradesAreSound`, `NodesStartSound` |
| `store` | `StoreIteration`, `Migration` | `OrderedReadsMatchPointReads`, `StoresAreConfined`, `IterationIsExact`, `MigrationKeepsState` |
| `collections` | `MapCollection`, `MapIteration`, `Deque`, `EntryMap`, `Pool`, `Purses` | `ImplementsDictionary`, `YieldsEntriesInOrder`, `NoGaps`, `ImplementsQueue`, `EntriesComeBack`, `RewardsAreConserved`, `CoinsAreAccountedFor` |
| `clients` | `LightClient`, `Txs` | `CopiesAreRight`, `MessagesReachTheirReceiver`, `ExecutionNeverGivesUp`, `SignedCallsRunOnce`, `OnlySignersPay`, `CoinsOnlyFromFaucet`, `CallsThatReturnedOkRan`, `JoinsNeverConflict` |
| `modules` | `StakingChain`, `Handshake`, `Ibc`, `IbcPaths` | `PowerIndexMatchesStake`, `ActiveSetMatchesTendermint`, `UnbondsAreTimely`, `CoinsAreConserved`, `OnlyFaultsArePunished`; `HandshakesAgree`, `EscrowBacksVouchers`, `ReceivedOrRefunded`, `NoPacketIsStuck`, `PathsFindTheirEntries` |
| `abci_scan`, `store_merk_prev`, `ibc_order`, `ibc_erased`, `client_trace`, `migrate_compat` | | one property each, which the code violates: section 6 |

What they show, in words, is the "about" of each run in `PROJECT.json`; what a
property says, and of which code, is the comment above its definition.

### Bounds, and why they are enough

* `Abci`: three keys (the root and two others) and two values are enough for a
  write, an overwrite, a delete and a copy between keys; one transaction fails
  half way and one panics; blocks of two transactions let one see the other's
  writes. In `upgrade` heights up to 5 with a stop height of 4 and a window of 2
  snapshots fill the window, drop from it and reach a block past the stop height,
  with one crash at any point; in `node` two crashes and up to three blocks with
  a stop height of 2, so that the third is decided, stops the node, and stops it
  again when it is restarted.
* `StoreIteration`: keys of up to two bytes over {0, 1}, with 1 the largest byte,
  so that carry, prefixes of each other and the empty key occur; up to two
  writes in each order with flushes; four calls of the iterator.
* `Migration`: three builds. The types have options, arrays, vectors, maps in
  maps, a deque, transparent, skipped and absolute fields, a field of another
  channel, and fields that appear, vanish and move between versions. A build may
  be skipped; one chain starts on a store from before versions.
* `MapCollection`: two keys, so that two can be swapped, one key below each, two
  values. `MapIteration`: three one-byte keys, sub-entries below two of them, one
  of which ends in the largest byte, every combination of children in memory.
* `Deque`: indices 0 to 4 around the middle, so that head and tail move both ways
  and reach both ends of the range. `EntryMap`: every choice of key fields among
  three.
* `Pool`: two accounts, balances and rewards up to 3, `Unit` 6, so that division
  by the shares is exact. `Purses`: quarters of a coin, a largest amount of 3,
  commission rates of 0, 1/2 and 3/4, five coins, four roundings.
* `StakingChain`: three accounts that may all declare a validator and two places
  in the active set; five heights of two seconds each with `unbonding_seconds` 4,
  so that unbonds mature within a behaviour, and the delegators'
  `UNBONDING_SECONDS` 2; two calls, one fault.
* `Upgrade`: three validators with powers 2, 1 and 1, so that two disjoint halves
  exist, which shift to 0, 1 and 4 and back; three versions; a delay of 2 and
  time up to 3.
* `Shutdown`: three workers instead of four: one that is served, one that waits
  to be, one that reads. Every outcome of a request.
* `StateSync`: snapshots every 2 blocks, at most 2 kept, 6 blocks; two chunks,
  two crashes, one new sync. `Setup`: two defaults and one edit of config.toml,
  three blocks, any number of crashes.
* `LightClient`: an app with two levels of maps, absolute and private fields, and
  every pair of its queries or of untraced iterations. `Txs`: the wallet's two
  calls and seven transactions of another account (native, Amino and Protobuf;
  good, half, missing signatures; another chain's), three heights, a faucet of
  two periods whose amounts have to be rounded, a window of two heights.
* `Handshake`: one client, two connections and two channels of each chain, so
  that handshakes cross. `Ibc`: two packets, from one side or one from each,
  heights 4 to 7, a timeout of 5, two host consensus states, a trusting period of
  2. Numbers are written to base 2, so that with two packets and four heights
  there already are numbers that begin others ("1" and "10", "100" and "10"...)
  and text order parts from the order of numbers; in `ibc_order` they are written
  to base 10. `IbcPaths`: identifiers and numbers of which one begins another, two
  entries at a time. The symmetry of the two chains is sound here: both run the same code
  from the same state, and the run has no liveness property.

`CHECK_DEADLOCK FALSE` is set where behaviours end: at a bound on calls, blocks
or transactions, at a map that its flush consumed, or with a node that has shut
down.

### Fairness

Only `node` has liveness properties.

* `Abci`: weak fairness of `Info`, of the requests of a block, of a new decision
  and of a restart. Tendermint sends the requests of its consensus connection
  one after another while the node is up, and the server answers each; the
  operator restarts a node. Crashes are bounded. None on `CheckTx`.
* `Shutdown`: each thread that can take a step does. Nothing is assumed of the
  caller of `kill`, of Tendermint's exit, or that it connects. The loops poll
  with a timeout, so weak fairness is what the scheduler gives.
* `StateSync`: weak fairness of handlers, offers and restarts; strong fairness of
  applying the right chunk: bad chunks come in between, and Tendermint fetches
  the chunk again from another peer until one is right.

`MCFairness` states these for the component that `which` names.

## 4. What is proved

TLAPS checks the theorems below for every value of the constants: any keys,
values, accounts, transactions and apps, and any of the bounds of section 3,
which are constants too. Each of them but the first states the very property
that a run checks.

| module | theorem | states |
|---|---|---|
| `AbciProofs` | `TypeCorrect`, `InfoCorrect`, `Refinement`, `QueriesCorrect` | `TypeOK`, `InfoIsLastCommit`, `ImplementsLedger`, `QueriesSeeCommittedState` |
| `NodeProofs` | `HeightsAreSound`, `SnapshotsStaySound`, `KillIsSound`, `StartsAreSound` | `HeightHasItsTree`, `SnapshotsAreSound`, `NothingRunsAfterKill`, `NodesStartSound` |
| `CollectionProofs` | `PursesAreSound`, `MapsAreDictionaries` | `CoinsAreAccountedFor`, `ImplementsDictionary` |
| `DequeProofs` | `DequesHaveNoGaps`, `DequesAreQueues` | `NoGaps`, `ImplementsQueue` |
| `TxsProofs` | `CallsRunOnce`, `CoinsAreSpentBySigners`, `JoinsAgree`, `CallsRan` | `SignedCallsRunOnce`, `OnlySignersPay`, `JoinsNeverConflict`, `CallsThatReturnedOkRan` |
| `HandshakeProofs` | `HandshakesAreSound` | `HandshakesAgree` |
| `IbcProofs` (with `IbcSteps`) | `PacketsEndOnce`, `EscrowIsSound`, `PacketsCanEnd` | `ReceivedOrRefunded`, `EscrowBacksVouchers`, `NoPacketIsStuck` |

### Assumptions

All are on constants, and TLC evaluates them in the runs.

* Types of the constants: `StoreAssumption`, `ApplicationAssumption`,
  `AbciAssumption`, `StateSyncAssumption`, `HandshakeAssumption`,
  `ChainsAssumption`, `DequeAssumption`, `MapAssumption`, `ChildAssumption`,
  `PursesAssumption`, `TxsAssumption`.
* `PointReadsAssumption`: the app reads by key. Without it `Refinement` fails, as
  `abci_scan` shows.
* `StateSyncAssumption` also says that heights do not wrap around, and that the
  first snapshot is not at a multiple of the interval, as in the code.
* `Careful`, for `MapsAreDictionaries`: callers use `insert` and `swap` as in
  section 5.
* `TxsAssumption` also says that what the faucet owes at a height is a natural
  number: it is computed by a fold, about which nothing can be proved here.
* `SoleWallet`, for `CallsRan`: nobody else signs with the wallet's key.

### Arguments

A property is seldom inductive by itself. The invariants that are:

* **Abci: `IInv`.** `Commit` stores the height in `header`, which a `BeginBlock`
  of the same process must have set. `HeaderInv` says so: at most one decided
  block is uncommitted, and once `BeginBlock` is among the requests sent,
  `header` is the height of the block. The heart of the refinement is
  `FlushPreservesView`: flushing a buffer into the one below does not change what
  is read through both. `StepRefines` has one step per action: a call of a block
  is `ExecuteCall`, `Commit` is `CommitBlock`, errors, crashes and stops are
  `LoseWork`, and `CheckTx`, `Info` and `Restart` stutter. For queries
  `SnapshotsInv` adds that the kept snapshots are the newest commits without a
  gap, so that dropping the oldest keeps the window within its limit.
* **StateSync: `SyncInv`.** From the last chunk to the write of the height, the
  restored tree is that of the target, which no offer changes in between
  (`RestoreInv`); a snapshot of the newest block is there only if that block was
  the last to be committed (`SnapshotInv`). The limit after pruning comes from
  counting the multiples of the interval in a window of heights (`Window`).
* **Shutdown: `KillInv`.** The notifier is set by a server that takes no more
  requests, and `kill` waits for it.
* **Setup: `HomeInv`.** Which files are whole at each step (`FilesInv`), and that
  the store is empty while a reset has yet to clear Tendermint's data
  (`StoreInv`).
* **Purses: `IInv`.** The balance within half a coin per rounding, and that the
  liquid share is whole (`IsWhole`), since a payout of rounded-up shares would
  otherwise be refused.
* **Map: `MapInv`.** Nothing is stored below a key without a value (`NoOrphans`),
  and a value attached below another key, since a swap, has nothing below it
  (`MovedAreBare`); so the order in which the flush meets the children does not
  matter.
* **Deque: `DequeInv`.** The Map has a value exactly from head to tail, in memory
  and in what was flushed (`Held`). For a running `retain` there is an injection
  `f` from the positions of now to those before the loop, which misses nothing
  that is to be kept (`Follows`). For `retain` it increases on what was retained
  so far (`Ordered`), for `retain_unordered` all that was passed is to be kept
  (`Unordered`); an iteration exchanges two positions or drops the last.
* **Txs: `TxsInv`, `WalletInv`.** A nonce that ran is at most the stored one
  (`NoncesAreReached`), in the block's state and in every committed one. A call's
  effects on balances are followed through each plugin (`BySigner`, `Inner`,
  `Ran`). All of a client's queries are answered at one height
  (`ReadsAreOfOneHeight`). For calls that returned Ok, nonces grow from committed
  to block and to mempool state (`NoncesGrow`), and of the wallet's transactions
  all but the one it waits for have run (`OnePending`).
* **Handshake: `HandshakeInv`.** What the services of a chain ever showed is what
  an end there is, or was before it opened (`ConnectionHistory`,
  `ChannelHistory`), so an old proof says nothing that has become false.
* **Ibc: `IbcInv`.** Both chains are linked (`Link`): a refunded packet has no
  receipt and its timeout lies below the other chain's height; a past state
  without the receipt of a packet that was received lies below its timeout, so it
  cannot prove one; every receipt has one acknowledgement (`Acked`). Escrow
  balances vouchers and missing packets (`Backed`). Each client's latest header is
  one of the other chain that it can still verify from, and where the metadata of
  a header is gone, an expired one begins its height (`Tracks`, `Explained`). A
  commitment is only gone with the end of a packet whose number begins its own
  (`Forgotten`). `IbcSteps` shows what each message does to a chain and that the
  link survives it; `IbcProofs` puts the steps together.
  Cardinalities enter as the hypothesis `Counting`, proved in `CountingHolds`.

The proof modules use Zenon by default and name the SMT backend at the leaves
that need arithmetic, records or sequences.

### Only model-checked

* Liveness: `BlocksAreCommitted`, `ShutdownCompletes`, `SyncCompletes`. The prover
  does not handle ENABLED and fairness.
* What is defined with RECURSIVE operators: `StoreIteration`, `Layout` and
  `Migration`, `Messages` and `LightClient`.
* What would need induction over data: the byte strings of `MapIteration`; the
  sums, folds and filters of `Staking`, `Pool`, `Upgrade`, `EntryMap` and
  `IbcPaths`; `CoinsOnlyFromFaucet`, which sums all balances.

## 5. Restrictions the runs state

Where the code relies on its caller, the model or the property says so:

* `MapCollection!Careful`: `insert` only where nothing is stored below the key;
  `swap` only values with nothing below them, and no change below a value
  between a swap and its flush.
* `Pool!MayEmpty = FALSE`: the last contribution is not withdrawn.
  `Pool!ReadsAll = FALSE`: `Pool::get` is not used on compounding pools.
* `MCStore`: no prefix ends in the largest byte. `MCCollections`: no map key
  consists of the largest byte only, and no range excludes its start.
* `UpgradesAreSound` speaks of a voting power that was stable for the delay;
  `ShutdownCompletes` of a server that has its connections and does not panic,
  and it allows for the one worker whose request ended the server;
  `SyncCompletes` excepts a sync in which Tendermint turned to another snapshot.
* `MigrationKeepsState` covers migrations in compatibility mode whose map keys
  have no version of their own.
* `CoinsAreConserved` allows a call that fails to lose what it was made with, and
  no more. `UnbondsAreTimely` leaves out outbound redelegations, and a module
  whose public `unbonding_seconds` are shorter than `UNBONDING_SECONDS`: its queue
  (`coins/staking/mod.rs:1018`) then pops an entry before the delegator's
  (`delegator.rs:168`) has matured, which stays until a later entry of the same
  delegator is popped. `max_offline_blocks` is at least 2: with less, validators
  that have just joined are punished. Only the end of a block sets powers.
* `SignedCallsRunOnce` leaves out Protobuf transactions, whose signed bytes do not
  hold the nonce. `CallsThatReturnedOkRan` speaks of a wallet none of whose calls
  timed out; the client looks at the code of `CheckTx` only. Its queries for nonce
  and app, which have no effect and are answered at one height, are one step.
* A removed child that `Map::entry` or `get_mut` is asked for makes the code panic;
  in `MapCollection` the behaviour ends there, and `ImplementsDictionary` says
  nothing of it.
* `NoPacketIsStuck` speaks of active clients, and excepts packets whose commitment
  went with that of another packet (`ibc_erased`) and headers whose metadata went
  with that of an expired one. `PathsFindTheirEntries` makes the same exceptions.
  An error acknowledgement is not refunded (`ibc/transfer.rs`), and
  `EscrowBacksVouchers` counts it.

## 6. Where code and documentation disagree

Six disagreements have a run of their own, in which TLC finds the property that
the quoted line states violated:

* **Iteration does not see the pending map** (`abci_scan`). `MerkStore::get_next`
  (`merk/store.rs:177`) iterates over the committed tree only, while `DeliverTx`
  and `InitChain` flush into `MerkStore.map`; `store/mod.rs:54` says it "Gets the
  key/value entry which comes directly after `key` in ascending key order". An
  entry that `get` returns is missed by an iteration in the next call of the
  block.
* **`get_prev` of an absent key** (`store_merk_prev`). `merk/store.rs:212` steps
  back only when it lands on the key itself; otherwise it returns the entry
  after it, or nothing behind the last. `store/mod.rs:67` says "directly before
  `key`".
* **Heights in the order of strings** (`ibc_order`). `ibc/client_contexts.rs:289`
  ranges over keys that are the text of a height, so that 10 comes before 9. The
  test at `ibc/impls.rs:577` asserts that the next state is found across missing
  heights.
* **Entries that go with another** (`ibc_erased`). The flush of a removed entry
  deletes all keys that begin with its own (`collections/map.rs:462`), which is
  meant for the entries below a value; the keys of commitments end in a number
  without a terminator, so the commitment of packet 10 goes with that of packet 1,
  and packet 10 can be neither acknowledged nor refunded. `collections/map.rs:361`
  says "Removes the value at the given key, if any."
* **The query of a method that has returned** (`client_trace`).
  `client/exec.rs:157` sends the query of the last method entered, though the
  missing key was read after it returned; `:63` says that "the missing data will
  be fetched".
* **Keys migrated in compatibility mode** (`migrate_compat`).
  `collections/map.rs:115`: a migrated map attaches its values below the old
  encoding of their keys and writes them under the new one; `:87` says that child
  entries are "stored with the encoded key as their prefix".

Others were met while modelling; most are behind the restrictions of section 5.

* `abci/node.rs:566`: `deliver_tx` catches a panic and then unwraps the lock that
  the panic poisoned, so the server's thread dies; the test at `:910` wants to
  "ensure node is still live", and `:893` says that it "only tests the CheckTx
  path".
* `store/store.rs:223`: `Store::get_prev(None)` with the prefix [0, 255] looks
  before [1, 0]; if the key [1] is stored it finds that and returns none.
* `merk/proofstore.rs`: data missing before a key is a Merk error in
  `ProofStore::get_prev`, which the client does not take for a request to fetch.
* `collections/map.rs:688`: the key after one of all-255 bytes is not greater,
  so the iterator yields that entry again. `:734`: with an excluded start the
  iterator resumes among the sub-entries of the excluded key. `:805`: it goes on
  behind all keys that begin with the last one, so that after "1" it misses "10";
  `query_packet_commitments` and the pruning of old consensus states rely on it.
  `:413` and `:418` promise "all KV pairs in the map".
* `collections/map.rs:198`: `insert` keeps the entries stored below the old value;
  `:196` says "replacing any existing value". `:394`: after `swap` the flush
  writes a value to one key and what is below it to the other. `:337`: `entry`
  takes a removed child for occupied, and the `ChildMut` panics when used; `:320`
  says "`None` if the key has no value". `collections/deque.rs:322` inherits it:
  `front_mut` of an emptied deque; `back_mut` of an empty one subtracts from 0.
* `coins/pool.rs:125`: with no shares issued the entry of an account that joins is
  not brought up to date, and it is later paid the rewards of periods before it
  joined. `:214`: `get` settles the entry the map holds in memory; `:191` says
  that it "does not modify the underlying map". An error while a `ChildMut` is
  dropped is only recorded (`drop_errored`).
* `coins/`: the commission split rounds both parts, which need not add up to the
  reward; `Share::amount` can round up above what `take` allows; a coin that is
  taken and then refused by `give` is lost.
* `coins/staking/mod.rs`: a refused `redelegate` leaves the source's stake taken
  (`:605`); a redelegation is slashed by one minus the fraction, and the
  destination's power is not updated with it; the amount of a declaration "May be
  zero" (`:1283`) and is asserted to be positive; `slash_redelegation` may stop
  on amounts with a fraction.
* `upgrade/mod.rs:165`: the age of signals is weighed with the power of now, so a
  shift of power can activate at once; `:55` says "`activation_delay_seconds`
  after the threshold is reached at the earliest". `:140`: expected and actual
  are the other way round than `:27` and `:29` document.
* `abci/node.rs:52`: a `kill` before Tendermint has made its connections does not
  return, since the server waits in `accept`. `abci/mod.rs:473`: a worker whose
  request ended the server waits for its response for good (TODO at `:442`).
* `merk/store.rs:388`: a second offer leaves the restorer of the first, and no chunk
  of the new snapshot is accepted until a restart. `:367`: the TODO names the
  window in which the restored tree has no height. A crash while a snapshot's
  directory is removed leaves the rest of it.
* Set-up: a crash between `tendermint init` and the writes after it leaves a home
  directory that counts as configured, so that seeds, `timeout_commit` and the
  chain ID are never applied; `fs::write` is not atomic, and a file cut off stops
  the next start. `tendermint/mod.rs:230` joins peers without a separator.
* Layout: `ensure_prefixes` rejects equal prefixes only, not one that begins
  another; an empty struct flushes a version byte that `load` does not consume;
  `migrate` of a transparent struct migrates all fields while `flush` and `load`
  store the inner one; a struct's transparent field is attached at its parent
  and described one level below; a default `Migrate` of a value with a map in it
  would lose the map inside `Map::migrate`; the maps of `ABCIPlugin` are loaded
  and not migrated.
* Messages: a receiver behind a private field is resolved, and its message then
  does not decode; field prefixes from 0x40 and 0x80 on meet those of methods.
* `encoding.rs`: `LengthString` only comes back when it is ASCII,
  `EofTerminatedString::encoding_length` is one too long, and the length of a
  versioned value counts its version byte in compatibility mode too.
* IBC: `delete_consensus_state` uses another key than the state was stored under;
  a batch that fails keeps the effects of its earlier messages and drops their
  list of incoming transfers; `validate_self_client` accepts any client state.

## 7. Not modelled

Merkle trees and proofs (hashing, in the external crate merk); signatures, which
are good or not; command lines and downloads of the Tendermint wrapper, and the
parsing of its log; HTTP, gRPC and key files; the checks of the external crate
`ibc`, but for how they use the host's contexts; the closing of channels;
`Client::last_header`, which nothing modelled reads; a failing `bind` or `accept`
of the ABCI server. Gas,
events and logs are left out of `Abci`, several denominations and errors inside
`drop` out of `Pool`, rewards out of `Staking` (they are in `Pool` and `Purses`),
`#[orga(simple)]` out of `Layout`, and the calls of `Accounts` that only an app's
own code makes out of `Plugins`. `macros/src/client.rs`, `call.rs` and `query.rs`
are not part of the build. `PROJECT.json` lists every part with its status.

## 8. What could follow

Model: several denominations in `Pool` and `Purses`; `Staking` composed with
them; channel closing; longer batches in `Ibc`. Prove: `Upgrade` and `Pool` over
abstract sums whose laws are assumed; `PowerIndexMatchesStake`; that
`StoreIteration`, written with recursive functions, refines an ordered map.
