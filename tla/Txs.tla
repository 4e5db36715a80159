--------------------------------- MODULE Txs ----------------------------------
(***************************************************************************)
(* Transactions from the client to the block: AppClient::call over a       *)
(* Tendermint HttpClient, CheckTx on the mempool's state, DeliverTx on the *)
(* block's, queries on the snapshots of committed heights, and the         *)
(* process-wide Context all of them run in.                                *)
(*                                                                         *)
(* Transactions are delivered in any order and any number of times; those  *)
(* of Others can be proposed by any validator at any time.                 *)
(***************************************************************************)
EXTENDS Plugins

CONSTANTS Genesis,       \* the app's state after InitChain
          faucet,        \* FaucetOptions
          FaucetAccount, \* who the app mints to
          Wallet,        \* the address of the client's wallet
          Calls,         \* what the client may call
          Others,        \* transactions of others
          mem_snapshots, \* how many heights can be queried
          MaxHeight, MaxTxs, MaxNonce, MaxCalls

VARIABLES committed, \* committed[h]: the state of height h
          consensus, \* the block's state, or None between blocks
          mempool,   \* the state CheckTx runs on
          ctx,       \* the Context of the process
          block,     \* the transactions of the block in progress
          included,  \* the client's transactions in committed blocks
          network,   \* the client's transactions in the mempool
          client,
          ran,       \* history: the transactions that passed the nonce plugin
          returned   \* history: the client's transactions whose call returned Ok

vars == <<committed, consensus, mempool, ctx, block, included, network, client, ran, returned>>

-----------------------------------------------------------------------------
(* What the states, the Context and the transactions hold. *)

Chains == {Genesis.chain_id} \cup {tx.chain : tx \in Others}

State == [nonce : [Address -> Nat], accounts : [Address -> Nat \cup {None}],
          transfers_allowed : BOOLEAN, transfer_exceptions : SUBSET Address,
          chain_id : Chains, amount_minted : Nat]

Paid == [amount : Nat, running_payer : BOOLEAN, fee_disabled : BOOLEAN]

Context == [signer : {None} \cup [signer : Address \cup {None}],
            paid : {None} \cup Paid, chain_id : Chains \cup {None}]

AppCalls == [op : {"transfer"}, to : Address, amount : Nat]
            \cup [op : {"take_as_funding", "give_from_funding"}, amount : Nat]
            \cup [op : {"give_from_funding_all", "disable_fee"}]

Transaction == [kind : {"native", "amino", "protobuf"},
                signature : {"good", "bad", "half", "none"}, by : Address, chain : Chains,
                nonce : Nat \cup {None}, payer : AppCalls \cup {None}, paid : AppCalls]

TxsAssumption ==
    /\ PluginsAssumption
    /\ Genesis \in State /\ None \notin State /\ Others \subseteq Transaction
    /\ Calls \subseteq [payer : AppCalls, paid : AppCalls]
    /\ Wallet \in Address /\ FaucetAccount \in Address
    /\ MaxHeight \in Nat
    /\ \A h \in 1..MaxHeight : target_amount_minted(faucet, h - faucet.start_seconds) \in Nat

\* Others do not sign with the wallet's key.
SoleWallet == \A tx \in Others : tx.by # Wallet

-----------------------------------------------------------------------------
height == Len(committed)
NewClient == [at |-> "idle", height |-> None, read |-> {}, tx |-> None, calls |-> 0, lost |-> FALSE]

Init ==
    /\ committed = <<Genesis>> /\ consensus = None /\ mempool = Genesis
    /\ ctx = NoContext
    /\ block = <<>> /\ included = {} /\ network = {}
    /\ client = NewClient
    /\ ran = <<>> /\ returned = {}

-----------------------------------------------------------------------------
(* The node. *)

\* begin_block of an app that mints its faucet's coins to an account.
BeginBlock ==
    /\ consensus = None /\ height < MaxHeight
    /\ LET a == committed[height]
           m == mint(faucet, a.amount_minted, height)
       IN  consensus' = [deposit(a, FaucetAccount, m.coins) EXCEPT !.amount_minted = m.amount_minted]
    /\ UNCHANGED <<committed, mempool, ctx, block, included, network, client, ran, returned>>

\* The state is written back whether or not the call failed.
DeliverTx(tx) ==
    /\ consensus # None /\ Len(block) < MaxTxs
    /\ \E r \in {RunTx(consensus, ctx, tx)} :
          /\ consensus' = r.a
          /\ ctx' = r.g
          /\ ran' = IF ~r.err \/ r.a # consensus THEN Append(ran, tx) ELSE ran
    /\ block' = Append(block, tx)
    /\ UNCHANGED <<committed, mempool, included, network, client, returned>>

\* end_block and commit; the mempool's state starts again from the block's.
Commit ==
    /\ consensus # None
    /\ committed' = Append(committed, consensus)
    /\ consensus' = None
    /\ mempool' = consensus
    /\ included' = included \union (Range(block) \cap network)
    /\ block' = <<>>
    /\ UNCHANGED <<ctx, network, client, ran, returned>>

CheckTx(tx) ==
    /\ mempool.nonce[tx.by] < MaxNonce
    /\ \E r \in {RunTx(mempool, ctx, tx)} : mempool' = r.a /\ ctx' = r.g
    /\ UNCHANGED <<committed, consensus, block, included, network, client, ran, returned>>

\* The heights InternalApp::query can answer for.
Queryable == (IF height > mem_snapshots THEN height - mem_snapshots + 1 ELSE 1)..height

\* Query::Call: the call runs on a snapshot, and its changes are dropped.  For
\* lack of an Events context a signed call fails once its signature is verified.
Simulated(tx) ==
    IF tx.signature # "good" THEN RunTx(committed[height], ctx, tx).g
    ELSE [ctx EXCEPT !.signer = None,
                     !.chain_id = IF tx.kind = "native" THEN @ ELSE committed[height].chain_id]

Simulate(tx) ==
    /\ ctx' = Simulated(tx)
    /\ UNCHANGED <<committed, consensus, mempool, block, included, network, client, ran, returned>>

-----------------------------------------------------------------------------
(* The client. *)

Return(c) == [c EXCEPT !.at = "idle", !.read = {}, !.tx = None]

\* HttpClient::query: the first answer fixes the height of all that follow.
\* A variant that asks for the latest height each time.
query_Latest(c) ==
    {[c EXCEPT !.height = height, !.read = @ \union {height}]}
query(c) ==
    IF c.height = None THEN {[c EXCEPT !.height = height, !.read = @ \union {height}]}
    ELSE {[c EXCEPT !.read = @ \union {h}] : h \in {c.height} \cap Queryable}

\* Another HttpClient for the next call.
NewHttpClient ==
    /\ client.at = "idle" /\ client.height # None
    /\ client' = [client EXCEPT !.height = None]
    /\ UNCHANGED <<committed, consensus, mempool, ctx, block, included, network, ran, returned>>

\* AppClient::call: the chain id,
QueryChainId ==
    /\ client.at = "idle" /\ client.calls < MaxCalls
    /\ LET c == [client EXCEPT !.calls = @ + 1]
       IN  client' \in IF query(c) = {} THEN {Return(c)}
                       ELSE {[d EXCEPT !.at = "nonce"] : d \in query(c)}
    /\ UNCHANGED <<committed, consensus, mempool, ctx, block, included, network, ran, returned>>

\* the nonce and the app, joined to the store of the first query and asked for
\* at its height, and then the call is built and signed;
QueryNonce(call) ==
    /\ client.at = "nonce"
    /\ client' \in
           IF query(client) = {} THEN {Return(client)}
           ELSE {[d EXCEPT !.at = "check",
                           !.tx = [kind |-> "native", signature |-> "good", by |-> Wallet,
                                   chain |-> committed[d.height].chain_id,
                                   nonce |-> committed[d.height].nonce[Wallet] + 1,
                                   payer |-> call.payer, paid |-> call.paid]] : d \in query(client)}
    /\ UNCHANGED <<committed, consensus, mempool, ctx, block, included, network, ran, returned>>

\* broadcast_tx_commit: the call fails if CheckTx does,
\* (a variant that does not look at its code)
BroadcastTx_IgnoresCode ==
    /\ client.at = "check"
    /\ \E r \in {RunTx(mempool, ctx, client.tx)} : mempool' = r.a /\ ctx' = r.g
    /\ client' = [client EXCEPT !.at = "commit"]
    /\ network' = network \union {client.tx}
    /\ UNCHANGED <<committed, consensus, block, included, ran, returned>>
BroadcastTx ==
    /\ client.at = "check"
    /\ \E r \in {RunTx(mempool, ctx, client.tx)} :
          /\ mempool' = r.a /\ ctx' = r.g
          /\ IF r.err THEN client' = Return(client) /\ UNCHANGED network
             ELSE /\ client' = [client EXCEPT !.at = "commit"]
                  /\ network' = network \union {client.tx}
    /\ UNCHANGED <<committed, consensus, block, included, ran, returned>>

\* returns when the transaction is in a committed block, whatever DeliverTx
\* said of it,
TxCommitted ==
    /\ client.at = "commit" /\ client.tx \in included
    /\ client' = Return(client)
    /\ returned' = returned \union {client.tx}
    /\ UNCHANGED <<committed, consensus, mempool, ctx, block, included, network, ran>>

\* or fails when that takes too long; the transaction may still be delivered.
TxTimeout ==
    /\ client.at = "commit"
    /\ client' = [Return(client) EXCEPT !.lost = TRUE]
    /\ UNCHANGED <<committed, consensus, mempool, ctx, block, included, network, ran, returned>>

Next ==
    \/ BeginBlock \/ Commit
    \/ \E tx \in Others \union network : DeliverTx(tx)
    \/ \E tx \in Others : CheckTx(tx) \/ Simulate(tx)
    \/ NewHttpClient \/ QueryChainId \/ BroadcastTx \/ TxCommitted \/ TxTimeout
    \/ \E call \in Calls : QueryNonce(call)

Spec == Init /\ [][Next]_vars

-----------------------------------------------------------------------------
\* A signed call takes effect at most once, however often and in whatever order
\* its transaction is delivered: the nonce plugin raises the stored nonce to
\* that of the call before it runs it, and keeps it when the call fails.  (The
\* signed bytes of a Protobuf transaction do not hold the nonce.)
SignedCallsRunOnce ==
    \A i, j \in 1..Len(ran) :
        ran[i] = ran[j] /\ ran[i].signature = "good" /\ ran[i].kind # "protobuf" => i = j

\* Coins leave an account only by a transaction its owner signed for this
\* chain, whatever Context earlier calls, checks and simulated calls left behind.
OnlySignersPay ==
    [][\A d \in Address :
           (consensus # None /\ consensus' # None /\ balance(consensus', d) < balance(consensus, d)) =>
               /\ Len(ran') > Len(ran)
               /\ \E last \in {ran'[Len(ran')]} :
                      last.by = d /\ last.signature = "good" /\ last.chain = Genesis.chain_id]_vars

Total(a) == MapThenSumSet(LAMBDA d : balance(a, d), Address)

\* Every coin in an account comes from genesis or from the faucet, in the
\* block's, the mempool's and every committed state, and the faucet has minted
\* at each height what its periods make due, never more than its total.
CoinsOnlyFromFaucet ==
    /\ \A a \in Range(committed) \union {mempool} \union ({consensus} \ {None}) :
           /\ Total(a) <= Total(Genesis) + a.amount_minted
           /\ a.amount_minted <= faucet.total_to_mint
    /\ \A h \in 2..height : committed[h].amount_minted >= committed[h - 1].amount_minted
    /\ height - 1 >= faucet.start_seconds + faucet.num_periods * faucet.seconds_per_period =>
           committed[height].amount_minted = faucet.total_to_mint

\* The client only looks at the code of CheckTx, which ran the transaction on
\* another state.  As long as no call of the wallet timed out, and nobody else
\* signs with its key, a call that returned Ok passed the plugins in its block
\* all the same and ran there, at its nonce.  (It may have failed there: coins
\* it counted on in the mempool may not have reached the account yet.)
CallsThatReturnedOkRan ==
    ~client.lost => returned \subseteq Range(ran)

\* What the queries of one call read is joined into one store, which panics
\* when two of them found different values for a key: all are answered from
\* the height the first was.
JoinsNeverConflict ==
    \A h1, h2 \in client.read :
        /\ committed[h1].amount_minted = committed[h2].amount_minted
        /\ committed[h1].nonce = committed[h2].nonce
===============================================================================
