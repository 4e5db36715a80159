------------------------------- MODULE Plugins --------------------------------
(***************************************************************************)
(* DefaultPlugins: what a transaction goes through on its way to the app,  *)
(* SdkCompat -> Signer -> ChainCommitment -> Nonce -> Payable -> Fee, and  *)
(* the calls of Accounts and Faucet at its end.                            *)
(*                                                                         *)
(* A handler maps a record r to the next one: r.a is the app's state, r.g  *)
(* the process-wide Context, r.err whether it returned Err.  As in the     *)
(* code, what was changed before an error stays changed.                   *)
(*                                                                         *)
(* A transaction tx has a kind ("native", or "amino" and "protobuf" for    *)
(* those of the Cosmos SDK), a signature ("good", "bad", "half" when only  *)
(* one of public key and signature is present, or "none"), the address by  *)
(* of its public key, the chain and nonce it was made for, and its calls:  *)
(* payer and paid, or None and paid for an unpaid call.                    *)
(***************************************************************************)
EXTENDS Decimals, Sequences, FiniteSetsExt

CONSTANTS Address, None,
          MIN_FEE, NONCE_INCREASE_LIMIT

PluginsAssumption ==
    /\ MIN_FEE \in Nat /\ NONCE_INCREASE_LIMIT \in Nat
    /\ None \notin Nat \cup Address \cup [signer : Address \cup {None}]

Err(r) == [r EXCEPT !.err = TRUE]
Then(r, next(_)) == IF r.err THEN r ELSE next(r)

NoContext == [signer |-> None, paid |-> None, chain_id |-> None]

-----------------------------------------------------------------------------
(* Accounts and Coin; a missing account is None. *)

balance(a, d) == IF a.accounts[d] = None THEN 0 ELSE a.accounts[d]

\* accounts.entry(d).or_insert_default().give(n).
deposit(a, d, n) == [a EXCEPT !.accounts[d] = balance(a, d) + n]

\* Accounts::signer; the Signer context of an unsigned call names nobody.
Signer(r) == IF r.g.signer = None THEN None ELSE r.g.signer.signer

take_own_coins(r, n) ==
    LET d == Signer(r)
    IN  IF d = None \/ r.a.accounts[d] = None \/ n > balance(r.a, d) THEN Err(r)
        ELSE [r EXCEPT !.a.accounts[d] = @ - n]

give_own_coins(r, n) ==
    IF Signer(r) = None THEN Err(r)
    ELSE [r EXCEPT !.a = deposit(@, Signer(r), n)]

transfer(r, to, n) ==
    IF \/ Signer(r) = None
       \/ ~r.a.transfers_allowed /\ Signer(r) \notin r.a.transfer_exceptions
    THEN Err(r)
    ELSE Then(take_own_coins(r, n), LAMBDA x : [x EXCEPT !.a = deposit(@, to, n)])

\* Paid::take_denom and Paid::give_denom.
TakePaid(r, n) ==
    IF r.g.paid = None \/ r.g.paid.amount < n THEN Err(r)
    ELSE [r EXCEPT !.g.paid.amount = @ - n]
GivePaid(r, n) ==
    IF r.g.paid = None THEN Err(r) ELSE [r EXCEPT !.g.paid.amount = @ + n]

take_as_funding(r, n) == Then(take_own_coins(r, n), LAMBDA x : GivePaid(x, n))
give_from_funding(r, n) == Then(TakePaid(r, n), LAMBDA x : give_own_coins(x, n))

give_from_funding_all(r) ==
    IF r.g.paid = None THEN Err(r) ELSE give_from_funding(r, r.g.paid.amount)

disable_fee(r) ==
    IF r.g.paid = None THEN r ELSE [r EXCEPT !.g.paid.fee_disabled = TRUE]

\* The calls of the app at the end of the chain.
AppCall(r, call) ==
    CASE call.op = "transfer" -> transfer(r, call.to, call.amount)
      [] call.op = "take_as_funding" -> take_as_funding(r, call.amount)
      [] call.op = "give_from_funding" -> give_from_funding(r, call.amount)
      [] call.op = "give_from_funding_all" -> give_from_funding_all(r)
      [] call.op = "disable_fee" -> disable_fee(r)

-----------------------------------------------------------------------------
(* The plugins, from the innermost. *)

FeePlugin(r, call) ==
    LET charged == IF r.g.paid.running_payer \/ r.g.paid.fee_disabled THEN r
                   ELSE TakePaid(r, MIN_FEE)
    IN  IF r.g.paid = None THEN Err(r) ELSE Then(charged, LAMBDA x : AppCall(x, call))

PayablePlugin(r0, tx) ==
    LET r == [r0 EXCEPT !.g.paid = None]
        payer == [r EXCEPT !.g.paid = [amount |-> 0, running_payer |-> TRUE, fee_disabled |-> FALSE]]
        paid(x) == FeePlugin([x EXCEPT !.g.paid.running_payer = FALSE], tx.paid)
    IN  IF tx.payer = None THEN FeePlugin(r, tx.paid)
        ELSE Then(FeePlugin(payer, tx.payer), paid)

\* The stored nonce is set before the inner call.  A variant that accepts the
\* stored nonce itself.
NoncePlugin_OrEqual(r, tx) ==
    LET signer == r.g.signer.signer
        stored == r.a.nonce[signer]
    IN  IF signer = None /\ tx.nonce = None THEN PayablePlugin(r, tx)
        ELSE IF \/ signer = None \/ tx.nonce = None
                \/ tx.nonce < stored
                \/ tx.nonce - stored > NONCE_INCREASE_LIMIT
        THEN Err(r)
        ELSE PayablePlugin([r EXCEPT !.a.nonce[signer] = tx.nonce], tx)
NoncePlugin(r, tx) ==
    LET signer == r.g.signer.signer
        stored == r.a.nonce[signer]
    IN  IF signer = None /\ tx.nonce = None THEN PayablePlugin(r, tx)
        ELSE IF \/ signer = None \/ tx.nonce = None
                \/ tx.nonce <= stored
                \/ tx.nonce - stored > NONCE_INCREASE_LIMIT
        THEN Err(r)
        ELSE PayablePlugin([r EXCEPT !.a.nonce[signer] = tx.nonce], tx)

ChainCommitmentPlugin(r, tx) ==
    IF r.a.chain_id = None \/ tx.chain # r.a.chain_id THEN Err(r)
    ELSE NoncePlugin([r EXCEPT !.g.chain_id = r.a.chain_id], tx)

\* SignerPlugin::verify: whether the signature is over what the node takes the
\* signed bytes to be.  A native call is signed as a whole; the signed bytes of
\* an Amino transaction hold the chain and the next nonce, those of a Protobuf
\* transaction the chain.
Verifies(r, tx) ==
    /\ tx.signature = "good"
    /\ tx.kind # "native" => r.g.chain_id # None /\ tx.chain = r.g.chain_id
    /\ tx.kind = "amino" => tx.nonce = r.a.nonce[tx.by] + 1

\* signed is the transaction and call what it is converted to.  A variant that
\* keeps the Signer of the previous call when there is no signature.
SignerPlugin_KeepsSigner(r, signed, call) ==
    IF signed.signature = "none"
    THEN ChainCommitmentPlugin(IF r.g.signer # None THEN r
                               ELSE [r EXCEPT !.g.signer = [signer |-> None]], call)
    ELSE IF ~Verifies(r, signed) THEN Err([r EXCEPT !.g.signer = None])
    ELSE ChainCommitmentPlugin([r EXCEPT !.g.signer = [signer |-> signed.by]], call)
SignerPlugin(r, signed, call) ==
    IF signed.signature = "none"
    THEN ChainCommitmentPlugin([r EXCEPT !.g.signer = [signer |-> None]], call)
    ELSE IF ~Verifies(r, signed) THEN Err([r EXCEPT !.g.signer = None])
    ELSE ChainCommitmentPlugin([r EXCEPT !.g.signer = [signer |-> signed.by]], call)

\* ConvertSdkTx through the chain: the nonce is the next one of the sender, the
\* chain the node's own.
NonceConvert(r, tx) == [tx EXCEPT !.nonce = r.a.nonce[tx.by] + 1]
ChainCommitmentConvert(r, tx) == [NonceConvert(r, tx) EXCEPT !.chain = r.a.chain_id]
convert(r, tx) == ChainCommitmentConvert(r, tx)
SdkCompatPlugin(r, tx) ==
    IF tx.kind = "native" THEN SignerPlugin(r, tx, tx)
    ELSE IF tx.signature \in {"none", "half"} THEN Err(r)
    ELSE SignerPlugin([r EXCEPT !.g.chain_id = r.a.chain_id], tx, convert(r, tx))

\* A transaction on app state a, in the Context g earlier calls left behind.
RunTx(a, g, tx) == SdkCompatPlugin([a |-> a, g |-> g, err |-> FALSE], tx)

-----------------------------------------------------------------------------
(* Faucet: f is its configuration, decay a pair <<numerator, denominator>>. *)

\* The multiplier of each period, from 0.
Multiplier(f) ==
    LET m[i \in 0..(f.num_periods - 1)] ==
            IF i = 0 THEN Decimal(1) ELSE Times(m[i - 1], f.period_decay[1], f.period_decay[2])
    IN  m

\* configure sums them.
multiplier_total(f) == MapThenSumSet(LAMBDA i : Multiplier(f)[i], 0..(f.num_periods - 1))

\* Over the periods that are over the whole of each; of the one in progress
\* the fraction that has passed.
target_amount_minted(f, seconds) ==
    LET of_period(i) == (f.total_to_mint * Multiplier(f)[i] * Unit) \div multiplier_total(f)
        minted(i) ==
            IF seconds > (i + 1) * f.seconds_per_period THEN of_period(i)
            ELSE IF seconds > i * f.seconds_per_period
            THEN Times(of_period(i), seconds - i * f.seconds_per_period, f.seconds_per_period)
            ELSE 0
    IN  amount(MapThenSumSet(minted, 0..(f.num_periods - 1)))

\* mint: what is due now and the new amount_minted.  A variant that forgets
\* what it minted before.
mint_Forgets(f, amount_minted, now) ==
    LET target == target_amount_minted(f, now - f.start_seconds)
    IN  [coins |-> target, amount_minted |-> target]
mint(f, amount_minted, now) ==
    LET target == target_amount_minted(f, now - f.start_seconds)
    IN  IF now - f.start_seconds <= 0 \/ target <= amount_minted
        THEN [coins |-> 0, amount_minted |-> amount_minted]
        ELSE [coins |-> target - amount_minted, amount_minted |-> target]
===============================================================================
