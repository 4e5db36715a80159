------------------------------- MODULE TxsProofs -------------------------------
(* Transactions run once, coins are spent by their owners, and a client's      *)
(* queries agree: for any accounts, transactions, fees and faucet.             *)
EXTENDS Txs, TLAPS

USE ZenonT(60)

\* What a handler is given and returns.
Run == [a : State, g : Context, err : BOOLEAN]

\* What a handler below the nonce plugin may do: nothing to nonces, chain or
\* signer, and it takes coins from the signer only.
BySigner(r, x) ==
    /\ x \in Run
    /\ x.g.signer = r.g.signer
    /\ x.a.nonce = r.a.nonce /\ x.a.chain_id = r.a.chain_id
    /\ \A d \in Address : balance(x.a, d) >= balance(r.a, d) \/ Signer(r) = d

\* Below the payable plugin the Paid context stays as well.
Inner(r, x) == BySigner(r, x) /\ (r.g.paid \in Paid => x.g.paid \in Paid)

-----------------------------------------------------------------------------
\* The balance of an account is a number, and changes with the account.
LEMMA Balances ==
    ASSUME PluginsAssumption, NEW a \in State, NEW d \in Address
    PROVE  /\ balance(a, d) \in Nat
           /\ \A n \in Nat : balance([a EXCEPT !.accounts[d] = n], d) = n
           /\ \A n \in Nat, e \in Address : e # d =>
                  balance([a EXCEPT !.accounts[d] = n], e) = balance(a, e)
           /\ \A n \in Nat : LET b == [a EXCEPT !.accounts[d] = n]
                             IN  b \in State /\ b.nonce = a.nonce /\ b.chain_id = a.chain_id
<1>1. balance(a, d) \in Nat
  BY DEF balance, State
<1>2. ASSUME NEW n \in Nat
      PROVE  LET b == [a EXCEPT !.accounts[d] = n]
             IN  /\ b \in State /\ b.nonce = a.nonce /\ b.chain_id = a.chain_id
                 /\ b.accounts[d] = n /\ \A e \in Address : e # d => b.accounts[e] = a.accounts[e]
  BY DEF State
<1>3. QED
  BY <1>1, <1>2 DEF balance, PluginsAssumption

\* A handler that changes nothing, ...
LEMMA InnerRefl ==
    ASSUME PluginsAssumption, NEW r \in Run
    PROVE  Inner(r, r)
BY Balances, SMTT(60) DEF Inner, BySigner, Run

\* ... and two handlers one after the other, are again such handlers.
LEMMA InnerTrans ==
    ASSUME PluginsAssumption, NEW r \in Run, NEW x, NEW y, Inner(r, x), Inner(x, y)
    PROVE  Inner(r, y)
<1>1. \A d \in Address : balance(r.a, d) \in Nat /\ balance(x.a, d) \in Nat /\ balance(y.a, d) \in Nat
  BY Balances DEF Inner, BySigner, Run
<1>2. Signer(x) = Signer(r)
  BY DEF Inner, BySigner, Signer
<1>3. \A d \in Address : balance(y.a, d) >= balance(r.a, d) \/ Signer(r) = d
  BY <1>1, <1>2, SMTT(60) DEF Inner, BySigner
<1>4. QED
  BY <1>3 DEF Inner, BySigner

\* An error changes nothing else.
LEMMA InnerErr ==
    ASSUME PluginsAssumption, NEW r \in Run
    PROVE  Inner(r, Err(r)) /\ Err(r).err /\ Err(r).a = r.a /\ Err(r).g = r.g
<1>1. Err(r) \in Run /\ Err(r).err /\ Err(r).a = r.a /\ Err(r).g = r.g
  BY DEF Err, Run
<1>2. QED
  BY <1>1, InnerRefl DEF Inner, BySigner, Signer

-----------------------------------------------------------------------------
(* The calls of Accounts and of Paid. *)

\* Setting an account of the state under way.
LEMMA SetAccount ==
    ASSUME PluginsAssumption, NEW r \in Run, NEW d \in Address, NEW n \in Nat,
           NEW x, x = [r EXCEPT !.a = [r.a EXCEPT !.accounts[d] = n]],
           n >= balance(r.a, d) \/ Signer(r) = d
    PROVE  Inner(r, x)
<1>1. r.a \in State /\ r.g \in Context /\ r.err \in BOOLEAN
  BY DEF Run
<1>2. PICK b : b = [r.a EXCEPT !.accounts[d] = n]
  OBVIOUS
<1>3. /\ b \in State /\ b.nonce = r.a.nonce /\ b.chain_id = r.a.chain_id
      /\ balance(b, d) = n /\ \A e \in Address : e # d => balance(b, e) = balance(r.a, e)
  BY <1>1, <1>2, Balances, SMTT(60)
<1>4. x \in Run /\ x.a = b /\ x.g = r.g
  BY <1>1, <1>2, <1>3 DEF Run
<1>5. \A e \in Address : balance(r.a, e) \in Nat
  BY <1>1, Balances
<1>6. \A e \in Address : balance(x.a, e) >= balance(r.a, e) \/ Signer(r) = e
  BY <1>3, <1>4, <1>5, SMTT(60)
<1>7. QED
  BY <1>3, <1>4, <1>6 DEF Inner, BySigner

\* Setting the coins paid in, or the flags beside them.
LEMMA SetPaid ==
    ASSUME PluginsAssumption, NEW r \in Run, NEW p \in Paid,
           NEW x, x = [r EXCEPT !.g = [r.g EXCEPT !.paid = p]]
    PROVE  Inner(r, x) /\ x.a = r.a /\ x.g.paid = p /\ x.err = r.err
<1>1. x \in Run /\ x.a = r.a /\ x.g.signer = r.g.signer /\ x.g.paid = p /\ x.err = r.err
  BY DEF Run, Context
<1>2. QED
  BY <1>1, InnerRefl DEF Inner, BySigner

\* The signer of a call, if it has one, is an address.
LEMMA SignerIsAddress ==
    ASSUME NEW r \in Run
    PROVE  Signer(r) \in Address \cup {None}
BY DEF Run, Context, Signer

\* Coins taken from the caller's own account leave that of the signer.
LEMMA TakeOwn ==
    ASSUME PluginsAssumption, NEW r \in Run, NEW n \in Nat
    PROVE  Inner(r, take_own_coins(r, n))
<1>1. CASE Signer(r) = None \/ r.a.accounts[Signer(r)] = None \/ n > balance(r.a, Signer(r))
  <2>1. take_own_coins(r, n) = Err(r)
    BY <1>1 DEF take_own_coins
  <2>2. QED
    BY <2>1, InnerErr
<1>2. CASE ~(Signer(r) = None \/ r.a.accounts[Signer(r)] = None \/ n > balance(r.a, Signer(r)))
  <2>1. PICK d \in Address : d = Signer(r)
    BY <1>2, SignerIsAddress
  <2>2. take_own_coins(r, n) = [r EXCEPT !.a.accounts[d] = @ - n]
    BY <1>2, <2>1 DEF take_own_coins
  <2>3. PICK m : m = r.a.accounts[d] - n
    OBVIOUS
  <2>4. m \in Nat
    BY <1>2, <2>1, <2>3, SMTT(60) DEF balance, Run, State
  <2>5. take_own_coins(r, n) = [r EXCEPT !.a = [r.a EXCEPT !.accounts[d] = m]]
    BY <2>2, <2>3
  <2>6. QED
    BY <2>1, <2>4, <2>5, SetAccount
<1>3. QED
  BY <1>1, <1>2

\* A deposit takes no coins from any account, ...
LEMMA Deposit ==
    ASSUME PluginsAssumption, NEW r \in Run, NEW n \in Nat, NEW d \in Address
    PROVE  Inner(r, [r EXCEPT !.a = deposit(r.a, d, n)])
<1>1. balance(r.a, d) \in Nat
  BY Balances DEF Run
<1>2. PICK m \in Nat : m = balance(r.a, d) + n
  BY <1>1, SMTT(60)
<1>3. deposit(r.a, d, n) = [r.a EXCEPT !.accounts[d] = m]
  BY <1>2 DEF deposit
<1>4. QED
  BY <1>1, <1>2, <1>3, SetAccount, SMTT(60)

\* ... nor does giving coins to the caller's own account.
LEMMA GiveOwn ==
    ASSUME PluginsAssumption, NEW r \in Run, NEW n \in Nat
    PROVE  Inner(r, give_own_coins(r, n))
<1>1. CASE Signer(r) = None
  BY <1>1, InnerErr DEF give_own_coins
<1>2. CASE Signer(r) # None
  BY <1>2, SignerIsAddress, Deposit DEF give_own_coins
<1>3. QED
  BY <1>1, <1>2

\* A transfer takes coins from the signer's account only.
LEMMA Transfer ==
    ASSUME PluginsAssumption, NEW r \in Run, NEW to \in Address, NEW n \in Nat
    PROVE  Inner(r, transfer(r, to, n))
<1>1. PICK x : x = take_own_coins(r, n)
  OBVIOUS
<1>2. Inner(r, x) /\ x \in Run
  BY <1>1, TakeOwn DEF Inner, BySigner
<1>3. PICK y : y = [x EXCEPT !.a = deposit(x.a, to, n)]
  OBVIOUS
<1>4. Inner(r, y)
  BY <1>2, <1>3, Deposit, InnerTrans
<1>5. transfer(r, to, n) \in {Err(r), x, y}
  BY <1>1, <1>3 DEF transfer, Then
<1>6. QED
  BY <1>2, <1>4, <1>5, InnerErr

\* Taking coins from the Paid context or giving to it touches no account.
LEMMA PaidCalls ==
    ASSUME PluginsAssumption, NEW r \in Run, NEW n \in Nat
    PROVE  Inner(r, TakePaid(r, n)) /\ Inner(r, GivePaid(r, n))
<1>1. CASE r.g.paid = None
  BY <1>1, InnerErr DEF TakePaid, GivePaid
<1>2. CASE r.g.paid # None
  <2>1. r.g.paid \in Paid
    BY <1>2 DEF Run, Context
  <2>2. PICK p : p = [r.g.paid EXCEPT !.amount = @ + n]
    OBVIOUS
  <2>3. p \in Paid
    BY <2>1, <2>2, SMTT(60) DEF Paid
  <2>4. GivePaid(r, n) = [r EXCEPT !.g = [r.g EXCEPT !.paid = p]]
    BY <1>2, <2>2 DEF GivePaid
  <2>5. Inner(r, GivePaid(r, n))
    BY <2>3, <2>4, SetPaid
  <2>6. CASE r.g.paid.amount < n
    BY <2>5, <2>6, InnerErr DEF TakePaid
  <2>7. CASE ~(r.g.paid.amount < n)
    <3>1. PICK q : q = [r.g.paid EXCEPT !.amount = @ - n]
      OBVIOUS
    <3>2. q \in Paid
      BY <2>1, <2>7, <3>1, SMTT(60) DEF Paid
    <3>3. TakePaid(r, n) = [r EXCEPT !.g = [r.g EXCEPT !.paid = q]]
      BY <1>2, <2>7, <3>1 DEF TakePaid
    <3>4. QED
      BY <2>5, <3>2, <3>3, SetPaid
  <2>8. QED
    BY <2>6, <2>7
<1>3. QED
  BY <1>1, <1>2

\* Moving the signer's coins into the Paid context, and back out of it.
LEMMA Funding ==
    ASSUME PluginsAssumption, NEW r \in Run, NEW n \in Nat
    PROVE  Inner(r, take_as_funding(r, n)) /\ Inner(r, give_from_funding(r, n))
<1>1. PICK x : x = take_own_coins(r, n)
  OBVIOUS
<1>2. Inner(r, x) /\ x \in Run
  BY <1>1, TakeOwn DEF Inner, BySigner
<1>3. PICK y : y = GivePaid(x, n)
  OBVIOUS
<1>4. Inner(r, y)
  BY <1>2, <1>3, PaidCalls, InnerTrans
<1>5. take_as_funding(r, n) \in {x, y}
  BY <1>1, <1>3 DEF take_as_funding, Then
<1>6. PICK u : u = TakePaid(r, n)
  OBVIOUS
<1>7. Inner(r, u) /\ u \in Run
  BY <1>6, PaidCalls DEF Inner, BySigner
<1>8. PICK v : v = give_own_coins(u, n)
  OBVIOUS
<1>9. Inner(r, v)
  BY <1>7, <1>8, GiveOwn, InnerTrans
<1>10. give_from_funding(r, n) \in {u, v}
  BY <1>6, <1>8 DEF give_from_funding, Then
<1>11. QED
  BY <1>2, <1>4, <1>5, <1>7, <1>9, <1>10

\* So every call of the application takes coins from the signer only, ...
LEMMA CallsOfApp ==
    ASSUME PluginsAssumption, NEW r \in Run, NEW call \in AppCalls
    PROVE  Inner(r, AppCall(r, call))
<1>1. CASE call \in [op : {"transfer"}, to : Address, amount : Nat]
  <2>1. call.op = "transfer" /\ call.to \in Address /\ call.amount \in Nat
    BY <1>1
  <2>2. AppCall(r, call) = transfer(r, call.to, call.amount)
    BY <2>1 DEF AppCall
  <2>3. QED
    BY <2>1, <2>2, Transfer
<1>2. CASE call \in [op : {"take_as_funding", "give_from_funding"}, amount : Nat]
  <2>1. call.op \in {"take_as_funding", "give_from_funding"} /\ call.amount \in Nat
    BY <1>2
  <2>2. AppCall(r, call) \in {take_as_funding(r, call.amount), give_from_funding(r, call.amount)}
    BY <2>1 DEF AppCall
  <2>3. QED
    BY <2>1, <2>2, Funding
<1>3. CASE call \in [op : {"give_from_funding_all", "disable_fee"}]
  <2>1. call.op \in {"give_from_funding_all", "disable_fee"}
    BY <1>3
  <2>2. AppCall(r, call) \in {give_from_funding_all(r), disable_fee(r)}
    BY <2>1 DEF AppCall
  <2>3. CASE r.g.paid = None
    <3>1. give_from_funding_all(r) = Err(r) /\ disable_fee(r) = r
      BY <2>3 DEF give_from_funding_all, disable_fee
    <3>2. QED
      BY <2>2, <3>1, InnerErr, InnerRefl
  <2>4. CASE r.g.paid # None
    <3>1. r.g.paid \in Paid /\ r.g.paid.amount \in Nat
      BY <2>4 DEF Run, Context, Paid
    <3>2. Inner(r, give_from_funding_all(r))
      BY <2>4, <3>1, Funding DEF give_from_funding_all
    <3>3. PICK p : p = [r.g.paid EXCEPT !.fee_disabled = TRUE]
      OBVIOUS
    <3>4. p \in Paid
      BY <3>1, <3>3 DEF Paid
    <3>5. disable_fee(r) = [r EXCEPT !.g = [r.g EXCEPT !.paid = p]]
      BY <2>4, <3>3 DEF disable_fee
    <3>6. Inner(r, disable_fee(r))
      BY <3>4, <3>5, SetPaid
    <3>7. QED
      BY <2>2, <3>2, <3>6
  <2>5. QED
    BY <2>3, <2>4
<1>4. QED
  BY <1>1, <1>2, <1>3 DEF AppCalls

-----------------------------------------------------------------------------
(* The plugins. *)

\* ... and with the fee plugin around it as well, ...
LEMMA Fees ==
    ASSUME PluginsAssumption, NEW r \in Run, NEW call \in AppCalls
    PROVE  Inner(r, FeePlugin(r, call))
<1>1. PICK x : x = IF r.g.paid.running_payer \/ r.g.paid.fee_disabled THEN r
                   ELSE TakePaid(r, MIN_FEE)
  OBVIOUS
<1>2. Inner(r, x) /\ x \in Run
  BY <1>1, InnerRefl, PaidCalls DEF Inner, BySigner, PluginsAssumption
<1>3. PICK y : y = AppCall(x, call)
  OBVIOUS
<1>4. Inner(r, y)
  BY <1>2, <1>3, CallsOfApp, InnerTrans
<1>5. FeePlugin(r, call) \in {Err(r), x, y}
  BY <1>1, <1>3 DEF FeePlugin, Then
<1>6. QED
  BY <1>2, <1>4, <1>5, InnerErr

\* ... and the payable plugin, which sets up the Paid context.
LEMMA Payable ==
    ASSUME PluginsAssumption, NEW r \in Run, NEW tx \in Transaction
    PROVE  BySigner(r, PayablePlugin(r, tx))
<1>0. tx.paid \in AppCalls /\ tx.payer \in AppCalls \cup {None}
  BY DEF Transaction
<1>1. CASE tx.payer = None
  <2>1. PICK u : u = [r EXCEPT !.g.paid = None]
    OBVIOUS
  <2>2. u \in Run /\ u.a = r.a /\ u.g.signer = r.g.signer /\ u.g.paid = None
    BY <2>1 DEF Run, Context
  <2>3. PayablePlugin(r, tx) = Err(u)
    BY <1>1, <2>1, <2>2 DEF PayablePlugin, FeePlugin
  <2>4. Inner(u, Err(u)) /\ Signer(u) = Signer(r)
    BY <2>2, InnerErr DEF Signer
  <2>5. QED
    BY <2>2, <2>3, <2>4 DEF Inner, BySigner
<1>2. CASE tx.payer # None
  <2>1. PICK p \in Paid : p = [amount |-> 0, running_payer |-> TRUE, fee_disabled |-> FALSE]
    BY DEF Paid
  <2>2. PICK u : u = [r EXCEPT !.g = [r.g EXCEPT !.paid = p]]
    OBVIOUS
  <2>3. u = [[r EXCEPT !.g.paid = None] EXCEPT !.g.paid = p]
    BY <2>2 DEF Run, Context
  <2>a. Inner(r, u) /\ u.g.paid = p
    BY <2>1, <2>2, SetPaid
  <2>4. Inner(r, u) /\ u \in Run /\ u.g.paid \in Paid
    BY <2>1, <2>a DEF Inner, BySigner
  <2>5. PICK x : x = FeePlugin(u, tx.payer)
    OBVIOUS
  <2>6. Inner(u, x) /\ x \in Run /\ x.g.paid \in Paid
    BY <1>0, <1>2, <2>4, <2>5, Fees DEF Inner, BySigner
  <2>7. PICK q : q = [x.g.paid EXCEPT !.running_payer = FALSE]
    OBVIOUS
  <2>8. q \in Paid
    BY <2>6, <2>7 DEF Paid
  <2>9. PICK y : y = [x EXCEPT !.g = [x.g EXCEPT !.paid = q]]
    OBVIOUS
  <2>10. y = [x EXCEPT !.g.paid.running_payer = FALSE]
    BY <2>7, <2>9
  <2>b. Inner(x, y)
    BY <2>6, <2>8, <2>9, SetPaid
  <2>11. Inner(x, y) /\ y \in Run
    BY <2>b DEF Inner, BySigner
  <2>12. Inner(y, FeePlugin(y, tx.paid))
    BY <1>0, <2>11, Fees
  <2>13. PayablePlugin(r, tx) = IF x.err THEN x ELSE FeePlugin(y, tx.paid)
    BY <1>2, <2>1, <2>3, <2>5, <2>10, SMTT(60) DEF PayablePlugin, Then
  <2>14. Inner(r, x)
    BY <2>4, <2>6, InnerTrans
  <2>15. Inner(r, FeePlugin(y, tx.paid))
    BY <2>14, <2>11, <2>12, InnerTrans
  <2>16. QED
    BY <2>13, <2>14, <2>15 DEF Inner
<1>3. QED
  BY <1>1, <1>2

\* What running a call from the nonce plugin on does: nonces only grow, the
\* signer's alone becomes that of the call, and coins leave the signer's account
\* only.
Ran(r, x, call) ==
    /\ x \in Run /\ x.a.chain_id = r.a.chain_id
    /\ \A d \in Address : x.a.nonce[d] >= r.a.nonce[d]
    /\ \A d \in Address : x.a.nonce[d] = r.a.nonce[d] \/ Signer(r) = d
    /\ \A d \in Address : balance(x.a, d) >= balance(r.a, d) \/ Signer(r) = d
    /\ Signer(r) # None =>
           \/ x.err /\ x.a = r.a
           \/ /\ call.nonce \in Nat /\ call.nonce > r.a.nonce[Signer(r)]
              /\ x.a.nonce[Signer(r)] = call.nonce

\* A call refused before the nonce plugin leaves the state as it was.
LEMMA RanErr ==
    ASSUME PluginsAssumption, NEW r \in Run, NEW call
    PROVE  Ran(r, Err(r), call)
<1>1. Err(r) \in Run /\ Err(r).err /\ Err(r).a = r.a
  BY InnerErr DEF Inner, BySigner
<1>2. \A d \in Address : r.a.nonce[d] \in Nat /\ balance(r.a, d) \in Nat
  BY Balances DEF Run, State
<1>3. QED
  BY <1>1, <1>2, SMTT(60) DEF Ran

\* The nonce plugin stores the nonce of a call above the last one before it
\* runs the call, and refuses any other.
LEMMA Nonces ==
    ASSUME PluginsAssumption, NEW r \in Run, r.g.signer # None, NEW call \in Transaction
    PROVE  Ran(r, NoncePlugin(r, call), call)
<1> DEFINE d == Signer(r)
<1>0. d = r.g.signer.signer /\ d \in Address \cup {None}
  BY SignerIsAddress DEF Signer
<1>1. CASE d = None /\ call.nonce = None
  <2>1. PICK x : x = PayablePlugin(r, call)
    OBVIOUS
  <2>2. BySigner(r, x)
    BY <2>1, Payable
  <2>3. \A e \in Address : r.a.nonce[e] \in Nat
    BY DEF Run, State
  <2>4. NoncePlugin(r, call) = x
    BY <1>0, <1>1, <2>1 DEF NoncePlugin
  <2>5. QED
    BY <1>1, <2>2, <2>3, <2>4, SMTT(60) DEF BySigner, Ran
<1>2. CASE /\ ~(d = None /\ call.nonce = None)
           /\ \/ d = None \/ call.nonce = None
              \/ call.nonce <= r.a.nonce[d]
              \/ call.nonce - r.a.nonce[d] > NONCE_INCREASE_LIMIT
  <2>1. NoncePlugin(r, call) = Err(r)
    BY <1>0, <1>2 DEF NoncePlugin
  <2>2. QED
    BY <2>1, RanErr
<1>3. CASE ~(\/ d = None \/ call.nonce = None
             \/ call.nonce <= r.a.nonce[d]
             \/ call.nonce - r.a.nonce[d] > NONCE_INCREASE_LIMIT)
  <2>1. d \in Address /\ call.nonce \in Nat
    BY <1>0, <1>3 DEF Transaction
  <2>2. r.a.nonce \in [Address -> Nat] /\ call.nonce > r.a.nonce[d]
    BY <1>3, <2>1, SMTT(60) DEF Run, State
  <2>3. PICK u : u = [r EXCEPT !.a.nonce[d] = call.nonce]
    OBVIOUS
  <2>4. /\ u \in Run /\ u.g = r.g
        /\ u.a.nonce = [r.a.nonce EXCEPT ![d] = call.nonce]
        /\ u.a.chain_id = r.a.chain_id /\ u.a.accounts = r.a.accounts
    BY <2>1, <2>2, <2>3 DEF Run, State
  <2>5. Signer(u) = Signer(r) /\ \A e \in Address : balance(u.a, e) = balance(r.a, e)
    BY <2>4 DEF Signer, balance
  <2>6. PICK x : x = PayablePlugin(u, call)
    OBVIOUS
  <2>7. BySigner(u, x)
    BY <2>4, <2>6, Payable
  <2>8. NoncePlugin(r, call) = x
    BY <1>0, <1>3, <2>3, <2>6 DEF NoncePlugin
  <2>9. x \in Run /\ x.a.chain_id = r.a.chain_id /\ x.a.nonce = [r.a.nonce EXCEPT ![d] = call.nonce]
    BY <2>4, <2>7 DEF BySigner
  <2>10. \A e \in Address : balance(x.a, e) >= balance(r.a, e) \/ Signer(r) = e
    BY <2>5, <2>7 DEF BySigner
  <2>11. /\ \A e \in Address : x.a.nonce[e] >= r.a.nonce[e]
         /\ \A e \in Address : x.a.nonce[e] = r.a.nonce[e] \/ d = e
         /\ x.a.nonce[d] = call.nonce
    BY <2>1, <2>2, <2>9, SMTT(60)
  <2>12. QED
    BY <2>1, <2>2, <2>8, <2>9, <2>10, <2>11 DEF Ran
<1>4. QED
  BY <1>1, <1>2, <1>3

\* The chain commitment plugin lets only the calls for this chain through.
LEMMA ChainCommitments ==
    ASSUME PluginsAssumption, NEW r \in Run, r.g.signer # None, NEW call \in Transaction,
           NEW x, x = ChainCommitmentPlugin(r, call)
    PROVE  /\ Ran(r, x, call)
           /\ x.a = r.a \/ call.chain = r.a.chain_id
<1>1. CASE r.a.chain_id = None \/ call.chain # r.a.chain_id
  <2>1. x = Err(r)
    BY <1>1 DEF ChainCommitmentPlugin
  <2>2. QED
    BY <2>1, RanErr, InnerErr
<1>2. CASE ~(r.a.chain_id = None \/ call.chain # r.a.chain_id)
  <2>1. PICK u : u = [r EXCEPT !.g.chain_id = r.a.chain_id]
    OBVIOUS
  <2>2. u \in Run /\ u.a = r.a /\ u.g.signer = r.g.signer
    BY <2>1 DEF Run, State, Context
  <2>3. x = NoncePlugin(u, call)
    BY <1>2, <2>1 DEF ChainCommitmentPlugin
  <2>4. Ran(u, x, call)
    BY <2>2, <2>3, Nonces
  <2>5. Signer(u) = Signer(r)
    BY <2>2 DEF Signer
  <2>6. QED
    BY <1>2, <2>2, <2>4, <2>5 DEF Ran
<1>3. QED
  BY <1>1, <1>2

\* What a transaction does to the app's state.
LEMMA RunTxRuns ==
    ASSUME PluginsAssumption, NEW a \in State, NEW g \in Context, NEW tx \in Transaction,
           NEW x, x = RunTx(a, g, tx)
    PROVE  /\ x \in Run /\ x.a.chain_id = a.chain_id
           /\ \A d \in Address : x.a.nonce[d] >= a.nonce[d]
           /\ \A d \in Address : x.a.nonce[d] = a.nonce[d] \/ tx.by = d
           /\ tx.signature = "good" /\ tx.kind # "protobuf" =>
                  \/ x.err /\ x.a = a
                  \/ /\ tx.nonce \in Nat /\ tx.nonce > a.nonce[tx.by]
                     /\ x.a.nonce[tx.by] = tx.nonce
           /\ \A d \in Address : balance(x.a, d) < balance(a, d) =>
                  tx.by = d /\ tx.signature = "good" /\ tx.chain = a.chain_id
<1> DEFINE r0 == [a |-> a, g |-> g, err |-> FALSE]
<1>1. r0 \in Run /\ r0.a = a /\ r0.g = g /\ x = SdkCompatPlugin(r0, tx)
  BY DEF Run, RunTx
<1>2. \A d \in Address : a.nonce[d] \in Nat /\ balance(a, d) \in Nat
  BY Balances DEF State
<1>3. tx.by \in Address /\ tx.by # None
  BY DEF Transaction, PluginsAssumption
<1> HIDE DEF r0
<1> DEFINE Goal ==
           /\ x \in Run /\ x.a.chain_id = a.chain_id
           /\ \A d \in Address : x.a.nonce[d] >= a.nonce[d]
           /\ \A d \in Address : x.a.nonce[d] = a.nonce[d] \/ tx.by = d
           /\ tx.signature = "good" /\ tx.kind # "protobuf" =>
                  \/ x.err /\ x.a = a
                  \/ /\ tx.nonce \in Nat /\ tx.nonce > a.nonce[tx.by]
                     /\ x.a.nonce[tx.by] = tx.nonce
           /\ \A d \in Address : balance(x.a, d) < balance(a, d) =>
                  tx.by = d /\ tx.signature = "good" /\ tx.chain = a.chain_id
<1>4. ASSUME NEW u \in Run, u.a = a, x = Err(u)
      PROVE  Goal
  <2>1. x \in Run /\ x.a = a /\ x.err
    BY <1>4, InnerErr DEF Inner, BySigner
  <2>2. QED
    BY <1>2, <2>1, SMTT(60)
<1>5. ASSUME NEW r \in Run, r.a = a, NEW call \in Transaction, x = SignerPlugin(r, tx, call),
             tx.kind = "native" => call = tx,
             tx.kind # "native" => /\ tx.signature # "none" /\ r.g.chain_id = a.chain_id
                                   /\ call.nonce = a.nonce[tx.by] + 1
      PROVE  Goal
  <2>1. CASE tx.signature = "none"
    <3>1. PICK u : u = [r EXCEPT !.g.signer = [signer |-> None]]
      OBVIOUS
    <3>2. u \in Run /\ u.a = a /\ u.g.signer = [signer |-> None]
      BY <1>5, <3>1 DEF Run, Context
    <3>3. x = ChainCommitmentPlugin(u, call)
      BY <1>5, <2>1, <3>1 DEF SignerPlugin
    <3>4. u.g.signer # None /\ Signer(u) = None
      BY <3>2, SMTT(60) DEF Signer, PluginsAssumption
    <3>5. Ran(u, x, call)
      BY <3>2, <3>3, <3>4, ChainCommitments
    <3>6. \A d \in Address : d # None /\ balance(x.a, d) \in Nat
      BY <3>5, Balances DEF Ran, Run, PluginsAssumption
    <3>7. QED
      BY <1>2, <2>1, <3>2, <3>4, <3>5, <3>6, SMTT(60) DEF Ran
  <2>2. CASE tx.signature # "none" /\ ~Verifies(r, tx)
    <3>1. PICK u : u = [r EXCEPT !.g.signer = None]
      OBVIOUS
    <3>2. u \in Run /\ u.a = a
      BY <1>5, <3>1 DEF Run, Context
    <3>3. x = Err(u)
      BY <1>5, <2>2, <3>1 DEF SignerPlugin
    <3>4. QED
      BY <1>4, <3>2, <3>3
  <2>3. CASE tx.signature # "none" /\ Verifies(r, tx)
    <3>1. PICK u : u = [r EXCEPT !.g.signer = [signer |-> tx.by]]
      OBVIOUS
    <3>2. u \in Run /\ u.a = a /\ u.g.signer = [signer |-> tx.by]
      BY <1>3, <1>5, <3>1 DEF Run, Context
    <3>3. x = ChainCommitmentPlugin(u, call)
      BY <1>5, <2>3, <3>1 DEF SignerPlugin
    <3>4. u.g.signer # None /\ Signer(u) = tx.by
      BY <1>3, <3>2, SMTT(60) DEF Signer, PluginsAssumption
    <3>5. Ran(u, x, call) /\ (x.a = a \/ call.chain = a.chain_id)
      BY <3>2, <3>3, <3>4, ChainCommitments
    <3>6. \A d \in Address : balance(x.a, d) \in Nat
      BY <3>5, Balances DEF Ran, Run
    <3>7. tx.signature = "good" /\ (tx.kind # "native" => tx.chain = a.chain_id)
      BY <1>5, <2>3 DEF Verifies
    <3>8. tx.kind # "protobuf" => call.nonce = tx.nonce
      BY <1>5, <2>3 DEF Verifies, Transaction
    <3>9. \A d \in Address : balance(x.a, d) < balance(a, d) => tx.by = d /\ tx.chain = a.chain_id
      BY <1>2, <1>5, <3>2, <3>4, <3>5, <3>6, <3>7, SMTT(60) DEF Ran
    <3>10. /\ x \in Run /\ x.a.chain_id = a.chain_id
           /\ \A d \in Address : x.a.nonce[d] >= a.nonce[d]
           /\ \A d \in Address : x.a.nonce[d] = a.nonce[d] \/ tx.by = d
           /\ \/ x.err /\ x.a = a
              \/ /\ call.nonce \in Nat /\ call.nonce > a.nonce[tx.by]
                 /\ x.a.nonce[tx.by] = call.nonce
      BY <1>3, <3>2, <3>4, <3>5 DEF Ran
    <3>11. QED
      BY <3>7, <3>8, <3>9, <3>10
  <2>4. QED
    BY <2>1, <2>2, <2>3
<1> HIDE DEF Goal
<1>6. CASE tx.kind = "native"
  <2>1. x = SignerPlugin(r0, tx, tx)
    BY <1>1, <1>6 DEF SdkCompatPlugin
  <2>2. Goal
    BY <1>1, <1>5, <1>6, <2>1
  <2>3. QED
    BY <2>2 DEF Goal
<1>7. CASE tx.kind # "native"
  <2>1. CASE tx.signature \in {"none", "half"}
    <3>1. x = Err(r0)
      BY <1>1, <1>7, <2>1 DEF SdkCompatPlugin
    <3>2. Goal
      BY <1>1, <1>4, <3>1
    <3>3. QED
      BY <3>2 DEF Goal
  <2>2. CASE tx.signature \notin {"none", "half"}
    <3>1. PICK r : r = [r0 EXCEPT !.g.chain_id = r0.a.chain_id]
      OBVIOUS
    <3>2. r \in Run /\ r.a = a /\ r.g.chain_id = a.chain_id
      BY <1>1, <3>1 DEF Run, Context, State
    <3>3. PICK call : call = convert(r0, tx)
      OBVIOUS
    <3>a. PICK n \in Nat : n = a.nonce[tx.by] + 1
      BY <1>2, <1>3, SMTT(60)
    <3>b. PICK c \in Chains : c = a.chain_id
      BY DEF State
    <3>c. call = [tx EXCEPT !.chain = c, !.nonce = n]
      BY <1>1, <3>3, <3>a, <3>b DEF convert, ChainCommitmentConvert, NonceConvert
    <3>4. call \in Transaction /\ call.nonce = a.nonce[tx.by] + 1
      BY <3>a, <3>b, <3>c DEF Transaction
    <3>5. x = SignerPlugin(r, tx, call)
      BY <1>1, <1>7, <2>2, <3>1, <3>3 DEF SdkCompatPlugin
    <3>6. Goal
      BY <1>5, <1>7, <2>2, <3>2, <3>4, <3>5
    <3>7. QED
      BY <3>6 DEF Goal
  <2>3. QED
    BY <2>1, <2>2
<1>8. QED
  BY <1>6, <1>7

-----------------------------------------------------------------------------
(* The inductive invariant. *)

Clients == [at : {"idle", "nonce", "check", "commit"}, height : Nat \cup {None},
            read : SUBSET Nat, tx : Transaction \cup {None}, calls : Nat, lost : BOOLEAN]

TxsType ==
    /\ committed \in Seq(State) /\ Len(committed) > 0
    /\ consensus \in State \cup {None}
    /\ mempool \in State
    /\ ctx \in Context
    /\ network \subseteq Transaction
    /\ ran \in Seq(Transaction)
    /\ client \in Clients

\* Every state is of the chain of genesis.
OneChain ==
    /\ \A h \in 1..Len(committed) : committed[h].chain_id = Genesis.chain_id
    /\ consensus # None => consensus.chain_id = Genesis.chain_id

\* The stored nonces of a are at least those of the signed calls that ran.
NoncesReach(a) ==
    \A i \in 1..Len(ran) :
        ran[i].signature = "good" /\ ran[i].kind # "protobuf" =>
            ran[i].nonce \in Nat /\ ran[i].nonce <= a.nonce[ran[i].by]

NoncesAreReached ==
    /\ consensus = None => NoncesReach(committed[Len(committed)])
    /\ consensus # None => NoncesReach(consensus)

\* The client has read at the one height it is pinned to, if at all.
ReadsAreOfOneHeight ==
    /\ client.height # None => client.height \in 1..Len(committed)
    /\ client.read \subseteq {client.height}
    /\ client.height = None \/ client.at = "idle" => client.read = {}
    /\ client.at = "check" => client.tx \in Transaction
    /\ client.at = "commit" => client.tx \in Transaction

TxsInv ==
    /\ TxsAssumption /\ TxsType /\ OneChain
    /\ NoncesAreReached /\ SignedCallsRunOnce /\ ReadsAreOfOneHeight

\* The invariant holds at genesis, ...
LEMMA TxsInit ==
    ASSUME TxsAssumption, Init
    PROVE  TxsInv
<1>1. Genesis \in State /\ None \notin Nat
  BY DEF TxsAssumption, PluginsAssumption
<1>2. client \in Clients
  BY DEF Init, NewClient, Clients
<1>3. ctx \in Context
  BY DEF Init, NoContext, Context
<1>4. committed \in Seq(State) /\ Len(committed) = 1 /\ committed[1] = Genesis
  BY <1>1, SMTT(60) DEF Init
<1>5. ran \in Seq(Transaction) /\ Len(ran) = 0
  BY SMTT(60) DEF Init
<1>6. TxsType
  BY <1>1, <1>2, <1>3, <1>4, <1>5, SMTT(60) DEF TxsType, Init
<1>7. OneChain
  BY <1>4, SMTT(60) DEF OneChain, Init
<1>8. NoncesAreReached /\ SignedCallsRunOnce
  BY <1>5, SMTT(60) DEF NoncesAreReached, NoncesReach, SignedCallsRunOnce, Init
<1>9. ReadsAreOfOneHeight
  BY <1>1 DEF ReadsAreOfOneHeight, Init, NewClient
<1>10. QED
  BY <1>6, <1>7, <1>8, <1>9 DEF TxsInv

\* A transaction delivered to the block.
LEMMA Delivered ==
    ASSUME TxsInv, NEW tx \in Transaction, DeliverTx(tx)
    PROVE  TxsInv' /\ \A d \in Address :
               (consensus # None /\ consensus' # None
                /\ balance(consensus', d) < balance(consensus, d)) =>
                   /\ Len(ran') > Len(ran)
                   /\ \E last \in {ran'[Len(ran')]} :
                         last.by = d /\ last.signature = "good" /\ last.chain = Genesis.chain_id
<1>1. PluginsAssumption /\ consensus \in State /\ ctx \in Context /\ ran \in Seq(Transaction)
  BY DEF TxsInv, TxsAssumption, TxsType, DeliverTx
<1>2. PICK r : /\ r = RunTx(consensus, ctx, tx) /\ consensus' = r.a /\ ctx' = r.g
               /\ ran' = IF ~r.err \/ r.a # consensus THEN Append(ran, tx) ELSE ran
  BY DEF DeliverTx
<1>3. /\ r \in Run /\ r.a.chain_id = consensus.chain_id
      /\ \A d \in Address : r.a.nonce[d] >= consensus.nonce[d]
      /\ tx.signature = "good" /\ tx.kind # "protobuf" =>
             \/ r.err /\ r.a = consensus
             \/ /\ tx.nonce \in Nat /\ tx.nonce > consensus.nonce[tx.by]
                /\ r.a.nonce[tx.by] = tx.nonce
      /\ \A d \in Address : balance(r.a, d) < balance(consensus, d) =>
             tx.by = d /\ tx.signature = "good" /\ tx.chain = consensus.chain_id
  BY <1>1, <1>2, RunTxRuns, SMTT(60)
<1>4. UNCHANGED <<committed, mempool, network, client>> /\ consensus # None
  BY DEF DeliverTx
<1>5. \/ ran' = ran /\ r.err /\ r.a = consensus
      \/ /\ ran' = Append(ran, tx) /\ Len(ran') = Len(ran) + 1 /\ ran'[Len(ran) + 1] = tx
         /\ ran' \in Seq(Transaction)
         /\ \A i \in 1..Len(ran) : ran'[i] = ran[i]
         /\ ~r.err \/ r.a # consensus
  BY <1>1, <1>2, SMTT(60)
<1>6. TxsAssumption' /\ TxsType'
  BY <1>2, <1>3, <1>4, <1>5 DEF TxsInv, TxsAssumption, TxsType, Run
<1>7. OneChain'
  BY <1>2, <1>3, <1>4 DEF TxsInv, OneChain
<1>8. \A d \in Address : consensus.nonce[d] \in Nat /\ r.a.nonce[d] \in Nat
  BY <1>1, <1>3 DEF Run, State
<1>9. \A i \in 1..Len(ran) : ran[i].by \in Address
  <2>1. \A i \in 1..Len(ran) : ran[i] \in Transaction
    BY <1>1, SMTT(60)
  <2>2. QED
    BY <2>1 DEF Transaction
<1>10. NoncesReach(consensus)
  BY <1>4 DEF TxsInv, NoncesAreReached
<1>11. \A i \in 1..Len(ran) : ran[i].signature = "good" /\ ran[i].kind # "protobuf" =>
           ran[i].nonce \in Nat /\ ran[i].nonce <= r.a.nonce[ran[i].by]
  BY <1>3, <1>8, <1>9, <1>10, SMTT(60) DEF NoncesReach
<1>12. tx.by \in Address /\ consensus' # None
  BY <1>2, <1>3 DEF Transaction, Run, TxsInv, TxsAssumption
<1>13. \A i \in 1..Len(ran') : ran'[i].signature = "good" /\ ran'[i].kind # "protobuf" =>
           ran'[i].nonce \in Nat /\ ran'[i].nonce <= consensus'.nonce[ran'[i].by]
  <2>1. CASE ran' = ran
    BY <1>2, <1>11, <2>1
  <2>2. CASE ran' # ran
    <3>1. \A i \in 1..Len(ran') : i \in 1..Len(ran) \/ i = Len(ran) + 1
      BY <1>1, <1>5, <2>2, SMTT(60)
    <3>2. tx.signature = "good" /\ tx.kind # "protobuf" =>
              tx.nonce \in Nat /\ tx.nonce <= consensus'.nonce[tx.by]
      BY <1>2, <1>3, <1>5, <2>2, SMTT(60)
    <3>3. QED
      BY <1>2, <1>5, <1>11, <2>2, <3>1, <3>2
  <2>3. QED
    BY <2>1, <2>2
<1>14. NoncesAreReached'
  BY <1>12, <1>13 DEF NoncesAreReached, NoncesReach
<1>15. SignedCallsRunOnce'
  <2>1. CASE ran' = ran
    BY <2>1 DEF TxsInv, SignedCallsRunOnce
  <2>2. CASE ran' # ran
    <3>1. \A i \in 1..Len(ran') : i \in 1..Len(ran) \/ i = Len(ran) + 1
      BY <1>1, <1>5, <2>2, SMTT(60)
    <3>2. ASSUME tx.signature = "good", tx.kind # "protobuf", NEW i \in 1..Len(ran)
          PROVE  ran[i] # tx
      <4>1. tx.nonce \in Nat /\ tx.nonce > consensus.nonce[tx.by]
        BY <1>3, <1>5, <2>2, <3>2
      <4>2. ran[i] = tx => tx.nonce <= consensus.nonce[tx.by]
        BY <1>10, <3>2 DEF NoncesReach
      <4>3. QED
        BY <1>8, <1>12, <4>1, <4>2, SMTT(60)
    <3>3. \A i, j \in 1..Len(ran) : ran[i] = ran[j] /\ ran[i].signature = "good"
              /\ ran[i].kind # "protobuf" => i = j
      BY DEF TxsInv, SignedCallsRunOnce
    <3>4. QED
      BY <1>5, <2>2, <3>1, <3>2, <3>3 DEF SignedCallsRunOnce
  <2>3. QED
    BY <2>1, <2>2
<1>16. ReadsAreOfOneHeight'
  BY <1>4 DEF TxsInv, ReadsAreOfOneHeight
<1>17. ASSUME NEW d \in Address, balance(consensus', d) < balance(consensus, d)
       PROVE  /\ Len(ran') > Len(ran)
              /\ \E last \in {ran'[Len(ran')]} :
                    last.by = d /\ last.signature = "good" /\ last.chain = Genesis.chain_id
  <2>1. tx.by = d /\ tx.signature = "good" /\ tx.chain = Genesis.chain_id
    BY <1>2, <1>3, <1>4, <1>17 DEF TxsInv, OneChain
  <2>2. balance(consensus, d) \in Nat
    BY <1>1, Balances
  <2>3. r.a # consensus
    BY <1>2, <1>17, <2>2, SMTT(60)
  <2>4. ran'[Len(ran')] = tx /\ Len(ran') > Len(ran)
    BY <1>1, <1>5, <2>3, SMTT(60)
  <2>5. QED
    BY <2>1, <2>4
<1>18. QED
  BY <1>6, <1>7, <1>14, <1>15, <1>16, <1>17 DEF TxsInv

\* A check or a simulated call, and what the client does with the answer.
LEMMA Checked ==
    ASSUME TxsInv, NEW tx \in Transaction
    PROVE  LET r == RunTx(mempool, ctx, tx)
           IN  r.a \in State /\ r.g \in Context /\ Simulated(tx) \in Context
<1>1. PluginsAssumption /\ mempool \in State /\ ctx \in Context /\ committed[height] \in State
  BY SMTT(60) DEF TxsInv, TxsAssumption, TxsType, height
<1>2. RunTx(mempool, ctx, tx) \in Run /\ RunTx(committed[height], ctx, tx) \in Run
  BY <1>1, RunTxRuns
<1>3. ctx.chain_id \in Chains \cup {None} /\ committed[height].chain_id \in Chains
  BY <1>1 DEF Context, State
<1>4. \A id \in Chains \cup {None} : [ctx EXCEPT !.signer = None, !.chain_id = id] \in Context
  BY <1>1 DEF Context
<1>5. PICK id \in Chains \cup {None} :
          id = IF tx.kind = "native" THEN ctx.chain_id ELSE committed[height].chain_id
  BY <1>3
<1>6. Simulated(tx) \in Context
  <2>1. CASE tx.signature # "good"
    BY <1>2, <2>1 DEF Simulated, Run
  <2>2. CASE tx.signature = "good"
    <3>1. Simulated(tx) = [ctx EXCEPT !.signer = None, !.chain_id = id]
      BY <1>1, <1>5, <2>2, SMTT(60) DEF Simulated, Context
    <3>2. QED
      BY <1>4, <3>1
  <2>3. QED
    BY <2>1, <2>2
<1>7. QED
  BY <1>2, <1>6 DEF Run

\* BeginBlock mints to an account, and Commit keeps the block's state.
LEMMA Blocks ==
    ASSUME TxsInv, BeginBlock \/ Commit
    PROVE  TxsInv'
<1>1. /\ committed \in Seq(State) /\ Len(committed) > 0 /\ PluginsAssumption
      /\ committed[Len(committed)] \in State /\ FaucetAccount \in Address
  BY SMTT(60) DEF TxsInv, TxsAssumption, TxsType
<1>2. CASE BeginBlock
  <2> DEFINE a == committed[Len(committed)]
             m == mint(faucet, a.amount_minted, Len(committed))
  <2>1. consensus = None /\ Len(committed) \in 1..MaxHeight
    BY <1>1, <1>2, SMTT(60) DEF BeginBlock, height, TxsInv, TxsAssumption
  <2>2. PICK t \in Nat : t = target_amount_minted(faucet, Len(committed) - faucet.start_seconds)
    BY <2>1 DEF TxsInv, TxsAssumption
  <2>3. m.coins \in Nat /\ m.amount_minted \in Nat
    BY <1>1, <2>2, SMTT(60) DEF mint, State
  <2>4. PICK b : b = deposit(a, FaucetAccount, m.coins)
    OBVIOUS
  <2>5. PICK n \in Nat : n = balance(a, FaucetAccount) + m.coins
    BY <1>1, <2>3, Balances, SMTT(60)
  <2>6. b = [a EXCEPT !.accounts[FaucetAccount] = n]
    BY <2>4, <2>5 DEF deposit
  <2>7. b \in State /\ b.nonce = a.nonce /\ b.chain_id = a.chain_id
    BY <1>1, <2>6, Balances
  <2>8. consensus' = [b EXCEPT !.amount_minted = m.amount_minted]
    BY <1>2, <2>4 DEF BeginBlock, height
  <2>9. consensus' \in State /\ consensus'.nonce = a.nonce /\ consensus'.chain_id = a.chain_id
    BY <2>3, <2>7, <2>8 DEF State
  <2> HIDE DEF m
  <2>10. UNCHANGED <<committed, mempool, ctx, network, client, ran>>
    BY <1>2 DEF BeginBlock
  <2>11. TxsAssumption' /\ TxsType' /\ OneChain' /\ ReadsAreOfOneHeight' /\ SignedCallsRunOnce'
    BY <1>1, <2>9, <2>10, SMTT(60) DEF TxsInv, TxsAssumption, TxsType, OneChain,
       ReadsAreOfOneHeight, SignedCallsRunOnce
  <2>12. NoncesReach(a)
    BY <2>1 DEF TxsInv, NoncesAreReached
  <2>13. NoncesAreReached'
    BY <2>9, <2>10, <2>12 DEF NoncesAreReached, NoncesReach
  <2>14. QED
    BY <2>11, <2>13 DEF TxsInv
<1>3. CASE Commit
  <2>1. /\ consensus \in State /\ consensus # None
        /\ committed' = Append(committed, consensus) /\ consensus' = None /\ mempool' = consensus
        /\ UNCHANGED <<ctx, network, client, ran>>
    BY <1>3 DEF Commit, TxsInv, TxsType
  <2>2. /\ committed' \in Seq(State) /\ Len(committed') = Len(committed) + 1
        /\ committed'[Len(committed')] = consensus
        /\ \A h \in 1..Len(committed) : committed'[h] = committed[h]
    BY <1>1, <2>1, SMTT(60)
  <2>a. TxsAssumption' /\ SignedCallsRunOnce'
    BY <2>1 DEF TxsInv, TxsAssumption, SignedCallsRunOnce
  <2>b. Len(committed') > 0
    BY <1>1, <2>2, SMTT(60)
  <2>c. TxsType'
    BY <2>1, <2>2, <2>b DEF TxsInv, TxsType
  <2>3. TxsAssumption' /\ TxsType' /\ SignedCallsRunOnce'
    BY <2>a, <2>c
  <2>4. OneChain'
    BY <1>1, <2>1, <2>2, SMTT(60) DEF TxsInv, OneChain
  <2>5. ReadsAreOfOneHeight'
    BY <1>1, <2>1, <2>2, SMTT(60) DEF TxsInv, ReadsAreOfOneHeight
  <2>6. NoncesReach(consensus)
    BY <2>1 DEF TxsInv, NoncesAreReached
  <2>7. NoncesAreReached'
    BY <2>1, <2>2, <2>6 DEF NoncesAreReached, NoncesReach
  <2>8. QED
    BY <2>3, <2>4, <2>5, <2>7 DEF TxsInv
<1>4. QED
  BY <1>2, <1>3

\* An answer to a query is of the height the client is pinned to.
LEMMA Queried ==
    ASSUME TxsInv, NEW c \in Clients, c.height = client.height, c.read \subseteq {c.height},
           c.height = None => c.read = {}, NEW d \in query(c)
    PROVE  /\ d \in Clients /\ d.height \in 1..Len(committed) /\ d.read \subseteq {d.height}
           /\ d.tx = c.tx
<1>1. Len(committed) \in Nat /\ Len(committed) > 0 /\ height = Len(committed) /\ None \notin Nat
  BY SMTT(60) DEF TxsInv, TxsType, TxsAssumption, PluginsAssumption, height
<1>2. CASE c.height = None
  <2>1. d = [c EXCEPT !.height = height, !.read = c.read \union {height}]
    BY <1>2 DEF query
  <2>2. /\ d \in Clients /\ d.height = height /\ d.read = c.read \union {height}
        /\ d.tx = c.tx
    BY <1>1, <2>1 DEF Clients
  <2>3. QED
    BY <1>1, <1>2, <2>2, SMTT(60)
<1>3. CASE c.height # None
  <2>1. PICK h \in {c.height} : d = [c EXCEPT !.read = c.read \union {h}]
    BY <1>3 DEF query
  <2>2. c.height \in 1..Len(committed)
    BY <1>3 DEF TxsInv, ReadsAreOfOneHeight
  <2>3. /\ d \in Clients /\ d.height = c.height /\ d.read = c.read \union {c.height}
        /\ d.tx = c.tx
    BY <1>1, <2>1, <2>2, SMTT(60) DEF Clients
  <2>4. QED
    BY <2>2, <2>3
<1>4. QED
  BY <1>2, <1>3

\* A call of the client that returns leaves the client idle at its height.
LEMMA Returns ==
    ASSUME TxsInv, NEW c \in Clients, c.height = client.height
    PROVE  LET d == Return(c)
           IN  d \in Clients /\ d.height = client.height /\ d.read = {} /\ d.at = "idle"
BY DEF Return, Clients

\* The client's part of the invariant is all its steps have to keep.
LEMMA ClientKeeps ==
    ASSUME TxsInv, UNCHANGED <<committed, consensus, ran>>, mempool' \in State, ctx' \in Context,
           network' \subseteq Transaction, client' \in Clients, ReadsAreOfOneHeight'
    PROVE  TxsInv'
<1>1. TxsAssumption' /\ TxsType'
  BY DEF TxsInv, TxsAssumption, TxsType
<1>2. OneChain' /\ NoncesAreReached' /\ SignedCallsRunOnce'
  BY DEF TxsInv, OneChain, NoncesAreReached, NoncesReach, SignedCallsRunOnce
<1>3. QED
  BY <1>1, <1>2 DEF TxsInv

\* The client's own steps keep the invariant.
LEMMA ClientStep ==
    ASSUME TxsInv,
           \/ NewHttpClient \/ QueryChainId \/ BroadcastTx \/ TxCommitted \/ TxTimeout
           \/ \E call \in Calls : QueryNonce(call)
    PROVE  TxsInv'
<1>1. /\ client \in Clients /\ mempool \in State /\ ctx \in Context /\ network \subseteq Transaction
      /\ committed \in Seq(State)
  BY DEF TxsInv, TxsType
<1>2. ReadsAreOfOneHeight
  BY DEF TxsInv
<1>3. ASSUME client' \in Clients, client'.height = client.height, client'.read = {},
             client'.at = "idle", UNCHANGED committed
      PROVE  client' \in Clients /\ ReadsAreOfOneHeight'
  BY <1>2, <1>3 DEF ReadsAreOfOneHeight
<1>4. CASE NewHttpClient
  <2>1. client' \in Clients /\ client'.height = None /\ client'.read = client.read /\ client'.at = "idle"
    BY <1>1, <1>4 DEF NewHttpClient, Clients
  <2>2. ReadsAreOfOneHeight'
    BY <1>2, <1>4, <2>1 DEF ReadsAreOfOneHeight, NewHttpClient
  <2>3. QED
    BY <1>1, <1>4, <2>1, <2>2, ClientKeeps DEF NewHttpClient
<1>5. CASE QueryChainId
  <2>1. PICK c : c = [client EXCEPT !.calls = @ + 1]
    OBVIOUS
  <2>2. /\ c \in Clients /\ c.height = client.height /\ c.read = client.read /\ c.tx = client.tx
        /\ c.at = client.at
    BY <1>1, <2>1, SMTT(60) DEF Clients
  <2>3. client' = Return(c) \/ \E d \in query(c) : client' = [d EXCEPT !.at = "nonce"]
    BY <1>5, <2>1 DEF QueryChainId
  <2>4. UNCHANGED <<committed, consensus, mempool, ctx, network, ran>> /\ client.at = "idle"
    BY <1>5 DEF QueryChainId
  <2>5. CASE client' = Return(c)
    BY <1>1, <1>3, <2>2, <2>4, <2>5, Returns, ClientKeeps
  <2>6. CASE \E d \in query(c) : client' = [d EXCEPT !.at = "nonce"]
    <3>1. PICK d \in query(c) : client' = [d EXCEPT !.at = "nonce"]
      BY <2>6
    <3>2. d \in Clients /\ d.height \in 1..Len(committed) /\ d.read \subseteq {d.height}
      BY <1>2, <2>2, <2>4, Queried DEF ReadsAreOfOneHeight
    <3>3. client' \in Clients /\ client'.height = d.height /\ client'.read = d.read /\ client'.at = "nonce"
      BY <3>1, <3>2 DEF Clients
    <3>4. None \notin Nat
      BY DEF TxsInv, TxsAssumption, PluginsAssumption
    <3>5. ReadsAreOfOneHeight'
      BY <1>1, <2>4, <3>2, <3>3, <3>4, SMTT(60) DEF ReadsAreOfOneHeight
    <3>6. QED
      BY <1>1, <2>4, <3>3, <3>5, ClientKeeps
  <2>7. QED
    BY <2>3, <2>5, <2>6
<1>6. CASE BroadcastTx
  <2>1. PICK r : /\ r = RunTx(mempool, ctx, client.tx) /\ mempool' = r.a /\ ctx' = r.g
                 /\ \/ client' = Return(client) /\ network' = network
                    \/ /\ client' = [client EXCEPT !.at = "commit"]
                       /\ network' = network \union {client.tx}
    BY <1>6 DEF BroadcastTx
  <2>2. UNCHANGED <<committed, consensus, ran>> /\ client.at = "check" /\ client.tx \in Transaction
    BY <1>2, <1>6 DEF BroadcastTx, ReadsAreOfOneHeight
  <2>3. mempool' \in State /\ ctx' \in Context
    BY <2>1, <2>2, Checked
  <2>4. CASE client' = Return(client) /\ network' = network
    BY <1>1, <1>3, <2>2, <2>3, <2>4, Returns, ClientKeeps
  <2>5. CASE client' = [client EXCEPT !.at = "commit"] /\ network' = network \union {client.tx}
    <3>1. /\ client' \in Clients /\ client'.at = "commit" /\ client'.height = client.height
          /\ client'.read = client.read /\ client'.tx = client.tx
      BY <1>1, <2>5 DEF Clients
    <3>2. ReadsAreOfOneHeight'
      BY <1>2, <2>2, <3>1 DEF ReadsAreOfOneHeight
    <3>3. network' \subseteq Transaction
      BY <1>1, <2>2, <2>5
    <3>4. QED
      BY <2>2, <2>3, <3>1, <3>2, <3>3, ClientKeeps
  <2>6. QED
    BY <2>1, <2>4, <2>5
<1>7. CASE TxCommitted
  <2>1. client' = Return(client) /\ UNCHANGED <<committed, consensus, mempool, ctx, network, ran>>
    BY <1>7 DEF TxCommitted
  <2>2. QED
    BY <1>1, <1>3, <2>1, Returns, ClientKeeps
<1>8. CASE TxTimeout
  <2>1. PICK c : c = Return(client)
    OBVIOUS
  <2>2. c \in Clients /\ c.height = client.height /\ c.read = {} /\ c.at = "idle"
    BY <1>1, <2>1, Returns
  <2>3. client' = [c EXCEPT !.lost = TRUE] /\ UNCHANGED <<committed, consensus, mempool, ctx, network, ran>>
    BY <1>8, <2>1 DEF TxTimeout
  <2>4. client' \in Clients /\ client'.height = client.height /\ client'.read = {} /\ client'.at = "idle"
    BY <2>2, <2>3 DEF Clients
  <2>5. QED
    BY <1>1, <1>3, <2>3, <2>4, ClientKeeps
<1>9. CASE \E call \in Calls : QueryNonce(call)
  <2>1. PICK call \in Calls : QueryNonce(call)
    BY <1>9
  <2>2. UNCHANGED <<committed, consensus, mempool, ctx, network, ran>> /\ client.at = "nonce"
    BY <2>1 DEF QueryNonce
  <2>3. CASE client' = Return(client)
    BY <1>1, <1>3, <2>2, <2>3, Returns, ClientKeeps
  <2>4. ASSUME NEW d \in query(client), NEW tx,
               tx = [kind |-> "native", signature |-> "good", by |-> Wallet,
                     chain |-> committed[d.height].chain_id,
                     nonce |-> committed[d.height].nonce[Wallet] + 1,
                     payer |-> call.payer, paid |-> call.paid],
               client' = [d EXCEPT !.at = "check", !.tx = tx]
        PROVE  TxsInv'
    <3>1. d \in Clients /\ d.height \in 1..Len(committed) /\ d.read \subseteq {d.height}
      BY <1>1, <1>2, Queried DEF ReadsAreOfOneHeight
    <3>2. PICK a \in State : a = committed[d.height]
      BY <1>1, <3>1, SMTT(60)
    <3>3. call.payer \in AppCalls /\ call.paid \in AppCalls /\ Wallet \in Address
      BY DEF TxsInv, TxsAssumption
    <3>4. a.nonce[Wallet] + 1 \in Nat /\ a.chain_id \in Chains
      BY <3>2, <3>3, SMTT(60) DEF State
    <3>5. tx \in Transaction
      BY <2>4, <3>2, <3>3, <3>4 DEF Transaction
    <3>6. /\ client' \in Clients /\ client'.height = d.height /\ client'.read = d.read
          /\ client'.at = "check" /\ client'.tx = tx
      BY <2>4, <3>1, <3>5 DEF Clients
    <3>7. None \notin Nat
      BY DEF TxsInv, TxsAssumption, PluginsAssumption
    <3>8. ReadsAreOfOneHeight'
      BY <1>1, <2>2, <3>1, <3>5, <3>6, <3>7, SMTT(60) DEF ReadsAreOfOneHeight
    <3>9. QED
      BY <1>1, <2>2, <3>6, <3>8, ClientKeeps
  <2>5. QED
    BY <2>1, <2>3, <2>4 DEF QueryNonce
<1>10. QED
  BY <1>4, <1>5, <1>6, <1>7, <1>8, <1>9

-----------------------------------------------------------------------------
(* The theorems. *)

\* Coins leave the block's accounts as OnlySignersPay says, in one step.
SignersPay ==
    \A d \in Address :
        (consensus # None /\ consensus' # None /\ balance(consensus', d) < balance(consensus, d)) =>
            /\ Len(ran') > Len(ran)
            /\ \E last \in {ran'[Len(ran')]} :
                  last.by = d /\ last.signature = "good" /\ last.chain = Genesis.chain_id

\* A step that does not run a transaction on the block's state takes no
\* coins.
LEMMA BalancesStay ==
    ASSUME TxsInv, consensus' = consensus \/ consensus = None \/ consensus' = None
    PROVE  SignersPay
<1>1. consensus # None => \A d \in Address : balance(consensus, d) \in Nat
  BY Balances DEF TxsInv, TxsType, TxsAssumption
<1>2. QED
  BY <1>1, SMTT(60) DEF SignersPay

\* Every step keeps the invariant, and in none do coins leave an account
\* whose owner did not sign.
LEMMA TxsStep ==
    ASSUME TxsInv, [Next]_vars
    PROVE  TxsInv' /\ SignersPay
<1>1. CASE BeginBlock \/ Commit
  BY <1>1, Blocks, BalancesStay DEF BeginBlock, Commit
<1>2. CASE \E tx \in Others \union network : DeliverTx(tx)
  <2>1. PICK tx \in Transaction : DeliverTx(tx)
    BY <1>2 DEF TxsInv, TxsAssumption, TxsType
  <2>2. QED
    BY <2>1, Delivered DEF SignersPay
<1>3. CASE \E tx \in Others : CheckTx(tx) \/ Simulate(tx)
  <2>1. PICK tx \in Transaction : CheckTx(tx) \/ Simulate(tx)
    BY <1>3 DEF TxsInv, TxsAssumption
  <2>2. UNCHANGED <<committed, consensus, network, client, ran>>
    BY <2>1 DEF CheckTx, Simulate
  <2>3. mempool' \in State /\ ctx' \in Context
    BY <2>1, Checked DEF CheckTx, Simulate, TxsInv, TxsType
  <2>4. ReadsAreOfOneHeight' /\ network' \subseteq Transaction /\ client' \in Clients
    BY <2>2 DEF TxsInv, TxsType, ReadsAreOfOneHeight
  <2>5. QED
    BY <2>2, <2>3, <2>4, ClientKeeps, BalancesStay
<1>4. CASE \/ NewHttpClient \/ QueryChainId \/ BroadcastTx \/ TxCommitted \/ TxTimeout
           \/ \E call \in Calls : QueryNonce(call)
  <2>1. consensus' = consensus
    BY <1>4 DEF NewHttpClient, QueryChainId, BroadcastTx, TxCommitted, TxTimeout, QueryNonce
  <2>2. QED
    BY <1>4, <2>1, ClientStep, BalancesStay
<1>5. CASE UNCHANGED vars
  <2>1. UNCHANGED <<committed, consensus, mempool, ctx, network, client, ran>>
    BY <1>5 DEF vars
  <2>2. TxsInv'
    BY <2>1 DEF TxsInv, TxsAssumption, TxsType, OneChain, NoncesAreReached, NoncesReach,
                SignedCallsRunOnce, ReadsAreOfOneHeight
  <2>3. QED
    BY <2>1, <2>2, BalancesStay
<1>6. QED
  BY <1>1, <1>2, <1>3, <1>4, <1>5 DEF Next

\* A signed call takes effect at most once, in every chain of blocks: the nonce
\* plugin raises the stored nonce before the call runs, and the state is written
\* back even when the call fails.
THEOREM CallsRunOnce ==
    TxsAssumption /\ Spec => []SignedCallsRunOnce
<1>1. TxsAssumption /\ Init => TxsInv
  BY TxsInit
<1>2. TxsInv /\ [Next]_vars => TxsInv'
  BY TxsStep
<1>3. TxsInv => SignedCallsRunOnce
  BY DEF TxsInv
<1>4. QED
  BY <1>1, <1>2, <1>3, PTL DEF Spec

\* Coins leave an account only by a transaction its owner signed for this chain,
\* whatever Context earlier calls, checks and simulations left behind.
THEOREM CoinsAreSpentBySigners ==
    TxsAssumption /\ Spec => OnlySignersPay
<1>1. TxsAssumption /\ Init => TxsInv
  BY TxsInit
<1>2. TxsInv /\ [Next]_vars => TxsInv'
  BY TxsStep
<1>3. TxsInv /\ [Next]_vars => SignersPay
  BY TxsStep
<1>4. QED
  BY <1>1, <1>2, <1>3, PTL DEF Spec, OnlySignersPay, SignersPay

\* The queries of one call of the client are answered from one height, so the
\* stores they are joined into agree.
THEOREM JoinsAgree ==
    TxsAssumption /\ Spec => []JoinsNeverConflict
<1>1. TxsAssumption /\ Init => TxsInv
  BY TxsInit
<1>2. TxsInv /\ [Next]_vars => TxsInv'
  BY TxsStep
<1>3. TxsInv => JoinsNeverConflict
  BY DEF TxsInv, ReadsAreOfOneHeight, JoinsNeverConflict
<1>4. QED
  BY <1>1, <1>2, <1>3, PTL DEF Spec
-----------------------------------------------------------------------------
(* The calls of the wallet. *)

\* What the plugins up to Nonce ask of a native call that was signed.
Due(a, tx) ==
    /\ a.chain_id # None /\ tx.chain = a.chain_id
    /\ tx.nonce # None /\ tx.nonce > a.nonce[tx.by]
    /\ tx.nonce - a.nonce[tx.by] <= NONCE_INCREASE_LIMIT

\* Without it the call fails, and with it the stored nonce becomes its own.
LEMMA DueCallsRun ==
    ASSUME PluginsAssumption, NEW a \in State, NEW g \in Context, NEW tx \in Transaction,
           tx.kind = "native", tx.signature = "good", NEW x, x = RunTx(a, g, tx)
    PROVE  /\ Due(a, tx) => x.a.nonce[tx.by] = tx.nonce /\ x.a # a
           /\ ~Due(a, tx) => x.err /\ x.a = a
<1> DEFINE r0 == [a |-> a, g |-> g, err |-> FALSE]
           d == tx.by
<1>1. r0 \in Run /\ r0.a = a /\ r0.g = g
  BY DEF Run
<1>2. d \in Address /\ d # None /\ a.nonce \in [Address -> Nat] /\ None \notin Nat
  BY DEF Transaction, PluginsAssumption, State
<1>3. x = SignerPlugin(r0, tx, tx)
  BY DEF RunTx, SdkCompatPlugin
<1> HIDE DEF r0
<1>4. PICK u : u = [r0 EXCEPT !.g.signer = [signer |-> d]]
  OBVIOUS
<1>5. u \in Run /\ u.a = a /\ u.g.signer = [signer |-> d]
  BY <1>1, <1>2, <1>4 DEF Run, Context
<1>6. x = ChainCommitmentPlugin(u, tx)
  BY <1>3, <1>4 DEF SignerPlugin, Verifies
<1>7. ASSUME NEW v \in Run, v.a = a
      PROVE  Err(v).err /\ Err(v).a = a
  BY <1>7, InnerErr DEF Inner, BySigner
<1>8. CASE a.chain_id = None \/ tx.chain # a.chain_id
  <2>1. x = Err(u)
    BY <1>5, <1>6, <1>8 DEF ChainCommitmentPlugin
  <2>2. QED
    BY <1>5, <1>7, <1>8, <2>1 DEF Due
<1>9. CASE ~(a.chain_id = None \/ tx.chain # a.chain_id)
  <2>1. PICK v : v = [u EXCEPT !.g.chain_id = u.a.chain_id]
    OBVIOUS
  <2>2. v \in Run /\ v.a = a /\ v.g.signer = [signer |-> d]
    BY <1>5, <2>1 DEF Run, State, Context
  <2>3. x = NoncePlugin(v, tx)
    BY <1>5, <1>6, <1>9, <2>1 DEF ChainCommitmentPlugin
  <2>a. tx.nonce \in Nat \cup {None} /\ a.nonce[d] \in Nat
    BY <1>2 DEF Transaction
  <2>b. v.g.signer.signer = d /\ v.a.nonce[d] = a.nonce[d]
    BY <2>2, SMTT(60)
  <2>c. Due(a, tx) <=> /\ tx.nonce # None /\ ~(tx.nonce <= a.nonce[d])
                       /\ ~(tx.nonce - a.nonce[d] > NONCE_INCREASE_LIMIT)
    BY <1>2, <1>9, <2>a, SMTT(60) DEF Due, PluginsAssumption
  <2>4. CASE ~Due(a, tx)
    <3>1. x = Err(v)
      BY <1>2, <2>3, <2>4, <2>b, <2>c DEF NoncePlugin
    <3>2. QED
      BY <1>7, <2>2, <2>4, <3>1
  <2>5. CASE Due(a, tx)
    <3>1. tx.nonce \in Nat /\ tx.nonce > a.nonce[d]
      BY <2>5 DEF Due, Transaction
    <3>2. PICK w : w = [v EXCEPT !.a.nonce[d] = tx.nonce]
      OBVIOUS
    <3>3. w \in Run /\ w.a.nonce = [a.nonce EXCEPT ![d] = tx.nonce]
      BY <1>2, <2>2, <3>1, <3>2 DEF Run, State
    <3>4. x = PayablePlugin(w, tx)
      BY <1>2, <2>3, <2>5, <2>b, <2>c, <3>2 DEF NoncePlugin
    <3>5. x.a.nonce = w.a.nonce
      BY <3>3, <3>4, Payable DEF BySigner
    <3>6. x.a.nonce[d] = tx.nonce /\ a.nonce[d] \in Nat
      BY <1>2, <3>3, <3>5
    <3>7. QED
      BY <2>5, <3>1, <3>6, SMTT(60)
  <2>6. QED
    BY <2>4, <2>5
<1>10. QED
  BY <1>8, <1>9

\* The state the next transaction of a block will meet.
Newest == IF consensus = None THEN committed[Len(committed)] ELSE consensus
Stored(a) == a.nonce[Wallet]

OfWallet(tx) ==
    /\ tx \in Transaction /\ tx.kind = "native" /\ tx.signature = "good" /\ tx.by = Wallet
    /\ tx.chain = Genesis.chain_id /\ tx.nonce \in Nat

\* The wallet's nonce only grows, from height to height, to the block's state
\* and to the mempool's, and what the client sends is at most the next one.
NoncesGrow ==
    /\ \A h \in 1..Len(committed) : Stored(committed[h]) <= Stored(committed[Len(committed)])
    /\ Stored(committed[Len(committed)]) <= Stored(Newest)
    /\ Stored(committed[Len(committed)]) <= Stored(mempool)
    /\ mempool.chain_id = Genesis.chain_id
    /\ client.at \in {"check", "commit"} => OfWallet(client.tx)
    /\ client.at = "check" => client.tx.nonce <= Stored(committed[Len(committed)]) + 1
    /\ \A tx \in network : OfWallet(tx)
    /\ \A i \in 1..Len(block) : block[i] \in Others \cup network
    /\ block \in Seq(Transaction) /\ included \subseteq network

\* Of the client's transactions all have run but the one it waits for, which
\* runs as soon as it is delivered; what is in a block has run; and the block's
\* nonce is ahead of the committed one only by the one that was not yet
\* committed.
OnePending ==
    /\ returned \subseteq Range(ran) /\ included \subseteq Range(ran)
    /\ \A tx \in network :
           tx \in Range(ran) \/ (client.at = "commit" /\ client.tx = tx /\ Due(Newest, tx))
    /\ \A i \in 1..Len(block) : block[i] \in network => block[i] \in Range(ran)
    /\ \A tx \in included : tx.nonce <= Stored(committed[Len(committed)])
    /\ Stored(Newest) # Stored(committed[Len(committed)])
           => client.at = "commit" /\ client.tx \notin included

WalletInv == TxsInv /\ SoleWallet /\ NoncesGrow /\ (~client.lost => OnePending)

\* At genesis the wallet has sent nothing.
LEMMA WalletStart ==
    ASSUME TxsAssumption, SoleWallet, Init
    PROVE  WalletInv
<1>1. TxsInv
  BY TxsInit
<1>2. /\ Genesis \in State /\ committed = <<Genesis>> /\ consensus = None /\ mempool = Genesis
      /\ block = <<>> /\ included = {} /\ network = {} /\ ran = <<>> /\ returned = {}
      /\ client.at = "idle"
  BY DEF TxsAssumption, Init, NewClient
<1>3. Stored(Genesis) \in Nat
  BY <1>2 DEF Stored, State, TxsAssumption
<1>4. Len(committed) = 1 /\ committed[1] = Genesis /\ Newest = Genesis
  BY <1>2 DEF Newest
<1>5. NoncesGrow
  BY <1>2, <1>3, <1>4, SMTT(60) DEF NoncesGrow
<1>6. OnePending
  BY <1>2, <1>4 DEF OnePending
<1>7. QED
  BY <1>1, <1>5, <1>6 DEF WalletInv

\* The numbers of the invariant.
LEMMA WalletNumbers ==
    ASSUME WalletInv
    PROVE  /\ Len(committed) \in Nat /\ Len(committed) > 0
           /\ \A h \in 1..Len(committed) : committed[h] \in State /\ Stored(committed[h]) \in Nat
           /\ committed[Len(committed)] \in State /\ Stored(committed[Len(committed)]) \in Nat
           /\ Newest \in State /\ Stored(Newest) \in Nat /\ Newest.chain_id = Genesis.chain_id
           /\ mempool \in State /\ Stored(mempool) \in Nat
           /\ PluginsAssumption /\ Wallet \in Address /\ NONCE_INCREASE_LIMIT \in Nat
           /\ NoncesReach(Newest) /\ ctx \in Context
<1>1. \A a \in State : Stored(a) \in Nat
  BY DEF WalletInv, TxsInv, TxsAssumption, State, Stored
<1>2. committed \in Seq(State) /\ Len(committed) \in Nat /\ Len(committed) > 0
  BY SMTT(60) DEF WalletInv, TxsInv, TxsType
<1>3. Newest \in State /\ Newest.chain_id = Genesis.chain_id /\ NoncesReach(Newest)
  BY <1>2, SMTT(60) DEF Newest, WalletInv, TxsInv, TxsType, OneChain, NoncesAreReached
<1>4. QED
  BY <1>1, <1>2, <1>3, SMTT(60) DEF WalletInv, TxsInv, TxsType, TxsAssumption, PluginsAssumption

\* What has run stays so, and the nonce of a call of the wallet was reached.
LEMMA WalletRan ==
    ASSUME WalletInv, NEW tx \in Range(ran), OfWallet(tx)
    PROVE  tx.nonce \in Nat /\ tx.nonce <= Stored(Newest) /\ ~Due(Newest, tx)
<1>1. PICK i \in 1..Len(ran) : ran[i] = tx
  BY SMTT(60) DEF Range, WalletInv, TxsInv, TxsType
<1>2. tx.nonce \in Nat /\ tx.nonce <= Stored(Newest)
  BY <1>1, WalletNumbers DEF NoncesReach, OfWallet, Stored
<1>3. QED
  BY <1>2, WalletNumbers, SMTT(60) DEF Due, OfWallet, Stored

\* Whether a call of the wallet is due depends on its nonce alone.
LEMMA DueStays ==
    ASSUME NEW a, NEW b, Stored(a) = Stored(b), a.chain_id = b.chain_id, NEW tx, OfWallet(tx)
    PROVE  Due(a, tx) <=> Due(b, tx)
BY DEF Due, Stored, OfWallet

\* The invariant of the sole wallet is kept by a transaction of a block, ...
LEMMA WalletDelivers ==
    ASSUME WalletInv, NEW tx \in Others \union network, DeliverTx(tx)
    PROVE  NoncesGrow' /\ (~client.lost' => OnePending')
<1> DEFINE last == committed[Len(committed)]
<1>1. /\ consensus # None /\ block' = Append(block, tx)
      /\ UNCHANGED <<committed, mempool, included, network, client, returned>>
  BY DEF DeliverTx
<1>2. PICK r : /\ r = RunTx(consensus, ctx, tx) /\ consensus' = r.a
               /\ ran' = IF ~r.err \/ r.a # consensus THEN Append(ran, tx) ELSE ran
  BY DEF DeliverTx
<1>3. tx \in Transaction /\ ran \in Seq(Transaction)
  BY DEF WalletInv, TxsInv, TxsAssumption, TxsType
<1>4. Newest = consensus /\ consensus \in State
  BY <1>1, WalletNumbers DEF Newest
<1>5. /\ r.a \in State /\ r.a.chain_id = consensus.chain_id
      /\ Stored(r.a) >= Stored(consensus)
      /\ Stored(r.a) = Stored(consensus) \/ tx.by = Wallet
  <2>1. PluginsAssumption /\ ctx \in Context /\ Wallet \in Address
    BY WalletNumbers
  <2>2. /\ r \in Run /\ r.a.chain_id = consensus.chain_id
        /\ r.a.nonce[Wallet] >= consensus.nonce[Wallet]
        /\ r.a.nonce[Wallet] = consensus.nonce[Wallet] \/ tx.by = Wallet
    BY <1>2, <1>3, <1>4, <2>1, RunTxRuns, SMTT(60)
  <2>3. QED
    BY <2>2 DEF Run, Stored
<1>6. Newest' = r.a /\ Stored(r.a) \in Nat
  <2>1. None \notin State
    BY DEF WalletInv, TxsInv, TxsAssumption
  <2>2. QED
    BY <1>2, <1>5, <2>1, WalletNumbers DEF Newest, Stored, State
<1>7. /\ Range(ran) \subseteq Range(ran')
      /\ ran' # ran => tx \in Range(ran')
  <2>1. CASE ran' = ran
    BY <2>1
  <2>2. CASE ran' # ran
    <3>1. ran' = Append(ran, tx)
      BY <1>2, <2>2
    <3>2. /\ Len(ran') = Len(ran) + 1 /\ ran'[Len(ran) + 1] = tx /\ Len(ran) \in Nat
          /\ \A i \in 1..Len(ran) : ran'[i] = ran[i]
          /\ DOMAIN ran = 1..Len(ran) /\ DOMAIN ran' = 1..Len(ran')
      BY <1>3, <3>1, SMTT(60)
    <3>3. QED
      BY <3>2, SMTT(60) DEF Range
  <2>3. QED
    BY <2>1, <2>2
<1>8. /\ block' \in Seq(Transaction)
      /\ \A i \in 1..Len(block') : block'[i] = tx \/ (i \in 1..Len(block) /\ block'[i] = block[i])
  <2>1. block' = Append(block, tx) /\ block \in Seq(Transaction)
    BY <1>1 DEF WalletInv, NoncesGrow
  <2>2. QED
    BY <1>3, <2>1, SMTT(60)
<1>9. NoncesGrow'
  <2>1. Stored(last) <= Stored(consensus) /\ Stored(last) \in Nat /\ Stored(consensus) \in Nat
    BY <1>4, WalletNumbers DEF WalletInv, NoncesGrow
  <2>2. Stored(last) <= Stored(r.a)
    BY <1>5, <1>6, <2>1, SMTT(60)
  <2>3. \A i \in 1..Len(block') : block'[i] \in Others \union network
    BY <1>1, <1>8 DEF WalletInv, NoncesGrow
  <2>4. QED
    BY <1>1, <1>6, <1>8, <2>2, <2>3 DEF WalletInv, NoncesGrow, OfWallet, Stored
<1>10. ASSUME ~client.lost
       PROVE  OnePending'
  <2>1. OnePending
    BY <1>10 DEF WalletInv
  <2>2. /\ returned' \subseteq Range(ran') /\ included' \subseteq Range(ran')
        /\ \A t \in included' : t.nonce <= Stored(last)'
    BY <1>1, <1>7, <2>1 DEF OnePending
  <2>3. \A t \in network : OfWallet(t)
    BY DEF WalletInv, NoncesGrow
  <2>4. CASE tx \notin network \/ ~Due(consensus, tx)
    <3>1. Stored(r.a) = Stored(consensus)
      <4>1. CASE tx \notin network
        BY <1>5, <4>1 DEF WalletInv, SoleWallet
      <4>2. CASE tx \in network /\ ~Due(consensus, tx)
        <5>1. tx.kind = "native" /\ tx.signature = "good"
          BY <2>3, <4>2 DEF OfWallet
        <5>2. PluginsAssumption /\ ctx \in Context
          BY WalletNumbers
        <5>3. r.a = consensus
          BY <1>2, <1>3, <1>4, <4>2, <5>1, <5>2, DueCallsRun
        <5>4. QED
          BY <5>3
      <4>3. QED
        BY <2>4, <4>1, <4>2
    <3>2. \A t \in network : Due(consensus, t) <=> Due(r.a, t)
      BY <1>5, <2>3, <3>1, DueStays
    <3>3. tx \in network => tx \in Range(ran)
      BY <1>4, <2>1, <2>4 DEF OnePending
    <3>4. \A t \in network' : t \in Range(ran') \/ (client'.at = "commit" /\ client'.tx = t /\ Due(Newest', t))
      BY <1>1, <1>4, <1>6, <1>7, <2>1, <3>2 DEF OnePending
    <3>5. \A i \in 1..Len(block') : block'[i] \in network' => block'[i] \in Range(ran')
      BY <1>1, <1>7, <1>8, <2>1, <3>3 DEF OnePending
    <3>6. Stored(Newest') # Stored(last)' => client'.at = "commit" /\ client'.tx \notin included'
      BY <1>1, <1>4, <1>6, <2>1, <3>1 DEF OnePending
    <3>7. QED
      BY <2>2, <3>4, <3>5, <3>6 DEF OnePending, Stored
  <2>5. CASE tx \in network /\ Due(consensus, tx)
    <3>1. OfWallet(tx) /\ tx \notin Range(ran)
      BY <1>4, <2>3, <2>5, WalletRan
    <3>2. client.at = "commit" /\ client.tx = tx
      BY <2>1, <2>5, <3>1 DEF OnePending
    <3>3. Stored(r.a) = tx.nonce /\ r.a # consensus
      <4>1. tx.kind = "native" /\ tx.signature = "good" /\ tx.by = Wallet
        BY <3>1 DEF OfWallet
      <4>2. PluginsAssumption /\ ctx \in Context
        BY WalletNumbers
      <4>3. r.a.nonce[tx.by] = tx.nonce /\ r.a # consensus
        BY <1>2, <1>3, <1>4, <2>5, <4>1, <4>2, DueCallsRun, SMTT(60)
      <4>4. QED
        BY <4>1, <4>3 DEF Stored
    <3>4. tx \in Range(ran')
      BY <1>2, <1>3, <1>7, <3>3, SMTT(60)
    <3>5. \A t \in network' : t \in Range(ran')
      BY <1>1, <1>7, <2>1, <3>2, <3>4 DEF OnePending
    <3>6. tx.nonce > Stored(last)
      <4>1. tx.nonce > Stored(consensus) /\ tx.nonce \in Nat
        BY <2>5, <3>1 DEF Due, OfWallet, Stored
      <4>2. Stored(last) <= Stored(consensus) /\ Stored(last) \in Nat /\ Stored(consensus) \in Nat
        BY <1>4, WalletNumbers DEF WalletInv, NoncesGrow
      <4>3. QED
        BY <4>1, <4>2, SMTT(60)
    <3>7. tx \notin included
      <4>1. ASSUME tx \in included PROVE FALSE
        <5>1. tx.nonce <= Stored(last)
          BY <2>1, <4>1 DEF OnePending
        <5>2. Stored(last) \in Nat /\ tx.nonce \in Nat
          BY <3>1, WalletNumbers DEF OfWallet
        <5>3. QED
          BY <3>6, <5>1, <5>2, SMTT(60)
      <4>2. QED
        BY <4>1
    <3>8. QED
      BY <1>1, <2>2, <3>2, <3>5, <3>7 DEF OnePending, Stored
  <2>6. QED
    BY <2>4, <2>5
<1>11. QED
  BY <1>1, <1>9, <1>10

\* ... by the start and the commit of a block, ...
LEMMA WalletBlocks ==
    ASSUME WalletInv, TxsInv', BeginBlock \/ Commit
    PROVE  NoncesGrow' /\ (~client.lost' => OnePending')
<1> DEFINE last == committed[Len(committed)]
<1>1. CASE BeginBlock
  <2>1. consensus = None
        /\ UNCHANGED <<committed, mempool, block, included, network, client, ran, returned>>
    BY <1>1 DEF BeginBlock
  <2>2. PICK m : m = mint(faucet, last.amount_minted, Len(committed))
    OBVIOUS
  <2>3. consensus' = [deposit(last, FaucetAccount, m.coins) EXCEPT !.amount_minted = m.amount_minted]
    BY <1>1, <2>2 DEF BeginBlock, height
  <2>4. consensus'.nonce = last.nonce /\ consensus'.chain_id = last.chain_id
    BY <2>3, WalletNumbers DEF deposit, State
  <2>5. consensus' \in State \cup {None}
    BY DEF TxsInv, TxsType
  <2>6. Newest = last /\ Stored(Newest') = Stored(Newest) /\ Newest'.chain_id = Newest.chain_id
    BY <2>1, <2>4 DEF Newest, Stored
  <2>7. NoncesGrow'
    BY <2>1, <2>6, WalletNumbers DEF WalletInv, NoncesGrow, OfWallet, Stored
  <2>8. \A t \in network : Due(Newest, t) <=> Due(Newest', t)
    BY <2>6, DueStays DEF WalletInv, NoncesGrow
  <2>9. OnePending => OnePending'
    BY <2>1, <2>6, <2>8 DEF OnePending, Stored
  <2>10. QED
    BY <2>1, <2>7, <2>9 DEF WalletInv
<1>2. CASE Commit
  <2>1. /\ consensus # None /\ committed' = Append(committed, consensus) /\ consensus' = None
        /\ mempool' = consensus /\ included' = included \union (Range(block) \cap network)
        /\ block' = <<>> /\ UNCHANGED <<network, client, ran, returned>>
    BY <1>2 DEF Commit
  <2>2. committed \in Seq(State) /\ consensus = Newest /\ consensus \in State
    BY <2>1, WalletNumbers DEF WalletInv, TxsInv, TxsType, Newest
  <2>3. /\ Len(committed') = Len(committed) + 1 /\ committed'[Len(committed')] = consensus
        /\ \A h \in 1..Len(committed) : committed'[h] = committed[h]
    BY <2>1, <2>2, SMTT(60)
  <2>4. Newest' = consensus /\ consensus.chain_id = Genesis.chain_id
    BY <2>1, <2>2, <2>3, WalletNumbers DEF Newest
  <2>5. \A h \in 1..Len(committed') : Stored(committed'[h]) <= Stored(consensus)
    <3>1. ASSUME NEW h \in 1..Len(committed') PROVE Stored(committed'[h]) <= Stored(consensus)
      <4>1. h \in 1..Len(committed) \/ h = Len(committed')
        BY <2>3, WalletNumbers, SMTT(60)
      <4>2. CASE h \in 1..Len(committed)
        <5>1. committed'[h] = committed[h]
          BY <2>3, <4>2
        <5>2. Stored(committed[h]) <= Stored(last) /\ Stored(last) <= Stored(consensus)
          BY <2>2, <4>2 DEF WalletInv, NoncesGrow
        <5>3. Stored(committed[h]) \in Nat /\ Stored(last) \in Nat /\ Stored(consensus) \in Nat
          BY <2>2, <4>2, WalletNumbers
        <5>4. QED
          BY <5>1, <5>2, <5>3, SMTT(60)
      <4>3. CASE h = Len(committed')
        <5>1. committed'[h] = consensus
          BY <2>3, <4>3
        <5>2. Stored(consensus) \in Nat
          BY <2>2, WalletNumbers
        <5>3. QED
          BY <5>1, <5>2, SMTT(60)
      <4>4. QED
        BY <4>1, <4>2, <4>3
    <3>2. QED
      BY <3>1
  <2>6. client.at = "check" => client.tx.nonce \in Nat
    BY DEF WalletInv, NoncesGrow, OfWallet
  <2>7. client.at = "check" => client.tx.nonce <= Stored(consensus) + 1
    BY <2>2, <2>6, WalletNumbers, SMTT(60) DEF WalletInv, NoncesGrow
  <2>8. included' \subseteq network /\ block' \in Seq(Transaction) /\ Len(block') = 0
    BY <2>1, SMTT(60) DEF WalletInv, NoncesGrow
  <2>9. NoncesGrow'
    <3>1. Stored(consensus) <= Stored(consensus)
      <4>1. Stored(consensus) \in Nat
        BY <2>2, WalletNumbers
      <4>2. QED
        BY <4>1, SMTT(60)
    <3>2. \A i \in 1..Len(block') : block'[i] \in Others \union network'
      BY <2>8, SMTT(60)
    <3>3. \A t \in network : OfWallet(t)
      BY DEF WalletInv, NoncesGrow
    <3>4. client.at \in {"check", "commit"} => OfWallet(client.tx)
      BY DEF WalletInv, NoncesGrow
    <3>5. QED
      BY <2>1, <2>3, <2>4, <2>5, <2>7, <2>8, <3>1, <3>2, <3>3, <3>4
         DEF NoncesGrow, OfWallet, Stored
  <2>10. ASSUME OnePending PROVE OnePending'
    <3>1. included' \subseteq Range(ran)
      <4>1. ASSUME NEW t \in Range(block), t \in network PROVE t \in Range(ran)
        <5>1. block \in Seq(Transaction)
          BY DEF WalletInv, NoncesGrow
        <5>2. PICK i \in 1..Len(block) : block[i] = t
          BY <5>1, SMTT(60) DEF Range
        <5>3. QED
          BY <2>10, <4>1, <5>2 DEF OnePending
      <4>2. QED
        BY <2>1, <2>10, <4>1 DEF OnePending
    <3>2. \A t \in included' : t.nonce <= Stored(consensus)
      BY <2>2, <2>8, <3>1, WalletRan DEF WalletInv, NoncesGrow
    <3>3. \A t \in network : t \in Range(ran) \/ (client.at = "commit" /\ client.tx = t /\ Due(Newest', t))
      BY <2>2, <2>4, <2>10 DEF OnePending
    <3>4. returned' \subseteq Range(ran') /\ included' \subseteq Range(ran')
      BY <2>1, <2>10, <3>1 DEF OnePending
    <3>5. QED
      BY <2>1, <2>3, <2>4, <2>8, <3>2, <3>3, <3>4, SMTT(60) DEF OnePending, Stored
  <2>11. QED
    BY <2>1, <2>9, <2>10 DEF WalletInv
<1>3. QED
  BY <1>1, <1>2

\* A mempool whose nonce has grown is still ahead of what is committed.
LEMMA MempoolGrows ==
    ASSUME WalletInv, NEW n \in Nat, n >= Stored(mempool)
    PROVE  Stored(committed[Len(committed)]) <= n
<1>1. Stored(committed[Len(committed)]) <= Stored(mempool)
  BY DEF WalletInv, NoncesGrow
<1>2. Stored(committed[Len(committed)]) \in Nat /\ Stored(mempool) \in Nat
  BY WalletNumbers
<1>3. QED
  BY <1>1, <1>2, SMTT(60)

\* Checks and simulated calls of others do not touch the wallet's nonce.
LEMMA WalletChecks ==
    ASSUME WalletInv, TxsInv', NEW tx \in Others, CheckTx(tx) \/ Simulate(tx)
    PROVE  NoncesGrow' /\ (~client.lost' => OnePending')
<1>1. UNCHANGED <<committed, consensus, block, included, network, client, ran, returned>>
  BY DEF CheckTx, Simulate
<1>2. Newest' = Newest
  BY <1>1 DEF Newest
<1>3. Stored(mempool') \in Nat /\ Stored(mempool') >= Stored(mempool) /\ mempool'.chain_id = mempool.chain_id
  <2>1. CASE CheckTx(tx)
    <3>1. PICK r : r = RunTx(mempool, ctx, tx) /\ mempool' = r.a
      BY <2>1 DEF CheckTx
    <3>2. tx \in Transaction /\ PluginsAssumption /\ ctx \in Context /\ Wallet \in Address /\ mempool \in State
      BY WalletNumbers DEF WalletInv, TxsInv, TxsAssumption
    <3>3. r \in Run /\ r.a.chain_id = mempool.chain_id /\ r.a.nonce[Wallet] >= mempool.nonce[Wallet]
      BY <3>1, <3>2, RunTxRuns, SMTT(60)
    <3>4. r.a.nonce[Wallet] \in Nat
      BY <3>2, <3>3 DEF Run, State
    <3>5. QED
      BY <3>1, <3>3, <3>4 DEF Stored
  <2>2. CASE Simulate(tx)
    BY <2>2, WalletNumbers, SMTT(60) DEF Simulate
  <2>3. QED
    BY <2>1, <2>2
<1>4. NoncesGrow'
  BY <1>1, <1>2, <1>3, MempoolGrows DEF WalletInv, NoncesGrow, OfWallet, Stored
<1>5. OnePending => OnePending'
  BY <1>1, <1>2 DEF OnePending, Due, Stored
<1>6. QED
  BY <1>1, <1>4, <1>5 DEF WalletInv

\* What the steps of the client leave alone.
LEMMA WalletClient ==
    ASSUME WalletInv, UNCHANGED <<committed, consensus, mempool, block, included, network, ran>>,
           client' \in Clients, client'.lost = client.lost,
           client'.at \in {"idle", "nonce", "check"},
           client'.at = "check" => /\ OfWallet(client'.tx)
                                   /\ client'.tx.nonce <= Stored(committed[Len(committed)]) + 1,
           client.at # "commit" \/ client.tx \in included,
           returned' \subseteq returned \union included
    PROVE  NoncesGrow' /\ (~client.lost' => OnePending')
<1>1. Newest' = Newest
  BY DEF Newest
<1>2. NoncesGrow'
  BY <1>1 DEF WalletInv, NoncesGrow, OfWallet, Stored
<1>3. OnePending => OnePending'
  BY <1>1 DEF OnePending, Due, Stored
<1>4. QED
  BY <1>2, <1>3 DEF WalletInv

\* A query leaves the client one that has lost no call by it.
LEMMA QueryKeeps ==
    ASSUME TxsInv, NEW c \in Clients, NEW d \in query(c)
    PROVE  d \in Clients /\ d.lost = c.lost
<1>1. height \in Nat /\ None \notin Nat
  BY SMTT(60) DEF TxsInv, TxsType, TxsAssumption, PluginsAssumption, height
<1>2. CASE c.height = None
  <2>1. d = [c EXCEPT !.height = height, !.read = c.read \union {height}]
    BY <1>2 DEF query
  <2>2. QED
    BY <1>1, <2>1 DEF Clients
<1>3. CASE c.height # None
  <2>1. d = [c EXCEPT !.read = c.read \union {c.height}]
    BY <1>3 DEF query
  <2>2. c.height \in Nat
    BY <1>3 DEF Clients
  <2>3. c.read \union {c.height} \in SUBSET Nat
    BY <2>2 DEF Clients
  <2>4. QED
    BY <2>1, <2>3 DEF Clients
<1>4. QED
  BY <1>2, <1>3

\* ... by the client's queries, ...
LEMMA WalletQueries ==
    ASSUME WalletInv, TxsInv', NewHttpClient \/ QueryChainId \/ TxCommitted
    PROVE  NoncesGrow' /\ (~client.lost' => OnePending')
<1>1. client \in Clients /\ client' \in Clients
  BY DEF WalletInv, TxsInv, TxsType
<1>2. CASE NewHttpClient
  <2>1. client.at = "idle" /\ client'.at = "idle" /\ client'.lost = client.lost
    BY <1>1, <1>2 DEF NewHttpClient, Clients
  <2>2. QED
    BY <1>1, <1>2, <2>1, WalletClient DEF NewHttpClient
<1>3. CASE QueryChainId
  <2>1. PICK c : c = [client EXCEPT !.calls = @ + 1]
    OBVIOUS
  <2>2. c \in Clients /\ c.lost = client.lost
    BY <1>1, <2>1, SMTT(60) DEF Clients
  <2>3. client' = Return(c) \/ \E d \in query(c) : client' = [d EXCEPT !.at = "nonce"]
    BY <1>3, <2>1 DEF QueryChainId
  <2>4. client'.at \in {"idle", "nonce"} /\ client'.lost = client.lost
    <3>1. CASE client' = Return(c)
      BY <2>2, <3>1 DEF Return, Clients
    <3>2. ASSUME NEW d \in query(c), client' = [d EXCEPT !.at = "nonce"]
          PROVE  client'.at \in {"idle", "nonce"} /\ client'.lost = client.lost
      <4>1. d \in Clients /\ d.lost = c.lost
        BY <2>2, <3>2, QueryKeeps DEF WalletInv
      <4>2. QED
        BY <2>2, <3>2, <4>1 DEF Clients
    <3>3. QED
      BY <2>3, <3>1, <3>2
  <2>5. QED
    BY <1>1, <1>3, <2>4, WalletClient DEF QueryChainId
<1>4. CASE TxCommitted
  <2>1. client'.at = "idle" /\ client'.lost = client.lost
    BY <1>1, <1>4 DEF TxCommitted, Return, Clients
  <2>2. QED
    BY <1>1, <1>4, <2>1, WalletClient DEF TxCommitted
<1>5. QED
  BY <1>2, <1>3, <1>4

\* ... by the signing of its next call ...
LEMMA WalletSigns ==
    ASSUME WalletInv, TxsInv', NEW call \in Calls, QueryNonce(call)
    PROVE  NoncesGrow' /\ (~client.lost' => OnePending')
<1>1. client \in Clients /\ client' \in Clients /\ client.at = "nonce"
  BY DEF WalletInv, TxsInv, TxsType, QueryNonce
<1>2. UNCHANGED <<committed, consensus, mempool, block, included, network, ran, returned>>
  BY DEF QueryNonce
<1>3. CASE client' = Return(client)
  <2>1. client'.at = "idle" /\ client'.lost = client.lost
    BY <1>1, <1>3 DEF Return, Clients
  <2>2. QED
    BY <1>1, <1>2, <2>1, WalletClient
<1>4. ASSUME NEW d \in query(client), NEW tx,
             tx = [kind |-> "native", signature |-> "good", by |-> Wallet,
                   chain |-> committed[d.height].chain_id,
                   nonce |-> committed[d.height].nonce[Wallet] + 1,
                   payer |-> call.payer, paid |-> call.paid],
             client' = [d EXCEPT !.at = "check", !.tx = tx]
      PROVE  NoncesGrow' /\ (~client.lost' => OnePending')
  <2>1. d \in Clients /\ d.lost = client.lost
    BY <1>1, <1>4, QueryKeeps DEF WalletInv
  <2>2. d.height \in 1..Len(committed)
    BY <1>1, Queried DEF WalletInv, TxsInv, ReadsAreOfOneHeight
  <2>3. client'.at = "check" /\ client'.tx = tx /\ client'.lost = client.lost
    BY <1>4, <2>1 DEF Clients
  <2>4. tx \in Transaction
    BY <1>4, <2>3 DEF TxsInv, ReadsAreOfOneHeight
  <2>5. /\ tx.kind = "native" /\ tx.signature = "good" /\ tx.by = Wallet
        /\ tx.chain = committed[d.height].chain_id /\ tx.nonce = Stored(committed[d.height]) + 1
    BY <1>4 DEF Stored
  <2>6. /\ Stored(committed[d.height]) \in Nat /\ committed[d.height].chain_id = Genesis.chain_id
        /\ Stored(committed[d.height]) <= Stored(committed[Len(committed)])
    BY <2>2, WalletNumbers DEF WalletInv, TxsInv, OneChain, NoncesGrow
  <2>7. OfWallet(tx) /\ tx.nonce <= Stored(committed[Len(committed)]) + 1
    <3>1. tx.nonce \in Nat /\ tx.nonce <= Stored(committed[Len(committed)]) + 1
      <4>1. Stored(committed[Len(committed)]) \in Nat
        BY WalletNumbers
      <4>2. QED
        BY <2>5, <2>6, <4>1, SMTT(60)
    <3>2. QED
      BY <2>4, <2>5, <2>6, <3>1 DEF OfWallet
  <2>8. QED
    BY <1>1, <1>2, <2>3, <2>7, WalletClient
<1>5. QED
  BY <1>3, <1>4 DEF QueryNonce

\* A transaction that passes the mempool's check is the wallet's next one, and
\* is due in the block in progress.
LEMMA WalletBroadcasts ==
    ASSUME WalletInv, TxsInv', BroadcastTx
    PROVE  NoncesGrow' /\ (~client.lost' => OnePending')
<1> DEFINE last == committed[Len(committed)]
           tx == client.tx
<1>1. /\ client \in Clients /\ client' \in Clients /\ client.at = "check"
      /\ UNCHANGED <<committed, consensus, block, included, ran, returned>>
  BY DEF WalletInv, TxsInv, TxsType, BroadcastTx
<1>2. PICK r : /\ r = RunTx(mempool, ctx, tx) /\ mempool' = r.a
               /\ IF r.err THEN client' = Return(client) /\ UNCHANGED network
                  ELSE /\ client' = [client EXCEPT !.at = "commit"]
                       /\ network' = network \union {tx}
  BY DEF BroadcastTx
<1>3. OfWallet(tx) /\ tx.nonce <= Stored(last) + 1
  BY <1>1 DEF WalletInv, NoncesGrow
<1>4. tx \in Transaction /\ tx.kind = "native" /\ tx.signature = "good" /\ tx.by = Wallet /\ tx.nonce \in Nat
  BY <1>3 DEF OfWallet
<1>5. Newest' = Newest
  BY <1>1 DEF Newest
<1>6. /\ Stored(mempool') \in Nat /\ Stored(mempool') >= Stored(mempool)
      /\ mempool'.chain_id = Genesis.chain_id
  <2>1. PluginsAssumption /\ ctx \in Context /\ Wallet \in Address /\ mempool \in State
    BY WalletNumbers
  <2>2. r \in Run /\ r.a.chain_id = mempool.chain_id /\ r.a.nonce[Wallet] >= mempool.nonce[Wallet]
    BY <1>2, <1>4, <2>1, RunTxRuns, SMTT(60)
  <2>3. r.a.nonce[Wallet] \in Nat
    BY <2>1, <2>2 DEF Run, State
  <2>4. QED
    BY <1>2, <2>2, <2>3 DEF Stored, WalletInv, NoncesGrow
<1>7. CASE r.err
  <2>1. client'.at = "idle" /\ client'.lost = client.lost /\ network' = network
    BY <1>1, <1>2, <1>7 DEF Return, Clients
  <2>2. NoncesGrow'
    BY <1>1, <1>5, <1>6, <2>1, MempoolGrows DEF WalletInv, NoncesGrow, OfWallet, Stored
  <2>3. OnePending => OnePending'
    BY <1>1, <1>5, <2>1 DEF OnePending, Due, Stored
  <2>4. QED
    BY <2>1, <2>2, <2>3 DEF WalletInv
<1>8. CASE ~r.err
  <2>1. /\ client'.at = "commit" /\ client'.tx = tx /\ client'.lost = client.lost
        /\ network' = network \union {tx}
    BY <1>1, <1>2, <1>8 DEF Clients
  <2>2. NoncesGrow'
    BY <1>1, <1>3, <1>5, <1>6, <2>1, MempoolGrows DEF WalletInv, NoncesGrow, OfWallet, Stored
  <2>3. ASSUME OnePending PROVE OnePending'
    <3>1. Due(mempool, tx)
      BY <1>2, <1>4, <1>8, WalletNumbers, DueCallsRun
    <3>2. /\ tx.nonce > Stored(mempool) /\ tx.nonce - Stored(mempool) <= NONCE_INCREASE_LIMIT
          /\ mempool.chain_id # None
      BY <1>4, <3>1 DEF Due, Stored
    <3>3. Stored(last) <= Stored(mempool)
      BY DEF WalletInv, NoncesGrow
    <3>4. Stored(Newest) = Stored(last)
      BY <1>1, <2>3 DEF OnePending
    <3>5. Stored(mempool) = Stored(Newest)
      BY <1>3, <1>4, <3>2, <3>3, <3>4, WalletNumbers, SMTT(60)
    <3>6. Newest.chain_id = mempool.chain_id
      BY WalletNumbers DEF WalletInv, NoncesGrow
    <3>7. Due(Newest, tx)
      BY <1>3, <3>1, <3>5, <3>6, DueStays
    <3>8. \A i \in 1..Len(block) : block[i] \in network' => block[i] \in Range(ran)
      <4>1. ASSUME NEW i \in 1..Len(block), block[i] \in network' PROVE block[i] \in Range(ran)
        <5>1. block[i] \in Others \union network
          BY DEF WalletInv, NoncesGrow
        <5>2. tx \notin Others
          BY <1>4 DEF WalletInv, SoleWallet
        <5>3. QED
          BY <2>1, <2>3, <4>1, <5>1, <5>2 DEF OnePending
      <4>2. QED
        BY <4>1
    <3>9. \A t \in network : t \in Range(ran)
      BY <1>1, <2>3 DEF OnePending
    <3>10. QED
      BY <1>1, <1>5, <2>1, <2>3, <3>4, <3>7, <3>8, <3>9 DEF OnePending, Due, Stored
  <2>4. QED
    BY <2>1, <2>2, <2>3 DEF WalletInv
<1>9. QED
  BY <1>7, <1>8

\* ... and so by every step.
LEMMA WalletStep ==
    ASSUME WalletInv, [Next]_vars
    PROVE  WalletInv'
<1>1. TxsInv'
  BY TxsStep DEF WalletInv
<1>2. NoncesGrow' /\ (~client.lost' => OnePending')
  <2>1. CASE BeginBlock \/ Commit
    BY <1>1, <2>1, WalletBlocks
  <2>2. CASE \E tx \in Others \union network : DeliverTx(tx)
    BY <2>2, WalletDelivers
  <2>3. CASE \E tx \in Others : CheckTx(tx) \/ Simulate(tx)
    BY <1>1, <2>3, WalletChecks
  <2>4. CASE NewHttpClient \/ QueryChainId \/ TxCommitted
    BY <1>1, <2>4, WalletQueries
  <2>5. CASE BroadcastTx
    BY <1>1, <2>5, WalletBroadcasts
  <2>6. CASE \E call \in Calls : QueryNonce(call)
    BY <1>1, <2>6, WalletSigns
  <2>7. CASE TxTimeout
    <3>1. client \in Clients /\ UNCHANGED <<committed, consensus, mempool, block, included, network>>
      BY <2>7 DEF TxTimeout, WalletInv, TxsInv, TxsType
    <3>2. client'.at = "idle" /\ client'.lost
      BY <2>7, <3>1 DEF TxTimeout, Return, Clients
    <3>3. QED
      BY <3>1, <3>2 DEF WalletInv, NoncesGrow, OfWallet, Stored, Newest
  <2>8. CASE UNCHANGED vars
    <3>1. UNCHANGED <<committed, consensus, mempool, block, included, network, client, ran, returned>>
      BY <2>8 DEF vars
    <3>2. Newest' = Newest
      BY <3>1 DEF Newest
    <3>3. QED
      BY <3>1, <3>2 DEF WalletInv, NoncesGrow, OnePending, OfWallet, Stored, Due
  <2>9. QED
    BY <2>1, <2>2, <2>3, <2>4, <2>5, <2>6, <2>7, <2>8 DEF Next
<1>3. QED
  BY <1>1, <1>2 DEF WalletInv, SoleWallet

\* As long as no call of the wallet timed out, a call that returned Ok passed
\* the plugins in its block, although the client only saw that it passed them
\* on the mempool's state: the nonce it asked for is still the next one there.
THEOREM CallsRan ==
    TxsAssumption /\ SoleWallet /\ Spec => []CallsThatReturnedOkRan
<1>1. TxsAssumption /\ SoleWallet /\ Init => WalletInv
  BY WalletStart
<1>2. WalletInv /\ [Next]_vars => WalletInv'
  BY WalletStep
<1>3. WalletInv => CallsThatReturnedOkRan
  BY DEF WalletInv, OnePending, CallsThatReturnedOkRan
<1>4. QED
  BY <1>1, <1>2, <1>3, PTL DEF Spec
===============================================================================
