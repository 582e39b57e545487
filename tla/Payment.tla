------------------------------ MODULE Payment -------------------------------
(***************************************************************************)
(* The payment API (POST /payment/request and .../{id}/verify) of one      *)
(* chain: HTTP requests that run concurrently, each inside one MySQL       *)
(* transaction, over the payment_requests table, the operator account of   *)
(* the blockchain node and the PaymentProcessor contract.                  *)
(*                                                                         *)
(* Every remote call of a request (balanceOf, the account's nonce, the gas *)
(* estimate, the broadcast, the receipt) and the commit is a step of its   *)
(* own, since other requests and the chain move between two of them.  What *)
(* a request did in its transaction is visible to others at the commit.    *)
(***************************************************************************)
EXTENDS Integers, Sequences, FiniteSets

CONSTANTS
    Requests,       \* workers that run create_and_execute_payment
    Verifiers,      \* workers that run verify_transaction_hash
    MaxRows,        \* bound: ids the payment_requests table gives out
    UserWallets, StoreWallets,  \* active wallets a request may find
    Instants,       \* the half-second instants at which a request starts
    Ttl,            \* the ten minutes of expires_at, in half seconds
    Faults,         \* which of the faults below may happen
    MaxOutside,     \* bound: steps of the contract's owner and of holders
    NoRow, NoHash,
    Chain, Token, Operator,     \* the chain, its JPYC token, the operator account
    Accounts, ZeroAddress, Amounts, InitialOwner, InitialBalance, InitialAllowance

(***************************************************************************)
(* Definitions marked "Variant" are what a plausible bug would make of the  *)
(* definition that follows; they are kept to show which property notices.   *)
(*                                                                         *)
(* The faults, each switched on by its name:                               *)
(*  "lost"     a broadcast was accepted and its request then dies: the     *)
(*             answer of the node or the commit is lost, the worker stops  *)
(*  "replace"  the node takes a transaction in the place of a pending one  *)
(*             with the same nonce, because its fee is higher              *)
(*  "evict"    the node drops a pending transaction                        *)
(*  "lag"      a node asked for a receipt has not seen the block yet       *)
(*  "rpc"      a verification fails on the network and rolls back          *)
(***************************************************************************)
FaultNames == {"lost", "replace", "evict", "lag", "rpc"}

ASSUME BoundAssumption ==
    /\ MaxRows \in Nat
    /\ MaxOutside \in Nat
    /\ Ttl \in Nat
    /\ Instants \subseteq Nat
    /\ Faults \subseteq FaultNames

\* The wallets the wallet endpoints registered for users and stores.
Wallet == [address : Accounts, chain : STRING, token : STRING, permitted : BOOLEAN]

ASSUME WalletAssumption ==
    /\ UserWallets \subseteq Wallet
    /\ StoreWallets \subseteq Wallet

ASSUME AccountAssumption ==
    /\ ZeroAddress \notin Accounts
    /\ Operator \in Accounts
    /\ InitialOwner \in Accounts
    /\ Amounts \subseteq Nat
    /\ InitialBalance \in [Accounts -> Nat]
    /\ InitialAllowance \in [Accounts -> Nat]

VARIABLES
    rows,          \* payment_requests: the committed row of each id
    nextId,        \* its AUTO_INCREMENT counter, not given back on rollback
    req,           \* per worker: pc, the row of its transaction, nonce it read
    ver,           \* per worker: pc, the row it loaded, the status it decided
    pool,          \* pending transactions of the operator account
    accountNonce,  \* nonce of the operator account in the latest block
    receipts,      \* the receipts of the mined transactions
    outside,       \* how many steps outside the API happened
    owner, operators, processedPayments, allowedTokens, balance, allowance, events

Ids == 1..MaxRows

\* A DATETIME column keeps whole seconds and MySQL rounds what it is given.
RoundToSecond(t) == 2 * ((t + 1) \div 2)

Expiries == {t + Ttl : t \in Instants}
StoredExpiries == {RoundToSecond(t) : t \in Expiries}

\* The payment ids of the rows the table may hold.
PaymentId == [chain : {Chain}, id : Ids, from : Accounts, to : Accounts,
              amount : Amounts, expires : StoredExpiries]

P == INSTANCE PaymentProcessor
        WITH PaymentIds <- PaymentId, Tokens <- {Token},
             InitialOperator <- Operator, InitialToken <- Token

contractVars == <<owner, operators, allowedTokens, processedPayments,
                  balance, allowance, events>>
node == <<pool, accountNonce, receipts>>
vars == <<rows, nextId, req, ver, node, outside, contractVars>>

Statuses == {"requested", "submitted", "confirming", "paid", "tx_failed",
             "verify_failed", "canceled", "error"}

-----------------------------------------------------------------------------
(* Rows, payment ids and transactions. *)

Stored(row) == [row EXCEPT !.expires = RoundToSecond(@)]

\* keccak of the row's chain, id, addresses, amount and expires_at: the hash is
\* the tuple of what it covers.
BuildPaymentId(row) ==
    [chain |-> row.chain, id |-> row.id, from |-> row.from, to |-> row.to,
     amount |-> row.amount, expires |-> row.expires]

\* Verification also takes the bare id as 32 bytes.
LegacyPaymentId(row) == [legacyId |-> row.id]

ExpectedPaymentIds(row) == {BuildPaymentId(row), LegacyPaymentId(row)}

\* The signed transaction pay(...).  Its hash is the transaction itself.
Transaction(row, nonce) ==
    [nonce |-> nonce, paymentId |-> BuildPaymentId(row),
     from |-> row.from, to |-> row.to, amount |-> row.amount]

Transactions == [nonce : Nat, paymentId : PaymentId, from : Accounts,
                 to : Accounts, amount : Amounts]

PaymentRow == [id : Ids, from : Accounts, to : Accounts, amount : Amounts,
               chain : {Chain}, expires : Expiries \union StoredExpiries,
               status : Statuses, hash : Transactions \union {NoHash}]

ASSUME NoneAssumption == NoRow \notin PaymentRow /\ NoHash \notin Transactions

\* The event a transaction emits unless it reverts.
EventOf(tx) == P!PaymentProcessed(tx.paymentId, Token, tx.from, tx.to, tx.amount, Operator)

PaySucceeds(tx) == P!PaySucceeds(Operator, tx.paymentId, Token, tx.from, tx.to, tx.amount)

\* A request under way: the step it is at, its row, the account's nonce it read.
Session(pc, row, nonce) == [pc |-> pc, row |-> row, nonce |-> nonce]
Idle == Session("idle", NoRow, 0)

\* A verification under way: its step, the row it loaded, what it decided.
Verification(pc, row, verdict) == [pc |-> pc, row |-> row, verdict |-> verdict]
VerifierIdle == Verification("idle", NoRow, "requested")

Init ==
    /\ rows = [i \in Ids |-> NoRow]
    /\ nextId = 1
    /\ req = [r \in Requests |-> Idle]
    /\ ver = [v \in Verifiers |-> VerifierIdle]
    /\ pool = {} /\ accountNonce = 0 /\ receipts = {}
    /\ outside = 0
    /\ P!Init

-----------------------------------------------------------------------------
(* create_and_execute_payment *)

\* The worker goes from one step of the request to the next.
Advance(r, from, to) ==
    /\ req[r].pc = from
    /\ req' = [req EXCEPT ![r] = Session(to, req[r].row, req[r].nonce)]

\* create_payment_request: the wallets are read in one snapshot, the row is
\* inserted (and its id taken) in the request's transaction.
CreatePaymentRequest(r, storeWallet, userWallet, amount, now) ==
    /\ req[r].pc = "idle"
    /\ nextId <= MaxRows
    /\ storeWallet.chain = userWallet.chain
    /\ storeWallet.token = userWallet.token
    /\ userWallet.permitted
    /\ amount >= 1
    /\ storeWallet.chain = Chain
    /\ LET row == [id |-> nextId, from |-> userWallet.address,
                   to |-> storeWallet.address, amount |-> amount,
                   chain |-> storeWallet.chain, expires |-> now + Ttl,
                   status |-> "requested", hash |-> NoHash]
       IN  req' = [req EXCEPT ![r] = Session("created", row, 0)]
    /\ nextId' = nextId + 1
    /\ UNCHANGED <<rows, ver, node, outside, contractVars>>

\* Variant: execute_payment keeps the object that was inserted.
LoadRequestedNotReloaded(r) ==
    /\ Advance(r, "created", "loaded")
    /\ req[r].row.status = "requested"
    /\ UNCHANGED <<rows, nextId, ver, node, outside, contractVars>>

\* execute_payment reads the row back, by id and status REQUESTED: from here on
\* it holds what the table holds.
LoadRequested(r) ==
    /\ req[r].pc = "created"
    /\ req[r].row.status = "requested"
    /\ req' = [req EXCEPT ![r] = Session("loaded", Stored(req[r].row), req[r].nonce)]
    /\ UNCHANGED <<rows, nextId, ver, node, outside, contractVars>>

CheckBalance(r) ==
    /\ Advance(r, "loaded", "funded")
    /\ balance[Token][req[r].row.from] >= req[r].row.amount
    /\ UNCHANGED <<rows, nextId, ver, node, outside, contractVars>>

\* Variant: get_transaction_count with the pending transactions.
ReadNoncePending(r) ==
    /\ req[r].pc = "funded"
    /\ req' = [req EXCEPT ![r] =
                Session("nonced", req[r].row, accountNonce + Cardinality(pool))]
    /\ UNCHANGED <<rows, nextId, ver, node, outside, contractVars>>

\* get_transaction_count of the latest block: pending transactions do not count.
ReadNonce(r) ==
    /\ req[r].pc = "funded"
    /\ req' = [req EXCEPT ![r] = Session("nonced", req[r].row, accountNonce)]
    /\ UNCHANGED <<rows, nextId, ver, node, outside, contractVars>>

\* build_transaction simulates the call to estimate its gas.
EstimateGas(r) ==
    /\ Advance(r, "nonced", "estimated")
    /\ PaySucceeds(Transaction(req[r].row, req[r].nonce))
    /\ UNCHANGED <<rows, nextId, ver, node, outside, contractVars>>

SameNonce(tx) == {p \in pool : p.nonce = tx.nonce}

\* send_raw_transaction: the node refuses a nonce that was mined, and a second
\* transaction of a pending nonce unless it replaces the first.
SendTransaction(r) ==
    LET tx == Transaction(req[r].row, req[r].nonce)
        row == [req[r].row EXCEPT !.hash = tx, !.status = "submitted"]
    IN  /\ req[r].pc = "estimated"
        /\ tx.nonce >= accountNonce
        /\ SameNonce(tx) = {} \/ "replace" \in Faults
        /\ pool' = (pool \ SameNonce(tx)) \union {tx}
        /\ req' = [req EXCEPT ![r] = Session("sent", row, req[r].nonce)]
        /\ UNCHANGED <<rows, nextId, ver, accountNonce, receipts, outside, contractVars>>

CommitPayment(r) ==
    /\ req[r].pc = "sent"
    /\ rows' = [rows EXCEPT ![req[r].row.id] = Stored(req[r].row)]
    /\ req' = [req EXCEPT ![r] = Idle]
    /\ UNCHANGED <<nextId, ver, node, outside, contractVars>>

\* Variant: an exception after the broadcast rolls back as well.
RollbackPaymentAfterSend(r) ==
    /\ req[r].pc # "idle"
    /\ req' = [req EXCEPT ![r] = Idle]
    /\ UNCHANGED <<rows, nextId, ver, node, outside, contractVars>>

\* Variant: a refusal by the balance, the estimate or the node ends nothing.
RollbackPaymentOnlyEarly(r) ==
    /\ req[r].pc = "created"
    /\ req' = [req EXCEPT ![r] = Idle]
    /\ UNCHANGED <<rows, nextId, ver, node, outside, contractVars>>

\* Any exception before the broadcast: the balance is too small, the estimate
\* reverts, the node refuses the transaction, a call fails on the network.
RollbackPayment(r) ==
    /\ req[r].pc \notin {"idle", "sent"}
    /\ req' = [req EXCEPT ![r] = Idle]
    /\ UNCHANGED <<rows, nextId, ver, node, outside, contractVars>>

\* Variant: a broadcast whose answer is lost is sent again with a new nonce.
LosePaymentRetries(r) ==
    /\ "lost" \in Faults
    /\ req[r].pc = "sent"
    /\ req' = [req EXCEPT ![r] = Session("estimated", req[r].row, accountNonce)]
    /\ UNCHANGED <<rows, nextId, ver, node, outside, contractVars>>

\* The request dies between the broadcast and the end of its commit.
LosePayment(r) ==
    /\ "lost" \in Faults
    /\ req[r].pc = "sent"
    /\ req' = [req EXCEPT ![r] = Idle]
    /\ UNCHANGED <<rows, nextId, ver, node, outside, contractVars>>

RequestStep(r) ==
    \/ \E sw \in StoreWallets, uw \in UserWallets, amount \in Amounts, now \in Instants :
            CreatePaymentRequest(r, sw, uw, amount, now)
    \/ LoadRequested(r) \/ CheckBalance(r) \/ ReadNonce(r) \/ EstimateGas(r)
    \/ SendTransaction(r) \/ CommitPayment(r)
    \/ RollbackPayment(r) \/ LosePayment(r)

-----------------------------------------------------------------------------
(* verify_transaction_hash *)

\* Variant: verification takes SUBMITTED rows only.
LoadPaymentSubmitted(v, id) ==
    /\ ver[v].pc = "idle"
    /\ rows[id] # NoRow
    /\ rows[id].status = "submitted"
    /\ ver' = [ver EXCEPT ![v] = Verification("loaded", rows[id], "requested")]
    /\ UNCHANGED <<rows, nextId, req, node, outside, contractVars>>

\* get_payment_by_id without a status, and the transaction_hash must be there.
LoadPayment(v, id) ==
    /\ ver[v].pc = "idle"
    /\ rows[id] # NoRow
    /\ rows[id].hash # NoHash
    /\ ver' = [ver EXCEPT ![v] = Verification("loaded", rows[id], "requested")]
    /\ UNCHANGED <<rows, nextId, req, node, outside, contractVars>>

ReceiptsOf(tx) == {rc \in receipts : rc.tx = tx}

\* _validate_payment_processed_event on the log of the receipt.
ValidatePaymentProcessedEvent(row, event) ==
    /\ event.paymentId \in ExpectedPaymentIds(row)
    /\ event.token = Token
    /\ event.from = row.from
    /\ event.to = row.to
    /\ event.amount = row.amount

\* Variant: a receipt is taken for a payment.
VerdictTrustsReceipt(row, receipt) == "paid"

Verdict(row, receipt) ==
    IF receipt.status = 0 THEN "tx_failed"
    ELSE IF \E event \in receipt.logs : ValidatePaymentProcessedEvent(row, event)
         THEN "paid"
    ELSE "verify_failed"

Decide(v, status) ==
    ver' = [ver EXCEPT ![v] = Verification("decided", ver[v].row, status)]

\* The receipt is found and decides the status ...
GetReceipt(v) ==
    /\ ver[v].pc = "loaded"
    /\ \E rc \in ReceiptsOf(ver[v].row.hash) : Decide(v, Verdict(ver[v].row, rc))
    /\ UNCHANGED <<rows, nextId, req, node, outside, contractVars>>

\* Variant: no receipt counts as a failed transaction.
TransactionNotFoundFails(v) ==
    /\ ver[v].pc = "loaded"
    /\ ReceiptsOf(ver[v].row.hash) = {} \/ "lag" \in Faults
    /\ Decide(v, "tx_failed")
    /\ UNCHANGED <<rows, nextId, req, node, outside, contractVars>>

\* ... or the node has none, or not yet: the status becomes CONFIRMING, whatever
\* it was.
TransactionNotFound(v) ==
    /\ ver[v].pc = "loaded"
    /\ ReceiptsOf(ver[v].row.hash) = {} \/ "lag" \in Faults
    /\ Decide(v, "confirming")
    /\ UNCHANGED <<rows, nextId, req, node, outside, contractVars>>

\* update_payment_request and the commit.  SQLAlchemy writes the attributes that
\* differ from what it loaded: an unchanged status is not written again.
SaveStatus(v) ==
    LET row == ver[v].row
    IN  /\ ver[v].pc = "decided"
        /\ rows' = IF ver[v].verdict = row.status THEN rows
                   ELSE [rows EXCEPT ![row.id].status = ver[v].verdict]
        /\ ver' = [ver EXCEPT ![v] = VerifierIdle]
        /\ UNCHANGED <<nextId, req, node, outside, contractVars>>

RollbackVerification(v) ==
    /\ "rpc" \in Faults
    /\ ver[v].pc # "idle"
    /\ ver' = [ver EXCEPT ![v] = VerifierIdle]
    /\ UNCHANGED <<rows, nextId, req, node, outside, contractVars>>

VerifierStep(v) ==
    \/ \E id \in Ids : LoadPayment(v, id)
    \/ GetReceipt(v) \/ TransactionNotFound(v) \/ SaveStatus(v)
    \/ RollbackVerification(v)

-----------------------------------------------------------------------------
(* The node and what happens outside the API. *)

\* The next block takes the pending transaction: its call settles the payment or
\* reverts, and either uses up the nonce.
Mine(tx) ==
    /\ tx \in pool
    /\ tx.nonce = accountNonce
    /\ \/ /\ P!Pay(Operator, tx.paymentId, Token, tx.from, tx.to, tx.amount)
          /\ receipts' = receipts \union {[tx |-> tx, status |-> 1, logs |-> {EventOf(tx)}]}
       \/ /\ ~PaySucceeds(tx)
          /\ UNCHANGED contractVars
          /\ receipts' = receipts \union {[tx |-> tx, status |-> 0, logs |-> {}]}
    /\ pool' = pool \ {tx}
    /\ accountNonce' = accountNonce + 1
    /\ UNCHANGED <<rows, nextId, req, ver, outside>>

Evict(tx) ==
    /\ "evict" \in Faults
    /\ tx \in pool
    /\ pool' = pool \ {tx}
    /\ UNCHANGED <<rows, nextId, req, ver, accountNonce, receipts, outside, contractVars>>

OutsideBudget ==
    /\ outside < MaxOutside
    /\ outside' = outside + 1
    /\ UNCHANGED <<rows, nextId, req, ver, receipts>>

\* The permit endpoint sends its transaction from the same operator account and
\* thereby takes a nonce, and the place of a pending payment if it replaces it.
PermitMined(holder, value) ==
    /\ OutsideBudget
    /\ pool = {} \/ "replace" \in Faults
    /\ pool' = {}
    /\ accountNonce' = accountNonce + 1
    /\ P!Approve(Token, holder, value)

\* The contract's owner and the holders of the token act on the chain.
ChainStep ==
    /\ OutsideBudget
    /\ P!OwnerStep \/ P!HolderStep
    /\ UNCHANGED <<pool, accountNonce>>

NodeStep ==
    \/ \E tx \in pool : Mine(tx) \/ Evict(tx)
    \/ \E a \in Accounts, value \in Amounts : PermitMined(a, value)
    \/ ChainStep

Next ==
    \/ \E r \in Requests : RequestStep(r)
    \/ \E v \in Verifiers : VerifierStep(v)
    \/ NodeStep

Spec == Init /\ [][Next]_vars

\* The scheduling the code's deployment gives: blocks keep coming, a worker that
\* took up a call ends it, and somebody keeps asking for a payment that is not
\* yet reported paid or failed.
Final == {"paid", "tx_failed"}

Fairness ==
    /\ WF_vars(\E tx \in pool : Mine(tx))
    /\ \A r \in Requests : WF_vars(req[r].pc # "idle" /\ RequestStep(r))
    /\ \A v \in Verifiers : WF_vars(ver[v].pc # "idle" /\ VerifierStep(v))
    /\ \A id \in Ids : SF_vars(\E v \in Verifiers :
                            LoadPayment(v, id) /\ rows[id].status \notin Final)

FairSpec == Spec /\ Fairness

-----------------------------------------------------------------------------
(* Properties *)

\* Every variable has the shape its table, session or node gives it.
TypeOK ==
    /\ rows \in [Ids -> PaymentRow \union {NoRow}]
    /\ nextId \in 1..(MaxRows + 1)
    /\ req \in [Requests ->
                 [pc : {"idle", "created", "loaded", "funded", "nonced", "estimated", "sent"},
                  row : PaymentRow \union {NoRow}, nonce : Nat]]
    /\ ver \in [Verifiers ->
                 [pc : {"idle", "loaded", "decided"},
                  row : PaymentRow \union {NoRow}, verdict : Statuses]]
    /\ pool \subseteq Transactions
    /\ accountNonce \in Nat
    /\ receipts \subseteq [tx : Transactions, status : {0, 1},
                           logs : SUBSET P!PaymentProcessedEvents]
    /\ outside \in 0..MaxOutside
    /\ P!TypeOK

Committed == {i \in Ids : rows[i] # NoRow}

\* The event that settles the payment of a row, and whether the chain has it.
SettlementOf(row) ==
    P!PaymentProcessed(BuildPaymentId(row), Token, row.from, row.to, row.amount, Operator)

Settled(row) == \E k \in DOMAIN events : events[k] = SettlementOf(row)

\* A row is PAID only if the contract moved exactly its amount from its user's
\* to its store's wallet under its own payment id, whatever verifications ran
\* concurrently and whatever the node had forgotten or not yet seen.
PaidMeansSettled ==
    \A i \in Committed : rows[i].status = "paid" => Settled(rows[i])

\* A row is TX_FAILED only if the contract never took its payment id: no other
\* transaction settles a payment that was reported as failed.
TxFailedMeansNotSettled ==
    \A i \in Committed :
        rows[i].status = "tx_failed" => BuildPaymentId(rows[i]) \notin processedPayments

\* The payment id hashed before the broadcast and the one hashed again by verify
\* are the same although expires_at passes through a DATETIME column in between:
\* a payment that was settled is never reported as VERIFY_FAILED.
NeverVerifyFailed ==
    \A i \in Committed : rows[i].status # "verify_failed"

-----------------------------------------------------------------------------
(* Why PaidMeansSettled and NeverVerifyFailed hold: an inductive invariant. *)

\* What the transaction of a row pays is what the row says.
Pays(tx, row) ==
    /\ tx \in Transactions
    /\ tx.paymentId = BuildPaymentId(row)
    /\ tx.from = row.from /\ tx.to = row.to /\ tx.amount = row.amount

\* A committed row sits at its own id, as a stored row, with its transaction.
RowsAreSubmitted ==
    \A i \in Committed :
        /\ rows[i].id = i /\ i < nextId
        /\ rows[i].expires \in StoredExpiries
        /\ Pays(rows[i].hash, rows[i])

\* A request holds an id of its own, which no committed row has; after the
\* reload its row is as the table stores it, and it has reported nothing yet.
RequestsOwnTheirIds ==
    \A r \in Requests : req[r].pc # "idle" =>
        /\ req[r].row \in PaymentRow
        /\ req[r].row.status \in {"requested", "submitted"}
        /\ req[r].row.id < nextId
        /\ rows[req[r].row.id] = NoRow
        /\ \A q \in Requests \ {r} :
                req[q].pc # "idle" => req[q].row.id # req[r].row.id
        /\ req[r].pc # "created" => req[r].row.expires \in StoredExpiries
        /\ req[r].pc = "sent" => Pays(req[r].row.hash, req[r].row)

\* A receipt has the event of its transaction, which the contract emitted, or
\* none if the call reverted.
ReceiptsAreTrue ==
    \A rc \in receipts :
        \/ rc.status = 0 /\ rc.logs = {}
        \/ /\ rc.status = 1 /\ rc.logs = {EventOf(rc.tx)}
           /\ \E k \in DOMAIN events : events[k] = EventOf(rc.tx)

\* A verification holds the committed row but for its status, and it has decided
\* "paid" only on a settled payment and never "verify_failed".
VerifiersAreRight ==
    \A v \in Verifiers : ver[v].pc # "idle" =>
        LET row == ver[v].row
        IN  /\ row \in PaymentRow
            /\ rows[row.id] # NoRow
            /\ row = [rows[row.id] EXCEPT !.status = row.status]
            /\ row.status # "verify_failed"
            /\ row.status = "paid" => Settled(row)
            /\ ver[v].pc = "decided" =>
                    /\ ver[v].verdict # "verify_failed"
                    /\ ver[v].verdict = "paid" => Settled(row)

SettlementInv ==
    /\ TypeOK
    /\ RowsAreSubmitted
    /\ RequestsOwnTheirIds
    /\ ReceiptsAreTrue
    /\ VerifiersAreRight
    /\ PaidMeansSettled
    /\ NeverVerifyFailed

-----------------------------------------------------------------------------
(* The transactions the operator account sends. *)

\* The transactions the operator account has broadcast and that may take effect.
Broadcast == pool \union {rc.tx : rc \in receipts}

\* No payment is broadcast twice, not by a request that runs again after a crash
\* either: a request id stands behind at most one transaction, since ids of
\* rolled back requests are not given out again.
OneBroadcastPerRequest ==
    \A tx1, tx2 \in Broadcast : tx1.paymentId.id = tx2.paymentId.id => tx1 = tx2

-----------------------------------------------------------------------------
(* Why OneBroadcastPerRequest, TxFailedMeansNotSettled, OutcomeNeverFlips and *)
(* the two refinements below hold: what the first invariant lacks.            *)

\* One transaction waits at most, with the next nonce; what a request has read
\* may be stale but is never ahead; a mined transaction has a used-up nonce and
\* one receipt.
AccountIsSerial ==
    /\ \A tx1, tx2 \in pool : tx1.nonce = accountNonce /\ tx1 = tx2
    /\ \A r \in Requests :
            req[r].pc \in {"nonced", "estimated"} => req[r].nonce <= accountNonce
    /\ \A rc \in receipts : rc.tx.nonce < accountNonce
    /\ \A rc1, rc2 \in receipts : rc1.tx = rc2.tx => rc1 = rc2

\* An id that was broadcast has been given out, and a request that has yet to
\* send holds another one; so no second transaction can have it.
BroadcastsAreOnce ==
    /\ OneBroadcastPerRequest
    /\ \A tx \in Broadcast :
            /\ tx.paymentId.id < nextId
            /\ \A r \in Requests :
                    req[r].pc \notin {"idle", "sent"} => req[r].row.id # tx.paymentId.id

\* The receipt that says that the transaction of a row had no effect.
Reverted(row) == \E rc \in receipts : rc.tx = row.hash /\ rc.status = 0

\* An event stems from a transaction with a receipt; a failure that is reported,
\* or about to be, from one that was reverted.
OutcomesAreMined ==
    /\ \A k \in DOMAIN events :
            \E rc \in receipts : rc.status = 1 /\ events[k] = EventOf(rc.tx)
    /\ \A i \in Committed : rows[i].status = "tx_failed" => Reverted(rows[i])
    /\ \A v \in Verifiers : ver[v].pc = "decided" =>
            /\ ver[v].verdict \in Final \union {"confirming"}
            /\ ver[v].verdict = "tx_failed" => Reverted(ver[v].row)

PromiseInv ==
    /\ SettlementInv
    /\ P!OneEventPerProcessedPayment
    /\ AccountIsSerial
    /\ BroadcastsAreOnce
    /\ OutcomesAreMined

-----------------------------------------------------------------------------
(* Orphans, outcomes over time, liveness, refinement. *)

\* Money only moves for a payment the database knows, or will know when the
\* request that has just broadcast it commits.
NoOrphanTransaction ==
    \A tx \in Broadcast :
        \/ \E i \in Committed : rows[i].hash = tx
        \/ \E r \in Requests : req[r].pc = "sent" /\ req[r].row.hash = tx

\* Verification never exchanges one outcome for the other and never touches what
\* a committed row says of its payment: a PAID or TX_FAILED row stays as it is
\* or is reopened as CONFIRMING by a node that does not know the receipt.
OutcomeNeverFlips ==
    [][\A i \in Committed :
        /\ rows'[i] = [rows[i] EXCEPT !.status = rows'[i].status]
        /\ rows[i].status \in Final =>
                rows'[i].status \in {rows[i].status, "confirming"}]_vars

\* Every payment whose submission was committed is in the end reported paid or
\* failed for good: blocks keep coming, clients keep asking, and stale answers of
\* concurrent verifications are overwritten.  What stays unresolved is exactly
\* what the node dropped, a row whose transaction neither waits nor was mined.
ResolvedOrDropped ==
    \A i \in Ids : <>[](\/ rows[i] = NoRow
                       \/ rows[i].status \in Final
                       \/ rows[i].hash \notin Broadcast)

\* A request ends, with a commit or a rollback, whatever the others do.
EveryRequestEnds ==
    \A r \in Requests : req[r].pc # "idle" ~> req[r].pc = "idle"

\* The API keeps the promise of SettlementReport.
S == INSTANCE SettlementReport
        WITH Payments <- Ids,
             report <- [i \in Ids |->
                IF rows[i] = NoRow THEN "none"
                ELSE IF rows[i].status = "paid" THEN "paid"
                ELSE IF rows[i].status = "tx_failed" THEN "failed"
                ELSE "pending"],
             settled <- {i \in Ids : \E k \in DOMAIN events : events[k].paymentId.id = i}

KeepsItsPromise == S!Spec

\* However many requests run at a time, replace each other or are lost, the
\* operator account serialises their transactions: see OperatorAccount.
A == INSTANCE OperatorAccount
        WITH nonce <- accountNonce, waiting <- pool, mined <- {rc.tx : rc \in receipts}

UsesTheAccount == A!Spec
=============================================================================
