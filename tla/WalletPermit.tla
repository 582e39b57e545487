---------------------------- MODULE WalletPermit ----------------------------
(***************************************************************************)
(* POST /user/{user_id}/wallet/{wallet_id}/permit: the server sends the    *)
(* EIP-2612 permit its user has signed to the JPYC token, waits for the    *)
(* receipt, reads the allowance back and only then marks the wallet as     *)
(* permitted and records the permit, in one MySQL transaction.             *)
(*                                                                         *)
(* Every remote call and the commit is a step.  The transaction is sent    *)
(* from the operator account that the payments are sent from, and in the   *)
(* meantime the wallet may be deleted, the holder may approve, permit or   *)
(* revoke on the chain, a payment may use the allowance up, and the secret *)
(* may name another PaymentProcessor, deployed anew.                       *)
(*                                                                         *)
(* Definitions marked "Variant" are what a plausible bug would make of the  *)
(* definition that follows; they are kept to show which property notices.   *)
(***************************************************************************)
EXTENDS Integers

CONSTANTS
    Wallets,        \* ids of registered wallets
    Address,        \* the address of each
    Holders,        \* addresses on the chain
    Spenders, InitialSpender,   \* deployments of the PaymentProcessor, the first
    Values,         \* allowances a request may ask for
    Deadlines,      \* of signatures, in ticks
    SignedNonces, SignedSpenders,   \* the nonces(holder), spenders of signatures
    Fees,           \* what a transaction may offer for gas
    Workers,        \* the requests that run at a time
    Faults,         \* "timeout": no receipt in time; "lost": the worker dies
    MaxTime, MaxNonce, MaxOutside,   \* bounds: clock, nonces, steps of others
    None

ASSUME PermitAssumption ==
    /\ InitialSpender \in Spenders /\ SignedSpenders \subseteq Spenders
    /\ Address \in [Wallets -> Holders]
    /\ Values \subseteq Nat \ {0}
    /\ Deadlines \subseteq Nat
    /\ SignedNonces \subseteq Nat
    /\ Fees \subseteq Nat
    /\ {MaxTime, MaxNonce, MaxOutside} \subseteq Nat
    /\ Faults \subseteq {"timeout", "lost"}

VARIABLES
    spender,       \* payment_processor_address of the secret
    deleted,       \* the wallets with a deleted_at
    permitted,     \* the wallets with is_permitted
    permits,       \* the rows of wallet_permits
    work,          \* per worker: the request and how far it is
    pool,          \* pending transactions of the operator account
    accountNonce,  \* nonce of the operator account in the latest block
    receipts,      \* receipts of its mined permit transactions
    allowance,     \* per holder and spender
    permitNonce,   \* per holder: the token's nonces(holder)
    now, outside

tables == <<deleted, permitted, permits>>
token == <<allowance, permitNonce>>
vars == <<tables, work, pool, accountNonce, receipts, token, now, outside, spender>>

Nonces == 0..MaxNonce

\* What a holder signs; with any field of the call changed the token recovers
\* some other signer.
Signatures ==
    [signer : Holders, spender : SignedSpenders, value : Values, nonce : SignedNonces,
     deadline : Deadlines]

\* permit(holder, spender, value, ...) sent by the operator account.
Permit(nonce, holder, to, signature, fee) ==
    [kind |-> "permit", nonce |-> nonce, holder |-> holder, spender |-> to,
     value |-> signature.value, signature |-> signature, fee |-> fee]

\* pay(...) of the payment endpoint, as far as the account and the allowance go.
Payment(nonce, holder, to, value, fee) ==
    [kind |-> "pay", nonce |-> nonce, holder |-> holder, spender |-> to,
     value |-> value, signature |-> None, fee |-> fee]

Init ==
    /\ spender = InitialSpender
    /\ deleted = {} /\ permitted = {} /\ permits = {}
    /\ work = [w \in Workers |-> None]
    /\ pool = {} /\ accountNonce = 0 /\ receipts = {}
    /\ allowance = [h \in Holders |-> [s \in Spenders |-> 0]]
    /\ permitNonce = [h \in Holders |-> 0]
    /\ now = 0 /\ outside = 0

-----------------------------------------------------------------------------
(* update_wallet_permit_state *)

Request(pc, wallet, to, signature, nonce, tx) ==
    [pc |-> pc, wallet |-> wallet, spender |-> to, signature |-> signature,
     nonce |-> nonce, tx |-> tx]

Holder(w) == Address[work[w].wallet]
Allowance(w) == allowance[Holder(w)][work[w].spender]

At(w, pc) == work[w] # None /\ work[w].pc = pc
Finish(w) == work' = [work EXCEPT ![w] = None]
Advance(w, from, to) == At(w, from) /\ work' = [work EXCEPT ![w].pc = to]

\* The token takes a signature of the holder for that spender and his next nonce,
\* in time.
Valid(holder, to, signature) ==
    /\ signature.signer = holder
    /\ signature.spender = to
    /\ signature.nonce = permitNonce[holder]
    /\ now <= signature.deadline

\* get_wallet_by_id: any wallet that is not deleted, whoever asks; then the secret
\* is read, once for all of the request.
LoadWallet(w, wallet, signature) ==
    /\ work[w] = None
    /\ wallet \notin deleted
    /\ work' = [work EXCEPT ![w] = Request("loaded", wallet, spender, signature, 0, None)]
    /\ UNCHANGED <<tables, pool, accountNonce, receipts, token, now, outside, spender>>

\* Variant: get_transaction_count with the pending transactions.
ReadNoncePending(w) ==
    /\ At(w, "loaded")
    /\ work' = [work EXCEPT ![w].pc = "nonced",
                            ![w].nonce = IF pool = {} THEN accountNonce ELSE accountNonce + 1]
    /\ UNCHANGED <<tables, pool, accountNonce, receipts, token, now, outside, spender>>

\* get_transaction_count of the latest block.
ReadNonce(w) ==
    /\ At(w, "loaded")
    /\ work' = [work EXCEPT ![w].pc = "nonced", ![w].nonce = accountNonce]
    /\ UNCHANGED <<tables, pool, accountNonce, receipts, token, now, outside, spender>>

\* build_transaction simulates the permit to estimate its gas.
EstimateGas(w) ==
    /\ Advance(w, "nonced", "estimated")
    /\ Valid(Holder(w), work[w].spender, work[w].signature)
    /\ UNCHANGED <<tables, pool, accountNonce, receipts, token, now, outside, spender>>

\* The node takes a transaction of a nonce that is not used yet, in the place of
\* a pending one only if it offers more.
Submit(tx) ==
    LET same == {p \in pool : p.nonce = tx.nonce}
    IN  /\ tx.nonce >= accountNonce
        /\ \A p \in same : p.fee < tx.fee
        /\ pool' = (pool \ same) \union {tx}

SendTransaction(w, fee) ==
    LET tx == Permit(work[w].nonce, Holder(w), work[w].spender, work[w].signature, fee)
    IN  /\ At(w, "estimated")
        /\ Submit(tx)
        /\ work' = [work EXCEPT ![w].pc = "sent", ![w].tx = tx]
        /\ UNCHANGED <<tables, accountNonce, receipts, token, now, outside, spender>>

\* Variant: the receipt's status is not looked at.
GetReceiptAnyStatus(w) ==
    /\ Advance(w, "sent", "mined")
    /\ \E rc \in receipts : rc.tx = work[w].tx
    /\ UNCHANGED <<tables, pool, accountNonce, receipts, token, now, outside, spender>>

\* wait_for_transaction_receipt returns and the permit has succeeded.
GetReceipt(w) ==
    /\ Advance(w, "sent", "mined")
    /\ \E rc \in receipts : rc.tx = work[w].tx /\ rc.status = 1
    /\ UNCHANGED <<tables, pool, accountNonce, receipts, token, now, outside, spender>>

\* Variant: nothing is sent when the allowance is there already.
CheckAllowanceFirst(w) ==
    /\ Advance(w, "loaded", "allowed") \/ Advance(w, "mined", "allowed")
    /\ Allowance(w) >= work[w].signature.value
    /\ UNCHANGED <<tables, pool, accountNonce, receipts, token, now, outside, spender>>

\* The allowance is read again, whatever has become of it since.
CheckAllowance(w) ==
    /\ Advance(w, "mined", "allowed")
    /\ Allowance(w) >= work[w].signature.value
    /\ UNCHANGED <<tables, pool, accountNonce, receipts, token, now, outside, spender>>

Row(request) ==
    [wallet |-> request.wallet, spender |-> request.spender,
     value |-> request.signature.value, tx |-> request.tx]

\* Variant: the secret is read again when the permit is recorded.
CommitPermitRereads(w) ==
    /\ At(w, "allowed")
    /\ permits' = permits \union {[Row(work[w]) EXCEPT !.spender = spender]}
    /\ permitted' = permitted \union {work[w].wallet}
    /\ Finish(w)
    /\ UNCHANGED <<deleted, pool, accountNonce, receipts, token, now, outside, spender>>

\* Variant: the whole row is written back as it was loaded.
CommitPermitWholeRow(w) ==
    /\ At(w, "allowed")
    /\ permits' = permits \union {Row(work[w])}
    /\ permitted' = permitted \union {work[w].wallet}
    /\ deleted' = deleted \ {work[w].wallet}
    /\ Finish(w)
    /\ UNCHANGED <<pool, accountNonce, receipts, token, now, outside, spender>>

\* The permit is inserted and is_permitted, the one column that changed, written.
CommitPermit(w) ==
    /\ At(w, "allowed")
    /\ permits' = permits \union {Row(work[w])}
    /\ permitted' = permitted \union {work[w].wallet}
    /\ Finish(w)
    /\ UNCHANGED <<deleted, pool, accountNonce, receipts, token, now, outside, spender>>

\* An exception: the estimate reverts, the node refuses, a call fails; or the
\* permit has reverted; or the allowance is too small.
Rollback(w) ==
    /\ work[w] # None
    /\ \/ work[w].pc \in {"loaded", "nonced", "estimated"}
       \/ /\ work[w].pc = "sent"
          /\ \E rc \in receipts : rc.tx = work[w].tx /\ rc.status = 0
       \/ /\ work[w].pc = "mined"
          /\ Allowance(w) < work[w].signature.value
    /\ Finish(w)
    /\ UNCHANGED <<tables, pool, accountNonce, receipts, token, now, outside, spender>>

\* Variant: the request waits for ever.
TimeoutNever(w) ==
    /\ At(w, "sent")
    /\ \E rc \in receipts : rc.tx = work[w].tx
    /\ Finish(w)
    /\ UNCHANGED <<tables, pool, accountNonce, receipts, token, now, outside, spender>>

\* wait_for_transaction_receipt gives up after its 120 seconds.
Timeout(w) ==
    /\ "timeout" \in Faults
    /\ At(w, "sent")
    /\ \A rc \in receipts : rc.tx # work[w].tx
    /\ Finish(w)
    /\ UNCHANGED <<tables, pool, accountNonce, receipts, token, now, outside, spender>>

\* The worker dies after the broadcast, or its commit fails.
LosePermit(w) ==
    /\ "lost" \in Faults
    /\ work[w] # None
    /\ work[w].pc \in {"sent", "mined", "allowed"}
    /\ Finish(w)
    /\ UNCHANGED <<tables, pool, accountNonce, receipts, token, now, outside, spender>>

\* What the code of a worker does next, the death of the worker left aside.
HandlerStep(w) ==
    \/ ReadNonce(w) \/ EstimateGas(w)
    \/ \E fee \in Fees : SendTransaction(w, fee)
    \/ GetReceipt(w) \/ CheckAllowance(w) \/ CommitPermit(w)
    \/ Rollback(w) \/ Timeout(w)

WorkerStep(w) ==
    \/ \E wallet \in Wallets, signature \in Signatures : LoadWallet(w, wallet, signature)
    \/ HandlerStep(w) \/ LosePermit(w)

-----------------------------------------------------------------------------
(* The other endpoints, the token and the node. *)

\* delete_wallet_by_wallet_id.
DeleteWallet(wallet) ==
    /\ deleted' = deleted \union {wallet}
    /\ UNCHANGED <<permitted, permits, work, pool, accountNonce, receipts,
                   token, now, outside, spender>>

OutsideBudget == outside < MaxOutside /\ outside' = outside + 1

\* The secret names another deployment.
Redeploy(to) ==
    /\ OutsideBudget
    /\ spender' = to
    /\ UNCHANGED <<tables, work, pool, accountNonce, receipts, token, now>>

\* The payment endpoint sends from the same account.
SendPayment(holder, value, fee) ==
    /\ OutsideBudget
    /\ Submit(Payment(accountNonce, holder, spender, value, fee))
    /\ UNCHANGED <<tables, work, accountNonce, receipts, token, now, spender>>

MinePermit(tx) ==
    /\ tx.kind = "permit"
    /\ IF Valid(tx.holder, tx.spender, tx.signature)
       THEN /\ allowance' = [allowance EXCEPT ![tx.holder][tx.spender] = tx.value]
            /\ permitNonce' = [permitNonce EXCEPT ![tx.holder] = @ + 1]
            /\ receipts' = receipts \union {[tx |-> tx, status |-> 1]}
       ELSE /\ UNCHANGED token
            /\ receipts' = receipts \union {[tx |-> tx, status |-> 0]}

MinePayment(tx) ==
    /\ tx.kind = "pay"
    /\ allowance' = [allowance EXCEPT ![tx.holder][tx.spender] =
            IF @ >= tx.value THEN @ - tx.value ELSE @]
    /\ UNCHANGED <<permitNonce, receipts>>

\* A block takes the pending transaction that is next.
Mine(tx) ==
    /\ tx \in pool
    /\ tx.nonce = accountNonce
    /\ accountNonce < MaxNonce
    /\ MinePermit(tx) \/ MinePayment(tx)
    /\ pool' = pool \ {tx}
    /\ accountNonce' = accountNonce + 1
    /\ UNCHANGED <<tables, work, now, outside, spender>>

\* The holder approves, or revokes, by himself ...
Approve(holder, to, value) ==
    /\ OutsideBudget
    /\ allowance' = [allowance EXCEPT ![holder][to] = value]
    /\ UNCHANGED <<tables, work, pool, accountNonce, receipts, permitNonce, now, spender>>

\* ... or somebody else brings a permit of his to the token.
PermitElsewhere(holder, to, value) ==
    /\ OutsideBudget
    /\ allowance' = [allowance EXCEPT ![holder][to] = value]
    /\ permitNonce' = [permitNonce EXCEPT ![holder] = @ + 1]
    /\ UNCHANGED <<tables, work, pool, accountNonce, receipts, now, spender>>

Tick ==
    /\ now < MaxTime
    /\ now' = now + 1
    /\ UNCHANGED <<tables, work, pool, accountNonce, receipts, token, outside, spender>>

NodeStep ==
    \/ \E tx \in pool : Mine(tx)
    \/ \E h \in Holders, value \in Values :
        \/ \E fee \in Fees : SendPayment(h, value, fee)
        \/ \E to \in Spenders :
            Approve(h, to, value) \/ Approve(h, to, 0) \/ PermitElsewhere(h, to, value)
    \/ \E to \in Spenders \ {spender} : Redeploy(to)

Next ==
    \/ \E w \in Workers : WorkerStep(w)
    \/ \E wallet \in Wallets : DeleteWallet(wallet)
    \/ NodeStep
    \/ Tick

Spec == Init /\ [][Next]_vars

\* A worker that took up a request goes on with it, unless it dies.
FairSpec == Spec /\ \A w \in Workers : WF_vars(HandlerStep(w))

-----------------------------------------------------------------------------
(* Properties *)

Transactions ==
    [kind : {"permit", "pay"}, nonce : Nonces, holder : Holders,
     spender : Spenders, value : Values, signature : Signatures \union {None}, fee : Fees]

\* The tables, the requests and the node have the shapes of the models.
TypeOK ==
    /\ spender \in Spenders
    /\ deleted \subseteq Wallets /\ permitted \subseteq Wallets
    /\ permits \subseteq [wallet : Wallets, spender : Spenders, value : Values,
                    tx : Transactions]
    /\ work \in [Workers ->
            [pc : {"loaded", "nonced", "estimated", "sent", "mined", "allowed"},
             wallet : Wallets, spender : Spenders, signature : Signatures, nonce : Nonces,
             tx : Transactions \union {None}] \union {None}]
    /\ pool \subseteq Transactions
    /\ accountNonce \in Nonces
    /\ receipts \subseteq [tx : Transactions, status : {0, 1}]
    /\ allowance \in [Holders -> [Spenders -> Nat]] /\ permitNonce \in [Holders -> Nat]
    /\ now \in 0..MaxTime /\ outside \in 0..MaxOutside

\* The receipts of the permits that took effect.
Granted == {rc \in receipts : rc.status = 1}

\* A wallet is permitted only after its own address granted the allowance in a
\* transaction this server sent, and wallet_permits has that very transaction,
\* spender and value, even if the secret has named another spender since: an
\* older allowance of the address never vouches for a permit that reverted,
\* whatever else happened to the account and to the allowance.
PermittedIsProven ==
    \A wallet \in permitted :
        \E row \in permits :
            /\ row.wallet = wallet
            /\ \E rc \in Granted :
                /\ rc.tx = row.tx
                /\ rc.tx.holder = Address[wallet]
                /\ rc.tx.spender = row.spender
                /\ rc.tx.value = row.value

\* A wallet that is deleted while a permit of it is under way stays deleted.
DeletionLasts == [][deleted \subseteq deleted']_vars

\* Permits and payments share the operator account without telling each other,
\* and its nonce serialises them all the same: see OperatorAccount.
A == INSTANCE OperatorAccount
        WITH nonce <- accountNonce, waiting <- pool, mined <- {rc.tx : rc \in receipts}

UsesTheAccount == A!Spec

\* A request ends although its transaction may be replaced by a payment's and
\* never be mined.
EveryRequestEnds == \A w \in Workers : work[w] # None ~> work[w] = None
=============================================================================
