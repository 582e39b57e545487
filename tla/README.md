# Verification of teraid-pay-api

teraid-pay-api lets a store charge a user in JPYC, an ERC-20 token: users and stores register
wallets, a user allows the `PaymentProcessor` contract to draw from his wallet (an EIP-2612 permit),
and the API sends `pay` transactions from an operator account, for a user named by id or recognised by
his face. This directory holds TLA+ specifications of it, their TLC models, and proofs checked by TLAPS.

    tlc -workers 2 -config MCPayment.cfg MCPayment      # a run; the table below lists all of them
    tlapm PaymentProof.tla                              # a proof

## 1. Inventory

Paths are below `src/`. "Session" is one HTTP request: `middlewares/transaction.py` opens a database
session around a controller's handler, commits when it returns and rolls back when it raises. Handlers
run concurrently, in threads and workers, without any lock of their own.

| Component | State | Operations | Interacts with |
|---|---|---|---|
| PaymentProcessor contract (`contract_deploy/contracts/PaymentProcessor.sol`) | owner, operators, allowedTokens, processedPayments, event log | constructor, transferOwnership, setOperator, setToken, pay | the ERC-20 token (`transferFrom`), called by the operator account |
| Payment request and execution (`app/services/payment_service.py`, `create_payment_request`, `execute_payment`) | table payment_requests | insert, reload, balance, nonce, gas estimate, broadcast, save hash | wallets tables (read), node, contract |
| Payment verification (`verify_transaction_hash`) | status of payment_requests | load, receipt, event check, save status | node (receipts), contract's events |
| Payment from a face (`get_user_id_from_face_image`) | none of its own | nearest face, then a payment | face_embeddings, users, payment |
| Wallet registration of users and stores (`user_service.py`, `store_service.py`) | nonces, wallets and their link tables | issue a nonce, verify the signature and create a wallet, delete a wallet | both endpoints share nonces and wallets |
| Wallet permit (`update_wallet_permit_state`) | wallets.is_permitted, wallet_permits | send permit, wait for the receipt, read the allowance, save | the operator account of the payments, the token, wallet deletion |
| Face registration (`face_service.py`) | face_embeddings (PostgreSQL), pictures in S3 | register, update, delete | users (MySQL), S3, face detection |
| Face detection and embedding (`helpers/face_helper.py`, `ml/`) | none | detect, embed | - |
| Database transactions (`middlewares/transaction.py`, `core/database/`) | a cached object, engine and pool per database; a session and a connection per request | initialize, open, connect, commit, rollback, close | every handler; MySQL and PostgreSQL, two of them for faces |
| Token and blockchain node (outside the repository) | balances, allowances, nonces, pool, receipts | - | - |
| Endpoints, request and response wrappers, configuration, AWS clients, logging, tools | none | routing, formatting, reading settings | - |

What is hard here, and what makes each component correct:

* **Payment.** The chain and the database change independently of each other, and nothing is atomic over
  both: the broadcast cannot be undone by a rollback. Requests read the account's nonce before they
  use it; the node may replace, drop or not yet know a transaction; verifications run concurrently.
  Correct means: a row says PAID only if exactly its amount moved under its own payment id, TX_FAILED
  only if it never did, no payment is broadcast twice, outcomes are not exchanged, every submitted
  payment is resolved.
* **Contract.** The mark and the transfer succeed or fail together; a payment id settles once.
* **Wallet registration.** Check-then-act on snapshots (REPEATABLE READ), no unique keys, clocks without
  zones. Correct means: a wallet belongs to whoever signed, a nonce serves once and for ten minutes,
  one wallet per principal and chain, one principal per address.
* **Wallet permit.** A remote wait of up to 120 s inside a database transaction, on an account that
  payments use too. Correct means: `is_permitted` rests on a permit of that address that took effect.
* **Database transactions.** Handlers run in threads, and the first ones initialize the database objects
  together. A session holds a connection of a bounded pool while its handler waits for the chain; the face
  endpoints need a connection of each database, not all in the same order; there is no commit over both. Correct
  means: an answer tells what was committed, every connection comes back, every request is answered.
* **Faces.** S3 is written before the commit; the similarity search sees committed rows only. Correct
  means: one face per user, no face of two users, the stored picture is the one of the embedding.

`PROJECT.json` lists the hazards at their lines with the properties that cover them.

## 2. Modules

| Module | What it is | EXTENDS / INSTANCE |
|---|---|---|
| `PaymentProcessor` | the contract and the token, one action per function | - |
| `PaymentProcessorProof` | its theorems | PaymentProcessor, TLAPS |
| `SettlementReport` | abstract: what a client may conclude from reported outcomes | - |
| `Payment` | the payment API of a chain, with node and contract | `P == INSTANCE PaymentProcessor`, `S == INSTANCE SettlementReport`, `A == INSTANCE OperatorAccount` |
| `PaymentProof` | its theorems about the money: rows, receipts and events | Payment, TLAPS |
| `PaymentPromiseProof` | its theorems about the account and the clients, and the refinements | PaymentProof |
| `OperatorAccount` | abstract: how the nonce of the shared account serialises what is sent from it | - |
| `WalletRegistration` | nonces, signatures, wallets of users and stores | - |
| `WalletRegistrationProof` | its theorems | WalletRegistration, TLAPS |
| `WalletUse` | the permits and payment requests that read and write the same tables, composed with registration | WalletRegistration |
| `WalletUseProof` | its theorems, on top of those of registration | WalletUse, WalletRegistrationProof |
| `WalletPermit` | permits of registered wallets, on the account shared with payments | `A == INSTANCE OperatorAccount` |
| `WalletPermitProof` | its theorems | WalletPermit, TLAPS |
| `Transactions` | the wrappers around every handler: database objects, engines, pools, sessions, commits | - |
| `TransactionsProof` | its theorems | Transactions, TLAPS |
| `FaceRegistration` | faces, pictures, and the lookup of a payment with a face | - |
| `FaceRegistrationProof` | its theorems | FaceRegistration, TLAPS |
| `MC...` | instances for TLC: model values, functions, symmetry | the module of the same name |

Definitions marked "Variant" in a comment are not part of the specification. Each is the definition that
follows it with a plausible mistake in it, and `PROJECT.json` ("mutants") says which property notices.

### How state and actions correspond to the code

**PaymentProcessor.** The variables are the storage of the contract, the token's `balance` and
`allowance` (to this contract) and the log of `PaymentProcessed` events. A revert leaves all of the
chain state as it was, so it is the absence of a step. `deploy.py` passes the constructor's arguments.

**Payment.** `rows` is payment_requests as committed, `nextId` its AUTO_INCREMENT counter (not given
back on rollback), `req` the sessions that run `create_and_execute_payment`, `ver` those that run
`verify_transaction_hash`; `pool`, `accountNonce` and `receipts` are the node's view of the operator
account. Each remote call and the commit is an action, since the chain and other sessions move in
between; the reads of the wallets and the insert, which nobody else can see, are one.

* A payment id is a keccak hash in the code and the record of the hashed fields in the model: two ids
  are equal exactly when the fields are.
* `expires_at` is in half seconds: `Stored` rounds it as a DATETIME column does. The code builds the id
  from the object `get_payment_by_id` returns. SQLAlchemy's identity map is weak and the inserted object
  is referenced by nobody any more, so the row is read back from the table and holds the stored value,
  without zone and fraction; that is `LoadRequested`. Sessions are opened with `autoflush=False`, and the
  repository flushes explicitly. The id a verification computes agrees with the one that was broadcast
  because of this reload only: `LoadRequestedNotReloaded` is what happens without it.
* A status is written only if it differs from what the session loaded, as SQLAlchemy does (`SaveStatus`).
* A permit of the other endpoint is `PermitMined`: it takes a nonce of the account and sets an allowance.

**OperatorAccount.** Permits and payments are sent from one account and do not coordinate. What makes that
safe is that both read the nonce of the latest block, pending transactions not counted: one transaction waits
at most, it has the next nonce, a second one replaces it or is refused, and no gap can arise behind which
everything would wait. `Payment` and `WalletPermit` both implement this module, with `accountNonce`, `pool` and
the transactions of `receipts` in the place of its variables.

**WalletRegistration.** `nonces` and `wallets` are rows joined with their link rows (`unlinked` is the
link's `deleted_at`). A session is two steps: what it reads, in one InnoDB snapshot, and its commit. A
signature is the pair of the key's address and the nonce signed. DATETIME columns have no zone:
`expires_at` is the wall clock of JST, and the query compares it with `datetime.now()` of the server.
The handlers for users and stores differ in the link table, in who must exist and in `is_permitted`.

**WalletUse** adds the two handlers that use the tables while registrations and deletions go on: `LoadPermit`
and `CommitPermit` are the ends of `update_wallet_permit_state`, whose middle is `WalletPermit`;
`CreatePaymentRequest` and `CommitPayment` the ends of a payment, whose middle is `Payment`. `desk` holds what such
a transaction has read. `.first()` without an order is any of the rows. The code does not look at a wallet again once it
has read it, so a payment may be committed for a wallet that was deleted meanwhile; `DeletionTakesHold` says that this
comes to an end. It fails if a query relied on the link alone, which the other endpoint's deletion leaves in place.

**WalletPermit.** One action per remote call of `update_wallet_permit_state`. The node takes a
transaction in the place of a pending one only for a higher fee. The token takes a permit only of the
holder's next nonce, in time, signed by the holder for the spender; otherwise it is mined and reverts.
`spender` is the PaymentProcessor named in the secret, which the handler reads once; `Redeploy` changes it.

**Transactions.** One action per step in which two threads may get in each other's way. `get_mysql_db` and
`get_postgres_db` are `CacheHit`, `CacheMiss` and `Construct`: `lru_cache` calls the function without its lock,
keeps the first result and returns to each caller its own. `GetSession`, `CreateEngine` and `CreateFactory`
are `get_session` and `initialize`, which test and assign attributes without a lock; an engine is named by
the thread that created it. A session takes a connection at its first query (`Connect`), waits if the pool has
none, and raises after the default 30 seconds (`PoolTimeout`); since `pool_size` and the other settings are
commented out, the pools have their defaults. `Nesting` says in which order an endpoint's decorators open the
sessions, `QueryOrder` in which order its handler uses them. Commit and rollback go from the inner wrapper to the
outer; a commit whose connection breaks may or may not have happened (`CommitFails`). The other modules have
commit and rollback of a handler as single actions.

**FaceRegistration.** A face is a member of `Faces` with a `Distance`, in tenths. PostgreSQL runs at READ
COMMITTED, so the checks, the search, the upload and the commit see different states. The nearest row is
exact: the HNSW index is built for the cosine distance and the query orders by `<->` (L2), which the
index cannot serve. `jpg` is accepted by the API but is no format name of Pillow, so encoding raises
(`Savable`). `serial` says whether requests come one at a time, in which case anybody asks for anybody; it is
chosen in the initial state, so that one run checks both. `torn` remembers whose last request failed
between the picture and the commit. An update of a row that is gone raises (StaleDataError, `RowGone`). Users are constant: no
endpoint creates or deletes one. The picture of a face is what S3 holds after the last write.

## 3. Runs

Deadlock is checked in `contract` and `transactions`, whose steps never run out. It is not checked (`CHECK_DEADLOCK
FALSE`) in the other runs: their instances have a bound on ids, rows or steps of others, and when it is used up nothing is
left to do. Apart from that bound the system waits for clients, which is a state it may well be in.

| Run | Module, .cfg | What it shows |
|---|---|---|
| contract | MCPaymentProcessor | a payment id settles once (`OneEventPerProcessedPayment`), every event has moved its funds (`EventMeansFundsMoved`) |
| payment | MCPayment | under every fault: `PaidMeansSettled`, `TxFailedMeansNotSettled`, `NeverVerifyFailed`, `OneBroadcastPerRequest`, `OutcomeNeverFlips`; the API implements `SettlementReport` (`KeepsItsPromise`) and towards the node `OperatorAccount` (`UsesTheAccount`); and the invariant of the proofs (`PromiseInv`) |
| payment_live | MCPayment, MCPaymentLive.cfg | every request ends; every submitted payment is resolved unless the node dropped or replaced it (`ResolvedOrDropped`); without a lost request no transaction is unknown to the database (`NoOrphanTransaction`) |
| payment_orphan | MCPayment, MCPaymentOrphan.cfg | finding: a lost request leaves a transaction no row knows |
| wallet | MCWalletUse | `WalletIsProven`, `NonceUsedIffWallet`, `NonceIsOneTime`, `OneWalletPerChain`, `NonceLivesTenMinutes` when nobody has two registrations at a time and the server's clock is JST; while wallets are deleted, permitted and charged, money is only asked for between addresses whose keys their owners have shown, in the token both wallets were registered for (`PaymentsAreProven`), and a deletion takes hold, through whichever endpoint, although requests that had read the wallet may still commit (`DeletionTakesHold`) |
| wallet_nonce_reuse | MCWalletRegistration, MCWalletNonceReuse.cfg | finding: two requests of one user use one nonce twice |
| wallet_shared | MCWalletRegistration, MCWalletSharedAddress.cfg | finding: a user and a store get wallets of one address |
| wallet_nonce_life | MCWalletRegistration, MCWalletNonceLife.cfg | finding: with the server's clock in UTC a nonce outlives its ten minutes by the offset of JST |
| permit | MCWalletPermit | `PermittedIsProven`, `DeletionLasts`, `UsesTheAccount`, `EveryRequestEnds` with timeouts, crashes and a new PaymentProcessor |
| face | MCFaceRegistration | `OneFacePerUser`, `PhotoOfEveryFace` when nobody has two requests at a time and commits fail; for one request at a time also `NoSharedFace`, `PaymentFindsItsUser` |
| transactions | MCTransactions | `AnswerTellsOutcome`, `ConnectionsAreReturned`, `FactoryBeforeSession`, `EveryRequestEnds`, `EnginesSettle` from an uninitialized server on, with failing commits and Secrets Manager |
| face_leftover | MCFaceRegistration, MCFaceLeftover.cfg | finding: the picture of a former extension survives the deletion of the face |

### Bounds and why they are enough

* **contract**: two accounts, one of them owner and operator, and the zero address; two payment ids, so that one may be used twice and two
  interleave; balances that two payments exhaust, so that transfers fail.
* **payment**: two requests and two verifiers race for everything there is to race for: the same nonce, the
  same balance, the same row. Two ids (`MaxRows`) are what two payments need; an id that comes
  back after a loss needs one. `MaxOutside` is one step of the owner or a holder, enough to make an
  estimated payment revert (revoked operator or token, spent balance, lowered allowance) or to take its
  nonce. `Instants = {1}` is a start that is rounded up. Workers are interchangeable (`SYMMETRY`).
* **payment_live**: the same without symmetry, which is unsound for liveness, and without the faults that
  the properties except. `Amounts = {1}` leaves out requests of amount zero, which are refused.
* **wallet**: two principals, two addresses, two nonces and wallets: enough to use a nonce after another was issued for the
  same address, to delete a wallet and register another, and to mix up addresses. Two cashiers, so that a permit and a
  payment, or two payments, have read a wallet when it goes; two tokens, so that the wallets of a payment may differ.
  A payment whose wallet is deleted and registered anew while it is under way needs a third nonce and is beyond these bounds:
  it is covered by the theorem `ProvenPayments`. `Ttl = 1` and `MaxTime = 2` let nonces expire; `JstOffset = 3` exceeds
  both. No symmetry, which is unsound for liveness. In the violating runs, of `MCWalletRegistration`, workers serve
  anybody (`MCAnyClient`).
* **permit**: two workers, one wallet, two mined transactions and one step of others, signatures for the
  holder's first two nonces and the first of two spenders: a permit may be mined, replaced, revert because its
  nonce was used, its deadline (`{0}`, with `MaxTime = 1`) has passed or the spender is the new one, time out and be
  mined afterwards, and a payment may use up its allowance before it is read back. Fees 1 and 2 let either
  transaction replace the other.
* **face**: the pictures of two persons at a distance of 0.9, that is between the thresholds (0.7 and 1.0), and
  one between them (0.5 and 0.4), which registration takes for either; two rows, so that a user's is made,
  updated and deleted beside another's; two extensions that can be saved and `jpg`. Users with their workers, and the
  two extensions, are interchangeable (`SYMMETRY`).
* **transactions**: two threads with a pool of one connection are the smallest instance in which each holds what the
  other waits for, and in which two initialize together. Requests follow each other for ever. A larger pool only needs
  more threads for the same waits, and the objects and engines are per thread already.

### Fairness

`Payment!Fairness`: blocks keep coming (`WF` on mining the pool); a session that was started goes on, since a
thread is not suspended for ever and every remote call has a timeout, after which it raises and rolls back
(`WF` per worker, `RollbackPayment` included); and somebody keeps asking for a payment that has not been
reported as paid or failed (`SF`, as a free verifier comes and goes with the other requests). The
last one is the client's part: the code has no background job, and verification happens only when
it is asked for. The live run has no `rpc` fault, because an RPC node that fails for ever resolves nothing.

`WalletPermit!FairSpec`: a worker goes on with its request unless it dies (a death never helps it to end, so
`LosePermit` is not among the fair steps); the 120 seconds of
`wait_for_transaction_receipt` end a wait for a transaction that is never mined.
`Transactions!FairSpec`: a thread that can go on is scheduled again (`WF` on `Proceed`, per worker). Nothing has to
fail and no client has to ask. The pool's timeout belongs to `Proceed`: it is a clock of SQLAlchemy's that always
runs down. `WF` suffices although a connection may be snatched away again and again, since a thread that finds
none is entitled to its timeout.

`WalletUse!UseFairSpec`: a permit or a payment that has read its wallets ends, by its commit or its rollback (`WF` per
cashier), since every remote call in between has a timeout. Nobody has to delete, register or ask for anything.

The other wallet runs and the face runs check safety and state no fairness.

### Findings

Each is a run that TLC ends with a counterexample; `PROJECT.json` quotes the documented line.

1. *payment_orphan.* `execute_payment` broadcasts before anything is committed, the row included. When the
   answer, the worker or the commit is lost, the transaction is mined and there is no row. The sequence
   diagram has the row stored before. Retrying is safe from one side only: ids are not given out again
   (`OneBroadcastPerRequest`), but the retry is a new payment.
2. *wallet_nonce_reuse.* `used_at` is read without a lock.
3. *wallet_shared.* Whether an address is in use is checked only when a nonce is issued.
4. *wallet_nonce_life.* JST is stored, local time compared.
5. *face_leftover.* Object names contain the extension.

### Known behaviours that no run is spent on

These follow from the same missing locks and unique keys, and show up as soon as a configuration lets one
client run two requests (`Clients <- MCAnyClient`, two workers) or changes a fault:

* two registrations of one user at a time give him two wallets on a chain (`OneWalletPerChain`), or two
  faces (`OneFacePerUser`); two users registering the same face at a time both succeed (`NoSharedFace`);
* a permit that is mined after the 120 seconds takes effect, its signature is spent, and the wallet stays
  not permitted, until the user signs again;
* a commit that fails after the upload leaves a picture that is not the row's, until the user's next request
  succeeds (`torn` in `PhotoOfEveryFace`);
* a face endpoint takes a connection of MySQL first and then one of PostgreSQL, a payment with a face the other way
  round: with the last connections of both pools they wait for each other, and both fail after 30 seconds at the
  latest (`EveryRequestEnds` of `Transactions` needs `PoolTimeout`);
* during start-up a request may work on a database object, engine and pool of its own, so the limit of
  connections holds from `EnginesSettle` on only;
* a wallet stays permitted when the secret names another PaymentProcessor, for which it has no allowance; payments
  then fail at the gas estimate until its user signs again. A payment verified after the secret has come to name
  another token would be VERIFY_FAILED, as `_validate_payment_processed_event` compares with today's token;
* a user with wallets on two chains is charged from whichever `.first()` returns, and refused if that one is of another
  chain than the store's;
* payments accept faces up to a distance of 1.0, where the sequence diagram says 0.7; `PaymentFindsItsUser` is
  what remains true;
* an invalid permit signature already reverts at the gas estimate and is answered 500, where the
  documentation has 400 for a failed permit.

## 4. Proofs

The theorems hold for every value of the constants: any number of requests, verifiers, rows, wallets,
accounts, threads, users and steps outside, and any set of faults. Every invariant, action property and refinement that a
passing run checks is stated by one of them, some under a hypothesis that is named with it.

| Theorem | States |
|---|---|
| `PaymentProcessorProof!TypeCorrect` | `Spec => []TypeOK`: balances and allowances stay natural numbers |
| `PaymentProcessorProof!ProcessedOnce` | `Spec => []OneEventPerProcessedPayment` |
| `PaymentProcessorProof!EventsMoveFunds` | `Spec => EventMeansFundsMoved` |
| `PaymentProof!SettlementInvariant` | `Spec => []SettlementInv` |
| `PaymentProof!TypeCorrect`, `PaidIsSettled`, `NoVerifyFailure` | its consequences |
| `PaymentPromiseProof!PromiseInvariant` | `Spec => []PromiseInv` |
| `PaymentPromiseProof!OncePerRequest`, `FailedIsNotSettled` | its consequences: `OneBroadcastPerRequest`, `TxFailedMeansNotSettled` |
| `PaymentPromiseProof!OutcomesStay` | `Spec => OutcomeNeverFlips` |
| `PaymentPromiseProof!PromiseKept` | `Spec => KeepsItsPromise`: the API implements `SettlementReport` |
| `PaymentPromiseProof!AccountSerialised` | `Spec => UsesTheAccount`: payments implement `OperatorAccount` |
| `PaymentPromiseProof!NoOrphans` | `Spec => []NoOrphanTransaction` if `"lost" \notin Faults` |
| `WalletRegistrationProof!RegistrationInvariant` | `Spec => []RegistrationInv` |
| `WalletRegistrationProof!TypeCorrect`, `WalletsProven`, `NoncesAgree` | its consequences |
| `WalletRegistrationProof!OneTimeNonces`, `OneWalletEach` | `NonceIsOneTime`, `OneWalletPerChain` if `OneRequestEach` |
| `WalletRegistrationProof!NonceLife` | no wallet is made with a nonce older than ten minutes plus what the server's clock lacks to JST, the bound of finding 4 |
| `WalletRegistrationProof!TenMinutes` | `Spec => NonceLivesTenMinutes` if `ServerOffset >= JstOffset` |
| `WalletUseProof!RegistrationInUse`, `OneEachInUse`, `TenMinutesInUse` | the same of `UseSpec`: permits and payments disturb none of it |
| `WalletUseProof!ProvenPayments` | `PaymentsAreProven` |
| `WalletPermitProof!TypeCorrect`, `PermittedProven`, `DeletionStays` | `TypeOK`, `PermittedIsProven`, `DeletionLasts` |
| `WalletPermitProof!AccountSerialised` | `Spec => UsesTheAccount`: permits implement `OperatorAccount` |
| `FaceRegistrationProof!TypeCorrect`, `NoFaceShared`, `PaymentFindsTheUser` | `TypeOK`, `NoSharedFace`, `PaymentFindsItsUser` |
| `FaceRegistrationProof!OneFaceEach`, `PhotosKept` | `OneFacePerUser`, `PhotoOfEveryFace` if `OneRequestEach` |
| `TransactionsProof!TypeCorrect`, `AnswersTell`, `ConnectionsReturn`, `FactoriesComeFirst` | `TypeOK`, `AnswerTellsOutcome`, `ConnectionsAreReturned`, `FactoryBeforeSession` |

**Assumptions** are the ASSUMEs of the modules, which TLC evaluates on every run: the zero address is no
account, bounds and amounts are naturals, wallets are records over accounts, there are finitely many
threads (which are counted, against the rows they will add or the connections they hold), and the values
that stand for nothing (`None`, `NoRow`, `NoHash`, `Deleted`) are no records. The distance of faces is any
symmetric natural number that is zero between a face and itself, and the thresholds are arbitrary.

**Hypotheses** of single theorems are what the code needs and does not ensure by itself; each has a run or a
configuration in which the property fails without it:

| Hypothesis | Where it comes from | Without it |
|---|---|---|
| `OneRequestEach` of registration | a client that waits for its answer | `wallet_nonce_reuse` |
| `ServerOffset >= JstOffset` | a server in Japanese time | `wallet_nonce_life` |
| `"lost" \notin Faults` | no answer, worker or commit is lost | `payment_orphan` |
| `OneRequestEach` of faces | a client that waits for its answer | two workers with the same `Clients` violate both properties |
| `serial`, in the two invariants themselves | registrations that do not overlap | "Known behaviours" above |

**How.** TLC checked each inductive invariant first, on the instances of the runs; for `payment` it is still part
of the run. Each proof has a lemma for each group of actions, in it a step for every action and below that one for every
conjunct the action disturbs. What several properties need of an action is an "effect" lemma
(`RequestEffect`, `WorkerEffect`, `PermitEffect`): what it leaves alone and what it may write. For the contract,
`ProcessedOnce` needs only the type invariant beside it.

### The inductive invariants

**`SettlementInv`.** That a PAID row is settled is not inductive: `SaveStatus` writes what `GetReceipt`
decided earlier, on a row that was loaded earlier still. The invariant follows the fact back along that path:

* `ReceiptsAreTrue`: a receipt with status 1 carries exactly the event of its transaction, and the contract's
  log has it. (`Mine` establishes it; the log only grows.)
* `RowsAreSubmitted`: the transaction of a committed row pays what the row says, under the payment id of
  the row *as stored*. Without "as stored" the two ids could differ by the rounding of `expires_at`.
* `RequestsOwnTheirIds`: gives `RowsAreSubmitted` at the commit. A session's row has an id nobody else has,
  not in the table and below `nextId`, it is in stored form from the reload on, and after the broadcast its hash
  is the transaction it pays with.
* `VerifiersAreRight`: a verification holds the committed row but for its status, which others may have
  changed, and has decided "paid" only on a settled payment, "verify_failed" never. So whatever it
  writes, however late, is right.

**`PromiseInv`** adds what the account and the failures need:

* `AccountIsSerial`: one transaction waits at most, it has the next nonce, every receipt is of an earlier one and the
  only one of its transaction, and the nonce a session has read may be stale but is never ahead. This is why no gap arises, and it is the refinement of
  `OperatorAccount`.
* `BroadcastsAreOnce`: a payment id on the chain or waiting there is below `nextId` and belongs to no session that has
  yet to send, so what is sent next is new. (Ids are not given back on rollback.)
* `OutcomesAreMined`: every event stems from a receipt with status 1, and a TX_FAILED row, or a verification that has
  decided so, rests on a reverted receipt of the row's transaction; since a transaction has one receipt and a payment id
  one transaction, nothing can settle that row. So outcomes never flip, and the reported ones are those of
  `SettlementReport`.

`NoOrphanTransaction` is inductive on top of it: a sent transaction is known to its session, and then to the row the
session commits.

**`RegistrationInv`.** A wallet is proven because the job that made it was (`JobsAreProven`), when it read the nonce;
the owner, address and network of a nonce never change. `RoomForJobs` counts what running jobs will add, so that tables stay
within their bounds. `OneEachInv` adds that what a transaction has read still holds (`ReadsStillHold`): its
nonce unused, no other wallet of its owner on that chain. Only its owner's requests could change that, hence
`OneRequestEach`; nothing in the code locks the rows.

**`UseInv`** adds `DesksHoldWallets`: the rows a cashier has read exist and are of the user and store named, on one chain and in one token.
Deletion marks rows and removes none, so a desk that is out of date still names wallets that were proven.

**`PermitInv`** adds `SessionsHoldTheirPermit`: a request past its broadcast holds a transaction of its wallet's own address,
spender and value, and one past its receipt holds a granted one. Grants stay, so what is saved after the
wait rests on it, whatever was deleted, replaced or redeployed in between. `AccountIsSerial` is here as for payments.

**`FaceInv`.** When requests come one at a time or each user has one (`Apart`), the row a request has read is still its
user's (`RequestsAreFresh`), and `PhotoOfEveryRequest` says what the bucket holds between upload and commit.
`serial` gives more: the face being registered is still as far from everybody else's as when it was checked
(`CheckedFaceIsFar`). The check looks at the nearest row only and so at all of them, because a nearest row exists
(`NearestExists`: every set of distances has a least one). `PaymentFindsItsUser` follows from `NoSharedFace`: what is found
for a registered picture is at no distance from it, and a face of another user would be beyond the threshold.

**`TransactionsInv`.** `Tells`: only the outermost session is written, and it commits last, so while a
request can still fail nothing is committed, unless the answer to the commit was lost. `ObjectsAreFound`: the
object a thread works on is the cached one or its own; a thread's own object is dropped when it lost the race, and nobody else
has it, so that what the thread tested about it stays true. `Placed`: connections are held in open sessions only, and of
those the ones already queried. `Counted`: what a pool lacks is held; it rests on `Placed`, since closing a
session gives back exactly its own connection.

### Only model-checked

Liveness: `ResolvedOrDropped`, `EveryRequestEnds` (of payments, permits and transactions), `DeletionTakesHold` and
`EnginesSettle`. TLAPS does not reason about fairness and ENABLED. The properties of the violating runs are false, so there is nothing to prove about them.

## 5. Not modelled, or not completely

* Face detection and embedding: numerical code; an embedding is a constant, a picture without exactly
  one face is an exception that rolls back.
* Endpoints, request and response wrappers, logging and tools have no state the rest depends on.
* Configuration is read from Secrets Manager by every request. The address of the PaymentProcessor may change in
  `WalletPermit`; token, chain and operator account are constants everywhere. A setting that cannot be read is an
  exception, in `Transactions` one of a session that is not there yet.
* Chain reorganisations: a block that is mined stays, and a receipt is never taken back. A node may lag or forget a
  receipt, but the nonce of the account and the contract's state only go forward.
* The read-only getters (lists of wallets, state of the face registration) change nothing.
* Connections that MySQL has closed (`pool_pre_ping` and `pool_recycle` are commented out) are a handler that
  raises; what SQLAlchemy then does to its pool is its own.
* A payment from a face: its lookup is `FoundByFace`, its two sessions are an endpoint of `Transactions`, its
  payment is the one of `Payment`. Their composition would add the interleavings of a face that is changed after the
  lookup, about which the code makes no promise: the payment is the one of the user who was found.
* `expires_at` is stored and never compared, so an expired request is executed like any other. Nothing says
  what it must not do, and there is no property about it.
* `is_permitted` is not reset when an allowance is used up; `Payment` has the gas estimate that refuses then.
* uint256 is Nat: no balance of a token with a bounded supply overflows, and `pay` adds nothing itself.
* Statuses `canceled` and `error` are declared and written nowhere.

## 6. Plan

Done, in this order: contract and its proof; payment with node and contract, its abstract promise and its
proof; wallet registration; faces; permits; database transactions; the use of wallets composed with their
registration; the operator account as an abstraction of payments and permits; the proofs of every invariant, action
property and refinement of the passing runs. To come:

1. More proofs: that the middle of a permit and of a payment, in `WalletPermit` and `Payment`, fit between the ends that
   `WalletUse` composes with registration; if the code is repaired (a unique key on the nonce, a converted
   clock), the properties of the findings without their hypotheses.
2. A token in the secret that changes between a payment and its verification, if the intended behaviour is ever
   written down.
