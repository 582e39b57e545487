---------------------------- MODULE PaymentProof ----------------------------
(***************************************************************************)
(* Proofs about Payment, for any number of workers, rows, accounts and     *)
(* faults: the state is well typed, PAID is only reported of a settled     *)
(* payment, VERIFY_FAILED never.                                           *)
(***************************************************************************)
EXTENDS Payment, TLAPS

\* The theorems about the contract, with Payment's one token and operator.
C == INSTANCE PaymentProcessorProof
        WITH PaymentIds <- PaymentId, Tokens <- {Token},
             InitialOperator <- Operator, InitialToken <- Token

\* Payment starts the contract as its constructor leaves it.
LEMMA InitContract == Init => P!Init
  BY DEF Init

\* The contract sees every step of Payment as one of its own, or not at all: the
\* operator only calls pay with ids, accounts and amounts of broadcast payments.
LEMMA NextContract == TypeOK /\ [Next]_vars => [P!Next]_contractVars
<1> SUFFICES ASSUME TypeOK, [Next]_vars PROVE [P!Next]_contractVars
  OBVIOUS
<1>1. ASSUME NEW r \in Requests, RequestStep(r) PROVE UNCHANGED contractVars
  BY <1>1 DEF RequestStep, CreatePaymentRequest, LoadRequested, CheckBalance,
     ReadNonce, EstimateGas, SendTransaction, CommitPayment, RollbackPayment,
     LosePayment
<1>2. ASSUME NEW v \in Verifiers, VerifierStep(v) PROVE UNCHANGED contractVars
  BY <1>2 DEF VerifierStep, LoadPayment, GetReceipt, TransactionNotFound,
     SaveStatus, RollbackVerification
<1>3. ASSUME NEW tx \in pool, Mine(tx) PROVE [P!Next]_contractVars
  <2>1. CASE UNCHANGED contractVars
    BY <2>1
  <2>2. CASE P!Pay(Operator, tx.paymentId, Token, tx.from, tx.to, tx.amount)
    <3>1. tx \in Transactions
      BY DEF TypeOK
    <3>2. /\ Operator \in Accounts /\ tx.paymentId \in PaymentId /\ Token \in {Token}
          /\ tx.from \in P!Addresses /\ tx.to \in P!Addresses /\ tx.amount \in Amounts
      BY <3>1, AccountAssumption DEF Transactions, P!Addresses
    <3>3. P!OperatorStep
      BY <2>2, <3>2 DEF P!OperatorStep
    <3> QED BY <3>3 DEF P!Next
  <2> QED BY <1>3, <2>1, <2>2 DEF Mine
<1>4. ASSUME NEW tx \in pool, Evict(tx) PROVE UNCHANGED contractVars
  BY <1>4 DEF Evict
<1>5. ASSUME NEW a \in Accounts, NEW value \in Amounts, PermitMined(a, value)
      PROVE  P!Next
  BY <1>5 DEF PermitMined, P!Next, P!HolderStep
<1>6. ASSUME ChainStep PROVE P!Next
  BY <1>6 DEF ChainStep, P!Next
<1>7. CASE UNCHANGED vars
  BY <1>7 DEF vars, contractVars
<1> QED BY <1>1, <1>2, <1>3, <1>4, <1>5, <1>6, <1>7 DEF Next, NodeStep

\* What the contract's own proof says of its types carries over.
LEMMA NextContractTypes == TypeOK /\ [Next]_vars => P!TypeOK'
<1> SUFFICES ASSUME TypeOK, [Next]_vars PROVE P!TypeOK'
  OBVIOUS
<1>1. [P!Next]_contractVars
  BY NextContract
<1>2. P!TypeOK
  BY DEF TypeOK
<1>3. C!TypeOK
  BY <1>2 DEF P!TypeOK, C!TypeOK, P!PaymentProcessedEvents, C!PaymentProcessedEvents
<1>4. [C!Next]_(C!contractVars)
  BY <1>1 DEF contractVars, C!contractVars, P!Next, C!Next, P!OwnerStep, C!OwnerStep,
     P!HolderStep, C!HolderStep, P!OperatorStep, C!OperatorStep, P!Pay, C!Pay,
     P!Transfer, C!Transfer, P!Approve, C!Approve, P!SetToken, C!SetToken,
     P!SetOperator, C!SetOperator, P!TransferOwnership, C!TransferOwnership,
     P!PaySucceeds, C!PaySucceeds, P!TransferFromSucceeds, C!TransferFromSucceeds,
     P!TransferFrom, C!TransferFrom, P!Move, C!Move, P!PaymentProcessed,
     C!PaymentProcessed, P!Addresses, C!Addresses, P!roles, C!roles, P!ledger, C!ledger
<1>5. C!TypeOK'
  BY <1>3, <1>4, C!NextTypeOK, AccountAssumption
<1> QED
  BY <1>5 DEF P!TypeOK, C!TypeOK, P!PaymentProcessedEvents, C!PaymentProcessedEvents

-----------------------------------------------------------------------------
(* Rows *)

\* Rounding to the second twice is rounding once, which is why the payment id is
\* the same before the broadcast and after the row was read again.
LEMMA RoundedStays ==
    /\ \A t \in Expiries : RoundToSecond(t) \in StoredExpiries
    /\ \A t \in StoredExpiries : RoundToSecond(t) = t
<1>1. \A t \in Nat : RoundToSecond(RoundToSecond(t)) = RoundToSecond(t)
  BY DEF RoundToSecond
<1>2. \A t \in Expiries : t \in Nat
  BY BoundAssumption DEF Expiries
<1> QED BY <1>1, <1>2 DEF StoredExpiries

\* Storing a row rounds its expires_at and leaves a row that was read as it is.
LEMMA StoredRow ==
    ASSUME NEW row \in PaymentRow
    PROVE  /\ Stored(row) \in PaymentRow
           /\ Stored(row).expires \in StoredExpiries
           /\ Stored(row).id = row.id
           /\ Stored(row).status = row.status
           /\ row.expires \in StoredExpiries => Stored(row) = row
<1>1. RoundToSecond(row.expires) \in StoredExpiries
  BY RoundedStays DEF PaymentRow
<1>2. row.expires \in StoredExpiries => RoundToSecond(row.expires) = row.expires
  BY RoundedStays
<1> QED BY <1>1, <1>2 DEF Stored, PaymentRow

\* A row with another status or another hash pays the same payment.
LEMMA StatusOfRow ==
    ASSUME NEW row \in PaymentRow, NEW status \in Statuses
    PROVE  LET new == [row EXCEPT !.status = status]
           IN  /\ new \in PaymentRow
               /\ new.id = row.id /\ new.status = status /\ new.hash = row.hash
               /\ new.expires = row.expires
               /\ BuildPaymentId(new) = BuildPaymentId(row)
               /\ SettlementOf(new) = SettlementOf(row)
               /\ \A tx : Pays(tx, new) <=> Pays(tx, row)
  BY DEF PaymentRow, BuildPaymentId, SettlementOf, Pays

\* The transaction built for a stored row is one the node may take and pays it.
LEMMA TransactionOfRow ==
    ASSUME NEW row \in PaymentRow, row.expires \in StoredExpiries, NEW nonce \in Nat
    PROVE  /\ Transaction(row, nonce) \in Transactions
           /\ Transaction(row, nonce).nonce = nonce
           /\ Pays(Transaction(row, nonce), row)
  BY DEF PaymentRow, Transaction, Transactions, PaymentId, BuildPaymentId, Pays

\* The event of the transaction of a row is the one that settles it.
LEMMA EventOfRow ==
    ASSUME NEW row, NEW tx, Pays(tx, row) PROVE EventOf(tx) = SettlementOf(row)
  BY DEF Pays, EventOf, SettlementOf, P!PaymentProcessed

-----------------------------------------------------------------------------
(* The invariant is kept. *)

\* The types of the API's own variables, apart from the contract's.
OwnTypes ==
    /\ rows \in [Ids -> PaymentRow \union {NoRow}]
    /\ nextId \in 1..(MaxRows + 1)
    /\ req \in [Requests ->
                 [pc : {"idle", "created", "loaded", "funded", "nonced", "estimated", "sent"},
                  row : PaymentRow \union {NoRow}, nonce : Nat]]
    /\ ver \in [Verifiers ->
                 [pc : {"idle", "loaded", "decided"},
                  row : PaymentRow \union {NoRow}, verdict : Statuses]]
    /\ pool \subseteq Transactions
    /\ accountNonce \in Nat
    /\ receipts \subseteq [tx : Transactions, status : {0, 1},
                           logs : SUBSET P!PaymentProcessedEvents]
    /\ outside \in 0..MaxOutside

\* TypeOK is the two together.
LEMMA TypesSplit == TypeOK <=> OwnTypes /\ P!TypeOK
  BY DEF TypeOK, OwnTypes

\* The same of the next state.
LEMMA TypesSplitNext == TypeOK' <=> OwnTypes' /\ P!TypeOK'
  BY DEF TypeOK, OwnTypes

\* A settled payment stays settled, since the log only grows.
LEMMA SettledStays ==
    ASSUME P!TypeOK,
           events' = events \/ \E e : events' = Append(events, e),
           NEW x, \E k \in DOMAIN events : events[k] = x
    PROVE  \E k \in DOMAIN events' : events'[k] = x
<1>1. events \in Seq(P!PaymentProcessedEvents)
  BY DEF P!TypeOK
<1>2. PICK k \in DOMAIN events : events[k] = x
  OBVIOUS
<1>3. ASSUME NEW e, events' = Append(events, e) PROVE k \in DOMAIN events' /\ events'[k] = x
  BY <1>1, <1>2, <1>3
<1> QED BY <1>2, <1>3

\* With no row, no request and no verification there is nothing to get wrong.
LEMMA InitInv == Init => SettlementInv
<1> SUFFICES ASSUME Init PROVE SettlementInv
  OBVIOUS
<1> USE DEF Init
<1>1. P!TypeOK
  <2>1. P!TypeOK <=> C!TypeOK
    BY DEF P!TypeOK, C!TypeOK, P!PaymentProcessedEvents, C!PaymentProcessedEvents
  <2>2. C!Init
    BY DEF P!Init, C!Init, P!Constructor, C!Constructor
  <2> QED BY <2>1, <2>2, C!InitTypeOK, AccountAssumption
<1>2. OwnTypes
  <2>1. Idle \in [pc : {"idle", "created", "loaded", "funded", "nonced", "estimated", "sent"},
                  row : PaymentRow \union {NoRow}, nonce : Nat]
    BY DEF Idle, Session
  <2>2. VerifierIdle \in [pc : {"idle", "loaded", "decided"},
                  row : PaymentRow \union {NoRow}, verdict : Statuses]
    BY DEF VerifierIdle, Verification, Statuses
  <2> QED BY <2>1, <2>2, BoundAssumption DEF OwnTypes, Ids
<1>3. Committed = {}
  BY DEF Committed
<1>4. \A r \in Requests : req[r].pc = "idle"
  BY DEF Idle, Session
<1>5. \A v \in Verifiers : ver[v].pc = "idle"
  BY DEF VerifierIdle, Verification
<1> QED
  BY <1>1, <1>2, <1>3, <1>4, <1>5, TypesSplit
     DEF SettlementInv, RowsAreSubmitted, RequestsOwnTheirIds, ReceiptsAreTrue,
         VerifiersAreRight, PaidMeansSettled, NeverVerifyFailed

\* A step of a request before its commit only has to account for its session.
LEMMA SessionFrame ==
    ASSUME SettlementInv, OwnTypes', P!TypeOK', RequestsOwnTheirIds',
           UNCHANGED <<rows, ver, receipts, contractVars>>, nextId' >= nextId
    PROVE  SettlementInv'
<1> USE DEF SettlementInv, contractVars
<1>1. RowsAreSubmitted'
  BY TypesSplit DEF RowsAreSubmitted, Committed, OwnTypes, Ids
<1>2. ReceiptsAreTrue' /\ VerifiersAreRight'
  BY DEF ReceiptsAreTrue, VerifiersAreRight, Settled
<1>3. PaidMeansSettled' /\ NeverVerifyFailed'
  BY DEF PaidMeansSettled, NeverVerifyFailed, Committed, Settled
<1> QED BY <1>1, <1>2, <1>3, TypesSplitNext

\* A step of the chain only has to account for the receipts it adds.
LEMMA ChainFrame ==
    ASSUME SettlementInv, OwnTypes', P!TypeOK', ReceiptsAreTrue',
           UNCHANGED <<rows, nextId, req, ver>>,
           events' = events \/ \E e : events' = Append(events, e)
    PROVE  SettlementInv'
<1> USE DEF SettlementInv
<1>1. P!TypeOK
  BY TypesSplit
<1>2. ASSUME NEW row, Settled(row) PROVE Settled(row)'
  <2>1. PICK x : x = SettlementOf(row)
    OBVIOUS
  <2>2. \E k \in DOMAIN events : events[k] = x
    BY <1>2, <2>1 DEF Settled
  <2>3. \E k \in DOMAIN events' : events'[k] = x
    BY <1>1, <2>2, SettledStays
  <2> QED BY <2>1, <2>3 DEF Settled
<1>3. RowsAreSubmitted' /\ RequestsOwnTheirIds'
  BY DEF RowsAreSubmitted, RequestsOwnTheirIds, Committed
<1>4. VerifiersAreRight'
  BY <1>2 DEF VerifiersAreRight
<1>5. PaidMeansSettled' /\ NeverVerifyFailed'
  BY <1>2 DEF PaidMeansSettled, NeverVerifyFailed, Committed
<1> QED BY <1>3, <1>4, <1>5, TypesSplitNext

\* Replacing the session of one request by one that keeps its id, or by none,
\* leaves the other requests as they are.
LEMMA OneSession ==
    ASSUME SettlementInv, NEW r \in Requests,
           UNCHANGED <<rows, nextId>>,
           \A q \in Requests \ {r} : req'[q] = req[q],
           \/ req'[r].pc = "idle"
           \/ /\ req[r].pc # "idle"
              /\ req'[r].row \in PaymentRow /\ req'[r].row.id = req[r].row.id
              /\ req'[r].row.status \in {"requested", "submitted"}
              /\ req'[r].pc # "created" => req'[r].row.expires \in StoredExpiries
              /\ req'[r].pc = "sent" => Pays(req'[r].row.hash, req'[r].row)
    PROVE  RequestsOwnTheirIds'
<1> USE DEF SettlementInv, RequestsOwnTheirIds
<1> SUFFICES ASSUME NEW q \in Requests, req'[q].pc # "idle"
             PROVE  /\ req'[q].row \in PaymentRow
                    /\ req'[q].row.status \in {"requested", "submitted"}
                    /\ req'[q].row.id < nextId
                    /\ rows[req'[q].row.id] = NoRow
                    /\ \A p \in Requests \ {q} :
                          req'[p].pc # "idle" => req'[p].row.id # req'[q].row.id
                    /\ req'[q].pc # "created" => req'[q].row.expires \in StoredExpiries
                    /\ req'[q].pc = "sent" => Pays(req'[q].row.hash, req'[q].row)
  BY DEF Pays
<1>1. CASE q = r
  BY <1>1
<1>2. CASE q # r
  BY <1>2
<1> QED BY <1>1, <1>2

\* The shape of a session, and what a worker between two calls has.
LEMMA SessionShape ==
    ASSUME OwnTypes, NEW r \in Requests
    PROVE  /\ req[r] = [pc |-> req[r].pc, row |-> req[r].row, nonce |-> req[r].nonce]
           /\ req[r].pc \in {"idle", "created", "loaded", "funded", "nonced",
                             "estimated", "sent"}
           /\ req[r].row \in PaymentRow \union {NoRow}
           /\ req[r].nonce \in Nat
<1>1. req[r] \in [pc : {"idle", "created", "loaded", "funded", "nonced", "estimated", "sent"},
                  row : PaymentRow \union {NoRow}, nonce : Nat]
  BY DEF OwnTypes
<1> QED BY <1>1

\* The new request takes the next id, which no other request and no row has.
LEMMA CreateInv ==
    ASSUME SettlementInv, NEW r \in Requests, NEW sw \in StoreWallets,
           NEW uw \in UserWallets, NEW amount \in Amounts, NEW now \in Instants,
           CreatePaymentRequest(r, sw, uw, amount, now)
    PROVE  SettlementInv'
<1> DEFINE row == [id |-> nextId, from |-> uw.address, to |-> sw.address,
                   amount |-> amount, chain |-> sw.chain, expires |-> now + Ttl,
                   status |-> "requested", hash |-> NoHash]
           new == [pc |-> "created", nonce |-> 0, row |-> row]
<1>0. OwnTypes /\ P!TypeOK
  BY TypesSplit DEF SettlementInv
<1>1. /\ req' = [req EXCEPT ![r] = new]
      /\ nextId' = nextId + 1
      /\ req[r].pc = "idle" /\ nextId <= MaxRows /\ sw.chain = Chain
      /\ UNCHANGED <<rows, ver, pool, accountNonce, receipts, outside, contractVars>>
  BY DEF CreatePaymentRequest, Session, node
<1>2. row \in PaymentRow
  <2>1. uw.address \in Accounts /\ sw.address \in Accounts
    BY WalletAssumption DEF Wallet
  <2>2. nextId \in Ids
    BY <1>0, <1>1, BoundAssumption DEF OwnTypes, Ids
  <2>3. now + Ttl \in Expiries
    BY DEF Expiries
  <2> QED BY <1>1, <2>1, <2>2, <2>3 DEF PaymentRow, Statuses
<1>3. new.pc = "created" /\ new.row = row /\ row.id = nextId /\ row.status = "requested"
  OBVIOUS
<1>4. new \in [pc : {"idle", "created", "loaded", "funded", "nonced", "estimated", "sent"},
               row : PaymentRow \union {NoRow}, nonce : Nat]
  BY <1>2
<1> HIDE DEF new, row
<1>5. /\ req'[r] = new
      /\ \A q \in Requests \ {r} : req'[q] = req[q]
  BY <1>0, <1>1 DEF OwnTypes
<1>6. OwnTypes'
  BY <1>0, <1>1, <1>4, BoundAssumption DEF OwnTypes
<1>7. P!TypeOK'
  BY <1>0, <1>1 DEF contractVars, P!TypeOK, P!PaymentProcessedEvents
<1>8. rows[nextId] = NoRow
  <2>1. nextId \in Ids
    BY <1>0, <1>1, BoundAssumption DEF OwnTypes, Ids
  <2> QED BY <1>0, <2>1 DEF SettlementInv, RowsAreSubmitted, Committed, OwnTypes
<1>9. RequestsOwnTheirIds'
  <2> SUFFICES ASSUME NEW q \in Requests, req'[q].pc # "idle"
               PROVE  /\ req'[q].row \in PaymentRow
                      /\ req'[q].row.status \in {"requested", "submitted"}
                      /\ req'[q].row.id < nextId'
                      /\ rows[req'[q].row.id] = NoRow
                      /\ \A p \in Requests \ {q} :
                            req'[p].pc # "idle" => req'[p].row.id # req'[q].row.id
                      /\ req'[q].pc # "created" => req'[q].row.expires \in StoredExpiries
                      /\ req'[q].pc = "sent" => Pays(req'[q].row.hash, req'[q].row)
    BY <1>1 DEF RequestsOwnTheirIds, Pays
  <2>1. nextId \in Nat /\ nextId' = nextId + 1
    BY <1>0, <1>1, BoundAssumption DEF OwnTypes
  <2>2. \A p \in Requests \ {r} : req[p].pc # "idle" =>
            /\ req[p].row \in PaymentRow
            /\ req[p].row.id < nextId
            /\ req[p].row.id \in Nat
    BY DEF SettlementInv, RequestsOwnTheirIds, PaymentRow, Ids
  <2>3. CASE q = r
    BY <1>2, <1>3, <1>5, <1>8, <2>1, <2>2, <2>3
  <2>4. CASE q # r
    BY <1>3, <1>5, <2>1, <2>2, <2>4 DEF SettlementInv, RequestsOwnTheirIds
  <2> QED BY <2>3, <2>4
<1> QED
  <2>1. nextId' >= nextId
    BY <1>0, <1>1, BoundAssumption DEF OwnTypes
  <2> QED BY <1>1, <1>6, <1>7, <1>9, <2>1, SessionFrame

\* Every other step of a request before its commit changes its own session only,
\* and what the node has; the row it holds keeps its id.
LEMMA SessionInv ==
    ASSUME SettlementInv, NEW r \in Requests,
           \/ LoadRequested(r) \/ CheckBalance(r) \/ ReadNonce(r) \/ EstimateGas(r)
           \/ SendTransaction(r) \/ RollbackPayment(r) \/ LosePayment(r)
    PROVE  SettlementInv'
<1> DEFINE Sessions == [pc : {"idle", "created", "loaded", "funded", "nonced",
                             "estimated", "sent"},
                       row : PaymentRow \union {NoRow}, nonce : Nat]
<1>0. OwnTypes /\ P!TypeOK
  BY TypesSplit DEF SettlementInv
<1>1. /\ UNCHANGED <<rows, nextId, ver, accountNonce, receipts, outside, contractVars>>
      /\ req \in [Requests -> Sessions]
  BY <1>0 DEF LoadRequested, CheckBalance, ReadNonce, EstimateGas, SendTransaction,
     RollbackPayment, LosePayment, node, OwnTypes
<1>2. P!TypeOK'
  BY <1>0, <1>1 DEF contractVars, P!TypeOK, P!PaymentProcessedEvents
<1>3. /\ accountNonce \in Nat
      /\ req[r].pc # "idle" =>
            /\ req[r].row \in PaymentRow
            /\ req[r].row.status \in {"requested", "submitted"}
            /\ req[r].pc # "created" => req[r].row.expires \in StoredExpiries
            /\ req[r].pc = "sent" => Pays(req[r].row.hash, req[r].row)
  BY <1>0 DEF OwnTypes, SettlementInv, RequestsOwnTheirIds
<1>4. ASSUME NEW new \in Sessions, req' = [req EXCEPT ![r] = new],
             pool' \subseteq Transactions,
             \/ new.pc = "idle"
             \/ /\ req[r].pc # "idle"
                /\ new.row \in PaymentRow /\ new.row.id = req[r].row.id
                /\ new.row.status \in {"requested", "submitted"}
                /\ new.pc # "created" => new.row.expires \in StoredExpiries
                /\ new.pc = "sent" => Pays(new.row.hash, new.row)
      PROVE  SettlementInv'
  <2>1. /\ req'[r] = new
        /\ \A q \in Requests \ {r} : req'[q] = req[q]
        /\ req' \in [Requests -> Sessions]
    BY <1>1, <1>4
  <2> HIDE DEF Sessions
  <2>2. RequestsOwnTheirIds'
    BY <1>1, <1>4, <2>1, OneSession
  <2> USE DEF Sessions
  <2>3. OwnTypes'
    BY <1>0, <1>1, <1>4, <2>1 DEF OwnTypes
  <2>4. nextId' >= nextId
    BY <1>0, <1>1, BoundAssumption DEF OwnTypes
  <2> QED BY <1>1, <1>2, <2>2, <2>3, <2>4, SessionFrame
<1>5. CASE LoadRequested(r)
  <2> DEFINE new == [pc |-> "loaded", row |-> Stored(req[r].row), nonce |-> req[r].nonce]
  <2>1. /\ req[r].pc = "created" /\ req[r].row \in PaymentRow
        /\ req[r].row.status \in {"requested", "submitted"}
    BY <1>3, <1>5 DEF LoadRequested
  <2>2. req' = [req EXCEPT ![r] = new]
    BY <1>5 DEF LoadRequested, Session
  <2>3. /\ Stored(req[r].row) \in PaymentRow
        /\ Stored(req[r].row).expires \in StoredExpiries
        /\ Stored(req[r].row).id = req[r].row.id
        /\ Stored(req[r].row).status = req[r].row.status
    BY <2>1, StoredRow
  <2>4. new \in Sessions /\ new.pc = "loaded" /\ new.row = Stored(req[r].row)
    BY <1>0, <2>3, SessionShape
  <2>5. pool' \subseteq Transactions
    BY <1>0, <1>5 DEF LoadRequested, OwnTypes, node
  <2> HIDE DEF new, Sessions
  <2> QED BY <1>4, <2>1, <2>2, <2>3, <2>4, <2>5
<1>6. CASE CheckBalance(r) \/ EstimateGas(r)
  <2> PICK pc \in {"funded", "estimated"} :
            /\ req' = [req EXCEPT ![r] = Session(pc, req[r].row, req[r].nonce)]
            /\ req[r].pc \in {"loaded", "nonced"}
            /\ pool' = pool
    BY <1>6 DEF CheckBalance, EstimateGas, Advance, node
  <2> DEFINE new == [pc |-> pc, row |-> req[r].row, nonce |-> req[r].nonce]
  <2>1. req' = [req EXCEPT ![r] = new]
    BY DEF Session
  <2>2. new \in Sessions /\ new.pc = pc /\ new.row = req[r].row
    BY <1>0, SessionShape
  <2>3. pool' \subseteq Transactions
    BY <1>0 DEF OwnTypes
  <2> HIDE DEF new, Sessions
  <2> QED BY <1>3, <1>4, <2>1, <2>2, <2>3
<1>7. CASE ReadNonce(r)
  <2> DEFINE new == [pc |-> "nonced", row |-> req[r].row, nonce |-> accountNonce]
  <2>1. req' = [req EXCEPT ![r] = new] /\ req[r].pc = "funded" /\ pool' = pool
    BY <1>7 DEF ReadNonce, Session, node
  <2>2. new \in Sessions /\ new.pc = "nonced" /\ new.row = req[r].row
    BY <1>0, <1>3, SessionShape
  <2>3. pool' \subseteq Transactions
    BY <1>0, <2>1 DEF OwnTypes
  <2> HIDE DEF new, Sessions
  <2> QED BY <1>3, <1>4, <2>1, <2>2, <2>3
<1>8. CASE SendTransaction(r)
  <2> DEFINE tx == Transaction(req[r].row, req[r].nonce)
             row == [req[r].row EXCEPT !.hash = tx, !.status = "submitted"]
             new == [pc |-> "sent", row |-> row, nonce |-> req[r].nonce]
  <2>1. /\ req[r].pc = "estimated"
        /\ req[r].row \in PaymentRow /\ req[r].row.expires \in StoredExpiries
        /\ req[r].nonce \in Nat
    BY <1>0, <1>3, <1>8, SessionShape DEF SendTransaction
  <2>2. tx \in Transactions /\ Pays(tx, req[r].row)
    BY <2>1, TransactionOfRow
  <2>3. req' = [req EXCEPT ![r] = new]
    BY <1>8 DEF SendTransaction, Session
  <2>4. pool' \subseteq Transactions
    BY <1>0, <1>8, <2>2 DEF OwnTypes, SendTransaction, SameNonce
  <2> HIDE DEF tx
  <2>5. /\ row \in PaymentRow /\ row.id = req[r].row.id
        /\ row.expires = req[r].row.expires /\ row.hash = tx
        /\ row.status = "submitted"
    BY <2>1, <2>2 DEF PaymentRow, Statuses
  <2>6. Pays(tx, row)
    BY <2>1, <2>2 DEF PaymentRow, Pays, BuildPaymentId
  <2>7. new \in Sessions /\ new.pc = "sent" /\ new.row = row
    BY <2>1, <2>5
  <2> HIDE DEF new, Sessions, row
  <2> QED BY <1>4, <2>1, <2>3, <2>4, <2>5, <2>6, <2>7
<1>9. CASE RollbackPayment(r) \/ LosePayment(r)
  <2>1. req' = [req EXCEPT ![r] = Idle] /\ pool' = pool
    BY <1>9 DEF RollbackPayment, LosePayment, node
  <2>2. Idle \in Sessions /\ Idle.pc = "idle"
    BY DEF Idle, Session
  <2>3. pool' \subseteq Transactions
    BY <1>0, <2>1 DEF OwnTypes
  <2> HIDE DEF Sessions
  <2> QED BY <1>4, <2>1, <2>2, <2>3
<1> QED BY <1>5, <1>6, <1>7, <1>8, <1>9

\* The commit puts the row of a request where no row was; verifications hold rows
\* with other ids.
LEMMA CommitInv ==
    ASSUME SettlementInv, NEW r \in Requests, CommitPayment(r)
    PROVE  SettlementInv'
<1> DEFINE row == req[r].row
<1>0. OwnTypes /\ P!TypeOK
  BY TypesSplit DEF SettlementInv
<1>1. /\ req[r].pc = "sent"
      /\ rows' = [rows EXCEPT ![row.id] = Stored(row)]
      /\ req' = [req EXCEPT ![r] = Idle]
      /\ UNCHANGED <<nextId, ver, pool, accountNonce, receipts, outside, contractVars>>
  BY DEF CommitPayment, node
<1>2. /\ row \in PaymentRow /\ row.id < nextId /\ rows[row.id] = NoRow
      /\ row.status \in {"requested", "submitted"}
      /\ row.expires \in StoredExpiries /\ Pays(row.hash, row)
      /\ \A q \in Requests \ {r} : req[q].pc # "idle" => req[q].row.id # row.id
  BY <1>1 DEF SettlementInv, RequestsOwnTheirIds
<1>3. Stored(row) = row /\ row.id \in Ids
  BY <1>2, StoredRow DEF PaymentRow
<1> HIDE DEF row
<1>4. /\ rows'[row.id] = row
      /\ \A i \in Ids \ {row.id} : rows'[i] = rows[i]
      /\ rows' \in [Ids -> PaymentRow \union {NoRow}]
  BY <1>0, <1>1, <1>2, <1>3 DEF OwnTypes
<1>5. Idle.pc = "idle" /\ Idle \in [pc : {"idle", "created", "loaded", "funded", "nonced",
                  "estimated", "sent"}, row : PaymentRow \union {NoRow}, nonce : Nat]
  BY DEF Idle, Session
<1>6. /\ req'[r].pc = "idle"
      /\ \A q \in Requests \ {r} : req'[q] = req[q]
  BY <1>0, <1>1, <1>5 DEF OwnTypes
<1>7. OwnTypes'
  BY <1>0, <1>1, <1>4, <1>5 DEF OwnTypes
<1>8. P!TypeOK'
  BY <1>0, <1>1 DEF contractVars, P!TypeOK, P!PaymentProcessedEvents
<1>9. RowsAreSubmitted'
  <2> SUFFICES ASSUME NEW i \in Ids, rows'[i] # NoRow
               PROVE  /\ rows'[i].id = i /\ i < nextId'
                      /\ rows'[i].expires \in StoredExpiries
                      /\ Pays(rows'[i].hash, rows'[i])
    BY DEF RowsAreSubmitted, Committed, Pays
  <2>1. CASE i = row.id
    BY <1>1, <1>2, <1>4, <2>1
  <2>2. CASE i # row.id
    BY <1>1, <1>4, <2>2 DEF SettlementInv, RowsAreSubmitted, Committed
  <2> QED BY <2>1, <2>2
<1>10. RequestsOwnTheirIds'
  <2> SUFFICES ASSUME NEW q \in Requests, req'[q].pc # "idle"
               PROVE  /\ req'[q].row \in PaymentRow
                      /\ req'[q].row.status \in {"requested", "submitted"}
                      /\ req'[q].row.id < nextId'
                      /\ rows'[req'[q].row.id] = NoRow
                      /\ \A p \in Requests \ {q} :
                            req'[p].pc # "idle" => req'[p].row.id # req'[q].row.id
                      /\ req'[q].pc # "created" => req'[q].row.expires \in StoredExpiries
                      /\ req'[q].pc = "sent" => Pays(req'[q].row.hash, req'[q].row)
    BY DEF RequestsOwnTheirIds, Pays
  <2>1. q # r /\ req'[q] = req[q]
    BY <1>6
  <2>2. req[q].row \in PaymentRow /\ req[q].row.id # row.id /\ req[q].row.id \in Ids
    BY <1>2, <2>1 DEF SettlementInv, RequestsOwnTheirIds, PaymentRow
  <2>3. rows'[req[q].row.id] = NoRow
    BY <1>4, <2>1, <2>2 DEF SettlementInv, RequestsOwnTheirIds
  <2> QED BY <1>1, <1>6, <2>1, <2>3 DEF SettlementInv, RequestsOwnTheirIds
<1>11. ReceiptsAreTrue'
  BY <1>1 DEF SettlementInv, ReceiptsAreTrue, contractVars
<1>12. VerifiersAreRight'
  <2> SUFFICES ASSUME NEW v \in Verifiers, ver[v].pc # "idle"
               PROVE  /\ ver[v].row \in PaymentRow
                      /\ rows'[ver[v].row.id] # NoRow
                      /\ ver[v].row = [rows'[ver[v].row.id] EXCEPT !.status = ver[v].row.status]
                      /\ ver[v].row.status # "verify_failed"
                      /\ ver[v].row.status = "paid" => Settled(ver[v].row)
                      /\ ver[v].pc = "decided" =>
                            /\ ver[v].verdict # "verify_failed"
                            /\ ver[v].verdict = "paid" => Settled(ver[v].row)
    BY <1>1 DEF VerifiersAreRight, Settled, contractVars
  <2>1. ver[v].row \in PaymentRow /\ ver[v].row.id # row.id
    BY <1>2 DEF SettlementInv, VerifiersAreRight
  <2>2. rows'[ver[v].row.id] = rows[ver[v].row.id]
    BY <1>4, <2>1 DEF PaymentRow
  <2> QED BY <2>2 DEF SettlementInv, VerifiersAreRight
<1>13. PaidMeansSettled' /\ NeverVerifyFailed'
  <2>1. \A i \in Ids : rows'[i] # NoRow =>
            /\ rows'[i].status = "paid" => Settled(rows'[i])
            /\ rows'[i].status # "verify_failed"
    <3> SUFFICES ASSUME NEW i \in Ids, rows'[i] # NoRow
                 PROVE  /\ rows'[i].status = "paid" => Settled(rows'[i])
                        /\ rows'[i].status # "verify_failed"
      OBVIOUS
    <3>1. CASE i = row.id
      BY <1>2, <1>4, <3>1
    <3>2. CASE i # row.id
      BY <1>4, <3>2 DEF SettlementInv, PaidMeansSettled, NeverVerifyFailed, Committed
    <3> QED BY <3>1, <3>2
  <2> QED BY <1>1, <2>1 DEF PaidMeansSettled, NeverVerifyFailed, Committed, Settled,
             contractVars
<1> QED
  BY <1>7, <1>8, <1>9, <1>10, <1>11, <1>12, <1>13, TypesSplitNext DEF SettlementInv

\* What VerifiersAreRight asks of one verification s.
IsRight(s) ==
    /\ s.row \in PaymentRow
    /\ rows[s.row.id] # NoRow
    /\ s.row = [rows[s.row.id] EXCEPT !.status = s.row.status]
    /\ s.row.status # "verify_failed"
    /\ s.row.status = "paid" => Settled(s.row)
    /\ s.pc = "decided" => /\ s.verdict # "verify_failed"
                           /\ s.verdict = "paid" => Settled(s.row)

LEMMA VerifiersSplit ==
    VerifiersAreRight <=> \A v \in Verifiers : ver[v].pc # "idle" => IsRight(ver[v])
  BY DEF VerifiersAreRight, IsRight

LEMMA VerifiersSplitNext ==
    VerifiersAreRight' <=> \A v \in Verifiers : ver'[v].pc # "idle" => IsRight(ver[v])'
  BY DEF VerifiersAreRight, IsRight

\* The verdict on the receipt of a row's transaction is "paid" only if the chain
\* settled the row, and never "verify_failed": the id that is hashed again is the
\* id in the event, and only a reverted call leaves no event.
LEMMA VerdictIsRight ==
    ASSUME ReceiptsAreTrue, NEW row \in PaymentRow, Pays(row.hash, row),
           NEW rc \in receipts, rc.tx = row.hash
    PROVE  /\ Verdict(row, rc) \in {"paid", "tx_failed"}
           /\ Verdict(row, rc) = "paid" => Settled(row)
<1>1. CASE rc.status = 0
  BY <1>1 DEF Verdict
<1>2. CASE rc.status # 0
  <2>1. /\ rc.logs = {EventOf(row.hash)}
        /\ \E k \in DOMAIN events : events[k] = EventOf(row.hash)
    BY <1>2 DEF ReceiptsAreTrue
  <2>2. ValidatePaymentProcessedEvent(row, EventOf(row.hash))
    BY DEF ValidatePaymentProcessedEvent, EventOf, P!PaymentProcessed, Pays,
           ExpectedPaymentIds
  <2>3. Verdict(row, rc) = "paid"
    BY <1>2, <2>1, <2>2 DEF Verdict
  <2>4. Settled(row)
    BY <2>1, EventOfRow DEF Settled
  <2> QED BY <2>3, <2>4
<1> QED BY <1>1, <1>2

\* A verification before its commit only has to account for its own session.
LEMMA VerificationInv ==
    ASSUME SettlementInv, NEW v \in Verifiers,
           \/ \E id \in Ids : LoadPayment(v, id)
           \/ GetReceipt(v) \/ TransactionNotFound(v) \/ RollbackVerification(v)
    PROVE  SettlementInv'
<1> DEFINE Verifications == [pc : {"idle", "loaded", "decided"},
                             row : PaymentRow \union {NoRow}, verdict : Statuses]
<1>0. OwnTypes /\ P!TypeOK
  BY TypesSplit DEF SettlementInv
<1>1. UNCHANGED <<rows, nextId, req, pool, accountNonce, receipts, outside, contractVars>>
  BY DEF LoadPayment, GetReceipt, TransactionNotFound, RollbackVerification, node
<1>2. ver \in [Verifiers -> Verifications]
  BY <1>0 DEF OwnTypes
<1>3. ASSUME NEW new \in Verifications, ver' = [ver EXCEPT ![v] = new],
             new.pc # "idle" => IsRight(new)
      PROVE  SettlementInv'
  <2> HIDE DEF Verifications
  <2>1. /\ ver'[v] = new
        /\ \A u \in Verifiers \ {v} : ver'[u] = ver[u]
        /\ ver' \in [Verifiers -> Verifications]
    BY <1>2, <1>3
  <2>2. OwnTypes'
    BY <1>0, <1>1, <2>1 DEF OwnTypes, Verifications
  <2>3. P!TypeOK'
    BY <1>0, <1>1 DEF contractVars, P!TypeOK, P!PaymentProcessedEvents
  <2>4. VerifiersAreRight'
    <3> SUFFICES ASSUME NEW u \in Verifiers, ver'[u].pc # "idle"
                 PROVE  IsRight(ver[u])'
      BY VerifiersSplitNext
    <3>1. IsRight(ver'[u])
      BY <1>3, <2>1, VerifiersSplit DEF SettlementInv
    <3> QED BY <1>1, <3>1 DEF IsRight, Settled, contractVars
  <2>5. RowsAreSubmitted' /\ RequestsOwnTheirIds' /\ ReceiptsAreTrue'
    BY <1>1 DEF SettlementInv, RowsAreSubmitted, RequestsOwnTheirIds, ReceiptsAreTrue,
                Committed, contractVars
  <2>6. PaidMeansSettled' /\ NeverVerifyFailed'
    BY <1>1 DEF SettlementInv, PaidMeansSettled, NeverVerifyFailed, Committed, Settled,
                contractVars
  <2> QED BY <2>2, <2>3, <2>4, <2>5, <2>6, TypesSplitNext DEF SettlementInv
<1>4. ASSUME NEW id \in Ids, LoadPayment(v, id) PROVE SettlementInv'
  <2> DEFINE new == Verification("loaded", rows[id], "requested")
  <2>1. ver' = [ver EXCEPT ![v] = new] /\ id \in Committed
    BY <1>4 DEF LoadPayment, Committed
  <2>2. /\ rows[id] \in PaymentRow /\ rows[id].id = id
        /\ rows[id].status = "paid" => Settled(rows[id])
        /\ rows[id].status # "verify_failed"
        /\ rows[id] # NoRow
    BY <1>0, <2>1 DEF SettlementInv, RowsAreSubmitted, PaidMeansSettled, NeverVerifyFailed,
       OwnTypes, Committed
  <2>3. rows[id] = [rows[id] EXCEPT !.status = rows[id].status]
    BY <2>2 DEF PaymentRow
  <2>4. new.row = rows[id] /\ new.pc = "loaded" /\ new \in Verifications
    BY <2>2 DEF Verification, Statuses
  <2> HIDE DEF new, Verifications
  <2>5. IsRight(new)
    BY <2>2, <2>3, <2>4 DEF IsRight
  <2> QED BY <1>3, <2>1, <2>4, <2>5
<1>5. ASSUME NEW status \in Statuses, Decide(v, status),
             ver[v].pc = "loaded", status # "verify_failed",
             status = "paid" => Settled(ver[v].row)
      PROVE  SettlementInv'
  <2> DEFINE new == Verification("decided", ver[v].row, status)
  <2>1. ver' = [ver EXCEPT ![v] = new]
    BY <1>5 DEF Decide
  <2>2. IsRight(ver[v])
    BY <1>5, VerifiersSplit DEF SettlementInv
  <2>3. new.row = ver[v].row /\ new.verdict = status /\ new.pc = "decided"
    BY DEF Verification
  <2>4. new \in Verifications
    BY <2>2 DEF Verification, IsRight
  <2> HIDE DEF new, Verifications
  <2>5. IsRight(new)
    BY <1>5, <2>2, <2>3 DEF IsRight
  <2> QED BY <1>3, <2>1, <2>4, <2>5
<1>6. CASE GetReceipt(v)
  <2>1. PICK rc \in ReceiptsOf(ver[v].row.hash) : Decide(v, Verdict(ver[v].row, rc))
    BY <1>6 DEF GetReceipt
  <2>2. ver[v].pc = "loaded" /\ IsRight(ver[v])
    BY <1>6, VerifiersSplit DEF GetReceipt, SettlementInv
  <2>3. Pays(ver[v].row.hash, ver[v].row)
    <3> DEFINE row == ver[v].row
               old == rows[row.id]
    <3>1. row \in PaymentRow /\ row.id \in Committed /\ row = [old EXCEPT !.status = row.status]
      BY <2>2 DEF IsRight, Committed, PaymentRow
    <3>2. old \in PaymentRow /\ Pays(old.hash, old)
      BY <1>0, <3>1 DEF SettlementInv, RowsAreSubmitted, OwnTypes, Committed
    <3>3. row.status \in Statuses
      BY <3>1 DEF PaymentRow
    <3> HIDE DEF row, old
    <3>4. ASSUME NEW status \in Statuses, row = [old EXCEPT !.status = status]
          PROVE  row.hash = old.hash /\ Pays(old.hash, row)
      BY <3>2, <3>4, StatusOfRow
    <3>5. row.hash = old.hash /\ Pays(old.hash, row)
      BY <3>1, <3>3, <3>4
    <3> QED BY <3>5 DEF row
  <2>4. rc \in receipts /\ rc.tx = ver[v].row.hash
    BY <2>1 DEF ReceiptsOf
  <2>5. /\ Verdict(ver[v].row, rc) \in {"paid", "tx_failed"}
        /\ Verdict(ver[v].row, rc) = "paid" => Settled(ver[v].row)
    BY <2>2, <2>3, <2>4, VerdictIsRight DEF IsRight, SettlementInv
  <2> QED BY <1>5, <2>1, <2>2, <2>5 DEF Statuses
<1>7. CASE TransactionNotFound(v)
  BY <1>5, <1>7 DEF TransactionNotFound, Statuses
<1>8. CASE RollbackVerification(v)
  <2>1. ver' = [ver EXCEPT ![v] = VerifierIdle]
    BY <1>8 DEF RollbackVerification
  <2>2. VerifierIdle \in Verifications /\ VerifierIdle.pc = "idle"
    BY DEF VerifierIdle, Verification, Statuses
  <2> HIDE DEF Verifications
  <2> QED BY <1>3, <2>1, <2>2
<1> QED BY <1>4, <1>6, <1>7, <1>8

\* Saving a status changes nothing else of the committed row, so that the other
\* verifications of the row still hold it but for its status.
LEMMA SaveInv ==
    ASSUME SettlementInv, NEW v \in Verifiers, SaveStatus(v)
    PROVE  SettlementInv'
<1> DEFINE Verifications == [pc : {"idle", "loaded", "decided"},
                             row : PaymentRow \union {NoRow}, verdict : Statuses]
           i == ver[v].row.id
           old == rows[i]
<1>0. OwnTypes /\ P!TypeOK
  BY TypesSplit DEF SettlementInv
<1>1. /\ ver[v].pc = "decided"
      /\ ver' = [ver EXCEPT ![v] = VerifierIdle]
      /\ UNCHANGED <<nextId, req, pool, accountNonce, receipts, outside, contractVars>>
  BY DEF SaveStatus, node
<1>2. IsRight(ver[v])
  BY <1>1, VerifiersSplit DEF SettlementInv
<1>3. /\ i \in Ids /\ i \in Committed /\ old \in PaymentRow
      /\ ver[v].row \in PaymentRow /\ ver[v].verdict \in Statuses
  BY <1>0, <1>2 DEF IsRight, PaymentRow, Committed, OwnTypes
<1>4. /\ old.id = i /\ i < nextId /\ old.expires \in StoredExpiries
      /\ Pays(old.hash, old)
      /\ old.status # "verify_failed"
      /\ old.status = "paid" => Settled(old)
  BY <1>3 DEF SettlementInv, RowsAreSubmitted, PaidMeansSettled, NeverVerifyFailed
<1>5. Settled(ver[v].row) <=> Settled(old)
  <2>1. ASSUME NEW status \in Statuses, ver[v].row = [old EXCEPT !.status = status]
        PROVE  SettlementOf(ver[v].row) = SettlementOf(old)
    BY <1>3, <2>1, StatusOfRow
  <2>2. SettlementOf(ver[v].row) = SettlementOf(old)
    BY <1>2, <1>3, <2>1 DEF IsRight, PaymentRow
  <2> QED BY <2>2 DEF Settled
<1>6. PICK status \in Statuses :
        /\ rows' = [rows EXCEPT ![i] = [old EXCEPT !.status = status]]
        /\ status # "verify_failed"
        /\ status = "paid" => Settled(old)
  <2>1. CASE ver[v].verdict = ver[v].row.status
    <3>1. [old EXCEPT !.status = old.status] = old /\ old.status \in Statuses
      BY <1>3 DEF PaymentRow
    <3>2. rows' = rows
      BY <2>1 DEF SaveStatus
    <3> QED BY <1>0, <1>4, <3>1, <3>2 DEF OwnTypes
  <2>2. CASE ver[v].verdict # ver[v].row.status
    <3>1. rows' = [rows EXCEPT ![i] = [old EXCEPT !.status = ver[v].verdict]]
      BY <2>2 DEF SaveStatus
    <3> QED BY <1>1, <1>2, <1>3, <1>5, <3>1 DEF IsRight
  <2> QED BY <2>1, <2>2
<1> DEFINE new == [old EXCEPT !.status = status]
<1>7. /\ new \in PaymentRow
      /\ new.id = i /\ new.status = status /\ new.hash = old.hash
      /\ new.expires = old.expires
      /\ SettlementOf(new) = SettlementOf(old)
      /\ Pays(new.hash, new)
  BY <1>3, <1>4, StatusOfRow
<1>8. \A s \in Statuses : [new EXCEPT !.status = s] = [old EXCEPT !.status = s]
  BY <1>3 DEF PaymentRow
<1> HIDE DEF new, old, i
<1>9. /\ rows'[i] = new
      /\ \A j \in Ids \ {i} : rows'[j] = rows[j]
      /\ rows' \in [Ids -> PaymentRow \union {NoRow}]
  BY <1>0, <1>3, <1>6, <1>7 DEF OwnTypes, new
<1>10. rows[i] # NoRow /\ rows'[i] # NoRow
  BY <1>3, <1>7, <1>9, NoneAssumption DEF Committed
<1>11. VerifierIdle \in Verifications /\ VerifierIdle.pc = "idle"
  BY DEF VerifierIdle, Verification, Statuses
<1>12. /\ ver \in [Verifiers -> Verifications]
       /\ ver' \in [Verifiers -> Verifications]
       /\ ver'[v].pc = "idle"
       /\ \A u \in Verifiers \ {v} : ver'[u] = ver[u]
  <2>1. ver \in [Verifiers -> Verifications]
    BY <1>0 DEF OwnTypes
  <2> HIDE DEF Verifications
  <2> QED BY <1>1, <1>11, <2>1
<1>13. OwnTypes'
  BY <1>0, <1>1, <1>9, <1>12 DEF OwnTypes
<1>14. P!TypeOK'
  BY <1>0, <1>1 DEF contractVars, P!TypeOK, P!PaymentProcessedEvents
<1>15. \A row : Settled(row)' <=> Settled(row)
  BY <1>1 DEF Settled, contractVars
<1>16. RowsAreSubmitted'
  <2> SUFFICES ASSUME NEW j \in Ids, rows'[j] # NoRow
               PROVE  /\ rows'[j].id = j /\ j < nextId'
                      /\ rows'[j].expires \in StoredExpiries
                      /\ Pays(rows'[j].hash, rows'[j])
    BY DEF RowsAreSubmitted, Committed, Pays
  <2>1. CASE j = i
    BY <1>1, <1>4, <1>7, <1>9, <2>1
  <2>2. CASE j # i
    BY <1>1, <1>9, <2>2 DEF SettlementInv, RowsAreSubmitted, Committed
  <2> QED BY <2>1, <2>2
<1>17. RequestsOwnTheirIds'
  <2> SUFFICES ASSUME NEW q \in Requests, req[q].pc # "idle"
               PROVE  rows'[req[q].row.id] = NoRow
    BY <1>1 DEF SettlementInv, RequestsOwnTheirIds, Pays
  <2>1. req[q].row \in PaymentRow /\ rows[req[q].row.id] = NoRow
    BY DEF SettlementInv, RequestsOwnTheirIds
  <2> QED BY <1>9, <1>10, <2>1 DEF PaymentRow
<1>18. ReceiptsAreTrue'
  BY <1>1 DEF SettlementInv, ReceiptsAreTrue, contractVars
<1>19. VerifiersAreRight'
  <2> SUFFICES ASSUME NEW u \in Verifiers, ver'[u].pc # "idle" PROVE IsRight(ver[u])'
    BY VerifiersSplitNext
  <2>1. u # v /\ ver'[u] = ver[u] /\ IsRight(ver[u])
    BY <1>12, VerifiersSplit DEF SettlementInv
  <2>2. /\ rows'[ver[u].row.id] # NoRow
        /\ ver[u].row = [rows'[ver[u].row.id] EXCEPT !.status = ver[u].row.status]
    <3>1. CASE ver[u].row.id = i
      <4>1. ver[u].row = [old EXCEPT !.status = ver[u].row.status]
        BY <2>1, <3>1 DEF IsRight, old
      <4>2. ver[u].row.status \in Statuses
        BY <2>1 DEF IsRight, PaymentRow
      <4> QED BY <1>8, <1>9, <1>10, <3>1, <4>1, <4>2
    <3>2. CASE ver[u].row.id # i
      <4>1. rows'[ver[u].row.id] = rows[ver[u].row.id]
        BY <1>9, <2>1, <3>2 DEF IsRight, PaymentRow
      <4> QED BY <2>1, <4>1 DEF IsRight
    <3> QED BY <3>1, <3>2
  <2> QED BY <1>15, <2>1, <2>2 DEF IsRight
<1>20. PaidMeansSettled' /\ NeverVerifyFailed'
  <2>1. Settled(new) <=> Settled(old)
    BY <1>7 DEF Settled
  <2> SUFFICES ASSUME NEW j \in Ids, rows'[j] # NoRow
               PROVE  /\ rows'[j].status = "paid" => Settled(rows'[j])
                      /\ rows'[j].status # "verify_failed"
    BY <1>1 DEF PaidMeansSettled, NeverVerifyFailed, Committed, Settled, contractVars
  <2>2. CASE j = i
    BY <1>6, <1>7, <1>9, <2>1, <2>2
  <2>3. CASE j # i
    BY <1>9, <2>3 DEF SettlementInv, PaidMeansSettled, NeverVerifyFailed, Committed
  <2> QED BY <2>2, <2>3
<1> QED
  BY <1>13, <1>14, <1>16, <1>17, <1>18, <1>19, <1>20, TypesSplitNext DEF SettlementInv

\* A block adds one receipt and, if the call does not revert, its event.
LEMMA MineInv ==
    ASSUME SettlementInv, NEW tx \in pool, Mine(tx), P!TypeOK'
    PROVE  SettlementInv'
<1>0. OwnTypes /\ P!TypeOK
  BY TypesSplit DEF SettlementInv
<1>1. tx \in Transactions
  BY <1>0 DEF OwnTypes
<1>2. /\ UNCHANGED <<rows, nextId, req, ver, outside>>
      /\ pool' = pool \ {tx} /\ accountNonce' = accountNonce + 1
  BY DEF Mine
<1>3. \/ /\ events' = Append(events, EventOf(tx))
         /\ tx.amount # 0
         /\ receipts' = receipts \union {[tx |-> tx, status |-> 1, logs |-> {EventOf(tx)}]}
      \/ /\ events' = events
         /\ receipts' = receipts \union {[tx |-> tx, status |-> 0, logs |-> {}]}
  BY DEF Mine, P!Pay, P!PaySucceeds, EventOf, contractVars
<1>4. tx.amount # 0 => EventOf(tx) \in P!PaymentProcessedEvents
  BY <1>1, AccountAssumption DEF EventOf, P!PaymentProcessed, P!PaymentProcessedEvents,
     Transactions
<1>5. OwnTypes'
  BY <1>0, <1>1, <1>2, <1>3, <1>4 DEF OwnTypes
<1>6. events' = events \/ \E e : events' = Append(events, e)
  BY <1>3
<1>7. ReceiptsAreTrue'
  <2> SUFFICES ASSUME NEW rc \in receipts'
               PROVE  \/ rc.status = 0 /\ rc.logs = {}
                      \/ /\ rc.status = 1 /\ rc.logs = {EventOf(rc.tx)}
                         /\ \E k \in DOMAIN events' : events'[k] = EventOf(rc.tx)
    BY DEF ReceiptsAreTrue, EventOf, P!PaymentProcessed
  <2>1. CASE rc \in receipts
    <3>1. ASSUME NEW x, \E k \in DOMAIN events : events[k] = x
          PROVE  \E k \in DOMAIN events' : events'[k] = x
      BY <1>0, <1>6, <3>1, SettledStays
    <3> QED BY <2>1, <3>1 DEF SettlementInv, ReceiptsAreTrue
  <2>2. CASE rc \notin receipts
    <3>1. events \in Seq(P!PaymentProcessedEvents)
      BY <1>0 DEF P!TypeOK
    <3>2. tx.amount # 0 /\ events' = Append(events, EventOf(tx)) =>
            /\ Len(events) + 1 \in DOMAIN events'
            /\ events'[Len(events) + 1] = EventOf(tx)
      BY <1>4, <3>1
    <3> QED BY <1>3, <2>2, <3>2
  <2> QED BY <2>1, <2>2
<1> QED BY <1>2, <1>5, <1>6, <1>7, ChainFrame

\* What else happens on the chain adds no event but those of the contract's calls.
LEMMA ChainInv ==
    ASSUME SettlementInv, NodeStep, P!TypeOK'
    PROVE  SettlementInv'
<1>0. OwnTypes /\ P!TypeOK
  BY TypesSplit DEF SettlementInv
<1>1. ASSUME UNCHANGED <<rows, nextId, req, ver, receipts, events>>, OwnTypes'
      PROVE  SettlementInv'
  BY <1>1, ChainFrame DEF ReceiptsAreTrue, SettlementInv
<1>2. ASSUME NEW tx \in pool, Evict(tx) PROVE SettlementInv'
  <2>1. UNCHANGED <<rows, nextId, req, ver, receipts, events>>
    BY <1>2 DEF Evict, contractVars
  <2>2. OwnTypes'
    BY <1>0, <1>2 DEF Evict, OwnTypes, contractVars
  <2> QED BY <1>1, <2>1, <2>2
<1>3. ASSUME NEW a \in Accounts, NEW value \in Amounts, PermitMined(a, value)
      PROVE  SettlementInv'
  <2>1. UNCHANGED <<rows, nextId, req, ver, receipts, events>>
    BY <1>3 DEF PermitMined, OutsideBudget, P!Approve, P!roles
  <2>2. OwnTypes'
    BY <1>0, <1>3, BoundAssumption DEF PermitMined, OutsideBudget, OwnTypes
  <2> QED BY <1>1, <2>1, <2>2
<1>4. ASSUME ChainStep PROVE SettlementInv'
  <2>1. UNCHANGED <<rows, nextId, req, ver, receipts, events, pool, accountNonce>>
    BY <1>4 DEF ChainStep, OutsideBudget, P!OwnerStep, P!HolderStep, P!Approve, P!Transfer,
       P!SetToken, P!SetOperator, P!TransferOwnership, P!roles, P!ledger
  <2>2. OwnTypes'
    BY <1>0, <1>4, <2>1, BoundAssumption DEF ChainStep, OutsideBudget, OwnTypes
  <2> QED BY <1>1, <2>1, <2>2
<1> QED BY <1>2, <1>3, <1>4, MineInv DEF NodeStep

\* Every step keeps the invariant.
LEMMA NextInv == SettlementInv /\ [Next]_vars => SettlementInv'
<1> SUFFICES ASSUME SettlementInv, [Next]_vars PROVE SettlementInv'
  OBVIOUS
<1>1. P!TypeOK'
  BY NextContractTypes DEF SettlementInv
<1>2. CASE NodeStep
  BY <1>1, <1>2, ChainInv
<1>3. ASSUME NEW r \in Requests, RequestStep(r) PROVE SettlementInv'
  BY <1>3, CreateInv, SessionInv, CommitInv DEF RequestStep
<1>4. ASSUME NEW v \in Verifiers, VerifierStep(v) PROVE SettlementInv'
  BY <1>4, VerificationInv, SaveInv DEF VerifierStep
<1>5. CASE UNCHANGED vars
  BY <1>5, TypesSplit, TypesSplitNext
     DEF vars, node, contractVars, SettlementInv, OwnTypes, P!TypeOK,
         P!PaymentProcessedEvents, RowsAreSubmitted, RequestsOwnTheirIds, ReceiptsAreTrue,
         VerifiersAreRight, PaidMeansSettled, NeverVerifyFailed, Committed, Settled
<1> QED BY <1>2, <1>3, <1>4, <1>5 DEF Next

-----------------------------------------------------------------------------
(* Theorems *)

\* Whatever workers, node and faults do, the invariant holds.
THEOREM SettlementInvariant == Spec => []SettlementInv
<1>1. Init => SettlementInv
  BY InitInv
<1>2. SettlementInv /\ [Next]_vars => SettlementInv'
  BY NextInv
<1> QED BY <1>1, <1>2, PTL DEF Spec

\* Rows, sessions, transactions, receipts and the contract stay well typed.
THEOREM TypeCorrect == Spec => []TypeOK
<1>1. SettlementInv => TypeOK
  BY DEF SettlementInv
<1> QED BY <1>1, SettlementInvariant, PTL

\* A row is only ever PAID if the contract moved exactly its amount between its
\* wallets under its own payment id (_validate_payment_processed_event).
THEOREM PaidIsSettled == Spec => []PaidMeansSettled
<1>1. SettlementInv => PaidMeansSettled
  BY DEF SettlementInv
<1> QED BY <1>1, SettlementInvariant, PTL

\* No payment ends as VERIFY_FAILED: the reload in execute_payment makes the two
\* hashes of expires_at agree.
THEOREM NoVerifyFailure == Spec => []NeverVerifyFailed
<1>1. SettlementInv => NeverVerifyFailed
  BY DEF SettlementInv
<1> QED BY <1>1, SettlementInvariant, PTL
=============================================================================
