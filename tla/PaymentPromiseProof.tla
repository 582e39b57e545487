------------------------- MODULE PaymentPromiseProof -------------------------
(***************************************************************************)
(* Proofs about what Payment promises its clients and owes the node: no    *)
(* payment is broadcast twice, failures are final, outcomes never flip,    *)
(* the operator account is used one transaction at a time, and without a   *)
(* lost request no transaction is unknown to the database.                 *)
(***************************************************************************)
EXTENDS PaymentProof

-----------------------------------------------------------------------------
(* What the steps do. *)

\* A step of a request changes its own session, may add a transaction or a row,
\* and leaves the chain as it is.
LEMMA RequestEffect ==
    ASSUME SettlementInv, NEW r \in Requests, RequestStep(r)
    PROVE  /\ UNCHANGED <<accountNonce, receipts, ver, outside, contractVars>>
           /\ \A q \in Requests \ {r} : req'[q] = req[q]
           /\ \/ /\ req[r].pc = "idle" /\ req'[r].pc = "created"
                 /\ req'[r].row.id = nextId /\ nextId' = nextId + 1
                 /\ UNCHANGED <<rows, pool>>
              \/ /\ req[r].pc \notin {"idle", "sent"}
                 /\ req'[r].pc \in {"loaded", "funded", "nonced", "estimated"}
                 /\ req'[r].row.id = req[r].row.id
                 /\ req'[r].pc \in {"nonced", "estimated"} =>
                        \/ req'[r].nonce = accountNonce
                        \/ req[r].pc = "nonced" /\ req'[r].nonce = req[r].nonce
                 /\ UNCHANGED <<rows, nextId, pool>>
              \/ SendTransaction(r) /\ req'[r].pc = "sent"
              \/ CommitPayment(r) /\ req'[r].pc = "idle"
              \/ /\ req'[r].pc = "idle"
                 /\ \/ req[r].pc # "sent"
                    \/ "lost" \in Faults
                 /\ UNCHANGED <<rows, nextId, pool>>
<1>0. OwnTypes
  BY TypesSplit DEF SettlementInv
<1>1. ASSUME NEW x, req' = [req EXCEPT ![r] = x]
      PROVE  req'[r] = x /\ \A q \in Requests \ {r} : req'[q] = req[q]
  BY <1>0, <1>1 DEF OwnTypes
<1>2. req[r].pc # "idle" => req[r].row \in PaymentRow
  BY DEF SettlementInv, RequestsOwnTheirIds
<1>3. ASSUME NEW sw \in StoreWallets, NEW uw \in UserWallets, NEW amount \in Amounts,
             NEW now \in Instants, CreatePaymentRequest(r, sw, uw, amount, now)
      PROVE  /\ req[r].pc = "idle" /\ req'[r].pc = "created"
             /\ req'[r].row.id = nextId /\ nextId' = nextId + 1
  <2> DEFINE row == [id |-> nextId, from |-> uw.address, to |-> sw.address,
                     amount |-> amount, chain |-> sw.chain, expires |-> now + Ttl,
                     status |-> "requested", hash |-> NoHash]
             new == Session("created", row, 0)
  <2>1. /\ req' = [req EXCEPT ![r] = new]
        /\ req[r].pc = "idle" /\ nextId' = nextId + 1
    BY <1>3 DEF CreatePaymentRequest
  <2>2. new.pc = "created" /\ new.row.id = nextId
    BY DEF Session
  <2> HIDE DEF new
  <2> QED BY <1>1, <2>1, <2>2
<1>4. ASSUME LoadRequested(r)
      PROVE  /\ req[r].pc = "created" /\ req'[r].pc = "loaded"
             /\ req'[r].row.id = req[r].row.id
  <2>1. Stored(req[r].row).id = req[r].row.id
    BY <1>2, <1>4, StoredRow DEF LoadRequested
  <2> DEFINE new == Session("loaded", Stored(req[r].row), req[r].nonce)
  <2>2. req[r].pc = "created" /\ req' = [req EXCEPT ![r] = new]
    BY <1>4 DEF LoadRequested
  <2>3. new.pc = "loaded" /\ new.row = Stored(req[r].row)
    BY DEF Session
  <2> HIDE DEF new
  <2> QED BY <1>1, <2>1, <2>2, <2>3
<1>5. ASSUME NEW from, NEW to, Advance(r, from, to)
      PROVE  /\ req[r].pc = from /\ req'[r].pc = to
             /\ req'[r].row = req[r].row /\ req'[r].nonce = req[r].nonce
  BY <1>0, <1>5 DEF Advance, Session, OwnTypes
<1>6. ASSUME ReadNonce(r)
      PROVE  /\ req[r].pc = "funded" /\ req'[r].pc = "nonced"
             /\ req'[r].row = req[r].row /\ req'[r].nonce = accountNonce
  BY <1>0, <1>6 DEF ReadNonce, Session, OwnTypes
<1>7. ASSUME SendTransaction(r) PROVE req'[r].pc = "sent"
  BY <1>0, <1>7 DEF SendTransaction, Session, OwnTypes
<1>8. ASSUME \/ CommitPayment(r) \/ RollbackPayment(r) \/ LosePayment(r)
       PROVE  req'[r].pc = "idle"
  BY <1>0, <1>8 DEF CommitPayment, RollbackPayment, LosePayment, Idle, Session, OwnTypes
<1>9. /\ UNCHANGED <<accountNonce, receipts, ver, outside, contractVars>>
       /\ \E x : req' = [req EXCEPT ![r] = x]
  BY DEF RequestStep, CreatePaymentRequest, LoadRequested, CheckBalance, ReadNonce,
     EstimateGas, SendTransaction, CommitPayment, RollbackPayment, LosePayment, Advance, node
<1>10. \A q \in Requests \ {r} : req'[q] = req[q]
  BY <1>1, <1>9
<1>11. CASE \E sw \in StoreWallets, uw \in UserWallets, amount \in Amounts, now \in Instants :
              CreatePaymentRequest(r, sw, uw, amount, now)
  <2>1. UNCHANGED <<rows, pool>>
    BY <1>11 DEF CreatePaymentRequest, node
  <2> QED BY <1>3, <1>9, <1>10, <1>11, <2>1
<1>12. CASE LoadRequested(r)
  BY <1>4, <1>9, <1>10, <1>12 DEF LoadRequested, node
<1>13. CASE CheckBalance(r)
  <2>1. Advance(r, "loaded", "funded") /\ UNCHANGED <<rows, nextId, pool>>
    BY <1>13 DEF CheckBalance, node
  <2> QED BY <1>5, <1>9, <1>10, <2>1
<1>14. CASE ReadNonce(r)
  BY <1>6, <1>9, <1>10, <1>14 DEF ReadNonce, node
<1>15. CASE EstimateGas(r)
  <2>1. Advance(r, "nonced", "estimated") /\ UNCHANGED <<rows, nextId, pool>>
    BY <1>15 DEF EstimateGas, node
  <2> QED BY <1>5, <1>9, <1>10, <2>1
<1>16. CASE SendTransaction(r)
  BY <1>7, <1>9, <1>10, <1>16
<1>17. CASE CommitPayment(r)
  BY <1>8, <1>9, <1>10, <1>17
<1>18. CASE RollbackPayment(r) \/ LosePayment(r)
  BY <1>8, <1>9, <1>10, <1>18 DEF RollbackPayment, LosePayment, node
<1> QED
  BY <1>11, <1>12, <1>13, <1>14, <1>15, <1>16, <1>17, <1>18 DEF RequestStep

\* A verification touches nothing the requests or the node work with.
LEMMA VerifierEffect ==
    ASSUME NEW v \in Verifiers, VerifierStep(v)
    PROVE  UNCHANGED <<nextId, req, pool, accountNonce, receipts, outside, contractVars>>
  BY DEF VerifierStep, LoadPayment, GetReceipt, TransactionNotFound, SaveStatus,
     RollbackVerification, node

\* A step of the node mines a transaction, empties the pool while the account's
\* nonce goes on or stays, or leaves the account alone; only mining emits events.
LEMMA NodeEffect ==
    ASSUME NodeStep
    PROVE  /\ UNCHANGED <<rows, nextId, req, ver>>
           /\ \/ \E tx \in pool : Mine(tx)
              \/ /\ UNCHANGED <<receipts, events>>
                 /\ \/ \E tx \in pool : pool' = pool \ {tx} /\ accountNonce' = accountNonce
                    \/ pool' = {} /\ accountNonce' = accountNonce + 1
                    \/ UNCHANGED <<pool, accountNonce>>
<1>1. ASSUME NEW tx \in pool, Mine(tx) PROVE UNCHANGED <<rows, nextId, req, ver>>
  BY <1>1 DEF Mine
<1>2. ASSUME NEW tx \in pool, Evict(tx)
      PROVE  /\ UNCHANGED <<rows, nextId, req, ver, receipts, events, accountNonce>>
             /\ pool' = pool \ {tx}
  BY <1>2 DEF Evict, contractVars
<1>3. ASSUME NEW a \in Accounts, NEW value \in Amounts, PermitMined(a, value)
      PROVE  /\ UNCHANGED <<rows, nextId, req, ver, receipts, events>>
             /\ pool' = {} /\ accountNonce' = accountNonce + 1
  BY <1>3 DEF PermitMined, OutsideBudget, P!Approve
<1>4. ASSUME ChainStep
      PROVE  UNCHANGED <<rows, nextId, req, ver, receipts, events, pool, accountNonce>>
  BY <1>4 DEF ChainStep, OutsideBudget, P!OwnerStep, P!HolderStep, P!Approve, P!Transfer,
     P!SetToken, P!SetOperator, P!TransferOwnership
<1> QED BY <1>1, <1>2, <1>3, <1>4 DEF NodeStep

\* A mined transaction has the account's nonce and gets one receipt, with an event
\* exactly if the contract took it.
LEMMA MineEffect ==
    ASSUME NEW tx \in pool, Mine(tx)
    PROVE  /\ tx.nonce = accountNonce /\ accountNonce' = accountNonce + 1
           /\ pool' = pool \ {tx}
           /\ UNCHANGED <<rows, nextId, req, ver>>
           /\ \E rc : /\ receipts' = receipts \union {rc} /\ rc.tx = tx
                      /\ \/ rc.status = 1 /\ events' = Append(events, EventOf(tx))
                         \/ rc.status = 0 /\ events' = events
<1>1. CASE P!Pay(Operator, tx.paymentId, Token, tx.from, tx.to, tx.amount)
  <2> DEFINE rc == [tx |-> tx, status |-> 1, logs |-> {EventOf(tx)}]
  <2>1. events' = Append(events, EventOf(tx))
    BY <1>1 DEF P!Pay, EventOf
  <2>2. receipts' = receipts \union {rc}
    BY <1>1 DEF Mine, P!Pay, PaySucceeds
  <2>3. rc.tx = tx /\ rc.status = 1
    OBVIOUS
  <2> HIDE DEF rc
  <2> QED BY <2>1, <2>2, <2>3 DEF Mine
<1>2. CASE ~P!Pay(Operator, tx.paymentId, Token, tx.from, tx.to, tx.amount)
  <2> DEFINE rc == [tx |-> tx, status |-> 0, logs |-> {}]
  <2>1. receipts' = receipts \union {rc} /\ events' = events
    BY <1>2 DEF Mine, contractVars
  <2>2. rc.tx = tx /\ rc.status = 0
    OBVIOUS
  <2> HIDE DEF rc
  <2> QED BY <2>1, <2>2 DEF Mine
<1> QED BY <1>1, <1>2

-----------------------------------------------------------------------------
(* The account *)

\* A request sends with the nonce of the latest block only, since a nonce it read
\* is never ahead and the node refuses one that was used.
LEMMA SendEffect ==
    ASSUME SettlementInv, AccountIsSerial, NEW r \in Requests, SendTransaction(r)
    PROVE  LET tx == Transaction(req[r].row, req[r].nonce)
           IN  /\ tx \in Transactions /\ tx.nonce = accountNonce
               /\ tx.paymentId.id = req[r].row.id
               /\ pool' = {tx}
               /\ req[r].pc = "estimated" /\ req[r].row \in PaymentRow
               /\ req'[r].pc = "sent" /\ req'[r].row.hash = tx
<1> DEFINE tx == Transaction(req[r].row, req[r].nonce)
           row == [req[r].row EXCEPT !.hash = tx, !.status = "submitted"]
<1>0. OwnTypes
  BY TypesSplit DEF SettlementInv
<1>1. /\ req[r].pc = "estimated" /\ req[r].nonce \in Nat
      /\ req[r].row \in PaymentRow /\ req[r].row.expires \in StoredExpiries
  BY <1>0, SessionShape DEF SendTransaction, SettlementInv, RequestsOwnTheirIds
<1>2. tx \in Transactions /\ tx.nonce = req[r].nonce /\ tx.paymentId.id = req[r].row.id
  BY <1>1, TransactionOfRow DEF Transaction, BuildPaymentId
<1>3. tx.nonce = accountNonce
  BY <1>0, <1>1, <1>2 DEF SendTransaction, AccountIsSerial, OwnTypes
<1>4. pool' = {tx}
  BY <1>3 DEF SendTransaction, SameNonce, AccountIsSerial
<1>5. req' = [req EXCEPT ![r] = [pc |-> "sent", row |-> row, nonce |-> req[r].nonce]]
  BY DEF SendTransaction, Session
<1>6. row.hash = tx
  BY <1>1 DEF PaymentRow
<1> HIDE DEF row, tx
<1>7. req'[r].pc = "sent" /\ req'[r].row.hash = tx
  BY <1>0, <1>5, <1>6 DEF OwnTypes
<1> QED BY <1>1, <1>2, <1>3, <1>4, <1>7 DEF tx

\* Nothing waits at the start; what is sent replaces what waits; a block takes what
\* waits and leaves nothing with a used nonce behind.
LEMMA NextAccount ==
    ASSUME SettlementInv, AccountIsSerial, [Next]_vars PROVE AccountIsSerial'
<1>0. accountNonce \in Nat /\ \A r \in Requests : req[r].nonce \in Nat
  BY TypesSplit, SessionShape DEF SettlementInv, OwnTypes
<1>1. ASSUME NEW r \in Requests, RequestStep(r) PROVE AccountIsSerial'
  <2>1. /\ UNCHANGED <<accountNonce, receipts>>
        /\ \A q \in Requests \ {r} : req'[q] = req[q]
        /\ req'[r].pc \in {"nonced", "estimated"} =>
              \/ req'[r].nonce = accountNonce
              \/ req[r].pc = "nonced" /\ req'[r].nonce = req[r].nonce
        /\ \/ pool' = pool
           \/ SendTransaction(r)
    BY <1>1, RequestEffect DEF CommitPayment, node
  <2>2. \A tx1, tx2 \in pool' : tx1.nonce = accountNonce' /\ tx1 = tx2
    BY <2>1, SendEffect DEF AccountIsSerial
  <2>3. \A q \in Requests :
            req'[q].pc \in {"nonced", "estimated"} => req'[q].nonce <= accountNonce'
    BY <1>0, <2>1 DEF AccountIsSerial
  <2> QED BY <2>1, <2>2, <2>3 DEF AccountIsSerial
<1>2. ASSUME NEW v \in Verifiers, VerifierStep(v) PROVE AccountIsSerial'
  BY <1>2, VerifierEffect DEF AccountIsSerial
<1>3. ASSUME NEW tx \in pool, Mine(tx) PROVE AccountIsSerial'
  <2>1. PICK rc : receipts' = receipts \union {rc} /\ rc.tx = tx
    BY <1>3, MineEffect
  <2>2. /\ tx.nonce = accountNonce /\ accountNonce' = accountNonce + 1
        /\ pool' = pool \ {tx} /\ req' = req
    BY <1>3, MineEffect
  <2>3. pool' = {}
    BY <2>2 DEF AccountIsSerial
  <2>4. receipts \subseteq [tx : Transactions, status : {0, 1},
                            logs : SUBSET P!PaymentProcessedEvents]
    BY TypesSplit DEF SettlementInv, OwnTypes
  <2>5. \A old \in receipts : old.tx.nonce \in Nat /\ old.tx.nonce < accountNonce
    BY <2>4 DEF AccountIsSerial, Transactions
  <2>6. \A new \in receipts' : new.tx.nonce < accountNonce'
    BY <1>0, <2>1, <2>2, <2>5
  <2>7. \A rc1, rc2 \in receipts' : rc1.tx = rc2.tx => rc1 = rc2
    BY <1>0, <2>1, <2>2, <2>5 DEF AccountIsSerial
  <2>8. \A r \in Requests :
            req'[r].pc \in {"nonced", "estimated"} => req'[r].nonce <= accountNonce'
    BY <1>0, <2>2 DEF AccountIsSerial
  <2> QED BY <2>3, <2>6, <2>7, <2>8 DEF AccountIsSerial
<1>4. ASSUME UNCHANGED <<req, receipts>>, pool' \subseteq pool,
             \/ accountNonce' = accountNonce
             \/ pool' = {} /\ accountNonce' = accountNonce + 1
      PROVE  AccountIsSerial'
  <2>1. receipts \subseteq [tx : Transactions, status : {0, 1},
                            logs : SUBSET P!PaymentProcessedEvents]
    BY TypesSplit DEF SettlementInv, OwnTypes
  <2>2. \A rc \in receipts : rc.tx.nonce \in Nat
    BY <2>1 DEF Transactions
  <2> QED BY <1>0, <1>4, <2>2 DEF AccountIsSerial
<1>5. CASE NodeStep
  <2>1. req' = req
    BY <1>5, NodeEffect
  <2> QED BY <1>3, <1>4, <1>5, <2>1, NodeEffect
<1>6. CASE UNCHANGED vars
  BY <1>6 DEF vars, node, AccountIsSerial
<1> QED BY <1>1, <1>2, <1>5, <1>6 DEF Next

-----------------------------------------------------------------------------
(* Broadcasts *)

\* Nobody else has the id with which a request sends, so the transaction is new.
LEMMA NextBroadcasts ==
    ASSUME SettlementInv, AccountIsSerial, BroadcastsAreOnce, [Next]_vars
    PROVE  BroadcastsAreOnce'
<1>0. nextId \in Nat /\ pool \subseteq Transactions
  BY TypesSplit, BoundAssumption DEF SettlementInv, OwnTypes
<1>1. \A tx \in Broadcast : tx.paymentId.id \in Nat
  <2>1. receipts \subseteq [tx : Transactions, status : {0, 1},
                            logs : SUBSET P!PaymentProcessedEvents]
    BY TypesSplit DEF SettlementInv, OwnTypes
  <2>2. Broadcast \subseteq Transactions
    BY <1>0, <2>1 DEF Broadcast
  <2> QED BY <2>2 DEF Transactions, PaymentId, Ids
<1>2. ASSUME NEW r \in Requests, RequestStep(r) PROVE BroadcastsAreOnce'
  <2> DEFINE tx == Transaction(req[r].row, req[r].nonce)
  <2>1. /\ receipts' = receipts
        /\ \A q \in Requests \ {r} : req'[q] = req[q]
    BY <1>2, RequestEffect
  <2>2. CASE SendTransaction(r)
    <3>1. /\ Broadcast' \subseteq Broadcast \union {tx}
          /\ tx.paymentId.id = req[r].row.id
          /\ req[r].pc = "estimated" /\ req'[r].pc = "sent"
          /\ nextId' = nextId
      BY <2>1, <2>2, SendEffect DEF Broadcast, SendTransaction
    <3>2. /\ req[r].row.id < nextId
          /\ \A q \in Requests \ {r} : req[q].pc # "idle" => req[q].row.id # req[r].row.id
      BY <3>1 DEF SettlementInv, RequestsOwnTheirIds
    <3>3. \A old \in Broadcast : old.paymentId.id # tx.paymentId.id
      BY <3>1 DEF BroadcastsAreOnce
    <3> HIDE DEF tx
    <3>4. OneBroadcastPerRequest'
      BY <3>1, <3>3 DEF BroadcastsAreOnce, OneBroadcastPerRequest
    <3>5. \A new \in Broadcast' :
              /\ new.paymentId.id < nextId'
              /\ \A q \in Requests : req'[q].pc \notin {"idle", "sent"} =>
                      req'[q].row.id # new.paymentId.id
      BY <2>1, <2>2, <3>1, <3>2 DEF BroadcastsAreOnce
    <3> QED BY <3>4, <3>5 DEF BroadcastsAreOnce
  <2>3. CASE ~SendTransaction(r)
    <3>1. /\ pool' = pool
          /\ nextId' = nextId \/ nextId' = nextId + 1
          /\ \/ req'[r].pc = "idle"
             \/ req'[r].row.id = nextId
             \/ req[r].pc \notin {"idle", "sent"} /\ req'[r].row.id = req[r].row.id
      BY <1>2, <2>3, RequestEffect DEF CommitPayment, node
    <3>2. Broadcast' = Broadcast
      BY <2>1, <3>1 DEF Broadcast
    <3>3. OneBroadcastPerRequest'
      BY <3>2 DEF BroadcastsAreOnce, OneBroadcastPerRequest
    <3>4. \A old \in Broadcast :
              /\ old.paymentId.id < nextId'
              /\ \A q \in Requests : req'[q].pc \notin {"idle", "sent"} =>
                      req'[q].row.id # old.paymentId.id
      BY <1>0, <1>1, <2>1, <3>1 DEF BroadcastsAreOnce
    <3> QED BY <3>2, <3>3, <3>4 DEF BroadcastsAreOnce
  <2> QED BY <2>2, <2>3
<1>3. ASSUME UNCHANGED <<nextId, req>>, Broadcast' \subseteq Broadcast
      PROVE  BroadcastsAreOnce'
  BY <1>3 DEF BroadcastsAreOnce, OneBroadcastPerRequest
<1>4. ASSUME NEW v \in Verifiers, VerifierStep(v) PROVE BroadcastsAreOnce'
  BY <1>3, <1>4, VerifierEffect DEF Broadcast
<1>5. CASE NodeStep
  <2>1. UNCHANGED <<nextId, req>>
    BY <1>5, NodeEffect
  <2>2. Broadcast' \subseteq Broadcast
    <3>1. ASSUME NEW tx \in pool, Mine(tx) PROVE Broadcast' \subseteq Broadcast
      BY <3>1, MineEffect DEF Broadcast
    <3>2. ASSUME UNCHANGED receipts, pool' \subseteq pool
          PROVE  Broadcast' \subseteq Broadcast
      BY <3>2 DEF Broadcast
    <3> QED BY <1>5, <3>1, <3>2, NodeEffect
  <2> QED BY <1>3, <2>1, <2>2
<1>6. CASE UNCHANGED vars
  BY <1>3, <1>6 DEF vars, node, Broadcast
<1> QED BY <1>2, <1>4, <1>5, <1>6 DEF Next

-----------------------------------------------------------------------------
(* Outcomes *)

\* Receipts are kept, so what was reverted stays so.
LEMMA RevertedStays ==
    ASSUME receipts \subseteq receipts', NEW row, Reverted(row)
    PROVE  Reverted(row)'
  BY DEF Reverted

\* A verification decides on a final status or on CONFIRMING, and on TX_FAILED only
\* by a receipt that says so.
LEMMA VerdictIsFinal ==
    ASSUME NEW row, NEW rc \in receipts, rc.tx = row.hash,
           Verdict(row, rc) \in {"paid", "tx_failed"}
    PROVE  /\ Verdict(row, rc) \in Final \union {"confirming"}
           /\ Verdict(row, rc) = "tx_failed" => Reverted(row)
<1>1. rc.status # 0 => Verdict(row, rc) # "tx_failed"
  BY DEF Verdict
<1> QED BY <1>1 DEF Final, Reverted

\* A verification that has loaded a row only finds receipts that pay or fail it.
LEMMA LoadedVerdict ==
    ASSUME SettlementInv, NEW v \in Verifiers, ver[v].pc = "loaded",
           NEW rc \in receipts, rc.tx = ver[v].row.hash
    PROVE  Verdict(ver[v].row, rc) \in {"paid", "tx_failed"}
<1> DEFINE row == ver[v].row
           old == rows[row.id]
<1>1. row \in PaymentRow /\ row.id \in Committed /\ row = [old EXCEPT !.status = row.status]
  BY VerifiersSplit DEF SettlementInv, IsRight, Committed, PaymentRow
<1>2. old \in PaymentRow /\ Pays(old.hash, old)
  BY <1>1, TypesSplit DEF SettlementInv, RowsAreSubmitted, OwnTypes, Committed
<1>3. row.status \in Statuses
  BY <1>1 DEF PaymentRow
<1> HIDE DEF row, old
<1>4. ASSUME NEW status \in Statuses, row = [old EXCEPT !.status = status]
      PROVE  row.hash = old.hash /\ Pays(old.hash, row)
  BY <1>2, <1>4, StatusOfRow
<1>5. Pays(row.hash, row)
  BY <1>1, <1>3, <1>4
<1> QED BY <1>1, <1>5, VerdictIsRight DEF SettlementInv, row

\* Rows become TX_FAILED, and events happen, only with the receipt that goes with it.
LEMMA NextOutcomes ==
    ASSUME SettlementInv, OutcomesAreMined, [Next]_vars PROVE OutcomesAreMined'
<1>0. OwnTypes /\ P!TypeOK
  BY TypesSplit DEF SettlementInv
<1>1. ASSUME UNCHANGED events, receipts \subseteq receipts'
      PROVE  \A k \in DOMAIN events' :
                \E rc \in receipts' : rc.status = 1 /\ events'[k] = EventOf(rc.tx)
  BY <1>1 DEF OutcomesAreMined
<1>2. ASSUME UNCHANGED <<rows, ver>>, receipts \subseteq receipts',
             \A k \in DOMAIN events' :
                \E rc \in receipts' : rc.status = 1 /\ events'[k] = EventOf(rc.tx)
      PROVE  OutcomesAreMined'
  <2>1. \A i \in Committed' : rows'[i].status = "tx_failed" => Reverted(rows[i])'
    BY <1>2, RevertedStays DEF OutcomesAreMined, Committed
  <2>2. \A v \in Verifiers : ver'[v].pc = "decided" =>
            /\ ver'[v].verdict \in Final \union {"confirming"}
            /\ ver'[v].verdict = "tx_failed" => Reverted(ver[v].row)'
    BY <1>2, RevertedStays DEF OutcomesAreMined
  <2> QED BY <1>2, <2>1, <2>2 DEF OutcomesAreMined, EventOf, P!PaymentProcessed
<1>3. ASSUME NEW r \in Requests, RequestStep(r) PROVE OutcomesAreMined'
  <2>1. UNCHANGED <<receipts, ver, events>>
    BY <1>3, RequestEffect DEF contractVars
  <2>2. CASE UNCHANGED rows
    BY <1>1, <1>2, <2>1, <2>2
  <2>3. CASE CommitPayment(r)
    <3> DEFINE row == req[r].row
    <3>1. /\ row \in PaymentRow /\ row.id \in Ids
          /\ row.status \in {"requested", "submitted"}
          /\ rows' = [rows EXCEPT ![row.id] = Stored(row)]
      BY <2>3 DEF CommitPayment, SettlementInv, RequestsOwnTheirIds, PaymentRow
    <3>2. Stored(row).status = row.status
      BY <3>1, StoredRow
    <3> HIDE DEF row
    <3>3. \A i \in Committed' : rows'[i].status = "tx_failed" =>
              i \in Committed /\ rows'[i] = rows[i]
      BY <1>0, <3>1, <3>2 DEF Committed, OwnTypes
    <3>4. \A i \in Committed' : rows'[i].status = "tx_failed" => Reverted(rows[i])'
      <4> SUFFICES ASSUME NEW i \in Committed', rows'[i].status = "tx_failed"
                   PROVE  Reverted(rows[i])'
        OBVIOUS
      <4>1. i \in Committed /\ rows'[i] = rows[i]
        BY <3>3
      <4>2. Reverted(rows[i])
        BY <4>1 DEF OutcomesAreMined
      <4> QED BY <2>1, <4>1, <4>2 DEF Reverted
    <3>5. \A v \in Verifiers : ver'[v].pc = "decided" =>
              /\ ver'[v].verdict \in Final \union {"confirming"}
              /\ ver'[v].verdict = "tx_failed" => Reverted(ver[v].row)'
      BY <2>1, RevertedStays DEF OutcomesAreMined
    <3> QED BY <1>1, <2>1, <3>4, <3>5 DEF OutcomesAreMined, EventOf, P!PaymentProcessed
  <2> QED BY <1>3, <2>2, <2>3, RequestEffect DEF SendTransaction
<1>4. ASSUME NEW v \in Verifiers, VerifierStep(v) PROVE OutcomesAreMined'
  <2>1. UNCHANGED <<receipts, events>>
    BY <1>4, VerifierEffect DEF contractVars
  <2>2. ASSUME NEW new, ver' = [ver EXCEPT ![v] = new],
               new.pc = "decided" =>
                    /\ new.verdict \in Final \union {"confirming"}
                    /\ new.verdict = "tx_failed" => Reverted(new.row)
        PROVE  \A u \in Verifiers : ver'[u].pc = "decided" =>
                  /\ ver'[u].verdict \in Final \union {"confirming"}
                  /\ ver'[u].verdict = "tx_failed" => Reverted(ver[u].row)'
    <3>1. /\ ver'[v] = new
          /\ \A u \in Verifiers \ {v} : ver'[u] = ver[u]
      BY <1>0, <2>2 DEF OwnTypes
    <3> SUFFICES ASSUME NEW u \in Verifiers, ver'[u].pc = "decided"
                 PROVE  /\ ver'[u].verdict \in Final \union {"confirming"}
                        /\ ver'[u].verdict = "tx_failed" => Reverted(ver[u].row)'
      OBVIOUS
    <3>2. CASE u = v
      BY <2>1, <2>2, <3>1, <3>2 DEF Reverted
    <3>3. CASE u # v
      BY <2>1, <3>1, <3>3 DEF OutcomesAreMined, Reverted
    <3> QED BY <3>2, <3>3
  <2>3. VerifierIdle.pc = "idle"
    BY DEF VerifierIdle, Verification
  <2>4. ASSUME UNCHANGED rows,
               \A u \in Verifiers : ver'[u].pc = "decided" =>
                  /\ ver'[u].verdict \in Final \union {"confirming"}
                  /\ ver'[u].verdict = "tx_failed" => Reverted(ver[u].row)'
        PROVE  OutcomesAreMined'
    <3>1. \A i \in Committed' : rows'[i].status = "tx_failed" => Reverted(rows[i])'
      BY <2>1, <2>4 DEF OutcomesAreMined, Committed, Reverted
    <3> QED BY <1>1, <2>1, <2>4, <3>1 DEF OutcomesAreMined, EventOf, P!PaymentProcessed
  <2>5. CASE \E id \in Ids : LoadPayment(v, id)
    <3>1. PICK id \in Ids : LoadPayment(v, id)
      BY <2>5
    <3> DEFINE new == Verification("loaded", rows[id], "requested")
    <3>2. new.pc = "loaded" /\ ver' = [ver EXCEPT ![v] = new] /\ rows' = rows
      BY <3>1 DEF LoadPayment, Verification
    <3> HIDE DEF new
    <3> QED BY <2>2, <2>4, <3>2
  <2>6. ASSUME NEW status, Decide(v, status), UNCHANGED rows,
               status \in Final \union {"confirming"},
               status = "tx_failed" => Reverted(ver[v].row)
        PROVE  OutcomesAreMined'
    <3> DEFINE new == Verification("decided", ver[v].row, status)
    <3>1. /\ new.verdict = status /\ new.row = ver[v].row
          /\ ver' = [ver EXCEPT ![v] = new]
      BY <2>6 DEF Decide, Verification
    <3> HIDE DEF new
    <3>2. new.pc = "decided" =>
                    /\ new.verdict \in Final \union {"confirming"}
                    /\ new.verdict = "tx_failed" => Reverted(new.row)
      BY <2>6, <3>1 DEF Reverted
    <3> QED BY <2>2, <2>4, <2>6, <3>1, <3>2
  <2>7. CASE GetReceipt(v)
    <3>1. PICK rc \in ReceiptsOf(ver[v].row.hash) : Decide(v, Verdict(ver[v].row, rc))
      BY <2>7 DEF GetReceipt
    <3>2. rc \in receipts /\ rc.tx = ver[v].row.hash /\ rows' = rows
      BY <2>7, <3>1 DEF ReceiptsOf, GetReceipt
    <3>3. Verdict(ver[v].row, rc) \in {"paid", "tx_failed"}
      BY <2>7, <3>2, LoadedVerdict DEF GetReceipt
    <3> QED BY <2>6, <3>1, <3>2, <3>3, VerdictIsFinal
  <2>8. CASE TransactionNotFound(v)
    BY <2>6, <2>8 DEF TransactionNotFound
  <2>9. CASE RollbackVerification(v)
    BY <2>2, <2>3, <2>4, <2>9 DEF RollbackVerification
  <2>10. CASE SaveStatus(v)
    <3> DEFINE i == ver[v].row.id
    <3>1. /\ ver[v].pc = "decided" /\ ver' = [ver EXCEPT ![v] = VerifierIdle]
          /\ IsRight(ver[v])
      BY <2>10, VerifiersSplit DEF SaveStatus, SettlementInv
    <3>2. /\ i \in Committed /\ rows[i] \in PaymentRow
          /\ ver[v].row.hash = rows[i].hash
      <4>1. i \in Ids /\ rows[i] # NoRow /\ ver[v].row \in PaymentRow
        BY <3>1 DEF IsRight, PaymentRow
      <4>2. rows[i] \in PaymentRow
        BY <1>0, <4>1 DEF OwnTypes
      <4>3. ver[v].row = [rows[i] EXCEPT !.status = ver[v].row.status]
        BY <3>1 DEF IsRight
      <4> QED BY <4>1, <4>2, <4>3 DEF Committed, PaymentRow
    <3> HIDE DEF i
    <3>3. \/ rows' = rows
          \/ rows' = [rows EXCEPT ![i] = [rows[i] EXCEPT !.status = ver[v].verdict]]
      BY <2>10 DEF SaveStatus, i
    <3>4. \A j \in Committed' : rows'[j].status = "tx_failed" => Reverted(rows[j])'
      <4> SUFFICES ASSUME NEW j \in Committed', rows'[j].status = "tx_failed"
                   PROVE  Reverted(rows[j])'
        OBVIOUS
      <4>1. CASE rows'[j] = rows[j]
        BY <2>1, <4>1 DEF OutcomesAreMined, Reverted, Committed
      <4>2. CASE rows'[j] # rows[j]
        <5>1. j = i /\ rows'[j] = [rows[i] EXCEPT !.status = ver[v].verdict]
          BY <1>0, <3>2, <3>3, <4>2 DEF Committed, OwnTypes
        <5>2. rows'[j].hash = ver[v].row.hash /\ ver[v].verdict = "tx_failed"
          BY <3>2, <5>1 DEF PaymentRow
        <5> QED BY <2>1, <3>1, <5>2 DEF OutcomesAreMined, Reverted
      <4> QED BY <4>1, <4>2
    <3>5. \A u \in Verifiers : ver'[u].pc = "decided" =>
              /\ ver'[u].verdict \in Final \union {"confirming"}
              /\ ver'[u].verdict = "tx_failed" => Reverted(ver[u].row)'
      BY <2>2, <2>3, <3>1
    <3> QED BY <1>1, <2>1, <3>4, <3>5 DEF OutcomesAreMined, EventOf, P!PaymentProcessed
  <2> QED BY <1>4, <2>5, <2>7, <2>8, <2>9, <2>10 DEF VerifierStep
<1>5. CASE NodeStep
  <2>1. UNCHANGED <<rows, ver>>
    BY <1>5, NodeEffect
  <2>2. ASSUME NEW tx \in pool, Mine(tx) PROVE OutcomesAreMined'
    <3>1. PICK rc : /\ receipts' = receipts \union {rc} /\ rc.tx = tx
                    /\ \/ rc.status = 1 /\ events' = Append(events, EventOf(tx))
                       \/ rc.status = 0 /\ events' = events
      BY <2>2, MineEffect
    <3>2. events \in Seq(P!PaymentProcessedEvents)
      BY <1>0 DEF P!TypeOK
    <3>3. \A k \in DOMAIN events' :
              \/ k \in DOMAIN events /\ events'[k] = events[k]
              \/ events'[k] = EventOf(tx) /\ rc.status = 1
      BY <3>1, <3>2
    <3>4. \A k \in DOMAIN events' :
              \E new \in receipts' : new.status = 1 /\ events'[k] = EventOf(new.tx)
      BY <3>1, <3>3 DEF OutcomesAreMined
    <3> QED BY <1>2, <2>1, <3>1, <3>4
  <2> QED BY <1>1, <1>2, <1>5, <2>1, <2>2, NodeEffect
<1>6. CASE UNCHANGED vars
  BY <1>1, <1>2, <1>6 DEF vars, node, contractVars
<1> QED BY <1>3, <1>4, <1>5, <1>6 DEF Next

-----------------------------------------------------------------------------
(* The invariant *)

\* At the start nothing is in the pool, mined, reported or logged.
LEMMA InitPromise == Init => PromiseInv
<1> SUFFICES ASSUME Init PROVE PromiseInv
  OBVIOUS
<1>1. \A r \in Requests : req[r].pc = "idle"
  BY DEF Init, Idle, Session
<1>2. \A v \in Verifiers : ver[v].pc = "idle"
  BY DEF Init, VerifierIdle, Verification
<1>3. /\ pool = {} /\ receipts = {} /\ Committed = {} /\ Broadcast = {}
      /\ processedPayments = {} /\ events = <<>>
  BY DEF Init, Committed, Broadcast, P!Init, P!Constructor
<1>4. P!OneEventPerProcessedPayment
  BY <1>3 DEF P!OneEventPerProcessedPayment
<1>5. AccountIsSerial /\ BroadcastsAreOnce /\ OutcomesAreMined
  BY <1>1, <1>2, <1>3 DEF AccountIsSerial, BroadcastsAreOnce, OneBroadcastPerRequest,
     OutcomesAreMined
<1> QED BY <1>4, <1>5, InitInv DEF PromiseInv

\* The contract's own theorem about its events carries over.
LEMMA NextOneEvent ==
    TypeOK /\ P!OneEventPerProcessedPayment /\ [Next]_vars => P!OneEventPerProcessedPayment'
<1> SUFFICES ASSUME TypeOK, P!OneEventPerProcessedPayment, [Next]_vars
             PROVE  P!OneEventPerProcessedPayment'
  OBVIOUS
<1>1. C!TypeOK /\ C!OneEventPerProcessedPayment
  BY DEF TypeOK, P!TypeOK, C!TypeOK, P!PaymentProcessedEvents, C!PaymentProcessedEvents,
     P!OneEventPerProcessedPayment, C!OneEventPerProcessedPayment
<1>2. [C!Next]_(C!contractVars)
  BY NextContract DEF contractVars, C!contractVars, P!Next, C!Next, P!OwnerStep, C!OwnerStep,
     P!HolderStep, C!HolderStep, P!OperatorStep, C!OperatorStep, P!Pay, C!Pay,
     P!Transfer, C!Transfer, P!Approve, C!Approve, P!SetToken, C!SetToken,
     P!SetOperator, C!SetOperator, P!TransferOwnership, C!TransferOwnership,
     P!PaySucceeds, C!PaySucceeds, P!TransferFromSucceeds, C!TransferFromSucceeds,
     P!TransferFrom, C!TransferFrom, P!Move, C!Move, P!PaymentProcessed,
     C!PaymentProcessed, P!Addresses, C!Addresses, P!roles, C!roles, P!ledger, C!ledger
<1>3. C!OneEventPerProcessedPayment'
  BY <1>1, <1>2, C!NextOneEvent, AccountAssumption
<1> QED BY <1>3 DEF P!OneEventPerProcessedPayment, C!OneEventPerProcessedPayment

LEMMA NextPromise == PromiseInv /\ [Next]_vars => PromiseInv'
<1> SUFFICES ASSUME PromiseInv, [Next]_vars PROVE PromiseInv'
  OBVIOUS
<1>1. SettlementInv'
  BY NextInv DEF PromiseInv
<1>2. P!OneEventPerProcessedPayment'
  BY NextOneEvent DEF PromiseInv, SettlementInv
<1>3. AccountIsSerial'
  BY NextAccount DEF PromiseInv
<1>4. BroadcastsAreOnce'
  BY NextBroadcasts DEF PromiseInv
<1>5. OutcomesAreMined'
  BY NextOutcomes DEF PromiseInv
<1> QED BY <1>1, <1>2, <1>3, <1>4, <1>5 DEF PromiseInv

\* Beside rows and receipts, the pool, the ids and the reported failures agree in
\* every reachable state.
THEOREM PromiseInvariant == Spec => []PromiseInv
  BY InitPromise, NextPromise, PTL DEF Spec

-----------------------------------------------------------------------------
(* What follows from it. *)

\* A row whose transaction was reverted has no event: that would have a receipt, of
\* a transaction with the same id, of which there is only the reverted one.
LEMMA RevertedIsNotSettled ==
    ASSUME PromiseInv, NEW row, Pays(row.hash, row), Reverted(row)
    PROVE  \A k \in DOMAIN events : events[k].paymentId.id # row.id
<1> SUFFICES ASSUME NEW k \in DOMAIN events, events[k].paymentId.id = row.id PROVE FALSE
  OBVIOUS
<1>1. PICK rc1 \in receipts : rc1.tx = row.hash /\ rc1.status = 0
  BY DEF Reverted
<1>2. PICK rc2 \in receipts : rc2.status = 1 /\ events[k] = EventOf(rc2.tx)
  BY DEF PromiseInv, OutcomesAreMined
<1>3. rc2.tx.paymentId.id = row.id
  BY <1>2 DEF EventOf, P!PaymentProcessed
<1>4. rc1.tx.paymentId.id = row.id
  BY <1>1 DEF Pays, BuildPaymentId
<1>5. rc1.tx = rc2.tx
  BY <1>3, <1>4 DEF PromiseInv, BroadcastsAreOnce, OneBroadcastPerRequest, Broadcast
<1>6. rc1 = rc2
  BY <1>5 DEF PromiseInv, AccountIsSerial
<1> QED BY <1>1, <1>2, <1>6

\* A settled row has an event with its id.
LEMMA SettledHasEvent ==
    ASSUME NEW row, Settled(row)
    PROVE  \E k \in DOMAIN events : events[k].paymentId.id = row.id
  BY DEF Settled, SettlementOf, P!PaymentProcessed, BuildPaymentId

\* However often requests are repeated, lost or replaced: a request id stands behind
\* one transaction at most.
THEOREM OncePerRequest == Spec => []OneBroadcastPerRequest
<1>1. PromiseInv => OneBroadcastPerRequest
  BY DEF PromiseInv, BroadcastsAreOnce
<1> QED BY <1>1, PromiseInvariant, PTL

\* A payment that is reported failed has not moved any funds and never will: no
\* other transaction carries its id.
THEOREM FailedIsNotSettled == Spec => []TxFailedMeansNotSettled
<1>1. ASSUME PromiseInv PROVE TxFailedMeansNotSettled
  <2> SUFFICES ASSUME NEW i \in Committed, rows[i].status = "tx_failed",
                      BuildPaymentId(rows[i]) \in processedPayments
               PROVE  FALSE
    BY DEF TxFailedMeansNotSettled
  <2>1. Pays(rows[i].hash, rows[i])
    BY <1>1 DEF PromiseInv, SettlementInv, RowsAreSubmitted
  <2>2. Reverted(rows[i])
    BY <1>1 DEF PromiseInv, OutcomesAreMined
  <2>3. \A k \in DOMAIN events : events[k].paymentId.id # rows[i].id
    <3> DEFINE row == rows[i]
    <3>1. Pays(row.hash, row) /\ Reverted(row)
      BY <2>1, <2>2
    <3> HIDE DEF row
    <3>2. \A k \in DOMAIN events : events[k].paymentId.id # row.id
      BY <1>1, <3>1, RevertedIsNotSettled
    <3> QED BY <3>2 DEF row
  <2>4. PICK k \in DOMAIN events : events[k].paymentId = BuildPaymentId(rows[i])
    BY <1>1 DEF PromiseInv, P!OneEventPerProcessedPayment
  <2> QED BY <2>3, <2>4 DEF BuildPaymentId
<1> QED BY <1>1, PromiseInvariant, PTL

\* Only the commit of a request and the one of a verification write rows, and a
\* verification writes the status of a row that is there.
LEMMA RowsEffect ==
    ASSUME PromiseInv, [Next]_vars
    PROVE  \/ UNCHANGED rows
           \/ \E r \in Requests :
                /\ req[r].row \in PaymentRow /\ rows[req[r].row.id] = NoRow
                /\ req[r].row.status \in {"requested", "submitted"}
                /\ rows' = [rows EXCEPT ![req[r].row.id] = req[r].row]
                /\ UNCHANGED events
           \/ \E i \in Committed, status \in Final \union {"confirming"} :
                /\ rows' = [rows EXCEPT ![i] = [rows[i] EXCEPT !.status = status]]
                /\ status = "paid" => Settled(rows[i])
                /\ status = "tx_failed" => Reverted(rows[i])
                /\ UNCHANGED events
<1>0. OwnTypes
  BY TypesSplit DEF PromiseInv, SettlementInv
<1>1. ASSUME NEW r \in Requests, CommitPayment(r)
      PROVE  /\ req[r].row \in PaymentRow /\ rows[req[r].row.id] = NoRow
             /\ req[r].row.status \in {"requested", "submitted"}
             /\ rows' = [rows EXCEPT ![req[r].row.id] = req[r].row]
             /\ UNCHANGED events
  <2>1. /\ req[r].row \in PaymentRow /\ rows[req[r].row.id] = NoRow
        /\ req[r].row.status \in {"requested", "submitted"}
        /\ req[r].row.expires \in StoredExpiries
    BY <1>1 DEF CommitPayment, PromiseInv, SettlementInv, RequestsOwnTheirIds
  <2>2. Stored(req[r].row) = req[r].row
    BY <2>1, StoredRow
  <2> QED BY <1>1, <2>1, <2>2 DEF CommitPayment, contractVars
<1>2. ASSUME NEW v \in Verifiers, SaveStatus(v), rows' # rows
      PROVE  \E i \in Committed, status \in Final \union {"confirming"} :
                /\ rows' = [rows EXCEPT ![i] = [rows[i] EXCEPT !.status = status]]
                /\ status = "paid" => Settled(rows[i])
                /\ status = "tx_failed" => Reverted(rows[i])
                /\ UNCHANGED events
  <2> DEFINE row == ver[v].row
             i == row.id
             old == rows[i]
             status == ver[v].verdict
  <2>1. /\ ver[v].pc = "decided" /\ IsRight(ver[v])
        /\ rows' = [rows EXCEPT ![i] = [old EXCEPT !.status = status]]
        /\ UNCHANGED events
    BY <1>2, VerifiersSplit DEF SaveStatus, PromiseInv, SettlementInv, contractVars
  <2>2. /\ i \in Committed /\ old \in PaymentRow /\ row.status \in Statuses
        /\ row = [old EXCEPT !.status = row.status]
    BY <1>0, <2>1 DEF IsRight, PaymentRow, Committed, OwnTypes
  <2>3. /\ status \in Final \union {"confirming"}
        /\ status = "paid" => Settled(row)
        /\ status = "tx_failed" => Reverted(row)
    BY <2>1 DEF IsRight, PromiseInv, OutcomesAreMined
  <2> HIDE DEF row, old, status, i
  <2>4. ASSUME NEW s \in Statuses, row = [old EXCEPT !.status = s]
        PROVE  row.hash = old.hash /\ SettlementOf(row) = SettlementOf(old)
    BY <2>2, <2>4, StatusOfRow
  <2>5. row.hash = old.hash /\ SettlementOf(row) = SettlementOf(old)
    BY <2>2, <2>4
  <2>6. (Settled(row) <=> Settled(old)) /\ (Reverted(row) <=> Reverted(old))
    BY <2>5 DEF Settled, Reverted
  <2> QED BY <2>1, <2>2, <2>3, <2>6 DEF old
<1>3. ASSUME NEW r \in Requests, RequestStep(r), ~CommitPayment(r) PROVE UNCHANGED rows
  BY <1>3, RequestEffect DEF PromiseInv, SendTransaction
<1>4. ASSUME NEW v \in Verifiers, VerifierStep(v), ~SaveStatus(v) PROVE UNCHANGED rows
  BY <1>4 DEF VerifierStep, LoadPayment, GetReceipt, TransactionNotFound, RollbackVerification
<1>5. NodeStep => UNCHANGED rows
  BY NodeEffect
<1>6. CASE UNCHANGED vars
  BY <1>6 DEF vars
<1> QED BY <1>1, <1>2, <1>3, <1>4, <1>5, <1>6 DEF Next

\* A PAID row is never reported failed, nor a failed one paid, however late the
\* decision of a verification is written; nothing but the status ever changes.
THEOREM OutcomesStay == Spec => OutcomeNeverFlips
<1>1. ASSUME PromiseInv, [Next]_vars, NEW i \in Committed
      PROVE  /\ rows'[i] = [rows[i] EXCEPT !.status = rows'[i].status]
             /\ rows[i].status \in Final => rows'[i].status \in {rows[i].status, "confirming"}
  <2>0. /\ rows \in [Ids -> PaymentRow \union {NoRow}]
        /\ rows[i] \in PaymentRow /\ i \in Ids
    BY <1>1, TypesSplit DEF PromiseInv, SettlementInv, OwnTypes, Committed
  <2>1. CASE rows'[i] = rows[i]
    BY <2>0, <2>1 DEF PaymentRow
  <2>2. CASE rows'[i] # rows[i]
    <3>1. PICK status \in Final \union {"confirming"} :
              /\ rows'[i] = [rows[i] EXCEPT !.status = status]
              /\ status = "paid" => Settled(rows[i])
              /\ status = "tx_failed" => Reverted(rows[i])
      BY <1>1, <2>0, <2>2, RowsEffect DEF Committed, PaymentRow
    <3>2. rows'[i].status = status
      BY <2>0, <3>1 DEF PaymentRow
    <3>3. ~(Settled(rows[i]) /\ Reverted(rows[i]))
      <4> DEFINE row == rows[i]
      <4>1. Pays(row.hash, row)
        BY <1>1 DEF PromiseInv, SettlementInv, RowsAreSubmitted
      <4> HIDE DEF row
      <4>2. ~(Settled(row) /\ Reverted(row))
        BY <1>1, <4>1, RevertedIsNotSettled, SettledHasEvent
      <4> QED BY <4>2 DEF row
    <3>4. /\ rows[i].status = "paid" => Settled(rows[i])
          /\ rows[i].status = "tx_failed" => Reverted(rows[i])
      BY <1>1 DEF PromiseInv, SettlementInv, PaidMeansSettled, OutcomesAreMined
    <3> QED BY <3>1, <3>2, <3>3, <3>4 DEF Final
  <2> QED BY <2>1, <2>2
<1>2. PromiseInv /\ [Next]_vars =>
        [\A i \in Committed :
            /\ rows'[i] = [rows[i] EXCEPT !.status = rows'[i].status]
            /\ rows[i].status \in Final =>
                    rows'[i].status \in {rows[i].status, "confirming"}]_vars
  BY <1>1
<1> QED BY <1>2, PromiseInvariant, PTL DEF Spec, OutcomeNeverFlips

\* However many requests run, replace each other or are lost, and whatever the
\* permits send meanwhile: one transaction waits, and it bears the next nonce.
THEOREM AccountSerialised == Spec => UsesTheAccount
<1>1. Init => A!Init
  BY DEF Init, A!Init
<1>2. PromiseInv /\ [Next]_vars => [A!Next]_<<accountNonce, pool, {rc.tx : rc \in receipts}>>
  <2> SUFFICES ASSUME PromiseInv, [Next]_vars
               PROVE  A!Next \/ UNCHANGED <<accountNonce, pool, {rc.tx : rc \in receipts}>>
    OBVIOUS
  <2>0. SettlementInv /\ AccountIsSerial
    BY DEF PromiseInv
  <2>1. ASSUME NEW r \in Requests, RequestStep(r)
        PROVE  A!Send \/ UNCHANGED <<accountNonce, pool, receipts>>
    <3>1. UNCHANGED <<accountNonce, receipts>>
      BY <2>0, <2>1, RequestEffect
    <3>2. CASE SendTransaction(r)
      BY <2>0, <3>1, <3>2, SendEffect DEF A!Send
    <3>3. CASE ~SendTransaction(r)
      BY <2>0, <2>1, <3>1, <3>3, RequestEffect DEF CommitPayment, node
    <3> QED BY <3>2, <3>3
  <2>2. ASSUME NEW v \in Verifiers, VerifierStep(v)
        PROVE  UNCHANGED <<accountNonce, pool, receipts>>
    BY <2>2, VerifierEffect
  <2>3. ASSUME NEW tx \in pool, Mine(tx) PROVE A!Mine
    <3>1. PICK rc : receipts' = receipts \union {rc} /\ rc.tx = tx
      BY <2>3, MineEffect
    <3>2. pool' = {} /\ accountNonce' = accountNonce + 1
      BY <2>0, <2>3, MineEffect DEF AccountIsSerial
    <3>3. {new.tx : new \in receipts'} = {old.tx : old \in receipts} \union {tx}
      BY <3>1
    <3> QED BY <3>2, <3>3 DEF A!Mine
  <2>4. ASSUME NodeStep, UNCHANGED receipts
        PROVE  A!Drop \/ A!Mine \/ UNCHANGED <<accountNonce, pool, receipts>>
    <3>1. ASSUME NEW tx \in pool, pool' = pool \ {tx} PROVE pool' = {}
      BY <2>0, <3>1 DEF AccountIsSerial
    <3>2. ASSUME NEW tx \in pool, Mine(tx) PROVE A!Mine
      BY <2>3, <3>2
    <3> QED BY <2>4, <3>1, <3>2, NodeEffect DEF A!Drop, A!Mine
  <2>5. NodeStep => A!Mine \/ UNCHANGED receipts
    BY <2>3, NodeEffect
  <2>6. CASE UNCHANGED vars
    BY <2>6 DEF vars, node
  <2> QED BY <2>1, <2>2, <2>4, <2>5, <2>6 DEF Next, A!Next
<1> QED BY <1>1, <1>2, PromiseInvariant, PTL DEF Spec, UsesTheAccount, A!Spec

\* A transaction that waits has no event yet, and no failure is reported of the
\* payment it carries.
LEMMA WaitingIsOpen ==
    ASSUME PromiseInv, NEW tx \in pool, tx.nonce = accountNonce
    PROVE  /\ \A k \in DOMAIN events : events[k].paymentId.id # tx.paymentId.id
           /\ \A i \in Committed :
                  i = tx.paymentId.id => rows[i].status # "tx_failed"
<1>1. /\ accountNonce \in Nat
      /\ \A rc \in receipts : rc.tx.nonce < accountNonce
  BY TypesSplit DEF PromiseInv, SettlementInv, OwnTypes, AccountIsSerial
<1>2. \A rc \in receipts : rc.tx.paymentId.id # tx.paymentId.id
  BY <1>1 DEF PromiseInv, BroadcastsAreOnce, OneBroadcastPerRequest, Broadcast
<1>3. \A k \in DOMAIN events : events[k].paymentId.id # tx.paymentId.id
  BY <1>2 DEF PromiseInv, OutcomesAreMined, EventOf, P!PaymentProcessed
<1>4. ASSUME NEW i \in Committed, rows[i].status = "tx_failed"
      PROVE  i # tx.paymentId.id
  <2>1. Pays(rows[i].hash, rows[i]) /\ rows[i].id = i
    BY DEF PromiseInv, SettlementInv, RowsAreSubmitted
  <2>2. PICK rc \in receipts : rc.tx = rows[i].hash
    BY <1>4 DEF PromiseInv, OutcomesAreMined, Reverted
  <2> QED BY <1>2, <2>1, <2>2 DEF Pays, BuildPaymentId
<1> QED BY <1>3, <1>4

\* What the API tells of a payment is what SettlementReport allows: a commit accepts
\* a payment, a mined transaction settles one that was never reported failed, and a
\* verification reports what the chain has, even if it decided long ago.
THEOREM PromiseKept == Spec => KeepsItsPromise
<1> DEFINE Answer(row) == IF row = NoRow THEN "none"
                          ELSE IF row.status = "paid" THEN "paid"
                          ELSE IF row.status = "tx_failed" THEN "failed"
                          ELSE "pending"
           report == [i \in Ids |-> IF rows[i] = NoRow THEN "none"
                                    ELSE IF rows[i].status = "paid" THEN "paid"
                                    ELSE IF rows[i].status = "tx_failed" THEN "failed"
                                    ELSE "pending"]
           settled == {i \in Ids : \E k \in DOMAIN events : events[k].paymentId.id = i}
<1>1. Init => S!Init
  BY DEF Init, S!Init, P!Init, P!Constructor
<1>2. PromiseInv /\ [Next]_vars => [S!Next]_<<report, settled>>
  <2> SUFFICES ASSUME PromiseInv, [Next]_vars
               PROVE  S!Next \/ UNCHANGED <<report, settled>>
    OBVIOUS
  <2>0. OwnTypes /\ SettlementInv
    BY TypesSplit DEF PromiseInv, SettlementInv
  <2>1. ASSUME NEW i \in Ids, report[i] = "none", report' = [report EXCEPT ![i] = "pending"],
               settled' = settled
        PROVE  S!Next
    BY <2>1 DEF S!Next, S!Accept
  <2>2. ASSUME NEW i \in Ids, i \notin settled, report[i] # "failed",
               settled' = settled \union {i}, report' = report
        PROVE  S!Next
    BY <2>2 DEF S!Next, S!Settle
  <2>3. ASSUME NEW i \in Ids, report[i] # "none",
               NEW answer \in {"pending", "paid", "failed"},
               answer = "paid" => i \in settled, answer = "failed" => i \notin settled,
               report' = [report EXCEPT ![i] = answer], settled' = settled
        PROVE  S!Next
    BY <2>3 DEF S!Next, S!Report
  <2>4. ASSUME NEW i \in Ids, NEW row, rows' = [rows EXCEPT ![i] = row]
        PROVE  report' = [report EXCEPT ![i] = Answer(row)]
    BY <2>0, <2>4 DEF OwnTypes
  <2>5. events' = events => settled' = settled
    OBVIOUS
  <2>6. rows' = rows => report' = report
    OBVIOUS
  <2>7. \A i \in Ids : report[i] = Answer(rows[i])
    OBVIOUS
  <2>8. \A i \in Ids : i \in settled <=> \E k \in DOMAIN events : events[k].paymentId.id = i
    OBVIOUS
  <2>9. ASSUME NEW tx \in pool, Mine(tx), events' = Append(events, EventOf(tx))
        PROVE  settled' = settled \union {tx.paymentId.id}
    <3>1. events \in Seq(P!PaymentProcessedEvents) /\ tx.paymentId.id \in Ids
      BY <2>0 DEF SettlementInv, TypeOK, P!TypeOK, OwnTypes, Transactions, PaymentId
    <3>2. EventOf(tx).paymentId.id = tx.paymentId.id
      BY DEF EventOf, P!PaymentProcessed
    <3>3. ASSUME NEW i \in Ids
          PROVE  (\E k \in DOMAIN events' : events'[k].paymentId.id = i)
                    <=> \/ \E k \in DOMAIN events : events[k].paymentId.id = i
                        \/ i = tx.paymentId.id
      <4> DEFINE e == EventOf(tx)
      <4>1. events' = Append(events, e) /\ e.paymentId.id = tx.paymentId.id
        BY <2>9, <3>2
      <4> HIDE DEF e
      <4> QED BY <3>1, <4>1
    <3> QED BY <3>1, <3>3
  <2> HIDE DEF report, settled
  <2>10. CASE \E r \in Requests :
                /\ req[r].row \in PaymentRow /\ rows[req[r].row.id] = NoRow
                /\ req[r].row.status \in {"requested", "submitted"}
                /\ rows' = [rows EXCEPT ![req[r].row.id] = req[r].row]
                /\ UNCHANGED events
    <3>1. PICK row \in PaymentRow :
              /\ rows[row.id] = NoRow /\ row.status \in {"requested", "submitted"}
              /\ rows' = [rows EXCEPT ![row.id] = row]
              /\ UNCHANGED events
      BY <2>10
    <3>2. row.id \in Ids /\ Answer(row) = "pending"
      BY <3>1, NoneAssumption DEF PaymentRow
    <3>3. report' = [report EXCEPT ![row.id] = Answer(row)]
      BY <2>4, <3>1, <3>2
    <3>4. report[row.id] = "none"
      BY <2>7, <3>1, <3>2
    <3> QED BY <2>1, <2>5, <3>1, <3>2, <3>3, <3>4
  <2>11. CASE \E i \in Committed, status \in Final \union {"confirming"} :
                /\ rows' = [rows EXCEPT ![i] = [rows[i] EXCEPT !.status = status]]
                /\ status = "paid" => Settled(rows[i])
                /\ status = "tx_failed" => Reverted(rows[i])
                /\ UNCHANGED events
    <3>1. PICK i \in Committed, status \in Final \union {"confirming"} :
                /\ rows' = [rows EXCEPT ![i] = [rows[i] EXCEPT !.status = status]]
                /\ status = "paid" => Settled(rows[i])
                /\ status = "tx_failed" => Reverted(rows[i])
                /\ UNCHANGED events
      BY <2>11
    <3> DEFINE row == rows[i]
               new == [rows[i] EXCEPT !.status = status]
               answer == Answer(new)
    <3>2. i \in Ids /\ row \in PaymentRow /\ row # NoRow
      BY <2>0 DEF Committed, OwnTypes
    <3>3. new \in PaymentRow /\ new.status = status
      BY <3>1, <3>2 DEF PaymentRow, Final, Statuses
    <3>4. Pays(row.hash, row) /\ row.id = i
      BY <2>0 DEF SettlementInv, RowsAreSubmitted
    <3>5. answer = CASE status = "paid" -> "paid" [] status = "tx_failed" -> "failed"
                     [] status = "confirming" -> "pending"
      BY <3>1, <3>3, NoneAssumption DEF Final
    <3>6. report[i] # "none"
      BY <2>7, <3>2
    <3>7. report' = [report EXCEPT ![i] = answer]
      BY <2>4, <3>1, <3>2
    <3>8. status = "paid" => Settled(row)
      BY <3>1
    <3>9. status = "tx_failed" => Reverted(row)
      BY <3>1
    <3> HIDE DEF row, new, answer
    <3>10. status = "paid" => i \in settled
      BY <2>8, <3>2, <3>4, <3>8, SettledHasEvent
    <3>11. status = "tx_failed" => i \notin settled
      BY <2>8, <3>2, <3>4, <3>9, RevertedIsNotSettled
    <3>12. answer \in {"pending", "paid", "failed"}
      BY <3>1, <3>5 DEF Final
    <3>13. (answer = "paid" => i \in settled) /\ (answer = "failed" => i \notin settled)
      BY <3>1, <3>5, <3>10, <3>11 DEF Final
    <3> QED BY <2>3, <2>5, <3>1, <3>2, <3>6, <3>7, <3>12, <3>13
  <2>12. ASSUME NEW tx \in pool, Mine(tx) PROVE S!Next \/ UNCHANGED <<report, settled>>
    <3>1. tx.nonce = accountNonce /\ UNCHANGED rows /\ tx.paymentId.id \in Ids
      BY <2>0, <2>12, MineEffect DEF OwnTypes, Transactions, PaymentId
    <3>2. CASE events' = events
      BY <2>5, <2>6, <3>1, <3>2
    <3>3. CASE events' = Append(events, EventOf(tx))
      <4> DEFINE i == tx.paymentId.id
      <4>1. i \in Ids /\ i \notin settled
        BY <2>8, <3>1, WaitingIsOpen
      <4>2. report[i] # "failed"
        BY <2>7, <3>1, WaitingIsOpen DEF Committed
      <4> QED BY <2>2, <2>6, <2>9, <2>12, <3>1, <3>3, <4>1, <4>2
    <3> QED BY <2>12, <3>2, <3>3, MineEffect
  <2>13. events' = events \/ \E tx \in pool : Mine(tx)
    BY <2>0, RequestEffect, VerifierEffect, NodeEffect DEF Next, vars, contractVars
  <2> QED BY <2>5, <2>6, <2>10, <2>11, <2>12, <2>13, RowsEffect
<1> QED BY <1>1, <1>2, PromiseInvariant, PTL DEF Spec, KeepsItsPromise, S!Spec

\* A row that is there keeps its transaction.
LEMMA RowsKeepTheirHash ==
    ASSUME PromiseInv, [Next]_vars, NEW i \in Committed
    PROVE  i \in Committed' /\ rows'[i].hash = rows[i].hash
<1>1. /\ rows \in [Ids -> PaymentRow \union {NoRow}]
      /\ rows[i] \in PaymentRow /\ i \in Ids
  BY TypesSplit DEF PromiseInv, SettlementInv, OwnTypes, Committed
<1>2. CASE rows'[i] = rows[i]
  BY <1>1, <1>2 DEF Committed
<1>3. CASE rows'[i] # rows[i]
  <2>1. PICK status \in Final \union {"confirming"} :
            rows'[i] = [rows[i] EXCEPT !.status = status]
    BY <1>1, <1>3, RowsEffect DEF Committed, PaymentRow
  <2>2. rows'[i] \in PaymentRow /\ rows'[i].hash = rows[i].hash
    BY <1>1, <2>1 DEF PaymentRow, Final, Statuses
  <2> QED BY <1>1, <2>2, NoneAssumption DEF Committed
<1> QED BY <1>2, <1>3

\* The commit of a request puts its transaction in the table.
LEMMA CommitKeepsHash ==
    ASSUME PromiseInv, NEW r \in Requests, CommitPayment(r)
    PROVE  \E i \in Committed' : rows'[i].hash = req[r].row.hash
<1> DEFINE row == req[r].row
<1>1. /\ row \in PaymentRow /\ row.expires \in StoredExpiries
      /\ rows' = [rows EXCEPT ![row.id] = Stored(row)]
  BY DEF CommitPayment, PromiseInv, SettlementInv, RequestsOwnTheirIds
<1>2. rows \in [Ids -> PaymentRow \union {NoRow}]
  BY TypesSplit DEF PromiseInv, SettlementInv, OwnTypes
<1> HIDE DEF row
<1>3. Stored(row) = row
  BY <1>1, StoredRow
<1>4. row.id \in Ids /\ rows'[row.id] = row /\ row # NoRow
  BY <1>1, <1>2, <1>3, NoneAssumption DEF PaymentRow
<1> QED BY <1>4 DEF Committed, row

\* While no request dies between its broadcast and its commit, money only moves for
\* payments the database has or is about to have: a request that sent can only
\* commit, and no later write takes the transaction from its row.
THEOREM NoOrphans == ASSUME "lost" \notin Faults PROVE Spec => []NoOrphanTransaction
<1>1. Init => NoOrphanTransaction
  BY DEF Init, NoOrphanTransaction, Broadcast
<1>2. PromiseInv /\ NoOrphanTransaction /\ [Next]_vars => NoOrphanTransaction'
  <2> SUFFICES ASSUME PromiseInv, NoOrphanTransaction, [Next]_vars, NEW tx \in Broadcast'
               PROVE  \/ \E i \in Committed' : rows'[i].hash = tx
                      \/ \E r \in Requests : req'[r].pc = "sent" /\ req'[r].row.hash = tx
    BY DEF NoOrphanTransaction
  <2>0. SettlementInv /\ AccountIsSerial
    BY DEF PromiseInv
  <2>1. ASSUME tx \in Broadcast, \A r \in Requests : req[r].pc = "sent" => req'[r] = req[r]
        PROVE  \/ \E i \in Committed' : rows'[i].hash = tx
               \/ \E r \in Requests : req'[r].pc = "sent" /\ req'[r].row.hash = tx
    BY <2>1, RowsKeepTheirHash DEF NoOrphanTransaction
  <2>2. ASSUME NEW r \in Requests, RequestStep(r)
        PROVE  \/ \E i \in Committed' : rows'[i].hash = tx
               \/ \E q \in Requests : req'[q].pc = "sent" /\ req'[q].row.hash = tx
    <3>1. /\ UNCHANGED receipts
          /\ \A q \in Requests \ {r} : req'[q] = req[q]
      BY <2>0, <2>2, RequestEffect
    <3>2. CASE SendTransaction(r)
      <4>1. /\ Broadcast' \subseteq Broadcast \union {Transaction(req[r].row, req[r].nonce)}
            /\ req[r].pc = "estimated"
            /\ req'[r].pc = "sent"
            /\ req'[r].row.hash = Transaction(req[r].row, req[r].nonce)
        BY <2>0, <3>1, <3>2, SendEffect DEF Broadcast
      <4>2. CASE tx = Transaction(req[r].row, req[r].nonce)
        BY <4>1, <4>2
      <4>3. CASE tx # Transaction(req[r].row, req[r].nonce)
        BY <2>1, <3>1, <4>1, <4>3
      <4> QED BY <4>2, <4>3
    <3>3. CASE CommitPayment(r)
      <4>1. tx \in Broadcast
        BY <3>1, <3>3 DEF CommitPayment, node, Broadcast
      <4>2. CASE \E i \in Committed : rows[i].hash = tx
        BY <4>2, RowsKeepTheirHash
      <4>3. CASE req[r].row.hash = tx
        BY <3>3, <4>3, CommitKeepsHash
      <4>4. CASE \E q \in Requests \ {r} : req[q].pc = "sent" /\ req[q].row.hash = tx
        BY <3>1, <4>4
      <4> QED BY <4>1, <4>2, <4>3, <4>4 DEF NoOrphanTransaction
    <3>4. CASE ~SendTransaction(r) /\ ~CommitPayment(r)
      <4>1. req[r].pc # "sent" /\ pool' = pool
        BY <2>0, <2>2, <3>4, RequestEffect
      <4> QED BY <2>1, <3>1, <4>1 DEF Broadcast
    <3> QED BY <3>2, <3>3, <3>4
  <2>3. ASSUME NEW v \in Verifiers, VerifierStep(v) PROVE tx \in Broadcast /\ req' = req
    BY <2>3, VerifierEffect DEF Broadcast
  <2>4. ASSUME NodeStep PROVE tx \in Broadcast /\ req' = req
    <3>1. CASE \E mined \in pool : Mine(mined)
      <4>1. PICK mined \in pool : Mine(mined)
        BY <3>1
      <4>2. PICK rc : receipts' = receipts \union {rc} /\ rc.tx = mined
        BY <4>1, MineEffect
      <4> QED BY <4>1, <4>2, MineEffect DEF Broadcast
    <3>2. CASE ~\E mined \in pool : Mine(mined)
      BY <2>4, <3>2, NodeEffect DEF Broadcast
    <3> QED BY <3>1, <3>2
  <2>5. CASE UNCHANGED vars
    BY <2>1, <2>5 DEF vars, node, Broadcast
  <2> QED BY <2>1, <2>2, <2>3, <2>4, <2>5 DEF Next
<1> QED BY <1>1, <1>2, PromiseInvariant, PTL DEF Spec
=============================================================================
