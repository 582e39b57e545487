-------------------------- MODULE WalletPermitProof --------------------------
(***************************************************************************)
(* Proofs about WalletPermit, for any number of workers, wallets, holders  *)
(* and deployments: a wallet is permitted only on a granted permit of its  *)
(* own address, deletions last, and the operator account is used one       *)
(* transaction at a time.                                                  *)
(***************************************************************************)
EXTENDS WalletPermit, TLAPS

-----------------------------------------------------------------------------
(* The inductive invariant. *)

\* A request that has sent its permit holds the transaction of its own wallet's
\* address, spender and value; once it goes on, that very transaction is granted.
SessionsHoldTheirPermit ==
    \A w \in Workers : work[w] # None =>
        /\ work[w].pc \in {"sent", "mined", "allowed"} =>
                /\ work[w].tx.holder = Address[work[w].wallet]
                /\ work[w].tx.spender = work[w].spender
                /\ work[w].tx.value = work[w].signature.value
        /\ work[w].pc \in {"mined", "allowed"} =>
                \E rc \in Granted : rc.tx = work[w].tx

\* One transaction waits at most, with the next nonce, and what a request has read
\* may be stale but is never ahead.
AccountIsSerial ==
    /\ \A tx1, tx2 \in pool : tx1.nonce = accountNonce /\ tx1 = tx2
    /\ \A w \in Workers : work[w] # None /\ work[w].pc \in {"nonced", "estimated"} =>
            work[w].nonce <= accountNonce

PermitInv ==
    /\ TypeOK
    /\ SessionsHoldTheirPermit
    /\ PermittedIsProven
    /\ AccountIsSerial

-----------------------------------------------------------------------------
(* What the steps do. *)

Sessions == [pc : {"loaded", "nonced", "estimated", "sent", "mined", "allowed"},
             wallet : Wallets, spender : Spenders, signature : Signatures, nonce : Nonces,
             tx : Transactions \union {None}]

LEMMA SessionType ==
    ASSUME TypeOK, NEW w \in Workers
    PROVE  /\ work \in [Workers -> Sessions \union {None}]
           /\ work[w] # None => work[w] \in Sessions
  BY DEF TypeOK, Sessions

\* The transaction of a session is one the node may take, of its wallet's address.
LEMMA PermitOfSession ==
    ASSUME TypeOK, NEW w \in Workers, work[w] # None, NEW fee \in Fees
    PROVE  LET tx == Permit(work[w].nonce, Holder(w), work[w].spender, work[w].signature, fee)
           IN  /\ tx \in Transactions /\ tx.nonce = work[w].nonce
               /\ tx.holder = Address[work[w].wallet] /\ tx.spender = work[w].spender
               /\ tx.value = work[w].signature.value
<1>1. work[w] \in Sessions
  BY SessionType
<1>2. /\ work[w].wallet \in Wallets /\ work[w].spender \in Spenders
      /\ work[w].signature \in Signatures /\ work[w].nonce \in Nonces
  BY <1>1 DEF Sessions
<1>3. Address[work[w].wallet] \in Holders
  BY <1>2, PermitAssumption
<1>4. work[w].signature.value \in Values
  BY <1>2 DEF Signatures
<1> QED BY <1>2, <1>3, <1>4 DEF Permit, Holder, Transactions

\* What is submitted takes the place of whatever has its nonce.
LEMMA SubmitEffect ==
    ASSUME PermitInv, NEW tx, tx.nonce \in Nat, tx.nonce <= accountNonce, Submit(tx)
    PROVE  tx.nonce = accountNonce /\ pool' = {tx}
<1>1. accountNonce \in Nat
  BY DEF PermitInv, TypeOK, Nonces
<1>2. tx.nonce = accountNonce
  BY <1>1 DEF Submit
<1> QED BY <1>2 DEF Submit, PermitInv, AccountIsSerial

\* A step of a request, seen by the tables, the account and its own session.
LEMMA WorkerEffect ==
    ASSUME PermitInv, NEW w \in Workers, WorkerStep(w)
    PROVE  /\ UNCHANGED <<deleted, accountNonce, receipts, token, now, outside, spender>>
           /\ work' \in [Workers -> Sessions \union {None}]
           /\ \A v \in Workers \ {w} : work'[v] = work[v]
           /\ \/ /\ work'[w] = None
                 /\ UNCHANGED <<permitted, permits, pool>>
              \/ /\ CommitPermit(w) /\ work'[w] = None
                 /\ UNCHANGED pool
              \/ /\ work'[w].pc = "loaded"
                 /\ UNCHANGED <<permitted, permits, pool>>
              \/ /\ work'[w].pc = "nonced" /\ work'[w].nonce = accountNonce
                 /\ UNCHANGED <<permitted, permits, pool>>
              \/ /\ At(w, "nonced")
                 /\ work'[w].pc = "estimated" /\ work'[w].nonce = work[w].nonce
                 /\ UNCHANGED <<permitted, permits, pool>>
              \/ /\ work'[w].pc = "sent"
                 /\ work'[w].tx.holder = Address[work'[w].wallet]
                 /\ work'[w].tx.spender = work'[w].spender
                 /\ work'[w].tx.value = work'[w].signature.value
                 /\ work'[w].tx \in Transactions
                 /\ work'[w].tx.nonce = accountNonce /\ pool' = {work'[w].tx}
                 /\ UNCHANGED <<permitted, permits>>
              \/ /\ At(w, "sent")
                 /\ work'[w] = [work[w] EXCEPT !.pc = "mined"]
                 /\ \E rc \in Granted : rc.tx = work[w].tx
                 /\ UNCHANGED <<permitted, permits, pool>>
              \/ /\ At(w, "mined")
                 /\ work'[w] = [work[w] EXCEPT !.pc = "allowed"]
                 /\ UNCHANGED <<permitted, permits, pool>>
<1>0. TypeOK /\ work \in [Workers -> Sessions \union {None}] /\ accountNonce \in Nonces
  BY SessionType DEF PermitInv, TypeOK
<1>1. ASSUME NEW session \in Sessions \union {None}, work' = [work EXCEPT ![w] = session]
      PROVE  /\ work' \in [Workers -> Sessions \union {None}] /\ work'[w] = session
             /\ \A v \in Workers \ {w} : work'[v] = work[v]
  BY <1>0, <1>1
<1>2. ASSUME NEW wallet \in Wallets, NEW signature \in Signatures, LoadWallet(w, wallet, signature)
      PROVE  \E session \in Sessions : session.pc = "loaded" /\ work' = [work EXCEPT ![w] = session]
  <2> DEFINE session == Request("loaded", wallet, spender, signature, 0, None)
  <2>1. session \in Sessions /\ session.pc = "loaded"
    BY <1>0, PermitAssumption DEF Request, Sessions, TypeOK, Nonces
  <2>2. work' = [work EXCEPT ![w] = session]
    BY <1>2 DEF LoadWallet
  <2> HIDE DEF session
  <2> QED BY <2>1, <2>2
<1>3. ASSUME ReadNonce(w)
      PROVE  \E session \in Sessions :
                session.pc = "nonced" /\ session.nonce = accountNonce
                /\ work' = [work EXCEPT ![w] = session]
  <2> DEFINE session == [work[w] EXCEPT !.pc = "nonced", !.nonce = accountNonce]
  <2>1. work[w] \in Sessions
    BY <1>0, <1>3 DEF ReadNonce, At
  <2>2. session \in Sessions /\ session.pc = "nonced" /\ session.nonce = accountNonce
    BY <1>0, <2>1 DEF Sessions
  <2>3. work' = [work EXCEPT ![w] = session]
    BY <1>0, <1>3, <2>1 DEF ReadNonce, Sessions
  <2> HIDE DEF session
  <2> QED BY <2>2, <2>3
<1>4. ASSUME NEW from, NEW to \in {"estimated", "mined", "allowed"}, Advance(w, from, to)
      PROVE  /\ [work[w] EXCEPT !.pc = to] \in Sessions
             /\ [work[w] EXCEPT !.pc = to].pc = to
             /\ [work[w] EXCEPT !.pc = to].nonce = work[w].nonce
             /\ work' = [work EXCEPT ![w] = [work[w] EXCEPT !.pc = to]]
  <2>1. work[w] \in Sessions
    BY <1>0, <1>4 DEF Advance, At
  <2> QED BY <1>0, <1>4, <2>1 DEF Advance, Sessions
<1>5. ASSUME NEW fee \in Fees, SendTransaction(w, fee)
      PROVE  \E session \in Sessions :
                /\ work' = [work EXCEPT ![w] = session]
                /\ session.pc = "sent"
                /\ session.tx.holder = Address[session.wallet]
                /\ session.tx.spender = session.spender
                /\ session.tx.value = session.signature.value
                /\ session.tx \in Transactions
                /\ session.tx.nonce = accountNonce /\ pool' = {session.tx}
  <2> DEFINE tx == Permit(work[w].nonce, Holder(w), work[w].spender, work[w].signature, fee)
             session == [work[w] EXCEPT !.pc = "sent", !.tx = tx]
  <2>1. work[w] \in Sessions /\ work[w] # None /\ work[w].pc = "estimated" /\ Submit(tx)
    BY <1>0, <1>5 DEF SendTransaction, At
  <2>2. /\ tx \in Transactions /\ tx.nonce = work[w].nonce
        /\ tx.holder = Address[work[w].wallet] /\ tx.spender = work[w].spender
        /\ tx.value = work[w].signature.value
    BY <1>0, <2>1, PermitOfSession
  <2>3. work' = [work EXCEPT ![w] = session]
    BY <1>0, <1>5, <2>1 DEF SendTransaction, Sessions
  <2>4. tx.nonce \in Nat /\ tx.nonce <= accountNonce
    BY <2>1, <2>2 DEF Sessions, Nonces, PermitInv, AccountIsSerial
  <2> HIDE DEF tx
  <2>5. tx.nonce = accountNonce /\ pool' = {tx}
    BY <2>1, <2>4, SubmitEffect
  <2>6. /\ session \in Sessions /\ session.pc = "sent" /\ session.tx = tx
        /\ session.wallet = work[w].wallet /\ session.spender = work[w].spender
        /\ session.signature = work[w].signature
    BY <2>1, <2>2 DEF Sessions
  <2> HIDE DEF session
  <2> QED BY <2>2, <2>3, <2>5, <2>6
<1>6. UNCHANGED <<deleted, accountNonce, receipts, token, now, outside, spender>>
  BY DEF WorkerStep, HandlerStep, LoadWallet, ReadNonce, EstimateGas, SendTransaction,
     GetReceipt, CheckAllowance, CommitPermit, Rollback, Timeout, LosePermit, tables
<1>7. CASE \E wallet \in Wallets, signature \in Signatures : LoadWallet(w, wallet, signature)
  <2>1. UNCHANGED <<permitted, permits, pool>>
    BY <1>7 DEF LoadWallet, tables
  <2> QED BY <1>1, <1>2, <1>6, <1>7, <2>1
<1>8. CASE ReadNonce(w)
  <2>1. UNCHANGED <<permitted, permits, pool>>
    BY <1>8 DEF ReadNonce, tables
  <2> QED BY <1>1, <1>3, <1>6, <1>8, <2>1
<1>9. CASE EstimateGas(w)
  <2>1. Advance(w, "nonced", "estimated") /\ UNCHANGED <<permitted, permits, pool>>
    BY <1>9 DEF EstimateGas, tables
  <2> QED BY <1>1, <1>4, <1>6, <2>1 DEF Advance
<1>10. CASE \E fee \in Fees : SendTransaction(w, fee)
  <2>1. UNCHANGED <<permitted, permits>>
    BY <1>10 DEF SendTransaction, tables
  <2> QED BY <1>1, <1>5, <1>6, <1>10, <2>1
<1>11. CASE GetReceipt(w)
  <2>1. /\ Advance(w, "sent", "mined") /\ UNCHANGED <<permitted, permits, pool>>
        /\ \E rc \in Granted : rc.tx = work[w].tx
    BY <1>11 DEF GetReceipt, tables, Granted
  <2> QED BY <1>1, <1>4, <1>6, <2>1 DEF Advance
<1>12. CASE CheckAllowance(w)
  <2>1. Advance(w, "mined", "allowed") /\ UNCHANGED <<permitted, permits, pool>>
    BY <1>12 DEF CheckAllowance, tables
  <2> QED BY <1>1, <1>4, <1>6, <2>1 DEF Advance
<1>13. CASE CommitPermit(w)
  <2>1. work' = [work EXCEPT ![w] = None] /\ UNCHANGED pool
    BY <1>13 DEF CommitPermit, Finish
  <2> QED BY <1>1, <1>6, <1>13, <2>1
<1>14. CASE Rollback(w) \/ Timeout(w) \/ LosePermit(w)
  <2>1. work' = [work EXCEPT ![w] = None] /\ UNCHANGED <<permitted, permits, pool>>
    BY <1>14 DEF Rollback, Timeout, LosePermit, Finish, tables
  <2> QED BY <1>1, <1>6, <2>1
<1> QED
  BY <1>7, <1>8, <1>9, <1>10, <1>11, <1>12, <1>13, <1>14 DEF WorkerStep, HandlerStep

\* A block uses up the account's nonce and may add the receipt of what it took.
LEMMA MineEffect ==
    ASSUME TypeOK, NEW tx \in pool, Mine(tx)
    PROVE  /\ tx.nonce = accountNonce /\ accountNonce' = accountNonce + 1
           /\ accountNonce' \in Nonces /\ pool' = pool \ {tx}
           /\ \/ receipts' = receipts
              \/ \E status \in {0, 1} :
                    receipts' = receipts \union {[tx |-> tx, status |-> status]}
           /\ allowance' \in [Holders -> [Spenders -> Nat]]
           /\ permitNonce' \in [Holders -> Nat]
           /\ UNCHANGED <<tables, work, now, outside, spender>>
<1>0. /\ tx \in Transactions /\ allowance \in [Holders -> [Spenders -> Nat]]
      /\ permitNonce \in [Holders -> Nat] /\ accountNonce \in Nonces
  BY DEF TypeOK
<1>1. tx.holder \in Holders /\ tx.spender \in Spenders /\ tx.value \in Nat
  BY <1>0, PermitAssumption DEF Transactions
<1>2. CASE MinePermit(tx)
  <2>1. /\ allowance' \in [Holders -> [Spenders -> Nat]]
        /\ permitNonce' \in [Holders -> Nat]
    BY <1>0, <1>1, <1>2 DEF MinePermit, token
  <2>2. \E status \in {0, 1} : receipts' = receipts \union {[tx |-> tx, status |-> status]}
    BY <1>2 DEF MinePermit
  <2> QED BY <1>0, <2>1, <2>2, PermitAssumption DEF Mine, Nonces
<1>3. CASE MinePayment(tx)
  <2>1. allowance[tx.holder][tx.spender] \in Nat
    BY <1>0, <1>1
  <2>2. /\ allowance' \in [Holders -> [Spenders -> Nat]]
        /\ permitNonce' = permitNonce /\ receipts' = receipts
    BY <1>0, <1>1, <1>3, <2>1 DEF MinePayment
  <2> QED BY <1>0, <2>2, PermitAssumption DEF Mine, Nonces
<1> QED BY <1>2, <1>3 DEF Mine

\* What happens outside the endpoint keeps to the types, and only a payment sent
\* or mined touches the account.
LEMMA OutsideEffect ==
    ASSUME PermitInv,
           \/ \E wallet \in Wallets : DeleteWallet(wallet)
           \/ NodeStep /\ ~(\E tx \in pool : Mine(tx))
           \/ Tick
    PROVE  /\ UNCHANGED <<permitted, permits, work, accountNonce, receipts>>
           /\ deleted \subseteq deleted' /\ deleted' \subseteq Wallets
           /\ \/ pool' = pool
              \/ \E tx \in Transactions : tx.nonce = accountNonce /\ pool' = {tx}
           /\ spender' \in Spenders
           /\ allowance' \in [Holders -> [Spenders -> Nat]]
           /\ permitNonce' \in [Holders -> Nat]
           /\ now' \in 0..MaxTime /\ outside' \in 0..MaxOutside
<1>0. /\ spender \in Spenders /\ deleted \subseteq Wallets /\ accountNonce \in Nonces
      /\ allowance \in [Holders -> [Spenders -> Nat]] /\ permitNonce \in [Holders -> Nat]
      /\ now \in 0..MaxTime /\ outside \in 0..MaxOutside
      /\ MaxTime \in Nat /\ MaxOutside \in Nat /\ Values \subseteq Nat
  BY PermitAssumption DEF PermitInv, TypeOK
<1>1. CASE \E wallet \in Wallets : DeleteWallet(wallet)
  BY <1>0, <1>1 DEF DeleteWallet, token
<1>2. CASE Tick
  BY <1>0, <1>2 DEF Tick, tables, token
<1>3. ASSUME OutsideBudget PROVE outside' \in 0..MaxOutside
  BY <1>0, <1>3 DEF OutsideBudget
<1>4. ASSUME NEW holder \in Holders, NEW value \in Values, NEW fee \in Fees,
             SendPayment(holder, value, fee)
      PROVE  /\ UNCHANGED <<tables, work, accountNonce, receipts, token, now, spender>>
             /\ OutsideBudget
             /\ \E tx \in Transactions : tx.nonce = accountNonce /\ pool' = {tx}
  <2> DEFINE tx == Payment(accountNonce, holder, spender, value, fee)
  <2>1. tx \in Transactions /\ tx.nonce = accountNonce
    BY <1>0 DEF Payment, Transactions
  <2>2. Submit(tx)
    BY <1>4 DEF SendPayment
  <2>3. tx.nonce \in Nat /\ tx.nonce <= accountNonce
    BY <1>0, <2>1 DEF Nonces
  <2> HIDE DEF tx
  <2>4. pool' = {tx}
    BY <2>2, <2>3, SubmitEffect
  <2> QED BY <1>4, <2>1, <2>4 DEF SendPayment
<1>5. ASSUME NEW holder \in Holders, NEW to \in Spenders, NEW value \in Nat,
             Approve(holder, to, value) \/ PermitElsewhere(holder, to, value)
      PROVE  /\ UNCHANGED <<tables, work, pool, accountNonce, receipts, now, spender>>
             /\ OutsideBudget
             /\ allowance' \in [Holders -> [Spenders -> Nat]]
             /\ permitNonce' \in [Holders -> Nat]
  <2>1. allowance' = [allowance EXCEPT ![holder][to] = value]
    BY <1>5 DEF Approve, PermitElsewhere
  <2>2. \/ permitNonce' = permitNonce
        \/ permitNonce' = [permitNonce EXCEPT ![holder] = @ + 1]
    BY <1>5 DEF Approve, PermitElsewhere
  <2>3. OutsideBudget
        /\ UNCHANGED <<tables, work, pool, accountNonce, receipts, now, spender>>
    BY <1>5 DEF Approve, PermitElsewhere
  <2>4. allowance' \in [Holders -> [Spenders -> Nat]]
    BY <1>0, <2>1
  <2>5. permitNonce' \in [Holders -> Nat]
    BY <1>0, <2>2
  <2> QED BY <2>3, <2>4, <2>5
<1>6. ASSUME NEW to \in Spenders, Redeploy(to)
      PROVE  /\ UNCHANGED <<tables, work, pool, accountNonce, receipts, token, now>>
             /\ OutsideBudget /\ spender' \in Spenders
  BY <1>6 DEF Redeploy
<1>7. CASE NodeStep /\ ~(\E tx \in pool : Mine(tx))
  <2>1. CASE \E h \in Holders, value \in Values, fee \in Fees : SendPayment(h, value, fee)
    BY <1>0, <1>3, <1>4, <2>1 DEF tables, token
  <2>2. CASE \E h \in Holders, value \in Nat, to \in Spenders :
                Approve(h, to, value) \/ PermitElsewhere(h, to, value)
    BY <1>0, <1>3, <1>5, <2>2 DEF tables
  <2>3. CASE \E to \in Spenders : Redeploy(to)
    BY <1>0, <1>3, <1>6, <2>3 DEF tables, token
  <2> QED BY <1>0, <1>7, <2>1, <2>2, <2>3 DEF NodeStep
<1> QED BY <1>1, <1>2, <1>7

-----------------------------------------------------------------------------
(* The invariant is kept. *)

LEMMA InitPermit == Init => PermitInv
<1> SUFFICES ASSUME Init PROVE PermitInv
  OBVIOUS
<1>1. TypeOK
  BY PermitAssumption DEF Init, TypeOK, Nonces
<1> QED
  BY <1>1 DEF Init, PermitInv, SessionsHoldTheirPermit, PermittedIsProven, AccountIsSerial

LEMMA NextTypes == ASSUME PermitInv, [Next]_vars PROVE TypeOK'
<1>0. TypeOK
  BY DEF PermitInv
<1>1. ASSUME NEW w \in Workers, WorkerStep(w) PROVE TypeOK'
  <2>1. /\ UNCHANGED <<deleted, accountNonce, receipts, token, now, outside, spender>>
        /\ work' \in [Workers -> Sessions \union {None}]
        /\ CommitPermit(w) \/ UNCHANGED <<permitted, permits>>
        /\ pool' = pool \/ \E tx \in Transactions : pool' = {tx}
    BY <1>1, WorkerEffect
  <2>2. ASSUME CommitPermit(w)
        PROVE  /\ permitted' \subseteq Wallets
               /\ permits' \subseteq [wallet : Wallets, spender : Spenders, value : Values,
                                      tx : Transactions]
    <3>1. work[w] \in Sessions /\ At(w, "allowed")
      BY <1>0, <2>2, SessionType DEF CommitPermit, At
    <3>2. work[w].signature.value \in Values /\ work[w].wallet \in Wallets
      BY <3>1 DEF Sessions, Signatures
    <3>3. \E rc \in receipts : rc.tx = work[w].tx
      BY <3>1 DEF PermitInv, SessionsHoldTheirPermit, At, Granted
    <3>4. work[w].tx \in Transactions
      BY <1>0, <3>3 DEF TypeOK
    <3>5. Row(work[w]) \in [wallet : Wallets, spender : Spenders, value : Values,
                            tx : Transactions]
      BY <3>1, <3>2, <3>4 DEF Row, Sessions
    <3> QED BY <1>0, <2>2, <3>2, <3>5 DEF CommitPermit, TypeOK
  <2> QED BY <1>0, <2>1, <2>2 DEF TypeOK, Sessions, token
<1>2. ASSUME NEW tx \in pool, Mine(tx) PROVE TypeOK'
  <2>1. tx \in Transactions
    BY <1>0 DEF TypeOK
  <2>2. receipts' \subseteq [tx : Transactions, status : {0, 1}]
    BY <1>0, <1>2, <2>1, MineEffect DEF TypeOK
  <2> QED BY <1>0, <1>2, <2>2, MineEffect DEF TypeOK, tables
<1>3. ASSUME \/ \E wallet \in Wallets : DeleteWallet(wallet)
             \/ NodeStep /\ ~(\E tx \in pool : Mine(tx))
             \/ Tick
      PROVE  TypeOK'
  BY <1>0, <1>3, OutsideEffect DEF TypeOK
<1>4. CASE UNCHANGED vars
  BY <1>0, <1>4 DEF TypeOK, vars, tables, token
<1> QED BY <1>1, <1>2, <1>3, <1>4 DEF Next

\* A receipt is never lost.
LEMMA GrantedStays == ASSUME PermitInv, [Next]_vars PROVE Granted \subseteq Granted'
<1>1. receipts \subseteq receipts'
  <2>1. ASSUME NEW tx \in pool, Mine(tx) PROVE receipts \subseteq receipts'
    BY <2>1, MineEffect DEF PermitInv
  <2> QED BY <2>1, WorkerEffect, OutsideEffect DEF Next, vars
<1> QED BY <1>1 DEF Granted

LEMMA NextSessions == ASSUME PermitInv, [Next]_vars PROVE SessionsHoldTheirPermit'
<1> DEFINE Holds(session) ==
        /\ session.pc \in {"sent", "mined", "allowed"} =>
                /\ session.tx.holder = Address[session.wallet]
                /\ session.tx.spender = session.spender
                /\ session.tx.value = session.signature.value
        /\ session.pc \in {"mined", "allowed"} => \E rc \in Granted : rc.tx = session.tx
<1>1. \A w \in Workers : work[w] # None => Holds(work[w])
  BY DEF PermitInv, SessionsHoldTheirPermit
<1>2. \A w \in Workers : work'[w] # None => Holds(work'[w])
  <2>1. ASSUME NEW w \in Workers, WorkerStep(w), work'[w] # None PROVE Holds(work'[w])
    <3>0. work[w] # None => work[w] \in Sessions
      BY SessionType DEF PermitInv
    <3>1. CASE work'[w].pc \in {"loaded", "nonced", "estimated"}
      BY <3>1
    <3>2. CASE work'[w].pc = "sent" /\ work'[w].tx.holder = Address[work'[w].wallet]
                /\ work'[w].tx.spender = work'[w].spender
                /\ work'[w].tx.value = work'[w].signature.value
      BY <3>2
    <3>3. CASE At(w, "sent") /\ work'[w] = [work[w] EXCEPT !.pc = "mined"]
                /\ \E rc \in Granted : rc.tx = work[w].tx
      <4>1. work[w] \in Sessions /\ work[w].pc = "sent" /\ Holds(work[w])
        BY <1>1, <3>0, <3>3 DEF At
      <4>2. /\ work'[w].tx = work[w].tx /\ work'[w].wallet = work[w].wallet
            /\ work'[w].spender = work[w].spender /\ work'[w].signature = work[w].signature
        BY <3>3, <4>1 DEF Sessions
      <4> QED BY <3>3, <4>1, <4>2
    <3>4. CASE At(w, "mined") /\ work'[w] = [work[w] EXCEPT !.pc = "allowed"]
      <4>1. work[w] \in Sessions /\ work[w].pc = "mined" /\ Holds(work[w])
        BY <1>1, <3>0, <3>4 DEF At
      <4>2. /\ work'[w].tx = work[w].tx /\ work'[w].wallet = work[w].wallet
            /\ work'[w].spender = work[w].spender /\ work'[w].signature = work[w].signature
        BY <3>4, <4>1 DEF Sessions
      <4> QED BY <4>1, <4>2
    <3> QED BY <2>1, <3>1, <3>2, <3>3, <3>4, WorkerEffect
  <2>2. ASSUME NEW w \in Workers, WorkerStep(w), NEW v \in Workers \ {w}
        PROVE  work'[v] = work[v]
    BY <2>2, WorkerEffect
  <2>3. ASSUME NEW tx \in pool, Mine(tx) PROVE work' = work
    BY <2>3, MineEffect DEF PermitInv
  <2>4. ASSUME \/ \E wallet \in Wallets : DeleteWallet(wallet)
               \/ NodeStep /\ ~(\E tx \in pool : Mine(tx))
               \/ Tick
        PROVE  work' = work
    BY <2>4, OutsideEffect
  <2>5. UNCHANGED vars => work' = work
    BY DEF vars
  <2> HIDE DEF Holds
  <2> QED BY <1>1, <2>1, <2>2, <2>3, <2>4, <2>5 DEF Next
<1> QED BY <1>2, GrantedStays DEF SessionsHoldTheirPermit

LEMMA NextProven == ASSUME PermitInv, [Next]_vars PROVE PermittedIsProven'
<1> SUFFICES ASSUME NEW wallet \in permitted'
             PROVE  \E row \in permits' :
                      /\ row.wallet = wallet
                      /\ \E rc \in Granted' : /\ rc.tx = row.tx
                                              /\ rc.tx.holder = Address[wallet]
                                              /\ rc.tx.spender = row.spender
                                              /\ rc.tx.value = row.value
  BY DEF PermittedIsProven
<1>1. CASE wallet \in permitted /\ permits \subseteq permits'
  BY <1>1, GrantedStays DEF PermitInv, PermittedIsProven
<1>2. ASSUME NEW w \in Workers, CommitPermit(w), wallet \notin permitted
      PROVE  \E row \in permits' :
                /\ row.wallet = wallet
                /\ \E rc \in Granted' : /\ rc.tx = row.tx
                                        /\ rc.tx.holder = Address[wallet]
                                        /\ rc.tx.spender = row.spender
                                        /\ rc.tx.value = row.value
  <2> DEFINE row == Row(work[w])
  <2>1. work[w] # None /\ work[w].pc = "allowed" /\ wallet = work[w].wallet /\ row \in permits'
    BY <1>2 DEF CommitPermit, At
  <2>2. /\ row.wallet = wallet /\ row.tx = work[w].tx /\ row.spender = work[w].spender
        /\ row.value = work[w].signature.value
    BY <2>1 DEF Row
  <2> HIDE DEF row
  <2>3. PICK rc \in Granted : rc.tx = work[w].tx
    BY <2>1 DEF PermitInv, SessionsHoldTheirPermit
  <2>4. /\ work[w].tx.holder = Address[work[w].wallet]
        /\ work[w].tx.spender = work[w].spender
        /\ work[w].tx.value = work[w].signature.value
    BY <2>1 DEF PermitInv, SessionsHoldTheirPermit
  <2> QED BY <2>1, <2>2, <2>3, <2>4, GrantedStays
<1>3. permits \subseteq permits' /\ (wallet \in permitted \/ \E w \in Workers : CommitPermit(w))
  <2>1. ASSUME NEW w \in Workers, WorkerStep(w)
        PROVE  permits \subseteq permits' /\ (wallet \in permitted \/ CommitPermit(w))
    BY <2>1, WorkerEffect DEF CommitPermit
  <2>2. ASSUME NEW tx \in pool, Mine(tx) PROVE UNCHANGED <<permitted, permits>>
    BY <2>2, MineEffect DEF PermitInv, tables
  <2> QED BY <2>1, <2>2, OutsideEffect DEF Next, vars, tables
<1> QED BY <1>1, <1>2, <1>3

LEMMA NextAccount == ASSUME PermitInv, [Next]_vars PROVE AccountIsSerial'
<1>0. accountNonce \in Nat /\ \A w \in Workers : work[w] # None => work[w].nonce \in Nat
  BY SessionType DEF PermitInv, TypeOK, Nonces, Sessions
<1>1. ASSUME NEW w \in Workers, WorkerStep(w) PROVE AccountIsSerial'
  <2>1. /\ accountNonce' = accountNonce
        /\ \A v \in Workers \ {w} : work'[v] = work[v]
        /\ \/ pool' = pool
           \/ \E tx \in Transactions : tx.nonce = accountNonce /\ pool' = {tx}
        /\ work'[w] # None /\ work'[w].pc \in {"nonced", "estimated"} =>
                \/ work'[w].nonce = accountNonce
                \/ At(w, "nonced") /\ work'[w].nonce = work[w].nonce
    <3>0. work[w] # None => work[w] \in Sessions
      BY SessionType DEF PermitInv
    <3>1. At(w, "sent") => [work[w] EXCEPT !.pc = "mined"].pc = "mined"
      BY <3>0 DEF At, Sessions
    <3>2. At(w, "mined") => [work[w] EXCEPT !.pc = "allowed"].pc = "allowed"
      BY <3>0 DEF At, Sessions
    <3> QED BY <1>1, <3>1, <3>2, WorkerEffect
  <2> QED BY <1>0, <2>1 DEF AccountIsSerial, PermitInv, At
<1>2. ASSUME NEW tx \in pool, Mine(tx) PROVE AccountIsSerial'
  <2>1. accountNonce' = accountNonce + 1 /\ pool' = pool \ {tx} /\ work' = work
    BY <1>2, MineEffect DEF PermitInv
  <2> QED BY <1>0, <2>1 DEF PermitInv, AccountIsSerial
<1>3. ASSUME \/ \E wallet \in Wallets : DeleteWallet(wallet)
             \/ NodeStep /\ ~(\E tx \in pool : Mine(tx))
             \/ Tick
      PROVE  AccountIsSerial'
  BY <1>3, OutsideEffect DEF PermitInv, AccountIsSerial
<1>4. CASE UNCHANGED vars
  BY <1>4 DEF vars, PermitInv, AccountIsSerial
<1> QED BY <1>1, <1>2, <1>3, <1>4 DEF Next

LEMMA NextPermit == PermitInv /\ [Next]_vars => PermitInv'
  BY NextTypes, NextSessions, NextProven, NextAccount DEF PermitInv

-----------------------------------------------------------------------------
(* Theorems *)

THEOREM PermitInvariant == Spec => []PermitInv
  BY InitPermit, NextPermit, PTL DEF Spec

\* Tables, requests, the account and the token keep their shapes: no allowance is
\* drawn below zero by a payment that comes too late.
THEOREM TypeCorrect == Spec => []TypeOK
<1>1. PermitInv => TypeOK
  BY DEF PermitInv
<1> QED BY <1>1, PermitInvariant, PTL

\* A wallet is permitted only on a permit of its own address that this server sent
\* and the token granted, which is the one recorded, whatever the allowance was.
THEOREM PermittedProven == Spec => []PermittedIsProven
<1>1. PermitInv => PermittedIsProven
  BY DEF PermitInv
<1> QED BY <1>1, PermitInvariant, PTL

\* A permit that was under way never brings a deleted wallet back.
THEOREM DeletionStays == Spec => DeletionLasts
<1>1. PermitInv /\ [Next]_vars => [deleted \subseteq deleted']_vars
  <2> SUFFICES ASSUME PermitInv, [Next]_vars PROVE deleted \subseteq deleted'
    OBVIOUS
  <2>1. ASSUME NEW tx \in pool, Mine(tx) PROVE deleted' = deleted
    BY <2>1, MineEffect DEF PermitInv, tables
  <2> QED BY <2>1, WorkerEffect, OutsideEffect DEF Next, vars, tables
<1> QED BY <1>1, PermitInvariant, PTL DEF Spec, DeletionLasts

\* Permits and payments of one account, which know nothing of each other, leave it
\* with one transaction that waits and bears the next nonce.
THEOREM AccountSerialised == Spec => UsesTheAccount
<1>1. Init => A!Init
  BY DEF Init, A!Init
<1>2. PermitInv /\ [Next]_vars => [A!Next]_<<accountNonce, pool, {rc.tx : rc \in receipts}>>
  <2> SUFFICES ASSUME PermitInv, [Next]_vars
               PROVE  A!Next \/ UNCHANGED <<accountNonce, pool, {rc.tx : rc \in receipts}>>
    OBVIOUS
  <2>1. ASSUME UNCHANGED <<accountNonce, receipts>>,
               \/ pool' = pool
               \/ \E tx \in Transactions : tx.nonce = accountNonce /\ pool' = {tx}
        PROVE  A!Send \/ UNCHANGED <<accountNonce, pool, receipts>>
    BY <2>1 DEF A!Send
  <2>2. ASSUME NEW tx \in pool, Mine(tx) PROVE A!Mine
    <3>1. pool' = {} /\ accountNonce' = accountNonce + 1
      BY <2>2, MineEffect DEF PermitInv, AccountIsSerial
    <3>2. receipts' = receipts \/ \E rc : rc.tx = tx /\ receipts' = receipts \union {rc}
      BY <2>2, MineEffect DEF PermitInv
    <3>3. \/ {new.tx : new \in receipts'} = {old.tx : old \in receipts}
          \/ {new.tx : new \in receipts'} = {old.tx : old \in receipts} \union {tx}
      BY <3>2
    <3> QED BY <3>1, <3>3 DEF A!Mine
  <2>3. CASE UNCHANGED vars
    BY <2>3 DEF vars
  <2> QED BY <2>1, <2>2, <2>3, WorkerEffect, OutsideEffect DEF Next, A!Next
<1> QED BY <1>1, <1>2, PermitInvariant, PTL DEF Spec, UsesTheAccount, A!Spec
=============================================================================
