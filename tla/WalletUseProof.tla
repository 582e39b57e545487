--------------------------- MODULE WalletUseProof ---------------------------
(***************************************************************************)
(* Proofs about WalletUse, for any number of cashiers, workers, principals *)
(* and wallets: registration keeps its promises while wallets are used,    *)
(* and money moves between proven addresses only.                          *)
(***************************************************************************)
EXTENDS WalletUse, WalletRegistrationProof

-----------------------------------------------------------------------------
(* The inductive invariant. *)

\* What a cashier has read is there: the wallet it permits, or those it takes the
\* money from and gives it to, of the named user and store, of one chain and token.
DesksHoldWallets ==
    /\ desk \in [Cashiers -> PermitJob \union PaymentJob \union {None}]
    /\ \A c \in Cashiers : desk[c] \in PermitJob => desk[c].wallet \in WalletIds
    /\ \A c \in Cashiers : desk[c] \in PaymentJob =>
            LET job == desk[c]
            IN  /\ job.to \in WalletIds /\ job.from \in WalletIds
                /\ wallets[job.to].owner = job.store
                /\ wallets[job.from].owner = job.user
                /\ wallets[job.to].chainId = wallets[job.from].chainId
                /\ wallets[job.to].token = wallets[job.from].token

UseInv ==
    /\ RegistrationInv
    /\ DesksHoldWallets
    /\ PaymentsAreProven

\* With one request for each principal at a time.
UseOneEachInv == UseInv /\ OneEachInv

-----------------------------------------------------------------------------
(* Permitting a wallet disturbs nothing of its registration. *)

LEMMA PermitEffect ==
    ASSUME TypeOK, DesksHoldWallets, NEW c \in Cashiers, CommitPermit(c)
    PROVE  /\ wallets' \in Seq(WalletRow) /\ Len(wallets') = Len(wallets)
           /\ WalletIds' = WalletIds
           /\ \A i \in WalletIds :
                /\ wallets'[i].owner = wallets[i].owner
                /\ wallets'[i].address = wallets[i].address
                /\ wallets'[i].network = wallets[i].network
                /\ wallets'[i].chainId = wallets[i].chainId
                /\ wallets'[i].token = wallets[i].token
                /\ wallets'[i].nonce = wallets[i].nonce
                /\ wallets'[i].signature = wallets[i].signature
                /\ wallets'[i].deleted = wallets[i].deleted
                /\ wallets'[i].unlinked = wallets[i].unlinked
           /\ UNCHANGED <<nonces, work, now, payments>>
<1> DEFINE id == desk[c].wallet
           row == [wallets[id] EXCEPT !.permitted = TRUE]
<1>1. wallets \in Seq(WalletRow) /\ WalletIds = 1..Len(wallets)
  BY DEF TypeOK, WalletIds
<1>2. id \in WalletIds
  BY DEF CommitPermit, DesksHoldWallets, PermitJob, PaymentJob
<1>3. wallets[id] \in WalletRow
  BY <1>1, <1>2
<1>4. /\ row \in WalletRow
      /\ row.owner = wallets[id].owner /\ row.address = wallets[id].address
      /\ row.network = wallets[id].network /\ row.chainId = wallets[id].chainId
      /\ row.token = wallets[id].token
      /\ row.nonce = wallets[id].nonce /\ row.signature = wallets[id].signature
      /\ row.deleted = wallets[id].deleted /\ row.unlinked = wallets[id].unlinked
  BY <1>3 DEF WalletRow
<1>5. wallets' = [wallets EXCEPT ![id] = row] /\ UNCHANGED <<nonces, work, now, payments>>
  BY <1>1, <1>2, <1>3 DEF CommitPermit, WalletRow
<1> HIDE DEF row, id
<1>6. /\ wallets' \in Seq(WalletRow) /\ Len(wallets') = Len(wallets)
      /\ \A i \in WalletIds : wallets'[i] = IF i = id THEN row ELSE wallets[i]
  BY <1>1, <1>2, <1>4, <1>5, ExceptSeq
<1>7. WalletIds' = WalletIds
  BY <1>1, <1>6 DEF WalletIds
<1> QED BY <1>4, <1>5, <1>6, <1>7

\* Nothing a registration is about looks at permitted.
LEMMA PermitKeepsRegistration ==
    ASSUME RegistrationInv, DesksHoldWallets, NEW c \in Cashiers, CommitPermit(c)
    PROVE  RegistrationInv'
<1>0. TypeOK
  BY DEF RegistrationInv
<1>1. /\ wallets' \in Seq(WalletRow) /\ Len(wallets') = Len(wallets)
      /\ WalletIds' = WalletIds /\ NonceIds' = NonceIds
      /\ \A i \in WalletIds :
            /\ wallets'[i].owner = wallets[i].owner
            /\ wallets'[i].address = wallets[i].address
            /\ wallets'[i].network = wallets[i].network
            /\ wallets'[i].nonce = wallets[i].nonce
            /\ wallets'[i].signature = wallets[i].signature
      /\ UNCHANGED <<nonces, work, now>>
  BY <1>0, PermitEffect DEF NonceIds
<1>2. TypeOK' /\ RoomForJobs'
  BY <1>1 DEF RegistrationInv, TypeOK, RoomForJobs, Working
<1>3. WalletsAreProven' /\ JobsAreProven'
  BY <1>1 DEF RegistrationInv, WalletsAreProven, JobsAreProven, Proven
<1>4. NonceUsedIffWallet'
  <2>1. \A n : (\E i \in WalletIds' : wallets'[i].nonce = n)
                    <=> (\E i \in WalletIds : wallets[i].nonce = n)
    BY <1>1
  <2> QED BY <1>1, <2>1 DEF RegistrationInv, NonceUsedIffWallet
<1>5. NoncesLiveTtl'
  BY <1>1 DEF RegistrationInv, NoncesLiveTtl, LivesTtl
<1> QED BY <1>2, <1>3, <1>4, <1>5 DEF RegistrationInv

LEMMA PermitKeepsOneEach ==
    ASSUME OneEachInv, DesksHoldWallets, NEW c \in Cashiers, CommitPermit(c)
    PROVE  OneEachInv'
<1>0. TypeOK /\ RegistrationInv
  BY DEF OneEachInv, RegistrationInv
<1>1. /\ WalletIds' = WalletIds
      /\ \A i \in WalletIds :
            /\ wallets'[i].owner = wallets[i].owner
            /\ wallets'[i].network = wallets[i].network
            /\ wallets'[i].chainId = wallets[i].chainId
            /\ wallets'[i].token = wallets[i].token
            /\ wallets'[i].nonce = wallets[i].nonce
            /\ wallets'[i].deleted = wallets[i].deleted
            /\ wallets'[i].unlinked = wallets[i].unlinked
      /\ UNCHANGED <<nonces, work, now>>
  BY <1>0, PermitEffect
<1>2. RegistrationInv'
  BY <1>0, PermitKeepsRegistration
<1>3. LinksGoWithWallets' /\ ReadsStillHold'
  BY <1>1 DEF OneEachInv, LinksGoWithWallets, ReadsStillHold, Active
<1>4. NonceIsOneTime' /\ OneWalletPerChain'
  BY <1>1 DEF OneEachInv, NonceIsOneTime, OneWalletPerChain, Active
<1> QED BY <1>2, <1>3, <1>4 DEF OneEachInv

\* Every step of the whole is one of the registration or of a permit as far as
\* nonces and wallets go.
LEMMA UseEffect ==
    ASSUME [UseNext]_useVars
    PROVE  [Next]_vars \/ \E c \in Cashiers : CommitPermit(c)
  BY DEF UseNext, useVars, LoadPermit, CreatePaymentRequest, CommitPayment, RollbackUse

\* A wallet that is there stays there, with its owner, address, chain, token and
\* proof.
LEMMA WalletsStay ==
    ASSUME TypeOK, DesksHoldWallets, [UseNext]_useVars, NEW i \in WalletIds
    PROVE  /\ i \in WalletIds'
           /\ wallets'[i].owner = wallets[i].owner
           /\ wallets'[i].address = wallets[i].address
           /\ wallets'[i].chainId = wallets[i].chainId
           /\ wallets'[i].token = wallets[i].token
           /\ wallets'[i].nonce = wallets[i].nonce
           /\ wallets'[i].signature = wallets[i].signature
<1>1. CASE [Next]_vars
  <2>1. i \in WalletIds'
    <3>1. ASSUME NEW w \in Workers, CommitWallet(w) PROVE i \in WalletIds'
      BY <3>1, CommitWalletEffect
    <3>2. ASSUME NEW kind, NEW id \in WalletIds, DeleteWallet(kind, id) PROVE i \in WalletIds'
      BY <3>2, DeleteEffect
    <3>3. UNCHANGED wallets => i \in WalletIds'
      BY DEF WalletIds
    <3> QED BY <1>1, <3>1, <3>2, <3>3, NextEffect
            DEF StartsNonce, StartsWallet, CommitNonce, Rollback
  <2> QED BY <1>1, <2>1, WalletsEffect
<1>2. CASE \E c \in Cashiers : CommitPermit(c)
  BY <1>2, PermitEffect
<1> QED BY <1>1, <1>2, UseEffect

-----------------------------------------------------------------------------
(* The invariant is kept. *)

\* A payment starts with wallets of the named user and store, of one chain and token.
LEMMA PaymentStart ==
    ASSUME NEW c \in Cashiers, NEW store \in Principals \union Strangers,
           NEW user \in Principals \union Strangers, TypeOK,
           CreatePaymentRequest(c, store, user)
    PROVE  \E job \in PaymentJob :
              /\ desk' = [desk EXCEPT ![c] = job]
              /\ job.to \in WalletIds /\ job.from \in WalletIds
              /\ wallets[job.to].owner = job.store
              /\ wallets[job.from].owner = job.user
              /\ wallets[job.to].chainId = wallets[job.from].chainId
              /\ wallets[job.to].token = wallets[job.from].token
              /\ desk[c] = None
              /\ UNCHANGED <<vars, payments>>
<1>1. PICK to \in WalletsOf(Stores, store), from \in WalletsOf(Users, user) :
        /\ wallets[to].chainId = wallets[from].chainId
        /\ wallets[to].token = wallets[from].token
        /\ desk' = [desk EXCEPT ![c] = [kind |-> "payment", store |-> store, user |-> user,
                                        to |-> to, from |-> from]]
  BY DEF CreatePaymentRequest
<1> DEFINE job == [kind |-> "payment", store |-> store, user |-> user,
                   to |-> to, from |-> from]
<1>2. /\ to \in WalletIds /\ from \in WalletIds
      /\ wallets[to].owner = store /\ wallets[from].owner = user
  BY DEF WalletsOf
<1>3. to \in Nat /\ from \in Nat
  BY <1>2 DEF TypeOK, WalletIds
<1>4. /\ job \in PaymentJob /\ job.store = store /\ job.user = user
      /\ job.to = to /\ job.from = from
  BY <1>3 DEF PaymentJob
<1>5. desk[c] = None /\ UNCHANGED <<vars, payments>>
  BY DEF CreatePaymentRequest
<1> HIDE DEF job
<1> QED BY <1>1, <1>2, <1>4, <1>5 DEF job

LEMMA NextDesks ==
    ASSUME UseInv, [UseNext]_useVars PROVE DesksHoldWallets'
<1>0. TypeOK /\ DesksHoldWallets
  BY DEF UseInv, RegistrationInv
<1>1. ASSUME NEW job \in PaymentJob
      PROVE  job \notin PermitJob /\ job # None /\ job.kind = "payment"
  BY DeskAssumption DEF PaymentJob, PermitJob
<1>2. ASSUME NEW job \in PermitJob
      PROVE  job \notin PaymentJob /\ job # None
  BY DeskAssumption DEF PaymentJob, PermitJob
<1> DEFINE Held(job) ==
        /\ job \in PermitJob \union PaymentJob \union {None}
        /\ job \in PermitJob => job.wallet \in WalletIds
        /\ job \in PaymentJob =>
                /\ job.to \in WalletIds /\ job.from \in WalletIds
                /\ wallets[job.to].owner = job.store
                /\ wallets[job.from].owner = job.user
                /\ wallets[job.to].chainId = wallets[job.from].chainId
                /\ wallets[job.to].token = wallets[job.from].token
           HeldNext(job) ==
        /\ job \in PermitJob \union PaymentJob \union {None}
        /\ job \in PermitJob => job.wallet \in WalletIds'
        /\ job \in PaymentJob =>
                /\ job.to \in WalletIds' /\ job.from \in WalletIds'
                /\ wallets'[job.to].owner = job.store
                /\ wallets'[job.from].owner = job.user
                /\ wallets'[job.to].chainId = wallets'[job.from].chainId
                /\ wallets'[job.to].token = wallets'[job.from].token
<1>3. ASSUME NEW job, Held(job) PROVE HeldNext(job)
  BY <1>0, <1>3, WalletsStay
<1>4. \A c \in Cashiers : Held(desk[c])
  BY <1>0 DEF DesksHoldWallets
<1>5. Held(None)
  BY DeskAssumption
<1>6. /\ desk' \in [Cashiers -> {desk'[c] : c \in Cashiers}]
      /\ \A c \in Cashiers : Held(desk'[c])
  <2>0. desk \in [Cashiers -> PermitJob \union PaymentJob \union {None}]
    BY <1>0 DEF DesksHoldWallets
  <2>1. ASSUME NEW c \in Cashiers, NEW job, desk' = [desk EXCEPT ![c] = job], Held(job)
        PROVE  /\ desk' \in [Cashiers -> {desk'[d] : d \in Cashiers}]
               /\ \A d \in Cashiers : Held(desk'[d])
    <3>1. \A d \in Cashiers : desk'[d] = IF d = c THEN job ELSE desk[d]
      BY <2>0, <2>1
    <3> HIDE DEF Held
    <3> QED BY <1>4, <2>0, <2>1, <3>1
  <2>2. ASSUME NEW c \in Cashiers, NEW id \in WalletIds, LoadPermit(c, id)
        PROVE  \E job : desk' = [desk EXCEPT ![c] = job] /\ Held(job)
    <3> DEFINE job == [kind |-> "permit", wallet |-> id]
    <3>1. id \in Nat
      BY <1>0 DEF TypeOK, WalletIds
    <3>2. job \in PermitJob /\ job.wallet = id
      BY <3>1 DEF PermitJob
    <3>3. desk' = [desk EXCEPT ![c] = job]
      BY <2>2 DEF LoadPermit
    <3> HIDE DEF job
    <3>4. Held(job)
      BY <1>2, <3>2
    <3> QED BY <3>3, <3>4
  <2>3. ASSUME NEW c \in Cashiers, NEW store \in Principals \union Strangers,
               NEW user \in Principals \union Strangers, CreatePaymentRequest(c, store, user)
        PROVE  \E job : desk' = [desk EXCEPT ![c] = job] /\ Held(job)
    BY <1>0, <1>1, <2>3, PaymentStart
  <2>4. ASSUME NEW c \in Cashiers, CommitPermit(c) \/ CommitPayment(c) \/ RollbackUse(c)
        PROVE  \E job : desk' = [desk EXCEPT ![c] = job] /\ Held(job)
    <3>1. desk' = [desk EXCEPT ![c] = None]
      BY <2>4 DEF CommitPermit, CommitPayment, RollbackUse
    <3> QED BY <1>5, <3>1
  <2>5. ASSUME UNCHANGED desk
        PROVE  /\ desk' \in [Cashiers -> {desk'[c] : c \in Cashiers}]
               /\ \A c \in Cashiers : Held(desk'[c])
    <3> HIDE DEF Held
    <3> QED BY <1>4, <2>0, <2>5
  <2> HIDE DEF Held
  <2> QED BY <2>1, <2>2, <2>3, <2>4, <2>5 DEF UseNext, useVars
<1>7. \A c \in Cashiers : HeldNext(desk'[c])
  BY <1>3, <1>6
<1> QED BY <1>6, <1>7 DEF DesksHoldWallets

LEMMA InitUse == UseInit => UseInv
<1> SUFFICES ASSUME UseInit PROVE UseInv
  OBVIOUS
<1>1. RegistrationInv
  BY InitRegistration DEF UseInit
<1>2. DesksHoldWallets
  BY DeskAssumption DEF UseInit, DesksHoldWallets
<1> QED BY <1>1, <1>2 DEF UseInv, UseInit, PaymentsAreProven

\* Who has proven an address has proven it for good.
LEMMA ProofStays ==
    ASSUME UseInv, [UseNext]_useVars, NEW owner, NEW address, NEW chainId, NEW token,
           HasProven(owner, address, chainId, token)
    PROVE  HasProven(owner, address, chainId, token)'
<1>0. RegistrationInv /\ TypeOK /\ DesksHoldWallets
  BY DEF UseInv, RegistrationInv
<1>1. PICK i \in WalletIds : /\ wallets[i].owner = owner
                             /\ wallets[i].address = address
                             /\ wallets[i].chainId = chainId
                             /\ wallets[i].token = token
                             /\ wallets[i].signature = [signer |-> address, nonce |-> wallets[i].nonce]
  BY DEF HasProven
<1>2. /\ i \in WalletIds' /\ wallets'[i].owner = owner /\ wallets'[i].address = address
      /\ wallets'[i].chainId = chainId /\ wallets'[i].token = token
      /\ wallets'[i].nonce = wallets[i].nonce
      /\ wallets'[i].signature = wallets[i].signature
  BY <1>0, <1>1, WalletsStay
<1>3. RegistrationInv'
  BY <1>0, UseEffect, NextRegistration, PermitKeepsRegistration
<1>4. nonces'[wallets'[i].nonce].owner = owner
  BY <1>2, <1>3 DEF RegistrationInv, WalletsAreProven, Proven
<1> QED BY <1>1, <1>2, <1>4 DEF HasProven

LEMMA NextUse == UseInv /\ [UseNext]_useVars => UseInv'
<1> SUFFICES ASSUME UseInv, [UseNext]_useVars PROVE UseInv'
  OBVIOUS
<1>0. RegistrationInv /\ TypeOK /\ DesksHoldWallets
  BY DEF UseInv, RegistrationInv
<1>1. RegistrationInv'
  BY <1>0, UseEffect, NextRegistration, PermitKeepsRegistration
<1>2. DesksHoldWallets'
  BY NextDesks
<1>3. PaymentsAreProven'
  <2> SUFFICES ASSUME NEW payment \in payments'
               PROVE  /\ HasProven(payment.user, payment.from, payment.chainId, payment.token)'
                      /\ HasProven(payment.store, payment.to, payment.chainId, payment.token)'
    BY DEF PaymentsAreProven
  <2>1. ASSUME HasProven(payment.user, payment.from, payment.chainId, payment.token),
               HasProven(payment.store, payment.to, payment.chainId, payment.token)
        PROVE  /\ HasProven(payment.user, payment.from, payment.chainId, payment.token)'
               /\ HasProven(payment.store, payment.to, payment.chainId, payment.token)'
    BY <2>1, ProofStays
  <2>2. CASE payment \in payments
    BY <2>1, <2>2 DEF UseInv, PaymentsAreProven
  <2>3. CASE payment \notin payments
    <3>1. PICK c \in Cashiers : CommitPayment(c)
      BY <2>3 DEF UseNext, useVars, LoadPermit, CreatePaymentRequest, CommitPermit, RollbackUse
    <3> DEFINE job == desk[c]
    <3>2. payment = PaymentRow(job) /\ job \in PaymentJob
      BY <1>0, <2>3, <3>1 DEF CommitPayment, DesksHoldWallets, PermitJob
    <3>3. /\ payment.store = job.store /\ payment.user = job.user
          /\ payment.chainId = wallets[job.to].chainId
          /\ payment.token = wallets[job.to].token
          /\ payment.to = wallets[job.to].address /\ payment.from = wallets[job.from].address
      BY <3>2 DEF PaymentRow
    <3>4. /\ job.to \in WalletIds /\ job.from \in WalletIds
          /\ wallets[job.to].owner = job.store /\ wallets[job.from].owner = job.user
          /\ wallets[job.to].chainId = wallets[job.from].chainId
          /\ wallets[job.to].token = wallets[job.from].token
      BY <1>0, <3>2 DEF DesksHoldWallets
    <3> HIDE DEF job
    <3>5. ASSUME NEW i \in WalletIds
          PROVE  HasProven(wallets[i].owner, wallets[i].address, wallets[i].chainId,
                           wallets[i].token)
      BY <1>0 DEF RegistrationInv, WalletsAreProven, Proven, HasProven
    <3>6. /\ HasProven(payment.user, payment.from, payment.chainId, payment.token)
          /\ HasProven(payment.store, payment.to, payment.chainId, payment.token)
      BY <3>3, <3>4, <3>5
    <3> QED BY <2>1, <3>6
  <2> QED BY <2>2, <2>3
<1> QED BY <1>1, <1>2, <1>3 DEF UseInv

LEMMA NextUseOneEach ==
    ASSUME OneRequestEach PROVE UseOneEachInv /\ [UseNext]_useVars => UseOneEachInv'
  BY NextUse, UseEffect, NextOneEach, PermitKeepsOneEach DEF UseOneEachInv, UseInv

-----------------------------------------------------------------------------
(* Theorems *)

THEOREM UseInvariant == UseSpec => []UseInv
  BY InitUse, NextUse, PTL DEF UseSpec

\* What registration promises holds while wallets are permitted and charged.
THEOREM RegistrationInUse ==
    UseSpec => [](TypeOK /\ WalletIsProven /\ NonceUsedIffWallet)
<1>1. UseInv => TypeOK /\ WalletIsProven /\ NonceUsedIffWallet
  BY DEF UseInv, RegistrationInv, WalletsAreProven, Proven, WalletIsProven
<1> QED BY <1>1, UseInvariant, PTL

\* So does what it promises those who ask for one thing at a time.
THEOREM OneEachInUse ==
    ASSUME OneRequestEach PROVE UseSpec => [](NonceIsOneTime /\ OneWalletPerChain)
<1>1. UseInit => UseOneEachInv
  BY InitUse, InitOneEach DEF UseInit, UseOneEachInv
<1>2. UseOneEachInv => NonceIsOneTime /\ OneWalletPerChain
  BY DEF UseOneEachInv, OneEachInv
<1> QED BY <1>1, <1>2, NextUseOneEach, PTL DEF UseSpec

\* Money goes from an address its user has proven to one its store has proven, on
\* the chain both were registered for, whatever became of the wallets meanwhile.
THEOREM ProvenPayments == UseSpec => []PaymentsAreProven
<1>1. UseInv => PaymentsAreProven
  BY DEF UseInv
<1> QED BY <1>1, UseInvariant, PTL

\* And no registration starts with a nonce of more than ten minutes.
THEOREM TenMinutesInUse ==
    ASSUME ServerOffset >= JstOffset PROVE UseSpec => NonceLivesTenMinutes
<1>1. ASSUME UseInv, [UseNext]_useVars, NEW w \in Workers,
             work[w] = None, work'[w] # None, work'[w].kind = "wallet"
      PROVE  now <= nonces[work'[w].nonce].issued + Ttl
  <2>0. RegistrationInv /\ TypeOK
    BY <1>1 DEF UseInv, RegistrationInv
  <2>1. [Next]_vars
    BY <1>1, UseEffect DEF CommitPermit
  <2>2. StartsWallet(w, work'[w])
    BY <1>1, <2>0, <2>1, JobsEffect DEF StartsNonce, NonceJob
  <2> QED BY <2>0, <2>2, StartsInTime
<1>2. UseInv /\ [UseNext]_useVars =>
        [\A w \in Workers :
            (work[w] = None /\ work'[w] # None /\ work'[w].kind = "wallet")
                => now <= nonces[work'[w].nonce].issued + Ttl]_vars
  BY <1>1 DEF vars, useVars
<1> QED BY <1>2, UseInvariant, PTL DEF UseSpec, NonceLivesTenMinutes
=============================================================================
