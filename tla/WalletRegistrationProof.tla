----------------------- MODULE WalletRegistrationProof -----------------------
(***************************************************************************)
(* Proofs about WalletRegistration, for any number of users, stores,       *)
(* addresses, networks and workers: every wallet was proven to its owner,  *)
(* nonces and wallets agree, and, as long as nobody asks for two things at *)
(* a time, a nonce is used once and a chain has one wallet.                *)
(***************************************************************************)
EXTENDS WalletRegistration, FiniteSetTheorems, SequenceTheorems, TLAPS

-----------------------------------------------------------------------------
(* The inductive invariant. *)

\* A wallet, or the transaction about to make it, rests on a nonce of the same
\* principal, address and network which that address signed.
Proven(x) ==
    /\ x.nonce \in NonceIds
    /\ nonces[x.nonce].owner = x.owner
    /\ nonces[x.nonce].address = x.address
    /\ nonces[x.nonce].network = x.network
    /\ x.signature = [signer |-> x.address, nonce |-> x.nonce]

WalletsAreProven == \A i \in WalletIds : Proven(wallets[i])

JobsAreProven == \A w \in Workers : work[w] \in WalletJob => Proven(work[w])

\* The rows the transactions are about to add fit in the tables.
RoomForJobs ==
    /\ Len(nonces) + Cardinality(Working("nonce")) <= MaxNonces
    /\ Len(wallets) + Cardinality(Working("wallet")) <= MaxWallets

\* expires_at is ten minutes, in JST, after the nonce was issued.
LivesTtl(x) == x.expires = x.issued + JstOffset + Ttl

NoncesLiveTtl ==
    /\ \A n \in NonceIds : LivesTtl(nonces[n])
    /\ \A w \in Workers : work[w] \in NonceJob => LivesTtl(work[w])

RegistrationInv ==
    /\ TypeOK
    /\ RoomForJobs
    /\ WalletsAreProven
    /\ JobsAreProven
    /\ NonceUsedIffWallet
    /\ NoncesLiveTtl

\* Nobody asks for two things at a time: no principal is named by the requests of
\* two workers.
OneRequestEach ==
    \A w, x \in Workers : w # x => Clients[w] \intersect Clients[x] = {}

\* What a transaction has read still holds, because nobody else acts for its owner.
ReadsStillHold ==
    /\ \A w \in Workers : work[w] # None => work[w].owner \in Clients[w]
    /\ \A w \in Workers : work[w] \in WalletJob =>
            /\ ~nonces[work[w].nonce].used
            /\ \A i \in WalletIds :
                    ~(/\ Active(wallets[i]) /\ wallets[i].owner = work[w].owner
                      /\ wallets[i].network = work[w].network
                      /\ wallets[i].chainId = work[w].chainId)

\* A link goes only together with its wallet.
LinksGoWithWallets == \A i \in WalletIds : wallets[i].unlinked => wallets[i].deleted

OneEachInv ==
    /\ RegistrationInv
    /\ LinksGoWithWallets
    /\ ReadsStillHold
    /\ NonceIsOneTime
    /\ OneWalletPerChain

-----------------------------------------------------------------------------
(* What the steps do. *)

\* The kinds of jobs are told apart by their field.
LEMMA JobKinds ==
    ASSUME TypeOK, NEW w \in Workers, work[w] # None
    PROVE  /\ work[w].kind = "nonce" => work[w] \in NonceJob /\ work[w] \notin WalletJob
           /\ work[w].kind = "wallet" => work[w] \in WalletJob /\ work[w] \notin NonceJob
           /\ work[w].kind \in {"nonce", "wallet"}
           /\ work[w].owner \in Principals
  BY DEF TypeOK, NonceJob, WalletJob

\* A transaction that takes up or gives up a job counts, or no longer counts.
LEMMA WorkingEffect ==
    ASSUME TypeOK, NEW w \in Workers, NEW kind, NEW job,
           work' = [work EXCEPT ![w] = job]
    PROVE  /\ Cardinality(Working(kind)) \in Nat
           /\ work[w] # None /\ work[w].kind = kind /\ job = None =>
                Cardinality(Working(kind)') = Cardinality(Working(kind)) - 1
           /\ work[w] = None /\ job # None /\ job.kind = kind =>
                Cardinality(Working(kind)') = Cardinality(Working(kind)) + 1
           /\ (work[w] = None \/ work[w].kind # kind) /\ (job = None \/ job.kind # kind) =>
                Cardinality(Working(kind)') = Cardinality(Working(kind))
<1>1. IsFiniteSet(Working(kind))
  BY WorkerAssumption, FS_Subset DEF Working
<1>2. \A x \in Workers : work'[x] = IF x = w THEN job ELSE work[x]
  BY DEF TypeOK
<1>3. work[w] # None /\ work[w].kind = kind /\ job = None =>
        w \in Working(kind) /\ Working(kind)' = Working(kind) \ {w}
  BY <1>2 DEF Working
<1>4. work[w] = None /\ job # None /\ job.kind = kind =>
        w \notin Working(kind) /\ Working(kind)' = Working(kind) \union {w}
  BY <1>2 DEF Working
<1>5. (work[w] = None \/ work[w].kind # kind) /\ (job = None \/ job.kind # kind) =>
        Working(kind)' = Working(kind)
  BY <1>2 DEF Working
<1>6. Cardinality(Working(kind)) \in Nat
  BY <1>1, FS_CardinalityType
<1>7. /\ w \in Working(kind) => Cardinality(Working(kind) \ {w}) = Cardinality(Working(kind)) - 1
      /\ w \notin Working(kind) =>
            Cardinality(Working(kind) \union {w}) = Cardinality(Working(kind)) + 1
  BY <1>1, FS_AddElement, FS_RemoveElement
<1> QED BY <1>3, <1>4, <1>5, <1>6, <1>7

\* Counts are numbers afterwards too.
LEMMA WorkingNextType == ASSUME NEW kind PROVE Cardinality(Working(kind)') \in Nat
<1>1. IsFiniteSet(Working(kind)')
  BY WorkerAssumption, FS_Subset DEF Working
<1> QED BY <1>1, FS_CardinalityType

\* A transaction that is about to write a nonce.
StartsNonce(w, job) ==
    /\ job \in NonceJob /\ LivesTtl(job)
    /\ work[w] = None /\ job.owner \in Clients[w]
    /\ Len(nonces) + Cardinality(Working("nonce")) < MaxNonces
    /\ work' = [work EXCEPT ![w] = job]
    /\ UNCHANGED <<nonces, wallets, now>>

\* A transaction that is about to write a wallet, and what it has read.
StartsWallet(w, job) ==
    /\ job \in WalletJob /\ Proven(job)
    /\ work[w] = None /\ job.owner \in Clients[w]
    /\ ~nonces[job.nonce].used /\ nonces[job.nonce].expires >= ServerNow
    /\ ExistingWallets(job.owner, job.network, job.chainId) = {}
    /\ Len(wallets) + Cardinality(Working("wallet")) < MaxWallets
    /\ work' = [work EXCEPT ![w] = job]
    /\ UNCHANGED <<nonces, wallets, now>>

LEMMA StartNonceEffect ==
    ASSUME TypeOK, NEW w \in Workers, NEW p \in Clients[w], p \in Principals,
           NEW a \in Addresses, NEW n \in Networks, CreateWalletNonce(w, p, a, n)
    PROVE  \E job : StartsNonce(w, job)
<1> DEFINE job == [kind |-> "nonce", owner |-> p, address |-> a, network |-> n,
                   issued |-> now, expires |-> JstNow + Ttl]
<1>1. now \in Nat /\ JstNow + Ttl \in Nat
  BY BoundAssumption DEF TypeOK, JstNow
<1>2. job \in NonceJob /\ job.owner = p
  BY <1>1 DEF NonceJob
<1>3. LivesTtl(job)
  BY <1>1, BoundAssumption DEF LivesTtl, JstNow, TypeOK
<1>4. /\ work[w] = None /\ work' = [work EXCEPT ![w] = job]
      /\ Len(nonces) + Cardinality(Working("nonce")) < MaxNonces
      /\ UNCHANGED <<nonces, wallets, now>>
  BY DEF CreateWalletNonce
<1> HIDE DEF job
<1> QED BY <1>2, <1>3, <1>4 DEF StartsNonce

LEMMA StartWalletEffect ==
    ASSUME TypeOK, NEW w \in Workers, NEW p \in Clients[w], p \in Principals,
           NEW a \in Addresses, NEW n \in Networks, NEW c \in ChainIds,
           NEW t \in Tokens, NEW s \in Signatures, CreateWallet(w, p, a, n, c, t, s)
    PROVE  \E job : StartsWallet(w, job)
<1>1. PICK id \in NonceIds :
        /\ VerifyWalletNonce(id, p, a, n, s)
        /\ ExistingWallets(p, n, c) = {}
        /\ work' = [work EXCEPT ![w] =
                [kind |-> "wallet", owner |-> p, address |-> a, network |-> n,
                 chainId |-> c, token |-> t, nonce |-> id, signature |-> s,
                   permitted |-> p \in Stores]]
  BY DEF CreateWallet
<1> DEFINE job == [kind |-> "wallet", owner |-> p, address |-> a, network |-> n,
                   chainId |-> c, token |-> t, nonce |-> id, signature |-> s,
                   permitted |-> p \in Stores]
<1>2. id \in 1..MaxNonces /\ NonceIds \subseteq 1..MaxNonces
  BY BoundAssumption DEF TypeOK, NonceIds
<1>3. s \in Signature
  BY <1>2 DEF Signature, Signatures
<1>4. job \in WalletJob
  BY <1>2, <1>3 DEF WalletJob
<1>5. /\ job.owner = p /\ job.network = n /\ job.chainId = c /\ job.nonce = id
      /\ job.address = a /\ job.signature = s
  OBVIOUS
<1>6. /\ work[w] = None /\ work' = [work EXCEPT ![w] = job]
      /\ Len(wallets) + Cardinality(Working("wallet")) < MaxWallets
      /\ UNCHANGED <<nonces, wallets, now>>
  BY <1>1 DEF CreateWallet
<1> HIDE DEF job
<1>7. Proven(job) /\ ~nonces[job.nonce].used /\ nonces[job.nonce].expires >= ServerNow
  BY <1>1, <1>5 DEF Proven, VerifyWalletNonce, AvailableNonces
<1>8. ExistingWallets(job.owner, job.network, job.chainId) = {}
  BY <1>1, <1>5
<1> QED BY <1>4, <1>5, <1>6, <1>7, <1>8 DEF StartsWallet

\* Every step starts a transaction, ends one, deletes a wallet or lets time pass.
LEMMA NextEffect ==
    ASSUME TypeOK, [Next]_vars
    PROVE  \/ \E w \in Workers : \E job : StartsNonce(w, job)
           \/ \E w \in Workers : \E job : StartsWallet(w, job)
           \/ \E w \in Workers : CommitNonce(w) \/ CommitWallet(w) \/ Rollback(w)
           \/ \E kind \in {Users, Stores}, id \in WalletIds : DeleteWallet(kind, id)
           \/ UNCHANGED <<nonces, wallets, work>> /\ now' \in 0..MaxTime
<1>1. ASSUME NEW w \in Workers, NEW p \in Clients[w], NEW a \in Addresses,
             NEW n \in Networks,
             CreateUserWalletNonce(w, p, a, n) \/ CreateStoreWalletNonce(w, p, a, n)
      PROVE  \E job : StartsNonce(w, job)
  BY <1>1, StartNonceEffect DEF CreateUserWalletNonce, CreateStoreWalletNonce, Principals
<1>2. ASSUME NEW w \in Workers, NEW p \in Clients[w], NEW a \in Addresses,
             NEW n \in Networks, NEW c \in ChainIds, NEW t \in Tokens,
             NEW s \in Signatures,
             \/ CreateUserWallet(w, p, a, n, c, t, s)
             \/ CreateStoreWallet(w, p, a, n, c, t, s)
      PROVE  \E job : StartsWallet(w, job)
  BY <1>2, StartWalletEffect DEF CreateUserWallet, CreateStoreWallet, Principals
<1>3. ASSUME NEW id \in WalletIds, DeleteUserWallet(id) \/ DeleteStoreWallet(id)
      PROVE  \E kind \in {Users, Stores} : DeleteWallet(kind, id)
  BY <1>3 DEF DeleteUserWallet, DeleteStoreWallet
<1>4. Tick => UNCHANGED <<nonces, wallets, work>> /\ now' \in 0..MaxTime
  BY BoundAssumption DEF Tick, TypeOK
<1>5. UNCHANGED vars => UNCHANGED <<nonces, wallets, work>> /\ now' \in 0..MaxTime
  BY DEF vars, TypeOK
<1>6. ASSUME NEW w \in Workers, WorkerStep(w)
      PROVE  \/ \E job : StartsNonce(w, job)
             \/ \E job : StartsWallet(w, job)
             \/ CommitNonce(w) \/ CommitWallet(w) \/ Rollback(w)
  BY <1>1, <1>2, <1>6 DEF WorkerStep
<1> QED BY <1>3, <1>4, <1>5, <1>6 DEF Next

\* A commit of a nonce adds its row at the end and leaves the others as they are.
LEMMA CommitNonceEffect ==
    ASSUME TypeOK, NEW w \in Workers, CommitNonce(w)
    PROVE  /\ work[w] \in NonceJob
           /\ nonces' \in Seq(NonceRow) /\ Len(nonces') = Len(nonces) + 1
           /\ \A i \in NonceIds : i \in NonceIds' /\ nonces'[i] = nonces[i]
           /\ \A i \in NonceIds' : i \in NonceIds \/ i = Len(nonces')
           /\ Len(nonces') \notin NonceIds
           /\ LET new == nonces'[Len(nonces')]
              IN  /\ new.issued = work[w].issued /\ new.expires = work[w].expires
                  /\ new.used = FALSE /\ new.unlinked = FALSE
           /\ work' = [work EXCEPT ![w] = None]
           /\ UNCHANGED <<wallets, now>>
<1> DEFINE new == [owner |-> work[w].owner, address |-> work[w].address,
                   network |-> work[w].network, issued |-> work[w].issued,
                   expires |-> work[w].expires, used |-> FALSE, unlinked |-> FALSE]
<1>1. work[w] \in NonceJob
  BY JobKinds DEF CommitNonce
<1>2. new \in NonceRow
  BY <1>1 DEF NonceJob, NonceRow
<1>3. /\ new.issued = work[w].issued /\ new.expires = work[w].expires
      /\ new.used = FALSE /\ new.unlinked = FALSE
  OBVIOUS
<1>4. nonces' = Append(nonces, new) /\ nonces \in Seq(NonceRow)
  BY DEF CommitNonce, TypeOK
<1> HIDE DEF new
<1>5. /\ nonces' \in Seq(NonceRow) /\ Len(nonces') = Len(nonces) + 1
      /\ \A i \in 1..Len(nonces) : nonces'[i] = nonces[i]
      /\ nonces'[Len(nonces')] = new
  BY <1>2, <1>4, AppendProperties
<1>6. NonceIds = 1..Len(nonces) /\ NonceIds' = 1..Len(nonces') /\ Len(nonces) \in Nat
  BY <1>4, <1>5 DEF NonceIds
<1>7. work' = [work EXCEPT ![w] = None] /\ UNCHANGED <<wallets, now>>
  BY DEF CommitNonce
<1> QED BY <1>1, <1>3, <1>5, <1>6, <1>7

\* A commit of a wallet adds its row at the end and marks its nonce, whose other
\* fields stay, as do all other nonces.
LEMMA CommitWalletEffect ==
    ASSUME TypeOK, NEW w \in Workers, CommitWallet(w)
    PROVE  LET job == work[w]
               new == wallets'[Len(wallets')]
           IN  /\ job \in WalletJob /\ job.nonce \in NonceIds
               /\ wallets' \in Seq(WalletRow) /\ Len(wallets') = Len(wallets) + 1
               /\ \A i \in WalletIds : i \in WalletIds' /\ wallets'[i] = wallets[i]
               /\ \A i \in WalletIds' : i \in WalletIds \/ i = Len(wallets')
               /\ Len(wallets') \in WalletIds' /\ Len(wallets') \notin WalletIds
               /\ new.owner = job.owner /\ new.address = job.address
               /\ new.network = job.network /\ new.chainId = job.chainId
               /\ new.nonce = job.nonce /\ new.signature = job.signature
               /\ new.deleted = FALSE /\ new.unlinked = FALSE
               /\ nonces' \in Seq(NonceRow) /\ Len(nonces') = Len(nonces)
               /\ NonceIds' = NonceIds
               /\ \A i \in NonceIds :
                    /\ nonces'[i].owner = nonces[i].owner
                    /\ nonces'[i].address = nonces[i].address
                    /\ nonces'[i].network = nonces[i].network
                    /\ nonces'[i].issued = nonces[i].issued
                    /\ nonces'[i].expires = nonces[i].expires
                    /\ i = job.nonce => nonces'[i].used = TRUE /\ nonces'[i].unlinked = TRUE
                    /\ i # job.nonce => nonces'[i] = nonces[i]
               /\ work' = [work EXCEPT ![w] = None]
               /\ now' = now
<1> DEFINE job == work[w]
           new == NewWallet(job)
           id == job.nonce
           marked == [nonces[id] EXCEPT !.used = TRUE, !.unlinked = TRUE]
<1>1. job \in WalletJob
  BY JobKinds DEF CommitWallet
<1>2. /\ new \in WalletRow
      /\ new.owner = job.owner /\ new.address = job.address
      /\ new.network = job.network /\ new.chainId = job.chainId
      /\ new.nonce = job.nonce /\ new.signature = job.signature
      /\ new.deleted = FALSE /\ new.unlinked = FALSE
  BY <1>1 DEF WalletJob, WalletRow, NewWallet
<1>3. wallets' = Append(wallets, new) /\ wallets \in Seq(WalletRow)
  BY DEF CommitWallet, TypeOK
<1>4. nonces \in Seq(NonceRow) /\ id \in NonceIds /\ NonceIds = 1..Len(nonces)
  BY <1>1 DEF TypeOK, NonceIds
<1>5. nonces[id] \in NonceRow
  BY <1>4
<1>6. /\ marked \in NonceRow /\ marked.used = TRUE /\ marked.unlinked = TRUE
      /\ marked.owner = nonces[id].owner /\ marked.address = nonces[id].address
      /\ marked.network = nonces[id].network /\ marked.issued = nonces[id].issued
      /\ marked.expires = nonces[id].expires
  BY <1>5 DEF NonceRow
<1>7. nonces' = [nonces EXCEPT ![id] = marked]
  BY <1>4, <1>5 DEF CommitWallet, NonceRow
<1>8. work' = [work EXCEPT ![w] = None] /\ now' = now
  BY DEF CommitWallet
<1> HIDE DEF new, marked, id
<1>9. /\ wallets' \in Seq(WalletRow) /\ Len(wallets') = Len(wallets) + 1
      /\ \A i \in 1..Len(wallets) : wallets'[i] = wallets[i]
      /\ wallets'[Len(wallets')] = new
  BY <1>2, <1>3, AppendProperties
<1>10. WalletIds = 1..Len(wallets) /\ WalletIds' = 1..Len(wallets') /\ Len(wallets) \in Nat
  BY <1>3, <1>9 DEF WalletIds
<1>11. /\ nonces' \in Seq(NonceRow) /\ Len(nonces') = Len(nonces)
       /\ \A i \in NonceIds : nonces'[i] = IF i = id THEN marked ELSE nonces[i]
  BY <1>4, <1>6, <1>7, ExceptSeq
<1>12. NonceIds' = NonceIds
  BY <1>4, <1>11 DEF NonceIds
<1> QED BY <1>1, <1>2, <1>4, <1>6, <1>8, <1>9, <1>10, <1>11, <1>12 DEF id

\* A wallet that is deleted, be it through the endpoint of the other kind, keeps
\* everything else, and so do the others.
LEMMA DeleteEffect ==
    ASSUME TypeOK, NEW kind, NEW id \in WalletIds, DeleteWallet(kind, id)
    PROVE  /\ wallets' \in Seq(WalletRow) /\ Len(wallets') = Len(wallets)
           /\ WalletIds' = WalletIds
           /\ \A i \in WalletIds :
                /\ wallets'[i].owner = wallets[i].owner
                /\ wallets'[i].address = wallets[i].address
                /\ wallets'[i].network = wallets[i].network
                /\ wallets'[i].chainId = wallets[i].chainId
                /\ wallets'[i].token = wallets[i].token
                /\ wallets'[i].nonce = wallets[i].nonce
                /\ wallets'[i].signature = wallets[i].signature
                /\ i = id => wallets'[i].deleted = TRUE
                /\ i # id => wallets'[i] = wallets[i]
           /\ UNCHANGED <<nonces, work, now>>
<1> DEFINE row == [wallets[id] EXCEPT !.deleted = TRUE,
                                      !.unlinked = @ \/ wallets[id].owner \in kind]
<1>1. wallets \in Seq(WalletRow) /\ WalletIds = 1..Len(wallets)
  BY DEF TypeOK, WalletIds
<1>2. wallets[id] \in WalletRow
  BY <1>1
<1>3. /\ row \in WalletRow /\ row.deleted = TRUE
      /\ row.owner = wallets[id].owner /\ row.address = wallets[id].address
      /\ row.network = wallets[id].network /\ row.chainId = wallets[id].chainId
      /\ row.token = wallets[id].token
      /\ row.nonce = wallets[id].nonce /\ row.signature = wallets[id].signature
  BY <1>2 DEF WalletRow
<1>4. wallets' = [wallets EXCEPT ![id] = row] /\ UNCHANGED <<nonces, work, now>>
  BY <1>1, <1>2 DEF DeleteWallet, WalletRow
<1> HIDE DEF row
<1>5. /\ wallets' \in Seq(WalletRow) /\ Len(wallets') = Len(wallets)
      /\ \A i \in WalletIds : wallets'[i] = IF i = id THEN row ELSE wallets[i]
  BY <1>1, <1>3, <1>4, ExceptSeq
<1>6. WalletIds' = WalletIds
  BY <1>1, <1>5 DEF WalletIds
<1> QED BY <1>3, <1>4, <1>5, <1>6

-----------------------------------------------------------------------------
(* The invariant is kept. *)

LEMMA InitRegistration == Init => RegistrationInv
<1> SUFFICES ASSUME Init PROVE RegistrationInv
  OBVIOUS
<1>1. NonceIds = {} /\ WalletIds = {} /\ \A w \in Workers : work[w] = None
  BY DEF Init, NonceIds, WalletIds
<1>2. TypeOK
  BY <1>1, BoundAssumption, NoneAssumption DEF Init, TypeOK
<1>3. Working("nonce") = {} /\ Working("wallet") = {}
  BY <1>1 DEF Working
<1>4. RoomForJobs
  <2>1. Cardinality(Working("nonce")) = 0 /\ Cardinality(Working("wallet")) = 0
    BY <1>3, FS_EmptySet
  <2>2. Len(nonces) = 0 /\ Len(wallets) = 0 /\ MaxNonces >= 0 /\ MaxWallets >= 0
    BY BoundAssumption DEF Init
  <2> QED BY <2>1, <2>2 DEF RoomForJobs
<1> QED
  BY <1>1, <1>2, <1>4, NoneAssumption DEF RegistrationInv, WalletsAreProven, JobsAreProven,
     NonceUsedIffWallet, NoncesLiveTtl

\* Rows and jobs keep their types, and a commit puts a row where its transaction
\* had counted.
LEMMA NextTypes ==
    ASSUME TypeOK, RoomForJobs, [Next]_vars PROVE TypeOK' /\ RoomForJobs'
<1>0. /\ nonces \in Seq(NonceRow) /\ wallets \in Seq(WalletRow)
      /\ Len(nonces) \in Nat /\ Len(wallets) \in Nat /\ Len(nonces) <= MaxNonces
      /\ Len(wallets) <= MaxWallets /\ now \in 0..MaxTime
      /\ work \in [Workers -> NonceJob \union WalletJob \union {None}]
      /\ MaxNonces \in Nat /\ MaxWallets \in Nat
      /\ \A w \in Workers : work[w] \in WalletJob => work[w].nonce \in NonceIds
  BY BoundAssumption DEF TypeOK
<1>1. ASSUME NEW w \in Workers, NEW job, StartsNonce(w, job) PROVE TypeOK' /\ RoomForJobs'
  <2>1. /\ job \in NonceJob /\ job # None /\ job.kind = "nonce" /\ job \notin WalletJob
        /\ work[w] = None /\ work' = [work EXCEPT ![w] = job]
        /\ Len(nonces) + Cardinality(Working("nonce")) < MaxNonces
        /\ UNCHANGED <<nonces, wallets, now>>
    BY <1>1, NoneAssumption DEF StartsNonce, NonceJob, WalletJob
  <2>2. TypeOK'
    BY <1>0, <2>1 DEF TypeOK, NonceIds
  <2>3. /\ Cardinality(Working("nonce")) \in Nat
        /\ Cardinality(Working("nonce")') = Cardinality(Working("nonce")) + 1
        /\ Cardinality(Working("wallet")') = Cardinality(Working("wallet"))
    BY <2>1, WorkingEffect
  <2> QED BY <1>0, <2>1, <2>2, <2>3 DEF RoomForJobs
<1>2. ASSUME NEW w \in Workers, NEW job, StartsWallet(w, job) PROVE TypeOK' /\ RoomForJobs'
  <2>1. /\ job \in WalletJob /\ job # None /\ job.kind = "wallet" /\ job.nonce \in NonceIds
        /\ work[w] = None /\ work' = [work EXCEPT ![w] = job]
        /\ Len(wallets) + Cardinality(Working("wallet")) < MaxWallets
        /\ UNCHANGED <<nonces, wallets, now>>
    BY <1>2, NoneAssumption DEF StartsWallet, WalletJob, Proven
  <2>2. TypeOK'
    BY <1>0, <2>1 DEF TypeOK, NonceIds
  <2>3. /\ Cardinality(Working("wallet")) \in Nat
        /\ Cardinality(Working("wallet")') = Cardinality(Working("wallet")) + 1
        /\ Cardinality(Working("nonce")') = Cardinality(Working("nonce"))
    BY <2>1, WorkingEffect
  <2> QED BY <1>0, <2>1, <2>2, <2>3 DEF RoomForJobs
<1>3. ASSUME NEW w \in Workers, CommitNonce(w) PROVE TypeOK' /\ RoomForJobs'
  <2>1. /\ work[w] # None /\ work[w].kind = "nonce" /\ work' = [work EXCEPT ![w] = None]
        /\ nonces' \in Seq(NonceRow) /\ Len(nonces') = Len(nonces) + 1
        /\ \A i \in NonceIds : i \in NonceIds'
        /\ UNCHANGED <<wallets, now>>
    BY <1>3, CommitNonceEffect DEF CommitNonce
  <2>2. /\ Cardinality(Working("nonce")) \in Nat /\ Cardinality(Working("wallet")) \in Nat
        /\ Cardinality(Working("nonce")') = Cardinality(Working("nonce")) - 1
        /\ Cardinality(Working("wallet")') = Cardinality(Working("wallet"))
    BY <2>1, WorkingEffect
  <2>3. Cardinality(Working("nonce")') \in Nat
    BY <2>1, WorkingNextType
  <2>4. RoomForJobs' /\ Len(nonces') <= MaxNonces
    BY <1>0, <2>1, <2>2, <2>3 DEF RoomForJobs
  <2>5. TypeOK'
    BY <1>0, <2>1, <2>4, NoneAssumption DEF TypeOK
  <2> QED BY <2>4, <2>5
<1>4. ASSUME NEW w \in Workers, CommitWallet(w) PROVE TypeOK' /\ RoomForJobs'
  <2>1. /\ work[w] # None /\ work[w].kind = "wallet" /\ work' = [work EXCEPT ![w] = None]
        /\ wallets' \in Seq(WalletRow) /\ Len(wallets') = Len(wallets) + 1
        /\ nonces' \in Seq(NonceRow) /\ Len(nonces') = Len(nonces)
        /\ NonceIds' = NonceIds /\ now' = now
    BY <1>4, CommitWalletEffect DEF CommitWallet
  <2>2. /\ Cardinality(Working("nonce")) \in Nat /\ Cardinality(Working("wallet")) \in Nat
        /\ Cardinality(Working("wallet")') = Cardinality(Working("wallet")) - 1
        /\ Cardinality(Working("nonce")') = Cardinality(Working("nonce"))
    BY <2>1, WorkingEffect
  <2>3. Cardinality(Working("wallet")') \in Nat
    BY <2>1, WorkingNextType
  <2>4. RoomForJobs' /\ Len(wallets') <= MaxWallets
    BY <1>0, <2>1, <2>2, <2>3 DEF RoomForJobs
  <2>5. TypeOK'
    BY <1>0, <2>1, <2>4, NoneAssumption DEF TypeOK
  <2> QED BY <2>4, <2>5
<1>5. ASSUME NEW w \in Workers, Rollback(w) PROVE TypeOK' /\ RoomForJobs'
  <2>1. /\ work[w] # None /\ work' = [work EXCEPT ![w] = None]
        /\ UNCHANGED <<nonces, wallets, now>>
    BY <1>5 DEF Rollback
  <2>2. TypeOK'
    BY <1>0, <2>1, NoneAssumption DEF TypeOK, NonceIds
  <2>3. \A kind : /\ Cardinality(Working(kind)) \in Nat /\ Cardinality(Working(kind)') \in Nat
                  /\ Cardinality(Working(kind)') <= Cardinality(Working(kind))
    <3> TAKE kind
    <3>1. Cardinality(Working(kind)) \in Nat /\ Cardinality(Working(kind)') \in Nat
      BY <2>1, WorkingEffect, WorkingNextType
    <3>2. \/ Cardinality(Working(kind)') = Cardinality(Working(kind)) - 1
          \/ Cardinality(Working(kind)') = Cardinality(Working(kind))
      BY <2>1, WorkingEffect
    <3> QED BY <3>1, <3>2
  <2> QED BY <1>0, <2>1, <2>2, <2>3 DEF RoomForJobs
<1>6. ASSUME NEW kind, NEW id \in WalletIds, DeleteWallet(kind, id)
      PROVE  TypeOK' /\ RoomForJobs'
  BY <1>0, <1>6, DeleteEffect DEF TypeOK, RoomForJobs, Working, NonceIds
<1>7. CASE UNCHANGED <<nonces, wallets, work>> /\ now' \in 0..MaxTime
  BY <1>7 DEF TypeOK, RoomForJobs, Working, NonceIds
<1> QED BY <1>1, <1>2, <1>3, <1>4, <1>5, <1>6, <1>7, NextEffect

\* What a wallet or a job was proven with stays: the nonce's row keeps all that is
\* compared.
LEMMA ProvenStays ==
    ASSUME TypeOK, [Next]_vars, NEW x, Proven(x)
    PROVE  /\ x.nonce \in NonceIds'
           /\ nonces'[x.nonce].owner = x.owner
           /\ nonces'[x.nonce].address = x.address
           /\ nonces'[x.nonce].network = x.network
           /\ x.signature = [signer |-> x.address, nonce |-> x.nonce]
<1>1. /\ NonceIds \subseteq NonceIds'
      /\ \A n \in NonceIds : /\ nonces'[n].owner = nonces[n].owner
                             /\ nonces'[n].address = nonces[n].address
                             /\ nonces'[n].network = nonces[n].network
  <2>1. ASSUME NEW w \in Workers, CommitNonce(w)
        PROVE  NonceIds \subseteq NonceIds' /\ \A n \in NonceIds : nonces'[n] = nonces[n]
    BY <2>1, CommitNonceEffect
  <2>2. ASSUME NEW w \in Workers, CommitWallet(w)
        PROVE  /\ NonceIds \subseteq NonceIds'
               /\ \A n \in NonceIds : /\ nonces'[n].owner = nonces[n].owner
                                      /\ nonces'[n].address = nonces[n].address
                                      /\ nonces'[n].network = nonces[n].network
    BY <2>2, CommitWalletEffect
  <2>3. ASSUME UNCHANGED nonces
        PROVE  NonceIds \subseteq NonceIds' /\ \A n \in NonceIds : nonces'[n] = nonces[n]
    BY <2>3 DEF NonceIds
  <2> QED BY <2>1, <2>2, <2>3, NextEffect DEF StartsNonce, StartsWallet, Rollback, DeleteWallet
<1> QED BY <1>1 DEF Proven

\* The wallets a step leaves or makes: old ones keep all but their marks, and a new
\* one says what the transaction's job says.
LEMMA WalletsEffect ==
    ASSUME TypeOK, [Next]_vars, NEW i \in WalletIds'
    PROVE  \/ /\ i \in WalletIds
              /\ wallets'[i].owner = wallets[i].owner
              /\ wallets'[i].address = wallets[i].address
              /\ wallets'[i].network = wallets[i].network
              /\ wallets'[i].chainId = wallets[i].chainId
              /\ wallets'[i].token = wallets[i].token
              /\ wallets'[i].nonce = wallets[i].nonce
              /\ wallets'[i].signature = wallets[i].signature
              /\ wallets[i].deleted => wallets'[i].deleted
              /\ \/ wallets'[i] = wallets[i]
                 \/ wallets'[i].deleted
           \/ /\ i \notin WalletIds
              /\ \E w \in Workers :
                    /\ CommitWallet(w) /\ work[w] \in WalletJob
                    /\ wallets'[i].owner = work[w].owner
                    /\ wallets'[i].address = work[w].address
                    /\ wallets'[i].network = work[w].network
                    /\ wallets'[i].chainId = work[w].chainId
                    /\ wallets'[i].nonce = work[w].nonce
                    /\ wallets'[i].signature = work[w].signature
                    /\ wallets'[i].deleted = FALSE /\ wallets'[i].unlinked = FALSE
<1>1. ASSUME NEW w \in Workers, CommitWallet(w)
      PROVE  \/ i \in WalletIds /\ wallets'[i] = wallets[i]
             \/ /\ i \notin WalletIds /\ work[w] \in WalletJob
                /\ wallets'[i].owner = work[w].owner
                /\ wallets'[i].address = work[w].address
                /\ wallets'[i].network = work[w].network
                /\ wallets'[i].chainId = work[w].chainId
                /\ wallets'[i].nonce = work[w].nonce
                /\ wallets'[i].signature = work[w].signature
                /\ wallets'[i].deleted = FALSE /\ wallets'[i].unlinked = FALSE
  <2>1. CASE i \in WalletIds
    BY <1>1, <2>1, CommitWalletEffect
  <2>2. CASE i \notin WalletIds
    <3>1. i = Len(wallets')
      BY <1>1, <2>2, CommitWalletEffect
    <3> HIDE <3>1
    <3> DEFINE last == Len(wallets')
    <3>2. /\ work[w] \in WalletJob
          /\ wallets'[last].owner = work[w].owner
          /\ wallets'[last].address = work[w].address
          /\ wallets'[last].network = work[w].network
          /\ wallets'[last].chainId = work[w].chainId
          /\ wallets'[last].nonce = work[w].nonce
          /\ wallets'[last].signature = work[w].signature
          /\ wallets'[last].deleted = FALSE /\ wallets'[last].unlinked = FALSE
      BY <1>1, CommitWalletEffect
    <3> HIDE DEF last
    <3>3. i = last
      BY <3>1 DEF last
    <3> QED BY <2>2, <3>2, <3>3
  <2> QED BY <2>1, <2>2
<1>2. ASSUME NEW kind, NEW id \in WalletIds, DeleteWallet(kind, id)
      PROVE  /\ i \in WalletIds
             /\ wallets'[i].owner = wallets[i].owner
             /\ wallets'[i].address = wallets[i].address
             /\ wallets'[i].network = wallets[i].network
             /\ wallets'[i].chainId = wallets[i].chainId
             /\ wallets'[i].token = wallets[i].token
             /\ wallets'[i].nonce = wallets[i].nonce
             /\ wallets'[i].signature = wallets[i].signature
             /\ wallets[i].deleted => wallets'[i].deleted
             /\ wallets'[i] = wallets[i] \/ wallets'[i].deleted
  BY <1>2, DeleteEffect
<1>3. ASSUME UNCHANGED wallets PROVE i \in WalletIds /\ wallets'[i] = wallets[i]
  BY <1>3 DEF WalletIds
<1>4. ASSUME NEW w \in Workers, CommitNonce(w) \/ Rollback(w) PROVE UNCHANGED wallets
  BY <1>4 DEF CommitNonce, Rollback
<1> QED BY <1>1, <1>2, <1>3, <1>4, NextEffect DEF StartsNonce, StartsWallet

\* The job a worker has after a step is the one it had, or was proven when it began.
LEMMA JobsEffect ==
    ASSUME TypeOK, [Next]_vars, NEW w \in Workers, work'[w] # None
    PROVE  \/ work'[w] = work[w]
           \/ StartsNonce(w, work'[w])
           \/ StartsWallet(w, work'[w])
<1>0. work \in [Workers -> NonceJob \union WalletJob \union {None}]
  BY DEF TypeOK
<1>1. ASSUME NEW x \in Workers, NEW job, StartsNonce(x, job) \/ StartsWallet(x, job)
      PROVE  work'[w] = work[w] \/ (w = x /\ work'[w] = job)
  BY <1>0, <1>1 DEF StartsNonce, StartsWallet
<1>2. ASSUME NEW x \in Workers, CommitNonce(x) \/ CommitWallet(x) \/ Rollback(x)
      PROVE  work'[w] = work[w]
  BY <1>0, <1>2 DEF CommitNonce, CommitWallet, Rollback
<1>3. ASSUME NEW kind, NEW id \in WalletIds, DeleteWallet(kind, id) PROVE work' = work
  BY <1>3 DEF DeleteWallet
<1> QED BY <1>1, <1>2, <1>3, NextEffect

LEMMA NextRegistration == RegistrationInv /\ [Next]_vars => RegistrationInv'
<1> SUFFICES ASSUME RegistrationInv, [Next]_vars PROVE RegistrationInv'
  OBVIOUS
<1>0. TypeOK /\ RoomForJobs
  BY DEF RegistrationInv
<1>1. TypeOK' /\ RoomForJobs'
  BY <1>0, NextTypes
<1>2. WalletsAreProven'
  <2> SUFFICES ASSUME NEW i \in WalletIds' PROVE Proven(wallets[i])'
    BY DEF WalletsAreProven
  <2>1. CASE i \in WalletIds
    <3>1. Proven(wallets[i])
      BY <2>1 DEF RegistrationInv, WalletsAreProven
    <3> DEFINE old == wallets[i]
    <3> HIDE DEF old
    <3>2. Proven(old)
      BY <3>1 DEF old
    <3>3. /\ old.nonce \in NonceIds'
          /\ nonces'[old.nonce].owner = old.owner
          /\ nonces'[old.nonce].address = old.address
          /\ nonces'[old.nonce].network = old.network
          /\ old.signature = [signer |-> old.address, nonce |-> old.nonce]
      BY <1>0, <3>2, ProvenStays
    <3> QED BY <1>0, <2>1, <3>3, WalletsEffect DEF Proven, old
  <2>2. CASE i \notin WalletIds
    <3>1. PICK w \in Workers :
              /\ work[w] \in WalletJob
              /\ wallets'[i].owner = work[w].owner
              /\ wallets'[i].address = work[w].address
              /\ wallets'[i].network = work[w].network
              /\ wallets'[i].nonce = work[w].nonce
              /\ wallets'[i].signature = work[w].signature
      BY <1>0, <2>2, WalletsEffect
    <3> DEFINE job == work[w]
    <3>2. Proven(job)
      BY <3>1 DEF RegistrationInv, JobsAreProven
    <3> HIDE DEF job
    <3>3. /\ job.nonce \in NonceIds'
          /\ nonces'[job.nonce].owner = job.owner
          /\ nonces'[job.nonce].address = job.address
          /\ nonces'[job.nonce].network = job.network
          /\ job.signature = [signer |-> job.address, nonce |-> job.nonce]
      BY <1>0, <3>2, ProvenStays
    <3> QED BY <3>1, <3>3 DEF Proven, job
  <2> QED BY <2>1, <2>2
<1>3. JobsAreProven'
  <2> SUFFICES ASSUME NEW w \in Workers, work'[w] \in WalletJob PROVE Proven(work[w])'
    BY DEF JobsAreProven
  <2> DEFINE job == work'[w]
  <2>1. job \in WalletJob /\ job # None /\ job \notin NonceJob
    BY NoneAssumption DEF WalletJob, NonceJob
  <2>2. Proven(job)
    BY <1>0, <2>1, JobsEffect DEF RegistrationInv, JobsAreProven, StartsNonce, StartsWallet
  <2> HIDE DEF job
  <2>3. /\ job.nonce \in NonceIds'
        /\ nonces'[job.nonce].owner = job.owner
        /\ nonces'[job.nonce].address = job.address
        /\ nonces'[job.nonce].network = job.network
        /\ job.signature = [signer |-> job.address, nonce |-> job.nonce]
    BY <1>0, <2>2, ProvenStays
  <2> QED BY <2>3 DEF Proven, job
<1>4. NonceUsedIffWallet'
  <2> SUFFICES ASSUME NEW n \in NonceIds'
               PROVE  /\ nonces'[n].used = (\E i \in WalletIds' : wallets'[i].nonce = n)
                      /\ nonces'[n].unlinked = (\E i \in WalletIds' : wallets'[i].nonce = n)
    BY DEF NonceUsedIffWallet
  <2>0. ASSUME NEW old \in NonceIds
        PROVE  /\ nonces[old].used = (\E i \in WalletIds : wallets[i].nonce = old)
               /\ nonces[old].unlinked = (\E i \in WalletIds : wallets[i].nonce = old)
    BY <2>0 DEF RegistrationInv, NonceUsedIffWallet
  <2>1. ASSUME NEW w \in Workers, CommitNonce(w)
        PROVE  /\ nonces'[n].used = (\E i \in WalletIds' : wallets'[i].nonce = n)
               /\ nonces'[n].unlinked = (\E i \in WalletIds' : wallets'[i].nonce = n)
    <3>1. wallets' = wallets /\ WalletIds' = WalletIds
      BY <2>1 DEF CommitNonce, WalletIds
    <3>2. CASE n \in NonceIds
      BY <1>0, <2>0, <2>1, <3>1, <3>2, CommitNonceEffect
    <3>3. CASE n \notin NonceIds
      <4>1. nonces'[n].used = FALSE /\ nonces'[n].unlinked = FALSE
        BY <1>0, <2>1, <3>3, CommitNonceEffect
      <4>2. ~\E i \in WalletIds : wallets[i].nonce = n
        BY <3>3 DEF RegistrationInv, WalletsAreProven, Proven
      <4> QED BY <3>1, <4>1, <4>2
    <3> QED BY <3>2, <3>3
  <2>2. ASSUME NEW w \in Workers, CommitWallet(w)
        PROVE  /\ nonces'[n].used = (\E i \in WalletIds' : wallets'[i].nonce = n)
               /\ nonces'[n].unlinked = (\E i \in WalletIds' : wallets'[i].nonce = n)
    <3>1. /\ n \in NonceIds
          /\ n = work[w].nonce => nonces'[n].used = TRUE /\ nonces'[n].unlinked = TRUE
          /\ n # work[w].nonce => nonces'[n] = nonces[n]
      BY <1>0, <2>2, CommitWalletEffect
    <3>2. (\E i \in WalletIds' : wallets'[i].nonce = n) <=>
              (n = work[w].nonce \/ \E i \in WalletIds : wallets[i].nonce = n)
      <4> DEFINE last == Len(wallets')
      <4>1. /\ \A i \in WalletIds : i \in WalletIds' /\ wallets'[i] = wallets[i]
            /\ \A i \in WalletIds' : i \in WalletIds \/ i = last
            /\ last \in WalletIds' /\ wallets'[last].nonce = work[w].nonce
        BY <1>0, <2>2, CommitWalletEffect
      <4> HIDE DEF last
      <4> QED BY <4>1
    <3> QED BY <2>0, <3>1, <3>2
  <2>3. ASSUME UNCHANGED nonces, WalletIds' = WalletIds,
               \A i \in WalletIds : wallets'[i].nonce = wallets[i].nonce
        PROVE  /\ nonces'[n].used = (\E i \in WalletIds' : wallets'[i].nonce = n)
               /\ nonces'[n].unlinked = (\E i \in WalletIds' : wallets'[i].nonce = n)
    <3>1. n \in NonceIds /\ nonces'[n] = nonces[n]
      BY <2>3 DEF NonceIds
    <3>2. (\E i \in WalletIds' : wallets'[i].nonce = n) <=> (\E i \in WalletIds : wallets[i].nonce = n)
      BY <2>3
    <3> QED BY <2>0, <3>1, <3>2
  <2>4. ASSUME NEW kind, NEW id \in WalletIds, DeleteWallet(kind, id)
        PROVE  /\ UNCHANGED nonces /\ WalletIds' = WalletIds
               /\ \A i \in WalletIds : wallets'[i].nonce = wallets[i].nonce
    BY <1>0, <2>4, DeleteEffect
  <2>5. ASSUME UNCHANGED <<nonces, wallets>>
        PROVE  /\ UNCHANGED nonces /\ WalletIds' = WalletIds
               /\ \A i \in WalletIds : wallets'[i].nonce = wallets[i].nonce
    BY <2>5 DEF WalletIds
  <2> QED
    BY <1>0, <2>1, <2>2, <2>3, <2>4, <2>5, NextEffect DEF StartsNonce, StartsWallet, Rollback
<1>5. NoncesLiveTtl'
  <2>1. ASSUME NEW n \in NonceIds' PROVE LivesTtl(nonces'[n])
    <3>1. ASSUME NEW w \in Workers, CommitNonce(w) PROVE LivesTtl(nonces'[n])
      BY <1>0, <3>1, CommitNonceEffect DEF RegistrationInv, NoncesLiveTtl, LivesTtl
    <3>2. ASSUME NEW w \in Workers, CommitWallet(w) PROVE LivesTtl(nonces'[n])
      <4>1. /\ n \in NonceIds
            /\ nonces'[n].issued = nonces[n].issued /\ nonces'[n].expires = nonces[n].expires
        BY <1>0, <3>2, CommitWalletEffect
      <4> QED BY <4>1 DEF RegistrationInv, NoncesLiveTtl, LivesTtl
    <3>3. ASSUME UNCHANGED nonces PROVE LivesTtl(nonces'[n])
      BY <3>3 DEF RegistrationInv, NoncesLiveTtl, LivesTtl, NonceIds
    <3> QED
      BY <1>0, <3>1, <3>2, <3>3, NextEffect DEF StartsNonce, StartsWallet, Rollback, DeleteWallet
  <2>2. ASSUME NEW w \in Workers, work'[w] \in NonceJob PROVE LivesTtl(work'[w])
    <3>1. work'[w] # None /\ work'[w] \notin WalletJob
      BY <2>2, NoneAssumption DEF NonceJob, WalletJob
    <3> QED
      BY <1>0, <2>2, <3>1, JobsEffect DEF RegistrationInv, NoncesLiveTtl, StartsNonce, StartsWallet
  <2> QED BY <2>1, <2>2 DEF NoncesLiveTtl, LivesTtl
<1> QED BY <1>1, <1>2, <1>3, <1>4, <1>5 DEF RegistrationInv

-----------------------------------------------------------------------------
(* One request each. *)

\* The worker that commits a wallet is the only one that acts for its owner, so what
\* the others have read is of other owners.
LEMMA OwnersDiffer ==
    ASSUME OneRequestEach, ReadsStillHold, NEW w \in Workers, NEW x \in Workers, w # x,
           work[w] # None, work[x] # None
    PROVE  work[w].owner # work[x].owner
  BY DEF OneRequestEach, ReadsStillHold

\* A wallet made by a step is the only one that is.
LEMMA OneNewWallet ==
    ASSUME TypeOK, [Next]_vars, NEW i \in WalletIds', NEW j \in WalletIds',
           i \notin WalletIds, j \notin WalletIds
    PROVE  i = j
<1>1. PICK w \in Workers : CommitWallet(w)
  BY WalletsEffect
<1> DEFINE last == Len(wallets')
<1>2. \A k \in WalletIds' : k \in WalletIds \/ k = last
  BY <1>1, CommitWalletEffect
<1> HIDE DEF last
<1> QED BY <1>2

LEMMA InitOneEach == Init => OneEachInv
<1> SUFFICES ASSUME Init PROVE OneEachInv
  OBVIOUS
<1>1. WalletIds = {} /\ \A w \in Workers : work[w] = None
  BY DEF Init, WalletIds
<1> QED
  BY <1>1, InitRegistration, NoneAssumption DEF OneEachInv, LinksGoWithWallets, ReadsStillHold,
     NonceIsOneTime, OneWalletPerChain

LEMMA NextReads ==
    ASSUME OneRequestEach, OneEachInv, [Next]_vars PROVE ReadsStillHold'
<1>0. TypeOK /\ RegistrationInv
  BY DEF OneEachInv, RegistrationInv
<1>1. ASSUME NEW w \in Workers, work'[w] # None PROVE work'[w].owner \in Clients[w]
  BY <1>0, <1>1, JobsEffect DEF OneEachInv, ReadsStillHold, StartsNonce, StartsWallet
<1> DEFINE Holds(job) == /\ ~nonces[job.nonce].used
                         /\ \A i \in WalletIds :
                                ~(/\ Active(wallets[i]) /\ wallets[i].owner = job.owner
                                  /\ wallets[i].network = job.network
                                  /\ wallets[i].chainId = job.chainId)
           HoldsNext(job) == /\ ~nonces'[job.nonce].used
                             /\ \A i \in WalletIds' :
                                    ~(/\ ~wallets'[i].deleted /\ wallets'[i].owner = job.owner
                                      /\ wallets'[i].network = job.network
                                      /\ wallets'[i].chainId = job.chainId)
<1>2. ASSUME NEW w \in Workers, work'[w] \in WalletJob PROVE HoldsNext(work'[w])
  <2> DEFINE job == work'[w]
  <2>0. job \in WalletJob /\ job # None /\ job \notin NonceJob
    BY <1>2, NoneAssumption DEF WalletJob, NonceJob
  <2>1. CASE StartsWallet(w, job)
    <3>1. /\ ~nonces[job.nonce].used /\ UNCHANGED <<nonces, wallets>>
          /\ ExistingWallets(job.owner, job.network, job.chainId) = {}
      BY <2>1 DEF StartsWallet
    <3>2. \A i \in WalletIds : Active(wallets[i]) => ~wallets[i].unlinked
      BY DEF OneEachInv, LinksGoWithWallets, Active
    <3> QED BY <3>1, <3>2 DEF ExistingWallets, WalletIds, Active
  <2>2. CASE work'[w] = work[w]
    <3>1. /\ Holds(job) /\ Proven(job) /\ work[w] = job
      BY <1>0, <2>0, <2>2 DEF OneEachInv, ReadsStillHold, RegistrationInv, JobsAreProven
    <3> HIDE DEF job
    <3>2. ASSUME NEW x \in Workers, CommitWallet(x)
          PROVE  work[x].owner # job.owner /\ work[x].nonce # job.nonce
      <4>1. work[x] # None /\ work[x] \in WalletJob /\ x # w
        BY <1>0, <2>0, <2>2, <3>1, <3>2, CommitWalletEffect DEF CommitWallet, TypeOK
      <4>2. work[x].owner # job.owner
        BY <2>0, <3>1, <4>1, OwnersDiffer DEF OneEachInv
      <4>3. Proven(work[x])
        BY <1>0, <4>1 DEF RegistrationInv, JobsAreProven
      <4> QED BY <3>1, <4>2, <4>3 DEF Proven
    <3>3. ~nonces'[job.nonce].used
      <4>1. ASSUME NEW x \in Workers, CommitWallet(x) PROVE ~nonces'[job.nonce].used
        <5>1. \A n \in NonceIds : n # work[x].nonce => nonces'[n] = nonces[n]
          BY <1>0, <4>1, CommitWalletEffect
        <5> QED BY <3>1, <3>2, <4>1, <5>1 DEF Proven
      <4>2. ASSUME NEW x \in Workers, CommitNonce(x) PROVE ~nonces'[job.nonce].used
        BY <1>0, <3>1, <4>2, CommitNonceEffect DEF Proven
      <4> QED BY <1>0, <3>1, <4>1, <4>2, NextEffect
              DEF StartsNonce, StartsWallet, Rollback, DeleteWallet
    <3>4. ASSUME NEW i \in WalletIds'
          PROVE  ~(/\ ~wallets'[i].deleted /\ wallets'[i].owner = job.owner
                   /\ wallets'[i].network = job.network
                   /\ wallets'[i].chainId = job.chainId)
      <4>1. CASE i \in WalletIds
        BY <1>0, <3>1, <4>1, WalletsEffect DEF Active
      <4>2. CASE i \notin WalletIds
        BY <1>0, <3>2, <4>2, WalletsEffect
      <4> QED BY <4>1, <4>2
    <3> QED BY <3>3, <3>4 DEF job
  <2>3. StartsWallet(w, job) \/ work'[w] = work[w]
    BY <1>0, <2>0, JobsEffect DEF StartsNonce
  <2> QED BY <2>1, <2>2, <2>3
<1> QED BY <1>1, <1>2 DEF ReadsStillHold, Active

LEMMA NextOneEach ==
    ASSUME OneRequestEach PROVE OneEachInv /\ [Next]_vars => OneEachInv'
<1> SUFFICES ASSUME OneEachInv, [Next]_vars PROVE OneEachInv'
  OBVIOUS
<1>0. TypeOK /\ RegistrationInv
  BY DEF OneEachInv, RegistrationInv
<1>1. RegistrationInv'
  BY <1>0, NextRegistration
<1>2. LinksGoWithWallets'
  BY <1>0, WalletsEffect DEF OneEachInv, LinksGoWithWallets
<1>3. ReadsStillHold'
  BY NextReads
<1>4. NonceIsOneTime'
  <2>1. ASSUME NEW i \in WalletIds', NEW j \in WalletIds', i \in WalletIds, j \notin WalletIds
        PROVE  wallets'[i].nonce # wallets'[j].nonce
    <3>1. PICK w \in Workers : work[w] \in WalletJob /\ wallets'[j].nonce = work[w].nonce
      BY <1>0, <2>1, WalletsEffect
    <3>2. ~nonces[work[w].nonce].used /\ work[w].nonce \in NonceIds
      BY <1>0, <3>1 DEF OneEachInv, ReadsStillHold, RegistrationInv, JobsAreProven, Proven
    <3>3. ~\E k \in WalletIds : wallets[k].nonce = work[w].nonce
      BY <1>0, <3>2 DEF RegistrationInv, NonceUsedIffWallet
    <3> QED BY <1>0, <2>1, <3>1, <3>3, WalletsEffect
  <2>2. ASSUME NEW i \in WalletIds', NEW j \in WalletIds', i \in WalletIds, j \in WalletIds,
               wallets'[i].nonce = wallets'[j].nonce
        PROVE  i = j
    <3>1. wallets'[i].nonce = wallets[i].nonce /\ wallets'[j].nonce = wallets[j].nonce
      BY <1>0, <2>2, WalletsEffect
    <3> QED BY <2>2, <3>1 DEF OneEachInv, NonceIsOneTime
  <2> QED BY <1>0, <2>1, <2>2, OneNewWallet DEF NonceIsOneTime
<1>5. OneWalletPerChain'
  <2> SUFFICES ASSUME NEW i \in WalletIds', NEW j \in WalletIds',
                      ~wallets'[i].deleted, ~wallets'[j].deleted,
                      wallets'[i].owner = wallets'[j].owner,
                      wallets'[i].network = wallets'[j].network,
                      wallets'[i].chainId = wallets'[j].chainId
               PROVE  i = j
    BY DEF OneWalletPerChain, Active
  <2>1. ASSUME NEW k \in WalletIds', NEW l \in WalletIds', k \in WalletIds, l \notin WalletIds,
               ~wallets'[k].deleted
        PROVE  ~(/\ wallets'[k].owner = wallets'[l].owner
                 /\ wallets'[k].network = wallets'[l].network
                 /\ wallets'[k].chainId = wallets'[l].chainId)
    <3>1. PICK w \in Workers : /\ work[w] \in WalletJob
                               /\ wallets'[l].owner = work[w].owner
                               /\ wallets'[l].network = work[w].network
                               /\ wallets'[l].chainId = work[w].chainId
      BY <1>0, <2>1, WalletsEffect
    <3>2. ~(/\ Active(wallets[k]) /\ wallets[k].owner = work[w].owner
            /\ wallets[k].network = work[w].network
            /\ wallets[k].chainId = work[w].chainId)
      BY <2>1, <3>1 DEF OneEachInv, ReadsStillHold
    <3> QED BY <1>0, <2>1, <3>1, <3>2, WalletsEffect DEF Active
  <2>2. CASE i \in WalletIds /\ j \in WalletIds
    BY <1>0, <2>2, WalletsEffect DEF OneEachInv, OneWalletPerChain, Active
  <2> QED BY <1>0, <2>1, <2>2, OneNewWallet
<1> QED BY <1>1, <1>2, <1>3, <1>4, <1>5 DEF OneEachInv

-----------------------------------------------------------------------------
(* Theorems *)

THEOREM RegistrationInvariant == Spec => []RegistrationInv
  BY InitRegistration, NextRegistration, PTL DEF Spec

\* The tables and the transactions keep their shapes, within their bounds.
THEOREM TypeCorrect == Spec => []TypeOK
<1>1. RegistrationInv => TypeOK
  BY DEF RegistrationInv
<1> QED BY <1>1, RegistrationInvariant, PTL

\* Every wallet rests on a nonce of its owner, address and network that the address
\* signed, whoever asks for whom and however the requests interleave.
THEOREM WalletsProven == Spec => []WalletIsProven
<1>1. RegistrationInv => WalletIsProven
  BY DEF RegistrationInv, WalletsAreProven, Proven, WalletIsProven
<1> QED BY <1>1, RegistrationInvariant, PTL

\* A nonce and its link are marked exactly when a wallet was made with it.
THEOREM NoncesAgree == Spec => []NonceUsedIffWallet
<1>1. RegistrationInv => NonceUsedIffWallet
  BY DEF RegistrationInv
<1> QED BY <1>1, RegistrationInvariant, PTL

\* While nobody asks for two things at a time, no nonce makes two wallets.
THEOREM OneTimeNonces == ASSUME OneRequestEach PROVE Spec => []NonceIsOneTime
<1>1. OneEachInv => NonceIsOneTime
  BY DEF OneEachInv
<1> QED BY <1>1, InitOneEach, NextOneEach, PTL DEF Spec

\* Under the same condition a principal has one active wallet on a chain at most.
THEOREM OneWalletEach == ASSUME OneRequestEach PROVE Spec => []OneWalletPerChain
<1>1. OneEachInv => OneWalletPerChain
  BY DEF OneEachInv
<1> QED BY <1>1, InitOneEach, NextOneEach, PTL DEF Spec

\* How long a nonce lives, whatever the clocks: ten minutes, and as much longer as
\* the clock of the server is behind Japanese time.
NonceLivesByTheClocks ==
    [][\A w \in Workers :
        (work[w] = None /\ work'[w] # None /\ work'[w].kind = "wallet")
            => now + ServerOffset <= nonces[work'[w].nonce].issued + JstOffset + Ttl]_vars

LEMMA StartsByTheClocks ==
    ASSUME RegistrationInv, NEW w \in Workers, NEW job, StartsWallet(w, job)
    PROVE  now + ServerOffset <= nonces[job.nonce].issued + JstOffset + Ttl
<1>1. job.nonce \in NonceIds /\ nonces[job.nonce].expires >= now + ServerOffset
  BY DEF StartsWallet, Proven, ServerNow
<1>2. LivesTtl(nonces[job.nonce]) /\ nonces[job.nonce] \in NonceRow /\ now \in Nat
  BY <1>1 DEF RegistrationInv, NoncesLiveTtl, TypeOK, NonceIds
<1> QED BY <1>1, <1>2, BoundAssumption DEF LivesTtl, NonceRow

\* On a server that keeps Japanese time, or is ahead of it, no registration starts
\* with a nonce that is older than ten minutes.
LEMMA StartsInTime ==
    ASSUME ServerOffset >= JstOffset, RegistrationInv, NEW w \in Workers, NEW job,
           StartsWallet(w, job)
    PROVE  now <= nonces[job.nonce].issued + Ttl
<1>1. now + ServerOffset <= nonces[job.nonce].issued + JstOffset + Ttl
  BY StartsByTheClocks
<1>2. nonces[job.nonce] \in NonceRow /\ now \in Nat
  BY DEF RegistrationInv, TypeOK, NonceIds, StartsWallet, Proven
<1> QED BY <1>1, <1>2, BoundAssumption DEF NonceRow

\* No registration starts with a nonce older than ten minutes plus what the clock of
\* the server lacks to Japanese time: the bound of what wallet_nonce_life shows.
THEOREM NonceLife == Spec => NonceLivesByTheClocks
<1>1. ASSUME RegistrationInv, [Next]_vars, NEW w \in Workers,
             work[w] = None, work'[w] # None, work'[w].kind = "wallet"
      PROVE  now + ServerOffset <= nonces[work'[w].nonce].issued + JstOffset + Ttl
  <2>1. StartsWallet(w, work'[w])
    BY <1>1, JobsEffect DEF RegistrationInv, StartsNonce, NonceJob
  <2> QED BY <1>1, <2>1, StartsByTheClocks
<1>2. RegistrationInv /\ [Next]_vars =>
        [\A w \in Workers :
            (work[w] = None /\ work'[w] # None /\ work'[w].kind = "wallet")
                => now + ServerOffset
                     <= nonces[work'[w].nonce].issued + JstOffset + Ttl]_vars
  BY <1>1
<1> QED BY <1>2, RegistrationInvariant, PTL DEF Spec, NonceLivesByTheClocks

\* So on a server in Japanese time, or ahead of it, a nonce lives ten minutes.
THEOREM TenMinutes ==
    ASSUME ServerOffset >= JstOffset PROVE Spec => NonceLivesTenMinutes
<1>1. ASSUME RegistrationInv, [Next]_vars, NEW w \in Workers,
             work[w] = None, work'[w] # None, work'[w].kind = "wallet"
      PROVE  now <= nonces[work'[w].nonce].issued + Ttl
  <2>1. StartsWallet(w, work'[w])
    BY <1>1, JobsEffect DEF RegistrationInv, StartsNonce, NonceJob
  <2> QED BY <1>1, <2>1, StartsInTime
<1>2. RegistrationInv /\ [Next]_vars =>
        [\A w \in Workers :
            (work[w] = None /\ work'[w] # None /\ work'[w].kind = "wallet")
                => now <= nonces[work'[w].nonce].issued + Ttl]_vars
  BY <1>1
<1> QED BY <1>2, RegistrationInvariant, PTL DEF Spec, NonceLivesTenMinutes
=============================================================================
