------------------------- MODULE WalletRegistration -------------------------
(***************************************************************************)
(* How users and stores register their wallets: an endpoint issues a nonce *)
(* for an address, the holder of the address signs it, a second endpoint   *)
(* checks the signature and stores the wallet, a third one deletes it.     *)
(* User and store endpoints share the tables wallets and nonces and differ *)
(* in their link tables.                                                   *)
(*                                                                         *)
(* A request reads in the snapshot its transaction took at its first read  *)
(* (InnoDB, REPEATABLE READ) and its writes appear at its commit, so it is *)
(* two steps; no row is locked for reading and no unique key stands behind *)
(* what was checked.                                                       *)
(*                                                                         *)
(* Definitions marked "Variant" are what a plausible bug would make of the  *)
(* definition that follows; they are kept to show which property notices.   *)
(***************************************************************************)
EXTENDS Integers, Sequences, FiniteSets

CONSTANTS
    Users, Stores,      \* the principals, present in users and stores
    Strangers,          \* ids a request may name that are in neither table
    Addresses,          \* wallet addresses; whoever holds the key can sign
    Networks,           \* pairs of chain_type and network_name
    ChainIds,
    Tokens,             \* token symbols
    Workers,            \* the requests that run at a time
    Clients,            \* per worker, the ids its requests name
    Ttl,                \* ten minutes, in ticks
    JstOffset,          \* how far JST is ahead of UTC, in ticks
    ServerOffset,       \* how far the server's local time is ahead of UTC
    MaxNonces, MaxWallets, MaxTime,   \* bounds: rows of the tables, the clock
    None

ASSUME PrincipalAssumption ==
    /\ Users \intersect Stores = {}
    /\ (Users \union Stores) \intersect Strangers = {}

ASSUME ClientAssumption ==
    Clients \in [Workers -> SUBSET (Users \union Stores \union Strangers)]

\* The workers are the threads of one server.
ASSUME WorkerAssumption == IsFiniteSet(Workers)

ASSUME BoundAssumption ==
    /\ {Ttl, JstOffset, ServerOffset, MaxNonces, MaxWallets, MaxTime} \subseteq Nat
    /\ Ttl > 0

VARIABLES
    nonces,    \* nonces with their user_nonces or store_nonces link, as linked
    wallets,   \* wallets with their user_wallets or store_wallets link
    work,      \* per worker: what its transaction is going to write
    now        \* UTC

vars == <<nonces, wallets, work, now>>

Principals == Users \union Stores
NonceIds == DOMAIN nonces
WalletIds == DOMAIN wallets

Init ==
    /\ nonces = <<>>
    /\ wallets = <<>>
    /\ work = [w \in Workers |-> None]
    /\ now = 0

\* DATETIME columns have no zone: what is stored is the wall clock it was made
\* from, JST for expires_at, the server's own for datetime.now().
JstNow == now + JstOffset
ServerNow == now + ServerOffset

-----------------------------------------------------------------------------
(* Nonces *)

Active(wallet) == ~wallet.deleted

\* The transactions that are about to write a nonce, or a wallet.
Working(kind) == {w \in Workers : work[w] # None /\ work[w].kind = kind}

\* get_wallet_by_address: any active wallet of the table, whoever's it is.
AddressInUse(address) ==
    \E i \in WalletIds : wallets[i].address = address /\ Active(wallets[i])

\* create_wallet_nonce: the address must be free when the transaction reads.
CreateWalletNonce(w, owner, address, network) ==
    /\ work[w] = None
    /\ Len(nonces) + Cardinality(Working("nonce")) < MaxNonces
    /\ ~AddressInUse(address)
    /\ work' = [work EXCEPT ![w] =
            [kind |-> "nonce", owner |-> owner, address |-> address,
             network |-> network, issued |-> now, expires |-> JstNow + Ttl]]
    /\ UNCHANGED <<nonces, wallets, now>>

\* Variant: the user is not looked up.
CreateUserWalletNonceUnchecked(w, user, address, network) ==
    user \notin Stores /\ CreateWalletNonce(w, user, address, network)

CreateUserWalletNonce(w, user, address, network) ==
    user \in Users /\ CreateWalletNonce(w, user, address, network)

CreateStoreWalletNonce(w, store, address, network) ==
    store \in Stores /\ CreateWalletNonce(w, store, address, network)

\* The commit adds the nonce and its link; links are numbered in this order.
CommitNonce(w) ==
    /\ work[w] # None
    /\ work[w].kind = "nonce"
    /\ nonces' = Append(nonces,
            [owner |-> work[w].owner, address |-> work[w].address,
             network |-> work[w].network, issued |-> work[w].issued,
             expires |-> work[w].expires, used |-> FALSE, unlinked |-> FALSE])
    /\ work' = [work EXCEPT ![w] = None]
    /\ UNCHANGED <<wallets, now>>

-----------------------------------------------------------------------------
(* Wallets *)

\* Variant: expires_at is not compared.
AvailableNoncesForever(owner, address, network) ==
    {i \in NonceIds :
        /\ nonces[i].owner = owner /\ ~nonces[i].unlinked
        /\ nonces[i].address = address
        /\ nonces[i].network = network
        /\ ~nonces[i].used}

AvailableNonces(owner, address, network) ==
    {i \in NonceIds :
        /\ nonces[i].owner = owner /\ ~nonces[i].unlinked
        /\ nonces[i].address = address
        /\ nonces[i].network = network
        /\ ~nonces[i].used
        /\ nonces[i].expires >= ServerNow}

\* Variant: the signature is not compared with the address.
VerifyWalletNonceAnySigner(id, owner, address, network, signature) ==
    /\ id \in AvailableNonces(owner, address, network)
    /\ \A i \in AvailableNonces(owner, address, network) : i <= id
    /\ signature.nonce = id

\* get_latest_available_nonce finds the nonce linked last; recover_address gives
\* the address only if its key signed that very nonce.
VerifyWalletNonce(id, owner, address, network, signature) ==
    /\ id \in AvailableNonces(owner, address, network)
    /\ \A i \in AvailableNonces(owner, address, network) : i <= id
    /\ signature = [signer |-> address, nonce |-> id]

\* get_wallet_by_user_id and get_wallet_by_store_id.
ExistingWallets(owner, network, chainId) ==
    {i \in WalletIds :
        /\ wallets[i].owner = owner /\ ~wallets[i].unlinked
        /\ wallets[i].network = network
        /\ wallets[i].chainId = chainId
        /\ Active(wallets[i])}

\* Variant: the conflict is looked for among wallets of the same address.
CreateWalletSameAddress(w, owner, address, network, chainId, token, signature) ==
    /\ work[w] = None
    /\ Len(wallets) + Cardinality(Working("wallet")) < MaxWallets
    /\ \E id \in NonceIds :
        /\ VerifyWalletNonce(id, owner, address, network, signature)
        /\ {i \in ExistingWallets(owner, network, chainId) :
                wallets[i].address = address} = {}
        /\ work' = [work EXCEPT ![w] =
                [kind |-> "wallet", owner |-> owner, address |-> address,
                 network |-> network, chainId |-> chainId, token |-> token, nonce |-> id,
                 signature |-> signature, permitted |-> owner \in Stores]]
    /\ UNCHANGED <<nonces, wallets, now>>

\* verify_wallet_nonce and the check of create_user_wallet or create_store_wallet
\* in one transaction.  A store's wallet counts as permitted from the start.
CreateWallet(w, owner, address, network, chainId, token, signature) ==
    /\ work[w] = None
    /\ Len(wallets) + Cardinality(Working("wallet")) < MaxWallets
    /\ \E id \in NonceIds :
        /\ VerifyWalletNonce(id, owner, address, network, signature)
        /\ ExistingWallets(owner, network, chainId) = {}
        /\ work' = [work EXCEPT ![w] =
                [kind |-> "wallet", owner |-> owner, address |-> address,
                 network |-> network, chainId |-> chainId, token |-> token, nonce |-> id,
                 signature |-> signature, permitted |-> owner \in Stores]]
    /\ UNCHANGED <<nonces, wallets, now>>

CreateUserWallet(w, user, address, network, chainId, token, signature) ==
    user \in Users /\ CreateWallet(w, user, address, network, chainId, token, signature)

CreateStoreWallet(w, store, address, network, chainId, token, signature) ==
    store \in Stores /\ CreateWallet(w, store, address, network, chainId, token, signature)

NewWallet(job) ==
    [owner |-> job.owner, address |-> job.address, network |-> job.network,
     chainId |-> job.chainId, token |-> job.token, permitted |-> job.permitted,
     deleted |-> FALSE, unlinked |-> FALSE,
     nonce |-> job.nonce, signature |-> job.signature]

\* Variant: the nonce's own row is not marked, only its link.
CommitWalletUnlinks(w) ==
    /\ work[w] # None
    /\ work[w].kind = "wallet"
    /\ wallets' = Append(wallets, NewWallet(work[w]))
    /\ nonces' = [nonces EXCEPT ![work[w].nonce].unlinked = TRUE]
    /\ work' = [work EXCEPT ![w] = None]
    /\ UNCHANGED now

\* Variant: neither the nonce nor its link is marked.
CommitWalletKeepsNonce(w) ==
    /\ work[w] # None
    /\ work[w].kind = "wallet"
    /\ wallets' = Append(wallets, NewWallet(work[w]))
    /\ work' = [work EXCEPT ![w] = None]
    /\ UNCHANGED <<nonces, now>>

\* The commit adds the wallet and its link, marks the nonce used and its link
\* deleted, whatever others have committed to those rows meanwhile.
CommitWallet(w) ==
    /\ work[w] # None
    /\ work[w].kind = "wallet"
    /\ wallets' = Append(wallets, NewWallet(work[w]))
    /\ nonces' = [nonces EXCEPT ![work[w].nonce].used = TRUE,
                                ![work[w].nonce].unlinked = TRUE]
    /\ work' = [work EXCEPT ![w] = None]
    /\ UNCHANGED now

\* An exception, a lost connection or the end of the process.
Rollback(w) ==
    /\ work[w] # None
    /\ work' = [work EXCEPT ![w] = None]
    /\ UNCHANGED <<nonces, wallets, now>>

\* delete_wallet of the users' or of the stores' endpoint: the wallet goes by its
\* id alone; the link goes only if it is in that endpoint's table.
DeleteWallet(kind, id) ==
    /\ wallets' = [wallets EXCEPT
            ![id].deleted = TRUE,
            ![id].unlinked = @ \/ wallets[id].owner \in kind]
    /\ UNCHANGED <<nonces, work, now>>

DeleteUserWallet(id) == DeleteWallet(Users, id)
DeleteStoreWallet(id) == DeleteWallet(Stores, id)

Tick == now < MaxTime /\ now' = now + 1 /\ UNCHANGED <<nonces, wallets, work>>

\* What a client may send as a signature: of any key, of any nonce given out.
Signatures == [signer : Addresses, nonce : NonceIds]

WorkerStep(w) ==
    \/ \E p \in Clients[w], a \in Addresses, n \in Networks :
          \/ CreateUserWalletNonce(w, p, a, n)
          \/ CreateStoreWalletNonce(w, p, a, n)
          \/ \E c \in ChainIds, t \in Tokens, s \in Signatures :
                \/ CreateUserWallet(w, p, a, n, c, t, s)
                \/ CreateStoreWallet(w, p, a, n, c, t, s)
    \/ CommitNonce(w) \/ CommitWallet(w) \/ Rollback(w)

Next ==
    \/ \E w \in Workers : WorkerStep(w)
    \/ \E id \in WalletIds : DeleteUserWallet(id) \/ DeleteStoreWallet(id)
    \/ Tick

Spec == Init /\ [][Next]_vars

-----------------------------------------------------------------------------
(* Properties *)

NonceRow == [owner : Principals, address : Addresses, network : Networks,
             issued : Nat, expires : Nat, used : BOOLEAN, unlinked : BOOLEAN]

Signature == [signer : Addresses, nonce : 1..MaxNonces]

WalletRow == [owner : Principals, address : Addresses, network : Networks,
              chainId : ChainIds, token : Tokens, permitted : BOOLEAN,
              deleted : BOOLEAN, unlinked : BOOLEAN, nonce : 1..MaxNonces, signature : Signature]

NonceJob == [kind : {"nonce"}, owner : Principals, address : Addresses,
             network : Networks, issued : Nat, expires : Nat]

WalletJob == [kind : {"wallet"}, owner : Principals, address : Addresses,
              network : Networks, chainId : ChainIds, token : Tokens,
              nonce : 1..MaxNonces, signature : Signature, permitted : BOOLEAN]

ASSUME NoneAssumption == None \notin NonceJob \union WalletJob

\* The tables and the transactions have the shape of the models, and a
\* transaction names a nonce that exists.
TypeOK ==
    /\ nonces \in Seq(NonceRow)
    /\ Len(nonces) <= MaxNonces
    /\ wallets \in Seq(WalletRow)
    /\ Len(wallets) <= MaxWallets
    /\ work \in [Workers -> NonceJob \union WalletJob \union {None}]
    /\ \A w \in Workers : work[w] \in WalletJob => work[w].nonce \in NonceIds
    /\ now \in 0..MaxTime

\* Whoever has a wallet has shown the key of its address: the wallet rests on a
\* nonce that was issued to that very principal, for that address and network,
\* and that the address itself signed, however the requests were interleaved.
WalletIsProven ==
    \A i \in WalletIds :
        LET wallet == wallets[i]
            nonce == nonces[wallet.nonce]
        IN  /\ wallet.nonce \in NonceIds
            /\ nonce.owner = wallet.owner
            /\ nonce.address = wallet.address
            /\ nonce.network = wallet.network
            /\ wallet.signature = [signer |-> wallet.address, nonce |-> wallet.nonce]

\* A nonce is marked used and unlinked exactly when a wallet was made with it:
\* the three tables written by a registration never disagree.
NonceUsedIffWallet ==
    \A n \in NonceIds :
        LET spent == \E i \in WalletIds : wallets[i].nonce = n
        IN  nonces[n].used = spent /\ nonces[n].unlinked = spent

\* A nonce makes one wallet at most ("one-time token").
NonceIsOneTime ==
    \A i, j \in WalletIds : wallets[i].nonce = wallets[j].nonce => i = j

\* A principal has one active wallet at most on a network and chain id; a second
\* registration is answered 409.
OneWalletPerChain ==
    \A i, j \in WalletIds :
        /\ Active(wallets[i]) /\ Active(wallets[j])
        /\ wallets[i].owner = wallets[j].owner
        /\ wallets[i].network = wallets[j].network
        /\ wallets[i].chainId = wallets[j].chainId
        => i = j

\* An active wallet's address belongs to one principal: a nonce is refused with
\* "this wallet is already in use" when the address is registered.
AddressHasOneOwner ==
    \A i, j \in WalletIds :
        /\ Active(wallets[i]) /\ Active(wallets[j])
        /\ wallets[i].address = wallets[j].address
        => wallets[i].owner = wallets[j].owner

\* A registration is only started with a nonce issued at most ten minutes before.
NonceLivesTenMinutes ==
    [][\A w \in Workers :
        (work[w] = None /\ work'[w] # None /\ work'[w].kind = "wallet")
            => now <= nonces[work'[w].nonce].issued + Ttl]_vars
=============================================================================
