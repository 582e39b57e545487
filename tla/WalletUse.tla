------------------------------ MODULE WalletUse ------------------------------
(***************************************************************************)
(* What the registered wallets are used for, while they are registered and *)
(* deleted: the permit of a wallet named by its id, and the request of a   *)
(* payment, which finds the wallets of a user and of a store by their ids. *)
(* Both read in one snapshot and write at their commit, long after it: the *)
(* chain lies in between (see WalletPermit and Payment).                   *)
(***************************************************************************)
EXTENDS WalletRegistration

CONSTANT Cashiers   \* the permits and payments that run at a time

VARIABLES
    desk,       \* per cashier: the wallets its transaction has read
    payments    \* payment_requests, as committed

useVars == <<vars, desk, payments>>

UseInit ==
    /\ Init
    /\ desk = [c \in Cashiers |-> None]
    /\ payments = {}

-----------------------------------------------------------------------------

\* Variant: deleting is taken to delete the link always.
WalletsOfLink(kind, owner) ==
    {i \in WalletIds :
        /\ owner \in kind /\ wallets[i].owner = owner
        /\ ~wallets[i].unlinked}

\* get_user_wallet, get_store_wallet: the wallets joined with their owner through
\* the link table of his kind.
WalletsOf(kind, owner) ==
    {i \in WalletIds :
        /\ owner \in kind /\ wallets[i].owner = owner
        /\ ~wallets[i].unlinked
        /\ Active(wallets[i])}

\* get_wallet_by_id: whoever's it is.
LoadPermit(c, id) ==
    /\ desk[c] = None
    /\ Active(wallets[id])
    /\ desk' = [desk EXCEPT ![c] = [kind |-> "permit", wallet |-> id]]
    /\ UNCHANGED <<vars, payments>>

\* is_permitted is the one column written, on whatever has become of the row.
CommitPermit(c) ==
    /\ desk[c] # None
    /\ desk[c].kind = "permit"
    /\ wallets' = [wallets EXCEPT ![desk[c].wallet].permitted = TRUE]
    /\ desk' = [desk EXCEPT ![c] = None]
    /\ UNCHANGED <<nonces, work, now, payments>>

\* Variant: the tokens of the two wallets are not compared.
CreatePaymentRequestAnyToken(c, store, user) ==
    /\ desk[c] = None
    /\ \E to \in WalletsOf(Stores, store), from \in WalletsOf(Users, user) :
        /\ wallets[to].chainId = wallets[from].chainId
        /\ wallets[from].permitted
        /\ desk' = [desk EXCEPT ![c] =
                [kind |-> "payment", store |-> store, user |-> user,
                 to |-> to, from |-> from]]
    /\ UNCHANGED <<vars, payments>>

\* create_payment_request: of several wallets first() takes any, since nothing
\* orders them; the two must be of one chain and token, the user's be permitted.
CreatePaymentRequest(c, store, user) ==
    /\ desk[c] = None
    /\ \E to \in WalletsOf(Stores, store), from \in WalletsOf(Users, user) :
        /\ wallets[to].chainId = wallets[from].chainId
        /\ wallets[to].token = wallets[from].token
        /\ wallets[from].permitted
        /\ desk' = [desk EXCEPT ![c] =
                [kind |-> "payment", store |-> store, user |-> user,
                 to |-> to, from |-> from]]
    /\ UNCHANGED <<vars, payments>>

PaymentRow(job) ==
    [store |-> job.store, user |-> job.user,
     chainId |-> wallets[job.to].chainId, token |-> wallets[job.to].token,
     to |-> wallets[job.to].address, from |-> wallets[job.from].address]

CommitPayment(c) ==
    /\ desk[c] # None
    /\ desk[c].kind = "payment"
    /\ payments' = payments \union {PaymentRow(desk[c])}
    /\ desk' = [desk EXCEPT ![c] = None]
    /\ UNCHANGED vars

RollbackUse(c) ==
    /\ desk[c] # None
    /\ desk' = [desk EXCEPT ![c] = None]
    /\ UNCHANGED <<vars, payments>>

UseNext ==
    \/ Next /\ UNCHANGED <<desk, payments>>
    \/ \E c \in Cashiers :
        \/ \E id \in WalletIds : LoadPermit(c, id)
        \/ \E store, user \in Principals \union Strangers : CreatePaymentRequest(c, store, user)
        \/ CommitPermit(c) \/ CommitPayment(c) \/ RollbackUse(c)

UseSpec == UseInit /\ [][UseNext]_useVars

\* A request that has read its wallets ends: every remote call has a timeout, after
\* which it raises and rolls back.
UseFairSpec ==
    /\ UseSpec
    /\ \A c \in Cashiers :
        WF_useVars(CommitPermit(c) \/ CommitPayment(c) \/ RollbackUse(c))

-----------------------------------------------------------------------------
(* Properties *)

PermitJob == [kind : {"permit"}, wallet : Nat]

PaymentJob == [kind : {"payment"}, store : Principals \union Strangers,
               user : Principals \union Strangers, to : Nat, from : Nat]

ASSUME DeskAssumption == None \notin PermitJob \union PaymentJob

\* The principal has registered the address for the chain and token, and signed with
\* that very address a nonce issued to him.
HasProven(owner, address, chainId, token) ==
    \E i \in WalletIds :
        /\ wallets[i].owner = owner
        /\ wallets[i].address = address
        /\ wallets[i].chainId = chainId
        /\ wallets[i].token = token
        /\ wallets[i].signature = [signer |-> address, nonce |-> wallets[i].nonce]
        /\ nonces[wallets[i].nonce].owner = owner

\* Money goes from an address whose key the user has shown to one whose key the
\* store has shown, on the chain and in the token both were registered for, whatever
\* was deleted or registered anew while the payment was under way.
PaymentsAreProven ==
    \A payment \in payments :
        /\ HasProven(payment.user, payment.from, payment.chainId, payment.token)
        /\ HasProven(payment.store, payment.to, payment.chainId, payment.token)

\* What a permit or a payment is going to use.
Uses(c, id) ==
    /\ desk[c] # None
    /\ IF desk[c].kind = "permit" THEN id = desk[c].wallet
                                  ELSE id \in {desk[c].to, desk[c].from}

\* Deleting a wallet takes hold, through whichever endpoint and whatever had read it
\* by then: those permits and payments may still be committed, as the chain may have
\* done its part, but they end, and from then on none uses the wallet.
DeletionTakesHold ==
    \A id \in 1..MaxWallets :
        (id \in WalletIds /\ wallets[id].deleted)
            ~> [](\A c \in Cashiers : ~Uses(c, id))
=============================================================================
