----------------------------- MODULE MCPayment ------------------------------
(* Small instances of Payment: one user's and one store's wallet, of which    *)
(* the user's may lack the permit, and enough balance for two payments.       *)
EXTENDS Payment, TLC

CONSTANTS customer, shop

MCWallet(a, permitted) ==
    [address |-> a, chain |-> Chain, token |-> "JPYC", permitted |-> permitted]

MCUserWallets == {MCWallet(customer, TRUE), MCWallet(customer, FALSE)}
MCStoreWallets == {MCWallet(shop, TRUE)}

MCBalance == [a \in Accounts |-> IF a = customer THEN 2 ELSE 0]
MCAllowance == [a \in Accounts |-> IF a = customer THEN 2 ELSE 0]

\* Workers are interchangeable.
MCSymmetry == Permutations(Requests) \union Permutations(Verifiers)
=============================================================================
