----------------------------- MODULE MCWalletUse -----------------------------
(* Registration and use of wallets: a user, a store and an unknown id.       *)
EXTENDS WalletUse

CONSTANTS u1, s1, u9, w1, w2

\* The user and the store ask for themselves, one registration at a time each.
MCOwnClient == [w \in Workers |-> IF w = w1 THEN {u1, u9} ELSE {s1}]
=============================================================================
