------------------------ MODULE MCWalletRegistration ------------------------
(* Small instances of WalletRegistration: a user, a store and an unknown id. *)
EXTENDS WalletRegistration

CONSTANTS u1, s1, u9, w1, w2

\* Anybody may ask for anybody ...
MCAnyClient == [w \in Workers |-> Users \union Stores \union Strangers]

\* ... or the user and the store ask for themselves, one request at a time each.
MCOwnClient == [w \in Workers |-> IF w = w1 THEN {u1, u9} ELSE {s1}]
=============================================================================
