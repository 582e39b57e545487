--------------------------- MODULE MCWalletPermit ---------------------------
(* Small instances of WalletPermit: the wallets of one address.              *)
EXTENDS WalletPermit

CONSTANTS customer, p1, p2

MCSameAddress == [i \in Wallets |-> customer]
=============================================================================
