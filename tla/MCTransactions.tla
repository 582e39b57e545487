--------------------------- MODULE MCTransactions ---------------------------
(* Two threads, pools of one connection: each can hold what the other wants. *)
EXTENDS Transactions

CONSTANTS w1, w2
=============================================================================
