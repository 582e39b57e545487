------------------------- MODULE MCPaymentProcessor -------------------------
(* A small instance of PaymentProcessor: two accounts that may both be owner, *)
(* operator, payer and payee, one token, two payment ids.                     *)
EXTENDS PaymentProcessor

CONSTANTS shop, customer

MCBalance == [a \in Accounts |-> 1]
MCAllowance == [a \in Accounts |-> IF a = customer THEN 1 ELSE 0]
=============================================================================
