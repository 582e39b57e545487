--------------------------- MODULE OperatorAccount ---------------------------
(***************************************************************************)
(* What the payments and the permits may rely on from the account they are *)
(* all sent from, without requests, tables or contracts: the nonce of the  *)
(* account serialises its transactions.  One of them waits for a block at  *)
(* most, and it bears the next nonce, so that none is stuck behind a gap;  *)
(* it may be replaced or dropped; and a transaction has a receipt only if  *)
(* it was the one that waited when its nonce was used up.                  *)
(***************************************************************************)
EXTENDS Naturals

VARIABLES
    nonce,     \* of the account: how many of its transactions were mined
    waiting,   \* its transactions in the node's pool
    mined      \* its transactions with a receipt

Init == nonce = 0 /\ waiting = {} /\ mined = {}

\* A request sends a transaction, in the place of the one that waits.
Send ==
    /\ \E tx \in waiting' : tx.nonce = nonce /\ waiting' = {tx}
    /\ UNCHANGED <<nonce, mined>>

Drop ==
    /\ waiting' = {}
    /\ UNCHANGED <<nonce, mined>>

\* A block takes the transaction that waits, or one of another endpoint that
\* takes its nonce.
Mine ==
    /\ nonce' = nonce + 1
    /\ waiting' = {}
    /\ mined \subseteq mined'
    /\ mined' \ mined \subseteq waiting

Next == Send \/ Drop \/ Mine

Spec == Init /\ [][Next]_<<nonce, waiting, mined>>
=============================================================================
