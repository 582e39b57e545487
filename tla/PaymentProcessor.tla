-------------------------- MODULE PaymentProcessor --------------------------
(***************************************************************************)
(* The Solidity contract PaymentProcessor and the ERC-20 token it moves.   *)
(* A call either changes the state as the action says or reverts, which    *)
(* leaves the whole chain state as it was: a revert is the absence of a    *)
(* step.  The token is not in the repository; it is modelled from the      *)
(* calls transferFrom, permit, allowance and balanceOf made of it.         *)
(* Definitions marked "Variant" are what a plausible bug would make of the  *)
(* definition that follows; they are kept to show which property notices.   *)
(***************************************************************************)
EXTENDS Integers, Sequences

CONSTANTS
    Accounts,         \* the addresses other than the zero address
    ZeroAddress,
    Tokens,           \* the token contracts
    PaymentIds,       \* the bytes32 values passed as paymentId
    Amounts,          \* the amounts of a call, zero included
    InitialOwner, InitialOperator, InitialToken,   \* constructor arguments
    InitialBalance,   \* what every account holds of every token at the start
    InitialAllowance  \* what every account lets the contract draw at the start

ASSUME AddressAssumption ==
    /\ ZeroAddress \notin Accounts
    /\ InitialOwner \in Accounts
    /\ InitialOperator \in Accounts
    /\ InitialToken \in Tokens

\* Solidity's uint256 is Nat here: no sum of the token's balances overflows.
ASSUME AmountAssumption ==
    /\ Amounts \subseteq Nat
    /\ InitialBalance \in [Accounts -> Nat]
    /\ InitialAllowance \in [Accounts -> Nat]

VARIABLES
    owner, operators, processedPayments, allowedTokens,
    balance, allowance,   \* per token, per holder; allowance to this contract
    events                \* the PaymentProcessed events, oldest first

roles == <<owner, operators, allowedTokens>>
ledger == <<balance, allowance>>
contractVars == <<owner, operators, allowedTokens, processedPayments,
                  balance, allowance, events>>

Addresses == Accounts \union {ZeroAddress}

\* PaymentProcessed, the event of a settled payment.
PaymentProcessed(paymentId, token, from, to, amount, operator) ==
    [paymentId |-> paymentId, token |-> token, from |-> from, to |-> to,
     amount |-> amount, operator |-> operator]

PaymentProcessedEvents ==
    [paymentId : PaymentIds, token : Tokens, from : Accounts, to : Accounts,
     amount : Nat \ {0}, operator : Accounts]

-----------------------------------------------------------------------------
Constructor ==
    /\ owner = InitialOwner
    /\ operators = {InitialOperator}
    /\ allowedTokens = {InitialToken}
    /\ processedPayments = {}
    /\ events = <<>>

Init ==
    /\ Constructor
    /\ balance = [t \in Tokens |-> InitialBalance]
    /\ allowance = [t \in Tokens |-> InitialAllowance]

TransferOwnership(sender, newOwner) ==
    /\ sender = owner
    /\ newOwner # ZeroAddress
    /\ owner' = newOwner
    /\ UNCHANGED <<operators, allowedTokens, processedPayments, ledger, events>>

\* Variant: the zero address may become an operator.
SetOperatorZero(sender, operator, allowed) ==
    /\ sender = owner
    /\ operators' = IF allowed THEN operators \union {operator}
                               ELSE operators \ {operator}
    /\ UNCHANGED <<owner, allowedTokens, processedPayments, ledger, events>>

SetOperator(sender, operator, allowed) ==
    /\ sender = owner
    /\ operator # ZeroAddress
    /\ operators' = IF allowed THEN operators \union {operator}
                               ELSE operators \ {operator}
    /\ UNCHANGED <<owner, allowedTokens, processedPayments, ledger, events>>

SetToken(sender, token, allowed) ==
    /\ sender = owner
    /\ token # ZeroAddress
    /\ allowedTokens' = IF allowed THEN allowedTokens \union {token}
                                   ELSE allowedTokens \ {token}
    /\ UNCHANGED <<owner, operators, processedPayments, ledger, events>>

\* The token's transferFrom by the contract: it succeeds within the balance
\* and within the allowance, and reverts otherwise.
TransferFromSucceeds(token, from, amount) ==
    /\ balance[token][from] >= amount
    /\ allowance[token][from] >= amount

Move(b, from, to, amount) ==
    LET debited == [b EXCEPT ![from] = @ - amount]
    IN  [debited EXCEPT ![to] = @ + amount]

TransferFrom(token, from, to, amount) ==
    /\ balance' = [balance EXCEPT ![token] = Move(@, from, to, amount)]
    /\ allowance' = [allowance EXCEPT ![token][from] = @ - amount]

\* Variant: a processed payment is not refused.
PaySucceedsAgain(sender, paymentId, token, from, to, amount) ==
    /\ sender \in operators
    /\ token \in allowedTokens
    /\ from # ZeroAddress /\ to # ZeroAddress
    /\ amount # 0
    /\ TransferFromSucceeds(token, from, amount)

\* The checks of pay, in its order: when one fails the call reverts.
PaySucceeds(sender, paymentId, token, from, to, amount) ==
    /\ sender \in operators
    /\ token \in allowedTokens
    /\ from # ZeroAddress /\ to # ZeroAddress
    /\ amount # 0
    /\ paymentId \notin processedPayments
    /\ TransferFromSucceeds(token, from, amount)

\* Variant: the result of transferFrom is not looked at.
PayUnchecked(sender, paymentId, token, from, to, amount) ==
    /\ sender \in operators
    /\ token \in allowedTokens
    /\ from # ZeroAddress /\ to # ZeroAddress
    /\ amount # 0
    /\ paymentId \notin processedPayments
    /\ processedPayments' = processedPayments \union {paymentId}
    /\ IF TransferFromSucceeds(token, from, amount)
       THEN TransferFrom(token, from, to, amount) ELSE UNCHANGED ledger
    /\ events' = Append(events,
                   PaymentProcessed(paymentId, token, from, to, amount, sender))
    /\ UNCHANGED roles

Pay(sender, paymentId, token, from, to, amount) ==
    /\ PaySucceeds(sender, paymentId, token, from, to, amount)
    /\ processedPayments' = processedPayments \union {paymentId}
    /\ TransferFrom(token, from, to, amount)
    /\ events' = Append(events,
                   PaymentProcessed(paymentId, token, from, to, amount, sender))
    /\ UNCHANGED roles

\* What holders do with the token by themselves: set the contract's allowance
\* (approve or permit) and transfer.
Approve(token, holder, value) ==
    /\ allowance' = [allowance EXCEPT ![token][holder] = value]
    /\ UNCHANGED <<roles, processedPayments, balance, events>>

Transfer(token, from, to, amount) ==
    /\ balance[token][from] >= amount
    /\ balance' = [balance EXCEPT ![token] = Move(@, from, to, amount)]
    /\ UNCHANGED <<roles, processedPayments, allowance, events>>

OwnerStep ==
    \E sender \in Accounts :
        \/ \E a \in Addresses : TransferOwnership(sender, a)
        \/ \E a \in Addresses, allowed \in BOOLEAN : SetOperator(sender, a, allowed)
        \/ \E t \in Tokens \union {ZeroAddress}, allowed \in BOOLEAN :
                SetToken(sender, t, allowed)

HolderStep ==
    \E t \in Tokens, a \in Accounts, amount \in Amounts :
        \/ Approve(t, a, amount)
        \/ \E b \in Accounts : Transfer(t, a, b, amount)

OperatorStep ==
    \E sender \in Accounts, id \in PaymentIds, t \in Tokens,
       from \in Addresses, to \in Addresses, amount \in Amounts :
        Pay(sender, id, t, from, to, amount)

Next == OwnerStep \/ HolderStep \/ OperatorStep

Spec == Init /\ [][Next]_contractVars

-----------------------------------------------------------------------------
(* Properties *)

\* The contract's storage and the token's ledgers have their shapes: no balance
\* and no allowance is drawn below zero, no operator is the zero address.
TypeOK ==
    /\ owner \in Accounts
    /\ operators \subseteq Accounts
    /\ allowedTokens \subseteq Tokens
    /\ processedPayments \subseteq PaymentIds
    /\ balance \in [Tokens -> [Accounts -> Nat]]
    /\ allowance \in [Tokens -> [Accounts -> Nat]]
    /\ events \in Seq(PaymentProcessedEvents)

\* processedPayments and the event log never disagree: an id is marked exactly
\* when one event, and only one, was emitted for it.  The API decides that a
\* payment is paid from the event, pay refuses a second one from the mark.
OneEventPerProcessedPayment ==
    /\ processedPayments = {events[i].paymentId : i \in DOMAIN events}
    /\ \A i, j \in DOMAIN events :
            events[i].paymentId = events[j].paymentId => i = j

\* When a step emits PaymentProcessed, the amount it names has left the payer
\* and reached the payee in that very step, the payer's allowance went down by
\* it, and the caller was an operator for an allowed token.
EventMeansFundsMoved ==
    [][events' # events =>
        LET e == events'[Len(events')]
        IN  /\ events' = Append(events, e)
            /\ e.operator \in operators
            /\ e.token \in allowedTokens
            /\ balance'[e.token] = Move(balance[e.token], e.from, e.to, e.amount)
            /\ allowance'[e.token][e.from] = allowance[e.token][e.from] - e.amount
      ]_contractVars
=============================================================================
