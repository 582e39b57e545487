----------------------- MODULE PaymentProcessorProof ------------------------
(***************************************************************************)
(* Proofs about PaymentProcessor: for any number of accounts, tokens and   *)
(* payment ids, the contract's state is well typed, its marks agree with   *)
(* its events, and an event means that funds moved.                        *)
(***************************************************************************)
EXTENDS PaymentProcessor, TLAPS

\* Moving an amount that is covered keeps every holding a natural number.
LEMMA MoveType ==
    ASSUME NEW b \in [Accounts -> Nat], NEW from \in Accounts, NEW to \in Accounts,
           NEW amount \in Nat, b[from] >= amount
    PROVE  Move(b, from, to, amount) \in [Accounts -> Nat]
<1> DEFINE debited == [b EXCEPT ![from] = @ - amount]
<1>1. debited \in [Accounts -> Nat]
  <2>1. b[from] - amount \in Nat
    OBVIOUS
  <2> QED BY <2>1
<1> HIDE DEF debited
<1>2. debited[to] + amount \in Nat
  BY <1>1
<1>3. [debited EXCEPT ![to] = @ + amount] \in [Accounts -> Nat]
  BY <1>1, <1>2
<1> QED BY <1>3 DEF Move, debited

\* The types hold initially ...
LEMMA InitTypeOK == Init => TypeOK
  BY AddressAssumption, AmountAssumption DEF Init, Constructor, TypeOK

\* ... and every step keeps them: the roles never hold the zero address, no
\* balance or allowance becomes negative, whatever is paid or transferred.
LEMMA NextTypeOK == TypeOK /\ [Next]_contractVars => TypeOK'
<1> SUFFICES ASSUME TypeOK, [Next]_contractVars PROVE TypeOK'
  OBVIOUS
<1> USE DEF TypeOK, Addresses
<1>1. CASE OwnerStep
  <2> SUFFICES ASSUME NEW sender \in Accounts,
                      \/ \E a \in Addresses : TransferOwnership(sender, a)
                      \/ \E a \in Addresses, allowed \in BOOLEAN :
                            SetOperator(sender, a, allowed)
                      \/ \E t \in Tokens \union {ZeroAddress}, allowed \in BOOLEAN :
                            SetToken(sender, t, allowed)
               PROVE  TypeOK'
    BY <1>1 DEF OwnerStep
  <2>1. ASSUME NEW a \in Addresses, TransferOwnership(sender, a) PROVE TypeOK'
    BY <2>1 DEF TransferOwnership, ledger
  <2>2. ASSUME NEW a \in Addresses, NEW allowed \in BOOLEAN,
               SetOperator(sender, a, allowed)
        PROVE  TypeOK'
    BY <2>2 DEF SetOperator, ledger
  <2>3. ASSUME NEW t \in Tokens \union {ZeroAddress}, NEW allowed \in BOOLEAN,
               SetToken(sender, t, allowed)
        PROVE  TypeOK'
    BY <2>3 DEF SetToken, ledger
  <2> QED BY <2>1, <2>2, <2>3
<1>2. CASE HolderStep
  <2> SUFFICES ASSUME NEW t \in Tokens, NEW a \in Accounts, NEW amount \in Amounts,
                      \/ Approve(t, a, amount)
                      \/ \E b \in Accounts : Transfer(t, a, b, amount)
               PROVE  TypeOK'
    BY <1>2 DEF HolderStep
  <2>0. amount \in Nat
    BY AmountAssumption
  <2>1. CASE Approve(t, a, amount)
    BY <2>0, <2>1 DEF Approve, roles
  <2>2. ASSUME NEW b \in Accounts, Transfer(t, a, b, amount) PROVE TypeOK'
    <3>1. Move(balance[t], a, b, amount) \in [Accounts -> Nat]
      BY <2>0, <2>2, MoveType DEF Transfer
    <3> QED BY <2>2, <3>1 DEF Transfer, roles
  <2> QED BY <2>1, <2>2
<1>3. CASE OperatorStep
  <2> SUFFICES ASSUME NEW sender \in Accounts, NEW id \in PaymentIds, NEW t \in Tokens,
                      NEW from \in Addresses, NEW to \in Addresses,
                      NEW amount \in Amounts, Pay(sender, id, t, from, to, amount)
               PROVE  TypeOK'
    BY <1>3 DEF OperatorStep
  <2>1. /\ amount \in Nat \ {0}
        /\ from \in Accounts /\ to \in Accounts
        /\ balance[t][from] >= amount /\ allowance[t][from] >= amount
    BY AmountAssumption DEF Pay, PaySucceeds, TransferFromSucceeds
  <2>2. Move(balance[t], from, to, amount) \in [Accounts -> Nat]
    BY <2>1, MoveType
  <2>3. balance' \in [Tokens -> [Accounts -> Nat]]
    BY <2>2 DEF Pay, TransferFrom
  <2>4. allowance[t][from] - amount \in Nat
    BY <2>1
  <2>5. allowance' \in [Tokens -> [Accounts -> Nat]]
    BY <2>1, <2>4 DEF Pay, TransferFrom
  <2>6. PaymentProcessed(id, t, from, to, amount, sender) \in PaymentProcessedEvents
    BY <2>1 DEF PaymentProcessed, PaymentProcessedEvents
  <2>7. events' \in Seq(PaymentProcessedEvents)
    BY <2>6 DEF Pay
  <2> QED BY <2>3, <2>5, <2>7 DEF Pay, roles
<1>4. CASE UNCHANGED contractVars
  BY <1>4 DEF contractVars
<1> QED BY <1>1, <1>2, <1>3, <1>4 DEF Next

\* For every set of accounts, tokens and payment ids: the contract's state is
\* well typed in every reachable state, so no transfer it makes overdraws.
THEOREM TypeCorrect == Spec => []TypeOK
  BY InitTypeOK, NextTypeOK, PTL DEF Spec

\* The one step that extends the log takes an id that is not in it.
LEMMA NextOneEvent ==
    TypeOK /\ OneEventPerProcessedPayment /\ [Next]_contractVars
        => OneEventPerProcessedPayment'
<1> SUFFICES ASSUME TypeOK, OneEventPerProcessedPayment, [Next]_contractVars
             PROVE  OneEventPerProcessedPayment'
  OBVIOUS
<1>1. CASE UNCHANGED <<processedPayments, events>>
  BY <1>1 DEF OneEventPerProcessedPayment
<1>2. ASSUME NEW sender, NEW id, NEW t, NEW from, NEW to, NEW amount,
             Pay(sender, id, t, from, to, amount)
      PROVE  OneEventPerProcessedPayment'
  <2> DEFINE e == PaymentProcessed(id, t, from, to, amount, sender)
  <2>1. /\ events' = Append(events, e)
        /\ processedPayments' = processedPayments \union {id}
        /\ id \notin processedPayments
        /\ e.paymentId = id
    BY <1>2 DEF Pay, PaySucceeds, PaymentProcessed
  <2>2. /\ events \in Seq(PaymentProcessedEvents)
        /\ Len(events) \in Nat
        /\ DOMAIN events = 1..Len(events)
    BY DEF TypeOK
  <2> HIDE DEF e
  <2>3. /\ DOMAIN events' = 1..(Len(events) + 1)
        /\ \A i \in 1..Len(events) : events'[i] = events[i]
        /\ events'[Len(events) + 1] = e
    BY <2>1, <2>2
  <2>4. \A i \in DOMAIN events : events[i].paymentId \in processedPayments
    BY DEF OneEventPerProcessedPayment
  <2>5. ASSUME NEW i \in DOMAIN events', NEW j \in DOMAIN events',
               events'[i].paymentId = events'[j].paymentId
        PROVE  i = j
    <3>1. CASE i \in DOMAIN events /\ j \in DOMAIN events
      BY <2>2, <2>3, <2>5, <3>1 DEF OneEventPerProcessedPayment
    <3>2. CASE i = Len(events) + 1 /\ j \in DOMAIN events
      BY <2>1, <2>2, <2>3, <2>4, <2>5, <3>2
    <3>3. CASE i \in DOMAIN events /\ j = Len(events) + 1
      BY <2>1, <2>2, <2>3, <2>4, <2>5, <3>3
    <3> QED BY <2>2, <2>3, <3>1, <3>2, <3>3
  <2>6. processedPayments' = {events'[i].paymentId : i \in DOMAIN events'}
    <3>1. ASSUME NEW p \in processedPayments'
          PROVE  \E i \in DOMAIN events' : events'[i].paymentId = p
      <4>1. CASE p = id
        BY <2>1, <2>2, <2>3, <4>1
      <4>2. CASE p \in processedPayments
        <5>1. PICK i \in DOMAIN events : events[i].paymentId = p
          BY <4>2 DEF OneEventPerProcessedPayment
        <5> QED BY <2>2, <2>3, <5>1
      <4> QED BY <2>1, <4>1, <4>2
    <3>2. ASSUME NEW i \in DOMAIN events'
          PROVE  events'[i].paymentId \in processedPayments'
      <4>1. CASE i \in DOMAIN events
        BY <2>1, <2>2, <2>3, <2>4, <4>1
      <4>2. CASE i = Len(events) + 1
        BY <2>1, <2>3, <4>2
      <4> QED BY <2>2, <2>3, <4>1, <4>2
    <3> QED BY <3>1, <3>2
  <2> QED BY <2>5, <2>6 DEF OneEventPerProcessedPayment
<1>3. CASE OwnerStep
  BY <1>1, <1>3 DEF OwnerStep, TransferOwnership, SetOperator, SetToken
<1>4. CASE HolderStep
  BY <1>1, <1>4 DEF HolderStep, Approve, Transfer
<1>5. CASE OperatorStep
  BY <1>2, <1>5 DEF OperatorStep
<1>6. CASE UNCHANGED contractVars
  BY <1>1, <1>6 DEF contractVars
<1> QED BY <1>3, <1>4, <1>5, <1>6 DEF Next

\* However often and with whatever ids operators call pay: an id is marked as
\* processed exactly when one event was emitted for it.
THEOREM ProcessedOnce == Spec => []OneEventPerProcessedPayment
<1>1. Init => OneEventPerProcessedPayment
  BY DEF Init, Constructor, OneEventPerProcessedPayment
<1> QED BY <1>1, InitTypeOK, NextTypeOK, NextOneEvent, PTL DEF Spec

\* An event is emitted only by a call of an operator for an allowed token that
\* moves exactly the amount it names.
THEOREM EventsMoveFunds == Spec => EventMeansFundsMoved
<1> DEFINE Moved ==
      events' # events =>
        LET e == events'[Len(events')]
        IN  /\ events' = Append(events, e)
            /\ e.operator \in operators
            /\ e.token \in allowedTokens
            /\ balance'[e.token] = Move(balance[e.token], e.from, e.to, e.amount)
            /\ allowance'[e.token][e.from] = allowance[e.token][e.from] - e.amount
<1>1. TypeOK /\ [Next]_contractVars => [Moved]_contractVars
  <2> SUFFICES ASSUME TypeOK, Next, events' # events PROVE Moved
    BY DEF contractVars
  <2>1. OperatorStep
    BY DEF Next, OwnerStep, HolderStep, TransferOwnership, SetOperator, SetToken,
           Approve, Transfer
  <2>2. PICK sender \in Accounts, id \in PaymentIds, t \in Tokens,
             from \in Addresses, to \in Addresses, amount \in Amounts :
             Pay(sender, id, t, from, to, amount)
    BY <2>1 DEF OperatorStep
  <2> DEFINE e == PaymentProcessed(id, t, from, to, amount, sender)
  <2>3. events' = Append(events, e)
    BY <2>2 DEF Pay
  <2>4. events'[Len(events')] = e
    BY <2>3 DEF TypeOK
  <2>5. /\ e.operator = sender /\ e.token = t /\ e.from = from
        /\ e.to = to /\ e.amount = amount
    BY DEF PaymentProcessed
  <2>6. sender \in operators /\ t \in allowedTokens
    BY <2>2 DEF Pay, PaySucceeds
  <2>7. balance'[t] = Move(balance[t], from, to, amount)
    BY <2>2 DEF Pay, TransferFrom, TypeOK
  <2>8. from \in Accounts
    BY <2>2 DEF Pay, PaySucceeds, Addresses
  <2>9. allowance'[t][from] = allowance[t][from] - amount
    BY <2>2, <2>8 DEF Pay, TransferFrom, TypeOK
  <2> HIDE DEF e
  <2> QED BY <2>3, <2>4, <2>5, <2>6, <2>7, <2>9
<1> QED BY <1>1, TypeCorrect, PTL DEF Spec, EventMeansFundsMoved
=============================================================================
