-------------------------- MODULE SettlementReport --------------------------
(***************************************************************************)
(* What the payment API promises to shops and users about a payment,       *)
(* without transactions, workers or nodes: a payment it accepted is        *)
(* reported paid only when the chain settled it, it is reported failed     *)
(* only when the chain has not settled it and never will, and until one of *)
(* the two is reported the answer is "pending".  A report may fall back to *)
(* "pending", since verify asks the node afresh on every call.             *)
(***************************************************************************)
CONSTANT Payments

VARIABLES
    report,    \* what the API last said of the payment
    settled    \* the payments whose amount was moved by the contract

Reports == {"none", "pending", "paid", "failed"}

Init ==
    /\ report = [p \in Payments |-> "none"]
    /\ settled = {}

Accept(p) ==
    /\ report[p] = "none"
    /\ report' = [report EXCEPT ![p] = "pending"]
    /\ UNCHANGED settled

\* A payment that was reported failed is not settled behind the report's back.
Settle(p) ==
    /\ p \notin settled
    /\ report[p] # "failed"
    /\ settled' = settled \union {p}
    /\ UNCHANGED report

Report(p, answer) ==
    /\ report[p] # "none"
    /\ answer = "paid" => p \in settled
    /\ answer = "failed" => p \notin settled
    /\ report' = [report EXCEPT ![p] = answer]
    /\ UNCHANGED settled

Next ==
    \E p \in Payments :
        \/ Accept(p)
        \/ Settle(p)
        \/ \E answer \in {"pending", "paid", "failed"} : Report(p, answer)

Spec == Init /\ [][Next]_<<report, settled>>
=============================================================================
