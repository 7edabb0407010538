---------------------------- MODULE PaymentIntake ----------------------------
(* What the provider may rely on when it reports payments: a payment it was *)
(* told is accepted has been recorded, and stays recorded.                  *)
CONSTANT Payments
VARIABLES recorded, accepted

Init == recorded = {} /\ accepted = {}

Record(p) == /\ p \notin recorded
             /\ recorded' = recorded \cup {p}
             /\ UNCHANGED accepted
Accept(p) == /\ p \in recorded
             /\ accepted' = accepted \cup {p}
             /\ UNCHANGED recorded

Next == \E p \in Payments : Record(p) \/ Accept(p)

Spec == Init /\ [][Next]_<<recorded, accepted>>
=============================================================================
