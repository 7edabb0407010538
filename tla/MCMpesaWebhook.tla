-------------------------- MODULE MCMpesaWebhook --------------------------
(* Small instances of MpesaWebhook.                                        *)
EXTENDS MpesaWebhook, TLC

CONSTANTS pay1, pay2, pay3, r1, r2, ck

payload(p, r, c, a) ==
    [payment |-> p, receipt |-> r, checkout |-> c, transaction |-> None,
     amount |-> a, payer |-> TRUE, signed |-> TRUE]

\* Two payments, the second with a checkout id as well; and deliveries that are
\* refused for the signature, the phone number or the amount.
TwoPayments ==
    {payload(pay1, r1, None, 2), payload(pay2, r2, ck, 1)} \cup
    {[payload(pay1, r1, None, 2) EXCEPT !.signed = FALSE],
     [payload(pay2, r2, ck, 1) EXCEPT !.payer = FALSE],
     [payload(pay2, r2, ck, 1) EXCEPT !.amount = None]}

\* A payment reported without ids: never a duplicate, refused without an amount.
WithAnonymous ==
    TwoPayments \cup {payload(pay3, None, None, 1), payload(pay3, None, None, None)}

\* One payment that always carries its receipt, and one without any id.
WithoutIds == {payload(pay1, r1, None, 2), payload(pay2, None, None, 1),
               payload(pay2, None, None, None)}

Symmetry == Permutations(Threads)
=============================================================================
