----------------------------- MODULE MCBilling -----------------------------
(* Small instances of Billing.                                             *)
EXTENDS Billing, FiniteSetsExt

row(i, k, a) == [invoice |-> i, kind |-> k, amount |-> a]
form(s, t, d) == [status |-> s, total |-> t, issue |-> 1, due |-> d]

\* A part of the total, two of which cover it, a refund the SUM must skip, and a
\* negative payment it must not.
SomeSubmissions ==
    {row(i, "payment", a) : i \in Invoices, a \in {-1, 1}}
        \cup {row(i, "refund", 2) : i \in Invoices}

\* The whole total at once, or a part of it.
Payments12 == {row(i, "payment", a) : i \in Invoices, a \in {1, 2}}

PlainForms == {form("pending", 2, 1), form("draft", 1, 1), form("paid", 2, 1)}
\* The last is due before it is issued.
SomeForms == {form("pending", 2, 1), form("cancelled", 2, 1), form("pending", 2, 0)}

\* SumAmount is the sum of the amounts.
ASSUME \A f \in [1 .. 3 -> {-2, -1, 1, 2}] :
    LET units(sign) == {c \in (1 .. 3) \X (1 .. 2) : c[2] <= sign * f[c[1]]}
    IN  Cardinality(units(1)) - Cardinality(units(-1))
            = MapThenSumSet(LAMBDA t : f[t], 1 .. 3)
=============================================================================
