----------------------------- MODULE MCCharging -----------------------------
(* Small instances of Charging.                                            *)
EXTENDS Charging, TLC

CONSTANTS f1, f2, s1, s2

grant(o, percent, d) ==
    [exempt |-> FALSE, override |-> o, percent |-> percent, discount |-> d]

\* One fee at half its price, which leaves half a cent of an odd one and, for the
\* second student, less than nothing of a free one.  The other at an amount of the
\* first student's own, and waived for the second.
Grants == (<<f1, s1>> :> grant(None, 50, 0)) @@ (<<f1, s2>> :> grant(None, 50, 1)) @@
          (<<f2, s1>> :> grant(2, 0, 1)) @@
          (<<f2, s2>> :> [grant(None, 0, 0) EXCEPT !.exempt = TRUE])

Amounts == (f1 :> {0, 3}) @@ (f2 :> {2})

\* The office strikes an invoice off.
FormTotals == {0}

Symmetry == Permutations(Requests)
=============================================================================
