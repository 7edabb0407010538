---------------------------- MODULE ChargingProofs ----------------------------
(* Proofs about Charging: the calculation, typing, references, totals, and *)
(* what a generation or an assignment that ends well has done.             *)
EXTENDS Charging, FiniteSetTheorems, TLAPS

-----------------------------------------------------------------------------
(* The calculation.                                                        *)

LEMMA GrantTyped ==
  ASSUME NEW f \in Fees, NEW s \in Students
  PROVE  Concession[<<f, s>>] \in Concessions
  BY Granted DEF Assignments

LEMMA BaseIsNat ==
  ASSUME NEW c \in Concessions, NEW p \in Nat \cup {None},
         p # None \/ c.override # None
  PROVE  Base(c, p) \in Nat
  BY DEF Base, Concessions

LEMMA NetIsNat ==
  ASSUME NEW c \in Concessions, NEW p \in Nat \cup {None},
         c.exempt \/ p # None \/ c.override # None
  PROVE  Net(c, p) \in Nat
<1>1. CASE c.exempt
  BY <1>1 DEF Net
<1>2. CASE ~c.exempt
  <2>1. Base(c, p) \in Nat /\ c.discount \in Nat /\ c.percent \in Nat
    BY <1>2, BaseIsNat DEF Concessions
  <2> DEFINE left == 100 * (Base(c, p) - c.discount) - Base(c, p) * c.percent
  <2>2. left \in Int
    BY <2>1
  <2> QED
    BY <1>2, <2>2 DEF Net
<1> QED
  BY <1>1, <1>2

LEMMA RoundedIsNat == ASSUME NEW n \in Nat PROVE Rounded(n) \in Nat
  BY DEF Rounded

\* The two calculations of what a student owes for a fee agree, for every
\* concession and amount: what the page of the fee shows is what an invoice charges
\* (fee_assignment.rb:17-25, fee_calculation_service.rb:10-33).
THEOREM CalculationsAgree ==
  ASSUME NEW c \in Concessions, NEW p \in Nat
  PROVE  Net(c, p) = EffectiveAmount(c, p)
<1> DEFINE b == Base(c, p)
<1>1. b \in Nat /\ c.discount \in Nat /\ c.percent \in Nat
  BY BaseIsNat, NoneIsNothing DEF Concessions
<1>2. PICK q \in Nat : q = b * c.percent
  BY <1>1
<1>3. b = 0 => q = 0
  BY <1>1, <1>2
<1>4. Net(c, p) = IF c.exempt \/ 100 * (b - c.discount) - q < 0
                  THEN 0 ELSE 100 * (b - c.discount) - q
  BY <1>2 DEF Net
<1>5. EffectiveAmount(c, p) =
          IF c.exempt THEN 0
          ELSE IF b = 0 THEN b
          ELSE IF 100 * b - (100 * c.discount + q) > 0
               THEN 100 * b - (100 * c.discount + q) ELSE 0
  BY <1>2 DEF EffectiveAmount
<1> HIDE DEF b
<1> QED
  BY <1>1, <1>2, <1>3, <1>4, <1>5

\* Nobody is charged more than the amount of the fee, or than the student's own
\* (fee_calculation_service.rb:15-17).
THEOREM NetWithinBase ==
  ASSUME NEW c \in Concessions, NEW p \in Nat
  PROVE  Net(c, p) \in 0 .. 100 * Base(c, p)
<1> DEFINE b == Base(c, p)
<1>1. b \in Nat /\ c.discount \in Nat /\ c.percent \in Nat
  BY BaseIsNat, NoneIsNothing DEF Concessions
<1>2. PICK q \in Nat : q = b * c.percent
  BY <1>1
<1>3. Net(c, p) = IF c.exempt \/ 100 * (b - c.discount) - q < 0
                  THEN 0 ELSE 100 * (b - c.discount) - q
  BY <1>2 DEF Net
<1> HIDE DEF b
<1>4. Net(c, p) \in 0 .. 100 * b
  BY <1>1, <1>2, <1>3
<1> QED
  BY <1>4 DEF b

-----------------------------------------------------------------------------
(* Typing.                                                                 *)

\* What a request that stands at a step has found out by then.
Placed ==
    \A r \in Requests :
        /\ desk[r].at \in {"fees", "lines", "create"} => desk[r].student \in Students
        /\ desk[r].at \in {"pick", "create", "check", "destroy", "delete"} =>
               desk[r].fee \in issued
        /\ desk[r].at # "lines" => desk[r].lines = {} /\ desk[r].total = 0
        /\ desk[r].at \in {"new", "students", "fees", "lines"} =>
               desk[r].fee = None /\ desk[r].asked = {}
        /\ desk[r].at \notin {"students", "fees", "lines", "done"} => desk[r].owed = {}

Typed == TypeOK /\ Placed

LEMMA CostTyped ==
  ASSUME Typed, NEW r \in Requests, desk[r].at = "lines", NEW f \in desk[r].found,
         ~Raises(r, f)
  PROVE  /\ f \in Fees /\ desk[r].student \in Students
         /\ Cost(r, f) \in Nat /\ Rounded(Cost(r, f)) \in Nat
<1>1. f \in Fees /\ desk[r].student \in Students /\ desk[r].quote[f] \in Nat \cup {None}
  BY DEF Typed, TypeOK, Placed, Request
<1>2. Concession[<<f, desk[r].student>>] \in Concessions
  BY <1>1, GrantTyped
<1>3. \/ Concession[<<f, desk[r].student>>].exempt
      \/ desk[r].quote[f] # None
      \/ Concession[<<f, desk[r].student>>].override # None
  BY DEF Raises
<1>4. Cost(r, f) \in Nat
  BY <1>1, <1>2, <1>3, NetIsNat DEF Cost
<1> QED
  BY <1>1, <1>4, RoundedIsNat

LEMMA NewTyped == New \in Request
  BY DEF New, Request

LEMMA InitTyped == Init => Typed
  BY NewTyped DEF Init, Typed, TypeOK, Placed, New

\* What may become of a request without the tables being changed.
GoesOn(d) ==
    /\ d \in Request
    /\ d.fee \in issued \cup {None}
    /\ d.at \in {"fees", "lines", "create"} => d.student \in Students
    /\ d.at \in {"pick", "create", "check", "destroy", "delete"} => d.fee \in issued
    /\ d.at # "lines" => d.lines = {} /\ d.total = 0
    /\ d.at \in {"new", "students", "fees", "lines"} => d.fee = None /\ d.asked = {}
    /\ d.at \notin {"students", "fees", "lines", "done"} => d.owed = {}

LEMMA DeskTyped ==
  ASSUME Typed, NEW r \in Requests
  PROVE  desk[r] \in Request /\ GoesOn(desk[r])
  BY DEF Typed, TypeOK, Placed, GoesOn

LEMMA BecomeTyped ==
  ASSUME Typed, NEW r \in Requests, NEW d, GoesOn(d), Become(r, d),
         UNCHANGED tables, contended' \subseteq Fees
  PROVE  Typed'
<1>1. desk' \in [Requests -> Request] /\ \A q \in Requests : desk'[q] = IF q = r THEN d ELSE desk[q]
  BY DEF Become, Typed, TypeOK, GoesOn
<1> QED
  BY <1>1 DEF Typed, TypeOK, Placed, tables, GoesOn

\* The form of an invoice changes its total at most.
LEMMA EditedFields ==
  ASSUME TypeOK, NEW i \in invoices, NEW t \in Totals, UpdateInvoice(i, t)
  PROVE  \E j \in Invoice :
            /\ invoices' = (invoices \ {i}) \cup {j}
            /\ j.lines = i.lines /\ j.student = i.student
            /\ j.edited \/ (j.total = i.total /\ j.edited = i.edited)
<1>1. i \in Invoice /\ t \in Nat
  BY TotalsAreCents DEF TypeOK
<1> DEFINE e == i.edited \/ t # i.total
           j == [i EXCEPT !.total = t, !.edited = e]
<1>2. e \in BOOLEAN /\ (e \/ (t = i.total /\ e = i.edited))
  BY <1>1 DEF Invoice
<1>3. invoices' = (invoices \ {i}) \cup {j}
  BY DEF UpdateInvoice
<1> HIDE DEF e
<1>4. /\ j \in Invoice /\ j.lines = i.lines /\ j.student = i.student
      /\ j.total = t /\ j.edited = e
  BY <1>1, <1>2 DEF Invoice
<1> QED
  BY <1>2, <1>3, <1>4

LEMMA TypedStep == Typed /\ [Next]_vars => Typed'
<1> SUFFICES ASSUME Typed, [Next]_vars PROVE Typed'
  OBVIOUS
<1>0. TypeOK /\ Placed
  BY DEF Typed
<1>1. ASSUME NEW f \in Fees, NEW p \in Prices[f], CreateFee(f, p) \/ UpdateFee(f, p)
      PROVE  Typed'
  BY <1>0, <1>1, PricesAreCents DEF CreateFee, UpdateFee, Typed, TypeOK, Placed
<1>2. ASSUME NEW r \in Requests, NEW how \in {"done", "failed"}
      PROVE  GoesOn([New EXCEPT !.at = how])
  BY NewTyped DEF New, Request, GoesOn
<1>3. ASSUME NEW r \in Requests, Finish(r), UNCHANGED <<tables, contended>> PROVE Typed'
  <2>1. GoesOn([New EXCEPT !.at = "done", !.asked = desk[r].asked, !.fee = desk[r].fee,
                           !.owed = desk[r].owed])
    BY DeskTyped, NewTyped DEF New, Request, GoesOn
  <2> QED
    BY <1>0, <1>3, <2>1, BecomeTyped DEF Finish, TypeOK
<1>4. ASSUME NEW r \in Requests, desk[r].at = "check", Goto(r, "destroy"),
             UNCHANGED <<tables, contended>>
      PROVE  Typed'
  <2>1. GoesOn([desk[r] EXCEPT !.at = "destroy"])
    BY <1>4, DeskTyped DEF Request, GoesOn
  <2> QED
    BY <1>0, <1>4, <2>1, BecomeTyped DEF Goto, TypeOK
<1>5. ASSUME NEW r \in Requests, BeginBulk(r) PROVE Typed'
  <2>1. PICK ids \in Forms :
           /\ desk[r].at = "new"
           /\ Become(r, [desk[r] EXCEPT !.at = "students", !.left = ids,
                                        !.owed = {a \in assigned : a[2] \in ids}])
           /\ UNCHANGED <<tables, contended>>
    BY <1>5 DEF BeginBulk
  <2>2. {a \in assigned : a[2] \in ids} \in SUBSET Assignments
    BY <1>0 DEF TypeOK, Assignments
  <2>3. GoesOn([desk[r] EXCEPT !.at = "students", !.left = ids,
                               !.owed = {a \in assigned : a[2] \in ids}])
    BY <2>1, <2>2, DeskTyped, ZenonT(30) DEF Request, GoesOn, Forms
  <2> QED
    BY <1>0, <2>1, <2>3, BecomeTyped DEF TypeOK
<1>6. ASSUME NEW r \in Requests, FindAssignments(r) PROVE Typed'
  <2>1. PICK s \in desk[r].left : FindAssignments(r)!(s)
    BY <1>6 DEF FindAssignments
  <2> DEFINE found == {f \in Fees : <<f, s>> \in assigned}
  <2>2. desk[r].at = "students" /\ s \in Students /\ found \in SUBSET Fees
    BY <2>1, DeskTyped DEF Request
  <2>3. /\ GoesOn([desk[r] EXCEPT !.left = @ \ {s}])
        /\ GoesOn([desk[r] EXCEPT !.at = "fees", !.left = @ \ {s},
                                  !.student = s, !.found = found])
    BY <2>2, DeskTyped, ZenonT(30) DEF Request, GoesOn
  <2> QED
    BY <1>0, <2>1, <2>3, BecomeTyped DEF TypeOK
<1>7. ASSUME NEW r \in Requests, LoadFees(r) PROVE Typed'
  <2> DEFINE quote == [f \in Fees |-> IF f \in fees \cap desk[r].found THEN price[f]
                                                                     ELSE None]
  <2>1. quote \in [Fees -> Nat \cup {None}]
    BY <1>0 DEF TypeOK
  <2>2. Become(r, [desk[r] EXCEPT !.at = "lines", !.quote = quote])
    BY <1>7 DEF LoadFees
  <2> HIDE DEF quote
  <2>3. GoesOn([desk[r] EXCEPT !.at = "lines", !.quote = quote])
    BY <1>7, <2>1, DeskTyped, ZenonT(30) DEF Request, GoesOn, LoadFees
  <2> QED
    BY <1>0, <1>7, <2>2, <2>3, BecomeTyped DEF TypeOK, LoadFees
<1>8. ASSUME NEW r \in Requests, CreateLine(r) PROVE Typed'
  <2>1. PICK f \in desk[r].found : CreateLine(r)!(f)
    BY <1>8 DEF CreateLine
  <2> DEFINE lines == IF Cost(r, f) = 0 THEN desk[r].lines
                      ELSE desk[r].lines \cup {<<f, Rounded(Cost(r, f))>>}
             total == IF Cost(r, f) = 0 THEN desk[r].total
                      ELSE desk[r].total + Rounded(Cost(r, f))
  <2>2. f \in Fees /\ Rounded(Cost(r, f)) \in Nat /\ desk[r].at = "lines"
    BY <2>1, CostTyped
  <2>3. lines \in SUBSET Line /\ total \in Nat
    BY <2>2, DeskTyped DEF Request, Line
  <2>4. Become(r, [desk[r] EXCEPT !.found = @ \ {f}, !.lines = lines, !.total = total])
    BY <2>1
  <2> HIDE DEF lines, total
  <2>5. GoesOn([desk[r] EXCEPT !.found = @ \ {f}, !.lines = lines, !.total = total])
    BY <2>2, <2>3, DeskTyped, ZenonT(30) DEF Request, GoesOn
  <2> QED
    BY <1>0, <2>1, <2>4, <2>5, BecomeTyped DEF TypeOK
<1>9. ASSUME NEW r \in Requests, CommitInvoice(r) PROVE Typed'
  <2> DEFINE d == desk[r]
             owed == d.owed \ {<<l[1], d.student>> : l \in d.lines}
             next == [d EXCEPT !.at = "students", !.lines = {}, !.total = 0,
                               !.student = None, !.quote = New.quote, !.owed = owed]
             made == [run |-> r, student |-> d.student, lines |-> d.lines, total |-> d.total,
                      edited |-> FALSE]
  <2>1. Become(r, next) /\ invoices' = invoices \cup {made}
    BY <1>9 DEF CommitInvoice
  <2>2. owed \in SUBSET Assignments /\ New.quote \in [Fees -> Nat \cup {None}]
    BY DeskTyped DEF Request, New
  <2> HIDE DEF owed
  <2>7. next \in Request
    BY <2>2, DeskTyped, ZenonT(30) DEF Request
  <2>8. next.fee = d.fee /\ next.asked = d.asked /\ next.lines = {} /\ next.total = 0
        /\ next.at = "students"
    BY DeskTyped DEF Request
  <2>3. GoesOn(next)
    BY <1>9, <2>7, <2>8, DeskTyped DEF GoesOn, CommitInvoice
  <2>4. made \in Invoice
    BY <1>9, DeskTyped DEF CommitInvoice, GoesOn, Request, Invoice
  <2>5. \A q \in Requests : desk'[q] = IF q = r THEN next ELSE desk[q]
    BY <1>0, <2>1 DEF Become, TypeOK
  <2>6. desk' \in [Requests -> Request]
    BY <1>0, <2>1, <2>3 DEF Become, TypeOK, GoesOn
  <2> HIDE DEF next, made
  <2> QED
    BY <1>0, <1>9, <2>1, <2>3, <2>4, <2>5, <2>6
       DEF CommitInvoice, Typed, TypeOK, Placed, GoesOn
<1>10. ASSUME NEW i \in invoices, DestroyInvoice(i) PROVE Typed'
  BY <1>0, <1>10 DEF DestroyInvoice, Typed, TypeOK, Placed
<1>21. ASSUME NEW i \in invoices, NEW t \in Totals, UpdateInvoice(i, t) PROVE Typed'
  <2>1. UNCHANGED <<issued, fees, price, assigned, desk, contended>>
    BY <1>21 DEF UpdateInvoice
  <2>2. invoices' \subseteq Invoice
    BY <1>0, <1>21, EditedFields DEF TypeOK
  <2> QED
    BY <1>0, <2>1, <2>2 DEF Typed, TypeOK, Placed
<1>11. ASSUME NEW r \in Requests, NEW f \in Fees, NEW step \in {"pick", "check"},
              NEW ids \in SUBSET Students, OpenFee(r, f, step, ids)
       PROVE  Typed'
  <2>2. f \in issued /\ desk[r].at = "new"
    BY <1>0, <1>11 DEF OpenFee, TypeOK
  <2>3. [desk[r] EXCEPT !.at = step, !.fee = f, !.asked = ids, !.left = ids] \in Request
    BY <1>0, <1>11, DeskTyped DEF Request
  <2>1. GoesOn([desk[r] EXCEPT !.at = step, !.fee = f, !.asked = ids, !.left = ids])
    BY <1>11, <2>2, <2>3, DeskTyped DEF Request, GoesOn
  <2> QED
    BY <1>0, <1>11, <2>1, BecomeTyped DEF OpenFee, TypeOK
<1>12. ASSUME NEW r \in Requests, PickStudent(r) PROVE Typed'
  <2>1. PICK s \in desk[r].left : PickStudent(r)!(s)
    BY <1>12 DEF PickStudent
  <2>2. /\ GoesOn([desk[r] EXCEPT !.left = @ \ {s}])
        /\ GoesOn([desk[r] EXCEPT !.at = "create", !.left = @ \ {s}, !.student = s])
    BY <2>1, DeskTyped, ZenonT(30) DEF Request, GoesOn
  <2> QED
    BY <1>0, <2>1, <2>2, BecomeTyped DEF TypeOK
<1>13. ASSUME NEW r \in Requests, CreateAssignment(r) PROVE Typed'
  <2>1. PICK d : Become(r, d) /\ GoesOn(d)
    <3>1. GoesOn([desk[r] EXCEPT !.at = "pick", !.student = None])
      BY <1>13, DeskTyped, ZenonT(30) DEF CreateAssignment, Request, GoesOn
    <3> QED
      BY <1>2, <1>13, <3>1 DEF CreateAssignment, Leave
  <2>2. /\ desk' \in [Requests -> Request]
        /\ \A q \in Requests : desk'[q] = IF q = r THEN d ELSE desk[q]
    BY <1>0, <2>1 DEF Become, TypeOK, GoesOn
  <2>3. assigned' \subseteq issued \X Students
    BY <1>0, <1>13, DeskTyped DEF CreateAssignment, TypeOK, GoesOn
  <2> QED
    BY <1>0, <1>13, <2>1, <2>2, <2>3 DEF CreateAssignment, Typed, TypeOK, Placed, GoesOn
<1>14. ASSUME NEW r \in Requests, LoadDependents(r) PROVE Typed'
  <2>1. GoesOn([desk[r] EXCEPT !.at = "delete",
                   !.left = {s \in Students : <<desk[r].fee, s>> \in assigned}])
    BY <1>14, DeskTyped, ZenonT(30) DEF LoadDependents, Request, GoesOn
  <2> QED
    BY <1>0, <1>14, <2>1, BecomeTyped DEF LoadDependents, TypeOK
<1>15. ASSUME NEW r \in Requests, DeleteFee(r) PROVE Typed'
  <2>1. /\ UNCHANGED <<issued, price, invoices, contended>>
        /\ assigned' \subseteq assigned /\ fees' \subseteq fees
        /\ \E how \in {"done", "failed"} : Leave(r, how)
    BY <1>15 DEF DeleteFee
  <2>2. PICK d : Become(r, d) /\ GoesOn(d)
    BY <1>2, <2>1 DEF Leave
  <2>3. /\ desk' \in [Requests -> Request]
        /\ \A q \in Requests : desk'[q] = IF q = r THEN d ELSE desk[q]
    BY <1>0, <2>2 DEF Become, TypeOK, GoesOn
  <2> QED
    BY <1>0, <2>1, <2>2, <2>3 DEF Typed, TypeOK, Placed, GoesOn
<1>16. CASE UNCHANGED vars
  BY <1>0, <1>16 DEF vars, Typed, TypeOK, Placed
<1>20. ASSUME NEW r \in Requests, NEW how \in {"done", "failed"},
              Leave(r, how), UNCHANGED <<tables, contended>>
       PROVE  Typed'
  BY <1>0, <1>2, <1>20, BecomeTyped DEF Leave, TypeOK
<1>17. ASSUME NEW r \in Requests, Bulk(r) PROVE Typed'
  BY <1>3, <1>5, <1>6, <1>7, <1>8, <1>9, <1>17, <1>20 DEF Bulk, CannotBill, EndBulk
<1>18. ASSUME NEW r \in Requests, Assign(r) \/ Destroy(r) PROVE Typed'
  BY <1>3, <1>4, <1>11, <1>12, <1>13, <1>14, <1>15, <1>18, <1>20
     DEF Assign, Destroy, BeginAssign, EndAssign, BeginDestroy, CheckUnassigned, Forms
<1>19. ASSUME NEW r \in Requests, Fail(r) PROVE Typed'
  BY <1>19, <1>20 DEF Fail
<1> QED
  BY <1>1, <1>10, <1>16, <1>17, <1>18, <1>19, <1>21 DEF Next, Rest

\* The tables, the requests and the lines they write keep their types, for any
\* fees, students, prices and concessions.
THEOREM Typing == Spec => []TypeOK
<1>1. Typed => TypeOK
  BY DEF Typed
<1> QED
  BY <1>1, InitTyped, TypedStep, PTL DEF Spec

-----------------------------------------------------------------------------
(* Steps, as the invariants below see them.                                *)

LEMMA Became ==
  ASSUME TypeOK, NEW r \in Requests, NEW d, Become(r, d)
  PROVE  \A q \in Requests : desk'[q] = IF q = r THEN d ELSE desk[q]
  BY DEF Become, TypeOK

\* A step of r that leaves the tables, and r without lines.
Quiet(r) == UNCHANGED tables /\ \E d : Become(r, d) /\ d.at # "lines"

LEMMA QuietSteps ==
  ASSUME Typed, NEW r \in Requests,
         \/ BeginBulk(r) \/ FindAssignments(r) \/ CannotBill(r) \/ EndBulk(r)
         \/ BeginAssign(r) \/ PickStudent(r) \/ EndAssign(r)
         \/ BeginDestroy(r) \/ CheckUnassigned(r) \/ LoadDependents(r) \/ Fail(r)
  PROVE  Quiet(r)
<1>0. desk[r] \in Request
  BY DeskTyped
<1>1. CASE BeginBulk(r)
  <2>1. PICK ids \in Forms :
           /\ Become(r, [desk[r] EXCEPT !.at = "students", !.left = ids,
                                        !.owed = {a \in assigned : a[2] \in ids}])
           /\ UNCHANGED tables
    BY <1>1 DEF BeginBulk
  <2> DEFINE owed == {a \in assigned : a[2] \in ids}
  <2>2. [desk[r] EXCEPT !.at = "students", !.left = ids, !.owed = owed].at = "students"
    BY <1>0 DEF Request
  <2> QED
    BY <2>1, <2>2 DEF Quiet
<1>2. CASE FindAssignments(r)
  <2>1. PICK s \in desk[r].left : FindAssignments(r)!(s)
    BY <1>2 DEF FindAssignments
  <2> DEFINE found == {f \in Fees : <<f, s>> \in assigned}
  <2>2. /\ [desk[r] EXCEPT !.left = @ \ {s}].at = desk[r].at
        /\ [desk[r] EXCEPT !.at = "fees", !.left = @ \ {s}, !.student = s,
                           !.found = found].at = "fees"
    BY <1>0 DEF Request
  <2> QED
    BY <2>1, <2>2 DEF Quiet
<1>3. CASE CannotBill(r) \/ Fail(r)
  <2>1. [New EXCEPT !.at = "failed"].at = "failed"
    BY DEF New
  <2> QED
    BY <1>3, <2>1 DEF CannotBill, Fail, Leave, Quiet
<1>4. CASE EndBulk(r) \/ EndAssign(r)
  <2>1. [New EXCEPT !.at = "done", !.asked = desk[r].asked, !.fee = desk[r].fee,
                    !.owed = desk[r].owed].at = "done"
    BY DEF New
  <2> QED
    BY <1>4, <2>1 DEF EndBulk, EndAssign, Finish, Quiet
<1>5. ASSUME NEW f, NEW ids, NEW step \in {"pick", "check"}, OpenFee(r, f, step, ids)
      PROVE  Quiet(r)
  <2>1. [desk[r] EXCEPT !.at = step, !.fee = f, !.asked = ids, !.left = ids].at = step
    BY <1>0 DEF Request
  <2> QED
    BY <1>5, <2>1 DEF OpenFee, Quiet
<1>6. CASE PickStudent(r)
  <2>1. PICK s \in desk[r].left : PickStudent(r)!(s)
    BY <1>6 DEF PickStudent
  <2>2. /\ [desk[r] EXCEPT !.left = @ \ {s}].at = desk[r].at
        /\ [desk[r] EXCEPT !.at = "create", !.left = @ \ {s}, !.student = s].at = "create"
    BY <1>0 DEF Request
  <2> QED
    BY <2>1, <2>2 DEF Quiet
<1>7. CASE CheckUnassigned(r)
  <2>1. [desk[r] EXCEPT !.at = "destroy"].at = "destroy" /\ [New EXCEPT !.at = "done"].at = "done"
    BY <1>0 DEF Request, New
  <2> QED
    BY <1>7, <2>1 DEF CheckUnassigned, Goto, Leave, Quiet
<1>8. CASE LoadDependents(r)
  <2>1. [desk[r] EXCEPT !.at = "delete",
                        !.left = {s \in Students : <<desk[r].fee, s>> \in assigned}].at = "delete"
    BY <1>0 DEF Request
  <2> QED
    BY <1>8, <2>1 DEF LoadDependents, Quiet
<1> QED
  BY <1>1, <1>2, <1>3, <1>4, <1>5, <1>6, <1>7, <1>8 DEF BeginAssign, BeginDestroy

\* What CreateLine makes of the lines.
LEMMA LineOrNothing ==
  ASSUME Typed, NEW r \in Requests, CreateLine(r)
  PROVE  \E f \in desk[r].found :
           /\ f \in Fees /\ desk[r].at = "lines" /\ ~Raises(r, f)
           /\ Cost(r, f) \in Nat /\ Rounded(Cost(r, f)) \in Nat
           /\ desk'[r].found = desk[r].found \ {f}
           /\ desk'[r].lines = IF Cost(r, f) = 0 THEN desk[r].lines
                               ELSE desk[r].lines \cup {<<f, Rounded(Cost(r, f))>>}
           /\ desk'[r].total = IF Cost(r, f) = 0 THEN desk[r].total
                               ELSE desk[r].total + Rounded(Cost(r, f))
           /\ \A q \in Requests \ {r} : desk'[q] = desk[q]
           /\ desk'[r].at = "lines" /\ desk'[r].student = desk[r].student
           /\ desk'[r].left = desk[r].left /\ desk'[r].owed = desk[r].owed
           /\ desk'[r].quote = desk[r].quote
<1>1. PICK f \in desk[r].found : CreateLine(r)!(f)
  BY DEF CreateLine
<1>2. f \in Fees /\ Cost(r, f) \in Nat /\ Rounded(Cost(r, f)) \in Nat
  BY <1>1, CostTyped
<1> DEFINE lines == IF Cost(r, f) = 0 THEN desk[r].lines
                    ELSE desk[r].lines \cup {<<f, Rounded(Cost(r, f))>>}
           total == IF Cost(r, f) = 0 THEN desk[r].total
                    ELSE desk[r].total + Rounded(Cost(r, f))
           d == [desk[r] EXCEPT !.found = @ \ {f}, !.lines = lines, !.total = total]
<1>3. \A q \in Requests : desk'[q] = IF q = r THEN d ELSE desk[q]
  BY <1>1, Became DEF Typed
<1> HIDE DEF lines, total
<1>4. /\ d.found = desk[r].found \ {f} /\ d.lines = lines /\ d.total = total
      /\ d.at = desk[r].at /\ d.student = desk[r].student
      /\ d.left = desk[r].left /\ d.owed = desk[r].owed /\ d.quote = desk[r].quote
  BY DeskTyped DEF Request
<1> QED
  BY <1>1, <1>2, <1>3, <1>4 DEF lines, total

-----------------------------------------------------------------------------
(* References.                                                             *)

\* The lines a transaction has written refer to assignments that exist: it
\* locks them until it commits.
Locks == Held \subseteq assigned

Referring == Typed /\ ReferencesLive /\ Locks

LEMMA HeldLines ==
  Held \subseteq assigned <=>
      \A r \in Requests : desk[r].at = "lines" =>
          \A l \in desk[r].lines : <<l[1], desk[r].student>> \in assigned
  BY DEF Held

LEMMA ReferringStep == Referring /\ [Next]_vars => Referring'
<1> SUFFICES ASSUME Referring, [Next]_vars PROVE Referring'
  OBVIOUS
<1>0. Typed /\ Typed' /\ ReferencesLive /\ Locks /\ TypeOK
  BY TypedStep DEF Referring, Typed
<1>1. \A r \in Requests : desk[r].at = "lines" =>
          \A l \in desk[r].lines : <<l[1], desk[r].student>> \in assigned
  BY <1>0, HeldLines DEF Locks
<1> DEFINE LocksNext == \A r \in Requests : desk'[r].at = "lines" =>
                \A l \in desk'[r].lines : <<l[1], desk'[r].student>> \in assigned'
<1>2. ASSUME LocksNext, ReferencesLive' PROVE Referring'
  <2>1. Locks'
    BY <1>2 DEF Locks, Held
  <2> QED
    BY <1>0, <1>2, <2>1 DEF Referring
<1> HIDE DEF LocksNext
<1>3. ASSUME NEW f \in Fees, NEW p \in Prices[f], CreateFee(f, p) \/ UpdateFee(f, p)
      PROVE  Referring'
  <2>1. fees \subseteq fees' /\ UNCHANGED <<assigned, invoices, desk>>
    BY <1>3 DEF CreateFee, UpdateFee
  <2> QED
    BY <1>0, <1>1, <1>2, <2>1 DEF ReferencesLive, Billed, LocksNext
<1>4. ASSUME NEW r \in Requests, Quiet(r) PROVE Referring'
  <2>1. PICK d : Become(r, d) /\ d.at # "lines"
    BY <1>4 DEF Quiet
  <2>2. LocksNext
    BY <1>0, <1>1, <1>4, <2>1, Became DEF LocksNext, Quiet, tables
  <2> QED
    BY <1>0, <1>2, <1>4, <2>2 DEF ReferencesLive, Billed, Quiet, tables
<1>5. ASSUME NEW r \in Requests, LoadFees(r) PROVE Referring'
  <2> DEFINE quote == [f \in Fees |-> IF f \in fees \cap desk[r].found THEN price[f]
                                                                     ELSE None]
             d == [desk[r] EXCEPT !.at = "lines", !.quote = quote]
  <2>4. Become(r, d)
    BY <1>5 DEF LoadFees
  <2> HIDE DEF quote
  <2>3. d.lines = {}
    <3>1. desk[r].lines = {}
      BY <1>0, <1>5, DeskTyped DEF LoadFees, GoesOn
    <3>2. d.lines = desk[r].lines
      BY <1>0, DeskTyped DEF Request
    <3> QED
      BY <3>1, <3>2
  <2> HIDE DEF d
  <2>1. desk'[r].lines = {} /\ \A q \in Requests \ {r} : desk'[q] = desk[q]
    BY <1>0, <2>3, <2>4, Became
  <2>2. UNCHANGED tables
    BY <1>5 DEF LoadFees
  <2> QED
    BY <1>0, <1>1, <1>2, <2>1, <2>2 DEF ReferencesLive, Billed, LocksNext, tables
<1>6. ASSUME NEW r \in Requests, CreateLine(r) PROVE Referring'
  <2>1. UNCHANGED tables
    BY <1>6 DEF CreateLine
  <2>2. PICK f \in desk[r].found :
           /\ desk[r].at = "lines" /\ ~Raises(r, f) /\ Cost(r, f) \in Nat
           /\ desk'[r].lines = IF Cost(r, f) = 0 THEN desk[r].lines
                               ELSE desk[r].lines \cup {<<f, Rounded(Cost(r, f))>>}
           /\ \A q \in Requests \ {r} : desk'[q] = desk[q]
           /\ desk'[r].at = "lines" /\ desk'[r].student = desk[r].student
    BY <1>0, <1>6, LineOrNothing
  <2>3. ASSUME Cost(r, f) # 0 PROVE <<f, desk[r].student>> \in assigned
    <3>1. ~Concession[<<f, desk[r].student>>].exempt
      BY <2>3 DEF Cost, Net
    <3> QED
      BY <2>2, <2>3, <3>1 DEF Raises
  <2>4. \A l \in desk'[r].lines : <<l[1], desk'[r].student>> \in assigned
    BY <1>1, <2>2, <2>3
  <2>5. LocksNext
    BY <1>1, <2>1, <2>2, <2>4 DEF LocksNext, tables
  <2> QED
    BY <1>0, <1>2, <2>1, <2>5 DEF ReferencesLive, Billed, tables
<1>7. ASSUME NEW r \in Requests, CommitInvoice(r) PROVE Referring'
  <2> DEFINE made == [run |-> r, student |-> desk[r].student, lines |-> desk[r].lines,
                      total |-> desk[r].total, edited |-> FALSE]
  <2>1. invoices' = invoices \cup {made} /\ UNCHANGED <<issued, fees, price, assigned>>
    BY <1>7 DEF CommitInvoice
  <2>2. \A l \in made.lines : <<l[1], made.student>> \in assigned
    BY <1>1, <1>7 DEF CommitInvoice
  <2> HIDE DEF made
  <2>3. ReferencesLive'
    BY <1>0, <2>1, <2>2 DEF ReferencesLive, Billed
  <2> DEFINE d == [desk[r] EXCEPT
           !.at = "students", !.lines = {}, !.total = 0, !.student = None,
           !.quote = New.quote,
           !.owed = @ \ {<<l[1], desk[r].student>> : l \in desk[r].lines}]
  <2>5. d.at = "students"
    BY DeskTyped DEF Request
  <2>6. Become(r, d)
    BY <1>7 DEF CommitInvoice
  <2> HIDE DEF d
  <2>4. desk'[r].at = "students" /\ \A q \in Requests \ {r} : desk'[q] = desk[q]
    BY <1>0, <2>5, <2>6, Became
  <2> QED
    BY <1>1, <1>2, <2>1, <2>3, <2>4 DEF LocksNext
<1>8. ASSUME NEW i \in invoices, DestroyInvoice(i) PROVE Referring'
  BY <1>0, <1>1, <1>2, <1>8 DEF DestroyInvoice, ReferencesLive, Billed, LocksNext
<1>12. ASSUME NEW i \in invoices, NEW t \in Totals, UpdateInvoice(i, t) PROVE Referring'
  <2>1. UNCHANGED <<fees, assigned, desk>>
    BY <1>12 DEF UpdateInvoice
  <2>2. ReferencesLive'
    BY <1>0, <1>12, <2>1, EditedFields DEF ReferencesLive, Billed
  <2> QED
    BY <1>1, <1>2, <2>1, <2>2 DEF LocksNext
<1>9. ASSUME NEW r \in Requests, CreateAssignment(r) PROVE Referring'
  <2>1. /\ assigned \subseteq assigned' /\ \A a \in assigned' \ assigned : a[1] \in fees
        /\ UNCHANGED <<issued, fees, price, invoices>>
    BY <1>9 DEF CreateAssignment
  <2>2. desk'[r].at # "lines" /\ \A q \in Requests \ {r} : desk'[q] = desk[q]
    <3>1. /\ [New EXCEPT !.at = "failed"].at = "failed"
          /\ [desk[r] EXCEPT !.at = "pick", !.student = None].at = "pick"
      BY DeskTyped DEF New, Request
    <3> QED
      BY <1>0, <1>9, <3>1, Became DEF CreateAssignment, Leave
  <2>3. LocksNext
    BY <1>1, <2>1, <2>2 DEF LocksNext
  <2> QED
    BY <1>0, <1>2, <2>1, <2>3 DEF ReferencesLive, Billed
<1>10. ASSUME NEW r \in Requests, DeleteFee(r) PROVE Referring'
  <2>1. desk'[r].at # "lines" /\ \A q \in Requests \ {r} : desk'[q] = desk[q]
    BY <1>0, <1>10, Became DEF DeleteFee, Leave, New
  <2>2. CASE UNCHANGED <<assigned, fees>>
    BY <1>0, <1>1, <1>2, <1>10, <2>1, <2>2 DEF DeleteFee, ReferencesLive, Billed, LocksNext
  <2>3. CASE /\ Doomed(r) \cap Billed = {} /\ AssignmentsOf(desk[r].fee) \subseteq Doomed(r)
             /\ assigned' = assigned \ Doomed(r) /\ fees' = fees \ {desk[r].fee}
    <3>1. ReferencesLive'
      BY <1>0, <1>10, <2>3 DEF DeleteFee, ReferencesLive, Billed, AssignmentsOf
    <3>2. Doomed(r) \cap Held = {}
      BY <1>10 DEF DeleteFee
    <3>3. LocksNext
      BY <1>1, <2>1, <2>3, <3>2 DEF LocksNext, Held
    <3> QED
      BY <1>2, <3>1, <3>3
  <2> QED
    BY <1>10, <2>2, <2>3 DEF DeleteFee
<1>11. CASE UNCHANGED vars
  BY <1>0, <1>1, <1>2, <1>11 DEF vars, ReferencesLive, Billed, LocksNext
<1> QED
  BY <1>0, <1>3, <1>4, <1>5, <1>6, <1>7, <1>8, <1>9, <1>10, <1>11, <1>12, QuietSteps
     DEF Next, Bulk, Assign, Destroy, Rest

\* No line, and no assignment, is ever left referring to what was deleted: the row
\* locks that the lines of an open transaction hold make a deletion wait until
\* they can be seen (schema.rb:354, 356; invoice_generation_service.rb:24-49).
THEOREM NoDanglingLine == Spec => []ReferencesLive
<1>1. Init => Referring
  BY InitTyped DEF Init, New, Referring, ReferencesLive, Billed, Locks, Held
<1>2. Referring => ReferencesLive
  BY DEF Referring
<1> QED
  BY <1>1, <1>2, ReferringStep, PTL DEF Spec

-----------------------------------------------------------------------------
(* Totals.                                                                 *)

\* One line more adds as many cents as its amount.
LEMMA CentsOfOneMore ==
  ASSUME NEW lines \in SUBSET Line, NEW f \in Fees, NEW n \in Nat,
         IsFiniteSet(Cents(lines)), \A l \in lines : l[1] # f
  PROVE  /\ IsFiniteSet(Cents(lines \cup {<<f, n>>}))
         /\ Cardinality(Cents(lines \cup {<<f, n>>})) = Cardinality(Cents(lines)) + n
<1> DEFINE new == <<f, n>>
           cents == {<<new, k>> : k \in 1 .. n}
           count == [k \in 1 .. n |-> <<new, k>>]
<1>1. count \in Bijection(1 .. n, cents)
  BY DEF Bijection, Injection, Surjection, IsInjective
<1>2. IsFiniteSet(cents) /\ Cardinality(cents) = n
  <2>1. IsFiniteSet(1 .. n) /\ Cardinality(1 .. n) = n
    BY FS_Interval
  <2>2. ExistsBijection(1 .. n, cents)
    BY <1>1 DEF ExistsBijection
  <2> HIDE DEF cents
  <2> QED
    BY <2>1, <2>2, FS_Bijection
<1>3. new \notin lines /\ new[2] = n
  OBVIOUS
<1> HIDE DEF new
<1>4. Cents(lines \cup {new}) = Cents(lines) \cup cents
  BY <1>3 DEF Cents
<1>5. Cents(lines) \cap cents = {}
  BY <1>3 DEF Cents
<1> HIDE DEF cents
<1>6. Cardinality(Cents(lines)) \in Nat /\ Cardinality({}) = 0
  BY FS_CardinalityType, FS_EmptySet
<1>7. Cardinality(Cents(lines) \cup cents)
          = Cardinality(Cents(lines)) + Cardinality(cents) - Cardinality(Cents(lines) \cap cents)
      /\ IsFiniteSet(Cents(lines) \cup cents)
  BY <1>2, FS_Union
<1>8. Cardinality(Cents(lines) \cap cents) = 0
  BY <1>5, <1>6, Zenon
<1>9. Cardinality(Cents(lines) \cup cents) = Cardinality(Cents(lines)) + n
  <2> DEFINE both == Cardinality(Cents(lines) \cup cents)
             common == Cardinality(Cents(lines) \cap cents)
  <2>1. both = Cardinality(Cents(lines)) + Cardinality(cents) - common /\ common = 0
    BY <1>7, <1>8
  <2> HIDE DEF both, common
  <2>2. both = Cardinality(Cents(lines)) + n
    BY <1>2, <1>6, <2>1
  <2> QED
    BY <2>2 DEF both
<1> QED
  BY <1>4, <1>7, <1>9, Zenon DEF new

\* A request's running total is that of the lines it has written, one line for
\* each fee it has come to and none for those it has not.
Drafted ==
    \A r \in Requests :
        desk[r].at = "lines" =>
            /\ IsFiniteSet(Cents(desk[r].lines))
            /\ desk[r].total = Cardinality(Cents(desk[r].lines))
            /\ \A k, l \in desk[r].lines : k[1] = l[1] => k = l
            /\ \A l \in desk[r].lines : l[1] \notin desk[r].found

Totalled == Typed /\ TotalsMatchLines /\ Drafted

LEMMA NoCents == IsFiniteSet(Cents({})) /\ Cardinality(Cents({})) = 0
<1>1. Cents({}) = {}
  BY DEF Cents
<1> QED
  BY <1>1, FS_EmptySet

LEMMA TotalledStep == Totalled /\ [Next]_vars => Totalled'
<1> SUFFICES ASSUME Totalled, [Next]_vars PROVE Totalled'
  OBVIOUS
<1>0. Typed /\ Typed' /\ TotalsMatchLines /\ Drafted /\ TypeOK
  BY TypedStep DEF Totalled, Typed
<1>1. ASSUME UNCHANGED <<invoices, desk>> PROVE Totalled'
  BY <1>0, <1>1 DEF Totalled, TotalsMatchLines, Drafted
<1>2. ASSUME NEW r \in Requests, invoices' = invoices, desk'[r].at # "lines",
             \A q \in Requests \ {r} : desk'[q] = desk[q]
      PROVE  Totalled'
  BY <1>0, <1>2 DEF Totalled, TotalsMatchLines, Drafted
<1>3. ASSUME NEW r \in Requests, Quiet(r) PROVE Totalled'
  BY <1>0, <1>2, <1>3, Became DEF Quiet, tables
<1>4. ASSUME NEW r \in Requests, LoadFees(r) PROVE Totalled'
  <2> DEFINE quote == [f \in Fees |-> IF f \in fees \cap desk[r].found THEN price[f]
                                                                     ELSE None]
             d == [desk[r] EXCEPT !.at = "lines", !.quote = quote]
  <2>1. Become(r, d) /\ invoices' = invoices
    BY <1>4 DEF LoadFees, tables
  <2> HIDE DEF quote
  <2>2. d.lines = desk[r].lines /\ d.total = desk[r].total
    BY <1>0, DeskTyped DEF Request
  <2>3. d.lines = {} /\ d.total = 0
    BY <1>0, <1>4, <2>2, DeskTyped DEF LoadFees, GoesOn
  <2> HIDE DEF d
  <2>4. Drafted'
    BY <1>0, <2>1, <2>3, Became, NoCents DEF Drafted
  <2> QED
    BY <1>0, <2>1, <2>4 DEF Totalled, TotalsMatchLines
<1>5. ASSUME NEW r \in Requests, CreateLine(r) PROVE Totalled'
  <2>1. invoices' = invoices
    BY <1>5 DEF CreateLine, tables
  <2>2. PICK f \in desk[r].found :
           /\ f \in Fees /\ desk[r].at = "lines" /\ Rounded(Cost(r, f)) \in Nat
           /\ desk'[r].found = desk[r].found \ {f}
           /\ desk'[r].lines = IF Cost(r, f) = 0 THEN desk[r].lines
                               ELSE desk[r].lines \cup {<<f, Rounded(Cost(r, f))>>}
           /\ desk'[r].total = IF Cost(r, f) = 0 THEN desk[r].total
                               ELSE desk[r].total + Rounded(Cost(r, f))
           /\ \A q \in Requests \ {r} : desk'[q] = desk[q]
    BY <1>0, <1>5, LineOrNothing
  <2>3. /\ desk[r].lines \in SUBSET Line /\ IsFiniteSet(Cents(desk[r].lines))
        /\ desk[r].total = Cardinality(Cents(desk[r].lines))
        /\ \A k, l \in desk[r].lines : k[1] = l[1] => k = l
        /\ \A l \in desk[r].lines : l[1] \notin desk[r].found
    BY <1>0, <2>2, DeskTyped DEF Drafted, Request
  <2>4. /\ IsFiniteSet(Cents(desk'[r].lines))
        /\ desk'[r].total = Cardinality(Cents(desk'[r].lines))
    BY <2>2, <2>3, CentsOfOneMore
  <2>5. /\ \A k, l \in desk'[r].lines : k[1] = l[1] => k = l
        /\ \A l \in desk'[r].lines : l[1] \notin desk'[r].found
    BY <2>2, <2>3
  <2> QED
    BY <1>0, <2>1, <2>2, <2>4, <2>5 DEF Totalled, TotalsMatchLines, Drafted
<1>6. ASSUME NEW r \in Requests, CommitInvoice(r) PROVE Totalled'
  <2> DEFINE made == [run |-> r, student |-> desk[r].student, lines |-> desk[r].lines,
                      total |-> desk[r].total, edited |-> FALSE]
             d == [desk[r] EXCEPT
           !.at = "students", !.lines = {}, !.total = 0, !.student = None,
           !.quote = New.quote,
           !.owed = @ \ {<<l[1], desk[r].student>> : l \in desk[r].lines}]
  <2>1. invoices' = invoices \cup {made} /\ Become(r, d)
    BY <1>6 DEF CommitInvoice
  <2>2. d.at = "students"
    BY DeskTyped, <1>0 DEF Request
  <2>3. /\ made.total = Cardinality(Cents(made.lines))
        /\ \A k, l \in made.lines : k[1] = l[1] => k = l
    BY <1>0, <1>6 DEF Drafted, CommitInvoice
  <2> HIDE DEF made, d
  <2>4. TotalsMatchLines'
    BY <1>0, <2>1, <2>3 DEF TotalsMatchLines
  <2>5. Drafted'
    BY <1>0, <2>1, <2>2, Became DEF Drafted
  <2> QED
    BY <1>0, <2>4, <2>5 DEF Totalled
<1>7. ASSUME NEW i \in invoices, DestroyInvoice(i) PROVE Totalled'
  BY <1>0, <1>7 DEF DestroyInvoice, Totalled, TotalsMatchLines, Drafted
<1>9. ASSUME NEW i \in invoices, NEW t \in Totals, UpdateInvoice(i, t) PROVE Totalled'
  <2>1. desk' = desk
    BY <1>9 DEF UpdateInvoice
  <2>2. TotalsMatchLines'
    BY <1>0, <1>9, EditedFields DEF TotalsMatchLines
  <2> QED
    BY <1>0, <2>1, <2>2 DEF Totalled, Drafted
<1>8. ASSUME NEW r \in Requests, CreateAssignment(r) \/ DeleteFee(r) PROVE Totalled'
  <2>1. /\ [New EXCEPT !.at = "failed"].at = "failed" /\ [New EXCEPT !.at = "done"].at = "done"
        /\ [desk[r] EXCEPT !.at = "pick", !.student = None].at = "pick"
    BY <1>0, DeskTyped DEF New, Request
  <2> QED
    BY <1>0, <1>2, <1>8, <2>1, Became DEF CreateAssignment, DeleteFee, Leave
<1> QED
  BY <1>0, <1>1, <1>3, <1>4, <1>5, <1>6, <1>7, <1>8, <1>9, QuietSteps
     DEF Next, Bulk, Assign, Destroy, Rest, CreateFee, UpdateFee, vars

\* The total of every generated invoice is that of its stored lines, to the cent,
\* whatever the fees, concessions and changes of price, until the office types another
\* (invoices_controller.rb:61); what is typed never gives a fee two lines
\* (invoice_generation_service.rb:33-48, invoice_line_item.rb:15).
THEOREM TotalsAdd == Spec => []TotalsMatchLines
<1>1. Init => Totalled
  BY InitTyped DEF Init, New, Totalled, TotalsMatchLines, Drafted
<1>2. Totalled => TotalsMatchLines
  BY DEF Totalled
<1> QED
  BY <1>1, <1>2, TotalledStep, PTL DEF Spec

-----------------------------------------------------------------------------
(* Steps, field by field.                                                  *)

Others(r) == \A q \in Requests \ {r} : desk'[q] = desk[q]

LEMMA Turned ==
  ASSUME Typed, NEW r \in Requests, NEW d, Become(r, d)
  PROVE  desk'[r] = d /\ Others(r) /\ desk[r] \in Request
  BY Became, DeskTyped DEF Typed, Others

LEMMA LeaveFields ==
  ASSUME Typed, NEW r \in Requests, NEW how \in {"done", "failed"}, Leave(r, how)
  PROVE  /\ desk'[r].at = how /\ desk'[r].fee = None /\ desk'[r].asked = {}
         /\ desk'[r].left = {} /\ desk'[r].owed = {} /\ Others(r)
  BY Became DEF Typed, Leave, New, Others

LEMMA FinishFields ==
  ASSUME Typed, NEW r \in Requests, Finish(r)
  PROVE  /\ desk'[r].at = "done" /\ desk'[r].fee = desk[r].fee
         /\ desk'[r].asked = desk[r].asked /\ desk'[r].left = {}
         /\ desk'[r].owed = desk[r].owed /\ Others(r)
<1> DEFINE d == [New EXCEPT !.at = "done", !.asked = desk[r].asked, !.fee = desk[r].fee,
                            !.owed = desk[r].owed]
<1>1. /\ d.at = "done" /\ d.fee = desk[r].fee /\ d.asked = desk[r].asked /\ d.left = {}
      /\ d.owed = desk[r].owed
  BY DEF New
<1>2. desk'[r] = d /\ Others(r)
  BY Turned DEF Finish
<1> QED
  BY <1>1, <1>2

LEMMA OpenFields ==
  ASSUME Typed, NEW r \in Requests, NEW f, NEW step, NEW ids, OpenFee(r, f, step, ids)
  PROVE  /\ desk'[r].at = step /\ desk'[r].fee = f /\ desk'[r].asked = ids
         /\ desk'[r].left = ids /\ desk'[r].owed = desk[r].owed /\ Others(r)
<1> DEFINE d == [desk[r] EXCEPT !.at = step, !.fee = f, !.asked = ids, !.left = ids]
<1>1. desk'[r] = d /\ Others(r) /\ desk[r] \in Request
  BY Turned DEF OpenFee
<1>2. d.at = step /\ d.fee = f /\ d.asked = ids /\ d.left = ids /\ d.owed = desk[r].owed
  BY <1>1 DEF Request
<1> QED
  BY <1>1, <1>2

LEMMA PickFields ==
  ASSUME Typed, NEW r \in Requests, PickStudent(r)
  PROVE  \E s \in desk[r].left :
           /\ desk'[r].fee = desk[r].fee /\ desk'[r].asked = desk[r].asked
           /\ desk'[r].left = desk[r].left \ {s} /\ desk'[r].owed = desk[r].owed
           /\ Others(r)
           /\ \/ <<desk[r].fee, s>> \in assigned /\ desk'[r].at = "pick"
              \/ desk'[r].at = "create" /\ desk'[r].student = s
<1>1. PICK s \in desk[r].left : PickStudent(r)!(s)
  BY DEF PickStudent
<1> DEFINE d == [desk[r] EXCEPT !.left = @ \ {s}]
           e == [desk[r] EXCEPT !.at = "create", !.left = @ \ {s}, !.student = s]
<1>2. desk[r] \in Request /\ desk[r].at = "pick"
  BY <1>1, DeskTyped
<1>3. /\ d.at = "pick" /\ d.fee = desk[r].fee /\ d.asked = desk[r].asked
      /\ d.left = desk[r].left \ {s} /\ d.owed = desk[r].owed
  BY <1>2 DEF Request
<1>4. /\ e.at = "create" /\ e.fee = desk[r].fee /\ e.asked = desk[r].asked
      /\ e.left = desk[r].left \ {s} /\ e.owed = desk[r].owed /\ e.student = s
  BY <1>2 DEF Request
<1>5. \/ <<desk[r].fee, s>> \in assigned /\ Become(r, d)
      \/ Become(r, e)
  BY <1>1
<1> HIDE DEF d, e
<1>6. Others(r) /\ ((desk'[r] = d /\ <<desk[r].fee, s>> \in assigned) \/ desk'[r] = e)
  BY <1>5, Turned
<1> QED
  BY <1>3, <1>4, <1>6

LEMMA CreateFields ==
  ASSUME Typed, NEW r \in Requests, CreateAssignment(r)
  PROVE  \/ /\ desk'[r].at = "failed" /\ desk'[r].fee = None /\ desk'[r].asked = {}
            /\ desk'[r].owed = {} /\ assigned' = assigned /\ Others(r)
         \/ /\ assigned' = assigned \cup {<<desk[r].fee, desk[r].student>>}
            /\ desk[r].fee \in fees
            /\ desk'[r].at = "pick" /\ desk'[r].fee = desk[r].fee
            /\ desk'[r].asked = desk[r].asked /\ desk'[r].left = desk[r].left
            /\ desk'[r].owed = desk[r].owed /\ Others(r)
<1>1. CASE Become(r, [desk[r] EXCEPT !.at = "pick", !.student = None])
  <2>1. /\ desk'[r].at = "pick" /\ desk'[r].fee = desk[r].fee
        /\ desk'[r].asked = desk[r].asked /\ desk'[r].left = desk[r].left
        /\ desk'[r].owed = desk[r].owed /\ Others(r)
    <3> DEFINE d == [desk[r] EXCEPT !.at = "pick", !.student = None]
    <3>1. desk'[r] = d /\ Others(r) /\ desk[r] \in Request
      BY <1>1, Turned
    <3>2. /\ d.at = "pick" /\ d.fee = desk[r].fee /\ d.asked = desk[r].asked
          /\ d.left = desk[r].left /\ d.owed = desk[r].owed
      BY <3>1 DEF Request
    <3> QED
      BY <3>1, <3>2
  <2> QED
    BY <1>1, <2>1, LeaveFields DEF CreateAssignment
<1> QED
  BY <1>1, LeaveFields DEF CreateAssignment

LEMMA CheckFields ==
  ASSUME Typed, NEW r \in Requests, desk[r].at = "check", Goto(r, "destroy")
  PROVE  /\ desk'[r].at = "destroy" /\ desk'[r].fee = desk[r].fee
         /\ desk'[r].owed = desk[r].owed /\ Others(r)
  BY Became, DeskTyped DEF Typed, Goto, Request, Others

LEMMA DependentFields ==
  ASSUME Typed, NEW r \in Requests, LoadDependents(r)
  PROVE  /\ desk'[r].at = "delete" /\ desk'[r].fee = desk[r].fee
         /\ desk'[r].owed = desk[r].owed /\ Others(r)
         /\ desk'[r].left = {s \in Students : <<desk[r].fee, s>> \in assigned}
<1> DEFINE left == {s \in Students : <<desk[r].fee, s>> \in assigned}
<1>1. Become(r, [desk[r] EXCEPT !.at = "delete", !.left = left])
  BY DEF LoadDependents
<1> HIDE DEF left
<1> DEFINE d == [desk[r] EXCEPT !.at = "delete", !.left = left]
<1>2. desk'[r] = d /\ Others(r) /\ desk[r] \in Request
  BY <1>1, Turned
<1>3. d.at = "delete" /\ d.fee = desk[r].fee /\ d.owed = desk[r].owed /\ d.left = left
  BY <1>2 DEF Request
<1> QED
  BY <1>2, <1>3 DEF left

LEMMA BeginFields ==
  ASSUME Typed, NEW r \in Requests, BeginBulk(r)
  PROVE  \E ids \in Forms :
           /\ desk'[r].at = "students" /\ desk'[r].left = ids /\ Others(r)
           /\ desk'[r].owed = {a \in assigned : a[2] \in ids}
<1>1. PICK ids \in Forms : BeginBulk(r)!(ids)
  BY DEF BeginBulk
<1> DEFINE owed == {a \in assigned : a[2] \in ids}
<1>2. Become(r, [desk[r] EXCEPT !.at = "students", !.left = ids, !.owed = owed])
  BY <1>1
<1> HIDE DEF owed
<1> DEFINE d == [desk[r] EXCEPT !.at = "students", !.left = ids, !.owed = owed]
<1>3. desk'[r] = d /\ Others(r) /\ desk[r] \in Request
  BY <1>2, Turned
<1>4. d.at = "students" /\ d.left = ids /\ d.owed = owed
  BY <1>3 DEF Request
<1> QED
  BY <1>3, <1>4 DEF owed

LEMMA FindFields ==
  ASSUME Typed, NEW r \in Requests, FindAssignments(r)
  PROVE  \E s \in desk[r].left :
           /\ desk[r].at = "students" /\ desk'[r].left = desk[r].left \ {s}
           /\ desk'[r].owed = desk[r].owed /\ Others(r)
           /\ \/ desk'[r].at = "students" /\ \A f \in Fees : <<f, s>> \notin assigned
              \/ /\ desk'[r].at = "fees" /\ desk'[r].student = s
                 /\ desk'[r].found = {f \in Fees : <<f, s>> \in assigned}
<1>1. PICK s \in desk[r].left : FindAssignments(r)!(s)
  BY DEF FindAssignments
<1> DEFINE found == {f \in Fees : <<f, s>> \in assigned}
<1>2. CASE found = {} /\ Become(r, [desk[r] EXCEPT !.left = @ \ {s}])
  <2>1. /\ desk'[r].left = desk[r].left \ {s} /\ desk'[r].at = desk[r].at
        /\ desk'[r].owed = desk[r].owed /\ Others(r)
    BY <1>2, Became, DeskTyped DEF Typed, Request, Others
  <2> QED
    BY <1>1, <1>2, <2>1
<1>3. CASE Become(r, [desk[r] EXCEPT !.at = "fees", !.left = @ \ {s}, !.student = s,
                                     !.found = found])
  <2> HIDE DEF found
  <2> DEFINE d == [desk[r] EXCEPT !.at = "fees", !.left = @ \ {s}, !.student = s,
                                  !.found = found]
  <2>1. desk'[r] = d /\ Others(r) /\ desk[r] \in Request
    BY <1>3, Turned
  <2>2. /\ d.left = desk[r].left \ {s} /\ d.at = "fees" /\ d.owed = desk[r].owed
        /\ d.student = s /\ d.found = found
    BY <2>1 DEF Request
  <2> QED
    BY <1>1, <2>1, <2>2 DEF found
<1> QED
  BY <1>1, <1>2, <1>3

LEMMA LoadFields ==
  ASSUME Typed, NEW r \in Requests, LoadFees(r)
  PROVE  /\ desk[r].at = "fees" /\ desk'[r].at = "lines"
         /\ desk'[r].left = desk[r].left /\ desk'[r].student = desk[r].student
         /\ desk'[r].found = desk[r].found /\ desk'[r].owed = desk[r].owed /\ Others(r)
         /\ \A f \in Fees : desk'[r].quote[f] =
                IF f \in fees \cap desk[r].found THEN price[f] ELSE None
<1> DEFINE quote == [f \in Fees |-> IF f \in fees \cap desk[r].found THEN price[f]
                                                                   ELSE None]
<1>1. Become(r, [desk[r] EXCEPT !.at = "lines", !.quote = quote])
  BY DEF LoadFees
<1>2. \A f \in Fees : quote[f] = IF f \in fees \cap desk[r].found THEN price[f] ELSE None
  OBVIOUS
<1> HIDE DEF quote
<1> DEFINE d == [desk[r] EXCEPT !.at = "lines", !.quote = quote]
<1>3. desk'[r] = d /\ Others(r) /\ desk[r] \in Request
  BY <1>1, Turned
<1>4. /\ d.at = "lines" /\ d.left = desk[r].left /\ d.student = desk[r].student
      /\ d.found = desk[r].found /\ d.owed = desk[r].owed /\ d.quote = quote
  BY <1>3 DEF Request
<1> QED
  BY <1>2, <1>3, <1>4 DEF LoadFees

LEMMA CommitFields ==
  ASSUME Typed, NEW r \in Requests, CommitInvoice(r)
  PROVE  /\ desk[r].at = "lines" /\ desk[r].found = {} /\ desk'[r].at = "students"
         /\ desk'[r].left = desk[r].left /\ Others(r)
         /\ desk'[r].owed = desk[r].owed
                              \ {<<l[1], desk[r].student>> : l \in desk[r].lines}
<1> DEFINE owed == desk[r].owed \ {<<l[1], desk[r].student>> : l \in desk[r].lines}
<1>1. Become(r, [desk[r] EXCEPT !.at = "students", !.lines = {}, !.total = 0,
                                !.student = None, !.quote = New.quote, !.owed = owed])
  BY DEF CommitInvoice
<1> HIDE DEF owed
<1> DEFINE d == [desk[r] EXCEPT !.at = "students", !.lines = {}, !.total = 0,
                                !.student = None, !.quote = New.quote, !.owed = owed]
<1>2. desk'[r] = d /\ Others(r) /\ desk[r] \in Request
  BY <1>1, Turned
<1>3. d.at = "students" /\ d.left = desk[r].left /\ d.owed = owed
  BY <1>2 DEF Request
<1> QED
  BY <1>2, <1>3 DEF CommitInvoice, owed

-----------------------------------------------------------------------------
(* Deletions.                                                              *)

\* Two requests at work on one fee have been noted.
Noted ==
    \A q, r \in Requests :
        q # r /\ Working(q) /\ Working(r) /\ desk[q].fee = desk[r].fee /\ desk[r].fee # None
            => desk[r].fee \in contended

\* A deletion that is alone with its fee has found, and will find, no assignment.
Spared ==
    \A r \in Requests :
        desk[r].at \in {"destroy", "delete"} /\ desk[r].fee \notin contended =>
            AssignmentsOf(desk[r].fee) = {}

Alone == Typed /\ Noted /\ Spared

\* A step of r that is about the fee it was about already, or none.
Keeps(r) ==
    /\ contended' = contended /\ Others(r)
    /\ \/ desk'[r].fee = None
       \/ desk'[r].at \in {"done", "failed"}
       \/ Working(r) /\ desk'[r].fee = desk[r].fee

LEMMA NotedStep == Alone /\ [Next]_vars => Noted'
<1> SUFFICES ASSUME Alone, [Next]_vars PROVE Noted'
  OBVIOUS
<1>0. Typed /\ Typed' /\ Noted
  BY TypedStep DEF Alone
<1>1. ASSUME UNCHANGED <<desk, contended>> PROVE Noted'
  BY <1>0, <1>1 DEF Noted, Working
<1>2. ASSUME NEW r \in Requests, Keeps(r) PROVE Noted'
  BY <1>0, <1>2 DEF Keeps, Noted, Working, Others
<1>3. ASSUME NEW r \in Requests, NEW how \in {"done", "failed"}, Leave(r, how),
             contended' = contended
      PROVE  Noted'
  BY <1>0, <1>2, <1>3, LeaveFields DEF Keeps
<1>4. ASSUME NEW r \in Requests, Bulk(r) PROVE Noted'
  <2>1. contended' = contended
    BY <1>4 DEF Bulk, BeginBulk, FindAssignments, LoadFees, CreateLine, CannotBill,
                CommitInvoice, EndBulk
  <2>2. \/ desk'[r].at \in {"students", "fees", "lines", "done"} /\ Others(r)
        \/ Leave(r, "failed")
    BY <1>0, <1>4, BeginFields, FindFields, LoadFields, LineOrNothing, CommitFields,
       FinishFields DEF Bulk, CannotBill, EndBulk, Others
  <2>3. desk'[r].at \in {"students", "fees", "lines"} => desk'[r].fee = None
    BY <1>0 DEF Typed, Placed
  <2> QED
    BY <1>2, <1>3, <2>1, <2>2, <2>3 DEF Keeps
<1>5. ASSUME NEW r \in Requests, NEW f, NEW step, NEW ids, OpenFee(r, f, step, ids)
      PROVE  Noted'
  <2>1. /\ desk[r].at = "new" /\ desk'[r].fee = f /\ Others(r)
        /\ contended' = IF \E q \in Requests : Working(q) /\ desk[q].fee = f
                        THEN contended \cup {f} ELSE contended
    BY <1>0, <1>5, OpenFields DEF OpenFee
  <2> QED
    BY <1>0, <2>1 DEF Noted, Working, Others
<1>6. ASSUME NEW r \in Requests, PickStudent(r) PROVE Noted'
  BY <1>0, <1>2, <1>6, PickFields DEF Keeps, Working, PickStudent
<1>7. ASSUME NEW r \in Requests, CreateAssignment(r) PROVE Noted'
  BY <1>0, <1>2, <1>7, CreateFields DEF Keeps, Working, CreateAssignment
<1>8. ASSUME NEW r \in Requests, EndAssign(r) PROVE Noted'
  BY <1>0, <1>2, <1>8, FinishFields DEF Keeps, EndAssign
<1>9. ASSUME NEW r \in Requests, CheckUnassigned(r) PROVE Noted'
  BY <1>0, <1>2, <1>3, <1>9, CheckFields DEF Keeps, CheckUnassigned, Working
<1>10. ASSUME NEW r \in Requests, LoadDependents(r) PROVE Noted'
  BY <1>0, <1>2, <1>10, DependentFields DEF Keeps, LoadDependents, Working
<1>11. ASSUME NEW r \in Requests, DeleteFee(r) \/ Fail(r) PROVE Noted'
  BY <1>3, <1>11 DEF DeleteFee, Fail
<1> QED
  BY <1>1, <1>4, <1>5, <1>6, <1>7, <1>8, <1>9, <1>10, <1>11
     DEF Next, Assign, Destroy, BeginAssign, BeginDestroy, Rest, CreateFee, UpdateFee,
         DestroyInvoice, UpdateInvoice, vars

LEMMA SparedStep == Alone /\ [Next]_vars => Spared'
<1> SUFFICES ASSUME Alone, [Next]_vars PROVE Spared'
  OBVIOUS
<1>0. Typed /\ Typed' /\ Noted /\ Spared
  BY TypedStep DEF Alone
<1>1. ASSUME UNCHANGED <<desk, contended, assigned>> PROVE Spared'
  BY <1>0, <1>1 DEF Spared, AssignmentsOf
<1>2. ASSUME NEW r \in Requests, Others(r), contended \subseteq contended',
             assigned' \subseteq assigned,
             \/ desk'[r].at \notin {"destroy", "delete"}
             \/ desk'[r].fee \notin contended => AssignmentsOf(desk'[r].fee) = {}
      PROVE  Spared'
  BY <1>0, <1>2 DEF Spared, AssignmentsOf, Others
<1>3. ASSUME NEW r \in Requests, NEW how \in {"done", "failed"}, Leave(r, how),
             assigned' \subseteq assigned, contended' = contended
      PROVE  Spared'
  BY <1>0, <1>2, <1>3, LeaveFields
<1>4. ASSUME NEW r \in Requests, Bulk(r) PROVE Spared'
  <2>1. contended' = contended /\ assigned' = assigned
    BY <1>4 DEF Bulk, BeginBulk, FindAssignments, LoadFees, CreateLine, CannotBill,
                CommitInvoice, EndBulk, tables
  <2>2. \/ desk'[r].at \in {"students", "fees", "lines", "done"} /\ Others(r)
        \/ Leave(r, "failed")
    BY <1>0, <1>4, BeginFields, FindFields, LoadFields, LineOrNothing, CommitFields,
       FinishFields DEF Bulk, CannotBill, EndBulk, Others
  <2> QED
    BY <1>2, <1>3, <2>1, <2>2
<1>5. ASSUME NEW r \in Requests, NEW f, NEW step \in {"pick", "check"}, NEW ids,
             OpenFee(r, f, step, ids)
      PROVE  Spared'
  <2>1. desk'[r].at = step /\ Others(r)
    BY <1>0, <1>5, OpenFields
  <2>2. contended \subseteq contended' /\ assigned' = assigned
    BY <1>5 DEF OpenFee, tables
  <2> QED
    BY <1>2, <2>1, <2>2
<1>6. ASSUME NEW r \in Requests, PickStudent(r) PROVE Spared'
  BY <1>0, <1>2, <1>6, PickFields DEF PickStudent, tables
\* The assignment of another request is to another fee, or the two were noted.
<1>7. ASSUME NEW r \in Requests, CreateAssignment(r) PROVE Spared'
  <2>1. /\ desk[r].at = "create" /\ contended' = contended
        /\ desk'[r].at \in {"pick", "failed"} /\ Others(r)
        /\ assigned' \subseteq assigned \cup {<<desk[r].fee, desk[r].student>>}
    BY <1>0, <1>7, CreateFields DEF CreateAssignment
  <2>2. desk[r].fee # None
    BY <1>0, <2>1, NoneIsNothing DEF Typed, TypeOK, Placed
  <2> SUFFICES ASSUME NEW q \in Requests, desk'[q].at \in {"destroy", "delete"},
                      desk'[q].fee \notin contended'
               PROVE  \A a \in assigned' : a[1] # desk'[q].fee
    BY DEF Spared, AssignmentsOf
  <2>3. q # r /\ desk'[q] = desk[q]
    BY <2>1 DEF Others
  <2>4. desk[q].fee # desk[r].fee
    BY <1>0, <2>1, <2>2, <2>3 DEF Noted, Working
  <2> QED
    BY <1>0, <2>1, <2>3, <2>4 DEF Spared, AssignmentsOf
<1>8. ASSUME NEW r \in Requests, EndAssign(r) PROVE Spared'
  BY <1>0, <1>2, <1>8, FinishFields DEF EndAssign, tables
<1>9. ASSUME NEW r \in Requests, CheckUnassigned(r) PROVE Spared'
  BY <1>0, <1>2, <1>3, <1>9, CheckFields DEF CheckUnassigned, tables
<1>10. ASSUME NEW r \in Requests, LoadDependents(r) PROVE Spared'
  <2>1. desk[r].fee \notin contended => AssignmentsOf(desk[r].fee) = {}
    BY <1>0, <1>10 DEF Spared, LoadDependents
  <2> QED
    BY <1>0, <1>2, <1>10, <2>1, DependentFields DEF LoadDependents, tables
<1>11. ASSUME NEW r \in Requests, DeleteFee(r) \/ Fail(r) PROVE Spared'
  BY <1>3, <1>11 DEF DeleteFee, Fail, tables
<1> QED
  BY <1>1, <1>4, <1>5, <1>6, <1>7, <1>8, <1>9, <1>10, <1>11
     DEF Next, Assign, Destroy, BeginAssign, BeginDestroy, Rest, CreateFee, UpdateFee,
         DestroyInvoice, UpdateInvoice, vars

\* Nothing but a deletion takes an assignment away.
LEMMA DeletedAlone ==
  Alone /\ [Next]_vars => [\A a \in assigned \ assigned' : a[1] \in contended]_vars
<1> SUFFICES ASSUME Alone, [Next]_vars, NEW a \in assigned \ assigned'
             PROVE  a[1] \in contended
  OBVIOUS
<1>1. PICK r \in Requests : DeleteFee(r)
  BY DEF Next, Bulk, Assign, Destroy, BeginAssign, BeginDestroy, OpenFee, CheckUnassigned,
         LoadDependents, PickStudent, CreateAssignment, EndAssign, BeginBulk,
         FindAssignments, LoadFees, CreateLine, CannotBill, CommitInvoice, EndBulk, Fail,
         Rest, CreateFee, UpdateFee, DestroyInvoice, UpdateInvoice, vars, tables
<1>2. desk[r].at = "delete" /\ a \in Doomed(r)
  BY <1>1 DEF DeleteFee
<1>3. a \in AssignmentsOf(desk[r].fee) /\ a[1] = desk[r].fee
  BY <1>2 DEF Doomed, AssignmentsOf
<1> QED
  BY <1>2, <1>3 DEF Alone, Spared

\* Deleting a fee takes away no assignment, for any number of requests, unless two
\* of them were about that fee at once (fees_controller.rb:74).
THEOREM DeletionSparesAssignments == Spec => UnassignedWhenDeleted
<1>1. Init => Alone
  BY InitTyped DEF Init, New, Alone, Noted, Spared, Working
<1>2. Alone /\ [Next]_vars => Alone'
  BY TypedStep, NotedStep, SparedStep DEF Alone
<1> QED
  BY <1>1, <1>2, DeletedAlone, PTL DEF Spec, UnassignedWhenDeleted

-----------------------------------------------------------------------------
(* Assignments.                                                            *)

\* While it assigns students, those a request has come to are assigned, or the
\* fee is gone.
Placing(r) ==
    desk[r].at \in {"pick", "create"} /\ desk[r].fee \in fees =>
        \A s \in desk[r].asked :
            \/ s \in desk[r].left
            \/ desk[r].at = "create" /\ s = desk[r].student
            \/ <<desk[r].fee, s>> \in assigned

Stuck(r) ==
    desk[r].at = "done" /\ desk[r].fee \in fees =>
        \A s \in desk[r].asked : <<desk[r].fee, s>> \in assigned

Sticking == Typed /\ \A r \in Requests : Placing(r) /\ Stuck(r)

\* The fees there are were there already, and who was assigned one of them still is.
Lasting ==
    /\ \A f \in issued : f \in fees' => f \in fees
    /\ \A a \in assigned \ assigned' : a[1] \notin fees'

LEMMA DeletionLasts ==
  ASSUME Typed, NEW r \in Requests, DeleteFee(r)
  PROVE  Lasting /\ \E how \in {"done", "failed"} : Leave(r, how)
  BY DEF DeleteFee, Doomed, Lasting

LEMMA LastingSteps ==
  ASSUME Typed, [Next]_vars
  PROVE  Lasting
<1>1. ASSUME NEW f \in Fees, NEW p \in Prices[f], CreateFee(f, p) \/ UpdateFee(f, p)
      PROVE  Lasting
  BY <1>1 DEF CreateFee, UpdateFee, Lasting
<1>2. ASSUME NEW r \in Requests, CreateAssignment(r) PROVE Lasting
  BY <1>2 DEF CreateAssignment, Lasting
<1>3. ASSUME UNCHANGED <<fees, assigned>> PROVE Lasting
  BY <1>3 DEF Lasting
<1>4. ASSUME NEW r \in Requests, Bulk(r) \/ Fail(r) PROVE Lasting
  BY <1>3, <1>4 DEF Bulk, BeginBulk, FindAssignments, LoadFees, CreateLine, CannotBill,
                    CommitInvoice, EndBulk, Fail, tables
<1>5. ASSUME NEW r \in Requests, Assign(r) PROVE Lasting
  BY <1>2, <1>3, <1>5 DEF Assign, BeginAssign, OpenFee, PickStudent, EndAssign, tables
<1>6. ASSUME NEW r \in Requests, Destroy(r) PROVE Lasting
  BY <1>3, <1>6, DeletionLasts
     DEF Destroy, BeginDestroy, OpenFee, CheckUnassigned, LoadDependents, tables
<1> QED
  BY <1>1, <1>3, <1>4, <1>5, <1>6 DEF Next, DestroyInvoice, UpdateInvoice, Rest, vars, tables

LEMMA StickingStep == Sticking /\ [Next]_vars => Sticking'
<1> SUFFICES ASSUME Sticking, [Next]_vars PROVE Sticking'
  OBVIOUS
<1>0. Typed /\ Typed' /\ TypeOK /\ Lasting /\ \A r \in Requests : Placing(r) /\ Stuck(r)
  BY TypedStep, LastingSteps DEF Sticking, Typed
<1>1. ASSUME NEW q \in Requests, desk'[q] = desk[q] PROVE Placing(q)' /\ Stuck(q)'
  <2>1. desk[q].fee \in fees' => desk[q].fee \in fees
    BY <1>0, NoneIsNothing DEF Typed, TypeOK, Lasting
  <2> QED
    BY <1>0, <1>1, <2>1 DEF Placing, Stuck, Lasting
<1>2. ASSUME desk' = desk PROVE Sticking'
  BY <1>0, <1>1, <1>2 DEF Sticking
<1>3. ASSUME NEW r \in Requests, Others(r), Placing(r)' /\ Stuck(r)' PROVE Sticking'
  BY <1>0, <1>1, <1>3 DEF Sticking, Others
<1>4. ASSUME NEW r \in Requests, Others(r), desk'[r].asked = {} PROVE Sticking'
  <2>1. Placing(r)' /\ Stuck(r)'
    BY <1>4 DEF Placing, Stuck
  <2> QED
    BY <1>3, <1>4, <2>1
<1>5. ASSUME NEW r \in Requests, NEW how \in {"done", "failed"}, Leave(r, how)
      PROVE  Sticking'
  BY <1>0, <1>4, <1>5, LeaveFields
<1>6. ASSUME NEW r \in Requests, Finish(r), desk[r].at = "pick" => desk[r].left = {},
             desk[r].at \in {"pick", "students"}, assigned' = assigned, fees' = fees
      PROVE  Sticking'
  <2>1. /\ desk'[r].at = "done" /\ desk'[r].fee = desk[r].fee
        /\ desk'[r].asked = desk[r].asked /\ Others(r)
    BY <1>0, <1>6, FinishFields
  <2>2. CASE desk[r].at = "students"
    BY <1>0, <1>4, <2>1, <2>2 DEF Typed, Placed
  <2>3. CASE desk[r].at = "pick"
    <3>1. Placing(r)' /\ Stuck(r)'
      BY <1>0, <1>6, <2>1, <2>3 DEF Placing, Stuck
    <3> QED
      BY <1>3, <2>1, <3>1
  <2> QED
    BY <1>6, <2>2, <2>3
<1>7. ASSUME NEW r \in Requests, Bulk(r) PROVE Sticking'
  <2>1. \/ desk'[r].at \in {"students", "fees", "lines"} /\ Others(r)
        \/ Leave(r, "failed")
        \/ EndBulk(r)
    BY <1>0, <1>7, BeginFields, FindFields, LoadFields, LineOrNothing, CommitFields
       DEF Bulk, CannotBill, Others
  <2>2. CASE desk'[r].at \in {"students", "fees", "lines"} /\ Others(r)
    BY <1>0, <1>4, <2>2 DEF Typed, Placed
  <2> QED
    BY <1>5, <1>6, <2>1, <2>2 DEF EndBulk, tables
<1>8. ASSUME NEW r \in Requests, NEW f, NEW step \in {"pick", "check"}, NEW ids,
             OpenFee(r, f, step, ids)
      PROVE  Sticking'
  <2>1. /\ desk'[r].at = step /\ desk'[r].asked = ids /\ desk'[r].left = ids /\ Others(r)
    BY <1>0, <1>8, OpenFields
  <2>2. Placing(r)' /\ Stuck(r)'
    BY <2>1 DEF Placing, Stuck
  <2> QED
    BY <1>3, <2>1, <2>2
<1>9. ASSUME NEW r \in Requests, PickStudent(r) PROVE Sticking'
  <2>1. desk[r].at = "pick" /\ fees' = fees /\ assigned' = assigned
    BY <1>9 DEF PickStudent, tables
  <2>2. PICK s \in desk[r].left :
           /\ desk'[r].fee = desk[r].fee /\ desk'[r].asked = desk[r].asked
           /\ desk'[r].left = desk[r].left \ {s} /\ Others(r)
           /\ \/ <<desk[r].fee, s>> \in assigned /\ desk'[r].at = "pick"
              \/ desk'[r].at = "create" /\ desk'[r].student = s
    BY <1>0, <1>9, PickFields
  <2>3. Placing(r)' /\ Stuck(r)'
    BY <1>0, <2>1, <2>2 DEF Placing, Stuck
  <2> QED
    BY <1>3, <2>2, <2>3
<1>10. ASSUME NEW r \in Requests, CreateAssignment(r) PROVE Sticking'
  <2>1. desk[r].at = "create" /\ fees' = fees
    BY <1>10 DEF CreateAssignment
  <2>2. CASE Others(r) /\ desk'[r].asked = {}
    BY <1>4, <2>2
  <2>3. CASE /\ assigned' = assigned \cup {<<desk[r].fee, desk[r].student>>}
             /\ desk'[r].at = "pick" /\ desk'[r].fee = desk[r].fee
             /\ desk'[r].asked = desk[r].asked /\ desk'[r].left = desk[r].left /\ Others(r)
    <3>1. Placing(r)' /\ Stuck(r)'
      BY <1>0, <2>1, <2>3 DEF Placing, Stuck
    <3> QED
      BY <1>3, <2>3, <3>1
  <2> QED
    BY <1>0, <1>10, <2>2, <2>3, CreateFields
<1>11. ASSUME NEW r \in Requests, CheckUnassigned(r) PROVE Sticking'
  <2>1. CASE Goto(r, "destroy")
    <3>1. desk'[r].at = "destroy" /\ Others(r)
      BY <1>0, <1>11, <2>1, CheckFields DEF CheckUnassigned
    <3>2. Placing(r)' /\ Stuck(r)'
      BY <3>1 DEF Placing, Stuck
    <3> QED
      BY <1>3, <3>1, <3>2
  <2> QED
    BY <1>5, <1>11, <2>1 DEF CheckUnassigned
<1>12. ASSUME NEW r \in Requests, LoadDependents(r) PROVE Sticking'
  <2>1. desk'[r].at = "delete" /\ Others(r)
    BY <1>0, <1>12, DependentFields
  <2>2. Placing(r)' /\ Stuck(r)'
    BY <2>1 DEF Placing, Stuck
  <2> QED
    BY <1>3, <2>1, <2>2
<1>13. ASSUME NEW r \in Requests, DeleteFee(r) \/ Fail(r) PROVE Sticking'
  BY <1>0, <1>5, <1>13, DeletionLasts DEF Fail
<1> QED
  BY <1>2, <1>6, <1>7, <1>8, <1>9, <1>10, <1>11, <1>12, <1>13
     DEF Next, Assign, Destroy, BeginAssign, BeginDestroy, EndAssign, Rest, CreateFee,
         UpdateFee, DestroyInvoice, UpdateInvoice, vars, tables

\* A request that ends well has assigned its students for as long as the fee lasts,
\* whatever other requests do about the same students and fee
\* (fees_controller.rb:95-102).
THEOREM StudentsStayAssigned == Spec => []AssignmentsStick
<1>1. Init => Sticking
  BY InitTyped DEF Init, New, Sticking, Placing, Stuck
<1>2. Sticking => AssignmentsStick
  BY DEF Sticking, Stuck, AssignmentsStick
<1> QED
  BY <1>1, <1>2, StickingStep, PTL DEF Spec

-----------------------------------------------------------------------------
(* What a bulk generation has still to bill.                               *)

Priced == \A f \in issued : price[f] \in Prices[f]

\* An assignment that was there as the generation began and is gone went with its
\* fee, whose id is not used again.
Recalled ==
    \A r \in Requests :
        /\ desk[r].owed \subseteq issued \X Students
        /\ \A a \in desk[r].owed \ assigned : a[1] \notin fees

Quoted ==
    \A r \in Requests : \A f \in Fees :
        desk[r].at = "lines" => desk[r].quote[f] \in Prices[f] \cup {None}

\* What costs something is of a student to come, or among the assignments found,
\* or has its line.
Due(r, a) ==
    \/ a[2] \in desk[r].left
    \/ desk[r].at = "fees" /\ a[2] = desk[r].student /\ a[1] \in desk[r].found
    \/ /\ desk[r].at = "lines" /\ a[2] = desk[r].student
       /\ a[1] \in desk[r].found \/ \E l \in desk[r].lines : l[1] = a[1]

Owing(r) ==
    desk[r].at \in {"students", "fees", "lines", "done"} =>
        \A a \in desk[r].owed \cap assigned :
            Costly(a) => Due(r, a) /\ desk[r].at # "done"

Billing == Typed /\ Priced /\ Recalled /\ Quoted /\ \A r \in Requests : Owing(r)

LEMMA CostlyLine ==
  ASSUME Typed, Priced, Quoted, NEW r \in Requests, desk[r].at = "lines",
         NEW f \in issued, ~Raises(r, f), Costly(<<f, desk[r].student>>)
  PROVE  Cost(r, f) # 0
<1> DEFINE c == Concession[<<f, desk[r].student>>]
           q == desk[r].quote[f]
<1>1. \A p \in Prices[f] : Net(c, p) > 0
  BY DEF Costly
<1>2. f \in Fees /\ price[f] \in Prices[f] /\ Cost(r, f) = Net(c, q)
  BY DEF Typed, TypeOK, Priced, Cost
<1>3. q \in Prices[f] \cup {None} /\ (q = None => c.exempt \/ c.override # None)
  BY <1>2 DEF Quoted, Raises
<1> HIDE DEF c, q
<1>4. CASE q \in Prices[f]
  BY <1>1, <1>2, <1>4
<1>5. CASE q = None
  <2>1. ~c.exempt
    BY <1>1, <1>2 DEF Net
  <2>2. Net(c, q) = Net(c, price[f])
    BY <1>3, <1>5, <2>1 DEF Net, Base
  <2> QED
    BY <1>1, <1>2, <2>2
<1> QED
  BY <1>3, <1>4, <1>5

LEMMA PricedStep == Typed /\ Priced /\ [Next]_vars => Priced'
<1> SUFFICES ASSUME Typed, Priced, [Next]_vars PROVE Priced'
  OBVIOUS
<1>1. ASSUME NEW f \in Fees, NEW p \in Prices[f], CreateFee(f, p) \/ UpdateFee(f, p)
      PROVE  Priced'
  BY <1>1 DEF CreateFee, UpdateFee, Priced, Typed, TypeOK
<1>2. ASSUME UNCHANGED <<issued, price>> PROVE Priced'
  BY <1>2 DEF Priced
<1> QED
  BY <1>1, <1>2, ZenonT(30) DEF Next, Bulk, Assign, Destroy, BeginAssign, BeginDestroy, OpenFee,
     CheckUnassigned, LoadDependents, DeleteFee, PickStudent, CreateAssignment, EndAssign,
     BeginBulk, FindAssignments, LoadFees, CreateLine, CannotBill, CommitInvoice, EndBulk,
     Fail, Rest, DestroyInvoice, UpdateInvoice, vars, tables

\* A step of r: what becomes of what it owed and quoted.
Owes(r) ==
    /\ Others(r)
    /\ \/ desk'[r].owed \subseteq desk[r].owed
       \/ desk'[r].owed \subseteq assigned /\ UNCHANGED tables
    /\ \/ desk'[r].at # "lines"
       \/ desk[r].at = "lines" /\ desk'[r].quote = desk[r].quote
       \/ \A f \in Fees : desk'[r].quote[f] \in {price[f], None} /\
                          (desk'[r].quote[f] # None => f \in fees)

LEMMA OwesSteps ==
  ASSUME Typed, [Next]_vars
  PROVE  desk' = desk \/ \E r \in Requests : Owes(r)
<1>1. ASSUME NEW r \in Requests, NEW how \in {"done", "failed"}, Leave(r, how) PROVE Owes(r)
  BY <1>1, LeaveFields DEF Owes
<1>2. ASSUME NEW r \in Requests, Finish(r) PROVE Owes(r)
  BY <1>2, FinishFields DEF Owes
<1>3. ASSUME NEW r \in Requests, BeginBulk(r) PROVE Owes(r)
  BY <1>3, BeginFields DEF Owes, BeginBulk
<1>4. ASSUME NEW r \in Requests, FindAssignments(r) PROVE Owes(r)
  BY <1>4, FindFields DEF Owes
<1>5. ASSUME NEW r \in Requests, LoadFees(r) PROVE Owes(r)
  BY <1>5, LoadFields DEF Owes
<1>6. ASSUME NEW r \in Requests, CreateLine(r) PROVE Owes(r)
  BY <1>6, LineOrNothing DEF Owes, Others
<1>7. ASSUME NEW r \in Requests, CommitInvoice(r) PROVE Owes(r)
  BY <1>7, CommitFields DEF Owes
<1>8. ASSUME NEW r \in Requests, NEW f, NEW step \in {"pick", "check"}, NEW ids,
             OpenFee(r, f, step, ids)
      PROVE  Owes(r)
  BY <1>8, OpenFields DEF Owes
<1>9. ASSUME NEW r \in Requests, PickStudent(r) PROVE Owes(r)
  BY <1>9, PickFields DEF Owes
<1>10. ASSUME NEW r \in Requests, CreateAssignment(r) PROVE Owes(r)
  BY <1>10, CreateFields DEF Owes
<1>11. ASSUME NEW r \in Requests, CheckUnassigned(r) PROVE Owes(r)
  BY <1>1, <1>11, CheckFields DEF Owes, CheckUnassigned
<1>12. ASSUME NEW r \in Requests, LoadDependents(r) PROVE Owes(r)
  BY <1>12, DependentFields DEF Owes
<1> QED
  BY <1>1, <1>2, <1>3, <1>4, <1>5, <1>6, <1>7, <1>8, <1>9, <1>10, <1>11, <1>12, DeletionLasts
     DEF Next, Bulk, Assign, Destroy, BeginAssign, BeginDestroy, CannotBill, EndBulk,
         EndAssign, Fail, Rest, CreateFee, UpdateFee, DestroyInvoice, UpdateInvoice, vars

\* Ids are not taken back, and only an existing fee is assigned.
Growing ==
    /\ issued \subseteq issued'
    /\ \A a \in assigned' \ assigned : a[1] \in fees

LEMMA GrowingSteps ==
  ASSUME Typed, [Next]_vars
  PROVE  Growing
<1>1. ASSUME NEW f \in Fees, NEW p \in Prices[f], CreateFee(f, p) \/ UpdateFee(f, p)
      PROVE  Growing
  BY <1>1 DEF CreateFee, UpdateFee, Growing
<1>2. ASSUME UNCHANGED <<issued, assigned>> PROVE Growing
  BY <1>2 DEF Growing
<1>3. ASSUME NEW r \in Requests, CreateAssignment(r) PROVE Growing
  BY <1>3 DEF CreateAssignment, Growing
<1>4. ASSUME NEW r \in Requests, DeleteFee(r) PROVE Growing
  BY <1>4 DEF DeleteFee, Growing
<1> QED
  BY <1>1, <1>2, <1>3, <1>4 DEF Next, Bulk, Assign, Destroy, BeginAssign, BeginDestroy,
     OpenFee, CheckUnassigned, LoadDependents, PickStudent, EndAssign, BeginBulk,
     FindAssignments, LoadFees, CreateLine, CannotBill, CommitInvoice, EndBulk, Fail, Rest,
     DestroyInvoice, UpdateInvoice, vars, tables

LEMMA QuotedStep == Typed /\ Priced /\ Quoted /\ [Next]_vars => Quoted'
<1> SUFFICES ASSUME Typed, Priced, Quoted, [Next]_vars PROVE Quoted'
  OBVIOUS
<1>1. CASE desk' = desk
  BY <1>1 DEF Quoted
<1>2. ASSUME NEW r \in Requests, Owes(r) PROVE Quoted'
  <2>1. \A f \in fees : price[f] \in Prices[f]
    BY DEF Priced, Typed, TypeOK
  <2> QED
    BY <1>2, <2>1 DEF Quoted, Owes, Others
<1> QED
  BY <1>1, <1>2, OwesSteps

LEMMA RecalledStep == Typed /\ Recalled /\ [Next]_vars => Recalled'
<1> SUFFICES ASSUME Typed, Recalled, [Next]_vars PROVE Recalled'
  OBVIOUS
<1>1. Lasting /\ assigned \subseteq issued \X Students
  BY LastingSteps DEF Typed, TypeOK
<1>2. issued \subseteq issued'
  BY GrowingSteps DEF Growing
<1>3. ASSUME NEW r \in Requests, desk'[r].owed \subseteq desk[r].owed
      PROVE  /\ desk'[r].owed \subseteq issued' \X Students
             /\ \A a \in desk'[r].owed \ assigned' : a[1] \notin fees'
  <2>1. desk[r].owed \subseteq issued \X Students
    BY DEF Recalled
  <2>2. ASSUME NEW a \in desk'[r].owed \ assigned' PROVE a[1] \notin fees'
    <3>1. a \in desk[r].owed /\ a[1] \in issued
      BY <1>3, <2>1, <2>2
    <3>2. CASE a \in assigned
      BY <1>1, <2>2, <3>2 DEF Lasting
    <3>3. CASE a \notin assigned
      BY <1>1, <3>1, <3>3 DEF Recalled, Lasting
    <3> QED
      BY <3>2, <3>3
  <2> QED
    BY <1>2, <1>3, <2>1, <2>2
<1>4. ASSUME NEW r \in Requests, desk'[r].owed \subseteq assigned, UNCHANGED tables
      PROVE  /\ desk'[r].owed \subseteq issued' \X Students
             /\ \A a \in desk'[r].owed \ assigned' : a[1] \notin fees'
  BY <1>1, <1>4 DEF tables
<1> QED
  BY <1>3, <1>4, OwesSteps DEF Recalled, Owes, Others

LEMMA OwingStep ==
  ASSUME Billing, [Next]_vars
  PROVE  \A r \in Requests : Owing(r)'
<1>0. /\ Typed /\ Typed' /\ Priced /\ Quoted /\ Growing /\ TypeOK
      /\ \A r \in Requests : Owing(r)
  BY TypedStep, GrowingSteps DEF Billing, Typed
<1>1. ASSUME NEW r \in Requests, NEW a \in desk[r].owed, a \in assigned'
      PROVE  a \in assigned
  BY <1>0, <1>1 DEF Billing, Recalled, Growing
<1>2. ASSUME NEW r \in Requests, desk'[r] = desk[r] PROVE Owing(r)'
  BY <1>0, <1>1, <1>2 DEF Owing, Due
<1>3. ASSUME desk' = desk PROVE \A r \in Requests : Owing(r)'
  BY <1>2, <1>3
<1>4. ASSUME NEW r \in Requests, Others(r), desk'[r].owed = {}
      PROVE  \A q \in Requests : Owing(q)'
  <2>1. Owing(r)'
    BY <1>4 DEF Owing
  <2> QED
    BY <1>2, <1>4, <2>1 DEF Others
<1>5. ASSUME NEW r \in Requests, desk'[r].at \notin {"students", "fees", "lines", "done"},
             Others(r)
      PROVE  \A q \in Requests : Owing(q)'
  BY <1>2, <1>5 DEF Owing, Others
<1>6. ASSUME NEW r \in Requests, Bulk(r) PROVE \A q \in Requests : Owing(q)'
  <2>1. CASE BeginBulk(r)
    <3>1. Owing(r)'
      BY <1>0, <2>1, BeginFields DEF Owing, Due
    <3> QED
      BY <1>2, <2>1, <3>1, <1>0, BeginFields DEF Others
  <2>2. CASE FindAssignments(r)
    <3>1. PICK s \in desk[r].left :
           /\ desk[r].at = "students" /\ desk'[r].left = desk[r].left \ {s}
           /\ desk'[r].owed = desk[r].owed /\ Others(r)
           /\ \/ desk'[r].at = "students" /\ \A f \in Fees : <<f, s>> \notin assigned
              \/ /\ desk'[r].at = "fees" /\ desk'[r].student = s
                 /\ desk'[r].found = {f \in Fees : <<f, s>> \in assigned}
      BY <1>0, <2>2, FindFields
    <3>2. ASSUME NEW a \in desk'[r].owed \cap assigned', Costly(a)
          PROVE  Due(r, a)' /\ desk'[r].at # "done"
      <4>1. a \in assigned /\ a[1] \in Fees /\ a = <<a[1], a[2]>>
        BY <1>0, <1>1, <3>1, <3>2 DEF TypeOK
      <4>2. a[2] \in desk[r].left
        BY <1>0, <3>1, <3>2, <4>1 DEF Owing, Due
      <4> QED
        BY <3>1, <4>1, <4>2 DEF Due
    <3> QED
      BY <1>2, <3>1, <3>2 DEF Owing, Others
  <2>3. CASE LoadFees(r)
    <3>1. Owing(r)'
      BY <1>0, <1>1, <2>3, LoadFields DEF Owing, Due
    <3> QED
      BY <1>0, <1>2, <2>3, <3>1, LoadFields DEF Others
  <2>4. CASE CreateLine(r)
    <3>1. PICK f \in desk[r].found :
           /\ f \in Fees /\ desk[r].at = "lines" /\ ~Raises(r, f)
           /\ desk'[r].found = desk[r].found \ {f}
           /\ desk'[r].lines = IF Cost(r, f) = 0 THEN desk[r].lines
                               ELSE desk[r].lines \cup {<<f, Rounded(Cost(r, f))>>}
           /\ \A q \in Requests \ {r} : desk'[q] = desk[q]
           /\ desk'[r].at = "lines" /\ desk'[r].student = desk[r].student
           /\ desk'[r].left = desk[r].left /\ desk'[r].owed = desk[r].owed
      BY <1>0, <2>4, LineOrNothing
    <3>2. ASSUME NEW a \in desk'[r].owed \cap assigned', Costly(a)
          PROVE  Due(r, a)' /\ desk'[r].at # "done"
      <4>1. a \in assigned /\ a[1] \in issued /\ a = <<a[1], a[2]>>
        BY <1>0, <1>1, <3>1, <3>2 DEF TypeOK
      <4>2. Due(r, a)
        BY <1>0, <3>1, <3>2, <4>1 DEF Owing
      <4>3. desk[r].lines \subseteq desk'[r].lines
        BY <3>1
      <4>4. CASE a[1] = f /\ a[2] = desk[r].student
        <5>1. Cost(r, f) # 0
          BY <1>0, <3>1, <3>2, <4>1, <4>4, CostlyLine
        <5>2. <<f, Rounded(Cost(r, f))>> \in desk'[r].lines
          BY <3>1, <5>1
        <5>3. \E l \in desk'[r].lines : l[1] = a[1]
          BY <4>4, <5>2
        <5> QED
          BY <3>1, <4>4, <5>3 DEF Due
      <4>5. CASE ~(a[1] = f /\ a[2] = desk[r].student)
        BY <3>1, <4>2, <4>3, <4>5 DEF Due
      <4> QED
        BY <4>4, <4>5
    <3> QED
      BY <1>2, <3>1, <3>2 DEF Owing
  <2>5. CASE CommitInvoice(r)
    <3>1. /\ desk[r].at = "lines" /\ desk[r].found = {} /\ desk'[r].at = "students"
          /\ desk'[r].left = desk[r].left /\ Others(r)
          /\ desk'[r].owed = desk[r].owed
                               \ {<<l[1], desk[r].student>> : l \in desk[r].lines}
      BY <1>0, <2>5, CommitFields
    <3>2. ASSUME NEW a \in desk'[r].owed \cap assigned', Costly(a)
          PROVE  Due(r, a)' /\ desk'[r].at # "done"
      <4>1. a \in desk[r].owed /\ a \in assigned /\ a = <<a[1], a[2]>>
        BY <1>0, <1>1, <3>1, <3>2 DEF TypeOK
      <4>2. Due(r, a)
        BY <1>0, <3>1, <3>2, <4>1 DEF Owing
      <4>3. ~(a[2] = desk[r].student /\ \E l \in desk[r].lines : l[1] = a[1])
        BY <3>1, <3>2, <4>1
      <4> QED
        BY <3>1, <4>2, <4>3 DEF Due
    <3> QED
      BY <1>2, <3>1, <3>2 DEF Owing, Others
  <2>6. CASE EndBulk(r)
    <3>1. /\ desk[r].at = "students" /\ desk[r].left = {} /\ assigned' = assigned
          /\ desk'[r].owed = desk[r].owed /\ Others(r)
      BY <1>0, <2>6, FinishFields DEF EndBulk, tables
    <3>2. \A a \in desk[r].owed \cap assigned : ~Costly(a)
      BY <1>0, <3>1 DEF Owing, Due
    <3> QED
      BY <1>2, <3>1, <3>2 DEF Owing, Others
  <2>7. CASE CannotBill(r)
    BY <1>0, <1>4, <2>7, LeaveFields DEF CannotBill
  <2> QED
    BY <1>6, <2>1, <2>2, <2>3, <2>4, <2>5, <2>6, <2>7 DEF Bulk
<1>7. ASSUME NEW r \in Requests, NEW how \in {"done", "failed"}, Leave(r, how)
      PROVE  \A q \in Requests : Owing(q)'
  BY <1>0, <1>4, <1>7, LeaveFields
<1>8. ASSUME NEW r \in Requests, Assign(r) PROVE \A q \in Requests : Owing(q)'
  <2>1. \/ desk'[r].at \in {"pick", "create", "failed"} /\ Others(r)
        \/ Finish(r) /\ desk[r].at = "pick"
    <3>1. CASE BeginAssign(r)
      BY <1>0, <3>1, OpenFields DEF BeginAssign
    <3>2. CASE PickStudent(r)
      BY <1>0, <3>2, PickFields
    <3>3. CASE CreateAssignment(r)
      BY <1>0, <3>3, CreateFields
    <3> QED
      BY <1>8, <3>1, <3>2, <3>3 DEF Assign, EndAssign
  <2>2. CASE Finish(r) /\ desk[r].at = "pick"
    BY <1>0, <1>4, <2>2, FinishFields DEF Typed, Placed
  <2> QED
    BY <1>5, <2>1, <2>2
<1>9. ASSUME NEW r \in Requests, Destroy(r) PROVE \A q \in Requests : Owing(q)'
  <2>1. \/ desk'[r].at \in {"check", "destroy", "delete"} /\ Others(r)
        \/ \E how \in {"done", "failed"} : Leave(r, how)
    BY <1>0, <1>9, OpenFields, CheckFields, DependentFields, DeletionLasts
       DEF Destroy, BeginDestroy, CheckUnassigned
  <2> QED
    BY <1>5, <1>7, <2>1
<1> QED
  BY <1>3, <1>6, <1>7, <1>8, <1>9
     DEF Next, Fail, Rest, CreateFee, UpdateFee, DestroyInvoice, UpdateInvoice, vars

\* A bulk generation that ends well has billed all that costs something, of what
\* its students had as it began and still have, whatever is assigned, priced and
\* deleted meanwhile (invoice_generation_service.rb:62-81).
THEOREM NothingForgotten == Spec => []EveryAssignmentBilled
<1>1. Init => Billing
  BY InitTyped DEF Init, New, Billing, Priced, Recalled, Quoted, Owing
<1>2. Billing /\ [Next]_vars => Billing'
  BY TypedStep, PricedStep, RecalledStep, QuotedStep, OwingStep DEF Billing
<1>3. Billing => EveryAssignmentBilled
  BY DEF Billing, Owing, EveryAssignmentBilled
<1> QED
  BY <1>1, <1>2, <1>3, PTL DEF Spec
=============================================================================
