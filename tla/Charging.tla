------------------------------- MODULE Charging -------------------------------
(***************************************************************************)
(* Fees, the students they are assigned to, and the invoices generated     *)
(* from the assignments.  A bulk generation reads a student's assignments  *)
(* and their fees, then writes an invoice line by line in one transaction; *)
(* meanwhile others assign students, change prices and delete fees.        *)
(* Amounts are whole cents.                                                *)
(***************************************************************************)
EXTENDS Integers, FiniteSets

CONSTANTS
    Fees,        \* fee ids the database may hand out
    Students,
    Requests,    \* requests, each made once
    Prices,      \* amounts the form of each fee may hold
    Totals,      \* totals the form of an invoice may hold
    Concession,  \* what the school office grants each assignment; no form does
    None         \* no override of the fee's amount, no fee, no price

\* The columns of an assignment that decide what it costs.
Concessions == [exempt : BOOLEAN, override : Nat \cup {None}, percent : 0 .. 100,
                discount : Nat]

Assignments == Fees \X Students

ASSUME PricesAreCents == Prices \in [Fees -> SUBSET Nat]
ASSUME TotalsAreCents == Totals \subseteq Nat
ASSUME NoneIsNothing == None \notin Nat /\ None \notin Fees
ASSUME Granted == Concession \in [Assignments -> Concessions]
ASSUME FiniteFees == IsFiniteSet(Fees)

VARIABLES
    issued,     \* fee ids ever handed out
    fees,       \* the fees table
    price,
    assigned,   \* the fee_assignments table: unique by fee and student
    invoices,   \* the generated invoices, with their lines
    desk,       \* where each request stands
    contended   \* history: fees two requests were about at once

tables == <<issued, fees, price, assigned, invoices>>
vars == <<issued, fees, price, assigned, invoices, desk, contended>>

-----------------------------------------------------------------------------
(* FeeCalculationService.calculate, in hundredths of a cent.               *)

Base(c, p) == IF c.override # None THEN c.override ELSE p

\* Mutant: a discount greater than the base counts against the other fees.
NetUnclamped(c, p) ==
    IF c.exempt THEN 0 ELSE 100 * (Base(c, p) - c.discount) - Base(c, p) * c.percent

\* The part of the base that is left, never less than nothing.
Net(c, p) ==
    LET left == 100 * (Base(c, p) - c.discount) - Base(c, p) * c.percent
    IN  IF c.exempt \/ left < 0 THEN 0 ELSE left

\* FeeAssignment#effective_amount: a base of zero is returned as it is.
EffectiveAmount(c, p) ==
    LET base == Base(c, p)
        off == 100 * c.discount + base * c.percent
    IN  IF c.exempt THEN 0
        ELSE IF base = 0 THEN base
        ELSE IF 100 * base - off > 0 THEN 100 * base - off ELSE 0

\* unit_amount and amount have two decimals; half a cent is rounded up.
Rounded(n) == (n + 50) \div 100

-----------------------------------------------------------------------------
(* Typing, and a line of an invoice: what was charged for which fee.       *)

Line == Fees \X Nat
\* The student is the one whose assignments were charged; the form may give the invoice
\* another, and another status, which no property here tells apart.
Invoice == [run : Requests, student : Students, lines : SUBSET Line, total : Nat,
            edited : BOOLEAN]  \* history: the office has typed another total

Request == [at : {"new", "students", "fees", "lines", "pick", "create", "check",
                  "destroy", "delete", "done", "failed"},
            asked : SUBSET Students,   \* the students submitted
            left : SUBSET Students,    \* those it has not come to
            fee : Fees \cup {None},    \* the fee it is about
            student : Students \cup {None},
            found : SUBSET Fees,       \* the assignments it loaded
            quote : [Fees -> Nat \cup {None}],  \* the fees it loaded with them
            lines : SUBSET Line,       \* written, not committed
            total : Nat,               \* and the running total
            owed : SUBSET Assignments]  \* history: what was assigned as it began and
                                        \* its invoices have not charged

New == [at |-> "new", asked |-> {}, left |-> {}, fee |-> None, student |-> None,
        found |-> {}, quote |-> [f \in Fees |-> None], lines |-> {}, total |-> 0,
        owed |-> {}]

\* Typing; fees and what refers to them were handed out.
TypeOK ==
    /\ issued \subseteq Fees /\ fees \subseteq issued
    /\ price \in [Fees -> Nat]
    /\ assigned \subseteq issued \X Students
    /\ invoices \subseteq Invoice
    /\ desk \in [Requests -> Request]
    /\ \A r \in Requests : desk[r].fee \in issued \cup {None}
    /\ contended \subseteq Fees

Init ==
    /\ issued = {} /\ fees = {} /\ assigned = {} /\ invoices = {} /\ contended = {}
    /\ price = [f \in Fees |-> 0]
    /\ desk = [r \in Requests |-> New]

Working(r) == desk[r].at \notin {"new", "done", "failed"}

Become(r, d) == desk' = [desk EXCEPT ![r] = d]
Goto(r, step) == Become(r, [desk[r] EXCEPT !.at = step])

\* The answer; what was asked for is remembered after a request that ended well.
Leave(r, how) == Become(r, [New EXCEPT !.at = how])
Finish(r) ==
    Become(r, [New EXCEPT !.at = "done", !.asked = desk[r].asked, !.fee = desk[r].fee,
                          !.owed = desk[r].owed])

\* A statement of r raises, or its thread dies: the open transaction is undone.
Fail(r) ==
    /\ Working(r)
    /\ Leave(r, "failed")
    /\ UNCHANGED <<tables, contended>>

\* The students a form names; with none a request changes nothing.
Forms == SUBSET Students \ {{}}

-----------------------------------------------------------------------------
(* FeesController#create, #update.                                         *)

CreateFee(f, p) ==
    /\ f \notin issued
    /\ issued' = issued \cup {f} /\ fees' = fees \cup {f}
    /\ price' = [price EXCEPT ![f] = p]
    /\ UNCHANGED <<assigned, invoices, desk, contended>>

UpdateFee(f, p) ==
    /\ f \in fees
    /\ price' = [price EXCEPT ![f] = p]
    /\ UNCHANGED <<issued, fees, assigned, invoices, desk, contended>>

-----------------------------------------------------------------------------
(* InvoicesController#create_bulk: InvoiceGenerationService.               *)

BeginBulk(r) ==
    \E ids \in Forms :
        /\ desk[r].at = "new"
        /\ Become(r, [desk[r] EXCEPT !.at = "students", !.left = ids,
                                     !.owed = {a \in assigned : a[2] \in ids}])
        /\ UNCHANGED <<tables, contended>>

\* Mutant: return for next, so a student without assignments ends the loop.
FindOrReturn(r) ==
    \E s \in desk[r].left :
        LET found == {f \in Fees : <<f, s>> \in assigned} IN
        /\ desk[r].at = "students"
        /\ \/ found = {} /\ Become(r, [desk[r] EXCEPT !.left = {}])
           \/ found # {} /\ Become(r, [desk[r] EXCEPT !.at = "fees", !.left = @ \ {s},
                                                      !.student = s, !.found = found])
        /\ UNCHANGED <<tables, contended>>

\* fee_assignments_for: the assignments; a student without any gets no invoice.
\* Nothing in the application takes an assignment out of "pending".
FindAssignments(r) ==
    \E s \in desk[r].left :
        LET found == {f \in Fees : <<f, s>> \in assigned} IN
        /\ desk[r].at = "students"
        /\ \/ found = {} /\ Become(r, [desk[r] EXCEPT !.left = @ \ {s}])
           \/ found # {} /\ Become(r, [desk[r] EXCEPT !.at = "fees", !.left = @ \ {s},
                                                      !.student = s, !.found = found])
        /\ UNCHANGED <<tables, contended>>

\* includes(:fee) loads the fees in a second statement.
LoadFees(r) ==
    /\ desk[r].at = "fees"
    /\ Become(r, [desk[r] EXCEPT
           !.at = "lines",
           !.quote = [f \in Fees |-> IF f \in fees \cap desk[r].found THEN price[f]
                                                                     ELSE None]])
    /\ UNCHANGED <<tables, contended>>

Cost(r, f) == Net(Concession[<<f, desk[r].student>>], desk[r].quote[f])

\* The fee was deleted before it was loaded (nil) and its amount or its name is
\* asked for, or the assignment was before the line is inserted (foreign key).
Raises(r, f) ==
    LET c == Concession[<<f, desk[r].student>>]
        nil == desk[r].quote[f] = None
    IN  /\ ~c.exempt
        /\ \/ nil /\ c.override = None
           \/ /\ nil => c.override # None
              /\ Cost(r, f) > 0
              /\ nil \/ <<f, desk[r].student>> \notin assigned

\* Mutant: a fee that costs nothing is an ordinary line, and the total is of the
\* whole cents calculated.
CreateLineTruncated(r) ==
    \E f \in desk[r].found :
        /\ desk[r].at = "lines" /\ ~Raises(r, f)
        /\ Become(r, [desk[r] EXCEPT !.found = @ \ {f},
                                     !.lines = @ \cup {<<f, Rounded(Cost(r, f))>>},
                                     !.total = @ + Cost(r, f) \div 100])
        /\ UNCHANGED <<tables, contended>>

\* One assignment after the other; nothing due makes no line.
CreateLine(r) ==
    \E f \in desk[r].found :
        /\ desk[r].at = "lines" /\ ~Raises(r, f)
        /\ Become(r, [desk[r] EXCEPT
               !.found = @ \ {f},
               !.lines = IF Cost(r, f) = 0 THEN @ ELSE @ \cup {<<f, Rounded(Cost(r, f))>>},
               !.total = IF Cost(r, f) = 0 THEN @ ELSE @ + Rounded(Cost(r, f))])
        /\ UNCHANGED <<tables, contended>>

\* The request raises, and the invoices of the students before stay.
CannotBill(r) ==
    /\ desk[r].at = "lines"
    /\ \E f \in desk[r].found : Raises(r, f)
    /\ Leave(r, "failed")
    /\ UNCHANGED <<tables, contended>>

CommitInvoice(r) ==
    LET d == desk[r] IN
    /\ d.at = "lines" /\ d.found = {}
    /\ invoices' = invoices \cup {[run |-> r, student |-> d.student, lines |-> d.lines,
                                   total |-> d.total, edited |-> FALSE]}
    /\ Become(r, [d EXCEPT !.at = "students", !.lines = {}, !.total = 0,
                           !.student = None, !.quote = New.quote,
                           !.owed = @ \ {<<l[1], d.student>> : l \in d.lines}])
    /\ UNCHANGED <<issued, fees, price, assigned, contended>>

EndBulk(r) ==
    /\ desk[r].at = "students" /\ desk[r].left = {}
    /\ Finish(r)
    /\ UNCHANGED <<tables, contended>>

\* InvoicesController#update: the form of a generated invoice has its total, and not its
\* lines.  The loaded total is written back when nobody typed another.
UpdateInvoice(i, t) ==
    /\ i \in invoices
    /\ invoices' = (invoices \ {i}) \cup
                       {[i EXCEPT !.total = t, !.edited = @ \/ t # i.total]}
    /\ UNCHANGED <<issued, fees, price, assigned, desk, contended>>

\* InvoicesController#destroy, with the lines.  Which statuses let an invoice go, and
\* that they may change after it was asked, is for Billing: here any may.
DestroyInvoice(i) ==
    /\ i \in invoices
    /\ invoices' = invoices \ {i}
    /\ UNCHANGED <<issued, fees, price, assigned, desk, contended>>

-----------------------------------------------------------------------------
(* FeesController#update_assignments.                                      *)

\* set_fee; two requests about one fee at once are noted.
OpenFee(r, f, step, ids) ==
    /\ desk[r].at = "new" /\ f \in fees
    /\ Become(r, [desk[r] EXCEPT !.at = step, !.fee = f, !.asked = ids, !.left = ids])
    /\ contended' = IF \E q \in Requests : Working(q) /\ desk[q].fee = f
                    THEN contended \cup {f} ELSE contended
    /\ UNCHANGED tables

BeginAssign(r) ==
    \E f \in Fees, ids \in Forms : OpenFee(r, f, "pick", ids)

\* The next student, unless assigned already.
PickStudent(r) ==
    \E s \in desk[r].left :
        /\ desk[r].at = "pick"
        /\ \/ /\ <<desk[r].fee, s>> \in assigned
              /\ Become(r, [desk[r] EXCEPT !.left = @ \ {s}])
           \/ /\ <<desk[r].fee, s>> \notin assigned
              /\ Become(r, [desk[r] EXCEPT !.at = "create", !.left = @ \ {s}, !.student = s])
        /\ UNCHANGED <<tables, contended>>

\* Mutant: a fee deleted since is not noticed.
CreateAssignmentAnyway(r) ==
    LET d == desk[r] IN
    /\ d.at = "create" /\ assigned' = assigned \cup {<<d.fee, d.student>>}
    /\ Goto(r, "pick")
    /\ UNCHANGED <<issued, fees, price, invoices, contended>>

\* create! raises if the student was assigned, or the fee deleted, since.
CreateAssignment(r) ==
    LET a == <<desk[r].fee, desk[r].student>> IN
    /\ desk[r].at = "create"
    /\ \/ /\ a \notin assigned /\ a[1] \in fees
          /\ assigned' = assigned \cup {a}
          /\ Become(r, [desk[r] EXCEPT !.at = "pick", !.student = None])
       \/ /\ a \in assigned \/ a[1] \notin fees
          /\ UNCHANGED assigned
          /\ Leave(r, "failed")
    /\ UNCHANGED <<issued, fees, price, invoices, contended>>

EndAssign(r) ==
    /\ desk[r].at = "pick" /\ desk[r].left = {}
    /\ Finish(r)
    /\ UNCHANGED <<tables, contended>>

-----------------------------------------------------------------------------
(* FeesController#destroy.                                                 *)

BeginDestroy(r) == \E f \in Fees : OpenFee(r, f, "check", {})

AssignmentsOf(f) == {a \in assigned : a[1] = f}

\* Mutant: fee_assignments.any? is not asked.
CheckNothing(r) ==
    desk[r].at = "check" /\ Goto(r, "destroy") /\ UNCHANGED <<tables, contended>>

CheckUnassigned(r) ==
    /\ desk[r].at = "check"
    /\ \/ AssignmentsOf(desk[r].fee) # {} /\ Leave(r, "done")
       \/ AssignmentsOf(desk[r].fee) = {} /\ Goto(r, "destroy")
    /\ UNCHANGED <<tables, contended>>

\* dependent: :destroy loads the assignments there are by now.
LoadDependents(r) ==
    /\ desk[r].at = "destroy"
    /\ Become(r, [desk[r] EXCEPT
           !.at = "delete",
           !.left = {s \in Students : <<desk[r].fee, s>> \in assigned}])
    /\ UNCHANGED <<tables, contended>>

Doomed(r) == {desk[r].fee} \X desk[r].left

\* Assignments that lines refer to; the lines a transaction has not committed
\* hold theirs, and a deletion waits.
Billed == UNION {{<<l[1], i.student>> : l \in i.lines} : i \in invoices}
Held == UNION {{<<l[1], desk[q].student>> : l \in desk[q].lines} :
                   q \in {p \in Requests : desk[p].at = "lines"}}

\* Mutant: assignments are deleted, each by itself, before the fee.
DeleteInParts(r) ==
    LET f == desk[r].fee IN
    /\ desk[r].at = "delete" /\ Doomed(r) \cap Held = {}
    /\ assigned' = assigned \ (Doomed(r) \ Billed)
    /\ fees' = IF AssignmentsOf(f) \subseteq Doomed(r) \ Billed THEN fees \ {f} ELSE fees
    /\ Leave(r, "done")
    /\ UNCHANGED <<issued, price, invoices, contended>>

\* One transaction deletes the assignments loaded and the fee; a line that refers
\* to one of them, or an assignment made since, makes it raise and undoes it all.
DeleteFee(r) ==
    LET f == desk[r].fee IN
    /\ desk[r].at = "delete" /\ Doomed(r) \cap Held = {}
    /\ \/ /\ Doomed(r) \cap Billed = {} /\ AssignmentsOf(f) \subseteq Doomed(r)
          /\ assigned' = assigned \ Doomed(r) /\ fees' = fees \ {f}
          /\ Leave(r, "done")
       \/ /\ Doomed(r) \cap Billed # {} \/ ~(AssignmentsOf(f) \subseteq Doomed(r))
          /\ UNCHANGED <<assigned, fees>>
          /\ Leave(r, "failed")
    /\ UNCHANGED <<issued, price, invoices, contended>>

-----------------------------------------------------------------------------
Bulk(r) ==
    \/ BeginBulk(r) \/ FindAssignments(r) \/ LoadFees(r) \/ CreateLine(r)
    \/ CannotBill(r) \/ CommitInvoice(r) \/ EndBulk(r)

Assign(r) == BeginAssign(r) \/ PickStudent(r) \/ CreateAssignment(r) \/ EndAssign(r)

Destroy(r) ==
    BeginDestroy(r) \/ CheckUnassigned(r) \/ LoadDependents(r) \/ DeleteFee(r)

\* Every request has been answered.
Rest == (\A r \in Requests : desk[r].at \in {"done", "failed"}) /\ UNCHANGED vars

Next ==
    \/ \E f \in Fees : \E p \in Prices[f] : CreateFee(f, p) \/ UpdateFee(f, p)
    \/ \E r \in Requests : Bulk(r) \/ Assign(r) \/ Destroy(r) \/ Fail(r)
    \/ \E i \in invoices : DestroyInvoice(i) \/ \E t \in Totals : UpdateInvoice(i, t)
    \/ Rest

Spec == Init /\ [][Next]_vars

-----------------------------------------------------------------------------
(* Properties.                                                             *)

\* Every line refers to an assignment that exists and every assignment to a fee
\* that does, whatever is generated, assigned and deleted at once (schema.rb:354,
\* 356; fee.rb:2).
ReferencesLive == Billed \subseteq assigned /\ \A a \in assigned : a[1] \in fees

\* A sum of amounts is counted cent by cent.
Cents(lines) == UNION {{<<l, n>> : n \in 1 .. l[2]} : l \in lines}

\* The total of a generated invoice is the sum of its lines as they are stored,
\* to the cent, unless the office has typed another (invoices_controller.rb:61, 140,
\* which asks for no such sum); and it has one line for each fee
\* (invoice_generation_service.rb:33-48).
TotalsMatchLines ==
    \A i \in invoices :
        /\ i.edited \/ i.total = Cardinality(Cents(i.lines))
        /\ \A k, l \in i.lines : k[1] = l[1] => k = l

\* What costs something whatever the price of its fee is now.
Costly(a) == \A p \in Prices[a[1]] : Net(Concession[a], p) > 0

\* A bulk generation that ends well has billed every assignment that its students
\* had as it began and still have (invoice_generation_service.rb:62-81).
EveryAssignmentBilled ==
    \A r \in Requests :
        desk[r].at = "done" =>
            \A a \in desk[r].owed \cap assigned : ~Costly(a)

\* A request that ends well leaves its students assigned to the fee, unless the
\* fee is gone with its assignments (fees_controller.rb:95-102, 76).
AssignmentsStick ==
    \A r \in Requests :
        desk[r].at = "done" /\ desk[r].fee \in fees =>
            \A s \in desk[r].asked : <<desk[r].fee, s>> \in assigned

\* Deleting a fee takes nobody's assignment away, unless two requests were about
\* the fee at once (fees_controller.rb:74).
UnassignedWhenDeleted == [][\A a \in assigned \ assigned' : a[1] \in contended]_vars
=============================================================================
