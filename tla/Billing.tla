------------------------------- MODULE Billing -------------------------------
(***************************************************************************)
(* Invoices, the transactions recorded against them, and the pipeline that *)
(* runs after a transaction commits (app/models/transaction.rb): look the  *)
(* invoice up, SUM its payments, reload it, mark it paid, write two audit  *)
(* entries.  Every one of these is a database statement of its own, so the *)
(* pipelines of concurrent requests, and the edits and deletions staff     *)
(* make, interleave between them.  Amounts are whole cents.                *)
(***************************************************************************)
EXTENDS Integers, FiniteSets

CONSTANTS
    Invoices,       \* invoice ids the database may hand out
    Txns,           \* requests that record a transaction, named by its id
    Staff,          \* requests in which an admin edits or deletes an invoice
    MayCrash,       \* the recording requests that may be killed half way
    Submissions,    \* the transaction rows a form may submit
    InvoiceForms,   \* the invoice rows a form may submit
    MaxAmount,      \* bound on the size of one transaction
    None            \* a transaction without an invoice

Statuses == {"draft", "pending", "paid", "overdue", "cancelled"}
TransactionTypes == {"payment", "refund", "adjustment"}

\* amount: validated other_than 0; a negative payment is accepted.
TransactionRow == [invoice : Invoices \cup {None}, kind : TransactionTypes,
                   amount : (-MaxAmount .. MaxAmount) \ {0}]
InvoiceRow == [status : Statuses, total : Nat, issue : Nat, due : Nat]

ASSUME NoneIsNoInvoice == None \notin Invoices
ASSUME FiniteTxns == IsFiniteSet(Txns)
ASSUME BoundedAmounts == MaxAmount \in Nat \ {0}
ASSUME FormsAreRows == /\ Submissions \subseteq TransactionRow
                       /\ InvoiceForms \subseteq InvoiceRow
                       /\ MayCrash \subseteq Txns

VARIABLES
    issued,    \* invoice ids ever handed out; an id is never used twice
    live,      \* invoices in the table
    invoice,   \* the invoice rows
    rows,      \* transactions in the table
    txn,       \* the transaction rows
    pc,        \* where the request recording a transaction stands
    ref,       \* the invoice_id its in-memory transaction holds
    sumRead,   \* total_paid, the SUM it read
    copy,      \* the invoice as it reloaded it
    audit,     \* audit entries, named by action and recording request
    staff,     \* the request of each staff member
    touched    \* history: invoices whose standing a person changed by hand

db == <<issued, live, invoice, rows, txn>>
request == <<pc, ref, sumRead, copy>>
vars == <<issued, live, invoice, rows, txn, pc, ref, sumRead, copy, audit,
          staff, touched>>

Steps == {"new", "lookup", "sum", "reload", "settle", "log", "audit", "done",
          "failed"}
Running(t) == pc[t] \notin {"new", "done", "failed"}

\* Invoice#due_date_after_issue_date.
ValidDates(r) == r.due >= r.issue

Blank == [status |-> "draft", total |-> 0, issue |-> 0, due |-> 0]
Idle == [at |-> "idle", on |-> None, row |-> Blank, held |-> {}]

Typed ==
    /\ issued \subseteq Invoices /\ live \subseteq issued
    /\ invoice \in [Invoices -> InvoiceRow]
    /\ rows \subseteq Txns
    /\ txn \in [Txns -> [invoice : Invoices \cup {None},
                         kind : TransactionTypes,
                         amount : -MaxAmount .. MaxAmount]]
    /\ pc \in [Txns -> Steps]
    /\ ref \in [Txns -> Invoices \cup {None}]
    /\ sumRead \in [Txns -> Int]
    /\ copy \in [Txns -> InvoiceRow]
    /\ audit \subseteq {"invoice.reconciled", "transaction.created"} \X Txns
    /\ staff \in [Staff -> [at : {"idle", "open", "deleting"},
                            on : Invoices \cup {None},
                            row : InvoiceRow, held : SUBSET Txns]]
    /\ touched \subseteq Invoices

\* Typing, and the validation that spans two columns: the row of an invoice nobody
\* changed by hand is due on its day of issue or later, so that the update! of
\* reconcile_invoice passes validation.  Two edits that overlap are an exception:
\* each is validated against the row it loaded and writes one of the dates.
TypeOK ==
    /\ Typed
    /\ \A i \in live \ touched : ValidDates(invoice[i])

Init ==
    /\ issued = {} /\ live = {} /\ rows = {} /\ audit = {} /\ touched = {}
    /\ invoice = [i \in Invoices |-> Blank]
    /\ txn = [t \in Txns |-> [invoice |-> None, kind |-> "payment", amount |-> 0]]
    /\ pc = [t \in Txns |-> "new"]
    /\ ref = [t \in Txns |-> None]
    /\ sumRead = [t \in Txns |-> 0]
    /\ copy = [t \in Txns |-> Blank]
    /\ staff = [s \in Staff |-> Idle]

-----------------------------------------------------------------------------
(* Sums.  A SUM over a set of rows is counted cent by cent, credits minus  *)
(* debits, so that facts about it are facts about cardinalities.           *)

Referencing(i) == {t \in rows : txn[t].invoice = i}
Payments(i) == {t \in Referencing(i) : txn[t].kind = "payment"}
Credits(S) == {c \in S \X (1 .. MaxAmount) : c[2] <= txn[c[1]].amount}
Debits(S) == {c \in S \X (1 .. MaxAmount) : c[2] <= -txn[c[1]].amount}
SumAmount(S) == Cardinality(Credits(S)) - Cardinality(Debits(S))

-----------------------------------------------------------------------------
(* Recording a transaction: TransactionsController#create and the          *)
(* after_commit callbacks of Transaction.                                  *)

NeedsReconcile(r) == r.invoice # None /\ r.kind = "payment" /\ r.amount > 0

\* Mutant: the SUM is read before the commit and does not see this payment.
RecordTransactionEarlySum(t, r) ==
    /\ pc[t] = "new"
    /\ r.invoice \in live \cup {None}
    /\ rows' = rows \cup {t}
    /\ txn' = [txn EXCEPT ![t] = r]
    /\ ref' = [ref EXCEPT ![t] = r.invoice]
    /\ sumRead' = [sumRead EXCEPT ![t] = SumAmount(Payments(r.invoice))]
    /\ pc' = [pc EXCEPT ![t] = IF NeedsReconcile(r) THEN "reload" ELSE "audit"]
    /\ UNCHANGED <<issued, live, invoice, copy, audit, staff, touched>>

\* The INSERT commits.  Any invoice id is accepted, whatever its status; the
\* foreign key refuses one that does not exist.
RecordTransaction(t, r) ==
    /\ pc[t] = "new"
    /\ r.invoice \in live \cup {None}
    /\ rows' = rows \cup {t}
    /\ txn' = [txn EXCEPT ![t] = r]
    /\ ref' = [ref EXCEPT ![t] = r.invoice]
    /\ pc' = [pc EXCEPT ![t] = IF NeedsReconcile(r) THEN "lookup" ELSE "audit"]
    /\ UNCHANGED <<issued, live, invoice, sumRead, copy, audit, staff, touched>>

Goto(t, step) == pc' = [pc EXCEPT ![t] = step]

\* `invoice` in reconcile_invoice loads the association; it is nil when the
\* invoice has been deleted since, and nil.reload raises.
LookupInvoice(t) ==
    /\ pc[t] = "lookup"
    /\ Goto(t, IF ref[t] \in live THEN "sum" ELSE "failed")
    /\ UNCHANGED <<db, ref, sumRead, copy, audit, staff, touched>>

\* Mutant: the payments scope is missing, so refunds count as money paid.
SumOfAnyKind(t) ==
    /\ pc[t] = "sum"
    /\ sumRead' = [sumRead EXCEPT ![t] = SumAmount(Referencing(ref[t]))]
    /\ Goto(t, "reload")
    /\ UNCHANGED <<db, ref, copy, audit, staff, touched>>

SumPayments(t) ==
    /\ pc[t] = "sum"
    /\ sumRead' = [sumRead EXCEPT ![t] = SumAmount(Payments(ref[t]))]
    /\ Goto(t, "reload")
    /\ UNCHANGED <<db, ref, copy, audit, staff, touched>>

\* Mutant: > for >=, so paying exactly the total settles nothing.
ReloadInvoiceStrict(t) ==
    /\ pc[t] = "reload"
    /\ ref[t] \in live
    /\ copy' = [copy EXCEPT ![t] = invoice[ref[t]]]
    /\ Goto(t, IF sumRead[t] > invoice[ref[t]].total THEN "settle" ELSE "audit")
    /\ UNCHANGED <<db, ref, sumRead, audit, staff, touched>>

\* reload raises when the row is gone.  The total compared is the reloaded one.
ReloadInvoice(t) ==
    /\ pc[t] = "reload"
    /\ \/ /\ ref[t] \notin live
          /\ Goto(t, "failed")
          /\ UNCHANGED copy
       \/ /\ ref[t] \in live
          /\ copy' = [copy EXCEPT ![t] = invoice[ref[t]]]
          /\ Goto(t, IF sumRead[t] >= invoice[ref[t]].total
                     THEN "settle" ELSE "audit")
    /\ UNCHANGED <<db, ref, sumRead, audit, staff, touched>>

\* Mutant: the invoice.reconciled entry is skipped.
MarkPaidSilently(t) ==
    /\ pc[t] = "settle"
    /\ Goto(t, "audit")
    /\ invoice' = IF ref[t] \in live
                  THEN [invoice EXCEPT ![ref[t]].status = "paid"] ELSE invoice
    /\ UNCHANGED <<issued, live, rows, txn, ref, sumRead, copy, audit, staff,
                   touched>>

\* update!(status: :paid) validates the reloaded copy and writes the status
\* column only if the copy did not hold it already; on a row deleted since, the
\* UPDATE matches nothing and raises nothing.
MarkPaid(t) ==
    /\ pc[t] = "settle"
    /\ \/ /\ ~ValidDates(copy[t])
          /\ Goto(t, "failed")
          /\ UNCHANGED invoice
       \/ /\ ValidDates(copy[t])
          /\ Goto(t, "log")
          /\ invoice' = IF copy[t].status # "paid" /\ ref[t] \in live
                        THEN [invoice EXCEPT ![ref[t]].status = "paid"]
                        ELSE invoice
    /\ UNCHANGED <<issued, live, rows, txn, ref, sumRead, copy, audit, staff,
                   touched>>

LogReconciled(t) ==
    /\ pc[t] = "log"
    /\ audit' = audit \cup {<<"invoice.reconciled", t>>}
    /\ Goto(t, "audit")
    /\ UNCHANGED <<db, ref, sumRead, copy, staff, touched>>

LogCreated(t) ==
    /\ pc[t] = "audit"
    /\ audit' = audit \cup {<<"transaction.created", t>>}
    /\ Goto(t, "done")
    /\ UNCHANGED <<db, ref, sumRead, copy, staff, touched>>

\* The process is killed, or a statement of the pipeline fails, after the
\* commit.  Nothing resumes the pipeline.
Crash(t) ==
    /\ t \in MayCrash
    /\ Running(t)
    /\ Goto(t, "failed")
    /\ UNCHANGED <<db, ref, sumRead, copy, audit, staff, touched>>

-----------------------------------------------------------------------------
(* Staff: InvoicesController and the edits of TransactionsController.      *)

\* Mutant: the row is saved without its validations (save(validate: false)).
CreateInvoiceUnvalidated(i, f) ==
    /\ i \notin issued
    /\ issued' = issued \cup {i}
    /\ live' = live \cup {i}
    /\ invoice' = [invoice EXCEPT ![i] = f]
    /\ touched' = IF f.status = "paid" THEN touched \cup {i} ELSE touched
    /\ UNCHANGED <<rows, txn, request, audit, staff>>

\* InvoicesController#create, and the commit of a generated invoice.
CreateInvoice(i, f) ==
    /\ i \notin issued
    /\ ValidDates(f)
    /\ issued' = issued \cup {i}
    /\ live' = live \cup {i}
    /\ invoice' = [invoice EXCEPT ![i] = f]
    /\ touched' = IF f.status = "paid" THEN touched \cup {i} ELSE touched
    /\ UNCHANGED <<rows, txn, request, audit, staff>>

\* set_invoice, before update and destroy.
OpenInvoice(s, i) ==
    /\ staff[s].at = "idle"
    /\ i \in live
    /\ staff' = [staff EXCEPT ![s] =
                    [at |-> "open", on |-> i, row |-> invoice[i], held |-> {}]]
    /\ UNCHANGED <<db, request, audit, touched>>

\* Active Record writes the columns in which the form differs from the row the
\* request loaded, and leaves the others as the table has them by now.
Written(now, base, form) ==
    [status |-> IF form.status = base.status THEN now.status ELSE form.status,
     total  |-> IF form.total = base.total THEN now.total ELSE form.total,
     issue  |-> IF form.issue = base.issue THEN now.issue ELSE form.issue,
     due    |-> IF form.due = base.due THEN now.due ELSE form.due]

UpdateInvoice(s, f) ==
    LET i == staff[s].on IN
    /\ staff[s].at = "open"
    /\ staff' = [staff EXCEPT ![s] = Idle]
    /\ \/ /\ ValidDates(f) /\ i \in live
          /\ invoice' = [invoice EXCEPT ![i] = Written(invoice[i], staff[s].row, f)]
          /\ touched' = IF invoice' = invoice THEN touched ELSE touched \cup {i}
       \/ /\ ~ValidDates(f) \/ i \notin live
          /\ UNCHANGED <<invoice, touched>>
    /\ UNCHANGED <<issued, live, rows, txn, request, audit>>

Deletable(r) == r.status \in {"draft", "cancelled"}

RefuseDestroy(s) ==
    /\ staff[s].at = "open"
    /\ ~Deletable(staff[s].row)
    /\ staff' = [staff EXCEPT ![s] = Idle]
    /\ UNCHANGED <<db, request, audit, touched>>

Held == UNION {staff[s].held : s \in Staff}

\* destroy opens a database transaction and nullifies (dependent: :nullify) the
\* transactions that refer to the invoice now; it holds their row locks, and
\* the change is invisible to others until it commits.
BeginDestroy(s) ==
    LET i == staff[s].on IN
    /\ staff[s].at = "open"
    /\ Deletable(staff[s].row)
    /\ Referencing(i) \cap Held = {}
    /\ staff' = [staff EXCEPT ![s].at = "deleting", ![s].held = Referencing(i)]
    /\ UNCHANGED <<db, request, audit, touched>>

\* Mutant: the DELETE does not check for transactions committed since.
CommitDestroyUnchecked(s) ==
    /\ staff[s].at = "deleting"
    /\ staff' = [staff EXCEPT ![s] = Idle]
    /\ live' = live \ {staff[s].on}
    /\ txn' = [t \in Txns |-> IF t \in staff[s].held
                              THEN [txn[t] EXCEPT !.invoice = None] ELSE txn[t]]
    /\ UNCHANGED <<issued, invoice, rows, request, audit, touched>>

\* The DELETE fails on the foreign key if a transaction that refers to the
\* invoice was committed after the nullify; then all of it is rolled back.
CommitDestroy(s) ==
    LET i == staff[s].on
        held == staff[s].held
    IN  /\ staff[s].at = "deleting"
        /\ staff' = [staff EXCEPT ![s] = Idle]
        /\ \/ /\ Referencing(i) \subseteq held
              /\ live' = live \ {i}
              /\ txn' = [t \in Txns |-> IF t \in held
                                        THEN [txn[t] EXCEPT !.invoice = None]
                                        ELSE txn[t]]
           \/ /\ ~(Referencing(i) \subseteq held)
              /\ UNCHANGED <<live, txn>>
        /\ UNCHANGED <<issued, invoice, rows, request, audit, touched>>

\* TransactionsController#update: reconcile_invoice does not run (on: :create).
UpdateTransaction(t, r) ==
    /\ t \in rows \ Held
    /\ r.invoice \in live \cup {None}
    /\ txn' = [txn EXCEPT ![t] = r]
    /\ touched' = touched \cup ({txn[t].invoice, r.invoice} \ {None})
    /\ UNCHANGED <<issued, live, invoice, rows, request, audit, staff>>

DestroyTransaction(t) ==
    /\ t \in rows \ Held
    /\ rows' = rows \ {t}
    /\ touched' = touched \cup ({txn[t].invoice} \ {None})
    /\ UNCHANGED <<issued, live, invoice, txn, request, audit, staff>>

-----------------------------------------------------------------------------
Pipeline(t) ==
    \/ LookupInvoice(t) \/ SumPayments(t) \/ ReloadInvoice(t)
    \/ MarkPaid(t) \/ LogReconciled(t) \/ LogCreated(t)

InvoiceDesk(s) ==
    \/ \E i \in Invoices : OpenInvoice(s, i)
    \/ \E f \in InvoiceForms : UpdateInvoice(s, f)
    \/ RefuseDestroy(s) \/ BeginDestroy(s) \/ CommitDestroy(s)

\* Edits of transactions need a staff member too; with Staff = {} nobody edits.
TransactionDesk(t) ==
    /\ Staff # {}
    /\ \/ \E r \in Submissions : UpdateTransaction(t, r)
       \/ DestroyTransaction(t)

Next ==
    \/ \E i \in Invoices, f \in InvoiceForms : CreateInvoice(i, f)
    \/ \E t \in Txns : \/ \E r \in Submissions : RecordTransaction(t, r)
                       \/ Pipeline(t)
                       \/ Crash(t)
                       \/ TransactionDesk(t)
    \/ \E s \in Staff : InvoiceDesk(s)

Spec == Init /\ [][Next]_vars

\* A Puma thread that has committed goes on with its callbacks.
FairSpec == Spec /\ \A t \in Txns : WF_vars(Pipeline(t))
-----------------------------------------------------------------------------
(* Properties.                                                             *)

InFlight(i) == \E t \in Txns : Running(t) /\ ref[t] = i
Dead(i) == \E t \in Txns : pc[t] = "failed" /\ ref[t] = i
Covered(i) == /\ \E t \in Payments(i) : txn[t].amount > 0
              /\ SumAmount(Payments(i)) >= invoice[i].total

\* An invoice whose standing nobody changed by hand is paid only if the positive
\* payments recorded against it add up to its total, however the SUMs, reloads
\* and updates of concurrent requests interleave (transaction.rb:41-44).
PaidIsCovered ==
    \A i \in live \ touched :
        invoice[i].status = "paid" =>
            Cardinality(Credits(Payments(i))) >= invoice[i].total

\* No lost reconcile: once the requests recording payments for an invoice have
\* come to rest, none of them killed, an invoice its payments cover is paid.  Two
\* payments that each read the SUM while the other was in flight do not both
\* miss the total (transaction.rb:26, 41-44).
NoLostReconcile ==
    \A i \in live \ touched :
        Covered(i) /\ ~InFlight(i) /\ ~Dead(i) => invoice[i].status = "paid"

\* An invoice that became paid without a person doing it has an
\* invoice.reconciled entry, unless the request that owed it was killed; and no
\* such entry stands for an invoice that is not paid (transaction.rb:44-45).
ReconcileAudited ==
    \A i \in live \ touched :
        LET logged == \E t \in Txns :
                          ref[t] = i /\ <<"invoice.reconciled", t>> \in audit
        IN  /\ invoice[i].status = "paid" /\ ~InFlight(i) /\ ~Dead(i) => logged
            /\ logged => invoice[i].status = "paid"

\* The deletion of an invoice leaves no transaction referring to it, also when
\* payments are recorded or moved while it runs (invoice.rb:4).
ReferencesLive == \A t \in rows : txn[t].invoice \in live \cup {None}

\* "Only draft or cancelled invoices can be deleted."
\* (invoices_controller.rb:74).
OnlyDraftOrCancelledDeleted ==
    [][\A i \in live \ live' : Deletable(invoice[i])]_vars

\* A covered invoice is eventually paid, or the claim lapses: the invoice is
\* deleted, edited by hand, no longer covered, or a recording request died.
CoveredIsSettled ==
    \A i \in Invoices :
        Covered(i) ~> \/ invoice[i].status = "paid" \/ ~Covered(i)
                      \/ i \in touched \/ i \notin live \/ Dead(i)
=============================================================================
