---------------------------- MODULE BillingProofs ----------------------------
(* Proofs about Billing: typing, and the three properties that relate an   *)
(* invoice's status to the transactions recorded against it.               *)
EXTENDS Billing, FiniteSetTheorems, TLAPS

-----------------------------------------------------------------------------
(* Sums.                                                                   *)

Units == Txns \X (1 .. MaxAmount)
CreditSum(i) == Cardinality(Credits(Payments(i)))
DebitSum(i) == Cardinality(Debits(Payments(i)))

LEMMA FiniteUnits == IsFiniteSet(Units)
<1>1. IsFiniteSet(1 .. MaxAmount)
  BY BoundedAmounts, FS_Interval
<1> QED
  BY <1>1, FiniteTxns, FS_Product DEF Units

\* Credits and debits of any set of transactions are numbers.
LEMMA SumsAreNumbers ==
  ASSUME NEW S \in SUBSET Txns
  PROVE  /\ IsFiniteSet(Credits(S)) /\ Cardinality(Credits(S)) \in Nat
         /\ IsFiniteSet(Debits(S)) /\ Cardinality(Debits(S)) \in Nat
         /\ SumAmount(S) \in Int
<1>1. Credits(S) \subseteq Units /\ Debits(S) \subseteq Units
  BY DEF Credits, Debits, Units
<1>2. /\ IsFiniteSet(Credits(S)) /\ Cardinality(Credits(S)) \in Nat
      /\ IsFiniteSet(Debits(S)) /\ Cardinality(Debits(S)) \in Nat
  BY <1>1, FiniteUnits, FS_Subset, FS_CardinalityType
<1> QED
  BY <1>2 DEF SumAmount

LEMMA SumIsInt ==
  ASSUME Typed, NEW i
  PROVE  SumAmount(Payments(i)) \in Int
  BY SumsAreNumbers DEF Typed, Payments, Referencing

-----------------------------------------------------------------------------
(* Typing.                                                                 *)

Request == [at : {"idle", "open", "deleting"}, on : Invoices \cup {None},
            row : InvoiceRow, held : SUBSET Txns]

LEMMA IdleIsRequest == Idle \in Request
  BY DEF Idle, Request, Blank, InvoiceRow, Statuses

LEMMA InitTyped == Init => Typed
  BY BoundedAmounts DEF Init, Typed, InvoiceRow, Blank, Idle, Statuses, Steps,
     TransactionTypes

LEMMA TypedStep == Typed /\ [Next]_vars => Typed'
<1> SUFFICES ASSUME Typed, [Next]_vars PROVE Typed'
  OBVIOUS
<1> USE DEF Typed
<1>1. ASSUME NEW i \in Invoices, NEW f \in InvoiceForms, CreateInvoice(i, f)
      PROVE  Typed'
  BY <1>1, FormsAreRows DEF CreateInvoice, request
<1>2. ASSUME NEW t \in Txns, NEW r \in Submissions, RecordTransaction(t, r)
      PROVE  Typed'
  BY <1>2, FormsAreRows, BoundedAmounts DEF RecordTransaction, TransactionRow, Steps
<1>3. ASSUME NEW t \in Txns, LookupInvoice(t) PROVE Typed'
  BY <1>3 DEF LookupInvoice, Goto, Steps, db
<1>4. ASSUME NEW t \in Txns, SumPayments(t) PROVE Typed'
  BY <1>4, SumIsInt DEF SumPayments, Goto, Steps, db
<1>5. ASSUME NEW t \in Txns, ReloadInvoice(t) PROVE Typed'
  BY <1>5 DEF ReloadInvoice, Goto, Steps, db
<1>6. ASSUME NEW t \in Txns, MarkPaid(t) PROVE Typed'
  <2>1. \A i \in Invoices :
           [invoice EXCEPT ![i].status = "paid"] \in [Invoices -> InvoiceRow]
    BY DEF InvoiceRow, Statuses
  <2>2. invoice' \in [Invoices -> InvoiceRow]
    <3>1. CASE ref[t] \in live
      BY <3>1, <2>1, <1>6 DEF MarkPaid
    <3>2. CASE ref[t] \notin live
      BY <3>2, <1>6 DEF MarkPaid
    <3> QED
      BY <3>1, <3>2
  <2> QED
    BY <2>2, <1>6 DEF MarkPaid, Goto, Steps
<1>7. ASSUME NEW t \in Txns, LogReconciled(t) PROVE Typed'
  BY <1>7 DEF LogReconciled, Goto, Steps, db
<1>8. ASSUME NEW t \in Txns, LogCreated(t) PROVE Typed'
  BY <1>8 DEF LogCreated, Goto, Steps, db
<1>9. ASSUME NEW t \in Txns, Crash(t) PROVE Typed'
  BY <1>9 DEF Crash, Goto, Steps, db
<1>10. ASSUME NEW s \in Staff, NEW i \in Invoices, OpenInvoice(s, i) PROVE Typed'
  BY <1>10 DEF OpenInvoice, db, request
<1>11. ASSUME NEW s \in Staff, NEW f \in InvoiceForms, UpdateInvoice(s, f)
       PROVE  Typed'
  <2>1. \A now, base \in InvoiceRow : Written(now, base, f) \in InvoiceRow
    BY FormsAreRows DEF Written, InvoiceRow
  <2> QED
    BY <1>11, <2>1, IdleIsRequest DEF UpdateInvoice, request, Request
<1>12. ASSUME NEW s \in Staff, RefuseDestroy(s) PROVE Typed'
  BY <1>12, IdleIsRequest DEF RefuseDestroy, db, request, Request
<1>13. ASSUME NEW s \in Staff, BeginDestroy(s) PROVE Typed'
  <2>1. staff \in [Staff -> Request]
    BY DEF Request
  <2>2. Referencing(staff[s].on) \in SUBSET Txns
    BY DEF Referencing
  <2>3. staff' = [staff EXCEPT ![s] = [@ EXCEPT !.at = "deleting",
                                       !.held = Referencing(staff[s].on)]]
    BY <1>13, <2>1 DEF BeginDestroy, Request
  <2>4. [staff[s] EXCEPT !.at = "deleting", !.held = Referencing(staff[s].on)]
           \in Request
    BY <2>1, <2>2 DEF Request
  <2>5. staff' \in [Staff -> Request]
    BY <2>1, <2>3, <2>4
  <2>6. UNCHANGED <<db, request, audit, touched>>
    BY <1>13 DEF BeginDestroy
  <2> QED
    BY <2>5, <2>6 DEF Request, db, request
<1>14. ASSUME NEW s \in Staff, CommitDestroy(s) PROVE Typed'
  <2>1. \A t \in Txns : [txn[t] EXCEPT !.invoice = None]
                            \in [invoice : Invoices \cup {None},
                                kind : TransactionTypes,
                                amount : -MaxAmount .. MaxAmount]
    OBVIOUS
  <2> QED
    BY <1>14, <2>1, IdleIsRequest DEF CommitDestroy, request, Request
<1>15. ASSUME NEW t \in Txns, NEW r \in Submissions, UpdateTransaction(t, r)
       PROVE  Typed'
  BY <1>15, FormsAreRows DEF UpdateTransaction, TransactionRow, request
<1>16. ASSUME NEW t \in Txns, DestroyTransaction(t) PROVE Typed'
  BY <1>16 DEF DestroyTransaction, request
<1>17. CASE UNCHANGED vars
  BY <1>17 DEF vars
<1> QED
  BY <1>1, <1>2, <1>3, <1>4, <1>5, <1>6, <1>7, <1>8, <1>9, <1>10, <1>11, <1>12,
     <1>13, <1>14, <1>15, <1>16, <1>17
     DEF Next, Pipeline, InvoiceDesk, TransactionDesk

-----------------------------------------------------------------------------
(* Requests, row locks and references.                                     *)

\* A request that has not recorded its transaction owns no row and has logged
\* nothing; one in reconcile_invoice has an invoice.
RequestsOK ==
    \A t \in Txns :
        /\ pc[t] = "new" => /\ t \notin rows
                            /\ <<"invoice.reconciled", t>> \notin audit
        /\ ref[t] \in issued \cup {None}
        /\ pc[t] \in {"lookup", "sum", "reload", "settle", "log"} => ref[t] # None

\* Only a deletion under way holds row locks, on rows that refer to the invoice
\* it deletes; no two hold the same row.
LocksOK ==
    /\ \A s \in Staff : \A t \in staff[s].held :
           /\ staff[s].at = "deleting"
           /\ t \in rows /\ txn[t].invoice = staff[s].on
    /\ \A s, u \in Staff : s # u => staff[s].held \cap staff[u].held = {}

References == Typed /\ RequestsOK /\ LocksOK /\ ReferencesLive

LEMMA InitReferences == Init => References
  BY InitTyped DEF Init, References, RequestsOK, LocksOK, ReferencesLive, Idle

LEMMA RequestsOKStep == References /\ [Next]_vars => RequestsOK'
<1> SUFFICES ASSUME References, [Next]_vars PROVE RequestsOK'
  OBVIOUS
<1> USE DEF References, Typed, RequestsOK
<1>1. ASSUME NEW i \in Invoices, NEW f \in InvoiceForms, CreateInvoice(i, f)
      PROVE  RequestsOK'
  BY <1>1 DEF CreateInvoice, request
<1>2. ASSUME NEW t \in Txns, NEW r \in Submissions, RecordTransaction(t, r)
      PROVE  RequestsOK'
  BY <1>2 DEF RecordTransaction, NeedsReconcile
<1>3. ASSUME NEW t \in Txns, Pipeline(t) PROVE RequestsOK'
  <2>1. CASE LookupInvoice(t) \/ SumPayments(t)
    BY <2>1 DEF LookupInvoice, SumPayments, Goto, db
  <2>2. CASE ReloadInvoice(t)
    BY <2>2 DEF ReloadInvoice, Goto, db
  <2>3. CASE MarkPaid(t)
    BY <2>3 DEF MarkPaid, Goto
  <2>4. CASE LogReconciled(t)
    <3>1. \A u \in Txns : <<"invoice.reconciled", u>> \in audit' =>
                             u = t \/ <<"invoice.reconciled", u>> \in audit
      BY <2>4 DEF LogReconciled
    <3> QED
      BY <2>4, <3>1 DEF LogReconciled, Goto, db
  <2>5. CASE LogCreated(t)
    <3>1. \A u \in Txns : <<"invoice.reconciled", u>> \in audit' =>
                             <<"invoice.reconciled", u>> \in audit
      BY <2>5 DEF LogCreated
    <3> QED
      BY <2>5, <3>1 DEF LogCreated, Goto, db
  <2> QED
    BY <1>3, <2>1, <2>2, <2>3, <2>4, <2>5 DEF Pipeline
<1>4. ASSUME NEW t \in Txns, Crash(t) PROVE RequestsOK'
  BY <1>4 DEF Crash, Running, Goto, db
<1>5. ASSUME NEW s \in Staff, InvoiceDesk(s) PROVE RequestsOK'
  BY <1>5 DEF InvoiceDesk, OpenInvoice, UpdateInvoice, RefuseDestroy,
     BeginDestroy, CommitDestroy, db, request
<1>6. ASSUME NEW t \in Txns, TransactionDesk(t) PROVE RequestsOK'
  BY <1>6 DEF TransactionDesk, UpdateTransaction, DestroyTransaction, request
<1>7. CASE UNCHANGED vars
  BY <1>7 DEF vars
<1> QED
  BY <1>1, <1>2, <1>3, <1>4, <1>5, <1>6, <1>7 DEF Next

LEMMA LocksOKStep == References /\ [Next]_vars => LocksOK'
<1> SUFFICES ASSUME References, [Next]_vars PROVE LocksOK'
  OBVIOUS
<1> USE DEF References, Typed, LocksOK
<1>1. ASSUME NEW i \in Invoices, NEW f \in InvoiceForms, CreateInvoice(i, f)
      PROVE  LocksOK'
  BY <1>1 DEF CreateInvoice
<1>2. ASSUME NEW t \in Txns, NEW r \in Submissions, RecordTransaction(t, r)
      PROVE  LocksOK'
  BY <1>2 DEF RecordTransaction, RequestsOK
<1>3. ASSUME NEW t \in Txns, Pipeline(t) \/ Crash(t) PROVE LocksOK'
  BY <1>3 DEF Pipeline, LookupInvoice, SumPayments, ReloadInvoice, MarkPaid,
     LogReconciled, LogCreated, Crash, db
<1>4. ASSUME NEW s \in Staff, NEW i \in Invoices, OpenInvoice(s, i) PROVE LocksOK'
  BY <1>4 DEF OpenInvoice, db
<1>5. ASSUME NEW s \in Staff, NEW f \in InvoiceForms, UpdateInvoice(s, f)
      PROVE  LocksOK'
  BY <1>5 DEF UpdateInvoice, Idle
<1>6. ASSUME NEW s \in Staff, RefuseDestroy(s) PROVE LocksOK'
  BY <1>6 DEF RefuseDestroy, Idle, db
<1>7. ASSUME NEW s \in Staff, BeginDestroy(s) PROVE LocksOK'
  BY <1>7 DEF BeginDestroy, Held, Referencing, db
<1>8. ASSUME NEW s \in Staff, CommitDestroy(s) PROVE LocksOK'
  BY <1>8 DEF CommitDestroy, Idle
<1>9. ASSUME NEW t \in Txns, TransactionDesk(t) PROVE LocksOK'
  BY <1>9 DEF TransactionDesk, UpdateTransaction, DestroyTransaction, Held
<1>10. CASE UNCHANGED vars
  BY <1>10 DEF vars
<1> QED
  BY <1>1, <1>2, <1>3, <1>4, <1>5, <1>6, <1>7, <1>8, <1>9, <1>10
     DEF Next, InvoiceDesk

LEMMA ReferencesLiveStep == References /\ [Next]_vars => ReferencesLive'
<1> SUFFICES ASSUME References, [Next]_vars PROVE ReferencesLive'
  OBVIOUS
<1> USE DEF References, Typed, ReferencesLive
<1>1. ASSUME NEW i \in Invoices, NEW f \in InvoiceForms, CreateInvoice(i, f)
      PROVE  ReferencesLive'
  BY <1>1 DEF CreateInvoice
<1>2. ASSUME NEW t \in Txns, NEW r \in Submissions, RecordTransaction(t, r)
      PROVE  ReferencesLive'
  BY <1>2 DEF RecordTransaction
<1>3. ASSUME NEW t \in Txns, Pipeline(t) \/ Crash(t) PROVE ReferencesLive'
  BY <1>3 DEF Pipeline, LookupInvoice, SumPayments, ReloadInvoice, MarkPaid,
     LogReconciled, LogCreated, Crash, db
<1>4. ASSUME NEW s \in Staff, InvoiceDesk(s), ~CommitDestroy(s)
      PROVE  ReferencesLive'
  BY <1>4 DEF InvoiceDesk, OpenInvoice, UpdateInvoice, RefuseDestroy,
     BeginDestroy, db
<1>5. ASSUME NEW s \in Staff, CommitDestroy(s) PROVE ReferencesLive'
  BY <1>5 DEF CommitDestroy, Referencing
<1>6. ASSUME NEW t \in Txns, TransactionDesk(t) PROVE ReferencesLive'
  BY <1>6 DEF TransactionDesk, UpdateTransaction, DestroyTransaction
<1>7. CASE UNCHANGED vars
  BY <1>7 DEF vars
<1> QED
  BY <1>1, <1>2, <1>3, <1>4, <1>5, <1>6, <1>7 DEF Next

LEMMA ReferencesStep == References /\ [Next]_vars => References'
  BY TypedStep, RequestsOKStep, LocksOKStep, ReferencesLiveStep DEF References

\* However deletions, edits and new payments interleave, no transaction is left
\* referring to a deleted invoice (invoice.rb:4, invoices_controller.rb:69-76).
THEOREM NoDanglingReference == Spec => []ReferencesLive
<1>1. Init => References
  BY InitReferences
<1>2. References /\ [Next]_vars => References'
  BY ReferencesStep
<1>3. References => ReferencesLive
  BY DEF References
<1> QED
  BY <1>1, <1>2, <1>3, PTL DEF Spec

-----------------------------------------------------------------------------
(* What a step may do to an invoice that nobody changes by hand.           *)

\* An invoice that a step adds has no payments and no requests.
LEMMA FreshInvoice ==
  ASSUME References, [Next]_vars, NEW i \in live' \ touched', i \notin live
  PROVE  /\ ValidDates(invoice'[i]) /\ invoice'[i].status # "paid"
         /\ Payments(i)' = {}
         /\ \A t \in Txns : ref'[t] # i
         /\ UNCHANGED <<pc, ref, sumRead, copy, audit, rows, txn>>
<1> USE DEF References
<1>1. PICK f \in InvoiceForms : i \in Invoices /\ CreateInvoice(i, f)
  BY DEF Next, CreateInvoice, RecordTransaction, Pipeline, LookupInvoice,
     SumPayments, ReloadInvoice, MarkPaid, LogReconciled, LogCreated, Crash,
     InvoiceDesk, OpenInvoice, UpdateInvoice, RefuseDestroy, BeginDestroy,
     CommitDestroy, TransactionDesk, UpdateTransaction, DestroyTransaction, db,
     vars
<1>2. i \notin issued /\ i # None
  BY <1>1, NoneIsNoInvoice DEF CreateInvoice, Typed
<1>3. Payments(i)' = {}
  BY <1>1, <1>2 DEF CreateInvoice, ReferencesLive, Typed, Payments, Referencing
<1>4. \A t \in Txns : ref'[t] # i
  BY <1>1, <1>2 DEF CreateInvoice, RequestsOK, request
<1> QED
  BY <1>1, <1>3, <1>4 DEF CreateInvoice, request, Typed

\* A step keeps the total and the dates of an invoice that was there, and
\* changes its status only to paid, in MarkPaid.
LEMMA KeptInvoice ==
  ASSUME References, [Next]_vars, NEW i \in live' \ touched', i \in live
  PROVE  /\ i \notin touched
         /\ invoice'[i].total = invoice[i].total
         /\ ValidDates(invoice[i]) => ValidDates(invoice'[i])
         /\ \/ invoice'[i].status = invoice[i].status
            \/ \E t \in Txns : /\ MarkPaid(t) /\ ref[t] = i /\ ValidDates(copy[t])
                               /\ invoice'[i].status = "paid"
<1> USE DEF References, Typed
<1>1. ASSUME NEW j \in Invoices, NEW f \in InvoiceForms, CreateInvoice(j, f)
      PROVE  i \notin touched /\ invoice'[i] = invoice[i]
  BY <1>1 DEF CreateInvoice
<1>2. ASSUME NEW t \in Txns, MarkPaid(t)
      PROVE  /\ i \notin touched
             /\ invoice'[i].total = invoice[i].total
             /\ ValidDates(invoice[i]) => ValidDates(invoice'[i])
             /\ \/ invoice'[i].status = invoice[i].status
                \/ /\ ref[t] = i /\ ValidDates(copy[t])
                   /\ invoice'[i].status = "paid"
  <2>1. i \notin touched /\ i \in Invoices
    BY <1>2 DEF MarkPaid
  <2>2. CASE invoice' = invoice
    BY <2>1, <2>2
  <2>3. CASE ValidDates(copy[t]) /\ invoice' = [invoice EXCEPT ![ref[t]].status = "paid"]
    <3>1. CASE ref[t] = i
      BY <2>1, <2>3, <3>1 DEF InvoiceRow, ValidDates
    <3>2. CASE ref[t] # i
      BY <2>1, <2>3, <3>2
    <3> QED
      BY <3>1, <3>2
  <2> QED
    BY <1>2, <2>2, <2>3 DEF MarkPaid
<1>3. ASSUME NEW s \in Staff, InvoiceDesk(s)
      PROVE  i \notin touched /\ invoice'[i] = invoice[i]
  BY <1>3 DEF InvoiceDesk, OpenInvoice, UpdateInvoice, RefuseDestroy,
     BeginDestroy, CommitDestroy, db
<1>4. ASSUME NEW t \in Txns, NEW r \in Submissions, RecordTransaction(t, r)
      PROVE  i \notin touched /\ invoice'[i] = invoice[i]
  BY <1>4 DEF RecordTransaction
<1>5. ASSUME NEW t \in Txns, (Pipeline(t) /\ ~MarkPaid(t)) \/ Crash(t)
      PROVE  i \notin touched /\ invoice'[i] = invoice[i]
  BY <1>5 DEF Pipeline, LookupInvoice, SumPayments, ReloadInvoice,
     LogReconciled, LogCreated, Crash, db
<1>6. ASSUME NEW t \in Txns, TransactionDesk(t)
      PROVE  i \notin touched /\ invoice'[i] = invoice[i]
  BY <1>6 DEF TransactionDesk, UpdateTransaction, DestroyTransaction
<1>7. CASE UNCHANGED vars
  BY <1>7 DEF vars
<1> QED
  BY <1>1, <1>2, <1>3, <1>4, <1>5, <1>6, <1>7 DEF Next

\* A step keeps its payments, or records one more.
LEMMA KeptPayments ==
  ASSUME References, [Next]_vars, NEW i \in live' \ touched', i \in live
  PROVE  \/ /\ Payments(i)' = Payments(i)
            /\ \A u \in Payments(i) : txn'[u] = txn[u]
         \/ \E t \in Txns : \E r \in Submissions :
               /\ RecordTransaction(t, r) /\ r.invoice = i /\ r.kind = "payment"
               /\ Payments(i)' = Payments(i) \cup {t}
               /\ \A u \in Payments(i) : txn'[u] = txn[u]
               /\ t \notin Payments(i) /\ txn'[t] = r
<1> USE DEF References, Typed, Payments, Referencing
<1>0. i # None /\ i \in Invoices
  BY NoneIsNoInvoice
<1>1. ASSUME NEW t \in Txns, NEW r \in Submissions, RecordTransaction(t, r)
      PROVE  /\ \A u \in rows : txn'[u] = txn[u]
             /\ t \notin rows /\ txn'[t] = r /\ rows' = rows \cup {t}
  BY <1>1 DEF RecordTransaction, RequestsOK
<1>2. ASSUME NEW t \in Txns, NEW r \in Submissions, RecordTransaction(t, r),
             r.invoice = i, r.kind = "payment"
      PROVE  /\ Payments(i)' = Payments(i) \cup {t}
             /\ \A u \in Payments(i) : txn'[u] = txn[u]
             /\ t \notin Payments(i) /\ txn'[t] = r
  BY <1>1, <1>2
<1>3. ASSUME NEW t \in Txns, NEW r \in Submissions, RecordTransaction(t, r),
             ~(r.invoice = i /\ r.kind = "payment")
      PROVE  Payments(i)' = Payments(i) /\ \A u \in Payments(i) : txn'[u] = txn[u]
  BY <1>1, <1>3
<1>4. ASSUME NEW s \in Staff, CommitDestroy(s)
      PROVE  Payments(i)' = Payments(i) /\ \A u \in Payments(i) : txn'[u] = txn[u]
  <2>1. CASE UNCHANGED txn
    BY <1>4, <2>1 DEF CommitDestroy
  <2>2. CASE staff[s].on # i /\ txn' = [t \in Txns |->
                IF t \in staff[s].held THEN [txn[t] EXCEPT !.invoice = None]
                                       ELSE txn[t]]
    <3>1. \A u \in rows : u \in staff[s].held =>
              txn[u].invoice # i /\ txn'[u].invoice = None
      BY <2>2 DEF LocksOK
    <3>2. \A u \in rows : u \notin staff[s].held => txn'[u] = txn[u]
      BY <2>2
    <3> QED
      BY <1>0, <1>4, <3>1, <3>2 DEF CommitDestroy
  <2> QED
    BY <1>4, <2>1, <2>2 DEF CommitDestroy
<1>5. ASSUME NEW t \in Txns, TransactionDesk(t)
      PROVE  Payments(i)' = Payments(i) /\ \A u \in Payments(i) : txn'[u] = txn[u]
  <2>1. ASSUME NEW r \in Submissions, UpdateTransaction(t, r)
        PROVE  /\ txn[t].invoice # i /\ r.invoice # i /\ txn'[t] = r
               /\ \A u \in rows : u # t => txn'[u] = txn[u]
               /\ rows' = rows
    BY <1>0, <2>1 DEF UpdateTransaction
  <2>2. CASE DestroyTransaction(t)
    BY <1>0, <2>2 DEF DestroyTransaction
  <2> QED
    BY <1>5, <2>1, <2>2 DEF TransactionDesk
<1>6. ASSUME UNCHANGED <<rows, txn>>
      PROVE  Payments(i)' = Payments(i) /\ \A u \in Payments(i) : txn'[u] = txn[u]
  BY <1>6
<1>7. ASSUME NEW j \in Invoices, NEW f \in InvoiceForms, CreateInvoice(j, f)
      PROVE  UNCHANGED <<rows, txn>>
  BY <1>7 DEF CreateInvoice
<1>8. ASSUME NEW t \in Txns, Pipeline(t) \/ Crash(t) PROVE UNCHANGED <<rows, txn>>
  BY <1>8 DEF Pipeline, LookupInvoice, SumPayments, ReloadInvoice, MarkPaid,
     LogReconciled, LogCreated, Crash, db
<1>9. ASSUME NEW s \in Staff, InvoiceDesk(s), ~CommitDestroy(s)
      PROVE  UNCHANGED <<rows, txn>>
  BY <1>9 DEF InvoiceDesk, OpenInvoice, UpdateInvoice, RefuseDestroy,
     BeginDestroy, db
<1>10. CASE UNCHANGED vars
  BY <1>6, <1>10 DEF vars
<1> QED
  BY <1>2, <1>3, <1>4, <1>5, <1>6, <1>7, <1>8, <1>9, <1>10 DEF Next

\* What a step does to one recording request: nothing, unless it is its own.
LEMMA RequestFrame ==
  ASSUME Typed, [Next]_vars, NEW t \in Txns
  PROVE  \/ UNCHANGED <<pc[t], sumRead[t], copy[t], ref[t]>>
         \/ pc[t] = "new" /\ pc'[t] \in {"lookup", "audit"}
         \/ Pipeline(t) /\ UNCHANGED ref
         \/ Crash(t) /\ UNCHANGED ref
<1> USE DEF Typed
<1>1. ASSUME NEW u \in Txns, NEW r \in Submissions, RecordTransaction(u, r)
      PROVE  \/ UNCHANGED <<pc[t], sumRead[t], copy[t], ref[t]>>
             \/ pc[t] = "new" /\ pc'[t] \in {"lookup", "audit"}
  BY <1>1 DEF RecordTransaction
<1>2. ASSUME NEW u \in Txns, Pipeline(u) \/ Crash(u)
      PROVE  UNCHANGED ref /\ (u # t => UNCHANGED <<pc[t], sumRead[t], copy[t]>>)
  BY <1>2 DEF Pipeline, LookupInvoice, SumPayments, ReloadInvoice, MarkPaid,
     LogReconciled, LogCreated, Crash, Goto
<1>3. ASSUME NEW i \in Invoices, NEW f \in InvoiceForms, CreateInvoice(i, f)
      PROVE  UNCHANGED <<pc, sumRead, copy, ref>>
  BY <1>3 DEF CreateInvoice, request
<1>4. ASSUME NEW s \in Staff, InvoiceDesk(s)
      PROVE  UNCHANGED <<pc, sumRead, copy, ref>>
  BY <1>4 DEF InvoiceDesk, OpenInvoice, UpdateInvoice, RefuseDestroy,
     BeginDestroy, CommitDestroy, request
<1>5. ASSUME NEW u \in Txns, TransactionDesk(u)
      PROVE  UNCHANGED <<pc, sumRead, copy, ref>>
  BY <1>5 DEF TransactionDesk, UpdateTransaction, DestroyTransaction, request
<1>6. CASE UNCHANGED vars
  BY <1>6 DEF vars
<1> QED
  BY <1>1, <1>2, <1>3, <1>4, <1>5, <1>6 DEF Next

LEMMA SumsTyped ==
  ASSUME Typed, NEW i
  PROVE  CreditSum(i) \in Nat /\ DebitSum(i) \in Nat
  BY SumsAreNumbers DEF Typed, Payments, Referencing, CreditSum, DebitSum

\* Positive payments are never taken away from an invoice nobody edits.
LEMMA CreditsGrow ==
  ASSUME References, [Next]_vars, NEW i \in live' \ touched', i \in live
  PROVE  CreditSum(i)' >= CreditSum(i) /\ CreditSum(i)' \in Nat
<1>1. Typed /\ Typed'
  BY ReferencesStep DEF References
<1>2. Credits(Payments(i)) \subseteq Credits(Payments(i))'
  BY KeptPayments DEF Credits
<1>3. IsFiniteSet(Credits(Payments(i))')
  <2>1. Payments(i)' \in SUBSET Txns
    BY <1>1 DEF Typed, Payments, Referencing
  <2>2. Credits(Payments(i))' \subseteq Units
    BY <2>1 DEF Credits, Units
  <2> QED
    BY <2>2, FiniteUnits, FS_Subset
<1> QED
  BY <1>2, <1>3, FS_Subset, SumsTyped, <1>1, FS_CardinalityType DEF CreditSum

-----------------------------------------------------------------------------
(* An invoice nobody edits is paid only when its payments cover it.        *)

\* What a request in reconcile_invoice has read is still good: the sum it read
\* is at most what has been paid in since, and when it is about to mark the
\* invoice paid, the total is covered and its copy passes validation.
ReadsOK ==
    \A t \in Txns, i \in live \ touched :
        ref[t] = i =>
            /\ pc[t] = "reload" => sumRead[t] <= CreditSum(i)
            /\ pc[t] = "settle" =>
                  /\ CreditSum(i) >= invoice[i].total
                  /\ ValidDates(copy[t])
                  /\ copy[t].status = "paid" => invoice[i].status = "paid"

DatesOK == \A i \in live \ touched : ValidDates(invoice[i])

Covering == References /\ DatesOK /\ ReadsOK /\ PaidIsCovered

LEMMA InitCovering == Init => Covering
  BY InitReferences
     DEF Init, Covering, DatesOK, ReadsOK, PaidIsCovered

LEMMA DatesOKStep == Covering /\ [Next]_vars => DatesOK'
  BY FreshInvoice, KeptInvoice DEF Covering, DatesOK

LEMMA ReadsOKStep == Covering /\ [Next]_vars => ReadsOK'
<1> SUFFICES ASSUME Covering, [Next]_vars, NEW t \in Txns,
                    NEW i \in live' \ touched', ref'[t] = i
             PROVE  /\ pc'[t] = "reload" => sumRead'[t] <= CreditSum(i)'
                    /\ pc'[t] = "settle" =>
                          /\ CreditSum(i)' >= invoice'[i].total
                          /\ ValidDates(copy'[t])
                          /\ copy'[t].status = "paid" => invoice'[i].status = "paid"
  BY DEF ReadsOK
<1> DEFINE Good == /\ pc[t] = "reload" => sumRead[t] <= CreditSum(i)
                   /\ pc[t] = "settle" =>
                         /\ CreditSum(i) >= invoice[i].total
                         /\ ValidDates(copy[t])
                         /\ copy[t].status = "paid" => invoice[i].status = "paid"
<1> USE DEF Covering, References
<1>0. Typed /\ Typed'
  BY ReferencesStep
<1>1. i \in live
  BY FreshInvoice
<1>2. /\ i \in live \ touched /\ i \in Invoices /\ i # None
      /\ invoice'[i].total = invoice[i].total
      /\ invoice'[i].status \in {invoice[i].status, "paid"}
      /\ CreditSum(i)' >= CreditSum(i)
      /\ CreditSum(i) \in Nat /\ CreditSum(i)' \in Nat
      /\ invoice[i].total \in Nat /\ sumRead[t] \in Int
  <2>1. /\ i \in live \ touched /\ i \in Invoices /\ i # None
        /\ invoice'[i].total = invoice[i].total
        /\ invoice'[i].status \in {invoice[i].status, "paid"}
    BY <1>0, <1>1, KeptInvoice, NoneIsNoInvoice DEF Typed
  <2>2. CreditSum(i)' >= CreditSum(i) /\ CreditSum(i) \in Nat
    BY <1>0, <1>1, CreditsGrow, SumsTyped
  <2>3. CreditSum(i)' \in Nat
    BY <1>0, <1>1, CreditsGrow
  <2>4. invoice[i].total \in Nat /\ sumRead[t] \in Int
    BY <1>0, <2>1 DEF Typed, InvoiceRow
  <2> QED
    BY <2>1, <2>2, <2>3, <2>4
<1>3. CASE UNCHANGED <<pc[t], sumRead[t], copy[t], ref[t]>>
  <2>1. Good
    BY <1>2, <1>3 DEF ReadsOK
  <2> QED
    BY <1>2, <1>3, <2>1
<1>4. CASE pc'[t] \notin {"reload", "settle"}
  BY <1>4
<1>5. CASE SumPayments(t)
  <2>1. ref[t] = i /\ sumRead'[t] = SumAmount(Payments(i)) /\ pc'[t] = "reload"
    BY <1>0, <1>5 DEF SumPayments, Typed, Goto
  <2>2. SumAmount(Payments(i)) = CreditSum(i) - DebitSum(i)
    BY DEF SumAmount, CreditSum, DebitSum
  <2> QED
    BY <1>0, <1>2, <2>1, <2>2, SumsTyped
<1>6. CASE ReloadInvoice(t) /\ pc'[t] = "settle"
  <2>1. /\ ref[t] = i /\ pc[t] = "reload" /\ copy'[t] = invoice[i]
        /\ sumRead[t] >= invoice[i].total /\ invoice' = invoice
    BY <1>0, <1>6, <1>2 DEF ReloadInvoice, Typed, Goto, db
  <2>2. sumRead[t] <= CreditSum(i) /\ ValidDates(invoice[i])
    BY <1>2, <2>1 DEF ReadsOK, DatesOK
  <2> QED
    BY <1>2, <1>6, <2>1, <2>2
<1>7. \/ UNCHANGED <<pc[t], sumRead[t], copy[t], ref[t]>>
      \/ pc'[t] \notin {"reload", "settle"}
      \/ SumPayments(t)
      \/ ReloadInvoice(t) /\ pc'[t] = "settle"
  <2>1. CASE Pipeline(t) /\ UNCHANGED ref
    BY <1>0, <2>1 DEF Pipeline, LookupInvoice, ReloadInvoice, MarkPaid,
       LogReconciled, LogCreated, Goto, Typed
  <2>2. CASE Crash(t)
    BY <1>0, <2>2 DEF Crash, Goto, Typed
  <2> QED
    BY <1>0, <2>1, <2>2, RequestFrame
<1> QED
  BY <1>3, <1>4, <1>5, <1>6, <1>7

LEMMA PaidIsCoveredStep == Covering /\ [Next]_vars => PaidIsCovered'
<1> SUFFICES ASSUME Covering, [Next]_vars, NEW i \in live' \ touched',
                    invoice'[i].status = "paid"
             PROVE  CreditSum(i)' >= invoice'[i].total
  BY DEF PaidIsCovered, CreditSum
<1> USE DEF Covering, References
<1>1. i \in live
  BY FreshInvoice
<1>2. /\ i \in live \ touched /\ invoice'[i].total = invoice[i].total
      /\ CreditSum(i)' >= CreditSum(i) /\ CreditSum(i)' \in Nat
      /\ CreditSum(i) \in Nat /\ invoice[i].total \in Nat
  BY <1>1, KeptInvoice, CreditsGrow, SumsTyped DEF Typed, InvoiceRow
<1>3. CreditSum(i) >= invoice[i].total
  <2>1. CASE invoice[i].status = "paid"
    BY <1>2, <2>1 DEF PaidIsCovered, CreditSum
  <2>2. CASE invoice[i].status # "paid"
    <3>1. PICK t \in Txns : MarkPaid(t) /\ ref[t] = i
      BY <1>1, <2>2, KeptInvoice
    <3> QED
      BY <1>2, <3>1 DEF MarkPaid, ReadsOK
  <2> QED
    BY <2>1, <2>2
<1> QED
  BY <1>2, <1>3

LEMMA CoveringStep == Covering /\ [Next]_vars => Covering'
  BY ReferencesStep, DatesOKStep, ReadsOKStep, PaidIsCoveredStep DEF Covering

\* Every reachable state is well typed, SUM always yields a number, and every
\* invoice nobody changed by hand has dates that pass the validation, as it was
\* created with: reconcile_invoice writes the status and no other column.
THEOREM Typing == Spec => []TypeOK
<1>1. Covering => TypeOK
  BY DEF Covering, References, DatesOK, TypeOK
<1> QED
  BY <1>1, InitCovering, CoveringStep, PTL DEF Spec

\* However requests interleave and staff act on other invoices, an invoice nobody
\* changed by hand is paid only when its positive payments add up to its total.
THEOREM PaidMeansCovered == Spec => []PaidIsCovered
<1>1. Init => Covering
  BY InitCovering
<1>2. Covering /\ [Next]_vars => Covering'
  BY CoveringStep
<1>3. Covering => PaidIsCovered
  BY DEF Covering
<1> QED
  BY <1>1, <1>2, <1>3, PTL DEF Spec

-----------------------------------------------------------------------------
(* No lost reconcile.                                                      *)

\* Request t still has it in hand to mark invoice i paid, or died doing so.
Pursues(t, i) ==
    /\ ref[t] = i
    /\ \/ pc[t] \in {"lookup", "sum", "settle", "failed"}
       \/ pc[t] = "reload" /\ sumRead[t] >= invoice[i].total

Pursued ==
    \A i \in live \ touched :
        Covered(i) => invoice[i].status = "paid" \/ \E t \in Txns : Pursues(t, i)

\* Only a new positive payment covers an invoice that was not covered.
LEMMA NewlyCovered ==
  ASSUME References, [Next]_vars, NEW i \in live' \ touched', i \in live,
         Covered(i)'
  PROVE  \/ Covered(i)
         \/ \E t \in Txns : ref'[t] = i /\ pc'[t] = "lookup"
<1> USE DEF References
<1>0. Typed /\ Typed'
  BY ReferencesStep
<1>1. /\ invoice'[i].total = invoice[i].total /\ invoice[i].total \in Nat
      /\ CreditSum(i) \in Nat /\ DebitSum(i) \in Nat
  BY <1>0, KeptInvoice, SumsTyped DEF Typed, InvoiceRow
<1>2. /\ CreditSum(i)' - DebitSum(i)' >= invoice[i].total
      /\ \E u \in Payments(i)' : txn'[u].amount > 0
  BY <1>1 DEF Covered, SumAmount, CreditSum, DebitSum
<1>3. ASSUME CreditSum(i)' = CreditSum(i), DebitSum(i)' \in Nat,
             DebitSum(i)' >= DebitSum(i),
             \E u \in Payments(i) : txn[u].amount > 0
      PROVE  Covered(i)
  BY <1>1, <1>2, <1>3 DEF Covered, SumAmount, CreditSum, DebitSum
<1>4. CASE /\ Payments(i)' = Payments(i)
           /\ \A u \in Payments(i) : txn'[u] = txn[u]
  <2>1. /\ Credits(Payments(i))' = Credits(Payments(i))
        /\ Debits(Payments(i))' = Debits(Payments(i))
    BY <1>4 DEF Credits, Debits
  <2> QED
    BY <1>1, <1>2, <1>3, <1>4, <2>1 DEF CreditSum, DebitSum
<1>5. ASSUME NEW t \in Txns, NEW r \in Submissions, RecordTransaction(t, r),
             r.invoice = i, r.kind = "payment", txn'[t] = r,
             Payments(i)' = Payments(i) \cup {t},
             \A u \in Payments(i) : txn'[u] = txn[u]
      PROVE  Covered(i) \/ (ref'[t] = i /\ pc'[t] = "lookup")
  <2>1. CASE r.amount > 0
    BY <1>0, <1>5, <2>1, NoneIsNoInvoice
       DEF RecordTransaction, NeedsReconcile, Typed
  <2>2. CASE ~(r.amount > 0)
    <3>1. r.amount \in Int
      BY FormsAreRows, BoundedAmounts DEF TransactionRow
    <3>2. Credits(Payments(i))' = Credits(Payments(i))
      <4>1. \A c \in 1 .. MaxAmount : ~(c <= r.amount)
        BY <2>2, <3>1, BoundedAmounts
      <4> QED
        BY <1>5, <4>1 DEF Credits
    <3>3. Debits(Payments(i)) \subseteq Debits(Payments(i))'
      BY <1>5 DEF Debits
    <3>4. IsFiniteSet(Debits(Payments(i))')
      <4>1. Payments(i)' \in SUBSET Txns
        BY <1>0 DEF Typed, Payments, Referencing
      <4>2. Debits(Payments(i))' \subseteq Units
        BY <4>1 DEF Debits, Units
      <4> QED
        BY <4>2, FiniteUnits, FS_Subset
    <3>5. DebitSum(i)' >= DebitSum(i) /\ DebitSum(i)' \in Nat
      BY <1>1, <3>3, <3>4, FS_Subset, FS_CardinalityType DEF DebitSum
    <3>6. \E u \in Payments(i) : txn[u].amount > 0
      BY <1>2, <1>5, <2>2
    <3> QED
      BY <1>3, <3>2, <3>5, <3>6 DEF CreditSum
  <2> QED
    BY <2>1, <2>2
<1> QED
  BY <1>4, <1>5, KeptPayments

LEMMA PursuedStep == Covering /\ Pursued /\ [Next]_vars => Pursued'
<1> SUFFICES ASSUME Covering, Pursued, [Next]_vars,
                    NEW i \in live' \ touched', Covered(i)'
             PROVE  invoice'[i].status = "paid" \/ \E t \in Txns : Pursues(t, i)'
  BY DEF Pursued
<1> USE DEF Covering, References
<1>1. i \in live
  BY FreshInvoice DEF Covered
<1>2. /\ i \in live \ touched /\ invoice'[i].total = invoice[i].total
      /\ invoice[i].status = "paid" => invoice'[i].status = "paid"
  BY <1>1, KeptInvoice
<1>3. ASSUME NEW t \in Txns, ref'[t] = i, pc'[t] = "lookup"
      PROVE  Pursues(t, i)'
  BY <1>3 DEF Pursues
<1>4. ASSUME Covered(i), NEW t \in Txns, Pursues(t, i)
      PROVE  invoice'[i].status = "paid" \/ Pursues(t, i)'
  <2> USE DEF Pursues
  <2>1. CASE UNCHANGED <<pc[t], sumRead[t], copy[t], ref[t]>>
    BY <1>2, <1>4, <2>1
  <2>2. CASE Crash(t) /\ UNCHANGED ref
    BY <1>4, <2>2 DEF Crash, Goto, Typed
  <2>3. CASE LookupInvoice(t)
    BY <1>1, <1>4, <2>3 DEF LookupInvoice, Goto, Typed
  <2>4. CASE SumPayments(t)
    BY <1>2, <1>4, <2>4 DEF SumPayments, Goto, Typed, Covered
  <2>5. CASE ReloadInvoice(t)
    BY <1>1, <1>4, <2>5 DEF ReloadInvoice, Goto, Typed
  <2>6. CASE MarkPaid(t)
    <3>1. /\ pc[t] = "settle" /\ ValidDates(copy[t])
          /\ copy[t].status = "paid" => invoice[i].status = "paid"
      BY <1>2, <1>4, <2>6 DEF MarkPaid, ReadsOK
    <3> QED
      BY <1>1, <1>2, <1>4, <2>6, <3>1 DEF MarkPaid, Typed, InvoiceRow
  <2>7. CASE LogReconciled(t) \/ LogCreated(t)
    BY <1>4, <2>7 DEF LogReconciled, LogCreated
  <2> QED
    BY <1>4, <2>1, <2>2, <2>3, <2>4, <2>5, <2>6, <2>7, RequestFrame DEF Pipeline
<1> QED
  BY <1>1, <1>2, <1>3, <1>4, NewlyCovered DEF Pursued

\* Once the requests recording payments for an invoice have come to rest, none of
\* them dead, an invoice that its payments cover and nobody edited is paid.
THEOREM CoveredMeansPaid == Spec => []NoLostReconcile
<1>1. Init => Covering /\ Pursued
  BY InitCovering DEF Init, Pursued
<1>2. Covering /\ Pursued /\ [Next]_vars => (Covering /\ Pursued)'
  BY CoveringStep, PursuedStep
<1>3. Covering /\ Pursued => NoLostReconcile
  BY DEF Pursued, Pursues, NoLostReconcile, InFlight, Dead, Running
<1> QED
  BY <1>1, <1>2, <1>3, PTL DEF Spec

-----------------------------------------------------------------------------
(* The audit trail of reconciliation.                                      *)

Logged(t) == <<"invoice.reconciled", t>> \in audit

\* A paid invoice is logged, about to be, or its request died; and neither a log
\* entry nor one about to be written is about an unpaid invoice.
Accounted ==
    \A i \in live \ touched :
        /\ invoice[i].status = "paid" =>
              \E t \in Txns : ref[t] = i /\ (pc[t] \in {"log", "failed"} \/ Logged(t))
        /\ \A t \in Txns :
              ref[t] = i /\ (pc[t] = "log" \/ Logged(t)) => invoice[i].status = "paid"

LEMMA LogFrame ==
  ASSUME [Next]_vars, NEW t \in Txns
  PROVE  /\ Logged(t) => Logged(t)'
         /\ Logged(t)' => Logged(t) \/ LogReconciled(t)
<1>1. UNCHANGED audit \/ \E u \in Txns : LogReconciled(u) \/ LogCreated(u)
  BY DEF Next, CreateInvoice, RecordTransaction, Pipeline, LookupInvoice,
     SumPayments, ReloadInvoice, MarkPaid, Crash, InvoiceDesk, OpenInvoice,
     UpdateInvoice, RefuseDestroy, BeginDestroy, CommitDestroy,
     TransactionDesk, UpdateTransaction, DestroyTransaction, vars
<1>2. CASE UNCHANGED audit
  BY <1>2 DEF Logged
<1>3. ASSUME NEW u \in Txns, LogReconciled(u)
      PROVE  (Logged(t) => Logged(t)') /\ (Logged(t)' => Logged(t) \/ u = t)
  BY <1>3 DEF LogReconciled, Logged
<1>4. ASSUME NEW u \in Txns, LogCreated(u) PROVE Logged(t)' <=> Logged(t)
  BY <1>4 DEF LogCreated, Logged
<1> QED
  BY <1>1, <1>2, <1>3, <1>4

LEMMA AccountedStep == Covering /\ Accounted /\ [Next]_vars => Accounted'
<1> SUFFICES ASSUME Covering, Accounted, [Next]_vars, NEW i \in live' \ touched'
             PROVE  /\ invoice'[i].status = "paid" =>
                          \E t \in Txns :
                             ref'[t] = i /\ (pc'[t] \in {"log", "failed"} \/ Logged(t)')
                    /\ \A t \in Txns :
                          ref'[t] = i /\ (pc'[t] = "log" \/ Logged(t)') =>
                             invoice'[i].status = "paid"
  BY DEF Accounted
<1> USE DEF Covering, References
<1>1. CASE i \notin live
  BY <1>1, FreshInvoice
<1>2. ASSUME i \in live, NEW t \in Txns,
             ref[t] = i, pc[t] \in {"log", "failed"} \/ Logged(t)
      PROVE  ref'[t] = i /\ (pc'[t] \in {"log", "failed"} \/ Logged(t)')
  <2>1. pc[t] # "new"
    BY <1>2 DEF RequestsOK, Logged
  <2>2. CASE LogReconciled(t) /\ UNCHANGED ref
    BY <1>2, <2>2 DEF LogReconciled, Logged
  <2>3. CASE (Pipeline(t) \/ Crash(t)) /\ ~LogReconciled(t) /\ UNCHANGED ref
    BY <1>2, <2>3, LogFrame DEF Pipeline, LookupInvoice, SumPayments,
       ReloadInvoice, MarkPaid, LogCreated, Crash, Running, Goto, Typed
  <2> QED
    BY <1>2, <2>1, <2>2, <2>3, RequestFrame, LogFrame
<1>3. ASSUME i \in live, invoice'[i].status = "paid", invoice[i].status # "paid"
      PROVE  \E t \in Txns : ref'[t] = i /\ pc'[t] = "log"
  <2>1. PICK t \in Txns : MarkPaid(t) /\ ref[t] = i /\ ValidDates(copy[t])
    BY <1>3, KeptInvoice
  <2> QED
    BY <2>1 DEF MarkPaid, Goto, Typed
<1>4. ASSUME i \in live, NEW t \in Txns, ref'[t] = i, pc'[t] = "log" \/ Logged(t)'
      PROVE  invoice'[i].status = "paid"
  <2>1. i \in live \ touched /\ i \in Invoices
        /\ (invoice[i].status = "paid" => invoice'[i].status = "paid")
    BY <1>4, KeptInvoice DEF Typed
  <2>2. CASE MarkPaid(t)
    <3>1. ref[t] = i /\ pc[t] = "settle"
      BY <1>4, <2>2 DEF MarkPaid
    <3>2. copy[t].status = "paid" => invoice[i].status = "paid"
      BY <2>1, <3>1 DEF ReadsOK
    <3>3. ValidDates(copy[t])
      BY <2>1, <3>1 DEF ReadsOK
    <3> QED
      BY <1>4, <2>1, <2>2, <3>1, <3>2, <3>3 DEF MarkPaid, Typed, InvoiceRow
  <2>3. CASE ~MarkPaid(t)
    <3>1. ref[t] = i /\ (pc[t] = "log" \/ Logged(t))
      <4>1. CASE UNCHANGED <<pc[t], sumRead[t], copy[t], ref[t]>>
        BY <1>4, <4>1, LogFrame DEF LogReconciled
      <4>2. CASE pc[t] = "new" /\ pc'[t] \in {"lookup", "audit"}
        BY <1>4, <4>2, LogFrame DEF LogReconciled, RequestsOK, Logged
      <4>3. CASE (Pipeline(t) \/ Crash(t)) /\ UNCHANGED ref
        BY <1>4, <2>3, <4>3, LogFrame DEF Pipeline, LookupInvoice, SumPayments,
           ReloadInvoice, LogReconciled, LogCreated, Crash, Goto, Typed
      <4> QED
        BY <4>1, <4>2, <4>3, RequestFrame
    <3> QED
      BY <2>1, <3>1 DEF Accounted
  <2> QED
    BY <2>2, <2>3
<1> QED
  <2>1. CASE i \in live
    <3>1. i \in live \ touched
      BY <2>1, KeptInvoice
    <3> QED
      BY <1>2, <1>3, <1>4, <2>1, <3>1 DEF Accounted
  <2> QED
    BY <1>1, <2>1

\* Every invoice the pipeline marked paid has its invoice.reconciled entry unless
\* the request died first, and no entry is about an invoice that is not paid.
THEOREM ReconcileIsAudited == Spec => []ReconcileAudited
<1>1. Init => Covering /\ Accounted
  BY InitCovering DEF Init, Accounted
<1>2. Covering /\ Accounted /\ [Next]_vars => (Covering /\ Accounted)'
  BY CoveringStep, AccountedStep
<1>3. Accounted => ReconcileAudited
  BY DEF Accounted, ReconcileAudited, InFlight, Dead, Running, Logged
<1> QED
  BY <1>1, <1>2, <1>3, PTL DEF Spec
=============================================================================
