SPECIFICATION FairSpec
CONSTANTS
    Invoices = {i1}
    Txns = {t1, t2}
    Staff = {s1}
    MayCrash = {t1}
    Submissions <- SomeSubmissions
    InvoiceForms <- SomeForms
    MaxAmount = 2
    None = None
INVARIANTS TypeOK PaidIsCovered NoLostReconcile ReconcileAudited ReferencesLive
PROPERTIES CoveredIsSettled
CHECK_DEADLOCK FALSE
