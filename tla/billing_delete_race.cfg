SPECIFICATION Spec
CONSTANTS
    Invoices = {i1}
    Txns = {t1}
    Staff = {s1}
    MayCrash = {}
    Submissions <- Payments12
    InvoiceForms <- PlainForms
    MaxAmount = 2
    None = None
PROPERTIES OnlyDraftOrCancelledDeleted
CHECK_DEADLOCK FALSE
