SPECIFICATION Spec
CONSTANTS
    Threads = {w1, w2}
    PaymentIds = {pay1, pay2, pay3}
    Ids = {r1, r2, ck}
    pay1 = pay1
    pay2 = pay2
    pay3 = pay3
    r1 = r1
    r2 = r2
    ck = ck
    Callbacks <- WithAnonymous
    Local = FALSE
    SecretSet = TRUE
    MaxCopies = 7
    MaxFaults = 2
    None = None
SYMMETRY Symmetry
INVARIANTS TypeOK DuplicatesBounded
PROPERTIES NothingAcceptedIsLost
