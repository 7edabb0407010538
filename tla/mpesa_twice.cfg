SPECIFICATION Spec
CONSTANTS
    Threads = {w1, w2}
    PaymentIds = {pay1, pay2, pay3}
    Ids = {r1, r2, ck}
    pay1 = pay1
    pay2 = pay2
    pay3 = pay3
    r1 = r1
    r2 = r2
    ck = ck
    Callbacks <- WithoutIds
    Local = TRUE
    SecretSet = FALSE
    MaxCopies = 2
    MaxFaults = 0
    None = None
INVARIANTS AtMostOnce
