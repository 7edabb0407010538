SPECIFICATION Spec
CONSTANTS
    Requests = {q1, q2}
    Students = {s1, s2, s3}
    Enrolled = {s1, s2}
    Parents = {mum, dad}
    s1 = s1
    s2 = s2
    s3 = s3
    mum = mum
    dad = dad
    Phones <- TwoFamilies
    Sheets <- Registers
    Attempts = 2
    MaxFaults = 2
    None = None
SYMMETRY Symmetry
INVARIANTS TypeOK NoSilentAbsence AlertsBounded
