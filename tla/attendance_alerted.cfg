SPECIFICATION FairSpec
CONSTANTS
    Requests = {q1, q2, q3}
    Students = {s1}
    Enrolled = {s1}
    Parents = {mum, dad}
    s1 = s1
    s2 = s2
    s3 = s3
    mum = mum
    dad = dad
    Phones <- OneFamily
    Sheets <- OneStudent
    Attempts = 2
    MaxFaults = 0
    None = None
INVARIANTS OneAlertPerTurn LastOfApartStands
PROPERTIES AbsenceIsAlerted
