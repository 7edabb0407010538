SPECIFICATION Spec
CONSTANTS
    Fees = {f1, f2}
    Students = {s1, s2}
    Requests = {r1, r2, r3}
    f1 = f1
    f2 = f2
    s1 = s1
    s2 = s2
    Prices <- Amounts
    Totals <- FormTotals
    Concession <- Grants
    None = None
SYMMETRY Symmetry
INVARIANTS TypeOK ReferencesLive TotalsMatchLines EveryAssignmentBilled AssignmentsStick
PROPERTIES UnassignedWhenDeleted
