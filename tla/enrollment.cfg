SPECIFICATION Spec
CONSTANTS
    Classrooms = {c1, c2}
    Students = {s1, s2, s3}
    Requests = {r1, r2}
    MaxCapacity = 2
    None = None
SYMMETRY Symmetry
INVARIANTS TypeOK GuardedWithinCapacity ClassroomsExist
PROPERTIES DeletedWhenEmpty
