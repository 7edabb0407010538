------------------------------ MODULE Enrollment ------------------------------
(***************************************************************************)
(* Classrooms, their capacity and the students in them.  Three requests    *)
(* test the number of students of a classroom in one statement and act on  *)
(* it in a later one: enrolling students, editing the capacity, deleting   *)
(* the classroom (app/controllers/classrooms_controller.rb).  Admitting a  *)
(* student, and editing one, put the student into any classroom.           *)
(***************************************************************************)
EXTENDS Integers, FiniteSets

CONSTANTS
    Classrooms,   \* classroom ids the database may hand out
    Students,     \* student ids
    Requests,     \* threads that handle requests about classrooms
    MaxCapacity,  \* bound on the capacities a form may hold
    None          \* no classroom

ASSUME NoneIsNoClassroom == None \notin Classrooms
ASSUME FiniteStudents == IsFiniteSet(Students)
ASSUME SomeCapacity == MaxCapacity \in Nat \ {0}

\* capacity: validated greater_than 0.
Capacities == 1 .. MaxCapacity

VARIABLES
    issued,      \* classroom ids ever handed out
    classrooms,  \* the classrooms table
    capacity,
    students,    \* the students table; students are deactivated, never deleted
    class,       \* the classroom_id of each student
    desk,        \* the request each thread handles
    unguarded    \* history: classrooms that two requests were about at once, or
                 \* that took in a student by admission or edit

tables == <<issued, classrooms, capacity, students, class>>
vars == <<issued, classrooms, capacity, students, class, desk, unguarded>>

Idle == [at |-> "idle", on |-> None, loaded |-> 1, form |-> 1, ids |-> {}]
Request == [at : {"idle", "count", "enroll", "validate", "write", "check", "nullify",
                  "delete"},
            on : Classrooms \cup {None},
            loaded : Capacities,    \* the capacity of the row it loaded
            form : Capacities,      \* the capacity submitted
            ids : SUBSET Students]  \* the students submitted, or those nullified

\* Typing; students, and requests at work, have a classroom that was handed out.
TypeOK ==
    /\ issued \subseteq Classrooms /\ classrooms \subseteq issued
    /\ capacity \in [Classrooms -> Capacities]
    /\ students \subseteq Students
    /\ class \in [Students -> issued \cup {None}]
    /\ desk \in [Requests -> Request]
    /\ \A r \in Requests : desk[r].at # "idle" => desk[r].on \in issued
    /\ unguarded \subseteq Classrooms

Init ==
    /\ issued = {} /\ classrooms = {} /\ unguarded = {}
    /\ capacity = [c \in Classrooms |-> 1]
    /\ students = {}
    /\ class = [s \in Students |-> None]
    /\ desk = [r \in Requests |-> Idle]

In(c) == {s \in students : class[s] = c}

-----------------------------------------------------------------------------
\* ClassroomsController#create
Create(c, n) ==
    /\ c \notin issued
    /\ issued' = issued \cup {c} /\ classrooms' = classrooms \cup {c}
    /\ capacity' = [capacity EXCEPT ![c] = n]
    /\ UNCHANGED <<students, class, desk, unguarded>>

\* set_classroom; two requests about one classroom at once are noted.
Open(r, c, step, n, ids) ==
    /\ desk[r].at = "idle" /\ c \in classrooms
    /\ desk' = [desk EXCEPT ![r] = [at |-> step, on |-> c, loaded |-> capacity[c],
                                    form |-> n, ids |-> ids]]
    /\ unguarded' = IF \E q \in Requests : desk[q].on = c
                    THEN unguarded \cup {c} ELSE unguarded
    /\ UNCHANGED tables

\* The request goes on, or answers and leaves everything as it is.
Goto(r, step) == desk' = [desk EXCEPT ![r].at = step] /\ UNCHANGED <<tables, unguarded>>
Refuse(r) == desk' = [desk EXCEPT ![r] = Idle] /\ UNCHANGED <<tables, unguarded>>

\* Rows that the transaction of a deletion has locked.
Held == UNION {desk[q].ids : q \in {r \in Requests : desk[r].at = "delete"}}

-----------------------------------------------------------------------------
(* update_enrollment                                                       *)

OpenEnrollment(r) ==
    \E c \in Classrooms, ids \in SUBSET Students : Open(r, c, "count", 1, ids)

\* Mutant: full? in place of the sum, so the last seat takes any number.
CountIfFull(r) ==
    /\ desk[r].at = "count"
    /\ \/ Cardinality(In(desk[r].on)) >= desk[r].loaded /\ Refuse(r)
       \/ Cardinality(In(desk[r].on)) < desk[r].loaded /\ Goto(r, "enroll")

Fits(c, ids, n) == Cardinality(In(c)) + Cardinality(ids) <= n

\* The capacity compared is the one loaded, and students who are in the classroom
\* already count twice.
CountStudents(r) ==
    LET d == desk[r] IN
    /\ d.at = "count"
    /\ \/ ~Fits(d.on, d.ids, d.loaded) /\ Refuse(r)
       \/ Fits(d.on, d.ids, d.loaded) /\ Goto(r, "enroll")

\* One UPDATE of the students that exist; the foreign key refuses it once the
\* classroom is gone.
EnrollStudents(r) ==
    LET ids == desk[r].ids \cap students IN
    /\ desk[r].at = "enroll" /\ ids \cap Held = {}
    /\ desk' = [desk EXCEPT ![r] = Idle]
    /\ class' = [s \in Students |-> IF s \in ids /\ desk[r].on \in classrooms
                                    THEN desk[r].on ELSE class[s]]
    /\ UNCHANGED <<issued, classrooms, capacity, students, unguarded>>

-----------------------------------------------------------------------------
(* update                                                                  *)

OpenEdit(r) == \E c \in Classrooms, n \in Capacities : Open(r, c, "validate", n, {})

\* Mutant: capacity_not_exceeded does not run.
ValidateNothing(r) == desk[r].at = "validate" /\ Goto(r, "write")

\* capacity_not_exceeded, also when the form leaves the capacity alone.
ValidateCapacity(r) ==
    LET d == desk[r] IN
    /\ d.at = "validate"
    /\ \/ ~Fits(d.on, {}, d.form) /\ Refuse(r)
       \/ Fits(d.on, {}, d.form) /\ Goto(r, "write")

\* A capacity equal to the one loaded is not written, and of a deleted classroom
\* nothing is.
WriteCapacity(r) ==
    LET d == desk[r] IN
    /\ d.at = "write"
    /\ desk' = [desk EXCEPT ![r] = Idle]
    /\ capacity' = IF d.form # d.loaded /\ d.on \in classrooms
                   THEN [capacity EXCEPT ![d.on] = d.form] ELSE capacity
    /\ UNCHANGED <<issued, classrooms, students, class, unguarded>>

-----------------------------------------------------------------------------
(* destroy                                                                 *)

OpenDestroy(r) == \E c \in Classrooms : Open(r, c, "check", 1, {})

\* Mutant: students.any? is not asked.
CheckNothing(r) == desk[r].at = "check" /\ Goto(r, "nullify")

CheckEmpty(r) ==
    /\ desk[r].at = "check"
    /\ \/ In(desk[r].on) # {} /\ Refuse(r)
       \/ In(desk[r].on) = {} /\ Goto(r, "nullify")

\* dependent: :nullify empties the classroom of whoever is in it by now, in the
\* transaction of the deletion.
NullifyStudents(r) ==
    LET c == desk[r].on IN
    /\ desk[r].at = "nullify" /\ In(c) \cap Held = {}
    /\ desk' = [desk EXCEPT ![r].at = "delete", ![r].ids = In(c)]
    /\ UNCHANGED <<tables, unguarded>>

Remove(r) ==
    /\ classrooms' = classrooms \ {desk[r].on}
    /\ class' = [s \in Students |-> IF s \in desk[r].ids THEN None ELSE class[s]]

\* Mutant: the foreign key is missing.
DeleteUnchecked(r) ==
    /\ desk[r].at = "delete"
    /\ desk' = [desk EXCEPT ![r] = Idle]
    /\ Remove(r)
    /\ UNCHANGED <<issued, capacity, students, unguarded>>

\* The DELETE commits, or fails on the foreign key of a student who came in since
\* and everything is rolled back.
DeleteClassroom(r) ==
    /\ desk[r].at = "delete"
    /\ desk' = [desk EXCEPT ![r] = Idle]
    /\ \/ In(desk[r].on) \subseteq desk[r].ids /\ Remove(r)
       \/ ~(In(desk[r].on) \subseteq desk[r].ids) /\ UNCHANGED <<classrooms, class>>
    /\ UNCHANGED <<issued, capacity, students, unguarded>>

-----------------------------------------------------------------------------
(* StudentsController: no capacity is asked for.                           *)

\* Mutant: the foreign key is missing.
PlaceAnywhere(s, c) ==
    /\ class' = [class EXCEPT ![s] = c]
    /\ unguarded' = unguarded \cup ({c} \ {None})
    /\ UNCHANGED <<issued, classrooms, capacity, desk>>

\* A request of the student desk places s; the foreign key asks for the classroom.
Place(s, c) ==
    /\ c \in classrooms \cup {None}
    /\ class' = [class EXCEPT ![s] = c]
    /\ unguarded' = unguarded \cup ({c} \ {None})
    /\ UNCHANGED <<issued, classrooms, capacity, desk>>

\* AdmissionService#create_admission
Admit(s, c) == s \notin students /\ students' = students \cup {s} /\ Place(s, c)

\* AdmissionService#update_admission
EditStudent(s, c) == s \in students \ Held /\ UNCHANGED students /\ Place(s, c)

-----------------------------------------------------------------------------
Handle(r) ==
    \/ OpenEnrollment(r) \/ CountStudents(r) \/ EnrollStudents(r)
    \/ OpenEdit(r) \/ ValidateCapacity(r) \/ WriteCapacity(r)
    \/ OpenDestroy(r) \/ CheckEmpty(r) \/ NullifyStudents(r) \/ DeleteClassroom(r)

Next ==
    \/ \E c \in Classrooms, n \in Capacities : Create(c, n)
    \/ \E r \in Requests : Handle(r)
    \/ \E s \in Students, c \in Classrooms \cup {None} : Admit(s, c) \/ EditStudent(s, c)

Spec == Init /\ [][Next]_vars

-----------------------------------------------------------------------------
(* Properties.                                                             *)

\* "Classroom capacity would be exceeded." (classrooms_controller.rb:104).
WithinCapacity == \A c \in classrooms : Cardinality(In(c)) <= capacity[c]

\* A classroom holds no more students than its capacity - whatever is enrolled,
\* moved to other classrooms, or changed about the capacity - unless two requests
\* were about it at once or the student desk put somebody in
\* (classrooms_controller.rb:101-110, classroom.rb:14-18).
GuardedWithinCapacity ==
    \A c \in classrooms \ unguarded : Cardinality(In(c)) <= capacity[c]

\* No student is left in a classroom that was deleted, also when students are
\* enrolled, moved or admitted while the deletion runs (classroom.rb:3).
ClassroomsExist == \A s \in students : class[s] \in classrooms \cup {None}

\* A deletion takes nobody's classroom away, with the same exceptions
\* (classrooms_controller.rb:79).
DeletedWhenEmpty ==
    [][\A c \in classrooms \ classrooms' : c \in unguarded \/ In(c) = {}]_vars
=============================================================================
