--------------------------- MODULE EnrollmentProofs ---------------------------
(* Proofs about Enrollment: typing, references, and the capacity that the  *)
(* requests about classrooms keep as long as each has its classroom alone. *)
EXTENDS Enrollment, FiniteSetTheorems, TLAPS

-----------------------------------------------------------------------------
(* Typing.                                                                 *)

LEMMA OpenTyped ==
  ASSUME TypeOK, NEW r \in Requests, NEW c \in Classrooms, NEW n \in Capacities,
         NEW ids \in SUBSET Students,
         NEW step \in {"count", "validate", "check"}, Open(r, c, step, n, ids)
  PROVE  TypeOK'
  BY DEF Open, TypeOK, Request, tables

LEMMA RefuseTyped ==
  ASSUME TypeOK, NEW r \in Requests, Refuse(r)
  PROVE  TypeOK'
  BY SomeCapacity DEF Refuse, TypeOK, Request, Idle, tables, Capacities

LEMMA GotoTyped ==
  ASSUME TypeOK, NEW r \in Requests, NEW step \in {"enroll", "write", "nullify"},
         desk[r].at # "idle", Goto(r, step)
  PROVE  TypeOK'
  BY DEF Goto, TypeOK, Request, tables

LEMMA TypeOKStep == TypeOK /\ [Next]_vars => TypeOK'
<1> SUFFICES ASSUME TypeOK, [Next]_vars PROVE TypeOK'
  OBVIOUS
<1>0. 1 \in Capacities
  BY SomeCapacity DEF Capacities
<1>1. ASSUME NEW c \in Classrooms, NEW n \in Capacities, Create(c, n) PROVE TypeOK'
  BY <1>1 DEF Create, TypeOK
<1>2. ASSUME NEW r \in Requests, OpenEnrollment(r) \/ OpenEdit(r) \/ OpenDestroy(r)
      PROVE  TypeOK'
  BY <1>0, <1>2, OpenTyped DEF OpenEnrollment, OpenEdit, OpenDestroy
<1>3. ASSUME NEW r \in Requests, CountStudents(r) \/ ValidateCapacity(r) \/ CheckEmpty(r)
      PROVE  TypeOK'
  BY <1>3, RefuseTyped, GotoTyped DEF CountStudents, ValidateCapacity, CheckEmpty
<1>4. ASSUME NEW r \in Requests, EnrollStudents(r) PROVE TypeOK'
  <2>1. desk' \in [Requests -> Request] /\ class' \in [Students -> issued \cup {None}]
    BY <1>0, <1>4 DEF EnrollStudents, TypeOK, Request, Idle
  <2> QED
    BY <1>4, <2>1 DEF EnrollStudents, TypeOK, Idle
<1>5. ASSUME NEW r \in Requests, WriteCapacity(r) PROVE TypeOK'
  <2>1. desk' \in [Requests -> Request] /\ capacity' \in [Classrooms -> Capacities]
    BY <1>0, <1>5 DEF WriteCapacity, TypeOK, Request, Idle
  <2> QED
    BY <1>5, <2>1 DEF WriteCapacity, TypeOK, Idle
<1>6. ASSUME NEW r \in Requests, NullifyStudents(r) PROVE TypeOK'
  <2>1. In(desk[r].on) \in SUBSET Students
    BY DEF In, TypeOK
  <2> QED
    BY <1>6, <2>1, ZenonT(30) DEF NullifyStudents, TypeOK, Request, tables
<1>7. ASSUME NEW r \in Requests, DeleteClassroom(r) PROVE TypeOK'
  <2>1. desk' \in [Requests -> Request] /\ class' \in [Students -> issued \cup {None}]
    BY <1>0, <1>7 DEF DeleteClassroom, Remove, TypeOK, Request, Idle
  <2> QED
    BY <1>7, <2>1 DEF DeleteClassroom, Remove, TypeOK, Idle
<1>8. ASSUME NEW s \in Students, NEW c \in Classrooms \cup {None},
             Admit(s, c) \/ EditStudent(s, c)
      PROVE  TypeOK'
  BY <1>8 DEF Admit, EditStudent, Place, TypeOK
<1>9. CASE UNCHANGED vars
  BY <1>9 DEF vars, tables, TypeOK
<1> QED
  BY <1>1, <1>2, <1>3, <1>4, <1>5, <1>6, <1>7, <1>8, <1>9 DEF Next, Handle

LEMMA InitTypeOK == Init => TypeOK
  BY SomeCapacity DEF Init, TypeOK, Idle, Request, Capacities

\* The tables and the requests keep their types, for any classrooms and students.
THEOREM Typing == Spec => []TypeOK
  BY InitTypeOK, TypeOKStep, PTL DEF Spec

-----------------------------------------------------------------------------
(* Row locks and references.                                               *)

\* A deletion holds students of its classroom, and no other request holds them.
Locks ==
    \A r \in Requests : desk[r].at = "delete" =>
        /\ \A s \in desk[r].ids : s \in students /\ class[s] = desk[r].on
        /\ \A q \in Requests :
              desk[q].at = "delete" /\ desk[q].ids \cap desk[r].ids # {} => q = r

References == TypeOK /\ Locks /\ ClassroomsExist

LEMMA LocksStep == References /\ [Next]_vars => Locks'
<1> SUFFICES ASSUME References, [Next]_vars PROVE Locks'
  OBVIOUS
<1>0. TypeOK /\ Locks
  BY DEF References
\* A step that leaves the deletions as they are and their students where they are.
<1>1. ASSUME \A r \in Requests : desk'[r].at = "delete" => desk'[r] = desk[r],
             \A s \in Held : s \in students => s \in students' /\ class'[s] = class[s]
      PROVE  Locks'
  BY <1>0, <1>1 DEF Locks, Held, TypeOK
<1>2. ASSUME NEW c \in Classrooms, NEW n \in Capacities, Create(c, n) PROVE Locks'
  BY <1>1, <1>2 DEF Create
<1>3. ASSUME NEW r \in Requests, OpenEnrollment(r) \/ OpenEdit(r) \/ OpenDestroy(r)
      PROVE  Locks'
  <2>1. UNCHANGED tables /\ \A q \in Requests : desk'[q].at = "delete" => desk'[q] = desk[q]
    BY <1>0, <1>3 DEF OpenEnrollment, OpenEdit, OpenDestroy, Open, TypeOK
  <2> QED
    BY <1>1, <2>1 DEF tables
<1>4. ASSUME NEW r \in Requests, CountStudents(r) \/ ValidateCapacity(r) \/ CheckEmpty(r)
      PROVE  Locks'
  <2>1. UNCHANGED tables
    BY <1>4 DEF CountStudents, ValidateCapacity, CheckEmpty, Refuse, Goto
  <2>2. \/ desk' = [desk EXCEPT ![r] = Idle]
        \/ \E step \in {"enroll", "write", "nullify"} : desk' = [desk EXCEPT ![r].at = step]
    BY <1>4 DEF CountStudents, ValidateCapacity, CheckEmpty, Refuse, Goto
  <2>3. \A q \in Requests : desk'[q].at = "delete" => desk'[q] = desk[q]
    BY <1>0, <2>2 DEF Idle, TypeOK, Request
  <2> QED
    BY <1>1, <2>1, <2>3 DEF tables
<1>5. ASSUME NEW r \in Requests, EnrollStudents(r) PROVE Locks'
  <2>1. \A q \in Requests : desk'[q].at = "delete" => desk'[q] = desk[q]
    BY <1>0, <1>5 DEF EnrollStudents, Idle, TypeOK
  <2>2. \A s \in Held : s \in Students
    BY <1>0 DEF Held, TypeOK, Request
  <2>3. \A s \in Held : s \in students => class'[s] = class[s]
    BY <1>5, <2>2 DEF EnrollStudents
  <2> QED
    BY <1>1, <1>5, <2>1, <2>3 DEF EnrollStudents
<1>6. ASSUME NEW r \in Requests, WriteCapacity(r) PROVE Locks'
  <2>1. \A q \in Requests : desk'[q].at = "delete" => desk'[q] = desk[q]
    BY <1>0, <1>6 DEF WriteCapacity, Idle, TypeOK
  <2> QED
    BY <1>1, <1>6, <2>1 DEF WriteCapacity
<1>7. ASSUME NEW r \in Requests, NullifyStudents(r) PROVE Locks'
  <2>1. /\ UNCHANGED tables
        /\ desk'[r].on = desk[r].on /\ desk'[r].ids = In(desk[r].on)
        /\ \A q \in Requests \ {r} : desk'[q] = desk[q]
    BY <1>0, <1>7 DEF NullifyStudents, TypeOK, Request
  <2>2. \A q \in Requests \ {r} : desk[q].at = "delete" => desk[q].ids \cap In(desk[r].on) = {}
    BY <1>7 DEF NullifyStudents, Held
  <2> QED
    BY <1>0, <2>1, <2>2 DEF Locks, In, tables
<1>8. ASSUME NEW r \in Requests, DeleteClassroom(r) PROVE Locks'
  <2>1. /\ desk[r].at = "delete" /\ desk'[r].at = "idle" /\ UNCHANGED students
        /\ \A q \in Requests \ {r} : desk'[q] = desk[q]
    BY <1>0, <1>8 DEF DeleteClassroom, Idle, TypeOK
  <2>2. \A s \in Students : s \notin desk[r].ids => class'[s] = class[s]
    BY <1>0, <1>8 DEF DeleteClassroom, Remove, TypeOK
  <2>3. \A q \in Requests \ {r} : desk[q].at = "delete" => desk[q].ids \cap desk[r].ids = {}
    BY <1>0, <2>1 DEF Locks
  <2>4. \A q \in Requests : desk[q].ids \subseteq Students
    BY <1>0 DEF TypeOK, Request
  <2> QED
    BY <1>0, <2>1, <2>2, <2>3, <2>4 DEF Locks
<1>9. ASSUME NEW s \in Students, NEW c \in Classrooms \cup {None},
             Admit(s, c) \/ EditStudent(s, c)
      PROVE  Locks'
  <2>1. UNCHANGED desk /\ \A t \in Students \ {s} : class'[t] = class[t]
    BY <1>0, <1>9 DEF Admit, EditStudent, Place, TypeOK
  <2>2. \A t \in Held : t \in students => t # s
    BY <1>9 DEF Admit, EditStudent
  <2>3. students \subseteq students' /\ students \subseteq Students
    BY <1>0, <1>9 DEF Admit, EditStudent, TypeOK
  <2> QED
    BY <1>1, <2>1, <2>2, <2>3
<1>10. CASE UNCHANGED vars
  BY <1>1, <1>10 DEF vars, tables
<1> QED
  BY <1>2, <1>3, <1>4, <1>5, <1>6, <1>7, <1>8, <1>9, <1>10 DEF Next, Handle

LEMMA ClassroomsExistStep == References /\ [Next]_vars => ClassroomsExist'
<1> SUFFICES ASSUME References, [Next]_vars PROVE ClassroomsExist'
  OBVIOUS
<1>0. TypeOK /\ Locks /\ ClassroomsExist
  BY DEF References
<1> USE DEF ClassroomsExist
<1>1. ASSUME NEW c \in Classrooms, NEW n \in Capacities, Create(c, n)
      PROVE  ClassroomsExist'
  BY <1>0, <1>1 DEF Create
<1>2. ASSUME NEW r \in Requests, EnrollStudents(r) PROVE ClassroomsExist'
  BY <1>0, <1>2 DEF EnrollStudents, TypeOK
<1>3. ASSUME NEW r \in Requests, DeleteClassroom(r) PROVE ClassroomsExist'
  <2>1. CASE In(desk[r].on) \subseteq desk[r].ids /\ Remove(r)
    BY <1>0, <1>3, <2>1 DEF DeleteClassroom, Remove, In, TypeOK
  <2> QED
    BY <1>0, <1>3, <2>1 DEF DeleteClassroom
<1>4. ASSUME NEW s \in Students, NEW c \in Classrooms \cup {None},
             Admit(s, c) \/ EditStudent(s, c)
      PROVE  ClassroomsExist'
  BY <1>0, <1>4 DEF Admit, EditStudent, Place, TypeOK
<1>5. ASSUME NEW r \in Requests,
             \/ OpenEnrollment(r) \/ OpenEdit(r) \/ OpenDestroy(r)
             \/ CountStudents(r) \/ ValidateCapacity(r) \/ CheckEmpty(r)
             \/ WriteCapacity(r) \/ NullifyStudents(r)
      PROVE  ClassroomsExist'
  <2>1. UNCHANGED <<classrooms, students, class>>
    BY <1>5 DEF OpenEnrollment, OpenEdit, OpenDestroy, Open, CountStudents,
       ValidateCapacity, CheckEmpty, WriteCapacity, NullifyStudents, Goto, Refuse, tables
  <2> QED
    BY <1>0, <2>1
<1>6. CASE UNCHANGED vars
  BY <1>0, <1>6 DEF vars, tables
<1> QED
  BY <1>1, <1>2, <1>3, <1>4, <1>5, <1>6 DEF Next, Handle

LEMMA InitReferences == Init => References
  BY InitTypeOK DEF Init, References, Locks, ClassroomsExist, Idle

LEMMA ReferencesStep == References /\ [Next]_vars => References'
  BY TypeOKStep, LocksStep, ClassroomsExistStep DEF References

\* Deleting a classroom in two steps, under row locks and the foreign key, leaves
\* no student in a classroom that is gone.
THEOREM NoDanglingClassroom == Spec => []ClassroomsExist
<1>1. References => ClassroomsExist
  BY DEF References
<1> QED
  BY <1>1, InitReferences, ReferencesStep, PTL DEF Spec

-----------------------------------------------------------------------------
(* Capacity.                                                               *)

\* A request that has its classroom alone may rely on what it read of it.
Alone(r) ==
    LET d == desk[r] IN
    d.at # "idle" /\ d.on \notin unguarded =>
        /\ d.on \in classrooms /\ d.loaded = capacity[d.on]
        /\ \A q \in Requests : desk[q].on = d.on => q = r
        /\ d.at = "enroll" => Fits(d.on, d.ids, d.loaded)
        /\ d.at = "write" => Fits(d.on, {}, d.form)
        /\ d.at \in {"nullify", "delete"} => In(d.on) = {}

IdleNowhere == \A r \in Requests : desk[r].at = "idle" => desk[r] = Idle

Guarded ==
    /\ References /\ IdleNowhere /\ GuardedWithinCapacity
    /\ \A r \in Requests : Alone(r)

LEMMA ClassSets ==
  ASSUME NEW A \in SUBSET Students, NEW B \in SUBSET Students
  PROVE  /\ Cardinality(A) \in Nat /\ Cardinality(B) \in Nat
         /\ A \subseteq B => Cardinality(A) <= Cardinality(B)
         /\ Cardinality(A \cup B) <= Cardinality(A) + Cardinality(B)
<1>1. /\ IsFiniteSet(A) /\ IsFiniteSet(B) /\ IsFiniteSet(A \cap B)
      /\ Cardinality(A) \in Nat /\ Cardinality(B) \in Nat /\ Cardinality(A \cap B) \in Nat
  BY FiniteStudents, FS_Subset, FS_CardinalityType
<1>2. A \subseteq B => Cardinality(A) <= Cardinality(B)
  BY <1>1, FS_Subset
<1>3. Cardinality(A \cup B) = Cardinality(A) + Cardinality(B) - Cardinality(A \cap B)
  BY <1>1, FS_Union
<1> QED
  BY <1>1, <1>2, <1>3

LEMMA InIsClass == ASSUME TypeOK, NEW c PROVE In(c) \in SUBSET Students
  BY DEF In, TypeOK

NextIn(c) == {s \in students' : class'[s] = c}

\* A classroom in which nobody new sits, and whose row stays as it was.
Quiet(c) ==
    /\ NextIn(c) \subseteq In(c)
    /\ capacity'[c] = capacity[c]
    /\ c \in classrooms => c \in classrooms'

\* What a request relies on stays true while its classroom is quiet and no other
\* request comes to it.
LEMMA AloneKept ==
  ASSUME TypeOK, NEW r \in Requests, Alone(r), desk'[r] = desk[r],
         unguarded \subseteq unguarded',
         desk[r].at # "idle" /\ desk[r].on \notin unguarded' =>
             /\ Quiet(desk[r].on)
             /\ \A q \in Requests \ {r} : desk'[q].on # desk[r].on
  PROVE  Alone(r)'
<1> DEFINE c == desk[r].on
<1> SUFFICES ASSUME desk[r].at # "idle", c \notin unguarded' PROVE Alone(r)'
  BY DEF Alone
<1>1. /\ c \in classrooms' /\ desk[r].loaded = capacity'[c]
      /\ \A q \in Requests : desk'[q].on = c => q = r
  BY DEF Alone, Quiet
<1>2. ASSUME NEW A \in SUBSET Students, NEW n \in Nat, Fits(c, A, n) PROVE Fits(c, A, n)'
  <2>1. /\ Cardinality(NextIn(c)) <= Cardinality(In(c))
        /\ Cardinality(NextIn(c)) \in Nat /\ Cardinality(In(c)) \in Nat /\ Cardinality(A) \in Nat
    BY InIsClass, ClassSets DEF Quiet, In, NextIn, TypeOK
  <2> QED
    BY <1>2, <2>1 DEF Fits, In, NextIn
<1>3. /\ desk[r].ids \in SUBSET Students /\ {} \in SUBSET Students
      /\ desk[r].loaded \in Nat /\ desk[r].form \in Nat
  BY DEF TypeOK, Request, Capacities
<1>4. /\ desk[r].at = "enroll" => Fits(c, desk[r].ids, desk[r].loaded)'
      /\ desk[r].at = "write" => Fits(c, {}, desk[r].form)'
  BY <1>2, <1>3 DEF Alone
<1>5. desk[r].at \in {"nullify", "delete"} => NextIn(c) = {}
  BY DEF Alone, Quiet
<1> QED
  BY <1>1, <1>4, <1>5 DEF Alone, In, NextIn

\* A step of r leaves the others what they rely on: it stays in its classroom and
\* the other classrooms are quiet.
LEMMA OthersAlone ==
  ASSUME Guarded, NEW r \in Requests, unguarded \subseteq unguarded',
         \A q \in Requests \ {r} : desk'[q] = desk[q],
         desk'[r].on \in {desk[r].on, None},
         \A c \in classrooms \ unguarded' : c # desk[r].on => Quiet(c)
  PROVE  \A q \in Requests \ {r} : Alone(q)'
<1> SUFFICES ASSUME NEW q \in Requests \ {r} PROVE Alone(q)'
  OBVIOUS
<1>1. TypeOK /\ Alone(q) /\ desk'[q] = desk[q]
  BY DEF Guarded, References
<1>2. ASSUME desk[q].at # "idle", desk[q].on \notin unguarded'
      PROVE  /\ Quiet(desk[q].on)
             /\ \A p \in Requests \ {q} : desk'[p].on # desk[q].on
  <2>1. desk[q].on \in classrooms /\ \A p \in Requests \ {q} : desk[p].on # desk[q].on
    BY <1>1, <1>2 DEF Alone
  <2>2. desk[q].on # None
    BY <1>1, <2>1, NoneIsNoClassroom DEF TypeOK
  <2> QED
    BY <1>2, <2>1, <2>2
<1> QED
  BY <1>1, <1>2, AloneKept

LEMMA CapacityKept ==
  ASSUME Guarded, NEW c \in classrooms \ unguarded, Quiet(c)
  PROVE  Cardinality(NextIn(c)) <= capacity'[c]
<1>1. In(c) \in SUBSET Students /\ NextIn(c) \in SUBSET Students
  BY InIsClass DEF Quiet, Guarded, References
<1>2. /\ Cardinality(NextIn(c)) <= Cardinality(In(c))
      /\ Cardinality(NextIn(c)) \in Nat /\ Cardinality(In(c)) \in Nat
  BY <1>1, ClassSets DEF Quiet
<1>3. capacity[c] \in Nat /\ Cardinality(In(c)) <= capacity[c]
  BY DEF Guarded, References, TypeOK, GuardedWithinCapacity, Capacities
<1> QED
  BY <1>2, <1>3 DEF Quiet

LEMMA GuardedStep == Guarded /\ [Next]_vars => Guarded'
<1> SUFFICES ASSUME Guarded, [Next]_vars PROVE Guarded'
  OBVIOUS
<1>0. TypeOK /\ Locks /\ ClassroomsExist /\ References' /\ TypeOK'
  BY ReferencesStep DEF Guarded, References
<1>1. \A c \in Classrooms : In(c) \in SUBSET Students /\ NextIn(c) \in SUBSET Students
  BY <1>0, InIsClass DEF In, NextIn, TypeOK
\* A step of r in a classroom that stays quiet, as all others do.
<1>2. ASSUME NEW r \in Requests, desk[r].at # "idle",
             UNCHANGED unguarded, classrooms' \subseteq classrooms,
             \A q \in Requests \ {r} : desk'[q] = desk[q],
             desk'[r].on \in {desk[r].on, None},
             desk'[r].at = "idle" => desk'[r] = Idle,
             \A c \in classrooms \ unguarded : c # desk[r].on => Quiet(c),
             Alone(r)',
             desk[r].on \in classrooms' \ unguarded =>
                 Cardinality(NextIn(desk[r].on)) <= capacity'[desk[r].on]
      PROVE  Guarded'
  <2>1. \A q \in Requests : Alone(q)'
    BY <1>2, OthersAlone
  <2>2. IdleNowhere'
    BY <1>2 DEF Guarded, IdleNowhere, Idle
  <2>3. GuardedWithinCapacity'
    BY <1>2, CapacityKept DEF GuardedWithinCapacity, In, NextIn
  <2> QED
    BY <1>0, <2>1, <2>2, <2>3 DEF Guarded
\* The same for steps that only move the request on.
<1>3. ASSUME NEW r \in Requests, desk[r].at # "idle",
             UNCHANGED <<tables, unguarded>>,
             \A q \in Requests \ {r} : desk'[q] = desk[q],
             desk'[r].on \in {desk[r].on, None},
             desk'[r].at = "idle" => desk'[r] = Idle,
             Alone(r)'
      PROVE  Guarded'
  <2>1. \A c \in Classrooms : Quiet(c)
    BY <1>3 DEF Quiet, In, NextIn, tables
  <2>2. desk[r].on \in classrooms' \ unguarded =>
            Cardinality(NextIn(desk[r].on)) <= capacity'[desk[r].on]
    BY <1>0, <1>3, <2>1, CapacityKept DEF TypeOK, tables
  <2> QED
    BY <1>0, <1>2, <1>3, <2>1, <2>2 DEF TypeOK, tables
<1>4. ASSUME NEW r \in Requests, desk[r].at # "idle", Refuse(r) PROVE Guarded'
  <2>1. desk'[r] = Idle /\ \A q \in Requests \ {r} : desk'[q] = desk[q]
    BY <1>0, <1>4 DEF Refuse, TypeOK
  <2>2. Alone(r)' /\ desk'[r].on = None
    BY <2>1 DEF Alone, Idle
  <2> QED
    BY <1>3, <1>4, <2>1, <2>2 DEF Refuse
<1>5. ASSUME NEW r \in Requests, desk[r].at # "idle",
             NEW step \in {"enroll", "write", "nullify"}, Goto(r, step),
             step = "enroll" => Fits(desk[r].on, desk[r].ids, desk[r].loaded),
             step = "write" => Fits(desk[r].on, {}, desk[r].form),
             step = "nullify" => In(desk[r].on) = {}
      PROVE  Guarded'
  <2>1. /\ desk'[r].at = step /\ desk'[r].on = desk[r].on /\ desk'[r].ids = desk[r].ids
        /\ desk'[r].loaded = desk[r].loaded /\ desk'[r].form = desk[r].form
        /\ \A q \in Requests \ {r} : desk'[q] = desk[q]
    BY <1>0, <1>5 DEF Goto, TypeOK, Request
  <2>2. UNCHANGED <<issued, classrooms, capacity, students, class, unguarded>>
    BY <1>5 DEF Goto, tables
  <2>3. Alone(r)
    BY DEF Guarded
  <2>4. Alone(r)'
    BY <1>5, <2>1, <2>2, <2>3 DEF Alone, Fits, In, NextIn
  <2> QED
    BY <1>3, <1>5, <2>1, <2>4 DEF Goto
<1>6. ASSUME NEW r \in Requests, CountStudents(r) \/ ValidateCapacity(r) \/ CheckEmpty(r)
      PROVE  Guarded'
  BY <1>4, <1>5, <1>6 DEF CountStudents, ValidateCapacity, CheckEmpty
<1>7. ASSUME NEW r \in Requests, NEW c \in Classrooms, NEW n, NEW ids,
             NEW step \in {"count", "validate", "check"}, Open(r, c, step, n, ids)
      PROVE  Guarded'
  <2>1. /\ c \in classrooms /\ desk[r].at = "idle"
        /\ desk'[r].at = step /\ desk'[r].on = c /\ desk'[r].loaded = capacity[c]
        /\ \A q \in Requests \ {r} : desk'[q] = desk[q]
    BY <1>0, <1>7 DEF Open, TypeOK
  <2>2. UNCHANGED <<issued, classrooms, capacity, students, class>>
    BY <1>7 DEF Open, tables
  <2>3. /\ unguarded \subseteq unguarded' /\ unguarded' \subseteq unguarded \cup {c}
        /\ c \notin unguarded' => \A q \in Requests : desk[q].on # c
    BY <1>7 DEF Open
  <2>4. \A d \in Classrooms : Quiet(d)
    BY <2>2 DEF Quiet, In, NextIn
  <2>5. Alone(r)'
    BY <2>1, <2>2, <2>3 DEF Alone
  <2>6. ASSUME NEW q \in Requests \ {r} PROVE Alone(q)'
    <3>1. Alone(q) /\ desk'[q] = desk[q]
      BY <2>1 DEF Guarded
    <3>2. ASSUME desk[q].at # "idle", desk[q].on \notin unguarded'
          PROVE  /\ Quiet(desk[q].on)
                 /\ \A p \in Requests \ {q} : desk'[p].on # desk[q].on
      <4>1. desk[q].on \in Classrooms /\ \A p \in Requests \ {q} : desk[p].on # desk[q].on
        BY <1>0, <2>3, <3>1, <3>2 DEF Alone, TypeOK
      <4>2. desk'[r].on # desk[q].on
        BY <2>1, <2>3, <3>2
      <4> QED
        BY <2>1, <2>4, <4>1, <4>2
    <3> QED
      BY <1>0, <2>3, <3>1, <3>2, AloneKept
  <2>7. IdleNowhere'
    BY <2>1 DEF Guarded, IdleNowhere
  <2>8. GuardedWithinCapacity'
    BY <1>0, <2>2, <2>3, <2>4, CapacityKept DEF GuardedWithinCapacity, TypeOK, In, NextIn
  <2> QED
    BY <1>0, <2>5, <2>6, <2>7, <2>8 DEF Guarded
<1>8. ASSUME NEW r \in Requests, OpenEnrollment(r) \/ OpenEdit(r) \/ OpenDestroy(r)
      PROVE  Guarded'
  BY <1>7, <1>8 DEF OpenEnrollment, OpenEdit, OpenDestroy
<1>9. ASSUME NEW r \in Requests, EnrollStudents(r) PROVE Guarded'
  <2> DEFINE c == desk[r].on
  <2>1. /\ desk[r].at = "enroll" /\ desk'[r] = Idle
        /\ UNCHANGED <<issued, classrooms, capacity, students, unguarded>>
        /\ \A q \in Requests \ {r} : desk'[q] = desk[q]
    BY <1>0, <1>9 DEF EnrollStudents, TypeOK
  <2>2. \A s \in students : class'[s] = IF s \in desk[r].ids /\ c \in classrooms
                                        THEN c ELSE class[s]
    BY <1>0, <1>9 DEF EnrollStudents, TypeOK
  <2>3. \A d \in Classrooms : d # c => Quiet(d)
    BY <2>1, <2>2 DEF Quiet, In, NextIn
  <2>4. Alone(r)' /\ desk'[r].on = None
    BY <2>1 DEF Alone, Idle
  <2>5. ASSUME c \in classrooms \ unguarded PROVE Cardinality(NextIn(c)) <= capacity'[c]
    <3>1. NextIn(c) \subseteq In(c) \cup desk[r].ids
      BY <2>1, <2>2 DEF In, NextIn
    <3>2. desk[r].ids \in SUBSET Students /\ c \in Classrooms /\ capacity[c] \in Nat
      BY <1>0, <2>5 DEF TypeOK, Request, Capacities
    <3>3. Cardinality(In(c)) + Cardinality(desk[r].ids) <= capacity[c]
      BY <2>1, <2>5 DEF Guarded, Alone, Fits
    <3>4. In(c) \cup desk[r].ids \in SUBSET Students
      BY <1>1, <3>2
    <3>5. /\ Cardinality(NextIn(c)) <= Cardinality(In(c) \cup desk[r].ids)
          /\ Cardinality(In(c) \cup desk[r].ids) <=
                 Cardinality(In(c)) + Cardinality(desk[r].ids)
          /\ Cardinality(NextIn(c)) \in Nat /\ Cardinality(In(c) \cup desk[r].ids) \in Nat
          /\ Cardinality(In(c)) \in Nat /\ Cardinality(desk[r].ids) \in Nat
      BY <1>1, <3>1, <3>2, <3>4, ClassSets
    <3> QED
      BY <2>1, <3>2, <3>3, <3>5
  <2>6. \A d \in classrooms \ unguarded : d # c => Quiet(d)
    BY <1>0, <2>3 DEF TypeOK
  <2> QED
    BY <1>2, <2>1, <2>4, <2>5, <2>6
<1>10. ASSUME NEW r \in Requests, WriteCapacity(r) PROVE Guarded'
  <2> DEFINE c == desk[r].on
  <2>1. /\ desk[r].at = "write" /\ desk'[r] = Idle
        /\ UNCHANGED <<issued, classrooms, students, class, unguarded>>
        /\ \A q \in Requests \ {r} : desk'[q] = desk[q]
    BY <1>0, <1>10 DEF WriteCapacity, TypeOK
  <2>2. \A d \in Classrooms : d # c => capacity'[d] = capacity[d]
    BY <1>0, <1>10 DEF WriteCapacity, TypeOK
  <2>3. \A d \in classrooms \ unguarded : d # c => Quiet(d)
    BY <1>0, <2>1, <2>2 DEF Quiet, In, NextIn, TypeOK
  <2>4. Alone(r)' /\ desk'[r].on = None
    BY <2>1 DEF Alone, Idle
  <2>5. ASSUME c \in classrooms \ unguarded PROVE Cardinality(NextIn(c)) <= capacity'[c]
    <3>1. Fits(c, {}, desk[r].form) /\ desk[r].loaded = capacity[c]
      BY <2>1, <2>5 DEF Guarded, Alone
    <3>2. capacity'[c] = desk[r].form
      BY <1>0, <1>10, <2>5, <3>1 DEF WriteCapacity, TypeOK
    <3>3. Cardinality(In(c)) \in Nat /\ Cardinality({}) = 0
      BY <1>0, <2>5, <1>1, ClassSets, FS_EmptySet DEF TypeOK
    <3> QED
      BY <2>1, <3>1, <3>2, <3>3 DEF Fits, In, NextIn
  <2> QED
    BY <1>2, <2>1, <2>3, <2>4, <2>5
<1>11. ASSUME NEW r \in Requests, NullifyStudents(r) PROVE Guarded'
  <2>1. /\ desk[r].at = "nullify" /\ desk'[r].at = "delete" /\ desk'[r].on = desk[r].on
        /\ desk'[r].loaded = desk[r].loaded
        /\ \A q \in Requests \ {r} : desk'[q] = desk[q]
    BY <1>0, <1>11 DEF NullifyStudents, TypeOK, Request
  <2>2. UNCHANGED <<tables, unguarded>>
    BY <1>11 DEF NullifyStudents
  <2>3. Alone(r)
    BY DEF Guarded
  <2>4. Alone(r)'
    BY <2>1, <2>2, <2>3 DEF Alone, In, NextIn, tables
  <2> QED
    BY <1>3, <2>1, <2>2, <2>4
<1>12. ASSUME NEW r \in Requests, DeleteClassroom(r) PROVE Guarded'
  <2> DEFINE c == desk[r].on
  <2>1. /\ desk[r].at = "delete" /\ desk'[r] = Idle
        /\ UNCHANGED <<issued, capacity, students, unguarded>>
        /\ \A q \in Requests \ {r} : desk'[q] = desk[q]
    BY <1>0, <1>12 DEF DeleteClassroom, TypeOK
  <2>2. /\ classrooms' \subseteq classrooms /\ classrooms \ {c} \subseteq classrooms'
        /\ \A s \in students : class'[s] = class[s] \/ class'[s] = None
    BY <1>0, <1>12 DEF DeleteClassroom, Remove, TypeOK
  <2>3. \A d \in Classrooms : NextIn(d) \subseteq In(d)
    BY <2>1, <2>2, NoneIsNoClassroom DEF In, NextIn
  <2>4. \A d \in classrooms \ unguarded : d # c => Quiet(d)
    BY <1>0, <2>1, <2>2, <2>3 DEF Quiet, TypeOK
  <2>5. Alone(r)' /\ desk'[r].on = None
    BY <2>1 DEF Alone, Idle
  <2>6. ASSUME c \in classrooms' \ unguarded PROVE Cardinality(NextIn(c)) <= capacity'[c]
    BY <1>0, <2>1, <2>2, <2>3, <2>6, CapacityKept DEF Quiet, TypeOK
  <2> QED
    BY <1>2, <2>1, <2>2, <2>4, <2>5, <2>6
\* No request acts: everybody stays where they are.
<1>13. ASSUME UNCHANGED desk, unguarded \subseteq unguarded',
              \A c \in classrooms \ unguarded' : Quiet(c),
              \A c \in classrooms' \ unguarded' : c \in classrooms \/ NextIn(c) = {}
       PROVE  Guarded'
  <2>1. ASSUME NEW q \in Requests PROVE Alone(q)'
    <3>1. Alone(q)
      BY DEF Guarded
    <3>2. desk[q].at # "idle" /\ desk[q].on \notin unguarded' =>
              /\ Quiet(desk[q].on)
              /\ \A p \in Requests \ {q} : desk'[p].on # desk[q].on
      BY <1>13, <3>1 DEF Alone
    <3> QED
      BY <1>0, <1>13, <3>1, <3>2, AloneKept
  <2>2. IdleNowhere'
    BY <1>13 DEF Guarded, IdleNowhere
  <2>3. ASSUME NEW c \in classrooms' \ unguarded' PROVE Cardinality(NextIn(c)) <= capacity'[c]
    <3>1. CASE c \in classrooms
      BY <1>13, <2>3, <3>1, CapacityKept
    <3>2. CASE NextIn(c) = {}
      BY <1>0, <3>2, FS_EmptySet DEF TypeOK, Capacities
    <3> QED
      BY <1>13, <3>1, <3>2
  <2> QED
    BY <1>0, <2>1, <2>2, <2>3 DEF Guarded, GuardedWithinCapacity, In, NextIn
<1>14. ASSUME NEW c \in Classrooms, NEW n \in Capacities, Create(c, n) PROVE Guarded'
  <2>1. /\ UNCHANGED <<students, class, desk, unguarded>> /\ c \notin classrooms
        /\ classrooms' = classrooms \cup {c}
        /\ \A d \in Classrooms : d # c => capacity'[d] = capacity[d]
    BY <1>0, <1>14 DEF Create, TypeOK
  <2>2. NextIn(c) = {}
    BY <1>0, <2>1, NoneIsNoClassroom DEF In, NextIn, ClassroomsExist
  <2>3. \A d \in classrooms : Quiet(d)
    BY <1>0, <2>1 DEF Quiet, In, NextIn, TypeOK
  <2> QED
    BY <1>13, <2>1, <2>2, <2>3
<1>15. ASSUME NEW s \in Students, NEW c \in Classrooms \cup {None},
              Admit(s, c) \/ EditStudent(s, c)
       PROVE  Guarded'
  <2>1. /\ UNCHANGED <<classrooms, capacity, desk>>
        /\ unguarded' = unguarded \cup ({c} \ {None})
        /\ students' = students \cup {s}
        /\ class'[s] = c /\ \A t \in Students \ {s} : class'[t] = class[t]
    BY <1>0, <1>15 DEF Admit, EditStudent, Place, TypeOK
  <2>2. ASSUME NEW d \in Classrooms \ unguarded' PROVE NextIn(d) \subseteq In(d)
    <3>1. d # c
      BY <2>1, <2>2, NoneIsNoClassroom
    <3> QED
      BY <1>0, <2>1, <3>1 DEF In, NextIn, TypeOK
  <2>3. \A d \in classrooms \ unguarded' : Quiet(d)
    BY <1>0, <2>1, <2>2 DEF Quiet, TypeOK
  <2> QED
    BY <1>13, <2>1, <2>3
<1>16. CASE UNCHANGED vars
  <2>1. \A c \in classrooms : Quiet(c)
    BY <1>16 DEF vars, tables, Quiet, In, NextIn
  <2> QED
    BY <1>13, <1>16, <2>1 DEF vars, tables
<1> QED
  BY <1>6, <1>8, <1>9, <1>10, <1>11, <1>12, <1>14, <1>15, <1>16 DEF Next, Handle

LEMMA InitGuarded == Init => Guarded
  BY InitReferences DEF Init, Guarded, IdleNowhere, GuardedWithinCapacity, Alone, Idle

\* A classroom that never had two requests at once, and took nobody in at the student
\* desk, holds no more students than its capacity, however many requests there are.
THEOREM CapacityIsGuarded == Spec => []GuardedWithinCapacity
<1>1. Guarded => GuardedWithinCapacity
  BY DEF Guarded
<1> QED
  BY <1>1, InitGuarded, GuardedStep, PTL DEF Spec

\* And its deletion takes it from nobody.
THEOREM DeletionSparesStudents == Spec => DeletedWhenEmpty
<1>1. Guarded /\ [Next]_vars
        => [\A c \in classrooms \ classrooms' : c \in unguarded \/ In(c) = {}]_vars
  <2> SUFFICES ASSUME Guarded, [Next]_vars, NEW c \in classrooms \ classrooms',
                      c \notin unguarded
               PROVE  In(c) = {}
    OBVIOUS
  <2>1. PICK r \in Requests : DeleteClassroom(r)
    BY DEF Next, Handle, Create, OpenEnrollment, OpenEdit, OpenDestroy, Open, CountStudents,
       ValidateCapacity, CheckEmpty, EnrollStudents, WriteCapacity, NullifyStudents, Goto,
       Refuse, Admit, EditStudent, Place, vars, tables
  <2>2. desk[r].at = "delete" /\ c = desk[r].on
    BY <2>1 DEF DeleteClassroom, Remove
  <2> QED
    BY <2>2 DEF Guarded, Alone
<1> QED
  BY <1>1, InitGuarded, GuardedStep, PTL DEF Spec, DeletedWhenEmpty
=============================================================================
