---------------------------- MODULE MCAttendance ----------------------------
(* Small instances of Attendance.                                          *)
EXTENDS Attendance, TLC

CONSTANTS s1, s2, s3, mum, dad

\* Two students of the class; the first has two parents with phones, the second
\* none.  A third is in another class.
TwoFamilies == (s1 :> {mum, dad}) @@ (s2 :> {}) @@ (s3 :> {mum})

OneFamily == s1 :> {mum, dad}

\* Registers of both, in page order and in another, with rows to skip, and
\* corrections.
Registers ==
    {<<<<s1, "absent">>, <<s3, "absent">>, <<s2, "absent">>>>,
     <<<<s1, None>>, <<s2, "excused">>, <<s1, "absent">>>>,
     <<<<s1, "present">>>>}

\* Corrections of one student's row.
OneStudent == {<<<<s1, "absent">>>>, <<<<s1, "present">>>>}

Symmetry == Permutations(Requests)
=============================================================================
