----------------------------- MODULE MCEnrollment -----------------------------
(* Small instances of Enrollment.                                          *)
EXTENDS Enrollment, TLC

Symmetry == Permutations(Students) \cup Permutations(Classrooms) \cup Permutations(Requests)
=============================================================================
