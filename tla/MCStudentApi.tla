---------------------------- MODULE MCStudentApi ----------------------------
(* The instances of MCStudents, with requests over HTTP. *)
EXTENDS StudentApi

CONSTANTS f1, d1, r1, maths, art

MCKnown == {maths, art}
MCLists == {{}, {maths}, {maths, art}}
=============================================================================
