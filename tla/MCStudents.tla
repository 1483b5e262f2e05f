----------------------------- MODULE MCStudents -----------------------------
(* Instances of Students for TLC: either of two subjects, both, or one that   *)
(* the table subjects does not have.                                          *)
EXTENDS Students, TLC

CONSTANTS maths, art, latin

MCKnown == {maths, art}
MCLists == {{}, {maths}, {art}, {maths, art}, {maths, latin}}
=============================================================================
