---------------------------- MODULE StudentStore ----------------------------
(***************************************************************************)
(* What the tables students and student_takes promise the readers of the   *)
(* database (csb.StudentService, db/migrations): students come one by one, *)
(* each with all subjects engage listed, and leave one by one, with their  *)
(* subjects where the connection enforces the foreign key.                 *)
(***************************************************************************)
CONSTANTS
  Pid,      \* the pupil ids
  Known,    \* the codes of the table subjects
  Cascades  \* every connection enforces the foreign key

VARIABLES
  stored,  \* the students that have a row
  takes    \* the rows of student_takes: pairs of a pupil and a code

vars == <<stored, takes>>

Init ==
  /\ stored \subseteq Pid
  /\ takes \subseteq stored \X Known
  /\ \A p \in stored : \E k \in Known : <<p, k>> \in takes

Save(p) ==
  /\ p \notin stored
  /\ stored' = stored \cup {p}
  /\ \E S \in (SUBSET Known) \ {{}} : takes' = takes \cup ({p} \X S)

Remove(p) ==
  /\ p \in stored
  /\ stored' = stored \ {p}
  /\ \/ takes' = {pk \in takes : pk[1] # p}
     \/ ~Cascades /\ UNCHANGED takes

Next == \E p \in Pid : Save(p) \/ Remove(p)

Spec == Init /\ [][Next]_vars
=============================================================================
