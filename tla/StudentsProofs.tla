--------------------------- MODULE StudentsProofs ---------------------------
(***************************************************************************)
(* Machine-checked theorems about Students, for any pupil ids, subjects,   *)
(* answers of engage and concurrent calls.                                 *)
(***************************************************************************)
EXTENDS Students, TLAPS

\* The places of each method.
PlaceInv ==
  /\ \A c \in Find : pc[c] \in {"idle", "lookup", "engage", "create", "commit", "returned"}
  /\ \A c \in Delete : pc[c] \in {"idle", "lookup", "delete", "commit", "returned"}
  /\ \A c \in Refresh : pc[c] \notin {"lookup", "commit"}

Running(c) == pc[c] \notin {"idle", "returned"}

\* With foreign_keys in the DSN every connection has it on.
KeysInv ==
  DsnKeys =>
    /\ idle["plain"] = 0
    /\ \A c \in Call : conn[c] # "plain" /\ (Running(c) => conn[c] = "keys")

\* Who holds the write lock reads the newest version, who has seen the newest version
\* and not written has a true copy, and a commit is for the holder of the lock.
LockInv ==
  /\ version > 0
  /\ \A c \in Call :
       /\ base[c] <= version
       /\ ~Running(c) => base[c] = 0
       /\ pc[c] = "lookup" => base[c] = 0
       /\ base[c] = version /\ writer # c => tab[c] = [row |-> row, takes |-> takes]
       /\ writer = c => base[c] = version /\ Running(c)
       /\ pc[c] = "commit" => writer = c
  /\ \A c \in Find \cup Delete : writer = c => pc[c] = "commit"

\* What is about to be committed is the database and one whole student more, or
\* one student less.
Saves(c) ==
  /\ row[at[c]] = "none"
  /\ tab[c].row = [row EXCEPT ![at[c]] = Column(ans[c])]
  /\ \E S \in (SUBSET Known) \ {{}} : tab[c].takes = takes \cup ({at[c]} \X S)

Removes(c) ==
  /\ row[at[c]] # "none"
  /\ tab[c].row = [row EXCEPT ![at[c]] = "none"]
  /\ \/ tab[c].takes = {pk \in takes : pk[1] # at[c]}
     \/ ~DsnKeys /\ tab[c].takes = takes

ChangeInv ==
  /\ \A c \in Find : pc[c] = "commit" => Saves(c)
  /\ \A c \in Delete : pc[c] = "commit" => Removes(c)
  /\ \A c \in Delete : pc[c] = "delete" => base[c] # 0 /\ tab[c].row[at[c]] # "none"

\* A look-up is as old as the version it was made in.
LookInv ==
  "findStudents" \in Written =>
    \A c \in Find : pc[c] \in {"engage", "create", "commit"} => base[c] # 0 /\ looked[c] = base[c]

\* Each branch of the switch is taken for the copies it is for.
AtChoice(c) ==
  /\ pc[c] \in {"create", "update", "delete"} =>
       base[c] # 0 /\ tab[c].row[at[c]] = had[c] /\ ans[c].there
  /\ pc[c] = "create" => had[c] = "none" /\ (ans[c].attends \/ c \notin Purge)
  /\ pc[c] = "update" => had[c] # "none" /\ (ans[c].attends \/ c \notin Purge)
  /\ pc[c] = "delete" => had[c] # "none" /\ ~ans[c].attends /\ c \in Purge

AtPause(c) == pc[c] = "wait" => Refreshed(c)

RefreshInv == "findStudents" \in Written => \A c \in Refresh : AtChoice(c) /\ AtPause(c)

\* A refresh that writes changes nothing of the students it has not come to.
RestInv == "findStudents" \in Written => \A c \in Refresh : writer = c => OthersKept(c)

\* In the repository nobody is looked up and nobody is saved: a student engage has is
\* taken for a new one, and a refresh ends at the first it would save.
UnwrittenInv ==
  "findStudents" \notin Written /\ "statements" \notin Written =>
    /\ \A c \in Find : pc[c] # "commit"
    /\ \A c \in Refresh : /\ tab[c] = Nothing /\ had[c] = "none" /\ AtPause(c)
                          /\ pc[c] \notin {"update", "delete"} /\ writer # c

IInv == TypeOK /\ PlaceInv /\ KeysInv /\ LockInv /\ ChangeInv /\ LookInv /\ RefreshInv /\ RestInv
        /\ UnwrittenInv

\* The INSERT statements are not mended before findStudents reads its rows.  So it is
\* in the repository, where neither is done, and once both are.
ReadsBeforeSaves == "statements" \in Written => "findStudents" \in Written

-----------------------------------------------------------------------------
Places == {"idle", "lookup", "engage", "local", "create", "update", "delete", "commit", "wait", "returned"}
Tables == [row : [Pid -> {"none", "attends", "left"}], takes : SUBSET (Pid \X Known)]

\* A transaction reads tables, its own copy or the database.
LEMMA SnapshotType ==
  ASSUME TypeOK, NEW c \in Call
  PROVE  /\ Snapshot(c) \in Tables /\ Nothing \in Tables /\ tab[c] \in Tables
         /\ Found(c) \in {"none", "attends", "left"}
<1>1. Snapshot(c) \in Tables /\ Nothing \in Tables /\ tab[c] \in Tables
  BY DEF TypeOK, Snapshot, Nothing, Tables
<1>2. Snapshot(c).row[at[c]] \in {"none", "attends", "left"}
  BY <1>1 DEF TypeOK, Tables
<1> QED
  BY <1>1, <1>2 DEF Found

\* The steps that end a call without a commit.
Ends(c) ==
  \/ BeginFails(c) \/ LookupEnds(c) \/ AskEngageEnds(c) \/ AskEngagePanics(c) \/ StepFails(c)
  \/ CreateFails(c) \/ UpdateFails(c) \/ UpdatePanics(c) \/ DeleteFails(c) \/ CommitFails(c) \/ WaitEnds(c)

\* All of them give back what the call has, and answer.
LEMMA EndsGiveBack ==
  ASSUME NEW c \in Call, Ends(c)
  PROVE  \E r \in {"nil", "student", "notFound", "error", "panic"} : GiveBack(c, r)
BY DEF Ends, BeginFails, LookupEnds, AskEngageEnds, AskEngagePanics, StepFails, CreateFails,
       UpdateFails, UpdatePanics, DeleteFails, CommitFails, WaitEnds

\* Every step keeps the types.
LEMMA TypePreserved == TypeOK /\ [Next]_vars => TypeOK'
<1> SUFFICES ASSUME TypeOK, [Next]_vars PROVE TypeOK'
  OBVIOUS
<1> USE StudentsAssumption
\* What a return leaves alone and what it resets.
<1>g. ASSUME TypeOK, NEW c \in Call,
             NEW r \in {"nil", "student", "notFound", "error", "panic"}, GiveBack(c, r)
      PROVE  TypeOK'
  <2> USE <1>g
  <2>1. Nothing \in Tables /\ Nobody \in Answer
    BY SnapshotType DEF Answer
  <2>2. /\ tab' \in [Call -> Tables] /\ ans' \in [Call -> Answer]
        /\ base' \in [Call -> Nat] /\ looked' \in [Call -> Nat]
        /\ had' \in [Call -> {"none", "attends", "left"}]
        /\ UNCHANGED <<row, takes, version, at, ctxDone>>
    BY <2>1 DEF TypeOK, Tables, GiveBack, Return
  <2>3. /\ writer' \in Call \cup {NoOne}
        /\ pc'[c] = "returned" /\ pc' = [pc EXCEPT ![c] = "returned"]
        /\ conn' \in [Call -> {"none", "keys", "plain"}]
        /\ result' \in [Call -> {"none", "nil", "student", "notFound", "error", "panic"}]
    BY DEF TypeOK, GiveBack, Return
  <2>4. idle' \in [{"keys", "plain"} -> 0..2] /\ idle'["keys"] + idle'["plain"] <= 2
    BY DEF TypeOK, GiveBack, Return
  <2> QED
    BY <2>2, <2>3, <2>4 DEF TypeOK, Tables
<1>0. \A c \in Call : \A r \in {"nil", "student", "notFound", "error", "panic"} : GiveBack(c, r) => TypeOK'
  BY <1>g
<1>r. ASSUME NEW c \in Call, ReadStudent(c)
      PROVE  /\ had' \in [Call -> {"none", "attends", "left"}]
             /\ looked' \in [Call -> Nat] /\ base' \in [Call -> Nat] /\ tab' \in [Call -> Tables]
             /\ had'[c] = Found(c)
  <2>1. had' = [had EXCEPT ![c] = Found(c)] /\ looked' = [looked EXCEPT ![c] = version]
    BY <1>r DEF ReadStudent
  <2>2. had' \in [Call -> {"none", "attends", "left"}] /\ had'[c] = Found(c) /\ looked' \in [Call -> Nat]
    BY <2>1, SnapshotType DEF TypeOK
  <2>3. base' \in [Call -> Nat] /\ tab' \in [Call -> Tables]
    <3>1. tab \in [Call -> Tables] /\ base \in [Call -> Nat] /\ version \in Nat
      BY DEF TypeOK, Tables
    <3>2. Snapshot(c) \in Tables
      BY SnapshotType
    <3>3. CASE "findStudents" \in Written
      BY <1>r, <3>1, <3>2, <3>3 DEF ReadStudent, See
    <3>4. CASE "findStudents" \notin Written
      BY <1>r, <3>1, <3>4 DEF ReadStudent
    <3> QED
      BY <3>3, <3>4
  <2> QED
    BY <2>2, <2>3
<1>w. ASSUME NEW c \in Call, NEW r, NEW t, Write(c, r, t), [row |-> r, takes |-> t] \in Tables
      PROVE  /\ base' \in [Call -> Nat] /\ writer' \in Call \cup {NoOne} /\ tab' \in [Call -> Tables]
             /\ UNCHANGED <<row, takes, version, at, had, ans, looked>>
  BY <1>w DEF TypeOK, Write, See, Tables
<1>1. ASSUME NEW c \in Call, Begin(c) PROVE TypeOK'
  <2>1. /\ idle' \in [{"keys", "plain"} -> 0..2] /\ idle'["keys"] + idle'["plain"] <= 2
        /\ conn' \in [Call -> {"none", "keys", "plain"}]
    <3>1. ASSUME NEW k \in {"keys", "plain"}, idle[k] > 0,
                 idle' = [idle EXCEPT ![k] = @ - 1], conn' = [conn EXCEPT ![c] = k]
          PROVE  <2>1
      BY <3>1 DEF TypeOK
    <3>2. ASSUME UNCHANGED idle, conn' = [conn EXCEPT ![c] = IF DsnKeys THEN "keys" ELSE "plain"]
          PROVE  <2>1
      BY <3>2 DEF TypeOK
    <3> QED
      BY <1>1, <3>1, <3>2 DEF Begin, Connect
  <2> QED
    BY <1>1, <2>1 DEF TypeOK, Begin, dbVars, workVars, locals
<1>2. ASSUME NEW c \in Call, Lookup(c) PROVE TypeOK'
  BY <1>2, <1>r DEF TypeOK, Tables, Lookup, GoTo, dbVars
<1>3. ASSUME NEW c \in Call, Local(c) PROVE TypeOK'
  <2>1. Choice(c, had'[c], ans[c]) \in {"wait", "create", "update", "delete"}
    BY DEF TypeOK, Answer, Nobody, Choice
  <2> QED
    BY <1>3, <1>r, <2>1 DEF TypeOK, Tables, Local, GoTo, dbVars
<1>4. ASSUME NEW c \in Call, AskEngage(c) PROVE TypeOK'
  BY <1>4 DEF TypeOK, AskEngage, GoTo, dbVars
<1>5. ASSUME NEW c \in Call, Create(c) PROVE TypeOK'
  <2>1. {at[c]} \X ans[c].subjects \subseteq Pid \X Known
    BY <1>5 DEF TypeOK, Create, CreateOK, CanAttach
  <2>2. Snapshot(c).row \in [Pid -> {"none", "attends", "left"}] /\ Snapshot(c).takes \subseteq Pid \X Known
    BY SnapshotType DEF Tables
  <2>3. [Snapshot(c).row EXCEPT ![at[c]] = Column(ans[c])] \in [Pid -> {"none", "attends", "left"}]
    BY <2>2 DEF TypeOK, Column
  <2>4. [row |-> [Snapshot(c).row EXCEPT ![at[c]] = Column(ans[c])],
         takes |-> Snapshot(c).takes \cup ({at[c]} \X ans[c].subjects)] \in Tables
    BY <2>1, <2>2, <2>3 DEF Tables
  <2>5. /\ base' \in [Call -> Nat] /\ writer' \in Call \cup {NoOne} /\ tab' \in [Call -> Tables]
        /\ UNCHANGED <<row, takes, version, at, had, ans, looked>>
    BY <1>5, <1>w, <2>4 DEF Create
  <2> QED
    BY <1>5, <2>5 DEF TypeOK, Tables, Create, GoTo
<1>6. ASSUME NEW c \in Call, Update(c) PROVE TypeOK'
  <2>1. [row |-> [tab[c].row EXCEPT ![at[c]] = Column(ans[c])], takes |-> tab[c].takes] \in Tables
    BY DEF TypeOK, Column, Tables
  <2>2. /\ base' \in [Call -> Nat] /\ writer' \in Call \cup {NoOne} /\ tab' \in [Call -> Tables]
        /\ UNCHANGED <<row, takes, version, at, had, ans, looked>>
    BY <1>6, <1>w, <2>1 DEF Update
  <2> QED
    BY <1>6, <2>2 DEF TypeOK, Tables, Update, GoTo
<1>7. ASSUME NEW c \in Call, DeleteRow(c) PROVE TypeOK'
  <2> DEFINE kept == IF conn[c] = "keys" THEN {pk \in tab[c].takes : pk[1] # at[c]} ELSE tab[c].takes
  <2>1. [row |-> [tab[c].row EXCEPT ![at[c]] = "none"], takes |-> kept] \in Tables
    BY DEF TypeOK, Tables
  <2>2. /\ base' \in [Call -> Nat] /\ writer' \in Call \cup {NoOne} /\ tab' \in [Call -> Tables]
        /\ UNCHANGED <<row, takes, version, at, had, ans, looked>>
    BY <1>7, <1>w, <2>1 DEF DeleteRow
  <2> QED
    BY <1>7, <2>2 DEF TypeOK, Tables, DeleteRow, GoTo
<1>8. ASSUME NEW c \in Call, Commit(c) PROVE TypeOK'
  <2>1. /\ row' \in [Pid -> {"none", "attends", "left"}] /\ takes' \subseteq Pid \X Known
        /\ version' \in Nat
    BY <1>8 DEF TypeOK, Commit
  <2>2. tab' \in [Call -> Tables] /\ ans' \in [Call -> Answer]
    BY <1>8, SnapshotType DEF TypeOK, Tables, Commit, Return, Answer
  <2> QED
    BY <1>8, <2>1, <2>2 DEF TypeOK, Tables, Commit, Return
<1>9. ASSUME NEW c \in Call, WaitNext(c) PROVE TypeOK'
  <2>1. at[c] + 1 \in Pid
    BY <1>9 DEF TypeOK, WaitNext, Pid
  <2> QED
    BY <1>9, <2>1 DEF TypeOK, WaitNext, GoTo, dbVars
<1>10. ASSUME NEW c \in Call, Ends(c) PROVE TypeOK'
  BY <1>0, <1>10, EndsGiveBack
<1>11. ASSUME NEW c \in Call, Cancel(c) PROVE TypeOK'
  BY <1>11 DEF TypeOK, Cancel, dbVars, workVars, locals
<1>12. CASE UNCHANGED vars
  BY <1>12 DEF TypeOK, vars, dbVars, workVars, locals
<1> QED
  BY <1>1, <1>2, <1>3, <1>4, <1>5, <1>6, <1>7, <1>8, <1>9, <1>10, <1>11, <1>12 DEF Next, Step, Ends

\* Only calls that may stand at a place get there.
LEMMA PlacePreserved == TypeOK /\ PlaceInv /\ [Next]_vars => PlaceInv'
<1> SUFFICES ASSUME TypeOK, PlaceInv, [Next]_vars PROVE PlaceInv'
  OBVIOUS
<1>0. Find \subseteq Call /\ Delete \subseteq Call /\ Refresh \subseteq Call
  BY DEF Call
<1>1. ASSUME NEW c \in Call, NEW place, pc' = [pc EXCEPT ![c] = place],
             \/ place = "returned"
             \/ place = "commit" /\ c \notin Refresh
             \/ place = "lookup" /\ c \notin Refresh
             \/ place \in {"engage", "create"} /\ c \notin Delete
             \/ place = "delete" /\ c \notin Find
             \/ place \in {"local", "update", "wait"} /\ c \notin Find \cup Delete
      PROVE  PlaceInv'
  <2>1. \A d \in Call : pc'[d] = IF d = c THEN place ELSE pc[d]
    BY <1>1 DEF TypeOK
  <2> QED
    BY <1>0, <1>1, <2>1 DEF PlaceInv
<1> USE StudentsAssumption
<1>2. ASSUME NEW c \in Call, Ends(c) \/ Commit(c) PROVE PlaceInv'
  <2>1. pc' = [pc EXCEPT ![c] = "returned"]
    BY <1>2, EndsGiveBack DEF GiveBack, Commit, Return
  <2> QED
    BY <1>1, <2>1
<1>3. ASSUME NEW c \in Call, Begin(c) \/ Lookup(c) PROVE PlaceInv'
  BY <1>0, <1>1, <1>3 DEF Begin, Lookup, GoTo, PlaceInv, Call
<1>4. ASSUME NEW c \in Call, AskEngage(c) \/ WaitNext(c) PROVE PlaceInv'
  BY <1>0, <1>1, <1>4 DEF AskEngage, WaitNext, GoTo, PlaceInv, Call
<1>5. ASSUME NEW c \in Call, Create(c) \/ Update(c) \/ DeleteRow(c) PROVE PlaceInv'
  BY <1>0, <1>1, <1>5 DEF Create, Update, DeleteRow, GoTo, PlaceInv, Call
<1>6. ASSUME NEW c \in Call, Local(c) PROVE PlaceInv'
  <2>1. c \in Refresh /\ Choice(c, had'[c], ans[c]) \in {"wait", "create", "update", "delete"}
    BY <1>6 DEF Local, Choice, TypeOK, Answer, Nobody, PlaceInv, Call
  <2> QED
    BY <1>1, <1>6, <2>1 DEF Local, GoTo
<1>7. ASSUME NEW c \in Call, Cancel(c) PROVE PlaceInv'
  BY <1>7 DEF Cancel, PlaceInv
<1>8. CASE UNCHANGED vars
  BY <1>8 DEF vars, PlaceInv
<1> QED
  BY <1>2, <1>3, <1>4, <1>5, <1>6, <1>7, <1>8 DEF Next, Step, Ends

\* The pool opens and takes back connections that have the pragma on.
LEMMA KeysPreserved == TypeOK /\ KeysInv /\ [Next]_vars => KeysInv'
<1> SUFFICES ASSUME TypeOK, KeysInv, DsnKeys, [Next]_vars PROVE KeysInv'
  BY DEF KeysInv, Next, vars
<1> USE DEF TypeOK, KeysInv, Running
<1>1. ASSUME NEW c \in Call, NEW r, Return(c, r) PROVE KeysInv'
  BY <1>1 DEF Return
<1>2. ASSUME NEW c \in Call, Ends(c) \/ Commit(c) PROVE KeysInv'
  BY <1>1, <1>2, EndsGiveBack DEF Commit, GiveBack
<1>3. ASSUME NEW c \in Call, Begin(c) PROVE KeysInv'
  BY <1>3 DEF Begin, Connect
<1>4. ASSUME NEW c \in Call, NEW place, Running(c), GoTo(c, place) PROVE KeysInv'
  BY <1>4 DEF GoTo
<1>5. ASSUME NEW c \in Call, \/ Lookup(c) \/ Local(c) \/ AskEngage(c) \/ Create(c) \/ Update(c)
                             \/ DeleteRow(c) \/ WaitNext(c)
      PROVE  KeysInv'
  BY <1>4, <1>5 DEF Lookup, Local, AskEngage, Create, Update, DeleteRow, WaitNext
<1>6. ASSUME NEW c \in Call, Cancel(c) PROVE KeysInv'
  BY <1>6 DEF Cancel
<1>7. CASE UNCHANGED vars
  BY <1>7 DEF vars
<1> QED
  BY <1>2, <1>3, <1>5, <1>6, <1>7 DEF Next, Step, Ends

\* The lock is taken only by who reads the newest version, and only its holder makes
\* a new one.
LEMMA LockPreserved == TypeOK /\ PlaceInv /\ LockInv /\ [Next]_vars => LockInv'
<1> SUFFICES ASSUME TypeOK, PlaceInv, LockInv, [Next]_vars PROVE LockInv'
  OBVIOUS
<1> USE StudentsAssumption DEF LockInv, Running
<1>t. /\ version \in Nat /\ base \in [Call -> Nat] /\ tab \in [Call -> Tables]
      /\ pc \in [Call -> Places] /\ Find \cup Delete \subseteq Call /\ NoOne \notin Call
      /\ Find \cap Refresh = {} /\ Delete \cap Refresh = {}
  <2>1. version \in Nat /\ base \in [Call -> Nat] /\ tab \in [Call -> Tables] /\ pc \in [Call -> Places]
    BY DEF TypeOK, Tables, Places
  <2> QED
    BY <2>1 DEF Call
<1>1. ASSUME NEW c \in Call, NEW r, Return(c, r), UNCHANGED <<row, takes, version>> PROVE LockInv'
  BY <1>t, <1>1 DEF Return
<1>2. ASSUME NEW c \in Call, Commit(c) PROVE LockInv'
  <2>1. /\ writer = c /\ version' = version + 1 /\ writer' = NoOne
        /\ base' = [base EXCEPT ![c] = 0] /\ pc' = [pc EXCEPT ![c] = "returned"]
    BY <1>2 DEF Commit, Return
  <2> QED
    BY <1>t, <2>1
<1>3. ASSUME NEW c \in Call, Ends(c) PROVE LockInv'
  BY <1>1, <1>3, EndsGiveBack DEF GiveBack
<1>4. ASSUME NEW c \in Call, Begin(c) PROVE LockInv'
  BY <1>t, <1>4 DEF Begin, dbVars, workVars, locals
<1>5. ASSUME NEW c \in Call, NEW place, ReadStudent(c), GoTo(c, place), UNCHANGED dbVars,
             Running(c), pc[c] # "commit", place \notin {"idle", "returned", "lookup", "commit"}
      PROVE  LockInv'
  <2>1. /\ base' \in [Call -> Nat] /\ \A d \in Call \ {c} : base'[d] = base[d] /\ tab'[d] = tab[d]
        /\ \/ base'[c] = base[c] /\ tab'[c] = tab[c]
           \/ base[c] = 0 /\ base'[c] = version /\ tab'[c] = [row |-> row, takes |-> takes]
    BY <1>t, <1>5 DEF ReadStudent, See, Snapshot
  <2>2. \A d \in Call : pc'[d] = IF d = c THEN place ELSE pc[d]
    BY <1>t, <1>5 DEF GoTo
  <2>3. UNCHANGED <<row, takes, version, writer>>
    BY <1>5 DEF dbVars
  <2> QED
    BY <1>t, <1>5, <2>1, <2>2, <2>3
<1>6. ASSUME NEW c \in Call, Lookup(c) PROVE LockInv'
  <2>1. /\ ReadStudent(c) /\ UNCHANGED dbVars /\ pc[c] = "lookup"
        /\ \E place \in {"engage", "delete"} : GoTo(c, place)
    BY <1>6 DEF Lookup
  <2> QED
    BY <1>5, <2>1
<1>7. ASSUME NEW c \in Call, Local(c) PROVE LockInv'
  <2>1. Choice(c, had'[c], ans[c]) \in {"wait", "create", "update", "delete"}
    BY DEF Choice, TypeOK, Answer, Nobody
  <2>2. /\ ReadStudent(c) /\ UNCHANGED dbVars /\ pc[c] = "local"
        /\ \E place \in {"wait", "create", "update", "delete"} : GoTo(c, place)
    BY <1>7, <2>1 DEF Local
  <2> QED
    BY <1>5, <2>2
<1>8. ASSUME NEW c \in Call, AskEngage(c) \/ WaitNext(c) PROVE LockInv'
  <2>1. /\ UNCHANGED <<row, takes, version, writer, base, tab>>
        /\ pc[c] \in {"engage", "wait"}
        /\ \E place \in {"create", "local", "engage"} : pc' = [pc EXCEPT ![c] = place]
    BY <1>8 DEF AskEngage, WaitNext, GoTo, dbVars
  <2> QED
    BY <1>t, <2>1
<1>9. ASSUME NEW c \in Call, NEW r, NEW t, NEW place \in {"commit", "wait"}, Write(c, r, t), GoTo(c, place),
             CanWrite(c), pc[c] \in {"create", "update", "delete"}, place = "wait" <=> c \in Refresh
      PROVE  LockInv'
  <2>1. /\ UNCHANGED <<row, takes, version>> /\ writer' = c
        /\ base'[c] = version /\ base' \in [Call -> Nat]
        /\ \A d \in Call \ {c} : base'[d] = base[d] /\ tab'[d] = tab[d] /\ writer # d
    BY <1>t, <1>9 DEF Write, See, CanWrite
  <2>2. \A d \in Call : pc'[d] = IF d = c THEN place ELSE pc[d]
    BY <1>t, <1>9 DEF GoTo
  <2> QED
    BY <1>t, <1>9, <2>1, <2>2
<1>10. ASSUME NEW c \in Call, Create(c) \/ Update(c) \/ DeleteRow(c) PROVE LockInv'
  BY <1>9, <1>10 DEF Create, Update, DeleteRow, PlaceInv, Call
<1>11. ASSUME NEW c \in Call, Cancel(c) PROVE LockInv'
  BY <1>11 DEF Cancel, dbVars, workVars, locals
<1>12. CASE UNCHANGED vars
  BY <1>12 DEF vars, dbVars, workVars, locals
<1> QED
  BY <1>2, <1>3, <1>4, <1>6, <1>7, <1>8, <1>10, <1>11, <1>12 DEF Next, Step, Ends

\* While a call holds the lock nobody else commits, so the database it compares with
\* stays what it was when it wrote.
LEMMA ChangePreserved ==
  TypeOK /\ PlaceInv /\ KeysInv /\ LockInv /\ ChangeInv /\ [Next]_vars => ChangeInv'
<1> SUFFICES ASSUME TypeOK, PlaceInv, KeysInv, LockInv, ChangeInv, [Next]_vars PROVE ChangeInv'
  OBVIOUS
<1> USE StudentsAssumption
\* Who saves or removes depends on nothing but these.
<1>s. ASSUME NEW c, row' = row, takes' = takes, at'[c] = at[c], ans'[c] = ans[c], tab'[c] = tab[c]
      PROVE  (Saves(c) => Saves(c)') /\ (Removes(c) => Removes(c)')
  <2> USE <1>s
  <2>1. Saves(c) => Saves(c)'
    BY Zenon DEF Saves, Column
  <2>2. Removes(c) => Removes(c)'
    BY Zenon DEF Removes
  <2> QED
    BY <2>1, <2>2
<1>t. /\ version \in Nat /\ base \in [Call -> Nat] /\ tab \in [Call -> Tables] /\ pc \in [Call -> Places]
      /\ at \in [Call -> Pid] /\ ans \in [Call -> Answer]
      /\ row \in [Pid -> {"none", "attends", "left"}]
      /\ Find \cup Delete \subseteq Call /\ NoOne \notin Call
      /\ Find \cap Refresh = {} /\ Delete \cap Refresh = {} /\ Find \cap Delete = {}
  <2>1. /\ version \in Nat /\ base \in [Call -> Nat] /\ tab \in [Call -> Tables] /\ pc \in [Call -> Places]
        /\ at \in [Call -> Pid] /\ ans \in [Call -> Answer]
        /\ row \in [Pid -> {"none", "attends", "left"}]
    BY DEF TypeOK, Tables, Places
  <2> QED
    BY <2>1 DEF Call
\* A step of c that commits nothing leaves what the others are about to commit.
<1>0. ASSUME NEW c \in Call,
             UNCHANGED <<row, takes>>,
             \A d \in Call \ {c} : /\ pc'[d] = pc[d] /\ at'[d] = at[d] /\ ans'[d] = ans[d]
                                   /\ tab'[d] = tab[d] /\ base'[d] = base[d],
             pc'[c] \notin {"commit", "delete"} \/ c \in Refresh
      PROVE  ChangeInv'
  <2>1. ASSUME NEW d \in Find, pc'[d] = "commit" PROVE Saves(d)'
    <3>1. d # c /\ d \in Call /\ pc[d] = "commit"
      BY <1>t, <1>0, <2>1
    <3> QED
      BY <1>0, <2>1, <3>1, <1>s DEF ChangeInv
  <2>2. ASSUME NEW d \in Delete, pc'[d] = "commit" PROVE Removes(d)'
    <3>1. d # c /\ d \in Call /\ pc[d] = "commit"
      BY <1>t, <1>0, <2>2
    <3> QED
      BY <1>0, <2>2, <3>1, <1>s DEF ChangeInv
  <2>3. ASSUME NEW d \in Delete, pc'[d] = "delete" PROVE (base[d] # 0 /\ tab[d].row[at[d]] # "none")'
    <3>1. d # c /\ d \in Call /\ pc[d] = "delete"
      BY <1>t, <1>0, <2>3
    <3> QED
      BY <1>0, <2>3, <3>1 DEF ChangeInv
  <2> QED
    BY <2>1, <2>2, <2>3 DEF ChangeInv
\* A step that leaves the database alone, after which c is about to commit or to delete.
<1>a. ASSUME NEW c \in Call \ Refresh,
             UNCHANGED <<row, takes, at, ans>>,
             \A d \in Call \ {c} : pc'[d] = pc[d] /\ tab'[d] = tab[d] /\ base'[d] = base[d],
             \/ c \in Find /\ Saves(c)'
             \/ c \in Delete /\ pc'[c] # "commit" /\ (base[c] # 0 /\ tab[c].row[at[c]] # "none")'
             \/ c \in Delete /\ pc'[c] = "commit" /\ Removes(c)'
      PROVE  ChangeInv'
  <2>1. ASSUME NEW d \in Find \ {c}, pc'[d] = "commit" PROVE Saves(d)'
    BY <1>t, <1>a, <2>1, <1>s DEF ChangeInv
  <2>2. ASSUME NEW d \in Delete \ {c}, pc'[d] = "commit" PROVE Removes(d)'
    BY <1>t, <1>a, <2>2, <1>s DEF ChangeInv
  <2>3. ASSUME NEW d \in Delete \ {c}, pc'[d] = "delete" PROVE (base[d] # 0 /\ tab[d].row[at[d]] # "none")'
    BY <1>t, <1>a, <2>3 DEF ChangeInv
  <2> QED
    BY <1>t, <1>a, <2>1, <2>2, <2>3 DEF ChangeInv
<1>1. ASSUME NEW c \in Call, Ends(c) PROVE ChangeInv'
  <2>1. \E r : GiveBack(c, r)
    BY <1>1, EndsGiveBack
  <2> QED
    BY <1>t, <1>0, <2>1 DEF GiveBack, Return, Places
<1>2. ASSUME NEW c \in Call, Commit(c) PROVE ChangeInv'
  <2>1. /\ pc' = [pc EXCEPT ![c] = "returned"] /\ pc[c] = "commit" /\ writer = c
        /\ tab' = [tab EXCEPT ![c] = Nothing] /\ base' = [base EXCEPT ![c] = 0]
        /\ ans' = [ans EXCEPT ![c] = Nobody] /\ UNCHANGED at
    BY <1>2 DEF Commit, Return, LockInv
  <2>2. \A d \in Call : pc'[d] # "commit"
    BY <1>t, <2>1 DEF LockInv
  <2> QED
    BY <1>t, <2>1, <2>2 DEF ChangeInv
<1>3. ASSUME NEW c \in Call, Begin(c) PROVE ChangeInv'
  BY <1>t, <1>0, <1>3 DEF Begin, Places, dbVars, workVars, locals
<1>4. ASSUME NEW c \in Call, Lookup(c) PROVE ChangeInv'
  <2>1. CASE c \in Find
    BY <1>t, <1>0, <1>4, <2>1 DEF Lookup, ReadStudent, See, GoTo, dbVars, Places
  <2>2. CASE c \in Delete
    <3>1. "findStudents" \in Written /\ Snapshot(c).row[at[c]] # "none" /\ base[c] = 0
      BY <1>4, <2>2, <1>t DEF Lookup, Found, LockInv
    <3>2. /\ base' = [base EXCEPT ![c] = version] /\ tab' = [tab EXCEPT ![c] = Snapshot(c)]
          /\ pc' = [pc EXCEPT ![c] = "delete"] /\ UNCHANGED <<row, takes, at, ans>>
      BY <1>4, <2>2, <3>1, <1>t DEF Lookup, ReadStudent, See, GoTo, dbVars
    <3> QED
      BY <1>t, <1>a, <2>2, <3>1, <3>2 DEF LockInv
  <2> QED
    BY <1>4, <2>1, <2>2 DEF Lookup, PlaceInv, Call
<1>5. ASSUME NEW c \in Call, Local(c) \/ AskEngage(c) \/ WaitNext(c) PROVE ChangeInv'
  <2>1. c \in Refresh \/ AskEngage(c)
    BY <1>5, <1>t DEF Local, WaitNext, PlaceInv, Call
  <2>2. CASE AskEngage(c)
    BY <1>t, <1>0, <2>2 DEF AskEngage, GoTo, dbVars, Places
  <2>3. CASE c \in Refresh /\ Local(c)
    BY <1>t, <1>0, <2>3 DEF Local, ReadStudent, See, GoTo, dbVars, Places
  <2>4. CASE c \in Refresh /\ WaitNext(c)
    BY <1>t, <1>0, <2>4 DEF WaitNext, GoTo, dbVars, Places
  <2> QED
    BY <1>5, <2>1, <2>2, <2>3, <2>4
<1>6. ASSUME NEW c \in Call, Create(c) PROVE ChangeInv'
  <2>1. CASE c \in Refresh
    BY <1>t, <1>0, <1>6, <2>1 DEF Create, Write, See, GoTo, Places
  <2>2. CASE c \in Find
    <3>1. writer # c /\ base[c] \in {0, version}
      BY <1>6, <2>2, <1>t DEF Create, CanWrite, LockInv
    <3>2. Snapshot(c) = [row |-> row, takes |-> takes]
      BY <3>1, <1>t DEF Snapshot, LockInv
    <3>3. /\ row[at[c]] = "none" /\ ans[c].subjects \in (SUBSET Known) \ {{}}
      <4>1. Valid(ans[c]) /\ Snapshot(c).row[at[c]] = "none" /\ ans[c].subjects \subseteq Known
        BY <1>6 DEF Create, CreateOK, CanAttach
      <4> QED
        BY <3>2, <4>1 DEF Valid
    <3>4. /\ tab' = [tab EXCEPT ![c] = [row |-> [row EXCEPT ![at[c]] = Column(ans[c])],
                                        takes |-> takes \cup ({at[c]} \X ans[c].subjects)]]
          /\ pc' = [pc EXCEPT ![c] = "commit"] /\ UNCHANGED <<row, takes, at, ans>>
          /\ base' = [base EXCEPT ![c] = IF @ = 0 THEN version ELSE @]
      BY <1>6, <2>2, <3>2 DEF Create, Write, See, GoTo
    <3> QED
      <4>1. Saves(c)'
        BY <1>t, <3>3, <3>4 DEF Saves, Column
      <4> QED
        BY <1>t, <1>a, <2>2, <3>4, <4>1
  <2> QED
    BY <1>6, <2>1, <2>2 DEF Create, PlaceInv, Call
<1>7. ASSUME NEW c \in Call, Update(c) PROVE ChangeInv'
  <2>1. c \in Refresh
    BY <1>7 DEF Update, PlaceInv, Call
  <2> QED
    BY <1>t, <1>0, <1>7, <2>1 DEF Update, Write, See, GoTo, Places
<1>8. ASSUME NEW c \in Call, DeleteRow(c) PROVE ChangeInv'
  <2>1. CASE c \in Refresh
    BY <1>t, <1>0, <1>8, <2>1 DEF DeleteRow, Write, See, GoTo, Places
  <2>2. CASE c \in Delete
    <3>1. writer # c /\ base[c] = version
      BY <1>8, <2>2, <1>t DEF DeleteRow, CanWrite, LockInv, ChangeInv
    <3>2. tab[c] = [row |-> row, takes |-> takes] /\ row[at[c]] # "none"
      BY <1>8, <2>2, <3>1, <1>t DEF LockInv, ChangeInv, DeleteRow
    <3>3. DsnKeys => conn[c] = "keys"
      BY <1>8 DEF DeleteRow, KeysInv, Running
    <3>4. /\ tab' = [tab EXCEPT ![c] = [row |-> [row EXCEPT ![at[c]] = "none"],
                takes |-> IF conn[c] = "keys" THEN {pk \in takes : pk[1] # at[c]} ELSE takes]]
          /\ pc' = [pc EXCEPT ![c] = "commit"] /\ UNCHANGED <<row, takes, at, ans>>
          /\ base' = [base EXCEPT ![c] = IF @ = 0 THEN version ELSE @]
      BY <1>8, <2>2, <3>2 DEF DeleteRow, Write, See, GoTo
    <3> QED
      <4>1. Removes(c)'
        BY <1>t, <3>2, <3>3, <3>4 DEF Removes
      <4> QED
        BY <1>t, <1>a, <2>2, <3>4, <4>1
  <2> QED
    BY <1>8, <2>1, <2>2 DEF DeleteRow, PlaceInv, Call
<1>9. ASSUME NEW c \in Call, Cancel(c) PROVE ChangeInv'
  BY <1>9 DEF Cancel, dbVars, workVars, locals, ChangeInv, Saves, Removes, Column
<1>10. CASE UNCHANGED vars
  BY <1>10 DEF vars, dbVars, workVars, locals, ChangeInv, Saves, Removes, Column
<1> QED
  BY <1>1, <1>2, <1>3, <1>4, <1>5, <1>6, <1>7, <1>8, <1>9, <1>10 DEF Next, Step, Ends

\* A look-up fixes the version its transaction reads, and that version stays.
LEMMA LookPreserved == TypeOK /\ PlaceInv /\ LockInv /\ LookInv /\ [Next]_vars => LookInv'
<1> SUFFICES ASSUME TypeOK, PlaceInv, LockInv, LookInv, "findStudents" \in Written, [Next]_vars
             PROVE  LookInv'
  BY DEF LookInv
<1> USE StudentsAssumption
<1>t. /\ version \in Nat \ {0} /\ base \in [Call -> Nat] /\ looked \in [Call -> Nat] /\ pc \in [Call -> Places]
      /\ Find \subseteq Call
  BY DEF TypeOK, Places, Call, LockInv
<1>0. ASSUME NEW c \in Call,
             \A d \in Call \ {c} : pc'[d] = pc[d] /\ base'[d] = base[d] /\ looked'[d] = looked[d],
             pc'[c] \in {"engage", "create", "commit"} => c \notin Find \/ (base'[c] # 0 /\ looked'[c] = base'[c])
      PROVE  LookInv'
  BY <1>t, <1>0 DEF LookInv
<1>1. ASSUME NEW c \in Call, Ends(c) \/ Commit(c) PROVE LookInv'
  <2>1. \E r : Return(c, r)
    BY <1>1, EndsGiveBack DEF GiveBack, Commit
  <2> QED
    BY <1>t, <1>0, <2>1 DEF Return
<1>2. ASSUME NEW c \in Call, Begin(c) PROVE LookInv'
  BY <1>t, <1>0, <1>2 DEF Begin, workVars, locals
<1>3. ASSUME NEW c \in Call, Lookup(c) PROVE LookInv'
  BY <1>t, <1>0, <1>3 DEF Lookup, ReadStudent, See, GoTo, LockInv
<1>4. ASSUME NEW c \in Call, Local(c) PROVE LookInv'
  <2>1. c \notin Find
    BY <1>4 DEF Local, PlaceInv
  <2> QED
    BY <1>t, <1>0, <1>4, <2>1 DEF Local, ReadStudent, See, GoTo
<1>5. ASSUME NEW c \in Call, AskEngage(c) \/ WaitNext(c) PROVE LookInv'
  <2>1. /\ UNCHANGED <<base, looked>> /\ \E place : pc' = [pc EXCEPT ![c] = place]
        /\ c \in Find => pc[c] = "engage"
    BY <1>5 DEF AskEngage, WaitNext, GoTo, PlaceInv
  <2> QED
    BY <1>t, <1>0, <2>1 DEF LookInv
<1>6. ASSUME NEW c \in Call, Create(c) \/ Update(c) \/ DeleteRow(c) PROVE LookInv'
  <2>1. /\ base' = [base EXCEPT ![c] = IF @ = 0 THEN version ELSE @] /\ UNCHANGED looked
        /\ \E place : pc' = [pc EXCEPT ![c] = place]
        /\ c \in Find => pc[c] = "create"
    BY <1>6 DEF Create, Update, DeleteRow, Write, See, GoTo, PlaceInv
  <2> QED
    BY <1>t, <1>0, <2>1 DEF LookInv
<1>7. ASSUME NEW c \in Call, Cancel(c) PROVE LookInv'
  BY <1>7 DEF Cancel, workVars, locals, LookInv
<1>8. CASE UNCHANGED vars
  BY <1>8 DEF vars, workVars, locals, LookInv
<1> QED
  BY <1>1, <1>2, <1>3, <1>4, <1>5, <1>6, <1>7, <1>8 DEF Next, Step, Ends

\* A pause depends on nothing but these.
LEMMA PauseKept ==
  ASSUME NEW d, AtPause(d), pc'[d] = pc[d], tab'[d] = tab[d], at'[d] = at[d],
         had'[d] = had[d], ans'[d] = ans[d], conn'[d] = conn[d]
  PROVE  AtPause(d)'
BY DEF AtPause, Refreshed, Documented, Codes

\* The switch and the branches it takes, over the transaction's own copy.
LEMMA RefreshPreserved ==
  TypeOK /\ PlaceInv /\ LockInv /\ RefreshInv /\ [Next]_vars => RefreshInv'
<1> SUFFICES ASSUME TypeOK, PlaceInv, LockInv, RefreshInv, "findStudents" \in Written, [Next]_vars
             PROVE  RefreshInv'
  BY DEF RefreshInv
<1> USE StudentsAssumption
<1>t. /\ version \in Nat \ {0} /\ base \in [Call -> Nat] /\ tab \in [Call -> Tables] /\ pc \in [Call -> Places]
      /\ at \in [Call -> Pid] /\ ans \in [Call -> Answer] /\ had \in [Call -> {"none", "attends", "left"}]
      /\ conn \in [Call -> {"none", "keys", "plain"}] /\ Refresh \subseteq Call
  BY DEF TypeOK, Tables, Places, Call, LockInv
\* A step of c leaves the others' copies alone.
<1>0. ASSUME NEW c \in Call,
             \A d \in Call \ {c} : /\ pc'[d] = pc[d] /\ base'[d] = base[d] /\ tab'[d] = tab[d]
                                   /\ at'[d] = at[d] /\ had'[d] = had[d] /\ ans'[d] = ans[d]
                                   /\ conn'[d] = conn[d],
             c \in Refresh => AtChoice(c)' /\ AtPause(c)'
      PROVE  RefreshInv'
  <2>1. ASSUME NEW d \in Refresh \ {c} PROVE AtChoice(d)' /\ AtPause(d)'
    <3>1. AtChoice(d)'
      BY <1>t, <1>0, <2>1 DEF RefreshInv, AtChoice
    <3>2. AtPause(d)'
      BY <1>t, <1>0, <2>1, PauseKept DEF RefreshInv
    <3> QED
      BY <3>1, <3>2
  <2> QED
    BY <1>0, <2>1 DEF RefreshInv
<1>1. ASSUME NEW c \in Call, Ends(c) \/ Commit(c) PROVE RefreshInv'
  <2>1. \E r : Return(c, r)
    BY <1>1, EndsGiveBack DEF GiveBack, Commit
  <2> QED
    BY <1>t, <1>0, <2>1 DEF Return, AtChoice, AtPause
<1>2. ASSUME NEW c \in Call, Begin(c) PROVE RefreshInv'
  BY <1>t, <1>0, <1>2 DEF Begin, Connect, workVars, locals, AtChoice, AtPause
<1>3. ASSUME NEW c \in Call, Lookup(c) PROVE RefreshInv'
  BY <1>t, <1>0, <1>3 DEF Lookup, ReadStudent, See, GoTo, PlaceInv
<1>4. ASSUME NEW c \in Call, Local(c) PROVE RefreshInv'
  <2>1. /\ base' = [base EXCEPT ![c] = IF @ = 0 THEN version ELSE @]
        /\ tab' = [tab EXCEPT ![c] = Snapshot(c)]
        /\ had' = [had EXCEPT ![c] = Snapshot(c).row[at[c]]]
        /\ pc' = [pc EXCEPT ![c] = Choice(c, had'[c], ans[c])]
        /\ UNCHANGED <<at, ans, conn>>
    BY <1>4 DEF Local, ReadStudent, See, Found, GoTo
  <2>2. base'[c] # 0 /\ tab'[c].row[at'[c]] = had'[c]
    BY <1>t, <2>1
  <2>3. pc'[c] = Choice(c, had'[c], ans'[c]) /\ ans[c] \in Answer
    BY <1>t, <2>1
  <2>4. AtChoice(c)' /\ AtPause(c)'
    BY <2>2, <2>3 DEF AtChoice, AtPause, Refreshed, Choice, Documented, Answer, Nobody
  <2> QED
    BY <1>t, <1>0, <2>1, <2>4
<1>5. ASSUME NEW c \in Call, AskEngage(c) \/ WaitNext(c) PROVE RefreshInv'
  <2>1. /\ UNCHANGED <<base, tab, had, conn>> /\ \E a \in Answer : ans' = [ans EXCEPT ![c] = a]
        /\ \E p : at' = [at EXCEPT ![c] = p]
        /\ \E place : pc' = [pc EXCEPT ![c] = place] /\ (c \in Refresh => place \in {"engage", "local"})
    BY <1>5, <1>t DEF AskEngage, WaitNext, GoTo
  <2> QED
    BY <1>t, <1>0, <2>1 DEF AtChoice, AtPause
<1>6. ASSUME NEW c \in Call, Create(c) \/ Update(c) \/ DeleteRow(c) PROVE RefreshInv'
  <2>1. /\ UNCHANGED <<at, had, ans, conn>>
        /\ base' = [base EXCEPT ![c] = IF @ = 0 THEN version ELSE @]
        /\ \E x : tab' = [tab EXCEPT ![c] = x]
        /\ \E place : pc' = [pc EXCEPT ![c] = place] /\ (c \in Refresh => place = "wait")
    BY <1>6 DEF Create, Update, DeleteRow, Write, See, GoTo
  <2>2. CASE c \notin Refresh
    BY <1>t, <1>0, <2>1, <2>2
  <2>3. CASE c \in Refresh
    <3>1. pc[c] \in {"create", "update", "delete"} /\ AtChoice(c) /\ Snapshot(c) = tab[c]
      BY <1>6, <2>3 DEF Create, Update, DeleteRow, RefreshInv, AtChoice, Snapshot
    <3>2. tab'[c].row[at[c]] = Documented(c, had[c], ans[c])
      <4>1. CASE Create(c) \/ Update(c)
        <5>1. tab'[c].row = [tab[c].row EXCEPT ![at[c]] = Column(ans[c])]
          BY <1>t, <4>1, <3>1 DEF Create, Update, Write
        <5> QED
          BY <1>t, <3>1, <4>1, <5>1 DEF Create, Update, AtChoice, Column, Documented, Tables
      <4>2. CASE DeleteRow(c)
        <5>1. tab'[c].row = [tab[c].row EXCEPT ![at[c]] = "none"]
          BY <1>t, <4>2 DEF DeleteRow, Write
        <5> QED
          BY <1>t, <3>1, <4>2, <5>1 DEF DeleteRow, AtChoice, Documented, Tables
      <4> QED
        BY <1>6, <4>1, <4>2
    <3>3. /\ had[c] = "none" => \A k \in ans[c].subjects : k \in Code => <<at[c], k>> \in tab'[c].takes
          /\ had[c] # "none" /\ tab'[c].row[at[c]] = "none" /\ conn[c] = "keys" =>
               \A pk \in tab'[c].takes : pk[1] # at[c]
      <4>1. CASE Create(c)
        <5>1. tab'[c].takes = tab[c].takes \cup ({at[c]} \X ans[c].subjects)
          BY <1>t, <4>1, <3>1 DEF Create, Write
        <5> QED
          BY <1>t, <3>1, <4>1, <5>1 DEF Create, AtChoice
      <4>2. CASE Update(c)
        <5>1. tab'[c].row = [tab[c].row EXCEPT ![at[c]] = Column(ans[c])]
          BY <1>t, <4>2 DEF Update, Write
        <5> QED
          BY <1>t, <3>1, <4>2, <5>1 DEF Update, AtChoice, Column, Tables
      <4>3. CASE DeleteRow(c)
        <5>1. conn[c] = "keys" => tab'[c].takes = {pk \in tab[c].takes : pk[1] # at[c]}
          BY <1>t, <4>3 DEF DeleteRow, Write
        <5>2. had[c] # "none"
          BY <3>1, <4>3 DEF DeleteRow, AtChoice
        <5> QED
          BY <5>1, <5>2
      <4> QED
        BY <1>6, <4>1, <4>2, <4>3
    <3>4. Refreshed(c)'
      <4>1. tab'[c].row[at'[c]] = Documented(c, had'[c], ans'[c])
        BY <2>1, <3>2
      <4>2. had'[c] = "none" => ans'[c].subjects \subseteq Codes(c, at[c])'
        <5>1. ans[c].subjects \subseteq Code
          <6>1. ans[c].subjects \in Lists \cup {{}}
            <7> DEFINE X == IF "subjects" \in Written THEN Lists ELSE {{}}
            <7>1. ans[c] = Nobody \/ ans[c] \in [there : {TRUE}, attends : BOOLEAN, subjects : X]
              BY <1>t DEF Answer
            <7>2. X \subseteq Lists \cup {{}} /\ Nobody.subjects = {}
              BY DEF Nobody
            <7> HIDE DEF X
            <7> QED
              BY <7>1, <7>2
          <6> QED
            BY <6>1 DEF Code
        <5> QED
          BY <2>1, <3>3, <5>1 DEF Codes
      <4>3. had'[c] # "none" /\ tab'[c].row[at'[c]] = "none" /\ conn'[c] = "keys" => Codes(c, at[c])' = {}
        BY <2>1, <3>3 DEF Codes
      <4> QED
        BY <4>1, <4>2, <4>3 DEF Refreshed, Documented
    <3>5. AtChoice(c)' /\ AtPause(c)'
      BY <1>t, <2>1, <2>3, <3>4 DEF AtChoice, AtPause
    <3> QED
      BY <1>t, <1>0, <2>1, <3>5
  <2> QED
    BY <2>2, <2>3
<1>7. ASSUME NEW c \in Call, Cancel(c) PROVE RefreshInv'
  BY <1>7, PauseKept DEF Cancel, workVars, locals, RefreshInv, AtChoice
<1>8. CASE UNCHANGED vars
  BY <1>8, PauseKept DEF vars, workVars, locals, RefreshInv, AtChoice
<1> QED
  BY <1>1, <1>2, <1>3, <1>4, <1>5, <1>6, <1>7, <1>8 DEF Next, Step, Ends

LEMMA RestKept ==
  ASSUME NEW d, OthersKept(d), row' = row, takes' = takes, tab'[d] = tab[d], at'[d] = at[d]
  PROVE  OthersKept(d)'
BY DEF OthersKept

\* The lock is taken with a true copy, and until it is free again only the student at
\* hand is written to it; at only grows.
LEMMA RestPreserved ==
  TypeOK /\ PlaceInv /\ LockInv /\ RefreshInv /\ RestInv /\ [Next]_vars => RestInv'
<1> SUFFICES ASSUME TypeOK, PlaceInv, LockInv, RefreshInv, RestInv, "findStudents" \in Written, [Next]_vars
             PROVE  RestInv'
  BY DEF RestInv
<1> USE StudentsAssumption
<1>t. /\ version \in Nat \ {0} /\ base \in [Call -> Nat] /\ tab \in [Call -> Tables] /\ pc \in [Call -> Places]
      /\ at \in [Call -> Pid] /\ Refresh \subseteq Call /\ NoOne \notin Call
  BY DEF TypeOK, Tables, Places, Call, LockInv
\* A step of c that commits nothing.
<1>0. ASSUME NEW c \in Call, UNCHANGED <<row, takes>>,
             \A d \in Call \ {c} : tab'[d] = tab[d] /\ at'[d] = at[d] /\ (writer' = d => writer = d),
             c \in Refresh /\ writer' = c => OthersKept(c)'
      PROVE  RestInv'
  BY <1>t, <1>0, RestKept DEF RestInv
<1>1. ASSUME NEW c \in Call, Ends(c) PROVE RestInv'
  <2>1. \E r : GiveBack(c, r)
    BY <1>1, EndsGiveBack
  <2> QED
    BY <1>t, <1>0, <2>1 DEF GiveBack, Return
<1>2. ASSUME NEW c \in Call, Commit(c) PROVE RestInv'
  <2>1. writer = c /\ writer' = NoOne
    BY <1>2 DEF Commit, Return, LockInv
  <2> QED
    BY <1>t, <2>1 DEF RestInv
<1>3. ASSUME NEW c \in Call, Begin(c) \/ Lookup(c) PROVE RestInv'
  <2>1. c \notin Refresh \/ Begin(c)
    BY <1>3 DEF Lookup, PlaceInv
  <2>2. CASE Begin(c)
    BY <1>t, <1>0, <2>2 DEF Begin, dbVars, workVars, locals, LockInv, Running
  <2>3. CASE Lookup(c) /\ c \notin Refresh
    BY <1>t, <1>0, <2>3 DEF Lookup, ReadStudent, dbVars
  <2> QED
    BY <1>3, <2>1, <2>2, <2>3
<1>4. ASSUME NEW c \in Call, Local(c) PROVE RestInv'
  <2>1. /\ tab' = [tab EXCEPT ![c] = Snapshot(c)] /\ UNCHANGED <<row, takes, writer, at>>
        /\ writer = c => Snapshot(c) = tab[c]
    BY <1>4, <1>t DEF Local, ReadStudent, Snapshot, dbVars, LockInv
  <2>2. c \in Refresh /\ writer = c => OthersKept(c)'
    BY <1>t, <2>1, RestKept DEF RestInv
  <2> QED
    BY <1>t, <1>0, <2>1, <2>2
<1>5. ASSUME NEW c \in Call, AskEngage(c) \/ WaitNext(c) PROVE RestInv'
  <2>1. /\ UNCHANGED <<row, takes, writer, tab>> /\ \A d \in Call \ {c} : at'[d] = at[d]
        /\ at'[c] \in Nat /\ at'[c] >= at[c]
    BY <1>5, <1>t DEF AskEngage, WaitNext, dbVars, Pid
  <2>2. OthersKept(c) => OthersKept(c)'
    BY <1>t, <2>1 DEF OthersKept, Pid
  <2> QED
    BY <1>t, <1>0, <2>1, <2>2 DEF RestInv
<1>6. ASSUME NEW c \in Call, Create(c) \/ Update(c) \/ DeleteRow(c) PROVE RestInv'
  <2>1. /\ UNCHANGED <<row, takes, at>> /\ writer' = c
        /\ \E x : tab' = [tab EXCEPT ![c] = x]
    BY <1>6 DEF Create, Update, DeleteRow, Write
  <2>2. ASSUME c \in Refresh PROVE OthersKept(c)'
    <3>1. base[c] # 0 /\ Snapshot(c) = tab[c]
      BY <1>6, <2>2 DEF Create, Update, DeleteRow, RefreshInv, AtChoice, Snapshot
    <3>2. OthersKept(c)
      <4>1. CASE writer = c
        BY <2>2, <4>1 DEF RestInv
      <4>2. CASE writer # c
        <5>1. tab[c] = [row |-> row, takes |-> takes]
          BY <1>6, <3>1, <4>2, <1>t DEF Create, Update, DeleteRow, CanWrite, LockInv
        <5> QED
          BY <5>1 DEF OthersKept
      <4> QED
        BY <4>1, <4>2
    <3>3. /\ \A p \in Pid : p # at[c] => tab'[c].row[p] = tab[c].row[p]
          /\ \A p \in Pid, k \in Known : p # at[c] =>
               (<<p, k>> \in tab'[c].takes <=> <<p, k>> \in tab[c].takes)
      <4>1. CASE Create(c)
        BY <1>t, <3>1, <4>1 DEF Create, Write, Tables
      <4>2. CASE Update(c)
        BY <1>t, <4>2 DEF Update, Write, Tables
      <4>3. CASE DeleteRow(c)
        BY <1>t, <4>3 DEF DeleteRow, Write, Tables
      <4> QED
        BY <1>6, <4>1, <4>2, <4>3
    <3> QED
      BY <1>t, <2>1, <3>2, <3>3 DEF OthersKept, Pid
  <2> QED
    BY <1>t, <1>0, <2>1, <2>2
<1>7. ASSUME NEW c \in Call, Cancel(c) PROVE RestInv'
  BY <1>7, RestKept DEF Cancel, dbVars, workVars, locals, RestInv
<1>8. CASE UNCHANGED vars
  BY <1>8, RestKept DEF vars, dbVars, workVars, locals, RestInv
<1> QED
  BY <1>1, <1>2, <1>3, <1>4, <1>5, <1>6, <1>7, <1>8 DEF Next, Step, Ends

\* Without the statements nothing is ever written.
LEMMA UnwrittenPreserved == TypeOK /\ PlaceInv /\ UnwrittenInv /\ [Next]_vars => UnwrittenInv'
<1> SUFFICES ASSUME TypeOK, PlaceInv, UnwrittenInv, [Next]_vars,
                    "findStudents" \notin Written, "statements" \notin Written
             PROVE  UnwrittenInv'
  BY DEF UnwrittenInv
<1> USE StudentsAssumption
<1>t. /\ pc \in [Call -> Places] /\ tab \in [Call -> Tables] /\ at \in [Call -> Pid]
      /\ ans \in [Call -> Answer] /\ had \in [Call -> {"none", "attends", "left"}]
      /\ conn \in [Call -> {"none", "keys", "plain"}] /\ NoOne \notin Call
      /\ Find \subseteq Call /\ Refresh \subseteq Call
  BY DEF TypeOK, Tables, Places, Call
<1>0. ASSUME NEW c \in Call,
             \A d \in Call \ {c} : /\ pc'[d] = pc[d] /\ tab'[d] = tab[d] /\ at'[d] = at[d]
                                   /\ had'[d] = had[d] /\ ans'[d] = ans[d] /\ conn'[d] = conn[d]
                                   /\ (writer' = d => writer = d),
             c \in Find => pc'[c] # "commit",
             c \in Refresh => /\ tab'[c] = Nothing /\ had'[c] = "none" /\ AtPause(c)'
                              /\ pc'[c] \notin {"update", "delete"} /\ writer' # c
      PROVE  UnwrittenInv'
  BY <1>t, <1>0, PauseKept DEF UnwrittenInv
<1>1. ASSUME NEW c \in Call, Ends(c) \/ Commit(c) PROVE UnwrittenInv'
  <2>1. \E r : Return(c, r)
    BY <1>1, EndsGiveBack DEF GiveBack, Commit
  <2> QED
    BY <1>t, <1>0, <2>1 DEF Return, AtPause
<1>2. ASSUME NEW c \in Call, Begin(c) PROVE UnwrittenInv'
  BY <1>t, <1>0, <1>2 DEF Begin, Connect, dbVars, workVars, locals, AtPause, UnwrittenInv
<1>3. ASSUME NEW c \in Call, Lookup(c) PROVE UnwrittenInv'
  BY <1>t, <1>0, <1>3 DEF Lookup, ReadStudent, GoTo, PlaceInv, dbVars
<1>4. ASSUME NEW c \in Call, Local(c) PROVE UnwrittenInv'
  <2>1. /\ had' = [had EXCEPT ![c] = "none"] /\ pc' = [pc EXCEPT ![c] = Choice(c, "none", ans[c])]
        /\ UNCHANGED <<tab, at, ans, conn, writer>> /\ c \in Refresh
    BY <1>4, <1>t DEF Local, ReadStudent, Found, GoTo, PlaceInv, Call, dbVars
  <2>2. tab[c] = Nothing /\ ans[c] \in Answer /\ at[c] \in Pid /\ writer # c
    BY <1>t, <2>1 DEF UnwrittenInv
  <2>3. Choice(c, "none", ans[c]) \in {"wait", "create"} /\ AtPause(c)'
    BY <1>t, <2>1, <2>2 DEF AtPause, Refreshed, Choice, Documented, Answer, Nobody, Nothing
  <2> QED
    BY <1>t, <1>0, <2>1, <2>2, <2>3
<1>5. ASSUME NEW c \in Call, AskEngage(c) \/ WaitNext(c) PROVE UnwrittenInv'
  <2>1. /\ UNCHANGED <<tab, had, conn, writer>> /\ \E a \in Answer : ans' = [ans EXCEPT ![c] = a]
        /\ \E p : at' = [at EXCEPT ![c] = p]
        /\ \E place \in {"engage", "create", "local"} : pc' = [pc EXCEPT ![c] = place]
    BY <1>5, <1>t DEF AskEngage, WaitNext, GoTo, dbVars
  <2> QED
    BY <1>t, <1>0, <2>1 DEF UnwrittenInv, AtPause
<1>6. ASSUME NEW c \in Call, Create(c) \/ Update(c) \/ DeleteRow(c) PROVE UnwrittenInv'
  <2>1. pc[c] \in {"update", "delete"} /\ c \notin Find /\ c \notin Refresh
    BY <1>6 DEF Create, CreateOK, Update, DeleteRow, PlaceInv, UnwrittenInv
  <2> QED
    BY <1>t, <1>0, <1>6, <2>1 DEF Create, CreateOK, Update, DeleteRow, Write, GoTo
<1>7. ASSUME NEW c \in Call, Cancel(c) PROVE UnwrittenInv'
  BY <1>7, PauseKept DEF Cancel, dbVars, workVars, locals, UnwrittenInv
<1>8. CASE UNCHANGED vars
  BY <1>8, PauseKept DEF vars, dbVars, workVars, locals, UnwrittenInv
<1> QED
  BY <1>1, <1>2, <1>3, <1>4, <1>5, <1>6, <1>7, <1>8 DEF Next, Step, Ends

\* The parts hold at the start and every step keeps them, together.
LEMMA Inductive == Spec => []IInv
<1>t. Init => TypeOK
  <2> SUFFICES ASSUME Init PROVE TypeOK
    OBVIOUS
  <2>1. takes \subseteq Pid \X Known
    BY DEF Init
  <2>2. Nothing \in [row : [Pid -> {"none", "attends", "left"}], takes : SUBSET (Pid \X Known)]
    BY DEF Nothing
  <2> QED
    BY <2>1, <2>2 DEF Init, TypeOK, Answer
<1>1. Init => IInv
  <2> SUFFICES ASSUME Init PROVE IInv
    OBVIOUS
  <2>1. \A c \in Call : /\ pc[c] = "idle" /\ base[c] = 0 /\ conn[c] = "none"
    BY DEF Init
  <2>2. version = 1 /\ writer = NoOne /\ idle["plain"] = 0
    BY DEF Init
  <2>3. PlaceInv /\ KeysInv
    BY <2>1, <2>2 DEF PlaceInv, KeysInv, Running, Call
  <2>4. LockInv
    BY <2>1, <2>2, StudentsAssumption DEF LockInv, Running, Call
  <2>5. ChangeInv /\ LookInv /\ RefreshInv /\ RestInv /\ UnwrittenInv
    BY <2>1, <2>2, StudentsAssumption
    DEF Init, ChangeInv, LookInv, RefreshInv, RestInv, UnwrittenInv, AtChoice, AtPause, Call
  <2> QED
    BY <1>t, <2>3, <2>4, <2>5 DEF IInv
<1>2. IInv /\ [Next]_vars => IInv'
  BY TypePreserved, PlacePreserved, KeysPreserved, LockPreserved, ChangePreserved, LookPreserved,
     RefreshPreserved, RestPreserved, UnwrittenPreserved DEF IInv
<1> QED
  BY <1>1, <1>2, PTL DEF Spec

\* Every variable stays in its range: a step of a call that reads, writes, commits or
\* gives up leaves the tables, its copy of them and the pool of connections well formed
\* (sqlite/student.go:39-225).
THEOREM TypeCorrect == Spec => []TypeOK
BY Inductive, PTL DEF IInv

\* Between two students of a refresh, in its transaction: whose turn it was is there and
\* attends as RefreshStudents documents, a new one with every subject engage listed, one
\* deleted over a connection with the pragma without any; and while the refresh holds the
\* write lock the students to come are as in the database (StudentRefreshed,
\* sqlite/student.go:114-220).  The subjects of a student that was there stay as they
\* were: no theorem has them (NewestData).
THEOREM RefreshStudentByStudent ==
  ASSUME ReadsBeforeSaves
  PROVE  Spec => []StudentRefreshed
<1>1. IInv => StudentRefreshed
  BY DEF IInv, RefreshInv, RestInv, UnwrittenInv, AtPause, StudentRefreshed, ReadsBeforeSaves
<1> QED
  BY <1>1, Inductive, PTL

\* FindStudentByPID saves a student only when nothing was committed since it looked
\* for one: the lock it takes after the answer of engage is refused to a transaction
\* that has read an older version (sqlite/student.go:48-69).
THEOREM NeverStale ==
  ASSUME ReadsBeforeSaves
  PROVE  Spec => NoStaleSave
<1> DEFINE A(c) == pc[c] = "commit" /\ row' # row /\ pc'[c] = "returned" => looked[c] = version
<1>1. IInv => \A c \in Find : pc[c] = "commit" => looked[c] = version
  BY DEF IInv, LookInv, LockInv, UnwrittenInv, ReadsBeforeSaves, Call
<1>2. IInv /\ [Next]_vars => [\A c \in Find : A(c)]_vars
  BY <1>1
<1> QED
  BY <1>2, Inductive, PTL DEF Spec, NoStaleSave

\* What the readers of the database see, whatever runs and whatever step of it fails: a
\* call saves one whole student or removes one.  It takes the subjects along, all of them
\* or none; none only if the DSN does not set the pragma foreign_keys, as it does not in
\* the repository (ImplementsStore, sqlite/student.go:226-366, sqlite/sqlite.go:50).
THEOREM StoresWhole == Spec => ImplementsStore
<1> DEFINE there == {p \in Pid : row[p] # "none"}
<1>1. Init => Store!Init
  <2> SUFFICES ASSUME Init PROVE Store!Init
    OBVIOUS
  <2>1. PICK S \in {L \in Lists : L # {} /\ L \subseteq Known} : takes = there \X S
    BY DEF Init
  <2> QED
    BY <2>1 DEF Store!Init
<1>2. ASSUME IInv, [Next]_vars PROVE Store!Next \/ UNCHANGED Store!vars
  <2>t. row \in [Pid -> {"none", "attends", "left"}] /\ at \in [Call -> Pid] /\ ans \in [Call -> Answer]
    BY <1>2 DEF IInv, TypeOK
  <2>1. CASE UNCHANGED <<row, takes>>
    BY <2>1 DEF Store!vars
  <2>2. ASSUME NEW c \in Call, Commit(c) PROVE Store!Next
    <3>1. row' = tab[c].row /\ takes' = tab[c].takes /\ (Saves(c) \/ Removes(c)) /\ at[c] \in Pid
      BY <1>2, <2>2, <2>t DEF Commit, IInv, ChangeInv, PlaceInv, Call
    <3>2. CASE Saves(c)
      <4>1. at[c] \notin there /\ there' = there \cup {at[c]}
        BY <2>t, <3>1, <3>2 DEF Saves, Column
      <4>2. \E S \in (SUBSET Known) \ {{}} : takes' = takes \cup ({at[c]} \X S)
        BY <3>1, <3>2 DEF Saves
      <4> QED
        BY <3>1, <4>1, <4>2 DEF Store!Next, Store!Save
    <3>3. CASE Removes(c)
      <4>1. at[c] \in there /\ there' = there \ {at[c]}
        BY <2>t, <3>1, <3>3 DEF Removes
      <4>2. \/ takes' = {pk \in takes : pk[1] # at[c]}
            \/ ~DsnKeys /\ UNCHANGED takes
        BY <3>1, <3>3 DEF Removes
      <4> QED
        BY <3>1, <4>1, <4>2 DEF Store!Next, Store!Remove
    <3> QED
      BY <3>1, <3>2, <3>3
  <2>3. ASSUME NEW c \in Call, Step(c), ~Commit(c) PROVE UNCHANGED <<row, takes>>
    <3>1. CASE Ends(c)
      BY <3>1, EndsGiveBack DEF GiveBack
    <3>2. CASE Begin(c) \/ Lookup(c) \/ Local(c) \/ AskEngage(c) \/ WaitNext(c)
      BY <3>2 DEF Begin, Lookup, Local, AskEngage, WaitNext, dbVars
    <3>3. CASE Create(c) \/ Update(c) \/ DeleteRow(c)
      BY <3>3 DEF Create, Update, DeleteRow, Write
    <3> QED
      BY <2>3, <3>1, <3>2, <3>3 DEF Step, Ends
  <2>4. ASSUME NEW c \in Call, Cancel(c) PROVE UNCHANGED <<row, takes>>
    BY <2>4 DEF Cancel, dbVars
  <2> QED
    BY <1>2, <2>1, <2>2, <2>3, <2>4 DEF Next, vars, dbVars
<1> QED
  BY <1>1, <1>2, Inductive, PTL DEF Spec, ImplementsStore, Store!Spec
=============================================================================
