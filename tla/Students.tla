------------------------------ MODULE Students ------------------------------
(***************************************************************************)
(* The student service of sqlite/student.go: FindStudentByPID with its     *)
(* fallback to engage, DeleteStudent and RefreshStudents, each a call in a *)
(* database transaction of its own, running concurrently.                  *)
(*                                                                         *)
(* SQLite and database/sql are external.  SQLite in WAL mode: a            *)
(* transaction reads the version it saw first; the first write takes the   *)
(* one write lock, and fails when another call keeps the lock too long or  *)
(* has committed since.  database/sql: a transaction has a connection of   *)
(* its own from a pool that keeps two idle ones.  Every statement, BeginTx *)
(* and Commit may also fail for reasons of its own.                        *)
(*                                                                         *)
(* Parts of the package are not written yet; Written says which are.       *)
(***************************************************************************)
EXTENDS Naturals, FiniteSets

CONSTANTS
  N,            \* RefreshStudents goes through the pupil ids 1..N
  Known,        \* the codes of the table subjects
  Lists,        \* the sets of codes engage may list for a student
  Find, Delete, Refresh,   \* the calls of the three methods
  Purge,        \* the refreshes with refresh.Purge set
  Fallback,     \* StudentService.fallback
  Written,      \* {} in the repository; Parts once the stubs are filled in
  DsnKeys,      \* the DSN turns foreign_keys on for every connection
  Cancellable   \* the calls whose context may be cancelled

\* findStudents reads the rows, findStudentByPIDEngage fills in the subjects, the
\* INSERT and SELECT statements have no comma before ")" and FROM.
Parts == {"findStudents", "subjects", "statements"}

Call == Find \cup Delete \cup Refresh
Pid  == 1..N
Code == (UNION Lists) \cup Known

NoOne == "no one"

ASSUME StudentsAssumption ==
  /\ N \in Nat \ {0}
  /\ Find \cap Delete = {} /\ Find \cap Refresh = {} /\ Delete \cap Refresh = {}
  /\ NoOne \notin Call
  /\ Written \subseteq Parts
  /\ Purge \subseteq Refresh /\ {Fallback, DsnKeys} \subseteq BOOLEAN
  /\ Cancellable \subseteq Call

VARIABLES
  \* the database
  row,      \* students: "none", or the column attends_school
  takes,    \* student_takes: pairs of a pupil id and a code
  version,  \* how many transactions have committed a change
  writer,   \* the call whose transaction holds the write lock
  idle,     \* the idle connections, with the pragma foreign_keys and without
  \* the calls
  pc, at,   \* where each call stands; the pupil id it is at
  ctxDone,  \* the calls whose context is cancelled
  conn,     \* the connection of its transaction
  base,     \* the version its transaction reads, 0 before its first statement
  tab,      \* the two tables as its transaction sees them
  had, ans, \* the local copy and engage's answer for the student at hand
  looked,   \* history: the version at which the student was looked up
  result    \* what the call returned

dbVars   == <<row, takes, version, writer>>
locals   == <<base, tab, had, ans, looked>>
workVars == <<at, locals>>
vars     == <<dbVars, idle, pc, ctxDone, conn, workVars, result>>

Nobody == [there |-> FALSE, attends |-> FALSE, subjects |-> {}]
Answer == {Nobody} \cup [there : {TRUE}, attends : BOOLEAN,
                         subjects : IF "subjects" \in Written THEN Lists ELSE {{}}]

Column(a) == IF a.attends THEN "attends" ELSE "left"
Codes(c, p) == {k \in Code : <<p, k>> \in tab[c].takes}

Nothing == [row |-> [p \in Pid |-> "none"], takes |-> {}]

-----------------------------------------------------------------------------
(* The pool of database/sql and the end of a transaction *)

\* BeginTx takes an idle connection, or opens one when there is none.
Connect(c) ==
  \/ \E k \in {"keys", "plain"} :
       /\ idle[k] > 0
       /\ idle' = [idle EXCEPT ![k] = @ - 1]
       /\ conn' = [conn EXCEPT ![c] = k]
  \/ /\ idle["keys"] + idle["plain"] = 0
     /\ UNCHANGED idle
     /\ conn' = [conn EXCEPT ![c] = IF DsnKeys THEN "keys" ELSE "plain"]

\* The call returns r and forgets its variables.  What it has not committed is
\* rolled back (the deferred tx.Rollback), the lock is free, and the pool keeps at
\* most two connections.
Return(c, r) ==
  /\ pc' = [pc EXCEPT ![c] = "returned"]
  /\ result' = [result EXCEPT ![c] = r]
  /\ writer' = IF writer = c THEN NoOne ELSE writer
  /\ conn' = [conn EXCEPT ![c] = "none"]
  /\ idle' = IF conn[c] = "none" \/ idle["keys"] + idle["plain"] >= 2 THEN idle
             ELSE [idle EXCEPT ![conn[c]] = @ + 1]
  /\ base' = [base EXCEPT ![c] = 0]
  /\ tab' = [tab EXCEPT ![c] = Nothing]
  /\ had' = [had EXCEPT ![c] = "none"]
  /\ ans' = [ans EXCEPT ![c] = Nobody]
  /\ looked' = [looked EXCEPT ![c] = 0]
  /\ UNCHANGED <<ctxDone, at>>

\* A return without a change to the database.
GiveBack(c, r) == Return(c, r) /\ UNCHANGED <<row, takes, version>>

GoTo(c, place) == pc' = [pc EXCEPT ![c] = place] /\ UNCHANGED <<ctxDone, conn, idle, result>>

\* The first statement fixes the version the transaction reads.
Snapshot(c) == IF base[c] = 0 THEN [row |-> row, takes |-> takes] ELSE tab[c]
See(c) == base' = [base EXCEPT ![c] = IF @ = 0 THEN version ELSE @]

\* A write needs the lock, and a version that is still the newest.
CanWrite(c) == c \notin ctxDone /\ (writer = c \/ (writer = NoOne /\ base[c] \in {0, version}))

Write(c, r, t) ==
  /\ See(c)
  /\ writer' = c
  /\ tab' = [tab EXCEPT ![c] = [row |-> r, takes |-> t]]
  /\ UNCHANGED <<row, takes, version, at, had, ans, looked>>

\* The environment cancels the context of a call.
Cancel(c) ==
  /\ c \in Cancellable \ ctxDone
  /\ pc[c] # "returned"
  /\ ctxDone' = ctxDone \cup {c}
  /\ UNCHANGED <<dbVars, idle, pc, conn, workVars, result>>

-----------------------------------------------------------------------------
(* The steps the methods are made of *)

Begin(c) ==
  /\ pc[c] = "idle"
  /\ c \notin ctxDone
  /\ Connect(c)
  /\ pc' = [pc EXCEPT ![c] = IF c \in Refresh THEN "engage" ELSE "lookup"]
  /\ UNCHANGED <<dbVars, ctxDone, workVars, result>>

\* BeginTx fails, for a context that is done or a connection it cannot have:
\* DeleteStudent returns nil, the others the error.
BeginFails(c) ==
  /\ pc[c] = "idle"
  /\ GiveBack(c, IF c \in Delete THEN "nil" ELSE "error")

\* findStudentByPID, in the call's own transaction.
Found(c) == IF "findStudents" \in Written THEN Snapshot(c).row[at[c]] ELSE "none"

ReadStudent(c) ==
  /\ had' = [had EXCEPT ![c] = Found(c)]
  /\ looked' = [looked EXCEPT ![c] = version]
  /\ IF "findStudents" \in Written
     THEN See(c) /\ tab' = [tab EXCEPT ![c] = Snapshot(c)]
     ELSE UNCHANGED <<base, tab>>

\* Mutant of Lookup: DeleteStudent does not look, its statement deletes no row without
\* an error.
LookupBlind(c) ==
  /\ pc[c] = "lookup"
  /\ c \notin ctxDone
  /\ c \in Find => Found(c) = "none"
  /\ ReadStudent(c)
  /\ GoTo(c, IF c \in Find THEN "engage" ELSE "delete")
  /\ UNCHANGED <<dbVars, at, ans>>

\* A student that is not there sends FindStudentByPID to engage, one that is there
\* sends DeleteStudent to its statement.
Lookup(c) ==
  /\ pc[c] = "lookup"
  /\ c \notin ctxDone
  /\ Found(c) = "none" <=> c \in Find
  /\ ReadStudent(c)
  /\ GoTo(c, IF c \in Find THEN "engage" ELSE "delete")
  /\ UNCHANGED <<dbVars, at, ans>>

LookupEnds(c) ==
  /\ pc[c] = "lookup"
  /\ c \notin ctxDone
  /\ Found(c) = "none" <=> c \in Delete
  /\ GiveBack(c, IF c \in Find THEN "student" ELSE "notFound")

\* findStudentByPIDEngage.  ENOTFOUND is no error to a refresh.
AskEngage(c) ==
  /\ pc[c] = "engage"
  /\ c \notin ctxDone
  /\ \E a \in Answer :
       /\ c \in Find => a.there /\ Fallback
       /\ ans' = [ans EXCEPT ![c] = a]
  /\ GoTo(c, IF c \in Find THEN "create" ELSE "local")
  /\ UNCHANGED <<dbVars, at, base, tab, had, looked>>

AskEngageEnds(c) ==
  /\ pc[c] = "engage"
  /\ c \in Find \ ctxDone
  /\ \E a \in Answer :
       /\ ~(a.there /\ Fallback)
       /\ GiveBack(c, IF a.there THEN "student" ELSE "notFound")

\* A body that is null, or a render without a length, makes the engage client panic;
\* the deferred Rollback runs all the same.
AskEngagePanics(c) ==
  /\ pc[c] = "engage"
  /\ c \notin ctxDone
  /\ GiveBack(c, "panic")

\* A look-up or a request to engage that fails ends every call with its error.
StepFails(c) ==
  /\ pc[c] \in {"lookup", "engage", "local"}
  /\ GiveBack(c, "error")

\* Mutants of Choice: every refresh purges; the break for students who have left is
\* missing.
ChoicePurges(c, local, a) ==
  CASE ~a.there              -> "wait"
    [] a.there /\ ~a.attends -> IF local = "none" THEN "wait" ELSE "delete"
    [] a.there /\ a.attends  -> IF local = "none" THEN "create" ELSE "update"
ChoiceKeepsLeft(c, local, a) ==
  CASE ~a.there                        -> "wait"
    [] a.there /\ local = "none"       -> "create"
    [] OTHER                           -> "update"

\* The switch of RefreshStudents over the two copies.
Choice(c, local, a) ==
  CASE ~a.there                                     -> "wait"
    [] a.there /\ ~a.attends /\ c \in Purge         -> IF local = "none" THEN "wait" ELSE "delete"
    [] a.there /\ (a.attends \/ c \notin Purge)     -> IF local = "none" THEN "create" ELSE "update"

Local(c) ==
  /\ pc[c] = "local"
  /\ c \notin ctxDone
  /\ ReadStudent(c)
  /\ GoTo(c, Choice(c, had'[c], ans[c]))
  /\ UNCHANGED <<dbVars, at, ans>>

\* Student.Validate; what engage gives has a pupil id and a name.
Valid(a) == a.subjects # {}

\* attachSubjectCodeToStudent fails for a code the table subjects does not have,
\* and for a subject the student takes already.
CanAttach(t, p, S) == S \subseteq Known /\ \A k \in S : <<p, k>> \notin t.takes

\* createStudent: the INSERT of the student fails for a row that is there.
CreateOK(c) ==
  LET t == Snapshot(c) IN
  /\ Valid(ans[c])
  /\ "statements" \in Written
  /\ t.row[at[c]] = "none"
  /\ CanAttach(t, at[c], ans[c].subjects)

\* Mutant of Create: the student is saved in a transaction begun after the answer.
CreateFresh(c) ==
  /\ pc[c] = "create"
  /\ c \notin ctxDone /\ writer \in {c, NoOne}
  /\ CreateOK(c)
  /\ base' = [base EXCEPT ![c] = version]
  /\ writer' = c
  /\ tab' = [tab EXCEPT ![c] = [row |-> [row EXCEPT ![at[c]] = Column(ans[c])],
                                takes |-> takes \cup ({at[c]} \X ans[c].subjects)]]
  /\ GoTo(c, IF c \in Find THEN "commit" ELSE "wait")
  /\ UNCHANGED <<row, takes, version, at, had, ans, looked>>

Create(c) ==
  /\ pc[c] = "create"
  /\ CanWrite(c) /\ CreateOK(c)
  /\ Write(c, [Snapshot(c).row EXCEPT ![at[c]] = Column(ans[c])],
              Snapshot(c).takes \cup ({at[c]} \X ans[c].subjects))
  /\ GoTo(c, IF c \in Find THEN "commit" ELSE "wait")

\* Mutant of CreateFails: what a failed createStudent has written is committed.
CreateFailsKept(c) ==
  /\ pc[c] = "create"
  /\ CanWrite(c) /\ ~CreateOK(c)
  /\ row' = [Snapshot(c).row EXCEPT ![at[c]] = Column(ans[c])]
  /\ version' = version + 1
  /\ Return(c, "student")
  /\ UNCHANGED takes

\* FindStudentByPID returns the student all the same, and no error.
CreateFails(c) ==
  /\ pc[c] = "create"
  /\ GiveBack(c, IF c \in Find THEN "student" ELSE "error")

\* updateStudent: only a different number of subjects is noticed, and the slice of
\* new ones starts with as many empty codes as the numbers differ by, which no
\* subject has; a smaller number is a negative length, a panic.
UpdateOK(c) ==
  /\ Valid(ans[c])
  /\ Cardinality(ans[c].subjects) = Cardinality(Codes(c, at[c]))

UpdatePanics(c) ==
  /\ pc[c] = "update"
  /\ Valid(ans[c])
  /\ Cardinality(ans[c].subjects) < Cardinality(Codes(c, at[c]))
  /\ GiveBack(c, "panic")

Update(c) ==
  /\ pc[c] = "update"
  /\ CanWrite(c) /\ UpdateOK(c)
  /\ Write(c, [tab[c].row EXCEPT ![at[c]] = Column(ans[c])], tab[c].takes)
  /\ GoTo(c, "wait")

UpdateFails(c) ==
  /\ pc[c] = "update"
  /\ ~Valid(ans[c]) \/ Cardinality(ans[c].subjects) >= Cardinality(Codes(c, at[c]))
  /\ GiveBack(c, "error")

\* DELETE cascades to student_takes where the connection has foreign_keys on.
DeleteRow(c) ==
  /\ pc[c] = "delete"
  /\ CanWrite(c)
  /\ Write(c, [tab[c].row EXCEPT ![at[c]] = "none"],
              IF conn[c] = "keys" THEN {pk \in tab[c].takes : pk[1] # at[c]} ELSE tab[c].takes)
  /\ GoTo(c, IF c \in Delete THEN "commit" ELSE "wait")

\* Mutant of DeleteFails: a row that could not be deleted is not found.
DeleteFailsAsMissing(c) ==
  /\ pc[c] = "delete"
  /\ GiveBack(c, "notFound")

DeleteFails(c) ==
  /\ pc[c] = "delete"
  /\ GiveBack(c, "error")

Commit(c) ==
  /\ pc[c] = "commit"
  /\ c \notin ctxDone
  /\ row' = tab[c].row
  /\ takes' = tab[c].takes
  /\ version' = version + 1
  /\ Return(c, IF c \in Find THEN "student" ELSE "nil")

CommitFails(c) ==
  /\ pc[c] = "commit"
  /\ GiveBack(c, "error")

\* Mutants of WaitNext: one pupil id too many; PIDCount is not advanced.
WaitNextPast(c) ==
  /\ pc[c] = "wait"
  /\ at[c] <= N
  /\ at' = [at EXCEPT ![c] = @ + 1]
  /\ GoTo(c, "engage")
  /\ UNCHANGED <<dbVars, base, tab, had, ans, looked>>
WaitNextStays(c) ==
  /\ pc[c] = "wait"
  /\ at[c] < N
  /\ GoTo(c, "engage")
  /\ UNCHANGED <<dbVars, workVars>>

\* PIDCount++ and the pause before the next student; a timer that has fired may be
\* chosen although the context is done.
WaitNext(c) ==
  /\ pc[c] = "wait"
  /\ at[c] < N
  /\ at' = [at EXCEPT ![c] = @ + 1]
  /\ GoTo(c, "engage")
  /\ UNCHANGED <<dbVars, base, tab, had, ans, looked>>

\* After the last student RefreshStudents returns nil; it has no Commit.
WaitEnds(c) ==
  /\ pc[c] = "wait"
  /\ \/ c \in ctxDone /\ GiveBack(c, "error")
     \/ at[c] = N /\ GiveBack(c, "nil")

-----------------------------------------------------------------------------
Init ==
  /\ row \in [Pid -> {"none", "attends"}]
  /\ \E S \in {L \in Lists : L # {} /\ L \subseteq Known} :
       takes = {p \in Pid : row[p] # "none"} \X S
  /\ version = 1
  /\ writer = NoOne
  /\ idle = [keys |-> 1, plain |-> 0]
  /\ pc = [c \in Call |-> "idle"]
  /\ at \in [Call -> Pid] /\ \A c \in Refresh : at[c] = 1
  /\ ctxDone = {}
  /\ conn = [c \in Call |-> "none"]
  /\ base = [c \in Call |-> 0]
  /\ tab = [c \in Call |-> Nothing]
  /\ had = [c \in Call |-> "none"]
  /\ ans = [c \in Call |-> Nobody]
  /\ looked = [c \in Call |-> 0]
  /\ result = [c \in Call |-> "none"]

Step(c) ==
  \/ Begin(c) \/ BeginFails(c) \/ Lookup(c) \/ LookupEnds(c) \/ Local(c)
  \/ AskEngage(c) \/ AskEngageEnds(c) \/ AskEngagePanics(c) \/ StepFails(c)
  \/ Create(c) \/ CreateFails(c) \/ Update(c) \/ UpdateFails(c) \/ UpdatePanics(c)
  \/ DeleteRow(c) \/ DeleteFails(c) \/ Commit(c) \/ CommitFails(c)
  \/ WaitNext(c) \/ WaitEnds(c)

Next == \E c \in Call : Step(c) \/ Cancel(c)

Spec == Init /\ [][Next]_vars

\* Engage answers, SQLite gives up waiting for the lock, timers fire.
FairSpec == Spec /\ \A c \in Call : WF_vars(Step(c) /\ pc[c] # "idle")

-----------------------------------------------------------------------------
\* Every variable ranges over what the schema and the calls allow.
TypeOK ==
  /\ row \in [Pid -> {"none", "attends", "left"}]
  /\ takes \subseteq Pid \X Known
  /\ version \in Nat /\ writer \in Call \cup {NoOne}
  /\ idle \in [{"keys", "plain"} -> 0..2] /\ idle["keys"] + idle["plain"] <= 2
  /\ pc \in [Call -> {"idle", "lookup", "engage", "local", "create", "update", "delete",
                      "commit", "wait", "returned"}]
  /\ at \in [Call -> Pid] /\ ctxDone \subseteq Call
  /\ conn \in [Call -> {"none", "keys", "plain"}]
  /\ base \in [Call -> Nat] /\ looked \in [Call -> Nat]
  /\ tab \in [Call -> [row : [Pid -> {"none", "attends", "left"}], takes : SUBSET (Pid \X Known)]]
  /\ had \in [Call -> {"none", "attends", "left"}]
  /\ ans \in [Call -> Answer]
  /\ result \in [Call -> {"none", "nil", "student", "notFound", "error", "panic"}]

\* Whatever runs, the tables change by one whole student more or one less: a
\* createStudent that fails half-way leaves nothing, and a commit undoes nothing that
\* others have committed (sqlite/student.go:41-112, 273-309, 359-366).  Whether a
\* delete takes the subjects along is a matter of the pragma.
Store == INSTANCE StudentStore WITH stored <- {p \in Pid : row[p] # "none"}, Cascades <- DsnKeys
ImplementsStore == Store!Spec

\* FindStudentByPID asks engage between its look-up and its INSERT: it saves a
\* student only if nothing was committed since it found that there is none
\* (sqlite/student.go:48-69).
NoStaleSave ==
  [][ \A c \in Find : pc[c] = "commit" /\ row' # row /\ pc'[c] = "returned" => looked[c] = version ]_vars

\* The attendance of a student that RefreshStudents documents (sqlite/student.go:114-125).
Documented(c, local, a) ==
  CASE ~a.there              -> local
    [] a.there /\ a.attends  -> "attends"
    [] a.there /\ ~a.attends -> IF c \in Purge THEN "none" ELSE "left"

\* What a refresh has made of the student whose turn it was, in its transaction: there
\* and attending as documented; if it is new, with every subject of engage's; if it was
\* deleted on a connection with the pragma, without one.
Refreshed(c) ==
  LET now == tab[c].row[at[c]] IN
    /\ now = Documented(c, had[c], ans[c])
    /\ had[c] = "none" /\ now # "none" => ans[c].subjects \subseteq Codes(c, at[c])
    /\ had[c] # "none" /\ now = "none" /\ conn[c] = "keys" => Codes(c, at[c]) = {}

\* Whose turn has not come is, for the holder of the write lock, as in the database.
OthersKept(c) ==
  \A p \in Pid : p > at[c] =>
    /\ tab[c].row[p] = row[p]
    /\ \A k \in Known : <<p, k>> \in tab[c].takes <=> <<p, k>> \in takes

\* Between two students of a refresh, whatever the others commit meanwhile.  The
\* subjects of a student that was there before are not promised: see NewestData.
StudentRefreshed ==
  \A c \in Refresh : pc[c] = "wait" => Refreshed(c) /\ (writer = c => OthersKept(c))

\* Every call that has begun returns.
CallsReturn == \A c \in Call : pc[c] # "idle" ~> pc[c] = "returned"

-----------------------------------------------------------------------------
\* "FOREIGN KEY (student_id) REFERENCES students (pid) ON DELETE CASCADE"
\* (db/migrations/000002_create_subjects_table.up.sql:17-19).
NoOrphanedTakes == \A pk \in takes : row[pk[1]] # "none"

\* "If the user is found in engage and not in the db and saveNew is true the user
\* is saved before returned" (sqlite/student.go:39-40).
SavedBeforeReturned ==
  [][ \A c \in Find : pc[c] = "create" /\ pc'[c] = "returned" => result'[c] # "student" ]_vars

\* "If the student is both in engage and local storage, an update will be so that your
\* local storage has the newest data" (sqlite/student.go:124-125).
NewestData ==
  \A c \in Refresh :
    pc[c] = "wait" /\ had[c] # "none" /\ ans[c].there /\ tab[c].row[at[c]] # "none" =>
      Codes(c, at[c]) = ans[c].subjects

\* "If a student is in engage but not in the local copy of students then the
\* student is added to the local copy" (sqlite/student.go:117-118).
RefreshTakesEffect ==
  [][ \A c \in Refresh : pc[c] = "wait" /\ result'[c] = "nil" => row' = tab[c].row ]_vars

\* "returns any error in the exchange" (student.go:60): an update does not panic.
RefreshReturns ==
  [][ \A c \in Refresh : pc[c] = "update" => result'[c] # "panic" ]_vars
=============================================================================
