-------------------------------- MODULE Marks --------------------------------
(***************************************************************************)
(* The mark service of sqlite/mark.go for one pupil: FindMarksByPeriod     *)
(* with its fallback to engage, DeleteMark and RefreshMarks, each a call   *)
(* in a database transaction of its own, while the student service may     *)
(* delete the pupil.                                                       *)
(*                                                                         *)
(* SQLite, engage and the period service, which has no implementation yet, *)
(* are external.  The database behaves as in Students.  A nil pointer is   *)
(* the empty set, any other pointer the set of what it points to.          *)
(***************************************************************************)
EXTENDS Naturals, SequencesExt

CONSTANTS
  Subjects,   \* the names in the table subjects
  Sheets,     \* the marks engage may list for a period: a subject, and if the row is valid
  Ranges,     \* the periods PeriodRange may build
  Asked,      \* the periods FindMarksByPeriod is asked for
  Ids,        \* the ids DeleteMark is asked for
  Find, Delete, Refresh,   \* the calls of the three methods
  Fallback,   \* MarkService.fallback
  Written,    \* {} in the repository; Parts once what is missing is filled in
  Cancellable \* the calls whose context may be cancelled

\* findMarks and findStudents have bodies, GetMarkFromRender reads a mark, the marks
\* it reads get a student and a period, the statements have no comma before ")" and FROM.
Parts == {"findMarks", "sheet", "owner", "statements"}

Call == Find \cup Delete \cup Refresh

Periods == UNION {ToSet(r) : r \in Ranges}

NoOne == "no one"

-----------------------------------------------------------------------------
(* period.go *)

Valid(p) ==
  /\ p.academicYear >= 2020
  /\ p.importance # {} => p.term # {}
  /\ p.term \subseteq 1..4

Full(p) == Valid(p) /\ p.term # {} /\ p.importance # {}

ASSUME MarksAssumption ==
  /\ Find \cap Delete = {} /\ Find \cap Refresh = {} /\ Delete \cap Refresh = {}
  /\ NoOne \notin Call
  /\ Sheets \subseteq Seq([subject : STRING, valid : BOOLEAN]) \ {<<>>}
  /\ \A r \in Ranges : r \in Seq({p \in ToSet(r) : Full(p)})
  /\ Ids \subseteq Nat \ {0}
  /\ Fallback \in BOOLEAN /\ Written \subseteq Parts /\ Cancellable \subseteq Call

VARIABLES
  \* the database
  student,  \* the pupil has a row
  marks,    \* the pupil's rows of the table marks
  version,  \* how many transactions have committed a change
  writer,   \* the call whose transaction holds the write lock
  \* the calls
  asked, target,   \* the period of a Find, the id of a Delete
  pc,       \* where each call stands
  ctxDone,  \* the calls whose context is cancelled
  base,     \* the version its transaction reads, 0 before its first statement
  tab,      \* the pupil and the marks as its transaction sees them
  todo,     \* the periods a refresh still has to go through
  had, ans, \* the local marks and engage's for the period at hand
  result    \* what the call returned

dbVars == <<student, marks, version, writer>>
locals == <<base, tab, todo, had, ans>>
args   == <<asked, target>>
vars   == <<dbVars, args, pc, ctxDone, locals, result>>

Nothing == [student |-> FALSE, marks |-> {}]

SubjectsOf(S) == {m.subject : m \in S}
InPeriod(S, p) == {m \in S : m.period = p}

-----------------------------------------------------------------------------
(* Transactions *)

\* What has not been committed is rolled back (the deferred tx.Rollback).
Return(c, r) ==
  /\ pc' = [pc EXCEPT ![c] = "returned"]
  /\ result' = [result EXCEPT ![c] = r]
  /\ writer' = IF writer = c THEN NoOne ELSE writer
  /\ base' = [base EXCEPT ![c] = 0]
  /\ tab' = [tab EXCEPT ![c] = Nothing]
  /\ todo' = [todo EXCEPT ![c] = <<>>]
  /\ had' = [had EXCEPT ![c] = {}]
  /\ ans' = [ans EXCEPT ![c] = <<>>]
  /\ UNCHANGED <<args, ctxDone>>

GiveBack(c, r) == Return(c, r) /\ UNCHANGED <<student, marks, version>>

GoTo(c, place) == pc' = [pc EXCEPT ![c] = place] /\ UNCHANGED <<args, ctxDone, result>>

Snapshot(c) == IF base[c] = 0 THEN [student |-> student, marks |-> marks] ELSE tab[c]
See(c) ==
  /\ base' = [base EXCEPT ![c] = IF @ = 0 THEN version ELSE @]
  /\ tab' = [tab EXCEPT ![c] = Snapshot(c)]

CanWrite(c) == c \notin ctxDone /\ (writer = c \/ (writer = NoOne /\ base[c] = version))

Write(c, rows) ==
  /\ writer' = c
  /\ tab' = [tab EXCEPT ![c].marks = rows]
  /\ UNCHANGED <<student, marks, version, base>>

Begin(c) ==
  /\ pc[c] = "idle"
  /\ c \notin ctxDone
  /\ GoTo(c, CASE c \in Find -> "period" [] c \in Delete -> "lookup" [] c \in Refresh -> "pupil")
  /\ UNCHANGED <<dbVars, locals>>

\* Whatever a call does next may fail, and does if its context is done: BeginTx, a
\* statement, which may not get the lock, a request, Commit; the pause of a refresh only
\* for its context.  A Find looks at its period, and returns engage's marks, all the same.
Fails(c) ==
  /\ pc[c] \notin {"returned", "answer"}
  /\ pc[c] = "wait" => c \in ctxDone
  /\ pc[c] = "period" => Valid(asked[c]) /\ asked[c].term # {}
  /\ GiveBack(c, "error")

\* The environment cancels the context of a call; the student service deletes the pupil,
\* and the marks with it.
Cancel(c) ==
  /\ c \in Cancellable \ ctxDone
  /\ pc[c] # "returned"
  /\ ctxDone' = ctxDone \cup {c}
  /\ UNCHANGED <<dbVars, args, pc, locals, result>>

DeleteStudent ==
  /\ student /\ writer = NoOne
  /\ student' = FALSE /\ marks' = {}
  /\ version' = version + 1
  /\ UNCHANGED <<writer, args, pc, ctxDone, locals, result>>

-----------------------------------------------------------------------------
(* FindMarksByPeriod *)

\* findMarks, and what attachMarksSubjectsWithStudent needs: the pupil.
Stored(c)     == IF "findMarks" \in Written THEN Snapshot(c).marks ELSE {}
FindsPupil(c) == "findMarks" \in Written /\ Snapshot(c).student

\* Mutant of HasPupil: without marks the pupil is not looked for.
HasPupilOrNoMarks(c) == Stored(c) = {} \/ FindsPupil(c)

HasPupil(c) == FindsPupil(c)

PeriodInvalid(c) ==
  /\ pc[c] = "period"
  /\ ~Valid(asked[c])
  /\ GiveBack(c, "invalid")

\* *period.Term of a period that is a year only.
YearOnly(c) ==
  /\ pc[c] = "period"
  /\ Valid(asked[c]) /\ asked[c].term = {}
  /\ GiveBack(c, "panic")

\* Local marks only: the fallback is off, or the period is a year and a term.  Its
\* Commit has nothing to commit.
FindLocal(c) ==
  /\ pc[c] = "period"
  /\ c \notin ctxDone
  /\ Valid(asked[c]) /\ asked[c].term # {}
  /\ ~(Full(asked[c]) /\ Fallback)
  /\ GiveBack(c, IF HasPupil(c) THEN "marks" ELSE "notFound")

FindBoth(c) ==
  /\ pc[c] = "period"
  /\ c \notin ctxDone
  /\ Full(asked[c]) /\ Fallback
  /\ had' = [had EXCEPT ![c] = InPeriod(Stored(c), asked[c])]
  /\ See(c)
  /\ GoTo(c, "engage")
  /\ UNCHANGED <<dbVars, todo, ans>>

\* It returns engage's marks before it gets to its Commit.
FindAnswers(c) ==
  /\ pc[c] = "answer"
  /\ GiveBack(c, "marks")

-----------------------------------------------------------------------------
(* DeleteMark *)

\* Mutant of LookMark: the statement is enough, it deletes no row and gives no error.
LookMarkSkipped(c) ==
  /\ pc[c] = "lookup"
  /\ c \notin ctxDone
  /\ See(c)
  /\ GoTo(c, "delete")
  /\ UNCHANGED <<dbVars, todo, had, ans>>

LookMark(c) ==
  /\ pc[c] = "lookup"
  /\ c \notin ctxDone
  /\ \E m \in Stored(c) : m.id = target[c]
  /\ See(c)
  /\ GoTo(c, "delete")
  /\ UNCHANGED <<dbVars, todo, had, ans>>

NoMark(c) ==
  /\ pc[c] = "lookup"
  /\ c \notin ctxDone
  /\ \A m \in Stored(c) : m.id # target[c]
  /\ GiveBack(c, "notFound")

DeleteRow(c) ==
  /\ pc[c] = "delete"
  /\ CanWrite(c)
  /\ Write(c, {m \in tab[c].marks : m.id # target[c]})
  /\ GoTo(c, "commit")
  /\ UNCHANGED <<todo, had, ans>>

Commit(c) ==
  /\ pc[c] = "commit"
  /\ c \notin ctxDone
  /\ marks' = tab[c].marks
  /\ version' = version + 1
  /\ Return(c, "nil")
  /\ UNCHANGED student

-----------------------------------------------------------------------------
(* RefreshMarks *)

Pupil(c) ==
  /\ pc[c] = "pupil"
  /\ c \notin ctxDone
  /\ HasPupil(c)
  /\ \E r \in Ranges \ {<<>>} : todo' = [todo EXCEPT ![c] = r]
  /\ See(c)
  /\ GoTo(c, "local")
  /\ UNCHANGED <<dbVars, had, ans>>

\* No pupil, or no periods.
PupilEnds(c) ==
  /\ pc[c] = "pupil"
  /\ c \notin ctxDone
  /\ \/ ~HasPupil(c) /\ GiveBack(c, "notFound")
     \/ HasPupil(c) /\ <<>> \in Ranges /\ GiveBack(c, "nil")

Local(c) ==
  /\ pc[c] = "local"
  /\ c \notin ctxDone
  /\ had' = [had EXCEPT ![c] = InPeriod(Stored(c), Head(todo[c]))]
  /\ GoTo(c, "engage")
  /\ UNCHANGED <<dbVars, base, tab, todo, ans>>

\* Mutant of Wait: the period stays at the head of the list.
WaitStays(c) ==
  /\ pc[c] = "wait"
  /\ GoTo(c, "local")
  /\ UNCHANGED <<dbVars, locals>>

\* periods = periods[1:], after the pause; a timer that has fired may be chosen although
\* the context is done.
Wait(c) ==
  /\ pc[c] = "wait"
  /\ Len(todo[c]) > 1
  /\ todo' = [todo EXCEPT ![c] = Tail(@)]
  /\ GoTo(c, "local")
  /\ UNCHANGED <<dbVars, base, tab, had, ans>>

\* After the last period RefreshMarks returns nil; it has no Commit.
WaitEnds(c) ==
  /\ pc[c] = "wait"
  /\ Len(todo[c]) = 1
  /\ GiveBack(c, "nil")

-----------------------------------------------------------------------------
(* findMarksByFullPeriodEngage and createDiff, of a Find and of a Refresh *)

Period(c) == IF c \in Find THEN asked[c] ELSE Head(todo[c])

AskEngage(c) ==
  /\ pc[c] = "engage"
  /\ c \notin ctxDone
  /\ "sheet" \in Written
  /\ \E s \in Sheets : ans' = [ans EXCEPT ![c] = s]
  /\ GoTo(c, "diff")
  /\ UNCHANGED <<dbVars, base, tab, todo, had>>

\* A sheet without a mark is not found, and a render without a length makes the engage
\* client panic.
AskEngageFails(c) ==
  /\ pc[c] = "engage"
  /\ c \notin ctxDone
  /\ \E r \in {"notFound", "panic"} : GiveBack(c, r)

\* Mutant of CanAttach: a subject that is not found is no error.
CanAttachAny(c) == HasPupil(c)

\* attachMarksSubjectsWithStudent: the pupil, and every subject by its name.
CanAttach(c) == HasPupil(c) /\ \A i \in DOMAIN ans[c] : ans[c][i].subject \in Subjects

\* Mutant of New: what is stored is not taken into account.
NewAll(c) == DOMAIN ans[c]

\* Where engage's marks are that have no stored one of their subject.
New(c) == {i \in DOMAIN ans[c] : ans[c][i].subject \notin SubjectsOf(had[c])}

\* createMark: Mark.Validate, the statement, and the CHECK on the percentage.
CanCreate(c) == {"owner", "statements"} \subseteq Written /\ \A i \in New(c) : ans[c][i].valid

LastId(rows) == Max({0} \cup {m.id : m \in rows})

\* They are saved in the order of the sheet.
Created(c) ==
  {[id      |-> LastId(tab[c].marks) + Cardinality({j \in New(c) : j <= i}),
    period  |-> Period(c),
    subject |-> ans[c][i].subject] : i \in New(c)}

AfterDiff(c) == GoTo(c, IF c \in Find THEN "answer" ELSE "wait") /\ UNCHANGED <<todo, had, ans>>

Diff(c) ==
  /\ pc[c] = "diff"
  /\ CanAttach(c) /\ CanCreate(c) /\ CanWrite(c)
  /\ New(c) # {}
  /\ Write(c, tab[c].marks \cup Created(c))
  /\ AfterDiff(c)

NoDiff(c) ==
  /\ pc[c] = "diff"
  /\ c \notin ctxDone
  /\ CanAttach(c)
  /\ New(c) = {}
  /\ AfterDiff(c)
  /\ UNCHANGED <<dbVars, base, tab>>

DiffFails(c) ==
  /\ pc[c] = "diff"
  /\ c \notin ctxDone
  /\ \/ ~CanAttach(c) /\ GiveBack(c, "notFound")
     \/ CanAttach(c) /\ New(c) # {} /\ ~CanCreate(c) /\ GiveBack(c, "invalid")

-----------------------------------------------------------------------------
\* The rows of the database: valid, one of a subject in a period.
Init ==
  /\ student \in BOOLEAN
  /\ marks \in SUBSET [id : Ids, period : Periods, subject : Subjects] /\ IsFiniteSet(marks)
  /\ student \/ marks = {}
  /\ \A m, n \in marks : m = n \/ (m.id # n.id /\ (m.period # n.period \/ m.subject # n.subject))
  /\ version = 1
  /\ writer = NoOne
  /\ asked \in [Find -> Asked] /\ target \in [Delete -> Ids]
  /\ pc = [c \in Call |-> "idle"]
  /\ ctxDone = {}
  /\ base = [c \in Call |-> 0]
  /\ tab = [c \in Call |-> Nothing]
  /\ todo = [c \in Call |-> <<>>]
  /\ had = [c \in Call |-> {}]
  /\ ans = [c \in Call |-> <<>>]
  /\ result = [c \in Call |-> "none"]

Step(c) ==
  \/ Begin(c) \/ Fails(c)
  \/ PeriodInvalid(c) \/ YearOnly(c) \/ FindLocal(c) \/ FindBoth(c) \/ FindAnswers(c)
  \/ LookMark(c) \/ NoMark(c) \/ DeleteRow(c) \/ Commit(c)
  \/ Pupil(c) \/ PupilEnds(c) \/ Local(c) \/ Wait(c) \/ WaitEnds(c)
  \/ AskEngage(c) \/ AskEngageFails(c) \/ Diff(c) \/ NoDiff(c) \/ DiffFails(c)

Next == DeleteStudent \/ \E c \in Call : Step(c) \/ Cancel(c)

Spec == Init /\ [][Next]_vars

\* engage answers, SQLite gives up waiting for the lock, timers fire.
FairSpec == Spec /\ \A c \in Call : WF_vars(Step(c) /\ pc[c] # "idle")

-----------------------------------------------------------------------------
Row == [id : Nat, period : Asked \cup Periods, subject : Subjects]

\* Every variable ranges over what the schema and the calls allow.
TypeOK ==
  /\ student \in BOOLEAN /\ marks \subseteq Row
  /\ version \in Nat /\ writer \in Call \cup {NoOne}
  /\ asked \in [Find -> Asked] /\ target \in [Delete -> Ids]
  /\ pc \in [Call -> {"idle", "period", "lookup", "delete", "commit", "pupil", "local", "engage",
                      "diff", "wait", "answer", "returned"}]
  /\ ctxDone \subseteq Call /\ base \in [Call -> Nat]
  /\ tab \in [Call -> [student : BOOLEAN, marks : SUBSET Row]]
  /\ todo \in [Call -> Seq(Periods)] /\ had \in [Call -> SUBSET Row]
  /\ ans \in [Call -> Sheets \cup {<<>>}]
  /\ result \in [Call -> {"none", "nil", "marks", "notFound", "invalid", "error", "panic"}]

\* "It only checks for new marks": once a refresh is done with a period, its transaction
\* has every mark the period had, and one more for each row of the sheet whose subject had
\* none; and whoever commits meanwhile, no mark of any period is missing from what it
\* would commit (sqlite/mark.go:198-248, 385-404).  Of a subject that the sheet lists
\* twice there are two: see OneMarkASubject.
MarkForEachNewRow ==
  \A c \in Refresh : pc[c] = "wait" =>
    LET rows == {i \in DOMAIN ans[c] : ans[c][i].subject \notin SubjectsOf(had[c])}
        kept == InPeriod(tab[c].marks, Head(todo[c]))
    IN  /\ had[c] \subseteq kept
        /\ Cardinality(kept \ had[c]) = Cardinality(rows)
        /\ SubjectsOf(kept \ had[c]) = {ans[c][i].subject : i \in rows}
        /\ writer = c => marks \subseteq tab[c].marks

\* A DeleteMark that returns nil has taken a row away itself: the one that was there when
\* it committed, whoever else deleted marks or the pupil since its look-up
\* (sqlite/mark.go:181-196, 345-352; mark.go:79-82).
DeletedByTheCall ==
  [][ \A c \in Delete : pc[c] # "returned" /\ result'[c] = "nil" =>
        /\ \E m \in marks : m.id = target[c]
        /\ marks' = {m \in marks : m.id # target[c]} ]_vars

\* Nobody's marks are not an empty list: who gets marks was told of a pupil that was
\* there when the transaction began to read (sqlite/mark.go:415-419, mark.go:61-64).
MarksOfSomebody ==
  [][ \A c \in Find : pc[c] # "returned" /\ result'[c] = "marks" => Snapshot(c).student ]_vars

\* Every call that has begun returns.
CallsReturn == \A c \in Call : pc[c] # "idle" ~> pc[c] = "returned"

-----------------------------------------------------------------------------
\* "If the period isnt full, the request will simply provide the local data"
\* (sqlite/mark.go:83).
LocalDataProvided == \A c \in Find : Valid(asked[c]) /\ ~Full(asked[c]) => result[c] # "panic"

\* "RefreshMarks refreshes marks for the student" (sqlite/mark.go:198).
RefreshTakesEffect ==
  [][ \A c \in Refresh : pc[c] = "wait" /\ result'[c] = "nil" => marks' = tab[c].marks ]_vars

\* "marks in the same period can only have different subjects" (sqlite/mark.go:386).
OneMarkASubject ==
  \A c \in Call : \A m, n \in tab[c].marks :
    m # n /\ m.period = n.period => m.subject # n.subject
=============================================================================
