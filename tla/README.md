# CSB-Open-API: a TLA+ verification of the work queue, the HTTP server, the student and mark services and the engage client

CSB-Open-API is a Go service that copies students and marks from a school portal
("engage") into SQLite and serves them over HTTP.  Refreshing is slow and must not
flood engage, so refresh requests become *transactions* on a work queue with one
worker, whose progress clients follow over a websocket.

This directory models that system in TLA+, checks it with TLC and proves the central
theorems with TLAPS.  `PROJECT.json` lists the runs, the mutants each property is
tested with, the source lines of every definition, the hazards and the theorems.

## Read this first: the code at this commit

The repository is unfinished and does not compile as it is: `findMarks` has no body
(sqlite/mark.go:341), `registerMarkRoutes` and `registerPeriodRoutes` are called and
not defined (http/server.go:82, 86), `go:embed` has no import of `embed`
(sqlite/sqlite.go:15).  Other parts compile but are unfinished: the state literal of
`Publish` makes no channels and no parent pointer (inmem/work_queue.go:94),
`NewServer` makes no `cancelTransactions` (http/server.go:51), `findStudents` returns
nothing (sqlite/student.go:270).  The protocols around those gaps are complete, and
they are what is hard to get right.  So each gap is a constant:

| constant | module | the repository | gap filled |
|---|---|---|---|
| `Made` | WorkQueue | `{}` | `{"newSub", "delSub", "newSatus", "w"}` |
| `MapMade` | Server | `FALSE` | `TRUE` |
| `Written` | Students, StudentApi | `{}` | `{"findStudents", "subjects", "statements"}` |
| `Written` | Marks | `{}` | `{"findMarks", "sheet", "owner", "statements"}` |

In `Marks`, "sheet" is a GetMarkFromRender that reads a mark (the one of the repository
never does: `v_sheet`), "owner" the student and the period of a mark read from engage,
which nothing fills in and `Mark.Validate` asks for, "statements" an INSERT that SQLite
accepts.  `EngageClient` and `Render` need no such constant: they are the code as it is.

The runs that pass use the filled-in value, where the protocol is alive; what the
repository's own value does is shown by the reproductions listed below. The theorems
hold for *every* value of these constants, but for the premises listed under Proofs.
Whoever fills a gap gets the rest of the checks with it.

One more constant says what a deployment may choose: `DsnKeys`, that the DSN turns
`foreign_keys` on for every connection.  `Open` does not, it executes the pragma once, on
one connection of the pool; `st_safety` runs the code as it is (`DsnKeys = FALSE`), and no
theorem has `DsnKeys` as a premise.

## Inventory

| component | source | state | operations | hard because | correct when |
|---|---|---|---|---|---|
| Transaction types | work_queue.go | none | the interface of a queue and of a subscription | it is the contract both sides rely on | statuses advance, one at a time, in order |
| In-memory work queue | inmem/work_queue.go | id counter, queue channel, `done`, map of states; per state: status, subscribers, three channels; per subscription: one-slot channel, flag | Publish, Subscribe, Close, Subscription.C/Close; goroutines `listen` and `bind` | rendezvous between three kinds of goroutines, an RWMutex held over a rendezvous, cancellation at any point | no panic on a channel, one worker, id order, ordered and closed streams, progress |
| HTTP server | http/server.go, http/work_queue.go | `closed`, `cancelTransactions`, the requests in flight | middleware, push, DELETE and GET transactions, Close | shutdown from inside a handler, two-step registration, contexts that net/http cancels | queue closed last, ids populated, one 204, Close returns |
| HTTP student handlers | http/student.go, http/http.go | none | GET, DELETE, POST refresh | the context of the request reaches SQLite and engage, a refresh runs meanwhile, several layers turn one error into a status | 204 only for an own delete, 404 only for what was missing, an answer to everything but after a panic, the scheduled transaction runs |
| Student service | sqlite/student.go, student.go | tables students and student_takes | FindStudentByPID, FindStudents, DeleteStudent, RefreshStudents | a request to engage inside a database transaction, partial saves, a lost write lock | whole students only, nothing stale saved, refresh as documented |
| Subjects | sqlite/subject.go, subject.go | table subjects | look-ups, attach | unknown codes in the middle of a save | with the student service |
| Mark service | sqlite/mark.go, mark.go | table marks | find by period with fallback, refresh, delete | the same protocol over periods; returns without commit; the pupil may be deleted | one mark for each new row, old ones untouched, success only for an own delete |
| Database set-up | sqlite/sqlite.go, db/migrations/ | the pool, the schema | Open, populateSubjects | a pragma is a setting of one connection | constraints hold on every connection |
| Engage client | engage/client.go | none | five requests, list building, decodeError | engage may refuse, answer null, leave out the length or stop half-way | the right year is asked for, a refusal is reported |
| Engage parsing | engage/engage.go | none | name, year and mark of a rendered sheet | index arithmetic on slices, on a buffer that may be cut | the field that is there is the field returned, no panic |
| Periods, ranking | period.go, ranking.go | none | Full, Validate; interfaces only | no implementation at this commit | - |
| Errors, configuration | error.go, config.go | none | codes and statuses both ways, a file | two tables that are not inverse to each other | a status names what happened |

Interaction: a request passes the token middleware (one engage request each time),
its handler publishes to the queue; the queue's worker calls the handler function it
was created with (which would call `RefreshStudents`); statuses flow back through
subscriptions to websockets.  The context of the request is the parent of the
transaction's context, and that is what cancels a transaction.

The hazards, each at its line with the properties that cover it, are in
`PROJECT.json` under `hazards`.

## Modules

| module | what it is |
|---|---|
| `TransactionLifecycle` | abstract: what `csb.WorkQueue` promises its callers |
| `WorkQueue` | inmem/work_queue.go, every goroutine and both kinds of lock |
| `WorkQueueInv` | the inductive invariant of `WorkQueue`, in parts |
| `WorkQueueProofs` | its proof, and the theorems that follow from it |
| `WorkQueueRefines` | the proof that `WorkQueue` implements `TransactionLifecycle` |
| `Server` | http/: requests, middleware, shutdown, over `TransactionLifecycle` |
| `ServerProofs` | its theorems |
| `StudentStore` | abstract: what the student tables promise their readers |
| `Students` | sqlite/student.go: concurrent calls over SQLite and the pool |
| `StudentsProofs` | its theorems, that it implements `StudentStore` among them |
| `StudentApi` | http/student.go over `Students`: requests, statuses, clients that leave |
| `StudentApiProofs` | its theorems, over the invariant of `StudentsProofs` |
| `Marks` | sqlite/mark.go and period.go: concurrent calls for one pupil |
| `MarksProofs` | its theorems |
| `Errors` | error.go: codes and statuses |
| `Render` | engage/engage.go: the parsers of a marksheet, as operators over bytes |
| `EngageClient` | engage/client.go and the two exchanges the services build from it, over `Render` and `Errors` |
| `EngageProofs` | theorems about the parsers of `Render` and the exchanges |
| `MCWorkQueue`, `MCServer`, `MCStudents`, `MCStudentApi`, `MCMarks`, `MCEngageClient` | the instances for TLC |

### WorkQueue

One action is one atomic step of one goroutine.  Program counters stand where Go can
switch: `pub[t]` for a Publish call, `closer` for Close, `sub[s]` for a Subscribe call
and the client that holds the subscription it returns, `bind[t]` for the goroutine of a
state, `worker` for `listen`.

- An unbuffered channel is a rendezvous: one action moves both sides
  (`WorkerAnnounce`, `WorkerReport`, `SubscribeMeet`, `SubCloseMeet`), and the receiver
  has to stand at its select (`bind[t] = "select"`).  A nil channel never meets anyone:
  the action asks for its name in `Made`.
- `statesMu` is derived from the program counters: "locking" is a writer that has
  announced itself (new readers wait behind it, as in Go), "offering" a reader.
- `broadcast` goes through the subscribers one by one (`rem`), in any order, as Go
  ranges over a map; with the context cancelled both cases of its select are ready.
- A panic in a goroutine ends the process: `crash` names it and nothing moves after it.
- `WorkerLookup` reads `w.states` without the lock.  When a writer is inside its
  critical section that is a data race, and `WorkerLookupRace` lets the runtime detect
  it and end the process.
- A status is its state; the error it carries is left out.  The handler is a step that
  ends.  `ran` and `last` are history variables.
- The `continue` of `bind` for a cancelled context while Processing is a stutter.

### Server

Requests step through `pc`.  net/http is external and modelled from its use: it accepts
until Shutdown, Shutdown waits for connections that are not idle and forgets hijacked
ones, a handler's panic is recovered (`"panicked"`), the request's context is cancelled
when the handler returns or the client leaves.  The work queue is the abstract life
cycle: that `WorkQueue` implements it is checked (`wq_safety`) and proved
(`Refinement`), so nothing the server concludes from it is assumed.  The assignment to
`cancelTransactions` meets another use of the map only in `RegisterRace`, which ends the
process.

### Students

One call is one database transaction; its program counter stands before each
statement, request and pause.  SQLite (WAL) and database/sql are external: the first
read fixes the version a transaction sees (`base`, `tab`), the first write takes the one
write lock and fails when somebody else keeps it or has committed since; a connection
comes from a pool that keeps two idle ones, and only the first has executed
`PRAGMA foreign_keys` (`conn`), unless the DSN asks for it (`DsnKeys`).  `tab[c]` is
what the call's transaction would commit.  A subject is a code; what engage answers is
any member of `Answer`.  Name, year, marks and time stamps are left out.  `BeginTx`, a
look-up, a request, a statement and a commit may each fail, for a context that is done or
for reasons of their own (`BeginFails`, `StepFails`, `CreateFails`, ...); `DeleteStudent`
turns a failed `BeginTx` into nil, as the code does.  The engage client may panic
(`AskEngagePanics`), and so may an update (`UpdatePanics`): the deferred rollback runs and
the call is over with the result "panic".  `Purge` is the set of refreshes that purge.  A
cancelled context shows at the call's next step: database/sql has rolled back by then, and
nothing the model tells apart happens in between.  The pause of a refresh may end by
its timer although the context is done: with both cases of the select ready Go may take
either.

### StudentApi

`StudentApi` extends `Students`: a request is a call whose context is the request's, and
`Cancel` is its client leaving.  `Refuse` answers a pupil id that is no number, `Serve`
is a step of the service in the handler (or, for a refresh, in the queue's worker),
`Respond` turns what the service returned into a status with `SendErr` and the tables of
`Errors`.  A status engage refused with passes through; any other failure is a 500.
net/http recovers a panic in a handler, which then answers nothing; nothing recovers one in
the worker (inmem/work_queue.go:68), so a refresh that panics ends the process and no step
follows (`Alive`).  `begun`, `removed` and `missed` are history: which requests got a
transaction, which took the row away, and which ran while there was none.

### Marks

One pupil and the calls for it, each in its own transaction, with SQLite as in
`Students`; the pool does not matter here, a delete of a mark cascades to nothing.
`DeleteStudent` is the student service deleting the pupil, its marks with it.  A period
is a record whose pointers are sets (nil is the empty set), so that a term that is not
there can be dereferenced (`YearOnly`).  The period service has no implementation:
which periods `PeriodRange` builds is a constant, and it may fail.  `Fails` is a step of
any call that returns its error: BeginTx, a statement or the lock it needs, a request, a
commit, a context that is done.  No call ever commits
a new mark, so the marks of an initial state are those an existing database file brings
along.  `Diff` is `createDiff`: the look-up of every subject, the marks that are new,
their validation and the insert.  A mark that fails leaves the call with an error, and
the rollback takes back what was inserted before it.  A render without a length panics here
as it does in `Students` (`AskEngageFails`).

### EngageClient and Render

`Render` models bytes, regexp, strings and strconv by what they do to a sequence of
bytes, with Go's positions: a slice `buf[i:j]` with `i > j` is a panic.
`EngageClient` is one goroutine with one exchange: `want = "student"` asks for the
academic years, then for a sheet, and reads a name and a year; `want = "marks"` asks for a
sheet and reads mark after mark until one is not found.  A request may be refused with a
status, answered with null, without data, without a length, or cut short: one `Read` fills
the first bytes, possibly with an error, and the rest of the buffer stays zero.  `sent`,
`asked`, `sheet` and `whole` are history.

## Runs

Nine runs pass, three more show a disagreement (below); the bounds are in the cfg files.

| run | instance | shows |
|---|---|---|
| `wq_safety` | 2 transactions, 2 subscribers, queue of 1, both may be cancelled, both may close, symmetric; 1.9 million states | `TypeOK`; `NoChannelPanic`; `OneAtATime`; `RanIffPromised`; `StreamOrdered`; `NoOrphanedReader`; `UncancelledSaysWhy`; `NilStateOnlyByCancel`; `RunsInIdOrder`; every step is one of the life cycle (`ImplementsLifecycle`) |
| `wq_live` | 2 transactions, 1 subscriber, one may be cancelled | `AcceptedRunsUndisturbed`, `CancelReleasesWorker` |
| `srv_safety` | 1 push, 2 deletes, 1 websocket, the owner | `QueueClosedLast`, `PopulatedId`, `OneCancel`, `LiveIsCancellable` |
| `srv_live` | 2 pushes, 1 delete, the owner | `CloseReturns`, `ContextsReleased` |
| `st_safety` | a find, a delete and a refresh that purges, of 2 students, 2 known subjects and an unknown one, the pragma on one connection only | `ImplementsStore`, `NoStaleSave`, `StudentRefreshed` |
| `st_live` | a find and a refresh that does not purge, both may be cancelled | `CallsReturn`, `StudentRefreshed` |
| `api` | a GET, a DELETE and a refresh of one student, both clients may leave, everything may fail or panic | `BegunDeleteDeletes`, `NotFoundMeansMissing`, `Answered` |
| `mk_safety` | a find with its fallback, a delete and a refresh of up to two periods, the pupil may be deleted | `MarkForEachNewRow`, `DeletedByTheCall`, `MarksOfSomebody`, `CallsReturn` |
| `eng_safety` | year lists of up to two; 29 pages with and without a name and years; every text of up to 4 bytes of `,` `<` `k` behind a percentage; every text of up to 3 of `\` `t` `1`; one row and two; each cut at every byte | `YearsAsListed`, `StudentAsOnSheet`, `ParsersReturn` |

Why the bounds are enough to meet the interesting cases.  A queue of one is full with
the second transaction, so acceptance, rejection and the order between two ids all
happen; `Cap` stands for 50 and the theorems hold for any.  Two subscribers are the
least for a broadcast that stops half-way, and for a client that closes between two
sends.  One push with two deletes is the least for a double cancel, and the owner with
a failing middleware for a double Close.  Two pupil ids make a refresh go on after a
student is done; three calls are one more than the idle connections the pool keeps.
Two periods make a refresh of marks go on after one is done; the periods asked for are
full, a year and a term, a year only, and not valid; the four sheets add a mark, list a
subject twice, name an unknown one, and hold a row that is not valid.  A parser decides
by the order of two separators, so four bytes behind a percentage hold every order of
them, with and without something in between.  The loop over the marks of a sheet
(sqlite/mark.go:295) is modelled, but no instance enters it and none can: the first mark is
never read (`NothingRead`), so nothing is checked of the loop and no property is about it.
Deadlock is not checked: all these systems may stop (nobody publishes, every call has
returned, the process is gone).

`NilStateOnlyByCancel` and `UncancelledSaysWhy` say where the code stops being right:
a nil state is met only after a cancel in the window of `listen`, and a stream is closed
without its final status only if the transaction was cancelled.

What the other properties say, and what they do not:

- `StudentRefreshed` compares what a refresh has made of a student with what
  `RefreshStudents` documents: the attendance always, the subjects of a student that is
  new, the rows of one that was deleted where the pragma is on, and that the students to
  come are untouched.  The subjects of a student that was there before are not in it,
  because the documentation's "newest data" is not what `updateStudent` makes of them
  (`v_newest`).
- `ImplementsStore` holds with the pragma on one connection only: `StudentStore` then lets a
  student leave without its subjects.  That this happens is `v_orphans`.
- `BegunDeleteDeletes` speaks of a DELETE that got its transaction; one that did not is
  answered 204 all the same (`v_no_content`).
- `Answered` names what a panic takes away: the answer of the request whose own handler
  panicked, and everybody's once the worker has.  Whatever else fails, every request is
  answered.
- `MarkForEachNewRow` counts rows, not subjects: a refresh adds exactly as many marks as the
  sheet has rows of subjects that the period lacked.  Of a subject listed twice these are
  two (`v_twice`).
- `StudentAsOnSheet` covers the name wherever the read was cut, and the year of a sheet that
  was read to its end; a year misread from a cut sheet is not excluded.

`ParsersReturn` holds for a reason that is worth knowing (`MarkParser` proves it).  The slices
of `getSubjectName` and `getTeacherName` are out of bounds for almost every row, but no
sheet gets there: the percentage fails to convert before (`v_sheet`).  The mutant of
`ParsersReturn` repairs that conversion alone, and TLC finds the panic.

With `-coverage 1` TLC reports every branch of `WorkQueue`, `Server` and `Students` as
taken in the passing runs but these: the branches for a gap that is not filled (`MapMade = FALSE`,
parts not in `Written`), the panics on channels (`NoChannelPanic` says they are not
reached, and it is proved), and Publish or Subscribe into a closed queue from a handler
(`QueueClosedLast` and `PopulatedId` say so).

### Fairness

A goroutine that can run runs (WF).  A meeting at a select, or a lock, that is possible
again and again happens (SF): Go picks among ready cases at random and an RWMutex does
not starve a writer.  Nobody has to publish, subscribe, read, cancel, give up or close,
hang up or send a request; a websocket may stay open for ever.  In `Server` engage
answers the token request, the timer of Shutdown fires and the queue makes progress.  In
`Students` a call that has begun takes its next step: engage answers or fails, SQLite
gives up waiting for the lock after its busy timeout, timers fire; the same for `Marks`.
In `StudentApi` a handler that has its result answers, and nobody has to begin a request.
`EngageClient` is checked for safety only and needs no fairness.
`AcceptedRunsUndisturbed` has the clients' reading as its premise (`ReadersKeepUp`),
because without it the property is false (`v_slow.cfg`).

### Disagreements between code and documentation

Three are runs of the project, with their findings in `PROJECT.json`:

| run | what TLC finds |
|---|---|
| `v_wedge` | a cancel between the check of the context and the first status blocks the worker for every later transaction |
| `v_scheduled` | the scheduled transaction inherits the request's context and is cancelled by its own answer |
| `v_sheet` | a sheet that has a mark, read to its end, yields none: TrimPrefix takes off a tab where the match has a backslash and a t |

The other `v_*.cfg` files are reproductions of the same kind, run by hand with
`tlc -config v_x.cfg MCWorkQueue.tla` (`MCServer`, `MCStudents`, `MCMarks`,
`MCStudentApi` for `v_no_content`, `MCEngageClient`); each has one property, and TLC
reports it violated:

| cfg | property | what happens |
|---|---|---|
| `v_publish_blocks` | `PublishReturns` | a Subscribe waiting on the nil channel `newSub` holds the read lock: Publish never returns (`Made = {}`) |
| `v_nil_parent` | `CancelIsSafe` | cancelling a waiting transaction panics on the nil parent (`Made = {}`) |
| `v_map_race` | `NoMapRace` | the worker reads `w.states` while Publish writes it |
| `v_slow` | `AcceptedRuns` | one client that stopped reading holds up every transaction; with `Made = {}` the nil `newSatus` blocks the worker at once |
| `v_closed_reason` | `ClosedSaysWhy` | a stream closes after Queued or Processing |
| `v_subclose` | `SubCloseReturns` | Subscription.Close waits for a bind that has left its select |
| `v_cleanup` | `CleanupHappens` | Subscribe holds the read lock the cleanup needs |
| `v_close` | `CloseMeansClosed` | Close from the middleware waits for its own request, times out, leaves the queue open; later calls report success |
| `v_204` | `NoContentMeansCancelled` | 204 for a transaction that has run |
| `v_404` | `NotFoundMeansUnknown` | 404 for a transaction between Publish and its map entry |
| `v_push_panics` | `PushReturns` | the assignment to the nil `cancelTransactions` (`MapMade = FALSE`) |
| `v_map_write` | `NoConcurrentMapWrite` | two handlers meet at the unguarded map |
| `v_orphans` | `NoOrphanedTakes` | `PRAGMA foreign_keys` reaches one connection of the pool; a delete on another leaves rows of student_takes |
| `v_unsaved` | `SavedBeforeReturned` | a student that could not be saved is returned as if it was |
| `v_refresh_lost` | `RefreshTakesEffect` | RefreshStudents returns nil without a Commit |
| `v_refresh_panic` | `RefreshReturns` | fewer subjects than before is a slice of negative length, a panic |
| `v_newest` | `NewestData` | a student who changed one subject for another keeps the old one through a refresh: only the numbers are compared |
| `v_no_content` | `NoContentMeansDeleted` | a DELETE whose BeginTx fails is answered 204 with the student still there |
| `v_year_only` | `LocalDataProvided` | marks of a period that is a year only: the nil term is dereferenced |
| `v_marks_lost` | `RefreshTakesEffect` | RefreshMarks returns nil without a Commit |
| `v_twice` | `OneMarkASubject` | a sheet lists a subject twice, both marks are inserted |
| `v_refusal` | `RefusalReported` | engage refuses the sheet, the mark service answers that there is no mark |

## Proofs

What the runs show on a small instance these theorems say for every value of the constants.
Every safety invariant and action property of a passing run is a theorem; the `theorems` of
`PROJECT.json` say which is which. The proofs use the assumptions that the modules make
about their constants (`ConstantsAssumption`, `ServerAssumption`, `StudentsAssumption`,
`StudentApiAssumption`, `MarksAssumption`, `EngageAssumption`), which TLC evaluates on each
run; the sets of transactions, subscribers, requests, calls and pupils may be infinite. What
is assumed beyond that is a premise that the theorem states:

| premise | of | why |
|---|---|---|
| `ReadsBeforeSaves`: if the INSERT statements are mended, `findStudents` is written | `RefreshStudentByStudent`, `NeverStale` | a service that writes without looking rows up would save what it has already; true of the repository and of the completed program |
| `"findStudents" \in Written` | `MissingWhenTold` | in the repository nobody is ever found, a 404 says nothing |
| `FirstNamed`: in a sheet with a link, a link starts at the first `<a>` | `StudentFound` | engage's format; a sheet cut between two lines would else show another first link. It holds of every sheet of `MCEngageClient` |

### WorkQueue

`WorkQueueInv!IInv` is the inductive invariant, in parts that are each inductive with the
help of the ones before:

1. `TypeOK`, `HandInv`: the worker holds a transaction exactly while it works.
2. `PublishInv`: id, state and goroutine come together with registration, every id is at
   most `idCount`, and the map holds exactly the states whose bind has not returned.
3. `WorkerInv`: the place of the worker, `ran` and the status kept by bind agree.
   `OneAtATime` and `RanIffPromised` are not inductive alone: they need to know that a bind
   at "select" has not ended and what is in the worker's hand.
4. `QueueInv`: the queue is sorted by id, and above everything that ran; needs that a new id
   exceeds all others (2) and that what waits has not run (3).
5. `SubInv`: who may close a channel. A subscription in the map of a running bind has an
   open channel; this is what keeps `broadcast` and `closeSubscriptions` from a panic.
6. `StreamInv`: who is still to be served by a broadcast has seen less than its status.
7. `NoChannelPanic`.
8. `ServedInv`: while nobody cancels a transaction, whoever its broadcast has been to knows
   its status, and only the cleanup closes a channel that is still read. This is what makes
   `UncancelledSaysWhy` a theorem (`ClosedMeansDone`): the last status before the cleanup is
   Done.
9. `NilStateOnlyByCancel`, which needs 2 and 3: a transaction in the worker's hand is in the
   map unless its bind has returned, and only a cancel makes that happen so early.

TLC can check `IInv` itself: `MCWorkQueue` extends `WorkQueueInv`. Each part has a lemma
`XStep` with one step per action; `Inductive` puts them together and the theorems are its
consequences. `WorkQueueRefines!Refinement` proves `Spec => ImplementsLifecycle`: the
initial states map to initial states, and every step to one of `TransactionLifecycle` or to
a stutter.

### Server

`IInv` is `TypeOK`, `CloseInv`, `PushInv`, `CancelInv`, `OneCancel`, `LiveIsCancellable`.

- `CloseInv`: whoever is in Shutdown or past it found the flag and has closed the listeners,
  and past the wait of Shutdown nobody is active. `QueueClosedLast` alone is not inductive:
  it has to be known that no request can *become* active once somebody is past that wait.
- `PushInv`: a transaction that waits for its entry has its id. Needs `CloseInv`, since the
  only Publish that gives none and no error is the one into a closed queue.
- `CancelInv`: `transactionMu` has one holder, an entry found under it is still there, and
  what got a 204 is never entered again. From this `OneCancel` follows for any number of
  DELETEs, and `LiveIsCancellable`.

They hold whether or not `NewServer` makes the map.

### Students and StudentApi

`Students`' `IInv` is `TypeOK`, `PlaceInv`, `KeysInv`, `LockInv`, `ChangeInv`, `LookInv`,
`RefreshInv`, `RestInv`, `UnwrittenInv`.

- `LockInv` is the core: who holds the write lock reads the newest version, and who has seen
  the newest version and not written has a true copy of the tables. It is why a commit,
  which replaces the tables by the copy, does not undo what others did.
- `ChangeInv`: what is about to be committed is the database with one whole student more
  (`Saves`) or one less (`Removes`). With `LockInv` this is the step simulation of
  `StudentStore` (`StoresWhole`), for either value of `DsnKeys`. `KeysInv` (every connection
  has the pragma, if the DSN asks for it) is needed for the rows a delete then takes along.
- `LookInv`: a look-up is as old as the version it was made in; the lock is refused to an
  older one. From that `NeverStale`.
- `RefreshInv`: at each branch of the switch the copy is as it was when the refresh read it,
  so that at the pause it is as documented. `RestInv` is about the others: a refresh that
  holds the lock has changed no student it has not come to, since what it wrote last was the
  student at hand and nobody else commits. Together they are `RefreshStudentByStudent`.
  `UnwrittenInv` says what becomes of this while the gaps are not filled.

`StudentApi` is proved over it: `ApiSpec` implies the service's own invariant
(`ServiceInvariant`, a step of a request is a step of its call or leaves it alone). `ApiInv`
adds what the history knows: what has a transaction is in `begun` (`BegunInv`), a DELETE of
`begun` that returned nil removed the row (`RemovedInv`, from which `DeletedOnceBegun`
follows), who goes on to engage had found no row (`MissedInv`), and which result each
answer comes from (`AnswerInv`, with the tables of `Errors`: only not_found is a 404, no
error is a success).

### Marks

`IInv` is `TypeOK`, `FiniteInv`, `PlaceInv`, `SeenInv`, `LockInv`, `DeleteInv`; there is no
premise. `LockInv` is that of `Students`. `SeenInv` follows the marks a refresh holds those
of engage against (`DiffInv`): at the pause the period has what it had and as many marks
more as the sheet has rows of subjects it lacked. That the new marks are that many is
`CreatedForEach`: their ids count the rows up to them (`NewPlaces`), so no two are one.
`KeptInv` says that a refresh holding the lock has all marks of the table; the two are
`MarkForEachNewRow`. `DeleteInv` says that what a delete is
about to commit is the table without its one mark. `FiniteInv` is what makes the ids of new
marks numbers: a largest id exists.

### EngageClient and Render

Most of the work is about the parsers, for any sequence of bytes:

- `MarkParser`: GetMarkFromRender finds nothing or fails. The match begins with the
  backslash, the trim leaves it, and a backslash is no digit. Therefore `NoParserPanics`
  and `NothingRead` (no sheet ever yields a mark: `v_sheet` for all sheets)
  hold.
- `NumberIsNatural`: Atoi of digits is a natural. It is a fold; that it has a value on every
  set of positions is shown by a least counterexample (`Least`, from the well-founded order
  of the naturals).
- `NameParser`, `YearParser`: what is read is a name of the sheet's bytes, a natural; with
  these `TypeOK`.
- `LinkOfSheet`, `NameOfSheet`, `YearOfSheet`: the first link of a sheet that was cut is the
  first of the whole sheet, what the trims leave of it is a part of the name, and the last
  year behind the name is the last of the sheet.

The inductive invariant of the exchanges is `IInv`: `TypeOK`, `PlaceInv` (where an exchange
stands), `YearsInv` (the years are those listed, behind as many zeros, which change neither
the last one nor who attends), `SheetInv` (no mark is ever read), `ParsersReturn`. `StudentInv` relates what is left in the buffer to the sheet, and with
`FirstNamed` gives `StudentFound`.

### Only model-checked

Liveness, which is beyond TLAPS: `wq_live`, `srv_live`, `CallsReturn` of `Students`
and of `Marks`, `Answered`.

## Plan

What is modelled is complete as far as the code goes, and every safety property of a passing
run is proved. What is left:

1. Theorems about the abstract modules themselves (`TransactionLifecycle`: a final status
   stays), so that they hold of `WorkQueue` by `Refinement`, and of what `Server` concludes
   from them.
2. Which codes survive the round trip through the tables of `Errors`.
3. Weaker premises: `ReadsBeforeSaves`, and `FirstNamed` for sheets that were read to their
   end.

## Not modelled, and why

- `DB.Open`, migrations, `Listen`, `NewClient` and config: straight-line start-up code,
  which one run of the program or a unit test decides (Open fails on an already migrated
  database, sqlite.go:68, and in `populateSubjects`, which scans without Next,
  sqlite.go:89).
- Ranking and the period service: interfaces without an implementation.  `Period.Full`
  and `Validate` are in `Marks`.
- GetReportingPeriods, GetReportingSubjects and GetColumnsForSubjects: nothing calls
  them, and they build their lists as GetAcademicYears does.
- FindMarkByID, FindMarksByPID, FindMarksByPeriodRange, FindMarks, FindStudents: they only
  read, through queries that are not written.
- The server together with a worker that calls RefreshStudents: nothing in the repository
  creates the queue with such a handler.  The pieces are there: `Server` over the life
  cycle the queue implements, and `StudentApi` with the refresh as the worker's call.
- Wire formats, error texts and logging: no property is about them.

## Running

    tlc -workers 2 -config wq_safety.cfg MCWorkQueue.tla
    tlapm WorkQueueProofs.tla

`wq_safety`, `srv_live` and `eng_safety` take about a minute each, the other runs less;
the proofs take a minute or two a module.  A leaf that takes its prover seconds names the
prover and gives it a minute, so that a busy machine does not fail it.
