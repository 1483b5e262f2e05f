----------------------------- MODULE StudentApi -----------------------------
(***************************************************************************)
(* The handlers of http/student.go over the student service: GET and       *)
(* DELETE students/{pid} are calls of Students whose context is the        *)
(* request's, done when the client leaves.  A refresh of the same students *)
(* is run by the work queue's worker meanwhile.  net/http recovers a panic *)
(* in a handler and closes the connection; nothing recovers one in the     *)
(* worker, which ends the process.                                         *)
(***************************************************************************)
EXTENDS Students

CONSTANT Refused   \* the codes of the statuses engage refuses a request with

E == INSTANCE Errors

ASSUME StudentApiAssumption == Refused \subseteq E!Code \ {"not_found"}

VARIABLES
  status,   \* what each request was answered with, 0 before that
  begun,    \* history: the requests that got a transaction
  removed,  \* history: the requests that took the student's row away
  missed    \* history: the requests during which there was none

apiVars == <<vars, status, begun, removed, missed>>

Request == Find \cup Delete

\* No refresh has panicked in the worker: the process runs.
Alive == \A c \in Refresh : result[c] # "panic"

-----------------------------------------------------------------------------
\* http.go: SendErr.  What engage answered goes through, any other error is internal.
ErrorCodes(c, r) ==
  IF r = "notFound" THEN {"not_found"}
  ELSE {"internal"} \cup (IF c \in Find THEN Refused ELSE {})

Answers(c) ==
  IF result[c] = "student" THEN {200}
  ELSE IF result[c] = "nil" THEN {204}
  ELSE {E!FromErrorCodeToStatus(code) : code \in ErrorCodes(c, result[c])}

\* A pupil id that is no number.
Refuse(c) ==
  /\ Alive
  /\ pc[c] = "idle" /\ status[c] = 0
  /\ status' = [status EXCEPT ![c] = E!FromErrorCodeToStatus("invalid")]
  /\ UNCHANGED vars

\* Mutant of Respond: only a success is answered.
RespondToSuccess(c) ==
  /\ Alive
  /\ pc[c] = "returned" /\ status[c] = 0
  /\ result[c] \in {"student", "nil"}
  /\ \E s \in Answers(c) : status' = [status EXCEPT ![c] = s]
  /\ UNCHANGED vars

\* A handler that panicked answers nothing.
Respond(c) ==
  /\ Alive
  /\ pc[c] = "returned" /\ status[c] = 0 /\ result[c] # "panic"
  /\ \E s \in Answers(c) : status' = [status EXCEPT ![c] = s]
  /\ UNCHANGED vars

\* Mutant of Serve: no return behind the refusal.
ServeAnyway(c) == Alive /\ Step(c) /\ UNCHANGED status

\* The service runs in the handler, and in the work queue's worker.
Serve(c) ==
  /\ Alive
  /\ c \in Request => status[c] = 0
  /\ Step(c)
  /\ UNCHANGED status

-----------------------------------------------------------------------------
Remember ==
  /\ begun' = begun \cup {c \in Request : pc'[c] \notin {"idle", "returned"}}
  /\ removed' = removed \cup
       {c \in Delete : pc[c] = "commit" /\ row[at[c]] # "none" /\ row'[at[c]] = "none"}
  /\ missed' = missed \cup {c \in Request : pc[c] \notin {"idle", "returned"} /\ row[at[c]] = "none"}

ApiInit ==
  /\ Init
  /\ status = [c \in Request |-> 0]
  /\ begun = {} /\ removed = {} /\ missed = {}

ApiNext ==
  /\ \/ \E c \in Request : Refuse(c) \/ Respond(c)
     \/ \E c \in Call : Serve(c) \/ (Alive /\ Cancel(c) /\ UNCHANGED status)
  /\ Remember

ApiSpec == ApiInit /\ [][ApiNext]_apiVars

\* As for the student service; a handler that has its result answers.
ApiFairSpec ==
  /\ ApiSpec
  /\ \A c \in Call : WF_apiVars(Serve(c) /\ pc[c] # "idle" /\ Remember)
  /\ \A c \in Request : WF_apiVars(Respond(c) /\ Remember)

-----------------------------------------------------------------------------
\* A request has no answer before its call has returned, unless its pupil id is no number.
ApiTypeOK ==
  /\ status \in [Request -> {0, 200, 204} \cup {E!FromErrorCodeToStatus(c) : c \in E!Code}]
  /\ begun \subseteq Request /\ removed \subseteq Delete /\ missed \subseteq Request
  /\ \A c \in Request : pc[c] \notin {"idle", "returned"} => status[c] = 0

\* Once a DELETE has its transaction, a 204 is for the row its own request took away,
\* whatever else was deleting or saving the student (http/student.go:69-83,
\* sqlite/student.go:105-112).
BegunDeleteDeletes == \A c \in Delete \cap begun : status[c] = 204 => c \in removed

\* "returns 404 if the student isnt found": at some moment of the request there was no
\* row, a lost lock is no 404 (http/student.go:47-59, 69-81).
NotFoundMeansMissing == \A c \in Request : status[c] = 404 => c \in missed

\* Every request that has begun is answered, and every call of the worker returns: a
\* call that fails, panics or loses the write lock keeps nobody else from an answer.  A
\* request gets none if its own handler panics, and nobody does once the worker has
\* ended the process (http/student.go:45-83, inmem/work_queue.go:68).
Answered ==
  /\ \A c \in Request : pc[c] # "idle" ~> status[c] # 0 \/ result[c] = "panic" \/ ~Alive
  /\ \A c \in Refresh : pc[c] # "idle" ~> pc[c] = "returned" \/ ~Alive

-----------------------------------------------------------------------------
\* "204 if the delete is sucessful" (http/student.go:69-70), told to a client that is there.
NoContentMeansDeleted ==
  \A c \in Delete : c \notin ctxDone /\ status[c] = 204 => c \in removed
=============================================================================
