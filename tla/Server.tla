------------------------------- MODULE Server -------------------------------
(***************************************************************************)
(* The HTTP server of http/: the requests on its transaction routes, the   *)
(* context of each pushed transaction, the map cancelTransactions, and the *)
(* shutdown that a request with an invalid token starts from inside its    *)
(* own handler.                                                            *)
(*                                                                         *)
(* The work queue behind the interface csb.WorkQueue is what it promises,  *)
(* TransactionLifecycle.  net/http is external: it accepts connections     *)
(* until Shutdown, recovers a panic of a handler, cancels the context of a *)
(* request when its handler returns or its client leaves, and forgets the  *)
(* connections a websocket has taken over.                                 *)
(***************************************************************************)
EXTENDS Naturals, FiniteSets

CONSTANTS
  Push,     \* the POST students/refresh requests, and the transaction of each
  Delete,   \* the DELETE transactions/{id} requests
  Watch,    \* the GET transactions/{id} requests, websockets once upgraded
  Owner,    \* whoever started the server and may close it
  MapMade   \* NewServer has made cancelTransactions: FALSE in the repository

Req == Push \cup Delete \cup Watch
Closer == Req \cup {Owner}

ASSUME ServerAssumption ==
  /\ Push \cap Delete = {} /\ Push \cap Watch = {} /\ Delete \cap Watch = {}
  /\ Owner \notin Req
  /\ MapMade \in BOOLEAN

VARIABLES
  \* net/http and Close
  listening,    \* connections are accepted
  closed,       \* the flag Server.closed
  call,         \* where each call of Server.Close stands
  \* the requests
  pc,           \* where each request stands
  names,        \* the transaction a DELETE names by its id
  cancels,      \* the transactions that are keys of cancelTransactions
  ctxDone,      \* the transactions whose context is cancelled
  fatal,        \* the runtime met a concurrent map write and ended the process
  \* the work queue
  wqClosed,     \* WorkQueue.Close has run
  accepted,     \* the transactions Publish took without an error
  status, number, topic, seen   \* see TransactionLifecycle

Queue == INSTANCE TransactionLifecycle WITH Tx <- Push, Sub <- Watch

closeVars == <<listening, closed, call>>
lifeVars  == <<status, number, topic, seen>>
queueVars == <<wqClosed, accepted, lifeVars>>
vars      == <<closeVars, pc, names, cancels, ctxDone, fatal, queueVars>>

Final    == {"aborted", "panicked", "invalid", "refused", "answered",
             "noContent", "notFound", "leaked", "ended"}
Hijacked == {"streaming", "leaving"}
Active(r) == pc[r] \notin {"idle"} \cup Final \cup Hijacked

Step(r, from, to) == pc[r] = from /\ pc' = [pc EXCEPT ![r] = to]

-----------------------------------------------------------------------------
(* The life of a connection and the token middleware *)

Arrive(r) ==
  /\ listening
  /\ Step(r, "idle", "token")
  /\ UNCHANGED <<closeVars, names, cancels, ctxDone, fatal, queueVars>>

TokenValid(r) ==
  /\ Step(r, "token", "handler")
  /\ UNCHANGED <<closeVars, names, cancels, ctxDone, fatal, queueVars>>

\* Any error of the engage request counts: the middleware calls Close itself.
TokenInvalid(r) ==
  /\ Step(r, "token", "closing")
  /\ call' = [call EXCEPT ![r] = "swap"]
  /\ UNCHANGED <<listening, closed, names, cancels, ctxDone, fatal, queueVars>>

\* Close is back: the middleware returns without an answer.
Abort(r) ==
  /\ call[r] \in {"nil", "error"}
  /\ Step(r, "closing", "aborted")
  /\ UNCHANGED <<closeVars, names, cancels, ctxDone, fatal, queueVars>>

\* The body or the id of the URL does not parse.
Invalid(r) ==
  /\ Step(r, "handler", "invalid")
  /\ UNCHANGED <<closeVars, names, cancels, ctxDone, fatal, queueVars>>

-----------------------------------------------------------------------------
(* Server.Close *)

OwnerCloses ==
  /\ call[Owner] = "none"
  /\ call' = [call EXCEPT ![Owner] = "swap"]
  /\ UNCHANGED <<listening, closed, pc, names, cancels, ctxDone, fatal, queueVars>>

\* The compare-and-swap: the first caller shuts the server down, which closes
\* its listeners first; the others return at once.
CloseBegin(c) ==
  /\ call[c] = "swap"
  /\ call' = [call EXCEPT ![c] = IF closed THEN "nil" ELSE "shutdown"]
  /\ closed' = TRUE
  /\ listening' = FALSE
  /\ UNCHANGED <<pc, names, cancels, ctxDone, fatal, queueVars>>

\* Mutant of ShutdownDone: the work queue is closed without waiting.
ShutdownDoneAtOnce(c) ==
  /\ call[c] = "shutdown"
  /\ call' = [call EXCEPT ![c] = "queue"]
  /\ UNCHANGED <<listening, closed, pc, names, cancels, ctxDone, fatal, queueVars>>

ShutdownDone(c) ==
  /\ call[c] = "shutdown"
  /\ \A r \in Req : ~Active(r)
  /\ call' = [call EXCEPT ![c] = "queue"]
  /\ UNCHANGED <<listening, closed, pc, names, cancels, ctxDone, fatal, queueVars>>

\* Mutant of ShutdownTimeout: Shutdown with a context that never ends.
ShutdownTimeoutNever(c) == FALSE /\ call[c] = "shutdown" /\ UNCHANGED vars

\* serverShutdownTime is over and some connection is still active: Close
\* returns the error, the work queue stays open.
ShutdownTimeout(c) ==
  /\ call[c] = "shutdown"
  /\ \E r \in Req : Active(r)
  /\ call' = [call EXCEPT ![c] = "error"]
  /\ UNCHANGED <<listening, closed, pc, names, cancels, ctxDone, fatal, queueVars>>

CloseQueue(c) ==
  /\ call[c] = "queue"
  /\ wqClosed' = TRUE
  /\ call' = [call EXCEPT ![c] = "nil"]
  /\ UNCHANGED <<listening, closed, pc, names, cancels, ctxDone, fatal, accepted, lifeVars>>

-----------------------------------------------------------------------------
(* POST students/refresh: pushTransaction *)

\* The queue gives the transaction its id and its state.
Enqueue(p) ==
  /\ number' = [number EXCEPT ![p] = Cardinality({q \in Push : number[q] > 0}) + 1]
  /\ Queue!Publish(p)

\* Publish takes it; into a closed queue it is a no-op without an error.
PublishTaken(p) ==
  /\ Step(p, "handler", "register")
  /\ IF wqClosed
     THEN UNCHANGED <<accepted, lifeVars>>
     ELSE Enqueue(p) /\ accepted' = accepted \cup {p}
  /\ UNCHANGED <<closeVars, names, cancels, ctxDone, fatal, wqClosed>>

\* Mutant of PublishFull: the error of Publish is dropped.
PublishFullDropped(p) ==
  /\ ~wqClosed
  /\ Step(p, "handler", "register")
  /\ UNCHANGED <<closeVars, names, cancels, ctxDone, fatal, queueVars>>

PublishFull(p) ==
  /\ ~wqClosed
  /\ Step(p, "handler", "refusing")
  /\ Enqueue(p)
  /\ UNCHANGED <<closeVars, names, cancels, ctxDone, fatal, wqClosed, accepted>>

\* The entry in cancelTransactions, written without transactionMu; into a map
\* that was never made the write panics.
Register(p) ==
  /\ IF MapMade
     THEN /\ Step(p, "register", "writing")
          /\ cancels' = cancels \cup {p}
          /\ UNCHANGED ctxDone
     ELSE /\ Step(p, "register", "panicked")
          /\ ctxDone' = ctxDone \cup {p}
          /\ UNCHANGED cancels
  /\ UNCHANGED <<closeVars, names, fatal, queueVars>>

Racing(p) == \/ \E q \in Push \ {p} : pc[q] = "register"
             \/ \E d \in Delete : pc[d] \in {"locked", "found"}

RegisterRace(p) ==
  /\ MapMade
  /\ pc[p] = "register"
  /\ Racing(p)
  /\ fatal' = TRUE
  /\ UNCHANGED <<closeVars, pc, names, cancels, ctxDone, queueVars>>

\* Mutant of Return: the context does not come from the request.
ReturnDetached(p) ==
  /\ Step(p, "writing", "answered") \/ Step(p, "refusing", "refused")
  /\ UNCHANGED <<closeVars, names, cancels, ctxDone, fatal, queueVars>>

\* The answer is written and the handler returns: net/http cancels the context
\* of the request, and with it the context of the transaction.
Return(p) ==
  /\ Step(p, "writing", "answered") \/ Step(p, "refusing", "refused")
  /\ ctxDone' = ctxDone \cup {p}
  /\ UNCHANGED <<closeVars, names, cancels, fatal, queueVars>>

\* The client hangs up before the answer.
ClientGone(p) ==
  /\ pc[p] \in {"register", "writing", "refusing"}
  /\ ctxDone' = ctxDone \cup {p}
  /\ UNCHANGED <<closeVars, pc, names, cancels, fatal, queueVars>>

-----------------------------------------------------------------------------
(* DELETE transactions/{id} *)

\* Mutant of MutexFree: two holders of transactionMu.
MutexFreeAlways == TRUE
MutexFree == \A e \in Delete : pc[e] \notin {"locked", "found"}

DeleteLock(d) ==
  /\ MutexFree
  /\ Step(d, "handler", "locked")
  /\ UNCHANGED <<closeVars, names, cancels, ctxDone, fatal, queueVars>>

DeleteLookup(d) ==
  /\ Step(d, "locked", IF names[d] \in cancels THEN "found" ELSE "notFound")
  /\ UNCHANGED <<closeVars, names, cancels, ctxDone, fatal, queueVars>>

\* Mutant of DeleteCancel: it cancels the context of its own request.
DeleteCancelItself(d) ==
  /\ Step(d, "found", "noContent")
  /\ ctxDone' = ctxDone \cup {d}
  /\ cancels' = cancels \ {names[d]}
  /\ UNCHANGED <<closeVars, names, fatal, queueVars>>

\* Mutant of DeleteCancel: the entry is removed, cancel is not called.
DeleteCancelForgets(d) ==
  /\ Step(d, "found", "noContent")
  /\ cancels' = cancels \ {names[d]}
  /\ UNCHANGED <<closeVars, names, ctxDone, fatal, queueVars>>

\* cancel(), the entry removed, 204.
DeleteCancel(d) ==
  /\ Step(d, "found", "noContent")
  /\ ctxDone' = ctxDone \cup {names[d]}
  /\ cancels' = cancels \ {names[d]}
  /\ UNCHANGED <<closeVars, names, fatal, queueVars>>

-----------------------------------------------------------------------------
(* GET transactions/{id} *)

\* Subscribe: nothing and no error from a closed queue, ENOTFOUND for a
\* transaction that is not there or that is over, else a subscription.
Subscribe(w) ==
  /\ Step(w, "handler", IF wqClosed THEN "noSub"
                        ELSE IF status[topic[w]] \in {"Queued", "Processing"} THEN "subscribed"
                        ELSE "notFound")
  /\ UNCHANGED <<closeVars, names, cancels, ctxDone, fatal, queueVars>>

\* The upgrade hands the connection to the handler; with no subscription the
\* deferred sub.Close is a call through a nil interface.
Upgrade(w) ==
  /\ pc[w] \in {"subscribed", "noSub"}
  /\ pc' = [pc EXCEPT ![w] = IF @ = "noSub" THEN "panicked" ELSE "streaming"]
  /\ UNCHANGED <<closeVars, names, cancels, ctxDone, fatal, queueVars>>

\* The early return of a failed upgrade leaves the subscription open.
UpgradeFails(w) ==
  /\ pc[w] \in {"subscribed", "noSub"}
  /\ pc' = [pc EXCEPT ![w] = IF @ = "noSub" THEN "ended" ELSE "leaked"]
  /\ UNCHANGED <<closeVars, names, cancels, ctxDone, fatal, queueVars>>

\* One status from the stream, written to the peer.
Send(w) ==
  /\ pc[w] = "streaming"
  /\ Queue!Observe(w)
  /\ UNCHANGED <<closeVars, pc, names, cancels, ctxDone, fatal, wqClosed, accepted>>

\* A write or a ping fails, or the stream is closed because its transaction is over.
StopStreaming(w) ==
  /\ Step(w, "streaming", "leaving")
  /\ UNCHANGED <<closeVars, names, cancels, ctxDone, fatal, queueVars>>

\* The deferred sub.Close, conn.Close and timer.Stop.
Leave(w) ==
  /\ Step(w, "leaving", "ended")
  /\ UNCHANGED <<closeVars, names, cancels, ctxDone, fatal, queueVars>>

-----------------------------------------------------------------------------
(* The work queue: it runs what it took, and cancels what waits with a         *)
(* cancelled context.                                                          *)
Start(p) ==
  /\ p \in accepted
  /\ Queue!Start(p)
  /\ UNCHANGED <<closeVars, pc, names, cancels, ctxDone, fatal, wqClosed, accepted>>

Finish(p) ==
  /\ Queue!Finish(p)
  /\ UNCHANGED <<closeVars, pc, names, cancels, ctxDone, fatal, wqClosed, accepted>>

Cancelled(p) ==
  /\ p \in ctxDone
  /\ Queue!Cancel(p)
  /\ UNCHANGED <<closeVars, pc, names, cancels, ctxDone, fatal, wqClosed, accepted>>

-----------------------------------------------------------------------------
Init ==
  /\ listening = TRUE
  /\ closed = FALSE
  /\ call = [c \in Closer |-> "none"]
  /\ pc = [r \in Req |-> "idle"]
  /\ names \in [Delete -> Push]
  /\ cancels = {}
  /\ ctxDone = {}
  /\ fatal = FALSE
  /\ wqClosed = FALSE
  /\ accepted = {}
  /\ Queue!Init

Middleware(r) == TokenValid(r) \/ TokenInvalid(r) \/ Abort(r) \/ Invalid(r)
PushStep(p)   == PublishTaken(p) \/ PublishFull(p) \/ Register(p) \/ Return(p)
DeleteStep(d) == DeleteLookup(d) \/ DeleteCancel(d)
WatchStep(w)  == Subscribe(w) \/ Upgrade(w) \/ UpgradeFails(w)
CloseStep(c)  == CloseBegin(c) \/ ShutdownDone(c) \/ ShutdownTimeout(c) \/ CloseQueue(c)
QueueStep(p)  == Start(p) \/ Finish(p) \/ Cancelled(p)

Next ==
  /\ ~fatal
  /\ \/ \E r \in Req : Arrive(r) \/ Middleware(r)
     \/ \E p \in Push : PushStep(p) \/ RegisterRace(p) \/ ClientGone(p) \/ QueueStep(p)
     \/ \E d \in Delete : DeleteLock(d) \/ DeleteStep(d)
     \/ \E w \in Watch : WatchStep(w) \/ Send(w) \/ StopStreaming(w) \/ Leave(w)
     \/ OwnerCloses
     \/ \E c \in Closer : CloseStep(c)

Spec == Init /\ [][Next]_vars

(***************************************************************************)
(* Fairness: engage answers the token request, handlers run, the timer of  *)
(* Shutdown fires, a mutex that is free again and again is got, and the    *)
(* work queue makes progress.  Nobody has to send a request, to hang up or *)
(* to close the server, and a websocket may stay open for ever.            *)
(***************************************************************************)
Alive(A) == ~fatal /\ A

Fairness ==
  /\ \A r \in Req : WF_vars(Alive(Middleware(r)))
  /\ \A p \in Push : WF_vars(Alive(PushStep(p))) /\ WF_vars(Alive(QueueStep(p)))
  /\ \A d \in Delete : SF_vars(Alive(DeleteLock(d))) /\ WF_vars(Alive(DeleteStep(d)))
  /\ \A w \in Watch : WF_vars(Alive(WatchStep(w)))
  /\ \A c \in Closer : WF_vars(Alive(CloseStep(c)))

FairSpec == Spec /\ Fairness

-----------------------------------------------------------------------------
\* Every variable ranges over what its Go type and the program counters allow.
TypeOK ==
  /\ listening \in BOOLEAN /\ closed \in BOOLEAN
  /\ call \in [Closer -> {"none", "swap", "shutdown", "queue", "nil", "error"}]
  /\ pc \in [Req -> {"idle", "token", "closing", "handler", "register", "writing",
                     "refusing", "locked", "found", "noSub", "subscribed"}
                    \cup Final \cup Hijacked]
  /\ names \in [Delete -> Push]
  /\ cancels \subseteq Push /\ ctxDone \subseteq Push /\ accepted \subseteq Push
  /\ fatal \in BOOLEAN /\ wqClosed \in BOOLEAN
  /\ status \in [Push -> {"none", "Queued", "Processing", "Done", "Cancelled"}]
  /\ number \in [Push -> Nat]
  /\ topic \in [Watch -> Push]
  /\ seen \in [Watch -> {"none", "Queued", "Processing", "Done", "Cancelled"}]

\* "close the work queue since the server is the only writer to the work queue"
\* (http/server.go:119): the queue is closed only when no handler is left that
\* could still publish to it or subscribe.
QueueClosedLast == wqClosed => \A r \in Req : ~Active(r)

\* "A transaction with a populated id field or an non nil error" comes back from
\* pushTransaction (http/work_queue.go:107), although Publish into a closed queue
\* is a silent no-op: no handler meets one.
PopulatedId == \A p \in Push : pc[p] \in {"writing", "answered"} => number[p] > 0

\* However many DELETEs race for a transaction, one of them gets the 204.
OneCancel ==
  \A d, e \in Delete : names[d] = names[e] /\ pc[d] = "noContent" /\ pc[e] = "noContent" => d = e

\* A transaction the queue took can be cancelled by its id as long as its context lives;
\* the only time it cannot is between Publish and its entry (http/work_queue.go:90-98,
\* 115-118).
LiveIsCancellable == \A p \in accepted \ ctxDone : pc[p] = "register" \/ p \in cancels

\* Close comes back, also when it is called from the handler of a request whose
\* connection Shutdown waits for (http/server.go:111-135).
CloseReturns == \A c \in Closer : call[c] = "swap" ~> call[c] \in {"nil", "error"} \/ fatal

\* The context made for a transaction is cancelled in the end, also on the error
\* path that drops its cancel function (http/work_queue.go:109-117).
ContextsReleased == \A p \in Push : status[p] # "none" ~> p \in ctxDone \/ fatal

-----------------------------------------------------------------------------
\* "Close gracefully closes the http server and closes the work queue."
\* (http/server.go:108)
CloseMeansClosed == \A c \in Closer : call[c] = "nil" => wqClosed

\* "204 if the transaction was cancelled" (http/work_queue.go:82): what got a 204
\* has not run to its end.
NoContentMeansCancelled == \A d \in Delete : pc[d] = "noContent" => status[names[d]] # "Done"

\* "returns 404 if the transaction isnt found" (http/work_queue.go:81-82): a
\* transaction that is on the queue, its context alive, is found.
NotFoundMeansUnknown ==
  [][ \A d \in Delete : pc[d] = "locked" /\ pc'[d] = "notFound" =>
        names[d] \notin accepted \/ names[d] \in ctxDone ]_vars

\* pushTransaction returns the transaction or an error (http/work_queue.go:107),
\* it does not panic.
PushReturns == \A p \in Push : pc[p] # "panicked"

\* "calling this method doesent require the caller to hold a mutex"
\* (http/work_queue.go:104).
NoConcurrentMapWrite == ~fatal

\* "It returns the scheduled transaction" (http/student.go:90): a transaction
\* that was returned and that nobody deletes is done some day.
ScheduledRuns ==
  \A p \in Push :
    pc[p] = "answered" ~> \/ status[p] = "Done" \/ closed \/ fatal
                          \/ \E d \in Delete : names[d] = p /\ pc[d] = "noContent"
=============================================================================
