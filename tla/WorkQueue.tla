------------------------------ MODULE WorkQueue ------------------------------
(***************************************************************************)
(* The in-memory work queue of inmem/work_queue.go: publishers, one worker *)
(* goroutine (listen), one goroutine per transaction (state.bind), the     *)
(* subscribers of a transaction and the two mutual-exclusion mechanisms    *)
(* they share: the RWMutex statesMu and the channels.                      *)
(*                                                                         *)
(* An unbuffered channel is a rendezvous: sender and receiver move in one  *)
(* step, the receiver having to stand at its select.  A nil channel never  *)
(* meets anyone.  A panic in a goroutine ends the process: `crash' names   *)
(* the panic and nothing moves afterwards.                                 *)
(***************************************************************************)
EXTENDS Naturals, Sequences, FiniteSets

CONSTANTS
  Tx,           \* the transactions handed to Publish, one call each
  NoTx,         \* the worker has no transaction in hand
  Sub,          \* the Subscribe calls, and the subscriptions they return
  Cap,          \* defaultBufSize: the capacity of the queue channel (50)
  Made,         \* the fields Publish gives a new state besides currStatus and
                \* subscriptions: {} in the repository's literal, Fields once
                \* the literal makes the channels and names the parent
  Cancellable,  \* the transactions whose context may be cancelled
  Closing       \* the subscribers that may call Close

Fields == {"newSub", "delSub", "newSatus", "w"}

ASSUME ConstantsAssumption ==
  /\ NoTx \notin Tx
  /\ Cap \in Nat \ {0}
  /\ Made \subseteq Fields
  /\ Cancellable \subseteq Tx
  /\ Closing \subseteq Sub

None == "none"
Terminal == {"Done", "Cancelled"}
Status == {"Queued", "Processing"} \cup Terminal

VARIABLES
  \* the WorkQueue value
  idCount, id,      \* w.idCount; the Id written into each transaction (0: none)
  done,             \* the done channel is closed
  queue,            \* the buffer of the queue channel
  states,           \* the transactions whose state is in the map w.states
  \* callers of the WorkQueue
  pub, closer,      \* where each Publish call and the Close call stand
  ctxDone,          \* the transactions whose context is cancelled
  \* the worker goroutine
  worker, cur,      \* where listen stands; the transaction in its hand
  ran,              \* history: the transactions the handler was called with
  \* the state of each transaction, owned by its bind goroutine
  bind, curr,       \* where bind stands; currStatus
  subscriptions,    \* the subscriptions map
  rem,              \* the subscribers the running broadcast has not served yet
  \* the subscriptions and their clients
  sub, target,      \* where each client stands; the id it subscribes to
  closed,           \* the subscriptions whose atomic flag closed is set
  buf, chanClosed,  \* the one-slot channel c; the subscriptions whose c is closed
  last,             \* history: the last status the client read from C
  crash             \* "no", or the panic that ended the process

queueVars == <<idCount, id, done, queue, states>>
callVars  == <<pub, closer>>
workVars  == <<worker, cur, ran>>
bindVars  == <<bind, curr, subscriptions, rem>>
subVars   == <<sub, target, closed, buf, chanClosed, last>>
liveVars  == <<queueVars, callVars, ctxDone, workVars, bindVars, subVars>>
vars      == <<liveVars, crash>>

Crash(why) == crash' = why /\ UNCHANGED liveVars

-----------------------------------------------------------------------------
(***************************************************************************)
(* statesMu.  A goroutine at "locking" has announced itself as the writer: *)
(* no other writer and no new reader passes it, and it is inside its       *)
(* critical section once the last reader has left.  A Subscribe call at    *)
(* "offering" holds the read lock.                                         *)
(***************************************************************************)
WriteLocked == \/ \E t \in Tx : "locking" \in {pub[t], bind[t]}
               \/ closer = "locking"
ReadLocked  == \E s \in Sub : sub[s] = "offering"

\* A goroutine that assigns to or deletes from w.states is inside its critical
\* section, so an unlocked access to the map races with it.
MapBeingWritten ==
  /\ ~ReadLocked
  /\ \/ \E t \in Tx : bind[t] = "locking"
     \/ ~done /\ \E t \in Tx : pub[t] = "locking"

-----------------------------------------------------------------------------
(* Publish *)

\* Mutant of HasRoom: one transaction more than the channel holds.
HasRoomOffByOne == Len(queue) <= Cap
HasRoom == Len(queue) < Cap

\* Lock of Publish: waits for the writer before it.
PublishLock(t) ==
  /\ pub[t] = "idle"
  /\ ~WriteLocked
  /\ pub' = [pub EXCEPT ![t] = "locking"]
  /\ UNCHANGED <<queueVars, closer, ctxDone, workVars, bindVars, subVars, crash>>

\* Mutants of Register: the counter is not advanced; the state does not get
\* into the map.
RegisterSameId(t) ==
  /\ idCount' = idCount
  /\ id' = [id EXCEPT ![t] = idCount']
  /\ states' = states \cup {t}
  /\ curr' = [curr EXCEPT ![t] = "Queued"]
  /\ bind' = [bind EXCEPT ![t] = "select"]
RegisterOutsideMap(t) ==
  /\ idCount' = idCount + 1
  /\ id' = [id EXCEPT ![t] = idCount']
  /\ states' = states
  /\ curr' = [curr EXCEPT ![t] = "Queued"]
  /\ bind' = [bind EXCEPT ![t] = "select"]

\* The new id, the new state in the map, and the goroutine bound to it: done
\* before the queue is tried.
Register(t) ==
  /\ idCount' = idCount + 1
  /\ id' = [id EXCEPT ![t] = idCount']
  /\ states' = states \cup {t}
  /\ curr' = [curr EXCEPT ![t] = "Queued"]
  /\ bind' = [bind EXCEPT ![t] = "select"]

PublishClosed(t) ==
  /\ pub[t] = "locking" /\ ~ReadLocked
  /\ done
  /\ pub' = [pub EXCEPT ![t] = "noop"]
  /\ UNCHANGED <<queueVars, closer, ctxDone, workVars, bindVars, subVars, crash>>

PublishAccept(t) ==
  /\ pub[t] = "locking" /\ ~ReadLocked
  /\ ~done
  /\ Register(t)
  /\ HasRoom
  /\ queue' = Append(queue, t)
  /\ pub' = [pub EXCEPT ![t] = "accepted"]
  /\ UNCHANGED <<done, closer, ctxDone, workVars, subscriptions, rem, subVars, crash>>

PublishReject(t) ==
  /\ pub[t] = "locking" /\ ~ReadLocked
  /\ ~done
  /\ Register(t)
  /\ ~HasRoom
  /\ pub' = [pub EXCEPT ![t] = "rejected"]
  /\ UNCHANGED <<done, queue, closer, ctxDone, workVars, subscriptions, rem, subVars, crash>>

(* Close of the work queue *)

CloseLock ==
  /\ closer = "idle"
  /\ ~WriteLocked
  /\ closer' = "locking"
  /\ UNCHANGED <<queueVars, pub, ctxDone, workVars, bindVars, subVars, crash>>

Close ==
  /\ closer = "locking" /\ ~ReadLocked
  /\ done' = TRUE
  /\ closer' = "returned"
  /\ UNCHANGED <<idCount, id, queue, states, pub, ctxDone, workVars, bindVars, subVars, crash>>

\* The owner of the context cancels the transaction.
Cancel(t) ==
  /\ t \in Cancellable \ ctxDone
  /\ ctxDone' = ctxDone \cup {t}
  /\ UNCHANGED <<queueVars, callVars, workVars, bindVars, subVars, crash>>

-----------------------------------------------------------------------------
(* Subscribe *)

\* RLock, the check of done and the look-up in the map: the call returns
\* (nil, nil), ENOTFOUND, or stands at its select holding the read lock.
Subscribe(s) ==
  /\ sub[s] = "idle"
  /\ ~WriteLocked
  /\ sub' = [sub EXCEPT ![s] = IF done THEN "nil"
                               ELSE IF target[s] \notin states THEN "notFound"
                               ELSE "offering"]
  /\ UNCHANGED <<queueVars, callVars, ctxDone, workVars, bindVars,
                 target, closed, buf, chanClosed, last, crash>>

\* newSub <- sub meets bind, which stores the subscription and sends it the
\* current status; the call returns and drops the read lock.
SubscribeMeet(s) ==
  LET t == target[s] IN
  /\ sub[s] = "offering"
  /\ "newSub" \in Made
  /\ bind[t] = "select"
  /\ subscriptions' = [subscriptions EXCEPT ![t] = @ \cup {s}]
  /\ buf' = [buf EXCEPT ![s] = curr[t]]
  /\ sub' = [sub EXCEPT ![s] = "open"]
  /\ UNCHANGED <<queueVars, callVars, ctxDone, workVars, bind, curr, rem,
                 target, closed, chanClosed, last, crash>>

\* The subscriber's own context ends the wait.
SubscribeGiveUp(s) ==
  /\ sub[s] = "offering"
  /\ sub' = [sub EXCEPT ![s] = "ctxErr"]
  /\ UNCHANGED <<queueVars, callVars, ctxDone, workVars, bindVars,
                 target, closed, buf, chanClosed, last, crash>>

-----------------------------------------------------------------------------
(* The client of a subscription *)

Receive(s) ==
  /\ sub[s] = "open"
  /\ buf[s] # None
  /\ last' = [last EXCEPT ![s] = buf[s]]
  /\ buf' = [buf EXCEPT ![s] = None]
  /\ UNCHANGED <<queueVars, callVars, ctxDone, workVars, bindVars,
                 sub, target, closed, chanClosed, crash>>

\* The client drained C and finds it closed.
ReceiveClosed(s) ==
  /\ sub[s] = "open"
  /\ buf[s] = None
  /\ s \in chanClosed
  /\ sub' = [sub EXCEPT ![s] = "ended"]
  /\ UNCHANGED <<queueVars, callVars, ctxDone, workVars, bindVars,
                 target, closed, buf, chanClosed, last, crash>>

\* Mutant of SubClose: close(c) before the subscription is taken out of the map.
SubCloseEarly(s) ==
  /\ s \in Closing
  /\ sub[s] = "open"
  /\ sub' = [sub EXCEPT ![s] = IF s \in closed THEN "closed" ELSE "closing"]
  /\ closed' = closed \cup {s}
  /\ chanClosed' = chanClosed \cup {s}
  /\ UNCHANGED <<queueVars, callVars, ctxDone, workVars, bindVars,
                 target, buf, last, crash>>

\* Subscription.Close: the compare-and-swap decides who closes the channel.
SubClose(s) ==
  /\ s \in Closing
  /\ sub[s] = "open"
  /\ sub' = [sub EXCEPT ![s] = IF s \in closed THEN "closed" ELSE "closing"]
  /\ closed' = closed \cup {s}
  /\ UNCHANGED <<queueVars, callVars, ctxDone, workVars, bindVars,
                 target, buf, chanClosed, last, crash>>

\* delSub <- s meets bind, then the client closes the channel.
SubCloseMeet(s) ==
  LET t == target[s] IN
  /\ sub[s] = "closing"
  /\ "delSub" \in Made
  /\ bind[t] = "select"
  /\ IF s \in chanClosed THEN Crash("closeOfClosed") ELSE
     /\ subscriptions' = [subscriptions EXCEPT ![t] = @ \ {s}]
     /\ chanClosed' = chanClosed \cup {s}
     /\ sub' = [sub EXCEPT ![s] = "closed"]
     /\ UNCHANGED <<queueVars, callVars, ctxDone, workVars, bind, curr, rem,
                    target, closed, buf, last, crash>>

-----------------------------------------------------------------------------
(* The goroutine state.bind *)

\* Mutant of MayCancel: the check of the Processing state is gone.
MayCancelAlways(t) == t \in ctxDone

\* A cancelled context is acted on only before the worker reported Processing.
MayCancel(t) == t \in ctxDone /\ curr[t] # "Processing"

\* bind takes up a new status at its select and starts broadcasting it.
TakeStatus(t, status) ==
  /\ bind[t] = "select"
  /\ curr' = [curr EXCEPT ![t] = status]
  /\ rem' = [rem EXCEPT ![t] = subscriptions[t]]
  /\ bind' = [bind EXCEPT ![t] = "broadcast"]

BindCancel(t) ==
  /\ MayCancel(t)
  /\ TakeStatus(t, "Cancelled")
  /\ UNCHANGED <<queueVars, callVars, ctxDone, workVars, subscriptions, subVars, crash>>

\* One iteration of broadcast delivers to a subscriber with a free slot.
BindSend(t, s) ==
  /\ bind[t] = "broadcast"
  /\ s \in rem[t]
  /\ IF s \in chanClosed THEN Crash("sendOnClosed") ELSE
     /\ buf[s] = None
     /\ buf' = [buf EXCEPT ![s] = curr[t]]
     /\ rem' = [rem EXCEPT ![t] = @ \ {s}]
     /\ UNCHANGED <<queueVars, callVars, ctxDone, workVars, bind, curr, subscriptions,
                    sub, target, closed, chanClosed, last, crash>>

\* Mutants of BindAbort: a default case in the select; no context case at all.
BindAbortDefault(t) ==
  /\ bind[t] = "broadcast"
  /\ rem[t] # {}
  /\ rem' = [rem EXCEPT ![t] = {}]
  /\ UNCHANGED <<queueVars, callVars, ctxDone, workVars, bind, curr, subscriptions, subVars, crash>>
BindAbortNever(t) == FALSE /\ UNCHANGED vars

\* The other case of the select: a cancelled context ends the broadcast,
\* whoever is still to be served.
BindAbort(t) ==
  /\ bind[t] = "broadcast"
  /\ rem[t] # {}
  /\ t \in ctxDone
  /\ rem' = [rem EXCEPT ![t] = {}]
  /\ UNCHANGED <<queueVars, callVars, ctxDone, workVars, bind, curr, subscriptions, subVars, crash>>

\* Mutants of BindNext: no return after Cancelled; a return after any status.
BindNextCancelStays(t) ==
  /\ bind[t] = "broadcast"
  /\ rem[t] = {}
  /\ bind' = [bind EXCEPT ![t] = IF curr[t] = "Done" THEN "return" ELSE "select"]
  /\ UNCHANGED <<queueVars, callVars, ctxDone, workVars, curr, subscriptions, rem, subVars, crash>>
BindNextReturns(t) ==
  /\ bind[t] = "broadcast"
  /\ rem[t] = {}
  /\ bind' = [bind EXCEPT ![t] = "return"]
  /\ UNCHANGED <<queueVars, callVars, ctxDone, workVars, curr, subscriptions, rem, subVars, crash>>

\* After the broadcast bind returns on a final status, else selects again.
BindNext(t) ==
  /\ bind[t] = "broadcast"
  /\ rem[t] = {}
  /\ bind' = [bind EXCEPT ![t] = IF curr[t] \in Terminal THEN "return" ELSE "select"]
  /\ UNCHANGED <<queueVars, callVars, ctxDone, workVars, curr, subscriptions, rem, subVars, crash>>

\* The deferred function locks the parent's mutex; without a parent it panics.
BindLock(t) ==
  /\ bind[t] = "return"
  /\ IF "w" \notin Made THEN Crash("nilParent") ELSE
     /\ ~WriteLocked
     /\ bind' = [bind EXCEPT ![t] = "locking"]
     /\ UNCHANGED <<queueVars, callVars, ctxDone, workVars,
                    curr, subscriptions, rem, subVars, crash>>

\* Mutant of ToClose: the cleanup forgets closeSubscriptions.
ToCloseNothing(t) == {}

\* closeSubscriptions closes what no client has begun to close.
ToClose(t) == subscriptions[t] \ closed

BindCleanup(t) ==
  /\ bind[t] = "locking" /\ ~ReadLocked
  /\ IF ToClose(t) \cap chanClosed # {} THEN Crash("closeOfClosed") ELSE
     /\ closed' = closed \cup ToClose(t)
     /\ chanClosed' = chanClosed \cup ToClose(t)
     /\ states' = states \ {t}
     /\ bind' = [bind EXCEPT ![t] = "exit"]
     /\ UNCHANGED <<idCount, id, done, queue, callVars, ctxDone, workVars,
                    curr, subscriptions, rem, sub, target, buf, last, crash>>

-----------------------------------------------------------------------------
(* The worker goroutine: listen *)

WorkerExit ==
  /\ worker = "select"
  /\ done
  /\ worker' = "exit"
  /\ UNCHANGED <<queueVars, callVars, ctxDone, cur, ran, bindVars, subVars, crash>>

\* A transaction cancelled while it was queued is dropped.
WorkerSkip ==
  /\ worker = "select"
  /\ queue # <<>>
  /\ Head(queue) \in ctxDone
  /\ queue' = Tail(queue)
  /\ UNCHANGED <<idCount, id, done, states, callVars, ctxDone, workVars, bindVars, subVars, crash>>

WorkerTake ==
  /\ worker = "select"
  /\ queue # <<>>
  /\ Head(queue) \notin ctxDone
  /\ queue' = Tail(queue)
  /\ cur' = Head(queue)
  /\ worker' = "lookup"
  /\ UNCHANGED <<idCount, id, done, states, callVars, ctxDone, ran, bindVars, subVars, crash>>

\* w.states[val.Id], read without statesMu: the runtime may detect the race and
\* end the process; a state that bind has removed is a nil pointer.
WorkerLookup ==
  /\ worker = "lookup"
  /\ IF cur \in states
     THEN /\ worker' = "announce"
          /\ UNCHANGED <<queueVars, callVars, ctxDone, cur, ran, bindVars, subVars, crash>>
     ELSE Crash("nilState")

WorkerLookupRace ==
  /\ worker = "lookup"
  /\ MapBeingWritten
  /\ Crash("mapRace")

\* newSatus <- Processing meets bind; the handler is called next.
WorkerAnnounce ==
  /\ worker = "announce"
  /\ "newSatus" \in Made
  /\ TakeStatus(cur, "Processing")
  /\ worker' = "handle"
  /\ ran' = ran \cup {cur}
  /\ UNCHANGED <<queueVars, callVars, ctxDone, cur, subscriptions, subVars, crash>>

\* The handler returns, with or without an error.
WorkerReturn ==
  /\ worker = "handle"
  /\ worker' = "report"
  /\ UNCHANGED <<queueVars, callVars, ctxDone, cur, ran, bindVars, subVars, crash>>

\* Mutant of WorkerReport: the second status message is not sent.
WorkerReportNothing ==
  /\ worker = "report"
  /\ worker' = "select"
  /\ cur' = NoTx
  /\ UNCHANGED <<queueVars, callVars, ctxDone, ran, bindVars, subVars, crash>>

\* newSatus <- Done meets bind.
WorkerReport ==
  /\ worker = "report"
  /\ "newSatus" \in Made
  /\ TakeStatus(cur, "Done")
  /\ worker' = "select"
  /\ cur' = NoTx
  /\ UNCHANGED <<queueVars, callVars, ctxDone, ran, subscriptions, subVars, crash>>

-----------------------------------------------------------------------------
Init ==
  /\ idCount = 0
  /\ id = [t \in Tx |-> 0]
  /\ done = FALSE
  /\ queue = <<>>
  /\ states = {}
  /\ pub = [t \in Tx |-> "idle"]
  /\ closer = "idle"
  /\ ctxDone = {}
  /\ worker = "select"
  /\ cur = NoTx
  /\ ran = {}
  /\ bind = [t \in Tx |-> None]
  /\ curr = [t \in Tx |-> None]
  /\ subscriptions = [t \in Tx |-> {}]
  /\ rem = [t \in Tx |-> {}]
  /\ sub = [s \in Sub |-> "idle"]
  /\ target \in [Sub -> Tx]
  /\ closed = {}
  /\ buf = [s \in Sub |-> None]
  /\ chanClosed = {}
  /\ last = [s \in Sub |-> None]
  /\ crash = "no"

Publish(t)  == PublishLock(t) \/ PublishClosed(t) \/ PublishAccept(t) \/ PublishReject(t)
Bind(t)     == \/ BindCancel(t) \/ BindAbort(t) \/ BindNext(t) \/ BindLock(t) \/ BindCleanup(t)
               \/ \E s \in Sub : BindSend(t, s)
Client(s)   == \/ Subscribe(s) \/ SubscribeMeet(s) \/ SubscribeGiveUp(s)
               \/ Receive(s) \/ ReceiveClosed(s) \/ SubClose(s) \/ SubCloseMeet(s)
Worker      == \/ WorkerExit \/ WorkerSkip \/ WorkerTake \/ WorkerLookup \/ WorkerLookupRace
               \/ WorkerAnnounce \/ WorkerReturn \/ WorkerReport

Next ==
  /\ crash = "no"
  /\ \/ \E t \in Tx : Publish(t) \/ Cancel(t) \/ Bind(t)
     \/ \E s \in Sub : Client(s)
     \/ CloseLock \/ Close
     \/ Worker

Spec == Init /\ [][Next]_vars

(***************************************************************************)
(* Fairness.  A goroutine that can run does run.  A select among several   *)
(* ready channels picks one at random, and statesMu starves no writer:     *)
(* a meeting or a lock that is possible again and again happens (SF).      *)
(* Nobody has to publish, subscribe, read, cancel, give up or close.       *)
(***************************************************************************)
Alive(A) == crash = "no" /\ A

Fairness ==
  /\ \A t \in Tx :
       /\ WF_vars(Alive(PublishClosed(t) \/ PublishAccept(t) \/ PublishReject(t)))
       /\ WF_vars(Alive(BindCancel(t)))
       /\ WF_vars(Alive(BindAbort(t)))
       /\ WF_vars(Alive(BindNext(t)))
       /\ SF_vars(Alive(BindLock(t)))
       /\ WF_vars(Alive(BindCleanup(t)))
       /\ \A s \in Sub : WF_vars(Alive(BindSend(t, s)))
  /\ WF_vars(Alive(Close))
  /\ WF_vars(Alive(WorkerExit \/ WorkerSkip \/ WorkerTake))
  /\ WF_vars(Alive(WorkerLookup))
  /\ SF_vars(Alive(WorkerAnnounce))
  /\ WF_vars(Alive(WorkerReturn))
  /\ SF_vars(Alive(WorkerReport))
  /\ \A s \in Sub :
       /\ SF_vars(Alive(SubscribeMeet(s)))
       /\ SF_vars(Alive(SubCloseMeet(s)))

FairSpec == Spec /\ Fairness

-----------------------------------------------------------------------------
(***************************************************************************)
(* Safety                                                                  *)
(***************************************************************************)

\* Every variable ranges over what the Go types and the program counters allow.
TypeOK ==
  /\ idCount \in Nat
  /\ id \in [Tx -> Nat]
  /\ done \in BOOLEAN
  /\ queue \in Seq(Tx) /\ Len(queue) <= Cap
  /\ states \subseteq Tx
  /\ pub \in [Tx -> {"idle", "locking", "noop", "accepted", "rejected"}]
  /\ closer \in {"idle", "locking", "returned"}
  /\ ctxDone \subseteq Tx
  /\ worker \in {"select", "lookup", "announce", "handle", "report", "exit"}
  /\ cur \in Tx \cup {NoTx}
  /\ ran \subseteq Tx
  /\ bind \in [Tx -> {None, "select", "broadcast", "return", "locking", "exit"}]
  /\ curr \in [Tx -> Status \cup {None}]
  /\ subscriptions \in [Tx -> SUBSET Sub]
  /\ rem \in [Tx -> SUBSET Sub]
  /\ sub \in [Sub -> {"idle", "nil", "notFound", "offering", "ctxErr",
                      "open", "ended", "closing", "closed"}]
  /\ target \in [Sub -> Tx]
  /\ closed \subseteq Sub
  /\ buf \in [Sub -> Status \cup {None}]
  /\ chanClosed \subseteq Sub
  /\ last \in [Sub -> Status \cup {None}]
  /\ crash \in {"no", "nilParent", "nilState", "mapRace", "sendOnClosed", "closeOfClosed"}

\* No interleaving of broadcast, Subscription.Close and closeSubscriptions sends
\* on a closed channel or closes a channel twice: the closed flag and the
\* hand-over through delSub decide who closes (inmem/work_queue.go:157-177, 257).
NoChannelPanic == crash \notin {"sendOnClosed", "closeOfClosed"}

\* "runs transactions synchronously using only one worker" as the subscribers
\* see it: a transaction that reports Processing is the one the worker holds,
\* between its two status messages (inmem/work_queue.go:18-20, 64-72).
OneAtATime ==
  \A t \in Tx : curr[t] = "Processing" => cur = t /\ worker \in {"handle", "report"}

\* The handler is called only for transactions whose publisher was told they
\* are queued, and a transaction that ran is never reported as cancelled
\* "before it got a chance to run" (work_queue.go:21-26).
RanIffPromised ==
  \A t \in ran : pub[t] = "accepted" /\ curr[t] \in {"Processing", "Done"}

\* Ids are handed out and the queue is filled under one lock hold, so the worker
\* runs transactions in the order of their ids, and none twice.
RunsInIdOrder ==
  [][ worker = "announce" /\ worker' = "handle" => \A u \in ran : id[u] < id[cur] ]_vars

Rank == [none |-> 0, Queued |-> 1, Processing |-> 2, Done |-> 3, Cancelled |-> 3]

\* A subscriber sees the statuses of its transaction strictly advance, none
\* twice, none before it happened, and the final one as it was.
StreamOrdered ==
  \A s \in Sub :
    LET now == curr[target[s]] IN
    /\ Rank[last[s]] <= Rank[now]
    /\ last[s] \in Terminal => last[s] = now
    /\ buf[s] # None => /\ Rank[last[s]] < Rank[buf[s]]
                        /\ Rank[buf[s]] <= Rank[now]
                        /\ buf[s] \in Terminal => buf[s] = now

\* Nobody is left reading a channel whose goroutine is gone: when bind has
\* returned, the channel of every client still reading is closed
\* (inmem/work_queue.go:182-183).
NoOrphanedReader ==
  \A s \in Sub : sub[s] = "open" /\ bind[target[s]] = "exit" => s \in chanClosed

\* What the client of a channel that bind closed finds last in it.
Reason(s) == IF buf[s] = None THEN last[s] ELSE buf[s]
ClosedByState(s) == s \in chanClosed /\ sub[s] \in {"open", "ended"}

\* "When the channel is closed the previous status will indicate why."
\* (inmem/work_queue.go:164)
ClosedSaysWhy == \A s \in Sub : ClosedByState(s) => Reason(s) \in Terminal

\* The same while nobody cancels the transaction: only then does no broadcast
\* stop half-way.
UncancelledSaysWhy ==
  \A s \in Sub : ClosedByState(s) /\ target[s] \notin ctxDone => Reason(s) = "Done"

\* The unlocked look-up of the worker misses a state only if the transaction was
\* cancelled between the check of its context and the look-up.
NilStateOnlyByCancel == crash = "nilState" => cur \in ctxDone

\* The publish call is "inheritedly race safe" (http/work_queue.go:104-105): the
\* runtime never meets a map access that races with a map write.
NoMapRace == crash # "mapRace"

\* The context is "used to cancel the transaction" (work_queue.go:35): cancelling
\* does not bring the process down.
CancelIsSafe == crash # "nilParent"

-----------------------------------------------------------------------------
(***************************************************************************)
(* The work queue implements the life cycle of TransactionLifecycle: its   *)
(* status is the one bind keeps, its number the Id, and a subscriber has   *)
(* seen what its client read last.                                         *)
(***************************************************************************)
Lifecycle == INSTANCE TransactionLifecycle
             WITH status <- curr, number <- id, topic <- target, seen <- last

\* One transaction at a time, in publication order, Queued to Processing to Done
\* or Queued to Cancelled, and every stream a subsequence of that
\* (work_queue.go:5-27, 39-63).
ImplementsLifecycle == Lifecycle!Spec

-----------------------------------------------------------------------------
(***************************************************************************)
(* Liveness, under FairSpec                                                *)
(***************************************************************************)
Crashed == crash # "no"

\* "you publish your transaction to run in the future" (work_queue.go:49): an
\* accepted transaction that nobody cancels is done some day, unless the queue
\* is closed or the process dies.
AcceptedRuns ==
  \A t \in Tx : pub[t] = "accepted" ~> \/ curr[t] = "Done" \/ t \in ctxDone
                                       \/ done \/ Crashed

\* What the code does promise: the same while every client that has something to
\* read reads it some day, and nobody cancels any transaction.
ReadersKeepUp == \A s \in Sub : []<>(buf[s] = None)
AcceptedRunsUndisturbed ==
  ReadersKeepUp =>
    \A t \in Tx : pub[t] = "accepted" ~> \/ curr[t] = "Done" \/ ctxDone # {}
                                         \/ done \/ Crashed

\* A transaction cancelled while its handler runs is reported Done whatever its
\* subscribers do: the cancelled context releases a broadcast that waits for a
\* subscriber which stopped reading (inmem/work_queue.go:246-254).
CancelReleasesWorker ==
  \A t \in Tx : worker = "handle" /\ cur = t /\ t \in ctxDone ~> curr[t] = "Done" \/ Crashed

\* Subscription.Close "closes the subscription" (inmem/work_queue.go:169): the
\* call returns.
SubCloseReturns == \A s \in Sub : sub[s] = "closing" ~> sub[s] = "closed" \/ Crashed

\* The state is "responsible for [...] closing them when the transaction is
\* complete" (inmem/work_queue.go:182-183): bind gets to its cleanup.
CleanupHappens == \A t \in Tx : bind[t] = "return" ~> bind[t] = "exit" \/ Crashed

\* "if the work queue is full it returns an error" (inmem/work_queue.go:77-78):
\* Publish never waits for ever.
PublishReturns == \A t \in Tx : pub[t] = "locking" ~> pub[t] # "locking" \/ Crashed
=============================================================================
