---------------------------- MODULE ServerProofs ----------------------------
(***************************************************************************)
(* Machine-checked theorems about Server, for any set of requests and      *)
(* whether or not NewServer makes the map.                                 *)
(***************************************************************************)
EXTENDS Server, TLAPS

\* Whoever is in Shutdown or past it found the flag and has closed the listeners.
CloseInv ==
  /\ closed => ~listening
  /\ \A c \in Closer : call[c] \in {"shutdown", "queue"} => closed
  /\ wqClosed => closed
  /\ (wqClosed \/ \E c \in Closer : call[c] = "queue") => \A r \in Req : ~Active(r)

\* A transaction that is to be registered was taken by the queue and has its id.
PushInv == \A p \in Push : pc[p] \in {"register", "writing", "answered"} => number[p] > 0

\* transactionMu is held by one DELETE.  An entry is there only from its registration
\* on, and who found it under the lock still has it; what got a 204 is never entered
\* again.
CancelInv ==
  /\ \A p \in cancels : pc[p] \in {"writing", "answered"}
  /\ \A d, e \in Delete : pc[d] \in {"locked", "found"} /\ pc[e] \in {"locked", "found"} => d = e
  /\ \A d \in Delete :
       /\ pc[d] = "found" => names[d] \in cancels
       /\ pc[d] = "noContent" => /\ names[d] \notin cancels
                                 /\ pc[names[d]] \in {"writing", "answered"}

IInv == TypeOK /\ CloseInv /\ PushInv /\ CancelInv /\ OneCancel /\ LiveIsCancellable

-----------------------------------------------------------------------------
LEMMA TypePreserved == TypeOK /\ [Next]_vars => TypeOK'
<1> SUFFICES ASSUME TypeOK, [Next]_vars PROVE TypeOK'
  OBVIOUS
<1> USE DEF TypeOK, Req, Closer, Step, closeVars, queueVars, lifeVars
<1>1. ASSUME NEW r \in Req, Arrive(r) \/ Middleware(r) PROVE TypeOK'
  BY <1>1 DEF Arrive, Middleware, TokenValid, TokenInvalid, Abort, Invalid, Final
<1>2. ASSUME NEW p \in Push, PushStep(p) \/ RegisterRace(p) \/ ClientGone(p) PROVE TypeOK'
  <2>1. CASE PublishTaken(p)
    <3>1. CASE wqClosed
      BY <2>1, <3>1 DEF PublishTaken
    <3>2. CASE ~wqClosed
      BY <2>1, <3>2 DEF PublishTaken, Enqueue, Queue!Publish
    <3> QED
      BY <3>1, <3>2
  <2>2. CASE PublishFull(p)
    BY <2>2 DEF PublishFull, Enqueue, Queue!Publish
  <2>3. CASE Register(p) \/ Return(p) \/ RegisterRace(p) \/ ClientGone(p)
    BY <2>3 DEF Register, Return, RegisterRace, ClientGone, Final
  <2> QED
    BY <1>2, <2>1, <2>2, <2>3 DEF PushStep
<1>3. ASSUME NEW p \in Push, QueueStep(p) PROVE TypeOK'
  BY <1>3 DEF QueueStep, Start, Finish, Cancelled, Queue!Start, Queue!Finish, Queue!Cancel
<1>4. ASSUME NEW d \in Delete, DeleteLock(d) \/ DeleteStep(d) PROVE TypeOK'
  BY <1>4 DEF DeleteLock, DeleteStep, DeleteLookup, DeleteCancel, Final
<1>5. ASSUME NEW w \in Watch, WatchStep(w) \/ StopStreaming(w) \/ Leave(w) PROVE TypeOK'
  BY <1>5 DEF WatchStep, Subscribe, Upgrade, UpgradeFails, StopStreaming, Leave, Final, Hijacked
<1>6. ASSUME NEW w \in Watch, Send(w) PROVE TypeOK'
  BY <1>6 DEF Send, Queue!Observe, Queue!Passed
<1>7. CASE OwnerCloses
  BY <1>7 DEF OwnerCloses
<1>8. ASSUME NEW c \in Closer, CloseStep(c) PROVE TypeOK'
  <2>1. CASE CloseBegin(c)
    BY <2>1 DEF CloseBegin
  <2>2. CASE ShutdownDone(c) \/ ShutdownTimeout(c) \/ CloseQueue(c)
    BY <2>2 DEF ShutdownDone, ShutdownTimeout, CloseQueue
  <2> QED
    BY <1>8, <2>1, <2>2 DEF CloseStep
<1>9. CASE UNCHANGED vars
  BY <1>9 DEF vars
<1> QED
  BY <1>1, <1>2, <1>3, <1>4, <1>5, <1>6, <1>7, <1>8, <1>9 DEF Next

\* While somebody is past the wait of Shutdown no request can become active: the
\* listeners are closed, and only an accepted connection starts a handler.
LEMMA ClosePreserved == TypeOK /\ CloseInv /\ [Next]_vars => CloseInv'
<1> SUFFICES ASSUME TypeOK, CloseInv, [Next]_vars PROVE CloseInv'
  OBVIOUS
<1> USE DEF TypeOK, CloseInv, Req, Closer, Step, closeVars, queueVars, Active, Final, Hijacked
<1>1. ASSUME NEW r \in Req, Arrive(r) \/ Middleware(r) PROVE CloseInv'
  BY <1>1 DEF Arrive, Middleware, TokenValid, TokenInvalid, Abort, Invalid
<1>2. ASSUME NEW p \in Push, PushStep(p) \/ RegisterRace(p) \/ ClientGone(p) PROVE CloseInv'
  BY <1>2 DEF PushStep, PublishTaken, PublishFull, Register, Return, RegisterRace, ClientGone
<1>3. ASSUME NEW p \in Push, QueueStep(p) PROVE CloseInv'
  BY <1>3 DEF QueueStep, Start, Finish, Cancelled
<1>4. ASSUME NEW d \in Delete, DeleteLock(d) \/ DeleteStep(d) PROVE CloseInv'
  BY <1>4 DEF DeleteLock, DeleteStep, DeleteLookup, DeleteCancel
<1>5. ASSUME NEW w \in Watch, WatchStep(w) \/ Send(w) \/ StopStreaming(w) \/ Leave(w) PROVE CloseInv'
  BY <1>5 DEF WatchStep, Subscribe, Upgrade, UpgradeFails, Send, StopStreaming, Leave
<1>6. CASE OwnerCloses \/ \E c \in Closer : CloseStep(c)
  BY <1>6 DEF OwnerCloses, CloseStep, CloseBegin, ShutdownDone, ShutdownTimeout, CloseQueue
<1>7. CASE UNCHANGED vars
  BY <1>7 DEF vars
<1> QED
  BY <1>1, <1>2, <1>3, <1>4, <1>5, <1>6, <1>7 DEF Next

\* Publish is met by an open queue, QueueClosedLast says, and so gives a number.
LEMMA PushPreserved == TypeOK /\ CloseInv /\ PushInv /\ [Next]_vars => PushInv'
<1> SUFFICES ASSUME TypeOK, CloseInv, PushInv, [Next]_vars PROVE PushInv'
  OBVIOUS
<1> USE ServerAssumption DEF TypeOK, PushInv, Req, Step, closeVars, queueVars, lifeVars
<1>1. ASSUME NEW r \in Req, Arrive(r) \/ Middleware(r) PROVE PushInv'
  BY <1>1 DEF Arrive, Middleware, TokenValid, TokenInvalid, Abort, Invalid
<1>2. ASSUME NEW p \in Push, PushStep(p) \/ RegisterRace(p) \/ ClientGone(p) PROVE PushInv'
  <2>1. CASE PublishTaken(p)
    <3>1. ~wqClosed
      BY <2>1 DEF PublishTaken, CloseInv, Active, Final, Hijacked
    <3>2. number'[p] > 0 /\ \A q \in Push \ {p} : number'[q] = number[q] /\ pc'[q] = pc[q]
      BY <2>1, <3>1 DEF PublishTaken, Enqueue, Queue!Publish
    <3> QED
      BY <3>2
  <2>2. CASE PublishFull(p)
    <3>1. \A q \in Push \ {p} : number'[q] = number[q] /\ pc'[q] = pc[q]
      BY <2>2 DEF PublishFull, Enqueue, Queue!Publish
    <3> QED
      BY <2>2, <3>1 DEF PublishFull
  <2>3. CASE Register(p) \/ Return(p) \/ RegisterRace(p) \/ ClientGone(p)
    BY <2>3 DEF Register, Return, RegisterRace, ClientGone
  <2> QED
    BY <1>2, <2>1, <2>2, <2>3 DEF PushStep
<1>3. ASSUME NEW p \in Push, QueueStep(p) PROVE PushInv'
  BY <1>3 DEF QueueStep, Start, Finish, Cancelled, Queue!Start, Queue!Finish, Queue!Cancel
<1>4. ASSUME NEW d \in Delete, DeleteLock(d) \/ DeleteStep(d) PROVE PushInv'
  BY <1>4 DEF DeleteLock, DeleteStep, DeleteLookup, DeleteCancel
<1>5. ASSUME NEW w \in Watch, WatchStep(w) \/ Send(w) \/ StopStreaming(w) \/ Leave(w) PROVE PushInv'
  BY <1>5 DEF WatchStep, Subscribe, Upgrade, UpgradeFails, Send, Queue!Observe, StopStreaming, Leave
<1>6. CASE OwnerCloses \/ \E c \in Closer : CloseStep(c)
  BY <1>6 DEF OwnerCloses, CloseStep, CloseBegin, ShutdownDone, ShutdownTimeout, CloseQueue
<1>7. CASE UNCHANGED vars
  BY <1>7 DEF vars
<1> QED
  BY <1>1, <1>2, <1>3, <1>4, <1>5, <1>6, <1>7 DEF Next

\* The entry of a transaction is removed under the lock by the one DELETE that found
\* it, and its request never gets back to the step that writes it.
LEMMA CancelPreserved == TypeOK /\ CancelInv /\ [Next]_vars => CancelInv'
<1> SUFFICES ASSUME TypeOK, CancelInv, [Next]_vars PROVE CancelInv'
  OBVIOUS
<1> USE ServerAssumption DEF TypeOK, CancelInv, Req, Step, closeVars, queueVars, lifeVars
<1>1. ASSUME NEW r \in Req, Arrive(r) \/ Middleware(r) PROVE CancelInv'
  BY <1>1 DEF Arrive, Middleware, TokenValid, TokenInvalid, Abort, Invalid
<1>2. ASSUME NEW p \in Push, PushStep(p) \/ RegisterRace(p) \/ ClientGone(p) PROVE CancelInv'
  <2>1. CASE PublishTaken(p) \/ PublishFull(p)
    BY <2>1 DEF PublishTaken, PublishFull
  <2>2. CASE Register(p)
    BY <2>2 DEF Register
  <2>3. CASE Return(p) \/ RegisterRace(p) \/ ClientGone(p)
    BY <2>3 DEF Return, RegisterRace, ClientGone
  <2> QED
    BY <1>2, <2>1, <2>2, <2>3 DEF PushStep
<1>3. ASSUME NEW p \in Push, QueueStep(p) PROVE CancelInv'
  BY <1>3 DEF QueueStep, Start, Finish, Cancelled
<1>4. ASSUME NEW d \in Delete, DeleteLock(d) \/ DeleteStep(d) PROVE CancelInv'
  <2>1. CASE DeleteLock(d)
    BY <2>1 DEF DeleteLock, MutexFree
  <2>2. CASE DeleteLookup(d)
    BY <2>2 DEF DeleteLookup
  <2>3. CASE DeleteCancel(d)
    BY <2>3 DEF DeleteCancel
  <2> QED
    BY <1>4, <2>1, <2>2, <2>3 DEF DeleteStep
<1>5. ASSUME NEW w \in Watch, WatchStep(w) \/ Send(w) \/ StopStreaming(w) \/ Leave(w) PROVE CancelInv'
  BY <1>5 DEF WatchStep, Subscribe, Upgrade, UpgradeFails, Send, StopStreaming, Leave
<1>6. CASE OwnerCloses \/ \E c \in Closer : CloseStep(c)
  BY <1>6 DEF OwnerCloses, CloseStep, CloseBegin, ShutdownDone, ShutdownTimeout, CloseQueue
<1>7. CASE UNCHANGED vars
  BY <1>7 DEF vars
<1> QED
  BY <1>1, <1>2, <1>3, <1>4, <1>5, <1>6, <1>7 DEF Next

\* The second DELETE that would get a 204 has found, under the lock, an entry that the
\* first one has removed.
LEMMA OneCancelPreserved == TypeOK /\ CancelInv /\ OneCancel /\ [Next]_vars => OneCancel'
<1> SUFFICES ASSUME TypeOK, CancelInv, OneCancel, [Next]_vars PROVE OneCancel'
  OBVIOUS
<1> USE ServerAssumption DEF TypeOK, CancelInv, OneCancel, Req, Step, closeVars, queueVars, lifeVars
<1>1. ASSUME NEW d \in Delete, DeleteCancel(d) PROVE OneCancel'
  BY <1>1 DEF DeleteCancel
<1>2. CASE names' = names /\ \A d \in Delete : pc'[d] = "noContent" => pc[d] = "noContent"
  BY <1>2
<1>3. ASSUME NEW r \in Req, Arrive(r) \/ Middleware(r) PROVE OneCancel'
  BY <1>2, <1>3 DEF Arrive, Middleware, TokenValid, TokenInvalid, Abort, Invalid
<1>4. ASSUME NEW p \in Push, PushStep(p) \/ RegisterRace(p) \/ ClientGone(p) \/ QueueStep(p) PROVE OneCancel'
  BY <1>2, <1>4 DEF PushStep, PublishTaken, PublishFull, Register, Return, RegisterRace, ClientGone,
                    QueueStep, Start, Finish, Cancelled
<1>5. ASSUME NEW d \in Delete, DeleteLock(d) \/ DeleteLookup(d) PROVE OneCancel'
  BY <1>2, <1>5 DEF DeleteLock, DeleteLookup
<1>6. ASSUME NEW w \in Watch, WatchStep(w) \/ Send(w) \/ StopStreaming(w) \/ Leave(w) PROVE OneCancel'
  BY <1>2, <1>6 DEF WatchStep, Subscribe, Upgrade, UpgradeFails, Send, StopStreaming, Leave
<1>7. CASE OwnerCloses \/ \E c \in Closer : CloseStep(c)
  BY <1>2, <1>7 DEF OwnerCloses, CloseStep, CloseBegin, ShutdownDone, ShutdownTimeout, CloseQueue
<1>8. CASE UNCHANGED vars
  BY <1>2, <1>8 DEF vars
<1> QED
  BY <1>1, <1>3, <1>4, <1>5, <1>6, <1>7, <1>8 DEF Next, DeleteStep

\* A cancel function leaves the map only together with a cancel, and a handler that
\* does not get to enter it panics, which cancels the context of its request.
LEMMA LivePreserved == TypeOK /\ CancelInv /\ LiveIsCancellable /\ [Next]_vars => LiveIsCancellable'
<1> SUFFICES ASSUME TypeOK, CancelInv, LiveIsCancellable, [Next]_vars PROVE LiveIsCancellable'
  OBVIOUS
<1> USE ServerAssumption DEF TypeOK, CancelInv, LiveIsCancellable, Req, Step, closeVars, queueVars
<1>1. ASSUME NEW r \in Req, Arrive(r) \/ Middleware(r) PROVE LiveIsCancellable'
  BY <1>1 DEF Arrive, Middleware, TokenValid, TokenInvalid, Abort, Invalid
<1>2. ASSUME NEW p \in Push, PushStep(p) \/ RegisterRace(p) \/ ClientGone(p) PROVE LiveIsCancellable'
  <2>1. CASE PublishTaken(p) \/ PublishFull(p)
    BY <2>1 DEF PublishTaken, PublishFull
  <2>2. CASE Register(p)
    BY <2>2 DEF Register
  <2>3. CASE Return(p) \/ RegisterRace(p) \/ ClientGone(p)
    BY <2>3 DEF Return, RegisterRace, ClientGone
  <2> QED
    BY <1>2, <2>1, <2>2, <2>3 DEF PushStep
<1>3. ASSUME NEW p \in Push, QueueStep(p) PROVE LiveIsCancellable'
  BY <1>3 DEF QueueStep, Start, Finish, Cancelled
<1>4. ASSUME NEW d \in Delete, DeleteLock(d) \/ DeleteStep(d) PROVE LiveIsCancellable'
  BY <1>4 DEF DeleteLock, DeleteStep, DeleteLookup, DeleteCancel
<1>5. ASSUME NEW w \in Watch, WatchStep(w) \/ Send(w) \/ StopStreaming(w) \/ Leave(w)
      PROVE  LiveIsCancellable'
  BY <1>5 DEF WatchStep, Subscribe, Upgrade, UpgradeFails, Send, StopStreaming, Leave
<1>6. CASE OwnerCloses \/ \E c \in Closer : CloseStep(c)
  BY <1>6 DEF OwnerCloses, CloseStep, CloseBegin, ShutdownDone, ShutdownTimeout, CloseQueue
<1>7. CASE UNCHANGED vars
  BY <1>7 DEF vars
<1> QED
  BY <1>1, <1>2, <1>3, <1>4, <1>5, <1>6, <1>7 DEF Next

-----------------------------------------------------------------------------
LEMMA Inductive == Spec => []IInv
<1>t. Init => TypeOK
  <2> SUFFICES ASSUME Init PROVE TypeOK
    OBVIOUS
  <2>1. /\ status \in [Push -> {"none", "Queued", "Processing", "Done", "Cancelled"}]
        /\ number \in [Push -> Nat] /\ topic \in [Watch -> Push]
        /\ seen \in [Watch -> {"none", "Queued", "Processing", "Done", "Cancelled"}]
    BY DEF Init, Queue!Init
  <2> QED
    BY <2>1 DEF Init, TypeOK
<1>1. Init => IInv
  <2> SUFFICES ASSUME Init PROVE CloseInv /\ PushInv /\ CancelInv /\ OneCancel /\ LiveIsCancellable
    BY <1>t DEF IInv
  <2>1. CloseInv
    BY DEF Init, CloseInv
  <2>2. PushInv /\ CancelInv /\ OneCancel /\ LiveIsCancellable
    BY DEF Init, PushInv, CancelInv, OneCancel, LiveIsCancellable, Req
  <2> QED
    BY <2>1, <2>2
<1>2. IInv /\ [Next]_vars => IInv'
  BY TypePreserved, ClosePreserved, PushPreserved, CancelPreserved, OneCancelPreserved, LivePreserved
     DEF IInv
<1> QED
  BY <1>1, <1>2, PTL DEF Spec

\* Flags, contexts and places keep their types, whoever closes the server when.
THEOREM TypeCorrect == Spec => []TypeOK
<1>1. IInv => TypeOK
  BY DEF IInv
<1> QED
  BY <1>1, Inductive, PTL

\* The work queue is closed only when no handler is left that could publish or subscribe,
\* however many calls of Close there are and from wherever they come
\* (http/server.go:111-135).
THEOREM ClosedLast == Spec => []QueueClosedLast
<1>1. IInv => QueueClosedLast
  BY DEF IInv, CloseInv, QueueClosedLast
<1> QED
  BY <1>1, Inductive, PTL

\* A transaction that is answered has its id: no handler meets the closed queue, whose
\* Publish gives none and no error (http/work_queue.go:107-119).
THEOREM IdPopulated == Spec => []PopulatedId
<1>1. IInv => PopulatedId
  BY DEF IInv, PushInv, PopulatedId
<1> QED
  BY <1>1, Inductive, PTL

\* One 204 for a transaction, however many DELETEs name it (http/work_queue.go:84-100).
THEOREM CancelledOnce == Spec => []OneCancel
<1>1. IInv => OneCancel
  BY DEF IInv
<1> QED
  BY <1>1, Inductive, PTL

\* What the queue took and nobody cancelled can be cancelled by its id, but for the
\* moment between Publish and its entry (http/work_queue.go:84-119).
THEOREM LiveCancellable == Spec => []LiveIsCancellable
<1>1. IInv => LiveIsCancellable
  BY DEF IInv
<1> QED
  BY <1>1, Inductive, PTL
=============================================================================
