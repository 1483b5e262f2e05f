-------------------------- MODULE WorkQueueRefines --------------------------
(***************************************************************************)
(* The work queue implements TransactionLifecycle, for every value of its  *)
(* constants.  Every step of WorkQueue is a step of the life cycle of one  *)
(* transaction or of one subscriber, or changes nothing either can see.    *)
(***************************************************************************)
EXTENDS WorkQueueProofs

\* Every step is a step of the life cycle, or a stutter.
LEMMA StepRefines == IInv /\ [Next]_vars => [Lifecycle!Next]_(Lifecycle!vars)
<1> SUFFICES ASSUME IInv, [Next]_vars
             PROVE  Lifecycle!Next \/ UNCHANGED Lifecycle!vars
  OBVIOUS
<1> USE DEF Lifecycle!Next, Lifecycle!vars, Crash, liveVars,
            queueVars, callVars, workVars, bindVars, subVars
\* Publish hands out an id above all others, whether it queues or rejects.
<1>p. ASSUME NEW t \in Tx, PublishAccept(t) \/ PublishReject(t)
      PROVE  Lifecycle!Publish(t)
  <2> USE <1>p
  <2> USE DEF IInv, TypeOK, PublishInv, Unpublished, None
  <2>1. /\ pub[t] = "locking"
        /\ id' = [id EXCEPT ![t] = idCount + 1]
        /\ curr' = [curr EXCEPT ![t] = "Queued"]
        /\ UNCHANGED <<target, last>>
    BY DEF PublishAccept, PublishReject, Register, subVars
  <2>2. curr[t] = "none" /\ id'[t] = idCount + 1
    BY <2>1
  <2>3. ASSUME NEW u \in Tx PROVE id[u] < idCount + 1
    <3>1. idCount \in Nat /\ id[u] \in Nat
      OBVIOUS
    <3>2. id[u] = 0 \/ id[u] <= idCount
      OBVIOUS
    <3> QED
      BY <3>1, <3>2
  <2> QED
    BY <2>1, <2>2, <2>3, idCount + 1 \in Nat DEF Lifecycle!Publish
\* The first status message starts the one transaction in hand.
<1>a. ASSUME WorkerAnnounce
      PROVE  cur \in Tx /\ Lifecycle!Start(cur)
  <2> USE <1>a
  <2>1. /\ cur \in Tx /\ cur \notin ran /\ worker = "announce"
        /\ bind[cur] = "select"
        /\ curr' = [curr EXCEPT ![cur] = "Processing"]
        /\ UNCHANGED <<id, target, last>>
    BY DEF IInv, TypeOK, HandInv, WorkerInv, WorkerAnnounce, TakeStatus, queueVars, subVars
  <2>2. curr[cur] = "Queued"
    BY <2>1 DEF IInv, WorkerInv
  <2>3. ASSUME NEW u \in Tx, Lifecycle!Started(u)
        PROVE  curr[u] = "Done" /\ id[u] < id[cur]
    <3>1. u \in ran
      BY <2>3 DEF IInv, WorkerInv, Lifecycle!Started
    <3>2. curr[u] # "Processing"
      BY <2>1 DEF IInv, WorkerInv, OneAtATime
    <3> QED
      BY <2>1, <2>3, <3>1, <3>2 DEF IInv, QueueInv, Lifecycle!Started
  <2> QED
    BY <2>1, <2>2, <2>3 DEF Lifecycle!Start
\* The second status message finishes it.
<1>r. ASSUME WorkerReport
      PROVE  cur \in Tx /\ Lifecycle!Finish(cur)
  BY <1>r DEF IInv, TypeOK, HandInv, WorkerInv, WorkerReport, TakeStatus,
              queueVars, subVars, Lifecycle!Finish
\* Only a transaction that waits is cancelled.
<1>c. ASSUME NEW t \in Tx, BindCancel(t)
      PROVE  Lifecycle!Cancel(t)
  BY <1>c DEF IInv, WorkerInv, BindCancel, MayCancel, TakeStatus,
              queueVars, subVars, Lifecycle!Cancel
\* What a client reads is a status its transaction passed through.
<1>o. ASSUME NEW s \in Sub, Receive(s)
      PROVE  Lifecycle!Observe(s)
  <2> USE <1>o
  <2> DEFINE now == curr[target[s]]
  <2>1. /\ buf[s] \in Status /\ target[s] \in Tx
        /\ last' = [last EXCEPT ![s] = buf[s]]
        /\ UNCHANGED <<curr, id, target>>
    BY DEF IInv, TypeOK, Receive, None, queueVars, bindVars
  <2>2. /\ Rank[last[s]] < Rank[buf[s]]
        /\ Rank[buf[s]] <= Rank[now]
        /\ buf[s] \in Terminal => buf[s] = now
        /\ buf[s] = "Processing" => now \in {"Processing", "Done"}
    BY <2>1 DEF IInv, StreamInv, StreamOrdered, WorkerInv, Receive
  <2>3. now \in Status \cup {"none"}
    BY <2>1 DEF IInv, TypeOK, None
  <2>4. buf[s] \in Lifecycle!Passed(target[s])
    BY <2>1, <2>2, <2>3 DEF Lifecycle!Passed, Rank, Status, Terminal
  <2> QED
    BY <2>1, <2>2, <2>4 DEF Lifecycle!Observe, Lifecycle!Rank, Rank
<1>1. ASSUME NEW t \in Tx, Publish(t) \/ Cancel(t)
      PROVE  Lifecycle!Next \/ UNCHANGED Lifecycle!vars
  BY <1>1, <1>p DEF Publish, PublishLock, PublishClosed, Cancel
<1>2. ASSUME NEW t \in Tx, Bind(t)
      PROVE  Lifecycle!Next \/ UNCHANGED Lifecycle!vars
  BY <1>2, <1>c DEF Bind, BindAbort, BindNext, BindLock, BindCleanup, BindSend
<1>3. ASSUME NEW s \in Sub, Client(s)
      PROVE  Lifecycle!Next \/ UNCHANGED Lifecycle!vars
  BY <1>3, <1>o DEF Client, Subscribe, SubscribeMeet, SubscribeGiveUp,
                              ReceiveClosed, SubClose, SubCloseMeet
<1>4. CASE CloseLock \/ Close \/ UNCHANGED vars
  BY <1>4 DEF CloseLock, Close, vars
<1>5. CASE Worker
  BY <1>5, <1>a, <1>r
     DEF Worker, WorkerExit, WorkerSkip, WorkerTake, WorkerLookup,
         WorkerLookupRace, WorkerReturn
<1> QED
  BY <1>1, <1>2, <1>3, <1>4, <1>5 DEF Next

\* The work queue keeps what work_queue.go promises of a transaction's life and of
\* the statuses its subscribers see, at any size of the queue and however many
\* publishers, subscribers and cancellations there are.
THEOREM Refinement == Spec => ImplementsLifecycle
<1>i. Init => Lifecycle!Init
  BY DEF Init, None, Lifecycle!Init
<1> QED
  BY <1>i, StepRefines, Inductive, PTL
     DEF Spec, ImplementsLifecycle, Lifecycle!Spec
=============================================================================
