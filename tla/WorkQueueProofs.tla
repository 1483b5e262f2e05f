--------------------------- MODULE WorkQueueProofs ---------------------------
(***************************************************************************)
(* Machine-checked theorems about WorkQueue, for any set of transactions   *)
(* and subscribers, any capacity and any set of fields the state literal   *)
(* makes.                                                                  *)
(***************************************************************************)
EXTENDS WorkQueueInv, TLAPS

\* Taking an element out of one of the sets a function returns.
LEMMA TakeOut ==
  ASSUME NEW A, NEW B, NEW f \in [A -> SUBSET B], NEW a \in A, NEW b
  PROVE  [f EXCEPT ![a] = @ \ {b}] \in [A -> SUBSET B]
<1>1. f[a] \ {b} \in SUBSET B
  OBVIOUS
<1> QED
  BY <1>1

\* Every step keeps the types.
LEMMA TypeStep == TypeOK /\ HandInv /\ [Next]_vars => TypeOK'
<1> SUFFICES ASSUME TypeOK, HandInv, [Next]_vars PROVE TypeOK'
  OBVIOUS
<1> USE ConstantsAssumption
    DEF TypeOK, Status, Terminal, None, Crash, liveVars,
        queueVars, callVars, workVars, bindVars, subVars
<1>1. ASSUME NEW t \in Tx, Publish(t) \/ Cancel(t) PROVE TypeOK'
  <2>1. CASE PublishAccept(t)
    BY <2>1 DEF PublishAccept, Register, HasRoom
  <2>2. CASE PublishReject(t)
    BY <2>2 DEF PublishReject, Register
  <2>3. CASE PublishLock(t)
    BY <2>3 DEF PublishLock
  <2>4. CASE PublishClosed(t)
    BY <2>4 DEF PublishClosed
  <2>5. CASE Cancel(t)
    BY <2>5 DEF Cancel
  <2> QED
    BY <1>1, <2>1, <2>2, <2>3, <2>4, <2>5 DEF Publish
<1>2. ASSUME NEW t \in Tx, Bind(t) PROVE TypeOK'
  <2>1. ASSUME NEW s \in Sub, BindSend(t, s) PROVE TypeOK'
    <3>1. CASE s \in chanClosed
      BY <2>1, <3>1 DEF BindSend
    <3>2. CASE s \notin chanClosed
      <4>1. rem' = [rem EXCEPT ![t] = @ \ {s}]
        BY <2>1, <3>2 DEF BindSend
      <4>2. rem' \in [Tx -> SUBSET Sub]
        BY <4>1, TakeOut
      <4> QED
        BY <2>1, <3>2, <4>2, ZenonT(60) DEF BindSend
    <3> QED
      BY <3>1, <3>2
  <2>2. CASE BindCancel(t)
    BY <2>2 DEF BindCancel, TakeStatus
  <2>3. CASE BindNext(t)
    BY <2>3 DEF BindNext
  <2>4. CASE BindLock(t)
    BY <2>4, ZenonT(60) DEF BindLock
  <2>5. CASE BindAbort(t)
    BY <2>5 DEF BindAbort
  <2>6. CASE BindCleanup(t)
    BY <2>6, ZenonT(60) DEF BindCleanup, ToClose
  <2> QED
    BY <1>2, <2>1, <2>2, <2>3, <2>4, <2>5, <2>6 DEF Bind
<1>3. ASSUME NEW s \in Sub, Client(s) PROVE TypeOK'
  <2>1. CASE SubCloseMeet(s)
    <3>1. CASE s \in chanClosed
      BY <2>1, <3>1 DEF SubCloseMeet
    <3>2. CASE s \notin chanClosed
      <4>1. subscriptions' = [subscriptions EXCEPT ![target[s]] = @ \ {s}]
        BY <2>1, <3>2 DEF SubCloseMeet
      <4>2. subscriptions' \in [Tx -> SUBSET Sub]
        BY <4>1, TakeOut, target[s] \in Tx
      <4>3. /\ chanClosed' \subseteq Sub
            /\ sub' = [sub EXCEPT ![s] = "closed"]
            /\ UNCHANGED <<queueVars, callVars, ctxDone, workVars, bind, curr, rem,
                           target, closed, buf, last, crash>>
        BY <2>1, <3>2 DEF SubCloseMeet
      <4> QED
        BY <4>2, <4>3
    <3> QED
      BY <3>1, <3>2
  <2>2. CASE Subscribe(s)
    BY <2>2 DEF Subscribe
  <2>3. CASE SubscribeGiveUp(s)
    BY <2>3 DEF SubscribeGiveUp
  <2>4. CASE SubscribeMeet(s)
    BY <2>4 DEF SubscribeMeet
  <2>5. CASE Receive(s)
    BY <2>5 DEF Receive
  <2>6. CASE ReceiveClosed(s)
    BY <2>6 DEF ReceiveClosed
  <2>7. CASE SubClose(s)
    BY <2>7 DEF SubClose
  <2> QED
    BY <1>3, <2>1, <2>2, <2>3, <2>4, <2>5, <2>6, <2>7 DEF Client
<1>4. CASE CloseLock \/ Close \/ UNCHANGED vars
  BY <1>4, ZenonT(60) DEF CloseLock, Close, vars
<1>5. CASE Worker
  <2>1. CASE WorkerSkip
    BY <2>1 DEF WorkerSkip
  <2>2. CASE WorkerTake
    BY <2>2 DEF WorkerTake
  <2>3. CASE WorkerAnnounce
    <3>1. cur \in Tx
      BY <2>3 DEF WorkerAnnounce, HandInv
    <3> QED
      BY <2>3, <3>1 DEF WorkerAnnounce, TakeStatus
  <2>4. CASE WorkerReport
    BY <2>4 DEF WorkerReport, TakeStatus
  <2>5. CASE WorkerExit \/ WorkerLookup \/ WorkerLookupRace \/ WorkerReturn
    BY <2>5 DEF WorkerExit, WorkerLookup, WorkerLookupRace, WorkerReturn
  <2> QED
    BY <1>5, <2>1, <2>2, <2>3, <2>4, <2>5 DEF Worker
<1> QED
  BY <1>1, <1>2, <1>3, <1>4, <1>5 DEF Next

\* The worker holds a transaction exactly while it works.
LEMMA HandStep == TypeOK /\ HandInv /\ [Next]_vars => HandInv'
<1> SUFFICES ASSUME TypeOK, HandInv, [Next]_vars PROVE HandInv'
  OBVIOUS
<1> USE ConstantsAssumption
    DEF HandInv, TypeOK, Crash, liveVars,
        queueVars, callVars, workVars, bindVars, subVars
<1>1. ASSUME NEW t \in Tx, Publish(t) \/ Cancel(t) PROVE HandInv'
  BY <1>1 DEF Publish, PublishLock, PublishClosed, PublishAccept, PublishReject, Cancel
<1>2. ASSUME NEW t \in Tx, Bind(t) PROVE HandInv'
  BY <1>2 DEF Bind, BindCancel, BindAbort, BindNext, BindLock, BindCleanup, BindSend
<1>3. ASSUME NEW s \in Sub, Client(s) PROVE HandInv'
  BY <1>3 DEF Client, Subscribe, SubscribeMeet, SubscribeGiveUp, Receive,
              ReceiveClosed, SubClose, SubCloseMeet
<1>4. CASE CloseLock \/ Close \/ UNCHANGED vars
  BY <1>4 DEF CloseLock, Close, vars
<1>5. CASE Worker
  BY <1>5 DEF Worker, WorkerExit, WorkerSkip, WorkerTake, WorkerLookup,
              WorkerLookupRace, WorkerAnnounce, WorkerReturn, WorkerReport
<1> QED
  BY <1>1, <1>2, <1>3, <1>4, <1>5 DEF Next

\* An id, a state and a goroutine come and go together.
LEMMA PublishStep == TypeOK /\ HandInv /\ PublishInv /\ [Next]_vars => PublishInv'
<1> SUFFICES ASSUME TypeOK, HandInv, PublishInv, [Next]_vars PROVE PublishInv'
  OBVIOUS
<1> USE ConstantsAssumption DEF TypeOK, HandInv, PublishInv, Unpublished, Terminal, Status, Crash, liveVars, queueVars, callVars, workVars, bindVars, subVars, None
<1>1. ASSUME NEW t \in Tx, Publish(t) \/ Cancel(t) PROVE PublishInv'
  <2>1. CASE PublishAccept(t)
    BY <2>1 DEF PublishAccept, Register, HasRoom
  <2>2. CASE PublishReject(t)
    BY <2>2 DEF PublishReject, Register
  <2> QED
    BY <1>1, <2>1, <2>2 DEF Publish, PublishLock, PublishClosed, Cancel
<1>2. ASSUME NEW t \in Tx, Bind(t) PROVE PublishInv'
  <2>1. CASE BindCancel(t)
    BY <2>1 DEF BindCancel, TakeStatus, MayCancel
  <2>2. CASE BindNext(t)
    BY <2>2 DEF BindNext
  <2>3. CASE BindLock(t)
    BY <2>3 DEF BindLock
  <2>4. CASE BindCleanup(t)
    BY <2>4 DEF BindCleanup, ToClose
  <2> QED
    BY <1>2, <2>1, <2>2, <2>3, <2>4 DEF Bind, BindAbort, BindSend
<1>3. ASSUME NEW s \in Sub, Client(s) PROVE PublishInv'
  BY <1>3 DEF Client, Subscribe, SubscribeMeet, SubscribeGiveUp, Receive,
          ReceiveClosed, SubClose, SubCloseMeet
<1>4. CASE CloseLock \/ Close \/ UNCHANGED vars
  BY <1>4 DEF vars, CloseLock, Close
<1>5. CASE Worker
  <2>1. CASE WorkerAnnounce
    BY <2>1 DEF WorkerAnnounce, TakeStatus
  <2>2. CASE WorkerReport
    BY <2>2 DEF WorkerReport, TakeStatus
  <2> QED
    BY <1>5, <2>1, <2>2 DEF Worker, WorkerExit, WorkerSkip, WorkerTake,
          WorkerLookup, WorkerLookupRace, WorkerReturn
<1> QED
  BY <1>1, <1>2, <1>3, <1>4, <1>5 DEF Next

\* What the worker holds, what it ran and what bind reports stay in agreement.
LEMMA WorkerStep == TypeOK /\ HandInv /\ PublishInv /\ WorkerInv /\ QueueInv /\ [Next]_vars => WorkerInv'
<1> SUFFICES ASSUME TypeOK, HandInv, PublishInv, WorkerInv, QueueInv, [Next]_vars PROVE WorkerInv'
  OBVIOUS
<1> USE ConstantsAssumption DEF TypeOK, HandInv, PublishInv, Unpublished, WorkerInv, OneAtATime, RanIffPromised, Terminal, Status, Crash, liveVars, queueVars, callVars, workVars, bindVars, subVars, None
<1>1. ASSUME NEW t \in Tx, Publish(t) \/ Cancel(t) PROVE WorkerInv'
  <2>1. CASE PublishLock(t)
    BY <2>1 DEF PublishLock
  <2>2. CASE PublishAccept(t)
    BY <2>2 DEF PublishAccept, Register, HasRoom
  <2>3. CASE PublishReject(t)
    BY <2>3 DEF PublishReject, Register
  <2> QED
    BY <1>1, <2>1, <2>2, <2>3 DEF Publish, PublishClosed, Cancel
<1>2. ASSUME NEW t \in Tx, Bind(t) PROVE WorkerInv'
  <2>1. CASE BindCancel(t)
    BY <2>1 DEF BindCancel, TakeStatus, MayCancel
  <2>2. CASE BindNext(t)
    BY <2>2 DEF BindNext
  <2>3. CASE BindLock(t)
    BY <2>3 DEF BindLock
  <2>4. CASE BindCleanup(t)
    BY <2>4 DEF BindCleanup, ToClose
  <2> QED
    BY <1>2, <2>1, <2>2, <2>3, <2>4 DEF Bind, BindAbort, BindSend
<1>3. ASSUME NEW s \in Sub, Client(s) PROVE WorkerInv'
  BY <1>3 DEF Client, Subscribe, SubscribeMeet, SubscribeGiveUp, Receive,
          ReceiveClosed, SubClose, SubCloseMeet
<1>4. CASE CloseLock \/ Close \/ UNCHANGED vars
  BY <1>4 DEF vars, CloseLock, Close
<1>5. CASE Worker
  <2>1. CASE WorkerTake
    <3>1. /\ queue[1] = Head(queue) /\ 1 \in 1..Len(queue)
          /\ cur' = Head(queue) /\ Head(queue) \in Tx
      BY <2>1 DEF WorkerTake
    <3>2. pub[cur'] = "accepted" /\ cur' \notin ran
      BY <3>1 DEF QueueInv
    <3> QED
      BY <2>1, <3>1, <3>2 DEF WorkerTake
  <2>2. CASE WorkerLookup
    BY <2>2 DEF WorkerLookup
  <2>3. CASE WorkerAnnounce
    BY <2>3 DEF WorkerAnnounce, TakeStatus
  <2>4. CASE WorkerReturn
    BY <2>4 DEF WorkerReturn
  <2>5. CASE WorkerReport
    BY <2>5 DEF WorkerReport, TakeStatus
  <2> QED
    BY <1>5, <2>1, <2>2, <2>3, <2>4, <2>5 DEF Worker, WorkerExit,
          WorkerSkip, WorkerLookupRace
<1> QED
  BY <1>1, <1>2, <1>3, <1>4, <1>5 DEF Next

\* The queue stays sorted by id and behind the worker.
LEMMA QueueStep == TypeOK /\ HandInv /\ PublishInv /\ WorkerInv /\ QueueInv /\ [Next]_vars => QueueInv'
<1> SUFFICES ASSUME TypeOK, HandInv, PublishInv, WorkerInv, QueueInv, [Next]_vars PROVE QueueInv'
  OBVIOUS
<1> USE DEF None, Crash, liveVars, queueVars, callVars, workVars, bindVars, subVars
<1>t. /\ queue \in Seq(Tx) /\ ran \subseteq Tx /\ cur \in Tx \cup {NoTx} /\ NoTx \notin Tx
      /\ id \in [Tx -> Nat] /\ idCount \in Nat
      /\ pub \in [Tx -> {"idle", "locking", "noop", "accepted", "rejected"}]
  BY ConstantsAssumption DEF TypeOK
<1>i. \A i \in 1..Len(queue) : queue[i] \in Tx
  BY <1>t
<1>p. \A u \in Tx : /\ pub[u] \in {"idle", "locking", "noop"} => curr[u] = "none" /\ id[u] = 0
                    /\ id[u] <= idCount
  BY <1>t DEF PublishInv, Unpublished
<1>r. \A u \in ran : u \in Tx /\ pub[u] = "accepted"
  BY <1>t DEF WorkerInv, RanIffPromised
<1>c. cur # NoTx => cur \in Tx /\ pub[cur] \notin {"idle", "locking", "noop"}
  <2>1. ASSUME cur # NoTx
        PROVE worker \in {"lookup", "announce", "handle", "report"} /\ cur \in Tx
    BY <1>t, <2>1 DEF TypeOK, HandInv
  <2>2. ASSUME cur # NoTx, worker \in {"handle", "report"}
        PROVE curr[cur] = "Processing"
    BY <2>2 DEF WorkerInv
  <2>3. ASSUME worker \in {"lookup", "announce"} PROVE pub[cur] = "accepted"
    BY <2>3 DEF WorkerInv
  <2> QED
    BY <1>p, <2>1, <2>2, <2>3
<1>0. ASSUME UNCHANGED <<id, queue, pub, worker, cur, ran>> PROVE QueueInv'
  BY <1>0 DEF QueueInv
<1>1. ASSUME NEW t \in Tx, Publish(t) \/ Cancel(t) PROVE QueueInv'
  <2>1. ASSUME pub[t] = "locking", NEW n \in Nat, n > idCount,
               id' = [id EXCEPT ![t] = n], UNCHANGED <<worker, cur, ran>>,
               pub' \in [Tx -> {"idle", "locking", "noop", "accepted", "rejected"}],
               \A u \in Tx : u # t => pub'[u] = pub[u],
               \/ queue' = queue
               \/ queue' = Append(queue, t) /\ pub'[t] = "accepted"
        PROVE  QueueInv'
    <3>1. \A u \in Tx : u # t => id'[u] = id[u] /\ id'[u] < n
      BY <1>t, <1>p, <2>1
    <3>2. id'[t] = n /\ t \notin ran /\ cur # t
      BY <1>t, <1>r, <1>c, <2>1
    <3>3. ASSUME NEW i \in 1..Len(queue)
          PROVE queue[i] # t /\ queue[i] \in Tx
      BY <1>i, <2>1, <3>3 DEF QueueInv
    <3>4. ASSUME NEW i \in 1..Len(queue')
          PROVE \/ i \in 1..Len(queue) /\ queue'[i] = queue[i]
                \/ i = Len(queue) + 1 /\ queue'[i] = t /\ pub'[t] = "accepted"
      BY <1>t, <2>1
    <3>5. ASSUME NEW i \in 1..Len(queue')
          PROVE /\ pub'[queue'[i]] = "accepted"
                /\ queue'[i] \notin ran'
                /\ cur' # NoTx => id'[cur'] < id'[queue'[i]]
                /\ \A u \in ran' : id'[u] < id'[queue'[i]]
      <4>1. CASE i \in 1..Len(queue) /\ queue'[i] = queue[i]
        BY <1>c, <1>r, <2>1, <3>1, <3>2, <3>3, <4>1 DEF QueueInv
      <4>2. CASE i = Len(queue) + 1 /\ queue'[i] = t /\ pub'[t] = "accepted"
        BY <1>c, <1>r, <2>1, <3>1, <3>2, <4>2
      <4> QED
        BY <3>4, <4>1, <4>2
    <3>6. ASSUME NEW i \in 1..Len(queue'), NEW j \in 1..Len(queue'), i < j
          PROVE id'[queue'[i]] < id'[queue'[j]]
      <4>1. i \in 1..Len(queue) /\ queue'[i] = queue[i]
        BY <1>t, <2>1, <3>6
      <4>2. CASE j \in 1..Len(queue) /\ queue'[j] = queue[j]
        BY <3>1, <3>3, <3>6, <4>1, <4>2 DEF QueueInv
      <4>3. CASE queue'[j] = t
        BY <3>1, <3>2, <3>3, <4>1, <4>3
      <4> QED
        BY <3>4, <4>2, <4>3
    <3>7. worker' \in {"lookup", "announce"} => \A u \in ran' : id'[u] < id'[cur']
      <4>1. ASSUME worker \in {"lookup", "announce"} PROVE cur # NoTx
        BY <4>1 DEF HandInv
      <4> QED
        BY <1>c, <1>r, <2>1, <3>1, <3>2, <4>1 DEF QueueInv
    <3> QED
      BY <3>5, <3>6, <3>7 DEF QueueInv
  <2>2. CASE PublishAccept(t)
    <3>1. /\ pub[t] = "locking" /\ queue' = Append(queue, t)
          /\ id' = [id EXCEPT ![t] = idCount + 1]
          /\ pub' = [pub EXCEPT ![t] = "accepted"]
          /\ UNCHANGED <<worker, cur, ran>>
      BY <2>2 DEF PublishAccept, Register
    <3>2. idCount + 1 \in Nat /\ idCount + 1 > idCount
      BY <1>t
    <3>3. /\ pub' \in [Tx -> {"idle", "locking", "noop", "accepted", "rejected"}]
          /\ pub'[t] = "accepted"
          /\ \A u \in Tx : u # t => pub'[u] = pub[u]
      BY <1>t, <3>1
    <3> QED
      BY <2>1, <3>1, <3>2, <3>3
  <2>3. CASE PublishReject(t)
    <3>1. /\ pub[t] = "locking" /\ queue' = queue
          /\ id' = [id EXCEPT ![t] = idCount + 1]
          /\ pub' = [pub EXCEPT ![t] = "rejected"]
          /\ UNCHANGED <<worker, cur, ran>>
      BY <2>3 DEF PublishReject, Register
    <3>2. idCount + 1 \in Nat /\ idCount + 1 > idCount
      BY <1>t
    <3>3. /\ pub' \in [Tx -> {"idle", "locking", "noop", "accepted", "rejected"}]
          /\ \A u \in Tx : u # t => pub'[u] = pub[u]
      BY <1>t, <3>1
    <3> QED
      BY <2>1, <3>1, <3>2, <3>3
  <2>4. CASE PublishLock(t) \/ PublishClosed(t)
    <3>1. \A i \in 1..Len(queue) : queue[i] # t
      BY <2>4 DEF QueueInv, PublishLock, PublishClosed
    <3>2. /\ UNCHANGED <<id, queue, worker, cur, ran>>
          /\ \A u \in Tx : u # t => pub'[u] = pub[u]
      BY <1>t, <2>4 DEF PublishLock, PublishClosed
    <3> QED
      BY <1>i, <3>1, <3>2 DEF QueueInv
  <2>5. CASE Cancel(t)
    BY <1>0, <2>5 DEF Cancel
  <2> QED
    BY <1>1, <2>2, <2>3, <2>4, <2>5 DEF Publish
<1>2. ASSUME NEW t \in Tx, Bind(t) PROVE QueueInv'
  <2>1. UNCHANGED <<id, queue, pub, worker, cur, ran>>
    BY <1>2 DEF Bind, BindCancel, BindAbort, BindNext, BindLock, BindCleanup, BindSend
  <2> QED
    BY <1>0, <2>1
<1>3. ASSUME NEW s \in Sub, Client(s) PROVE QueueInv'
  <2>1. UNCHANGED <<id, queue, pub, worker, cur, ran>>
    BY <1>3 DEF Client, Subscribe, SubscribeMeet, SubscribeGiveUp, Receive,
          ReceiveClosed, SubClose, SubCloseMeet
  <2> QED
    BY <1>0, <2>1
<1>4. CASE CloseLock \/ Close \/ UNCHANGED vars
  <2>1. UNCHANGED <<id, queue, pub, worker, cur, ran>>
    BY <1>4 DEF vars, CloseLock, Close
  <2> QED
    BY <1>0, <2>1
<1>5. CASE Worker
  <2>1. ASSUME queue # <<>>, queue' = Tail(queue)
        PROVE /\ 1 \in 1..Len(queue) /\ Head(queue) = queue[1]
              /\ \A i \in 1..Len(queue') :
                   /\ i + 1 \in 1..Len(queue) /\ 1 < i + 1
                   /\ queue'[i] = queue[i + 1]
    BY <1>t, <2>1
  <2>2. ASSUME queue # <<>>, queue' = Tail(queue),
               NEW i \in 1..Len(queue'), NEW j \in 1..Len(queue'), i < j
        PROVE  id[queue'[i]] < id[queue'[j]]
    <3>1. /\ i + 1 \in 1..Len(queue) /\ j + 1 \in 1..Len(queue) /\ i + 1 < j + 1
          /\ queue'[i] = queue[i + 1] /\ queue'[j] = queue[j + 1]
      BY <2>1, <2>2
    <3> QED
      BY <3>1 DEF QueueInv
  <2>3. CASE WorkerSkip
    <3>1. /\ queue' = Tail(queue) /\ queue # <<>>
          /\ UNCHANGED <<pub, ran, id, cur, worker>>
      BY <2>3 DEF WorkerSkip
    <3>2. ASSUME NEW i \in 1..Len(queue')
          PROVE /\ pub'[queue'[i]] = "accepted"
                /\ queue'[i] \notin ran'
                /\ cur' # NoTx => id'[cur'] < id'[queue'[i]]
                /\ \A u \in ran' : id'[u] < id'[queue'[i]]
      BY <2>1, <3>1 DEF QueueInv
    <3>3. worker' \in {"lookup", "announce"} => \A u \in ran' : id'[u] < id'[cur']
      BY <3>1 DEF QueueInv
    <3> QED
      BY <2>2, <3>1, <3>2, <3>3 DEF QueueInv
  <2>4. CASE WorkerTake
    <3>1. /\ queue' = Tail(queue) /\ queue # <<>> /\ cur' = Head(queue)
          /\ worker' = "lookup"
          /\ UNCHANGED <<pub, ran, id>>
      BY <2>4 DEF WorkerTake
    <3>2. ASSUME NEW i \in 1..Len(queue')
          PROVE /\ pub'[queue'[i]] = "accepted"
                /\ queue'[i] \notin ran'
                /\ id'[cur'] < id'[queue'[i]]
                /\ \A u \in ran' : id'[u] < id'[queue'[i]]
      BY <2>1, <3>1 DEF QueueInv
    <3>3. \A u \in ran' : id'[u] < id'[cur']
      BY <2>1, <3>1 DEF QueueInv
    <3> QED
      BY <2>2, <3>1, <3>2, <3>3 DEF QueueInv
  <2>5. CASE WorkerAnnounce
    <3>1. /\ worker = "announce" /\ worker' = "handle" /\ ran' = ran \cup {cur}
          /\ UNCHANGED <<id, queue, pub, cur>>
      BY <2>5 DEF WorkerAnnounce
    <3>2. cur # NoTx
      BY <3>1 DEF HandInv
    <3>3. \A i \in 1..Len(queue) : queue[i] # cur
      BY <1>c, <1>i, <1>t, <3>2 DEF QueueInv
    <3> QED
      BY <3>1, <3>2, <3>3 DEF QueueInv
  <2>6. CASE WorkerReport
    <3>1. /\ worker' = "select" /\ cur' = NoTx
          /\ UNCHANGED <<id, queue, pub, ran>>
      BY <2>6 DEF WorkerReport
    <3> QED
      BY <3>1 DEF QueueInv
  <2>7. CASE WorkerExit \/ WorkerReturn
    <3>1. /\ worker' \in {"exit", "report"}
          /\ UNCHANGED <<id, queue, pub, cur, ran>>
      BY <2>7 DEF WorkerExit, WorkerReturn
    <3> QED
      BY <3>1 DEF QueueInv
  <2>8. CASE WorkerLookup \/ WorkerLookupRace
    <3>1. /\ worker = "lookup" /\ worker' \in {"lookup", "announce"}
          /\ UNCHANGED <<id, queue, pub, cur, ran>>
      BY <2>8 DEF WorkerLookup, WorkerLookupRace
    <3> QED
      BY <3>1 DEF QueueInv
  <2> QED
    BY <1>5, <2>3, <2>4, <2>5, <2>6, <2>7, <2>8 DEF Worker
<1> QED
  BY <1>1, <1>2, <1>3, <1>4, <1>5 DEF Next

\* A channel is closed once, and only after its subscription left the map or
\* its goroutine is about to end.
LEMMA SubStep == TypeOK /\ HandInv /\ PublishInv /\ WorkerInv /\ SubInv /\ [Next]_vars => SubInv'
<1> SUFFICES ASSUME TypeOK, HandInv, PublishInv, WorkerInv, SubInv, [Next]_vars PROVE SubInv'
  OBVIOUS
<1> USE ConstantsAssumption DEF TypeOK, HandInv, PublishInv, Unpublished, WorkerInv, SubInv, Unsubscribed, Terminal, Status, Crash, liveVars, queueVars, callVars, workVars, bindVars, subVars, None
<1>1. ASSUME NEW t \in Tx, Publish(t) \/ Cancel(t) PROVE SubInv'
  <2>1. CASE PublishAccept(t)
    BY <2>1 DEF PublishAccept, Register, HasRoom
  <2>2. CASE PublishReject(t)
    BY <2>2 DEF PublishReject, Register
  <2> QED
    BY <1>1, <2>1, <2>2 DEF Publish, PublishLock, PublishClosed, Cancel
<1>2. ASSUME NEW t \in Tx, Bind(t) PROVE SubInv'
  <2>1. CASE BindCancel(t)
    BY <2>1 DEF BindCancel, TakeStatus, MayCancel
  <2>2. CASE BindAbort(t)
    BY <2>2 DEF BindAbort
  <2>3. CASE BindNext(t)
    BY <2>3 DEF BindNext
  <2>4. CASE BindLock(t)
    <3>1. /\ bind[t] = "return"
          /\ bind' = bind \/ bind' = [bind EXCEPT ![t] = "locking"]
          /\ UNCHANGED <<rem, subscriptions, subVars>>
      BY <2>4 DEF BindLock
    <3>2. \A u \in Tx : (bind'[u] = "broadcast" <=> bind[u] = "broadcast")
                       /\ (bind'[u] = "exit" <=> bind[u] = "exit")
      BY <3>1
    <3>3. \A r \in Sub : target[r] \in Tx
      OBVIOUS
    <3> QED
      BY <3>1, <3>2, <3>3
  <2>5. CASE BindCleanup(t)
    <3>1. CASE UNCHANGED liveVars
      BY <3>1
    <3>2. CASE ToClose(t) \cap chanClosed = {}
      <4>1. /\ bind[t] = "locking"
            /\ closed' = closed \cup ToClose(t)
            /\ chanClosed' = chanClosed \cup ToClose(t)
            /\ bind' = [bind EXCEPT ![t] = "exit"]
            /\ UNCHANGED <<rem, subscriptions, sub, target, buf, last>>
        BY <2>5, <3>2 DEF BindCleanup
      <4>2. /\ chanClosed' \subseteq closed'
            /\ \A s \in Sub : Unsubscribed(s)' =>
                 s \notin closed' /\ buf'[s] = None /\ last'[s] = None
        BY <4>1 DEF ToClose
      <4>3. ASSUME NEW s \in Sub
            PROVE /\ sub'[s] = "closing" <=> s \in closed' /\ s \notin chanClosed'
                  /\ sub'[s] = "open" /\ s \notin chanClosed' =>
                       s \in subscriptions'[target'[s]] /\ bind'[target'[s]] # "exit"
        BY <4>1 DEF ToClose
      <4>4. ASSUME NEW u \in Tx
            PROVE /\ rem'[u] \subseteq subscriptions'[u]
                  /\ bind'[u] # "broadcast" => rem'[u] = {}
                  /\ \A s \in subscriptions'[u] :
                       /\ target'[s] = u
                       /\ ~Unsubscribed(s)'
                       /\ s \in chanClosed' => bind'[u] = "exit"
        BY <4>1 DEF ToClose
      <4> QED
        BY <4>2, <4>3, <4>4
    <3> QED
      BY <2>5, <3>1, <3>2 DEF BindCleanup
  <2>6. ASSUME NEW s \in Sub, BindSend(t, s) PROVE SubInv'
    <3>1. CASE UNCHANGED liveVars
      BY <3>1
    <3>2. CASE s \notin chanClosed
      <4>1. /\ bind[t] = "broadcast" /\ s \in rem[t]
            /\ buf' = [buf EXCEPT ![s] = curr[t]]
            /\ rem' = [rem EXCEPT ![t] = @ \ {s}]
            /\ UNCHANGED <<bind, subscriptions, sub, target, closed, chanClosed, last>>
        BY <2>6, <3>2 DEF BindSend
      <4>2. ~Unsubscribed(s)
        BY <4>1
      <4>3. \A r \in Sub : Unsubscribed(r)' => buf'[r] = None
        BY <4>1, <4>2
      <4>4. ASSUME NEW u \in Tx
            PROVE /\ rem'[u] \subseteq subscriptions'[u]
                  /\ bind'[u] # "broadcast" => rem'[u] = {}
        BY <4>1
      <4> QED
        BY <4>1, <4>3, <4>4
    <3> QED
      BY <2>6, <3>1, <3>2 DEF BindSend
  <2> QED
    BY <1>2, <2>1, <2>2, <2>3, <2>4, <2>5, <2>6 DEF Bind
<1>3. ASSUME NEW s \in Sub, Client(s) PROVE SubInv'
  <2>1. CASE Subscribe(s)
    BY <2>1 DEF Subscribe
  <2>2. CASE SubscribeMeet(s)
    BY <2>2 DEF SubscribeMeet
  <2>3. CASE Receive(s)
    BY <2>3 DEF Receive
  <2>4. CASE ReceiveClosed(s)
    BY <2>4 DEF ReceiveClosed
  <2>5. CASE SubClose(s)
    BY <2>5 DEF SubClose
  <2>6. CASE SubCloseMeet(s)
    <3>1. CASE UNCHANGED liveVars
      BY <3>1
    <3>2. CASE s \notin chanClosed
      <4>1. /\ target[s] \in Tx /\ sub[s] = "closing" /\ bind[target[s]] = "select"
            /\ subscriptions' = [subscriptions EXCEPT ![target[s]] = @ \ {s}]
            /\ chanClosed' = chanClosed \cup {s}
            /\ sub' = [sub EXCEPT ![s] = "closed"]
            /\ UNCHANGED <<bind, rem, target, closed, buf, last>>
        BY <2>6, <3>2 DEF SubCloseMeet
      <4>2. /\ chanClosed' \subseteq closed'
            /\ \A r \in Sub : Unsubscribed(r)' =>
                 r \notin closed' /\ buf'[r] = None /\ last'[r] = None
        BY <4>1
      <4>3. ASSUME NEW r \in Sub
            PROVE /\ sub'[r] = "closing" <=> r \in closed' /\ r \notin chanClosed'
                  /\ sub'[r] = "open" /\ r \notin chanClosed' =>
                       r \in subscriptions'[target'[r]] /\ bind'[target'[r]] # "exit"
        BY <4>1
      <4>4. ASSUME NEW u \in Tx
            PROVE /\ rem'[u] \subseteq subscriptions'[u]
                  /\ bind'[u] # "broadcast" => rem'[u] = {}
                  /\ \A r \in subscriptions'[u] :
                       /\ target'[r] = u
                       /\ ~Unsubscribed(r)'
                       /\ r \in chanClosed' => bind'[u] = "exit"
        BY <4>1
      <4> QED
        BY <4>2, <4>3, <4>4
    <3> QED
      BY <2>6, <3>1, <3>2 DEF SubCloseMeet
  <2> QED
    BY <1>3, <2>1, <2>2, <2>3, <2>4, <2>5, <2>6 DEF Client, SubscribeGiveUp
<1>4. CASE CloseLock \/ Close \/ UNCHANGED vars
  BY <1>4 DEF vars, CloseLock, Close
<1>5. CASE Worker
  <2>1. CASE WorkerAnnounce
    BY <2>1 DEF WorkerAnnounce, TakeStatus
  <2>2. CASE WorkerReport
    BY <2>2 DEF WorkerReport, TakeStatus
  <2> QED
    BY <1>5, <2>1, <2>2 DEF Worker, WorkerExit, WorkerSkip, WorkerTake,
          WorkerLookup, WorkerLookupRace, WorkerReturn
<1> QED
  BY <1>1, <1>2, <1>3, <1>4, <1>5 DEF Next

\* Broadcasting and reading keep every stream in order.
LEMMA StreamStep == TypeOK /\ HandInv /\ PublishInv /\ WorkerInv /\ SubInv /\ StreamInv /\ [Next]_vars => StreamInv'
<1> SUFFICES ASSUME TypeOK, HandInv, PublishInv, WorkerInv, SubInv, StreamInv, [Next]_vars PROVE StreamInv'
  OBVIOUS
<1> USE ConstantsAssumption DEF TypeOK, HandInv, PublishInv, Unpublished, WorkerInv, SubInv, StreamInv, StreamOrdered, Rank, Unsubscribed, Terminal, Status, Crash, liveVars, queueVars, callVars, workVars, bindVars, subVars, None
<1>1. ASSUME NEW t \in Tx, Publish(t) \/ Cancel(t) PROVE StreamInv'
  <2>1. CASE PublishAccept(t)
    BY <2>1 DEF PublishAccept, Register, HasRoom
  <2>2. CASE PublishReject(t)
    BY <2>2 DEF PublishReject, Register
  <2> QED
    BY <1>1, <2>1, <2>2 DEF Publish, PublishLock, PublishClosed, Cancel
<1>2. ASSUME NEW t \in Tx, Bind(t) PROVE StreamInv'
  <2>1. CASE BindCancel(t)
    BY <2>1 DEF BindCancel, TakeStatus, MayCancel
  <2>2. CASE BindAbort(t)
    BY <2>2 DEF BindAbort
  <2>3. CASE BindNext(t)
    BY <2>3 DEF BindNext
  <2>4. CASE BindLock(t)
    BY <2>4 DEF BindLock
  <2>5. CASE BindCleanup(t)
    BY <2>5 DEF BindCleanup, ToClose
  <2>6. ASSUME NEW s \in Sub, BindSend(t, s) PROVE StreamInv'
    <3>1. CASE UNCHANGED liveVars
      BY <3>1
    <3>2. CASE s \notin chanClosed
      <4>1. /\ bind[t] = "broadcast" /\ s \in rem[t] /\ buf[s] = None
            /\ buf' = [buf EXCEPT ![s] = curr[t]]
            /\ rem' = [rem EXCEPT ![t] = @ \ {s}]
            /\ UNCHANGED <<bind, curr, target, last>>
        BY <2>6, <3>2 DEF BindSend
      <4>2. target[s] = t /\ Rank[last[s]] < Rank[curr[t]]
        BY <4>1
      <4>3. ASSUME NEW u \in Tx, NEW r \in rem'[u]
            PROVE r # s /\ r \in rem[u] /\ r \in Sub
        BY <4>1, <4>2
      <4>4. \A r \in Sub : r # s => buf'[r] = buf[r]
        BY <4>1
      <4>5. buf'[s] = curr[t] /\ Rank[curr[t]] <= Rank[curr[t]]
        BY <4>1
      <4>6. StreamOrdered'
        BY <4>1, <4>2, <4>4, <4>5
      <4>7. \A u \in Tx : \A r \in rem'[u] :
              Rank[last'[r]] < Rank[curr'[u]] /\ Rank[buf'[r]] < Rank[curr'[u]]
        BY <4>1, <4>3, <4>4
      <4>8. \A r \in Sub : buf'[r] = "Processing" => target'[r] \in ran'
        <5>1. UNCHANGED ran
          BY <2>6, <3>2 DEF BindSend
        <5> QED
          BY <4>1, <4>2, <4>4, <4>5, <5>1
      <4> QED
        BY <4>6, <4>7, <4>8
    <3> QED
      BY <2>6, <3>1, <3>2 DEF BindSend
  <2> QED
    BY <1>2, <2>1, <2>2, <2>3, <2>4, <2>5, <2>6 DEF Bind
<1>3. ASSUME NEW s \in Sub, Client(s) PROVE StreamInv'
  <2>1. CASE Subscribe(s)
    BY <2>1 DEF Subscribe
  <2>2. CASE SubscribeMeet(s)
    BY <2>2 DEF SubscribeMeet
  <2>3. CASE Receive(s)
    BY <2>3 DEF Receive
  <2>4. CASE ReceiveClosed(s)
    BY <2>4 DEF ReceiveClosed
  <2>5. CASE SubClose(s)
    BY <2>5 DEF SubClose
  <2>6. CASE SubCloseMeet(s)
    BY <2>6 DEF SubCloseMeet
  <2> QED
    BY <1>3, <2>1, <2>2, <2>3, <2>4, <2>5, <2>6 DEF Client, SubscribeGiveUp
<1>4. CASE CloseLock \/ Close \/ UNCHANGED vars
  BY <1>4 DEF vars, CloseLock, Close
<1>5. CASE Worker
  <2>1. CASE WorkerAnnounce
    BY <2>1 DEF WorkerAnnounce, TakeStatus
  <2>2. CASE WorkerReport
    BY <2>2 DEF WorkerReport, TakeStatus
  <2> QED
    BY <1>5, <2>1, <2>2 DEF Worker, WorkerExit, WorkerSkip, WorkerTake,
          WorkerLookup, WorkerLookupRace, WorkerReturn
<1> QED
  BY <1>1, <1>2, <1>3, <1>4, <1>5 DEF Next

\* A panic on a channel needs a closed channel in the map of a running bind.
LEMMA PanicStep ==
  TypeOK /\ HandInv /\ PublishInv /\ WorkerInv /\ SubInv /\ NoChannelPanic /\ [Next]_vars
    => NoChannelPanic'
<1> SUFFICES ASSUME TypeOK, SubInv, NoChannelPanic, [Next]_vars PROVE NoChannelPanic'
  OBVIOUS
<1> USE DEF TypeOK, SubInv, NoChannelPanic
<1>1. ASSUME NEW t \in Tx, Publish(t) \/ Cancel(t) PROVE NoChannelPanic'
  BY <1>1 DEF Publish, PublishLock, PublishClosed, PublishAccept, PublishReject, Cancel
<1>2. ASSUME NEW t \in Tx, Bind(t) PROVE NoChannelPanic'
  <2>1. CASE BindCleanup(t)
    <3>1. \A s \in subscriptions[t] : s \notin chanClosed
      BY <2>1 DEF BindCleanup
    <3> QED
      BY <2>1, <3>1 DEF BindCleanup, ToClose
  <2>2. ASSUME NEW s \in Sub, BindSend(t, s) PROVE NoChannelPanic'
    <3>1. s \notin chanClosed
      BY <2>2 DEF BindSend
    <3> QED
      BY <2>2, <3>1 DEF BindSend
  <2> QED
    BY <1>2, <2>1, <2>2 DEF Bind, BindCancel, BindAbort, BindNext, BindLock, Crash
<1>3. ASSUME NEW s \in Sub, Client(s) PROVE NoChannelPanic'
  <2>1. CASE SubCloseMeet(s)
    BY <2>1 DEF SubCloseMeet
  <2> QED
    BY <1>3, <2>1 DEF Client, Subscribe, SubscribeMeet, SubscribeGiveUp, Receive,
                      ReceiveClosed, SubClose
<1>4. CASE CloseLock \/ Close \/ UNCHANGED vars
  BY <1>4 DEF CloseLock, Close, vars
<1>5. CASE Worker
  BY <1>5 DEF Worker, WorkerExit, WorkerSkip, WorkerTake, WorkerLookup,
              WorkerLookupRace, WorkerAnnounce, WorkerReturn, WorkerReport, Crash
<1> QED
  BY <1>1, <1>2, <1>3, <1>4, <1>5 DEF Next

\* A broadcast that nobody cancels serves every subscriber before bind goes on.
LEMMA ServedStep ==
  TypeOK /\ HandInv /\ PublishInv /\ WorkerInv /\ SubInv /\ ServedInv /\ [Next]_vars => ServedInv'
<1> SUFFICES ASSUME TypeOK, HandInv, PublishInv, WorkerInv, SubInv, ServedInv, [Next]_vars PROVE ServedInv'
  OBVIOUS
<1> USE DEF TypeOK, SubInv, ServedInv, ClosedByState, Reason, Unsubscribed, Crash, None, liveVars,
            queueVars, callVars, workVars, bindVars, subVars
<1>1. ASSUME NEW t \in Tx, Publish(t) \/ Cancel(t) PROVE ServedInv'
  <2>1. CASE PublishAccept(t) \/ PublishReject(t)
    <3>1. /\ bind' = [bind EXCEPT ![t] = "select"] /\ curr' = [curr EXCEPT ![t] = "Queued"]
          /\ UNCHANGED <<ctxDone, subscriptions, rem, sub, target, chanClosed, buf, last>>
      BY <2>1 DEF PublishAccept, PublishReject, Register
    <3>2. bind[t] = None /\ subscriptions[t] = {}
      BY <2>1 DEF PublishAccept, PublishReject, PublishInv, Unpublished
    <3>3. None \notin {"select", "exit"}
      BY DEF None
    <3> QED
      BY <3>1, <3>2, <3>3
  <2>2. CASE PublishLock(t) \/ PublishClosed(t) \/ Cancel(t)
    BY <2>2 DEF PublishLock, PublishClosed, Cancel
  <2> QED
    BY <1>1, <2>1, <2>2 DEF Publish
<1>2. ASSUME NEW t \in Tx, Bind(t) PROVE ServedInv'
  <2>1. CASE BindCancel(t)
    BY <2>1 DEF BindCancel, MayCancel, TakeStatus
  <2>2. CASE BindAbort(t)
    BY <2>2 DEF BindAbort
  <2>3. CASE BindNext(t)
    BY <2>3 DEF BindNext
  <2>4. CASE BindLock(t)
    <3>1. CASE UNCHANGED liveVars
      BY <3>1
    <3>2. CASE ~UNCHANGED liveVars
      <4>1. /\ bind' = [bind EXCEPT ![t] = "locking"] /\ bind[t] = "return"
            /\ UNCHANGED <<curr, ctxDone, subscriptions, rem, sub, target, chanClosed, buf, last>>
        BY <2>4, <3>2 DEF BindLock
      <4> QED
        BY <4>1
    <3> QED
      BY <3>1, <3>2
  <2>5. CASE BindCleanup(t)
    BY <2>5, SMTT(60) DEF BindCleanup, ToClose
  <2>6. ASSUME NEW s \in Sub, BindSend(t, s) PROVE ServedInv'
    <3>1. CASE UNCHANGED liveVars
      BY <3>1
    <3>2. CASE s \notin chanClosed
      <4>1. /\ bind[t] = "broadcast" /\ s \in subscriptions[t] /\ target[s] = t
            /\ buf' = [buf EXCEPT ![s] = curr[t]] /\ rem' = [rem EXCEPT ![t] = @ \ {s}]
            /\ UNCHANGED <<bind, curr, ctxDone, subscriptions, sub, target, chanClosed, last>>
        BY <2>6, <3>2 DEF BindSend
      <4>2. curr[t] # None
        BY <4>1 DEF PublishInv, None
      <4>3. Reason(s)' = curr[t] /\ \A r \in Sub \ {s} : Reason(r)' = Reason(r)
        BY <4>1, <4>2
      <4>4. ASSUME NEW u \in Tx \ ctxDone, NEW r \in subscriptions[u] \ rem'[u]
            PROVE  Reason(r)' = curr[u]
        <5>1. CASE r = s
          BY <4>1, <4>3, <4>4, <5>1
        <5>2. CASE r # s
          <6>1. r \in subscriptions[u] \ rem[u] /\ r \in Sub
            BY <4>1, <4>4, <5>2
          <6>2. Reason(r) = curr[u]
            BY <4>4, <6>1
          <6> HIDE DEF Reason
          <6> QED
            BY <4>3, <5>2, <6>1, <6>2
        <5> QED
          BY <5>1, <5>2
      <4> QED
        BY <4>1, <4>4
    <3> QED
      BY <2>6, <3>1, <3>2 DEF BindSend
  <2> QED
    BY <1>2, <2>1, <2>2, <2>3, <2>4, <2>5, <2>6 DEF Bind
<1>3. ASSUME NEW s \in Sub, Client(s) PROVE ServedInv'
  <2>1. CASE Subscribe(s)
    BY <2>1 DEF Subscribe
  <2>2. CASE SubscribeMeet(s)
    BY <2>2 DEF SubscribeMeet, None
  <2>3. CASE Receive(s)
    BY <2>3 DEF Receive
  <2>4. CASE ReceiveClosed(s)
    BY <2>4 DEF ReceiveClosed
  <2>5. CASE SubClose(s)
    BY <2>5 DEF SubClose
  <2>6. CASE SubCloseMeet(s)
    <3>1. CASE s \in chanClosed
      BY <2>6, <3>1 DEF SubCloseMeet
    <3>2. CASE s \notin chanClosed
      <4>1. /\ subscriptions' = [subscriptions EXCEPT ![target[s]] = @ \ {s}]
            /\ chanClosed' = chanClosed \cup {s} /\ sub' = [sub EXCEPT ![s] = "closed"]
            /\ bind[target[s]] = "select" /\ UNCHANGED <<bind, curr, ctxDone, rem, target, buf, last>>
        BY <2>6, <3>2 DEF SubCloseMeet
      <4>2. \A u \in Tx : subscriptions'[u] \subseteq subscriptions[u]
        BY <4>1
      <4>3. ASSUME NEW r \in Sub, ClosedByState(r)'
            PROVE  r \in subscriptions'[target'[r]] /\ bind'[target'[r]] = "exit"
        BY <4>1, <4>3
      <4> QED
        BY <4>1, <4>2, <4>3
    <3> QED
      BY <3>1, <3>2
  <2> QED
    BY <1>3, <2>1, <2>2, <2>3, <2>4, <2>5, <2>6 DEF Client, SubscribeGiveUp
<1>4. CASE CloseLock \/ Close \/ UNCHANGED vars
  BY <1>4 DEF vars, CloseLock, Close
<1>5. CASE Worker
  <2>1. ASSUME NEW status \in {"Processing", "Done"}, cur \in Tx, TakeStatus(cur, status),
               UNCHANGED <<ctxDone, subscriptions, subVars>>
        PROVE  ServedInv'
    BY <2>1 DEF TakeStatus
  <2>2. CASE WorkerAnnounce \/ WorkerReport
    BY <2>1, <2>2 DEF WorkerAnnounce, WorkerReport, HandInv
  <2> QED
    BY <1>5, <2>2 DEF Worker, WorkerExit, WorkerSkip, WorkerTake, WorkerLookup, WorkerLookupRace,
                      WorkerReturn
<1> QED
  BY <1>1, <1>2, <1>3, <1>4, <1>5 DEF Next

\* The conjunction of the parts is an invariant of the work queue.
THEOREM Inductive == Spec => []IInv
<1>i. Init => IInv
  <2> SUFFICES ASSUME Init PROVE IInv
    OBVIOUS
  <2>1. TypeOK
    <3>1. queue \in Seq(Tx) /\ Len(queue) = 0 /\ Len(queue) <= Cap
      BY ConstantsAssumption DEF Init
    <3> QED
      BY <3>1, ConstantsAssumption DEF Init, TypeOK, Status, Terminal, None
  <2>2. PublishInv /\ HandInv /\ WorkerInv
    BY DEF Init, PublishInv, Unpublished, HandInv, WorkerInv, OneAtATime, RanIffPromised, None
  <2>3. QueueInv /\ NoChannelPanic
    BY DEF Init, QueueInv, NoChannelPanic
  <2>4. SubInv
    BY DEF Init, SubInv, Unsubscribed
  <2>5. StreamInv
    BY <2>1 DEF Init, StreamInv, StreamOrdered, Rank, None, TypeOK
  <2>6. ServedInv /\ NilStateOnlyByCancel
    BY DEF Init, ServedInv, ClosedByState, NilStateOnlyByCancel, None
  <2> QED
    BY <2>1, <2>2, <2>3, <2>4, <2>5, <2>6 DEF IInv
\* What the worker took has no state in the map only when bind has cancelled it.
<1>n. IInv /\ [Next]_vars => NilStateOnlyByCancel'
  <2> SUFFICES ASSUME IInv, [Next]_vars PROVE NilStateOnlyByCancel'
    OBVIOUS
  <2> USE DEF NilStateOnlyByCancel
  <2>1. CASE WorkerLookup
    <3>1. CASE cur \notin states
      <4>1. worker = "lookup" /\ cur \in Tx /\ pub[cur] = "accepted" /\ cur \notin ran
        BY <2>1 DEF WorkerLookup, IInv, TypeOK, HandInv, WorkerInv
      <4>2. bind[cur] = "exit"
        BY <3>1, <4>1 DEF IInv, PublishInv, Unpublished
      <4>3. curr[cur] = "Cancelled"
        BY <4>1, <4>2 DEF IInv, WorkerInv, Terminal
      <4>4. cur \in ctxDone
        BY <4>1, <4>3 DEF IInv, ServedInv
      <4> QED
        BY <2>1, <3>1, <4>4 DEF WorkerLookup, Crash, liveVars, workVars
    <3>2. CASE cur \in states
      BY <2>1, <3>2 DEF WorkerLookup, IInv
    <3> QED
      BY <3>1, <3>2
  <2>2. ASSUME Next, ~WorkerLookup PROVE crash' # "nilState"
    BY <2>2 DEF Next, Publish, PublishLock, PublishClosed, PublishAccept, PublishReject, Cancel,
           Bind, BindCancel, BindAbort, BindNext, BindLock, BindCleanup, BindSend,
           Client, Subscribe, SubscribeMeet, SubscribeGiveUp, Receive, ReceiveClosed, SubClose, SubCloseMeet,
           CloseLock, Close, Worker, WorkerExit, WorkerSkip, WorkerTake, WorkerLookupRace, WorkerAnnounce,
           WorkerReturn, WorkerReport, Crash
  <2>3. CASE UNCHANGED vars
    BY <2>3 DEF vars, liveVars, workVars, IInv
  <2> QED
    BY <2>1, <2>2, <2>3
<1>1. IInv /\ [Next]_vars => IInv'
  BY TypeStep, HandStep, PublishStep, WorkerStep, QueueStep, SubStep, StreamStep,
     PanicStep, ServedStep, <1>n DEF IInv
<1> QED
  BY <1>i, <1>1, PTL DEF Spec

\* The types of the variables, and the bound of the queue channel: the buffer never
\* holds more than Cap transactions (inmem/work_queue.go:12-16, 102-106).
THEOREM TypeCorrect == Spec => []TypeOK
<1>1. IInv => TypeOK
  BY DEF IInv
<1> QED
  BY Inductive, <1>1, PTL

\* No interleaving sends on a closed channel or closes one twice.
THEOREM ChannelsSafe == Spec => []NoChannelPanic
<1>1. IInv => NoChannelPanic
  BY DEF IInv
<1> QED
  BY Inductive, <1>1, PTL

\* One transaction at a time, as its subscribers see it.
THEOREM Synchronous == Spec => []OneAtATime
<1>1. IInv => OneAtATime
  BY DEF IInv, WorkerInv
<1> QED
  BY Inductive, <1>1, PTL

\* Only what Publish accepted runs, and what ran is never reported cancelled.
THEOREM PromisesKept == Spec => []RanIffPromised
<1>1. IInv => RanIffPromised
  BY DEF IInv, WorkerInv
<1> QED
  BY Inductive, <1>1, PTL

\* Every subscriber sees the statuses advance.
THEOREM StreamsOrdered == Spec => []StreamOrdered
<1>1. IInv => StreamOrdered
  BY DEF IInv, StreamInv
<1> QED
  BY Inductive, <1>1, PTL

\* No client is left reading the open channel of a goroutine that is gone.
THEOREM NobodyOrphaned == Spec => []NoOrphanedReader
<1>1. IInv => NoOrphanedReader
  BY DEF IInv, SubInv, NoOrphanedReader
<1> QED
  BY Inductive, <1>1, PTL

\* The worker runs the transactions in the order of their ids.
THEOREM OrderKept == Spec => RunsInIdOrder
<1>1. IInv /\ [Next]_vars =>
        [worker = "announce" /\ worker' = "handle" => \A u \in ran : id[u] < id[cur]]_vars
  BY DEF IInv, QueueInv
<1> QED
  BY Inductive, <1>1, PTL DEF Spec, RunsInIdOrder

\* While nobody cancels a transaction, the last status in the channel its subscribers
\* find closed is Done (inmem/work_queue.go:164).
THEOREM ClosedMeansDone == Spec => []UncancelledSaysWhy
<1>1. ASSUME IInv, NEW s \in Sub, ClosedByState(s), target[s] \notin ctxDone PROVE Reason(s) = "Done"
  <2> DEFINE t == target[s]
  <2>1. t \in Tx /\ s \in subscriptions[t] /\ bind[t] = "exit"
    BY <1>1 DEF IInv, TypeOK, ServedInv
  <2>2. rem[t] = {}
    BY <1>1, <2>1 DEF IInv, SubInv
  <2>3. curr[t] \in Terminal
    BY <1>1, <2>1 DEF IInv, WorkerInv
  <2> QED
    BY <1>1, <2>1, <2>2, <2>3 DEF IInv, ServedInv, Terminal
<1>2. IInv => UncancelledSaysWhy
  BY <1>1 DEF UncancelledSaysWhy
<1> QED
  BY Inductive, <1>2, PTL

\* The worker meets a nil state only for a transaction that was cancelled after it was
\* taken out of the queue (inmem/work_queue.go:55-64).
THEOREM NilOnlyByCancel == Spec => []NilStateOnlyByCancel
<1>1. IInv => NilStateOnlyByCancel
  BY DEF IInv
<1> QED
  BY Inductive, <1>1, PTL
=============================================================================
