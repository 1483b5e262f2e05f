---------------------------- MODULE WorkQueueInv ----------------------------
(***************************************************************************)
(* The inductive invariant behind the safety theorems of WorkQueue, in     *)
(* parts that are each inductive relative to the parts before them.        *)
(***************************************************************************)
EXTENDS WorkQueue

Unpublished(t) == pub[t] \in {"idle", "locking", "noop"}

\* A transaction has an id, a state and a goroutine from the moment Publish
\* registers it, accepted or not, and the map holds it until bind has returned.
PublishInv ==
  \A t \in Tx :
    /\ Unpublished(t) => /\ bind[t] = None /\ curr[t] = None /\ id[t] = 0
    /\ ~Unpublished(t) => /\ bind[t] # None /\ curr[t] # None
                          /\ 0 < id[t] /\ id[t] <= idCount
    /\ t \in states <=> bind[t] \notin {None, "exit"}

\* The worker has a transaction in its hand exactly while it works.
HandInv == cur = NoTx <=> worker \in {"select", "exit"}

\* The worker's place, its transaction and the status bind keeps agree.
WorkerInv ==
  /\ worker \in {"lookup", "announce"} => pub[cur] = "accepted" /\ cur \notin ran
  /\ worker \in {"handle", "report"} => curr[cur] = "Processing"
  /\ \A t \in Tx :
       /\ bind[t] = "select" => curr[t] \in {"Queued", "Processing"}
       /\ bind[t] = "broadcast" => curr[t] # "Queued"
       /\ bind[t] \in {"return", "locking", "exit"} => curr[t] \in Terminal
       /\ curr[t] \in {"Processing", "Done"} <=> t \in ran
  /\ OneAtATime
  /\ RanIffPromised

\* What waits in the queue is accepted, has not been taken, and is younger than
\* whatever was.
QueueInv ==
  /\ \A i \in 1..Len(queue) :
       /\ pub[queue[i]] = "accepted"
       /\ queue[i] \notin ran
       /\ cur # NoTx => id[cur] < id[queue[i]]
       /\ \A u \in ran : id[u] < id[queue[i]]
       /\ \A j \in 1..Len(queue) : i < j => id[queue[i]] < id[queue[j]]
  /\ worker \in {"lookup", "announce"} => \A u \in ran : id[u] < id[cur]

Unsubscribed(s) == sub[s] \in {"idle", "nil", "notFound", "offering", "ctxErr"}

\* The subscriptions map, the closed flag and the channel agree.
SubInv ==
  /\ chanClosed \subseteq closed
  /\ \A s \in Sub :
       /\ Unsubscribed(s) => s \notin closed /\ buf[s] = None /\ last[s] = None
       /\ sub[s] = "closing" <=> s \in closed /\ s \notin chanClosed
       /\ sub[s] = "open" /\ s \notin chanClosed =>
            s \in subscriptions[target[s]] /\ bind[target[s]] # "exit"
  /\ \A t \in Tx :
       /\ rem[t] \subseteq subscriptions[t]
       /\ bind[t] # "broadcast" => rem[t] = {}
       /\ \A s \in subscriptions[t] :
            /\ target[s] = t
            /\ ~Unsubscribed(s)
            /\ s \in chanClosed => bind[t] = "exit"

\* Who is still to be served has not seen the status being broadcast, and only
\* what ran is ever reported as Processing.
StreamInv ==
  /\ StreamOrdered
  /\ \A s \in Sub : buf[s] = "Processing" => target[s] \in ran
  /\ \A t \in Tx : \A s \in rem[t] :
       /\ Rank[last[s]] < Rank[curr[t]]
       /\ Rank[buf[s]] < Rank[curr[t]]

\* Who subscribes meets bind.  While nobody cancels the transaction whoever has been served knows its status, and
\* a channel that is still read is closed by the cleanup only.
ServedInv ==
  /\ \A t \in Tx : bind[t] = None => subscriptions[t] = {}
  /\ \A t \in Tx \ ctxDone :
       /\ curr[t] # "Cancelled"
       /\ \A s \in subscriptions[t] \ rem[t] : Reason(s) = curr[t]
  /\ \A s \in Sub : ClosedByState(s) => s \in subscriptions[target[s]] /\ bind[target[s]] = "exit"

IInv ==
  /\ TypeOK
  /\ HandInv
  /\ PublishInv
  /\ WorkerInv
  /\ QueueInv
  /\ SubInv
  /\ StreamInv
  /\ NoChannelPanic
  /\ ServedInv
  /\ NilStateOnlyByCancel
=============================================================================
