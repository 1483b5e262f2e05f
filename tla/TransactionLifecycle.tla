------------------------ MODULE TransactionLifecycle ------------------------
(***************************************************************************)
(* What a work queue promises its callers (the types and interfaces of     *)
(* work_queue.go): a published transaction is numbered and queued, it is   *)
(* processed and done, or cancelled before it ran; one at a time and in    *)
(* publication order; and a subscriber sees its transaction's statuses     *)
(* advance, late and with gaps perhaps, but never back and never ahead.    *)
(***************************************************************************)
EXTENDS Naturals

CONSTANTS Tx, Sub

VARIABLES
  status,  \* the status of each transaction, "none" before it is published
  number,  \* the id given at publication, 0 before
  topic,   \* the transaction each subscriber asks for
  seen     \* the status each subscriber has seen last

vars == <<status, number, topic, seen>>

Rank == [none |-> 0, Queued |-> 1, Processing |-> 2, Done |-> 3, Cancelled |-> 3]

Started(t) == status[t] \in {"Processing", "Done"}

\* The statuses a transaction goes through on its way to the present one.
Passed(t) ==
  CASE status[t] = "none"       -> {}
    [] status[t] = "Queued"     -> {"Queued"}
    [] status[t] = "Processing" -> {"Queued", "Processing"}
    [] status[t] = "Done"       -> {"Queued", "Processing", "Done"}
    [] status[t] = "Cancelled"  -> {"Queued", "Cancelled"}

Init ==
  /\ status = [t \in Tx |-> "none"]
  /\ number = [t \in Tx |-> 0]
  /\ topic \in [Sub -> Tx]
  /\ seen = [s \in Sub |-> "none"]

Publish(t) ==
  /\ status[t] = "none"
  /\ status' = [status EXCEPT ![t] = "Queued"]
  /\ number' = [number EXCEPT ![t] = number'[t]]   \* any number above the others
  /\ number'[t] \in Nat
  /\ \A u \in Tx : number[u] < number'[t]
  /\ UNCHANGED <<topic, seen>>

Start(t) ==
  /\ status[t] = "Queued"
  /\ \A u \in Tx : Started(u) => status[u] = "Done" /\ number[u] < number[t]
  /\ status' = [status EXCEPT ![t] = "Processing"]
  /\ UNCHANGED <<number, topic, seen>>

Finish(t) ==
  /\ status[t] = "Processing"
  /\ status' = [status EXCEPT ![t] = "Done"]
  /\ UNCHANGED <<number, topic, seen>>

Cancel(t) ==
  /\ status[t] = "Queued"
  /\ status' = [status EXCEPT ![t] = "Cancelled"]
  /\ UNCHANGED <<number, topic, seen>>

Observe(s) ==
  /\ \E v \in Passed(topic[s]) :
       /\ Rank[seen[s]] < Rank[v]
       /\ seen' = [seen EXCEPT ![s] = v]
  /\ UNCHANGED <<status, number, topic>>

Next ==
  \/ \E t \in Tx : Publish(t) \/ Start(t) \/ Finish(t) \/ Cancel(t)
  \/ \E s \in Sub : Observe(s)

Spec == Init /\ [][Next]_vars
=============================================================================
