---------------------------- MODULE BatchSession ----------------------------
(***************************************************************************)
(* MariaDB sessions and the batch executors that call back into them.      *)
(*                                                                         *)
(* handleSingleQuery holds c.mu while it waits in Enqueue for its result.  *)
(* The executor of a batch sends each request its result and then runs the *)
(* request's OnBatchComplete, which takes c.mu of that session, before it  *)
(* goes on to the next request.  Enqueue and executeBatch are WriteBatch;  *)
(* here a batch is any set of waiting sessions (sessions that send one     *)
(* statement text, so one batch key).                                      *)
(***************************************************************************)
EXTENDS Naturals, Sequences, FiniteSets

CONSTANTS
  Sessions,
  MaxWrites,   \* bound: writes of all sessions together
  Nobody

ASSUME WritesAssumption == MaxWrites \in Nat /\ Nobody \notin Sessions

\* Executors, in the order in which they take their batches.
Batches == 1..MaxWrites

VARIABLES
  pc,            \* whether each session is idle or in Enqueue
  mu,            \* holder of each session's c.mu: the session, or Nobody
  lastBatchSize, \* clientConn.lastBatchSize
  chan,          \* each request's ResultChan; a result is its BatchSize,
                 \* which is 0 in the result of a failed batch
  writes,        \* number of writes so far
  batch, idx,    \* each executor's requests, and its position in them
  failed,        \* whether each executor's batch failed
  xpc            \* where each executor is: none, send, callback or done

sessVars == <<pc, mu, lastBatchSize, chan, writes>>
execVars == <<batch, idx, failed, xpc>>
vars == <<sessVars, execVars>>

Init ==
  /\ pc = [s \in Sessions |-> "idle"]
  /\ mu = [s \in Sessions |-> Nobody]
  /\ lastBatchSize = [s \in Sessions |-> 0]
  /\ chan = [s \in Sessions |-> << >>]
  /\ writes = 0
  /\ batch = [b \in Batches |-> << >>]
  /\ idx = [b \in Batches |-> 1]
  /\ failed = [b \in Batches |-> FALSE]
  /\ xpc = [b \in Batches |-> "none"]

-----------------------------------------------------------------------------
(* Sessions *)

\* A batched write arrives: c.mu.Lock, and into Enqueue.
Enqueue(s) ==
  /\ pc[s] = "idle"
  /\ writes < MaxWrites
  /\ mu[s] = Nobody
  /\ mu' = [mu EXCEPT ![s] = s]
  /\ pc' = [pc EXCEPT ![s] = "queued"]
  /\ writes' = writes + 1
  /\ UNCHANGED <<lastBatchSize, chan, execVars>>

\* The rest of handleBatchedWrite: an error is reported and the size of the
\* batch is not kept; then the session is unlocked.
Reply(s) ==
  /\ pc[s] = "queued"
  /\ chan[s] # << >>
  /\ lastBatchSize' = [lastBatchSize EXCEPT ![s] = IF Head(chan[s]) > 0 THEN Head(chan[s]) ELSE @]
  /\ chan' = [chan EXCEPT ![s] = << >>]
  /\ pc' = [pc EXCEPT ![s] = "idle"]
  /\ mu' = [mu EXCEPT ![s] = Nobody]
  /\ UNCHANGED <<writes, execVars>>

-----------------------------------------------------------------------------
(* Executors *)

Size(b) == Len(batch[b])
At(b) == batch[b][idx[b]]

\* The requests to which the executor has yet to send a result, and their
\* sessions.
Pending(b) == {i \in 1..Size(b) : idx[b] < i \/ (idx[b] = i /\ xpc[b] = "send")}
Unsent(b) == {batch[b][i] : i \in Pending(b)}

\* A group whose requests an executor leaves in place when it takes them.
WaitingTwice ==
  {s \in Sessions : pc[s] = "queued" /\ chan[s] = << >>}

Waiting ==
  {s \in Sessions : pc[s] = "queued" /\ chan[s] = << >> /\ \A b \in Batches : s \notin Unsent(b)}

NoRepeats(order) == \A i, j \in DOMAIN order : order[i] = order[j] => i = j

\* executeBatch takes the group's requests, in the order in which they joined,
\* and the database executes them or fails.
TakeBatch(b) ==
  /\ xpc[b] = "none"
  /\ \A other \in Batches : other < b => xpc[other] # "none"
  /\ \E n \in 1..Cardinality(Waiting) : \E order \in [1..n -> Waiting] :
       /\ NoRepeats(order)
       /\ batch' = [batch EXCEPT ![b] = order]
  /\ \E fails \in BOOLEAN : failed' = [failed EXCEPT ![b] = fails]
  /\ xpc' = [xpc EXCEPT ![b] = "send"]
  /\ UNCHANGED <<sessVars, idx>>

Advance(b) ==
  /\ idx' = [idx EXCEPT ![b] = @ + 1]
  /\ xpc' = [xpc EXCEPT ![b] = IF idx[b] = Size(b) THEN "done" ELSE "send"]

Deliver(b) ==
  chan' = [chan EXCEPT ![At(b)] = Append(@, IF failed[b] THEN 0 ELSE Size(b))]

\* A batch that notifies the connection before it sends the result.
NotifyFirst(b) ==
  /\ xpc[b] = "send"
  /\ mu[At(b)] = Nobody
  /\ lastBatchSize' = [lastBatchSize EXCEPT ![At(b)] = Size(b)]
  /\ Deliver(b)
  /\ Advance(b)
  /\ UNCHANGED <<pc, mu, writes, batch, failed>>

\* req.ResultChan <- result.  A failed batch and a batch of one request have
\* no callback.
Send(b) ==
  /\ xpc[b] = "send"
  /\ Deliver(b)
  /\ IF failed[b] \/ Size(b) = 1
     THEN Advance(b)
     ELSE xpc' = [xpc EXCEPT ![b] = "callback"] /\ UNCHANGED idx
  /\ UNCHANGED <<pc, mu, lastBatchSize, writes, batch, failed>>

\* req.OnBatchComplete(len(requests)): lock c.mu, set lastBatchSize, unlock.
Callback(b) ==
  /\ xpc[b] = "callback"
  /\ mu[At(b)] = Nobody
  /\ lastBatchSize' = [lastBatchSize EXCEPT ![At(b)] = Size(b)]
  /\ Advance(b)
  /\ UNCHANGED <<pc, mu, chan, writes, batch, failed>>

-----------------------------------------------------------------------------
Next ==
  \/ \E s \in Sessions : Enqueue(s) \/ Reply(s)
  \/ \E b \in Batches : TakeBatch(b) \/ Send(b) \/ Callback(b)

\* Sessions and executors run; a batch is taken once somebody waits (its timer
\* fires).  A callback gets the lock if it is free again and again, as
\* sync.Mutex guarantees to a waiter.
Fairness ==
  /\ \A s \in Sessions : WF_vars(Reply(s))
  /\ \A b \in Batches : WF_vars(TakeBatch(b)) /\ WF_vars(Send(b)) /\ SF_vars(Callback(b))

Spec == Init /\ [][Next]_vars
FairSpec == Spec /\ Fairness
-----------------------------------------------------------------------------
(* Properties *)

\* Types.
TypeOK ==
  /\ pc \in [Sessions -> {"idle", "queued"}]
  /\ mu \in [Sessions -> Sessions \cup {Nobody}]
  /\ lastBatchSize \in [Sessions -> Nat]
  /\ chan \in [Sessions -> Seq(Nat)]
  /\ writes \in Nat
  /\ batch \in [Batches -> Seq(Sessions)]
  /\ idx \in [Batches -> Nat \ {0}]
  /\ failed \in [Batches -> BOOLEAN]
  /\ xpc \in [Batches -> {"none", "send", "callback", "done"}]

\* An executor in a callback waits for c.mu, which its session may hold while
\* it waits for another executor.  That executor always has a batch taken
\* later, so no circle of executors and sessions wait for each other.
WaitsForLaterBatch ==
  \A b, c \in Batches : xpc[b] = "callback" /\ At(b) \in Unsent(c) => b < c

\* Batches are taken in order, an executor that has results to send is at one
\* of its requests, and no request is in the hands of two executors.
ExecutorsInv ==
  /\ \A b, c \in Batches : xpc[b] = "none" /\ b < c => xpc[c] = "none"
  /\ \A b \in Batches : NoRepeats(batch[b])
  /\ \A b \in Batches : xpc[b] = "none" => Size(b) = 0 /\ idx[b] = 1
  /\ \A b \in Batches : xpc[b] \in {"send", "callback"} => idx[b] \in 1..Size(b)
  /\ \A b, c \in Batches : b # c => Unsent(b) \cap Unsent(c) = {}

\* The inductive invariant behind WaitsForLaterBatch.
IInv == TypeOK /\ ExecutorsInv /\ WaitsForLaterBatch

\* Every batched write is answered, although each session holds its c.mu while
\* it waits and the executor needs that lock before it serves the next one.
EveryWriteAnswered ==
  \A s \in Sessions : (pc[s] = "queued") ~> (pc[s] = "idle")
=============================================================================
