----------------------------- MODULE WriteBatch -----------------------------
(***************************************************************************)
(* The write-batch manager (writebatch/manager.go) and the batch execution *)
(* skeleton (executeBatch and executeSingle in writebatch/executor.go).    *)
(*                                                                         *)
(* A request is one call of Enqueue, run by its own goroutine.  A group is *)
(* one BatchGroup object.  An executor is one call of executeBatch: the    *)
(* executor g, for a group g, is the callback of that group's timer; the   *)
(* executor r, for a request r, is the goroutine that r starts when its    *)
(* append fills the batch.                                                 *)
(*                                                                         *)
(* Grain: every operation on the sync.Map, every load or store of closed,  *)
(* every critical section of group.mu and every channel operation is one   *)
(* step.  A critical section touches the map at most once, so it is atomic *)
(* as a whole.  What the database answers to a batch is any outcome that   *)
(* BatchExecutor can produce for it: each request fails or succeeds.       *)
(***************************************************************************)
EXTENDS Integers, Sequences, FiniteSets

CONSTANTS
  Requests,      \* calls of Enqueue
  Groups,        \* BatchGroup objects that may be allocated
  Keys,          \* batch keys
  KeyOf,         \* the batchKey argument of each call
  Immediate,     \* the calls with batchMs = 0
  Cancellable,   \* the calls whose context can be cancelled
  MaxBatchSize,  \* config.MaxBatchSize
  NoGroup        \* absent entry of the map, or no group looked up yet

ASSUME ConstantsAssumption ==
  /\ KeyOf \in [Requests -> Keys]
  /\ Immediate \subseteq Requests
  /\ Cancellable \subseteq Requests
  /\ MaxBatchSize \in Nat
  /\ Requests \cap Groups = {}
  /\ NoGroup \notin Groups

VARIABLES
  closed,        \* m.closed
  closeReturned, \* Close has slept its 200 ms and returned
  groups,        \* m.groups: the group stored under each key
  born,          \* groups that were ever stored in the map
  reqs,          \* group.Requests, <<>> once it is nil
  taken,         \* group.Requests == nil
  timer,         \* group.timer
  pc,            \* where each call of Enqueue is
  grp,           \* the group each call works on
  chan,          \* req.ResultChan, a channel with a buffer of one
  got,           \* what each call returned
  xpc,           \* where each call of executeBatch is
  batch,         \* its local variable requests
  idx,           \* index of its delivery loop
  results        \* what the database answered, per request of the batch

mapVars  == <<groups, born>>
grpVars  == <<reqs, taken, timer>>
callVars == <<pc, grp, got>>
execVars == <<xpc, batch, idx, results>>
vars == <<closed, closeReturned, mapVars, grpVars, callVars, chan, execVars>>

Executors == Groups \cup Requests

GroupOf(e) == IF e \in Groups THEN e ELSE grp[e]

Elems(s) == {s[i] : i \in DOMAIN s}

Answer  == {"ok", "err"}                      \* of the database
Results == Answer \cup {"closed", "cancelled"} \* of Enqueue

CallPc == {"idle", "retry", "immediate", "lookup", "join", "spawn", "waiting", "done"}
ExecPc == {"none", "check", "take", "unmap", "run", "send", "callback", "done",
           "readClosed", "refuse", "refused"}

Joined  == {"spawn", "waiting", "done"}   \* the call's request was appended
Took    == {"unmap", "run", "send", "callback", "done"} \* the executor owns its batch

\* Types; the buffer of a ResultChan never holds more than one result.
TypeOK ==
  /\ closed \in BOOLEAN
  /\ closeReturned \in BOOLEAN
  /\ groups \in [Keys -> Groups \cup {NoGroup}]
  /\ born \subseteq Groups
  /\ reqs \in [Groups -> Seq(Requests)]
  /\ taken \in [Groups -> BOOLEAN]
  /\ timer \in [Groups -> {"unset", "armed", "stopped", "fired"}]
  /\ pc \in [Requests -> CallPc]
  /\ grp \in [Requests -> Groups \cup {NoGroup}]
  /\ chan \in [Requests -> {s \in Seq(Results) : Len(s) <= 1}]
  /\ got \in [Requests -> Results \cup {"none"}]
  /\ xpc \in [Executors -> ExecPc]
  /\ batch \in [Executors -> Seq(Requests)]
  /\ idx \in [Executors -> Nat]
  /\ results \in [Executors -> Seq(Answer)]

Init ==
  /\ closed = FALSE
  /\ closeReturned = FALSE
  /\ groups = [k \in Keys |-> NoGroup]
  /\ born = {}
  /\ reqs = [g \in Groups |-> <<>>]
  /\ taken = [g \in Groups |-> FALSE]
  /\ timer = [g \in Groups |-> "unset"]
  /\ pc = [r \in Requests |-> "idle"]
  /\ grp = [r \in Requests |-> NoGroup]
  /\ chan = [r \in Requests |-> <<>>]
  /\ got = [r \in Requests |-> "none"]
  /\ xpc = [e \in Executors |-> "none"]
  /\ batch = [e \in Executors |-> <<>>]
  /\ idx = [e \in Executors |-> 1]
  /\ results = [e \in Executors |-> <<>>]

-----------------------------------------------------------------------------
(* Enqueue *)

Return(r, res) ==
  /\ pc' = [pc EXCEPT ![r] = "done"]
  /\ got' = [got EXCEPT ![r] = res]

\* The closed check and the batchMs = 0 test that open every (recursive) call.
Enter(r) ==
  /\ \/ /\ closed
        /\ Return(r, "closed")
     \/ /\ ~closed
        /\ pc' = [pc EXCEPT ![r] = IF r \in Immediate THEN "immediate" ELSE "lookup"]
        /\ UNCHANGED got
  /\ UNCHANGED <<closed, closeReturned, mapVars, grpVars, grp, chan, execVars>>

Enqueue(r) == pc[r] = "idle" /\ Enter(r)

Retry(r) == pc[r] = "retry" /\ Enter(r)

ExecuteImmediate(r) ==
  /\ pc[r] = "immediate"
  /\ \E res \in Answer : Return(r, res)
  /\ UNCHANGED <<closed, closeReturned, mapVars, grpVars, grp, chan, execVars>>

\* Allocation of a BatchGroup that was not in use before.
ReusedGroup == CHOOSE g \in Groups : TRUE
NewGroup == CHOOSE g \in Groups : g \notin born

\* groups.Load, then groups.LoadOrStore of a new group when there is none.
Lookup(r) ==
  LET k == KeyOf[r] IN
  /\ pc[r] = "lookup"
  /\ pc' = [pc EXCEPT ![r] = "join"]
  /\ \/ /\ groups[k] # NoGroup
        /\ grp' = [grp EXCEPT ![r] = groups[k]]
        /\ UNCHANGED mapVars
     \/ /\ groups[k] = NoGroup
        /\ Groups \ born # {}
        /\ groups' = [groups EXCEPT ![k] = NewGroup]
        /\ born' = born \cup {NewGroup}
        /\ grp' = [grp EXCEPT ![r] = NewGroup]
  /\ UNCHANGED <<closed, closeReturned, grpVars, got, chan, execVars>>

\* The group was executed between the lookup and the lock: start over.
JoinTaken(r) ==
  /\ pc[r] = "join"
  /\ taken[grp[r]]
  /\ pc' = [pc EXCEPT ![r] = "retry"]
  /\ UNCHANGED <<closed, closeReturned, mapVars, grpVars, grp, got, chan, execVars>>

IsFirstAfterAppend(g) == Len(reqs[g]) + 1 = 0
IsFirst(g) == Len(reqs[g]) = 0

\* The critical section of Enqueue: append, and start the timer (first
\* request), or drop the group from the map (batch full), or neither.
Join(r) ==
  LET g == grp[r]
      n == Len(reqs[g]) + 1
  IN
  /\ pc[r] = "join"
  /\ ~taken[g]
  /\ reqs' = [reqs EXCEPT ![g] = Append(@, r)]
  /\ \/ /\ IsFirst(g)
        /\ timer' = [timer EXCEPT ![g] = "armed"]
        /\ pc' = [pc EXCEPT ![r] = "waiting"]
        /\ UNCHANGED groups
     \/ /\ ~IsFirst(g) /\ n >= MaxBatchSize
        /\ groups' = [groups EXCEPT ![KeyOf[r]] = NoGroup]
        /\ pc' = [pc EXCEPT ![r] = "spawn"]
        /\ UNCHANGED timer
     \/ /\ ~IsFirst(g) /\ n < MaxBatchSize
        /\ pc' = [pc EXCEPT ![r] = "waiting"]
        /\ UNCHANGED <<groups, timer>>
  /\ UNCHANGED <<closed, closeReturned, born, taken, grp, got, chan, execVars>>

\* After the unlock: stop the timer if it has not fired, and start an executor.
Spawn(r) ==
  LET g == grp[r] IN
  /\ pc[r] = "spawn"
  /\ pc' = [pc EXCEPT ![r] = "waiting"]
  /\ timer' = [timer EXCEPT ![g] = IF @ = "armed" THEN "stopped" ELSE @]
  /\ xpc' = [xpc EXCEPT ![r] = "check"]
  /\ UNCHANGED <<closed, closeReturned, mapVars, reqs, taken, grp, got, chan,
                 batch, idx, results>>

\* The select: a result arrives, or the context is cancelled.
Receive(r) ==
  /\ pc[r] = "waiting"
  /\ chan[r] # <<>>
  /\ Return(r, Head(chan[r]))
  /\ chan' = [chan EXCEPT ![r] = Tail(@)]
  /\ UNCHANGED <<closed, closeReturned, mapVars, grpVars, grp, execVars>>

Cancel(r) ==
  /\ r \in Cancellable
  /\ pc[r] = "waiting"
  /\ Return(r, "cancelled")
  /\ UNCHANGED <<closed, closeReturned, mapVars, grpVars, grp, chan, execVars>>

-----------------------------------------------------------------------------
(* executeBatch *)

TimerFires(g) ==
  /\ timer[g] = "armed"
  /\ timer' = [timer EXCEPT ![g] = "fired"]
  /\ xpc' = [xpc EXCEPT ![g] = "check"]
  /\ UNCHANGED <<closed, closeReturned, mapVars, reqs, taken, callVars, chan,
                 batch, idx, results>>

Goto(e, label) == xpc' = [xpc EXCEPT ![e] = label]

CheckClosedInverted(e) ==
  /\ xpc[e] = "check"
  /\ Goto(e, IF closed THEN "take" ELSE "readClosed")
  /\ UNCHANGED <<closed, closeReturned, mapVars, grpVars, callVars, chan,
                 batch, idx, results>>

CheckClosed(e) ==
  /\ xpc[e] = "check"
  /\ Goto(e, IF closed THEN "readClosed" ELSE "take")
  /\ UNCHANGED <<closed, closeReturned, mapVars, grpVars, callVars, chan,
                 batch, idx, results>>

\* The closed path reads the requests and leaves the group as it is.
ReadClosed(e) ==
  /\ xpc[e] = "readClosed"
  /\ batch' = [batch EXCEPT ![e] = reqs[GroupOf(e)]]
  /\ Goto(e, IF reqs[GroupOf(e)] = <<>> THEN "refused" ELSE "refuse")
  /\ UNCHANGED <<closed, closeReturned, mapVars, grpVars, callVars, chan, idx, results>>

\* A send blocks while the buffer of one is full.
Deliver(r, res) ==
  /\ chan[r] = <<>>
  /\ chan' = [chan EXCEPT ![r] = <<res>>]

LastIdx(e) == idx[e] = Len(batch[e])

Refuse(e) ==
  /\ xpc[e] = "refuse"
  /\ Deliver(batch[e][idx[e]], "closed")
  /\ idx' = [idx EXCEPT ![e] = @ + 1]
  /\ Goto(e, IF LastIdx(e) THEN "refused" ELSE "refuse")
  /\ UNCHANGED <<closed, closeReturned, mapVars, grpVars, callVars, batch, results>>

TakeKeeping(e) ==
  /\ xpc[e] = "take"
  /\ batch' = [batch EXCEPT ![e] = reqs[GroupOf(e)]]
  /\ Goto(e, "unmap")
  /\ UNCHANGED <<closed, closeReturned, mapVars, grpVars, callVars, chan, idx, results>>

\* The critical section of executeBatch: requests are moved out of the group.
Take(e) ==
  LET g == GroupOf(e) IN
  /\ xpc[e] = "take"
  /\ batch' = [batch EXCEPT ![e] = reqs[g]]
  /\ reqs' = [reqs EXCEPT ![g] = <<>>]
  /\ taken' = [taken EXCEPT ![g] = TRUE]
  /\ Goto(e, "unmap")
  /\ UNCHANGED <<closed, closeReturned, mapVars, timer, callVars, chan, idx, results>>

UnmapNothing(e) ==
  /\ xpc[e] = "unmap"
  /\ Goto(e, IF batch[e] = <<>> THEN "done" ELSE "run")
  /\ UNCHANGED <<closed, closeReturned, mapVars, grpVars, callVars, chan, batch, idx, results>>

\* groups.CompareAndDelete; a batch that another executor took is empty.
Unmap(e) ==
  /\ xpc[e] = "unmap"
  /\ groups' = [k \in Keys |-> IF groups[k] = GroupOf(e) THEN NoGroup ELSE groups[k]]
  /\ Goto(e, IF batch[e] = <<>> THEN "done" ELSE "run")
  /\ UNCHANGED <<closed, closeReturned, born, grpVars, callVars, chan, batch, idx, results>>

\* executeSingle's or executeBatchedWrites' work on the database.
Run(e) ==
  /\ xpc[e] = "run"
  /\ \E res \in [DOMAIN batch[e] -> Answer] :
       results' = [results EXCEPT ![e] = res]
  /\ Goto(e, "send")
  /\ UNCHANGED <<closed, closeReturned, mapVars, grpVars, callVars, chan, batch, idx>>

\* OnBatchComplete is called when a batch of several requests succeeded.
Notifies(e) == Len(batch[e]) > 1 /\ \A i \in DOMAIN results[e] : results[e][i] = "ok"

Advance(e) ==
  /\ idx' = [idx EXCEPT ![e] = @ + 1]
  /\ Goto(e, IF LastIdx(e) THEN "done" ELSE "send")

FirstAnswer(e) == results[e][1]
AnswerFor(e) == results[e][idx[e]]

Send(e) ==
  /\ xpc[e] = "send"
  /\ Deliver(batch[e][idx[e]], AnswerFor(e))
  /\ \/ Notifies(e) /\ Goto(e, "callback") /\ UNCHANGED idx
     \/ ~Notifies(e) /\ Advance(e)
  /\ UNCHANGED <<closed, closeReturned, mapVars, grpVars, callVars, batch, results>>

\* The callback itself runs in the caller's connection (see BatchSession).
Callback(e) ==
  /\ xpc[e] = "callback"
  /\ Advance(e)
  /\ UNCHANGED <<closed, closeReturned, mapVars, grpVars, callVars, chan, batch, results>>

-----------------------------------------------------------------------------
(* Close *)

Close ==
  /\ ~closed
  /\ closed' = TRUE
  /\ UNCHANGED <<closeReturned, mapVars, grpVars, callVars, chan, execVars>>

CloseReturns ==
  /\ closed /\ ~closeReturned
  /\ closeReturned' = TRUE
  /\ UNCHANGED <<closed, mapVars, grpVars, callVars, chan, execVars>>

-----------------------------------------------------------------------------
CallStep(r) ==
  Retry(r) \/ ExecuteImmediate(r) \/ Lookup(r) \/ JoinTaken(r) \/ Join(r) \/ Spawn(r)
  \/ Receive(r)

ExecStep(e) ==
  CheckClosed(e) \/ ReadClosed(e) \/ Refuse(e) \/ Take(e) \/ Unmap(e) \/ Run(e)
  \/ Send(e) \/ Callback(e)

OpenNext ==
  \/ \E r \in Requests : Enqueue(r) \/ CallStep(r) \/ Cancel(r)
  \/ \E g \in Groups : TimerFires(g)
  \/ \E e \in Executors : ExecStep(e)

Next == OpenNext \/ Close \/ CloseReturns

\* The scheduler runs every goroutine and every timer fires; nobody has to
\* call Enqueue, to cancel, or to close the manager.
Fairness ==
  /\ \A r \in Requests : WF_vars(CallStep(r))
  /\ \A g \in Groups : WF_vars(TimerFires(g))
  /\ \A e \in Executors : WF_vars(ExecStep(e))

Spec == Init /\ [][Next]_vars

\* The life of the manager before Close is called.
OpenSpec     == Init /\ [][OpenNext]_vars
FairOpenSpec == OpenSpec /\ Fairness
-----------------------------------------------------------------------------
(* Properties *)

Owns(e, r) == xpc[e] \in Took /\ r \in Elems(batch[e])

Executed(r) == \E e \in Executors : xpc[e] \in {"send", "callback", "done"} /\ Owns(e, r)

\* A write is executed at most once: the timer's executeBatch and the ones
\* started by calls that found the batch full may all run on one group, and
\* one request is in the batch of at most one of them, at one position.
BatchesDisjoint ==
  \A e, f \in Executors : xpc[e] \in Took /\ xpc[f] \in Took =>
    \A i \in DOMAIN batch[e], j \in DOMAIN batch[f] :
      batch[e][i] = batch[f][j] => e = f /\ i = j

\* Only writes with the same batch key are executed together, although calls
\* keep using a group after it was dropped from the map or replaced there.
OneKeyPerBatch ==
  \A e \in Executors : \A i, j \in DOMAIN batch[e] :
    KeyOf[batch[e][i]] = KeyOf[batch[e][j]]

\* An executor still to come will look at the requests of group g.
ExecutorComing(g) ==
  \/ timer[g] = "armed"
  \/ \E r \in Requests : pc[r] = "spawn" /\ grp[r] = g
  \/ \E e \in Executors : xpc[e] \in {"check", "take"} /\ GroupOf(e) = g

\* An executor has still to send r its result.
ResultComing(r) ==
  \E e \in Executors :
    /\ xpc[e] \in {"unmap", "run", "send", "callback"}
    /\ \E i \in idx[e]..Len(batch[e]) :
         batch[e][i] = r /\ (xpc[e] = "callback" => i > idx[e])

\* Nobody waits for a result that no one will send: as long as the manager is
\* open, a call in its select has a result in its channel, or is in a group
\* that an executor is going to take, or in a batch being executed.
NobodyStranded ==
  \A r \in Requests : pc[r] \in {"spawn", "waiting"} =>
    \/ chan[r] # <<>>
    \/ r \in Elems(reqs[grp[r]]) /\ ExecutorComing(grp[r])
    \/ ResultComing(r)

\* executeBatch never blocks on a result channel, whatever happened to the
\* caller: the buffer of one is empty when it sends, because nobody else sent.
SendNeverBlocks ==
  \A e \in Executors : xpc[e] = "send" => chan[batch[e][idx[e]]] = <<>>

\* What Enqueue returns is the database's answer for this very request in the
\* batch that executed it.
AnswerIsOwn ==
  \A r \in Requests \ Immediate : got[r] \in Answer =>
    \E e \in Executors : \E i \in DOMAIN results[e] :
      Owns(e, r) /\ batch[e][i] = r /\ results[e][i] = got[r]

\* types.go: a batch executes and each of its operations receives its result,
\* so a call never reports "manager is closed" for a write that was executed.
ExecutedIsNotRefused ==
  \A r \in Requests : Executed(r) => got[r] # "closed"

-----------------------------------------------------------------------------
(* The inductive invariant behind BatchesDisjoint and OneKeyPerBatch *)

\* Groups in use were stored, each under one key; the calls that work on a
\* group all have that key.
MapInv ==
  /\ \A k \in Keys : groups[k] # NoGroup => groups[k] \in born
  /\ \A r \in Requests : grp[r] # NoGroup => grp[r] \in born
  /\ \A k, l \in Keys : groups[k] # NoGroup /\ groups[k] = groups[l] => k = l
  /\ \A r \in Requests, k \in Keys : grp[r] # NoGroup /\ groups[k] = grp[r] => KeyOf[r] = k
  /\ \A r, s \in Requests : grp[r] # NoGroup /\ grp[r] = grp[s] => KeyOf[r] = KeyOf[s]

\* A call that reached the lock has a group, and so has a running executor.
CallInv ==
  /\ \A r \in Requests : pc[r] \in {"join", "spawn", "waiting"} => grp[r] \in Groups
  /\ \A r \in Requests : xpc[r] # "none" => pc[r] \in {"waiting", "done"} /\ grp[r] \in Groups
  /\ \A e \in Executors : xpc[e] = "none" => batch[e] = <<>>

\* The requests of a group were appended to it, each once.
GroupInv ==
  \A g \in Groups :
    /\ taken[g] => reqs[g] = <<>>
    /\ \A i \in DOMAIN reqs[g] : pc[reqs[g][i]] \in Joined /\ grp[reqs[g][i]] = g
    /\ \A i, j \in DOMAIN reqs[g] : reqs[g][i] = reqs[g][j] => i = j

\* The requests of a batch come from the executor's group, each once.
BatchInv ==
  \A e \in Executors :
    /\ xpc[e] \in Took => taken[GroupOf(e)]
    /\ \A i \in DOMAIN batch[e] : pc[batch[e][i]] \in Joined /\ grp[batch[e][i]] = GroupOf(e)
    /\ \A i, j \in DOMAIN batch[e] : batch[e][i] = batch[e][j] => i = j

\* Of the executors that took a group's requests, one found any.
OneTaker ==
  \A e, f \in Executors :
    /\ xpc[e] \in Took /\ xpc[f] \in Took
    /\ batch[e] # <<>> /\ batch[f] # <<>>
    /\ GroupOf(e) = GroupOf(f)
    => e = f

\* The timer of a group is armed once, by its first request.
TimerInv ==
  \A g \in Groups :
    /\ timer[g] # "unset" => taken[g] \/ reqs[g] # <<>>
    /\ xpc[g] # "none" => timer[g] = "fired"

\* The delivery loops stay within the batch, and the answers match it.
LoopInv ==
  \A e \in Executors :
    /\ xpc[e] \in {"none", "check", "take", "unmap", "run", "readClosed"} => idx[e] = 1
    /\ xpc[e] = "run" => batch[e] # <<>>
    /\ xpc[e] \in {"send", "callback", "refuse"} => idx[e] \in DOMAIN batch[e]
    /\ xpc[e] \in {"send", "callback"} => DOMAIN results[e] = DOMAIN batch[e]

\* Holds through Enqueue, executeBatch and Close.
IInv ==
  /\ TypeOK /\ MapInv /\ CallInv /\ GroupInv
  /\ BatchInv /\ OneTaker /\ TimerInv /\ LoopInv

-----------------------------------------------------------------------------
(* The inductive invariant behind AnswerIsOwn *)

\* The database answered res for r, in the batch that executed it.
AnsweredWith(r, res) ==
  \E e \in Executors : /\ xpc[e] \in {"send", "callback", "done"}
                       /\ \E i \in DOMAIN batch[e] :
                            i \in DOMAIN results[e] /\ batch[e][i] = r /\ results[e][i] = res

\* An answer of the database that is in a channel, or was received from it, is
\* that of the request: holds with Close, whose refusals are no such answers.
OwnInv ==
  /\ \A r \in Requests : chan[r] # <<>> /\ Head(chan[r]) \in Answer => AnsweredWith(r, Head(chan[r]))
  /\ \A r \in Requests \ Immediate : got[r] \in Answer => AnsweredWith(r, got[r])
  /\ \A r \in Requests : pc[r] = "immediate" => r \in Immediate

-----------------------------------------------------------------------------
(* The inductive invariant of the open manager, behind SendNeverBlocks,    *)
(* NobodyStranded and the service below                                    *)

\* No executor takes the closed path; a call has no answer before it returns;
\* calls with batchMs = 0 work on no group.
OpenCalls ==
  /\ ~closed
  /\ \A e \in Executors : xpc[e] \notin {"readClosed", "refuse", "refused"}
  /\ \A r \in Requests : pc[r] # "done" => got[r] = "none"
  /\ \A r \in Requests : pc[r] = "immediate" => r \in Immediate
  /\ \A r \in Immediate : pc[r] \in {"idle", "immediate", "done"} /\ grp[r] = NoGroup

\* The executor e has not sent the result of the i-th request of its batch.
Unsent(e, i) ==
  \/ xpc[e] \in {"unmap", "run", "send"} /\ i >= idx[e]
  \/ xpc[e] = "callback" /\ i > idx[e]

\* The channel of a request is empty until its result is sent.
UnsentInv ==
  /\ \A r \in Requests : pc[r] \notin Joined => chan[r] = <<>>
  /\ \A g \in Groups : \A i \in DOMAIN reqs[g] : chan[reqs[g][i]] = <<>>
  /\ \A e \in Executors : \A i \in DOMAIN batch[e] : Unsent(e, i) => chan[batch[e][i]] = <<>>

\* What is in a channel, or was received from it, is the database's answer.
AnswersInv ==
  /\ \A r \in Requests : chan[r] # <<>> => AnsweredWith(r, Head(chan[r]))
  /\ \A r \in Requests \ Immediate : got[r] \in Answer => AnsweredWith(r, got[r])

\* A call in its select has a result, or is in a group or in a batch; and every
\* group with requests has an executor to come.
ComingInv ==
  /\ \A g \in Groups : reqs[g] # <<>> => ExecutorComing(g)
  /\ \A r \in Requests : pc[r] \in {"spawn", "waiting"} =>
       \/ chan[r] # <<>>
       \/ r \in Elems(reqs[grp[r]])
       \/ \E e \in Executors : \E i \in DOMAIN batch[e] : Unsent(e, i) /\ batch[e][i] = r

\* Holds until Close is called.
OpenInv == IInv /\ OpenCalls /\ UnsentInv /\ AnswersInv /\ ComingInv

-----------------------------------------------------------------------------
(* The service that the open manager implements *)

Performed(r) == IF r \in Immediate THEN got[r] \in Answer ELSE Executed(r)

OpOf(r) ==
  IF pc[r] = "idle" THEN "new" ELSE IF Performed(r) THEN "performed" ELSE "queued"

ReplyOf(r) ==
  IF got[r] = "none" THEN "none"
  ELSE IF got[r] = "cancelled" THEN "gaveUp" ELSE "answered"

Service == INSTANCE WriteService WITH
  op    <- [r \in Requests |-> OpOf(r)],
  reply <- [r \in Requests |-> ReplyOf(r)]

\* Until Close, the manager implements the service: writes are performed with
\* others of their key only, no caller is answered for a write that was not
\* performed, and what was performed or answered stays so.
ImplementsService == Service!Spec

\* Nor is a write left queued, or performed and not answered.
ServiceLive == Service!Live
=============================================================================
