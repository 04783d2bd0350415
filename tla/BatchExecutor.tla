--------------------------- MODULE BatchExecutor ---------------------------
(***************************************************************************)
(* How executeBatch turns one batch into database work: the choice of a    *)
(* strategy (executeBatchedWrites, executeTrueBatchedInsert) and every     *)
(* strategy, one step per call to the database (writebatch/executor.go).   *)
(*                                                                         *)
(* The database is external.  Each call succeeds, is refused, or (when it  *)
(* commits something) takes effect while its answer is lost.  A statement  *)
(* outside a transaction commits by itself; other clients insert rows at   *)
(* any time.                                                               *)
(*                                                                         *)
(* A batch is described by what the code's string tests find out about its *)
(* query: an INSERT or DELETE that the executor can merge, any other query *)
(* ("other") or several different ones ("mixed"); whether it has RETURNING,*)
(* parameters (with $n or ? placeholders) or a column list, and how many   *)
(* rows its VALUES clause has.  auto is what the code does not look at:    *)
(* the rows of its INSERTs all get their ids from the table's counter, the *)
(* rows of one INSERT consecutive ones.  Without it (INSERT IGNORE, ids in *)
(* the text, the UPDATEs of SQLite) rows may be left out, and LastInsertId *)
(* is any id.                                                              *)
(***************************************************************************)
EXTENDS Integers, FiniteSets

CONSTANTS
  Sizes,      \* batch sizes
  MaxRows,    \* bound: rows in the VALUES clause of a query without parameters
  MaxId       \* bound: ids that other clients use up

ASSUME SizesAssumption == Sizes \subseteq Nat \ {0} /\ MaxRows \in Nat

VARIABLES
  job,      \* the batch
  stage,    \* where the executor is
  pos,      \* index of its loop over the requests
  results,  \* WriteResult of each request
  notified, \* OnBatchComplete was called for the requests
  pending,  \* requests executed in the open transaction
  applied,  \* how many times the database committed the statement of each request
  firstId,  \* id of the first row the database inserted for each request
  effect,   \* how many rows the database changed for each request
  nextId    \* the table's auto-increment counter

rowVars == <<firstId, effect, nextId>>
executorVars == <<job, stage, pos, results, notified, pending, applied, rowVars>>

Jobs ==
  {j \in [n : Sizes, kind : {"insert", "delete", "other", "mixed"}, returning : BOOLEAN,
          params : BOOLEAN, dollar : BOOLEAN, columns : BOOLEAN, rows : 1..MaxRows, auto : BOOLEAN,
          useCopy : BOOLEAN, simple : BOOLEAN, driver : {"mysql", "sqlite", "pq"}] :
     /\ j.rows > 1 => j.kind = "insert" /\ ~j.params
     /\ j.kind = "delete" => j.auto
     /\ j.kind # "insert" => ~j.useCopy /\ ~j.columns
     /\ j.simple => j.useCopy
     /\ ~j.params => ~j.dollar}

Reqs == 1..job.n

Result(id, rows, value) == [ok |-> TRUE, id |-> id, affected |-> rows, value |-> value]
Error == [ok |-> FALSE, id |-> 0, affected |-> 0, value |-> FALSE]

ExecInit ==
  /\ job \in Jobs
  /\ stage = "start"
  /\ pos = 1
  /\ results = [r \in Reqs |-> Error]
  /\ notified = FALSE
  /\ pending = {}
  /\ applied = [r \in Reqs |-> 0]
  /\ firstId = [r \in Reqs |-> 0]
  /\ effect = [r \in Reqs |-> 0]
  /\ nextId = 1

-----------------------------------------------------------------------------
Goto(label) == stage' = label /\ UNCHANGED <<results, notified>>

\* The batch ends: its results are sent, with the callbacks or without.
Finish(res, callbacks) == stage' = "done" /\ results' = res /\ notified' = callbacks
FailAllNotifying == Finish([r \in Reqs |-> Error], TRUE)
FailAll == Finish([r \in Reqs |-> Error], FALSE)
Succeed(res) == Finish(res, TRUE)

IsBatchableInsert == job.kind = "insert"
IsBatchableDelete == job.kind = "delete"
AllParamsAreSimple == job.simple
ContainsPostgresPlaceholder == job.dollar
ParseInsertStatement == job.columns

\* executeTrueBatchedInsert.
InsertStrategy ==
  IF job.useCopy /\ job.params /\ AllParamsAreSimple
  THEN IF ContainsPostgresPlaceholder THEN "copy" ELSE "load"
  ELSE "multi"

\* executeBatchedWrites.
BatchedStrategy ==
  IF job.kind = "mixed" THEN "mixedBegin"
  ELSE IF ~job.returning /\ IsBatchableInsert THEN InsertStrategy
  ELSE IF IsBatchableDelete THEN "delete"
  ELSE "preparedBegin"

Strategy == IF job.n = 1 THEN "single" ELSE BatchedStrategy

Dispatch ==
  /\ stage = "start"
  /\ Goto(Strategy)
  /\ UNCHANGED <<job, pos, pending, applied, rowVars>>

\* Database, external: the requests R commit.
Commit(R) == applied' = [r \in Reqs |-> IF r \in R THEN applied[r] + 1 ELSE applied[r]]

\* Database, external: request r inserts its rows, or changes some.
Change(r) ==
  \/ /\ job.kind # "delete" /\ job.auto
     /\ firstId' = [firstId EXCEPT ![r] = nextId]
     /\ nextId' = nextId + job.rows
     /\ effect' = [effect EXCEPT ![r] = job.rows]
  \/ /\ job.kind # "insert" \/ ~job.auto
     /\ \E m \in 0..1 : effect' = [effect EXCEPT ![r] = m]
     /\ UNCHANGED <<firstId, nextId>>

\* Driver, external: what LastInsertId may be when m rows got ids from f on (from
\* 0: none did).
LastInsertId(f, m) ==
  CASE job.driver = "pq"     -> {0}
    [] ~job.auto             -> {0, nextId - 1}
    [] f = 0                 -> {0}
    [] job.driver = "mysql"  -> {f}
    [] job.driver = "sqlite" -> {f + m - 1}

\* What Exec may report for request r, once it ran.
ExecResults(r) ==
  {Result(id, effect'[r], FALSE) : id \in LastInsertId(firstId'[r], job.rows)}

\* executeWrite.
ExecuteSingle ==
  /\ stage = "single"
  /\ \/ /\ Change(1)
        /\ Commit({1})
        /\ (\E res \in ExecResults(1) : Finish([results EXCEPT ![1] = res], FALSE)) \/ FailAll
     \/ FailAll /\ UNCHANGED <<applied, rowVars>>
  /\ UNCHANGED <<job, pos, pending>>

\* executeTrueBatchedDelete of requests without parameters, whose ? is text:
\* req.Params[0] panics, and the proxy with it.
PanicInDelete ==
  /\ stage = "delete"
  /\ ~job.params
  /\ Goto("panic")
  /\ UNCHANGED <<job, pos, pending, applied, rowVars>>

\* executeTrueBatchedDelete: one DELETE ... IN (...), and its total for everyone.
ExecuteDelete ==
  /\ stage = "delete"
  /\ job.params
  /\ \/ \E hit \in SUBSET Reqs :
          /\ effect' = [r \in Reqs |-> IF r \in hit THEN 1 ELSE 0]
          /\ Commit(Reqs)
          /\ Succeed([r \in Reqs |-> Result(0, Cardinality(hit), FALSE)]) \/ FailAll
     \/ FailAll /\ UNCHANGED <<applied, effect>>
  /\ UNCHANGED <<job, pos, pending, firstId, nextId>>

\* Database, external: one statement with the rows of every request, of which
\* those of kept are inserted.
InsertAll(kept) ==
  /\ firstId' = [r \in Reqs |-> IF r \in kept THEN nextId + (r - 1) * job.rows ELSE 0]
  /\ nextId' = nextId + job.n * job.rows
  /\ effect' = [r \in Reqs |-> IF r \in kept THEN job.rows ELSE 0]

NormalizeForgotten(rawId) == rawId
\* normalizeFirstInsertID.
NormalizeFirstInsertID(rawId) ==
  IF job.driver = "mysql" THEN rawId ELSE rawId - (job.n - 1)

\* executeTrueBatchedInsertMultiRow: one INSERT with the rows of every request.
ExecuteMultiRow ==
  /\ stage = "multi"
  /\ \/ /\ \E kept \in SUBSET Reqs : (job.auto => kept = Reqs) /\ InsertAll(kept)
        /\ Commit(Reqs)
        /\ \E rawId \in LastInsertId(nextId, job.n * job.rows) :
             \/ Succeed([r \in Reqs |-> Result(NormalizeFirstInsertID(rawId) + r - 1, 1, FALSE)])
             \/ FailAll
     \/ FailAll /\ UNCHANGED <<applied, rowVars>>
  /\ UNCHANGED <<job, pos, pending>>

-----------------------------------------------------------------------------
(* Strategies with a transaction *)

\* executeCopyBatchedInsert and executeLoadDataInfileBatchedInsert: without a
\* column list to parse, fall back to the multi-row INSERT.
ParseInsert ==
  /\ stage \in {"copy", "load"}
  /\ Goto(IF ~ParseInsertStatement THEN "multi" ELSE IF stage = "copy" THEN "copyBegin" ELSE "loadExec")
  /\ UNCHANGED <<job, pos, pending, applied, rowVars>>

Begin ==
  /\ stage \in {"preparedBegin", "mixedBegin", "copyBegin"}
  /\ \/ Goto(CASE stage = "preparedBegin" -> "prepare"
               [] stage = "mixedBegin"    -> "mixedExec"
               [] stage = "copyBegin"     -> "copyIn")
     \/ FailAll
  /\ UNCHANGED <<job, pos, pending, applied, rowVars>>

\* tx.Prepare; a failing COPY falls back to the multi-row INSERT.
Prepare ==
  /\ stage \in {"prepare", "copyIn"}
  /\ \/ Goto(IF stage = "prepare" THEN "preparedExec" ELSE "copyExec")
     \/ stage = "prepare" /\ FailAll
     \/ stage = "copyIn" /\ Goto("multi")
  /\ UNCHANGED <<job, pos, pending, applied, rowVars>>

\* One iteration of executePreparedBatch's loop: an error is kept as the result
\* of this request, and the loop goes on.
PreparedExec ==
  /\ stage = "preparedExec"
  /\ pos <= job.n
  /\ \/ /\ Change(pos)
        /\ pending' = pending \cup {pos}
        /\ \E res \in IF job.returning THEN {Result(0, 1, TRUE)} ELSE ExecResults(pos) :
             results' = [results EXCEPT ![pos] = res]
     \/ UNCHANGED <<pending, results, rowVars>>
  /\ pos' = pos + 1
  /\ UNCHANGED <<job, stage, notified, applied>>

\* After the loop: roll back and send the results if there was an error.
PreparedEnd ==
  /\ stage = "preparedExec"
  /\ pos > job.n
  /\ \/ /\ \E r \in Reqs : ~results[r].ok
        /\ Finish(results, FALSE)
        /\ pending' = {}
     \/ /\ \A r \in Reqs : results[r].ok
        /\ Goto("commit")
        /\ UNCHANGED pending
  /\ UNCHANGED <<job, pos, applied, rowVars>>

\* One iteration of executeTransactionBatch's loop: the first error ends the batch.
MixedExec ==
  /\ stage = "mixedExec"
  /\ pos <= job.n
  /\ \/ /\ Change(pos)
        /\ pending' = pending \cup {pos}
        /\ \E res \in ExecResults(pos) : results' = [results EXCEPT ![pos] = res]
        /\ stage' = IF pos = job.n THEN "commit" ELSE stage
        /\ UNCHANGED notified
     \/ FailAll /\ pending' = {} /\ UNCHANGED rowVars
  /\ pos' = pos + 1
  /\ UNCHANGED <<job, applied>>

BulkResult == Result(0, 1, FALSE)   \* COPY and LOAD DATA report no ids

\* COPY: each row, then the final Exec and Close of the statement (pos > n); any
\* error ends the batch.
CopyExec ==
  /\ stage = "copyExec"
  /\ \/ /\ pos <= job.n
        /\ Change(pos)
        /\ pending' = pending \cup {pos}
        /\ pos' = pos + 1
        /\ results' = [results EXCEPT ![pos] = BulkResult]
        /\ UNCHANGED <<stage, notified>>
     \/ /\ pos > job.n
        /\ Goto("commit")
        /\ UNCHANGED <<pos, pending, rowVars>>
     \/ /\ FailAll
        /\ pending' = {}
        /\ UNCHANGED <<pos, rowVars>>
  /\ UNCHANGED <<job, applied>>

\* LOAD DATA: Begin and Exec.  The server leaves rows that it cannot insert out
\* with a warning, which the code does not ask for; a failing Exec is rolled
\* back and falls back to the multi-row INSERT.
LoadExec ==
  /\ stage = "loadExec"
  /\ \/ /\ \E kept \in SUBSET Reqs : InsertAll(kept)
        /\ pending' = Reqs
        /\ stage' = "commit"
        /\ results' = [r \in Reqs |-> BulkResult]
        /\ UNCHANGED notified
     \/ FailAll /\ UNCHANGED <<pending, rowVars>>
     \/ Goto("multi") /\ UNCHANGED <<pending, rowVars>>
  /\ UNCHANGED <<job, pos, applied>>

CommitFailsOver == IF Strategy = "load" THEN Goto("multi") ELSE FailAll
CommitIgnored == Succeed(results)
CommitFails == FailAll

\* tx.Commit: done, refused, or done without an answer.
CommitTx ==
  /\ stage = "commit"
  /\ \/ Commit(pending) /\ (Succeed(results) \/ CommitFails)
     \/ CommitFails /\ UNCHANGED applied
  /\ pending' = {}
  /\ UNCHANGED <<job, pos, rowVars>>

\* Other clients insert rows.
Others ==
  /\ stage \notin {"done", "panic"}
  /\ nextId < MaxId
  /\ nextId' = nextId + 1
  /\ UNCHANGED <<job, stage, pos, results, notified, pending, applied, firstId, effect>>

ExecNext ==
  \/ Dispatch \/ ExecuteSingle \/ PanicInDelete \/ ExecuteDelete \/ ExecuteMultiRow
  \/ ParseInsert \/ Begin \/ Prepare \/ PreparedExec \/ PreparedEnd \/ MixedExec
  \/ CopyExec \/ LoadExec \/ CommitTx \/ Others

ExecSpec == ExecInit /\ [][ExecNext]_executorVars
-----------------------------------------------------------------------------
(* Properties *)

\* The database commits all requests of a batch or none, and never one of them
\* twice, although COPY and LOAD DATA fall back to a multi-row INSERT after an
\* error and the answer to a commit may be lost.
AppliedAllOrNone ==
  \A r, s \in Reqs : applied[r] = applied[s] /\ applied[r] <= 1

\* A request of an INSERT, DELETE or mixed batch that is told it succeeded is in
\* a statement that the database executed without an error and committed.  That
\* its row was inserted is more, and the code does not find out: a DELETE may
\* match nothing, and INSERT IGNORE and LOAD DATA LOCAL leave rows out.
AckedIsApplied ==
  stage = "done" /\ Strategy # "preparedBegin" => \A r \in Reqs : results[r].ok => applied[r] = 1

\* Each request inserts one row, which gets its id from the table's counter.
Numbered == job.auto /\ job.rows = 1

\* No request gets the insert id of another client's or another request's row:
\* it gets the id of its own row, or none, with MySQL, SQLite or PostgreSQL,
\* provided that every request inserts one row and gives it no id.  The code does
\* not test that: for INSERT IGNORE, for ids in the text and for several rows per
\* request it counts on from LastInsertId all the same, and nothing holds.
InsertIdIsOwn ==
  stage = "done" /\ Numbered => \A r \in Reqs :
    results[r].ok /\ results[r].id > 0 => results[r].id = firstId[r]

\* The callbacks run exactly when a batch of several requests succeeded as a
\* whole, which is what WriteBatch assumes of Run and Callback.
NotifiedIffAllSucceed ==
  stage = "done" => (notified <=> job.n > 1 /\ \A r \in Reqs : results[r].ok)

\* executor.go, executePreparedBatch: if any error occurred, rollback and send
\* errors; a request of a batch that was rolled back is not told it succeeded.
RolledBackIsNotAcked ==
  stage = "done" => \A r \in Reqs : results[r].ok => applied[r] = 1
-----------------------------------------------------------------------------
(* The inductive invariant behind the first four properties *)

ExecTypeOK ==
  /\ job \in Jobs
  /\ stage \in {"start", "single", "delete", "multi", "copy", "load", "copyBegin", "copyIn", "copyExec",
            "loadExec", "preparedBegin", "prepare", "preparedExec", "mixedBegin", "mixedExec",
            "commit", "done", "panic"}
  /\ pos \in Nat \ {0}
  /\ DOMAIN results = Reqs /\ \A r \in Reqs : results[r].id \in Int
  /\ pending \subseteq Reqs
  /\ applied \in [Reqs -> Nat]
  /\ firstId \in [Reqs -> Nat] /\ effect \in [Reqs -> Nat] /\ nextId \in Nat

\* The loops over the requests: what has run is in the transaction, and a request
\* that did not run has no result that says so.
LoopsInv ==
  /\ stage = "preparedExec" => \A r \in Reqs : results[r].ok <=> r \in pending
  /\ stage \in {"mixedExec", "copyExec"} =>
       /\ pos <= (IF stage = "mixedExec" THEN job.n ELSE job.n + 1)
       /\ pending = 1..(pos - 1)
       /\ \A r \in pending : results[r].ok
  /\ stage = "commit" => pending = Reqs /\ \A r \in Reqs : results[r].ok
  /\ stage \notin {"preparedExec", "mixedExec", "copyExec", "commit", "done"} =>
       pending = {} /\ pos = 1 /\ \A r \in Reqs : ~results[r].ok

\* Nothing is committed before the batch ends, so that a fallback to another
\* strategy starts from nothing; ids are kept with the rows they belong to.
ExecInv ==
  /\ ExecTypeOK
  /\ LoopsInv
  /\ stage \notin {"start", "done"} => (stage = "single" <=> job.n = 1)
  /\ stage \in {"preparedBegin", "prepare", "preparedExec"} => Strategy = "preparedBegin"
  /\ stage # "done" => ~notified /\ \A r \in Reqs : applied[r] = 0
  /\ Numbered => \A r \in Reqs : results[r].ok /\ results[r].id > 0 => results[r].id = firstId[r]
  /\ AppliedAllOrNone /\ AckedIsApplied /\ NotifiedIffAllSucceed
=============================================================================
