# A TLA+ verification of tqdbproxy

tqdbproxy is a proxy in front of MariaDB and PostgreSQL. It caches SELECTs,
merges writes into batches, spreads reads over replicas and routes sessions to
shards. This directory holds TLA+ models of its parts, translated from the Go
code under `src/`, the TLC configurations that check them on small instances, and
proofs for TLAPS that hold for every instance. `PROJECT.json` maps every
definition to the lines it models.

## 1. The system

| part | source | state | operations that change it |
|---|---|---|---|
| write-batch manager | `writebatch/manager.go`, `executor.go` | `groups` (a `sync.Map` from batch key to `BatchGroup`), each group's requests, timer and lock, one buffered channel per request, `closed` | `Enqueue`, the timer, `executeBatch`, `Close` |
| write-batch executor | `writebatch/executor.go` | one batch, one database connection pool | seven strategies: single, merged INSERT, merged DELETE, prepared, mixed transaction, COPY, LOAD DATA |
| query cache | `cache/cache.go` | entries in tqmemory (fresh, stale, gone), the `inflight` map of flights | `Get`, `GetOrWait`, `SetAndNotify`, `CancelInflight`, expiry |
| replica pool | `replica/pool.go` | primary, replicas, health map, round-robin index | `GetReplica`, `UpdateReplicas`, `MarkHealthy`, `MarkUnhealthy`, periodic probes |
| MariaDB session | `mariadb/mariadb.go` | the backend connection with address, pool and name, current database, transaction flag, prepared statements, last batch size, `c.mu` | one per command: `USE`, `BEGIN`, `COMMIT`, `ROLLBACK`, queries, `SHOW TQDB STATUS`, the `COM_STMT_*` commands |
| PostgreSQL session | `postgres/postgres.go` | the same, with portals and statements of the extended protocol | one per message |
| query parser | `parser/parser.go` | none | pure functions on the text of a query |
| configuration, reload | `config/config.go`, `cmd/tqdbproxy/main.go` | the pools and the shard map | start, SIGHUP |
| metrics | `metrics/metrics.go` | counters that nothing reads back | increments |

How they interact. Each client has a goroutine that handles one command at a time
under `c.mu`. A cacheable SELECT asks the cache first, and on a miss becomes the
fetcher of a flight or waits for one. It is then sent to what the pool's
`GetReplica` returns. A write with a batch hint goes to `Enqueue` and waits
there, **holding `c.mu`**. The batch is executed by the goroutine of a timer or of a
call that filled it. That goroutine sends every request its result and runs the
request's `OnBatchComplete`, **which locks `c.mu`** of that session. A reload changes
the lists inside the pools that sessions and probes hold, pool by pool, and then
gives each proxy its new configuration. Both proxies and all sessions share one cache.

What is hard here, and where it is modelled:

- executors of one group race: the timer's, and one per call that found the group
  full, with calls that looked the group up before it was taken (`WriteBatch`);
- `Close` between any two steps of a call or an executor (`WriteBatch`);
- a batch fails half way, falls back to another strategy, or commits without an
  answer (`BatchExecutor`);
- sessions wait for executors and executors wait for sessions (`BatchSession`);
- fetchers fail, waiters time out, entries expire and are evicted while flights
  are registered and closed by different sessions (`QueryCache`);
- probes end late or out of order, or read half of a list that is being
  replaced (`ReplicaPool`);
- a connection is lost, or the server answers with an error, at every exchange of
  every command, and the session's idea of database, transaction, shard and
  statements has to stay right, while reloads move its backends (`MariaDBSession`);
- the end of a response has to be guessed from first bytes and counted EOF packets,
  and the results of several statements are one response to the client, out of the
  cache, the server or a batch (`MariaDBWire`);
- portals, statements and parameters are three maps that messages change
  separately; transactions are tracked by text while `database/sql` replaces lost
  connections unnoticed; simple and prepared queries of all sessions share the cache
  under keys of two forms (`PostgresSession`);
- a session looks its pool up in the middle of a reload (`Reload`, `PostgresSession`).

`PROJECT.json` lists these hazards one by one with the line where they bite and the
properties that would notice.

## 2. The modules

| module | models | instance for TLC | proofs |
|---|---|---|---|
| `WriteBatch` | the manager: `Enqueue`, the timer, `executeBatch`, `Close` | `MCWriteBatch` | `WriteBatchProofs`, `WriteServiceProofs` |
| `WriteService` | what the manager promises its callers (abstract) | as a property of `WriteBatch` | `WriteServiceProofs` |
| `BatchExecutor` | one batch, every strategy | `BatchLoad`; itself for `BatchExecutorRollback` | `BatchExecutorProofs` |
| `LoadData` | the LOAD DATA payload and the server's reader | `BatchLoad`, with `BatchExecutor` | `BatchLoadProofs` |
| `BatchSession` | sessions composed with the executors that call back | itself | `MariaDBProofs` |
| `QueryCache` | the cache and the queries that use it | `MCQueryCache` | `ReadProofs` |
| `ReplicaPool` | one pool: reads, reloads, probes | `MCReplicaPool` | `ReadProofs` |
| `MariaDBSession` | one MariaDB client session | `MCMariaDB`, `MCMariaDBSession` | `MariaDBSessionProofs` |
| `MariaDBWire` | the packets of its exchanges with server and client | `MCMariaDB` | `MariaDBProofs` |
| `QueryParser` | what the parser makes of a query | through `PostgresSession` | |
| `Reload` | the configuration, its reload, the pools of both proxies | through `PostgresSession` | `PostgresProofs` |
| `PostgresSession` | one PostgreSQL client session, during reloads | `MCPostgres` | `PostgresProofs` |

### WriteBatch

A request is one call of `Enqueue`; `pc[r]` is where it is, `grp[r]` the group it
looked up, `chan[r]` its `ResultChan`, and `got[r]` what it returned. An executor is
one call of `executeBatch`. It is named after the group (the timer's) or the
request (a full batch's) that starts it, since each starts at most one. `Join` and
`Take` are the two critical sections under `group.mu`; the look-up, the unlock, the
spawning of an executor, the closed check, the removal from the map, each send and
each callback are steps of their own. Groups come from a finite set, one per
allocation; with as many groups as requests the bound is never felt. The
database's work (`Run`) is `BatchExecutor`, here any vector of answers.

### WriteService

The abstract service: a write is submitted, performed together with writes of its
own key only, and answered afterwards unless its caller gave up. The refinement
mapping is at the end of `WriteBatch`: a write is performed when the executor that
owns it has got past the database.

### BatchExecutor

`job` describes a batch by what the string tests of the code find out about it, and
`Dispatch` is the choice the code makes. Then there is one step per call to the
database. Each call succeeds, is refused, or takes effect without an answer. The
model keeps which requests were committed how often, the ids the server gave to
their rows, and what every request was told. `job.auto` is what the code does not look
at: every row is inserted and numbered by the table. Without it, as with INSERT IGNORE or ids
in the text, rows may be left out and `LastInsertId` may be any id. LOAD DATA LOCAL
leaves rows out with a warning in any case. `PanicInDelete` is the merged DELETE whose `?` is
text and that has no parameters.

### LoadData

The text escapes of `escapeLoadDataString` over the characters that mean something
to LOAD DATA, and the server's reader, a recursive function over the characters of the
payload. `BatchLoad` composes it with `BatchExecutor`: a batch that chose LOAD DATA writes one row per request before
its transaction goes on.

### BatchSession

Sessions hold `mu[s]` from `Enqueue` to `Reply`; `Callback` needs `mu` of the session
it calls. A batch is any sequence of sessions that wait; batches are numbered in
the order in which they are taken.

### QueryCache

A query is one run of the cacheable path of a session. Every operation on the
store, on the inflight map and on a flight's channel is a step. tqmemory is
external: an entry is fresh, then stale, the first reader of a stale entry is told
to refresh it, and it may disappear at any time.

### ReplicaPool

The pool under its lock, and the health checker with concurrent probes. The
checker reads the slice of replicas without the lock: `ReadHeader` and `ReadRest`
may see one half of the old and one of the new header. `served` is a history variable
for `RoundRobin`.

### MariaDBSession

A command is one step, since it is handled under `c.mu` and nothing else touches the
session's fields (except `lastBatchSize`, which is in `BatchSession`). Inside the step
every dial and every exchange has its outcomes, including a lost connection, which
resets the backend. `want` is what the client may rely on from the answers it got:
the databases it selected or named (`want.dbs`), the transaction the server opened for it, the
shard it was routed to. `pools` is what the pools hold now. `UpdateReplicas` is a reload
between two commands: it changes the pool that the session holds, and the next query that asks for
the primary or a replica goes where the pool says then. `Prepares` limits which statements a run
prepares.

### MariaDBWire

What `MariaDBSession` takes as one exchange, packet by packet, for `COM_QUERY` with one
or more statements and for `COM_STMT_EXECUTE`. A packet is its first byte and its
more-results flag. `server` produces any legal response: OK, ERR, a request for a file,
result sets whose rows begin with `00`, `FB` or anything else, several results one
after the other. `Ends` is the test by which `execBackendQuery` and
`execBackendResponse` stop reading. `Respond` is `forwardBackendResponse`, which renumbers
the packets and sets the flag unless this is the last statement. `peer` is the client that
reads by the protocol's rules and is lost when it gets something else. `AuthSwitch` is the
Auth Switch Request that a statement on another backend makes `dialAndAuth` send, and `NoStatement` a
query of which `splitQueries` leaves nothing. `astray` says by which of four causes, listed in
section 6, the code itself has lost the client: an error before the last statement, a failed
upload, no statement, or an Auth Switch Request that the client does not expect. The session
and the packets share no state, so `MCMariaDB` explores either from their common
initial state.

### QueryParser

Hints, query types and the predicates the sessions ask, over queries that are a
comment and words. `hintRegex` has its fields in a fixed order, so a comment with the
same fields in another order is no hint and stays in the query.

### Reload

`Sighup` loads a file, in which a section without a primary is ignored and a database
belongs to the last section that lists it. Then, for MariaDB and after it for PostgreSQL,
`UpdatePool` is one iteration of `updatePools` and `UpdateConfig` hands over the result.
A pool is an object: a name that stays keeps its pool, which sessions hold, and
`UpdateReplicas` changes it at once. `era` counts how often a name came back.

### PostgresSession

A message is one step, as `handleMessages` handles one at a time; the startup is two,
since a reload may come between the look-up of the pool and the dial. `handleQuery`
and `handleExecute` are one operator, `Serve`: cache, batch or backend. A query on the
backend succeeds, fails, or loses its connection with or without an error, as
`database/sql` and `lib/pq` (external) replace connections and the code does not ask
`rows.Err`. The cache is the set of its entries with keys of both forms. `tx` and `bound` are
what the client may rely on: that its transaction is open, and what it bound. Whether the
server has a transaction open (`conn`) does not depend on whether `handleQuery` knows it
(`inTransaction`, from `JustBegin` and `JustEnd`).

## 3. The runs

| run | instance | what it shows |
|---|---|---|
| `WriteBatchService` | 3 calls of one key, one cancellable, `MaxBatchSize` 2, not closed | every waiting call has someone who will answer it (`NobodyStranded`); executors never block on a result channel (`SendNeverBlocks`); the manager implements `WriteService`, safety and liveness |
| `WriteBatchClose` | 4 calls, 2 keys, one immediate, one cancellable, `Close` at any time | a write is in one batch at most, batches have one key, the answer a call returns is its own (`AnswerIsOwn`), and the inductive invariant holds |
| `WriteBatchRefused` | 3 calls, `Close` | violated: see section 6 |
| `BatchExecutor` | batches of 1 to 3, all kinds, three drivers; payloads of up to 7 characters, rows of 1 or 2 parameters | a batch is committed as a whole and once; success is only reported for statements that were committed (all strategies but the prepared one); if every request inserts one row that the table numbers, nobody gets the insert id of another row; callbacks run exactly after success; the server loads from a LOAD DATA payload what the requests hold |
| `BatchExecutorRollback` | batches of 2 | violated: see section 6 |
| `BatchSession` | 3 sessions, 4 writes | an executor waits only for a session that waits for a later batch, so locks and callbacks never deadlock; every write is answered |
| `QueryCache` | 4 queries, 3 of them of one key | no flight is closed twice (a panic), no waiter is forgotten, every query is answered without relying on the timeout |
| `ReplicaPool` | 3 configurations with 0, 1 and 3 replicas, a reload, 2 changes of a backend, 2 concurrent probes | index and health map fit the list; the primary is the last resort; round robin is fair; health converges to the truth |
| `MariaDBSession` | 2 shards, one with a replica that a reload makes its primary; 2 databases; all commands; queries of 0 to 2 statements with up to 2 results and 1 row | a batched write never runs while a transaction that `BEGIN` opened is open; reading from replicas never costs a transaction begun on the primary; the connection is to the right shard and in a database that the client selected or named; queries dial again after a lost connection. No packet of a response is left for the next command (`ServerInStep`), and the client finds the end of its command where the proxy does, with four exceptions (`ClientInStep`) |
| `MariaDBTransaction`, `MariaDBStatements` | the sessions of the same | violated: see section 6 |
| `PostgresSession` | 3 files, 2 reloads, 2 backends; 4 clients that send different messages; 2 statements, 1 portal, 2 lists of parameters | pools fit their configuration and are checked once (`PoolsMatchConfig`, `PoolsAreChecked`); a session follows the reloads of its backend; cached reads never cost a transaction; ReadyForQuery comes when it should, also out of the cache, except after a Parse or Bind that fails; Execute runs what was bound |

**Bounds.** Three calls with `MaxBatchSize` 2 are the least with a full batch and
a late call; with four there is also a call of another key or an immediate one.
`BatchSession` needs three sessions for a cycle through two executors and a fourth
write for a session to come back. In `QueryCache` three queries of one key make a
fetcher, a waiter and a query that finds the flight of neither. `ReplicaPool` needs two
changes, so that a backend comes back while probes of both states are under way.
`MaxStmts` is 1, as an id that is free again on a new connection is the interesting
one. In `MariaDBWire` two statements make one that is not the last, two results one with
the flag, and one row one with each first byte. `SeqModulus` is 4 instead of 256, so that numbers
wrap within a command. `PostgresSession` needs two reloads for a backend that is
dropped and comes back. Its four clients send what belongs together (simple queries
during reloads; transactions and lost connections; prepared statements; queries of both
kinds beside other sessions that fill the cache). The two parameter lists read the
same one after the other.
`MaxPayload`, `MaxLen` and `MaxParams` bound the enumeration of `LoadData`; the
reader's state has no more memory than two fields.

**Symmetry** is used in two runs, both of invariants only: in `WriteBatchRefused` all requests
have one key and differ in nothing; in `WriteBatchClose` that is so of the two calls of the
first key, the call of the other key being the cancellable one.

**Deadlock** is checked for `ReplicaPool` and `PostgresSession`, where something can
always happen. The others may stop: calls end, batches end, a client may send nothing more.

**Fairness.** `WriteBatch`: weak fairness of every goroutine and timer, which the Go
scheduler and runtime provide, and of the database's answer (the driver's calls
return). Nobody has to call `Enqueue`, to cancel or to close. `BatchSession`: the
same, and strong fairness of `Callback`, since `sync.Mutex` hands the lock to a waiter
that starves. `QueryCache`: weak fairness of each query's steps; backends answer or
fail, as their connections have deadlines. The safety timeout is not fair: the
property does not rely on it. `ReplicaPool`: weak fairness of the checker, whose
ticker keeps ticking, and of each probe, as `DialTimeout` returns.

## 4. What is proved

Every safety invariant and action property of the passing runs, and the safety part of the
refinement, for every number of calls, keys, groups, sessions, queries, replicas, statements,
parameters and rows, and every `MaxBatchSize`. The assumptions are the named `ASSUME`s on the
constants in each module, which TLC evaluates in the runs, and for three theorems a hypothesis on
the configuration or the data:

| proofs | theorem | what holds |
|---|---|---|
| `WriteBatchProofs` | `Invariance`, `TypeCorrect` | `[]IInv`, `[]TypeOK`, with cancelled calls and `Close` at any time |
| | `ExecutedAtMostOnce` | `[]BatchesDisjoint` |
| | `BatchesAreUniform` | `[]OneKeyPerBatch` |
| `WriteServiceProofs` | `OpenInvariance` | `[]OpenInv`, until `Close` is called, as the next three |
| | `NobodyIsEverStranded` | `[]NobodyStranded` |
| | `SendsNeverBlock` | `[]SendNeverBlocks` |
| | `ImplementsTheService` | `ImplementsService`: the manager implements `WriteService` |
| | `AnswersAreOwn` | `[]AnswerIsOwn`, with `Close` at any time |
| `BatchExecutorProofs` | `AlwaysAllOrNone` | `[]AppliedAllOrNone` |
| | `AckedIsAlwaysApplied` | `[]AckedIsApplied`: of statements, not of rows |
| | `InsertIdIsAlwaysOwn` | `[]InsertIdIsOwn`, which is about single rows that the table numbers |
| | `AlwaysNotifiedIffAllSucceed` | `[]NotifiedIffAllSucceed` |
| `BatchLoadProofs` | `AlwaysLoadsWhatWasWritten` | `[]LoadsWhatWasWritten`, if the parameters are valid UTF-8 (`ValidUTF8`) |
| | `BatchKeepsExecutor`, `BatchKeepsPromises` | the executor that also writes the payload implements the executor, and so has the four properties above |
| `ReadProofs` | `Invariance`, `NoDoubleClose`, `NoForgottenWaiter` | `[]IInv`, `[]ClosedOnce`, `[]WaitersAreReleased` of the cache |
| | `PoolStaysConsistent` | `[]PoolConsistent` of the pool |
| | `HealthyReplicaFound` | the action property `PrimaryIsLastResort` |
| | `AlwaysRoundRobin` | the action property `RoundRobin`, if no list names a replica twice (`NoRepeats`) |
| `MariaDBProofs` | `Invariance`, `NoCircularWait` | `[]IInv`, `[]WaitsForLaterBatch` of sessions and executors |
| | `AlwaysServerInStep`, `AlwaysClientInStep` | `[]ServerInStep`, `[]ClientInStep` of the packets, the second with its four exceptions |
| `MariaDBSessionProofs` | `AlwaysWellFormed` | `[]TypeOK` of the session |
| | `NeverBatchedInTransaction` | `[]BatchedOutsideTransaction` |
| | `TransactionAlwaysKept` | `[]TransactionKept`, with reloads that do not move the primary under the transaction |
| | `AlwaysInSelectedDatabase` | `[]SelectedDatabaseKept`: a database that the client selected, or named since |
| | `QueriesAlwaysReconnect` | `[]QueriesReconnect` |
| | `AlwaysRoutedToShard` | `[]RoutedToShard`, if no address serves two shards (`NoSharedAddress`) |
| `PostgresProofs` | `PoolsAlwaysMatch`, `PoolsAlwaysChecked` | `[]PoolsMatchConfig`, `[]PoolsAreChecked` of `Reload`, for any files and number of reloads |
| | `SessionsFollowReloads` | `[]SessionFollowsReload` |
| | `TransactionsAreKept` | `[]TransactionKept` |
| | `AlwaysReadyInStep` | `[]ReadyInStep` |
| | `AlwaysExecutesWhatWasBound` | the action property `ExecutesWhatWasBound` |

All three hypotheses are needed. If two shards share an address, `ensureBackendConn` finds itself on
the right address and leaves `backendPool` at the old shard, whose replicas are read next. If a
list names a replica twice, it is picked twice in a round. A byte that is not valid UTF-8 comes out
of the `range` in `escapeLoadDataString` as U+FFFD, and that is what the server loads.

### The arguments

**The manager.** That two executors of a group never take the same request is not
inductive by itself. `IInv` of `WriteBatch` adds where requests can be: in the list of
a group that was not taken (`GroupInv`), or in the batch of an executor of that
group (`BatchInv`), each once; a taken group stays empty because `Join` refuses it, so
only the first executor to take finds any (`OneTaker`). Uniform keys need that a
group is only ever known to calls of one key, also after it was dropped from the
map or the map got a new one (`MapInv`). `CallInv`, `TimerInv` and `LoopInv` say which
control points go with which data. The steps that leave the groups alone follow from two
frame lemmas; the four that do not have a lemma each.

**The manager until `Close`.** `OpenInv` adds where results are. A channel is empty
until its request's result is sent (`UnsentInv`), which is why a channel of capacity one
never blocks. What is in a channel or was received from it is what the database
answered for that request (`AnswersInv`). A call in its select has a result, or is in
the list of its group, or is in a batch whose executor has not reached it, and a
group with requests has a timer or an executor to come (`ComingInv`): a call that
looked its group up before it was taken is refused by `Join` and looks again.
`OpenCalls` excludes the paths that only `Close` opens. `IInv` is needed underneath: a request
that were in two batches would be sent two results.

**The manager with `Close`.** `Close` sends refusals into the same channels, so that `UnsentInv`
and `SendNeverBlocks` do not survive it. `OwnInv` says what does: an answer of the database that is in a
channel, or was received from it, is the one in the results of the batch that executed the request;
results and batch of an executor that has run do not change any more, and a call that
returns an answer without a channel is an immediate one.

**The service.** Under the mapping, a submission is the step with which a call leaves `idle`
(`EnqueueSubmits`); the database's answer performs a whole batch at once, which needs
`OneKeyPerBatch`, and that none of it was performed before (`RunPerforms`, `NotExecuted`); an immediate
write is performed and answered in one step; a receive answers a write that was performed
(`ReceiveReplies`, from `AnswersInv`); a cancelled call gives up; and every
other step stutters, since nothing takes a request back out of a batch that has run
(`ExecutedKept`).

**One batch.** Nothing is committed before the last step, so that a fallback from COPY or LOAD
DATA starts from nothing, and after a commit there is none (`ExecInv`). `LoopsInv` says what
a loop has done at each index: in the mixed transaction exactly the requests before
`pos` are pending and have succeeded, in the prepared loop the pending ones are exactly the
ones marked as succeeded. The prepared strategy is excluded from `AckedIsApplied` for the
reason `BatchExecutorRollback` shows.

**The LOAD DATA payload.** `LoadInv` says where the reader is at the end of what was written so
far: it has the complete rows, the complete parameters of the row being written, and is at the end of the
last one with exactly its text in the field (`AtEnd`). Each step of the writer moves the reader
from one such place to the next: a tab or a newline ends a field (`ReadEnd`), and `formatLoadDataParam`
leaves the reader at the end of the parameter (`ReadParam`). For a string of any length that rests on
`ReadEscape`, which is about one character, and on the first character after which the field
would not be what was escaped, as there is no induction over data: there is a least one, and it is read right.
The same argument shows that the recursive definitions of the reader and of the escaped string have the values
that their equations say. `BatchLoadInv` adds that LOAD DATA is executed when all rows are
written, and that a batch which chose it reaches its commit in no other way.

**The cache.** A flight is at one place at a time: in the map while its creator is
fetching, in the hands of the query that removed it, or closed (`FlightInv`). A query
may remove and close a flight that is not its own, which is why "the fetcher
closes its flight" is false and the invariant speaks of hands.

**The pool.** The invariant is `PoolInv`; `HealthyReplicaFound` rests on a lemma that
`(current + k) % n` visits every position. For `AlwaysRoundRobin` the ring is
measured from the index: the healthy replicas not yet picked in this round all come
before the ones that were (`RoundInv`), so the first healthy one that the loop finds is new.

**Sessions and executors.** An executor in a callback has sent that session's result before. A
session that holds its lock without that result is waiting for another batch, and
that batch was not taken before this one, or the session could not have been in
this one. So waiting goes from lower to higher batch numbers.

**The MariaDB session.** A command is one step, made of operators that dial, switch, execute and
reset; each has a lemma that says what it does to a session, and the commands are put together
from these. `SessionInv` ties what the client may rely on to the fields: a transaction
begun on the primary means that the connection is the present primary's, so that no read
of the transaction finds a reason to leave it, and `c.db` is a database that the client selected or
named, so that every connection dialled later starts in one. An address stays one that some
configuration gave to its shard, which is all that `TypeOK` says once reloads move backends. `ShardInv` adds that `backendPool` is the shard
of the last routing.

**The packets.** `eofCount` is 1 exactly while the server sends rows (`Counted`), which
is why a `00` is then not taken for an OK packet, and a request for a file is the first
packet of a response (`FileIsLast`). What the client makes of a response is a recursive
function over its packets (`Reading`). `ClientInv` keeps with the packets read so far the places a
reader goes through (`LeadTo`), and with a cached response that it leads to its end.
That the client, reading the same packets with their new numbers and flags, goes through the same places is
shown without induction, by the first packet at which it would not: there is a least one, and the
packet before it leads to the right place.

**Reloads and the PostgreSQL session.** That the pools fit the configuration at the end of an update needs what
the update has done so far (`UpdateInv`), and that no pool belongs to two names
(`MadeFor`), so that updating one leaves the others alone. The session builds on it:
as long as `era` says that a backend did not leave the configuration, its pool is the
one the session was given (`SessionPool`), so every reload reaches the session. No read on
a replica touches the connection that has the client's transaction, and a lost connection ends
what the client may rely on (`TxInv`); what a portal is bound to is in all three maps until one is replaced
(`PortalInv`); and every cache entry has the key and the form of the kind of message that
stored it, which the keys tell apart (`CacheInv`).

### Only model-checked

The liveness properties (`ServiceLive`, `EveryWriteAnswered`, `AllAnswered`,
`HealthConverges`), which need fairness.

TLC also agrees with `OpenInv`, `OwnInv`, `ExecInv`, `BatchLoadInv`, `RoundInv`, `SessionInv` and `ShardInv` as invariants
on the instances of section 3. `ClientInv`, whose `LeadTo` enumerates all sequences of
places, was checked with `MaxResults` 1 only.

## 5. What is not modelled

- The bytes of both protocols: the handshake and the startup parameters, lengths, packets of
  16 MB and more, the decoding of bound parameters, the rows and their values.
- The packets of the other MariaDB commands. `COM_INIT_DB` and the remaining `COM_STMT_*`
  commands are in `MariaDBSession`; `COM_PING`, `COM_FIELD_LIST` and `COM_QUIT` change
  nothing.
- `execQueryOnConn` (`mariadb.go:860`), which nothing calls.
- Most of a reload under MariaDB sessions. `MariaDBSession` has `UpdateReplicas`, which moves
  the primary and the replicas of a shard between two commands; not a reload in the middle of a
  command, and not backends that are added or dropped or databases that change their shard.
  `PostgresSession` has all of these.
- The Auth Switch exchange that a change of backend starts in the middle of a command. `MariaDBWire`
  has its two packets and a client that answers or gives up, not the authentication itself nor its
  failure, and only before a statement of `COM_QUERY`: `COM_INIT_DB` is left out.
- What a torn slice header does in Go. `ReplicaPool` has the checker that reads one half of the old
  and one of the new list (`pool.go:166`), and takes an address that is in neither for one that nobody
  has. The Go memory model allows a crash instead.
- The format codes of Bind, the types of its parameters, and the rows of a RETURNING write.
- The text of queries: the splitting into statements (`splitQueries`), the qualified name
  that the parser finds, the numbers in hints, and the rewriting of merged INSERTs. They are
  functions of strings, character by character; the decisions that follow from them are
  in the models.
- The fields that only status queries show (`lastBackend`, `lastCacheHit`, and
  `lastBatchSize` of PostgreSQL).
- Metrics, log output, benchmarks and client libraries: nothing in the system reads
  what they write.
- tqmemory, the database servers, their drivers and the network: external, and
  modelled by what the code can observe of them.

## 6. Where the code and what is said of it disagree

Shown by a run (`findings` in `PROJECT.json`):

- `WriteBatchRefused`. A full batch's executor passes the closed check and takes the
  group, and the timer's executor, which comes after `Close`, still reads the
  requests of a group: a call is told that the manager is closed although its write is
  executed, and the session then executes it again.
- `BatchExecutorRollback`. After an error in a prepared batch everything is rolled
  back, and the requests that had worked are told they succeeded.
- `MariaDBTransaction`. `BEGIN` goes to the connection there is, and that may be a
  replica's. The next statement moves to the primary and leaves the transaction
  behind.
- `MariaDBStatements`. A switch of connections keeps the table of prepared statements,
  whose ids mean something else on the new connection.

Met while modelling, without a run of its own:

- a batch may exceed `MaxBatchSize`, as a full group stays open for calls that
  looked it up before (`manager.go:121`);
- `Close` returns after a fixed sleep and not when batches have ended
  (`manager.go:164`), and a call that joins a refused group waits for ever
  (`executor.go:24`);
- a merged DELETE tells every request the total of affected rows
  (`executor.go:228`), merged INSERTs of several rows each hand out ids as if each had
  one, and so do INSERT IGNORE and INSERTs with ids in the text
  (`executor.go:766`), and a RETURNING write alone in its batch gets no values
  (`executor.go:950`);
- a merged DELETE without parameters, whose `?` is in a literal, panics (`executor.go:214`);
- the rows that LOAD DATA LOCAL or INSERT IGNORE leaves out with a warning are reported as
  inserted (`executor.go:627`, `:766`);
- a byte that is not valid UTF-8 is loaded as U+FFFD (`executor.go:686`);
- the primary is never probed (`pool.go:165`), though the docs say it is;
- after a failed fetch all waiters fetch at once, and the reader that was told to
  refresh an entry need not do so (`cache.go:79`, `:95`);
- the cache is used inside transactions, and `COM_QUERY` caches error packets
  (`mariadb.go:690`, `:770`);
- an error packet in answer to `BEGIN`, `COMMIT`, `ROLLBACK` or `USE` is reported as OK
  (`mariadb.go:570`), and transactions opened by other statements are not tracked;
- batched writes run in the database of the manager's connection (`mariadb.go:1687`);
- prepared writes run on a replica when that is the present connection
  (`mariadb.go:784`);
- `BEGIN`, `COMMIT`, `ROLLBACK` and the `COM_STMT_*` commands use a nil connection after
  a lost one (`mariadb.go:571`);
- the database of the handshake is selected on the default shard (`mariadb.go:214`), a
  qualified name changes the current database of later connections
  (`mariadb.go:647`), and `SHOW TQDB STATUS` moves the session to the default shard
  (`mariadb.go:1651`);
- a reload that gives a pool another primary makes the next query leave the old one, and an open
  transaction with it, without a word to the client (`mariadb.go:731`, `pool.go:44`);
- a statement on another backend makes the proxy send an Auth Switch Request in the middle of a
  command, where the protocol has none (`mariadb.go:460`);
- with two shards on one address, a switch of shards keeps the pool of the old one
  (`mariadb.go:351`);
- a replica that a list names twice gets two turns of the round robin (`pool.go:84`);
- a late callback overwrites the batch size of a later write (`mariadb.go:1690`);
- only the first backend connection is closed when a client leaves
  (`mariadb.go:220`);
- after an error in a statement that is not the last, `handleQuery` goes on with the
  next, whose response the client does not expect (`mariadb.go:609`), and a query without
  statements gets no response (`mariadb.go:605`);
- `execBackendQuery` has no case for a request for a file, so LOAD DATA LOCAL in
  `COM_QUERY` waits until the timeout (`mariadb.go:1469`), and after a failed upload the rest of
  the file is read as commands (`mariadb.go:398`);
- `COM_STMT_RESET` forwards a payload without its header (`mariadb.go:1203`), and `COM_QUIT`
  is answered with an ERR packet (`mariadb.go:524`);
- PostgreSQL batches run on the default backend's primary of the start, in database
  `tqdbproxy` (`postgres.go:156`), though `docs/components/writebatch/README.md` promises
  that batches do not cross databases;
- `BEGIN;`, `START TRANSACTION` with anything after it, a commented `BEGIN` and a `BEGIN` of the
  extended protocol are not tracked, so batched writes run beside such transactions
  (`postgres.go:492`), though `src/README.md:83` says "Batching is disabled inside transactions";
- cacheable queries inside a PostgreSQL transaction are answered by the cache or a
  replica (`postgres.go:511`, `:633`);
- the key of a simple query has no database (`postgres.go:512`), and what is hashed for
  Execute no separators (`postgres.go:1111`), so that other databases and other parameters may
  be answered with the same entry;
- rows cut off by an error are sent and cached as complete (`postgres.go:681`);
- a NULL parameter makes Bind fail (`postgres.go:1037`); a failed Parse or Bind is followed
  by a ReadyForQuery, and Sync sends another (`postgres.go:442`, `:448`), as does every message
  without a handler, Flush among them (`postgres.go:469`); a closed portal
  keeps its statement and runs it without parameters (`postgres.go:1347`);
- a comment in `parser.go:150` shows a hint with `batch` before `file`, which `hintRegex`
  (`parser.go:48`) does not match;
- health checks of a dropped pool go on, as `main.go:144` says, and one more with every reload that
  brings a backend back; `PoolsAreChecked` is about the pools in use.

## 7. What could follow

1. `splitQueries`, qualified names and the merging of INSERT and DELETE texts as functions
   over short texts, with reference definitions.
2. The lifetime of MariaDB backend connections beyond the session, and the handshake.
3. The cache with values across both protocols: which database an entry of the MariaDB
   session came from.
4. What calls may rely on while `Close` runs: an abstract service with refusals, which
   the manager would implement once a refused write is never executed.
