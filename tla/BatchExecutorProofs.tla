------------------------ MODULE BatchExecutorProofs -------------------------
(***************************************************************************)
(* Proofs about BatchExecutor for batches of any size, any number of rows  *)
(* and any failures of the database.                                       *)
(***************************************************************************)
EXTENDS BatchExecutor, TLAPS

\* A batch has at least one request, and its query at least one row.
LEMMA JobFacts ==
  ASSUME job \in Jobs
  PROVE  /\ job.n \in Nat \ {0} /\ job.rows \in Nat \ {0}
         /\ job.driver \in {"mysql", "sqlite", "pq"}
         /\ Reqs = 1..job.n /\ 1 \in Reqs
<1>1. job.n \in Sizes /\ job.rows \in 1..MaxRows /\ job.driver \in {"mysql", "sqlite", "pq"}
  BY DEF Jobs
<1>2. job.n \in Nat \ {0}
  BY <1>1, SizesAssumption, Zenon
<1>3. job.rows \in Nat \ {0}
  BY <1>1, SizesAssumption
<1> QED
  BY <1>1, <1>2, <1>3, SMTT(60) DEF Reqs

\* A batch begins with nothing done.
LEMMA ExecInitInv == ExecInit => ExecInv
<1> SUFFICES ASSUME ExecInit PROVE ExecInv
  OBVIOUS
<1>1. job \in Jobs /\ stage = "start" /\ pos = 1 /\ results = [r \in Reqs |-> Error]
      /\ ~notified /\ pending = {} /\ applied = [r \in Reqs |-> 0]
      /\ firstId = [r \in Reqs |-> 0] /\ effect = [r \in Reqs |-> 0] /\ nextId = 1
  BY DEF ExecInit
<1>2. ExecTypeOK
  <2>1. DOMAIN results = Reqs /\ \A r \in Reqs : ~results[r].ok /\ results[r].id = 0
    BY <1>1 DEF Error
  <2> QED
    BY <1>1, <2>1 DEF ExecTypeOK
<1>3. LoopsInv
  BY <1>1 DEF LoopsInv, Error
<1> QED
  BY <1>1, <1>2, <1>3 DEF ExecInv, Error, AppliedAllOrNone, AckedIsApplied, NotifiedIffAllSucceed

\* A batch that ends with all of its requests committed, or none.
LEMMA Ended ==
  ASSUME ExecInv, job' = job, stage' = "done", pos' \in Nat \ {0},
         DOMAIN results' = Reqs,
         \A r \in Reqs : results'[r].id \in Int,
         pending' \subseteq Reqs,
         firstId' \in [Reqs -> Nat], effect' \in [Reqs -> Nat], nextId' \in Nat,
         NEW k \in 0..1, applied' = [r \in Reqs |-> k],
         Strategy # "preparedBegin" => \A r \in Reqs : results'[r].ok => k = 1,
         notified' <=> job.n > 1 /\ \A r \in Reqs : results'[r].ok,
         Numbered => \A r \in Reqs : results'[r].ok /\ results'[r].id > 0 => results'[r].id = firstId'[r]
  PROVE  ExecInv'
<1>1. Reqs' = Reqs /\ Strategy' = Strategy /\ Numbered' = Numbered
  BY DEF Reqs, Numbered, Strategy, BatchedStrategy, InsertStrategy, IsBatchableInsert, IsBatchableDelete,
         AllParamsAreSimple, ContainsPostgresPlaceholder
<1>2. ExecTypeOK'
  BY <1>1 DEF ExecTypeOK, ExecInv
<1>3. LoopsInv'
  BY DEF LoopsInv
<1>4. AppliedAllOrNone'
  BY <1>1 DEF AppliedAllOrNone
<1>5. AckedIsApplied'
  BY <1>1 DEF AckedIsApplied
<1>6. NotifiedIffAllSucceed'
  BY <1>1 DEF NotifiedIffAllSucceed
<1> QED
  BY <1>1, <1>2, <1>3, <1>4, <1>5, <1>6 DEF ExecInv

\* A batch whose requests are all told of an error.
LEMMA Failed ==
  ASSUME ExecInv, FailAll, job' = job, pos' \in Nat \ {0}, pending' \subseteq Reqs,
         firstId' \in [Reqs -> Nat], effect' \in [Reqs -> Nat], nextId' \in Nat,
         NEW k \in 0..1, applied' = [r \in Reqs |-> k]
  PROVE  ExecInv'
<1>1. stage' = "done" /\ results' = [r \in Reqs |-> Error] /\ ~notified'
  BY DEF FailAll, Finish
<1>2. DOMAIN results' = Reqs /\ \A r \in Reqs : ~results'[r].ok /\ results'[r].id = 0
  BY <1>1 DEF Error
<1>3. 1 \in Reqs
  BY JobFacts DEF ExecInv, ExecTypeOK
<1>4. \A r \in Reqs : results'[r].id \in Int
  BY <1>2
<1>5. notified' <=> job.n > 1 /\ \A r \in Reqs : results'[r].ok
  BY <1>1, <1>2, <1>3
<1>6. /\ Strategy # "preparedBegin" => \A r \in Reqs : results'[r].ok => k = 1
      /\ Numbered => \A r \in Reqs : results'[r].ok /\ results'[r].id > 0 => results'[r].id = firstId'[r]
  BY <1>2
<1> QED
  BY <1>1, <1>2, <1>4, <1>5, <1>6, Ended

\* A batch whose requests are all told that they succeeded.
LEMMA Succeeded ==
  ASSUME ExecInv, NEW res, Succeed(res), DOMAIN res = Reqs,
         \A r \in Reqs : res[r].ok /\ res[r].id \in Int,
         job.n > 1, job' = job, pos' \in Nat \ {0}, pending' \subseteq Reqs,
         firstId' \in [Reqs -> Nat], effect' \in [Reqs -> Nat], nextId' \in Nat,
         applied' = [r \in Reqs |-> 1],
         Numbered => \A r \in Reqs : res[r].id > 0 => res[r].id = firstId'[r]
  PROVE  ExecInv'
<1>1. stage' = "done" /\ results' = res /\ notified'
  BY DEF Succeed, Finish
<1>2. \A r \in Reqs : results'[r].id \in Int
  BY <1>1
<1>3. notified' <=> job.n > 1 /\ \A r \in Reqs : results'[r].ok
  BY <1>1
<1>4. /\ Strategy # "preparedBegin" => \A r \in Reqs : results'[r].ok => 1 = 1
      /\ Numbered => \A r \in Reqs : results'[r].ok /\ results'[r].id > 0 => results'[r].id = firstId'[r]
  BY <1>1
<1>5. 1 \in 0..1 /\ DOMAIN results' = Reqs
  BY <1>1
<1> QED
  BY <1>1, <1>2, <1>3, <1>4, <1>5, Ended

\* What commits before a batch ended is nothing.
LEMMA CommitFacts ==
  ASSUME ExecInv, stage # "done"
  PROVE  /\ applied = [r \in Reqs |-> 0]
         /\ Commit(Reqs) => applied' = [r \in Reqs |-> 1]
<1>1. applied \in [Reqs -> Nat] /\ \A r \in Reqs : applied[r] = 0
  BY DEF ExecInv, ExecTypeOK
<1> QED
  BY <1>1 DEF Commit

\* A request that runs changes no row of another, and its insert id is its own.
LEMMA ChangeFacts ==
  ASSUME ExecInv, NEW r \in Reqs, Change(r)
  PROVE  /\ firstId' \in [Reqs -> Nat] /\ effect' \in [Reqs -> Nat] /\ nextId' \in Nat
         /\ \A s \in Reqs : s # r => firstId'[s] = firstId[s]
         /\ \A res \in ExecResults(r) : res.ok /\ res.id \in Int
         /\ Numbered => \A res \in ExecResults(r) : res.id > 0 => res.id = firstId'[r]
<1>1. /\ firstId \in [Reqs -> Nat] /\ effect \in [Reqs -> Nat] /\ nextId \in Nat
      /\ job.rows \in Nat \ {0} /\ job.driver \in {"mysql", "sqlite", "pq"}
  BY JobFacts DEF ExecInv, ExecTypeOK
<1>2. /\ firstId' \in [Reqs -> Nat] /\ effect' \in [Reqs -> Nat] /\ nextId' \in Nat
      /\ \A s \in Reqs : s # r => firstId'[s] = firstId[s]
  BY <1>1 DEF Change
<1>3. firstId'[r] \in Nat
  BY <1>2
<1>4. \A id \in LastInsertId(firstId'[r], job.rows) :
        id \in Int /\ (Numbered /\ id > 0 => id = firstId'[r])
  BY <1>1, <1>3, SMTT(60) DEF LastInsertId, Numbered
<1>5. \A res \in ExecResults(r) : \E id \in LastInsertId(firstId'[r], job.rows) : res.ok /\ res.id = id
  BY DEF ExecResults, Result
<1> QED
  BY <1>2, <1>4, <1>5, Zenon

\* One statement with the rows of every request.
LEMMA InsertAllFacts ==
  ASSUME ExecInv, NEW kept \in SUBSET Reqs, InsertAll(kept)
  PROVE  firstId' \in [Reqs -> Nat] /\ effect' \in [Reqs -> Nat] /\ nextId' \in Nat
<1>1. /\ job.n \in Nat /\ Reqs = 1..job.n /\ nextId \in Nat /\ job.rows \in Nat \ {0}
  BY JobFacts DEF ExecInv, ExecTypeOK
<1>2. job.n * job.rows \in Nat
  BY <1>1
<1>3. \A r \in Reqs : (r - 1) * job.rows \in Nat
  BY <1>1, SMTT(60)
<1>4. \A r \in Reqs : nextId + (r - 1) * job.rows \in Nat
  BY <1>1, <1>3, SMTT(60)
<1>5. firstId' \in [Reqs -> Nat] /\ effect' \in [Reqs -> Nat]
  BY <1>1, <1>4, SMTT(60) DEF InsertAll
<1>6. nextId' \in Nat
  BY <1>1, <1>2, SMTT(60) DEF InsertAll
<1> QED
  BY <1>5, <1>6

\* executeWrite: the one request of the batch.
LEMMA SingleStep ==
  ASSUME ExecInv, ExecuteSingle
  PROVE  ExecInv'
<1>1. stage = "single" /\ job' = job /\ pos' = pos /\ pending' = pending
  BY DEF ExecuteSingle
<1>2. job.n = 1 /\ Reqs = {1} /\ pos \in Nat \ {0} /\ pending \subseteq Reqs
  BY <1>1, JobFacts DEF ExecInv, ExecTypeOK
<1>3. CASE FailAll /\ UNCHANGED <<applied, rowVars>>
  BY <1>1, <1>2, <1>3, CommitFacts, Failed, SMTT(60) DEF rowVars, ExecInv, ExecTypeOK
<1>4. CASE Change(1) /\ Commit({1}) /\ FailAll
  BY <1>1, <1>2, <1>4, CommitFacts, ChangeFacts, Failed
<1>5. ASSUME Change(1), Commit({1}), NEW res \in ExecResults(1), Finish([results EXCEPT ![1] = res], FALSE)
      PROVE  ExecInv'
  <2>1. stage' = "done" /\ results' = [results EXCEPT ![1] = res] /\ ~notified'
    BY <1>5 DEF Finish
  <2>2. DOMAIN results' = Reqs /\ results'[1] = res
    BY <1>2, <2>1 DEF ExecInv, ExecTypeOK
  <2>3. applied' = [r \in Reqs |-> 1]
    BY <1>1, <1>2, <1>5, CommitFacts
  <2>4. /\ firstId' \in [Reqs -> Nat] /\ effect' \in [Reqs -> Nat] /\ nextId' \in Nat
        /\ res.id \in Int /\ (Numbered /\ res.id > 0 => res.id = firstId'[1])
    BY <1>2, <1>5, ChangeFacts
  <2> QED
    BY <1>1, <1>2, <2>1, <2>2, <2>3, <2>4, Ended
<1> QED
  BY <1>3, <1>4, <1>5, Zenon DEF ExecuteSingle

\* executeTrueBatchedDelete.
LEMMA DeleteStep ==
  ASSUME ExecInv, ExecuteDelete
  PROVE  ExecInv'
<1>1. /\ stage = "delete" /\ job' = job /\ pos' = pos /\ pending' = pending
      /\ firstId' = firstId /\ nextId' = nextId
  BY DEF ExecuteDelete
<1>2. /\ job.n \in Nat /\ job.n > 1 /\ pos \in Nat \ {0} /\ pending \subseteq Reqs
      /\ firstId \in [Reqs -> Nat] /\ effect \in [Reqs -> Nat] /\ nextId \in Nat
  BY <1>1, JobFacts DEF ExecInv, ExecTypeOK
<1>3. CASE FailAll /\ UNCHANGED <<applied, effect>>
  BY <1>1, <1>2, <1>3, CommitFacts, Failed
<1>4. ASSUME NEW hit \in SUBSET Reqs, effect' = [r \in Reqs |-> IF r \in hit THEN 1 ELSE 0], Commit(Reqs),
             Succeed([r \in Reqs |-> Result(0, Cardinality(hit), FALSE)]) \/ FailAll
      PROVE  ExecInv'
  <2>1. effect' \in [Reqs -> Nat] /\ applied' = [r \in Reqs |-> 1]
    BY <1>1, <1>4, CommitFacts
  <2>2. CASE FailAll
    BY <1>1, <1>2, <2>1, <2>2, Failed
  <2>3. CASE Succeed([r \in Reqs |-> Result(0, Cardinality(hit), FALSE)])
    <3> DEFINE res == [r \in Reqs |-> Result(0, Cardinality(hit), FALSE)]
    <3>1. DOMAIN res = Reqs /\ \A r \in Reqs : res[r].ok /\ res[r].id = 0
      BY DEF Result
    <3>2. Succeed(res)
      BY <2>3
    <3> HIDE DEF res
    <3> QED
      BY <1>1, <1>2, <2>1, <3>1, <3>2, Succeeded
  <2> QED
    BY <1>4, <2>2, <2>3
<1> QED
  BY <1>3, <1>4, Zenon DEF ExecuteDelete

\* executeTrueBatchedInsertMultiRow: the ids of the requests are those that the
\* database gave to their rows, or none.
LEMMA MultiRowStep ==
  ASSUME ExecInv, ExecuteMultiRow
  PROVE  ExecInv'
<1>1. stage = "multi" /\ job' = job /\ pos' = pos /\ pending' = pending
  BY DEF ExecuteMultiRow
<1>2. /\ job.n \in Nat /\ job.n > 1 /\ pos \in Nat \ {0} /\ pending \subseteq Reqs /\ Reqs = 1..job.n
      /\ firstId \in [Reqs -> Nat] /\ effect \in [Reqs -> Nat] /\ nextId \in Nat
      /\ job.rows \in Nat \ {0} /\ job.driver \in {"mysql", "sqlite", "pq"}
  BY <1>1, JobFacts DEF ExecInv, ExecTypeOK
<1>3. CASE FailAll /\ UNCHANGED <<applied, rowVars>>
  BY <1>1, <1>2, <1>3, CommitFacts, Failed DEF rowVars
<1>4. ASSUME NEW kept \in SUBSET Reqs, job.auto => kept = Reqs, InsertAll(kept), Commit(Reqs),
             NEW rawId \in LastInsertId(nextId, job.n * job.rows),
             \/ Succeed([r \in Reqs |-> Result(NormalizeFirstInsertID(rawId) + r - 1, 1, FALSE)])
             \/ FailAll
      PROVE  ExecInv'
  <2> DEFINE first == NormalizeFirstInsertID(rawId)
  <2>1. job.n * job.rows \in Nat
    BY <1>2
  <2>2. /\ firstId' \in [Reqs -> Nat] /\ effect' \in [Reqs -> Nat] /\ nextId' \in Nat
        /\ applied' = [r \in Reqs |-> 1]
    BY <1>1, <1>4, InsertAllFacts, CommitFacts
  <2>3. CASE FailAll
    BY <1>1, <1>2, <2>2, <2>3, Failed
  <2>4. CASE Succeed([r \in Reqs |-> Result(first + r - 1, 1, FALSE)])
    <3>1. rawId \in Int /\ first \in Int
      BY <1>2, <1>4, <2>1, SMTT(60) DEF NormalizeFirstInsertID, LastInsertId
    <3>2. Numbered => \A r \in Reqs : first + r - 1 > 0 => first + r - 1 = firstId'[r]
      <4> SUFFICES ASSUME Numbered, NEW r \in Reqs, first + r - 1 > 0
                   PROVE  first + r - 1 = firstId'[r]
        BY Zenon
      <4>1. job.n * job.rows = job.n /\ (r - 1) * job.rows = r - 1 /\ job.auto
        BY <1>2 DEF Numbered
      <4>2. firstId'[r] = nextId + (r - 1)
        BY <1>4, <4>1 DEF InsertAll
      <4>3. rawId \in LastInsertId(nextId, job.n)
        BY <1>4, <4>1
      <4>4. \/ job.driver # "mysql" /\ rawId = 0
            \/ nextId = 0 /\ rawId = 0
            \/ job.driver = "mysql" /\ rawId = nextId
            \/ job.driver # "mysql" /\ rawId = nextId + job.n - 1
        BY <1>2, <4>1, <4>3, SMTT(60) DEF LastInsertId
      <4> QED
        BY <1>2, <4>2, <4>4, SMTT(60) DEF NormalizeFirstInsertID
    <3> HIDE DEF first
    <3> DEFINE res == [r \in Reqs |-> Result(first + r - 1, 1, FALSE)]
    <3>3. DOMAIN res = Reqs /\ \A r \in Reqs : res[r].ok /\ res[r].id = first + r - 1
      BY DEF Result
    <3> HIDE DEF res
    <3>4. \A r \in Reqs : res[r].id \in Int
      BY <1>2, <3>1, <3>3
    <3>5. Numbered => \A r \in Reqs : res[r].id > 0 => res[r].id = firstId'[r]
      BY <3>2, <3>3
    <3>6. Succeed(res)
      BY <2>4 DEF res
    <3> QED
      BY <1>1, <1>2, <2>2, <3>3, <3>4, <3>5, <3>6, Succeeded, Zenon
  <2> QED
    BY <1>4, <2>3, <2>4
<1> QED
  BY <1>3, <1>4, ZenonT(60) DEF ExecuteMultiRow

\* A step of a batch that goes on.
LEMMA GoesOn ==
  ASSUME ExecInv, stage # "done", stage' # "done", job' = job, ExecTypeOK', LoopsInv',
         notified' = notified, applied' = applied,
         stage' # "start" => (stage' = "single" <=> job.n = 1),
         stage' \in {"preparedBegin", "prepare", "preparedExec"} => Strategy = "preparedBegin",
         Numbered => \A r \in Reqs : results'[r].ok /\ results'[r].id > 0 => results'[r].id = firstId'[r]
  PROVE  ExecInv'
<1>1. Reqs' = Reqs /\ Strategy' = Strategy /\ Numbered' = Numbered
  BY DEF Reqs, Numbered, Strategy, BatchedStrategy, InsertStrategy, IsBatchableInsert, IsBatchableDelete,
         AllParamsAreSimple, ContainsPostgresPlaceholder
<1>2. ~notified' /\ \A r \in Reqs : applied'[r] = 0
  BY DEF ExecInv
<1> QED
  BY <1>1, <1>2, SMTT(60) DEF ExecInv, AppliedAllOrNone, AckedIsApplied, NotifiedIffAllSucceed

\* The labels at which nothing has run, and the panic.
Before == {"start", "single", "delete", "multi", "copy", "load", "copyBegin", "copyIn", "loadExec",
           "preparedBegin", "prepare", "mixedBegin", "panic"}

\* From one of these labels to another, or into a loop.
LEMMA MovesOn ==
  ASSUME ExecInv, stage \in Before, NEW label, Goto(label),
         label \in Before \cup {"preparedExec", "mixedExec", "copyExec"},
         label # "start", label = "single" <=> job.n = 1,
         label \in {"preparedBegin", "prepare", "preparedExec"} => Strategy = "preparedBegin",
         UNCHANGED <<job, pos, pending, applied, rowVars>>
  PROVE  ExecInv'
<1>1. /\ stage' = label /\ results' = results /\ notified' = notified
      /\ job' = job /\ pos' = pos /\ pending' = pending /\ applied' = applied
      /\ firstId' = firstId /\ effect' = effect /\ nextId' = nextId
  BY DEF Goto, rowVars
<1>2. Reqs' = Reqs
  BY <1>1 DEF Reqs
<1>3. pending = {} /\ pos = 1 /\ \A r \in Reqs : ~results[r].ok
  BY DEF ExecInv, LoopsInv, Before
<1>4. job.n \in Nat \ {0} /\ 1..(1 - 1) = {}
  BY JobFacts DEF ExecInv, ExecTypeOK
<1>5. ExecTypeOK'
  BY <1>1, <1>2, SMTT(60) DEF ExecInv, ExecTypeOK, Before
<1>6. LoopsInv'
  BY <1>1, <1>2, <1>3, <1>4 DEF LoopsInv, Before
<1> QED
  BY <1>1, <1>5, <1>6, GoesOn, SMTT(60) DEF ExecInv, Before

\* The choice of a strategy.
LEMMA DispatchStep ==
  ASSUME ExecInv, Dispatch
  PROVE  ExecInv'
<1>1. stage = "start" /\ Goto(Strategy) /\ UNCHANGED <<job, pos, pending, applied, rowVars>>
  BY DEF Dispatch
<1>2. /\ Strategy \in Before /\ Strategy # "start" /\ (Strategy = "single" <=> job.n = 1)
      /\ Strategy \in {"preparedBegin", "prepare", "preparedExec"} => Strategy = "preparedBegin"
  BY DEF Strategy, BatchedStrategy, InsertStrategy, Before
<1> QED
  BY <1>1, <1>2, MovesOn DEF Before

\* A DELETE without parameters panics before it reaches the database.
LEMMA PanicStep ==
  ASSUME ExecInv, PanicInDelete
  PROVE  ExecInv'
<1>1. stage = "delete" /\ Goto("panic") /\ UNCHANGED <<job, pos, pending, applied, rowVars>>
  BY DEF PanicInDelete
<1>2. job.n # 1
  BY <1>1 DEF ExecInv
<1> QED
  BY <1>1, <1>2, MovesOn DEF Before

\* COPY and LOAD DATA look for the columns, transactions begin, and statements
\* are prepared.
LEMMA BeginsStep ==
  ASSUME ExecInv, ParseInsert \/ Begin \/ Prepare
  PROVE  ExecInv'
<1>1. /\ stage \in {"copy", "load", "preparedBegin", "mixedBegin", "copyBegin", "prepare", "copyIn"}
      /\ UNCHANGED <<job, pos, pending, applied, rowVars>>
      /\ \/ FailAll
         \/ \E label \in {"multi", "copyBegin", "loadExec", "mixedExec", "copyIn", "copyExec"} : Goto(label)
         \/ \E label \in {"prepare", "preparedExec"} : Goto(label) /\ stage \in {"preparedBegin", "prepare"}
  BY DEF ParseInsert, Begin, Prepare
<1>2. stage \in Before /\ job.n # 1 /\ (stage \in {"preparedBegin", "prepare"} => Strategy = "preparedBegin")
  BY <1>1, SMTT(60) DEF ExecInv, Before
<1>3. CASE FailAll
  <2>1. /\ job' = job /\ pos' = pos /\ pending' = pending /\ applied' = applied
        /\ firstId' = firstId /\ effect' = effect /\ nextId' = nextId
    BY <1>1 DEF rowVars
  <2>2. /\ pos \in Nat \ {0} /\ pending \subseteq Reqs
        /\ firstId \in [Reqs -> Nat] /\ effect \in [Reqs -> Nat] /\ nextId \in Nat
    BY DEF ExecInv, ExecTypeOK
  <2>3. 0 \in 0..1 /\ applied = [r \in Reqs |-> 0]
    BY <1>2, CommitFacts DEF Before
  <2> QED
    BY <1>3, <2>1, <2>2, <2>3, Failed
<1>4. ASSUME NEW label \in {"multi", "copyBegin", "loadExec", "mixedExec", "copyIn", "copyExec"}, Goto(label)
      PROVE  ExecInv'
  BY <1>1, <1>2, <1>4, MovesOn DEF Before
<1>5. ASSUME NEW label \in {"prepare", "preparedExec"}, Goto(label), stage \in {"preparedBegin", "prepare"}
      PROVE  ExecInv'
  BY <1>1, <1>2, <1>5, MovesOn, SMTT(60) DEF Before
<1> QED
  BY <1>1, <1>3, <1>4, <1>5

\* One request of a loop runs: it has a result, and no other's changes.
LEMMA OneRan ==
  ASSUME ExecInv, NEW r \in Reqs, Change(r), NEW res, res.ok, res.id \in Int,
         Numbered /\ res.id > 0 => res.id = firstId'[r],
         results' = [results EXCEPT ![r] = res]
  PROVE  /\ DOMAIN results' = Reqs /\ (\A s \in Reqs : results'[s].id \in Int)
         /\ results'[r].ok /\ (\A s \in Reqs : s # r => results'[s] = results[s])
         /\ Numbered =>
              \A s \in Reqs : results'[s].ok /\ results'[s].id > 0 => results'[s].id = firstId'[s]
<1>1. /\ DOMAIN results = Reqs /\ \A s \in Reqs : results[s].id \in Int
      /\ Numbered => \A s \in Reqs : results[s].ok /\ results[s].id > 0 => results[s].id = firstId[s]
  BY SMTT(60) DEF ExecInv, ExecTypeOK
<1>2. DOMAIN results' = Reqs /\ results'[r] = res /\ \A s \in Reqs : s # r => results'[s] = results[s]
  BY <1>1, SMTT(60)
<1>3. \A s \in Reqs : s # r => firstId'[s] = firstId[s]
  BY ChangeFacts
<1>4. \A s \in Reqs : results'[s].id \in Int
  BY <1>1, <1>2
<1>5. ASSUME Numbered, NEW s \in Reqs, results'[s].ok, results'[s].id > 0
      PROVE  results'[s].id = firstId'[s]
  <2>1. CASE s = r
    BY <1>2, <1>5, <2>1
  <2>2. CASE s # r
    BY <1>1, <1>2, <1>3, <1>5, <2>2
  <2> QED
    BY <2>1, <2>2
<1> QED
  BY <1>2, <1>4, <1>5, SMTT(60)

\* executePreparedBatch's loop.
LEMMA PreparedExecStep ==
  ASSUME ExecInv, PreparedExec
  PROVE  ExecInv'
<1>1. /\ stage = "preparedExec" /\ pos <= job.n /\ stage' = stage /\ job' = job /\ notified' = notified
      /\ applied' = applied /\ pos' = pos + 1
  BY DEF PreparedExec
<1>2. /\ pos \in Nat \ {0} /\ job.n \in Nat \ {0} /\ Reqs = 1..job.n /\ job.n # 1
      /\ pending \subseteq Reqs /\ applied \in [Reqs -> Nat]
      /\ DOMAIN results = Reqs /\ (\A r \in Reqs : results[r].id \in Int)
      /\ firstId \in [Reqs -> Nat] /\ effect \in [Reqs -> Nat] /\ nextId \in Nat
      /\ (\A r \in Reqs : results[r].ok <=> r \in pending)
      /\ Strategy = "preparedBegin" /\ job \in Jobs
      /\ Numbered => \A r \in Reqs : results[r].ok /\ results[r].id > 0 => results[r].id = firstId[r]
  BY <1>1, JobFacts, SMTT(60) DEF ExecInv, ExecTypeOK, LoopsInv
<1>3. pos \in Reqs /\ pos' \in Nat \ {0} /\ Reqs' = Reqs
  BY <1>1, <1>2 DEF Reqs
<1>4. CASE UNCHANGED <<pending, results, rowVars>>
  <2>1. ExecTypeOK' /\ LoopsInv'
    BY <1>1, <1>2, <1>3, <1>4, SMTT(60) DEF ExecTypeOK, LoopsInv, rowVars
  <2> QED
    BY <1>1, <1>2, <1>4, <2>1, GoesOn, SMTT(60) DEF rowVars
<1>5. ASSUME Change(pos), pending' = pending \cup {pos}, NEW res,
             results' = [results EXCEPT ![pos] = res], res = Result(0, 1, TRUE) \/ res \in ExecResults(pos)
      PROVE  ExecInv'
  <2>1. /\ firstId' \in [Reqs -> Nat] /\ effect' \in [Reqs -> Nat] /\ nextId' \in Nat
        /\ \A x \in ExecResults(pos) : x.ok /\ x.id \in Int /\ (Numbered /\ x.id > 0 => x.id = firstId'[pos])
    BY <1>3, <1>5, ChangeFacts
  <2>3. res.ok /\ res.id \in Int /\ (Numbered /\ res.id > 0 => res.id = firstId'[pos])
    <3>1. CASE res \in ExecResults(pos)
      BY <2>1, <3>1, Zenon
    <3>2. CASE res = Result(0, 1, TRUE)
      BY <3>2 DEF Result
    <3> QED
      BY <1>5, <3>1, <3>2, Zenon
  <2>4. /\ DOMAIN results' = Reqs /\ (\A s \in Reqs : results'[s].id \in Int)
        /\ results'[pos].ok /\ (\A s \in Reqs : s # pos => results'[s] = results[s])
        /\ Numbered =>
             \A s \in Reqs : results'[s].ok /\ results'[s].id > 0 => results'[s].id = firstId'[s]
    BY <1>3, <1>5, <2>3, OneRan, Zenon
  <2>5. ExecTypeOK'
    BY <1>1, <1>2, <1>3, <1>5, <2>1, <2>4, SMTT(60) DEF ExecTypeOK
  <2>6. LoopsInv'
    BY <1>1, <1>2, <1>3, <1>5, <2>4, SMTT(60) DEF LoopsInv
  <2> QED
    BY <1>1, <1>2, <2>4, <2>5, <2>6, GoesOn, SMTT(60)
<1> QED
  BY <1>4, <1>5, ZenonT(60) DEF PreparedExec

\* executePreparedBatch after its loop: a batch with an error is rolled back.
LEMMA PreparedEndStep ==
  ASSUME ExecInv, PreparedEnd
  PROVE  ExecInv'
<1>1. /\ stage = "preparedExec" /\ job' = job /\ pos' = pos /\ applied' = applied
      /\ firstId' = firstId /\ effect' = effect /\ nextId' = nextId
  BY DEF PreparedEnd, rowVars
<1>2. /\ pos \in Nat \ {0} /\ job.n # 1 /\ Strategy = "preparedBegin"
      /\ DOMAIN results = Reqs /\ (\A r \in Reqs : results[r].id \in Int)
      /\ firstId \in [Reqs -> Nat] /\ effect \in [Reqs -> Nat] /\ nextId \in Nat
      /\ (\A r \in Reqs : results[r].ok <=> r \in pending) /\ pending \subseteq Reqs
      /\ Numbered => \A r \in Reqs : results[r].ok /\ results[r].id > 0 => results[r].id = firstId[r]
  BY <1>1, SMTT(60) DEF ExecInv, ExecTypeOK, LoopsInv
<1>3. CASE (\E r \in Reqs : ~results[r].ok) /\ Finish(results, FALSE) /\ pending' = {}
  <2>1. stage' = "done" /\ results' = results /\ ~notified'
    BY <1>3 DEF Finish
  <2>2. notified' <=> job.n > 1 /\ \A r \in Reqs : results'[r].ok
    BY <1>3, <2>1
  <2>3. 0 \in 0..1 /\ applied' = [r \in Reqs |-> 0] /\ pending' \subseteq Reqs
    BY <1>1, <1>3, CommitFacts
  <2> QED
    BY <1>1, <1>2, <2>1, <2>2, <2>3, Ended, SMTT(60)
<1>4. CASE (\A r \in Reqs : results[r].ok) /\ Goto("commit") /\ pending' = pending
  <2>1. stage' = "commit" /\ results' = results /\ notified' = notified /\ Reqs' = Reqs
    BY <1>1, <1>4 DEF Goto, Reqs
  <2>2. pending' = Reqs /\ \A r \in Reqs : results'[r].ok
    BY <1>2, <1>4, <2>1, Zenon
  <2>3. ExecTypeOK'
    BY <1>1, <1>2, <1>4, <2>1, SMTT(60) DEF ExecInv, ExecTypeOK
  <2>4. LoopsInv'
    BY <2>1, <2>2 DEF LoopsInv
  <2> QED
    BY <1>1, <1>2, <2>1, <2>3, <2>4, GoesOn, SMTT(60)
<1> QED
  BY <1>3, <1>4, Zenon DEF PreparedEnd

\* executeTransactionBatch's loop.
LEMMA MixedExecStep ==
  ASSUME ExecInv, MixedExec
  PROVE  ExecInv'
<1>1. stage = "mixedExec" /\ pos <= job.n /\ job' = job /\ applied' = applied /\ pos' = pos + 1
  BY DEF MixedExec
<1>2. /\ pos \in Nat \ {0} /\ job.n \in Nat \ {0} /\ Reqs = 1..job.n /\ job.n # 1
      /\ pending = 1..(pos - 1) /\ applied \in [Reqs -> Nat] /\ job \in Jobs
      /\ firstId \in [Reqs -> Nat] /\ effect \in [Reqs -> Nat] /\ nextId \in Nat
      /\ \A r \in pending : results[r].ok
  BY <1>1, JobFacts, SMTT(60) DEF ExecInv, ExecTypeOK, LoopsInv
<1>3. pos \in Reqs /\ pos' \in Nat \ {0} /\ Reqs' = Reqs
  BY <1>1, <1>2 DEF Reqs
<1>4. CASE FailAll /\ pending' = {} /\ UNCHANGED rowVars
  <2>1. 0 \in 0..1 /\ applied' = [r \in Reqs |-> 0] /\ pending' \subseteq Reqs
    BY <1>1, <1>4, CommitFacts
  <2> QED
    BY <1>1, <1>2, <1>3, <1>4, <2>1, Failed, SMTT(60) DEF rowVars
<1>5. ASSUME Change(pos), pending' = pending \cup {pos},
             NEW res \in ExecResults(pos), results' = [results EXCEPT ![pos] = res],
             stage' = IF pos = job.n THEN "commit" ELSE stage, notified' = notified
      PROVE  ExecInv'
  <2>1. /\ firstId' \in [Reqs -> Nat] /\ effect' \in [Reqs -> Nat] /\ nextId' \in Nat
        /\ res.ok /\ res.id \in Int /\ (Numbered /\ res.id > 0 => res.id = firstId'[pos])
    BY <1>3, <1>5, ChangeFacts, SMTT(60)
  <2>2. /\ DOMAIN results' = Reqs /\ (\A s \in Reqs : results'[s].id \in Int)
        /\ results'[pos].ok /\ (\A s \in Reqs : s # pos => results'[s] = results[s])
        /\ Numbered =>
             \A s \in Reqs : results'[s].ok /\ results'[s].id > 0 => results'[s].id = firstId'[s]
    BY <1>3, <1>5, <2>1, OneRan, Zenon
  <2>3. pending' = 1..pos /\ pending' \subseteq Reqs /\ pending \subseteq Reqs
    BY <1>1, <1>2, <1>5
  <2>4. \A r \in pending' : results'[r].ok
    BY <1>2, <1>3, <1>5, <2>2, <2>3
  <2>5. ExecTypeOK'
    BY <1>1, <1>2, <1>3, <1>5, <2>1, <2>2, <2>3, SMTT(60) DEF ExecTypeOK
  <2>6. LoopsInv'
    <3>1. CASE pos = job.n
      BY <1>2, <1>3, <1>5, <2>3, <2>4, <3>1, SMTT(60) DEF LoopsInv
    <3>2. CASE pos # job.n
      <4>1. stage' = "mixedExec" /\ pos' <= job.n /\ pos' - 1 = pos /\ job'.n = job.n
        BY <1>1, <1>2, <1>5, <3>2
      <4> QED
        BY <2>3, <2>4, <4>1 DEF LoopsInv
    <3> QED
      BY <3>1, <3>2
  <2>7. stage' \in {"commit", "mixedExec"}
    BY <1>1, <1>5
  <2> QED
    BY <1>1, <1>2, <1>5, <2>2, <2>5, <2>6, <2>7, GoesOn, SMTT(60)
<1> QED
  BY <1>4, <1>5, Zenon DEF MixedExec

\* executeCopyBatchedInsert's loop and the end of its statement.
LEMMA CopyExecStep ==
  ASSUME ExecInv, CopyExec
  PROVE  ExecInv'
<1>1. stage = "copyExec" /\ job' = job /\ applied' = applied
  BY DEF CopyExec
<1>2. /\ pos \in Nat \ {0} /\ job.n \in Nat \ {0} /\ Reqs = 1..job.n /\ job.n # 1 /\ pos <= job.n + 1
      /\ pending = 1..(pos - 1) /\ applied \in [Reqs -> Nat] /\ job \in Jobs
      /\ firstId \in [Reqs -> Nat] /\ effect \in [Reqs -> Nat] /\ nextId \in Nat
      /\ (\A r \in pending : results[r].ok) /\ pending \subseteq Reqs
      /\ DOMAIN results = Reqs /\ (\A r \in Reqs : results[r].id \in Int)
      /\ Numbered => \A r \in Reqs : results[r].ok /\ results[r].id > 0 => results[r].id = firstId[r]
  BY <1>1, JobFacts, SMTT(60) DEF ExecInv, ExecTypeOK, LoopsInv
<1>3. Reqs' = Reqs
  BY <1>1 DEF Reqs
<1>4. CASE FailAll /\ pending' = {} /\ UNCHANGED <<pos, rowVars>>
  <2>1. 0 \in 0..1 /\ applied' = [r \in Reqs |-> 0] /\ pending' \subseteq Reqs
    BY <1>1, <1>4, CommitFacts
  <2> QED
    BY <1>1, <1>2, <1>3, <1>4, <2>1, Failed, SMTT(60) DEF rowVars
<1>5. CASE pos > job.n /\ Goto("commit") /\ UNCHANGED <<pos, pending, rowVars>>
  <2>1. /\ stage' = "commit" /\ results' = results /\ notified' = notified /\ pos' = pos /\ pending' = pending
        /\ firstId' = firstId /\ effect' = effect /\ nextId' = nextId
    BY <1>5 DEF Goto, rowVars
  <2>2. pending = Reqs
    BY <1>2, <1>5
  <2>3. ExecTypeOK'
    BY <1>1, <1>2, <1>3, <2>1, SMTT(60) DEF ExecTypeOK
  <2>4. LoopsInv'
    BY <1>2, <1>3, <2>1, <2>2, SMTT(60) DEF LoopsInv
  <2> QED
    BY <1>1, <1>2, <2>1, <2>3, <2>4, GoesOn, SMTT(60)
<1>6. CASE /\ pos <= job.n /\ Change(pos) /\ pending' = pending \cup {pos} /\ pos' = pos + 1
           /\ results' = [results EXCEPT ![pos] = BulkResult] /\ UNCHANGED <<stage, notified>>
  <2>1. pos \in Reqs /\ pos' \in Nat \ {0}
    BY <1>2, <1>6
  <2>2. firstId' \in [Reqs -> Nat] /\ effect' \in [Reqs -> Nat] /\ nextId' \in Nat
    BY <1>6, <2>1, ChangeFacts
  <2>3. BulkResult.ok /\ BulkResult.id \in Int /\ ~(BulkResult.id > 0)
    BY DEF BulkResult, Result
  <2>4. /\ DOMAIN results' = Reqs /\ (\A s \in Reqs : results'[s].id \in Int)
        /\ results'[pos].ok /\ (\A s \in Reqs : s # pos => results'[s] = results[s])
        /\ Numbered =>
             \A s \in Reqs : results'[s].ok /\ results'[s].id > 0 => results'[s].id = firstId'[s]
    BY <1>6, <2>1, <2>3, OneRan, Zenon
  <2>5. pending' = 1..pos /\ pending' \subseteq Reqs
    BY <1>2, <1>6
  <2>6. \A r \in pending' : results'[r].ok
    BY <1>2, <1>6, <2>1, <2>4, <2>5, SMTT(60)
  <2>7. ExecTypeOK'
    BY <1>1, <1>2, <1>3, <1>6, <2>1, <2>2, <2>4, <2>5, SMTT(60) DEF ExecTypeOK
  <2>8. LoopsInv'
    <3>1. stage' = "copyExec" /\ pos' <= job'.n + 1 /\ pos' - 1 = pos
      BY <1>1, <1>2, <1>6, SMTT(60)
    <3> QED
      BY <2>5, <2>6, <3>1 DEF LoopsInv
  <2> QED
    BY <1>1, <1>2, <1>6, <2>4, <2>7, <2>8, GoesOn, SMTT(60)
<1> QED
  BY <1>4, <1>5, <1>6 DEF CopyExec

\* executeLoadDataInfileBatchedInsert.
LEMMA LoadExecStep ==
  ASSUME ExecInv, LoadExec
  PROVE  ExecInv'
<1>1. stage = "loadExec" /\ job' = job /\ applied' = applied /\ pos' = pos
  BY DEF LoadExec
<1>2. /\ pos \in Nat \ {0} /\ job.n \in Nat \ {0} /\ Reqs = 1..job.n /\ job.n # 1 /\ stage \in Before
      /\ applied \in [Reqs -> Nat] /\ job \in Jobs /\ pending \subseteq Reqs
      /\ firstId \in [Reqs -> Nat] /\ effect \in [Reqs -> Nat] /\ nextId \in Nat
  BY <1>1, JobFacts, SMTT(60) DEF ExecInv, ExecTypeOK, LoopsInv, Before
<1>3. Reqs' = Reqs
  BY <1>1 DEF Reqs
<1>4. CASE FailAll /\ UNCHANGED <<pending, rowVars>>
  <2>1. 0 \in 0..1 /\ applied' = [r \in Reqs |-> 0]
    BY <1>1, CommitFacts
  <2> QED
    BY <1>1, <1>2, <1>4, <2>1, Failed DEF rowVars
<1>5. CASE Goto("multi") /\ UNCHANGED <<pending, rowVars>>
  BY <1>1, <1>2, <1>5, MovesOn DEF Before
<1>6. ASSUME NEW kept \in SUBSET Reqs, InsertAll(kept), pending' = Reqs, stage' = "commit",
             results' = [r \in Reqs |-> BulkResult], notified' = notified
      PROVE  ExecInv'
  <2>1. firstId' \in [Reqs -> Nat] /\ effect' \in [Reqs -> Nat] /\ nextId' \in Nat
    BY <1>6, InsertAllFacts
  <2>2. BulkResult.ok /\ BulkResult.id = 0
    BY DEF BulkResult, Result
  <2>3. DOMAIN results' = Reqs /\ \A s \in Reqs : results'[s].id = 0 /\ results'[s].ok
    BY <1>6, <2>2
  <2>4. ExecTypeOK'
    BY <1>1, <1>2, <1>3, <1>6, <2>1, <2>3, SMTT(60) DEF ExecTypeOK
  <2>5. LoopsInv'
    BY <1>3, <1>6, <2>3 DEF LoopsInv
  <2> QED
    BY <1>1, <1>2, <1>6, <2>3, <2>4, <2>5, GoesOn, SMTT(60)
<1> QED
  BY <1>4, <1>5, <1>6, Zenon DEF LoadExec

\* tx.Commit.
LEMMA CommitTxStep ==
  ASSUME ExecInv, CommitTx
  PROVE  ExecInv'
<1>1. /\ stage = "commit" /\ job' = job /\ pos' = pos /\ pending' = {}
      /\ firstId' = firstId /\ effect' = effect /\ nextId' = nextId
  BY DEF CommitTx, rowVars
<1>2. /\ pos \in Nat \ {0} /\ job.n \in Nat /\ job.n > 1 /\ pending = Reqs
      /\ firstId \in [Reqs -> Nat] /\ effect \in [Reqs -> Nat] /\ nextId \in Nat
      /\ DOMAIN results = Reqs /\ (\A r \in Reqs : results[r].ok /\ results[r].id \in Int)
      /\ Numbered => \A r \in Reqs : results[r].id > 0 => results[r].id = firstId[r]
  BY <1>1, JobFacts, SMTT(60) DEF ExecInv, ExecTypeOK, LoopsInv
<1>3. /\ 0 \in 0..1 /\ 1 \in 0..1 /\ applied = [r \in Reqs |-> 0] /\ pending' \subseteq Reqs
      /\ Commit(pending) => applied' = [r \in Reqs |-> 1]
  BY <1>1, <1>2, CommitFacts
<1>4. CASE FailAll /\ applied' = applied
  BY <1>1, <1>2, <1>3, <1>4, Failed
<1>5. CASE FailAll /\ Commit(pending)
  BY <1>1, <1>2, <1>3, <1>5, Failed
<1>6. CASE Succeed(results) /\ Commit(pending)
  BY <1>1, <1>2, <1>3, <1>6, Succeeded, SMTT(60)
<1> QED
  BY <1>4, <1>5, <1>6 DEF CommitTx, CommitFails

\* Other clients, and steps that change nothing.
LEMMA OthersStep ==
  ASSUME ExecInv, Others \/ UNCHANGED executorVars
  PROVE  ExecInv'
<1>1. /\ job' = job /\ stage' = stage /\ pos' = pos /\ results' = results /\ notified' = notified
      /\ pending' = pending /\ applied' = applied /\ firstId' = firstId /\ effect' = effect
  BY DEF Others, executorVars, rowVars
<1>2. nextId \in Nat /\ nextId' \in Nat
  BY DEF Others, executorVars, rowVars, ExecInv, ExecTypeOK
<1>3. Reqs' = Reqs /\ Strategy' = Strategy /\ Numbered' = Numbered
  BY <1>1 DEF Reqs, Numbered, Strategy, BatchedStrategy, InsertStrategy, IsBatchableInsert, IsBatchableDelete,
         AllParamsAreSimple, ContainsPostgresPlaceholder
<1>4. ExecTypeOK'
  BY <1>1, <1>2, <1>3, SMTT(60) DEF ExecInv, ExecTypeOK
<1>5. LoopsInv'
  BY <1>1, <1>3, SMTT(60) DEF ExecInv, LoopsInv
<1>6. AppliedAllOrNone' /\ AckedIsApplied' /\ NotifiedIffAllSucceed'
  BY <1>1, <1>3, SMTT(60) DEF ExecInv, AppliedAllOrNone, AckedIsApplied, NotifiedIffAllSucceed
<1> QED
  BY <1>1, <1>3, <1>4, <1>5, <1>6, SMTT(60) DEF ExecInv

\* ExecInv is an inductive invariant of the executor.
LEMMA ExecInvariance == ExecSpec => []ExecInv
<1>1. ExecInv /\ [ExecNext]_executorVars => ExecInv'
  BY DispatchStep, SingleStep, PanicStep, DeleteStep, MultiRowStep, BeginsStep, PreparedExecStep, PreparedEndStep,
     MixedExecStep, CopyExecStep, LoadExecStep, CommitTxStep, OthersStep DEF ExecNext
<1> QED
  BY ExecInitInv, <1>1, PTL DEF ExecSpec

\* Whatever strategy executeBatch picks, and whichever calls to the database fail
\* or lose their answer, a batch of any size is committed as a whole, once, or
\* not at all.
THEOREM AlwaysAllOrNone == ExecSpec => []AppliedAllOrNone
<1>1. ExecInv => AppliedAllOrNone
  BY DEF ExecInv
<1> QED
  BY ExecInvariance, <1>1, PTL

\* A request of an INSERT, DELETE or mixed batch that is told it succeeded is in
\* a statement that was committed, for batches of any size.
THEOREM AckedIsAlwaysApplied == ExecSpec => []AckedIsApplied
<1>1. ExecInv => AckedIsApplied
  BY DEF ExecInv
<1> QED
  BY ExecInvariance, <1>1, PTL

\* For INSERTs of one row each whose ids all come from the table's counter, no
\* request gets the id of another's row from normalizeFirstInsertID, with any of
\* the drivers and whatever other clients insert meanwhile.
THEOREM InsertIdIsAlwaysOwn == ExecSpec => []InsertIdIsOwn
<1>1. ExecInv => InsertIdIsOwn
  BY DEF ExecInv, InsertIdIsOwn
<1> QED
  BY ExecInvariance, <1>1, PTL

\* OnBatchComplete is called exactly for a batch of several requests that
\* succeeded as a whole.
THEOREM AlwaysNotifiedIffAllSucceed == ExecSpec => []NotifiedIffAllSucceed
<1>1. ExecInv => NotifiedIffAllSucceed
  BY DEF ExecInv
<1> QED
  BY ExecInvariance, <1>1, PTL
=============================================================================
