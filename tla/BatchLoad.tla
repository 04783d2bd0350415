----------------------------- MODULE BatchLoad -----------------------------
(***************************************************************************)
(* The executor together with the payload of its LOAD DATA strategy:       *)
(* executeLoadDataInfileBatchedInsert writes the rows of all requests      *)
(* before it begins the transaction (writebatch/executor.go).              *)
(***************************************************************************)
EXTENDS BatchExecutor, LoadData

loadExecVars == <<executorVars, loadVars>>

\* The loops over the requests and their parameters are not done.
Writing == stage = "loadExec" /\ Len(rows) < job.n

BatchInit == ExecInit /\ LoadInit

BatchNext ==
  \/ Writing /\ LoadNext /\ UNCHANGED executorVars
  \/ ~Writing /\ ExecNext /\ UNCHANGED loadVars

BatchSpec == BatchInit /\ [][BatchNext]_loadExecVars
-----------------------------------------------------------------------------
\* Given valid UTF-8, the server reads from a LOAD DATA payload the parameters of
\* every request of the batch, one row each: no parameter ends its field or its
\* line early, and a NULL stays apart from the string \N (escapeLoadDataString,
\* formatLoadDataParam).
LoadsWhatWasWritten ==
  stage = "commit" /\ Strategy = "load" => Len(rows) = job.n /\ Loaded = rows

\* The inductive invariant: LOAD DATA is executed when its payload is complete,
\* and a batch that chose it commits nothing else.
BatchLoadInv ==
  /\ LoadInv
  /\ job \in Jobs
  /\ Strategy = "load" => stage \in {"start", "load", "loadExec", "multi", "commit", "done"}
  /\ stage = "commit" /\ Strategy = "load" => Len(rows) = job.n
  /\ Len(rows) <= job.n /\ (Len(rows) = job.n => row = << >>)
=============================================================================
