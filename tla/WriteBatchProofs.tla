-------------------------- MODULE WriteBatchProofs --------------------------
(***************************************************************************)
(* Proofs about WriteBatch for any number of calls, groups and keys and    *)
(* any MaxBatchSize: a write is executed at most once, and only together   *)
(* with writes of its own batch key, with or without Close.                *)
(***************************************************************************)
EXTENDS WriteBatch, TLAPS

\* What append does to a slice.
LEMMA AppendFacts ==
  ASSUME NEW S, NEW s \in Seq(S), NEW x \in S
  PROVE  /\ Append(s, x) \in Seq(S)
         /\ DOMAIN s = 1..Len(s)
         /\ Len(s) \in Nat
         /\ DOMAIN Append(s, x) = 1..(Len(s) + 1)
         /\ \A i \in DOMAIN s : Append(s, x)[i] = s[i]
         /\ Append(s, x)[Len(s) + 1] = x
  OBVIOUS

\* A channel with one result in its buffer.
LEMMA Singleton ==
  ASSUME NEW S, NEW x \in S
  PROVE  <<x>> \in {s \in Seq(S) : Len(s) <= 1}
  OBVIOUS

\* A loop over a batch that is not at its end has a next request.
LEMMA InBatch ==
  ASSUME NEW S, NEW s \in Seq(S), NEW i \in DOMAIN s, i # Len(s)
  PROVE  i + 1 \in DOMAIN s
  OBVIOUS

\* The initial state satisfies the inductive invariant.
LEMMA InitIInv == Init => IInv
<1> SUFFICES ASSUME Init PROVE IInv
  BY Zenon
<1> USE ConstantsAssumption DEF Init, Executors
<1>1. TypeOK
  <2>1. \A S : <<>> \in Seq(S)
    OBVIOUS
  <2>2. chan \in [Requests -> {s \in Seq(Results) : Len(s) <= 1}]
    OBVIOUS
  <2> QED
    BY <2>1, <2>2, Zenon DEF TypeOK, CallPc, ExecPc
<1>2. MapInv /\ CallInv /\ GroupInv
  BY DEF MapInv, CallInv, GroupInv
<1>3. BatchInv /\ OneTaker /\ TimerInv /\ LoopInv
  BY DEF BatchInv, OneTaker, TimerInv, LoopInv, Took
<1> QED
  BY <1>1, <1>2, <1>3, Zenon DEF IInv

\* A step that leaves the slices and the calls' groups alone, takes no call
\* back from the appended ones and lets no executor take a batch, preserves
\* what the invariant says of groups and batches.
LEMMA Frame ==
  ASSUME IInv,
         UNCHANGED <<reqs, taken, grp, batch>>,
         \A r \in Requests : pc[r] \in Joined => pc'[r] \in Joined,
         \A e \in Executors : xpc'[e] \in Took => xpc[e] \in Took
  PROVE  GroupInv' /\ BatchInv' /\ OneTaker'
<1> USE DEF IInv
<1>1. \A e \in Executors : \A i \in DOMAIN batch[e] : batch[e][i] \in Requests
  BY DEF TypeOK
<1>2. \A g \in Groups : \A i \in DOMAIN reqs[g] : reqs[g][i] \in Requests
  BY DEF TypeOK
<1>3. GroupInv'
  BY <1>2 DEF GroupInv
<1>4. \A e \in Executors : GroupOf(e)' = GroupOf(e)
  BY Zenon DEF GroupOf
<1>5. BatchInv'
  BY <1>1, <1>4 DEF BatchInv
<1>6. OneTaker'
  BY <1>4, Zenon DEF OneTaker
<1> QED
  BY <1>3, <1>5, <1>6, Zenon

\* A step that leaves the map and the calls' groups alone preserves MapInv.
LEMMA MapFrame ==
  ASSUME IInv, UNCHANGED <<groups, born, grp>>
  PROVE  MapInv'
BY Zenon DEF IInv, MapInv

\* A running executor works on a group.
LEMMA GroupOfType ==
  ASSUME IInv, NEW e \in Executors, xpc[e] # "none"
  PROVE  GroupOf(e) \in Groups
BY Zenon DEF IInv, CallInv, GroupOf, Executors

\* A step of a call that leaves the groups alone, and keeps a request that
\* joined a group joined, preserves all but the types.
LEMMA CallFrame ==
  ASSUME IInv, NEW r \in Requests,
         UNCHANGED <<mapVars, grpVars, grp, execVars>>,
         \A s \in Requests : s # r => pc'[s] = pc[s],
         pc[r] \in Joined => pc'[r] \in Joined,
         pc[r] \in {"waiting", "done"} => pc'[r] \in {"waiting", "done"},
         pc'[r] \in {"join", "spawn", "waiting"} => grp[r] \in Groups,
         TypeOK'
  PROVE  IInv'
<1> USE DEF IInv, mapVars, grpVars, execVars
<1>1. MapInv'
  BY MapFrame, Zenon
<1>2. CallInv'
  BY Zenon DEF CallInv
<1>3. GroupInv' /\ BatchInv' /\ OneTaker'
  BY Frame, Zenon
<1>4. TimerInv' /\ LoopInv'
  BY Zenon DEF TimerInv, LoopInv
<1> QED
  BY <1>1, <1>2, <1>3, <1>4, Zenon

\* A step that changes at most the flags of Close preserves the inductive
\* invariant.
LEMMA FlagFrame ==
  ASSUME IInv, UNCHANGED <<mapVars, grpVars, callVars, chan, execVars>>,
         closed' \in BOOLEAN, closeReturned' \in BOOLEAN
  PROVE  IInv'
<1> USE DEF IInv, mapVars, grpVars, callVars, execVars
<1>1. TypeOK'
  BY Zenon DEF TypeOK
<1>2. MapInv'
  BY MapFrame, Zenon
<1>3. GroupInv' /\ BatchInv' /\ OneTaker'
  BY Frame, Zenon
<1>4. CallInv'
  BY Zenon DEF CallInv
<1>5. TimerInv' /\ LoopInv'
  BY Zenon DEF TimerInv, LoopInv
<1> QED
  BY <1>1, <1>2, <1>3, <1>4, <1>5, Zenon

\* Enqueue preserves the inductive invariant.
LEMMA EnqueueStep ==
  ASSUME IInv, NEW r \in Requests, Enqueue(r)
  PROVE  IInv'
<1>1. TypeOK'
  BY ConstantsAssumption, ZenonT(60) DEF IInv, TypeOK, CallPc, Answer, Results, Enqueue, Enter, Return, mapVars, grpVars, execVars
<1>2. /\ \A s \in Requests : s # r => pc'[s] = pc[s]
      /\ pc[r] \in Joined => pc'[r] \in Joined
      /\ pc[r] \in {"waiting", "done"} => pc'[r] \in {"waiting", "done"}
      /\ pc'[r] \notin {"join", "spawn", "waiting"}
  BY DEF IInv, TypeOK, Joined, Enqueue, Enter, Return
<1> QED
  BY <1>1, <1>2, CallFrame, Zenon DEF Enqueue, Enter, Return

\* Retry preserves the inductive invariant.
LEMMA RetryStep ==
  ASSUME IInv, NEW r \in Requests, Retry(r)
  PROVE  IInv'
<1>1. TypeOK'
  BY ConstantsAssumption, Zenon DEF IInv, TypeOK, CallPc, Answer, Results, Retry, Enter, Return, mapVars, grpVars, execVars
<1>2. /\ \A s \in Requests : s # r => pc'[s] = pc[s]
      /\ pc[r] \in Joined => pc'[r] \in Joined
      /\ pc[r] \in {"waiting", "done"} => pc'[r] \in {"waiting", "done"}
      /\ pc'[r] \notin {"join", "spawn", "waiting"}
  BY DEF IInv, TypeOK, Joined, Retry, Enter, Return
<1> QED
  BY <1>1, <1>2, CallFrame, Zenon DEF Retry, Enter, Return

\* ExecuteImmediate preserves the inductive invariant.
LEMMA ExecuteImmediateStep ==
  ASSUME IInv, NEW r \in Requests, ExecuteImmediate(r)
  PROVE  IInv'
<1>1. TypeOK'
  BY ConstantsAssumption DEF IInv, TypeOK, CallPc, Answer, Results, ExecuteImmediate, Return, mapVars, grpVars, execVars
<1>2. /\ \A s \in Requests : s # r => pc'[s] = pc[s]
      /\ pc[r] \in Joined => pc'[r] \in Joined
      /\ pc[r] \in {"waiting", "done"} => pc'[r] \in {"waiting", "done"}
      /\ pc'[r] \notin {"join", "spawn", "waiting"}
  BY DEF IInv, TypeOK, Joined, ExecuteImmediate, Return
<1> QED
  BY <1>1, <1>2, CallFrame, Zenon DEF ExecuteImmediate, Return

\* JoinTaken preserves the inductive invariant.
LEMMA JoinTakenStep ==
  ASSUME IInv, NEW r \in Requests, JoinTaken(r)
  PROVE  IInv'
<1>1. TypeOK'
  BY ConstantsAssumption, Zenon DEF IInv, TypeOK, CallPc, Answer, Results, JoinTaken, mapVars, grpVars, execVars
<1>2. /\ \A s \in Requests : s # r => pc'[s] = pc[s]
      /\ pc[r] \in Joined => pc'[r] \in Joined
      /\ pc[r] \in {"waiting", "done"} => pc'[r] \in {"waiting", "done"}
      /\ pc'[r] \notin {"join", "spawn", "waiting"}
  BY Zenon DEF IInv, TypeOK, Joined, JoinTaken
<1> QED
  BY <1>1, <1>2, CallFrame, Zenon DEF JoinTaken

\* Receive preserves the inductive invariant.
LEMMA ReceiveStep ==
  ASSUME IInv, NEW r \in Requests, Receive(r)
  PROVE  IInv'
<1>1. TypeOK'
  BY ConstantsAssumption, SMTT(60) DEF IInv, TypeOK, CallPc, Answer, Results, Receive, Return, mapVars, grpVars, execVars
<1>2. /\ \A s \in Requests : s # r => pc'[s] = pc[s]
      /\ pc[r] \in Joined => pc'[r] \in Joined
      /\ pc[r] \in {"waiting", "done"} => pc'[r] \in {"waiting", "done"}
      /\ pc'[r] \notin {"join", "spawn", "waiting"}
  BY Zenon DEF IInv, TypeOK, Joined, Receive, Return
<1> QED
  BY <1>1, <1>2, CallFrame, Zenon DEF Receive, Return

\* Cancel preserves the inductive invariant.
LEMMA CancelStep ==
  ASSUME IInv, NEW r \in Requests, Cancel(r)
  PROVE  IInv'
<1>1. TypeOK'
  BY ConstantsAssumption, Zenon DEF IInv, TypeOK, CallPc, Answer, Results, Cancel, Return, mapVars, grpVars, execVars
<1>2. /\ \A s \in Requests : s # r => pc'[s] = pc[s]
      /\ pc[r] \in Joined => pc'[r] \in Joined
      /\ pc[r] \in {"waiting", "done"} => pc'[r] \in {"waiting", "done"}
      /\ pc'[r] \notin {"join", "spawn", "waiting"}
  BY Zenon DEF IInv, TypeOK, Joined, Cancel, Return
<1> QED
  BY <1>1, <1>2, CallFrame, Zenon DEF Cancel, Return

\* Close preserves the inductive invariant.
LEMMA CloseStep ==
  ASSUME IInv, Close
  PROVE  IInv'
BY FlagFrame, Zenon DEF Close, IInv, TypeOK

\* CloseReturns preserves the inductive invariant.
LEMMA CloseReturnsStep ==
  ASSUME IInv, CloseReturns
  PROVE  IInv'
BY FlagFrame, Zenon DEF CloseReturns, IInv, TypeOK

\* Spawn preserves the inductive invariant.
LEMMA SpawnStep ==
  ASSUME IInv, NEW r \in Requests, Spawn(r)
  PROVE  IInv'
<1> USE ConstantsAssumption DEF IInv, Spawn, mapVars, grpVars, callVars, execVars
<1>1. TypeOK'
  BY Zenon DEF TypeOK, CallPc, ExecPc, Answer, Results, Executors, LoopInv
<1>2. MapInv'
  BY MapFrame, Zenon
<1>3. CallInv'
  BY ZenonT(60) DEF CallInv, TypeOK, Executors
<1>4. GroupInv' /\ BatchInv' /\ OneTaker'
  <2>1. \A s \in Requests : pc[s] \in Joined => pc'[s] \in Joined
    BY Zenon DEF TypeOK, Joined
  <2>2. \A f \in Executors : xpc'[f] \in Took => xpc[f] \in Took
    BY Zenon DEF TypeOK, Took, Executors
  <2> QED
    BY <2>1, <2>2, Frame, Zenon
<1>5. TimerInv'
  BY ZenonT(60) DEF TimerInv, TypeOK, Executors
<1>6. LoopInv'
  BY ZenonT(60) DEF LoopInv, TypeOK, Executors, CallInv
<1> QED
  BY <1>1, <1>2, <1>3, <1>4, <1>5, <1>6, Zenon

\* TimerFires preserves the inductive invariant.
LEMMA TimerFiresStep ==
  ASSUME IInv, NEW g \in Groups, TimerFires(g)
  PROVE  IInv'
<1> USE ConstantsAssumption DEF IInv, TimerFires, mapVars, grpVars, callVars, execVars
<1>1. TypeOK'
  BY Zenon DEF TypeOK, CallPc, ExecPc, Answer, Results, Executors, LoopInv
<1>2. MapInv'
  BY MapFrame, Zenon
<1>3. CallInv'
  BY SMTT(60) DEF CallInv, TypeOK, Executors
<1>4. GroupInv' /\ BatchInv' /\ OneTaker'
  <2>1. \A s \in Requests : pc[s] \in Joined => pc'[s] \in Joined
    BY Zenon DEF TypeOK, Joined
  <2>2. \A f \in Executors : xpc'[f] \in Took => xpc[f] \in Took
    BY Zenon DEF TypeOK, Took, Executors
  <2> QED
    BY <2>1, <2>2, Frame, Zenon
<1>5. TimerInv'
  BY Zenon DEF TimerInv, TypeOK, Executors
<1>6. LoopInv'
  BY ZenonT(60) DEF LoopInv, TypeOK, Executors, TimerInv
<1> QED
  BY <1>1, <1>2, <1>3, <1>4, <1>5, <1>6, Zenon

\* CheckClosed preserves the inductive invariant.
LEMMA CheckClosedStep ==
  ASSUME IInv, NEW e \in Executors, CheckClosed(e)
  PROVE  IInv'
<1> USE ConstantsAssumption DEF IInv, CheckClosed, Goto, mapVars, grpVars, callVars, execVars
<1>1. TypeOK'
  BY Zenon DEF TypeOK, CallPc, ExecPc, Answer, Results, Executors, LoopInv
<1>2. MapInv'
  BY MapFrame, Zenon
<1>3. CallInv'
  BY Zenon DEF CallInv, TypeOK, Executors
<1>4. GroupInv' /\ BatchInv' /\ OneTaker'
  <2>1. \A s \in Requests : pc[s] \in Joined => pc'[s] \in Joined
    BY Zenon DEF TypeOK, Joined
  <2>2. \A f \in Executors : xpc'[f] \in Took => xpc[f] \in Took
    BY Zenon DEF TypeOK, Took, Executors
  <2> QED
    BY <2>1, <2>2, Frame, Zenon
<1>5. TimerInv'
  BY Zenon DEF TimerInv, TypeOK, Executors
<1>6. LoopInv'
  BY Zenon DEF LoopInv, TypeOK, Executors
<1> QED
  BY <1>1, <1>2, <1>3, <1>4, <1>5, <1>6, Zenon

\* Refuse preserves the inductive invariant.
LEMMA RefuseStep ==
  ASSUME IInv, NEW e \in Executors, Refuse(e)
  PROVE  IInv'
<1> USE ConstantsAssumption DEF IInv, Refuse, Deliver, Goto, LastIdx, mapVars, grpVars, callVars, execVars
<1>1. TypeOK'
  <2>1. idx' \in [Executors -> Nat] /\ xpc' \in [Executors -> ExecPc]
    BY DEF TypeOK, ExecPc
  <2>2. chan' \in [Requests -> {s \in Seq(Results) : Len(s) <= 1}]
    <3>1. <<"closed">> \in {s \in Seq(Results) : Len(s) <= 1}
      BY Singleton, Zenon DEF Results
    <3> QED
      BY <3>1, ZenonT(60) DEF TypeOK
  <2> QED
    BY <2>1, <2>2, SMTT(60) DEF TypeOK
<1>2. MapInv'
  BY MapFrame, Zenon
<1>3. CallInv'
  BY Zenon DEF CallInv, TypeOK, Executors
<1>4. GroupInv' /\ BatchInv' /\ OneTaker'
  <2>1. \A s \in Requests : pc[s] \in Joined => pc'[s] \in Joined
    BY Zenon DEF TypeOK, Joined
  <2>2. \A f \in Executors : xpc'[f] \in Took => xpc[f] \in Took
    BY Zenon DEF TypeOK, Took, Executors
  <2> QED
    BY <2>1, <2>2, Frame, Zenon
<1>5. TimerInv'
  BY Zenon DEF TimerInv, TypeOK, Executors
<1>6. LoopInv'
  <2>1. batch[e] \in Seq(Requests) /\ idx[e] \in DOMAIN batch[e]
    BY Zenon DEF LoopInv, TypeOK
  <2>2. idx[e] # Len(batch[e]) => idx[e] + 1 \in DOMAIN batch[e]
    BY <2>1, InBatch, Zenon
  <2> QED
    BY <2>1, <2>2, ZenonT(60) DEF LoopInv, TypeOK, Executors
<1> QED
  BY <1>1, <1>2, <1>3, <1>4, <1>5, <1>6, Zenon

\* Unmap preserves the inductive invariant.
LEMMA UnmapStep ==
  ASSUME IInv, NEW e \in Executors, Unmap(e)
  PROVE  IInv'
<1> USE ConstantsAssumption DEF IInv, Unmap, Goto, mapVars, grpVars, callVars, execVars
<1>1. TypeOK'
  BY ZenonT(60) DEF TypeOK, CallPc, ExecPc, Answer, Results, Executors, LoopInv
<1>2. MapInv'
  BY Zenon DEF MapInv
<1>3. CallInv'
  BY Zenon DEF CallInv, TypeOK, Executors
<1>4. GroupInv' /\ BatchInv' /\ OneTaker'
  <2>1. \A s \in Requests : pc[s] \in Joined => pc'[s] \in Joined
    BY Zenon DEF TypeOK, Joined
  <2>2. \A f \in Executors : xpc'[f] \in Took => xpc[f] \in Took
    BY Zenon DEF TypeOK, Took, Executors
  <2> QED
    BY <2>1, <2>2, Frame, Zenon
<1>5. TimerInv'
  BY Zenon DEF TimerInv, TypeOK, Executors
<1>6. LoopInv'
  BY ZenonT(60) DEF LoopInv, TypeOK, Executors
<1> QED
  BY <1>1, <1>2, <1>3, <1>4, <1>5, <1>6, Zenon

\* Run preserves the inductive invariant.
LEMMA RunStep ==
  ASSUME IInv, NEW e \in Executors, Run(e)
  PROVE  IInv'
<1> USE ConstantsAssumption DEF IInv, Run, Goto, mapVars, grpVars, callVars, execVars
<1>1. TypeOK'
  <2>1. PICK res \in [DOMAIN batch[e] -> Answer] : results' = [results EXCEPT ![e] = res]
    BY Zenon
  <2>2. batch[e] \in Seq(Requests)
    BY Zenon DEF TypeOK
  <2>3. res \in Seq(Answer)
    BY <2>2
  <2>4. results' \in [Executors -> Seq(Answer)]
    BY <2>1, <2>3, Zenon DEF TypeOK
  <2>5. xpc' \in [Executors -> ExecPc]
    BY Zenon DEF TypeOK, ExecPc
  <2> QED
    BY <2>4, <2>5, Zenon DEF TypeOK
<1>2. MapInv'
  BY MapFrame, Zenon
<1>3. CallInv'
  BY Zenon DEF CallInv, TypeOK, Executors
<1>4. GroupInv' /\ BatchInv' /\ OneTaker'
  <2>1. \A s \in Requests : pc[s] \in Joined => pc'[s] \in Joined
    BY Zenon DEF TypeOK, Joined
  <2>2. \A f \in Executors : xpc'[f] \in Took => xpc[f] \in Took
    BY Zenon DEF TypeOK, Took, Executors
  <2> QED
    BY <2>1, <2>2, Frame, Zenon
<1>5. TimerInv'
  BY Zenon DEF TimerInv, TypeOK, Executors
<1>6. LoopInv'
  BY SMTT(60) DEF LoopInv, TypeOK, Executors
<1> QED
  BY <1>1, <1>2, <1>3, <1>4, <1>5, <1>6, Zenon

\* Send preserves the inductive invariant.
LEMMA SendStep ==
  ASSUME IInv, NEW e \in Executors, Send(e)
  PROVE  IInv'
<1> USE ConstantsAssumption DEF IInv, Send, AnswerFor, Deliver, Goto, Advance, LastIdx, mapVars, grpVars, callVars, execVars
<1>1. TypeOK'
  <2>1. idx' \in [Executors -> Nat] /\ xpc' \in [Executors -> ExecPc]
    <3>1. CASE Goto(e, "callback") /\ UNCHANGED idx
      BY <3>1, SMTT(60) DEF TypeOK, ExecPc
    <3>2. CASE Advance(e)
      BY <3>2, SMTT(60) DEF TypeOK, ExecPc
    <3> QED
      BY <3>1, <3>2, ZenonT(60)
  <2>2. results[e][idx[e]] \in Results
    BY DEF TypeOK, LoopInv, Results
  <2>3. chan' \in [Requests -> {s \in Seq(Results) : Len(s) <= 1}]
    <3>1. <<results[e][idx[e]]>> \in {s \in Seq(Results) : Len(s) <= 1}
      BY <2>2, Singleton, Zenon
    <3> QED
      BY <3>1, Zenon DEF TypeOK
  <2> QED
    BY <2>1, <2>3, SMTT(60) DEF TypeOK
<1>2. MapInv'
  BY MapFrame, Zenon
<1>3. CallInv'
  BY ZenonT(60) DEF CallInv, TypeOK, Executors
<1>4. GroupInv' /\ BatchInv' /\ OneTaker'
  <2>1. \A s \in Requests : pc[s] \in Joined => pc'[s] \in Joined
    BY Zenon DEF TypeOK, Joined
  <2>2. \A f \in Executors : xpc'[f] \in Took => xpc[f] \in Took
    BY Zenon DEF TypeOK, Took, Executors
  <2> QED
    BY <2>1, <2>2, Frame, Zenon
<1>5. TimerInv'
  BY ZenonT(60) DEF TimerInv, TypeOK, Executors
<1>6. LoopInv'
  <2>1. CASE Goto(e, "callback") /\ UNCHANGED idx
    BY <2>1, ZenonT(60) DEF LoopInv, TypeOK, Executors
  <2>2. CASE Advance(e)
    <3>1. batch[e] \in Seq(Requests) /\ idx[e] \in DOMAIN batch[e]
      BY Zenon DEF LoopInv, TypeOK
    <3>2. idx[e] # Len(batch[e]) => idx[e] + 1 \in DOMAIN batch[e]
      BY <3>1, InBatch, Zenon
    <3> QED
      BY <2>2, <3>1, <3>2, ZenonT(60) DEF LoopInv, TypeOK, Executors
  <2> QED
    BY <2>1, <2>2, Zenon
<1> QED
  BY <1>1, <1>2, <1>3, <1>4, <1>5, <1>6, SMTT(60)

\* Callback preserves the inductive invariant.
LEMMA CallbackStep ==
  ASSUME IInv, NEW e \in Executors, Callback(e)
  PROVE  IInv'
<1> USE ConstantsAssumption DEF IInv, Callback, Advance, Goto, LastIdx, mapVars, grpVars, callVars, execVars
<1>1. TypeOK'
  <2>1. idx' \in [Executors -> Nat] /\ xpc' \in [Executors -> ExecPc]
    BY DEF TypeOK, ExecPc
  <2> QED
    BY <2>1, Zenon DEF TypeOK
<1>2. MapInv'
  BY MapFrame, Zenon
<1>3. CallInv'
  BY Zenon DEF CallInv, TypeOK, Executors
<1>4. GroupInv' /\ BatchInv' /\ OneTaker'
  <2>1. \A s \in Requests : pc[s] \in Joined => pc'[s] \in Joined
    BY Zenon DEF TypeOK, Joined
  <2>2. \A f \in Executors : xpc'[f] \in Took => xpc[f] \in Took
    BY Zenon DEF TypeOK, Took, Executors
  <2> QED
    BY <2>1, <2>2, Frame, Zenon
<1>5. TimerInv'
  BY Zenon DEF TimerInv, TypeOK, Executors
<1>6. LoopInv'
  BY SMTT(60) DEF LoopInv, TypeOK, Executors
<1> QED
  BY <1>1, <1>2, <1>3, <1>4, <1>5, <1>6, SMTT(60)

\* The requests in groups and batches are calls of Enqueue.
LEMMA ElementTypes ==
  ASSUME TypeOK
  PROVE  /\ \A g \in Groups : \A i \in DOMAIN reqs[g] : reqs[g][i] \in Requests
         /\ \A e \in Executors : \A i \in DOMAIN batch[e] : batch[e][i] \in Requests
BY SMTT(60) DEF TypeOK

\* A call that has not passed the critical section of Enqueue yet has its
\* request in no group and in no batch.
LEMMA NotJoinedYet ==
  ASSUME IInv, NEW r \in Requests, pc[r] \notin Joined
  PROVE  /\ \A g \in Groups : \A i \in DOMAIN reqs[g] : reqs[g][i] # r
         /\ \A e \in Executors : \A i \in DOMAIN batch[e] : batch[e][i] # r
BY DEF IInv, GroupInv, BatchInv

\* A new group is one that was never stored before.
LEMMA NewGroupFacts ==
  ASSUME Groups \ born # {}
  PROVE  NewGroup \in Groups /\ NewGroup \notin born
BY Zenon DEF NewGroup

\* Lookup preserves the inductive invariant.
LEMMA LookupStep ==
  ASSUME IInv, NEW r \in Requests, Lookup(r)
  PROVE  IInv'
<1> USE ConstantsAssumption DEF IInv, Lookup, mapVars, grpVars, execVars
<1>1. \A s \in Requests \ {r} : pc'[s] = pc[s] /\ grp'[s] = grp[s]
  BY DEF TypeOK
<1>2. pc[r] = "lookup" /\ pc'[r] = "join" /\ xpc[r] = "none" /\ grp'[r] \in Groups
  <2>1. pc[r] = "lookup" /\ pc'[r] = "join" /\ xpc[r] = "none"
    BY ZenonT(60) DEF TypeOK, CallInv
  <2>2. groups[KeyOf[r]] \in Groups \cup {NoGroup}
    BY Zenon DEF TypeOK
  <2>3. PICK g \in Groups : grp' = [grp EXCEPT ![r] = g]
    BY <2>2, NewGroupFacts, Zenon
  <2> QED
    BY <2>1, <2>3, ZenonT(60) DEF TypeOK
<1>3. \A e \in Executors : xpc[e] # "none" => GroupOf(e)' = GroupOf(e)
  BY <1>1, <1>2, Zenon DEF GroupOf, Executors
<1>4. TypeOK'
  <2>1. pc' \in [Requests -> CallPc]
    BY Zenon DEF TypeOK, CallPc
  <2>2. grp' \in [Requests -> Groups \cup {NoGroup}]
    BY <1>2, ZenonT(60) DEF TypeOK
  <2>3. groups' \in [Keys -> Groups \cup {NoGroup}] /\ born' \subseteq Groups
    BY NewGroupFacts, ZenonT(60) DEF TypeOK
  <2> QED
    BY <2>1, <2>2, <2>3, ZenonT(60) DEF TypeOK
<1>5. MapInv'
  <2>k. KeyOf[r] \in Keys
    BY Zenon
  <2>1. CASE groups[KeyOf[r]] # NoGroup
    <3>1. groups' = groups /\ born' = born /\ grp'[r] = groups[KeyOf[r]]
      BY <2>1, ZenonT(60) DEF TypeOK
    <3> QED
      BY <1>1, <2>k, <2>1, <3>1, SMTT(60) DEF MapInv
  <2>2. CASE groups[KeyOf[r]] = NoGroup
    <3>1. /\ born' = born \cup {NewGroup}
          /\ grp'[r] = NewGroup
          /\ groups'[KeyOf[r]] = NewGroup
          /\ \A k \in Keys : k # KeyOf[r] => groups'[k] = groups[k]
      BY <2>k, <2>2, SMTT(60) DEF TypeOK
    <3>2. NewGroup \notin born
      BY <2>2, NewGroupFacts, Zenon
    <3> QED
      BY <1>1, <2>k, <3>1, <3>2, SMTT(60) DEF MapInv
  <2> QED
    BY <2>1, <2>2, Zenon
<1>6. CallInv'
  BY <1>1, <1>2, ZenonT(60) DEF CallInv
<1>7. GroupInv'
  <2>1. \A g \in Groups : \A i \in DOMAIN reqs[g] : reqs[g][i] \in Requests \ {r}
    BY <1>2, NotJoinedYet, ElementTypes, Zenon DEF Joined
  <2> QED
    BY <1>1, <2>1, SMTT(60) DEF GroupInv
<1>8. BatchInv'
  <2>1. \A e \in Executors : \A i \in DOMAIN batch[e] : batch[e][i] \in Requests \ {r}
    BY <1>2, NotJoinedYet, ElementTypes, Zenon DEF Joined
  <2>2. \A e \in Executors : DOMAIN batch[e] # {} => xpc[e] # "none"
    BY DEF CallInv
  <2> QED
    BY <1>1, <1>3, <2>1, <2>2, SMTT(60) DEF BatchInv, Took
<1>9. OneTaker' /\ TimerInv' /\ LoopInv'
  BY <1>3, SMTT(60) DEF OneTaker, TimerInv, LoopInv, Took
<1> QED
  BY <1>4, <1>5, <1>6, <1>7, <1>8, <1>9, Zenon

\* Join preserves the inductive invariant.
LEMMA JoinStep ==
  ASSUME IInv, NEW r \in Requests, Join(r)
  PROVE  IInv'
<1> DEFINE g == grp[r]
<1> USE ConstantsAssumption DEF IInv, Join, IsFirst, mapVars, grpVars, execVars
<1>1. g \in Groups /\ reqs[g] \in Seq(Requests) /\ ~taken[g]
  BY Zenon DEF TypeOK, CallInv
<1>2. pc[r] = "join" /\ pc'[r] \in {"waiting", "spawn"} /\ xpc[r] = "none"
  BY ZenonT(60) DEF TypeOK, CallInv
<1>3. \A s \in Requests : s # r => pc'[s] = pc[s]
  BY Zenon DEF TypeOK
<1>4. reqs'[g] = Append(reqs[g], r) /\ \A h \in Groups : h # g => reqs'[h] = reqs[h]
  BY <1>1, ZenonT(60) DEF TypeOK
<1>5. \A e \in Executors : GroupOf(e)' = GroupOf(e)
  BY Zenon DEF GroupOf
<1>6. reqs'[g] # <<>> /\ (timer[g] # "unset" => Len(reqs[g]) # 0)
  BY <1>1, <1>4, AppendFacts, SMTT(60) DEF TimerInv
<1>7. TypeOK'
  <2>1. reqs' \in [Groups -> Seq(Requests)]
    BY <1>1, AppendFacts, ZenonT(60) DEF TypeOK
  <2>2. pc' \in [Requests -> CallPc]
    BY ZenonT(60) DEF TypeOK, CallPc
  <2> QED
    BY <2>1, <2>2, ZenonT(60) DEF TypeOK
<1>8. MapInv'
  <2>1. \A k \in Keys : groups'[k] # NoGroup => groups'[k] = groups[k]
    BY Zenon DEF TypeOK
  <2>2. born' = born /\ grp' = grp
    BY Zenon
  <2> QED
    BY <2>1, <2>2, SMTT(60) DEF MapInv
<1>9. CallInv'
  BY <1>1, <1>2, <1>3, Zenon DEF CallInv
<1>10. GroupInv'
  <2>1. \A h \in Groups : \A i \in DOMAIN reqs[h] : reqs[h][i] \in Requests /\ reqs[h][i] # r
    BY <1>2, NotJoinedYet, ElementTypes, SMTT(60) DEF Joined
  <2>2. \A h \in Groups \ {g} :
          /\ taken'[h] => reqs'[h] = <<>>
          /\ \A i \in DOMAIN reqs'[h] : pc'[reqs'[h][i]] \in Joined /\ grp'[reqs'[h][i]] = h
          /\ \A i, j \in DOMAIN reqs'[h] : reqs'[h][i] = reqs'[h][j] => i = j
    BY <1>3, <1>4, <2>1, SMTT(60) DEF GroupInv
  <2>3. \A i \in DOMAIN reqs'[g] :
          \/ i \in DOMAIN reqs[g] /\ reqs'[g][i] = reqs[g][i]
          \/ i = Len(reqs[g]) + 1 /\ reqs'[g][i] = r
    BY <1>1, <1>4, AppendFacts, SMTT(60)
  <2>4. \A i \in DOMAIN reqs'[g] : pc'[reqs'[g][i]] \in Joined /\ grp'[reqs'[g][i]] = g
    BY <1>1, <1>2, <1>3, <2>1, <2>3, SMTT(60) DEF GroupInv, Joined
  <2>5. \A i, j \in DOMAIN reqs'[g] : reqs'[g][i] = reqs'[g][j] => i = j
    BY <1>1, <2>1, <2>3, SMTT(60) DEF GroupInv
  <2>6. ~taken'[g]
    BY <1>1, Zenon
  <2> HIDE DEF Join, IInv
  <2> QED
    BY <2>2, <2>4, <2>5, <2>6, SMTT(60) DEF GroupInv
<1>11. BatchInv' /\ OneTaker'
  <2>1. \A e \in Executors : \A i \in DOMAIN batch[e] :
          batch[e][i] \in Requests /\ pc[batch[e][i]] \in Joined
    BY SMTT(60) DEF BatchInv, TypeOK
  <2>2. \A s \in Requests : pc[s] \in Joined => pc'[s] = pc[s]
    BY <1>2, <1>3, Zenon DEF Joined
  <2> QED
    BY <1>5, <2>1, <2>2, SMTT(60) DEF BatchInv, OneTaker
<1>12. TimerInv'
  <2>1. IsFirst(g) => timer[g] = "unset"
    BY <1>6, Zenon
  <2>2. \/ timer' = timer
        \/ timer[g] = "unset" /\ timer' = [timer EXCEPT ![g] = "armed"]
    BY <2>1, Zenon
  <2>3. xpc' = xpc /\ taken' = taken
    BY Zenon
  <2> QED
    BY <1>1, <1>4, <1>6, <2>2, <2>3, SMTT(60) DEF TimerInv, TypeOK
<1>13. LoopInv'
  BY Zenon DEF LoopInv
<1> QED
  BY <1>7, <1>8, <1>9, <1>10, <1>11, <1>12, <1>13, Zenon

\* ReadClosed preserves the inductive invariant.
LEMMA ReadClosedStep ==
  ASSUME IInv, NEW e \in Executors, ReadClosed(e)
  PROVE  IInv'
<1> DEFINE g == GroupOf(e)
<1> USE ConstantsAssumption DEF IInv, ReadClosed, Goto, mapVars, grpVars, callVars
<1>1. g \in Groups /\ reqs[g] \in Seq(Requests)
  BY GroupOfType, Zenon DEF TypeOK
<1>2. batch'[e] = reqs[g] /\ xpc'[e] \in {"refused", "refuse"} /\ xpc[e] = "readClosed"
  BY ZenonT(60) DEF TypeOK
<1>3. \A f \in Executors : f # e => batch'[f] = batch[f] /\ xpc'[f] = xpc[f]
  BY DEF TypeOK
<1>4. \A f \in Executors : GroupOf(f)' = GroupOf(f)
  BY Zenon DEF GroupOf
<1>5. TypeOK'
  BY <1>1, Zenon DEF TypeOK, ExecPc
<1>6. MapInv'
  BY MapFrame, Zenon
<1>7. CallInv' /\ GroupInv' /\ TimerInv'
  <2>1. \A f \in Executors : xpc'[f] # "none" => xpc[f] # "none"
    BY <1>2, <1>3, Zenon
  <2>2. \A f \in Executors : xpc'[f] = "none" => f # e /\ xpc[f] = "none"
    BY <1>2, <1>3, Zenon
  <2>3. CallInv'
    BY <1>3, <2>1, <2>2, ZenonT(60) DEF CallInv, Executors
  <2>4. GroupInv' /\ TimerInv'
    BY <2>1, SMTT(60) DEF GroupInv, TimerInv, Executors
  <2> QED
    BY <2>3, <2>4, Zenon
<1>8. BatchInv' /\ OneTaker'
  BY <1>1, <1>2, <1>3, <1>4, SMTT(60) DEF BatchInv, OneTaker, GroupInv, Took
<1>9. LoopInv'
  <2>1. idx[e] = 1 /\ (xpc'[e] = "refuse" => reqs[g] # <<>>)
    BY <1>2, ZenonT(60) DEF LoopInv, TypeOK
  <2>2. reqs[g] # <<>> => 1 \in DOMAIN reqs[g]
    BY <1>1
  <2> QED
    BY <1>2, <1>3, <2>1, <2>2, SMTT(60) DEF LoopInv
<1> QED
  BY <1>5, <1>6, <1>7, <1>8, <1>9, Zenon

\* Take preserves the inductive invariant.
LEMMA TakeStep ==
  ASSUME IInv, NEW e \in Executors, Take(e)
  PROVE  IInv'
<1> DEFINE g == GroupOf(e)
<1> USE ConstantsAssumption DEF IInv, Take, Goto, mapVars, callVars
<1>1. g \in Groups /\ reqs[g] \in Seq(Requests)
  BY GroupOfType, Zenon DEF TypeOK
<1>2. batch'[e] = reqs[g] /\ xpc'[e] = "unmap" /\ xpc[e] = "take"
  BY ZenonT(60) DEF TypeOK
<1>3. \A f \in Executors : f # e => batch'[f] = batch[f] /\ xpc'[f] = xpc[f]
  BY ZenonT(60) DEF TypeOK
<1>4. \A f \in Executors : GroupOf(f)' = GroupOf(f)
  BY Zenon DEF GroupOf
<1>5. taken'[g] /\ reqs'[g] = <<>>
  BY <1>1, ZenonT(60) DEF TypeOK
<1>6. \A h \in Groups : h # g => taken'[h] = taken[h] /\ reqs'[h] = reqs[h]
  BY <1>1, ZenonT(60) DEF TypeOK
<1>7. TypeOK'
  <2>1. <<>> \in Seq(Requests)
    OBVIOUS
  <2> QED
    BY <1>1, <2>1, ZenonT(60) DEF TypeOK, ExecPc
<1>8. MapInv'
  BY MapFrame, Zenon
<1>9. CallInv' /\ GroupInv' /\ TimerInv'
  BY <1>1, <1>2, <1>3, <1>5, <1>6, SMTT(60) DEF CallInv, GroupInv, TimerInv, Executors
<1>10. BatchInv'
  <2>1. \A h \in Groups : taken[h] => taken'[h]
    BY <1>1, Zenon DEF TypeOK
  <2>2. \A f \in Executors : xpc[f] \in Took => GroupOf(f) \in Groups
    BY GroupOfType, Zenon DEF Took
  <2> QED
    BY <1>1, <1>2, <1>3, <1>4, <1>5, <2>1, <2>2, SMTT(60) DEF BatchInv, GroupInv
<1>11. OneTaker'
  <2>1. \A f \in Executors : xpc[f] \in Took /\ GroupOf(f) = g => reqs[g] = <<>>
    BY <1>1, ZenonT(60) DEF BatchInv, GroupInv
  <2> QED
    BY <1>2, <1>3, <1>4, <2>1, SMTT(60) DEF OneTaker
<1>12. LoopInv'
  BY <1>2, <1>3, SMTT(60) DEF LoopInv
<1> QED
  BY <1>7, <1>8, <1>9, <1>10, <1>11, <1>12, Zenon

\* Every step of the manager preserves the inductive invariant.
LEMMA NextIInv == IInv /\ [Next]_vars => IInv'
<1> SUFFICES ASSUME IInv, [Next]_vars PROVE IInv'
  BY Zenon
<1>1. ASSUME NEW r \in Requests, Enqueue(r) \/ CallStep(r) \/ Cancel(r)
      PROVE  IInv'
  BY Zenon, <1>1, EnqueueStep, RetryStep, ExecuteImmediateStep, LookupStep, JoinTakenStep,
     JoinStep, SpawnStep, ReceiveStep, CancelStep DEF CallStep
<1>2. ASSUME NEW g \in Groups, TimerFires(g)
      PROVE  IInv'
  BY <1>2, TimerFiresStep, Zenon
<1>3. ASSUME NEW e \in Executors, ExecStep(e)
      PROVE  IInv'
  BY Zenon, <1>3, CheckClosedStep, ReadClosedStep, RefuseStep, TakeStep, UnmapStep, RunStep,
     SendStep, CallbackStep DEF ExecStep
<1>4. CASE Close \/ CloseReturns
  BY <1>4, CloseStep, CloseReturnsStep
<1>5. CASE UNCHANGED vars
  BY <1>5, FlagFrame, SMTT(60) DEF vars, IInv, TypeOK
<1> QED
  BY <1>1, <1>2, <1>3, <1>4, <1>5, Zenon DEF Next, OpenNext

\* The inductive invariant implies that no write is in two batches.
LEMMA IInvBatchesDisjoint == IInv => BatchesDisjoint
<1> SUFFICES ASSUME IInv,
                    NEW e \in Executors, NEW f \in Executors,
                    xpc[e] \in Took, xpc[f] \in Took,
                    NEW i \in DOMAIN batch[e], NEW j \in DOMAIN batch[f],
                    batch[e][i] = batch[f][j]
             PROVE  e = f /\ i = j
  BY Zenon DEF BatchesDisjoint
<1>1. GroupOf(e) = GroupOf(f)
  <2>1. BatchInv
    BY Zenon DEF IInv
  <2>2. grp[batch[e][i]] = GroupOf(e)
    BY <2>1, Zenon DEF BatchInv
  <2>3. grp[batch[f][j]] = GroupOf(f)
    BY <2>1, Zenon DEF BatchInv
  <2> QED
    BY <2>2, <2>3, Zenon
<1>2. e = f
  BY <1>1 DEF IInv, OneTaker
<1> QED
  BY <1>2, Zenon DEF IInv, BatchInv

\* The inductive invariant implies that a batch has one key.
LEMMA IInvOneKeyPerBatch == IInv => OneKeyPerBatch
<1> SUFFICES ASSUME IInv, NEW e \in Executors,
                    NEW i \in DOMAIN batch[e], NEW j \in DOMAIN batch[e]
             PROVE  KeyOf[batch[e][i]] = KeyOf[batch[e][j]]
  BY Zenon DEF OneKeyPerBatch
<1>1. batch[e][i] \in Requests /\ batch[e][j] \in Requests /\ xpc[e] # "none"
  BY SMTT(60) DEF IInv, TypeOK, CallInv
<1>2. grp[batch[e][i]] = GroupOf(e) /\ grp[batch[e][j]] = GroupOf(e)
  BY Zenon DEF IInv, BatchInv
<1>3. GroupOf(e) # NoGroup
  BY <1>1, GroupOfType, ConstantsAssumption, Zenon
<1> QED
  BY <1>1, <1>2, <1>3, SMTT(60) DEF IInv, MapInv

\* Every reachable state of the manager (Enqueue, executeBatch, Close), with
\* any number of calls, satisfies the inductive invariant.
THEOREM Invariance == Spec => []IInv
BY InitIInv, NextIInv, PTL DEF Spec

\* The variables of the manager keep their types; a result channel never holds
\* more than its buffer of one, whatever Enqueue, executeBatch and Close do.
THEOREM TypeCorrect == Spec => []TypeOK
<1>1. IInv => TypeOK
  BY Zenon DEF IInv
<1> QED
  BY <1>1, Invariance, PTL

\* executeBatch never executes a write twice, however many executors the timer
\* and the calls that fill a batch start on one group, and whether or not the
\* manager is closed meanwhile.
THEOREM ExecutedAtMostOnce == Spec => []BatchesDisjoint
BY Invariance, IInvBatchesDisjoint, PTL

\* executeBatch only ever works on writes with the same batch key.
THEOREM BatchesAreUniform == Spec => []OneKeyPerBatch
BY Invariance, IInvOneKeyPerBatch, PTL
=============================================================================
