------------------------- MODULE WriteServiceProofs -------------------------
(***************************************************************************)
(* What WriteBatch delivers, proved with TLAPS for any number of calls,    *)
(* batch groups and keys.  Until Close is called: the invariant OpenInv,   *)
(* the delivery properties that follow from it, and that the open manager  *)
(* implements WriteService.  With Close: whose answers calls return.       *)
(***************************************************************************)
EXTENDS WriteBatchProofs

\* An answer of the database stays with its batch.
LEMMA AnsweredKept ==
  ASSUME \A e \in Executors : xpc[e] \in {"send", "callback", "done"} =>
           xpc'[e] \in {"send", "callback", "done"} /\ batch'[e] = batch[e] /\ results'[e] = results[e],
         NEW r, NEW res, AnsweredWith(r, res)
  PROVE  \E e \in Executors :
           /\ xpc'[e] \in {"send", "callback", "done"}
           /\ \E i \in DOMAIN batch'[e] : i \in DOMAIN results'[e] /\ batch'[e][i] = r /\ results'[e][i] = res
BY SMTT(60) DEF AnsweredWith

\* A step that sends no result and returns none preserves AnswersInv.
LEMMA AnswersKept ==
  ASSUME AnswersInv,
         \A e \in Executors : xpc[e] \in {"send", "callback", "done"} =>
           xpc'[e] \in {"send", "callback", "done"} /\ batch'[e] = batch[e] /\ results'[e] = results[e],
         \A r \in Requests : chan'[r] # <<>> => chan'[r] = chan[r],
         \A r \in Requests \ Immediate : got'[r] \in Answer => got'[r] = got[r]
  PROVE  AnswersInv'
<1>1. ASSUME NEW r \in Requests, chan'[r] # <<>>
      PROVE  AnsweredWith(r, Head(chan[r]))'
  <2>1. chan'[r] = chan[r] /\ AnsweredWith(r, Head(chan[r]))
    BY <1>1, Zenon DEF AnswersInv
  <2> QED
    BY <2>1, AnsweredKept DEF AnsweredWith
<1>2. ASSUME NEW r \in Requests \ Immediate, got'[r] \in Answer
      PROVE  AnsweredWith(r, got[r])'
  <2>1. got'[r] = got[r] /\ AnsweredWith(r, got[r])
    BY <1>2 DEF AnswersInv
  <2> QED
    BY <2>1, AnsweredKept DEF AnsweredWith
<1>3. Answer' = Answer
  BY DEF Answer
<1> QED
  BY <1>1, <1>2, <1>3, Zenon DEF AnswersInv

\* A step that fills no channel, appends to no group and takes no batch preserves
\* UnsentInv.
LEMMA UnsentKept ==
  ASSUME IInv, UnsentInv,
         \A r \in Requests : chan[r] = <<>> => chan'[r] = <<>>,
         \A r \in Requests : pc[r] \in Joined => pc'[r] \in Joined,
         reqs' = reqs, batch' = batch,
         \A e \in Executors : \A i \in DOMAIN batch[e] : Unsent(e, i)' => Unsent(e, i)
  PROVE  UnsentInv'
<1>1. /\ \A g \in Groups : \A i \in DOMAIN reqs[g] : reqs[g][i] \in Requests
      /\ \A e \in Executors : \A i \in DOMAIN batch[e] : batch[e][i] \in Requests
  BY ElementTypes DEF IInv
<1> QED
  BY <1>1 DEF UnsentInv

\* A step that leaves a group an executor to come, and its calls a result to come.
LEMMA ComingKept ==
  ASSUME IInv, ComingInv,
         \A g \in Groups : ExecutorComing(g) => ExecutorComing(g)',
         \A r \in Requests : pc'[r] \in {"spawn", "waiting"} =>
           /\ pc[r] \in {"spawn", "waiting"} /\ grp'[r] = grp[r]
           /\ chan[r] # <<>> => chan'[r] # <<>>,
         reqs' = reqs, batch' = batch,
         \A e \in Executors : \A i \in DOMAIN batch[e] :
           Unsent(e, i) => Unsent(e, i)' \/ chan'[batch[e][i]] # <<>>
  PROVE  ComingInv'
<1>1. \A g \in Groups : reqs'[g] # <<>> => ExecutorComing(g)'
  BY Zenon DEF ComingInv
<1>2. ASSUME NEW r \in Requests, pc'[r] \in {"spawn", "waiting"}
      PROVE  \/ chan'[r] # <<>>
             \/ r \in Elems(reqs[grp[r]])
             \/ \E e \in Executors : \E i \in DOMAIN batch[e] : Unsent(e, i)' /\ batch[e][i] = r
  BY <1>2 DEF ComingInv
<1>3. \A r \in Requests : pc'[r] \in {"spawn", "waiting"} => Elems(reqs[grp[r]])' = Elems(reqs[grp[r]])
  BY DEF Elems
<1> QED
  BY <1>1, <1>2, <1>3 DEF ComingInv

\* A step of a call that is not about to start an executor.
LEMMA ExecutorStillComing ==
  ASSUME NEW r \in Requests, NEW g \in Groups, ExecutorComing(g), timer' = timer, xpc' = xpc,
         \A s \in Requests : s # r => pc'[s] = pc[s] /\ grp'[s] = grp[s],
         pc[r] # "spawn", grp'[r] = grp[r] \/ xpc[r] = "none"
  PROVE  ExecutorComing(g)'
<1>1. CASE timer[g] = "armed"
  BY <1>1, Zenon DEF ExecutorComing
<1>2. CASE \E s \in Requests : pc[s] = "spawn" /\ grp[s] = g
  BY <1>2 DEF ExecutorComing
<1>3. CASE \E e \in Executors : xpc[e] \in {"check", "take"} /\ GroupOf(e) = g
  BY <1>3 DEF ExecutorComing, GroupOf, Executors
<1> QED
  BY <1>1, <1>2, <1>3, Zenon DEF ExecutorComing

\* A step of a call before its append, or after it gave up.
LEMMA QuietCall ==
  ASSUME OpenInv, NEW r \in Requests, UNCHANGED <<grpVars, chan, execVars>>,
         \A s \in Requests : s # r => pc'[s] = pc[s] /\ grp'[s] = grp[s] /\ got'[s] = got[s],
         pc[r] # "spawn", pc'[r] \notin {"spawn", "waiting"},
         pc[r] \in Joined => pc'[r] \in Joined,
         got'[r] = got[r] \/ got'[r] \notin Answer \/ r \in Immediate,
         grp'[r] = grp[r] \/ xpc[r] = "none",
         IInv', OpenCalls'
  PROVE  OpenInv'
<1>1. /\ reqs' = reqs /\ timer' = timer /\ chan' = chan
      /\ xpc' = xpc /\ batch' = batch /\ idx' = idx /\ results' = results
  BY Zenon DEF grpVars, execVars
<1>2. AnswersInv'
  BY <1>1, AnswersKept, Zenon DEF OpenInv
<1>3. \A e, i : Unsent(e, i)' = Unsent(e, i)
  BY <1>1 DEF Unsent
<1>4. UnsentInv'
  BY <1>1, <1>3, UnsentKept, Zenon DEF OpenInv
<1>5. \A g \in Groups : ExecutorComing(g) => ExecutorComing(g)'
  BY <1>1, ExecutorStillComing, Zenon
<1>6. ComingInv'
  BY <1>1, <1>3, <1>5, ComingKept, Zenon DEF OpenInv
<1> QED
  BY <1>2, <1>4, <1>6 DEF OpenInv

\* The calls before they append their request, and the ones that give up.
LEMMA QuietCalls ==
  ASSUME OpenInv, IInv', NEW r \in Requests,
         Enqueue(r) \/ Retry(r) \/ ExecuteImmediate(r) \/ Lookup(r) \/ JoinTaken(r) \/ Cancel(r)
  PROVE  OpenInv'
<1>1. /\ pc \in [Requests -> CallPc] /\ got \in [Requests -> Results \cup {"none"}]
      /\ grp \in [Requests -> Groups \cup {NoGroup}]
      /\ ~closed /\ (\A e \in Executors : xpc[e] \notin {"readClosed", "refuse", "refused"})
      /\ (\A s \in Requests : pc[s] # "done" => got[s] = "none")
      /\ (\A s \in Requests : pc[s] = "immediate" => s \in Immediate)
      /\ (\A s \in Immediate : pc[s] \in {"idle", "immediate", "done"} /\ grp[s] = NoGroup)
      /\ xpc[r] # "none" => pc[r] \in {"waiting", "done"}
  BY ZenonT(60) DEF OpenInv, OpenCalls, IInv, TypeOK, CallInv
<1>2. /\ closed' = closed /\ UNCHANGED <<grpVars, chan, execVars>> /\ xpc' = xpc
      /\ pc' = [pc EXCEPT ![r] = pc'[r]] /\ got' = [got EXCEPT ![r] = got'[r]]
      /\ grp' = [grp EXCEPT ![r] = grp'[r]]
  BY <1>1, SMTT(60) DEF Enqueue, Retry, Enter, ExecuteImmediate, Lookup, JoinTaken, Cancel, Return, execVars
<1>3. \A s \in Requests : s # r => pc'[s] = pc[s] /\ grp'[s] = grp[s] /\ got'[s] = got[s]
  BY <1>1, <1>2
<1>4. \/ /\ pc[r] \in {"idle", "retry"} /\ grp'[r] = grp[r] /\ got'[r] = got[r]
         /\ pc'[r] = IF r \in Immediate THEN "immediate" ELSE "lookup"
      \/ pc[r] = "immediate" /\ grp'[r] = grp[r] /\ pc'[r] = "done"
      \/ pc[r] = "lookup" /\ got'[r] = got[r] /\ pc'[r] = "join"
      \/ pc[r] = "join" /\ grp'[r] = grp[r] /\ got'[r] = got[r] /\ pc'[r] = "retry"
      \/ pc[r] = "waiting" /\ grp'[r] = grp[r] /\ got'[r] = "cancelled" /\ pc'[r] = "done"
  BY <1>1, ZenonT(60) DEF Enqueue, Retry, Enter, ExecuteImmediate, Lookup, JoinTaken, Cancel, Return
<1>5. OpenCalls'
  BY <1>1, <1>2, <1>3, <1>4, ConstantsAssumption, SMTT(60) DEF OpenCalls
<1> QED
  BY <1>1, <1>2, <1>3, <1>4, <1>5, QuietCall, SMTT(60) DEF Joined, Answer

\* The select of Enqueue receives a result.
LEMMA ReceiveOpen ==
  ASSUME OpenInv, IInv', NEW r \in Requests, Receive(r)
  PROVE  OpenInv'
<1>1. /\ pc \in [Requests -> CallPc] /\ got \in [Requests -> Results \cup {"none"}]
      /\ chan \in [Requests -> {s \in Seq(Results) : Len(s) <= 1}]
  BY ZenonT(60) DEF OpenInv, IInv, TypeOK
<1>2. /\ pc[r] = "waiting" /\ chan[r] # <<>> /\ closed' = closed /\ grp' = grp
      /\ pc' = [pc EXCEPT ![r] = "done"] /\ got' = [got EXCEPT ![r] = Head(chan[r])]
      /\ chan' = [chan EXCEPT ![r] = Tail(@)] /\ reqs' = reqs /\ timer' = timer
      /\ xpc' = xpc /\ batch' = batch /\ idx' = idx /\ results' = results
  BY Zenon DEF Receive, Return, grpVars, execVars
<1>3. /\ chan'[r] = <<>> /\ pc'[r] = "done" /\ got'[r] = Head(chan[r])
      /\ \A s \in Requests : s # r => pc'[s] = pc[s] /\ got'[s] = got[s] /\ chan'[s] = chan[s]
  BY <1>1, <1>2
<1>4. OpenCalls'
  BY <1>2, <1>3, ConstantsAssumption DEF OpenInv, OpenCalls
<1>5. AnswersInv'
  <2>1. ASSUME NEW s \in Requests, chan'[s] # <<>>
        PROVE  AnsweredWith(s, Head(chan[s]))'
    <3>1. chan'[s] = chan[s] /\ AnsweredWith(s, Head(chan[s]))
      BY <1>3, <2>1 DEF OpenInv, AnswersInv
    <3> QED
      BY <1>2, <3>1, Zenon DEF AnsweredWith
  <2>2. ASSUME NEW s \in Requests \ Immediate, got'[s] \in Answer
        PROVE  AnsweredWith(s, got[s])'
    <3>1. AnsweredWith(s, got'[s])
      <4>1. CASE s = r
        BY <1>2, <1>3, <4>1, SMTT(60) DEF OpenInv, AnswersInv
      <4>2. CASE s # r
        BY <1>3, <2>2, <4>2, Zenon DEF OpenInv, AnswersInv
      <4> QED
        BY <4>1, <4>2, Zenon
    <3> QED
      BY <1>2, <3>1, Zenon DEF AnsweredWith
  <2> QED
    BY <2>1, <2>2, Zenon DEF AnswersInv, Answer
<1>6. \A e, i : Unsent(e, i)' = Unsent(e, i)
  BY <1>2 DEF Unsent
<1>7. UnsentInv'
  <2>1. \A s \in Requests : (chan[s] = <<>> => chan'[s] = <<>>) /\ (pc[s] \in Joined => pc'[s] \in Joined)
    BY <1>3, Zenon DEF Joined
  <2> QED
    BY <1>2, <1>6, <2>1, UnsentKept, Zenon DEF OpenInv
<1>8. ComingInv'
  <2>1. \A g \in Groups : ExecutorComing(g) => ExecutorComing(g)'
    BY <1>2, <1>3, ExecutorStillComing, SMTT(60)
  <2> QED
    BY <1>2, <1>3, <1>6, <2>1, ComingKept, Zenon DEF OpenInv
<1> QED
  BY <1>4, <1>5, <1>7, <1>8, Zenon DEF OpenInv

\* Enqueue appends its request: the first one starts the timer, and the others find
\* an executor on its way.
LEMMA JoinOpen ==
  ASSUME OpenInv, IInv', NEW r \in Requests, Join(r)
  PROVE  OpenInv'
<1> DEFINE g == grp[r]
<1>1. /\ pc \in [Requests -> CallPc] /\ timer \in [Groups -> {"unset", "armed", "stopped", "fired"}]
      /\ reqs \in [Groups -> Seq(Requests)] /\ pc[r] = "join"
  BY ZenonT(60) DEF OpenInv, IInv, TypeOK, Join
<1>2. g \in Groups
  BY <1>1, SMTT(60) DEF OpenInv, IInv, CallInv
<1>3. /\ closed' = closed /\ grp' = grp /\ got' = got /\ chan' = chan
      /\ xpc' = xpc /\ batch' = batch /\ idx' = idx /\ results' = results
      /\ reqs' = [reqs EXCEPT ![g] = Append(@, r)]
  BY Zenon DEF Join, execVars
<1>4. /\ \A s \in Requests : s # r => pc'[s] = pc[s]
      /\ \A h \in Groups : h # g => timer'[h] = timer[h]
      /\ \/ IsFirst(g) /\ timer'[g] = "armed" /\ pc'[r] = "waiting"
         \/ pc'[r] = "spawn" /\ timer' = timer
         \/ ~IsFirst(g) /\ pc'[r] = "waiting" /\ timer' = timer
  BY <1>1, <1>2, ZenonT(60) DEF Join
<1>5. reqs'[g] = Append(reqs[g], r) /\ \A h \in Groups : h # g => reqs'[h] = reqs[h]
  BY <1>1, <1>2, <1>3, Zenon
<1>6. reqs[g] \in Seq(Requests)
  BY <1>1, <1>2, Zenon
<1>7. \A i \in DOMAIN reqs'[g] :
        \/ i \in DOMAIN reqs[g] /\ reqs'[g][i] = reqs[g][i]
        \/ i = Len(reqs[g]) + 1 /\ reqs'[g][i] = r
  BY <1>5, <1>6, AppendFacts, SMTT(60)
<1>8. r \in Elems(reqs'[g]) /\ Elems(reqs[g]) \subseteq Elems(reqs'[g])
  <2>1. /\ Len(reqs[g]) + 1 \in DOMAIN reqs'[g] /\ reqs'[g][Len(reqs[g]) + 1] = r
        /\ \A i \in DOMAIN reqs[g] : i \in DOMAIN reqs'[g] /\ reqs'[g][i] = reqs[g][i]
    BY <1>5, <1>6, AppendFacts, SMTT(60)
  <2> QED
    BY <2>1, Zenon DEF Elems
<1>9. chan[r] = <<>> /\ r \notin Immediate
  BY <1>1, Zenon DEF OpenInv, OpenCalls, UnsentInv, Joined
<1>10. OpenCalls'
  BY <1>1, <1>3, <1>4, <1>9, ConstantsAssumption, SMTT(60) DEF OpenInv, OpenCalls
<1>11. AnswersInv'
  BY <1>3, AnswersKept, Zenon DEF OpenInv
<1>12. \A e, i : Unsent(e, i)' = Unsent(e, i)
  BY <1>3, Zenon DEF Unsent
<1>13. UnsentInv'
  <2>1. \A s \in Requests : pc[s] \in Joined => pc'[s] \in Joined
    BY <1>1, <1>4, Zenon DEF Joined
  <2>2. \A s \in Requests : pc'[s] \notin Joined => chan'[s] = <<>>
    BY <1>3, <2>1, Zenon DEF OpenInv, UnsentInv
  <2>3. \A h \in Groups : \A i \in DOMAIN reqs'[h] : chan'[reqs'[h][i]] = <<>>
    BY <1>3, <1>5, <1>7, <1>9, SMTT(60) DEF OpenInv, UnsentInv
  <2> QED
    BY <1>3, <1>12, <2>2, <2>3, ZenonT(60) DEF OpenInv, UnsentInv
<1>14. ComingInv'
  <2>1. ASSUME NEW h \in Groups, ExecutorComing(h)
        PROVE  ExecutorComing(h)'
    <3>1. CASE timer[h] = "armed"
      BY <1>4, <3>1, Zenon DEF ExecutorComing
    <3>2. CASE \E s \in Requests : pc[s] = "spawn" /\ grp[s] = h
      BY <1>1, <1>3, <1>4, <3>2, Zenon DEF ExecutorComing
    <3>3. CASE \E e \in Executors : xpc[e] \in {"check", "take"} /\ GroupOf(e) = h
      BY <1>3, <3>3, Zenon DEF ExecutorComing, GroupOf
    <3> QED
      BY <2>1, <3>1, <3>2, <3>3, Zenon DEF ExecutorComing
  <2>2. ASSUME NEW h \in Groups, h = g
        PROVE  ExecutorComing(h)'
    <3>1. CASE timer'[h] = "armed"
      BY <3>1, Zenon DEF ExecutorComing
    <3>2. CASE pc'[r] = "spawn"
      BY <1>3, <2>2, <3>2, Zenon DEF ExecutorComing
    <3>3. CASE ~IsFirst(g)
      <4>1. reqs[h] # <<>>
        BY <2>2, <3>3 DEF IsFirst
      <4> QED
        BY <2>1, <4>1, Zenon DEF OpenInv, ComingInv
    <3> QED
      BY <1>4, <2>2, <3>1, <3>2, <3>3, Zenon
  <2>3. \A h \in Groups : reqs'[h] # <<>> => ExecutorComing(h)'
    BY <1>5, <2>1, <2>2, Zenon DEF OpenInv, ComingInv
  <2>4. ASSUME NEW s \in Requests, pc'[s] \in {"spawn", "waiting"}
        PROVE  \/ chan[s] # <<>>
               \/ s \in Elems(reqs'[grp[s]])
               \/ \E e \in Executors : \E i \in DOMAIN batch[e] : Unsent(e, i) /\ batch[e][i] = s
    <3>1. CASE s = r
      BY <1>8, <3>1, Zenon
    <3>2. CASE s # r
      <4>1. pc[s] \in {"spawn", "waiting"}
        BY <1>4, <2>4, <3>2, Zenon
      <4>2. grp[s] \in Groups
        BY <4>1, Zenon DEF OpenInv, IInv, CallInv
      <4>3. Elems(reqs[grp[s]]) \subseteq Elems(reqs'[grp[s]])
        BY <1>5, <1>8, <4>2, Zenon
      <4> QED
        BY <4>1, <4>3, Zenon DEF OpenInv, ComingInv
    <3> QED
      BY <3>1, <3>2, Zenon
  <2>5. \A s \in Requests : Elems(reqs[grp[s]])' = Elems(reqs'[grp[s]])
    BY <1>3, Zenon DEF Elems
  <2> QED
    BY <1>3, <1>12, <2>3, <2>4, <2>5, Zenon DEF ComingInv
<1> QED
  BY <1>10, <1>11, <1>13, <1>14 DEF OpenInv

\* An executor starts.
LEMMA ExecutorStarts ==
  ASSUME OpenInv, NEW e \in Executors, xpc[e] = "none", xpc' = [xpc EXCEPT ![e] = "check"],
         UNCHANGED <<reqs, chan, batch, idx, results, grp, got>>, GroupOf(e) \in Groups,
         \A s \in Requests : pc'[s] = pc[s] \/ (s = e /\ pc[s] = "spawn" /\ pc'[s] = "waiting"),
         \A h \in Groups : h # GroupOf(e) => timer'[h] = timer[h],
         IInv', OpenCalls'
  PROVE  OpenInv'
<1>1. xpc \in [Executors -> ExecPc] /\ batch[e] = <<>>
  BY ZenonT(60) DEF OpenInv, IInv, TypeOK, CallInv
<1>2. xpc'[e] = "check" /\ \A f \in Executors : f # e => xpc'[f] = xpc[f]
  BY <1>1, Zenon
<1>3. AnswersInv'
  BY <1>2, AnswersKept, Zenon DEF OpenInv
<1>4. \A f \in Executors : \A i \in DOMAIN batch[f] : Unsent(f, i)' <=> Unsent(f, i)
  BY <1>1, <1>2, Zenon DEF Unsent
<1>5. \A s \in Requests : /\ pc[s] \in Joined => pc'[s] \in Joined
                          /\ pc'[s] \in {"spawn", "waiting"} => pc[s] \in {"spawn", "waiting"}
  BY Zenon DEF Joined
<1>6. UnsentInv'
  BY <1>4, <1>5, UnsentKept, Zenon DEF OpenInv
<1>7. ASSUME NEW h \in Groups, ExecutorComing(h)
      PROVE  ExecutorComing(h)'
  <2>1. \A f \in Executors : GroupOf(f)' = GroupOf(f)
    BY Zenon DEF GroupOf
  <2>2. CASE h = GroupOf(e)
    BY <1>2, <2>1, <2>2, Zenon DEF ExecutorComing
  <2>3. CASE h # GroupOf(e)
    <3>1. CASE timer[h] = "armed"
      BY <2>3, <3>1, Zenon DEF ExecutorComing
    <3>2. CASE \E s \in Requests : pc[s] = "spawn" /\ grp[s] = h
      <4>1. PICK s \in Requests : pc[s] = "spawn" /\ grp[s] = h
        BY <3>2, Zenon
      <4>2. s # e
        BY <2>3, <4>1, ConstantsAssumption, Zenon DEF GroupOf
      <4> QED
        BY <4>1, <4>2, Zenon DEF ExecutorComing
    <3>3. CASE \E f \in Executors : xpc[f] \in {"check", "take"} /\ GroupOf(f) = h
      BY <1>2, <2>1, <3>3, SMTT(60) DEF ExecutorComing
    <3> QED
      BY <1>7, <3>1, <3>2, <3>3, Zenon DEF ExecutorComing
  <2> QED
    BY <2>2, <2>3, Zenon
<1>8. ComingInv'
  BY <1>4, <1>5, <1>7, ComingKept, Zenon DEF OpenInv
<1> QED
  BY <1>3, <1>6, <1>8, Zenon DEF OpenInv

\* A timer fires, or the call that filled a batch starts an executor.
LEMMA StartOpen ==
  ASSUME OpenInv, IInv', (\E r \in Requests : Spawn(r)) \/ (\E g \in Groups : TimerFires(g))
  PROVE  OpenInv'
<1>1. /\ pc \in [Requests -> CallPc] /\ timer \in [Groups -> {"unset", "armed", "stopped", "fired"}]
      /\ xpc \in [Executors -> ExecPc]
  BY Zenon DEF OpenInv, IInv, TypeOK
<1>2. ASSUME NEW r \in Requests, Spawn(r)
      PROVE  OpenInv'
  <2>1. /\ pc[r] = "spawn" /\ pc' = [pc EXCEPT ![r] = "waiting"] /\ xpc' = [xpc EXCEPT ![r] = "check"]
        /\ timer' = [timer EXCEPT ![grp[r]] = IF @ = "armed" THEN "stopped" ELSE @] /\ closed' = closed
        /\ UNCHANGED <<reqs, chan, batch, idx, results, grp, got>>
    BY <1>2, Zenon DEF Spawn
  <2>2. r \in Executors /\ xpc[r] = "none" /\ grp[r] \in Groups /\ GroupOf(r) = grp[r]
    BY <2>1, ConstantsAssumption, ZenonT(60) DEF OpenInv, IInv, CallInv, Executors, GroupOf
  <2>3. /\ \A s \in Requests : pc'[s] = pc[s] \/ (s = r /\ pc[s] = "spawn" /\ pc'[s] = "waiting")
        /\ \A h \in Groups : h # GroupOf(r) => timer'[h] = timer[h]
    BY <1>1, <2>1, <2>2, SMTT(60)
  <2>4. OpenCalls'
    BY <1>1, <2>1, <2>2, <2>3, ConstantsAssumption, SMTT(60) DEF OpenInv, OpenCalls
  <2> QED
    BY <2>1, <2>2, <2>3, <2>4, ExecutorStarts, ZenonT(60)
<1>3. ASSUME NEW g \in Groups, TimerFires(g)
      PROVE  OpenInv'
  <2>1. /\ timer[g] = "armed" /\ timer' = [timer EXCEPT ![g] = "fired"] /\ xpc' = [xpc EXCEPT ![g] = "check"]
        /\ pc' = pc /\ closed' = closed /\ UNCHANGED <<reqs, chan, batch, idx, results, grp, got>>
    BY <1>3, Zenon DEF TimerFires, callVars
  <2>2. g \in Executors /\ xpc[g] = "none" /\ GroupOf(g) = g
    BY <2>1, Zenon DEF OpenInv, IInv, TimerInv, Executors, GroupOf
  <2>3. \A h \in Groups : h # GroupOf(g) => timer'[h] = timer[h]
    BY <1>1, <2>1, <2>2, Zenon
  <2>4. OpenCalls'
    BY <1>1, <2>1, <2>2, ZenonT(60) DEF OpenInv, OpenCalls
  <2> QED
    BY <2>1, <2>2, <2>3, <2>4, ExecutorStarts, Zenon
<1> QED
  BY <1>2, <1>3, Zenon

\* A step of executeBatch between its sends.
LEMMA ExecutorWorks ==
  ASSUME OpenInv, IInv', NEW e \in Executors,
         UNCHANGED <<closed, reqs, timer, pc, grp, got, chan, batch>>,
         \A f \in Executors : f # e => xpc'[f] = xpc[f] /\ idx'[f] = idx[f] /\ results'[f] = results[f],
         xpc'[e] \notin {"readClosed", "refuse", "refused"},
         xpc[e] \in {"check", "take"} => xpc'[e] \in {"check", "take"},
         xpc[e] \in {"send", "callback", "done"} =>
           xpc'[e] \in {"send", "callback", "done"} /\ results'[e] = results[e],
         \A i \in DOMAIN batch[e] : Unsent(e, i)' <=> Unsent(e, i)
  PROVE  OpenInv'
<1>1. OpenCalls'
  BY Zenon DEF OpenInv, OpenCalls
<1>2. AnswersInv'
  BY AnswersKept, Zenon DEF OpenInv
<1>3. \A f \in Executors : \A i \in DOMAIN batch[f] : Unsent(f, i)' <=> Unsent(f, i)
  BY SMTT(60) DEF Unsent
<1>4. UnsentInv'
  BY <1>3, UnsentKept, Zenon DEF OpenInv
<1>5. ASSUME NEW g \in Groups, ExecutorComing(g)
      PROVE  ExecutorComing(g)'
  <2>1. \A f \in Executors : xpc[f] \in {"check", "take"} => xpc'[f] \in {"check", "take"}
    BY Zenon
  <2> QED
    BY <1>5, <2>1, Zenon DEF ExecutorComing, GroupOf
<1>6. ComingInv'
  BY <1>3, <1>5, ComingKept, Zenon DEF OpenInv
<1> QED
  BY <1>1, <1>2, <1>4, <1>6, Zenon DEF OpenInv

\* CheckClosed, Unmap, Run and Callback preserve the invariant.
LEMMA WorkOpen ==
  ASSUME OpenInv, IInv', NEW e \in Executors,
         CheckClosed(e) \/ Unmap(e) \/ Run(e) \/ Callback(e)
  PROVE  OpenInv'
<1>1. /\ xpc \in [Executors -> ExecPc] /\ idx \in [Executors -> Nat]
      /\ DOMAIN results = Executors /\ batch[e] \in Seq(Requests) /\ ~closed
  BY ZenonT(60) DEF OpenInv, IInv, TypeOK, OpenCalls
<1>2. CASE CheckClosed(e)
  <2>1. /\ xpc[e] = "check" /\ xpc' = [xpc EXCEPT ![e] = "take"] /\ idx' = idx /\ results' = results
        /\ UNCHANGED <<closed, reqs, timer, pc, grp, got, chan, batch>>
    BY <1>1, <1>2, Zenon DEF CheckClosed, Goto, grpVars, callVars
  <2>2. xpc'[e] = "take" /\ \A f \in Executors : f # e => xpc'[f] = xpc[f]
    BY <1>1, <2>1, Zenon
  <2>3. \A i \in DOMAIN batch[e] : Unsent(e, i)' <=> Unsent(e, i)
    BY <2>1, <2>2, Zenon DEF Unsent
  <2> QED
    BY <2>1, <2>2, <2>3, ExecutorWorks, Zenon
<1>3. CASE Unmap(e)
  <2>1. /\ xpc[e] = "unmap" /\ xpc' = [xpc EXCEPT ![e] = IF batch[e] = <<>> THEN "done" ELSE "run"]
        /\ idx' = idx /\ results' = results
        /\ UNCHANGED <<closed, reqs, timer, pc, grp, got, chan, batch>>
    BY <1>3, Zenon DEF Unmap, Goto, grpVars, callVars
  <2>2. /\ xpc'[e] \in {"done", "run"} /\ \A f \in Executors : f # e => xpc'[f] = xpc[f]
        /\ xpc'[e] = "done" => batch[e] = <<>>
    BY <1>1, <2>1, Zenon
  <2>3. \A i \in DOMAIN batch[e] : Unsent(e, i)' <=> Unsent(e, i)
    BY <2>1, <2>2, SMTT(60) DEF Unsent
  <2> QED
    BY <2>1, <2>2, <2>3, ExecutorWorks, Zenon
<1>4. CASE Run(e)
  <2>1. PICK res \in [DOMAIN batch[e] -> Answer] : results' = [results EXCEPT ![e] = res]
    BY <1>4, Zenon DEF Run
  <2>2. /\ xpc[e] = "run" /\ xpc' = [xpc EXCEPT ![e] = "send"] /\ idx' = idx
        /\ UNCHANGED <<closed, reqs, timer, pc, grp, got, chan, batch>>
    BY <1>4, Zenon DEF Run, Goto, grpVars, callVars
  <2>3. xpc'[e] = "send" /\ \A f \in Executors : f # e => xpc'[f] = xpc[f] /\ results'[f] = results[f]
    BY <1>1, <2>1, <2>2, Zenon
  <2>4. \A i \in DOMAIN batch[e] : Unsent(e, i)' <=> Unsent(e, i)
    BY <2>2, <2>3, Zenon DEF Unsent
  <2> QED
    BY <2>2, <2>3, <2>4, ExecutorWorks, Zenon
<1>5. CASE Callback(e)
  <2>1. /\ xpc[e] = "callback" /\ xpc' = [xpc EXCEPT ![e] = IF LastIdx(e) THEN "done" ELSE "send"]
        /\ idx' = [idx EXCEPT ![e] = @ + 1] /\ results' = results
        /\ UNCHANGED <<closed, reqs, timer, pc, grp, got, chan, batch>>
    BY <1>5, Zenon DEF Callback, Advance, Goto, grpVars, callVars
  <2>2. /\ xpc'[e] = IF LastIdx(e) THEN "done" ELSE "send"
        /\ idx'[e] = idx[e] + 1 /\ idx[e] \in Nat
        /\ \A f \in Executors : f # e => xpc'[f] = xpc[f] /\ idx'[f] = idx[f]
    BY <1>1, <2>1, Zenon
  <2>3. \A i \in DOMAIN batch[e] : i \in Nat /\ i <= Len(batch[e])
    BY <1>1
  <2>4. \A i \in DOMAIN batch[e] : Unsent(e, i)' <=> Unsent(e, i)
    <3>1. CASE LastIdx(e)
      BY <2>1, <2>2, <2>3, <3>1, SMTT(60) DEF Unsent, LastIdx
    <3>2. CASE ~LastIdx(e)
      BY <2>1, <2>2, <2>3, <3>2, SMTT(60) DEF Unsent
    <3> QED
      BY <3>1, <3>2, Zenon
  <2>5. xpc'[e] \in {"done", "send"}
    BY <2>2, Zenon
  <2> QED
    BY <2>1, <2>2, <2>4, <2>5, ExecutorWorks, Zenon
<1> QED
  BY <1>2, <1>3, <1>4, <1>5, Zenon

\* executeBatch sends a result: the channel was empty, and nobody else sends there.
LEMMA SendOpen ==
  ASSUME OpenInv, IInv', NEW e \in Executors, Send(e)
  PROVE  OpenInv'
<1> DEFINE n == idx[e]
           q == batch[e][n]
<1>1. /\ xpc \in [Executors -> ExecPc] /\ idx \in [Executors -> Nat] /\ pc \in [Requests -> CallPc]
      /\ batch[e] \in Seq(Requests) /\ xpc[e] = "send" /\ chan[q] = <<>>
      /\ chan \in [Requests -> {s \in Seq(Results) : Len(s) <= 1}]
  BY ZenonT(60) DEF OpenInv, IInv, TypeOK, Send, Deliver
<1>2. /\ n \in DOMAIN batch[e] /\ DOMAIN results[e] = DOMAIN batch[e] /\ q \in Requests /\ n \in Nat
  BY <1>1, SMTT(60) DEF OpenInv, IInv, LoopInv
<1>3. /\ chan' = [chan EXCEPT ![q] = <<results[e][n]>>] /\ results' = results
      /\ UNCHANGED <<closed, reqs, timer, pc, grp, got, batch>>
  BY Zenon DEF Send, Deliver, AnswerFor, grpVars, callVars
<1>4. /\ \/ xpc'[e] = "callback" /\ idx'[e] = n
         \/ xpc'[e] = "done" /\ n = Len(batch[e]) /\ idx'[e] = n + 1
         \/ xpc'[e] = "send" /\ idx'[e] = n + 1
      /\ \A f \in Executors : f # e => xpc'[f] = xpc[f] /\ idx'[f] = idx[f]
  BY <1>1, Zenon DEF Send, Advance, Goto, LastIdx
<1>5. chan'[q] = <<results[e][n]>> /\ \A s \in Requests : s # q => chan'[s] = chan[s]
  BY <1>1, <1>2, <1>3, Zenon
<1>6. \A i \in DOMAIN batch[e] : Unsent(e, i)' <=> Unsent(e, i) /\ i # n
  <2>1. \A i \in DOMAIN batch[e] : i \in Nat /\ i <= Len(batch[e])
    BY <1>1, SMTT(60)
  <2> QED
    BY <1>1, <1>2, <1>4, <2>1, SMTT(60) DEF Unsent
<1>7. \A f \in Executors : \A i \in DOMAIN batch[f] : Unsent(f, i)' => Unsent(f, i)
  BY <1>4, <1>6 DEF Unsent
<1>8. \A f \in Executors : xpc[f] \in {"send", "callback", "done"} => xpc'[f] \in {"send", "callback", "done"}
  BY <1>4, Zenon
<1>9. OpenCalls'
  BY <1>3, <1>4, Zenon DEF OpenInv, OpenCalls
<1>10. AnswersInv'
  <2>1. ASSUME NEW s \in Requests, chan'[s] # <<>>
        PROVE  AnsweredWith(s, Head(chan[s]))'
    <3>1. CASE s = q
      <4>1. Head(chan'[s]) = results[e][n]
        BY <1>5, <3>1, SMTT(60)
      <4> QED
        BY <1>2, <1>3, <1>4, <3>1, <4>1, ZenonT(60) DEF AnsweredWith
    <3>2. CASE s # q
      <4>1. chan'[s] = chan[s] /\ AnsweredWith(s, Head(chan[s]))
        BY <1>5, <2>1, <3>2, ZenonT(60) DEF OpenInv, AnswersInv
      <4> QED
        BY <1>3, <1>8, <4>1, AnsweredKept, SMTT(60) DEF AnsweredWith
    <3> QED
      BY <3>1, <3>2, Zenon
  <2>2. ASSUME NEW s \in Requests \ Immediate, got'[s] \in Answer
        PROVE  AnsweredWith(s, got[s])'
    <3>1. got'[s] = got[s] /\ AnsweredWith(s, got[s])
      BY <1>3, <2>2, Zenon DEF OpenInv, AnswersInv
    <3> QED
      BY <1>3, <1>8, <3>1, AnsweredKept, SMTT(60) DEF AnsweredWith
  <2> QED
    BY <2>1, <2>2, Zenon DEF AnswersInv, Answer
<1>11. UnsentInv'
  <2>1. pc[q] \in Joined /\ grp[q] = GroupOf(e) /\ xpc[e] \in Took /\ taken[GroupOf(e)]
    BY <1>1, <1>2, SMTT(60) DEF OpenInv, IInv, BatchInv, Took
  <2>2. \A s \in Requests : pc'[s] \notin Joined => chan'[s] = <<>>
    BY <1>3, <1>5, <2>1, ZenonT(60) DEF OpenInv, UnsentInv
  <2>3. ASSUME NEW g \in Groups, NEW i \in DOMAIN reqs'[g]
        PROVE  chan'[reqs'[g][i]] = <<>>
    <3>1. reqs[g][i] \in Requests /\ chan[reqs[g][i]] = <<>> /\ reqs' = reqs
      BY <1>3, <2>3, ElementTypes, SMTT(60) DEF OpenInv, IInv, UnsentInv
    <3>2. reqs[g][i] # q
      <4>1. SUFFICES ASSUME reqs[g][i] = q PROVE FALSE
        BY Zenon
      <4>2. g = GroupOf(e) /\ reqs[g] # <<>>
        BY <1>3, <2>1, <2>3, <4>1, SMTT(60) DEF OpenInv, IInv, GroupInv
      <4> QED
        BY <2>1, <4>2, ZenonT(60) DEF OpenInv, IInv, GroupInv
    <3> QED
      BY <1>5, <3>1, <3>2, Zenon
  <2>4. ASSUME NEW f \in Executors, NEW i \in DOMAIN batch'[f], Unsent(f, i)'
        PROVE  chan'[batch'[f][i]] = <<>>
    <3>1. batch' = batch /\ i \in DOMAIN batch[f] /\ batch[f][i] \in Requests /\ Unsent(f, i)
      BY <1>3, <1>7, <2>4, ElementTypes, SMTT(60) DEF OpenInv, IInv
    <3>2. chan[batch[f][i]] = <<>> /\ xpc[f] \in Took
      BY <3>1, Zenon DEF OpenInv, UnsentInv, Unsent, Took
    <3>3. batch[f][i] # q
      <4>1. SUFFICES ASSUME batch[f][i] = q PROVE FALSE
        BY Zenon
      <4>2. BatchesDisjoint
        BY IInvBatchesDisjoint, Zenon DEF OpenInv
      <4>3. f = e /\ i = n
        BY <1>2, <2>1, <3>1, <3>2, <4>1, <4>2, SMTT(60) DEF BatchesDisjoint
      <4> QED
        BY <1>6, <2>4, <3>1, <4>3, Zenon
    <3> QED
      BY <1>5, <3>1, <3>2, <3>3, SMTT(60)
  <2> QED
    BY <2>2, <2>3, <2>4, SMTT(60) DEF UnsentInv
<1>12. ComingInv'
  <2>1. ASSUME NEW g \in Groups, ExecutorComing(g)
        PROVE  ExecutorComing(g)'
    <3>1. \A f \in Executors : xpc[f] \in {"check", "take"} => xpc'[f] \in {"check", "take"}
      BY <1>1, <1>4, Zenon
    <3> QED
      BY <1>3, <2>1, <3>1, Zenon DEF ExecutorComing, GroupOf
  <2>2. chan'[q] # <<>> /\ \A s \in Requests : chan[s] # <<>> => chan'[s] # <<>>
    <3>1. \A x : <<x>> # <<>>
      BY Zenon
    <3> QED
      BY <1>5, <3>1, SMTT(60)
  <2>3. \A f \in Executors : \A i \in DOMAIN batch[f] :
          Unsent(f, i) => Unsent(f, i)' \/ chan'[batch[f][i]] # <<>>
    <3>1. \A i \in DOMAIN batch[e] : Unsent(e, i) => Unsent(e, i)' \/ chan'[batch[e][i]] # <<>>
      BY <1>6, <2>2, Zenon
    <3>2. \A f \in Executors : \A i : f # e /\ Unsent(f, i) => Unsent(f, i)'
      BY <1>4, ZenonT(60) DEF Unsent
    <3> QED
      BY <3>1, <3>2, Zenon
  <2> QED
    BY <1>3, <2>1, <2>2, <2>3, ComingKept, ZenonT(60) DEF OpenInv
<1> QED
  BY <1>9, <1>10, <1>11, <1>12, Zenon DEF OpenInv

\* executeBatch takes the requests of its group: their results are still to be sent.
LEMMA TakeOpen ==
  ASSUME OpenInv, IInv', NEW e \in Executors, Take(e)
  PROVE  OpenInv'
<1> DEFINE g == GroupOf(e)
<1>1. /\ xpc \in [Executors -> ExecPc] /\ idx \in [Executors -> Nat] /\ reqs \in [Groups -> Seq(Requests)]
      /\ DOMAIN batch = Executors /\ xpc[e] = "take"
  BY ZenonT(60) DEF OpenInv, IInv, TypeOK, Take
<1>2. g \in Groups /\ idx[e] = 1
  BY <1>1, GroupOfType, ZenonT(60) DEF OpenInv, IInv, LoopInv
<1>3. /\ batch' = [batch EXCEPT ![e] = reqs[g]] /\ reqs' = [reqs EXCEPT ![g] = <<>>]
      /\ xpc' = [xpc EXCEPT ![e] = "unmap"] /\ idx' = idx /\ results' = results
      /\ UNCHANGED <<closed, timer, pc, grp, got, chan>>
  BY Zenon DEF Take, Goto, callVars
<1>4. /\ batch'[e] = reqs[g] /\ xpc'[e] = "unmap" /\ reqs'[g] = <<>>
      /\ \A f \in Executors : f # e => batch'[f] = batch[f] /\ xpc'[f] = xpc[f]
      /\ \A h \in Groups : h # g => reqs'[h] = reqs[h]
  BY <1>1, <1>2, <1>3, Zenon
<1>5. \A i \in DOMAIN reqs[g] : i \in Nat /\ i >= 1
  BY <1>1, <1>2, SMTT(60)
<1>6. \A i \in DOMAIN reqs[g] : Unsent(e, i)'
  BY <1>2, <1>3, <1>4, <1>5, Zenon DEF Unsent
<1>7. \A f \in Executors : \A i : f # e => (Unsent(f, i)' <=> Unsent(f, i))
  BY <1>3, <1>4, Zenon DEF Unsent
<1>8. OpenCalls'
  BY <1>3, <1>4, ZenonT(60) DEF OpenInv, OpenCalls
<1>9. AnswersInv'
  BY <1>1, <1>3, <1>4, AnswersKept, ZenonT(60) DEF OpenInv
<1>10. UnsentInv'
  <2>1. \A h \in Groups : \A i \in DOMAIN reqs'[h] : chan'[reqs'[h][i]] = <<>>
    BY <1>3, <1>4, SMTT(60) DEF OpenInv, UnsentInv
  <2>2. \A f \in Executors : \A i \in DOMAIN batch'[f] : Unsent(f, i)' => chan'[batch'[f][i]] = <<>>
    BY <1>2, <1>3, <1>4, <1>7, SMTT(60) DEF OpenInv, UnsentInv
  <2> QED
    BY <1>3, <2>1, <2>2, SMTT(60) DEF OpenInv, UnsentInv
<1>11. ComingInv'
  <2>1. ASSUME NEW h \in Groups, reqs'[h] # <<>>
        PROVE  ExecutorComing(h)'
    <3>1. h # g /\ ExecutorComing(h)
      BY <1>4, <2>1, Zenon DEF OpenInv, ComingInv
    <3>2. \A f \in Executors : xpc[f] \in {"check", "take"} /\ GroupOf(f) = h =>
            xpc'[f] \in {"check", "take"} /\ GroupOf(f)' = h
      BY <1>3, <1>4, <3>1, SMTT(60) DEF GroupOf
    <3> QED
      BY <1>3, <3>1, <3>2, Zenon DEF ExecutorComing
  <2>2. ASSUME NEW s \in Requests, pc'[s] \in {"spawn", "waiting"}
        PROVE  \/ chan[s] # <<>>
               \/ s \in Elems(reqs'[grp[s]])
               \/ \E f \in Executors : \E i \in DOMAIN batch'[f] : Unsent(f, i)' /\ batch'[f][i] = s
    <3>1. pc[s] \in {"spawn", "waiting"} /\ grp[s] \in Groups
      BY <1>3, <2>2, ZenonT(60) DEF OpenInv, IInv, CallInv
    <3>2. CASE s \in Elems(reqs[grp[s]]) /\ grp[s] = g
      <4>1. PICK i \in DOMAIN reqs[g] : reqs[g][i] = s
        BY <3>2, Zenon DEF Elems
      <4> QED
        BY <1>4, <1>6, <4>1, Zenon
    <3>3. CASE s \in Elems(reqs[grp[s]]) /\ grp[s] # g
      BY <1>4, <3>1, <3>3, Zenon
    <3>4. CASE \E f \in Executors : \E i \in DOMAIN batch[f] : Unsent(f, i) /\ batch[f][i] = s
      <4>1. PICK f \in Executors : \E i \in DOMAIN batch[f] : Unsent(f, i) /\ batch[f][i] = s
        BY <3>4, Zenon
      <4>2. f # e
        BY <1>1, <4>1, Zenon DEF Unsent
      <4> QED
        BY <1>4, <1>7, <4>1, <4>2, SMTT(60)
    <3> QED
      BY <3>1, <3>2, <3>3, <3>4, SMTT(60) DEF OpenInv, ComingInv
  <2>3. \A s \in Requests : Elems(reqs[grp[s]])' = Elems(reqs'[grp[s]])
    BY <1>3, Zenon DEF Elems
  <2> QED
    BY <1>3, <2>1, <2>2, <2>3, Zenon DEF ComingInv
<1> QED
  BY <1>8, <1>9, <1>10, <1>11, Zenon DEF OpenInv

\* The initial state satisfies the invariant of the open manager.
LEMMA InitOpenInv == Init => OpenInv
<1> SUFFICES ASSUME Init PROVE OpenInv
  BY Zenon
<1>1. IInv
  BY InitIInv, Zenon
<1>2. OpenCalls
  BY ConstantsAssumption, Zenon DEF Init, OpenCalls
<1>3. UnsentInv
  BY DEF Init, UnsentInv
<1>4. AnswersInv
  BY Zenon DEF Init, AnswersInv, Answer
<1>5. ComingInv
  BY Zenon DEF Init, ComingInv
<1> QED
  BY <1>1, <1>2, <1>3, <1>4, <1>5, Zenon DEF OpenInv

\* So does every step that leaves the manager as it is.
LEMMA StutterOpen == OpenInv /\ UNCHANGED vars => OpenInv'
<1> SUFFICES ASSUME OpenInv, UNCHANGED vars PROVE OpenInv'
  OBVIOUS
<1>1. IInv'
  BY NextIInv, Zenon DEF OpenInv
<1>2. /\ closed' = closed /\ reqs' = reqs /\ timer' = timer /\ pc' = pc /\ grp' = grp /\ got' = got
      /\ chan' = chan /\ xpc' = xpc /\ batch' = batch /\ idx' = idx /\ results' = results
  BY Zenon DEF vars, grpVars, callVars, execVars
<1>3. OpenCalls'
  BY <1>2, Zenon DEF OpenInv, OpenCalls
<1>4. AnswersInv'
  BY <1>2, AnswersKept, Zenon DEF OpenInv
<1>5. \A e, i : Unsent(e, i)' = Unsent(e, i)
  BY <1>2, Zenon DEF Unsent
<1>6. UnsentInv'
  BY <1>2, <1>5, UnsentKept, Zenon DEF OpenInv
<1>7. \A g \in Groups : ExecutorComing(g)' = ExecutorComing(g)
  BY <1>2, Zenon DEF ExecutorComing, GroupOf
<1>8. ComingInv'
  BY <1>2, <1>5, <1>7, ComingKept, Zenon DEF OpenInv
<1> QED
  BY <1>1, <1>3, <1>4, <1>6, <1>8, Zenon DEF OpenInv

\* Every step of the open manager preserves its invariant.
LEMMA NextOpenInv == OpenInv /\ [OpenNext]_vars => OpenInv'
<1> SUFFICES ASSUME OpenInv, [OpenNext]_vars PROVE OpenInv'
  BY Zenon
<1>1. IInv'
  BY NextIInv, Zenon DEF OpenInv, Next
<1>2. ASSUME NEW r \in Requests, Enqueue(r) \/ CallStep(r) \/ Cancel(r)
      PROVE  OpenInv'
  BY <1>1, <1>2, QuietCalls, JoinOpen, ReceiveOpen, StartOpen, Zenon DEF CallStep
<1>3. ASSUME NEW g \in Groups, TimerFires(g)
      PROVE  OpenInv'
  BY <1>1, <1>3, StartOpen, Zenon
<1>4. ASSUME NEW e \in Executors, ExecStep(e)
      PROVE  OpenInv'
  <2>1. ~ReadClosed(e) /\ ~Refuse(e)
    BY Zenon DEF OpenInv, OpenCalls, ReadClosed, Refuse
  <2> QED
    BY <1>1, <1>4, <2>1, WorkOpen, TakeOpen, SendOpen, Zenon DEF ExecStep
<1>5. CASE UNCHANGED vars
  BY <1>5, StutterOpen
<1> QED
  BY <1>2, <1>3, <1>4, <1>5, Zenon DEF OpenNext

\* Until Close is called, every reachable state satisfies the invariant.
THEOREM OpenInvariance == OpenSpec => []OpenInv
BY InitOpenInv, NextOpenInv, PTL DEF OpenSpec

\* Until Close is called, no call of Enqueue waits in its select for a result
\* that no executeBatch will send, however the timer, the calls that fill a
\* batch and the calls that find a taken group interleave.
THEOREM NobodyIsEverStranded == OpenSpec => []NobodyStranded
<1>1. OpenInv => NobodyStranded
  <2> SUFFICES ASSUME OpenInv, NEW r \in Requests, pc[r] \in {"spawn", "waiting"}
               PROVE  \/ chan[r] # <<>>
                      \/ r \in Elems(reqs[grp[r]]) /\ ExecutorComing(grp[r])
                      \/ ResultComing(r)
    BY Zenon DEF NobodyStranded
  <2>1. grp[r] \in Groups
    BY Zenon DEF OpenInv, IInv, CallInv
  <2>2. CASE r \in Elems(reqs[grp[r]])
    <3>1. reqs[grp[r]] # <<>>
      BY <2>2 DEF Elems
    <3> QED
      BY <2>1, <2>2, <3>1, Zenon DEF OpenInv, ComingInv
  <2>3. CASE \E e \in Executors : \E i \in DOMAIN batch[e] : Unsent(e, i) /\ batch[e][i] = r
    <3>1. PICK e \in Executors : \E i \in DOMAIN batch[e] : Unsent(e, i) /\ batch[e][i] = r
      BY <2>3, Zenon
    <3>2. PICK i \in DOMAIN batch[e] : Unsent(e, i) /\ batch[e][i] = r
      BY <3>1, Zenon
    <3>3. batch[e] \in Seq(Requests) /\ idx[e] \in Nat
      BY ZenonT(60) DEF OpenInv, IInv, TypeOK
    <3>4. i \in Nat /\ i <= Len(batch[e]) /\ i >= idx[e]
      BY <3>2, <3>3 DEF Unsent
    <3>5. i \in idx[e]..Len(batch[e])
      BY <3>3, <3>4
    <3> QED
      BY <3>2, <3>5, Zenon DEF ResultComing, Unsent
  <2> QED
    BY <2>2, <2>3, Zenon DEF OpenInv, ComingInv
<1> QED
  BY <1>1, OpenInvariance, PTL

\* Until Close is called, executeBatch never blocks on a result channel, also
\* when the caller's context was cancelled and nobody receives any more.
THEOREM SendsNeverBlock == OpenSpec => []SendNeverBlocks
<1>1. OpenInv => SendNeverBlocks
  <2> SUFFICES ASSUME OpenInv, NEW e \in Executors, xpc[e] = "send"
               PROVE  chan[batch[e][idx[e]]] = <<>>
    BY Zenon DEF SendNeverBlocks
  <2>1. idx[e] \in DOMAIN batch[e] /\ idx[e] \in Nat
    BY ZenonT(60) DEF OpenInv, IInv, LoopInv, TypeOK
  <2>2. Unsent(e, idx[e])
    BY <2>1 DEF Unsent
  <2> QED
    BY <2>1, <2>2, SMTT(60) DEF OpenInv, UnsentInv
<1> QED
  BY <1>1, OpenInvariance, PTL

-----------------------------------------------------------------------------
(* The answers that calls return, with and without Close *)

\* A step that delivers and returns no answer of the database preserves OwnInv.
LEMMA OwnKept ==
  ASSUME OwnInv,
         \A e \in Executors : xpc[e] \in {"send", "callback", "done"} =>
           xpc'[e] \in {"send", "callback", "done"} /\ batch'[e] = batch[e] /\ results'[e] = results[e],
         \A r \in Requests : chan'[r] # <<>> /\ Head(chan'[r]) \in Answer => chan'[r] = chan[r],
         \A r \in Requests \ Immediate : got'[r] \in Answer => got'[r] = got[r],
         \A r \in Requests : pc'[r] = "immediate" => pc[r] = "immediate" \/ r \in Immediate
  PROVE  OwnInv'
<1>1. ASSUME NEW r \in Requests, chan'[r] # <<>>, Head(chan'[r]) \in Answer
      PROVE  AnsweredWith(r, Head(chan[r]))'
  <2>1. chan'[r] = chan[r] /\ AnsweredWith(r, Head(chan[r]))
    BY <1>1, Zenon DEF OwnInv
  <2> QED
    BY <2>1, AnsweredKept, SMTT(60) DEF AnsweredWith
<1>2. ASSUME NEW r \in Requests \ Immediate, got'[r] \in Answer
      PROVE  AnsweredWith(r, got[r])'
  <2>1. got'[r] = got[r] /\ AnsweredWith(r, got[r])
    BY <1>2, Zenon DEF OwnInv
  <2> QED
    BY <2>1, AnsweredKept, SMTT(60) DEF AnsweredWith
<1>3. Answer' = Answer
  BY Zenon DEF Answer
<1>4. \A r \in Requests : pc'[r] = "immediate" => r \in Immediate
  BY Zenon DEF OwnInv
<1> QED
  BY <1>1, <1>2, <1>3, <1>4, Zenon DEF OwnInv

\* A step of a call, or of Close.
LEMMA OwnCalls ==
  ASSUME IInv, OwnInv, NEW r \in Requests,
         Enqueue(r) \/ Retry(r) \/ ExecuteImmediate(r) \/ Lookup(r) \/ JoinTaken(r) \/ Join(r) \/ Cancel(r)
  PROVE  OwnInv'
<1>1. pc \in [Requests -> CallPc] /\ got \in [Requests -> Results \cup {"none"}]
  BY Zenon DEF IInv, TypeOK
<1>2. xpc' = xpc /\ batch' = batch /\ results' = results /\ chan' = chan
  BY Zenon DEF Enqueue, Retry, Enter, ExecuteImmediate, Lookup, JoinTaken, Join, Cancel, execVars
<1>3. \A s \in Requests : s # r => pc'[s] = pc[s] /\ got'[s] = got[s]
  BY <1>1, Zenon DEF Enqueue, Retry, Enter, ExecuteImmediate, Lookup, JoinTaken, Join, Cancel, Return
<1>4. pc'[r] = "immediate" => r \in Immediate
  BY <1>1, Zenon DEF Enqueue, Retry, Enter, ExecuteImmediate, Lookup, JoinTaken, Join, Cancel, Return
<1>5. r \in Immediate \/ got'[r] = got[r] \/ got'[r] \in {"closed", "cancelled"}
  BY <1>1, Zenon DEF Enqueue, Retry, Enter, ExecuteImmediate, Lookup, JoinTaken, Join, Cancel, Return, OwnInv
<1> QED
  BY <1>2, <1>3, <1>4, <1>5, OwnKept, Zenon DEF Answer

\* An executor starts, for a call that filled a batch or for a timer.
LEMMA OwnStarts ==
  ASSUME IInv, OwnInv, NEW e \in Executors, xpc[e] = "none", xpc' = [xpc EXCEPT ![e] = "check"],
         batch' = batch, results' = results, chan' = chan, got' = got,
         \A r \in Requests : pc'[r] = "immediate" => pc[r] = "immediate"
  PROVE  OwnInv'
<1>1. \A f \in Executors : f # e => xpc'[f] = xpc[f]
  BY ZenonT(60) DEF IInv, TypeOK
<1> QED
  BY <1>1, OwnKept, Zenon

\* The select of Enqueue receives a result.
LEMMA OwnReceive ==
  ASSUME IInv, OwnInv, NEW r \in Requests, Receive(r)
  PROVE  OwnInv'
<1>1. /\ pc \in [Requests -> CallPc] /\ got \in [Requests -> Results \cup {"none"}]
      /\ chan \in [Requests -> {s \in Seq(Results) : Len(s) <= 1}]
  BY Zenon DEF IInv, TypeOK
<1>2. /\ chan[r] # <<>> /\ chan' = [chan EXCEPT ![r] = Tail(chan[r])]
      /\ got' = [got EXCEPT ![r] = Head(chan[r])] /\ pc' = [pc EXCEPT ![r] = "done"]
      /\ xpc' = xpc /\ batch' = batch /\ results' = results
  BY Zenon DEF Receive, Return, execVars
<1>3. /\ chan'[r] = <<>> /\ got'[r] = Head(chan[r]) /\ pc'[r] = "done"
      /\ \A s \in Requests : s # r => chan'[s] = chan[s] /\ got'[s] = got[s] /\ pc'[s] = pc[s]
  BY <1>1, <1>2, SMTT(60)
<1>4. \A s, res : AnsweredWith(s, res) => 
        \E e \in Executors :
           /\ xpc'[e] \in {"send", "callback", "done"}
           /\ \E i \in DOMAIN batch'[e] : i \in DOMAIN results'[e] /\ batch'[e][i] = s /\ results'[e][i] = res
  BY <1>2, Zenon DEF AnsweredWith
<1>5. ASSUME NEW s \in Requests, chan'[s] # <<>>, Head(chan'[s]) \in Answer
      PROVE  AnsweredWith(s, Head(chan[s]))'
  <2>1. chan'[s] = chan[s] /\ AnsweredWith(s, Head(chan[s]))
    BY <1>3, <1>5, Zenon DEF OwnInv
  <2> QED
    BY <1>4, <2>1, SMTT(60) DEF AnsweredWith
<1>6. ASSUME NEW s \in Requests \ Immediate, got'[s] \in Answer
      PROVE  AnsweredWith(s, got[s])'
  <2>1. AnsweredWith(s, got'[s])
    BY <1>2, <1>3, <1>6, SMTT(60) DEF OwnInv
  <2> QED
    BY <1>4, <2>1, Zenon DEF AnsweredWith
<1>7. Answer' = Answer
  BY Zenon DEF Answer
<1>8. \A s \in Requests : pc'[s] = "immediate" => s \in Immediate
  BY <1>3, Zenon DEF OwnInv
<1> QED
  BY <1>5, <1>6, <1>7, <1>8, Zenon DEF OwnInv

\* A step of executeBatch that sends no answer of the database.
LEMMA OwnWorks ==
  ASSUME IInv, OwnInv, NEW e \in Executors,
         CheckClosed(e) \/ ReadClosed(e) \/ Refuse(e) \/ Take(e) \/ Unmap(e) \/ Run(e) \/ Callback(e)
  PROVE  OwnInv'
<1>1. /\ xpc \in [Executors -> ExecPc] /\ batch \in [Executors -> Seq(Requests)]
      /\ results \in [Executors -> Seq(Answer)]
      /\ chan \in [Requests -> {s \in Seq(Results) : Len(s) <= 1}]
  BY Zenon DEF IInv, TypeOK
<1>2. pc' = pc /\ got' = got
  BY Zenon DEF CheckClosed, ReadClosed, Refuse, Take, Unmap, Run, Callback, callVars
<1>3. \A f \in Executors : f # e => xpc'[f] = xpc[f] /\ batch'[f] = batch[f] /\ results'[f] = results[f]
  BY <1>1, Zenon DEF CheckClosed, ReadClosed, Refuse, Take, Unmap, Run, Callback, Advance, Goto
<1>4. xpc[e] \in {"send", "callback", "done"} =>
        xpc'[e] \in {"send", "callback", "done"} /\ batch'[e] = batch[e] /\ results'[e] = results[e]
  BY <1>1, Zenon DEF CheckClosed, ReadClosed, Refuse, Take, Unmap, Run, Callback, Advance, Goto
<1>5. ASSUME NEW r \in Requests, chan'[r] # <<>>, Head(chan'[r]) \in Answer
      PROVE  chan'[r] = chan[r]
  <2>1. CASE Refuse(e)
    <3>1. chan' = [chan EXCEPT ![batch[e][idx[e]]] = <<"closed">>]
      BY <2>1, Zenon DEF Refuse, Deliver
    <3>2. Head(<<"closed">>) \notin Answer
      BY DEF Answer
    <3> QED
      BY <1>1, <1>5, <3>1, <3>2, Zenon
  <2>2. CASE ~Refuse(e)
    BY <2>2, Zenon DEF CheckClosed, ReadClosed, Take, Unmap, Run, Callback
  <2> QED
    BY <2>1, <2>2, Zenon
<1> QED
  BY <1>2, <1>3, <1>4, <1>5, OwnKept, Zenon

\* executeBatch sends the answer of the database, to the request it is for.
LEMMA OwnSend ==
  ASSUME IInv, OwnInv, NEW e \in Executors, Send(e)
  PROVE  OwnInv'
<1> DEFINE n == idx[e]
           q == batch[e][n]
<1>1. /\ xpc \in [Executors -> ExecPc] /\ batch[e] \in Seq(Requests)
      /\ chan \in [Requests -> {s \in Seq(Results) : Len(s) <= 1}] /\ xpc[e] = "send"
      /\ n \in DOMAIN batch[e] /\ DOMAIN results[e] = DOMAIN batch[e]
  BY ZenonT(60) DEF IInv, TypeOK, LoopInv, Send
<1>2. /\ pc' = pc /\ got' = got /\ batch' = batch /\ results' = results
      /\ chan' = [chan EXCEPT ![q] = <<results[e][n]>>]
  BY Zenon DEF Send, Deliver, AnswerFor, callVars
<1>3. /\ xpc'[e] \in {"send", "callback", "done"} /\ \A f \in Executors : f # e => xpc'[f] = xpc[f]
  BY <1>1, Zenon DEF Send, Advance, Goto
<1>4. chan'[q] = <<results[e][n]>> /\ q \in Requests /\ \A s \in Requests : s # q => chan'[s] = chan[s]
  BY <1>1, <1>2, SMTT(60)
<1>5. \A s, res : AnsweredWith(s, res) => 
        \E f \in Executors :
           /\ xpc'[f] \in {"send", "callback", "done"}
           /\ \E i \in DOMAIN batch'[f] : i \in DOMAIN results'[f] /\ batch'[f][i] = s /\ results'[f][i] = res
  BY <1>2, <1>3, ZenonT(60) DEF AnsweredWith
<1>6. AnsweredWith(q, results[e][n])
  BY <1>1, Zenon DEF AnsweredWith
<1> HIDE DEF n, q
<1>7. ASSUME NEW s \in Requests, chan'[s] # <<>>, Head(chan'[s]) \in Answer
      PROVE  AnsweredWith(s, Head(chan[s]))'
  <2>1. CASE s = q
    <3>1. Head(chan'[s]) = results[e][n]
      BY <1>4, <2>1, SMTT(60)
    <3> QED
      BY <1>5, <1>6, <2>1, <3>1, SMTT(60) DEF AnsweredWith
  <2>2. CASE s # q
    <3>1. chan'[s] = chan[s] /\ AnsweredWith(s, Head(chan[s]))
      BY <1>4, <1>7, <2>2, ZenonT(60) DEF OwnInv
    <3> QED
      BY <1>5, <3>1, SMTT(60) DEF AnsweredWith
  <2> QED
    BY <2>1, <2>2, Zenon
<1>8. ASSUME NEW s \in Requests \ Immediate, got'[s] \in Answer
      PROVE  AnsweredWith(s, got[s])'
  <2>1. got'[s] = got[s] /\ AnsweredWith(s, got[s])
    BY <1>2, <1>8, ZenonT(60) DEF OwnInv
  <2> QED
    BY <1>5, <2>1, SMTT(60) DEF AnsweredWith
<1>9. Answer' = Answer
  BY Zenon DEF Answer
<1> QED
  BY <1>2, <1>7, <1>8, <1>9, Zenon DEF OwnInv

LEMMA NextOwnInv == IInv /\ OwnInv /\ [Next]_vars => OwnInv'
<1> SUFFICES ASSUME IInv, OwnInv, [Next]_vars PROVE OwnInv'
  BY Zenon
<1>1. ASSUME NEW r \in Requests, Enqueue(r) \/ CallStep(r) \/ Cancel(r)
      PROVE  OwnInv'
  <2>1. CASE Spawn(r)
    <3>1. /\ xpc' = [xpc EXCEPT ![r] = "check"] /\ pc' = [pc EXCEPT ![r] = "waiting"] /\ pc[r] = "spawn"
          /\ batch' = batch /\ results' = results /\ chan' = chan /\ got' = got
      BY <2>1, Zenon DEF Spawn
    <3>2. xpc[r] = "none" /\ r \in Executors /\ \A s \in Requests : pc'[s] = "immediate" => pc[s] = "immediate"
      BY <3>1, ZenonT(60) DEF IInv, CallInv, TypeOK, Executors
    <3> QED
      BY <3>1, <3>2, OwnStarts, Zenon
  <2>2. CASE ~Spawn(r)
    BY <1>1, <2>2, OwnCalls, OwnReceive, Zenon DEF CallStep
  <2> QED
    BY <2>1, <2>2, Zenon
<1>2. ASSUME NEW g \in Groups, TimerFires(g)
      PROVE  OwnInv'
  <2>1. /\ xpc' = [xpc EXCEPT ![g] = "check"] /\ timer[g] = "armed"
        /\ batch' = batch /\ results' = results /\ chan' = chan /\ got' = got /\ pc' = pc
    BY <1>2, Zenon DEF TimerFires, callVars
  <2>2. xpc[g] = "none" /\ g \in Executors
    BY <2>1, Zenon DEF IInv, TimerInv, Executors
  <2> QED
    BY <2>1, <2>2, OwnStarts, Zenon
<1>3. ASSUME NEW e \in Executors, ExecStep(e)
      PROVE  OwnInv'
  BY <1>3, OwnWorks, OwnSend, Zenon DEF ExecStep
<1>4. CASE Close \/ CloseReturns \/ UNCHANGED vars
  <2>1. xpc' = xpc /\ batch' = batch /\ results' = results /\ chan' = chan /\ got' = got /\ pc' = pc
    BY <1>4, Zenon DEF Close, CloseReturns, vars, callVars, execVars
  <2> QED
    BY <2>1, OwnKept, Zenon
<1> QED
  BY <1>1, <1>2, <1>3, <1>4, ZenonT(60) DEF Next, OpenNext

\* An answer that Enqueue returns is the one that the database gave for this
\* very request in the batch that executed it, also while Close refuses others.
THEOREM AnswersAreOwn == Spec => []AnswerIsOwn
<1>1. Init => OwnInv
  BY DEF Init, OwnInv, Answer
<1>2. OwnInv => AnswerIsOwn
  <2> SUFFICES ASSUME OwnInv, NEW r \in Requests \ Immediate, got[r] \in Answer
               PROVE  \E e \in Executors : \E i \in DOMAIN results[e] :
                        Owns(e, r) /\ batch[e][i] = r /\ results[e][i] = got[r]
    BY Zenon DEF AnswerIsOwn
  <2>1. AnsweredWith(r, got[r])
    BY Zenon DEF OwnInv
  <2> QED
    BY <2>1, Zenon DEF AnsweredWith, Owns, Elems, Took
<1> QED
  BY <1>1, <1>2, NextOwnInv, Invariance, PTL DEF Spec

------------------------------------------------------------------------------
(* The open manager implements WriteService *)

\* A step that starts no call, returns from none and executes nothing.
LEMMA ServiceStutters ==
  ASSUME \A r \in Requests : pc'[r] = "idle" <=> pc[r] = "idle", got' = got,
         \A r \in Requests : Executed(r)' <=> Executed(r)
  PROVE  UNCHANGED Service!vars
<1>1. \A r \in Requests : OpOf(r)' = OpOf(r)
  BY Zenon DEF OpOf, Performed, Answer
<1>2. \A r \in Requests : ReplyOf(r)' = ReplyOf(r)
  BY Zenon DEF ReplyOf
<1> QED
  BY <1>1, <1>2, Zenon DEF Service!vars

\* What an executor has executed depends on its own state.
LEMMA ExecutedKept ==
  ASSUME \A e \in Executors : batch'[e] = batch[e] \/ xpc'[e] \notin {"send", "callback", "done"},
         \A e \in Executors : batch[e] # <<>> =>
           (xpc'[e] \in {"send", "callback", "done"} <=> xpc[e] \in {"send", "callback", "done"})
           
  PROVE  \A r \in Requests : Executed(r)' <=> Executed(r)
BY SMTT(60) DEF Executed, Owns, Elems, Took

\* The steps of Enqueue that the caller does not see.
LEMMA CallsStutter ==
  ASSUME OpenInv, NEW r \in Requests,
         Retry(r) \/ Lookup(r) \/ JoinTaken(r) \/ Join(r) \/ Spawn(r)
  PROVE  UNCHANGED Service!vars
<1>1. /\ pc \in [Requests -> CallPc] /\ xpc \in [Executors -> ExecPc] /\ ~closed
      /\ pc[r] = "spawn" => xpc[r] = "none"
  BY ZenonT(60) DEF OpenInv, IInv, TypeOK, OpenCalls, CallInv
<1>2. got' = got /\ batch' = batch
  BY <1>1, Zenon DEF Retry, Enter, Lookup, JoinTaken, Join, Spawn, execVars
<1>3. \A s \in Requests : pc'[s] = "idle" <=> pc[s] = "idle"
  BY <1>1, ZenonT(60) DEF Retry, Enter, Lookup, JoinTaken, Join, Spawn
<1>4. \A e \in Executors : xpc'[e] \in {"send", "callback", "done"} <=> xpc[e] \in {"send", "callback", "done"}
  BY <1>1, ZenonT(60) DEF Retry, Enter, Lookup, JoinTaken, Join, Spawn, execVars
<1>5. \A s \in Requests : Executed(s)' <=> Executed(s)
  BY <1>2, <1>4, ExecutedKept, Zenon
<1> QED
  BY <1>2, <1>3, <1>5, ServiceStutters, Zenon

\* The steps of executeBatch other than its work on the database.
LEMMA ExecutorStutters ==
  ASSUME OpenInv,
         \/ \E g \in Groups : TimerFires(g)
         \/ \E e \in Executors : CheckClosed(e) \/ Take(e) \/ Unmap(e) \/ Send(e) \/ Callback(e)
  PROVE  UNCHANGED Service!vars
<1>1. /\ xpc \in [Executors -> ExecPc] /\ ~closed /\ DOMAIN batch = Executors
      /\ \A g \in Groups : timer[g] = "armed" => xpc[g] = "none"
  BY ZenonT(60) DEF OpenInv, IInv, TypeOK, OpenCalls, TimerInv, Executors
<1>2. got' = got /\ pc' = pc
  BY Zenon DEF TimerFires, CheckClosed, Take, Unmap, Send, Callback, callVars
<1>3. \A s \in Requests : Executed(s)' <=> Executed(s)
  <2>1. ASSUME NEW g \in Groups, TimerFires(g)
        PROVE  \A s \in Requests : Executed(s)' <=> Executed(s)
    <3>1. batch' = batch /\ xpc[g] = "none" /\ xpc' = [xpc EXCEPT ![g] = "check"]
      BY <1>1, <2>1, Zenon DEF TimerFires
    <3> QED
      BY <1>1, <3>1, ExecutedKept, ZenonT(60)
  <2>2. ASSUME NEW e \in Executors, CheckClosed(e)
        PROVE  \A s \in Requests : Executed(s)' <=> Executed(s)
    <3>1. batch' = batch /\ xpc[e] = "check" /\ xpc' = [xpc EXCEPT ![e] = "take"]
      BY <1>1, <2>2, Zenon DEF CheckClosed, Goto
    <3> QED
      BY <1>1, <3>1, ExecutedKept, ZenonT(60)
  <2>3. ASSUME NEW e \in Executors, Take(e)
        PROVE  \A s \in Requests : Executed(s)' <=> Executed(s)
    <3>1. /\ batch' = [batch EXCEPT ![e] = reqs[GroupOf(e)]] /\ xpc[e] = "take"
          /\ xpc' = [xpc EXCEPT ![e] = "unmap"]
      BY <2>3, Zenon DEF Take, Goto
    <3> QED
      BY <1>1, <3>1, ExecutedKept, Zenon
  <2>4. ASSUME NEW e \in Executors, Unmap(e)
        PROVE  \A s \in Requests : Executed(s)' <=> Executed(s)
    <3>1. /\ batch' = batch /\ xpc[e] = "unmap"
          /\ xpc' = [xpc EXCEPT ![e] = IF batch[e] = <<>> THEN "done" ELSE "run"]
      BY <2>4, Zenon DEF Unmap, Goto
    <3> QED
      BY <1>1, <3>1, ExecutedKept, Zenon
  <2>5. ASSUME NEW e \in Executors, Send(e) \/ Callback(e)
        PROVE  \A s \in Requests : Executed(s)' <=> Executed(s)
    <3>1. batch' = batch /\ xpc[e] \in {"send", "callback"}
      BY <2>5, Zenon DEF Send, Callback
    <3>2. xpc'[e] \in {"send", "callback", "done"} /\ \A f \in Executors : f # e => xpc'[f] = xpc[f]
      BY <1>1, <2>5, ZenonT(60) DEF Send, Callback, Advance, Goto
    <3> QED
      BY <3>1, <3>2, ExecutedKept, ZenonT(60)
  <2> QED
    BY <2>1, <2>2, <2>3, <2>4, <2>5, ZenonT(60)
<1> QED
  BY <1>2, <1>3, ServiceStutters, Zenon

\* A call that has not appended its request was not executed.
LEMMA NotExecuted ==
  ASSUME IInv, NEW r \in Requests, pc[r] \notin Joined
  PROVE  ~Executed(r)
BY ZenonT(60) DEF IInv, BatchInv, Executed, Owns, Elems

\* A call enters Enqueue.
LEMMA EnqueueSubmits ==
  ASSUME OpenInv, NEW r \in Requests, Enqueue(r)
  PROVE  Service!Submit(r)
<1>1. /\ pc \in [Requests -> CallPc] /\ ~closed /\ pc[r] = "idle" /\ got[r] = "none"
  BY ZenonT(60) DEF OpenInv, IInv, TypeOK, OpenCalls, Enqueue
<1>2. /\ got' = got /\ xpc' = xpc /\ batch' = batch
      /\ pc' = [pc EXCEPT ![r] = IF r \in Immediate THEN "immediate" ELSE "lookup"]
  BY <1>1, Zenon DEF Enqueue, Enter, execVars
<1>3. pc'[r] # "idle" /\ \A s \in Requests : s # r => pc'[s] = pc[s]
  BY <1>1, <1>2, Zenon
<1>4. \A s \in Requests : Performed(s)' <=> Performed(s)
  BY <1>2, Zenon DEF Performed, Executed, Owns, Answer
<1>5. ~Performed(r)
  BY <1>1, NotExecuted, Zenon DEF OpenInv, Performed, Joined, Answer
<1>6. OpOf(r) = "new" /\ OpOf(r)' = "queued" /\ \A s \in Requests : s # r => OpOf(s)' = OpOf(s)
  BY <1>1, <1>3, <1>4, <1>5, Zenon DEF OpOf
<1>7. \A s \in Requests : ReplyOf(s)' = ReplyOf(s)
  BY <1>2, Zenon DEF ReplyOf
<1> QED
  BY <1>6, <1>7, Zenon DEF Service!Submit

\* A write with batchMs = 0 is executed by its own call.
LEMMA ImmediatePerforms ==
  ASSUME OpenInv, NEW r \in Requests, ExecuteImmediate(r)
  PROVE  Service!PerformNow(r)
<1>1. /\ pc \in [Requests -> CallPc] /\ got \in [Requests -> Results \cup {"none"}]
      /\ pc[r] = "immediate" /\ got[r] = "none" /\ r \in Immediate
  BY ZenonT(60) DEF OpenInv, IInv, TypeOK, OpenCalls, ExecuteImmediate
<1>2. PICK res \in Answer : Return(r, res)
  BY Zenon DEF ExecuteImmediate
<1>3. /\ xpc' = xpc /\ batch' = batch
      /\ pc' = [pc EXCEPT ![r] = "done"] /\ got' = [got EXCEPT ![r] = res]
  BY <1>2, Zenon DEF ExecuteImmediate, Return, execVars
<1>4. /\ pc'[r] = "done" /\ got'[r] = res
      /\ \A s \in Requests : s # r => pc'[s] = pc[s] /\ got'[s] = got[s]
  BY <1>1, <1>3, Zenon
<1>5. /\ OpOf(r) = "queued" /\ ReplyOf(r) = "none"
  BY <1>1, ZenonT(60) DEF OpOf, ReplyOf, Performed, Answer
<1>6. OpOf(r)' = "performed" /\ ReplyOf(r)' = "answered"
  BY <1>1, <1>2, <1>4, ZenonT(60) DEF OpOf, ReplyOf, Performed, Answer
<1>7. \A s \in Requests : Executed(s)' <=> Executed(s)
  BY <1>3, ZenonT(60) DEF Executed, Owns
<1>8. \A s \in Requests : s # r => OpOf(s)' = OpOf(s) /\ ReplyOf(s)' = ReplyOf(s)
  BY <1>4, <1>7, ZenonT(60) DEF OpOf, ReplyOf, Performed, Answer
<1> QED
  BY <1>5, <1>6, <1>8, Zenon DEF Service!PerformNow

\* A call returns with the result it received.
LEMMA ReceiveReplies ==
  ASSUME OpenInv, NEW r \in Requests, Receive(r)
  PROVE  Service!Reply(r)
<1>1. /\ pc \in [Requests -> CallPc] /\ got \in [Requests -> Results \cup {"none"}]
      /\ pc[r] = "waiting" /\ got[r] = "none" /\ r \notin Immediate /\ chan[r] # <<>>
      /\ results \in [Executors -> Seq(Answer)]
  BY ZenonT(60) DEF OpenInv, IInv, TypeOK, OpenCalls, Receive
<1>2. /\ xpc' = xpc /\ batch' = batch
      /\ pc' = [pc EXCEPT ![r] = "done"] /\ got' = [got EXCEPT ![r] = Head(chan[r])]
  BY Zenon DEF Receive, Return, execVars
<1>3. /\ pc'[r] = "done" /\ got'[r] = Head(chan[r])
      /\ \A s \in Requests : s # r => pc'[s] = pc[s] /\ got'[s] = got[s]
  BY <1>1, <1>2, Zenon
<1>4. AnsweredWith(r, Head(chan[r]))
  BY <1>1, Zenon DEF OpenInv, AnswersInv
<1>5. Head(chan[r]) \in Answer /\ Executed(r)
  <2>1. PICK e \in Executors : /\ xpc[e] \in {"send", "callback", "done"}
                               /\ \E i \in DOMAIN batch[e] : i \in DOMAIN results[e] /\ batch[e][i] = r
                                                             /\ results[e][i] = Head(chan[r])
    BY <1>4, Zenon DEF AnsweredWith
  <2>2. results[e] \in Seq(Answer)
    BY <1>1, Zenon
  <2>3. Head(chan[r]) \in Answer
    BY <2>1, <2>2, SMTT(60)
  <2> QED
    BY <2>1, <2>3, ZenonT(60) DEF Executed, Owns, Elems, Took
<1>6. \A s \in Requests : Executed(s)' <=> Executed(s)
  BY <1>2, Zenon DEF Executed, Owns
<1>7. OpOf(r) = "performed" /\ ReplyOf(r) = "none"
  BY <1>1, <1>5, Zenon DEF OpOf, ReplyOf, Performed
<1>8. OpOf(r)' = "performed" /\ ReplyOf(r)' = "answered"
  BY <1>1, <1>3, <1>5, <1>6, ZenonT(60) DEF OpOf, ReplyOf, Performed, Answer
<1>9. \A s \in Requests : s # r => OpOf(s)' = OpOf(s) /\ ReplyOf(s)' = ReplyOf(s)
  BY <1>3, <1>6, ZenonT(60) DEF OpOf, ReplyOf, Performed, Answer
<1> QED
  BY <1>7, <1>8, <1>9, Zenon DEF Service!Reply

\* A call returns because its context was cancelled.
LEMMA CancelGivesUp ==
  ASSUME OpenInv, NEW r \in Requests, Cancel(r)
  PROVE  Service!GiveUp(r)
<1>1. /\ pc \in [Requests -> CallPc] /\ got \in [Requests -> Results \cup {"none"}]
      /\ pc[r] = "waiting" /\ got[r] = "none" /\ r \notin Immediate
  BY ZenonT(60) DEF OpenInv, IInv, TypeOK, OpenCalls, Cancel
<1>2. /\ xpc' = xpc /\ batch' = batch
      /\ pc' = [pc EXCEPT ![r] = "done"] /\ got' = [got EXCEPT ![r] = "cancelled"]
  BY Zenon DEF Cancel, Return, execVars
<1>3. /\ pc'[r] = "done" /\ got'[r] = "cancelled"
      /\ \A s \in Requests : s # r => pc'[s] = pc[s] /\ got'[s] = got[s]
  BY <1>1, <1>2, Zenon
<1>4. \A s \in Requests : Executed(s)' <=> Executed(s)
  BY <1>2, Zenon DEF Executed, Owns
<1>5. OpOf(r) # "new" /\ ReplyOf(r) = "none" /\ OpOf(r)' = OpOf(r) /\ ReplyOf(r)' = "gaveUp"
  BY <1>1, <1>3, <1>4, ZenonT(60) DEF OpOf, ReplyOf, Performed
<1>6. \A s \in Requests : s # r => OpOf(s)' = OpOf(s) /\ ReplyOf(s)' = ReplyOf(s)
  BY <1>3, <1>4, ZenonT(60) DEF OpOf, ReplyOf, Performed, Answer
<1> QED
  BY <1>5, <1>6, Zenon DEF Service!GiveUp

\* A batch is executed: all of its requests were queued, and have one key.
LEMMA RunPerforms ==
  ASSUME OpenInv, NEW e \in Executors, Run(e)
  PROVE  Service!Perform(Elems(batch[e])) /\ Elems(batch[e]) \in SUBSET Requests
<1>1. /\ xpc \in [Executors -> ExecPc] /\ batch \in [Executors -> Seq(Requests)]
      /\ xpc[e] = "run" /\ batch[e] # <<>>
  BY ZenonT(60) DEF OpenInv, IInv, TypeOK, LoopInv, Run
<1>2. /\ xpc' = [xpc EXCEPT ![e] = "send"] /\ batch' = batch /\ pc' = pc /\ got' = got
  BY Zenon DEF Run, Goto, callVars
<1>3. xpc'[e] = "send" /\ \A f \in Executors : f # e => xpc'[f] = xpc[f]
  BY <1>1, <1>2, Zenon
<1>4. Elems(batch[e]) \in SUBSET Requests
  BY <1>1 DEF Elems
<1>5. Elems(batch[e]) # {}
  <2>1. 1 \in DOMAIN batch[e]
    BY <1>1
  <2> QED
    BY <2>1, Zenon DEF Elems
<1>6. ASSUME NEW r \in Elems(batch[e])
      PROVE  OpOf(r) = "queued" /\ r \notin Immediate
  <2>1. PICK i \in DOMAIN batch[e] : batch[e][i] = r
    BY <1>6, Zenon DEF Elems
  <2>2. r \in Requests /\ pc[r] \in Joined /\ grp[r] = GroupOf(e)
    BY <1>4, <1>6, <2>1, ZenonT(60) DEF OpenInv, IInv, BatchInv
  <2>3. GroupOf(e) \in Groups
    BY <1>1, GroupOfType, ZenonT(60) DEF OpenInv, IInv
  <2>4. r \notin Immediate
    BY <2>2, <2>3, ConstantsAssumption, ZenonT(60) DEF OpenInv, OpenCalls
  <2>5. ~Executed(r)
    <3>1. SUFFICES ASSUME NEW f \in Executors, xpc[f] \in {"send", "callback", "done"},
                          NEW j \in DOMAIN batch[f], batch[f][j] = r
                   PROVE  FALSE
      BY Zenon DEF Executed, Owns, Elems
    <3>2. BatchesDisjoint
      BY IInvBatchesDisjoint, Zenon DEF OpenInv
    <3>3. f = e
      BY <1>1, <2>1, <3>1, <3>2, SMTT(60) DEF BatchesDisjoint, Took
    <3> QED
      BY <1>1, <3>1, <3>3, Zenon
  <2> QED
    BY <2>2, <2>4, <2>5, Zenon DEF OpOf, Performed, Joined
<1>7. \A r, s \in Elems(batch[e]) : KeyOf[r] = KeyOf[s]
  BY IInvOneKeyPerBatch, SMTT(60) DEF OpenInv, OneKeyPerBatch, Elems
<1>8. \A r \in Requests : Executed(r)' <=> Executed(r) \/ r \in Elems(batch[e])
  BY <1>1, <1>2, <1>3, SMTT(60) DEF Executed, Owns, Elems, Took
<1>9. \A r \in Elems(batch[e]) : OpOf(r)' = "performed"
  <2> SUFFICES ASSUME NEW r \in Elems(batch[e]) PROVE OpOf(r)' = "performed"
    BY Zenon
  <2>1. r \in Requests /\ r \notin Immediate /\ pc'[r] # "idle" /\ Executed(r)'
    BY <1>2, <1>4, <1>6, <1>8, Zenon DEF OpOf
  <2> QED
    BY <2>1, Zenon DEF OpOf, Performed
<1>10. \A r \in Requests : r \notin Elems(batch[e]) => OpOf(r)' = OpOf(r)
  BY <1>2, <1>8, Zenon DEF OpOf, Performed, Answer
<1>11. \A r \in Requests : ReplyOf(r)' = ReplyOf(r)
  BY <1>2, Zenon DEF ReplyOf
<1> QED
  BY <1>4, <1>5, <1>6, <1>7, <1>9, <1>10, <1>11, SMTT(60) DEF Service!Perform

\* Every step of the open manager is a step of the service, or none.
LEMMA StepsImplement == OpenInv /\ [OpenNext]_vars => [Service!Next]_(Service!vars)
<1> SUFFICES ASSUME OpenInv, [OpenNext]_vars PROVE Service!Next \/ UNCHANGED Service!vars
  BY Zenon
<1>1. ASSUME NEW r \in Requests, Enqueue(r) \/ ExecuteImmediate(r) \/ Receive(r) \/ Cancel(r)
      PROVE  Service!Next
  BY <1>1, EnqueueSubmits, ImmediatePerforms, ReceiveReplies, CancelGivesUp, SMTT(60) DEF Service!Next
<1>2. ASSUME NEW e \in Executors, Run(e)
      PROVE  Service!Next
  BY <1>2, RunPerforms, Zenon DEF Service!Next
<1>3. ASSUME NEW r \in Requests, Retry(r) \/ Lookup(r) \/ JoinTaken(r) \/ Join(r) \/ Spawn(r)
      PROVE  UNCHANGED Service!vars
  BY <1>3, CallsStutter, Zenon
<1>4. ASSUME NEW e \in Executors, ReadClosed(e) \/ Refuse(e)
      PROVE  FALSE
  BY <1>4, Zenon DEF OpenInv, OpenCalls, ReadClosed, Refuse
<1>5. CASE UNCHANGED vars
  <2>1. pc' = pc /\ got' = got /\ xpc' = xpc /\ batch' = batch
    BY <1>5, Zenon DEF vars, callVars, execVars
  <2> QED
    BY <2>1, ServiceStutters, Zenon DEF Executed, Owns
<1> QED
  BY <1>1, <1>2, <1>3, <1>4, <1>5, ExecutorStutters, ZenonT(60) DEF OpenNext, CallStep, ExecStep

\* Until Close is called, the manager implements the service of WriteService:
\* a write is executed once, with writes of its own batch key only, and Enqueue
\* reports a result only for a write that executeBatch or executeImmediate
\* has executed.
THEOREM ImplementsTheService == OpenSpec => ImplementsService
<1>1. Init => Service!Init
  <2> SUFFICES ASSUME Init PROVE Service!Init
    OBVIOUS
  <2>1. \A r \in Requests : OpOf(r) = "new" /\ ReplyOf(r) = "none"
    BY Zenon DEF Init, OpOf, ReplyOf
  <2> QED
    BY <2>1, Zenon DEF Service!Init
<1> QED
  BY <1>1, OpenInvariance, StepsImplement, PTL DEF OpenSpec, ImplementsService, Service!Spec
=============================================================================
