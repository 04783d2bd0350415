--------------------------- MODULE MariaDBProofs ----------------------------
(***************************************************************************)
(* Proofs about MariaDB clients: for any number of sessions, writes and    *)
(* batches, an executor waits only for sessions that wait for a later      *)
(* batch (BatchSession), so that c.mu and the executors never wait in a    *)
(* circle; and for any number of statements, results and rows and any      *)
(* modulus of the packet numbers, the proxy, the server and the client     *)
(* agree on where a response ends (MariaDBWire).                           *)
(***************************************************************************)
EXTENDS MariaDBWire, BatchSession, WellFoundedInduction, TLAPS

-----------------------------------------------------------------------------
(* BatchSession *)

\* Before any write there is no batch.
LEMMA InitIInv == Init => IInv
BY WritesAssumption, SMTT(60)
   DEF Batches, Init, IInv, TypeOK, ExecutorsInv, WaitsForLaterBatch, NoRepeats, Unsent, Pending, Size, At

\* A step that leaves the executors alone keeps what is said of them.
LEMMA ExecutorsUnchanged ==
  ASSUME IInv, UNCHANGED execVars, TypeOK'
  PROVE  IInv'
<1> USE DEF execVars
<1>1. \A b \in Batches : Size(b)' = Size(b) /\ At(b)' = At(b) /\ Unsent(b)' = Unsent(b)
  BY DEF Size, At, Unsent, Pending
<1>2. ExecutorsInv'
  BY <1>1 DEF IInv, ExecutorsInv
<1>3. WaitsForLaterBatch'
  BY <1>1 DEF IInv, WaitsForLaterBatch
<1> QED
  BY <1>2, <1>3 DEF IInv

\* Enqueue preserves the invariant.
LEMMA EnqueueStep ==
  ASSUME IInv, NEW s \in Sessions, Enqueue(s)
  PROVE  IInv'
<1>1. TypeOK'
  BY DEF IInv, TypeOK, Enqueue, execVars
<1> QED
  BY <1>1, ExecutorsUnchanged DEF Enqueue

\* Reply preserves the invariant.
LEMMA ReplyStep ==
  ASSUME IInv, NEW s \in Sessions, Reply(s)
  PROVE  IInv'
<1> USE DEF IInv, TypeOK, Reply, execVars
<1>1. Head(chan[s]) \in Nat
  OBVIOUS
<1>2. TypeOK'
  BY <1>1
<1> QED
  BY <1>2, ExecutorsUnchanged, SMTT(60)

\* Taking a batch preserves the invariant: the new requests were in nobody's
\* hands, and the executors that may wait for their sessions took theirs before.
LEMMA TakeBatchStep ==
  ASSUME IInv, NEW b \in Batches, TakeBatch(b)
  PROVE  IInv'
<1>0. PICK n \in 1..Cardinality(Waiting) : \E order \in [1..n -> Waiting] :
        NoRepeats(order) /\ batch' = [batch EXCEPT ![b] = order]
  BY Zenon DEF TakeBatch
<1>1. PICK order \in [1..n -> Waiting] :
        NoRepeats(order) /\ batch' = [batch EXCEPT ![b] = order]
  BY <1>0, Zenon
<1>2. n \in Nat /\ order \in Seq(Sessions) /\ Len(order) = n /\ n > 0
  BY <1>0, <1>1 DEF Waiting
<1>3. TypeOK'
  BY <1>1, <1>2, SMTT(60) DEF IInv, TypeOK, TakeBatch, sessVars
<1>4. \A c \in Batches : c # b => Unsent(c)' = Unsent(c)
  BY <1>1 DEF IInv, TypeOK, TakeBatch, Unsent, Pending, Size
<1>5. Unsent(b)' \subseteq Waiting
  BY <1>1, <1>2, <1>3 DEF IInv, TypeOK, TakeBatch, Unsent, Pending, Size
<1>6. ExecutorsInv'
  <2>1. \A c \in Batches : Waiting \cap Unsent(c) = {}
    BY DEF Waiting
  <2>2. (\A x, y \in Batches : x # y => Unsent(x) \cap Unsent(y) = {})'
    BY <1>4, <1>5, <2>1 DEF IInv, ExecutorsInv
  <2>3. (\A x, y \in Batches : xpc[x] = "none" /\ x < y => xpc[y] = "none")'
    BY WritesAssumption, SMTT(60) DEF Batches, IInv, TypeOK, ExecutorsInv, TakeBatch
  <2>4. (\A x \in Batches : NoRepeats(batch[x]))'
    BY <1>1 DEF IInv, TypeOK, ExecutorsInv
  <2>5. (\A x \in Batches : xpc[x] = "none" => Size(x) = 0 /\ idx[x] = 1)'
    BY <1>1 DEF IInv, TypeOK, ExecutorsInv, TakeBatch, Size
  <2>6. (\A x \in Batches : xpc[x] \in {"send", "callback"} => idx[x] \in 1..Size(x))'
    BY <1>1, <1>2, SMTT(60) DEF IInv, TypeOK, ExecutorsInv, TakeBatch, Size
  <2> QED
    BY <2>2, <2>3, <2>4, <2>5, <2>6 DEF ExecutorsInv
<1>7. WaitsForLaterBatch'
  <2> SUFFICES ASSUME NEW x \in Batches, NEW y \in Batches,
                      xpc'[x] = "callback", At(x)' \in Unsent(y)'
               PROVE  x < y
    BY DEF WaitsForLaterBatch
  <2>1. x # b /\ xpc[x] = "callback" /\ At(x)' = At(x)
    BY <1>1 DEF IInv, TypeOK, TakeBatch, At
  <2>2. CASE y # b
    BY <2>1, <2>2, <1>4 DEF IInv, WaitsForLaterBatch
  <2>3. CASE y = b
    BY WritesAssumption, <2>1, <2>3 DEF Batches, IInv, ExecutorsInv, TypeOK, TakeBatch
  <2> QED
    BY <2>2, <2>3
<1> QED
  BY <1>3, <1>6, <1>7 DEF IInv

\* Sending a result preserves the invariant: the request sent leaves the hands
\* of its executor.
LEMMA SendStep ==
  ASSUME IInv, NEW b \in Batches, Send(b)
  PROVE  IInv'
<1>1. idx[b] \in 1..Size(b) /\ At(b) \in Sessions /\ At(b) \in Unsent(b)
  BY SMTT(60) DEF IInv, TypeOK, ExecutorsInv, Send, Size, At, Unsent, Pending
<1>2. TypeOK'
  <2>1. Size(b) \in Nat /\ idx[b] + 1 \in Nat \ {0}
    BY DEF IInv, TypeOK, Size
  <2>2. chan' \in [Sessions -> Seq(Nat)]
    BY <1>1, <2>1 DEF IInv, TypeOK, Send, Deliver
  <2>3. idx' \in [Batches -> Nat \ {0}] /\ xpc' \in [Batches -> {"none", "send", "callback", "done"}]
    BY <2>1, ZenonT(60) DEF IInv, TypeOK, Send, Advance
  <2> QED
    BY <2>2, <2>3 DEF IInv, TypeOK, Send
<1>3. /\ \A c \in Batches : Size(c)' = Size(c)
      /\ \A c \in Batches : c # b => idx'[c] = idx[c] /\ xpc'[c] = xpc[c] /\ Pending(c)' = Pending(c)
      /\ Pending(b)' = Pending(b) \ {idx[b]}
  <2>1. \A c \in Batches : Size(c)' = Size(c) /\ Size(c) \in Nat
    BY DEF IInv, TypeOK, Send, Size
  <2>2. \A c \in Batches : c # b => idx'[c] = idx[c] /\ xpc'[c] = xpc[c]
    BY DEF IInv, TypeOK, Send, Advance
  <2>3. \/ idx'[b] = idx[b] /\ xpc'[b] = "callback"
        \/ idx'[b] = idx[b] + 1 /\ xpc'[b] = IF idx[b] = Size(b) THEN "done" ELSE "send"
    BY DEF IInv, TypeOK, Send, Advance
  <2> QED
    BY <1>1, <2>1, <2>2, <2>3 DEF Pending, Send
<1>4. \A c \in Batches : Unsent(c)' \subseteq Unsent(c)
  BY <1>3 DEF Unsent, Send
<1>7. At(b) \notin Unsent(b)'
  <2>1. \A i \in Pending(b)' : i \in DOMAIN batch[b] /\ i # idx[b]
    <3>1. \A i \in Pending(b) : i \in DOMAIN batch[b]
      BY DEF IInv, TypeOK, Pending, Size
    <3> QED
      BY <1>3, <3>1
  <2>2. idx[b] \in DOMAIN batch[b]
    BY <1>1 DEF IInv, TypeOK, Size
  <2>3. \A i \in Pending(b)' : batch[b][i] # batch[b][idx[b]]
    BY <2>1, <2>2 DEF IInv, ExecutorsInv, NoRepeats
  <2> QED
    BY <2>3 DEF Unsent, At, Send
<1>5. ExecutorsInv'
  <2>1. (\A x, y \in Batches : x # y => Unsent(x) \cap Unsent(y) = {})'
    BY <1>4 DEF IInv, ExecutorsInv
  <2>2. (\A x \in Batches : NoRepeats(batch[x]))'
    BY DEF IInv, ExecutorsInv, Send
  <2>3. (\A x, y \in Batches : xpc[x] = "none" /\ x < y => xpc[y] = "none")'
    BY ZenonT(60) DEF IInv, TypeOK, ExecutorsInv, Send, Advance
  <2>4. xpc'[b] # "none" /\ (xpc'[b] \in {"send", "callback"} => idx'[b] \in 1..Size(b))
    <3>1. \/ idx'[b] = idx[b] /\ xpc'[b] = "callback"
          \/ idx'[b] = idx[b] + 1 /\ xpc'[b] = IF idx[b] = Size(b) THEN "done" ELSE "send"
      BY DEF IInv, TypeOK, Send, Advance
    <3>2. Size(b) \in Nat
      BY DEF IInv, TypeOK, Size
    <3> QED
      BY <1>1, <3>1, <3>2
  <2>5. (\A x \in Batches : xpc[x] = "none" => Size(x) = 0 /\ idx[x] = 1)'
    BY <1>3, <2>4 DEF IInv, ExecutorsInv
  <2>6. (\A x \in Batches : xpc[x] \in {"send", "callback"} => idx[x] \in 1..Size(x))'
    BY <1>3, <2>4 DEF IInv, ExecutorsInv
  <2> QED
    BY <2>1, <2>2, <2>3, <2>5, <2>6 DEF ExecutorsInv
<1>6. WaitsForLaterBatch'
  <2> SUFFICES ASSUME NEW x \in Batches, NEW y \in Batches,
                      xpc'[x] = "callback", At(x)' \in Unsent(y)'
               PROVE  x < y
    BY DEF WaitsForLaterBatch
  <2>1. CASE x # b
    BY <2>1, <1>3, <1>4 DEF IInv, WaitsForLaterBatch, Send, At
  <2>2. CASE x = b
    <3>1. At(b)' = At(b)
      BY <2>2, SMTT(60) DEF IInv, TypeOK, Send, Advance, At
    <3>2. y = b
      BY <1>1, <1>4, <2>2, <3>1, SMTT(60) DEF IInv, ExecutorsInv
    <3> QED
      BY <1>7, <2>2, <3>1, <3>2
  <2> QED
    BY <2>1, <2>2
<1> QED
  BY <1>2, <1>5, <1>6 DEF IInv

\* A callback preserves the invariant: its executor goes on to the next request.
LEMMA CallbackStep ==
  ASSUME IInv, NEW b \in Batches, Callback(b)
  PROVE  IInv'
<1>1. idx[b] \in 1..Size(b) /\ Size(b) \in Nat /\ idx[b] + 1 \in Nat \ {0} /\ At(b) \in Sessions
  BY SMTT(60) DEF IInv, TypeOK, ExecutorsInv, Callback, Size, At
<1>2. TypeOK'
  <2>1. lastBatchSize' \in [Sessions -> Nat]
    BY <1>1 DEF IInv, TypeOK, Callback
  <2>2. idx' \in [Batches -> Nat \ {0}] /\ xpc' \in [Batches -> {"none", "send", "callback", "done"}]
    BY <1>1, SMTT(60) DEF IInv, TypeOK, Callback, Advance
  <2> QED
    BY <2>1, <2>2, SMTT(60) DEF IInv, TypeOK, Callback
<1>3. /\ idx'[b] = idx[b] + 1
      /\ xpc'[b] = IF idx[b] = Size(b) THEN "done" ELSE "send"
      /\ \A c \in Batches : c # b => idx'[c] = idx[c] /\ xpc'[c] = xpc[c]
      /\ \A c \in Batches : Size(c)' = Size(c)
  BY DEF IInv, TypeOK, Callback, Advance, Size
<1>4. \A c \in Batches : Pending(c)' = Pending(c)
  BY <1>1, <1>3, SMTT(60) DEF Pending, Callback
<1>5. \A c \in Batches : Unsent(c)' = Unsent(c)
  BY <1>4 DEF Unsent, Callback
<1>6. ExecutorsInv'
  <2>1. (\A x \in Batches : NoRepeats(batch[x]))'
    BY DEF IInv, ExecutorsInv, Callback
  <2>2. (\A x, y \in Batches : xpc[x] = "none" /\ x < y => xpc[y] = "none")'
    BY DEF IInv, TypeOK, ExecutorsInv, Callback, Advance
  <2>3. (\A x \in Batches : xpc[x] = "none" => Size(x) = 0 /\ idx[x] = 1)'
    BY <1>3, SMTT(60) DEF IInv, ExecutorsInv
  <2>4. (\A x \in Batches : xpc[x] \in {"send", "callback"} => idx[x] \in 1..Size(x))'
    BY <1>1, <1>3, SMTT(60) DEF IInv, ExecutorsInv
  <2> QED
    BY <1>5, <2>1, <2>2, <2>3, <2>4, SMTT(60) DEF IInv, ExecutorsInv
<1>7. WaitsForLaterBatch'
  BY <1>3, <1>5, SMTT(60) DEF IInv, WaitsForLaterBatch, Callback, At
<1> QED
  BY <1>2, <1>6, <1>7 DEF IInv

\* Sessions and executors, in any interleaving, keep the invariant: each batch
\* is in order and no two executors hold one request.
THEOREM Invariance == Spec => []IInv
<1>1. IInv /\ [Next]_vars => IInv'
  <2> SUFFICES ASSUME IInv, [Next]_vars
               PROVE  IInv'
    OBVIOUS
  <2>1. ASSUME NEW s \in Sessions, Enqueue(s) PROVE IInv'
    BY <2>1, EnqueueStep
  <2>2. ASSUME NEW s \in Sessions, Reply(s) PROVE IInv'
    BY <2>2, ReplyStep
  <2>3. ASSUME NEW b \in Batches, TakeBatch(b) PROVE IInv'
    BY <2>3, TakeBatchStep
  <2>4. ASSUME NEW b \in Batches, Send(b) PROVE IInv'
    BY <2>4, SendStep
  <2>5. ASSUME NEW b \in Batches, Callback(b) PROVE IInv'
    BY <2>5, CallbackStep
  <2>6. CASE UNCHANGED vars
    <3>1. TypeOK'
      BY <2>6 DEF vars, sessVars, execVars, IInv, TypeOK
    <3> QED
      BY <2>6, <3>1, ExecutorsUnchanged DEF vars
  <2> QED
    BY <2>1, <2>2, <2>3, <2>4, <2>5, <2>6 DEF Next
<1> QED
  BY <1>1, InitIInv, PTL DEF Spec

\* The lock c.mu that a session holds during Enqueue, and that OnBatchComplete
\* takes, never makes executors and sessions wait in a circle.
THEOREM NoCircularWait == Spec => []WaitsForLaterBatch
BY Invariance, PTL DEF IInv

-----------------------------------------------------------------------------
(* MariaDBWire *)

(* The proxy stops reading a response at its last packet *)

\* Nothing is being read when a client is accepted.
LEMMA WireInitInv == WireInit => WireInv
BY DEF WireInit, WireInv, FileIsLast, Resting

\* The steps between the responses: a command, an answer of the proxy itself, and
\* a command that goes to the server.
LEMMA BetweenResponses ==
  ASSUME WireInv,
         \/ \E name \in Handled, n \in 1..MaxStatements : Command(name, n)
         \/ NoStatement \/ AuthSwitch \/ FromStore \/ Batched \/ Unreached
         \/ \E kind \in {"select", "other", "own"} : SendToServer(kind)
         \/ \E n \in 0..1 : Upload(n)
  PROVE  WireInv'
<1>1. CASE \E name \in Handled, n \in 1..MaxStatements : Command(name, n)
  BY <1>1, SMTT(60) DEF Command, WireInv, FileIsLast, readVars
<1>2. CASE FromStore \/ Batched \/ Unreached
  <2>1. at = "statement" /\ at' \in {"run", "statement"} /\ UNCHANGED readVars
    BY <1>2, SMTT(60) DEF FromStore, Batched, Unreached, Respond, NextStatement, Fail, MoreResults
  <2> QED
    BY <2>1 DEF WireInv, FileIsLast, readVars
<1>3. CASE \E kind \in {"select", "other", "own"} : SendToServer(kind)
  BY <1>3, SMTT(60) DEF SendToServer, WireInv, FileIsLast, Counted, Answering
<1>4. CASE \E n \in 0..1 : Upload(n)
  BY <1>4, SMTT(60) DEF Upload, WireInv, FileIsLast, Counted, Answering
<1>5. CASE NoStatement \/ AuthSwitch
  <2>1. at \in {"run", "statement"} /\ at' \in {"run", "statement"} /\ UNCHANGED readVars
    BY <1>5, Zenon DEF NoStatement, AuthSwitch
  <2> QED
    BY <2>1 DEF WireInv, FileIsLast, readVars
<1> QED
  BY <1>1, <1>2, <1>3, <1>4, <1>5

\* A packet that the server sends ends its response exactly if it ends what the
\* proxy reads, and moves both to the same place in it.
LEMMA ReadStep ==
  ASSUME WireInv, NEW p \in Packets, Read(p)
  PROVE  WireInv'
<1> DEFINE got == Append(response, p)
           next == Follows(server.at, p)
<1>1. at = "read" /\ Sends(p) /\ Counted /\ FileIsLast /\ server' = ServerAfter(p)
  BY SMTT(60) DEF Read, WireInv
<1>2. server'.at = next
  BY <1>1 DEF ServerAfter, Resting
<1>3. server.at \in {"result", "answer", "columns", "rows"}
  BY <1>1, ZenonT(60) DEF Sends
<1>4. got \in Seq(Packets) /\ got # << >>
  BY <1>1 DEF FileIsLast
<1>5. IF response = << >> THEN got[1] = p ELSE got[1] = response[1] /\ got[1].first # "FB"
  BY <1>1, <1>3 DEF FileIsLast
<1>6. got[1].first = "FB" => p.first = "FB" /\ response = << >>
  BY <1>5
<1>7. p.first = "FB" /\ response = << >> => next = "file"
  BY <1>1, <1>3 DEF FileIsLast, Follows
<1>8. Ends(p) /\ p.first # "FB" => next = "end"
  BY <1>1, <1>3, SMTT(60) DEF Ends, Sends, Packet, Follows, Counted
<1>9. ~Ends(p) =>
        \/ next \in {"result", "columns", "file"} /\ EofCount(p) = 0
        \/ next = "rows" /\ EofCount(p) = 1
  BY <1>1, <1>3, SMTT(60) DEF Ends, Sends, Packet, Packets, Follows, Counted, EofCount
<1>10. CASE ~Ends(p)
  <2>1. response' = got /\ eofCount' = EofCount(p) /\ at' = "read"
    BY <1>1, <1>10, SMTT(60) DEF Read
  <2>2. Counted'
    BY <1>2, <1>9, <1>10, <2>1 DEF Counted
  <2>3. FileIsLast'
    BY <1>2, <1>4, <1>6, <1>7, <2>1, SMTT(60) DEF FileIsLast
  <2> QED
    BY <2>1, <2>2, <2>3 DEF WireInv
<1>11. CASE Ends(p) /\ got[1].first = "FB"
  <2>1. response' = << >> /\ eofCount' = 0 /\ at' = "upload" /\ server'.at = "file"
    BY <1>2, <1>6, <1>7, <1>11, SMTT(60) DEF Read
  <2> QED
    BY <2>1 DEF WireInv, FileIsLast
<1>12. CASE Ends(p) /\ got[1].first # "FB"
  <2>1. p.first # "FB"
    BY <1>5, <1>12 DEF Ends
  <2>2. response' = << >> /\ eofCount' = 0 /\ at' \in {"run", "statement"}
    BY <1>12, SMTT(60) DEF Read, Respond, NextStatement
  <2>3. server'.at = "end"
    BY <1>2, <1>8, <1>12, <2>1
  <2> QED
    BY <2>2, <2>3 DEF WireInv, FileIsLast
<1> QED
  BY <1>10, <1>11, <1>12

\* A lost connection leaves nothing to read.
LEMMA LostStep ==
  ASSUME WireInv, Lost
  PROVE  WireInv'
BY DEF Lost, Fail, Resting, WireInv, FileIsLast

\* WireInv is inductive.
LEMMA WireStep == WireInv /\ [WireNext]_wireVars => WireInv'
<1> SUFFICES ASSUME WireInv, [WireNext]_wireVars PROVE WireInv'
  OBVIOUS
<1>1. CASE UNCHANGED wireVars
  BY <1>1, ZenonT(60) DEF WireInv, FileIsLast, Counted, wireVars, readVars
<1>2. CASE \E p \in Packets : Read(p)
  BY <1>2, ReadStep
<1>3. CASE Lost
  BY <1>3, LostStep
<1> QED
  BY <1>1, <1>2, <1>3, BetweenResponses DEF WireNext

\* For any number of statements, results and rows: execBackendQuery and
\* execBackendResponse return with the last packet of the server's response, so
\* that no command ever reads what is left of the one before it.
THEOREM AlwaysServerInStep == WireSpec => []ServerInStep
<1>1. WireInv => ServerInStep
  BY DEF WireInv, Counted, ServerInStep
<1> QED
  BY <1>1, WireInitInv, WireStep, PTL DEF WireSpec

-----------------------------------------------------------------------------
(* The client finds the end of its command where the proxy does *)

\* A non-empty set of naturals has a least element.
LEMMA LeastElement ==
  ASSUME NEW S \in SUBSET Nat, S # {}
  PROVE  \E k \in S : \A j \in S : k <= j
<1> DEFINE R == {ss \in Nat \X Nat : ss[1] < ss[2]}
<1>1. IsWellFoundedOn(R, Nat)
  BY NatLessThanWellFounded DEF OpToRel
<1> HIDE DEF R
<1>2. PICK k \in S : \A j \in S : ~(<<j, k>> \in R)
  BY <1>1, WFMin, Zenon
<1>3. \A j \in S : ~(j < k)
  <2> TAKE j \in S
  <2>1. j \in Nat /\ k \in Nat
    OBVIOUS
  <2>2. j < k => <<j, k>> \in R
    BY <2>1 DEF R
  <2> QED
    BY <1>2, <2>2
<1> QED
  BY <1>3

\* The next multiple of m is m further.
LEMMA LargerQuotient ==
  ASSUME NEW m \in Nat \ {0}, NEW q \in Nat, NEW k \in Nat, q < k
  PROVE  m * k >= m * q + m
<1>1. PICK d \in Nat : k = q + 1 + d
  <2>1. k - q - 1 \in Nat /\ k = q + 1 + (k - q - 1)
    OBVIOUS
  <2> QED
    BY <2>1
<1>2. m * k = m * q + m + m * d
  BY <1>1
<1>3. m * d \in Nat /\ m * q \in Nat
  OBVIOUS
<1> QED
  BY <1>2, <1>3

\* What is left over a multiple of m is the remainder.
LEMMA Remainder ==
  ASSUME NEW m \in Nat \ {0}, NEW q \in Nat, NEW r \in 0..(m - 1)
  PROVE  (m * q + r) % m = r
<1> DEFINE n == m * q + r
           k == n \div m
<1>0. n \in Nat /\ m * q \in Nat
  OBVIOUS
<1> HIDE DEF n
<1>1. n % m \in 0..(m - 1) /\ k \in Nat /\ n = m * k + (n % m) /\ m * k \in Nat
  BY <1>0
<1> HIDE DEF k
<1>2. n = m * q + r
  BY DEF n
<1>3. ~(q < k)
  BY <1>0, <1>1, <1>2, LargerQuotient
<1>4. ~(k < q)
  BY <1>0, <1>1, <1>2, LargerQuotient
<1>5. k = q
  BY <1>1, <1>3, <1>4
<1> QED
  BY <1>0, <1>1, <1>2, <1>5, SMTT(60) DEF n

\* Numbers count on modulo m.
LEMMA NextNumber ==
  ASSUME NEW m \in Nat \ {0}, NEW n \in Nat
  PROVE  ((n % m) + 1) % m = (n + 1) % m
<1> DEFINE r == n % m
           q == n \div m
<1>1. r \in 0..(m - 1) /\ q \in Nat /\ n = m * q + r
  OBVIOUS
<1> HIDE DEF r, q
<1>2. CASE r + 1 < m
  <2>1. r + 1 \in 0..(m - 1) /\ m * q \in Nat /\ n + 1 = m * q + (r + 1)
    BY <1>1, <1>2
  <2>2. (n + 1) % m = r + 1
    BY <1>1, <2>1, Remainder
  <2>3. (m * 0 + (r + 1)) % m = r + 1
    BY <2>1, Remainder
  <2> QED
    BY <2>1, <2>2, <2>3 DEF r
<1>3. CASE r + 1 = m
  <2>1. m * q \in Nat /\ q + 1 \in Nat /\ 0 \in 0..(m - 1) /\ n + 1 = m * (q + 1) + 0
    BY <1>1, <1>3
  <2>2. (n + 1) % m = 0
    BY <2>1, Remainder, SMTT(60)
  <2>3. (m * 1 + 0) % m = 0 /\ m * 1 + 0 = r + 1
    BY <1>3, <2>1, Remainder
  <2> QED
    BY <2>2, <2>3 DEF r
<1> QED
  BY <1>1, <1>2, <1>3

\* Where the client is after i packets, by the packet before.
LEMMA ReadingStep ==
  ASSUME NEW packets \in Seq(Packets),
         NEW g, g = [i \in 0..Len(packets) |->
                       IF i = 0 THEN peer ELSE Reads(g[i - 1], Numbered(packets)[i])]
  PROVE  Reading(packets) = [i \in 0..Len(packets) |->
            IF i = 0 THEN peer ELSE Reads(Reading(packets)[i - 1], Numbered(packets)[i])]
BY SMTT(60) DEF Reading

\* A client that expects a response, and is sent packets that lead to a place, is
\* at that place after the last one.
LEMMA ReadingFacts ==
  ASSUME NEW packets \in Seq(Packets), NEW place, LeadTo(packets, place),
         sequence \in 0..(SeqModulus - 1), peer = [at |-> "result", seq |-> sequence]
  PROVE  Reading(packets)[Len(packets)] =
           [at |-> place, seq |-> (sequence + Len(packets)) % SeqModulus]
<1> DEFINE n == Len(packets)
           F(g) == [i \in 0..n |-> IF i = 0 THEN peer ELSE Reads(g[i - 1], Numbered(packets)[i])]
<1>1. n \in Nat /\ SeqModulus \in Nat \ {0} /\ sequence \in Nat /\ DOMAIN packets = 1..n
  BY WireAssumption
<1>2. PICK places : ReadAlong(places, packets) /\ places[n] = place
  BY DEF LeadTo
<1> DEFINE h == [i \in 0..n |-> [at |-> places[i], seq |-> (sequence + i) % SeqModulus]]
<1> HIDE DEF n
<1>3. h[0] = peer
  <2>1. (SeqModulus * 0 + sequence) % SeqModulus = sequence
    BY <1>1, Remainder
  <2>2. (sequence + 0) % SeqModulus = sequence
    BY <1>1, <2>1
  <2>3. places[0] = "result"
    BY <1>2, SMTT(60) DEF ReadAlong
  <2> QED
    BY <1>1, <2>2, <2>3, SMTT(60)
<1>4. ASSUME NEW i \in 1..n
      PROVE  h[i] = Reads(h[i - 1], Numbered(packets)[i])
  <2>1. i - 1 \in 0..n /\ i \in 0..n /\ sequence + (i - 1) \in Nat /\ (sequence + (i - 1)) + 1 = sequence + i
    BY <1>1
  <2>2. h[i - 1] = [at |-> places[i - 1], seq |-> (sequence + (i - 1)) % SeqModulus]
    BY <2>1
  <2>3. h[i] = [at |-> places[i], seq |-> (sequence + i) % SeqModulus]
    BY <2>1
  <2>4. Numbered(packets)[i] = [packet |-> packets[i], seq |-> (sequence + i) % SeqModulus]
    BY <1>1 DEF Numbered
  <2>5. (((sequence + (i - 1)) % SeqModulus) + 1) % SeqModulus = (sequence + i) % SeqModulus
    BY <1>1, <2>1, NextNumber, Zenon
  <2>6. /\ places[i - 1] \in {"result", "columns", "rows"}
        /\ places[i - 1] = "columns" => packets[i].first = "FE"
        /\ places[i] = Follows(places[i - 1], packets[i])
    BY <1>2, SMTT(60) DEF ReadAlong, n
  <2> HIDE DEF h
  <2> QED
    BY <2>2, <2>3, <2>4, <2>5, <2>6, SMTT(60) DEF Reads
<1>5. h = F(h)
  <2>1. \A i \in 0..n : h[i] = F(h)[i]
    <3> TAKE i \in 0..n
    <3>1. i = 0 \/ i \in 1..n
      BY <1>1
    <3> QED
      BY <1>3, <1>4, <3>1, Zenon
  <2> QED
    BY <2>1, SMTT(60)
<1>6. Reading(packets) = F(Reading(packets))
  BY <1>5, ReadingStep, ZenonT(60) DEF n
<1> HIDE DEF h
<1>7. \A i \in 0..n : Reading(packets)[i] = h[i]
  <2> SUFFICES ASSUME {i \in 0..n : Reading(packets)[i] # h[i]} # {}
               PROVE  FALSE
    BY SMTT(60)
  <2> DEFINE D == {i \in 0..n : Reading(packets)[i] # h[i]}
  <2>1. D \in SUBSET Nat
    BY <1>1, SMTT(60)
  <2>2. PICK i \in D : \A j \in D : i <= j
    <3> HIDE DEF D
    <3> QED
      BY <2>1, LeastElement, ZenonT(60) DEF D
  <2>3. i # 0
    BY <1>1, <1>3, <1>6, SMTT(60)
  <2>4. i \in 1..n /\ i - 1 \in 0..n /\ ~(i <= i - 1)
    BY <1>1, <2>3, SMTT(60)
  <2>5. Reading(packets)[i - 1] = h[i - 1]
    BY <2>2, <2>4, SMTT(60)
  <2>6. Reading(packets)[i] = Reads(Reading(packets)[i - 1], Numbered(packets)[i])
    BY <1>6, <2>3, <2>4, SMTT(60)
  <2> QED
    BY <1>4, <2>2, <2>4, <2>5, <2>6, ZenonT(60)
<1> QED
  BY <1>1, <1>2, <1>7, SMTT(60) DEF h, n

\* Another packet leads further.
LEMMA LeadOn ==
  ASSUME NEW packets \in Seq(Packets), NEW place, LeadTo(packets, place), NEW p \in Packets,
         place \in {"result", "columns", "rows"},
         place = "columns" => p.first = "FE",
         p.first = "FF" => ~p.more
  PROVE  LeadTo(Append(packets, p), Follows(place, p))
<1> DEFINE n == Len(packets)
           all == Append(packets, p)
           Places == {"result", "columns", "rows", "file", "end"}
<1>1. PICK places \in [0..n -> Places] : ReadAlong(places, packets) /\ places[n] = place
  BY DEF LeadTo
<1>2. n \in Nat /\ Len(all) = n + 1 /\ all[n + 1] = p /\ \A i \in 1..n : all[i] = packets[i]
  OBVIOUS
<1> DEFINE next == Follows(place, p)
           f == [i \in 0..Len(all) |-> IF i <= n THEN places[i] ELSE next]
<1>3. next \in Places
  BY DEF Follows
<1> HIDE DEF n, all, next
<1>4. f \in [0..Len(all) -> Places]
  <2>1. \A i \in 0..Len(all) : i <= n => i \in 0..n
    BY <1>2, SMTT(60)
  <2> QED
    BY <1>1, <1>3, <2>1
<1>5. f[Len(all)] = next /\ \A i \in 0..n : f[i] = places[i]
  BY <1>2
<1>6. ReadAlong(f, all)
  <2>1. f[0] = "result"
    BY <1>1, <1>2, <1>5, SMTT(60) DEF ReadAlong
  <2>2. ASSUME NEW i \in 1..Len(all)
        PROVE  /\ f[i - 1] \in {"result", "columns", "rows"}
               /\ f[i - 1] = "columns" => all[i].first = "FE"
               /\ all[i].first = "FF" => ~all[i].more
               /\ f[i] = Follows(f[i - 1], all[i])
    <3>1. CASE i \in 1..n
      <4>1. i - 1 \in 0..n /\ i \in 0..n
        BY <1>2, <3>1
      <4> HIDE DEF f
      <4> QED
        BY <1>1, <1>2, <1>5, <3>1, <4>1, SMTT(60) DEF ReadAlong, n
    <3>2. CASE i = n + 1
      <4>1. f[i] = next /\ f[i - 1] = place /\ all[i] = p
        BY <1>1, <1>2, <1>5, <3>2, SMTT(60)
      <4> QED
        BY <4>1, SMTT(60) DEF next
    <3> QED
      BY <1>2, <3>1, <3>2, SMTT(60)
  <2> QED
    BY <2>1, <2>2, ZenonT(60) DEF ReadAlong
<1> QED
  BY <1>4, <1>5, <1>6, SMTT(60) DEF LeadTo, next, all

\* No packet leads nowhere.
LEMMA LeadFromStart == LeadTo(<< >>, "result")
<1> DEFINE f == [i \in 0..0 |-> "result"]
<1>1. Len(<< >>) = 0 /\ f \in [0..0 -> {"result", "columns", "rows", "file", "end"}] /\ f[0] = "result"
  OBVIOUS
<1> HIDE DEF f
<1>2. ReadAlong(f, << >>)
  <2>1. 1..Len(<< >>) = {}
    OBVIOUS
  <2> QED
    BY <1>1, <2>1 DEF ReadAlong
<1> QED
  BY <1>1, <1>2 DEF LeadTo

\* With the flag in its last packet a response that does not end with an error
\* leads the client to the next result.
LEMMA FlagLeadsOn ==
  ASSUME NEW packets, IsResponse(packets), MoreResults, packets[Len(packets)] # Err
  PROVE  Flagged(packets) \in Seq(Packets) /\ Len(Flagged(packets)) = Len(packets)
         /\ LeadTo(Flagged(packets), "result")
<1> DEFINE n == Len(packets)
           all == Flagged(packets)
           Places == {"result", "columns", "rows", "file", "end"}
<1>1. packets \in Seq(Packets) /\ n \in Nat \ {0} /\ n \in 1..n /\ DOMAIN packets = 1..n
  BY DEF IsResponse
<1>2. PICK places \in [0..n -> Places] : ReadAlong(places, packets) /\ places[n] = "end"
  BY DEF LeadTo, IsResponse
<1>3. /\ places[n - 1] \in {"result", "columns", "rows"}
      /\ packets[n].first = "FF" => ~packets[n].more
      /\ "end" = Follows(places[n - 1], packets[n])
  BY <1>1, <1>2, SMTT(60) DEF ReadAlong
<1>4. packets[n] \in Packets
  BY <1>1
<1>5. packets[n].first \in {"00", "FE"} /\ places[n - 1] # "columns"
  BY <1>3, <1>4, Zenon DEF Follows, Packets, Err, Packet
<1>6. all = [packets EXCEPT ![n].more = TRUE]
  BY <1>5 DEF Flagged
<1>7. /\ all \in Seq(Packets) /\ Len(all) = n
      /\ all[n] = [packets[n] EXCEPT !.more = TRUE]
      /\ \A i \in 1..(n - 1) : all[i] = packets[i]
  <2>1. [packets[n] EXCEPT !.more = TRUE] \in Packets
    BY <1>4, Zenon DEF Packets
  <2> HIDE DEF all
  <2> QED
    BY <1>1, <1>6, <2>1
<1>8. all[n].first = packets[n].first /\ all[n].more
  BY <1>4, <1>7 DEF Packets
<1>9. Follows(places[n - 1], all[n]) = "result"
  BY <1>3, <1>5, <1>8, SMTT(60) DEF Follows
<1> HIDE DEF n, all
<1> DEFINE f == [places EXCEPT ![n] = "result"]
<1>10. f \in [0..n -> Places] /\ f[n] = "result" /\ \A i \in 0..(n - 1) : f[i] = places[i]
  BY <1>1, <1>2
<1> HIDE DEF f
<1>11. ReadAlong(f, all)
  <2>1. f[0] = "result"
    BY <1>1, <1>2, <1>10, SMTT(60) DEF ReadAlong
  <2>2. ASSUME NEW i \in 1..Len(all)
        PROVE  /\ f[i - 1] \in {"result", "columns", "rows"}
               /\ f[i - 1] = "columns" => all[i].first = "FE"
               /\ all[i].first = "FF" => ~all[i].more
               /\ f[i] = Follows(f[i - 1], all[i])
    <3>1. CASE i \in 1..(n - 1)
      <4>1. i - 1 \in 0..(n - 1) /\ i \in 0..(n - 1) /\ i \in 1..n
        BY <1>1, <3>1
      <4> QED
        BY <1>2, <1>7, <1>10, <3>1, <4>1 DEF ReadAlong, n
    <3>2. CASE i = n
      <4>1. f[i - 1] = places[n - 1]
        BY <1>1, <1>10, <3>2
      <4> QED
        BY <1>3, <1>5, <1>8, <1>9, <1>10, <3>2, <4>1, SMTT(60)
    <3> QED
      BY <1>1, <1>7, <3>1, <3>2
  <2> QED
    BY <2>1, <2>2, SMTT(60) DEF ReadAlong
<1> QED
  BY <1>7, <1>10, <1>11 DEF LeadTo, n, all

\* Written packets that lead to a place bring the client there.
LEMMA WriteFacts ==
  ASSUME NEW packets \in Seq(Packets), NEW place, LeadTo(packets, place), WriteTo(packets),
         sequence \in 0..(SeqModulus - 1)
  PROVE  /\ sequence' \in 0..(SeqModulus - 1)
         /\ peer = [at |-> "result", seq |-> sequence] => peer' = [at |-> place, seq |-> sequence']
<1>1. SeqModulus \in Nat \ {0} /\ sequence + Len(packets) \in Nat
  BY WireAssumption
<1>2. \A n \in Nat : n % SeqModulus \in 0..(SeqModulus - 1)
  BY <1>1
<1>3. sequence' = (sequence + Len(packets)) % SeqModulus
      /\ peer' = Reading(packets)[Len(packets)]
  BY DEF WriteTo
<1> QED
  BY <1>1, <1>2, <1>3, ReadingFacts, ZenonT(60)

\* An OK packet, and an error, is a response.
LEMMA OnePacket ==
  ASSUME NEW p \in {Ok, Err}
  PROVE  IsResponse(<<p>>) /\ <<p>>[Len(<<p>>)] = p
<1>1. p \in Packets
  <2>1. Ok \in Packets /\ Err \in Packets
    BY DEF Packets, Ok, Err, Packet
  <2> QED
    BY <2>1
<1>2. << >> \in Seq(Packets) /\ Append(<< >>, p) = <<p>> /\ <<p>> \in Seq(Packets)
  BY <1>1
<1>3. Follows("result", p) = "end" /\ (p.first = "FF" => ~p.more)
  BY DEF Follows, Ok, Err, Packet
<1>4. LeadTo(<<p>>, "end")
  BY <1>1, <1>2, <1>3, LeadFromStart, LeadOn, Zenon
<1> QED
  BY <1>2, <1>4 DEF IsResponse

\* After a response the client expects the response of the next statement, or
\* has the end of its command.
LEMMA RespondFacts ==
  ASSUME ClientInv, at \in {"statement", "read"}, NEW packets, IsResponse(packets), Respond(packets)
  PROVE  /\ left' \in Nat
         /\ at' \in {"run", "statement"}
         /\ at' # "run" => left' > 0
         /\ astray' = "no" => /\ sequence' \in 0..(SeqModulus - 1)
                        /\ peer' = [at |-> ClientPlace, seq |-> sequence]'
<1>1. /\ WriteTo(Flagged(packets))
      /\ astray' = IF MoreResults /\ packets[Len(packets)] = Err THEN "error" ELSE astray
      /\ left' = left - 1
      /\ at' = IF MoreResults THEN "statement" ELSE "run"
  BY DEF Respond, NextStatement
<1>2. /\ left \in Nat /\ left > 0
      /\ astray = "no" => sequence \in 0..(SeqModulus - 1) /\ peer = [at |-> "result", seq |-> sequence]
  BY DEF ClientInv, ClientPlace
<1>3. /\ left' \in Nat /\ at' \in {"run", "statement"}
      /\ at' # "run" => left' > 0
  BY <1>1, <1>2, SMTT(60) DEF MoreResults
<1>4. ClientPlace' = IF MoreResults THEN "result" ELSE "end"
  BY <1>1 DEF ClientPlace
<1>5. packets \in Seq(Packets) /\ LeadTo(packets, "end")
  BY DEF IsResponse
<1>6. CASE ~MoreResults
  <2>1. Flagged(packets) = packets
    BY <1>6 DEF Flagged
  <2>2. astray' = "no" => sequence' \in 0..(SeqModulus - 1) /\ peer' = [at |-> "end", seq |-> sequence']
    BY <1>1, <1>2, <1>5, <2>1, WriteFacts, SMTT(60)
  <2> QED
    BY <1>1, <1>2, <1>3, <1>4, <1>6, <2>2, SMTT(60)
<1>7. CASE MoreResults /\ packets[Len(packets)] # Err
  <2>1. astray' = "no" => sequence' \in 0..(SeqModulus - 1) /\ peer' = [at |-> "result", seq |-> sequence']
    BY <1>1, <1>2, <1>7, FlagLeadsOn, WriteFacts, SMTT(60)
  <2> QED
    BY <1>1, <1>2, <1>3, <1>4, <1>7, <2>1, SMTT(60)
<1>8. CASE MoreResults /\ packets[Len(packets)] = Err
  BY <1>1, <1>3, <1>8, Zenon
<1> QED
  BY <1>6, <1>7, <1>8, SMTT(60)

\* An error of the handler ends the client's command.
LEMMA FailFacts ==
  ASSUME ClientInv, at # "run", Fail, astray' = IF at = "upload" THEN "upload" ELSE astray
  PROVE  /\ left' \in Nat
         /\ at' = "run"
         /\ astray' = "no" => /\ sequence' \in 0..(SeqModulus - 1)
                        /\ peer' = [at |-> ClientPlace, seq |-> sequence]'
<1>1. WriteTo(<<Err>>) /\ left' = 0 /\ at' = "run"
  BY DEF Fail
<1>2.
      /\ astray' = "no" => sequence \in 0..(SeqModulus - 1) /\ peer = [at |-> "result", seq |-> sequence]
  BY Zenon DEF ClientInv, ClientPlace, WireInv
<1>3. <<Err>> \in Seq(Packets) /\ LeadTo(<<Err>>, "end")
  BY OnePacket DEF IsResponse
<1>4. astray' = "no" => sequence' \in 0..(SeqModulus - 1) /\ peer' = [at |-> "end", seq |-> sequence']
  BY <1>1, <1>2, <1>3, WriteFacts, Zenon
<1> QED
  BY <1>1, <1>2, <1>4 DEF ClientPlace

\* Nothing is written when a client is accepted.
LEMMA ClientInit == WireInit => ClientInv
<1> SUFFICES ASSUME WireInit PROVE ClientInv
  OBVIOUS
<1>1. WireInv
  BY WireInitInv
<1>2. 0 \in 0..(SeqModulus - 1)
  BY WireAssumption
<1> QED
  BY <1>1, <1>2, Zenon DEF WireInit, ClientInv, ClientPlace

\* The steps between the responses.
LEMMA ClientBetween ==
  ASSUME ClientInv, WireInv',
         \/ \E name \in Handled, n \in 1..MaxStatements : Command(name, n)
         \/ NoStatement \/ AuthSwitch \/ FromStore \/ Batched \/ Unreached \/ Lost
         \/ \E kind \in {"select", "other", "own"} : SendToServer(kind)
         \/ \E n \in 0..1 : Upload(n)
  PROVE  ClientInv'
<1>1. ASSUME NEW name \in Handled, NEW n \in 1..MaxStatements, Command(name, n)
      PROVE  ClientInv'
  <2>1. 0 \in 0..(SeqModulus - 1) /\ n \in Nat /\ n > 0
    BY WireAssumption
  <2>2. /\ cmd' = name /\ left' = n /\ at' = "statement" /\ sequence' = 0
        /\ peer' = [at |-> "result", seq |-> 0]
        /\ stored' = stored /\ astray' = astray
    BY <1>1, SMTT(60) DEF Command
  <2> QED
    BY <2>1, <2>2 DEF ClientInv, ClientPlace
<1>2. CASE FromStore
  <2>1. IsResponse(stored.packets)
    BY <1>2, SMTT(60) DEF FromStore, ClientInv, Nothing, Handled
  <2>2. at = "statement" /\ Respond(stored.packets) /\ cmd' = cmd /\ stored' = stored
    BY <1>2 DEF FromStore
  <2>3. cmd \in Handled /\ (stored = Nothing \/ IsResponse(stored.packets))
    BY <2>2, SMTT(60) DEF ClientInv
  <2> HIDE DEF IsResponse
  <2> QED
    BY <2>1, <2>2, <2>3, RespondFacts, SMTT(60) DEF ClientInv
<1>3. CASE Batched
  <2>1. PICK p \in {Ok, Err} : Respond(<<p>>)
    BY <1>3 DEF Batched
  <2>2. at = "statement" /\ cmd' = cmd /\ stored' = stored
    BY <1>3 DEF Batched
  <2>3. cmd \in Handled /\ (stored = Nothing \/ IsResponse(stored.packets))
    BY <2>2, SMTT(60) DEF ClientInv
  <2> QED
    BY <2>1, <2>2, <2>3, OnePacket, RespondFacts, Zenon DEF ClientInv
<1>4. CASE Unreached \/ Lost
  <2>1. at # "run" /\ Fail /\ cmd' = cmd /\ stored' = stored /\ astray' = IF at = "upload" THEN "upload" ELSE astray
    BY <1>4, SMTT(60) DEF Unreached, Lost, ClientInv
  <2>2. stored = Nothing \/ IsResponse(stored.packets)
    BY SMTT(60) DEF ClientInv
  <2> QED
    BY <2>1, <2>2, FailFacts, SMTT(60) DEF ClientInv
<1>5. ASSUME NEW kind \in {"select", "other", "own"}, SendToServer(kind)
      PROVE  ClientInv'
  <2>1. /\ at = "statement" /\ at' = "read" /\ server'.at \in {"answer", "result"}
        /\ response' = response
        /\ UNCHANGED <<cmd, left, stored, sequence, peer, astray>>
    BY <1>5, SMTT(60) DEF SendToServer, Answering
  <2>2. response = << >>
    BY <2>1, SMTT(60) DEF ClientInv, WireInv
  <2> QED
    BY <2>1, <2>2, LeadFromStart DEF ClientInv, ClientPlace
<1>6. ASSUME NEW n \in 0..1, Upload(n)
      PROVE  ClientInv'
  <2>1. /\ at = "upload" /\ at' = "read" /\ server'.at = "answer" /\ response' = response
        /\ sequence' = (peer.seq + n + 1) % SeqModulus
        /\ peer' = [at |-> "result", seq |-> sequence']
        /\ UNCHANGED <<cmd, left, stored, astray>>
    BY <1>6, SMTT(60) DEF Upload, Answering
  <2>2. response = << >>
    BY <2>1, SMTT(60) DEF ClientInv, WireInv
  <2>3. astray' = "no" => sequence' \in 0..(SeqModulus - 1)
    <3> SUFFICES ASSUME astray = "no" PROVE sequence' \in 0..(SeqModulus - 1)
      BY <2>1, SMTT(60)
    <3>1. peer.seq + n + 1 \in Nat
      BY WireAssumption, SMTT(60) DEF ClientInv
    <3>2. \A k \in Nat : k % SeqModulus \in 0..(SeqModulus - 1)
      BY WireAssumption
    <3> QED
      BY <2>1, <3>1, <3>2, SMTT(60)
  <2> QED
    BY <2>1, <2>2, <2>3, LeadFromStart DEF ClientInv, ClientPlace
<1>7. CASE NoStatement
  BY <1>7, ZenonT(60) DEF NoStatement, ClientInv
<1>8. CASE AuthSwitch
  <2>1. /\ at = "statement" /\ cmd' = cmd /\ stored' = stored
        /\ \/ /\ peer = [at |-> "result", seq |-> sequence] /\ sequence' = (sequence + 2) % SeqModulus
              /\ peer' = [at |-> "result", seq |-> sequence']
              /\ left' = left /\ at' = at /\ astray' = astray
           \/ left' = 0 /\ at' = "run" /\ astray' = "auth switch"
    BY <1>8 DEF AuthSwitch
  <2>2. CASE at' = "run"
    <3>1. left' = 0 /\ astray' = "auth switch"
      BY <2>1, <2>2
    <3>2. stored = Nothing \/ IsResponse(stored.packets)
      BY SMTT(60) DEF ClientInv
    <3> QED
      BY <2>1, <2>2, <3>1, <3>2, Zenon DEF ClientInv
  <2>3. CASE at' = at
    <3>1. \A k \in Nat : k % SeqModulus \in 0..(SeqModulus - 1)
      BY WireAssumption
    <3>2. astray = "no" => sequence + 2 \in Nat
      BY DEF ClientInv
    <3>3. astray' = "no" => sequence' \in 0..(SeqModulus - 1)
      BY <2>1, <2>3, <3>1, <3>2, SMTT(60)
    <3> QED
      BY <2>1, <2>3, <3>3 DEF ClientInv, ClientPlace
  <2> QED
    BY <2>1, <2>2, <2>3, ZenonT(60)
<1> QED
  BY <1>1, <1>2, <1>3, <1>4, <1>5, <1>6, <1>7, <1>8, SMTT(60)

\* A packet of the server leads the client as far as it leads the server.
LEMMA ClientRead ==
  ASSUME ClientInv, WireInv', NEW p \in Packets, Read(p)
  PROVE  ClientInv'
<1> DEFINE got == Append(response, p)
           here == IF server.at = "answer" THEN "result" ELSE server.at
           next == Follows(server.at, p)
<1>1. /\ at = "read" /\ Sends(p) /\ cmd' = cmd /\ cmd \in Handled /\ server' = ServerAfter(p)
      /\ response \in Seq(Packets) /\ LeadTo(response, here)
      /\ stored = Nothing \/ IsResponse(stored.packets)
  BY ZenonT(60) DEF Read, ClientInv, WireInv, FileIsLast
<1>2. server'.at = next
  BY <1>1, SMTT(60) DEF ServerAfter, Resting
<1>3. /\ here \in {"result", "columns", "rows"}
      /\ here = "columns" => p.first = "FE"
      /\ p.first = "FF" => ~p.more
      /\ Follows(here, p) = next /\ next # "answer"
  BY <1>1, SMTT(60) DEF Sends, Packet, Follows
<1>4. got \in Seq(Packets) /\ got # << >> /\ LeadTo(got, next)
  BY <1>1, <1>3, LeadOn, SMTT(60)
<1> HIDE DEF next, here
<1>5. CASE ~Ends(p)
  <2>1. /\ response' = got /\ at' = "read"
        /\ UNCHANGED <<left, stored, sequence, peer, astray>>
    BY <1>1, <1>5, Zenon DEF Read
  <2> QED
    BY <1>1, <1>2, <1>3, <1>4, <2>1, SMTT(60) DEF ClientInv, ClientPlace
<1>6. CASE Ends(p) /\ got[1].first = "FB"
  <2>1. /\ WriteTo(Flagged(got)) /\ at' = "upload" /\ UNCHANGED <<left, stored, astray>>
    BY <1>1, <1>6, Zenon DEF Read
  <2>2. next = "file"
    BY <1>2, <2>1, SMTT(60) DEF WireInv
  <2>3. response # << >> => got[1] = response[1] /\ server.at # "file"
    <3>1. server.at # "file"
      BY <1>1, Zenon DEF Sends
    <3>2. response # << >> => got[1] = response[1]
      BY <1>1
    <3> QED
      BY <3>1, <3>2
  <2>4. response = << >>
    BY <1>6, <2>3, SMTT(60) DEF ClientInv, WireInv, FileIsLast
  <2>5. Flagged(got) = got
    BY <1>1, <1>6, <2>4 DEF Flagged
  <2>6. astray = "no" => sequence' \in 0..(SeqModulus - 1) /\ peer' = [at |-> "file", seq |-> sequence']
    BY <1>1, <1>4, <2>1, <2>2, <2>5, WriteFacts, ZenonT(60) DEF ClientInv, ClientPlace
  <2> QED
    BY <1>1, <2>1, <2>6, SMTT(60) DEF ClientInv, ClientPlace
<1>7. CASE Ends(p) /\ got[1].first # "FB"
  <2> DEFINE packets == IF stmt = "own" THEN <<Ok>> ELSE got
  <2>1. Respond(packets) /\ stored' = Keep(got)
    BY <1>1, <1>7, ZenonT(60) DEF Read
  <2>2. at' \in {"run", "statement"}
    BY <2>1 DEF Respond, NextStatement
  <2>3. next = "end"
    BY <1>2, <2>2 DEF WireInv
  <2>4. IsResponse(got)
    BY <1>4, <2>3 DEF IsResponse
  <2>5. IsResponse(packets)
    BY <2>4, OnePacket
  <2>6. stored' = Nothing \/ IsResponse(stored'.packets)
    BY <1>1, <2>1, <2>4, SMTT(60) DEF Keep
  <2> HIDE DEF packets
  <2> QED
    BY <1>1, <2>1, <2>2, <2>5, <2>6, RespondFacts, SMTT(60) DEF ClientInv
<1> QED
  BY <1>5, <1>6, <1>7, SMTT(60)

\* ClientInv is inductive.
LEMMA ClientStep == ClientInv /\ [WireNext]_wireVars => ClientInv'
<1> SUFFICES ASSUME ClientInv, [WireNext]_wireVars PROVE ClientInv'
  OBVIOUS
<1>1. WireInv'
  BY WireStep, SMTT(60) DEF ClientInv
<1>2. CASE UNCHANGED wireVars
  BY <1>1, <1>2, Zenon DEF ClientInv, ClientPlace, wireVars, readVars
<1>3. CASE \E p \in Packets : Read(p)
  BY <1>1, <1>3, ClientRead
<1> QED
  BY <1>1, <1>2, <1>3, ClientBetween, SMTT(60) DEF WireNext

\* For any number of statements, results and rows and any modulus of the packet
\* numbers: the client finds the end of its command where the proxy does, unless
\* a statement before the last one failed or an upload did, a query had no
\* statement, or the client did not answer an Auth Switch Request.
THEOREM AlwaysClientInStep == WireSpec => []ClientInStep
<1>1. ClientInv => ClientInStep
  BY DEF ClientInv, ClientInStep, ClientPlace, WireInv
<1> QED
  BY <1>1, ClientInit, ClientStep, PTL DEF WireSpec
=============================================================================
