---------------------------- MODULE WriteService ----------------------------
(***************************************************************************)
(* What the write-batch manager promises to its callers while it is open:  *)
(* every submitted write is performed, together only with writes of its    *)
(* own batch key, and the caller is answered after that, unless it gave up *)
(* waiting before.  WriteBatch implements this service.                    *)
(***************************************************************************)
CONSTANTS Requests, KeyOf

VARIABLES
  op,      \* whether each write is new, queued or performed
  reply    \* whether its caller has no reply yet, was answered or gave up

vars == <<op, reply>>

Init ==
  /\ op = [r \in Requests |-> "new"]
  /\ reply = [r \in Requests |-> "none"]

Submit(r) ==
  /\ op[r] = "new"
  /\ op' = [op EXCEPT ![r] = "queued"]
  /\ UNCHANGED reply

\* A batch: several queued writes of one key.
Perform(S) ==
  /\ S # {}
  /\ \A r \in S : op[r] = "queued"
  /\ \A r, s \in S : KeyOf[r] = KeyOf[s]
  /\ op' = [r \in Requests |-> IF r \in S THEN "performed" ELSE op[r]]
  /\ UNCHANGED reply

\* A write that is not batched is performed and answered in one step.
PerformNow(r) ==
  /\ op[r] = "queued"
  /\ reply[r] = "none"
  /\ op' = [op EXCEPT ![r] = "performed"]
  /\ reply' = [reply EXCEPT ![r] = "answered"]

Reply(r) ==
  /\ op[r] = "performed"
  /\ reply[r] = "none"
  /\ reply' = [reply EXCEPT ![r] = "answered"]
  /\ UNCHANGED op

GiveUp(r) ==
  /\ op[r] # "new"
  /\ reply[r] = "none"
  /\ reply' = [reply EXCEPT ![r] = "gaveUp"]
  /\ UNCHANGED op

Next ==
  \/ \E r \in Requests : Submit(r) \/ PerformNow(r) \/ Reply(r) \/ GiveUp(r)
  \/ \E S \in SUBSET Requests : Perform(S)

\* Every submitted write is performed, and answered unless its caller gave up:
\* each is submitted once, and in the end none is between the two.
Live ==
  <>[](\A r \in Requests : op[r] # "new" => op[r] = "performed" /\ reply[r] # "none")

Spec == Init /\ [][Next]_vars
=============================================================================
