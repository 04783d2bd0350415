---------------------------- MODULE ReplicaPool ----------------------------
(***************************************************************************)
(* One replica pool (replica/pool.go): the replica list and its health     *)
(* map, reads picking a replica round robin, the periodic health checks,   *)
(* and SIGHUP reloads replacing the list under them all.                   *)
(*                                                                         *)
(* Every method that takes p.mu is one step.  checkAllReplicas reads       *)
(* p.replicas without the lock: a slice header is two words, a reload may  *)
(* come between reading them, so the checker may range over the array of   *)
(* one list with the length of the other (Junk stands for what lies past   *)
(* the array).  Each checkReplica goroutine dials, and marks the result    *)
(* later, in any order with the other probes.                              *)
(***************************************************************************)
EXTENDS Integers, Sequences, FiniteSets, Functions

CONSTANTS
  Addrs,       \* backend addresses
  Junk,        \* an address read past the end of a slice
  Configs,     \* the [primary, replicas] of each config file in use
  Slots,       \* bound: probes in flight at one time
  MaxReloads,  \* bound: SIGHUPs
  MaxFlips     \* bound: times a backend goes down or comes up

ASSUME ConfigsAssumption ==
  /\ Junk \notin Addrs
  /\ Configs \subseteq [primary : Addrs, replicas : Seq(Addrs)]

ASSUME BoundsAssumption == MaxReloads \in Nat /\ MaxFlips \in Nat

VARIABLES
  primary, replicas, healthy, current,  \* the fields of Pool
  last,      \* the last GetReplica: address, index (-1: primary) and a bit that
             \* tells one call from the next
  served,    \* history: replicas picked in the present round
  checker,   \* where StartHealthChecks is
  header,    \* its first look at p.replicas
  scan,      \* addresses its loop has still to start a probe for
  probes,    \* the checkReplica goroutines
  up,        \* which backends accept connections
  reloads, flips

poolVars  == <<primary, replicas, healthy, current>>
checkVars == <<checker, header, scan>>
envVars   == <<up, reloads, flips>>
allVars == <<poolVars, last, served, checkVars, probes, envVars>>

NoProbe == [addr |-> Junk, phase |-> "none"]

Healthy == {a \in DOMAIN healthy : healthy[a]}

\* Types.
PoolTypeOK ==
  /\ primary \in Addrs
  /\ replicas \in Seq(Addrs)
  /\ healthy \in [DOMAIN healthy -> BOOLEAN]
  /\ current \in Nat
  /\ last \in [addr : Addrs, idx : Int, turn : 0..1]
  /\ served \subseteq Addrs
  /\ checker \in {"read", "reread", "loop", "wait", "stopped"}
  /\ header \in Seq(Addrs)
  /\ scan \in Seq(Addrs \cup {Junk})
  /\ probes \in [Slots -> [addr : Addrs \cup {Junk}, phase : {"none", "dial", "up", "down"}]]
  /\ up \in [Addrs -> BOOLEAN]
  /\ reloads \in 0..MaxReloads
  /\ flips \in 0..MaxFlips

\* NewPool, and go StartHealthChecks.
PoolInit ==
  /\ \E c \in Configs : primary = c.primary /\ replicas = c.replicas
  /\ healthy = [a \in Range(replicas) |-> TRUE]
  /\ current = 0
  /\ last = [addr |-> primary, idx |-> -1, turn |-> 0]
  /\ served = {}
  /\ checker = "read"
  /\ header = <<>>
  /\ scan = <<>>
  /\ probes = [s \in Slots |-> NoProbe]
  /\ up = [a \in Addrs |-> TRUE]
  /\ reloads = 0
  /\ flips = 0

-----------------------------------------------------------------------------
ReplicaAt(i) == replicas[i + 1]     \* slices count from zero

WrapStuck(i) == i % Len(replicas)
Wrap(i) == (i + 1) % Len(replicas)

AttemptsTooFew == 0..(Len(replicas) - 2)
Attempts == 0..(Len(replicas) - 1)

\* The attempts of GetReplica's loop, counted from zero, that find a healthy one.
Hits == {k \in Attempts : healthy[ReplicaAt((current + k) % Len(replicas))]}

FirstHit == CHOOSE k \in Hits : \A j \in Hits : k <= j

\* The loop stops at the first healthy replica; without one it comes round to
\* where it started, and current is what it was.
GetReplica ==
  /\ IF Hits = {}
     THEN /\ last' = [addr |-> primary, idx |-> -1, turn |-> 1 - last.turn]
          /\ UNCHANGED <<current, served>>
     ELSE LET idx == (current + FirstHit) % Len(replicas)
              a   == ReplicaAt(idx)
          IN  /\ last' = [addr |-> a, idx |-> idx, turn |-> 1 - last.turn]
              /\ current' = Wrap(idx)
              /\ served' = IF Healthy \subseteq served \cup {a} THEN {} ELSE served \cup {a}
  /\ UNCHANGED <<primary, replicas, healthy, checkVars, probes, envVars>>

KeepIndex(n) == current
ResetIndex(n) == IF n > 0 THEN current % n ELSE 0

\* UpdateReplicas: kept replicas keep their status, new ones start healthy.
UpdateReplicas(c) ==
  /\ reloads < MaxReloads
  /\ reloads' = reloads + 1
  /\ primary' = c.primary
  /\ replicas' = c.replicas
  /\ healthy' = [a \in Range(c.replicas) |-> a \in DOMAIN healthy => healthy[a]]
  /\ current' = ResetIndex(Len(c.replicas))
  /\ served' = {}
  /\ UNCHANGED <<last, checkVars, probes, up, flips>>

-----------------------------------------------------------------------------
(* Health checks *)

\* for range p.replicas: the slice header is read in two parts, unlocked.
ReadHeader ==
  /\ checker = "read"
  /\ checker' = "reread"
  /\ header' = replicas
  /\ UNCHANGED <<poolVars, last, served, scan, probes, envVars>>

ReadRest ==
  /\ checker = "reread"
  /\ checker' = "loop"
  /\ \E array, sized \in {header, replicas} :
       scan' = [i \in 1..Len(sized) |-> IF i <= Len(array) THEN array[i] ELSE Junk]
  /\ UNCHANGED <<poolVars, last, served, header, probes, envVars>>

\* go p.checkReplica(replica), in a free slot.
StartProbe(s) ==
  /\ checker = "loop"
  /\ scan # <<>>
  /\ probes[s] = NoProbe
  /\ probes' = [probes EXCEPT ![s] = [addr |-> Head(scan), phase |-> "dial"]]
  /\ scan' = Tail(scan)
  /\ UNCHANGED <<poolVars, last, served, checker, header, envVars>>

EndLoop ==
  /\ checker = "loop"
  /\ scan = <<>>
  /\ checker' = "wait"
  /\ UNCHANGED <<poolVars, last, served, header, scan, probes, envVars>>

Tick ==
  /\ checker = "wait"
  /\ checker' = "read"
  /\ UNCHANGED <<poolVars, last, served, header, scan, probes, envVars>>

\* The context is cancelled.
StopChecks ==
  /\ checker = "wait"
  /\ checker' = "stopped"
  /\ UNCHANGED <<poolVars, last, served, header, scan, probes, envVars>>

Reachable(a) == a \in Addrs /\ up[a]

Dial(s) ==
  /\ probes[s].phase = "dial"
  /\ probes' = [probes EXCEPT ![s].phase = IF Reachable(probes[s].addr) THEN "up" ELSE "down"]
  /\ UNCHANGED <<poolVars, last, served, checkVars, envVars>>

MarkUnhealthyOnly(a, b) ==
  /\ healthy' = [x \in DOMAIN healthy |-> IF x = a THEN healthy[x] /\ b ELSE healthy[x]]
  /\ served' = {}

\* MarkHealthy and MarkUnhealthy: an address that is no longer in the list is
\* ignored.  A change of health starts a new round.
Mark(a, b) ==
  /\ healthy' = [x \in DOMAIN healthy |-> IF x = a THEN b ELSE healthy[x]]
  /\ served' = IF healthy' = healthy THEN served ELSE {}

EndProbe(s) ==
  /\ probes[s].phase \in {"up", "down"}
  /\ Mark(probes[s].addr, probes[s].phase = "up")
  /\ probes' = [probes EXCEPT ![s] = NoProbe]
  /\ UNCHANGED <<primary, replicas, current, last, checkVars, envVars>>

\* Environment: a backend goes down or comes up.
Flip(a) ==
  /\ flips < MaxFlips
  /\ flips' = flips + 1
  /\ up' = [up EXCEPT ![a] = ~@]
  /\ UNCHANGED <<poolVars, last, served, checkVars, probes, reloads>>

-----------------------------------------------------------------------------
Checks ==
  \/ ReadHeader \/ ReadRest \/ EndLoop \/ Tick
  \/ \E s \in Slots : StartProbe(s)

PoolNext ==
  \/ GetReplica
  \/ \E c \in Configs : UpdateReplicas(c)
  \/ Checks \/ StopChecks
  \/ \E s \in Slots : Dial(s) \/ EndProbe(s)
  \/ \E a \in Addrs : Flip(a)

PoolSpec == PoolInit /\ [][PoolNext]_allVars

\* The ticker keeps ticking and every goroutine runs; DialTimeout returns.
Fairness ==
  /\ WF_allVars(Checks)
  /\ \A s \in Slots : WF_allVars(Dial(s) \/ EndProbe(s))

FairPoolSpec == PoolSpec /\ Fairness
-----------------------------------------------------------------------------
(* Properties *)

\* The round-robin index is always a position of the replica list, and the
\* health map has exactly the replicas of the list: reads never index out of
\* range after a reload shrank the list, and a probe that finishes after its
\* replica was removed does not bring it back.
PoolConsistent ==
  /\ current \in 0..(Len(replicas) - 1) \/ (replicas = <<>> /\ current = 0)
  /\ DOMAIN healthy = Range(replicas)

\* The inductive invariant of the pool.
PoolInv == PoolTypeOK /\ PoolConsistent

\* GetReplica answers with a replica that is in the list and marked healthy,
\* and with the primary only when there is none, wherever the round-robin
\* index stands.
PrimaryIsLastResort ==
  [][GetReplica => IF Healthy = {} THEN last'.addr = primary ELSE last'.addr \in Healthy]_allVars

\* Round robin is fair: while list and health stay as they are, no replica is
\* picked again before every other healthy one was picked.
RoundRobin ==
  [][GetReplica /\ Healthy # {} => last'.addr \notin served]_allVars

\* Health checks converge: once no backend changes and nobody reloads, the
\* health map ends up telling the truth, although probes finish out of order,
\* were started for an older list, or read a torn slice header.
HealthConverges ==
  <>[](checker = "stopped" \/ \A a \in Range(replicas) : healthy[a] = up[a])
-----------------------------------------------------------------------------
(* The inductive invariant behind RoundRobin *)

\* No config file lists a replica twice.
NoRepeats ==
  \A c \in Configs : \A i, j \in DOMAIN c.replicas : c.replicas[i] = c.replicas[j] => i = j

Positions == 0..(Len(replicas) - 1)

\* How many steps of the ring GetReplica's index is before position p.
Ahead(p) == IF p >= current THEN p - current ELSE p - current + Len(replicas)

\* In a round, the index meets the healthy replicas that it has not picked yet
\* before the ones that it has, and there always is one that it has not.
RoundInv ==
  /\ \A p, q \in Positions : ReplicaAt(p) = ReplicaAt(q) => p = q
  /\ served \subseteq Healthy
  /\ Healthy # {} => ~(Healthy \subseteq served)
  /\ \A p, q \in Positions :
       ReplicaAt(p) \in served /\ ReplicaAt(q) \in Healthy \ served => Ahead(q) < Ahead(p)
=============================================================================
