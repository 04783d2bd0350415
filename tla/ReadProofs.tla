----------------------------- MODULE ReadProofs -----------------------------
(***************************************************************************)
(* Proofs about what answers a read: QueryCache, for any number of queries *)
(* and keys, where no flight is closed twice and no waiter is forgotten;   *)
(* and ReplicaPool, for any configurations, any number of probes in flight *)
(* and any number of reloads.                                              *)
(***************************************************************************)
EXTENDS QueryCache, ReplicaPool, WellFoundedInduction, TLAPS

-----------------------------------------------------------------------------
(* QueryCache *)

\* An empty cache satisfies the invariant.
LEMMA InitIInv == Init => IInv
BY QueriesAssumption DEF Init, IInv, TypeOK, FlightInv, ClosedOnce, WaitersAreReleased,
   InHand, Pcs, Entry

\* Arrive preserves the invariant.
LEMMA ArriveStep ==
  ASSUME IInv, NEW q \in Queries, Arrive(q)
  PROVE  IInv'
<1> USE QueriesAssumption DEF IInv, Arrive, Goto
<1>1. TypeOK'
  BY Zenon DEF TypeOK, Pcs, Entry
<1>2. FlightInv'
  BY DEF TypeOK, FlightInv, InHand
<1>3. ClosedOnce' /\ WaitersAreReleased'
  BY DEF TypeOK, FlightInv, InHand, ClosedOnce, WaitersAreReleased
<1> QED
  BY <1>1, <1>2, <1>3

\* Get preserves the invariant.
LEMMA GetStep ==
  ASSUME IInv, NEW q \in Queries, Get(q)
  PROVE  IInv'
<1> USE QueriesAssumption DEF IInv, Get, Goto, StoreGet
<1>1. TypeOK'
  BY Zenon DEF TypeOK, Pcs, Entry
<1>2. FlightInv'
  BY DEF TypeOK, FlightInv, InHand
<1>3. ClosedOnce' /\ WaitersAreReleased'
  BY DEF TypeOK, FlightInv, InHand, ClosedOnce, WaitersAreReleased
<1> QED
  BY <1>1, <1>2, <1>3, Zenon

\* GetAgain preserves the invariant.
LEMMA GetAgainStep ==
  ASSUME IInv, NEW q \in Queries, GetAgain(q)
  PROVE  IInv'
<1> USE QueriesAssumption DEF IInv, GetAgain, Goto, StoreGet
<1>1. TypeOK'
  BY Zenon DEF TypeOK, Pcs, Entry
<1>2. FlightInv'
  BY DEF TypeOK, FlightInv, InHand
<1>3. ClosedOnce' /\ WaitersAreReleased'
  BY SMTT(60) DEF TypeOK, FlightInv, InHand, ClosedOnce, WaitersAreReleased
<1> QED
  BY <1>1, <1>2, <1>3, Zenon

\* Register preserves the invariant.
LEMMA RegisterStep ==
  ASSUME IInv, NEW q \in Queries, Register(q)
  PROVE  IInv'
<1> USE QueriesAssumption DEF IInv, Register, Goto
<1>1. TypeOK'
  BY DEF TypeOK, Pcs, Entry
<1>2. FlightInv'
  BY SMTT(60) DEF TypeOK, FlightInv, InHand
<1>3. ClosedOnce' /\ WaitersAreReleased'
  BY SMTT(60) DEF TypeOK, FlightInv, InHand, ClosedOnce, WaitersAreReleased
<1> QED
  BY <1>1, <1>2, <1>3, Zenon

\* Woken preserves the invariant.
LEMMA WokenStep ==
  ASSUME IInv, NEW q \in Queries, Woken(q)
  PROVE  IInv'
<1> USE QueriesAssumption DEF IInv, Woken, Goto
<1>1. TypeOK'
  BY Zenon DEF TypeOK, Pcs, Entry
<1>2. FlightInv'
  BY DEF TypeOK, FlightInv, InHand
<1>3. ClosedOnce' /\ WaitersAreReleased'
  BY DEF TypeOK, FlightInv, InHand, ClosedOnce, WaitersAreReleased
<1> QED
  BY <1>1, <1>2, <1>3, Zenon

\* Timeout preserves the invariant.
LEMMA TimeoutStep ==
  ASSUME IInv, NEW q \in Queries, Timeout(q)
  PROVE  IInv'
<1> USE QueriesAssumption DEF IInv, Timeout, Goto
<1>1. TypeOK'
  BY Zenon DEF TypeOK, Pcs, Entry
<1>2. FlightInv'
  BY DEF TypeOK, FlightInv, InHand
<1>3. ClosedOnce' /\ WaitersAreReleased'
  BY DEF TypeOK, FlightInv, InHand, ClosedOnce, WaitersAreReleased
<1> QED
  BY <1>1, <1>2, <1>3, Zenon

\* GetWaited preserves the invariant.
LEMMA GetWaitedStep ==
  ASSUME IInv, NEW q \in Queries, GetWaited(q)
  PROVE  IInv'
<1> USE QueriesAssumption DEF IInv, GetWaited, Goto, StoreGet
<1>1. TypeOK'
  BY Zenon DEF TypeOK, Pcs, Entry
<1>2. FlightInv'
  BY SMTT(60) DEF TypeOK, FlightInv, InHand
<1>3. ClosedOnce' /\ WaitersAreReleased'
  BY DEF TypeOK, FlightInv, InHand, ClosedOnce, WaitersAreReleased
<1> QED
  BY <1>1, <1>2, <1>3, Zenon

\* Fetch preserves the invariant.
LEMMA FetchStep ==
  ASSUME IInv, NEW q \in Queries, Fetch(q)
  PROVE  IInv'
<1> USE QueriesAssumption DEF IInv, Fetch, Goto
<1>1. TypeOK'
  BY DEF TypeOK, Pcs, Entry
<1>2. FlightInv'
  BY DEF TypeOK, FlightInv, InHand
<1>3. ClosedOnce' /\ WaitersAreReleased'
  BY DEF TypeOK, FlightInv, InHand, ClosedOnce, WaitersAreReleased
<1> QED
  BY <1>1, <1>2, <1>3, Zenon

\* Set preserves the invariant.
LEMMA SetStep ==
  ASSUME IInv, NEW q \in Queries, Set(q)
  PROVE  IInv'
<1> USE QueriesAssumption DEF IInv, Set, Goto
<1>1. TypeOK'
  BY Zenon DEF TypeOK, Pcs, Entry
<1>2. FlightInv'
  BY DEF TypeOK, FlightInv, InHand
<1>3. ClosedOnce' /\ WaitersAreReleased'
  BY DEF TypeOK, FlightInv, InHand, ClosedOnce, WaitersAreReleased
<1> QED
  BY <1>1, <1>2, <1>3, Zenon

\* Notify preserves the invariant.
LEMMA NotifyStep ==
  ASSUME IInv, NEW q \in Queries, Notify(q)
  PROVE  IInv'
<1> USE QueriesAssumption DEF IInv, Notify, Goto, Release
<1>1. TypeOK'
  BY DEF TypeOK, Pcs, Entry
<1>2. FlightInv'
  BY SMTT(60) DEF TypeOK, FlightInv, InHand
<1>3. ClosedOnce' /\ WaitersAreReleased'
  BY SMTT(60) DEF TypeOK, FlightInv, InHand, ClosedOnce, WaitersAreReleased
<1> QED
  BY <1>1, <1>2, <1>3, Zenon

\* CancelInflight preserves the invariant.
LEMMA CancelInflightStep ==
  ASSUME IInv, NEW q \in Queries, CancelInflight(q)
  PROVE  IInv'
<1> USE QueriesAssumption DEF IInv, CancelInflight, Goto, Release
<1>1. TypeOK'
  BY DEF TypeOK, Pcs, Entry
<1>2. FlightInv'
  BY SMTT(60) DEF TypeOK, FlightInv, InHand
<1>3. ClosedOnce' /\ WaitersAreReleased'
  BY SMTT(60) DEF TypeOK, FlightInv, InHand, ClosedOnce, WaitersAreReleased
<1> QED
  BY <1>1, <1>2, <1>3, Zenon

\* Close preserves the invariant.
LEMMA CloseStep ==
  ASSUME IInv, NEW q \in Queries, Close(q)
  PROVE  IInv'
<1> USE QueriesAssumption DEF IInv, Close, Goto
<1>1. TypeOK'
  <2>1. flight[q] \in Queries
    BY DEF TypeOK, FlightInv
  <2> QED
    BY <2>1 DEF TypeOK, Pcs, Entry
<1>2. FlightInv'
  BY DEF TypeOK, FlightInv, InHand
<1>3. ClosedOnce' /\ WaitersAreReleased'
  BY SMTT(60) DEF TypeOK, FlightInv, InHand, ClosedOnce, WaitersAreReleased
<1> QED
  BY <1>1, <1>2, <1>3, Zenon

\* What the store does by itself changes nothing about flights.
LEMMA StoreStep ==
  ASSUME IInv, NEW k \in Keys, Expire(k) \/ Evict(k)
  PROVE  IInv'
BY SMTT(60) DEF Expire, Evict, IInv, TypeOK, Entry, FlightInv, InHand, ClosedOnce, WaitersAreReleased

\* Every step preserves the invariant.
LEMMA NextIInv == IInv /\ [Next]_vars => IInv'
<1> SUFFICES ASSUME IInv, [Next]_vars PROVE IInv'
  OBVIOUS
<1>1. CASE UNCHANGED vars
  BY <1>1, SMTT(60) DEF vars, IInv, TypeOK, FlightInv, InHand, ClosedOnce, WaitersAreReleased
<1>2. CASE Next
  BY Zenon, <1>2, ArriveStep, GetStep, GetAgainStep, RegisterStep, WokenStep, TimeoutStep,
     GetWaitedStep, FetchStep, SetStep, NotifyStep, CancelInflightStep, CloseStep, StoreStep
     DEF Next, QueryStep
<1> QED
  BY <1>1, <1>2, Zenon

\* The invariant holds in every reachable state.
THEOREM Invariance == Spec => []IInv
BY InitIInv, NextIInv, PTL DEF Spec

\* SetAndNotify and CancelInflight never close a done channel that is closed,
\* however many queries miss, time out and fail on one key.
THEOREM NoDoubleClose == Spec => []ClosedOnce
<1>1. IInv => ClosedOnce
  BY Zenon DEF IInv
<1> QED
  BY <1>1, Invariance, PTL

\* A query that waits in GetOrWait waits for a flight that some other query is
\* going to close.
THEOREM NoForgottenWaiter == Spec => []WaitersAreReleased
<1>1. IInv => WaitersAreReleased
  BY Zenon DEF IInv
<1> QED
  BY <1>1, Invariance, PTL

-----------------------------------------------------------------------------
(* ReplicaPool: the list, its index and its health map *)

\* A remainder is an index of a list of n.
LEMMA ModRange ==
  ASSUME NEW i \in Nat, NEW n \in Nat, n > 0
  PROVE  i % n \in 0..(n - 1)
  OBVIOUS

\* Going k steps round a ring of n from i reaches every position j.
LEMMA RingSurjective ==
  ASSUME NEW n \in Nat, NEW i \in 0..(n - 1), NEW j \in 0..(n - 1)
  PROVE  \E k \in 0..(n - 1) : (i + k) % n = j
<1>1. CASE i <= j
  <2>1. (i + (j - i)) % n = j /\ j - i \in 0..(n - 1)
    BY <1>1
  <2> QED
    BY <2>1, ZenonT(60)
<1>2. CASE i > j
  <2>1. (i + (j - i + n)) % n = j /\ j - i + n \in 0..(n - 1)
    BY <1>2
  <2> QED
    BY <2>1, SMTT(60)
<1> QED
  BY <1>1, <1>2

\* A non-empty set of naturals has a least element.
LEMMA LeastElement ==
  ASSUME NEW S \in SUBSET Nat, S # {}
  PROVE  \E k \in S : \A j \in S : k <= j
<1> DEFINE R == {ss \in Nat \X Nat : ss[1] < ss[2]}
<1>1. IsWellFoundedOn(R, Nat)
  BY NatLessThanWellFounded DEF OpToRel
<1> HIDE DEF R
<1>2. PICK k \in S : \A j \in S : ~(<<j, k>> \in R)
  BY <1>1, WFMin, Zenon
<1>3. \A j \in S : ~(j < k)
  <2> TAKE j \in S
  <2>1. j \in Nat /\ k \in Nat
    OBVIOUS
  <2>2. j < k => <<j, k>> \in R
    BY <2>1 DEF R
  <2> QED
    BY <1>2, <2>2
<1> QED
  BY <1>3

\* GetReplica's loop finds a healthy replica if there is one, and every
\* address and index it then uses is in range.
LEMMA HitsFacts ==
  ASSUME PoolInv
  PROVE  /\ Hits = {} <=> Healthy = {}
         /\ Hits # {} => LET idx == (current + FirstHit) % Len(replicas)
                         IN  /\ idx \in 0..(Len(replicas) - 1)
                             /\ Wrap(idx) \in 0..(Len(replicas) - 1)
                             /\ ReplicaAt(idx) \in Healthy
<1> DEFINE n == Len(replicas)
<1>1. n \in Nat /\ DOMAIN replicas = 1..n /\ \A m \in 1..n : replicas[m] \in DOMAIN healthy
  BY SMTT(60) DEF PoolInv, PoolConsistent, PoolTypeOK, Range
<1>2. ASSUME NEW a \in Healthy
      PROVE  Hits # {}
  <2>1. PICK m \in 1..n : replicas[m] = a
    BY <1>1, <1>2 DEF PoolInv, PoolConsistent, Healthy, Range
  <2>2. n > 0 /\ m - 1 \in 0..(n - 1) /\ current \in 0..(n - 1)
    BY <1>1, <2>1 DEF PoolInv, PoolConsistent
  <2>3. PICK k \in 0..(n - 1) : (current + k) % n = m - 1
    BY <1>1, <2>2, RingSurjective, Zenon
  <2>4. k \in Hits
    BY <1>2, <2>1, <2>2, <2>3 DEF Hits, Attempts, ReplicaAt, Healthy
  <2> QED
    BY <2>4
<1>3. ASSUME Hits # {}
      PROVE  LET idx == (current + FirstHit) % n
             IN  idx \in 0..(n - 1) /\ Wrap(idx) \in 0..(n - 1) /\ ReplicaAt(idx) \in Healthy
  <2>1. Hits \in SUBSET Nat /\ Hits \subseteq 0..(n - 1) /\ n > 0
    BY <1>1, <1>3 DEF Hits, Attempts
  <2>2. FirstHit \in Hits
    BY <1>3, <2>1, LeastElement, Zenon DEF FirstHit
  <2> DEFINE idx == (current + FirstHit) % n
  <2>3. idx \in 0..(n - 1)
    BY <1>1, <2>1, <2>2, ModRange, SMTT(60) DEF PoolInv, PoolTypeOK
  <2>4. Wrap(idx) \in 0..(n - 1)
    BY <1>1, <2>1, <2>3, ModRange DEF Wrap
  <2>5. ReplicaAt(idx) \in Healthy
    BY <1>1, <2>2, <2>3 DEF Hits, ReplicaAt, Healthy
  <2> QED
    BY <2>3, <2>4, <2>5, Zenon
<1>4. Hits # {} => Healthy # {}
  BY <1>3, Zenon
<1> QED
  BY <1>2, <1>3, <1>4, Zenon

\* NewPool establishes the invariant.
LEMMA InitPoolInv == PoolInit => PoolInv
<1> SUFFICES ASSUME PoolInit PROVE PoolInv
  OBVIOUS
<1> USE ConfigsAssumption DEF PoolInit
<1>1. PICK cfg \in Configs : primary = cfg.primary /\ replicas = cfg.replicas
  BY Zenon
<1>2. primary \in Addrs /\ replicas \in Seq(Addrs)
  BY <1>1, Zenon
<1>3. PoolConsistent
  <2>1. replicas # <<>> => 0 \in 0..(Len(replicas) - 1)
    BY <1>2
  <2> QED
    BY <2>1, Zenon DEF PoolConsistent
<1>4. PoolTypeOK
  <2>1. healthy \in [DOMAIN healthy -> BOOLEAN]
    BY Zenon
  <2>2. header \in Seq(Addrs) /\ scan \in Seq(Addrs \cup {Junk})
    OBVIOUS
  <2>3. last \in [addr : Addrs, idx : Int, turn : 0..1]
    BY <1>2
  <2>4. reloads \in 0..MaxReloads /\ flips \in 0..MaxFlips
    BY BoundsAssumption
  <2> QED
    BY <1>2, <2>1, <2>2, <2>3, <2>4, Zenon DEF PoolTypeOK, NoProbe
<1> QED
  BY <1>3, <1>4, Zenon DEF PoolInv

\* GetReplica preserves the invariant.
LEMMA GetReplicaStep == PoolInv /\ GetReplica => PoolInv'
<1> SUFFICES ASSUME PoolInv, GetReplica PROVE PoolInv'
  OBVIOUS
<1> USE DEF GetReplica, checkVars, envVars
<1>1. CASE Hits = {}
  BY <1>1, SMTT(60) DEF PoolInv, PoolConsistent, PoolTypeOK
<1>2. CASE Hits # {}
  <2> DEFINE idx == (current + FirstHit) % Len(replicas)
             a   == ReplicaAt(idx)
  <2>1. /\ last' = [addr |-> a, idx |-> idx, turn |-> 1 - last.turn]
        /\ current' = Wrap(idx)
        /\ served' \subseteq served \cup {a}
        /\ UNCHANGED <<primary, replicas, healthy, checkVars, probes, envVars>>
    BY <1>2, Zenon
  <2>2. idx \in 0..(Len(replicas) - 1) /\ Wrap(idx) \in 0..(Len(replicas) - 1) /\ a \in Healthy
    BY <1>2, HitsFacts, Zenon
  <2>3. a \in Addrs
    BY <2>2, SMTT(60) DEF PoolInv, PoolConsistent, PoolTypeOK, Healthy, Range
  <2> HIDE DEF idx, a, GetReplica
  <2>4. last' \in [addr : Addrs, idx : Int, turn : 0..1] /\ current' \in Nat
    BY <2>1, <2>2, <2>3, SMTT(60) DEF PoolInv, PoolTypeOK
  <2> QED
    BY <2>1, <2>2, <2>3, <2>4, Zenon DEF PoolInv, PoolConsistent, PoolTypeOK
<1> QED
  BY <1>1, <1>2, Zenon

\* UpdateReplicas preserves the invariant, whatever the new list is.
LEMMA UpdateReplicasStep ==
  ASSUME PoolInv, NEW cfg \in Configs, UpdateReplicas(cfg)
  PROVE  PoolInv'
<1> USE ConfigsAssumption DEF UpdateReplicas, checkVars
<1>1. cfg.primary \in Addrs /\ cfg.replicas \in Seq(Addrs) /\ Len(cfg.replicas) \in Nat
  OBVIOUS
<1>2. /\ current' \in Nat
      /\ cfg.replicas # <<>> => current' \in 0..(Len(cfg.replicas) - 1)
      /\ cfg.replicas = <<>> => current' = 0
  <2>1. cfg.replicas # <<>> <=> Len(cfg.replicas) > 0
    BY <1>1
  <2> QED
    BY <1>1, <2>1, ModRange, SMTT(60) DEF ResetIndex, PoolInv, PoolTypeOK
<1>3. DOMAIN healthy' = Range(replicas') /\ healthy' \in [DOMAIN healthy' -> BOOLEAN]
  BY Zenon DEF PoolInv, PoolTypeOK
<1>4. reloads' \in 0..MaxReloads
  BY BoundsAssumption, SMTT(60) DEF PoolInv, PoolTypeOK
<1> QED
  BY <1>1, <1>2, <1>3, <1>4, Zenon DEF PoolInv, PoolConsistent, PoolTypeOK

\* The health checker's own steps preserve the invariant.
LEMMA ChecksStep ==
  ASSUME PoolInv, Checks \/ StopChecks
  PROVE  PoolInv'
<1> USE ConfigsAssumption DEF PoolInv, PoolTypeOK, PoolConsistent, poolVars, envVars
<1>1. CASE ReadHeader
  BY <1>1, Zenon DEF ReadHeader
<1>2. CASE ReadRest
  <2>1. PICK array \in {header, replicas}, sized \in {header, replicas} :
          scan' = [i \in 1..Len(sized) |-> IF i <= Len(array) THEN array[i] ELSE Junk]
    BY <1>2, SMTT(60) DEF ReadRest
  <2>2. array \in Seq(Addrs) /\ sized \in Seq(Addrs)
    BY Zenon
  <2>3. scan' \in Seq(Addrs \cup {Junk})
    BY <2>1, <2>2, SMTT(60)
  <2> QED
    BY <1>2, <2>3, Zenon DEF ReadRest
<1>3. CASE EndLoop \/ Tick \/ StopChecks
  BY <1>3, ZenonT(60) DEF EndLoop, Tick, StopChecks
<1>4. ASSUME NEW s \in Slots, StartProbe(s)
      PROVE  PoolInv'
  <2>1. Head(scan) \in Addrs \cup {Junk} /\ Tail(scan) \in Seq(Addrs \cup {Junk})
    BY <1>4, SMTT(60) DEF StartProbe
  <2> QED
    BY <1>4, <2>1, Zenon DEF StartProbe
<1> QED
  BY <1>1, <1>2, <1>3, <1>4, Zenon DEF Checks

\* The steps of a probe, and of the backends, preserve the invariant: marking
\* never adds an address to the health map.
LEMMA ProbeStep ==
  ASSUME PoolInv,
         \/ \E s \in Slots : Dial(s) \/ EndProbe(s)
         \/ \E a \in Addrs : Flip(a)
  PROVE  PoolInv'
<1> USE ConfigsAssumption DEF PoolInv, PoolTypeOK, PoolConsistent, poolVars, checkVars, envVars
<1>1. ASSUME NEW s \in Slots, Dial(s)
      PROVE  PoolInv'
  BY <1>1, SMTT(60) DEF Dial
<1>2. ASSUME NEW s \in Slots, EndProbe(s)
      PROVE  PoolInv'
  BY <1>2, Zenon DEF EndProbe, Mark, NoProbe
<1>3. ASSUME NEW a \in Addrs, Flip(a)
      PROVE  PoolInv'
  <2>1. flips' \in 0..MaxFlips
    BY <1>3, BoundsAssumption, SMTT(60) DEF Flip
  <2> QED
    BY <1>3, <2>1, Zenon DEF Flip
<1> QED
  BY <1>1, <1>2, <1>3, Zenon

\* Every step of the pool preserves the invariant.
LEMMA NextPoolInv == PoolInv /\ [PoolNext]_allVars => PoolInv'
<1> SUFFICES ASSUME PoolInv, [PoolNext]_allVars PROVE PoolInv'
  OBVIOUS
<1>1. CASE UNCHANGED allVars
  BY <1>1, Zenon DEF allVars, poolVars, checkVars, envVars, PoolInv, PoolTypeOK, PoolConsistent
<1> QED
  BY <1>1, GetReplicaStep, UpdateReplicasStep, ChecksStep, ProbeStep DEF PoolNext

\* The invariant holds in every reachable state of the pool.
THEOREM PoolInvariance == PoolSpec => []PoolInv
BY InitPoolInv, NextPoolInv, PTL DEF PoolSpec

\* With any lists and any reloads, GetReplica's index stays within the list
\* and the health map follows it: reads cannot index out of range, and probes
\* that finish late, or that dialled junk, change nothing they should not.
THEOREM PoolStaysConsistent == PoolSpec => []PoolConsistent
<1>1. PoolInv => PoolConsistent
  BY DEF PoolInv
<1> QED
  BY <1>1, PoolInvariance, PTL

\* GetReplica returns a healthy replica whenever there is one, from every
\* position of the round-robin index, and the primary otherwise.
THEOREM HealthyReplicaFound == PoolSpec => PrimaryIsLastResort
<1>1. PoolInv /\ [PoolNext]_allVars =>
        [GetReplica => IF Healthy = {} THEN last'.addr = primary ELSE last'.addr \in Healthy]_allVars
  <2> SUFFICES ASSUME PoolInv, GetReplica
               PROVE  IF Healthy = {} THEN last'.addr = primary ELSE last'.addr \in Healthy
    BY Zenon
  <2>1. CASE Hits = {}
    BY <2>1, HitsFacts DEF GetReplica
  <2>2. CASE Hits # {}
    BY <2>2, HitsFacts, SMTT(60) DEF GetReplica
  <2> QED
    BY <2>1, <2>2, Zenon
<1> QED
  BY <1>1, PoolInvariance, PTL DEF PoolSpec, PrimaryIsLastResort

-----------------------------------------------------------------------------
(* ReplicaPool: round robin *)

\* The attempt number Ahead(p) of GetReplica's loop looks at position p, and no
\* other attempt does.
LEMMA AheadFacts ==
  ASSUME NEW n \in Nat, n = Len(replicas), NEW p \in 0..(n - 1), current \in 0..(n - 1)
  PROVE  /\ Ahead(p) \in 0..(n - 1) /\ (current + Ahead(p)) % n = p
         /\ \A k \in 0..(n - 1) : (current + k) % n = p => k = Ahead(p)
<1>1. Ahead(p) \in 0..(n - 1) /\ (current + Ahead(p)) % n = p
  <2>1. CASE p >= current
    <3>1. Ahead(p) = p - current
      BY <2>1 DEF Ahead
    <3> QED
      BY <2>1, <3>1, SMTT(60)
  <2>2. CASE p < current
    <3>1. Ahead(p) = p - current + n
      BY <2>2 DEF Ahead
    <3>2. current + Ahead(p) = p + n /\ (p + n) % n = p
      BY <3>1
    <3> QED
      BY <2>2, <3>1, <3>2
  <2> QED
    BY <2>1, <2>2
<1>2. ASSUME NEW k \in 0..(n - 1), (current + k) % n = p
      PROVE  k = Ahead(p)
  <2>1. CASE current + k < n
    <3>1. (current + k) % n = current + k
      BY <2>1, SMTT(60)
    <3> QED
      BY <1>2, <3>1 DEF Ahead
  <2>2. CASE current + k >= n
    <3>1. (current + k) % n = current + k - n
      BY <2>2, SMTT(60)
    <3> QED
      BY <1>2, <3>1, SMTT(60) DEF Ahead
  <2> QED
    BY <2>1, <2>2
<1> QED
  BY <1>1, <1>2

\* GetReplica picks the healthy replica that is the least ahead, and moves its
\* index past it.
LEMMA Picked ==
  ASSUME PoolInv, RoundInv, Hits # {}
  PROVE  LET idx == (current + FirstHit) % Len(replicas)
         IN  /\ idx \in Positions /\ Len(replicas) \in Nat \ {0} /\ current \in Positions
             /\ ReplicaAt(idx) \in Healthy
             /\ \A q \in Positions : ReplicaAt(q) \in Healthy => Ahead(idx) <= Ahead(q)
<1> DEFINE n == Len(replicas)
           idx == (current + FirstHit) % n
<1>1. n \in Nat
  BY DEF PoolInv, PoolTypeOK
<1>2. Hits \subseteq 0..(n - 1) /\ n > 0 /\ current \in 0..(n - 1)
  BY <1>1 DEF Hits, Attempts, PoolInv, PoolConsistent
<1>3. Hits \in SUBSET Nat
  BY <1>1, <1>2
<1>4. FirstHit \in Hits /\ \A j \in Hits : FirstHit <= j
  BY <1>3, LeastElement, Zenon DEF FirstHit
<1>5. idx \in 0..(n - 1) /\ ReplicaAt(idx) \in Healthy
  BY HitsFacts, Zenon
<1>6. FirstHit = Ahead(idx)
  BY <1>1, <1>2, <1>4, <1>5, AheadFacts, SMTT(60)
<1>7. ASSUME NEW q \in Positions, ReplicaAt(q) \in Healthy
      PROVE  Ahead(idx) <= Ahead(q)
  <2>1. q \in 0..(n - 1)
    BY DEF Positions
  <2>2. Ahead(q) \in 0..(n - 1) /\ (current + Ahead(q)) % n = q
    BY <1>1, <1>2, <2>1, AheadFacts, SMTT(60)
  <2>3. Ahead(q) \in Hits
    BY <1>7, <2>2, Zenon DEF Hits, Attempts, Healthy
  <2> QED
    BY <1>4, <1>6, <2>3
<1> QED
  BY <1>1, <1>2, <1>5, <1>7 DEF Positions

\* NewPool and UpdateReplicas start a round.
LEMMA RoundStarts ==
  ASSUME NEW list, served = {}, replicas = list, \A i, j \in DOMAIN list : list[i] = list[j] => i = j,
         DOMAIN list = 1..Len(list), Len(list) \in Nat
  PROVE  RoundInv
<1>1. \A p, q \in Positions : ReplicaAt(p) = ReplicaAt(q) => p = q
  BY DEF Positions, ReplicaAt
<1> QED
  BY <1>1 DEF RoundInv

\* GetReplica preserves the order of the round.
LEMMA GetReplicaRound ==
  ASSUME PoolInv, RoundInv, GetReplica
  PROVE  RoundInv' /\ (Healthy # {} => last'.addr \notin served)
<1>1. replicas' = replicas /\ healthy' = healthy
  BY Zenon DEF GetReplica
<1>2. Positions' = Positions /\ Healthy' = Healthy /\ \A p : ReplicaAt(p)' = ReplicaAt(p)
  BY <1>1 DEF Positions, Healthy, ReplicaAt
<1>3. CASE Hits = {}
  <2>1. served' = served /\ current' = current /\ Healthy = {}
    BY <1>3, HitsFacts, Zenon DEF GetReplica
  <2>2. RoundInv'
    BY <1>1, <2>1, SMTT(60) DEF RoundInv, Positions, Healthy, ReplicaAt, Ahead
  <2> QED
    BY <2>1, <2>2
<1>4. CASE Hits # {}
  <2> DEFINE n == Len(replicas)
             idx == (current + FirstHit) % n
             a == ReplicaAt(idx)
  <2>1. /\ last'.addr = a /\ current' = Wrap(idx)
        /\ served' = IF Healthy \subseteq served \cup {a} THEN {} ELSE served \cup {a}
    BY <1>4, SMTT(60) DEF GetReplica
  <2>2. /\ idx \in Positions /\ n \in Nat \ {0} /\ current \in Positions /\ a \in Healthy
        /\ \A q \in Positions : ReplicaAt(q) \in Healthy => Ahead(idx) <= Ahead(q)
    BY <1>4, Picked, Zenon
  <2> HIDE DEF idx
  <2>3. a \notin served
    <3> SUFFICES ASSUME a \in served PROVE FALSE
      OBVIOUS
    <3>1. PICK b \in Healthy : b \notin served
      BY <2>2, Zenon DEF RoundInv
    <3>2. PICK m \in DOMAIN replicas : replicas[m] = b
      BY <3>1 DEF Healthy, PoolInv, PoolConsistent, Range
    <3>3. m - 1 \in Positions /\ ReplicaAt(m - 1) = b
      BY <3>2, SMTT(60) DEF Positions, ReplicaAt, PoolInv, PoolTypeOK
    <3>4. Ahead(m - 1) < Ahead(idx) /\ Ahead(idx) <= Ahead(m - 1)
      BY <2>2, <3>1, <3>3, Zenon DEF RoundInv
    <3>5. Ahead(m - 1) \in Int /\ Ahead(idx) \in Int
      BY <2>2, <3>3, SMTT(60) DEF Ahead, Positions
    <3> QED
      BY <3>4, <3>5
  <2>4. \A p \in Positions : /\ Ahead(p) \in Int /\ Ahead(p)' \in Int
                             /\ Ahead(p) > Ahead(idx) => Ahead(p)' = Ahead(p) - Ahead(idx) - 1
                             /\ p = idx => Ahead(p)' = n - 1
                             /\ Ahead(p) < n
    <3> TAKE p \in Positions
    <3>1. current' = IF idx + 1 = n THEN 0 ELSE idx + 1
      BY <2>1, <2>2, SMTT(60) DEF Wrap, Positions
    <3>2. n' = n /\ Positions = 0..(n - 1)
      BY <1>1 DEF Positions
    <3>3. Ahead(p)' = IF p >= current' THEN p - current' ELSE p - current' + n
      BY <3>2 DEF Ahead
    <3>4. Ahead(p) = IF p >= current THEN p - current ELSE p - current + n
      BY DEF Ahead
    <3>5. Ahead(idx) = IF idx >= current THEN idx - current ELSE idx - current + n
      BY Zenon DEF Ahead
    <3> HIDE DEF n
    <3>6. /\ p \in Int /\ 0 <= p /\ p < n /\ idx \in Int /\ 0 <= idx /\ idx < n
          /\ current \in Int /\ 0 <= current /\ current < n /\ n \in Int
      BY <2>2, <3>2
    <3>7. Ahead(p) \in Int /\ Ahead(p)' \in Int /\ Ahead(p) < n
      BY <3>1, <3>3, <3>4, <3>6, SMTT(60)
    <3>8. p = idx => Ahead(p)' = n - 1
      BY <3>1, <3>3, <3>6
    <3>9. Ahead(p) > Ahead(idx) => Ahead(p)' = Ahead(p) - Ahead(idx) - 1
      BY <3>1, <3>3, <3>4, <3>5, <3>6, SMTT(60)
    <3> QED
      BY <3>7, <3>8, <3>9, Zenon
  <2>5. \A q \in Positions : ReplicaAt(q) \in Healthy /\ q # idx => Ahead(q) > Ahead(idx)
    <3> TAKE q \in Positions
    <3>1. q # idx => Ahead(q) # Ahead(idx)
      BY <2>2, SMTT(60) DEF Ahead, Positions
    <3> QED
      BY <2>2, <2>4, <3>1, SMTT(60)
  <2>6. CASE Healthy \subseteq served \cup {a}
    <3>1. served' = {}
      BY <2>1, <2>6
    <3>2. RoundInv'
      BY <1>2, <3>1 DEF RoundInv
    <3> QED
      BY <2>1, <2>3, <3>2, Zenon
  <2>7. CASE ~(Healthy \subseteq served \cup {a})
    <3>1. served' = served \cup {a}
      BY <2>1, <2>7, Zenon
    <3>2. ASSUME NEW p \in Positions, NEW q \in Positions,
                 ReplicaAt(p) \in served', ReplicaAt(q) \in Healthy \ served'
          PROVE  Ahead(q)' < Ahead(p)'
      <4>1. q # idx /\ ReplicaAt(q) \in Healthy \ served /\ Ahead(q) > Ahead(idx)
        BY <2>5, <3>1, <3>2, Zenon
      <4>2. Ahead(q)' = Ahead(q) - Ahead(idx) - 1
        BY <2>4, <4>1, Zenon
      <4>3. CASE p = idx
        <5>1. Ahead(p)' = n - 1 /\ Ahead(q) < n /\ Ahead(q) \in Int /\ Ahead(idx) \in Int /\ n \in Int
          BY <2>2, <2>4, <4>3
        <5>2. Ahead(idx) >= 0
          BY <2>2 DEF Ahead, Positions
        <5> QED
          BY <4>2, <5>1, <5>2
      <4>4. CASE p # idx
        <5>1. ReplicaAt(p) \in served /\ ReplicaAt(p) \in Healthy
          BY <2>2, <3>1, <3>2, <4>4, Zenon DEF RoundInv
        <5>2. Ahead(q) < Ahead(p) /\ Ahead(p) > Ahead(idx)
          BY <2>5, <4>1, <4>4, <5>1, Zenon DEF RoundInv
        <5>3. Ahead(p)' = Ahead(p) - Ahead(idx) - 1
          BY <2>4, <5>2, Zenon
        <5> QED
          BY <2>2, <2>4, <4>2, <5>2, <5>3, SMTT(60)
      <4> QED
        BY <4>3, <4>4, Zenon
    <3>3. served' \subseteq Healthy /\ ~(Healthy \subseteq served')
      BY <2>2, <2>7, <3>1, Zenon DEF RoundInv
    <3>4. RoundInv'
      BY <1>2, <3>2, <3>3, Zenon DEF RoundInv
    <3> QED
      BY <2>1, <2>3, <3>4
  <2> QED
    BY <2>6, <2>7
<1> QED
  BY <1>3, <1>4

\* No other step disturbs a round without starting a new one.
LEMMA RoundStep ==
  ASSUME NoRepeats, PoolInv, RoundInv, [PoolNext]_allVars
  PROVE  RoundInv'
<1>1. ASSUME replicas' = replicas, healthy' = healthy, current' = current, served' = served
      PROVE  RoundInv'
  BY <1>1, SMTT(60) DEF RoundInv, Positions, Healthy, ReplicaAt, Ahead
<1>2. ASSUME NEW c \in Configs, UpdateReplicas(c)
      PROVE  RoundInv'
  <2>1. served' = {} /\ replicas' = c.replicas
    BY <1>2, Zenon DEF UpdateReplicas
  <2>2. \A i, j \in DOMAIN c.replicas : c.replicas[i] = c.replicas[j] => i = j
    BY DEF NoRepeats
  <2>3. c.replicas \in Seq(Addrs) 
    BY ConfigsAssumption
  <2>4. DOMAIN c.replicas = 1..Len(c.replicas) /\ Len(c.replicas) \in Nat
    BY <2>3
  <2>5. \A p, q \in Positions' : ReplicaAt(p)' = ReplicaAt(q)' => p = q
    BY <2>1, <2>2, <2>4, SMTT(60) DEF Positions, ReplicaAt
  <2> QED
    BY <2>1, <2>5, Zenon DEF RoundInv
<1>3. ASSUME NEW s \in Slots, EndProbe(s)
      PROVE  RoundInv'
  <2>1. replicas' = replicas /\ current' = current /\ served' = IF healthy' = healthy THEN served ELSE {}
    BY <1>3, Zenon DEF EndProbe, Mark
  <2>2. CASE healthy' = healthy
    BY <1>1, <2>1, <2>2
  <2>3. CASE healthy' # healthy
    BY <2>1, <2>3, Zenon DEF RoundInv, Positions, ReplicaAt
  <2> QED
    BY <2>2, <2>3
<1>4. CASE Checks \/ StopChecks \/ UNCHANGED allVars \/ (\E s \in Slots : Dial(s)) \/ (\E a \in Addrs : Flip(a))
  BY <1>1, <1>4, Zenon DEF Checks, ReadHeader, ReadRest, EndLoop, Tick, StartProbe, StopChecks, Dial, Flip, allVars, poolVars
<1> QED
  BY <1>2, <1>3, <1>4, GetReplicaRound, Zenon DEF PoolNext

\* GetReplica is fair from every position of its index and for lists of any
\* length, provided that no list names a replica twice: no replica is picked
\* again before every other healthy one was picked.
THEOREM AlwaysRoundRobin ==
  ASSUME NoRepeats
  PROVE  PoolSpec => RoundRobin
<1>1. PoolInit => RoundInv
  <2> SUFFICES ASSUME PoolInit PROVE RoundInv
    BY Zenon
  <2>1. PICK c \in Configs : replicas = c.replicas
    BY Zenon DEF PoolInit
  <2>2. c.replicas \in Seq(Addrs)
    BY ConfigsAssumption, Zenon
  <2>3. /\ served = {} /\ DOMAIN c.replicas = 1..Len(c.replicas) /\ Len(c.replicas) \in Nat
        /\ \A i, j \in DOMAIN c.replicas : c.replicas[i] = c.replicas[j] => i = j
    BY <2>2, SMTT(60) DEF PoolInit, NoRepeats
  <2> QED
    BY <2>1, <2>3, RoundStarts, Zenon
<1>2. PoolInv /\ RoundInv /\ [PoolNext]_allVars => RoundInv'
  BY RoundStep, Zenon
<1>3. PoolInv /\ RoundInv /\ [PoolNext]_allVars => [GetReplica /\ Healthy # {} => last'.addr \notin served]_allVars
  BY GetReplicaRound, Zenon
<1> QED
  BY <1>1, <1>2, <1>3, PoolInvariance, PTL DEF PoolSpec, RoundRobin
=============================================================================
