----------------------------- MODULE QueryCache -----------------------------
(***************************************************************************)
(* The query cache (cache/cache.go) as the sessions use it: the cacheable  *)
(* path of handleSingleQuery (mariadb/mariadb.go) and of handleQuery       *)
(* (postgres/postgres.go), with single-flight fetching on a miss.          *)
(*                                                                         *)
(* A query is one execution of that path by a session goroutine; it        *)
(* creates at most one flight, which is named after it.  The store is the  *)
(* external library tqmemory: an entry is fresh, then stale; the first Get *)
(* of a stale entry is told to refresh (FlagRefresh), later ones are not   *)
(* (FlagStale); it disappears at its hard expiry or by eviction.  Every    *)
(* operation on the store, on the inflight map and on a channel is a step. *)
(***************************************************************************)
EXTENDS Naturals, FiniteSets

CONSTANTS
  Queries,   \* executions of a cacheable SELECT
  Keys,      \* cache keys
  KeyOf,     \* the cache key of each query
  NoFlight

ASSUME QueriesAssumption ==
  /\ KeyOf \in [Queries -> Keys]
  /\ NoFlight \notin Queries

VARIABLES
  store,     \* the tqmemory entry of each key
  inflight,  \* Cache.inflight: the flight registered for each key
  closes,    \* how many times each flight's done channel was closed
  pc,        \* where each query is
  flight     \* the flight a query waits for, or has in hand to close

vars == <<store, inflight, closes, pc, flight>>

Pcs == {"idle", "get", "again", "register", "wait", "woken", "fetch", "set", "notify",
        "close", "failed", "done"}

\* An entry that is stale and whose refresh was handed to a reader is "refreshing".
Entry == {"absent", "fresh", "stale", "refreshing"}

\* Types.
TypeOK ==
  /\ store \in [Keys -> Entry]
  /\ inflight \in [Keys -> Queries \cup {NoFlight}]
  /\ closes \in [Queries -> Nat]
  /\ pc \in [Queries -> Pcs]
  /\ flight \in [Queries -> Queries \cup {NoFlight}]

Init ==
  /\ store = [k \in Keys |-> "absent"]
  /\ inflight = [k \in Keys |-> NoFlight]
  /\ closes = [q \in Queries |-> 0]
  /\ pc = [q \in Queries |-> "idle"]
  /\ flight = [q \in Queries |-> NoFlight]

-----------------------------------------------------------------------------
Goto(q, label) == pc' = [pc EXCEPT ![q] = label]

\* store.Get as Cache.Get calls it: the first reader of a stale entry is the one
\* that is told to refresh it.
StoreGet(k) ==
  store' = [store EXCEPT ![k] = IF @ = "stale" THEN "refreshing" ELSE @]

Arrive(q) ==
  /\ pc[q] = "idle"
  /\ Goto(q, "get")
  /\ UNCHANGED <<store, inflight, closes, flight>>

\* cache.Get: fresh entries, and stale ones that another query refreshes, are
\* served; otherwise on to GetOrWait.
Get(q) ==
  LET k == KeyOf[q] IN
  /\ pc[q] = "get"
  /\ StoreGet(k)
  /\ Goto(q, IF store[k] \in {"fresh", "refreshing"} THEN "done" ELSE "again")
  /\ UNCHANGED <<inflight, closes, flight>>

\* GetOrWait looks again.  A hit here was not waited for, and the handler goes
\* on to fetch whatever its flags are.
GetAgain(q) ==
  LET k == KeyOf[q] IN
  /\ pc[q] = "again"
  /\ StoreGet(k)
  /\ Goto(q, IF store[k] = "absent" THEN "register" ELSE "fetch")
  /\ UNCHANGED <<inflight, closes, flight>>

\* inflight.LoadOrStore: become the fetcher, or wait for the one there is.
Register(q) ==
  LET k == KeyOf[q] IN
  /\ pc[q] = "register"
  /\ \/ /\ inflight[k] = NoFlight
        /\ inflight' = [inflight EXCEPT ![k] = q]
        /\ Goto(q, "fetch")
        /\ UNCHANGED flight
     \/ /\ inflight[k] # NoFlight
        /\ flight' = [flight EXCEPT ![q] = inflight[k]]
        /\ Goto(q, "wait")
        /\ UNCHANGED inflight
  /\ UNCHANGED <<store, closes>>

Woken(q) ==
  /\ pc[q] = "wait"
  /\ closes[flight[q]] > 0
  /\ Goto(q, "woken")
  /\ UNCHANGED <<store, inflight, closes, flight>>

\* The safety timeout of 15 seconds.
Timeout(q) ==
  /\ pc[q] = "wait"
  /\ Goto(q, "fetch")
  /\ UNCHANGED <<store, inflight, closes, flight>>

\* After the wait: a hit of any kind is served, a miss is fetched.
GetWaited(q) ==
  LET k == KeyOf[q] IN
  /\ pc[q] = "woken"
  /\ StoreGet(k)
  /\ Goto(q, IF store[k] = "absent" THEN "fetch" ELSE "done")
  /\ UNCHANGED <<inflight, closes, flight>>

\* The backend answers, or the connection or the query fails.
Fetch(q) ==
  /\ pc[q] = "fetch"
  /\ \E outcome \in {"set", "failed"} : Goto(q, outcome)
  /\ UNCHANGED <<store, inflight, closes, flight>>

\* SetAndNotify: store.Set, then release the waiters.
Set(q) ==
  /\ pc[q] = "set"
  /\ store' = [store EXCEPT ![KeyOf[q]] = "fresh"]
  /\ Goto(q, "notify")
  /\ UNCHANGED <<inflight, closes, flight>>

ReleaseUndeleted(q) ==
  /\ flight' = [flight EXCEPT ![q] = inflight[KeyOf[q]]]
  /\ Goto(q, IF inflight[KeyOf[q]] = NoFlight THEN "done" ELSE "close")
  /\ UNCHANGED inflight

\* inflight.LoadAndDelete: whatever flight is registered for the key, this
\* query's own or not.
Release(q) ==
  LET k == KeyOf[q] IN
  \/ /\ inflight[k] = NoFlight
     /\ Goto(q, "done")
     /\ UNCHANGED <<inflight, flight>>
  \/ /\ inflight[k] # NoFlight
     /\ flight' = [flight EXCEPT ![q] = inflight[k]]
     /\ inflight' = [inflight EXCEPT ![k] = NoFlight]
     /\ Goto(q, "close")

\* The second half of SetAndNotify.
Notify(q) ==
  /\ pc[q] = "notify"
  /\ Release(q)
  /\ UNCHANGED <<store, closes>>

CancelForgotten(q) ==
  /\ pc[q] = "failed"
  /\ Goto(q, "done")
  /\ UNCHANGED <<store, inflight, closes, flight>>

CancelInflight(q) ==
  /\ pc[q] = "failed"
  /\ Release(q)
  /\ UNCHANGED <<store, closes>>

\* close(f.done); a second close of one channel would panic.
Close(q) ==
  /\ pc[q] = "close"
  /\ closes' = [closes EXCEPT ![flight[q]] = @ + 1]
  /\ Goto(q, "done")
  /\ UNCHANGED <<store, inflight, flight>>

\* tqmemory, external: soft expiry; hard expiry or eviction.
Expire(k) ==
  /\ store[k] = "fresh"
  /\ store' = [store EXCEPT ![k] = "stale"]
  /\ UNCHANGED <<inflight, closes, pc, flight>>

Evict(k) ==
  /\ store[k] # "absent"
  /\ store' = [store EXCEPT ![k] = "absent"]
  /\ UNCHANGED <<inflight, closes, pc, flight>>

-----------------------------------------------------------------------------
QueryStep(q) ==
  Get(q) \/ GetAgain(q) \/ Register(q) \/ Woken(q) \/ GetWaited(q) \/ Fetch(q)
  \/ Set(q) \/ Notify(q) \/ CancelInflight(q) \/ Close(q)

Next ==
  \/ \E q \in Queries : Arrive(q) \/ QueryStep(q) \/ Timeout(q)
  \/ \E k \in Keys : Expire(k) \/ Evict(k)

Spec == Init /\ [][Next]_vars

\* The goroutines run, and backends answer or fail.  The safety timeout may
\* fire, but nothing relies on it.
FairSpec == Spec /\ \A q \in Queries : WF_vars(QueryStep(q))
-----------------------------------------------------------------------------
(* Properties *)

\* No done channel is closed twice (the second close would panic and end the
\* proxy), although any fetcher of a key closes whatever flight it finds.
ClosedOnce == \A q \in Queries : closes[q] <= 1

\* Nobody waits for a flight that nobody will close: it is registered and its
\* creator is still fetching, or some query has it in hand to close it.
WaitersAreReleased ==
  \A q \in Queries : pc[q] = "wait" /\ closes[flight[q]] = 0 =>
    LET f == flight[q] IN
    \/ inflight[KeyOf[q]] = f /\ pc[f] \in {"fetch", "set", "notify", "failed"}
    \/ \E c \in Queries : pc[c] = "close" /\ flight[c] = f

\* Every query is answered, without ever needing the safety timeout: each comes
\* once, and in the end none is between its arrival and its answer.
AllAnswered == <>[](\A q \in Queries : pc[q] \in {"idle", "done"})
-----------------------------------------------------------------------------
(* The inductive invariant behind ClosedOnce and WaitersAreReleased *)

\* A flight goes from its creator into the map, from there into the hands of
\* one query, and is closed: at most one of these holds it at any time.
InHand(c, f) == pc[c] = "close" /\ flight[c] = f

FlightInv ==
  /\ \A k \in Keys : LET f == inflight[k] IN f # NoFlight =>
       /\ KeyOf[f] = k
       /\ pc[f] \in {"fetch", "set", "notify", "failed"}
       /\ closes[f] = 0
       /\ \A c \in Queries : ~InHand(c, f)
  /\ \A q \in Queries : pc[q] \in {"wait", "close"} => flight[q] # NoFlight
  /\ \A q \in Queries : pc[q] = "wait" => KeyOf[flight[q]] = KeyOf[q]
  /\ \A q \in Queries : pc[q] \in {"idle", "get", "again", "register"} =>
       closes[q] = 0 /\ \A c \in Queries : ~InHand(c, q)
  /\ \A c \in Queries : pc[c] = "close" => closes[flight[c]] = 0
  /\ \A c, d \in Queries : pc[c] = "close" /\ pc[d] = "close" /\ flight[c] = flight[d] => c = d

\* The inductive invariant of the queries and their flights (GetOrWait,
\* SetAndNotify, CancelInflight).
IInv == TypeOK /\ FlightInv /\ ClosedOnce /\ WaitersAreReleased
=============================================================================
