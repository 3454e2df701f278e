----------------------------- MODULE ReadCache ------------------------------
(***************************************************************************)
(* The read caches of the services (roster, overview of an employee,       *)
(* dashboard, daily summary): pkg/cache in front of a singleflight group.  *)
(* A reader that finds no entry leads a flight, which runs the query, or   *)
(* joins the one under way; every reader of a flight then stores what it   *)
(* brought, each with a lifetime of its own.  What the database holds is   *)
(* the number of the write that was committed last.                        *)
(***************************************************************************)
EXTENDS Naturals

CONSTANTS Key,       \* the keys in use
          Reader,    \* the requests, each made once
          TTL,       \* lifetime of an entry, in ticks
          Slow,      \* assumption: a request lasts at most so many ticks
          MaxWrites, \* bound of the model: commits
          MaxTime,   \* bound of the model: ticks
          None       \* no entry, no flight, no value

ASSUME CacheAssumption ==
  /\ TTL \in Nat /\ Slow \in Nat /\ MaxWrites \in Nat /\ MaxTime \in Nat
  /\ None \notin Nat /\ None \notin Reader /\ None \notin Key

VARIABLES now,    \* the clock
          writes, \* commits so far
          wrote,  \* wrote[n]: when the n-th was
          entry,  \* entry[k]: the cached value and when it expires, or None
          flight, \* flight[k]: the reader that leads a flight, or None
          reader, \* reader[r]: how far the request is
          floor   \* history: floor[k], the newest write whose deletion of k met
                  \* no older value under way

cacheVars == <<now, writes, wrote, entry, flight, reader, floor>>

Write == 0..MaxWrites
Entry == [val : Write, expires : 0..(MaxTime + TTL)]
Idle == [stage |-> "idle"]
Request == [stage : {"waiting", "landed", "done", "failed"}, key : Key,
            val : Write \cup {None}, began : 0..MaxTime, floor : Write]

Waits(r, k) == reader[r].stage = "waiting" /\ reader[r].key = k

CacheTypeOK ==
  /\ now \in 0..MaxTime /\ writes \in Write
  /\ wrote \in [1..MaxWrites -> 0..MaxTime]
  /\ entry \in [Key -> Entry \cup {None}]
  /\ flight \in [Key -> Reader \cup {None}]
  /\ reader \in [Reader -> Request \cup {Idle}]
  /\ floor \in [Key -> Write]
  /\ \A k \in Key : flight[k] # None => Waits(flight[k], k)
  /\ \A r \in Reader, k \in Key : Waits(r, k) => flight[k] # None

CacheInit ==
  /\ now = 0 /\ writes = 0
  /\ wrote = [n \in 1..MaxWrites |-> 0]
  /\ entry = [k \in Key |-> None]
  /\ flight = [k \in Key |-> None]
  /\ reader = [r \in Reader |-> Idle]
  /\ floor = [k \in Key |-> 0]

Loading(k) == flight[k] # None /\ reader[flight[k]].val = None
Active(r) == reader[r].stage \in {"waiting", "landed"}

-----------------------------------------------------------------------------
(* Reading *)

Arrive(k, stage, val) ==
  [stage |-> stage, key |-> k, val |-> val, began |-> now, floor |-> floor[k]]

FreshAlways(k) == entry[k] # None  \* mutant: Get does not look at the expiry
Fresh(k) == entry[k] # None /\ now <= entry[k].expires

\* Get finds an entry that has not expired.
Hit(r, k) ==
  /\ reader[r] = Idle /\ Fresh(k)
  /\ reader' = [reader EXCEPT ![r] = Arrive(k, "done", entry[k].val)]
  /\ UNCHANGED <<now, writes, wrote, entry, flight, floor>>

\* Get drops an entry that has; then Do: lead a flight, or join the one there is.
Miss(r, k) ==
  /\ reader[r] = Idle /\ ~Fresh(k)
  /\ entry' = [entry EXCEPT ![k] = None]
  /\ flight' = [flight EXCEPT ![k] = IF @ = None THEN r ELSE @]
  /\ reader' = [reader EXCEPT ![r] = Arrive(k, "waiting", None)]
  /\ UNCHANGED <<now, writes, wrote, floor>>

\* The (first) statement of the query takes its snapshot; the others of an
\* overview or a dashboard may only show newer rows.
Query(k) ==
  /\ Loading(k)
  /\ reader' = [reader EXCEPT ![flight[k]].val = writes]
  /\ UNCHANGED <<now, writes, wrote, entry, flight, floor>>

\* The flight ends, and its readers have what its leader read, or its error.
Land(k) ==
  /\ flight[k] # None /\ reader[flight[k]].val # None
  /\ reader' = [r \in Reader |->
                  IF Waits(r, k) THEN [reader[r] EXCEPT !.stage = "landed",
                                                        !.val = reader[flight[k]].val]
                                 ELSE reader[r]]
  /\ flight' = [flight EXCEPT ![k] = None]
  /\ UNCHANGED <<now, writes, wrote, entry, floor>>

\* A statement fails, or the request of the leader is cancelled: all fail.
FlightFails(k) ==
  /\ flight[k] # None
  /\ reader' = [r \in Reader |-> IF Waits(r, k) THEN [reader[r] EXCEPT !.stage = "failed"]
                                                ELSE reader[r]]
  /\ flight' = [flight EXCEPT ![k] = None]
  /\ UNCHANGED <<now, writes, wrote, entry, floor>>

\* Every reader of the flight stores it again, when its turn comes.
Store(r) ==
  /\ reader[r].stage = "landed"
  /\ entry' = [entry EXCEPT ![reader[r].key] = [val |-> reader[r].val, expires |-> now + TTL]]
  /\ reader' = [reader EXCEPT ![r].stage = "done"]
  /\ UNCHANGED <<now, writes, wrote, flight, floor>>

-----------------------------------------------------------------------------
(* Writing, and time *)

Commit ==
  /\ writes < MaxWrites
  /\ writes' = writes + 1
  /\ wrote' = [wrote EXCEPT ![writes + 1] = now]
  /\ UNCHANGED <<now, entry, flight, reader, floor>>

\* A value that is older than write n and may still be stored under k.
Older(k, n) ==
  \E r \in Reader : Active(r) /\ reader[r].key = k /\ reader[r].val # None
                      /\ reader[r].val < n

Raised(k, n) == [floor EXCEPT ![k] = IF Older(k, n) \/ n < @ THEN @ ELSE n]

InvalidateNothing(k, n) ==  \* mutant: the key is not deleted
  /\ floor' = Raised(k, n)
  /\ UNCHANGED <<now, writes, wrote, entry, flight, reader>>

\* After its commit, write n deletes the key.
Invalidate(k, n) ==
  /\ entry' = [entry EXCEPT ![k] = None]
  /\ floor' = Raised(k, n)
  /\ UNCHANGED <<now, writes, wrote, flight, reader>>

Tick ==
  /\ now < MaxTime
  /\ \A r \in Reader : Active(r) => now - reader[r].began < Slow
  /\ now' = now + 1
  /\ UNCHANGED <<writes, wrote, entry, flight, reader, floor>>

\* The sweep removes what has expired.
Sweep(k) ==
  /\ entry[k] # None /\ ~Fresh(k)
  /\ entry' = [entry EXCEPT ![k] = None]
  /\ UNCHANGED <<now, writes, wrote, flight, reader, floor>>

-----------------------------------------------------------------------------
(* Properties *)

\* A request that starts after the deletion of its key for a write is answered
\* with that write, unless an older value was being loaded at the deletion.
AnswersAreFresh ==
  \A r \in Reader : reader[r].stage = "done" => reader[r].val >= reader[r].floor

\* No answer shows a state that was superseded longer ago than an entry lives
\* and a flight and the storing of its outcome last.
StaleBounded ==
  [][\A r \in Reader :
       reader[r].stage # "done" /\ reader'[r].stage = "done" =>
         LET n == reader'[r].val
         IN n < writes => now - wrote[n + 1] <= TTL + 2 * Slow]_cacheVars
=============================================================================
