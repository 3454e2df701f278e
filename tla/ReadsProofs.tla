---------------------------- MODULE ReadsProofs -----------------------------
(***************************************************************************)
(* For any number of requests, keys, writes and ticks: types, the          *)
(* freshness of cached answers, and what an update of an employee leaves   *)
(* alone.                                                                  *)
(***************************************************************************)
EXTENDS Reads, TLAPS

-----------------------------------------------------------------------------
(* The cache: nothing that is stored, or may still be stored, is older than *)
(* the floor of its key.                                                   *)

EntriesAboveFloor == \A k \in Key : entry[k] # None => entry[k].val >= floor[k]

FlightsAboveFloor ==
  \A r \in Reader : Active(r) /\ reader[r].val # None => reader[r].val >= floor[reader[r].key]

FloorsRise ==
  /\ \A k \in Key : floor[k] <= writes
  /\ \A r \in Reader : reader[r] # Idle => reader[r].floor <= floor[reader[r].key]

Landed == \A r \in Reader : reader[r].stage \in {"landed", "done"} => reader[r].val # None

CInv ==
  /\ CacheTypeOK
  /\ EntriesAboveFloor
  /\ FlightsAboveFloor
  /\ FloorsRise
  /\ Landed
  /\ AnswersAreFresh

\* Every step of the composition is one of these to the cache.
CacheNext ==
  \/ \E k \in Key, n \in Write : n <= writes /\ Invalidate(k, n)
  \/ Commit
  \/ \E r \in Reader, k \in Key : Hit(r, k)
  \/ \E r \in Reader, k \in Key : Miss(r, k)
  \/ \E k \in Key : Query(k)
  \/ \E k \in Key : FlightFails(k)
  \/ \E k \in Key : Land(k)
  \/ \E r \in Reader : Store(r)
  \/ \E k \in Key : Sweep(k)
  \/ Tick

LEMMA InitCInv == CacheInit => CInv
  BY CacheAssumption
     DEF CacheInit, CInv, CacheTypeOK, EntriesAboveFloor, FlightsAboveFloor, FloorsRise, Landed,
         AnswersAreFresh, Write, Idle, Waits, Active

LEMMA InvalidateCInv ==
  ASSUME CInv, NEW k \in Key, NEW n \in Write, n <= writes, Invalidate(k, n)
  PROVE  CInv'
<1>1. floor' \in [Key -> Write]
  BY DEF Invalidate, Raised, CInv, CacheTypeOK
<1>2. CacheTypeOK'
  BY <1>1 DEF Invalidate, CInv, CacheTypeOK, Waits
<1>3. \A j \in Key : floor[j] <= floor'[j] /\ floor'[j] <= writes
  BY CacheAssumption DEF Invalidate, Raised, CInv, CacheTypeOK, FloorsRise, Write
<1>4. EntriesAboveFloor'
  <2>1. ASSUME NEW j \in Key, entry'[j] # None
        PROVE  j # k /\ floor'[j] = floor[j] /\ entry'[j] = entry[j]
    BY <2>1 DEF Invalidate, Raised, CInv, CacheTypeOK
  <2> QED
    BY <2>1 DEF CInv, EntriesAboveFloor
<1>5. FlightsAboveFloor'
  <2>1. ASSUME NEW r \in Reader, Active(r), reader[r].val # None
        PROVE  reader[r].val >= floor'[reader[r].key]
    <3>1. reader[r].key \in Key /\ reader[r].val \in Nat
      BY <2>1 DEF CInv, CacheTypeOK, Active, Request, Idle, Write
    <3>2. reader[r].val >= floor[reader[r].key]
      BY <2>1 DEF CInv, FlightsAboveFloor
    <3>3. CASE reader[r].key = k /\ ~Older(k, n) /\ floor'[k] = n
      BY <2>1, <3>1, <3>3 DEF Older, Write
    <3>4. CASE floor'[reader[r].key] = floor[reader[r].key]
      BY <3>2, <3>4
    <3> QED
      BY <3>1, <3>3, <3>4 DEF Invalidate, Raised, CInv, CacheTypeOK
  <2> QED
    BY <2>1 DEF Invalidate, FlightsAboveFloor, Active
<1>6. FloorsRise'
  <2>1. ASSUME NEW r \in Reader, reader[r] # Idle
        PROVE  reader[r].floor <= floor'[reader[r].key]
    <3>1. reader[r].key \in Key /\ reader[r].floor \in Nat
      BY <2>1 DEF CInv, CacheTypeOK, Request, Write
    <3> QED
      BY <1>1, <1>3, <2>1, <3>1 DEF CInv, FloorsRise, CacheTypeOK, Write
  <2> QED
    BY <1>3, <2>1 DEF Invalidate, FloorsRise
<1> QED
  BY <1>2, <1>4, <1>5, <1>6 DEF Invalidate, CInv, Landed, AnswersAreFresh

LEMMA ArriveType ==
  ASSUME CInv, NEW k \in Key, NEW v \in Write \cup {None}, NEW st \in {"waiting", "done"}
  PROVE  Arrive(k, st, v) \in Request
  BY DEF CInv, CacheTypeOK, Arrive, Request

LEMMA HitCInv ==
  ASSUME CInv, NEW r \in Reader, NEW k \in Key, Hit(r, k)
  PROVE  CInv'
<1> DEFINE a == Arrive(k, "done", entry[k].val)
<1>1. entry[k] \in Entry /\ entry[k].val \in Write /\ entry[k].val >= floor[k]
  BY DEF Hit, Fresh, CInv, CacheTypeOK, EntriesAboveFloor, Entry
<1>2. /\ a \in Request /\ a.stage = "done" /\ a.val = entry[k].val /\ a.key = k
      /\ a.floor = floor[k]
  BY <1>1, ArriveType DEF Arrive
<1>3. /\ reader' = [reader EXCEPT ![r] = a]
      /\ UNCHANGED <<now, writes, wrote, entry, flight, floor>>
  BY DEF Hit
<1>4. reader[r] = Idle /\ None \notin Write
  BY CacheAssumption DEF Hit, Write
<1> HIDE DEF a
<1>5. CacheTypeOK'
  BY <1>2, <1>3, <1>4 DEF CInv, CacheTypeOK, Waits, Idle
<1>6. \A q \in Reader : reader'[q] = IF q = r THEN a ELSE reader[q]
  BY <1>3 DEF CInv, CacheTypeOK
<1> QED
  BY <1>1, <1>2, <1>3, <1>4, <1>5, <1>6
     DEF CInv, CacheTypeOK, EntriesAboveFloor, FlightsAboveFloor, FloorsRise, Landed,
         AnswersAreFresh, Active, Write

LEMMA MissCInv ==
  ASSUME CInv, NEW r \in Reader, NEW k \in Key, Miss(r, k)
  PROVE  CInv'
<1> DEFINE a == Arrive(k, "waiting", None)
<1>1. /\ a \in Request /\ a.stage = "waiting" /\ a.val = None /\ a.key = k
      /\ a.floor = floor[k]
  BY ArriveType DEF Arrive
<1>2. /\ reader' = [reader EXCEPT ![r] = a]
      /\ entry' = [entry EXCEPT ![k] = None]
      /\ flight' = [flight EXCEPT ![k] = IF flight[k] = None THEN r ELSE flight[k]]
      /\ UNCHANGED <<now, writes, wrote, floor>>
  BY DEF Miss
<1>3. reader[r] = Idle /\ None \notin Write /\ None \notin Reader
  BY CacheAssumption DEF Miss, Write
<1> HIDE DEF a
<1>4. \A q \in Reader : reader'[q] = IF q = r THEN a ELSE reader[q]
  BY <1>2 DEF CInv, CacheTypeOK
<1>5. \A j \in Key : flight'[j] = IF j = k /\ flight[k] = None THEN r ELSE flight[j]
  BY <1>2 DEF CInv, CacheTypeOK
<1>6. CacheTypeOK'
  <2>1. \A j \in Key : flight'[j] # None => Waits(flight[j], j)'
    <3> SUFFICES ASSUME NEW j \in Key, flight'[j] # None
                 PROVE  reader'[flight'[j]].stage = "waiting" /\ reader'[flight'[j]].key = j
      BY DEF Waits
    <3>1. CASE j = k /\ flight[k] = None
      BY <1>1, <1>4, <1>5, <3>1
    <3>2. CASE ~(j = k /\ flight[k] = None)
      BY <1>3, <1>4, <1>5, <3>2 DEF CInv, CacheTypeOK, Waits, Idle
    <3> QED
      BY <3>1, <3>2
  <2>2. \A q \in Reader, j \in Key : Waits(q, j)' => flight'[j] # None
    BY <1>1, <1>3, <1>4, <1>5 DEF CInv, CacheTypeOK, Waits
  <2>3. /\ reader' \in [Reader -> Request \cup {Idle}]
        /\ entry' \in [Key -> Entry \cup {None}]
        /\ flight' \in [Key -> Reader \cup {None}]
    BY <1>1, <1>2 DEF CInv, CacheTypeOK
  <2> QED
    BY <1>2, <2>1, <2>2, <2>3 DEF CInv, CacheTypeOK
<1> QED
  BY <1>1, <1>2, <1>3, <1>4, <1>6
     DEF CInv, CacheTypeOK, EntriesAboveFloor, FlightsAboveFloor, FloorsRise, Landed,
         AnswersAreFresh, Active, Write

\* The leader of a flight is a reader that waits.
LEMMA LeaderWaits ==
  ASSUME CInv, NEW k \in Key, flight[k] # None
  PROVE  /\ flight[k] \in Reader /\ Waits(flight[k], k) /\ Active(flight[k])
         /\ reader[flight[k]] \in Request
  BY DEF CInv, CacheTypeOK, Waits, Active, Idle

LEMMA QueryCInv ==
  ASSUME CInv, NEW k \in Key, Query(k)
  PROVE  CInv'
<1>1. PICK l \in Reader : l = flight[k] /\ Waits(l, k) /\ reader[l] \in Request
  BY LeaderWaits DEF Query, Loading
<1>2. /\ reader' = [reader EXCEPT ![l] = [reader[l] EXCEPT !.val = writes]]
      /\ UNCHANGED <<now, writes, wrote, entry, flight, floor>>
  BY <1>1 DEF Query
<1>3. writes \in Write /\ None \notin Write
  BY CacheAssumption DEF CInv, CacheTypeOK, Write
<1>4. PICK a \in Request : /\ a = [reader[l] EXCEPT !.val = writes]
                           /\ a.val = writes /\ a.key = k /\ a.stage = "waiting"
                           /\ a.floor = reader[l].floor
  <2>1. [reader[l] EXCEPT !.val = writes] \in Request
    BY <1>1, <1>3 DEF Request
  <2> QED
    BY <1>1, <2>1 DEF Request, Waits
<1>5. \A q \in Reader : reader'[q] = IF q = l THEN a ELSE reader[q]
  BY <1>2, <1>4 DEF CInv, CacheTypeOK
<1>6. reader' \in [Reader -> Request \cup {Idle}]
  BY <1>2, <1>4 DEF CInv, CacheTypeOK
<1>7. CacheTypeOK'
  BY <1>1, <1>2, <1>4, <1>5, <1>6 DEF CInv, CacheTypeOK, Waits
<1>8. floor[k] <= writes
  BY DEF CInv, FloorsRise
<1>9. reader[l] # Idle
  BY <1>1 DEF Waits, Idle
<1> QED
  BY <1>1, <1>2, <1>3, <1>4, <1>5, <1>7, <1>8, <1>9
     DEF CInv, CacheTypeOK, EntriesAboveFloor, FlightsAboveFloor, FloorsRise, Landed,
         AnswersAreFresh, Active, Waits, Write

LEMMA LandCInv ==
  ASSUME CInv, NEW k \in Key, Land(k)
  PROVE  CInv'
<1>1. PICK v \in Write : v = reader[flight[k]].val /\ v >= floor[k]
  BY LeaderWaits DEF Land, CInv, FlightsAboveFloor, Request, Waits
<1>2. /\ \A q \in Reader : reader'[q] = IF Waits(q, k)
                             THEN [reader[q] EXCEPT !.stage = "landed", !.val = v] ELSE reader[q]
      /\ UNCHANGED <<now, writes, wrote, entry, floor>>
  BY <1>1 DEF Land
<1>3. \A j \in Key : flight'[j] = IF j = k THEN None ELSE flight[j]
  BY DEF Land, CInv, CacheTypeOK
<1>4. ASSUME NEW q \in Reader, Waits(q, k)
      PROVE  /\ reader'[q] \in Request
             /\ reader'[q].stage = "landed"
             /\ reader'[q].val = v
             /\ reader'[q].key = k
             /\ reader'[q].floor = reader[q].floor
             /\ reader[q] # Idle
  <2>1. reader[q] \in Request /\ reader[q] # Idle /\ reader[q].key = k
    BY <1>4 DEF CInv, CacheTypeOK, Waits, Idle
  <2>2. reader'[q] = [reader[q] EXCEPT !.stage = "landed", !.val = v]
    BY <1>2, <1>4
  <2> QED
    BY <2>1, <2>2 DEF Request
<1>5. None \notin Write
  BY CacheAssumption DEF Write
<1>6. CacheTypeOK'
  <2>1. /\ reader' \in [Reader -> Request \cup {Idle}]
        /\ flight' \in [Key -> Reader \cup {None}]
    BY <1>2, <1>3, <1>4 DEF Land, CInv, CacheTypeOK
  <2>2. ASSUME NEW j \in Key, flight'[j] # None
        PROVE  Waits(flight[j], j)'
    <3>1. PICK l \in Reader : j # k /\ flight'[j] = l /\ flight[j] = l /\ Waits(l, j)
      BY <1>3, <2>2 DEF CInv, CacheTypeOK
    <3>2. reader'[l] = reader[l]
      BY <1>2, <3>1 DEF Waits
    <3> QED
      BY <3>1, <3>2 DEF Waits
  <2>3. ASSUME NEW q \in Reader, NEW j \in Key, Waits(q, j)'
        PROVE  flight'[j] # None
    <3>1. reader'[q].stage = "waiting" /\ reader'[q].key = j
      BY <2>3 DEF Waits
    <3>2. ~Waits(q, k) /\ reader'[q] = reader[q]
      BY <1>2, <1>4, <3>1
    <3>3. j # k /\ flight[j] # None
      BY <3>1, <3>2 DEF Waits, CInv, CacheTypeOK
    <3> QED
      BY <1>3, <3>3
  <2> QED
    BY <1>2, <2>1, <2>2, <2>3 DEF CInv, CacheTypeOK
<1>7. FlightsAboveFloor'
  <2> SUFFICES ASSUME NEW q \in Reader, Active(q)', reader'[q].val # None
               PROVE  reader'[q].val >= floor[reader'[q].key]
    BY <1>2 DEF FlightsAboveFloor
  <2> QED
    BY <1>1, <1>2, <1>4 DEF CInv, FlightsAboveFloor, Active
<1>8. FloorsRise'
  <2>1. ASSUME NEW q \in Reader, reader'[q] # Idle
        PROVE  reader'[q].floor <= floor[reader'[q].key]
    <3>1. CASE Waits(q, k)
      BY <1>2, <1>4, <3>1 DEF CInv, FloorsRise, Waits
    <3>2. CASE ~Waits(q, k)
      BY <1>2, <2>1, <3>2 DEF CInv, FloorsRise
    <3> QED
      BY <3>1, <3>2
  <2> QED
    BY <1>2, <2>1 DEF CInv, FloorsRise
<1>9. Landed'
  BY <1>1, <1>2, <1>4, <1>5 DEF CInv, Landed
<1>10. AnswersAreFresh'
  BY <1>2, <1>4 DEF CInv, AnswersAreFresh
<1> QED
  BY <1>2, <1>6, <1>7, <1>8, <1>9, <1>10 DEF CInv, EntriesAboveFloor

LEMMA FlightFailsCInv ==
  ASSUME CInv, NEW k \in Key, FlightFails(k)
  PROVE  CInv'
<1>1. /\ \A q \in Reader : reader'[q] = IF Waits(q, k)
                             THEN [reader[q] EXCEPT !.stage = "failed"] ELSE reader[q]
      /\ UNCHANGED <<now, writes, wrote, entry, floor>>
  BY DEF FlightFails
<1>2. \A j \in Key : flight'[j] = IF j = k THEN None ELSE flight[j]
  BY DEF FlightFails, CInv, CacheTypeOK
<1>3. ASSUME NEW q \in Reader, Waits(q, k)
      PROVE  /\ reader'[q] \in Request
             /\ reader'[q].stage = "failed"
             /\ reader'[q].key = reader[q].key
             /\ reader'[q].floor = reader[q].floor
             /\ reader[q] # Idle
  <2>1. reader[q] \in Request /\ reader[q] # Idle
    BY <1>3 DEF CInv, CacheTypeOK, Waits, Idle
  <2>2. reader'[q] = [reader[q] EXCEPT !.stage = "failed"]
    BY <1>1, <1>3
  <2> QED
    BY <2>1, <2>2 DEF Request
<1>4. CacheTypeOK'
  <2>1. /\ reader' \in [Reader -> Request \cup {Idle}]
        /\ flight' \in [Key -> Reader \cup {None}]
    BY <1>1, <1>2, <1>3 DEF FlightFails, CInv, CacheTypeOK
  <2>2. ASSUME NEW j \in Key, flight'[j] # None
        PROVE  Waits(flight[j], j)'
    <3>1. PICK l \in Reader : j # k /\ flight'[j] = l /\ flight[j] = l /\ Waits(l, j)
      BY <1>2, <2>2 DEF CInv, CacheTypeOK
    <3>2. reader'[l] = reader[l]
      BY <1>1, <3>1 DEF Waits
    <3> QED
      BY <3>1, <3>2 DEF Waits
  <2>3. ASSUME NEW q \in Reader, NEW j \in Key, Waits(q, j)'
        PROVE  flight'[j] # None
    <3>1. reader'[q].stage = "waiting" /\ reader'[q].key = j
      BY <2>3 DEF Waits
    <3>2. ~Waits(q, k) /\ reader'[q] = reader[q]
      BY <1>1, <1>3, <3>1
    <3>3. j # k /\ flight[j] # None
      BY <3>1, <3>2 DEF Waits, CInv, CacheTypeOK
    <3> QED
      BY <1>2, <3>3
  <2> QED
    BY <1>1, <2>1, <2>2, <2>3 DEF CInv, CacheTypeOK
<1> QED
  BY <1>1, <1>3, <1>4
     DEF CInv, CacheTypeOK, EntriesAboveFloor, FlightsAboveFloor, FloorsRise, Landed,
         AnswersAreFresh, Active, Write

LEMMA StoreCInv ==
  ASSUME CInv, NEW r \in Reader, Store(r)
  PROVE  CInv'
<1>1. /\ reader[r] \in Request /\ reader[r].stage = "landed" /\ reader[r] # Idle
      /\ reader[r].key \in Key /\ reader[r].val \in Write
      /\ reader[r].val >= floor[reader[r].key]
      /\ reader[r].floor <= floor[reader[r].key]
      /\ reader[r].floor \in Nat /\ floor[reader[r].key] \in Nat
  BY DEF Store, CInv, CacheTypeOK, Idle, Request, Landed, FlightsAboveFloor, FloorsRise, Active,
         Write
<1>2. PICK e \in Entry : e = [val |-> reader[r].val, expires |-> now + TTL]
  <2>1. now + TTL \in 0..(MaxTime + TTL)
    BY CacheAssumption DEF CInv, CacheTypeOK
  <2> QED
    BY <1>1, <2>1 DEF Entry
<1>3. PICK a \in Request : /\ a = [reader[r] EXCEPT !.stage = "done"]
                           /\ a.stage = "done" /\ a.val = reader[r].val
                           /\ a.key = reader[r].key /\ a.floor = reader[r].floor
  <2>1. [reader[r] EXCEPT !.stage = "done"] \in Request
    BY <1>1 DEF Request
  <2> QED
    BY <1>1, <2>1 DEF Request
<1>4. /\ entry' = [entry EXCEPT ![reader[r].key] = e]
      /\ reader' = [reader EXCEPT ![r] = a]
      /\ UNCHANGED <<now, writes, wrote, flight, floor>>
  BY <1>2, <1>3 DEF Store
<1>5. \A q \in Reader : reader'[q] = IF q = r THEN a ELSE reader[q]
  BY <1>4 DEF CInv, CacheTypeOK
<1>6. CacheTypeOK'
  <2>1. reader' \in [Reader -> Request \cup {Idle}] /\ entry' \in [Key -> Entry \cup {None}]
    BY <1>1, <1>4 DEF CInv, CacheTypeOK
  <2>2. \A q \in Reader, j \in Key : Waits(q, j)' <=> Waits(q, j)
    BY <1>1, <1>3, <1>5 DEF Waits
  <2>3. \A j \in Key : flight[j] # None => flight[j] \in Reader
    BY DEF CInv, CacheTypeOK
  <2>4. \A j \in Key : flight[j] # None => Waits(flight[j], j)'
    <3> SUFFICES ASSUME NEW j \in Key, flight[j] # None
                 PROVE  Waits(flight[j], j)'
      OBVIOUS
    <3>1. PICK l \in Reader : l = flight[j] /\ Waits(l, j)
      BY <2>3 DEF CInv, CacheTypeOK
    <3> QED
      BY <1>1, <1>4, <1>5, <3>1 DEF Waits
  <2> QED
    BY <1>4, <2>1, <2>2, <2>4 DEF CInv, CacheTypeOK
<1>7. EntriesAboveFloor'
  BY <1>1, <1>2, <1>4 DEF CInv, CacheTypeOK, EntriesAboveFloor
<1> QED
  BY <1>1, <1>3, <1>4, <1>5, <1>6, <1>7
     DEF CInv, FlightsAboveFloor, FloorsRise, Landed, AnswersAreFresh, Active, Write

LEMMA CommitCInv ==
  ASSUME CInv, Commit
  PROVE  CInv'
<1>1. writes' \in Write /\ writes <= writes' /\ writes \in Nat
  BY CacheAssumption DEF Commit, CInv, CacheTypeOK, Write
<1>2. CacheTypeOK'
  BY <1>1 DEF Commit, CInv, CacheTypeOK, Waits
<1>3. \A k \in Key : floor[k] \in Nat
  BY DEF CInv, CacheTypeOK, Write
<1>4. FloorsRise'
  BY <1>1, <1>3 DEF Commit, CInv, FloorsRise
<1> QED
  BY <1>2, <1>4
     DEF Commit, CInv, EntriesAboveFloor, FlightsAboveFloor, Landed, AnswersAreFresh, Active

LEMMA SweepCInv ==
  ASSUME CInv, NEW k \in Key, Sweep(k)
  PROVE  CInv'
  BY DEF Sweep, CInv, CacheTypeOK, Waits, EntriesAboveFloor, FlightsAboveFloor, FloorsRise,
         Landed, AnswersAreFresh, Active

LEMMA TickCInv ==
  ASSUME CInv, Tick
  PROVE  CInv'
<1>1. now' \in 0..MaxTime
  BY CacheAssumption DEF Tick, CInv, CacheTypeOK
<1> QED
  BY <1>1 DEF Tick, CInv, CacheTypeOK, Waits, EntriesAboveFloor, FlightsAboveFloor, FloorsRise,
              Landed, AnswersAreFresh, Active

LEMMA StepCInv == CInv /\ (CacheNext \/ UNCHANGED cacheVars) => CInv'
<1> SUFFICES ASSUME CInv, CacheNext \/ UNCHANGED cacheVars
             PROVE  CInv'
  OBVIOUS
<1>1. CASE UNCHANGED cacheVars
  BY <1>1 DEF cacheVars, CInv, CacheTypeOK, Waits, EntriesAboveFloor, FlightsAboveFloor,
              FloorsRise, Landed, AnswersAreFresh, Active
<1>2. CASE CacheNext
  BY <1>2, InvalidateCInv, CommitCInv, HitCInv, MissCInv, QueryCInv, FlightFailsCInv, LandCInv,
     StoreCInv, SweepCInv, TickCInv DEF CacheNext
<1> QED
  BY <1>1, <1>2

-----------------------------------------------------------------------------
(* The age of an answer: how long a value has been superseded when it is    *)
(* loaded, when it is stored and when it is found.                         *)

\* The write after v came no earlier than late before t, or has not come.
CurrentUntil(v, t, late) == v < writes => wrote[v + 1] + late >= t

Lasting ==
  \A r \in Reader : Active(r) => reader[r].began <= now /\ now <= reader[r].began + Slow

\* The leader of a flight loads what is current after it began; who joins it
\* may have begun up to Slow later.
ValuesRecent ==
  \A r \in Reader : Active(r) /\ reader[r].val # None =>
    /\ reader[r].stage = "waiting" => CurrentUntil(reader[r].val, reader[r].began, 0)
    /\ CurrentUntil(reader[r].val, reader[r].began, Slow)

EntriesRecent ==
  \A k \in Key : entry[k] # None =>
    /\ entry[k].expires <= now + TTL
    /\ CurrentUntil(entry[k].val, entry[k].expires, TTL + 2 * Slow)

Aged == Lasting /\ ValuesRecent /\ EntriesRecent

Answered(r) ==
  reader[r].stage # "done" /\ reader'[r].stage = "done" =>
    LET n == reader'[r].val
    IN n < writes => now - wrote[n + 1] <= TTL + 2 * Slow

StepAged == Aged' /\ \A r \in Reader : Answered(r)

LEMMA InitAged == CacheInit => Aged
  BY DEF CacheInit, Aged, Lasting, ValuesRecent, EntriesRecent, Idle, Active

LEMMA ClockTypes ==
  ASSUME CInv
  PROVE  /\ now \in Nat /\ writes \in Nat /\ TTL \in Nat /\ Slow \in Nat
         /\ None \notin Write
         /\ \A v \in Write : v \in Nat /\ (v < writes => wrote[v + 1] \in Nat)
         /\ \A k \in Key : entry[k] # None =>
              entry[k].val \in Write /\ entry[k].expires \in Nat
         /\ \A r \in Reader : Active(r) =>
              /\ reader[r] \in Request /\ reader[r].began \in Nat
              /\ reader[r].val # None => reader[r].val \in Write
  BY CacheAssumption DEF CInv, CacheTypeOK, Active, Idle, Request, Entry, Write

\* A step that answers nobody, and changes neither the clock nor the writes.
LEMMA QuietAged ==
  ASSUME CInv, Aged, UNCHANGED <<now, writes, wrote>>,
         \A k \in Key : entry'[k] # None => entry'[k] = entry[k],
         \A r \in Reader : \/ reader'[r] = reader[r]
                           \/ reader'[r].stage = "failed"
                           \/ /\ reader'[r].stage = "waiting" /\ reader'[r].val = None
                              /\ reader'[r].began = now
  PROVE  StepAged
<1>1. now <= now + Slow /\ now <= now
  BY ClockTypes
<1>2. Lasting'
  BY <1>1 DEF Aged, Lasting, Active
<1>3. ValuesRecent'
  BY DEF Aged, ValuesRecent, Active, CurrentUntil
<1>4. EntriesRecent'
  BY DEF Aged, EntriesRecent, CurrentUntil
<1>5. \A r \in Reader : Answered(r)
  BY DEF Answered
<1> QED
  BY <1>2, <1>3, <1>4, <1>5 DEF Aged, StepAged

LEMMA HitAged ==
  ASSUME CInv, Aged, NEW r \in Reader, NEW k \in Key, Hit(r, k)
  PROVE  StepAged
<1>1. /\ \A q \in Reader : q # r => reader'[q] = reader[q]
      /\ reader'[r] = Arrive(k, "done", entry[k].val)
      /\ UNCHANGED <<now, writes, wrote, entry>>
  BY DEF Hit, CInv, CacheTypeOK
<1>2. reader'[r].stage = "done" /\ reader'[r].val = entry[k].val
  BY <1>1 DEF Arrive
<1>3. Aged'
  BY <1>1, <1>2 DEF Aged, Lasting, ValuesRecent, EntriesRecent, Active, CurrentUntil
<1>4. ASSUME entry[k].val < writes
      PROVE  now - wrote[entry[k].val + 1] <= TTL + 2 * Slow
  <2>1. entry[k] # None /\ now <= entry[k].expires
    BY DEF Hit, Fresh
  <2>2. /\ entry[k].val \in Write /\ entry[k].expires \in Nat
        /\ wrote[entry[k].val + 1] \in Nat
    BY <1>4, <2>1, ClockTypes
  <2>3. wrote[entry[k].val + 1] + (TTL + 2 * Slow) >= entry[k].expires
    BY <1>4, <2>1 DEF Aged, EntriesRecent, CurrentUntil
  <2> QED
    BY <2>1, <2>2, <2>3, ClockTypes
<1> QED
  BY <1>1, <1>2, <1>3, <1>4 DEF StepAged, Answered

LEMMA QueryAged ==
  ASSUME CInv, Aged, NEW k \in Key, Query(k)
  PROVE  StepAged
<1>1. PICK l \in Reader : l = flight[k] /\ Waits(l, k) /\ Active(l) /\ reader[l] \in Request
  BY LeaderWaits DEF Query, Loading
<1>2. /\ \A q \in Reader : q # l => reader'[q] = reader[q]
      /\ reader'[l] = [reader[l] EXCEPT !.val = writes]
      /\ UNCHANGED <<now, writes, wrote, entry>>
  BY <1>1 DEF Query, CInv, CacheTypeOK
<1>3. /\ reader'[l].stage = "waiting" /\ reader'[l].val = writes
      /\ reader'[l].began = reader[l].began
  BY <1>1, <1>2 DEF Request, Waits
<1>4. writes \in Nat
  BY ClockTypes
<1>5. Lasting'
  BY <1>1, <1>2, <1>3 DEF Aged, Lasting, Active
<1>6. ValuesRecent'
  <2>1. \A v, t, late : CurrentUntil(v, t, late)' = CurrentUntil(v, t, late)
    BY <1>2 DEF CurrentUntil
  <2>2. \A t, late : CurrentUntil(writes, t, late)
    BY <1>4 DEF CurrentUntil
  <2> QED
    BY <1>2, <1>3, <2>1, <2>2 DEF Aged, ValuesRecent, Active
<1>7. EntriesRecent'
  BY <1>2 DEF Aged, EntriesRecent, CurrentUntil
<1> QED
  BY <1>2, <1>3, <1>5, <1>6, <1>7 DEF Aged, StepAged, Answered

\* The leader began at most Slow ago, and so did whoever joined it.
LEMMA LandAged ==
  ASSUME CInv, Aged, NEW k \in Key, Land(k)
  PROVE  StepAged
<1>1. PICK l \in Reader : l = flight[k] /\ Waits(l, k) /\ Active(l) /\ reader[l].val # None
  BY LeaderWaits DEF Land
<1>2. PICK v \in Write : v = reader[l].val
  BY <1>1, ClockTypes
<1>3. /\ \A q \in Reader : reader'[q] = IF Waits(q, k)
                             THEN [reader[q] EXCEPT !.stage = "landed", !.val = v] ELSE reader[q]
      /\ UNCHANGED <<now, writes, wrote, entry>>
  BY <1>1, <1>2 DEF Land
<1>4. ASSUME NEW q \in Reader, Waits(q, k)
      PROVE  /\ reader'[q].stage = "landed" /\ reader'[q].val = v
             /\ reader'[q].began = reader[q].began /\ Active(q)
             /\ CurrentUntil(v, reader[q].began, Slow)
  <2>1. Active(q) /\ reader[q] \in Request /\ reader[q].began \in Nat
    BY <1>4, ClockTypes DEF Waits, Active
  <2>2. reader'[q] = [reader[q] EXCEPT !.stage = "landed", !.val = v]
    BY <1>3, <1>4
  <2>3. /\ reader'[q].stage = "landed" /\ reader'[q].val = v
        /\ reader'[q].began = reader[q].began
    BY <2>1, <2>2 DEF Request
  <2>4. ASSUME v < writes PROVE wrote[v + 1] + Slow >= reader[q].began
    <3>1. wrote[v + 1] + 0 >= reader[l].began
      BY <1>1, <1>2, <2>4 DEF Aged, ValuesRecent, CurrentUntil, Waits
    <3>2. now <= reader[l].began + Slow /\ reader[q].began <= now
      BY <1>1, <2>1 DEF Aged, Lasting
    <3>3. wrote[v + 1] \in Nat /\ reader[l].began \in Nat
      BY <1>1, <2>4, ClockTypes
    <3> QED
      BY <2>1, <3>1, <3>2, <3>3, ClockTypes
  <2> QED
    BY <2>1, <2>3, <2>4 DEF CurrentUntil
<1>5. Lasting'
  BY <1>3, <1>4 DEF Aged, Lasting, Active
<1>6. ValuesRecent'
  <2>1. \A w, t, late : CurrentUntil(w, t, late)' = CurrentUntil(w, t, late)
    BY <1>3 DEF CurrentUntil
  <2> QED
    BY <1>3, <1>4, <2>1 DEF Aged, ValuesRecent, Active
<1>7. EntriesRecent'
  BY <1>3 DEF Aged, EntriesRecent, CurrentUntil
<1> QED
  BY <1>3, <1>4, <1>5, <1>6, <1>7 DEF Aged, StepAged, Answered

LEMMA StoreAged ==
  ASSUME CInv, Aged, NEW r \in Reader, Store(r)
  PROVE  StepAged
<1>1. Active(r) /\ reader[r].key \in Key /\ reader[r].val \in Write /\ reader[r] \in Request
  BY DEF Store, Active, CInv, CacheTypeOK, Landed, Idle, Request
<1>2. PICK v, e : v = reader[r].val /\ e = [val |-> v, expires |-> now + TTL]
  OBVIOUS
<1>3. /\ \A q \in Reader : q # r => reader'[q] = reader[q]
      /\ reader'[r] = [reader[r] EXCEPT !.stage = "done"]
      /\ \A k \in Key : entry'[k] = IF k = reader[r].key THEN e ELSE entry[k]
      /\ UNCHANGED <<now, writes, wrote>>
  BY <1>2 DEF Store, CInv, CacheTypeOK
<1>4. reader'[r].stage = "done" /\ reader'[r].val = v
  BY <1>1, <1>2, <1>3 DEF Request
<1>5. ASSUME v < writes
      PROVE  /\ wrote[v + 1] + (TTL + 2 * Slow) >= now + TTL
             /\ now - wrote[v + 1] <= TTL + 2 * Slow
  <2>1. wrote[v + 1] \in Nat /\ reader[r].began \in Nat
    BY <1>1, <1>2, <1>5, ClockTypes
  <2>2. wrote[v + 1] + Slow >= reader[r].began
    BY <1>1, <1>2, <1>5, ClockTypes DEF Aged, ValuesRecent, CurrentUntil
  <2>3. now <= reader[r].began + Slow
    BY <1>1 DEF Aged, Lasting
  <2> QED
    BY <2>1, <2>2, <2>3, ClockTypes
<1>6. EntriesRecent'
  <2>1. e.val = v /\ e.expires = now + TTL /\ now + TTL <= now + TTL
    BY <1>2, ClockTypes
  <2> QED
    BY <1>3, <1>5, <2>1 DEF Aged, EntriesRecent, CurrentUntil
<1>7. Lasting' /\ ValuesRecent'
  BY <1>3, <1>4 DEF Aged, Lasting, ValuesRecent, Active, CurrentUntil
<1> QED
  BY <1>3, <1>4, <1>5, <1>6, <1>7 DEF Aged, StepAged, Answered

\* What is current until now stays recent: the write comes at the clock.
LEMMA CommitAged ==
  ASSUME CInv, Aged, Commit
  PROVE  StepAged
<1>1. ASSUME NEW v \in Write, NEW t \in Nat, NEW late \in Nat, t <= now + late,
             CurrentUntil(v, t, late)
      PROVE  CurrentUntil(v, t, late)'
  <2>1. wrote' = [wrote EXCEPT ![writes + 1] = now] /\ writes' = writes + 1 /\ writes < MaxWrites
    BY DEF Commit
  <2>2. wrote \in [1..MaxWrites -> 0..MaxTime] /\ writes \in Nat /\ v \in Nat
    BY ClockTypes DEF CInv, CacheTypeOK
  <2>3. CASE v < writes
    <3>1. wrote'[v + 1] = wrote[v + 1]
      BY <2>1, <2>2, <2>3
    <3> QED
      BY <1>1, <2>3, <3>1 DEF CurrentUntil
  <2>4. CASE v = writes
    <3>1. wrote'[v + 1] = now
      BY <2>1, <2>2, <2>4, CacheAssumption
    <3> QED
      BY <1>1, <3>1 DEF CurrentUntil
  <2>5. CASE v > writes
    BY <2>1, <2>2, <2>5 DEF CurrentUntil
  <2> QED
    BY <2>2, <2>3, <2>4, <2>5
<1>2. UNCHANGED <<now, entry, reader>>
  BY DEF Commit
<1>3. Lasting'
  BY <1>2 DEF Aged, Lasting, Active
<1>4. ValuesRecent'
  <2> SUFFICES ASSUME NEW r \in Reader, Active(r), reader[r].val # None
               PROVE  /\ reader[r].stage = "waiting" =>
                           CurrentUntil(reader[r].val, reader[r].began, 0)'
                      /\ CurrentUntil(reader[r].val, reader[r].began, Slow)'
    BY <1>2 DEF ValuesRecent, Active, CurrentUntil
  <2>1. reader[r].val \in Write /\ reader[r].began \in Nat /\ reader[r].began <= now
    BY ClockTypes DEF Aged, Lasting
  <2>2. PICK v \in Write, t \in Nat : v = reader[r].val /\ t = reader[r].began /\ t <= now
    BY <2>1
  <2>3. t <= now + 0 /\ t <= now + Slow /\ 0 \in Nat /\ Slow \in Nat
    BY <2>2, ClockTypes
  <2>4. /\ reader[r].stage = "waiting" => CurrentUntil(v, t, 0)
        /\ CurrentUntil(v, t, Slow)
    BY <2>2 DEF Aged, ValuesRecent
  <2>5. /\ reader[r].stage = "waiting" => CurrentUntil(v, t, 0)'
        /\ CurrentUntil(v, t, Slow)'
    BY <1>1, <2>3, <2>4
  <2> QED
    BY <1>2, <2>2, <2>5 DEF CurrentUntil
<1>5. EntriesRecent'
  <2> SUFFICES ASSUME NEW k \in Key, entry[k] # None
               PROVE  /\ entry[k].expires <= now + TTL
                      /\ CurrentUntil(entry[k].val, entry[k].expires, TTL + 2 * Slow)'
    BY <1>2 DEF EntriesRecent, CurrentUntil
  <2>1. PICK v \in Write, t \in Nat :
          v = entry[k].val /\ t = entry[k].expires /\ t <= now + TTL
    BY ClockTypes DEF Aged, EntriesRecent
  <2>2. PICK late \in Nat : late = TTL + 2 * Slow /\ t <= now + late
    BY <2>1, ClockTypes
  <2>3. CurrentUntil(v, t, late)
    BY <2>1, <2>2 DEF Aged, EntriesRecent
  <2>4. CurrentUntil(v, t, late)'
    BY <1>1, <2>2, <2>3
  <2> QED
    BY <1>2, <2>1, <2>2, <2>4 DEF CurrentUntil
<1>6. \A r \in Reader : Answered(r)
  BY <1>2 DEF Answered
<1> QED
  BY <1>3, <1>4, <1>5, <1>6 DEF Aged, StepAged

\* Time passes only while no request is at its limit.
LEMMA TickAged ==
  ASSUME CInv, Aged, Tick
  PROVE  StepAged
<1>1. /\ now' = now + 1 /\ UNCHANGED <<writes, wrote, entry, reader>>
      /\ \A r \in Reader : Active(r) => now - reader[r].began < Slow
  BY DEF Tick
<1>2. Lasting'
  BY <1>1, ClockTypes DEF Aged, Lasting, Active
<1>3. ValuesRecent'
  BY <1>1 DEF Aged, ValuesRecent, Active, CurrentUntil
<1>4. EntriesRecent'
  BY <1>1, ClockTypes DEF Aged, EntriesRecent, CurrentUntil
<1>5. \A r \in Reader : Answered(r)
  BY <1>1 DEF Answered
<1> QED
  BY <1>2, <1>3, <1>4, <1>5 DEF Aged, StepAged

LEMMA CacheStepAged ==
  ASSUME CInv, Aged, CacheNext \/ UNCHANGED cacheVars
  PROVE  StepAged
<1>1. CASE UNCHANGED cacheVars
  BY <1>1, QuietAged DEF cacheVars
<1>2. ASSUME NEW k \in Key, NEW n \in Write, Invalidate(k, n) PROVE StepAged
  <2>1. \A j \in Key : entry'[j] # None => entry'[j] = entry[j]
    BY <1>2 DEF Invalidate, CInv, CacheTypeOK
  <2> QED
    BY <1>2, <2>1, QuietAged DEF Invalidate
<1>3. ASSUME NEW r \in Reader, NEW k \in Key, Miss(r, k) PROVE StepAged
  <2>1. \A j \in Key : entry'[j] # None => entry'[j] = entry[j]
    BY <1>3 DEF Miss, CInv, CacheTypeOK
  <2>2. /\ \A q \in Reader : q # r => reader'[q] = reader[q]
        /\ reader'[r] = Arrive(k, "waiting", None)
    BY <1>3 DEF Miss, CInv, CacheTypeOK
  <2>3. /\ reader'[r].stage = "waiting" /\ reader'[r].val = None
        /\ reader'[r].began = now
    BY <2>2 DEF Arrive
  <2> QED
    BY <1>3, <2>1, <2>2, <2>3, QuietAged DEF Miss
<1>4. ASSUME NEW k \in Key, FlightFails(k) PROVE StepAged
  <2>1. \A q \in Reader : reader'[q] = reader[q] \/ reader'[q].stage = "failed"
    <3> SUFFICES ASSUME NEW q \in Reader, Waits(q, k) PROVE reader'[q].stage = "failed"
      BY <1>4 DEF FlightFails
    <3>1. reader[q] \in Request
      BY ClockTypes DEF Waits, Active
    <3> QED
      BY <1>4, <3>1 DEF FlightFails, Request
  <2> QED
    BY <1>4, <2>1, QuietAged DEF FlightFails
<1>5. ASSUME NEW k \in Key, Sweep(k) PROVE StepAged
  <2>1. \A j \in Key : entry'[j] # None => entry'[j] = entry[j]
    BY <1>5 DEF Sweep, CInv, CacheTypeOK
  <2> QED
    BY <1>5, <2>1, QuietAged DEF Sweep
<1> QED
  BY <1>1, <1>2, <1>3, <1>4, <1>5, HitAged, QueryAged, LandAged, StoreAged, CommitAged, TickAged
     DEF CacheNext

-----------------------------------------------------------------------------
(* The employees: a copy that is still of the row's version has the row's   *)
(* wage, and what statements without a version write, unless one came.     *)

CopiesKept ==
  \A u \in Updater :
    upd[u].stage = "read" =>
      LET row == staff[Typed[u].of]  copy == upd[u].copy
      IN /\ copy.version <= row.version
         /\ copy.version = row.version =>
              /\ copy.wage = row.wage
              /\ ~upd[u].overtaken => copy.shift = row.shift /\ copy.active = row.active

SInv == StaffTypeOK /\ CopiesKept

\* Every step of the composition is one of these to the employees.
StaffNext ==
  \/ \E u \in Updater : \/ ReadRow(u) \/ WriteRow(u) \/ Conflict(u) \/ WriteRefused(u)
                        \/ WriteShift(u) \/ ShiftRefused(u)
  \/ \E e \in Employee, s \in Shift : AssignShift(e, s)
  \/ \E e \in Employee : SoftDelete(e)
  \/ \E s \in Shift : DeleteShift(s)
  \/ \E e \in Employee, s \in Shift \cup {NoShift} : Marked(e, s)

LEMMA InitSInv == StaffInit => SInv
<1> SUFFICES ASSUME StaffInit PROVE SInv
  OBVIOUS
<1>1. 1 \in 1..MaxVersion
  BY StaffAssumption
<1>2. \A e \in Employee : staff[e] \in Row
  BY <1>1 DEF StaffInit, Row
<1>3. staff \in [Employee -> Row]
  BY <1>2 DEF StaffInit
<1>4. StaffTypeOK
  BY <1>2, <1>3 DEF StaffInit, StaffTypeOK, Row
<1>5. CopiesKept
  BY DEF StaffInit, CopiesKept, NoUpdate
<1> QED
  BY <1>4, <1>5 DEF SInv

\* What is read of an update that runs is a row; an update that does not is idle.
LEMMA RunningUpdate ==
  ASSUME SInv, NEW u \in Updater, upd[u].stage # "idle"
  PROVE  /\ upd[u] \in Update /\ upd[u].copy \in Row /\ Typed[u].of \in Employee
         /\ staff[Typed[u].of] \in Row
  BY StaffAssumption DEF SInv, StaffTypeOK, Update, NoUpdate

\* A step that only moves an update out of "read".
LEMMA PutSInv ==
  ASSUME SInv, NEW u \in Updater, NEW st \in {"written", "conflict", "failed"},
         upd[u].stage # "idle", Put(u, st), UNCHANGED <<staff, shifts, mark>>
  PROVE  SInv'
<1>1. upd[u] \in Update
  BY RunningUpdate
<1>2. PICK a \in Update : a = [upd[u] EXCEPT !.stage = st] /\ a.stage = st
  <2>1. [upd[u] EXCEPT !.stage = st] \in Update
    BY <1>1 DEF Update
  <2> QED
    BY <1>1, <2>1 DEF Update
<1>3. upd' = [upd EXCEPT ![u] = a]
  BY <1>2 DEF Put
<1>4. StaffTypeOK'
  BY <1>3 DEF SInv, StaffTypeOK
<1>5. \A v \in Updater : upd'[v] = IF v = u THEN a ELSE upd[v]
  BY <1>3 DEF SInv, StaffTypeOK
<1>6. CopiesKept'
  BY <1>2, <1>5 DEF SInv, CopiesKept
<1> QED
  BY <1>4, <1>6 DEF SInv

LEMMA ReadRowSInv ==
  ASSUME SInv, NEW u \in Updater, ReadRow(u)
  PROVE  SInv'
<1>1. Typed[u].of \in Employee /\ staff[Typed[u].of] \in Row
  BY StaffAssumption DEF SInv, StaffTypeOK
<1>2. PICK a \in Update : /\ a = [stage |-> "read", copy |-> staff[Typed[u].of],
                                 overtaken |-> FALSE]
                          /\ a.copy = staff[Typed[u].of]
  <2>1. [stage |-> "read", copy |-> staff[Typed[u].of], overtaken |-> FALSE] \in Update
    BY <1>1 DEF Update
  <2> QED
    BY <2>1
<1>3. upd' = [upd EXCEPT ![u] = a] /\ UNCHANGED <<staff, shifts, mark>>
  BY <1>2 DEF ReadRow
<1>4. StaffTypeOK'
  BY <1>3 DEF SInv, StaffTypeOK
<1>5. \A v \in Updater : upd'[v] = IF v = u THEN a ELSE upd[v]
  BY <1>3 DEF SInv, StaffTypeOK
<1>6. staff[Typed[u].of].version \in Nat
  BY <1>1 DEF Row
<1>7. CopiesKept'
  BY <1>2, <1>3, <1>5, <1>6 DEF SInv, CopiesKept
<1> QED
  BY <1>4, <1>7 DEF SInv

LEMMA WriteRowSInv ==
  ASSUME SInv, NEW u \in Updater, WriteRow(u)
  PROVE  SInv'
<1> DEFINE e == Typed[u].of
<1>1. /\ upd[u] \in Update /\ upd[u].copy \in Row /\ e \in Employee /\ staff[e] \in Row
      /\ Typed[u].wage \in Wage \cup {Blank}
  BY RunningUpdate, StaffAssumption DEF WriteRow
<1>2. PICK w \in Wage :
        Merged(u) = [upd[u].copy EXCEPT !.wage = w, !.version = staff[e].version + 1]
  BY <1>1 DEF Merged, Row
<1>3. PICK row \in Row : /\ row = Merged(u) /\ row.version = staff[e].version + 1
                         /\ row.shift = upd[u].copy.shift
  <2>1. staff[e].version + 1 \in 1..MaxVersion
    BY <1>1, StaffAssumption DEF WriteRow, Current, Row
  <2> QED
    BY <1>1, <1>2, <2>1 DEF Row
<1>4. PICK a \in Update : a = [upd[u] EXCEPT !.stage = "written"] /\ a.stage = "written"
  <2>1. [upd[u] EXCEPT !.stage = "written"] \in Update
    BY <1>1 DEF Update
  <2> QED
    BY <1>1, <2>1 DEF Update
<1>5. /\ staff' = [staff EXCEPT ![e] = row] /\ upd' = [upd EXCEPT ![u] = a]
      /\ UNCHANGED <<shifts, mark>>
  BY <1>3, <1>4 DEF WriteRow, Put
<1>6. /\ \A v \in Updater : upd'[v] = IF v = u THEN a ELSE upd[v]
      /\ \A d \in Employee : staff'[d] = IF d = e THEN row ELSE staff[d]
  BY <1>5 DEF SInv, StaffTypeOK
<1>7. StaffTypeOK'
  <2>1. row.shift \in shifts \cup {NoShift}
    BY <1>3 DEF WriteRow, Valid
  <2> QED
    BY <1>5, <1>6, <2>1 DEF SInv, StaffTypeOK
<1>8. CopiesKept'
  <2>1. ASSUME NEW v \in Updater, upd'[v].stage = "read"
        PROVE  /\ v # u /\ upd'[v] = upd[v] /\ Typed[v].of \in Employee
               /\ upd[v].copy.version \in Nat /\ staff[Typed[v].of].version \in Nat
               /\ upd[v].copy.version <= staff[Typed[v].of].version
    <3>1. v # u /\ upd'[v] = upd[v]
      BY <1>4, <1>6, <2>1
    <3>2. upd[v].copy \in Row /\ Typed[v].of \in Employee /\ staff[Typed[v].of] \in Row
      BY <2>1, <3>1, RunningUpdate
    <3> QED
      BY <2>1, <3>1, <3>2 DEF SInv, CopiesKept, Row
  <2>2. ASSUME NEW v \in Updater, upd'[v].stage = "read", Typed[v].of = e
        PROVE  upd'[v].copy.version < staff'[e].version /\ staff'[e].version \in Nat
               /\ upd'[v].copy.version \in Nat
    BY <1>1, <1>3, <1>6, <2>1, <2>2
  <2>3. ASSUME NEW v \in Updater, upd'[v].stage = "read", Typed[v].of # e
        PROVE  staff'[Typed[v].of] = staff[Typed[v].of]
    BY <1>6, <2>1, <2>3
  <2> QED
    BY <2>1, <2>2, <2>3 DEF SInv, CopiesKept
<1> QED
  BY <1>7, <1>8 DEF SInv

\* A statement without a version, which leaves the wages and the versions:
\* it overtakes the updates of the employees whose rows it changes.
LEMMA OvertakeSInv ==
  ASSUME SInv, StaffTypeOK',
         NEW E \in SUBSET Employee, Overtake(E),
         \A e \in Employee : /\ staff'[e].wage = staff[e].wage
                             /\ staff'[e].version = staff[e].version
                             /\ e \notin E => staff'[e] = staff[e]
  PROVE  SInv'
<1> SUFFICES ASSUME NEW u \in Updater, upd'[u].stage = "read"
             PROVE  LET row == staff'[Typed[u].of]  copy == upd'[u].copy
                    IN /\ copy.version <= row.version
                       /\ copy.version = row.version =>
                            /\ copy.wage = row.wage
                            /\ ~upd'[u].overtaken =>
                                 copy.shift = row.shift /\ copy.active = row.active
  BY DEF SInv, CopiesKept
<1>1. Typed[u].of \in Employee
  BY StaffAssumption
<1>2. upd'[u] = IF upd[u].stage = "read" /\ Typed[u].of \in E
                THEN [upd[u] EXCEPT !.overtaken = TRUE] ELSE upd[u]
  BY DEF Overtake
<1>3. CASE upd[u].stage = "read" /\ Typed[u].of \in E
  <2>1. upd[u] \in Update
    BY <1>3, RunningUpdate
  <2>2. upd'[u].copy = upd[u].copy /\ upd'[u].overtaken = TRUE
    BY <1>2, <1>3, <2>1 DEF Update
  <2> QED
    BY <1>1, <1>3, <2>2 DEF SInv, CopiesKept
<1>4. CASE ~(upd[u].stage = "read" /\ Typed[u].of \in E)
  <2>1. upd'[u] = upd[u]
    BY <1>2, <1>4
  <2>2. upd[u].stage = "read" /\ staff'[Typed[u].of] = staff[Typed[u].of]
    BY <1>1, <1>4, <2>1
  <2> QED
    BY <2>1, <2>2 DEF SInv, CopiesKept
<1> QED
  BY <1>3, <1>4

\* What Overtake leaves of the updates is typed.
LEMMA OvertakeType ==
  ASSUME SInv, NEW E \in SUBSET Employee, Overtake(E)
  PROVE  upd' \in [Updater -> Update \cup {NoUpdate}]
<1>1. ASSUME NEW u \in Updater, upd[u].stage = "read"
      PROVE  [upd[u] EXCEPT !.overtaken = TRUE] \in Update
  BY <1>1, RunningUpdate DEF Update
<1> QED
  BY <1>1 DEF Overtake, SInv, StaffTypeOK

LEMMA AssignShiftSInv ==
  ASSUME SInv, NEW e \in Employee, NEW s \in Shift, AssignShift(e, s)
  PROVE  SInv'
<1>1. PICK row \in Row : /\ row = [staff[e] EXCEPT !.shift = s] /\ row.shift = s
                         /\ row.wage = staff[e].wage /\ row.version = staff[e].version
  <2>1. staff[e] \in Row
    BY DEF SInv, StaffTypeOK
  <2>2. [staff[e] EXCEPT !.shift = s] \in Row
    BY <2>1 DEF Row
  <2> QED
    BY <2>1, <2>2 DEF Row
<1>2. /\ staff' = [staff EXCEPT ![e] = row] /\ Overtake({e}) /\ s \in shifts
      /\ UNCHANGED <<shifts, mark>>
  BY <1>1 DEF AssignShift
<1>3. \A d \in Employee : staff'[d] = IF d = e THEN row ELSE staff[d]
  BY <1>2 DEF SInv, StaffTypeOK
<1>4. StaffTypeOK'
  BY <1>1, <1>2, <1>3, OvertakeType DEF SInv, StaffTypeOK
<1> QED
  BY <1>1, <1>2, <1>3, <1>4, OvertakeSInv

LEMMA SoftDeleteSInv ==
  ASSUME SInv, NEW e \in Employee, SoftDelete(e)
  PROVE  SInv'
<1>1. PICK row \in Row : /\ row = [staff[e] EXCEPT !.active = FALSE]
                         /\ row.shift = staff[e].shift
                         /\ row.wage = staff[e].wage /\ row.version = staff[e].version
  <2>1. staff[e] \in Row
    BY DEF SInv, StaffTypeOK
  <2>2. [staff[e] EXCEPT !.active = FALSE] \in Row
    BY <2>1 DEF Row
  <2> QED
    BY <2>1, <2>2 DEF Row
<1>2. staff' = [staff EXCEPT ![e] = row] /\ Overtake({e}) /\ UNCHANGED <<shifts, mark>>
  BY <1>1 DEF SoftDelete
<1>3. \A d \in Employee : staff'[d] = IF d = e THEN row ELSE staff[d]
  BY <1>2 DEF SInv, StaffTypeOK
<1>4. StaffTypeOK'
  BY <1>1, <1>2, <1>3, OvertakeType DEF SInv, StaffTypeOK
<1> QED
  BY <1>1, <1>2, <1>3, <1>4, OvertakeSInv

LEMMA DeleteShiftSInv ==
  ASSUME SInv, NEW s \in Shift, DeleteShift(s)
  PROVE  SInv'
<1> DEFINE E == {e \in Employee : staff[e].shift = s}
<1>1. ASSUME NEW e \in Employee
      PROVE  /\ staff'[e] \in Row
             /\ staff'[e].wage = staff[e].wage /\ staff'[e].version = staff[e].version
             /\ staff'[e].shift \in shifts' \cup {NoShift}
             /\ e \notin E => staff'[e] = staff[e]
  <2>1. staff[e] \in Row /\ staff[e].shift \in shifts \cup {NoShift}
    BY DEF SInv, StaffTypeOK
  <2>2. staff'[e] = IF staff[e].shift = s THEN [staff[e] EXCEPT !.shift = NoShift]
                                          ELSE staff[e]
    BY DEF DeleteShift
  <2>3. CASE staff[e].shift = s
    BY <2>1, <2>2, <2>3 DEF Row
  <2>4. CASE staff[e].shift # s
    BY <2>1, <2>2, <2>4 DEF DeleteShift
  <2> QED
    BY <2>3, <2>4
<1>2. mark' \in [Employee -> shifts' \cup {NoShift}]
  BY DEF DeleteShift, SInv, StaffTypeOK
<1>3. PICK D \in SUBSET Employee :
        /\ Overtake(D)
        /\ \A e \in Employee : e \notin D => staff'[e] = staff[e]
  BY <1>1 DEF DeleteShift
<1>4. staff' \in [Employee -> Row]
  BY <1>1 DEF DeleteShift
<1>5. StaffTypeOK'
  BY <1>1, <1>2, <1>3, <1>4, OvertakeType DEF DeleteShift, SInv, StaffTypeOK
<1> QED
  BY <1>1, <1>3, <1>5, OvertakeSInv

LEMMA MarkedSInv ==
  ASSUME SInv, NEW e \in Employee, NEW s \in Shift \cup {NoShift}, Marked(e, s)
  PROVE  SInv'
  BY DEF Marked, SInv, StaffTypeOK, CopiesKept

LEMMA WriteShiftSInv ==
  ASSUME SInv, NEW u \in Updater, WriteShift(u)
  PROVE  SInv'
<1>1. PICK e \in Employee : e = Typed[u].of /\ staff[e] \in Row
  BY RunningUpdate DEF WriteShift
<1>2. PICK s \in Shift : s = Typed[u].shift /\ s \in shifts
  BY DEF WriteShift, SInv, StaffTypeOK
<1>3. PICK row \in Row : /\ row = [staff[e] EXCEPT !.shift = s] /\ row.shift = s
                         /\ row.wage = staff[e].wage /\ row.version = staff[e].version
  <2>1. [staff[e] EXCEPT !.shift = s] \in Row
    BY <1>1 DEF Row
  <2> QED
    BY <1>1, <2>1 DEF Row
<1>4. staff' = [staff EXCEPT ![e] = row] /\ UNCHANGED <<shifts, mark>>
  BY <1>1, <1>2, <1>3 DEF WriteShift
<1>5. \A d \in Employee : staff'[d] = IF d = e THEN row ELSE staff[d]
  BY <1>4 DEF SInv, StaffTypeOK
<1>6. ASSUME NEW v \in Updater
      PROVE  /\ upd'[v] \in Update \cup {NoUpdate}
             /\ upd'[v].stage = "read" =>
                  /\ upd[v].stage = "read" /\ upd'[v].copy = upd[v].copy
                  /\ Typed[v].of = e => upd'[v].overtaken = TRUE
                  /\ Typed[v].of # e => upd'[v] = upd[v]
  <2>1. upd'[v] = IF v = u THEN [upd[u] EXCEPT !.stage = "shifted"]
                  ELSE IF upd[v].stage = "read" /\ Typed[v].of = e
                       THEN [upd[v] EXCEPT !.overtaken = TRUE] ELSE upd[v]
    BY <1>1 DEF WriteShift
  <2>2. CASE v = u
    <3>1. upd[u] \in Update
      BY RunningUpdate DEF WriteShift
    <3> QED
      BY <2>1, <2>2, <3>1 DEF Update
  <2>3. CASE v # u /\ upd[v].stage = "read" /\ Typed[v].of = e
    <3>1. upd[v] \in Update
      BY <2>3, RunningUpdate
    <3> QED
      BY <2>1, <2>3, <3>1 DEF Update
  <2>4. CASE v # u /\ ~(upd[v].stage = "read" /\ Typed[v].of = e)
    BY <2>1, <2>4 DEF SInv, StaffTypeOK
  <2> QED
    BY <2>2, <2>3, <2>4
<1>7. StaffTypeOK'
  <2>1. upd' \in [Updater -> Update \cup {NoUpdate}]
    BY <1>6 DEF WriteShift
  <2> QED
    BY <1>2, <1>3, <1>4, <1>5, <2>1 DEF SInv, StaffTypeOK
<1>8. CopiesKept'
  <2> SUFFICES ASSUME NEW v \in Updater, upd'[v].stage = "read"
               PROVE  LET r == staff'[Typed[v].of]  copy == upd'[v].copy
                      IN /\ copy.version <= r.version
                         /\ copy.version = r.version =>
                              /\ copy.wage = r.wage
                              /\ ~upd'[v].overtaken =>
                                   copy.shift = r.shift /\ copy.active = r.active
    BY DEF CopiesKept
  <2>1. Typed[v].of \in Employee
    BY StaffAssumption
  <2> QED
    <3>1. CASE Typed[v].of = e
      <4>1. upd'[v].overtaken /\ upd[v].stage = "read" /\ upd'[v].copy = upd[v].copy
        BY <1>6, <3>1
      <4>2. staff'[e].version = staff[e].version /\ staff'[e].wage = staff[e].wage
        BY <1>3, <1>5
      <4> QED
        BY <3>1, <4>1, <4>2 DEF SInv, CopiesKept
    <3>2. CASE Typed[v].of # e
      <4>1. upd[v].stage = "read" /\ upd'[v] = upd[v]
        BY <1>6, <3>2
      <4>2. staff'[Typed[v].of] = staff[Typed[v].of]
        BY <1>5, <2>1, <3>2
      <4> QED
        BY <4>1, <4>2 DEF SInv, CopiesKept
    <3> QED
      BY <3>1, <3>2
<1> QED
  BY <1>7, <1>8 DEF SInv

LEMMA StepSInv == SInv /\ (StaffNext \/ UNCHANGED staffVars) => SInv'
<1> SUFFICES ASSUME SInv, StaffNext \/ UNCHANGED staffVars
             PROVE  SInv'
  OBVIOUS
<1>1. CASE UNCHANGED staffVars
  BY <1>1 DEF staffVars, SInv, StaffTypeOK, CopiesKept
<1>2. ASSUME NEW u \in Updater, Conflict(u) \/ WriteRefused(u) \/ ShiftRefused(u)
      PROVE  SInv'
  BY <1>2, PutSInv DEF Conflict, WriteRefused, ShiftRefused
<1>3. CASE StaffNext
  BY <1>2, <1>3, ReadRowSInv, WriteRowSInv, WriteShiftSInv, AssignShiftSInv, SoftDeleteSInv,
     DeleteShiftSInv, MarkedSInv DEF StaffNext
<1> QED
  BY <1>1, <1>3

-----------------------------------------------------------------------------
(* The composition *)

PostTypeOK ==
  post \in [Marker -> [stage : Stage, of : Employee, shift : Shift \cup {NoShift},
                       write : Write]]

\* The write of a mark that is committed has been.
PostsCounted == \A m \in Marker : post[m].stage = "committed" => post[m].write <= writes

Inv == SInv /\ CInv /\ PostTypeOK /\ PostsCounted

LEMMA InitInv == Init => Inv
<1> SUFFICES ASSUME Init PROVE Inv
  OBVIOUS
<1>1. SInv /\ CInv
  BY InitSInv, InitCInv DEF Init
<1>2. 0 \in Write
  BY CacheAssumption DEF Write
<1>3. PostTypeOK /\ PostsCounted
  BY <1>2 DEF Init, PostTypeOK, PostsCounted, Stage
<1> QED
  BY <1>1, <1>3 DEF Inv

\* What a step of the composition is to each of its parts.
LEMMA StepParts ==
  ASSUME Inv, Next
  PROVE  /\ StaffNext \/ UNCHANGED staffVars
         /\ CacheNext \/ UNCHANGED cacheVars
<1>1. ASSUME NEW m \in Marker, NEW s \in Shift \cup {NoShift}, ResolveShift(m, s)
      PROVE  UNCHANGED staffVars /\ UNCHANGED cacheVars
  BY <1>1 DEF ResolveShift
<1>2. ASSUME NEW m \in Marker, CommitMark(m)
      PROVE  /\ StaffNext \/ UNCHANGED staffVars
             /\ CacheNext \/ UNCHANGED cacheVars
  <2>1. post[m].of \in Employee /\ post[m].shift \in Shift \cup {NoShift}
    BY DEF Inv, PostTypeOK
  <2> QED
    BY <1>2, <2>1 DEF CommitMark, StaffNext, CacheNext
<1>3. ASSUME NEW m \in Marker, NEW k \in Key, DeleteKey(m, k)
      PROVE  UNCHANGED staffVars /\ CacheNext
  <2>1. post[m].write \in Write /\ post[m].write <= writes /\ Invalidate(k, post[m].write)
    BY <1>3 DEF DeleteKey, Inv, PostTypeOK, PostsCounted
  <2> QED
    BY <1>3, <2>1 DEF DeleteKey, CacheNext
<1>4. ASSUME NEW k \in Key, QueryRoster(k) \/ QueryOverview(k) \/ QueryFigures(k)
      PROVE  CacheNext
  BY <1>4 DEF QueryRoster, QueryOverview, QueryFigures, CacheNext
<1> QED
  BY <1>1, <1>2, <1>3, <1>4 DEF Next, StaffNext, CacheNext

LEMMA StepInv == Inv /\ [Next]_vars => Inv'
<1> SUFFICES ASSUME Inv, [Next]_vars PROVE Inv'
  OBVIOUS
<1>1. SInv' /\ CInv'
  BY StepParts, StepSInv, StepCInv DEF Inv, vars
<1>2. writes \in Nat /\ writes' \in Nat /\ writes <= writes'
  <2>1. writes \in Nat /\ writes' \in Nat
    BY <1>1 DEF Inv, CInv, CacheTypeOK, Write
  <2>2. CASE UNCHANGED vars
    BY <2>1, <2>2 DEF vars, cacheVars
  <2>3. CASE Next
    <3>1. CASE UNCHANGED cacheVars
      BY <2>1, <3>1 DEF cacheVars
    <3>2. CASE CacheNext
      <4>1. ASSUME NEW k \in Key, NEW n \in Write, Invalidate(k, n)
            PROVE  writes' = writes
        BY <4>1 DEF Invalidate
      <4>2. ASSUME NEW k \in Key, Query(k) \/ FlightFails(k) \/ Land(k) \/ Sweep(k)
            PROVE  writes' = writes
        BY <4>2 DEF Query, FlightFails, Land, Sweep
      <4>3. ASSUME NEW r \in Reader, NEW k \in Key, Hit(r, k) \/ Miss(r, k)
            PROVE  writes' = writes
        BY <4>3 DEF Hit, Miss
      <4>4. ASSUME NEW r \in Reader, Store(r)
            PROVE  writes' = writes
        BY <4>4 DEF Store
      <4>5. Commit \/ writes' = writes
        BY <3>2, <4>1, <4>2, <4>3, <4>4 DEF CacheNext, Tick
      <4> QED
        BY <2>1, <4>5 DEF Commit
    <3> QED
      BY <2>3, <3>1, <3>2, StepParts
  <2> QED
    BY <2>2, <2>3
<1>3. PostTypeOK' /\ PostsCounted'
  <2>1. ASSUME NEW m \in Marker, NEW s \in Shift \cup {NoShift}, ResolveShift(m, s)
        PROVE  PostTypeOK' /\ PostsCounted'
    BY <2>1, <1>2 DEF ResolveShift, Inv, PostTypeOK, PostsCounted, Stage, cacheVars
  <2>2. ASSUME NEW m \in Marker, CommitMark(m)
        PROVE  PostTypeOK' /\ PostsCounted'
    <3>1. CASE Valid(post[m].shift)
      <4>1. /\ post' = [post EXCEPT ![m].stage = "committed", ![m].write = writes + 1]
            /\ writes' = writes + 1 /\ writes' \in Write
        BY <1>1, <2>2, <3>1 DEF CommitMark, Commit, CInv, CacheTypeOK
      <4>2. PostTypeOK'
        BY <4>1 DEF Inv, PostTypeOK, Stage
      <4>3. \A n \in Marker : n # m => post'[n] = post[n]
        BY <4>1 DEF Inv, PostTypeOK
      <4>4. post'[m].write = writes'
        BY <4>1 DEF Inv, PostTypeOK
      <4>5. \A n \in Marker : post[n].write \in Nat
        BY DEF Inv, PostTypeOK, Write
      <4>6. PostsCounted'
        BY <1>2, <4>3, <4>4, <4>5 DEF Inv, PostsCounted
      <4> QED
        BY <4>2, <4>6
    <3>2. CASE ~Valid(post[m].shift)
      BY <2>2, <3>2 DEF CommitMark, Inv, PostTypeOK, PostsCounted, Stage, cacheVars
    <3> QED
      BY <3>1, <3>2
  <2>3. ASSUME NEW m \in Marker, NEW k \in Key, DeleteKey(m, k)
        PROVE  PostTypeOK' /\ PostsCounted'
    BY <2>3 DEF DeleteKey, Invalidate, Inv, PostTypeOK, PostsCounted, Stage
  <2>4. CASE UNCHANGED post
    <3>1. \A n \in Marker : post[n].write \in Nat
      BY DEF Inv, PostTypeOK, Write
    <3> QED
      BY <1>2, <2>4, <3>1 DEF Inv, PostTypeOK, PostsCounted
  <2> QED
    BY <2>1, <2>2, <2>3, <2>4 DEF Next, vars
<1> QED
  BY <1>1, <1>3 DEF Inv

\* The variables have their types.
THEOREM ReadsTypeCorrect == Spec => []TypeOK
<1>1. Inv => TypeOK
  BY DEF Inv, SInv, CInv, TypeOK, PostTypeOK
<1> QED
  BY InitInv, StepInv, <1>1, PTL DEF Spec

\* A request that starts after a key was deleted for a write is answered with
\* that write, unless an older value was under way at the deletion.
THEOREM AnswersFresh == Spec => []AnswersAreFresh
<1>1. Inv => AnswersAreFresh
  BY DEF Inv, CInv
<1> QED
  BY InitInv, StepInv, <1>1, PTL DEF Spec

\* If a request lasts at most Slow, what an answer shows was current at most the
\* life of an entry and two requests ago, whoever loaded, joined and stored it.
THEOREM AnswersBounded == Spec => StaleBounded
<1>1. Init => Aged
  BY InitAged DEF Init
<1>2. Inv /\ Aged /\ [Next]_vars => StepAged
  BY StepParts, CacheStepAged DEF Inv, vars
<1>3. StepAged => Aged'
  BY DEF StepAged
<1>4. StepAged => [\A r \in Reader :
                     reader[r].stage # "done" /\ reader'[r].stage = "done" =>
                       LET n == reader'[r].val
                       IN n < writes => now - wrote[n + 1] <= TTL + 2 * Slow]_cacheVars
  BY DEF StepAged, Answered
<1> QED
  BY InitInv, StepInv, <1>1, <1>2, <1>3, <1>4, PTL DEF Spec, StaleBounded

\* An accepted update never undoes another accepted update.
THEOREM UpdatesKeepColumns == Spec => UpdateKeepsColumns
<1> DEFINE Keeps(u) ==
      upd[u].stage = "read" /\ upd'[u].stage = "written" =>
        LET old == staff[Typed[u].of]  new == staff'[Typed[u].of]
        IN /\ new.wage = IF Typed[u].wage = Blank THEN old.wage ELSE Typed[u].wage
           /\ ~upd[u].overtaken => new.shift = old.shift /\ new.active = old.active
<1>1. Inv /\ [Next]_vars => [\A u \in Updater : Keeps(u)]_staffVars
  <2> SUFFICES ASSUME Inv, Next, NEW u \in Updater,
                      upd[u].stage = "read", upd'[u].stage = "written"
               PROVE  Keeps(u)
    BY DEF vars
  <2>1. WriteRow(u)
    <3>1. upd[u] \in Update
      BY RunningUpdate DEF Inv
    <3>2. ~UNCHANGED staffVars
      BY DEF staffVars
    <3>3. PICK v \in Updater : \/ ReadRow(v) \/ WriteRow(v) \/ Conflict(v) \/ WriteRefused(v)
                               \/ WriteShift(v) \/ ShiftRefused(v)
      <4>1. ASSUME NEW E, Overtake(E)
            PROVE  upd'[u].stage = "read"
        BY <3>1, <4>1 DEF Overtake, Update
      <4>2. ASSUME NEW e \in Employee, NEW s \in Shift, AssignShift(e, s)
            PROVE  FALSE
        BY <4>1, <4>2 DEF AssignShift
      <4>3. ASSUME NEW e \in Employee, SoftDelete(e)
            PROVE  FALSE
        BY <4>1, <4>3 DEF SoftDelete
      <4>4. ASSUME NEW s \in Shift, DeleteShift(s)
            PROVE  FALSE
        BY <4>1, <4>4 DEF DeleteShift
      <4>5. ASSUME NEW e \in Employee, NEW s \in Shift \cup {NoShift}, Marked(e, s)
            PROVE  FALSE
        BY <4>5 DEF Marked
      <4> QED
        BY <3>2, <4>2, <4>3, <4>4, <4>5, StepParts DEF StaffNext
    <3>4. upd \in [Updater -> Update \cup {NoUpdate}] /\ upd[u] # NoUpdate
      BY DEF Inv, SInv, StaffTypeOK, NoUpdate
    <3>5. CASE ReadRow(v)
      BY <3>4, <3>5 DEF ReadRow
    <3>6. CASE Conflict(v) \/ WriteRefused(v) \/ ShiftRefused(v)
      BY <3>1, <3>4, <3>6 DEF Conflict, WriteRefused, ShiftRefused, Put, Update
    <3>7. CASE WriteShift(v)
      BY <3>1, <3>4, <3>7 DEF WriteShift, Update
    <3>8. CASE WriteRow(v)
      BY <3>4, <3>8 DEF WriteRow, Put
    <3> QED
      BY <3>3, <3>5, <3>6, <3>7, <3>8
  <2>2. /\ upd[u].copy \in Row /\ Typed[u].of \in Employee /\ staff[Typed[u].of] \in Row
    BY RunningUpdate DEF Inv
  <2>3. staff'[Typed[u].of] = Merged(u)
    BY <2>1, <2>2 DEF WriteRow, Inv, SInv, StaffTypeOK
  <2>4. /\ Merged(u).wage = IF Typed[u].wage = Blank THEN upd[u].copy.wage ELSE Typed[u].wage
        /\ Merged(u).shift = upd[u].copy.shift /\ Merged(u).active = upd[u].copy.active
    BY <2>2 DEF Merged, Row
  <2> QED
    BY <2>1, <2>3, <2>4 DEF WriteRow, Current, Inv, SInv, CopiesKept
<1> QED
  BY InitInv, StepInv, <1>1, PTL DEF Spec, UpdateKeepsColumns
=============================================================================
