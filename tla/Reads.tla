------------------------------- MODULE Reads --------------------------------
(***************************************************************************)
(* What the owner sees: the handlers that write employees, shifts and      *)
(* marks, composed with the cached reads.  A mark deletes the roster of    *)
(* its day once it is committed; no other write deletes anything.          *)
(***************************************************************************)
EXTENDS StaffRecord, ReadCache

CONSTANTS Roster,   \* the keys that are rosters; the key of an overview is the
                    \* employee, the others are dashboards and daily summaries
          Marker    \* POST /attendance and /attendance/bulk, each made once

ASSUME ReadsAssumption == Roster \subseteq Key /\ Roster \cap Employee = {}

VARIABLE post \* post[m]: how far the mark is; the write it was, once committed

vars == <<staffVars, cacheVars, post>>

Stage == {"idle", "resolved", "committed", "answered"}

TypeOK ==
  /\ StaffTypeOK
  /\ CacheTypeOK
  /\ post \in [Marker -> [stage : Stage, of : Employee, shift : Shift \cup {NoShift},
                          write : Write]]

Init ==
  /\ StaffInit
  /\ CacheInit
  /\ post \in [Marker -> [stage : {"idle"}, of : Employee, shift : {NoShift}, write : {0}]]

\* resolveShiftID: typed, or read from the employee's row.
ResolveShift(m, s) ==
  /\ post[m].stage = "idle"
  /\ s \in Shift \cup {staff[post[m].of].shift}
  /\ post' = [post EXCEPT ![m].stage = "resolved", ![m].shift = s]
  /\ UNCHANGED <<staffVars, cacheVars>>

\* A mark of a shift that is gone is refused, and nothing else happens.
CommitMark(m) ==
  /\ post[m].stage = "resolved"
  /\ IF Valid(post[m].shift)
       THEN /\ Marked(post[m].of, post[m].shift) /\ Commit
            /\ post' = [post EXCEPT ![m].stage = "committed", ![m].write = writes + 1]
       ELSE /\ post' = [post EXCEPT ![m].stage = "answered"]
            /\ UNCHANGED <<staffVars, cacheVars>>

DeleteKey(m, k) ==
  /\ post[m].stage = "committed" /\ k \in Roster
  /\ Invalidate(k, post[m].write)
  /\ post' = [post EXCEPT ![m].stage = "answered"]
  /\ UNCHANGED staffVars

\* The roster's columns for the shift are strings, and NULL is not one: an
\* active employee without a shift, neither his own nor the mark's, fails it.
Readable(e) == ~staff[e].active \/ staff[e].shift # NoShift \/ mark[e] # NoShift

QueryRoster(k) ==
  /\ k \in Roster /\ \A e \in Employee : Readable(e)
  /\ Query(k)

\* GetStaffProfile comes first, and finds active employees only.
QueryOverview(k) ==
  /\ k \in Employee /\ staff[k].active
  /\ Query(k)

QueryFigures(k) ==
  /\ k \notin Roster \cup Employee
  /\ Query(k)

Next ==
  \/ \E m \in Marker, s \in Shift \cup {NoShift} : ResolveShift(m, s)
  \/ \E m \in Marker : CommitMark(m)
  \/ \E m \in Marker, k \in Key : DeleteKey(m, k)
  \/ \E u \in Updater : ReadRow(u) /\ UNCHANGED <<cacheVars, post>>
  \/ \E u \in Updater : WriteRow(u) /\ Commit /\ UNCHANGED post
  \/ \E u \in Updater : Conflict(u) /\ UNCHANGED <<cacheVars, post>>
  \/ \E u \in Updater : WriteRefused(u) /\ UNCHANGED <<cacheVars, post>>
  \/ \E u \in Updater : WriteShift(u) /\ Commit /\ UNCHANGED post
  \/ \E u \in Updater : ShiftRefused(u) /\ UNCHANGED <<cacheVars, post>>
  \/ \E e \in Employee, s \in Shift : AssignShift(e, s) /\ Commit /\ UNCHANGED post
  \/ Commit /\ UNCHANGED <<staffVars, post>>  \* any other write: entries, edits, ...
  \/ \E e \in Employee : SoftDelete(e) /\ Commit /\ UNCHANGED post
  \/ \E s \in Shift : DeleteShift(s) /\ Commit /\ UNCHANGED post
  \/ \E r \in Reader, k \in Key : Hit(r, k) /\ UNCHANGED <<staffVars, post>>
  \/ \E r \in Reader, k \in Key : Miss(r, k) /\ UNCHANGED <<staffVars, post>>
  \/ \E k \in Key : QueryRoster(k) /\ UNCHANGED <<staffVars, post>>
  \/ \E k \in Key : QueryOverview(k) /\ UNCHANGED <<staffVars, post>>
  \/ \E k \in Key : QueryFigures(k) /\ UNCHANGED <<staffVars, post>>
  \/ \E k \in Key : FlightFails(k) /\ UNCHANGED <<staffVars, post>>
  \/ \E k \in Key : Land(k) /\ UNCHANGED <<staffVars, post>>
  \/ \E r \in Reader : Store(r) /\ UNCHANGED <<staffVars, post>>
  \/ \E k \in Key : Sweep(k) /\ UNCHANGED <<staffVars, post>>
  \/ Tick /\ UNCHANGED <<staffVars, post>>

Spec == Init /\ [][Next]_vars
=============================================================================
