----------------------------- MODULE Attendance -----------------------------
(***************************************************************************)
(* The attendance table and the handlers that write it:                    *)
(*   POST /attendance, POST /attendance/bulk   (check each record, upsert) *)
(*   PUT  /attendance/{id}                     (edit against a version)    *)
(*   POST /attendance/lock                     (lock the rows of a range)  *)
(*   the leave service's MarkPaidLeave, and the holiday handlers.          *)
(* Every SQL statement is one step; a request is as many steps as it runs  *)
(* statements, so the requests of two devices interleave between them.     *)
(***************************************************************************)
EXTENDS Naturals, Sequences

CONSTANTS Employee,    \* the tenant's employees
          LastDay,     \* the days are 1..LastDay
          Status,      \* validAttendanceStatuses, the CHECK of the column
          Device,      \* phones of the owner and of the supervisors
          Requests,    \* the POST bodies a device may send
          MaxVersion,  \* bound of the model: a row at it is not edited again
          NoDraft,     \* a device with no row open
          NoCall       \* a device with no POST under way

Day == 1..LastDay
Cell == Employee \X Day

Unmarked == "unmarked"  \* the status of a cell without a row
Blank == ""             \* no status: bulk and edit let it through

(* A request is [op, recs]: "create" carries one record, "bulk" one or     *)
(* more.  A record is [cell, status]; the server may refuse its status.    *)
Draft == [cell : Cell, version : 1..MaxVersion, status : Status,
          overtaken : BOOLEAN]
Call == [req : Requests, next : Nat \ {0}, checked : BOOLEAN]
Answers == {"none", "ok", "rejected", "locked", "conflict", "error"}

ASSUME AttendanceAssumption ==
  /\ LastDay \in Nat
  /\ MaxVersion \in Nat \ {0}
  /\ "paid_leave" \in Status
  /\ Unmarked \notin Status
  /\ Blank \notin Status
  /\ NoDraft \notin Draft
  /\ NoCall \notin Call
  /\ \A r \in Requests :
       /\ r.op \in {"create", "bulk"}
       /\ r.recs \in Seq([cell : Cell, status : STRING])
       /\ r.recs # << >>
       /\ r.op = "create" => Len(r.recs) = 1

VARIABLES row,    \* row[c]: the row of the cell; version 0 where there is none
          closed, \* the days IsHoliday answers true for
          draft,  \* draft[d]: the row the device has open for editing
          call,   \* call[d]: the POST the device is waiting for
          answer  \* what the last step answered, "none" if it answered nothing

vars == <<row, closed, draft, call, answer>>

Row == [status : Status, version : 1..MaxVersion, locked : BOOLEAN]
NoRow == [status |-> Unmarked, version |-> 0, locked |-> FALSE]

Exists(c) == row[c].version > 0

TypeOK ==
  /\ row \in [Cell -> Row \cup {NoRow}]
  /\ closed \subseteq Day
  /\ draft \in [Device -> Draft \cup {NoDraft}]
  /\ call \in [Device -> Call \cup {NoCall}]
  /\ \A d \in Device : call[d] # NoCall => call[d].next <= Len(call[d].req.recs)
  /\ \A d \in Device : call[d] # NoCall /\ call[d].checked =>
       call[d].req.recs[call[d].next].status \in Status \cup {Blank}
  /\ answer \in Answers

Init ==
  /\ row = [c \in Cell |-> NoRow]
  /\ closed = {}
  /\ draft = [d \in Device |-> NoDraft]
  /\ call = [d \in Device |-> NoCall]
  /\ answer = "none"

-----------------------------------------------------------------------------
(* The statement both POST handlers and the leave service run:             *)
(*   INSERT ... ON CONFLICT DO UPDATE ... WHERE NOT is_locked              *)
(* inserts version 1, overwrites an unlocked row and keeps its version,    *)
(* and does nothing, without an error, to a locked one.                    *)
UpsertOverLock(c, s) ==  \* mutant: the WHERE clause is missing
  row' = [row EXCEPT ![c] = IF ~Exists(c)
                            THEN [status |-> s, version |-> 1, locked |-> FALSE]
                            ELSE [@ EXCEPT !.status = s]]

Upsert(c, s) ==
  row' = [row EXCEPT ![c] = IF ~Exists(c)
                            THEN [status |-> s, version |-> 1, locked |-> FALSE]
                            ELSE IF @.locked THEN @ ELSE [@ EXCEPT !.status = s]]

(* History only: an upsert over an unlocked row marks the drafts of that   *)
(* row, because it rewrites the row without counting a version.            *)
Overtake(c) ==
  draft' = [d \in Device |->
              IF draft[d] # NoDraft /\ draft[d].cell = c /\ ~row[c].locked
              THEN [draft[d] EXCEPT !.overtaken = TRUE] ELSE draft[d]]

MoreOffByOne(d) == call[d].next <= Len(call[d].req.recs)  \* mutant
More(d) == call[d].next < Len(call[d].req.recs)

Record(d) == call[d].req.recs[call[d].next]

Answer(d, a) ==
  /\ call' = [call EXCEPT ![d] = NoCall]
  /\ answer' = a

\* The device posts one record or a batch.
Post(d, req) ==
  /\ call[d] = NoCall
  /\ call' = [call EXCEPT ![d] = [req |-> req, next |-> 1, checked |-> FALSE]]
  /\ answer' = "none"
  /\ UNCHANGED <<row, closed, draft>>

Accepted(d) ==
  /\ \/ Record(d).status \in Status
     \/ Record(d).status = Blank /\ call[d].req.op = "bulk"
  /\ Record(d).cell[2] \notin closed

\* isValidAttendanceStatus, then IsHoliday: a failed check answers 400 and
\* ends the request; the records before this one stay written.
CheckRecord(d) ==
  /\ call[d] # NoCall
  /\ ~call[d].checked
  /\ \/ /\ Accepted(d)
        /\ call' = [call EXCEPT ![d] = [@ EXCEPT !.checked = TRUE]]
        /\ answer' = "none"
     \/ /\ ~Accepted(d)
        /\ Answer(d, "rejected")
  /\ UNCHANGED <<row, closed, draft>>

\* The column's CHECK refuses a blank status; the statement fails.
WriteFails(d) ==
  /\ call[d] # NoCall
  /\ call[d].checked
  /\ Record(d).status = Blank
  /\ Answer(d, "error")
  /\ UNCHANGED <<row, closed, draft>>

(* The upsert of a record that passed its checks.  On a locked row the     *)
(* statement returns no row: CreateAttendance turns that into an error     *)
(* (500), BulkUpsertAttendance into an empty result, and goes on.          *)
WriteRecord(d) ==
  /\ call[d] # NoCall
  /\ call[d].checked
  /\ Record(d).status # Blank
  /\ Upsert(Record(d).cell, Record(d).status)
  /\ Overtake(Record(d).cell)
  /\ IF More(d)
     THEN /\ call' = [call EXCEPT ![d] =
                        [@ EXCEPT !.next = call[d].next + 1, !.checked = FALSE]]
          /\ answer' = "none"
     ELSE Answer(d, IF row[Record(d).cell].locked /\ call[d].req.op = "create"
                    THEN "error" ELSE "ok")
  /\ UNCHANGED closed

(* The roster hands a device the row and its version.  A roster served     *)
(* from the cache is an Open that happened when the cache was filled.      *)
Open(d, c) ==
  /\ Exists(c)
  /\ draft' = [draft EXCEPT ![d] = [cell |-> c, version |-> row[c].version,
                                    status |-> row[c].status, overtaken |-> FALSE]]
  /\ answer' = "none"
  /\ UNCHANGED <<row, closed, call>>

EditedInPlace(r, s) == [r EXCEPT !.status = s]  \* mutant: no version + 1
Edited(r, s) == [r EXCEPT !.status = s, !.version = r.version + 1]

\* UPDATE ... SET version = version + 1 WHERE version = expected AND NOT
\* is_locked.  No row matches: a second statement tells "locked" from
\* "conflict".  Both are a 409 and it changes nothing, so it is no step of its own.
Edit(d, s) ==
  /\ draft[d] # NoDraft
  /\ LET c == draft[d].cell IN
     \/ /\ row[c].version = draft[d].version /\ ~row[c].locked
        /\ row[c].version < MaxVersion
        /\ row' = [row EXCEPT ![c] = Edited(row[c], s)]
        /\ answer' = "ok"
     \/ /\ row[c].version # draft[d].version \/ row[c].locked
        /\ answer' = IF row[c].locked THEN "locked" ELSE "conflict"
        /\ UNCHANGED row
  /\ draft' = [draft EXCEPT ![d] = NoDraft]
  /\ UNCHANGED <<closed, call>>

\* An edit may carry no status, which the handler lets through and the CHECK
\* of the column refuses, once the WHERE clause has found the row.
EditFails(d) ==
  /\ draft[d] # NoDraft
  /\ row[draft[d].cell].version = draft[d].version
  /\ ~row[draft[d].cell].locked
  /\ draft' = [draft EXCEPT ![d] = NoDraft]
  /\ answer' = "error"
  /\ UNCHANGED <<row, closed, call>>

\* One day of an approved leave: the third upsert.
MarkPaidLeave(c) ==
  /\ Upsert(c, "paid_leave")
  /\ Overtake(c)
  /\ answer' = "none"
  /\ UNCHANGED <<closed, call>>

\* mutant: the flag is computed for every row, so a lock thaws the others
LockExactlyTheRange(start, end) ==
  /\ row' = [c \in Cell |->
               IF Exists(c) THEN [row[c] EXCEPT !.locked = c[2] \in start..end]
                            ELSE row[c]]
  /\ answer' = "none"
  /\ UNCHANGED <<closed, draft, call>>

\* One UPDATE over the rows that exist in the range, both ends included.
LockAttendanceMonth(start, end) ==
  /\ row' = [c \in Cell |->
               IF c[2] \in start..end /\ Exists(c)
               THEN [row[c] EXCEPT !.locked = TRUE] ELSE row[c]]
  /\ answer' = "none"
  /\ UNCHANGED <<closed, draft, call>>

\* POST and DELETE /holidays (and a change of the weekly offs).
SetHoliday(day) ==
  /\ closed' = IF day \in closed THEN closed \ {day} ELSE closed \cup {day}
  /\ answer' = "none"
  /\ UNCHANGED <<row, draft, call>>

Next ==
  \/ \E d \in Device, req \in Requests : Post(d, req)
  \/ \E d \in Device : CheckRecord(d)
  \/ \E d \in Device : WriteFails(d)
  \/ \E d \in Device : WriteRecord(d)
  \/ \E d \in Device, c \in Cell : Open(d, c)
  \/ \E d \in Device, s \in Status : Edit(d, s)
  \/ \E d \in Device : EditFails(d)
  \/ \E c \in Cell : MarkPaidLeave(c)
  \/ \E start, end \in Day : LockAttendanceMonth(start, end)
  \/ \E day \in Day : SetHoliday(day)

Spec == Init /\ [][Next]_vars

-----------------------------------------------------------------------------
(* Properties *)

\* A locked row never changes again, whoever writes: the upserts, a versioned
\* edit, a leave approval or a second lock.
LockedRowsStay == [][\A c \in Cell : row[c].locked => row'[c] = row[c]]_row

\* While a draft carries the row's version, it also carries the row's status,
\* unless an upsert rewrote the row without counting a version.  This is what
\* makes "WHERE version = expected" detect every other edit.
VersionNamesContent ==
  \A d \in Device :
    draft[d] # NoDraft /\ ~draft[d].overtaken =>
      /\ row[draft[d].cell].version >= draft[d].version
      /\ row[draft[d].cell].version = draft[d].version
           => row[draft[d].cell].status = draft[d].status

\* The part of ADR 0009's "Concurrent edits are detected" that holds: of edits
\* by the versioned UPDATE alone none is lost.  One that is accepted was made
\* against the status the row still has, unless an upsert rewrote the row since.
EditSawUnlessOvertaken ==
  [][\A d \in Device :
       draft[d] # NoDraft /\ ~draft[d].overtaken /\ draft'[d] = NoDraft /\ answer' = "ok"
         => row[draft[d].cell].status = draft[d].status]_vars

\* Seen through the rows' status and lock, the handlers keep the promises of
\* the abstract register: a frozen cell is never written, only marked cells
\* freeze, and no step changes two cells at once.
Register == INSTANCE AttendanceRegister
              WITH status <- [c \in Cell |-> row[c].status],
                   frozen <- {c \in Cell : row[c].locked}

ImplementsRegister == Register!RegisterSpec

\* ADR 0009: "Concurrent edits are detected instead of silently lost."  An
\* accepted edit was made against the status the row still had.
EditSawTheRow ==
  [][\A d \in Device :
       draft[d] # NoDraft /\ draft'[d] = NoDraft /\ answer' = "ok"
         => row[draft[d].cell].status = draft[d].status]_vars
=============================================================================
