------------------------- MODULE AttendanceRegister -------------------------
(***************************************************************************)
(* What the attendance table promises to the rest of the server, without   *)
(* requests, versions or SQL: one status per employee and day, and a set   *)
(* of frozen cells.  A cell is written only while it is not frozen, only   *)
(* a marked cell can be frozen, and no cell is ever thawed.                *)
(*                                                                         *)
(* Attendance.tla (the handlers and their SQL statements) implements this  *)
(* specification; Payroll.tla is built on top of it.                       *)
(***************************************************************************)
CONSTANTS Employee,  \* the tenant's employees
          Day,       \* the days of the calendar that is modelled
          Status,    \* the statuses a day can be marked with
          Unmarked   \* the status of a cell that has no row

ASSUME UnmarkedIsNoStatus == Unmarked \notin Status

VARIABLES status,  \* status[<<e, d>>]: how the day d of employee e is marked
          frozen   \* the cells whose row is locked

register == <<status, frozen>>

Cell == Employee \X Day

Marked == {c \in Cell : status[c] # Unmarked}

RegisterTypeOK ==
  /\ status \in [Cell -> Status \cup {Unmarked}]
  /\ frozen \subseteq Marked

RegisterInit ==
  /\ status = [c \in Cell |-> Unmarked]
  /\ frozen = {}

\* Any handler that marks a day: it succeeds only on a cell that is not frozen.
SetStatus(c, s) ==
  /\ c \notin frozen
  /\ status' = [status EXCEPT ![c] = s]
  /\ UNCHANGED frozen

\* Locking reaches the rows that exist: an unmarked day has none to lock.
Freeze(cells) ==
  /\ cells \subseteq Marked
  /\ frozen' = frozen \cup cells
  /\ UNCHANGED status

RegisterNext ==
  \/ \E c \in Cell, s \in Status : SetStatus(c, s)
  \/ \E cells \in SUBSET Marked : Freeze(cells)

RegisterSpec == RegisterInit /\ [][RegisterNext]_register
=============================================================================
