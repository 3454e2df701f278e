------------------------------ MODULE Payroll -------------------------------
(***************************************************************************)
(* POST /payroll/lock (FinalizeAndLock): read the employees, their         *)
(* attendance and their advances with one query each, outside any          *)
(* transaction; then, in one READ COMMITTED transaction, insert a wage per *)
(* employee, lock the attendance rows of the period and commit.            *)
(* POST /attendance/lock runs the statement that locks, and nothing else.  *)
(*                                                                         *)
(* That statement takes its rows one at a time, and holds the ones it has  *)
(* while it waits for the next: two of them can wait for each other, until *)
(* PostgreSQL finds the cycle and makes one of them fail.                  *)
(*                                                                         *)
(* The attendance table is the AttendanceRegister that Attendance          *)
(* implements; every other request of the server goes on meanwhile.        *)
(***************************************************************************)
EXTENDS AttendanceRegister, Integers, FiniteSets

CONSTANTS Finalizer,      \* the requests that lock a range of days
          LockOnly,       \* those of them that are POST /attendance/lock
          Period,         \* Period[f]: the days of the request's range
          Adjust,         \* Adjust[f]: net pay by employee, over a subset of them
          Rate,           \* Rate[e]: the daily wage
          PaidOff,        \* the weekly offs, if the tenant pays them
          AdvanceAmount,  \* the amount of one advance
          MaxAdvances,    \* bound of the model: how many advances are granted
          SystemStored    \* does ledger.created_by take the id "system"?  The
                          \* answers that are possible: {FALSE} as migrated

ASSUME PayrollAssumption ==
  /\ "present" \in Status
  /\ LockOnly \subseteq Finalizer
  /\ Period \in [Finalizer -> SUBSET Day]
  /\ \A f \in Finalizer : IsFiniteSet(Period[f])
  /\ \A f \in Finalizer : DOMAIN Adjust[f] \subseteq Employee
  /\ \A f \in Finalizer : \A e \in DOMAIN Adjust[f] : Adjust[f][e] \in Int
  /\ Rate \in [Employee -> Nat]
  /\ AdvanceAmount \in Nat
  /\ MaxAdvances \in Nat
  /\ SystemStored \subseteq BOOLEAN

VARIABLES active,   \* the employees with is_active
          advances, \* the udhaar entries: <<e, d>> for an advance on day d
          wages,    \* the committed jama entries of the finalizations
          run       \* run[f]: how far the request is

others == <<active, advances, wages>>
vars == <<status, frozen, active, advances, wages, run>>

(* "refused": an insert failed on created_by; "aborted": any other error,  *)
(* or a crash.  Both roll the transaction back.                            *)
Phases == {"idle", "employees", "attendance", "posting", "locking",
           "done", "refused", "aborted"}
Ended == {"done", "refused", "aborted"}

\* What the service works out is cut off at zero; the net_pay of an adjustment
\* is stored as it was sent, and nobody looks at its sign.
Amounts(f, e) == IF e \in DOMAIN Adjust[f] THEN Int ELSE Nat
Wage == {w \in [run : Finalizer, employee : Employee, amount : Int] :
           w.amount \in Amounts(w.run, w.employee)}

Run == [phase : Phases,
        employees : SUBSET Employee,                  \* as read
        left : SUBSET Employee,                       \* without their insert yet
        seen : [Cell -> Status \cup {Unmarked}],      \* the attendance, as read
        taken : SUBSET Cell,                          \* the advances, as read
        posted : SUBSET Wage,                         \* inserts not yet committed
        wanted : SUBSET Cell,                         \* rows the UPDATE is to lock,
        held : SUBSET Cell,                           \* those it has locked,
        waits : SUBSET Cell]                          \* the one it waits for, if any

Blank == [c \in Cell |-> Unmarked]

NewRun == [phase |-> "idle", employees |-> {}, left |-> {}, seen |-> Blank,
           taken |-> {}, posted |-> {}, wanted |-> {}, held |-> {}, waits |-> {}]

TypeOK ==
  /\ RegisterTypeOK
  /\ active \subseteq Employee
  /\ advances \subseteq Cell
  /\ wages \subseteq Wage
  /\ run \in [Finalizer -> Run]

Init ==
  /\ RegisterInit
  /\ active = Employee
  /\ advances = {}
  /\ wages = {}
  /\ run = [f \in Finalizer |-> NewRun]

-----------------------------------------------------------------------------
(* What Calculate makes of the three result sets *)

RowInPeriod(f, c) == c[2] \in Period[f]

\* Days with a "present" row, and paid weekly offs with no row at all.
PaidDays(r, f, e) ==
  {d \in Period[f] : \/ r.seen[<<e, d>>] = "present"
                     \/ r.seen[<<e, d>>] = Unmarked /\ d \in PaidOff}

OwedNow(r, f, e) ==  \* mutant: looked up when the wage is worked out anew
  Cardinality({d \in Period[f] : <<e, d>> \in advances}) * AdvanceAmount
Owed(r, f, e) ==
  Cardinality({d \in Period[f] : <<e, d>> \in r.taken}) * AdvanceAmount

NetPayableUnclamped(f, e) ==  \* mutant: advances may exceed the wages
  Cardinality(PaidDays(run[f], f, e)) * Rate[e] - Owed(run[f], f, e)

NetPayable(f, e) ==
  LET gross == Cardinality(PaidDays(run[f], f, e)) * Rate[e]
      owed == Owed(run[f], f, e)
  IN IF gross > owed THEN gross - owed ELSE 0

\* What is posted: the owner's adjustment if the request carries one.
Pay(f, e) == IF e \in DOMAIN Adjust[f] THEN Adjust[f][e] ELSE NetPayable(f, e)

-----------------------------------------------------------------------------
(* FinalizeAndLock, one statement a step *)

Held == UNION {run[f].held : f \in Finalizer}

\* Rows a transaction has locked make other writers wait.
Free(cells) == cells \cap Held = {}

ReadEmployees(f) ==
  /\ run[f].phase = "idle"
  /\ f \notin LockOnly
  /\ run' = [run EXCEPT ![f] = [@ EXCEPT !.phase = "employees", !.employees = active,
                                         !.left = active]]
  /\ UNCHANGED <<register, others>>

ReadAttendance(f) ==
  /\ run[f].phase = "employees"
  /\ run' = [run EXCEPT ![f] =
               [@ EXCEPT !.phase = "attendance",
                         !.seen = [c \in Cell |-> IF RowInPeriod(f, c) THEN status[c]
                                                                       ELSE Unmarked]]]
  /\ UNCHANGED <<register, others>>

ReadLedger(f) ==
  /\ run[f].phase = "attendance"
  /\ run' = [run EXCEPT ![f] =
               [@ EXCEPT !.phase = "posting",
                         !.taken = {c \in advances : RowInPeriod(f, c)}]]
  /\ UNCHANGED <<register, others>>

WageFor(f, e) == [run |-> f, employee |-> e, amount |-> Pay(f, e)]

Inserted(f, e) ==
  [run[f] EXCEPT !.left = @ \ {e}, !.posted = @ \cup {WageFor(f, e)}]

InsertWageNoTx(f, e) ==  \* mutant: finalizeAndLockNoTx, visible at once
  /\ TRUE \in SystemStored
  /\ run[f].phase = "posting"
  /\ e \in run[f].left
  /\ run' = [run EXCEPT ![f] = Inserted(f, e)]
  /\ wages' = wages \cup {WageFor(f, e)}
  /\ UNCHANGED <<register, active, advances>>

InsertWage(f, e) ==
  /\ TRUE \in SystemStored
  /\ run[f].phase = "posting"
  /\ e \in run[f].left
  /\ run' = [run EXCEPT ![f] = Inserted(f, e)]
  /\ UNCHANGED <<register, others>>

(* How a run that stops early is left: the deferred Rollback drops the     *)
(* uncommitted inserts and lets go of the rows.                            *)
AbandonedNoRollback(r, phase) == [r EXCEPT !.phase = phase]  \* mutant
Abandoned(r, phase) ==
  [r EXCEPT !.phase = phase, !.posted = {}, !.wanted = {}, !.held = {}, !.waits = {}]

RefusedInsertSkipped(f) ==  \* mutant: the error of an insert is dropped
  /\ FALSE \in SystemStored
  /\ run[f].phase = "posting"
  /\ run[f].left # {}
  /\ run' = [run EXCEPT ![f] = [@ EXCEPT !.left = {}]]
  /\ UNCHANGED <<register, others>>

\* created_by is the string "system"; where the column wants an employee's
\* uuid the first insert fails.
RefuseInsert(f) ==
  /\ FALSE \in SystemStored
  /\ run[f].phase = "posting"
  /\ run[f].left # {}
  /\ run' = [run EXCEPT ![f] = Abandoned(run[f], "refused")]
  /\ UNCHANGED <<register, others>>

RowsOfHalfOpen(f) ==  \* mutant: date < to, so the last day is left open
  {c \in Marked : RowInPeriod(f, c) /\ \E d \in Period[f] : d > c[2]}
RowsOfPeriod(f) == {c \in Marked : RowInPeriod(f, c)}

\* LockAttendanceMonth: the UPDATE is to lock the rows that exist when it begins.
\* In a finalization it follows the inserts.
BeginLock(f) ==
  /\ \/ run[f].phase = "posting" /\ run[f].left = {}
     \/ run[f].phase = "idle" /\ f \in LockOnly
  /\ run' = [run EXCEPT ![f] = [@ EXCEPT !.phase = "locking", !.wanted = RowsOfPeriod(f)]]
  /\ UNCHANGED <<register, others>>

\* It comes to the row c, in an order of its own.
LockRow(f, c) ==
  /\ run[f].phase = "locking"
  /\ c \in run[f].wanted \ run[f].held
  /\ run[f].waits \subseteq {c}
  /\ Free({c})
  /\ run' = [run EXCEPT ![f] = [@ EXCEPT !.held = run[f].held \cup {c}, !.waits = {}]]
  /\ UNCHANGED <<register, others>>

\* Somebody holds the row: the statement stops at it, and keeps what it has.
WaitForRow(f, c) ==
  /\ run[f].phase = "locking"
  /\ c \in run[f].wanted \ run[f].held
  /\ run[f].waits = {}
  /\ ~Free({c})
  /\ run' = [run EXCEPT ![f] = [@ EXCEPT !.waits = {c}]]
  /\ UNCHANGED <<register, others>>

\* The requests of a knot wait for each other.
Knot(fs) ==
  /\ fs # {}
  /\ \A f \in fs : \E g \in fs : run[f].waits \cap run[g].held # {}
Cycle(fs) == Knot(fs) /\ \A gs \in SUBSET fs : Knot(gs) => gs = fs

\* PostgreSQL lets one request of a cycle fail.
BreakDeadlock(f) ==
  /\ run[f].phase = "locking"
  /\ \E fs \in SUBSET Finalizer : f \in fs /\ Cycle(fs)
  /\ run' = [run EXCEPT ![f] = Abandoned(run[f], "aborted")]
  /\ UNCHANGED <<register, others>>

Committed(f) ==
  [run[f] EXCEPT !.phase = "done", !.wanted = {}, !.held = {}]

\* Every row is locked: the transaction commits, that of a lone UPDATE by itself.
Commit(f) ==
  /\ run[f].phase = "locking"
  /\ run[f].held = run[f].wanted
  /\ Freeze(run[f].held)
  /\ wages' = wages \cup run[f].posted
  /\ run' = [run EXCEPT ![f] = Committed(f)]
  /\ UNCHANGED <<active, advances>>

\* Any query fails, or the process dies.
Abort(f) ==
  /\ run[f].phase \in Phases \ (Ended \cup {"idle"})
  /\ run' = [run EXCEPT ![f] = Abandoned(run[f], "aborted")]
  /\ UNCHANGED <<register, others>>

-----------------------------------------------------------------------------
(* The other requests *)

\* A mark, an edit or a leave day: see Attendance.
MarkDay(c, s) ==
  /\ Free({c})
  /\ SetStatus(c, s)
  /\ UNCHANGED <<others, run>>

GrantAdvance(c) ==
  /\ c \notin advances
  /\ Cardinality(advances) < MaxAdvances
  /\ advances' = advances \cup {c}
  /\ UNCHANGED <<register, active, wages, run>>

\* DELETE /employees/{id}, or an update that sets is_active again.
SetActive(e) ==
  /\ active' = IF e \in active THEN active \ {e} ELSE active \cup {e}
  /\ UNCHANGED <<register, advances, wages, run>>

Work(f) ==
  \/ ReadEmployees(f) \/ ReadAttendance(f) \/ ReadLedger(f)
  \/ \E e \in Employee : InsertWage(f, e)
  \/ RefuseInsert(f) \/ BeginLock(f)
  \/ \E c \in Cell : LockRow(f, c) \/ WaitForRow(f, c)
  \/ BreakDeadlock(f) \/ Commit(f)

Next ==
  \/ \E f \in Finalizer : Work(f)
  \/ \E f \in Finalizer : Abort(f)
  \/ \E c \in Cell, s \in Status : MarkDay(c, s)
  \/ \E c \in Cell : GrantAdvance(c)
  \/ \E e \in Employee : SetActive(e)

Spec == Init /\ [][Next]_vars

\* The goroutine of a request goes on while it can: nothing is assumed of the
\* other requests, and a request need not arrive or fail.
FairSpec ==
  /\ Spec
  /\ \A f \in Finalizer : WF_vars(run[f].phase # "idle" /\ Work(f))

-----------------------------------------------------------------------------
(* Properties *)

WagesOf(f) == {w \in wages : w.run = f}

\* The wages of a run become visible all at once, one for every employee it
\* read, and in the step that freezes the attendance they were counted from.
WagesAppearTogether ==
  [][\A f \in Finalizer :
       WagesOf(f)' # WagesOf(f) =>
         /\ WagesOf(f) = {}
         /\ \A e \in run[f].employees : \E w \in WagesOf(f)' :
              {v \in WagesOf(f)' : v.employee = e} = {w}
         /\ \A c \in Cell : run[f].seen[c] # Unmarked => c \in frozen']_vars

\* A run that ended without committing has left no wage behind; one that
\* committed has paid everyone it read.
PaysAllOrNothing ==
  \A f \in Finalizer :
    /\ run[f].phase \in {"refused", "aborted"} => WagesOf(f) = {}
    /\ run[f].phase = "done" =>
         {w.employee : w \in WagesOf(f)} = run[f].employees

\* Every row a committed run counted is frozen for good.
CountedRowsFrozen ==
  \A f \in Finalizer : run[f].phase = "done" =>
    \A c \in Cell : run[f].seen[c] # Unmarked => c \in frozen

\* What is paid is what Calculate made of the attendance and the advances the
\* run had read, however long it posts and whatever is written meanwhile.
WagesFollowTheReading == \A w \in wages : w.amount = Pay(w.run, w.employee)

\* A request that has begun is answered, although it may wait for rows that
\* others hold while they wait for its own.
EveryRunEnds ==
  \A f \in Finalizer :
    run[f].phase \in {"employees", "locking"} ~> run[f].phase \in Ended

\* payroll_preview_page.dart: "Once locked, payroll cannot be modified for this
\* period."  No day of an employee is paid by two runs.
PaidOnce ==
  \A v, w \in wages :
    v.employee = w.employee /\ Period[v.run] \cap Period[w.run] # {} => v = w
=============================================================================
