---------------------------- MODULE RegisterProofs ----------------------------
(***************************************************************************)
(* The two components built on the attendance register, payroll and leave  *)
(* approval, for every set of employees, days and requests: types and the  *)
(* register's promises; that a run pays all or nothing, and what it        *)
(* counted is frozen once its wages are there; and that an approval skips  *)
(* no day of its leave.                                                    *)
(***************************************************************************)
EXTENDS Payroll, LeaveApproval, FiniteSetTheorems, TLAPS

\* What a run pays is a natural number, for net pay is cut off at zero, unless
\* the request carries an adjustment.
LEMMA PayType ==
  ASSUME NEW f \in Finalizer, NEW e \in Employee PROVE Pay(f, e) \in Amounts(f, e)
<1>1. IsFiniteSet(Period[f]) /\ Rate[e] \in Nat /\ AdvanceAmount \in Nat
  BY PayrollAssumption
<1>2. Cardinality(PaidDays(run[f], f, e)) \in Nat
  BY <1>1, FS_Subset, FS_CardinalityType DEF PaidDays
<1> DEFINE days == {d \in Period[f] : <<e, d>> \in run[f].taken}
<1>3. Cardinality(days) \in Nat
  BY <1>1, FS_Subset, FS_CardinalityType
<1> DEFINE gross == Cardinality(PaidDays(run[f], f, e)) * Rate[e]
           owed == Cardinality(days) * AdvanceAmount
<1>4. gross \in Nat /\ owed \in Nat
  <2> HIDE DEF days
  <2>1. \A a, b \in Nat : a * b \in Nat
    OBVIOUS
  <2> QED
    BY <1>1, <1>2, <1>3, <2>1
<1>5. NetPayable(f, e) \in Nat
  <2>1. NetPayable(f, e) = IF gross > owed THEN gross - owed ELSE 0
    BY DEF NetPayable, Owed
  <2> HIDE DEF gross, owed
  <2> QED
    BY <1>4, <2>1
<1>6. e \in DOMAIN Adjust[f] => Adjust[f][e] \in Int
  BY PayrollAssumption
<1> QED
  BY <1>5, <1>6 DEF Pay, Amounts

\* Replacing the record of one request by another of the type.
LEMMA OneRunChanges ==
  ASSUME run \in [Finalizer -> Run], NEW f \in Finalizer, NEW r \in Run,
         run' = [run EXCEPT ![f] = r]
  PROVE  /\ run' \in [Finalizer -> Run]
         /\ run'[f] = r
         /\ \A g \in Finalizer : g # f => run'[g] = run[g]
OBVIOUS

-----------------------------------------------------------------------------
(* What each step of a request makes of its record *)

SameRows(f) == run'[f].wanted = run[f].wanted /\ run'[f].held = run[f].held

\* One query's result is stored, and the request moves on.
LEMMA ReadEffects ==
  ASSUME TypeOK, NEW f \in Finalizer
  PROVE  /\ ReadEmployees(f) =>
              /\ run'[f] \in Run
              /\ run'[f].phase = "employees" /\ run'[f].employees = active
              /\ run'[f].left = active /\ run'[f].seen = run[f].seen
              /\ run'[f].posted = run[f].posted /\ SameRows(f)
         /\ ReadAttendance(f) =>
              /\ run'[f] \in Run
              /\ run'[f].phase = "attendance" /\ run'[f].employees = run[f].employees
              /\ run'[f].left = run[f].left
              /\ \A c \in Cell : run'[f].seen[c] = IF RowInPeriod(f, c) THEN status[c]
                                                                        ELSE Unmarked
              /\ run'[f].posted = run[f].posted /\ SameRows(f)
         /\ ReadLedger(f) =>
              /\ run'[f] \in Run
              /\ run'[f].phase = "posting" /\ run'[f].employees = run[f].employees
              /\ run'[f].left = run[f].left /\ run'[f].seen = run[f].seen
              /\ run'[f].posted = run[f].posted /\ SameRows(f)
<1>1. run \in [Finalizer -> Run] /\ run[f] \in Run
  BY DEF TypeOK
<1>2. ASSUME ReadEmployees(f)
      PROVE  /\ run'[f] \in Run
             /\ run'[f].phase = "employees" /\ run'[f].employees = active
             /\ run'[f].left = active /\ run'[f].seen = run[f].seen
             /\ run'[f].posted = run[f].posted /\ SameRows(f)
  <2>1. run'[f] = [run[f] EXCEPT !.phase = "employees", !.employees = active,
                                 !.left = active]
    BY <1>1, <1>2 DEF ReadEmployees
  <2> QED
    BY <1>1, <2>1 DEF TypeOK, Run, Phases, SameRows
<1>3. ASSUME ReadAttendance(f)
      PROVE  /\ run'[f] \in Run
             /\ run'[f].phase = "attendance" /\ run'[f].employees = run[f].employees
             /\ run'[f].left = run[f].left
             /\ \A c \in Cell : run'[f].seen[c] = IF RowInPeriod(f, c) THEN status[c]
                                                                       ELSE Unmarked
             /\ run'[f].posted = run[f].posted /\ SameRows(f)
  <2> DEFINE table == [c \in Cell |-> IF RowInPeriod(f, c) THEN status[c] ELSE Unmarked]
  <2>1. run'[f] = [run[f] EXCEPT !.phase = "attendance", !.seen = table]
    BY <1>1, <1>3 DEF ReadAttendance
  <2>2. table \in [Cell -> Status \cup {Unmarked}]
    BY DEF TypeOK, RegisterTypeOK
  <2>3. \A c \in Cell : table[c] = IF RowInPeriod(f, c) THEN status[c] ELSE Unmarked
    OBVIOUS
  <2> HIDE DEF table
  <2> QED
    BY <1>1, <2>1, <2>2, <2>3 DEF Run, Phases, SameRows
<1>4. ASSUME ReadLedger(f)
      PROVE  /\ run'[f] \in Run
             /\ run'[f].phase = "posting" /\ run'[f].employees = run[f].employees
             /\ run'[f].left = run[f].left /\ run'[f].seen = run[f].seen
             /\ run'[f].posted = run[f].posted /\ SameRows(f)
  <2> DEFINE rows == {c \in advances : RowInPeriod(f, c)}
  <2>1. run'[f] = [run[f] EXCEPT !.phase = "posting", !.taken = rows]
    BY <1>1, <1>4 DEF ReadLedger
  <2>2. rows \subseteq Cell
    BY DEF TypeOK
  <2> HIDE DEF rows
  <2> QED
    BY <1>1, <2>1, <2>2 DEF Run, Phases, SameRows
<1> QED
  BY <1>2, <1>3, <1>4

\* The record keeps what was read and what was posted.
SameReading(f) ==
  /\ run'[f].employees = run[f].employees /\ run'[f].left = run[f].left
  /\ run'[f].seen = run[f].seen /\ run'[f].taken = run[f].taken
  /\ run'[f].posted = run[f].posted

\* The rows, one at a time.
LEMMA RowEffects ==
  ASSUME TypeOK, NEW f \in Finalizer
  PROVE  /\ BeginLock(f) =>
              /\ run'[f] \in Run
              /\ run'[f].phase = "locking" /\ SameReading(f)
              /\ run'[f].wanted = RowsOfPeriod(f)
              /\ run'[f].held = run[f].held /\ run'[f].waits = run[f].waits
         /\ \A c \in Cell : LockRow(f, c) =>
              /\ run'[f] \in Run
              /\ run'[f].phase = "locking" /\ SameReading(f)
              /\ run'[f].wanted = run[f].wanted
              /\ run'[f].held = run[f].held \cup {c} /\ run'[f].waits = {}
         /\ \A c \in Cell : WaitForRow(f, c) =>
              /\ run'[f] \in Run
              /\ run'[f].phase = "locking" /\ SameReading(f)
              /\ run'[f].wanted = run[f].wanted
              /\ run'[f].held = run[f].held /\ run'[f].waits = {c}
<1>1. run \in [Finalizer -> Run]
  BY DEF TypeOK
<1>2. PICK k : k = run[f]
  OBVIOUS
<1>3. k \in Run
  BY <1>1, <1>2
<1>4. ASSUME BeginLock(f)
      PROVE  /\ run'[f] \in Run
             /\ run'[f].phase = "locking" /\ SameReading(f)
             /\ run'[f].wanted = RowsOfPeriod(f)
             /\ run'[f].held = run[f].held /\ run'[f].waits = run[f].waits
  <2>1. PICK rows : rows = RowsOfPeriod(f)
    OBVIOUS
  <2>2. rows \subseteq Cell
    BY <2>1 DEF RowsOfPeriod, Marked
  <2>3. run'[f] = [k EXCEPT !.phase = "locking", !.wanted = rows]
    BY <1>1, <1>2, <1>4, <2>1 DEF BeginLock
  <2> QED
    BY <1>2, <1>3, <2>1, <2>2, <2>3 DEF Run, Phases, SameReading
<1>5. ASSUME NEW c \in Cell, LockRow(f, c)
      PROVE  /\ run'[f] \in Run
             /\ run'[f].phase = "locking" /\ SameReading(f)
             /\ run'[f].wanted = run[f].wanted
             /\ run'[f].held = run[f].held \cup {c} /\ run'[f].waits = {}
  <2>1. PICK rows : rows = k.held \cup {c}
    OBVIOUS
  <2>2. rows \subseteq Cell /\ k.phase = "locking"
    BY <1>2, <1>3, <1>5, <2>1 DEF LockRow, Run
  <2>3. run'[f] = [k EXCEPT !.held = rows, !.waits = {}]
    BY <1>1, <1>2, <1>5, <2>1 DEF LockRow
  <2> QED
    BY <1>2, <1>3, <2>1, <2>2, <2>3 DEF Run, SameReading
<1>6. ASSUME NEW c \in Cell, WaitForRow(f, c)
      PROVE  /\ run'[f] \in Run
             /\ run'[f].phase = "locking" /\ SameReading(f)
             /\ run'[f].wanted = run[f].wanted
             /\ run'[f].held = run[f].held /\ run'[f].waits = {c}
  <2>1. run'[f] = [k EXCEPT !.waits = {c}] /\ k.phase = "locking"
    BY <1>1, <1>2, <1>6 DEF WaitForRow
  <2> QED
    BY <1>2, <1>3, <2>1 DEF Run, SameReading
<1> QED
  BY <1>4, <1>5, <1>6

\* The other statements of the transaction.
LEMMA TransactionEffects ==
  ASSUME TypeOK, NEW f \in Finalizer
  PROVE  /\ \A e \in Employee : InsertWage(f, e) =>
              /\ run'[f] \in Run
              /\ run'[f].phase = "posting" /\ run'[f].employees = run[f].employees
              /\ run'[f].left = run[f].left \ {e} /\ run'[f].seen = run[f].seen
              /\ run'[f].posted = run[f].posted \cup {WageFor(f, e)}
              /\ run'[f].held = run[f].held /\ run'[f].wanted = run[f].wanted
         /\ Commit(f) =>
              /\ run'[f] \in Run
              /\ run'[f].phase = "done" /\ SameReading(f)
              /\ run'[f].wanted = {} /\ run'[f].held = {}
<1>1. run \in [Finalizer -> Run] /\ run[f] \in Run
  BY DEF TypeOK
<1>2. ASSUME NEW e \in Employee, InsertWage(f, e)
      PROVE  /\ run'[f] \in Run
             /\ run'[f].phase = "posting" /\ run'[f].employees = run[f].employees
             /\ run'[f].left = run[f].left \ {e} /\ run'[f].seen = run[f].seen
             /\ run'[f].posted = run[f].posted \cup {WageFor(f, e)}
             /\ run'[f].held = run[f].held /\ run'[f].wanted = run[f].wanted
  <2>1. /\ run'[f] = [run[f] EXCEPT !.left = run[f].left \ {e},
                                    !.posted = run[f].posted \cup {WageFor(f, e)}]
        /\ run[f].phase = "posting"
    BY <1>1, <1>2 DEF InsertWage, Inserted
  <2>2. WageFor(f, e) \in Wage
    <3>1. PICK p : p = Pay(f, e)
      OBVIOUS
    <3>2. p \in Amounts(f, e) /\ p \in Int
      BY <3>1, PayType DEF Amounts
    <3>3. WageFor(f, e) = [run |-> f, employee |-> e, amount |-> p]
      BY <3>1 DEF WageFor
    <3> QED
      BY <3>2, <3>3 DEF Wage
  <2> DEFINE l == run[f].left \ {e}
             p == run[f].posted \cup {WageFor(f, e)}
  <2>3. l \in SUBSET Employee /\ p \in SUBSET Wage
    BY <1>1, <2>2 DEF Run
  <2> HIDE DEF l, p
  <2>4. run'[f] = [run[f] EXCEPT !.left = l, !.posted = p]
    BY <2>1 DEF l, p
  <2>5. /\ run'[f] \in Run
        /\ run'[f].phase = run[f].phase /\ run'[f].employees = run[f].employees
        /\ run'[f].left = l /\ run'[f].seen = run[f].seen
        /\ run'[f].posted = p /\ run'[f].held = run[f].held
        /\ run'[f].wanted = run[f].wanted
    BY <1>1, <2>3, <2>4 DEF Run
  <2> QED
    BY <2>1, <2>5 DEF l, p
<1>3. ASSUME Commit(f)
      PROVE  /\ run'[f] \in Run
             /\ run'[f].phase = "done" /\ SameReading(f)
             /\ run'[f].wanted = {} /\ run'[f].held = {}
  <2>1. run'[f] = [run[f] EXCEPT !.phase = "done", !.wanted = {}, !.held = {}]
    BY <1>1, <1>3 DEF Commit, Committed
  <2> QED
    BY <1>1, <2>1 DEF Run, Phases, SameReading
<1> QED
  BY <1>2, <1>3

\* A run that stops early keeps neither inserts nor rows.
LEMMA AbandonedShape ==
  ASSUME NEW r \in Run, NEW p \in Phases
  PROVE  /\ Abandoned(r, p) \in Run
         /\ Abandoned(r, p).phase = p /\ Abandoned(r, p).seen = r.seen
         /\ Abandoned(r, p).posted = {} /\ Abandoned(r, p).held = {}
         /\ Abandoned(r, p).wanted = {}
BY DEF Abandoned, Run

LEMMA AbandonEffect ==
  ASSUME TypeOK, NEW f \in Finalizer, NEW p \in {"refused", "aborted"},
         run' = [run EXCEPT ![f] = Abandoned(run[f], p)]
  PROVE  /\ run'[f] \in Run
         /\ run'[f].phase = p /\ run'[f].seen = run[f].seen
         /\ run'[f].posted = {} /\ run'[f].held = {} /\ run'[f].wanted = {}
<1>1. run[f] \in Run /\ run'[f] = Abandoned(run[f], p)
  BY DEF TypeOK
<1>2. p \in Phases
  BY DEF Phases
<1> QED
  BY <1>1, <1>2, AbandonedShape

-----------------------------------------------------------------------------
(* The register below *)

\* Every step marks one free cell, freezes marked cells, or leaves the
\* register alone.
LEMMA RegisterStep == [Next]_vars => [RegisterNext]_register
<1> SUFFICES ASSUME [Next]_vars PROVE RegisterNext \/ UNCHANGED register
  OBVIOUS
<1>1. ASSUME NEW f \in Finalizer, Work(f) PROVE RegisterNext \/ UNCHANGED register
  BY <1>1 DEF Work, ReadEmployees, ReadAttendance, ReadLedger, InsertWage,
              RefuseInsert, BeginLock, LockRow, WaitForRow, BreakDeadlock,
              Commit, RegisterNext, Freeze
<1>2. ASSUME NEW f \in Finalizer, Abort(f) PROVE UNCHANGED register
  BY <1>2 DEF Abort
<1>3. ASSUME NEW c \in Cell, NEW s \in Status, MarkDay(c, s) PROVE RegisterNext
  BY <1>3 DEF MarkDay, RegisterNext
<1> QED
  BY <1>1, <1>2, <1>3 DEF Next, vars, register, GrantAdvance, SetActive

\* Rows do not vanish and locks are not undone.
LEMMA RegisterGrows ==
  ASSUME RegisterTypeOK, [RegisterNext]_register
  PROVE  RegisterTypeOK' /\ Marked \subseteq Marked' /\ frozen \subseteq frozen'
<1>1. ASSUME NEW c \in Cell, NEW s \in Status, SetStatus(c, s)
      PROVE  RegisterTypeOK' /\ Marked \subseteq Marked' /\ frozen \subseteq frozen'
  <2>1. s # Unmarked
    BY UnmarkedIsNoStatus
  <2> QED
    BY <1>1, <2>1 DEF SetStatus, RegisterTypeOK, Marked
<1>2. ASSUME NEW cells \in SUBSET Marked, Freeze(cells)
      PROVE  RegisterTypeOK' /\ Marked \subseteq Marked' /\ frozen \subseteq frozen'
  BY <1>2 DEF Freeze, RegisterTypeOK, Marked
<1>3. CASE UNCHANGED register
  BY <1>3 DEF register, RegisterTypeOK, Marked
<1> QED
  BY <1>1, <1>2, <1>3 DEF RegisterNext

-----------------------------------------------------------------------------
(* Type correctness *)

\* A step of the request f changes its record, and only that one.
LEMMA OnlyOwnRun ==
  ASSUME TypeOK, NEW f \in Finalizer, Work(f) \/ Abort(f)
  PROVE  /\ run' \in [Finalizer -> Run]
         /\ \A g \in Finalizer : g # f => run'[g] = run[g]
<1>1. run'[f] \in Run
  BY ReadEffects, RowEffects, TransactionEffects, AbandonEffect
     DEF Work, RefuseInsert, BreakDeadlock, Abort
<1>2. \E r : run' = [run EXCEPT ![f] = r]
  BY DEF Work, ReadEmployees, ReadAttendance, ReadLedger, InsertWage,
         RefuseInsert, BeginLock, LockRow, WaitForRow, BreakDeadlock,
              Commit, Abort
<1> QED
  BY <1>1, <1>2 DEF TypeOK

\* Every step keeps the types.
LEMMA TypeStep == TypeOK /\ [Next]_vars => TypeOK'
<1> SUFFICES ASSUME TypeOK, [Next]_vars PROVE TypeOK'
  OBVIOUS
<1>1. RegisterTypeOK'
  BY RegisterStep, RegisterGrows DEF TypeOK
<1>2. ASSUME NEW f \in Finalizer, Work(f) \/ Abort(f)
      PROVE  /\ run' \in [Finalizer -> Run]
             /\ active' \subseteq Employee /\ advances' \subseteq Cell
             /\ wages' \subseteq Wage
  <2>1. run' \in [Finalizer -> Run]
    BY <1>2, OnlyOwnRun
  <2>2. active' = active /\ advances' = advances
    BY <1>2 DEF Work, ReadEmployees, ReadAttendance, ReadLedger, InsertWage,
                RefuseInsert, BeginLock, LockRow, WaitForRow, BreakDeadlock,
              Commit, Abort, others
  <2>3. wages' \in {wages, wages \cup run[f].posted}
    BY <1>2 DEF Work, ReadEmployees, ReadAttendance, ReadLedger, InsertWage,
                RefuseInsert, BeginLock, LockRow, WaitForRow, BreakDeadlock,
              Commit, Abort, others
  <2>4. run[f].posted \subseteq Wage
    BY DEF TypeOK, Run
  <2> QED
    BY <2>1, <2>2, <2>3, <2>4 DEF TypeOK
<1>3. ASSUME NEW c \in Cell, NEW s \in Status, MarkDay(c, s)
      PROVE  UNCHANGED <<others, run>>
  BY <1>3 DEF MarkDay
<1>5. ASSUME NEW c \in Cell, GrantAdvance(c)
      PROVE  advances' \subseteq Cell /\ UNCHANGED <<active, wages, run>>
  BY <1>5 DEF GrantAdvance, TypeOK
<1>6. ASSUME NEW e \in Employee, SetActive(e)
      PROVE  active' \subseteq Employee /\ UNCHANGED <<advances, wages, run>>
  BY <1>6 DEF SetActive, TypeOK
<1> QED
  BY <1>1, <1>2, <1>3, <1>5, <1>6 DEF Next, TypeOK, vars, others

\* The records of the requests, the wages and the register keep their types.
THEOREM TypeCorrect == Spec => []TypeOK
<1>1. Init => TypeOK
  <2>1. NewRun \in Run
    BY DEF NewRun, Run, Blank, Phases
  <2> QED
    BY <2>1, UnmarkedIsNoStatus DEF Init, RegisterInit, TypeOK, RegisterTypeOK, Marked
<1> QED
  BY <1>1, TypeStep, PTL DEF Spec

-----------------------------------------------------------------------------
(* All or nothing, and what is frozen *)

\* The inserts of the request f cover exactly the employees it has dealt with,
\* and are visible once it is done, never before.
PostingOK(f) ==
  /\ \A w \in run[f].posted : w.run = f
  /\ \A v, w \in run[f].posted : v.employee = w.employee => v = w
  /\ run[f].phase = "idle" => run[f].posted = {} /\ run[f].left = {}
  /\ run[f].phase \notin {"refused", "aborted"} =>
       /\ {w.employee : w \in run[f].posted} = run[f].employees \ run[f].left
       /\ run[f].left \subseteq run[f].employees
  /\ run[f].phase \in {"locking", "done"} => run[f].left = {}
  /\ WagesOf(f) = IF run[f].phase = "done" THEN run[f].posted ELSE {}

\* The rows the request f counted exist, the UPDATE is to lock them all, and they
\* are frozen once it has committed.
CountedOK(f) ==
  /\ \A c \in Cell : run[f].seen[c] # Unmarked => c \in Marked /\ RowInPeriod(f, c)
  /\ run[f].held \subseteq run[f].wanted /\ run[f].wanted \subseteq Marked
  /\ run[f].phase # "locking" => run[f].wanted = {}
  /\ run[f].phase = "locking" =>
       \A c \in Cell : run[f].seen[c] # Unmarked => c \in run[f].wanted
  /\ run[f].phase = "done" =>
       \A c \in Cell : run[f].seen[c] # Unmarked => c \in frozen

RunInvariant == \A f \in Finalizer : PostingOK(f) /\ CountedOK(f)

\* What the requests, Work and Abort, do to the wages of each run.
LEMMA WagesMove ==
  ASSUME TypeOK, RunInvariant, NEW f \in Finalizer, Work(f) \/ Abort(f), NEW g \in Finalizer
  PROVE  WagesOf(g)' = IF Commit(f) /\ g = f THEN run[f].posted ELSE WagesOf(g)
<1>1. CASE Commit(f)
  <2>1. wages' = wages \cup run[f].posted /\ run[f].phase = "locking"
    BY <1>1 DEF Commit
  <2>2. \A w \in run[f].posted : w.run = f
    BY DEF RunInvariant, PostingOK
  <2>3. WagesOf(f) = {}
    BY <2>1 DEF RunInvariant, PostingOK
  <2> QED
    BY <1>1, <2>1, <2>2, <2>3 DEF WagesOf
<1>2. CASE ~Commit(f)
  BY <1>2 DEF Work, ReadEmployees, ReadAttendance, ReadLedger, InsertWage,
              RefuseInsert, BeginLock, LockRow, WaitForRow, BreakDeadlock,
              Abort, others, WagesOf
<1> QED
  BY <1>1, <1>2

\* A run that a step does not touch stays as it was, in a register that grows.
LEMMA OtherRunKept ==
  ASSUME TypeOK, RegisterTypeOK', Marked \subseteq Marked', frozen \subseteq frozen',
         NEW g \in Finalizer, PostingOK(g), CountedOK(g),
         run'[g] = run[g], WagesOf(g)' = WagesOf(g)
  PROVE  PostingOK(g)' /\ CountedOK(g)'
<1>1. PostingOK(g)'
  BY DEF PostingOK
<1>2. CountedOK(g)'
  BY DEF CountedOK, RowInPeriod
<1> QED
  BY <1>1, <1>2

\* The inserts of a step of the request f are accounted for.
LEMMA PostingStep ==
  ASSUME TypeOK, RunInvariant, NEW f \in Finalizer, Work(f) \/ Abort(f)
  PROVE  PostingOK(f)'
<1>1. PostingOK(f) /\ run[f] \in Run
  BY DEF RunInvariant, TypeOK
<1>2. WagesOf(f)' = IF Commit(f) THEN run[f].posted ELSE WagesOf(f)
  BY WagesMove
<1>3. CASE ReadEmployees(f)
  <2>1. ~Commit(f) /\ run[f].phase = "idle"
    BY <1>3 DEF ReadEmployees, Commit
  <2> QED
    BY <1>1, <1>2, <1>3, <2>1, ReadEffects DEF PostingOK
<1>4. CASE ReadAttendance(f)
  <2>1. ~Commit(f) /\ run[f].phase = "employees"
    BY <1>4 DEF ReadAttendance, Commit
  <2> QED
    BY <1>1, <1>2, <1>4, <2>1, ReadEffects DEF PostingOK
<1>5. CASE ReadLedger(f)
  <2>1. ~Commit(f) /\ run[f].phase = "attendance"
    BY <1>5 DEF ReadLedger, Commit
  <2> QED
    BY <1>1, <1>2, <1>5, <2>1, ReadEffects DEF PostingOK
<1>6. ASSUME NEW e \in Employee, InsertWage(f, e) PROVE PostingOK(f)'
  <2>1. ~Commit(f) /\ run[f].phase = "posting" /\ e \in run[f].left
    BY <1>6 DEF InsertWage, Commit
  <2> DEFINE n == WageFor(f, e)
  <2>2. n.run = f /\ n.employee = e
    BY DEF WageFor
  <2> HIDE DEF n
  <2>3. /\ run'[f].phase = "posting" /\ run'[f].employees = run[f].employees
        /\ run'[f].left = run[f].left \ {e}
        /\ run'[f].posted = run[f].posted \cup {n}
    BY <1>6, TransactionEffects DEF n
  <2>4. \A w \in run[f].posted : w.employee # e
    BY <1>1, <2>1 DEF PostingOK
  <2>5. \A v, w \in run'[f].posted : v.employee = w.employee => v = w
    BY <1>1, <2>2, <2>3, <2>4 DEF PostingOK
  <2>6. {w.employee : w \in run'[f].posted} = run'[f].employees \ run'[f].left
    BY <1>1, <2>1, <2>2, <2>3 DEF PostingOK
  <2> QED
    BY <1>1, <1>2, <2>1, <2>2, <2>3, <2>5, <2>6 DEF PostingOK
<1>7. CASE RefuseInsert(f) \/ BreakDeadlock(f) \/ Abort(f)
  <2>2. run'[f].phase \in {"refused", "aborted"} /\ run'[f].posted = {}
    BY <1>7, AbandonEffect DEF RefuseInsert, BreakDeadlock, Abort
  <2>3. ~Commit(f)
    BY <2>2, TransactionEffects
  <2>4. WagesOf(f)' = {}
    <3>1. wages' = wages
      BY <1>7 DEF RefuseInsert, BreakDeadlock, Abort, others
    <3>2. run[f].phase # "done"
      BY <1>7 DEF RefuseInsert, BreakDeadlock, Abort, Ended
    <3> QED
      BY <1>1, <1>2, <2>3, <3>2 DEF PostingOK
  <2> QED
    BY <1>1, <1>2, <2>2, <2>3, <2>4 DEF PostingOK
<1>8. CASE BeginLock(f)
  <2>1. /\ ~Commit(f) /\ run[f].left = {}
        /\ run[f].phase \in {"idle", "posting"}
    BY <1>1, <1>8 DEF BeginLock, Commit, PostingOK
  <2> QED
    BY <1>1, <1>2, <1>8, <2>1, RowEffects DEF PostingOK, SameReading
<1>9. ASSUME NEW c \in Cell, LockRow(f, c) \/ WaitForRow(f, c) PROVE PostingOK(f)'
  <2>1. run[f].phase = "locking" /\ run'[f].phase = "locking" /\ SameReading(f)
    BY <1>9, RowEffects DEF LockRow, WaitForRow
  <2>2. ~Commit(f)
    BY <2>1, TransactionEffects
  <2> QED
    BY <1>1, <1>2, <2>1, <2>2 DEF PostingOK, SameReading
<1>10. CASE Commit(f)
  <2>1. run[f].phase = "locking"
    BY <1>10 DEF Commit
  <2> QED
    BY <1>1, <1>2, <1>10, <2>1, TransactionEffects DEF PostingOK, SameReading
<1> QED
  BY <1>3, <1>4, <1>5, <1>6, <1>7, <1>8, <1>9, <1>10 DEF Work

\* What the request f has counted stays there, and ends up frozen.
LEMMA CountedStep ==
  ASSUME TypeOK, RunInvariant, NEW f \in Finalizer, Work(f) \/ Abort(f),
         Marked \subseteq Marked', frozen \subseteq frozen'
  PROVE  CountedOK(f)'
<1>1. CountedOK(f) /\ run[f] \in Run
  BY DEF RunInvariant, TypeOK
<1>2. CASE ReadEmployees(f)
  <2>1. run[f].phase = "idle"
    BY <1>2 DEF ReadEmployees
  <2> QED
    BY <1>1, <1>2, <2>1, ReadEffects DEF CountedOK, RowInPeriod, SameRows
<1>3. CASE ReadAttendance(f)
  <2>1. \A c \in Cell : run'[f].seen[c] # Unmarked => c \in Marked /\ RowInPeriod(f, c)
    BY <1>3, ReadEffects DEF Marked
  <2>2. run[f].phase = "employees"
    BY <1>3 DEF ReadAttendance
  <2> QED
    BY <1>1, <1>3, <2>1, <2>2, ReadEffects DEF CountedOK, RowInPeriod, SameRows
<1>4. CASE ReadLedger(f)
  <2>1. run[f].phase = "attendance"
    BY <1>4 DEF ReadLedger
  <2> QED
    BY <1>1, <1>4, <2>1, ReadEffects DEF CountedOK, RowInPeriod, SameRows
<1>5. ASSUME NEW e \in Employee, InsertWage(f, e) PROVE CountedOK(f)'
  <2>1. run[f].phase = "posting"
    BY <1>5 DEF InsertWage
  <2> QED
    BY <1>1, <1>5, <2>1, TransactionEffects DEF CountedOK, RowInPeriod
<1>6. CASE RefuseInsert(f) \/ BreakDeadlock(f) \/ Abort(f)
  <2>1. /\ run'[f].phase \in {"refused", "aborted"} /\ run'[f].seen = run[f].seen
        /\ run'[f].held = {} /\ run'[f].wanted = {}
    BY <1>6, AbandonEffect DEF RefuseInsert, BreakDeadlock, Abort
  <2> QED
    BY <1>1, <2>1 DEF CountedOK, RowInPeriod
<1>7. CASE BeginLock(f)
  <2>1. /\ run'[f].held = {} /\ run'[f].wanted = {c \in Marked : RowInPeriod(f, c)}
        /\ run'[f].seen = run[f].seen /\ run'[f].phase = "locking"
    BY <1>1, <1>7, RowEffects DEF RowsOfPeriod, SameReading, CountedOK, BeginLock
  <2> QED
    BY <1>1, <2>1 DEF CountedOK, RowInPeriod
<1>8. ASSUME NEW c \in Cell, LockRow(f, c) \/ WaitForRow(f, c) PROVE CountedOK(f)'
  <2>1. /\ run[f].phase = "locking" /\ run'[f].phase = "locking" /\ SameReading(f)
        /\ run'[f].wanted = run[f].wanted /\ c \in run[f].wanted
        /\ run'[f].held \subseteq run[f].held \cup {c}
    BY <1>8, RowEffects DEF LockRow, WaitForRow
  <2> QED
    BY <1>1, <2>1 DEF CountedOK, RowInPeriod, SameReading
<1>9. CASE Commit(f)
  <2>1. /\ frozen' = frozen \cup run[f].held /\ run[f].phase = "locking"
        /\ run[f].held = run[f].wanted
    BY <1>9 DEF Commit, Freeze
  <2> QED
    BY <1>1, <1>9, <2>1, TransactionEffects DEF CountedOK, RowInPeriod, SameReading
<1> QED
  BY <1>2, <1>3, <1>4, <1>5, <1>6, <1>7, <1>8, <1>9 DEF Work

\* Every step keeps the invariant of the runs.
LEMMA RunStep == TypeOK /\ RunInvariant /\ [Next]_vars => RunInvariant'
<1> SUFFICES ASSUME TypeOK, RunInvariant, [Next]_vars, NEW g \in Finalizer
             PROVE  PostingOK(g)' /\ CountedOK(g)'
  BY DEF RunInvariant
<1>1. RegisterTypeOK' /\ Marked \subseteq Marked' /\ frozen \subseteq frozen'
  BY RegisterStep, RegisterGrows DEF TypeOK
<1>2. PostingOK(g) /\ CountedOK(g)
  BY DEF RunInvariant
<1>3. ASSUME NEW f \in Finalizer, Work(f) \/ Abort(f)
      PROVE  PostingOK(g)' /\ CountedOK(g)'
  <2>1. CASE g = f
    BY <1>1, <1>3, <2>1, PostingStep, CountedStep
  <2>2. CASE g # f
    BY <1>1, <1>2, <1>3, <2>2, OnlyOwnRun, WagesMove, OtherRunKept
  <2> QED
    BY <2>1, <2>2
<1>4. CASE UNCHANGED <<wages, run>>
  <2>1. run'[g] = run[g] /\ WagesOf(g)' = WagesOf(g)
    BY <1>4 DEF WagesOf
  <2> QED
    BY <1>1, <1>2, <2>1, OtherRunKept
<1> QED
  BY <1>3, <1>4 DEF Next, MarkDay, GrantAdvance, SetActive, vars, others

\* The invariant holds of every reachable state.
LEMMA RunsInvariant == Spec => [](TypeOK /\ RunInvariant)
<1>1. Init => RunInvariant
  <2> SUFFICES ASSUME Init, NEW f \in Finalizer PROVE PostingOK(f) /\ CountedOK(f)
    BY DEF RunInvariant
  <2>1. run[f] = NewRun /\ wages = {}
    BY DEF Init
  <2> QED
    BY <2>1 DEF NewRun, Blank, PostingOK, CountedOK, WagesOf
<1> QED
  BY <1>1, RunStep, TypeCorrect, PTL DEF Spec

\* However many finalizations run and fail: one that stopped has posted
\* nothing, one that committed has paid everyone it read.
THEOREM RunsPayAllOrNothing == Spec => []PaysAllOrNothing
<1>1. TypeOK /\ RunInvariant => PaysAllOrNothing
  <2> SUFFICES ASSUME RunInvariant, NEW f \in Finalizer
               PROVE  /\ run[f].phase \in {"refused", "aborted"} => WagesOf(f) = {}
                      /\ run[f].phase = "done" =>
                           {w.employee : w \in WagesOf(f)} = run[f].employees
    BY DEF PaysAllOrNothing
  <2> QED
    BY DEF RunInvariant, PostingOK
<1> QED
  BY <1>1, RunsInvariant, PTL

\* Every attendance row a committed run was paid from is frozen for good.
THEOREM CountedRowsAreFrozen == Spec => []CountedRowsFrozen
<1>1. TypeOK /\ RunInvariant => CountedRowsFrozen
  BY DEF RunInvariant, CountedOK, CountedRowsFrozen
<1> QED
  BY <1>1, RunsInvariant, PTL

\* What a request has computed depends on what it has read, and on nothing else.
LEMMA SamePay ==
  ASSUME NEW f \in Finalizer, NEW e \in Employee,
         run'[f].seen = run[f].seen, run'[f].taken = run[f].taken
  PROVE  Pay(f, e)' = Pay(f, e)
BY DEF Pay, NetPayable, PaidDays, Owed

\* Nothing is posted before all has been read, and what is posted is the pay.
Computed(f) ==
  /\ run[f].phase \in {"idle", "employees", "attendance"} => run[f].posted = {}
  /\ \A w \in run[f].posted : w.amount = Pay(f, w.employee)

\* The request f goes on, or another one does.
LEMMA ComputedStep ==
  ASSUME TypeOK, NEW f \in Finalizer, Computed(f), [Next]_vars
  PROVE  Computed(f)'
<1>1. run \in [Finalizer -> Run] /\ run[f] \in Run
  BY DEF TypeOK
<1>2. ASSUME run'[f].seen = run[f].seen, run'[f].taken = run[f].taken
      PROVE  \A w \in run[f].posted : Pay(f, w.employee)' = w.amount
  BY <1>1, <1>2, SamePay DEF Computed, Run, Wage
<1>3. ASSUME run'[f].posted = {} PROVE Computed(f)'
  BY <1>3 DEF Computed
<1>4. CASE run'[f] = run[f]
  BY <1>2, <1>4 DEF Computed
<1>5. ASSUME ReadEmployees(f) \/ ReadAttendance(f) \/ ReadLedger(f) PROVE Computed(f)'
  <2>1. run[f].posted = {}
    BY <1>5 DEF ReadEmployees, ReadAttendance, ReadLedger, Computed
  <2> QED
    BY <1>3, <1>5, <2>1, ReadEffects
<1>6. ASSUME NEW e \in Employee, InsertWage(f, e) PROVE Computed(f)'
  <2>1. run'[f] = Inserted(f, e) /\ run[f].phase = "posting"
    BY <1>1, <1>6 DEF InsertWage
  <2>2. /\ run'[f].seen = run[f].seen /\ run'[f].taken = run[f].taken
        /\ run'[f].posted = run[f].posted \cup {WageFor(f, e)}
        /\ run'[f].phase = "posting"
    BY <1>1, <2>1 DEF Inserted, Run
  <2>3. /\ WageFor(f, e).amount = Pay(f, e) /\ WageFor(f, e).employee = e
        /\ Pay(f, e)' = Pay(f, e)
    BY <2>2, SamePay DEF WageFor
  <2>4. \A w \in run'[f].posted : w.amount = Pay(f, w.employee)'
    BY <1>2, <2>2, <2>3
  <2> QED
    BY <2>2, <2>4 DEF Computed
<1>7. ASSUME \/ BeginLock(f) \/ Commit(f)
             \/ \E c \in Cell : LockRow(f, c) \/ WaitForRow(f, c)
      PROVE  Computed(f)'
  <2>1. SameReading(f) /\ run'[f].phase \in {"locking", "done"}
    BY <1>7, RowEffects, TransactionEffects
  <2> QED
    BY <1>2, <2>1 DEF Computed, SameReading
<1>8. ASSUME RefuseInsert(f) \/ BreakDeadlock(f) \/ Abort(f) PROVE Computed(f)'
  BY <1>3, <1>8, AbandonEffect DEF RefuseInsert, BreakDeadlock, Abort
<1>9. ASSUME NEW g \in Finalizer, Work(g) \/ Abort(g) PROVE Computed(f)'
  <2>1. CASE g = f
    BY <1>5, <1>6, <1>7, <1>8, <1>9, <2>1 DEF Work
  <2>2. CASE g # f
    BY <1>4, <1>9, <2>2, OnlyOwnRun
  <2> QED
    BY <2>1, <2>2
<1> QED
  BY <1>4, <1>9 DEF Next, MarkDay, GrantAdvance, SetActive, vars, others

\* A wage is the pay that follows from what its run has read: neither the marks
\* and advances that arrive while it posts nor another run change the amount.
THEOREM WagesFollowReadings == Spec => []WagesFollowTheReading
<1> DEFINE AllComputed == \A f \in Finalizer : Computed(f)
<1>1. Init => AllComputed
  BY DEF Init, NewRun, Computed
<1>2. TypeOK /\ AllComputed /\ [Next]_vars => AllComputed'
  BY ComputedStep
<1>3. TypeOK /\ RunInvariant /\ AllComputed => WagesFollowTheReading
  <2> SUFFICES ASSUME TypeOK, RunInvariant, AllComputed, NEW w \in wages
               PROVE  w.amount = Pay(w.run, w.employee)
    BY DEF WagesFollowTheReading
  <2>1. PICK f \in Finalizer : f = w.run
    BY DEF TypeOK, Wage
  <2>2. w \in run[f].posted
    BY <2>1 DEF WagesOf, RunInvariant, PostingOK
  <2> QED
    BY <2>1, <2>2 DEF Computed
<1> HIDE DEF AllComputed
<1> QED
  BY <1>1, <1>2, <1>3, RunsInvariant, PTL DEF Spec

\* The wages of a run appear in one step, one per employee, and in that step
\* the attendance they were counted from is frozen.
THEOREM WagesAppearAtOnce == Spec => WagesAppearTogether
<1> DEFINE Together(f) ==
      WagesOf(f)' # WagesOf(f) =>
        /\ WagesOf(f) = {}
        /\ \A e \in run[f].employees : \E w \in WagesOf(f)' :
             {v \in WagesOf(f)' : v.employee = e} = {w}
        /\ \A c \in Cell : run[f].seen[c] # Unmarked => c \in frozen'
<1>1. ASSUME TypeOK, RunInvariant, [Next]_vars, NEW g \in Finalizer PROVE Together(g)
  <2>1. ASSUME NEW f \in Finalizer, Work(f) \/ Abort(f), WagesOf(g)' # WagesOf(g)
        PROVE  Together(g)
    <3>1. Commit(f) /\ g = f /\ WagesOf(g)' = run[g].posted
      BY <1>1, <2>1, WagesMove
    <3>2. PostingOK(g) /\ CountedOK(g) /\ run[g].phase = "locking"
          /\ run[g].held = run[g].wanted /\ frozen' = frozen \cup run[g].held
      BY <1>1, <3>1 DEF RunInvariant, Commit, Freeze
    <3>3. ASSUME NEW e \in run[g].employees
          PROVE  \E w \in WagesOf(g)' : {v \in WagesOf(g)' : v.employee = e} = {w}
      <4>1. PICK w \in run[g].posted : w.employee = e
        BY <3>2 DEF PostingOK
      <4>2. {v \in run[g].posted : v.employee = e} = {w}
        BY <3>2, <4>1 DEF PostingOK
      <4> QED
        BY <3>1, <4>1, <4>2
    <3> QED
      BY <3>2, <3>3 DEF PostingOK, CountedOK
  <2>2. CASE UNCHANGED wages
    BY <2>2 DEF WagesOf
  <2> QED
    BY <1>1, <2>1, <2>2 DEF Next, MarkDay, GrantAdvance, SetActive, vars, others
<1>2. TypeOK /\ RunInvariant /\ [Next]_vars => [\A f \in Finalizer : Together(f)]_vars
  BY <1>1
<1> QED
  BY <1>2, RunsInvariant, PTL DEF Spec, WagesAppearTogether

-----------------------------------------------------------------------------
(* Rows that are locked, and not yet committed *)

\* A row is held by one request at a time.
RowLocks ==
  \A f, g \in Finalizer : f # g => run[f].held \cap run[g].held = {}

LEMMA RowLocksStep == TypeOK /\ RunInvariant /\ RowLocks /\ [Next]_vars => RowLocks'
<1> SUFFICES ASSUME TypeOK, RunInvariant, RowLocks, [Next]_vars PROVE RowLocks'
  OBVIOUS
<1>1. ASSUME NEW f \in Finalizer, Work(f) \/ Abort(f) PROVE RowLocks'
  <2>1. \A g \in Finalizer : g # f => run'[g] = run[g]
    BY <1>1, OnlyOwnRun
  <2>2. ASSUME NEW c \in Cell, LockRow(f, c) PROVE RowLocks'
    <3>1. run'[f].held = run[f].held \cup {c} /\ c \notin Held
      BY <2>2, RowEffects DEF LockRow, Free
    <3>2. \A g \in Finalizer : run[g].held \subseteq Held
      BY DEF Held
    <3> QED
      BY <2>1, <3>1, <3>2 DEF RowLocks
  <2>3. ASSUME run'[f].held \subseteq run[f].held PROVE RowLocks'
    BY <2>1, <2>3 DEF RowLocks
  <2>4. RefuseInsert(f) \/ BreakDeadlock(f) \/ Abort(f) => run'[f].held = {}
    BY AbandonEffect DEF RefuseInsert, BreakDeadlock, Abort
  <2>5. ReadEmployees(f) \/ ReadAttendance(f) \/ ReadLedger(f) => run'[f].held = run[f].held
    BY ReadEffects DEF SameRows
  <2>6. Commit(f) => run'[f].held = {}
    BY TransactionEffects
  <2>7. \A e \in Employee : InsertWage(f, e) => run'[f].held = run[f].held
    BY TransactionEffects
  <2>8. /\ BeginLock(f) => run'[f].held = run[f].held
        /\ \A c \in Cell : WaitForRow(f, c) => run'[f].held = run[f].held
    BY RowEffects
  <2> QED
    BY <1>1, <2>2, <2>3, <2>4, <2>5, <2>6, <2>7, <2>8 DEF Work
<1>2. CASE UNCHANGED run
  BY <1>2 DEF RowLocks
<1> QED
  BY <1>1, <1>2 DEF Next, MarkDay, GrantAdvance, SetActive, vars, others

\* No row is locked by two requests that have not committed, however their
\* statements interleave and whichever of them fail.
THEOREM RowsHaveOneHolder == Spec => []RowLocks
<1>1. Init => RowLocks
  BY DEF Init, NewRun, RowLocks
<1> QED
  BY <1>1, RowLocksStep, RunsInvariant, PTL DEF Spec

Waiting(f) == run[f].waits \cap Held # {}
Started(f) == run[f].phase \notin Ended \cup {"idle"}

\* What EveryRunEnds rests on: a request that waits for a row waits while another
\* one can go on, or in a knot, which PostgreSQL breaks.  A request that is over,
\* whichever way it went, holds no row, so that none is waited for in vain.
THEOREM NobodyWaitsInVain ==
  Spec => [](\A f \in Finalizer : Waiting(f) =>
               \/ \E g \in Finalizer : Started(g) /\ ~Waiting(g)
               \/ Knot({g \in Finalizer : Waiting(g)}))
<1> DEFINE NotInVain == \A f \in Finalizer : Waiting(f) =>
               \/ \E g \in Finalizer : Started(g) /\ ~Waiting(g)
               \/ Knot({g \in Finalizer : Waiting(g)})
<1>1. TypeOK /\ RunInvariant => NotInVain
  <2> SUFFICES ASSUME RunInvariant, NEW f \in Finalizer, Waiting(f),
                      \A g \in Finalizer : Started(g) => Waiting(g)
               PROVE  Knot({g \in Finalizer : Waiting(g)})
    OBVIOUS
  <2>1. ASSUME NEW g \in Finalizer, run[g].held # {} PROVE Waiting(g)
    <3>1. run[g].phase = "locking"
      BY <2>1 DEF RunInvariant, CountedOK
    <3> QED
      BY <3>1 DEF Started, Ended
  <2>2. ASSUME NEW g \in Finalizer, Waiting(g)
        PROVE  \E h \in {k \in Finalizer : Waiting(k)} : run[g].waits \cap run[h].held # {}
    BY <2>1, <2>2 DEF Waiting, Held
  <2> QED
    BY <2>2 DEF Knot
<1> QED
  BY <1>1, RunsInvariant, PTL

\* How many steps a request has before it, at most: a row may take two.
Ahead(r) ==
  IF r.phase = "employees" THEN Cardinality(r.left) + 2 * Cardinality(Cell) + 5
  ELSE IF r.phase = "attendance" THEN Cardinality(r.left) + 2 * Cardinality(Cell) + 4
  ELSE IF r.phase = "posting" THEN Cardinality(r.left) + 2 * Cardinality(Cell) + 3
  ELSE IF r.phase = "locking" THEN 2 * Cardinality(r.wanted \ r.held)
                                   + (IF r.waits = {} THEN 2 ELSE 1)
  ELSE 0

\* One row fewer to lock, or the wait for one begins.
LEMMA RowCloser ==
  ASSUME IsFiniteSet(Cell), TypeOK, NEW f \in Finalizer, NEW c \in Cell,
         LockRow(f, c) \/ WaitForRow(f, c)
  PROVE  Ahead(run'[f]) \in Nat /\ Ahead(run'[f]) < Ahead(run[f])
<1>1. PICK todo, n : todo = run[f].wanted \ run[f].held /\ n = Cardinality(todo)
  OBVIOUS
<1>2. IsFiniteSet(todo) /\ n \in Nat /\ c \in todo
  BY <1>1, FS_Subset, FS_CardinalityType DEF TypeOK, Run, LockRow, WaitForRow
<1>3. Ahead(run[f]) = 2 * n + (IF run[f].waits = {} THEN 2 ELSE 1)
  BY <1>1 DEF Ahead, LockRow, WaitForRow
<1>4. CASE LockRow(f, c)
  <2>1. /\ run'[f].phase = "locking" /\ run'[f].waits = {}
        /\ run'[f].wanted \ run'[f].held = todo \ {c}
    BY <1>1, <1>4, RowEffects
  <2>2. PICK m : m = Cardinality(todo \ {c})
    OBVIOUS
  <2>3. m = n - 1 /\ m \in Nat
    BY <1>1, <1>2, <2>2, FS_RemoveElement, FS_CardinalityType
  <2>4. Ahead(run'[f]) = 2 * m + 2
    BY <2>1, <2>2 DEF Ahead
  <2> QED
    BY <1>2, <1>3, <2>3, <2>4
<1>5. CASE WaitForRow(f, c)
  <2>1. /\ run'[f].phase = "locking" /\ run'[f].waits = {c}
        /\ run'[f].wanted \ run'[f].held = todo
    BY <1>1, <1>5, RowEffects
  <2>2. Ahead(run'[f]) = 2 * n + 1
    BY <1>1, <2>1 DEF Ahead
  <2>3. run[f].waits = {}
    BY <1>5 DEF WaitForRow
  <2> QED
    BY <1>2, <1>3, <2>2, <2>3
<1> QED
  BY <1>4, <1>5

\* The safety half of EveryRunEnds: whatever a started request does, fewer steps
\* are before it than there were, and no other request gives it more.
THEOREM RunsComeToAnEnd ==
  ASSUME IsFiniteSet(Employee), IsFiniteSet(Day)
  PROVE  Spec => [][\A f \in Finalizer :
                      Started(f) /\ run'[f] # run[f] =>
                        /\ Ahead(run'[f]) \in Nat
                        /\ Ahead(run'[f]) < Ahead(run[f])]_vars
<1> DEFINE Closer == \A f \in Finalizer :
                       Started(f) /\ run'[f] # run[f] =>
                         /\ Ahead(run'[f]) \in Nat
                         /\ Ahead(run'[f]) < Ahead(run[f])
<1>a. IsFiniteSet(Cell)
  BY FS_Product DEF Cell
<1>1. TypeOK /\ [Next]_vars => [Closer]_vars
  <2> SUFFICES ASSUME TypeOK, [Next]_vars, NEW f \in Finalizer,
                      Started(f), run'[f] # run[f]
               PROVE  Ahead(run'[f]) \in Nat /\ Ahead(run'[f]) < Ahead(run[f])
    OBVIOUS
  <2>1. Work(f) \/ Abort(f)
    <3>1. ASSUME NEW g \in Finalizer, Work(g) \/ Abort(g) PROVE g = f
      BY <3>1, OnlyOwnRun
    <3> QED
      BY <3>1 DEF Next, MarkDay, GrantAdvance, SetActive, vars, others
  <2>2. PICK n, all : n = Cardinality(run[f].left) /\ all = Cardinality(Cell)
    OBVIOUS
  <2>3. IsFiniteSet(run[f].left) /\ n \in Nat /\ all \in Nat
    BY <1>a, <2>2, FS_Subset, FS_CardinalityType DEF TypeOK, Run
  <2>4. ~ReadEmployees(f)
    BY DEF ReadEmployees, Started
  <2>5. CASE ReadAttendance(f)
    <3>1. /\ run[f].phase = "employees" /\ run'[f].phase = "attendance"
          /\ run'[f].left = run[f].left
      BY <2>5, ReadEffects DEF ReadAttendance
    <3> QED
      BY <2>2, <2>3, <3>1 DEF Ahead
  <2>6. CASE ReadLedger(f)
    <3>1. /\ run[f].phase = "attendance" /\ run'[f].phase = "posting"
          /\ run'[f].left = run[f].left
      BY <2>6, ReadEffects DEF ReadLedger
    <3> QED
      BY <2>2, <2>3, <3>1 DEF Ahead
  <2>7. ASSUME NEW e \in Employee, InsertWage(f, e)
        PROVE  Ahead(run'[f]) \in Nat /\ Ahead(run'[f]) < Ahead(run[f])
    <3>1. /\ run[f].phase = "posting" /\ run'[f].phase = "posting" /\ e \in run[f].left
          /\ run'[f].left = run[f].left \ {e}
      BY <2>7, TransactionEffects DEF InsertWage
    <3>2. PICK m : m = Cardinality(run[f].left \ {e})
      OBVIOUS
    <3>3. m = n - 1 /\ m \in Nat
      BY <2>2, <2>3, <3>1, <3>2, FS_RemoveElement, FS_CardinalityType
    <3>4. Ahead(run'[f]) = m + 2 * all + 3 /\ Ahead(run[f]) = n + 2 * all + 3
      BY <2>2, <3>1, <3>2 DEF Ahead
    <3> QED
      BY <2>3, <3>3, <3>4
  <2>8. CASE BeginLock(f)
    <3>1. /\ run[f].phase = "posting" /\ run'[f].phase = "locking"
          /\ run'[f].wanted \subseteq Cell
      BY <2>8, RowEffects DEF BeginLock, Started, RowsOfPeriod, Marked
    <3>2. PICK m : m = Cardinality(run'[f].wanted \ run'[f].held)
      OBVIOUS
    <3>3. m \in Nat /\ m <= all
      BY <1>a, <2>2, <3>1, <3>2, FS_Subset, FS_CardinalityType
    <3>4. Ahead(run[f]) = n + 2 * all + 3
      BY <2>2, <3>1 DEF Ahead
    <3>5. Ahead(run'[f]) = 2 * m + (IF run'[f].waits = {} THEN 2 ELSE 1)
      BY <3>1, <3>2 DEF Ahead
    <3> QED
      BY <2>3, <3>3, <3>4, <3>5
  <2>9. CASE \E c \in Cell : LockRow(f, c) \/ WaitForRow(f, c)
    BY <1>a, <2>9, RowCloser
  <2>10. CASE RefuseInsert(f) \/ BreakDeadlock(f) \/ Commit(f) \/ Abort(f)
    <3>1. run'[f].phase \in Ended
      BY <2>10, TransactionEffects, AbandonEffect
         DEF RefuseInsert, BreakDeadlock, Abort, Ended
    <3>2. run[f].phase \in {"employees", "attendance", "posting", "locking"}
      BY DEF TypeOK, Run, Phases, Ended, Started
    <3>3. Ahead(run'[f]) = 0
      BY <3>1 DEF Ahead, Ended
    <3>4. PICK m : m = Cardinality(run[f].wanted \ run[f].held)
      OBVIOUS
    <3>5. m \in Nat
      BY <1>a, <3>4, FS_Subset, FS_CardinalityType DEF TypeOK, Run
    <3>6. Ahead(run[f]) \in Nat \ {0}
      BY <2>2, <2>3, <3>2, <3>4, <3>5 DEF Ahead
    <3> QED
      BY <3>3, <3>6
  <2> QED
    BY <2>1, <2>4, <2>5, <2>6, <2>7, <2>8, <2>9, <2>10 DEF Work
<1> QED
  BY <1>1, TypeCorrect, PTL DEF Spec

-----------------------------------------------------------------------------
(* Leave approval: where the loop is, in either form of the dates, and     *)
(* which days it has behind it.                                            *)

Passed(w) ==
  LET leave == LeaveOf[w.leave]
  IN /\ w.at.long => Scanned /\ w.at.day = leave.from
     /\ ~w.at.long => /\ (IF Scanned THEN 1 ELSE leave.from) <= w.at.day
                      /\ \A d \in leave.from..leave.to :
                           d < w.at.day => d \in w.reached \cup w.lost
     /\ w.phase = "done" => leave.from..leave.to \subseteq w.reached \cup w.lost

LeaveInv == LeaveTypeOK /\ \A a \in Call : walk[a].phase # "idle" => Passed(walk[a])

LEMMA LeaveInitInv == LeaveInit => LeaveInv
<1> SUFFICES ASSUME LeaveInit PROVE LeaveInv
  OBVIOUS
<1>1. RegisterTypeOK
  BY DEF LeaveInit, RegisterInit, RegisterTypeOK, Marked
<1>2. NewWalk \in Walk /\ NewWalk.phase = "idle"
  BY DEF NewWalk, Walk, Cursor
<1> QED
  BY <1>1, <1>2 DEF LeaveInit, LeaveInv, LeaveTypeOK

\* What the register keeps on its own.
LEMMA RegisterTypes ==
  ASSUME RegisterTypeOK
  PROVE  /\ \A c \in Cell, s \in Status : SetStatus(c, s) => RegisterTypeOK'
         /\ \A cells : Freeze(cells) => RegisterTypeOK'
         /\ UNCHANGED register => RegisterTypeOK'
<1>1. ASSUME NEW c \in Cell, NEW s \in Status, SetStatus(c, s) PROVE RegisterTypeOK'
  <2>1. status' \in [Cell -> Status \cup {Unmarked}]
    BY <1>1 DEF SetStatus, RegisterTypeOK
  <2>2. \A b \in frozen : status'[b] # Unmarked
    BY <1>1, UnmarkedIsNoStatus DEF SetStatus, RegisterTypeOK, Marked
  <2> QED
    BY <1>1, <2>1, <2>2 DEF SetStatus, RegisterTypeOK, Marked
<1> QED
  BY <1>1 DEF Freeze, RegisterTypeOK, Marked, register

LEMMA LeaveDates ==
  ASSUME NEW l \in Leave
  PROVE  /\ LeaveOf[l].employee \in Employee
         /\ LeaveOf[l].from \in Nat \ {0} /\ LeaveOf[l].to \in Nat \ {0}
         /\ LeaveOf[l].from..LeaveOf[l].to \subseteq Day
         /\ Scanned => 1..LeaveOf[l].to \subseteq Day
  BY LeaveAssumption

\* One call's loop moves on to w.
LEMMA OneWalks ==
  ASSUME LeaveInv, NEW a \in Call, NEW w \in Walk, walk' = [walk EXCEPT ![a] = w],
         w.phase # "idle", w.leave \in Leave, Passed(w), RegisterTypeOK',
         foreign' \subseteq Cell,
         answer' \in [Leave -> {"none", "pending", "approved", "denied"}],
         answer'[w.leave] \in {"approved", "denied"},
         \A l \in Leave : answer[l] \in {"approved", "denied"} =>
                            answer'[l] \in {"approved", "denied"}
  PROVE  LeaveInv'
<1>1. \A b \in Call : walk'[b] = IF b = a THEN w ELSE walk[b]
  BY DEF LeaveInv, LeaveTypeOK
<1>2. walk' \in [Call -> Walk]
  BY DEF LeaveInv, LeaveTypeOK
<1>3. \A b \in Call : walk'[b].phase # "idle" =>
         /\ walk'[b].leave \in Leave /\ answer'[walk'[b].leave] \in {"approved", "denied"}
         /\ Passed(walk'[b])
  BY <1>1 DEF LeaveInv, LeaveTypeOK
<1>4. \A b \in Call : Passed(walk[b])' = Passed(walk'[b])
  BY DEF Passed
<1> QED
  BY <1>2, <1>3, <1>4 DEF LeaveInv, LeaveTypeOK

LEMMA StartLeave ==
  ASSUME LeaveInv, NEW a \in Call, NEW l \in Leave, Start(a, l)
  PROVE  LeaveInv'
<1>1. PICK k : k = walk[a]
  OBVIOUS
<1>2. k \in Walk /\ LeaveOf[l].from \in Nat /\ Scanned \in BOOLEAN
  BY <1>1, LeaveDates, LeaveAssumption DEF LeaveInv, LeaveTypeOK
<1>3. PICK w : w = [k EXCEPT !.phase = "marking", !.leave = l,
                             !.at = [day |-> LeaveOf[l].from, long |-> Scanned]]
  OBVIOUS
<1>4. /\ w \in Walk /\ w.phase = "marking" /\ w.leave = l
      /\ w.at.day = LeaveOf[l].from /\ w.at.long = Scanned
  BY <1>2, <1>3 DEF Walk, Cursor
<1>5. walk' = [walk EXCEPT ![a] = w] /\ UNCHANGED <<register, foreign>>
      /\ answer' = [answer EXCEPT ![l] = "approved"]
  BY <1>1, <1>3 DEF Start
<1>6. Passed(w)
  BY <1>2, <1>4, LeaveDates DEF Passed
<1>7. RegisterTypeOK'
  BY <1>5, RegisterTypes DEF LeaveInv, LeaveTypeOK
<1> QED
  BY <1>4, <1>5, <1>6, <1>7, OneWalks DEF LeaveInv, LeaveTypeOK

\* The day of the loop is one of the calendar, and the next one has no day of
\* the leave before it that was not sent.
LEMMA DueDay ==
  ASSUME LeaveInv, NEW a \in Call, Due(a)
  PROVE  /\ walk[a] \in Walk /\ walk[a].phase = "marking" /\ walk[a].leave \in Leave
         /\ Passed(walk[a])
         /\ walk[a].at.day \in Day /\ CellAt(a) \in Cell
         /\ answer[walk[a].leave] \in {"approved", "denied"}
<1>1. PICK w : w = walk[a]
  OBVIOUS
<1>2. /\ w \in Walk /\ w.phase = "marking" /\ w.leave \in Leave /\ Passed(w)
      /\ w.at.day <= LeaveOf[w.leave].to /\ w.at.day \in Nat /\ w.at.long \in BOOLEAN
      /\ answer[w.leave] \in {"approved", "denied"}
  BY <1>1 DEF Due, TheLeave, LeaveInv, LeaveTypeOK, Walk, Cursor
<1>3. w.at.day \in Day
  <2>1. CASE w.at.long
    BY <1>2, <2>1, LeaveDates DEF Passed
  <2>2. CASE ~w.at.long
    <3>1. CASE Scanned
      <4>1. w.at.day \in 1..LeaveOf[w.leave].to
        BY <1>2, <2>2, <3>1, LeaveDates DEF Passed
      <4> QED
        BY <1>2, <3>1, <4>1, LeaveDates
    <3>2. CASE ~Scanned
      <4>1. w.at.day \in LeaveOf[w.leave].from..LeaveOf[w.leave].to
        BY <1>2, <2>2, <3>2, LeaveDates DEF Passed
      <4> QED
        BY <1>2, <4>1, LeaveDates
    <3> QED
      BY <3>1, <3>2
  <2> QED
    BY <1>2, <2>1, <2>2
<1> QED
  BY <1>1, <1>2, <1>3, LeaveDates DEF CellAt, TheLeave, Cell

\* The loop goes on after the day d, whose statement has run or has failed.
LEMMA Advances ==
  ASSUME NEW k \in Walk, k.phase = "marking", k.leave \in Leave, Passed(k),
         NEW w \in Walk, w.phase = k.phase, w.leave = k.leave, w.at = NextDay(k.at),
         w.reached \cup w.lost = k.reached \cup k.lost \cup {k.at.day}
  PROVE  Passed(w)
<1>1. k.at.day \in Nat /\ k.at.long \in BOOLEAN
  BY DEF Walk, Cursor
<1>2. /\ w.at.long = FALSE
      /\ w.at.day = IF k.at.long THEN 1 ELSE k.at.day + 1
  BY DEF NextDay
<1>3. /\ LeaveOf[k.leave].from \in Nat \ {0} /\ LeaveOf[k.leave].to \in Nat
  BY LeaveDates
<1>4. CASE k.at.long
  BY <1>1, <1>2, <1>3, <1>4 DEF Passed
<1>5. CASE ~k.at.long
  <2>1. ASSUME NEW d \in LeaveOf[k.leave].from..LeaveOf[k.leave].to, d < w.at.day
        PROVE  d \in w.reached \cup w.lost
    <3>1. d < k.at.day \/ d = k.at.day
      BY <1>1, <1>2, <1>3, <1>5, <2>1
    <3> QED
      BY <1>5, <3>1 DEF Passed
  <2>2. (IF Scanned THEN 1 ELSE LeaveOf[k.leave].from) <= w.at.day
    BY <1>1, <1>2, <1>3, <1>5 DEF Passed
  <2> QED
    BY <1>2, <2>1, <2>2 DEF Passed
<1> QED
  BY <1>1, <1>4, <1>5

LEMMA MarkLeave ==
  ASSUME LeaveInv, NEW a \in Call, MarkPaidLeave(a)
  PROVE  LeaveInv'
<1>1. PICK k, d : k = walk[a] /\ d = k.at.day
  OBVIOUS
<1>2. /\ k \in Walk /\ k.phase = "marking" /\ k.leave \in Leave /\ Passed(k) /\ d \in Day
      /\ CellAt(a) \in Cell /\ answer[k.leave] \in {"approved", "denied"}
  BY <1>1, DueDay DEF MarkPaidLeave
<1>3. PICK next : next = NextDay(k.at)
  OBVIOUS
<1>4. next \in Cursor
  BY <1>2, <1>3 DEF NextDay, Walk, Cursor
<1>5. PICK w : w = [k EXCEPT !.at = next, !.reached = k.reached \cup {d}]
  OBVIOUS
<1>6. /\ w \in Walk /\ w.phase = k.phase /\ w.leave = k.leave /\ w.at = next
      /\ w.reached = k.reached \cup {d} /\ w.lost = k.lost
  BY <1>2, <1>4, <1>5 DEF Walk
<1>7. walk' = [walk EXCEPT ![a] = w] /\ UNCHANGED answer /\ PaidLeave(CellAt(a))
  <2>1. walk' = [walk EXCEPT ![a] = [k EXCEPT !.at = NextDay(k.at),
                                              !.reached = k.reached \cup {d}]]
    BY <1>1, <1>2 DEF MarkPaidLeave, Walk
  <2> QED
    BY <1>3, <1>5, <2>1 DEF MarkPaidLeave
<1>8. Passed(w)
  BY <1>1, <1>2, <1>3, <1>6, Advances
<1>9. RegisterTypeOK' /\ foreign' \subseteq Cell
  BY <1>2, <1>7, RegisterTypes, LeaveAssumption
     DEF PaidLeave, MarkPaidLeave, LeaveInv, LeaveTypeOK
<1> QED
  BY <1>2, <1>6, <1>7, <1>8, <1>9, OneWalks DEF LeaveInv, LeaveTypeOK

LEMMA LoseLeave ==
  ASSUME LeaveInv, NEW a \in Call, LoseDay(a)
  PROVE  LeaveInv'
<1>1. PICK k, d : k = walk[a] /\ d = k.at.day
  OBVIOUS
<1>2. /\ k \in Walk /\ k.phase = "marking" /\ k.leave \in Leave /\ Passed(k) /\ d \in Day
      /\ answer[k.leave] \in {"approved", "denied"}
  BY <1>1, DueDay DEF LoseDay
<1>3. PICK next : next = NextDay(k.at)
  OBVIOUS
<1>4. next \in Cursor
  BY <1>2, <1>3 DEF NextDay, Walk, Cursor
<1>5. PICK w : w = [k EXCEPT !.at = next, !.lost = k.lost \cup {d}]
  OBVIOUS
<1>6. /\ w \in Walk /\ w.phase = k.phase /\ w.leave = k.leave /\ w.at = next
      /\ w.reached = k.reached /\ w.lost = k.lost \cup {d}
  BY <1>2, <1>4, <1>5 DEF Walk
<1>7. walk' = [walk EXCEPT ![a] = w] /\ UNCHANGED <<register, answer, foreign>>
  <2>1. walk' = [walk EXCEPT ![a] = [k EXCEPT !.at = NextDay(k.at),
                                              !.lost = k.lost \cup {d}]]
    BY <1>1, <1>2 DEF LoseDay, Walk
  <2> QED
    BY <1>3, <1>5, <2>1 DEF LoseDay
<1>8. Passed(w)
  BY <1>1, <1>2, <1>3, <1>6, Advances
<1>9. RegisterTypeOK'
  BY <1>7, RegisterTypes DEF LeaveInv, LeaveTypeOK
<1> QED
  BY <1>2, <1>6, <1>7, <1>8, <1>9, OneWalks DEF LeaveInv, LeaveTypeOK

LEMMA AnswerLeave ==
  ASSUME LeaveInv, NEW a \in Call, Answer(a)
  PROVE  LeaveInv'
<1>1. PICK k : k = walk[a]
  OBVIOUS
<1>2. /\ k \in Walk /\ k.phase = "marking" /\ k.leave \in Leave /\ Passed(k)
      /\ ~(k.at.day <= LeaveOf[k.leave].to) /\ answer[k.leave] \in {"approved", "denied"}
  BY <1>1 DEF Answer, Due, TheLeave, LeaveInv, LeaveTypeOK
<1>3. PICK w : w = [k EXCEPT !.phase = "done"]
  OBVIOUS
<1>4. /\ w \in Walk /\ w.phase = "done" /\ w.leave = k.leave /\ w.at = k.at
      /\ w.reached = k.reached /\ w.lost = k.lost
  BY <1>2, <1>3 DEF Walk
<1>5. walk' = [walk EXCEPT ![a] = w] /\ UNCHANGED <<register, answer, foreign>>
  BY <1>1, <1>3 DEF Answer
<1>6. Passed(w)
  <2>1. /\ k.at.day \in Nat /\ k.at.long \in BOOLEAN
        /\ LeaveOf[k.leave].from \in Nat /\ LeaveOf[k.leave].to \in Nat
    BY <1>2, LeaveDates DEF Walk, Cursor
  <2>2. LeaveOf[k.leave].from..LeaveOf[k.leave].to \subseteq k.reached \cup k.lost
    <3>1. CASE k.at.long
      BY <1>2, <2>1, <3>1 DEF Passed
    <3>2. CASE ~k.at.long
      BY <1>2, <2>1, <3>2 DEF Passed
    <3> QED
      BY <2>1, <3>1, <3>2
  <2> QED
    BY <1>2, <1>4, <2>2 DEF Passed
<1>7. RegisterTypeOK'
  BY <1>5, RegisterTypes DEF LeaveInv, LeaveTypeOK
<1> QED
  BY <1>2, <1>4, <1>5, <1>6, <1>7, OneWalks DEF LeaveInv, LeaveTypeOK

\* Steps that leave the loops alone.
LEMMA NobodyWalks ==
  ASSUME LeaveInv, UNCHANGED walk, RegisterTypeOK', foreign' \subseteq Cell,
         answer' \in [Leave -> {"none", "pending", "approved", "denied"}],
         \A l \in Leave : answer[l] \in {"approved", "denied"} =>
                            answer'[l] \in {"approved", "denied"}
  PROVE  LeaveInv'
  BY DEF LeaveInv, LeaveTypeOK, Passed

LEMMA LeaveStep == LeaveInv /\ [LeaveNext]_leaveVars => LeaveInv'
<1> SUFFICES ASSUME LeaveInv, [LeaveNext]_leaveVars PROVE LeaveInv'
  OBVIOUS
<1>1. RegisterTypeOK /\ answer \in [Leave -> {"none", "pending", "approved", "denied"}]
  BY DEF LeaveInv, LeaveTypeOK
<1>0. foreign \subseteq Cell
  BY DEF LeaveInv, LeaveTypeOK
<1>2. CASE UNCHANGED leaveVars
  BY <1>0, <1>1, <1>2, NobodyWalks, RegisterTypes DEF leaveVars, register
<1>3. ASSUME NEW l \in Leave, Apply(l) \/ Deny(l) PROVE LeaveInv'
  BY <1>0, <1>1, <1>3, NobodyWalks, RegisterTypes DEF Apply, Deny
<1>4. ASSUME NEW c \in Cell, NEW s \in Status, OtherMark(c, s) PROVE LeaveInv'
  <2>1. foreign' \subseteq Cell
    BY <1>0, <1>4 DEF OtherMark
  <2> QED
    BY <1>1, <1>4, <2>1, NobodyWalks, RegisterTypes DEF OtherMark
<1>5. ASSUME NEW days, OtherLock(days) PROVE LeaveInv'
  BY <1>0, <1>1, <1>5, NobodyWalks, RegisterTypes DEF OtherLock
<1> QED
  BY <1>2, <1>3, <1>4, <1>5, StartLeave, MarkLeave, LoseLeave, AnswerLeave
     DEF LeaveNext, Loop

\* An approval that runs, or is over, is of a request that has been decided.
THEOREM LeaveTypeCorrect == LeaveSpec => []LeaveTypeOK
<1>1. LeaveInv => LeaveTypeOK
  BY DEF LeaveInv
<1> QED
  BY LeaveInitInv, LeaveStep, <1>1, PTL DEF LeaveSpec

\* No approval skips a day of its leave, however long the leave, in whichever
\* form the dates come and whichever statements fail.
THEOREM LeavesAreReached == LeaveSpec => []LeaveDaysReached
<1>1. LeaveInv => LeaveDaysReached
  BY DEF LeaveInv, Passed, LeaveDaysReached, LeaveDays, TheLeave
<1> QED
  BY LeaveInitInv, LeaveStep, <1>1, PTL DEF LeaveSpec

\* A mark is a paid leave unless it is foreign, and so is each day that a loop
\* has reached, also when it found the row locked.
PaidOrForeign(c) == status[c] = "paid_leave" \/ c \in foreign

MarksInv ==
  /\ \A c \in Cell : status[c] # Unmarked => PaidOrForeign(c)
  /\ \A a \in Call : walk[a].phase = "idle" => walk[a].reached = {}
  /\ \A a \in Call : \A d \in walk[a].reached :
       <<TheLeave(a).employee, d>> \in Cell /\ PaidOrForeign(<<TheLeave(a).employee, d>>)

\* The statement of a day: it finds the row open and writes it, or finds it locked
\* with what it has.
LEMMA MarkKeepsMarks ==
  ASSUME LeaveInv, MarksInv, NEW a \in Call, MarkPaidLeave(a)
  PROVE  MarksInv'
<1>1. PICK k, cell, d : k = walk[a] /\ cell = CellAt(a) /\ d = k.at.day
  OBVIOUS
<1>2. /\ k \in Walk /\ k.phase = "marking" /\ cell \in Cell
      /\ cell = <<LeaveOf[k.leave].employee, d>>
  BY <1>1, DueDay DEF MarkPaidLeave, CellAt, TheLeave
<1>3. PICK w : w = walk'[a]
  OBVIOUS
<1>4. /\ w.phase = k.phase /\ w.leave = k.leave /\ w.reached = k.reached \cup {d}
      /\ \A b \in Call : b # a => walk'[b] = walk[b]
  <2>1. PICK next, days : next = NextDay(k.at) /\ days = k.reached \cup {d}
    OBVIOUS
  <2>2. walk' = [walk EXCEPT ![a] = [k EXCEPT !.at = next, !.reached = days]]
    BY <1>1, <1>2, <2>1 DEF MarkPaidLeave, Walk
  <2>3. walk \in [Call -> Walk]
    BY DEF LeaveInv, LeaveTypeOK
  <2> QED
    BY <1>2, <1>3, <2>1, <2>2, <2>3 DEF Walk
<1>5. \A c \in Cell : PaidOrForeign(c) => PaidOrForeign(c)'
  BY <1>1, <1>2 DEF MarkPaidLeave, PaidLeave, SetStatus, register, PaidOrForeign, LeaveInv,
                    LeaveTypeOK, RegisterTypeOK
<1>6. PaidOrForeign(cell)'
  <2>1. CASE SetStatus(cell, "paid_leave")
    BY <1>2, <2>1 DEF SetStatus, PaidOrForeign, LeaveInv, LeaveTypeOK, RegisterTypeOK
  <2>2. CASE cell \in frozen
    <3>1. PaidOrForeign(cell)
      BY <1>2, <2>2 DEF MarksInv, LeaveInv, LeaveTypeOK, RegisterTypeOK, Marked
    <3> QED
      BY <1>2, <1>5, <3>1
  <2> QED
    BY <1>1, <2>1, <2>2 DEF MarkPaidLeave, PaidLeave
<1>7. \A c \in Cell : status'[c] # Unmarked => PaidOrForeign(c)'
  <2> SUFFICES ASSUME NEW c \in Cell, status'[c] # Unmarked PROVE PaidOrForeign(c)'
    OBVIOUS
  <2>1. CASE c = cell
    BY <1>6, <2>1
  <2>2. CASE c # cell
    <3>1. status'[c] = status[c]
      BY <1>1, <1>2, <2>2 DEF MarkPaidLeave, PaidLeave, SetStatus, register, LeaveInv,
                              LeaveTypeOK, RegisterTypeOK
    <3> QED
      BY <1>5, <3>1 DEF MarksInv
  <2> QED
    BY <2>1, <2>2
<1>8. ASSUME NEW b \in Call, NEW e \in walk'[b].reached, NEW c,
             c = <<LeaveOf[walk'[b].leave].employee, e>>
      PROVE  c \in Cell /\ PaidOrForeign(c)'
  <2>1. CASE b = a /\ e = d
    <3>1. c = cell
      BY <1>2, <1>3, <1>4, <1>8, <2>1
    <3> QED
      BY <1>2, <1>6, <3>1
  <2>2. CASE ~(b = a /\ e = d)
    <3>1. e \in walk[b].reached /\ walk'[b].leave = walk[b].leave
      BY <1>1, <1>3, <1>4, <1>8, <2>2
    <3>2. c \in Cell /\ PaidOrForeign(c)
      BY <1>8, <3>1 DEF MarksInv, TheLeave
    <3> QED
      BY <1>5, <3>2
  <2> QED
    BY <2>1, <2>2
<1>9. \A b \in Call : walk'[b].phase = "idle" => walk'[b].reached = {}
  BY <1>2, <1>3, <1>4 DEF MarksInv
<1> QED
  BY <1>7, <1>8, <1>9 DEF MarksInv, TheLeave, PaidOrForeign

\* Another handler marks a day.
LEMMA OtherKeepsMarks ==
  ASSUME LeaveInv, MarksInv, NEW cell \in Cell, NEW s \in Status, OtherMark(cell, s)
  PROVE  MarksInv'
<1>1. PaidOrForeign(cell)'
  BY DEF OtherMark, SetStatus, PaidOrForeign, LeaveInv, LeaveTypeOK, RegisterTypeOK
<1>2. \A c \in Cell : c # cell =>
         status'[c] = status[c] /\ (PaidOrForeign(c) => PaidOrForeign(c)')
  BY DEF OtherMark, SetStatus, PaidOrForeign, LeaveInv, LeaveTypeOK, RegisterTypeOK
<1>3. walk' = walk
  BY DEF OtherMark
<1> QED
  BY <1>1, <1>2, <1>3 DEF MarksInv, TheLeave

\* The loops move on without reaching a day, and the marks stay.
LEMMA QuietKeepsMarks ==
  ASSUME MarksInv, UNCHANGED <<status, foreign>>,
         \A a \in Call : /\ walk'[a].reached = walk[a].reached
                         /\ walk'[a].leave = walk[a].leave \/ walk[a].phase = "idle"
                         /\ walk'[a].phase = "idle" => walk[a].phase = "idle"
  PROVE  MarksInv'
BY DEF MarksInv, PaidOrForeign, TheLeave

LEMMA MarksStep == LeaveInv /\ MarksInv /\ [LeaveNext]_leaveVars => MarksInv'
<1> SUFFICES ASSUME LeaveInv, MarksInv, [LeaveNext]_leaveVars PROVE MarksInv'
  OBVIOUS
<1>1. walk \in [Call -> Walk]
  BY DEF LeaveInv, LeaveTypeOK
<1>2. ASSUME UNCHANGED <<status, foreign, walk>> PROVE MarksInv'
  BY <1>2, QuietKeepsMarks
<1>3. ASSUME NEW a \in Call, NEW l \in Leave, Start(a, l) PROVE MarksInv'
  <2>1. PICK k, at : k = walk[a] /\ at = [day |-> LeaveOf[l].from, long |-> Scanned]
    OBVIOUS
  <2>2. walk' = [walk EXCEPT ![a] = [k EXCEPT !.phase = "marking", !.leave = l, !.at = at]]
    BY <2>1, <1>3 DEF Start
  <2>3. k \in Walk /\ k.phase = "idle" /\ UNCHANGED <<status, foreign>>
    BY <1>1, <1>3, <2>1 DEF Start, register
  <2> QED
    BY <1>1, <2>1, <2>2, <2>3, QuietKeepsMarks DEF Walk
<1>4. ASSUME NEW a \in Call, LoseDay(a) PROVE MarksInv'
  <2>1. PICK k, next, days : k = walk[a] /\ next = NextDay(k.at)
                             /\ days = k.lost \cup {k.at.day}
    OBVIOUS
  <2>2. k \in Walk /\ k.phase = "marking" /\ UNCHANGED <<status, foreign>>
    BY <1>1, <1>4, <2>1 DEF LoseDay, Due, register
  <2>3. walk' = [walk EXCEPT ![a] = [k EXCEPT !.at = next, !.lost = days]]
    BY <1>4, <2>1, <2>2 DEF LoseDay, Walk
  <2> QED
    BY <1>1, <2>1, <2>2, <2>3, QuietKeepsMarks DEF Walk
<1>5. ASSUME NEW a \in Call, Answer(a) PROVE MarksInv'
  <2>1. PICK k : k = walk[a]
    OBVIOUS
  <2>2. /\ k \in Walk /\ k.phase = "marking" /\ UNCHANGED <<status, foreign>>
        /\ walk' = [walk EXCEPT ![a] = [k EXCEPT !.phase = "done"]]
    BY <1>1, <1>5, <2>1 DEF Answer, register
  <2> QED
    BY <1>1, <2>1, <2>2, QuietKeepsMarks DEF Walk
<1> QED
  BY <1>2, <1>3, <1>4, <1>5, MarkKeepsMarks, OtherKeepsMarks
     DEF LeaveNext, Loop, Apply, Deny, OtherLock, Freeze, leaveVars, register

\* Once an approval is over the days of its leave are paid leave, but for failed
\* statements and what other handlers marked, for any number of approvals of
\* leaves that overlap.
THEOREM ApprovalsMarkTheLeave == LeaveSpec => []LeaveDaysMarked
<1>1. LeaveInit => MarksInv
  BY DEF LeaveInit, RegisterInit, MarksInv, NewWalk
<1>2. LeaveInv /\ MarksInv => LeaveDaysMarked
  <2> SUFFICES ASSUME LeaveInv, MarksInv, NEW a \in Call, walk[a].phase = "done",
                      NEW d \in LeaveDays(a) \ walk[a].lost
               PROVE  \/ status[<<TheLeave(a).employee, d>>] = "paid_leave"
                      \/ <<TheLeave(a).employee, d>> \in foreign
    BY DEF LeaveDaysMarked
  <2>1. d \in walk[a].reached
    BY DEF LeaveInv, Passed, LeaveDays, TheLeave
  <2> QED
    BY <2>1 DEF MarksInv, PaidOrForeign
<1> QED
  BY LeaveInitInv, LeaveStep, MarksStep, <1>1, <1>2, PTL DEF LeaveSpec

\* How many steps a loop has left at most.
Remaining(w) ==
  LET last == LeaveOf[w.leave].to
  IN IF w.phase # "marking" THEN 0
     ELSE IF w.at.long THEN last + 2
     ELSE IF w.at.day > last THEN 1
     ELSE last + 2 - w.at.day

\* One day on, in either form, brings the end closer.
LEMMA DayCloser ==
  ASSUME NEW k \in Walk, k.phase = "marking", k.leave \in Leave,
         k.at.day <= LeaveOf[k.leave].to,
         NEW w, w.phase = "marking", w.leave = k.leave, w.at = NextDay(k.at)
  PROVE  Remaining(w) \in Nat /\ Remaining(w) < Remaining(k)
<1>1. PICK last : last = LeaveOf[k.leave].to
  OBVIOUS
<1>2. last \in Nat \ {0} /\ k.at.day \in Nat /\ k.at.long \in BOOLEAN
  BY <1>1, LeaveDates DEF Walk, Cursor
<1>3. w.at.long = FALSE /\ w.at.day = IF k.at.long THEN 1 ELSE k.at.day + 1
  BY DEF NextDay
<1>4. Remaining(k) = IF k.at.long THEN last + 2 ELSE last + 2 - k.at.day
  BY <1>1, <1>2 DEF Remaining
<1>5. Remaining(w) = IF w.at.day > last THEN 1 ELSE last + 2 - w.at.day
  BY <1>1, <1>3 DEF Remaining
<1>6. CASE k.at.long
  BY <1>2, <1>3, <1>4, <1>5, <1>6
<1>7. CASE ~k.at.long
  BY <1>1, <1>2, <1>3, <1>4, <1>5, <1>7
<1> QED
  BY <1>2, <1>6, <1>7

\* The safety half of EveryApprovalEnds: no step moves a loop without bringing it
\* closer to its end, not even the one that sends it back to the origin of the
\* calendar, so that it has finitely many turns and cannot walk for ever.
THEOREM LoopsComeToAnEnd ==
  LeaveSpec => [][\A a \in Call : walk[a].phase = "marking" /\ walk'[a] # walk[a] =>
                     /\ Remaining(walk'[a]) \in Nat
                     /\ Remaining(walk'[a]) < Remaining(walk[a])]_leaveVars
<1> DEFINE Closer == \A a \in Call : walk[a].phase = "marking" /\ walk'[a] # walk[a] =>
                       /\ Remaining(walk'[a]) \in Nat
                       /\ Remaining(walk'[a]) < Remaining(walk[a])
<1>1. LeaveInv /\ [LeaveNext]_leaveVars => [Closer]_leaveVars
  <2> SUFFICES ASSUME LeaveInv, LeaveNext, NEW a \in Call, walk[a].phase = "marking",
                      walk'[a] # walk[a]
               PROVE  Remaining(walk'[a]) \in Nat /\ Remaining(walk'[a]) < Remaining(walk[a])
    OBVIOUS
  <2>1. MarkPaidLeave(a) \/ LoseDay(a) \/ Answer(a)
    BY DEF LeaveNext, Loop, Apply, Deny, Start, MarkPaidLeave, LoseDay, Answer, OtherMark,
           OtherLock, LeaveInv, LeaveTypeOK
  <2>2. PICK k, d, next : k = walk[a] /\ d = k.at.day /\ next = NextDay(k.at)
    OBVIOUS
  <2>3. walk \in [Call -> Walk] /\ k \in Walk /\ k.leave \in Leave
    BY <2>2 DEF LeaveInv, LeaveTypeOK
  <2>4. CASE MarkPaidLeave(a) \/ LoseDay(a)
    <3>1. k.at.day <= LeaveOf[k.leave].to
      BY <2>2, <2>4 DEF MarkPaidLeave, LoseDay, Due, TheLeave
    <3>2. ASSUME NEW days, NEW w, w = [k EXCEPT !.at = next, !.reached = days]
                               \/ w = [k EXCEPT !.at = next, !.lost = days]
          PROVE  w.phase = k.phase /\ w.leave = k.leave /\ w.at = next
      BY <2>3, <3>2 DEF Walk
    <3>3. \E days : \/ walk'[a] = [k EXCEPT !.at = next, !.reached = days]
                    \/ walk'[a] = [k EXCEPT !.at = next, !.lost = days]
      <4>1. MarkPaidLeave(a) => walk'[a] = [k EXCEPT !.at = NextDay(k.at),
                                                     !.reached = k.reached \cup {d}]
        BY <2>2, <2>3 DEF MarkPaidLeave, Walk
      <4>2. LoseDay(a) => walk'[a] = [k EXCEPT !.at = NextDay(k.at),
                                               !.lost = k.lost \cup {d}]
        BY <2>2, <2>3 DEF LoseDay, Walk
      <4> QED
        BY <2>2, <2>4, <4>1, <4>2
    <3>4. PICK w : w = walk'[a]
      OBVIOUS
    <3>5. w.phase = k.phase /\ w.leave = k.leave /\ w.at = next
      BY <3>2, <3>3, <3>4
    <3> QED
      BY <2>2, <2>3, <3>1, <3>4, <3>5, DayCloser
  <2>5. CASE Answer(a)
    <3>1. Remaining(walk'[a]) = 0
      <4>1. walk'[a].phase = "done"
        BY <2>2, <2>3, <2>5 DEF Answer, Walk
      <4> QED
        BY <4>1 DEF Remaining
    <3>2. Remaining(k) \in Nat \ {0}
      <4>1. LeaveOf[k.leave].to \in Nat /\ k.at.day \in Nat
        BY <2>3, LeaveDates DEF Walk, Cursor
      <4> QED
        BY <2>2, <4>1 DEF Remaining
    <3> QED
      BY <2>2, <3>1, <3>2
  <2> QED
    BY <2>1, <2>4, <2>5
<1> QED
  BY LeaveInitInv, LeaveStep, <1>1, PTL DEF LeaveSpec
=============================================================================
