----------------------------- MODULE MCPayroll ------------------------------
(***************************************************************************)
(* Instances of Payroll: one or two employees, one to three days of which  *)
(* the second is a weekly off, one or two finalizations of the same or of  *)
(* overlapping periods, and a POST /attendance/lock of the whole period.   *)
(***************************************************************************)
EXTENDS Payroll

CONSTANTS e1, e2, f1, f2, f3

OneEmployee == {e1}
TwoEmployees == {e1, e2}
OneRun == {f1}
TwoRuns == {f1, f2}
OneRunAndALock == {f1, f3}
OneLock == {f3}
NoLock == {}

OneDay == {1}
TwoDays == {1, 2}
ThreeDays == {1, 2, 3}
PresentAbsent == {"present", "absent"}
OnlyPresent == {"present"}

WholePeriod == [f \in Finalizer |-> Day]
\* the second request covers the first two days only
OverlappingPeriods == [f \in Finalizer |-> IF f = f2 THEN {1, 2} ELSE Day]

NoAdjustment == [f \in Finalizer |-> [e \in {} |-> 0]]
\* the first request overrides what e1 is paid, with what no check stops
OneAdjustment == [f \in Finalizer |-> [e \in IF f = f1 THEN {e1} ELSE {} |-> -1]]

DailyRate == [e \in Employee |-> IF e = e1 THEN 2 ELSE 1]
=============================================================================
