---------------------------- MODULE MCAttendance ----------------------------
(***************************************************************************)
(* An instance of Attendance small enough for TLC: one employee, two days  *)
(* and two interchangeable devices.  They post a single record, or a batch *)
(* whose second record the database refuses after the first is written.    *)
(***************************************************************************)
EXTENDS Attendance, TLC

CONSTANTS e1, d1, d2

TheEmployees == {e1}
TwoDevices == {d1, d2}
TheStatuses == {"present", "paid_leave"}

Rec(day, s) == [cell |-> <<e1, day>>, status |-> s]

TheRequests ==
  {[op |-> "create", recs |-> <<Rec(1, "present")>>],
   [op |-> "bulk", recs |-> <<Rec(1, "paid_leave"), Rec(1, Blank)>>]}

\* The devices are interchangeable in every action and every property.
DeviceSymmetry == Permutations(TwoDevices)
=============================================================================
