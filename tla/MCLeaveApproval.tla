-------------------------- MODULE MCLeaveApproval ---------------------------
(***************************************************************************)
(* Instances of LeaveApproval: one employee, a leave over days 2 and 3 of  *)
(* three, and one or two approvals of it.                                  *)
(***************************************************************************)
EXTENDS LeaveApproval

CONSTANTS e1, l1, a1, a2

ThreeDays == 1..3
TheLeaves == [l \in Leave |-> [employee |-> e1, from |-> 2, to |-> 3]]
=============================================================================
