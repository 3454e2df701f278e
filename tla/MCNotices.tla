----------------------------- MODULE MCNotices ------------------------------
(***************************************************************************)
(* One instance of Notices: two approvers and a denier decide two requests *)
(* of one employee, who has a dispute too, and registers a device that a   *)
(* supervisor may take over.                                               *)
(***************************************************************************)
EXTENDS Notices, TLC

CONSTANTS e1, e2, boss, r1, r2, d1, c1, p1, p2, p3, k1, n1, n2

Accounts == Employee \cup Supervisor
AllNotices == [event : {"requested", "approved", "denied"}, about : Request]
             \cup [event : {"raised", "resolved", "rejected"}, about : Dispute]
Raisers == [d \in Dispute |-> e1]

Symmetry == Permutations({p1, p2, p3}) \cup Permutations({r1, r2}) \cup Permutations({n1, n2})
=============================================================================
