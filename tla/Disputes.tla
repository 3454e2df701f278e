------------------------------ MODULE Disputes ------------------------------
(***************************************************************************)
(* Disputes about an entry or a day: POST /disputes, POST                  *)
(* /disputes/resolve and /disputes/reject.  Neither decision looks at the  *)
(* one that was made before.  A dispute goes with its ledger entry         *)
(* (ON DELETE CASCADE).                                                    *)
(***************************************************************************)

CONSTANTS Dispute \* the rows ledger_disputes may come to hold

VARIABLE dispute \* dispute[d]: the status of the row

DisputesTypeOK == dispute \in [Dispute -> {"none", "open", "resolved", "rejected", "gone"}]

DisputesInit == dispute = [d \in Dispute |-> "none"]

Raise(d) ==
  /\ dispute[d] = "none"
  /\ dispute' = [dispute EXCEPT ![d] = "open"]

There(d) == dispute[d] \in {"open", "resolved", "rejected"}

\* UPDATE ... WHERE id = ? AND tenant_id = ?
Decide(d, decision) ==
  /\ There(d)
  /\ dispute' = [dispute EXCEPT ![d] = decision]

\* DELETE /ledger/{id}: D are the disputes about the entry.
DeleteDisputed(D) ==
  /\ \A d \in D : There(d)
  /\ dispute' = [d \in Dispute |-> IF d \in D THEN "gone" ELSE dispute[d]]
=============================================================================
