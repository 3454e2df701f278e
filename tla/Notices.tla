------------------------------ MODULE Notices -------------------------------
(***************************************************************************)
(* Decisions and what their people are told of them: advance requests and  *)
(* disputes, composed with notifications.                                  *)
(*   a request, a dispute   the supervisors are notified                   *)
(*   an approval            once the transaction is committed, the         *)
(*                          employee is notified                           *)
(*   a denial               the employee is notified                       *)
(*   a decided dispute      the employee is notified                       *)
(* A notification has a goroutine of its own, and the decision is answered *)
(* without waiting for it.  Mails are not modelled.                        *)
(***************************************************************************)
EXTENDS AdvanceRequests, Disputes, Notifications

CONSTANTS Supervisor, \* the accounts NotifySupervisors finds
          RaisedBy    \* RaisedBy[d]: the employee of the dispute

ASSUME NoticesAssumption ==
  /\ Account = Employee \cup Supervisor
  /\ Notice = [event : {"requested", "approved", "denied"}, about : Request]
       \cup [event : {"raised", "resolved", "rejected"}, about : Dispute]
  /\ RaisedBy \in [Dispute -> Employee]

noticesVars == <<vars, dispute, noticeVars>>

NoticesTypeOK ==
  /\ TypeOK
  /\ DisputesTypeOK
  /\ NotificationsTypeOK

NoticesInit ==
  /\ Init
  /\ DisputesInit
  /\ NotificationsInit

-----------------------------------------------------------------------------
(* What a decision starts *)

About(event, about) == [event |-> event, about |-> about]

\* A goroutine that is not started is as one whose context ended before its
\* first statement.
Notify(to, notice) ==
  \/ \E n \in Pusher : Spawn(n, to, notice)
  \/ UNCHANGED noticeVars

CreateRequest(c, r) ==
  /\ InsertRequest(c, r)
  /\ \E s \in Supervisor : Notify(s, About("requested", r))
  /\ UNCHANGED dispute

InsertEntryNotified(p) ==  \* mutant: approveAndCreateLedgerNoTx notifies first
  /\ InsertEntry(p)
  /\ Notify(owner[approving[p].request], About("approved", approving[p].request))
  /\ UNCHANGED dispute

ApproveInserts(p) ==
  /\ InsertEntry(p)
  /\ UNCHANGED <<dispute, noticeVars>>

Approve(p) ==
  /\ Commit(p)
  /\ Notify(owner[approving[p].request], About("approved", approving[p].request))
  /\ UNCHANGED dispute

DenyRequest(r) ==
  /\ Deny(r)
  /\ Notify(owner[r], About("denied", r))
  /\ UNCHANGED dispute

RaiseDispute(d) ==
  /\ Raise(d)
  /\ \E s \in Supervisor : Notify(s, About("raised", d))
  /\ UNCHANGED vars

DecideDispute(d, decision) ==
  /\ Decide(d, decision)
  /\ Notify(RaisedBy[d], About(decision, d))
  /\ UNCHANGED vars

-----------------------------------------------------------------------------
(* Everything *)

NoticesNext ==
  \/ \E c \in Creator, e \in Employee :
       CheckPending(c, e) /\ UNCHANGED <<dispute, noticeVars>>
  \/ \E c \in Creator, r \in Request : CreateRequest(c, r)
  \/ \E p \in Approver, r \in Request :
       UpdateStatus(p, r) /\ UNCHANGED <<dispute, noticeVars>>
  \/ \E p \in Approver : ApproveInserts(p)
  \/ \E p \in Approver : Approve(p)
  \/ \E p \in Approver : Abort(p) /\ UNCHANGED <<dispute, noticeVars>>
  \/ \E r \in Request : DenyRequest(r)
  \/ \E d \in Dispute : RaiseDispute(d)
  \/ \E d \in Dispute, s \in {"resolved", "rejected"} : DecideDispute(d, s)
  \/ \E D \in SUBSET Dispute : DeleteDisputed(D) /\ UNCHANGED <<vars, noticeVars>>
  \/ \E x \in entries, D \in SUBSET Dispute :
       DeleteEntry(x) /\ DeleteDisputed(D) /\ UNCHANGED noticeVars
  \/ \E n \in Pusher : Insert(n) /\ UNCHANGED <<vars, dispute>>
  \/ \E n \in Pusher : ListTokens(n) /\ UNCHANGED <<vars, dispute>>
  \/ \E n \in Pusher : NoPush(n) /\ UNCHANGED <<vars, dispute>>
  \/ \E n \in Pusher, k \in Token : Push(n, k) /\ UNCHANGED <<vars, dispute>>
  \/ \E a \in Account, k \in Token : RegisterToken(a, k) /\ UNCHANGED <<vars, dispute>>
  \/ \E k \in Token : RemoveToken(k) /\ UNCHANGED <<vars, dispute>>

NoticesSpec == NoticesInit /\ [][NoticesNext]_noticesVars

-----------------------------------------------------------------------------
(* Properties *)

\* What the notice says has happened, and was put into the ledger if it is an
\* approval.
Happened(notice) ==
  CASE notice.event = "requested" -> Exists(notice.about)
    [] notice.event = "approved" -> Booked(notice.about) # {}
    [] notice.event = "denied" -> status[notice.about] \in {"approved", "denied"}
    [] notice.event = "raised" -> dispute[notice.about] # "none"
    [] OTHER -> dispute[notice.about] \in {"resolved", "rejected", "gone"}

\* Nobody is told of a decision that is rolled back: what a goroutine puts into
\* an inbox and pushes to devices has happened by then, and an advance that is
\* reported as approved has been put into the ledger, although an approval may
\* be aborted up to its commit.
NoticeFollowsDecision ==
  \A n \in Pusher : pushing[n] # Free => Happened(pushing[n].notice)
=============================================================================
