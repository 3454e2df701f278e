--------------------------- MODULE NoticesProofs ----------------------------
(***************************************************************************)
(* For any number of calls, goroutines and devices: an approval is never   *)
(* seen by halves, the composition with disputes, deletions and notices    *)
(* does to advance requests what AdvanceRequests allows, and nobody is     *)
(* told of a decision that was not made.                                   *)
(***************************************************************************)
EXTENDS Notices, TLAPS

-----------------------------------------------------------------------------
(* Advance requests: the theorems of Spec, without the notices             *)

Done(p) == approving[p].phase = "done"

\* An entry was put into the ledger for each call that has committed.
Recorded == \A x : x \in entries \cup deleted <=> \E p \in Approver : Done(p) /\ x = Entry(p)

StatusFits ==
  \A r \in Request :
    /\ status[r] = "approved" => Approved(r) # {}
    /\ Approved(r) # {} => status[r] \in {"approved", "denied"}

IInv == TypeOK /\ Recorded /\ StatusFits

LEMMA LedgerFollows == IInv => LedgerFollowsStatus
<1> SUFFICES ASSUME IInv, NEW r \in Request
             PROVE  /\ status[r] = "approved" => Booked(r) # {}
                    /\ Booked(r) # {} => status[r] \in {"approved", "denied"}
                    /\ Booked(r) = {Entry(p) : p \in Approved(r)}
  BY DEF LedgerFollowsStatus
<1>1. \A p \in Approver : Entry(p).request = approving[p].request
  BY DEF Entry
<1>2. Booked(r) = {Entry(p) : p \in Approved(r)}
  BY <1>1 DEF IInv, Recorded, Done, Booked, Approved
<1>3. Booked(r) # {} <=> Approved(r) # {}
  BY <1>2
<1> QED
  BY <1>2, <1>3 DEF IInv, StatusFits

Call == [phase : Phases, request : Request \cup {NoRequest}]

LEMMA InitIInv == Init => IInv
  BY AdvanceAssumption DEF Init, IInv, TypeOK, Recorded, StatusFits, Approved, Done, Exists,
                          Phases

\* A call that takes another step of its transaction keeps its request.
LEMMA PhaseStep ==
  ASSUME NEW k \in Call, NEW ph \in Phases
  PROVE  LET n == [k EXCEPT !.phase = ph]
         IN n \in Call /\ n.phase = ph /\ n.request = k.request
  BY DEF Call

\* An approve call moves on; what its steps do to the table is told apart.
LEMMA CallMoves ==
  ASSUME TypeOK, NEW p \in Approver, NEW k \in Call, approving' = [approving EXCEPT ![p] = k],
         k.request \in Request, status'[k.request] # "none",
         \A r \in Request : Exists(r) => status'[r] # "none"
  PROVE  /\ approving' \in [Approver -> Call]
         /\ \A q \in Approver : approving'[q].phase # "idle" =>
              approving'[q].request \in Request /\ status'[approving'[q].request] # "none"
  BY DEF TypeOK, Call, Exists

DoneStay ==
  \A q \in Approver : Done(q)' = Done(q) /\ (Done(q) => approving'[q] = approving[q])

\* A step without a commit.
LEMMA LedgerKept ==
  ASSUME Recorded, DoneStay, entries' \cup deleted' = entries \cup deleted
  PROVE  Recorded'
<1> SUFFICES ASSUME NEW x
             PROVE  x \in entries \cup deleted
                      <=> \E p \in Approver : Done(p)' /\ x = Entry(p)'
  BY DEF Recorded
<1>1. \A p \in Approver : Done(p)' /\ x = Entry(p)' <=> Done(p) /\ x = Entry(p)
  BY DEF DoneStay, Entry
<1> QED
  BY <1>1 DEF Recorded

LEMMA StatusKept ==
  ASSUME StatusFits, DoneStay,
         \A r \in Request : \/ status'[r] = status[r]
                            \/ status'[r] = "denied"
                            \/ status[r] = "none" /\ status'[r] = "pending"
  PROVE  StatusFits'
<1>1. \A r \in Request : Approved(r)' = Approved(r)
  BY DEF DoneStay, Approved, Done
<1> QED
  BY <1>1 DEF StatusFits

LEMMA CommitStep ==
  ASSUME IInv, NEW p \in Approver, Commit(p)
  PROVE  IInv' /\ ~Done(p) /\ Entry(p) \notin entries
<1>t. TypeOK /\ Recorded /\ StatusFits
  BY DEF IInv
<1> DEFINE k == [approving[p] EXCEPT !.phase = "done"]
<1>0. PICK r : r = approving[p].request
  OBVIOUS
<1>1. approving[p] \in Call /\ r \in Request /\ Exists(r) /\ ~Done(p)
  BY <1>t, <1>0 DEF TypeOK, Call, Commit, Done
<1>2. k \in Call /\ k.request = r /\ k.phase = "done"
  BY <1>0, <1>1, PhaseStep DEF Phases
<1>3. /\ approving' = [approving EXCEPT ![p] = k]
      /\ status' = [status EXCEPT ![r] = "approved"]
      /\ entries' = entries \cup {[call |-> p, request |-> r]}
      /\ UNCHANGED <<owner, deleted, creating>>
  BY <1>0 DEF Commit, Entry
<1> HIDE DEF k
<1>4. TypeOK'
  BY <1>t, <1>1, <1>2, <1>3, CallMoves DEF TypeOK, Exists, Call
<1>5. \A q \in Approver : approving'[q] = IF q = p THEN k ELSE approving[q]
  BY <1>t, <1>3 DEF TypeOK
<1>6. Entry(p)' = [call |-> p, request |-> r] /\ Done(p)' /\ Entry(p) = [call |-> p, request |-> r]
  BY <1>0, <1>2, <1>5 DEF Entry, Done
<1>7. \A q \in Approver : q # p => Entry(q)' = Entry(q) /\ Done(q)' = Done(q)
  BY <1>5 DEF Entry, Done
<1>8. Recorded'
  <2> SUFFICES ASSUME NEW x
               PROVE  x \in entries' \cup deleted'
                        <=> \E q \in Approver : Done(q)' /\ x = Entry(q)'
    BY DEF Recorded
  <2>1. x \in entries' \cup deleted' <=> x \in entries \cup deleted \/ x = Entry(p)'
    BY <1>3, <1>6
  <2>2. x \in entries \cup deleted
          <=> \E q \in Approver : q # p /\ Done(q)' /\ x = Entry(q)'
    BY <1>t, <1>1, <1>7 DEF Recorded
  <2> QED
    BY <1>6, <2>1, <2>2
<1>9. StatusFits'
  <2> SUFFICES ASSUME NEW q \in Request
               PROVE  /\ status'[q] = "approved" => Approved(q)' # {}
                      /\ Approved(q)' # {} => status'[q] \in {"approved", "denied"}
    BY DEF StatusFits
  <2>1. status'[q] = IF q = r THEN "approved" ELSE status[q]
    BY <1>t, <1>3 DEF TypeOK
  <2>2. CASE q = r
    BY <1>2, <1>5, <2>1, <2>2 DEF Approved
  <2>3. CASE q # r
    <3>1. Approved(q)' = Approved(q)
      BY <1>0, <1>2, <1>5, <2>3 DEF Approved
    <3> QED
      BY <1>t, <2>1, <2>3, <3>1 DEF StatusFits
  <2> QED
    BY <2>2, <2>3
<1>10. Entry(p) \notin entries
  <2> SUFFICES ASSUME Entry(p) \in entries
               PROVE  FALSE
    OBVIOUS
  <2>1. PICK q \in Approver : Done(q) /\ Entry(p) = Entry(q)
    BY <1>t DEF Recorded
  <2> QED
    BY <1>1, <2>1 DEF Entry
<1> QED
  BY <1>1, <1>4, <1>8, <1>9, <1>10 DEF IInv

LEMMA StepIInv == IInv /\ [Next]_vars => IInv'
<1> SUFFICES ASSUME IInv, [Next]_vars
             PROVE  IInv'
  OBVIOUS
<1>t. TypeOK /\ Recorded /\ StatusFits
  BY DEF IInv
<1>0. ASSUME UNCHANGED approving
      PROVE  DoneStay
  BY <1>0 DEF DoneStay, Done
<1>1. ASSUME NEW c \in Creator, NEW e \in Employee, CheckPending(c, e)
      PROVE  IInv'
  <2>1. TypeOK'
    BY <1>1, <1>t DEF CheckPending, TypeOK, Exists
  <2> QED
    BY <1>0, <1>1, <1>t, <2>1, LedgerKept, StatusKept DEF CheckPending, IInv
<1>2. ASSUME NEW c \in Creator, NEW r \in Request, InsertRequest(c, r)
      PROVE  IInv'
  <2>1. TypeOK'
    BY <1>2, <1>t, AdvanceAssumption DEF InsertRequest, TypeOK, Exists
  <2>2. \A q \in Request : \/ status'[q] = status[q]
                           \/ status[q] = "none" /\ status'[q] = "pending"
    BY <1>2, <1>t DEF InsertRequest, TypeOK, Exists
  <2> QED
    BY <1>0, <1>2, <1>t, <2>1, <2>2, LedgerKept, StatusKept DEF InsertRequest, IInv
<1>3. ASSUME NEW p \in Approver, NEW r \in Request, UpdateStatus(p, r)
      PROVE  IInv'
  <2> DEFINE k == [phase |-> "updated", request |-> r]
  <2>1. k \in Call /\ k.request = r /\ k.phase = "updated"
    BY DEF Call, Phases
  <2>2. /\ approving' = [approving EXCEPT ![p] = k]
        /\ Exists(r) /\ approving[p].phase = "idle"
        /\ UNCHANGED <<owner, status, entries, deleted, creating>>
    BY <1>3 DEF UpdateStatus
  <2> HIDE DEF k
  <2>3. TypeOK'
    BY <1>t, <2>1, <2>2, CallMoves DEF TypeOK, Exists, Call
  <2>4. DoneStay
    BY <1>t, <2>1, <2>2 DEF DoneStay, Done, TypeOK
  <2> QED
    BY <1>t, <2>2, <2>3, <2>4, LedgerKept, StatusKept DEF IInv
<1>4. ASSUME NEW p \in Approver, NEW ph \in Phases, ph # "done",
             approving[p].phase \notin {"idle", "done"},
             approving' = [approving EXCEPT ![p] = [@ EXCEPT !.phase = ph]],
             UNCHANGED <<owner, status, entries, deleted, creating>>
      PROVE  IInv'
  <2> DEFINE k == [approving[p] EXCEPT !.phase = ph]
  <2>1. /\ approving[p] \in Call
        /\ approving[p].request \in Request
        /\ Exists(approving[p].request)
    BY <1>t, <1>4 DEF TypeOK, Call
  <2>2. k \in Call /\ k.request = approving[p].request /\ k.phase = ph
    BY <2>1, PhaseStep
  <2>3. approving' = [approving EXCEPT ![p] = k]
    BY <1>4
  <2> HIDE DEF k
  <2>4. TypeOK'
    BY <1>t, <1>4, <2>1, <2>2, <2>3, CallMoves DEF TypeOK, Exists, Call
  <2>5. DoneStay
    BY <1>t, <1>4, <2>2, <2>3 DEF DoneStay, Done, TypeOK
  <2> QED
    BY <1>t, <1>4, <2>4, <2>5, LedgerKept, StatusKept DEF IInv
<1>5. ASSUME NEW p \in Approver, InsertEntry(p)
      PROVE  IInv'
  BY <1>4, <1>5 DEF InsertEntry, Phases
<1>6. ASSUME NEW p \in Approver, Abort(p)
      PROVE  IInv'
  BY <1>4, <1>6 DEF Abort, Phases
<1>7. ASSUME NEW r \in Request, Deny(r)
      PROVE  IInv'
  <2>1. TypeOK'
    BY <1>t, <1>7 DEF Deny, TypeOK, Exists
  <2>2. \A q \in Request : status'[q] = status[q] \/ status'[q] = "denied"
    BY <1>t, <1>7 DEF Deny, TypeOK
  <2> QED
    BY <1>0, <1>t, <1>7, <2>1, <2>2, LedgerKept, StatusKept DEF IInv, Deny
<1>8. ASSUME NEW x \in entries, DeleteEntry(x)
      PROVE  IInv'
  <2>1. TypeOK'
    BY <1>t, <1>8 DEF DeleteEntry, TypeOK, Exists
  <2>2. entries' \cup deleted' = entries \cup deleted
    BY <1>8 DEF DeleteEntry
  <2> QED
    BY <1>0, <1>t, <1>8, <2>1, <2>2, LedgerKept, StatusKept DEF IInv, DeleteEntry
<1>9. CASE UNCHANGED vars
  <2>1. TypeOK'
    BY <1>t, <1>9 DEF vars, TypeOK, Exists
  <2> QED
    BY <1>0, <1>t, <1>9, <2>1, LedgerKept, StatusKept DEF vars, IInv
<1> QED
  BY <1>1, <1>2, <1>3, <1>5, <1>6, <1>7, <1>8, <1>9, CommitStep DEF Next

LEMMA Invariant == Spec => []IInv
  BY InitIInv, StepIInv, PTL DEF Spec

\* Every variable keeps its type, and a call that is past its first statement
\* works on a row that exists.
THEOREM TypeCorrect == Spec => []TypeOK
<1>1. IInv => TypeOK
  BY DEF IInv
<1> QED
  BY <1>1, Invariant, PTL

\* No reader sees half of an approval: an approved request has been put into the
\* ledger, once for each approval that is committed, and a pending one has not;
\* only the deletion of an entry takes it out again.
THEOREM LedgerAndStatusAgree == Spec => []LedgerFollowsStatus
  BY LedgerFollows, Invariant, PTL

\* The ledger grows only by the entry of an approval that commits, in the step
\* that approves its request; who is told of success has its entry there.
THEOREM EntriesComeWithApprovals == Spec => EntryComesWithApproval
<1> DEFINE Together ==
      \A p \in Approver :
        /\ approving[p].phase # "done" /\ approving'[p].phase = "done"
             => /\ entries' \ entries = {Entry(p)}
                /\ status'[approving[p].request] = "approved"
        /\ entries' \subseteq entries \/ \E q \in Approver : entries' \ entries = {Entry(q)}
<1>1. ASSUME IInv, NEW q \in Approver, Commit(q)
      PROVE  Together
  <2>1. TypeOK
    BY <1>1 DEF IInv
  <2>2. Entry(q) \notin entries /\ entries' = entries \cup {Entry(q)}
    BY <1>1, CommitStep DEF Commit
  <2>3. \A p \in Approver : p # q => approving'[p] = approving[p]
    BY <1>1, <2>1 DEF Commit, TypeOK
  <2>4. approving[q].request \in Request
    BY <1>1, <2>1 DEF Commit, TypeOK
  <2>5. status'[approving[q].request] = "approved"
    BY <1>1, <2>1, <2>4 DEF Commit, TypeOK
  <2> QED
    BY <2>2, <2>3, <2>5
<1>2. ASSUME IInv, NEW q \in Approver, InsertEntry(q) \/ Abort(q)
      PROVE  Together
  <2>1. approving[q] \in Call /\ approving \in [Approver -> Call]
    BY <1>2 DEF IInv, TypeOK, Call
  <2>2. PICK ph \in {"inserted", "failed"} :
          approving' = [approving EXCEPT ![q] = [approving[q] EXCEPT !.phase = ph]]
    BY <1>2 DEF InsertEntry, Abort
  <2> DEFINE k == [approving[q] EXCEPT !.phase = ph]
  <2>3. k.phase = ph
    BY <2>1, PhaseStep DEF Phases
  <2> HIDE DEF k
  <2>4. \A p \in Approver : approving'[p] = IF p = q THEN k ELSE approving[p]
    BY <2>1, <2>2 DEF k
  <2>5. UNCHANGED entries
    BY <1>2 DEF InsertEntry, Abort
  <2> QED
    BY <2>2, <2>3, <2>4, <2>5
<1>3. ASSUME IInv, NEW q \in Approver, NEW r \in Request, UpdateStatus(q, r)
      PROVE  Together
  <2>1. /\ \A p \in Approver : approving'[p].phase = "done" => approving[p].phase = "done"
        /\ UNCHANGED entries
    BY <1>3 DEF UpdateStatus, IInv, TypeOK
  <2> QED
    BY <2>1
<1>4. ASSUME entries' \subseteq entries, UNCHANGED approving
      PROVE  Together
  BY <1>4
<1> HIDE DEF Together
<1>5. IInv /\ [Next]_vars => [Together]_vars
  BY <1>1, <1>2, <1>3, <1>4 DEF Next, CheckPending, InsertRequest, Deny, DeleteEntry, vars
<1> USE DEF Together
<1> QED
  BY <1>5, Invariant, PTL DEF Spec, EntryComesWithApproval

-----------------------------------------------------------------------------
(* The composition: the theorems of NoticesSpec *)

\* The disputes and notices of a step, whatever happens to the requests.
DisputeKeeps ==
  \A d \in Dispute :
    /\ dispute[d] # "none" => dispute'[d] # "none"
    /\ dispute[d] \in {"resolved", "rejected", "gone"}
         => dispute'[d] \in {"resolved", "rejected", "gone"}

RequestKeeps ==
  /\ \A r \in Request :
       /\ Exists(r) => status'[r] # "none"
       /\ status[r] \in {"approved", "denied"} => status'[r] \in {"approved", "denied"}
  /\ entries \cup deleted \subseteq entries' \cup deleted'

\* A step of the composition is one of the advance requests, or leaves them
\* alone.
LEMMA StepMaps == [NoticesNext]_noticesVars => [Next]_vars
  BY DEF NoticesNext, noticesVars, Next, CreateRequest, ApproveInserts, Approve, DenyRequest,
         RaiseDispute, DecideDispute

LEMMA RequestsKeep ==
  ASSUME TypeOK, [Next]_vars
  PROVE  RequestKeeps
<1>1. ASSUME NEW c \in Creator, NEW r \in Request, InsertRequest(c, r)
      PROVE  RequestKeeps
  BY <1>1 DEF InsertRequest, TypeOK, RequestKeeps, Exists
<1>2. ASSUME NEW p \in Approver, Commit(p)
      PROVE  RequestKeeps
  BY <1>2 DEF Commit, TypeOK, RequestKeeps, Exists
<1>3. ASSUME NEW r \in Request, Deny(r)
      PROVE  RequestKeeps
  BY <1>3 DEF Deny, TypeOK, RequestKeeps, Exists
<1>4. ASSUME UNCHANGED status, entries' \cup deleted' = entries \cup deleted
      PROVE  RequestKeeps
  BY <1>4 DEF RequestKeeps, Exists
<1> QED
  BY <1>1, <1>2, <1>3, <1>4 DEF Next, CheckPending, UpdateStatus, InsertEntry, Abort, DeleteEntry,
                              vars

LEMMA DisputesKeep ==
  ASSUME DisputesTypeOK, [NoticesNext]_noticesVars
  PROVE  DisputeKeeps /\ DisputesTypeOK'
<1>1. ASSUME NEW d \in Dispute, Raise(d)
      PROVE  DisputeKeeps /\ DisputesTypeOK'
  BY <1>1 DEF Raise, DisputesTypeOK, DisputeKeeps
<1>2. ASSUME NEW d \in Dispute, NEW s \in {"resolved", "rejected"}, Decide(d, s)
      PROVE  DisputeKeeps /\ DisputesTypeOK'
  BY <1>2 DEF Decide, There, DisputesTypeOK, DisputeKeeps
<1>3. ASSUME NEW D \in SUBSET Dispute, DeleteDisputed(D)
      PROVE  DisputeKeeps /\ DisputesTypeOK'
  BY <1>3 DEF DeleteDisputed, There, DisputesTypeOK, DisputeKeeps
<1>4. ASSUME UNCHANGED dispute
      PROVE  DisputeKeeps /\ DisputesTypeOK'
  BY <1>4 DEF DisputesTypeOK, DisputeKeeps
<1> QED
  BY <1>1, <1>2, <1>3, <1>4
     DEF NoticesNext, noticesVars, CreateRequest, ApproveInserts, Approve, DenyRequest,
         RaiseDispute, DecideDispute

\* What has happened stays so.
LEMMA HappenedStays ==
  ASSUME NEW x \in Notice, Happened(x), RequestKeeps, DisputeKeeps
  PROVE  Happened(x)'
<1>1. \/ x \in [event : {"requested", "approved", "denied"}, about : Request]
      \/ x \in [event : {"raised", "resolved", "rejected"}, about : Dispute]
  BY NoticesAssumption
<1>2. CASE x.event = "requested" /\ x.about \in Request
  BY <1>2 DEF Happened, RequestKeeps, Exists
<1>3. CASE x.event = "approved" /\ x.about \in Request
  BY <1>3 DEF Happened, RequestKeeps, Booked
<1>4. CASE x.event = "denied" /\ x.about \in Request
  BY <1>4 DEF Happened, RequestKeeps
<1>5. CASE x.event = "raised" /\ x.about \in Dispute
  BY <1>5 DEF Happened, DisputeKeeps
<1>6. CASE x.event \in {"resolved", "rejected"} /\ x.about \in Dispute
  BY <1>6 DEF Happened, DisputeKeeps
<1> QED
  BY <1>1, <1>2, <1>3, <1>4, <1>5, <1>6

-----------------------------------------------------------------------------
(* The goroutines *)

NInv == IInv /\ DisputesTypeOK /\ NotificationsTypeOK /\ NoticeFollowsDecision

LEMMA InitNInv == NoticesInit => NInv
  BY InitIInv, NotificationsAssumption
     DEF NoticesInit, DisputesInit, NotificationsInit, NInv, DisputesTypeOK,
         NotificationsTypeOK, NoticeFollowsDecision

\* A goroutine that goes on tells what it told before; one that is started
\* tells what has happened.
LEMMA PushersStep ==
  ASSUME NotificationsTypeOK, NoticeFollowsDecision, RequestKeeps, DisputeKeeps,
         NEW n \in Pusher, NEW w \in Work \cup {Free},
         pushing' = [pushing EXCEPT ![n] = w],
         w # Free => w.notice \in Notice /\ Happened(w.notice)'
  PROVE  NoticeFollowsDecision' /\ pushing' \in [Pusher -> Work \cup {Free}]
<1>1. pushing' \in [Pusher -> Work \cup {Free}]
  BY DEF NotificationsTypeOK
<1>2. ASSUME NEW m \in Pusher, (pushing[m] # Free)'
      PROVE  Happened(pushing[m].notice)'
  <2>1. CASE m = n
    <3>1. pushing'[m] = w
      BY <2>1 DEF NotificationsTypeOK
    <3> QED
      BY <1>2, <3>1 DEF Happened, Exists
  <2>2. CASE m # n
    <3>1. pushing'[m] = pushing[m]
      BY <2>2 DEF NotificationsTypeOK
    <3>2. pushing[m].notice \in Notice /\ Happened(pushing[m].notice)
      BY <1>2, <3>1 DEF NotificationsTypeOK, NoticeFollowsDecision, Work
    <3> QED
      BY <3>1, <3>2, HappenedStays DEF Happened, Exists
  <2> QED
    BY <2>1, <2>2
<1> QED
  BY <1>1, <1>2 DEF NoticeFollowsDecision

\* Starting one needs somebody to tell and something that has happened.
LEMMA NotifyStep ==
  ASSUME NotificationsTypeOK, NoticeFollowsDecision, RequestKeeps, DisputeKeeps,
         NEW to \in Account, NEW x \in Notice, Notify(to, x), Happened(x)'
  PROVE  NoticeFollowsDecision' /\ NotificationsTypeOK'
<1>1. CASE UNCHANGED noticeVars
  <2>1. ASSUME NEW n \in Pusher, pushing[n] # Free
        PROVE  Happened(pushing[n].notice)'
    <3>1. pushing[n].notice \in Notice /\ Happened(pushing[n].notice)
      BY <2>1 DEF NotificationsTypeOK, NoticeFollowsDecision, Work
    <3> QED
      BY <1>1, <3>1, HappenedStays DEF noticeVars, Happened, Exists
  <2> QED
    BY <1>1, <2>1 DEF noticeVars, NotificationsTypeOK, NoticeFollowsDecision
<1>2. ASSUME NEW n \in Pusher, Spawn(n, to, x)
      PROVE  NoticeFollowsDecision' /\ NotificationsTypeOK'
  <2> DEFINE w == [stage |-> "insert", to |-> to, notice |-> x, left |-> {}]
  <2>1. w \in Work /\ w.notice = x
    BY DEF Work
  <2>2. pushing' = [pushing EXCEPT ![n] = w] /\ token' = token
    BY <1>2 DEF Spawn
  <2> HIDE DEF w
  <2>3. NoticeFollowsDecision' /\ pushing' \in [Pusher -> Work \cup {Free}]
    BY <2>1, <2>2, PushersStep DEF Happened, Exists
  <2> QED
    BY <2>2, <2>3 DEF NotificationsTypeOK
<1> QED
  BY <1>1, <1>2 DEF Notify

LEMMA GoroutineStep ==
  ASSUME NotificationsTypeOK, NoticeFollowsDecision, RequestKeeps, DisputeKeeps,
         NEW n \in Pusher,
         \/ Insert(n) \/ ListTokens(n) \/ NoPush(n) \/ \E k \in Token : Push(n, k)
  PROVE  NoticeFollowsDecision' /\ NotificationsTypeOK'
<1>1. PICK w \in Work \cup {Free} :
        /\ pushing' = [pushing EXCEPT ![n] = w]
        /\ w # Free => pushing[n] # Free /\ w.notice = pushing[n].notice
  <2>1. pushing[n] # Free => pushing[n] \in Work
    BY DEF NotificationsTypeOK
  <2>2. pushing[n] # Free
    BY DEF Insert, ListTokens, NoPush, Push, Free
  <2>3. CASE Insert(n)
    <3> DEFINE w == [pushing[n] EXCEPT !.stage = "list"]
    <3>1. w \in Work /\ w.notice = pushing[n].notice
      BY <2>1, <2>2 DEF Work
    <3> QED
      BY <2>2, <2>3, <3>1 DEF Insert
  <2>4. CASE ListTokens(n)
    <3> DEFINE w == [pushing[n] EXCEPT !.stage = "push", !.left = TokensOf(pushing[n].to)]
    <3>1. w \in Work /\ w.notice = pushing[n].notice
      BY <2>1, <2>2 DEF Work, TokensOf
    <3>2. pushing' = [pushing EXCEPT ![n] = w]
      BY <2>4 DEF ListTokens, NotificationsTypeOK
    <3> QED
      BY <2>2, <3>1, <3>2
  <2>5. CASE NoPush(n)
    BY <2>5 DEF NoPush
  <2>6. ASSUME NEW k \in Token, Push(n, k)
        PROVE  \E w \in Work \cup {Free} :
                 /\ pushing' = [pushing EXCEPT ![n] = w]
                 /\ w # Free => pushing[n] # Free /\ w.notice = pushing[n].notice
    <3> DEFINE more == [pushing[n] EXCEPT !.left = @ \ {k}]
    <3>1. more \in Work /\ more.notice = pushing[n].notice
      BY <2>1, <2>2 DEF Work
    <3>2. CASE pushing[n].left = {k}
      <4>1. pushing' = [pushing EXCEPT ![n] = Free]
        BY <2>6, <3>2 DEF Push
      <4> QED
        BY <2>2, <4>1
    <3>3. CASE pushing[n].left # {k}
      <4>1. pushing' = [pushing EXCEPT ![n] = more]
        BY <2>6, <3>3 DEF Push
      <4> QED
        BY <2>2, <3>1, <4>1
    <3> QED
      BY <3>2, <3>3
  <2> QED
    BY <2>3, <2>4, <2>5, <2>6
<1>2. UNCHANGED token
  BY DEF Insert, ListTokens, NoPush, Push
<1>3. w # Free => w.notice \in Notice /\ Happened(w.notice)'
  <2>1. pushing[n] # Free => pushing[n].notice \in Notice /\ Happened(pushing[n].notice)
    BY DEF NotificationsTypeOK, NoticeFollowsDecision, Work
  <2> QED
    BY <1>1, <2>1, HappenedStays DEF Happened, Exists
<1>4. NoticeFollowsDecision' /\ pushing' \in [Pusher -> Work \cup {Free}]
  BY <1>1, <1>3, PushersStep
<1> QED
  BY <1>2, <1>4 DEF NotificationsTypeOK

-----------------------------------------------------------------------------

LEMMA StepNInv == NInv /\ [NoticesNext]_noticesVars => NInv'
<1> SUFFICES ASSUME NInv, [NoticesNext]_noticesVars
             PROVE  NInv'
  OBVIOUS
<1>1. [Next]_vars
  BY StepMaps
<1>2. IInv'
  BY <1>1, StepIInv DEF NInv
<1>3. DisputeKeeps /\ DisputesTypeOK'
  BY DisputesKeep DEF NInv
<1>4. RequestKeeps
  BY <1>1, RequestsKeep DEF NInv, IInv
<1>t. NotificationsTypeOK /\ NoticeFollowsDecision /\ TypeOK
  BY DEF NInv, IInv
<1>5. ASSUME NEW c \in Creator, NEW r \in Request, CreateRequest(c, r)
      PROVE  NoticeFollowsDecision' /\ NotificationsTypeOK'
  <2> DEFINE x == About("requested", r)
  <2>1. PICK s \in Supervisor : Notify(s, x)
    BY <1>5 DEF CreateRequest
  <2>2. x \in Notice /\ x.event = "requested" /\ x.about = r /\ s \in Account
    BY NoticesAssumption DEF About
  <2>3. status'[r] # "none"
    BY <1>5, <1>t DEF CreateRequest, InsertRequest, TypeOK
  <2> HIDE DEF x
  <2>4. Happened(x)'
    BY <2>2, <2>3 DEF Happened, Exists
  <2> QED
    BY <1>3, <1>4, <1>t, <2>1, <2>2, <2>4, NotifyStep
<1>6. ASSUME NEW p \in Approver, Approve(p)
      PROVE  NoticeFollowsDecision' /\ NotificationsTypeOK'
  <2>0. PICK r \in Request : r = approving[p].request
    BY <1>6, <1>t DEF Approve, Commit, TypeOK
  <2> DEFINE x == About("approved", r)
  <2>1. owner[r] \in Account /\ Notify(owner[r], x)
    BY <1>6, <1>t, <2>0, NoticesAssumption DEF Approve, Commit, TypeOK
  <2>2. x \in Notice /\ x.event = "approved" /\ x.about = r
    BY NoticesAssumption DEF About
  <2>3. Booked(r)' # {}
    <3> DEFINE z == Entry(p)
    <3>1. z \in entries' /\ z.request = r
      BY <1>6, <2>0 DEF Approve, Commit, Entry
    <3> QED
      BY <3>1 DEF Booked
  <2> HIDE DEF x
  <2>4. Happened(x)'
    BY <2>2, <2>3 DEF Happened
  <2> QED
    BY <1>3, <1>4, <1>t, <2>1, <2>2, <2>4, NotifyStep
<1>7. ASSUME NEW r \in Request, DenyRequest(r)
      PROVE  NoticeFollowsDecision' /\ NotificationsTypeOK'
  <2> DEFINE x == About("denied", r)
  <2>1. owner[r] \in Account /\ Notify(owner[r], x)
    BY <1>7, <1>t, NoticesAssumption DEF DenyRequest, Deny, TypeOK
  <2>2. x \in Notice /\ x.event = "denied" /\ x.about = r
    BY NoticesAssumption DEF About
  <2>3. status'[r] = "denied"
    BY <1>7, <1>t DEF DenyRequest, Deny, TypeOK
  <2> HIDE DEF x
  <2>4. Happened(x)'
    BY <2>2, <2>3 DEF Happened
  <2> QED
    BY <1>3, <1>4, <1>t, <2>1, <2>2, <2>4, NotifyStep
<1>8. ASSUME NEW d \in Dispute, RaiseDispute(d)
      PROVE  NoticeFollowsDecision' /\ NotificationsTypeOK'
  <2> DEFINE x == About("raised", d)
  <2>1. PICK s \in Supervisor : Notify(s, x)
    BY <1>8 DEF RaiseDispute
  <2>2. x \in Notice /\ x.event = "raised" /\ x.about = d /\ s \in Account
    BY NoticesAssumption DEF About
  <2>3. dispute'[d] # "none"
    BY <1>8 DEF RaiseDispute, Raise, NInv, DisputesTypeOK
  <2> HIDE DEF x
  <2>4. Happened(x)'
    BY <2>2, <2>3 DEF Happened
  <2> QED
    BY <1>3, <1>4, <1>t, <2>1, <2>2, <2>4, NotifyStep
<1>9. ASSUME NEW d \in Dispute, NEW s \in {"resolved", "rejected"}, DecideDispute(d, s)
      PROVE  NoticeFollowsDecision' /\ NotificationsTypeOK'
  <2> DEFINE x == About(s, d)
  <2>1. RaisedBy[d] \in Account /\ Notify(RaisedBy[d], x)
    BY <1>9, NoticesAssumption DEF DecideDispute
  <2>2. x \in Notice /\ x.event = s /\ x.about = d
    BY NoticesAssumption DEF About
  <2>3. dispute'[d] = s
    BY <1>9 DEF DecideDispute, Decide, NInv, DisputesTypeOK
  <2> HIDE DEF x
  <2>4. Happened(x)'
    BY <2>2, <2>3 DEF Happened
  <2> QED
    BY <1>3, <1>4, <1>t, <2>1, <2>2, <2>4, NotifyStep
<1>10. ASSUME NEW n \in Pusher,
              Insert(n) \/ ListTokens(n) \/ NoPush(n) \/ \E k \in Token : Push(n, k)
       PROVE  NoticeFollowsDecision' /\ NotificationsTypeOK'
  BY <1>10, <1>3, <1>4, <1>t, GoroutineStep
<1>11. ASSUME UNCHANGED pushing, token' \in [Token -> Account \cup {NoAccount}]
       PROVE  NoticeFollowsDecision' /\ NotificationsTypeOK'
  <2>1. ASSUME NEW n \in Pusher, pushing[n] # Free
        PROVE  Happened(pushing[n].notice)'
    <3>1. pushing[n].notice \in Notice /\ Happened(pushing[n].notice)
      BY <2>1, <1>t DEF NotificationsTypeOK, NoticeFollowsDecision, Work
    <3> QED
      BY <1>3, <1>4, <1>11, <3>1, HappenedStays DEF Happened, Exists
  <2> QED
    BY <1>11, <1>t, <2>1 DEF NotificationsTypeOK, NoticeFollowsDecision
<1>12. ASSUME NEW a \in Account, NEW k \in Token, RegisterToken(a, k) \/ RemoveToken(k)
       PROVE  NoticeFollowsDecision' /\ NotificationsTypeOK'
  BY <1>11, <1>12, <1>t DEF RegisterToken, RemoveToken, NotificationsTypeOK
<1>13. ASSUME UNCHANGED noticeVars
       PROVE  NoticeFollowsDecision' /\ NotificationsTypeOK'
  BY <1>11, <1>13, <1>t DEF noticeVars, NotificationsTypeOK
<1>14. ASSUME NEW k \in Token, RemoveToken(k)
       PROVE  NoticeFollowsDecision' /\ NotificationsTypeOK'
  BY <1>11, <1>14, <1>t DEF RemoveToken, NotificationsTypeOK
<1>15. NoticeFollowsDecision' /\ NotificationsTypeOK'
  BY <1>5, <1>6, <1>7, <1>8, <1>9, <1>10, <1>12, <1>13, <1>14
     DEF NoticesNext, noticesVars, ApproveInserts
<1> QED
  BY <1>2, <1>3, <1>15 DEF NInv

LEMMA NoticesInvariant == NoticesSpec => []NInv
  BY InitNInv, StepNInv, PTL DEF NoticesSpec

\* Every variable of requests, disputes and notifications keeps its type.
THEOREM NoticesTypeCorrect == NoticesSpec => []NoticesTypeOK
<1>1. NInv => NoticesTypeOK
  BY DEF NInv, IInv, NoticesTypeOK
<1> QED
  BY <1>1, NoticesInvariant, PTL

\* To the advance requests nothing happens in the composition that could not
\* happen to them alone: what is proved of AdvanceRequests holds of it too.
THEOREM NoticesImplementRequests == NoticesSpec => Spec
<1>1. NoticesInit => Init
  BY DEF NoticesInit
<1> QED
  BY <1>1, StepMaps, PTL DEF NoticesSpec, Spec

\* Nobody is told of a decision that is not committed, and no advance is
\* reported as approved that was not put into the ledger.
THEOREM NobodyToldTooEarly == NoticesSpec => []NoticeFollowsDecision
<1>1. NInv => NoticeFollowsDecision
  BY DEF NInv
<1> QED
  BY <1>1, NoticesInvariant, PTL
=============================================================================
