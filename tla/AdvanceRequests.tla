-------------------------- MODULE AdvanceRequests ---------------------------
(***************************************************************************)
(* Advance requests and the udhaar entries their approval puts into the    *)
(* ledger:                                                                 *)
(*   POST /advance-requests, /me/advance-request   check, then insert      *)
(*   PUT  /advance-requests/{id}/approve           one transaction         *)
(*   PUT  /advance-requests/{id}/deny              one statement           *)
(*   DELETE /ledger/{id}                           removes any entry       *)
(* No handler looks at the status a request has before it sets a new one.  *)
(***************************************************************************)
EXTENDS Naturals, FiniteSets

CONSTANTS Employee,
          Request,   \* the rows advance_requests may come to hold
          Creator,   \* the calls that create a request
          Approver,  \* the calls that approve one, retries included
          NoRequest, \* the request of a call that has none
          NoOwner    \* the employee of a row not yet inserted

ASSUME AdvanceAssumption ==
  /\ NoRequest \notin Request
  /\ NoOwner \notin Employee

VARIABLES owner,    \* owner[r]: the employee of the row
          status,   \* status[r]: as committed
          entries,  \* the udhaar entries, by the call and the request they are for
          deleted,  \* history: the entries that were deleted from the ledger
          creating, \* creating[c]: the employee a create call goes on for
          approving \* approving[p]: how far an approve call is

vars == <<owner, status, entries, deleted, creating, approving>>

Phases == {"idle", "updated", "inserted", "done", "failed"}

Exists(r) == status[r] # "none"

TypeOK ==
  /\ owner \in [Request -> Employee \cup {NoOwner}]
  /\ status \in [Request -> {"none", "pending", "approved", "denied"}]
  /\ entries \subseteq [call : Approver, request : Request]
  /\ deleted \subseteq [call : Approver, request : Request]
  /\ creating \in [Creator -> Employee \cup {NoOwner}]
  /\ approving \in [Approver -> [phase : Phases, request : Request \cup {NoRequest}]]
  /\ \A r \in Request : Exists(r) <=> owner[r] # NoOwner
  /\ \A p \in Approver : approving[p].phase # "idle" =>
       approving[p].request \in Request /\ Exists(approving[p].request)

Init ==
  /\ owner = [r \in Request |-> NoOwner]
  /\ status = [r \in Request |-> "none"]
  /\ entries = {}
  /\ deleted = {}
  /\ creating = [c \in Creator |-> NoOwner]
  /\ approving = [p \in Approver |-> [phase |-> "idle", request |-> NoRequest]]

-----------------------------------------------------------------------------
(* Creating a request: the check and the insert are two statements.        *)

HasPending(e) == \E r \in Request : owner[r] = e /\ status[r] = "pending"

\* A refused call is as if it had not come.
CheckPending(c, e) ==
  /\ creating[c] = NoOwner
  /\ ~HasPending(e)
  /\ creating' = [creating EXCEPT ![c] = e]
  /\ UNCHANGED <<owner, status, entries, deleted, approving>>

InsertRequest(c, r) ==
  /\ creating[c] # NoOwner
  /\ ~Exists(r)
  /\ owner' = [owner EXCEPT ![r] = creating[c]]
  /\ status' = [status EXCEPT ![r] = "pending"]
  /\ creating' = [creating EXCEPT ![c] = NoOwner]
  /\ UNCHANGED <<entries, deleted, approving>>

-----------------------------------------------------------------------------
(* Deciding it *)

\* The row a transaction has updated makes every other writer of it wait.
Locked(r) ==
  \E p \in Approver : approving[p].request = r /\ approving[p].phase \in {"updated", "inserted"}

UpdateStatusNoTx(p, r) ==  \* mutant: approveAndCreateLedgerNoTx
  /\ approving[p].phase = "idle"
  /\ Exists(r)
  /\ approving' = [approving EXCEPT ![p] = [phase |-> "updated", request |-> r]]
  /\ status' = [status EXCEPT ![r] = "approved"]
  /\ UNCHANGED <<owner, entries, deleted, creating>>

UpdateStatusUnchecked(p, r) ==  \* mutant: an UPDATE of no row is no error
  /\ approving[p].phase = "idle"
  /\ ~Locked(r)
  /\ approving' = [approving EXCEPT ![p] = [phase |-> "updated", request |-> r]]
  /\ UNCHANGED <<owner, status, entries, deleted, creating>>

\* UPDATE advance_requests SET status = 'approved' WHERE id = ?, whatever the
\* status is.
UpdateStatus(p, r) ==
  /\ approving[p].phase = "idle"
  /\ Exists(r)
  /\ ~Locked(r)
  /\ approving' = [approving EXCEPT ![p] = [phase |-> "updated", request |-> r]]
  /\ UNCHANGED <<owner, status, entries, deleted, creating>>

InsertEntry(p) ==
  /\ approving[p].phase = "updated"
  /\ approving' = [approving EXCEPT ![p] = [@ EXCEPT !.phase = "inserted"]]
  /\ UNCHANGED <<owner, status, entries, deleted, creating>>

Entry(p) == [call |-> p, request |-> approving[p].request]

CommitEntryOnly(p) ==  \* mutant: the status is set outside the transaction
  /\ approving[p].phase = "inserted"
  /\ entries' = entries \cup {Entry(p)}
  /\ approving' = [approving EXCEPT ![p] = [@ EXCEPT !.phase = "done"]]
  /\ UNCHANGED <<owner, status, deleted, creating>>

Commit(p) ==
  /\ approving[p].phase = "inserted"
  /\ status' = [status EXCEPT ![approving[p].request] = "approved"]
  /\ entries' = entries \cup {Entry(p)}
  /\ approving' = [approving EXCEPT ![p] = [@ EXCEPT !.phase = "done"]]
  /\ UNCHANGED <<owner, deleted, creating>>

\* A statement or the commit fails, or the caller hangs up.
Abort(p) ==
  /\ approving[p].phase \in {"updated", "inserted"}
  /\ approving' = [approving EXCEPT ![p] = [@ EXCEPT !.phase = "failed"]]
  /\ UNCHANGED <<owner, status, entries, deleted, creating>>

Deny(r) ==
  /\ Exists(r)
  /\ ~Locked(r)
  /\ status' = [status EXCEPT ![r] = "denied"]
  /\ UNCHANGED <<owner, entries, deleted, creating, approving>>

\* DELETE /ledger/{id}: the entry is a row like any other, and its request is not
\* looked at.
DeleteEntry(x) ==
  /\ x \in entries
  /\ entries' = entries \ {x}
  /\ deleted' = deleted \cup {x}
  /\ UNCHANGED <<owner, status, creating, approving>>

Next ==
  \/ \E c \in Creator, e \in Employee : CheckPending(c, e)
  \/ \E c \in Creator, r \in Request : InsertRequest(c, r)
  \/ \E p \in Approver, r \in Request : UpdateStatus(p, r)
  \/ \E p \in Approver : InsertEntry(p)
  \/ \E p \in Approver : Commit(p)
  \/ \E p \in Approver : Abort(p)
  \/ \E r \in Request : Deny(r)
  \/ \E x \in entries : DeleteEntry(x)

Spec == Init /\ [][Next]_vars

-----------------------------------------------------------------------------
(* Properties *)

\* What has been put into the ledger for r, deleted since or not.
Booked(r) == {x \in entries \cup deleted : x.request = r}

\* The calls that have approved r and are committed.
Approved(r) == {p \in Approver : approving[p].phase = "done" /\ approving[p].request = r}

\* No reader sees half of an approval: an approved request has been put into the
\* ledger and a pending one has not, and each committed approval has put one
\* entry there, whatever is denied, approved again or deleted around it.  So a
\* repeated approval counts twice, and of an approved request whose entries were
\* deleted nothing is left.
LedgerFollowsStatus ==
  \A r \in Request :
    /\ status[r] = "approved" => Booked(r) # {}
    /\ Booked(r) # {} => status[r] \in {"approved", "denied"}
    /\ Booked(r) = {Entry(p) : p \in Approved(r)}

\* The ledger grows only by the entry of an approval that commits, in the step
\* in which its request becomes approved; and an approval that is answered
\* with success has left its entry there.
EntryComesWithApproval ==
  [][\A p \in Approver :
       /\ approving[p].phase # "done" /\ approving'[p].phase = "done"
            => /\ entries' \ entries = {Entry(p)}
               /\ status'[approving[p].request] = "approved"
       /\ entries' \subseteq entries \/ \E q \in Approver : entries' \ entries = {Entry(q)}]_vars
=============================================================================
