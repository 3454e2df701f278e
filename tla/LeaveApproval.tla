--------------------------- MODULE LeaveApproval ----------------------------
(***************************************************************************)
(* Leave requests: POST /me/leave-requests, PUT .../{id}/deny, and         *)
(* PUT .../{id}/approve, which sets the status and then marks the days of  *)
(* the leave one statement at a time, without a transaction, while the     *)
(* other requests go on writing the attendance register.                   *)
(*                                                                         *)
(* The loop walks the dates as strings.  A date read from PostgreSQL is    *)
(* scanned as "2026-10-05T00:00:00Z"; nextDay parses "2006-01-02", drops   *)
(* the error and goes on from the zero time, whose next day is the origin  *)
(* of the calendar: day 1 of the model.  The service's unit test hands it  *)
(* short dates instead.                                                    *)
(***************************************************************************)
EXTENDS AttendanceRegister, Naturals

CONSTANTS Leave,     \* the leave requests employees may file
          LeaveOf,   \* LeaveOf[l]: whose it is, its first and its last day
          Call,      \* the approve calls, retries included
          Scanned,   \* are the dates of a row in the long form?
          NoLeave    \* the leave of a call that has none

ASSUME LeaveAssumption ==
  /\ Day \subseteq Nat \ {0}
  /\ "paid_leave" \in Status
  /\ \A l \in Leave : /\ LeaveOf[l].employee \in Employee
                      /\ LeaveOf[l].from \in Day
                      /\ LeaveOf[l].to \in Day
                      /\ LeaveOf[l].from..LeaveOf[l].to \subseteq Day
                      /\ Scanned => 1..LeaveOf[l].to \subseteq Day
  /\ Scanned \in BOOLEAN
  /\ NoLeave \notin Leave

VARIABLES answer,   \* answer[l]: what the request's row says
          walk,     \* walk[a]: where the loop of an approve call is
          foreign   \* history: the cells that another handler has marked as
                    \* something else, with no statement of a loop after it
                    \* that found the row open

leaveVars == <<status, frozen, answer, walk, foreign>>

\* The loop variable: a day, and whether it still is in the long form.
Cursor == [day : Nat, long : BOOLEAN]

Walk == [phase : {"idle", "marking", "done"}, leave : Leave \cup {NoLeave},
         at : Cursor,
         reached : SUBSET Day,  \* history: the days whose statement ran,
         lost : SUBSET Day]     \* and those whose statement failed

LeaveTypeOK ==
  /\ RegisterTypeOK
  /\ answer \in [Leave -> {"none", "pending", "approved", "denied"}]
  /\ walk \in [Call -> Walk]
  /\ foreign \subseteq Cell
  /\ \A a \in Call : walk[a].phase # "idle" =>
       walk[a].leave \in Leave /\ answer[walk[a].leave] \in {"approved", "denied"}

NewWalk == [phase |-> "idle", leave |-> NoLeave, at |-> [day |-> 0, long |-> FALSE],
            reached |-> {}, lost |-> {}]

LeaveInit ==
  /\ RegisterInit
  /\ answer = [l \in Leave |-> "none"]
  /\ walk = [a \in Call |-> NewWalk]
  /\ foreign = {}

-----------------------------------------------------------------------------

\* Create refuses a range whose end comes before its start.
Apply(l) ==
  /\ answer[l] = "none"
  /\ LeaveOf[l].from <= LeaveOf[l].to
  /\ answer' = [answer EXCEPT ![l] = "pending"]
  /\ UNCHANGED <<register, walk, foreign>>

\* Neither decision looks at the status the row has.
Deny(l) ==
  /\ answer[l] # "none"
  /\ answer' = [answer EXCEPT ![l] = "denied"]
  /\ UNCHANGED <<register, walk, foreign>>

StartUnanswered(a, l) ==  \* mutant: the status is left for after the loop
  /\ walk[a].phase = "idle"
  /\ answer[l] # "none"
  /\ walk' = [walk EXCEPT ![a] = [@ EXCEPT
                !.phase = "marking", !.leave = l,
                !.at = [day |-> LeaveOf[l].from, long |-> Scanned]]]
  /\ UNCHANGED <<register, answer, foreign>>

Start(a, l) ==
  /\ walk[a].phase = "idle"
  /\ answer[l] # "none"
  /\ answer' = [answer EXCEPT ![l] = "approved"]
  /\ walk' = [walk EXCEPT ![a] = [@ EXCEPT
                !.phase = "marking", !.leave = l,
                !.at = [day |-> LeaveOf[l].from, long |-> Scanned]]]
  /\ UNCHANGED <<register, foreign>>

NextDayKeepsForm(at) ==  \* mutant: the result is in the long form again
  IF at.long THEN [day |-> 1, long |-> TRUE] ELSE [day |-> at.day + 1, long |-> FALSE]
NextDay(at) == [day |-> IF at.long THEN 1 ELSE at.day + 1, long |-> FALSE]

TheLeave(a) == LeaveOf[walk[a].leave]
LeaveDays(a) == TheLeave(a).from..TheLeave(a).to
CellAt(a) == <<TheLeave(a).employee, walk[a].at.day>>

DueBeforeLast(a) ==  \* mutant: < for <=
  walk[a].phase = "marking" /\ walk[a].at.day < TheLeave(a).to
Due(a) == walk[a].phase = "marking" /\ walk[a].at.day <= TheLeave(a).to

PaidLeaveIfNew(c) ==  \* mutant: ON CONFLICT DO NOTHING
  \/ status[c] = Unmarked /\ SetStatus(c, "paid_leave")
  \/ status[c] # Unmarked /\ UNCHANGED register

\* The upsert: it inserts the row or overwrites it, if it is not locked.
PaidLeave(c) ==
  \/ SetStatus(c, "paid_leave")
  \/ c \in frozen /\ UNCHANGED register

MarkPaidLeave(a) ==
  /\ Due(a)
  /\ PaidLeave(CellAt(a))
  /\ walk' = [walk EXCEPT ![a] = [walk[a] EXCEPT !.at = NextDay(@),
                                                 !.reached = @ \cup {walk[a].at.day}]]
  /\ foreign' = foreign \ ({CellAt(a)} \ frozen)
  /\ UNCHANGED answer

\* The statement fails (the caller has hung up, say); the error is dropped.
LoseDay(a) ==
  /\ Due(a)
  /\ walk' = [walk EXCEPT ![a] = [walk[a] EXCEPT !.at = NextDay(@),
                                                 !.lost = @ \cup {walk[a].at.day}]]
  /\ UNCHANGED <<register, answer, foreign>>

\* The loop is over: the employee is notified, the call answered "approved".
Answer(a) ==
  /\ walk[a].phase = "marking"
  /\ ~Due(a)
  /\ walk' = [walk EXCEPT ![a] = [@ EXCEPT !.phase = "done"]]
  /\ UNCHANGED <<register, answer, foreign>>

\* Any other handler that marks a day or locks a range; see Attendance.
OtherMark(c, s) ==
  /\ SetStatus(c, s)
  /\ foreign' = IF s = "paid_leave" THEN foreign \ {c} ELSE foreign \cup {c}
  /\ UNCHANGED <<answer, walk>>

OtherLock(days) ==
  /\ Freeze({c \in Marked : c[2] \in days})
  /\ UNCHANGED <<answer, walk, foreign>>

Loop(a) == MarkPaidLeave(a) \/ LoseDay(a) \/ Answer(a)

LeaveNext ==
  \/ \E l \in Leave : Apply(l)
  \/ \E l \in Leave : Deny(l)
  \/ \E a \in Call, l \in Leave : Start(a, l)
  \/ \E a \in Call : Loop(a)
  \/ \E c \in Cell, s \in Status : OtherMark(c, s)
  \/ \E days \in SUBSET Day : OtherLock(days)

LeaveSpec == LeaveInit /\ [][LeaveNext]_leaveVars

\* The goroutine of an approval runs until its loop ends.
FairLeaveSpec == LeaveSpec /\ \A a \in Call : WF_leaveVars(Loop(a))

-----------------------------------------------------------------------------
(* Properties *)

\* An approval does not end before the statement of every day of the leave has
\* been sent, whichever form the dates had at the start.
LeaveDaysReached ==
  \A a \in Call : walk[a].phase = "done" =>
    LeaveDays(a) \subseteq walk[a].reached \cup walk[a].lost

\* What "approved" is worth once the loop is over: a day of the leave is marked as
\* such, unless its statement failed, or another handler marked it either after the
\* statement or before the row was locked.
LeaveDaysMarked ==
  \A a \in Call : walk[a].phase = "done" =>
    \A d \in LeaveDays(a) \ walk[a].lost :
      \/ status[<<TheLeave(a).employee, d>>] = "paid_leave"
      \/ <<TheLeave(a).employee, d>> \in foreign

\* Every approval is answered: the walk passes the end of the leave.
EveryApprovalEnds ==
  \A a \in Call : walk[a].phase = "marking" ~> walk[a].phase = "done"

\* leave_request_service_test.go: "Each date between from..to is marked as paid
\* leave", and no other: the loop of an approval touches the days of the leave.
OnlyLeaveDaysMarked ==
  [][\A a \in Call, c \in Cell :
       walk'[a] # walk[a] /\ status'[c] # status[c] =>
         c[1] = TheLeave(a).employee /\ c[2] \in LeaveDays(a)]_leaveVars
=============================================================================
