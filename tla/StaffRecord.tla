---------------------------- MODULE StaffRecord -----------------------------
(***************************************************************************)
(* The row of an employee, the shifts, and the handlers that write them:   *)
(*   PUT  /staff/{id}          read the row, then write every column, typed *)
(*                             or copied, WHERE version = the one read;    *)
(*                             then, if asked to, the default shift        *)
(*   PUT  /staff/{id}/shift, DELETE /staff/{id}                            *)
(*                             one statement each, no version              *)
(*   POST and DELETE /shifts   a deleted shift is set to NULL where it is  *)
(*                             referred to (ON DELETE SET NULL)            *)
(*   POST /attendance          the mark takes over the shift, once it has  *)
(*                             read the row for it                         *)
(***************************************************************************)
EXTENDS Naturals

CONSTANTS Employee, Shift, Wage,
          Updater,    \* PUT /staff/{id} requests, each made once
          Typed,      \* Typed[u]: what the request carries
          MaxVersion, \* bound of the model: an update does not go beyond it
          NoShift,    \* the NULL of a shift column
          Blank       \* a field the request leaves out

ASSUME StaffAssumption ==
  /\ MaxVersion \in Nat \ {0}
  /\ Typed \in [Updater -> [of : Employee, wage : Wage \cup {Blank},
                             shift : Shift \cup {Blank}]]
  /\ NoShift \notin Shift /\ Blank \notin Shift \cup Wage \cup {NoShift}

VARIABLES staff,  \* staff[e]: the row of the employee
          shifts, \* the shifts there are
          mark,   \* mark[e]: shift_id of the day's attendance row, if there is one
          upd     \* upd[u]: the update and how far it is

staffVars == <<staff, shifts, mark, upd>>

Row == [wage : Wage, shift : Shift \cup {NoShift}, active : BOOLEAN,
        version : 1..MaxVersion]

\* overtaken is history: a statement without a version came in between.
Update == [stage : {"read", "written", "shifted", "conflict", "failed"},
           copy : Row, overtaken : BOOLEAN]
NoUpdate == [stage |-> "idle"]

StaffTypeOK ==
  /\ staff \in [Employee -> Row]
  /\ shifts \subseteq Shift
  /\ \A e \in Employee : staff[e].shift \in shifts \cup {NoShift}
  /\ mark \in [Employee -> shifts \cup {NoShift}]
  /\ upd \in [Updater -> Update \cup {NoUpdate}]

StaffInit ==
  /\ staff \in [Employee -> [wage : Wage, shift : Shift \cup {NoShift},
                             active : {TRUE}, version : {1}]]
  /\ shifts = Shift
  /\ mark = [e \in Employee |-> NoShift]
  /\ upd = [u \in Updater |-> NoUpdate]

-----------------------------------------------------------------------------
(* The versioned update *)

\* UpdateEmployee reads the row, and fills what the request left out from it.
ReadRow(u) ==
  /\ upd[u] = NoUpdate
  /\ upd' = [upd EXCEPT ![u] = [stage |-> "read", copy |-> staff[Typed[u].of],
                                overtaken |-> FALSE]]
  /\ UNCHANGED <<staff, shifts, mark>>

Put(u, stage) == upd' = [upd EXCEPT ![u].stage = stage]
Current(u) == staff[Typed[u].of].version = upd[u].copy.version
Valid(s) == s \in shifts \cup {NoShift}

\* Every column is written, as typed or as it was read; of what is typed in,
\* only the default shift is left to a second statement.
Merged(u) ==
  [upd[u].copy EXCEPT !.wage = IF Typed[u].wage = Blank THEN @ ELSE Typed[u].wage,
                      !.version = staff[Typed[u].of].version + 1]

WriteRowAnyVersion(u) ==  \* mutant: the WHERE clause compares the id only
  /\ upd[u].stage = "read"
  /\ staff[Typed[u].of].version < MaxVersion /\ Valid(upd[u].copy.shift)
  /\ staff' = [staff EXCEPT ![Typed[u].of] = Merged(u)]
  /\ Put(u, "written")
  /\ UNCHANGED <<shifts, mark>>

WriteRow(u) ==
  /\ upd[u].stage = "read" /\ Current(u)
  /\ upd[u].copy.version < MaxVersion /\ Valid(upd[u].copy.shift)
  /\ staff' = [staff EXCEPT ![Typed[u].of] = Merged(u)]
  /\ Put(u, "written")
  /\ UNCHANGED <<shifts, mark>>

\* No row matches: 409.
Conflict(u) ==
  /\ upd[u].stage = "read" /\ ~Current(u)
  /\ Put(u, "conflict")
  /\ UNCHANGED <<staff, shifts, mark>>

\* The shift that was copied has been deleted: the foreign key refuses the row.
WriteRefused(u) ==
  /\ upd[u].stage = "read" /\ Current(u) /\ ~Valid(upd[u].copy.shift)
  /\ Put(u, "failed")
  /\ UNCHANGED <<staff, shifts, mark>>

\* Statements without a version overtake the updates that have read the row.
Overtake(E) ==
  upd' = [u \in Updater |->
            IF upd[u].stage = "read" /\ Typed[u].of \in E
            THEN [upd[u] EXCEPT !.overtaken = TRUE] ELSE upd[u]]

\* The second statement of an update that names a default shift.  When it
\* fails the answer is 500, and the first one stays committed.
WriteShift(u) ==
  /\ upd[u].stage = "written" /\ Typed[u].shift \in shifts
  /\ staff' = [staff EXCEPT ![Typed[u].of].shift = Typed[u].shift]
  /\ upd' = [v \in Updater |->
               IF v = u THEN [upd[u] EXCEPT !.stage = "shifted"]
               ELSE IF upd[v].stage = "read" /\ Typed[v].of = Typed[u].of
                    THEN [upd[v] EXCEPT !.overtaken = TRUE] ELSE upd[v]]
  /\ UNCHANGED <<shifts, mark>>

ShiftRefused(u) ==
  /\ upd[u].stage = "written" /\ Typed[u].shift # Blank
  /\ Put(u, "failed")
  /\ UNCHANGED <<staff, shifts, mark>>

-----------------------------------------------------------------------------
(* The statements without a version *)

AssignShift(e, s) ==
  /\ s \in shifts
  /\ staff' = [staff EXCEPT ![e].shift = s]
  /\ Overtake({e})
  /\ UNCHANGED <<shifts, mark>>

SoftDelete(e) ==
  /\ staff' = [staff EXCEPT ![e].active = FALSE]
  /\ Overtake({e})
  /\ UNCHANGED <<shifts, mark>>

DeleteShiftOnly(s) ==  \* mutant: the rows that refer to the shift keep it
  /\ s \in shifts
  /\ shifts' = shifts \ {s}
  /\ UNCHANGED <<staff, mark, upd>>

DeleteShift(s) ==
  /\ s \in shifts
  /\ shifts' = shifts \ {s}
  /\ staff' = [e \in Employee |-> IF staff[e].shift = s
                                  THEN [staff[e] EXCEPT !.shift = NoShift] ELSE staff[e]]
  /\ mark' = [e \in Employee |-> IF mark[e] = s THEN NoShift ELSE mark[e]]
  /\ Overtake({e \in Employee : staff[e].shift = s})

\* The shift of a mark is typed, or that of the row at an earlier moment.
Marked(e, s) ==
  /\ s \in shifts \cup {NoShift}
  /\ mark' = [mark EXCEPT ![e] = s]
  /\ UNCHANGED <<staff, shifts, upd>>

-----------------------------------------------------------------------------
(* Properties *)

\* An accepted update changes what its request typed in and, besides, at most
\* what statements without a version (a shift, a dismissal) wrote between its
\* read and its write.  Another accepted update is never undone by it.
UpdateKeepsColumns ==
  [][\A u \in Updater :
       upd[u].stage = "read" /\ upd'[u].stage = "written" =>
         LET old == staff[Typed[u].of]  new == staff'[Typed[u].of]
         IN /\ new.wage = IF Typed[u].wage = Blank THEN old.wage ELSE Typed[u].wage
            /\ ~upd[u].overtaken => new.shift = old.shift /\ new.active = old.active]_staffVars
=============================================================================
