-------------------------- MODULE AttendanceProofs --------------------------
(***************************************************************************)
(* What holds of Attendance for every set of employees, devices, requests  *)
(* and statuses: type correctness, the lock, what a version promises, and  *)
(* the refinement of the abstract register.                                *)
(***************************************************************************)
EXTENDS Attendance, SequenceTheorems, TLAPS

-----------------------------------------------------------------------------
(* Shape of the data *)

\* Every record of a request names a cell of the calendar.
LEMMA RecordsHaveCells ==
  ASSUME NEW r \in Requests, NEW n \in Nat \ {0}, n <= Len(r.recs)
  PROVE  r.recs[n].cell \in Cell
<1>1. r.recs \in Seq([cell : Cell, status : STRING])
  BY AttendanceAssumption
<1>2. n \in 1..Len(r.recs)
  BY <1>1
<1>3. r.recs[n] \in [cell : Cell, status : STRING]
  BY <1>1, <1>2, ElementOfSeq, Zenon
<1> QED
  BY <1>3

\* A record that passed its checks and is not blank can be upserted.
LEMMA CheckedRecord ==
  ASSUME TypeOK, NEW d \in Device, call[d] # NoCall
  PROVE  /\ call[d] \in Call
         /\ call[d].next \in 1..Len(call[d].req.recs)
         /\ Record(d).cell \in Cell
         /\ call[d].checked /\ Record(d).status # Blank => Record(d).status \in Status
<1>1. call[d] \in Call /\ call[d].next <= Len(call[d].req.recs)
  BY DEF TypeOK
<1>2. call[d].req \in Requests /\ call[d].next \in Nat \ {0}
  BY <1>1 DEF Call
<1>3. Len(call[d].req.recs) \in Nat
  BY <1>2, AttendanceAssumption
<1>4. Record(d).cell \in Cell
  BY <1>1, <1>2, RecordsHaveCells DEF Record
<1>5. call[d].checked /\ Record(d).status # Blank => Record(d).status \in Status
  BY DEF TypeOK, Record
<1> QED
  BY <1>1, <1>2, <1>3, <1>4, <1>5

\* Every row is a stored row or the absent one.
LEMMA RowShape ==
  ASSUME TypeOK, NEW c \in Cell
  PROVE  /\ row[c] \in Row \cup {NoRow}
         /\ Exists(c) => row[c] \in Row
         /\ ~Exists(c) => row[c] = NoRow
<1>1. row[c] \in Row \cup {NoRow}
  BY DEF TypeOK
<1>2. \A r \in Row : r.version > 0
  BY AttendanceAssumption DEF Row
<1>3. ~(NoRow.version > 0)
  BY DEF NoRow
<1>4. Exists(c) => row[c] \in Row
  BY <1>1, <1>3 DEF Exists
<1>5. ~Exists(c) => row[c] = NoRow
  BY <1>1, <1>2 DEF Exists
<1> QED
  BY <1>1, <1>4, <1>5

-----------------------------------------------------------------------------
(* The three statements that change rows *)

\* An upsert changes one cell, to an unlocked row that keeps its version or
\* starts at 1; a locked row it leaves alone.
LEMMA UpsertEffect ==
  ASSUME TypeOK, NEW c \in Cell, NEW s \in Status, Upsert(c, s)
  PROVE  /\ row' \in [Cell -> Row \cup {NoRow}]
         /\ \A x \in Cell : x # c => row'[x] = row[x]
         /\ row[c].locked => row'[c] = row[c]
         /\ ~row[c].locked => /\ row'[c].status = s
                              /\ row'[c].locked = FALSE
                              /\ row'[c].version = IF Exists(c) THEN row[c].version
                                                                ELSE 1
<1> DEFINE fresh == [status |-> s, version |-> 1, locked |-> FALSE]
           over == [row[c] EXCEPT !.status = s]
<1>1. row[c] \in Row \cup {NoRow} /\ (Exists(c) => row[c] \in Row)
  BY RowShape
<1>2. fresh \in Row
  BY AttendanceAssumption DEF Row
<1>3. Exists(c) => over \in Row /\ over.status = s /\ over.version = row[c].version
                   /\ over.locked = row[c].locked
  BY <1>1 DEF Row
<1>4. ~Exists(c) => row[c].locked = FALSE
  BY RowShape DEF NoRow
<1>5. row' = [row EXCEPT ![c] = IF ~Exists(c) THEN fresh
                                ELSE IF row[c].locked THEN row[c] ELSE over]
  BY DEF Upsert
<1>6. row'[c] = IF ~Exists(c) THEN fresh ELSE IF row[c].locked THEN row[c] ELSE over
  BY <1>5 DEF TypeOK
<1>7. row'[c] \in Row \cup {NoRow}
  BY <1>1, <1>2, <1>3, <1>6
<1>8. row' \in [Cell -> Row \cup {NoRow}]
  BY <1>5, <1>6, <1>7 DEF TypeOK
<1>9. \A x \in Cell : x # c => row'[x] = row[x]
  BY <1>5 DEF TypeOK
<1>10. row[c].locked => row'[c] = row[c]
  BY <1>4, <1>6
<1>11. CASE Exists(c) /\ ~row[c].locked
  <2>1. row'[c] = over
    BY <1>6, <1>11
  <2>2. row[c].locked = FALSE
    BY <1>1, <1>11 DEF Row
  <2> QED
    BY <1>3, <1>8, <1>9, <1>10, <1>11, <2>1, <2>2
<1>12. CASE ~Exists(c)
  BY <1>4, <1>6, <1>8, <1>9, <1>10, <1>12
<1>13. CASE row[c].locked
  BY <1>8, <1>9, <1>10, <1>13
<1> QED
  BY <1>11, <1>12, <1>13

\* Marking drafts as overtaken disturbs nothing else in them.
LEMMA OvertakeEffect ==
  ASSUME TypeOK, NEW c \in Cell, Overtake(c)
  PROVE  /\ draft' \in [Device -> Draft \cup {NoDraft}]
         /\ \A d \in Device :
              /\ draft[d] = NoDraft => draft'[d] = NoDraft
              /\ draft[d] # NoDraft =>
                   /\ draft'[d] # NoDraft
                   /\ draft'[d].cell = draft[d].cell
                   /\ draft'[d].version = draft[d].version
                   /\ draft'[d].status = draft[d].status
                   /\ draft'[d].overtaken =
                        (draft[d].overtaken \/ (draft[d].cell = c /\ ~row[c].locked))
<1> DEFINE mark(d) == [draft[d] EXCEPT !.overtaken = TRUE]
           hit(d) == draft[d] # NoDraft /\ draft[d].cell = c /\ ~row[c].locked
<1>1. draft' = [d \in Device |-> IF hit(d) THEN mark(d) ELSE draft[d]]
  BY DEF Overtake
<1>2. ASSUME NEW d \in Device
      PROVE  /\ draft'[d] \in Draft \cup {NoDraft}
             /\ draft[d] = NoDraft => draft'[d] = NoDraft
             /\ draft[d] # NoDraft =>
                  /\ draft'[d] # NoDraft
                  /\ draft'[d].cell = draft[d].cell
                  /\ draft'[d].version = draft[d].version
                  /\ draft'[d].status = draft[d].status
                  /\ draft'[d].overtaken =
                       (draft[d].overtaken \/ (draft[d].cell = c /\ ~row[c].locked))
  <2>1. draft[d] \in Draft \cup {NoDraft}
    BY DEF TypeOK
  <2>2. CASE hit(d)
    <3>1. draft'[d] = mark(d) /\ draft[d] \in Draft
      BY <1>1, <2>1, <2>2
    <3>2. mark(d) \in Draft /\ mark(d).overtaken = TRUE /\ mark(d).cell = draft[d].cell
          /\ mark(d).version = draft[d].version /\ mark(d).status = draft[d].status
      BY <3>1 DEF Draft
    <3> HIDE DEF mark
    <3>3. draft'[d] # NoDraft
      BY <3>1, <3>2, AttendanceAssumption
    <3>4. draft[d] # NoDraft /\ draft[d].cell = c /\ ~row[c].locked
      BY <2>2
    <3> QED
      BY <3>1, <3>2, <3>3, <3>4
  <2>3. CASE ~hit(d)
    <3>1. draft'[d] = draft[d]
      BY <1>1, <2>3
    <3>2. draft[d] # NoDraft => draft[d].overtaken \in BOOLEAN
      BY <2>1 DEF Draft
    <3> QED
      BY <2>1, <2>3, <3>1, <3>2
  <2> QED
    BY <2>2, <2>3
<1>3. draft' \in [Device -> Draft \cup {NoDraft}]
  BY <1>1, <1>2
<1> QED
  BY <1>2, <1>3

-----------------------------------------------------------------------------
(* Type correctness *)

\* The conjuncts of TypeOK that speak of one call alone.
CallOK(k) ==
  k # NoCall =>
    /\ k \in Call
    /\ k.next <= Len(k.req.recs)
    /\ k.checked => k.req.recs[k.next].status \in Status \cup {Blank}

\* TypeOK with its three conjuncts on calls gathered in one.
LEMMA TypeOKByParts ==
  ASSUME row \in [Cell -> Row \cup {NoRow}], closed \subseteq Day,
         draft \in [Device -> Draft \cup {NoDraft}],
         call \in [Device -> Call \cup {NoCall}],
         \A d \in Device : CallOK(call[d]), answer \in Answers
  PROVE  TypeOK
BY DEF TypeOK, CallOK

\* A step that replaces one device's call by a well-formed one, or by none.
LEMMA OneCallChanges ==
  ASSUME TypeOK, NEW d \in Device, NEW k, CallOK(k), k \in Call \cup {NoCall},
         call' = [call EXCEPT ![d] = k]
  PROVE  /\ call' \in [Device -> Call \cup {NoCall}]
         /\ \A x \in Device : CallOK(call'[x])
<1>1. \A x \in Device : CallOK(call[x])
  BY DEF TypeOK, CallOK
<1>2. \A x \in Device : call'[x] = IF x = d THEN k ELSE call[x]
  BY DEF TypeOK
<1>3. call' \in [Device -> Call \cup {NoCall}]
  BY DEF TypeOK
<1> QED
  BY <1>1, <1>2, <1>3

\* Every step of the handlers keeps the types.
LEMMA TypeStep == TypeOK /\ [Next]_vars => TypeOK'
<1> SUFFICES ASSUME TypeOK, [Next]_vars PROVE TypeOK'
  OBVIOUS
<1> DEFINE Rows == [Cell -> Row \cup {NoRow}]
           Drafts == [Device -> Draft \cup {NoDraft}]
<1>1. ASSUME NEW d \in Device, NEW req \in Requests, Post(d, req) PROVE TypeOK'
  <2> DEFINE k == [req |-> req, next |-> 1, checked |-> FALSE]
  <2>1. k \in Call
    BY DEF Call
  <2>2. Len(req.recs) \in Nat /\ Len(req.recs) >= 1
    <3>1. req.recs \in Seq([cell : Cell, status : STRING]) /\ req.recs # << >>
      BY AttendanceAssumption
    <3> QED
      BY <3>1, EmptySeq, LenProperties, SMT
  <2>3. CallOK(k)
    BY <2>1, <2>2 DEF CallOK
  <2>4. call' \in [Device -> Call \cup {NoCall}] /\ \A x \in Device : CallOK(call'[x])
    BY <1>1, <2>1, <2>3, OneCallChanges DEF Post
  <2> QED
    BY <1>1, <2>4 DEF Post, TypeOK, CallOK, Answers
<1>2. ASSUME NEW d \in Device, CheckRecord(d) PROVE TypeOK'
  <2>1. call[d] \in Call /\ CallOK(call[d])
    BY <1>2 DEF CheckRecord, TypeOK, CallOK
  <2>2. \/ /\ Accepted(d)
           /\ call' = [call EXCEPT ![d] = [call[d] EXCEPT !.checked = TRUE]]
           /\ answer' = "none"
        \/ call' = [call EXCEPT ![d] = NoCall] /\ answer' = "rejected"
    BY <1>2 DEF CheckRecord, Answer
  <2> DEFINE k == [call[d] EXCEPT !.checked = TRUE]
  <2>3. Accepted(d) => k \in Call /\ CallOK(k)
    <3>1. k \in Call /\ k.next = call[d].next /\ k.req = call[d].req
      BY <2>1 DEF Call
    <3>2. Accepted(d) => call[d].req.recs[call[d].next].status \in Status \cup {Blank}
      BY DEF Accepted, Record
    <3>3. call[d].next <= Len(call[d].req.recs)
      BY <1>2, <2>1 DEF CheckRecord, CallOK
    <3> QED
      BY <3>1, <3>2, <3>3 DEF CallOK
  <2>4. CallOK(NoCall)
    BY DEF CallOK
  <2>5. call' \in [Device -> Call \cup {NoCall}] /\ \A x \in Device : CallOK(call'[x])
    <3>1. CASE call' = [call EXCEPT ![d] = NoCall]
      BY <3>1, <2>4, OneCallChanges
    <3>2. CASE Accepted(d) /\ call' = [call EXCEPT ![d] = k]
      <4> HIDE DEF k
      <4> QED
        BY <3>2, <2>3, OneCallChanges
    <3> QED
      BY <2>2, <3>1, <3>2
  <2> QED
    BY <1>2, <2>2, <2>5 DEF CheckRecord, TypeOK, CallOK, Answers
<1>3. ASSUME NEW d \in Device, WriteFails(d) PROVE TypeOK'
  <2>1. call' \in [Device -> Call \cup {NoCall}] /\ \A x \in Device : CallOK(call'[x])
    BY <1>3, OneCallChanges DEF WriteFails, Answer, CallOK
  <2> QED
    BY <1>3, <2>1 DEF WriteFails, Answer, TypeOK, CallOK, Answers
<1>4. ASSUME NEW d \in Device, WriteRecord(d) PROVE TypeOK'
  <2>1. /\ call[d] \in Call /\ call[d].next \in 1..Len(call[d].req.recs)
        /\ Record(d).cell \in Cell /\ Record(d).status \in Status
    BY <1>4, CheckedRecord DEF WriteRecord
  <2>2. row' \in Rows
    BY <1>4, <2>1, UpsertEffect DEF WriteRecord
  <2>3. draft' \in Drafts
    BY <1>4, <2>1, OvertakeEffect DEF WriteRecord
  <2>4. call' \in [Device -> Call \cup {NoCall}] /\ \A x \in Device : CallOK(call'[x])
    <3> DEFINE k == [call[d] EXCEPT !.next = call[d].next + 1, !.checked = FALSE]
    <3> DEFINE n == call[d].next + 1
    <3>0. n \in Nat \ {0}
      BY <2>1 DEF Call
    <3>1. k \in Call /\ k.next = call[d].next + 1 /\ k.req = call[d].req /\ ~k.checked
      <4> HIDE DEF n
      <4>1. [call[d] EXCEPT !.next = n, !.checked = FALSE] \in Call
        BY <2>1, <3>0 DEF Call
      <4>2. /\ [call[d] EXCEPT !.next = n, !.checked = FALSE].next = n
            /\ [call[d] EXCEPT !.next = n, !.checked = FALSE].req = call[d].req
            /\ [call[d] EXCEPT !.next = n, !.checked = FALSE].checked = FALSE
        BY <2>1 DEF Call
      <4> QED
        BY <4>1, <4>2 DEF n
    <3>2. CASE More(d)
      <4>1. call' = [call EXCEPT ![d] = k]
        BY <1>4, <3>2 DEF WriteRecord
      <4> HIDE DEF k
      <4>2. Len(call[d].req.recs) \in Nat /\ call[d].next < Len(call[d].req.recs)
        BY <2>1, <3>2 DEF More
      <4>3. CallOK(k)
        BY <2>1, <3>1, <4>2 DEF CallOK
      <4> QED
        BY <3>1, <4>1, <4>3, OneCallChanges
    <3>3. CASE ~More(d)
      BY <1>4, <3>3, OneCallChanges DEF WriteRecord, Answer, CallOK
    <3> QED
      BY <3>2, <3>3
  <2>5. answer' \in Answers
    BY <1>4 DEF WriteRecord, Answer, Answers
  <2> QED
    BY <1>4, <2>2, <2>3, <2>4, <2>5 DEF WriteRecord, TypeOK, CallOK
<1>5. ASSUME NEW d \in Device, NEW c \in Cell, Open(d, c) PROVE TypeOK'
  <2>1. row[c] \in Row
    BY <1>5, RowShape DEF Open
  <2>2. [cell |-> c, version |-> row[c].version, status |-> row[c].status,
         overtaken |-> FALSE] \in Draft
    BY <2>1 DEF Row, Draft
  <2>3. draft' \in Drafts
    BY <1>5, <2>2 DEF Open, TypeOK
  <2> QED
    BY <1>5, <2>3 DEF Open, TypeOK, Answers
<1>6. ASSUME NEW d \in Device, NEW s \in Status, Edit(d, s) PROVE TypeOK'
  <2>1. draft[d] \in Draft /\ draft[d].cell \in Cell
    BY <1>6 DEF Edit, TypeOK, Draft
  <2>2. row' \in Rows
    <3>1. CASE row' = row
      BY <3>1 DEF TypeOK
    <3>2. CASE /\ row[draft[d].cell].version = draft[d].version
               /\ row[draft[d].cell].version < MaxVersion
               /\ row' = [row EXCEPT ![draft[d].cell] = Edited(row[draft[d].cell], s)]
      <4>1. row[draft[d].cell] \in Row
        <5>1. draft[d].version > 0
          BY <2>1, AttendanceAssumption DEF Draft
        <5> QED
          BY <2>1, <3>2, <5>1, RowShape DEF Exists
      <4> DEFINE v == row[draft[d].cell].version + 1
      <4>2. v \in 1..MaxVersion
        BY <3>2, <4>1, AttendanceAssumption DEF Row
      <4>3. Edited(row[draft[d].cell], s) \in Row
        <5> HIDE DEF v
        <5>1. [row[draft[d].cell] EXCEPT !.status = s, !.version = v] \in Row
          BY <4>1, <4>2 DEF Row
        <5> QED
          BY <5>1 DEF Edited, v
      <4> QED
        BY <3>2, <4>3 DEF TypeOK
    <3> QED
      BY <1>6, <3>1, <3>2 DEF Edit
  <2>3. draft' \in Drafts /\ answer' \in Answers
    BY <1>6 DEF Edit, TypeOK, Answers
  <2> QED
    BY <1>6, <2>2, <2>3 DEF Edit, TypeOK
<1>7. ASSUME NEW c \in Cell, MarkPaidLeave(c) PROVE TypeOK'
  <2>1. row' \in Rows
    BY <1>7, UpsertEffect, AttendanceAssumption DEF MarkPaidLeave
  <2>2. draft' \in Drafts
    BY <1>7, OvertakeEffect DEF MarkPaidLeave
  <2> QED
    BY <1>7, <2>1, <2>2 DEF MarkPaidLeave, TypeOK, Answers
<1>8. ASSUME NEW start \in Day, NEW end \in Day, LockAttendanceMonth(start, end)
      PROVE  TypeOK'
  <2>1. \A c \in Cell : Exists(c) => [row[c] EXCEPT !.locked = TRUE] \in Row
    BY RowShape DEF Row
  <2>2. row' \in Rows
    BY <1>8, <2>1 DEF LockAttendanceMonth, TypeOK
  <2> QED
    BY <1>8, <2>2 DEF LockAttendanceMonth, TypeOK, Answers
<1>9. ASSUME NEW day \in Day, SetHoliday(day) PROVE TypeOK'
  BY <1>9 DEF SetHoliday, TypeOK, Answers
<1>10. ASSUME NEW d \in Device, EditFails(d) PROVE TypeOK'
  BY <1>10 DEF EditFails, TypeOK, Answers
<1>11. CASE UNCHANGED vars
  BY <1>11 DEF vars, TypeOK
<1> QED
  BY <1>1, <1>2, <1>3, <1>4, <1>5, <1>6, <1>7, <1>8, <1>9, <1>10, <1>11 DEF Next

\* The table, the drafts and the calls keep their types: no row is half
\* written, and no call runs past the end of its batch.
THEOREM TypeCorrect == Spec => []TypeOK
<1>1. Init => TypeOK
  BY AttendanceAssumption DEF Init, TypeOK, Answers
<1> QED
  BY <1>1, TypeStep, PTL DEF Spec

-----------------------------------------------------------------------------
(* The lock *)

\* What any step may do to the rows: nothing, an upsert, an accepted edit or
\* a lock.
LEMMA RowSteps ==
  ASSUME TypeOK, [Next]_vars
  PROVE  \/ row' = row
         \/ \E c \in Cell, s \in Status : Upsert(c, s)
         \/ \E c \in Cell, s \in Status :
               ~row[c].locked /\ Exists(c) /\ row' = [row EXCEPT ![c] = Edited(row[c], s)]
         \/ \E start, end \in Day : LockAttendanceMonth(start, end)
<1>1. ASSUME NEW d \in Device, WriteRecord(d)
      PROVE  \E c \in Cell, s \in Status : Upsert(c, s)
  BY <1>1, CheckedRecord DEF WriteRecord
<1>2. ASSUME NEW c \in Cell, MarkPaidLeave(c)
      PROVE  \E x \in Cell, s \in Status : Upsert(x, s)
  BY <1>2, AttendanceAssumption DEF MarkPaidLeave
<1>3. ASSUME NEW d \in Device, NEW s \in Status, Edit(d, s), row' # row
      PROVE  \E c \in Cell, t \in Status :
               ~row[c].locked /\ Exists(c) /\ row' = [row EXCEPT ![c] = Edited(row[c], t)]
  <2>1. draft[d] \in Draft
    BY <1>3 DEF Edit, TypeOK
  <2>2. draft[d].cell \in Cell /\ draft[d].version > 0
    BY <2>1, AttendanceAssumption DEF Draft
  <2> QED
    BY <1>3, <2>2 DEF Edit, Exists
<1> QED
  BY <1>1, <1>2, <1>3
     DEF Next, vars, Post, CheckRecord, WriteFails, Open, EditFails, SetHoliday

\* No step of any handler changes a locked row.
LEMMA LockStep ==
  TypeOK /\ [Next]_vars => \A c \in Cell : row[c].locked => row'[c] = row[c]
<1> SUFFICES ASSUME TypeOK, [Next]_vars, NEW c \in Cell, row[c].locked
             PROVE  row'[c] = row[c]
  OBVIOUS
<1>1. CASE row' = row
  BY <1>1
<1>2. ASSUME NEW x \in Cell, NEW s \in Status, Upsert(x, s) PROVE row'[c] = row[c]
  BY <1>2, UpsertEffect
<1>3. ASSUME NEW x \in Cell, NEW s \in Status, ~row[x].locked,
             row' = [row EXCEPT ![x] = Edited(row[x], s)]
      PROVE  row'[c] = row[c]
  BY <1>3 DEF TypeOK
<1>4. ASSUME NEW start \in Day, NEW end \in Day, LockAttendanceMonth(start, end)
      PROVE  row'[c] = row[c]
  <2>1. Exists(c)
    BY RowShape DEF NoRow
  <2>2. row[c] \in Row
    BY <2>1, RowShape
  <2>3. [row[c] EXCEPT !.locked = TRUE] = row[c]
    BY <2>2 DEF Row
  <2> QED
    BY <1>4, <2>3 DEF LockAttendanceMonth
<1> QED
  BY <1>1, <1>2, <1>3, <1>4, RowSteps

\* A locked row is never changed again, for any number of devices posting and
\* editing at once.
THEOREM LockedRowsNeverChange == Spec => LockedRowsStay
<1>1. TypeOK /\ [Next]_vars => [\A c \in Cell : row[c].locked => row'[c] = row[c]]_row
  BY LockStep
<1> QED
  BY <1>1, TypeCorrect, PTL DEF Spec, LockedRowsStay

-----------------------------------------------------------------------------
(* What a version promises *)

\* VersionNamesContent for one draft: k is the draft, r the row of its cell.
Faithful(k, r) ==
  k # NoDraft /\ ~k.overtaken =>
    /\ r.version >= k.version
    /\ r.version = k.version => r.status = k.status

\* An upsert marks the drafts of the row it rewrites, and keeps the version
\* of a row that exists.
LEMMA UpsertKeepsFaithful ==
  ASSUME TypeOK, NEW c \in Cell, NEW s \in Status, Upsert(c, s), Overtake(c),
         NEW d \in Device, Faithful(draft[d], row[draft[d].cell])
  PROVE  Faithful(draft'[d], row'[draft'[d].cell])
<1> SUFFICES ASSUME draft'[d] # NoDraft, ~draft'[d].overtaken
             PROVE  /\ row'[draft'[d].cell].version >= draft'[d].version
                    /\ row'[draft'[d].cell].version = draft'[d].version
                         => row'[draft'[d].cell].status = draft'[d].status
  BY DEF Faithful
<1>1. /\ draft[d] # NoDraft /\ ~draft[d].overtaken
      /\ draft'[d].cell = draft[d].cell /\ draft'[d].version = draft[d].version
      /\ draft'[d].status = draft[d].status
      /\ draft[d].cell = c => row[c].locked
  BY OvertakeEffect
<1>2. draft[d].cell \in Cell
  BY <1>1 DEF TypeOK, Draft
<1>3. row'[draft[d].cell] = row[draft[d].cell]
  BY <1>1, <1>2, UpsertEffect
<1> QED
  BY <1>1, <1>3 DEF Faithful

\* Every step keeps a draft's version naming the status it was read with.
LEMMA VersionStep ==
  TypeOK /\ VersionNamesContent /\ [Next]_vars => VersionNamesContent'
<1> SUFFICES ASSUME TypeOK, VersionNamesContent, [Next]_vars, NEW d \in Device
             PROVE  Faithful(draft'[d], row'[draft'[d].cell])
  BY DEF VersionNamesContent, Faithful
<1>0. Faithful(draft[d], row[draft[d].cell])
  BY DEF VersionNamesContent, Faithful
<1>1. ASSUME NEW x \in Device, WriteRecord(x)
      PROVE  Faithful(draft'[d], row'[draft'[d].cell])
  BY <1>0, <1>1, CheckedRecord, UpsertKeepsFaithful DEF WriteRecord
<1>2. ASSUME NEW c \in Cell, MarkPaidLeave(c)
      PROVE  Faithful(draft'[d], row'[draft'[d].cell])
  BY <1>0, <1>2, AttendanceAssumption, UpsertKeepsFaithful DEF MarkPaidLeave
<1>3. ASSUME NEW x \in Device, NEW c \in Cell, Open(x, c)
      PROVE  Faithful(draft'[d], row'[draft'[d].cell])
  <2>1. CASE x = d
    <3>1. row' = row /\ row[c] \in Row /\ draft'[d].cell = c
          /\ draft'[d].version = row[c].version /\ draft'[d].status = row[c].status
      BY <1>3, <2>1, RowShape DEF Open, TypeOK
    <3>2. row[c].version \in Nat
      BY <3>1, AttendanceAssumption DEF Row
    <3> QED
      BY <3>1, <3>2 DEF Faithful
  <2>2. CASE x # d
    BY <1>0, <1>3, <2>2 DEF Open, TypeOK
  <2> QED
    BY <2>1, <2>2
<1>4. ASSUME NEW x \in Device, NEW s \in Status, Edit(x, s)
      PROVE  Faithful(draft'[d], row'[draft'[d].cell])
  <2>1. CASE x = d
    <3>1. draft'[d] = NoDraft
      BY <1>4, <2>1 DEF Edit, TypeOK
    <3> QED
      BY <3>1 DEF Faithful
  <2>2. CASE x # d /\ row' = row
    BY <1>0, <1>4, <2>2 DEF Edit, TypeOK
  <2>3. CASE x # d /\ row' # row
    <3> SUFFICES ASSUME draft[d] # NoDraft, ~draft[d].overtaken
                 PROVE  Faithful(draft[d], row'[draft[d].cell])
      BY <1>4, <2>3 DEF Edit, TypeOK, Faithful
    <3> DEFINE c == draft[x].cell
    <3>1. draft[x] \in Draft /\ draft[d] \in Draft
      BY <1>4 DEF Edit, TypeOK
    <3>2. c \in Cell /\ draft[x].version > 0 /\ draft[d].cell \in Cell
          /\ draft[d].version \in Nat
      BY <3>1, AttendanceAssumption DEF Draft
    <3>3. row' = [row EXCEPT ![c] = Edited(row[c], s)] /\ row[c] \in Row
      BY <1>4, <2>3, <3>2, RowShape DEF Edit, Exists
    <3>4. CASE draft[d].cell = c
      <4>1. row'[c] = Edited(row[c], s)
        BY <3>2, <3>3 DEF TypeOK
      <4>2. Edited(row[c], s).version = row[c].version + 1 /\ row[c].version \in Nat
        BY <3>3, AttendanceAssumption DEF Edited, Row
      <4>3. row[c].version >= draft[d].version
        BY <1>0, <3>4 DEF Faithful
      <4> QED
        BY <3>2, <3>4, <4>1, <4>2, <4>3 DEF Faithful
    <3>5. CASE draft[d].cell # c
      BY <1>0, <3>2, <3>3, <3>5 DEF TypeOK
    <3> QED
      BY <3>4, <3>5
  <2> QED
    BY <2>1, <2>2, <2>3
<1>5. ASSUME NEW start \in Day, NEW end \in Day, LockAttendanceMonth(start, end)
      PROVE  Faithful(draft'[d], row'[draft'[d].cell])
  <2>1. draft' = draft
    BY <1>5 DEF LockAttendanceMonth
  <2>2. ASSUME NEW c \in Cell
        PROVE  row'[c].version = row[c].version /\ row'[c].status = row[c].status
    <3>1. Exists(c) => /\ [row[c] EXCEPT !.locked = TRUE].version = row[c].version
                       /\ [row[c] EXCEPT !.locked = TRUE].status = row[c].status
      BY RowShape DEF Row
    <3> QED
      BY <1>5, <3>1 DEF LockAttendanceMonth
  <2>3. draft[d] # NoDraft => draft[d].cell \in Cell
    BY DEF TypeOK, Draft
  <2> QED
    BY <1>0, <2>1, <2>2, <2>3 DEF Faithful
<1>6. ASSUME NEW x \in Device, EditFails(x)
      PROVE  Faithful(draft'[d], row'[draft'[d].cell])
  BY <1>0, <1>6 DEF EditFails, TypeOK, Faithful
<1>7. CASE UNCHANGED <<row, draft>>
  BY <1>0, <1>7
<1> QED
  BY <1>1, <1>2, <1>3, <1>4, <1>5, <1>6, <1>7
     DEF Next, vars, Post, CheckRecord, WriteFails, SetHoliday

\* A draft whose version still matches shows the status that is stored, unless
\* an upsert came between: "WHERE version = expected" detects every edit.
THEOREM VersionsNameContent == Spec => []VersionNamesContent
<1>1. Init => VersionNamesContent
  BY DEF Init, VersionNamesContent
<1> QED
  BY <1>1, VersionStep, TypeCorrect, PTL DEF Spec

\* A draft goes when it is edited or opened anew; an upsert only marks it.
LEMMA DraftGoes ==
  ASSUME TypeOK, [Next]_vars, NEW d \in Device, draft[d] # NoDraft, draft'[d] = NoDraft
  PROVE  (\E s \in Status : Edit(d, s)) \/ EditFails(d)
<1>1. ASSUME NEW c \in Cell, Overtake(c) PROVE FALSE
  BY <1>1, OvertakeEffect
<1>2. ASSUME NEW x \in Device, NEW c \in Cell, Open(x, c) PROVE FALSE
  <2>1. row[c] \in Row
    BY <1>2, RowShape DEF Open
  <2>2. [cell |-> c, version |-> row[c].version, status |-> row[c].status,
         overtaken |-> FALSE] \in Draft
    BY <2>1 DEF Row, Draft
  <2> QED
    BY <1>2, <2>2, AttendanceAssumption DEF Open, TypeOK
<1>3. ASSUME NEW x \in Device, NEW s \in Status, Edit(x, s) PROVE x = d
  BY <1>3 DEF Edit, TypeOK
<1>4. ASSUME NEW x \in Device, EditFails(x) PROVE x = d
  BY <1>4 DEF EditFails, TypeOK
<1>5. ASSUME NEW x \in Device, WriteRecord(x) PROVE FALSE
  BY <1>1, <1>5, CheckedRecord DEF WriteRecord
<1>6. CASE UNCHANGED draft
  BY <1>6
<1> QED
  BY <1>1, <1>2, <1>3, <1>4, <1>5, <1>6
     DEF Next, vars, Post, CheckRecord, WriteFails, MarkPaidLeave, LockAttendanceMonth,
         SetHoliday

\* What versions are for: between the versioned edits of any number of devices
\* no update is lost.
THEOREM EditsSawUnlessOvertaken == Spec => EditSawUnlessOvertaken
<1> DEFINE Saw == \A d \in Device :
      draft[d] # NoDraft /\ ~draft[d].overtaken /\ draft'[d] = NoDraft /\ answer' = "ok"
        => row[draft[d].cell].status = draft[d].status
<1>1. TypeOK /\ VersionNamesContent /\ [Next]_vars => [Saw]_vars
  <2> SUFFICES ASSUME TypeOK, VersionNamesContent, [Next]_vars, NEW d \in Device,
                      draft[d] # NoDraft, ~draft[d].overtaken, draft'[d] = NoDraft,
                      answer' = "ok"
               PROVE  row[draft[d].cell].status = draft[d].status
    OBVIOUS
  <2>1. PICK s \in Status : Edit(d, s)
    BY DraftGoes DEF EditFails
  <2>2. row[draft[d].cell].version = draft[d].version
    BY <2>1 DEF Edit
  <2> QED
    BY <2>2 DEF VersionNamesContent
<1> QED
  BY <1>1, VersionsNameContent, TypeCorrect, PTL DEF Spec, EditSawUnlessOvertaken

-----------------------------------------------------------------------------
(* The handlers implement the abstract register *)

StatusBar == [c \in Cell |-> row[c].status]
FrozenBar == {c \in Cell : row[c].locked}

\* What the register's variables stand for here.
LEMMA RegisterCells ==
  /\ Register!Cell = Cell
  /\ Register!Marked = {c \in Cell : StatusBar[c] # Unmarked}
BY DEF Register!Cell, Register!Marked, Cell, StatusBar

\* A step that changes one unlocked row, and not its lock, marks that cell.
LEMMA RowWriteSetsStatus ==
  ASSUME NEW c \in Cell, NEW s \in Status, ~row[c].locked,
         \A x \in Cell : x # c => row'[x] = row[x],
         row'[c].status = s, row'[c].locked = FALSE
  PROVE  Register!SetStatus(c, s)
<1>1. c \notin FrozenBar
  BY DEF FrozenBar
<1>2. StatusBar' = [StatusBar EXCEPT ![c] = s]
  BY DEF StatusBar
<1>3. FrozenBar' = FrozenBar
  BY DEF FrozenBar
<1> QED
  BY <1>1, <1>2, <1>3 DEF Register!SetStatus, StatusBar, FrozenBar

\* Locking a range freezes the rows of the range, all of them marked.
LEMMA LockFreezes ==
  ASSUME TypeOK, NEW start \in Day, NEW end \in Day, LockAttendanceMonth(start, end)
  PROVE  \E cells \in SUBSET Register!Marked : Register!Freeze(cells)
<1> DEFINE cells == {c \in Cell : c[2] \in start..end /\ Exists(c)}
<1>1. ASSUME NEW c \in Cell
      PROVE  /\ row'[c].status = row[c].status
             /\ row'[c].locked <=> row[c].locked \/ c \in cells
  <2>1. Exists(c) => /\ [row[c] EXCEPT !.locked = TRUE].locked = TRUE
                     /\ [row[c] EXCEPT !.locked = TRUE].status = row[c].status
    BY RowShape DEF Row
  <2> QED
    BY <1>1, <2>1 DEF LockAttendanceMonth
<1>2. cells \subseteq Register!Marked
  <2>1. \A c \in cells : row[c].status # Unmarked
    BY RowShape, AttendanceAssumption DEF Row
  <2> QED
    BY <2>1, RegisterCells DEF StatusBar
<1>3. StatusBar' = StatusBar
  BY <1>1 DEF StatusBar
<1>4. FrozenBar' = FrozenBar \cup cells
  BY <1>1 DEF FrozenBar
<1> HIDE DEF cells
<1> QED
  BY <1>2, <1>3, <1>4 DEF Register!Freeze, StatusBar, FrozenBar

\* Every step of the handlers is a step of the register or leaves it alone.
LEMMA RegisterStep ==
  TypeOK /\ [Next]_vars => [Register!RegisterNext]_(Register!register)
<1> SUFFICES ASSUME TypeOK, [Next]_vars
             PROVE  Register!RegisterNext \/ UNCHANGED <<StatusBar, FrozenBar>>
  BY DEF Register!register, StatusBar, FrozenBar
<1>1. CASE row' = row
  BY <1>1 DEF StatusBar, FrozenBar
<1>2. ASSUME NEW c \in Cell, NEW s \in Status, Upsert(c, s)
      PROVE  Register!RegisterNext \/ UNCHANGED <<StatusBar, FrozenBar>>
  <2>1. CASE row[c].locked
    <3>1. \A x \in Cell : row'[x] = row[x]
      BY <1>2, <2>1, UpsertEffect
    <3> QED
      BY <3>1 DEF StatusBar, FrozenBar
  <2>2. CASE ~row[c].locked
    <3>1. Register!SetStatus(c, s)
      BY <1>2, <2>2, UpsertEffect, RowWriteSetsStatus
    <3> QED
      BY <3>1, RegisterCells DEF Register!RegisterNext
  <2> QED
    BY <2>1, <2>2
<1>3. ASSUME NEW c \in Cell, NEW s \in Status, ~row[c].locked, Exists(c),
             row' = [row EXCEPT ![c] = Edited(row[c], s)]
      PROVE  Register!RegisterNext
  <2>1. row'[c] = Edited(row[c], s) /\ row[c] \in Row
    BY <1>3, RowShape DEF TypeOK
  <2>2. row'[c].status = s /\ row'[c].locked = FALSE
    BY <1>3, <2>1 DEF Edited, Row
  <2>3. \A x \in Cell : x # c => row'[x] = row[x]
    BY <1>3 DEF TypeOK
  <2>4. Register!SetStatus(c, s)
    BY <1>3, <2>2, <2>3, RowWriteSetsStatus
  <2> QED
    BY <2>4, RegisterCells DEF Register!RegisterNext
<1>4. ASSUME NEW start \in Day, NEW end \in Day, LockAttendanceMonth(start, end)
      PROVE  Register!RegisterNext
  BY <1>4, LockFreezes DEF Register!RegisterNext
<1> QED
  BY <1>1, <1>2, <1>3, <1>4, RowSteps

\* The handlers implement AttendanceRegister: a frozen cell is never written,
\* only marked cells freeze, none is thawed, and each step marks one cell.
THEOREM HandlersImplementRegister == Spec => ImplementsRegister
<1>1. Init => Register!RegisterInit
  BY DEF Init, NoRow, Register!RegisterInit, Register!Cell, Cell
<1>2. TypeOK /\ [Next]_vars => [Register!RegisterNext]_(Register!register)
  BY RegisterStep
<1> QED
  BY <1>1, <1>2, TypeCorrect, PTL DEF Spec, ImplementsRegister, Register!RegisterSpec
=============================================================================
