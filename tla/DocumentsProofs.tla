--------------------------- MODULE DocumentsProofs ---------------------------
(***************************************************************************)
(* For any number of slots, pictures, requests and tasks: a row without    *)
(* its file has one of the two causes that LostFileHasCause names, and     *)
(* picks that run one at a time are kept unless the file fails them.       *)
(***************************************************************************)
EXTENDS DocumentQueue, TLAPS

\* What the row x of the slot s, now or as it was once found, says of the file:
\* on the disk the request that wrote it is over.
Named(s, x) ==
  x # NoRow =>
    IF cloud THEN x.file = <<s, Format[x.pic]>>
    ELSE /\ x.file \in Request
         /\ req[x.file].stage = "answered"
         /\ req[x.file].slot = s /\ req[x.file].pic = x.pic

RowsNamed == \A s \in Slot : Named(s, row[s])
FoundNamed == \A r \in Request : Named(req[r].slot, req[r].found)

\* A delete that has destroyed the asset n of the slot s.
Destroyed(s, n) ==
  \E q \in Request : /\ cloud /\ At(q, "delete", "answered")
                     /\ req[q].slot = s /\ req[q].found # NoRow /\ req[q].found.file = n

StoredThere ==
  \A r \in Request : req[r].stage = "stored" =>
    Own(r) \in DOMAIN store \/ Destroyed(req[r].slot, Own(r))

\* On the disk a file that was replaced or deleted never comes back into the row.
NotAgain ==
  \A r \in Request :
    /\ ~cloud /\ req[r].found # NoRow
    /\ At(r, "delete", "deleted") \/ At(r, "delete", "answered") \/ At(r, "upload", "answered")
    => row[req[r].slot] = NoRow \/ row[req[r].slot].file # req[r].found.file

DInv == ServerTypeOK /\ RowsNamed /\ FoundNamed /\ StoredThere /\ NotAgain /\ LostFileHasCause

RequestRecord == [stage : Stage, op : Op, slot : Slot, pic : Picture, found : Row \cup {NoRow}]

-----------------------------------------------------------------------------

LEMMA InitDInv == Init => DInv
<1> SUFFICES ASSUME Init PROVE DInv
  OBVIOUS
<1>1. AnySlot \in Slot /\ AnyPicture \in Picture
  BY DocumentAssumption DEF AnySlot, AnyPicture
<1>2. \A r \in Request : req[r] = [stage |-> "idle", op |-> "upload", slot |-> AnySlot,
                                   pic |-> AnyPicture, found |-> NoRow]
  BY DEF Init, ServerInit, NewRequest
<1>3. ServerTypeOK
  BY <1>1, <1>2 DEF Init, ServerInit, NewRequest, ServerTypeOK, Stage, Op
<1>4. (\A r \in Request : req[r].found = NoRow /\ req[r].stage = "idle")
        /\ \A s \in Slot : row[s] = NoRow
  BY <1>2 DEF Init, ServerInit
<1> QED
  BY <1>3, <1>4 DEF DInv, RowsNamed, FoundNamed, Named, StoredThere, NotAgain,
                    LostFileHasCause, Lost, At

\* What Go changes, field by field.
LEMMA GoEffect ==
  ASSUME ServerTypeOK, NEW r \in Request, NEW st \in Stage, Go(r, st)
  PROVE  /\ req' \in [Request -> RequestRecord]
         /\ \A q \in Request :
              /\ req'[q].op = req[q].op /\ req'[q].slot = req[q].slot
              /\ req'[q].pic = req[q].pic /\ req'[q].found = req[q].found
              /\ req'[q].stage = IF q = r THEN st ELSE req[q].stage
<1>1. req \in [Request -> RequestRecord]
  BY DEF ServerTypeOK, RequestRecord
<1>2. req' = [req EXCEPT ![r].stage = st]
  BY DEF Go
<1>3. ASSUME NEW w \in RequestRecord
      PROVE  LET v == [w EXCEPT !.stage = st]
             IN /\ v \in RequestRecord /\ v.op = w.op /\ v.slot = w.slot
                /\ v.pic = w.pic /\ v.found = w.found /\ v.stage = st
  BY DEF RequestRecord
<1> QED
  BY <1>1, <1>2, <1>3

\* The types of what the properties look at.
LEMMA Fields ==
  ASSUME ServerTypeOK
  PROVE  /\ \A s \in Slot : row[s] \in Row \cup {NoRow}
         /\ \A r \in Request : /\ req[r].slot \in Slot /\ req[r].pic \in Picture
                               /\ req[r].found \in Row \cup {NoRow}
                               /\ req[r].stage \in Stage /\ req[r].op \in Op
  BY DEF ServerTypeOK

\* A request that is over stays as it is.
OverStays ==
  /\ UNCHANGED cloud
  /\ \A q \in Request : req[q].stage = "answered" => req'[q] = req[q]

LEMMA NamedStays ==
  ASSUME NEW s, NEW x, Named(s, x), OverStays
  PROVE  Named(s, x)'
  BY DEF Named, OverStays

LEMMA RowsStayNamed ==
  ASSUME DInv, OverStays, UNCHANGED row
  PROVE  RowsNamed'
<1> SUFFICES ASSUME NEW s \in Slot, NEW x, x = row[s] PROVE Named(s, x)'
  BY DEF RowsNamed, Named
<1>1. Named(s, x)
  BY DEF DInv, RowsNamed
<1> QED
  BY <1>1, NamedStays

\* A step of a request that has not ended moves its stage and leaves the rows.
LEMMA GoKeepsNames ==
  ASSUME DInv, NEW r \in Request, NEW st \in Stage, Go(r, st),
         req[r].stage # "answered", UNCHANGED cloud
  PROVE  OverStays /\ FoundNamed'
<1>1. OverStays
  <2>1. req' = [req EXCEPT ![r].stage = st]
    BY DEF Go
  <2> QED
    BY <2>1 DEF OverStays, DInv, ServerTypeOK
<1>2. ASSUME NEW q \in Request PROVE Named(req[q].slot, req[q].found)'
  <2>1. req'[q].slot = req[q].slot /\ req'[q].found = req[q].found
    BY GoEffect DEF DInv
  <2>2. PICK t, x : t = req[q].slot /\ x = req[q].found
    OBVIOUS
  <2>3. Named(t, x)'
    BY <2>2, <1>1, NamedStays DEF DInv, FoundNamed
  <2> QED
    BY <2>1, <2>2, <2>3 DEF Named
<1> QED
  BY <1>1, <1>2 DEF FoundNamed

-----------------------------------------------------------------------------
(* The steps of a request *)

LEMMA BeginStep ==
  ASSUME DInv, NEW r \in Request, NEW op \in Op, NEW s \in Slot, NEW p \in Picture,
         Begin(r, op, s, p)
  PROVE  DInv'
<1>1. /\ req[r].stage = "idle"
      /\ req' = [req EXCEPT ![r] = NewRequest(op, s, p)]
      /\ UNCHANGED <<cloud, row, store>>
  BY DEF Begin
<1>2. NewRequest(op, s, p) \in RequestRecord
  BY DEF NewRequest, RequestRecord, Stage
<1>3. ServerTypeOK'
  BY <1>1, <1>2 DEF DInv, ServerTypeOK, RequestRecord
<1>4. \A q \in Request : IF q = r THEN /\ req'[q].stage = "begun" /\ req'[q].op = op
                                        /\ req'[q].slot = s /\ req'[q].found = NoRow
                                   ELSE req'[q] = req[q]
  BY <1>1 DEF NewRequest, DInv, ServerTypeOK
<1>5. OverStays
  BY <1>1, <1>4 DEF OverStays
<1>6. RowsNamed'
  BY <1>1, <1>5, RowsStayNamed
<1>7. FoundNamed'
  <2> SUFFICES ASSUME NEW q \in Request PROVE Named(req[q].slot, req[q].found)'
    BY DEF FoundNamed
  <2>1. CASE q = r
    BY <2>1, <1>4 DEF Named
  <2>2. CASE q # r
    <3>1. PICK t, x : t = req[q].slot /\ x = req[q].found
      OBVIOUS
    <3>2. Named(t, x)'
      BY <3>1, <1>5, NamedStays DEF DInv, FoundNamed
    <3> QED
      BY <2>2, <1>4, <3>1, <3>2 DEF Named
  <2> QED
    BY <2>1, <2>2
<1>8. StoredThere'
  BY <1>1, <1>4 DEF DInv, StoredThere, Destroyed, Own, At
<1>9. NotAgain'
  BY <1>1, <1>4 DEF DInv, NotAgain, At
<1>10. LostFileHasCause'
  BY <1>1, <1>4 DEF DInv, LostFileHasCause, Lost, Unfinished, At
<1> QED
  BY <1>3, <1>6, <1>7, <1>8, <1>9, <1>10 DEF DInv

LEMMA FindStep ==
  ASSUME DInv, NEW r \in Request, Find(r)
  PROVE  DInv'
<1> DEFINE x == row[req[r].slot]
<1>1. PICK st \in {"refused", "found"} :
        req' = [req EXCEPT ![r].found = x, ![r].stage = st]
  BY DEF Find
<1>2. /\ req[r].stage = "begun"
      /\ UNCHANGED <<cloud, row, store>>
  BY DEF Find
<1>3. x \in Row \cup {NoRow}
  BY Fields DEF DInv
<1>4. ASSUME NEW w \in RequestRecord
      PROVE  LET v == [w EXCEPT !.found = x, !.stage = st]
             IN /\ v \in RequestRecord /\ v.op = w.op /\ v.slot = w.slot
                /\ v.pic = w.pic /\ v.found = x /\ v.stage = st
  BY <1>3 DEF RequestRecord, Stage
<1> HIDE DEF x
<1>5. req \in [Request -> RequestRecord]
  BY DEF DInv, ServerTypeOK, RequestRecord
<1>6. /\ req' \in [Request -> RequestRecord]
      /\ \A q \in Request : q # r => req'[q] = req[q]
      /\ req'[r].op = req[r].op /\ req'[r].slot = req[r].slot /\ req'[r].pic = req[r].pic
      /\ req'[r].found = x /\ req'[r].stage = st
  BY <1>1, <1>4, <1>5
<1>7. ServerTypeOK'
  BY <1>2, <1>6 DEF DInv, ServerTypeOK, RequestRecord
<1>8. OverStays
  BY <1>2, <1>6 DEF OverStays
<1>9. RowsNamed'
  BY <1>2, <1>8, RowsStayNamed
<1>10. FoundNamed'
  <2> SUFFICES ASSUME NEW q \in Request PROVE Named(req[q].slot, req[q].found)'
    BY DEF FoundNamed
  <2>1. PICK t, y : t = req'[q].slot /\ y = req'[q].found
    OBVIOUS
  <2>2. Named(t, y)
    <3>1. CASE q = r
      BY <3>1, <2>1, <1>6, Fields DEF DInv, RowsNamed, x
    <3>2. CASE q # r
      BY <3>2, <2>1, <1>6 DEF DInv, FoundNamed
    <3> QED
      BY <3>1, <3>2
  <2>3. Named(t, y)'
    BY <2>2, <1>8, NamedStays
  <2> QED
    BY <2>1, <2>3 DEF Named
<1>11. StoredThere'
  <2> SUFFICES ASSUME NEW q \in Request, req'[q].stage = "stored"
               PROVE  (Own(q) \in DOMAIN store \/ Destroyed(req[q].slot, Own(q)))'
    BY DEF StoredThere
  <2>1. q # r /\ req'[q] = req[q]
    BY <1>6
  <2>2. Own(q) \in DOMAIN store \/ Destroyed(req[q].slot, Own(q))
    BY <2>1 DEF DInv, StoredThere
  <2> QED
    BY <1>2, <1>8, <2>1, <2>2 DEF Destroyed, Own, At, OverStays
<1>12. NotAgain'
  <2> SUFFICES ASSUME NEW q \in Request, ~cloud, req'[q].found # NoRow,
                      (At(q, "delete", "deleted") \/ At(q, "delete", "answered")
                         \/ At(q, "upload", "answered"))'
               PROVE  row[req'[q].slot] = NoRow \/ row[req'[q].slot].file # req'[q].found.file
    BY <1>2 DEF NotAgain
  <2>1. q # r
    BY <1>6 DEF At
  <2> QED
    BY <1>6, <2>1 DEF DInv, NotAgain, At
<1>13. LostFileHasCause'
  <2> SUFFICES ASSUME NEW s \in Slot, Lost(s)
               PROVE  \E q \in Request :
                        /\ req'[q].slot = s /\ req'[q].found # NoRow
                        /\ req'[q].found.file = row[s].file
                        /\ IF cloud THEN At(q, "delete", "answered")'
                                    ELSE req'[q].found = row[s] /\ Unfinished(q)'
    BY <1>2 DEF LostFileHasCause, Lost
  <2>1. PICK q \in Request : /\ req[q].slot = s /\ req[q].found # NoRow
                             /\ req[q].found.file = row[s].file
                             /\ IF cloud THEN At(q, "delete", "answered")
                                         ELSE req[q].found = row[s] /\ Unfinished(q)
    BY DEF DInv, LostFileHasCause
  <2>2. q # r
    BY <1>2, <2>1 DEF At, Unfinished
  <2> QED
    BY <1>6, <2>1, <2>2 DEF At, Unfinished
<1> QED
  BY <1>7, <1>9, <1>10, <1>11, <1>12, <1>13 DEF DInv

\* The steps that only move the stage of a request, away from what a cause or
\* a stored file needs.
LEMMA MoveStep ==
  ASSUME DInv, NEW r \in Request, NEW st \in Stage, Go(r, st),
         UNCHANGED <<cloud, row, store>>,
         req[r].stage \notin {"idle", "answered", "refused", "missing", "stopped"},
         st # "stored",
         st = "answered" => req[r].op = "download",
         st \in {"refused", "stopped"} \/ req[r].stage \notin {"cleared", "stored"},
         st # "deleted"
  PROVE  DInv'
<1>1. OverStays /\ FoundNamed'
  BY GoKeepsNames
<1>2. RowsNamed'
  BY <1>1, RowsStayNamed
<1>3. ServerTypeOK'
  BY GoEffect DEF DInv, ServerTypeOK, RequestRecord
<1>4. \A q \in Request :
        /\ req'[q].op = req[q].op /\ req'[q].slot = req[q].slot
        /\ req'[q].pic = req[q].pic /\ req'[q].found = req[q].found
        /\ req'[q].stage = IF q = r THEN st ELSE req[q].stage
  BY GoEffect DEF DInv
<1>5. StoredThere'
  <2> SUFFICES ASSUME NEW q \in Request, req'[q].stage = "stored"
               PROVE  (Own(q) \in DOMAIN store \/ Destroyed(req[q].slot, Own(q)))'
    BY DEF StoredThere
  <2>1. Own(q) \in DOMAIN store \/ Destroyed(req[q].slot, Own(q))
    BY <1>4 DEF DInv, StoredThere
  <2>2. Own(q)' = Own(q)
    BY <1>4 DEF Own
  <2>3. CASE Own(q) \in DOMAIN store
    BY <2>2, <2>3
  <2>4. CASE Destroyed(req[q].slot, Own(q))
    BY <2>2, <2>4, <1>4 DEF Destroyed, At
  <2> QED
    BY <2>1, <2>3, <2>4
<1>6. NotAgain'
  BY <1>4 DEF DInv, NotAgain, At
<1>7. LostFileHasCause'
  <2> SUFFICES ASSUME NEW s \in Slot, Lost(s)
               PROVE  \E q \in Request :
                        /\ req'[q].slot = s /\ req'[q].found # NoRow
                        /\ req'[q].found.file = row[s].file
                        /\ IF cloud THEN At(q, "delete", "answered")'
                                    ELSE req'[q].found = row[s] /\ Unfinished(q)'
    BY DEF LostFileHasCause, Lost
  <2>1. PICK q \in Request : /\ req[q].slot = s /\ req[q].found # NoRow
                             /\ req[q].found.file = row[s].file
                             /\ IF cloud THEN At(q, "delete", "answered")
                                         ELSE req[q].found = row[s] /\ Unfinished(q)
    BY DEF DInv, LostFileHasCause
  <2> QED
    BY <1>4, <2>1 DEF At, Unfinished
<1> QED
  BY <1>1, <1>2, <1>3, <1>5, <1>6, <1>7 DEF DInv

\* A removal takes one file, or fails.
LEMMA Removed ==
  ASSUME ServerTypeOK, NEW n, RemoveFile(n)
  PROVE  /\ DOMAIN store' \subseteq File
         /\ \A m \in DOMAIN store' : store'[m] \in Picture
         /\ \A m \in DOMAIN store : m # n => m \in DOMAIN store'
  BY DEF RemoveFile, Restrict, ServerTypeOK

\* On the disk an upload removes the file of the row it found: if that is still
\* the row, it is the cause.
LEMMA ClearDiskStep ==
  ASSUME DInv, NEW r \in Request, At(r, "upload", "found"), Go(r, "cleared"),
         ~cloud, req[r].found # NoRow, RemoveFile(req[r].found.file),
         UNCHANGED <<cloud, row>>
  PROVE  DInv'
<1> "cleared" \in Stage
  BY DEF Stage
<1>1. OverStays /\ FoundNamed'
  BY GoKeepsNames DEF At
<1>2. RowsNamed'
  BY <1>1, RowsStayNamed
<1>3. ServerTypeOK'
  BY GoEffect, Removed DEF DInv, ServerTypeOK, RequestRecord
<1>4. \A q \in Request :
        /\ req'[q].op = req[q].op /\ req'[q].slot = req[q].slot
        /\ req'[q].pic = req[q].pic /\ req'[q].found = req[q].found
        /\ req'[q].stage = IF q = r THEN "cleared" ELSE req[q].stage
  BY GoEffect DEF DInv
<1>5. /\ req[req[r].found.file].stage = "answered"
      /\ \A m \in DOMAIN store : m # req[r].found.file => m \in DOMAIN store'
  BY Removed DEF DInv, FoundNamed, Named
<1>6. StoredThere'
  BY <1>4, <1>5 DEF DInv, StoredThere, Own, Destroyed
<1>7. NotAgain'
  BY <1>4 DEF DInv, NotAgain, At
<1>8. LostFileHasCause'
  <2> SUFFICES ASSUME NEW s \in Slot, row[s] # NoRow, row[s].file \notin DOMAIN store'
               PROVE  \E q \in Request :
                        /\ req'[q].slot = s /\ req'[q].found # NoRow
                        /\ req'[q].found.file = row[s].file
                        /\ req'[q].found = row[s] /\ Unfinished(q)'
    BY DEF LostFileHasCause, Lost
  <2>1. CASE row[s].file \notin DOMAIN store
    <3>1. PICK q \in Request : /\ req[q].slot = s /\ req[q].found # NoRow
                               /\ req[q].found.file = row[s].file
                               /\ req[q].found = row[s] /\ Unfinished(q)
      BY <2>1 DEF DInv, LostFileHasCause, Lost
    <3> QED
      BY <1>4, <3>1 DEF Unfinished
  <2>2. CASE row[s].file = req[r].found.file
    <3>1. row[s].pic = req[r].found.pic /\ req[r].slot = s
      BY <2>2 DEF DInv, RowsNamed, FoundNamed, Named
    <3>2. row[s] \in Row /\ req[r].found \in Row
      BY Fields DEF DInv
    <3>3. row[s] = req[r].found
      BY <2>2, <3>1, <3>2 DEF Row
    <3> QED
      BY <1>4, <3>1, <3>3 DEF Unfinished, At
  <2> QED
    BY <1>5, <2>1, <2>2
<1> QED
  BY <1>1, <1>2, <1>3, <1>6, <1>7, <1>8 DEF DInv

LEMMA ClearStep ==
  ASSUME DInv, NEW r \in Request, Clear(r)
  PROVE  DInv'
<1>1. CASE UNCHANGED store
  BY <1>1, MoveStep DEF Clear, At, Stage
<1>2. CASE ~cloud /\ req[r].found # NoRow /\ RemoveFile(req[r].found.file)
  BY <1>2, ClearDiskStep DEF Clear
<1> QED
  BY <1>1, <1>2 DEF Clear

LEMMA WriteFileStep ==
  ASSUME DInv, NEW r \in Request, NEW st \in {"stored", "refused"}, Go(r, st),
         At(r, "upload", "cleared") \/ At(r, "photo", "begun"),
         store' = Written(r), UNCHANGED <<cloud, row>>
  PROVE  DInv'
<1> st \in Stage
  BY DEF Stage
<1>1. OverStays /\ FoundNamed'
  BY GoKeepsNames DEF At
<1>2. RowsNamed'
  BY <1>1, RowsStayNamed
<1>3. Own(r) \in File
  BY Fields, DocumentAssumption DEF DInv, Own, File
<1>4. /\ DOMAIN store' = DOMAIN store \cup {Own(r)}
      /\ DOMAIN store' \subseteq File
      /\ \A n \in DOMAIN store' : store'[n] \in Picture
  BY <1>3, Fields DEF Written, DInv, ServerTypeOK
<1>5. ServerTypeOK'
  BY <1>4, GoEffect DEF DInv, ServerTypeOK, RequestRecord
<1>6. \A q \in Request :
        /\ req'[q].op = req[q].op /\ req'[q].slot = req[q].slot
        /\ req'[q].pic = req[q].pic /\ req'[q].found = req[q].found
        /\ req'[q].stage = IF q = r THEN st ELSE req[q].stage
  BY GoEffect DEF DInv
<1>7. StoredThere'
  <2> SUFFICES ASSUME NEW q \in Request, req'[q].stage = "stored"
               PROVE  (Own(q) \in DOMAIN store \/ Destroyed(req[q].slot, Own(q)))'
    BY DEF StoredThere
  <2>1. Own(q)' = Own(q)
    BY <1>6 DEF Own
  <2>2. CASE q = r
    BY <1>4, <2>1, <2>2
  <2>3. CASE q # r
    <3>1. Own(q) \in DOMAIN store \/ Destroyed(req[q].slot, Own(q))
      BY <2>3, <1>6 DEF DInv, StoredThere
    <3>2. CASE Own(q) \in DOMAIN store
      BY <1>4, <2>1, <3>2
    <3>3. CASE Destroyed(req[q].slot, Own(q))
      BY <2>1, <3>3, <1>6 DEF Destroyed, At
    <3> QED
      BY <3>1, <3>2, <3>3
  <2> QED
    BY <2>2, <2>3
<1>8. NotAgain'
  BY <1>6 DEF DInv, NotAgain, At
<1>9. LostFileHasCause'
  <2> SUFFICES ASSUME NEW s \in Slot, row[s] # NoRow, row[s].file \notin DOMAIN store'
               PROVE  \E q \in Request :
                        /\ req'[q].slot = s /\ req'[q].found # NoRow
                        /\ req'[q].found.file = row[s].file
                        /\ IF cloud THEN At(q, "delete", "answered")'
                                    ELSE req'[q].found = row[s] /\ Unfinished(q)'
    BY DEF LostFileHasCause, Lost
  <2>1. PICK q \in Request : /\ req[q].slot = s /\ req[q].found # NoRow
                             /\ req[q].found.file = row[s].file
                             /\ IF cloud THEN At(q, "delete", "answered")
                                         ELSE req[q].found = row[s] /\ Unfinished(q)
    BY <1>4 DEF DInv, LostFileHasCause, Lost
  <2>2. CASE cloud
    BY <1>6, <2>1, <2>2 DEF At
  <2>3. CASE ~cloud
    <3>1. CASE q = r /\ st = "stored"
      BY <1>6, <2>1, <2>3, <3>1 DEF Unfinished
    <3>2. CASE q # r \/ st = "refused"
      BY <1>6, <2>1, <2>3, <3>2 DEF Unfinished
    <3> QED
      BY <3>1, <3>2
  <2> QED
    BY <2>2, <2>3
<1> QED
  BY <1>1, <1>2, <1>5, <1>7, <1>8, <1>9 DEF DInv

LEMMA StoreFileStep ==
  ASSUME DInv, NEW r \in Request, StoreFile(r)
  PROVE  DInv'
<1>1. CASE store' = Written(r)
  BY <1>1, WriteFileStep DEF StoreFile
<1>2. CASE UNCHANGED store /\ Go(r, "refused")
  BY <1>2, MoveStep DEF StoreFile, At, Stage
<1> QED
  BY <1>1, <1>2 DEF StoreFile

\* The row names the file of this very request, which is there or was destroyed
\* by a delete that shares the asset.
LEMMA SaveStep ==
  ASSUME DInv, NEW r \in Request, req[r].stage = "stored", Go(r, "answered"),
         row' = [row EXCEPT ![req[r].slot] = [file |-> Own(r), pic |-> req[r].pic]],
         UNCHANGED <<cloud, store>>
  PROVE  DInv'
<1> "answered" \in Stage
  BY DEF Stage
<1> DEFINE s == req[r].slot
           new == [file |-> Own(r), pic |-> req[r].pic]
<1>1. OverStays /\ FoundNamed'
  BY GoKeepsNames
<1>2. /\ s \in Slot /\ req[r].pic \in Picture /\ new.file = Own(r) /\ new.pic = req[r].pic
      /\ new \in Row
  BY Fields, DocumentAssumption DEF DInv, Own, File, Row
<1>3. \A u \in Slot : row'[u] = IF u = s THEN new ELSE row[u]
  BY DEF DInv, ServerTypeOK
<1>4. \A q \in Request :
        /\ req'[q].op = req[q].op /\ req'[q].slot = req[q].slot
        /\ req'[q].pic = req[q].pic /\ req'[q].found = req[q].found
        /\ req'[q].stage = IF q = r THEN "answered" ELSE req[q].stage
  BY GoEffect DEF DInv
<1> HIDE DEF s, new
<1>5. row' \in [Slot -> Row \cup {NoRow}]
  BY <1>2 DEF DInv, ServerTypeOK, s, new
<1>6. ServerTypeOK'
  BY <1>5, GoEffect DEF DInv, ServerTypeOK, RequestRecord
<1>7. RowsNamed'
  <2> SUFFICES ASSUME NEW u \in Slot PROVE Named(u, row[u])'
    BY DEF RowsNamed
  <2>1. CASE u = s
    BY <2>1, <1>2, <1>3, <1>4 DEF Named, Own, s
  <2>2. CASE u # s
    <3>1. PICK x : x = row[u]
      OBVIOUS
    <3>2. Named(u, x)'
      BY <3>1, <1>1, NamedStays DEF DInv, RowsNamed
    <3> QED
      BY <2>2, <1>3, <3>1, <3>2 DEF Named
  <2> QED
    BY <2>1, <2>2
<1>8. StoredThere'
  <2> SUFFICES ASSUME NEW q \in Request, req'[q].stage = "stored"
               PROVE  (Own(q) \in DOMAIN store \/ Destroyed(req[q].slot, Own(q)))'
    BY DEF StoredThere
  <2>1. Own(q)' = Own(q)
    BY <1>4 DEF Own
  <2>2. Own(q) \in DOMAIN store \/ Destroyed(req[q].slot, Own(q))
    BY <1>4 DEF DInv, StoredThere
  <2>3. CASE Destroyed(req[q].slot, Own(q))
    BY <2>1, <2>3, <1>4 DEF Destroyed, At
  <2> QED
    BY <2>1, <2>2, <2>3
<1>9. NotAgain'
  <2> SUFFICES ASSUME NEW q \in Request, ~cloud, req[q].found # NoRow,
                      (At(q, "delete", "deleted") \/ At(q, "delete", "answered")
                         \/ At(q, "upload", "answered"))'
               PROVE  row'[req[q].slot] = NoRow \/ row'[req[q].slot].file # req[q].found.file
    BY <1>4 DEF NotAgain
  <2>1. req[q].slot \in Slot
    BY Fields DEF DInv
  <2>2. CASE req[q].slot = s
    <3>1. row'[req[q].slot].file = r
      BY <2>1, <2>2, <1>2, <1>3 DEF Own
    <3>2. req[req[q].found.file].stage = "answered"
      BY DEF DInv, FoundNamed, Named
    <3> QED
      BY <3>1, <3>2
  <2>3. CASE req[q].slot # s
    <3>1. q # r
      BY <2>3 DEF s
    <3> QED
      BY <2>1, <2>3, <3>1, <1>3, <1>4 DEF DInv, NotAgain, At
  <2> QED
    BY <2>2, <2>3
<1>10. LostFileHasCause'
  <2> SUFFICES ASSUME NEW u \in Slot, row'[u] # NoRow, row'[u].file \notin DOMAIN store
               PROVE  \E q \in Request :
                        /\ req'[q].slot = u /\ req'[q].found # NoRow
                        /\ req'[q].found.file = row'[u].file
                        /\ IF cloud THEN At(q, "delete", "answered")'
                                    ELSE req'[q].found = row'[u] /\ Unfinished(q)'
    BY DEF LostFileHasCause, Lost
  <2>1. CASE u = s
    <3>1. row'[u].file = Own(r)
      BY <2>1, <1>2, <1>3
    <3>2. Destroyed(s, Own(r))
      BY <3>1 DEF DInv, StoredThere, s
    <3> QED
      BY <2>1, <3>1, <3>2, <1>4 DEF Destroyed, At
  <2>2. CASE u # s
    <3>1. PICK q \in Request : /\ req[q].slot = u /\ req[q].found # NoRow
                               /\ req[q].found.file = row[u].file
                               /\ IF cloud THEN At(q, "delete", "answered")
                                           ELSE req[q].found = row[u] /\ Unfinished(q)
      BY <2>2, <1>3 DEF DInv, LostFileHasCause, Lost
    <3>2. q # r
      BY <2>2, <3>1 DEF s
    <3> QED
      BY <2>2, <1>3, <1>4, <3>1, <3>2 DEF At, Unfinished
  <2> QED
    BY <2>1, <2>2
<1> QED
  BY <1>1, <1>6, <1>7, <1>8, <1>9, <1>10 DEF DInv

LEMMA SaveRowStep ==
  ASSUME DInv, NEW r \in Request, SaveRow(r)
  PROVE  DInv'
<1>1. CASE Go(r, "answered")
           /\ row' = [row EXCEPT ![req[r].slot] = [file |-> Own(r), pic |-> req[r].pic]]
  BY <1>1, SaveStep DEF SaveRow
<1>2. CASE Go(r, "refused") /\ UNCHANGED row
  BY <1>2, MoveStep DEF SaveRow, Stage
<1> QED
  BY <1>1, <1>2 DEF SaveRow

LEMMA DeleteRowStep ==
  ASSUME DInv, NEW r \in Request, DeleteRow(r)
  PROVE  DInv'
<1>1. /\ At(r, "delete", "found")
      /\ row' = [row EXCEPT ![req[r].slot] = NoRow]
      /\ UNCHANGED <<cloud, store>>
  BY DEF DeleteRow
<1>2. PICK st \in {"refused", "deleted"} : Go(r, st)
  BY DEF DeleteRow
<1> st \in Stage
  BY DEF Stage
<1>3. OverStays /\ FoundNamed'
  BY <1>1, <1>2, GoKeepsNames DEF At
<1>4. /\ row' \in [Slot -> Row \cup {NoRow}]
      /\ \A u \in Slot : row'[u] = IF u = req[r].slot THEN NoRow ELSE row[u]
  BY <1>1, Fields DEF DInv, ServerTypeOK
<1>5. \A q \in Request :
        /\ req'[q].op = req[q].op /\ req'[q].slot = req[q].slot
        /\ req'[q].pic = req[q].pic /\ req'[q].found = req[q].found
        /\ req'[q].stage = IF q = r THEN st ELSE req[q].stage
  BY <1>2, GoEffect DEF DInv
<1>6. ServerTypeOK'
  BY <1>1, <1>2, <1>4, GoEffect DEF DInv, ServerTypeOK, RequestRecord
<1>7. RowsNamed'
  <2> SUFFICES ASSUME NEW u \in Slot, row'[u] # NoRow PROVE Named(u, row[u])'
    BY DEF RowsNamed, Named
  <2>1. PICK x : x = row[u]
    OBVIOUS
  <2>2. Named(u, x)'
    BY <2>1, <1>3, NamedStays DEF DInv, RowsNamed
  <2> QED
    BY <1>4, <2>1, <2>2 DEF Named
<1>8. StoredThere'
  <2> SUFFICES ASSUME NEW q \in Request, req'[q].stage = "stored"
               PROVE  (Own(q) \in DOMAIN store \/ Destroyed(req[q].slot, Own(q)))'
    BY DEF StoredThere
  <2>1. Own(q)' = Own(q)
    BY <1>1, <1>5 DEF Own
  <2>2. Own(q) \in DOMAIN store \/ Destroyed(req[q].slot, Own(q))
    BY <1>5 DEF DInv, StoredThere
  <2>3. CASE Destroyed(req[q].slot, Own(q))
    BY <2>1, <2>3, <1>1, <1>5 DEF Destroyed, At
  <2> QED
    BY <1>1, <2>1, <2>2, <2>3
<1>9. NotAgain'
  <2> SUFFICES ASSUME NEW q \in Request, ~cloud, req[q].found # NoRow,
                      (At(q, "delete", "deleted") \/ At(q, "delete", "answered")
                         \/ At(q, "upload", "answered"))'
               PROVE  row'[req[q].slot] = NoRow \/ row'[req[q].slot].file # req[q].found.file
    BY <1>1, <1>5 DEF NotAgain
  <2>1. req[q].slot \in Slot
    BY Fields DEF DInv
  <2>2. CASE q = r
    BY <1>4, <2>1, <2>2
  <2>3. CASE q # r
    BY <1>4, <1>5, <2>1, <2>3 DEF DInv, NotAgain, At
  <2> QED
    BY <2>2, <2>3
<1>10. LostFileHasCause'
  <2> SUFFICES ASSUME NEW u \in Slot, row'[u] # NoRow, row'[u].file \notin DOMAIN store
               PROVE  \E q \in Request :
                        /\ req'[q].slot = u /\ req'[q].found # NoRow
                        /\ req'[q].found.file = row'[u].file
                        /\ IF cloud THEN At(q, "delete", "answered")'
                                    ELSE req'[q].found = row'[u] /\ Unfinished(q)'
    BY <1>1 DEF LostFileHasCause, Lost
  <2>1. row'[u] = row[u]
    BY <1>4
  <2>2. PICK q \in Request : /\ req[q].slot = u /\ req[q].found # NoRow
                             /\ req[q].found.file = row[u].file
                             /\ IF cloud THEN At(q, "delete", "answered")
                                         ELSE req[q].found = row[u] /\ Unfinished(q)
    BY <2>1 DEF DInv, LostFileHasCause, Lost
  <2>3. q # r
    BY <1>1, <2>2 DEF At, Unfinished
  <2> QED
    BY <1>5, <2>1, <2>2, <2>3 DEF At, Unfinished
<1> QED
  BY <1>3, <1>6, <1>7, <1>8, <1>9, <1>10 DEF DInv

\* On the disk no row names the file any more; at Cloudinary the delete is the
\* cause for whoever shares the asset.
LEMMA DestroyFileStep ==
  ASSUME DInv, NEW r \in Request, req[r].found # NoRow, DestroyFile(r)
  PROVE  DInv'
<1> DEFINE n == req[r].found.file
<1> "answered" \in Stage
  BY DEF Stage
<1>1. /\ At(r, "delete", "deleted")
      /\ RemoveFile(n)
      /\ Go(r, "answered")
      /\ UNCHANGED <<cloud, row>>
  BY DEF DestroyFile
<1>2. OverStays /\ FoundNamed'
  BY <1>1, GoKeepsNames DEF At
<1>3. RowsNamed'
  BY <1>1, <1>2, RowsStayNamed
<1>4. /\ DOMAIN store' \subseteq File
      /\ \A m \in DOMAIN store' : store'[m] \in Picture
      /\ \A m \in DOMAIN store : m # n => m \in DOMAIN store'
  BY <1>1, Removed DEF DInv
<1>5. ServerTypeOK'
  BY <1>1, <1>4, GoEffect DEF DInv, ServerTypeOK, RequestRecord
<1>6. \A q \in Request :
        /\ req'[q].op = req[q].op /\ req'[q].slot = req[q].slot
        /\ req'[q].pic = req[q].pic /\ req'[q].found = req[q].found
        /\ req'[q].stage = IF q = r THEN "answered" ELSE req[q].stage
  BY <1>1, GoEffect DEF DInv
<1>7. IF cloud THEN n = <<req[r].slot, Format[req[r].found.pic]>>
               ELSE n \in Request /\ req[n].stage = "answered" /\ req[n].slot = req[r].slot
  BY DEF DInv, FoundNamed, Named
<1>8. StoredThere'
  <2> SUFFICES ASSUME NEW q \in Request, req'[q].stage = "stored"
               PROVE  (Own(q) \in DOMAIN store \/ Destroyed(req[q].slot, Own(q)))'
    BY DEF StoredThere
  <2>1. Own(q)' = Own(q) /\ q # r
    BY <1>1, <1>6 DEF Own
  <2>2. Own(q) \in DOMAIN store \/ Destroyed(req[q].slot, Own(q))
    BY <2>1, <1>6 DEF DInv, StoredThere
  <2>3. CASE Destroyed(req[q].slot, Own(q))
    BY <2>1, <2>3, <1>1, <1>6 DEF Destroyed, At
  <2>4. CASE Own(q) \in DOMAIN store /\ Own(q) # n
    BY <2>1, <2>4, <1>4
  <2>5. CASE Own(q) = n
    <3>1. cloud
      BY <2>1, <2>5, <1>6, <1>7 DEF Own
    <3>2. req[q].slot = req[r].slot
      BY <2>5, <3>1, <1>7 DEF Own
    <3> QED
      BY <2>1, <2>5, <3>1, <3>2, <1>1, <1>6 DEF Destroyed, At
  <2> QED
    BY <2>2, <2>3, <2>4, <2>5
<1>9. NotAgain'
  BY <1>1, <1>6 DEF DInv, NotAgain, At
<1>10. LostFileHasCause'
  <2> SUFFICES ASSUME NEW s \in Slot, row[s] # NoRow, row[s].file \notin DOMAIN store'
               PROVE  \E q \in Request :
                        /\ req'[q].slot = s /\ req'[q].found # NoRow
                        /\ req'[q].found.file = row[s].file
                        /\ IF cloud THEN At(q, "delete", "answered")'
                                    ELSE req'[q].found = row[s] /\ Unfinished(q)'
    BY <1>1 DEF LostFileHasCause, Lost
  <2>1. CASE row[s].file \notin DOMAIN store
    <3>1. PICK q \in Request : /\ req[q].slot = s /\ req[q].found # NoRow
                               /\ req[q].found.file = row[s].file
                               /\ IF cloud THEN At(q, "delete", "answered")
                                           ELSE req[q].found = row[s] /\ Unfinished(q)
      BY <2>1 DEF DInv, LostFileHasCause, Lost
    <3> QED
      BY <1>1, <1>6, <3>1 DEF At, Unfinished
  <2>2. CASE row[s].file = n /\ cloud
    <3>1. req[r].slot = s
      BY <2>2, <1>7 DEF DInv, RowsNamed, Named
    <3> QED
      BY <2>2, <3>1, <1>1, <1>6 DEF At
  <2>3. row[s].file # n \/ cloud
    <3>1. ASSUME row[s].file = n, ~cloud PROVE FALSE
      <4>1. req[r].slot = s
        BY <3>1, <1>7 DEF DInv, RowsNamed, Named
      <4> QED
        BY <3>1, <4>1, <1>1 DEF DInv, NotAgain
    <3> QED
      BY <3>1
  <2> QED
    BY <1>4, <2>1, <2>2, <2>3
<1> QED
  BY <1>2, <1>3, <1>5, <1>8, <1>9, <1>10 DEF DInv

-----------------------------------------------------------------------------
(* The specification *)

\* What a task of the app or another device does to the server.
ServerNext ==
  \E r \in Request :
    \/ \E op \in Op, s \in Slot, p \in Picture : Begin(r, op, s, p)
    \/ Find(r) \/ Clear(r) \/ StoreFile(r) \/ SaveRow(r)
    \/ DeleteRow(r) \/ DestroyFile(r) \/ Open(r) \/ Stop(r)

LEMMA StepMaps == [Next]_vars => [ServerNext]_serverVars
<1> SUFFICES ASSUME Next PROVE [ServerNext]_serverVars
  BY DEF vars
<1>1. ASSUME NEW t \in Pick, NEW s \in Slot \ Photo, NEW r \in Request, PickDocument(t, s, r)
      PROVE  ServerNext
  BY <1>1, QueueAssumption DEF PickDocument, ServerNext, Op
<1>2. ASSUME NEW t \in Flush, NEW x \in Item, NEW r \in Request, SendNext(t, x, r)
      PROVE  ServerNext
  BY <1>2, QueueAssumption DEF SendNext, ServerNext, Op, Item
<1>3. ASSUME NEW op \in Op, NEW s \in Slot, NEW p \in Picture \ Pick, NEW r \in Request,
             Other(op, s, p, r)
      PROVE  ServerNext
  BY <1>3 DEF Other, ServerNext
<1>4. ASSUME NEW t \in Task,
             StartFlush(t) \/ EndFlush(t) \/ Accepted(t) \/ PickFails(t) \/ PickRefused(t)
               \/ FlushFails(t) \/ ReadQueue(t) \/ WriteQueue(t)
               \/ WriteFails(t)
      PROVE  UNCHANGED serverVars
  BY <1>4 DEF StartFlush, EndFlush, Accepted, PickFails, PickRefused, FlushFails, ReadQueue,
              WriteQueue, WriteFails
<1> QED
  BY <1>1, <1>2, <1>3, <1>4 DEF Next, ServerNext, Task

\* A delete or a download that has gone on has found a row.
FoundFirst ==
  \A r \in Request :
    req[r].op # "upload" /\ req[r].stage \in {"found", "deleted"} => req[r].found # NoRow

LEMMA StepFoundFirst ==
  ASSUME ServerTypeOK, FoundFirst, ServerNext
  PROVE  FoundFirst'
<1> PICK r \in Request :
      \/ \E op \in Op, s \in Slot, p \in Picture : Begin(r, op, s, p)
      \/ Find(r) \/ Clear(r) \/ StoreFile(r) \/ SaveRow(r)
      \/ DeleteRow(r) \/ DestroyFile(r) \/ Open(r) \/ Stop(r)
  BY DEF ServerNext
<1>1. ASSUME NEW op \in Op, NEW s \in Slot, NEW p \in Picture, Begin(r, op, s, p)
      PROVE  FoundFirst'
  <2>1. \A q \in Request : IF q = r THEN req'[q].stage = "begun" ELSE req'[q] = req[q]
    BY <1>1 DEF Begin, NewRequest, ServerTypeOK
  <2> QED
    BY <2>1 DEF FoundFirst
<1>2. CASE Find(r)
  <2> DEFINE x == row[req[r].slot]
             st == IF x = NoRow /\ req[r].op # "upload" THEN "refused" ELSE "found"
  <2>1. req' = [req EXCEPT ![r].found = x, ![r].stage = st]
    BY <1>2 DEF Find
  <2>2. \A q \in Request : IF q = r THEN /\ req'[q].op = req[q].op
                                          /\ req'[q].found = x /\ req'[q].stage = st
                                     ELSE req'[q] = req[q]
    <3> HIDE DEF x, st
    <3>1. ASSUME NEW w \in RequestRecord
          PROVE  LET v == [w EXCEPT !.found = x, !.stage = st]
                 IN v.op = w.op /\ v.found = x /\ v.stage = st
      BY DEF RequestRecord
    <3>2. req \in [Request -> RequestRecord]
      BY DEF ServerTypeOK, RequestRecord
    <3> QED
      BY <2>1, <3>1, <3>2
  <2> QED
    BY <2>2 DEF FoundFirst
<1>3. ASSUME NEW st \in Stage, Go(r, st),
             st \notin {"found", "deleted"} \/ At(r, "delete", "found")
      PROVE  FoundFirst'
  BY <1>3, GoEffect DEF FoundFirst, At
<1> QED
  BY <1>1, <1>2, <1>3
     DEF Clear, StoreFile, SaveRow, DeleteRow, DestroyFile, Open, Stop, Stage

FullInv == DInv /\ FoundFirst

LEMMA StepFullInv == FullInv /\ [Next]_vars => FullInv'
<1> SUFFICES ASSUME FullInv, [ServerNext]_serverVars
             PROVE  FullInv'
  BY StepMaps
<1>1. CASE UNCHANGED serverVars
  BY <1>1 DEF serverVars, FullInv, DInv, ServerTypeOK, RowsNamed, FoundNamed, Named,
              StoredThere, Own, Destroyed, At, NotAgain, LostFileHasCause, Lost, Unfinished,
              FoundFirst
<1>2. CASE ServerNext
  <2>1. FoundFirst'
    BY <1>2, StepFoundFirst DEF FullInv, DInv
  <2>2. PICK r \in Request :
          \/ \E op \in Op, s \in Slot, p \in Picture : Begin(r, op, s, p)
          \/ Find(r) \/ Clear(r) \/ StoreFile(r) \/ SaveRow(r)
          \/ DeleteRow(r) \/ DestroyFile(r) \/ Open(r) \/ Stop(r)
    BY <1>2 DEF ServerNext
  <2>3. CASE DestroyFile(r)
    <3>1. req[r].found # NoRow
      BY <2>3 DEF DestroyFile, At, FullInv, FoundFirst
    <3> QED
      BY <2>1, <2>3, <3>1, DestroyFileStep DEF FullInv
  <2>4. CASE Open(r)
    <3>1. PICK st \in {"answered", "missing"} : Go(r, st)
      BY <2>4 DEF Open
    <3> QED
      BY <2>1, <2>4, <3>1, MoveStep DEF Open, At, Stage, FullInv
  <2>5. CASE Stop(r)
    BY <2>1, <2>5, MoveStep DEF Stop, Ended, Stage, FullInv
  <2> QED
    BY <2>1, <2>2, <2>3, <2>4, <2>5, BeginStep, FindStep, ClearStep, StoreFileStep,
       SaveRowStep, DeleteRowStep DEF FullInv
<1> QED
  BY <1>1, <1>2

LEMMA InitFullInv == Init => FullInv
<1>1. Init => FoundFirst
  <2> SUFFICES ASSUME Init, NEW r \in Request PROVE req[r].stage = "idle"
    BY DEF FoundFirst
  <2> QED
    BY DEF Init, ServerInit, NewRequest
<1> QED
  BY <1>1, InitDInv DEF FullInv

LEMMA Invariant == Spec => []FullInv
  BY InitFullInv, StepFullInv, PTL DEF Spec

-----------------------------------------------------------------------------

\* The server's part of the types.
THEOREM ServerTypeCorrect == Spec => []ServerTypeOK
<1>1. FullInv => ServerTypeOK
  BY DEF FullInv, DInv
<1> QED
  BY <1>1, Invariant, PTL

\* Whatever requests race and wherever they stop: a row is without its file only
\* where an upload removed the file of this very row on the disk and has not
\* replaced it, or a delete destroyed the shared asset at Cloudinary.
THEOREM LostFilesHaveCauses == Spec => []LostFileHasCause
<1>1. FullInv => LostFileHasCause
  BY DEF FullInv, DInv
<1> QED
  BY <1>1, Invariant, PTL

-----------------------------------------------------------------------------
(* The queue of the app.  A task that waits for its request, or writes the   *)
(* queue after it, has in hand the item that the request uploads; the items  *)
(* of a task and of the copy it read have different slots.  While tasks run  *)
(* one at a time, what a task has read is what the file holds.               *)

Calling == {"sending", "adding", "removing", "adds", "removes"}

TaskRecord == [stage : {"idle", "next", "sending", "adding", "removing", "adds", "removes",
                        "done"},
               todo : SUBSET Item, call : Request \cup {NoCall}, copy : SUBSET Item]

OneForEachSlot(I) == \A x, y \in I : x.slot = y.slot => x = y

Asked(r, x) ==
  /\ r \in Request
  /\ req[r].stage # "idle" /\ req[r].op = "upload"
  /\ req[r].slot = x.slot /\ req[r].pic = x.pic

\* w is what the task t knows.
Sound(t, w) ==
  /\ OneForEachSlot(w.todo) /\ OneForEachSlot(w.copy)
  /\ w.stage \in Calling => \E x \in w.todo : Asked(w.call, x)
  /\ w.stage \in Calling /\ t \in Pick => \A x \in w.todo : x.pic = t
  /\ w.stage \in {"adding", "adds"} => t \in Pick
  /\ w.stage \in {"removing", "removes"} => req[w.call].stage = "answered"

Busy(w) == w.stage \notin {"idle", "done"}

UpToDate(t, w) ==
  /\ w.stage \in {"adds", "removes"} => w.copy = queue
  /\ t \in Flush /\ Busy(w) => w.todo \subseteq queue

Calm ==
  ~disturbed => /\ \A t, u \in Task : Busy(task[t]) /\ Busy(task[u]) => t = u
                /\ \A t \in Task : UpToDate(t, task[t])

PhoneTypes ==
  /\ queue \subseteq Item /\ OneForEachSlot(queue)
  /\ task \in [Task -> TaskRecord]
  /\ last \in [Slot \ Photo -> Pick \cup {NoCall}]
  /\ disturbed \in BOOLEAN

QueueInv ==
  PhoneTypes /\ (\A t \in Task : Sound(t, task[t])) /\ Calm /\ CalmPicksAreKept

\* What every step keeps of a request that has been made.
MadeStays ==
  \A q \in Request : req[q].stage # "idle" =>
    /\ req'[q].stage # "idle"
    /\ req'[q].op = req[q].op /\ req'[q].slot = req[q].slot /\ req'[q].pic = req[q].pic
    /\ req[q].stage = "answered" => req'[q].stage = "answered"

LEMMA StepMadeStays ==
  ASSUME ServerTypeOK, [ServerNext]_serverVars
  PROVE  MadeStays
<1>1. CASE UNCHANGED serverVars
  BY <1>1 DEF serverVars, MadeStays
<1>2. CASE ServerNext
  <2> PICK r \in Request :
        \/ \E op \in Op, s \in Slot, p \in Picture : Begin(r, op, s, p)
        \/ Find(r) \/ Clear(r) \/ StoreFile(r) \/ SaveRow(r)
        \/ DeleteRow(r) \/ DestroyFile(r) \/ Open(r) \/ Stop(r)
    BY <1>2 DEF ServerNext
  <2>1. ASSUME NEW op \in Op, NEW s \in Slot, NEW p \in Picture, Begin(r, op, s, p)
        PROVE  MadeStays
    BY <2>1 DEF Begin, MadeStays, ServerTypeOK
  <2>2. CASE Find(r)
    <3> DEFINE x == row[req[r].slot]
               st == IF x = NoRow /\ req[r].op # "upload" THEN "refused" ELSE "found"
    <3>1. req[r].stage = "begun" /\ req' = [req EXCEPT ![r].found = x, ![r].stage = st]
      BY <2>2 DEF Find
    <3>2. st # "idle"
      OBVIOUS
    <3> HIDE DEF x, st
    <3>3. ASSUME NEW w \in RequestRecord
          PROVE  LET v == [w EXCEPT !.found = x, !.stage = st]
                 IN v.op = w.op /\ v.slot = w.slot /\ v.pic = w.pic /\ v.stage = st
      BY DEF RequestRecord
    <3>4. req \in [Request -> RequestRecord]
      BY DEF ServerTypeOK, RequestRecord
    <3> QED
      BY <3>1, <3>2, <3>3, <3>4 DEF MadeStays
  <2>3. ASSUME NEW st \in Stage, Go(r, st), st # "idle", req[r].stage # "answered"
        PROVE  MadeStays
    BY <2>3, GoEffect DEF MadeStays
  <2> QED
    BY <2>1, <2>2, <2>3
       DEF Clear, StoreFile, SaveRow, DeleteRow, DestroyFile, Open, Stop, Stage, At, Ended
<1> QED
  BY <1>1, <1>2

LEMMA SoundStays ==
  ASSUME NEW t, NEW w \in TaskRecord, Sound(t, w), MadeStays
  PROVE  Sound(t, w)'
<1>1. ASSUME w.stage \in Calling PROVE \E x \in w.todo : Asked(w.call, x)'
  BY <1>1 DEF Sound, Asked, MadeStays
<1>2. ASSUME w.stage \in {"removing", "removes"} PROVE req'[w.call].stage = "answered"
  BY <1>2 DEF Sound, Asked, MadeStays, Calling
<1> QED
  BY <1>1, <1>2 DEF Sound, OneForEachSlot

\* The item that a task has in hand.
LEMMA ItemInHand ==
  ASSUME QueueInv, NEW t \in Task, task[t].stage \in Calling
  PROVE  /\ TheItem(t) \in task[t].todo /\ TheItem(t) \in Item
         /\ Asked(task[t].call, TheItem(t))
         /\ t \in Pick => TheItem(t).pic = t
<1>1. Sound(t, task[t]) /\ task[t] \in TaskRecord
  BY DEF QueueInv, PhoneTypes
<1>2. PICK x \in task[t].todo : Asked(task[t].call, x)
  BY <1>1 DEF Sound
<1>3. TheItem(t) \in task[t].todo /\ TheItem(t).slot = req[task[t].call].slot
  BY <1>2 DEF TheItem, Asked
<1>4. TheItem(t) = x
  BY <1>1, <1>2, <1>3 DEF Sound, OneForEachSlot, Asked
<1>5. task[t].todo \subseteq Item
  BY <1>1 DEF TaskRecord
<1> QED
  BY <1>1, <1>2, <1>4, <1>5 DEF Sound

LEMMA UploadedStays ==
  ASSUME MadeStays, NEW s, NEW p, Uploaded(s, p)
  PROVE  Uploaded(s, p)'
  BY DEF MadeStays, Uploaded

\* A task takes a step.
LEMMA TaskSteps ==
  ASSUME QueueInv, MadeStays, NEW t \in Task, NEW w \in TaskRecord,
         task' = [task EXCEPT ![t] = w], Sound(t, w)'
  PROVE  /\ task' \in [Task -> TaskRecord]
         /\ \A u \in Task : task'[u] = IF u = t THEN w ELSE task[u]
         /\ (\A u \in Task : Sound(u, task[u]))'
<1>1. task \in [Task -> TaskRecord]
  BY DEF QueueInv, PhoneTypes
<1>2. ASSUME NEW u \in Task PROVE Sound(u, task[u])'
  <2>1. CASE u = t
    <3>1. task'[u] = w
      BY <1>1, <2>1
    <3> QED
      BY <2>1, <3>1 DEF Sound
  <2>2. CASE u # t
    <3>1. PICK v : v = task[u]
      OBVIOUS
    <3>2. v \in TaskRecord /\ Sound(u, v)
      BY <1>1, <3>1 DEF QueueInv
    <3>3. Sound(u, v)'
      BY <3>2, SoundStays
    <3>4. task'[u] = v
      BY <1>1, <2>2, <3>1
    <3> QED
      BY <3>3, <3>4 DEF Sound
  <2> QED
    BY <2>1, <2>2
<1> QED
  BY <1>1, <1>2

\* A step that leaves the file alone.
LEMMA TaskGoesOn ==
  ASSUME QueueInv, MadeStays, NEW t \in Task, NEW w \in TaskRecord,
         task' = [task EXCEPT ![t] = w], Sound(t, w)',
         UNCHANGED <<queue, last>>, disturbed' \in BOOLEAN, disturbed => disturbed',
         ~disturbed' => \A u \in Task \ {t} : ~Busy(task[u]),
         ~disturbed' => UpToDate(t, w)
  PROVE  QueueInv'
<1>1. /\ task' \in [Task -> TaskRecord]
      /\ \A u \in Task : task'[u] = IF u = t THEN w ELSE task[u]
      /\ (\A u \in Task : Sound(u, task[u]))'
  BY TaskSteps
<1>2. PhoneTypes'
  BY <1>1 DEF QueueInv, PhoneTypes, OneForEachSlot
<1>3. Calm'
  <2> SUFFICES ASSUME ~disturbed'
               PROVE  /\ \A u, v \in Task : Busy(task'[u]) /\ Busy(task'[v]) => u = v
                      /\ \A u \in Task : UpToDate(u, task[u])'
    BY DEF Calm
  <2>1. \A u, v \in Task : Busy(task'[u]) /\ Busy(task'[v]) => u = v
    BY <1>1
  <2>2. ASSUME NEW u \in Task PROVE UpToDate(u, task[u])'
    <3>1. CASE u = t
      BY <1>1, <3>1 DEF UpToDate
    <3>2. CASE u # t
      BY <1>1, <3>2 DEF UpToDate, Busy
    <3> QED
      BY <3>1, <3>2
  <2> QED
    BY <2>1, <2>2
<1>4. CalmPicksAreKept'
  BY UploadedStays DEF QueueInv, CalmPicksAreKept
<1> QED
  BY <1>1, <1>2, <1>3, <1>4 DEF QueueInv

\* The same of a task that was under way.
LEMMA BusyTaskGoesOn ==
  ASSUME QueueInv, MadeStays, NEW t \in Task, NEW w \in TaskRecord, Busy(task[t]),
         task' = [task EXCEPT ![t] = w], Sound(t, w)', UNCHANGED <<queue, last, disturbed>>,
         ~disturbed => UpToDate(t, w)
  PROVE  QueueInv'
<1>1. ~disturbed => (\A u \in Task \ {t} : ~Busy(task[u])) /\ UpToDate(t, w)'
  BY DEF QueueInv, Calm, UpToDate
<1>2. disturbed' \in BOOLEAN
  BY DEF QueueInv, PhoneTypes
<1> QED
  BY <1>1, <1>2, TaskGoesOn DEF UpToDate

LEMMA IdleRecord == Idle \in TaskRecord /\ Idle.copy = {}
  BY DEF Idle, TaskRecord

LEMMA PickDocumentStep ==
  ASSUME QueueInv, MadeStays, NEW t \in Pick, NEW s \in Slot \ Photo, NEW r \in Request,
         ServerTypeOK, PickDocument(t, s, r)
  PROVE  QueueInv'
<1> DEFINE x == [slot |-> s, pic |-> t]
<1>1. /\ t \in Task /\ t \notin Flush /\ x \in Item
  BY QueueAssumption DEF Task, Item
<1> PICK w : w = [Idle EXCEPT !.stage = "sending", !.todo = {x}, !.call = r]
  OBVIOUS
<1>2. /\ w \in TaskRecord
      /\ w.stage = "sending" /\ w.todo = {x} /\ w.call = r /\ w.copy = {}
  <2>1. ASSUME NEW v \in TaskRecord
        PROVE  LET u == [v EXCEPT !.stage = "sending", !.todo = {x}, !.call = r]
               IN /\ u \in TaskRecord
                  /\ u.stage = "sending" /\ u.todo = {x} /\ u.call = r /\ u.copy = v.copy
    BY <1>1 DEF TaskRecord
  <2> QED
    BY <2>1, IdleRecord
<1>3. task' = [task EXCEPT ![t] = w]
  BY DEF PickDocument, Start
<1>4. /\ UNCHANGED <<queue, last>>
      /\ disturbed' = (disturbed \/ \E u \in Task : Busy(task[u]))
      /\ task[t].stage = "idle"
  BY DEF PickDocument, Start, Busy, Active
<1>5. req'[r] = NewRequest("upload", s, t)
  BY DEF PickDocument, Begin, ServerTypeOK
<1>6. Asked(r, x)'
  BY <1>5 DEF Asked, NewRequest
<1>7. Sound(t, w)'
  BY <1>2, <1>6 DEF Sound, OneForEachSlot, Calling
<1>8. UpToDate(t, w)
  BY <1>1, <1>2 DEF UpToDate
<1>9. disturbed' \in BOOLEAN /\ (disturbed => disturbed') /\ (~disturbed' => \A u \in Task \ {t} : ~Busy(task[u]))
  BY <1>4 DEF QueueInv, PhoneTypes
<1> QED
  BY <1>1, <1>2, <1>3, <1>4, <1>7, <1>8, <1>9, TaskGoesOn

LEMMA StartFlushStep ==
  ASSUME QueueInv, MadeStays, NEW t \in Flush, StartFlush(t)
  PROVE  QueueInv'
<1>1. t \in Task /\ queue \subseteq Item /\ OneForEachSlot(queue)
  BY DEF Task, QueueInv, PhoneTypes
<1>0. PICK items \in Readings : Start(t, [Idle EXCEPT !.stage = "next", !.todo = items])
  BY DEF StartFlush
<1>2. PICK w : w = [Idle EXCEPT !.stage = "next", !.todo = items]
  OBVIOUS
<1>3. w \in TaskRecord /\ w.stage = "next" /\ w.todo = items /\ w.copy = {}
  <2>1. ASSUME NEW v \in TaskRecord
        PROVE  LET u == [v EXCEPT !.stage = "next", !.todo = items]
               IN u \in TaskRecord /\ u.stage = "next" /\ u.todo = items /\ u.copy = v.copy
    BY <1>1, <1>0 DEF TaskRecord, Readings
  <2> QED
    BY <1>2, <2>1, IdleRecord
<1>4. task' = [task EXCEPT ![t] = w]
  BY <1>0, <1>2 DEF Start
<1>5. /\ UNCHANGED <<queue, last>>
      /\ disturbed' = (disturbed \/ \E u \in Task : Busy(task[u]))
  BY <1>0 DEF StartFlush, Start, Busy, Active
<1>6. Sound(t, w)'
  BY <1>0, <1>1, <1>3 DEF Sound, OneForEachSlot, Calling, Readings
<1>7. UpToDate(t, w)
  BY <1>0, <1>3 DEF UpToDate, Readings
<1>8. disturbed' \in BOOLEAN /\ (disturbed => disturbed') /\ (~disturbed' => \A u \in Task \ {t} : ~Busy(task[u]))
  BY <1>5 DEF QueueInv, PhoneTypes
<1> QED
  BY <1>1, <1>3, <1>4, <1>5, <1>6, <1>7, <1>8, TaskGoesOn

LEMMA SendNextStep ==
  ASSUME QueueInv, MadeStays, NEW t \in Flush, NEW x \in Item, NEW r \in Request,
         ServerTypeOK, SendNext(t, x, r)
  PROVE  QueueInv'
<1>1. t \in Task /\ t \notin Pick /\ task[t] \in TaskRecord /\ Sound(t, task[t])
  BY QueueAssumption DEF Task, QueueInv, PhoneTypes
<1>2. PICK v, w : v = task[t] /\ w = [v EXCEPT !.stage = "sending", !.call = r]
  OBVIOUS
<1>3. /\ v \in TaskRecord /\ w \in TaskRecord /\ w.stage = "sending" /\ w.call = r
      /\ w.todo = v.todo /\ w.copy = v.copy
  BY <1>1, <1>2 DEF TaskRecord
<1>4. /\ task[t].stage = "next" /\ x \in v.todo
      /\ task' = [task EXCEPT ![t] = w] /\ UNCHANGED <<queue, last, disturbed>>
  BY <1>2 DEF SendNext
<1>5. req'[r] = NewRequest("upload", x.slot, x.pic)
  BY DEF SendNext, Begin, ServerTypeOK
<1>6. Asked(r, x)'
  BY <1>5 DEF Asked, NewRequest
<1>7. Sound(t, w)'
  BY <1>1, <1>2, <1>3, <1>4, <1>6 DEF Sound, OneForEachSlot, Calling
<1>8. Busy(task[t])
  BY <1>4 DEF Busy
<1>9. ~disturbed => UpToDate(t, w)
  BY <1>1, <1>2, <1>3, <1>4, <1>8 DEF QueueInv, Calm, UpToDate
<1> QED
  BY <1>1, <1>3, <1>4, <1>7, <1>8, <1>9, BusyTaskGoesOn

\* The steps that only move a task on.
LEMMA StageStep ==
  ASSUME QueueInv, MadeStays, NEW t \in Task, Busy(task[t]),
         NEW st \in {"removing", "adding", "done"}, Move(t, st),
         UNCHANGED <<queue, last, disturbed>>,
         st # "done" => task[t].stage \in Calling,
         st = "adding" => t \in Pick,
         st = "removing" => req[task[t].call].stage = "answered"
  PROVE  QueueInv'
<1>1. task[t] \in TaskRecord /\ Sound(t, task[t])
  BY DEF QueueInv, PhoneTypes
<1>2. PICK v, w : v = task[t] /\ w = [v EXCEPT !.stage = st]
  OBVIOUS
<1>3. /\ v \in TaskRecord /\ w \in TaskRecord /\ w.stage = st /\ w.call = v.call
      /\ w.todo = v.todo /\ w.copy = v.copy
  BY <1>1, <1>2 DEF TaskRecord
<1>4. task' = [task EXCEPT ![t] = w]
  BY <1>2 DEF Move
<1>5. Sound(t, w)
  BY <1>1, <1>2, <1>3 DEF Sound, OneForEachSlot, Calling
<1>6. Sound(t, w)'
  BY <1>3, <1>5, SoundStays
<1>7. ~disturbed => UpToDate(t, w)
  BY <1>1, <1>2, <1>3 DEF QueueInv, Calm, UpToDate, Busy
<1> QED
  BY <1>3, <1>4, <1>6, <1>7, BusyTaskGoesOn

LEMMA FlushFailsStep ==
  ASSUME QueueInv, MadeStays, NEW t \in Task, FlushFails(t)
  PROVE  QueueInv'
<1>1. task[t] \in TaskRecord /\ Sound(t, task[t])
  BY DEF QueueInv, PhoneTypes
<1>2. PICK v, w : v = task[t] /\ w = [v EXCEPT !.stage = "next", !.todo = @ \ {TheItem(t)}]
  OBVIOUS
<1>3. /\ w \in TaskRecord /\ w.stage = "next" /\ w.todo \subseteq v.todo /\ w.copy = v.copy
  BY <1>1, <1>2 DEF TaskRecord
<1>4. /\ task' = [task EXCEPT ![t] = w] /\ UNCHANGED <<queue, last, disturbed>>
      /\ Busy(task[t])
  BY <1>2 DEF FlushFails, Busy
<1>5. Sound(t, w)'
  BY <1>1, <1>2, <1>3 DEF Sound, OneForEachSlot, Calling
<1>6. ~disturbed => UpToDate(t, w)
  BY <1>2, <1>3, <1>4 DEF QueueInv, Calm, UpToDate, Busy
<1> QED
  BY <1>3, <1>4, <1>5, <1>6, BusyTaskGoesOn

LEMMA ReadQueueStep ==
  ASSUME QueueInv, MadeStays, NEW t \in Task, ReadQueue(t)
  PROVE  QueueInv'
<1>1. /\ task[t] \in TaskRecord /\ Sound(t, task[t]) /\ queue \subseteq Item
      /\ OneForEachSlot(queue) /\ disturbed \in BOOLEAN
  BY DEF QueueInv, PhoneTypes
<1>2. PICK v, st : v = task[t] /\ st = IF v.stage = "adding" THEN "adds" ELSE "removes"
  OBVIOUS
<1>3. PICK items \in Readings :
        /\ task' = [task EXCEPT ![t].copy = items, ![t].stage = IF @ = "adding" THEN "adds"
                                                                              ELSE "removes"]
        /\ disturbed' = (disturbed \/ items # queue)
  BY DEF ReadQueue
<1>4. PICK w : w = [v EXCEPT !.copy = items, !.stage = st]
  OBVIOUS
<1>5. /\ v \in TaskRecord /\ w \in TaskRecord /\ w.stage = st /\ w.call = v.call
      /\ w.todo = v.todo /\ w.copy = items
  BY <1>1, <1>2, <1>4 DEF TaskRecord, Readings
<1>6. /\ v.stage \in {"adding", "removing"}
      /\ task' = [task EXCEPT ![t] = w] /\ UNCHANGED <<queue, last>>
      /\ Busy(task[t])
  BY <1>2, <1>3, <1>4 DEF ReadQueue, Busy
<1>7. Sound(t, w)
  BY <1>1, <1>2, <1>5, <1>6 DEF Sound, Calling, OneForEachSlot, Readings
<1>8. Sound(t, w)'
  BY <1>5, <1>7, SoundStays
<1>9. disturbed' \in BOOLEAN /\ (disturbed => disturbed') /\ (~disturbed' => ~disturbed /\ items = queue)
  BY <1>1, <1>3
<1>10. ~disturbed' => UpToDate(t, w)
  BY <1>2, <1>5, <1>6, <1>9 DEF QueueInv, Calm, UpToDate
<1>11. ~disturbed' => \A u \in Task \ {t} : ~Busy(task[u])
  BY <1>6, <1>9 DEF QueueInv, Calm
<1> QED
  BY <1>5, <1>6, <1>8, <1>9, <1>10, <1>11, TaskGoesOn

\* A task that is done with its item.
LEMMA ItemLeft ==
  ASSUME QueueInv, MadeStays, NEW t \in Task, task[t].stage \in {"adds", "removes"},
         NEW x, LeaveItem(t, x)
  PROVE  /\ \E w \in TaskRecord :
              /\ w.copy = {}
              /\ w.stage = IF t \in Flush THEN "next" ELSE "done"
              /\ w.todo = IF t \in Flush THEN task[t].todo \ {x} ELSE {}
              /\ \A u \in Task : task'[u] = IF u = t THEN w ELSE task[u]
         /\ task' \in [Task -> TaskRecord]
         /\ (\A u \in Task : Sound(u, task[u]))'
<1>1. PICK v : v = task[t]
  OBVIOUS
<1>2. v \in TaskRecord /\ Sound(t, v)
  BY <1>1 DEF QueueInv, PhoneTypes
<1>3. PICK st : st = IF t \in Flush THEN "next" ELSE "done"
  OBVIOUS
<1>4. PICK I : I = IF t \in Flush THEN v.todo \ {x} ELSE {}
  OBVIOUS
<1>5. st \in {"next", "done"} /\ I \in SUBSET Item
  BY <1>2, <1>3, <1>4 DEF TaskRecord
<1>6. PICK w : w = [Idle EXCEPT !.stage = st, !.todo = I]
  OBVIOUS
<1>7. ASSUME NEW z \in TaskRecord
      PROVE  LET u == [z EXCEPT !.stage = st, !.todo = I]
             IN u \in TaskRecord /\ u.stage = st /\ u.todo = I /\ u.copy = z.copy
  BY <1>5 DEF TaskRecord
<1>8. w \in TaskRecord /\ w.stage = st /\ w.todo = I /\ w.copy = {}
  BY <1>6, <1>7, IdleRecord
<1>9. task' = [task EXCEPT ![t] = w]
  BY <1>1, <1>3, <1>4, <1>6 DEF LeaveItem
<1>10. Sound(t, w)'
  BY <1>2, <1>4, <1>5, <1>8 DEF Sound, OneForEachSlot, Calling
<1>11. /\ task' \in [Task -> TaskRecord]
       /\ \A u \in Task : task'[u] = IF u = t THEN w ELSE task[u]
       /\ (\A u \in Task : Sound(u, task[u]))'
  BY <1>8, <1>9, <1>10, TaskSteps
<1> QED
  BY <1>1, <1>3, <1>4, <1>8, <1>11

\* A failed write ends the calm, and leaves the queue or nothing of it.
LEMMA WriteFailsStep ==
  ASSUME QueueInv, MadeStays, NEW t \in Task, WriteFails(t)
  PROVE  QueueInv'
<1>1. PICK x : x = TheItem(t)
  OBVIOUS
<1>2. /\ task[t].stage \in {"adds", "removes"} /\ LeaveItem(t, x)
      /\ queue' \in {queue, {}} /\ disturbed' = TRUE /\ UNCHANGED last
  BY <1>1 DEF WriteFails
<1>3. task' \in [Task -> TaskRecord] /\ (\A u \in Task : Sound(u, task[u]))'
  BY <1>1, <1>2, ItemLeft
<1>4. PhoneTypes'
  BY <1>2, <1>3 DEF QueueInv, PhoneTypes, OneForEachSlot
<1> QED
  BY <1>2, <1>3, <1>4 DEF QueueInv, Calm, CalmPicksAreKept

LEMMA WriteQueueStep ==
  ASSUME QueueInv, MadeStays, NEW t \in Task, WriteQueue(t)
  PROVE  QueueInv'
<1> DEFINE flushes == t \in Flush
<1>1. PICK x : x = TheItem(t)
  OBVIOUS
<1>2. PICK v : v = task[t]
  OBVIOUS
<1>4. v \in TaskRecord /\ Sound(t, v) /\ v.stage \in {"adds", "removes"}
  BY <1>2 DEF WriteQueue, QueueInv, PhoneTypes
<1>5. x \in v.todo /\ x \in Item /\ Asked(v.call, x) /\ (t \in Pick => x.pic = t)
  BY <1>1, <1>2, <1>4, ItemInHand DEF Calling
<1>6. LeaveItem(t, x)
  BY <1>1 DEF WriteQueue
<1>3. PICK w \in TaskRecord :
        /\ w.copy = {}
        /\ w.stage = IF t \in Flush THEN "next" ELSE "done"
        /\ w.todo = IF t \in Flush THEN task[t].todo \ {x} ELSE {}
        /\ \A u \in Task : task'[u] = IF u = t THEN w ELSE task[u]
  BY <1>2, <1>4, <1>6, ItemLeft
<1>7. /\ w \in TaskRecord
      /\ w.stage = IF flushes THEN "next" ELSE "done"
      /\ w.todo = IF flushes THEN v.todo \ {x} ELSE {}
      /\ w.copy = {}
  BY <1>2, <1>3
<1>9. /\ task' \in [Task -> TaskRecord]
      /\ \A u \in Task : task'[u] = IF u = t THEN w ELSE task[u]
      /\ (\A u \in Task : Sound(u, task[u]))'
  BY <1>2, <1>3, <1>4, <1>6, ItemLeft
<1>10. /\ \A y : y \in queue' <=> \/ y \in v.copy /\ y.slot # x.slot
                                  \/ v.stage = "adds" /\ y = x
       /\ last' = IF t \in Pick THEN [last EXCEPT ![x.slot] = t] ELSE last
       /\ UNCHANGED disturbed
  BY <1>1, <1>2, <1>4 DEF WriteQueue
<1>11. PhoneTypes'
  <2>1. v.copy \subseteq Item /\ OneForEachSlot(v.copy)
    BY <1>4 DEF TaskRecord, Sound
  <2>2. queue' \subseteq Item /\ OneForEachSlot(queue)'
    BY <1>5, <1>10, <2>1 DEF OneForEachSlot
  <2>3. last' \in [Slot \ Photo -> Pick \cup {NoCall}]
    BY <1>5, <1>10 DEF QueueInv, PhoneTypes, Item
  <2> QED
    BY <1>9, <1>10, <2>2, <2>3 DEF QueueInv, PhoneTypes
<1>12. ~disturbed => /\ v.copy = queue
                     /\ flushes => v.todo \subseteq queue
                     /\ \A u \in Task : Busy(task[u]) => u = t
  BY <1>2, <1>4 DEF QueueInv, Calm, UpToDate, Busy
<1>13. Calm'
  <2> SUFFICES ASSUME ~disturbed
               PROVE  /\ \A u, z \in Task : Busy(task'[u]) /\ Busy(task'[z]) => u = z
                      /\ \A u \in Task : UpToDate(u, task[u])'
    BY <1>10 DEF Calm
  <2>1. \A u \in Task : Busy(task'[u]) => u = t
    BY <1>9, <1>12
  <2>2. flushes => v.stage = "removes"
    BY <1>4, QueueAssumption DEF Sound
  <2>3. flushes => w.todo \subseteq queue'
    BY <1>4, <1>5, <1>7, <1>10, <1>12, <2>2 DEF Sound, OneForEachSlot
  <2>4. ASSUME NEW u \in Task PROVE UpToDate(u, task[u])'
    BY <1>7, <1>9, <2>1, <2>3 DEF UpToDate, Busy
  <2> QED
    BY <2>1, <2>4
<1>14. CalmPicksAreKept'
  <2> SUFFICES ASSUME ~disturbed, NEW s \in Slot \ Photo, last'[s] # NoCall
               PROVE  Uploaded(s, last[s])' \/ [slot |-> s, pic |-> last'[s]] \in queue'
    BY <1>10 DEF CalmPicksAreKept
  <2>1. PICK p : p = last'[s]
    OBVIOUS
  <2>2. v.stage = "removes" => Uploaded(x.slot, x.pic)
    BY <1>4, <1>5 DEF Sound, Asked, Uploaded
  <2>3. CASE t \in Pick /\ s = x.slot
    <3>1. p = x.pic
      BY <1>5, <1>10, <2>1, <2>3 DEF QueueInv, PhoneTypes
    <3>2. x = [slot |-> s, pic |-> p]
      BY <1>5, <2>3, <3>1 DEF Item
    <3>3. CASE v.stage = "adds"
      BY <1>10, <2>1, <3>2, <3>3
    <3>4. CASE v.stage = "removes"
      BY <2>1, <2>2, <2>3, <3>1, <3>4, UploadedStays DEF Uploaded
    <3> QED
      BY <1>4, <3>3, <3>4
  <2>4. CASE ~(t \in Pick /\ s = x.slot)
    <3>1. p = last[s]
      BY <1>10, <2>1, <2>4 DEF QueueInv, PhoneTypes
    <3>2. CASE Uploaded(s, p)
      BY <2>1, <3>2, UploadedStays DEF Uploaded
    <3>3. CASE [slot |-> s, pic |-> p] \in queue /\ s # x.slot
      BY <1>10, <1>12, <2>1, <3>3
    <3>4. CASE [slot |-> s, pic |-> p] \in queue /\ s = x.slot
      <4>1. flushes /\ v.stage = "removes"
        BY <1>4, <2>4, <3>4, QueueAssumption DEF Task, Sound
      <4>2. x = [slot |-> s, pic |-> p]
        BY <1>5, <1>12, <3>4, <4>1 DEF QueueInv, PhoneTypes, OneForEachSlot
      <4>3. Uploaded(s, p)
        BY <2>2, <4>1, <4>2
      <4> QED
        BY <2>1, <4>3, UploadedStays DEF Uploaded
    <3>5. Uploaded(s, p) \/ [slot |-> s, pic |-> p] \in queue
      BY <2>1, <3>1 DEF QueueInv, CalmPicksAreKept
    <3> QED
      BY <3>2, <3>3, <3>4, <3>5
  <2> QED
    BY <2>3, <2>4
<1> QED
  BY <1>9, <1>11, <1>13, <1>14 DEF QueueInv

LEMMA PhoneRests ==
  ASSUME QueueInv, MadeStays, UNCHANGED phoneVars
  PROVE  QueueInv'
<1>1. UNCHANGED <<queue, task, last, disturbed>>
  BY DEF phoneVars
<1>2. ASSUME NEW u \in Task PROVE Sound(u, task[u])'
  <2>1. PICK v : v = task[u]
    OBVIOUS
  <2>2. v \in TaskRecord /\ Sound(u, v)
    BY <2>1 DEF QueueInv, PhoneTypes
  <2>3. Sound(u, v)'
    BY <2>2, SoundStays
  <2> QED
    BY <1>1, <2>1, <2>3 DEF Sound
<1>3. PhoneTypes' /\ Calm'
  BY <1>1 DEF QueueInv, PhoneTypes, OneForEachSlot, Calm, UpToDate
<1>4. CalmPicksAreKept'
  BY <1>1, UploadedStays DEF QueueInv, CalmPicksAreKept
<1> QED
  BY <1>2, <1>3, <1>4 DEF QueueInv

LEMMA StepQueueInv == FullInv /\ QueueInv /\ [Next]_vars => QueueInv'
<1> SUFFICES ASSUME FullInv, QueueInv, [Next]_vars PROVE QueueInv'
  OBVIOUS
<1>1. ServerTypeOK
  BY DEF FullInv, DInv
<1>2. MadeStays
  BY <1>1, StepMaps, StepMadeStays
<1>3. ASSUME NEW t \in Task, Accepted(t) \/ PickFails(t) \/ PickRefused(t) PROVE QueueInv'
  BY <1>2, <1>3, StageStep DEF Accepted, PickFails, PickRefused, Busy, Calling
<1>4. ASSUME NEW t \in Flush, EndFlush(t) PROVE QueueInv'
  <2>1. t \in Task
    BY DEF Task
  <2> QED
    BY <1>2, <1>4, <2>1, StageStep DEF EndFlush, Busy
<1>5. CASE UNCHANGED vars
  BY <1>2, <1>5, PhoneRests DEF vars
<1>6. ASSUME NEW op \in Op, NEW s \in Slot, NEW p \in Picture \ Pick, NEW r \in Request,
             Other(op, s, p, r)
      PROVE  QueueInv'
  BY <1>2, <1>6, PhoneRests DEF Other
<1> QED
  BY <1>1, <1>2, <1>3, <1>4, <1>5, <1>6, PhoneRests, PickDocumentStep, StartFlushStep,
     SendNextStep, FlushFailsStep, ReadQueueStep, WriteQueueStep, WriteFailsStep DEF Next

LEMMA QueueInvariant == Spec => [](FullInv /\ QueueInv)
<1>1. Init => QueueInv
  <2> SUFFICES ASSUME Init PROVE QueueInv
    OBVIOUS
  <2>1. \A t \in Task : task[t] = Idle
    BY DEF Init
  <2>2. Idle \in TaskRecord
    BY DEF Idle, TaskRecord
  <2>3. PhoneTypes
    BY <2>2 DEF Init, PhoneTypes, OneForEachSlot
  <2>4. \A t \in Task : Sound(t, task[t])
    BY <2>1 DEF Idle, Sound, OneForEachSlot, Calling
  <2>5. Calm
    BY <2>1 DEF Idle, Calm, Busy, UpToDate
  <2>6. CalmPicksAreKept
    BY DEF Init, CalmPicksAreKept
  <2> QED
    BY <2>3, <2>4, <2>5, <2>6 DEF QueueInv
<1>2. Init => FullInv
  BY InitFullInv
<1> QED
  BY <1>1, <1>2, StepFullInv, StepQueueInv, PTL DEF Spec

\* The types of the whole: in the queue no slot has two items, however picks and
\* flushes interleave over the file.
THEOREM TypeCorrect == Spec => []TypeOK
<1>1. FullInv /\ QueueInv => TypeOK
  BY DEF FullInv, DInv, QueueInv, PhoneTypes, TaskRecord, OneForEachSlot, TypeOK
<1> QED
  BY <1>1, QueueInvariant, PTL

\* While picks and flushes run one at a time, no read misses an item and no write
\* fails, the last document the user was told is uploaded or queued is at the
\* server or in the queue.
THEOREM CalmPicksStay == Spec => []CalmPicksAreKept
<1>1. QueueInv => CalmPicksAreKept
  BY DEF QueueInv
<1> QED
  BY <1>1, QueueInvariant, PTL
=============================================================================
