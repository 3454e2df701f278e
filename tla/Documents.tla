------------------------------ MODULE Documents ------------------------------
(***************************************************************************)
(* The documents and the photo of employees on the server:                 *)
(*   POST   /staff/{id}/documents/{type}   read the row, remove its file,  *)
(*                                         store the new file, save a row  *)
(*   DELETE /staff/{id}/documents/{type}   read, delete the row, then the  *)
(*                                         file                            *)
(*   GET    /staff/{id}/documents/{type}   read the row, open its file     *)
(*   POST   /staff/{id}/upload-photo       store the file, set photo_url   *)
(* Files are on the disk of the server or, if it is configured, at         *)
(* Cloudinary.  Rows and files are written one after the other, without a  *)
(* transaction over both, and requests for one slot interleave.            *)
(***************************************************************************)
EXTENDS Functions

CONSTANTS Slot,      \* one document type of one employee, or the photo of one
          Photo,     \* the slots that are photos
          Request,   \* the requests, each of which is made once
          Picture,   \* what is uploaded
          Format,    \* Format[p]: Cloudinary keeps images and raw files apart
          Inferred,  \* does the upsert of a row find its unique index?
                     \* The answers that are possible: {FALSE} as written
          NoRow      \* a slot without a row

ASSUME DocumentAssumption ==
  /\ Photo \subseteq Slot /\ Slot # {} /\ Picture # {}
  /\ Format \in [Picture -> {"image", "raw"}]
  /\ Inferred \subseteq BOOLEAN

VARIABLES cloud, \* is Cloudinary configured?
          row,   \* row[s]: the row of employee_documents, or photo_url
          store, \* store[n]: the content of the file n
          req    \* req[r]: the request and how far it is

serverVars == <<cloud, row, store, req>>

\* A file of the disk is named by a random number, which no other request
\* draws; an asset of Cloudinary by its slot, so that an upload overwrites it.
File == Request \cup (Slot \X {"image", "raw"})
Row == [file : File, pic : Picture]
Op == {"upload", "photo", "delete", "download"}
Stage == {"idle", "begun", "found", "cleared", "stored", "deleted",
          "answered", "refused", "missing", "stopped"}

NewRequest(op, s, p) ==
  [stage |-> "begun", op |-> op, slot |-> s, pic |-> p, found |-> NoRow]

\* What the record of a request that is not made yet holds is of no importance.
AnySlot == CHOOSE s \in Slot : TRUE
AnyPicture == CHOOSE p \in Picture : TRUE

ServerTypeOK ==
  /\ cloud \in BOOLEAN
  /\ row \in [Slot -> Row \cup {NoRow}]
  /\ DOMAIN store \subseteq File
  /\ \A n \in DOMAIN store : store[n] \in Picture
  /\ req \in [Request -> [stage : Stage, op : Op, slot : Slot, pic : Picture,
                          found : Row \cup {NoRow}]]

ServerInit ==
  /\ cloud \in BOOLEAN
  /\ row = [s \in Slot |-> NoRow]
  /\ store = [n \in {} |-> n]
  /\ req = [r \in Request |-> [NewRequest("upload", AnySlot, AnyPicture)
                                EXCEPT !.stage = "idle"]]

Own(r) == IF cloud THEN <<req[r].slot, Format[req[r].pic]>> ELSE r

At(r, op, stage) == req[r].op = op /\ req[r].stage = stage
Go(r, stage) == req' = [req EXCEPT ![r].stage = stage]

-----------------------------------------------------------------------------
(* A request arrives: claims, slot and extension are checked.              *)

Begin(r, op, s, p) ==
  /\ req[r].stage = "idle"
  /\ (s \in Photo) <=> (op = "photo")
  /\ req' = [req EXCEPT ![r] = NewRequest(op, s, p)]
  /\ UNCHANGED <<cloud, row, store>>

\* GetEmployeeDocumentByType.  No row: an upload goes on, the others are 404.
Find(r) ==
  /\ req[r].stage = "begun" /\ req[r].op # "photo"
  /\ LET found == row[req[r].slot]
     IN req' = [req EXCEPT ![r].found = found,
                           ![r].stage = IF found = NoRow /\ req[r].op # "upload"
                                          THEN "refused" ELSE "found"]
  /\ UNCHANGED <<cloud, row, store>>

\* os.Remove, or the destroy call; a failure is logged and nothing else.
RemoveFile(n) == store' \in {store, Restrict(store, DOMAIN store \ {n})}

ClearAlways(r) ==  \* mutant: the old asset is destroyed at Cloudinary too
  /\ At(r, "upload", "found")
  /\ Go(r, "cleared")
  /\ IF req[r].found = NoRow THEN UNCHANGED store ELSE RemoveFile(req[r].found.file)
  /\ UNCHANGED <<cloud, row>>

\* On the disk the old file goes before the new one is there.
Clear(r) ==
  /\ At(r, "upload", "found")
  /\ Go(r, "cleared")
  /\ IF cloud \/ req[r].found = NoRow THEN UNCHANGED store
                                      ELSE RemoveFile(req[r].found.file)
  /\ UNCHANGED <<cloud, row>>

\* saveFile or UploadToCloudinary; one that fails may have left its file.
Written(r) == [n \in DOMAIN store \cup {Own(r)} |->
                 IF n = Own(r) THEN req[r].pic ELSE store[n]]

StoreFile(r) ==
  /\ At(r, "upload", "cleared") \/ At(r, "photo", "begun")
  /\ \/ store' = Written(r) /\ Go(r, "stored")
     \/ store' \in {store, Written(r)} /\ Go(r, "refused")
  /\ UNCHANGED <<cloud, row>>

\* CreateEmployeeDocument or UpdateEmployeePhotoURL: the last one wins.
SaveRow(r) ==
  /\ req[r].stage = "stored"
  /\ \/ /\ req[r].op = "photo" \/ TRUE \in Inferred
        /\ row' = [row EXCEPT ![req[r].slot] = [file |-> Own(r), pic |-> req[r].pic]]
        /\ Go(r, "answered")
     \/ /\ Go(r, "refused")
        /\ UNCHANGED row
  /\ UNCHANGED <<cloud, store>>

-----------------------------------------------------------------------------
(* Deleting and downloading *)

\* DELETE WHERE employee_id and doc_type: the row of now, not the one found.
DeleteRow(r) ==
  /\ At(r, "delete", "found")
  /\ row' = [row EXCEPT ![req[r].slot] = NoRow]
  /\ Go(r, IF row[req[r].slot] = NoRow THEN "refused" ELSE "deleted")
  /\ UNCHANGED <<cloud, store>>

DestroyFile(r) ==
  /\ At(r, "delete", "deleted")
  /\ RemoveFile(req[r].found.file)
  /\ Go(r, "answered")
  /\ UNCHANGED <<cloud, row>>

\* A file of the disk is sent; for one at Cloudinary the client is redirected.
Open(r) ==
  /\ At(r, "download", "found")
  /\ Go(r, IF cloud \/ req[r].found.file \in DOMAIN store THEN "answered" ELSE "missing")
  /\ UNCHANGED <<cloud, row, store>>

Ended == {"idle", "answered", "refused", "missing", "stopped"}

\* The caller hangs up, or the server is stopped, between two steps.
Stop(r) ==
  /\ req[r].stage \notin Ended
  /\ Go(r, "stopped")
  /\ UNCHANGED <<cloud, row, store>>

-----------------------------------------------------------------------------
(* Properties *)

Lost(s) == row[s] # NoRow /\ row[s].file \notin DOMAIN store

\* An upload past the removal of the old file that is not answered with success.
Unfinished(r) ==
  req[r].op = "upload" /\ req[r].stage \in {"cleared", "stored", "refused", "stopped"}

\* On the disk a row without its file has one cause: an upload found this very
\* row, removed its file, and has not (or will never have) replaced it.  At
\* Cloudinary there is one more: a delete that found an older row of the slot
\* destroyed the asset that the slots' uploads share.
LostFileHasCause ==
  \A s \in Slot : Lost(s) =>
    \E r \in Request :
      /\ req[r].slot = s /\ req[r].found # NoRow /\ req[r].found.file = row[s].file
      /\ IF cloud THEN At(r, "delete", "answered")
                  ELSE req[r].found = row[s] /\ Unfinished(r)
=============================================================================
