----------------------------- MODULE MCDocuments -----------------------------
(***************************************************************************)
(* Instances of DocumentQueue and Documents: two document slots and one    *)
(* photo, two picks and a flush of one phone, and what other devices do    *)
(* with the slots, in three requests.                                      *)
(***************************************************************************)
EXTENDS DocumentQueue, TLC

CONSTANTS doc, doc2, photo, p1, p2, other, r1, r2, r3, f1

Kinds == [p \in Picture |-> IF p = p2 THEN "raw" ELSE "image"]
\* Bound: while other devices act, the phone flushes nothing and leaves doc2
\* alone.  The server cannot tell the uploads of a flush from those of a pick, and
\* the queue sees nothing of what others do.
ByOthers(r) == req[r].stage # "idle" /\ req[r].pic \notin Pick
OneStory ==
  (\E r \in Request : ByOthers(r)) =>
    /\ \A t \in Flush : task[t].stage = "idle"
    /\ \A r \in Request : req[r].stage # "idle" => req[r].slot # doc2

Symmetry == Permutations({r1, r2, r3})
=============================================================================
