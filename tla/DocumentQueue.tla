---------------------------- MODULE DocumentQueue ----------------------------
(***************************************************************************)
(* The app's side of the documents: a document is uploaded when it is      *)
(* picked; if the server cannot be reached it is put into the file         *)
(* pending_uploads.json, which the flushes after a reconnect (and one on   *)
(* each open profile page) send again.  Dart interleaves at every await:   *)
(* a change of the queue is a read of the file and a write of it.          *)
(***************************************************************************)
EXTENDS Documents

CONSTANTS Pick,     \* the documents the user picks, each once; its picture is
                    \* its own
          Flush,    \* flushes, each run once
          NoCall    \* a task that waits for no request

ASSUME QueueAssumption == Pick \subseteq Picture /\ Pick \cap Flush = {}

VARIABLES queue,    \* the items of the file, one for each slot
          task,     \* task[t]: how far the pick or the flush is
          last,     \* last[s]: the last pick of the slot the user was told of
          disturbed \* history: two tasks were under way together, a read has
                    \* missed an item, or a write has failed

phoneVars == <<queue, task, last, disturbed>>
vars == <<serverVars, phoneVars>>

Task == Pick \cup Flush
Item == [slot : Slot \ Photo, pic : Pick]
Idle == [stage |-> "idle", todo |-> {}, call |-> NoCall, copy |-> {}]

TypeOK ==
  /\ ServerTypeOK
  /\ queue \subseteq Item
  /\ task \in [Task -> [stage : {"idle", "next", "sending", "adding", "removing",
                                 "adds", "removes", "done"},
                        todo : SUBSET Item, call : Request \cup {NoCall},
                        copy : SUBSET Item]]
  /\ last \in [Slot \ Photo -> Pick \cup {NoCall}]
  /\ disturbed \in BOOLEAN
  /\ \A x, y \in queue : x.slot = y.slot => x = y

Init ==
  /\ ServerInit
  /\ queue = {}
  /\ task = [t \in Task |-> Idle]
  /\ last = [s \in Slot \ Photo |-> NoCall]
  /\ disturbed = FALSE

Active(t) == task[t].stage \notin {"idle", "done"}
Start(t, new) ==
  /\ task[t].stage = "idle"
  /\ task' = [task EXCEPT ![t] = new]
  /\ disturbed' = (disturbed \/ \E u \in Task : Active(u))

Move(t, stage) == task' = [task EXCEPT ![t].stage = stage]
TheItem(t) == CHOOSE x \in task[t].todo : x.slot = req[task[t].call].slot

-----------------------------------------------------------------------------
\* _upload: the picked document is sent at once.
PickDocument(t, s, r) ==
  /\ Start(t, [Idle EXCEPT !.stage = "sending", !.todo = {[slot |-> s, pic |-> t]},
                           !.call = r])
  /\ Begin(r, "upload", s, t)
  /\ UNCHANGED <<queue, last>>

\* pending: the items whose picked files are still there, and none at all if
\* anything throws.
Readings == SUBSET queue

\* flushDocumentUploads: the items that it reads now.
StartFlush(t) ==
  /\ \E items \in Readings : Start(t, [Idle EXCEPT !.stage = "next", !.todo = items])
  /\ UNCHANGED <<serverVars, queue, last>>

SendNext(t, x, r) ==
  /\ task[t].stage = "next" /\ x \in task[t].todo
  /\ Begin(r, "upload", x.slot, x.pic)
  /\ task' = [task EXCEPT ![t].stage = "sending", ![t].call = r]
  /\ UNCHANGED <<queue, last, disturbed>>

EndFlush(t) ==
  /\ task[t].stage = "next" /\ task[t].todo = {}
  /\ Move(t, "done")
  /\ UNCHANGED <<serverVars, queue, last, disturbed>>

\* The upload is answered with success: the slot is removed from the queue.
Accepted(t) ==
  /\ task[t].stage = "sending" /\ req[task[t].call].stage = "answered"
  /\ Move(t, "removing")
  /\ UNCHANGED <<serverVars, queue, last, disturbed>>

PickFailsUnqueued(t) ==  \* mutant: a document that cannot be sent is shown as queued
  /\ t \in Pick /\ task[t].stage = "sending"
  /\ task' = [task EXCEPT ![t] = [Idle EXCEPT !.stage = "done"]]
  /\ last' = [last EXCEPT ![TheItem(t).slot] = t]
  /\ UNCHANGED <<serverVars, queue, disturbed>>

\* No answer, whatever the server does with the request: the pick is queued.
PickFails(t) ==
  /\ t \in Pick /\ task[t].stage = "sending"
  /\ Move(t, "adding")
  /\ UNCHANGED <<serverVars, queue, last, disturbed>>

\* An answer that is an error is shown to the user.
PickRefused(t) ==
  /\ t \in Pick /\ task[t].stage = "sending"
  /\ req[task[t].call].stage \in {"refused", "stopped"}
  /\ Move(t, "done")
  /\ UNCHANGED <<serverVars, queue, last, disturbed>>

\* A flush leaves the item where it is and takes the next one.
FlushFails(t) ==
  /\ t \in Flush /\ task[t].stage = "sending"
  /\ task' = [task EXCEPT ![t].stage = "next", ![t].todo = @ \ {TheItem(t)}]
  /\ UNCHANGED <<serverVars, queue, last, disturbed>>

\* enqueue and remove: pending(), then _write of what was read.
ReadQueue(t) ==
  /\ task[t].stage \in {"adding", "removing"}
  /\ \E items \in Readings :
       /\ task' = [task EXCEPT ![t].copy = items,
                               ![t].stage = IF @ = "adding" THEN "adds" ELSE "removes"]
       /\ disturbed' = (disturbed \/ items # queue)
  /\ UNCHANGED <<serverVars, queue, last>>

WriteQueueAppends(t) ==  \* mutant: enqueue does not drop the slot's old item
  LET x == TheItem(t)
  IN /\ task[t].stage \in {"adds", "removes"}
     /\ queue' = IF task[t].stage = "adds" THEN task[t].copy \cup {x}
                 ELSE {y \in task[t].copy : y.slot # x.slot}
     /\ task' = [task EXCEPT ![t] = [Idle EXCEPT !.stage = "done"]]
     /\ UNCHANGED <<serverVars, last, disturbed>>

\* The pick is over; the flush goes on to its next item.
LeaveItem(t, x) ==
  task' = [task EXCEPT ![t] = [Idle EXCEPT
             !.stage = IF t \in Flush THEN "next" ELSE "done",
             !.todo = IF t \in Flush THEN task[t].todo \ {x} ELSE {}]]

WriteQueue(t) ==
  LET x == TheItem(t)
      others == {y \in task[t].copy : y.slot # x.slot}
  IN /\ task[t].stage \in {"adds", "removes"}
     /\ queue' = IF task[t].stage = "adds" THEN others \cup {x} ELSE others
     /\ LeaveItem(t, x)
     /\ last' = IF t \in Pick THEN [last EXCEPT ![x.slot] = t] ELSE last
     /\ UNCHANGED <<serverVars, disturbed>>

\* The write throws, maybe when it has emptied the file; the user is told
\* nothing good.
WriteFails(t) ==
  /\ task[t].stage \in {"adds", "removes"}
  /\ queue' \in {queue, {}}
  /\ LeaveItem(t, TheItem(t))
  /\ disturbed' = TRUE
  /\ UNCHANGED <<serverVars, last>>

Other(op, s, p, r) ==  \* somebody else, at another device
  /\ Begin(r, op, s, p)
  /\ UNCHANGED phoneVars

Next ==
  \/ \E t \in Pick, s \in Slot \ Photo, r \in Request : PickDocument(t, s, r)
  \/ \E t \in Flush : StartFlush(t)
  \/ \E t \in Flush, x \in Item, r \in Request : SendNext(t, x, r)
  \/ \E t \in Flush : EndFlush(t)
  \/ \E t \in Task : Accepted(t)
  \/ \E t \in Task : PickFails(t)
  \/ \E t \in Task : PickRefused(t)
  \/ \E t \in Task : FlushFails(t)
  \/ \E t \in Task : ReadQueue(t)
  \/ \E t \in Task : WriteQueue(t)
  \/ \E t \in Task : WriteFails(t)
  \/ \E op \in Op, s \in Slot, p \in Picture \ Pick, r \in Request : Other(op, s, p, r)
  \/ \E r \in Request : Find(r) /\ UNCHANGED phoneVars
  \/ \E r \in Request : Clear(r) /\ UNCHANGED phoneVars
  \/ \E r \in Request : StoreFile(r) /\ UNCHANGED phoneVars
  \/ \E r \in Request : SaveRow(r) /\ UNCHANGED phoneVars
  \/ \E r \in Request : DeleteRow(r) /\ UNCHANGED phoneVars
  \/ \E r \in Request : DestroyFile(r) /\ UNCHANGED phoneVars
  \/ \E r \in Request : Open(r) /\ UNCHANGED phoneVars
  \/ \E r \in Request : Stop(r) /\ UNCHANGED phoneVars

Spec == Init /\ [][Next]_vars

-----------------------------------------------------------------------------
(* Properties *)

Uploaded(s, p) == \E r \in Request :
  req[r].slot = s /\ req[r].pic = p /\ req[r].op = "upload" /\ req[r].stage = "answered"

\* While picks and flushes run one at a time, no read misses an item and no write
\* fails, the last document of a slot the user was told is uploaded or queued has
\* been accepted by the server or is still queued, whatever requests fail and
\* whichever answers are lost.  A read that misses an item ends its upload in
\* silence: the shorter list is written back.
CalmPicksAreKept ==
  ~disturbed => \A s \in Slot \ Photo :
    last[s] # NoCall => Uploaded(s, last[s]) \/ [slot |-> s, pic |-> last[s]] \in queue
=============================================================================
