---------------------------- MODULE OfflineSync -----------------------------
(***************************************************************************)
(* The phone's queue of offline writes: SyncService over PendingSyncStore. *)
(* enqueue and flush are asynchronous; every await on the file or the      *)
(* network is a step, so the calls interleave.  Flushes wait for each      *)
(* other (_exclusive); an enqueue waits for nobody.                        *)
(*                                                                         *)
(* Both end with the same write: delete the file, then append the items    *)
(* one by one, where an append reads the whole file and writes it again.   *)
(* Each of these reads takes whatever goes wrong for an empty list.        *)
(***************************************************************************)
EXTENDS Naturals, SequencesExt

CONSTANTS Item,   \* what the user saves while offline
          Flush   \* the flushes: one a reconnect, one a "Force Sync"

Caller == Item \cup Flush

ASSUME CallersAssumption == Item \cap Flush = {}

VARIABLES file,     \* the items of pending_sync.json
          tail,     \* the flushes chained on _tail, the running one first
          task,     \* task[x]: where the call for the item or the flush is
          saved,    \* the items of which the user was told "saved offline"
          accepted, \* the items the server has stored
          trouble   \* history: the worst that has happened, "overlap" if a call
                    \* has begun while another one ran, "misread" if a read has
                    \* missed what the file holds, "stopped" if an error or a
                    \* kill has ended a call

vars == <<file, tail, task, saved, accepted, trouble>>

\* Where a call is: waiting for its turn, about to read the file, pushing what
\* it has read, deleting the file, or in one of the two halves of an append.
Steps == {"idle", "waiting", "pushing", "clearing", "append", "rewrite", "over"}
Task == [at : Steps,
         todo : Seq(Item),   \* still to push, or still to append
         keep : Seq(Item),   \* pushed without success
         image : Seq(Item)]  \* the file as an append has read it

Idle == [at |-> "idle", todo |-> << >>, keep |-> << >>, image |-> << >>]
Running(x) == task[x].at \notin {"idle", "waiting", "over"}

TypeOK ==
  /\ file \in Seq(Item)
  /\ \A x \in Caller : task[x] \in Task
  /\ ToSet(tail) = {f \in Flush : task[f].at # "idle"}
  /\ IsInjective(tail)
  /\ saved \subseteq Item
  /\ accepted \subseteq Item
  /\ trouble \in {"none", "overlap", "misread", "stopped"}

Init ==
  /\ file = << >>
  /\ tail = << >>
  /\ task = [x \in Caller |-> Idle]
  /\ saved = {}
  /\ accepted = {}
  /\ trouble = "none"

-----------------------------------------------------------------------------

Goes(x, t) == task' = [task EXCEPT ![x] = t]

\* PendingSyncStore.read: what the file holds, or nothing if anything throws on
\* the way: the directory, the file, the decoder.
Readings == {file, << >>}

\* History only: how the trouble grows when a read returns items.
Noted(before, items) ==
  IF items # file /\ before # "stopped" THEN "misread" ELSE before

\* History only: a call begins with a read.
Begins(x, items) ==
  trouble' = Noted(IF trouble = "none" /\ \E y \in Caller \ {x} : Running(y)
                     THEN "overlap" ELSE trouble, items)

\* History only: a call is stopped.
Stops == trouble' = "stopped"

\* enqueue: read the file, add the item, go on to write the list.
Enqueue(i) ==
  /\ task[i].at = "idle"
  /\ \E items \in Readings :
       /\ Begins(i, items)
       /\ Goes(i, [Idle EXCEPT !.at = "clearing", !.todo = Append(items, i)])
  /\ UNCHANGED <<file, tail, saved, accepted>>

\* flush is called, and takes its place in the chain.
CallFlush(f) ==
  /\ task[f].at = "idle"
  /\ tail' = Append(tail, f)
  /\ Goes(f, [Idle EXCEPT !.at = "waiting"])
  /\ UNCHANGED <<file, saved, accepted, trouble>>

BeginFlushUnchained(f) ==  \* mutant: flush without _exclusive
  /\ task[f].at = "waiting"
  /\ \E items \in Readings :
       /\ Begins(f, items)
       /\ Goes(f, [Idle EXCEPT !.at = "pushing", !.todo = items])
  /\ UNCHANGED <<file, tail, saved, accepted>>

BeginFlush(f) ==
  /\ task[f].at = "waiting"
  /\ Head(tail) = f
  /\ \E items \in Readings :
       /\ Begins(f, items)
       /\ Goes(f, [Idle EXCEPT !.at = "pushing", !.todo = items])
  /\ UNCHANGED <<file, tail, saved, accepted>>

\* The push was answered with success.
PushSucceeds(f) ==
  /\ task[f].at = "pushing"
  /\ task[f].todo # << >>
  /\ accepted' = accepted \cup {Head(task[f].todo)}
  /\ Goes(f, [task[f] EXCEPT !.todo = Tail(@)])
  /\ UNCHANGED <<file, tail, saved, trouble>>

PushFailsUnkept(f) ==  \* mutant: an exception drops the item
  /\ task[f].at = "pushing"
  /\ task[f].todo # << >>
  /\ Goes(f, [task[f] EXCEPT !.todo = Tail(@)])
  /\ UNCHANGED <<file, tail, saved, accepted, trouble>>

\* It failed, or its answer was lost after the server had stored the item.
PushFails(f) ==
  /\ task[f].at = "pushing"
  /\ task[f].todo # << >>
  /\ accepted' \in {accepted, accepted \cup {Head(task[f].todo)}}
  /\ Goes(f, [task[f] EXCEPT !.todo = Tail(@), !.keep = Append(@, Head(task[f].todo))])
  /\ UNCHANGED <<file, tail, saved, trouble>>

\* All items have been tried: the rest is written back.
WriteBack(f) ==
  /\ task[f].at = "pushing"
  /\ task[f].todo = << >>
  /\ Goes(f, [Idle EXCEPT !.at = "clearing", !.todo = task[f].keep])
  /\ UNCHANGED <<file, tail, saved, accepted, trouble>>

-----------------------------------------------------------------------------
(* write: store.clear, then store.append for each item *)

Clear(x) ==
  /\ task[x].at = "clearing"
  /\ file' = << >>
  /\ Goes(x, [task[x] EXCEPT !.at = "append"])
  /\ UNCHANGED <<tail, saved, accepted, trouble>>

ReadForAppend(x) ==
  /\ task[x].at = "append"
  /\ task[x].todo # << >>
  /\ \E items \in Readings :
       /\ trouble' = Noted(trouble, items)
       /\ Goes(x, [task[x] EXCEPT !.at = "rewrite", !.image = items])
  /\ UNCHANGED <<file, tail, saved, accepted>>

Rewrite(x) ==
  /\ task[x].at = "rewrite"
  /\ file' = Append(task[x].image, Head(task[x].todo))
  /\ Goes(x, [Idle EXCEPT !.at = "append", !.todo = Tail(task[x].todo)])
  /\ UNCHANGED <<tail, saved, accepted, trouble>>

EndEnqueue(i) ==
  /\ task[i].at = "append"
  /\ task[i].todo = << >>
  /\ Goes(i, [Idle EXCEPT !.at = "over"])
  /\ saved' = saved \cup {i}
  /\ UNCHANGED <<file, tail, accepted, trouble>>

LeaveAndStayChained(f) ==  \* mutant: _tail still names the flush that ended
  /\ Goes(f, Idle)
  /\ UNCHANGED tail

LeaveChain(f) ==
  /\ Goes(f, Idle)
  /\ tail' = Tail(tail)

EndFlush(f) ==
  /\ task[f].at = "append"
  /\ task[f].todo = << >>
  /\ LeaveChain(f)
  /\ UNCHANGED <<file, saved, accepted, trouble>>

\* A write of the file that does not end may leave it truncated, which read()
\* takes for an empty list.
Torn(x) == task[x].at = "rewrite" /\ file' = << >>

FlushThrowsUnanswered(f) ==  \* mutant: no onError, the chain stops there
  /\ task[f].at \in {"clearing", "rewrite"}
  /\ Goes(f, [Idle EXCEPT !.at = "over"])
  /\ UNCHANGED file \/ Torn(f)
  /\ UNCHANGED <<tail, saved, accepted>>
  /\ Stops

\* The deletion or a write of the file throws: the flush ends with the error, and
\* onError hands the turn to the next one.
FlushThrows(f) ==
  /\ task[f].at \in {"clearing", "rewrite"}
  /\ LeaveChain(f)
  /\ UNCHANGED file \/ Torn(f)
  /\ UNCHANGED <<saved, accepted>>
  /\ Stops

\* Or it throws at a save, whose user is shown the error.
EnqueueThrows(i) ==
  /\ task[i].at \in {"clearing", "rewrite"}
  /\ Goes(i, [Idle EXCEPT !.at = "over"])
  /\ UNCHANGED file \/ Torn(i)
  /\ UNCHANGED <<tail, saved, accepted>>
  /\ Stops

\* The app is killed.
Kill ==
  /\ \E x \in Caller : task[x].at \notin {"idle", "over"}
  /\ UNCHANGED file \/ \E x \in Caller : Torn(x)
  /\ tail' = << >>
  /\ task' = [x \in Caller |->
                IF x \in Item /\ task[x].at # "idle" THEN [Idle EXCEPT !.at = "over"] ELSE Idle]
  /\ UNCHANGED <<saved, accepted>>
  /\ Stops

Work(x) == Clear(x) \/ ReadForAppend(x) \/ Rewrite(x)

Save(i) == Work(i) \/ EndEnqueue(i)

Sync(f) ==
  \/ BeginFlush(f) \/ PushSucceeds(f) \/ PushFails(f) \/ WriteBack(f)
  \/ Work(f) \/ EndFlush(f)

Next ==
  \/ \E i \in Item : Enqueue(i)
  \/ \E i \in Item : Save(i)
  \/ \E f \in Flush : CallFlush(f)
  \/ \E f \in Flush : Sync(f)
  \/ \E f \in Flush : FlushThrows(f)
  \/ \E i \in Item : EnqueueThrows(i)
  \/ Kill

Spec == Init /\ [][Next]_vars

\* Every await of a flush completes: the file system answers, and the HTTP
\* client has a timeout.  Nothing is assumed of the saves, and nobody needs to
\* call flush.
FairSpec == Spec /\ \A f \in Flush : WF_vars(Sync(f))

-----------------------------------------------------------------------------
(* Properties *)

\* app/CHANGELOG.md: "offline writes are flushed serially".  At most one flush
\* is past the head of the chain, so none pushes what another one is pushing.
FlushesDoNotOverlap ==
  \A f, g \in Flush : Running(f) /\ Running(g) => f = g

\* A flush that was called ends, or the app is killed: one that throws does not
\* block the ones behind it.
EveryFlushEnds ==
  \A f \in Flush : task[f].at = "waiting" ~> task[f].at = "idle"

SavedAreKept ==
  (\A x \in Caller : ~Running(x)) => saved \subseteq accepted \cup ToSet(file)

\* While calls run one at a time, none is stopped and no read fails, every item of
\* which the user was told that it is saved is in the file or on the server,
\* whatever pushes fail and whichever answers are lost.  One failed read of a file
\* that is not empty is enough to lose what it holds.
CalmSavesAreKept == trouble = "none" => SavedAreKept

\* README.md: offline writes "are staged locally and flushed to the server
\* automatically when the connection returns".  As long as nothing is killed
\* and no file operation fails, no saved item is lost.
NothingSavedIsLost == trouble \in {"none", "overlap"} => SavedAreKept
=============================================================================
