------------------------------- MODULE Ledger -------------------------------
(***************************************************************************)
(* The ledger of one employee and the requests that write it:              *)
(*   POST /ledger              from the app, online or replayed from its   *)
(*                             queue, with a client_id; or without one     *)
(*   PUT  /ledger/{id}/entry   an edit against a version                   *)
(*   DELETE /ledger/{id}/entry                                             *)
(*   POST /ledger/{id}/settle  one statement, but its snapshot is taken    *)
(*                             before its insert is committed.             *)
(***************************************************************************)
EXTENDS Integers, FiniteSetsExt

CONSTANTS Amount,          \* the amounts a request may carry; no sign is checked
          Client,          \* the client ids of the entries created in the app
          Payload,         \* Payload[c]: what was typed in
          Device,          \* phones that edit entries
          Settler,         \* the settle requests
          MaxEntries,      \* bound of the model: how many entries are inserted
          MaxVersion,      \* bound of the model: an entry at it is not edited
          Inferred,        \* does ON CONFLICT (client_id) find its unique index?
                           \* The answers that are possible: {FALSE} as migrated
          CarriesVersion,  \* does an edit send back the version it read?  The
                           \* answers that are possible: {FALSE} from the app
          NoClient,        \* the client_id of an entry created without one
          NoDraft          \* a device with no entry open

Kind == {"jama", "udhaar"}
Id == 1..MaxEntries
Content == [kind : Kind, amount : Int]

\* A row of the table, and the copy of it a device has open.
Entry == [id : Id, version : 1..MaxVersion, content : Content,
          client : Client \cup {NoClient}]
Draft == [id : Id, version : 1..MaxVersion, content : Content]

ASSUME LedgerAssumption ==
  /\ Amount \subseteq Int
  /\ Payload \in [Client -> [kind : Kind, amount : Amount]]
  /\ MaxEntries \in Nat
  /\ MaxVersion \in Nat \ {0}
  /\ Inferred \subseteq BOOLEAN
  /\ CarriesVersion \subseteq BOOLEAN
  /\ NoClient \notin Client
  /\ NoDraft \notin Draft

VARIABLES entries, \* the rows of the employee
          nextId,  \* the id the next insert gets
          sync,    \* sync[c]: what the phone knows of its create
          draft,   \* draft[d]: the entry the device has open for editing
          settle   \* settle[s]: how far the settle request is

vars == <<entries, nextId, sync, draft, settle>>

Settlement == [phase : {"idle", "reading", "done", "nothing"},
               balance : Int,              \* as read by the statement
               before : SUBSET Settler]    \* settlements it could see

TypeOK ==
  /\ entries \subseteq Entry
  /\ nextId \in 1..(MaxEntries + 1)
  /\ sync \in [Client -> {"new", "online", "unsure", "refused", "done"}]
  /\ draft \in [Device -> Draft \cup {NoDraft}]
  /\ settle \in [Settler -> Settlement]

Init ==
  /\ entries = {}
  /\ nextId = 1
  /\ sync = [c \in Client |-> "new"]
  /\ draft = [d \in Device |-> NoDraft]
  /\ settle = [s \in Settler |-> [phase |-> "idle", balance |-> 0, before |-> {}]]

-----------------------------------------------------------------------------
(* Creating entries *)

NewEntryFromZero(content, client) ==  \* mutant: the column's DEFAULT is 0
  [id |-> nextId, version |-> 0, content |-> content, client |-> client]
NewEntry(content, client) ==
  [id |-> nextId, version |-> 1, content |-> content, client |-> client]

Insert(content, client) ==
  /\ nextId <= MaxEntries
  /\ entries' = entries \cup {NewEntry(content, client)}
  /\ nextId' = nextId + 1

\* A create without a client_id; the handler accepts it, the app sends none.
CreateOnline(content) ==
  /\ Insert(content, NoClient)
  /\ UNCHANGED <<sync, draft, settle>>

UpsertClientAlways(c) == Insert(Payload[c], c)  \* mutant: no ON CONFLICT

UpsertClientNewest(c) ==  \* mutant: DO UPDATE also takes the typed-in values
  \/ /\ \A x \in entries : x.client # c
     /\ Insert(Payload[c], c)
  \/ /\ \E x \in entries : x.client = c
     /\ entries' = {IF x.client = c THEN [x EXCEPT !.content = Payload[c]] ELSE x :
                    x \in entries}
     /\ UNCHANGED nextId

(* INSERT ... ON CONFLICT (client_id) DO UPDATE SET client_id = the same:  *)
(* a replay touches the stored row and gets it back.                       *)
UpsertClient(c) ==
  \/ /\ \A x \in entries : x.client # c
     /\ Insert(Payload[c], c)
  \/ /\ \E x \in entries : x.client = c
     /\ UNCHANGED <<entries, nextId>>

(* The statement of a create with a client_id.  It names (client_id), but  *)
(* the index is partial, and PostgreSQL refuses to infer a partial index   *)
(* without its predicate.                                                  *)
Create(c) == TRUE \in Inferred /\ UpsertClient(c)
Refused == FALSE \in Inferred /\ UNCHANGED <<entries, nextId>>

\* The app is online: it sends the create at once and never again, for after an
\* error the user saves the page anew, under another client_id.
SaveOnline(c) ==
  /\ sync[c] = "new"
  /\ Create(c) \/ Refused
  /\ sync' = [sync EXCEPT ![c] = "online"]
  /\ UNCHANGED <<draft, settle>>

\* The app was offline: a flush sends the create it has queued.  If the answer is
\* lost or an error, the phone keeps the item and sends it again.
CreateOffline(c) ==
  /\ sync[c] \notin {"online", "done"}
  /\ \/ Create(c) /\ \E told \in {"unsure", "done"} : sync' = [sync EXCEPT ![c] = told]
     \/ Refused /\ sync' = [sync EXCEPT ![c] = "refused"]
  /\ UNCHANGED <<draft, settle>>

-----------------------------------------------------------------------------
(* Editing and deleting *)

\* The list of the employee's entries has shown the device this one.  (The route
\* that reads a single entry always fails; see README.)
Open(d, x) ==
  /\ draft' = [draft EXCEPT ![d] = [id |-> x.id, version |-> x.version,
                                    content |-> x.content]]
  /\ UNCHANGED <<entries, nextId, sync, settle>>

\* What the handler takes for the version of the edit: 0 if none is sent.
SentVersions(d) == {IF carried THEN draft[d].version ELSE 0 : carried \in CarriesVersion}

\* mutant: the WHERE clause compares the id only
MatchesId(d, x, version) == x.id = draft[d].id
\* UPDATE ... WHERE id = ? AND version = ?
Matches(d, x, version) == x.id = draft[d].id /\ x.version = version

Edited(x, content) == [x EXCEPT !.content = content, !.version = x.version + 1]

\* A match is rewritten with the next version; without one the answer is 409,
\* also when the entry has been deleted.
Update(d, content) ==
  /\ draft[d] # NoDraft
  /\ \E version \in SentVersions(d) :
       \/ \E x \in entries :
            /\ Matches(d, x, version)
            /\ x.version < MaxVersion
            /\ entries' = (entries \ {x}) \cup {Edited(x, content)}
       \/ /\ \A x \in entries : ~Matches(d, x, version)
          /\ UNCHANGED entries
  /\ draft' = [draft EXCEPT ![d] = NoDraft]
  /\ UNCHANGED <<nextId, sync, settle>>

Delete(x) ==
  /\ entries' = entries \ {x}
  /\ UNCHANGED <<nextId, sync, draft, settle>>

-----------------------------------------------------------------------------
(* Settling *)

Signed(x) == IF x.content.kind = "jama" THEN x.content.amount ELSE -x.content.amount
Balance(rows) == MapThenSumSet(Signed, rows)

Settled == {s \in Settler : settle[s].phase = "done"}

\* The statement takes its snapshot and sums up the committed rows.
SettleRead(s) ==
  /\ settle[s].phase = "idle"
  /\ settle' = [settle EXCEPT ![s] = [phase |-> "reading", balance |-> Balance(entries),
                                      before |-> Settled]]
  /\ UNCHANGED <<entries, nextId, sync, draft>>

\* mutant: the CASE takes the kind of the balance instead of the opposite one
SameSide(b) == IF b > 0 THEN [kind |-> "jama", amount |-> b]
                        ELSE [kind |-> "udhaar", amount |-> -b]
Opposite(b) == IF b > 0 THEN [kind |-> "udhaar", amount |-> b]
                        ELSE [kind |-> "jama", amount |-> -b]

\* The insert of the same statement; a zero balance inserts nothing, and the
\* request is answered with an error.
SettleInsert(s) ==
  /\ settle[s].phase = "reading"
  /\ \/ /\ settle[s].balance # 0
        /\ Insert(Opposite(settle[s].balance), NoClient)
        /\ settle' = [settle EXCEPT ![s] = [@ EXCEPT !.phase = "done"]]
     \/ /\ settle[s].balance = 0
        /\ settle' = [settle EXCEPT ![s] = [@ EXCEPT !.phase = "nothing"]]
        /\ UNCHANGED <<entries, nextId>>
  /\ UNCHANGED <<sync, draft>>

Next ==
  \/ \E k \in Kind, a \in Amount : CreateOnline([kind |-> k, amount |-> a])
  \/ \E c \in Client : SaveOnline(c)
  \/ \E c \in Client : CreateOffline(c)
  \/ \E d \in Device, x \in entries : Open(d, x)
  \/ \E d \in Device, k \in Kind, a \in Amount : Update(d, [kind |-> k, amount |-> a])
  \/ \E x \in entries : Delete(x)
  \/ \E s \in Settler : SettleRead(s)
  \/ \E s \in Settler : SettleInsert(s)

Spec == Init /\ [][Next]_vars

-----------------------------------------------------------------------------
(* Properties *)

\* A client_id is stored once, however often the create is replayed.
OneEntryPerClient ==
  \A x, y \in entries : x.client = y.client /\ x.client # NoClient => x = y

\* A stored entry changes its content only together with its version: no
\* replay and no settlement undoes an edit.
ContentChangesWithVersion ==
  [][\A x \in entries, y \in entries' :
       x.id = y.id => y = x \/ y.version = x.version + 1]_entries

\* An accepted edit replaces exactly the content its author was looking at.
EditSawTheEntry ==
  [][\A d \in Device :
       draft[d] # NoDraft /\ draft'[d] = NoDraft /\ entries' # entries =>
         \E x \in entries : x.id = draft[d].id /\ x.content = draft[d].content]_vars

\* A settlement whose reading is still the balance when it commits leaves the
\* account at zero, and what it inserts is a positive amount, also where the
\* entries it sums up carry negative ones.
SettlementClears ==
  [][\A s \in Settler :
       /\ settle[s].phase = "reading" /\ settle'[s].phase # "reading"
       /\ settle[s].balance = Balance(entries)
       => /\ Balance(entries') = 0
          /\ \A x \in entries' \ entries : x.content.amount > 0]_vars

\* ARCHITECTURE.md: the CTE "eliminates the TOCTOU race where two concurrent
\* settlements could both succeed."  A settlement that succeeds has seen every
\* settlement that succeeded before it.
SettlementsSeeEachOther ==
  [][\A s \in Settler :
       settle[s].phase = "reading" /\ settle'[s].phase = "done"
         => settle[s].before = Settled]_vars
=============================================================================
