---------------------------- MODULE LedgerProofs ----------------------------
(***************************************************************************)
(* What every interleaving of creates, replays, edits, deletes and         *)
(* settlements keeps, for any number of phones, entries and versions, and  *)
(* that a settlement leaves a balance of zero.                             *)
(***************************************************************************)
EXTENDS Ledger, FiniteSetTheorems, TLAPS

(* The shape of a stored entry, without what it says.                      *)
Shaped(x) == x \in [id : Nat, version : Nat \ {0}, content : {x.content},
                    client : {x.client}]

NumberOK == nextId \in Nat
DraftsOK == draft = [d \in Device |-> draft[d]]
IdsUsed == \A x \in entries : Shaped(x) /\ x.id < nextId
IdsUnique == \A x, y \in entries : x.id = y.id => x = y

(* A draft is a copy of an entry that has existed; as long as the versions *)
(* agree, the contents do.                                                 *)
DraftsFollow ==
  \A d \in Device : draft[d] # NoDraft =>
    /\ draft[d].id \in Nat /\ draft[d].id < nextId
    /\ draft[d].version \in Nat \ {0}
    /\ \A x \in entries : x.id = draft[d].id =>
         /\ draft[d].version <= x.version
         /\ draft[d].version = x.version => draft[d].content = x.content

Tables == NumberOK /\ IdsUsed /\ IdsUnique
IInv == Tables /\ DraftsOK /\ DraftsFollow /\ OneEntryPerClient

(* What a step may do to the entries that stay.                            *)
Counted ==
  \A x \in entries, y \in entries' : x.id = y.id => y = x \/ y.version = x.version + 1

-----------------------------------------------------------------------------

LEMMA InitIInv == Init => IInv
  BY DEF Init, IInv, Tables, NumberOK, IdsUsed, IdsUnique, DraftsOK, DraftsFollow,
         OneEntryPerClient

\* A row inserted under the next id disturbs nothing, if its client_id is new.
LEMMA InsertStep ==
  ASSUME IInv, NEW content, NEW client, Insert(content, client), UNCHANGED draft,
         client = NoClient \/ \A x \in entries : x.client # client
  PROVE  IInv' /\ Counted
<1> DEFINE new == NewEntry(content, client)
<1>1. /\ entries' = entries \cup {new}
      /\ nextId' = nextId + 1
  BY DEF Insert
<1>2. /\ Shaped(new)
      /\ new.id = nextId
      /\ new.client = client
  BY DEF NewEntry, Shaped, IInv, Tables, NumberOK
<1>3. nextId \in Nat /\ \A x \in entries : x.id \in Nat /\ x.id < nextId
  BY DEF IInv, Tables, NumberOK, IdsUsed, Shaped
<1> HIDE DEF new
<1>4. Tables'
  BY <1>1, <1>2, <1>3 DEF IInv, Tables, NumberOK, IdsUsed, IdsUnique, Shaped
<1>5. DraftsOK' /\ DraftsFollow'
  <2>1. UNCHANGED draft
    OBVIOUS
  <2> QED
    BY <2>1, <1>1, <1>2, <1>3 DEF IInv, DraftsOK, DraftsFollow
<1>6. OneEntryPerClient'
  BY <1>1, <1>2 DEF IInv, OneEntryPerClient
<1>7. Counted
  BY <1>1, <1>2, <1>3 DEF Counted, IInv, Tables, IdsUnique
<1> QED
  BY <1>4, <1>5, <1>6, <1>7 DEF IInv

\* A step that keeps the entries, the counter and the drafts.
LEMMA QuietStep ==
  ASSUME IInv, UNCHANGED <<entries, nextId, draft>>
  PROVE  IInv' /\ Counted
  BY DEF IInv, Tables, NumberOK, IdsUsed, IdsUnique, DraftsOK, DraftsFollow,
         OneEntryPerClient, Counted

LEMMA OpenStep ==
  ASSUME IInv, NEW d \in Device, NEW x \in entries, Open(d, x)
  PROVE  IInv' /\ Counted
<1> DEFINE copy == [id |-> x.id, version |-> x.version, content |-> x.content]
<1>1. copy.id = x.id /\ copy.version = x.version /\ copy.content = x.content
  OBVIOUS
<1>2. /\ draft' = [draft EXCEPT ![d] = copy]
      /\ UNCHANGED <<entries, nextId>>
  BY DEF Open
<1>3. /\ x.id \in Nat /\ x.id < nextId
      /\ x.version \in Nat \ {0}
      /\ \A y \in entries : y.id = x.id => y = x
  BY DEF IInv, Tables, IdsUsed, IdsUnique, Shaped
<1> HIDE DEF copy
<1>4. DraftsOK' /\ \A e \in Device : draft'[e] = IF e = d THEN copy ELSE draft[e]
  BY <1>2 DEF IInv, DraftsOK
<1>5. DraftsFollow'
  BY <1>1, <1>2, <1>3, <1>4 DEF IInv, DraftsFollow
<1> QED
  BY <1>2, <1>4, <1>5 DEF IInv, Tables, NumberOK, IdsUsed, IdsUnique,
                          OneEntryPerClient, Counted

LEMMA EditedShape ==
  ASSUME NEW x, Shaped(x), NEW content
  PROVE  /\ Shaped(Edited(x, content))
         /\ Edited(x, content).id = x.id
         /\ Edited(x, content).client = x.client
         /\ Edited(x, content).version = x.version + 1
<1>1. ASSUME NEW V, NEW C, NEW K, NEW r \in [id : Nat, version : V, content : C, client : K],
             NEW w
      PROVE  LET e == [r EXCEPT !.content = content, !.version = w]
             IN /\ e \in [id : Nat, version : {w}, content : {content}, client : K]
                /\ e.id = r.id /\ e.content = content
                /\ e.client = r.client /\ e.version = w
  OBVIOUS
<1>2. x.version + 1 \in Nat \ {0}
  BY DEF Shaped
<1> QED
  BY <1>1, <1>2 DEF Shaped, Edited

\* An edit takes the place of the entry it matched.
LEMMA UpdateStep ==
  ASSUME IInv, NEW d \in Device, NEW content, Update(d, content)
  PROVE  IInv' /\ Counted
<1>1. /\ draft' = [draft EXCEPT ![d] = NoDraft]
      /\ UNCHANGED nextId
  BY DEF Update
<1>2. DraftsOK' /\ \A e \in Device : draft'[e] = IF e = d THEN NoDraft ELSE draft[e]
  BY <1>1 DEF IInv, DraftsOK
<1>3. CASE UNCHANGED entries
  <2>1. DraftsFollow'
    BY <1>1, <1>2, <1>3 DEF IInv, DraftsFollow
  <2> QED
    BY <1>1, <1>2, <1>3, <2>1 DEF IInv, Tables, NumberOK, IdsUsed, IdsUnique,
                                  OneEntryPerClient, Counted
<1>4. ASSUME NEW x \in entries, entries' = (entries \ {x}) \cup {Edited(x, content)}
      PROVE  IInv' /\ Counted
  <2> DEFINE new == Edited(x, content)
  <2>1. Shaped(x) /\ x.id < nextId
    BY DEF IInv, Tables, IdsUsed
  <2>2. /\ Shaped(new)
        /\ new.id = x.id
        /\ new.client = x.client
        /\ new.version = x.version + 1
    BY <2>1, EditedShape
  <2>3. entries' = (entries \ {x}) \cup {new}
    BY <1>4
  <2> HIDE DEF new
  <2>4. Tables'
    BY <1>1, <2>1, <2>2, <2>3 DEF IInv, Tables, NumberOK, IdsUsed, IdsUnique
  <2>5. DraftsFollow'
    <3> SUFFICES ASSUME NEW e \in Device, draft'[e] # NoDraft
                 PROVE  /\ draft'[e].id \in Nat /\ draft'[e].id < nextId'
                        /\ draft'[e].version \in Nat \ {0}
                        /\ \A y \in entries' : y.id = draft'[e].id =>
                             /\ draft'[e].version <= y.version
                             /\ draft'[e].version = y.version
                                  => draft'[e].content = y.content
      BY DEF DraftsFollow
    <3>1. draft'[e] = draft[e] /\ draft[e] # NoDraft
      BY <1>2
    <3>2. /\ draft[e].id \in Nat /\ draft[e].id < nextId
          /\ draft[e].version \in Nat \ {0}
          /\ \A y \in entries : y.id = draft[e].id =>
               /\ draft[e].version <= y.version
               /\ draft[e].version = y.version => draft[e].content = y.content
      BY <3>1 DEF IInv, DraftsFollow
    <3>3. x.version \in Nat
      BY <2>1 DEF Shaped
    <3> QED
      BY <1>1, <2>2, <2>3, <3>1, <3>2, <3>3
  <2>6. OneEntryPerClient'
    BY <2>2, <2>3 DEF IInv, OneEntryPerClient
  <2>7. Counted
    BY <2>2, <2>3 DEF Counted, IInv, Tables, IdsUnique
  <2> QED
    BY <1>2, <2>4, <2>5, <2>6, <2>7 DEF IInv
<1> QED
  BY <1>3, <1>4 DEF Update

LEMMA DeleteStep ==
  ASSUME IInv, NEW x \in entries, Delete(x)
  PROVE  IInv' /\ Counted
<1>1. entries' = entries \ {x} /\ UNCHANGED <<nextId, draft>>
  BY DEF Delete
<1> QED
  BY <1>1 DEF IInv, Tables, NumberOK, IdsUsed, IdsUnique, DraftsOK, DraftsFollow,
              OneEntryPerClient, Counted

\* The invariant is inductive, and no step changes an entry that stays
\* without counting a version.
LEMMA StepIInv == IInv /\ [Next]_vars => IInv' /\ Counted
<1> SUFFICES ASSUME IInv, [Next]_vars
             PROVE  IInv' /\ Counted
  OBVIOUS
<1>1. ASSUME NEW k \in Kind, NEW a \in Amount, CreateOnline([kind |-> k, amount |-> a])
      PROVE  IInv' /\ Counted
  BY <1>1, InsertStep DEF CreateOnline
<1>2. ASSUME NEW c \in Client, CreateOffline(c)
      PROVE  IInv' /\ Counted
  <2>1. UNCHANGED draft
    BY <1>2 DEF CreateOffline
  <2>2. CASE UNCHANGED <<entries, nextId>>
    BY <2>1, <2>2, QuietStep
  <2>3. CASE Insert(Payload[c], c) /\ \A x \in entries : x.client # c
    BY <2>1, <2>3, InsertStep
  <2> QED
    BY <1>2, <2>2, <2>3 DEF CreateOffline, Create, Refused, UpsertClient
<1>9. ASSUME NEW c \in Client, SaveOnline(c)
      PROVE  IInv' /\ Counted
  <2>1. UNCHANGED draft
    BY <1>9 DEF SaveOnline
  <2>2. CASE UNCHANGED <<entries, nextId>>
    BY <2>1, <2>2, QuietStep
  <2>3. CASE Insert(Payload[c], c) /\ \A x \in entries : x.client # c
    BY <2>1, <2>3, InsertStep
  <2> QED
    BY <1>9, <2>2, <2>3 DEF SaveOnline, Create, Refused, UpsertClient
<1>3. ASSUME NEW d \in Device, NEW x \in entries, Open(d, x)
      PROVE  IInv' /\ Counted
  BY <1>3, OpenStep
<1>4. ASSUME NEW d \in Device, NEW k \in Kind, NEW a \in Amount,
             Update(d, [kind |-> k, amount |-> a])
      PROVE  IInv' /\ Counted
  BY <1>4, UpdateStep
<1>5. ASSUME NEW x \in entries, Delete(x)
      PROVE  IInv' /\ Counted
  BY <1>5, DeleteStep
<1>6. ASSUME NEW s \in Settler, SettleRead(s)
      PROVE  IInv' /\ Counted
  BY <1>6, QuietStep DEF SettleRead
<1>7. ASSUME NEW s \in Settler, SettleInsert(s)
      PROVE  IInv' /\ Counted
  <2>1. UNCHANGED draft
    BY <1>7 DEF SettleInsert
  <2>2. CASE Insert(Opposite(settle[s].balance), NoClient)
    BY <2>1, <2>2, InsertStep
  <2>3. CASE UNCHANGED <<entries, nextId>>
    BY <2>1, <2>3, QuietStep
  <2> QED
    BY <1>7, <2>2, <2>3 DEF SettleInsert
<1>8. CASE UNCHANGED vars
  BY <1>8, QuietStep DEF vars
<1> QED
  BY <1>1, <1>2, <1>3, <1>4, <1>5, <1>6, <1>7, <1>8, <1>9 DEF Next

LEMMA Invariant == Spec => []IInv
  BY InitIInv, StepIInv, PTL DEF Spec

-----------------------------------------------------------------------------

\* A client_id is stored at most once, whatever is replayed, edited, deleted or
\* settled in between.
THEOREM ClientsStoredOnce == Spec => []OneEntryPerClient
<1>1. IInv => OneEntryPerClient
  BY DEF IInv
<1> QED
  BY <1>1, Invariant, PTL

\* No replay and no settlement undoes an edit: an entry changes only together
\* with its version.
THEOREM ChangesAreCounted == Spec => ContentChangesWithVersion
<1>1. IInv /\ [Next]_vars =>
        [\A x \in entries, y \in entries' :
           x.id = y.id => y = x \/ y.version = x.version + 1]_entries
  BY StepIInv DEF Counted
<1> QED
  BY <1>1, Invariant, PTL DEF Spec, ContentChangesWithVersion

\* "WHERE version = ?" is enough on the ledger: an edit that is accepted
\* replaces the content its author had open.
THEOREM EditsSawTheEntry == Spec => EditSawTheEntry
<1> DEFINE Saw == \A d \in Device :
       draft[d] # NoDraft /\ draft'[d] = NoDraft /\ entries' # entries =>
         \E x \in entries : x.id = draft[d].id /\ x.content = draft[d].content
<1>1. IInv /\ [Next]_vars => [Saw]_vars
  <2> SUFFICES ASSUME IInv, Next, NEW d \in Device,
                      draft[d] # NoDraft, draft'[d] = NoDraft, entries' # entries
               PROVE  \E x \in entries :
                        x.id = draft[d].id /\ x.content = draft[d].content
    OBVIOUS
  <2>1. PICK e \in Device, k \in Kind, a \in Amount :
          Update(e, [kind |-> k, amount |-> a])
    BY DEF Next, CreateOnline, SaveOnline, CreateOffline, Open, Delete, SettleRead, SettleInsert
  <2>2. e = d
    BY <2>1 DEF Update, IInv, DraftsOK
  <2>3. PICK version \in SentVersions(d), x \in entries : Matches(d, x, version)
    BY <2>1, <2>2 DEF Update
  <2>4. x.id = draft[d].id /\ x.version = draft[d].version
    <3>1. x.version # 0
      BY DEF IInv, Tables, IdsUsed, Shaped
    <3> QED
      BY <2>3, <3>1 DEF Matches, SentVersions
  <2> QED
    BY <2>4 DEF IInv, DraftsFollow
<1> QED
  BY <1>1, Invariant, PTL DEF Spec, EditSawTheEntry

-----------------------------------------------------------------------------
(* The balance is a sum.  Balance adds up the rows in the order of a       *)
(* CHOOSE; what follows proves that the order makes no difference.         *)

Pick(S) == CHOOSE x \in S : TRUE

AddsUp(g, S) ==
  g = [u \in SUBSET S |-> IF u = {} THEN 0 ELSE Signed(Pick(u)) + g[u \ {Pick(u)}]]

Sums(S) == CHOOSE g : AddsUp(g, S)

LEMMA BalanceIsSums ==
  ASSUME NEW S
  PROVE  Balance(S) = Sums(S)[S]
  BY DEF Balance, MapThenSumSet, MapThenFoldSet, Pick, Sums, AddsUp

LEMMA PickIsElement ==
  ASSUME NEW S, S # {}
  PROVE  Pick(S) \in S
  BY DEF Pick

\* Induction over the subsets of a finite set: of those with a property, one
\* has no proper subset with it.
LEMMA SmallestSubset ==
  ASSUME NEW S, IsFiniteSet(S), NEW C, C \subseteq SUBSET S, C # {}
  PROVE  \E u \in C : \A v \in C : v \subseteq u => v = u
<1>1. FiniteSubsetsOf(S) = SUBSET S
  BY FS_FiniteSubsetsOfFinite
<1>2. IsWellFoundedOn(StrictSubsetOrdering(S), SUBSET S)
  BY <1>1, FS_StrictSubsetOrderingWellFounded
<1>3. PICK u \in C : \A v \in C : <<v, u>> \notin StrictSubsetOrdering(S)
  BY <1>2, WFMin
<1>4. \A v \in C : <<v, u>> \in (SUBSET S) \X (SUBSET S)
  OBVIOUS
<1> QED
  BY <1>3, <1>4 DEF StrictSubsetOrdering

LEMMA SumsAgree ==
  ASSUME NEW S, IsFiniteSet(S), NEW T, NEW g, NEW h, AddsUp(g, S), AddsUp(h, T)
  PROVE  \A u \in (SUBSET S) \cap (SUBSET T) : g[u] = h[u]
<1> DEFINE C == {u \in (SUBSET S) \cap (SUBSET T) : g[u] # h[u]}
<1> SUFFICES ASSUME C # {} PROVE FALSE
  OBVIOUS
<1>1. PICK u \in C : \A v \in C : v \subseteq u => v = u
  <2>1. C \subseteq SUBSET S
    OBVIOUS
  <2> HIDE DEF C
  <2> QED
    BY <2>1, SmallestSubset
<1>2. u # {}
  BY <1>1 DEF AddsUp
<1>3. Pick(u) \in u
  BY <1>2, PickIsElement
<1>4. u \ {Pick(u)} \notin C
  BY <1>1, <1>3
<1>5. g[u \ {Pick(u)}] = h[u \ {Pick(u)}]
  BY <1>1, <1>4
<1>6. g[u] = Signed(Pick(u)) + g[u \ {Pick(u)}]
  BY <1>1, <1>2 DEF AddsUp
<1>7. h[u] = Signed(Pick(u)) + h[u \ {Pick(u)}]
  BY <1>1, <1>2 DEF AddsUp
<1> QED
  BY <1>1, <1>5, <1>6, <1>7

LEMMA SumsExist ==
  ASSUME NEW S, IsFiniteSet(S)
  PROVE  AddsUp(Sums(S), S)
<1> DEFINE Has(u) == \E g : AddsUp(g, u)
           C == {u \in SUBSET S : ~Has(u)}
<1>1. ASSUME NEW u \in SUBSET S, Has(u) PROVE AddsUp(Sums(u), u)
  BY <1>1 DEF Sums
<1>2. C = {}
  <2> SUFFICES ASSUME C # {} PROVE FALSE
    OBVIOUS
  <2>1. PICK u \in C : \A v \in C : v \subseteq u => v = u
    <3>1. C \subseteq SUBSET S
      OBVIOUS
    <3> HIDE DEF C
    <3> QED
      BY <3>1, SmallestSubset
  <2>2. \A v \in SUBSET u : v # u => AddsUp(Sums(v), v)
    <3> SUFFICES ASSUME NEW v \in SUBSET u, v # u PROVE AddsUp(Sums(v), v)
      OBVIOUS
    <3>1. v \in SUBSET S /\ v \notin C
      BY <2>1
    <3> QED
      BY <1>1, <3>1
  <2> DEFINE g == [v \in SUBSET u |->
                     IF v = {} THEN 0
                     ELSE Signed(Pick(v)) + Sums(v \ {Pick(v)})[v \ {Pick(v)}]]
  <2>3. ASSUME NEW w \in SUBSET u, w # u PROVE g[w] = Sums(w)[w]
    <3>1. CASE w = {}
      BY <2>2, <2>3, <3>1 DEF AddsUp
    <3>2. CASE w # {}
      <4> DEFINE r == w \ {Pick(w)}
      <4>1. r \in SUBSET u /\ r # u /\ r \in SUBSET w
        BY <2>3, <3>2, PickIsElement
      <4>2. Sums(w)[w] = Signed(Pick(w)) + Sums(w)[r]
        BY <2>2, <2>3, <3>2 DEF AddsUp
      <4>3. IsFiniteSet(w)
        BY <2>1, FS_Subset
      <4>4. Sums(w)[r] = Sums(r)[r]
        BY <2>2, <2>3, <4>1, <4>3, SumsAgree
      <4>5. g[w] = Signed(Pick(w)) + Sums(r)[r]
        BY <3>2
      <4> QED
        BY <4>2, <4>4, <4>5
    <3> QED
      BY <3>1, <3>2
  <2>4. \A v \in SUBSET u : v # {} =>
          Sums(v \ {Pick(v)})[v \ {Pick(v)}] = g[v \ {Pick(v)}]
    <3> HIDE DEF g
    <3> SUFFICES ASSUME NEW v \in SUBSET u, v # {}
                 PROVE  v \ {Pick(v)} \in SUBSET u /\ v \ {Pick(v)} # u
      BY <2>3
    <3> QED
      BY PickIsElement
  <2>5. AddsUp(g, u)
    BY <2>4 DEF AddsUp
  <2> QED
    BY <2>1, <2>5
<1>3. Has(S)
  BY <1>2
<1> QED
  BY <1>1, <1>3

\* The recursion that defines the balance.
LEMMA BalanceByPick ==
  ASSUME NEW S, IsFiniteSet(S)
  PROVE  /\ S = {} => Balance(S) = 0
         /\ S # {} => Balance(S) = Signed(Pick(S)) + Balance(S \ {Pick(S)})
<1>1. AddsUp(Sums(S), S)
  BY SumsExist
<1>2. CASE S = {}
  BY <1>1, <1>2, BalanceIsSums DEF AddsUp
<1>3. CASE S # {}
  <2> DEFINE r == S \ {Pick(S)}
  <2>1. Sums(S)[S] = Signed(Pick(S)) + Sums(S)[r]
    BY <1>1, <1>3 DEF AddsUp
  <2>2. AddsUp(Sums(r), r)
    BY FS_Subset, SumsExist
  <2>3. Sums(S)[r] = Sums(r)[r]
    BY <1>1, <2>2, SumsAgree
  <2> QED
    BY <1>3, <2>1, <2>3, BalanceIsSums
<1> QED
  BY <1>2, <1>3

LEMMA BalanceType ==
  ASSUME NEW S, IsFiniteSet(S), \A x \in S : Signed(x) \in Int
  PROVE  Balance(S) \in Int
<1> DEFINE C == {u \in SUBSET S : Balance(u) \notin Int}
<1> SUFFICES ASSUME C # {} PROVE FALSE
  OBVIOUS
<1>1. PICK u \in C : \A v \in C : v \subseteq u => v = u
  <2>1. C \subseteq SUBSET S
    OBVIOUS
  <2> HIDE DEF C
  <2> QED
    BY <2>1, SmallestSubset
<1>2. /\ u = {} => Balance(u) = 0
      /\ u # {} => Balance(u) = Signed(Pick(u)) + Balance(u \ {Pick(u)})
  BY <1>1, FS_Subset, BalanceByPick
<1>3. u # {} /\ Pick(u) \in u /\ Pick(u) \in S
  BY <1>1, <1>2, PickIsElement
<1>4. Balance(u \ {Pick(u)}) \in Int
  BY <1>1, <1>3
<1> QED
  BY <1>1, <1>2, <1>3, <1>4

\* Whichever row is taken out first, the balance is its amount and the rest.
LEMMA BalanceByAny ==
  ASSUME NEW S, IsFiniteSet(S), \A x \in S : Signed(x) \in Int, NEW x \in S
  PROVE  Balance(S) = Signed(x) + Balance(S \ {x})
<1> DEFINE C == {u \in SUBSET S : \E y \in u : Balance(u) # Signed(y) + Balance(u \ {y})}
<1> SUFFICES ASSUME C # {} PROVE FALSE
  OBVIOUS
<1>1. PICK u \in C : \A v \in C : v \subseteq u => v = u
  <2>1. C \subseteq SUBSET S
    OBVIOUS
  <2> HIDE DEF C
  <2> QED
    BY <2>1, SmallestSubset
<1>2. PICK y \in u : Balance(u) # Signed(y) + Balance(u \ {y})
  BY <1>1
<1> DEFINE p == Pick(u)
<1>3. p \in u /\ p # y
  <2>1. u # {} /\ IsFiniteSet(u)
    BY <1>1, FS_Subset
  <2> QED
    BY <1>2, <2>1, PickIsElement, BalanceByPick
<1>4. Balance(u) = Signed(p) + Balance(u \ {p})
  BY <1>1, <1>3, FS_Subset, BalanceByPick
<1> HIDE DEF p
<1>5. u \ {p} \notin C /\ u \ {y} \notin C
  BY <1>1, <1>3
<1>6. Balance(u \ {p}) = Signed(y) + Balance((u \ {p}) \ {y})
  BY <1>1, <1>3, <1>5
<1>7. Balance(u \ {y}) = Signed(p) + Balance((u \ {y}) \ {p})
  BY <1>1, <1>3, <1>5
<1>8. (u \ {p}) \ {y} = (u \ {y}) \ {p}
  OBVIOUS
<1>9. Balance((u \ {p}) \ {y}) \in Int
  BY <1>1, FS_Subset, BalanceType
<1>10. Signed(y) \in Int /\ Signed(p) \in Int
  BY <1>1, <1>3
<1>11. PICK r : r = Balance((u \ {p}) \ {y})
  OBVIOUS
<1>12. \A a, b \in Int : a + (b + r) = b + (a + r)
  BY <1>9, <1>11
<1>13. Signed(p) + (Signed(y) + r) = Signed(y) + (Signed(p) + r)
  BY <1>10, <1>12
<1>14. Balance(u) = Signed(p) + (Signed(y) + r)
  BY <1>4, <1>6, <1>11
<1>15. Balance(u \ {y}) = Signed(p) + r
  BY <1>7, <1>8, <1>11
<1> QED
  BY <1>2, <1>13, <1>14, <1>15

-----------------------------------------------------------------------------
(* Types: an induction of its own, since only finitely many rows have a    *)
(* balance.                                                                *)

Typed == TypeOK /\ IsFiniteSet(entries)

LEMMA InitTyped == Init => Typed
<1> SUFFICES ASSUME Init PROVE Typed
  OBVIOUS
<1>1. /\ entries \subseteq Entry /\ IsFiniteSet(entries)
      /\ nextId \in 1..(MaxEntries + 1)
      /\ sync \in [Client -> {"new", "online", "unsure", "refused", "done"}]
      /\ draft \in [Device -> Draft \cup {NoDraft}]
  BY LedgerAssumption, FS_EmptySet DEF Init
<1>2. settle \in [Settler -> Settlement]
  BY DEF Init, Settlement
<1> QED
  BY <1>1, <1>2 DEF Typed, TypeOK

LEMMA InsertTyped ==
  ASSUME Typed, NEW content \in Content, NEW client \in Client \cup {NoClient},
         Insert(content, client)
  PROVE  /\ entries' \subseteq Entry /\ IsFiniteSet(entries')
         /\ nextId' \in 1..(MaxEntries + 1)
<1>1. nextId \in Id /\ 1 \in 1..MaxVersion
  BY LedgerAssumption DEF Typed, TypeOK, Insert, Id
<1>2. NewEntry(content, client) \in Entry
  BY <1>1 DEF NewEntry, Entry
<1> QED
  BY <1>1, <1>2, LedgerAssumption, FS_AddElement DEF Typed, TypeOK, Insert, Id

LEMMA UpdateTyped ==
  ASSUME Typed, NEW d \in Device, NEW content \in Content, Update(d, content)
  PROVE  Typed'
<1>1. draft' \in [Device -> Draft \cup {NoDraft}]
  BY DEF Update, Typed, TypeOK
<1>2. entries' \subseteq Entry /\ IsFiniteSet(entries')
  <2>1. CASE UNCHANGED entries
    BY <2>1 DEF Typed, TypeOK
  <2>2. ASSUME NEW x \in entries, x.version < MaxVersion,
               entries' = (entries \ {x}) \cup {Edited(x, content)}
        PROVE  entries' \subseteq Entry /\ IsFiniteSet(entries')
    <3>1. x \in Entry /\ x.version + 1 \in 1..MaxVersion
      <4>1. x \in Entry
        BY DEF Typed, TypeOK
      <4>2. x.version \in 1..MaxVersion
        BY <4>1 DEF Entry
      <4> QED
        BY <2>2, <4>1, <4>2, LedgerAssumption
    <3>2. Edited(x, content) \in Entry
      BY <3>1 DEF Edited, Entry
    <3>3. IsFiniteSet(entries \ {x})
      BY FS_RemoveElement DEF Typed
    <3> QED
      BY <2>2, <3>2, <3>3, FS_AddElement DEF Typed, TypeOK
  <2> QED
    BY <2>1, <2>2 DEF Update
<1> QED
  BY <1>1, <1>2 DEF Typed, TypeOK, Update

LEMMA OpenTyped ==
  ASSUME Typed, NEW d \in Device, NEW x \in entries, Open(d, x)
  PROVE  Typed'
<1>1. [id |-> x.id, version |-> x.version, content |-> x.content] \in Draft
  <2>1. x \in Entry
    BY DEF Typed, TypeOK
  <2> QED
    BY <2>1 DEF Entry, Draft
<1> QED
  BY <1>1 DEF Open, Typed, TypeOK

LEMMA BalanceTyped == Typed => Balance(entries) \in Int
<1> SUFFICES ASSUME Typed, NEW x \in entries PROVE Signed(x) \in Int
  BY BalanceType DEF Typed
<1>1. x \in Entry
  BY DEF Typed, TypeOK
<1>2. x.content.amount \in Int
  BY <1>1 DEF Entry, Content
<1> QED
  BY <1>2 DEF Signed

LEMMA SettleReadTyped ==
  ASSUME Typed, NEW s \in Settler, SettleRead(s)
  PROVE  Typed'
<1>1. [phase |-> "reading", balance |-> Balance(entries), before |-> Settled] \in Settlement
  BY BalanceTyped DEF Settlement, Settled
<1> QED
  BY <1>1 DEF SettleRead, Typed, TypeOK

\* The opposite of a balance is a content, and its signed amount cancels it.
LEMMA OppositeCancels ==
  ASSUME NEW b \in Int, b # 0
  PROVE  /\ Opposite(b) \in Content /\ Opposite(b).amount > 0
         /\ \A x : x.content = Opposite(b) => Signed(x) = -b
<1>1. CASE b > 0
  <2>1. Opposite(b) = [kind |-> "udhaar", amount |-> b]
    BY <1>1 DEF Opposite
  <2> QED
    BY <1>1, <2>1 DEF Content, Kind, Signed
<1>2. CASE ~(b > 0)
  <2>1. Opposite(b) = [kind |-> "jama", amount |-> -b]
    BY <1>2 DEF Opposite
  <2>2. -b \in Nat \ {0}
    BY <1>2
  <2> QED
    BY <2>1, <2>2 DEF Content, Kind, Signed
<1> QED
  BY <1>1, <1>2

LEMMA SettleInsertTyped ==
  ASSUME Typed, NEW s \in Settler, SettleInsert(s)
  PROVE  Typed'
<1>1. settle[s] \in Settlement
  BY DEF Typed, TypeOK
<1>2. ASSUME NEW end \in {"done", "nothing"},
             settle' = [settle EXCEPT ![s] = [@ EXCEPT !.phase = end]]
      PROVE  settle' \in [Settler -> Settlement]
  <2>1. [settle[s] EXCEPT !.phase = end] \in Settlement
    BY <1>1 DEF Settlement
  <2> QED
    BY <1>2, <2>1 DEF Typed, TypeOK
<1>3. /\ entries' \subseteq Entry /\ IsFiniteSet(entries')
      /\ nextId' \in 1..(MaxEntries + 1)
  <2>1. CASE UNCHANGED <<entries, nextId>>
    BY <2>1 DEF Typed, TypeOK
  <2>2. CASE settle[s].balance # 0 /\ Insert(Opposite(settle[s].balance), NoClient)
    <3>1. settle[s].balance \in Int
      BY <1>1 DEF Settlement
    <3>2. Opposite(settle[s].balance) \in Content
      BY <2>2, <3>1, OppositeCancels
    <3> QED
      BY <2>2, <3>2, InsertTyped
  <2> QED
    BY <2>1, <2>2 DEF SettleInsert
<1> QED
  BY <1>2, <1>3 DEF SettleInsert, Typed, TypeOK

LEMMA StepTyped == Typed /\ [Next]_vars => Typed'
<1> SUFFICES ASSUME Typed, [Next]_vars PROVE Typed'
  OBVIOUS
<1>1. ASSUME NEW k \in Kind, NEW a \in Amount PROVE [kind |-> k, amount |-> a] \in Content
  BY LedgerAssumption DEF Content
<1>2. ASSUME NEW k \in Kind, NEW a \in Amount, CreateOnline([kind |-> k, amount |-> a])
      PROVE  Typed'
  BY <1>1, <1>2, InsertTyped DEF CreateOnline, Typed, TypeOK
<1>3. ASSUME NEW c \in Client, CreateOffline(c) PROVE Typed'
  <2>1. sync' \in [Client -> {"new", "online", "unsure", "refused", "done"}]
    BY <1>3 DEF CreateOffline, Typed, TypeOK
  <2>2. Payload[c] \in Content
    BY LedgerAssumption DEF Content
  <2>3. UNCHANGED <<entries, nextId>> \/ Insert(Payload[c], c)
    BY <1>3 DEF CreateOffline, Create, Refused, UpsertClient
  <2>4. /\ entries' \subseteq Entry /\ IsFiniteSet(entries')
        /\ nextId' \in 1..(MaxEntries + 1)
    BY <2>2, <2>3, InsertTyped DEF Typed, TypeOK
  <2> QED
    BY <1>3, <2>1, <2>4 DEF CreateOffline, Typed, TypeOK
<1>7. ASSUME NEW c \in Client, SaveOnline(c) PROVE Typed'
  <2>1. sync' \in [Client -> {"new", "online", "unsure", "refused", "done"}]
    BY <1>7 DEF SaveOnline, Typed, TypeOK
  <2>2. Payload[c] \in Content
    BY LedgerAssumption DEF Content
  <2>3. UNCHANGED <<entries, nextId>> \/ Insert(Payload[c], c)
    BY <1>7 DEF SaveOnline, Create, Refused, UpsertClient
  <2>4. /\ entries' \subseteq Entry /\ IsFiniteSet(entries')
        /\ nextId' \in 1..(MaxEntries + 1)
    BY <2>2, <2>3, InsertTyped DEF Typed, TypeOK
  <2> QED
    BY <1>7, <2>1, <2>4 DEF SaveOnline, Typed, TypeOK
<1>4. ASSUME NEW d \in Device, NEW k \in Kind, NEW a \in Amount,
             Update(d, [kind |-> k, amount |-> a])
      PROVE  Typed'
  BY <1>1, <1>4, UpdateTyped
<1>5. ASSUME NEW x \in entries, Delete(x) PROVE Typed'
  BY <1>5, FS_RemoveElement DEF Delete, Typed, TypeOK
<1>6. CASE UNCHANGED vars
  BY <1>6 DEF vars, Typed, TypeOK
<1> QED
  BY <1>2, <1>3, <1>4, <1>5, <1>6, <1>7, OpenTyped, SettleReadTyped, SettleInsertTyped DEF Next

LEMMA TypedInvariant == Spec => []Typed
  BY InitTyped, StepTyped, PTL DEF Spec

\* The rows stay rows of the table, whatever is replayed, edited and settled.
THEOREM TypeCorrect == Spec => []TypeOK
<1>1. Typed => TypeOK
  BY DEF Typed
<1> QED
  BY <1>1, TypedInvariant, PTL

\* A settlement that read what is still the balance leaves zero and inserts a
\* positive amount, however many rows there are and whatever their signs.
THEOREM SettledIsZero == Spec => SettlementClears
<1> DEFINE Clears == \A s \in Settler :
       /\ settle[s].phase = "reading" /\ settle'[s].phase # "reading"
       /\ settle[s].balance = Balance(entries)
       => /\ Balance(entries') = 0
          /\ \A x \in entries' \ entries : x.content.amount > 0
<1>1. IInv /\ Typed /\ Typed' /\ [Next]_vars => [Clears]_vars
  <2> SUFFICES ASSUME IInv, Typed, Typed', Next, NEW s \in Settler,
                      settle[s].phase = "reading", settle'[s].phase # "reading",
                      settle[s].balance = Balance(entries)
               PROVE  /\ Balance(entries') = 0
                      /\ \A x \in entries' \ entries : x.content.amount > 0
    OBVIOUS
  <2>1. SettleInsert(s)
    <3>1. ASSUME NEW t \in Settler, SettleRead(t) PROVE FALSE
      BY <3>1 DEF SettleRead, Typed, TypeOK
    <3>2. PICK t \in Settler : SettleInsert(t)
      BY <3>1 DEF Next, CreateOnline, SaveOnline, CreateOffline, Open, Update, Delete
    <3>3. t = s
      BY <3>2 DEF SettleInsert, Typed, TypeOK
    <3> QED
      BY <3>2, <3>3
  <2>2. PICK b : b = Balance(entries)
    OBVIOUS
  <2>3. b \in Int
    BY <2>2, BalanceTyped
  <2>4. CASE b = 0
    BY <2>1, <2>2, <2>4 DEF SettleInsert
  <2>5. CASE b # 0
    <3>1. PICK new : new = NewEntry(Opposite(b), NoClient)
      OBVIOUS
    <3>2. entries' = entries \cup {new}
      BY <2>1, <2>2, <2>5, <3>1 DEF SettleInsert, Insert
    <3>3. new \notin entries
      BY <3>1 DEF NewEntry, IInv, Tables, IdsUsed, NumberOK, Shaped
    <3>4. Signed(new) = -b
      BY <2>3, <2>5, <3>1, OppositeCancels DEF NewEntry
    <3>5. entries' \ {new} = entries
      BY <3>2, <3>3
    <3>6. \A x \in entries' : Signed(x) \in Int
      <4> SUFFICES ASSUME NEW x \in entries' PROVE Signed(x) \in Int
        OBVIOUS
      <4>1. x \in Entry
        BY DEF Typed, TypeOK
      <4>2. x.content.amount \in Int
        BY <4>1 DEF Entry, Content
      <4> QED
        BY <4>2 DEF Signed
    <3>7. Balance(entries') = Signed(new) + Balance(entries)
      <4>1. IsFiniteSet(entries') /\ new \in entries'
        BY <3>2 DEF Typed
      <4> QED
        BY <3>5, <3>6, <4>1, BalanceByAny
    <3>8. \A x \in entries' \ entries : x.content.amount > 0
      BY <2>3, <2>5, <3>1, <3>2, OppositeCancels DEF NewEntry
    <3> QED
      BY <2>2, <2>3, <3>4, <3>7, <3>8
  <2> QED
    BY <2>4, <2>5
<1>2. Typed /\ [Next]_vars => Typed'
  BY StepTyped
<1> QED
  BY <1>1, <1>2, Invariant, TypedInvariant, PTL DEF Spec, SettlementClears
=============================================================================
