-------------------------- MODULE OfflineSyncProofs --------------------------
(***************************************************************************)
(* For any number of saves and flushes, and files of any length: flushes   *)
(* take turns, and while calls run one at a time and every read returns    *)
(* what the file holds, nothing saved is lost.                             *)
(***************************************************************************)
EXTENDS OfflineSync, SequenceTheorems, TLAPS

-----------------------------------------------------------------------------
(* The elements of a sequence                                              *)

LEMMA ElementsOf ==
  ASSUME NEW S, NEW s \in Seq(S)
  PROVE  ToSet(s) \subseteq S /\ ToSet(<< >>) = {}
  BY DEF ToSet

LEMMA ElementsOfAppend ==
  ASSUME NEW S, NEW s \in Seq(S), NEW e \in S
  PROVE  /\ Append(s, e) \in Seq(S)
         /\ ToSet(Append(s, e)) = ToSet(s) \cup {e}
         /\ IsInjective(s) /\ e \notin ToSet(s) => IsInjective(Append(s, e))
<1> DEFINE t == Append(s, e)
<1>1. /\ t \in Seq(S) /\ Len(t) = Len(s) + 1
      /\ \A i \in 1..Len(s) : t[i] = s[i]
      /\ t[Len(s) + 1] = e
  BY AppendProperties
<1>2. DOMAIN s = 1..Len(s) /\ DOMAIN t = 1..(Len(s) + 1) /\ Len(s) \in Nat
  BY <1>1, LenProperties
<1> HIDE DEF t
<1>3. ToSet(t) = ToSet(s) \cup {e}
  <2>1. \A y \in ToSet(t) : y \in ToSet(s) \cup {e}
    <3> SUFFICES ASSUME NEW i \in DOMAIN t PROVE t[i] \in ToSet(s) \cup {e}
      BY DEF ToSet
    <3>1. i \in 1..Len(s) \/ i = Len(s) + 1
      BY <1>2
    <3> QED
      BY <1>1, <1>2, <3>1 DEF ToSet
  <2>2. \A i \in DOMAIN s : s[i] \in ToSet(t)
    <3> SUFFICES ASSUME NEW i \in DOMAIN s PROVE s[i] = t[i] /\ i \in DOMAIN t
      BY DEF ToSet
    <3> QED
      BY <1>1, <1>2
  <2>3. e \in ToSet(t)
    <3>1. Len(s) + 1 \in DOMAIN t
      BY <1>2
    <3> QED
      BY <1>1, <3>1 DEF ToSet
  <2> QED
    BY <2>1, <2>2, <2>3 DEF ToSet
<1>4. ASSUME IsInjective(s), e \notin ToSet(s) PROVE IsInjective(t)
  <2> SUFFICES ASSUME NEW i \in DOMAIN t, NEW j \in DOMAIN t, t[i] = t[j] PROVE i = j
    BY DEF IsInjective
  <2>1. \A k \in DOMAIN s : s[k] # e
    BY <1>4 DEF ToSet
  <2>2. \A k \in DOMAIN t : k \in DOMAIN s \/ k = Len(s) + 1
    BY <1>2
  <2>3. \A k \in DOMAIN s : t[k] = s[k]
    BY <1>1, <1>2
  <2> QED
    BY <1>1, <1>4, <2>1, <2>2, <2>3 DEF IsInjective
<1> QED
  BY <1>1, <1>3, <1>4 DEF t

LEMMA ElementsOfTail ==
  ASSUME NEW S, NEW s \in Seq(S), s # << >>
  PROVE  /\ Head(s) \in S /\ Tail(s) \in Seq(S)
         /\ ToSet(s) = {Head(s)} \cup ToSet(Tail(s))
         /\ IsInjective(s) => IsInjective(Tail(s)) /\ Head(s) \notin ToSet(Tail(s))
<1> DEFINE t == Tail(s)
<1>1. /\ t \in Seq(S) /\ Len(t) = Len(s) - 1 /\ Head(s) \in S
      /\ \A i \in 1..Len(t) : t[i] = s[i + 1]
  BY HeadTailProperties
<1>2. /\ DOMAIN s = 1..Len(s) /\ DOMAIN t = 1..(Len(s) - 1)
      /\ Len(s) \in Nat /\ Len(s) > 0
  BY <1>1, LenProperties, EmptySeq
<1>3. Head(s) = s[1]
  OBVIOUS
<1> HIDE DEF t
<1>4. \A i \in DOMAIN t : i + 1 \in DOMAIN s /\ t[i] = s[i + 1]
  BY <1>1, <1>2
<1>5. \A i \in DOMAIN s : i # 1 => i - 1 \in DOMAIN t /\ t[i - 1] = s[i]
  <2> SUFFICES ASSUME NEW i \in 1..Len(s), i # 1
               PROVE  i - 1 \in DOMAIN t /\ t[i - 1] = s[i]
    BY <1>2
  <2>1. i - 1 \in 1..(Len(s) - 1) /\ (i - 1) + 1 = i
    BY <1>2
  <2> QED
    BY <1>2, <1>4, <2>1
<1>6. 1 \in DOMAIN s
  BY <1>2
<1>7. ToSet(s) = {Head(s)} \cup ToSet(t)
  BY <1>3, <1>4, <1>5, <1>6 DEF ToSet
<1>8. ASSUME IsInjective(s) PROVE IsInjective(t) /\ Head(s) \notin ToSet(t)
  <2>1. IsInjective(t)
    <3> SUFFICES ASSUME NEW i \in DOMAIN t, NEW j \in DOMAIN t, t[i] = t[j] PROVE i = j
      BY DEF IsInjective
    <3>1. i + 1 = j + 1
      BY <1>4, <1>8 DEF IsInjective
    <3> QED
      BY <1>2, <3>1
  <2>2. ASSUME NEW i \in DOMAIN t, t[i] = Head(s) PROVE FALSE
    <3>1. i + 1 = 1
      BY <1>3, <1>4, <1>6, <1>8, <2>2 DEF IsInjective
    <3> QED
      BY <1>2, <3>1
  <2> QED
    BY <2>1, <2>2 DEF ToSet
<1> QED
  BY <1>1, <1>7, <1>8 DEF t

-----------------------------------------------------------------------------
(* The inductive invariant *)

Typed ==
  /\ file \in Seq(Item)
  /\ task \in [Caller -> Task]
  /\ saved \subseteq Item
  /\ accepted \subseteq Item
  /\ trouble \in {"none", "overlap", "misread", "stopped"}
  /\ \A x \in Caller : task[x].at = "rewrite" => task[x].todo # << >>

\* The flush that runs is the head of the chain.
Chain ==
  /\ tail \in Seq(Flush) /\ IsInjective(tail)
  /\ ToSet(tail) = {f \in Flush : task[f].at # "idle"}
  /\ \A f \in Flush : Running(f) => f = Head(tail)

\* What x must not lose, and where it is meanwhile.
Owed(x) == saved \cup (Item \cap {x})

Carried(x) ==
  /\ task[x].at = "pushing" =>
       Owed(x) \subseteq accepted \cup ToSet(task[x].todo) \cup ToSet(task[x].keep)
  /\ task[x].at = "clearing" => Owed(x) \subseteq accepted \cup ToSet(task[x].todo)
  /\ task[x].at \in {"append", "rewrite"} =>
       Owed(x) \subseteq accepted \cup ToSet(file) \cup ToSet(task[x].todo)
  /\ task[x].at = "rewrite" => task[x].image = file

Calm ==
  trouble = "none" =>
    /\ \A x, y \in Caller : Running(x) /\ Running(y) => x = y
    /\ \A x \in Caller : Carried(x)
    /\ SavedAreKept

Inv == Typed /\ Chain /\ Calm

LEMMA InitInv == Init => Inv
<1> SUFFICES ASSUME Init PROVE Inv
  OBVIOUS
<1>1. \A x \in Caller : task[x] = Idle
  BY DEF Init
<1>2. << >> \in Seq(Item) /\ << >> \in Seq(Flush)
  OBVIOUS
<1>3. Idle \in Task /\ Idle.at = "idle"
  BY <1>2 DEF Idle, Task, Steps
<1>4. Typed
  BY <1>1, <1>2, <1>3 DEF Init, Typed
<1>5. Chain
  <2>1. ToSet(<< >>) = {} /\ IsInjective(<< >>)
    BY DEF ToSet, IsInjective
  <2> QED
    BY <1>1, <1>2, <1>3, <2>1 DEF Init, Chain, Running, Caller
<1>6. Calm
  BY <1>1, <1>3 DEF Init, Calm, Carried, Running, SavedAreKept
<1> QED
  BY <1>4, <1>5, <1>6 DEF Inv

LEMMA OneGoes ==
  ASSUME Typed, NEW x \in Caller, NEW t \in Task, Goes(x, t)
  PROVE  /\ task' \in [Caller -> Task]
         /\ \A y \in Caller : task'[y] = IF y = x THEN t ELSE task[y]
  BY DEF Typed, Goes

At(t) == t.at \notin {"idle", "waiting", "over"}

\* A step that leaves the chain alone.
LEMMA ChainKept ==
  ASSUME Inv, NEW x \in Caller, NEW t \in Task, Goes(x, t), UNCHANGED tail,
         x \in Flush => /\ t.at = "idle" <=> task[x].at = "idle"
                        /\ At(t) => x = Head(tail)
  PROVE  Chain'
<1>1. \A y \in Caller : task'[y] = IF y = x THEN t ELSE task[y]
  BY OneGoes DEF Inv
<1> QED
  BY <1>1 DEF Inv, Chain, Running, At, Caller

\* A running call goes on, or ends; it is the only one while all is calm.
LEMMA CalmGoesOn ==
  ASSUME Inv, NEW x \in Caller, NEW t \in Task, Goes(x, t), Running(x),
         trouble' = "none" => trouble = "none",
         trouble' = "none" => Carried(x)',
         trouble' = "none" /\ ~At(t) => saved' \subseteq accepted' \cup ToSet(file')
  PROVE  Calm'
<1>1. \A y \in Caller : task'[y] = IF y = x THEN t ELSE task[y]
  BY OneGoes DEF Inv
<1>2. SUFFICES ASSUME trouble = "none", trouble' = "none"
               PROVE  /\ \A y, z \in Caller : Running(y)' /\ Running(z)' => y = z
                      /\ \A y \in Caller : Carried(y)'
                      /\ SavedAreKept'
  BY DEF Calm
<1>3. \A y \in Caller : y # x => ~Running(y) /\ task'[y] = task[y]
  BY <1>1, <1>2 DEF Inv, Calm
<1>4. \A y, z \in Caller : Running(y)' /\ Running(z)' => y = z
  BY <1>3 DEF Running
<1>5. \A y \in Caller : Carried(y)'
  BY <1>2, <1>3 DEF Carried, Running
<1>6. SavedAreKept'
  BY <1>1, <1>2 DEF SavedAreKept, Running, At
<1> QED
  BY <1>4, <1>5, <1>6

\* A call that begins is alone and has read the file, or notes that it is not so.
LEMMA AloneUnlessNoted ==
  ASSUME NEW x \in Caller, ~Running(x), NEW items, Begins(x, items), trouble' = "none"
  PROVE  trouble = "none" /\ items = file /\ \A y \in Caller : ~Running(y)
  BY DEF Begins, Noted

LEMMA CalmBegins ==
  ASSUME Inv, NEW x \in Caller, NEW t \in Task, Goes(x, t), ~Running(x), At(t),
         trouble' = "none" => trouble = "none" /\ \A y \in Caller : ~Running(y),
         trouble' = "none" /\ saved \subseteq accepted \cup ToSet(file) => Carried(x)'
  PROVE  Calm'
<1>1. \A y \in Caller : task'[y] = IF y = x THEN t ELSE task[y]
  BY OneGoes DEF Inv
<1>2. SUFFICES ASSUME trouble' = "none"
               PROVE  /\ \A y, z \in Caller : Running(y)' /\ Running(z)' => y = z
                      /\ \A y \in Caller : Carried(y)'
                      /\ SavedAreKept'
  BY DEF Calm
<1>3. trouble = "none" /\ \A y \in Caller : ~Running(y)
  BY <1>2
<1>4. saved \subseteq accepted \cup ToSet(file)
  BY <1>3 DEF Inv, Calm, SavedAreKept
<1>5. \A y, z \in Caller : Running(y)' /\ Running(z)' => y = z
  BY <1>1, <1>3 DEF Running
<1>6. \A y \in Caller : Carried(y)'
  BY <1>1, <1>2, <1>3, <1>4 DEF Carried, Running
<1>7. SavedAreKept'
  BY <1>1 DEF SavedAreKept, Running, At
<1> QED
  BY <1>5, <1>6, <1>7

LEMMA IdleTask == Idle \in Task /\ Idle.at = "idle" /\ Idle.keep = << >> /\ Idle.todo = << >>
<1>1. << >> \in Seq(Item)
  OBVIOUS
<1> QED
  BY <1>1 DEF Idle, Task, Steps

LEMMA ReadingsType ==
  ASSUME Typed, NEW items \in Readings
  PROVE  items \in Seq(Item)
  BY EmptySeq DEF Typed, Readings

LEMMA EnqueueStep ==
  ASSUME Inv, NEW i \in Item, Enqueue(i)
  PROVE  Inv'
<1>1. i \in Caller /\ i \notin Flush /\ file \in Seq(Item)
  BY CallersAssumption DEF Caller, Inv, Typed
<1>0. PICK items \in Readings :
        /\ Begins(i, items)
        /\ Goes(i, [Idle EXCEPT !.at = "clearing", !.todo = Append(items, i)])
  BY DEF Enqueue
<1>2. PICK t : t = [Idle EXCEPT !.at = "clearing", !.todo = Append(items, i)]
  OBVIOUS
<1>3. /\ Append(items, i) \in Seq(Item)
      /\ ToSet(Append(items, i)) = ToSet(items) \cup {i}
  BY <1>1, ReadingsType, ElementsOfAppend DEF Inv
<1>4. t \in Task /\ t.at = "clearing" /\ t.todo = Append(items, i)
  BY <1>2, <1>3, IdleTask DEF Task, Steps
<1>5. /\ Goes(i, t) /\ ~Running(i) /\ Begins(i, items)
      /\ UNCHANGED <<file, tail, saved, accepted>>
  BY <1>0, <1>2 DEF Enqueue, Running
<1>6. \A y \in Caller : task'[y] = IF y = i THEN t ELSE task[y]
  BY <1>1, <1>4, <1>5, OneGoes DEF Inv
<1>7. Typed'
  BY <1>1, <1>4, <1>5, <1>6, OneGoes DEF Inv, Typed, Begins, Noted
<1>8. Chain'
  BY <1>1, <1>4, <1>5, ChainKept
<1>9. ASSUME trouble' = "none"
      PROVE  trouble = "none" /\ items = file /\ \A y \in Caller : ~Running(y)
  BY <1>1, <1>5, <1>9, AloneUnlessNoted
<1>10. trouble' = "none" /\ saved \subseteq accepted \cup ToSet(file) => Carried(i)'
  BY <1>1, <1>3, <1>4, <1>5, <1>6, <1>9 DEF Carried, Owed
<1>11. Calm'
  BY <1>1, <1>4, <1>5, <1>9, <1>10, CalmBegins DEF At
<1> QED
  BY <1>7, <1>8, <1>11 DEF Inv

LEMMA CallFlushStep ==
  ASSUME Inv, NEW f \in Flush, CallFlush(f)
  PROVE  Inv'
<1>1. f \in Caller
  BY DEF Caller
<1>2. PICK t : t = [Idle EXCEPT !.at = "waiting"]
  OBVIOUS
<1>3. t \in Task /\ t.at = "waiting"
  BY <1>2, IdleTask DEF Task, Steps
<1>4. /\ task[f].at = "idle" /\ Goes(f, t) /\ tail' = Append(tail, f)
      /\ UNCHANGED <<file, saved, accepted, trouble>>
  BY <1>2 DEF CallFlush
<1>5. \A y \in Caller : task'[y] = IF y = f THEN t ELSE task[y]
  BY <1>1, <1>3, <1>4, OneGoes DEF Inv
<1>6. Typed'
  BY <1>1, <1>3, <1>4, <1>5, OneGoes DEF Inv, Typed
<1>7. /\ tail \in Seq(Flush) /\ f \notin ToSet(tail) /\ IsInjective(tail)
  BY <1>4 DEF Inv, Chain
<1>8. /\ tail' \in Seq(Flush) /\ IsInjective(tail')
      /\ ToSet(tail') = ToSet(tail) \cup {f}
  BY <1>4, <1>7, ElementsOfAppend
<1>9. ASSUME NEW g \in Flush, Running(g)' PROVE g = Head(tail')
  <2>1. Running(g) /\ g = Head(tail)
    BY <1>3, <1>5, <1>9 DEF Running, Inv, Chain, Caller
  <2>2. g \in ToSet(tail)
    BY <2>1 DEF Running, Inv, Chain
  <2>3. tail # << >>
    BY <2>2 DEF ToSet
  <2> QED
    BY <1>4, <1>7, <2>1, <2>3, HeadTailAppend
<1>10. ToSet(tail') = {g \in Flush : task'[g].at # "idle"}
  BY <1>3, <1>5, <1>8 DEF Inv, Chain, Caller
<1>11. Chain'
  BY <1>8, <1>9, <1>10 DEF Chain
<1>12. \A y \in Caller : Running(y)' = Running(y) /\ (Running(y) => task'[y] = task[y])
  BY <1>3, <1>4, <1>5 DEF Running
<1>13. Calm'
  <2> SUFFICES ASSUME trouble = "none"
               PROVE  /\ \A y, z \in Caller : Running(y)' /\ Running(z)' => y = z
                      /\ \A y \in Caller : Carried(y)'
                      /\ SavedAreKept'
    BY <1>4 DEF Calm
  <2>1. \A y, z \in Caller : Running(y)' /\ Running(z)' => y = z
    BY <1>12 DEF Inv, Calm
  <2>2. \A y \in Caller : Carried(y)'
    BY <1>3, <1>4, <1>5 DEF Inv, Calm, Carried, Owed
  <2>3. SavedAreKept'
    BY <1>4, <1>12 DEF Inv, Calm, SavedAreKept
  <2> QED
    BY <2>1, <2>2, <2>3
<1> QED
  BY <1>6, <1>11, <1>13 DEF Inv

LEMMA BeginFlushStep ==
  ASSUME Inv, NEW f \in Flush, BeginFlush(f)
  PROVE  Inv'
<1>1. f \in Caller /\ f \notin Item /\ file \in Seq(Item)
  BY CallersAssumption DEF Caller, Inv, Typed
<1>0. PICK items \in Readings :
        /\ Begins(f, items)
        /\ Goes(f, [Idle EXCEPT !.at = "pushing", !.todo = items])
  BY DEF BeginFlush
<1>2. PICK t : t = [Idle EXCEPT !.at = "pushing", !.todo = items]
  OBVIOUS
<1>3. t \in Task /\ t.at = "pushing" /\ t.todo = items
  BY <1>1, <1>2, ReadingsType, IdleTask DEF Inv, Task, Steps
<1>4. /\ task[f].at = "waiting" /\ Goes(f, t) /\ ~Running(f) /\ Begins(f, items)
      /\ f = Head(tail)
      /\ UNCHANGED <<file, tail, saved, accepted>>
  BY <1>0, <1>2 DEF BeginFlush, Running
<1>5. \A y \in Caller : task'[y] = IF y = f THEN t ELSE task[y]
  BY <1>1, <1>3, <1>4, OneGoes DEF Inv
<1>6. Typed'
  BY <1>1, <1>3, <1>4, <1>5, OneGoes DEF Inv, Typed, Begins, Noted
<1>7. Chain'
  BY <1>1, <1>3, <1>4, ChainKept
<1>8. ASSUME trouble' = "none"
      PROVE  trouble = "none" /\ items = file /\ \A y \in Caller : ~Running(y)
  BY <1>1, <1>4, <1>8, AloneUnlessNoted
<1>9. trouble' = "none" /\ saved \subseteq accepted \cup ToSet(file) => Carried(f)'
  BY <1>1, <1>3, <1>4, <1>5, <1>8 DEF Carried, Owed
<1>10. Calm'
  BY <1>1, <1>3, <1>4, <1>8, <1>9, CalmBegins DEF At
<1> QED
  BY <1>6, <1>7, <1>10 DEF Inv

\* Whether it failed or not, what is pushed is accepted or kept.
LEMMA PushSucceedsStep ==
  ASSUME Inv, NEW f \in Flush, PushSucceeds(f)
  PROVE  Inv'
<1>1. f \in Caller /\ f \notin Item /\ task[f] \in Task
  BY CallersAssumption DEF Caller, Inv, Typed
<1>2. PICK k : k = task[f]
  OBVIOUS
<1>3. PICK t : t = [k EXCEPT !.todo = Tail(@)]
  OBVIOUS
<1>4. k \in Task /\ k.at = "pushing" /\ k.todo \in Seq(Item) /\ k.todo # << >>
  BY <1>1, <1>2 DEF PushSucceeds, Task
<1>5. /\ Head(k.todo) \in Item /\ Tail(k.todo) \in Seq(Item)
      /\ ToSet(k.todo) = {Head(k.todo)} \cup ToSet(Tail(k.todo))
  BY <1>4, ElementsOfTail
<1>6. t \in Task /\ t.at = "pushing" /\ t.todo = Tail(k.todo) /\ t.keep = k.keep
  BY <1>3, <1>4, <1>5 DEF Task, Steps
<1>7. /\ Goes(f, t) /\ accepted' = accepted \cup {Head(k.todo)} /\ Running(f)
      /\ UNCHANGED <<file, tail, saved, trouble>>
  BY <1>2, <1>3, <1>4 DEF PushSucceeds, Running
<1>8. \A y \in Caller : task'[y] = IF y = f THEN t ELSE task[y]
  BY <1>1, <1>6, <1>7, OneGoes DEF Inv
<1>9. Typed'
  BY <1>1, <1>5, <1>6, <1>7, <1>8, OneGoes DEF Inv, Typed
<1>10. Chain'
  BY <1>1, <1>2, <1>4, <1>6, <1>7, ChainKept DEF Inv, Chain, Running
<1>11. trouble = "none" => Carried(f)'
  BY <1>1, <1>2, <1>4, <1>5, <1>6, <1>7, <1>8 DEF Inv, Calm, Carried, Owed
<1>12. Calm'
  BY <1>1, <1>6, <1>7, <1>11, CalmGoesOn DEF At
<1> QED
  BY <1>9, <1>10, <1>12 DEF Inv

LEMMA PushFailsStep ==
  ASSUME Inv, NEW f \in Flush, PushFails(f)
  PROVE  Inv'
<1>1. f \in Caller /\ f \notin Item /\ task[f] \in Task
  BY CallersAssumption DEF Caller, Inv, Typed
<1>2. PICK k : k = task[f]
  OBVIOUS
<1>3. PICK t : t = [k EXCEPT !.todo = Tail(@), !.keep = Append(@, Head(k.todo))]
  OBVIOUS
<1>4. /\ k \in Task /\ k.at = "pushing" /\ k.todo \in Seq(Item) /\ k.todo # << >>
      /\ k.keep \in Seq(Item)
  BY <1>1, <1>2 DEF PushFails, Task
<1>5. /\ Head(k.todo) \in Item /\ Tail(k.todo) \in Seq(Item)
      /\ ToSet(k.todo) = {Head(k.todo)} \cup ToSet(Tail(k.todo))
  BY <1>4, ElementsOfTail
<1>6. /\ Append(k.keep, Head(k.todo)) \in Seq(Item)
      /\ ToSet(Append(k.keep, Head(k.todo))) = ToSet(k.keep) \cup {Head(k.todo)}
  BY <1>4, <1>5, ElementsOfAppend
<1>7. /\ t \in Task /\ t.at = "pushing" /\ t.todo = Tail(k.todo)
      /\ t.keep = Append(k.keep, Head(k.todo))
  BY <1>3, <1>4, <1>5, <1>6 DEF Task, Steps
<1>8. /\ Goes(f, t) /\ Running(f)
      /\ accepted' = accepted \/ accepted' = accepted \cup {Head(k.todo)}
      /\ UNCHANGED <<file, tail, saved, trouble>>
  BY <1>2, <1>3, <1>4 DEF PushFails, Running
<1>9. \A y \in Caller : task'[y] = IF y = f THEN t ELSE task[y]
  BY <1>1, <1>7, <1>8, OneGoes DEF Inv
<1>10. Typed'
  BY <1>1, <1>5, <1>7, <1>8, <1>9, OneGoes DEF Inv, Typed
<1>11. Chain'
  BY <1>1, <1>2, <1>4, <1>7, <1>8, ChainKept DEF Inv, Chain, Running
<1>12. trouble = "none" => Carried(f)'
  BY <1>1, <1>2, <1>4, <1>5, <1>6, <1>7, <1>8, <1>9 DEF Inv, Calm, Carried, Owed
<1>13. Calm'
  BY <1>1, <1>7, <1>8, <1>12, CalmGoesOn DEF At
<1> QED
  BY <1>10, <1>11, <1>13 DEF Inv

LEMMA WriteBackStep ==
  ASSUME Inv, NEW f \in Flush, WriteBack(f)
  PROVE  Inv'
<1>1. f \in Caller /\ f \notin Item /\ task[f] \in Task
  BY CallersAssumption DEF Caller, Inv, Typed
<1>2. PICK k : k = task[f]
  OBVIOUS
<1>3. PICK t : t = [Idle EXCEPT !.at = "clearing", !.todo = k.keep]
  OBVIOUS
<1>4. k \in Task /\ k.at = "pushing" /\ k.todo = << >> /\ k.keep \in Seq(Item)
  BY <1>1, <1>2 DEF WriteBack, Task
<1>5. t \in Task /\ t.at = "clearing" /\ t.todo = k.keep
  BY <1>3, <1>4, IdleTask DEF Task, Steps
<1>6. Goes(f, t) /\ Running(f) /\ UNCHANGED <<file, tail, saved, accepted, trouble>>
  BY <1>2, <1>3, <1>4 DEF WriteBack, Running
<1>7. \A y \in Caller : task'[y] = IF y = f THEN t ELSE task[y]
  BY <1>1, <1>5, <1>6, OneGoes DEF Inv
<1>8. Typed'
  BY <1>1, <1>5, <1>6, <1>7, OneGoes DEF Inv, Typed
<1>9. Chain'
  BY <1>1, <1>2, <1>4, <1>5, <1>6, ChainKept DEF Inv, Chain, Running
<1>10. trouble = "none" => Carried(f)'
  <2>1. ToSet(<< >>) = {}
    BY DEF ToSet
  <2> QED
    BY <1>1, <1>2, <1>4, <1>5, <1>6, <1>7, <2>1 DEF Inv, Calm, Carried, Owed
<1>11. Calm'
  BY <1>1, <1>5, <1>6, <1>10, CalmGoesOn DEF At
<1> QED
  BY <1>8, <1>9, <1>11 DEF Inv

-----------------------------------------------------------------------------
(* The write at the end of a save and of a flush *)

LEMMA ClearStep ==
  ASSUME Inv, NEW x \in Caller, Clear(x)
  PROVE  Inv'
<1>1. PICK k, t : k = task[x] /\ t = [k EXCEPT !.at = "append"]
  OBVIOUS
<1>2. k \in Task /\ k.at = "clearing"
  BY <1>1 DEF Clear, Inv, Typed
<1>3. t \in Task /\ t.at = "append" /\ t.todo = k.todo
  BY <1>1, <1>2 DEF Task, Steps
<1>4. Goes(x, t) /\ Running(x) /\ file' = << >> /\ UNCHANGED <<tail, saved, accepted, trouble>>
  BY <1>1, <1>2 DEF Clear, Running
<1>5. \A y \in Caller : task'[y] = IF y = x THEN t ELSE task[y]
  BY <1>3, <1>4, OneGoes DEF Inv
<1>6. Typed'
  BY <1>3, <1>4, <1>5, OneGoes, EmptySeq DEF Inv, Typed
<1>7. Chain'
  BY <1>1, <1>2, <1>3, <1>4, ChainKept DEF Inv, Chain, Running
<1>8. trouble = "none" => Carried(x)'
  BY <1>1, <1>2, <1>3, <1>4, <1>5 DEF Inv, Calm, Carried, Owed
<1>9. Calm'
  BY <1>3, <1>4, <1>8, CalmGoesOn DEF At
<1> QED
  BY <1>6, <1>7, <1>9 DEF Inv

LEMMA ReadForAppendStep ==
  ASSUME Inv, NEW x \in Caller, ReadForAppend(x)
  PROVE  Inv'
<1>0. PICK k, items : /\ k = task[x] /\ items \in Readings
                      /\ trouble' = Noted(trouble, items)
                      /\ Goes(x, [k EXCEPT !.at = "rewrite", !.image = items])
  BY DEF ReadForAppend
<1>1. PICK t : t = [k EXCEPT !.at = "rewrite", !.image = items]
  OBVIOUS
<1>2. /\ k \in Task /\ k.at = "append" /\ k.todo # << >>
      /\ file \in Seq(Item) /\ items \in Seq(Item)
  BY <1>0, ReadingsType DEF ReadForAppend, Inv, Typed
<1>3. t \in Task /\ t.at = "rewrite" /\ t.todo = k.todo /\ t.image = items
  BY <1>1, <1>2 DEF Task, Steps
<1>4. Goes(x, t) /\ Running(x) /\ UNCHANGED <<file, tail, saved, accepted>>
  BY <1>0, <1>1, <1>2 DEF ReadForAppend, Running
<1>10. /\ trouble' = "none" => trouble = "none" /\ items = file
       /\ trouble' \in {"none", "overlap", "misread", "stopped"}
  BY <1>0 DEF Noted, Inv, Typed
<1>5. \A y \in Caller : task'[y] = IF y = x THEN t ELSE task[y]
  BY <1>3, <1>4, OneGoes DEF Inv
<1>6. Typed'
  BY <1>2, <1>3, <1>4, <1>5, <1>10, OneGoes DEF Inv, Typed
<1>7. Chain'
  BY <1>0, <1>2, <1>3, <1>4, ChainKept DEF Inv, Chain, Running
<1>8. trouble' = "none" => Carried(x)'
  BY <1>0, <1>2, <1>3, <1>4, <1>5, <1>10 DEF Inv, Calm, Carried, Owed
<1>9. Calm'
  BY <1>3, <1>4, <1>8, <1>10, CalmGoesOn DEF At
<1> QED
  BY <1>6, <1>7, <1>9 DEF Inv

LEMMA RewriteStep ==
  ASSUME Inv, NEW x \in Caller, Rewrite(x)
  PROVE  Inv'
<1>1. PICK k, t : k = task[x] /\ t = [Idle EXCEPT !.at = "append", !.todo = Tail(k.todo)]
  OBVIOUS
<1>2. /\ k \in Task /\ k.at = "rewrite" /\ k.todo # << >> /\ k.todo \in Seq(Item)
      /\ k.image \in Seq(Item)
  BY <1>1 DEF Rewrite, Inv, Typed, Task
<1>3. /\ Head(k.todo) \in Item /\ Tail(k.todo) \in Seq(Item)
      /\ ToSet(k.todo) = {Head(k.todo)} \cup ToSet(Tail(k.todo))
  BY <1>2, ElementsOfTail
<1>4. t \in Task /\ t.at = "append" /\ t.todo = Tail(k.todo)
  BY <1>1, <1>2, <1>3, IdleTask DEF Task, Steps
<1>5. /\ Goes(x, t) /\ Running(x) /\ file' = Append(k.image, Head(k.todo))
      /\ UNCHANGED <<tail, saved, accepted, trouble>>
  BY <1>1, <1>2 DEF Rewrite, Running
<1>6. file' \in Seq(Item) /\ ToSet(file') = ToSet(k.image) \cup {Head(k.todo)}
  BY <1>2, <1>3, <1>5, ElementsOfAppend
<1>7. \A y \in Caller : task'[y] = IF y = x THEN t ELSE task[y]
  BY <1>4, <1>5, OneGoes DEF Inv
<1>8. Typed'
  BY <1>4, <1>5, <1>6, <1>7, OneGoes DEF Inv, Typed
<1>9. Chain'
  BY <1>1, <1>2, <1>4, <1>5, ChainKept DEF Inv, Chain, Running
<1>10. trouble = "none" => Carried(x)'
  BY <1>1, <1>2, <1>3, <1>4, <1>5, <1>6, <1>7 DEF Inv, Calm, Carried, Owed
<1>11. Calm'
  BY <1>4, <1>5, <1>10, CalmGoesOn DEF At
<1> QED
  BY <1>8, <1>9, <1>11 DEF Inv

LEMMA EndEnqueueStep ==
  ASSUME Inv, NEW i \in Item, EndEnqueue(i)
  PROVE  Inv'
<1>1. i \in Caller /\ i \notin Flush
  BY CallersAssumption DEF Caller
<1>2. PICK k, t : k = task[i] /\ t = [Idle EXCEPT !.at = "over"]
  OBVIOUS
<1>3. k \in Task /\ k.at = "append" /\ k.todo = << >>
  BY <1>1, <1>2 DEF EndEnqueue, Inv, Typed
<1>4. t \in Task /\ t.at = "over"
  BY <1>2, IdleTask DEF Task, Steps
<1>5. /\ Goes(i, t) /\ Running(i) /\ saved' = saved \cup {i}
      /\ UNCHANGED <<file, tail, accepted, trouble>>
  BY <1>2, <1>3 DEF EndEnqueue, Running
<1>6. \A y \in Caller : task'[y] = IF y = i THEN t ELSE task[y]
  BY <1>1, <1>4, <1>5, OneGoes DEF Inv
<1>7. Typed'
  BY <1>1, <1>4, <1>5, <1>6, OneGoes DEF Inv, Typed
<1>8. Chain'
  BY <1>1, <1>4, <1>5, ChainKept
<1>9. trouble = "none" => saved' \subseteq accepted' \cup ToSet(file')
  <2>1. ToSet(<< >>) = {}
    BY DEF ToSet
  <2> QED
    BY <1>1, <1>2, <1>3, <1>5, <2>1 DEF Inv, Calm, Carried, Owed
<1>10. Carried(i)'
  BY <1>1, <1>4, <1>6 DEF Carried
<1>11. Calm'
  BY <1>1, <1>4, <1>5, <1>9, <1>10, CalmGoesOn
<1> QED
  BY <1>7, <1>8, <1>11 DEF Inv

\* A running flush leaves, and the chain loses its head.
LEMMA LeaveKeepsChain ==
  ASSUME Inv, NEW f \in Flush, Running(f), LeaveChain(f)
  PROVE  Chain' /\ Goes(f, Idle) /\ task' \in [Caller -> Task]
<1>1. f \in Caller /\ Goes(f, Idle) /\ tail' = Tail(tail)
  BY DEF Caller, LeaveChain
<1>2. /\ task' \in [Caller -> Task]
      /\ \A y \in Caller : task'[y] = IF y = f THEN Idle ELSE task[y]
  BY <1>1, IdleTask, OneGoes DEF Inv
<1>3. f = Head(tail) /\ f \in ToSet(tail) /\ tail \in Seq(Flush) /\ IsInjective(tail)
  BY DEF Inv, Chain, Running
<1>4. tail # << >>
  BY <1>3 DEF ToSet
<1>5. /\ tail' \in Seq(Flush) /\ IsInjective(tail')
      /\ ToSet(tail) = {f} \cup ToSet(tail') /\ f \notin ToSet(tail')
  BY <1>1, <1>3, <1>4, ElementsOfTail
<1>6. ToSet(tail') = {g \in Flush : task'[g].at # "idle"}
  BY <1>2, <1>5, IdleTask DEF Inv, Chain, Caller
<1>7. \A g \in Flush : ~Running(g)'
  BY <1>2, <1>3, IdleTask DEF Inv, Chain, Running, Caller
<1> QED
  BY <1>1, <1>2, <1>5, <1>6, <1>7 DEF Chain

LEMMA EndFlushStep ==
  ASSUME Inv, NEW f \in Flush, EndFlush(f)
  PROVE  Inv'
<1>1. /\ f \in Caller /\ f \notin Item /\ Running(f) /\ LeaveChain(f)
      /\ task[f].at = "append" /\ task[f].todo = << >>
      /\ UNCHANGED <<file, saved, accepted, trouble>>
  BY CallersAssumption DEF Caller, EndFlush, Running
<1>2. Chain' /\ Goes(f, Idle) /\ task' \in [Caller -> Task]
  BY <1>1, LeaveKeepsChain
<1>3. \A y \in Caller : task'[y] = IF y = f THEN Idle ELSE task[y]
  BY <1>1, <1>2, IdleTask, OneGoes DEF Inv
<1>4. Typed'
  BY <1>1, <1>2, <1>3, IdleTask DEF Inv, Typed
<1>5. trouble = "none" => saved' \subseteq accepted' \cup ToSet(file')
  <2>1. ToSet(<< >>) = {}
    BY DEF ToSet
  <2> QED
    BY <1>1, <2>1 DEF Inv, Calm, Carried, Owed
<1>6. Carried(f)'
  BY <1>1, <1>3, IdleTask DEF Carried
<1>7. Calm'
  BY <1>1, <1>2, <1>5, <1>6, IdleTask, CalmGoesOn
<1> QED
  BY <1>2, <1>4, <1>7 DEF Inv

-----------------------------------------------------------------------------
(* Errors and kills *)

LEMMA FlushThrowsStep ==
  ASSUME Inv, NEW f \in Flush, FlushThrows(f)
  PROVE  Inv'
<1>1. /\ f \in Caller /\ Running(f) /\ LeaveChain(f)
      /\ UNCHANGED <<saved, accepted>> /\ trouble' = "stopped" /\ file' \in Seq(Item)
  BY EmptySeq DEF Caller, FlushThrows, Running, Stops, Torn, Inv, Typed
<1>2. Chain' /\ Goes(f, Idle) /\ task' \in [Caller -> Task]
  BY <1>1, LeaveKeepsChain
<1>3. \A y \in Caller : task'[y] = IF y = f THEN Idle ELSE task[y]
  BY <1>1, <1>2, IdleTask, OneGoes DEF Inv
<1>4. Typed' /\ Calm'
  BY <1>1, <1>2, <1>3, IdleTask DEF Inv, Typed, Calm
<1> QED
  BY <1>2, <1>4 DEF Inv

LEMMA EnqueueThrowsStep ==
  ASSUME Inv, NEW i \in Item, EnqueueThrows(i)
  PROVE  Inv'
<1>1. i \in Caller /\ i \notin Flush
  BY CallersAssumption DEF Caller
<1>2. PICK k, t : k = task[i] /\ t = [Idle EXCEPT !.at = "over"]
  OBVIOUS
<1>3. k \in Task
  BY <1>1, <1>2 DEF Inv, Typed
<1>4. t \in Task /\ t.at = "over"
  BY <1>2, IdleTask DEF Task, Steps
<1>5. /\ Goes(i, t) /\ trouble' = "stopped" /\ UNCHANGED <<tail, saved, accepted>>
      /\ file' \in Seq(Item)
  BY <1>2, EmptySeq DEF EnqueueThrows, Stops, Torn, Inv, Typed
<1>6. \A y \in Caller : task'[y] = IF y = i THEN t ELSE task[y]
  BY <1>1, <1>4, <1>5, OneGoes DEF Inv
<1>7. Typed' /\ Calm'
  BY <1>1, <1>4, <1>5, <1>6, OneGoes DEF Inv, Typed, Calm
<1>8. Chain'
  BY <1>1, <1>4, <1>5, ChainKept
<1> QED
  BY <1>7, <1>8 DEF Inv

LEMMA KillStep ==
  ASSUME Inv, Kill
  PROVE  Inv'
<1>1. /\ file' = file \/ file' = << >>
      /\ tail' = << >> /\ trouble' = "stopped" /\ UNCHANGED <<saved, accepted>>
  BY DEF Kill, Stops, Torn
<1>2. PICK t : t = [Idle EXCEPT !.at = "over"]
  OBVIOUS
<1>3. t \in Task /\ t.at = "over"
  BY <1>2, IdleTask DEF Task, Steps
<1>4. task' = [x \in Caller |-> IF x \in Item /\ task[x].at # "idle" THEN t ELSE Idle]
  BY <1>2 DEF Kill
<1>5. Typed' /\ Calm'
  BY <1>1, <1>3, <1>4, IdleTask, EmptySeq DEF Inv, Typed, Calm
<1>6. \A f \in Flush : task'[f] = Idle
  BY <1>4, CallersAssumption DEF Caller
<1>7. ToSet(<< >>) = {} /\ IsInjective(<< >>) /\ << >> \in Seq(Flush)
  BY EmptySeq DEF ToSet, IsInjective
<1>8. Chain'
  BY <1>1, <1>6, <1>7, IdleTask DEF Chain, Running
<1> QED
  BY <1>5, <1>8 DEF Inv

-----------------------------------------------------------------------------

LEMMA StepInv == Inv /\ [Next]_vars => Inv'
<1> SUFFICES ASSUME Inv, [Next]_vars PROVE Inv'
  OBVIOUS
<1>1. CASE UNCHANGED vars
  BY <1>1 DEF vars, Inv, Typed, Chain, Calm, Carried, Owed, Running, SavedAreKept
<1>2. ASSUME NEW x \in Caller, Work(x) PROVE Inv'
  BY <1>2, ClearStep, ReadForAppendStep, RewriteStep DEF Work
<1>3. ASSUME NEW i \in Item, Save(i) PROVE Inv'
  BY <1>2, <1>3, EndEnqueueStep DEF Save, Caller
<1>4. ASSUME NEW f \in Flush, Sync(f) PROVE Inv'
  BY <1>2, <1>4, BeginFlushStep, PushSucceedsStep, PushFailsStep, WriteBackStep, EndFlushStep
     DEF Sync, Caller
<1> QED
  BY <1>1, <1>3, <1>4, EnqueueStep, CallFlushStep, FlushThrowsStep, EnqueueThrowsStep,
     KillStep DEF Next

LEMMA Invariant == Spec => []Inv
  BY InitInv, StepInv, PTL DEF Spec

\* The types, and that the chain holds each flush that was called, once.
THEOREM TypeCorrect == Spec => []TypeOK
<1>1. Inv => TypeOK
  BY DEF Inv, Typed, Chain, TypeOK
<1> QED
  BY <1>1, Invariant, PTL

\* However many flushes are called, and whichever of them throw: one at a time
\* pushes and writes.
THEOREM FlushesTakeTurns == Spec => []FlushesDoNotOverlap
<1>1. Inv => FlushesDoNotOverlap
  BY DEF Inv, Chain, FlushesDoNotOverlap
<1> QED
  BY <1>1, Invariant, PTL

\* While calls run one at a time, none is stopped and no read fails, no saved item
\* is lost, whatever the length of the file and whichever pushes fail.
THEOREM CalmSavesStay == Spec => []CalmSavesAreKept
<1>1. Inv => CalmSavesAreKept
  BY DEF Inv, Calm, CalmSavesAreKept
<1> QED
  BY <1>1, Invariant, PTL

-----------------------------------------------------------------------------
(* Progress of a call that runs *)

\* How many awaits a call has before it, at most.
Ahead(t) ==
  IF t.at = "pushing" THEN 3 * Len(t.todo) + 2 * Len(t.keep) + 3
  ELSE IF t.at = "clearing" THEN 2 * Len(t.todo) + 2
  ELSE IF t.at = "append" THEN 2 * Len(t.todo) + 1
  ELSE IF t.at = "rewrite" THEN 2 * Len(t.todo)
  ELSE 0

LEMMA Lengths ==
  ASSUME NEW s \in Seq(Item)
  PROVE  /\ Len(s) \in Nat
         /\ Len(s) = 0 <=> s = << >>
         /\ s # << >> => Len(s) \in Nat \ {0} /\ Len(Tail(s)) = Len(s) - 1
                         /\ Tail(s) \in Seq(Item) /\ Head(s) \in Item
         /\ \A e \in Item : Len(Append(s, e)) = Len(s) + 1 /\ Append(s, e) \in Seq(Item)
  BY LenProperties, EmptySeq, HeadTailProperties, AppendProperties

LEMMA RunningAhead ==
  ASSUME NEW t \in Task, At(t), t.at = "rewrite" => t.todo # << >>
  PROVE  Ahead(t) \in Nat \ {0}
<1>1. t.todo \in Seq(Item) /\ t.keep \in Seq(Item)
  BY DEF Task
<1>2. t.at \in {"pushing", "clearing", "append", "rewrite"}
  BY DEF Task, Steps, At
<1>3. PICK n, k : n = Len(t.todo) /\ k = Len(t.keep)
  OBVIOUS
<1>4. n \in Nat /\ k \in Nat /\ (t.at = "rewrite" => n # 0)
  BY <1>1, <1>3, Lengths
<1>5. 3 * n + 2 * k + 3 \in Nat \ {0} /\ 2 * n + 2 \in Nat \ {0} /\ 2 * n + 1 \in Nat \ {0}
      /\ (n # 0 => 2 * n \in Nat \ {0})
  BY <1>4
<1>6. Ahead(t) = IF t.at = "pushing" THEN 3 * n + 2 * k + 3
                 ELSE IF t.at = "clearing" THEN 2 * n + 2
                 ELSE IF t.at = "append" THEN 2 * n + 1
                 ELSE IF t.at = "rewrite" THEN 2 * n
                 ELSE 0
  BY <1>3 DEF Ahead
<1>7. CASE t.at = "pushing"
  BY <1>5, <1>6, <1>7
<1>8. CASE t.at = "clearing"
  BY <1>5, <1>6, <1>8
<1>9. CASE t.at = "append"
  BY <1>5, <1>6, <1>9
<1>10. CASE t.at = "rewrite"
  BY <1>4, <1>5, <1>6, <1>10
<1> QED
  BY <1>2, <1>7, <1>8, <1>9, <1>10

\* A flush pushes an item, or has none left to push and writes the rest.
LEMMA PushesComeToAnEnd ==
  ASSUME Inv, NEW f \in Flush, PushSucceeds(f) \/ PushFails(f) \/ WriteBack(f)
  PROVE  Ahead(task'[f]) \in Nat /\ Ahead(task'[f]) < Ahead(task[f])
<1>1. PICK r, w : r = task[f] /\ w = task'[f]
  OBVIOUS
<1>2. r \in Task /\ r.todo \in Seq(Item) /\ r.keep \in Seq(Item) /\ r.at = "pushing"
  BY <1>1 DEF Inv, Typed, Caller, Task, PushSucceeds, PushFails, WriteBack
<1>3. PICK n, k : n = Len(r.todo) /\ k = Len(r.keep)
  OBVIOUS
<1>4. n \in Nat /\ k \in Nat
  BY <1>2, <1>3, Lengths
<1>5. Ahead(r) = 3 * n + 2 * k + 3
  BY <1>2, <1>3 DEF Ahead
<1>6. CASE PushSucceeds(f) \/ PushFails(f)
  <2>1. /\ w.at = "pushing" /\ w.todo = Tail(r.todo) /\ r.todo # << >>
        /\ w.keep = r.keep \/ w.keep = Append(r.keep, Head(r.todo))
    <3>1. PICK e, b, l : e = Tail(r.todo) /\ b = Append(r.keep, Head(r.todo)) /\ l = r.keep
      OBVIOUS
    <3>2. w = [r EXCEPT !.todo = e] \/ w = [r EXCEPT !.todo = e, !.keep = b]
      BY <1>1, <1>6, <3>1 DEF PushSucceeds, PushFails, Goes, Inv, Typed, Caller
    <3>3. w.at = r.at /\ w.todo = e /\ (w.keep = l \/ w.keep = b)
      BY <1>2, <3>1, <3>2 DEF Task
    <3> QED
      BY <1>1, <1>2, <1>6, <3>1, <3>3 DEF PushSucceeds, PushFails
  <2>2. n # 0 /\ Len(w.todo) = n - 1 /\ Len(w.keep) \in {k, k + 1}
    BY <1>2, <1>3, <2>1, Lengths
  <2>3. PICK m : m = Len(w.keep)
    OBVIOUS
  <2>4. Ahead(w) = 3 * (n - 1) + 2 * m + 3
    BY <2>1, <2>2, <2>3 DEF Ahead
  <2>5. n - 1 \in Nat /\ m \in Nat /\ m <= k + 1
    BY <1>4, <2>2, <2>3
  <2>6. 3 * (n - 1) + 2 * m + 3 \in Nat /\ 3 * (n - 1) + 2 * m + 3 < 3 * n + 2 * k + 3
    BY <1>4, <2>5
  <2> QED
    BY <1>1, <1>5, <2>4, <2>6
<1>7. CASE WriteBack(f)
  <2>1. w.at = "clearing" /\ w.todo = r.keep
    <3>1. w = [Idle EXCEPT !.at = "clearing", !.todo = r.keep]
      BY <1>1, <1>7 DEF WriteBack, Goes, Inv, Typed, Caller
    <3> QED
      BY <1>2, <3>1, IdleTask DEF Task
  <2>2. Ahead(w) = 2 * k + 2
    BY <1>3, <2>1 DEF Ahead
  <2> QED
    BY <1>1, <1>4, <1>5, <2>2
<1> QED
  BY <1>6, <1>7

\* A list is written: the file is deleted, then each item takes two awaits.
LEMMA WritesComeToAnEnd ==
  ASSUME Inv, NEW x \in Caller, Work(x)
  PROVE  Ahead(task'[x]) \in Nat /\ Ahead(task'[x]) < Ahead(task[x])
<1>1. PICK r, w : r = task[x] /\ w = task'[x]
  OBVIOUS
<1>2. /\ r \in Task /\ r.todo \in Seq(Item)
      /\ r.at = "rewrite" => r.todo # << >>
  BY <1>1 DEF Inv, Typed, Task
<1>3. PICK n : n = Len(r.todo)
  OBVIOUS
<1>4. n \in Nat /\ (r.at = "rewrite" => n # 0)
  BY <1>2, <1>3, Lengths
<1>5. CASE Clear(x)
  <2>1. r.at = "clearing" /\ w = [r EXCEPT !.at = "append"]
    BY <1>1, <1>5 DEF Clear, Goes, Inv, Typed
  <2>2. w.at = "append" /\ w.todo = r.todo
    BY <1>2, <2>1 DEF Task
  <2>3. Ahead(r) = 2 * n + 2 /\ Ahead(w) = 2 * n + 1
    BY <1>3, <2>1, <2>2 DEF Ahead
  <2> QED
    BY <1>1, <1>4, <2>3
<1>6. CASE ReadForAppend(x)
  <2>1. PICK image : r.at = "append" /\ w = [r EXCEPT !.at = "rewrite", !.image = image]
    BY <1>1, <1>6 DEF ReadForAppend, Goes, Inv, Typed
  <2>2. w.at = "rewrite" /\ w.todo = r.todo
    BY <1>2, <2>1 DEF Task
  <2>3. Ahead(r) = 2 * n + 1 /\ Ahead(w) = 2 * n
    BY <1>3, <2>1, <2>2 DEF Ahead
  <2> QED
    BY <1>1, <1>4, <2>3
<1>7. CASE Rewrite(x)
  <2>1. PICK e : e = Tail(r.todo)
    OBVIOUS
  <2>2. r.at = "rewrite" /\ w = [Idle EXCEPT !.at = "append", !.todo = e]
    BY <1>1, <1>7, <2>1 DEF Rewrite, Goes, Inv, Typed
  <2>3. w.at = "append" /\ w.todo = e
    BY <2>2, IdleTask DEF Task
  <2>4. Len(e) = n - 1
    BY <1>2, <1>3, <2>1, <2>2, Lengths
  <2>5. Ahead(r) = 2 * n /\ Ahead(w) = 2 * (n - 1) + 1
    BY <1>3, <2>2, <2>3, <2>4 DEF Ahead
  <2> QED
    BY <1>1, <1>4, <2>2, <2>5
<1> QED
  BY <1>5, <1>6, <1>7 DEF Work

\* The safety half of EveryFlushEnds: a save or a flush that runs reads the file
\* once, and every await that completes, with success or not, leaves it fewer.
\* What other calls write to the file meanwhile does not keep it busy.
THEOREM CallsComeToAnEnd ==
  Spec => [][\A x \in Caller : Running(x) /\ task'[x] # task[x] =>
               /\ Ahead(task'[x]) \in Nat
               /\ Ahead(task'[x]) < Ahead(task[x])]_vars
<1> DEFINE Closer == \A x \in Caller : Running(x) /\ task'[x] # task[x] =>
                       /\ Ahead(task'[x]) \in Nat
                       /\ Ahead(task'[x]) < Ahead(task[x])
<1>1. Inv /\ [Next]_vars => [Closer]_vars
  <2> SUFFICES ASSUME Inv, [Next]_vars, NEW x \in Caller, Running(x), task'[x] # task[x]
               PROVE  Ahead(task'[x]) \in Nat /\ Ahead(task'[x]) < Ahead(task[x])
    OBVIOUS
  <2>1. Ahead(task[x]) \in Nat \ {0}
    BY RunningAhead DEF Inv, Typed, Running, At
  <2>2. ASSUME ~At(task'[x])
        PROVE  Ahead(task'[x]) \in Nat /\ Ahead(task'[x]) < Ahead(task[x])
    <3>1. PICK w : w = task'[x]
      OBVIOUS
    <3>2. Ahead(w) = 0
      BY <2>2, <3>1 DEF At, Ahead
    <3> QED
      BY <2>1, <3>1, <3>2
  <2>3. ASSUME NEW y \in Caller, NEW t, Goes(y, t) PROVE y = x /\ task'[x] = t
    BY <2>3 DEF Goes, Inv, Typed
  <2>4. ASSUME NEW y \in Caller, Work(y) PROVE y = x
    BY <2>3, <2>4 DEF Work, Clear, ReadForAppend, Rewrite
  <2>5. ASSUME NEW i \in Item, Enqueue(i) \/ EndEnqueue(i) \/ EnqueueThrows(i)
        PROVE  ~At(task'[x])
    <3>1. i = x
      BY <2>3, <2>5 DEF Enqueue, EndEnqueue, EnqueueThrows, Caller
    <3>2. ~Enqueue(i)
      BY <3>1 DEF Enqueue, Running
    <3>3. task'[x] = [Idle EXCEPT !.at = "over"]
      BY <2>3, <2>5, <3>1, <3>2 DEF EndEnqueue, EnqueueThrows
    <3> QED
      BY <3>3, IdleTask DEF At, Task
  <2>6. ASSUME NEW f \in Flush, CallFlush(f) \/ BeginFlush(f) PROVE FALSE
    BY <2>3, <2>6 DEF CallFlush, BeginFlush, Running, Caller
  <2>7. ASSUME NEW f \in Flush, EndFlush(f) \/ FlushThrows(f) PROVE ~At(task'[x])
    BY <2>3, <2>7, IdleTask DEF EndFlush, FlushThrows, LeaveChain, At, Caller
  <2>8. ASSUME NEW f \in Flush, PushSucceeds(f) \/ PushFails(f) \/ WriteBack(f) PROVE f = x
    BY <2>3, <2>8 DEF PushSucceeds, PushFails, WriteBack, Caller
  <2>9. ASSUME Kill PROVE ~At(task'[x])
    <3>1. task'[x] \in {Idle, [Idle EXCEPT !.at = "over"]}
      BY <2>9 DEF Kill
    <3> QED
      BY <3>1, IdleTask DEF At, Task
  <2>10. CASE Work(x)
    BY <2>10, WritesComeToAnEnd
  <2>11. CASE \E f \in Flush : PushSucceeds(f) \/ PushFails(f) \/ WriteBack(f)
    BY <2>8, <2>11, PushesComeToAnEnd
  <2>12. ASSUME NEW i \in Item, Save(i)
         PROVE  Work(x) \/ ~At(task'[x])
    BY <2>4, <2>5, <2>12 DEF Save, Caller
  <2>13. ASSUME NEW f \in Flush, Sync(f)
         PROVE  \/ Work(x) \/ ~At(task'[x])
                \/ PushSucceeds(f) \/ PushFails(f) \/ WriteBack(f)
    BY <2>4, <2>6, <2>7, <2>13 DEF Sync, Caller
  <2>14. CASE UNCHANGED vars
    BY <2>14 DEF vars
  <2>15. CASE ~At(task'[x])
    BY <2>2, <2>15
  <2>16. CASE Next
    <3>1. \/ Work(x) \/ ~At(task'[x])
          \/ \E f \in Flush : PushSucceeds(f) \/ PushFails(f) \/ WriteBack(f)
      BY <2>5, <2>6, <2>7, <2>9, <2>12, <2>13, <2>16 DEF Next
    <3> QED
      BY <2>10, <2>11, <2>15, <3>1
  <2> QED
    BY <2>14, <2>16
<1> QED
  BY <1>1, Invariant, PTL DEF Spec

\* A flush that ends can be called again, and leaves no turn taken.
FlushesReturn == \A f \in Flush : task[f].at # "over"

LEMMA StepFlushesReturn == Inv /\ FlushesReturn /\ [Next]_vars => FlushesReturn'
<1> SUFFICES ASSUME Inv, FlushesReturn, [Next]_vars, NEW f \in Flush
             PROVE  task'[f].at # "over"
  BY DEF FlushesReturn
<1>1. f \in Caller /\ f \notin Item /\ task \in [Caller -> Task] /\ task[f].at # "over"
  BY CallersAssumption DEF Caller, Inv, Typed, FlushesReturn
<1>2. ASSUME NEW y \in Caller, NEW t, Goes(y, t), y \in Item \/ t.at # "over"
      PROVE  task'[f].at # "over"
  BY <1>1, <1>2 DEF Goes
<1>3. PICK r, e, k, h : /\ r = task[f] /\ e = Tail(r.todo) /\ k = r.keep
                        /\ h = Append(r.keep, Head(r.todo))
  OBVIOUS
<1>4. ASSUME NEW x \in Caller, Work(x) PROVE task'[f].at # "over"
  <2>1. x # f => task'[f] = r
    BY <1>1, <1>3, <1>4 DEF Work, Clear, ReadForAppend, Rewrite, Goes
  <2>2. CASE x = f /\ ReadForAppend(x)
    <3>1. PICK b : Goes(x, [r EXCEPT !.at = "rewrite", !.image = b])
      BY <1>3, <2>2 DEF ReadForAppend
    <3>2. task'[f] = [r EXCEPT !.at = "rewrite", !.image = b]
      BY <1>1, <2>2, <3>1 DEF Goes
    <3> QED
      BY <1>1, <1>3, <3>2 DEF Task
  <2>3. CASE x = f /\ (Clear(x) \/ Rewrite(x))
    <3>1. task'[f] \in {[r EXCEPT !.at = "append"], [Idle EXCEPT !.at = "append", !.todo = e]}
      BY <1>1, <1>3, <2>3 DEF Clear, Rewrite, Goes
    <3> QED
      BY <1>1, <1>3, <3>1, IdleTask DEF Task
  <2> QED
    BY <1>1, <1>3, <1>4, <2>1, <2>2, <2>3 DEF Work
<1>5. ASSUME NEW g \in Flush, PushSucceeds(g) \/ PushFails(g) \/ WriteBack(g)
      PROVE  task'[f].at # "over"
  <2>1. g # f => task'[f] = r
    BY <1>1, <1>3, <1>5 DEF PushSucceeds, PushFails, WriteBack, Goes, Caller
  <2>2. g = f => task'[f] \in {[r EXCEPT !.todo = e], [r EXCEPT !.todo = e, !.keep = h],
                              [Idle EXCEPT !.at = "clearing", !.todo = k]}
    BY <1>1, <1>3, <1>5 DEF PushSucceeds, PushFails, WriteBack, Goes, Caller
  <2> QED
    BY <1>1, <1>3, <2>1, <2>2, IdleTask DEF Task
<1>6. ASSUME NEW g \in Flush, CallFlush(g) \/ BeginFlush(g) PROVE task'[f].at # "over"
  <2>1. g # f => task'[f] = r
    BY <1>1, <1>3, <1>6 DEF CallFlush, BeginFlush, Goes, Caller
  <2>2. g = f => \E b : task'[f] \in {[Idle EXCEPT !.at = "waiting"],
                                     [Idle EXCEPT !.at = "pushing", !.todo = b]}
    BY <1>1, <1>3, <1>6 DEF CallFlush, BeginFlush, Goes, Caller
  <2> QED
    BY <1>1, <1>3, <2>1, <2>2, IdleTask DEF Task
<1>7. ASSUME NEW g \in Flush, EndFlush(g) \/ FlushThrows(g) PROVE task'[f].at # "over"
  BY <1>1, <1>2, <1>7, IdleTask DEF EndFlush, FlushThrows, LeaveChain, Caller
<1>8. ASSUME NEW i \in Item, Enqueue(i) \/ EndEnqueue(i) \/ EnqueueThrows(i)
      PROVE  task'[f].at # "over"
  BY <1>1, <1>2, <1>8 DEF Enqueue, EndEnqueue, EnqueueThrows, Caller
<1>9. CASE Kill
  BY <1>1, <1>9, IdleTask DEF Kill
<1>10. CASE UNCHANGED vars
  BY <1>1, <1>10 DEF vars
<1> QED
  BY <1>4, <1>5, <1>6, <1>7, <1>8, <1>9, <1>10 DEF Next, Save, Sync, Caller

\* The chain never stands still: while flushes are in it, the first one runs or
\* has its turn, also after one that threw and after a kill.
THEOREM TheFirstFlushGoes ==
  Spec => [](tail # << >> => Running(Head(tail)) \/ task[Head(tail)].at = "waiting")
<1>1. Init => FlushesReturn
  BY IdleTask DEF Init, FlushesReturn, Caller
<1>2. Inv /\ FlushesReturn =>
        (tail # << >> => Running(Head(tail)) \/ task[Head(tail)].at = "waiting")
  <2> SUFFICES ASSUME Inv, FlushesReturn, tail # << >>
               PROVE  Running(Head(tail)) \/ task[Head(tail)].at = "waiting"
    OBVIOUS
  <2>1. Head(tail) \in ToSet(tail)
    BY ElementsOfTail DEF Inv, Chain
  <2> QED
    BY <2>1 DEF Inv, Chain, FlushesReturn, Running
<1> QED
  BY <1>1, <1>2, StepFlushesReturn, Invariant, PTL DEF Spec
=============================================================================
