---------------------------- MODULE AccessProofs ----------------------------
(***************************************************************************)
(* For any number of phones, workspaces, registrations, requests and       *)
(* addresses, and for every limit and window: a workspace without an       *)
(* employee has a known cause, and a suspension holds.                     *)
(***************************************************************************)
EXTENDS Access, FiniteSetTheorems, TLAPS

\* The steps of the limiter, and those of the workspaces.
LimiterNext == Tick \/ Sweep \/ \E a \in Address : Admit(a) \/ Refuse(a)

AccessNext ==
  \/ \E r \in Register, p \in Phone : CheckPhone(r, p)
  \/ \E p \in Phone : Login(p)
  \/ \E r \in Register, t \in Tenant : CreateTenant(r, t)
  \/ \E r \in Register, e \in Employee : CreateOwner(r, e)
  \/ \E r \in Register : RollBack(r) \/ StopRegister(r)
  \/ \E c \in Call, op \in Op, k \in tokens : Authenticate(c, op, k)
  \/ \E c \in Call : CheckStatus(c) \/ DeleteAccount(c) \/ Fail(c)
  \/ \E c \in Call, e \in Employee, p \in Phone : AddStaff(c, e, p)
  \/ \E c \in Call, e \in Employee : Dismiss(c, e)
  \/ \E c \in Call, p \in Phone : SetProfile(c, p)
  \/ \E t \in Tenant, active \in BOOLEAN : SetActive(t, active)

LEMMA StepMaps == [Next]_vars => [LimiterNext]_limiterVars /\ [AccessNext]_accessVars
  BY DEF Next, vars, LimiterNext, AccessNext

-----------------------------------------------------------------------------
(* The limiter *)

MapOK == LimiterTypeOK /\ IsFiniteSet(DOMAIN visitors)

LEMMA LimitIsPositive == Limit \in Nat \ {0} /\ MaxRequests <= Limit
  BY LimiterAssumption DEF Limit

LEMMA Counts ==
  ASSUME MapOK, NEW a \in Address, NEW lag \in 0..Wait
  PROVE  NewCount(a, lag) \in Count
<1>1. 1 \in Count /\ Limit + 1 \in Count
  BY LimitIsPositive DEF Count
<1>2. ASSUME ~Fresh(a, lag) PROVE Capped(visitors[a].count + 1) \in Count
  <2>1. visitors[a].count \in Count
    BY <1>2 DEF MapOK, LimiterTypeOK, Known, Fresh
  <2> QED
    BY <2>1, LimitIsPositive DEF Count, Capped
<1> QED
  BY <1>1, <1>2 DEF NewCount

LEMMA SeenStep ==
  ASSUME MapOK, NEW a \in Address, NEW lag \in 0..Wait, Seen(a, lag)
  PROVE  /\ DOMAIN visitors' \subseteq Address
         /\ Cardinality(DOMAIN visitors') <= MaxSize
         /\ \A b \in DOMAIN visitors' : visitors'[b] \in [age : Age, count : Count]
         /\ IsFiniteSet(DOMAIN visitors')
<1>1. CASE Full(a)
  BY <1>1 DEF Seen, MapOK, LimiterTypeOK
<1>2. CASE ~Full(a)
  <2> DEFINE D == DOMAIN visitors
  <2>1. DOMAIN visitors' = D \cup {a}
    BY <1>2 DEF Seen
  <2>2. lag \in Age
    BY LimiterAssumption DEF Age, Oldest
  <2>3. [age |-> lag, count |-> NewCount(a, lag)] \in [age : Age, count : Count]
    BY <2>2, Counts
  <2>4. \A b \in DOMAIN visitors' : visitors'[b] \in [age : Age, count : Count]
    BY <1>2, <2>3 DEF Seen, MapOK, LimiterTypeOK
  <2>5. IsFiniteSet(D)
    BY DEF MapOK
  <2>6. /\ IsFiniteSet(D \cup {a})
        /\ Cardinality(D \cup {a}) = IF a \in D THEN Cardinality(D) ELSE Cardinality(D) + 1
    BY <2>5, FS_AddElement
  <2>7. Cardinality(D) \in Nat
    BY <2>5, FS_CardinalityType
  <2>8. Cardinality(D) <= MaxSize /\ (a \notin D => Cardinality(D) < MaxSize)
    BY <1>2, <2>7, LimiterAssumption DEF MapOK, LimiterTypeOK, Full, Known
  <2>9. Cardinality(D \cup {a}) <= MaxSize
    BY <2>6, <2>7, <2>8, LimiterAssumption
  <2> QED
    BY <2>1, <2>4, <2>6, <2>9 DEF MapOK, LimiterTypeOK
<1> QED
  BY <1>1, <1>2

\* Forgetting addresses.
LEMMA SweepStep ==
  ASSUME MapOK, Sweep
  PROVE  MapOK'
<1> DEFINE D == DOMAIN visitors
           K == {a \in D : visitors[a].age <= CleanupAge}
<1>1. visitors' = Restrict(visitors, K) /\ UNCHANGED admitted
  BY DEF Sweep
<1>2. K \subseteq D
  OBVIOUS
<1> HIDE DEF K
<1>3. visitors' = [a \in K |-> visitors[a]]
  BY <1>1 DEF Restrict
<1>4. IsFiniteSet(K) /\ Cardinality(K) <= Cardinality(D)
  BY <1>2, FS_Subset DEF MapOK
<1>5. Cardinality(K) \in Nat /\ Cardinality(D) \in Nat
  BY <1>4, FS_CardinalityType DEF MapOK
<1>6. Cardinality(K) <= MaxSize
  BY <1>4, <1>5, LimiterAssumption DEF MapOK, LimiterTypeOK
<1> QED
  BY <1>1, <1>2, <1>3, <1>4, <1>6 DEF MapOK, LimiterTypeOK

LEMMA TickStep ==
  ASSUME MapOK, Tick
  PROVE  MapOK'
<1>1. DOMAIN visitors' = DOMAIN visitors
  BY DEF Tick
<1>2. ASSUME NEW v \in [age : Age, count : Count]
      PROVE  [v EXCEPT !.age = IF @ = Oldest THEN @ ELSE @ + 1]
               \in [age : Age, count : Count]
  <2>1. v.age \in Age
    OBVIOUS
  <2>2. (IF v.age = Oldest THEN v.age ELSE v.age + 1) \in Age
    BY <2>1, LimiterAssumption DEF Age, Oldest
  <2> QED
    BY <2>2
<1>3. \A a \in DOMAIN visitors' : visitors'[a] \in [age : Age, count : Count]
  BY <1>2 DEF Tick, MapOK, LimiterTypeOK
<1>4. admitted' \in [Address -> [0..Window -> Nat]]
  <2> SUFFICES ASSUME NEW a \in Address, NEW i \in 0..Window
               PROVE  (IF i = 0 THEN 0 ELSE admitted[a][i - 1]) \in Nat
    BY DEF Tick
  <2>1. i # 0 => i - 1 \in 0..Window
    BY LimiterAssumption
  <2> QED
    BY <2>1 DEF MapOK, LimiterTypeOK
<1> QED
  BY <1>1, <1>3, <1>4 DEF MapOK, LimiterTypeOK

\* The history after a request that is let through.
LEMMA AdmittedGrows ==
  ASSUME MapOK, NEW a \in Address,
         admitted' = [admitted EXCEPT ![a] = [i \in 0..Window |-> @[i] + 1]]
  PROVE  /\ admitted' \in [Address -> [0..Window -> Nat]]
         /\ \A b \in Address, i \in 0..Window :
              admitted'[b][i] = IF b = a THEN admitted[b][i] + 1 ELSE admitted[b][i]
<1>1. PICK f : f = [i \in 0..Window |-> admitted[a][i] + 1]
  OBVIOUS
<1>2. f \in [0..Window -> Nat]
  <2>1. \A i \in 0..Window : admitted[a][i] \in Nat
    BY DEF MapOK, LimiterTypeOK
  <2>2. \A i \in 0..Window : admitted[a][i] + 1 \in Nat
    BY <2>1
  <2> QED
    BY <1>1, <2>2
<1>3. admitted' = [admitted EXCEPT ![a] = f]
  BY <1>1
<1>4. admitted' \in [Address -> [0..Window -> Nat]]
  BY <1>2, <1>3 DEF MapOK, LimiterTypeOK
<1>5. \A b \in Address : admitted'[b] = IF b = a THEN f ELSE admitted[b]
  BY <1>3 DEF MapOK, LimiterTypeOK
<1> QED
  BY <1>1, <1>4, <1>5

LEMMA LimiterStep ==
  ASSUME MapOK, [LimiterNext]_limiterVars
  PROVE  MapOK'
<1>1. ASSUME NEW a \in Address, Admit(a) \/ Refuse(a) PROVE MapOK'
  <2>1. admitted' \in [Address -> [0..Window -> Nat]]
    <3>1. CASE Refuse(a)
      BY <3>1 DEF Refuse, MapOK, LimiterTypeOK
    <3>2. CASE Admit(a)
      BY <3>2, AdmittedGrows DEF Admit
    <3> QED
      BY <1>1, <3>1, <3>2
  <2> QED
    BY <1>1, <2>1, SeenStep DEF Admit, Refuse, MapOK, LimiterTypeOK
<1>2. CASE UNCHANGED limiterVars
  BY <1>2 DEF limiterVars, MapOK, LimiterTypeOK
<1> QED
  BY <1>1, <1>2, SweepStep, TickStep DEF LimiterNext

\* What one counter and one time say of the history.  The time is at most Wait
\* ticks older than the last request, so within a window that is shorter by Wait
\* the requests that count are no older than the counter, none was let through
\* during the silence, and nothing that is forgotten would still count.
Short == {i \in 0..Window : i + Wait <= Window}

Remembered(a) ==
  /\ \A i \in Short : admitted[a][i] <= Limit
  /\ IF Known(a)
       THEN /\ \A i \in Short : admitted[a][i] <= visitors[a].count
            /\ \A i \in Short : i + Wait < visitors[a].age => admitted[a][i] = 0
       ELSE \A i \in Short : admitted[a][i] = 0

LimiterInv == MapOK /\ \A a \in Address : Remembered(a)

LEMMA Numbers ==
  ASSUME MapOK, NEW a \in Address
  PROVE  /\ \A i \in 0..Window : admitted[a][i] \in Nat
         /\ Known(a) => visitors[a].age \in Age /\ visitors[a].count \in Count
         /\ Limit \in Nat \ {0} /\ MaxRequests \in Int /\ MaxRequests <= Limit
         /\ Window \in Nat /\ CleanupAge \in Nat /\ Wait \in Nat /\ Window <= CleanupAge
         /\ \A i \in Short : i \in 0..Window /\ i \in Nat /\ i + Wait <= Window
         /\ \A i \in Short : i # 0 => i - 1 \in Short
<1>1. admitted[a] \in [0..Window -> Nat]
  BY DEF MapOK, LimiterTypeOK
<1>2. \A i \in Short : i # 0 => i - 1 \in Short
  BY LimiterAssumption DEF Short
<1> QED
  BY <1>1, <1>2, LimitIsPositive, LimiterAssumption DEF MapOK, LimiterTypeOK, Known, Short

\* After a silence nothing of the shorter window is left.
LEMMA SilenceClears ==
  ASSUME MapOK, NEW a \in Address, Remembered(a), NEW lag \in 0..Wait, Fresh(a, lag),
         NEW i \in Short
  PROVE  admitted[a][i] = 0
<1>1. CASE Known(a)
  <2>1. visitors[a].age - lag > Window
    BY <1>1 DEF Fresh
  <2>2. i + Wait < visitors[a].age
    BY <1>1, <2>1, Numbers DEF Age
  <2> QED
    BY <1>1, <2>2 DEF Remembered
<1>2. CASE ~Known(a)
  BY <1>2 DEF Remembered
<1> QED
  BY <1>1, <1>2

\* The counter covers what was let through in the shorter window.
LEMMA CounterCovers ==
  ASSUME MapOK, NEW a \in Address, Remembered(a), NEW lag \in 0..Wait, NEW i \in Short
  PROVE  /\ admitted[a][i] <= NewCount(a, lag)
         /\ Admits(a, lag) => /\ admitted[a][i] + 1 <= NewCount(a, lag)
                             /\ NewCount(a, lag) <= Limit
<1>1. CASE Fresh(a, lag)
  BY <1>1, SilenceClears, Numbers DEF NewCount
<1>2. CASE ~Fresh(a, lag)
  <2>1. Known(a)
    BY <1>2 DEF Fresh
  <2>2. PICK c \in Count : c = visitors[a].count
    BY <2>1, Numbers
  <2>3. PICK n \in Nat : n = admitted[a][i] /\ n <= c /\ n <= Limit
    BY <2>1, <2>2, Numbers DEF Remembered
  <2>4. NewCount(a, lag) = Capped(c + 1)
    BY <1>2, <2>2 DEF NewCount
  <2>5. n <= Capped(c + 1)
    BY <2>2, <2>3, LimitIsPositive DEF Count, Capped
  <2>6. Capped(c + 1) <= MaxRequests => n + 1 <= Capped(c + 1) /\ Capped(c + 1) <= Limit
    BY <2>2, <2>3, Numbers DEF Count, Capped
  <2> QED
    BY <1>2, <2>3, <2>4, <2>5, <2>6 DEF Admits
<1> QED
  BY <1>1, <1>2

LEMMA RequestRemembered ==
  ASSUME LimiterInv, NEW a \in Address, Admit(a) \/ Refuse(a), NEW b \in Address
  PROVE  Remembered(b)'
<1>1. MapOK /\ Remembered(b)
  BY DEF LimiterInv
<1>2. CASE b # a
  <2>1. \A i \in 0..Window : admitted'[b][i] = admitted[b][i]
    BY <1>1, <1>2, AdmittedGrows DEF Admit, Refuse
  <2>2. Known(b)' = Known(b) /\ (Known(b) => visitors'[b] = visitors[b])
    BY <1>2 DEF Admit, Refuse, Seen, Known
  <2> QED
    BY <1>1, <2>1, <2>2, Numbers DEF Remembered
<1>3. CASE b = a /\ Admit(a)
  <2>1. PICK lag \in 0..Wait : Admits(a, lag) /\ Seen(a, lag)
    BY <1>3 DEF Admit
  <2>2. \A i \in Short : admitted'[a][i] = admitted[a][i] + 1
    BY <1>1, <1>3, AdmittedGrows, Numbers DEF Admit
  <2>3. Known(a)' /\ visitors'[a] = [age |-> lag, count |-> NewCount(a, lag)]
    BY <2>1 DEF Admits, Seen, Known
  <2>4. NewCount(a, lag) \in Nat
    BY <1>1, Counts, Numbers DEF Count
  <2>5. \A i \in Short : /\ admitted'[a][i] <= NewCount(a, lag)
                         /\ admitted'[a][i] <= Limit
    BY <1>1, <1>3, <2>1, <2>2, <2>4, CounterCovers, Numbers
  <2>6. \A i \in Short : ~(i + Wait < lag)
    BY <1>1, Numbers
  <2> QED
    BY <1>3, <2>3, <2>5, <2>6 DEF Remembered
<1>4. CASE b = a /\ Refuse(a)
  <2>1. PICK lag \in 0..Wait : ~Admits(a, lag) /\ Seen(a, lag)
    BY <1>4 DEF Refuse
  <2>2. admitted' = admitted
    BY <1>4 DEF Refuse
  <2>3. CASE Full(a)
    BY <1>1, <1>4, <2>1, <2>2, <2>3 DEF Seen, Remembered, Known
  <2>4. CASE ~Full(a)
    <3>1. Known(a)' /\ visitors'[a] = [age |-> lag, count |-> NewCount(a, lag)]
      BY <2>1, <2>4 DEF Seen, Known
    <3>2. \A i \in Short : ~(i + Wait < lag)
      BY <1>1, Numbers
    <3>3. \A i \in Short : admitted[a][i] <= NewCount(a, lag)
      BY <1>1, <1>4, CounterCovers
    <3> QED
      BY <1>1, <1>4, <2>2, <3>1, <3>2, <3>3 DEF Remembered
  <2> QED
    BY <2>3, <2>4
<1> QED
  BY <1>2, <1>3, <1>4

LEMMA TickRemembered ==
  ASSUME LimiterInv, Tick, NEW b \in Address
  PROVE  Remembered(b)'
<1>1. MapOK /\ Remembered(b)
  BY DEF LimiterInv
<1>2. \A i \in Short : admitted'[b][i] = IF i = 0 THEN 0 ELSE admitted[b][i - 1]
  BY <1>1, Numbers DEF Tick
<1>3. Known(b)' = Known(b)
  BY DEF Tick, Known
<1>4. ASSUME Known(b)
      PROVE  /\ visitors'[b].count = visitors[b].count
             /\ visitors'[b].age = IF visitors[b].age = Oldest THEN visitors[b].age
                                                               ELSE visitors[b].age + 1
  <2>1. PICK v \in [age : Age, count : Count] : v = visitors[b]
    BY <1>1, <1>4 DEF MapOK, LimiterTypeOK, Known
  <2>2. visitors'[b] = [v EXCEPT !.age = IF @ = Oldest THEN @ ELSE @ + 1]
    BY <1>4, <2>1 DEF Tick, Known
  <2> QED
    BY <2>1, <2>2
<1>5. \A i \in Short : admitted'[b][i] <= Limit
  BY <1>1, <1>2, Numbers DEF Remembered
<1>6. CASE Known(b)
  <2>1. \A i \in Short : i + Wait < visitors'[b].age => admitted'[b][i] = 0
    <3> SUFFICES ASSUME NEW i \in Short, i + Wait < visitors'[b].age, i # 0
                 PROVE  admitted[b][i - 1] = 0
      BY <1>2
    <3>1. (i - 1) + Wait < visitors[b].age
      BY <1>1, <1>4, <1>6, Numbers DEF Age
    <3> QED
      BY <1>1, <1>6, <3>1, Numbers DEF Remembered
  <2>2. \A i \in Short : admitted'[b][i] <= visitors'[b].count
    BY <1>1, <1>2, <1>4, <1>6, Numbers DEF Remembered, Count
  <2> QED
    BY <1>3, <1>5, <1>6, <2>1, <2>2 DEF Remembered
<1>7. CASE ~Known(b)
  BY <1>1, <1>2, <1>3, <1>5, <1>7, Numbers DEF Remembered
<1> QED
  BY <1>6, <1>7

\* Who is forgotten has been silent for longer than the shorter window.
LEMMA SweepRemembered ==
  ASSUME LimiterInv, Sweep, NEW b \in Address
  PROVE  Remembered(b)'
<1> DEFINE K == {a \in DOMAIN visitors : visitors[a].age <= CleanupAge}
<1>1. MapOK /\ Remembered(b)
  BY DEF LimiterInv
<1>2. admitted' = admitted /\ visitors' = [a \in K |-> visitors[a]]
  BY DEF Sweep, Restrict
<1>3. CASE b \in K
  BY <1>1, <1>2, <1>3 DEF Remembered, Known
<1>4. CASE b \notin DOMAIN visitors
  BY <1>1, <1>2, <1>4 DEF Remembered, Known
<1>5. CASE b \in DOMAIN visitors \ K
  <2>1. Known(b) /\ ~Known(b)' /\ visitors[b].age > CleanupAge
    BY <1>1, <1>2, <1>5, Numbers DEF Known, Age
  <2>2. \A i \in Short : i + Wait < visitors[b].age
    BY <1>1, <2>1, Numbers DEF Age
  <2>3. \A i \in Short : admitted[b][i] = 0
    BY <1>1, <2>1, <2>2 DEF Remembered
  <2> QED
    BY <1>1, <1>2, <2>1, <2>3 DEF Remembered
<1> QED
  BY <1>3, <1>4, <1>5

LEMMA InitLimiterInv == LimiterInit => LimiterInv
<1> SUFFICES ASSUME LimiterInit PROVE LimiterInv
  OBVIOUS
<1>1. DOMAIN visitors = {}
  BY DEF LimiterInit
<1>2. IsFiniteSet({}) /\ Cardinality({}) = 0
  BY FS_EmptySet
<1>3. MapOK
  BY <1>1, <1>2, LimiterAssumption DEF LimiterInit, LimiterTypeOK, MapOK
<1>4. \A a \in Address : Remembered(a)
  BY <1>1, LimitIsPositive, LimiterAssumption DEF LimiterInit, Remembered, Known, Short
<1> QED
  BY <1>3, <1>4 DEF LimiterInv

LEMMA LimiterKeeps ==
  ASSUME LimiterInv, [LimiterNext]_limiterVars
  PROVE  LimiterInv'
<1>1. MapOK'
  BY LimiterStep DEF LimiterInv
<1>2. ASSUME NEW b \in Address PROVE Remembered(b)'
  <2>1. CASE UNCHANGED limiterVars
    BY <2>1 DEF limiterVars, LimiterInv, Remembered, Known
  <2> QED
    BY <2>1, RequestRemembered, TickRemembered, SweepRemembered DEF LimiterNext
<1> QED
  BY <1>1, <1>2 DEF LimiterInv

-----------------------------------------------------------------------------
(* The workspaces *)

RegRecord == [stage : {"idle", "checked", "inserted", "failed", "done", "refused", "stopped"},
              phone : Phone \cup {NoRow}, tenant : Tenant \cup {NoTenant}]
CallRecord == [stage : {"idle", "authed", "inside", "done"},
               op : Op, token : Token \cup {NoRow}, early : BOOLEAN]

RowsTyped ==
  /\ tenant \in [Tenant -> TenantRow \cup {NoRow}]
  /\ emp \in [Employee -> EmployeeRow \cup {NoRow}]
  /\ used \subseteq Tenant \cup Employee
  /\ tokens \subseteq Token
  /\ reg \in [Register -> RegRecord]
  /\ call \in [Call -> CallRecord]

\* The foreign key and the unique phone.
Keys ==
  /\ \A e \in Employee : emp[e] # NoRow => tenant[emp[e].tenant] # NoRow
  /\ \A t, u \in Tenant :
       tenant[t] # NoRow /\ tenant[u] # NoRow /\ tenant[t].phone = tenant[u].phone => t = u

RowsUsed ==
  /\ \A t \in Tenant : tenant[t] # NoRow => t \in used
  /\ \A e \in Employee : emp[e] # NoRow => e \in used

\* What a registration and a request know by the time they need it.
KnowsRow ==
  /\ \A r \in Register :
       /\ reg[r].stage \in {"checked", "inserted"} => reg[r].phone \in Phone
       /\ reg[r].stage \in {"inserted", "failed"} => reg[r].tenant \in Tenant
  /\ \A c \in Call : call[c].stage \in {"authed", "inside"} => call[c].token \in Token

\* A request past the check found its workspace open, or is noted as early.
InsideWasOpen ==
  \A c \in Call :
    /\ call[c].stage = "inside" /\ call[c].op \in Guarded
    /\ tenant[Target(c)] # NoRow /\ ~tenant[Target(c)].active
    => call[c].early

AInv == RowsTyped /\ Keys /\ RowsUsed /\ KnowsRow /\ InsideWasOpen /\ EmptyTenantHasCause

\* What SuspensionHolds says of a step: it touches t, and may.
Touches(t) ==
  \/ tenant'[t] = NoRow \/ tenant'[t].phone # tenant[t].phone
  \/ \E e \in Employee : emp'[e] # emp[e] /\ {emp[e], emp'[e]} \cap
        {x \in EmployeeRow : x.tenant = t} # {}
Excused(t) ==
  \/ \E c \in Call : /\ call[c].stage = "inside" /\ call'[c].stage = "done"
                     /\ Target(c) = t
                     /\ call[c].early \/ call[c].op = "deleteAccount"
  \/ \E r \in Register : reg[r].tenant = t /\ reg'[r].stage # reg[r].stage
Held == \A t \in Tenant : tenant[t] # NoRow /\ ~tenant[t].active /\ Touches(t) => Excused(t)

LEMMA InitAInv == Init => AInv
<1> SUFFICES ASSUME Init PROVE AInv
  OBVIOUS
<1>1. RowsTyped
  BY DEF Init, RowsTyped, RegRecord, CallRecord, Op, Guarded
<1> QED
  BY <1>1 DEF Init, AInv, Keys, RowsUsed, KnowsRow, InsideWasOpen, EmptyTenantHasCause

LEMMA NoRowIsNone ==
  /\ \A x \in TenantRow : x # NoRow
  /\ \A x \in EmployeeRow : x # NoRow
  /\ NoRow \notin EmployeeRow
  BY AccessAssumption

\* Facts about the rows.
LEMMA Rows ==
  ASSUME RowsTyped
  PROVE  /\ \A t \in Tenant : tenant[t] # NoRow =>
              tenant[t].phone \in Phone /\ tenant[t].active \in BOOLEAN
         /\ \A e \in Employee : emp[e] # NoRow =>
              /\ emp[e] \in EmployeeRow
              /\ emp[e].tenant \in Tenant /\ emp[e].phone \in Phone
              /\ emp[e].role \in Role /\ emp[e].active \in BOOLEAN
  BY DEF RowsTyped, TenantRow, EmployeeRow

LEMMA RegGoEffect ==
  ASSUME RowsTyped, NEW r \in Register, NEW st, RegGo(r, st),
         st \in {"idle", "checked", "inserted", "failed", "done", "refused", "stopped"}
  PROVE  /\ reg' \in [Register -> RegRecord]
         /\ \A q \in Register :
              /\ reg'[q].phone = reg[q].phone /\ reg'[q].tenant = reg[q].tenant
              /\ reg'[q].stage = IF q = r THEN st ELSE reg[q].stage
<1>1. reg' = [reg EXCEPT ![r].stage = st]
  BY DEF RegGo
<1>2. ASSUME NEW w \in RegRecord
      PROVE  LET v == [w EXCEPT !.stage = st]
             IN v \in RegRecord /\ v.phone = w.phone /\ v.tenant = w.tenant /\ v.stage = st
  BY DEF RegRecord
<1> QED
  BY <1>1, <1>2 DEF RowsTyped

LEMMA CallGoEffect ==
  ASSUME RowsTyped, NEW c \in Call, NEW st \in {"idle", "authed", "inside", "done"},
         CallGo(c, st)
  PROVE  /\ call' \in [Call -> CallRecord]
         /\ \A d \in Call :
              /\ call'[d].op = call[d].op /\ call'[d].token = call[d].token
              /\ call'[d].early = call[d].early
              /\ call'[d].stage = IF d = c THEN st ELSE call[d].stage
<1>1. call' = [call EXCEPT ![c].stage = st]
  BY DEF CallGo
<1>2. ASSUME NEW w \in CallRecord
      PROVE  LET v == [w EXCEPT !.stage = st]
             IN /\ v \in CallRecord /\ v.op = w.op /\ v.token = w.token
                /\ v.early = w.early /\ v.stage = st
  BY DEF CallRecord
<1> QED
  BY <1>1, <1>2 DEF RowsTyped

-----------------------------------------------------------------------------
(* The steps of a registration *)

LEMMA CheckPhoneStep ==
  ASSUME AInv, NEW r \in Register, NEW p \in Phone, CheckPhone(r, p)
  PROVE  AInv' /\ Held
<1>1. PICK st \in {"refused", "checked"} :
        reg' = [reg EXCEPT ![r] = [@ EXCEPT !.phone = p, !.stage = st]]
  BY DEF CheckPhone
<1>2. reg[r].stage = "idle" /\ UNCHANGED <<tenant, emp, used, tokens, call>>
  BY DEF CheckPhone, rowVars
<1>3. ASSUME NEW w \in RegRecord
      PROVE  LET v == [w EXCEPT !.phone = p, !.stage = st]
             IN v \in RegRecord /\ v.phone = p /\ v.tenant = w.tenant /\ v.stage = st
  BY DEF RegRecord
<1>4. /\ reg' \in [Register -> RegRecord]
      /\ \A q \in Register : reg'[q].tenant = reg[q].tenant
      /\ \A q \in Register : q # r => reg'[q] = reg[q]
      /\ reg'[r].phone = p /\ reg'[r].stage = st
  BY <1>1, <1>3 DEF AInv, RowsTyped
<1>5. RowsTyped' /\ Keys' /\ RowsUsed'
  BY <1>2, <1>4 DEF AInv, RowsTyped, Keys, RowsUsed
<1>6. KnowsRow' /\ InsideWasOpen'
  BY <1>2, <1>4 DEF AInv, KnowsRow, InsideWasOpen, Target
<1>7. EmptyTenantHasCause'
  <2> SUFFICES ASSUME NEW t \in Tenant, tenant[t] # NoRow, StaffOf(t) = {}
               PROVE  \E q \in Register : reg'[q].tenant = t
                        /\ reg'[q].stage \in {"inserted", "failed", "stopped"}
    BY <1>2 DEF EmptyTenantHasCause, StaffOf
  <2> QED
    BY <1>2, <1>4 DEF AInv, EmptyTenantHasCause
<1>8. Held
  BY <1>2, Rows DEF Held, Touches
<1> QED
  BY <1>5, <1>6, <1>7, <1>8 DEF AInv

\* A step that leaves tenant, emp and used alone, and moves registrations so
\* that no cause goes away.
LEMMA RowsKept ==
  ASSUME AInv, UNCHANGED <<tenant, emp, used>>, RowsTyped', KnowsRow',
         InsideWasOpen',
         \A r \in Register : reg[r].stage \in {"inserted", "failed", "stopped"} =>
           /\ reg'[r].stage \in {"inserted", "failed", "stopped"}
           /\ reg'[r].tenant = reg[r].tenant
  PROVE  AInv' /\ Held
<1>1. Keys' /\ RowsUsed'
  BY DEF AInv, Keys, RowsUsed
<1>2. EmptyTenantHasCause'
  <2> SUFFICES ASSUME NEW t \in Tenant, tenant[t] # NoRow, StaffOf(t) = {}
               PROVE  \E q \in Register : reg'[q].tenant = t
                        /\ reg'[q].stage \in {"inserted", "failed", "stopped"}
    BY DEF EmptyTenantHasCause, StaffOf
  <2> QED
    BY DEF AInv, EmptyTenantHasCause
<1>3. Held
  BY DEF Held, Touches
<1> QED
  BY <1>1, <1>2, <1>3 DEF AInv

LEMMA StopRegisterStep ==
  ASSUME AInv, NEW r \in Register, StopRegister(r)
  PROVE  AInv' /\ Held
<1>1. RegGo(r, "stopped") /\ UNCHANGED <<tenant, emp, used, tokens, call>>
  BY DEF StopRegister, rowVars
<1>2. RowsTyped' /\ KnowsRow' /\ InsideWasOpen'
  BY <1>1, RegGoEffect DEF AInv, RowsTyped, KnowsRow, InsideWasOpen, Target
<1> QED
  BY <1>1, <1>2, RegGoEffect, RowsKept DEF AInv

LEMMA CreateTenantStep ==
  ASSUME AInv, NEW r \in Register, NEW t \in Tenant, CreateTenant(r, t)
  PROVE  AInv' /\ Held
<1>1. reg[r].stage = "checked" /\ reg[r].phone \in Phone /\ UNCHANGED <<emp, tokens, call>>
  BY DEF CreateTenant, AInv, KnowsRow
<1>2. CASE RegGo(r, "refused") /\ UNCHANGED <<tenant, used>>
  <2>1. RowsTyped' /\ KnowsRow' /\ InsideWasOpen'
    BY <1>1, <1>2, RegGoEffect DEF AInv, RowsTyped, KnowsRow, InsideWasOpen, Target
  <2> QED
    BY <1>1, <1>2, <2>1, RegGoEffect, RowsKept DEF AInv
<1>3. CASE /\ t \notin used
           /\ ~\E u \in Tenant : HasPhone(u, reg[r].phone)
           /\ tenant' = [tenant EXCEPT ![t] = [phone |-> reg[r].phone, active |-> TRUE]]
           /\ used' = used \cup {t}
           /\ reg' = [reg EXCEPT ![r].stage = "inserted", ![r].tenant = t]
  <2> DEFINE new == [phone |-> reg[r].phone, active |-> TRUE]
  <2>1. new \in TenantRow /\ new # NoRow /\ new.phone = reg[r].phone /\ new.active = TRUE
    <3>1. new \in TenantRow
      BY <1>1 DEF TenantRow
    <3> QED
      BY <3>1, NoRowIsNone
  <2>2. ASSUME NEW w \in RegRecord
        PROVE  LET v == [w EXCEPT !.stage = "inserted", !.tenant = t]
               IN v \in RegRecord /\ v.phone = w.phone /\ v.tenant = t
                    /\ v.stage = "inserted"
    BY DEF RegRecord
  <2>3. /\ reg' \in [Register -> RegRecord]
        /\ \A q \in Register : q # r => reg'[q] = reg[q]
        /\ reg'[r].phone = reg[r].phone /\ reg'[r].tenant = t /\ reg'[r].stage = "inserted"
    BY <1>3, <2>2 DEF AInv, RowsTyped
  <2> HIDE DEF new
  <2>4. /\ tenant' \in [Tenant -> TenantRow \cup {NoRow}]
        /\ \A u \in Tenant : tenant'[u] = IF u = t THEN new ELSE tenant[u]
    BY <1>3, <2>1 DEF AInv, RowsTyped, new
  <2>5. tenant[t] = NoRow
    BY <1>3 DEF AInv, RowsUsed
  <2>6. RowsTyped'
    BY <1>1, <1>3, <2>3, <2>4 DEF AInv, RowsTyped
  <2>7. Keys'
    <3>1. \A e \in Employee : emp[e] # NoRow => emp[e].tenant \in Tenant
      BY Rows DEF AInv
    <3>2. \A u \in Tenant : tenant[u] # NoRow => tenant[u].phone # reg[r].phone
      BY <1>3 DEF HasPhone
    <3> QED
      BY <1>1, <2>1, <2>4, <3>1, <3>2 DEF AInv, Keys
  <2>8. RowsUsed'
    BY <1>1, <1>3, <2>4 DEF AInv, RowsUsed
  <2>9. KnowsRow'
    BY <1>1, <2>3 DEF AInv, KnowsRow
  <2>10. InsideWasOpen'
    BY <1>1, <2>1, <2>4 DEF AInv, InsideWasOpen, Target, KnowsRow, Token
  <2>11. EmptyTenantHasCause'
    <3> SUFFICES ASSUME NEW u \in Tenant, tenant'[u] # NoRow, StaffOf(u)' = {}
                 PROVE  \E q \in Register : reg'[q].tenant = u
                          /\ reg'[q].stage \in {"inserted", "failed", "stopped"}
      BY DEF EmptyTenantHasCause
    <3>1. CASE u = t
      BY <2>3, <3>1
    <3>2. CASE u # t
      <4>1. PICK q \in Register : reg[q].tenant = u
                    /\ reg[q].stage \in {"inserted", "failed", "stopped"}
        BY <1>1, <2>4, <3>2 DEF AInv, EmptyTenantHasCause, StaffOf
      <4> QED
        BY <1>1, <2>3, <4>1
    <3> QED
      BY <3>1, <3>2
  <2>12. Held
    BY <1>1, <2>4, <2>5 DEF Held, Touches
  <2> QED
    BY <2>6, <2>7, <2>8, <2>9, <2>10, <2>11, <2>12 DEF AInv
<1> QED
  BY <1>2, <1>3 DEF CreateTenant

\* A row of employees is inserted under the workspace t.
LEMMA InsertEffect ==
  ASSUME AInv, NEW e \in Employee, NEW t \in Tenant, NEW p \in Phone, NEW role \in Role,
         InsertEmployee(e, t, p, role), used' = used \cup {e}, UNCHANGED tenant
  PROVE  /\ emp' \in [Employee -> EmployeeRow \cup {NoRow}]
         /\ emp'[e] \in EmployeeRow /\ emp'[e].tenant = t
         /\ \A f \in Employee : f # e => emp'[f] = emp[f]
         /\ used' \subseteq Tenant \cup Employee
         /\ Keys' /\ RowsUsed'
         /\ \A u \in Tenant : StaffOf(u) \subseteq StaffOf(u)'
         /\ \A u \in Tenant : tenant[u] # NoRow /\ Touches(u) => u = t
<1> DEFINE new == [tenant |-> t, phone |-> p, role |-> role, active |-> TRUE]
<1>1. new \in EmployeeRow /\ new # NoRow /\ new.tenant = t
  <2>1. new \in EmployeeRow
    BY DEF EmployeeRow
  <2> QED
    BY <2>1, NoRowIsNone
<1>2. tenant[t] # NoRow /\ e \notin used /\ emp' = [emp EXCEPT ![e] = new]
  BY DEF InsertEmployee
<1> HIDE DEF new
<1>3. /\ emp' \in [Employee -> EmployeeRow \cup {NoRow}]
      /\ emp'[e] = new
      /\ \A f \in Employee : f # e => emp'[f] = emp[f]
  BY <1>1, <1>2 DEF AInv, RowsTyped
<1>4. emp[e] = NoRow
  BY <1>2 DEF AInv, RowsUsed
<1>5. Keys' /\ RowsUsed'
  BY <1>1, <1>2, <1>3 DEF AInv, Keys, RowsUsed
<1>6. \A u \in Tenant : StaffOf(u) \subseteq StaffOf(u)'
  BY <1>3, <1>4 DEF StaffOf
<1>7. \A u \in Tenant : tenant[u] # NoRow /\ Touches(u) => u = t
  BY <1>1, <1>3, <1>4, NoRowIsNone DEF Touches
<1> QED
  BY <1>1, <1>3, <1>5, <1>6, <1>7 DEF AInv, RowsTyped

LEMMA CreateOwnerStep ==
  ASSUME AInv, NEW r \in Register, NEW e \in Employee, CreateOwner(r, e)
  PROVE  AInv' /\ Held
<1> PICK t : t = reg[r].tenant
  OBVIOUS
<1>1. /\ reg[r].stage = "inserted" /\ reg[r].phone \in Phone /\ t \in Tenant
      /\ UNCHANGED <<tenant, call>>
  BY DEF CreateOwner, AInv, KnowsRow
<1>2. CASE RegGo(r, "failed") /\ UNCHANGED <<emp, used, tokens>>
  <2>1. RowsTyped' /\ KnowsRow' /\ InsideWasOpen'
    BY <1>1, <1>2, RegGoEffect DEF AInv, RowsTyped, KnowsRow, InsideWasOpen, Target
  <2> QED
    BY <1>1, <1>2, <2>1, RegGoEffect, RowsKept DEF AInv
<1>3. CASE /\ InsertEmployee(e, t, reg[r].phone, "owner")
           /\ used' = used \cup {e}
           /\ tokens' = tokens \cup {TokenOf(e)'}
           /\ RegGo(r, "done")
  <2> "owner" \in Role
    BY DEF Role
  <2>1. /\ emp' \in [Employee -> EmployeeRow \cup {NoRow}]
        /\ emp'[e] \in EmployeeRow /\ emp'[e].tenant = t
        /\ used' \subseteq Tenant \cup Employee
        /\ Keys' /\ RowsUsed'
        /\ \A u \in Tenant : StaffOf(u) \subseteq StaffOf(u)'
        /\ \A u \in Tenant : tenant[u] # NoRow /\ Touches(u) => u = t
    BY <1>1, <1>3, InsertEffect
  <2>2. TokenOf(e)' \in Token
    BY <2>1 DEF TokenOf, Token, EmployeeRow
  <2>3. /\ reg' \in [Register -> RegRecord]
        /\ \A q \in Register : /\ reg'[q].phone = reg[q].phone
                               /\ reg'[q].tenant = reg[q].tenant
                               /\ reg'[q].stage = IF q = r THEN "done" ELSE reg[q].stage
    BY <1>3, RegGoEffect DEF AInv
  <2>4. RowsTyped'
    BY <1>1, <1>3, <2>1, <2>2, <2>3 DEF AInv, RowsTyped
  <2>5. KnowsRow' /\ InsideWasOpen'
    BY <1>1, <2>3 DEF AInv, KnowsRow, InsideWasOpen, Target
  <2>6. EmptyTenantHasCause'
    <3> SUFFICES ASSUME NEW u \in Tenant, tenant[u] # NoRow, StaffOf(u)' = {}
                 PROVE  \E q \in Register : reg'[q].tenant = u
                          /\ reg'[q].stage \in {"inserted", "failed", "stopped"}
      BY <1>1 DEF EmptyTenantHasCause
    <3>1. e \in StaffOf(t)'
      BY <2>1, NoRowIsNone DEF StaffOf
    <3>2. u # t /\ StaffOf(u) = {}
      <4>1. StaffOf(u) \subseteq StaffOf(u)'
        BY <2>1
      <4> QED
        BY <3>1, <4>1
    <3>3. PICK q \in Register : reg[q].tenant = u
                  /\ reg[q].stage \in {"inserted", "failed", "stopped"}
      BY <3>2 DEF AInv, EmptyTenantHasCause
    <3> QED
      BY <2>3, <3>2, <3>3
  <2>7. Held
    <3>1. reg'[r].stage # reg[r].stage
      BY <1>1, <2>3
    <3> QED
      BY <2>1, <3>1 DEF Held, Excused
  <2> QED
    BY <2>1, <2>4, <2>5, <2>6, <2>7 DEF AInv
<1> QED
  BY <1>2, <1>3 DEF CreateOwner

\* Removing a workspace and its employees touches no other one.
LEMMA RemoveEffect ==
  ASSUME AInv, NEW t \in Tenant, RemoveTenant(t), UNCHANGED used
  PROVE  /\ tenant' \in [Tenant -> TenantRow \cup {NoRow}]
         /\ tenant'[t] = NoRow
         /\ \A u \in Tenant : u # t => tenant'[u] = tenant[u] /\ StaffOf(u)' = StaffOf(u)
         /\ emp' \in [Employee -> EmployeeRow \cup {NoRow}]
         /\ Keys' /\ RowsUsed'
         /\ \A u \in Tenant : tenant[u] # NoRow /\ Touches(u) => u = t
<1>1. /\ tenant' = [tenant EXCEPT ![t] = NoRow]
      /\ emp' = [e \in Employee |-> IF e \in StaffOf(t) THEN NoRow ELSE emp[e]]
  BY DEF RemoveTenant
<1>2. /\ tenant' \in [Tenant -> TenantRow \cup {NoRow}]
      /\ \A u \in Tenant : tenant'[u] = IF u = t THEN NoRow ELSE tenant[u]
  BY <1>1 DEF AInv, RowsTyped
<1>3. /\ emp' \in [Employee -> EmployeeRow \cup {NoRow}]
      /\ \A e \in Employee :
           emp'[e] = IF emp[e] # NoRow /\ emp[e].tenant = t THEN NoRow ELSE emp[e]
  BY <1>1 DEF AInv, RowsTyped, StaffOf
<1>4. \A u \in Tenant : u # t => StaffOf(u)' = StaffOf(u)
  BY <1>3 DEF StaffOf
<1>5. Keys'
  <2>1. \A e \in Employee : emp[e] # NoRow => emp[e].tenant \in Tenant
    BY Rows DEF AInv
  <2> QED
    BY <1>2, <1>3, <2>1 DEF AInv, Keys
<1>6. RowsUsed'
  BY <1>2, <1>3 DEF AInv, RowsUsed
<1>7. \A u \in Tenant : tenant[u] # NoRow /\ Touches(u) => u = t
  BY <1>2, <1>3, NoRowIsNone DEF Touches
<1> QED
  BY <1>2, <1>3, <1>4, <1>5, <1>6, <1>7

LEMMA RemoveKeepsInside ==
  ASSUME AInv, NEW t \in Tenant, RemoveTenant(t), UNCHANGED used,
         NEW c \in Call, call'[c].op = call[c].op, call'[c].token = call[c].token,
         call'[c].early = call[c].early,
         call'[c].stage = "inside" => call[c].stage = "inside",
         call'[c].stage = "inside", call'[c].op \in Guarded,
         tenant'[Target(c)] # NoRow, ~tenant'[Target(c)].active
  PROVE  call'[c].early
<1>1. Target(c) \in Tenant
  BY DEF AInv, KnowsRow, Target, Token
<1>2. Target(c) # t
  BY <1>1, RemoveEffect
<1> QED
  BY <1>1, <1>2, RemoveEffect DEF AInv, InsideWasOpen

LEMMA RollBackStep ==
  ASSUME AInv, NEW r \in Register, RollBack(r)
  PROVE  AInv' /\ Held
<1> PICK t : t = reg[r].tenant
  OBVIOUS
<1>1. reg[r].stage = "failed" /\ t \in Tenant /\ UNCHANGED <<used, tokens, call>>
  BY DEF RollBack, AInv, KnowsRow
<1>2. CASE RegGo(r, "stopped") /\ UNCHANGED <<tenant, emp>>
  <2>1. RowsTyped' /\ KnowsRow' /\ InsideWasOpen'
    BY <1>1, <1>2, RegGoEffect DEF AInv, RowsTyped, KnowsRow, InsideWasOpen, Target
  <2> QED
    BY <1>1, <1>2, <2>1, RegGoEffect, RowsKept DEF AInv
<1>3. CASE RemoveTenant(t) /\ RegGo(r, "refused")
  <2>1. /\ reg' \in [Register -> RegRecord]
        /\ \A q \in Register : /\ reg'[q].phone = reg[q].phone
                               /\ reg'[q].tenant = reg[q].tenant
                               /\ reg'[q].stage = IF q = r THEN "refused" ELSE reg[q].stage
    BY <1>3, RegGoEffect DEF AInv
  <2>2. /\ tenant' \in [Tenant -> TenantRow \cup {NoRow}]
        /\ tenant'[t] = NoRow
        /\ \A u \in Tenant : u # t => tenant'[u] = tenant[u] /\ StaffOf(u)' = StaffOf(u)
        /\ emp' \in [Employee -> EmployeeRow \cup {NoRow}]
        /\ Keys' /\ RowsUsed'
        /\ \A u \in Tenant : tenant[u] # NoRow /\ Touches(u) => u = t
    BY <1>1, <1>3, RemoveEffect
  <2>3. RowsTyped'
    BY <1>1, <2>1, <2>2 DEF AInv, RowsTyped
  <2>4. KnowsRow'
    BY <1>1, <2>1 DEF AInv, KnowsRow
  <2>5. InsideWasOpen'
    <3> SUFFICES ASSUME NEW c \in Call, call[c].stage = "inside", call[c].op \in Guarded,
                        tenant'[Target(c)] # NoRow, ~tenant'[Target(c)].active
                 PROVE  call[c].early
      BY <1>1 DEF InsideWasOpen, Target
    <3> QED
      BY <1>1, <1>3, RemoveKeepsInside
  <2>6. EmptyTenantHasCause'
    <3> SUFFICES ASSUME NEW u \in Tenant, tenant'[u] # NoRow, StaffOf(u)' = {}
                 PROVE  \E q \in Register : reg'[q].tenant = u
                          /\ reg'[q].stage \in {"inserted", "failed", "stopped"}
      BY DEF EmptyTenantHasCause
    <3>1. u # t
      BY <2>2
    <3>2. PICK q \in Register : reg[q].tenant = u
                  /\ reg[q].stage \in {"inserted", "failed", "stopped"}
      BY <2>2, <3>1 DEF AInv, EmptyTenantHasCause
    <3> QED
      BY <2>1, <3>1, <3>2
  <2>7. Held
    <3>1. reg'[r].stage # reg[r].stage
      BY <1>1, <2>1
    <3> QED
      BY <2>2, <3>1 DEF Held, Excused
  <2> QED
    BY <2>2, <2>3, <2>4, <2>5, <2>6, <2>7 DEF AInv
<1> QED
  BY <1>2, <1>3 DEF RollBack

-----------------------------------------------------------------------------
(* The steps of logins and requests *)

LEMMA LoginStep ==
  ASSUME AInv, NEW p \in Phone, Login(p)
  PROVE  AInv' /\ Held
<1>1. UNCHANGED <<tenant, emp, used, reg, call>>
  BY DEF Login, rowVars
<1>2. RowsTyped'
  BY <1>1, Rows DEF Login, AInv, RowsTyped, TokenOf, Token
<1>3. KnowsRow' /\ InsideWasOpen'
  BY <1>1 DEF AInv, KnowsRow, InsideWasOpen, Target
<1> QED
  BY <1>1, <1>2, <1>3, RowsKept

LEMMA AuthenticateStep ==
  ASSUME AInv, NEW c \in Call, NEW op \in Op, NEW k \in tokens, Authenticate(c, op, k)
  PROVE  AInv' /\ Held
<1>1. UNCHANGED <<tenant, emp, used, tokens, reg>>
  BY DEF Authenticate, rowVars
<1> DEFINE new == [stage |-> "authed", op |-> op, token |-> k, early |-> FALSE]
<1>2. new \in CallRecord /\ new.stage = "authed" /\ new.token \in Token
  BY DEF AInv, RowsTyped, CallRecord
<1>3. call' = [call EXCEPT ![c] = new]
  BY DEF Authenticate
<1> HIDE DEF new
<1>4. /\ call' \in [Call -> CallRecord]
      /\ call'[c] = new
      /\ \A d \in Call : d # c => call'[d] = call[d]
  BY <1>2, <1>3 DEF AInv, RowsTyped
<1>5. RowsTyped'
  BY <1>1, <1>4 DEF AInv, RowsTyped
<1>6. KnowsRow' /\ InsideWasOpen'
  BY <1>1, <1>2, <1>4 DEF AInv, KnowsRow, InsideWasOpen, Target
<1> QED
  BY <1>1, <1>5, <1>6, RowsKept

\* A request that moves on, the rows untouched.
LEMMA CallMoves ==
  ASSUME AInv, NEW c \in Call, NEW st \in {"inside", "done"}, CallGo(c, st),
         UNCHANGED <<tenant, emp, used, tokens, reg>>,
         call[c].stage \in {"authed", "inside"},
         st = "inside" =>
           call[c].op \notin Guarded \/ (tenant[Target(c)] # NoRow /\ tenant[Target(c)].active)
  PROVE  AInv' /\ Held
<1>1. RowsTyped' /\ KnowsRow' /\ InsideWasOpen'
  <2>1. /\ call' \in [Call -> CallRecord]
        /\ \A d \in Call :
              /\ call'[d].op = call[d].op /\ call'[d].token = call[d].token
              /\ call'[d].early = call[d].early
              /\ call'[d].stage = IF d = c THEN st ELSE call[d].stage
    BY CallGoEffect DEF AInv
  <2>2. RowsTyped'
    BY <2>1 DEF AInv, RowsTyped
  <2>3. KnowsRow'
    BY <2>1 DEF AInv, KnowsRow
  <2>4. InsideWasOpen'
    BY <2>1 DEF AInv, InsideWasOpen, Target
  <2> QED
    BY <2>2, <2>3, <2>4
<1> QED
  BY <1>1, RowsKept

LEMMA CheckStatusStep ==
  ASSUME AInv, NEW c \in Call, CheckStatus(c)
  PROVE  AInv' /\ Held
<1> DEFINE ok == call[c].op \notin Guarded
                   \/ (tenant[Target(c)] # NoRow /\ tenant[Target(c)].active)
<1>1. /\ call[c].stage = "authed"
      /\ CallGo(c, IF ok THEN "inside" ELSE "done")
      /\ UNCHANGED <<tenant, emp, used, tokens, reg>>
  BY DEF CheckStatus, rowVars
<1>2. CASE ok
  BY <1>1, <1>2, CallMoves
<1>3. CASE ~ok
  BY <1>1, <1>3, CallMoves
<1> QED
  BY <1>2, <1>3

LEMMA FailStep ==
  ASSUME AInv, NEW c \in Call, Fail(c)
  PROVE  AInv' /\ Held
  BY CallMoves DEF Fail, rowVars

\* The request that a suspended workspace excuses: it is past the check, and was
\* so when the workspace was suspended.
LEMMA RequestExcused ==
  ASSUME AInv, NEW c \in Call, NEW u \in Tenant, CallGo(c, "done"),
         call[c].stage = "inside", Target(c) = u,
         call[c].op \in Op, tenant[u] # NoRow, ~tenant[u].active
  PROVE  Excused(u)
<1>1. call'[c].stage = "done"
  BY CallGoEffect DEF AInv
<1>2. call[c].early \/ call[c].op = "deleteAccount"
  BY DEF AInv, InsideWasOpen, Op
<1> QED
  BY <1>1, <1>2 DEF Excused

LEMMA CallTarget ==
  ASSUME AInv, NEW c \in Call, call[c].stage = "inside"
  PROVE  Target(c) \in Tenant /\ call[c].op \in Op
  BY DEF AInv, KnowsRow, Target, Token, RowsTyped, CallRecord

\* A request that writes and is done; the workspaces stay as they are.
LEMMA StaffWritten ==
  ASSUME AInv, NEW c \in Call, CallGo(c, "done"), call[c].stage = "inside",
         UNCHANGED <<tenant, tokens, reg>>,
         emp' \in [Employee -> EmployeeRow \cup {NoRow}],
         used' \subseteq Tenant \cup Employee, Keys', RowsUsed',
         \A u \in Tenant : StaffOf(u) \subseteq StaffOf(u)',
         \A u \in Tenant : tenant[u] # NoRow /\ Touches(u) => u = Target(c)
  PROVE  AInv' /\ Held
<1>1. /\ call' \in [Call -> CallRecord]
      /\ \A d \in Call :
            /\ call'[d].op = call[d].op /\ call'[d].token = call[d].token
            /\ call'[d].early = call[d].early
            /\ call'[d].stage = IF d = c THEN "done" ELSE call[d].stage
  BY CallGoEffect DEF AInv
<1>2. RowsTyped'
  BY <1>1 DEF AInv, RowsTyped
<1>3. KnowsRow' /\ InsideWasOpen'
  BY <1>1 DEF AInv, KnowsRow, InsideWasOpen, Target
<1>4. EmptyTenantHasCause'
  <2> SUFFICES ASSUME NEW u \in Tenant, tenant[u] # NoRow, StaffOf(u)' = {}
               PROVE  \E q \in Register : reg[q].tenant = u
                        /\ reg[q].stage \in {"inserted", "failed", "stopped"}
    BY DEF EmptyTenantHasCause
  <2>1. StaffOf(u) \subseteq StaffOf(u)'
    OBVIOUS
  <2>2. StaffOf(u) = {}
    BY <2>1
  <2> QED
    BY <2>2 DEF AInv, EmptyTenantHasCause
<1>5. Held
  BY CallTarget, RequestExcused DEF Held
<1> QED
  BY <1>2, <1>3, <1>4, <1>5 DEF AInv

LEMMA AddStaffStep ==
  ASSUME AInv, NEW c \in Call, NEW e \in Employee, NEW p \in Phone, AddStaff(c, e, p)
  PROVE  AInv' /\ Held
<1> PICK t : t = Target(c)
  OBVIOUS
<1>1. /\ call[c].stage = "inside" /\ CallGo(c, "done")
      /\ InsertEmployee(e, t, p, "employee") /\ used' = used \cup {e}
      /\ UNCHANGED <<tenant, tokens, reg>>
  BY DEF AddStaff
<1>2. t \in Tenant /\ "employee" \in Role
  BY <1>1, CallTarget DEF Role
<1>3. /\ emp' \in [Employee -> EmployeeRow \cup {NoRow}]
      /\ used' \subseteq Tenant \cup Employee
      /\ Keys' /\ RowsUsed'
      /\ \A u \in Tenant : StaffOf(u) \subseteq StaffOf(u)'
      /\ \A u \in Tenant : tenant[u] # NoRow /\ Touches(u) => u = t
  BY <1>1, <1>2, InsertEffect
<1> QED
  BY <1>1, <1>3, StaffWritten

LEMMA DismissStep ==
  ASSUME AInv, NEW c \in Call, NEW e \in Employee, Dismiss(c, e)
  PROVE  AInv' /\ Held
<1> PICK t : t = Target(c)
  OBVIOUS
<1>1. /\ call[c].stage = "inside" /\ CallGo(c, "done")
      /\ emp[e] # NoRow /\ emp[e].tenant = t
      /\ emp' = [emp EXCEPT ![e].active = FALSE]
      /\ UNCHANGED <<tenant, used, tokens, reg>>
  BY DEF Dismiss, StaffOf
<1>2. ASSUME NEW w \in EmployeeRow
      PROVE  LET v == [w EXCEPT !.active = FALSE]
             IN v \in EmployeeRow /\ v.tenant = w.tenant
  BY DEF EmployeeRow
<1>3. emp[e] \in EmployeeRow
  BY <1>1, Rows DEF AInv
<1>4. /\ emp' \in [Employee -> EmployeeRow \cup {NoRow}]
      /\ emp'[e] \in EmployeeRow /\ emp'[e].tenant = t
      /\ \A f \in Employee : f # e => emp'[f] = emp[f]
  BY <1>1, <1>2, <1>3 DEF AInv, RowsTyped
<1>5. Keys' /\ RowsUsed'
  BY <1>1, <1>4 DEF AInv, Keys, RowsUsed
<1>6. \A u \in Tenant : StaffOf(u) \subseteq StaffOf(u)'
  BY <1>1, <1>4, NoRowIsNone DEF StaffOf
<1>7. \A u \in Tenant : tenant[u] # NoRow /\ Touches(u) => u = t
  BY <1>1, <1>4 DEF Touches
<1>8. used' \subseteq Tenant \cup Employee
  BY <1>1 DEF AInv, RowsTyped
<1> QED
  BY <1>1, <1>4, <1>5, <1>6, <1>7, <1>8, StaffWritten

LEMMA SetProfileStep ==
  ASSUME AInv, NEW c \in Call, NEW p \in Phone, SetProfile(c, p)
  PROVE  AInv' /\ Held
<1> PICK t : t = Target(c)
  OBVIOUS
<1>1. /\ call[c].stage = "inside" /\ CallGo(c, "done")
      /\ tenant[t] # NoRow
      /\ \A u \in Tenant : u # t => ~HasPhone(u, p)
      /\ tenant' = [tenant EXCEPT ![t].phone = p]
      /\ UNCHANGED <<emp, used, tokens, reg>>
  BY DEF SetProfile
<1>2. t \in Tenant
  BY <1>1, CallTarget
<1>3. ASSUME NEW w \in TenantRow
      PROVE  LET v == [w EXCEPT !.phone = p]
             IN v \in TenantRow /\ v.phone = p /\ v.active = w.active
  BY DEF TenantRow
<1>4. /\ tenant' \in [Tenant -> TenantRow \cup {NoRow}]
      /\ tenant'[t] # NoRow /\ tenant'[t].phone = p /\ tenant'[t].active = tenant[t].active
      /\ \A u \in Tenant : u # t => tenant'[u] = tenant[u]
  <2>1. tenant[t] \in TenantRow
    BY <1>1, <1>2 DEF AInv, RowsTyped
  <2>2. tenant'[t] \in TenantRow /\ tenant'[t].phone = p
          /\ tenant'[t].active = tenant[t].active
    BY <1>1, <1>2, <1>3, <2>1 DEF AInv, RowsTyped
  <2> QED
    BY <1>1, <1>2, <2>2, NoRowIsNone DEF AInv, RowsTyped
<1>5. /\ call' \in [Call -> CallRecord]
      /\ \A d \in Call :
            /\ call'[d].op = call[d].op /\ call'[d].token = call[d].token
            /\ call'[d].early = call[d].early
            /\ call'[d].stage = IF d = c THEN "done" ELSE call[d].stage
  BY <1>1, CallGoEffect DEF AInv
<1>6. RowsTyped'
  BY <1>1, <1>4, <1>5 DEF AInv, RowsTyped
<1>7. Keys'
  <2>1. \A e \in Employee : emp[e] # NoRow => emp[e].tenant \in Tenant
    BY Rows DEF AInv
  <2> QED
    BY <1>1, <1>2, <1>4, <2>1 DEF AInv, Keys, HasPhone
<1>8. RowsUsed'
  BY <1>1, <1>4 DEF AInv, RowsUsed
<1>9. KnowsRow'
  BY <1>1, <1>5 DEF AInv, KnowsRow
<1>10. InsideWasOpen'
  <2> SUFFICES ASSUME NEW d \in Call, call[d].stage = "inside", call[d].op \in Guarded,
                      tenant'[Target(d)] # NoRow, ~tenant'[Target(d)].active
               PROVE  call[d].early
    BY <1>5 DEF InsideWasOpen, Target
  <2>1. Target(d) \in Tenant
    BY CallTarget
  <2> QED
    BY <1>1, <1>4, <2>1 DEF AInv, InsideWasOpen
<1>11. EmptyTenantHasCause'
  <2> SUFFICES ASSUME NEW u \in Tenant, tenant'[u] # NoRow, StaffOf(u) = {}
               PROVE  \E q \in Register : reg[q].tenant = u
                        /\ reg[q].stage \in {"inserted", "failed", "stopped"}
    BY <1>1 DEF EmptyTenantHasCause, StaffOf
  <2>1. tenant[u] # NoRow
    BY <1>1, <1>4
  <2> QED
    BY <2>1 DEF AInv, EmptyTenantHasCause
<1>12. Held
  <2> SUFFICES ASSUME NEW u \in Tenant, tenant[u] # NoRow, ~tenant[u].active, Touches(u)
               PROVE  Excused(u)
    BY DEF Held
  <2>1. u = t
    BY <1>1, <1>4 DEF Touches
  <2> QED
    BY <1>1, <2>1, CallTarget, RequestExcused
<1> QED
  BY <1>6, <1>7, <1>8, <1>9, <1>10, <1>11, <1>12 DEF AInv

LEMMA DeleteAccountStep ==
  ASSUME AInv, NEW c \in Call, DeleteAccount(c)
  PROVE  AInv' /\ Held
<1> PICK t : t = Target(c)
  OBVIOUS
<1>1. /\ call[c].stage = "inside" /\ call[c].op = "deleteAccount" /\ CallGo(c, "done")
      /\ RemoveTenant(t) /\ UNCHANGED <<used, tokens, reg>>
  BY DEF DeleteAccount
<1>2. t \in Tenant
  BY <1>1, CallTarget
<1>3. /\ tenant' \in [Tenant -> TenantRow \cup {NoRow}]
      /\ tenant'[t] = NoRow
      /\ \A u \in Tenant : u # t => tenant'[u] = tenant[u] /\ StaffOf(u)' = StaffOf(u)
      /\ emp' \in [Employee -> EmployeeRow \cup {NoRow}]
      /\ Keys' /\ RowsUsed'
      /\ \A u \in Tenant : tenant[u] # NoRow /\ Touches(u) => u = t
  BY <1>1, <1>2, RemoveEffect
<1>4. /\ call' \in [Call -> CallRecord]
      /\ \A d \in Call :
            /\ call'[d].op = call[d].op /\ call'[d].token = call[d].token
            /\ call'[d].early = call[d].early
            /\ call'[d].stage = IF d = c THEN "done" ELSE call[d].stage
  BY <1>1, CallGoEffect DEF AInv
<1>5. RowsTyped'
  BY <1>1, <1>3, <1>4 DEF AInv, RowsTyped
<1>6. KnowsRow'
  BY <1>1, <1>4 DEF AInv, KnowsRow
<1>7. InsideWasOpen'
  <2> SUFFICES ASSUME NEW d \in Call, call'[d].stage = "inside", call'[d].op \in Guarded,
                      tenant'[Target(d)] # NoRow, ~tenant'[Target(d)].active
               PROVE  call'[d].early
    BY <1>4 DEF InsideWasOpen, Target
  <2>1. call'[d].stage = "inside" => call[d].stage = "inside"
    BY <1>4
  <2> QED
    BY <1>1, <1>2, <1>4, <2>1, RemoveKeepsInside
<1>8. EmptyTenantHasCause'
  <2> SUFFICES ASSUME NEW u \in Tenant, tenant'[u] # NoRow, StaffOf(u)' = {}
               PROVE  \E q \in Register : reg[q].tenant = u
                        /\ reg[q].stage \in {"inserted", "failed", "stopped"}
    BY <1>1 DEF EmptyTenantHasCause
  <2>1. u # t
    BY <1>3
  <2> QED
    BY <1>3, <2>1 DEF AInv, EmptyTenantHasCause
<1>9. Held
  BY <1>1, <1>3, CallTarget, RequestExcused DEF Held
<1> QED
  BY <1>3, <1>5, <1>6, <1>7, <1>8, <1>9 DEF AInv

\* Who is past the check when a workspace is suspended is noted.
LEMMA SetActiveStep ==
  ASSUME AInv, NEW t \in Tenant, NEW active \in BOOLEAN, SetActive(t, active)
  PROVE  AInv' /\ Held
<1>1. /\ tenant[t] # NoRow
      /\ tenant' = [tenant EXCEPT ![t].active = active]
      /\ UNCHANGED <<emp, used, tokens, reg>>
  BY DEF SetActive
<1>2. ASSUME NEW w \in TenantRow
      PROVE  LET v == [w EXCEPT !.active = active]
             IN v \in TenantRow /\ v.phone = w.phone /\ v.active = active
  BY DEF TenantRow
<1>3. /\ tenant' \in [Tenant -> TenantRow \cup {NoRow}]
      /\ tenant'[t] # NoRow /\ tenant'[t].phone = tenant[t].phone
      /\ tenant'[t].active = active
      /\ \A u \in Tenant : u # t => tenant'[u] = tenant[u]
  <2>1. tenant[t] \in TenantRow
    BY <1>1 DEF AInv, RowsTyped
  <2>2. /\ tenant'[t] \in TenantRow /\ tenant'[t].phone = tenant[t].phone
        /\ tenant'[t].active = active
    BY <1>1, <1>2, <2>1 DEF AInv, RowsTyped
  <2> QED
    BY <1>1, <2>2, NoRowIsNone DEF AInv, RowsTyped
<1>4. /\ call' \in [Call -> CallRecord]
      /\ \A d \in Call :
            /\ call'[d].op = call[d].op /\ call'[d].token = call[d].token
            /\ call'[d].stage = call[d].stage
            /\ call'[d].early = (call[d].early
                 \/ (call[d].stage = "inside" /\ Target(d) = t /\ ~active))
  <2> DEFINE hit(d) == call[d].stage = "inside" /\ Target(d) = t /\ ~active
  <2>1. ASSUME NEW w \in CallRecord, NEW b \in BOOLEAN
        PROVE  LET v == [w EXCEPT !.early = @ \/ b]
               IN /\ v \in CallRecord /\ v.op = w.op /\ v.token = w.token
                  /\ v.stage = w.stage /\ v.early = (w.early \/ b)
    BY DEF CallRecord
  <2>2. call' = [d \in Call |-> [call[d] EXCEPT !.early = @ \/ hit(d)]]
    BY DEF SetActive
  <2>3. \A d \in Call : hit(d) \in BOOLEAN
    OBVIOUS
  <2> HIDE DEF hit
  <2>4. \A d \in Call : LET v == [call[d] EXCEPT !.early = @ \/ hit(d)]
               IN /\ v \in CallRecord /\ v.op = call[d].op /\ v.token = call[d].token
                  /\ v.stage = call[d].stage /\ v.early = (call[d].early \/ hit(d))
    BY <2>1, <2>3 DEF AInv, RowsTyped
  <2>5. /\ call' \in [Call -> CallRecord]
        /\ \A d \in Call :
              /\ call'[d].op = call[d].op /\ call'[d].token = call[d].token
              /\ call'[d].stage = call[d].stage
              /\ call'[d].early = (call[d].early \/ hit(d))
    BY <2>2, <2>4
  <2> QED
    BY <2>5 DEF hit
<1>5. RowsTyped'
  BY <1>1, <1>3, <1>4 DEF AInv, RowsTyped
<1>6. Keys'
  <2>1. \A e \in Employee : emp[e] # NoRow => emp[e].tenant \in Tenant
    BY Rows DEF AInv
  <2> QED
    BY <1>1, <1>3, <2>1 DEF AInv, Keys
<1>7. RowsUsed'
  BY <1>1, <1>3 DEF AInv, RowsUsed
<1>8. KnowsRow'
  BY <1>1, <1>4 DEF AInv, KnowsRow
<1>9. InsideWasOpen'
  <2> SUFFICES ASSUME NEW d \in Call, call[d].stage = "inside", call[d].op \in Guarded,
                      tenant'[Target(d)] # NoRow, ~tenant'[Target(d)].active
               PROVE  call'[d].early
    BY <1>4 DEF InsideWasOpen, Target
  <2>1. Target(d) \in Tenant
    BY CallTarget
  <2>2. CASE Target(d) = t
    BY <1>3, <1>4, <2>2
  <2>3. CASE Target(d) # t
    <3>1. call[d].early
      BY <1>3, <2>1, <2>3 DEF AInv, InsideWasOpen
    <3> QED
      BY <1>4, <3>1
  <2> QED
    BY <2>2, <2>3
<1>10. EmptyTenantHasCause'
  <2> SUFFICES ASSUME NEW u \in Tenant, tenant'[u] # NoRow, StaffOf(u) = {}
               PROVE  \E q \in Register : reg[q].tenant = u
                        /\ reg[q].stage \in {"inserted", "failed", "stopped"}
    BY <1>1 DEF EmptyTenantHasCause, StaffOf
  <2>1. tenant[u] # NoRow
    BY <1>1, <1>3
  <2> QED
    BY <2>1 DEF AInv, EmptyTenantHasCause
<1>11. Held
  BY <1>1, <1>3 DEF Held, Touches
<1> QED
  BY <1>5, <1>6, <1>7, <1>8, <1>9, <1>10, <1>11 DEF AInv

-----------------------------------------------------------------------------
(* The specification *)

LEMMA StepAInv ==
  ASSUME AInv, AccessNext
  PROVE  AInv' /\ Held
  BY CheckPhoneStep, LoginStep, CreateTenantStep, CreateOwnerStep, RollBackStep,
     StopRegisterStep, AuthenticateStep, CheckStatusStep, DeleteAccountStep, FailStep,
     AddStaffStep, DismissStep, SetProfileStep, SetActiveStep DEF AccessNext

LEMMA StutterAInv ==
  ASSUME AInv, UNCHANGED accessVars
  PROVE  AInv' /\ Held
<1>1. UNCHANGED <<tenant, emp, used, tokens, reg, call>>
  BY DEF accessVars, rowVars
<1>2. RowsTyped' /\ KnowsRow' /\ InsideWasOpen'
  BY <1>1 DEF AInv, RowsTyped, KnowsRow, InsideWasOpen, Target
<1> QED
  BY <1>1, <1>2, RowsKept

IInv == LimiterInv /\ AInv

LEMMA InitIInv == Init => IInv
  BY InitAInv, InitLimiterInv DEF Init, IInv

LEMMA StepIInv == IInv /\ [Next]_vars => IInv' /\ Held
  BY StepMaps, LimiterKeeps, StepAInv, StutterAInv DEF IInv

LEMMA Invariant == Spec => []IInv
  BY InitIInv, StepIInv, PTL DEF Spec

-----------------------------------------------------------------------------

\* The types, the foreign key of employees, the unique phone of workspaces, and
\* the size of the limiter's map.
THEOREM AccessTypeCorrect == Spec => []TypeOK
<1>1. IInv => TypeOK
  BY DEF IInv, LimiterInv, MapOK, AInv, RowsTyped, Keys, TypeOK, RegRecord, CallRecord
<1> QED
  BY <1>1, Invariant, PTL

\* However many registrations race and wherever they stop, a workspace that
\* nobody can log in to is one of a registration that is under way, was stopped,
\* or lost its rollback.
THEOREM EmptyTenantsHaveCauses == Spec => []EmptyTenantHasCause
<1>1. IInv => EmptyTenantHasCause
  BY DEF IInv, AInv
<1> QED
  BY <1>1, Invariant, PTL

\* For every limit (zero and negative ones too), window, size of the map and wait
\* for the mutex: one counter and one time for each address, requests that set the
\* time back, refused ones that move it, and a sweeper that forgets, let no window
\* that is shorter by the wait pass more than the limit.
THEOREM RatesBounded == Spec => []RateBounded
<1>1. IInv => RateBounded
  BY DEF IInv, LimiterInv, Remembered, RateBounded, Short
<1> QED
  BY <1>1, Invariant, PTL

\* A suspended workspace is changed only by requests that were past the check of
\* its status when it was suspended, by the deletion of the account, and by a
\* registration that is not over.
THEOREM SuspensionsHold == Spec => SuspensionHolds
<1>1. IInv /\ [Next]_vars => [\A t \in Tenant :
       /\ tenant[t] # NoRow /\ ~tenant[t].active
       /\ tenant'[t] = NoRow \/ tenant'[t].phone # tenant[t].phone
            \/ \E e \in Employee : emp'[e] # emp[e] /\ {emp[e], emp'[e]} \cap
                  {x \in EmployeeRow : x.tenant = t} # {}
       => \/ \E c \in Call : /\ call[c].stage = "inside" /\ call'[c].stage = "done"
                             /\ Target(c) = t
                             /\ call[c].early \/ call[c].op = "deleteAccount"
          \/ \E r \in Register : reg[r].tenant = t /\ reg'[r].stage # reg[r].stage]_vars
  BY StepIInv DEF Held, Touches, Excused
<1> QED
  BY <1>1, Invariant, PTL DEF Spec, SuspensionHolds
=============================================================================
