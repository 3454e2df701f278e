----------------------------- MODULE RateLimiter -----------------------------
(***************************************************************************)
(* The rate limiter in front of the routes: a bounded map from addresses   *)
(* to a counter and the time of the last request.  Every request moves     *)
(* that time, a refused one too; the counter starts again after a silence  *)
(* that is longer than the window.  A sweeper forgets silent addresses.    *)
(* A request reads the clock before it waits for the mutex: what it writes *)
(* may be older than what it finds.  Times are kept as ages, in ticks.     *)
(***************************************************************************)
EXTENDS Integers, FiniteSets, Functions

CONSTANTS Address,
          MaxRequests, \* the limit: whatever the environment sets
          Window,      \* the window, in ticks
          CleanupAge,  \* the silence after which the sweeper forgets
          MaxSize,     \* how many addresses the map holds
          Wait         \* bound: how long a request waits for the mutex, in ticks

ASSUME LimiterAssumption ==
  /\ MaxRequests \in Int /\ MaxSize \in Nat \ {0} /\ Wait \in Nat
  /\ Window \in Nat \ {0}
  /\ CleanupAge \in Nat /\ CleanupAge >= Window  \* a minute each

VARIABLES visitors, \* visitors[a]: the entry of the map
          admitted  \* history: admitted[a][i], how many of a's requests were
                    \* let through since i ticks ago

limiterVars == <<visitors, admitted>>

\* The first request after a silence is let through under any limit.
Limit == IF MaxRequests > 1 THEN MaxRequests ELSE 1

Oldest == CleanupAge + Wait + 1  \* older makes no difference
Age == 0..Oldest
Count == 1..(Limit + 1)

LimiterTypeOK ==
  /\ DOMAIN visitors \subseteq Address
  /\ Cardinality(DOMAIN visitors) <= MaxSize
  /\ \A a \in DOMAIN visitors : visitors[a] \in [age : Age, count : Count]
  /\ admitted \in [Address -> [0..Window -> Nat]]

LimiterInit ==
  /\ visitors = [a \in {} |-> a]
  /\ admitted = [a \in Address |-> [i \in 0..Window |-> 0]]

Known(a) == a \in DOMAIN visitors
Capped(n) == IF n > Limit + 1 THEN Limit + 1 ELSE n

\* For a request that read the clock `lag` ticks ago.
Fresh(a, lag) == Known(a) => visitors[a].age - lag > Window
NewCount(a, lag) == IF Fresh(a, lag) THEN 1 ELSE Capped(visitors[a].count + 1)

FullOffByOne(a) ==  \* mutant
  ~Known(a) /\ Cardinality(DOMAIN visitors) > MaxSize
Full(a) == ~Known(a) /\ Cardinality(DOMAIN visitors) >= MaxSize
Admits(a, lag) == ~Full(a) /\ (Fresh(a, lag) \/ NewCount(a, lag) <= MaxRequests)

\* allow(): what the map holds of the address after the request.
Seen(a, lag) ==
  visitors' = IF Full(a) THEN visitors
              ELSE [b \in DOMAIN visitors \cup {a} |->
                      IF b = a THEN [age |-> lag, count |-> NewCount(a, lag)]
                               ELSE visitors[b]]

Admit(a) ==
  /\ \E lag \in 0..Wait : Admits(a, lag) /\ Seen(a, lag)
  /\ admitted' = [admitted EXCEPT ![a] = [i \in 0..Window |-> @[i] + 1]]

Refuse(a) ==
  /\ \E lag \in 0..Wait : ~Admits(a, lag) /\ Seen(a, lag)
  /\ UNCHANGED admitted

Tick ==
  /\ visitors' = [a \in DOMAIN visitors |->
       [visitors[a] EXCEPT !.age = IF @ = Oldest THEN @ ELSE @ + 1]]
  /\ admitted' = [a \in Address |-> [i \in 0..Window |->
       IF i = 0 THEN 0 ELSE admitted[a][i - 1]]]

SweepWindow ==  \* mutant: what was silent for less than the window goes too
  /\ visitors' = Restrict(visitors, {a \in DOMAIN visitors : visitors[a].age < CleanupAge})
  /\ UNCHANGED admitted

Sweep ==
  /\ visitors' = Restrict(visitors, {a \in DOMAIN visitors : visitors[a].age <= CleanupAge})
  /\ UNCHANGED admitted

-----------------------------------------------------------------------------
\* A client is let through at most as often as the limit says (once, when it says
\* less) in any window that is shorter by the longest wait for the mutex: a request
\* that waited sets the time of the last one back, and the counter may start again
\* that much earlier.
RateBounded ==
  \A a \in Address, i \in 0..Window : i + Wait <= Window => admitted[a][i] <= Limit
=============================================================================
