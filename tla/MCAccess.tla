------------------------------ MODULE MCAccess ------------------------------
(***************************************************************************)
(* Instances of Access: two registrations, of one phone or of two, and     *)
(* two requests behind the login, from one address or two.                 *)
(***************************************************************************)
EXTENDS Access, TLC

CONSTANTS p1, p2, t1, t2, e1, e2, e3, g1, g2, c1, c2, a1, a2

Symmetry == Permutations({p1, p2}) \cup Permutations({t1, t2})
              \cup Permutations({e1, e2, e3}) \cup Permutations({g1, g2})
              \cup Permutations({c1, c2}) \cup Permutations({a1, a2})

\* The clock stands still once a request is behind the login.
ClockWaits ==
  Tick \/ Sweep => \A c \in Call : call[c].stage = "idle"
=============================================================================
