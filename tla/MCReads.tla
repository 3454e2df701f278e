------------------------------ MODULE MCReads -------------------------------
(***************************************************************************)
(* Two instances of Reads.  MCReads.cfg: a roster that two requests read   *)
(* while a mark is written and deletes its key, with a clock.  MCStaff.cfg:*)
(* two updates of one employee, who is moved between two shifts that may   *)
(* be deleted, a mark, and a reader of an overview and a dashboard.        *)
(***************************************************************************)
EXTENDS Reads, TLC

CONSTANTS e1, e2, s1, s2, w1, w2, u1, u2, m1, m2, r1, r2, r3, roster, dashboard

\* one request raises the wage, the other one moves the employee to a shift
Edits == [u \in Updater |-> IF u = u1 THEN [of |-> e1, wage |-> w2, shift |-> Blank]
                                      ELSE [of |-> e1, wage |-> Blank, shift |-> s1]]

Symmetry == Permutations({r1, r2, r3})
=============================================================================
