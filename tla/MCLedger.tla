------------------------------ MODULE MCLedger ------------------------------
(***************************************************************************)
(* Instances of Ledger: two devices that edit entries, one of which may    *)
(* have been created in the app, and one or two settlements.               *)
(***************************************************************************)
EXTENDS Ledger, TLC

CONSTANTS d1, d2, s1, s2, c1

Nobody == {}
TwoDevices == {d1, d2}
OneSettler == {s1}
TwoSettlers == {s1, s2}
OneClient == {c1}

OneAmount == {1}
EitherSign == {-1, 1}

TypedIn == [c \in Client |-> [kind |-> "udhaar", amount |-> 1]]

\* The devices are interchangeable in every action and every property.
DeviceSymmetry == Permutations(TwoDevices)
=============================================================================
