-------------------------------- MODULE MCBible --------------------------------
(* Instances of Bible for TLC. *)
EXTENDS Bible, TLC

CONSTANTS said, set, c, elan, Elan

\* An analysis or an added row has both fields, and never what the user types: of
\* two values that differ, one is the user's, who may also blank a field.
MCGiven == {[main |-> said, minor |-> c]}
MCTyped == [main |-> {set, Blank}, minor |-> {c}]

\* Python folds "E'lan" and "e'lan" to one key, SQLite does not.
MCKey == [n \in Names |-> elan]

\* The workers of a series run under its *arr id.
MCLane == [w \in Workers |-> 1]

MCSymmetry == Permutations(Requests)
===============================================================================
