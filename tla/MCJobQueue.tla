------------------------------ MODULE MCJobQueue ------------------------------
(* Instances of JobQueue for TLC. *)
EXTENDS JobQueue, TLC

CONSTANTS p1, p2, s1, movies

TwoPaths    == {p1, p2}
Keys        == {s1, movies}
SameSeries  == [p \in TwoPaths |-> s1]
OnePath     == {p1}
OneSeries   == [p \in OnePath |-> s1]
Sym == Permutations(Slots) \union Permutations(Callers)
SymPaths == Permutations(Slots) \union Permutations(TwoPaths)
=============================================================================
