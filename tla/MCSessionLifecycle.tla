------------------------- MODULE MCSessionLifecycle -------------------------
(* Instances of SessionLifecycle for TLC: the values the configurations give its constants. *)
EXTENDS SessionLifecycle, TLC

CONSTANTS s1, s2, n1, n2

OneName == s1 :> n1
SameName == s1 :> n1 @@ s2 :> n1
TwoNames == s1 :> n1 @@ s2 :> n2

\* Request slots, task slots and engine objects are interchangeable.
Symmetry == Permutations(Clients) \cup Permutations(Tasks) \cup Permutations(Engines)

\* So are two sessions of one name.
NamesakeSymmetry == Symmetry \cup Permutations(Ids)
=============================================================================
