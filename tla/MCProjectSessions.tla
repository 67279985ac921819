------------------------- MODULE MCProjectSessions -------------------------
(* Instances of ProjectSessions for TLC. *)
EXTENDS ProjectSessions, TLC

\* All that the properties can stand; none need be taken.
OneByOne == {AllLiberties \ {"overlap"}}

Symmetry == Permutations(Users) \cup Permutations(Projects)
            \cup Permutations(RowIds) \cup Permutations(Tasks)
=============================================================================
