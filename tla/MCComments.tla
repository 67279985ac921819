----------------------------- MODULE MCComments -----------------------------
(* Instances of Comments for TLC. *)
EXTENDS Comments

CONSTANTS u1, u2, c1, c2, c3, i1, i2, i3

MCAuthor == c1 :> u1 @@ c2 :> u1 @@ c3 :> u2
TwoAuthors == c1 :> u1 @@ c3 :> u2
MCAdmins == {u2}

\* With all liberties, of which none need be taken, the sets between are covered.
NoneOrAll == {{}, AllLiberties}

\* With deletions alone the copy does lose comments.
DeletionsAlone == {{"delete"}}

Symmetry == Permutations(Tasks) \cup Permutations(SessionIds)

\* View: an object nobody refers to is never read again (PageJoin empties it),
\* and no action reads shown.
Copies == [i \in SessionIds |->
             IF i = live \/ \E t \in Tasks : tasks[t].sess = i THEN comments[i] ELSE <<>>]
WithoutShown == <<rows, gone, live, Copies, mapped, present, tasks, liberties>>
=============================================================================
