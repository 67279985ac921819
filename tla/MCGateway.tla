------------------------------ MODULE MCGateway ------------------------------
(* Instances of Gateway for TLC. *)
EXTENDS Gateway, TLC

CONSTANTS u1, u2, s1, s2, pageA, pageB, linkA, notUrl,
          projectA, projectB, noProject

\* linkA is pageA with a query string or a fragment.
MCNormalizeUrl == pageA :> pageA @@ pageB :> pageB @@ linkA :> pageA @@ notUrl :> notUrl
MCNormalizeOne == pageA :> pageA @@ linkA :> pageA
MCProjects == pageA :> projectA @@ pageB :> projectB @@ notUrl :> noProject
MCProjectsOne == pageA :> projectA

TwoConnections == s1 :> u1 @@ s2 :> u2

NoDbError == {AllLiberties \ {"dbError"}}
Disorders == {{}, {"overlap"}, {"dbError"}}
NoLiberty == {{}}

\* Views: an object nobody refers to is never read again (EnterSession resets
\* it), and no action reads heard.
Reachable == [i \in SessionIds |-> IF i \in Held THEN session[i] ELSE None]
WithoutHeard ==
    <<connected, rooms, userVars, socketVars, tasks, liberties,
      urlSessions, urlProjectMap, projectIdUrlMap, Reachable>>
HeardInOrder == <<WithoutHeard, IF liberties = {} THEN heard ELSE None>>

Symmetry == Permutations(Tasks) \cup Permutations(SessionIds)

\* Users are interchangeable with their connections.
UserSymmetry == Symmetry \cup { u1 :> u2 @@ u2 :> u1 @@ s1 :> s2 @@ s2 :> s1 }
=============================================================================
