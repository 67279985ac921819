SPECIFICATION FairSpec
CONSTANTS
  u1 = u1  u2 = u2  s1 = s1  s2 = s2
  pageA = pageA  pageB = pageB  linkA = linkA  notUrl = notUrl
  projectA = projectA  projectB = projectB  noProject = noProject
  Users = {u1, u2}
  Sockets = {s1, s2}
  Owner <- TwoConnections
  Urls = {pageA}
  Links = {pageA, linkA}
  Unparsable = {}
  normalizeUrl <- MCNormalizeOne
  Projects = {projectA}
  urlToProjectId <- MCProjectsOne
  SessionIds = {i1, i2, i3}
  Tasks = {t1, t2}
  LibertySets <- NoDbError
  None = None
VIEW WithoutHeard
INVARIANTS EmptySessionIsHeld
PROPERTIES EmptySessionEnds
CHECK_DEADLOCK FALSE
