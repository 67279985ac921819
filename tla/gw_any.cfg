SPECIFICATION Spec
CONSTANTS
  u1 = u1  u2 = u2  s1 = s1  s2 = s2
  pageA = pageA  pageB = pageB  linkA = linkA  notUrl = notUrl
  projectA = projectA  projectB = projectB  noProject = noProject
  Users = {u1, u2}
  Sockets = {s1, s2}
  Owner <- TwoConnections
  Urls = {pageA, pageB, notUrl}
  Links = {pageA, pageB, linkA, notUrl}
  Unparsable = {notUrl}
  normalizeUrl <- MCNormalizeUrl
  Projects = {projectA, projectB, noProject}
  urlToProjectId <- MCProjects
  SessionIds = {i1, i2, i3}
  Tasks = {t1, t2}
  LibertySets <- Disorders
  None = None
SYMMETRY UserSymmetry
VIEW HeardInOrder
INVARIANTS TypeOK CursorsOfMembers ProjectIsolation NoGhost ClosesOwnProject NothingLeftOver RosterAgrees
