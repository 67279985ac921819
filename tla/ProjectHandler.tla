--------------------------- MODULE ProjectHandler ---------------------------
(***************************************************************************)
(* The rules of ProjectHandler: who may enter a project, what its settings *)
(* are, which data of a project are valid.  Its URL methods are those of   *)
(* UrlHandler, line for line.  A name is its length once trimmed, a        *)
(* description its length, settings are a function on the keys given.      *)
(***************************************************************************)
EXTENDS UrlHandler, FiniteSets, FiniteSetsExt

normalizeProjectUrl(url) == normalizeUrl(url)

generateProjectIdFromUrl(url) == HashOf(normalizeProjectUrl(url))

validateUrlOfProject(url) == validateUrl(url)

ProjectNameFromUrl(url) == generateProjectNameFromUrl(url)

DefaultSettings ==
    [allowComments |-> TRUE, allowGuests |-> TRUE, isPublic |-> TRUE, maxCollaborators |-> 50,
     enableRealTimeSync |-> TRUE, enableMouseTracking |-> TRUE, enableNotifications |-> TRUE,
     language |-> "ko", theme |-> "light", autoSave |-> TRUE, version |-> "1.0.0"]

\* { ...first, ...second }
Spread(first, second) ==
    [key \in DOMAIN first \cup DOMAIN second |->
       IF key \in DOMAIN second THEN second[key] ELSE first[key]]

createProjectSettings(customSettings) == Spread(DefaultSettings, customSettings)

\* None stands for a value that is no number.

\* Mutant: the number of collaborators is taken as it is.
mergeProjectSettings_Unclamped(defaultSettings, userSettings) ==
    Spread(defaultSettings, userSettings)

mergeProjectSettings(defaultSettings, userSettings) ==
    LET merged == Spread(defaultSettings, userSettings)
        Clamped(n) == Min({Max({n, 1}), 1000})
    IN  IF "maxCollaborators" \in DOMAIN merged /\ merged.maxCollaborators # None
        THEN [merged EXCEPT !.maxCollaborators = Clamped(@)] ELSE merged

checkOwnership(projectOwnerId, userId) == projectOwnerId = userId

IsSet(settings, key) == key \in DOMAIN settings /\ settings[key] = TRUE

\* Somebody who is not logged in has no userId.
checkProjectAccess(project, userId) ==
    CASE userId # None /\ checkOwnership(project.ownerId, userId) -> "owner"
      [] ~(userId # None /\ checkOwnership(project.ownerId, userId)) ->
           IF IsSet(project.settings, "isPublic") THEN "public"
           ELSE IF userId = None /\ IsSet(project.settings, "allowGuests") THEN "guest_allowed"
           ELSE "access_denied"

HasAccess(project, userId) == checkProjectAccess(project, userId) # "access_denied"

validateProjectName(name) ==
    IF name \in {None, 0} THEN {"missing"}
    ELSE (IF name < 2 THEN {"short"} ELSE {}) \cup IF name > 100 THEN {"long"} ELSE {}

validateProjectUrl(url) ==
    IF url = None \/ validateUrlOfProject(url).isValid THEN {} ELSE {"url"}

validateProjectDescription(description) ==
    IF description # None /\ description > 500 THEN {"description"} ELSE {}

validateProjectData(data) ==
    LET errors == validateProjectName(data.name) \cup validateProjectUrl(data.url)
                    \cup validateProjectDescription(data.description)
    IN  [isValid |-> errors = {}, errors |-> errors]
=============================================================================
