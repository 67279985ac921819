--------------------------- MODULE MutationHandler --------------------------
(***************************************************************************)
(* The rules of MutationHandler: which batches of mutations and which      *)
(* comment threads are valid, what an entity is made of, and the summary   *)
(* of a batch.  Messages are sets of what they complain about.  None is a  *)
(* field that is missing or has another type.  Times are milliseconds.     *)
(***************************************************************************)
EXTENDS Integers, Sequences, FiniteSets

CONSTANTS
    MaxErrors,      \* how many common errors a summary lists (5)
    None

HourOf == 60 * 60 * 1000
Week == 7 * 24 * HourOf

typeMap ==
    [createCommentThread |-> "comment_created", updateComment |-> "comment_updated",
     deleteComment |-> "comment_deleted", resolveThread |-> "thread_resolved",
     unresolveThread |-> "thread_unresolved", addReaction |-> "reaction_added",
     removeReaction |-> "reaction_removed", updateCursor |-> "cursor_updated",
     joinSession |-> "session_joined", leaveSession |-> "session_left"]

determineMutationType(name) == IF name \in DOMAIN typeMap THEN typeMap[name] ELSE "unknown"

prepareMutationData(projectId, data, mutation) ==
    [projectId |-> projectId, userId |-> data.profileID,
     type |-> determineMutationType(mutation.name), mutationId |-> mutation.id,
     status |-> "pending", timestamp |-> mutation.timestamp]

\* Mutant: no hour of grace for clocks that are ahead.
validateTimestamp_NoGrace(timestamp, now) ==
    IF timestamp < now - Week \/ timestamp > now THEN now ELSE timestamp

\* A time more than a week old, or more than an hour ahead, becomes the present.
validateTimestamp(timestamp, now) ==
    IF timestamp < now - Week \/ timestamp > now + HourOf THEN now ELSE timestamp

transformMutationToEntity(entity, now) ==
    [entity EXCEPT !.timestamp = validateTimestamp(@, now)]

Missing(fields) == {f \in DOMAIN fields : fields[f] = None}

\* Zero is a missing timestamp; an id may be zero.
validateSingleMutation(mutation) ==
    Missing(mutation) \cup IF mutation.timestamp = 0 THEN {"timestamp"} ELSE {}

TimestampWarnings(mutation, now) ==
    IF mutation.timestamp \in {None, 0} THEN {}
    ELSE IF mutation.timestamp < now - HourOf THEN {"old"}
    ELSE IF mutation.timestamp > now + HourOf THEN {"future"}
    ELSE {}

validateMutationsArray(mutations, now) ==
    IF mutations = None THEN [errors |-> {"mutations"}, warnings |-> {}]
    ELSE [errors |-> UNION {{<<i, field>> : field \in validateSingleMutation(mutations[i])} :
                              i \in DOMAIN mutations},
          warnings |->
            UNION {{<<i, w>> : w \in TimestampWarnings(mutations[i], now)} :
                     i \in DOMAIN mutations}
            \cup IF Len(mutations) > 100 THEN {"count"} ELSE {}]

\* Versions may be missing, but are of their type: a number, a text.
validateVersionInfo(data) ==
    (IF data.pushVersion \in {None, "number"} THEN {} ELSE {"pushVersion"})
      \cup IF data.schemaVersion \in {None, "text"} THEN {} ELSE {"schemaVersion"}

validateMutationData(data, now) ==
    LET array  == validateMutationsArray(data.mutations, now)
        errors == array.errors \cup validateVersionInfo(data)
                    \cup Missing([profileID |-> data.profileID, clientID |-> data.clientID])
    IN  [isValid |-> errors = {}, errors |-> errors, warnings |-> array.warnings]

validateCoordinates(x, y) ==
    IF None \in {x, y} THEN {"coordinates"}
    ELSE (IF x \in 0..10000 THEN {} ELSE {"x"}) \cup IF y \in 0..10000 THEN {} ELSE {"y"}

\* body and text are lengths; an empty text is as good as none, an empty body,
\* which is an array, is not.
validateFirstComment(comment) ==
    IF comment = None THEN {"firstComment"}
    ELSE (IF comment.body = None /\ comment.text \in {None, 0} THEN {"content"} ELSE {})
           \cup (IF comment.body # None /\ comment.body > 5000 THEN {"body"} ELSE {})
           \cup IF comment.text # None /\ comment.text > 1000 THEN {"text"} ELSE {}

validateCommentThreadData(thread) ==
    LET errors == validateCoordinates(thread.x, thread.y)
                    \cup (IF {thread.page, thread.deploymentUrl} \subseteq {None, 0}
                          THEN {"page"} ELSE {})
                    \cup validateFirstComment(thread.firstComment)
    IN  [isValid |-> errors = {}, errors |-> errors]

countMutations(results, status) == Cardinality({i \in DOMAIN results : results[i].status = status})

\* In hundredths of a percent: Math.round(x * 100), where halves go up.
calculateSuccessRate(processed, total) ==
    IF total = 0 THEN 0 ELSE (20000 * processed + total) \div (2 * total)

\* How often an error occurs, and where each occurs first.
countErrorOccurrences(results, error) == Cardinality({i \in DOMAIN results : results[i].error = error})

FirstPlaces(results) ==
    {i \in DOMAIN results :
       results[i].error # None /\ \A j \in 1..i - 1 : results[j].error # results[i].error}

\* Mutant: rising counts first.
MoreCommon_Rarest(results, i, j) ==
    LET countOf(k) == countErrorOccurrences(results, results[k].error)
    IN  \/ countOf(i) < countOf(j)
        \/ countOf(i) = countOf(j) /\ i < j

\* Falling counts, and as they came where these are equal: sort() is stable.
MoreCommon(results, i, j) ==
    LET countOf(k) == countErrorOccurrences(results, results[k].error)
    IN  \/ countOf(i) > countOf(j)
        \/ countOf(i) = countOf(j) /\ i < j

\* Where as many first places are more common as there should be before the n-th.
SortedPlace(results, n) ==
    CHOOSE i \in FirstPlaces(results) :
      Cardinality({j \in FirstPlaces(results) : MoreCommon(results, j, i)}) = n - 1

\* The first few of the sorted.
extractCommonErrors(results) ==
    LET size == Cardinality(FirstPlaces(results))
    IN  [n \in 1..(IF size < MaxErrors THEN size ELSE MaxErrors) |->
           results[SortedPlace(results, n)].error]

createBatchProcessResult(results) ==
    LET processed == countMutations(results, "success")
        failed    == countMutations(results, "failed")
    IN  [success |-> failed = 0, processedMutations |-> processed, failedMutations |-> failed,
         successRate |-> calculateSuccessRate(processed, Len(results)),
         totalMutations |-> Len(results), commonErrors |-> extractCommonErrors(results)]
=============================================================================
