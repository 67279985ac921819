----------------------------- MODULE Mutations -----------------------------
(***************************************************************************)
(* processMutations of CollaborationService, which POST mutations calls:   *)
(* a batch of mutations is stored one by one, each with up to three        *)
(* inserts, none of them in a transaction with another.  Whoever is        *)
(* answered an error may send the batch again.                             *)
(*                                                                         *)
(* Rows refer to their project, their user and their thread by foreign     *)
(* keys; those of a project go with it (ON DELETE CASCADE).                *)
(***************************************************************************)
EXTENDS Integers, Sequences

CONSTANTS
    Users,          \* ids of the rows of users, generated uuids
    Strangers,      \* other profileIDs a client may send
    System,         \* 'system', the user of every first comment
    CreatesThread,  \* those named createCommentThread
    ThreadIds,
    Batches,        \* sequences of mutations sent in one request
    Tasks,          \* bound: requests in flight at the same time
    MaxStored,      \* bound: rows of mutations
    None

VARIABLES
    project,    \* the row of the project is there
    threads,    \* comment_threads
    located,    \* the threads with a comment, which holds their coordinates
    mutations,  \* the table, in the order of the inserts
    tasks

vars == <<project, threads, located, mutations, tasks>>

Idle == [pc |-> "idle", profileID |-> None, batch |-> <<>>, thread |-> None]

\* What a mutation needs first.
FirstStep(batch) ==
    IF batch = <<>> THEN "answering"
    ELSE IF Head(batch) \in CreatesThread THEN "creatingThread" ELSE "saving"

At(t, pc) == tasks[t].pc = pc

\* processMutations answers or throws; what has been stored stays.
End(t) ==
    /\ tasks' = [tasks EXCEPT ![t] = Idle]
    /\ UNCHANGED <<threads, located, mutations>>

-----------------------------------------------------------------------------

\* POST projects/:projectId/mutations, by anybody: the controller has no guard.
ProcessMutations(t, profileID, batch) ==
    /\ At(t, "idle")
    /\ tasks' = [tasks EXCEPT ![t] = [pc |-> FirstStep(batch), profileID |-> profileID,
                                      batch |-> batch, thread |-> None]]
    /\ UNCHANGED <<project, threads, located, mutations>>

\* The thread is inserted, refused if the project is not there.
CreateCommentThread(t) ==
    /\ At(t, "creatingThread")
    /\ \/ ~project /\ End(t)
       \/ /\ project
          /\ \E id \in ThreadIds \ threads :
               /\ threads' = threads \cup {id}
               /\ tasks' = [tasks EXCEPT ![t].thread = id, ![t].pc = "creatingComment"]
          /\ UNCHANGED <<located, mutations>>
    /\ UNCHANGED project

\* Its comment is inserted, refused unless project, thread and user are there.
CreateFirstComment(t) ==
    LET thread == tasks[t].thread
        found  == project /\ thread \in threads /\ System \in Users
    IN
    /\ At(t, "creatingComment")
    /\ \/ ~found /\ End(t)
       \/ /\ found
          /\ located' = located \cup {thread}
          /\ tasks' = [tasks EXCEPT ![t].pc = "saving"]
          /\ UNCHANGED <<threads, mutations>>
    /\ UNCHANGED project

\* The mutation is inserted; then the next one is taken up.
SaveMutation(t) ==
    LET k     == tasks[t]
        rest  == Tail(k.batch)
        found == project /\ k.profileID \in Users
        row   == [mutation |-> Head(k.batch),
                  status |-> IF k.thread = None THEN "pending" ELSE "processed"]
    IN
    /\ At(t, "saving")
    /\ \/ ~found /\ End(t)
       \/ /\ found /\ Len(mutations) < MaxStored
          /\ mutations' = Append(mutations, row)
          /\ tasks' = [tasks EXCEPT ![t] =
               [k EXCEPT !.pc = FirstStep(rest), !.batch = rest, !.thread = None]]
          /\ UNCHANGED <<threads, located>>
    /\ UNCHANGED project

\* { success: true, processedMutations }
AnswerSuccess(t) ==
    /\ At(t, "answering")
    /\ End(t)
    /\ UNCHANGED project

\* The first join of a page inserts its project, its owner may remove it.
InsertProject ==
    /\ ~project
    /\ project' = TRUE
    /\ UNCHANGED <<threads, located, mutations, tasks>>

DeleteProject ==
    /\ project
    /\ project' = FALSE
    /\ threads' = {} /\ located' = {} /\ mutations' = <<>>
    /\ UNCHANGED tasks

Init ==
    /\ project = FALSE
    /\ threads = {} /\ located = {} /\ mutations = <<>>
    /\ tasks = [t \in Tasks |-> Idle]

Next ==
    \/ InsertProject \/ DeleteProject
    \/ \E t \in Tasks :
         \/ \E profileID \in Users \cup Strangers, batch \in Batches :
              ProcessMutations(t, profileID, batch)
         \/ CreateCommentThread(t) \/ CreateFirstComment(t) \/ SaveMutation(t)
         \/ AnswerSuccess(t)

Spec == Init /\ [][Next]_vars

-----------------------------------------------------------------------------

\* GET comment-threads lists every thread with its coordinates, which are those
\* of its first comment: when no request is being handled, each thread has one.
ThreadHasComment ==
    (\A t \in Tasks : At(t, "idle")) => threads = located
=============================================================================
