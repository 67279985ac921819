--------------------------- MODULE CommentsProofs ---------------------------
(***************************************************************************)
(* What Comments guarantees for any users, comments and handlers: types,   *)
(* that a comment is copied at most twice, and that the copy of a session  *)
(* is complete when answers are prompt and nothing is deleted or fails.    *)
(***************************************************************************)
EXTENDS Comments, SequenceTheorems, FiniteSetTheorems, WellFoundedInduction, TLAPS

-----------------------------------------------------------------------------
(* Lists: the first index of an element, and lists without one place *)

\* A set of natural numbers that is not empty has a smallest element.
LEMMA MinIsSmallest ==
    ASSUME NEW I \in SUBSET Nat, I # {}
    PROVE  Min(I) \in I /\ \A n \in I : Min(I) <= n
<1>1. PICK m \in I : \A n \in I : ~(<<n, m>> \in OpToRel(<, Nat))
  BY WFMin, NatLessThanWellFounded, Zenon
<1>2. \A n \in I : <<n, m>> \in OpToRel(<, Nat) <=> n < m
  BY DEF OpToRel
<1>3. ASSUME NEW n \in I PROVE m <= n
  <2>1. m \in Nat /\ n \in Nat /\ ~(n < m)
    BY <1>1, <1>2
  <2> QED  BY <2>1, SMT
<1> QED  BY <1>3 DEF Min

\* findIndex is the first place of an element, and 0 if it has none.
LEMMA FirstPlace ==
    ASSUME NEW list \in Seq(Comments), NEW c
    PROVE  /\ findIndex(list, c) \in Nat
           /\ c \in ToSet(list) => /\ findIndex(list, c) \in 1..Len(list)
                                   /\ list[findIndex(list, c)] = c
           /\ c \notin ToSet(list) => findIndex(list, c) = 0
<1> DEFINE I == {n \in 1..Len(list) : list[n] = c}
<1>1. findIndex(list, c) = IF I # {} THEN Min(I) ELSE 0
  BY DEF findIndex, SelectInSeq
<1>2. I \in SUBSET Nat
  BY SMT
<1>3. c \in ToSet(list) <=> I # {}
  BY SMT DEF ToSet
<1>4. I # {} => Min(I) \in I
  BY <1>2, MinIsSmallest
<1> QED  BY <1>1, <1>2, <1>3, <1>4, SMT

\* The place an element of a list without its n-th has in the whole list.
Whole(n, k) == IF k < n THEN k ELSE k + 1

\* A list without its n-th element has the others, in their order.
LEMMA WithoutPlace ==
    ASSUME NEW list \in Seq(Comments), NEW n \in 1..Len(list)
    PROVE  /\ RemoveAt(list, n) \in Seq(Comments)
           /\ Len(RemoveAt(list, n)) = Len(list) - 1
           /\ \A k \in 1..(Len(list) - 1) : RemoveAt(list, n)[k] = list[Whole(n, k)]
<1> DEFINE front == SubSeq(list, 1, n - 1)   back == SubSeq(list, n + 1, Len(list))
<1>1. /\ front \in Seq(Comments) /\ Len(front) = n - 1
      /\ \A k \in 1..(n - 1) : front[k] = list[k]
  BY SubSeqProperties, SMT
<1>2. /\ back \in Seq(Comments) /\ Len(back) = Len(list) - n
      /\ \A k \in 1..(Len(list) - n) : back[k] = list[n + k]
  BY SubSeqProperties, SMT
<1>3. RemoveAt(list, n) = front \o back
  BY DEF RemoveAt
<1> HIDE DEF front, back
<1>4. /\ front \o back \in Seq(Comments)
      /\ Len(front \o back) = Len(front) + Len(back)
      /\ \A k \in 1..(Len(front) + Len(back)) :
           (front \o back)[k] = IF k <= Len(front) THEN front[k] ELSE back[k - Len(front)]
  BY <1>1, <1>2, ConcatProperties
<1>5. ASSUME NEW k \in 1..(Len(list) - 1) PROVE RemoveAt(list, n)[k] = list[Whole(n, k)]
  <2>1. k \in 1..(Len(front) + Len(back)) /\ n \in Nat /\ Len(list) \in Nat
    BY <1>1, <1>2, SMT
  <2>2. RemoveAt(list, n)[k] = IF k <= n - 1 THEN front[k] ELSE back[k - (n - 1)]
    BY <1>1, <1>3, <1>4, <2>1
  <2>3. CASE k < n
    BY <1>1, <2>1, <2>2, <2>3, SMT DEF Whole
  <2>4. CASE k >= n
    <3>1. k - (n - 1) \in 1..(Len(list) - n) /\ n + (k - (n - 1)) = k + 1
      BY <2>1, <2>4, SMT
    <3>2. back[k - (n - 1)] = list[k + 1]
      BY <1>2, <3>1
    <3> QED  BY <2>1, <2>2, <2>4, <3>2, SMT DEF Whole
  <2> QED  BY <2>1, <2>3, <2>4, SMT
<1> QED  BY <1>1, <1>2, <1>3, <1>4, <1>5, SMT

\* A comment stands in a list at most once, at most twice.
Once(list, c) ==
    \A m, n \in 1..Len(list) : list[m] = c /\ list[n] = c => m = n

Twice(list, c) ==
    \A l, m, n \in 1..Len(list) :
      list[l] = c /\ list[m] = c /\ list[n] = c => l = m \/ m = n \/ l = n

\* Taking a place out of a list puts nothing in.
LEMMA SplicedList ==
    ASSUME NEW list \in Seq(Comments), NEW n \in Nat
    PROVE  /\ splice(list, n) \in Seq(Comments)
           /\ ToSet(splice(list, n)) \subseteq ToSet(list)
           /\ \A c : Once(list, c) => Once(splice(list, n), c)
           /\ \A c : Twice(list, c) => Twice(splice(list, n), c)
<1>1. CASE n \in 1..Len(list)
  <2> DEFINE less == splice(list, n)
  <2>1. less = RemoveAt(list, n)
    BY <1>1 DEF splice
  <2>2. /\ less \in Seq(Comments) /\ Len(less) = Len(list) - 1
        /\ \A k \in 1..Len(less) : less[k] = list[Whole(n, k)]
    BY <1>1, <2>1, WithoutPlace
  <2> HIDE DEF less
  <2>3. /\ \A k \in 1..Len(less) : Whole(n, k) \in 1..Len(list)
        /\ \A k, l \in 1..Len(less) : Whole(n, k) = Whole(n, l) => k = l
    BY <1>1, <2>2, SMT DEF Whole
  <2>4. ToSet(less) \subseteq ToSet(list)
    BY <2>2, <2>3, SMT DEF ToSet
  <2>5. \A c : Once(list, c) => Once(less, c)
    BY <2>2, <2>3, SMT DEF Once
  <2>6. ASSUME NEW c, Twice(list, c) PROVE Twice(less, c)
    <3> SUFFICES ASSUME NEW h \in 1..Len(less), NEW k \in 1..Len(less), NEW l \in 1..Len(less),
                        less[h] = c, less[k] = c, less[l] = c
                 PROVE  h = k \/ k = l \/ h = l
      BY DEF Twice
    <3>1. /\ list[Whole(n, h)] = c /\ list[Whole(n, k)] = c /\ list[Whole(n, l)] = c
          /\ Whole(n, h) \in 1..Len(list) /\ Whole(n, k) \in 1..Len(list)
          /\ Whole(n, l) \in 1..Len(list)
      BY <2>2, <2>3
    <3>2. \/ Whole(n, h) = Whole(n, k) \/ Whole(n, k) = Whole(n, l)
          \/ Whole(n, h) = Whole(n, l)
      BY <2>6, <3>1, Zenon DEF Twice
    <3> QED  BY <2>3, <3>2
  <2> QED  BY <2>2, <2>4, <2>5, <2>6 DEF less
<1>2. CASE n \notin 1..Len(list)
  BY <1>2 DEF splice
<1> QED  BY <1>1, <1>2

\* What stands in a list after a push.
LEMMA PushedList ==
    ASSUME NEW list \in Seq(Comments), NEW c \in Comments
    PROVE  /\ Append(list, c) \in Seq(Comments)
           /\ ToSet(Append(list, c)) = ToSet(list) \cup {c}
           /\ \A d : d # c /\ Once(list, d) => Once(Append(list, c), d)
           /\ \A d : d # c /\ Twice(list, d) => Twice(Append(list, c), d)
           /\ c \notin ToSet(list) => Once(Append(list, c), c)
           /\ Once(list, c) => Twice(Append(list, c), c)
<1> DEFINE more == Append(list, c)
<1>1. /\ more \in Seq(Comments) /\ Len(more) = Len(list) + 1 /\ Len(list) \in Nat
      /\ \A k \in 1..Len(list) : more[k] = list[k]
      /\ more[Len(list) + 1] = c
  BY AppendProperties, SMT
<1> HIDE DEF more
<1>2. ToSet(more) = ToSet(list) \cup {c}
  BY <1>1, SMT DEF ToSet
<1>3. \A d : d # c /\ Once(list, d) => Once(more, d)
  BY <1>1, SMT DEF Once
<1>4. \A d : d # c /\ Twice(list, d) => Twice(more, d)
  BY <1>1, SMT DEF Twice
<1>5. c \notin ToSet(list) => Once(more, c)
  BY <1>1, SMT DEF Once, ToSet
<1>6. Once(list, c) => Twice(more, c)
  BY <1>1, SMT DEF Once, Twice
<1> QED  BY <1>1, <1>2, <1>3, <1>4, <1>5, <1>6 DEF more

\* A new row comes first.
LEMMA NewestFirst ==
    ASSUME NEW list \in Seq(Comments), NEW c \in Comments
    PROVE  /\ <<c>> \o list \in Seq(Comments)
           /\ ToSet(<<c>> \o list) = ToSet(list) \cup {c}
           /\ \A d : d # c /\ Once(list, d) => Once(<<c>> \o list, d)
           /\ c \notin ToSet(list) => Once(<<c>> \o list, c)
<1> DEFINE more == <<c>> \o list
<1>1. /\ more \in Seq(Comments) /\ Len(more) = 1 + Len(list) /\ Len(list) \in Nat
      /\ more[1] = c
      /\ \A k \in 2..(1 + Len(list)) : more[k] = list[k - 1]
  <2>1. <<c>> \in Seq(Comments) /\ Len(<<c>>) = 1 /\ <<c>>[1] = c
    BY SMT
  <2>2. /\ more \in Seq(Comments) /\ Len(more) = 1 + Len(list)
        /\ \A k \in 1..(1 + Len(list)) :
             more[k] = IF k <= 1 THEN <<c>>[k] ELSE list[k - 1]
    BY <2>1, ConcatProperties
  <2>3. Len(list) \in Nat
    BY SMT
  <2> QED  BY <2>1, <2>2, <2>3, SMT
<1> HIDE DEF more
<1>2. ToSet(more) = ToSet(list) \cup {c}
  <2>1. ASSUME NEW k \in 1..Len(list) PROVE k + 1 \in 1..Len(more) /\ more[k + 1] = list[k]
    <3>1. k + 1 \in 2..(1 + Len(list)) /\ (k + 1) - 1 = k /\ k + 1 \in 1..Len(more)
      BY <1>1, SMT
    <3> QED  BY <1>1, <3>1
  <2>2. \A k \in 1..Len(more) : more[k] = c \/ more[k] \in ToSet(list)
    BY <1>1, SMT DEF ToSet
  <2>3. c \in ToSet(more) /\ ToSet(more) \subseteq ToSet(list) \cup {c}
    BY <1>1, <2>2, SMT DEF ToSet
  <2>4. ASSUME NEW d \in ToSet(list) PROVE d \in ToSet(more)
    <3>1. PICK k \in 1..Len(list) : list[k] = d
      BY SMT DEF ToSet
    <3>2. DOMAIN more = 1..Len(more)
      BY <1>1, SMT
    <3> QED  BY <2>1, <3>1, <3>2, Zenon DEF ToSet
  <2> QED  BY <2>3, <2>4
<1>3. ASSUME NEW d, d # c, Once(list, d) PROVE Once(more, d)
  <2> SUFFICES ASSUME NEW m \in 1..Len(more), NEW n \in 1..Len(more), more[m] = d, more[n] = d
               PROVE  m = n
    BY DEF Once
  <2>1. m \in 2..(1 + Len(list)) /\ n \in 2..(1 + Len(list))
    BY <1>1, <1>3, SMT
  <2>2. list[m - 1] = d /\ list[n - 1] = d /\ m - 1 \in 1..Len(list) /\ n - 1 \in 1..Len(list)
    BY <1>1, <2>1, SMT
  <2>3. m - 1 = n - 1
    BY <1>3, <2>2 DEF Once
  <2> QED  BY <2>1, <2>3, SMT
<1>4. c \notin ToSet(list) => Once(more, c)
  BY <1>1, SMT DEF Once, ToSet
<1> QED  BY <1>1, <1>2, <1>3, <1>4 DEF more

\* A row that is deleted is taken out of the table, and no other.
LEMMA RowTaken ==
    ASSUME NEW list \in Seq(Comments), NEW c
    PROVE  /\ RemoveFirst(list, c) = splice(list, findIndex(list, c))
           /\ ToSet(list) \subseteq ToSet(RemoveFirst(list, c)) \cup {c}
<1> DEFINE n == findIndex(list, c)
<1>1. CASE c \in ToSet(list)
  <2>1. n \in 1..Len(list) /\ list[n] = c
    BY <1>1, FirstPlace
  <2>2. RemoveFirst(list, c) = RemoveAt(list, n)
    BY <1>1, SMT DEF RemoveFirst, ToSet, findIndex
  <2> DEFINE less == RemoveFirst(list, c)
  <2>3. Len(less) = Len(list) - 1 /\ \A k \in 1..Len(less) : less[k] = list[Whole(n, k)]
    BY <2>1, <2>2, WithoutPlace
  <2>4. DOMAIN less = 1..Len(less)
    BY <2>1, <2>2, WithoutPlace, SMT
  <2>5. ASSUME NEW d \in ToSet(list), d # c PROVE d \in ToSet(less)
    <3>1. PICK k \in 1..Len(list) : list[k] = d
      BY SMT DEF ToSet
    <3> HIDE DEF less, n
    <3>2. CASE k < n
      BY <2>1, <2>3, <2>4, <3>1, <3>2, SMT DEF ToSet, Whole
    <3>3. CASE k > n
      <4>1. k - 1 \in 1..Len(less) /\ Whole(n, k - 1) = k
        BY <2>1, <2>3, <3>1, <3>3, SMT DEF Whole
      <4> QED  BY <2>3, <2>4, <3>1, <4>1, Zenon DEF ToSet
    <3>4. k # n
      BY <2>1, <2>5, <3>1
    <3> QED  BY <2>1, <3>1, <3>2, <3>3, <3>4, SMT
  <2> QED  BY <2>1, <2>2, <2>5, Zenon DEF splice
<1>2. CASE c \notin ToSet(list)
  <2>1. n = 0 /\ RemoveFirst(list, c) = list
    BY <1>2, FirstPlace, SMT DEF RemoveFirst, ToSet
  <2> QED  BY <2>1, SMT DEF splice
<1> QED  BY <1>1, <1>2

-----------------------------------------------------------------------------
(* The inductive invariants *)

JoinSteps   == {"projecting", "loading", "loaded"}
CreateSteps == {"saving", "finding", "readBack"}
DeleteSteps == {"owning", "deleting", "deleted"}

\* Types alone are not inductive: that an action writes a comment or an object
\* depends on what the task holds at its program counter, and that a handler
\* finds an object on there being one as long as anybody is present.
WellFormed(k) ==
    /\ k \in TaskRecord
    /\ k.pc \in JoinSteps \cup CreateSteps \cup DeleteSteps => k.user \in Users /\ k.sess \in SessionIds
    /\ k.pc \in CreateSteps \cup DeleteSteps => k.comment \in Comments

RowsTyped == rows \in Seq(Comments) /\ gone \in SUBSET Comments

PageTyped ==
    /\ live \in SessionIds \cup {None}
    /\ comments \in [SessionIds -> Seq(Comments)]
    /\ mapped \in BOOLEAN /\ present \in SUBSET Users
    /\ shown \in [Users -> SUBSET Comments]
    /\ present # {} => live # None

TasksTyped == tasks \in [Tasks -> TaskRecord] /\ \A t \in Tasks : WellFormed(tasks[t])

Typed == RowsTyped /\ PageTyped /\ TasksTyped

\* A comment has a row, or had one.
Stored(c) == c \in ToSet(rows) \cup gone

Creates(t, c) == tasks[t].comment = c /\ tasks[t].pc \in CreateSteps

\* A row is inserted once, by the one handler that creates it, and whatever is
\* copied or about to be copied or deleted has been inserted.
RowOnce ==
    \A c \in Comments : Once(rows, c) /\ \A t \in Tasks : Once(tasks[t].answer, c)

OneCreator == \A t, x \in Tasks : \A c \in Comments : Creates(t, c) /\ Creates(x, c) => t = x

Inserted ==
    /\ \A t \in Tasks :
         /\ tasks[t].pc = "saving" => ~Stored(tasks[t].comment)
         /\ tasks[t].pc \in {"finding", "readBack"} \cup DeleteSteps => Stored(tasks[t].comment)
         /\ \A c \in ToSet(tasks[t].answer) : Stored(c)
    /\ \A i \in SessionIds : \A c \in ToSet(comments[i]) : Stored(c)

RowsOnce == RowOnce /\ OneCreator /\ Inserted

\* As long as the handler that creates a comment has not pushed it, only a load
\* can have put it into a session, once.
Counted ==
    \A i \in SessionIds, c \in Comments :
      /\ Twice(comments[i], c)
      /\ (\E t \in Tasks : Creates(t, c)) => Once(comments[i], c)

Copied == Typed /\ RowsOnce /\ Counted

\* Who joins is on the page of the live object, and nobody loads its comments or
\* creates one in it before its project is known.
Attached ==
    /\ present = {} => live = None
    /\ live = None => mapped = FALSE
    /\ \A t \in Tasks : tasks[t].pc \in JoinSteps =>
         tasks[t].user \in present /\ tasks[t].sess = live
    /\ \A t \in Tasks :
         \/ tasks[t].pc \in {"loading", "loaded"}
         \/ tasks[t].pc \in CreateSteps /\ tasks[t].sess = live
         => mapped

\* Without liberties rows stay, and an answer is handled before anything else is.
Prompt ==
    /\ gone = {}
    /\ \A t \in Tasks : tasks[t].pc \notin DeleteSteps
    /\ \A t \in Tasks : tasks[t].pc = "loaded" => tasks[t].answer = rows

\* The copy is empty and will be loaded, or it is being loaded, or it has every
\* row but those whose creation will be announced.
Covered ==
    live # None =>
      \/ ~mapped /\ comments[live] = <<>> /\ \E t \in Tasks : tasks[t].pc = "projecting"
      \/ mapped /\ \E t \in Tasks : tasks[t].pc \in {"loading", "loaded"}
      \/ /\ mapped
         /\ \A c \in ToSet(rows) :
              \/ c \in ToSet(comments[live])
              \/ \E t \in Tasks : tasks[t].comment = c /\ tasks[t].pc \in {"finding", "readBack"}

Served == Attached /\ Prompt /\ Covered

Complete == Copied /\ (liberties = {} => Served)

-----------------------------------------------------------------------------
(* Types *)

\* What a handler carries on with is well formed.
LEMMA Formed ==
    /\ WellFormed(Idle)
    /\ \A pc, u, c, i :
         /\ pc \in {"projecting", "saving", "owning"} /\ u \in Users /\ i \in SessionIds
         /\ c \in Comments \/ (c = None /\ pc = "projecting")
         => WellFormed(Task(pc, u, c, i))
<1>1. <<>> \in Seq(Comments)
  BY SMT
<1>2. WellFormed(Idle)
  BY <1>1, SMT DEF WellFormed, Idle, TaskRecord, Answered, JoinSteps, CreateSteps, DeleteSteps
<1>3. ASSUME NEW pc \in {"projecting", "saving", "owning"}, NEW u \in Users, NEW c,
             NEW i \in SessionIds, c \in Comments \/ (c = None /\ pc = "projecting")
      PROVE  WellFormed(Task(pc, u, c, i))
  <2> DEFINE k == Task(pc, u, c, i)
  <2>1. Idle \in TaskRecord
    BY <1>2 DEF WellFormed
  <2>2. k \in TaskRecord
    <3>1. \A r \in TaskRecord : [r EXCEPT !.pc = pc] \in TaskRecord
      BY <1>3, SMT DEF TaskRecord
    <3>2. \A r \in TaskRecord : [r EXCEPT !.user = u] \in TaskRecord
      BY <1>3, SMT DEF TaskRecord
    <3>3. \A r \in TaskRecord : [r EXCEPT !.comment = c] \in TaskRecord
      BY <1>3, SMT DEF TaskRecord
    <3>4. \A r \in TaskRecord : [r EXCEPT !.sess = i] \in TaskRecord
      BY <1>3, SMT DEF TaskRecord
    <3> QED  BY <2>1, <3>1, <3>2, <3>3, <3>4 DEF Task
  <2>3. k.pc = pc /\ k.user = u /\ k.comment = c /\ k.sess = i
    BY <2>1, SMT DEF Task, TaskRecord
  <2>4. pc \in CreateSteps \cup DeleteSteps => c \in Comments
    BY <1>3 DEF CreateSteps, DeleteSteps
  <2> QED  BY <1>3, <2>2, <2>3, <2>4 DEF WellFormed
<1> QED  BY <1>2, <1>3

\* One handler goes on, or none: the others stay well formed.
LEMMA TasksFormed ==
    ASSUME TasksTyped, NEW t \in Tasks, NEW k, WellFormed(k), tasks' = [tasks EXCEPT ![t] = k]
    PROVE  TasksTyped'
<1>1. tasks' \in [Tasks -> TaskRecord]
  BY DEF TasksTyped, WellFormed
<1>2. \A x \in Tasks : WellFormed(tasks'[x])
  BY DEF TasksTyped
<1> QED  BY <1>1, <1>2 DEF TasksTyped, WellFormed

\* The next step of a handler, with what it holds.
LEMMA StepFormed ==
    ASSUME TasksTyped, NEW t \in Tasks,
           NEW pc \in {"loading", "finding", "readBack", "deleting", "deleted"},
           pc = "loading" <=> tasks[t].pc = "projecting",
           pc # "loading" => tasks[t].pc \in CreateSteps \cup DeleteSteps,
           tasks' = [tasks EXCEPT ![t].pc = pc]
    PROVE  TasksTyped'
<1> DEFINE k == [tasks[t] EXCEPT !.pc = pc]
<1>1. WellFormed(tasks[t])
  BY DEF TasksTyped
<1>2. WellFormed(k)
  BY <1>1, SMT DEF WellFormed, TaskRecord, Answered, JoinSteps, CreateSteps, DeleteSteps
<1>3. tasks' = [tasks EXCEPT ![t] = k]
  OBVIOUS
<1> QED  BY <1>2, <1>3, TasksFormed

\* A handler ends.
LEMMA EndFormed ==
    ASSUME TasksTyped, NEW t \in Tasks, End(t)
    PROVE  TasksTyped'
  BY Formed, TasksFormed DEF End

\* A handler begins with what Formed says.
LEMMA BeginFormed ==
    ASSUME TasksTyped, NEW t \in Tasks, NEW k, WellFormed(k), Begin(t, k)
    PROVE  TasksTyped'
  BY TasksFormed DEF Begin

LEMMA TypedInit == Init => Typed
<1> SUFFICES ASSUME Init PROVE Typed
  OBVIOUS
<1>1. <<>> \in Seq(Comments)
  BY SMT
<1>2. WellFormed(Idle)
  BY Formed
<1>3. RowsTyped
  BY <1>1 DEF Init, RowsTyped
<1>4. PageTyped
  BY <1>1 DEF Init, PageTyped
<1>5. TasksTyped
  BY <1>2 DEF Init, TasksTyped, WellFormed
<1> QED  BY <1>3, <1>4, <1>5 DEF Typed

LEMMA TypedPageJoin ==
    ASSUME Typed, NEW t \in Tasks, NEW u \in Users, PageJoin(t, u)
    PROVE  Typed'
<1>1. PICK i \in SessionIds :
        /\ comments' = [comments EXCEPT ![i] = <<>>] \/ UNCHANGED comments
        /\ live' = i
        /\ Begin(t, Task("projecting", u, None, i))
  BY DEF PageJoin
<1>2. TasksTyped'
  BY <1>1, Formed, BeginFormed DEF Typed
<1>3. i # None /\ <<>> \in Seq(Comments)
  BY CommentConstants, SMT
<1>4. PageTyped'
  BY <1>1, <1>3 DEF Typed, PageTyped, PageJoin
<1> QED  BY <1>2, <1>4 DEF Typed, PageJoin, RowsTyped, dbVars

\* SendSessionState shows a client the comments of its session.
LEMMA TypedState ==
    ASSUME Typed, NEW t \in Tasks, SendSessionState(t), tasks[t].pc \in JoinSteps,
           comments' \in [SessionIds -> Seq(Comments)]
    PROVE  shown' \in [Users -> SUBSET Comments] /\ TasksTyped'
<1>1. tasks[t].sess \in SessionIds /\ tasks[t].user \in Users
  BY DEF Typed, TasksTyped, WellFormed
<1>2. comments'[tasks[t].sess] \in Seq(Comments)
  BY <1>1
<1>3. ToSet(comments'[tasks[t].sess]) \in SUBSET Comments
  BY <1>2, ElementOfSeq, SMT DEF ToSet
<1>4. shown' \in [Users -> SUBSET Comments]
  BY <1>3 DEF SendSessionState, Typed, PageTyped
<1> QED  BY <1>4, EndFormed DEF SendSessionState, Typed

LEMMA TypedJoinProject ==
    ASSUME Typed, NEW t \in Tasks, JoinProject(t)
    PROVE  Typed'
<1>1. tasks[t].pc = "projecting" /\ comments' \in [SessionIds -> Seq(Comments)]
  BY DEF JoinProject, At, Typed, PageTyped
<1>2. shown' \in [Users -> SUBSET Comments] /\ TasksTyped'
  <2>1. CASE SendSessionState(t)
    BY <1>1, <2>1, TypedState DEF JoinSteps
  <2>2. CASE tasks' = [tasks EXCEPT ![t].pc = "loading"] /\ UNCHANGED shown
    BY <1>1, <2>2, StepFormed DEF Typed, PageTyped
  <2> QED  BY <2>1, <2>2 DEF JoinProject
<1>3. PageTyped'
  BY <1>1, <1>2 DEF JoinProject, Typed, PageTyped
<1> QED  BY <1>2, <1>3 DEF JoinProject, Typed, RowsTyped, dbVars

LEMMA TypedGetComments ==
    ASSUME Typed, NEW t \in Tasks, getProjectComments(t)
    PROVE  Typed'
<1> DEFINE k == [tasks[t] EXCEPT !.pc = "loaded", !.answer = rows]
<1>1. tasks[t].pc = "loading" /\ WellFormed(tasks[t]) /\ rows \in Seq(Comments)
  BY DEF getProjectComments, At, Typed, TasksTyped, RowsTyped
<1>2. WellFormed(k)
  <2> DEFINE loaded == [tasks[t] EXCEPT !.pc = "loaded"]
  <2>a. loaded \in TaskRecord
    BY <1>1, SMT DEF WellFormed, TaskRecord, Answered
  <2>1. k \in TaskRecord
    <3>1. k = [loaded EXCEPT !.answer = rows]
      OBVIOUS
    <3>2. \A task \in TaskRecord, answer \in Seq(Comments) : [task EXCEPT !.answer = answer] \in TaskRecord
      BY SMT DEF TaskRecord
    <3> QED  BY <1>1, <2>a, <3>1, <3>2
  <2>2. k.pc = "loaded" /\ k.user = tasks[t].user /\ k.sess = tasks[t].sess
    BY <1>1, SMT DEF WellFormed, TaskRecord
  <2>3. tasks[t].user \in Users /\ tasks[t].sess \in SessionIds
    BY <1>1, SMT DEF WellFormed, JoinSteps
  <2> HIDE DEF k
  <2> QED  BY <2>1, <2>2, <2>3, SMT DEF WellFormed, JoinSteps, CreateSteps, DeleteSteps
<1>3. tasks' = [tasks EXCEPT ![t] = k]
  BY DEF getProjectComments
<1>4. TasksTyped'
  BY <1>2, <1>3, TasksFormed DEF Typed
<1> QED  BY <1>4 DEF getProjectComments, Typed, RowsTyped, PageTyped, dbVars, pageVars

LEMMA TypedLoad ==
    ASSUME Typed, NEW t \in Tasks, LoadSessionComments(t)
    PROVE  Typed'
<1>1. tasks[t].pc = "loaded" /\ tasks[t].answer \in Seq(Comments)
  BY DEF LoadSessionComments, At, Typed, TasksTyped, TaskRecord
<1>2. comments' \in [SessionIds -> Seq(Comments)]
  BY <1>1 DEF LoadSessionComments, Typed, PageTyped
<1>3. shown' \in [Users -> SUBSET Comments] /\ TasksTyped'
  BY <1>1, <1>2, TypedState DEF LoadSessionComments, JoinSteps
<1>4. PageTyped'
  BY <1>2, <1>3 DEF LoadSessionComments, Typed, PageTyped
<1> QED  BY <1>3, <1>4 DEF LoadSessionComments, Typed, RowsTyped, dbVars

LEMMA TypedPageLeave ==
    ASSUME Typed, NEW u \in Users, PageLeave(u)
    PROVE  Typed'
<1>1. PageTyped'
  BY DEF PageLeave, Typed, PageTyped
<1> QED  BY <1>1 DEF PageLeave, Typed, RowsTyped, TasksTyped, dbVars

LEMMA TypedCommentCreate ==
    ASSUME Typed, NEW t \in Tasks, NEW u \in Users, NEW c \in Comments, CommentCreate(t, u, c)
    PROVE  Typed'
<1>1. live \in SessionIds
  BY DEF CommentCreate, Typed, PageTyped
<1>2. TasksTyped'
  BY <1>1, Formed, BeginFormed DEF CommentCreate, Typed
<1> QED  BY <1>2 DEF CommentCreate, Typed, RowsTyped, PageTyped, dbVars, pageVars

LEMMA TypedSave ==
    ASSUME Typed, NEW t \in Tasks, SaveComment(t)
    PROVE  Typed'
<1>1. tasks[t].pc = "saving" /\ tasks[t].comment \in Comments
  BY DEF SaveComment, At, Typed, TasksTyped, WellFormed, CreateSteps
<1>2. TasksTyped'
  BY <1>1, StepFormed DEF SaveComment, Typed, CreateSteps
<1>3. RowsTyped'
  BY <1>1, NewestFirst DEF SaveComment, Typed, RowsTyped
<1> QED  BY <1>2, <1>3 DEF SaveComment, Typed, PageTyped, pageVars

LEMMA TypedFindCreated ==
    ASSUME Typed, NEW t \in Tasks, FindCreated(t)
    PROVE  Typed'
<1>1. tasks[t].pc = "finding"
  BY DEF FindCreated, At
<1>2. TasksTyped'
  BY <1>1, StepFormed, EndFormed DEF FindCreated, Typed, CreateSteps
<1> QED  BY <1>2 DEF FindCreated, Typed, RowsTyped, PageTyped, dbVars, pageVars

\* What the listeners of the events leave of the copies.
LEMMA TypedListeners ==
    ASSUME Typed, NEW c \in Comments
    PROVE  /\ OnCreated(c) \in [SessionIds -> Seq(Comments)]
           /\ OnDeleted(c) \in [SessionIds -> Seq(Comments)]
<1>1. live # None => live \in SessionIds /\ comments[live] \in Seq(Comments)
  BY DEF Typed, PageTyped
<1>2. live # None => /\ Append(comments[live], c) \in Seq(Comments)
                     /\ splice(comments[live], findIndex(comments[live], c)) \in Seq(Comments)
  BY <1>1, PushedList, FirstPlace, SplicedList
<1> QED  BY <1>1, <1>2 DEF OnCreated, OnDeleted, Typed, PageTyped

LEMMA TypedCreated ==
    ASSUME Typed, NEW t \in Tasks, CommentCreated(t)
    PROVE  Typed'
<1> DEFINE k == tasks[t]
<1>1. k.comment \in Comments /\ k.sess \in SessionIds
  BY DEF CommentCreated, At, Typed, TasksTyped, WellFormed, CreateSteps
<1>2. comments' \in [SessionIds -> Seq(Comments)]
  <2>1. OnCreated(k.comment)[k.sess] \in Seq(Comments)
    BY <1>1, TypedListeners
  <2>2. Append(OnCreated(k.comment)[k.sess], k.comment) \in Seq(Comments)
    BY <1>1, <2>1, PushedList
  <2> QED  BY <1>1, <2>2, TypedListeners DEF CommentCreated
<1>3. TasksTyped'
  BY EndFormed DEF CommentCreated, Typed
<1>4. shown' \in [Users -> SUBSET Comments]
  BY <1>1 DEF CommentCreated, ShowCreated, Typed, PageTyped
<1> QED  BY <1>2, <1>3, <1>4 DEF CommentCreated, Typed, RowsTyped, PageTyped, dbVars

LEMMA TypedCommentDelete ==
    ASSUME Typed, NEW t \in Tasks, NEW u \in Users, NEW c \in Comments, CommentDelete(t, u, c)
    PROVE  Typed'
<1> DEFINE k == [Task("owning", u, c, live) EXCEPT !.index = findIndex(comments[live], c)]
<1>1. live \in SessionIds /\ comments[live] \in Seq(Comments)
  BY DEF CommentDelete, Typed, PageTyped
<1>2. findIndex(comments[live], c) \in Nat
  BY <1>1, FirstPlace
<1>3. WellFormed(Task("owning", u, c, live))
  BY <1>1, Formed
<1>4. WellFormed(k)
  BY <1>2, <1>3, SMT DEF WellFormed, TaskRecord
<1>5. TasksTyped'
  BY <1>4, BeginFormed DEF CommentDelete, Typed
<1> QED  BY <1>5 DEF CommentDelete, Typed, RowsTyped, PageTyped, dbVars, pageVars

LEMMA TypedFindOwn ==
    ASSUME Typed, NEW t \in Tasks, FindOwn(t)
    PROVE  Typed'
<1>1. tasks[t].pc = "owning"
  BY DEF FindOwn, At
<1>2. TasksTyped'
  BY <1>1, StepFormed, EndFormed DEF FindOwn, Typed, DeleteSteps
<1> QED  BY <1>2 DEF FindOwn, Typed, RowsTyped, PageTyped, dbVars, pageVars

LEMMA TypedSoftDelete ==
    ASSUME Typed, NEW t \in Tasks, SoftDelete(t)
    PROVE  Typed'
<1>1. tasks[t].pc = "deleting" /\ tasks[t].comment \in Comments
  BY DEF SoftDelete, At, Typed, TasksTyped, WellFormed, DeleteSteps
<1>2. TasksTyped'
  BY <1>1, StepFormed DEF SoftDelete, Typed, DeleteSteps
<1>3. RowsTyped'
  BY <1>1, RowTaken, FirstPlace, SplicedList DEF SoftDelete, Typed, RowsTyped
<1> QED  BY <1>2, <1>3 DEF SoftDelete, Typed, PageTyped, pageVars

LEMMA TypedDeleted ==
    ASSUME Typed, NEW t \in Tasks, CommentDeleted(t)
    PROVE  Typed'
<1> DEFINE k == tasks[t]
<1>1. k.comment \in Comments /\ k.sess \in SessionIds /\ k.index \in Nat
  BY DEF CommentDeleted, At, Typed, TasksTyped, WellFormed, DeleteSteps, TaskRecord
<1>2. comments' \in [SessionIds -> Seq(Comments)]
  <2>1. OnDeleted(k.comment)[k.sess] \in Seq(Comments)
    BY <1>1, TypedListeners
  <2>2. splice(OnDeleted(k.comment)[k.sess], k.index) \in Seq(Comments)
    BY <1>1, <2>1, SplicedList
  <2> QED  BY <1>1, <2>2, TypedListeners DEF CommentDeleted
<1>3. TasksTyped'
  BY EndFormed DEF CommentDeleted, Typed
<1>4. shown' \in [Users -> SUBSET Comments]
  BY <1>1 DEF CommentDeleted, ShowDeleted, Typed, PageTyped
<1> QED  BY <1>2, <1>3, <1>4 DEF CommentDeleted, Typed, RowsTyped, PageTyped, dbVars

LEMMA TypedFails ==
    ASSUME Typed, NEW t \in Tasks, DbCallFails(t)
    PROVE  Typed'
<1>1. comments' \in [SessionIds -> Seq(Comments)]
  BY DEF DbCallFails, Typed, PageTyped
<1>2. shown' \in [Users -> SUBSET Comments] /\ TasksTyped'
  <2>1. CASE End(t) /\ UNCHANGED shown
    BY <2>1, EndFormed DEF Typed, PageTyped
  <2>2. CASE tasks[t].pc = "loading" /\ SendSessionState(t)
    BY <1>1, <2>2, TypedState DEF JoinSteps
  <2> QED  BY <2>1, <2>2 DEF DbCallFails
<1> QED  BY <1>1, <1>2 DEF DbCallFails, Typed, RowsTyped, PageTyped, dbVars

LEMMA TypedStep == Typed /\ [Next]_vars => Typed'
<1> SUFFICES ASSUME Typed, [Next]_vars PROVE Typed'
  OBVIOUS
<1>1. ASSUME NEW t \in Tasks, Resume(t) PROVE Typed'
  BY <1>1, TypedJoinProject, TypedGetComments, TypedLoad, TypedSave, TypedFindCreated,
     TypedCreated, TypedFindOwn, TypedSoftDelete, TypedDeleted, TypedFails DEF Resume
<1>2. ASSUME NEW t \in Tasks, NEW u \in Users,
             \/ PageJoin(t, u)
             \/ \E c \in Comments : CommentCreate(t, u, c) \/ CommentDelete(t, u, c)
      PROVE  Typed'
  BY <1>2, TypedPageJoin, TypedCommentCreate, TypedCommentDelete
<1>3. CASE UNCHANGED vars
  BY <1>3 DEF Typed, RowsTyped, PageTyped, TasksTyped, vars, dbVars, pageVars
<1> QED  BY <1>1, <1>2, <1>3, TypedPageLeave DEF Next

\* Rows, copies and handlers hold what their declarations say, for any users,
\* comments and number of handlers.
THEOREM CommentsTypeCorrect == Spec => []TypeOK
<1>1. Typed => TypeOK
  BY DEF Typed, RowsTyped, PageTyped, TasksTyped, TypeOK
<1> QED  BY <1>1, TypedInit, TypedStep, PTL DEF Spec

-----------------------------------------------------------------------------
(* How often a comment is copied *)

\* An empty list holds nothing.
LEMMA EmptyList == ToSet(<<>>) = {} /\ \A c : Once(<<>>, c) /\ Twice(<<>>, c)
  BY SMT DEF ToSet, Once, Twice

\* What stands nowhere stands at most once; what stands once, at most twice.
LEMMA FewerPlaces ==
    ASSUME NEW list \in Seq(Comments), NEW c
    PROVE  (c \notin ToSet(list) => Once(list, c)) /\ (Once(list, c) => Twice(list, c))
  BY SMT DEF ToSet, Once, Twice

\* A handler goes on without a new comment or a new answer.
Quiet(x) ==
    /\ tasks'[x].pc \in CreateSteps => Creates(x, tasks'[x].comment)
    /\ tasks'[x].pc = "saving" => ~Stored(tasks'[x].comment)
    /\ tasks'[x].pc \in {"finding", "readBack"} \cup DeleteSteps => Stored(tasks'[x].comment)
    /\ tasks'[x].answer \in {<<>>, tasks[x].answer}

\* The copies lose comments at most.
Shrinks ==
    \A i \in SessionIds :
      /\ ToSet(comments'[i]) \subseteq ToSet(comments[i])
      /\ \A c \in Comments : /\ Once(comments[i], c) => Once(comments'[i], c)
                             /\ Twice(comments[i], c) => Twice(comments'[i], c)

\* Such steps count nothing anew.
LEMMA CopiedFrame ==
    ASSUME Copied, UNCHANGED dbVars, \A x \in Tasks : Quiet(x), Shrinks
    PROVE  RowsOnce' /\ Counted'
<1>1. \A c : Stored(c)' <=> Stored(c)
  BY DEF Stored, dbVars
<1>2. \A x \in Tasks : \A c \in Comments : Creates(x, c)' => Creates(x, c)
  BY DEF Quiet, Creates
<1>3. RowOnce'
  BY EmptyList DEF Copied, RowsOnce, RowOnce, Quiet, dbVars
<1>4. OneCreator'
  BY <1>2 DEF Copied, RowsOnce, OneCreator
<1>5. Inserted'
  <2>1. ASSUME NEW x \in Tasks PROVE \A c \in ToSet(tasks'[x].answer) : Stored(c)
    BY EmptyList DEF Copied, RowsOnce, Inserted, Quiet
  <2>2. ASSUME NEW i \in SessionIds PROVE \A c \in ToSet(comments'[i]) : Stored(c)
    BY DEF Shrinks, Copied, RowsOnce, Inserted
  <2>3. ASSUME NEW x \in Tasks
        PROVE  /\ tasks'[x].pc = "saving" => ~Stored(tasks'[x].comment)
               /\ tasks'[x].pc \in {"finding", "readBack"} \cup DeleteSteps
                    => Stored(tasks'[x].comment)
    BY DEF Quiet
  <2> QED  BY <1>1, <2>1, <2>2, <2>3 DEF Inserted
<1>6. Counted'
  BY <1>2 DEF Copied, Counted, Shrinks
<1> QED  BY <1>3, <1>4, <1>5, <1>6 DEF RowsOnce

\* A handler that does nothing is quiet, and so is one that has ended.
LEMMA QuietOthers ==
    ASSUME Copied, NEW x \in Tasks, tasks'[x] \in {tasks[x], Idle}
    PROVE  Quiet(x)
<1>1. CASE tasks'[x] = tasks[x]
  BY <1>1 DEF Quiet, Copied, RowsOnce, Inserted, Creates
<1>2. CASE tasks'[x] = Idle
  <2>1. tasks'[x].pc = "idle" /\ tasks'[x].answer = <<>>
    BY <1>2 DEF Idle
  <2> QED  BY <2>1 DEF Quiet, CreateSteps, DeleteSteps
<1> QED  BY <1>1, <1>2

LEMMA SameCopies == ASSUME UNCHANGED comments PROVE Shrinks
  BY DEF Shrinks

LEMMA CopiedPageJoin ==
    ASSUME Copied, NEW t \in Tasks, NEW u \in Users, PageJoin(t, u)
    PROVE  RowsOnce' /\ Counted'
<1>1. PICK i \in SessionIds :
        /\ comments' = [comments EXCEPT ![i] = <<>>] \/ UNCHANGED comments
        /\ tasks' = [tasks EXCEPT ![t] = Task("projecting", u, None, i)]
  BY DEF PageJoin, Begin
<1>2. Shrinks
  BY <1>1, EmptyList DEF Shrinks, Copied, Typed, PageTyped
<1>3. Task("projecting", u, None, i).pc = "projecting" /\ Task("projecting", u, None, i).answer = <<>>
  BY DEF Task, Idle
<1>4. tasks \in [Tasks -> TaskRecord]
  BY DEF Copied, Typed, TasksTyped
<1>5. ASSUME NEW x \in Tasks PROVE Quiet(x)
  <2>1. CASE x = t
    BY <1>1, <1>3, <1>4, <2>1 DEF Quiet, CreateSteps, DeleteSteps
  <2>2. CASE x # t
    BY <1>1, <1>4, <2>2, QuietOthers
  <2> QED  BY <2>1, <2>2
<1> QED  BY <1>2, <1>5, CopiedFrame DEF PageJoin, dbVars

\* A step of one handler to another program counter, or to its end.
LEMMA QuietStep ==
    ASSUME Copied, NEW t \in Tasks, NEW pc,
           \/ tasks' = [tasks EXCEPT ![t] = Idle]
           \/ tasks' = [tasks EXCEPT ![t].pc = pc],
           pc # "saving",
           pc \in CreateSteps => tasks[t].pc \in CreateSteps,
           pc \in {"finding", "readBack"} \cup DeleteSteps => Stored(tasks[t].comment)
    PROVE  \A x \in Tasks : Quiet(x)
<1> SUFFICES ASSUME NEW x \in Tasks PROVE Quiet(x)
  OBVIOUS
<1>1. tasks \in [Tasks -> TaskRecord]
  BY DEF Copied, Typed, TasksTyped
<1>2. CASE x # t \/ tasks' = [tasks EXCEPT ![t] = Idle]
  BY <1>1, <1>2, QuietOthers
<1>3. CASE x = t /\ tasks' = [tasks EXCEPT ![t].pc = pc]
  <2>1. tasks'[t] = [tasks[t] EXCEPT !.pc = pc] /\ tasks[t] \in TaskRecord
    BY <1>1, <1>3
  <2>2. /\ tasks'[t].pc = pc /\ tasks'[t].comment = tasks[t].comment
        /\ tasks'[t].answer = tasks[t].answer
    BY <2>1 DEF TaskRecord
  <2> QED  BY <1>3, <2>2 DEF Quiet, Creates
<1> QED  BY <1>2, <1>3

LEMMA CopiedJoinProject ==
    ASSUME Copied, NEW t \in Tasks, JoinProject(t)
    PROVE  RowsOnce' /\ Counted'
<1>1. \/ tasks' = [tasks EXCEPT ![t] = Idle]
      \/ tasks' = [tasks EXCEPT ![t].pc = "loading"]
  BY DEF JoinProject, SendSessionState, End
<1>2. \A x \in Tasks : Quiet(x)
  BY <1>1, QuietStep DEF CreateSteps, DeleteSteps
<1> QED  BY <1>2, SameCopies, CopiedFrame DEF JoinProject

LEMMA CopiedGetComments ==
    ASSUME Copied, NEW t \in Tasks, getProjectComments(t)
    PROVE  RowsOnce' /\ Counted'
<1>1. tasks \in [Tasks -> TaskRecord]
  BY DEF Copied, Typed, TasksTyped
<1>2. tasks' = [tasks EXCEPT ![t] = [tasks[t] EXCEPT !.pc = "loaded", !.answer = rows]]
  BY DEF getProjectComments
<1>3. tasks'[t].pc = "loaded" /\ tasks'[t].answer = rows
  BY <1>1, <1>2 DEF TaskRecord
<1>4. \A x \in Tasks \ {t} : tasks'[x] = tasks[x]
  BY <1>1, <1>2
<1>5. UNCHANGED <<rows, gone, comments>>
  BY DEF getProjectComments, dbVars, pageVars
<1>6. \A c : Stored(c)' <=> Stored(c)
  BY <1>5 DEF Stored
<1>7. RowOnce'
  BY <1>3, <1>4, <1>5 DEF Copied, RowsOnce, RowOnce
<1>8. \A x \in Tasks : \A c \in Comments : Creates(x, c)' => Creates(x, c)
  BY <1>3, <1>4 DEF Creates, CreateSteps
<1>9. OneCreator'
  BY <1>8 DEF Copied, RowsOnce, OneCreator
<1>10. Inserted'
  <2>1. \A c \in ToSet(rows) : Stored(c)
    BY DEF Stored
  <2> QED  BY <1>3, <1>4, <1>5, <1>6, <2>1 DEF Copied, RowsOnce, Inserted, DeleteSteps
<1>11. Counted'
  BY <1>5, <1>8 DEF Copied, Counted
<1> QED  BY <1>7, <1>9, <1>10, <1>11 DEF RowsOnce

LEMMA CopiedLoad ==
    ASSUME Copied, NEW t \in Tasks, LoadSessionComments(t)
    PROVE  RowsOnce' /\ Counted'
<1> DEFINE i == tasks[t].sess   answer == tasks[t].answer
<1>1. i \in SessionIds /\ answer \in Seq(Comments)
  BY DEF LoadSessionComments, At, Copied, Typed, TasksTyped, WellFormed, JoinSteps, TaskRecord
<1>2. tasks' = [tasks EXCEPT ![t] = Idle] /\ tasks \in [Tasks -> TaskRecord]
  BY DEF LoadSessionComments, SendSessionState, End, Copied, Typed, TasksTyped
<1>3. comments' = [comments EXCEPT ![i] = answer] /\ comments \in [SessionIds -> Seq(Comments)]
  BY DEF LoadSessionComments, Copied, Typed, PageTyped
<1>4. \A x \in Tasks : Quiet(x)
  BY <1>2, QuietOthers
<1>5. \A c : Stored(c)' <=> Stored(c)
  BY DEF LoadSessionComments, dbVars, Stored
<1>6. \A x \in Tasks : \A c \in Comments : Creates(x, c)' => Creates(x, c)
  BY <1>4 DEF Quiet, Creates
<1>7. RowOnce'
  BY <1>4, EmptyList DEF LoadSessionComments, dbVars, Quiet, Copied, RowsOnce, RowOnce
<1>8. OneCreator'
  BY <1>6 DEF Copied, RowsOnce, OneCreator
<1>9. Inserted'
  <2>1. \A x \in Tasks : \A c \in ToSet(tasks'[x].answer) : Stored(c)
    BY <1>4, EmptyList DEF Copied, RowsOnce, Inserted, Quiet
  <2>2. \A j \in SessionIds : \A c \in ToSet(comments'[j]) : Stored(c)
    BY <1>1, <1>3 DEF Copied, RowsOnce, Inserted
  <2> QED  BY <1>4, <1>5, <2>1, <2>2 DEF Inserted, Quiet
<1>10. Counted'
  <2>1. \A c \in Comments : Once(answer, c) /\ Twice(answer, c)
    BY <1>1, FewerPlaces DEF Copied, RowsOnce, RowOnce
  <2> QED  BY <1>1, <1>3, <1>6, <2>1 DEF Copied, Counted
<1> QED  BY <1>7, <1>8, <1>9, <1>10 DEF RowsOnce

LEMMA CopiedPageLeave ==
    ASSUME Copied, NEW u \in Users, PageLeave(u)
    PROVE  RowsOnce' /\ Counted'
<1>1. \A x \in Tasks : Quiet(x)
  BY QuietOthers DEF PageLeave
<1> QED  BY <1>1, SameCopies, CopiedFrame DEF PageLeave

LEMMA CopiedFindCreated ==
    ASSUME Copied, NEW t \in Tasks, FindCreated(t)
    PROVE  RowsOnce' /\ Counted'
<1>1. \A x \in Tasks : Quiet(x)
  <2>1. tasks[t].pc = "finding"
    BY DEF FindCreated, At
  <2>2. CASE tasks' = [tasks EXCEPT ![t].pc = "readBack"] /\ tasks[t].comment \in ToSet(rows)
    BY <2>1, <2>2, QuietStep DEF Stored, CreateSteps
  <2>3. CASE End(t)
    BY <2>3, QuietStep DEF End, CreateSteps, DeleteSteps, Copied, RowsOnce, Inserted
  <2> QED  BY <2>2, <2>3 DEF FindCreated
<1> QED  BY <1>1, SameCopies, CopiedFrame DEF FindCreated, pageVars

LEMMA CopiedCommentCreate ==
    ASSUME Copied, NEW t \in Tasks, NEW u \in Users, NEW c \in Comments, CommentCreate(t, u, c)
    PROVE  RowsOnce' /\ Counted'
<1> DEFINE k == Task("saving", u, c, live)
<1>1. tasks' = [tasks EXCEPT ![t] = k] /\ tasks \in [Tasks -> TaskRecord]
  BY DEF CommentCreate, Begin, Copied, Typed, TasksTyped
<1>2. k.pc = "saving" /\ k.comment = c /\ k.answer = <<>>
  BY DEF Task, Idle
<1>3. /\ tasks'[t].pc = "saving" /\ tasks'[t].comment = c /\ tasks'[t].answer = <<>>
      /\ \A x \in Tasks \ {t} : tasks'[x] = tasks[x]
  BY <1>1, <1>2
<1>4. UNCHANGED <<rows, gone, comments>>
  BY DEF CommentCreate, dbVars, pageVars
<1>5. ~Stored(c) /\ \A x \in Tasks : tasks[x].comment # c
  BY DEF CommentCreate, Unused, Stored
<1>6. \A d : Stored(d)' <=> Stored(d)
  BY <1>4 DEF Stored
<1>7. RowOnce'
  BY <1>3, <1>4, EmptyList DEF Copied, RowsOnce, RowOnce
<1>8. \A x \in Tasks : \A d \in Comments : Creates(x, d)' => Creates(x, d) \/ (x = t /\ d = c)
  BY <1>3 DEF Creates
<1>9. OneCreator'
  BY <1>5, <1>8 DEF Copied, RowsOnce, OneCreator, Creates
<1>10. Inserted'
  <2>1. ASSUME NEW x \in Tasks
        PROVE  /\ tasks'[x].pc = "saving" => ~Stored(tasks'[x].comment)
               /\ tasks'[x].pc \in {"finding", "readBack"} \cup DeleteSteps
                    => Stored(tasks'[x].comment)
               /\ \A d \in ToSet(tasks'[x].answer) : Stored(d)
    <3>1. CASE x = t
      BY <1>3, <1>5, <3>1, EmptyList DEF DeleteSteps
    <3>2. CASE x # t
      BY <1>3, <3>2 DEF Copied, RowsOnce, Inserted
    <3> QED  BY <3>1, <3>2
  <2> QED  BY <1>4, <1>6, <2>1 DEF Copied, RowsOnce, Inserted
<1>11. Counted'
  <2>1. ASSUME NEW i \in SessionIds PROVE Once(comments[i], c)
    <3>1. comments[i] \in Seq(Comments) /\ c \notin ToSet(comments[i])
      BY <1>5 DEF Copied, Typed, PageTyped, RowsOnce, Inserted
    <3> QED  BY <3>1, FewerPlaces
  <2> QED  BY <1>4, <1>8, <2>1 DEF Copied, Counted
<1> QED  BY <1>7, <1>9, <1>10, <1>11 DEF RowsOnce

LEMMA CopiedSave ==
    ASSUME Copied, NEW t \in Tasks, SaveComment(t)
    PROVE  RowsOnce' /\ Counted'
<1> DEFINE c == tasks[t].comment
<1>1. tasks[t].pc = "saving" /\ c \in Comments
  BY DEF SaveComment, At, Copied, Typed, TasksTyped, WellFormed, CreateSteps
<1>2. tasks' = [tasks EXCEPT ![t].pc = "finding"] /\ tasks \in [Tasks -> TaskRecord]
  BY DEF SaveComment, Copied, Typed, TasksTyped
<1>3. /\ tasks'[t].pc = "finding" /\ tasks'[t].comment = c /\ tasks'[t].answer = tasks[t].answer
      /\ \A x \in Tasks \ {t} : tasks'[x] = tasks[x]
  BY <1>2 DEF TaskRecord
<1>4. rows' = <<c>> \o rows /\ UNCHANGED <<gone, comments>> /\ rows \in Seq(Comments)
  BY DEF SaveComment, pageVars, Copied, Typed, RowsTyped
<1>5. Creates(t, c) /\ ~Stored(c)
  BY <1>1 DEF Creates, CreateSteps, Copied, RowsOnce, Inserted
<1>6. ToSet(rows') = ToSet(rows) \cup {c} /\ \A d \in Comments : Once(rows', d)
  BY <1>1, <1>4, <1>5, NewestFirst DEF Stored, Copied, RowsOnce, RowOnce
<1>7. \A d : Stored(d)' <=> (Stored(d) \/ d = c)
  BY <1>4, <1>6 DEF Stored
<1>8. RowOnce'
  BY <1>3, <1>6 DEF Copied, RowsOnce, RowOnce
<1>9. \A x \in Tasks : \A d \in Comments : Creates(x, d)' <=> Creates(x, d)
  BY <1>1, <1>3 DEF Creates, CreateSteps
<1>10. OneCreator'
  BY <1>9 DEF Copied, RowsOnce, OneCreator
<1>11. Inserted'
  <2> DEFINE Known(d) == Stored(d) \/ d = c
  <2>1. ASSUME NEW x \in Tasks
        PROVE  /\ tasks'[x].pc = "saving" => ~Known(tasks'[x].comment)
               /\ tasks'[x].pc \in {"finding", "readBack"} \cup DeleteSteps
                    => Known(tasks'[x].comment)
               /\ \A d \in ToSet(tasks'[x].answer) : Known(d)
    <3>1. CASE x = t
      BY <1>3, <3>1 DEF Copied, RowsOnce, Inserted
    <3>2. CASE x # t
      <4>1. tasks'[x] = tasks[x]
        BY <1>3, <3>2
      <4>2. tasks[x].pc = "saving" => tasks[x].comment # c
        BY <1>1, <1>5, <3>2 DEF Creates, CreateSteps, Copied, RowsOnce, OneCreator
      <4> QED  BY <4>1, <4>2 DEF Copied, RowsOnce, Inserted
    <3> QED  BY <3>1, <3>2
  <2>2. \A i \in SessionIds : \A d \in ToSet(comments'[i]) : Known(d)
    BY <1>4 DEF Copied, RowsOnce, Inserted
  <2> HIDE DEF Known
  <2>3. \A d : Stored(d)' <=> Known(d)
    BY <1>7 DEF Known
  <2> QED  BY <2>1, <2>2, <2>3 DEF Inserted
<1>12. Counted'
  BY <1>4, <1>9 DEF Copied, Counted
<1> QED  BY <1>8, <1>10, <1>11, <1>12 DEF RowsOnce

\* What is pushed after a handler has read its comment back.
LEMMA PushedTwice ==
    ASSUME Copied, NEW c \in Comments, NEW s \in SessionIds, NEW i \in SessionIds,
           \A j \in SessionIds : Once(comments[j], c)
    PROVE  LET pushed == [OnCreated(c) EXCEPT ![s] = Append(@, c)] IN
           /\ ToSet(pushed[i]) \subseteq ToSet(comments[i]) \cup {c}
           /\ ToSet(comments[i]) \subseteq ToSet(pushed[i])
           /\ \A d \in Comments \ {c} : /\ Once(comments[i], d) => Once(pushed[i], d)
                                        /\ Twice(comments[i], d) => Twice(pushed[i], d)
           /\ Twice(pushed[i], c)
<1> DEFINE heard == OnCreated(c)   pushed == [heard EXCEPT ![s] = Append(@, c)]
<1>1. comments \in [SessionIds -> Seq(Comments)] /\ heard \in [SessionIds -> Seq(Comments)]
  BY TypedListeners DEF Copied, Typed, PageTyped
<1>2. /\ ToSet(heard[i]) \subseteq ToSet(comments[i]) \cup {c}
      /\ ToSet(comments[i]) \subseteq ToSet(heard[i])
      /\ \A d \in Comments \ {c} : /\ Once(comments[i], d) => Once(heard[i], d)
                                   /\ Twice(comments[i], d) => Twice(heard[i], d)
      /\ Once(heard[i], c)
  <2>1. CASE heard[i] = comments[i]
    BY <2>1
  <2>2. CASE heard[i] = Append(comments[i], c) /\ c \notin ToSet(comments[i])
    BY <1>1, <2>2, PushedList
  <2> QED  BY <1>1, <2>1, <2>2 DEF OnCreated
<1>3. CASE i = s
  <2> HIDE DEF heard
  <2>1. pushed[i] = Append(heard[i], c) /\ heard[i] \in Seq(Comments)
    BY <1>1, <1>3
  <2> HIDE DEF pushed
  <2>2. /\ ToSet(pushed[i]) = ToSet(heard[i]) \cup {c}
        /\ \A d \in Comments \ {c} : /\ Once(heard[i], d) => Once(pushed[i], d)
                                     /\ Twice(heard[i], d) => Twice(pushed[i], d)
        /\ Twice(pushed[i], c)
    BY <1>2, <2>1, PushedList
  <2>3. /\ ToSet(pushed[i]) \subseteq ToSet(comments[i]) \cup {c}
        /\ ToSet(comments[i]) \subseteq ToSet(pushed[i])
        /\ \A d \in Comments \ {c} : /\ Once(comments[i], d) => Once(pushed[i], d)
                                     /\ Twice(comments[i], d) => Twice(pushed[i], d)
        /\ Twice(pushed[i], c)
    BY <1>2, <2>2
  <2> QED  BY <2>3 DEF pushed, heard
<1>4. CASE i # s
  <2> HIDE DEF heard
  <2>1. pushed[i] = heard[i] /\ heard[i] \in Seq(Comments)
    BY <1>1, <1>4
  <2>2. Twice(heard[i], c)
    BY <1>2, <2>1, FewerPlaces
  <2> HIDE DEF pushed
  <2>3. /\ ToSet(pushed[i]) \subseteq ToSet(comments[i]) \cup {c}
        /\ ToSet(comments[i]) \subseteq ToSet(pushed[i])
        /\ \A d \in Comments \ {c} : /\ Once(comments[i], d) => Once(pushed[i], d)
                                     /\ Twice(comments[i], d) => Twice(pushed[i], d)
        /\ Twice(pushed[i], c)
    BY <1>2, <2>1, <2>2
  <2> QED  BY <2>3 DEF pushed, heard
<1> QED  BY <1>3, <1>4

LEMMA CopiedCreated ==
    ASSUME Copied, NEW t \in Tasks, CommentCreated(t)
    PROVE  RowsOnce' /\ Counted'
<1> DEFINE c == tasks[t].comment   s == tasks[t].sess
<1>1. tasks[t].pc = "readBack" /\ c \in Comments /\ s \in SessionIds
  BY DEF CommentCreated, At, Copied, Typed, TasksTyped, WellFormed, CreateSteps
<1>2. tasks' = [tasks EXCEPT ![t] = Idle] /\ tasks \in [Tasks -> TaskRecord]
  BY DEF CommentCreated, End, Copied, Typed, TasksTyped
<1>3. comments' = [OnCreated(c) EXCEPT ![s] = Append(@, c)]
  BY DEF CommentCreated
<1>4. Creates(t, c) /\ Stored(c)
  BY <1>1 DEF Creates, CreateSteps, Copied, RowsOnce, Inserted
<1>5. \A j \in SessionIds : Once(comments[j], c)
  BY <1>1, <1>4 DEF Copied, Counted
<1>6. ASSUME NEW i \in SessionIds
      PROVE  /\ ToSet(comments'[i]) \subseteq ToSet(comments[i]) \cup {c}
             /\ \A d \in Comments \ {c} : /\ Once(comments[i], d) => Once(comments'[i], d)
                                          /\ Twice(comments[i], d) => Twice(comments'[i], d)
             /\ Twice(comments'[i], c)
  <2> HIDE DEF c, s
  <2>1. LET pushed == [OnCreated(c) EXCEPT ![s] = Append(@, c)] IN
          /\ ToSet(pushed[i]) \subseteq ToSet(comments[i]) \cup {c}
          /\ \A d \in Comments \ {c} : /\ Once(comments[i], d) => Once(pushed[i], d)
                                       /\ Twice(comments[i], d) => Twice(pushed[i], d)
          /\ Twice(pushed[i], c)
    BY <1>1, <1>5, PushedTwice
  <2> QED  BY <1>3, <2>1
<1>7. \A x \in Tasks : Quiet(x)
  BY <1>2, QuietOthers
<1>8. UNCHANGED <<rows, gone>>
  BY DEF CommentCreated, dbVars
<1>9. \A d : Stored(d)' <=> Stored(d)
  BY <1>8 DEF Stored
<1>10. \A x \in Tasks : \A d \in Comments : Creates(x, d)' => Creates(x, d) /\ d # c
  <2>1. tasks'[t].pc = "idle" /\ \A x \in Tasks \ {t} : tasks'[x] = tasks[x]
    BY <1>2 DEF Idle
  <2> QED  BY <1>1, <1>4, <2>1 DEF Creates, CreateSteps, Copied, RowsOnce, OneCreator
<1>11. RowOnce'
  BY <1>7, <1>8, EmptyList DEF Quiet, Copied, RowsOnce, RowOnce
<1>12. OneCreator'
  BY <1>10 DEF Copied, RowsOnce, OneCreator
<1>13. Inserted'
  <2>1. \A x \in Tasks : \A d \in ToSet(tasks'[x].answer) : Stored(d)
    BY <1>7, EmptyList DEF Copied, RowsOnce, Inserted, Quiet
  <2>2. \A j \in SessionIds : \A d \in ToSet(comments'[j]) : Stored(d)
    BY <1>4, <1>6 DEF Copied, RowsOnce, Inserted
  <2> QED  BY <1>7, <1>9, <2>1, <2>2 DEF Inserted, Quiet
<1>14. Counted'
  BY <1>6, <1>10 DEF Copied, Counted
<1> QED  BY <1>11, <1>12, <1>13, <1>14 DEF RowsOnce

LEMMA CopiedCommentDelete ==
    ASSUME Copied, NEW t \in Tasks, NEW u \in Users, NEW c \in Comments, CommentDelete(t, u, c)
    PROVE  RowsOnce' /\ Counted'
<1> DEFINE k == [Task("owning", u, c, live) EXCEPT !.index = findIndex(comments[live], c)]
<1>1. tasks' = [tasks EXCEPT ![t] = k] /\ tasks \in [Tasks -> TaskRecord]
  BY DEF CommentDelete, Begin, Copied, Typed, TasksTyped
<1>2. k.pc = "owning" /\ k.comment = c /\ k.answer = <<>>
  BY DEF Task, Idle
<1>3. Stored(c)
  <2>1. live \in SessionIds /\ comments[live] \in Seq(Comments)
    BY DEF CommentDelete, Copied, Typed, PageTyped
  <2>2. c \in ToSet(comments[live])
    BY <2>1, FirstPlace DEF CommentDelete
  <2> QED  BY <2>1, <2>2 DEF Copied, RowsOnce, Inserted
<1>4. ASSUME NEW x \in Tasks PROVE Quiet(x)
  <2>1. CASE x = t
    <3> HIDE DEF k
    <3>1. tasks'[x] = k
      BY <1>1, <2>1
    <3> QED  BY <1>2, <1>3, <3>1 DEF Quiet, CreateSteps
  <2>2. CASE x # t
    BY <1>1, <2>2, QuietOthers
  <2> QED  BY <2>1, <2>2
<1> QED  BY <1>4, SameCopies, CopiedFrame DEF CommentDelete, pageVars

LEMMA CopiedFindOwn ==
    ASSUME Copied, NEW t \in Tasks, FindOwn(t)
    PROVE  RowsOnce' /\ Counted'
<1>1. tasks[t].pc = "owning" /\ Stored(tasks[t].comment)
  BY DEF FindOwn, At, DeleteSteps, Copied, RowsOnce, Inserted
<1>2. \/ tasks' = [tasks EXCEPT ![t] = Idle]
      \/ tasks' = [tasks EXCEPT ![t].pc = "deleting"]
  BY DEF FindOwn, End
<1>3. \A x \in Tasks : Quiet(x)
  BY <1>1, <1>2, QuietStep DEF CreateSteps
<1> QED  BY <1>3, SameCopies, CopiedFrame DEF FindOwn, pageVars

LEMMA CopiedSoftDelete ==
    ASSUME Copied, NEW t \in Tasks, SoftDelete(t)
    PROVE  RowsOnce' /\ Counted'
<1> DEFINE c == tasks[t].comment
<1>1. tasks[t].pc = "deleting" /\ Stored(c)
  BY DEF SoftDelete, At, DeleteSteps, Copied, RowsOnce, Inserted
<1>2. tasks' = [tasks EXCEPT ![t].pc = "deleted"]
  BY DEF SoftDelete
<1>3. \A x \in Tasks : Quiet(x)
  BY <1>1, <1>2, QuietStep DEF CreateSteps
<1>4. /\ rows' = splice(rows, findIndex(rows, c)) /\ gone' = gone \cup {c}
      /\ UNCHANGED comments /\ rows \in Seq(Comments) /\ findIndex(rows, c) \in Nat
  BY RowTaken, FirstPlace DEF SoftDelete, pageVars, Copied, Typed, RowsTyped
<1>5. /\ ToSet(rows') \subseteq ToSet(rows) /\ ToSet(rows) \subseteq ToSet(rows') \cup {c}
      /\ \A d : Once(rows, d) => Once(rows', d)
  BY <1>4, SplicedList, RowTaken
<1>6. \A d : Stored(d)' <=> Stored(d)
  BY <1>1, <1>4, <1>5 DEF Stored
<1>7. \A x \in Tasks : \A d \in Comments : Creates(x, d)' => Creates(x, d)
  BY <1>3 DEF Quiet, Creates
<1>8. RowOnce'
  BY <1>3, <1>5, EmptyList DEF Quiet, Copied, RowsOnce, RowOnce
<1>9. OneCreator'
  BY <1>7 DEF Copied, RowsOnce, OneCreator
<1>10. Inserted'
  <2>1. \A x \in Tasks : \A d \in ToSet(tasks'[x].answer) : Stored(d)
    BY <1>3, EmptyList DEF Copied, RowsOnce, Inserted, Quiet
  <2> QED  BY <1>3, <1>4, <1>6, <2>1 DEF Inserted, Quiet, Copied, RowsOnce
<1>11. Counted'
  BY <1>4, <1>7 DEF Copied, Counted
<1> QED  BY <1>8, <1>9, <1>10, <1>11 DEF RowsOnce

LEMMA CopiedDeleted ==
    ASSUME Copied, NEW t \in Tasks, CommentDeleted(t)
    PROVE  RowsOnce' /\ Counted'
<1> DEFINE c == tasks[t].comment   s == tasks[t].sess   n == tasks[t].index
           heard == OnDeleted(c)
<1>1. c \in Comments /\ s \in SessionIds /\ n \in Nat
  BY DEF CommentDeleted, At, Copied, Typed, TasksTyped, WellFormed, DeleteSteps, TaskRecord
<1>2. comments' = [heard EXCEPT ![s] = splice(@, n)]
  BY DEF CommentDeleted
<1>3. comments \in [SessionIds -> Seq(Comments)] /\ heard \in [SessionIds -> Seq(Comments)]
  BY <1>1, TypedListeners DEF Copied, Typed, PageTyped
<1>4. ASSUME NEW i \in SessionIds
      PROVE  heard[i] = comments[i] \/ \E m \in Nat : heard[i] = splice(comments[i], m)
  <2>1. findIndex(comments[i], c) \in Nat
    BY <1>3, FirstPlace
  <2> QED  BY <1>3, <2>1 DEF OnDeleted
<1> HIDE DEF heard, c, s, n
<1>5. ASSUME NEW i \in SessionIds
      PROVE  comments'[i] = heard[i] \/ comments'[i] = splice(heard[i], n)
  BY <1>2, <1>3
<1>6. ASSUME NEW i \in SessionIds, NEW d
      PROVE  /\ ToSet(heard[i]) \subseteq ToSet(comments[i])
             /\ Once(comments[i], d) => Once(heard[i], d)
             /\ Twice(comments[i], d) => Twice(heard[i], d)
  BY <1>3, <1>4, SplicedList
<1>7. ASSUME NEW i \in SessionIds, NEW d
      PROVE  /\ ToSet(comments'[i]) \subseteq ToSet(heard[i])
             /\ Once(heard[i], d) => Once(comments'[i], d)
             /\ Twice(heard[i], d) => Twice(comments'[i], d)
  BY <1>1, <1>3, <1>5, SplicedList
<1>8. Shrinks
  BY <1>6, <1>7 DEF Shrinks
<1>9. \A x \in Tasks : Quiet(x)
  BY QuietOthers DEF CommentDeleted, End, Copied, Typed, TasksTyped
<1> QED  BY <1>8, <1>9, CopiedFrame DEF CommentDeleted

LEMMA CopiedFails ==
    ASSUME Copied, NEW t \in Tasks, DbCallFails(t)
    PROVE  RowsOnce' /\ Counted'
<1>1. \A x \in Tasks : Quiet(x)
  BY QuietOthers DEF DbCallFails, SendSessionState, End, Copied, Typed, TasksTyped
<1>2. UNCHANGED comments
  BY DEF DbCallFails
<1> QED  BY <1>1, <1>2, SameCopies, CopiedFrame DEF DbCallFails

LEMMA CopiedInit == Init => Copied
<1> SUFFICES ASSUME Init PROVE Copied
  OBVIOUS
<1>1. \A t \in Tasks : tasks[t].pc = "idle" /\ tasks[t].answer = <<>>
  BY DEF Init, Idle
<1>2. \A i \in SessionIds : comments[i] = <<>>
  BY DEF Init
<1>3. RowOnce /\ Inserted
  BY <1>1, <1>2, EmptyList DEF Init, RowOnce, Inserted, DeleteSteps
<1>4. OneCreator /\ Counted
  BY <1>1, <1>2, EmptyList DEF OneCreator, Counted, Creates, CreateSteps
<1> QED  BY <1>3, <1>4, TypedInit DEF Copied, RowsOnce

LEMMA CopiedStep == Copied /\ [Next]_vars => Copied'
<1> SUFFICES ASSUME Copied, [Next]_vars PROVE RowsOnce' /\ Counted'
  BY TypedStep DEF Copied
<1>1. ASSUME NEW t \in Tasks, Resume(t) PROVE RowsOnce' /\ Counted'
  BY <1>1, CopiedJoinProject, CopiedGetComments, CopiedLoad, CopiedSave, CopiedFindCreated,
     CopiedCreated, CopiedFindOwn, CopiedSoftDelete, CopiedDeleted, CopiedFails DEF Resume
<1>2. ASSUME NEW t \in Tasks, NEW u \in Users,
             \/ PageJoin(t, u)
             \/ \E c \in Comments : CommentCreate(t, u, c) \/ CommentDelete(t, u, c)
      PROVE  RowsOnce' /\ Counted'
  BY <1>2, CopiedPageJoin, CopiedCommentCreate, CopiedCommentDelete
<1>3. CASE UNCHANGED vars
  <2>1. \A x \in Tasks : Quiet(x)
    BY <1>3, QuietOthers DEF vars
  <2> QED  BY <1>3, <2>1, SameCopies, CopiedFrame DEF vars, pageVars
<1> QED  BY <1>1, <1>2, <1>3, CopiedPageLeave DEF Next

\* A set of places without three different members has at most two.
LEMMA AtMostTwo ==
    ASSUME NEW S, IsFiniteSet(S), \A l, m, n \in S : l = m \/ m = n \/ l = n
    PROVE  Cardinality(S) <= 2
<1>1. CASE S = {}
  BY <1>1, FS_EmptySet, SMT
<1>2. CASE S # {}
  <2>1. PICK m \in S : TRUE
    BY <1>2
  <2>2. CASE S = {m}
    BY <2>2, FS_Singleton, SMT
  <2>3. CASE S # {m}
    <3>1. PICK n \in S : n # m
      BY <2>1, <2>3
    <3>2. S = {m} \cup {n}
      BY <2>1, <3>1
    <3>3. IsFiniteSet({m}) /\ Cardinality({m}) = 1 /\ n \notin {m}
      BY <3>1, FS_Singleton
    <3>4. Cardinality({m} \cup {n}) = 2
      BY <3>3, FS_AddElement, SMT
    <3> QED  BY <3>2, <3>4, SMT
  <2> QED  BY <2>2, <2>3
<1> QED  BY <1>1, <1>2

\* The listener of comment:created and the handler of comment:create both push,
\* and no load, rejoin or retry lets a comment stand a third time in a session,
\* whatever answers are late, calls fail and comments are deleted meanwhile.
THEOREM CommentsCopiedTwice == Spec => []CopiedTwice
<1>1. Copied => CopiedTwice
  <2> SUFFICES ASSUME Copied, NEW i \in SessionIds, NEW c \in Comments
               PROVE  Cardinality({n \in 1..Len(comments[i]) : comments[i][n] = c}) <= 2
    BY DEF CopiedTwice
  <2> DEFINE S == {n \in 1..Len(comments[i]) : comments[i][n] = c}
  <2>1. \A l, m, n \in S : l = m \/ m = n \/ l = n
    BY DEF Copied, Counted, Twice
  <2>2. Len(comments[i]) \in Nat
    BY LenProperties DEF Copied, Typed, PageTyped
  <2>3. IsFiniteSet(S)
    <3>1. IsFiniteSet(1..Len(comments[i]))
      BY <2>2, FS_Interval, SMT
    <3> QED  BY <3>1, FS_Subset
  <2> QED  BY <2>1, <2>3, AtMostTwo
<1> QED  BY <1>1, CopiedInit, CopiedStep, PTL DEF Spec

-----------------------------------------------------------------------------
(* When answers are prompt *)

\* Two handlers never are between a statement and its answer at the same time.
LEMMA PromptTurn ==
    ASSUME liberties = {}, NEW t \in Tasks, NEW pc, At(t, pc)
    PROVE  tasks[t].pc = pc /\ \A x \in Tasks \ {t} : tasks[x].pc # "loaded"
  BY DEF At, Turn, Answered

\* What of a handler the rows and the page are tied to.
LEMMA HandlerSteps ==
    ASSUME Typed, NEW t \in Tasks, NEW pc, tasks' = [tasks EXCEPT ![t].pc = pc]
    PROVE  /\ tasks'[t].pc = pc /\ tasks'[t].comment = tasks[t].comment
           /\ tasks'[t].user = tasks[t].user /\ tasks'[t].sess = tasks[t].sess
           /\ \A x \in Tasks \ {t} : tasks'[x] = tasks[x]
<1>1. tasks \in [Tasks -> TaskRecord]
  BY DEF Typed, TasksTyped
<1>2. tasks[t] \in TaskRecord /\ tasks'[t] = [tasks[t] EXCEPT !.pc = pc]
  BY <1>1
<1> QED  BY <1>1, <1>2 DEF TaskRecord

LEMMA HandlerEnds ==
    ASSUME Typed, NEW t \in Tasks, End(t)
    PROVE  tasks'[t].pc = "idle" /\ \A x \in Tasks \ {t} : tasks'[x] = tasks[x]
  BY DEF End, Idle, Typed, TasksTyped

LEMMA ServedPageJoin ==
    ASSUME Complete, Served, NEW t \in Tasks, NEW u \in Users, PageJoin(t, u)
    PROVE  Served'
<1>1. PICK i \in SessionIds :
        /\ IF live = None
           THEN /\ \A x \in Tasks : tasks[x].sess # i
                /\ comments' = [comments EXCEPT ![i] = <<>>]
           ELSE i = live /\ UNCHANGED comments
        /\ live' = i
        /\ tasks' = [tasks EXCEPT ![t] = Task("projecting", u, None, i)]
        /\ tasks[t].pc = "idle"
  BY DEF PageJoin, Begin, At
<1>2. /\ tasks'[t].pc = "projecting" /\ tasks'[t].user = u /\ tasks'[t].sess = i
      /\ \A x \in Tasks \ {t} : tasks'[x] = tasks[x]
  BY <1>1 DEF Task, Idle, Complete, Copied, Typed, TasksTyped
<1>3. UNCHANGED <<rows, gone, mapped>> /\ present' = present \cup {u}
  BY DEF PageJoin, dbVars
<1>4. i # None /\ comments \in [SessionIds -> Seq(Comments)]
  BY CommentConstants DEF Complete, Copied, Typed, PageTyped
<1>5. live = None => \A x \in Tasks : tasks[x].pc \notin JoinSteps
  BY CommentConstants DEF Served, Attached, Complete, Copied, Typed, TasksTyped, WellFormed
<1>6. Attached'
  <2>1. ASSUME NEW x \in Tasks, tasks'[x].pc \in JoinSteps
        PROVE  tasks'[x].user \in present' /\ tasks'[x].sess = live'
    BY <1>1, <1>2, <1>3, <1>5, <2>1 DEF Served, Attached
  <2>2. ASSUME NEW x \in Tasks,
               \/ tasks'[x].pc \in {"loading", "loaded"}
               \/ tasks'[x].pc \in CreateSteps /\ tasks'[x].sess = live'
        PROVE  mapped
    BY <1>1, <1>2, <2>2 DEF Served, Attached, CreateSteps
  <2> QED  BY <1>1, <1>3, <1>4, <2>1, <2>2 DEF Attached
<1>7. Prompt'
  BY <1>2, <1>3 DEF Served, Prompt, DeleteSteps
<1>8. Covered'
  <2>1. CASE live = None
    BY <1>1, <1>2, <1>3, <1>4, <2>1 DEF Covered, Served, Attached
  <2>2. CASE live # None
    <3>1. live' = live /\ comments' = comments
      BY <1>1, <2>2
    <3> QED  BY <1>1, <1>2, <1>3, <2>2, <3>1 DEF Covered, Served
  <2> QED  BY <2>1, <2>2
<1> QED  BY <1>6, <1>7, <1>8 DEF Served

LEMMA ServedJoinProject ==
    ASSUME Complete, Served, NEW t \in Tasks, JoinProject(t)
    PROVE  Served'
<1>1. tasks[t].pc = "projecting" /\ tasks[t].sess = live /\ tasks[t].user \in present
  BY DEF JoinProject, At, JoinSteps, Served, Attached
<1>2. /\ tasks'[t].pc = (IF comments[live] # <<>> THEN "idle" ELSE "loading")
      /\ tasks'[t].pc = "loading" => tasks'[t].sess = live /\ tasks'[t].user = tasks[t].user
      /\ \A x \in Tasks \ {t} : tasks'[x] = tasks[x]
  BY <1>1, HandlerSteps, HandlerEnds DEF JoinProject, SendSessionState, Complete, Copied
<1>3. UNCHANGED <<rows, gone, live, comments, present>> /\ mapped' = TRUE
  BY DEF JoinProject, dbVars
<1>4. live # None
  BY <1>1, CommentConstants DEF JoinSteps, Complete, Copied, Typed, TasksTyped, WellFormed
<1>5. Attached'
  BY <1>1, <1>2, <1>3, <1>4 DEF Served, Attached, JoinSteps
<1>6. Prompt'
  BY <1>2, <1>3 DEF Served, Prompt, DeleteSteps
<1>7. Covered'
  BY <1>1, <1>2, <1>3, <1>4 DEF Served, Covered
<1> QED  BY <1>5, <1>6, <1>7 DEF Served

LEMMA ServedGetComments ==
    ASSUME Complete, Served, liberties = {}, NEW t \in Tasks, getProjectComments(t)
    PROVE  Served'
<1>1. tasks[t].pc = "loading"
  BY DEF getProjectComments, At
<1>2. /\ tasks'[t].pc = "loaded" /\ tasks'[t].answer = rows
      /\ tasks'[t].sess = tasks[t].sess /\ tasks'[t].user = tasks[t].user
      /\ \A x \in Tasks \ {t} : tasks'[x] = tasks[x]
  BY DEF getProjectComments, Complete, Copied, Typed, TasksTyped, TaskRecord
<1>3. UNCHANGED <<rows, gone, live, comments, present, mapped>>
  BY DEF getProjectComments, dbVars, pageVars
<1>4. Attached'
  BY <1>1, <1>2, <1>3 DEF Served, Attached, JoinSteps, CreateSteps
<1>5. Prompt'
  BY <1>2, <1>3 DEF Served, Prompt, DeleteSteps
<1>6. Covered'
  BY <1>1, <1>2, <1>3 DEF Served, Covered
<1> QED  BY <1>4, <1>5, <1>6 DEF Served

LEMMA ServedLoad ==
    ASSUME Complete, Served, liberties = {}, NEW t \in Tasks, LoadSessionComments(t)
    PROVE  Served'
<1>1. tasks[t].pc = "loaded" /\ tasks[t].sess = live /\ mapped /\ tasks[t].answer = rows
  BY DEF LoadSessionComments, At, JoinSteps, Served, Attached, Prompt
<1>2. tasks'[t].pc = "idle" /\ \A x \in Tasks \ {t} : tasks'[x] = tasks[x]
  BY HandlerEnds DEF LoadSessionComments, SendSessionState, Complete, Copied
<1>3. UNCHANGED <<rows, gone, live, present, mapped>>
  BY DEF LoadSessionComments, dbVars
<1>4. live \in SessionIds /\ comments'[live] = rows
  BY <1>1 DEF LoadSessionComments, Served, Attached, Complete, Copied, Typed, PageTyped
<1>5. Attached'
  BY <1>2, <1>3 DEF Served, Attached, JoinSteps, CreateSteps
<1>6. Prompt'
  BY <1>2, <1>3 DEF Served, Prompt, DeleteSteps
<1>7. Covered'
  BY <1>1, <1>3, <1>4 DEF Covered
<1> QED  BY <1>5, <1>6, <1>7 DEF Served

LEMMA ServedPageLeave ==
    ASSUME Complete, Served, NEW u \in Users, PageLeave(u)
    PROVE  Served'
<1>1. UNCHANGED <<rows, gone, comments, tasks>> /\ present' = present \ {u}
  BY DEF PageLeave, dbVars
<1>2. \A x \in Tasks : tasks[x].pc \in JoinSteps => tasks[x].user \in present'
  BY <1>1 DEF PageLeave, Joining, JoinSteps, Served, Attached
<1>3. CASE present' = {}
  <2>1. live' = None /\ mapped' = FALSE
    BY <1>3 DEF PageLeave
  <2>2. \A x \in Tasks : tasks[x].pc \in CreateSteps => tasks[x].sess # None
    BY CommentConstants DEF Complete, Copied, Typed, TasksTyped, WellFormed
  <2>3. Attached'
    BY <1>1, <1>2, <1>3, <2>1, <2>2 DEF Attached, JoinSteps
  <2> QED  BY <1>1, <2>1, <2>3 DEF Served, Prompt, Covered
<1>4. CASE present' # {}
  <2>1. UNCHANGED <<live, mapped>>
    BY <1>4 DEF PageLeave
  <2>2. Attached'
    BY <1>1, <1>2, <1>4, <2>1 DEF Served, Attached
  <2> QED  BY <1>1, <2>1, <2>2 DEF Served, Prompt, Covered
<1> QED  BY <1>3, <1>4

LEMMA ServedCommentCreate ==
    ASSUME Complete, Served, NEW t \in Tasks, NEW u \in Users, NEW c \in Comments,
           CommentCreate(t, u, c)
    PROVE  Served'
<1>1. /\ tasks[t].pc = "idle" /\ mapped
      /\ tasks' = [tasks EXCEPT ![t] = Task("saving", u, c, live)]
  BY DEF CommentCreate, Begin, At
<1>2. tasks'[t].pc = "saving" /\ \A x \in Tasks \ {t} : tasks'[x] = tasks[x]
  BY <1>1 DEF Task, Idle, Complete, Copied, Typed, TasksTyped
<1>3. UNCHANGED <<rows, gone, live, comments, present, mapped>>
  BY DEF CommentCreate, dbVars, pageVars
<1>4. Attached'
  BY <1>1, <1>2, <1>3 DEF Served, Attached, JoinSteps
<1>5. Prompt'
  BY <1>2, <1>3 DEF Served, Prompt, DeleteSteps
<1>6. Covered'
  BY <1>1, <1>2, <1>3 DEF Served, Covered
<1> QED  BY <1>4, <1>5, <1>6 DEF Served

LEMMA ServedSave ==
    ASSUME Complete, Served, liberties = {}, NEW t \in Tasks, SaveComment(t)
    PROVE  Served'
<1> DEFINE c == tasks[t].comment
<1>1. tasks[t].pc = "saving" /\ \A x \in Tasks \ {t} : tasks[x].pc # "loaded"
  BY PromptTurn DEF SaveComment
<1>2. /\ tasks'[t].pc = "finding" /\ tasks'[t].comment = c /\ tasks'[t].sess = tasks[t].sess
      /\ \A x \in Tasks \ {t} : tasks'[x] = tasks[x]
  BY HandlerSteps DEF SaveComment, Complete, Copied
<1>3. UNCHANGED <<gone, live, comments, present, mapped>>
  BY DEF SaveComment, pageVars
<1>4. ToSet(rows') = ToSet(rows) \cup {c}
  <2>1. rows \in Seq(Comments) /\ c \in Comments
    BY <1>1 DEF CreateSteps, Complete, Copied, Typed, RowsTyped, TasksTyped, WellFormed
  <2> QED  BY <2>1, NewestFirst DEF SaveComment
<1>5. Attached'
  BY <1>1, <1>2, <1>3 DEF Served, Attached, JoinSteps, CreateSteps
<1>6. Prompt'
  BY <1>1, <1>2, <1>3 DEF Served, Prompt, DeleteSteps
<1>7. Covered'
  BY <1>1, <1>2, <1>3, <1>4 DEF Served, Covered
<1> QED  BY <1>5, <1>6, <1>7 DEF Served

LEMMA ServedFindCreated ==
    ASSUME Complete, Served, NEW t \in Tasks, FindCreated(t)
    PROVE  Served'
<1>1. tasks[t].pc = "finding"
  BY DEF FindCreated, At
<1>2. /\ tasks'[t].pc = (IF tasks[t].comment \in ToSet(rows) THEN "readBack" ELSE "idle")
      /\ tasks'[t].pc = "readBack"
           => tasks'[t].comment = tasks[t].comment /\ tasks'[t].sess = tasks[t].sess
      /\ \A x \in Tasks \ {t} : tasks'[x] = tasks[x]
  BY HandlerSteps, HandlerEnds DEF FindCreated, Complete, Copied
<1>3. UNCHANGED <<rows, gone, live, comments, present, mapped>>
  BY DEF FindCreated, dbVars, pageVars
<1>4. Attached'
  BY <1>1, <1>2, <1>3 DEF Served, Attached, JoinSteps, CreateSteps
<1>5. Prompt'
  BY <1>2, <1>3 DEF Served, Prompt, DeleteSteps
<1>6. Covered'
  BY <1>1, <1>2, <1>3 DEF Served, Covered
<1> QED  BY <1>4, <1>5, <1>6 DEF Served

\* The listener puts the comment into the copy of the live session, and where no
\* project is known yet nothing is pushed.
LEMMA ServedCreated ==
    ASSUME Complete, Served, NEW t \in Tasks, CommentCreated(t)
    PROVE  Served'
<1> DEFINE c == tasks[t].comment   s == tasks[t].sess   heard == OnCreated(c)
<1>1. tasks[t].pc = "readBack" /\ c \in Comments /\ s \in SessionIds
  BY DEF CommentCreated, At, Complete, Copied, Typed, TasksTyped, WellFormed, CreateSteps
<1>2. tasks'[t].pc = "idle" /\ \A x \in Tasks \ {t} : tasks'[x] = tasks[x]
  BY HandlerEnds DEF CommentCreated, Complete, Copied
<1>3. UNCHANGED <<rows, gone, live, present, mapped>>
  BY DEF CommentCreated, dbVars
<1>4. comments' = [heard EXCEPT ![s] = Append(@, c)]
  BY DEF CommentCreated
<1>5. comments \in [SessionIds -> Seq(Comments)] /\ heard \in [SessionIds -> Seq(Comments)]
  BY <1>1, TypedListeners DEF Complete, Copied, Typed, PageTyped
<1>6. live # None => live \in SessionIds
  BY DEF Complete, Copied, Typed, PageTyped
<1>7. ASSUME live # None, mapped
      PROVE  ToSet(comments[live]) \cup {c} \subseteq ToSet(comments'[live])
  <2>1. ToSet(comments[live]) \cup {c} \subseteq ToSet(heard[live])
    <3>1. CASE c \in ToSet(comments[live])
      BY <1>7, <3>1 DEF OnCreated
    <3>2. CASE c \notin ToSet(comments[live])
      <4>1. heard[live] = Append(comments[live], c) /\ comments[live] \in Seq(Comments)
        BY <1>5, <1>6, <1>7, <3>2 DEF OnCreated
      <4> QED  BY <1>1, <4>1, PushedList
    <3> QED  BY <3>1, <3>2
  <2> HIDE DEF heard
  <2>2. comments'[live] = heard[live] \/ comments'[live] = Append(heard[live], c)
    BY <1>4, <1>5, <1>6, <1>7
  <2>3. ToSet(heard[live]) \subseteq ToSet(comments'[live])
    <3>1. heard[live] \in Seq(Comments)
      BY <1>5, <1>6, <1>7
    <3>2. ToSet(Append(heard[live], c)) = ToSet(heard[live]) \cup {c}
      BY <1>1, <3>1, PushedList
    <3> QED  BY <2>2, <3>2
  <2> QED  BY <2>1, <2>3
<1>8. ASSUME live # None, ~mapped PROVE comments'[live] = comments[live]
  <2>1. s # live
    BY <1>1, <1>8 DEF Served, Attached, CreateSteps
  <2>2. heard = comments
    BY <1>8 DEF OnCreated
  <2> QED  BY <1>4, <1>5, <1>6, <1>8, <2>1, <2>2
<1>9. Attached'
  BY <1>2, <1>3 DEF Served, Attached, JoinSteps, CreateSteps
<1>10. Prompt'
  BY <1>2, <1>3 DEF Served, Prompt, DeleteSteps
<1>11. Covered'
  <2> HIDE DEF heard
  <2>1. CASE live # None /\ mapped
    BY <1>1, <1>2, <1>3, <1>7, <2>1 DEF Served, Covered
  <2>2. CASE live # None /\ ~mapped
    BY <1>1, <1>2, <1>3, <1>8, <2>2 DEF Served, Covered
  <2> QED  BY <1>3, <2>1, <2>2 DEF Covered
<1> QED  BY <1>9, <1>10, <1>11 DEF Served

LEMMA CompleteInit == Init => Complete
<1> SUFFICES ASSUME Init PROVE Served
  BY CopiedInit DEF Complete
<1>1. \A t \in Tasks : tasks[t].pc = "idle"
  BY DEF Init, Idle
<1> QED  BY <1>1 DEF Init, Served, Attached, Prompt, Covered, JoinSteps, CreateSteps, DeleteSteps

LEMMA CompleteStep == Complete /\ [Next]_vars => Complete'
<1> SUFFICES ASSUME Complete, Served, liberties = {}, [Next]_vars PROVE Served'
  BY CopiedStep DEF Complete, Next, vars
<1>1. ASSUME NEW t \in Tasks, Resume(t) PROVE Served'
  <2>1. tasks[t].pc \notin DeleteSteps
    BY DEF Served, Prompt
  <2>2. ~FindOwn(t) /\ ~SoftDelete(t) /\ ~CommentDeleted(t) /\ ~DbCallFails(t)
    BY <2>1 DEF FindOwn, SoftDelete, CommentDeleted, At, DeleteSteps, DbCallFails
  <2> QED  BY <1>1, <2>2, ServedJoinProject, ServedGetComments, ServedLoad, ServedSave,
              ServedFindCreated, ServedCreated DEF Resume
<1>2. ASSUME NEW t \in Tasks, NEW u \in Users,
             \/ PageJoin(t, u)
             \/ \E c \in Comments : CommentCreate(t, u, c) \/ CommentDelete(t, u, c)
      PROVE  Served'
  BY <1>2, ServedPageJoin, ServedCommentCreate DEF CommentDelete
<1>3. CASE UNCHANGED vars
  BY <1>3 DEF vars, dbVars, pageVars, Served, Attached, Prompt, Covered
<1> QED  BY <1>1, <1>2, <1>3, ServedPageLeave DEF Next

\* With prompt answers and no errors whoever joins, leaves and creates, any number
\* at a time, a page without a handler at work has a copy of every comment: what
\* is created during the load of another's join is pushed after it.
THEOREM CommentsCopyComplete == Spec => []CopyComplete
<1>1. Complete => CopyComplete
  <2> SUFFICES ASSUME Complete, liberties = {}, Settled, live # None, mapped
               PROVE  ToSet(rows) \subseteq ToSet(comments[live])
    BY DEF CopyComplete, RowsCopied
  <2>1. \A t \in Tasks : tasks[t].pc = "idle"
    BY DEF Settled, Idle
  <2> QED  BY <2>1 DEF Complete, Served, Covered
<1> QED  BY <1>1, CompleteInit, CompleteStep, PTL DEF Spec
=============================================================================
