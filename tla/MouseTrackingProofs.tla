------------------------ MODULE MouseTrackingProofs ------------------------
(***************************************************************************)
(* What MouseTracking guarantees for any limits, users and batches: types, *)
(* bounded memory, the latest positions kept, and the throttling, as a     *)
(* refinement of RateLimiter.  Before that the lemmas about the lists of   *)
(* Trails (the last elements of a sequence, the length of a path, one more *)
(* push), and that the loops of the service compute them.                  *)
(***************************************************************************)
EXTENDS MouseTracking, SequenceTheorems, TLAPS

-----------------------------------------------------------------------------
(* Division *)

\* Adding one to the dividend adds one to the remainder or wraps it to zero.
LEMMA ModStep ==
    ASSUME NEW m \in Nat, NEW d \in Nat \ {0}
    PROVE  /\ m % d \in 0..(d - 1)
           /\ (m + 1) % d = IF (m % d) + 1 = d THEN 0 ELSE (m % d) + 1
<1>1. m % d \in 0..(d - 1) /\ (m + 1) % d \in 0..(d - 1)
  BY SMT
<1> DEFINE q == m \div d   r == m % d   q1 == (m + 1) \div d   r1 == (m + 1) % d
<1>2. q \in Int /\ q1 \in Int /\ m = d * q + r /\ m + 1 = d * q1 + r1
  BY SMT
<1>3. r \in 0..(d-1) /\ r1 \in 0..(d-1)
  BY <1>1
<1> HIDE DEF q, r, q1, r1
<1>4. d * (q1 - q) = r + 1 - r1
  BY <1>2, <1>3, SMT
<1>5. q1 - q = 0 \/ q1 - q = 1
  <2>1. CASE q1 - q <= -1
    <3>1. d * (q1 - q) <= -d  BY <1>2, <2>1, SMT
    <3> QED  BY <1>3, <1>4, <3>1, SMT
  <2>2. CASE q1 - q >= 2
    <3>1. d * (q1 - q) >= 2 * d  BY <1>2, <2>2, SMT
    <3> QED  BY <1>3, <1>4, <3>1, SMT
  <2> QED  BY <1>2, <2>1, <2>2, SMT
<1>6. r1 = IF r + 1 = d THEN 0 ELSE r + 1
  <2>1. CASE q1 - q = 0
    BY <1>3, <1>4, <2>1, SMT
  <2>2. CASE q1 - q = 1
    BY <1>3, <1>4, <2>2, SMT
  <2> QED  BY <1>5, <2>1, <2>2
<1> QED  BY <1>3, <1>6 DEF r, r1

-----------------------------------------------------------------------------
(* LastOf and PathLength *)

\* LastOf returns a sequence over the same set, of the requested length if there
\* are that many elements.
LEMMA LastOfType ==
    ASSUME NEW S, NEW q \in Seq(S), NEW n \in Nat
    PROVE  /\ LastOf(q, n) \in Seq(S)
           /\ Len(LastOf(q, n)) = IF Len(q) <= n THEN Len(q) ELSE n
BY SMT DEF LastOf

\* Its elements are those at the end.
LEMMA LastOfElements ==
    ASSUME NEW S, NEW q \in Seq(S), NEW n \in Nat, n <= Len(q)
    PROVE  \A i \in 1..n : LastOf(q, n)[i] = q[Len(q) - n + i]
<1>1. CASE Len(q) = n
  BY <1>1, SMT DEF LastOf
<1>2. CASE Len(q) > n
  BY <1>2, SMT DEF LastOf
<1> QED  BY <1>1, <1>2, SMT

\* Taking the last ones twice keeps the fewer.
LEMMA LastOfLastOf ==
    ASSUME NEW S, NEW q \in Seq(S), NEW m \in Nat, NEW n \in Nat, n <= m
    PROVE  LastOf(LastOf(q, m), n) = LastOf(q, n)
<1>1. CASE Len(q) <= m
  BY <1>1 DEF LastOf
<1>2. CASE Len(q) > m
  <2> DEFINE l == SubSeq(q, Len(q) - m + 1, Len(q))
  <2>1. LastOf(q, m) = l /\ l \in Seq(S) /\ Len(l) = m
    BY <1>2, SMT DEF LastOf
  <2>2. \A i \in 1..m : l[i] = q[Len(q) - m + i]
    BY <1>2, SMT
  <2> HIDE DEF l
  <2>3. CASE m = n
    BY <1>2, <2>1, <2>3 DEF LastOf
  <2>4. CASE n < m
    <3>1. LastOf(l, n) = SubSeq(l, m - n + 1, m)
      BY <2>1, <2>4, SMT DEF LastOf
    <3>2. LastOf(q, n) = SubSeq(q, Len(q) - n + 1, Len(q))
      BY <1>2, <2>4, SMT DEF LastOf
    <3>3. Len(SubSeq(l, m - n + 1, m)) = n /\ Len(SubSeq(q, Len(q) - n + 1, Len(q))) = n
      BY <1>2, <2>1, <2>4, SMT
    <3>4. ASSUME NEW i \in 1..n
          PROVE  SubSeq(l, m - n + 1, m)[i] = SubSeq(q, Len(q) - n + 1, Len(q))[i]
      <4>1. SubSeq(l, m - n + 1, m)[i] = l[m - n + i]
        BY <2>1, <2>4, SMT
      <4>2. SubSeq(q, Len(q) - n + 1, Len(q))[i] = q[Len(q) - n + i]
        BY <1>2, <2>4, SMT
      <4>3. l[m - n + i] = q[Len(q) - m + (m - n + i)]
        BY <2>2, <2>4, SMT
      <4> QED  BY <4>1, <4>2, <4>3, SMT
    <3>5. SubSeq(l, m - n + 1, m) \in Seq(S) /\ SubSeq(q, Len(q) - n + 1, Len(q)) \in Seq(S)
      BY <1>2, <2>1, <2>4, SMT
    <3>6. SubSeq(l, m - n + 1, m) = SubSeq(q, Len(q) - n + 1, Len(q))
      BY <3>3, <3>4, <3>5, SeqEqual
    <3> QED  BY <2>1, <3>1, <3>2, <3>6
  <2> QED  BY <2>1, <2>3, <2>4, SMT
<1> QED  BY <1>1, <1>2, SMT

\* Appending commutes with keeping one element more.
LEMMA LastOfAppend ==
    ASSUME NEW S, NEW q \in Seq(S), NEW x \in S, NEW n \in Nat
    PROVE  Append(LastOf(q, n), x) = LastOf(Append(q, x), n + 1)
<1>1. CASE Len(q) <= n
  BY <1>1, SMT DEF LastOf
<1>2. CASE Len(q) > n
  BY <1>2, SMT DEF LastOf
<1> QED  BY <1>1, <1>2, SMT

\* What is appended decides the last ones together with the last ones before.
LEMMA LastOfConcat ==
    ASSUME NEW S, NEW q \in Seq(S), NEW p \in Seq(S), NEW n \in Nat
    PROVE  LastOf(LastOf(q, n) \o p, n) = LastOf(q \o p, n)
<1>1. CASE Len(q) <= n
  BY <1>1 DEF LastOf
<1>2. CASE Len(q) > n
  <2> DEFINE l == LastOf(q, n)   m == Len(p)   left == l \o p   right == q \o p
  <2>1. l \in Seq(S) /\ Len(l) = n
    BY <1>2, LastOfType
  <2>2. \A i \in 1..n : l[i] = q[Len(q) - n + i]
    <3>1. n <= Len(q)
      BY <1>2, SMT
    <3> QED  BY <3>1, LastOfElements
  <2> HIDE DEF l
  <2>3. m \in Nat /\ left \in Seq(S) /\ Len(left) = n + m
    BY <2>1, SMT
  <2>4. right \in Seq(S) /\ Len(right) = Len(q) + m
    BY SMT
  <2>5. \A i \in 1..n : left[m + i] = right[Len(q) + m - n + i]
    <3> SUFFICES ASSUME NEW i \in 1..n PROVE left[m + i] = right[Len(q) + m - n + i]
      OBVIOUS
    <3>1. CASE m + i <= n
      <4>1. left[m + i] = l[m + i]
        BY <2>1, <3>1, SMT
      <4>2. right[Len(q) + m - n + i] = q[Len(q) + m - n + i]
        BY <1>2, <3>1, SMT
      <4>3. l[m + i] = q[Len(q) - n + (m + i)]
        BY <2>2, <3>1, SMT
      <4> QED  BY <4>1, <4>2, <4>3, SMT
    <3>2. CASE m + i > n
      <4>1. left[m + i] = p[m + i - n]
        BY <2>1, <3>2, SMT
      <4>2. right[Len(q) + m - n + i] = p[m - n + i]
        BY <1>2, <3>2, SMT
      <4> QED  BY <4>1, <4>2, SMT
    <3>3. m + i <= n \/ m + i > n
      BY <2>3, SMT
    <3> QED  BY <3>1, <3>2, <3>3
  <2> HIDE DEF m, left, right
  <2>6. /\ LastOf(left, n) \in Seq(S)
        /\ Len(LastOf(left, n)) = IF Len(left) <= n THEN Len(left) ELSE n
        /\ LastOf(right, n) \in Seq(S)
        /\ Len(LastOf(right, n)) = IF Len(right) <= n THEN Len(right) ELSE n
    BY <2>3, <2>4, LastOfType
  <2>7. Len(LastOf(left, n)) = n /\ Len(LastOf(right, n)) = n
    BY <1>2, <2>3, <2>4, <2>6, SMT
  <2>8. /\ \A i \in 1..n : LastOf(left, n)[i] = left[Len(left) - n + i]
        /\ \A i \in 1..n : LastOf(right, n)[i] = right[Len(right) - n + i]
    <3>1. n <= Len(left) /\ n <= Len(right)
      BY <1>2, <2>3, <2>4, SMT
    <3> QED  BY <2>3, <2>4, <3>1, LastOfElements
  <2>9. \A i \in 1..n : LastOf(left, n)[i] = LastOf(right, n)[i]
    <3>1. \A i \in 1..n : /\ Len(left) - n + i = m + i
                          /\ Len(right) - n + i = Len(q) + m - n + i
      BY <2>3, <2>4, SMT
    <3> QED  BY <2>5, <2>8, <3>1
  <2>10. LastOf(left, n) = LastOf(right, n)
    BY <2>6, <2>7, <2>9, SeqEqual
  <2> QED  BY <2>10 DEF left, right, l
<1> QED  BY <1>1, <1>2, SMT

\* A path is never longer than what was pushed and stays below the limit; it is
\* cut to PATH_KEPT, never below.
LEMMA PathLengthBounds ==
    ASSUME NEW n \in Nat
    PROVE  /\ PathLength(n) \in Nat
           /\ PathLength(n) <= n
           /\ PathLength(n) < PATH_LIMIT
           /\ n >= PATH_LIMIT => PathLength(n) >= PATH_KEPT
<1>1. CASE n < PATH_LIMIT
  BY <1>1, TrailConstants, SMT DEF PathLength
<1>2. CASE n >= PATH_LIMIT
  <2> DEFINE d == PATH_LIMIT - PATH_KEPT
  <2>1. d \in Nat \ {0} /\ n - PATH_LIMIT \in Nat
    BY <1>2, TrailConstants, SMT
  <2> DEFINE r == (n - PATH_LIMIT) % d
  <2>2. r \in 0..(d - 1)
    BY <2>1, ModStep
  <2>3. PathLength(n) = PATH_KEPT + r
    BY <1>2, TrailConstants, SMT DEF PathLength
  <2> HIDE DEF r
  <2> QED  BY <1>2, <2>2, <2>3, TrailConstants, SMT
<1> QED  BY <1>1, <1>2, TrailConstants, SMT

\* One push: one longer, or cut when that reaches the limit.
LEMMA PathLengthStep ==
    ASSUME NEW n \in Nat
    PROVE  PathLength(n + 1) = IF PathLength(n) + 1 >= PATH_LIMIT THEN PATH_KEPT
                               ELSE PathLength(n) + 1
<1> DEFINE d == PATH_LIMIT - PATH_KEPT
<1>1. d \in Nat \ {0}
  BY TrailConstants, SMT
<1>2. CASE n + 1 < PATH_LIMIT
  BY <1>2, TrailConstants, SMT DEF PathLength
<1>3. CASE n + 1 = PATH_LIMIT
  <2>1. 0 % d = 0
    BY <1>1, SMT
  <2>2. PathLength(n) = n /\ PathLength(n + 1) = PATH_KEPT + (0 % d)
    BY <1>3, TrailConstants, SMT DEF PathLength
  <2> QED  BY <1>3, <2>1, <2>2, TrailConstants, SMT
<1>4. CASE n >= PATH_LIMIT
  <2> DEFINE m == n - PATH_LIMIT
  <2>1. m \in Nat /\ n + 1 - PATH_LIMIT = m + 1
    BY <1>4, TrailConstants, SMT
  <2> DEFINE r == m % d   r1 == (m + 1) % d
  <2>2. r \in 0..(d - 1) /\ r1 = IF r + 1 = d THEN 0 ELSE r + 1
    BY <1>1, <2>1, ModStep
  <2>3. PathLength(n) = PATH_KEPT + r /\ PathLength(n + 1) = PATH_KEPT + r1
    BY <1>4, <2>1, TrailConstants, SMT DEF PathLength
  <2> HIDE DEF r, r1
  <2> QED  BY <2>2, <2>3, TrailConstants, SMT
<1> QED  BY <1>2, <1>3, <1>4, TrailConstants, SMT

-----------------------------------------------------------------------------
(* One push in each of the two loops *)

\* Push and shift, after what the closed form gives.
LEMMA TrailPush ==
    ASSUME NEW S, NEW t \in Seq(S), NEW done \in Seq(S), NEW x \in S
    PROVE  LET longer == Append(updateTrail(t, done), x)
           IN  updateTrail(t, Append(done, x)) =
                 IF Len(longer) > TRAIL_LENGTH THEN Tail(longer) ELSE longer
<1> DEFINE T == TRAIL_LENGTH
           all == t \o done
           longer == Append(LastOf(all, T), x)
<1>1. T \in Nat /\ all \in Seq(S)
  BY TrailConstants, SMT
<1>2. t \o Append(done, x) = Append(all, x) /\ Append(all, x) \in Seq(S)
  BY SMT
<1> HIDE DEF T, all
<1>3. longer = LastOf(Append(all, x), T + 1)
  BY <1>1, LastOfAppend
<1>4. longer \in Seq(S) /\ Len(longer) <= T + 1
  <2> DEFINE a == Append(all, x)
  <2>1. T + 1 \in Nat
    BY <1>1, SMT
  <2>2. /\ LastOf(a, T + 1) \in Seq(S)
        /\ Len(LastOf(a, T + 1)) = IF Len(a) <= T + 1 THEN Len(a) ELSE T + 1
    BY <1>2, <2>1, LastOfType
  <2>3. Len(a) \in Nat
    BY <1>2, SMT
  <2> HIDE DEF a
  <2>4. Len(LastOf(a, T + 1)) <= T + 1
    BY <2>1, <2>2, <2>3, SMT
  <2> QED  BY <1>3, <2>2, <2>4 DEF a
<1> HIDE DEF longer
<1>5. LastOf(longer, T) = LastOf(Append(all, x), T)
  <2>1. T + 1 \in Nat /\ T <= T + 1
    BY <1>1, SMT
  <2> QED  BY <1>1, <1>2, <1>3, <2>1, LastOfLastOf
<1>6. LastOf(longer, T) = IF Len(longer) > T THEN Tail(longer) ELSE longer
  <2>1. CASE Len(longer) = T + 1
    <3>1. LastOf(longer, T) = SubSeq(longer, 2, T + 1)
      BY <1>1, <2>1, SMT DEF LastOf
    <3>2. /\ SubSeq(longer, 2, T + 1) \in Seq(S) /\ Len(SubSeq(longer, 2, T + 1)) = T
          /\ \A i \in 1..T : SubSeq(longer, 2, T + 1)[i] = longer[i + 1]
      BY <1>1, <1>4, <2>1, SMT
    <3>3. /\ Tail(longer) \in Seq(S) /\ Len(Tail(longer)) = T
          /\ \A i \in 1..T : Tail(longer)[i] = longer[i + 1]
      BY <1>1, <1>4, <2>1, SMT
    <3>4. SubSeq(longer, 2, T + 1) = Tail(longer)
      BY <3>2, <3>3, SeqEqual
    <3> QED  BY <1>1, <2>1, <3>1, <3>4, SMT
  <2>2. CASE Len(longer) <= T
    BY <1>1, <1>4, <2>2, SMT DEF LastOf
  <2>3. Len(longer) \in Nat
    BY <1>4, SMT
  <2> QED  BY <1>1, <1>4, <2>1, <2>2, <2>3, SMT
<1>7. updateTrail(t, Append(done, x)) = LastOf(Append(all, x), T)
  BY <1>2 DEF updateTrail, T
<1> QED  BY <1>5, <1>6, <1>7 DEF updateTrail, T, all, longer

\* Push and cut, after what the closed form gives.
LEMMA PathPush ==
    ASSUME NEW S, NEW p \in Seq(S), NEW done \in Seq(S), NEW x \in S
    PROVE  LET longer == Append(extendPath(p, done), x)
           IN  extendPath(p, Append(done, x)) =
                 IF Len(longer) >= PATH_LIMIT THEN LastOf(longer, PATH_KEPT) ELSE longer
<1> DEFINE all == p \o done
           n == Len(all)
           k == PathLength(n)
           longer == Append(LastOf(all, k), x)
<1>1. all \in Seq(S) /\ n \in Nat
  BY SMT
<1>2. /\ p \o Append(done, x) = Append(all, x)
      /\ Append(all, x) \in Seq(S) /\ Len(Append(all, x)) = n + 1
  BY SMT
<1> HIDE DEF all
<1>3. k \in Nat /\ k <= n /\ k < PATH_LIMIT
  BY <1>1, PathLengthBounds
<1>4. PathLength(n + 1) = IF k + 1 >= PATH_LIMIT THEN PATH_KEPT ELSE k + 1
  BY <1>1, PathLengthStep
<1>0. n \in Nat
  BY <1>1
<1> HIDE DEF n, k
<1>5. longer = LastOf(Append(all, x), k + 1)
  BY <1>1, <1>3, LastOfAppend
<1>6. k + 1 \in Nat /\ Len(longer) = k + 1
  <2> DEFINE a == Append(all, x)
  <2>1. k + 1 \in Nat
    BY <1>3, SMT
  <2>2. Len(LastOf(a, k + 1)) = IF Len(a) <= k + 1 THEN Len(a) ELSE k + 1
    BY <1>2, <2>1, LastOfType
  <2>3. Len(a) = n + 1
    BY <1>2
  <2> HIDE DEF a
  <2>4. Len(LastOf(a, k + 1)) = k + 1
    BY <1>0, <1>3, <2>2, <2>3, SMT
  <2> QED  BY <1>5, <2>1, <2>4 DEF a
<1> HIDE DEF longer
<1>7. extendPath(p, Append(done, x)) = LastOf(Append(all, x), PathLength(n + 1))
  BY <1>2 DEF extendPath
<1>8. CASE k + 1 >= PATH_LIMIT
  <2>1. PATH_KEPT \in Nat /\ PATH_KEPT <= k + 1
    BY <1>3, <1>8, TrailConstants, SMT
  <2>2. LastOf(longer, PATH_KEPT) = LastOf(Append(all, x), PATH_KEPT)
    BY <1>2, <1>5, <1>6, <2>1, LastOfLastOf
  <2> QED  BY <1>4, <1>6, <1>7, <1>8, <2>2 DEF extendPath, all, n, k, longer
<1>9. CASE ~(k + 1 >= PATH_LIMIT)
  BY <1>4, <1>5, <1>6, <1>7, <1>9 DEF extendPath, all, n, k, longer
<1> QED  BY <1>8, <1>9

\* The trail after a batch is a sequence of positions, at most TRAIL_LENGTH long.
LEMMA TrailType ==
    ASSUME NEW S, NEW t \in Seq(S), NEW batch \in Seq(S)
    PROVE  /\ updateTrail(t, batch) \in Seq(S)
           /\ Len(updateTrail(t, batch)) <= TRAIL_LENGTH
<1> DEFINE all == t \o batch
<1>1. all \in Seq(S) /\ Len(all) \in Nat /\ TRAIL_LENGTH \in Nat
  BY TrailConstants, SMT
<1> HIDE DEF all
<1>2. /\ LastOf(all, TRAIL_LENGTH) \in Seq(S)
      /\ Len(LastOf(all, TRAIL_LENGTH)) =
           IF Len(all) <= TRAIL_LENGTH THEN Len(all) ELSE TRAIL_LENGTH
  BY <1>1, LastOfType
<1>3. Len(LastOf(all, TRAIL_LENGTH)) <= TRAIL_LENGTH
  BY <1>1, <1>2, SMT
<1> QED  BY <1>2, <1>3 DEF updateTrail, all

\* The path after a batch is a sequence of positions below the limit, and has
\* the last PATH_KEPT of all positions.
LEMMA PathType ==
    ASSUME NEW S, NEW p \in Seq(S), NEW batch \in Seq(S)
    PROVE  /\ extendPath(p, batch) \in Seq(S)
           /\ Len(extendPath(p, batch)) < PATH_LIMIT
           /\ LastOf(extendPath(p, batch), PATH_KEPT) = LastOf(p \o batch, PATH_KEPT)
<1> DEFINE all == p \o batch   n == Len(all)   k == PathLength(n)
<1>1. all \in Seq(S) /\ n \in Nat
  BY SMT
<1> HIDE DEF all
<1>2. /\ k \in Nat /\ k <= n /\ k < PATH_LIMIT
      /\ n >= PATH_LIMIT => k >= PATH_KEPT
  BY <1>1, PathLengthBounds
<1>3. n < PATH_LIMIT => k = n
  BY DEF PathLength
<1>4. /\ LastOf(all, k) \in Seq(S)
      /\ Len(LastOf(all, k)) = IF n <= k THEN n ELSE k
  BY <1>1, <1>2, LastOfType
<1>5. extendPath(p, batch) = LastOf(all, k)
  BY DEF extendPath, all
<1>6. LastOf(LastOf(all, k), PATH_KEPT) = LastOf(all, PATH_KEPT)
  <2>1. CASE n < PATH_LIMIT
    BY <1>1, <1>3, <2>1 DEF LastOf
  <2>2. CASE n >= PATH_LIMIT
    BY <1>1, <1>2, <2>2, TrailConstants, LastOfLastOf
  <2> QED  BY <1>1, <2>1, <2>2, TrailConstants, SMT
<1>0. n \in Nat
  BY <1>1
<1> HIDE DEF n, k
<1>7. Len(LastOf(all, k)) < PATH_LIMIT
  BY <1>0, <1>2, <1>4, SMT
<1> QED  BY <1>4, <1>5, <1>6, <1>7 DEF all

-----------------------------------------------------------------------------
(* The loops of updateMouseBatch *)

\* The state of TrailLoops, which is none of MouseTracking's.
VARIABLES trail, path, trail0, path0, pushed

Loops == INSTANCE TrailLoops

LoopInv ==
    /\ trail0 \in Seq(Positions) /\ path0 \in Seq(Positions)
    /\ pushed \in Seq(Positions)
    /\ Loops!LoopIsClosedForm

\* TrailLoops knows the lists by the same definitions.
LEMMA SameLists ==
    /\ \A q, n : Loops!LastOf(q, n) = LastOf(q, n)
    /\ \A q, positions : /\ Loops!updateTrail(q, positions) = updateTrail(q, positions)
                         /\ Loops!extendPath(q, positions) = extendPath(q, positions)
  BY DEF Loops!LastOf, LastOf, Loops!updateTrail, updateTrail, Loops!extendPath, extendPath,
         Loops!PathLength, PathLength

\* The loops of updateMouseBatch leave what updateTrail and extendPath say, for
\* any limits and any number of positions.
THEOREM LoopsAreClosedForms == Loops!Spec => []Loops!LoopIsClosedForm
<1>1. Loops!Init => LoopInv
  <2> SUFFICES ASSUME Loops!Init PROVE LoopInv
    OBVIOUS
  <2>1. /\ trail0 \in Seq(Positions) /\ path0 \in Seq(Positions)
        /\ trail = trail0 /\ path = path0 /\ pushed = <<>>
        /\ Len(trail0) <= TRAIL_LENGTH /\ Len(path0) < PATH_LIMIT
    BY DEF Loops!Init
  <2>2. trail0 \o <<>> = trail0 /\ path0 \o <<>> = path0
    BY <2>1, SMT
  <2>3. updateTrail(trail0, pushed) = trail0
    BY <2>1, <2>2 DEF updateTrail, LastOf
  <2>4. Len(path0) \in Nat /\ PathLength(Len(path0)) = Len(path0)
    BY <2>1, SMT DEF PathLength
  <2>5. extendPath(path0, pushed) = path0
    BY <2>1, <2>2, <2>4, SMT DEF extendPath, LastOf
  <2> QED  BY <2>1, <2>3, <2>5, SameLists, SMT DEF LoopInv, Loops!LoopIsClosedForm
<1>2. LoopInv /\ [Loops!Next]_Loops!vars => LoopInv'
  <2> SUFFICES ASSUME LoopInv, [Loops!Next]_Loops!vars PROVE LoopInv'
    OBVIOUS
  <2>1. ASSUME NEW pos \in Positions, Loops!Push(pos) PROVE LoopInv'
    <3>1. pushed' = Append(pushed, pos) /\ trail0' = trail0 /\ path0' = path0
      BY <2>1 DEF Loops!Push
    <3>2. pushed' \in Seq(Positions)
      BY <3>1, SMT DEF LoopInv
    <3> DEFINE longer == Append(updateTrail(trail0, pushed), pos)
    <3>a. trail' = IF Len(longer) > TRAIL_LENGTH THEN Tail(longer) ELSE longer
      BY <2>1, SameLists DEF LoopInv, Loops!LoopIsClosedForm, Loops!Push, Loops!pushTrail
    <3>3. trail' = updateTrail(trail0', pushed')
      BY <2>1, <3>1, <3>a, TrailPush DEF LoopInv
    <3>4. path' = extendPath(path0', pushed')
      BY <2>1, <3>1, PathPush, SameLists DEF LoopInv, Loops!LoopIsClosedForm, Loops!Push, Loops!recordMousePath
    <3> QED  BY <3>1, <3>2, <3>3, <3>4, SameLists DEF LoopInv, Loops!LoopIsClosedForm
  <2>2. CASE UNCHANGED Loops!vars
    BY <2>2 DEF LoopInv, Loops!LoopIsClosedForm, Loops!vars
  <2> QED  BY <2>1, <2>2 DEF Loops!Next
<1>3. LoopInv => Loops!LoopIsClosedForm
  BY DEF LoopInv
<1> QED  BY <1>1, <1>2, <1>3, PTL DEF Loops!Spec

-----------------------------------------------------------------------------
(* Tracking *)

(***************************************************************************)
(* The inductive invariant, in the parts that the operations disturb.      *)
(* Types and bounds alone are not inductive: that the throttle keeps two   *)
(* events apart needs the time it compares with to be no earlier than the  *)
(* last event, and no later than now.                                      *)
(***************************************************************************)
UsersOK ==
    /\ DOMAIN userStates \subseteq Users
    /\ \A u \in DOMAIN userStates :
         /\ userStates[u] \in State
         /\ Len(userStates[u].trail) <= TRAIL_LENGTH
         /\ userStates[u].lastUpdate <= now
         /\ userStates[u].sent # Never => userStates[u].sent <= userStates[u].lastUpdate

PathsOK ==
    /\ DOMAIN mousePaths \subseteq Keys
    /\ \A key \in DOMAIN mousePaths :
         mousePaths[key] \in Path /\ Len(mousePaths[key].path_data) < PATH_LIMIT
    /\ recent \in [Keys -> Seq(Positions)]
    /\ PathKeepsRecent

ClockOK == now \in Nat /\ now >= Epoch

Inv == UsersOK /\ PathsOK /\ ClockOK

-----------------------------------------------------------------------------
(* The records the operations start from *)

\* What getUserState returns is a state whose trail and times are in bounds.
LEMMA StateFound ==
    ASSUME Inv, NEW u \in Users
    PROVE  LET s == getUserState(u)
           IN  /\ s \in State
               /\ Len(s.trail) <= TRAIL_LENGTH
               /\ s.lastUpdate <= now
               /\ s.sent # Never => s.sent <= s.lastUpdate
<1>1. CASE u \in DOMAIN userStates
  BY <1>1 DEF Inv, UsersOK, getUserState
<1>2. CASE u \notin DOMAIN userStates
  <2>1. NewState \in State /\ Len(NewState.trail) = 0
    BY SMT DEF NewState, State
  <2>2. NewState.lastUpdate = 0 /\ NewState.sent = Never
    BY DEF NewState
  <2> QED  BY <1>2, <2>1, <2>2, TrailConstants, SMT DEF getUserState, Inv, ClockOK
<1> QED  BY <1>1, <1>2

\* What recordMousePath starts from is a path below the limit.
LEMMA PathFound ==
    ASSUME Inv, NEW key \in Keys
    PROVE  pathOf(key) \in Path
<1>1. CASE key \in DOMAIN mousePaths
  BY <1>1 DEF Inv, PathsOK, pathOf
<1>2. CASE key \notin DOMAIN mousePaths
  BY <1>2, SMT DEF pathOf, NewPath, Path
<1> QED  BY <1>1, <1>2

-----------------------------------------------------------------------------
(* What the operations store *)

\* Storing a good state for a user keeps the users' part.
LEMMA PutUser ==
    ASSUME UsersOK, NEW u \in Users, NEW s \in State, now' = now,
           Len(s.trail) <= TRAIL_LENGTH, s.lastUpdate <= now,
           s.sent # Never => s.sent <= s.lastUpdate,
           userStates' = Put(userStates, u, s)
    PROVE  UsersOK'
<1>1. DOMAIN userStates' = DOMAIN userStates \cup {u}
  BY DEF Put
<1>2. \A v \in DOMAIN userStates' : userStates'[v] = IF v = u THEN s ELSE userStates[v]
  BY DEF Put
<1> QED  BY <1>1, <1>2 DEF UsersOK

\* Recording positions keeps the paths' part.
LEMMA RecordPath ==
    ASSUME Inv, NEW key \in Keys, NEW positions \in Seq(Positions),
           recordMousePath(key, positions)
    PROVE  PathsOK'
<1> DEFINE old == pathOf(key).path_data
           new == [pathOf(key) EXCEPT !.path_data = extendPath(@, positions)]
<1>1. pathOf(key) \in Path /\ old \in Seq(Positions)
  BY PathFound DEF Path
<1>2. /\ extendPath(old, positions) \in Seq(Positions)
      /\ Len(extendPath(old, positions)) < PATH_LIMIT
      /\ LastOf(extendPath(old, positions), PATH_KEPT) = LastOf(old \o positions, PATH_KEPT)
  BY <1>1, PathType
<1>3. new \in Path /\ new.path_data = extendPath(old, positions)
  BY <1>1, <1>2 DEF Path
<1> HIDE DEF new
<1>4. /\ DOMAIN mousePaths' = DOMAIN mousePaths \cup {key}
      /\ \A k \in DOMAIN mousePaths' :
           mousePaths'[k] = IF k = key THEN new ELSE mousePaths[k]
  BY DEF recordMousePath, Put, new
<1>5. recent' = [recent EXCEPT ![key] = LastOf(@ \o positions, PATH_KEPT)]
  BY DEF recordMousePath, Remember
<1>6. PathsOK
  BY DEF Inv
<1>7. recent[key] \in Seq(Positions) /\ LastOf(old, PATH_KEPT) = recent[key]
  BY <1>6 DEF PathsOK, PathKeepsRecent
<1>8. LastOf(recent[key] \o positions, PATH_KEPT) = LastOf(old \o positions, PATH_KEPT)
  BY <1>1, <1>7, TrailConstants, LastOfConcat
<1>9. recent' \in [Keys -> Seq(Positions)]
  <2>1. recent[key] \o positions \in Seq(Positions)
    BY <1>7, SMT
  <2>2. LastOf(recent[key] \o positions, PATH_KEPT) \in Seq(Positions)
    BY <2>1, TrailConstants, LastOfType
  <2> QED  BY <1>5, <1>6, <2>2 DEF PathsOK
<1>10. PathKeepsRecent'
  <2> SUFFICES ASSUME NEW k \in Keys
               PROVE  LastOf(pathOf(k)'.path_data, PATH_KEPT) = recent'[k]
    BY DEF PathKeepsRecent
  <2>1. CASE k = key
    <3>1. pathOf(k)' = new
      BY <1>4, <2>1 DEF pathOf
    <3>2. recent'[k] = LastOf(recent[key] \o positions, PATH_KEPT)
      BY <1>5, <1>6, <2>1 DEF PathsOK
    <3> QED  BY <1>2, <1>3, <1>8, <3>1, <3>2
  <2>2. CASE k # key
    <3>1. pathOf(k)' = pathOf(k)
      BY <1>4, <2>2 DEF pathOf, NewPath
    <3>2. recent'[k] = recent[k]
      BY <1>5, <1>6, <2>2 DEF PathsOK
    <3> QED  BY <1>6, <3>1, <3>2 DEF PathsOK, PathKeepsRecent
  <2> QED  BY <2>1, <2>2
<1> QED  BY <1>2, <1>3, <1>4, <1>6, <1>9, <1>10 DEF PathsOK

-----------------------------------------------------------------------------
(* The invariant *)

LEMMA InitInv == Init => Inv
<1> SUFFICES ASSUME Init PROVE Inv
  OBVIOUS
<1>1. UsersOK /\ ClockOK
  BY TrackingConstants, SMT DEF Init, UsersOK, ClockOK, Keys
<1>2. PathsOK
  <2>1. DOMAIN mousePaths = {} /\ recent \in [Keys -> Seq(Positions)]
    BY SMT DEF Init
  <2>2. ASSUME NEW key \in Keys
        PROVE  LastOf(pathOf(key).path_data, PATH_KEPT) = recent[key]
    <3>1. pathOf(key).path_data = <<>>
      BY <2>1 DEF pathOf, NewPath
    <3>2. LastOf(<<>>, PATH_KEPT) = <<>>
      BY TrailConstants, SMT DEF LastOf
    <3> QED  BY <3>1, <3>2 DEF Init
  <2> QED  BY <2>1, <2>2 DEF PathsOK, PathKeepsRecent
<1> QED  BY <1>1, <1>2 DEF Inv

LEMMA NextInv == Inv /\ [Next]_vars => Inv'
<1> SUFFICES ASSUME Inv, [Next]_vars PROVE Inv'
  OBVIOUS
<1>0. UsersOK /\ PathsOK /\ ClockOK
  BY DEF Inv
<1>1. ASSUME Tick PROVE Inv'
  <2>0. ClockOK'
    BY <1>0, <1>1, TrackingConstants, SMT DEF ClockOK, Tick
  <2>2. UsersOK'
    <3>1. userStates' = userStates /\ now' = now + 1 /\ now \in Nat
      BY <1>0, <1>1 DEF Tick, trackVars, ClockOK
    <3> QED  BY <1>0, <3>1, SMT DEF UsersOK, State
  <2>3. PathsOK'
    BY <1>0, <1>1 DEF Tick, trackVars, PathsOK, PathKeepsRecent, pathOf
  <2> QED  BY <2>0, <2>2, <2>3 DEF Inv
<1>2. ASSUME NEW p \in Projects, NEW u \in Users, NEW pos \in Positions, ThrottledMove(p, u, pos)
      PROVE  Inv'
  <2> DEFINE s == getUserState(u)   new == [s EXCEPT !.trail = updateTrail(@, <<pos>>)]
  <2>1. s \in State /\ s.lastUpdate <= now /\ (s.sent # Never => s.sent <= s.lastUpdate)
    BY StateFound
  <2>2. updateTrail(s.trail, <<pos>>) \in Seq(Positions)
        /\ Len(updateTrail(s.trail, <<pos>>)) <= TRAIL_LENGTH
    <3>1. s.trail \in Seq(Positions) /\ <<pos>> \in Seq(Positions)
      BY <2>1, SMT DEF State
    <3> QED  BY <3>1, TrailType
  <2>3. /\ new \in State /\ new.trail = updateTrail(s.trail, <<pos>>)
        /\ new.lastUpdate = s.lastUpdate /\ new.sent = s.sent
    BY <2>1, <2>2 DEF State
  <2>4. userStates' = Put(userStates, u, new) /\ now' = now
    BY <1>2 DEF ThrottledMove
  <2> HIDE DEF new, s
  <2>5. UsersOK'
    BY <1>0, <2>1, <2>2, <2>3, <2>4, PutUser
  <2>6. PathsOK' /\ ClockOK'
    BY <1>0, <1>2 DEF ClockOK, ThrottledMove, PathsOK, PathKeepsRecent, pathOf
  <2> QED  BY <2>5, <2>6 DEF Inv
<1>3. ASSUME NEW p \in Projects, NEW u \in Users, NEW pos \in Positions, BroadcastMove(p, u, pos)
      PROVE  Inv'
  <2> DEFINE s == getUserState(u)
             moved == updateTrail(s.trail, <<pos>>)
             kept == IF Len(moved) >= BATCH_SIZE THEN <<>> ELSE moved
             new == [lastUpdate |-> now, trail |-> kept, isIdle |-> FALSE, sent |-> now]
  <2>1. <<pos>> \in Seq(Positions) /\ <<p, u>> \in Keys /\ now \in Nat
    BY <1>0, SMT DEF Keys, ClockOK
  <2>2. s \in State
    BY StateFound
  <2>3. moved \in Seq(Positions) /\ Len(moved) <= TRAIL_LENGTH
    <3>1. s.trail \in Seq(Positions)
      BY <2>2 DEF State
    <3> QED  BY <2>1, <3>1, TrailType
  <2>4. userStates' = Put(userStates, u, new) /\ now' = now
    BY <1>3 DEF BroadcastMove
  <2> HIDE DEF moved
  <2>5. kept \in Seq(Positions) /\ Len(kept) <= TRAIL_LENGTH
    BY <2>3, TrailConstants, SMT
  <2> HIDE DEF kept
  <2>6. /\ new \in State /\ new.trail = kept /\ new.lastUpdate = now /\ new.sent = now
    BY <2>1, <2>5 DEF State
  <2> HIDE DEF new
  <2>7. new.lastUpdate <= now /\ new.sent <= new.lastUpdate
    BY <2>1, <2>6, SMT
  <2>8. UsersOK'
    BY <1>0, <2>4, <2>5, <2>6, <2>7, PutUser
  <2>9. PathsOK'
    BY <1>3, <2>1, RecordPath DEF BroadcastMove
  <2>10. ClockOK'
    BY <1>0, <1>3 DEF ClockOK, BroadcastMove
  <2> QED  BY <2>8, <2>9, <2>10 DEF Inv
<1>4. ASSUME NEW p \in Projects, NEW u \in Users, NEW positions \in Batches,
             updateMouseBatch(p, u, positions)
      PROVE  Inv'
  <2> DEFINE s == getUserState(u)
             new == [s EXCEPT !.lastUpdate = now, !.isIdle = FALSE,
                              !.trail = updateTrail(@, positions)]
  <2>1. positions \in Seq(Positions) /\ <<p, u>> \in Keys /\ now \in Nat
    BY <1>0, TrackingConstants DEF Keys, ClockOK
  <2>2. s \in State /\ s.lastUpdate <= now /\ (s.sent # Never => s.sent <= s.lastUpdate)
    BY StateFound
  <2>3. updateTrail(s.trail, positions) \in Seq(Positions)
        /\ Len(updateTrail(s.trail, positions)) <= TRAIL_LENGTH
    <3>1. s.trail \in Seq(Positions)
      BY <2>2 DEF State
    <3> QED  BY <2>1, <3>1, TrailType
  <2>4. userStates' = Put(userStates, u, new) /\ now' = now
    BY <1>4 DEF updateMouseBatch
  <2>5. /\ new \in State /\ new.trail = updateTrail(s.trail, positions)
        /\ new.lastUpdate = now /\ new.sent = s.sent
    BY <2>1, <2>2, <2>3 DEF State
  <2>6. s.sent \in Nat \cup {Never} /\ s.lastUpdate \in Nat
    BY <2>2 DEF State
  <2> HIDE DEF new, s
  <2>7. new.lastUpdate <= now /\ (new.sent # Never => new.sent <= new.lastUpdate)
    BY <2>1, <2>2, <2>5, <2>6, SMT
  <2>8. UsersOK'
    BY <1>0, <2>3, <2>4, <2>5, <2>7, PutUser
  <2>9. PathsOK'
    BY <1>4, <2>1, RecordPath DEF updateMouseBatch
  <2>10. ClockOK'
    BY <1>0, <1>4 DEF ClockOK, updateMouseBatch
  <2> QED  BY <2>8, <2>9, <2>10 DEF Inv
<1>5. ASSUME NEW p \in Projects, NEW u \in Users, handleMouseClick(p, u)
      PROVE  Inv'
  BY <1>0, <1>5
     DEF Inv, ClockOK, handleMouseClick, trackVars, UsersOK, PathsOK, PathKeepsRecent, pathOf
<1>6. ASSUME NEW p \in Projects, NEW u \in Users, NEW isActive \in BOOLEAN,
             updateUserActivity(p, u, isActive)
      PROVE  Inv'
  <2>1. PathsOK' /\ ClockOK' /\ now' = now
    BY <1>0, <1>6 DEF ClockOK, updateUserActivity, setUserIdle, PathsOK, PathKeepsRecent, pathOf
  <2>2. UsersOK'
    <3>1. CASE u \notin DOMAIN userStates
      BY <1>0, <1>6, <2>1, <3>1 DEF updateUserActivity, setUserIdle, UsersOK
    <3>2. CASE u \in DOMAIN userStates
      <4> DEFINE new == [userStates[u] EXCEPT !.isIdle = ~isActive]
      <4>1. userStates' = [userStates EXCEPT ![u] = new]
        BY <1>6, <3>2 DEF updateUserActivity, setUserIdle
      <4>2. new \in State /\ new.trail = userStates[u].trail
            /\ new.lastUpdate = userStates[u].lastUpdate /\ new.sent = userStates[u].sent
        BY <1>0, <3>2 DEF UsersOK, State
      <4> HIDE DEF new
      <4>3. DOMAIN userStates' = DOMAIN userStates
            /\ \A v \in DOMAIN userStates :
                 userStates'[v] = IF v = u THEN new ELSE userStates[v]
        BY <4>1
      <4> QED  BY <1>0, <2>1, <3>2, <4>2, <4>3 DEF UsersOK
    <3> QED  BY <3>1, <3>2
  <2> QED  BY <2>1, <2>2 DEF Inv
<1>7. ASSUME NEW p \in Projects, NEW u \in Users, cleanupUser(p, u)
      PROVE  Inv'
  <2>1. UsersOK' /\ ClockOK'
    BY <1>0, <1>7 DEF ClockOK, cleanupUser, Delete, UsersOK
  <2>2. PathsOK'
    <3> DEFINE k == <<p, u>>
    <3>1. recent' = recent
      BY <1>7 DEF cleanupUser
    <3>2. CASE k \notin DOMAIN mousePaths
      BY <1>0, <1>7, <3>1, <3>2 DEF cleanupUser, PathsOK, PathKeepsRecent, pathOf
    <3>3. CASE k \in DOMAIN mousePaths
      <4> DEFINE new == [mousePaths[k] EXCEPT !.is_active = FALSE]
      <4>1. mousePaths' = [mousePaths EXCEPT ![k] = new]
        BY <1>7, <3>3 DEF cleanupUser
      <4>2. new \in Path /\ new.path_data = mousePaths[k].path_data
        BY <1>0, <3>3 DEF PathsOK, Path
      <4> HIDE DEF new, k
      <4>3. DOMAIN mousePaths' = DOMAIN mousePaths
            /\ \A v \in DOMAIN mousePaths :
                 mousePaths'[v] = IF v = k THEN new ELSE mousePaths[v]
        BY <4>1
      <4>4. \A v \in Keys : pathOf(v)'.path_data = pathOf(v).path_data
        BY <3>3, <4>2, <4>3 DEF pathOf, NewPath
      <4> QED  BY <1>0, <3>1, <3>3, <4>2, <4>3, <4>4 DEF PathsOK, PathKeepsRecent
    <3> QED  BY <3>2, <3>3
  <2> QED  BY <2>1, <2>2 DEF Inv
<1>8. CASE UNCHANGED vars
  BY <1>0, <1>8
     DEF Inv, ClockOK, vars, trackVars, UsersOK, PathsOK, PathKeepsRecent, pathOf
<1> QED  BY <1>1, <1>2, <1>3, <1>4, <1>5, <1>6, <1>7, <1>8 DEF Next

LEMMA Invariance == Spec => []Inv
BY InitInv, NextInv, PTL DEF Spec

-----------------------------------------------------------------------------
(* The theorems *)

\* The Maps hold tracking states and paths of known users and projects.
THEOREM TrackingTypeCorrect == Spec => []TypeOK
<1>1. Inv => TypeOK
  BY DEF Inv, UsersOK, PathsOK, ClockOK, TypeOK
<1> QED  BY <1>1, Invariance, PTL

\* Whatever clients post, a trail and a path never outgrow their limits.
THEOREM TrackingBounded == Spec => []BoundedMemory
<1>1. Inv => BoundedMemory
  BY DEF Inv, UsersOK, PathsOK, BoundedMemory
<1> QED  BY <1>1, Invariance, PTL

\* Cutting a path never loses one of the last PATH_KEPT positions.
THEOREM TrackingKeepsRecent == Spec => []PathKeepsRecent
<1>1. Inv => PathKeepsRecent
  BY DEF Inv, PathsOK
<1> QED  BY <1>1, Invariance, PTL

\* The cursor.move events of a tracked user are THROTTLE_MS apart: the service
\* implements the limiter.
THEOREM TrackingThrottled == Spec => Throttled
<1>1. Init => Limiter!Init
  BY TrackingConstants, SMT DEF Init, Limiter!Init, getUserState, NewState
<1>2. Inv /\ [Next]_vars => [Limiter!Next]_(Limiter!vars)
  <2> SUFFICES ASSUME Inv, [Next]_vars PROVE [Limiter!Next]_(Limiter!vars)
    OBVIOUS
  <2> DEFINE sent == [u \in Users |-> getUserState(u).sent]
  <2>0. UsersOK /\ now \in Nat
    BY DEF Inv, ClockOK
  <2>1. ASSUME Tick PROVE Limiter!Advance
    BY <2>0, <2>1, SMT DEF Tick, trackVars, Limiter!Advance, getUserState
  <2>2. ASSUME NEW p \in Projects, NEW u \in Users, NEW pos \in Positions,
               ThrottledMove(p, u, pos)
        PROVE  UNCHANGED Limiter!vars
    <3> DEFINE new == [getUserState(u) EXCEPT !.trail = updateTrail(@, <<pos>>)]
    <3>1. getUserState(u) \in State
      BY StateFound
    <3>2. new.sent = getUserState(u).sent
      BY <3>1 DEF State
    <3>3. userStates' = Put(userStates, u, new) /\ now' = now
      BY <2>2 DEF ThrottledMove
    <3> HIDE DEF new
    <3>4. \A v \in Users : getUserState(v)'.sent = getUserState(v).sent
      BY <3>2, <3>3 DEF Put, getUserState
    <3> QED  BY <3>3, <3>4 DEF Limiter!vars
  <2>3. ASSUME NEW p \in Projects, NEW u \in Users, NEW pos \in Positions,
               BroadcastMove(p, u, pos)
        PROVE  Limiter!Send(u)
    <3>1. /\ userStates' = Put(userStates, u, userStates'[u]) /\ userStates'[u].sent = now
          /\ now' = now
      BY <2>3 DEF BroadcastMove, Put
    <3>2. /\ now - getUserState(u).lastUpdate >= THROTTLE_MS
          /\ getUserState(u).sent # Never =>
               getUserState(u).sent <= getUserState(u).lastUpdate
          /\ getUserState(u).lastUpdate \in Nat /\ getUserState(u).sent \in Nat \cup {Never}
      BY <2>3, StateFound DEF BroadcastMove, State
    <3>3. sent[u] # Never => now - sent[u] >= THROTTLE_MS
      BY <2>0, <3>2, TrackingConstants, SMT
    <3>4. \A v \in Users : getUserState(v)'.sent = IF v = u THEN now ELSE getUserState(v).sent
      BY <3>1 DEF Put, getUserState
    <3> QED  BY <3>1, <3>3, <3>4 DEF Limiter!Send
  <2>4. ASSUME NEW p \in Projects, NEW u \in Users, NEW positions \in Batches,
               updateMouseBatch(p, u, positions)
        PROVE  UNCHANGED Limiter!vars
    <3> DEFINE new == [getUserState(u) EXCEPT !.lastUpdate = now, !.isIdle = FALSE,
                                              !.trail = updateTrail(@, positions)]
    <3>1. getUserState(u) \in State
      BY StateFound
    <3>2. new.sent = getUserState(u).sent
      BY <3>1 DEF State
    <3>3. userStates' = Put(userStates, u, new) /\ now' = now
      BY <2>4 DEF updateMouseBatch
    <3> HIDE DEF new
    <3>4. \A v \in Users : getUserState(v)'.sent = getUserState(v).sent
      BY <3>2, <3>3 DEF Put, getUserState
    <3> QED  BY <3>3, <3>4 DEF Limiter!vars
  <2>5. ASSUME NEW p \in Projects, NEW u \in Users, handleMouseClick(p, u)
        PROVE  UNCHANGED Limiter!vars
    BY <2>5 DEF handleMouseClick, trackVars, getUserState, Limiter!vars
  <2>6. ASSUME NEW p \in Projects, NEW u \in Users, NEW isActive \in BOOLEAN,
               updateUserActivity(p, u, isActive)
        PROVE  UNCHANGED Limiter!vars
    <3>1. \A v \in Users : getUserState(v)'.sent = getUserState(v).sent
      BY <2>0, <2>6 DEF updateUserActivity, setUserIdle, getUserState, UsersOK, State
    <3> QED  BY <2>6, <3>1 DEF updateUserActivity, setUserIdle, Limiter!vars
  <2>7. ASSUME NEW p \in Projects, NEW u \in Users, cleanupUser(p, u)
        PROVE  Limiter!Forget(u)
    <3>1. \A v \in Users : getUserState(v)'.sent = IF v = u THEN Never ELSE getUserState(v).sent
      BY <2>7 DEF cleanupUser, Delete, getUserState, NewState
    <3> QED  BY <2>7, <3>1 DEF cleanupUser, Limiter!Forget
  <2>8. CASE UNCHANGED vars
    BY <2>8 DEF vars, trackVars, getUserState, Limiter!vars
  <2> QED  BY <2>1, <2>2, <2>3, <2>4, <2>5, <2>6, <2>7, <2>8 DEF Next, Limiter!Next
<1> QED  BY <1>1, <1>2, Invariance, PTL DEF Spec, Throttled, Limiter!Spec
=============================================================================
