-------------------------- MODULE StatsIngestProofs --------------------------
(***************************************************************************)
(* Proofs about StatsIngest, for any number of queries, any traffic, any   *)
(* number of remembered streams and any number of losses of the tail.      *)
(***************************************************************************)
EXTENDS StatsIngest, FiniteSetTheorems, SequenceTheorems, NaturalsInduction,
        WellFoundedInduction, TLAPS

-----------------------------------------------------------------------------
(***************************************************************************)
(* Logs.                                                                   *)
(***************************************************************************)
Kinds == [action : STRING, cause : STRING, dur : BOOLEAN,
          model : Models \cup {NoModel}, hour : 1..Hours]

Events == [seq : Nat, action : STRING, cause : STRING, dur : BOOLEAN,
           model : Models \cup {NoModel}, ref : Nat \cup {NoSeq}, hour : 1..Hours,
           era : Nat, end : Nat]

\* A log that appends made: numbered from 0, each line behind the one before.
Chained(L) ==
    /\ L \in Seq(Events)
    /\ \A i \in 1..Len(L) : L[i].seq = i - 1
    /\ \A i, j \in 0..Len(L) : i < j => End(L, i) + 2 <= End(L, j)

LEMMA LeastIndex ==
    ASSUME NEW T \in SUBSET Nat, T # {}
    PROVE  \E i \in T : \A j \in T : i <= j
<1>1. IsWellFoundedOn(OpToRel(<, Nat), Nat)
  BY NatLessThanWellFounded
<1>2. PICK m \in T : \A y \in T : ~(<<y, m>> \in OpToRel(<, Nat))
  BY <1>1, WFMin
<1>3. \A y \in T : ~(y < m)
  BY <1>2 DEF OpToRel
<1>4. QED
  BY <1>3

LEMMA EndType ==
    ASSUME NEW L, Chained(L), NEW i \in 0..Len(L)
    PROVE  End(L, i) \in Nat
<1>1. Len(L) \in Nat /\ \A j \in 1..Len(L) : L[j] \in Events
  BY DEF Chained
<1>2. CASE i = 0
  BY <1>2 DEF End
<1>3. CASE i # 0
  <2>1. L[i] \in Events
    BY <1>1, <1>3
  <2>2. L[i].end \in Nat
    BY <2>1 DEF Events
  <2>3. QED
    BY <1>3, <2>2 DEF End
<1>4. QED
  BY <1>2, <1>3

LEMMA IntervalFinite ==
    ASSUME NEW a \in Int, NEW b \in Int, NEW S \in SUBSET (a..b)
    PROVE  IsFiniteSet(S) /\ Cardinality(S) \in Nat
<1>1. IsFiniteSet(a..b)
  BY FS_Interval
<1>2. IsFiniteSet(S)
  BY <1>1, FS_Subset
<1>3. QED
  BY <1>2, FS_CardinalityType

\* The lines of a longer log.
LEMMA Longer ==
    ASSUME NEW L, Chained(L), NEW e \in Events, NEW M, M = Append(L, e)
    PROVE  /\ Len(L) \in Nat /\ Len(M) = Len(L) + 1
           /\ M \in Seq(Events) /\ M[Len(L) + 1] = e
           /\ \A i \in 1..Len(L) : M[i] = L[i] /\ L[i] \in Events /\ L[i].seq = i - 1
BY DEF Chained

-----------------------------------------------------------------------------
(***************************************************************************)
(* One event more: which streams it answers.  What was answered, and what  *)
(* was forgotten, stays so.                                                *)
(***************************************************************************)
Hits(e, i) == e.action = "usage" /\ e.ref = i - 1

\* A stream is answered once at most, and the first usage event that names it
\* answers it.
LEMMA AnswersAre ==
    ASSUME NEW L, Chained(L), NEW i \in 1..Len(L)
    PROVE  /\ Answers(L, i) = {j \in (i + 1)..Len(L) : Hits(L[j], i)
                                   /\ \A k \in (i + 1)..(j - 1) : ~Hits(L[k], i)}
           /\ \A j, k \in Answers(L, i) : j = k
           /\ \A m \in Nat : (\A j \in Answers(L, i) : j > m) <=>
                                \A k \in (i + 1)..Len(L) : k <= m => ~Hits(L[k], i)
<1>0. Len(L) \in Nat /\ L[i].seq = i - 1
  BY DEF Chained
<1>1. Answers(L, i) = {j \in (i + 1)..Len(L) : Hits(L[j], i)
                          /\ \A k \in (i + 1)..(j - 1) : ~Hits(L[k], i)}
  BY <1>0 DEF Answers, Hits
<1>2. \A j, k \in Answers(L, i) : j = k
  <2> SUFFICES ASSUME NEW j \in Answers(L, i), NEW k \in Answers(L, i) PROVE j = k
    OBVIOUS
  <2>1. j \in Int /\ k \in Int /\ j > i /\ k > i
    BY <1>0, <1>1
  <2>2. ~(j < k)
    BY <1>1, <2>1
  <2>3. ~(k < j)
    BY <1>1, <2>1
  <2>4. QED
    BY <2>1, <2>2, <2>3
<1>3. ASSUME NEW m \in Nat
      PROVE  (\A j \in Answers(L, i) : j > m) <=>
                 \A k \in (i + 1)..Len(L) : k <= m => ~Hits(L[k], i)
  <2>1. ASSUME \A j \in Answers(L, i) : j > m, NEW k \in (i + 1)..Len(L), k <= m, Hits(L[k], i)
        PROVE  FALSE
    <3> DEFINE T == {j \in (i + 1)..Len(L) : Hits(L[j], i)}
    <3>1. T \in SUBSET Nat /\ k \in T
      BY <1>0, <2>1
    <3>2. PICK j \in T : \A h \in T : j <= h
      BY <3>1, LeastIndex
    <3>3. \A h \in (i + 1)..(j - 1) : ~Hits(L[h], i)
      BY <1>0, <3>2
    <3>4. j \in Answers(L, i)
      BY <1>1, <3>2, <3>3
    <3>5. j <= k /\ j > m
      BY <2>1, <3>1, <3>2, <3>4
    <3>6. QED
      BY <1>0, <1>3, <2>1, <3>2, <3>5
  <2>2. ASSUME \A k \in (i + 1)..Len(L) : k <= m => ~Hits(L[k], i), NEW j \in Answers(L, i)
        PROVE  j > m
    BY <1>0, <1>1, <2>2
  <2>3. QED
    BY <2>1, <2>2
<1>4. QED
  BY <1>1, <1>2, <1>3

\* Outstanding is to be without a usage event up to then.
LEMMA OutstandingIs ==
    ASSUME NEW L, Chained(L), NEW h \in 1..Len(L), NEW k \in 1..Len(L)
    PROVE  Outstanding(L, h, k) <=>
              Streamed(L[h]) /\ \A j \in (h + 1)..k : ~Hits(L[j], h)
<1>1. Len(L) \in Nat
  BY DEF Chained
<1>2. (\A j \in Answers(L, h) : j > k) <=> \A j \in (h + 1)..Len(L) : j <= k => ~Hits(L[j], h)
  BY <1>1, AnswersAre
<1>3. (\A j \in (h + 1)..Len(L) : j <= k => ~Hits(L[j], h)) <=> \A j \in (h + 1)..k : ~Hits(L[j], h)
  BY <1>1
<1>4. QED
  BY <1>2, <1>3 DEF Outstanding

LEMMA OutstandingLonger ==
    ASSUME NEW L, Chained(L), NEW e \in Events, NEW M, M = Append(L, e), Chained(M),
           NEW h \in 1..Len(L)
    PROVE  /\ \A k \in 1..Len(L) : Outstanding(M, h, k) <=> Outstanding(L, h, k)
           /\ Outstanding(M, h, Len(L) + 1) <=> Outstanding(L, h, Len(L)) /\ ~Hits(e, h)
           /\ Outstanding(M, Len(L) + 1, Len(L) + 1) <=> Streamed(e)
<1> DEFINE n == Len(L)
<1>1. n \in Nat /\ Len(M) = n + 1 /\ M[n + 1] = e /\ \A i \in 1..n : M[i] = L[i]
  BY Longer
<1> HIDE DEF n
<1>2. h \in 1..n /\ h \in 1..Len(M) /\ n + 1 \in 1..Len(M)
  BY <1>1 DEF n
<1>3. ASSUME NEW k \in 1..n
      PROVE  Outstanding(M, h, k) <=> Outstanding(L, h, k)
  <2>1. Outstanding(M, h, k) <=> Streamed(M[h]) /\ \A j \in (h + 1)..k : ~Hits(M[j], h)
    <3>1. k \in 1..Len(M)
      BY <1>1, <1>3
    <3>2. QED
      BY <1>2, <3>1, OutstandingIs
  <2>2. Outstanding(L, h, k) <=> Streamed(L[h]) /\ \A j \in (h + 1)..k : ~Hits(L[j], h)
    BY <1>2, <1>3, OutstandingIs DEF n
  <2>3. \A j \in (h + 1)..k : M[j] = L[j]
    BY <1>1, <1>2
  <2>4. QED
    BY <1>1, <1>2, <2>1, <2>2, <2>3
<1>4. Outstanding(M, h, n + 1) <=> Outstanding(L, h, n) /\ ~Hits(e, h)
  <2>1. Outstanding(M, h, n + 1) <=> Streamed(M[h]) /\ \A j \in (h + 1)..(n + 1) : ~Hits(M[j], h)
    BY <1>1, <1>2, OutstandingIs
  <2>2. Outstanding(L, h, n) <=> Streamed(L[h]) /\ \A j \in (h + 1)..n : ~Hits(L[j], h)
    <3>1. n \in 1..Len(L)
      BY <1>1, <1>2 DEF n
    <3>2. QED
      BY <1>2, <3>1, OutstandingIs DEF n
  <2>3. (\A j \in (h + 1)..(n + 1) : ~Hits(M[j], h)) <=>
           (\A j \in (h + 1)..n : ~Hits(L[j], h)) /\ ~Hits(e, h)
    <3>1. \A j \in (h + 1)..n : M[j] = L[j] /\ j \in (h + 1)..(n + 1)
      BY <1>1, <1>2
    <3>2. \A j \in (h + 1)..(n + 1) : j = n + 1 \/ j \in (h + 1)..n
      BY <1>1, <1>2
    <3>3. n + 1 \in (h + 1)..(n + 1)
      BY <1>1, <1>2
    <3>4. QED
      BY <1>1, <3>1, <3>2, <3>3
  <2>4. QED
    BY <1>1, <1>2, <2>1, <2>2, <2>3
<1>5. Outstanding(M, n + 1, n + 1) <=> Streamed(e)
  <2>1. Outstanding(M, n + 1, n + 1) <=>
           Streamed(M[n + 1]) /\ \A j \in (n + 1 + 1)..(n + 1) : ~Hits(M[j], n + 1)
    BY <1>1, <1>2, OutstandingIs
  <2>2. QED
    BY <1>1, <2>1
<1>6. QED
  BY <1>3, <1>4, <1>5 DEF n

Younger(L, i, k) == {h \in (i + 1)..k : Outstanding(L, h, k)}

\* The streams that are remembered.
Waiting(L) ==
    {i \in 1..Len(L) : Outstanding(L, i, Len(L)) /\ ~Forgotten(L, i, Len(L) + 1)}

LEMMA ForgottenLonger ==
    ASSUME NEW L, Chained(L), NEW e \in Events, NEW M, M = Append(L, e), Chained(M),
           NEW i \in 1..Len(L), NEW j \in 1..(Len(L) + 1)
    PROVE  Forgotten(M, i, j) <=> Forgotten(L, i, j)
<1>1. Len(L) \in Nat
  BY Longer
<1>2. ASSUME NEW k \in (i + 1)..(j - 1)
      PROVE  {h \in (i + 1)..k : Outstanding(M, h, k)} = {h \in (i + 1)..k : Outstanding(L, h, k)}
  <2>1. k \in 1..Len(L) /\ \A h \in (i + 1)..k : h \in 1..Len(L)
    BY <1>1, <1>2
  <2>2. \A h \in (i + 1)..k : Outstanding(M, h, k) <=> Outstanding(L, h, k)
    BY <2>1, OutstandingLonger
  <2>3. QED
    BY <2>2
<1>3. QED
  BY <1>2 DEF Forgotten

\* What answers what is for good, and the new event answers a stream that is
\* remembered.
LEMMA AnsweredLonger ==
    ASSUME NEW L, Chained(L), NEW e \in Events, NEW M, M = Append(L, e), Chained(M)
    PROVE  /\ \A i, j \in 1..Len(L) : Answered(M, i, j) <=> Answered(L, i, j)
           /\ \A j \in 1..Len(M) : ~Answered(M, Len(M), j)
           /\ \A i \in 1..Len(L) : Answered(M, i, Len(M)) <=> i \in Waiting(L) /\ Hits(e, i)
<1> DEFINE n == Len(L)
<1>1. n \in Nat /\ Len(M) = n + 1 /\ M[n + 1] = e /\ \A i \in 1..n : M[i] = L[i]
  BY Longer
<1> HIDE DEF n
<1>2. ASSUME NEW i \in 1..n
      PROVE  /\ Answers(M, i) = {j \in (i + 1)..Len(M) : Hits(M[j], i)
                                     /\ \A k \in (i + 1)..(j - 1) : ~Hits(M[k], i)}
             /\ Answers(L, i) = {j \in (i + 1)..n : Hits(L[j], i)
                                     /\ \A k \in (i + 1)..(j - 1) : ~Hits(L[k], i)}
  <2>1. i \in 1..Len(L) /\ i \in 1..Len(M)
    BY <1>1, <1>2 DEF n
  <2>2. QED
    BY <2>1, AnswersAre DEF n
<1>3. ASSUME NEW i \in 1..n, NEW j \in 1..n
      PROVE  Answered(M, i, j) <=> Answered(L, i, j)
  <2>1. \A k \in 1..n : Hits(M[k], i) <=> Hits(L[k], i)
    BY <1>1
  <2>2. j \in Answers(M, i) <=> j \in Answers(L, i)
    <3>1. j \in Answers(M, i) <=> /\ j \in (i + 1)..Len(M) /\ Hits(M[j], i)
                                  /\ \A k \in (i + 1)..(j - 1) : ~Hits(M[k], i)
      BY <1>2
    <3>2. j \in Answers(L, i) <=> /\ j \in (i + 1)..n /\ Hits(L[j], i)
                                  /\ \A k \in (i + 1)..(j - 1) : ~Hits(L[k], i)
      BY <1>2
    <3>3. \A k \in (i + 1)..(j - 1) : k \in 1..n
      BY <1>1
    <3>4. j \in (i + 1)..Len(M) <=> j \in (i + 1)..n
      BY <1>1
    <3>5. QED
      BY <2>1, <3>1, <3>2, <3>3, <3>4
  <2>3. Forgotten(M, i, j) <=> Forgotten(L, i, j)
    <3>1. i \in 1..Len(L) /\ j \in 1..(Len(L) + 1)
      BY <1>1 DEF n
    <3>2. QED
      BY <3>1, ForgottenLonger
  <2>4. QED
    BY <1>1, <1>3, <2>2, <2>3 DEF Answered
<1>4. ASSUME NEW j \in 1..Len(M)
      PROVE  ~Answered(M, Len(M), j)
  BY <1>1 DEF Answered, Answers
<1>5. ASSUME NEW i \in 1..n
      PROVE  Answered(M, i, n + 1) <=> i \in Waiting(L) /\ Hits(e, i)
  <2>1. n + 1 \in Answers(M, i) <=> Hits(e, i) /\ \A k \in (i + 1)..n : ~Hits(L[k], i)
    <3>1. \A k \in (i + 1)..n : M[k] = L[k]
      BY <1>1, <1>5
    <3>2. \A j \in (i + 1)..Len(M) : j \in Answers(M, i) <=>
             Hits(M[j], i) /\ \A k \in (i + 1)..(j - 1) : ~Hits(M[k], i)
      BY <1>2
    <3> DEFINE x == n + 1
    <3>3. x \in (i + 1)..Len(M) /\ x - 1 = n /\ M[x] = e
      BY <1>1
    <3> HIDE DEF x
    <3>4. x \in Answers(M, i) <=> Hits(e, i) /\ \A k \in (i + 1)..n : ~Hits(M[k], i)
      BY <3>2, <3>3
    <3>5. x \in Answers(M, i) <=> Hits(e, i) /\ \A k \in (i + 1)..n : ~Hits(L[k], i)
      BY <3>1, <3>4
    <3>6. QED
      BY <3>5 DEF x
  <2>2. Outstanding(L, i, n) <=> Streamed(L[i]) /\ \A k \in (i + 1)..n : ~Hits(L[k], i)
    <3>1. i \in 1..Len(L) /\ n \in 1..Len(L)
      BY <1>1, <1>5 DEF n
    <3>2. QED
      BY <3>1, OutstandingIs
  <2>3. Forgotten(M, i, n + 1) <=> Forgotten(L, i, n + 1)
    <3>1. i \in 1..Len(L) /\ n + 1 \in 1..(Len(L) + 1)
      BY <1>1 DEF n
    <3>2. QED
      BY <3>1, ForgottenLonger
  <2>4. QED
    BY <1>1, <1>5, <2>1, <2>2, <2>3 DEF Answered, Waiting, n
<1>6. QED
  BY <1>1, <1>3, <1>4, <1>5 DEF n

\* Each answers one, and one answers each.
LEMMA AnsweredOnce ==
    ASSUME NEW L, Chained(L)
    PROVE  /\ \A i, j, k \in 1..Len(L) : Answered(L, i, j) /\ Answered(L, i, k) => j = k
           /\ \A i, h, j \in 1..Len(L) : Answered(L, i, j) /\ Answered(L, h, j) => i = h
           /\ \A i, j \in 1..Len(L) : Answered(L, i, j) =>
                 /\ Streamed(L[i]) /\ L[j].action = "usage"
                 /\ \A k \in 1..Len(L) : ~Answered(L, k, i) /\ ~Answered(L, j, k)
<1>1. Len(L) \in Nat /\ \A i \in 1..Len(L) : L[i].seq = i - 1
  BY DEF Chained
<1>2. \A i, j \in 1..Len(L) : Answered(L, i, j) =>
         j \in Answers(L, i) /\ Streamed(L[i]) /\ L[j].action = "usage" /\ L[j].ref = i - 1
  BY <1>1 DEF Answered, Answers
<1>3. \A i, j, k \in 1..Len(L) : Answered(L, i, j) /\ Answered(L, i, k) => j = k
  BY <1>2, AnswersAre
<1>4. \A i, h, j \in 1..Len(L) : Answered(L, i, j) /\ Answered(L, h, j) => i = h
  BY <1>1, <1>2
<1>5. \A i \in 1..Len(L) : Streamed(L[i]) => L[i].action # "usage"
  BY DEF Streamed
<1>6. QED
  BY <1>2, <1>3, <1>4, <1>5

-----------------------------------------------------------------------------
(***************************************************************************)
(* Where the events of a longer log belong.                                *)
(***************************************************************************)
OwnPlace(ev) ==
    <<ev.hour, IF ev.action \in {"allow", "warn", "usage"} THEN ev.model ELSE NoModel>>

LEMMA PlaceIs ==
    ASSUME NEW L, Chained(L), NEW i \in 1..Len(L)
    PROVE  /\ \A j \in 1..Len(L) : Answered(L, i, j) => Place(L, i) = <<L[i].hour, L[j].model>>
           /\ \A r \in 1..Len(L) : Answered(L, r, i) => Place(L, i) = <<L[r].hour, L[i].model>>
           /\ (\A j \in 1..Len(L) : ~Answered(L, i, j) /\ ~Answered(L, j, i)) =>
                 Place(L, i) = OwnPlace(L[i])
<1>1. ASSUME NEW j \in 1..Len(L), Answered(L, i, j)
      PROVE  Place(L, i) = <<L[i].hour, L[j].model>>
  <2>1. (CHOOSE k \in 1..Len(L) : Answered(L, i, k)) = j
    BY <1>1, AnsweredOnce
  <2>2. QED
    BY <1>1, <2>1 DEF Place
<1>2. ASSUME NEW r \in 1..Len(L), Answered(L, r, i)
      PROVE  Place(L, i) = <<L[r].hour, L[i].model>>
  <2>1. ~\E j \in 1..Len(L) : Answered(L, i, j)
    BY <1>2, AnsweredOnce
  <2>2. (CHOOSE k \in 1..Len(L) : Answered(L, k, i)) = r
    BY <1>2, AnsweredOnce
  <2>3. QED
    BY <1>2, <2>1, <2>2 DEF Place
<1>3. (\A j \in 1..Len(L) : ~Answered(L, i, j) /\ ~Answered(L, j, i)) => Place(L, i) = OwnPlace(L[i])
  BY DEF Place, OwnPlace
<1>4. QED
  BY <1>1, <1>2, <1>3

\* The place of an old event changes only if the new one answers it.
LEMMA PlaceLonger ==
    ASSUME NEW L, Chained(L), NEW e \in Events, NEW M, M = Append(L, e), Chained(M),
           NEW i \in 1..Len(L)
    PROVE  /\ i \in Waiting(L) /\ Hits(e, i) => Place(M, i) = <<L[i].hour, e.model>>
           /\ ~(i \in Waiting(L) /\ Hits(e, i)) => Place(M, i) = Place(L, i)
<1> DEFINE n == Len(L)
<1>1. n \in Nat /\ Len(M) = n + 1 /\ M[n + 1] = e /\ \A k \in 1..n : M[k] = L[k]
  BY Longer
<1>2. /\ \A h, j \in 1..n : Answered(M, h, j) <=> Answered(L, h, j)
      /\ \A j \in 1..(n + 1) : ~Answered(M, n + 1, j)
      /\ Answered(M, i, n + 1) <=> i \in Waiting(L) /\ Hits(e, i)
  <2>1. /\ \A h, j \in 1..Len(L) : Answered(M, h, j) <=> Answered(L, h, j)
        /\ \A j \in 1..Len(M) : ~Answered(M, Len(M), j)
        /\ \A h \in 1..Len(L) : Answered(M, h, Len(M)) <=> h \in Waiting(L) /\ Hits(e, h)
    BY AnsweredLonger
  <2>2. QED
    BY <1>1, <2>1
<1>3. \A j \in 1..(n + 1) : j \in 1..n \/ j = n + 1
  BY <1>1
<1>4. i \in 1..Len(M) /\ n + 1 \in 1..Len(M) /\ 1..n \subseteq 1..Len(M) /\ M[i] = L[i]
  BY <1>1
<1> HIDE DEF n
<1>5. ASSUME i \in Waiting(L) /\ Hits(e, i)
      PROVE  Place(M, i) = <<L[i].hour, e.model>>
  <2>1. Answered(M, i, n + 1)
    BY <1>2, <1>5
  <2>2. Place(M, i) = <<M[i].hour, M[n + 1].model>>
    BY <1>4, <2>1, PlaceIs
  <2>3. QED
    BY <1>1, <1>4, <2>2
<1>6. ASSUME ~(i \in Waiting(L) /\ Hits(e, i))
      PROVE  Place(M, i) = Place(L, i)
  <2>0. i \in 1..n
    BY DEF n
  <2>1. CASE \E j \in 1..n : Answered(L, i, j)
    <3>1. PICK j \in 1..n : Answered(L, i, j)
      BY <2>1
    <3>2. Place(L, i) = <<L[i].hour, L[j].model>>
      BY <3>1, PlaceIs DEF n
    <3>3. Answered(M, i, j) /\ j \in 1..Len(M)
      BY <1>2, <1>4, <2>0, <3>1
    <3>4. Place(M, i) = <<M[i].hour, M[j].model>>
      BY <1>4, <3>3, PlaceIs
    <3>5. QED
      BY <1>1, <1>4, <3>1, <3>2, <3>4
  <2>2. CASE \E r \in 1..n : Answered(L, r, i)
    <3>1. PICK r \in 1..n : Answered(L, r, i)
      BY <2>2
    <3>2. Place(L, i) = <<L[r].hour, L[i].model>>
      BY <3>1, PlaceIs DEF n
    <3>3. Answered(M, r, i) /\ r \in 1..Len(M)
      BY <1>2, <1>4, <2>0, <3>1
    <3>4. Place(M, i) = <<M[r].hour, M[i].model>>
      BY <1>4, <3>3, PlaceIs
    <3>5. QED
      BY <1>1, <1>4, <3>1, <3>2, <3>4
  <2>3. CASE \A j \in 1..n : ~Answered(L, i, j) /\ ~Answered(L, j, i)
    <3>1. Place(L, i) = OwnPlace(L[i])
      BY <2>3, PlaceIs DEF n
    <3>2. \A j \in 1..Len(M) : ~Answered(M, i, j) /\ ~Answered(M, j, i)
      BY <1>1, <1>2, <1>3, <1>4, <1>6, <2>0, <2>3
    <3>3. Place(M, i) = OwnPlace(M[i])
      BY <1>4, <3>2, PlaceIs
    <3>4. QED
      BY <1>4, <3>1, <3>3
  <2>4. QED
    BY <2>1, <2>2, <2>3
<1>7. QED
  BY <1>5, <1>6

\* The place of the new event.
LEMMA PlaceOfNew ==
    ASSUME NEW L, Chained(L), NEW e \in Events, NEW M, M = Append(L, e), Chained(M)
    PROVE  /\ \A r \in Waiting(L) : Hits(e, r) => Place(M, Len(M)) = <<L[r].hour, e.model>>
           /\ (\A r \in Waiting(L) : ~Hits(e, r)) => Place(M, Len(M)) = OwnPlace(e)
<1> DEFINE n == Len(L)
<1>1. n \in Nat /\ Len(M) = n + 1 /\ M[n + 1] = e /\ \A k \in 1..n : M[k] = L[k]
  BY Longer
<1>2. /\ \A j \in 1..(n + 1) : ~Answered(M, n + 1, j)
      /\ \A i \in 1..n : Answered(M, i, n + 1) <=> i \in Waiting(L) /\ Hits(e, i)
  <2>1. /\ \A j \in 1..Len(M) : ~Answered(M, Len(M), j)
        /\ \A h \in 1..Len(L) : Answered(M, h, Len(M)) <=> h \in Waiting(L) /\ Hits(e, h)
    BY AnsweredLonger
  <2>2. QED
    BY <1>1, <2>1
<1>3. \A j \in 1..(n + 1) : j \in 1..n \/ j = n + 1
  BY <1>1
<1>4. n + 1 \in 1..Len(M) /\ 1..n \subseteq 1..Len(M) /\ Waiting(L) \subseteq 1..n
  BY <1>1 DEF Waiting
<1> HIDE DEF n
<1>5. ASSUME NEW r \in Waiting(L), Hits(e, r)
      PROVE  Place(M, n + 1) = <<L[r].hour, e.model>>
  <2>1. r \in 1..n /\ r \in 1..Len(M) /\ Answered(M, r, n + 1)
    BY <1>2, <1>4, <1>5
  <2>2. Place(M, n + 1) = <<M[r].hour, M[n + 1].model>>
    BY <1>4, <2>1, PlaceIs
  <2>3. QED
    BY <1>1, <2>1, <2>2
<1>6. ASSUME \A r \in Waiting(L) : ~Hits(e, r)
      PROVE  Place(M, n + 1) = OwnPlace(e)
  <2>1. \A j \in 1..Len(M) : ~Answered(M, n + 1, j) /\ ~Answered(M, j, n + 1)
    BY <1>1, <1>2, <1>3, <1>6
  <2>2. Place(M, n + 1) = OwnPlace(M[n + 1])
    <3>1. Chained(M) /\ n + 1 \in 1..Len(M)
      BY <1>4
    <3>2. QED
      BY ONLY <2>1, <3>1, PlaceIs
  <2>3. QED
    BY <1>1, <2>2
<1>7. QED
  BY <1>1, <1>5, <1>6

-----------------------------------------------------------------------------
(***************************************************************************)
(* Which streams are remembered.                                           *)
(***************************************************************************)
LEMMA ForgottenIs ==
    ASSUME NEW L, NEW i, NEW m \in Int
    PROVE  Forgotten(L, i, m + 1) <=>
              \E k \in (i + 1)..m : Cardinality(Younger(L, i, k)) >= PENDING_CAP
<1> DEFINE x == m + 1
<1>1. x - 1 = m
  OBVIOUS
<1> HIDE DEF x
<1>2. Forgotten(L, i, x) <=>
         \E k \in (i + 1)..(x - 1) : Cardinality(Younger(L, i, k)) >= PENDING_CAP
  BY DEF Forgotten, Younger
<1>3. Forgotten(L, i, x) <=>
         \E k \in (i + 1)..m : Cardinality(Younger(L, i, k)) >= PENDING_CAP
  BY <1>1, <1>2
<1>4. QED
  BY <1>3 DEF x

LEMMA YoungerWaiting ==
    ASSUME NEW L, Chained(L), NEW i \in Waiting(L)
    PROVE  /\ Younger(L, i, Len(L)) = {h \in Waiting(L) : h > i}
           /\ Cardinality(Younger(L, i, Len(L))) < PENDING_CAP
<1> DEFINE n == Len(L)
<1>1. n \in Nat /\ i \in 1..n /\ ~Forgotten(L, i, n + 1) /\ n + 1 - 1 = n
  BY DEF Chained, Waiting
<1> HIDE DEF n
<1>2. \A k \in (i + 1)..n : ~(Cardinality(Younger(L, i, k)) >= PENDING_CAP)
  BY <1>1, ForgottenIs
<1>3. \A k \in (i + 1)..n : Cardinality(Younger(L, i, k)) \in Nat
  <2> SUFFICES ASSUME NEW k \in (i + 1)..n PROVE Cardinality(Younger(L, i, k)) \in Nat
    OBVIOUS
  <2>1. Younger(L, i, k) \in SUBSET ((i + 1)..k) /\ i + 1 \in Int /\ k \in Int
    BY <1>1 DEF Younger
  <2>2. QED
    BY <2>1, IntervalFinite
<1>4. Cardinality(Younger(L, i, n)) < PENDING_CAP
  <2>1. CASE i < n
    <3>1. n \in (i + 1)..n
      BY <1>1, <2>1
    <3>2. QED
      BY <1>2, <1>3, <3>1, StatsConstants
  <2>2. CASE ~(i < n)
    <3>1. Younger(L, i, n) = {}
      BY <1>1, <2>2 DEF Younger
    <3>2. QED
      BY <3>1, FS_EmptySet, StatsConstants
  <2>3. QED
    BY <2>1, <2>2
<1>5. ASSUME NEW h \in (i + 1)..n, Outstanding(L, h, n)
      PROVE  h \in Waiting(L)
  <2>1. h \in 1..n
    BY <1>1
  <2>2. ASSUME NEW k \in (h + 1)..n
        PROVE  ~(Cardinality(Younger(L, h, k)) >= PENDING_CAP)
    <3>1. Younger(L, h, k) \in SUBSET Younger(L, i, k)
      BY <1>1, <2>1 DEF Younger
    <3>2. k \in (i + 1)..n
      BY <1>1, <2>1
    <3>3. Younger(L, i, k) \in SUBSET ((i + 1)..k) /\ i + 1 \in Int /\ k \in Int
      BY <1>1 DEF Younger
    <3>4. IsFiniteSet(Younger(L, i, k))
      BY <3>3, IntervalFinite
    <3>5. Cardinality(Younger(L, h, k)) <= Cardinality(Younger(L, i, k))
          /\ Cardinality(Younger(L, h, k)) \in Nat
      BY <3>1, <3>4, FS_Subset, FS_CardinalityType
    <3>6. QED
      BY <1>2, <1>3, <3>2, <3>5, StatsConstants
  <2>3. ~Forgotten(L, h, n + 1)
    BY <1>1, <2>2, ForgottenIs
  <2>4. QED
    BY <1>5, <2>1, <2>3 DEF Waiting, n
<1>6. Younger(L, i, n) = {h \in Waiting(L) : h > i}
  <2>1. \A h \in Waiting(L) : h \in 1..n /\ Outstanding(L, h, n)
    BY DEF Waiting, n
  <2>2. \A h \in Younger(L, i, n) : h \in Waiting(L) /\ h > i
    BY <1>1, <1>5 DEF Younger
  <2>3. \A h \in Waiting(L) : h > i => h \in Younger(L, i, n)
    BY <1>1, <2>1 DEF Younger
  <2>4. QED
    BY <2>2, <2>3
<1>7. QED
  BY <1>4, <1>6 DEF n

\* Never more than there is room for.
LEMMA WaitingFew ==
    ASSUME NEW L, Chained(L)
    PROVE  /\ Waiting(L) \in SUBSET (1..Len(L)) /\ IsFiniteSet(Waiting(L))
           /\ Cardinality(Waiting(L)) \in Nat /\ Cardinality(Waiting(L)) <= PENDING_CAP
<1>1. Len(L) \in Nat /\ Waiting(L) \in SUBSET (1..Len(L))
  BY DEF Chained, Waiting
<1>2. IsFiniteSet(Waiting(L)) /\ Cardinality(Waiting(L)) \in Nat
  <2> DEFINE W == Waiting(L)
  <2>1. W \in SUBSET (1..Len(L)) /\ 1 \in Int /\ Len(L) \in Int
    BY <1>1
  <2> HIDE DEF W
  <2>2. IsFiniteSet(W) /\ Cardinality(W) \in Nat
    BY <2>1, IntervalFinite
  <2>3. QED
    BY <2>2 DEF W
<1>3. CASE Waiting(L) = {}
  BY <1>1, <1>2, <1>3, FS_EmptySet, StatsConstants
<1>4. CASE Waiting(L) # {}
  <2>1. Waiting(L) \in SUBSET Nat
    BY <1>1
  <2>2. PICK i \in Waiting(L) : \A h \in Waiting(L) : i <= h
    BY <1>4, <2>1, LeastIndex
  <2>3. {h \in Waiting(L) : h > i} = Waiting(L) \ {i}
    BY <2>1, <2>2
  <2>4. Cardinality(Waiting(L) \ {i}) < PENDING_CAP
    BY <2>3, YoungerWaiting
  <2>5. Cardinality(Waiting(L) \ {i}) = Cardinality(Waiting(L)) - 1
    BY <1>2, FS_RemoveElement
  <2>6. QED
    BY <1>1, <1>2, <2>4, <2>5, StatsConstants
<1>5. QED
  BY <1>3, <1>4

LEMMA ForgottenNext ==
    ASSUME NEW L, Chained(L), NEW e \in Events, NEW M, M = Append(L, e), Chained(M),
           NEW i \in 1..Len(L)
    PROVE  Forgotten(M, i, Len(M) + 1) <=>
              \/ Forgotten(L, i, Len(L) + 1)
              \/ Cardinality(Younger(M, i, Len(M))) >= PENDING_CAP
<1> DEFINE n == Len(L)
<1>1. n \in Nat /\ Len(M) = n + 1 /\ n + 1 \in 1..(n + 1) /\ i \in 1..n
  BY Longer
<1>2. Forgotten(M, i, n + 1) <=> Forgotten(L, i, n + 1)
  BY <1>1, ForgottenLonger
<1> HIDE DEF n
<1>3. Forgotten(M, i, n + 1) <=>
         \E k \in (i + 1)..n : Cardinality(Younger(M, i, k)) >= PENDING_CAP
  BY <1>1, ForgottenIs
<1> DEFINE x == n + 1
<1>4. x = n + 1
  OBVIOUS
<1> HIDE DEF x
<1>5. Forgotten(M, i, x + 1) <=>
         \E k \in (i + 1)..x : Cardinality(Younger(M, i, k)) >= PENDING_CAP
  <2>1. x \in Int
    BY <1>1, <1>4
  <2>2. QED
    BY <2>1, ForgottenIs
<1>6. /\ \A k \in (i + 1)..x : k \in (i + 1)..n \/ k = x
      /\ \A k \in (i + 1)..n : k \in (i + 1)..x
      /\ x \in (i + 1)..x
  BY <1>1, <1>4
<1>7. Forgotten(M, i, x + 1) <=>
         Forgotten(M, i, n + 1) \/ Cardinality(Younger(M, i, x)) >= PENDING_CAP
  BY <1>3, <1>5, <1>6
<1>8. Len(M) = x
  BY <1>1, <1>4
<1>9. QED
  BY <1>2, <1>7, <1>8 DEF n

Above(A, i) == {h \in A : h > i}
Kept(A) == {i \in A : Cardinality(Above(A, i)) < PENDING_CAP}

\* The new event takes out the stream that it answers; a new stream may push
\* out an older one.
LEMMA WaitingLonger ==
    ASSUME NEW L, Chained(L), NEW e \in Events, NEW M, M = Append(L, e), Chained(M)
    PROVE  /\ ~Streamed(e) => Waiting(M) = {i \in Waiting(L) : ~Hits(e, i)}
           /\ \A A : Streamed(e) /\ A = Waiting(L) \cup {Len(M)} =>
                 Waiting(M) = Kept(A)
<1> DEFINE n == Len(L)
           x == Len(M)
<1>1. n \in Nat /\ x = n + 1 /\ M[x] = e
  BY Longer
<1>2. \A i \in 1..n : Outstanding(M, i, x) <=> Outstanding(L, i, n) /\ ~Hits(e, i)
  <2>1. \A i \in 1..Len(L) :
           Outstanding(M, i, Len(L) + 1) <=> Outstanding(L, i, Len(L)) /\ ~Hits(e, i)
    BY OutstandingLonger
  <2>2. QED
    BY <1>1, <2>1
<1>3. \A i \in 1..n :
         Forgotten(M, i, x + 1) <=>
            Forgotten(L, i, n + 1) \/ Cardinality(Younger(M, i, x)) >= PENDING_CAP
  BY ForgottenNext
<1>4. Outstanding(M, x, x) <=> Streamed(e)
  <2>1. x \in 1..Len(M)
    BY <1>1
  <2>2. Outstanding(M, x, x) <=> Streamed(M[x]) /\ \A j \in (x + 1)..x : ~Hits(M[j], x)
    BY <2>1, OutstandingIs
  <2>3. QED
    BY <1>1, <2>2
<1>5. Waiting(L) = {i \in 1..n : Outstanding(L, i, n) /\ ~Forgotten(L, i, n + 1)}
  BY DEF Waiting
<1>6. Waiting(M) = {i \in 1..x : Outstanding(M, i, x) /\ ~Forgotten(M, i, x + 1)}
  BY DEF Waiting
<1> HIDE DEF n, x
<1>7. \A i \in 1..x : i \in 1..n \/ i = x
  BY <1>1
<1>8. 1..n \subseteq 1..x /\ x \in 1..x /\ x \notin 1..n
  BY <1>1
<1>9. \A i \in 1..n : /\ IsFiniteSet(Younger(M, i, x)) /\ IsFiniteSet(Younger(L, i, n))
                      /\ Cardinality(Younger(M, i, x)) \in Nat /\ Cardinality(Younger(L, i, n)) \in Nat
  <2> SUFFICES ASSUME NEW i \in 1..n
               PROVE  /\ IsFiniteSet(Younger(M, i, x)) /\ IsFiniteSet(Younger(L, i, n))
                      /\ Cardinality(Younger(M, i, x)) \in Nat /\ Cardinality(Younger(L, i, n)) \in Nat
    OBVIOUS
  <2>1. /\ Younger(M, i, x) \in SUBSET ((i + 1)..x) /\ Younger(L, i, n) \in SUBSET ((i + 1)..n)
        /\ i + 1 \in Int /\ x \in Int /\ n \in Int
    BY <1>1 DEF Younger
  <2>2. QED
    BY <2>1, IntervalFinite
<1>10. ASSUME ~Streamed(e)
       PROVE  Waiting(M) = {i \in Waiting(L) : ~Hits(e, i)}
  <2>1. ASSUME NEW i \in 1..n, ~Forgotten(L, i, n + 1)
        PROVE  ~(Cardinality(Younger(M, i, x)) >= PENDING_CAP)
    <3>1. Younger(M, i, x) \in SUBSET Younger(L, i, n)
      <4> SUFFICES ASSUME NEW h \in (i + 1)..x, Outstanding(M, h, x)
                   PROVE  h \in (i + 1)..n /\ Outstanding(L, h, n)
        BY DEF Younger
      <4>1. h # x
        BY <1>4, <1>10
      <4>2. h \in (i + 1)..n /\ h \in 1..n
        BY <1>1, <4>1
      <4>3. QED
        BY <1>2, <4>2
    <3>2. Cardinality(Younger(M, i, x)) <= Cardinality(Younger(L, i, n))
      BY <1>9, <3>1, FS_Subset
    <3>3. CASE n \in (i + 1)..n
      <4>1. ~(Cardinality(Younger(L, i, n)) >= PENDING_CAP)
        BY <1>1, <2>1, <3>3, ForgottenIs
      <4>2. QED
        BY <1>9, <3>2, <4>1, StatsConstants
    <3>4. CASE n \notin (i + 1)..n
      <4>1. Younger(L, i, n) = {}
        BY <1>1, <3>4 DEF Younger
      <4>2. Cardinality(Younger(L, i, n)) = 0
        BY <4>1, FS_EmptySet
      <4>3. QED
        BY <1>9, <3>2, <4>2, StatsConstants
    <3>5. QED
      BY <3>3, <3>4
  <2>2. x \notin Waiting(M)
    BY <1>4, <1>6, <1>10
  <2>3. \A i \in 1..n : i \in Waiting(M) <=> i \in Waiting(L) /\ ~Hits(e, i)
    BY <1>2, <1>3, <1>5, <1>6, <1>8, <2>1
  <2>4. QED
    BY <1>5, <1>6, <1>7, <2>2, <2>3
<1>11. ASSUME Streamed(e), NEW A, A = Waiting(L) \cup {x}
       PROVE  Waiting(M) = Kept(A)
  <2>1. \A i \in 1..n : Outstanding(M, i, x) <=> Outstanding(L, i, n)
    BY <1>2, <1>11 DEF Streamed, Hits
  <2>2. ASSUME NEW i \in Waiting(L)
        PROVE  i \in Waiting(M) <=> Cardinality(Above(A, i)) < PENDING_CAP
    <3>1. i \in 1..n /\ Outstanding(L, i, n) /\ ~Forgotten(L, i, n + 1)
      BY <1>5
    <3>2. Younger(M, i, x) = Younger(L, i, n) \cup {x}
      <4>1. \A h \in (i + 1)..x : h = x \/ (h \in (i + 1)..n /\ h \in 1..n)
        BY <1>1, <3>1
      <4>2. \A h \in (i + 1)..n : h \in (i + 1)..x /\ h \in 1..n
        BY <1>1, <3>1
      <4>3. x \in (i + 1)..x
        BY <1>1, <3>1
      <4>4. Outstanding(M, x, x)
        BY <1>4, <1>11
      <4>5. \A h : h \in Younger(M, i, x) <=> h \in Younger(L, i, n) \/ h = x
        BY <2>1, <4>1, <4>2, <4>3, <4>4 DEF Younger
      <4>6. QED
        BY <4>5
    <3>3. Younger(L, i, n) = {h \in Waiting(L) : h > i}
      BY YoungerWaiting DEF n
    <3>4. Above(A, i) = Younger(L, i, n) \cup {x}
      <4>1. x > i
        BY <1>1, <3>1
      <4>2. QED
        BY <1>11, <3>3, <4>1 DEF Above
    <3>5. i \in Waiting(M) <=> ~(Cardinality(Younger(M, i, x)) >= PENDING_CAP)
      <4>1. i \in 1..x /\ Outstanding(M, i, x)
        BY <1>8, <2>1, <3>1
      <4>2. QED
        BY <1>3, <1>6, <3>1, <4>1
    <3>6. Cardinality(Younger(M, i, x)) \in Nat
      BY <1>9, <3>1
    <3>7. Above(A, i) = Younger(M, i, x)
      BY <3>2, <3>4
    <3>8. QED
      BY <3>5, <3>6, <3>7, StatsConstants
  <2>3. x \in Waiting(M) /\ Cardinality(Above(A, x)) < PENDING_CAP
    <3>1. ~Forgotten(M, x, x + 1)
      <4>1. \A k \in (x + 1)..x : FALSE
        BY <1>1
      <4>2. x \in Int
        BY <1>1
      <4>3. QED
        BY <4>1, <4>2, ForgottenIs
    <3>2. x \in Waiting(M)
      BY <1>4, <1>6, <1>8, <1>11, <3>1
    <3>3. Above(A, x) = {}
      BY <1>1, <1>5, <1>11 DEF Above
    <3>4. QED
      BY <3>2, <3>3, FS_EmptySet, StatsConstants
  <2>4. \A i \in 1..n : i \in Waiting(M) => i \in Waiting(L)
    BY <1>3, <1>5, <1>6, <2>1
  <2>5. Waiting(M) \subseteq A
    BY <1>6, <1>7, <1>11, <2>4
  <2>6. \A i \in A : i \in Waiting(M) <=> Cardinality(Above(A, i)) < PENDING_CAP
    BY <1>11, <2>2, <2>3
  <2>7. QED
    BY <2>5, <2>6 DEF Kept
<1>12. QED
  BY <1>10, <1>11 DEF x

\* To keep those with fewer than so many younger ones is to drop the oldest of
\* too many.
LEMMA KeepYoungest ==
    ASSUME NEW A \in SUBSET Nat, IsFiniteSet(A), Cardinality(A) <= PENDING_CAP + 1,
           NEW m \in A, \A h \in A : m <= h
    PROVE  Kept(A)
              = IF Cardinality(A) > PENDING_CAP THEN A \ {m} ELSE A
<1>1. Cardinality(A) \in Nat /\ PENDING_CAP \in Nat
  BY FS_CardinalityType, StatsConstants
<1>2. ASSUME NEW i \in A
      PROVE  /\ Above(A, i) \in SUBSET (A \ {i}) /\ IsFiniteSet(A \ {i})
             /\ Cardinality(A \ {i}) = Cardinality(A) - 1
             /\ Cardinality(Above(A, i)) \in Nat
             /\ Cardinality(Above(A, i)) <= Cardinality(A) - 1
  <2>1. Above(A, i) \in SUBSET (A \ {i})
    BY DEF Above
  <2>2. IsFiniteSet(A \ {i}) /\ Cardinality(A \ {i}) = Cardinality(A) - 1
    BY FS_RemoveElement
  <2>3. Cardinality(Above(A, i)) <= Cardinality(A \ {i})
        /\ Cardinality(Above(A, i)) \in Nat
    BY <2>1, <2>2, FS_Subset, FS_CardinalityType
  <2>4. QED
    BY <2>1, <2>2, <2>3
<1>3. CASE ~(Cardinality(A) > PENDING_CAP)
  <2>1. \A i \in A : Cardinality(Above(A, i)) < PENDING_CAP
    <3> SUFFICES ASSUME NEW i \in A PROVE Cardinality(Above(A, i)) < PENDING_CAP
      OBVIOUS
    <3>1. Cardinality(Above(A, i)) \in Nat /\ Cardinality(Above(A, i)) <= Cardinality(A) - 1
      BY <1>2
    <3>2. QED
      BY <1>1, <1>3, <3>1
  <2>2. QED
    BY <1>3, <2>1 DEF Kept
<1>4. CASE Cardinality(A) > PENDING_CAP
  <2>1. Above(A, m) = A \ {m}
    <3>1. \A h \in A : h > m <=> h # m
      OBVIOUS
    <3>2. QED
      BY <3>1 DEF Above
  <2>2. ~(Cardinality(Above(A, m)) < PENDING_CAP)
    BY <1>1, <1>2, <1>4, <2>1
  <2>3. ASSUME NEW i \in A, i # m
        PROVE  Cardinality(Above(A, i)) < PENDING_CAP
    <3>1. Above(A, i) # A \ {i}
      BY <2>3 DEF Above
    <3>2. Cardinality(Above(A, i)) # Cardinality(A \ {i})
      BY <1>2, <3>1, FS_Subset
    <3>3. QED
      BY <1>1, <1>2, <3>2
  <2>4. \A i \in A : Cardinality(Above(A, i)) < PENDING_CAP <=> i # m
    BY <2>2, <2>3
  <2>5. QED
    BY <1>4, <2>4 DEF Kept
<1>5. QED
  BY <1>3, <1>4

LEMMA SameSize ==
    ASSUME NEW A, NEW B, IsFiniteSet(A), NEW f \in [A -> B],
           \A i, j \in A : f[i] = f[j] => i = j,
           \A b \in B : \E a \in A : f[a] = b
    PROVE  IsFiniteSet(B) /\ Cardinality(B) = Cardinality(A)
<1>1. f \in Bijection(A, B)
  BY DEF Bijection, Injection, Surjection, IsInjective
<1>2. ExistsBijection(A, B)
  BY <1>1 DEF ExistsBijection
<1>3. QED
  BY <1>2, FS_Bijection

-----------------------------------------------------------------------------
(***************************************************************************)
(* What is remembered of a stream, and the streams of a log that are.      *)
(***************************************************************************)
Memo(L, i) == [seq |-> i - 1, hour |-> L[i].hour, warn |-> L[i].action = "warn"]

Memos(L, A) == {Memo(L, i) : i \in A}

Pend(L) == Memos(L, Waiting(L))

\* A set of memos as large as the set of their streams.
LEMMA MemoSize ==
    ASSUME NEW L, Chained(L), NEW A \in SUBSET (1..Len(L))
    PROVE  Cardinality(Memos(L, A)) = Cardinality(A)
<1> DEFINE f == [i \in A |-> Memo(L, i)]
           B == {Memo(L, i) : i \in A}
<1>1. Len(L) \in Nat
  BY DEF Chained
<1>2. IsFiniteSet(A)
  <2>1. 1 \in Int /\ Len(L) \in Int
    BY <1>1
  <2>2. QED
    BY <2>1, IntervalFinite
<1>3. f \in [A -> B]
  OBVIOUS
<1>4. \A i, j \in A : f[i] = f[j] => i = j
  <2>1. \A i \in A : f[i].seq = i - 1 /\ i \in Int
    BY <1>1 DEF Memo
  <2>2. QED
    BY <2>1
<1>5. \A b \in B : \E a \in A : f[a] = b
  OBVIOUS
<1> HIDE DEF f, B
<1>6. Cardinality(B) = Cardinality(A)
  BY <1>2, <1>3, <1>4, <1>5, SameSize
<1>7. QED
  BY <1>6 DEF B, Memos

\* A stream is remembered.
LEMMA RememberIs ==
    ASSUME NEW L, Chained(L), NEW e \in Events, NEW M, M = Append(L, e), Chained(M),
           Streamed(e)
    PROVE  Remember(Pend(L), e) = Pend(M)
<1> DEFINE n == Len(L)
           x == Len(M)
           A == Waiting(L) \cup {x}
           all == {p \in Pend(L) : p.seq # e.seq}
                     \cup {[seq |-> e.seq, hour |-> e.hour, warn |-> e.action = "warn"]}
           Oldest(p) == p \in all /\ \A q \in all : p.seq <= q.seq
<1>1. n \in Nat /\ x = n + 1 /\ M[x] = e /\ (\A i \in 1..n : M[i] = L[i]) /\ e.seq = n
      /\ n = x - 1
  BY Longer DEF Chained
<1>2. Waiting(L) \in SUBSET (1..n) /\ IsFiniteSet(Waiting(L))
      /\ Cardinality(Waiting(L)) \in Nat /\ Cardinality(Waiting(L)) <= PENDING_CAP
  BY WaitingFew
<1>3. Waiting(M) = Kept(A)
  <2> HIDE DEF A, x
  <2>1. A = Waiting(L) \cup {Len(M)}
    BY DEF A, x
  <2>2. QED
    BY <2>1, WaitingLonger
<1>4. Remember(Pend(L), e) =
         IF Cardinality(all) > PENDING_CAP
         THEN all \ {CHOOSE p \in all : \A q \in all : p.seq <= q.seq} ELSE all
  BY DEF Remember
<1>5. all = Memos(M, A)
  <2>1. \A i \in Waiting(L) : Memo(L, i) = Memo(M, i) /\ Memo(L, i).seq # e.seq
    BY <1>1, <1>2 DEF Memo
  <2>2. {p \in Pend(L) : p.seq # e.seq} = Memos(M, Waiting(L))
    BY <2>1 DEF Pend, Memos
  <2>3. [seq |-> e.seq, hour |-> e.hour, warn |-> e.action = "warn"] = Memo(M, x)
    BY <1>1 DEF Memo
  <2>4. QED
    BY <2>2, <2>3 DEF Memos
<1> HIDE DEF all, n, x
<1>6. A \in SUBSET (1..Len(M)) /\ A \in SUBSET Nat /\ IsFiniteSet(A) /\ A # {}
      /\ Cardinality(A) <= PENDING_CAP + 1
  <2>1. A \in SUBSET (1..Len(M)) /\ A \in SUBSET Nat /\ A # {}
    BY <1>1, <1>2 DEF x
  <2>2. IsFiniteSet(A) /\ Cardinality(A) = IF x \in Waiting(L) THEN Cardinality(Waiting(L))
                                           ELSE Cardinality(Waiting(L)) + 1
    BY <1>2, FS_AddElement
  <2>3. QED
    BY <1>2, <2>1, <2>2, StatsConstants
<1>7. PICK m \in A : \A h \in A : m <= h
  BY <1>6, LeastIndex
<1> HIDE DEF A
<1>8. Waiting(M) = IF Cardinality(A) > PENDING_CAP THEN A \ {m} ELSE A
  BY <1>3, <1>6, <1>7, KeepYoungest
<1>9. Cardinality(all) = Cardinality(A)
  <2>1. Cardinality(Memos(M, A)) = Cardinality(A)
    BY <1>6, MemoSize
  <2>2. QED
    BY <1>5, <2>1
<1>10. \A i \in A : Memo(M, i).seq = i - 1 /\ i \in Nat
  BY <1>6 DEF Memo
<1>11. (CHOOSE p \in all : \A q \in all : p.seq <= q.seq) = Memo(M, m)
  <2>1. Memo(M, m) \in all /\ \A q \in all : Memo(M, m).seq <= q.seq
    BY <1>5, <1>7, <1>10 DEF Memos
  <2>2. ASSUME NEW p \in all, \A q \in all : p.seq <= q.seq
        PROVE  p = Memo(M, m)
    <3>1. PICK i \in A : p = Memo(M, i)
      BY <1>5 DEF Memos
    <3>2. i - 1 <= m - 1 /\ m <= i
      BY <1>7, <1>10, <2>1, <2>2, <3>1
    <3>3. i = m
      BY <1>10, <3>2
    <3>4. QED
      BY <3>1, <3>3
  <2>3. QED
    BY <2>1, <2>2
<1>12. all \ {Memo(M, m)} = Memos(M, A \ {m})
  <2>1. \A i \in A : Memo(M, i) = Memo(M, m) => i = m
    BY <1>10
  <2>2. QED
    BY <1>5, <2>1 DEF Memos
<1>13. QED
  BY <1>4, <1>5, <1>8, <1>9, <1>11, <1>12 DEF Pend

\* Another event takes out what it answers.
LEMMA PendLonger ==
    ASSUME NEW L, Chained(L), NEW e \in Events, NEW M, M = Append(L, e), Chained(M),
           ~Streamed(e)
    PROVE  /\ e.action = "usage" => Pend(M) = Pend(L) \ {p \in Pend(L) : p.seq = e.ref}
           /\ e.action # "usage" => Pend(M) = Pend(L)
<1>1. Waiting(M) = {i \in Waiting(L) : ~Hits(e, i)}
  BY WaitingLonger
<1>2. \A i \in Waiting(L) : Memo(M, i) = Memo(L, i) /\ Memo(L, i).seq = i - 1
  <2>1. Waiting(L) \in SUBSET (1..Len(L))
    BY WaitingFew
  <2>2. QED
    BY <2>1, Longer DEF Memo
<1>3. ASSUME e.action # "usage" PROVE Pend(M) = Pend(L)
  <2>1. Waiting(M) = Waiting(L)
    BY <1>1, <1>3 DEF Hits
  <2>2. QED
    BY <1>2, <2>1 DEF Pend, Memos
<1>4. ASSUME e.action = "usage"
      PROVE  Pend(M) = Pend(L) \ {p \in Pend(L) : p.seq = e.ref}
  <2>1. \A i \in Waiting(L) : Hits(e, i) <=> Memo(L, i).seq = e.ref
    BY <1>2, <1>4 DEF Hits
  <2>2. QED
    BY <1>1, <1>2, <2>1 DEF Pend, Memos
<1>5. QED
  BY <1>3, <1>4

-----------------------------------------------------------------------------
(***************************************************************************)
(* What an event contributes: of its own, given whether its place is that  *)
(* of no model and whether it answers a stream.                            *)
(***************************************************************************)
SaysOf(ev, f, none, ans) ==
    LET request == ev.action \in {"allow", "warn"}
    IN  CASE f = "requests" -> request \/ ev.action = "deny"
          [] f = "allows"   -> ev.action = "allow"
          [] f = "warns"    -> ev.action = "warn"
          [] f = "denies"   -> ev.action = "deny"
          [] f = "deny_tripwire" -> ev.action = "deny" /\ ev.cause = "tripwire"
          [] f = "deny_dlp"      -> ev.action = "deny" /\ ev.cause = "dlp"
          [] f = "deny_budget"   -> ev.action = "deny" /\ ev.cause = "budget"
          [] f = "deny_policy"   -> ev.action = "deny"
                                      /\ ev.cause \notin {"tripwire", "dlp", "budget"}
          [] f = "tripwires"  -> ev.action \in {"deny", "alert"} /\ ev.cause = "tripwire"
          [] f = "dlp_alerts" -> ev.action = "alert" /\ ev.cause = "dlp"
          [] f = "policy_tamper"  -> ev.action = "tamper"
          [] f = "policy_changes" -> ev.action = "policy"
          [] f = "tokens"     -> (request \/ ev.action = "usage") /\ ev.model # NoModel
          [] f = "no_usage"   -> request /\ none
          [] f = "bytes_up"   -> request \/ ev.action = "deny"
          [] f = "bytes_down" -> ev.action = "usage" \/ (request /\ ev.dur)
          [] f = "dur"        -> \/ (request \/ ev.action = "deny") /\ ev.dur
                                 \/ ev.action = "usage" /\ ans

Answering(L, i) == \E r \in 1..Len(L) : Answered(L, r, i)

LEMMA SaysIs ==
    ASSUME NEW L, NEW i, NEW f
    PROVE  Says(L, i, f) = SaysOf(L[i], f, Place(L, i)[2] = NoModel, Answering(L, i))
BY DEF Says, SaysOf, Answering

request_fields(ev) ==
    {"requests", Outcome(ev.action = "warn"), "bytes_up"}
       \cup (IF ev.dur THEN {"bytes_down", "dur"} ELSE {})
       \cup {IF ev.model # NoModel THEN "tokens" ELSE "no_usage"}

usage_fields(ev) == {"bytes_down"} \cup (IF ev.model # NoModel THEN {"tokens"} ELSE {})

own_fields(ev) ==
    CASE ev.action \in {"allow", "warn"} -> request_fields(ev)
      [] ev.action = "deny"   -> deny_fields(ev)
      [] ev.action = "alert"  -> alert_fields(ev)
      [] ev.action = "tamper" -> {"policy_tamper"}
      [] ev.action = "policy" -> {"policy_changes"}
      [] ev.action = "usage"  -> usage_fields(ev)
      [] OTHER -> {}

LEMMA SaysOfRequest ==
    ASSUME NEW ev \in Events, ev.action \in {"allow", "warn"}, NEW ans, NEW f \in Fields
    PROVE  SaysOf(ev, f, ev.model = NoModel, ans) <=> f \in request_fields(ev)
<1>1. ev.dur \in BOOLEAN
  BY DEF Events
<1>2. QED
  BY <1>1 DEF SaysOf, request_fields, Outcome, Fields

LEMMA SaysOfDeny ==
    ASSUME NEW ev \in Events, ev.action = "deny", NEW none, NEW ans, NEW f \in Fields
    PROVE  SaysOf(ev, f, none, ans) <=> f \in deny_fields(ev)
<1>1. ev.dur \in BOOLEAN
  BY DEF Events
<1>2. QED
  BY <1>1 DEF SaysOf, deny_fields, Fields

LEMMA SaysOfUsage ==
    ASSUME NEW ev \in Events, ev.action = "usage", NEW none, NEW f \in Fields
    PROVE  /\ SaysOf(ev, f, none, FALSE) <=> f \in usage_fields(ev)
           /\ SaysOf(ev, f, none, TRUE) <=> f \in usage_fields(ev) \cup {"dur"}
BY DEF SaysOf, usage_fields, Fields

LEMMA SaysOfNote ==
    ASSUME NEW ev \in Events, ev.action \notin {"allow", "warn", "deny", "usage"},
           NEW none, NEW ans, NEW f \in Fields
    PROVE  SaysOf(ev, f, none, ans) <=> f \in own_fields(ev)
BY DEF SaysOf, own_fields, alert_fields, Fields

\* An event that answers nothing counts where it is.
LEMMA SaysOwn ==
    ASSUME NEW ev \in Events, NEW f \in Fields
    PROVE  SaysOf(ev, f, OwnPlace(ev)[2] = NoModel, FALSE) <=> f \in own_fields(ev)
<1>1. CASE ev.action \in {"allow", "warn"}
  <2>1. OwnPlace(ev)[2] = ev.model
    BY <1>1 DEF OwnPlace
  <2>2. own_fields(ev) = request_fields(ev)
    BY <1>1 DEF own_fields
  <2>3. QED
    BY <1>1, <2>1, <2>2, SaysOfRequest
<1>2. CASE ev.action = "deny"
  <2>1. own_fields(ev) = deny_fields(ev)
    BY <1>2 DEF own_fields
  <2>2. QED
    BY <1>2, <2>1, SaysOfDeny
<1>3. CASE ev.action = "usage"
  <2>1. own_fields(ev) = usage_fields(ev)
    BY <1>3 DEF own_fields
  <2>2. QED
    BY <1>3, <2>1, SaysOfUsage
<1>4. CASE ev.action \notin {"allow", "warn", "deny", "usage"}
  BY <1>4, SaysOfNote
<1>5. QED
  BY <1>1, <1>2, <1>3, <1>4

\* A stream, before and after it is answered.
LEMMA SaysOfStream ==
    ASSUME NEW ev \in Events, Streamed(ev), NEW f \in Fields, NEW ans
    PROVE  /\ SaysOf(ev, f, TRUE, ans) <=>
                 f \in {"requests", "bytes_up", Outcome(ev.action = "warn"), "no_usage"}
           /\ SaysOf(ev, f, FALSE, ans) <=>
                 f \in {"requests", "bytes_up", Outcome(ev.action = "warn")}
BY DEF SaysOf, Streamed, Outcome, Fields

-----------------------------------------------------------------------------
(***************************************************************************)
(* Rows count the events of their cells.                                   *)
(***************************************************************************)
Rows == [RowKey -> [Fields -> Nat]]

Cell(L, k, f) == {i \in 1..Len(L) : Place(L, i) = k /\ Says(L, i, f)}

Counts(L, rows) ==
    rows \in Rows /\ \A k \in RowKey, f \in Fields : rows[k][f] = Cardinality(Cell(L, k, f))

LEMMA CountedIs ==
    ASSUME NEW rows \in Rows, NEW key, NEW fields
    PROVE  /\ Counted(rows, key, fields) \in Rows
           /\ \A k \in RowKey, f \in Fields : Counted(rows, key, fields)[k][f] =
                 IF k = key /\ f \in fields THEN rows[k][f] + 1 ELSE rows[k][f]
<1>1. Counted(rows, key, fields) = [k \in RowKey |->
         IF k = key THEN [f \in Fields |-> IF f \in fields THEN rows[k][f] + 1 ELSE rows[k][f]]
         ELSE rows[k]]
  BY DEF Counted, Rows
<1>2. \A k \in RowKey, f \in Fields : rows[k][f] \in Nat /\ rows[k] \in [Fields -> Nat]
  BY DEF Rows
<1>3. QED
  BY <1>1, <1>2 DEF Rows

LEMMA UncountedIs ==
    ASSUME NEW rows \in Rows, NEW key, NEW fields
    PROVE  /\ Uncounted(rows, key, fields) \in Rows
           /\ \A k \in RowKey, f \in Fields : Uncounted(rows, key, fields)[k][f] =
                 IF k = key /\ f \in fields /\ rows[k][f] > 0 THEN rows[k][f] - 1 ELSE rows[k][f]
<1>1. Uncounted(rows, key, fields) = [k \in RowKey |->
         IF k = key THEN [f \in Fields |-> IF f \in fields /\ rows[k][f] > 0
                                           THEN rows[k][f] - 1 ELSE rows[k][f]]
         ELSE rows[k]]
  BY DEF Uncounted, Rows
<1>2. \A k \in RowKey, f \in Fields : rows[k][f] \in Nat /\ rows[k] \in [Fields -> Nat]
  BY DEF Rows
<1>3. QED
  BY <1>1, <1>2 DEF Rows

LEMMA CellFinite ==
    ASSUME NEW L, Chained(L), NEW k, NEW f
    PROVE  IsFiniteSet(Cell(L, k, f)) /\ Cardinality(Cell(L, k, f)) \in Nat
<1> DEFINE C == Cell(L, k, f)
<1>1. C \in SUBSET (1..Len(L)) /\ 1 \in Int /\ Len(L) \in Int
  BY DEF Cell, Chained
<1> HIDE DEF C
<1>2. IsFiniteSet(C) /\ Cardinality(C) \in Nat
  BY <1>1, IntervalFinite
<1>3. QED
  BY <1>2 DEF C

\* A new event counts in its own cell, and what is old stays.
LEMMA CellsGrow ==
    ASSUME NEW L, Chained(L), NEW e \in Events, NEW M, M = Append(L, e), Chained(M),
           \A i \in 1..Len(L) : Place(M, i) = Place(L, i),
           \A i \in 1..Len(L), f \in Fields : Says(M, i, f) <=> Says(L, i, f),
           NEW key, key = Place(M, Len(M)),
           NEW fields, \A f \in Fields : Says(M, Len(M), f) <=> f \in fields,
           NEW rows, Counts(L, rows)
    PROVE  Counts(M, Counted(rows, key, fields))
<1> DEFINE x == Len(M)
<1>1. Len(L) \in Nat /\ x = Len(L) + 1
  BY Longer
<1>2. /\ \A i \in 1..x : i \in 1..Len(L) \/ i = x
      /\ \A i \in 1..Len(L) : i \in 1..x /\ i # x
      /\ x \in 1..x
  BY <1>1
<1> HIDE DEF x
<1>3. rows \in Rows
  BY DEF Counts
<1>4. Counted(rows, key, fields) \in Rows
  BY <1>3, CountedIs
<1>5. ASSUME NEW k \in RowKey, NEW f \in Fields
      PROVE  Counted(rows, key, fields)[k][f] = Cardinality(Cell(M, k, f))
  <2>1. Counted(rows, key, fields)[k][f] =
           IF k = key /\ f \in fields THEN rows[k][f] + 1 ELSE rows[k][f]
    BY <1>3, CountedIs
  <2>2. rows[k][f] = Cardinality(Cell(L, k, f)) /\ IsFiniteSet(Cell(L, k, f))
    BY CellFinite DEF Counts
  <2>3. \A i \in 1..Len(L) : i \in Cell(M, k, f) <=> i \in Cell(L, k, f)
    BY <1>2 DEF Cell, x
  <2>4. x \in Cell(M, k, f) <=> k = key /\ f \in fields
    BY <1>2 DEF Cell, x
  <2>5. Cell(M, k, f) \subseteq 1..x /\ Cell(L, k, f) \subseteq 1..Len(L)
    BY DEF Cell, x
  <2>6. x \notin Cell(L, k, f)
    BY <1>2, <2>5
  <2>7. CASE k = key /\ f \in fields
    <3>1. Cell(M, k, f) = Cell(L, k, f) \cup {x}
      BY <1>2, <2>3, <2>4, <2>5, <2>7
    <3>2. Cardinality(Cell(L, k, f) \cup {x}) = Cardinality(Cell(L, k, f)) + 1
      BY <2>2, <2>6, FS_AddElement
    <3>3. QED
      BY <2>1, <2>2, <2>7, <3>1, <3>2
  <2>8. CASE ~(k = key /\ f \in fields)
    <3>1. Cell(M, k, f) = Cell(L, k, f)
      BY <1>2, <2>3, <2>4, <2>5, <2>8
    <3>2. QED
      BY <2>1, <2>2, <2>8, <3>1
  <2>9. QED
    BY <2>7, <2>8
<1>6. QED
  BY <1>4, <1>5 DEF Counts

\* An answered stream moves from one cell to another, where its answer joins it.
LEMMA CellsMove ==
    ASSUME NEW L, Chained(L), NEW e \in Events, NEW M, M = Append(L, e), Chained(M),
           NEW r \in 1..Len(L),
           \A i \in 1..Len(L) : i # r => Place(M, i) = Place(L, i),
           \A i \in 1..Len(L), f \in Fields : i # r => (Says(M, i, f) <=> Says(L, i, f)),
           NEW from, from = Place(L, r),
           NEW to, to = Place(M, r), to = Place(M, Len(M)), from # to,
           NEW out, \A f \in Fields : Says(L, r, f) <=> f \in out,
           NEW req, \A f \in Fields : Says(M, r, f) <=> f \in req,
           NEW got, \A f \in Fields : Says(M, Len(M), f) <=> f \in got, req \cap got = {},
           NEW rows, Counts(L, rows)
    PROVE  Counts(M, Counted(Uncounted(rows, from, out), to, req \cup got))
<1> DEFINE x == Len(M)
           less == Uncounted(rows, from, out)
<1>1. Len(L) \in Nat /\ x = Len(L) + 1
  BY Longer
<1>2. /\ \A i \in 1..x : i \in 1..Len(L) \/ i = x
      /\ \A i \in 1..Len(L) : i \in 1..x /\ i # x
      /\ x \in 1..x
  BY <1>1
<1> HIDE DEF x, less
<1>3. rows \in Rows
  BY DEF Counts
<1>4. less \in Rows
  BY <1>3, UncountedIs DEF less
<1>5. Counted(less, to, req \cup got) \in Rows
  BY <1>4, CountedIs
<1>6. ASSUME NEW k \in RowKey, NEW f \in Fields
      PROVE  Counted(less, to, req \cup got)[k][f] = Cardinality(Cell(M, k, f))
  <2>1. Counted(less, to, req \cup got)[k][f] =
           IF k = to /\ f \in req \cup got THEN less[k][f] + 1 ELSE less[k][f]
    BY <1>4, CountedIs
  <2>2. less[k][f] = IF k = from /\ f \in out /\ rows[k][f] > 0
                     THEN rows[k][f] - 1 ELSE rows[k][f]
    BY <1>3, UncountedIs DEF less
  <2>3. /\ rows[k][f] = Cardinality(Cell(L, k, f)) /\ IsFiniteSet(Cell(L, k, f))
        /\ Cardinality(Cell(L, k, f)) \in Nat
    BY CellFinite DEF Counts
  <2>4. \A i \in 1..Len(L) : i # r => (i \in Cell(M, k, f) <=> i \in Cell(L, k, f))
    BY <1>2 DEF Cell, x
  <2>5. /\ x \in Cell(M, k, f) <=> k = to /\ f \in got
        /\ r \in Cell(M, k, f) <=> k = to /\ f \in req
        /\ r \in Cell(L, k, f) <=> k = from /\ f \in out
    BY <1>2 DEF Cell, x
  <2>6. Cell(M, k, f) \subseteq 1..x /\ Cell(L, k, f) \subseteq 1..Len(L)
    BY DEF Cell, x
  <2>7. x \notin Cell(L, k, f) /\ r # x
    BY <1>2, <2>6
  <2>8. CASE k = from
    <3>0. x \notin Cell(M, k, f) /\ r \notin Cell(M, k, f)
      BY <2>5, <2>8
    <3>1. Cell(M, k, f) = Cell(L, k, f) \ {r}
      BY <1>2, <2>4, <2>6, <3>0
    <3>2. CASE f \in out
      <4>1. Cardinality(Cell(L, k, f) \ {r}) = Cardinality(Cell(L, k, f)) - 1
        BY <2>3, <2>5, <2>8, <3>2, FS_RemoveElement
      <4>2. Cardinality(Cell(L, k, f)) > 0
        BY <2>3, <2>5, <2>8, <3>2, FS_EmptySet
      <4>3. QED
        BY <2>1, <2>2, <2>3, <2>8, <3>1, <3>2, <4>1, <4>2
    <3>3. CASE f \notin out
      <4>1. Cell(L, k, f) \ {r} = Cell(L, k, f)
        BY <2>5, <3>3
      <4>2. QED
        BY <2>1, <2>2, <2>3, <2>8, <3>1, <3>3, <4>1
    <3>4. QED
      BY <3>2, <3>3
  <2>9. CASE k = to
    <3>0. r \notin Cell(L, k, f) /\ k # from
      BY <2>5, <2>9
    <3>1. CASE f \in req
      <4>1. x \notin Cell(M, k, f) /\ r \in Cell(M, k, f)
        BY <2>5, <2>9, <3>1
      <4>2. Cell(M, k, f) = Cell(L, k, f) \cup {r}
        BY <1>2, <2>4, <2>6, <4>1
      <4>3. Cardinality(Cell(L, k, f) \cup {r}) = Cardinality(Cell(L, k, f)) + 1
        BY <2>3, <3>0, FS_AddElement
      <4>4. QED
        BY <2>1, <2>2, <2>3, <2>9, <3>0, <3>1, <4>2, <4>3
    <3>2. CASE f \in got
      <4>1. x \in Cell(M, k, f) /\ r \notin Cell(M, k, f)
        BY <2>5, <2>9, <3>2
      <4>2. Cell(M, k, f) = Cell(L, k, f) \cup {x}
        BY <1>2, <2>4, <2>6, <3>0, <4>1
      <4>3. Cardinality(Cell(L, k, f) \cup {x}) = Cardinality(Cell(L, k, f)) + 1
        BY <2>3, <2>7, FS_AddElement
      <4>4. QED
        BY <2>1, <2>2, <2>3, <2>9, <3>0, <3>2, <4>2, <4>3
    <3>3. CASE f \notin req \cup got
      <4>1. x \notin Cell(M, k, f) /\ r \notin Cell(M, k, f)
        BY <2>5, <3>3
      <4>2. Cell(M, k, f) = Cell(L, k, f)
        <5>1. \A i : i \in Cell(M, k, f) => i \in Cell(L, k, f)
          BY <1>2, <2>4, <2>6, <4>1
        <5>2. \A i : i \in Cell(L, k, f) => i \in Cell(M, k, f)
          BY <2>4, <2>6, <3>0
        <5>3. QED
          BY <5>1, <5>2
      <4>3. QED
        BY <2>1, <2>2, <2>3, <3>0, <3>3, <4>2
    <3>4. QED
      BY <3>1, <3>2, <3>3
  <2>10. CASE k # from /\ k # to
    <3>1. x \notin Cell(M, k, f) /\ r \notin Cell(M, k, f) /\ r \notin Cell(L, k, f)
      BY <2>5, <2>10
    <3>2. Cell(M, k, f) = Cell(L, k, f)
      <4>1. \A i : i \in Cell(M, k, f) => i \in Cell(L, k, f)
        BY <1>2, <2>4, <2>6, <3>1
      <4>2. \A i : i \in Cell(L, k, f) => i \in Cell(M, k, f)
        BY <2>4, <2>6, <3>1
      <4>3. QED
        BY <4>1, <4>2
    <3>3. QED
      BY <2>1, <2>2, <2>3, <2>10, <3>2
  <2>11. QED
    BY <2>8, <2>9, <2>10
<1>7. QED
  BY <1>5, <1>6 DEF Counts, less

-----------------------------------------------------------------------------
(***************************************************************************)
(* One event is taken in.                                                  *)
(***************************************************************************)
LEMMA AnsweringLonger ==
    ASSUME NEW L, Chained(L), NEW e \in Events, NEW M, M = Append(L, e), Chained(M)
    PROVE  /\ \A i \in 1..Len(L) : Answering(M, i) = Answering(L, i)
           /\ Answering(M, Len(M)) = \E r \in Waiting(L) : Hits(e, r)
<1> DEFINE n == Len(L)
           x == Len(M)
<1>1. n \in Nat /\ x = n + 1
  BY Longer
<1>2. /\ \A h, j \in 1..n : Answered(M, h, j) <=> Answered(L, h, j)
      /\ \A j \in 1..x : ~Answered(M, x, j)
      /\ \A h \in 1..n : Answered(M, h, x) <=> h \in Waiting(L) /\ Hits(e, h)
  BY AnsweredLonger
<1>3. Waiting(L) \in SUBSET (1..n)
  BY WaitingFew
<1>4. /\ \A i \in 1..x : i \in 1..n \/ i = x
      /\ \A i \in 1..n : i \in 1..x
      /\ x \in 1..x
  BY <1>1
<1> HIDE DEF n, x
<1>5. \A i \in 1..n : Answering(M, i) <=> Answering(L, i)
  BY <1>2, <1>4 DEF Answering, n, x
<1>6. Answering(M, x) <=> \E r \in Waiting(L) : Hits(e, r)
  BY <1>2, <1>3, <1>4 DEF Answering, x
<1>7. \A i : Answering(M, i) \in BOOLEAN /\ Answering(L, i) \in BOOLEAN
  BY DEF Answering
<1>8. QED
  BY <1>5, <1>6, <1>7 DEF n, x

\* What the new event does not answer stays as it was.
LEMMA OldStays ==
    ASSUME NEW L, Chained(L), NEW e \in Events, NEW M, M = Append(L, e), Chained(M),
           NEW i \in 1..Len(L), ~(i \in Waiting(L) /\ Hits(e, i)), NEW f
    PROVE  Place(M, i) = Place(L, i) /\ (Says(M, i, f) <=> Says(L, i, f))
<1>1. Place(M, i) = Place(L, i)
  BY PlaceLonger
<1>2. M[i] = L[i] /\ Answering(M, i) = Answering(L, i)
  <2>1. M[i] = L[i]
    BY Longer
  <2>2. Answering(M, i) = Answering(L, i)
    BY AnsweringLonger
  <2>3. QED
    BY <2>1, <2>2
<1>3. /\ Says(M, i, f) = SaysOf(M[i], f, Place(M, i)[2] = NoModel, Answering(M, i))
      /\ Says(L, i, f) = SaysOf(L[i], f, Place(L, i)[2] = NoModel, Answering(L, i))
  BY SaysIs
<1>4. QED
  BY <1>1, <1>2, <1>3

\* The stream that the new event answers.
LEMMA Moved ==
    ASSUME NEW L, Chained(L), NEW e \in Events, NEW M, M = Append(L, e), Chained(M),
           NEW r \in Waiting(L), Hits(e, r)
    PROVE  /\ r \in 1..Len(L) /\ Streamed(L[r]) /\ L[r] \in Events
           /\ \A i \in Waiting(L) : Hits(e, i) => i = r
           /\ Place(L, r) = <<L[r].hour, NoModel>>
           /\ Place(M, r) = <<L[r].hour, e.model>>
           /\ Place(M, Len(M)) = <<L[r].hour, e.model>>
<1>1. r \in 1..Len(L) /\ Outstanding(L, r, Len(L)) /\ Waiting(L) \in SUBSET (1..Len(L))
  BY DEF Waiting
<1>2. Streamed(L[r]) /\ L[r] \in Events /\ Len(L) \in Nat
  BY <1>1, Longer DEF Outstanding
<1>3. \A i \in Waiting(L) : Hits(e, i) => i = r
  BY <1>1, <1>2 DEF Hits
<1>4. \A j \in 1..Len(L) : ~Answered(L, r, j) /\ ~Answered(L, j, r)
  <2>1. \A j \in 1..Len(L) : ~Answered(L, r, j)
    BY <1>1, <1>2 DEF Outstanding, Answered
  <2>2. L[r].action # "usage"
    BY <1>2 DEF Streamed
  <2>3. QED
    BY <1>1, <2>1, <2>2, AnsweredOnce
<1>5. Place(L, r) = OwnPlace(L[r])
  BY <1>1, <1>4, PlaceIs
<1>6. OwnPlace(L[r]) = <<L[r].hour, NoModel>>
  BY <1>2 DEF OwnPlace, Streamed
<1>7. Place(M, r) = <<L[r].hour, e.model>>
  BY <1>1, PlaceLonger
<1>8. Place(M, Len(M)) = <<L[r].hour, e.model>>
  BY PlaceOfNew
<1>9. QED
  BY <1>1, <1>2, <1>3, <1>5, <1>6, <1>7, <1>8

\* An event that answers nothing.
LEMMA CountsOwn ==
    ASSUME NEW L, Chained(L), NEW e \in Events, NEW M, M = Append(L, e), Chained(M),
           \A r \in Waiting(L) : ~Hits(e, r), NEW rows, Counts(L, rows)
    PROVE  Counts(M, Counted(rows, OwnPlace(e), own_fields(e)))
<1>1. \A i \in 1..Len(L) : Place(M, i) = Place(L, i)
  BY OldStays
<1>2. \A i \in 1..Len(L), f \in Fields : Says(M, i, f) <=> Says(L, i, f)
  BY OldStays
<1>3. OwnPlace(e) = Place(M, Len(M))
  BY PlaceOfNew
<1>4. M[Len(M)] = e /\ Answering(M, Len(M)) = FALSE
  <2>1. M[Len(M)] = e
    BY Longer
  <2>2. Answering(M, Len(M)) = FALSE
    BY AnsweringLonger
  <2>3. QED
    BY <2>1, <2>2
<1>5. \A f \in Fields : Says(M, Len(M), f) <=> f \in own_fields(e)
  <2> SUFFICES ASSUME NEW f \in Fields
               PROVE  Says(M, Len(M), f) <=> f \in own_fields(e)
    OBVIOUS
  <2>1. Says(M, Len(M), f) = SaysOf(e, f, OwnPlace(e)[2] = NoModel, FALSE)
    <3>1. Says(M, Len(M), f) = SaysOf(M[Len(M)], f, Place(M, Len(M))[2] = NoModel,
                                      Answering(M, Len(M)))
      BY SaysIs
    <3>2. QED
      BY <1>3, <1>4, <3>1
  <2>2. QED
    BY <2>1, SaysOwn
<1>6. QED
  BY <1>1, <1>2, <1>3, <1>5, CellsGrow

\* A usage event that answers a stream.
answer(rows, hour, warn, model) ==
    LET from == <<hour, NoModel>>
        to   == <<hour, model>>
        req  == {"requests", "bytes_up"} \cup {Outcome(warn)}
    IN  IF model # NoModel
        THEN Counted(Uncounted(rows, from, req \cup {"no_usage"}), to,
                     req \cup {"tokens", "bytes_down", "dur"})
        ELSE Counted(rows, from, {"bytes_down", "dur"})

LEMMA CountsAnswer ==
    ASSUME NEW L, Chained(L), NEW e \in Events, NEW M, M = Append(L, e), Chained(M),
           NEW r \in Waiting(L), Hits(e, r), NEW rows, Counts(L, rows)
    PROVE  Counts(M, answer(rows, L[r].hour, L[r].action = "warn", e.model))
<1> DEFINE x == Len(M)
           from == <<L[r].hour, NoModel>>
           to == <<L[r].hour, e.model>>
           req == {"requests", "bytes_up"} \cup {Outcome(L[r].action = "warn")}
<1>1. /\ r \in 1..Len(L) /\ Streamed(L[r]) /\ L[r] \in Events
      /\ \A i \in Waiting(L) : Hits(e, i) => i = r
      /\ Place(L, r) = from /\ Place(M, r) = to /\ Place(M, x) = to
  BY Moved
<1>2. \A i \in 1..Len(L), f \in Fields :
         i # r => Place(M, i) = Place(L, i) /\ (Says(M, i, f) <=> Says(L, i, f))
  BY <1>1, OldStays
<1>3. M[x] = e /\ Answering(M, x) = TRUE /\ M[r] = L[r] /\ e.action = "usage"
  <2>1. M[Len(M)] = e /\ M[r] = L[r]
    BY <1>1, Longer
  <2>2. Answering(M, Len(M)) = TRUE
    BY AnsweringLonger
  <2>3. QED
    BY <2>1, <2>2 DEF Hits
<1>4. from[2] = NoModel /\ to[2] = e.model
  OBVIOUS
<1> HIDE DEF x, from, to, req
<1>5. ASSUME NEW f \in Fields
      PROVE  /\ Says(L, r, f) <=> f \in req \cup {"no_usage"}
             /\ Says(M, r, f) <=> f \in req \cup (IF e.model = NoModel THEN {"no_usage"} ELSE {})
             /\ Says(M, x, f) <=> f \in usage_fields(e) \cup {"dur"}
  <2>1. /\ Says(L, r, f) = SaysOf(L[r], f, TRUE, Answering(L, r))
        /\ Says(M, r, f) = SaysOf(L[r], f, e.model = NoModel, Answering(M, r))
        /\ Says(M, x, f) = SaysOf(e, f, e.model = NoModel, TRUE)
    <3>1. /\ Says(L, r, f) = SaysOf(L[r], f, Place(L, r)[2] = NoModel, Answering(L, r))
          /\ Says(M, r, f) = SaysOf(M[r], f, Place(M, r)[2] = NoModel, Answering(M, r))
          /\ Says(M, x, f) = SaysOf(M[x], f, Place(M, x)[2] = NoModel, Answering(M, x))
      BY SaysIs
    <3>2. QED
      BY <1>1, <1>3, <1>4, <3>1
  <2>2. SaysOf(e, f, e.model = NoModel, TRUE) <=> f \in usage_fields(e) \cup {"dur"}
    BY <1>3, SaysOfUsage
  <2>3. \A ans : SaysOf(L[r], f, TRUE, ans) <=> f \in req \cup {"no_usage"}
    BY <1>1, SaysOfStream DEF req
  <2>4. \A ans : SaysOf(L[r], f, FALSE, ans) <=> f \in req
    BY <1>1, SaysOfStream DEF req
  <2>5. CASE e.model = NoModel
    BY <2>1, <2>2, <2>3, <2>5
  <2>6. CASE e.model # NoModel
    BY <2>1, <2>2, <2>3, <2>4, <2>6
  <2>7. QED
    BY <2>5, <2>6
<1>6. ASSUME e.model = NoModel
      PROVE  Counts(M, Counted(rows, from, {"bytes_down", "dur"}))
  <2>1. from = to /\ usage_fields(e) \cup {"dur"} = {"bytes_down", "dur"}
    BY <1>6 DEF usage_fields, from, to
  <2>2. \A i \in 1..Len(L) : Place(M, i) = Place(L, i)
    BY <1>1, <1>2, <2>1 DEF Fields
  <2>3. \A i \in 1..Len(L), f \in Fields : Says(M, i, f) <=> Says(L, i, f)
    BY <1>1, <1>2, <1>5, <1>6
  <2>4. \A f \in Fields : Says(M, Len(M), f) <=> f \in {"bytes_down", "dur"}
    BY <1>5, <2>1 DEF x
  <2>5. from = Place(M, Len(M))
    BY <1>1, <2>1 DEF x
  <2>6. QED
    BY <2>2, <2>3, <2>4, <2>5, CellsGrow
<1>7. ASSUME e.model # NoModel
      PROVE  Counts(M, Counted(Uncounted(rows, from, req \cup {"no_usage"}), to,
                               req \cup {"tokens", "bytes_down", "dur"}))
  <2> DEFINE out == req \cup {"no_usage"}
             got == {"tokens", "bytes_down", "dur"}
  <2>1. from # to /\ usage_fields(e) \cup {"dur"} = got
    BY <1>7 DEF usage_fields, from, to
  <2>2. req \cap got = {}
    BY DEF Outcome, req
  <2>3. \A f \in Fields : Says(L, r, f) <=> f \in out
    BY <1>5
  <2>4. \A f \in Fields : Says(M, r, f) <=> f \in req
    BY <1>5, <1>7
  <2>5. \A f \in Fields : Says(M, Len(M), f) <=> f \in got
    BY <1>5, <2>1 DEF x
  <2>6. to = Place(M, Len(M)) /\ to = Place(M, r) /\ from = Place(L, r)
    BY <1>1 DEF x
  <2> HIDE DEF out, got
  <2>7. \A i \in 1..Len(L) : i # r => Place(M, i) = Place(L, i)
    BY <1>2 DEF Fields
  <2>8. \A i \in 1..Len(L), f \in Fields : i # r => (Says(M, i, f) <=> Says(L, i, f))
    BY <1>2
  <2>9. Counts(M, Counted(Uncounted(rows, from, out), to, req \cup got))
    BY <1>1, <2>1, <2>2, <2>3, <2>4, <2>5, <2>6, <2>7, <2>8, CellsMove
  <2>10. QED
    BY <2>9 DEF out, got
<1>8. QED
  BY <1>6, <1>7 DEF answer, from, to, req

-----------------------------------------------------------------------------
(***************************************************************************)
(* Aggregates.                                                             *)
(***************************************************************************)
Pendings == [seq : Nat, hour : 1..Hours, warn : BOOLEAN]

Aggs == [offset : Nat, last_seq : Nat \cup {NoSeq}, last_hash : Seq(Events),
         integrity : {"ok", "broken", "unparseable"}, rows : Rows,
         pending : SUBSET Pendings]

\* Rows and pending streams are all that an event changes.
LEMMA ApplyIs ==
    ASSUME NEW g \in Aggs, NEW ev \in Events
    PROVE  /\ apply(g, ev) \in Aggs
           /\ apply(g, ev).offset = g.offset /\ apply(g, ev).last_seq = g.last_seq
           /\ apply(g, ev).last_hash = g.last_hash /\ apply(g, ev).integrity = g.integrity
<1> DEFINE Same(a) == /\ a \in Aggs /\ a.offset = g.offset /\ a.last_seq = g.last_seq
                      /\ a.last_hash = g.last_hash /\ a.integrity = g.integrity
<1>1. g.rows \in Rows /\ g.pending \in SUBSET Pendings
  BY DEF Aggs
<1>2. ASSUME NEW rows \in Rows, NEW pending \in SUBSET Pendings
      PROVE  Same([g EXCEPT !.rows = rows, !.pending = pending])
  BY DEF Aggs
<1>3. ASSUME NEW rows \in Rows
      PROVE  Same([g EXCEPT !.rows = rows])
  BY DEF Aggs
<1>4. Same(g)
  BY DEF Aggs
<1>5. CASE ev.action \in {"allow", "warn"}
  <2>1. ev.seq \in Nat /\ ev.hour \in 1..Hours
    BY DEF Events
  <2>2. Remember(g.pending, ev) \in SUBSET Pendings
    <3>1. [seq |-> ev.seq, hour |-> ev.hour, warn |-> ev.action = "warn"] \in Pendings
      BY <2>1 DEF Pendings
    <3>2. QED
      BY <1>1, <3>1 DEF Remember
  <2>3. PICK rows \in Rows, pending \in SUBSET Pendings :
           apply_request(g, ev) = [g EXCEPT !.rows = rows, !.pending = pending]
    <3> DEFINE pending == IF ev.model = NoModel /\ ~ev.dur
                          THEN Remember(g.pending, ev) ELSE g.pending
    <3>1. pending \in SUBSET Pendings
      BY <1>1, <2>2
    <3>2. apply_request(g, ev) =
            [g EXCEPT !.rows = Counted(g.rows, <<ev.hour, ev.model>>, request_fields(ev)),
                      !.pending = pending]
      BY DEF apply_request, request_fields, Aggs
    <3>3. Counted(g.rows, <<ev.hour, ev.model>>, request_fields(ev)) \in Rows
      BY <1>1, CountedIs
    <3>4. QED
      BY <3>1, <3>2, <3>3
  <2>4. apply(g, ev) = apply_request(g, ev)
    BY <1>5 DEF apply
  <2> HIDE DEF Same
  <2>5. Same(apply(g, ev))
    BY <1>2, <2>3, <2>4
  <2>6. QED
    BY <2>5 DEF Same
<1>6. CASE ev.action = "usage"
  <2> DEFINE base == {p \in g.pending : p.seq = ev.ref}
  <2>1. PICK rows \in Rows :
           apply_usage(g, ev) = [g EXCEPT !.pending = g.pending \ base, !.rows = rows]
    <3> DEFINE p == CHOOSE b \in base : TRUE
               from == <<p.hour, NoModel>>
               to   == <<p.hour, ev.model>>
               req  == {"requests", "bytes_up"} \cup {Outcome(p.warn)}
               both == Counted(Uncounted(g.rows, from, req \cup {"no_usage"}), to,
                               req \cup {"tokens", "bytes_down", "dur"})
               none == Counted(g.rows, from, {"bytes_down", "dur"})
               rows == IF base # {} THEN IF ev.model # NoModel THEN both ELSE none
                       ELSE Counted(g.rows, <<ev.hour, ev.model>>, usage_fields(ev))
    <3>1. apply_usage(g, ev) = [g EXCEPT !.pending = g.pending \ base, !.rows = rows]
      BY DEF apply_usage, usage_fields, Aggs
    <3>2. both \in Rows
      <4> HIDE DEF from, to, req
      <4>1. Uncounted(g.rows, from, req \cup {"no_usage"}) \in Rows
        BY <1>1, UncountedIs
      <4>2. QED
        BY <4>1, CountedIs
    <3>3. none \in Rows /\ Counted(g.rows, <<ev.hour, ev.model>>, usage_fields(ev)) \in Rows
      BY <1>1, CountedIs
    <3>4. rows \in Rows
      <4> HIDE DEF both, none, base
      <4>1. QED
        BY <3>2, <3>3
    <3>5. QED
      BY <3>1, <3>4
  <2>2. [g EXCEPT !.pending = g.pending \ base, !.rows = rows] =
        [g EXCEPT !.rows = rows, !.pending = g.pending \ base]
    BY DEF Aggs
  <2>3. apply(g, ev) = apply_usage(g, ev)
    BY <1>6 DEF apply
  <2>4. g.pending \ base \in SUBSET Pendings
    BY <1>1
  <2> HIDE DEF Same, base
  <2>5. Same(apply(g, ev))
    BY <1>2, <2>1, <2>2, <2>3, <2>4
  <2>6. QED
    BY <2>5 DEF Same
<1>7. CASE ev.action \in {"deny", "alert", "tamper", "policy"}
  <2>1. apply(g, ev) = [g EXCEPT !.rows = Counted(g.rows, <<ev.hour, NoModel>>, own_fields(ev))]
    <3>1. CASE ev.action = "deny"
      BY <3>1 DEF apply, own_fields, Aggs
    <3>2. CASE ev.action = "alert"
      BY <3>2 DEF apply, own_fields, Aggs
    <3>3. CASE ev.action = "tamper"
      BY <3>3 DEF apply, own_fields, Aggs
    <3>4. CASE ev.action = "policy"
      BY <3>4 DEF apply, own_fields, Aggs
    <3>5. QED
      BY <1>7, <3>1, <3>2, <3>3, <3>4
  <2>2. Counted(g.rows, <<ev.hour, NoModel>>, own_fields(ev)) \in Rows
    BY <1>1, CountedIs
  <2>3. Same(apply(g, ev))
    BY <1>3, <2>1, <2>2
  <2>4. QED
    BY <2>3
<1>8. CASE ev.action \notin {"allow", "warn", "usage", "deny", "alert", "tamper", "policy"}
  <2>1. apply(g, ev) = g
    BY <1>8 DEF apply
  <2>2. QED
    BY <1>4, <2>1
<1>9. QED
  BY <1>5, <1>6, <1>7, <1>8

\* What an aggregate of a log becomes is one of the longer log.
LEMMA ApplyCounts ==
    ASSUME NEW L, Chained(L), NEW e \in Events, NEW M, M = Append(L, e), Chained(M),
           NEW g \in Aggs, Counts(L, g.rows), g.pending = Pend(L)
    PROVE  Counts(M, apply(g, e).rows) /\ apply(g, e).pending = Pend(M)
<1>1. e.action # "usage" => \A r \in Waiting(L) : ~Hits(e, r)
  BY DEF Hits
<1>2. (\A r \in Waiting(L) : ~Hits(e, r)) =>
         Counts(M, Counted(g.rows, OwnPlace(e), own_fields(e)))
  BY CountsOwn
<1>3. CASE e.action \in {"allow", "warn"}
  <2>1. OwnPlace(e) = <<e.hour, e.model>> /\ own_fields(e) = request_fields(e)
    BY <1>3 DEF OwnPlace, own_fields
  <2>2. apply(g, e) = apply_request(g, e)
    BY <1>3 DEF apply
  <2>3. apply_request(g, e).rows = Counted(g.rows, <<e.hour, e.model>>, request_fields(e))
    BY DEF apply_request, request_fields, Aggs
  <2>4. apply_request(g, e).pending = IF Streamed(e) THEN Remember(Pend(L), e) ELSE Pend(L)
    BY <1>3 DEF apply_request, Streamed, Aggs
  <2>5. Streamed(e) => Remember(Pend(L), e) = Pend(M)
    BY RememberIs
  <2>6. ~Streamed(e) => Pend(M) = Pend(L)
    BY <1>3, PendLonger
  <2>7. QED
    BY <1>1, <1>2, <1>3, <2>1, <2>2, <2>3, <2>4, <2>5, <2>6
<1>4. CASE e.action \in {"deny", "alert", "tamper", "policy"}
  <2>1. OwnPlace(e) = <<e.hour, NoModel>>
    BY <1>4 DEF OwnPlace
  <2>2. apply(g, e) = [g EXCEPT !.rows = Counted(g.rows, <<e.hour, NoModel>>, own_fields(e))]
    <3>1. CASE e.action = "deny"
      BY <3>1 DEF apply, own_fields, Aggs
    <3>2. CASE e.action = "alert"
      BY <3>2 DEF apply, own_fields, Aggs
    <3>3. CASE e.action = "tamper"
      BY <3>3 DEF apply, own_fields, Aggs
    <3>4. CASE e.action = "policy"
      BY <3>4 DEF apply, own_fields, Aggs
    <3>5. QED
      BY <1>4, <3>1, <3>2, <3>3, <3>4
  <2>3. /\ apply(g, e).rows = Counted(g.rows, <<e.hour, NoModel>>, own_fields(e))
        /\ apply(g, e).pending = Pend(L)
    BY <2>2 DEF Aggs
  <2>4. Pend(M) = Pend(L)
    BY <1>4, PendLonger DEF Streamed
  <2>5. QED
    BY <1>1, <1>2, <1>4, <2>1, <2>3, <2>4
<1>5. CASE e.action \notin {"allow", "warn", "usage", "deny", "alert", "tamper", "policy"}
  <2>1. apply(g, e) = g
    BY <1>5 DEF apply
  <2>2. Pend(M) = Pend(L)
    BY <1>5, PendLonger DEF Streamed
  <2>3. own_fields(e) = {}
    BY <1>5 DEF own_fields
  <2>4. Counts(M, Counted(g.rows, OwnPlace(e), {}))
    BY <1>1, <1>2, <1>5, <2>3
  <2>5. g.rows \in Rows
    BY DEF Aggs
  <2>6. \A k \in RowKey, f \in Fields : Counted(g.rows, OwnPlace(e), {})[k][f] = g.rows[k][f]
    BY <2>5, CountedIs
  <2>7. Counts(M, g.rows)
    BY <2>4, <2>5, <2>6 DEF Counts
  <2>8. QED
    BY <2>1, <2>2, <2>7
<1>6. CASE e.action = "usage"
  <2> DEFINE base == {p \in g.pending : p.seq = e.ref}
  <2>1. apply(g, e) = apply_usage(g, e)
    BY <1>6 DEF apply
  <2>2. Pend(M) = Pend(L) \ base
    <3>1. ~Streamed(e)
      BY <1>6 DEF Streamed
    <3>2. Pend(M) = Pend(L) \ {p \in Pend(L) : p.seq = e.ref}
      BY <1>6, <3>1, PendLonger
    <3>3. QED
      BY <3>2
  <2>3. apply_usage(g, e).pending = Pend(L) \ base
    <3> HIDE DEF base
    <3>1. apply_usage(g, e).pending = g.pending \ base
      BY DEF apply_usage, Aggs, base
    <3>2. QED
      BY <3>1
  <2>4. \A r \in Waiting(L) : Memo(L, r).seq = r - 1 /\ Memo(L, r) \in Pend(L)
    BY DEF Memo, Pend, Memos
  <2>5. \A p \in Pend(L) : \E r \in Waiting(L) : p = Memo(L, r)
    BY DEF Pend, Memos
  <2>6. CASE \A r \in Waiting(L) : ~Hits(e, r)
    <3>1. base = {}
      BY <1>6, <2>4, <2>5, <2>6 DEF Hits
    <3>2. apply_usage(g, e).rows = Counted(g.rows, <<e.hour, e.model>>, usage_fields(e))
      BY <3>1 DEF apply_usage, usage_fields, Aggs
    <3>3. OwnPlace(e) = <<e.hour, e.model>> /\ own_fields(e) = usage_fields(e)
      BY <1>6 DEF OwnPlace, own_fields
    <3>4. QED
      BY <1>2, <2>1, <2>2, <2>3, <2>6, <3>2, <3>3
  <2>7. ASSUME NEW r \in Waiting(L), Hits(e, r)
        PROVE  Counts(M, apply_usage(g, e).rows)
    <3>1. \A i \in Waiting(L) : Hits(e, i) => i = r
      BY <2>7, Moved
    <3>2. base = {Memo(L, r)}
      <4>1. Memo(L, r) \in base
        BY <2>4, <2>7 DEF Hits
      <4>2. \A p \in base : p = Memo(L, r)
        <5> SUFFICES ASSUME NEW p \in base PROVE p = Memo(L, r)
          OBVIOUS
        <5>1. PICK i \in Waiting(L) : p = Memo(L, i)
          BY <2>5
        <5>2. Hits(e, i)
          BY <1>6, <2>4, <5>1 DEF Hits
        <5>3. QED
          BY <3>1, <5>1, <5>2
      <4>3. QED
        BY <4>1, <4>2
    <3> DEFINE p == CHOOSE b \in base : TRUE
    <3>3. p = Memo(L, r) /\ base # {}
      BY <3>2
    <3>4. apply_usage(g, e).rows =
             IF base # {} THEN answer(g.rows, p.hour, p.warn, e.model)
             ELSE Counted(g.rows, <<e.hour, e.model>>, usage_fields(e))
      BY DEF apply_usage, usage_fields, answer, Aggs
    <3>5. Memo(L, r).hour = L[r].hour /\ Memo(L, r).warn = (L[r].action = "warn")
      BY DEF Memo
    <3> HIDE DEF p, base
    <3>6. apply_usage(g, e).rows = answer(g.rows, L[r].hour, L[r].action = "warn", e.model)
      BY <3>3, <3>4, <3>5
    <3>7. QED
      BY <2>7, <3>6, CountsAnswer
  <2>8. QED
    BY <2>1, <2>2, <2>3, <2>6, <2>7
<1>7. QED
  BY <1>3, <1>4, <1>5, <1>6

-----------------------------------------------------------------------------
(***************************************************************************)
(* One line is read.                                                       *)
(***************************************************************************)
\* The first lines of a log.
LEMMA CutIs ==
    ASSUME NEW F, Chained(F), NEW i \in 0..Len(F)
    PROVE  /\ SubSeq(F, 1, i) \in Seq(Events) /\ Len(SubSeq(F, 1, i)) = i
           /\ \A j \in 1..i : SubSeq(F, 1, i)[j] = F[j]
           /\ \A j \in 0..i : End(SubSeq(F, 1, i), j) = End(F, j)
           /\ Chained(SubSeq(F, 1, i))
<1>1. Len(F) \in Nat /\ \A j \in 1..Len(F) : F[j] \in Events
  BY DEF Chained
<1> DEFINE L == SubSeq(F, 1, i)
<1>2. L \in Seq(Events) /\ Len(L) = i /\ \A j \in 1..i : L[j] = F[j]
  <2>1. i \in Int /\ 1 \in Int /\ \A j \in 1..i : F[j] \in Events
    BY <1>1
  <2>2. /\ L \in Seq(Events)
        /\ Len(L) = IF 1 <= i THEN i - 1 + 1 ELSE 0
        /\ \A j \in 1..(i - 1 + 1) : L[j] = F[1 + j - 1]
    BY <2>1, SubSeqProperties
  <2> HIDE DEF L
  <2>3. QED
    BY <1>1, <2>2
<1> HIDE DEF L
<1>3. \A j \in 0..i : End(L, j) = End(F, j)
  BY <1>1, <1>2 DEF End
<1>4. Chained(L)
  <2>1. \A j \in 1..Len(L) : L[j].seq = j - 1
    BY <1>1, <1>2 DEF Chained
  <2>2. ASSUME NEW h \in 0..Len(L), NEW j \in 0..Len(L), h < j
        PROVE  End(L, h) + 2 <= End(L, j)
    <3>1. h \in 0..i /\ j \in 0..i /\ h \in 0..Len(F) /\ j \in 0..Len(F)
      BY <1>1, <1>2
    <3>2. End(F, h) + 2 <= End(F, j)
      BY <2>2, <3>1 DEF Chained
    <3>3. QED
      BY <1>3, <3>1, <3>2
  <2>3. QED
    BY <1>2, <2>1, <2>2 DEF Chained
<1>5. QED
  BY <1>2, <1>3, <1>4 DEF L

LEMMA CutNext ==
    ASSUME NEW F, Chained(F), NEW i \in 1..Len(F)
    PROVE  Append(SubSeq(F, 1, i - 1), F[i]) = SubSeq(F, 1, i)
<1>1. Len(F) \in Nat /\ i - 1 \in 0..Len(F) /\ i \in 0..Len(F) /\ F[i] \in Events
  BY DEF Chained
<1> DEFINE L == SubSeq(F, 1, i - 1)
           M == SubSeq(F, 1, i)
<1>2. L \in Seq(Events) /\ Len(L) = i - 1 /\ \A j \in 1..(i - 1) : L[j] = F[j]
  BY <1>1, CutIs
<1>3. M \in Seq(Events) /\ Len(M) = i /\ \A j \in 1..i : M[j] = F[j]
  BY <1>1, CutIs
<1> HIDE DEF L, M
<1>4. Append(L, F[i]) \in Seq(Events) /\ Len(Append(L, F[i])) = i
      /\ \A j \in 1..i : Append(L, F[i])[j] = F[j]
  BY <1>1, <1>2
<1>5. Append(L, F[i]) = M
  BY <1>3, <1>4, SeqEqual
<1>6. QED
  BY <1>5 DEF L, M

\* The lines of a log are apart.
LEMMA EndsApart ==
    ASSUME NEW F, Chained(F), NEW i \in 0..Len(F), NEW j \in 0..Len(F)
    PROVE  /\ End(F, i) \in Nat /\ End(F, j) \in Nat
           /\ End(F, i) < End(F, j) <=> i < j
           /\ i < j => End(F, i) + 2 <= End(F, j)
<1>1. End(F, i) \in Nat /\ End(F, j) \in Nat
  BY EndType
<1>2. /\ i < j => End(F, i) + 2 <= End(F, j)
      /\ j < i => End(F, j) + 2 <= End(F, i)
  BY DEF Chained
<1>3. Len(F) \in Nat
  BY DEF Chained
<1>4. QED
  BY <1>1, <1>2, <1>3

\* An aggregate that raises no alarm is that of the log up to its last hash.
Tells(g) ==
    g.integrity = "ok" =>
       /\ Chained(g.last_hash)
       /\ g.offset = End(g.last_hash, Len(g.last_hash))
       /\ g.last_seq = IF g.last_hash = << >> THEN NoSeq ELSE Len(g.last_hash) - 1
       /\ Counts(g.last_hash, g.rows)
       /\ g.pending = Pend(g.last_hash)

LEMMA EmptyTells ==
    EmptyCache \in Aggs /\ Tells(EmptyCache) /\ Chained(<< >>)
<1> DEFINE L == << >>
           rows == [k \in RowKey |-> Bucket]
<1>1. Chained(L)
  BY DEF Chained
<1>2. rows \in Rows
  BY DEF Rows, Bucket
<1>3. EmptyCache \in Aggs
  BY <1>2 DEF Aggs, EmptyCache
<1>4. Counts(L, rows)
  <2>1. \A k \in RowKey, f \in Fields : rows[k][f] = 0
    BY DEF Bucket
  <2>2. \A k, f : Cell(L, k, f) = {}
    BY DEF Cell
  <2>3. QED
    BY <1>2, <2>1, <2>2, FS_EmptySet DEF Counts
<1>5. Pend(L) = {}
  BY DEF Pend, Memos, Waiting
<1>6. End(L, Len(L)) = 0
  BY DEF End
<1>7. QED
  BY <1>1, <1>3, <1>4, <1>5, <1>6 DEF Tells, EmptyCache

LEMMA FlagIs ==
    ASSUME NEW g \in Aggs, NEW d \in {"broken", "unparseable"}
    PROVE  flag(g, d) \in Aggs /\ flag(g, d).integrity # "ok"
<1>1. CASE g.integrity = "ok"
  BY <1>1 DEF flag, Aggs
<1>2. CASE g.integrity # "ok"
  BY <1>2 DEF flag
<1>3. QED
  BY <1>1, <1>2

LEMMA ReadTells ==
    ASSUME NEW F, Chained(F), NEW g \in Aggs, Tells(g), NEW i \in LinesAt(F, g.offset),
           NEW h, h = read_line(g, F, i)
    PROVE  /\ h \in Aggs /\ Tells(h) /\ i \in 1..Len(F)
           /\ h.integrity = "ok" => h.last_hash = SubSeq(F, 1, i) /\ h.offset = End(F, i)
           /\ g.integrity = "ok" /\ g.last_hash = SubSeq(F, 1, i - 1) => h.integrity = "ok"
<1>1. Len(F) \in Nat /\ i \in 1..Len(F) /\ i \in 0..Len(F) /\ i - 1 \in 0..Len(F)
      /\ F[i] \in Events /\ F[i].seq = i - 1
  BY DEF LinesAt, Chained
<1> DEFINE past == [g EXCEPT !.offset = End(F, i)]
           prev == SubSeq(F, 1, i - 1)
           linked == IF past.last_hash # prev THEN flag(past, "broken") ELSE past
           next == [linked EXCEPT !.last_hash = Append(prev, F[i]), !.last_seq = F[i].seq]
<1>2. End(F, i) \in Nat /\ End(F, i - 1) \in Nat
  BY <1>1, EndType
<1>3. /\ past \in Aggs /\ past.integrity = g.integrity /\ past.last_hash = g.last_hash
      /\ past.offset = End(F, i) /\ past.rows = g.rows /\ past.pending = g.pending
  BY <1>2 DEF Aggs
<1>4. g.integrity = "ok" /\ g.last_hash = prev => g.offset = Start(F, i)
  <2>1. Len(prev) = i - 1 /\ i - 1 \in 0..(i - 1) /\ \A j \in 0..(i - 1) : End(prev, j) = End(F, j)
    BY <1>1, CutIs
  <2>2. End(prev, i - 1) = End(F, i - 1)
    BY <2>1
  <2>3. QED
    BY <2>1, <2>2 DEF Tells, Start
<1>5. CASE g.offset # Start(F, i)
  <2>1. h = flag(past, "unparseable")
    BY <1>5 DEF read_line
  <2> HIDE DEF past
  <2>2. h \in Aggs /\ h.integrity # "ok"
    BY <1>3, <2>1, FlagIs
  <2>3. QED
    BY <1>1, <1>4, <1>5, <2>2 DEF Tells
<1>6. CASE g.offset = Start(F, i)
  <2>1. h = apply(next, F[i])
    BY <1>6 DEF read_line, ingest_line
  <2> DEFINE M == Append(prev, F[i])
  <2>2. M = SubSeq(F, 1, i)
    BY <1>1, CutNext
  <2>3. M \in Seq(Events) /\ Len(M) = i /\ Chained(M) /\ Chained(prev)
        /\ End(M, Len(M)) = End(F, i)
    <3>1. Chained(prev)
      BY <1>1, CutIs
    <3>2. /\ SubSeq(F, 1, i) \in Seq(Events) /\ Len(SubSeq(F, 1, i)) = i
          /\ Chained(SubSeq(F, 1, i)) /\ i \in 0..i
          /\ \A j \in 0..i : End(SubSeq(F, 1, i), j) = End(F, j)
      BY <1>1, CutIs
    <3>3. QED
      BY <2>2, <3>1, <3>2
  <2> HIDE DEF past, prev
  <2>4. linked \in Aggs
    BY <1>3, FlagIs
  <2>5. /\ linked.integrity = "ok" => past.last_hash = prev /\ linked = past
        /\ past.last_hash = prev => linked = past
    BY <1>3, FlagIs
  <2> HIDE DEF linked, M
  <2>6. next = [linked EXCEPT !.last_hash = M, !.last_seq = F[i].seq]
    BY DEF M
  <2> HIDE DEF next
  <2>7. /\ next \in Aggs /\ next.integrity = linked.integrity /\ next.last_hash = M
        /\ next.last_seq = i - 1 /\ next.offset = linked.offset /\ next.rows = linked.rows
        /\ next.pending = linked.pending
    <3> DEFINE s == F[i].seq
    <3>1. s \in Nat /\ s = i - 1
      BY <1>1
    <3> HIDE DEF s
    <3>2. next = [linked EXCEPT !.last_hash = M, !.last_seq = s]
      BY <2>6 DEF s
    <3>3. /\ next \in Aggs /\ next.integrity = linked.integrity /\ next.last_hash = M
          /\ next.last_seq = s /\ next.offset = linked.offset /\ next.rows = linked.rows
          /\ next.pending = linked.pending
      BY <2>3, <2>4, <3>1, <3>2 DEF Aggs
    <3>4. QED
      BY <3>1, <3>3
  <2>8. /\ h \in Aggs /\ h.offset = next.offset /\ h.last_seq = next.last_seq
        /\ h.last_hash = next.last_hash /\ h.integrity = next.integrity
    BY <1>1, <2>1, <2>7, ApplyIs
  <2>9. ASSUME h.integrity = "ok"
        PROVE  Tells(h) /\ h.last_hash = SubSeq(F, 1, i) /\ h.offset = End(F, i)
    <3>1. past.last_hash = prev /\ linked = past
      BY <2>5, <2>7, <2>8, <2>9
    <3>2. g.integrity = "ok" /\ g.last_hash = prev
      BY <1>3, <2>7, <2>8, <2>9, <3>1
    <3>3. Counts(prev, next.rows) /\ next.pending = Pend(prev)
      BY <1>3, <2>7, <3>1, <3>2 DEF Tells
    <3>4. M = Append(prev, F[i])
      BY DEF M
    <3>5. Counts(M, h.rows) /\ h.pending = Pend(M)
      <4> DEFINE e == F[i]
      <4> HIDE DEF e
      <4>1. e \in Events /\ M = Append(prev, e) /\ h = apply(next, e)
        BY <1>1, <2>1, <3>4 DEF e
      <4>2. Counts(M, apply(next, e).rows) /\ apply(next, e).pending = Pend(M)
        BY <2>3, <2>7, <3>3, <4>1, ApplyCounts
      <4>3. QED
        BY <4>1, <4>2
    <3>6. h.offset = End(M, Len(M)) /\ h.last_hash = M
      BY <1>3, <2>3, <2>7, <2>8, <3>1
    <3>7. M # << >> /\ h.last_seq = Len(M) - 1
      BY <1>1, <2>3, <2>7, <2>8
    <3>8. QED
      BY <2>2, <2>3, <3>5, <3>6, <3>7 DEF Tells
  <2>10. ASSUME g.integrity = "ok", g.last_hash = prev
         PROVE  h.integrity = "ok"
    BY <1>3, <2>5, <2>7, <2>8, <2>10
  <2>11. h.integrity # "ok" => Tells(h)
    BY DEF Tells
  <2>12. QED
    BY <1>1, <2>8, <2>9, <2>10, <2>11 DEF prev
<1>7. QED
  BY <1>5, <1>6

-----------------------------------------------------------------------------
(***************************************************************************)
(* The report: rows that count the cells of a log add up to what the log   *)
(* says.                                                                   *)
(***************************************************************************)
Tally(L, keys, f) == {i \in 1..Len(L) : Place(L, i) \in keys /\ Says(L, i, f)}

LEMMA TallyFinite ==
    ASSUME NEW L, Chained(L), NEW keys, NEW f
    PROVE  IsFiniteSet(Tally(L, keys, f)) /\ Cardinality(Tally(L, keys, f)) \in Nat
<1> DEFINE T == Tally(L, keys, f)
<1>1. T \in SUBSET (1..Len(L)) /\ 1 \in Int /\ Len(L) \in Int
  BY DEF Tally, Chained
<1> HIDE DEF T
<1>2. IsFiniteSet(T) /\ Cardinality(T) \in Nat
  BY <1>1, IntervalFinite
<1>3. QED
  BY <1>2 DEF T

\* Each counted unit of a cell is one of its events.
LEMMA MergeIs ==
    ASSUME NEW L, Chained(L), NEW rows, Counts(L, rows), NEW keys \in SUBSET RowKey,
           NEW f \in Fields
    PROVE  merge(rows, keys)[f] = Cardinality(Tally(L, keys, f))
<1> DEFINE n(k) == rows[k][f]
           C(k) == Cell(L, k, f)
           B(k) == CHOOSE b : b \in Bijection(1..n(k), C(k))
           T == Tally(L, keys, f)
           U == UNION {{k} \X (1..rows[k][f]) : k \in keys}
           N(i) == CHOOSE j \in 1..n(Place(L, i)) : B(Place(L, i))[j] = i
           g == [i \in T |-> <<Place(L, i), N(i)>>]
<1>1. ASSUME NEW k \in keys
      PROVE  /\ B(k) \in [1..n(k) -> C(k)]
             /\ \A i, j \in 1..n(k) : B(k)[i] = B(k)[j] => i = j
             /\ \A i \in C(k) : \E j \in 1..n(k) : B(k)[j] = i
  <2>1. n(k) = Cardinality(C(k)) /\ IsFiniteSet(C(k))
    BY CellFinite DEF Counts
  <2> HIDE DEF n, C
  <2>2. ExistsBijection(1..n(k), C(k))
    BY <2>1, FS_CardinalityType
  <2>3. B(k) \in Bijection(1..n(k), C(k))
    BY <2>2 DEF ExistsBijection
  <2> HIDE DEF B
  <2>4. QED
    BY <2>3 DEF Bijection, Injection, Surjection, IsInjective
<1>2. \A u : u \in U <=> \E k \in keys : \E j \in 1..n(k) : u = <<k, j>>
  <2>1. \A u : u \in U <=> \E k \in keys : u \in {k} \X (1..n(k))
    OBVIOUS
  <2>2. \A u, k : u \in {k} \X (1..n(k)) <=> \E j \in 1..n(k) : u = <<k, j>>
    OBVIOUS
  <2>3. QED
    BY <2>1, <2>2
<1>3. \A i : i \in T <=> Place(L, i) \in keys /\ i \in C(Place(L, i))
  BY DEF Tally, Cell
<1>4. \A k \in keys : \A i \in C(k) : Place(L, i) = k
  BY DEF Cell
<1> HIDE DEF n, C, B, T, U
<1>5. ASSUME NEW i \in T
      PROVE  N(i) \in 1..n(Place(L, i)) /\ B(Place(L, i))[N(i)] = i
  <2>1. \E j \in 1..n(Place(L, i)) : B(Place(L, i))[j] = i
    BY <1>1, <1>3
  <2>2. QED
    BY <2>1
<1> HIDE DEF N
<1>6. g \in [T -> U]
  <2>1. \A i \in T : <<Place(L, i), N(i)>> \in U
    BY <1>2, <1>3, <1>5
  <2>2. QED
    BY <2>1
<1>7. \A i, j \in T : g[i] = g[j] => i = j
  <2> SUFFICES ASSUME NEW i \in T, NEW j \in T, g[i] = g[j] PROVE i = j
    OBVIOUS
  <2>1. Place(L, i) = Place(L, j) /\ N(i) = N(j)
    OBVIOUS
  <2>2. QED
    BY <1>5, <2>1
<1>8. \A u \in U : \E i \in T : g[i] = u
  <2> SUFFICES ASSUME NEW u \in U PROVE \E i \in T : g[i] = u
    OBVIOUS
  <2>0. PICK k \in keys : \E j \in 1..n(k) : u = <<k, j>>
    BY <1>2
  <2>1. PICK j \in 1..n(k) : u = <<k, j>>
    BY <2>0
  <2> DEFINE i == B(k)[j]
  <2>2. i \in C(k)
    BY <1>1, <2>1
  <2>3. Place(L, i) = k /\ i \in T
    BY <1>3, <1>4, <2>2
  <2> HIDE DEF i
  <2>4. N(i) \in 1..n(k) /\ B(k)[N(i)] = i
    BY <1>5, <2>3
  <2>5. N(i) = j
    BY <1>1, <2>4 DEF i
  <2>6. QED
    BY <2>1, <2>3, <2>5
<1>9. IsFiniteSet(T)
  BY TallyFinite DEF T
<1> HIDE DEF g
<1>10. Cardinality(U) = Cardinality(T)
  BY <1>6, <1>7, <1>8, <1>9, SameSize
<1>11. merge(rows, keys)[f] = Cardinality(U)
  BY DEF merge, U
<1>12. QED
  BY <1>10, <1>11 DEF T

LEMMA MergeSays ==
    ASSUME NEW L, Chained(L), NEW rows, Counts(L, rows), NEW keys \in SUBSET RowKey
    PROVE  merge(rows, keys) = LogSays(L, keys)
<1>1. \A f \in Fields : merge(rows, keys)[f] = Cardinality(Tally(L, keys, f))
  BY MergeIs
<1>2. LogSays(L, keys) = [f \in Fields |-> Cardinality(Tally(L, keys, f))]
  <2> DEFINE placed == {i \in 1..Len(L) : Place(L, i) \in keys}
  <2>1. \A f : {i \in placed : Says(L, i, f)} = Tally(L, keys, f)
    BY DEF Tally
  <2>2. LogSays(L, keys) = [f \in Fields |-> Cardinality({i \in placed : Says(L, i, f)})]
    BY DEF LogSays
  <2> HIDE DEF placed
  <2>3. QED
    BY <2>1, <2>2
<1>3. merge(rows, keys) = [f \in Fields |-> merge(rows, keys)[f]]
  BY DEF merge
<1>4. QED
  BY <1>1, <1>2, <1>3

LEMMA DisjointUnion ==
    ASSUME NEW S, NEW T, IsFiniteSet(S), IsFiniteSet(T), S \cap T = {}
    PROVE  /\ IsFiniteSet(S \cup T) /\ Cardinality(S \cup T) \in Nat
           /\ Cardinality(S \cup T) = Cardinality(S) + Cardinality(T)
<1>1. Cardinality(S) \in Nat /\ Cardinality(T) \in Nat /\ Cardinality(S \cap T) = 0
  BY FS_CardinalityType, FS_EmptySet
<1>2. IsFiniteSet(S \cup T)
      /\ Cardinality(S \cup T) = Cardinality(S) + Cardinality(T) - Cardinality(S \cap T)
  BY FS_Union
<1>3. QED
  BY <1>1, <1>2

\* The alert count counts the alarming events.
LEMMA AlertsAre ==
    ASSUME NEW L, Chained(L), NEW rows, Counts(L, rows), NEW keys \in SUBSET RowKey
    PROVE  alert_count(merge(rows, keys)) =
              Cardinality({i \in 1..Len(L) : Place(L, i) \in keys /\ Alarming(L[i])})
<1> DEFINE T(f) == Tally(L, keys, f)
           b == merge(rows, keys)
           D == T("tripwires") \ T("deny_tripwire")
           X == {i \in 1..Len(L) : Place(L, i) \in keys /\ Alarming(L[i])}
<1>1. \A f \in Fields : b[f] = Cardinality(T(f)) /\ b[f] \in Nat /\ IsFiniteSet(T(f))
  BY MergeIs, TallyFinite
<1>2. {"denies", "dlp_alerts", "policy_tamper", "warns", "tripwires", "deny_tripwire"}
         \subseteq Fields
  BY DEF Fields
<1>3. ASSUME NEW i
      PROVE  LET in == i \in 1..Len(L) /\ Place(L, i) \in keys
             IN  /\ i \in T("denies") <=> in /\ L[i].action = "deny"
                 /\ i \in T("dlp_alerts") <=> in /\ L[i].action = "alert" /\ L[i].cause = "dlp"
                 /\ i \in T("policy_tamper") <=> in /\ L[i].action = "tamper"
                 /\ i \in T("warns") <=> in /\ L[i].action = "warn"
                 /\ i \in T("tripwires") <=> in /\ L[i].action \in {"deny", "alert"}
                                                /\ L[i].cause = "tripwire"
                 /\ i \in T("deny_tripwire") <=> in /\ L[i].action = "deny"
                                                    /\ L[i].cause = "tripwire"
                 /\ i \in X <=> in /\ Alarming(L[i])
  BY DEF Tally, Says
<1> HIDE DEF T, X, b
<1>4. T("deny_tripwire") \subseteq T("tripwires")
  BY <1>3
<1>5. IsFiniteSet(D) /\ Cardinality(D) = b["tripwires"] - b["deny_tripwire"]
  <2>1. T("tripwires") \cap T("deny_tripwire") = T("deny_tripwire")
    BY <1>4
  <2>2. /\ IsFiniteSet(T("tripwires")) /\ Cardinality(T("tripwires")) = b["tripwires"]
        /\ Cardinality(T("deny_tripwire")) = b["deny_tripwire"]
    BY <1>1, <1>2
  <2> DEFINE S1 == T("tripwires")
             S2 == T("deny_tripwire")
  <2> HIDE DEF S1, S2
  <2>3. IsFiniteSet(S1)
    BY <2>2 DEF S1
  <2>4. IsFiniteSet(S1 \ S2) /\ Cardinality(S1 \ S2) = Cardinality(S1) - Cardinality(S1 \cap S2)
    BY <2>3, FS_Difference
  <2>5. QED
    BY <2>1, <2>2, <2>4 DEF S1, S2
<1>6. Cardinality(D) \in Nat
  BY <1>5, FS_CardinalityType
<1>7. \A i : i \in D <=> /\ i \in 1..Len(L) /\ Place(L, i) \in keys
                         /\ L[i].action = "alert" /\ L[i].cause = "tripwire"
  BY <1>3
<1> HIDE DEF D
<1> DEFINE X1 == T("denies") \cup T("dlp_alerts")
           X2 == X1 \cup T("policy_tamper")
           X3 == X2 \cup T("warns")
           X4 == X3 \cup D
<1>8. X = X4
  <2>1. \A i : i \in X <=> i \in X4
    BY <1>3, <1>7 DEF Alarming
  <2>2. QED
    BY <2>1
<1>9. /\ T("denies") \cap T("dlp_alerts") = {} /\ X1 \cap T("policy_tamper") = {}
      /\ X2 \cap T("warns") = {} /\ X3 \cap D = {}
  BY <1>3, <1>7
<1>10. IsFiniteSet(X1) /\ Cardinality(X1) = b["denies"] + b["dlp_alerts"]
  <2>1. IsFiniteSet(T("denies")) /\ IsFiniteSet(T("dlp_alerts"))
        /\ Cardinality(T("denies")) = b["denies"] /\ Cardinality(T("dlp_alerts")) = b["dlp_alerts"]
    BY <1>1, <1>2
  <2>2. QED
    BY <1>9, <2>1, DisjointUnion
<1> HIDE DEF X1
<1>11. IsFiniteSet(X2) /\ Cardinality(X2) = Cardinality(X1) + b["policy_tamper"]
  <2>1. IsFiniteSet(T("policy_tamper")) /\ Cardinality(T("policy_tamper")) = b["policy_tamper"]
    BY <1>1, <1>2
  <2>2. QED
    BY <1>9, <1>10, <2>1, DisjointUnion
<1> HIDE DEF X2
<1>12. IsFiniteSet(X3) /\ Cardinality(X3) = Cardinality(X2) + b["warns"]
  <2>1. IsFiniteSet(T("warns")) /\ Cardinality(T("warns")) = b["warns"]
    BY <1>1, <1>2
  <2>2. QED
    BY <1>9, <1>11, <2>1, DisjointUnion
<1> HIDE DEF X3
<1>13. IsFiniteSet(X4) /\ Cardinality(X4) = Cardinality(X3) + Cardinality(D)
  BY <1>5, <1>9, <1>12, DisjointUnion
<1> HIDE DEF X4
<1>14. \A f \in {"denies", "dlp_alerts", "policy_tamper", "warns", "tripwires",
                 "deny_tripwire"} : b[f] \in Nat
  BY <1>1, <1>2
<1>15. Cardinality(X) = b["denies"] + b["dlp_alerts"] + b["policy_tamper"] + b["warns"]
                          + (b["tripwires"] - b["deny_tripwire"])
  BY <1>5, <1>8, <1>10, <1>11, <1>12, <1>13, <1>14
<1>16. alert_count(b) = b["denies"] + b["dlp_alerts"] + b["policy_tamper"] + b["warns"]
                          + (b["tripwires"] - b["deny_tripwire"])
  <2>1. b["tripwires"] - b["deny_tripwire"] >= 0
    BY <1>5, <1>6
  <2>2. QED
    BY <1>14, <2>1 DEF alert_count
<1>17. QED
  BY <1>15, <1>16 DEF X, b

-----------------------------------------------------------------------------
(***************************************************************************)
(* The invariant.                                                          *)
(***************************************************************************)
Prefix(L, F) == Len(L) <= Len(F) /\ \A i \in 1..Len(L) : L[i] = F[i]

Pcs == {"idle", "load", "read", "save", "report"}
QueryRec == [pc : Pcs, anchor : Nat \cup {NoSeq}, agg : Aggs]
SeenRec  == [lines : Nat, lost : BOOLEAN, checked : BOOLEAN]

StatsTypeOK ==
    /\ Chained(log)
    /\ wpc \in {"idle", "part", "line"}
    /\ anchor \in Nat \cup {NoSeq}
    /\ traffic \in Seq(Kinds)
    /\ open \in SUBSET Nat
    /\ losses \in Nat
    /\ cache \in Aggs
    /\ query \in [Queries -> QueryRec]
    /\ seen \in [Queries -> SeenRec]

\* A line that is being written continues the log.
Writing ==
    /\ wpc = "part" => /\ writing = <<writing[1]>> /\ writing[1] \in Events
                       /\ Chained(Append(log, writing[1])) /\ writing[1].era = losses
    /\ wpc = "line" => log # << >>

\* Wherever a log differs from what was once read, lines were lost in between.
Shares(g) ==
    g.integrity = "ok" =>
       \A i \in 1..Len(g.last_hash) :
          i \in 1..Len(log) /\ log[i].era = 0 => g.last_hash[i] = log[i]

\* All that was ever taken in is of the log, while it only grows.
Whole(g) == g.integrity = "ok" /\ Prefix(g.last_hash, log)

\* What a query r that saw s has to cover, while the log only grows.
Covers(r, s) ==
    /\ Whole(r.agg)
    /\ s.lines <= Len(log)
    /\ r.anchor # NoSeq => r.anchor < s.lines
    /\ r.pc \in {"save", "report"} => Len(r.agg.last_hash) >= s.lines

Grown ==
    losses = 0 => /\ anchor # NoSeq => anchor < Len(log)
                  /\ Whole(cache)
                  /\ \A q \in Queries : Covers(query[q], seen[q])

\* No query is ahead of the log that it found, and what it took in is of it.
Fresh(r, s) ==
    ~s.lost /\ r.agg.integrity = "ok" =>
       /\ r.agg.offset <= End(log, Len(log)) + 1
       /\ s.checked => Prefix(r.agg.last_hash, log)

StatsInv ==
    /\ StatsTypeOK
    /\ Writing
    /\ Tells(cache) /\ \A q \in Queries : Tells(query[q].agg)
    /\ Shares(cache) /\ \A q \in Queries : Shares(query[q].agg)
    /\ Grown
    /\ \A q \in Queries : Fresh(query[q], seen[q])

LEMMA PrefixIs ==
    ASSUME NEW L, Chained(L), NEW F, Chained(F), Prefix(L, F)
    PROVE  /\ Len(L) \in 0..Len(F) /\ L = SubSeq(F, 1, Len(L))
           /\ \A i \in 0..Len(L) : End(L, i) = End(F, i)
<1>1. Len(L) \in Nat /\ Len(F) \in Nat /\ L \in Seq(Events)
  BY DEF Chained
<1>2. Len(L) \in 0..Len(F)
  BY <1>1 DEF Prefix
<1> DEFINE n == Len(L)
           M == SubSeq(F, 1, n)
<1>3. M \in Seq(Events) /\ Len(M) = n /\ (\A j \in 1..n : M[j] = F[j])
      /\ \A j \in 0..n : End(M, j) = End(F, j)
  BY <1>2, CutIs
<1> HIDE DEF M
<1>4. L = M
  BY <1>1, <1>3, SeqEqual DEF Prefix
<1>5. QED
  BY <1>2, <1>3, <1>4 DEF M

\* The first lines of a log are a prefix.
LEMMA CutPrefix ==
    ASSUME NEW F, Chained(F), NEW i \in 0..Len(F)
    PROVE  Prefix(SubSeq(F, 1, i), F)
<1>1. Len(F) \in Nat
  BY DEF Chained
<1>2. QED
  BY <1>1, CutIs DEF Prefix

\* The lines that a report covers are those that its aggregate is of.
LEMMA CoveredIs ==
    ASSUME StatsTypeOK, NEW q \in Queries, Tells(query[q].agg), Whole(query[q].agg)
    PROVE  /\ Covered(q) = 1..Len(query[q].agg.last_hash)
           /\ Cardinality(Covered(q)) = Len(query[q].agg.last_hash)
<1> DEFINE g == query[q].agg
           L == g.last_hash
           n == Len(L)
<1>1. Chained(log) /\ Chained(L) /\ Prefix(L, log) /\ g.offset = End(L, n)
  BY DEF StatsTypeOK, Tells, Whole
<1>2. n \in 0..Len(log) /\ (\A i \in 0..n : End(L, i) = End(log, i)) /\ Len(log) \in Nat
  <2>1. n \in 0..Len(log) /\ \A i \in 0..n : End(L, i) = End(log, i)
    <3> HIDE DEF L
    <3>1. QED
      BY <1>1, PrefixIs
  <2>2. Len(log) \in Nat
    BY <1>1 DEF Chained
  <2>3. QED
    BY <2>1, <2>2
<1> HIDE DEF g, L, n
<1>3. g.offset = End(log, n)
  BY <1>1, <1>2
<1>4. \A i \in 1..Len(log) : End(log, i) <= End(log, n) <=> i <= n
  <2> SUFFICES ASSUME NEW i \in 1..Len(log) PROVE End(log, i) <= End(log, n) <=> i <= n
    OBVIOUS
  <2>1. i \in 0..Len(log)
    BY <1>2
  <2>2. End(log, i) \in Nat /\ End(log, n) \in Nat /\ (End(log, n) < End(log, i) <=> n < i)
    BY <1>1, <1>2, <2>1, EndsApart
  <2>3. QED
    BY <1>2, <2>2
<1>5. Covered(q) = {i \in 1..Len(log) : End(log, i) <= g.offset}
  BY DEF Covered, g
<1>6. Covered(q) = 1..n
  BY <1>2, <1>3, <1>4, <1>5
<1>7. Cardinality(1..n) = n
  <2>1. n \in Int /\ 1 \in Int /\ n >= 0
    BY <1>2
  <2>2. Cardinality(1..n) = IF 1 > n THEN 0 ELSE n - 1 + 1
    BY <2>1, FS_Interval
  <2>3. QED
    BY <2>1, <2>2
<1>8. QED
  BY <1>6, <1>7 DEF n, L, g

\* A row carries traffic when an event placed in it does.
LEMMA TrafficIs ==
    ASSUME NEW L, Chained(L), NEW rows, Counts(L, rows), NEW k \in RowKey
    PROVE  (\E f \in Carried : rows[k][f] > 0) <=> Traffic(L, k)
<1>1. Carried \subseteq Fields
  BY DEF Carried, Fields
<1>2. ASSUME NEW f \in Carried
      PROVE  rows[k][f] > 0 <=> Cell(L, k, f) # {}
  <2> DEFINE C == Cell(L, k, f)
  <2>1. rows[k][f] = Cardinality(C) /\ IsFiniteSet(C)
    BY <1>1, CellFinite DEF Counts
  <2> HIDE DEF C
  <2>2. Cardinality(C) \in Nat /\ (Cardinality(C) = 0 <=> C = {})
    BY <2>1, FS_CardinalityType, FS_EmptySet
  <2>3. QED
    BY <2>1, <2>2 DEF C
<1>3. \A f : Cell(L, k, f) # {} <=> \E i \in 1..Len(L) : Place(L, i) = k /\ Says(L, i, f)
  BY DEF Cell
<1>4. QED
  BY <1>2, <1>3 DEF Traffic

\* Such a report agrees with the log.
LEMMA WholeAgrees ==
    ASSUME StatsTypeOK, NEW q \in Queries, Tells(query[q].agg), Whole(query[q].agg)
    PROVE  ReportAgrees(q)
<1> DEFINE g == query[q].agg
           L == SubSeq(log, 1, Cardinality(Covered(q)))
<1>1. Cardinality(Covered(q)) = Len(g.last_hash)
  BY CoveredIs
<1>2. L = g.last_hash
  <2>1. Chained(log) /\ Chained(g.last_hash) /\ Prefix(g.last_hash, log)
    BY DEF StatsTypeOK, Tells, Whole
  <2>2. g.last_hash = SubSeq(log, 1, Len(g.last_hash))
    BY <2>1, PrefixIs
  <2>3. QED
    BY <1>1, <2>2
<1>3. Chained(L) /\ Counts(L, g.rows)
  BY <1>2 DEF Tells, Whole
<1> HIDE DEF L
<1>4. ASSUME NEW w \in Windows
      PROVE  /\ \A model \in Models \cup {NoModel} :
                   by_model(q, w, model) = LogSays(L, LineOf(L, w, model))
             /\ alert_count(totals(q, w)) =
                   Cardinality({i \in 1..Len(L) :
                                   Place(L, i) \in InWindow(w) /\ Alarming(L[i])})
  <2> DEFINE W == InWindow(w)
             K(model) == LineOf(L, w, model)
  <2>1. W \in SUBSET RowKey
    BY DEF InWindow
  <2> HIDE DEF W
  <2>2. \A model : K(model) \in SUBSET RowKey
    BY <2>1 DEF LineOf, W
  <2> HIDE DEF K
  <2>3. ASSUME NEW model \in Models \cup {NoModel}
        PROVE  by_model(q, w, model) = LogSays(L, K(model))
    <3>1. merge(g.rows, K(model)) = LogSays(L, K(model))
      BY <1>3, <2>2, MergeSays
    <3>2. \A k \in RowKey : (\E f \in Carried : g.rows[k][f] > 0) <=> Traffic(L, k)
      BY <1>3, TrafficIs
    <3>3. by_model(q, w, model) = merge(g.rows, K(model))
      BY <2>1, <3>2 DEF by_model, LineOf, K, W, g
    <3>4. QED
      BY <3>1, <3>3
  <2>4. alert_count(totals(q, w)) =
           Cardinality({i \in 1..Len(L) : Place(L, i) \in W /\ Alarming(L[i])})
    <3>1. alert_count(merge(g.rows, W)) =
             Cardinality({i \in 1..Len(L) : Place(L, i) \in W /\ Alarming(L[i])})
      BY <1>3, <2>1, AlertsAre
    <3>2. totals(q, w) = merge(g.rows, W)
      BY DEF totals, W
    <3>3. QED
      BY <3>1, <3>2
  <2>5. QED
    BY <2>3, <2>4 DEF K, W
<1>5. QED
  BY <1>4 DEF ReportAgrees, L

\* What the invariant says of a report.
LEMMA InvHealthy ==
    StatsInv => HealthyNeverFlagged
<1> SUFFICES ASSUME StatsInv, losses = 0, NEW q \in Reporting
             PROVE  integrity(q) = "ok"
  BY DEF HealthyNeverFlagged
<1> DEFINE g == query[q].agg
           L == g.last_hash
           a == query[q].anchor
<1>1. q \in Queries /\ query[q].pc = "report"
  BY DEF Reporting
<1>2. Covers(query[q], seen[q]) /\ Tells(g)
  BY <1>1 DEF StatsInv, Grown
<1>3. /\ g.integrity = "ok" /\ Len(L) >= seen[q].lines
      /\ a # NoSeq => a < seen[q].lines
  BY <1>1, <1>2 DEF Covers, Whole
<1>4. Len(L) \in Nat /\ g.last_seq = (IF L = << >> THEN NoSeq ELSE Len(L) - 1)
  BY <1>2, <1>3 DEF Tells, Chained
<1>5. seen[q].lines \in Nat /\ a \in Nat \cup {NoSeq}
  BY <1>1 DEF StatsInv, StatsTypeOK, QueryRec, SeenRec
<1> HIDE DEF g, L, a
<1>6. a # NoSeq => L # << >> /\ g.last_seq = Len(L) - 1 /\ g.last_seq # NoSeq
                      /\ ~(g.last_seq < a)
  <2> SUFFICES ASSUME a # NoSeq
               PROVE  L # << >> /\ g.last_seq = Len(L) - 1 /\ g.last_seq # NoSeq
                         /\ ~(g.last_seq < a)
    OBVIOUS
  <2>1. a \in Nat /\ a < Len(L)
    BY <1>3, <1>4, <1>5
  <2>2. L # << >>
    BY <1>4, <2>1
  <2>3. g.last_seq = Len(L) - 1 /\ Len(L) - 1 \in Nat
    BY <1>4, <2>1, <2>2
  <2>4. QED
    BY <1>4, <2>1, <2>2, <2>3, StatsConstants
<1>7. QED
  BY <1>3, <1>6 DEF integrity, g, a

LEMMA InvTrue ==
    StatsInv => ReportTrue
<1> SUFFICES ASSUME StatsInv PROVE ReportTrue
  OBVIOUS
<1>0. StatsTypeOK
  BY DEF StatsInv
<1>1. ReportExact
  <2> SUFFICES ASSUME losses = 0, NEW q \in Reporting
               PROVE  Cardinality(Covered(q)) >= seen[q].lines /\ ReportAgrees(q)
    BY DEF ReportExact
  <2>1. q \in Queries /\ query[q].pc = "report"
    BY DEF Reporting
  <2>2. Covers(query[q], seen[q]) /\ Tells(query[q].agg)
    BY <2>1 DEF StatsInv, Grown
  <2>3. Whole(query[q].agg) /\ Len(query[q].agg.last_hash) >= seen[q].lines
    BY <2>1, <2>2 DEF Covers
  <2>4. QED
    BY <1>0, <2>1, <2>2, <2>3, CoveredIs, WholeAgrees
<1>2. UnflaggedIsTrue
  <2> SUFFICES ASSUME NEW q \in Reporting, integrity(q) = "ok", ~seen[q].lost
               PROVE  /\ seen[q].checked => ReportAgrees(q)
                      /\ ~(Checked(q) /\ BehindAnchor(q))
    BY DEF UnflaggedIsTrue
  <2> DEFINE g == query[q].agg
             L == g.last_hash
             a == query[q].anchor
  <2>1. q \in Queries /\ Tells(g) /\ Shares(g) /\ Fresh(query[q], seen[q])
    BY DEF Reporting, StatsInv
  <2>2. g.integrity = "ok"
    BY DEF integrity
  <2>3. g.offset <= End(log, Len(log)) + 1 /\ (seen[q].checked => Prefix(L, log))
    BY <2>1, <2>2 DEF Fresh
  <2>4. seen[q].checked => ReportAgrees(q)
    <3> SUFFICES ASSUME seen[q].checked PROVE ReportAgrees(q)
      OBVIOUS
    <3>1. Whole(g)
      BY <2>2, <2>3 DEF Whole
    <3>2. QED
      BY <1>0, <2>1, <3>1, WholeAgrees
  <2>5. ASSUME Checked(q), BehindAnchor(q) PROVE FALSE
    <3>1. Chained(log) /\ Chained(L) /\ Len(log) \in Nat /\ Len(L) \in Nat
          /\ g.offset = End(L, Len(L))
          /\ g.last_seq = (IF L = << >> THEN NoSeq ELSE Len(L) - 1)
      BY <1>0, <2>1, <2>2 DEF StatsTypeOK, Tells, Chained
    <3>2. a # NoSeq /\ a \in Nat /\ \A i \in 1..Len(log) : log[i].seq < a
      BY <1>0, <2>1, <2>5 DEF BehindAnchor, StatsTypeOK, QueryRec
    <3>3. ~(IF g.last_seq = NoSeq THEN TRUE ELSE g.last_seq < a)
      BY <2>2, <3>2 DEF integrity
    <3>4. L # << >> /\ ~(Len(L) - 1 < a)
      BY <3>1, <3>3
    <3>5. Len(log) <= a
      <4>1. CASE Len(log) = 0
        BY <3>2, <4>1
      <4>2. CASE Len(log) # 0
        <5>1. Len(log) \in 1..Len(log)
          BY <3>1, <4>2
        <5>2. log[Len(log)].seq = Len(log) - 1
          BY <3>1, <5>1 DEF Chained
        <5>3. QED
          BY <3>1, <3>2, <5>1, <5>2
      <4>3. QED
        BY <4>1, <4>2
    <3>6. Len(log) < Len(L)
      BY <3>1, <3>2, <3>4, <3>5
    <3>7. ~seen[q].checked
      BY <2>3, <3>1, <3>6 DEF Prefix
    <3>8. \A i \in 1..Len(log) : log[i].era = 0
      BY <2>5, <3>7 DEF Checked
    <3>9. \A i \in 1..Len(log) : L[i] = log[i]
      BY <2>1, <2>2, <3>1, <3>6, <3>8 DEF Shares
    <3>10. End(L, Len(log)) = End(log, Len(log))
      BY <3>1, <3>9 DEF End
    <3>11. End(L, Len(log)) + 2 <= End(L, Len(L)) /\ End(L, Len(log)) \in Nat
           /\ End(L, Len(L)) \in Nat
      <4>1. Len(log) \in 0..Len(L) /\ Len(L) \in 0..Len(L)
        BY <3>1, <3>6
      <4>2. QED
        BY <3>1, <3>6, <4>1, EndsApart
    <3>12. QED
      BY <2>3, <3>1, <3>10, <3>11
  <2>6. QED
    BY <2>4, <2>5
<1>3. QED
  BY <1>1, <1>2 DEF ReportTrue

-----------------------------------------------------------------------------
(***************************************************************************)
(* The invariant is inductive.  First the auditor.                         *)
(***************************************************************************)
LEMMA StatsInit ==
    Init => StatsInv
<1> SUFFICES ASSUME Init PROVE StatsInv
  OBVIOUS
<1>1. EmptyCache \in Aggs /\ Tells(EmptyCache) /\ Chained(<< >>)
  BY EmptyTells
<1>2. Prefix(<< >>, << >>)
  BY DEF Prefix
<1>3. /\ EmptyCache.integrity = "ok" /\ EmptyCache.last_hash = << >> /\ EmptyCache.offset = 0
  BY DEF EmptyCache
<1>4. Idle \in QueryRec /\ Unseen \in SeenRec /\ Idle.agg = EmptyCache /\ Idle.anchor = NoSeq
      /\ Idle.pc = "idle" /\ Unseen.lines = 0 /\ Unseen.checked = FALSE
  BY <1>1 DEF Idle, Unseen, QueryRec, SeenRec, Pcs
<1>5. traffic \in Seq(Kinds)
  BY TrafficAssumption DEF Init, Kinds
<1>6. \A q \in Queries : query[q] = Idle /\ seen[q] = Unseen
  BY DEF Init
<1>7. StatsTypeOK
  BY <1>1, <1>4, <1>5 DEF Init, StatsTypeOK
<1>8. Whole(EmptyCache) /\ Shares(EmptyCache)
  BY <1>2, <1>3 DEF Whole, Shares, Init
<1>9. Covers(Idle, Unseen)
  BY <1>4, <1>8 DEF Covers, Init
<1>10. Fresh(Idle, Unseen)
  BY <1>3, <1>4 DEF Fresh, Init, End
<1>11. Grown
  BY <1>6, <1>8, <1>9 DEF Grown, Init
<1>12. Writing
  BY DEF Writing, Init
<1>13. cache = EmptyCache
  BY DEF Init
<1>14. QED
  BY <1>1, <1>4, <1>6, <1>7, <1>8, <1>10, <1>11, <1>12, <1>13 DEF StatsInv

\* The event that is appended continues the log.
LEMMA Continues ==
    ASSUME NEW L, Chained(L), NEW e \in Events, e.seq = Len(L),
           e.end >= End(L, Len(L)) + 2
    PROVE  Chained(Append(L, e))
<1> DEFINE n == Len(L)
           M == Append(L, e)
<1>1. n \in Nat /\ L \in Seq(Events) /\ e.end \in Nat /\ (\A i \in 1..n : L[i].seq = i - 1)
      /\ \A i, j \in 0..n : i < j => End(L, i) + 2 <= End(L, j)
  BY DEF Chained, Events
<1>2. M \in Seq(Events) /\ Len(M) = n + 1 /\ M[n + 1] = e /\ \A i \in 1..n : M[i] = L[i]
  BY <1>1
<1>3. (\A i \in 0..n : End(M, i) = End(L, i)) /\ End(M, n + 1) = e.end
  BY <1>1, <1>2 DEF End
<1>4. \A i \in 0..n : End(L, i) \in Nat
  BY EndType
<1> HIDE DEF n, M
<1>5. \A i \in 1..(n + 1) : M[i].seq = i - 1
  <2> SUFFICES ASSUME NEW i \in 1..(n + 1) PROVE M[i].seq = i - 1
    OBVIOUS
  <2>1. CASE i \in 1..n
    BY <1>1, <1>2, <2>1
  <2>2. CASE i = n + 1
    BY <1>1, <1>2, <2>2 DEF n
  <2>3. QED
    BY <1>1, <2>1, <2>2
<1>6. \A i, j \in 0..(n + 1) : i < j => End(M, i) + 2 <= End(M, j)
  <2> SUFFICES ASSUME NEW i \in 0..(n + 1), NEW j \in 0..(n + 1), i < j
               PROVE  End(M, i) + 2 <= End(M, j)
    OBVIOUS
  <2>1. i \in 0..n
    BY <1>1
  <2>2. CASE j \in 0..n
    BY <1>1, <1>3, <2>1, <2>2
  <2>3. CASE j = n + 1
    <3>1. e.end >= End(L, n) + 2 /\ n \in 0..n
      BY <1>1 DEF n
    <3>2. End(L, i) <= End(L, n)
      BY <1>1, <1>4, <2>1, <3>1
    <3>3. QED
      BY <1>1, <1>3, <1>4, <2>1, <2>3, <3>1, <3>2
  <2>4. QED
    BY <1>1, <2>2, <2>3
<1>7. QED
  BY <1>2, <1>5, <1>6 DEF Chained, M

\* While log, cache, queries and losses stay, so does what is said of them.
LEMMA Still ==
    ASSUME StatsInv, UNCHANGED <<log, cache, query, losses, seen>>,
           StatsTypeOK', Writing', losses = 0 /\ anchor' # NoSeq => anchor' < Len(log)
    PROVE  StatsInv'
<1>1. UNCHANGED <<log, cache, query, losses, seen>>
  OBVIOUS
<1>2. Grown'
  BY <1>1 DEF StatsInv, Grown, Covers, Whole
<1>3. Tells(cache)' /\ \A q \in Queries : Tells(query[q].agg)'
  BY <1>1 DEF StatsInv, Tells
<1>4. Shares(cache)' /\ \A q \in Queries : Shares(query[q].agg)'
  BY <1>1 DEF StatsInv, Shares
<1>5. \A q \in Queries : Fresh(query[q], seen[q])'
  BY <1>1 DEF StatsInv, Fresh
<1>6. QED
  BY <1>2, <1>3, <1>4, <1>5 DEF StatsInv

LEMMA AppendPartKeeps ==
    StatsInv /\ AppendPart => StatsInv'
<1> SUFFICES ASSUME StatsInv, AppendPart PROVE StatsInv'
  OBVIOUS
<1>1. /\ Chained(log) /\ Len(log) \in Nat /\ losses \in Nat /\ traffic \in Seq(Kinds)
      /\ open \in SUBSET Nat
  BY DEF StatsInv, StatsTypeOK, Chained
<1>2. UNCHANGED <<log, anchor, cache, query, losses, seen>> /\ wpc' = "part"
      /\ traffic' = Tail(traffic) /\ traffic # << >>
  BY DEF AppendPart
<1> DEFINE k == Head(traffic)
<1>3. k \in Kinds /\ traffic' \in Seq(Kinds)
  BY <1>1, <1>2
<1> DEFINE Ev(ref) == [seq |-> NextSeq, action |-> k.action, cause |-> k.cause,
                       dur |-> k.dur, model |-> k.model, ref |-> ref, hour |-> k.hour,
                       era |-> losses, end |-> End(log, Len(log)) + Size(k)]
<1>4. PICK ref \in open \cup {NoSeq} : writing' = <<Ev(ref)>> /\ open' = open \ {ref}
  BY DEF AppendPart
<1>5. NextSeq = Len(log)
  <2>1. CASE log = << >>
    BY <2>1 DEF NextSeq
  <2>2. CASE log # << >>
    <3>1. Len(log) \in 1..Len(log)
      BY <1>1, <2>2 DEF Chained
    <3>2. log[Len(log)].seq = Len(log) - 1
      BY <1>1, <3>1 DEF Chained
    <3>3. QED
      BY <1>1, <2>2, <3>2 DEF NextSeq
  <2>3. QED
    BY <2>1, <2>2
<1>6. End(log, Len(log)) \in Nat
  <2>1. Len(log) \in 0..Len(log)
    BY <1>1
  <2>2. QED
    BY <1>1, <2>1, EndType
<1>7. Size(k) \in {2, 3}
  BY DEF Size
<1> DEFINE e == Ev(ref)
<1>8. /\ e.seq = Len(log) /\ e.end >= End(log, Len(log)) + 2 /\ e.era = losses
      /\ e \in Events
  <2>1. ref \in Nat \cup {NoSeq}
    BY <1>1
  <2>2. /\ k.action \in STRING /\ k.cause \in STRING /\ k.dur \in BOOLEAN
        /\ k.model \in Models \cup {NoModel} /\ k.hour \in 1..Hours
    BY <1>3 DEF Kinds
  <2> HIDE DEF k
  <2>3. End(log, Len(log)) + Size(k) \in Nat /\ NextSeq \in Nat
        /\ End(log, Len(log)) + Size(k) >= End(log, Len(log)) + 2
    BY <1>1, <1>5, <1>6, <1>7
  <2>4. e \in Events
    BY <1>1, <2>1, <2>2, <2>3 DEF Events
  <2>5. QED
    BY <1>5, <2>3, <2>4
<1> HIDE DEF e
<1>9. Chained(Append(log, e))
  BY <1>1, <1>8, Continues
<1>10. writing' = <<e>> /\ writing'[1] = e
  BY <1>4 DEF e
<1>11. Writing'
  BY <1>2, <1>8, <1>9, <1>10 DEF Writing
<1>12. StatsTypeOK'
  BY <1>2, <1>3, <1>4 DEF StatsInv, StatsTypeOK
<1>13. losses = 0 /\ anchor' # NoSeq => anchor' < Len(log)
  BY <1>2 DEF StatsInv, Grown
<1>14. QED
  BY <1>2, <1>11, <1>12, <1>13, Still

LEMMA AppendSealKeeps ==
    StatsInv /\ AppendSeal => StatsInv'
<1> SUFFICES ASSUME StatsInv, AppendSeal PROVE StatsInv'
  OBVIOUS
<1>1. /\ UNCHANGED <<log, writing, traffic, open, cache, query, losses, seen>>
      /\ wpc = "line" /\ wpc' = "idle" /\ anchor' \in {anchor, log[Len(log)].seq}
  BY DEF AppendSeal
<1>2. Chained(log) /\ log # << >> /\ Len(log) \in Nat
  BY <1>1 DEF StatsInv, StatsTypeOK, Writing, Chained
<1>3. log[Len(log)].seq = Len(log) - 1 /\ Len(log) - 1 \in Nat
  <2>1. Len(log) \in 1..Len(log)
    BY <1>2 DEF Chained
  <2>2. QED
    BY <1>2, <2>1 DEF Chained
<1>4. StatsTypeOK'
  BY <1>1, <1>3 DEF StatsInv, StatsTypeOK
<1>5. Writing'
  BY <1>1 DEF Writing
<1>6. losses = 0 /\ anchor' # NoSeq => anchor' < Len(log)
  BY <1>1, <1>2, <1>3 DEF StatsInv, Grown
<1>7. QED
  BY <1>1, <1>4, <1>5, <1>6, Still

LEMMA AppendLineKeeps ==
    StatsInv /\ AppendLine => StatsInv'
<1> SUFFICES ASSUME StatsInv, AppendLine PROVE StatsInv'
  OBVIOUS
<1> DEFINE n == Len(log)
           e == writing[1]
<1>1. /\ UNCHANGED <<anchor, traffic, cache, query, losses, seen>> /\ wpc = "part"
      /\ wpc' = "line" /\ log' = log \o writing
      /\ open' = IF Streamed(e) THEN open \cup {e.seq} ELSE open
  BY DEF AppendLine
<1>2. writing = <<e>> /\ e \in Events /\ Chained(Append(log, e)) /\ e.era = losses
  BY <1>1 DEF StatsInv, Writing
<1>3. Chained(log) /\ n \in Nat /\ log \in Seq(Events) /\ e.seq \in Nat
  BY <1>2 DEF StatsInv, StatsTypeOK, Chained, Events
<1> HIDE DEF e
<1>4. log' = Append(log, e)
  BY <1>1, <1>2, <1>3
<1> HIDE DEF n
<1>5. Chained(log') /\ Len(log') = n + 1 /\ log'[n + 1] = e /\ \A i \in 1..n : log'[i] = log[i]
  BY <1>2, <1>3, <1>4 DEF n
<1>6. StatsTypeOK'
  BY <1>1, <1>3, <1>5 DEF StatsInv, StatsTypeOK
<1>7. Writing'
  BY <1>1, <1>3, <1>5 DEF Writing
<1>8. Tells(cache)' /\ \A q \in Queries : Tells(query[q].agg)'
  BY <1>1 DEF StatsInv, Tells
<1>9. ASSUME NEW L \in Seq(Events), Prefix(L, log) PROVE Prefix(L, log')
  BY <1>3, <1>5, <1>9 DEF Prefix, n
<1>10. ASSUME NEW g \in Aggs, Shares(g), losses = 0 => Whole(g)
       PROVE  g.integrity = "ok" =>
                 \A i \in 1..Len(g.last_hash) :
                    i \in 1..Len(log') /\ log'[i].era = 0 => g.last_hash[i] = log'[i]
  <2> SUFFICES ASSUME g.integrity = "ok", NEW i \in 1..Len(g.last_hash), i \in 1..Len(log'),
                      log'[i].era = 0
               PROVE  g.last_hash[i] = log'[i]
    OBVIOUS
  <2>1. CASE i \in 1..n
    BY <1>5, <1>10, <2>1 DEF Shares, n
  <2>2. CASE i = n + 1
    <3>1. losses = 0
      BY <1>2, <1>5, <2>2
    <3>2. Len(g.last_hash) <= n
      BY <1>10, <3>1 DEF Whole, Prefix, n
    <3>3. Len(g.last_hash) \in Nat
      BY DEF Aggs
    <3>4. QED
      BY <1>3, <2>2, <3>2, <3>3
  <2>3. QED
    BY <1>3, <1>5, <2>1, <2>2
<1>11. cache \in Aggs /\ \A q \in Queries : query[q] \in QueryRec /\ query[q].agg \in Aggs
                                             /\ seen[q] \in SeenRec
  BY DEF StatsInv, StatsTypeOK, QueryRec
<1>12. Shares(cache)'
  <2>1. Shares(cache) /\ (losses = 0 => Whole(cache))
    BY DEF StatsInv, Grown
  <2>2. QED
    BY <1>1, <1>10, <1>11, <2>1 DEF Shares
<1>13. \A q \in Queries : Shares(query[q].agg)'
  <2> SUFFICES ASSUME NEW q \in Queries PROVE Shares(query[q].agg)'
    OBVIOUS
  <2>1. Shares(query[q].agg) /\ (losses = 0 => Whole(query[q].agg))
    BY DEF StatsInv, Grown, Covers
  <2>2. QED
    BY <1>1, <1>10, <1>11, <2>1 DEF Shares
<1>14. ASSUME NEW g \in Aggs, Whole(g) PROVE g.integrity = "ok" /\ Prefix(g.last_hash, log')
  <2>1. g.last_hash \in Seq(Events)
    BY DEF Aggs
  <2>2. QED
    BY <1>9, <1>14, <2>1 DEF Whole
<1>15. Grown'
  <2> SUFFICES ASSUME losses = 0
               PROVE  /\ (anchor # NoSeq => anchor < Len(log))'
                      /\ Whole(cache)'
                      /\ \A q \in Queries : Covers(query[q], seen[q])'
    BY <1>1 DEF Grown
  <2>1. (anchor # NoSeq => anchor < Len(log))'
    BY <1>1, <1>3, <1>5 DEF StatsInv, StatsTypeOK, Grown, n
  <2>2. Whole(cache)'
    BY <1>1, <1>11, <1>14 DEF StatsInv, Grown, Whole
  <2>3. ASSUME NEW q \in Queries PROVE Covers(query[q], seen[q])'
    <3>1. Covers(query[q], seen[q])
      BY DEF StatsInv, Grown
    <3>2. Whole(query[q].agg)'
      BY <1>1, <1>11, <1>14, <3>1 DEF Covers, Whole
    <3>3. seen[q].lines <= Len(log')
      BY <1>3, <1>5, <1>11, <3>1 DEF Covers, SeenRec, n
    <3>4. QED
      BY <1>1, <3>1, <3>2, <3>3 DEF Covers
  <2>4. QED
    BY <2>1, <2>2, <2>3
<1>16. \A q \in Queries : Fresh(query[q], seen[q])'
  <2> SUFFICES ASSUME NEW q \in Queries, ~seen[q].lost, query[q].agg.integrity = "ok"
               PROVE  /\ query[q].agg.offset <= End(log', Len(log')) + 1
                      /\ seen[q].checked => Prefix(query[q].agg.last_hash, log')
    BY <1>1 DEF Fresh
  <2>1. query[q].agg.offset <= End(log, n) + 1
        /\ (seen[q].checked => Prefix(query[q].agg.last_hash, log))
    BY DEF StatsInv, Fresh, n
  <2>2. query[q].agg.last_hash \in Seq(Events) /\ query[q].agg.offset \in Nat
    BY <1>11 DEF Aggs
  <2>3. End(log', n) = End(log, n)
    BY <1>3, <1>5 DEF End
  <2>4. End(log', n) \in Nat /\ End(log', n + 1) \in Nat /\ End(log', n) + 2 <= End(log', n + 1)
    <3>1. n \in 0..Len(log') /\ n + 1 \in 0..Len(log') /\ n < n + 1
      BY <1>3, <1>5
    <3>2. QED
      BY <1>5, <3>1, EndsApart
  <2>5. query[q].agg.offset <= End(log', n + 1) + 1
    BY <2>1, <2>2, <2>3, <2>4
  <2>6. QED
    BY <1>5, <1>9, <2>1, <2>2, <2>5
<1>17. QED
  BY <1>6, <1>7, <1>8, <1>12, <1>13, <1>15, <1>16 DEF StatsInv

LEMMA LoseTailKeeps ==
    StatsInv /\ LoseTail => StatsInv'
<1> SUFFICES ASSUME StatsInv, LoseTail PROVE StatsInv'
  OBVIOUS
<1>1. /\ UNCHANGED <<writing, wpc, traffic, open, cache, query>> /\ wpc = "idle"
      /\ anchor' \in {anchor, NoSeq} /\ losses' = losses + 1
      /\ seen' = [q \in Queries |-> [seen[q] EXCEPT !.lost = TRUE]]
  BY DEF LoseTail
<1>2. PICK n \in 0..(Len(log) - 1) : log' = SubSeq(log, 1, n)
  BY DEF LoseTail
<1>3. Chained(log) /\ Len(log) \in Nat
  BY DEF StatsInv, StatsTypeOK, Chained
<1>4. Chained(log') /\ Len(log') = n /\ \A i \in 1..n : log'[i] = log[i]
  <2>1. n \in 0..Len(log)
    BY <1>3
  <2>2. QED
    BY <1>2, <1>3, <2>1, CutIs
<1>5. losses \in Nat /\ losses' \in Nat /\ losses' # 0
  BY <1>1 DEF StatsInv, StatsTypeOK
<1>6. seen' \in [Queries -> SeenRec] /\ \A q \in Queries : seen'[q].lost
  BY <1>1 DEF StatsInv, StatsTypeOK, SeenRec
<1>7. StatsTypeOK'
  BY <1>1, <1>4, <1>5, <1>6 DEF StatsInv, StatsTypeOK
<1>8. Writing'
  BY <1>1 DEF Writing
<1>9. Tells(cache)' /\ \A q \in Queries : Tells(query[q].agg)'
  BY <1>1 DEF StatsInv, Tells
<1>10. \A i : i \in 1..Len(log') => i \in 1..Len(log) /\ log'[i] = log[i]
  BY <1>3, <1>4
<1>11. Shares(cache)' /\ \A q \in Queries : Shares(query[q].agg)'
  BY <1>1, <1>10 DEF StatsInv, Shares
<1>12. Grown'
  BY <1>5 DEF Grown
<1>13. \A q \in Queries : Fresh(query[q], seen[q])'
  BY <1>6 DEF Fresh
<1>14. QED
  BY <1>7, <1>8, <1>9, <1>11, <1>12, <1>13 DEF StatsInv

-----------------------------------------------------------------------------
(***************************************************************************)
(* The queries.                                                            *)
(***************************************************************************)
\* One query moves on; what it takes in is of the log.
LEMMA QueryMoves ==
    ASSUME StatsInv, NEW q \in Queries, NEW r \in QueryRec, NEW s \in SeenRec,
           query' = [query EXCEPT ![q] = r], seen' = [seen EXCEPT ![q] = s],
           UNCHANGED <<log, writing, wpc, anchor, traffic, open, losses>>,
           cache' \in {cache, query[q].agg},
           Tells(r.agg), Shares(r.agg), losses = 0 => Covers(r, s), Fresh(r, s)
    PROVE  StatsInv'
<1>1. UNCHANGED <<log, writing, wpc, anchor, traffic, open, losses>>
  OBVIOUS
<1>2. query \in [Queries -> QueryRec] /\ seen \in [Queries -> SeenRec]
      /\ cache \in Aggs /\ query[q].agg \in Aggs
  BY DEF StatsInv, StatsTypeOK, QueryRec
<1>3. \A p \in Queries : \/ query'[p] = query[p] /\ seen'[p] = seen[p]
                         \/ query'[p] = r /\ seen'[p] = s
  BY <1>2
<1>4. StatsTypeOK'
  BY <1>1, <1>2 DEF StatsInv, StatsTypeOK
<1>5. Writing'
  BY <1>1 DEF StatsInv, Writing
<1>6. Tells(cache)' /\ \A p \in Queries : Tells(query[p].agg)'
  <2>1. Tells(cache) /\ \A p \in Queries : Tells(query[p].agg)
    BY DEF StatsInv
  <2>2. Tells(cache') /\ \A p \in Queries : Tells(query'[p].agg)
    BY <1>3, <2>1
  <2>3. QED
    BY <2>2 DEF Tells
<1>7. Shares(cache)' /\ \A p \in Queries : Shares(query[p].agg)'
  <2>1. Shares(cache) /\ \A p \in Queries : Shares(query[p].agg)
    BY DEF StatsInv
  <2>2. Shares(cache') /\ \A p \in Queries : Shares(query'[p].agg)
    BY <1>3, <2>1
  <2>3. QED
    BY <1>1, <2>2 DEF Shares
<1>8. Grown'
  <2> SUFFICES ASSUME losses = 0
               PROVE  /\ (anchor # NoSeq => anchor < Len(log))'
                      /\ Whole(cache)'
                      /\ \A p \in Queries : Covers(query[p], seen[p])'
    BY <1>1 DEF Grown
  <2>1. /\ anchor # NoSeq => anchor < Len(log)
        /\ Whole(cache) /\ \A p \in Queries : Covers(query[p], seen[p])
    BY DEF StatsInv, Grown
  <2>2. Whole(query[q].agg)
    BY <2>1 DEF Covers
  <2>3. Whole(cache') /\ \A p \in Queries : Covers(query'[p], seen'[p])
    BY <1>3, <2>1, <2>2
  <2>4. QED
    BY <1>1, <2>1, <2>3 DEF Covers, Whole
<1>9. \A p \in Queries : Fresh(query[p], seen[p])'
  <2>1. \A p \in Queries : Fresh(query[p], seen[p])
    BY DEF StatsInv
  <2>2. \A p \in Queries : Fresh(query'[p], seen'[p])
    BY <1>3, <2>1
  <2>3. QED
    BY <1>1, <2>2 DEF Fresh
<1>10. QED
  BY <1>4, <1>5, <1>6, <1>7, <1>8, <1>9 DEF StatsInv

\* An empty aggregate is of any log.
LEMMA EmptyWhole ==
    ASSUME StatsTypeOK
    PROVE  /\ EmptyCache \in Aggs /\ Tells(EmptyCache) /\ Shares(EmptyCache)
           /\ Whole(EmptyCache) /\ EmptyCache.offset = 0 /\ EmptyCache.integrity = "ok"
           /\ EmptyCache.last_hash = << >> /\ End(log, Len(log)) \in Nat /\ Len(log) \in Nat
<1>1. EmptyCache.integrity = "ok" /\ EmptyCache.last_hash = << >> /\ EmptyCache.offset = 0
  BY DEF EmptyCache
<1>2. Chained(log) /\ Len(log) \in Nat /\ Len(log) \in 0..Len(log)
  BY DEF StatsTypeOK, Chained
<1>3. End(log, Len(log)) \in Nat
  BY <1>2, EndType
<1>4. Shares(EmptyCache) /\ Whole(EmptyCache)
  BY <1>1, <1>2 DEF Shares, Whole, Prefix
<1>5. QED
  BY <1>1, <1>2, <1>3, <1>4, EmptyTells

\* An aggregate of the log that does not reach its end is short of a line.
LEMMA ShortOf ==
    ASSUME StatsTypeOK, NEW g \in Aggs, Tells(g), Whole(g)
    PROVE  /\ Len(g.last_hash) \in 0..Len(log) /\ g.offset = End(log, Len(g.last_hash))
           /\ g.last_hash = SubSeq(log, 1, Len(g.last_hash))
           /\ Len(g.last_hash) < Len(log) =>
                 /\ Len(g.last_hash) + 1 \in LinesAt(log, g.offset)
                 /\ g.offset + 2 <= End(log, Len(log))
           /\ \A i \in LinesAt(log, g.offset) : i - 1 = Len(g.last_hash)
<1> DEFINE L == g.last_hash
           n == Len(L)
<1>1. Chained(log) /\ Chained(L) /\ Prefix(L, log) /\ g.offset = End(L, n) /\ Len(log) \in Nat
  <2>1. Chained(log) /\ Chained(L) /\ Prefix(L, log) /\ g.offset = End(L, n)
    BY DEF StatsTypeOK, Tells, Whole
  <2>2. Len(log) \in Nat
    BY <2>1 DEF Chained
  <2>3. QED
    BY <2>1, <2>2
<1> HIDE DEF L
<1>2. n \in 0..Len(log) /\ L = SubSeq(log, 1, n) /\ \A i \in 0..n : End(L, i) = End(log, i)
  <2>1. Len(L) \in 0..Len(log) /\ \A i \in 0..Len(L) : End(L, i) = End(log, i)
    BY <1>1, PrefixIs
  <2>2. L = SubSeq(log, 1, Len(L))
    BY <1>1, PrefixIs, Zenon
  <2>3. QED
    BY <2>1, <2>2
<1> HIDE DEF n
<1>3. g.offset = End(log, n) /\ n \in Nat
  BY <1>1, <1>2
<1>4. ASSUME n < Len(log)
      PROVE  n + 1 \in LinesAt(log, g.offset) /\ g.offset + 2 <= End(log, Len(log))
  <2>1. n + 1 \in 0..Len(log) /\ n + 1 \in 1..Len(log) /\ Len(log) \in 0..Len(log)
        /\ n < n + 1 /\ n + 1 - 1 = n
    BY <1>1, <1>2, <1>4
  <2>2. /\ End(log, n) \in Nat /\ End(log, n + 1) \in Nat
        /\ End(log, n) < End(log, n + 1)
    BY <1>1, <1>2, <2>1, EndsApart
  <2>3. End(log, n) + 2 <= End(log, Len(log))
    BY <1>1, <1>2, <1>4, <2>1, EndsApart
  <2> DEFINE x == n + 1
  <2>4. x \in 1..Len(log) /\ x - 1 = n /\ End(log, n) < End(log, x)
    <3>1. x \in 1..Len(log) /\ x - 1 = n
      BY <1>3, <2>1
    <3>2. End(log, n) < End(log, x)
      BY <2>2, Zenon
    <3>3. QED
      BY <3>1, <3>2
  <2>5. x \in LinesAt(log, g.offset)
    <3> HIDE DEF x
    <3>1. Start(log, x) = End(log, n)
      BY <2>4 DEF Start
    <3>2. QED
      BY <1>3, <2>2, <2>4, <3>1 DEF LinesAt
  <2>6. QED
    BY <1>3, <2>3, <2>5
<1>5. ASSUME NEW i \in LinesAt(log, g.offset)
      PROVE  i - 1 = n
  <2>1. i \in 1..Len(log) /\ End(log, i - 1) <= End(log, n) /\ End(log, n) < End(log, i)
    BY <1>3 DEF LinesAt, Start
  <2>2. i \in 0..Len(log) /\ i - 1 \in 0..Len(log)
    BY <1>1, <2>1
  <2>3. n < i
    BY <1>1, <1>2, <2>1, <2>2, EndsApart
  <2>4. ~(n < i - 1)
    <3>1. /\ End(log, n) < End(log, i - 1) <=> n < i - 1
          /\ End(log, n) \in Nat /\ End(log, i - 1) \in Nat
      BY <1>1, <1>2, <2>2, EndsApart
    <3>2. QED
      BY <2>1, <3>1
  <2>5. QED
    BY <1>2, <2>2, <2>3, <2>4
<1>6. QED
  BY <1>2, <1>3, <1>4, <1>5 DEF n, L

LEMMA QueryAnchorKeeps ==
    ASSUME StatsInv, NEW q \in Queries, QueryAnchor(q)
    PROVE  StatsInv'
<1> DEFINE r == [Idle EXCEPT !.pc = "load", !.anchor = anchor]
           s == [Unseen EXCEPT !.lines = Len(log)]
<1>0. StatsTypeOK
  BY DEF StatsInv
<1>1. /\ query' = [query EXCEPT ![q] = r] /\ seen' = [seen EXCEPT ![q] = s]
      /\ UNCHANGED <<log, writing, wpc, anchor, traffic, open, cache, losses>>
  BY DEF QueryAnchor, Step
<1>2. /\ EmptyCache \in Aggs /\ Tells(EmptyCache) /\ Shares(EmptyCache)
      /\ Whole(EmptyCache) /\ EmptyCache.offset = 0 /\ EmptyCache.integrity = "ok"
      /\ EmptyCache.last_hash = << >> /\ End(log, Len(log)) \in Nat /\ Len(log) \in Nat
  BY <1>0, EmptyWhole
<1>3. r \in QueryRec /\ r.agg = EmptyCache /\ r.anchor = anchor /\ r.pc = "load"
  BY <1>0, <1>2 DEF Idle, QueryRec, Pcs, StatsTypeOK
<1>4. s \in SeenRec /\ s.lines = Len(log) /\ s.checked = FALSE
  BY <1>2 DEF Unseen, SeenRec
<1>5. losses = 0 /\ anchor # NoSeq => anchor < Len(log)
  BY DEF StatsInv, Grown
<1> HIDE DEF r, s
<1>6. losses = 0 => Covers(r, s)
  BY <1>2, <1>3, <1>4, <1>5 DEF Covers
<1>7. Fresh(r, s)
  BY <1>2, <1>3, <1>4 DEF Fresh
<1>8. QED
  BY <1>1, <1>2, <1>3, <1>4, <1>6, <1>7, QueryMoves

LEMMA LoadCacheKeeps ==
    ASSUME StatsInv, NEW q \in Queries, LoadCache(q)
    PROVE  StatsInv'
<1> DEFINE g == from_cache(cache)
           E == End(log, Len(log))
           r == [query[q] EXCEPT !.pc = IF LogLen > g.offset THEN "read" ELSE "report",
                                 !.agg = g]
           s == [seen[q] EXCEPT !.checked = (g = EmptyCache)]
<1>0. StatsTypeOK /\ cache \in Aggs /\ Tells(cache) /\ Shares(cache)
      /\ (losses = 0 => Whole(cache))
      /\ query[q] \in QueryRec /\ seen[q] \in SeenRec
  BY DEF StatsInv, StatsTypeOK, Grown
<1>1. /\ query' = [query EXCEPT ![q] = r] /\ seen' = [seen EXCEPT ![q] = s]
      /\ UNCHANGED <<log, writing, wpc, anchor, traffic, open, cache, losses>>
  BY DEF LoadCache, Step
<1>2. /\ EmptyCache \in Aggs /\ Tells(EmptyCache) /\ Shares(EmptyCache)
      /\ Whole(EmptyCache) /\ EmptyCache.offset = 0 /\ EmptyCache.integrity = "ok"
      /\ EmptyCache.last_hash = << >> /\ E \in Nat /\ Len(log) \in Nat
  BY <1>0, EmptyWhole
<1>3. LogLen \in Nat /\ E <= LogLen /\ LogLen <= E + 1
  BY <1>2 DEF LogLen
<1>4. g \in Aggs /\ Tells(g) /\ Shares(g) /\ (losses = 0 => Whole(g))
  BY <1>0, <1>2 DEF from_cache
<1>5. g.offset \in Nat /\ g.offset <= E + 1
  <2>1. cache.offset \in Nat
    BY <1>0 DEF Aggs
  <2>2. QED
    BY <1>2, <1>3, <2>1 DEF from_cache
<1> HIDE DEF g, E
<1>6. /\ r \in QueryRec /\ r.agg = g /\ r.anchor = query[q].anchor
      /\ r.pc = IF LogLen > g.offset THEN "read" ELSE "report"
  BY <1>0, <1>4 DEF QueryRec, Pcs
<1>7. s \in SeenRec /\ s.lines = seen[q].lines /\ s.checked = (g = EmptyCache)
  BY <1>0 DEF SeenRec
<1> HIDE DEF r, s
<1>8. ASSUME losses = 0 PROVE Covers(r, s)
  <2>1. Whole(g) /\ Covers(query[q], seen[q])
    BY <1>4, <1>8 DEF StatsInv, Grown
  <2>2. seen[q].lines <= Len(log) /\ seen[q].lines \in Nat
        /\ (query[q].anchor # NoSeq => query[q].anchor < seen[q].lines)
    BY <1>0, <2>1 DEF Covers, SeenRec
  <2>3. r.pc \in {"save", "report"} => Len(g.last_hash) >= seen[q].lines
    <3> SUFFICES ASSUME r.pc \in {"save", "report"} PROVE Len(g.last_hash) >= seen[q].lines
      OBVIOUS
    <3>1. ~(LogLen > g.offset)
      BY <1>6
    <3>2. Len(g.last_hash) \in 0..Len(log)
          /\ (Len(g.last_hash) < Len(log) => g.offset + 2 <= E)
      BY <1>0, <1>4, <2>1, ShortOf DEF E
    <3>3. ~(Len(g.last_hash) < Len(log))
      BY <1>2, <1>3, <1>5, <3>1, <3>2
    <3>4. QED
      BY <1>2, <2>2, <3>2, <3>3
  <2>4. QED
    BY <1>6, <1>7, <2>1, <2>2, <2>3 DEF Covers
<1>9. Fresh(r, s)
  <2>1. s.checked => Prefix(g.last_hash, log)
    BY <1>2, <1>7 DEF Whole
  <2>2. QED
    BY <1>5, <1>6, <2>1 DEF Fresh, E
<1>10. QED
  BY <1>1, <1>4, <1>6, <1>7, <1>8, <1>9, QueryMoves

LEMMA ReadLineKeeps ==
    ASSUME StatsInv, NEW q \in Queries, ReadLine(q)
    PROVE  StatsInv'
<1> DEFINE g == query[q].agg
           s == [seen[q] EXCEPT !.checked = TRUE]
<1>0. /\ StatsTypeOK /\ g \in Aggs /\ Tells(g) /\ query[q] \in QueryRec /\ seen[q] \in SeenRec
      /\ (losses = 0 => Covers(query[q], seen[q])) /\ Chained(log) /\ Len(log) \in Nat
  BY DEF StatsInv, StatsTypeOK, Grown, QueryRec, Chained
<1>1. PICK i \in LinesAt(log, g.offset) :
         /\ query[q].pc = "read"
         /\ query' = [query EXCEPT ![q] = [query[q] EXCEPT !.agg = read_line(g, log, i)]]
  <2>1. PICK i \in LinesAt(log, g.offset) :
           Step(q, "read", [query[q] EXCEPT !.agg = read_line(query[q].agg, log, i)])
    BY <1>0 DEF ReadLine, QueryRec
  <2>2. QED
    BY <2>1 DEF Step
<1>2. /\ seen' = [seen EXCEPT ![q] = s]
      /\ UNCHANGED <<log, writing, wpc, anchor, traffic, open, cache, losses>>
  BY DEF ReadLine
<1> DEFINE h == read_line(g, log, i)
           r == [query[q] EXCEPT !.agg = h]
<1> HIDE DEF h
<1>3. /\ h \in Aggs /\ Tells(h) /\ i \in 1..Len(log)
      /\ h.integrity = "ok" => h.last_hash = SubSeq(log, 1, i) /\ h.offset = End(log, i)
      /\ g.integrity = "ok" /\ g.last_hash = SubSeq(log, 1, i - 1) => h.integrity = "ok"
  <2> HIDE DEF g
  <2>1. h = read_line(g, log, i)
    BY DEF h
  <2>2. QED
    BY <1>0, <1>1, <2>1, ReadTells
<1>4. r \in QueryRec /\ r.agg = h /\ r.anchor = query[q].anchor /\ r.pc = "read"
  BY <1>0, <1>1, <1>3 DEF QueryRec
<1>5. s \in SeenRec /\ s.lines = seen[q].lines
  BY <1>0 DEF SeenRec
<1>6. query' = [query EXCEPT ![q] = r]
  BY <1>1 DEF h
<1> HIDE DEF r, s
<1>7. i \in 0..Len(log)
  BY <1>0, <1>3
<1>8. h.integrity = "ok" => Prefix(h.last_hash, log)
  BY <1>0, <1>3, <1>7, CutPrefix
<1>9. Shares(h)
  BY <1>8 DEF Shares, Prefix
<1>10. ASSUME losses = 0 PROVE Covers(r, s)
  <2>1. Covers(query[q], seen[q]) /\ Whole(g)
    BY <1>0, <1>10 DEF Covers
  <2>2. g.last_hash = SubSeq(log, 1, i - 1) /\ g.integrity = "ok"
    <3> HIDE DEF g
    <3>1. i - 1 = Len(g.last_hash) /\ g.last_hash = SubSeq(log, 1, Len(g.last_hash))
      BY <1>0, <1>1, <2>1, ShortOf
    <3>2. QED
      BY <2>1, <3>1 DEF Whole
  <2>3. Whole(h)
    BY <1>3, <1>8, <2>2 DEF Whole
  <2>4. QED
    BY <1>4, <1>5, <2>1, <2>3 DEF Covers
<1>11. Fresh(r, s)
  <2>1. End(log, i) <= End(log, Len(log)) /\ End(log, i) \in Nat /\ End(log, Len(log)) \in Nat
    <3>1. Len(log) \in 0..Len(log)
      BY <1>0
    <3>2. /\ End(log, i) \in Nat /\ End(log, Len(log)) \in Nat
          /\ End(log, Len(log)) < End(log, i) <=> Len(log) < i
      BY <1>0, <1>7, <3>1, EndsApart
    <3>3. QED
      BY <1>0, <1>7, <3>2
  <2>2. QED
    BY <1>3, <1>4, <1>8, <2>1 DEF Fresh
<1>12. QED
  BY <1>2, <1>3, <1>4, <1>5, <1>6, <1>9, <1>10, <1>11, QueryMoves

\* The later steps of a query keep its aggregate.
LEMMA QueryKeepsAgg ==
    ASSUME StatsInv, NEW q \in Queries, NEW pc \in {"save", "report"},
           query' = [query EXCEPT ![q] = [query[q] EXCEPT !.pc = pc]],
           UNCHANGED <<log, writing, wpc, anchor, traffic, open, losses, seen>>,
           cache' \in {cache, query[q].agg},
           query[q].pc = "save" \/ LinesAt(log, query[q].agg.offset) = {}
    PROVE  StatsInv'
<1> DEFINE g == query[q].agg
           s == seen[q]
           r == [query[q] EXCEPT !.pc = pc]
<1>0. /\ StatsTypeOK /\ g \in Aggs /\ Tells(g) /\ Shares(g) /\ query[q] \in QueryRec
      /\ s \in SeenRec /\ (losses = 0 => Covers(query[q], s)) /\ Fresh(query[q], s)
      /\ seen \in [Queries -> SeenRec] /\ Len(log) \in Nat
  BY DEF StatsInv, StatsTypeOK, Grown, QueryRec, Chained
<1>1. seen' = [seen EXCEPT ![q] = s]
  BY <1>0
<1>2. r \in QueryRec /\ r.agg = g /\ r.anchor = query[q].anchor
  BY <1>0 DEF QueryRec, Pcs
<1>3. ASSUME losses = 0 PROVE Covers(r, s)
  <2>1. Covers(query[q], s) /\ Whole(g)
    BY <1>0, <1>3 DEF Covers
  <2>2. Len(g.last_hash) >= s.lines
    <3>1. CASE query[q].pc = "save"
      BY <2>1, <3>1 DEF Covers
    <3>2. CASE LinesAt(log, g.offset) = {}
      <4>1. Len(g.last_hash) \in 0..Len(log)
            /\ (Len(g.last_hash) < Len(log) => Len(g.last_hash) + 1 \in LinesAt(log, g.offset))
        <5> HIDE DEF g
        <5>1. QED
          BY <1>0, <2>1, ShortOf
      <4>2. s.lines <= Len(log) /\ s.lines \in Nat
        BY <1>0, <2>1 DEF Covers, SeenRec
      <4>3. QED
        BY <1>0, <3>2, <4>1, <4>2
    <3>3. QED
      BY <3>1, <3>2
  <2>3. QED
    BY <1>2, <2>1, <2>2 DEF Covers
<1>4. Fresh(r, s)
  BY <1>0, <1>2 DEF Fresh
<1>5. query' = [query EXCEPT ![q] = r]
  OBVIOUS
<1> HIDE DEF r, s
<1>6. QED
  BY <1>0, <1>1, <1>2, <1>3, <1>4, <1>5, QueryMoves

LEMMA FinishKeeps ==
    ASSUME StatsInv, NEW q \in Queries, Finish(q)
    PROVE  StatsInv'
<1>0. StatsTypeOK
  BY DEF StatsInv
<1>1. /\ query' = [query EXCEPT ![q] = Idle] /\ seen' = [seen EXCEPT ![q] = Unseen]
      /\ UNCHANGED <<log, writing, wpc, anchor, traffic, open, cache, losses>>
  BY DEF Finish
<1>2. /\ EmptyCache \in Aggs /\ Tells(EmptyCache) /\ Shares(EmptyCache)
      /\ Whole(EmptyCache) /\ EmptyCache.offset = 0 /\ EmptyCache.integrity = "ok"
      /\ EmptyCache.last_hash = << >> /\ End(log, Len(log)) \in Nat /\ Len(log) \in Nat
  BY <1>0, EmptyWhole
<1>3. Idle \in QueryRec /\ Idle.agg = EmptyCache /\ Idle.anchor = NoSeq /\ Idle.pc = "idle"
  BY <1>2 DEF Idle, QueryRec, Pcs
<1>4. Unseen \in SeenRec /\ Unseen.lines = 0 /\ Unseen.checked = FALSE
  BY DEF Unseen, SeenRec
<1>5. Covers(Idle, Unseen)
  BY <1>2, <1>3, <1>4 DEF Covers
<1>6. Fresh(Idle, Unseen)
  BY <1>2, <1>3, <1>4 DEF Fresh
<1>7. QED
  BY <1>1, <1>2, <1>3, <1>4, <1>5, <1>6, QueryMoves

LEMMA StatsNext ==
    StatsInv /\ [Next]_vars => StatsInv'
<1> SUFFICES ASSUME StatsInv, [Next]_vars PROVE StatsInv'
  OBVIOUS
<1>1. CASE AppendPart
  BY <1>1, AppendPartKeeps
<1>2. CASE AppendLine
  BY <1>2, AppendLineKeeps
<1>3. CASE AppendSeal
  BY <1>3, AppendSealKeeps
<1>4. CASE LoseTail
  BY <1>4, LoseTailKeeps
<1>5. ASSUME NEW q \in Queries, QueryAnchor(q) PROVE StatsInv'
  BY <1>5, QueryAnchorKeeps
<1>6. ASSUME NEW q \in Queries, LoadCache(q) PROVE StatsInv'
  BY <1>6, LoadCacheKeeps
<1>7. ASSUME NEW q \in Queries, ReadLine(q) PROVE StatsInv'
  BY <1>7, ReadLineKeeps
<1>8. ASSUME NEW q \in Queries, ReadEnds(q) PROVE StatsInv'
  <2>1. /\ query' = [query EXCEPT ![q] = [query[q] EXCEPT !.pc = "save"]]
        /\ UNCHANGED <<log, writing, wpc, anchor, traffic, open, losses, seen, cache>>
        /\ LinesAt(log, query[q].agg.offset) = {}
    BY <1>8 DEF ReadEnds, Step
  <2>2. QED
    BY <2>1, QueryKeepsAgg
<1>9. ASSUME NEW q \in Queries, SaveCache(q) PROVE StatsInv'
  <2>1. /\ query' = [query EXCEPT ![q] = [query[q] EXCEPT !.pc = "report"]]
        /\ UNCHANGED <<log, writing, wpc, anchor, traffic, open, losses, seen>>
        /\ cache' = query[q].agg /\ query[q].pc = "save"
    BY <1>9 DEF SaveCache, Step
  <2>2. QED
    BY <2>1, QueryKeepsAgg
<1>10. ASSUME NEW q \in Queries, Finish(q) PROVE StatsInv'
  BY <1>10, FinishKeeps
<1>11. CASE UNCHANGED vars
  <2>1. UNCHANGED <<log, writing, wpc, anchor, traffic, open, cache, query, losses, seen>>
    BY <1>11 DEF vars
  <2>2. StatsTypeOK' /\ Writing'
    BY <2>1 DEF StatsInv, StatsTypeOK, Writing
  <2>3. losses = 0 /\ anchor' # NoSeq => anchor' < Len(log)
    BY <2>1 DEF StatsInv, Grown
  <2>4. QED
    BY <2>1, <2>2, <2>3, Still
<1>12. QED
  BY <1>1, <1>2, <1>3, <1>4, <1>5, <1>6, <1>7, <1>8, <1>9, <1>10, <1>11 DEF Next

-----------------------------------------------------------------------------
\* The invariant of load_and_catch_up and Auditor::append, for any queries,
\* traffic, losses and room for streams.
THEOREM StatsSafe == Spec => []StatsInv
<1>1. QED
  BY StatsInit, StatsNext, PTL DEF Spec

\* A log that only grew is never reported as damaged (the integrity of query,
\* after load_and_catch_up): not beside a half-written or unanchored append,
\* and not from a cache that another query saved.
THEOREM HealthyIsQuiet == Spec => []HealthyNeverFlagged
<1>1. QED
  BY StatsSafe, InvHealthy, PTL

\* What load_and_catch_up adds up over any number of queries and caches is
\* what the log says read as a whole: every counter, per model and window, and
\* the alert count.  A log that lost lines is not passed off as the old one.
THEOREM ReportsTrue == Spec => []ReportTrue
<1>1. QED
  BY StatsSafe, InvTrue, PTL
=============================================================================
