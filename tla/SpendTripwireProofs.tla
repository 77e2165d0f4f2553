------------------------ MODULE SpendTripwireProofs ------------------------
(***************************************************************************)
(* Proofs about SpendTripwire, for any number of sessions, of requests in  *)
(* flight and of trips, any fingerprints, any configuration of the         *)
(* detectors and any capacity of their rings.                              *)
(***************************************************************************)
EXTENDS SpendTripwire, FiniteSetTheorems, SequenceTheorems, TLAPS

-----------------------------------------------------------------------------
(***************************************************************************)
(* Rings.                                                                  *)
(***************************************************************************)

\* A set of positions that has every position below one of its own is an
\* initial segment.
LEMMA Segment ==
    ASSUME NEW n \in Nat, NEW old \in SUBSET (1..n), \A i \in old : 1..i \subseteq old
    PROVE  Cardinality(old) \in 0..n /\ old = 1..Cardinality(old)
<1>1. IsFiniteSet(1..n) /\ Cardinality(1..n) = n
  BY FS_Interval
<1>2. IsFiniteSet(old) /\ Cardinality(old) \in Nat /\ Cardinality(old) <= n
  BY <1>1, FS_Subset, FS_CardinalityType
<1> DEFINE m == Cardinality(old)
<1>3. IsFiniteSet(1..m) /\ Cardinality(1..m) = m
  BY <1>2, FS_Interval
<1>4. ASSUME NEW i \in old PROVE i <= m
  <2>1. IsFiniteSet(1..i) /\ Cardinality(1..i) = i
    BY FS_Interval
  <2>2. 1..i \in SUBSET old
    OBVIOUS
  <2>3. Cardinality(1..i) <= m
    BY <1>2, <2>2, FS_Subset
  <2>4. QED
    BY <2>1, <2>3
<1>5. old \in SUBSET (1..m)
  BY <1>4
<1>6. old = 1..m
  BY <1>3, <1>5, FS_Subset
<1>7. QED
  BY <1>2, <1>6

\* Pruning drops from the front exactly what is too old.
LEMMA Pruned ==
    ASSUME NEW S, NEW ring \in Seq(S)
    PROVE  \E m \in 0..Len(ring) :
              /\ FromCutoff(ring) \in Seq(S)
              /\ Len(FromCutoff(ring)) = Len(ring) - m
              /\ \A i \in 1..(Len(ring) - m) : FromCutoff(ring)[i] = ring[m + i]
              /\ \A i \in 1..m : ring[i].t < Cutoff
              /\ m < Len(ring) => ~(ring[m + 1].t < Cutoff)
<1> DEFINE n   == Len(ring)
           old == {i \in 1..n : \A j \in 1..i : ring[j].t < Cutoff}
           m   == Cardinality(old)
<1>1. n \in Nat /\ \A i \in 1..n : ring[i] \in S
  OBVIOUS
<1>2. m \in 0..n /\ old = 1..m
  <2>1. old \in SUBSET (1..n) /\ \A i \in old : 1..i \subseteq old
    OBVIOUS
  <2> HIDE DEF old
  <2>2. QED
    BY <1>1, <2>1, Segment
<1>3. \A i \in 1..m : ring[i].t < Cutoff
  <2>1. \A i \in old : ring[i].t < Cutoff
    OBVIOUS
  <2> HIDE DEF old, m
  <2>2. QED
    BY <1>2, <2>1
<1>4. ASSUME m < n PROVE ~(ring[m + 1].t < Cutoff)
  <2>1. m + 1 \in 1..n /\ m + 1 \notin old
    <3> HIDE DEF old, m
    <3>1. QED
      BY <1>1, <1>2, <1>4
  <2>2. \E j \in 1..(m + 1) : ~(ring[j].t < Cutoff)
    BY <2>1
  <2> HIDE DEF old, m
  <2>3. QED
    BY <1>2, <1>3, <2>2
<1>5. FromCutoff(ring) = SubSeq(ring, m + 1, n)
  BY DEF FromCutoff
<1> HIDE DEF m, old
<1>6. \A i \in (m + 1)..n : ring[i] \in S
  BY <1>1, <1>2
<1>7. /\ SubSeq(ring, m + 1, n) \in Seq(S)
      /\ Len(SubSeq(ring, m + 1, n)) = IF m + 1 <= n THEN n - (m + 1) + 1 ELSE 0
      /\ \A i \in 1..(n - (m + 1) + 1) : SubSeq(ring, m + 1, n)[i] = ring[(m + 1) + i - 1]
  <2>1. m + 1 \in Int /\ n \in Int
    BY <1>1, <1>2
  <2> HIDE DEF n
  <2>2. QED
    BY <1>6, <2>1, SubSeqProperties
<1>8. /\ Len(FromCutoff(ring)) = n - m
      /\ \A i \in 1..(n - m) : FromCutoff(ring)[i] = ring[m + i]
  BY <1>1, <1>2, <1>5, <1>7
<1>9. QED
  BY <1>2, <1>3, <1>4, <1>5, <1>7, <1>8

\* A push adds at the back, and drops the front of a ring that is full.
LEMMA PushedRing ==
    ASSUME NEW S, NEW ring \in Seq(S), NEW x \in S
    PROVE  \E d \in {0, 1} :
              /\ Pushed(ring, x) \in Seq(S)
              /\ Len(Pushed(ring, x)) = Len(ring) + 1 - d
              /\ Len(Pushed(ring, x)) >= 1
              /\ \A i \in 1..(Len(ring) - d) : Pushed(ring, x)[i] = ring[i + d]
              /\ Pushed(ring, x)[Len(ring) + 1 - d] = x
              /\ d = 1 => Len(Pushed(ring, x)) >= MaxEvents
<1> DEFINE all == Append(ring, x)
<1>0. Len(ring) \in Nat /\ MaxEvents \in Nat \ {0}
  BY ConfigAssumption
<1>1. /\ all \in Seq(S) /\ all # << >> /\ Len(all) = Len(ring) + 1
      /\ \A i \in 1..Len(ring) : all[i] = ring[i]
      /\ all[Len(ring) + 1] = x
  BY AppendProperties
<1> HIDE DEF all
<1>2. CASE Len(all) > MaxEvents
  <2>1. Pushed(ring, x) = Tail(all)
    BY <1>2 DEF Pushed, all
  <2>2. /\ Tail(all) \in Seq(S) /\ Len(Tail(all)) = Len(all) - 1
        /\ \A i \in 1..Len(Tail(all)) : Tail(all)[i] = all[i + 1]
    BY <1>1, HeadTailProperties
  <2>3. /\ Len(Pushed(ring, x)) = Len(ring) + 1 - 1 /\ Len(ring) >= MaxEvents
        /\ Pushed(ring, x) \in Seq(S)
    BY <1>0, <1>1, <1>2, <2>1, <2>2
  <2>4. /\ \A i \in 1..(Len(ring) - 1) : Pushed(ring, x)[i] = ring[i + 1]
        /\ Pushed(ring, x)[Len(ring)] = x
    BY <1>0, <1>1, <2>1, <2>2, <2>3
  <2>5. QED
    BY <1>0, <2>3, <2>4
<1>3. CASE ~(Len(all) > MaxEvents)
  <2>1. Pushed(ring, x) = all
    BY <1>3 DEF Pushed, all
  <2>2. QED
    BY <1>0, <1>1, <2>1
<1>4. QED
  BY <1>2, <1>3
-----------------------------------------------------------------------------
(***************************************************************************)
(* The ring of a session and its history.  The ring is the end of the      *)
(* history; what is in it lies in the window of the last request; and what *)
(* is no longer in it does not, unless the ring is full.                   *)
(***************************************************************************)
Events == [t : Nat, fp : Fps]

RingOf(h, r) ==
    /\ Len(r) <= Len(h)
    /\ \A i \in 1..Len(r) : r[i] = h[Len(h) - Len(r) + i]
    /\ \A i, j \in 1..Len(h) : i <= j => h[i].t <= h[j].t
    /\ Len(h) > 0 => Len(r) > 0
    /\ \A i \in 1..Len(r) : r[i].t + Window >= h[Len(h)].t
    /\ Len(r) < Len(h) => \/ h[Len(h) - Len(r)].t + Window < h[Len(h)].t
                          \/ Len(r) >= MaxEvents

\* Too old means outside the window that ends now.
LEMMA TooOld ==
    ASSUME now \in Nat, NEW t \in Nat
    PROVE  t < Cutoff <=> t + Window < now
BY ConfigAssumption DEF Cutoff

\* observe keeps the ring the end of the history.
LEMMA ObservedRing ==
    ASSUME now \in Nat, NEW h \in Seq(Events), NEW r \in Seq(Events), RingOf(h, r),
           \A i \in 1..Len(h) : h[i].t <= now, NEW e \in Events, e.t = now
    PROVE  /\ Pushed(FromCutoff(r), e) \in Seq(Events) /\ Append(h, e) \in Seq(Events)
           /\ RingOf(Append(h, e), Pushed(FromCutoff(r), e))
<1> DEFINE p == FromCutoff(r)
           q == Pushed(p, e)
           g == Append(h, e)
           n == Len(h)
           k == Len(h) - Len(r)
<1>0. n \in Nat /\ Len(r) \in Nat /\ k \in Nat /\ Window \in Nat /\ MaxEvents \in Nat
  BY ConfigAssumption DEF RingOf
<1>1. /\ g \in Seq(Events) /\ Len(g) = n + 1
      /\ \A i \in 1..n : g[i] = h[i]
      /\ g[n + 1] = e
  BY AppendProperties
<1>2. PICK m \in 0..Len(r) :
         /\ p \in Seq(Events) /\ Len(p) = Len(r) - m
         /\ \A i \in 1..(Len(r) - m) : p[i] = r[m + i]
         /\ \A i \in 1..m : r[i].t < Cutoff
         /\ m < Len(r) => ~(r[m + 1].t < Cutoff)
  BY Pruned
<1>3. PICK d \in {0, 1} :
         /\ q \in Seq(Events) /\ Len(q) = Len(p) + 1 - d /\ Len(q) >= 1
         /\ \A i \in 1..(Len(p) - d) : q[i] = p[i + d]
         /\ q[Len(p) + 1 - d] = e
         /\ d = 1 => Len(q) >= MaxEvents
  BY <1>2, PushedRing
<1>4. /\ \A i \in 1..n : h[i].t \in Nat /\ h[i].t <= now
      /\ \A i \in 1..Len(r) : r[i] = h[k + i] /\ r[i].t \in Nat
      /\ \A i, j \in 1..n : i <= j => h[i].t <= h[j].t
      /\ e.t \in Nat
  <2>1. \A i \in 1..n : h[i] \in Events
    OBVIOUS
  <2>2. \A i \in 1..Len(r) : r[i] \in Events
    OBVIOUS
  <2>3. \A x \in Events : x.t \in Nat
    BY DEF Events
  <2>4. \A i \in 1..Len(r) : r[i] = h[k + i]
    BY <1>0 DEF RingOf
  <2>5. \A i, j \in 1..n : i <= j => h[i].t <= h[j].t
    BY DEF RingOf
  <2>6. QED
    BY <2>1, <2>2, <2>3, <2>4, <2>5
<1>4a. n > 0 /\ Len(r) < n => h[k].t + Window < h[n].t \/ Len(r) >= MaxEvents
  BY DEF RingOf
<1>4b. n = k + Len(r)
  BY <1>0
<1> HIDE DEF p, q, g, n, k
<1>5. Len(q) <= n + 1 /\ (n + 1) - Len(q) = k + m + d
  BY <1>0, <1>2, <1>3, <1>4b
<1>6. \A i \in 1..Len(q) : q[i] = g[(n + 1) - Len(q) + i]
  <2> SUFFICES ASSUME NEW i \in 1..Len(q) PROVE q[i] = g[k + m + d + i]
    BY <1>5
  <2>1. CASE i = Len(q)
    <3>1. k + m + d + i = n + 1 /\ i = Len(p) + 1 - d
      BY <1>0, <1>2, <1>3, <1>4b, <2>1
    <3>2. QED
      BY <1>1, <1>3, <3>1
  <2>2. CASE i < Len(q)
    <3>0. Len(p) \in Nat /\ Len(p) = Len(r) - m /\ Len(q) = Len(p) + 1 - d
      BY <1>0, <1>2, <1>3
    <3>1. i \in 1..(Len(p) - d) /\ i + d \in 1..(Len(r) - m) /\ m + (i + d) \in 1..Len(r)
      <4>1. i \in 1..(Len(p) - d) /\ i + d \in 1..Len(p)
        BY <2>2, <3>0
      <4>2. QED
        BY <1>0, <3>0, <4>1
    <3>2. q[i] = r[m + (i + d)]
      BY <1>2, <1>3, <3>1
    <3>3. q[i] = h[k + (m + (i + d))] /\ k + (m + (i + d)) \in 1..n
      BY <1>0, <1>4, <1>4b, <3>1, <3>2
    <3>4. k + (m + (i + d)) = k + m + d + i
      BY <1>0, <1>2, <1>3
    <3>5. QED
      BY <1>1, <3>3, <3>4
  <2>3. QED
    BY <1>3, <2>1, <2>2
<1>7. \A i, j \in 1..(n + 1) : i <= j => g[i].t <= g[j].t
  <2> SUFFICES ASSUME NEW i \in 1..(n + 1), NEW j \in 1..(n + 1), i <= j
               PROVE  g[i].t <= g[j].t
    OBVIOUS
  <2>1. CASE j \in 1..n
    <3>1. i \in 1..n
      BY <1>0, <2>1
    <3>2. g[i] = h[i] /\ g[j] = h[j] /\ h[i].t <= h[j].t
      BY <1>1, <1>4, <2>1, <3>1
    <3>3. QED
      BY <3>2
  <2>2. CASE j = n + 1 /\ i \in 1..n
    BY <1>1, <1>4, <2>2
  <2>3. CASE j = n + 1 /\ i = n + 1
    BY <1>1, <1>4, <2>3
  <2>4. QED
    BY <1>0, <2>1, <2>2, <2>3
<1>8. \A i \in 1..Len(q) : q[i].t + Window >= now
  <2> SUFFICES ASSUME NEW i \in 1..Len(q) PROVE g[k + m + d + i].t + Window >= now
    BY <1>5, <1>6
  <2>1. CASE i = Len(q)
    <3>1. k + m + d + i = n + 1
      BY <1>0, <1>2, <1>3, <1>4b, <2>1
    <3>2. QED
      BY <1>0, <1>1, <3>1, SMTT(30)
  <2>2. CASE i < Len(q)
    <3>1. m < Len(r) /\ m + 1 \in 1..Len(r) /\ k + (m + 1) \in 1..n /\ k + m + d + i \in 1..n
          /\ k + (m + 1) <= k + m + d + i
      <4>1. /\ k \in Nat /\ m \in Nat /\ d \in Nat /\ i \in Nat /\ Len(r) \in Nat /\ Len(q) \in Nat
            /\ 1 <= i /\ i < Len(q)
        BY <1>0, <1>2, <1>3, <2>2
      <4>2. Len(p) = Len(r) - m /\ Len(q) = Len(p) + 1 - d
        BY <1>0, <1>2, <1>3
      <4>3. m + d + i <= Len(r)
        BY <4>1, <4>2
      <4>4. \A a, b, c, j, l \in Nat : 1 <= j /\ b + c + j <= l =>
               /\ b < l /\ b + 1 \in 1..l /\ a + (b + 1) \in 1..(a + l)
               /\ a + b + c + j \in 1..(a + l) /\ a + (b + 1) <= a + b + c + j
        OBVIOUS
      <4>5. QED
        BY <1>4b, <4>1, <4>3, <4>4
    <3>2. r[m + 1] = h[k + (m + 1)] /\ r[m + 1].t \in Nat
      BY <1>4, <3>1
    <3>3. h[k + (m + 1)].t + Window >= now
      <4>1. ~(r[m + 1].t + Window < now)
        BY <1>2, <3>1, <3>2, TooOld
      <4>2. h[k + (m + 1)].t \in Nat /\ ~(h[k + (m + 1)].t + Window < now)
        BY <3>2, <4>1
      <4>3. \A a, w, b \in Nat : ~(a + w < b) => a + w >= b
        OBVIOUS
      <4>4. QED
        BY <1>0, <4>2, <4>3
    <3>4. h[k + (m + 1)].t <= h[k + m + d + i].t /\ g[k + m + d + i] = h[k + m + d + i]
      BY <1>1, <1>4, <3>1
    <3>5. h[k + (m + 1)].t \in Nat /\ h[k + m + d + i].t \in Nat
      BY <1>4, <3>1
    <3>6. \A a, w, b, c \in Nat : a + w >= b /\ a <= c => c + w >= b
      OBVIOUS
    <3>7. h[k + m + d + i].t + Window >= now
      BY <1>0, <3>3, <3>4, <3>5, <3>6
    <3>8. QED
      BY <3>4, <3>7
  <2>3. QED
    BY <1>3, <2>1, <2>2
<1>9. Len(q) < n + 1 => g[(n + 1) - Len(q)].t + Window < now \/ Len(q) >= MaxEvents
  <2> SUFFICES ASSUME Len(q) < n + 1, d = 0 PROVE g[k + m].t + Window < now \/ Len(q) >= MaxEvents
    <3>1. d = 0 => k + m = (n + 1) - Len(q)
      BY <1>0, <1>2, <1>5
    <3>2. QED
      BY <1>3, <3>1
  <2>1. k + m \in 1..n
    BY <1>0, <1>2, <1>3, <1>4b, <1>5
  <2>2. g[k + m] = h[k + m]
    BY <1>1, <2>1
  <2>3. CASE m > 0
    <3>1. r[m].t < Cutoff /\ r[m] = h[k + m] /\ r[m].t \in Nat
      BY <1>0, <1>2, <1>4, <2>3
    <3>2. QED
      BY <2>2, <3>1, TooOld
  <2>4. CASE m = 0
    <3>1. k > 0 /\ n > 0 /\ Len(r) < n /\ Len(q) = Len(r) + 1
      BY <1>0, <1>2, <1>3, <1>4b, <2>1, <2>4
    <3>2. h[k].t + Window < h[n].t \/ Len(r) >= MaxEvents
      BY <1>4a, <3>1
    <3>3. h[k].t \in Nat /\ h[n].t \in Nat /\ h[n].t <= now /\ k + m = k
      BY <1>0, <1>4, <1>4b, <2>1, <2>4, <3>1
    <3>4. \A a, w, b, c \in Nat : a + w < b /\ b <= c => a + w < c
      OBVIOUS
    <3>5. h[k].t + Window < now \/ Len(q) >= MaxEvents
      <4>1. CASE Len(r) >= MaxEvents
        BY <1>0, <3>1, <4>1
      <4>2. CASE h[k].t + Window < h[n].t
        BY <1>0, <3>3, <3>4, <4>2
      <4>3. QED
        BY <3>2, <4>1, <4>2
    <3>6. QED
      BY <2>2, <3>3, <3>5
  <2>5. QED
    BY <1>0, <1>2, <2>3, <2>4
<1>10. RingOf(g, q)
  <2>1. g[Len(g)].t = now /\ Len(g) = n + 1
    BY <1>1
  <2>2. QED
    BY <1>0, <1>3, <1>5, <1>6, <1>7, <1>8, <1>9, <2>1 DEF RingOf
<1>11. QED
  BY <1>1, <1>3, <1>10 DEF p, q, g

\* What the ring counts is what the end of the history counts.
LEMMA CountedInHistory ==
    ASSUME NEW h \in Seq(Events), NEW r \in Seq(Events), RingOf(h, r), NEW fp
    PROVE  /\ IsFiniteSet({i \in (Len(h) - Len(r) + 1)..Len(h) : h[i].fp = fp})
           /\ Count(r, fp) = Cardinality({i \in (Len(h) - Len(r) + 1)..Len(h) : h[i].fp = fp})
           /\ Count(r, fp) \in Nat
<1> DEFINE k == Len(h) - Len(r)
           n == Len(h)
           A == {i \in 1..Len(r) : r[i].fp = fp}
           B == {i \in (k + 1)..n : h[i].fp = fp}
           f == [i \in A |-> i + k]
<1>0. n \in Nat /\ Len(r) \in Nat /\ k \in Nat /\ n = k + Len(r)
      /\ \A i \in 1..Len(r) : r[i] = h[k + i]
  BY DEF RingOf
<1>1. IsFiniteSet(A)
  <2>1. IsFiniteSet(1..Len(r)) /\ A \in SUBSET (1..Len(r))
    BY <1>0, FS_Interval
  <2>2. QED
    BY <2>1, FS_Subset
<1> HIDE DEF k, n
<1>2. f \in [A -> B]
  BY <1>0
<1>3. \A i, j \in A : f[i] = f[j] => i = j
  BY <1>0
<1>4. \A j \in B : \E i \in A : f[i] = j
  <2> SUFFICES ASSUME NEW j \in B PROVE \E i \in A : f[i] = j
    OBVIOUS
  <2>1. j - k \in 1..Len(r) /\ k + (j - k) = j
    BY <1>0
  <2>2. j - k \in A
    BY <1>0, <2>1
  <2>3. f[j - k] = j
    BY <1>0, <2>1, <2>2
  <2>4. QED
    BY <2>2, <2>3
<1>5. f \in Bijection(A, B)
  <2> HIDE DEF f, A, B
  <2>1. QED
    BY <1>2, <1>3, <1>4 DEF Bijection, Injection, Surjection, IsInjective
<1>6. ExistsBijection(A, B)
  BY <1>5 DEF ExistsBijection
<1>7. IsFiniteSet(B) /\ Cardinality(B) = Cardinality(A) /\ Cardinality(A) \in Nat
  BY <1>1, <1>6, FS_Bijection, FS_CardinalityType
<1>8. Count(r, fp) = Cardinality(A)
  BY DEF Count
<1>9. QED
  BY <1>7, <1>8 DEF k, n

\* The window of the last request, counted in the ring: never too much, and
\* nothing is missing if the window fits into the ring.
LEMMA WindowCounted ==
    ASSUME NEW s \in Sessions, history[s] \in Seq(Events), NEW r \in Seq(Events),
           RingOf(history[s], r), Len(history[s]) > 0
    PROVE  LET n == Len(history[s]) IN
           /\ Repetitions(s) \in Nat
           /\ Count(r, history[s][n].fp) <= Repetitions(s)
           /\ Cardinality(InWindow(s)) <= MaxEvents => Count(r, history[s][n].fp) = Repetitions(s)
<1> DEFINE h  == history[s]
           n  == Len(h)
           k  == n - Len(r)
           fp == h[n].fp
           W  == {i \in 1..n : h[i].t + Window >= h[n].t}
           B  == {i \in (k + 1)..n : h[i].fp = fp}
           C  == {i \in W : h[i].fp = fp}
<1>0. n \in Nat /\ n >= 1 /\ Len(r) \in Nat /\ k \in Nat /\ Window \in Nat /\ MaxEvents \in Nat
      /\ Len(r) <= n
  BY ConfigAssumption DEF RingOf
<1>1. /\ \A i \in 1..n : h[i].t \in Nat
      /\ \A i, j \in 1..n : i <= j => h[i].t <= h[j].t
      /\ \A i \in 1..Len(r) : h[k + i].t + Window >= h[n].t
      /\ Len(r) < n => h[k].t + Window < h[n].t \/ Len(r) >= MaxEvents
  <2>1. \A i \in 1..n : h[i] \in Events
    OBVIOUS
  <2>2. \A x \in Events : x.t \in Nat
    BY DEF Events
  <2>3. QED
    BY <2>1, <2>2 DEF RingOf
<1>2. InWindow(s) = W /\ Repetitions(s) = Cardinality(C)
  BY DEF InWindow, Repetitions
<1>3. IsFiniteSet(W) /\ IsFiniteSet(C) /\ Cardinality(C) \in Nat
  <2>1. W \in SUBSET (1..n) /\ C \in SUBSET W
    OBVIOUS
  <2> HIDE DEF n, W, C
  <2>2. IsFiniteSet(1..n)
    BY <1>0, FS_Interval
  <2>3. IsFiniteSet(W)
    BY <2>1, <2>2, FS_Subset
  <2>4. IsFiniteSet(C)
    BY <2>1, <2>3, FS_Subset
  <2>5. QED
    BY <2>3, <2>4, FS_CardinalityType
<1>4. IsFiniteSet(B) /\ Count(r, fp) = Cardinality(B) /\ Count(r, fp) \in Nat
  <2>1. h \in Seq(Events) /\ RingOf(h, r)
    OBVIOUS
  <2>2. B = {i \in (Len(h) - Len(r) + 1)..Len(h) : h[i].fp = fp}
    OBVIOUS
  <2> HIDE DEF h, n, k, fp, B
  <2>3. /\ IsFiniteSet({i \in (Len(h) - Len(r) + 1)..Len(h) : h[i].fp = fp})
        /\ Count(r, fp) = Cardinality({i \in (Len(h) - Len(r) + 1)..Len(h) : h[i].fp = fp})
        /\ Count(r, fp) \in Nat
    BY <2>1, CountedInHistory, Zenon
  <2>4. QED
    BY <2>2, <2>3, Zenon
<1> HIDE DEF n, k, h, fp
<1>5. ASSUME NEW i \in (k + 1)..n PROVE i \in W
  <2>1. i - k \in 1..Len(r) /\ k + (i - k) = i /\ i \in 1..n
    BY <1>0 DEF k
  <2>2. h[i].t + Window >= h[n].t
    BY <1>1, <2>1
  <2>3. QED
    BY <2>1, <2>2
<1>6. B \in SUBSET C
  BY <1>5
<1>7. Cardinality(B) <= Cardinality(C)
  BY <1>3, <1>6, FS_Subset
<1>8. ASSUME Cardinality(W) <= MaxEvents PROVE B = C
  <2>1. ASSUME NEW i \in W, i <= k PROVE FALSE
    <3>1. i \in 1..n /\ k \in 1..n /\ Len(r) < n /\ n = k + Len(r)
      BY <1>0, <2>1 DEF k
    <3>2. h[i].t + Window >= h[n].t /\ h[i].t <= h[k].t
      BY <1>1, <2>1, <3>1
    <3>3. h[k].t \in Nat /\ h[i].t \in Nat /\ h[n].t \in Nat
      BY <1>0, <1>1, <3>1
    <3>4. \A a, b, c, w \in Nat : a + w >= c /\ a <= b => b + w >= c /\ ~(b + w < c)
      OBVIOUS
    <3>5. h[k].t + Window >= h[n].t /\ ~(h[k].t + Window < h[n].t)
      BY <1>0, <3>2, <3>3, <3>4
    <3>6. Len(r) >= MaxEvents
      BY <1>1, <3>1, <3>5
    <3>7. k..n \in SUBSET W
      <4>1. k \in W
        BY <3>1, <3>5
      <4>2. QED
        BY <1>0, <1>5, <4>1
    <3>8. Cardinality(k..n) = Len(r) + 1
      <4>1. k \in Int /\ n \in Int /\ ~(k > n) /\ n - k + 1 = Len(r) + 1
        BY <1>0, <3>1
      <4>2. QED
        BY <4>1, FS_Interval
    <3> HIDE DEF W
    <3>9. Cardinality(k..n) <= Cardinality(W) /\ Cardinality(W) \in Nat
      BY <1>3, <3>7, FS_Subset, FS_CardinalityType
    <3>10. QED
      BY <1>0, <1>8, <3>6, <3>8, <3>9
  <2>2. \A i \in W : i \in (k + 1)..n
    BY <1>0, <2>1
  <2>3. C \subseteq B
    BY <2>2
  <2>4. QED
    BY <1>6, <2>3
<1>9. /\ Cardinality(C) \in Nat /\ Count(r, fp) <= Cardinality(C)
      /\ Cardinality(W) <= MaxEvents => Count(r, fp) = Cardinality(C)
  BY <1>3, <1>4, <1>7, <1>8
<1>10. QED
  BY <1>2, <1>9 DEF n, h, fp

-----------------------------------------------------------------------------
(***************************************************************************)
(* The invariant.                                                          *)
(***************************************************************************)
WatchStates ==
    [recent : Seq(Events), costs : Seq([t : Nat]), session_started : Nat, session_spend : Nat,
     tripped : Nat, kind : {"none", "repeat", "rate"}, dropped : BOOLEAN]

TaskStates == [pc : {"idle", "stat", "loaded", "fresh", "sent"}, read : Nat]

\* The content of trip.json is the number of a trip there was.
Types ==
    /\ now \in Nat /\ trips \in Nat /\ file \in 0..trips
    /\ st \in [Sessions -> 0..trips]
    /\ watch \in [Sessions -> WatchStates]
    /\ booting \in [Sessions -> BOOLEAN]
    /\ task \in [Tasks -> TaskStates]
    /\ history \in [Sessions -> Seq(Events)]

\* What a refresh has loaded is what is on disk, as long as the mtime it saw
\* before says so.
LoadedIsCurrent ==
    \A t \in Tasks :
       (task[t].pc = "loaded" /\ st[SessionOf[t]] = file /\ file # Absent) => task[t].read = file

TripInv == Types /\ LoadedIsCurrent /\ StandingTripNoticed

\* The ring is the end of the history, and the verdict on the last request
\* was passed on the ring.
Judged(s) ==
    LET h == history[s]
        w == watch[s]
    IN  /\ RingOf(h, w.recent)
        /\ \A i \in 1..Len(h) : h[i].t <= now
        /\ (Len(h) > 0 /\ Repeats > 0) =>
              /\ w.kind = "repeat" /\ Tripped(s) => Count(w.recent, h[Len(h)].fp) >= Repeats
              /\ ~Tripped(s) => Count(w.recent, h[Len(h)].fp) < Repeats

RingInv == Types /\ \A s \in Sessions : Judged(s)

-----------------------------------------------------------------------------
(***************************************************************************)
(* Types.                                                                  *)
(***************************************************************************)
LEMMA SessionOfType == \A t \in Tasks : SessionOf[t] \in Sessions
BY SessionOfAssumption

LEMMA NewWatchType ==
    ASSUME now \in Nat, NEW trip \in Nat
    PROVE  NewWatch(trip) \in WatchStates
BY DEF NewWatch, WatchStates

LEMMA SetTrippedType ==
    ASSUME NEW w \in WatchStates, NEW trip \in Nat
    PROVE  /\ set_tripped(w, trip) \in WatchStates
           /\ set_tripped(w, trip).recent = IF trip = Absent THEN << >> ELSE w.recent
           /\ set_tripped(w, trip).tripped = trip
           /\ set_tripped(w, trip).kind = "none"
           /\ set_tripped(w, trip).dropped = w.dropped
<1>1. << >> \in Seq(Events) /\ << >> \in Seq([t : Nat])
  OBVIOUS
<1>2. CASE trip = Absent
  <2>1. set_tripped(w, trip) =
           [w EXCEPT !.recent = << >>, !.costs = << >>, !.tripped = Absent, !.kind = "none"]
    BY <1>2 DEF set_tripped
  <2>2. QED
    BY <1>1, <1>2, <2>1 DEF WatchStates
<1>3. CASE trip # Absent
  <2>1. set_tripped(w, trip) = [w EXCEPT !.tripped = trip, !.kind = "none"]
    BY <1>3 DEF set_tripped
  <2>2. QED
    BY <1>3, <2>1 DEF WatchStates
<1>4. QED
  BY <1>2, <1>3

\* The detectors' windows stay what they are, and the trip is not touched.
LEMMA ObservedType ==
    ASSUME now \in Nat, NEW w \in WatchStates, NEW fp \in Fps
    PROVE  /\ Observed(w, fp) \in WatchStates
           /\ Observed(w, fp).recent = Pushed(FromCutoff(w.recent), [t |-> now, fp |-> fp])
           /\ Observed(w, fp).tripped = w.tripped
           /\ Observed(w, fp).kind = w.kind
           /\ Observed(w, fp).dropped = w.dropped
<1> DEFINE e == [t |-> now, fp |-> fp]
<1>1. e \in Events /\ w.recent \in Seq(Events) /\ w.costs \in Seq([t : Nat])
  BY DEF Events, WatchStates
<1>2. FromCutoff(w.recent) \in Seq(Events) /\ FromCutoff(w.costs) \in Seq([t : Nat])
  BY <1>1, Pruned
<1>3. Pushed(FromCutoff(w.recent), e) \in Seq(Events)
  <2> HIDE DEF e
  <2>1. QED
    BY <1>1, <1>2, PushedRing
<1>4. QED
  BY <1>2, <1>3 DEF Observed, WatchStates

LEMMA ObserveCostType ==
    ASSUME now \in Nat, NEW w \in WatchStates
    PROVE  /\ observe_cost(w) \in WatchStates
           /\ observe_cost(w).recent = w.recent
           /\ observe_cost(w).tripped = w.tripped
           /\ observe_cost(w).kind = w.kind
           /\ observe_cost(w).dropped = w.dropped
<1> DEFINE e == [t |-> now]
<1>1. e \in [t : Nat] /\ w.costs \in Seq([t : Nat])
  BY DEF WatchStates
<1>2. Pushed(w.costs, e) \in Seq([t : Nat])
  <2> HIDE DEF e
  <2>1. QED
    BY <1>1, PushedRing
<1>3. w.session_spend + 1 \in Nat
  BY DEF WatchStates
<1> DEFINE c == Pushed(w.costs, e)
           n == w.session_spend + 1
<1>4. observe_cost(w) = [w EXCEPT !.session_spend = n, !.costs = c]
  BY DEF observe_cost
<1>5. c \in Seq([t : Nat]) /\ n \in Nat
  BY <1>2, <1>3
<1> HIDE DEF c, n
<1>6. QED
  BY <1>4, <1>5 DEF WatchStates

\* What a request does to its own task.
LEMMA GotoType ==
    ASSUME Types, NEW t \in Tasks, NEW read \in Nat,
           NEW label \in {"idle", "stat", "loaded", "fresh", "sent"}, Goto(t, label, read)
    PROVE  /\ task' \in [Tasks -> TaskStates]
           /\ task'[t] = [pc |-> label, read |-> read]
           /\ task'[t].pc = label /\ task'[t].read = read
           /\ \A u \in Tasks \ {t} : task'[u] = task[u]
BY DEF Types, TaskStates, Goto

\* The steps of a request that trips, in one place.
LEMMA ObserveEffect ==
    ASSUME Types, NEW t \in Tasks, NEW fp \in Fps, NEW mode \in Modes, Observe(t, fp, mode)
    PROVE  LET s == SessionOf[t]
               w == Observed(watch[s], fp)
           IN  /\ UNCHANGED <<now, st, booting>>
               /\ Up(s) /\ ~Tripped(s)
               /\ history' = [history EXCEPT ![s] = Append(@, [t |-> now, fp |-> fp])]
               /\ \E kind \in {"none", "repeat", "rate"} :
                     /\ kind = "repeat" <=> RepeatSignal(w, fp)
                     /\ \/ /\ kind = "none"
                           /\ watch' = [watch EXCEPT ![s] = w]
                           /\ UNCHANGED <<file, trips>>
                        \/ /\ kind # "none"
                           /\ trips' = trips + 1 /\ file' \in {file, trips'}
                           /\ watch' = [watch EXCEPT ![s] = [set_tripped(w, trips') EXCEPT !.kind = kind]]
               /\ task[t].pc = "fresh"
               /\ Goto(t, "idle", Absent) \/ Goto(t, "sent", Absent)
<1> DEFINE s == SessionOf[t]
           w == Observed(watch[s], fp)
           k == IF RepeatSignal(w, fp) THEN "repeat"
                ELSE IF RateSignal(w) THEN "rate" ELSE "none"
<1>1. /\ UNCHANGED <<now, st, booting>> /\ Up(s) /\ ~Tripped(s) /\ task[t].pc = "fresh"
      /\ history' = [history EXCEPT ![s] = Append(@, [t |-> now, fp |-> fp])]
  BY DEF Observe, At
<1>2. k \in {"none", "repeat", "rate"} /\ (k = "repeat" <=> RepeatSignal(w, fp))
  OBVIOUS
<1>3. \/ /\ k = "none"
         /\ watch' = [watch EXCEPT ![s] = w]
         /\ UNCHANGED <<file, trips>>
         /\ Goto(t, "sent", Absent)
      \/ /\ k # "none"
         /\ trips' = trips + 1
         /\ file' \in {file, trips'}
         /\ watch' = [watch EXCEPT ![s] = [set_tripped(w, trips') EXCEPT !.kind = k]]
         /\ Goto(t, IF mode = "block" THEN "idle" ELSE "sent", Absent)
  BY DEF Observe
<1> HIDE DEF k
<1>4. Goto(t, "idle", Absent) \/ Goto(t, "sent", Absent)
  BY <1>3
<1>5. QED
  BY <1>1, <1>2, <1>3, <1>4

LEMMA TypesObserve ==
    ASSUME Types, NEW t \in Tasks, NEW fp \in Fps, NEW mode \in Modes, Observe(t, fp, mode)
    PROVE  Types'
<1> DEFINE s == SessionOf[t]
           w == Observed(watch[s], fp)
           e == [t |-> now, fp |-> fp]
<1>0. s \in Sessions /\ watch[s] \in WatchStates /\ now \in Nat /\ trips \in Nat
      /\ history[s] \in Seq(Events)
  BY SessionOfType DEF Types
<1>1. w \in WatchStates
  BY <1>0, ObservedType
<1>2. task' \in [Tasks -> TaskStates]
  <2>1. Absent \in Nat
    BY DEF Absent
  <2>2. QED
    BY <2>1, ObserveEffect, GotoType
<1>3. history' \in [Sessions -> Seq(Events)]
  <2>1. e \in Events
    BY <1>0 DEF Events
  <2>2. Append(history[s], e) \in Seq(Events)
    BY <1>0, <2>1
  <2>3. history' = [history EXCEPT ![s] = Append(@, e)]
    BY ObserveEffect
  <2> HIDE DEF e
  <2>4. QED
    BY <1>0, <2>2, <2>3 DEF Types
<1>4. PICK kind \in {"none", "repeat", "rate"} :
         \/ /\ watch' = [watch EXCEPT ![s] = w]
            /\ UNCHANGED <<file, trips>>
         \/ /\ trips' = trips + 1 /\ file' \in {file, trips'}
            /\ watch' = [watch EXCEPT ![s] = [set_tripped(w, trips') EXCEPT !.kind = kind]]
  BY ObserveEffect
<1>5. UNCHANGED <<now, st, booting>>
  BY ObserveEffect
<1> HIDE DEF w
<1>6. watch' \in [Sessions -> WatchStates]
  <2>1. CASE watch' = [watch EXCEPT ![s] = w]
    BY <1>1, <2>1 DEF Types
  <2>2. CASE /\ trips' = trips + 1
             /\ watch' = [watch EXCEPT ![s] = [set_tripped(w, trips') EXCEPT !.kind = kind]]
    <3> DEFINE x == set_tripped(w, trips')
    <3>1. x \in WatchStates
      BY <1>0, <1>1, <2>2, SetTrippedType
    <3> HIDE DEF x
    <3>2. [x EXCEPT !.kind = kind] \in WatchStates
      BY <3>1 DEF WatchStates
    <3>3. watch' = [watch EXCEPT ![s] = [x EXCEPT !.kind = kind]]
      BY <2>2 DEF x
    <3>4. QED
      BY <3>2, <3>3 DEF Types
  <2>3. QED
    BY <1>4, <2>1, <2>2
<1>7. trips' \in Nat /\ file' \in 0..trips' /\ 0..trips \subseteq 0..trips'
  BY <1>0, <1>4 DEF Types
<1>8. QED
  BY <1>2, <1>3, <1>5, <1>6, <1>7 DEF Types

LEMMA TypesStep == Types /\ [Next]_vars => Types'
<1> SUFFICES ASSUME Types, [Next]_vars PROVE Types'
  OBVIOUS
<1> USE DEF Absent
<1>0. Absent \in Nat /\ now \in Nat /\ trips \in Nat /\ file \in Nat
  BY DEF Types
<1>1. ASSUME NEW t \in Tasks, RefreshStat(t) PROVE Types'
  <2>1. task' \in [Tasks -> TaskStates]
    BY <1>0, <1>1, GotoType DEF RefreshStat
  <2>2. QED
    BY <1>1, <2>1, SessionOfType DEF RefreshStat, Types
<1>2. ASSUME NEW t \in Tasks, RefreshLoad(t) PROVE Types'
  <2>1. task' \in [Tasks -> TaskStates]
    BY <1>0, <1>2, GotoType DEF RefreshLoad
  <2>2. QED
    BY <1>2, <2>1 DEF RefreshLoad, Types
<1>3. ASSUME NEW t \in Tasks, RefreshSet(t) PROVE Types'
  <2> DEFINE s == SessionOf[t]
             x == set_tripped(watch[s], task[t].read)
  <2>1. task' \in [Tasks -> TaskStates]
    BY <1>0, <1>3, GotoType DEF RefreshSet
  <2>2. s \in Sessions /\ watch[s] \in WatchStates /\ task[t].read \in Nat
    BY SessionOfType DEF Types, TaskStates
  <2>3. x \in WatchStates
    BY <2>2, SetTrippedType
  <2>4. watch' = [watch EXCEPT ![s] = [x EXCEPT !.dropped = FALSE]]
    BY <1>3 DEF RefreshSet
  <2>5. history' \in [Sessions -> Seq(Events)]
    BY <1>3, <2>2 DEF RefreshSet, Types
  <2> HIDE DEF x
  <2>6. [x EXCEPT !.dropped = FALSE] \in WatchStates
    BY <2>3 DEF WatchStates
  <2>7. watch' \in [Sessions -> WatchStates]
    BY <2>4, <2>6 DEF Types
  <2>8. QED
    BY <1>3, <2>1, <2>5, <2>7 DEF RefreshSet, Types
<1>4. ASSUME NEW t \in Tasks, RefreshDropped(t) PROVE Types'
  <2>1. task' \in [Tasks -> TaskStates]
    BY <1>0, <1>4, GotoType DEF RefreshDropped
  <2>2. watch' \in [Sessions -> WatchStates]
    BY <1>4, SessionOfType, ZenonT(60) DEF RefreshDropped, Types, WatchStates
  <2>3. QED
    BY <1>4, <2>1, <2>2 DEF RefreshDropped, Types
<1>5. ASSUME NEW t \in Tasks, MeterCost(t) PROVE Types'
  <2>1. task' \in [Tasks -> TaskStates]
    BY <1>0, <1>5, GotoType DEF MeterCost
  <2>2. watch' \in [Sessions -> WatchStates]
    <3>1. CASE UNCHANGED watch
      BY <3>1 DEF Types
    <3>2. CASE watch' = [watch EXCEPT ![SessionOf[t]] = observe_cost(@)]
      <4>1. observe_cost(watch[SessionOf[t]]) \in WatchStates
        BY <1>0, SessionOfType, ObserveCostType DEF Types
      <4>2. QED
        BY <3>2, <4>1, SessionOfType DEF Types
    <3>3. QED
      BY <1>5, <3>1, <3>2 DEF MeterCost
  <2>3. QED
    BY <1>5, <2>1, <2>2 DEF MeterCost, Types
<1>6. ASSUME NEW t \in Tasks, NEW mode \in Modes, MeetTrip(t, mode) \/ Unwatched(t, mode)
      PROVE  Types'
  <2>1. task' \in [Tasks -> TaskStates]
    <3>1. Goto(t, "idle", Absent) \/ Goto(t, "sent", Absent)
      BY <1>6 DEF MeetTrip, Unwatched
    <3>2. QED
      BY <1>0, <3>1, GotoType
  <2>2. QED
    BY <1>6, <2>1 DEF MeetTrip, Unwatched, Types
<1>7. ASSUME NEW s \in Sessions, BootStat(s) PROVE Types'
  <2>1. task' \in [Tasks -> TaskStates]
    BY <1>7 DEF BootStat, Idle, Types, TaskStates
  <2>2. QED
    BY <1>7, <2>1 DEF BootStat, Types
<1>8. ASSUME NEW s \in Sessions, BootLoad(s) PROVE Types'
  <2>1. NewWatch(file) \in WatchStates
    BY <1>0, NewWatchType
  <2>2. QED
    BY <1>8, <2>1 DEF BootLoad, Types
<1>9. ASSUME TripElsewhere \/ TripClear \/ Tick PROVE Types'
  <2>1. file' \in 0..trips' /\ 0..trips \subseteq 0..trips' /\ now' \in Nat /\ trips' \in Nat
    BY <1>9 DEF TripElsewhere, TripClear, Tick, Types
  <2>2. QED
    BY <1>9, <2>1 DEF TripElsewhere, TripClear, Tick, Types
<1>10. CASE UNCHANGED vars
  BY <1>10 DEF vars, Types
<1>11. QED
  BY <1>1, <1>2, <1>3, <1>4, <1>5, <1>6, <1>7, <1>8, <1>9, <1>10, TypesObserve DEF Next

LEMMA TypesInit == Init => Types
<1> SUFFICES ASSUME Init PROVE Types
  OBVIOUS
<1>1. NewWatch(Absent) \in WatchStates
  BY NewWatchType DEF Init, Absent
<1>2. QED
  BY <1>1 DEF Init, Types, Absent, Idle, TaskStates

-----------------------------------------------------------------------------
(***************************************************************************)
(* A standing trip is noticed.                                             *)
(***************************************************************************)

\* A step of a request outside the trip part of a refresh, which changes
\* neither the file nor the trip in force.
LEMMA NoticedFrame ==
    ASSUME TripInv, Types', UNCHANGED <<file, st, booting>>, NEW t \in Tasks,
           task[t].pc \notin {"stat", "loaded"}, task'[t].pc \notin {"stat", "loaded"},
           \A u \in Tasks \ {t} : task'[u] = task[u],
           \A s \in Sessions : /\ watch'[s].tripped = watch[s].tripped
                               /\ watch'[s].dropped = watch[s].dropped
    PROVE  LoadedIsCurrent' /\ StandingTripNoticed'
<1>1. LoadedIsCurrent'
  BY DEF TripInv, LoadedIsCurrent
<1>2. \A u \in Tasks : task'[u].pc \in {"stat", "loaded"} <=> task[u].pc \in {"stat", "loaded"}
  OBVIOUS
<1>3. StandingTripNoticed'
  BY <1>2 DEF TripInv, StandingTripNoticed, Settled, Up, Tripped
<1>4. QED
  BY <1>1, <1>3

\* A new trip has a number no session has seen.
LEMMA NoticedNewFile ==
    ASSUME Types, trips' = trips + 1, file' = trips', UNCHANGED st
    PROVE  \A s \in Sessions : st'[s] # file'
<1> SUFFICES ASSUME NEW s \in Sessions PROVE st[s] # trips + 1
  OBVIOUS
<1>1. st[s] \in 0..trips /\ trips \in Nat
  BY DEF Types
<1>2. QED
  BY <1>1

LEMMA NoticedObserve ==
    ASSUME TripInv, Types', NEW t \in Tasks, NEW fp \in Fps, NEW mode \in Modes,
           Observe(t, fp, mode)
    PROVE  LoadedIsCurrent' /\ StandingTripNoticed'
<1> DEFINE s == SessionOf[t]
           w == Observed(watch[s], fp)
<1>0. s \in Sessions /\ watch[s] \in WatchStates /\ now \in Nat /\ trips \in Nat /\ Types
  BY SessionOfType DEF TripInv, Types
<1>1. /\ w \in WatchStates /\ w.tripped = watch[s].tripped /\ w.dropped = watch[s].dropped
  BY <1>0, ObservedType
<1>2. /\ UNCHANGED <<st, booting>> /\ task[t].pc = "fresh"
      /\ Goto(t, "idle", Absent) \/ Goto(t, "sent", Absent)
  BY <1>0, ObserveEffect
<1>3. /\ task'[t].pc \in {"idle", "sent"}
      /\ \A u \in Tasks \ {t} : task'[u] = task[u]
  <2>1. Absent \in Nat
    BY DEF Absent
  <2>2. QED
    BY <1>0, <1>2, <2>1, GotoType
<1>4. PICK kind \in {"none", "repeat", "rate"} :
         \/ /\ watch' = [watch EXCEPT ![s] = w]
            /\ UNCHANGED <<file, trips>>
         \/ /\ trips' = trips + 1 /\ file' \in {file, trips'}
            /\ watch' = [watch EXCEPT ![s] = [set_tripped(w, trips') EXCEPT !.kind = kind]]
  BY <1>0, ObserveEffect
<1> HIDE DEF w
<1>5. CASE watch' = [watch EXCEPT ![s] = w] /\ UNCHANGED <<file, trips>>
  <2>1. \A x \in Sessions : /\ watch'[x].tripped = watch[x].tripped
                            /\ watch'[x].dropped = watch[x].dropped
    BY <1>0, <1>1, <1>5 DEF Types
  <2>2. QED
    BY <1>2, <1>3, <1>5, <2>1, NoticedFrame
<1>6. CASE /\ trips' = trips + 1 /\ file' \in {file, trips'}
           /\ watch' = [watch EXCEPT ![s] = [set_tripped(w, trips') EXCEPT !.kind = kind]]
  <2> DEFINE y == set_tripped(w, trips')
  <2>1. y \in WatchStates /\ y.tripped = trips' /\ trips' # Absent
    <3>1. trips' \in Nat /\ trips' # Absent
      BY <1>0, <1>6 DEF Absent
    <3>2. QED
      BY <1>1, <3>1, SetTrippedType
  <2>2. watch' = [watch EXCEPT ![s] = [y EXCEPT !.kind = kind]]
    BY <1>6
  <2> HIDE DEF y
  <2>3. /\ watch'[s].tripped # Absent
        /\ \A x \in Sessions \ {s} : watch'[x] = watch[x]
    BY <1>0, <2>1, <2>2 DEF Types, WatchStates
  <2>4. file' = trips' => \A x \in Sessions : st'[x] # file'
    BY <1>0, <1>2, <1>6, NoticedNewFile
  <2>5. LoadedIsCurrent'
    <3>1. CASE file' = file
      BY <1>2, <1>3, <3>1 DEF TripInv, LoadedIsCurrent
    <3>2. CASE file' = trips'
      BY <2>4, <3>2, SessionOfType DEF LoadedIsCurrent
    <3>3. QED
      BY <1>6, <3>1, <3>2
  <2>6. StandingTripNoticed'
    <3>1. CASE file' = file
      <4>1. \A u \in Tasks : task'[u].pc \in {"stat", "loaded"} <=> task[u].pc \in {"stat", "loaded"}
        BY <1>2, <1>3
      <4>2. QED
        BY <1>2, <2>3, <3>1, <4>1 DEF TripInv, StandingTripNoticed, Settled, Up, Tripped
    <3>2. CASE file' = trips'
      BY <2>4, <3>2 DEF StandingTripNoticed
    <3>3. QED
      BY <1>6, <3>1, <3>2
  <2>7. QED
    BY <2>5, <2>6
<1>7. QED
  BY <1>4, <1>5, <1>6

\* The steps of a refresh.
LEMMA NoticedRefresh ==
    ASSUME TripInv, Types', NEW t \in Tasks,
           RefreshStat(t) \/ RefreshLoad(t) \/ RefreshSet(t) \/ RefreshDropped(t)
    PROVE  LoadedIsCurrent' /\ StandingTripNoticed'
<1> DEFINE s == SessionOf[t]
<1> USE DEF Absent
<1>0. /\ s \in Sessions /\ watch[s] \in WatchStates /\ file \in Nat /\ Types
      /\ task[t].read \in Nat /\ st \in [Sessions -> 0..trips] /\ watch \in [Sessions -> WatchStates]
  BY SessionOfType DEF TripInv, Types, TaskStates
<1>1. CASE RefreshStat(t)
  <2>1. /\ task'[t].pc \in {"stat", "fresh"}
        /\ \A u \in Tasks \ {t} : task'[u] = task[u]
        /\ task'[t].pc = "fresh" => file = st[s] /\ st' = st
        /\ task'[t].pc = "stat" => st' = [st EXCEPT ![s] = file]
    BY <1>0, <1>1, GotoType DEF RefreshStat
  <2>2. /\ UNCHANGED <<file, watch, booting>> /\ task[t].pc = "idle"
        /\ \A u \in Tasks : SessionOf[u] = s => task[u].pc \notin {"stat", "loaded"}
    BY <1>1 DEF RefreshStat, At
  <2>3. CASE task'[t].pc = "fresh"
    BY <2>1, <2>2, <2>3, NoticedFrame
  <2>4. CASE task'[t].pc = "stat"
    <3>1. \A x \in Sessions \ {s} : st'[x] = st[x]
      BY <1>0, <2>1, <2>4
    <3>2. LoadedIsCurrent'
      <4> SUFFICES ASSUME NEW u \in Tasks, task'[u].pc = "loaded", st'[SessionOf[u]] = file,
                          file # Absent
                   PROVE  task'[u].read = file
        BY <2>2 DEF LoadedIsCurrent
      <4>1. u # t /\ task'[u] = task[u]
        BY <2>1, <2>4
      <4>2. SessionOf[u] \in Sessions \ {s}
        BY <2>2, <4>1, SessionOfType
      <4>3. QED
        BY <3>1, <4>1, <4>2 DEF TripInv, LoadedIsCurrent
    <3>3. StandingTripNoticed'
      <4>1. ~Settled(s)'
        BY <2>4 DEF Settled
      <4>2. \A x \in Sessions \ {s} : Settled(x)' <=> Settled(x)
        BY <2>1, <2>2 DEF Settled, Up
      <4>3. QED
        BY <2>2, <3>1, <4>1, <4>2 DEF TripInv, StandingTripNoticed, Tripped
    <3>4. QED
      BY <3>2, <3>3
  <2>5. QED
    BY <2>1, <2>3, <2>4
<1>2. CASE RefreshLoad(t)
  <2>1. /\ task'[t] = [pc |-> "loaded", read |-> file]
        /\ \A u \in Tasks \ {t} : task'[u] = task[u]
    BY <1>0, <1>2, GotoType DEF RefreshLoad
  <2>2. UNCHANGED <<file, st, watch, booting>> /\ task[t].pc = "stat"
    BY <1>2 DEF RefreshLoad, At
  <2>3. \A u \in Tasks : task'[u].pc \in {"stat", "loaded"} <=> task[u].pc \in {"stat", "loaded"}
    BY <2>1, <2>2
  <2>4. LoadedIsCurrent'
    BY <2>1, <2>2 DEF TripInv, LoadedIsCurrent
  <2>5. StandingTripNoticed'
    BY <2>2, <2>3 DEF TripInv, StandingTripNoticed, Settled, Up, Tripped
  <2>6. QED
    BY <2>4, <2>5
<1>3. ASSUME RefreshSet(t) \/ RefreshDropped(t) PROVE LoadedIsCurrent' /\ StandingTripNoticed'
  <2>1. /\ task'[t].pc \in {"fresh", "idle"}
        /\ \A u \in Tasks \ {t} : task'[u] = task[u]
    BY <1>0, <1>3, GotoType DEF RefreshSet, RefreshDropped
  <2>2. UNCHANGED <<file, st, booting>> /\ task[t].pc = "loaded"
    BY <1>3 DEF RefreshSet, RefreshDropped, At
  <2>3. LoadedIsCurrent'
    BY <2>1, <2>2 DEF TripInv, LoadedIsCurrent
  <2>4. \A x \in Sessions \ {s} : watch'[x] = watch[x]
    BY <1>0, <1>3 DEF RefreshSet, RefreshDropped
  <2>5. watch'[s].dropped \/ watch'[s].tripped = task[t].read
    <3>1. CASE RefreshDropped(t)
      <4>1. watch'[s] = [watch[s] EXCEPT !.dropped = TRUE]
        BY <1>0, <3>1 DEF RefreshDropped
      <4>2. QED
        BY <1>0, <4>1 DEF WatchStates
    <3>2. CASE RefreshSet(t)
      <4> DEFINE y == set_tripped(watch[s], task[t].read)
      <4>1. y \in WatchStates /\ y.tripped = task[t].read
        BY <1>0, SetTrippedType
      <4>2. watch'[s] = [y EXCEPT !.dropped = FALSE]
        BY <1>0, <3>2 DEF RefreshSet
      <4> HIDE DEF y
      <4>3. QED
        BY <4>1, <4>2 DEF WatchStates
    <3>3. QED
      BY <1>3, <3>1, <3>2
  <2>6. task[t].read = Absent => file = Absent \/ st[s] # file
    BY <2>2 DEF TripInv, LoadedIsCurrent
  <2>7. \A x \in Sessions \ {s} : Settled(x)' <=> Settled(x)
    BY <2>1, <2>2 DEF Settled, Up
  <2>8. StandingTripNoticed'
    <3> SUFFICES ASSUME NEW x \in Sessions, Settled(x)', ~Tripped(x)', file # Absent,
                        ~watch'[x].dropped
                 PROVE  st[x] # file
      BY <2>2 DEF StandingTripNoticed
    <3>1. CASE x = s
      BY <2>5, <2>6, <3>1 DEF Tripped
    <3>2. CASE x # s
      BY <2>4, <2>7, <3>2 DEF TripInv, StandingTripNoticed, Tripped
    <3>3. QED
      BY <3>1, <3>2
  <2>9. QED
    BY <2>3, <2>8
<1>4. QED
  BY <1>1, <1>2, <1>3

LEMMA NoticedStep == TripInv /\ [Next]_vars => TripInv'
<1> SUFFICES ASSUME TripInv, [Next]_vars PROVE TripInv'
  OBVIOUS
<1>0. Types /\ Types' /\ Absent \in Nat
  BY TypesStep DEF TripInv, Absent
<1> SUFFICES LoadedIsCurrent' /\ StandingTripNoticed'
  BY <1>0 DEF TripInv
<1>1. ASSUME NEW t \in Tasks, MeterCost(t) PROVE LoadedIsCurrent' /\ StandingTripNoticed'
  <2>1. /\ task'[t].pc = "idle"
        /\ \A u \in Tasks \ {t} : task'[u] = task[u]
    BY <1>0, <1>1, GotoType DEF MeterCost
  <2>2. UNCHANGED <<file, st, booting>> /\ task[t].pc = "sent"
    BY <1>1 DEF MeterCost, At
  <2>3. \A x \in Sessions : /\ watch'[x].tripped = watch[x].tripped
                            /\ watch'[x].dropped = watch[x].dropped
    <3> DEFINE s == SessionOf[t]
    <3>1. CASE UNCHANGED watch
      BY <3>1
    <3>2. CASE watch' = [watch EXCEPT ![s] = observe_cost(@)]
      <4>1. /\ observe_cost(watch[s]).tripped = watch[s].tripped
            /\ observe_cost(watch[s]).dropped = watch[s].dropped
        BY <1>0, SessionOfType, ObserveCostType DEF Types
      <4>2. QED
        BY <1>0, <3>2, <4>1, SessionOfType DEF Types
    <3>3. QED
      BY <1>1, <3>1, <3>2 DEF MeterCost
  <2>4. QED
    BY <1>0, <2>1, <2>2, <2>3, NoticedFrame
<1>2. ASSUME NEW t \in Tasks, NEW mode \in Modes, MeetTrip(t, mode) \/ Unwatched(t, mode)
      PROVE  LoadedIsCurrent' /\ StandingTripNoticed'
  <2>1. Goto(t, "idle", Absent) \/ Goto(t, "sent", Absent)
    BY <1>2 DEF MeetTrip, Unwatched
  <2>2. /\ task'[t].pc \in {"idle", "sent"}
        /\ \A u \in Tasks \ {t} : task'[u] = task[u]
    BY <1>0, <2>1, GotoType
  <2>3. UNCHANGED <<file, st, booting, watch>> /\ task[t].pc = "fresh"
    BY <1>2 DEF MeetTrip, Unwatched, At
  <2>4. QED
    BY <1>0, <2>2, <2>3, NoticedFrame
<1>3. ASSUME NEW s \in Sessions, BootStat(s) PROVE LoadedIsCurrent' /\ StandingTripNoticed'
  <2>1. /\ \A t \in Tasks : SessionOf[t] = s => task'[t].pc = "idle"
        /\ \A t \in Tasks : SessionOf[t] # s => task'[t] = task[t]
        /\ \A x \in Sessions \ {s} : st'[x] = st[x] /\ booting'[x] = booting[x]
        /\ booting'[s]
        /\ UNCHANGED <<file, watch>>
    BY <1>0, <1>3 DEF BootStat, Types, Idle
  <2>2. LoadedIsCurrent'
    BY <2>1, SessionOfType DEF TripInv, LoadedIsCurrent
  <2>3. ~Settled(s)' /\ \A x \in Sessions \ {s} : Settled(x)' <=> Settled(x)
    BY <2>1 DEF Settled, Up
  <2>4. StandingTripNoticed'
    BY <2>1, <2>3 DEF TripInv, StandingTripNoticed, Tripped
  <2>5. QED
    BY <2>2, <2>4
<1>4. ASSUME NEW s \in Sessions, BootLoad(s) PROVE LoadedIsCurrent' /\ StandingTripNoticed'
  <2>1. /\ UNCHANGED <<file, st, task>>
        /\ \A x \in Sessions \ {s} : watch'[x] = watch[x] /\ booting'[x] = booting[x]
        /\ watch'[s].tripped = file
    BY <1>0, <1>4 DEF BootLoad, NewWatch, Types
  <2>2. LoadedIsCurrent'
    BY <2>1 DEF TripInv, LoadedIsCurrent
  <2>3. StandingTripNoticed'
    <3> SUFFICES ASSUME NEW x \in Sessions, Settled(x)', ~Tripped(x)', file # Absent,
                        ~watch'[x].dropped
                 PROVE  st[x] # file
      BY <2>1 DEF StandingTripNoticed
    <3>1. CASE x = s
      BY <2>1, <3>1 DEF Tripped
    <3>2. CASE x # s
      BY <2>1, <3>2 DEF TripInv, StandingTripNoticed, Tripped, Settled, Up
    <3>3. QED
      BY <3>1, <3>2
  <2>4. QED
    BY <2>2, <2>3
<1>5. CASE TripElsewhere
  <2>1. \A x \in Sessions : st'[x] # file'
    BY <1>0, <1>5, NoticedNewFile DEF TripElsewhere
  <2>2. QED
    BY <2>1, SessionOfType DEF LoadedIsCurrent, StandingTripNoticed
<1>6. CASE TripClear
  BY <1>6 DEF TripClear, LoadedIsCurrent, StandingTripNoticed
<1>7. CASE Tick \/ UNCHANGED vars
  <2>1. UNCHANGED <<file, st, watch, booting, task>>
    BY <1>7 DEF Tick, vars
  <2>2. QED
    BY <2>1 DEF TripInv, LoadedIsCurrent, StandingTripNoticed, Settled, Up, Tripped
<1>8. QED
  BY <1>0, <1>1, <1>2, <1>3, <1>4, <1>5, <1>6, <1>7, NoticedRefresh, NoticedObserve DEF Next

\* docs: a trip "survives a proxy restart, reaches every session sharing the
\* state dir": however refreshes, boots, trips and clears overlap, a session
\* that is clear while a trip stands finds a changed mtime at its next refresh,
\* unless its last reload was dropped.
THEOREM TripNoticed == Spec => []StandingTripNoticed
<1>1. Init => TripInv
  <2> SUFFICES ASSUME Init PROVE TripInv
    OBVIOUS
  <2>1. LoadedIsCurrent /\ StandingTripNoticed
    BY DEF Init, LoadedIsCurrent, StandingTripNoticed, Idle
  <2>2. QED
    BY <2>1, TypesInit DEF TripInv
<1>2. TripInv => StandingTripNoticed
  BY DEF TripInv
<1>3. QED
  BY <1>1, <1>2, NoticedStep, PTL DEF Spec

-----------------------------------------------------------------------------
(***************************************************************************)
(* The repeat detector is exact.                                           *)
(***************************************************************************)
LEMMA JudgedFrame ==
    ASSUME Types, NEW s \in Sessions, Judged(s), now' \in Nat, now <= now',
           history'[s] = history[s], watch'[s].recent = watch[s].recent,
           watch'[s].tripped = watch[s].tripped, watch'[s].kind = watch[s].kind
    PROVE  Judged(s)'
<1> DEFINE h == history[s]
<1>1. \A i \in 1..Len(h) : h[i].t <= now'
  <2>1. h \in Seq(Events) /\ now \in Nat
    BY DEF Types
  <2>2. \A i \in 1..Len(h) : h[i] \in Events /\ h[i].t <= now
    BY <2>1 DEF Judged
  <2>3. \A e \in Events : e.t \in Nat
    BY DEF Events
  <2>4. \A a, b, c \in Nat : a <= b /\ b <= c => a <= c
    OBVIOUS
  <2> HIDE DEF h
  <2>5. QED
    BY <2>1, <2>2, <2>3, <2>4
<1>2. RingOf(h, watch[s].recent)
  BY DEF Judged
<1>3. (Len(h) > 0 /\ Repeats > 0) =>
         /\ watch[s].kind = "repeat" /\ Tripped(s) => Count(watch[s].recent, h[Len(h)].fp) >= Repeats
         /\ ~Tripped(s) => Count(watch[s].recent, h[Len(h)].fp) < Repeats
  BY DEF Judged
<1>4. Tripped(s)' <=> Tripped(s)
  BY DEF Tripped
<1>5. RingOf(h, watch[s].recent)' <=> RingOf(h, watch[s].recent)
  BY DEF RingOf
<1>6. Count(watch[s].recent, h[Len(h)].fp)' = Count(watch[s].recent, h[Len(h)].fp)
  BY DEF Count
<1>7. QED
  BY <1>1, <1>2, <1>3, <1>4, <1>5, <1>6 DEF Judged

\* With its windows emptied a session has nothing to judge.
LEMMA JudgedEmpty ==
    ASSUME NEW s \in Sessions, history'[s] = << >>, watch'[s].recent = << >>
    PROVE  Judged(s)'
<1>1. Len(history'[s]) = 0 /\ Len(watch'[s].recent) = 0
  OBVIOUS
<1>2. RingOf(history[s], watch[s].recent)'
  BY <1>1 DEF RingOf
<1>3. QED
  BY <1>1, <1>2 DEF Judged

LEMMA JudgedSet ==
    ASSUME Types, Types', NEW t \in Tasks, RefreshSet(t), \A s \in Sessions : Judged(s)
    PROVE  \A s \in Sessions : Judged(s)'
<1> DEFINE s == SessionOf[t]
           y == set_tripped(watch[s], task[t].read)
<1>0. /\ s \in Sessions /\ watch[s] \in WatchStates /\ task[t].read \in Nat
      /\ watch \in [Sessions -> WatchStates] /\ history \in [Sessions -> Seq(Events)]
      /\ now \in Nat /\ now' = now
  BY SessionOfType DEF Types, TaskStates, RefreshSet
<1>1. /\ y \in WatchStates /\ y.tripped = task[t].read /\ y.kind = "none"
      /\ y.recent = IF task[t].read = Absent THEN << >> ELSE watch[s].recent
  BY <1>0, SetTrippedType
<1>2. watch' = [watch EXCEPT ![s] = [y EXCEPT !.dropped = FALSE]]
  BY <1>0 DEF RefreshSet
<1>3. history' = IF task[t].read = Absent THEN [history EXCEPT ![s] = << >>] ELSE history
  BY DEF RefreshSet
<1> HIDE DEF y
<1>4. /\ watch'[s].tripped = task[t].read /\ watch'[s].kind = "none"
      /\ watch'[s].recent = y.recent
      /\ \A x \in Sessions \ {s} : watch'[x] = watch[x] /\ history'[x] = history[x]
  BY <1>0, <1>1, <1>2, <1>3 DEF WatchStates
<1>5. Judged(s)'
  <2>1. CASE task[t].read = Absent
    BY <1>0, <1>1, <1>3, <1>4, <2>1, JudgedEmpty
  <2>2. CASE task[t].read # Absent
    <3>1. history'[s] = history[s] /\ watch'[s].recent = watch[s].recent
      BY <1>1, <1>3, <1>4, <2>2
    <3>2. Tripped(s)' /\ watch'[s].kind # "repeat"
      BY <1>4, <2>2 DEF Tripped
    <3>3. RingOf(history[s], watch[s].recent)'
      BY <1>0, <3>1 DEF Judged, RingOf
    <3>4. \A i \in 1..Len(history[s]) : history[s][i].t <= now
      BY <1>0 DEF Judged
    <3>5. QED
      BY <1>0, <3>1, <3>2, <3>3, <3>4 DEF Judged
  <2>3. QED
    BY <2>1, <2>2
<1>6. ASSUME NEW x \in Sessions \ {s} PROVE Judged(x)'
  <2>1. now' \in Nat /\ now <= now'
    BY <1>0
  <2>2. watch'[x] = watch[x] /\ history'[x] = history[x] /\ Judged(x)
    BY <1>4
  <2>3. QED
    BY <2>1, <2>2, JudgedFrame
<1>7. QED
  BY <1>5, <1>6

LEMMA JudgedObserve ==
    ASSUME Types, Types', NEW t \in Tasks, NEW fp \in Fps, NEW mode \in Modes,
           Observe(t, fp, mode), \A s \in Sessions : Judged(s)
    PROVE  \A s \in Sessions : Judged(s)'
<1> DEFINE s == SessionOf[t]
           w == Observed(watch[s], fp)
           e == [t |-> now, fp |-> fp]
           h == history[s]
           g == Append(h, e)
<1>0. /\ s \in Sessions /\ watch[s] \in WatchStates /\ watch \in [Sessions -> WatchStates]
      /\ now \in Nat /\ trips \in Nat /\ history \in [Sessions -> Seq(Events)]
      /\ h \in Seq(Events) /\ watch[s].recent \in Seq(Events)
      /\ e \in Events /\ e.t = now /\ e.fp = fp
  BY SessionOfType DEF Types, WatchStates, Events
<1>1. /\ w \in WatchStates /\ w.tripped = watch[s].tripped
      /\ w.recent = Pushed(FromCutoff(watch[s].recent), e)
  BY <1>0, ObservedType
<1>2. /\ UNCHANGED now /\ ~Tripped(s)
      /\ history' = [history EXCEPT ![s] = g]
  BY ObserveEffect
<1>3. PICK kind \in {"none", "repeat", "rate"} :
         /\ kind = "repeat" <=> RepeatSignal(w, fp)
         /\ \/ /\ kind = "none"
               /\ watch' = [watch EXCEPT ![s] = w]
            \/ /\ kind # "none"
               /\ trips' = trips + 1
               /\ watch' = [watch EXCEPT ![s] = [set_tripped(w, trips') EXCEPT !.kind = kind]]
  BY ObserveEffect
<1>4. g \in Seq(Events) /\ RingOf(g, w.recent)
  <2>1. RingOf(h, watch[s].recent) /\ \A i \in 1..Len(h) : h[i].t <= now
    BY <1>0 DEF Judged
  <2> HIDE DEF e, h
  <2>2. QED
    BY <1>0, <1>1, <2>1, ObservedRing
<1>5. Len(g) > 0 /\ g[Len(g)].fp = fp /\ \A i \in 1..Len(g) : g[i].t <= now
  <2>1. \A i \in 1..Len(h) : h[i].t <= now
    BY <1>0 DEF Judged
  <2>2. /\ Len(h) \in Nat /\ Len(g) = Len(h) + 1 /\ g[Len(h) + 1] = e
        /\ \A i \in 1..Len(h) : g[i] = h[i]
    BY <1>0, AppendProperties
  <2> HIDE DEF e, h, g
  <2>3. g[Len(g)].fp = fp /\ Len(g) > 0
    BY <1>0, <2>2
  <2>4. ASSUME NEW i \in 1..Len(g) PROVE g[i].t <= now
    <3>1. CASE i = Len(h) + 1
      BY <1>0, <2>2, <3>1
    <3>2. CASE i \in 1..Len(h)
      BY <2>1, <2>2, <3>2
    <3>3. QED
      BY <2>2, <3>1, <3>2
  <2>5. QED
    BY <2>3, <2>4
<1> HIDE DEF w, e, g, h
<1>6. history'[s] = g /\ \A x \in Sessions \ {s} : history'[x] = history[x]
  BY <1>0, <1>2
<1>7. /\ watch'[s].recent = w.recent
      /\ kind = "none" => watch'[s].tripped = Absent
      /\ kind # "none" => watch'[s].tripped # Absent /\ watch'[s].kind = kind
      /\ \A x \in Sessions \ {s} : watch'[x] = watch[x]
  <2>1. CASE kind = "none"
    BY <1>0, <1>1, <1>2, <1>3, <2>1 DEF Tripped
  <2>2. CASE kind # "none"
    <3> DEFINE y == set_tripped(w, trips')
    <3>1. trips' \in Nat /\ trips' # Absent
      BY <1>0, <1>3, <2>2 DEF Absent
    <3>2. y \in WatchStates /\ y.tripped = trips' /\ y.recent = w.recent
      BY <1>1, <3>1, SetTrippedType
    <3>3. watch' = [watch EXCEPT ![s] = [y EXCEPT !.kind = kind]]
      BY <1>3, <2>2
    <3> HIDE DEF y
    <3>4. QED
      BY <1>0, <2>2, <3>1, <3>2, <3>3 DEF WatchStates
  <2>3. QED
    BY <2>1, <2>2
<1>8. Judged(s)'
  <2>1. RingOf(history[s], watch[s].recent)'
    BY <1>4, <1>6, <1>7 DEF RingOf
  <2>2. \A i \in 1..Len(history'[s]) : history'[s][i].t <= now'
    BY <1>2, <1>5, <1>6
  <2>3. Count(w.recent, fp) \in Nat /\ Repeats \in Nat
    <3>1. w.recent \in Seq(Events)
      BY <1>1 DEF WatchStates
    <3>2. QED
      BY <1>4, <3>1, CountedInHistory, ConfigAssumption
  <2>4. Repeats > 0 => /\ kind = "repeat" => Count(w.recent, fp) >= Repeats
                       /\ kind # "repeat" => Count(w.recent, fp) < Repeats
    BY <1>3, <2>3 DEF RepeatSignal
  <2>5. Count(watch[s].recent, history[s][Len(history[s])].fp)' = Count(w.recent, fp)
    BY <1>5, <1>6, <1>7 DEF Count
  <2>6. /\ watch'[s].kind = "repeat" /\ Tripped(s)' => kind = "repeat"
        /\ ~Tripped(s)' => kind # "repeat"
    BY <1>7 DEF Tripped
  <2>7. QED
    BY <2>1, <2>2, <2>4, <2>5, <2>6 DEF Judged
<1>9. ASSUME NEW x \in Sessions \ {s} PROVE Judged(x)'
  <2>1. now' \in Nat /\ now <= now'
    BY <1>0, <1>2
  <2>2. watch'[x] = watch[x] /\ history'[x] = history[x] /\ Judged(x)
    BY <1>6, <1>7
  <2>3. QED
    BY <2>1, <2>2, JudgedFrame
<1>10. QED
  BY <1>8, <1>9

LEMMA JudgedStep == RingInv /\ [Next]_vars => RingInv'
<1> SUFFICES ASSUME RingInv, [Next]_vars PROVE RingInv'
  OBVIOUS
<1>0. Types /\ Types' /\ (\A s \in Sessions : Judged(s)) /\ now \in Nat /\ now' \in Nat
  BY TypesStep DEF RingInv, Types
<1> SUFFICES \A s \in Sessions : Judged(s)'
  BY <1>0 DEF RingInv
<1>1. ASSUME NEW t \in Tasks, MeterCost(t) \/ RefreshDropped(t)
      PROVE  \A s \in Sessions : Judged(s)'
  <2> DEFINE s == SessionOf[t]
  <2>1. s \in Sessions /\ watch[s] \in WatchStates /\ watch \in [Sessions -> WatchStates]
    BY <1>0, SessionOfType DEF Types
  <2>2. UNCHANGED <<now, history>>
    BY <1>1 DEF MeterCost, RefreshDropped
  <2>3. \A x \in Sessions : /\ watch'[x].recent = watch[x].recent
                            /\ watch'[x].tripped = watch[x].tripped
                            /\ watch'[x].kind = watch[x].kind
    <3>1. CASE UNCHANGED watch
      BY <3>1
    <3>2. CASE watch' = [watch EXCEPT ![s] = observe_cost(@)]
      <4>1. /\ observe_cost(watch[s]).recent = watch[s].recent
            /\ observe_cost(watch[s]).tripped = watch[s].tripped
            /\ observe_cost(watch[s]).kind = watch[s].kind
        BY <1>0, <2>1, ObserveCostType
      <4>2. QED
        BY <2>1, <3>2, <4>1
    <3>3. CASE watch' = [watch EXCEPT ![s].dropped = TRUE]
      BY <2>1, <3>3 DEF WatchStates
    <3>4. QED
      BY <1>1, <3>1, <3>2, <3>3 DEF MeterCost, RefreshDropped
  <2>4. QED
    BY <1>0, <2>2, <2>3, JudgedFrame
<1>2. ASSUME UNCHANGED <<watch, history>>, now <= now' PROVE \A s \in Sessions : Judged(s)'
  BY <1>0, <1>2, JudgedFrame
<1>3. ASSUME NEW t \in Tasks, RefreshStat(t) \/ RefreshLoad(t) PROVE \A s \in Sessions : Judged(s)'
  BY <1>0, <1>2, <1>3 DEF RefreshStat, RefreshLoad
<1>4. ASSUME NEW t \in Tasks, NEW mode \in Modes, MeetTrip(t, mode) \/ Unwatched(t, mode)
      PROVE  \A s \in Sessions : Judged(s)'
  BY <1>0, <1>2, <1>4 DEF MeetTrip, Unwatched
<1>5. ASSUME NEW s \in Sessions, BootStat(s) PROVE \A x \in Sessions : Judged(x)'
  BY <1>0, <1>2, <1>5 DEF BootStat
<1>6. ASSUME NEW s \in Sessions, BootLoad(s) PROVE \A x \in Sessions : Judged(x)'
  <2>1. /\ now' = now /\ history'[s] = << >> /\ watch'[s].recent = << >>
        /\ \A x \in Sessions \ {s} : watch'[x] = watch[x] /\ history'[x] = history[x]
    BY <1>0, <1>6 DEF BootLoad, NewWatch, Types
  <2>2. QED
    BY <1>0, <2>1, JudgedEmpty, JudgedFrame
<1>7. CASE TripElsewhere \/ TripClear \/ Tick \/ UNCHANGED vars
  BY <1>0, <1>2, <1>7 DEF TripElsewhere, TripClear, Tick, vars
<1>8. QED
  BY <1>0, <1>1, <1>3, <1>4, <1>5, <1>6, <1>7, JudgedSet, JudgedObserve DEF Next

\* The repeat detector, computed from pruned rings of bounded length, agrees
\* with its definition on the whole history since the last clear: no false
\* trip ever, and no missed one unless more than MAX_EVENTS requests fell into
\* the window.
THEOREM RepeatsExact == Spec => []RepeatExact
<1>1. Init => RingInv
  <2> SUFFICES ASSUME Init PROVE RingInv
    OBVIOUS
  <2>1. ASSUME NEW s \in Sessions PROVE Judged(s)
    <3>1. history[s] = << >> /\ watch[s].recent = << >>
      BY DEF Init, NewWatch
    <3>2. Len(history[s]) = 0 /\ Len(watch[s].recent) = 0
      BY <3>1
    <3>3. QED
      BY <3>2 DEF Judged, RingOf
  <2>2. QED
    BY <2>1, TypesInit DEF RingInv
<1>2. RingInv => RepeatExact
  <2> SUFFICES ASSUME RingInv, NEW s \in Sessions, history[s] # << >>, Repeats > 0
               PROVE  /\ (watch[s].kind = "repeat" /\ Tripped(s)) => Repetitions(s) >= Repeats
                      /\ (~Tripped(s) /\ Cardinality(InWindow(s)) <= MaxEvents)
                            => Repetitions(s) < Repeats
    BY DEF RepeatExact
  <2> DEFINE r == watch[s].recent
             c == Count(r, history[s][Len(history[s])].fp)
  <2>1. history[s] \in Seq(Events) /\ r \in Seq(Events) /\ Repeats \in Nat
    BY ConfigAssumption DEF RingInv, Types, WatchStates
  <2>2. Len(history[s]) > 0
    BY <2>1, EmptySeq, LenProperties
  <2>3. RingOf(history[s], r)
    BY DEF RingInv, Judged
  <2>4. /\ Repetitions(s) \in Nat /\ c <= Repetitions(s)
        /\ Cardinality(InWindow(s)) <= MaxEvents => c = Repetitions(s)
    BY <2>1, <2>2, <2>3, WindowCounted
  <2>5. /\ (watch[s].kind = "repeat" /\ Tripped(s)) => c >= Repeats
        /\ ~Tripped(s) => c < Repeats
    BY <2>2 DEF RingInv, Judged
  <2>6. c \in Nat
    BY <2>1, <2>3, CountedInHistory
  <2> HIDE DEF c
  <2>7. QED
    BY <2>1, <2>4, <2>5, <2>6
<1>3. QED
  BY <1>1, <1>2, JudgedStep, PTL DEF Spec

=============================================================================
