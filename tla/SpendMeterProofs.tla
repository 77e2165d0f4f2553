-------------------------- MODULE SpendMeterProofs --------------------------
(***************************************************************************)
(* Proofs about SpendMeter, for any finite number of sessions and of       *)
(* requests in flight, any budget and any number of months; and about      *)
(* DoctorFlush, whose counts add up over the processes in the same way.    *)
(***************************************************************************)
EXTENDS SpendMeter, DoctorFlush, FiniteSetTheorems, TLAPS

(***************************************************************************)
(* Units(Over, f) has f[s] elements for each s in Over: its cardinality is *)
(* the sum of f.                                                           *)
(***************************************************************************)
Row(s, n) == {s} \X (1..n)
Units(Over, f) == UNION {Row(s, f[s]) : s \in Over}

LEMMA RowSize ==
    ASSUME NEW s, NEW n \in Nat
    PROVE  IsFiniteSet(Row(s, n)) /\ Cardinality(Row(s, n)) = n
<1>1. IsFiniteSet({s}) /\ Cardinality({s}) = 1
  BY FS_Singleton
<1>2. IsFiniteSet(1..n) /\ Cardinality(1..n) = n
  <2>1. IsFiniteSet(1..n) /\ Cardinality(1..n) = IF 1 > n THEN 0 ELSE n - 1 + 1
    BY FS_Interval
  <2>2. QED
    BY <2>1
<1>3. IsFiniteSet({s} \X (1..n)) /\ Cardinality({s} \X (1..n)) = 1 * n
  <2> DEFINE S == {s}
             T == 1..n
  <2>1. IsFiniteSet(S) /\ IsFiniteSet(T) /\ Cardinality(S) = 1 /\ Cardinality(T) = n
    BY <1>1, <1>2
  <2> HIDE DEF S, T
  <2>2. IsFiniteSet(S \X T) /\ Cardinality(S \X T) = Cardinality(S) * Cardinality(T)
    BY <2>1, FS_Product
  <2>3. QED
    BY <2>1, <2>2 DEF S, T
<1>4. QED
  BY <1>3 DEF Row

LEMMA UnitsFinite ==
    ASSUME NEW Over, IsFiniteSet(Over), NEW f \in [Over -> Nat]
    PROVE  IsFiniteSet(Units(Over, f)) /\ Cardinality(Units(Over, f)) \in Nat
<1> DEFINE rows == {Row(s, f[s]) : s \in Over}
           h == [s \in Over |-> Row(s, f[s])]
<1>1. h \in Surjection(Over, rows)
  BY DEF Surjection
<1>2. IsFiniteSet(rows)
  BY <1>1, FS_Surjection
<1>3. \A r \in rows : IsFiniteSet(r)
  BY RowSize
<1>4. IsFiniteSet(UNION rows)
  BY <1>2, <1>3, FS_UNION
<1>5. QED
  BY <1>4, FS_CardinalityType DEF Units

LEMMA InRow ==
    ASSUME NEW s, NEW n, NEW x
    PROVE  x \in Row(s, n) <=> \E i \in 1..n : x = <<s, i>>
BY DEF Row

LEMMA UnitsSplit ==
    ASSUME NEW Over, IsFiniteSet(Over), NEW f \in [Over -> Nat], NEW s \in Over,
           NEW g \in [Over -> Nat], g[s] = 0, \A r \in Over : r # s => g[r] = f[r]
    PROVE  Cardinality(Units(Over, f)) = Cardinality(Units(Over, g)) + f[s]
<1>1. Units(Over, f) = Units(Over, g) \cup Row(s, f[s])
  <2>1. \A r \in Over : Row(r, g[r]) \subseteq Row(r, f[r])
    <3>1. Row(s, g[s]) = {}
      BY DEF Row
    <3>2. QED
      BY <3>1
  <2>2. Units(Over, g) \cup Row(s, f[s]) \subseteq Units(Over, f)
    BY <2>1 DEF Units
  <2>3. Units(Over, f) \subseteq Units(Over, g) \cup Row(s, f[s])
    BY DEF Units
  <2>4. QED
    BY <2>2, <2>3
<1>2. Units(Over, g) \cap Row(s, f[s]) = {}
  <2> SUFFICES ASSUME NEW x \in Units(Over, g), x \in Row(s, f[s]) PROVE FALSE
    OBVIOUS
  <2>1. PICK r \in Over : x \in Row(r, g[r])
    BY DEF Units
  <2>2. PICK i \in 1..g[r] : x = <<r, i>>
    BY <2>1, InRow
  <2>3. PICK j \in 1..f[s] : x = <<s, j>>
    BY InRow
  <2>4. r = s
    BY <2>2, <2>3
  <2>5. QED
    BY <2>2, <2>4
<1>3. IsFiniteSet(Units(Over, g)) /\ Cardinality(Units(Over, g)) \in Nat
  BY UnitsFinite
<1>4. IsFiniteSet(Row(s, f[s])) /\ Cardinality(Row(s, f[s])) = f[s] /\ f[s] \in Nat
  BY RowSize
<1>5. Cardinality(Units(Over, g) \cup Row(s, f[s])) = Cardinality(Units(Over, g)) + Cardinality(Row(s, f[s])) - 0
  <2> DEFINE S == Units(Over, g)
             T == Row(s, f[s])
  <2>1. IsFiniteSet(S) /\ IsFiniteSet(T) /\ S \cap T = {}
    BY <1>2, <1>3, <1>4
  <2> HIDE DEF S, T
  <2>2. Cardinality(S \cup T) = Cardinality(S) + Cardinality(T) - Cardinality(S \cap T)
    BY <2>1, FS_Union
  <2>3. Cardinality(S \cap T) = 0
    BY <2>1, FS_EmptySet
  <2>4. QED
    BY <2>2, <2>3 DEF S, T
<1>6. QED
  BY <1>1, <1>3, <1>4, <1>5

\* A change at one place changes the sum by as much.
LEMMA UnitsChange ==
    ASSUME NEW Over, IsFiniteSet(Over), NEW f \in [Over -> Nat], NEW g \in [Over -> Nat], NEW s \in Over,
           \A r \in Over : r # s => g[r] = f[r]
    PROVE  Cardinality(Units(Over, g)) + f[s] = Cardinality(Units(Over, f)) + g[s]
<1> DEFINE z == [f EXCEPT ![s] = 0]
<1>1. z \in [Over -> Nat] /\ z[s] = 0 /\ \A r \in Over : r # s => z[r] = f[r] /\ z[r] = g[r]
  OBVIOUS
<1> HIDE DEF z
<1>2. Cardinality(Units(Over, f)) = Cardinality(Units(Over, z)) + f[s]
  BY <1>1, UnitsSplit
<1>3. Cardinality(Units(Over, g)) = Cardinality(Units(Over, z)) + g[s]
  BY <1>1, UnitsSplit
<1>4. Cardinality(Units(Over, z)) \in Nat /\ f[s] \in Nat /\ g[s] \in Nat
  BY <1>1, UnitsFinite
<1>5. QED
  BY <1>2, <1>3, <1>4

LEMMA UnitsAtLeast ==
    ASSUME NEW Over, IsFiniteSet(Over), NEW f \in [Over -> Nat], NEW s \in Over
    PROVE  f[s] <= Cardinality(Units(Over, f))
<1>1. Row(s, f[s]) \in SUBSET Units(Over, f)
  BY DEF Units
<1>2. Cardinality(Row(s, f[s])) <= Cardinality(Units(Over, f))
  BY <1>1, UnitsFinite, FS_Subset
<1>3. QED
  BY <1>2, RowSize

LEMMA UnitsNone ==
    ASSUME NEW Over, NEW f, \A s \in Over : f[s] = 0
    PROVE  Cardinality(Units(Over, f)) = 0
<1>1. \A s \in Over : Row(s, f[s]) = {}
  BY DEF Row
<1>2. Units(Over, f) = {}
  BY <1>1 DEF Units
<1>3. QED
  BY <1>2, FS_EmptySet

-----------------------------------------------------------------------------
(***************************************************************************)
(* The invariant.                                                          *)
(***************************************************************************)
Meters == [delta_period : Nat, delta : Nat, merged_period : Nat, merged_cost : Nat, seen : Nat]
Pcs    == {"idle", "stat", "fresh", "passed", "billing"}

TypeInv ==
    /\ period \in Periods
    /\ disk \in [period : Nat, cost : Nat, mtime : Nat]
    /\ pc \in [Sessions -> {"down", "loaded", "up"}]
    /\ meter \in [Sessions -> Meters]
    /\ task \in [Tasks -> [pc : Pcs, read : Nat]]
    /\ spent \in [Periods -> Nat]
    /\ lost \in [Periods -> Nat]
    /\ hidden \in [Periods -> Nat]
    /\ synced \subseteq Sessions

\* Nothing is dated after the current month, and no mtime is of a later write.
PastInv ==
    /\ disk.period <= period
    /\ \A s \in Sessions : /\ meter[s].delta_period <= period /\ meter[s].merged_period <= period
                           /\ meter[s].seen <= disk.mtime
    /\ \A t \in Tasks : /\ task[t].pc = "billing" => task[t].read \in 1..period
                        /\ task[t].pc = "stat" => task[t].read <= disk.mtime
    /\ \A m \in Periods : m > period => spent[m] = 0 /\ lost[m] = 0 /\ hidden[m] = 0

\* What a session that is not up can have.
DownInv ==
    /\ \A s \in Sessions : pc[s] = "down" => meter[s] = NoMeter
    /\ \A s \in synced : pc[s] = "up"
    /\ \A t \in Tasks : task[t].pc # "idle" => pc[SessionOf[t]] = "up"

\* What the file or a session takes for the spend of all was flushed by
\* somebody: it is no part of what is held or lost.
Merged(s) == IF meter[s].merged_period = period THEN meter[s].merged_cost ELSE 0

RealInv ==
    /\ OnDisk + Cardinality(Held) + lost[period] <= spent[period]
    /\ \A s \in Sessions : Merged(s) + Cardinality(Held) + lost[period] <= spent[period]

\* A session with the newest mtime has the file, or has rolled past it.
SeenInv ==
    ~late => \A s \in synced : meter[s].seen = disk.mtime =>
       \/ meter[s].merged_period = disk.period /\ meter[s].merged_cost = disk.cost
       \/ disk.period < meter[s].merged_period

\* Once the file is over the budget, a request is billed only if it has passed
\* the check, or if its session does not know yet.
Aware(s) == meter[s].merged_period = period /\ meter[s].merged_cost >= Budget

Live == {t \in Tasks : /\ pc[SessionOf[t]] # "down"
                       /\ ~Aware(SessionOf[t]) \/ task[t].pc \in {"passed", "billing"}}

OverInv ==
    (Budget > 0 /\ ~late) =>
       /\ spent[period] <= OnDisk + hidden[period]
       /\ OnDisk >= Budget =>
             spent[period] + Cardinality(Live) < Budget + Cardinality(Tasks) + hidden[period]

MeterInv == TypeInv /\ PastInv /\ DownInv /\ RealInv /\ NoneLost /\ SeenInv /\ OverInv

-----------------------------------------------------------------------------
(***************************************************************************)
(* What is held, and who may still be billed.                              *)
(***************************************************************************)
HeldOf == [s \in Sessions |-> Unflushed(s)]

LEMMA HeldIsUnits ==
    ASSUME TypeInv
    PROVE  HeldOf \in [Sessions -> Nat] /\ Held = Units(Sessions, HeldOf)
<1>1. HeldOf \in [Sessions -> Nat]
  BY DEF TypeInv, HeldOf, Unflushed, Meters
<1>2. Held = Units(Sessions, HeldOf)
  BY DEF Held, Units, HeldOf, Row
<1>3. QED
  BY <1>1, <1>2

LEMMA HeldType ==
    ASSUME TypeInv
    PROVE  /\ Cardinality(Held) \in Nat
           /\ \A s \in Sessions : Unflushed(s) \in Nat /\ Unflushed(s) <= Cardinality(Held)
<1>1. HeldOf \in [Sessions -> Nat] /\ Held = Units(Sessions, HeldOf)
  BY HeldIsUnits
<1>2. Cardinality(Held) \in Nat
  BY <1>1, UnitsFinite, FiniteAssumption
<1>3. ASSUME NEW s \in Sessions PROVE Unflushed(s) \in Nat /\ Unflushed(s) <= Cardinality(Held)
  <2>1. HeldOf[s] = Unflushed(s) /\ HeldOf[s] \in Nat
    BY <1>1 DEF HeldOf
  <2>2. HeldOf[s] <= Cardinality(Units(Sessions, HeldOf))
    BY <1>1, UnitsAtLeast, FiniteAssumption
  <2>3. QED
    BY <1>1, <2>1, <2>2
<1>4. QED
  BY <1>2, <1>3

\* A step of one session.
LEMMA HeldChange ==
    ASSUME TypeInv, TypeInv', NEW s \in Sessions, UNCHANGED period,
           \A r \in Sessions : r # s => meter'[r] = meter[r]
    PROVE  Cardinality(Held') + Unflushed(s) = Cardinality(Held) + Unflushed(s)'
<1> DEFINE f == HeldOf
           g == HeldOf'
<1>1. f \in [Sessions -> Nat] /\ Held = Units(Sessions, f)
  BY HeldIsUnits
<1>2. HeldOf' \in [Sessions -> Nat]
  BY DEF TypeInv, HeldOf, Unflushed, Meters
<1>3. Held' = Units(Sessions, g)
  BY DEF Held, Units, HeldOf, Row
<1>4. f[s] = Unflushed(s) /\ g[s] = Unflushed(s)' /\ \A r \in Sessions : r # s => g[r] = f[r]
  BY DEF HeldOf, Unflushed
<1>5. g \in [Sessions -> Nat]
  BY <1>2
<1> HIDE DEF f, g
<1>6. Cardinality(Units(Sessions, g)) + f[s] = Cardinality(Units(Sessions, f)) + g[s]
  BY <1>1, <1>4, <1>5, UnitsChange, FiniteAssumption
<1>7. QED
  BY <1>1, <1>3, <1>4, <1>6

LEMMA HeldSame ==
    ASSUME \A s \in Sessions : Unflushed(s)' = Unflushed(s)
    PROVE  Held' = Held
BY DEF Held

LEMMA HeldNone ==
    ASSUME \A s \in Sessions : Unflushed(s)' = 0
    PROVE  Cardinality(Held') = 0
<1>1. Held' = {}
  BY DEF Held
<1>2. QED
  BY <1>1, FS_EmptySet

LEMMA LiveType ==
    /\ IsFiniteSet(Live) /\ Cardinality(Live) \in Nat /\ Cardinality(Live) <= Cardinality(Tasks)
    /\ Cardinality(Tasks) \in Nat
<1>1. Live \in SUBSET Tasks
  BY DEF Live
<1>2. QED
  BY <1>1, FiniteAssumption, FS_Subset, FS_CardinalityType

LEMMA LiveShrinks ==
    ASSUME Live' \subseteq Live
    PROVE  Cardinality(Live') <= Cardinality(Live) /\ Cardinality(Live') \in Nat
<1>1. IsFiniteSet(Live)
  BY LiveType
<1>2. IsFiniteSet(Live') /\ Cardinality(Live') <= Cardinality(Live)
  BY <1>1, FS_Subset
<1>3. QED
  BY <1>2, FS_CardinalityType

LEMMA LiveLoses ==
    ASSUME NEW S, IsFiniteSet(S), NEW t \in S, Live' \subseteq S \ {t}
    PROVE  Cardinality(Live') <= Cardinality(S) - 1 /\ Cardinality(Live') \in Nat
<1>1. IsFiniteSet(S \ {t}) /\ Cardinality(S \ {t}) = Cardinality(S) - 1
  BY FS_RemoveElement
<1>2. IsFiniteSet(Live') /\ Cardinality(Live') <= Cardinality(S \ {t})
  BY <1>1, FS_Subset
<1>3. QED
  BY <1>1, <1>2, FS_CardinalityType

\* The fields of a meter after a roll.
LEMMA RolledFields ==
    ASSUME NEW m \in Meters, NEW now \in Nat
    PROVE  /\ Rolled(m, now) \in Meters
           /\ Rolled(m, now).delta_period = now
           /\ Rolled(m, now).delta = (IF m.delta_period = now THEN m.delta ELSE 0)
           /\ Rolled(m, now).merged_period = now
           /\ Rolled(m, now).merged_cost = (IF m.merged_period = now THEN m.merged_cost ELSE 0)
           /\ Rolled(m, now).seen = m.seen
BY DEF Rolled, Meters

LEMMA NoMeterFields ==
    /\ NoMeter \in Meters /\ NoMeter.delta_period = 0 /\ NoMeter.delta = 0
    /\ NoMeter.merged_period = 0 /\ NoMeter.merged_cost = 0 /\ NoMeter.seen = 0
BY DEF NoMeter, Meters

LEMMA GotoFields ==
    ASSUME TypeInv, NEW t \in Tasks, NEW label \in Pcs, NEW read \in Nat, Goto(t, label, read)
    PROVE  /\ task' \in [Tasks -> [pc : Pcs, read : Nat]]
           /\ task'[t].pc = label /\ task'[t].read = read
           /\ \A u \in Tasks : u # t => task'[u] = task[u]
BY DEF TypeInv, Goto

-----------------------------------------------------------------------------
(***************************************************************************)
(* The steps that bill nothing.                                            *)
(***************************************************************************)
LEMMA MergedType ==
    ASSUME TypeInv
    PROVE  OnDisk \in Nat /\ \A s \in Sessions : Merged(s) \in Nat
BY DEF TypeInv, OnDisk, Merged, Meters

LEMMA ViewStep ==
    ASSUME MeterInv, UNCHANGED <<period, disk, spent, lost, hidden, late>>,
           TypeInv', PastInv', DownInv', SeenInv',
           \A s \in Sessions : Unflushed(s)' = Unflushed(s),
           \A s \in Sessions : Merged(s)' = Merged(s) \/ Merged(s)' = OnDisk,
           (Budget > 0 /\ ~late /\ OnDisk >= Budget) => Live' \subseteq Live
    PROVE  MeterInv'
<1>1. Held' = Held /\ OnDisk' = OnDisk
  BY HeldSame DEF OnDisk
<1>2. RealInv'
  <2>1. OnDisk + Cardinality(Held) + lost[period] <= spent[period]
    BY DEF MeterInv, RealInv
  <2>2. ASSUME NEW s \in Sessions
        PROVE  Merged(s)' + Cardinality(Held) + lost[period] <= spent[period]
    BY <2>1 DEF MeterInv, RealInv
  <2>3. QED
    BY <1>1, <2>1, <2>2 DEF RealInv
<1>3. NoneLost'
  BY <1>1 DEF MeterInv, NoneLost, Conserved
<1>4. OverInv'
  <2> SUFFICES ASSUME Budget > 0, ~late
               PROVE  /\ spent[period] <= OnDisk + hidden[period]
                      /\ OnDisk >= Budget =>
                            spent[period] + Cardinality(Live') < Budget + Cardinality(Tasks) + hidden[period]
    BY <1>1 DEF OverInv
  <2>1. /\ spent[period] <= OnDisk + hidden[period]
        /\ OnDisk >= Budget =>
              spent[period] + Cardinality(Live) < Budget + Cardinality(Tasks) + hidden[period]
    BY DEF MeterInv, OverInv
  <2>2. ASSUME OnDisk >= Budget
        PROVE  spent[period] + Cardinality(Live') < Budget + Cardinality(Tasks) + hidden[period]
    <3>1. Cardinality(Live') <= Cardinality(Live) /\ Cardinality(Live') \in Nat
      BY <2>2, LiveShrinks
    <3>2. Cardinality(Live) \in Nat /\ Cardinality(Tasks) \in Nat
      BY LiveType
    <3>3. spent[period] \in Nat /\ hidden[period] \in Nat /\ Budget \in Nat
      BY BoundsAssumption DEF MeterInv, TypeInv
    <3>4. QED
      BY <2>1, <2>2, <3>1, <3>2, <3>3
  <2>3. QED
    BY <2>1, <2>2
<1>5. QED
  BY <1>2, <1>3, <1>4 DEF MeterInv

LEMMA SessionIs == ASSUME NEW t \in Tasks PROVE SessionOf[t] \in Sessions
BY SessionOfAssumption

\* Steps of a task that leave the meters alone.
LEMMA TaskStep ==
    ASSUME MeterInv, NEW t \in Tasks, RefreshStat(t) \/ SampleNow(t)
    PROVE  MeterInv'
<1>1. /\ TypeInv /\ PastInv /\ DownInv /\ SeenInv /\ period \in Nat /\ period >= 1
      /\ UNCHANGED <<period, disk, pc, meter, spent, lost, hidden, synced, late>>
      /\ pc[SessionOf[t]] = "up"
  BY DEF MeterInv, TypeInv, Periods, RefreshStat, SampleNow, At
<1>2. \/ task[t].pc = "idle" /\ Goto(t, "stat", disk.mtime)
      \/ task[t].pc = "passed" /\ Goto(t, "billing", period)
  BY DEF RefreshStat, SampleNow, At
<1>3. disk.mtime \in Nat
  BY <1>1 DEF TypeInv
<1>4. /\ task' \in [Tasks -> [pc : Pcs, read : Nat]]
      /\ \/ task[t].pc = "idle" /\ task'[t].pc = "stat" /\ task'[t].read = disk.mtime
         \/ task[t].pc = "passed" /\ task'[t].pc = "billing" /\ task'[t].read = period
      /\ \A u \in Tasks : u # t => task'[u] = task[u]
  BY <1>1, <1>2, <1>3, GotoFields DEF Pcs
<1>5. TypeInv'
  BY <1>1, <1>4 DEF TypeInv
<1>6. PastInv'
  <2>1. \A u \in Tasks : /\ task'[u].pc = "billing" => task'[u].read \in 1..period
                         /\ task'[u].pc = "stat" => task'[u].read <= disk.mtime
    BY <1>1, <1>3, <1>4 DEF PastInv
  <2>2. QED
    BY <1>1, <2>1 DEF PastInv
<1>7. DownInv'
  BY <1>1, <1>4 DEF DownInv
<1>8. SeenInv'
  BY <1>1 DEF SeenInv
<1>9. \A s \in Sessions : Unflushed(s)' = Unflushed(s) /\ Merged(s)' = Merged(s)
  BY <1>1 DEF Unflushed, Merged
<1>10. Live' \subseteq Live
  BY <1>1, <1>4 DEF Live, Aware
<1>11. QED
  BY <1>1, <1>5, <1>6, <1>7, <1>8, <1>9, <1>10, ViewStep

LEMMA LoadUsageStep == ASSUME MeterInv, NEW s \in Sessions, LoadUsage(s) PROVE MeterInv'
<1>1. /\ TypeInv /\ PastInv /\ DownInv /\ SeenInv
      /\ UNCHANGED <<period, disk, task, spent, lost, hidden, synced, late>>
      /\ pc[s] = "down" /\ pc' = [pc EXCEPT ![s] = "loaded"]
  BY DEF MeterInv, LoadUsage
<1> DEFINE m == [NoMeter EXCEPT !.merged_period = disk.period, !.merged_cost = disk.cost]
<1>2. disk.period \in Nat /\ disk.cost \in Nat /\ disk.mtime \in Nat /\ disk.period <= period /\ period \in Nat
  BY <1>1 DEF TypeInv, PastInv, Periods
<1>3. /\ m \in Meters /\ m.delta_period = 0 /\ m.delta = 0
      /\ m.merged_period = disk.period /\ m.merged_cost = disk.cost /\ m.seen = 0
  BY <1>2 DEF NoMeter, Meters
<1>4. meter' = [meter EXCEPT ![s] = m]
  BY DEF LoadUsage
<1> HIDE DEF m
<1>5. meter' \in [Sessions -> Meters] /\ meter'[s] = m /\ \A r \in Sessions : r # s => meter'[r] = meter[r]
  BY <1>1, <1>3, <1>4 DEF TypeInv
<1>6. pc'[s] = "loaded" /\ \A r \in Sessions : r # s => pc'[r] = pc[r]
  BY <1>1 DEF TypeInv
<1>7. TypeInv'
  BY <1>1, <1>5 DEF TypeInv
<1>8. PastInv'
  <2>1. \A r \in Sessions : /\ meter'[r].delta_period <= period /\ meter'[r].merged_period <= period
                            /\ meter'[r].seen <= disk.mtime
    BY <1>1, <1>2, <1>3, <1>5 DEF PastInv
  <2>2. QED
    BY <1>1, <2>1 DEF PastInv
<1>9. DownInv'
  BY <1>1, <1>5, <1>6, SessionIs DEF DownInv, TypeInv
<1>10. SeenInv'
  <2>1. \A r \in synced : meter'[r] = meter[r]
    BY <1>1, <1>5 DEF DownInv, TypeInv
  <2>2. QED
    BY <1>1, <2>1 DEF SeenInv
<1>11. \A r \in Sessions : r # s => Unflushed(r)' = Unflushed(r) /\ Merged(r)' = Merged(r)
  BY <1>1, <1>5 DEF Unflushed, Merged
<1>12. Unflushed(s)' = 0 /\ Unflushed(s) = 0 /\ Merged(s)' = OnDisk
  BY <1>1, <1>3, <1>5, NoMeterFields DEF Unflushed, Merged, OnDisk, DownInv
<1>13. ASSUME Budget > 0, OnDisk >= Budget PROVE Live' \subseteq Live
  <2>1. disk.period = period /\ disk.cost >= Budget
    BY <1>13, BoundsAssumption DEF OnDisk
  <2>2. Aware(s)'
    BY <1>1, <1>3, <1>5, <2>1 DEF Aware
  <2>3. \A u \in Tasks : SessionOf[u] = s => task[u].pc = "idle"
    BY <1>1 DEF DownInv
  <2>4. \A r \in Sessions : r # s => Aware(r)' = Aware(r)
    BY <1>1, <1>5 DEF Aware
  <2>5. QED
    BY <1>1, <1>6, <2>2, <2>3, <2>4, SessionIs DEF Live
<1>14. QED
  BY <1>1, <1>7, <1>8, <1>9, <1>10, <1>11, <1>12, <1>13, ViewStep

LEMMA LoadMtimeStep == ASSUME MeterInv, NEW s \in Sessions, LoadMtime(s) PROVE MeterInv'
<1>1. /\ TypeInv /\ PastInv /\ DownInv /\ SeenInv
      /\ UNCHANGED <<period, disk, task, spent, lost, hidden, synced, late>>
      /\ pc[s] = "loaded" /\ pc' = [pc EXCEPT ![s] = "up"]
  BY DEF MeterInv, LoadMtime
<1> DEFINE m == [meter[s] EXCEPT !.seen = disk.mtime]
<1>2. disk.mtime \in Nat /\ meter[s] \in Meters
  BY <1>1 DEF TypeInv
<1>3. /\ m \in Meters /\ m.delta_period = meter[s].delta_period /\ m.delta = meter[s].delta
      /\ m.merged_period = meter[s].merged_period /\ m.merged_cost = meter[s].merged_cost /\ m.seen = disk.mtime
  BY <1>2 DEF Meters
<1>4. meter' = [meter EXCEPT ![s] = m]
  BY DEF LoadMtime
<1> HIDE DEF m
<1>5. meter' \in [Sessions -> Meters] /\ meter'[s] = m /\ \A r \in Sessions : r # s => meter'[r] = meter[r]
  BY <1>1, <1>3, <1>4 DEF TypeInv
<1>6. pc'[s] = "up" /\ \A r \in Sessions : r # s => pc'[r] = pc[r]
  BY <1>1 DEF TypeInv
<1>7. TypeInv'
  BY <1>1, <1>5 DEF TypeInv
<1>8. PastInv'
  <2>1. \A r \in Sessions : /\ meter'[r].delta_period <= period /\ meter'[r].merged_period <= period
                            /\ meter'[r].seen <= disk.mtime
    BY <1>1, <1>2, <1>3, <1>5 DEF PastInv
  <2>2. QED
    BY <1>1, <2>1 DEF PastInv
<1>9. DownInv'
  BY <1>1, <1>5, <1>6, SessionIs DEF DownInv, TypeInv
<1>10. SeenInv'
  <2>1. \A r \in synced : meter'[r] = meter[r]
    BY <1>1, <1>5 DEF DownInv, TypeInv
  <2>2. QED
    BY <1>1, <2>1 DEF SeenInv
<1>11. \A r \in Sessions : Unflushed(r)' = Unflushed(r) /\ Merged(r)' = Merged(r)
  BY <1>1, <1>3, <1>5 DEF Unflushed, Merged
<1>12. Live' \subseteq Live
  BY <1>1, <1>3, <1>5, <1>6, SessionIs DEF Live, Aware
<1>13. QED
  BY <1>1, <1>7, <1>8, <1>9, <1>10, <1>11, <1>12, ViewStep

LEMMA ReloadStep == ASSUME MeterInv, NEW t \in Tasks, Reload(t) PROVE MeterInv'
<1> DEFINE s == SessionOf[t]
<1>1. /\ TypeInv /\ PastInv /\ DownInv /\ SeenInv /\ s \in Sessions
      /\ UNCHANGED <<period, disk, pc, spent, lost, hidden, late>>
      /\ pc[s] = "up" /\ task[t].pc = "stat" /\ Goto(t, "fresh", 0)
  BY SessionIs DEF MeterInv, Reload, At
<1>2. /\ task' \in [Tasks -> [pc : Pcs, read : Nat]] /\ task'[t].pc = "fresh"
      /\ \A u \in Tasks : u # t => task'[u] = task[u]
  BY <1>1, GotoFields DEF Pcs
<1>3. /\ disk.period \in Nat /\ disk.cost \in Nat /\ disk.mtime \in Nat /\ disk.period <= period
      /\ period \in Nat /\ task[t].read \in Nat /\ task[t].read <= disk.mtime /\ meter[s] \in Meters
  BY <1>1 DEF TypeInv, PastInv, Periods
<1>4. ASSUME UNCHANGED <<meter, synced>> PROVE MeterInv'
  <2>1. TypeInv' /\ PastInv' /\ DownInv' /\ SeenInv'
    BY <1>1, <1>2, <1>4 DEF TypeInv, PastInv, DownInv, SeenInv
  <2>2. \A r \in Sessions : Unflushed(r)' = Unflushed(r) /\ Merged(r)' = Merged(r)
    BY <1>1, <1>4 DEF Unflushed, Merged
  <2>3. Live' \subseteq Live
    BY <1>1, <1>2, <1>4 DEF Live, Aware
  <2>4. QED
    BY <1>1, <2>1, <2>2, <2>3, ViewStep
<1>5. ASSUME meter' = [meter EXCEPT ![s].merged_period = disk.period, ![s].merged_cost = disk.cost,
                                    ![s].seen = task[t].read],
             synced' = synced \cup {s}
      PROVE  MeterInv'
  <2> DEFINE m1 == [meter[s] EXCEPT !.merged_period = disk.period]
             m2 == [m1 EXCEPT !.merged_cost = disk.cost]
             m  == [m2 EXCEPT !.seen = task[t].read]
  <2>1. meter' = [meter EXCEPT ![s] = m]
    BY <1>1, <1>5 DEF TypeInv
  <2>2. /\ m \in Meters /\ m.delta_period = meter[s].delta_period /\ m.delta = meter[s].delta
        /\ m.merged_period = disk.period /\ m.merged_cost = disk.cost /\ m.seen = task[t].read
    BY <1>3 DEF Meters
  <2> HIDE DEF m
  <2>3. meter' \in [Sessions -> Meters] /\ meter'[s] = m /\ \A r \in Sessions : r # s => meter'[r] = meter[r]
    BY <1>1, <2>1, <2>2 DEF TypeInv
  <2> HIDE DEF s
  <2>4. TypeInv'
    BY <1>1, <1>2, <1>5, <2>3 DEF TypeInv
  <2>5. PastInv'
    <3>1. \A r \in Sessions : /\ meter'[r].delta_period <= period /\ meter'[r].merged_period <= period
                              /\ meter'[r].seen <= disk.mtime
      BY <1>1, <1>3, <2>2, <2>3 DEF PastInv
    <3>2. QED
      BY <1>1, <1>2, <3>1 DEF PastInv
  <2>6. DownInv'
    <3>1. \A r \in Sessions : pc'[r] = "down" => meter'[r] = NoMeter
      BY <1>1, <2>3 DEF DownInv
    <3>2. QED
      BY <1>1, <1>2, <1>5, <3>1 DEF DownInv, s
  <2>7. SeenInv'
    <3> SUFFICES ASSUME ~late, NEW r \in synced', meter'[r].seen = disk.mtime
                 PROVE  \/ meter'[r].merged_period = disk.period /\ meter'[r].merged_cost = disk.cost
                        \/ disk.period < meter'[r].merged_period
      BY <1>1 DEF SeenInv
    <3>1. CASE r = s
      BY <2>2, <2>3, <3>1
    <3>2. CASE r # s
      BY <1>1, <1>5, <2>3, <3>2 DEF SeenInv, TypeInv
    <3>3. QED
      BY <3>1, <3>2
  <2>8. \A r \in Sessions : Unflushed(r)' = Unflushed(r) /\ (r # s => Merged(r)' = Merged(r))
    BY <1>1, <2>2, <2>3 DEF Unflushed, Merged
  <2>9. Merged(s)' = OnDisk
    BY <1>1, <2>2, <2>3 DEF Merged, OnDisk
  <2>10. ASSUME Budget > 0, OnDisk >= Budget PROVE Live' \subseteq Live
    <3>1. disk.period = period /\ disk.cost >= Budget
      BY <2>10, BoundsAssumption DEF OnDisk
    <3>2. Aware(s)'
      BY <1>1, <2>2, <2>3, <3>1 DEF Aware
    <3>3. \A r \in Sessions : r # s => Aware(r)' = Aware(r)
      BY <1>1, <2>3 DEF Aware
    <3>4. QED
      BY <1>1, <1>2, <3>2, <3>3, SessionIs DEF Live
  <2>11. QED
    BY <1>1, <2>4, <2>5, <2>6, <2>7, <2>8, <2>9, <2>10, ViewStep
<1>6. QED
  BY <1>4, <1>5 DEF Reload

LEMMA CheckStep == ASSUME MeterInv, NEW t \in Tasks, Check(t) PROVE MeterInv'
<1> DEFINE s == SessionOf[t]
           m == Rolled(meter[s], period)
<1>1. /\ TypeInv /\ PastInv /\ DownInv /\ SeenInv /\ s \in Sessions
      /\ UNCHANGED <<period, disk, pc, spent, lost, hidden, synced, late>>
      /\ pc[s] = "up" /\ task[t].pc = "fresh" /\ meter' = [meter EXCEPT ![s] = m]
      /\ IF over_budget(m) THEN Goto(t, "idle", 0) ELSE Goto(t, "passed", 0)
  BY SessionIs DEF MeterInv, Check, At
<1>2. period \in Nat /\ meter[s] \in Meters
  BY <1>1 DEF TypeInv, Periods
<1>3. /\ m \in Meters /\ m.delta_period = period /\ m.merged_period = period /\ m.seen = meter[s].seen
      /\ m.delta = (IF meter[s].delta_period = period THEN meter[s].delta ELSE 0)
      /\ m.merged_cost = (IF meter[s].merged_period = period THEN meter[s].merged_cost ELSE 0)
  BY <1>2, RolledFields
<1> HIDE DEF m
<1>4. /\ task' \in [Tasks -> [pc : Pcs, read : Nat]]
      /\ task'[t].pc \in {"idle", "passed"} /\ (over_budget(m) => task'[t].pc = "idle")
      /\ \A u \in Tasks : u # t => task'[u] = task[u]
  BY <1>1, GotoFields DEF Pcs
<1>5. meter' \in [Sessions -> Meters] /\ meter'[s] = m /\ \A r \in Sessions : r # s => meter'[r] = meter[r]
  BY <1>1, <1>3 DEF TypeInv
<1> HIDE DEF s
<1>6. TypeInv'
  BY <1>1, <1>4, <1>5 DEF TypeInv
<1>7. PastInv'
  <2>1. \A r \in Sessions : /\ meter'[r].delta_period <= period /\ meter'[r].merged_period <= period
                            /\ meter'[r].seen <= disk.mtime
    BY <1>1, <1>2, <1>3, <1>5 DEF PastInv
  <2>2. QED
    BY <1>1, <1>4, <2>1 DEF PastInv
<1>8. DownInv'
  <2>1. \A r \in Sessions : pc'[r] = "down" => meter'[r] = NoMeter
    BY <1>1, <1>5 DEF DownInv
  <2>2. QED
    BY <1>1, <1>4, <2>1 DEF DownInv, s
<1>9. SeenInv'
  <2> SUFFICES ASSUME ~late, NEW r \in synced, meter'[r].seen = disk.mtime
               PROVE  \/ meter'[r].merged_period = disk.period /\ meter'[r].merged_cost = disk.cost
                      \/ disk.period < meter'[r].merged_period
    BY <1>1 DEF SeenInv
  <2>1. CASE r = s
    <3>1. disk.period <= period /\ disk.period \in Nat
      BY <1>1 DEF PastInv, TypeInv
    <3>2. CASE disk.period < period
      BY <1>3, <1>5, <2>1, <3>2
    <3>3. CASE disk.period = period
      <4>1. meter[s].merged_period <= period /\ meter[s].merged_period \in Nat
        BY <1>1, <1>2 DEF PastInv, Meters
      <4>2. meter[s].merged_period = period /\ meter[s].merged_cost = disk.cost
        BY <1>1, <1>2, <1>3, <1>5, <2>1, <3>3, <4>1 DEF SeenInv
      <4>3. QED
        BY <1>3, <1>5, <2>1, <3>3, <4>2
    <3>4. QED
      BY <1>2, <3>1, <3>2, <3>3
  <2>2. CASE r # s
    BY <1>1, <1>5, <2>2 DEF SeenInv, TypeInv
  <2>3. QED
    BY <2>1, <2>2
<1>10. \A r \in Sessions : Unflushed(r)' = Unflushed(r) /\ Merged(r)' = Merged(r)
  BY <1>1, <1>3, <1>5 DEF Unflushed, Merged
<1>11. ASSUME Budget > 0 PROVE Live' \subseteq Live
  <2>1. \A r \in Sessions : Aware(r) => Aware(r)'
    BY <1>1, <1>3, <1>5 DEF Aware
  <2>2. Aware(s) => over_budget(m)
    <3>1. ASSUME Aware(s) PROVE m.merged_cost >= Budget
      BY <1>3, <3>1 DEF Aware
    <3>2. m.merged_cost \in Nat /\ m.delta \in Nat /\ Budget \in Nat
      BY <1>3, BoundsAssumption DEF Meters
    <3>3. QED
      BY <1>11, <3>1, <3>2 DEF over_budget
  <2>3. ASSUME NEW u \in Live' PROVE u \in Live
    <3>1. /\ u \in Tasks /\ pc[SessionOf[u]] # "down"
          /\ ~Aware(SessionOf[u])' \/ task'[u].pc \in {"passed", "billing"}
      BY <1>1, <2>3 DEF Live
    <3>2. CASE u = t
      BY <1>4, <2>1, <2>2, <3>1, <3>2, SessionIs DEF Live, s
    <3>3. CASE u # t
      BY <1>4, <2>1, <3>1, <3>3, SessionIs DEF Live
    <3>4. QED
      BY <3>2, <3>3
  <2>4. QED
    BY <2>3
<1>12. QED
  BY <1>1, <1>6, <1>7, <1>8, <1>9, <1>10, <1>11, ViewStep

-----------------------------------------------------------------------------
(***************************************************************************)
(* Billing.                                                                *)
(***************************************************************************)
LEMMA RecordedFields ==
    ASSUME TypeInv, NEW t \in Tasks
    PROVE  /\ Recorded(t) \in Meters
           /\ Recorded(t).delta_period = task[t].read
           /\ Recorded(t).delta = 1 + (IF meter[SessionOf[t]].delta_period = task[t].read
                                       THEN meter[SessionOf[t]].delta ELSE 0)
           /\ Recorded(t).merged_period = task[t].read
           /\ Recorded(t).merged_cost = (IF meter[SessionOf[t]].merged_period = task[t].read
                                         THEN meter[SessionOf[t]].merged_cost ELSE 0)
           /\ Recorded(t).seen = meter[SessionOf[t]].seen
<1> DEFINE o == meter[SessionOf[t]]
           n == task[t].read
           r == Rolled(o, n)
<1>1. o \in Meters /\ n \in Nat
  BY SessionIs DEF TypeInv
<1> HIDE DEF o, n
<1>2. /\ r \in Meters /\ r.delta_period = n /\ r.merged_period = n /\ r.seen = o.seen
      /\ r.delta = (IF o.delta_period = n THEN o.delta ELSE 0)
      /\ r.merged_cost = (IF o.merged_period = n THEN o.merged_cost ELSE 0)
  BY <1>1, RolledFields
<1>3. Recorded(t) = [r EXCEPT !.delta = @ + 1]
  BY DEF Recorded, o, n
<1> HIDE DEF r
<1>4. QED
  BY <1>1, <1>2, <1>3 DEF Meters, o, n

\* What the two ways of billing have in common.
LEMMA BilledFields ==
    ASSUME MeterInv, NEW t \in Tasks, Billed(t)
    PROVE  /\ SessionOf[t] \in Sessions /\ pc[SessionOf[t]] = "up" /\ task[t].pc = "billing"
           /\ task[t].read \in 1..period /\ task[t].read \in Periods /\ period \in Periods /\ period \in Nat
           /\ UNCHANGED <<period, pc, lost>> /\ late' = (late \/ task[t].read # period)
           /\ spent' \in [Periods -> Nat] /\ spent'[task[t].read] = spent[task[t].read] + 1
           /\ \A m \in Periods : m # task[t].read => spent'[m] = spent[m]
           /\ task' \in [Tasks -> [pc : Pcs, read : Nat]] /\ task'[t].pc = "idle"
           /\ \A u \in Tasks : u # t => task'[u] = task[u]
<1>1. TypeInv /\ PastInv
  BY DEF MeterInv
<1>2. /\ SessionOf[t] \in Sessions /\ pc[SessionOf[t]] = "up" /\ task[t].pc = "billing"
      /\ UNCHANGED <<period, pc, lost>> /\ late' = (late \/ task[t].read # period)
      /\ spent' = [spent EXCEPT ![task[t].read] = @ + 1] /\ Goto(t, "idle", 0)
  BY SessionIs DEF Billed, At
<1>3. task[t].read \in 1..period /\ task[t].read \in Periods /\ period \in Periods /\ period \in Nat
  BY <1>1, <1>2, BoundsAssumption DEF TypeInv, PastInv, Periods
<1>4. /\ task' \in [Tasks -> [pc : Pcs, read : Nat]] /\ task'[t].pc = "idle"
      /\ \A u \in Tasks : u # t => task'[u] = task[u]
  BY <1>1, <1>2, GotoFields DEF Pcs
<1>5. /\ spent' \in [Periods -> Nat] /\ spent'[task[t].read] = spent[task[t].read] + 1
      /\ \A m \in Periods : m # task[t].read => spent'[m] = spent[m]
  BY <1>1, <1>2, <1>3 DEF TypeInv
<1>6. QED
  BY <1>2, <1>3, <1>4, <1>5

LEMMA BillUnflushedStep == ASSUME MeterInv, NEW t \in Tasks, BillUnflushed(t) PROVE MeterInv'
<1> DEFINE s == SessionOf[t]
           n == task[t].read
           m == Recorded(t)
<1>1. TypeInv /\ PastInv /\ DownInv /\ RealInv /\ NoneLost /\ SeenInv /\ OverInv
  BY DEF MeterInv
<1>2. /\ meter' = [meter EXCEPT ![s] = m] /\ UNCHANGED <<disk, synced>>
      /\ hidden' = [hidden EXCEPT ![n] = @ + 1]
  BY DEF BillUnflushed
<1>3. /\ s \in Sessions /\ pc[s] = "up" /\ task[t].pc = "billing"
      /\ n \in 1..period /\ n \in Periods /\ period \in Periods /\ period \in Nat
      /\ UNCHANGED <<period, pc, lost>> /\ late' = (late \/ n # period)
      /\ spent' \in [Periods -> Nat] /\ spent'[n] = spent[n] + 1
      /\ \A i \in Periods : i # n => spent'[i] = spent[i]
      /\ task' \in [Tasks -> [pc : Pcs, read : Nat]] /\ task'[t].pc = "idle"
      /\ \A u \in Tasks : u # t => task'[u] = task[u]
  BY BilledFields DEF BillUnflushed
<1>4. /\ m \in Meters /\ m.delta_period = n /\ m.merged_period = n /\ m.seen = meter[s].seen
      /\ m.delta = 1 + (IF meter[s].delta_period = n THEN meter[s].delta ELSE 0)
      /\ m.merged_cost = (IF meter[s].merged_period = n THEN meter[s].merged_cost ELSE 0)
  BY <1>1, RecordedFields
<1> HIDE DEF m
<1>5. meter' \in [Sessions -> Meters] /\ meter'[s] = m /\ \A r \in Sessions : r # s => meter'[r] = meter[r]
  BY <1>1, <1>2, <1>3, <1>4 DEF TypeInv
<1>6. /\ hidden' \in [Periods -> Nat] /\ hidden'[n] = hidden[n] + 1
      /\ \A i \in Periods : i # n => hidden'[i] = hidden[i]
  BY <1>1, <1>2, <1>3 DEF TypeInv
<1> HIDE DEF s, n
<1>7. /\ spent[period] \in Nat /\ lost[period] \in Nat /\ hidden[period] \in Nat /\ meter[s] \in Meters
      /\ disk.period \in Nat /\ disk.cost \in Nat /\ disk.mtime \in Nat /\ n \in Nat /\ n <= period
  BY <1>1, <1>3 DEF TypeInv
<1>8. TypeInv'
  BY <1>1, <1>2, <1>3, <1>5, <1>6 DEF TypeInv
<1>9. PastInv'
  <2>1. \A r \in Sessions : /\ meter'[r].delta_period <= period /\ meter'[r].merged_period <= period
                            /\ meter'[r].seen <= disk.mtime
    BY <1>1, <1>3, <1>4, <1>5, <1>7 DEF PastInv
  <2>2. ASSUME NEW i \in Periods, i > period
        PROVE  spent'[i] = 0 /\ lost[i] = 0 /\ hidden'[i] = 0
    <3>1. i # n
      BY <1>3, <1>7, <2>2 DEF Periods
    <3>2. spent[i] = 0 /\ lost[i] = 0 /\ hidden[i] = 0
      BY <1>1, <2>2 DEF PastInv
    <3>3. QED
      BY <1>3, <1>6, <3>1, <3>2
  <2>3. QED
    BY <1>1, <1>2, <1>3, <2>1, <2>2 DEF PastInv
<1>10. DownInv'
  <2>1. \A r \in Sessions : pc'[r] = "down" => meter'[r] = NoMeter
    BY <1>1, <1>3, <1>5 DEF DownInv
  <2>2. QED
    BY <1>1, <1>2, <1>3, <2>1 DEF DownInv
<1>11. Cardinality(Held') + Unflushed(s) = Cardinality(Held) + Unflushed(s)'
  BY <1>1, <1>3, <1>5, <1>8, HeldChange
<1>12. /\ Cardinality(Held) \in Nat /\ Unflushed(s) \in Nat /\ Unflushed(s) <= Cardinality(Held)
       /\ Cardinality(Held') \in Nat /\ OnDisk \in Nat /\ OnDisk' = OnDisk
  <2>1. Cardinality(Held') \in Nat
    <3>1. (Cardinality(Held) \in Nat)'
      BY <1>8, HeldType, PTL
    <3>2. QED
      BY <3>1
  <2>2. QED
    BY <1>1, <1>2, <1>3, <2>1, HeldType, MergedType DEF OnDisk
<1>13. \A r \in Sessions : Merged(r) \in Nat /\ (r # s => Merged(r)' = Merged(r))
  BY <1>1, <1>3, <1>5, MergedType DEF Merged
<1>14. CASE n = period
  <2>1. Unflushed(s)' = Unflushed(s) + 1 /\ Merged(s)' = Merged(s) /\ (late' <=> late)
    <3>1. meter[s].delta \in Nat
      BY <1>7 DEF Meters
    <3>2. Unflushed(s)' = Unflushed(s) + 1
      BY <1>3, <1>4, <1>5, <1>14, <3>1 DEF Unflushed
    <3>3. QED
      BY <1>3, <1>4, <1>5, <1>14, <3>2 DEF Merged
  <2>2. Cardinality(Held') = Cardinality(Held) + 1
    BY <1>11, <1>12, <2>1
  <2>3. RealInv'
    <3>1. OnDisk + Cardinality(Held) + lost[period] <= spent[period]
      BY <1>1 DEF RealInv
    <3>2. OnDisk + (Cardinality(Held) + 1) + lost[period] <= spent[period] + 1
      BY <1>7, <1>12, <3>1
    <3>3. ASSUME NEW r \in Sessions PROVE Merged(r)' + (Cardinality(Held) + 1) + lost[period] <= spent[period] + 1
      <4>1. Merged(r) + Cardinality(Held) + lost[period] <= spent[period] /\ Merged(r)' = Merged(r)
        BY <1>1, <1>13, <2>1 DEF RealInv
      <4>2. QED
        BY <1>7, <1>12, <1>13, <4>1
    <3>4. QED
      BY <1>3, <1>12, <1>14, <2>2, <3>2, <3>3 DEF RealInv
  <2>4. NoneLost'
    <3>1. ~late => OnDisk + Cardinality(Held) + lost[period] = spent[period]
      BY <1>1 DEF NoneLost, Conserved
    <3>2. ~late => OnDisk + (Cardinality(Held) + 1) + lost[period] = spent[period] + 1
      BY <1>7, <1>12, <3>1
    <3>3. QED
      BY <1>3, <1>12, <1>14, <2>1, <2>2, <3>2 DEF NoneLost, Conserved
  <2>5. SeenInv'
    <3> SUFFICES ASSUME ~late, NEW r \in synced, meter'[r].seen = disk.mtime
                 PROVE  \/ meter'[r].merged_period = disk.period /\ meter'[r].merged_cost = disk.cost
                        \/ disk.period < meter'[r].merged_period
      BY <1>2, <2>1 DEF SeenInv
    <3>1. CASE r = s
      <4>1. disk.period <= period /\ meter[s].merged_period <= period /\ meter[s].merged_period \in Nat
        BY <1>1, <1>3, <1>7 DEF PastInv, Meters
      <4>2. CASE disk.period < period
        BY <1>4, <1>5, <1>14, <3>1, <4>2
      <4>3. CASE disk.period = period
        BY <1>1, <1>3, <1>4, <1>5, <1>7, <1>14, <3>1, <4>1, <4>3 DEF SeenInv
      <4>4. QED
        BY <1>3, <1>7, <4>1, <4>2, <4>3
    <3>2. CASE r # s
      BY <1>1, <1>5, <3>2 DEF SeenInv, TypeInv
    <3>3. QED
      BY <3>1, <3>2
  <2>6. OverInv'
    <3> SUFFICES ASSUME Budget > 0, ~late
                 PROVE  /\ spent[period] + 1 <= OnDisk + (hidden[period] + 1)
                        /\ OnDisk >= Budget =>
                              spent[period] + 1 + Cardinality(Live')
                                 < Budget + Cardinality(Tasks) + (hidden[period] + 1)
      BY <1>3, <1>6, <1>12, <1>14, <2>1 DEF OverInv
    <3>2. \A r \in Sessions : Aware(r) <=> Merged(r) >= Budget
      BY <1>1, BoundsAssumption DEF Aware, Merged, TypeInv, Meters
    <3>3. \A r \in Sessions : Aware(r)' <=> Merged(r)' >= Budget
      BY <1>3, <1>8, BoundsAssumption DEF Aware, Merged, TypeInv, Meters
    <3>4. \A r \in Sessions : Aware(r)' <=> Aware(r)
      BY <1>13, <2>1, <3>2, <3>3
    <3>5. Live' \subseteq Live
      BY <1>3, <3>4, SessionIs DEF Live
    <3>6. Cardinality(Live') <= Cardinality(Live) /\ Cardinality(Live') \in Nat
      BY <3>5, LiveShrinks
    <3>7. /\ spent[period] <= OnDisk + hidden[period]
          /\ OnDisk >= Budget =>
                spent[period] + Cardinality(Live) < Budget + Cardinality(Tasks) + hidden[period]
      BY <1>1 DEF OverInv
    <3>8. QED
      BY <1>7, <1>12, <3>6, <3>7, LiveType, BoundsAssumption
  <2>7. QED
    BY <1>8, <1>9, <1>10, <2>3, <2>4, <2>5, <2>6 DEF MeterInv
<1>15. CASE n # period
  <2>1. Unflushed(s)' = 0 /\ Merged(s)' = 0 /\ late'
    BY <1>3, <1>4, <1>5, <1>15 DEF Unflushed, Merged
  <2>2. Cardinality(Held') <= Cardinality(Held)
    BY <1>11, <1>12, <2>1
  <2>3. RealInv'
    <3>1. OnDisk + Cardinality(Held) + lost[period] <= spent[period]
      BY <1>1 DEF RealInv
    <3>2. OnDisk + Cardinality(Held') + lost[period] <= spent[period]
      BY <1>7, <1>12, <2>2, <3>1
    <3>3. ASSUME NEW r \in Sessions PROVE Merged(r)' + Cardinality(Held') + lost[period] <= spent[period]
      <4>1. Merged(r) + Cardinality(Held) + lost[period] <= spent[period] /\ Merged(r)' \in {0, Merged(r)}
        BY <1>1, <1>13, <2>1 DEF RealInv
      <4>2. QED
        BY <1>7, <1>12, <1>13, <2>2, <4>1
    <3>4. QED
      BY <1>3, <1>12, <1>15, <3>2, <3>3 DEF RealInv
  <2>4. QED
    BY <1>8, <1>9, <1>10, <2>1, <2>3 DEF MeterInv, NoneLost, SeenInv, OverInv
<1>16. QED
  BY <1>14, <1>15

LEMMA BillStep == ASSUME MeterInv, NEW t \in Tasks, Bill(t) PROVE MeterInv'
<1> DEFINE s == SessionOf[t]
           n == task[t].read
           m == Recorded(t)
           k == [m EXCEPT !.merged_cost = disk'.cost, !.delta = 0, !.seen = disk'.mtime]
<1>1. TypeInv /\ PastInv /\ DownInv /\ RealInv /\ NoneLost /\ SeenInv /\ OverInv
  BY DEF MeterInv
<1>2. /\ disk' = [RolledDisk(n) EXCEPT !.cost = @ + m.delta, !.mtime = @ + 1]
      /\ meter' = [meter EXCEPT ![s] = k] /\ synced' = synced \cup {s} /\ UNCHANGED hidden
  BY DEF Bill, Flush
<1>3. /\ s \in Sessions /\ pc[s] = "up" /\ task[t].pc = "billing"
      /\ n \in 1..period /\ n \in Periods /\ period \in Periods /\ period \in Nat
      /\ UNCHANGED <<period, pc, lost>> /\ late' = (late \/ n # period)
      /\ spent' \in [Periods -> Nat] /\ spent'[n] = spent[n] + 1
      /\ \A i \in Periods : i # n => spent'[i] = spent[i]
      /\ task' \in [Tasks -> [pc : Pcs, read : Nat]] /\ task'[t].pc = "idle"
      /\ \A u \in Tasks : u # t => task'[u] = task[u]
  BY BilledFields DEF Bill
<1>4. /\ m \in Meters /\ m.delta_period = n /\ m.merged_period = n
      /\ m.delta = 1 + (IF meter[s].delta_period = n THEN meter[s].delta ELSE 0)
  BY <1>1, RecordedFields
<1> HIDE DEF m
<1>5. /\ disk' \in [period : Nat, cost : Nat, mtime : Nat] /\ disk'.period = n
      /\ disk'.cost = (IF disk.period = n THEN disk.cost ELSE 0) + m.delta
      /\ disk'.mtime = disk.mtime + 1
  <2> DEFINE d == RolledDisk(n)
  <2>1. disk \in [period : Nat, cost : Nat, mtime : Nat] /\ n \in Nat /\ m.delta \in Nat
    BY <1>1, <1>3, <1>4 DEF TypeInv, Meters
  <2> HIDE DEF n
  <2>2. /\ d \in [period : Nat, cost : Nat, mtime : Nat] /\ d.period = n
        /\ d.cost = (IF disk.period = n THEN disk.cost ELSE 0) /\ d.mtime = disk.mtime
    BY <2>1 DEF RolledDisk
  <2> HIDE DEF d
  <2> DEFINE e == [d EXCEPT !.cost = @ + m.delta]
  <2>3. /\ e \in [period : Nat, cost : Nat, mtime : Nat] /\ e.period = d.period
        /\ e.cost = d.cost + m.delta /\ e.mtime = d.mtime
    BY <2>1, <2>2
  <2>4. disk' = [e EXCEPT !.mtime = @ + 1]
    BY <1>2 DEF d
  <2> HIDE DEF e
  <2>5. /\ disk' \in [period : Nat, cost : Nat, mtime : Nat] /\ disk'.period = e.period
        /\ disk'.cost = e.cost /\ disk'.mtime = e.mtime + 1
    BY <2>3, <2>4
  <2>6. QED
    BY <2>2, <2>3, <2>5
<1>6. /\ k \in Meters /\ k.delta_period = n /\ k.merged_period = n /\ k.merged_cost = disk'.cost
      /\ k.delta = 0 /\ k.seen = disk'.mtime
  <2>1. disk'.cost \in Nat /\ disk'.mtime \in Nat
    BY <1>5
  <2>2. QED
    BY <1>4, <2>1 DEF Meters
<1> HIDE DEF k
<1>7. meter' \in [Sessions -> Meters] /\ meter'[s] = k /\ \A r \in Sessions : r # s => meter'[r] = meter[r]
  BY <1>1, <1>2, <1>3, <1>6 DEF TypeInv
<1> HIDE DEF s, n
<1>8. /\ spent[period] \in Nat /\ lost[period] \in Nat /\ hidden[period] \in Nat /\ meter[s] \in Meters
      /\ disk.period \in Nat /\ disk.cost \in Nat /\ disk.mtime \in Nat /\ n \in Nat /\ n <= period
  BY <1>1, <1>3 DEF TypeInv
<1>9. TypeInv'
  BY <1>1, <1>2, <1>3, <1>5, <1>7 DEF TypeInv
<1>10. PastInv'
  <2>1. \A r \in Sessions : /\ meter[r].delta_period <= period /\ meter[r].merged_period <= period
                            /\ meter[r].seen <= disk.mtime /\ meter[r].seen \in Nat
    BY <1>1 DEF PastInv, TypeInv, Meters
  <2>2. ASSUME NEW r \in Sessions
        PROVE  /\ meter'[r].delta_period <= period /\ meter'[r].merged_period <= period
               /\ meter'[r].seen <= disk'.mtime
    BY <1>5, <1>6, <1>7, <1>8, <2>1
  <2>3. \A i \in Periods : i > period => spent'[i] = 0 /\ lost[i] = 0 /\ hidden[i] = 0
    <3>1. \A i \in Periods : i > period => i # n
      BY <1>3, <1>8 DEF Periods
    <3>2. QED
      BY <1>1, <1>3, <3>1 DEF PastInv
  <2>4. ASSUME NEW u \in Tasks
        PROVE  /\ task'[u].pc = "billing" => task'[u].read \in 1..period
               /\ task'[u].pc = "stat" => task'[u].read <= disk'.mtime
    <3>1. CASE u = t
      BY <1>3, <3>1
    <3>2. CASE u # t
      <4>1. /\ task[u].pc = "billing" => task[u].read \in 1..period
            /\ task[u].pc = "stat" => task[u].read <= disk.mtime
            /\ task[u].read \in Nat
        BY <1>1 DEF PastInv, TypeInv
      <4>2. QED
        BY <1>3, <1>5, <1>8, <3>2, <4>1
    <3>3. QED
      BY <3>1, <3>2
  <2>5. disk'.period <= period
    BY <1>5, <1>8
  <2>6. QED
    BY <1>2, <1>3, <2>2, <2>3, <2>4, <2>5 DEF PastInv
<1>11. DownInv'
  <2>1. \A r \in Sessions : pc'[r] = "down" => meter'[r] = NoMeter
    BY <1>1, <1>3, <1>7 DEF DownInv
  <2>2. QED
    BY <1>1, <1>2, <1>3, <2>1 DEF DownInv
<1>12. Cardinality(Held') + Unflushed(s) = Cardinality(Held)
  <2>1. Cardinality(Held') + Unflushed(s) = Cardinality(Held) + Unflushed(s)'
    BY <1>1, <1>3, <1>7, <1>9, HeldChange
  <2>2. Unflushed(s)' = 0
    BY <1>6, <1>7 DEF Unflushed
  <2>3. Cardinality(Held) \in Nat
    BY <1>1, HeldType
  <2>4. QED
    BY <2>1, <2>2, <2>3
<1>13. /\ Cardinality(Held) \in Nat /\ Unflushed(s) \in Nat /\ Cardinality(Held') \in Nat /\ OnDisk \in Nat
  <2>1. (Cardinality(Held) \in Nat)'
    BY <1>9, HeldType, PTL
  <2>2. QED
    BY <1>1, <1>3, <2>1, HeldType, MergedType
<1>14. \A r \in Sessions : Merged(r) \in Nat /\ (r # s => Merged(r)' = Merged(r))
  BY <1>1, <1>3, <1>7, MergedType DEF Merged
<1>15. SeenInv'
  <2>1. ASSUME NEW r \in synced', meter'[r].seen = disk'.mtime
        PROVE  meter'[r].merged_period = disk'.period /\ meter'[r].merged_cost = disk'.cost
    <3>1. CASE r = s
      BY <1>5, <1>6, <1>7, <3>1
    <3>2. CASE r # s
      <4>1. r \in Sessions /\ meter'[r].seen <= disk.mtime /\ meter'[r].seen \in Nat
        BY <1>1, <1>2, <1>7, <3>2 DEF PastInv, TypeInv, Meters
      <4>2. QED
        BY <1>5, <1>8, <2>1, <4>1
    <3>3. QED
      BY <3>1, <3>2
  <2>2. QED
    BY <2>1 DEF SeenInv
<1>16. CASE n = period
  <2>1. /\ OnDisk' = OnDisk + Unflushed(s) + 1 /\ Merged(s)' = OnDisk' /\ (late' <=> late)
        /\ spent'[period] = spent[period] + 1
    <3>1. meter[s].delta \in Nat
      BY <1>8 DEF Meters
    <3>2. m.delta = 1 + Unflushed(s)
      BY <1>4, <1>16 DEF Unflushed
    <3>3. OnDisk' = OnDisk + (1 + Unflushed(s))
      BY <1>3, <1>5, <1>16, <3>2 DEF OnDisk
    <3>4. Merged(s)' = OnDisk'
      BY <1>3, <1>5, <1>6, <1>7, <1>16 DEF Merged, OnDisk
    <3>5. OnDisk' = OnDisk + Unflushed(s) + 1
      BY <1>13, <3>3
    <3>6. QED
      BY <1>3, <1>16, <3>4, <3>5
  <2>2. RealInv'
    <3>1. OnDisk + Cardinality(Held) + lost[period] <= spent[period]
      BY <1>1 DEF RealInv
    <3>2. OnDisk' + Cardinality(Held') + lost[period] <= spent[period] + 1
      BY <1>8, <1>12, <1>13, <2>1, <3>1
    <3>3. ASSUME NEW r \in Sessions PROVE Merged(r)' + Cardinality(Held') + lost[period] <= spent[period] + 1
      <4>1. CASE r = s
        BY <2>1, <3>2, <4>1
      <4>2. CASE r # s
        <5>1. Merged(r) + Cardinality(Held) + lost[period] <= spent[period] /\ Merged(r)' = Merged(r)
          BY <1>1, <1>14, <4>2 DEF RealInv
        <5>2. QED
          BY <1>8, <1>12, <1>13, <1>14, <5>1
      <4>3. QED
        BY <4>1, <4>2
    <3>4. QED
      BY <1>3, <2>1, <3>2, <3>3 DEF RealInv
  <2>3. NoneLost'
    <3>1. ~late => OnDisk + Cardinality(Held) + lost[period] = spent[period]
      BY <1>1 DEF NoneLost, Conserved
    <3>2. ~late => OnDisk' + Cardinality(Held') + lost[period] = spent[period] + 1
      BY <1>8, <1>12, <1>13, <2>1, <3>1
    <3>3. QED
      BY <1>3, <2>1, <3>2 DEF NoneLost, Conserved
  <2>4. OverInv'
    <3> SUFFICES ASSUME Budget > 0, ~late
                 PROVE  /\ spent[period] + 1 <= OnDisk' + hidden[period]
                        /\ OnDisk' >= Budget =>
                              spent[period] + 1 + Cardinality(Live') < Budget + Cardinality(Tasks) + hidden[period]
      BY <1>2, <1>3, <2>1 DEF OverInv
    <3>1. /\ spent[period] <= OnDisk + hidden[period]
          /\ OnDisk >= Budget =>
                spent[period] + Cardinality(Live) < Budget + Cardinality(Tasks) + hidden[period]
      BY <1>1 DEF OverInv
    <3>2. spent[period] + 1 <= OnDisk' + hidden[period]
      BY <1>8, <1>13, <2>1, <3>1
    <3>3. ASSUME OnDisk' >= Budget
          PROVE  Aware(s)' /\ t \notin Live'
      <4>1. disk'.period = period /\ disk'.cost = OnDisk'
        BY <1>3, <1>5, <1>16 DEF OnDisk
      <4>2. Aware(s)'
        BY <1>3, <1>6, <1>7, <1>16, <3>3, <4>1 DEF Aware
      <4>3. QED
        BY <1>3, <4>2 DEF Live, s
    <3>4. ASSUME OnDisk' >= Budget, OnDisk >= Budget
          PROVE  spent[period] + 1 + Cardinality(Live') < Budget + Cardinality(Tasks) + hidden[period]
      <4>1. t \in Live
        BY <1>3 DEF Live, s
      <4>2. \A r \in Sessions : r # s => Aware(r)' = Aware(r)
        BY <1>3, <1>7 DEF Aware
      <4>3. Live' \subseteq Live \ {t}
        BY <1>3, <3>3, <3>4, <4>2, SessionIs DEF Live
      <4>4. IsFiniteSet(Live) /\ Cardinality(Live) \in Nat
        BY LiveType
      <4>5. Cardinality(Live') <= Cardinality(Live) - 1 /\ Cardinality(Live') \in Nat
        <5> DEFINE L == Live
        <5>1. IsFiniteSet(L) /\ t \in L /\ Live' \subseteq L \ {t}
          BY <4>1, <4>3, <4>4
        <5> HIDE DEF L
        <5>2. Cardinality(Live') <= Cardinality(L) - 1 /\ Cardinality(Live') \in Nat
          BY <5>1, LiveLoses
        <5>3. QED
          BY <5>2 DEF L
      <4>6. QED
        BY <1>8, <3>1, <3>4, <4>4, <4>5, LiveType, BoundsAssumption
    <3>5. ASSUME OnDisk' >= Budget, ~(OnDisk >= Budget)
          PROVE  spent[period] + 1 + Cardinality(Live') < Budget + Cardinality(Tasks) + hidden[period]
      <4>1. Live' \subseteq Tasks \ {t}
        BY <3>3, <3>5 DEF Live
      <4>2. Cardinality(Live') <= Cardinality(Tasks) - 1 /\ Cardinality(Live') \in Nat
        BY <4>1, FiniteAssumption, LiveLoses
      <4>3. QED
        BY <1>8, <1>13, <3>1, <3>5, <4>2, LiveType, BoundsAssumption
    <3>6. QED
      BY <3>2, <3>4, <3>5
  <2>5. QED
    BY <1>9, <1>10, <1>11, <1>15, <2>2, <2>3, <2>4 DEF MeterInv
<1>17. CASE n # period
  <2>1. OnDisk' = 0 /\ Merged(s)' = 0 /\ late'
    BY <1>3, <1>5, <1>6, <1>7, <1>17 DEF OnDisk, Merged
  <2>2. Cardinality(Held') <= Cardinality(Held)
    BY <1>12, <1>13
  <2>3. RealInv'
    <3>1. 0 + Cardinality(Held') + lost[period] <= spent[period]
      <4>1. OnDisk + Cardinality(Held) + lost[period] <= spent[period]
        BY <1>1 DEF RealInv
      <4>2. QED
        BY <1>8, <1>13, <2>2, <4>1
    <3>2. ASSUME NEW r \in Sessions PROVE Merged(r)' + Cardinality(Held') + lost[period] <= spent[period]
      <4>1. CASE r = s
        BY <2>1, <3>1, <4>1
      <4>2. CASE r # s
        <5>1. Merged(r) + Cardinality(Held) + lost[period] <= spent[period] /\ Merged(r)' = Merged(r)
          BY <1>1, <1>14, <4>2 DEF RealInv
        <5>2. QED
          BY <1>8, <1>13, <1>14, <2>2, <5>1
      <4>3. QED
        BY <4>1, <4>2
    <3>3. QED
      BY <1>3, <1>17, <2>1, <3>1, <3>2 DEF RealInv
  <2>4. QED
    BY <1>9, <1>10, <1>11, <1>15, <2>1, <2>3 DEF MeterInv, NoneLost, OverInv
<1>18. QED
  BY <1>16, <1>17

-----------------------------------------------------------------------------
(***************************************************************************)
(* A session goes down, and the month ends.                                *)
(***************************************************************************)
LEMMA CrashStep == ASSUME MeterInv, NEW s \in Sessions, Crash(s) PROVE MeterInv'
<1> DEFINE m == meter[s]
<1>1. TypeInv /\ PastInv /\ DownInv /\ RealInv /\ NoneLost /\ SeenInv /\ OverInv
  BY DEF MeterInv
<1>2. /\ pc' = [pc EXCEPT ![s] = "down"] /\ meter' = [meter EXCEPT ![s] = NoMeter]
      /\ task' = [t \in Tasks |-> IF SessionOf[t] = s THEN Idle ELSE task[t]]
      /\ synced' = synced \ {s} /\ UNCHANGED <<period, disk, spent, hidden, late>>
      /\ lost' = IF m.delta_period \in Periods THEN [lost EXCEPT ![m.delta_period] = @ + m.delta] ELSE lost
  BY DEF Crash
<1>3. /\ m \in Meters /\ m.delta_period \in Nat /\ m.delta \in Nat /\ m.delta_period <= period
      /\ period \in Periods /\ period \in Nat
      /\ spent[period] \in Nat /\ lost[period] \in Nat /\ hidden[period] \in Nat
      /\ disk.period \in Nat /\ disk.cost \in Nat /\ disk.mtime \in Nat
  BY <1>1 DEF TypeInv, PastInv, Meters, Periods
<1>4. /\ meter' \in [Sessions -> Meters] /\ meter'[s] = NoMeter
      /\ \A r \in Sessions : r # s => meter'[r] = meter[r]
  BY <1>1, <1>2, NoMeterFields DEF TypeInv
<1>5. /\ pc' \in [Sessions -> {"down", "loaded", "up"}] /\ pc'[s] = "down"
      /\ \A r \in Sessions : r # s => pc'[r] = pc[r]
  BY <1>1, <1>2 DEF TypeInv
<1>6. /\ task' \in [Tasks -> [pc : Pcs, read : Nat]]
      /\ \A u \in Tasks : /\ SessionOf[u] = s => task'[u].pc = "idle"
                          /\ SessionOf[u] # s => task'[u] = task[u]
  BY <1>1, <1>2 DEF TypeInv, Idle, Pcs
<1>7. lost' \in [Periods -> Nat] /\ lost'[period] = lost[period] + Unflushed(s)
  <2>1. lost \in [Periods -> Nat]
    BY <1>1 DEF TypeInv
  <2>2. CASE m.delta_period = period
    BY <1>2, <1>3, <2>1, <2>2 DEF Unflushed
  <2>3. CASE m.delta_period # period
    BY <1>2, <1>3, <2>1, <2>3 DEF Unflushed
  <2>4. QED
    BY <2>2, <2>3
<1>8. \A i \in Periods : i > period => lost'[i] = lost[i]
  <2>1. lost \in [Periods -> Nat]
    BY <1>1 DEF TypeInv
  <2>2. \A i \in Periods : i > period => i # m.delta_period
    BY <1>3 DEF Periods
  <2>3. QED
    BY <1>2, <2>1, <2>2
<1> HIDE DEF m
<1>9. TypeInv'
  BY <1>1, <1>2, <1>4, <1>5, <1>6, <1>7 DEF TypeInv
<1>10. PastInv'
  <2>1. \A r \in Sessions : /\ meter'[r].delta_period <= period /\ meter'[r].merged_period <= period
                            /\ meter'[r].seen <= disk.mtime
    BY <1>1, <1>3, <1>4, NoMeterFields DEF PastInv
  <2>2. \A u \in Tasks : /\ task'[u].pc = "billing" => task'[u].read \in 1..period
                         /\ task'[u].pc = "stat" => task'[u].read <= disk.mtime
    BY <1>1, <1>6 DEF PastInv
  <2>3. QED
    BY <1>1, <1>2, <1>8, <2>1, <2>2 DEF PastInv
<1>11. DownInv'
  <2>1. \A r \in Sessions : pc'[r] = "down" => meter'[r] = NoMeter
    BY <1>1, <1>4, <1>5 DEF DownInv
  <2>2. \A r \in synced' : pc'[r] = "up"
    BY <1>1, <1>2, <1>5 DEF DownInv, TypeInv
  <2>3. \A u \in Tasks : task'[u].pc # "idle" => pc'[SessionOf[u]] = "up"
    BY <1>1, <1>5, <1>6, SessionIs DEF DownInv
  <2>4. QED
    BY <2>1, <2>2, <2>3 DEF DownInv
<1>12. SeenInv'
  <2>1. \A r \in synced' : r \in synced /\ meter'[r] = meter[r]
    BY <1>1, <1>2, <1>4 DEF TypeInv
  <2>2. QED
    BY <1>1, <1>2, <2>1 DEF SeenInv
<1>13. Cardinality(Held') + Unflushed(s) = Cardinality(Held)
  <2>1. Cardinality(Held') + Unflushed(s) = Cardinality(Held) + Unflushed(s)'
    BY <1>1, <1>2, <1>4, <1>9, HeldChange
  <2>2. Unflushed(s)' = 0
    BY <1>4, NoMeterFields DEF Unflushed
  <2>3. Cardinality(Held) \in Nat
    BY <1>1, HeldType
  <2>4. QED
    BY <2>1, <2>2, <2>3
<1>14. /\ Cardinality(Held) \in Nat /\ Unflushed(s) \in Nat /\ Cardinality(Held') \in Nat
       /\ OnDisk \in Nat /\ OnDisk' = OnDisk
  <2>1. (Cardinality(Held) \in Nat)'
    BY <1>9, HeldType, PTL
  <2>2. OnDisk' = OnDisk
    BY <1>2 DEF OnDisk
  <2>3. QED
    BY <1>1, <2>1, <2>2, HeldType, MergedType
<1>15. RealInv'
  <2>1. OnDisk + Cardinality(Held') + (lost[period] + Unflushed(s)) <= spent[period]
    <3>1. OnDisk + Cardinality(Held) + lost[period] <= spent[period]
      BY <1>1 DEF RealInv
    <3>2. QED
      BY <1>3, <1>13, <1>14, <3>1
  <2>2. ASSUME NEW r \in Sessions
        PROVE  Merged(r)' + Cardinality(Held') + (lost[period] + Unflushed(s)) <= spent[period]
    <3>1. Merged(r) + Cardinality(Held) + lost[period] <= spent[period] /\ Merged(r) \in Nat
      BY <1>1, MergedType DEF RealInv
    <3>2. Merged(r)' \in {0, Merged(r)}
      BY <1>2, <1>4, NoMeterFields DEF Merged
    <3>3. QED
      BY <1>3, <1>13, <1>14, <3>1, <3>2
  <2>3. QED
    BY <1>2, <1>7, <1>14, <2>1, <2>2 DEF RealInv
<1>16. NoneLost'
  <2>1. ~late => OnDisk + Cardinality(Held) + lost[period] = spent[period]
    BY <1>1 DEF NoneLost, Conserved
  <2>2. ~late => OnDisk + Cardinality(Held') + (lost[period] + Unflushed(s)) = spent[period]
    BY <1>3, <1>13, <1>14, <2>1
  <2>3. QED
    BY <1>2, <1>7, <1>14, <2>2 DEF NoneLost, Conserved
<1>17. OverInv'
  <2>1. Live' \subseteq Live
    <3>1. \A r \in Sessions : r # s => Aware(r)' = Aware(r)
      BY <1>2, <1>4 DEF Aware
    <3>2. QED
      BY <1>5, <1>6, <3>1, SessionIs DEF Live
  <2>2. Cardinality(Live') <= Cardinality(Live) /\ Cardinality(Live') \in Nat
    BY <2>1, LiveShrinks
  <2>3. (Budget > 0 /\ ~late) =>
           /\ spent[period] <= OnDisk + hidden[period]
           /\ OnDisk >= Budget =>
                 spent[period] + Cardinality(Live') < Budget + Cardinality(Tasks) + hidden[period]
    <3>1. (Budget > 0 /\ ~late) =>
             /\ spent[period] <= OnDisk + hidden[period]
             /\ OnDisk >= Budget =>
                   spent[period] + Cardinality(Live) < Budget + Cardinality(Tasks) + hidden[period]
      BY <1>1 DEF OverInv
    <3>2. QED
      BY <1>3, <2>2, <3>1, LiveType, BoundsAssumption
  <2>4. QED
    BY <1>2, <1>14, <2>3 DEF OverInv
<1>18. QED
  BY <1>9, <1>10, <1>11, <1>12, <1>15, <1>16, <1>17 DEF MeterInv

LEMMA NextMonthStep == ASSUME MeterInv, NextMonth PROVE MeterInv'
<1>1. TypeInv /\ PastInv /\ DownInv /\ RealInv /\ NoneLost /\ SeenInv /\ OverInv
  BY DEF MeterInv
<1>2. /\ period' = period + 1 /\ period < MaxPeriod
      /\ UNCHANGED <<disk, pc, meter, task, spent, lost, hidden, synced, late>>
  BY DEF NextMonth
<1>3. period \in Nat /\ period' \in Periods /\ period' > period
  BY <1>1, <1>2, BoundsAssumption DEF TypeInv, Periods
<1>4. TypeInv'
  BY <1>1, <1>2, <1>3 DEF TypeInv
<1>5. spent[period'] = 0 /\ lost[period'] = 0 /\ hidden[period'] = 0
  BY <1>1, <1>3 DEF PastInv
<1>6. \A s \in Sessions : /\ meter[s].delta_period \in Nat /\ meter[s].merged_period \in Nat
                          /\ meter[s].delta_period <= period /\ meter[s].merged_period <= period
  BY <1>1 DEF TypeInv, PastInv, Meters
<1>7. disk.period \in Nat /\ disk.period <= period
  BY <1>1 DEF TypeInv, PastInv
<1>8. PastInv'
  <2>1. \A s \in Sessions : /\ meter[s].delta_period <= period + 1 /\ meter[s].merged_period <= period + 1
                            /\ meter[s].seen <= disk.mtime
    BY <1>1, <1>3, <1>6 DEF PastInv
  <2>2. \A u \in Tasks : /\ task[u].pc = "billing" => task[u].read \in 1..(period + 1)
                         /\ task[u].pc = "stat" => task[u].read <= disk.mtime
    BY <1>1, <1>3 DEF PastInv
  <2>3. \A i \in Periods : i > period + 1 => spent[i] = 0 /\ lost[i] = 0 /\ hidden[i] = 0
    BY <1>1, <1>3 DEF PastInv, Periods
  <2>4. QED
    BY <1>2, <1>3, <1>7, <2>1, <2>2, <2>3 DEF PastInv
<1>9. DownInv' /\ SeenInv'
  BY <1>1, <1>2 DEF DownInv, SeenInv
<1>10. \A s \in Sessions : Unflushed(s)' = 0 /\ Merged(s)' = 0
  BY <1>2, <1>3, <1>6 DEF Unflushed, Merged
<1>11. OnDisk' = 0
  BY <1>2, <1>3, <1>7 DEF OnDisk
<1>12. Cardinality(Held') = 0
  BY <1>10, HeldNone
<1>13. RealInv' /\ NoneLost'
  BY <1>2, <1>5, <1>10, <1>11, <1>12 DEF RealInv, NoneLost, Conserved
<1>14. OverInv'
  <2>1. ~(0 >= Budget /\ Budget > 0)
    BY BoundsAssumption
  <2>2. QED
    BY <1>2, <1>5, <1>11, <2>1 DEF OverInv
<1>15. QED
  BY <1>4, <1>8, <1>9, <1>13, <1>14 DEF MeterInv

-----------------------------------------------------------------------------
LEMMA MeterInit == Init => MeterInv
<1> SUFFICES ASSUME Init PROVE MeterInv
  OBVIOUS
<1> DEFINE up == [NoMeter EXCEPT !.merged_period = 1]
<1>1. /\ up \in Meters /\ up.delta_period = 0 /\ up.delta = 0
      /\ up.merged_period = 1 /\ up.merged_cost = 0 /\ up.seen = 0
  BY DEF NoMeter, Meters
<1>2. /\ period = 1 /\ disk.period = 1 /\ disk.cost = 0 /\ disk.mtime = 0
      /\ disk \in [period : Nat, cost : Nat, mtime : Nat]
      /\ pc = [s \in Sessions |-> IF s \in Running THEN "up" ELSE "down"]
      /\ meter = [s \in Sessions |-> IF s \in Running THEN up ELSE NoMeter]
      /\ task = [t \in Tasks |-> Idle] /\ synced = Running
      /\ spent = [m \in Periods |-> 0] /\ lost = [m \in Periods |-> 0] /\ hidden = [m \in Periods |-> 0]
  BY DEF Init
<1> HIDE DEF up
<1>3. 1 \in Periods
  BY BoundsAssumption DEF Periods
<1>4. \A s \in Sessions : meter[s] = NoMeter \/ (s \in Running /\ meter[s] = up)
  BY <1>2
<1>5. TypeInv
  BY <1>1, <1>2, <1>3, NoMeterFields, SessionOfAssumption DEF TypeInv, Idle, Pcs
<1>6. PastInv
  BY <1>1, <1>2, <1>4, NoMeterFields DEF PastInv, Idle
<1>7. DownInv
  BY <1>2, SessionOfAssumption DEF DownInv, Idle
<1>8. \A s \in Sessions : Unflushed(s) = 0 /\ Merged(s) = 0
  BY <1>1, <1>2, <1>4, NoMeterFields DEF Unflushed, Merged
<1>9. Cardinality(Held) = 0
  <2>1. Held = {}
    BY <1>8 DEF Held
  <2>2. QED
    BY <2>1, FS_EmptySet
<1>10. OnDisk = 0 /\ spent[period] = 0 /\ lost[period] = 0 /\ hidden[period] = 0
  BY <1>2, <1>3 DEF OnDisk
<1>11. RealInv /\ NoneLost
  BY <1>8, <1>9, <1>10 DEF RealInv, NoneLost, Conserved
<1>12. SeenInv
  BY <1>1, <1>2, SessionOfAssumption DEF SeenInv
<1>13. OverInv
  <2>1. ~(0 >= Budget /\ Budget > 0)
    BY BoundsAssumption
  <2>2. QED
    BY <1>10, <2>1 DEF OverInv
<1>14. QED
  BY <1>5, <1>6, <1>7, <1>11, <1>12, <1>13 DEF MeterInv

LEMMA MeterStep == MeterInv /\ [Next]_vars => MeterInv'
<1> SUFFICES ASSUME MeterInv, [Next]_vars PROVE MeterInv'
  OBVIOUS
<1>1. CASE UNCHANGED vars
  BY <1>1 DEF vars, MeterInv, TypeInv, PastInv, DownInv, RealInv, NoneLost, Conserved, SeenInv, OverInv,
              OnDisk, Held, Unflushed, Merged, Live, Aware
<1>2. ASSUME NEW s \in Sessions, LoadUsage(s) \/ LoadMtime(s) \/ Crash(s) PROVE MeterInv'
  BY <1>2, LoadUsageStep, LoadMtimeStep, CrashStep
<1>3. ASSUME NEW t \in Tasks, RefreshStat(t) \/ Reload(t) \/ Check(t) \/ SampleNow(t) PROVE MeterInv'
  BY <1>3, TaskStep, ReloadStep, CheckStep
<1>4. ASSUME NEW t \in Tasks, Bill(t) \/ BillUnflushed(t) PROVE MeterInv'
  BY <1>4, BillStep, BillUnflushedStep
<1>5. QED
  BY <1>1, <1>2, <1>3, <1>4, NextMonthStep DEF Next

LEMMA MeterAlways == Spec => []MeterInv
BY MeterInit, MeterStep, PTL DEF Spec

(***************************************************************************)
(* Nothing that was billed this month is lost between the sessions: it is  *)
(* in meter.json, in the delta of a live session or went down with one     *)
(* whose flush had failed (flush merges under the lock of the side file).  *)
(***************************************************************************)
THEOREM SpendConserved == Spec => []NoneLost
<1>1. MeterInv => NoneLost
  BY DEF MeterInv
<1>2. QED
  BY <1>1, MeterAlways, PTL

(***************************************************************************)
(* The kill switch follows the spend of all sessions: none counts spend    *)
(* that did not happen, the mtime a session has seen backs the cost it     *)
(* has, and together they overshoot the budget by less than one request    *)
(* for each in flight and each whose flush failed (over_budget, stale and  *)
(* reload_merged).                                                         *)
(***************************************************************************)
THEOREM SwitchTracks == Spec => []SwitchTracksSpend
<1>1. ASSUME MeterInv PROVE SwitchTracksSpend
  <2>1. TypeInv /\ RealInv /\ SeenInv /\ OverInv /\ period \in Periods
    BY <1>1 DEF MeterInv, TypeInv
  <2>2. spent[period] \in Nat /\ lost[period] \in Nat /\ hidden[period] \in Nat
    BY <2>1 DEF TypeInv
  <2>3. ViewIsReal
    <3>1. ASSUME NEW s \in Sessions PROVE Merged(s) + Unflushed(s) <= spent[period]
      <4>1. Merged(s) + Cardinality(Held) + lost[period] <= spent[period] /\ Merged(s) \in Nat
        BY <2>1, MergedType DEF RealInv
      <4>2. Unflushed(s) \in Nat /\ Cardinality(Held) \in Nat /\ Unflushed(s) <= Cardinality(Held)
        BY <2>1, HeldType
      <4>3. QED
        BY <2>2, <4>1, <4>2
    <3>2. QED
      BY <3>1 DEF ViewIsReal, Merged
  <2>4. SeenBacks
    <3>1. disk.period \in Nat
      BY <2>1 DEF TypeInv
    <3>2. QED
      BY <2>1, <3>1 DEF SeenBacks, SeenInv
  <2>5. OvershootBounded
    <3> SUFFICES ASSUME Budget > 0, ~late PROVE spent[period] < Budget + Cardinality(Tasks) + hidden[period]
      BY DEF OvershootBounded
    <3>1. OnDisk \in Nat
      BY <2>1, MergedType
    <3>2. /\ spent[period] <= OnDisk + hidden[period]
          /\ OnDisk >= Budget =>
                spent[period] + Cardinality(Live) < Budget + Cardinality(Tasks) + hidden[period]
      BY <2>1 DEF OverInv
    <3>3. QED
      BY <2>2, <3>1, <3>2, LiveType, BoundsAssumption
  <2>6. QED
    BY <2>3, <2>4, <2>5 DEF SwitchTracksSpend
<1>2. QED
  BY <1>1, MeterAlways, PTL

-----------------------------------------------------------------------------
(***************************************************************************)
(* The counts of the doctors (DoctorFlush), for any finite number of       *)
(* processes and any number of requests in flight in each.                 *)
(***************************************************************************)
IsCounts(x, now) ==
    /\ x.period \in Nat /\ x.period <= now
    /\ \A k \in Keys : StatsOf(x, k) \in [Counters -> Nat]

\* A flush has read a month that has been, and the counts it is to write are
\* of no later one: it has the mutex of its process, and it alone.
FlushOf(t) ==
    /\ turn[t].read \in Nat /\ turn[t].read <= month
    /\ delta[DoctorOf[t]].period <= turn[t].read
    /\ \A u \in Turns : DoctorOf[u] = DoctorOf[t] /\ turn[u].pc = "flushing" => u = t

DoctorTypes ==
    /\ month \in Nat
    /\ IsCounts(cache_json, month)
    /\ DOMAIN delta = Doctors /\ delta = [d \in Doctors |-> delta[d]]
    /\ \A d \in Doctors : IsCounts(delta[d], month)
    /\ noted \in [Keys -> [Counters -> Nat]]
    /\ missed \in [Keys -> [Counters -> Nat]]
    /\ clobbered \in BOOLEAN

DoctorTurns ==
    /\ DOMAIN turn = Turns /\ turn = [t \in Turns |-> turn[t]]
    /\ \A t \in Turns : /\ turn[t].pc = "repair" => turn[t].key \in Keys
                        /\ turn[t].pc = "flushing" => FlushOf(t)

DoctorInv == DoctorTypes /\ DoctorTurns /\ DoctorAddsUp

\* The sum for one key and counter.
AddsUp(k, c) == OfMonth(cache_json, k, c) + Cardinality(Unwritten(k, c)) + missed[k][c] = noted[k][c]

LEMMA NoStatsOf ==
    ASSUME NEW k
    PROVE  /\ NoStats \in [Counters -> Nat] /\ \A c \in Counters : NoStats[c] = 0
           /\ \A m : StatsOf([period |-> m, per_key |-> NoKeys], k) = NoStats
           /\ StatsOf(NoCounts, k) = NoStats
BY DEF NoStats, StatsOf, NoKeys, NoCounts

\* What a roll keeps.
LEMMA RollKeeps ==
    ASSUME NEW now, NEW x, IsCounts(x, now), NEW m \in Nat, m <= now
    PROVE  /\ IsCounts(roll_period(x, m), now) /\ roll_period(x, m).period = m
           /\ \A k \in Keys, c \in Counters :
                 StatsOf(roll_period(x, m), k)[c] = IF x.period = m THEN StatsOf(x, k)[c] ELSE 0
<1>1. CASE x.period = m
  BY <1>1 DEF roll_period
<1>2. CASE x.period # m
  <2> DEFINE fresh == [period |-> m, per_key |-> NoKeys]
  <2>1. roll_period(x, m) = fresh
    BY <1>2 DEF roll_period
  <2>2. fresh.period = m /\ \A k \in Keys : StatsOf(fresh, k) = NoStats
    BY NoStatsOf
  <2> HIDE DEF fresh
  <2>3. QED
    BY <1>2, <2>1, <2>2, NoStatsOf DEF IsCounts
<1>3. QED
  BY <1>1, <1>2

\* A count moves the counters of its key by one, and nothing else.
LEMMA CountedMoves ==
    ASSUME NEW now, NEW x, IsCounts(x, now), NEW key \in Keys, NEW moved
    PROVE  /\ IsCounts(Counted(x, key, moved), now) /\ Counted(x, key, moved).period = x.period
           /\ \A k \in Keys, c \in Counters :
                 StatsOf(Counted(x, key, moved), k)[c]
                   = StatsOf(x, k)[c] + IF k = key /\ c \in moved THEN 1 ELSE 0
<1> DEFINE y == Counted(x, key, moved)
           b == Bump(StatsOf(x, key), moved)
<1>1. y.period = x.period /\ y.per_key = Put(x.per_key, key, b)
  BY DEF Counted
<1>2. \A k \in Keys : StatsOf(y, k) = IF k = key THEN b ELSE StatsOf(x, k)
  BY <1>1 DEF StatsOf, Put
<1>3. /\ b \in [Counters -> Nat]
      /\ \A c \in Counters : b[c] = StatsOf(x, key)[c] + IF c \in moved THEN 1 ELSE 0
  BY DEF Bump, IsCounts
<1>4. \A k \in Keys, c \in Counters : StatsOf(x, k)[c] \in Nat
  BY DEF IsCounts
<1> HIDE DEF y, b
<1>5. IsCounts(y, now)
  BY <1>1, <1>2, <1>3 DEF IsCounts
<1>6. \A k \in Keys, c \in Counters :
         StatsOf(y, k)[c] = StatsOf(x, k)[c] + IF k = key /\ c \in moved THEN 1 ELSE 0
  BY <1>2, <1>3, <1>4
<1>7. QED
  BY <1>1, <1>5, <1>6 DEF y

\* The file gets the sum of both.
LEMMA MergedAdds ==
    ASSUME NEW now, NEW x, IsCounts(x, now), NEW y, IsCounts(y, now), NEW m \in Nat, m <= now
    PROVE  /\ IsCounts(merged(x, y, m), now) /\ merged(x, y, m).period = m
           /\ \A k \in Keys, c \in Counters :
                 StatsOf(merged(x, y, m), k)[c] = StatsOf(roll_period(x, m), k)[c] + StatsOf(y, k)[c]
<1> DEFINE r == roll_period(x, m)
           z == merged(x, y, m)
<1>1. IsCounts(r, now)
  BY RollKeeps
<1> HIDE DEF r
<1>2. /\ z.period = m
      /\ z.per_key = [k \in DOMAIN r.per_key \cup DOMAIN y.per_key |-> merge(StatsOf(r, k), StatsOf(y, k))]
  BY DEF merged, r
<1> HIDE DEF z
<1>3. ASSUME NEW k \in Keys
      PROVE  /\ StatsOf(z, k) \in [Counters -> Nat]
             /\ \A c \in Counters : StatsOf(z, k)[c] = StatsOf(r, k)[c] + StatsOf(y, k)[c]
  <2>1. StatsOf(r, k) \in [Counters -> Nat] /\ StatsOf(y, k) \in [Counters -> Nat]
    BY <1>1 DEF IsCounts
  <2>2. CASE k \in DOMAIN r.per_key \cup DOMAIN y.per_key
    <3>1. StatsOf(z, k) = merge(StatsOf(r, k), StatsOf(y, k))
      BY <1>2, <2>2 DEF StatsOf
    <3>2. QED
      BY <2>1, <3>1 DEF merge
  <2>3. CASE k \notin DOMAIN r.per_key \cup DOMAIN y.per_key
    <3>1. StatsOf(z, k) = NoStats /\ StatsOf(r, k) = NoStats /\ StatsOf(y, k) = NoStats
      BY <1>2, <2>3 DEF StatsOf
    <3>2. QED
      BY <3>1, NoStatsOf
  <2>4. QED
    BY <2>2, <2>3
<1>4. IsCounts(z, now)
  BY <1>2, <1>3 DEF IsCounts
<1>5. QED
  BY <1>2, <1>3, <1>4 DEF r, z

\* What each process holds of a counter.
HeldBy(k, c) == [d \in Doctors |-> OfMonth(delta[d], k, c)]

LEMMA OfMonthNat ==
    ASSUME NEW x, IsCounts(x, month), NEW k \in Keys, NEW c \in Counters
    PROVE  OfMonth(x, k, c) \in Nat
BY DEF IsCounts, OfMonth

LEMMA UnwrittenIs ==
    ASSUME DoctorTypes, NEW k \in Keys, NEW c \in Counters
    PROVE  /\ HeldBy(k, c) \in [Doctors -> Nat]
           /\ Unwritten(k, c) = Units(Doctors, HeldBy(k, c))
           /\ Cardinality(Unwritten(k, c)) \in Nat
<1>1. HeldBy(k, c) \in [Doctors -> Nat]
  BY OfMonthNat DEF DoctorTypes, HeldBy
<1>2. Unwritten(k, c) = Units(Doctors, HeldBy(k, c))
  BY DEF Unwritten, Units, HeldBy, Row
<1>3. QED
  BY <1>1, <1>2, UnitsFinite, DoctorsAssumption

\* A process whose counts change changes the sum by as much.
LEMMA UnwrittenMoves ==
    ASSUME DoctorTypes, NEW k \in Keys, NEW c \in Counters, NEW d \in Doctors,
           NEW x, IsCounts(x, month), delta' = [delta EXCEPT ![d] = x], month' = month
    PROVE  /\ Cardinality(Unwritten(k, c)') \in Nat
           /\ Cardinality(Unwritten(k, c)') + OfMonth(delta[d], k, c)
                = Cardinality(Unwritten(k, c)) + OfMonth(x, k, c)
<1> DEFINE f == HeldBy(k, c)
           g == [e \in Doctors |-> IF e = d THEN OfMonth(x, k, c) ELSE f[e]]
<1>1. f \in [Doctors -> Nat] /\ Unwritten(k, c) = Units(Doctors, f)
  BY UnwrittenIs
<1>2. f[d] = OfMonth(delta[d], k, c)
  BY DEF HeldBy
<1>3. \A e \in Doctors : OfMonth(delta[e], k, c)' = IF e = d THEN OfMonth(x, k, c) ELSE f[e]
  BY DEF OfMonth, HeldBy, DoctorTypes
<1>4. Unwritten(k, c)' = Units(Doctors, g)
  BY <1>3 DEF Unwritten, Units, Row
<1>5. g \in [Doctors -> Nat] /\ g[d] = OfMonth(x, k, c) /\ \A e \in Doctors : e # d => g[e] = f[e]
  BY <1>1, OfMonthNat
<1> HIDE DEF f, g
<1>6. Cardinality(Units(Doctors, g)) + f[d] = Cardinality(Units(Doctors, f)) + g[d]
  BY <1>1, <1>5, UnitsChange, DoctorsAssumption
<1>7. Cardinality(Units(Doctors, g)) \in Nat
  BY <1>5, UnitsFinite, DoctorsAssumption
<1>8. QED
  BY <1>1, <1>2, <1>4, <1>5, <1>6, <1>7

LEMMA UnwrittenKept ==
    ASSUME NEW k, NEW c, delta' = delta, month' = month
    PROVE  Unwritten(k, c)' = Unwritten(k, c)
BY DEF Unwritten, OfMonth

\* The types after a step of one process in the same month.
LEMMA TypesAfter ==
    ASSUME DoctorTypes, NEW d \in Doctors, NEW x, IsCounts(x, month),
           delta' = [delta EXCEPT ![d] = x], month' = month, IsCounts(cache_json', month),
           noted' \in [Keys -> [Counters -> Nat]], missed' \in [Keys -> [Counters -> Nat]],
           clobbered' \in BOOLEAN
    PROVE  DoctorTypes'
<1>1. DOMAIN delta' = Doctors /\ delta' = [e \in Doctors |-> delta'[e]]
  BY DEF DoctorTypes
<1>2. \A e \in Doctors : IsCounts(delta'[e], month)
  BY DEF DoctorTypes
<1>3. month' \in Nat
  BY DEF DoctorTypes
<1>4. IsCounts(cache_json, month)' /\ \A e \in Doctors : IsCounts(delta[e], month)'
  BY <1>2 DEF IsCounts
<1>5. QED
  BY <1>1, <1>3, <1>4 DEF DoctorTypes

\* The turns after one that does not begin to flush.
LEMMA TurnsAfter ==
    ASSUME DoctorTurns, NEW t \in Turns, NEW place, NEW key, NEW read,
           Becomes(t, place, key, read), place # "flushing", place = "repair" => key \in Keys,
           month' = month,
           \A u \in Turns : u # t /\ turn[u].pc = "flushing" =>
              delta'[DoctorOf[u]].period <= turn[u].read
    PROVE  DoctorTurns'
<1>1. /\ DOMAIN turn' = Turns /\ turn' = [u \in Turns |-> turn'[u]]
      /\ turn'[t].pc = place /\ turn'[t].key = key
      /\ \A u \in Turns : u # t => turn'[u] = turn[u]
  BY DEF DoctorTurns, Becomes
<1>2. ASSUME NEW u \in Turns PROVE turn'[u].pc = "repair" => turn'[u].key \in Keys
  BY <1>1 DEF DoctorTurns
<1>3. ASSUME NEW u \in Turns, turn'[u].pc = "flushing" PROVE FlushOf(u)'
  <2>1. u # t /\ turn'[u] = turn[u] /\ turn[u].pc = "flushing" /\ FlushOf(u)
    BY <1>1, <1>3 DEF DoctorTurns
  <2>2. \A v \in Turns : turn'[v].pc = "flushing" => turn[v].pc = "flushing"
    BY <1>1
  <2>3. QED
    BY <2>1, <2>2 DEF FlushOf
<1>4. QED
  BY <1>1, <1>2, <1>3 DEF DoctorTurns

LEMMA OthersFlush ==
    ASSUME DoctorTypes, DoctorTurns, NEW t \in Turns, NEW x, delta' = [delta EXCEPT ![DoctorOf[t]] = x],
           \A u \in Turns : u # t /\ turn[u].pc = "flushing" => DoctorOf[u] # DoctorOf[t]
    PROVE  \A u \in Turns : u # t /\ turn[u].pc = "flushing" => delta'[DoctorOf[u]].period <= turn[u].read
BY DoctorsAssumption DEF DoctorTypes, DoctorTurns, FlushOf

\* A step that leaves the counts alone.
LEMMA CountsKept ==
    ASSUME DoctorInv, UNCHANGED <<month, cache_json, delta, noted, missed, clobbered>>
    PROVE  DoctorTypes' /\ DoctorAddsUp'
<1>1. DoctorTypes'
  BY DEF DoctorInv, DoctorTypes, IsCounts
<1>2. DoctorAddsUp'
  BY UnwrittenKept DEF DoctorInv, DoctorAddsUp, OfMonth
<1>3. QED
  BY <1>1, <1>2

LEMMA CountSafe ==
    ASSUME DoctorInv, NEW t \in Turns, NEW here, MutexFor(t, here), here # "flushing",
           NEW key \in Keys, NEW moved \in SUBSET Counters, Count(t, key, moved),
           NEW place, NEW next, Becomes(t, place, next, 0), place # "flushing",
           place = "repair" => next \in Keys
    PROVE  DoctorInv'
<1> DEFINE d == DoctorOf[t]
           r == roll_period(delta[d], month)
           x == Counted(r, key, moved)
<1>1. d \in Doctors /\ month \in Nat /\ IsCounts(delta[d], month)
  BY DoctorsAssumption DEF DoctorInv, DoctorTypes
<1>2. IsCounts(r, month) /\ r.period = month
  BY <1>1, RollKeeps
<1>3. \A k \in Keys, c \in Counters : StatsOf(r, k)[c] = OfMonth(delta[d], k, c)
  BY <1>1, RollKeeps DEF OfMonth
<1>4. /\ delta' = [delta EXCEPT ![d] = x] /\ noted' = [noted EXCEPT ![key] = Bump(@, moved)]
      /\ UNCHANGED <<month, cache_json, missed, clobbered>>
  BY DEF Count
<1> HIDE DEF d, r
<1>5. IsCounts(x, month) /\ x.period = month
  BY <1>2, CountedMoves
<1>6. \A k \in Keys, c \in Counters :
         OfMonth(x, k, c) = OfMonth(delta[d], k, c) + IF k = key /\ c \in moved THEN 1 ELSE 0
  BY <1>2, <1>3, <1>5, CountedMoves DEF OfMonth
<1> HIDE DEF x
<1>7. /\ noted' \in [Keys -> [Counters -> Nat]]
      /\ \A k \in Keys, c \in Counters : noted'[k][c] = noted[k][c] + IF k = key /\ c \in moved THEN 1 ELSE 0
  BY <1>4 DEF DoctorInv, DoctorTypes, Bump
<1>8. DoctorTypes'
  BY <1>1, <1>4, <1>5, <1>7, TypesAfter DEF DoctorInv, DoctorTypes
<1>9. DoctorTurns'
  <2>1. \A u \in Turns : u # t /\ turn[u].pc = "flushing" => DoctorOf[u] # DoctorOf[t]
    BY DEF MutexFor
  <2>2. \A u \in Turns : u # t /\ turn[u].pc = "flushing" => delta'[DoctorOf[u]].period <= turn[u].read
    BY <1>4, <2>1, OthersFlush DEF DoctorInv, d
  <2>3. QED
    BY <1>4, <2>2, TurnsAfter DEF DoctorInv
<1>10. ASSUME ~clobbered', NEW k \in Keys, NEW c \in Counters PROVE AddsUp(k, c)'
  <2>1. AddsUp(k, c)
    BY <1>4, <1>10 DEF DoctorInv, DoctorAddsUp, AddsUp
  <2>2. /\ Cardinality(Unwritten(k, c)') \in Nat
        /\ Cardinality(Unwritten(k, c)') + OfMonth(delta[d], k, c)
             = Cardinality(Unwritten(k, c)) + OfMonth(x, k, c)
    <3>1. DoctorTypes /\ delta' = [delta EXCEPT ![d] = x] /\ month' = month /\ k \in Keys /\ c \in Counters
      BY <1>4 DEF DoctorInv
    <3>2. QED
      BY ONLY <1>1, <1>5, <3>1, UnwrittenMoves
  <2>3. /\ OfMonth(delta[d], k, c) \in Nat /\ OfMonth(cache_json, k, c) \in Nat
        /\ Cardinality(Unwritten(k, c)) \in Nat /\ missed[k][c] \in Nat /\ noted[k][c] \in Nat
    BY <1>1, OfMonthNat, UnwrittenIs DEF DoctorInv, DoctorTypes
  <2>4. OfMonth(cache_json, k, c)' = OfMonth(cache_json, k, c) /\ missed' = missed
    BY <1>4 DEF OfMonth
  <2>5. QED
    BY <1>6, <1>7, <2>1, <2>2, <2>3, <2>4 DEF AddsUp
<1>11. QED
  BY <1>8, <1>9, <1>10 DEF DoctorInv, DoctorAddsUp, AddsUp

LEMMA FlushEndsSafe ==
    ASSUME DoctorInv, NEW t \in Turns, FlushEnds(t)
    PROVE  DoctorInv'
<1> DEFINE d == DoctorOf[t]
           m == turn[t].read
           r == roll_period(delta[d], m)
           out == flush(delta[d], cache_json, m)
<1>1. d \in Doctors /\ month \in Nat /\ IsCounts(delta[d], month) /\ IsCounts(cache_json, month)
  BY DoctorsAssumption DEF DoctorInv, DoctorTypes
<1>2. FlushOf(t) /\ m \in Nat /\ m <= month /\ delta[d].period <= m
  BY DEF DoctorInv, DoctorTurns, FlushOf, FlushEnds
<1>3. IsCounts(r, month) /\ r.period = m
  BY <1>1, <1>2, RollKeeps
<1>4. \A k \in Keys, c \in Counters : m = month => StatsOf(r, k)[c] = OfMonth(delta[d], k, c)
  BY <1>1, <1>2, RollKeeps DEF OfMonth
<1>5. m # month => \A k \in Keys, c \in Counters : OfMonth(delta[d], k, c) = 0
  BY <1>1, <1>2 DEF OfMonth, IsCounts
<1>6. /\ delta' = [delta EXCEPT ![d] = out.delta] /\ cache_json' = out.disk
      /\ clobbered' = (clobbered \/ (cache_json.period = month /\ m # month /\ out.disk # cache_json))
      /\ Becomes(t, "idle", "none", 0) /\ UNCHANGED <<month, noted, missed>>
  BY DEF FlushEnds
<1>7. \/ out.delta = r /\ out.disk = cache_json /\ \A k \in Keys : StatsOf(r, k) = NoStats
      \/ out.delta = [period |-> m, per_key |-> NoKeys] /\ out.disk = merged(cache_json, r, m)
  BY DEF flush, StatsOf
<1> HIDE DEF d, m, r, out
<1>8. IsCounts([period |-> m, per_key |-> NoKeys], month)
  BY <1>2, NoStatsOf DEF IsCounts
<1>9. IsCounts(merged(cache_json, r, m), month) /\ merged(cache_json, r, m).period = m
  <2>1. IsCounts(cache_json, month) /\ IsCounts(r, month) /\ m \in Nat /\ m <= month
    BY <1>1, <1>2, <1>3
  <2>2. QED
    BY ONLY <2>1, MergedAdds
<1>10. IsCounts(out.delta, month) /\ IsCounts(out.disk, month) /\ out.delta.period = m
  BY <1>1, <1>3, <1>7, <1>8, <1>9
<1>11. \A k \in Keys, c \in Counters : OfMonth(out.delta, k, c) = 0
  BY <1>7, NoStatsOf DEF OfMonth
<1>12. DoctorTypes'
  <2>1. clobbered' \in BOOLEAN /\ IsCounts(cache_json', month)
    BY <1>6, <1>10 DEF DoctorInv, DoctorTypes
  <2>2. noted' \in [Keys -> [Counters -> Nat]] /\ missed' \in [Keys -> [Counters -> Nat]]
    BY <1>6 DEF DoctorInv, DoctorTypes
  <2>3. QED
    BY <1>1, <1>6, <1>10, <2>1, <2>2, TypesAfter DEF DoctorInv
<1>13. DoctorTurns'
  <2>1. \A u \in Turns : u # t /\ turn[u].pc = "flushing" => DoctorOf[u] # DoctorOf[t]
    BY <1>2 DEF FlushOf
  <2>2. \A u \in Turns : u # t /\ turn[u].pc = "flushing" => delta'[DoctorOf[u]].period <= turn[u].read
    BY <1>6, <2>1, OthersFlush DEF DoctorInv, d
  <2>3. QED
    BY <1>6, <2>2, TurnsAfter DEF DoctorInv
\* In its own month the flush adds what the process held; a late one that
\* finds no file of this month takes nothing from it.
<1>14. ASSUME ~clobbered', NEW k \in Keys, NEW c \in Counters
       PROVE  OfMonth(out.disk, k, c) = OfMonth(cache_json, k, c) + OfMonth(delta[d], k, c)
  <2>1. OfMonth(delta[d], k, c) \in Nat /\ OfMonth(cache_json, k, c) \in Nat
    BY <1>1, OfMonthNat
  <2>2. CASE out.disk = cache_json /\ \A l \in Keys : StatsOf(r, l) = NoStats
    <3>1. OfMonth(delta[d], k, c) = 0
      BY <1>4, <1>5, <2>2, NoStatsOf
    <3>2. QED
      BY <2>1, <2>2, <3>1
  <2>3. CASE out.disk = merged(cache_json, r, m) /\ m = month
    <3>1. StatsOf(out.disk, k)[c] = StatsOf(roll_period(cache_json, m), k)[c] + StatsOf(r, k)[c]
      BY <1>1, <1>2, <1>3, <2>3, MergedAdds
    <3>2. StatsOf(roll_period(cache_json, m), k)[c] = OfMonth(cache_json, k, c)
      BY <1>1, <1>2, <2>3, RollKeeps DEF OfMonth
    <3>3. QED
      BY <1>4, <1>9, <2>3, <3>1, <3>2 DEF OfMonth
  <2>4. CASE out.disk = merged(cache_json, r, m) /\ m # month
    <3>1. OfMonth(out.disk, k, c) = 0
      BY <1>9, <2>4 DEF OfMonth
    <3>2. cache_json.period # month \/ out.disk = cache_json
      BY <1>6, <1>14, <2>4
    <3>3. OfMonth(cache_json, k, c) = 0
      BY <3>1, <3>2 DEF OfMonth
    <3>4. QED
      BY <1>5, <2>4, <3>1, <3>3
  <2>5. QED
    BY <1>7, <2>2, <2>3, <2>4
<1>15. ASSUME ~clobbered', NEW k \in Keys, NEW c \in Counters PROVE AddsUp(k, c)'
  <2>1. AddsUp(k, c)
    BY <1>6, <1>15 DEF DoctorInv, DoctorAddsUp, AddsUp
  <2>2. /\ Cardinality(Unwritten(k, c)') \in Nat
        /\ Cardinality(Unwritten(k, c)') + OfMonth(delta[d], k, c)
             = Cardinality(Unwritten(k, c)) + OfMonth(out.delta, k, c)
    BY <1>1, <1>6, <1>10, UnwrittenMoves DEF DoctorInv
  <2>3. /\ OfMonth(delta[d], k, c) \in Nat /\ OfMonth(cache_json, k, c) \in Nat
        /\ Cardinality(Unwritten(k, c)) \in Nat /\ missed[k][c] \in Nat /\ noted[k][c] \in Nat
    BY <1>1, OfMonthNat, UnwrittenIs DEF DoctorInv, DoctorTypes
  <2>4. OfMonth(cache_json, k, c)' = OfMonth(out.disk, k, c) /\ missed' = missed /\ noted' = noted
    BY <1>6 DEF OfMonth
  <2>5. OfMonth(out.disk, k, c) = OfMonth(cache_json, k, c) + OfMonth(delta[d], k, c)
    BY <1>14, <1>15
  <2>6. QED
    BY <1>11, <2>1, <2>2, <2>3, <2>4, <2>5 DEF AddsUp
<1>16. QED
  BY <1>12, <1>13, <1>15 DEF DoctorInv, DoctorAddsUp, AddsUp

LEMMA FlushFailsSafe ==
    ASSUME DoctorInv, NEW t \in Turns, FlushFails(t)
    PROVE  DoctorInv'
<1> DEFINE d == DoctorOf[t]
           m == turn[t].read
           r == roll_period(delta[d], m)
<1>1. d \in Doctors /\ month \in Nat /\ IsCounts(delta[d], month)
  BY DoctorsAssumption DEF DoctorInv, DoctorTypes
<1>2. FlushOf(t) /\ m \in Nat /\ m <= month /\ delta[d].period <= m
  BY DEF DoctorInv, DoctorTurns, FlushOf, FlushFails
<1>3. IsCounts(r, month) /\ r.period = m
  BY <1>1, <1>2, RollKeeps
\* Nothing of this month is dropped: a late flush finds none in the process.
<1>4. ASSUME NEW k \in Keys, NEW c \in Counters PROVE OfMonth(r, k, c) = OfMonth(delta[d], k, c)
  <2>1. CASE m = month
    BY <1>1, <1>2, <1>3, <2>1, RollKeeps DEF OfMonth
  <2>2. CASE m # month
    BY <1>1, <1>2, <1>3, <2>2 DEF OfMonth, IsCounts
  <2>3. QED
    BY <2>1, <2>2
<1>5. /\ delta' = [delta EXCEPT ![d] = r] /\ Becomes(t, "idle", "none", 0)
      /\ UNCHANGED <<month, cache_json, noted, missed, clobbered>>
  BY DEF FlushFails
<1> HIDE DEF d, m, r
<1>6. DoctorTypes'
  BY <1>1, <1>3, <1>5, TypesAfter DEF DoctorInv, DoctorTypes
<1>7. DoctorTurns'
  <2>1. \A u \in Turns : u # t /\ turn[u].pc = "flushing" => DoctorOf[u] # DoctorOf[t]
    BY <1>2 DEF FlushOf
  <2>2. \A u \in Turns : u # t /\ turn[u].pc = "flushing" => delta'[DoctorOf[u]].period <= turn[u].read
    BY <1>5, <2>1, OthersFlush DEF DoctorInv, d
  <2>3. QED
    BY <1>5, <2>2, TurnsAfter DEF DoctorInv
<1>8. ASSUME ~clobbered', NEW k \in Keys, NEW c \in Counters PROVE AddsUp(k, c)'
  <2>1. AddsUp(k, c)
    BY <1>5, <1>8 DEF DoctorInv, DoctorAddsUp, AddsUp
  <2>2. /\ Cardinality(Unwritten(k, c)') \in Nat
        /\ Cardinality(Unwritten(k, c)') + OfMonth(delta[d], k, c)
             = Cardinality(Unwritten(k, c)) + OfMonth(r, k, c)
    BY <1>1, <1>3, <1>5, UnwrittenMoves DEF DoctorInv
  <2>3. OfMonth(delta[d], k, c) \in Nat /\ Cardinality(Unwritten(k, c)) \in Nat
    BY <1>1, OfMonthNat, UnwrittenIs DEF DoctorInv
  <2>4. OfMonth(cache_json, k, c)' = OfMonth(cache_json, k, c) /\ missed' = missed /\ noted' = noted
    BY <1>5 DEF OfMonth
  <2>5. Cardinality(Unwritten(k, c)') = Cardinality(Unwritten(k, c))
    BY <1>4, <2>2, <2>3
  <2>6. QED
    BY <2>1, <2>4, <2>5 DEF AddsUp
<1>9. QED
  BY <1>6, <1>7, <1>8 DEF DoctorInv, DoctorAddsUp, AddsUp

LEMMA DoctorDiesSafe ==
    ASSUME DoctorInv, NEW d \in Doctors, DoctorDies(d)
    PROVE  DoctorInv'
<1>1. /\ delta' = [delta EXCEPT ![d] = NoCounts]
      /\ missed' = [k \in Keys |-> [c \in Counters |-> missed[k][c] + OfMonth(delta[d], k, c)]]
      /\ turn' = [t \in Turns |-> IF DoctorOf[t] = d THEN Waiting ELSE turn[t]]
      /\ UNCHANGED <<month, cache_json, noted, clobbered>>
  BY DEF DoctorDies
<1>2. month \in Nat /\ IsCounts(delta[d], month)
  BY DEF DoctorInv, DoctorTypes
<1>3. IsCounts(NoCounts, month) /\ \A k \in Keys, c \in Counters : OfMonth(NoCounts, k, c) = 0
  <2>1. NoCounts.period = 0
    BY DEF NoCounts
  <2>2. QED
    BY <1>2, <2>1, NoStatsOf DEF IsCounts, OfMonth
<1>4. \A k \in Keys, c \in Counters : OfMonth(delta[d], k, c) \in Nat
  BY <1>2, OfMonthNat
<1>5. DoctorTypes'
  <2>1. missed' \in [Keys -> [Counters -> Nat]]
    BY <1>1, <1>4 DEF DoctorInv, DoctorTypes
  <2>2. QED
    BY <1>1, <1>3, <2>1, TypesAfter DEF DoctorInv, DoctorTypes
<1>6. DoctorTurns'
  <2>1. DOMAIN turn' = Turns /\ turn' = [t \in Turns |-> turn'[t]]
    BY <1>1
  <2>2. ASSUME NEW t \in Turns, turn'[t].pc \in {"repair", "flushing"}
        PROVE  DoctorOf[t] # d /\ turn'[t] = turn[t]
    BY <1>1, <2>2 DEF Waiting
  <2>3. \A t \in Turns : turn'[t].pc = "repair" => turn'[t].key \in Keys
    BY <2>2 DEF DoctorInv, DoctorTurns
  <2>4. ASSUME NEW t \in Turns, turn'[t].pc = "flushing" PROVE FlushOf(t)'
    <3>1. FlushOf(t) /\ DoctorOf[t] # d /\ turn'[t] = turn[t]
      BY <2>2, <2>4 DEF DoctorInv, DoctorTurns
    <3>2. delta'[DoctorOf[t]] = delta[DoctorOf[t]]
      BY <1>1, <3>1, DoctorsAssumption DEF DoctorInv, DoctorTypes
    <3>3. QED
      BY <1>1, <2>2, <3>1, <3>2 DEF FlushOf
  <2>5. QED
    BY <2>1, <2>3, <2>4 DEF DoctorTurns
<1>7. ASSUME ~clobbered', NEW k \in Keys, NEW c \in Counters PROVE AddsUp(k, c)'
  <2>1. AddsUp(k, c)
    BY <1>1, <1>7 DEF DoctorInv, DoctorAddsUp, AddsUp
  <2>2. /\ Cardinality(Unwritten(k, c)') \in Nat
        /\ Cardinality(Unwritten(k, c)') + OfMonth(delta[d], k, c)
             = Cardinality(Unwritten(k, c)) + OfMonth(NoCounts, k, c)
    BY <1>1, <1>3, UnwrittenMoves DEF DoctorInv
  <2>3. /\ OfMonth(delta[d], k, c) \in Nat /\ OfMonth(cache_json, k, c) \in Nat
        /\ Cardinality(Unwritten(k, c)) \in Nat /\ missed[k][c] \in Nat /\ noted[k][c] \in Nat
    BY <1>2, OfMonthNat, UnwrittenIs DEF DoctorInv, DoctorTypes
  <2>4. /\ OfMonth(cache_json, k, c)' = OfMonth(cache_json, k, c) /\ noted' = noted
        /\ missed'[k][c] = missed[k][c] + OfMonth(delta[d], k, c)
    BY <1>1 DEF OfMonth
  <2>5. QED
    BY <1>3, <2>1, <2>2, <2>3, <2>4 DEF AddsUp
<1>8. QED
  BY <1>5, <1>6, <1>7 DEF DoctorInv, DoctorAddsUp, AddsUp

\* No count is of a month to come: when the month turns all are of another.
LEMMA MonthTurnsSafe ==
    ASSUME DoctorInv, MonthTurns
    PROVE  DoctorInv'
<1>1. /\ month' = month + 1 /\ noted' = Nothing /\ missed' = Nothing /\ clobbered' = FALSE
      /\ cache_json' = cache_json /\ delta' = delta /\ turn' = turn
  BY DEF MonthTurns
<1>2. month \in Nat
  BY DEF DoctorInv, DoctorTypes
<1>3. ASSUME NEW x, IsCounts(x, month)
      PROVE  IsCounts(x, month + 1) /\ x.period # month + 1
  BY <1>2, <1>3 DEF IsCounts
<1>4. Nothing \in [Keys -> [Counters -> Nat]] /\ \A k \in Keys, c \in Counters : Nothing[k][c] = 0
  BY NoStatsOf DEF Nothing
<1>5. DoctorTypes'
  <2>1. IsCounts(cache_json, month)' /\ \A d \in Doctors : IsCounts(delta[d], month)'
    <3>1. IsCounts(cache_json, month + 1) /\ \A d \in Doctors : IsCounts(delta[d], month + 1)
      BY <1>3 DEF DoctorInv, DoctorTypes
    <3>2. QED
      BY <1>1, <3>1 DEF IsCounts
  <2>2. DOMAIN delta' = Doctors /\ delta' = [d \in Doctors |-> delta'[d]]
    <3>1. DOMAIN delta = Doctors /\ delta = [d \in Doctors |-> delta[d]]
      BY DEF DoctorInv, DoctorTypes
    <3>2. delta' = delta
      BY <1>1
    <3>3. QED
      BY ONLY <3>1, <3>2, Zenon
  <2>3. month' \in Nat
    BY <1>1, <1>2
  <2>4. /\ noted' \in [Keys -> [Counters -> Nat]] /\ missed' \in [Keys -> [Counters -> Nat]]
        /\ clobbered' \in BOOLEAN
    BY <1>1, <1>4, Zenon
  <2>5. QED
    BY <2>1, <2>2, <2>3, <2>4 DEF DoctorTypes
<1>6. DoctorTurns'
  BY <1>1, <1>2 DEF DoctorInv, DoctorTurns, FlushOf
<1>7. ASSUME NEW k \in Keys, NEW c \in Counters PROVE AddsUp(k, c)'
  <2>1. OfMonth(cache_json, k, c)' = 0
    BY <1>1, <1>3 DEF OfMonth, DoctorInv, DoctorTypes
  <2>2. \A d \in Doctors : OfMonth(delta[d], k, c)' = 0
    BY <1>1, <1>3 DEF OfMonth, DoctorInv, DoctorTypes
  <2>3. \A d \in Doctors : {d} \X (1..(OfMonth(delta[d], k, c)')) = {}
    BY <2>2
  <2>4. Unwritten(k, c)' = {}
    BY <2>3 DEF Unwritten
  <2>5. Cardinality(Unwritten(k, c)') = 0
    BY <2>4, FS_EmptySet
  <2>6. QED
    BY <1>1, <1>4, <2>1, <2>5 DEF AddsUp
<1>8. QED
  BY <1>5, <1>6, <1>7 DEF DoctorInv, DoctorAddsUp, AddsUp

\* The doctors' invariant is inductive: no count is of a month to come, and a
\* flush that waits for the file has the mutex of its process (Doctor::flush).
THEOREM DoctorAlways == DoctorSpec => []DoctorInv
<1>1. DoctorInit => DoctorInv
  <2> SUFFICES ASSUME DoctorInit PROVE DoctorInv
    OBVIOUS
  <2>1. /\ month = 1 /\ cache_json = NoCounts /\ delta = [d \in Doctors |-> NoCounts]
        /\ turn = [t \in Turns |-> Waiting] /\ noted = Nothing /\ missed = Nothing /\ clobbered = FALSE
    BY DEF DoctorInit
  <2>2. NoCounts.period = 0 /\ IsCounts(NoCounts, month)
    BY <2>1, NoStatsOf DEF NoCounts, IsCounts
  <2>3. Nothing \in [Keys -> [Counters -> Nat]] /\ \A k \in Keys, c \in Counters : Nothing[k][c] = 0
    BY NoStatsOf DEF Nothing
  <2>4. DoctorTypes
    BY <2>1, <2>2, <2>3 DEF DoctorTypes
  <2>5. DoctorTurns
    BY <2>1 DEF DoctorTurns, Waiting
  <2>6. ASSUME NEW k \in Keys, NEW c \in Counters PROVE AddsUp(k, c)
    <3>1. OfMonth(cache_json, k, c) = 0 /\ \A d \in Doctors : OfMonth(delta[d], k, c) = 0
      BY <2>1, <2>2 DEF OfMonth
    <3>2. \A d \in Doctors : {d} \X (1..OfMonth(delta[d], k, c)) = {}
      BY <3>1
    <3>3. Unwritten(k, c) = {}
      BY <3>2 DEF Unwritten
    <3>4. QED
      BY <2>1, <2>3, <3>1, <3>3, FS_EmptySet DEF AddsUp
  <2>7. QED
    BY <2>4, <2>5, <2>6 DEF DoctorInv, DoctorAddsUp, AddsUp
<1>2. DoctorInv /\ [DoctorNext]_doctor_vars => DoctorInv'
  <2> SUFFICES ASSUME DoctorInv, [DoctorNext]_doctor_vars PROVE DoctorInv'
    OBVIOUS
  <2>1. ASSUME NEW t \in Turns, ObserveSkips(t) PROVE DoctorInv'
    <3>1. DoctorTypes' /\ DoctorAddsUp'
      BY <2>1, CountsKept DEF ObserveSkips
    <3>2. \A u \in Turns : u # t /\ turn[u].pc = "flushing" => delta'[DoctorOf[u]].period <= turn[u].read
      BY <2>1 DEF ObserveSkips, DoctorInv, DoctorTurns, FlushOf
    <3>3. DoctorTurns'
      BY <2>1, <3>2, TurnsAfter DEF ObserveSkips, DoctorInv
    <3>4. QED
      BY <3>1, <3>3 DEF DoctorInv
  <2>2. ASSUME NEW t \in Turns, ObserveTurn(t) PROVE DoctorInv'
    <3>1. PICK key \in Keys, moved \in Moves :
             /\ Count(t, key, moved)
             /\ Becomes(t, IF "repairable" \in moved THEN "repair" ELSE "flush", key, 0)
      BY <2>2 DEF ObserveTurn
    <3>2. MutexFor(t, "idle") /\ moved \in SUBSET Counters
      BY <2>2, DoctorsAssumption DEF ObserveTurn
    <3>3. QED
      BY <3>1, <3>2, CountSafe
  <2>3. ASSUME NEW t \in Turns, NoteRepaired(t) PROVE DoctorInv'
    <3>1. /\ MutexFor(t, "repair") /\ Count(t, turn[t].key, {"repaired"})
          /\ Becomes(t, "flush", "none", 0)
      BY <2>3 DEF NoteRepaired
    <3>2. turn[t].key \in Keys /\ {"repaired"} \in SUBSET Counters
      BY <3>1 DEF MutexFor, DoctorInv, DoctorTurns, Counters
    <3>3. QED
      BY <3>1, <3>2, CountSafe
  <2>4. ASSUME NEW t \in Turns, LeaveRepair(t) PROVE DoctorInv'
    <3>1. DoctorTypes' /\ DoctorAddsUp'
      BY <2>4, CountsKept DEF LeaveRepair
    <3>2. \A u \in Turns : u # t /\ turn[u].pc = "flushing" => delta'[DoctorOf[u]].period <= turn[u].read
      BY <2>4 DEF LeaveRepair, DoctorInv, DoctorTurns, FlushOf
    <3>3. DoctorTurns'
      BY <2>4, <3>2, TurnsAfter DEF LeaveRepair, DoctorInv
    <3>4. QED
      BY <3>1, <3>3 DEF DoctorInv
  <2>5. ASSUME NEW t \in Turns, FlushBegins(t) PROVE DoctorInv'
    <3>1. /\ MutexFor(t, "flush") /\ Becomes(t, "flushing", "none", month)
          /\ UNCHANGED <<month, cache_json, delta, noted, missed, clobbered>>
      BY <2>5 DEF FlushBegins
    <3>2. DoctorTypes' /\ DoctorAddsUp'
      BY <3>1, CountsKept
    <3>3. /\ DOMAIN turn' = Turns /\ turn' = [u \in Turns |-> turn'[u]]
          /\ turn'[t].pc = "flushing" /\ turn'[t].read = month
          /\ \A u \in Turns : u # t => turn'[u] = turn[u]
      BY <3>1 DEF Becomes, DoctorInv, DoctorTurns
    <3>4. \A u \in Turns : DoctorOf[u] = DoctorOf[t] => turn[u].pc # "flushing"
      BY <3>1 DEF MutexFor
    <3>5. FlushOf(t)'
      <4>1. month \in Nat /\ delta[DoctorOf[t]].period <= month
        BY DoctorsAssumption DEF DoctorInv, DoctorTypes, IsCounts
      <4>2. QED
        BY <3>1, <3>3, <3>4, <4>1 DEF FlushOf
    <3>6. ASSUME NEW u \in Turns, u # t, turn'[u].pc = "flushing" PROVE FlushOf(u)'
      <4>1. FlushOf(u) /\ DoctorOf[u] # DoctorOf[t] /\ turn'[u] = turn[u]
        BY <3>3, <3>4, <3>6 DEF DoctorInv, DoctorTurns
      <4>2. QED
        BY <3>1, <3>3, <4>1 DEF FlushOf
    <3>7. DoctorTurns'
      BY <3>3, <3>5, <3>6 DEF DoctorInv, DoctorTurns
    <3>8. QED
      BY <3>2, <3>7 DEF DoctorInv
  <2>6. ASSUME NEW t \in Turns, FlushEnds(t) PROVE DoctorInv'
    BY <2>6, FlushEndsSafe
  <2>7. ASSUME NEW t \in Turns, FlushFails(t) PROVE DoctorInv'
    BY <2>7, FlushFailsSafe
  <2>8. ASSUME NEW d \in Doctors, DoctorDies(d) PROVE DoctorInv'
    BY <2>8, DoctorDiesSafe
  <2>9. CASE MonthTurns
    BY <2>9, MonthTurnsSafe
  <2>10. CASE UNCHANGED doctor_vars
    <3>1. DoctorTypes' /\ DoctorAddsUp'
      BY <2>10, CountsKept DEF doctor_vars
    <3>2. DoctorTurns'
      BY <2>10 DEF doctor_vars, DoctorInv, DoctorTurns, FlushOf
    <3>3. QED
      BY <3>1, <3>2 DEF DoctorInv
  <2>11. QED
    BY <2>1, <2>2, <2>3, <2>4, <2>5, <2>6, <2>7, <2>8, <2>9, <2>10 DEF DoctorNext
<1>3. QED
  BY <1>1, <1>2, PTL DEF DoctorSpec

\* "so concurrent sessions add up instead of clobbering" (Doctor::flush), for
\* any number of processes, requests in flight, keys and months: nothing that a
\* request counted is lost but with a process that ends, or to a flush that
\* read the month before it turned and found the file of the new one.
THEOREM CountsAddUp == DoctorSpec => []DoctorAddsUp
<1>1. DoctorInv => DoctorAddsUp
  BY DEF DoctorInv
<1>2. QED
  BY <1>1, DoctorAlways, PTL
=============================================================================
