---------------------------- MODULE RollupProofs ----------------------------
(***************************************************************************)
(* Proofs about Rollup for every length of the run, every retention, any   *)
(* number of samples, workers and failed passes.                           *)
(***************************************************************************)
EXTENDS Rollup, TLAPS

\* A pass at work holds the lock, so there is one at most.
LockInv == \A w \in Workers : pc[w] # "idle" => lock = w

\* A pass works with the clock it read, and does not outlast MaxPass.
ClockInv ==
  /\ looked <= now
  /\ \A w \in Workers : pc[w] # "idle" => horizon[w] = looked /\ now <= looked + MaxPass

\* A sample on time was there when the last pass looked, or its whole hour is
\* still ahead of that look.
OnTimeInv == \A s \in OnTime : s < now /\ (s < looked \/ looked <= HourStart(HourOf(s)))

\* Buckets are of hours that had begun when a pass looked.
PastInv == \A h \in Rolled : HourStart(h) < looked

\* The rows a pass still has to write lie behind every bucket there is.
TodoInv ==
  \A w \in Workers : \A s \in todo[w] :
    pc[w] = "hours" /\ s < looked /\ \A h \in Rolled : h < HourOf(s)

PromoteInv ==
  \A w \in Workers : \A h \in promote[w] :
    pc[w] = "promote" /\ \A d \in Promoted : d < DayOf(h)

\* A pass starts behind every bucket.
StartInv ==
  \A w \in Workers : pc[w] = "select" => \A h \in Rolled : HourStart(h + 1) <= start[w]

Kept(s) == s \in hour[HourOf(s)] \/ HourExpired(HourOf(s))

\* A raw row on time that is not rolled up lies behind every bucket, so no
\* pass starts after it.
FrontierInv == \A s \in raw \cap OnTime : Kept(s) \/ \A h \in Rolled : h < HourOf(s)

\* How far a pass has come with the raw rows that came on time.
CoverInv ==
  \A w \in Workers : \A s \in raw \cap OnTime : s < looked =>
    /\ pc[w] = "select" => Kept(s) \/ start[w] <= s
    /\ pc[w] = "hours" => Kept(s) \/ s \in todo[w]
    /\ pc[w] \in {"days", "promote", "purge raw"} => Kept(s)

IInv ==
  /\ TypeOK /\ LockInv /\ ClockInv /\ OnTimeInv /\ PastInv
  /\ StartInv /\ TodoInv /\ PromoteInv /\ FrontierInv /\ CoverInv /\ OnTimeKept

\* A day that is not there any more, or not yet needed: what the purge of the
\* raw rows may rely on for an hour.
DayKept(h) == HourExpired(h) \/ DayExpired(DayOf(h)) \/ DayOf(h) \in Promoted

\* A day is computed from hours of that day, which stay until they expire.
DayRowsInv == \A d \in Days : \A h \in day[d] : DayOf(h) = d /\ (h \in Rolled \/ HourExpired(h))

PromoteRolled == \A w \in Workers : promote[w] \subseteq Rolled

\* No pass starts after a day that is still to be written.
DayFrontierInv == \A h \in Rolled, d \in Promoted : DayOf(h) <= d => DayKept(h)

\* How far a pass has come with the hours.
DayCoverInv ==
  \A w \in Workers : \A h \in Rolled :
    /\ pc[w] = "promote" => h \in promote[w] \/ DayKept(h)
    /\ pc[w] = "purge raw" => DayKept(h)

\* The hours of a day that is written had begun when a pass looked, or are cut.
CutInv == \A h \in Hours : DayOf(h) \in Promoted => h \in cut \/ HourStart(h) < looked

\* No sample on time is still to be rolled into the part of a day that is
\* written already.
BehindInv ==
  \A s \in OnTime :
    (s \in raw \/ \E w \in Workers : s \in todo[w]) /\ DayOf(HourOf(s)) \in Promoted =>
      HourOf(s) \in cut \/ Kept(s)

\* A day has the hours of its samples on time.
DayHasInv ==
  \A h \in Rolled :
    /\ DayOf(h) \in Promoted /\ ~HourExpired(h) /\ ~DayExpired(DayOf(h))
    /\ hour[h] \cap OnTime # {}
    => h \in day[DayOf(h)] \cup cut

DInv ==
  /\ DayRowsInv /\ PromoteRolled /\ DayFrontierInv /\ DayCoverInv
  /\ CutInv /\ BehindInv /\ DayHasInv

-----------------------------------------------------------------------------
(* Clock arithmetic *)

LEMMA HourBounds ==
  ASSUME NEW t \in Nat
  PROVE  HourOf(t) \in Nat /\ HourStart(HourOf(t)) <= t /\ t <= HourStart(HourOf(t)) + 1
BY DEF HourOf, HourStart

LEMMA HourBehind ==
  ASSUME NEW h \in Nat, NEW t \in Nat
  PROVE  HourStart(h + 1) <= t <=> h < HourOf(t)
BY DEF HourOf, HourStart

LEMMA HourType == ASSUME NEW s \in Ticks PROVE s \in Nat /\ HourOf(s) \in Hours
BY RollupAssumption DEF Ticks, Hours, HourOf

LEMMA DayType == ASSUME NEW h \in Nat PROVE DayOf(h) \in Int
BY RollupAssumption DEF DayOf

LEMMA DayMonotone ==
  ASSUME NEW g \in Nat, NEW h \in Nat, g <= h
  PROVE  DayOf(g) <= DayOf(h)
BY RollupAssumption DEF DayOf

-----------------------------------------------------------------------------
(* TypeOK *)

LEMMA InitInv == Init => IInv
<1>. SUFFICES ASSUME Init PROVE IInv
  OBVIOUS
<1>1. TypeOK
  BY RollupAssumption DEF Init, TypeOK, Ticks, Steps
<1>2. Rolled = {} /\ raw = {} /\ OnTime = {}
  BY DEF Init, Rolled, OnTime
<1>3. LockInv /\ ClockInv
  BY DEF Init, LockInv, ClockInv
<1>4. OnTimeInv /\ PastInv /\ FrontierInv /\ OnTimeKept
  BY <1>2 DEF OnTimeInv, PastInv, FrontierInv, OnTimeKept
<1>5. StartInv /\ TodoInv /\ PromoteInv /\ CoverInv
  BY <1>2 DEF Init, StartInv, TodoInv, PromoteInv, CoverInv
<1>. QED
  BY <1>1, <1>3, <1>4, <1>5 DEF IInv

LEMMA ForgetType ==
  ASSUME TypeOK, NEW w \in Workers, Forget(w), Goto(w, "idle")
  PROVE  /\ pc' \in [Workers -> Steps] /\ horizon' \in [Workers -> Ticks]
         /\ start' \in [Workers -> Nat] /\ todo' \in [Workers -> SUBSET ingested]
         /\ promote' \in [Workers -> SUBSET Hours]
<1>1. 0 \in Ticks
  BY RollupAssumption DEF Ticks
<1>. QED
  BY <1>1 DEF TypeOK, Forget, Goto, Steps

LEMMA StepType == TypeOK /\ [Next]_vars => TypeOK'
<1>. SUFFICES ASSUME TypeOK, [Next]_vars PROVE TypeOK'
  OBVIOUS
<1>. USE DEF tables, worker, history
<1>1. CASE Tick
  BY <1>1, RollupAssumption DEF TypeOK, Tick, Ticks
<1>2. ASSUME NEW s \in Ticks, Ingest(s) PROVE TypeOK'
  BY <1>2 DEF TypeOK, Ingest
<1>3. ASSUME NEW w \in Workers, Acquire(w) PROVE TypeOK'
  BY <1>3 DEF TypeOK, Acquire, Goto, Steps
<1>4. ASSUME NEW w \in Workers, Locate(w) PROVE TypeOK'
  <2>1. \A h \in Hours : HourStart(h + 1) \in Nat
    BY DEF Hours, HourStart
  <2>2. \A s \in Ticks : HourStart(HourOf(s)) \in Nat
    <3>. SUFFICES ASSUME NEW s \in Ticks PROVE HourStart(HourOf(s)) \in Nat
      OBVIOUS
    <3>1. HourOf(s) \in Nat
      BY HourType, HourBounds
    <3>. QED
      BY <3>1 DEF HourStart
  <2>3. start' \in [Workers -> Nat] /\ pc' \in [Workers -> Steps]
    BY <1>4, <2>1, <2>2 DEF TypeOK, Locate, Resume, Goto, Steps
  <2>. QED
    BY <1>4, <2>3 DEF TypeOK, Locate
<1>5. ASSUME NEW w \in Workers, SelectRaw(w) PROVE TypeOK'
  BY <1>5 DEF TypeOK, SelectRaw, Goto, Steps
<1>6. ASSUME NEW w \in Workers, UpsertHour(w) PROVE TypeOK'
  <2>1. hour' \in [Hours -> SUBSET ingested]
    BY <1>6 DEF TypeOK, UpsertHour
  <2>2. todo' \in [Workers -> SUBSET ingested]
    BY <1>6 DEF TypeOK, UpsertHour
  <2>3. pc' \in [Workers -> Steps]
    BY <1>6 DEF TypeOK, UpsertHour, Goto, Steps
  <2>. QED
    BY <1>6, <2>1, <2>2, <2>3 DEF TypeOK, UpsertHour
<1>7. ASSUME NEW w \in Workers, LocateDays(w) PROVE TypeOK'
  <2>1. promote' \in [Workers -> SUBSET Hours]
    BY <1>7 DEF TypeOK, LocateDays, PromoteFrom, ToPromote, Rolled
  <2>2. pc' \in [Workers -> Steps]
    BY <1>7 DEF TypeOK, LocateDays, PromoteFrom, Goto, Steps
  <2>. QED
    BY <1>7, <2>1, <2>2 DEF TypeOK, LocateDays
<1>8. ASSUME NEW w \in Workers, UpsertDay(w) PROVE TypeOK'
  <2>1. cut' \subseteq Hours
    BY <1>8 DEF TypeOK, UpsertDay
  <2>2. day' \in [Days -> SUBSET Hours] /\ promote' \in [Workers -> SUBSET Hours]
    BY <1>8 DEF TypeOK, UpsertDay
  <2>3. pc' \in [Workers -> Steps]
    BY <1>8 DEF TypeOK, UpsertDay, Goto, Steps
  <2>. QED
    BY <1>8, <2>1, <2>2, <2>3 DEF TypeOK, UpsertDay
<1>9. ASSUME NEW w \in Workers, PurgeRaw(w) PROVE TypeOK'
  BY <1>9 DEF TypeOK, PurgeRaw, Goto, Steps
<1>10. ASSUME NEW w \in Workers, PurgeHours(w) PROVE TypeOK'
  BY <1>10 DEF TypeOK, PurgeHours, Goto, Steps
<1>11. ASSUME NEW w \in Workers, PurgeDays(w) PROVE TypeOK'
  <2>1. Forget(w) /\ Goto(w, "idle")
    BY <1>11 DEF PurgeDays
  <2>2. day' \in [Days -> SUBSET Hours]
    BY <1>11 DEF TypeOK, PurgeDays
  <2>. QED
    BY <1>11, <2>1, <2>2, ForgetType DEF TypeOK, PurgeDays
<1>12. ASSUME NEW w \in Workers, Crash(w) PROVE TypeOK'
  <2>1. Forget(w) /\ Goto(w, "idle")
    BY <1>12 DEF Crash
  <2>. QED
    BY <1>12, <2>1, ForgetType DEF TypeOK, Crash
<1>13. CASE UNCHANGED vars
  BY <1>13 DEF TypeOK, vars
<1>. QED
  BY <1>1, <1>2, <1>3, <1>4, <1>5, <1>6, <1>7, <1>8, <1>9, <1>10, <1>11, <1>12, <1>13
     DEF Next, Pass

\* Every variable keeps its type in every behaviour.
THEOREM TypeCorrect == Spec => []TypeOK
<1>1. Init => TypeOK
  BY InitInv DEF IInv
<1>. QED
  BY <1>1, StepType, PTL DEF Spec

-----------------------------------------------------------------------------
(* Who moves: lock and clock *)

\* What the step of a pass leaves alone.
LEMMA PassFrame ==
  ASSUME TypeOK, NEW w \in Workers, Pass(w) \/ Crash(w)
  PROVE  /\ pc[w] # "idle"
         /\ \A v \in Workers \ {w} :
              /\ pc'[v] = pc[v] /\ horizon'[v] = horizon[v] /\ start'[v] = start[v]
              /\ todo'[v] = todo[v] /\ promote'[v] = promote[v]
         /\ UNCHANGED <<now, ingested, late, looked>>
         /\ raw' \subseteq raw
         /\ pc'[w] # "idle" => lock' = lock /\ horizon'[w] = horizon[w]
<1>. USE DEF tables, worker, history
<1>1. CASE Locate(w)
  BY <1>1 DEF TypeOK, Locate, Resume, Goto
<1>2. CASE SelectRaw(w)
  BY <1>2 DEF TypeOK, SelectRaw, Goto
<1>3. CASE UpsertHour(w)
  BY <1>3 DEF TypeOK, UpsertHour, Goto
<1>4. CASE LocateDays(w)
  BY <1>4 DEF TypeOK, LocateDays, PromoteFrom, Goto
<1>5. CASE UpsertDay(w)
  BY <1>5 DEF TypeOK, UpsertDay, Goto
<1>6. CASE PurgeRaw(w)
  BY <1>6 DEF TypeOK, PurgeRaw, Goto
<1>7. CASE PurgeHours(w)
  BY <1>7 DEF TypeOK, PurgeHours, Goto
<1>8. CASE PurgeDays(w)
  BY <1>8 DEF TypeOK, PurgeDays, Forget, Goto
<1>9. CASE Crash(w)
  BY <1>9 DEF TypeOK, Crash, Forget, Goto
<1>. QED
  BY <1>1, <1>2, <1>3, <1>4, <1>5, <1>6, <1>7, <1>8, <1>9 DEF Pass

\* Only UpsertHour writes a bucket; an hour row that goes has expired.
LEMMA HoursFrame ==
  ASSUME TypeOK, NEW w \in Workers, Pass(w) \/ Crash(w), ~UpsertHour(w), NEW h \in Hours
  PROVE  hour'[h] = hour[h] \/ (hour'[h] = {} /\ HourExpired(h))
<1>. USE DEF tables
<1>1. CASE PurgeHours(w)
  BY <1>1 DEF PurgeHours
<1>2. CASE ~PurgeHours(w)
  BY <1>2 DEF Pass, Locate, SelectRaw, LocateDays, UpsertDay, PurgeRaw, PurgeDays, Crash
<1>. QED
  BY <1>1, <1>2

LEMMA StepLock == TypeOK /\ LockInv /\ [Next]_vars => LockInv'
<1>. SUFFICES ASSUME TypeOK, LockInv, [Next]_vars PROVE LockInv'
  OBVIOUS
<1>1. ASSUME NEW w \in Workers, Pass(w) \/ Crash(w) PROVE LockInv'
  BY <1>1, PassFrame DEF LockInv
<1>2. ASSUME NEW w \in Workers, Acquire(w) PROVE LockInv'
  <2>1. \A v \in Workers : pc[v] = "idle"
    BY <1>2, WorkersAssumption DEF LockInv, Acquire
  <2>. QED
    BY <1>2, <2>1 DEF LockInv, Acquire, Goto, TypeOK
<1>3. CASE Tick \/ (\E s \in Ticks : Ingest(s)) \/ UNCHANGED vars
  BY <1>3 DEF LockInv, Tick, Ingest, vars, worker
<1>. QED
  BY <1>1, <1>2, <1>3 DEF Next

\* When a worker starts a pass, none is at work.
LEMMA AcquireAlone ==
  ASSUME TypeOK, LockInv, NEW w \in Workers, Acquire(w), NEW v \in Workers
  PROVE  pc[v] = "idle"
BY WorkersAssumption DEF LockInv, Acquire

\* When a worker moves, no other is at work.
LEMMA PassAlone ==
  ASSUME TypeOK, LockInv, NEW w \in Workers, Pass(w) \/ Crash(w), NEW v \in Workers, v # w
  PROVE  pc[v] = "idle"
BY PassFrame DEF LockInv

LEMMA StepClock == TypeOK /\ LockInv /\ ClockInv /\ [Next]_vars => ClockInv'
<1>. SUFFICES ASSUME TypeOK, LockInv, ClockInv, [Next]_vars PROVE ClockInv'
  OBVIOUS
<1>0. now \in Nat /\ looked \in Nat /\ MaxPass \in Nat
  BY RollupAssumption DEF TypeOK, Ticks
<1>1. ASSUME NEW w \in Workers, Pass(w) \/ Crash(w) PROVE ClockInv'
  <2>1. UNCHANGED <<now, looked>>
    BY <1>1, PassFrame
  <2>2. ASSUME NEW v \in Workers, pc'[v] # "idle" PROVE pc[v] # "idle" /\ horizon'[v] = horizon[v]
    BY <1>1, <2>2, PassFrame
  <2>. QED
    BY <2>1, <2>2 DEF ClockInv
<1>2. ASSUME NEW w \in Workers, Acquire(w) PROVE ClockInv'
  <2>1. looked' = now /\ now' = now /\ horizon'[w] = now
    BY <1>2 DEF Acquire, TypeOK
  <2>2. ASSUME NEW v \in Workers, pc'[v] # "idle" PROVE v = w
    BY <1>2, <2>2, AcquireAlone DEF Acquire, Goto, TypeOK
  <2>. QED
    BY <1>0, <2>1, <2>2 DEF ClockInv
<1>3. CASE Tick
  BY <1>0, <1>3 DEF ClockInv, Tick, worker, history
<1>4. CASE (\E s \in Ticks : Ingest(s)) \/ UNCHANGED vars
  BY <1>4 DEF ClockInv, Ingest, vars, worker, history
<1>. QED
  BY <1>1, <1>2, <1>3, <1>4 DEF Next

LEMMA StepOnTime == TypeOK /\ ClockInv /\ OnTimeInv /\ [Next]_vars => OnTimeInv'
<1>. SUFFICES ASSUME TypeOK, ClockInv, OnTimeInv, [Next]_vars PROVE OnTimeInv'
  OBVIOUS
<1>0. now \in Nat /\ looked \in Nat /\ \A s \in OnTime : s \in Nat
  BY DEF TypeOK, Ticks, OnTime
<1>1. ASSUME NEW w \in Workers, Pass(w) \/ Crash(w) PROVE OnTimeInv'
  BY <1>1, PassFrame DEF OnTimeInv, OnTime
<1>2. ASSUME NEW w \in Workers, Acquire(w) PROVE OnTimeInv'
  <2>1. UNCHANGED <<now, ingested, late>> /\ looked' = now
    BY <1>2 DEF Acquire
  <2>. QED
    BY <2>1 DEF OnTimeInv, OnTime
<1>3. CASE Tick
  BY <1>0, <1>3 DEF OnTimeInv, OnTime, Tick, history
<1>4. ASSUME NEW s \in Ticks, Ingest(s) PROVE OnTimeInv'
  <2>1. s \in Nat /\ HourStart(HourOf(s)) \in Int
    BY HourType, HourBounds DEF HourStart
  <2>2. UNCHANGED <<now, looked>>
    BY <1>4 DEF Ingest
  <2>3. ASSUME NEW r \in OnTime' PROVE r \in OnTime \/ (r = s /\ s < now /\ looked <= HourStart(HourOf(s)))
    BY <1>0, <1>4, <2>1, <2>3 DEF Ingest, OnTime
  <2>. QED
    BY <2>2, <2>3 DEF OnTimeInv
<1>5. CASE UNCHANGED vars
  BY <1>5 DEF OnTimeInv, OnTime, vars, history
<1>. QED
  BY <1>1, <1>2, <1>3, <1>4, <1>5 DEF Next

-----------------------------------------------------------------------------
(* What the buckets keep *)

\* Steps outside a pass leave the buckets and the passes alone.
LEMMA QuietFrame ==
  ASSUME Tick \/ (\E s \in Ticks : Ingest(s)) \/ UNCHANGED vars
  PROVE  UNCHANGED <<hour, day, lock, pc, horizon, start, todo, promote, looked>>
BY DEF Tick, Ingest, vars, tables, worker, history

\* A bucket that is written is of a row to do, and no bucket at or behind it
\* exists.
LEMMA UpsertFacts ==
  ASSUME TypeOK, TodoInv, NEW w \in Workers, UpsertHour(w)
  PROVE  \E h \in Hours :
           /\ Lowest(h, HoursOf(todo[w]))
           /\ hour' = [hour EXCEPT ![h] = {s \in todo[w] : HourOf(s) = h}]
           /\ todo'[w] = {s \in todo[w] : HourOf(s) # h}
           /\ pc'[w] = IF HoursOf(todo[w]) = {h} THEN "days" ELSE "hours"
           /\ Rolled' \subseteq Rolled \cup {h}
           /\ HourStart(h) < looked
           /\ \A g \in Rolled : g < h
<1>1. PICK h \in HoursOf(todo[w]) :
        /\ Lowest(h, HoursOf(todo[w]))
        /\ hour' = [hour EXCEPT ![h] = {s \in todo[w] : HourOf(s) = h}]
        /\ todo' = [todo EXCEPT ![w] = {s \in @ : HourOf(s) # h}]
        /\ Goto(w, IF HoursOf(todo[w]) = {h} THEN "days" ELSE "hours")
  BY DEF UpsertHour
<1>2. PICK s \in todo[w] : HourOf(s) = h
  BY DEF HoursOf
<1>3. s \in Ticks /\ s \in Nat /\ h \in Hours /\ looked \in Nat
  BY <1>2, HourType DEF TypeOK, Ticks
<1>4. s < looked /\ \A g \in Rolled : g < h
  BY <1>2 DEF TodoInv
<1>5. HourStart(h) <= s /\ HourStart(h) \in Int
  BY <1>2, <1>3, HourBounds DEF HourStart
<1>6. HourStart(h) < looked
  BY <1>3, <1>4, <1>5
<1>7. Rolled' \subseteq Rolled \cup {h}
  BY <1>1, <1>3 DEF Rolled, TypeOK
<1>8. todo'[w] = {r \in todo[w] : HourOf(r) # h}
  BY <1>1 DEF TypeOK
<1>9. pc'[w] = IF HoursOf(todo[w]) = {h} THEN "days" ELSE "hours"
  BY <1>1 DEF TypeOK, Goto
<1>. QED
  BY <1>1, <1>3, <1>4, <1>6, <1>7, <1>8, <1>9

LEMMA RolledFrame ==
  ASSUME TypeOK, NEW w \in Workers, Pass(w) \/ Crash(w), ~UpsertHour(w)
  PROVE  Rolled' \subseteq Rolled
BY HoursFrame DEF Rolled

\* A rolled up sample stays so until its hour expires.
LEMMA KeptStays ==
  ASSUME TypeOK, TodoInv, [Next]_vars, NEW s \in Ticks, Kept(s)
  PROVE  Kept(s)'
<1>0. HourOf(s) \in Hours /\ now \in Nat /\ HourStart(HourOf(s)) \in Int /\ HourRetention \in Nat
  BY HourType, RollupAssumption DEF TypeOK, Ticks, HourStart, Hours
<1>1. ASSUME NEW w \in Workers, UpsertHour(w) PROVE Kept(s)'
  <2>1. PICK h \in Hours : /\ hour' = [hour EXCEPT ![h] = {r \in todo[w] : HourOf(r) = h}]
                           /\ \A g \in Rolled : g < h
    BY <1>1, UpsertFacts
  <2>2. ASSUME s \in hour[HourOf(s)] PROVE HourOf(s) # h
    <3>1. HourOf(s) \in Rolled
      BY <2>2, <1>0 DEF Rolled
    <3>. QED
      BY <3>1, <2>1 DEF Hours
  <2>3. now' = now
    BY <1>1 DEF UpsertHour
  <2>. QED
    BY <1>0, <2>1, <2>2, <2>3 DEF Kept, HourExpired, TypeOK
<1>2. ASSUME NEW w \in Workers, Pass(w) \/ Crash(w), ~UpsertHour(w) PROVE Kept(s)'
  <2>1. now' = now
    BY <1>2, PassFrame
  <2>2. hour'[HourOf(s)] = hour[HourOf(s)] \/ HourExpired(HourOf(s))
    BY <1>0, <1>2, HoursFrame
  <2>. QED
    BY <2>1, <2>2 DEF Kept, HourExpired
<1>3. CASE Tick
  BY <1>0, <1>3 DEF Kept, HourExpired, Tick, tables
<1>4. CASE (\E r \in Ticks : Ingest(r)) \/ (\E w \in Workers : Acquire(w)) \/ UNCHANGED vars
  BY <1>4 DEF Kept, HourExpired, Ingest, Acquire, vars, tables
<1>. QED
  BY <1>1, <1>2, <1>3, <1>4 DEF Next, Pass

LEMMA StepPast == TypeOK /\ ClockInv /\ TodoInv /\ PastInv /\ [Next]_vars => PastInv'
<1>. SUFFICES ASSUME TypeOK, ClockInv, TodoInv, PastInv, [Next]_vars PROVE PastInv'
  OBVIOUS
<1>0. now \in Nat /\ looked \in Nat /\ \A h \in Hours : HourStart(h) \in Int
  BY DEF TypeOK, Ticks, Hours, HourStart
<1>1. ASSUME NEW w \in Workers, UpsertHour(w) PROVE PastInv'
  <2>1. looked' = looked
    BY <1>1 DEF UpsertHour, history
  <2>. QED
    BY <1>1, <2>1, UpsertFacts DEF PastInv
<1>2. ASSUME NEW w \in Workers, Pass(w) \/ Crash(w), ~UpsertHour(w) PROVE PastInv'
  BY <1>2, RolledFrame, PassFrame DEF PastInv
<1>3. ASSUME NEW w \in Workers, Acquire(w) PROVE PastInv'
  <2>1. looked' = now /\ Rolled' = Rolled /\ Rolled \subseteq Hours
    BY <1>3 DEF Acquire, tables, Rolled
  <2>. QED
    BY <1>0, <2>1 DEF PastInv, ClockInv
<1>4. CASE Tick \/ (\E s \in Ticks : Ingest(s)) \/ UNCHANGED vars
  BY <1>4, QuietFrame DEF PastInv, Rolled
<1>. QED
  BY <1>1, <1>2, <1>3, <1>4 DEF Next, Pass

LEMMA StepStart == TypeOK /\ LockInv /\ StartInv /\ [Next]_vars => StartInv'
<1>. SUFFICES ASSUME TypeOK, LockInv, StartInv, [Next]_vars PROVE StartInv'
  OBVIOUS
<1>1. ASSUME NEW w \in Workers, Locate(w) PROVE StartInv'
  <2>1. Rolled' = Rolled
    BY <1>1 DEF Locate, tables, Rolled
  <2>2. \A v \in Workers \ {w} : pc'[v] # "select"
    BY <1>1, PassFrame, PassAlone DEF Pass
  <2>3. ASSUME NEW h \in Hours, Highest(h, Rolled), Resume(w, HourStart(h + 1)), NEW g \in Rolled
        PROVE  HourStart(g + 1) <= start'[w]
    <3>1. start'[w] = HourStart(h + 1) /\ g <= h /\ g \in Nat /\ h \in Nat
      BY <2>3 DEF Resume, TypeOK, Highest, Rolled, Hours
    <3>. QED
      BY <3>1 DEF HourStart
  <2>4. pc'[w] = "select" => \A g \in Rolled : HourStart(g + 1) <= start'[w]
    BY <1>1, <2>3 DEF Locate, Goto, TypeOK
  <2>. QED
    BY <2>1, <2>2, <2>4 DEF StartInv
<1>2. ASSUME NEW w \in Workers, Pass(w) \/ Crash(w), ~Locate(w) PROVE StartInv'
  <2>1. \A v \in Workers \ {w} : pc'[v] # "select"
    BY <1>2, PassFrame, PassAlone
  <2>2. pc'[w] # "select"
    BY <1>2 DEF TypeOK, Pass, SelectRaw, UpsertHour, LocateDays, PromoteFrom, UpsertDay,
                PurgeRaw, PurgeHours, PurgeDays, Crash, Goto
  <2>. QED
    BY <2>1, <2>2 DEF StartInv
<1>3. ASSUME NEW w \in Workers, Acquire(w) PROVE StartInv'
  <2>1. \A v \in Workers : pc'[v] # "select"
    BY <1>3, AcquireAlone DEF Acquire, Goto, TypeOK
  <2>. QED
    BY <2>1 DEF StartInv
<1>4. CASE Tick \/ (\E s \in Ticks : Ingest(s)) \/ UNCHANGED vars
  BY <1>4, QuietFrame DEF StartInv, Rolled
<1>. QED
  BY <1>1, <1>2, <1>3, <1>4 DEF Next, Pass

\* Between two steps only a pass at "hours" has rows to write.
LEMMA NothingToDo ==
  ASSUME TodoInv, NEW w \in Workers, pc[w] # "hours"
  PROVE  todo[w] = {}
BY DEF TodoInv

LEMMA StepTodo == TypeOK /\ LockInv /\ ClockInv /\ StartInv /\ TodoInv /\ [Next]_vars => TodoInv'
<1>. SUFFICES ASSUME TypeOK, LockInv, ClockInv, StartInv, TodoInv, [Next]_vars PROVE TodoInv'
  OBVIOUS
<1>0. ASSUME NEW w \in Workers, Pass(w) \/ Crash(w), NEW v \in Workers, v # w PROVE todo'[v] = {}
  BY <1>0, PassFrame, PassAlone, NothingToDo
<1>1. ASSUME NEW w \in Workers, SelectRaw(w) PROVE TodoInv'
  <2>1. todo'[w] = {s \in raw : start[w] <= s /\ s < horizon[w]}
    BY <1>1 DEF SelectRaw, TypeOK
  <2>2. UNCHANGED <<hour, looked>> /\ Rolled' = Rolled
    BY <1>1 DEF SelectRaw, tables, history, Rolled
  <2>3. ASSUME NEW s \in todo'[w] PROVE pc'[w] = "hours" /\ s < looked /\ \A h \in Rolled : h < HourOf(s)
    <3>1. pc'[w] = "hours"
      BY <1>1, <2>1, <2>3 DEF SelectRaw, Goto, TypeOK
    <3>2. s < looked
      BY <1>1, <2>1, <2>3 DEF SelectRaw, ClockInv
    <3>3. ASSUME NEW h \in Rolled PROVE h < HourOf(s)
      <4>1. HourStart(h + 1) <= start[w] /\ start[w] <= s
        BY <1>1, <2>1, <2>3 DEF SelectRaw, StartInv
      <4>2. h \in Nat
        BY <3>3 DEF Rolled, Hours
      <4>5. start[w] \in Nat
        BY <1>1 DEF TypeOK
      <4>6. s \in raw
        BY <2>1, <2>3
      <4>0. s \in Nat
        BY <4>6 DEF TypeOK, Ticks
      <4>3. HourStart(h + 1) \in Nat
        BY <4>2 DEF HourStart
      <4>4. HourStart(h + 1) <= s
        BY <4>0, <4>1, <4>3, <4>5
      <4>. QED
        BY <4>0, <4>2, <4>4, HourBehind
    <3>. QED
      BY <3>1, <3>2, <3>3
  <2>4. \A v \in Workers \ {w} : todo'[v] = {}
    BY <1>0, <1>1 DEF Pass
  <2>. QED
    BY <2>2, <2>3, <2>4 DEF TodoInv
<1>2. ASSUME NEW w \in Workers, UpsertHour(w) PROVE TodoInv'
  <2>1. PICK h \in Hours :
          /\ Lowest(h, HoursOf(todo[w]))
          /\ todo'[w] = {s \in todo[w] : HourOf(s) # h}
          /\ pc'[w] = IF HoursOf(todo[w]) = {h} THEN "days" ELSE "hours"
          /\ Rolled' \subseteq Rolled \cup {h}
    BY <1>2, UpsertFacts
  <2>2. ASSUME NEW s \in todo'[w] PROVE pc'[w] = "hours" /\ s < looked /\ \A g \in Rolled' : g < HourOf(s)
    <3>1. s \in todo[w] /\ HourOf(s) # h /\ HourOf(s) \in HoursOf(todo[w])
      BY <2>1, <2>2 DEF HoursOf
    <3>2. HourOf(s) \in Nat /\ h \in Nat
      BY <3>1, HourType DEF TypeOK, Hours
    <3>3. h < HourOf(s)
      BY <2>1, <3>1, <3>2 DEF Lowest
    <3>. QED
      BY <2>1, <3>1, <3>3 DEF TodoInv
  <2>3. \A v \in Workers \ {w} : todo'[v] = {}
    BY <1>0, <1>2 DEF Pass
  <2>4. looked' = looked
    BY <1>2 DEF UpsertHour, history
  <2>. QED
    BY <2>2, <2>3, <2>4 DEF TodoInv
<1>3. ASSUME NEW w \in Workers, Pass(w) \/ Crash(w), ~SelectRaw(w), ~UpsertHour(w) PROVE TodoInv'
  <2>1. pc[w] # "hours" \/ Crash(w)
    BY <1>3 DEF Pass, Locate, LocateDays, UpsertDay, PurgeRaw, PurgeHours, PurgeDays
  <2>2. todo'[w] = todo[w] \/ todo'[w] = {}
    BY <1>3 DEF Pass, Locate, LocateDays, UpsertDay, PurgeRaw, PurgeHours, PurgeDays, Crash,
                Forget, TypeOK
  <2>3. Crash(w) => todo'[w] = {}
    BY DEF Crash, Forget, TypeOK
  <2>. QED
    BY <1>0, <1>3, <2>1, <2>2, <2>3, NothingToDo DEF TodoInv
<1>4. ASSUME NEW w \in Workers, Acquire(w) PROVE TodoInv'
  <2>1. \A v \in Workers : todo[v] = {}
    BY <1>4, AcquireAlone, NothingToDo
  <2>. QED
    BY <1>4, <2>1 DEF Acquire, TodoInv
<1>5. CASE Tick \/ (\E s \in Ticks : Ingest(s)) \/ UNCHANGED vars
  BY <1>5, QuietFrame DEF TodoInv, Rolled
<1>. QED
  BY <1>1, <1>2, <1>3, <1>4, <1>5 DEF Next, Pass

LEMMA NothingToPromote ==
  ASSUME PromoteInv, NEW w \in Workers, pc[w] # "promote"
  PROVE  promote[w] = {}
BY DEF PromoteInv

\* Only UpsertDay writes a day; a day row that goes has expired.
LEMMA DaysFrame ==
  ASSUME TypeOK, NEW w \in Workers, Pass(w) \/ Crash(w), ~UpsertDay(w)
  PROVE  (\A d \in Days : day'[d] \in {day[d], {}}) /\ Promoted' \subseteq Promoted
<1>. USE DEF tables
<1>1. \A d \in Days : day'[d] \in {day[d], {}}
  <2>1. CASE PurgeDays(w)
    BY <2>1 DEF PurgeDays
  <2>2. CASE ~PurgeDays(w)
    BY <2>2 DEF Pass, Locate, SelectRaw, UpsertHour, LocateDays, PurgeRaw, PurgeHours, Crash
  <2>. QED
    BY <2>1, <2>2
<1>. QED
  BY <1>1 DEF Promoted

LEMMA StepPromote == TypeOK /\ LockInv /\ PromoteInv /\ [Next]_vars => PromoteInv'
<1>. SUFFICES ASSUME TypeOK, LockInv, PromoteInv, [Next]_vars PROVE PromoteInv'
  OBVIOUS
<1>0. ASSUME NEW w \in Workers, Pass(w) \/ Crash(w), NEW v \in Workers, v # w PROVE promote'[v] = {}
  BY <1>0, PassFrame, PassAlone, NothingToPromote
<1>1. ASSUME NEW w \in Workers, LocateDays(w) PROVE PromoteInv'
  <2>0. promote[w] = {} /\ Promoted' = Promoted
    BY <1>1, NothingToPromote DEF LocateDays, tables, Promoted
  <2>1. ASSUME NEW d \in Days, Highest(d, Promoted), PromoteFrom(w, d + 1)
        PROVE  \A h \in promote'[w] : pc'[w] = "promote" /\ \A e \in Promoted : e < DayOf(h)
    <3>1. promote'[w] = ToPromote(w, d + 1) /\ (promote'[w] # {} => pc'[w] = "promote")
      BY <2>1 DEF PromoteFrom, Goto, TypeOK
    <3>2. ASSUME NEW h \in promote'[w], NEW e \in Promoted PROVE e < DayOf(h)
      <4>1. e <= d /\ d + 1 <= DayOf(h) /\ e \in Int /\ d \in Int
        BY <2>1, <3>1, <3>2 DEF Highest, ToPromote, Promoted, Days
      <4>2. DayOf(h) \in Int
        BY <3>1, DayType DEF ToPromote, Rolled, Hours
      <4>. QED
        BY <4>1, <4>2
    <3>. QED
      BY <3>1, <3>2
  <2>2. CASE Promoted = {}
    <3>1. promote'[w] # {} => pc'[w] = "promote"
      BY <1>1, <2>0, <2>2 DEF LocateDays, PromoteFrom, Goto, TypeOK, Highest
    <3>. QED
      BY <1>0, <1>1, <2>0, <2>2, <3>1 DEF PromoteInv, Pass
  <2>. QED
    BY <1>0, <1>1, <2>0, <2>1, <2>2 DEF LocateDays, PromoteInv, Pass
<1>2. ASSUME NEW w \in Workers, UpsertDay(w) PROVE PromoteInv'
  <2>1. PICK d \in Days :
          /\ Lowest(d, DaysOf(promote[w]))
          /\ day' = [day EXCEPT ![d] = {h \in promote[w] : DayOf(h) = d}]
          /\ promote'[w] = {h \in promote[w] : DayOf(h) # d}
          /\ pc'[w] = IF DaysOf(promote[w]) = {d} THEN "purge raw" ELSE "promote"
    BY <1>2 DEF UpsertDay, Goto, TypeOK
  <2>2. Promoted' \subseteq Promoted \cup {d}
    BY <2>1 DEF Promoted, TypeOK
  <2>3. ASSUME NEW h \in promote'[w] PROVE pc'[w] = "promote" /\ \A e \in Promoted' : e < DayOf(h)
    <3>1. h \in promote[w] /\ DayOf(h) # d /\ DayOf(h) \in DaysOf(promote[w])
      BY <2>1, <2>3 DEF DaysOf
    <3>2. DayOf(h) \in Int /\ d \in Int
      BY <3>1, DayType DEF TypeOK, Hours, Days
    <3>3. d < DayOf(h)
      <4>1. d <= DayOf(h)
        BY <2>1, <3>1 DEF Lowest
      <4>. QED
        BY <3>1, <3>2, <4>1
    <3>. QED
      BY <2>1, <2>2, <3>1, <3>3 DEF PromoteInv
  <2>. QED
    BY <1>0, <1>2, <2>3 DEF PromoteInv, Pass
<1>3. ASSUME NEW w \in Workers, Pass(w) \/ Crash(w), ~LocateDays(w), ~UpsertDay(w) PROVE PromoteInv'
  <2>1. pc[w] # "promote" \/ Crash(w)
    BY <1>3 DEF Pass, Locate, SelectRaw, UpsertHour, PurgeRaw, PurgeHours, PurgeDays
  <2>2. promote'[w] = promote[w] \/ promote'[w] = {}
    BY <1>3 DEF Pass, Locate, SelectRaw, UpsertHour, PurgeRaw, PurgeHours, PurgeDays, Crash,
                Forget, TypeOK
  <2>3. Crash(w) => promote'[w] = {}
    BY DEF Crash, Forget, TypeOK
  <2>. QED
    BY <1>0, <1>3, <2>1, <2>2, <2>3, NothingToPromote DEF PromoteInv
<1>4. ASSUME NEW w \in Workers, Acquire(w) PROVE PromoteInv'
  <2>1. \A v \in Workers : promote[v] = {}
    BY <1>4, AcquireAlone, NothingToPromote
  <2>. QED
    BY <1>4, <2>1 DEF Acquire, PromoteInv
<1>5. CASE Tick \/ (\E s \in Ticks : Ingest(s)) \/ UNCHANGED vars
  BY <1>5, QuietFrame DEF PromoteInv, Promoted
<1>. QED
  BY <1>1, <1>2, <1>3, <1>4, <1>5 DEF Next, Pass

-----------------------------------------------------------------------------
(* No sample on time is lost *)

\* Only PurgeRaw deletes raw rows.
LEMMA RawFrame ==
  ASSUME NEW w \in Workers, Pass(w) \/ Crash(w), ~PurgeRaw(w)
  PROVE  raw' = raw
BY DEF Pass, Crash, Locate, SelectRaw, UpsertHour, LocateDays, UpsertDay, PurgeHours, PurgeDays,
       tables

\* What /ingest does to the samples on time.
LEMMA IngestOnTime ==
  ASSUME TypeOK, NEW r \in Ticks, Ingest(r), NEW s \in OnTime'
  PROVE  s \in OnTime \/ (s = r /\ looked <= HourStart(HourOf(s)))
<1>1. r \in Nat /\ HourStart(HourOf(r)) \in Int /\ looked \in Nat
  BY HourType, HourBounds DEF HourStart, TypeOK, Ticks
<1>. QED
  BY <1>1 DEF Ingest, OnTime

LEMMA StepFrontier ==
  TypeOK /\ OnTimeInv /\ PastInv /\ TodoInv /\ CoverInv /\ FrontierInv /\ [Next]_vars => FrontierInv'
<1>. SUFFICES ASSUME TypeOK, OnTimeInv, PastInv, TodoInv, CoverInv, FrontierInv, [Next]_vars
              PROVE  FrontierInv'
  OBVIOUS
<1>0. ASSUME NEW s \in OnTime PROVE s \in Ticks /\ HourOf(s) \in Nat
  BY <1>0, HourType DEF OnTime, TypeOK, Hours
<1>1. ASSUME NEW w \in Workers, UpsertHour(w), NEW s \in raw \cap OnTime
      PROVE  Kept(s)' \/ \A g \in Rolled' : g < HourOf(s)
  <2>1. PICK h \in Hours :
          /\ Lowest(h, HoursOf(todo[w]))
          /\ hour' = [hour EXCEPT ![h] = {t \in todo[w] : HourOf(t) = h}]
          /\ Rolled' \subseteq Rolled \cup {h}
          /\ HourStart(h) < looked
    BY <1>1, UpsertFacts
  <2>2. CASE Kept(s)
    BY <1>0, <1>1, <2>2, KeptStays
  <2>3. CASE ~Kept(s) /\ s < looked
    <3>1. s \in todo[w] /\ HourOf(s) \in HoursOf(todo[w])
      BY <1>1, <2>3 DEF CoverInv, UpsertHour, HoursOf
    <3>2. h <= HourOf(s)
      BY <2>1, <3>1 DEF Lowest
    <3>3. CASE HourOf(s) = h
      BY <2>1, <3>1, <3>3 DEF Kept, TypeOK
    <3>4. CASE HourOf(s) # h
      <4>1. h \in Nat /\ HourOf(s) \in Nat
        BY <1>0, <1>1 DEF Hours
      <4>2. h < HourOf(s)
        BY <3>2, <3>4, <4>1
      <4>. QED
        BY <1>1, <2>1, <2>3, <4>2 DEF FrontierInv
    <3>. QED
      BY <3>3, <3>4
  <2>4. CASE ~Kept(s) /\ ~(s < looked)
    <3>1. looked <= HourStart(HourOf(s))
      BY <1>1, <2>4 DEF OnTimeInv
    <3>2. h \in Nat /\ HourOf(s) \in Nat
      BY <1>0, <1>1 DEF Hours
    <3>3. looked \in Nat
      BY DEF TypeOK, Ticks
    <3>4. h < HourOf(s)
      BY <2>1, <3>1, <3>2, <3>3 DEF HourStart
    <3>. QED
      BY <1>1, <2>1, <2>4, <3>4 DEF FrontierInv
  <2>. QED
    BY <2>2, <2>3, <2>4
<1>2. ASSUME NEW w \in Workers, UpsertHour(w) PROVE FrontierInv'
  <2>1. raw' = raw /\ OnTime' = OnTime
    BY <1>2 DEF UpsertHour, history, OnTime
  <2>. QED
    BY <1>1, <1>2, <2>1 DEF FrontierInv
<1>3. ASSUME NEW w \in Workers, Pass(w) \/ Crash(w), ~UpsertHour(w) PROVE FrontierInv'
  <2>1. raw' \subseteq raw /\ OnTime' = OnTime
    BY <1>3, PassFrame DEF OnTime
  <2>2. Rolled' \subseteq Rolled
    BY <1>3, RolledFrame
  <2>. QED
    BY <1>0, <2>1, <2>2, KeptStays DEF FrontierInv
<1>4. ASSUME NEW r \in Ticks, Ingest(r) PROVE FrontierInv'
  <2>1. Rolled' = Rolled
    BY <1>4 DEF Ingest, Rolled
  <2>2. ASSUME NEW s \in raw' \cap OnTime' PROVE s \in raw \/ (s = r /\ s \notin ingested)
    BY <1>4, <2>2 DEF Ingest
  <2>3. ASSUME NEW s \in raw' \cap OnTime', s \in OnTime
        PROVE  Kept(s)' \/ \A g \in Rolled' : g < HourOf(s)
    BY <1>0, <2>1, <2>2, <2>3, KeptStays DEF FrontierInv, OnTime
  <2>4. ASSUME NEW s \in raw' \cap OnTime', s \notin OnTime
        PROVE  \A g \in Rolled' : g < HourOf(s)
    <3>1. looked <= HourStart(HourOf(s)) /\ HourOf(s) \in Nat
      BY <1>4, <2>4, IngestOnTime, HourType DEF Hours
    <3>2. ASSUME NEW g \in Rolled PROVE g < HourOf(s)
      <4>1. HourStart(g) < looked /\ g \in Nat /\ looked \in Nat
        BY <3>2 DEF PastInv, Rolled, Hours, TypeOK, Ticks
      <4>. QED
        BY <3>1, <4>1 DEF HourStart
    <3>. QED
      BY <2>1, <3>2
  <2>. QED
    BY <2>3, <2>4 DEF FrontierInv
<1>5. CASE Tick \/ (\E w \in Workers : Acquire(w)) \/ UNCHANGED vars
  <2>1. UNCHANGED <<raw, hour, ingested, late>>
    BY <1>5 DEF Tick, Acquire, vars, tables, history
  <2>2. OnTime' = OnTime /\ Rolled' = Rolled
    BY <2>1 DEF OnTime, Rolled
  <2>. QED
    BY <1>0, <2>1, <2>2, KeptStays DEF FrontierInv
<1>. QED
  BY <1>2, <1>3, <1>4, <1>5 DEF Next, Pass

Covered(w, s) ==
  /\ pc[w] = "select" => Kept(s) \/ start[w] <= s
  /\ pc[w] = "hours" => Kept(s) \/ s \in todo[w]
  /\ pc[w] \in {"days", "promote", "purge raw"} => Kept(s)

\* Locate skips no raw row on time.
LEMMA LocateCovers ==
  ASSUME TypeOK, ClockInv, FrontierInv, NEW w \in Workers, Locate(w),
         NEW s \in raw \cap OnTime, s < looked, ~Kept(s)
  PROVE  pc'[w] = "select" /\ start'[w] <= s
<1>0. s \in Nat /\ HourOf(s) \in Nat /\ HourStart(HourOf(s)) <= s /\ horizon[w] = looked
  <2>1. s \in Ticks
    BY DEF TypeOK
  <2>. QED
    BY <2>1, HourType, HourBounds DEF ClockInv, Locate
<1>1. ASSUME NEW from \in Nat, Resume(w, from), from <= s PROVE pc'[w] = "select" /\ start'[w] <= s
  <2>1. looked \in Nat
    BY DEF TypeOK, Ticks
  <2>2. from < horizon[w]
    BY <1>0, <1>1, <2>1
  <2>. QED
    BY <1>1, <2>2 DEF Resume, Goto, TypeOK
<1>2. ASSUME NEW h \in Hours, Highest(h, Rolled), Resume(w, HourStart(h + 1))
      PROVE  pc'[w] = "select" /\ start'[w] <= s
  <2>1. h \in Nat /\ HourStart(h + 1) \in Nat
    BY <1>2 DEF Hours, HourStart
  <2>2. h < HourOf(s)
    BY <1>2 DEF FrontierInv, Highest
  <2>3. HourStart(h + 1) <= s
    BY <1>0, <2>1, <2>2, HourBehind
  <2>. QED
    BY <1>1, <1>2, <2>1, <2>3
<1>3. ASSUME NEW r \in Ticks, Lowest(r, raw), Resume(w, HourStart(HourOf(r)))
      PROVE  pc'[w] = "select" /\ start'[w] <= s
  <2>1. r \in Nat /\ HourOf(r) \in Nat
    BY <1>3, HourType, HourBounds
  <2>2. HourStart(HourOf(r)) <= r
    BY <2>1, HourBounds
  <2>5. HourStart(HourOf(r)) \in Nat
    BY <2>1 DEF HourStart
  <2>3. r <= s
    BY <1>3 DEF Lowest
  <2>4. HourStart(HourOf(r)) <= s
    BY <1>0, <2>1, <2>2, <2>3, <2>5
  <2>. QED
    BY <1>1, <1>3, <2>4, <2>5
<1>. QED
  BY <1>2, <1>3 DEF Locate

LEMMA StepCover ==
  IInv /\ [Next]_vars => CoverInv'
<1>. SUFFICES ASSUME IInv, [Next]_vars PROVE CoverInv'
  OBVIOUS
<1>. USE DEF IInv
<1>0. ASSUME NEW s \in OnTime PROVE s \in Ticks
  BY <1>0 DEF OnTime, TypeOK
<1>1. ASSUME NEW w \in Workers, Pass(w) \/ Crash(w), NEW s \in raw \cap OnTime, s < looked
      PROVE  Covered(w, s)'
  <2>1. CASE Kept(s)
    BY <1>0, <1>1, <2>1, KeptStays DEF Covered
  <2>2. CASE ~Kept(s) /\ Locate(w)
    BY <1>1, <2>2, LocateCovers DEF Covered
  <2>3. CASE ~Kept(s) /\ SelectRaw(w)
    <3>1. start[w] <= s /\ horizon[w] = looked
      BY <1>1, <2>3 DEF CoverInv, ClockInv, SelectRaw
    <3>2. s \in {r \in raw : start[w] <= r /\ r < horizon[w]}
      BY <1>1, <3>1
    <3>. QED
      BY <2>3, <3>2 DEF Covered, SelectRaw, Goto, TypeOK
  <2>4. CASE ~Kept(s) /\ UpsertHour(w)
    <3>1. PICK h \in Hours :
            /\ hour' = [hour EXCEPT ![h] = {r \in todo[w] : HourOf(r) = h}]
            /\ todo'[w] = {r \in todo[w] : HourOf(r) # h}
            /\ pc'[w] = IF HoursOf(todo[w]) = {h} THEN "days" ELSE "hours"
      BY <2>4, UpsertFacts
    <3>2. s \in todo[w] /\ HourOf(s) \in HoursOf(todo[w])
      BY <1>1, <2>4 DEF CoverInv, UpsertHour, HoursOf
    <3>3. CASE HourOf(s) = h
      <4>1. Kept(s)'
        BY <3>1, <3>2, <3>3 DEF Kept, TypeOK
      <4>. QED
        BY <4>1 DEF Covered
    <3>4. CASE HourOf(s) # h
      <4>1. pc'[w] = "hours" /\ s \in todo'[w]
        BY <3>1, <3>2, <3>4
      <4>. QED
        BY <4>1 DEF Covered
    <3>. QED
      BY <3>3, <3>4
  <2>5. CASE ~Kept(s) /\ (LocateDays(w) \/ UpsertDay(w) \/ PurgeRaw(w))
    BY <1>1, <2>5 DEF CoverInv, LocateDays, UpsertDay, PurgeRaw
  <2>6. CASE PurgeHours(w) \/ PurgeDays(w) \/ Crash(w)
    BY <2>6 DEF Covered, PurgeHours, PurgeDays, Crash, Goto, TypeOK
  <2>. QED
    BY <1>1, <2>1, <2>2, <2>3, <2>4, <2>5, <2>6 DEF Pass
<1>2. ASSUME NEW w \in Workers, Pass(w) \/ Crash(w) PROVE CoverInv'
  <2>1. raw' \subseteq raw /\ OnTime' = OnTime /\ looked' = looked
    BY <1>2, PassFrame DEF OnTime
  <2>2. \A v \in Workers \ {w} : pc'[v] = "idle"
    BY <1>2, PassFrame, PassAlone
  <2>. QED
    BY <1>1, <1>2, <2>1, <2>2 DEF CoverInv, Covered
<1>3. ASSUME NEW w \in Workers, Acquire(w) PROVE CoverInv'
  <2>1. \A v \in Workers : pc'[v] \in {"idle", "locate"}
    BY <1>3, AcquireAlone DEF Acquire, Goto, TypeOK
  <2>. QED
    BY <2>1 DEF CoverInv
<1>4. ASSUME NEW r \in Ticks, Ingest(r) PROVE CoverInv'
  <2>1. UNCHANGED <<pc, start, todo, looked>>
    BY <1>4, QuietFrame
  <2>2. ASSUME NEW s \in raw' \cap OnTime', s < looked PROVE s \in raw \cap OnTime
    <3>1. s \in OnTime
      <4>1. s \in Nat /\ HourStart(HourOf(s)) <= s /\ HourStart(HourOf(s)) \in Int /\ looked \in Nat
        <5>1. s \in Ticks
          BY <1>0, <1>4, <2>2, IngestOnTime
        <5>2. HourOf(s) \in Nat
          BY <5>1, HourType DEF Hours
        <5>. QED
          BY <5>1, <5>2, HourType, HourBounds DEF HourStart, TypeOK, Ticks
      <4>. QED
        BY <1>4, <2>2, <4>1, IngestOnTime
    <3>. QED
      BY <1>4, <2>2, <3>1 DEF Ingest, OnTime
  <2>. QED
    BY <1>0, <2>1, <2>2, KeptStays DEF CoverInv
<1>5. CASE Tick \/ UNCHANGED vars
  <2>1. UNCHANGED <<raw, ingested, late, pc, start, todo, looked>>
    BY <1>5 DEF Tick, vars, tables, worker, history
  <2>2. OnTime' = OnTime
    BY <2>1 DEF OnTime
  <2>. QED
    BY <1>0, <2>1, <2>2, KeptStays DEF CoverInv
<1>. QED
  BY <1>2, <1>3, <1>4, <1>5 DEF Next

LEMMA StepKept == IInv /\ [Next]_vars => OnTimeKept'
<1>. SUFFICES ASSUME IInv, [Next]_vars PROVE OnTimeKept'
  OBVIOUS
<1>. USE DEF IInv
<1>0. ASSUME NEW s \in OnTime PROVE s \in Ticks /\ (s \in raw \/ Kept(s))
  BY <1>0 DEF OnTime, TypeOK, OnTimeKept, Kept
<1>1. ASSUME NEW w \in Workers, PurgeRaw(w), NEW s \in OnTime PROVE s \in raw' \/ Kept(s)'
  <2>1. CASE Kept(s)
    BY <1>0, <1>1, <2>1, KeptStays
  <2>2. CASE s \in raw /\ ~Kept(s)
    <3>1. ~(s < looked)
      BY <1>1, <2>2 DEF CoverInv, PurgeRaw
    <3>2. now <= looked + MaxPass
      BY <1>1 DEF ClockInv, PurgeRaw
    <3>3. s \in Nat /\ now \in Nat /\ looked \in Nat
      BY <1>0, <1>1 DEF TypeOK, Ticks
    <3>4. ~RawExpired(s)
      BY <3>1, <3>2, <3>3, RollupAssumption DEF RawExpired
    <3>. QED
      BY <1>1, <2>2, <3>4 DEF PurgeRaw
  <2>. QED
    BY <1>0, <1>1, <2>1, <2>2
<1>2. ASSUME NEW w \in Workers, Pass(w) \/ Crash(w) PROVE OnTimeKept'
  <2>1. OnTime' = OnTime
    BY <1>2, PassFrame DEF OnTime
  <2>2. ASSUME NEW s \in OnTime PROVE s \in raw' \/ Kept(s)'
    BY <1>0, <1>1, <1>2, <2>2, RawFrame, KeptStays
  <2>. QED
    BY <2>1, <2>2 DEF OnTimeKept, Kept
<1>3. ASSUME NEW r \in Ticks, Ingest(r) PROVE OnTimeKept'
  <2>1. raw' = raw \cup {r}
    BY <1>3 DEF Ingest
  <2>2. ASSUME NEW s \in OnTime' PROVE s \in raw' \/ Kept(s)'
    BY <1>0, <1>3, <2>1, <2>2, IngestOnTime, KeptStays
  <2>. QED
    BY <2>2 DEF OnTimeKept, Kept
<1>4. CASE Tick \/ (\E w \in Workers : Acquire(w)) \/ UNCHANGED vars
  <2>1. UNCHANGED <<raw, ingested, late>>
    BY <1>4 DEF Tick, Acquire, vars, tables, history
  <2>2. OnTime' = OnTime
    BY <2>1 DEF OnTime
  <2>3. ASSUME NEW s \in OnTime PROVE s \in raw' \/ Kept(s)'
    BY <1>0, <2>1, <2>3, KeptStays
  <2>. QED
    BY <2>2, <2>3 DEF OnTimeKept, Kept
<1>. QED
  BY <1>2, <1>3, <1>4 DEF Next

-----------------------------------------------------------------------------
(* Every hour to be kept has its day before the retention runs *)

\* An hour row stays until it expires.
LEMMA HourThere ==
  ASSUME TypeOK, TodoInv, [Next]_vars, NEW h \in Hours, h \in Rolled \/ HourExpired(h)
  PROVE  (h \in Rolled \/ HourExpired(h))'
<1>0. now \in Nat /\ HourStart(h) \in Int /\ HourRetention \in Nat
  BY RollupAssumption DEF TypeOK, Ticks, HourStart, Hours
<1>1. ASSUME NEW w \in Workers, UpsertHour(w) PROVE (h \in Rolled \/ HourExpired(h))'
  <2>1. PICK g \in Hours : /\ hour' = [hour EXCEPT ![g] = {s \in todo[w] : HourOf(s) = g}]
                           /\ \A f \in Rolled : f < g
    BY <1>1, UpsertFacts
  <2>2. h \in Rolled => h # g
    BY <2>1 DEF Hours
  <2>3. now' = now
    BY <1>1 DEF UpsertHour
  <2>. QED
    BY <2>1, <2>2, <2>3 DEF Rolled, HourExpired, TypeOK
<1>2. ASSUME NEW w \in Workers, Pass(w) \/ Crash(w), ~UpsertHour(w)
      PROVE  (h \in Rolled \/ HourExpired(h))'
  BY <1>2, PassFrame, HoursFrame DEF Rolled, HourExpired
<1>3. CASE Tick
  BY <1>0, <1>3 DEF Rolled, HourExpired, Tick, tables
<1>4. CASE (\E s \in Ticks : Ingest(s)) \/ (\E w \in Workers : Acquire(w)) \/ UNCHANGED vars
  BY <1>4 DEF Rolled, HourExpired, Ingest, Acquire, vars, tables
<1>. QED
  BY <1>1, <1>2, <1>3, <1>4 DEF Next, Pass

\* The lowest day that a pass has to write becomes a row.
LEMMA UpsertDayFacts ==
  ASSUME TypeOK, NEW w \in Workers, UpsertDay(w)
  PROVE  \E d \in Days :
           /\ \A h \in promote[w] : d <= DayOf(h)
           /\ day' = [day EXCEPT ![d] = {h \in promote[w] : DayOf(h) = d}]
           /\ promote'[w] = {h \in promote[w] : DayOf(h) # d}
           /\ (\E h \in promote[w] : DayOf(h) # d) => pc'[w] = "promote"
           /\ Promoted' = Promoted \cup {d}
           /\ UNCHANGED <<now, hour>>
<1>1. PICK d \in Days :
        /\ Lowest(d, DaysOf(promote[w]))
        /\ day' = [day EXCEPT ![d] = {h \in promote[w] : DayOf(h) = d}]
        /\ promote'[w] = {h \in promote[w] : DayOf(h) # d}
        /\ pc'[w] = IF DaysOf(promote[w]) = {d} THEN "purge raw" ELSE "promote"
  BY DEF UpsertDay, Goto, TypeOK
<1>2. \A h \in promote[w] : d <= DayOf(h)
  BY <1>1 DEF Lowest, DaysOf
<1>3. (\E h \in promote[w] : DayOf(h) # d) => pc'[w] = "promote"
  BY <1>1 DEF DaysOf
<1>4. \E h \in promote[w] : DayOf(h) = d
  BY <1>1 DEF Lowest, DaysOf
<1>5. Promoted' = Promoted \cup {d}
  BY <1>1, <1>4 DEF Promoted, TypeOK
<1>. QED
  BY <1>1, <1>2, <1>3, <1>5 DEF UpsertDay

\* Once an hour has its day, or has no need of it, it stays so.
LEMMA DayKeptStays ==
  ASSUME TypeOK, [Next]_vars, NEW h \in Hours, DayKept(h)
  PROVE  DayKept(h)'
<1>0. /\ now \in Nat /\ HourRetention \in Nat /\ DayRetention \in Nat
      /\ HourStart(h) \in Int /\ DayStart(DayOf(h)) \in Int
  <2>1. h \in Nat /\ HoursPerDay \in Nat
    BY RollupAssumption DEF Hours
  <2>2. DayOf(h) \in Int
    BY <2>1, DayType
  <2>3. HoursPerDay * DayOf(h) \in Int
    BY <2>1, <2>2
  <2>. QED
    BY <2>1, <2>3, RollupAssumption DEF TypeOK, Ticks, HourStart, DayStart
<1>1. ASSUME NEW w \in Workers, UpsertDay(w) PROVE DayKept(h)'
  <2>1. Promoted \subseteq Promoted' /\ now' = now
    BY <1>1, UpsertDayFacts
  <2>. QED
    BY <2>1 DEF DayKept, HourExpired, DayExpired
<1>2. ASSUME NEW w \in Workers, PurgeDays(w) PROVE DayKept(h)'
  BY <1>2 DEF PurgeDays, DayKept, HourExpired, DayExpired, Promoted
<1>3. ASSUME NEW w \in Workers, Pass(w) \/ Crash(w), ~UpsertDay(w), ~PurgeDays(w)
      PROVE  DayKept(h)'
  <2>1. UNCHANGED <<now, day>>
    BY <1>3 DEF Pass, Locate, SelectRaw, UpsertHour, LocateDays, PurgeRaw, PurgeHours, Crash, tables
  <2>. QED
    BY <2>1 DEF DayKept, HourExpired, DayExpired, Promoted
<1>4. CASE Tick
  BY <1>0, <1>4 DEF DayKept, HourExpired, DayExpired, Promoted, Tick, tables
<1>5. CASE (\E s \in Ticks : Ingest(s)) \/ (\E w \in Workers : Acquire(w)) \/ UNCHANGED vars
  BY <1>5 DEF DayKept, HourExpired, DayExpired, Promoted, Ingest, Acquire, vars, tables
<1>. QED
  BY <1>1, <1>2, <1>3, <1>4, <1>5 DEF Next, Pass

LEMMA StepDayRows == IInv /\ DInv /\ [Next]_vars => DayRowsInv'
<1>. SUFFICES ASSUME IInv, DInv, [Next]_vars, NEW d \in Days, NEW h \in day'[d]
     PROVE  DayOf(h) = d /\ (h \in Rolled \/ HourExpired(h))'
  BY DEF DayRowsInv
<1>. USE DEF IInv
<1>1. ASSUME h \in day[d] PROVE DayOf(h) = d /\ (h \in Rolled \/ HourExpired(h))'
  <2>1. h \in Hours
    BY <1>1 DEF TypeOK
  <2>. QED
    BY <1>1, <2>1, HourThere DEF DInv, DayRowsInv
<1>2. ASSUME NEW w \in Workers, UpsertDay(w) PROVE DayOf(h) = d /\ (h \in Rolled \/ HourExpired(h))'
  <2>1. PICK e \in Days : /\ day' = [day EXCEPT ![e] = {g \in promote[w] : DayOf(g) = e}]
                          /\ UNCHANGED hour
    BY <1>2, UpsertDayFacts
  <2>2. CASE d = e
    BY <2>1, <2>2 DEF DInv, PromoteRolled, Rolled, TypeOK
  <2>3. CASE d # e
    BY <1>1, <2>1, <2>3 DEF TypeOK
  <2>. QED
    BY <2>2, <2>3
<1>3. ASSUME NEW w \in Workers, Pass(w) \/ Crash(w), ~UpsertDay(w) PROVE h \in day[d]
  BY <1>3, DaysFrame
<1>4. CASE Tick \/ (\E s \in Ticks : Ingest(s)) \/ (\E w \in Workers : Acquire(w)) \/ UNCHANGED vars
  BY <1>1, <1>4 DEF Tick, Ingest, Acquire, vars, tables
<1>. QED
  BY <1>1, <1>2, <1>3, <1>4 DEF Next, Pass

LEMMA StepPromoteRolled == IInv /\ DInv /\ [Next]_vars => PromoteRolled'
<1>. SUFFICES ASSUME IInv, DInv, [Next]_vars PROVE PromoteRolled'
  OBVIOUS
<1>. USE DEF IInv
<1>0. ASSUME NEW w \in Workers, Pass(w) \/ Crash(w), NEW v \in Workers, v # w PROVE promote'[v] = {}
  BY <1>0, PassFrame, PassAlone, NothingToPromote
<1>1. ASSUME NEW w \in Workers, LocateDays(w) PROVE promote'[w] \subseteq Rolled'
  <2>1. Rolled' = Rolled
    BY <1>1 DEF LocateDays, tables, Rolled
  <2>2. promote'[w] = {} \/ promote'[w] \subseteq Rolled
    BY <1>1, NothingToPromote DEF LocateDays, PromoteFrom, ToPromote, TypeOK
  <2>. QED
    BY <2>1, <2>2
<1>2. ASSUME NEW w \in Workers, UpsertDay(w) PROVE promote'[w] \subseteq Rolled'
  <2>1. promote'[w] \subseteq promote[w] /\ UNCHANGED hour
    BY <1>2, UpsertDayFacts
  <2>. QED
    BY <2>1 DEF DInv, PromoteRolled, Rolled
<1>3. ASSUME NEW w \in Workers, Pass(w) \/ Crash(w), ~LocateDays(w), ~UpsertDay(w)
      PROVE  promote'[w] = {}
  <2>1. pc[w] # "promote" \/ Crash(w)
    BY <1>3 DEF Pass, Locate, SelectRaw, UpsertHour, PurgeRaw, PurgeHours, PurgeDays
  <2>2. promote'[w] = promote[w] \/ promote'[w] = {}
    BY <1>3 DEF Pass, Locate, SelectRaw, UpsertHour, PurgeRaw, PurgeHours, PurgeDays, Crash,
                Forget, TypeOK
  <2>3. Crash(w) => promote'[w] = {}
    BY DEF Crash, Forget, TypeOK
  <2>. QED
    BY <2>1, <2>2, <2>3, NothingToPromote
<1>4. ASSUME NEW w \in Workers, Pass(w) \/ Crash(w) PROVE PromoteRolled'
  BY <1>0, <1>1, <1>2, <1>3, <1>4 DEF PromoteRolled
<1>5. CASE Tick \/ (\E s \in Ticks : Ingest(s)) \/ (\E w \in Workers : Acquire(w)) \/ UNCHANGED vars
  <2>1. UNCHANGED <<hour, promote>>
    BY <1>5 DEF Tick, Ingest, Acquire, vars, tables, worker
  <2>. QED
    BY <2>1 DEF DInv, PromoteRolled, Rolled
<1>. QED
  BY <1>4, <1>5 DEF Next

LEMMA StepDayFrontier == IInv /\ DInv /\ [Next]_vars => DayFrontierInv'
<1>. SUFFICES ASSUME IInv, DInv, [Next]_vars,
                     NEW h \in Rolled', NEW d \in Promoted', DayOf(h) <= d
     PROVE  DayKept(h)'
  BY DEF DayFrontierInv
<1>. USE DEF IInv
<1>0. h \in Hours /\ h \in Nat /\ d \in Nat /\ DayOf(h) \in Int
  <2>1. h \in Hours /\ h \in Nat /\ d \in Nat
    BY DEF Rolled, Hours, Promoted, Days
  <2>. QED
    BY <2>1, DayType
<1>1. ASSUME h \in Rolled, d \in Promoted PROVE DayKept(h)'
  BY <1>0, <1>1, DayKeptStays DEF DInv, DayFrontierInv
<1>2. ASSUME NEW w \in Workers, UpsertHour(w) PROVE DayKept(h)'
  <2>1. PICK g \in Hours : /\ Rolled' \subseteq Rolled \cup {g}
                           /\ \A f \in Rolled : f < g
    BY <1>2, UpsertFacts
  <2>2. Promoted' = Promoted /\ day' = day
    BY <1>2 DEF UpsertHour, Promoted
  <2>3. CASE h = g
    <3>1. PICK f \in day[d] : TRUE
      BY <2>2 DEF Promoted
    <3>2. f \in Nat /\ f \in Hours /\ DayOf(f) = d /\ (f \in Rolled \/ HourExpired(f))
      BY <2>2, <3>1 DEF DInv, DayRowsInv, Promoted, TypeOK, Hours
    <3>3. CASE f \in Rolled
      <4>1. DayOf(f) <= DayOf(h)
        BY <1>0, <2>1, <2>3, <3>2, <3>3, DayMonotone
      <4>2. DayOf(h) = d
        BY <1>0, <3>2, <4>1
      <4>. QED
        BY <4>2 DEF DayKept
    <3>4. CASE HourExpired(f) /\ DayOf(h) # d
      <4>1. ~(f <= h)
        BY <1>0, <3>2, <3>4, DayMonotone
      <4>2. HourStart(h) <= HourStart(f) /\ HourStart(h) \in Int /\ HourStart(f) \in Int
        BY <1>0, <3>2, <4>1 DEF HourStart
      <4>3. HourExpired(h)
        BY <3>4, <4>2, RollupAssumption DEF HourExpired, TypeOK, Ticks
      <4>. QED
        BY <1>0, <4>3, DayKeptStays DEF DayKept
    <3>5. CASE DayOf(h) = d
      BY <3>5 DEF DayKept
    <3>. QED
      BY <3>2, <3>3, <3>4, <3>5
  <2>. QED
    BY <1>1, <2>1, <2>2, <2>3
<1>3. ASSUME NEW w \in Workers, UpsertDay(w) PROVE DayKept(h)'
  <2>1. PICK e \in Days : /\ \A g \in promote[w] : e <= DayOf(g)
                          /\ Promoted' = Promoted \cup {e}
                          /\ UNCHANGED hour
    BY <1>3, UpsertDayFacts
  <2>2. h \in Rolled
    BY <2>1 DEF Rolled
  <2>3. CASE d = e /\ DayOf(h) # d
    <3>1. e \in Int
      BY DEF Days
    <3>2. h \notin promote[w]
      BY <1>0, <2>1, <2>3, <3>1
    <3>3. DayKept(h)
      BY <1>3, <2>2, <3>2 DEF DInv, DayCoverInv, UpsertDay
    <3>. QED
      BY <1>0, <3>3, DayKeptStays
  <2>4. CASE DayOf(h) = d
    BY <2>4 DEF DayKept
  <2>. QED
    BY <1>1, <2>1, <2>2, <2>3, <2>4
<1>4. ASSUME NEW w \in Workers, Pass(w) \/ Crash(w), ~UpsertHour(w), ~UpsertDay(w) PROVE DayKept(h)'
  BY <1>1, <1>4, RolledFrame, DaysFrame
<1>5. CASE Tick \/ (\E s \in Ticks : Ingest(s)) \/ (\E w \in Workers : Acquire(w)) \/ UNCHANGED vars
  <2>1. UNCHANGED <<hour, day>>
    BY <1>5 DEF Tick, Ingest, Acquire, vars, tables
  <2>. QED
    BY <1>1, <2>1 DEF Rolled, Promoted
<1>. QED
  BY <1>2, <1>3, <1>4, <1>5 DEF Next, Pass

\* The days that a pass goes on to write cover every hour that needs one.
LEMMA LocateDaysCovers ==
  ASSUME IInv, DInv, NEW w \in Workers, LocateDays(w), NEW h \in Rolled, ~DayKept(h)
  PROVE  pc'[w] = "promote" /\ h \in promote'[w]
<1>. USE DEF IInv
<1>0. h \in Nat /\ DayOf(h) \in Int /\ HourStart(h) < horizon[w]
  <2>1. h \in Nat
    BY DEF Rolled, Hours
  <2>2. HourStart(h) < horizon[w]
    BY DEF PastInv, ClockInv, LocateDays
  <2>. QED
    BY <2>1, <2>2, DayType
<1>1. ASSUME NEW d, d <= DayOf(h), PromoteFrom(w, d) PROVE pc'[w] = "promote" /\ h \in promote'[w]
  <2>1. h \in ToPromote(w, d)
    BY <1>0, <1>1 DEF ToPromote
  <2>. QED
    BY <1>1, <2>1 DEF PromoteFrom, Goto, TypeOK
<1>2. ASSUME NEW d \in Days, Highest(d, Promoted), PromoteFrom(w, d + 1)
      PROVE  pc'[w] = "promote" /\ h \in promote'[w]
  <2>1. ~(DayOf(h) <= d)
    BY <1>2 DEF DInv, DayFrontierInv, Highest
  <2>2. d + 1 <= DayOf(h)
    BY <1>0, <2>1 DEF Days
  <2>. QED
    BY <1>1, <1>2, <2>2
<1>3. ASSUME NEW g \in Hours, Lowest(g, Rolled), PromoteFrom(w, DayOf(g))
      PROVE  pc'[w] = "promote" /\ h \in promote'[w]
  <2>1. g \in Nat /\ g <= h
    BY <1>3 DEF Lowest, Hours
  <2>2. DayOf(g) <= DayOf(h)
    BY <1>0, <2>1, DayMonotone
  <2>. QED
    BY <1>1, <1>3, <2>2
<1>. QED
  BY <1>2, <1>3 DEF LocateDays

LEMMA StepDayCover == IInv /\ DInv /\ [Next]_vars => DayCoverInv'
<1>. SUFFICES ASSUME IInv, DInv, [Next]_vars PROVE DayCoverInv'
  OBVIOUS
<1>. USE DEF IInv
<1>. DEFINE Done(w, h) == /\ pc[w] = "promote" => h \in promote[w] \/ DayKept(h)
                          /\ pc[w] = "purge raw" => DayKept(h)
<1>0. Rolled \subseteq Hours
  BY DEF Rolled
<1>1. ASSUME NEW w \in Workers, LocateDays(w), NEW h \in Rolled PROVE Done(w, h)'
  <2>1. CASE DayKept(h)
    BY <1>0, <2>1, DayKeptStays
  <2>2. CASE ~DayKept(h)
    BY <1>1, <2>2, LocateDaysCovers
  <2>. QED
    BY <2>1, <2>2
<1>2. ASSUME NEW w \in Workers, UpsertDay(w), NEW h \in Rolled PROVE Done(w, h)'
  <2>1. PICK d \in Days :
          /\ promote'[w] = {g \in promote[w] : DayOf(g) # d}
          /\ (\E g \in promote[w] : DayOf(g) # d) => pc'[w] = "promote"
          /\ Promoted' = Promoted \cup {d}
    BY <1>2, UpsertDayFacts
  <2>2. CASE DayKept(h)
    BY <1>0, <2>2, DayKeptStays
  <2>3. CASE h \in promote[w] /\ DayOf(h) # d
    BY <2>1, <2>3
  <2>4. CASE DayOf(h) = d
    BY <2>1, <2>4 DEF DayKept
  <2>. QED
    BY <1>2, <2>2, <2>3, <2>4 DEF DInv, DayCoverInv, UpsertDay
<1>3. ASSUME NEW w \in Workers, Locate(w), NEW h \in Rolled PROVE Done(w, h)'
  BY <1>3 DEF Locate, Resume, Goto, TypeOK
<1>4. ASSUME NEW w \in Workers, Pass(w) \/ Crash(w), ~LocateDays(w), ~UpsertDay(w), ~Locate(w)
      PROVE  pc'[w] \notin {"promote", "purge raw"}
  BY <1>4 DEF Pass, SelectRaw, UpsertHour, PurgeRaw, PurgeHours, PurgeDays, Crash, Goto, TypeOK
<1>5. ASSUME NEW w \in Workers, LocateDays(w) \/ UpsertDay(w) \/ Locate(w) PROVE Rolled' = Rolled
  BY <1>5 DEF LocateDays, UpsertDay, Locate, tables, Rolled
<1>6. ASSUME NEW w \in Workers, Pass(w) \/ Crash(w) PROVE DayCoverInv'
  <2>1. \A v \in Workers \ {w} : pc'[v] = "idle"
    BY <1>6, PassFrame, PassAlone
  <2>2. \A h \in Rolled' : Done(w, h)'
    BY <1>1, <1>2, <1>3, <1>4, <1>5, <1>6
  <2>. QED
    BY <2>1, <2>2 DEF DayCoverInv
<1>7. ASSUME NEW w \in Workers, Acquire(w) PROVE DayCoverInv'
  <2>1. \A v \in Workers : pc'[v] \in {"idle", "locate"}
    BY <1>7, AcquireAlone DEF Acquire, Goto, TypeOK
  <2>. QED
    BY <2>1 DEF DayCoverInv
<1>8. CASE Tick \/ (\E s \in Ticks : Ingest(s)) \/ UNCHANGED vars
  <2>1. UNCHANGED <<hour, pc, promote>>
    BY <1>8, QuietFrame
  <2>2. Rolled' = Rolled
    BY <2>1 DEF Rolled
  <2>. QED
    BY <1>0, <2>1, <2>2, DayKeptStays DEF DInv, DayCoverInv
<1>. QED
  BY <1>6, <1>7, <1>8 DEF Next

-----------------------------------------------------------------------------
(* A day has every hour that had begun when it was written *)

\* The cuts only grow, and grow only when a day is written.
LEMMA CutFrame ==
  ASSUME [Next]_vars
  PROVE  cut \subseteq cut' /\ (cut' = cut \/ \E w \in Workers : UpsertDay(w))
<1>1. ASSUME NEW w \in Workers, UpsertDay(w) PROVE cut \subseteq cut'
  BY <1>1 DEF UpsertDay
<1>2. ASSUME NEW w \in Workers, Pass(w) \/ Crash(w), ~UpsertDay(w) PROVE cut' = cut
  BY <1>2 DEF Pass, Locate, SelectRaw, UpsertHour, LocateDays, PurgeRaw, PurgeHours, PurgeDays,
              Crash, history
<1>3. CASE Tick \/ (\E s \in Ticks : Ingest(s)) \/ (\E w \in Workers : Acquire(w)) \/ UNCHANGED vars
  BY <1>3 DEF Tick, Ingest, Acquire, vars, history
<1>. QED
  BY <1>1, <1>2, <1>3 DEF Next, Pass

\* What the writing of day d cuts off.
LEMMA UpsertDayCuts ==
  ASSUME TypeOK, ClockInv, PromoteInv, NEW w \in Workers, UpsertDay(w)
  PROVE  \E d \in Days :
           /\ day' = [day EXCEPT ![d] = {h \in promote[w] : DayOf(h) = d}]
           /\ Promoted' = Promoted \cup {d} /\ d \notin Promoted
           /\ cut' = cut \cup {h \in Hours : DayOf(h) = d /\ HourStart(h) >= looked}
<1>1. PICK d \in Days :
        /\ Lowest(d, DaysOf(promote[w]))
        /\ day' = [day EXCEPT ![d] = {h \in promote[w] : DayOf(h) = d}]
        /\ cut' = cut \cup {h \in Hours : DayOf(h) = d /\ HourStart(h) >= horizon[w]}
  BY DEF UpsertDay
<1>2. PICK h \in promote[w] : DayOf(h) = d
  BY <1>1 DEF Lowest, DaysOf
<1>3. horizon[w] = looked
  BY DEF UpsertDay, ClockInv
<1>4. Promoted' = Promoted \cup {d}
  BY <1>1, <1>2 DEF Promoted, TypeOK
<1>5. d \notin Promoted
  <2>1. d \in Promoted => d < d
    BY <1>2 DEF PromoteInv
  <2>. QED
    BY <2>1 DEF Days
<1>. QED
  BY <1>1, <1>3, <1>4, <1>5

LEMMA StepCut == IInv /\ CutInv /\ [Next]_vars => CutInv'
<1>. SUFFICES ASSUME IInv, CutInv, [Next]_vars, NEW h \in Hours, DayOf(h) \in Promoted'
              PROVE  (h \in cut \/ HourStart(h) < looked)'
  BY DEF CutInv
<1>. USE DEF IInv
<1>0. HourStart(h) \in Int /\ looked \in Nat /\ looked <= now /\ now \in Nat
  BY DEF HourStart, Hours, TypeOK, Ticks, ClockInv
<1>1. ASSUME NEW w \in Workers, UpsertDay(w) PROVE (h \in cut \/ HourStart(h) < looked)'
  <2>1. PICK d \in Days :
          /\ Promoted' = Promoted \cup {d}
          /\ cut' = cut \cup {g \in Hours : DayOf(g) = d /\ HourStart(g) >= looked}
    BY <1>1, UpsertDayCuts
  <2>2. looked' = looked
    BY <1>1 DEF UpsertDay
  <2>. QED
    BY <1>0, <2>1, <2>2 DEF CutInv
<1>2. ASSUME NEW w \in Workers, Pass(w) \/ Crash(w), ~UpsertDay(w)
      PROVE  (h \in cut \/ HourStart(h) < looked)'
  BY <1>2, DaysFrame, PassFrame, CutFrame DEF CutInv
<1>3. ASSUME NEW w \in Workers, Acquire(w) PROVE (h \in cut \/ HourStart(h) < looked)'
  <2>1. looked' = now /\ cut' = cut /\ Promoted' = Promoted
    BY <1>3 DEF Acquire, tables, Promoted
  <2>. QED
    BY <1>0, <2>1 DEF CutInv
<1>4. CASE Tick \/ (\E s \in Ticks : Ingest(s)) \/ UNCHANGED vars
  <2>1. looked' = looked /\ Promoted' = Promoted
    BY <1>4, QuietFrame DEF Promoted
  <2>. QED
    BY <2>1, CutFrame DEF CutInv
<1>. QED
  BY <1>1, <1>2, <1>3, <1>4 DEF Next, Pass

\* Rows to do are raw rows, or were to do before.
LEMMA TodoFrame ==
  ASSUME TypeOK, NEW w \in Workers, Pass(w) \/ Crash(w), NEW v \in Workers, NEW s \in todo'[v]
  PROVE  s \in raw \/ s \in todo[v]
<1>1. CASE v # w
  BY <1>1, PassFrame
<1>2. CASE v = w
  BY <1>2 DEF TypeOK, Pass, Locate, Resume, SelectRaw, UpsertHour, LocateDays, UpsertDay, PurgeRaw,
              PurgeHours, PurgeDays, Crash, Forget
<1>. QED
  BY <1>1, <1>2

LEMMA StepBehind == IInv /\ CutInv /\ BehindInv /\ [Next]_vars => BehindInv'
<1>. DEFINE Ahead(s) == s \in raw \/ \E w \in Workers : s \in todo[w]
<1>. SUFFICES ASSUME IInv, CutInv, BehindInv, [Next]_vars,
                     NEW s \in OnTime', Ahead(s)', DayOf(HourOf(s)) \in Promoted'
              PROVE  HourOf(s) \in cut' \/ Kept(s)'
  BY DEF BehindInv
<1>. USE DEF IInv
<1>0. s \in Ticks /\ HourOf(s) \in Hours
  BY StepType, HourType DEF TypeOK, OnTime
<1>1. ASSUME s \in OnTime, Ahead(s), DayOf(HourOf(s)) \in Promoted PROVE HourOf(s) \in cut' \/ Kept(s)'
  BY <1>0, <1>1, CutFrame, KeptStays DEF BehindInv
<1>2. ASSUME NEW w \in Workers, Pass(w) \/ Crash(w) PROVE s \in OnTime /\ Ahead(s)
  BY <1>2, PassFrame, TodoFrame DEF OnTime
<1>3. ASSUME NEW w \in Workers, UpsertDay(w), DayOf(HourOf(s)) \notin Promoted
      PROVE  HourOf(s) \in cut' \/ Kept(s)'
  <2>1. PICK d \in Days :
          /\ Promoted' = Promoted \cup {d}
          /\ cut' = cut \cup {g \in Hours : DayOf(g) = d /\ HourStart(g) >= looked}
    BY <1>3, UpsertDayCuts
  <2>2. looked \in Nat /\ HourStart(HourOf(s)) \in Int
    BY <1>0 DEF TypeOK, Ticks, HourStart, Hours
  <2>3. CASE HourStart(HourOf(s)) >= looked
    BY <1>0, <1>3, <2>1, <2>3
  <2>4. CASE HourStart(HourOf(s)) < looked
    <3>1. s \in OnTime /\ Ahead(s)
      BY <1>2, <1>3 DEF Pass
    <3>2. s < looked
      BY <2>2, <2>4, <3>1 DEF OnTimeInv
    <3>3. \A v \in Workers : todo[v] = {}
      BY <1>3, PassAlone, NothingToDo DEF Pass, UpsertDay
    <3>4. Kept(s)
      BY <1>3, <3>1, <3>2, <3>3 DEF CoverInv, UpsertDay
    <3>. QED
      BY <1>0, <3>4, KeptStays
  <2>. QED
    BY <2>2, <2>3, <2>4
<1>4. ASSUME NEW w \in Workers, Pass(w) \/ Crash(w) PROVE HourOf(s) \in cut' \/ Kept(s)'
  BY <1>1, <1>2, <1>3, <1>4, DaysFrame
<1>5. ASSUME NEW r \in Ticks, Ingest(r) PROVE HourOf(s) \in cut' \/ Kept(s)'
  <2>1. Promoted' = Promoted /\ UNCHANGED <<todo, looked>>
    BY <1>5, QuietFrame DEF Promoted
  <2>2. CASE s \in OnTime
    <3>1. s \in ingested /\ s # r
      BY <1>5, <2>2 DEF OnTime, Ingest
    <3>2. Ahead(s)
      BY <1>5, <2>1, <3>1 DEF Ingest
    <3>. QED
      BY <1>1, <2>1, <2>2, <3>2
  <2>3. CASE s \notin OnTime
    <3>1. looked <= HourStart(HourOf(s))
      BY <1>5, <2>3, IngestOnTime
    <3>2. HourStart(HourOf(s)) \in Int /\ looked \in Nat
      BY <1>0 DEF HourStart, Hours, TypeOK, Ticks
    <3>3. HourOf(s) \in cut
      BY <1>0, <2>1, <3>1, <3>2 DEF CutInv
    <3>. QED
      BY <3>3, CutFrame
  <2>. QED
    BY <2>2, <2>3
<1>6. CASE Tick \/ (\E w \in Workers : Acquire(w)) \/ UNCHANGED vars
  <2>1. UNCHANGED <<raw, day, todo, ingested, late>>
    BY <1>6 DEF Tick, Acquire, vars, tables, worker, history
  <2>. QED
    BY <1>1, <2>1 DEF OnTime, Promoted
<1>. QED
  BY <1>4, <1>5, <1>6 DEF Next

LEMMA StepNow == TypeOK /\ [Next]_vars => now <= now'
<1>. SUFFICES ASSUME TypeOK, [Next]_vars PROVE now <= now'
  OBVIOUS
<1>0. now \in Nat
  BY DEF TypeOK, Ticks
<1>1. ASSUME NEW w \in Workers, Pass(w) \/ Crash(w) PROVE now' = now
  BY <1>1, PassFrame
<1>2. CASE Tick \/ (\E s \in Ticks : Ingest(s)) \/ (\E w \in Workers : Acquire(w)) \/ UNCHANGED vars
  BY <1>0, <1>2 DEF Tick, Ingest, Acquire, vars
<1>. QED
  BY <1>0, <1>1, <1>2 DEF Next

LEMMA StepDayHas == IInv /\ DInv /\ [Next]_vars => DayHasInv'
<1>. SUFFICES ASSUME IInv, DInv, [Next]_vars, NEW h \in Rolled', DayOf(h) \in Promoted',
                     ~HourExpired(h)', ~DayExpired(DayOf(h))', NEW s \in hour'[h], s \in OnTime'
              PROVE  h \in day'[DayOf(h)] \cup cut'
  BY DEF DayHasInv
<1>. USE DEF IInv
<1>0. h \in Hours /\ h \in Nat /\ HourStart(h) \in Int /\ now \in Nat /\ HourRetention \in Nat
  BY RollupAssumption DEF Rolled, Hours, HourStart, TypeOK, Ticks
<1>d. ~HourExpired(h) /\ ~DayExpired(DayOf(h))
  <2>1. now <= now' /\ now' \in Nat
    BY StepType, StepNow DEF TypeOK, Ticks
  <2>2. DayStart(DayOf(h)) \in Int /\ DayRetention \in Nat
    <3>1. HoursPerDay \in Nat /\ DayOf(h) \in Int
      BY <1>0, DayType, RollupAssumption
    <3>2. HoursPerDay * DayOf(h) \in Int
      BY <3>1
    <3>. QED
      BY <3>2, RollupAssumption DEF DayStart, HourStart
  <2>. QED
    BY <1>0, <2>1, <2>2 DEF HourExpired, DayExpired
<1>1. ASSUME hour'[h] = hour[h], s \in OnTime, DayOf(h) \in Promoted,
             day'[DayOf(h)] = day[DayOf(h)]
      PROVE  h \in day'[DayOf(h)] \cup cut'
  <2>1. h \in Rolled /\ hour[h] \cap OnTime # {}
    BY <1>0, <1>1 DEF Rolled
  <2>. QED
    BY <1>d, <1>1, <2>1, CutFrame DEF DInv, DayHasInv
<1>2. ASSUME NEW w \in Workers, UpsertHour(w) PROVE h \in day'[DayOf(h)] \cup cut'
  <2>1. PICK g \in Hours : /\ hour' = [hour EXCEPT ![g] = {r \in todo[w] : HourOf(r) = g}]
                           /\ \A f \in Rolled : f < g
    BY <1>2, UpsertFacts
  <2>2. UNCHANGED <<now, day, ingested, late, cut>>
    BY <1>2 DEF UpsertHour, history
  <2>3. s \in OnTime /\ DayOf(h) \in Promoted
    BY <2>2 DEF OnTime, Promoted
  <2>4. CASE h # g
    BY <1>1, <2>1, <2>2, <2>3, <2>4 DEF TypeOK
  <2>5. CASE h = g
    <3>1. s \in todo[w] /\ HourOf(s) = h
      BY <2>1, <2>5 DEF TypeOK
    <3>2. s \notin hour[h]
      <4>1. h \notin Rolled
        BY <1>0, <2>1, <2>5
      <4>. QED
        BY <1>0, <4>1 DEF Rolled
    <3>. QED
      BY <1>d, <2>2, <2>3, <3>1, <3>2 DEF DInv, BehindInv, Kept
  <2>. QED
    BY <2>4, <2>5
<1>3. ASSUME NEW w \in Workers, UpsertDay(w) PROVE h \in day'[DayOf(h)] \cup cut'
  <2>1. PICK d \in Days :
          /\ day' = [day EXCEPT ![d] = {g \in promote[w] : DayOf(g) = d}]
          /\ Promoted' = Promoted \cup {d} /\ d \notin Promoted
    BY <1>3, UpsertDayCuts
  <2>2. UNCHANGED <<now, hour, ingested, late>>
    BY <1>3 DEF UpsertDay
  <2>3. s \in OnTime /\ h \in Rolled
    BY <2>2 DEF OnTime, Rolled
  <2>4. CASE DayOf(h) # d
    BY <1>1, <2>1, <2>2, <2>3, <2>4 DEF TypeOK
  <2>5. CASE DayOf(h) = d /\ h \in promote[w]
    BY <2>1, <2>5 DEF TypeOK
  <2>6. CASE DayOf(h) = d /\ h \notin promote[w]
    <3>1. DayKept(h)
      BY <1>3, <2>3, <2>6 DEF DInv, DayCoverInv, UpsertDay
    <3>. QED
      BY <1>d, <2>1, <2>6, <3>1 DEF DayKept
  <2>. QED
    BY <2>4, <2>5, <2>6
<1>4. ASSUME NEW w \in Workers, Pass(w) \/ Crash(w), ~UpsertHour(w), ~UpsertDay(w)
      PROVE  h \in day'[DayOf(h)] \cup cut'
  <2>1. UNCHANGED <<now, ingested, late>>
    BY <1>4, PassFrame
  <2>2. hour'[h] = hour[h]
    BY <1>0, <1>4, HoursFrame
  <2>3. DayOf(h) \in Days /\ day'[DayOf(h)] # {} /\ day'[DayOf(h)] \in {day[DayOf(h)], {}}
    BY <1>4, DaysFrame DEF Promoted
  <2>4. s \in OnTime /\ DayOf(h) \in Promoted /\ day'[DayOf(h)] = day[DayOf(h)]
    BY <2>1, <2>3 DEF OnTime, Promoted
  <2>. QED
    BY <1>1, <2>2, <2>4
<1>5. ASSUME NEW r \in Ticks, Ingest(r) PROVE h \in day'[DayOf(h)] \cup cut'
  <2>1. UNCHANGED <<now, hour, day>>
    BY <1>5 DEF Ingest
  <2>2. s \in OnTime
    <3>1. s \in ingested
      BY <1>0, <2>1 DEF TypeOK
    <3>. QED
      BY <1>5, <3>1 DEF Ingest, OnTime
  <2>. QED
    BY <1>1, <2>1, <2>2 DEF Promoted
<1>6. CASE Tick \/ (\E w \in Workers : Acquire(w)) \/ UNCHANGED vars
  <2>1. UNCHANGED <<hour, day, ingested, late>>
    BY <1>6 DEF Tick, Acquire, vars, tables, history
  <2>. QED
    BY <1>1, <2>1 DEF OnTime, Promoted
<1>. QED
  BY <1>2, <1>3, <1>4, <1>5, <1>6 DEF Next, Pass

-----------------------------------------------------------------------------
(* Raw rows within the retention *)

\* /ingest adds a row and only the retention takes one away.
RawKept == \A s \in ingested : s \in raw \/ RawExpired(s)

LEMMA StepRaw == TypeOK /\ RawKept /\ [Next]_vars => RawKept'
<1>. SUFFICES ASSUME TypeOK, RawKept, [Next]_vars PROVE RawKept'
  OBVIOUS
<1>0. now \in Nat /\ RawRetention \in Nat /\ \A s \in ingested : s \in Nat
  BY RollupAssumption DEF TypeOK, Ticks
<1>1. ASSUME NEW w \in Workers, PurgeRaw(w) PROVE RawKept'
  BY <1>1 DEF RawKept, RawExpired, PurgeRaw, history
<1>2. ASSUME NEW w \in Workers, Pass(w) \/ Crash(w), ~PurgeRaw(w) PROVE RawKept'
  BY <1>2, RawFrame, PassFrame DEF RawKept, RawExpired
<1>3. ASSUME NEW s \in Ticks, Ingest(s) PROVE RawKept'
  BY <1>3 DEF RawKept, RawExpired, Ingest
<1>4. CASE Tick
  BY <1>0, <1>4 DEF RawKept, RawExpired, Tick, tables, history
<1>5. CASE (\E w \in Workers : Acquire(w)) \/ UNCHANGED vars
  BY <1>5 DEF RawKept, RawExpired, Acquire, vars, tables, history
<1>. QED
  BY <1>1, <1>2, <1>3, <1>4, <1>5 DEF Next, Pass

-----------------------------------------------------------------------------
(* Theorems *)

\* The invariant that carries the argument is inductive.
THEOREM Invariance == Spec => []IInv
<1>1. IInv /\ [Next]_vars => IInv'
  <2>. SUFFICES ASSUME IInv, [Next]_vars PROVE IInv'
    OBVIOUS
  <2>1. TypeOK' /\ LockInv' /\ ClockInv' /\ OnTimeInv'
    BY StepType, StepLock, StepClock, StepOnTime DEF IInv
  <2>2. PastInv' /\ StartInv' /\ TodoInv' /\ PromoteInv'
    BY StepPast, StepStart, StepTodo, StepPromote DEF IInv
  <2>3. FrontierInv' /\ CoverInv' /\ OnTimeKept'
    BY StepFrontier, StepCover, StepKept DEF IInv
  <2>. QED
    BY <2>1, <2>2, <2>3 DEF IInv
<1>. QED
  BY InitInv, <1>1, PTL DEF Spec

\* A sample that came before a pass looked at its hour stays a raw row until
\* it is in its hour bucket, whatever the retention periods and the number of
\* workers, failed passes and late neighbours.
THEOREM SamplesOnTimeAreKept == Spec => []OnTimeKept
<1>1. IInv => OnTimeKept
  BY DEF IInv
<1>. QED
  BY <1>1, Invariance, PTL

\* No bucket, of an hour or of a day, is ever computed a second time.
THEOREM BucketsAreWrittenOnce == Spec => BucketsStay
<1>. DEFINE Stay == /\ \A h \in Hours : hour[h] # {} => hour'[h] \in {hour[h], {}}
                    /\ \A d \in Days : day[d] # {} => day'[d] \in {day[d], {}}
<1>1. IInv /\ [Next]_vars => [Stay]_vars
  <2>. SUFFICES ASSUME IInv, [Next]_vars PROVE Stay \/ UNCHANGED vars
    OBVIOUS
  <2>. USE DEF IInv
  <2>1. ASSUME NEW w \in Workers, UpsertHour(w), NEW g \in Hours, hour[g] # {} PROVE hour'[g] = hour[g]
    <3>1. PICK h \in Hours :
            /\ hour' = [hour EXCEPT ![h] = {s \in todo[w] : HourOf(s) = h}]
            /\ \A f \in Rolled : f < h
      BY <2>1, UpsertFacts
    <3>2. g # h
      BY <2>1, <3>1 DEF Rolled, Hours
    <3>. QED
      BY <2>1, <3>1, <3>2 DEF TypeOK
  <2>2. ASSUME NEW w \in Workers, UpsertDay(w), NEW e \in Days, day[e] # {} PROVE day'[e] = day[e]
    <3>1. PICK d \in Days :
            /\ Lowest(d, DaysOf(promote[w]))
            /\ day' = [day EXCEPT ![d] = {h \in promote[w] : DayOf(h) = d}]
      BY <2>2 DEF UpsertDay
    <3>2. PICK h \in promote[w] : DayOf(h) = d
      BY <3>1 DEF Lowest, DaysOf
    <3>3. e < d
      BY <2>2, <3>2 DEF PromoteInv, Promoted
    <3>4. e # d
      BY <3>1, <3>3 DEF Days
    <3>. QED
      BY <2>2, <3>1, <3>4 DEF TypeOK
  <2>3. ASSUME NEW w \in Workers, Pass(w) \/ Crash(w) PROVE Stay
    <3>1. \A h \in Hours : hour[h] # {} => hour'[h] \in {hour[h], {}}
      BY <2>1, <2>3, HoursFrame
    <3>2. \A d \in Days : day[d] # {} => day'[d] \in {day[d], {}}
      BY <2>2, <2>3, DaysFrame
    <3>. QED
      BY <3>1, <3>2
  <2>4. CASE Tick \/ (\E s \in Ticks : Ingest(s)) \/ (\E w \in Workers : Acquire(w))
    BY <2>4 DEF Tick, Ingest, Acquire, tables
  <2>. QED
    BY <2>3, <2>4 DEF Next
<1>. QED
  BY <1>1, Invariance, PTL DEF Spec, BucketsStay

\* When a pass comes to the retention, every hour that is still to be kept has
\* its day, and is in it unless the day was cut before it, whatever earlier
\* passes left undone and whatever late sample has opened an hour behind the
\* days already written.
THEOREM HoursHaveTheirDays == Spec => []HoursPromoted
<1>1. Init => DInv
  BY DEF Init, DInv, DayRowsInv, PromoteRolled, DayFrontierInv, DayCoverInv, CutInv, BehindInv,
         DayHasInv, Rolled, Promoted, OnTime
<1>2. IInv /\ DInv /\ [Next]_vars => DInv'
  BY StepDayRows, StepPromoteRolled, StepDayFrontier, StepDayCover, StepCut, StepBehind, StepDayHas
     DEF DInv
<1>3. DInv => HoursPromoted
  BY DEF DInv, DayCoverInv, DayHasInv, DayKept, HoursPromoted
<1>. QED
  BY <1>1, <1>2, <1>3, Invariance, PTL DEF Spec

\* A query over a window within the raw retention gets every sample of that
\* window, whatever the passes and the retention are doing.
THEOREM ShortWindowsAreExact == Spec => []ShortWindowsExact
<1>1. Init => RawKept
  BY DEF Init, RawKept
<1>2. TypeOK /\ RawKept => ShortWindowsExact
  <2>. SUFFICES ASSUME TypeOK, RawKept, NEW range \in 1 .. RawRetention
       PROVE  Series(range) = {s \in ingested : now - range <= s /\ s < now}
    BY DEF ShortWindowsExact
  <2>1. range \in Nat /\ range <= RawRetention /\ RawRetention \in Nat
    BY RollupAssumption
  <2>2. Granularity(range) = "raw"
    BY <2>1 DEF Granularity
  <2>3. Series(range) = {s \in raw : now - range <= s /\ s < now}
    BY <2>2 DEF Series
  <2>4. ASSUME NEW s \in ingested, now - range <= s PROVE s \in raw
    <3>1. s \in Nat /\ now \in Nat
      BY DEF TypeOK, Ticks
    <3>. QED
      BY <2>1, <2>4, <3>1 DEF RawKept, RawExpired
  <2>. QED
    BY <2>3, <2>4 DEF TypeOK
<1>. QED
  BY <1>1, <1>2, StepRaw, TypeCorrect, PTL DEF Spec
=============================================================================
