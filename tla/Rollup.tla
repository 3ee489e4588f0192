------------------------------- MODULE Rollup -------------------------------
(***************************************************************************)
(* The metrics time series of one agent (api/app/timeseries.py): samples   *)
(* arrive through /ingest, rollup_once turns raw rows into hour buckets    *)
(* and hour buckets into day buckets, and retention deletes old rows.      *)
(*                                                                         *)
(* The clock ticks in half hours, so a sample lies in the first or in the  *)
(* second half of its hour.  A sample is named by its timestamp.  A bucket *)
(* is the set of rows it was computed from; the averages are left out.     *)
(* Ingestion, the clock and a crash may come between any two statements.   *)
(***************************************************************************)
EXTENDS Integers, FiniteSets

CONSTANTS
  MaxTime,            \* bound on the clock
  MaxSamples,         \* bound on the samples ingested
  MaxDelay,           \* ticks from a sample's capture to its arrival
  HoursPerDay,        \* 24
  RawRetention,       \* TS_RAW_RETENTION_HOURS, in ticks
  HourRetention,      \* TS_HOURLY_RETENTION_DAYS, in ticks
  DayRetention,       \* TS_DAILY_RETENTION_DAYS, in ticks
  MaxPass,            \* ticks one rollup pass may take
  Workers,            \* server processes that run rollup_loop
  MaxCrashes          \* bound on passes that fail or die half way

ASSUME RollupAssumption ==
  /\ MaxTime \in Nat
  /\ MaxSamples \in Nat /\ MaxDelay \in Nat
  /\ HoursPerDay \in Nat \ {0}
  /\ RawRetention \in Nat /\ HourRetention \in Nat /\ DayRetention \in Nat
  /\ MaxPass \in 0 .. RawRetention
  /\ MaxCrashes \in Nat

Free == "free"
ASSUME WorkersAssumption == Free \notin Workers

Ticks == 0 .. MaxTime
HourOf(t) == t \div 2                 \* _bucket_start, as hour and day numbers
HourStart(h) == 2 * h
DayOf(h) == h \div HoursPerDay
DayStart(d) == HourStart(HoursPerDay * d)
Hours == 0 .. HourOf(MaxTime)
Days  == 0 .. DayOf(HourOf(MaxTime))

VARIABLES
  now,                                \* the server's clock
  raw, hour, day,                     \* tables: metrics, metrics_rollup by granularity
  lock,                               \* pg_advisory_lock
  pc, horizon, start, todo, promote,  \* rollup_once, by worker
  ingested, late, looked, cut, crashes     \* history

tables  == <<raw, hour, day>>
worker  == <<lock, pc, horizon, start, todo, promote>>
history == <<ingested, late, looked, cut>>
vars == <<now, tables, worker, history, crashes>>

Steps == {"idle", "locate", "select", "hours", "days", "promote",
          "purge raw", "purge hours", "purge days"}

TypeOK ==
  /\ now \in Ticks
  /\ raw \subseteq ingested /\ ingested \subseteq Ticks /\ late \subseteq ingested
  /\ hour \in [Hours -> SUBSET ingested]
  /\ day \in [Days -> SUBSET Hours]
  /\ lock \in Workers \cup {Free}
  /\ pc \in [Workers -> Steps]
  /\ horizon \in [Workers -> Ticks]
  /\ start \in [Workers -> Nat]
  /\ todo \in [Workers -> SUBSET ingested]
  /\ promote \in [Workers -> SUBSET Hours]
  /\ looked \in Ticks
  /\ cut \subseteq Hours
  /\ crashes \in Nat

Init ==
  /\ now = 0
  /\ raw = {} /\ hour = [h \in Hours |-> {}] /\ day = [d \in Days |-> {}]
  /\ lock = Free
  /\ pc = [w \in Workers |-> "idle"]
  /\ horizon = [w \in Workers |-> 0] /\ start = [w \in Workers |-> 0]
  /\ todo = [w \in Workers |-> {}] /\ promote = [w \in Workers |-> {}]
  /\ ingested = {} /\ late = {} /\ looked = 0 /\ cut = {} /\ crashes = 0

-----------------------------------------------------------------------------
(* Helpers *)

Rolled   == {h \in Hours : hour[h] # {}}
Promoted == {d \in Days : day[d] # {}}

Highest(n, S) == n \in S /\ \A m \in S : m <= n
Lowest(n, S)  == n \in S /\ \A m \in S : n <= m

Goto(w, step) == pc' = [pc EXCEPT ![w] = step]

\* The locals of a pass end with it.
Forget(w) ==
  /\ horizon' = [horizon EXCEPT ![w] = 0]
  /\ start' = [start EXCEPT ![w] = 0]
  /\ todo' = [todo EXCEPT ![w] = {}]
  /\ promote' = [promote EXCEPT ![w] = {}]

-----------------------------------------------------------------------------
(* Environment *)

\* A pass does not outlast MaxPass.
Tick ==
  /\ now < MaxTime
  /\ \A w \in Workers : pc[w] # "idle" => now < horizon[w] + MaxPass
  /\ now' = now + 1
  /\ UNCHANGED <<tables, worker, history, crashes>>

\* /ingest of a sample, also of an old one and from an agent whose clock is
\* ahead.  It is late when a pass has looked beyond the start of its hour already.
Ingest(s) ==
  /\ Cardinality(ingested) < MaxSamples
  /\ s \notin ingested /\ now - s <= MaxDelay
  /\ raw' = raw \cup {s}
  /\ ingested' = ingested \cup {s}
  /\ late' = IF HourStart(HourOf(s)) < looked \/ s >= now THEN late \cup {s} ELSE late
  /\ UNCHANGED <<now, hour, day, worker, looked, cut, crashes>>

-----------------------------------------------------------------------------
(* rollup_once *)

\* Each operator named Faulty... is a plausible slip in the definition that
\* follows it; no specification uses one.  They confirm that the properties
\* can fail.
FaultyAcquire(w) ==                   \* no lock
  /\ pc[w] = "idle"
  /\ lock' = w
  /\ horizon' = [horizon EXCEPT ![w] = now]
  /\ looked' = now
  /\ Goto(w, "locate")
  /\ UNCHANGED <<now, tables, start, todo, promote, ingested, late, cut, crashes>>

\* Take the lock, then read the clock.
Acquire(w) ==
  /\ pc[w] = "idle"
  /\ lock = Free
  /\ lock' = w
  /\ horizon' = [horizon EXCEPT ![w] = now]
  /\ looked' = now
  /\ Goto(w, "locate")
  /\ UNCHANGED <<now, tables, start, todo, promote, ingested, late, cut, crashes>>

\* Resume after the last bucket, or start at the first raw row.
Resume(w, from) ==
  /\ start' = [start EXCEPT ![w] = from]
  /\ Goto(w, IF from < horizon[w] THEN "select" ELSE "days")

Locate(w) ==
  /\ pc[w] = "locate"
  /\ \/ \E h \in Hours : Highest(h, Rolled) /\ Resume(w, HourStart(h + 1))
     \/ /\ Rolled = {}
        /\ \E s \in Ticks : Lowest(s, raw) /\ Resume(w, HourStart(HourOf(s)))
     \/ /\ Rolled = {} /\ raw = {}
        /\ Goto(w, "purge raw")
        /\ UNCHANGED start
  /\ UNCHANGED <<now, tables, lock, horizon, todo, promote, history, crashes>>

SelectRaw(w) ==
  /\ pc[w] = "select"
  /\ LET rows == {s \in raw : start[w] <= s /\ s < horizon[w]}
     IN  /\ todo' = [todo EXCEPT ![w] = rows]
         /\ Goto(w, IF rows = {} THEN "days" ELSE "hours")
  /\ UNCHANGED <<now, tables, lock, horizon, start, promote, history, crashes>>

HoursOf(S) == {HourOf(s) : s \in S}

FaultyUpsertHour(w) ==                \* buckets written in any order
  /\ pc[w] = "hours"
  /\ \E h \in HoursOf(todo[w]) :
       /\ hour' = [hour EXCEPT ![h] = {s \in todo[w] : HourOf(s) = h}]
       /\ todo' = [todo EXCEPT ![w] = {s \in @ : HourOf(s) # h}]
       /\ Goto(w, IF HoursOf(todo[w]) = {h} THEN "days" ELSE "hours")
  /\ UNCHANGED <<now, raw, day, lock, horizon, start, promote, history, crashes>>

\* One INSERT ... ON CONFLICT DO UPDATE per bucket, in the order of the rows.
UpsertHour(w) ==
  /\ pc[w] = "hours"
  /\ \E h \in HoursOf(todo[w]) :
       /\ Lowest(h, HoursOf(todo[w]))
       /\ hour' = [hour EXCEPT ![h] = {s \in todo[w] : HourOf(s) = h}]
       /\ todo' = [todo EXCEPT ![w] = {s \in @ : HourOf(s) # h}]
       /\ Goto(w, IF HoursOf(todo[w]) = {h} THEN "days" ELSE "hours")
  /\ UNCHANGED <<now, raw, day, lock, horizon, start, promote, history, crashes>>

FaultyToPromote(w, d) ==              \* the bucket that begins the day is left out
  {h \in Rolled : HourStart(h) > DayStart(d) /\ HourStart(h) < horizon[w]}

ToPromote(w, d) == {h \in Rolled : DayOf(h) >= d /\ HourStart(h) < horizon[w]}

PromoteFrom(w, d) ==
  /\ promote' = [promote EXCEPT ![w] = ToPromote(w, d)]
  /\ Goto(w, IF ToPromote(w, d) = {} THEN "purge raw" ELSE "promote")

\* The days to write: after the last one, or from the first hour's on.
LocateDays(w) ==
  /\ pc[w] = "days"
  /\ \/ \E d \in Days : Highest(d, Promoted) /\ PromoteFrom(w, d + 1)
     \/ /\ Promoted = {}
        /\ \E h \in Hours : Lowest(h, Rolled) /\ PromoteFrom(w, DayOf(h))
     \/ /\ Promoted = {} /\ Rolled = {}
        /\ Goto(w, "purge raw")
        /\ UNCHANGED promote
  /\ UNCHANGED <<now, tables, lock, horizon, start, todo, history, crashes>>

DaysOf(S) == {DayOf(h) : h \in S}

\* A day is written from the hours there are; one that has not ended is not
\* written again.
UpsertDay(w) ==
  /\ pc[w] = "promote"
  /\ \E d \in Days :
       /\ Lowest(d, DaysOf(promote[w]))
       /\ day' = [day EXCEPT ![d] = {h \in promote[w] : DayOf(h) = d}]
       /\ promote' = [promote EXCEPT ![w] = {h \in @ : DayOf(h) # d}]
       /\ cut' = cut \cup {h \in Hours : DayOf(h) = d /\ HourStart(h) >= horizon[w]}
       /\ Goto(w, IF DaysOf(promote[w]) = {d} THEN "purge raw" ELSE "promote")
  /\ UNCHANGED <<now, raw, hour, lock, horizon, start, todo, ingested, late, looked, crashes>>

-----------------------------------------------------------------------------
(* _retention: each cut is computed from the clock at that moment *)

RawExpired(s)  == s < now - RawRetention
HourExpired(h) == HourStart(h) < now - HourRetention
DayExpired(d)  == DayStart(d) < now - DayRetention

PurgeRaw(w) ==
  /\ pc[w] = "purge raw"
  /\ raw' = {s \in raw : ~RawExpired(s)}
  /\ Goto(w, "purge hours")
  /\ UNCHANGED <<now, hour, day, lock, horizon, start, todo, promote, history, crashes>>

PurgeHours(w) ==
  /\ pc[w] = "purge hours"
  /\ hour' = [h \in Hours |-> IF HourExpired(h) THEN {} ELSE hour[h]]
  /\ Goto(w, "purge days")
  /\ UNCHANGED <<now, raw, day, lock, horizon, start, todo, promote, history, crashes>>

\* The last deletion; the finally clause then gives the lock back.
PurgeDays(w) ==
  /\ pc[w] = "purge days"
  /\ day' = [d \in Days |-> IF DayExpired(d) THEN {} ELSE day[d]]
  /\ Goto(w, "idle")
  /\ lock' = Free
  /\ Forget(w)
  /\ UNCHANGED <<now, raw, hour, history, crashes>>

FaultyCrash(w) ==                     \* a lock row that nobody removes
  /\ pc[w] # "idle"
  /\ crashes < MaxCrashes
  /\ crashes' = crashes + 1
  /\ Goto(w, "idle")
  /\ Forget(w)
  /\ UNCHANGED <<now, tables, lock, history>>

\* A statement raises, or the process dies: the lock goes with its session,
\* and what was written stays (there is no transaction).
Crash(w) ==
  /\ pc[w] # "idle"
  /\ crashes < MaxCrashes
  /\ crashes' = crashes + 1
  /\ Goto(w, "idle")
  /\ lock' = Free
  /\ Forget(w)
  /\ UNCHANGED <<now, tables, history>>

-----------------------------------------------------------------------------
Pass(w) ==
  \/ Locate(w) \/ SelectRaw(w) \/ UpsertHour(w)
  \/ LocateDays(w) \/ UpsertDay(w)
  \/ PurgeRaw(w) \/ PurgeHours(w) \/ PurgeDays(w)

Next ==
  \/ Tick
  \/ \E s \in Ticks : Ingest(s)
  \/ \E w \in Workers : Acquire(w) \/ Pass(w) \/ Crash(w)

Spec == Init /\ [][Next]_vars

\* rollup_loop starts a pass for ever, and a pass that does not fail runs on.
FairSpec ==
  /\ Spec
  /\ WF_vars(\E w \in Workers : Acquire(w))
  /\ \A w \in Workers : WF_vars(Pass(w))

-----------------------------------------------------------------------------
(* Query: choose_granularity and query_series *)

FaultyGranularity(range) ==           \* the border goes to the coarser source
  CASE range < RawRetention -> "raw"
    [] RawRetention <= range /\ range <= HourRetention -> "hour"
    [] OTHER -> "day"

Granularity(range) ==
  CASE range <= RawRetention  -> "raw"
    [] RawRetention < range /\ range <= HourRetention -> "hour"
    [] OTHER -> "day"

\* The samples that the answer to a query over the last range ticks stands for.
Series(range) ==
  LET from == now - range
  IN  CASE Granularity(range) = "raw"  -> {s \in raw : from <= s /\ s < now}
        [] Granularity(range) = "hour" ->
             UNION {hour[h] : h \in {g \in Hours : from <= HourStart(g) /\ HourStart(g) < now}}
        [] OTHER -> {s \in ingested : \E d \in Promoted :
                       /\ from <= DayStart(d) /\ DayStart(d) < now
                       /\ HourOf(s) \in day[d]}

-----------------------------------------------------------------------------
(* Properties *)

OnTime == ingested \ late

\* No crash, late neighbour, slow pass or retention run loses a sample that
\* came before a pass looked at its hour: it is a raw row until it is in its
\* hour bucket ("older data is not lost").
OnTimeKept ==
  \A s \in OnTime : s \in raw \/ s \in hour[HourOf(s)] \/ HourExpired(HourOf(s))

\* A bucket is computed once: no later or concurrent pass overwrites it with
\* what is left of its rows ("idempotent", "can't double-write").
BucketsStay ==
  [][/\ \A h \in Hours : hour[h] # {} => hour'[h] \in {hour[h], {}}
     /\ \A d \in Days : day[d] # {} => day'[d] \in {day[d], {}}]_vars

\* When a pass comes to the retention, every hour that is still to be kept has
\* its day, whatever earlier passes left undone, and a bucket of samples that
\* came on time is in it.  The one exception is what the code does against its
\* docstring ("COMPLETED hour/day"): the hours that began after their day was
\* written.
HoursPromoted ==
  \A w \in Workers : pc[w] = "purge raw" =>
    \A h \in Rolled : ~HourExpired(h) /\ ~DayExpired(DayOf(h)) =>
      /\ DayOf(h) \in Promoted
      /\ hour[h] \cap OnTime # {} => h \in day[DayOf(h)] \cup cut

\* A window within the raw retention is answered exactly.
ShortWindowsExact ==
  \A range \in 1 .. RawRetention :
    Series(range) = {s \in ingested : now - range <= s /\ s < now}

\* Every sample that came on time is in its hour bucket in the end.
EventuallyRolled ==
  \A s \in Ticks : s \in OnTime ~> s \in hour[HourOf(s)] \/ HourExpired(HourOf(s))

\* rollup_once: raw rows are rolled up to the end of the last completed hour,
\* and no raw row is left unrolled.
CompletedHoursRolled ==
  [][\A w \in Workers, s \in raw :
       /\ SelectRaw(w)
       /\ HourStart(HourOf(s) + 1) <= horizon[w]
       => s \in todo'[w] \/ s \in hour[HourOf(s)]]_vars
=============================================================================
