------------------------------- MODULE Outbox -------------------------------
(***************************************************************************)
(* The event path: collectors insert rows into the outbox table of the     *)
(* agent's SQLite queue (Agent-Collect.ps1), Send-AgentBatch posts the     *)
(* oldest pending ones to /ingest, and the server (main.py) inserts the    *)
(* batch in one transaction, skipping message ids it has seen.             *)
(*                                                                         *)
(* Two agent processes share the queue.  A request or its response may be  *)
(* lost, the server may act on a request whose sender has given up or      *)
(* died, and a process may be killed between any two SQL statements.       *)
(***************************************************************************)
EXTENDS Integers, FiniteSets

CONSTANTS
  MaxEvents,          \* bound on the events collected
  Metrics,            \* the events of kind "metrics"
  Poison,             \* the events that fail the server's checks (400)
  Passes,             \* the agent processes at work
  BatchLimit,         \* LIMIT of the flush's SELECT (50)
  MaxOutboxRows,      \* the size cap (5000)
  MaxFaults           \* bound on lost messages, refusals and kills

ASSUME OutboxAssumption ==
  /\ MaxEvents \in Nat
  /\ Metrics \subseteq 1 .. MaxEvents
  /\ Poison \subseteq 1 .. MaxEvents
  /\ Passes \subseteq {"routine", "elevated"}
  /\ BatchLimit \in Nat \ {0}
  /\ MaxOutboxRows \in Nat
  /\ MaxFaults \in Nat

Events == 1 .. MaxEvents
Ids    == 1 .. MaxEvents              \* outbox ids; client_msg_id is COMPUTERNAME:id
None   == 0
Gone   == "gone"                      \* the sender no longer waits
Tables == {"metrics", "events"}

VARIABLES
  event, delivered, lastId,           \* agent disk: outbox rows, their status, the id sequence
  pc, batch, excess,                  \* agent processes
  requests,                           \* posts on their way or being served
  owner, copies,                      \* server: the unique indexes, inserts per event
  collected, dropped, faults          \* history

queue  == <<event, delivered, lastId>>
server == <<owner, copies>>
vars == <<queue, pc, batch, excess, requests, server, collected, dropped, faults>>

Rows    == {i \in Ids : event[i] # None}
Pending == Rows \ delivered
Table(e) == IF e \in Metrics THEN "metrics" ELSE "events"
Stored(e) == copies[e] > 0

\* The n lowest members of S (ORDER BY id ASC LIMIT n).
Lowest(n, S) == {i \in S : Cardinality({j \in S : j < i}) < n}

Request == [from : Passes \cup {Gone}, rows : SUBSET (Ids \X Events)]

TypeOK ==
  /\ event \in [Ids -> Events \cup {None}]
  /\ delivered \subseteq Rows
  /\ lastId \in 0 .. MaxEvents
  /\ pc \in [Passes -> {"idle", "count", "drop", "collect", "waiting", "mark"}]
  /\ batch \in [Passes -> SUBSET Ids]
  /\ excess \in [Passes -> Nat]
  /\ requests \subseteq Request
  /\ owner \in [Tables -> [Ids -> Events \cup {None}]]
  /\ copies \in [Events -> Nat]
  /\ collected \in 0 .. MaxEvents
  /\ dropped \subseteq Events
  /\ faults \in Nat

Init ==
  /\ event = [i \in Ids |-> None] /\ delivered = {} /\ lastId = 0
  /\ pc = [p \in Passes |-> "idle"]
  /\ batch = [p \in Passes |-> {}]
  /\ excess = [p \in Passes |-> 0]
  /\ requests = {}
  /\ owner = [t \in Tables |-> [i \in Ids |-> None]]
  /\ copies = [e \in Events |-> 0]
  /\ collected = 0 /\ dropped = {} /\ faults = 0

-----------------------------------------------------------------------------
(* Helpers *)

Fault == faults < MaxFaults /\ faults' = faults + 1

Delete(S) ==
  /\ event' = [i \in Ids |-> IF i \in S THEN None ELSE event[i]]
  /\ delivered' = delivered \ S
  /\ UNCHANGED lastId

\* The posts of the processes in P go on without their senders.
Orphan(P) == {[r EXCEPT !.from = IF r.from \in P THEN Gone ELSE r.from] : r \in requests}

\* After a flush the routine process samples metrics or ends its cycle; the
\* elevated one ends.
AfterFlush(p, v) == v \in IF p = "routine" THEN {"collect", "idle"} ELSE {"idle"}

-----------------------------------------------------------------------------
(* Prune-Queue *)

\* Delivered rows older than the retention go: those up to some id.
PruneDelivered(p) ==
  /\ pc[p] = "idle"
  /\ \E k \in 0 .. MaxEvents : Delete({i \in delivered : i <= k})
  /\ pc' = [pc EXCEPT ![p] = "count"]
  /\ UNCHANGED <<batch, excess, requests, server, collected, dropped, faults>>

CountRows(p) ==
  /\ pc[p] = "count"
  /\ LET total == Cardinality(Rows)
     IN  IF total > MaxOutboxRows
         THEN /\ excess' = [excess EXCEPT ![p] = total - MaxOutboxRows]
              /\ pc' = [pc EXCEPT ![p] = "drop"]
         ELSE /\ pc' = [pc EXCEPT ![p] = "collect"]
              /\ UNCHANGED excess
  /\ UNCHANGED <<queue, batch, requests, server, collected, dropped, faults>>

DropOldest(p) ==
  /\ pc[p] = "drop"
  /\ Delete(Lowest(excess[p], Rows))
  /\ dropped' = dropped \cup {event[i] : i \in Lowest(excess[p], Rows) \ delivered}
  /\ excess' = [excess EXCEPT ![p] = 0]
  /\ pc' = [pc EXCEPT ![p] = "collect"]
  /\ UNCHANGED <<batch, requests, server, collected, faults>>

-----------------------------------------------------------------------------
(* Invoke-AgentCollection, Invoke-MetricsSample *)

Insert(i) ==
  /\ event' = [event EXCEPT ![i] = collected + 1]
  /\ lastId' = i
  /\ UNCHANGED delivered

\* Each operator named Faulty... is a plausible slip in the definition that
\* follows it; no specification uses one.  They confirm that the properties
\* can fail.
FaultyCollect(p) ==                   \* no AUTOINCREMENT: ids follow the rows there are
  /\ pc[p] = "collect"
  /\ collected < MaxEvents
  /\ \E i \in Ids : /\ \A j \in Rows : j < i
                   /\ \A k \in Ids : (\A j \in Rows : j < k) => i <= k
                   /\ Insert(i)
  /\ collected' = collected + 1
  /\ UNCHANGED <<pc, batch, excess, requests, server, dropped, faults>>

\* AUTOINCREMENT: an id is never used again, even when its row is gone.
Collect(p) ==
  /\ pc[p] = "collect"
  /\ collected < MaxEvents
  /\ lastId < MaxEvents
  /\ Insert(lastId + 1)
  /\ collected' = collected + 1
  /\ UNCHANGED <<pc, batch, excess, requests, server, dropped, faults>>

-----------------------------------------------------------------------------
(* Send-AgentBatch *)

SelectBatch(p) ==
  /\ pc[p] = "collect"
  /\ Pending # {}
  /\ LET ids == Lowest(BatchLimit, Pending)
     IN  /\ batch' = [batch EXCEPT ![p] = ids]
         /\ requests' = requests \cup {[from |-> p, rows |-> {<<i, event[i]>> : i \in ids}]}
  /\ pc' = [pc EXCEPT ![p] = "waiting"]
  /\ UNCHANGED <<queue, excess, server, collected, dropped, faults>>

NothingPending(p) ==
  /\ pc[p] = "collect"
  /\ Pending = {}
  /\ \E v \in {"collect", "idle"} : AfterFlush(p, v) /\ pc' = [pc EXCEPT ![p] = v]
  /\ UNCHANGED <<queue, batch, excess, requests, server, collected, dropped, faults>>

FaultyMarkDelivered(p) ==             \* an upsert brings pruned rows back
  /\ pc[p] = "mark"
  /\ delivered' = delivered \cup batch[p]
  /\ batch' = [batch EXCEPT ![p] = {}]
  /\ \E v \in {"collect", "idle"} : AfterFlush(p, v) /\ pc' = [pc EXCEPT ![p] = v]
  /\ UNCHANGED <<event, lastId, excess, requests, server, collected, dropped, faults>>

MarkDelivered(p) ==
  /\ pc[p] = "mark"
  /\ delivered' = delivered \cup (batch[p] \cap Rows)
  /\ batch' = [batch EXCEPT ![p] = {}]
  /\ \E v \in {"collect", "idle"} : AfterFlush(p, v) /\ pc' = [pc EXCEPT ![p] = v]
  /\ UNCHANGED <<event, lastId, excess, requests, server, collected, dropped, faults>>

\* The catch block: the rows stay pending.
Failed(p) ==
  /\ batch' = [batch EXCEPT ![p] = {}]
  /\ \E v \in {"collect", "idle"} : AfterFlush(p, v) /\ pc' = [pc EXCEPT ![p] = v]

\* The connection breaks or times out; the server may still act on the post.
GiveUp(p) ==
  /\ pc[p] = "waiting"
  /\ Fault
  /\ Failed(p)
  /\ requests' = Orphan({p})
  /\ UNCHANGED <<queue, excess, server, collected, dropped>>

-----------------------------------------------------------------------------
(* ingest *)

Answer(r, ok) ==
  /\ requests' = requests \ {r}
  /\ \/ r.from = Gone /\ UNCHANGED <<pc, batch>>
     \/ r.from # Gone /\ ok /\ pc' = [pc EXCEPT ![r.from] = "mark"] /\ UNCHANGED batch
     \/ r.from # Gone /\ ~ok /\ Failed(r.from)

FaultyFresh(r) == r.rows              \* no conflict clause

Fresh(r) == {x \in r.rows : owner[Table(x[2])][x[1]] = None}

\* The server commits the rows of one request and answers 200.
Commit(r, rows) ==
  /\ owner' = [t \in Tables |-> [i \in Ids |->
                 IF \E x \in rows : x[1] = i /\ Table(x[2]) = t
                 THEN (CHOOSE x \in rows : x[1] = i)[2] ELSE owner[t][i]]]
  /\ copies' = [e \in Events |-> copies[e] + Cardinality({x \in rows : x[2] = e})]
  /\ Answer(r, TRUE)
  /\ UNCHANGED <<queue, excess, collected, dropped, faults>>

FaultyAccept(r) ==                    \* a duplicate refuses the whole batch
  IF Fresh(r) = r.rows
  THEN (\A x \in r.rows : x[2] \notin Poison) /\ Commit(r, r.rows)
  ELSE /\ Answer(r, FALSE)
       /\ UNCHANGED <<queue, excess, server, collected, dropped, faults>>

FaultyAcceptGood(r) ==                \* leaves out the rows it cannot take
  Commit(r, {x \in Fresh(r) : x[2] \notin Poison})

\* One transaction: INSERT ... ON CONFLICT (client_msg_id) DO NOTHING per row.
Accept(r) ==
  /\ \A x \in r.rows : x[2] \notin Poison
  /\ Commit(r, Fresh(r))

\* _validate_event or a DataError refuses the whole batch.
Reject(r) ==
  /\ \E x \in r.rows : x[2] \in Poison
  /\ Answer(r, FALSE)
  /\ UNCHANGED <<queue, excess, server, collected, dropped, faults>>

\* The post never arrives, or the server refuses it (token, size) or dies on
\* it: the transaction leaves no trace.
Lose(r) ==
  /\ Fault
  /\ Answer(r, FALSE)
  /\ UNCHANGED <<queue, excess, server, collected, dropped>>

-----------------------------------------------------------------------------
(* Failure of an agent process *)

Kill(p) ==
  /\ pc[p] # "idle"
  /\ Fault
  /\ pc' = [pc EXCEPT ![p] = "idle"]
  /\ batch' = [batch EXCEPT ![p] = {}]
  /\ excess' = [excess EXCEPT ![p] = 0]
  /\ requests' = Orphan({p})
  /\ UNCHANGED <<queue, server, collected, dropped>>

-----------------------------------------------------------------------------
AgentStep(p) ==
  \/ PruneDelivered(p) \/ CountRows(p) \/ DropOldest(p)
  \/ SelectBatch(p) \/ NothingPending(p) \/ MarkDelivered(p)

Serve(r) == Accept(r) \/ Reject(r)

Next ==
  \/ \E p \in Passes : AgentStep(p) \/ Collect(p) \/ GiveUp(p) \/ Kill(p)
  \/ \E r \in requests : Serve(r) \/ Lose(r)

Spec == Init /\ [][Next]_vars

\* The routine task is scheduled for ever, a pass that has started runs on, and
\* a request is served in the end.  Nothing starts the on-demand elevated task
\* again and again.
FairSpec ==
  /\ Spec
  /\ \A p \in Passes : WF_vars((p = "routine" \/ pc[p] # "idle") /\ AgentStep(p))
  /\ WF_vars(\E r \in requests : Serve(r))

-----------------------------------------------------------------------------
(* Properties *)

Queued(e) == \E i \in Pending : event[i] = e

\* An event leaves the outbox only when the server has it or the size cap
\* drops it: whatever is lost, repeated or interleaved
\* between Send-AgentBatch and /ingest, no event disappears in between.
NothingLost == \A e \in 1 .. collected : Stored(e) \/ Queued(e) \/ e \in dropped

\* An event is recorded once, however often its batch is sent and whichever
\* process sends it ("a retried batch is not double-counted").
StoredOnce == \A e \in Events : copies[e] <= 1

\* The outbox and /ingest together implement the feed of EventFeed: what waits
\* is sent oldest first, and the server records a batch that was sent, the
\* whole of it, or nothing of it.
Feed == INSTANCE EventFeed WITH
  recorded <- {e \in Events : Stored(e)},
  waiting  <- {event[i] : i \in Pending},
  sent     <- {{x[2] : x \in r.rows} : r \in requests}
FeedSpec == Feed!Spec

\* Once faults stop, every event is recorded or dropped by the cap; only a
\* refused event that is still waiting can hold one up.
EventuallyStored ==
  \A e \in Events :
    collected >= e ~> Stored(e) \/ e \in dropped \/ \E f \in Poison : Queued(f)

\* A message id that the server knows names the event it first came with, so
\* the conflict clause skips retries and nothing else (PROJECT-SPEC 2.2:
\* client_msg_id is a unique id): the ids of pruned rows are never used again.
MessageIdsUnique ==
  \A r \in requests : \A x \in r.rows : owner[Table(x[2])][x[1]] \in {None, x[2]}
=============================================================================
