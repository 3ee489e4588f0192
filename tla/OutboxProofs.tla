---------------------------- MODULE OutboxProofs ----------------------------
(***************************************************************************)
(* Proofs about Outbox for every number of events, every limit and any     *)
(* number of faults, and about Backoff for any number of failures.         *)
(***************************************************************************)
EXTENDS Outbox, Backoff, FiniteSetTheorems, TLAPS

\* Row ids count the events: row i holds event i.
IdInv ==
  /\ lastId = collected
  /\ \A i \in Ids : event[i] # None => event[i] = i /\ i <= collected
  /\ \A r \in requests : \A x \in r.rows : x[1] = x[2] /\ x[1] <= collected

\* What the server recorded under an id is that event, and it was inserted once.
OwnerInv ==
  \A e \in Events :
    /\ owner[Table(e)][e] \in {None, e}
    /\ copies[e] = IF owner[Table(e)][e] = None THEN 0 ELSE 1

\* A process waits for the answer to the rows of its batch, and marks only
\* rows that the server has.
BatchInv ==
  /\ \A r \in requests : r.from # Gone =>
       /\ pc[r.from] = "waiting"
       /\ \A i \in batch[r.from] : <<i, i>> \in r.rows
       /\ \A q \in requests : q.from = r.from => q = r
  /\ \A p \in Passes : pc[p] = "mark" => \A i \in batch[p] : Stored(i)
  /\ \A i \in delivered : Stored(i)

IInv == TypeOK /\ IdInv /\ OwnerInv /\ BatchInv /\ NothingLost

-----------------------------------------------------------------------------
LEMMA RowsFinite == IsFiniteSet(Rows) /\ Cardinality(Rows) \in Nat
<1>1. IsFiniteSet(Ids)
  BY FS_Interval, OutboxAssumption DEF Ids
<1>. QED
  BY <1>1, FS_Subset, FS_CardinalityType DEF Rows

LEMMA LowestSubset == ASSUME NEW n, NEW S PROVE Lowest(n, S) \subseteq S
BY DEF Lowest

LEMMA InitInv == Init => IInv
<1>. SUFFICES ASSUME Init PROVE IInv
  OBVIOUS
<1>1. TypeOK
  BY OutboxAssumption DEF Init, TypeOK, Rows, None, Ids, Events
<1>2. IdInv /\ BatchInv
  BY DEF Init, IdInv, BatchInv, None
<1>3. OwnerInv
  <2>1. \A e \in Events : Table(e) \in Tables /\ e \in Ids
    BY DEF Table, Tables, Events, Ids
  <2>. QED
    BY <2>1 DEF Init, OwnerInv
<1>4. NothingLost
  BY DEF Init, NothingLost
<1>. QED
  BY <1>1, <1>2, <1>3, <1>4 DEF IInv, Init

-----------------------------------------------------------------------------
(* TypeOK *)

LEMMA DeleteType ==
  ASSUME TypeOK, NEW S, Delete(S)
  PROVE  event' \in [Ids -> Events \cup {None}] /\ delivered' \subseteq Rows' /\ lastId' \in 0 .. MaxEvents
BY DEF TypeOK, Delete, Rows

LEMMA OrphanType ==
  ASSUME TypeOK, NEW P
  PROVE  Orphan(P) \subseteq Request
<1>. SUFFICES ASSUME NEW r \in requests
     PROVE  [r EXCEPT !.from = IF r.from \in P THEN Gone ELSE r.from] \in Request
  BY DEF Orphan
<1>1. r \in Request
  BY DEF TypeOK
<1>2. [r EXCEPT !.from = IF r.from \in P THEN Gone ELSE r.from]
        = [from |-> IF r.from \in P THEN Gone ELSE r.from, rows |-> r.rows]
  BY <1>1 DEF Request
<1>. QED
  BY <1>1, <1>2 DEF Request

LEMMA AnswerType ==
  ASSUME TypeOK, NEW r \in requests, NEW ok, Answer(r, ok)
  PROVE  /\ requests' \subseteq Request
         /\ pc' \in [Passes -> {"idle", "count", "drop", "collect", "waiting", "mark"}]
         /\ batch' \in [Passes -> SUBSET Ids]
BY DEF TypeOK, Answer, Failed, AfterFlush, Request

LEMMA StepType == TypeOK /\ [Next]_vars => TypeOK'
<1>. SUFFICES ASSUME TypeOK, [Next]_vars PROVE TypeOK'
  OBVIOUS
<1>. USE DEF queue, server
<1>0. ASSUME UNCHANGED <<event, delivered>> PROVE delivered' \subseteq Rows'
  BY <1>0 DEF TypeOK, Rows
<1>1. ASSUME NEW p \in Passes, PruneDelivered(p) PROVE TypeOK'
  <2>1. PICK k : Delete({i \in delivered : i <= k})
    BY <1>1 DEF PruneDelivered
  <2>. QED
    BY <1>1, <2>1, DeleteType DEF TypeOK, PruneDelivered
<1>2. ASSUME NEW p \in Passes, CountRows(p) PROVE TypeOK'
  <2>1. excess' \in [Passes -> Nat]
    BY <1>2, RowsFinite, OutboxAssumption DEF TypeOK, CountRows
  <2>2. pc' \in [Passes -> {"idle", "count", "drop", "collect", "waiting", "mark"}]
    BY <1>2 DEF TypeOK, CountRows
  <2>. QED
    BY <1>2, <1>0, <2>1, <2>2 DEF TypeOK, CountRows
<1>3. ASSUME NEW p \in Passes, DropOldest(p) PROVE TypeOK'
  <2>1. dropped' \subseteq Events
    BY <1>3, LowestSubset DEF TypeOK, DropOldest, Rows
  <2>. QED
    BY <1>3, <2>1, DeleteType DEF TypeOK, DropOldest
<1>4. ASSUME NEW p \in Passes, Collect(p) PROVE TypeOK'
  <2>1. lastId + 1 \in Ids /\ collected + 1 \in Events
    BY <1>4, OutboxAssumption DEF TypeOK, Collect, Ids, Events
  <2>2. Rows \subseteq Rows'
    BY <1>4, <2>1 DEF TypeOK, Collect, Insert, Rows, None, Events
  <2>. QED
    BY <1>4, <2>1, <2>2, OutboxAssumption DEF TypeOK, Collect, Insert, Ids, Events
<1>5. ASSUME NEW p \in Passes, SelectBatch(p) PROVE TypeOK'
  <2>1. Lowest(BatchLimit, Pending) \subseteq Ids
    BY LowestSubset DEF Pending, Rows
  <2>2. [from |-> p, rows |-> {<<i, event[i]>> : i \in Lowest(BatchLimit, Pending)}] \in Request
    <3>1. ASSUME NEW i \in Lowest(BatchLimit, Pending) PROVE <<i, event[i]>> \in Ids \X Events
      BY LowestSubset DEF TypeOK, Pending, Rows
    <3>. QED
      BY <3>1 DEF Request
  <2>. QED
    BY <1>5, <1>0, <2>1, <2>2 DEF TypeOK, SelectBatch
<1>6. ASSUME NEW p \in Passes, NothingPending(p) PROVE TypeOK'
  BY <1>6, <1>0 DEF TypeOK, NothingPending
<1>7. ASSUME NEW p \in Passes, MarkDelivered(p) PROVE TypeOK'
  BY <1>7 DEF TypeOK, MarkDelivered, Rows
<1>8. ASSUME NEW p \in Passes, GiveUp(p) PROVE TypeOK'
  BY <1>8, <1>0, OrphanType DEF TypeOK, GiveUp, Failed, Fault
<1>9. ASSUME NEW p \in Passes, Kill(p) PROVE TypeOK'
  BY <1>9, <1>0, OrphanType DEF TypeOK, Kill, Fault
<1>10. ASSUME NEW r \in requests, Accept(r) PROVE TypeOK'
  <2>1. r.rows \subseteq Ids \X Events /\ Fresh(r) \subseteq r.rows
    BY DEF TypeOK, Request, Fresh
  <2>2. owner' \in [Tables -> [Ids -> Events \cup {None}]]
    <3>1. ASSUME NEW i, \E x \in Fresh(r) : x[1] = i PROVE (CHOOSE x \in Fresh(r) : x[1] = i)[2] \in Events
      BY <3>1, <2>1
    <3>. QED
      BY <1>10, <3>1 DEF Accept, Commit, TypeOK
  <2>3. copies' \in [Events -> Nat]
    <3>1. IsFiniteSet(Ids \X Events)
      <4>1. IsFiniteSet(Ids) /\ IsFiniteSet(Events)
        BY FS_Interval, OutboxAssumption DEF Ids, Events
      <4>. QED
        BY <4>1, FS_Product
    <3>2. ASSUME NEW e \in Events PROVE Cardinality({x \in Fresh(r) : x[2] = e}) \in Nat
      <4>1. {x \in Fresh(r) : x[2] = e} \subseteq Ids \X Events
        BY <2>1
      <4>2. IsFiniteSet({x \in Fresh(r) : x[2] = e})
        BY <3>1, <4>1, FS_Subset
      <4>. QED
        BY <4>2, FS_CardinalityType
    <3>3. ASSUME NEW e \in Events
          PROVE  copies[e] + Cardinality({x \in Fresh(r) : x[2] = e}) \in Nat
      BY <3>2 DEF TypeOK
    <3>. QED
      BY <1>10, <3>3 DEF Accept, Commit
  <2>. QED
    BY <1>10, <1>0, <2>2, <2>3, AnswerType DEF Accept, Commit, TypeOK
<1>11. ASSUME NEW r \in requests, Reject(r) PROVE TypeOK'
  BY <1>11, <1>0, AnswerType DEF Reject, TypeOK
<1>12. ASSUME NEW r \in requests, Lose(r) PROVE TypeOK'
  <2>1. /\ requests' \subseteq Request
        /\ pc' \in [Passes -> {"idle", "count", "drop", "collect", "waiting", "mark"}]
        /\ batch' \in [Passes -> SUBSET Ids]
    BY <1>12, AnswerType DEF Lose
  <2>2. faults' \in Nat
    BY <1>12 DEF Lose, Fault, TypeOK
  <2>. QED
    BY <1>12, <1>0, <2>1, <2>2 DEF Lose, TypeOK
<1>14. CASE UNCHANGED vars
  BY <1>14, <1>0 DEF TypeOK, vars
<1>. QED
  BY <1>1, <1>2, <1>3, <1>4, <1>5, <1>6, <1>7, <1>8, <1>9, <1>10, <1>11, <1>12, <1>14
     DEF Next, AgentStep, Serve

\* Every variable keeps its type in every behaviour.
THEOREM TypeCorrect == Spec => []TypeOK
<1>1. Init => TypeOK
  BY InitInv DEF IInv
<1>. QED
  BY <1>1, StepType, PTL DEF Spec

-----------------------------------------------------------------------------
(* IdInv *)

\* Rows of the requests after a step that only answers or orphans them.
LEMMA OldRequests ==
  ASSUME TypeOK, NEW r \in requests', requests' \subseteq requests \/ \E P : requests' = Orphan(P)
  PROVE  \E q \in requests : q.rows = r.rows
<1>1. CASE requests' \subseteq requests
  BY <1>1
<1>2. ASSUME NEW P, requests' = Orphan(P) PROVE \E q \in requests : q.rows = r.rows
  <2>1. PICK q \in requests : r = [q EXCEPT !.from = IF q.from \in P THEN Gone ELSE q.from]
    BY <1>2 DEF Orphan
  <2>2. q \in Request
    BY DEF TypeOK
  <2>. QED
    BY <2>1, <2>2 DEF Request
<1>. QED
  BY <1>1, <1>2

LEMMA StepIds == TypeOK /\ IdInv /\ [Next]_vars => IdInv'
<1>. SUFFICES ASSUME TypeOK, IdInv, [Next]_vars PROVE IdInv'
  OBVIOUS
<1>. USE DEF queue, server
<1>1. ASSUME UNCHANGED <<event, lastId, collected>>,
             requests' \subseteq requests \/ \E P : requests' = Orphan(P)
      PROVE  IdInv'
  BY <1>1, OldRequests DEF IdInv
<1>2. ASSUME NEW S, Delete(S), UNCHANGED <<collected, requests>> PROVE IdInv'
  BY <1>2 DEF Delete, IdInv, TypeOK
<1>3. ASSUME NEW p \in Passes, AgentStep(p) PROVE IdInv'
  <2>1. CASE PruneDelivered(p)
    BY <2>1, <1>2 DEF PruneDelivered
  <2>2. CASE DropOldest(p)
    BY <2>2, <1>2 DEF DropOldest
  <2>3. CASE SelectBatch(p)
    <3>1. PICK S \in SUBSET Rows : requests' = requests \cup {[from |-> p, rows |-> {<<i, event[i]>> : i \in S}]}
      BY <2>3, LowestSubset DEF SelectBatch, Pending
    <3>2. \A i \in S : event[i] = i /\ i <= collected
      BY DEF IdInv, Rows
    <3>. QED
      BY <2>3, <3>1, <3>2 DEF IdInv, SelectBatch
  <2>. QED
    BY <1>1, <1>3, <2>1, <2>2, <2>3 DEF AgentStep, CountRows, NothingPending, MarkDelivered
<1>4. ASSUME NEW p \in Passes, Collect(p) PROVE IdInv'
  <2>1. lastId' = collected' /\ collected' = collected + 1 /\ collected \in Nat
    BY <1>4, OutboxAssumption DEF Collect, Insert, IdInv, TypeOK
  <2>2. \A i \in Ids : event'[i] = IF i = collected + 1 THEN collected + 1 ELSE event[i]
    BY <1>4 DEF Collect, Insert, IdInv, TypeOK
  <2>3. \A i \in Ids : event'[i] # None => event'[i] = i /\ i <= collected'
    BY <2>1, <2>2, OutboxAssumption DEF IdInv, Ids
  <2>4. \A r \in requests : \A x \in r.rows : x[1] \in Nat
    BY OutboxAssumption DEF TypeOK, Request, Ids
  <2>5. \A r \in requests' : \A x \in r.rows : x[1] = x[2] /\ x[1] <= collected'
    BY <1>4, <2>1, <2>4 DEF IdInv, Collect
  <2>. QED
    BY <2>1, <2>3, <2>5 DEF IdInv
<1>5. ASSUME NEW p \in Passes, GiveUp(p) \/ Kill(p) PROVE IdInv'
  BY <1>1, <1>5 DEF GiveUp, Kill
<1>6. ASSUME NEW r \in requests, Serve(r) \/ Lose(r) PROVE IdInv'
  BY <1>1, <1>6 DEF Serve, Accept, Commit, Reject, Lose, Answer
<1>8. CASE UNCHANGED vars
  BY <1>1, <1>8 DEF vars
<1>. QED
  BY <1>3, <1>4, <1>5, <1>6, <1>8 DEF Next

-----------------------------------------------------------------------------
(* OwnerInv *)

\* What an accepted request does to one event's index entry and count.
LEMMA AcceptEvent ==
  ASSUME TypeOK, IdInv, OwnerInv, NEW r \in requests, Accept(r), NEW e \in Events
  PROVE  /\ <<e, e>> \in r.rows => owner'[Table(e)][e] = e /\ copies'[e] = 1
         /\ <<e, e>> \notin r.rows => owner'[Table(e)][e] = owner[Table(e)][e] /\ copies'[e] = copies[e]
<1>1. \A x \in Fresh(r) : x = <<x[1], x[1]>> /\ x \in r.rows
  BY DEF IdInv, Fresh, TypeOK, Request
<1>2. Table(e) \in Tables /\ e \in Ids /\ e # None
  BY OutboxAssumption DEF Table, Tables, Events, Ids, None
<1>3. {x \in Fresh(r) : x[2] = e} = IF <<e, e>> \in Fresh(r) THEN {<<e, e>>} ELSE {}
  BY <1>1
<1>4. copies'[e] = copies[e] + IF <<e, e>> \in Fresh(r) THEN 1 ELSE 0
  BY <1>3, FS_Singleton, FS_EmptySet DEF Accept, Commit
<1>5. (\E x \in Fresh(r) : x[1] = e /\ Table(x[2]) = Table(e)) <=> <<e, e>> \in Fresh(r)
  BY <1>1
<1>6. <<e, e>> \in Fresh(r) => (CHOOSE x \in Fresh(r) : x[1] = e)[2] = e
  BY <1>1
<1>7. owner'[Table(e)][e] = IF <<e, e>> \in Fresh(r) THEN e ELSE owner[Table(e)][e]
  BY <1>2, <1>5, <1>6 DEF Accept, Commit
<1>8. <<e, e>> \in Fresh(r) <=> <<e, e>> \in r.rows /\ owner[Table(e)][e] = None
  BY DEF Fresh
<1>9. owner[Table(e)][e] # None => copies[e] = 1
  BY DEF OwnerInv
<1>10. owner[Table(e)][e] = None => copies[e] = 0
  BY DEF OwnerInv
<1>11. owner[Table(e)][e] # None => owner[Table(e)][e] = e
  BY DEF OwnerInv
<1>. QED
  BY <1>4, <1>7, <1>8, <1>9, <1>10, <1>11

LEMMA StepOwner == TypeOK /\ IdInv /\ OwnerInv /\ [Next]_vars => OwnerInv'
<1>. SUFFICES ASSUME TypeOK, IdInv, OwnerInv, [Next]_vars PROVE OwnerInv'
  OBVIOUS
<1>. USE DEF queue, server
<1>1. ASSUME UNCHANGED <<owner, copies>> PROVE OwnerInv'
  BY <1>1 DEF OwnerInv
<1>2. ASSUME NEW r \in requests, Accept(r) PROVE OwnerInv'
  <2>. SUFFICES ASSUME NEW e \in Events
       PROVE owner'[Table(e)][e] \in {None, e} /\ copies'[e] = IF owner'[Table(e)][e] = None THEN 0 ELSE 1
    BY DEF OwnerInv
  <2>1. e # None
    BY DEF Events, None
  <2>. QED
    BY <1>2, <2>1, AcceptEvent DEF OwnerInv
<1>3. ASSUME NEW p \in Passes, AgentStep(p) \/ Collect(p) \/ GiveUp(p) \/ Kill(p) PROVE OwnerInv'
  BY <1>1, <1>3 DEF AgentStep, PruneDelivered, CountRows, DropOldest, SelectBatch, NothingPending,
                    MarkDelivered, Collect, GiveUp, Kill
<1>4. CASE UNCHANGED vars \/ \E r \in requests : Reject(r) \/ Lose(r)
  BY <1>1, <1>4 DEF vars, Reject, Lose
<1>. QED
  BY <1>2, <1>3, <1>4 DEF Next, Serve

\* What is stored stays stored.
LEMMA StoredStays ==
  ASSUME TypeOK, IdInv, OwnerInv, [Next]_vars, NEW e \in Events, Stored(e)
  PROVE  Stored(e)'
<1>. USE DEF queue, server
<1>1. ASSUME UNCHANGED copies PROVE Stored(e)'
  BY <1>1 DEF Stored
<1>2. ASSUME NEW r \in requests, Accept(r) PROVE Stored(e)'
  <2>1. CASE <<e, e>> \in r.rows
    BY <1>2, <2>1, AcceptEvent DEF Stored
  <2>2. CASE <<e, e>> \notin r.rows
    BY <1>2, <2>2, AcceptEvent DEF Stored
  <2>. QED
    BY <2>1, <2>2
<1>3. ASSUME NEW p \in Passes, AgentStep(p) \/ Collect(p) \/ GiveUp(p) \/ Kill(p) PROVE Stored(e)'
  BY <1>1, <1>3 DEF AgentStep, PruneDelivered, CountRows, DropOldest, SelectBatch, NothingPending,
                    MarkDelivered, Collect, GiveUp, Kill
<1>4. CASE UNCHANGED vars \/ \E r \in requests : Reject(r) \/ Lose(r)
  BY <1>1, <1>4 DEF vars, Reject, Lose
<1>. QED
  BY <1>2, <1>3, <1>4 DEF Next, Serve

-----------------------------------------------------------------------------
(* BatchInv, part by part *)

AwaitInv ==
  \A r \in requests : r.from # Gone =>
    /\ pc[r.from] = "waiting"
    /\ \A i \in batch[r.from] : <<i, i>> \in r.rows
    /\ \A q \in requests : q.from = r.from => q = r

MarkInv == \A p \in Passes : pc[p] = "mark" => \A i \in batch[p] : Stored(i)

DeliveredInv == \A i \in delivered : Stored(i)

\* A step of a process that has no post under way.
LEMMA AwaitFrame ==
  ASSUME TypeOK, AwaitInv, NEW p \in Passes, pc[p] # "waiting", UNCHANGED requests,
         \A q \in Passes : q # p => pc'[q] = pc[q] /\ batch'[q] = batch[q]
  PROVE  AwaitInv'
<1>1. \A r \in requests : r.from # Gone => r.from \in Passes /\ r.from # p
  BY DEF AwaitInv, TypeOK, Request
<1>. QED
  BY <1>1 DEF AwaitInv

\* A process that stops waiting leaves its post behind.
LEMMA AwaitOrphan ==
  ASSUME TypeOK, AwaitInv, NEW p \in Passes, requests' = Orphan({p}),
         \A q \in Passes : q # p => pc'[q] = pc[q] /\ batch'[q] = batch[q]
  PROVE  AwaitInv'
<1>1. ASSUME NEW r \in requests', r.from # Gone PROVE r \in requests /\ r.from \in Passes /\ r.from # p
  <2>1. PICK q \in requests : r = [q EXCEPT !.from = IF q.from \in {p} THEN Gone ELSE q.from]
    BY <1>1 DEF Orphan
  <2>2. q \in Request
    BY DEF TypeOK
  <2>3. q.from # p /\ r = q
    BY <1>1, <2>1, <2>2 DEF Request
  <2>. QED
    BY <1>1, <2>2, <2>3 DEF Request
<1>. QED
  BY <1>1 DEF AwaitInv

LEMMA AwaitAnswer ==
  ASSUME TypeOK, AwaitInv, NEW r \in requests, NEW ok, Answer(r, ok)
  PROVE  AwaitInv'
<1>. SUFFICES ASSUME NEW q \in requests', q.from # Gone
     PROVE  /\ pc'[q.from] = "waiting"
            /\ \A i \in batch'[q.from] : <<i, i>> \in q.rows
            /\ \A t \in requests' : t.from = q.from => t = q
  BY DEF AwaitInv
<1>1. q \in requests /\ q # r /\ requests' \subseteq requests /\ q.from \in Passes /\ q.from # r.from
  BY DEF Answer, AwaitInv, TypeOK, Request
<1>2. pc'[q.from] = pc[q.from] /\ batch'[q.from] = batch[q.from]
  BY <1>1 DEF Answer, Failed, TypeOK
<1>. QED
  BY <1>1, <1>2 DEF AwaitInv

LEMMA StepAwait == TypeOK /\ IdInv /\ AwaitInv /\ [Next]_vars => AwaitInv'
<1>. SUFFICES ASSUME TypeOK, IdInv, AwaitInv, [Next]_vars PROVE AwaitInv'
  OBVIOUS
<1>. USE DEF queue, server
<1>1. ASSUME NEW p \in Passes, AgentStep(p) PROVE AwaitInv'
  <2>1. CASE SelectBatch(p)
    <3>. DEFINE ids == Lowest(BatchLimit, Pending)
                new == [from |-> p, rows |-> {<<i, event[i]>> : i \in ids}]
    <3>1. \A i \in ids : <<i, i>> \in new.rows
      BY LowestSubset DEF IdInv, Pending, Rows
    <3>2. requests' = requests \cup {new} /\ pc'[p] = "waiting" /\ batch'[p] = ids
      BY <2>1 DEF SelectBatch, TypeOK
    <3>3. \A q \in Passes : q # p => pc'[q] = pc[q] /\ batch'[q] = batch[q]
      BY <2>1 DEF SelectBatch, TypeOK
    <3>4. \A r \in requests : r.from # Gone => r.from \in Passes /\ r.from # p
      BY <2>1 DEF SelectBatch, AwaitInv, TypeOK, Request
    <3>5. p # Gone
      BY OutboxAssumption DEF Gone
    <3>. QED
      <4>. HIDE DEF new
      <4>. SUFFICES ASSUME NEW r \in requests', r.from # Gone
           PROVE  /\ pc'[r.from] = "waiting"
                  /\ \A i \in batch'[r.from] : <<i, i>> \in r.rows
                  /\ \A q \in requests' : q.from = r.from => q = r
        BY DEF AwaitInv
      <4>1. new.from = p
        BY DEF new
      <4>2. CASE r = new
        BY <3>1, <3>2, <3>4, <3>5, <4>1, <4>2
      <4>3. CASE r \in requests
        BY <3>2, <3>3, <3>4, <4>1, <4>3 DEF AwaitInv
      <4>. QED
        BY <3>2, <4>2, <4>3
  <2>2. ASSUME ~SelectBatch(p)
        PROVE  /\ pc[p] # "waiting" /\ UNCHANGED requests
               /\ \A q \in Passes : q # p => pc'[q] = pc[q] /\ batch'[q] = batch[q]
    BY <1>1, <2>2 DEF AgentStep, PruneDelivered, CountRows, DropOldest, NothingPending, MarkDelivered, TypeOK
  <2>. QED
    BY <2>1, <2>2, AwaitFrame
<1>2. ASSUME NEW p \in Passes, Collect(p) PROVE AwaitInv'
  BY <1>2, AwaitFrame DEF Collect
<1>3. ASSUME NEW p \in Passes, GiveUp(p) \/ Kill(p) PROVE AwaitInv'
  <2>1. \A q \in Passes : q # p => pc'[q] = pc[q] /\ batch'[q] = batch[q]
    BY <1>3 DEF GiveUp, Kill, Failed, TypeOK
  <2>. QED
    BY <1>3, <2>1, AwaitOrphan DEF GiveUp, Kill
<1>4. ASSUME NEW r \in requests, Serve(r) \/ Lose(r) PROVE AwaitInv'
  BY <1>4, AwaitAnswer DEF Serve, Accept, Commit, Reject, Lose
<1>6. CASE UNCHANGED vars
  BY <1>6 DEF vars, AwaitInv
<1>. QED
  BY <1>1, <1>2, <1>3, <1>4, <1>6 DEF Next

\* An accepted request's rows are on the server afterwards.
LEMMA AcceptStores ==
  ASSUME TypeOK, IdInv, OwnerInv, NEW r \in requests, Accept(r), NEW i, <<i, i>> \in r.rows
  PROVE  Stored(i)'
<1>1. i \in Events
  BY DEF TypeOK, Request
<1>. QED
  BY <1>1, AcceptEvent DEF Stored

LEMMA StepMark ==
  TypeOK /\ IdInv /\ OwnerInv /\ AwaitInv /\ MarkInv /\ [Next]_vars => MarkInv'
<1>. SUFFICES ASSUME TypeOK, IdInv, OwnerInv, AwaitInv, MarkInv, [Next]_vars,
                     NEW p \in Passes, pc'[p] = "mark", NEW i \in batch'[p]
     PROVE  Stored(i)'
  BY DEF MarkInv
<1>. USE DEF queue, server
<1>0. i \in Events
  BY StepType DEF TypeOK, Ids, Events
<1>1. pc[p] = "mark" /\ batch'[p] = batch[p] => Stored(i)'
  BY <1>0, StoredStays DEF MarkInv
<1>2. ASSUME NEW r \in requests, Accept(r) PROVE Stored(i)'
  <2>1. CASE r.from = p
    <3>1. p # Gone
      BY OutboxAssumption DEF Gone
    <3>2. batch'[p] = batch[p] /\ \A j \in batch[p] : <<j, j>> \in r.rows
      BY <1>2, <2>1, <3>1 DEF Accept, Commit, Answer, AwaitInv
    <3>. QED
      BY <1>2, <3>2, AcceptStores
  <2>2. CASE r.from # p
    BY <1>1, <1>2, <2>2 DEF Accept, Commit, Answer, TypeOK
  <2>. QED
    BY <2>1, <2>2
<1>3. ASSUME NEW r \in requests, NEW ok, Answer(r, ok), ~ok PROVE Stored(i)'
  <2>1. r.from = p /\ r.from # Gone => pc'[p] # "mark"
    BY <1>3 DEF Answer, Failed, AfterFlush, TypeOK
  <2>2. r.from # p \/ r.from = Gone => pc'[p] = pc[p] /\ batch'[p] = batch[p]
    BY <1>3 DEF Answer, Failed, TypeOK
  <2>. QED
    BY <1>1, <2>1, <2>2
<1>4. ASSUME NEW q \in Passes, AgentStep(q) \/ Collect(q) \/ GiveUp(q) \/ Kill(q) PROVE Stored(i)'
  <2>1. pc'[q] # "mark" \/ (pc'[q] = pc[q] /\ batch'[q] = batch[q])
    BY <1>4 DEF AgentStep, PruneDelivered, CountRows, DropOldest, SelectBatch, NothingPending, MarkDelivered,
                Collect, GiveUp, Kill, Failed, AfterFlush, TypeOK
  <2>2. p # q => pc'[p] = pc[p] /\ batch'[p] = batch[p]
    BY <1>4 DEF AgentStep, PruneDelivered, CountRows, DropOldest, SelectBatch, NothingPending, MarkDelivered,
                Collect, GiveUp, Kill, Failed, TypeOK
  <2>. QED
    BY <1>1, <2>1, <2>2
<1>6. CASE UNCHANGED vars
  BY <1>1, <1>6 DEF vars
<1>. QED
  BY <1>2, <1>3, <1>4, <1>6 DEF Next, Serve, Reject, Lose

LEMMA StepDelivered ==
  TypeOK /\ IdInv /\ OwnerInv /\ MarkInv /\ DeliveredInv /\ [Next]_vars => DeliveredInv'
<1>. SUFFICES ASSUME TypeOK, IdInv, OwnerInv, MarkInv, DeliveredInv, [Next]_vars,
                     NEW i \in delivered'
     PROVE  Stored(i)'
  BY DEF DeliveredInv
<1>. USE DEF queue, server
<1>1. i \in Events
  BY StepType DEF TypeOK, Rows, Ids, Events
<1>2. Stored(i) => Stored(i)'
  BY <1>1, StoredStays
<1>3. ASSUME NEW p \in Passes, MarkDelivered(p) PROVE Stored(i)
  BY <1>3 DEF MarkDelivered, MarkInv, DeliveredInv
<1>4. ASSUME delivered' \subseteq delivered PROVE Stored(i)
  BY <1>4 DEF DeliveredInv
<1>5. ASSUME NEW p \in Passes, AgentStep(p) \/ Collect(p) \/ GiveUp(p) \/ Kill(p) PROVE Stored(i)
  BY <1>3, <1>4, <1>5 DEF AgentStep, PruneDelivered, CountRows, DropOldest, SelectBatch, NothingPending,
                          Collect, Insert, GiveUp, Kill, Delete
<1>6. CASE UNCHANGED vars \/ \E r \in requests : Serve(r) \/ Lose(r)
  BY <1>2, <1>4, <1>6 DEF vars, Serve, Accept, Commit, Reject, Lose
<1>. QED
  BY <1>2, <1>5, <1>6 DEF Next

LEMMA StepBatch ==
  TypeOK /\ IdInv /\ OwnerInv /\ BatchInv /\ [Next]_vars => BatchInv'
BY StepAwait, StepMark, StepDelivered DEF BatchInv, AwaitInv, MarkInv, DeliveredInv

-----------------------------------------------------------------------------
(* NothingLost *)

LEMMA StepNothingLost ==
  TypeOK /\ IdInv /\ OwnerInv /\ BatchInv /\ NothingLost /\ [Next]_vars => NothingLost'
<1>. SUFFICES ASSUME TypeOK, IdInv, OwnerInv, BatchInv, NothingLost, [Next]_vars,
                     NEW e \in 1 .. collected'
     PROVE  Stored(e)' \/ Queued(e)' \/ e \in dropped'
  BY DEF NothingLost
<1>. USE DEF queue, server
<1>1. e \in Events
  BY StepType, OutboxAssumption DEF TypeOK, Events
<1>2. Stored(e) => Stored(e)'
  BY <1>1, StoredStays
<1>3. Queued(e) => e \in Pending /\ event[e] = e
  BY DEF Queued, Pending, Rows, IdInv
<1>4. ASSUME e <= collected, dropped \subseteq dropped',
             Queued(e) => Queued(e)' \/ Stored(e) \/ e \in dropped'
      PROVE  Stored(e)' \/ Queued(e)' \/ e \in dropped'
  BY <1>1, <1>2, <1>4, OutboxAssumption DEF NothingLost, TypeOK, Events
<1>5. ASSUME UNCHANGED <<event, delivered>> PROVE Queued(e) => Queued(e)'
  BY <1>5 DEF Queued, Pending, Rows
<1>6. ASSUME NEW S, Delete(S) PROVE Queued(e) => Queued(e)' \/ e \in S \cap Pending
  BY <1>3, <1>6 DEF Delete, Queued, Pending, Rows
<1>7. ASSUME NEW p \in Passes, AgentStep(p) PROVE Stored(e)' \/ Queued(e)' \/ e \in dropped'
  <2>0. e <= collected
    BY <1>7 DEF AgentStep, PruneDelivered, CountRows, DropOldest, SelectBatch, NothingPending, MarkDelivered
  <2>1. CASE PruneDelivered(p)
    <3>1. PICK k : Delete({i \in delivered : i <= k})
      BY <2>1 DEF PruneDelivered
    <3>2. Queued(e) => Queued(e)'
      BY <1>6, <3>1 DEF Pending
    <3>. QED
      BY <1>4, <2>0, <2>1, <3>2 DEF PruneDelivered
  <2>2. CASE DropOldest(p)
    <3>1. Queued(e) => Queued(e)' \/ e \in Lowest(excess[p], Rows) \cap Pending
      BY <1>6, <2>2 DEF DropOldest
    <3>2. e \in Lowest(excess[p], Rows) \cap Pending /\ Queued(e) => e \in dropped'
      BY <1>3, <2>2 DEF DropOldest, Pending
    <3>. QED
      BY <1>4, <2>0, <2>2, <3>1, <3>2 DEF DropOldest
  <2>3. CASE MarkDelivered(p)
    <3>1. Queued(e) => Queued(e)' \/ e \in batch[p]
      BY <1>3, <2>3 DEF MarkDelivered, Queued, Pending, Rows
    <3>2. e \in batch[p] => Stored(e)
      BY <2>3 DEF MarkDelivered, BatchInv
    <3>. QED
      BY <1>4, <2>0, <2>3, <3>1, <3>2 DEF MarkDelivered
  <2>4. CASE CountRows(p) \/ SelectBatch(p) \/ NothingPending(p)
    BY <1>4, <1>5, <2>0, <2>4 DEF CountRows, SelectBatch, NothingPending
  <2>. QED
    BY <1>7, <2>1, <2>2, <2>3, <2>4 DEF AgentStep
<1>8. ASSUME NEW p \in Passes, Collect(p) PROVE Stored(e)' \/ Queued(e)' \/ e \in dropped'
  <2>1. /\ collected \in Nat /\ collected' = collected + 1 /\ lastId = collected
        /\ UNCHANGED <<delivered, dropped>> /\ collected + 1 \in Ids
    BY <1>8, OutboxAssumption DEF Collect, Insert, TypeOK, IdInv, Ids
  <2>2. event' = [event EXCEPT ![collected + 1] = collected + 1]
    BY <1>8 DEF Collect, Insert, IdInv
  <2>3. event[collected + 1] = None
    BY <2>1 DEF IdInv
  <2>4. CASE e = collected + 1
    <3>1. e \notin delivered
      BY <2>3, <2>4 DEF TypeOK, Rows
    <3>2. event'[e] = e /\ e # None /\ e \in Ids
      BY <1>1, <2>1, <2>2, <2>4 DEF TypeOK, Events, None
    <3>. QED
      BY <2>1, <3>1, <3>2 DEF Queued, Pending, Rows
  <2>5. CASE e # collected + 1
    <3>1. Queued(e) => Queued(e)'
      BY <1>3, <2>1, <2>2, <2>5 DEF Queued, Pending, Rows, TypeOK
    <3>. QED
      BY <1>4, <2>1, <2>5, <3>1
  <2>. QED
    BY <2>4, <2>5
<1>9. ASSUME NEW p \in Passes, GiveUp(p) \/ Kill(p) PROVE Stored(e)' \/ Queued(e)' \/ e \in dropped'
  BY <1>4, <1>5, <1>9 DEF GiveUp, Kill
<1>10. ASSUME NEW r \in requests, Serve(r) \/ Lose(r) PROVE Stored(e)' \/ Queued(e)' \/ e \in dropped'
  <2>1. UNCHANGED <<event, delivered, collected, dropped>>
    BY <1>10 DEF Serve, Accept, Commit, Reject, Lose
  <2>. QED
    BY <1>4, <1>5, <2>1
<1>12. CASE UNCHANGED vars
  BY <1>4, <1>5, <1>12 DEF vars
<1>. QED
  BY <1>7, <1>8, <1>9, <1>10, <1>12 DEF Next

-----------------------------------------------------------------------------
\* The strengthened invariant.
THEOREM Invariance == Spec => []IInv
<1>1. IInv /\ [Next]_vars => IInv'
  BY StepType, StepIds, StepOwner, StepBatch, StepNothingLost DEF IInv
<1>. QED
  BY InitInv, <1>1, PTL DEF Spec

\* No event disappears between the outbox and the server: whatever is lost,
\* repeated or interleaved, it is queued, recorded or dropped by the size cap.
THEOREM NoEventIsLost == Spec => []NothingLost
<1>1. IInv => NothingLost
  BY DEF IInv
<1>. QED
  BY Invariance, <1>1, PTL

\* A retried batch is not double-counted: client_msg_id with ON CONFLICT DO
\* NOTHING records each event at most once.
THEOREM EventsAreStoredOnce == Spec => []StoredOnce
<1>1. IInv => StoredOnce
  BY DEF IInv, OwnerInv, StoredOnce
<1>. QED
  BY Invariance, <1>1, PTL

\* A message id always names the same event.
THEOREM IdsAreUnique == Spec => []MessageIdsUnique
<1>1. IInv => MessageIdsUnique
  BY DEF IInv, IdInv, OwnerInv, MessageIdsUnique, TypeOK, Request
<1>. QED
  BY Invariance, <1>1, PTL
-----------------------------------------------------------------------------
(* The outbox and /ingest implement EventFeed *)

Recorded == {e \in Events : Stored(e)}
Waiting  == {event[i] : i \in Pending}
Batch(r) == {x[2] : x \in r.rows}
Sent     == {{x[2] : x \in r.rows} : r \in requests}

\* A post that goes on without its sender carries the same batch.
LEMMA SentOrphan ==
  ASSUME TypeOK, NEW P, requests' = Orphan(P)
  PROVE  Sent' = Sent
<1>1. \A r \in requests : [r EXCEPT !.from = IF r.from \in P THEN Gone ELSE r.from].rows = r.rows
  BY DEF TypeOK, Request
<1>2. \A q \in requests' : \E r \in requests : q.rows = r.rows
  BY <1>1 DEF Orphan
<1>3. \A r \in requests : \E q \in requests' : q.rows = r.rows
  BY <1>1 DEF Orphan
<1>. QED
  BY <1>2, <1>3 DEF Sent

\* An answered request takes its batch off the way, unless it was sent twice.
LEMMA SentAnswer ==
  ASSUME NEW r \in requests, requests' = requests \ {r}
  PROVE  Batch(r) \in Sent /\ Sent' \in {Sent, Sent \ {Batch(r)}}
<1>1. CASE \E q \in requests \ {r} : Batch(q) = Batch(r)
  BY <1>1 DEF Sent, Batch
<1>2. CASE \A q \in requests \ {r} : Batch(q) # Batch(r)
  BY <1>2 DEF Sent, Batch
<1>. QED
  BY <1>1, <1>2

\* The batch of a post is the events of its rows.
LEMMA BatchOf ==
  ASSUME NEW p, NEW L
  PROVE  Batch([from |-> p, rows |-> {<<i, event[i]>> : i \in L}]) = {event[i] : i \in L}
<1>. DEFINE R == {<<i, event[i]>> : i \in L}
<1>1. Batch([from |-> p, rows |-> R]) = {x[2] : x \in R}
  BY DEF Batch
<1>2. ASSUME NEW x \in R PROVE x[2] \in {event[i] : i \in L}
  <2>1. PICK i \in L : x = <<i, event[i]>>
    BY <1>2
  <2>. QED
    BY <2>1
<1>3. ASSUME NEW i \in L PROVE event[i] \in {x[2] : x \in R}
  <2>1. <<i, event[i]>> \in R
    OBVIOUS
  <2>2. <<i, event[i]>>[2] = event[i]
    OBVIOUS
  <2>. HIDE DEF R
  <2>. QED
    BY <2>1, <2>2
<1>4. {x[2] : x \in R} = {event[i] : i \in L}
  <2>. HIDE DEF R
  <2>. QED
    BY <1>2, <1>3
<1>. QED
  BY <1>1, <1>4

LEMMA SentFrame ==
  ASSUME UNCHANGED requests
  PROVE  Sent' = Sent
BY DEF Sent

\* Row i holds event i, so what waits is the set of pending ids.
LEMMA WaitingIsPending == IdInv => Waiting = Pending
BY DEF IdInv, Waiting, Pending, Rows

\* The size cap takes a prefix of the rows.
LEMMA LowestIsOldest ==
  ASSUME NEW n \in Nat, NEW S \in SUBSET Ids, IsFiniteSet(S),
         NEW e \in Lowest(n, S), NEW f \in S \ Lowest(n, S)
  PROVE  e < f
<1>0. e \in Int /\ f \in Int /\ \A j \in S : j \in Int
  <2>1. \A j \in Ids : j \in Int
    BY OutboxAssumption DEF Ids
  <2>. QED
    BY <2>1 DEF Lowest
<1>. SUFFICES ASSUME f <= e PROVE FALSE
  BY <1>0
<1>1. {j \in S : j < f} \subseteq {j \in S : j < e}
  <2>1. ASSUME NEW j \in S, j < f PROVE j < e
    BY <1>0, <2>1
  <2>. QED
    BY <2>1
<1>2. IsFiniteSet({j \in S : j < e})
  BY FS_Subset
<1>3. IsFiniteSet({j \in S : j < f})
  BY FS_Subset
<1>4. Cardinality({j \in S : j < f}) <= Cardinality({j \in S : j < e})
  BY <1>1, <1>2, FS_Subset
<1>5. Cardinality({j \in S : j < f}) \in Nat /\ Cardinality({j \in S : j < e}) \in Nat
  BY <1>2, <1>3, FS_CardinalityType
<1>. QED
  BY <1>4, <1>5 DEF Lowest

\* Deleting rows forgets the pending ones among them.
LEMMA DeleteForgets ==
  ASSUME TypeOK, IdInv, IdInv', NEW S, Delete(S)
  PROVE  Waiting' = Waiting \ (S \cap Pending)
<1>1. Pending' = Pending \ S
  BY DEF Delete, Pending, Rows, None, TypeOK
<1>2. Waiting' = Pending'
  BY WaitingIsPending, IdInv' DEF IdInv, Waiting, Pending, Rows
<1>. QED
  BY <1>1, <1>2, WaitingIsPending

LEMMA WaitingFrame ==
  ASSUME UNCHANGED <<event, delivered>>
  PROVE  Waiting' = Waiting
BY DEF Waiting, Pending, Rows

LEMMA RecordedFrame ==
  ASSUME UNCHANGED copies
  PROVE  Recorded' = Recorded
BY DEF Recorded, Stored

\* Every step of the outbox or the server is one of the feed's or changes
\* nothing the feed speaks of.
LEMMA FeedStep ==
  IInv /\ IInv' /\ [Next]_vars => [Feed!Next]_<<collected, Recorded, Waiting, Sent>>
<1>. SUFFICES ASSUME IInv, IInv', [Next]_vars
     PROVE  \/ Feed!Collect \/ Feed!Send \/ Feed!Record \/ Feed!Lose \/ Feed!Forget
            \/ UNCHANGED <<collected, Recorded, Waiting, Sent>>
  BY DEF Feed!Next, Recorded, Waiting, Sent
<1>. USE DEF queue, server
<1>1. ASSUME NEW p \in Passes, PruneDelivered(p) PROVE UNCHANGED <<collected, Recorded, Waiting, Sent>>
  <2>1. PICK k : Delete({i \in delivered : i <= k})
    BY <1>1 DEF PruneDelivered
  <2>2. Waiting' = Waiting
    BY <2>1, DeleteForgets DEF IInv, Pending
  <2>. QED
    BY <1>1, <2>2, RecordedFrame, SentFrame DEF PruneDelivered
<1>2. ASSUME NEW p \in Passes, DropOldest(p) PROVE Feed!Forget
  <2>. DEFINE L == Lowest(excess[p], Rows)
              B == L \cap Pending
  <2>1. Waiting' = Waiting \ B
    BY <1>2, DeleteForgets DEF IInv, DropOldest
  <2>2. B \in SUBSET Waiting
    BY WaitingIsPending DEF IInv
  <2>3. ASSUME NEW e \in B, NEW f \in Waiting \ B PROVE e < f
    <3>1. f \in Rows \ L
      BY WaitingIsPending DEF IInv, Pending
    <3>2. excess[p] \in Nat /\ Rows \in SUBSET Ids
      BY DEF IInv, TypeOK, Rows
    <3>. QED
      BY <3>1, <3>2, RowsFinite, LowestIsOldest
  <2>4. UNCHANGED <<collected, Recorded, Sent>>
    BY <1>2, RecordedFrame, SentFrame DEF DropOldest
  <2>. QED
    BY <2>1, <2>2, <2>3, <2>4 DEF Feed!Forget, Feed!Oldest, Recorded, Waiting, Sent
<1>3. ASSUME NEW p \in Passes, MarkDelivered(p) PROVE Feed!Forget
  <2>. DEFINE B == batch[p] \cap Pending
  <2>1. Pending' = Pending \ B
    BY <1>3 DEF MarkDelivered, Pending, Rows
  <2>2. Waiting' = Waiting \ B
    BY <1>3, <2>1, WaitingIsPending DEF IInv, MarkDelivered, IdInv, Waiting, Pending, Rows
  <2>3. B \in SUBSET Waiting
    BY WaitingIsPending DEF IInv
  <2>4. B \subseteq Recorded
    BY <1>3 DEF IInv, BatchInv, MarkDelivered, Recorded, TypeOK, Ids, Events
  <2>5. UNCHANGED <<collected, Recorded, Sent>>
    BY <1>3, RecordedFrame, SentFrame DEF MarkDelivered
  <2>. QED
    BY <2>2, <2>3, <2>4, <2>5 DEF Feed!Forget, Feed!Oldest, Recorded, Waiting, Sent
<1>4. ASSUME NEW p \in Passes, Collect(p) PROVE Feed!Collect
  <2>1. collected + 1 \in Ids /\ lastId = collected /\ collected \in Nat
    BY <1>4, OutboxAssumption DEF IInv, TypeOK, IdInv, Collect, Ids
  <2>2. event' = [event EXCEPT ![collected + 1] = collected + 1] /\ delivered' = delivered
    BY <1>4, <2>1 DEF Collect, Insert
  <2>3. collected + 1 \notin Rows
    BY <2>1 DEF IInv, IdInv, Rows
  <2>4. Rows' = Rows \cup {collected + 1}
    BY <2>1, <2>2 DEF IInv, TypeOK, Rows, None
  <2>5. Pending' = Pending \cup {collected + 1}
    BY <2>2, <2>3, <2>4 DEF IInv, TypeOK, Pending
  <2>6. Waiting' = Pending'
    BY DEF IInv, IdInv, Waiting, Pending, Rows
  <2>7. Waiting' = Waiting \cup {collected + 1}
    BY <2>5, <2>6, WaitingIsPending DEF IInv
  <2>8. Recorded' = Recorded /\ Sent' = Sent
    BY <1>4, RecordedFrame, SentFrame DEF Collect
  <2>. QED
    BY <1>4, <2>7, <2>8 DEF Collect, Feed!Collect, Recorded, Waiting, Sent
<1>5. ASSUME NEW r \in requests, Accept(r) PROVE Feed!Record
  <2>. DEFINE B == {e \in Events : <<e, e>> \in r.rows}
  <2>1. \A x \in r.rows : x = <<x[1], x[1]>> /\ x[1] \in Events /\ x[1] \in 1 .. collected
    BY OutboxAssumption DEF IInv, TypeOK, Request, IdInv, Ids, Events
  <2>2. B \in SUBSET (1 .. collected)
    BY <2>1
  <2>3. B \cap Poison = {}
    BY <1>5 DEF Accept, Commit
  <2>4. ASSUME NEW e \in Events PROVE Stored(e)' <=> Stored(e) \/ e \in B
    <3>1. CASE <<e, e>> \in r.rows
      BY <1>5, <3>1, AcceptEvent DEF IInv, Stored
    <3>2. CASE <<e, e>> \notin r.rows
      BY <1>5, <3>2, AcceptEvent DEF IInv, Stored
    <3>. QED
      BY <3>1, <3>2
  <2>5. Recorded' = Recorded \cup B
    BY <2>4 DEF Recorded
  <2>6. UNCHANGED <<collected, Waiting>>
    BY <1>5, WaitingFrame DEF Accept, Commit
  <2>7. B = Batch(r)
    BY <2>1 DEF Batch
  <2>8. B \in Sent /\ Sent' \in {Sent, Sent \ {B}}
    BY <1>5, <2>7, SentAnswer DEF Accept, Commit, Answer
  <2>. QED
    BY <2>3, <2>5, <2>6, <2>8 DEF Feed!Record, Recorded, Waiting, Sent
<1>6. ASSUME NEW p \in Passes, SelectBatch(p) PROVE Feed!Send
  <2>. DEFINE L == Lowest(BatchLimit, Pending)
              q == [from |-> p, rows |-> {<<i, event[i]>> : i \in L}]
  <2>1. requests' = requests \cup {q}
    BY <1>6 DEF SelectBatch
  <2>2. \A i \in L : event[i] = i
    BY LowestSubset DEF IInv, IdInv, Pending, Rows
  <2>3. Batch(q) = L
    <3>1. Batch(q) = {event[i] : i \in L}
      BY BatchOf
    <3>2. {event[i] : i \in L} = L
      <4>. HIDE DEF L
      <4>. QED
        BY <2>2
    <3>. QED
      BY <3>1, <3>2
  <2>4. Sent' = Sent \cup {L}
    <3>1. Sent' = {Batch(r) : r \in requests'} /\ Sent = {Batch(r) : r \in requests}
      BY DEF Sent, Batch
    <3>. HIDE DEF q
    <3>. QED
      BY <2>1, <2>3, <3>1
  <2>5. L \in SUBSET Waiting
    BY WaitingIsPending, LowestSubset DEF IInv
  <2>6. ASSUME NEW e \in L, NEW f \in Waiting \ L PROVE e < f
    <3>1. f \in Pending \ L
      BY WaitingIsPending DEF IInv
    <3>2. BatchLimit \in Nat /\ Pending \in SUBSET Ids /\ IsFiniteSet(Pending)
      BY OutboxAssumption, RowsFinite, FS_Subset DEF Pending, Rows
    <3>. QED
      BY <3>1, <3>2, LowestIsOldest
  <2>7. UNCHANGED <<collected, Recorded, Waiting>>
    BY <1>6, WaitingFrame, RecordedFrame DEF SelectBatch
  <2>. HIDE DEF L
  <2>. QED
    BY <2>4, <2>5, <2>6, <2>7 DEF Feed!Send, Feed!Oldest, Recorded, Waiting, Sent
<1>7. ASSUME NEW p \in Passes, CountRows(p) \/ NothingPending(p)
      PROVE  UNCHANGED <<collected, Recorded, Waiting, Sent>>
  BY <1>7, WaitingFrame, RecordedFrame, SentFrame DEF CountRows, NothingPending
<1>8. ASSUME NEW p \in Passes, GiveUp(p) \/ Kill(p)
      PROVE  UNCHANGED <<collected, Recorded, Waiting, Sent>>
  BY <1>8, WaitingFrame, RecordedFrame, SentOrphan DEF IInv, GiveUp, Kill
<1>9. ASSUME NEW r \in requests, Reject(r) \/ Lose(r)
      PROVE  Feed!Lose \/ UNCHANGED <<collected, Recorded, Waiting, Sent>>
  <2>1. UNCHANGED <<collected, Recorded, Waiting>>
    BY <1>9, WaitingFrame, RecordedFrame DEF Reject, Lose
  <2>2. Batch(r) \in Sent /\ Sent' \in {Sent, Sent \ {Batch(r)}}
    BY <1>9, SentAnswer DEF Reject, Lose, Answer
  <2>. QED
    BY <2>1, <2>2 DEF Feed!Lose, Recorded, Waiting, Sent
<1>10. CASE UNCHANGED vars
  BY <1>10, WaitingFrame, RecordedFrame, SentFrame DEF vars
<1>. QED
  BY <1>1, <1>2, <1>3, <1>4, <1>5, <1>6, <1>7, <1>8, <1>9, <1>10 DEF Next, AgentStep, Serve

\* The outbox and /ingest together implement EventFeed: what waits is sent
\* oldest first, the server records the whole of a batch that was sent or
\* nothing of it, a refused event never, and an event that the server does not
\* have leaves the outbox only in the cap's order, oldest first.
THEOREM OutboxImplementsFeed == Spec => FeedSpec
<1>1. Init => Feed!Init
  BY DEF Init, Feed!Init, Stored, Pending, Rows, None
<1>2. IInv /\ IInv' /\ [Next]_vars
        => [Feed!Next]_<<collected, {e \in Events : Stored(e)}, {event[i] : i \in Pending},
                              {{x[2] : x \in r.rows} : r \in requests}>>
  BY FeedStep DEF Recorded, Waiting, Sent
<1>. QED
  BY <1>1, <1>2, Invariance, PTL DEF Spec, FeedSpec, Feed!Spec

-----------------------------------------------------------------------------
(* The pacing of failed flushes *)

\* Induction over Nat for a set: were n missing from S, so would be n - 1, and so
\* on down, and subtracting one would send the missing ones up to n into
\* themselves without n, which no injection of a finite set does.
LEMMA Induction ==
  ASSUME NEW S, 0 \in S, \A n \in Nat : n \in S => n + 1 \in S
  PROVE  Nat \subseteq S
<1>. SUFFICES ASSUME NEW n \in Nat, n \notin S PROVE FALSE
  OBVIOUS
<1>. DEFINE A == (0 .. n) \ S
            B == A \ {n}
            f == [x \in A |-> x - 1]
<1>1. A \subseteq Nat /\ n \in A /\ 0 \notin A
  OBVIOUS
<1>2. IsFiniteSet(A) /\ Cardinality(A) \in Nat
  <2>1. IsFiniteSet(0 .. n)
    BY FS_Interval
  <2>2. A \in SUBSET (0 .. n)
    OBVIOUS
  <2>. QED
    BY <2>1, <2>2, FS_Subset, FS_CardinalityType
<1>3. IsFiniteSet(B) /\ Cardinality(B) < Cardinality(A)
  <2>1. IsFiniteSet(B) /\ Cardinality(B) = IF n \in A THEN Cardinality(A) - 1 ELSE Cardinality(A)
    BY <1>2, FS_RemoveElement
  <2>. QED
    BY <2>1, <1>1, <1>2
<1>4. ASSUME NEW x \in A PROVE x - 1 \in B
  <2>1. x \in Nat /\ x # 0 /\ x <= n /\ x \notin S
    OBVIOUS
  <2>2. x - 1 \in Nat /\ x - 1 < n /\ (x - 1) + 1 = x
    BY <2>1
  <2>3. x - 1 \notin S
    BY <2>1, <2>2
  <2>. QED
    BY <2>2, <2>3
<1>5. f \in [A -> B]
  BY <1>4
<1>6. PICK x \in A, y \in A : x # y /\ f[x] = f[y]
  <2>. HIDE DEF A, B, f
  <2>. QED
    BY <1>2, <1>3, <1>5, FS_PigeonHole
<1>. QED
  BY <1>6, <1>1

\* The tables of the powers of two up to n.
Powers(n) == {g \in [0 .. n -> Nat] :
                g[0] = 1 /\ \A m \in 0 .. n : m > 0 => g[m] = 2 * g[m - 1]}

LEMMA PowersThere == \A n \in Nat : Powers(n) # {}
<1>. DEFINE S == {n \in Nat : Powers(n) # {}}
<1>1. 0 \in S
  <2>. DEFINE g == [m \in 0 .. 0 |-> 1]
  <2>1. g \in Powers(0)
    BY DEF Powers
  <2>. QED
    BY <2>1
<1>2. ASSUME NEW n \in Nat, n \in S PROVE n + 1 \in S
  <2>1. PICK g : g \in Powers(n)
    BY <1>2
  <2>. DEFINE h == [m \in 0 .. n + 1 |-> IF m = n + 1 THEN 2 * g[n] ELSE g[m]]
  <2>2. g \in [0 .. n -> Nat] /\ g[0] = 1 /\ \A m \in 0 .. n : m > 0 => g[m] = 2 * g[m - 1]
    BY <2>1 DEF Powers
  <2>3. h \in [0 .. n + 1 -> Nat]
    BY <2>2
  <2>4. h[0] = 1
    BY <2>2
  <2>5. ASSUME NEW m \in 0 .. n + 1, m > 0 PROVE h[m] = 2 * h[m - 1]
    <3>1. m - 1 \in 0 .. n /\ m - 1 # n + 1 /\ h[m - 1] = g[m - 1]
      BY <2>5
    <3>2. CASE m = n + 1
      BY <3>1, <3>2
    <3>3. CASE m # n + 1
      <4>1. m \in 0 .. n
        BY <3>3
      <4>. QED
        BY <4>1, <3>1, <3>3, <2>2, <2>5
    <3>. QED
      BY <3>2, <3>3
  <2>6. h \in Powers(n + 1)
    <3>. HIDE DEF h
    <3>. QED
      BY <2>3, <2>4, <2>5 DEF Powers
  <2>. QED
    BY <2>6
<1>3. Nat \subseteq S
  <2>. HIDE DEF S
  <2>. QED
    BY <1>1, <1>2, Induction
<1>. QED
  BY <1>3

LEMMA PowersAgree ==
  ASSUME NEW k \in Nat, NEW n \in Nat, NEW g \in Powers(k), NEW h \in Powers(n)
  PROVE  \A m \in Nat : m <= k /\ m <= n => g[m] = h[m]
<1>. DEFINE S == {m \in Nat : m <= k /\ m <= n => g[m] = h[m]}
<1>1. 0 \in S
  BY DEF Powers
<1>2. ASSUME NEW m \in Nat, m \in S PROVE m + 1 \in S
  <2>. SUFFICES ASSUME m + 1 <= k, m + 1 <= n PROVE g[m + 1] = h[m + 1]
    OBVIOUS
  <2>1. g[m] = h[m]
    BY <1>2
  <2>2. m + 1 \in 0 .. k /\ m + 1 \in 0 .. n /\ m + 1 > 0 /\ (m + 1) - 1 = m
    OBVIOUS
  <2>. QED
    BY <2>1, <2>2 DEF Powers
<1>3. Nat \subseteq S
  <2>. HIDE DEF S
  <2>. QED
    BY <1>1, <1>2, Induction
<1>. QED
  BY <1>3

\* Power2 satisfies its own equation: some function does, read off the tables.
LEMMA Power2Rec == Power2 = [n \in Nat |-> IF n = 0 THEN 1 ELSE 2 * Power2[n - 1]]
<1>. DEFINE ap == [n \in Nat |-> CHOOSE g : g \in Powers(n)]
            p == [n \in Nat |-> ap[n][n]]
<1>1. \A n \in Nat : ap[n] \in Powers(n)
  BY PowersThere
<1>2. p[0] = 1
  BY <1>1 DEF Powers
<1>3. ASSUME NEW n \in Nat, n # 0 PROVE p[n] = 2 * p[n - 1]
  <2>1. n - 1 \in Nat /\ n \in 0 .. n /\ n > 0
    BY <1>3
  <2>2. ap[n][n - 1] = ap[n - 1][n - 1]
    <3>. HIDE DEF ap
    <3>. QED
      BY <1>1, <2>1, PowersAgree
  <2>3. ap[n][n] = 2 * ap[n][n - 1]
    <3>. HIDE DEF ap
    <3>. QED
      BY <1>1, <2>1 DEF Powers
  <2>. QED
    BY <2>1, <2>2, <2>3
<1>4. p = [n \in Nat |-> IF n = 0 THEN 1 ELSE 2 * p[n - 1]]
  <2>. HIDE DEF ap
  <2>1. \A n \in Nat : p[n] = IF n = 0 THEN 1 ELSE 2 * p[n - 1]
    BY <1>2, <1>3
  <2>. QED
    BY <2>1
<1>5. \E q : q = [n \in Nat |-> IF n = 0 THEN 1 ELSE 2 * q[n - 1]]
  <2>. HIDE DEF p
  <2>. QED
    BY <1>4
<1>. QED
  BY <1>5 DEF Power2

LEMMA Power2Step ==
  /\ Power2[0] = 1
  /\ \A n \in Nat : Power2[n + 1] = 2 * Power2[n]
<1>1. ASSUME NEW n \in Nat PROVE Power2[n] = IF n = 0 THEN 1 ELSE 2 * Power2[n - 1]
  BY Power2Rec
<1>2. \A n \in Nat : n + 1 \in Nat /\ n + 1 # 0 /\ (n + 1) - 1 = n
  OBVIOUS
<1>. QED
  BY <1>1, <1>2

LEMMA Power2Type == \A n \in Nat : Power2[n] \in Nat \ {0}
<1>. DEFINE S == {n \in Nat : Power2[n] \in Nat \ {0}}
<1>1. 0 \in S
  BY Power2Step
<1>2. ASSUME NEW n \in Nat, n \in S PROVE n + 1 \in S
  BY <1>2, Power2Step
<1>3. Nat \subseteq S
  <2>. HIDE DEF S
  <2>. QED
    BY <1>1, <1>2, Induction
<1>. QED
  BY <1>3

\* The wait was computed from the failures so far.
PacingInv ==
  /\ failures \in Nat
  /\ failures > 0 => \E k \in Jitters : wait = NextWait(failures, k)

\* Banker's rounding is off by at most half.
LEMMA RoundBounds ==
  ASSUME NEW n \in Nat
  PROVE  /\ Round1000(n) \in Nat
         /\ n - 500 <= 1000 * Round1000(n)
         /\ 1000 * Round1000(n) <= n + 500
<1>. DEFINE q == n \div 1000
            r == n % 1000
<1>1. q \in Nat /\ r \in 0 .. 999 /\ n = 1000 * q + r
  OBVIOUS
<1>2. CASE r > 500 \/ (r = 500 /\ q % 2 = 1)
  <2>1. Round1000(n) = q + 1
    BY <1>2 DEF Round1000
  <2>2. r >= 500
    BY <1>1, <1>2
  <2>. HIDE DEF q, r
  <2>. QED
    BY <2>1, <2>2, <1>1
<1>3. CASE ~ (r > 500 \/ (r = 500 /\ q % 2 = 1))
  <2>1. Round1000(n) = q
    BY <1>3 DEF Round1000
  <2>2. r <= 500
    BY <1>1, <1>3
  <2>. HIDE DEF q, r
  <2>. QED
    BY <2>1, <2>2, <1>1
<1>. QED
  BY <1>2, <1>3

\* From the base to the cap, for any number of failures.
LEMMA ExponentialBounds ==
  ASSUME NEW n \in Nat, n > 0
  PROVE  Exponential(n) \in 30 .. 900
<1>1. n - 1 \in Nat
  OBVIOUS
<1>2. PICK p \in Nat : p = Power2[n - 1] /\ p # 0
  BY <1>1, Power2Type
<1>. QED
  BY <1>2 DEF Exponential, Least, Base, Cap

\* The wait w was drawn around the exponential e, or the cap has cut it.
Drawn(w, e) ==
  /\ w \in 0 .. 900 /\ e \in 30 .. 900
  /\ 700 * e - 500 <= 1000 * w
  /\ 1000 * w <= 1294 * e + 500

LEMMA NextWaitDrawn ==
  ASSUME NEW n \in Nat, n > 0, NEW k \in 0 .. 99
  PROVE  Drawn(NextWait(n, k), Exponential(n))
<1>1. PICK e \in 30 .. 900 : e = Exponential(n)
  BY ExponentialBounds
<1>2. PICK j \in 700 .. 1294 : j = 700 + 6 * k
  OBVIOUS
<1>3. e * j \in Nat /\ 700 * e <= e * j /\ e * j <= 1294 * e
  OBVIOUS
<1>4. PICK m \in Nat : m = e * j /\ 700 * e <= m /\ m <= 1294 * e
  BY <1>3
<1>5. PICK r \in Nat : /\ r = Round1000(m)
                       /\ m - 500 <= 1000 * r
                       /\ 1000 * r <= m + 500
  BY RoundBounds
<1>6. NextWait(n, k) = IF r <= 900 THEN r ELSE 900
  BY <1>1, <1>2, <1>4, <1>5 DEF NextWait, Least, Cap
<1>7. 700 * e - 500 <= 1000 * r /\ 1000 * r <= 1294 * e + 500
  BY <1>4, <1>5
<1>8. CASE r <= 900
  <2>1. Drawn(r, e)
    BY <1>7, <1>8 DEF Drawn
  <2>. QED
    BY <2>1, <1>1, <1>6, <1>8
<1>9. CASE ~ (r <= 900)
  <2>1. Drawn(900, e)
    BY <1>7, <1>9 DEF Drawn
  <2>. QED
    BY <2>1, <1>1, <1>6, <1>9
<1>. QED
  BY <1>8, <1>9

LEMMA FirstPowers ==
  /\ Exponential(1) = 30
  /\ Exponential(2) = 60
  /\ Exponential(3) = 120
  /\ Exponential(4) = 240
  /\ Exponential(5) = 480
  /\ Exponential(6) = 900
<1>1. /\ Power2[0] = 1
      /\ Power2[1] = 2
      /\ Power2[2] = 4
      /\ Power2[3] = 8
      /\ Power2[4] = 16
      /\ Power2[5] = 32
  <2>1. \A n \in Nat, v \in Nat : Power2[n] = v => Power2[n + 1] = 2 * v
    BY Power2Step
  <2>2. Power2[0] = 1
    BY Power2Step
  <2>3. Power2[0 + 1] = 2 * 1
    BY <2>1, <2>2
  <2>4. Power2[1 + 1] = 2 * 2
    BY <2>1, <2>3
  <2>5. Power2[2 + 1] = 2 * 4
    BY <2>1, <2>4
  <2>6. Power2[3 + 1] = 2 * 8
    BY <2>1, <2>5
  <2>7. Power2[4 + 1] = 2 * 16
    BY <2>1, <2>6
  <2>. QED
    BY <2>2, <2>3, <2>4, <2>5, <2>6, <2>7
<1>. QED
  BY <1>1 DEF Exponential, Least, Base, Cap

LEMMA PacingStep == PacingInv /\ [PacingNext]_pacing => PacingInv'
<1>. SUFFICES ASSUME PacingInv, [PacingNext]_pacing PROVE PacingInv'
  OBVIOUS
<1>1. CASE FlushSucceeds
  BY <1>1 DEF PacingInv, FlushSucceeds
<1>2. ASSUME NEW k \in Jitters, FlushFails(k) PROVE PacingInv'
  <2>1. failures' = failures + 1 /\ wait' = NextWait(failures', k)
    BY <1>2 DEF FlushFails
  <2>. QED
    BY <2>1 DEF PacingInv
<1>3. CASE UNCHANGED pacing
  BY <1>3 DEF PacingInv, pacing
<1>. QED
  BY <1>1, <1>2, <1>3 DEF PacingNext

LEMMA PacingInvariant == PacingSpec => []PacingInv
<1>1. PacingInit => PacingInv
  BY DEF PacingInit, PacingInv
<1>. QED
  BY <1>1, PacingStep, PTL DEF PacingSpec

\* The wait of Get-NextBackoffSleepSeconds never exceeds the cap and never falls
\* below the jitter of its exponential, however many flushes fail in a row.
THEOREM WaitsAreInRange == PacingSpec => []WaitInRange
<1>1. PacingInv => WaitInRange
  <2>. SUFFICES ASSUME PacingInv, failures > 0
                PROVE  /\ wait <= Cap
                       /\ 1000 * wait >= 700 * Exponential(failures) - 500
    BY DEF WaitInRange
  <2>1. PICK k \in 0 .. 99 : wait = NextWait(failures, k)
    BY BackoffAssumption DEF PacingInv
  <2>2. failures \in Nat
    BY DEF PacingInv
  <2>3. Drawn(wait, Exponential(failures))
    BY <2>1, <2>2, NextWaitDrawn
  <2>. QED
    BY <2>3 DEF Drawn, Cap
<1>. QED
  BY <1>1, PacingInvariant, PTL

\* Up to the cap each further failure in a row waits longer than the one before,
\* whatever two jitters Get-Random draws.
THEOREM WaitsGrowToTheCap == PacingSpec => GrowsToCap
<1>1. ASSUME PacingInv, [PacingNext]_pacing, failures' = failures + 1, failures \in 1 .. 5
      PROVE  wait' > wait
  <2>1. PICK k \in 0 .. 99 : wait = NextWait(failures, k)
    BY <1>1, BackoffAssumption DEF PacingInv
  <2>2. PICK i \in 0 .. 99 : wait' = NextWait(failures + 1, i)
    BY <1>1, BackoffAssumption DEF PacingNext, FlushSucceeds, FlushFails,
                pacing
  <2>3. PICK n \in 1 .. 5 : n = failures
    BY <1>1
  <2>4. PICK e : e = Exponential(n) /\ Drawn(wait, e)
    BY <2>1, <2>3, NextWaitDrawn
  <2>5. PICK f : f = Exponential(n + 1) /\ Drawn(wait', f)
    <3>1. n + 1 \in Nat /\ n + 1 > 0
      OBVIOUS
    <3>. QED
      BY <3>1, <2>2, <2>3, NextWaitDrawn
  <2>6. \/ e = 30 /\ f = 60
        \/ e = 60 /\ f = 120
        \/ e = 120 /\ f = 240
        \/ e = 240 /\ f = 480
        \/ e = 480 /\ f = 900
    <3>1. \/ n = 1 /\ n + 1 = 2
          \/ n = 2 /\ n + 1 = 3
          \/ n = 3 /\ n + 1 = 4
          \/ n = 4 /\ n + 1 = 5
          \/ n = 5 /\ n + 1 = 6
      OBVIOUS
    <3>. QED
      BY <3>1, <2>4, <2>5, FirstPowers
  <2>. QED
    BY <2>4, <2>5, <2>6 DEF Drawn
<1>2. PacingInv /\ [PacingNext]_pacing
        => [failures' = failures + 1 /\ failures \in 1 .. 5 => wait' > wait]_pacing
  BY <1>1
<1>. QED
  BY <1>2, PacingInvariant, PTL DEF PacingSpec, GrowsToCap
=============================================================================
