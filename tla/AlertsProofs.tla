---------------------------- MODULE AlertsProofs ----------------------------
(***************************************************************************)
(* Proofs about Alerts for any number of rules, agents, conditions,        *)
(* operators' actions, failed passes and restarts.                         *)
(***************************************************************************)
EXTENDS Alerts, SequenceTheorems, FiniteSetTheorems, TLAPS

AlertRows == [pair : Pairs, status : Status, told : Nat]

\* Two open alerts of one pair are the same.
Unique ==
  \A i, j \in DOMAIN alerts :
    /\ alerts[i].pair = alerts[j].pair
    /\ alerts[i].status = "open" /\ alerts[j].status = "open"
    => i = j

\* From the SELECT to the INSERT the pair has no open alert: operators only
\* take alerts out of that status.
LookedInv ==
  /\ pc \in {"look", "insert", "clear"} => pair \in Pairs
  /\ pc = "insert" => Open(pair) = {}

\* A failed pass does not come back to its alerts.
DisjointInv == opened \cap silenced = {}

IInv == TypeOK /\ Unique /\ LookedInv /\ DisjointInv /\ AnnouncedOnce

-----------------------------------------------------------------------------
(* The table of alerts *)

LEMMA AlertsType ==
  ASSUME TypeOK
  PROVE  /\ alerts \in Seq(AlertRows) /\ Len(alerts) \in Nat
         /\ DOMAIN alerts = 1 .. Len(alerts)
         /\ \A i \in DOMAIN alerts : alerts[i] \in AlertRows
<1>1. alerts \in Seq(AlertRows)
  BY DEF TypeOK, AlertRows
<1>. QED
  BY <1>1, LenProperties

\* What a step that rewrites rows in place leaves alone.
Rewritten(table) ==
  /\ table \in Seq(AlertRows) /\ DOMAIN table = DOMAIN alerts
  /\ \A i \in DOMAIN alerts :
       /\ table[i].pair = alerts[i].pair
       /\ table[i].status = "open" => alerts[i].status = "open"

LEMMA RewriteType ==
  ASSUME TypeOK, NEW f \in [DOMAIN alerts -> AlertRows]
  PROVE  f \in Seq(AlertRows)
<1>1. \E n \in Nat : DOMAIN alerts = 1 .. n
  BY AlertsType
<1>. QED
  BY <1>1

LEMMA SetStatusFacts ==
  ASSUME TypeOK, NEW S, NEW status \in Status \ {"open"}, SetStatus(S, status)
  PROVE  Rewritten(alerts') /\ \A i \in DOMAIN alerts : alerts'[i].told = alerts[i].told
<1>1. ASSUME NEW i \in DOMAIN alerts
      PROVE  [alerts[i] EXCEPT !.status = status]
               = [pair |-> alerts[i].pair, status |-> status, told |-> alerts[i].told]
  BY AlertsType, <1>1 DEF AlertRows
<1>2. alerts' \in [DOMAIN alerts -> AlertRows]
  BY <1>1, AlertsType DEF SetStatus, AlertRows
<1>3. alerts' \in Seq(AlertRows)
  BY <1>2, RewriteType
<1>. QED
  BY <1>1, <1>2, <1>3 DEF SetStatus, Rewritten

LEMMA DigestFacts ==
  ASSUME TypeOK, Digest
  PROVE  /\ Rewritten(alerts')
         /\ \A i \in DOMAIN alerts :
              alerts'[i].told = IF i \in opened THEN alerts[i].told + 1 ELSE alerts[i].told
<1>1. ASSUME NEW i \in DOMAIN alerts
      PROVE  [alerts[i] EXCEPT !.told = @ + 1]
               = [pair |-> alerts[i].pair, status |-> alerts[i].status, told |-> alerts[i].told + 1]
  BY AlertsType, <1>1 DEF AlertRows
<1>2. alerts' \in [DOMAIN alerts -> AlertRows]
  BY <1>1, AlertsType DEF Digest, AlertRows
<1>3. alerts' \in Seq(AlertRows)
  BY <1>2, RewriteType
<1>. QED
  BY <1>1, <1>2, <1>3 DEF Digest, Rewritten

LEMMA InsertFacts ==
  ASSUME TypeOK, Insert, pair \in Pairs
  PROVE  LET n == Len(alerts) + 1
         IN  /\ alerts' \in Seq(AlertRows) /\ DOMAIN alerts' = DOMAIN alerts \cup {n}
             /\ n \notin DOMAIN alerts
             /\ \A i \in DOMAIN alerts : alerts'[i] = alerts[i]
             /\ alerts'[n] = [pair |-> pair, status |-> "open", told |-> 0]
<1>1. [pair |-> pair, status |-> "open", told |-> 0] \in AlertRows
  BY DEF AlertRows, Status, Live
<1>. QED
  BY <1>1, AlertsType DEF Insert

-----------------------------------------------------------------------------
(* TypeOK *)

LEMMA InitInv == Init => IInv
<1>. SUFFICES ASSUME Init PROVE IInv
  OBVIOUS
<1>1. TypeOK
  BY AlertsAssumption, EmptySeq DEF Init, TypeOK, NoRules, Seeders
<1>2. DOMAIN alerts = {}
  BY DEF Init
<1>. QED
  BY <1>1, <1>2 DEF Init, IInv, Unique, LookedInv, DisjointInv, AnnouncedOnce

LEMMA AbortType ==
  ASSUME TypeOK, Abort
  PROVE  /\ pc' = "idle" /\ pair' = None /\ opened' = {}
         /\ fetched' \in [Rules -> Conditions \cup {Malformed, None}]
         /\ away' \subseteq Agents /\ left' \subseteq Pairs
         /\ silenced' \subseteq DOMAIN alerts
BY DEF TypeOK, Abort, EndPass, NoRules

LEMMA StepType == TypeOK /\ LookedInv /\ [Next]_vars => TypeOK'
<1>. SUFFICES ASSUME TypeOK, LookedInv, [Next]_vars PROVE TypeOK'
  OBVIOUS
<1>. USE DEF pass
<1>1. CASE Begin
  BY <1>1 DEF TypeOK, Begin
<1>2. CASE Fetch
  <2>1. \A r \in Rules : row[r] \in Rows
    BY <1>2 DEF TypeOK, Fetch, Exists
  <2>2. fetched' \in [Rules -> Conditions \cup {Malformed, None}]
    BY <1>2, <2>1 DEF TypeOK, Fetch, Rows
  <2>. QED
    BY <1>2, <2>2 DEF TypeOK, Fetch
<1>3. CASE FetchAgents \/ Look
  BY <1>3 DEF TypeOK, FetchAgents, Look
<1>4. CASE Insert
  <2>1. /\ alerts' \in Seq(AlertRows) /\ DOMAIN alerts \subseteq DOMAIN alerts'
        /\ Len(alerts) + 1 \in DOMAIN alerts'
    BY <1>4, InsertFacts DEF LookedInv, Insert
  <2>2. opened' \subseteq DOMAIN alerts' /\ silenced' \subseteq DOMAIN alerts'
    BY <1>4, <2>1 DEF TypeOK, Insert
  <2>. QED
    BY <1>4, <2>1, <2>2 DEF TypeOK, Insert, AlertRows
<1>5. CASE Clear
  <2>1. Rewritten(alerts')
    BY <1>5, SetStatusFacts DEF Clear, Status
  <2>. QED
    BY <1>5, <2>1 DEF TypeOK, Clear, Rewritten, AlertRows
<1>6. CASE Digest
  <2>1. Rewritten(alerts')
    BY <1>6, DigestFacts
  <2>. QED
    BY <1>6, <2>1 DEF TypeOK, Digest, EndPass, NoRules, Rewritten, AlertRows
<1>7. ASSUME NEW p \in Pairs, Check(p) PROVE TypeOK'
  <2>1. CASE Abort
    BY <1>7, <2>1, AbortType DEF TypeOK, Check
  <2>2. CASE ~Abort
    BY <1>7, <2>2 DEF TypeOK, Check
  <2>. QED
    BY <2>1, <2>2
<1>8. ASSUME NEW s \in Seeders, NEW r \in Rules, SeedLook(s, r) PROVE TypeOK'
  BY <1>8 DEF TypeOK, SeedLook
<1>9. ASSUME NEW s \in Seeders, NEW r \in Rules, SeedInsert(s, r) PROVE TypeOK'
  <2>1. seeding' \in [Seeders -> Rules \cup {None}]
    BY <1>9 DEF TypeOK, SeedInsert
  <2>2. row' \in [Rules -> Rows \cup {None}]
    <3>1. [enabled |-> TRUE, condition |-> Default[r]] \in Rows
      BY AlertsAssumption DEF Rows
    <3>. QED
      BY <1>9, <3>1 DEF TypeOK, SeedInsert
  <2>3. CASE Abort
    BY <1>9, <2>1, <2>2, <2>3, AbortType DEF TypeOK, SeedInsert
  <2>4. CASE ~Abort
    BY <1>9, <2>1, <2>2, <2>4 DEF TypeOK, SeedInsert
  <2>. QED
    BY <2>3, <2>4
<1>10. ASSUME NEW i \in DOMAIN alerts, Ack(i) \/ Resolve(i) PROVE TypeOK'
  <2>1. Rewritten(alerts')
    BY <1>10, SetStatusFacts DEF Ack, Resolve, Status, Live
  <2>2. changes' \in 0 .. MaxChanges
    BY <1>10, AlertsAssumption DEF TypeOK, Ack, Resolve, Change
  <2>. QED
    BY <1>10, <2>1, <2>2 DEF TypeOK, Ack, Resolve, Rewritten, AlertRows
<1>11. ASSUME NEW r \in Rules, NEW new \in Rows, EditRead(r, new) PROVE TypeOK'
  BY <1>11, AlertsAssumption DEF TypeOK, EditRead, Change
<1>12. ASSUME NEW e \in edits, EditWrite(e) PROVE TypeOK'
  BY <1>12 DEF TypeOK, EditWrite
<1>13. CASE Fail
  BY <1>13, AbortType, AlertsAssumption DEF TypeOK, Fail, Fault, Seeders
<1>14. CASE Restart
  BY <1>14, AbortType, AlertsAssumption DEF TypeOK, Restart, Fault
<1>15. ASSUME NEW a \in Agents, NEW T \in SUBSET Conditions, Report(a, T) PROVE TypeOK'
  BY <1>15, AlertsAssumption DEF TypeOK, Report, Change
<1>16. CASE UNCHANGED vars
  BY <1>16 DEF TypeOK, vars
<1>. QED
  BY <1>1, <1>2, <1>3, <1>4, <1>5, <1>6, <1>7, <1>8, <1>9, <1>10, <1>11, <1>12, <1>13, <1>14,
     <1>15, <1>16 DEF Next, Loop, Seed, Operator

-----------------------------------------------------------------------------
(* One open alert *)

\* Apart from Insert, a step rewrites rows in place and opens none.
LEMMA TableSteps ==
  ASSUME TypeOK, [Next]_vars, ~Insert
  PROVE  Rewritten(alerts')
<1>. USE DEF pass
<1>1. CASE Digest
  BY <1>1, DigestFacts
<1>2. CASE Clear
  BY <1>2, SetStatusFacts DEF Clear, Status
<1>3. ASSUME NEW i \in DOMAIN alerts, Ack(i) \/ Resolve(i) PROVE Rewritten(alerts')
  BY <1>3, SetStatusFacts DEF Ack, Resolve, Status, Live
<1>4. ASSUME alerts' = alerts PROVE Rewritten(alerts')
  BY <1>4, AlertsType DEF Rewritten
<1>5. CASE Begin \/ Fetch \/ FetchAgents \/ Look \/ \E p \in Pairs : Check(p)
  BY <1>4, <1>5 DEF Begin, Fetch, FetchAgents, Look, Check
<1>6. ASSUME NEW s \in Seeders, Seed(s) PROVE Rewritten(alerts')
  BY <1>4, <1>6 DEF Seed, SeedLook, SeedInsert
<1>7. CASE (\E r \in Rules, new \in Rows : EditRead(r, new)) \/ (\E e \in edits : EditWrite(e))
  BY <1>4, <1>7 DEF EditRead, EditWrite
<1>8. CASE Fail \/ Restart \/ (\E a \in Agents, T \in SUBSET Conditions : Report(a, T)) \/ UNCHANGED vars
  BY <1>4, <1>8 DEF Fail, Restart, Report, vars
<1>. QED
  BY <1>1, <1>2, <1>3, <1>5, <1>6, <1>7, <1>8 DEF Next, Loop, Operator

\* No step but Insert gives a pair an open alert.
LEMMA OpenShrinks ==
  ASSUME TypeOK, [Next]_vars, ~Insert, NEW p
  PROVE  Open(p)' \subseteq Open(p)
BY TableSteps DEF Rewritten, Open, Of

LEMMA StepUnique == TypeOK /\ LookedInv /\ Unique /\ [Next]_vars => Unique'
<1>. SUFFICES ASSUME TypeOK, LookedInv, Unique, [Next]_vars PROVE Unique'
  OBVIOUS
<1>1. CASE Insert
  <2>1. pair \in Pairs /\ \A i \in DOMAIN alerts : alerts[i].pair = pair => alerts[i].status # "open"
    BY <1>1 DEF LookedInv, Insert, Open, Of
  <2>. DEFINE n == Len(alerts) + 1
  <2>2. /\ DOMAIN alerts' = DOMAIN alerts \cup {n}
        /\ \A i \in DOMAIN alerts : alerts'[i] = alerts[i]
        /\ alerts'[n].pair = pair
    BY <1>1, <2>1, InsertFacts
  <2>. HIDE DEF n
  <2>. QED
    BY <2>1, <2>2 DEF Unique
<1>2. CASE ~Insert
  BY <1>2, TableSteps DEF Unique, Rewritten
<1>. QED
  BY <1>1, <1>2

LEMMA StepLooked == TypeOK /\ LookedInv /\ [Next]_vars => LookedInv'
<1>. SUFFICES ASSUME TypeOK, LookedInv, [Next]_vars PROVE LookedInv'
  OBVIOUS
<1>. USE DEF pass
<1>1. CASE Look
  BY <1>1 DEF LookedInv, Look, Open, Of
<1>2. ASSUME NEW p \in Pairs, Check(p) PROVE LookedInv'
  BY <1>2 DEF LookedInv, Check, Abort, EndPass
<1>3. CASE Begin \/ Fetch \/ FetchAgents \/ Insert \/ Clear \/ Digest \/ Fail \/ Restart
  BY <1>3 DEF LookedInv, Begin, Fetch, FetchAgents, Insert, Clear, Digest, Fail, Restart, Abort, EndPass
<1>4. ASSUME pc' = pc, pair' = pair, ~Insert PROVE LookedInv'
  BY <1>4, OpenShrinks DEF LookedInv
<1>5. ASSUME NEW s \in Seeders, NEW r \in Rules, SeedLook(s, r) \/ SeedInsert(s, r) PROVE LookedInv'
  <2>1. CASE Abort
    BY <2>1 DEF LookedInv, Abort, EndPass
  <2>2. CASE ~Abort
    BY <1>4, <1>5, <2>2 DEF SeedLook, SeedInsert, Insert
  <2>. QED
    BY <2>1, <2>2
<1>6. ASSUME NEW i \in DOMAIN alerts, Ack(i) \/ Resolve(i) PROVE LookedInv'
  BY <1>4, <1>6 DEF Ack, Resolve, Change, Insert
<1>7. CASE \/ \E r \in Rules, new \in Rows : EditRead(r, new)
           \/ \E e \in edits : EditWrite(e)
           \/ \E a \in Agents, T \in SUBSET Conditions : Report(a, T)
  <2>1. pc' = pc /\ pair' = pair /\ alerts' = alerts
    BY <1>7 DEF EditRead, EditWrite, Report
  <2>. QED
    BY <2>1 DEF LookedInv, Open, Of
<1>8. CASE UNCHANGED vars
  BY <1>8 DEF vars, LookedInv, Open, Of
<1>. QED
  BY <1>1, <1>2, <1>3, <1>5, <1>6, <1>7, <1>8 DEF Next, Loop, Seed, Operator

-----------------------------------------------------------------------------
(* One announcement *)

\* Between Insert and Digest the alerts of a pass stay with the pass, or are
\* given up with it.
LEMMA ToldFrame ==
  ASSUME TypeOK, [Next]_vars, ~Insert, ~Digest
  PROVE  /\ DOMAIN alerts' = DOMAIN alerts
         /\ \A i \in DOMAIN alerts : alerts'[i].told = alerts[i].told
         /\ \/ opened' = opened /\ silenced' = silenced
            \/ opened' = {} /\ silenced' = silenced \cup opened
<1>. USE DEF pass
<1>1. CASE Begin \/ Fetch \/ FetchAgents \/ Look
  BY <1>1 DEF Begin, Fetch, FetchAgents, Look
<1>2. CASE Clear
  BY <1>2, SetStatusFacts DEF Clear, Status, Rewritten
<1>3. ASSUME NEW i \in DOMAIN alerts, Ack(i) \/ Resolve(i)
      PROVE  /\ DOMAIN alerts' = DOMAIN alerts
             /\ \A j \in DOMAIN alerts : alerts'[j].told = alerts[j].told
             /\ opened' = opened /\ silenced' = silenced
  BY <1>3, SetStatusFacts DEF Ack, Resolve, Status, Live, Rewritten
<1>4. ASSUME NEW p \in Pairs, Check(p)
      PROVE  /\ alerts' = alerts
             /\ \/ opened' = opened /\ silenced' = silenced
                \/ opened' = {} /\ silenced' = silenced \cup opened
  BY <1>4 DEF Check, Abort, EndPass
<1>5. ASSUME NEW s \in Seeders, NEW r \in Rules, SeedLook(s, r) \/ SeedInsert(s, r)
      PROVE  /\ alerts' = alerts
             /\ \/ opened' = opened /\ silenced' = silenced
                \/ opened' = {} /\ silenced' = silenced \cup opened
  BY <1>5 DEF SeedLook, SeedInsert, Abort, EndPass
<1>6. CASE Fail \/ Restart
  BY <1>6 DEF Fail, Restart, Abort, EndPass
<1>7. CASE \/ \E r \in Rules, new \in Rows : EditRead(r, new)
           \/ \E e \in edits : EditWrite(e)
           \/ \E a \in Agents, T \in SUBSET Conditions : Report(a, T)
           \/ UNCHANGED vars
  BY <1>7 DEF EditRead, EditWrite, Report, vars
<1>. QED
  BY <1>1, <1>2, <1>3, <1>4, <1>5, <1>6, <1>7 DEF Next, Loop, Seed, Operator

LEMMA StepAnnounced ==
  TypeOK /\ LookedInv /\ DisjointInv /\ AnnouncedOnce /\ [Next]_vars => DisjointInv' /\ AnnouncedOnce'
<1>. SUFFICES ASSUME TypeOK, LookedInv, DisjointInv, AnnouncedOnce, [Next]_vars
              PROVE  DisjointInv' /\ AnnouncedOnce'
  OBVIOUS
<1>1. CASE Insert
  <2>. DEFINE n == Len(alerts) + 1
  <2>1. /\ DOMAIN alerts' = DOMAIN alerts \cup {n} /\ n \notin DOMAIN alerts
        /\ \A i \in DOMAIN alerts : alerts'[i] = alerts[i]
        /\ alerts'[n].told = 0
    BY <1>1, InsertFacts DEF LookedInv, Insert
  <2>2. opened' = opened \cup {n} /\ silenced' = silenced
    BY <1>1 DEF Insert
  <2>3. opened \subseteq DOMAIN alerts /\ silenced \subseteq DOMAIN alerts
    BY DEF TypeOK
  <2>. HIDE DEF n
  <2>4. DisjointInv'
    BY <2>1, <2>2, <2>3 DEF DisjointInv
  <2>5. AnnouncedOnce'
    BY <2>1, <2>2 DEF AnnouncedOnce
  <2>. QED
    BY <2>4, <2>5
<1>2. CASE Digest
  <2>1. opened' = {} /\ silenced' = silenced
    BY <1>2 DEF Digest, EndPass
  <2>2. /\ DOMAIN alerts' = DOMAIN alerts
        /\ \A i \in DOMAIN alerts :
             alerts'[i].told = IF i \in opened THEN alerts[i].told + 1 ELSE alerts[i].told
    BY <1>2, DigestFacts DEF Rewritten
  <2>. QED
    BY <2>1, <2>2 DEF DisjointInv, AnnouncedOnce
<1>3. CASE ~Insert /\ ~Digest
  BY <1>3, ToldFrame DEF DisjointInv, AnnouncedOnce
<1>. QED
  BY <1>1, <1>2, <1>3

-----------------------------------------------------------------------------
(* Theorems *)

\* The invariant that carries the argument is inductive.
THEOREM Invariance == Spec => []IInv
<1>1. IInv /\ [Next]_vars => IInv'
  BY StepType, StepUnique, StepLooked, StepAnnounced DEF IInv
<1>. QED
  BY InitInv, <1>1, PTL DEF Spec

\* Every variable keeps its type in every behaviour.
THEOREM TypeCorrect == Spec => []TypeOK
<1>1. IInv => TypeOK
  BY DEF IInv
<1>. QED
  BY <1>1, Invariance, PTL

\* No pair of a rule and an agent ever has two open alerts, however operators,
\* edits, failed passes and restarts fall between the loop's statements.
THEOREM OneOpenPerPair == Spec => []OneOpen
<1>1. IInv => OneOpen
  <2>. SUFFICES ASSUME IInv, NEW p \in Pairs PROVE Cardinality(Open(p)) <= 1
    BY DEF OneOpen
  <2>1. \A i, j \in Open(p) : i = j
    BY DEF IInv, Unique, Open, Of
  <2>2. CASE Open(p) = {}
    BY <2>2, FS_EmptySet
  <2>3. ASSUME NEW i \in Open(p) PROVE Cardinality(Open(p)) <= 1
    <3>1. Open(p) = {i}
      BY <2>1, <2>3
    <3>2. Cardinality({i}) = 1
      BY FS_Singleton
    <3>. QED
      BY <3>1, <3>2
  <2>. QED
    BY <2>2, <2>3
<1>. QED
  BY <1>1, Invariance, PTL

\* Every alert is announced once, unless its pass still runs or has failed.
THEOREM AlertsAreAnnouncedOnce == Spec => []AnnouncedOnce
<1>1. IInv => AnnouncedOnce
  BY DEF IInv
<1>. QED
  BY <1>1, Invariance, PTL
=============================================================================
