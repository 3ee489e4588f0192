------------------------------- MODULE Alerts -------------------------------
(***************************************************************************)
(* Alert rules (api/app/rules.py and the alert endpoints of main.py):      *)
(* alert_loop seeds the rules, then evaluates every enabled rule against   *)
(* every agent, opens and resolves alerts and announces the ones it opened *)
(* in one digest.  Operators acknowledge, resolve and edit meanwhile.      *)
(*                                                                         *)
(* Every await of the loop and of update_rule ends a step: anything else   *)
(* may come between.  A condition is a name; an agent is in trouble with   *)
(* the conditions that hold of it.  Severities and messages are left out.  *)
(***************************************************************************)
EXTENDS Integers, Sequences, FiniteSets

CONSTANTS
  Rules, Agents,      \* DEFAULT_RULES; agents that have reported
  Conditions,         \* the conditions a rule may hold
  Offline,            \* the one that looks at last_seen
  Malformed,          \* one that _check cannot evaluate
  Default,            \* the condition DEFAULT_RULES gives a rule
  None,               \* a row, rule or pair that is not there
  MaxChanges,         \* bound on what agents, operators and admins do
  MaxFaults           \* bound on failed passes and restarts

ASSUME AlertsAssumption ==
  /\ Offline \in Conditions
  /\ Malformed \notin Conditions
  /\ Default \in [Rules -> Conditions]
  /\ None \notin Rules
  /\ MaxChanges \in Nat /\ MaxFaults \in Nat

Seeders == {"loop", "request"}        \* alert_loop and GET /api/alert-rules
Rows == [enabled : BOOLEAN, condition : Conditions \cup {Malformed}]
Pairs == Rules \X Agents

ASSUME NoneAssumption == None \notin Rows /\ None \notin Pairs

VARIABLES
  row, alerts,                        \* tables alert_rules and alerts
  edits,                              \* update_rule handlers between read and write
  seeding,                            \* seed_rules: the rule found absent
  pc, fetched, away, left, pair, opened,   \* locals of a pass
  trouble,                            \* the agents
  silenced, changes, faults           \* history and bounds

pass == <<pc, fetched, away, left, pair, opened>>
vars == <<row, alerts, edits, seeding, pass, trouble, silenced, changes, faults>>

Live == {"open", "acknowledged"}
Status == Live \cup {"resolved"}

TypeOK ==
  /\ row \in [Rules -> Rows \cup {None}]
  /\ alerts \in Seq([pair : Pairs, status : Status, told : Nat])
  /\ edits \subseteq Rules \X Rows
  /\ seeding \in [Seeders -> Rules \cup {None}]
  /\ pc \in {"idle", "seed", "agents", "check", "clear", "look", "insert"}
  /\ fetched \in [Rules -> Conditions \cup {Malformed, None}]
  /\ away \subseteq Agents
  /\ left \subseteq Pairs
  /\ pair \in Pairs \cup {None}
  /\ opened \subseteq DOMAIN alerts /\ silenced \subseteq DOMAIN alerts
  /\ trouble \in [Agents -> SUBSET Conditions]
  /\ changes \in 0 .. MaxChanges /\ faults \in 0 .. MaxFaults

NoRules == [r \in Rules |-> None]

Init ==
  /\ row = [r \in Rules |-> None]
  /\ alerts = <<>> /\ edits = {}
  /\ seeding = [s \in Seeders |-> None]
  /\ pc = "idle" /\ fetched = NoRules /\ away = {} /\ left = {} /\ pair = None
  /\ opened = {}
  /\ trouble = [a \in Agents |-> {}]
  /\ silenced = {} /\ changes = 0 /\ faults = 0

-----------------------------------------------------------------------------
(* Helpers *)

Exists(r) == row[r] # None

Of(p) == {i \in DOMAIN alerts : alerts[i].pair = p}
Open(p) == {i \in Of(p) : alerts[i].status = "open"}
LiveOf(p) == {i \in Of(p) : alerts[i].status \in Live}

SetStatus(S, status) ==
  alerts' = [i \in DOMAIN alerts |->
               IF i \in S THEN [alerts[i] EXCEPT !.status = status] ELSE alerts[i]]

\* The pass ends; its locals end with it.
EndPass ==
  /\ pc' = "idle"
  /\ fetched' = NoRules /\ away' = {} /\ left' = {} /\ pair' = None
  /\ opened' = {}

\* It ends with an exception, before the digest: alert_loop logs it.
Abort == EndPass /\ silenced' = silenced \cup opened

-----------------------------------------------------------------------------
(* seed_rules, in alert_loop and in list_rules *)

SeedLook(s, r) ==
  /\ s = "loop" => pc = "seed"
  /\ seeding[s] = None
  /\ ~Exists(r)
  /\ seeding' = [seeding EXCEPT ![s] = r]
  /\ UNCHANGED <<row, alerts, edits, pass, trouble, silenced, changes, faults>>

SeedInsert(s, r) ==
  /\ seeding[s] = r
  /\ seeding' = [seeding EXCEPT ![s] = None]
  /\ \/ /\ ~Exists(r)
        /\ row' = [row EXCEPT ![r] = [enabled |-> TRUE, condition |-> Default[r]]]
        /\ UNCHANGED <<pass, silenced>>
     \/ /\ Exists(r)                  \* UNIQUE(name): the INSERT raises
        /\ IF s = "loop" THEN Abort ELSE UNCHANGED <<pass, silenced>>
        /\ UNCHANGED row
  /\ UNCHANGED <<alerts, edits, trouble, changes, faults>>

-----------------------------------------------------------------------------
(* evaluate_rules *)

Begin ==
  /\ pc = "idle"
  /\ pc' = "seed"
  /\ UNCHANGED <<row, alerts, edits, seeding, fetched, away, left, pair, opened,
                 trouble, silenced, changes, faults>>

\* The enabled rules are read once ...
Fetch ==
  /\ pc = "seed"
  /\ seeding["loop"] = None
  /\ \A r \in Rules : Exists(r)
  /\ fetched' = [r \in Rules |-> IF row[r].enabled THEN row[r].condition ELSE None]
  /\ pc' = "agents"
  /\ UNCHANGED <<row, alerts, edits, seeding, away, left, pair, opened,
                 trouble, silenced, changes, faults>>

\* ... and then the agents, with their last_seen.
FetchAgents ==
  /\ pc = "agents"
  /\ left' = {p \in Pairs : fetched[p[1]] # None}
  /\ away' = {a \in Agents : Offline \in trouble[a]}
  /\ pc' = "check"
  /\ UNCHANGED <<row, alerts, edits, seeding, fetched, pair, opened,
                 trouble, silenced, changes, faults>>

\* Rule by rule, and each rule agent by agent.
NextPair(p) ==
  /\ p \in left
  /\ pair # None /\ p[1] # pair[1] => \A q \in left : q[1] # pair[1]

Fires(c, a) == IF c = Offline THEN a \in away ELSE c \in trouble[a]

Check(p) ==
  /\ pc = "check"
  /\ NextPair(p)
  /\ \/ /\ fetched[p[1]] = Malformed
        /\ Abort
     \/ /\ fetched[p[1]] # Malformed
        /\ pair' = p
        /\ left' = left \ {p}
        /\ pc' = IF Fires(fetched[p[1]], p[2]) THEN "look" ELSE "clear"
        /\ UNCHANGED <<fetched, away, opened, silenced>>
  /\ UNCHANGED <<row, alerts, edits, seeding, trouble, changes, faults>>

\* Each operator named Faulty... is a plausible slip in the definition that
\* follows it; no specification uses one.  They confirm that the properties
\* can fail.
FaultyLook ==                         \* the SELECT without its status
  /\ pc = "look"
  /\ pc' = IF Of(pair) = {} THEN "insert" ELSE "check"
  /\ UNCHANGED <<row, alerts, edits, seeding, fetched, away, left, pair, opened,
                 trouble, silenced, changes, faults>>

FaultyExisting ==                     \* looks at this pass's alerts only
  /\ pc = "look"
  /\ pc' = IF Open(pair) \cap opened = {} THEN "insert" ELSE "check"
  /\ UNCHANGED <<row, alerts, edits, seeding, fetched, away, left, pair, opened,
                 trouble, silenced, changes, faults>>

Look ==
  /\ pc = "look"
  /\ pc' = IF Open(pair) = {} THEN "insert" ELSE "check"
  /\ UNCHANGED <<row, alerts, edits, seeding, fetched, away, left, pair, opened,
                 trouble, silenced, changes, faults>>

Insert ==
  /\ pc = "insert"
  /\ alerts' = Append(alerts, [pair |-> pair, status |-> "open", told |-> 0])
  /\ opened' = opened \cup {Len(alerts) + 1}
  /\ pc' = "check"
  /\ UNCHANGED <<row, edits, seeding, fetched, away, left, pair,
                 trouble, silenced, changes, faults>>

FaultyClear ==                        \* forgets the acknowledged ones
  /\ pc = "clear"
  /\ SetStatus(Open(pair), "resolved")
  /\ pc' = "check"
  /\ UNCHANGED <<row, edits, seeding, fetched, away, left, pair, opened,
                 trouble, silenced, changes, faults>>

Clear ==
  /\ pc = "clear"
  /\ SetStatus(LiveOf(pair), "resolved")
  /\ pc' = "check"
  /\ UNCHANGED <<row, edits, seeding, fetched, away, left, pair, opened,
                 trouble, silenced, changes, faults>>

FaultyDigest ==                       \* a list that outlives the pass
  /\ pc = "check" /\ left = {}
  /\ alerts' = [i \in DOMAIN alerts |->
                  IF i \in opened THEN [alerts[i] EXCEPT !.told = @ + 1] ELSE alerts[i]]
  /\ pc' = "idle"
  /\ fetched' = NoRules /\ away' = {} /\ pair' = None
  /\ UNCHANGED <<row, edits, seeding, left, opened, trouble, silenced, changes, faults>>

\* One digest of the alerts opened, if any, to every channel.  Each channel
\* tries once, and a failed delivery is only logged.
Digest ==
  /\ pc = "check" /\ left = {}
  /\ alerts' = [i \in DOMAIN alerts |->
                  IF i \in opened THEN [alerts[i] EXCEPT !.told = @ + 1] ELSE alerts[i]]
  /\ EndPass
  /\ UNCHANGED <<row, edits, seeding, trouble, silenced, changes, faults>>

-----------------------------------------------------------------------------
(* Agents, operators and admins *)

Change == changes < MaxChanges /\ changes' = changes + 1

\* New events, a heartbeat, or none for too long.
Report(a, T) ==
  /\ Change
  /\ T # trouble[a]
  /\ trouble' = [trouble EXCEPT ![a] = T]
  /\ away' = IF Offline \in T /\ pc \notin {"idle", "seed", "agents"} THEN away \cup {a} ELSE away
  /\ UNCHANGED <<row, alerts, edits, seeding, pc, fetched, left, pair, opened, silenced, faults>>

\* ack_alert and resolve_alert ask for no status.
Ack(i) ==
  /\ Change
  /\ SetStatus({i}, "acknowledged")
  /\ UNCHANGED <<row, edits, seeding, pass, trouble, silenced, faults>>

Resolve(i) ==
  /\ Change
  /\ SetStatus({i}, "resolved")
  /\ UNCHANGED <<row, edits, seeding, pass, trouble, silenced, faults>>

\* update_rule reads the row, and writes all of it back with the fields given.
EditRead(r, new) ==
  /\ Change
  /\ Exists(r)
  /\ new # row[r]
  /\ edits' = edits \cup {<<r, new>>}
  /\ UNCHANGED <<row, alerts, seeding, pass, trouble, silenced, faults>>

EditWrite(e) ==
  /\ row' = [row EXCEPT ![e[1]] = e[2]]
  /\ edits' = edits \ {e}
  /\ UNCHANGED <<alerts, seeding, pass, trouble, silenced, changes, faults>>

Fault == faults < MaxFaults /\ faults' = faults + 1

\* A statement of a pass raises.
Fail ==
  /\ Fault
  /\ pc # "idle"
  /\ Abort
  /\ seeding' = [seeding EXCEPT !["loop"] = None]
  /\ UNCHANGED <<row, alerts, edits, trouble, changes>>

\* The server dies with its pass and its requests, and starts again.
Restart ==
  /\ Fault
  /\ Abort
  /\ seeding' = [s \in Seeders |-> None]
  /\ edits' = {}
  /\ UNCHANGED <<row, alerts, trouble, changes>>

-----------------------------------------------------------------------------
Loop ==
  \/ Begin \/ Fetch \/ FetchAgents \/ Look \/ Insert \/ Clear \/ Digest
  \/ \E p \in Pairs : Check(p)

Seed(s) ==
  \E r \in Rules : SeedLook(s, r) \/ SeedInsert(s, r)

Operator ==
  \/ \E i \in DOMAIN alerts : Ack(i) \/ Resolve(i)
  \/ \E r \in Rules, new \in Rows : EditRead(r, new)
  \/ \E e \in edits : EditWrite(e)

Next ==
  \/ Loop \/ (\E s \in Seeders : Seed(s)) \/ Operator \/ Fail \/ Restart
  \/ \E a \in Agents, T \in SUBSET Conditions : Report(a, T)

Spec == Init /\ [][Next]_vars

\* alert_loop runs for ever, and a request that has begun is finished.
FairSpec ==
  /\ Spec
  /\ WF_vars(Loop \/ Seed("loop"))
  /\ WF_vars(Seed("request"))
  /\ WF_vars(\E e \in edits : EditWrite(e))

-----------------------------------------------------------------------------
(* Properties *)

\* "No duplicates for the same pair while open", whatever operators and
\* restarts do between the SELECT and the INSERT.
OneOpen == \A p \in Pairs : Cardinality(Open(p)) <= 1

\* An alert is announced once; it is not yet announced while its pass runs,
\* and never only if that pass failed.
AnnouncedOnce ==
  \A i \in DOMAIN alerts :
    alerts[i].told = IF i \in opened \cup silenced THEN 0 ELSE 1

Evaluable ==
  \A r \in Rules : Exists(r) => ~row[r].enabled \/ row[r].condition # Malformed

Active(r) == Exists(r) /\ row[r].enabled
Firing(r, a)  == Evaluable /\ Active(r) /\ row[r].condition \in trouble[a]
Calm(r, a)    == Evaluable /\ Active(r) /\ row[r].condition \notin trouble[a]

\* A condition that stays has an open alert in the end, also after operators
\* resolved or acknowledged earlier ones and after failed passes.
PersistentReopens ==
  \A r \in Rules, a \in Agents : <>[]Firing(r, a) => <>[](Open(<<r, a>>) # {})

\* A condition that has cleared has no alert left in the end, open or
\* acknowledged, also one that an operator acknowledged after it was resolved.
ClearedResolves ==
  \A r \in Rules, a \in Agents : <>[]Calm(r, a) => <>[](LiveOf(<<r, a>>) = {})
=============================================================================
