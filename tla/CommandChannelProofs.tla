------------------------ MODULE CommandChannelProofs ------------------------
(***************************************************************************)
(* Proofs about CommandChannel, for every set of commands, processes and   *)
(* handlers and every bound.                                               *)
(***************************************************************************)
EXTENDS CommandChannel, TLAPS

LEMMA DeliverableIsCmds == Deliverable \subseteq Cmds
BY DEF Deliverable

\* A process about to save or to post a result has one.
ResultReady == \A p \in Passes : pc[p] \in {"record", "post"} => result[p] \in Results

LEMMA InitType == Init => TypeOK /\ ResultReady
<1>. SUFFICES ASSUME Init PROVE TypeOK /\ ResultReady
  OBVIOUS
<1>1. status \in [Cmds -> Statuses]
  BY DEF Init, Statuses
<1>2. pickedAge \in [Cmds -> {NotPicked} \cup 0..Window]
  BY DEF Init
<1>3. handler \in [Handlers -> [client : Passes \cup {Nobody}, todo : SUBSET Cmds, reply : SUBSET Cmds]]
  BY DEF Init, Idle
<1>4. runs \in [Passes -> [Cmds -> Nat]] /\ unsaved \in [Passes -> [Cmds -> Nat]]
  BY DEF Init
<1>5. slept \in 0..Window /\ spoiled \subseteq Cmds
  BY CommandAssumption DEF Init
<1>. QED
  BY <1>1, <1>2, <1>3, <1>4, <1>5 DEF Init, TypeOK, ResultReady

LEMMA AbandonType ==
  ASSUME NEW P, TypeOK, Abandon(P)
  PROVE  handler' \in [Handlers -> [client : Passes \cup {Nobody}, todo : SUBSET Cmds, reply : SUBSET Cmds]]
BY DEF Abandon, TypeOK

LEMMA HeldType ==
  ASSUME NEW P
  PROVE  Held(P) \subseteq Cmds
BY DEF Held

LEMMA DieType ==
  ASSUME NEW P, TypeOK, Die(P)
  PROVE  /\ handler' \in [Handlers -> [client : Passes \cup {Nobody}, todo : SUBSET Cmds, reply : SUBSET Cmds]]
         /\ pc' \in [Passes -> {"idle", "ready", "polling", "check", "execute", "record", "post"}]
         /\ queue' \in [Passes -> SUBSET Cmds]
         /\ result' \in [Passes -> Results \cup {NoResult}]
         /\ unsaved' \in [Passes -> [Cmds -> Nat]]
         /\ spoiled' \subseteq Cmds
         /\ slept' \in 0..Window
<1>1. Abandon(P)
  BY DEF Die
<1>3. spoiled' \subseteq Cmds
  BY HeldType DEF Die, TypeOK
<1>4. slept' \in 0..Window
  BY CommandAssumption DEF Die, TypeOK
<1>2. unsaved' \in [Passes -> [Cmds -> Nat]]
  BY DEF Die, TypeOK
<1>. QED
  BY <1>1, <1>2, <1>3, <1>4, AbandonType DEF Die, TypeOK

LEMMA RanType ==
  ASSUME NEW p \in Passes, NEW c \in Cmds, NEW r \in Results, TypeOK, Ran(p, c, r)
  PROVE  /\ runs' \in [Passes -> [Cmds -> Nat]]
         /\ result' \in [Passes -> Results \cup {NoResult}]
         /\ pc' \in [Passes -> {"idle", "ready", "polling", "check", "execute", "record", "post"}]
BY DEF Ran, TypeOK

\* Every step keeps every variable within its type.
LEMMA StepType == TypeOK /\ ResultReady /\ [Next]_vars => TypeOK'
<1>. SUFFICES ASSUME TypeOK, ResultReady, [Next]_vars PROVE TypeOK'
  OBVIOUS
<1>. USE DEF history, server
<1>1. ASSUME NEW c \in Cmds, CreateCommand(c) PROVE TypeOK'
  BY <1>1 DEF TypeOK, CreateCommand, Statuses
<1>2. ASSUME NEW p \in Passes, NEW h \in Handlers, PollSelect(p, h) PROVE TypeOK'
  BY <1>2, DeliverableIsCmds DEF TypeOK, PollSelect
<1>3. ASSUME NEW h \in Handlers, NEW c \in Cmds, PollMark(h, c) PROVE TypeOK'
  <2>1. handler' \in [Handlers -> [client : Passes \cup {Nobody}, todo : SUBSET Cmds, reply : SUBSET Cmds]]
    <3>. DEFINE H == [client : Passes \cup {Nobody}, todo : SUBSET Cmds, reply : SUBSET Cmds]
    <3>2. handler[h] \in H
      BY DEF TypeOK
    <3>3. [handler[h] EXCEPT !.todo = handler[h].todo \ {c}]
            = [client |-> handler[h].client, todo |-> handler[h].todo \ {c}, reply |-> handler[h].reply]
      BY <3>2
    <3>1. [handler[h] EXCEPT !.todo = handler[h].todo \ {c}] \in H
      BY <3>2, <3>3
    <3>. QED
      BY <1>3, <3>1 DEF TypeOK, PollMark
  <2>2. 0 \in 0..Window
    BY CommandAssumption
  <2>. QED
    BY <1>3, <2>1, <2>2 DEF TypeOK, PollMark, Statuses
<1>4. ASSUME NEW h \in Handlers, NEW p \in Passes, PollReply(h, p) PROVE TypeOK'
  BY <1>4 DEF TypeOK, PollReply, Idle
<1>5. CASE ServerRestart
  BY <1>5 DEF TypeOK, ServerRestart, Fault, Idle
<1>6. CASE Tick
  BY <1>6, CommandAssumption DEF TypeOK, Tick, NotPicked
<1>7. CASE BeginRoutine
  BY <1>7 DEF TypeOK, BeginRoutine, StageJob
<1>8. CASE BeginElevated
  <2>0. restarting' = TRUE \/ restarting' = restarting
    BY <1>8 DEF BeginElevated
  <2>1. restarting' \in BOOLEAN
    BY <2>0 DEF TypeOK
  <2>2. pc' \in [Passes -> {"idle", "ready", "polling", "check", "execute", "record", "post"}]
    BY <1>8 DEF TypeOK, BeginElevated
  <2>. QED
    BY <1>8, <2>1, <2>2 DEF TypeOK, BeginElevated
<1>9. ASSUME NEW p \in Passes, PollLost(p) PROVE TypeOK'
  <2>1. Abandon({p}) /\ faults' \in Nat
    BY <1>9 DEF TypeOK, PollLost, Fault
  <2>2. spoiled' \subseteq Cmds
    BY <1>9, HeldType DEF TypeOK, PollLost
  <2>. QED
    BY <1>9, <2>1, <2>2, AbandonType DEF TypeOK, PollLost
<1>10. ASSUME NEW p \in Passes, NEW c \in Cmds, SkipExecuted(p, c) PROVE TypeOK'
  BY <1>10 DEF TypeOK, SkipExecuted
<1>11. ASSUME NEW p \in Passes, NEW c \in Cmds, Decide(p, c) PROVE TypeOK'
  BY <1>11 DEF TypeOK, Decide
<1>12. ASSUME NEW p \in Passes, NEW c \in Cmds, Execute(p, c) PROVE TypeOK'
  <2>1. PICK r \in Results : Ran(p, c, r)
    BY <1>12 DEF Execute, Results
  <2>2. /\ \/ UNCHANGED <<job, stagings>>
           \/ StageJob("reboot")
        /\ restarting' = TRUE \/ UNCHANGED restarting
    BY <1>12 DEF Execute
  <2>3. job' \in {NoJob, "reboot", "update"} /\ stagings' \in Nat
    BY <2>2 DEF StageJob, TypeOK
  <2>4. restarting' \in BOOLEAN
    BY <2>2 DEF TypeOK
  <2>. QED
    BY <2>1, <2>3, <2>4, RanType DEF TypeOK, Ran
<1>13. ASSUME NEW p \in Passes, NEW c \in Cmds, Record(p, c) PROVE TypeOK'
  BY <1>13 DEF TypeOK, Record
<1>14. ASSUME NEW p \in Passes, NEW c \in Cmds, Posted(p, c),
              status' \in [Cmds -> Statuses], faults' \in Nat, spoiled' \subseteq Cmds
       PROVE TypeOK'
  BY <1>14 DEF TypeOK, Posted
<1>15. ASSUME NEW p \in Passes, NEW c \in Cmds, Post(p, c) PROVE TypeOK'
  <2>2. result[p] \in Statuses
    BY <1>15 DEF Post, Posted, ResultReady, Statuses
  <2>. QED
    BY <1>14, <1>15, <2>2 DEF Post, TypeOK
<1>16. ASSUME NEW p \in Passes, NEW c \in Cmds, PostLost(p, c) PROVE TypeOK'
  <2>1. spoiled' \subseteq Cmds /\ faults' \in Nat /\ status' \in [Cmds -> Statuses]
    BY <1>16 DEF PostLost, Fault, TypeOK
  <2>. QED
    BY <1>14, <1>16, <2>1 DEF PostLost
<1>17. ASSUME NEW p \in Passes, Finish(p) PROVE TypeOK'
  BY <1>17, CommandAssumption DEF TypeOK, Finish
<1>18. ASSUME NEW p \in Passes, Kill(p) PROVE TypeOK'
  <2>1. Die({p}) /\ faults' \in Nat /\ UNCHANGED <<restarting, restarts>>
    BY <1>18 DEF TypeOK, Kill, Fault
  <2>. QED
    BY <2>1, DieType DEF TypeOK, Die
<1>19. CASE MachineRestart
  <2>1. Die(Passes) /\ restarts' \in Nat /\ UNCHANGED faults
    BY <1>19 DEF TypeOK, MachineRestart
  <2>2. restarting' \in BOOLEAN
    BY <1>19 DEF MachineRestart
  <2>. QED
    BY <2>1, <2>2, DieType DEF TypeOK, Die
<1>20. CASE UNCHANGED vars
  BY <1>20 DEF TypeOK, vars
<1>. QED
  BY <1>1, <1>2, <1>3, <1>4, <1>5, <1>6, <1>7, <1>8, <1>9, <1>10, <1>11, <1>12, <1>13,
     <1>15, <1>16, <1>17, <1>18, <1>19, <1>20 DEF Next, Serve, AgentStep

\* The result a process holds is there until it is posted.
LEMMA StepReady == TypeOK /\ ResultReady /\ [Next]_vars => ResultReady'
<1>. SUFFICES ASSUME TypeOK, ResultReady, [Next]_vars PROVE ResultReady'
  OBVIOUS
<1>. USE DEF history, server
<1>1. ASSUME UNCHANGED <<pc, result>> PROVE ResultReady'
  BY <1>1 DEF ResultReady
<1>2. ASSUME NEW p \in Passes, NEW v, v \notin {"record", "post"},
             pc' = [pc EXCEPT ![p] = v],
             UNCHANGED result \/ result' = [result EXCEPT ![p] = NoResult]
      PROVE  ResultReady'
  BY <1>2 DEF ResultReady, TypeOK
<1>3. ASSUME NEW P, Die(P) PROVE ResultReady'
  BY <1>3 DEF ResultReady, TypeOK, Die
<1>4. CASE ServerRestart
  BY <1>4 DEF ResultReady, TypeOK, ServerRestart
<1>5. ASSUME NEW p \in Passes, NEW c \in Cmds, Execute(p, c) PROVE ResultReady'
  <2>1. PICK r \in Results : Ran(p, c, r)
    BY <1>5 DEF Execute, Results
  <2>. QED
    BY <2>1 DEF ResultReady, TypeOK, Ran
<1>6. ASSUME NEW p \in Passes, NEW c \in Cmds, Record(p, c) PROVE ResultReady'
  BY <1>6 DEF ResultReady, TypeOK, Record
<1>7. ASSUME NEW p \in Passes, AgentStep(p) PROVE ResultReady'
  <2>1. ASSUME NEW h \in Handlers, PollSelect(p, h) PROVE ResultReady'
    BY <2>1, <1>2 DEF PollSelect
  <2>2. ASSUME NEW c \in Cmds, SkipExecuted(p, c) PROVE ResultReady'
    BY <2>2, <1>1 DEF SkipExecuted
  <2>3. ASSUME NEW c \in Cmds, Decide(p, c) PROVE ResultReady'
    BY <2>3, <1>2 DEF Decide
  <2>4. ASSUME NEW c \in Cmds, Post(p, c) PROVE ResultReady'
    BY <2>4, <1>2 DEF Post, Posted
  <2>5. CASE Finish(p)
    BY <2>5, <1>2 DEF Finish
  <2>. QED
    BY <1>5, <1>6, <1>7, <2>1, <2>2, <2>3, <2>4, <2>5 DEF AgentStep
<1>8. CASE \E h \in Handlers : Serve(h)
  <2>1. ASSUME NEW h \in Handlers, NEW c \in Cmds, PollMark(h, c) PROVE ResultReady'
    BY <2>1, <1>1 DEF PollMark
  <2>2. ASSUME NEW h \in Handlers, NEW p \in Passes, PollReply(h, p) PROVE ResultReady'
    BY <2>2, <1>2 DEF PollReply
  <2>. QED
    BY <1>8, <2>1, <2>2 DEF Serve
<1>9. ASSUME NEW c \in Cmds, CreateCommand(c) PROVE ResultReady'
  BY <1>9, <1>1 DEF CreateCommand
<1>10. CASE Tick
  BY <1>10, <1>1 DEF Tick
<1>11. CASE BeginRoutine
  BY <1>11, <1>2 DEF BeginRoutine
<1>12. CASE BeginElevated
  BY <1>12, <1>2 DEF BeginElevated
<1>13. ASSUME NEW p \in Passes, PollLost(p) PROVE ResultReady'
  BY <1>13, <1>2 DEF PollLost
<1>14. ASSUME NEW p \in Passes, NEW c \in Cmds, PostLost(p, c) PROVE ResultReady'
  BY <1>14, <1>2 DEF PostLost, Posted
<1>15. ASSUME NEW p \in Passes, Kill(p) PROVE ResultReady'
  BY <1>15, <1>3 DEF Kill
<1>16. CASE MachineRestart
  BY <1>16, <1>3 DEF MachineRestart
<1>17. CASE UNCHANGED vars
  BY <1>17, <1>1 DEF vars
<1>. QED
  BY <1>4, <1>7, <1>8, <1>9, <1>10, <1>11, <1>12, <1>13, <1>14, <1>15, <1>16, <1>17 DEF Next

\* Every variable keeps its type in every behaviour of the channel.
THEOREM TypeCorrect == Spec => []TypeOK
<1>1. Init => TypeOK /\ ResultReady
  BY InitType
<1>2. (TypeOK /\ ResultReady) /\ [Next]_vars => (TypeOK /\ ResultReady)'
  BY StepType, StepReady
<1>. QED
  BY <1>1, <1>2, PTL DEF Spec
-----------------------------------------------------------------------------
(* The strengthened invariant. *)

Offered(c) == status[c] \notin {"absent", "pending"}
AtExecute(p, c) == pc[p] = "execute" /\ First(c, queue[p])
AtRecord(p, c)  == pc[p] = "record" /\ First(c, queue[p])
AtPost(p, c)    == pc[p] = "post" /\ First(c, queue[p])

\* A poll being served has at most its own process waiting for it.
ClientInv ==
  \A h \in Handlers, p \in Passes : handler[h].client = p =>
    /\ pc[p] = "polling"
    /\ \A g \in Handlers : handler[g].client = p => g = h

\* A run that no saved result accounts for yet is the one being recorded, and
\* a command with a saved result is only ever run by a process that had
\* decided to before the result was saved.
RunsInv ==
  \A p \in Passes, c \in Cmds :
    /\ saved[c] = NoResult /\ ~AtRecord(p, c) => runs[p][c] <= unsaved[p][c]
    /\ AtExecute(p, c) => runs[p][c] <= unsaved[p][c]
    /\ runs[p][c] <= unsaved[p][c] + 1

\* What a poll selected exists, what it has marked was offered, and so was
\* everything that reached a process.
DeliveryInv ==
  /\ \A h \in Handlers, c \in Cmds :
       /\ c \in handler[h].todo \cup handler[h].reply => Created(c)
       /\ c \in handler[h].reply \ handler[h].todo => Offered(c)
  /\ \A p \in Passes, c \in Cmds : c \in queue[p] \/ runs[p][c] > 0 => Offered(c)

SavedInv ==
  /\ ReportedIsSaved
  /\ \A p \in Passes, c \in Cmds : AtPost(p, c) => saved[c] # NoResult

IInv == TypeOK /\ ResultReady /\ ClientInv /\ RunsInv /\ DeliveryInv /\ SavedInv /\ NoUninvitedReboot

-----------------------------------------------------------------------------
LEMMA FirstUnique ==
  ASSUME NEW S, NEW c \in Cmds, NEW d \in Cmds, First(c, S), First(d, S)
  PROVE  c = d
BY CommandAssumption DEF First

LEMMA InitInv == Init => IInv
<1>. SUFFICES ASSUME Init PROVE IInv
  OBVIOUS
<1>1. TypeOK /\ ResultReady
  BY InitType
<1>0. ClientInv
  BY CommandAssumption DEF Init, ClientInv, Idle, Nobody
<1>2. RunsInv
  BY DEF Init, RunsInv, AtExecute
<1>3. DeliveryInv
  BY DEF Init, DeliveryInv, Idle
<1>4. SavedInv
  BY DEF Init, SavedInv, ReportedIsSaved, Results, AtPost
<1>5. NoUninvitedReboot
  BY DEF Init, NoUninvitedReboot, NoJob
<1>. QED
  BY <1>0, <1>1, <1>2, <1>3, <1>4, <1>5 DEF IInv

-----------------------------------------------------------------------------
(* ClientInv *)

LEMMA ClientAbandon ==
  ASSUME NEW P \in SUBSET Passes, ClientInv, Abandon(P),
         \A p \in Passes \ P : pc'[p] = pc[p]
  PROVE  ClientInv'
<1>. SUFFICES ASSUME NEW h \in Handlers, NEW p \in Passes, handler'[h].client = p
     PROVE  pc'[p] = "polling" /\ \A g \in Handlers : handler'[g].client = p => g = h
  BY DEF ClientInv
<1>1. \A g \in Handlers : handler'[g].client = p => handler[g].client = p /\ p \notin P
  BY CommandAssumption DEF Abandon, Nobody
<1>. QED
  BY <1>1 DEF ClientInv

LEMMA StepClient == TypeOK /\ ClientInv /\ [Next]_vars => ClientInv'
<1>. SUFFICES ASSUME TypeOK, ClientInv, [Next]_vars PROVE ClientInv'
  OBVIOUS
<1>. USE DEF history, server
<1>1. ASSUME UNCHANGED <<handler, pc>> PROVE ClientInv'
  BY <1>1 DEF ClientInv
<1>2. ASSUME NEW p \in Passes, NEW v, pc[p] # "polling", pc' = [pc EXCEPT ![p] = v], UNCHANGED handler
      PROVE  ClientInv'
  <2>1. \A q \in Passes : q # p => pc'[q] = pc[q]
    BY <1>2 DEF TypeOK
  <2>2. \A h \in Handlers : handler'[h].client = handler[h].client /\ handler[h].client # p
    BY <1>2 DEF ClientInv
  <2>. QED
    BY <2>1, <2>2 DEF ClientInv
<1>3. CASE ServerRestart
  BY <1>3, CommandAssumption DEF ServerRestart, ClientInv, Idle, Nobody
<1>4. ASSUME NEW p \in Passes, AgentStep(p) PROVE ClientInv'
  <2>1. ASSUME NEW h \in Handlers, PollSelect(p, h) PROVE ClientInv'
    <3>1. handler'[h].client = p /\ \A g \in Handlers : g # h => handler'[g] = handler[g]
      BY <2>1 DEF PollSelect, TypeOK
    <3>2. pc[p] = "ready" /\ pc'[p] = "polling" /\ \A q \in Passes : q # p => pc'[q] = pc[q]
      BY <2>1 DEF PollSelect, TypeOK
    <3>. QED
      BY <3>1, <3>2 DEF ClientInv
  <2>2. ASSUME NEW c \in Cmds, SkipExecuted(p, c) PROVE ClientInv'
    BY <2>2, <1>1 DEF SkipExecuted
  <2>3. ASSUME NEW c \in Cmds, Decide(p, c) PROVE ClientInv'
    BY <2>3, <1>2 DEF Decide
  <2>4. ASSUME NEW c \in Cmds, Execute(p, c) PROVE ClientInv'
    <3>1. PICK r \in Results : Ran(p, c, r)
      BY <2>4 DEF Execute, Results
    <3>. QED
      BY <3>1, <1>2 DEF Ran
  <2>5. ASSUME NEW c \in Cmds, Record(p, c) PROVE ClientInv'
    BY <2>5, <1>2 DEF Record
  <2>6. ASSUME NEW c \in Cmds, Post(p, c) PROVE ClientInv'
    BY <2>6, <1>2 DEF Post, Posted
  <2>7. CASE Finish(p)
    BY <2>7, <1>2 DEF Finish
  <2>. QED
    BY <1>4, <2>1, <2>2, <2>3, <2>4, <2>5, <2>6, <2>7 DEF AgentStep
<1>5. CASE \E h \in Handlers : Serve(h)
  <2>1. ASSUME NEW h \in Handlers, NEW c \in Cmds, PollMark(h, c) PROVE ClientInv'
    <3>1. pc' = pc /\ \A g \in Handlers : handler'[g].client = handler[g].client
      BY <2>1 DEF PollMark, TypeOK
    <3>. QED
      BY <3>1 DEF ClientInv
  <2>2. ASSUME NEW h \in Handlers, NEW p \in Passes, PollReply(h, p) PROVE ClientInv'
    <3>1. handler'[h].client = Nobody /\ \A g \in Handlers : g # h => handler'[g] = handler[g]
      BY <2>2 DEF PollReply, TypeOK, Idle
    <3>2. handler[h].client = p /\ \A q \in Passes : q # p => pc'[q] = pc[q]
      BY <2>2 DEF PollReply, TypeOK
    <3>. QED
      BY <3>1, <3>2, CommandAssumption DEF ClientInv, Nobody
  <2>. QED
    BY <1>5, <2>1, <2>2 DEF Serve
<1>6. ASSUME NEW c \in Cmds, CreateCommand(c) PROVE ClientInv'
  BY <1>6, <1>1 DEF CreateCommand
<1>7. CASE Tick
  BY <1>7, <1>1 DEF Tick
<1>8. CASE BeginRoutine
  BY <1>8, <1>2 DEF BeginRoutine
<1>9. CASE BeginElevated
  BY <1>9, <1>2 DEF BeginElevated
<1>10. ASSUME NEW p \in Passes, PollLost(p) PROVE ClientInv'
  BY <1>10, ClientAbandon DEF PollLost, TypeOK
<1>11. ASSUME NEW p \in Passes, NEW c \in Cmds, PostLost(p, c) PROVE ClientInv'
  BY <1>11, <1>2 DEF PostLost, Posted
<1>12. ASSUME NEW P \in SUBSET Passes, Die(P) PROVE ClientInv'
  BY <1>12, ClientAbandon DEF Die
<1>13. ASSUME NEW p \in Passes, Kill(p) PROVE ClientInv'
  BY <1>12, <1>13 DEF Kill
<1>14. CASE MachineRestart
  BY <1>12, <1>14 DEF MachineRestart
<1>15. CASE UNCHANGED vars
  BY <1>15, <1>1 DEF vars
<1>. QED
  BY <1>3, <1>4, <1>5, <1>6, <1>7, <1>8, <1>9, <1>10, <1>11, <1>13, <1>14, <1>15 DEF Next

-----------------------------------------------------------------------------
(* RunsInv *)

\* A process that changes neither its place nor its queue, or that leaves and
\* enters neither "execute" nor "record", keeps the account.
LEMMA RunsFrame ==
  ASSUME RunsInv, UNCHANGED <<saved, runs, unsaved>>,
         \A p \in Passes : \/ pc'[p] = pc[p] /\ queue'[p] = queue[p]
                           \/ pc'[p] # "execute" /\ pc[p] # "record"
  PROVE  RunsInv'
BY DEF RunsInv, AtExecute, AtRecord

LEMMA RunsDie ==
  ASSUME NEW P, TypeOK, RunsInv, Die(P)
  PROVE  RunsInv'
<1>. SUFFICES ASSUME NEW p \in Passes, NEW c \in Cmds
     PROVE  /\ saved'[c] = NoResult /\ ~AtRecord(p, c)' => runs'[p][c] <= unsaved'[p][c]
            /\ AtExecute(p, c)' => runs'[p][c] <= unsaved'[p][c]
            /\ runs'[p][c] <= unsaved'[p][c] + 1
  BY DEF RunsInv
<1>. saved' = saved /\ runs' = runs
  BY DEF Die
<1>. runs[p][c] \in Nat /\ unsaved[p][c] \in Nat
  BY DEF TypeOK
<1>1. unsaved'[p][c] = IF p \in P /\ AtRecord(p, c) THEN unsaved[p][c] + 1 ELSE unsaved[p][c]
  BY DEF Die, AtRecord
<1>2. CASE p \in P
  <2>1. pc'[p] = "idle"
    BY <1>2 DEF Die
  <2>. QED
    BY <1>1, <1>2, <2>1 DEF RunsInv, AtExecute, AtRecord
<1>3. CASE p \notin P
  <2>1. pc'[p] = pc[p] /\ queue'[p] = queue[p]
    BY <1>3 DEF Die
  <2>. QED
    BY <1>1, <1>3, <2>1 DEF RunsInv, AtExecute, AtRecord
<1>. QED
  BY <1>2, <1>3

LEMMA RunsRan ==
  ASSUME NEW p \in Passes, NEW c \in Cmds, NEW r, TypeOK, RunsInv, Ran(p, c, r), UNCHANGED saved
  PROVE  RunsInv'
<1>. SUFFICES ASSUME NEW q \in Passes, NEW d \in Cmds
     PROVE  /\ saved'[d] = NoResult /\ ~AtRecord(q, d)' => runs'[q][d] <= unsaved'[q][d]
            /\ AtExecute(q, d)' => runs'[q][d] <= unsaved'[q][d]
            /\ runs'[q][d] <= unsaved'[q][d] + 1
  BY DEF RunsInv
<1>. runs[q][d] \in Nat /\ unsaved[q][d] \in Nat /\ unsaved' = unsaved /\ saved' = saved /\ queue' = queue
  BY DEF TypeOK, Ran
<1>1. AtExecute(p, c) /\ pc'[p] = "record"
  BY DEF Ran, AtExecute, TypeOK
<1>2. CASE q = p /\ d = c
  <2>1. runs'[q][d] = runs[q][d] + 1
    BY <1>2 DEF Ran, TypeOK
  <2>2. AtRecord(q, d)'
    BY <1>1, <1>2 DEF AtExecute, AtRecord
  <2>3. ~AtExecute(q, d)'
    BY <1>1, <1>2 DEF AtExecute
  <2>. QED
    BY <1>1, <1>2, <2>1, <2>2, <2>3 DEF RunsInv
<1>3. CASE q = p /\ d # c
  <2>1. runs'[q][d] = runs[q][d]
    BY <1>3 DEF Ran, TypeOK
  <2>2. ~AtRecord(q, d) /\ ~AtExecute(q, d)' /\ ~AtRecord(q, d)'
    BY <1>1, <1>3, FirstUnique DEF AtExecute, AtRecord
  <2>. QED
    BY <2>1, <2>2 DEF RunsInv
<1>4. CASE q # p
  <2>1. runs'[q] = runs[q] /\ pc'[q] = pc[q]
    BY <1>4 DEF Ran, TypeOK
  <2>. QED
    BY <2>1 DEF RunsInv, AtExecute, AtRecord
<1>. QED
  BY <1>2, <1>3, <1>4

LEMMA RunsDecide ==
  ASSUME NEW p \in Passes, NEW c \in Cmds, TypeOK, RunsInv, Decide(p, c)
  PROVE  RunsInv'
<1>. SUFFICES ASSUME NEW q \in Passes, NEW d \in Cmds
     PROVE  /\ saved'[d] = NoResult /\ ~AtRecord(q, d)' => runs'[q][d] <= unsaved'[q][d]
            /\ AtExecute(q, d)' => runs'[q][d] <= unsaved'[q][d]
            /\ runs'[q][d] <= unsaved'[q][d] + 1
  BY DEF RunsInv
<1>. UNCHANGED <<saved, runs, unsaved, queue>>
  BY DEF Decide, history
<1>1. CASE q # p
  BY <1>1 DEF RunsInv, AtExecute, AtRecord, Decide, TypeOK
<1>2. CASE q = p
  <2>1. pc[p] = "check" /\ pc'[p] = "execute" /\ First(c, queue[p]) /\ saved[c] = NoResult
    BY DEF Decide, TypeOK
  <2>2. AtExecute(q, d)' => d = c
    BY <1>2, <2>1, FirstUnique DEF AtExecute
  <2>3. ~AtRecord(q, d)
    BY <1>2, <2>1 DEF AtRecord
  <2>. QED
    BY <2>1, <2>2, <2>3 DEF RunsInv
<1>. QED
  BY <1>1, <1>2

LEMMA RunsRecord ==
  ASSUME NEW p \in Passes, NEW c \in Cmds, TypeOK, ResultReady, RunsInv, Record(p, c)
  PROVE  RunsInv'
<1>. SUFFICES ASSUME NEW q \in Passes, NEW d \in Cmds
     PROVE  /\ saved'[d] = NoResult /\ ~AtRecord(q, d)' => runs'[q][d] <= unsaved'[q][d]
            /\ AtExecute(q, d)' => runs'[q][d] <= unsaved'[q][d]
            /\ runs'[q][d] <= unsaved'[q][d] + 1
  BY DEF RunsInv
<1>. UNCHANGED <<runs, unsaved, queue>>
  BY DEF Record, history
<1>1. saved'[c] # NoResult /\ (d # c => saved'[d] = saved[d])
  BY DEF Record, ResultReady, TypeOK, Results, NoResult
<1>2. pc[p] = "record" /\ pc'[p] = "post" /\ First(c, queue[p])
  BY DEF Record, TypeOK
<1>3. CASE q # p
  <2>1. pc'[q] = pc[q]
    BY <1>3 DEF Record, TypeOK
  <2>. QED
    BY <1>1, <2>1 DEF RunsInv, AtExecute, AtRecord
<1>4. CASE q = p /\ d # c
  <2>1. ~AtRecord(q, d)
    BY <1>2, <1>4, FirstUnique DEF AtRecord
  <2>. QED
    BY <1>1, <1>2, <1>4, <2>1 DEF RunsInv, AtExecute
<1>5. CASE q = p /\ d = c
  BY <1>1, <1>2, <1>5 DEF RunsInv, AtExecute
<1>. QED
  BY <1>3, <1>4, <1>5

LEMMA StepRuns == TypeOK /\ ResultReady /\ ClientInv /\ RunsInv /\ [Next]_vars => RunsInv'
<1>. SUFFICES ASSUME TypeOK, ResultReady, ClientInv, RunsInv, [Next]_vars PROVE RunsInv'
  OBVIOUS
<1>. USE DEF history, server
<1>1. ASSUME NEW p \in Passes, NEW v, v # "execute", pc[p] # "record",
             pc' = [pc EXCEPT ![p] = v],
             \A q \in Passes : q # p => queue'[q] = queue[q],
             UNCHANGED <<saved, runs, unsaved>>
      PROVE  RunsInv'
  BY <1>1, RunsFrame DEF TypeOK
<1>2. ASSUME UNCHANGED <<saved, runs, unsaved, pc, queue>> PROVE RunsInv'
  BY <1>2, RunsFrame
<1>3. CASE ServerRestart
  BY <1>3, RunsFrame DEF ServerRestart
<1>4. ASSUME NEW p \in Passes, AgentStep(p) PROVE RunsInv'
  <2>1. ASSUME NEW h \in Handlers, PollSelect(p, h) PROVE RunsInv'
    BY <2>1, <1>1 DEF PollSelect
  <2>2. ASSUME NEW c \in Cmds, SkipExecuted(p, c) PROVE RunsInv'
    <3>1. UNCHANGED <<saved, runs, unsaved, pc>> /\ pc[p] = "check"
      BY <2>2 DEF SkipExecuted
    <3>2. \A q \in Passes : q # p => queue'[q] = queue[q]
      BY <2>2 DEF SkipExecuted, TypeOK
    <3>. QED
      BY <3>1, <3>2, RunsFrame
  <2>3. ASSUME NEW c \in Cmds, Decide(p, c) PROVE RunsInv'
    BY <2>3, RunsDecide
  <2>4. ASSUME NEW c \in Cmds, Execute(p, c) PROVE RunsInv'
    <3>1. PICK r \in Results : Ran(p, c, r)
      BY <2>4 DEF Execute, Results
    <3>. QED
      BY <3>1, RunsRan DEF Ran
  <2>5. ASSUME NEW c \in Cmds, Record(p, c) PROVE RunsInv'
    BY <2>5, RunsRecord
  <2>6. ASSUME NEW c \in Cmds, Post(p, c) PROVE RunsInv'
    BY <2>6, <1>1 DEF Post, Posted, TypeOK
  <2>7. CASE Finish(p)
    BY <2>7, <1>1 DEF Finish
  <2>. QED
    BY <1>4, <2>1, <2>2, <2>3, <2>4, <2>5, <2>6, <2>7 DEF AgentStep
<1>5. CASE \E h \in Handlers : Serve(h)
  <2>1. ASSUME NEW h \in Handlers, NEW c \in Cmds, PollMark(h, c) PROVE RunsInv'
    BY <2>1, <1>2 DEF PollMark
  <2>2. ASSUME NEW h \in Handlers, NEW p \in Passes, PollReply(h, p) PROVE RunsInv'
    <3>1. pc[p] = "polling"
      BY <2>2 DEF PollReply, ClientInv
    <3>2. \A q \in Passes : q # p => queue'[q] = queue[q]
      BY <2>2 DEF PollReply, TypeOK
    <3>. QED
      BY <2>2, <3>1, <3>2, <1>1 DEF PollReply
  <2>. QED
    BY <1>5, <2>1, <2>2 DEF Serve
<1>6. ASSUME NEW c \in Cmds, CreateCommand(c) PROVE RunsInv'
  BY <1>6, <1>2 DEF CreateCommand
<1>7. CASE Tick
  BY <1>7, <1>2 DEF Tick
<1>8. CASE BeginRoutine
  BY <1>8, <1>1 DEF BeginRoutine
<1>9. CASE BeginElevated
  BY <1>9, <1>1 DEF BeginElevated
<1>10. ASSUME NEW p \in Passes, PollLost(p) PROVE RunsInv'
  BY <1>10, <1>1 DEF PollLost
<1>11. ASSUME NEW p \in Passes, NEW c \in Cmds, PostLost(p, c) PROVE RunsInv'
  BY <1>11, <1>1 DEF PostLost, Posted, TypeOK
<1>12. ASSUME NEW p \in Passes, Kill(p) PROVE RunsInv'
  BY <1>12, RunsDie DEF Kill
<1>13. CASE MachineRestart
  BY <1>13, RunsDie DEF MachineRestart
<1>14. CASE UNCHANGED vars
  BY <1>14, <1>2 DEF vars
<1>. QED
  BY <1>3, <1>4, <1>5, <1>6, <1>7, <1>8, <1>9, <1>10, <1>11, <1>12, <1>13, <1>14 DEF Next

-----------------------------------------------------------------------------
(* DeliveryInv *)

\* A row once created stays, and a row once offered is never pending again.
LEMMA StatusGrows ==
  ASSUME TypeOK, ResultReady, DeliveryInv, [Next]_vars, NEW c \in Cmds
  PROVE  (Created(c) => Created(c)') /\ (Offered(c) => Offered(c)')
<1>. USE DEF history, server
<1>1. ASSUME UNCHANGED status PROVE (Created(c) => Created(c)') /\ (Offered(c) => Offered(c)')
  BY <1>1 DEF Created, Offered
<1>2. ASSUME NEW d \in Cmds, CreateCommand(d) PROVE (Created(c) => Created(c)') /\ (Offered(c) => Offered(c)')
  BY <1>2 DEF CreateCommand, TypeOK, Created, Offered
<1>3. ASSUME NEW h \in Handlers, NEW d \in Cmds, PollMark(h, d)
      PROVE (Created(c) => Created(c)') /\ (Offered(c) => Offered(c)')
  BY <1>3 DEF PollMark, TypeOK, Created, Offered
<1>4. ASSUME NEW p \in Passes, NEW d \in Cmds, Post(p, d)
      PROVE (Created(c) => Created(c)') /\ (Offered(c) => Offered(c)')
  <2>1. result[p] \in Results
    BY <1>4 DEF Post, Posted, ResultReady
  <2>. QED
    BY <1>4, <2>1 DEF Post, TypeOK, Created, Offered, Results
<1>5. ASSUME NEW p \in Passes, AgentStep(p) PROVE (Created(c) => Created(c)') /\ (Offered(c) => Offered(c)')
  <2>1. ASSUME NEW d \in Cmds, Execute(p, d) PROVE UNCHANGED status
    BY <2>1 DEF Execute, Ran
  <2>. QED
    BY <1>1, <1>4, <1>5, <2>1 DEF AgentStep, PollSelect, SkipExecuted, Decide, Record, Finish
<1>6. CASE \E h \in Handlers : Serve(h)
  BY <1>1, <1>3, <1>6 DEF Serve, PollReply
<1>7. ASSUME NEW p \in Passes, PollLost(p) \/ Kill(p) \/ \E d \in Cmds : PostLost(p, d)
      PROVE (Created(c) => Created(c)') /\ (Offered(c) => Offered(c)')
  BY <1>1, <1>7 DEF PollLost, Kill, Die, PostLost
<1>8. CASE ServerRestart \/ Tick \/ BeginRoutine \/ BeginElevated \/ MachineRestart \/ UNCHANGED vars
  BY <1>1, <1>8 DEF ServerRestart, Tick, BeginRoutine, BeginElevated, MachineRestart, Die, vars
<1>. QED
  BY <1>2, <1>5, <1>6, <1>7, <1>8 DEF Next

\* The two halves of DeliveryInv, each kept by a step that only takes away.
HandlerPart ==
  \A h \in Handlers, c \in Cmds :
    /\ c \in handler[h].todo \cup handler[h].reply => Created(c)
    /\ c \in handler[h].reply \ handler[h].todo => Offered(c)
AgentPart == \A p \in Passes, c \in Cmds : c \in queue[p] \/ runs[p][c] > 0 => Offered(c)

LEMMA StepDelivery == TypeOK /\ ResultReady /\ DeliveryInv /\ [Next]_vars => DeliveryInv'
<1>. SUFFICES ASSUME TypeOK, ResultReady, DeliveryInv, [Next]_vars PROVE DeliveryInv'
  OBVIOUS
<1>. USE DEF history, server
<1>1. \A c \in Cmds : (Created(c) => Created(c)') /\ (Offered(c) => Offered(c)')
  BY StatusGrows
<1>2. ASSUME UNCHANGED handler PROVE HandlerPart'
  BY <1>1, <1>2 DEF DeliveryInv, HandlerPart
<1>3. ASSUME NEW P, Abandon(P) PROVE HandlerPart'
  <2>1. \A h \in Handlers : handler'[h].todo = handler[h].todo /\ handler'[h].reply \subseteq handler[h].reply
    BY <1>3 DEF Abandon, TypeOK
  <2>2. \A h \in Handlers, c \in Cmds : c \in handler'[h].reply => handler'[h].reply = handler[h].reply
    BY <1>3 DEF Abandon, TypeOK
  <2>. QED
    BY <1>1, <2>1, <2>2 DEF DeliveryInv, HandlerPart
<1>4. ASSUME runs' = runs, \A p \in Passes : queue'[p] \subseteq queue[p] PROVE AgentPart'
  BY <1>1, <1>4 DEF DeliveryInv, AgentPart
<1>5. ASSUME HandlerPart', AgentPart' PROVE DeliveryInv'
  BY <1>5 DEF DeliveryInv, HandlerPart, AgentPart
<1>6. ASSUME UNCHANGED <<handler, queue, runs>> PROVE DeliveryInv'
  BY <1>2, <1>4, <1>5, <1>6
<1>7. ASSUME NEW p \in Passes, NEW c \in Cmds, queue' = [queue EXCEPT ![p] = @ \ {c}], UNCHANGED <<handler, runs>>
      PROVE  DeliveryInv'
  <2>1. \A q \in Passes : queue'[q] \subseteq queue[q]
    BY <1>7 DEF TypeOK
  <2>. QED
    BY <1>2, <1>4, <1>5, <1>7, <2>1
<1>8. CASE ServerRestart
  <2>1. HandlerPart'
    BY <1>8 DEF ServerRestart, HandlerPart, Idle
  <2>. QED
    BY <1>4, <1>5, <1>8, <2>1 DEF ServerRestart
<1>9. ASSUME NEW p \in Passes, AgentStep(p) PROVE DeliveryInv'
  <2>1. ASSUME NEW h \in Handlers, PollSelect(p, h) PROVE DeliveryInv'
    <3>1. \A c \in Deliverable : Created(c)'
      BY <1>1, <2>1 DEF Deliverable, Created, PollSelect
    <3>2. /\ handler'[h].todo = Deliverable /\ handler'[h].reply = Deliverable
          /\ \A g \in Handlers : g # h => handler'[g] = handler[g]
      BY <2>1 DEF PollSelect, TypeOK
    <3>3. HandlerPart'
      BY <1>1, <3>1, <3>2 DEF DeliveryInv, HandlerPart
    <3>. QED
      BY <1>4, <1>5, <2>1, <3>3 DEF PollSelect
  <2>2. ASSUME NEW c \in Cmds, SkipExecuted(p, c) PROVE DeliveryInv'
    BY <1>7, <2>2 DEF SkipExecuted
  <2>3. ASSUME NEW c \in Cmds, Execute(p, c) PROVE DeliveryInv'
    <3>1. PICK r \in Results : Ran(p, c, r)
      BY <2>3 DEF Execute, Results
    <3>2. Offered(c)
      BY <3>1 DEF Ran, First, DeliveryInv
    <3>3. \A q \in Passes, d \in Cmds : runs'[q][d] > 0 => runs[q][d] > 0 \/ d = c
      BY <3>1 DEF Ran, TypeOK
    <3>4. AgentPart'
      BY <1>1, <3>1, <3>2, <3>3 DEF Ran, DeliveryInv, AgentPart
    <3>. QED
      BY <1>2, <1>5, <3>1, <3>4 DEF Ran
  <2>4. ASSUME NEW c \in Cmds, Post(p, c) PROVE DeliveryInv'
    BY <1>7, <2>4 DEF Post, Posted
  <2>5. ASSUME NEW c \in Cmds, Decide(p, c) \/ Record(p, c) PROVE DeliveryInv'
    BY <1>6, <2>5 DEF Decide, Record
  <2>6. CASE Finish(p)
    BY <1>6, <2>6 DEF Finish
  <2>. QED
    BY <1>9, <2>1, <2>2, <2>3, <2>4, <2>5, <2>6 DEF AgentStep
<1>10. CASE \E h \in Handlers : Serve(h)
  <2>1. ASSUME NEW h \in Handlers, NEW c \in Cmds, PollMark(h, c) PROVE DeliveryInv'
    <3>1. Offered(c)'
      BY <2>1 DEF PollMark, TypeOK, Offered
    <3>2. /\ handler'[h].todo = handler[h].todo \ {c} /\ handler'[h].reply = handler[h].reply
          /\ \A g \in Handlers : g # h => handler'[g] = handler[g]
      BY <2>1 DEF PollMark, TypeOK
    <3>3. HandlerPart'
      BY <1>1, <3>1, <3>2 DEF DeliveryInv, HandlerPart
    <3>. QED
      BY <1>4, <1>5, <2>1, <3>3 DEF PollMark
  <2>2. ASSUME NEW h \in Handlers, NEW p \in Passes, PollReply(h, p) PROVE DeliveryInv'
    <3>1. /\ handler'[h] = Idle /\ \A g \in Handlers : g # h => handler'[g] = handler[g]
      BY <2>2 DEF PollReply, TypeOK
    <3>2. HandlerPart'
      BY <1>1, <3>1 DEF DeliveryInv, HandlerPart, Idle
    <3>3. \A q \in Passes : queue'[q] = IF q = p THEN handler[h].reply ELSE queue[q]
      BY <2>2 DEF PollReply, TypeOK
    <3>4. \A c \in Cmds : c \in handler[h].reply => Offered(c)
      BY <2>2 DEF PollReply, DeliveryInv
    <3>5. AgentPart'
      BY <1>1, <2>2, <3>3, <3>4 DEF AgentPart, DeliveryInv, PollReply
    <3>. QED
      BY <1>5, <3>2, <3>5
  <2>. QED
    BY <1>10, <2>1, <2>2 DEF Serve
<1>11. ASSUME NEW c \in Cmds, CreateCommand(c) PROVE DeliveryInv'
  BY <1>6, <1>11 DEF CreateCommand
<1>12. CASE Tick \/ BeginRoutine \/ BeginElevated \/ UNCHANGED vars
  BY <1>6, <1>12 DEF Tick, BeginRoutine, BeginElevated, vars
<1>13. ASSUME NEW p \in Passes, PollLost(p) PROVE DeliveryInv'
  BY <1>3, <1>4, <1>5, <1>13 DEF PollLost
<1>14. ASSUME NEW p \in Passes, NEW c \in Cmds, PostLost(p, c) PROVE DeliveryInv'
  BY <1>7, <1>14 DEF PostLost, Posted
<1>15. ASSUME NEW P, Die(P) PROVE DeliveryInv'
  <2>1. \A p \in Passes : queue'[p] \subseteq queue[p]
    BY <1>15 DEF Die
  <2>. QED
    BY <1>3, <1>4, <1>5, <1>15, <2>1 DEF Die
<1>16. ASSUME NEW p \in Passes, Kill(p) PROVE DeliveryInv'
  BY <1>15, <1>16 DEF Kill
<1>17. CASE MachineRestart
  BY <1>15, <1>17 DEF MachineRestart
<1>. QED
  BY <1>8, <1>9, <1>10, <1>11, <1>12, <1>13, <1>14, <1>16, <1>17 DEF Next

-----------------------------------------------------------------------------
(* SavedInv *)

\* A saved result is replaced by another one at most, never removed.
LEMMA SavedGrows ==
  ASSUME TypeOK, ResultReady, [Next]_vars, NEW c \in Cmds, saved[c] # NoResult
  PROVE  saved'[c] # NoResult
<1>. USE DEF history, server
<1>1. ASSUME NEW p \in Passes, NEW d \in Cmds, Record(p, d) PROVE saved'[c] # NoResult
  BY <1>1 DEF Record, ResultReady, TypeOK, Results, NoResult
<1>2. ASSUME NEW p \in Passes, AgentStep(p) PROVE saved'[c] # NoResult
  <2>1. ASSUME NEW d \in Cmds, Execute(p, d) \/ Post(p, d) PROVE UNCHANGED saved
    BY <2>1 DEF Execute, Ran, Post, Posted
  <2>. QED
    BY <1>1, <1>2, <2>1 DEF AgentStep, PollSelect, SkipExecuted, Decide, Finish
<1>3. CASE (\E h \in Handlers : Serve(h)) \/ ServerRestart \/ Tick \/ BeginRoutine \/ BeginElevated
  BY <1>3 DEF Serve, PollMark, PollReply, ServerRestart, Tick, BeginRoutine, BeginElevated
<1>4. ASSUME NEW p \in Passes, PollLost(p) \/ Kill(p) \/ \E d \in Cmds : PostLost(p, d)
      PROVE  saved'[c] # NoResult
  BY <1>4 DEF PollLost, Kill, Die, PostLost, Posted
<1>5. CASE MachineRestart \/ UNCHANGED vars \/ \E d \in Cmds : CreateCommand(d)
  BY <1>5 DEF MachineRestart, Die, vars, CreateCommand
<1>. QED
  BY <1>2, <1>3, <1>4, <1>5 DEF Next

\* Only Record brings a process to the point of posting.
LEMMA StepPosting ==
  ASSUME TypeOK, ResultReady, ClientInv, SavedInv, [Next]_vars,
         NEW p \in Passes, NEW c \in Cmds, AtPost(p, c)'
  PROVE  saved'[c] # NoResult
<1>. USE DEF history, server
<1>0. saved[c] # NoResult => saved'[c] # NoResult
  BY SavedGrows
<1>1. AtPost(p, c) => saved'[c] # NoResult
  BY <1>0 DEF SavedInv
<1>2. ASSUME UNCHANGED <<pc, queue>> PROVE AtPost(p, c)
  BY <1>2 DEF AtPost
<1>3. ASSUME NEW q \in Passes, NEW v, v # "post", pc' = [pc EXCEPT ![q] = v],
             \A r \in Passes : r # q => queue'[r] = queue[r]
      PROVE  AtPost(p, c)
  BY <1>3 DEF AtPost, TypeOK
<1>4. ASSUME NEW q \in Passes, AgentStep(q) PROVE saved'[c] # NoResult
  <2>1. ASSUME NEW h \in Handlers, PollSelect(q, h) PROVE AtPost(p, c)
    BY <2>1, <1>3 DEF PollSelect
  <2>2. ASSUME NEW d \in Cmds, SkipExecuted(q, d) PROVE AtPost(p, c)
    BY <2>2 DEF SkipExecuted, AtPost, TypeOK
  <2>3. ASSUME NEW d \in Cmds, Decide(q, d) PROVE AtPost(p, c)
    BY <2>3, <1>3 DEF Decide
  <2>4. ASSUME NEW d \in Cmds, Execute(q, d) PROVE AtPost(p, c)
    <3>1. PICK r \in Results : Ran(q, d, r)
      BY <2>4 DEF Execute, Results
    <3>. QED
      BY <3>1, <1>3 DEF Ran
  <2>5. ASSUME NEW d \in Cmds, Record(q, d) PROVE saved'[c] # NoResult
    <3>1. saved'[d] # NoResult
      BY <2>5 DEF Record, ResultReady, TypeOK, Results, NoResult
    <3>2. First(d, queue[q]) /\ UNCHANGED queue
      BY <2>5 DEF Record
    <3>3. p = q => c = d
      BY <3>2, FirstUnique DEF AtPost
    <3>4. p # q => AtPost(p, c)
      BY <2>5 DEF Record, AtPost, TypeOK
    <3>. QED
      BY <1>1, <3>1, <3>3, <3>4
  <2>6. ASSUME NEW d \in Cmds, Post(q, d) PROVE AtPost(p, c)
    BY <2>6, <1>3 DEF Post, Posted, TypeOK
  <2>7. CASE Finish(q)
    BY <2>7, <1>3, <1>1 DEF Finish
  <2>. QED
    BY <1>1, <1>4, <2>1, <2>2, <2>3, <2>4, <2>5, <2>6, <2>7 DEF AgentStep
<1>5. CASE \E h \in Handlers : Serve(h)
  <2>1. ASSUME NEW h \in Handlers, NEW d \in Cmds, PollMark(h, d) PROVE AtPost(p, c)
    BY <2>1, <1>2 DEF PollMark
  <2>2. ASSUME NEW h \in Handlers, NEW q \in Passes, PollReply(h, q) PROVE AtPost(p, c)
    BY <2>2, <1>3 DEF PollReply, TypeOK
  <2>. QED
    BY <1>1, <1>5, <2>1, <2>2 DEF Serve
<1>6. CASE ServerRestart
  BY <1>1, <1>6 DEF ServerRestart, AtPost, TypeOK
<1>7. ASSUME NEW d \in Cmds, CreateCommand(d) PROVE AtPost(p, c)
  BY <1>7, <1>2 DEF CreateCommand
<1>8. CASE Tick \/ UNCHANGED vars
  BY <1>1, <1>2, <1>8 DEF Tick, vars
<1>9. CASE BeginRoutine
  BY <1>1, <1>3, <1>9 DEF BeginRoutine
<1>10. CASE BeginElevated
  BY <1>1, <1>3, <1>10 DEF BeginElevated
<1>11. ASSUME NEW q \in Passes, PollLost(q) PROVE AtPost(p, c)
  BY <1>11, <1>3 DEF PollLost
<1>12. ASSUME NEW q \in Passes, NEW d \in Cmds, PostLost(q, d) PROVE AtPost(p, c)
  BY <1>12, <1>3 DEF PostLost, Posted, TypeOK
<1>13. ASSUME NEW P, Die(P) PROVE AtPost(p, c)
  BY <1>13 DEF Die, AtPost, TypeOK
<1>14. ASSUME NEW q \in Passes, Kill(q) PROVE AtPost(p, c)
  BY <1>13, <1>14 DEF Kill
<1>15. CASE MachineRestart
  BY <1>1, <1>13, <1>15 DEF MachineRestart
<1>. QED
  BY <1>1, <1>4, <1>5, <1>6, <1>7, <1>8, <1>9, <1>10, <1>11, <1>12, <1>14, <1>15 DEF Next

\* Only a post puts a result on the server.
LEMMA StepReported ==
  ASSUME TypeOK, ResultReady, SavedInv, [Next]_vars, NEW c \in Cmds, status'[c] \in Results
  PROVE  saved'[c] # NoResult
<1>. USE DEF history, server
<1>1. status[c] \in Results => saved'[c] # NoResult
  BY SavedGrows DEF SavedInv, ReportedIsSaved
<1>2. ASSUME NEW p \in Passes, NEW d \in Cmds, Post(p, d) PROVE saved'[c] # NoResult
  <2>1. c = d => saved[c] # NoResult
    BY <1>2 DEF Post, Posted, SavedInv, AtPost
  <2>2. c # d => status[c] = status'[c]
    BY <1>2 DEF Post, TypeOK
  <2>. QED
    BY <1>1, <2>1, <2>2, SavedGrows
<1>3. ASSUME NEW p \in Passes, AgentStep(p) PROVE saved'[c] # NoResult
  <2>1. ASSUME NEW d \in Cmds, Execute(p, d) PROVE UNCHANGED status
    BY <2>1 DEF Execute, Ran
  <2>. QED
    BY <1>1, <1>2, <1>3, <2>1 DEF AgentStep, PollSelect, SkipExecuted, Decide, Record, Finish
<1>4. ASSUME NEW h \in Handlers, NEW d \in Cmds, PollMark(h, d) PROVE status[c] \in Results
  BY <1>4 DEF PollMark, TypeOK, Results
<1>5. ASSUME NEW d \in Cmds, CreateCommand(d) PROVE status[c] \in Results
  BY <1>5 DEF CreateCommand, TypeOK, Results
<1>6. CASE \E h \in Handlers : Serve(h)
  BY <1>1, <1>4, <1>6 DEF Serve, PollReply
<1>7. CASE ServerRestart \/ Tick \/ BeginRoutine \/ BeginElevated \/ MachineRestart \/ UNCHANGED vars
  BY <1>1, <1>7 DEF ServerRestart, Tick, BeginRoutine, BeginElevated, MachineRestart, Die, vars
<1>8. ASSUME NEW p \in Passes, PollLost(p) \/ Kill(p) \/ \E d \in Cmds : PostLost(p, d)
      PROVE  saved'[c] # NoResult
  BY <1>1, <1>8 DEF PollLost, Kill, Die, PostLost
<1>. QED
  BY <1>1, <1>3, <1>5, <1>6, <1>7, <1>8 DEF Next

LEMMA StepSaved == TypeOK /\ ResultReady /\ ClientInv /\ SavedInv /\ [Next]_vars => SavedInv'
BY StepPosting, StepReported DEF SavedInv, ReportedIsSaved

-----------------------------------------------------------------------------
(* NoUninvitedReboot *)

RebootIssued == \E c \in Cmds : Created(c) /\ Kind[c] = "reboot"
RebootAsked  == restarting \/ job = "reboot"

LEMMA StepReboot == TypeOK /\ ResultReady /\ DeliveryInv /\ NoUninvitedReboot /\ [Next]_vars => NoUninvitedReboot'
<1>. SUFFICES ASSUME TypeOK, ResultReady, DeliveryInv, NoUninvitedReboot, [Next]_vars, RebootAsked'
     PROVE  RebootIssued'
  BY DEF NoUninvitedReboot, RebootAsked, RebootIssued
<1>. USE DEF history, server
<1>1. RebootIssued => RebootIssued'
  BY StatusGrows DEF RebootIssued
<1>2. RebootAsked => RebootIssued'
  BY <1>1 DEF NoUninvitedReboot, RebootAsked, RebootIssued
<1>3. ASSUME UNCHANGED <<restarting, job>> PROVE RebootAsked
  BY <1>3 DEF RebootAsked
<1>4. ASSUME NEW p \in Passes, NEW c \in Cmds, Execute(p, c) PROVE RebootIssued'
  <2>1. PICK r \in Results : Ran(p, c, r)
    BY <1>4 DEF Execute, Results
  <2>2. Created(c)
    BY <2>1 DEF Ran, First, DeliveryInv, Offered, Created
  <2>3. CASE Kind[c] = "reboot"
    BY <1>1, <2>2, <2>3 DEF RebootIssued
  <2>4. CASE Kind[c] # "reboot"
    BY <1>2, <1>3, <1>4, <2>4 DEF Execute
  <2>. QED
    BY <2>3, <2>4
<1>5. ASSUME NEW p \in Passes, AgentStep(p) PROVE RebootIssued'
  <2>1. CASE Finish(p)
    <3>1. job' = job \/ job' = NoJob
      BY <2>1 DEF Finish
    <3>2. RebootAsked
      BY <2>1, <3>1 DEF Finish, RebootAsked, NoJob
    <3>. QED
      BY <1>2, <3>2
  <2>. QED
    BY <1>2, <1>3, <1>4, <1>5, <2>1 DEF AgentStep, PollSelect, SkipExecuted, Decide, Record, Post, Posted
<1>6. CASE BeginRoutine
  BY <1>2, <1>3, <1>6 DEF BeginRoutine, StageJob, RebootAsked
<1>7. CASE BeginElevated
  BY <1>2, <1>3, <1>7 DEF BeginElevated, RebootAsked
<1>8. CASE MachineRestart
  BY <1>2, <1>8 DEF MachineRestart, Die, RebootAsked
<1>9. CASE (\E h \in Handlers : Serve(h)) \/ ServerRestart \/ Tick \/ UNCHANGED vars \/ \E c \in Cmds : CreateCommand(c)
  BY <1>2, <1>3, <1>9 DEF Serve, PollMark, PollReply, ServerRestart, Tick, vars, CreateCommand
<1>10. ASSUME NEW p \in Passes, PollLost(p) \/ Kill(p) \/ \E d \in Cmds : PostLost(p, d)
       PROVE  RebootIssued'
  BY <1>2, <1>3, <1>10 DEF PollLost, Kill, Die, PostLost, Posted
<1>. QED
  BY <1>5, <1>6, <1>7, <1>8, <1>9, <1>10 DEF Next

-----------------------------------------------------------------------------
\* The strengthened invariant holds in every behaviour of the channel.
THEOREM Invariance == Spec => []IInv
<1>1. IInv /\ [Next]_vars => IInv'
  BY StepType, StepReady, StepClient, StepRuns, StepDelivery, StepSaved, StepReboot DEF IInv
<1>. QED
  BY InitInv, <1>1, PTL DEF Spec

\* A process runs a command at most once more often than it was killed between
\* running it and saving its result: the local half of C5.
THEOREM RunsAreAccountedFor == Spec => []RunsAccountedFor
<1>1. IInv => RunsAccountedFor
  BY DEF IInv, RunsInv, RunsAccountedFor
<1>. QED
  BY Invariance, <1>1, PTL

\* poll_commands marks every row before it answers: what an agent holds or ran
\* is not pending on the server.
THEOREM PortalIsNeverBehind == Spec => []PortalShowsDelivery
<1>1. IInv => PortalShowsDelivery
  BY DEF IInv, DeliveryInv, Offered, PortalShowsDelivery
<1>. QED
  BY Invariance, <1>1, PTL

\* Record-ExecutedCommand precedes Send-CommandResult: a result on the server
\* is saved on the agent.
THEOREM ReportsAreSaved == Spec => []ReportedIsSaved
<1>1. IInv => ReportedIsSaved
  BY DEF IInv, SavedInv
<1>. QED
  BY Invariance, <1>1, PTL

\* The machine restarts only because an operator issued a reboot command.
THEOREM RebootsAreInvited == Spec => []NoUninvitedReboot
<1>1. IInv => NoUninvitedReboot
  BY DEF IInv
<1>. QED
  BY Invariance, <1>1, PTL
-----------------------------------------------------------------------------
(* The channel implements CommandLifecycle *)

\* What a process is about to save or to post, it ran.
RanInv == \A p \in Passes, c \in Cmds : AtRecord(p, c) \/ AtPost(p, c) => runs[p][c] > 0

LEMMA StepRan == TypeOK /\ RanInv /\ [Next]_vars => RanInv'
<1>. DEFINE At(p, c) == pc[p] \in {"record", "post"} /\ First(c, queue[p])
<1>. SUFFICES ASSUME TypeOK, RanInv, [Next]_vars, NEW p \in Passes, NEW c \in Cmds, At(p, c)'
     PROVE  runs'[p][c] > 0
  BY DEF RanInv, AtRecord, AtPost
<1>. USE DEF history, server
<1>0. At(p, c) => runs[p][c] > 0
  BY DEF RanInv, AtRecord, AtPost
<1>1. ASSUME UNCHANGED <<pc, queue, runs>> PROVE runs'[p][c] > 0
  BY <1>0, <1>1
<1>2. ASSUME UNCHANGED runs, NEW q \in Passes, NEW v, pc' = [pc EXCEPT ![q] = v],
             v \notin {"record", "post"} \/ (pc[q] = "record" /\ UNCHANGED queue),
             \A r \in Passes : r # q => queue'[r] = queue[r]
      PROVE  runs'[p][c] > 0
  BY <1>0, <1>2 DEF TypeOK
<1>3. ASSUME NEW P, Die(P) PROVE runs'[p][c] > 0
  BY <1>0, <1>3 DEF Die
<1>4. ASSUME NEW q \in Passes, NEW d \in Cmds, NEW r, Ran(q, d, r) PROVE runs'[p][c] > 0
  <2>1. CASE p = q
    <3>1. c = d
      BY <1>4, <2>1, FirstUnique DEF Ran
    <3>. QED
      BY <1>4, <2>1, <3>1 DEF Ran, TypeOK
  <2>2. CASE p # q
    BY <1>0, <1>4, <2>2 DEF Ran, TypeOK
  <2>. QED
    BY <2>1, <2>2
<1>5. ASSUME NEW q \in Passes, AgentStep(q) PROVE runs'[p][c] > 0
  <2>1. ASSUME NEW h \in Handlers, PollSelect(q, h) PROVE runs'[p][c] > 0
    BY <2>1, <1>2 DEF PollSelect
  <2>2. ASSUME NEW d \in Cmds, SkipExecuted(q, d) PROVE runs'[p][c] > 0
    BY <2>2, <1>0 DEF SkipExecuted, TypeOK
  <2>3. ASSUME NEW d \in Cmds, Decide(q, d) \/ Record(q, d) PROVE runs'[p][c] > 0
    BY <2>3, <1>2 DEF Decide, Record
  <2>4. ASSUME NEW d \in Cmds, Execute(q, d) PROVE runs'[p][c] > 0
    BY <2>4, <1>4 DEF Execute
  <2>5. ASSUME NEW d \in Cmds, Post(q, d) PROVE runs'[p][c] > 0
    BY <2>5, <1>2 DEF Post, Posted, TypeOK
  <2>6. CASE Finish(q)
    BY <2>6, <1>2 DEF Finish
  <2>. QED
    BY <1>5, <2>1, <2>2, <2>3, <2>4, <2>5, <2>6 DEF AgentStep
<1>6. CASE \E h \in Handlers : Serve(h)
  <2>1. ASSUME NEW h \in Handlers, NEW q \in Passes, PollReply(h, q) PROVE runs'[p][c] > 0
    BY <2>1, <1>2 DEF PollReply, TypeOK
  <2>. QED
    BY <1>1, <1>6, <2>1 DEF Serve, PollMark
<1>7. CASE ServerRestart
  BY <1>0, <1>7 DEF ServerRestart
<1>8. CASE BeginRoutine \/ BeginElevated
  BY <1>2, <1>8 DEF BeginRoutine, BeginElevated
<1>9. ASSUME NEW q \in Passes, PollLost(q) PROVE runs'[p][c] > 0
  BY <1>2, <1>9 DEF PollLost
<1>10. ASSUME NEW q \in Passes, NEW d \in Cmds, PostLost(q, d) PROVE runs'[p][c] > 0
  BY <1>2, <1>10 DEF PostLost, Posted, TypeOK
<1>11. CASE (\E q \in Passes : Kill(q)) \/ MachineRestart
  BY <1>3, <1>11 DEF Kill, MachineRestart
<1>12. CASE Tick \/ UNCHANGED vars \/ \E d \in Cmds : CreateCommand(d)
  BY <1>1, <1>12 DEF Tick, vars, CreateCommand
<1>. QED
  BY <1>5, <1>6, <1>7, <1>8, <1>9, <1>10, <1>11, <1>12 DEF Next

RanSet == {c \in Cmds : \E p \in Passes : runs[p][c] > 0}
ToOffer == [h \in Handlers |-> handler[h].todo]

\* A poll whose client is gone offers what it would have offered.
LEMMA AbandonFrame ==
  ASSUME TypeOK, NEW P, Abandon(P)
  PROVE  UNCHANGED ToOffer
<1>1. \A h \in Handlers : handler'[h].todo = handler[h].todo
  BY DEF Abandon, TypeOK
<1>. QED
  BY <1>1 DEF ToOffer

\* A poll selects among the commands that are open, whatever their age.
LEMMA SelectIsPoll ==
  ASSUME TypeOK, NEW p \in Passes, NEW h \in Handlers, PollSelect(p, h)
  PROVE  Lifecycle!Poll(h)
<1>1. handler[h].todo = {}
  BY DEF PollSelect, Idle
<1>2. Deliverable \in SUBSET Lifecycle!Open
  BY DEF Deliverable, Lifecycle!Open
<1>3. ToOffer' = [ToOffer EXCEPT ![h] = Deliverable]
  BY DEF ToOffer, PollSelect, TypeOK
<1>4. UNCHANGED <<status, RanSet>>
  BY DEF PollSelect, server, history, RanSet
<1>. QED
  BY <1>1, <1>2, <1>3, <1>4 DEF Lifecycle!Poll, ToOffer, RanSet

\* The UPDATE marks a row that this poll selected, whatever it shows by now.
LEMMA MarkIsOffer ==
  ASSUME TypeOK, NEW h \in Handlers, NEW c \in Cmds, PollMark(h, c)
  PROVE  Lifecycle!Offer(h, c)
<1>1. c \in handler[h].todo
  BY DEF PollMark, First
<1>2. \A g \in Handlers : handler'[g].todo = IF g = h THEN handler[h].todo \ {c} ELSE handler[g].todo
  BY DEF PollMark, TypeOK
<1>3. ToOffer' = [ToOffer EXCEPT ![h] = handler[h].todo \ {c}]
  BY <1>2 DEF ToOffer
<1>4. UNCHANGED RanSet
  BY DEF PollMark, history, RanSet
<1>. QED
  BY <1>1, <1>3, <1>4 DEF PollMark, Lifecycle!Offer, ToOffer, RanSet

\* What runs was offered before, by DeliveryInv.
LEMMA ExecuteIsRun ==
  ASSUME TypeOK, DeliveryInv, NEW p \in Passes, NEW c \in Cmds, Execute(p, c)
  PROVE  Lifecycle!Run(c)
<1>1. status[c] \notin {"absent", "pending"}
  BY DEF Execute, Ran, First, DeliveryInv, Offered
<1>2. runs' = [runs EXCEPT ![p][c] = @ + 1] /\ UNCHANGED <<status, handler>>
  BY DEF Execute, Ran, server
<1>3. \A q \in Passes, d \in Cmds : runs'[q][d] > 0 <=> runs[q][d] > 0 \/ (q = p /\ d = c)
  BY <1>2 DEF TypeOK
<1>4. RanSet' = RanSet \cup {c}
  BY <1>3 DEF RanSet
<1>. QED
  BY <1>1, <1>2, <1>4 DEF Lifecycle!Run, RanSet, ToOffer

\* Every step is one of the life cycle's or changes nothing it speaks of.
LEMMA LifecycleStep ==
  ASSUME TypeOK, ResultReady, DeliveryInv, RanInv, [Next]_vars
  PROVE  [Lifecycle!Next]_<<status, RanSet, ToOffer>>
<1>. DEFINE Abstract == \/ \E c \in Cmds : \/ Lifecycle!Issue(c) \/ Lifecycle!Run(c)
                                           \/ \E r \in Results : Lifecycle!Report(c, r)
                        \/ \E h \in Handlers : \/ Lifecycle!Poll(h)
                                               \/ \E c \in Cmds : Lifecycle!Offer(h, c)
                        \/ Lifecycle!Restart
                        \/ UNCHANGED <<status, RanSet, ToOffer>>
<1>. SUFFICES Abstract
  BY DEF Lifecycle!Next, Lifecycle!Results, Results
<1>. USE DEF history, server
<1>0. ASSUME UNCHANGED <<status, runs, handler>> PROVE Abstract
  BY <1>0 DEF RanSet, ToOffer
<1>00. ASSUME UNCHANGED <<status, runs>>, NEW P, Abandon(P) PROVE Abstract
  BY <1>00, AbandonFrame DEF RanSet
<1>1. ASSUME NEW c \in Cmds, CreateCommand(c) PROVE Abstract
  <2>1. Lifecycle!Issue(c)
    BY <1>1 DEF CreateCommand, Lifecycle!Issue
  <2>. QED
    BY <2>1
<1>2. ASSUME NEW h \in Handlers, NEW c \in Cmds, PollMark(h, c) PROVE Abstract
  BY <1>2, MarkIsOffer
<1>3. ASSUME NEW p \in Passes, NEW c \in Cmds, Execute(p, c) PROVE Abstract
  BY <1>3, ExecuteIsRun
<1>4. ASSUME NEW p \in Passes, NEW c \in Cmds, Post(p, c) PROVE Abstract
  <2>1. result[p] \in Results
    BY <1>4 DEF Post, Posted, ResultReady
  <2>2. c \in RanSet
    BY <1>4 DEF Post, Posted, RanInv, AtPost, RanSet
  <2>3. RanSet' = RanSet /\ UNCHANGED handler
    BY <1>4 DEF Post, Posted, RanSet
  <2>4. Lifecycle!Report(c, result[p])
    BY <1>4, <2>1, <2>2, <2>3 DEF Post, Lifecycle!Report, RanSet
  <2>. QED
    BY <2>1, <2>4
<1>5. ASSUME NEW p \in Passes, AgentStep(p) PROVE Abstract
  <2>1. ASSUME NEW h \in Handlers, PollSelect(p, h) PROVE Abstract
    BY <2>1, SelectIsPoll
  <2>2. ASSUME NEW c \in Cmds, SkipExecuted(p, c) \/ Decide(p, c) \/ Record(p, c) PROVE Abstract
    BY <2>2, <1>0 DEF SkipExecuted, Decide, Record
  <2>3. CASE Finish(p)
    BY <2>3, <1>0 DEF Finish
  <2>. QED
    BY <1>3, <1>4, <1>5, <2>1, <2>2, <2>3 DEF AgentStep
<1>6. ASSUME NEW h \in Handlers, NEW p \in Passes, PollReply(h, p) PROVE Abstract
  <2>1. \A g \in Handlers : handler'[g].todo = handler[g].todo
    BY <1>6 DEF PollReply, Idle, TypeOK
  <2>2. UNCHANGED <<status, runs>>
    BY <1>6 DEF PollReply
  <2>. QED
    BY <2>1, <2>2 DEF ToOffer, RanSet
<1>7. CASE ServerRestart
  <2>1. ToOffer' = [h \in Handlers |-> {}] /\ UNCHANGED <<status, RanSet>>
    BY <1>7 DEF ServerRestart, ToOffer, Idle, RanSet
  <2>. QED
    BY <2>1 DEF Lifecycle!Restart, ToOffer, RanSet
<1>8. CASE Tick \/ BeginRoutine \/ BeginElevated \/ UNCHANGED vars
  BY <1>0, <1>8 DEF Tick, BeginRoutine, BeginElevated, vars
<1>9. ASSUME NEW p \in Passes, PollLost(p) \/ Kill(p) PROVE Abstract
  BY <1>00, <1>9 DEF PollLost, Kill, Die
<1>10. ASSUME NEW p \in Passes, NEW c \in Cmds, PostLost(p, c) PROVE Abstract
  BY <1>0, <1>10 DEF PostLost, Posted
<1>11. CASE MachineRestart
  BY <1>00, <1>11 DEF MachineRestart, Die
<1>. QED
  BY <1>1, <1>2, <1>5, <1>6, <1>7, <1>8, <1>9, <1>10, <1>11 DEF Next, Serve

\* The Commands page shows a life cycle of CommandLifecycle, for any number of
\* processes and polls and whatever is lost, killed or restarted: a result is
\* shown only for a command that ran, a command runs only once it is shown as
\* delivered, and only a poll that selected a command before its report shows
\* it as open again.
THEOREM ChannelImplementsLifecycle == Spec => LifecycleSpec
<1>1. Init => RanInv
  BY DEF Init, RanInv, AtRecord, AtPost
<1>2. IInv /\ RanInv /\ [Next]_vars => RanInv'
  BY StepRan DEF IInv
<1>3. Init => Lifecycle!Init
  BY DEF Init, Lifecycle!Init, Idle
<1>4. IInv /\ RanInv /\ [Next]_vars
        => [Lifecycle!Next]_<<status, {c \in Cmds : \E p \in Passes : runs[p][c] > 0},
                              [h \in Handlers |-> handler[h].todo]>>
  BY LifecycleStep DEF IInv, RanSet, ToOffer
<1>. QED
  BY <1>1, <1>2, <1>3, <1>4, Invariance, PTL DEF Spec, LifecycleSpec, Lifecycle!Spec
=============================================================================
