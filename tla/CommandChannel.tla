--------------------------- MODULE CommandChannel ---------------------------
(***************************************************************************)
(* The remote-command channel: rows of the server's commands table, the    *)
(* poll and result handlers of Enterprise/api/app/main.py, and the agent   *)
(* processes of Agent-Collect.ps1 that poll, run, save and report.         *)
(*                                                                         *)
(* Two agent processes share one data directory: the routine task and the  *)
(* on-demand elevated task.  Each request may be lost and each process may *)
(* be killed between two of its steps.  The poll handler issues one UPDATE *)
(* per row with an await between them, so two polls interleave and a       *)
(* handler whose client has gone still runs to its end.                    *)
(***************************************************************************)
EXTENDS Integers, FiniteSets

CONSTANTS
  Cmds,               \* ids of the commands of one agent (SERIAL)
  Kind,               \* Kind[c] \in {"reboot", "other"}
  Passes,             \* the agent processes at work
  Handlers,           \* poll requests the server can be serving at once
  Window,             \* the 5 minutes of the poll's WHERE clause, in ticks
  PollLimit,          \* its LIMIT (10)
  SlowCycle,          \* TRUE: the routine task rests for longer than the window (30 min)
  MaxFaults,          \* bound on lost messages, kills and server restarts
  MaxStagings,        \* bound on the reboot and update requests staged
  MaxRestarts,        \* bound on the restarts of the machine
  MaxElevated         \* bound on the passes of the on-demand elevated task

ASSUME CommandAssumption ==
  /\ Cmds \subseteq Nat
  /\ Kind \in [Cmds -> {"reboot", "other"}]
  /\ Passes \subseteq {"routine", "elevated"}
  /\ Window \in Nat \ {0}
  /\ PollLimit \in Nat \ {0}
  /\ SlowCycle \in BOOLEAN
  /\ MaxFaults \in Nat
  /\ MaxStagings \in Nat
  /\ MaxRestarts \in Nat
  /\ MaxElevated \in Nat

NotPicked == -1                       \* picked_up_at IS NULL
Nobody    == "nobody"
NoResult  == "none"
NoJob     == "no job"
Results   == {"completed", "failed"}
Statuses  == {"absent", "pending", "picked_up"} \cup Results

VARIABLES
  status, pickedAge,                  \* server: the commands table
  handler,                            \* server: polls being served
  saved, job,                         \* agent disk: executed_commands, elevated-job.json
  pc, queue, result,                  \* agent processes
  restarting,                         \* the machine is going down
  slept,                              \* time since the routine cycle ended
  runs, unsaved, spoiled, faults, stagings, restarts, elevations   \* history

server  == <<status, pickedAge>>
history == <<runs, unsaved, spoiled, stagings, elevations>>
vars == <<server, handler, saved, job, pc, queue, result, restarting, slept, faults, restarts, history>>

Idle == [client |-> Nobody, todo |-> {}, reply |-> {}]

TypeOK ==
  /\ status \in [Cmds -> Statuses]
  /\ pickedAge \in [Cmds -> {NotPicked} \cup 0..Window]
  /\ handler \in [Handlers -> [client : Passes \cup {Nobody},
                               todo : SUBSET Cmds, reply : SUBSET Cmds]]
  /\ saved \in [Cmds -> Results \cup {NoResult}]
  /\ job \in {NoJob, "reboot", "update"}
  /\ pc \in [Passes -> {"idle", "ready", "polling", "check", "execute", "record", "post"}]
  /\ queue \in [Passes -> SUBSET Cmds]
  /\ result \in [Passes -> Results \cup {NoResult}]
  /\ restarting \in BOOLEAN
  /\ slept \in 0..Window
  /\ runs \in [Passes -> [Cmds -> Nat]]
  /\ unsaved \in [Passes -> [Cmds -> Nat]]
  /\ spoiled \subseteq Cmds
  /\ faults \in Nat /\ stagings \in Nat /\ restarts \in Nat /\ elevations \in Nat

Init ==
  /\ status = [c \in Cmds |-> "absent"]
  /\ pickedAge = [c \in Cmds |-> NotPicked]
  /\ handler = [h \in Handlers |-> Idle]
  /\ saved = [c \in Cmds |-> NoResult]
  /\ job = NoJob
  /\ pc = [p \in Passes |-> "idle"]
  /\ queue = [p \in Passes |-> {}]
  /\ result = [p \in Passes |-> NoResult]
  /\ restarting = FALSE
  /\ slept = Window
  /\ runs = [p \in Passes |-> [c \in Cmds |-> 0]]
  /\ unsaved = [p \in Passes |-> [c \in Cmds |-> 0]]
  /\ spoiled = {}
  /\ faults = 0 /\ stagings = 0 /\ restarts = 0 /\ elevations = 0

-----------------------------------------------------------------------------
(* Helpers *)

First(c, S) == c \in S /\ \A d \in S : c <= d       \* ORDER BY id ASC

(* Each operator named Faulty... is a plausible slip in the definition that
   follows it; no specification uses one.  They confirm that the properties
   can fail. *)

FaultyDeliverableForever ==           \* the window clause is dropped
  LET rows == {c \in Cmds : status[c] \in {"pending", "picked_up"}}
  IN  {c \in rows : Cardinality({d \in rows : d < c}) < PollLimit}

FaultyDeliverableReported ==          \* only the window is looked at
  LET rows == {c \in Cmds : /\ status[c] # "absent"
                            /\ pickedAge[c] = NotPicked \/ pickedAge[c] < Window}
  IN  {c \in rows : Cardinality({d \in rows : d < c}) < PollLimit}

\* The rows a poll selects: the PollLimit lowest ids not yet finished whose
\* picked_up_at is NULL or younger than the window.
Deliverable ==
  LET rows == {c \in Cmds : /\ status[c] \in {"pending", "picked_up"}
                            /\ pickedAge[c] = NotPicked \/ pickedAge[c] < Window}
  IN  {c \in rows : Cardinality({d \in rows : d < c}) < PollLimit}

\* The handlers of the processes in P lose their client but run on.
Abandon(P) ==
  handler' = [h \in Handlers |->
                IF handler[h].client \in P
                THEN [client |-> Nobody, todo |-> handler[h].todo, reply |-> {}]
                ELSE handler[h]]

\* What the processes in P hold: commands to work off, and answers to come.
Held(P) ==
  {c \in Cmds : \/ \E p \in P : c \in queue[p]
                \/ \E h \in Handlers : handler[h].client \in P /\ c \in handler[h].reply}

StageJob(action) ==
  /\ stagings < MaxStagings
  /\ stagings' = stagings + 1
  /\ job' = action

Fault == faults < MaxFaults /\ faults' = faults + 1

-----------------------------------------------------------------------------
(* Server *)

CreateCommand(c) ==
  /\ status[c] = "absent"
  /\ \A d \in Cmds : d < c => status[d] # "absent"
  /\ status' = [status EXCEPT ![c] = "pending"]
  /\ UNCHANGED <<pickedAge, handler, saved, job, pc, queue, result, restarting, slept, faults, restarts, history>>

\* The SELECT of poll_commands, on behalf of process p.
PollSelect(p, h) ==
  /\ pc[p] = "ready"
  /\ handler[h] = Idle
  /\ handler' = [handler EXCEPT ![h] = [client |-> p, todo |-> Deliverable, reply |-> Deliverable]]
  /\ pc' = [pc EXCEPT ![p] = "polling"]
  /\ UNCHANGED <<server, saved, job, queue, result, restarting, slept, faults, restarts, history>>

\* One UPDATE of the loop: no guard on the row's present status.
PollMark(h, c) ==
  /\ First(c, handler[h].todo)
  /\ handler' = [handler EXCEPT ![h].todo = @ \ {c}]
  /\ status' = [status EXCEPT ![c] = "picked_up"]
  /\ pickedAge' = [pickedAge EXCEPT ![c] = 0]
  /\ UNCHANGED <<saved, job, pc, queue, result, restarting, slept, faults, restarts, history>>

FaultyPollReply(h, p) ==              \* answers before the rows are marked
  /\ handler[h].client = p
  /\ handler' = [handler EXCEPT ![h] = [@ EXCEPT !.client = Nobody]]
  /\ queue' = [queue EXCEPT ![p] = handler[h].reply]
  /\ pc' = [pc EXCEPT ![p] = "check"]
  /\ UNCHANGED <<server, saved, job, result, restarting, slept, faults, restarts, history>>

\* All rows are marked: the response reaches its process.
PollReply(h, p) ==
  /\ handler[h].client = p
  /\ handler[h].todo = {}
  /\ handler' = [handler EXCEPT ![h] = Idle]
  /\ queue' = [queue EXCEPT ![p] = handler[h].reply]
  /\ pc' = [pc EXCEPT ![p] = "check"]
  /\ UNCHANGED <<server, saved, job, result, restarting, slept, faults, restarts, history>>

\* The server process restarts: polls being served end where they stand and
\* their clients see a connection error.
ServerRestart ==
  /\ \E h \in Handlers : handler[h] # Idle
  /\ Fault
  /\ handler' = [h \in Handlers |-> Idle]
  /\ pc' = [p \in Passes |-> IF pc[p] = "polling" THEN "check" ELSE pc[p]]
  /\ spoiled' = spoiled \cup UNION {handler[h].reply \ handler[h].todo : h \in Handlers}
  /\ UNCHANGED <<server, saved, job, queue, result, restarting, slept, restarts, runs, unsaved, stagings, elevations>>

Tick ==
  /\ slept < Window \/ \E c \in Cmds : pickedAge[c] \in 0 .. Window - 1
  /\ slept' = IF slept < Window THEN slept + 1 ELSE slept
  /\ pickedAge' = [c \in Cmds |-> IF pickedAge[c] \in 0 .. Window - 1
                                  THEN pickedAge[c] + 1 ELSE pickedAge[c]]
  /\ UNCHANGED <<status, handler, saved, job, pc, queue, result, restarting, faults, restarts, history>>

-----------------------------------------------------------------------------
(* Agent *)

\* A routine cycle begins; Update-AgentIfNeeded may stage an install first.
BeginRoutine ==
  /\ "routine" \in Passes
  /\ pc["routine"] = "idle"
  /\ slept = Window
  /\ pc' = [pc EXCEPT !["routine"] = "ready"]
  /\ \/ UNCHANGED <<job, stagings>>
     \/ StageJob("update")
  /\ UNCHANGED <<server, handler, saved, queue, result, restarting, slept, faults, restarts, runs, unsaved, spoiled, elevations>>

FaultyBeginElevated ==                \* takes any staged request for a reboot
  /\ "elevated" \in Passes
  /\ pc["elevated"] = "idle"
  /\ elevations < MaxElevated
  /\ elevations' = elevations + 1
  /\ pc' = [pc EXCEPT !["elevated"] = "ready"]
  /\ restarting' = (restarting \/ job # NoJob)
  /\ UNCHANGED <<server, handler, saved, job, queue, result, slept, faults, restarts, runs, unsaved, stagings, spoiled>>

\* An elevated pass begins: a staged reboot is performed, its file is kept.
BeginElevated ==
  /\ "elevated" \in Passes
  /\ pc["elevated"] = "idle"
  /\ elevations < MaxElevated
  /\ elevations' = elevations + 1
  /\ pc' = [pc EXCEPT !["elevated"] = "ready"]
  /\ \/ /\ job = "reboot"
        /\ restarting' = TRUE
     \/ /\ job # "reboot"
        /\ UNCHANGED restarting
  /\ UNCHANGED <<server, handler, saved, job, queue, result, slept, faults, restarts, runs, unsaved, stagings, spoiled>>

\* The poll request or its response is lost, or the client times out:
\* Get-PendingCommands returns the empty list.
PollLost(p) ==
  /\ pc[p] \in {"ready", "polling"}
  /\ Fault
  /\ Abandon({p})
  /\ spoiled' = spoiled \cup Held({p})
  /\ pc' = [pc EXCEPT ![p] = "check"]
  /\ UNCHANGED <<server, saved, job, queue, result, restarting, slept, restarts, runs, unsaved, stagings, elevations>>

FaultySkipExecuted(p, c) ==           \* posts, but the process's own empty result
  /\ pc[p] = "check"
  /\ First(c, queue[p])
  /\ saved[c] # NoResult
  /\ queue' = [queue EXCEPT ![p] = @ \ {c}]
  /\ status' = [status EXCEPT ![c] = result[p]]
  /\ UNCHANGED <<pickedAge, handler, saved, job, pc, result, restarting, slept, faults, restarts, history>>

\* Get-ExecutedCommand found a saved result: skip, nothing is posted.
SkipExecuted(p, c) ==
  /\ pc[p] = "check"
  /\ First(c, queue[p])
  /\ saved[c] # NoResult
  /\ queue' = [queue EXCEPT ![p] = @ \ {c}]
  /\ UNCHANGED <<server, handler, saved, job, pc, result, restarting, slept, faults, restarts, history>>

FaultyDecide(p, c) ==                 \* the saved result is not looked up
  /\ pc[p] = "check"
  /\ First(c, queue[p])
  /\ pc' = [pc EXCEPT ![p] = "execute"]
  /\ UNCHANGED <<server, handler, saved, job, queue, result, restarting, slept, faults, restarts, history>>

Decide(p, c) ==
  /\ pc[p] = "check"
  /\ First(c, queue[p])
  /\ saved[c] = NoResult
  /\ pc' = [pc EXCEPT ![p] = "execute"]
  /\ UNCHANGED <<server, handler, saved, job, queue, result, restarting, slept, faults, restarts, history>>

FaultyRan(p, c, r) ==                 \* posts before it saves
  /\ pc[p] = "execute"
  /\ First(c, queue[p])
  /\ runs' = [runs EXCEPT ![p][c] = @ + 1]
  /\ result' = [result EXCEPT ![p] = r]
  /\ pc' = [pc EXCEPT ![p] = "post"]
  /\ UNCHANGED <<server, handler, saved, queue, slept, faults, restarts, unsaved, spoiled, elevations>>

Ran(p, c, r) ==
  /\ pc[p] = "execute"
  /\ First(c, queue[p])
  /\ runs' = [runs EXCEPT ![p][c] = @ + 1]
  /\ result' = [result EXCEPT ![p] = r]
  /\ pc' = [pc EXCEPT ![p] = "record"]
  /\ UNCHANGED <<server, handler, saved, queue, slept, faults, restarts, unsaved, spoiled, elevations>>

\* Invoke-RemoteCommand.  The routine process only stages a reboot for the
\* elevated task (failed when the file cannot be written); the elevated one
\* restarts the machine itself.
Execute(p, c) ==
  \/ /\ Kind[c] = "other"
     /\ \E r \in Results : Ran(p, c, r)
     /\ UNCHANGED <<job, restarting, stagings>>
  \/ /\ Kind[c] = "reboot"
     /\ p = "routine"
     /\ \/ Ran(p, c, "completed") /\ StageJob("reboot")
        \/ Ran(p, c, "failed") /\ UNCHANGED <<job, stagings>>
     /\ UNCHANGED restarting
  \/ /\ Kind[c] = "reboot"
     /\ p = "elevated"
     /\ Ran(p, c, "completed")
     /\ restarting' = TRUE
     /\ UNCHANGED <<job, stagings>>

FaultyRecord(p, c) ==                 \* forgets the post
  /\ pc[p] = "record"
  /\ First(c, queue[p])
  /\ saved' = [saved EXCEPT ![c] = result[p]]
  /\ queue' = [queue EXCEPT ![p] = @ \ {c}]
  /\ result' = [result EXCEPT ![p] = NoResult]
  /\ pc' = [pc EXCEPT ![p] = "check"]
  /\ UNCHANGED <<server, handler, job, restarting, slept, faults, restarts, history>>

Record(p, c) ==
  /\ pc[p] = "record"
  /\ First(c, queue[p])
  /\ saved' = [saved EXCEPT ![c] = result[p]]
  /\ pc' = [pc EXCEPT ![p] = "post"]
  /\ UNCHANGED <<server, handler, job, queue, result, restarting, slept, faults, restarts, history>>

\* Send-CommandResult, and command_result on the server when it gets there.
Posted(p, c) ==
  /\ pc[p] = "post"
  /\ First(c, queue[p])
  /\ queue' = [queue EXCEPT ![p] = @ \ {c}]
  /\ result' = [result EXCEPT ![p] = NoResult]
  /\ pc' = [pc EXCEPT ![p] = "check"]
  /\ UNCHANGED <<pickedAge, handler, saved, job, restarting, slept, restarts, runs, unsaved, stagings, elevations>>

Post(p, c) ==
  /\ Posted(p, c)
  /\ status' = [status EXCEPT ![c] = result[p]]
  /\ UNCHANGED <<faults, spoiled>>

PostLost(p, c) ==
  /\ Posted(p, c)
  /\ Fault
  /\ spoiled' = spoiled \cup {c}
  /\ UNCHANGED status

\* The pass ends; the elevated one first clears whatever request is staged.
Finish(p) ==
  /\ pc[p] = "check"
  /\ queue[p] = {}
  /\ pc' = [pc EXCEPT ![p] = "idle"]
  /\ job' = IF p = "elevated" THEN NoJob ELSE job
  /\ slept' = IF p = "routine" /\ SlowCycle THEN 0 ELSE slept
  /\ UNCHANGED <<server, handler, saved, queue, result, restarting, faults, restarts, history>>

\* The processes in P die where they stand; the task may start again at once.
Die(P) ==
  /\ Abandon(P)
  /\ pc' = [p \in Passes |-> IF p \in P THEN "idle" ELSE pc[p]]
  /\ queue' = [p \in Passes |-> IF p \in P THEN {} ELSE queue[p]]
  /\ result' = [p \in Passes |-> IF p \in P THEN NoResult ELSE result[p]]
  /\ unsaved' = [p \in Passes |-> [c \in Cmds |->
                   IF p \in P /\ pc[p] = "record" /\ First(c, queue[p])
                   THEN unsaved[p][c] + 1 ELSE unsaved[p][c]]]
  /\ spoiled' = spoiled \cup Held(P)
  /\ slept' = IF "routine" \in P THEN Window ELSE slept
  /\ UNCHANGED <<server, saved, job, runs, stagings, elevations>>

\* The task is stopped, or a statement throws ($ErrorActionPreference = Stop:
\* a locked queue database, a refused Restart-Computer).
Kill(p) == pc[p] # "idle" /\ Fault /\ Die({p}) /\ UNCHANGED <<restarting, restarts>>

\* The restart that a reboot asked for takes every process down.
MachineRestart ==
  /\ restarting
  /\ restarts < MaxRestarts
  /\ restarts' = restarts + 1
  /\ restarting' = FALSE
  /\ Die(Passes)
  /\ UNCHANGED faults

-----------------------------------------------------------------------------
Serve(h) ==
  \/ \E c \in Cmds : PollMark(h, c)
  \/ \E p \in Passes : PollReply(h, p)

AgentStep(p) ==
  \/ \E h \in Handlers : PollSelect(p, h)
  \/ \E c \in Cmds : SkipExecuted(p, c) \/ Decide(p, c) \/ Execute(p, c)
                     \/ Record(p, c) \/ Post(p, c)
  \/ Finish(p)

Next ==
  \/ \E c \in Cmds : CreateCommand(c)
  \/ \E h \in Handlers : Serve(h)
  \/ ServerRestart \/ Tick
  \/ BeginRoutine \/ BeginElevated
  \/ \E p \in Passes : AgentStep(p) \/ PollLost(p) \/ Kill(p) \/ \E c \in Cmds : PostLost(p, c)
  \/ MachineRestart

Spec == Init /\ [][Next]_vars

\* What keeps happening: the routine task is scheduled for ever, a started
\* pass and a request being served run on, and time passes.  Nothing starts
\* the elevated task but an operator or a staged request.
FairSpec ==
  /\ Spec
  /\ WF_vars(Tick) /\ WF_vars(BeginRoutine)
  /\ \A h \in Handlers : WF_vars(Serve(h))
  /\ \A p \in Passes : WF_vars(AgentStep(p))

-----------------------------------------------------------------------------
(* Properties *)

Created(c) == status[c] # "absent"

\* A process that is never killed between running a command and saving its
\* result runs that command at most once, whatever the server redelivers, the
\* network loses or the other process does (Get-ExecutedCommand /
\* Record-ExecutedCommand, "at-most-once command execution").
RunsAccountedFor == \A p \in Passes, c \in Cmds : runs[p][c] <= unsaved[p][c] + 1

\* A command in an agent's hands is never shown as still pending: the handler
\* marks every row before it answers (docstring of poll_commands).
PortalShowsDelivery ==
  \A p \in Passes, c \in Cmds :
    c \in queue[p] \/ runs[p][c] > 0 => status[c] \notin {"absent", "pending"}

\* A result on the server is backed by a saved result on the agent, so a lost
\* or repeated delivery cannot make the agent run a reported command again.
ReportedIsSaved == \A c \in Cmds : status[c] \in Results => saved[c] # NoResult

\* The machine restarts, or a restart waits in the elevated request file, only
\* because an operator issued a reboot command.
NoUninvitedReboot ==
  restarting \/ job = "reboot" => \E c \in Cmds : Created(c) /\ Kind[c] = "reboot"

\* Every command is offered to the agent in the end, even when the results of
\* older commands were lost and those rows still fill the poll's LIMIT.
EventuallyOffered == \A c \in Cmds : status[c] = "pending" ~> status[c] # "pending"

\* Every command reaches a final status unless its own delivery was spoiled:
\* the answer that carried it was lost, the process that held it died, or the
\* post of its result was lost.  Nothing makes up for that: a redelivered
\* command with a saved result is skipped and not posted again.
SettlesUnlessSpoiled ==
  \A c \in Cmds : status[c] = "pending" ~> (status[c] \in Results \/ c \in spoiled)

\* The channel implements the life cycle that the Commands page shows
\* (CommandLifecycle), for both agent processes and any number of polls: a
\* result is shown only for a command that ran, a command runs only once it is
\* shown as delivered, and only a poll that selected a command before its
\* report can show it as open again.
Lifecycle == INSTANCE CommandLifecycle WITH
  Polls <- Handlers,
  phase <- status,
  ran   <- {c \in Cmds : \E p \in Passes : runs[p][c] > 0},
  polls <- [h \in Handlers |-> handler[h].todo]
LifecycleSpec == Lifecycle!Spec

\* C5, as the agent's comment states it: at-most-once command execution.
AtMostOnce ==
  \A c \in Cmds : \A p, q \in Passes :
    /\ runs[p][c] <= 1
    /\ p # q => runs[p][c] + runs[q][c] <= 1
=============================================================================
