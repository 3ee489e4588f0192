-------------------------- MODULE CommandLifecycle --------------------------
(***************************************************************************)
(* What the command channel promises to the operator who watches the       *)
(* Commands page.  A command is issued, offered by a poll, run, and        *)
(* reported.  A poll offers the commands that were open when it began, so  *)
(* one that is still under way when the report comes shows its command as  *)
(* open again; no later poll does.                                         *)
(***************************************************************************)
CONSTANTS Cmds, Polls

VARIABLES
  phase,   \* what the portal shows for each command
  ran,     \* the commands that ran on the agent
  polls    \* what each poll under way has still to offer

Results == {"completed", "failed"}

Init ==
  /\ phase = [c \in Cmds |-> "absent"]
  /\ ran = {}
  /\ polls = [h \in Polls |-> {}]

Open == {c \in Cmds : phase[c] \in {"pending", "picked_up"}}

Issue(c) ==
  /\ phase[c] = "absent"
  /\ phase' = [phase EXCEPT ![c] = "pending"]
  /\ UNCHANGED <<ran, polls>>

Poll(h) ==
  /\ polls[h] = {}
  /\ \E S \in SUBSET Open : polls' = [polls EXCEPT ![h] = S]
  /\ UNCHANGED <<phase, ran>>

Offer(h, c) ==
  /\ c \in polls[h]
  /\ phase' = [phase EXCEPT ![c] = "picked_up"]
  /\ polls' = [polls EXCEPT ![h] = @ \ {c}]
  /\ UNCHANGED ran

Restart ==
  /\ polls' = [h \in Polls |-> {}]
  /\ UNCHANGED <<phase, ran>>

Run(c) ==
  /\ phase[c] \notin {"absent", "pending"}
  /\ ran' = ran \cup {c}
  /\ UNCHANGED <<phase, polls>>

Report(c, r) ==
  /\ c \in ran
  /\ phase' = [phase EXCEPT ![c] = r]
  /\ UNCHANGED <<ran, polls>>

Next ==
  \/ \E c \in Cmds : Issue(c) \/ Run(c) \/ \E r \in Results : Report(c, r)
  \/ \E h \in Polls : Poll(h) \/ \E c \in Cmds : Offer(h, c)
  \/ Restart

Spec == Init /\ [][Next]_<<phase, ran, polls>>
=============================================================================
