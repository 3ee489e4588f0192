----------------------------- MODULE EventFeed -----------------------------
(***************************************************************************)
(* What the agent's outbox and the server's /ingest promise together:      *)
(* every event the agent collects is sent and recorded, whole batches at a *)
(* time and the oldest first, unless the bounded outbox drops it before.   *)
(***************************************************************************)
EXTENDS Naturals

CONSTANTS MaxEvents, Poison

VARIABLES
  collected,   \* events 1 .. collected exist
  recorded,    \* those the server has
  waiting,     \* those the agent still keeps for it
  sent         \* the batches on their way

Init == collected = 0 /\ recorded = {} /\ waiting = {} /\ sent = {}

Oldest(B) == \A e \in B, f \in waiting \ B : e < f

Collect ==
  /\ collected < MaxEvents
  /\ collected' = collected + 1
  /\ waiting' = waiting \cup {collected + 1}
  /\ UNCHANGED <<recorded, sent>>

Send ==
  \E B \in SUBSET waiting :
    /\ Oldest(B)
    /\ sent' = sent \cup {B}
    /\ UNCHANGED <<collected, recorded, waiting>>

\* All of a batch is recorded, and none that holds an event the server
\* refuses.  The same batch may have been sent twice.
Record ==
  \E B \in sent :
    /\ B \cap Poison = {}
    /\ recorded' = recorded \cup B
    /\ sent' \in {sent, sent \ {B}}
    /\ UNCHANGED <<collected, waiting>>

Lose ==
  \E B \in sent :
    /\ sent' = sent \ {B}
    /\ UNCHANGED <<collected, recorded, waiting>>

\* The agent forgets events: those it knows are recorded, or the oldest ones.
Forget ==
  \E B \in SUBSET waiting :
    /\ B \subseteq recorded \/ Oldest(B)
    /\ waiting' = waiting \ B
    /\ UNCHANGED <<collected, recorded, sent>>

Next == Collect \/ Send \/ Record \/ Lose \/ Forget

Spec == Init /\ [][Next]_<<collected, recorded, waiting, sent>>
=============================================================================
