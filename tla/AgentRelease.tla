---------------------------- MODULE AgentRelease ----------------------------
(***************************************************************************)
(* How a build of the agent reaches the agents: GitHub runs the workflow,  *)
(* the server fetches the finished artifact when the portal polls          *)
(* /api/build/status (_try_github_sync in main.py, github.py), and agents  *)
(* told of an update download the MSI and install it (Agent-Collect.ps1).  *)
(*                                                                         *)
(* The fetch blocks the server's event loop, so nothing else is served     *)
(* meanwhile, but GitHub goes on between its requests, each of them may    *)
(* fail, and the server may be killed between any two writes.  The agent's *)
(* two passes download on their own, and a download outlives a fetch.      *)
(***************************************************************************)
EXTENDS Integers

CONSTANTS
  MaxRuns,            \* bound on the runs of the workflow
  MaxVersion,         \* agent versions, in the order of their numbers
  Version,            \* the version each artifact, or the MSI put there by hand, installs
  Bundled,            \* AGENT_VERSION, the server's own idea of the version
  MaxFaults           \* bound on failed requests, failed writes and kills

ASSUME ReleaseAssumption ==
  /\ MaxRuns \in Nat /\ MaxFaults \in Nat /\ MaxVersion \in Nat
  /\ Version \in [1 .. MaxRuns + 1 -> 1 .. MaxVersion]
  /\ Bundled \in 1 .. MaxVersion

Artifacts == 1 .. MaxRuns             \* in the order of created_at
Nothing == 0
Placed  == MaxRuns + 1                \* an MSI put there by hand
Partial == MaxRuns + 2                \* part of one, or parts of two
Contents == 0 .. Partial
Whole   == 1 .. Placed
Unreadable == MaxRuns + 1             \* a stamp truncated and not written
Passes  == {"routine", "elevated"}
Versions  == 1 .. MaxVersion
Default   == 0                        \* no agent_target_version

VARIABLES
  run, uploads, expired,              \* GitHub: runs in order, artifacts made, artifacts gone
  msi, stamp,                         \* ARTIFACTS_DIR: the MSI, created_at in .msi_artifact.json
  sync, want,                         \* the fetch under way
  target,                             \* settings: agent_target_version
  installed, staged,                  \* the agent: its version, an elevated request staged
  download, got,                      \* each pass: its download and what came of it
  newest, blind, faults               \* history

githubSide == <<run, uploads, expired>>
volume == <<msi, stamp>>
agent  == <<installed, staged, download, got>>
fetched == <<newest, blind>>
vars == <<githubSide, volume, sync, want, target, agent, fetched, faults>>

-----------------------------------------------------------------------------
(* Helpers.  Each operator named Faulty... is a plausible slip in the      *)
(* definition that follows it; no specification uses one.                  *)

Fault == faults < MaxFaults /\ faults' = faults + 1

Started == {r \in 1 .. MaxRuns : run[r] # "none"}

\* github.status asks for the latest run only.
Concluded == \E r \in Started : run[r] = "success" /\ \A q \in Started : q <= r

\* github.latest_artifact: the newest upload that has not expired.
Latest(a) == a \in (1 .. uploads) \ expired /\ \A b \in (1 .. uploads) \ expired : b <= a

FaultyNeedsRefresh(a) == TRUE
FaultyOnlyOnce(a)     == msi = Nothing
\* _needs_msi_refresh: no MSI, no stamp, one that cannot be read, or a newer
\* artifact than the stamp's.
NeedsRefresh(a) == msi = Nothing \/ stamp \in {Nothing, Unreadable} \/ a > stamp

\* agent_update_info: the target differs from the version bundled with the
\* server (which agent asks, and what it runs, does not matter).
UpdateAvailable == target \notin {Default, Bundled} /\ msi # Nothing

-----------------------------------------------------------------------------
(* GitHub *)

RunStarts(r) ==
  /\ run[r] = "none" /\ \A q \in 1 .. r - 1 : run[q] # "none"
  /\ run' = [run EXCEPT ![r] = "running"]
  /\ UNCHANGED <<uploads, expired, volume, sync, want, target, agent, fetched, faults>>

RunUploads(r) ==
  /\ run[r] = "running"
  /\ run' = [run EXCEPT ![r] = "uploaded"]
  /\ uploads' = uploads + 1
  /\ UNCHANGED <<expired, volume, sync, want, target, agent, fetched, faults>>

RunEnds(r) ==
  /\ \/ run[r] = "uploaded" /\ run' = [run EXCEPT ![r] = "success"]
     \/ run[r] \in {"running", "uploaded"} /\ run' = [run EXCEPT ![r] = "failure"]
  /\ UNCHANGED <<uploads, expired, volume, sync, want, target, agent, fetched, faults>>

\* An artifact expires, or is deleted.
Expires(a) ==
  /\ a \in (1 .. uploads) \ expired
  /\ expired' = expired \cup {a}
  /\ UNCHANGED <<run, uploads, volume, sync, want, target, agent, fetched, faults>>

-----------------------------------------------------------------------------
(* GET /api/build/status *)

AskStatus ==
  /\ sync = "idle" /\ Concluded
  /\ sync' = "asked"
  /\ UNCHANGED <<githubSide, volume, want, target, agent, fetched, faults>>

Skip ==
  /\ ~\E a \in Artifacts : Latest(a) /\ NeedsRefresh(a)
  /\ sync' = "idle" /\ UNCHANGED <<want, stamp, blind>>

FaultyAskArtifact ==                  \* an old stamp is left as it is
  /\ sync = "asked"
  /\ \/ Skip
     \/ \E a \in Artifacts :
          /\ Latest(a) /\ NeedsRefresh(a)
          /\ want' = a
          /\ stamp' = IF stamp = Nothing THEN Unreadable ELSE stamp
          /\ sync' = IF stamp = Nothing THEN "stamping" ELSE "fetching"
          /\ blind' = blind
  /\ UNCHANGED <<githubSide, msi, target, agent, newest, faults>>
\* download_msi leaves its stamp before it downloads anything: write_text
\* truncates the old one ...
AskArtifact ==
  /\ sync = "asked"
  /\ \/ Skip
     \/ \E a \in Artifacts :
          /\ Latest(a) /\ NeedsRefresh(a)
          /\ want' = a /\ stamp' = Unreadable /\ sync' = "stamping"
          /\ blind' = IF stamp = Unreadable /\ a < newest THEN blind \cup {a} ELSE blind
  /\ UNCHANGED <<githubSide, msi, target, agent, newest, faults>>

\* ... and writes the new one.
WriteStamp ==
  /\ sync = "stamping" /\ sync' = "fetching"
  /\ stamp' = want
  /\ UNCHANGED <<githubSide, msi, want, target, agent, fetched, faults>>

\* The zip is here: the old MSI is truncated ...
Unpack ==
  /\ sync = "fetching" /\ sync' = "writing"
  /\ msi' = Partial
  /\ UNCHANGED <<githubSide, stamp, want, target, agent, fetched, faults>>

\* ... and the new one written in its place.
Write ==
  /\ sync = "writing" /\ sync' = "idle"
  /\ msi' = want /\ want' = Nothing
  /\ newest' = IF want > newest THEN want ELSE newest
  /\ UNCHANGED <<githubSide, stamp, target, agent, blind, faults>>

\* A request or a write fails, or the server is killed; what is written stays
\* as it is.
SyncFails ==
  /\ sync # "idle" /\ Fault
  /\ sync' = "idle" /\ want' = Nothing
  /\ UNCHANGED <<githubSide, volume, target, agent, fetched>>

\* PUT /api/agent/update-target: a version, or none to clear it.
SetTarget(v) ==
  /\ sync = "idle"
  /\ target' = v
  /\ UNCHANGED <<githubSide, volume, sync, want, agent, fetched, faults>>

-----------------------------------------------------------------------------
(* Update-AgentIfNeeded, in the routine pass and in the elevated one *)

Goto(p, at) == download' = [download EXCEPT ![p] = at]
Holds(p, c) == got' = [got EXCEPT ![p] = c]

\* The elevated task runs once when a request was staged.
Check(p) ==
  /\ sync = "idle" /\ download[p] = "none"
  /\ p = "elevated" => staged
  /\ UpdateAvailable
  /\ Goto(p, "started") /\ Holds(p, msi)
  /\ UNCHANGED <<githubSide, volume, sync, want, target, installed, staged, fetched, faults>>

\* The elevated pass is told of no update.
NoUpdate ==
  /\ sync = "idle" /\ download["elevated"] = "none"
  /\ staged /\ ~UpdateAvailable
  /\ Goto("elevated", "over")
  /\ UNCHANGED <<githubSide, volume, sync, want, target, installed, staged, got, fetched, faults>>

\* The second half comes from the file as it is by then.
Finish(p) ==
  /\ sync = "idle" /\ download[p] = "started"
  /\ Goto(p, "done")
  /\ Holds(p, IF msi = got[p] THEN msi ELSE Partial)
  /\ UNCHANGED <<githubSide, volume, sync, want, target, installed, staged, fetched, faults>>

\* The routine pass may not install: it stages a request for the elevated task.
Stage ==
  /\ download["routine"] = "done"
  /\ staged' = TRUE
  /\ Goto("routine", "none") /\ Holds("routine", Nothing)
  /\ UNCHANGED <<githubSide, volume, sync, want, target, installed, fetched, faults>>

FaultyInstall ==                      \* the wrong pass is let through
  /\ download["elevated"] = "done"
  /\ Goto("elevated", "over") /\ Holds("elevated", Nothing)
  /\ UNCHANGED <<githubSide, volume, sync, want, target, installed, staged, fetched, faults>>
\* The elevated pass runs msiexec on whatever it has: that upgrades from a
\* whole MSI, and refuses any other and one older than what is installed
\* (MajorUpgrade).
Install ==
  /\ download["elevated"] = "done"
  /\ installed' = IF got["elevated"] \in Whole /\ Version[got["elevated"]] > installed
                  THEN Version[got["elevated"]] ELSE installed
  /\ Goto("elevated", "over") /\ Holds("elevated", Nothing)
  /\ UNCHANGED <<githubSide, volume, sync, want, target, staged, fetched, faults>>

\* The download breaks off, or what came is too small to be an MSI: the pass
\* goes on without it.
DownloadFails(p) ==
  /\ download[p] \in {"started", "done"}
  /\ Fault \/ (got[p] = Partial /\ UNCHANGED faults)
  /\ Goto(p, IF p = "routine" THEN "none" ELSE "over") /\ Holds(p, Nothing)
  /\ UNCHANGED <<githubSide, volume, sync, want, target, installed, staged, fetched>>

\* Clear-ElevatedRequest at the end of the elevated pass, also of a request
\* staged meanwhile.
ClearRequest ==
  /\ download["elevated"] = "over"
  /\ staged' = FALSE
  /\ Goto("elevated", "none")
  /\ UNCHANGED <<githubSide, volume, sync, want, target, installed, got, fetched, faults>>

-----------------------------------------------------------------------------

Init ==
  /\ run = [r \in 1 .. MaxRuns |-> "none"] /\ uploads = 0 /\ expired = {}
  /\ msi \in {Nothing, Placed} /\ stamp = Nothing
  /\ sync = "idle" /\ want = Nothing
  /\ target = Default
  /\ installed \in Versions /\ staged = FALSE
  /\ download = [p \in Passes |-> "none"] /\ got = [p \in Passes |-> Nothing]
  /\ newest = Nothing /\ blind = {} /\ faults = 0

GitHub == \E r \in 1 .. MaxRuns : RunStarts(r) \/ RunUploads(r) \/ RunEnds(r) \/ Expires(r)
Poll == AskStatus \/ AskArtifact \/ WriteStamp \/ Unpack \/ Write
AgentStep ==
  \/ \E p \in Passes : Check(p) \/ Finish(p) \/ DownloadFails(p)
  \/ NoUpdate \/ Stage \/ Install \/ ClearRequest

Next ==
  \/ GitHub \/ Poll \/ SyncFails
  \/ \E v \in Versions \cup {Default} : SetTarget(v)
  \/ AgentStep

Spec == Init /\ [][Next]_vars

\* The portal's build page polls, the routine task checks again and again,
\* downloads go on, and the elevated task runs once it is asked for; nothing is
\* assumed of GitHub or of the operators.
FairSpec ==
  /\ Spec
  /\ WF_vars(Poll) /\ SF_vars(AskStatus)
  /\ \A p \in Passes : SF_vars(Check(p)) /\ SF_vars(Finish(p))
  /\ WF_vars(Stage) /\ WF_vars(Install) /\ WF_vars(ClearRequest)

-----------------------------------------------------------------------------
(* Properties *)

TypeOK ==
  /\ run \in [1 .. MaxRuns -> {"none", "running", "uploaded", "success", "failure"}]
  /\ uploads \in 0 .. MaxRuns /\ expired \subseteq 1 .. uploads
  /\ msi \in Contents /\ stamp \in 0 .. Unreadable
  /\ sync \in {"idle", "asked", "stamping", "fetching", "writing"} /\ want \in 0 .. MaxRuns
  /\ (sync \in {"stamping", "fetching", "writing"}) <=> (want # Nothing)
  /\ target \in Versions \cup {Default}
  /\ installed \in Versions /\ staged \in BOOLEAN
  /\ download \in [Passes -> {"none", "started", "done", "over"}]
  /\ got \in [Passes -> Contents]
  /\ newest \in 0 .. MaxRuns /\ blind \subseteq Artifacts /\ faults \in 0 .. MaxFaults

\* _needs_msi_refresh: whatever expires on GitHub, fails or is retried, the MSI
\* the server holds whole is the newest it ever fetched, so agents are not
\* handed an older build again.  One way leads back, and needs two mishaps: a
\* poll found a stamp that was truncated and not written, and the newer build
\* is gone from GitHub.
NeverOlder == msi \in Artifacts => msi = newest \/ (msi \in blind /\ newest \in expired)

\* The stamp stands for the MSI beside it: between two polls, unless a fetch
\* failed, it names the artifact that is there, and no file is left in parts.
StampHonest ==
  sync = "idle" /\ faults = 0 =>
    msi # Partial /\ stamp # Unreadable /\ (stamp # Nothing => msi = stamp)

\* Once GitHub is quiet after a successful run the server gets its artifact, or
\* a newer one, whatever failed before; unless the stamp already speaks of an
\* artifact that never arrived and another MSI is in its place.
StampAhead == stamp \in Artifacts /\ msi \notin {Nothing, stamp}
EventuallyCurrent ==
  <>[](Concluded => StampAhead \/ \A a \in Artifacts : Latest(a) => msi \in a .. MaxRuns)

\* A rollout target that stays, with the MSI of that version in place, reaches
\* the agent unless it is past it, across both passes and torn downloads.
RolloutReaches ==
  \A v \in Versions \ {Bundled} :
    <>[](target = v /\ msi \in Whole /\ Version[msi] = v) => <>[](installed >= v)
=============================================================================
