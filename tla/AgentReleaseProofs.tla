------------------------- MODULE AgentReleaseProofs -------------------------
(***************************************************************************)
(* Proofs about AgentRelease: the types, when the MSI served is the newest *)
(* ever fetched, and that the stamp beside it is honest.                   *)
(***************************************************************************)
EXTENDS AgentRelease, FiniteSetTheorems, TLAPS

LEMMA Bounds ==
  /\ MaxRuns \in Nat /\ MaxFaults \in Nat /\ MaxVersion \in Nat
  /\ Version \in [1 .. MaxRuns + 1 -> 1 .. MaxVersion]
BY ReleaseAssumption

LEMMA Marks ==
  /\ Artifacts \subseteq Contents /\ 0 .. MaxRuns \subseteq Contents
  /\ Nothing \in 0 .. MaxRuns /\ Nothing \notin Artifacts
  /\ Placed \in Contents /\ Placed \notin Artifacts /\ Placed # Nothing
  /\ Partial \in Contents /\ Partial \notin Artifacts /\ Partial # Nothing /\ Partial # Placed
  /\ \A a \in 0 .. MaxRuns : a # Nothing => a \in Artifacts
  /\ Artifacts \subseteq 0 .. MaxRuns
  /\ Unreadable \in 0 .. Unreadable /\ Unreadable \notin 0 .. MaxRuns
  /\ 0 .. Unreadable = (0 .. MaxRuns) \cup {Unreadable}
BY Bounds DEF Artifacts, Contents, Nothing, Placed, Partial, Unreadable

LEMMA Counted ==
  ASSUME TypeOK, UNCHANGED faults \/ Fault
  PROVE  faults' \in 0 .. MaxFaults /\ (faults' = 0 => faults = 0)
<1>1. faults \in 0 .. MaxFaults
  BY DEF TypeOK
<1>2. MaxFaults \in Nat
  BY Bounds
<1>3. faults' = faults \/ (faults < MaxFaults /\ faults' = faults + 1)
  BY DEF Fault
<1> QED BY <1>1, <1>2, <1>3

-----------------------------------------------------------------------------
(* Type correctness.  A run uploads at most once: the artifacts made and   *)
(* the runs that may still make one are together no more than the runs.    *)

Unmade == {r \in 1 .. MaxRuns : run[r] \in {"none", "running"}}
UploadInv == uploads + Cardinality(Unmade) <= MaxRuns

LEMMA UnmadeFinite ==
  IsFiniteSet(Unmade) /\ Cardinality(Unmade) \in Nat
<1>1. IsFiniteSet(1 .. MaxRuns)
  BY Bounds, FS_Interval
<1>2. Unmade \subseteq 1 .. MaxRuns
  BY DEF Unmade
<1>3. IsFiniteSet(Unmade)
  BY <1>1, <1>2, FS_Subset
<1> QED BY <1>3, FS_CardinalityType

LEMMA TypeInit == Init => TypeOK /\ UploadInv
<1> SUFFICES ASSUME Init PROVE TypeOK /\ UploadInv
  OBVIOUS
<1>1. staged \in BOOLEAN
  BY Zenon DEF Init
<1>2. uploads \in 0 .. MaxRuns /\ faults \in 0 .. MaxFaults
  BY Bounds DEF Init
<1>3. TypeOK
  BY <1>1, <1>2, Marks DEF Init, TypeOK
<1>4. IsFiniteSet(1 .. MaxRuns) /\ Cardinality(1 .. MaxRuns) = MaxRuns
  BY Bounds, FS_Interval
<1>5. Unmade \subseteq 1 .. MaxRuns
  BY DEF Unmade
<1>6. Cardinality(Unmade) <= MaxRuns
  BY <1>4, <1>5, FS_Subset
<1>7. uploads = 0
  BY DEF Init
<1> QED BY <1>3, <1>6, <1>7, UnmadeFinite DEF UploadInv

LEMMA TypeUploads ==
  ASSUME TypeOK, UploadInv, NEW r \in 1 .. MaxRuns, RunUploads(r)
  PROVE  uploads' \in 0 .. MaxRuns /\ UploadInv'
<1>1. uploads \in 0 .. MaxRuns /\ MaxRuns \in Nat /\ uploads' = uploads + 1
  BY Bounds DEF TypeOK, RunUploads
<1>2. r \in Unmade /\ Unmade' = Unmade \ {r}
  BY DEF Unmade, RunUploads, TypeOK
<1>3. Cardinality(Unmade') = Cardinality(Unmade) - 1
  BY <1>2, UnmadeFinite, FS_RemoveElement
<1>4. Cardinality(Unmade') \in Nat
  <2>1. IsFiniteSet(Unmade')
    BY <1>2, UnmadeFinite, FS_Subset
  <2> QED BY <2>1, FS_CardinalityType
<1>5. uploads + Cardinality(Unmade) <= MaxRuns
  BY DEF UploadInv
<1>6. Cardinality(Unmade) \in Nat
  BY UnmadeFinite
<1>7. uploads' \in 0 .. MaxRuns
  BY <1>1, <1>3, <1>4, <1>5, <1>6
<1>8. uploads' + Cardinality(Unmade') <= MaxRuns
  BY <1>1, <1>3, <1>4, <1>5, <1>6
<1> QED BY <1>7, <1>8 DEF UploadInv

LEMMA TypeGitHub ==
  ASSUME TypeOK, UploadInv, GitHub
  PROVE  TypeOK' /\ UploadInv'
<1> USE DEF githubSide, volume, agent, fetched
<1>1. PICK r \in 1 .. MaxRuns : RunStarts(r) \/ RunUploads(r) \/ RunEnds(r) \/ Expires(r)
  BY DEF GitHub
<1>2. CASE RunUploads(r)
  <2>1. uploads' \in 0 .. MaxRuns /\ UploadInv'
    BY <1>2, TypeUploads
  <2>2. 1 .. uploads \subseteq 1 .. uploads'
    <3>1. uploads \in 0 .. MaxRuns /\ uploads' = uploads + 1 /\ MaxRuns \in Nat
      BY <1>2, Bounds DEF RunUploads, TypeOK
    <3> QED BY <3>1
  <2> QED BY <1>2, <2>1, <2>2 DEF RunUploads, TypeOK
<1>3. CASE RunStarts(r) \/ Expires(r)
  <2>1. TypeOK'
    BY <1>3 DEF RunStarts, Expires, TypeOK
  <2>2. Unmade' = Unmade /\ uploads' = uploads
    BY <1>3 DEF RunStarts, Expires, TypeOK, Unmade
  <2> QED BY <2>1, <2>2 DEF UploadInv
<1>4. CASE RunEnds(r)
  <2>1. TypeOK'
    BY <1>4 DEF RunEnds, TypeOK
  <2>2. Unmade' \subseteq Unmade /\ uploads' = uploads
    BY <1>4 DEF RunEnds, TypeOK, Unmade
  <2>3. Cardinality(Unmade') <= Cardinality(Unmade) /\ IsFiniteSet(Unmade')
    BY <2>2, UnmadeFinite, FS_Subset
  <2>4. Cardinality(Unmade') \in Nat /\ Cardinality(Unmade) \in Nat
    BY <2>3, UnmadeFinite, FS_CardinalityType
  <2>5. uploads \in 0 .. MaxRuns /\ MaxRuns \in Nat
    BY Bounds DEF TypeOK
  <2>6. uploads + Cardinality(Unmade') <= MaxRuns
    BY <2>3, <2>4, <2>5 DEF UploadInv
  <2> QED BY <2>1, <2>2, <2>6 DEF UploadInv
<1> QED BY <1>1, <1>2, <1>3, <1>4

LEMMA TypeServer ==
  ASSUME TypeOK, Poll \/ SyncFails \/ \E v \in Versions \cup {Default} : SetTarget(v)
  PROVE  TypeOK'
<1> USE DEF githubSide, volume, agent, fetched
<1>1. CASE AskStatus
  BY <1>1 DEF AskStatus, TypeOK
<1>2. CASE AskArtifact
  <2>1. CASE Skip
    BY <1>2, <2>1 DEF AskArtifact, Skip, TypeOK
  <2>2. CASE ~Skip
    <3>1. PICK a \in Artifacts :
            /\ want' = a /\ stamp' = Unreadable /\ sync' = "stamping"
            /\ blind' = IF stamp = Unreadable /\ a < newest THEN blind \cup {a} ELSE blind
      BY <1>2, <2>2 DEF AskArtifact
    <3>2. want' \in 0 .. MaxRuns /\ want' # Nothing /\ stamp' \in 0 .. Unreadable
      BY <3>1, Marks
    <3>3. blind' \subseteq Artifacts
      BY <3>1 DEF TypeOK
    <3> QED BY <1>2, <3>1, <3>2, <3>3 DEF AskArtifact, TypeOK
  <2> QED BY <2>1, <2>2
<1>3. CASE WriteStamp
  <2>1. stamp' \in 0 .. Unreadable
    BY <1>3, Marks DEF WriteStamp, TypeOK
  <2> QED BY <1>3, <2>1 DEF WriteStamp, TypeOK
<1>4. CASE Unpack
  BY <1>4, Marks DEF Unpack, TypeOK
<1>5. CASE Write
  <2>1. want \in Artifacts
    BY <1>5, Marks DEF Write, TypeOK
  <2> QED BY <1>5, <2>1, Marks DEF Write, TypeOK
<1>6. CASE SyncFails
  <2>1. faults' \in 0 .. MaxFaults
    BY <1>6, Counted DEF SyncFails
  <2> QED BY <1>6, <2>1, Marks DEF SyncFails, TypeOK
<1>7. CASE \E v \in Versions \cup {Default} : SetTarget(v)
  BY <1>7 DEF SetTarget, TypeOK
<1> QED BY <1>1, <1>2, <1>3, <1>4, <1>5, <1>6, <1>7 DEF Poll

LEMMA TypeAgent ==
  ASSUME TypeOK, AgentStep
  PROVE  TypeOK'
<1> USE DEF githubSide, volume, agent, fetched
<1>1. Nothing \in Contents
  BY Marks
<1>2. ASSUME NEW p \in Passes, Check(p) \/ Finish(p) \/ DownloadFails(p) PROVE TypeOK'
  <2>1. CASE Check(p)
    BY <2>1 DEF Check, Goto, Holds, TypeOK
  <2>2. CASE Finish(p)
    BY <2>2, Marks DEF Finish, Goto, Holds, TypeOK
  <2>3. CASE DownloadFails(p)
    <3>1. faults' \in 0 .. MaxFaults
      BY <2>3, Counted DEF DownloadFails
    <3> QED BY <2>3, <3>1, <1>1 DEF DownloadFails, Goto, Holds, TypeOK
  <2> QED BY <1>2, <2>1, <2>2, <2>3
<1>3. CASE NoUpdate
  BY <1>3 DEF NoUpdate, Goto, TypeOK
<1>4. CASE Stage
  BY <1>4, <1>1 DEF Stage, Goto, Holds, TypeOK
<1>5. CASE Install
  <2>1. \A a \in Whole : Version[a] \in Versions
    BY Bounds DEF Whole, Placed, Versions
  <2>2. installed' \in Versions
    BY <1>5, <2>1 DEF Install, TypeOK
  <2> QED BY <1>5, <2>2, <1>1 DEF Install, Goto, Holds, TypeOK
<1>6. CASE ClearRequest
  BY <1>6 DEF ClearRequest, Goto, TypeOK
<1> QED BY <1>2, <1>3, <1>4, <1>5, <1>6 DEF AgentStep

\* Who leaves GitHub's side alone leaves the count of uploads right.
LEMMA GitHubAlone == UploadInv /\ UNCHANGED githubSide => UploadInv'
BY DEF UploadInv, Unmade, githubSide

LEMMA TypeNext == TypeOK /\ UploadInv /\ [Next]_vars => TypeOK' /\ UploadInv'
<1> SUFFICES ASSUME TypeOK, UploadInv, [Next]_vars PROVE TypeOK' /\ UploadInv'
  OBVIOUS
<1>1. CASE GitHub
  BY <1>1, TypeGitHub
<1>2. CASE ~GitHub
  <2>1. UNCHANGED githubSide
    BY <1>2 DEF Next, Poll, AskStatus, AskArtifact, WriteStamp, Unpack, Write, SyncFails, SetTarget,
                AgentStep, Check, NoUpdate, Finish, Stage, Install, DownloadFails, ClearRequest, vars
  <2>2. UNCHANGED vars => TypeOK'
    BY DEF vars, githubSide, volume, agent, fetched, TypeOK
  <2>3. TypeOK'
    BY <1>2, <2>2, TypeServer, TypeAgent DEF Next
  <2> QED BY <2>1, <2>3, GitHubAlone
<1> QED BY <1>1, <1>2

\* The release pipeline keeps its types for any number of runs and versions.
THEOREM TypeCorrect == Spec => []TypeOK
BY TypeInit, TypeNext, PTL DEF Spec

-----------------------------------------------------------------------------
(* The MSI and its stamp *)

\* Everything newer than the one given, up to the newest fetched, has expired.
Outlived(a) == (a + 1) .. newest \subseteq expired

\* What is asked for again is at least as new as what was fetched before, or
\* was the best left when a poll could not read the stamp.
Forward(a) == a >= newest \/ (a \in blind /\ Outlived(a))

\* Before the first fetch nothing is behind; the stamp, the fetch under way and
\* the MSI never fall behind but that way.
NewestInv ==
  /\ newest <= uploads /\ want <= uploads
  /\ stamp = Nothing \/ msi = Nothing => newest = Nothing
  /\ sync \in {"fetching", "writing"} => stamp = want
  /\ stamp \in Artifacts => Forward(stamp)
  /\ want # Nothing => Forward(want)
  /\ NeverOlder

\* While nothing has failed the stamp is the MSI's, or about to be.
HonestInv ==
  faults = 0 /\ sync \in {"idle", "asked"} =>
    msi # Partial /\ stamp # Unreadable /\ (stamp # Nothing => msi = stamp)

LEMMA VolumeInit == Init => NewestInv /\ HonestInv
<1> SUFFICES ASSUME Init PROVE NewestInv /\ HonestInv
  OBVIOUS
<1>1. /\ newest = Nothing /\ stamp = Nothing /\ want = Nothing /\ msi \in {Nothing, Placed}
      /\ sync = "idle" /\ uploads = 0
  BY DEF Init
<1>2. newest <= uploads /\ want <= uploads /\ Nothing # Unreadable
  BY <1>1, Bounds DEF Nothing, Unreadable
<1> QED BY <1>1, <1>2, Marks DEF NewestInv, NeverOlder, HonestInv

LEMMA Sizes ==
  ASSUME TypeOK
  PROVE  /\ newest \in Nat /\ uploads \in Nat /\ want \in Nat /\ stamp \in Nat
         /\ \A a \in Artifacts : a \in Nat
BY Bounds DEF TypeOK, Artifacts, Unreadable

\* A refresh goes for an artifact that is not behind.
LEMMA AskForward ==
  ASSUME TypeOK, NewestInv, AskArtifact, NEW a \in Artifacts, Latest(a), NeedsRefresh(a),
         blind' = IF stamp = Unreadable /\ a < newest THEN blind \cup {a} ELSE blind
  PROVE  a <= uploads /\ Forward(a)'
<1> USE Sizes
<1>1. UNCHANGED <<newest, expired, uploads>>
  BY DEF AskArtifact, githubSide
<1>2. a \in 1 .. uploads /\ a \notin expired /\ \A b \in 1 .. uploads : b > a => b \in expired
  BY DEF Latest
<1>3. newest \in Nat /\ a \in Nat /\ uploads \in Nat /\ newest <= uploads
  BY DEF NewestInv
<1>4. CASE a >= newest
  BY <1>1, <1>2, <1>4 DEF Forward
<1>5. CASE a < newest
  <2>1. newest # Nothing
    BY <1>3, <1>5 DEF Nothing
  <2>2. stamp # Nothing /\ msi # Nothing
    BY <2>1 DEF NewestInv
  <2>3. ~(a > stamp /\ stamp \in Artifacts)
    <3> SUFFICES ASSUME a > stamp, stamp \in Artifacts PROVE FALSE
      OBVIOUS
    <3>1. stamp >= newest \/ (stamp + 1) .. newest \subseteq expired
      BY DEF NewestInv, Forward, Outlived
    <3>2. stamp \in Nat /\ stamp < newest
      BY <1>3, <1>5
    <3>3. a \in (stamp + 1) .. newest
      BY <1>3, <1>5, <3>2
    <3> QED BY <1>2, <3>1, <3>2, <3>3, <1>3
  <2>4. stamp = Unreadable
    <3>1. stamp \in Artifacts \/ stamp = Unreadable
      BY <2>2, Marks DEF TypeOK
    <3> QED BY <2>2, <2>3, <3>1 DEF NeedsRefresh
  <2>5. a \in blind'
    BY <1>5, <2>4
  <2>6. (a + 1) .. newest \subseteq expired
    BY <1>2, <1>3
  <2> QED BY <1>1, <1>2, <2>5, <2>6 DEF Forward, Outlived
<1> QED BY <1>3, <1>4, <1>5

LEMMA NewestNext == TypeOK /\ NewestInv /\ [Next]_vars => NewestInv'
<1> SUFFICES ASSUME TypeOK, NewestInv, [Next]_vars PROVE NewestInv'
  OBVIOUS
<1> USE DEF githubSide, volume, agent, fetched
<1>1. CASE AskArtifact
  <2>1. UNCHANGED <<msi, newest, expired, uploads>>
    BY <1>1 DEF AskArtifact
  <2>2. CASE Skip
    BY <2>1, <2>2 DEF Skip, NewestInv, NeverOlder, Forward, Outlived
  <2>3. CASE ~Skip
    <3>1. PICK a \in Artifacts :
            /\ Latest(a) /\ NeedsRefresh(a)
            /\ want' = a /\ stamp' = Unreadable /\ sync' = "stamping"
            /\ blind' = IF stamp = Unreadable /\ a < newest THEN blind \cup {a} ELSE blind
      BY <1>1, <2>3 DEF AskArtifact
    <3>2. a <= uploads /\ Forward(a)'
      BY <1>1, <3>1, AskForward
    <3>3. stamp' \notin Artifacts /\ stamp' # Nothing
      BY <3>1, Marks
    <3>4. newest = Nothing \/ (stamp # Nothing /\ msi # Nothing)
      BY DEF NewestInv
    <3>5. NeverOlder'
      BY <2>1, <3>1 DEF NewestInv, NeverOlder
    <3>6. newest' <= uploads' /\ want' <= uploads'
      BY <2>1, <3>1, <3>2 DEF NewestInv
    <3>7. Forward(want)'
      BY <3>1, <3>2 DEF Forward, Outlived
    <3> QED BY <2>1, <3>1, <3>3, <3>4, <3>5, <3>6, <3>7 DEF NewestInv
  <2> QED BY <2>2, <2>3
<1>2. CASE WriteStamp
  <2>1. want # Nothing /\ want \in Artifacts
    BY <1>2, Marks DEF WriteStamp, TypeOK
  <2>2. UNCHANGED <<msi, newest, expired, uploads, want, blind>> /\ stamp' = want
    BY <1>2 DEF WriteStamp
  <2>3. Forward(want)' /\ Forward(stamp)'
    BY <2>1, <2>2 DEF NewestInv, Forward, Outlived
  <2>4. (stamp = Nothing \/ msi = Nothing => newest = Nothing)'
    BY <2>1, <2>2 DEF NewestInv
  <2> QED BY <2>2, <2>3, <2>4 DEF NewestInv, NeverOlder
<1>3. CASE Unpack
  <2>1. UNCHANGED <<stamp, newest, expired, uploads, want, blind>> /\ msi' = Partial
    BY <1>3 DEF Unpack
  <2>2. sync = "fetching"
    BY <1>3 DEF Unpack
  <2>3. NeverOlder' /\ msi' # Nothing
    BY <2>1, Marks DEF NeverOlder
  <2> QED BY <2>1, <2>2, <2>3 DEF NewestInv, Forward, Outlived
<1>4. CASE Write
  <2>1. want \in Artifacts /\ want = stamp /\ Forward(want) /\ want # Nothing
    BY <1>4, Marks DEF Write, TypeOK, NewestInv
  <2>2. UNCHANGED <<stamp, expired, uploads, blind>> /\ msi' = want /\ want' = Nothing
    BY <1>4 DEF Write
  <2>3. newest \in Nat /\ want \in Nat /\ uploads \in Nat /\ newest <= uploads /\ want <= uploads
    BY Sizes DEF NewestInv
  <2>4. newest' = IF want > newest THEN want ELSE newest
    BY <1>4 DEF Write
  <2>5. newest' <= uploads' /\ want' <= uploads'
    BY <2>2, <2>3, <2>4 DEF Nothing
  <2>6. CASE want >= newest
    <3>1. newest' = want
      BY <2>3, <2>4, <2>6
    <3>2. Forward(stamp)'
      BY <2>1, <2>2, <2>3, <3>1 DEF Forward
    <3>3. NeverOlder'
      BY <2>2, <3>1 DEF NeverOlder
    <3> QED BY <1>4, <2>1, <2>2, <2>5, <3>2, <3>3, Marks DEF Write, NewestInv
  <2>7. CASE ~(want >= newest)
    <3>1. newest' = newest
      BY <2>3, <2>4, <2>7
    <3>2. want \in blind /\ (want + 1) .. newest \subseteq expired
      BY <2>1, <2>7 DEF Forward, Outlived
    <3>3. newest \in expired
      BY <2>3, <2>7, <3>2
    <3>4. Forward(stamp)'
      BY <2>1, <2>2, <3>1, <3>2 DEF Forward, Outlived
    <3>5. NeverOlder'
      BY <2>2, <3>1, <3>2, <3>3 DEF NeverOlder
    <3> QED BY <1>4, <2>1, <2>2, <2>5, <3>4, <3>5, Marks DEF Write, NewestInv
  <2> QED BY <2>6, <2>7
<1>5. CASE SyncFails
  <2>1. UNCHANGED <<msi, stamp, newest, expired, uploads, blind>> /\ want' = Nothing /\ sync' = "idle"
    BY <1>5 DEF SyncFails
  <2>2. newest' <= uploads' /\ want' <= uploads'
    BY <2>1, Sizes DEF NewestInv, Nothing
  <2> QED BY <2>1, <2>2 DEF NewestInv, NeverOlder, Forward, Outlived
<1>6. CASE GitHub
  <2>1. UNCHANGED <<msi, stamp, sync, want, newest, blind>> /\ expired \subseteq expired'
    BY <1>6 DEF GitHub, RunStarts, RunUploads, RunEnds, Expires
  <2>2. uploads' = uploads \/ uploads' = uploads + 1
    BY <1>6 DEF GitHub, RunStarts, RunUploads, RunEnds, Expires
  <2>3. newest' <= uploads' /\ want' <= uploads'
    BY <2>1, <2>2, Sizes DEF NewestInv
  <2> QED BY <2>1, <2>3 DEF NewestInv, NeverOlder, Forward, Outlived
<1>7. CASE AskStatus
  BY <1>7 DEF AskStatus, NewestInv, NeverOlder, Forward, Outlived
<1>8. CASE UNCHANGED <<uploads, expired, msi, stamp, sync, want, newest, blind>>
  BY <1>8 DEF NewestInv, NeverOlder, Forward, Outlived
<1> QED BY <1>1, <1>2, <1>3, <1>4, <1>5, <1>6, <1>7, <1>8
     DEF Next, Poll, SetTarget, AgentStep, Check, NoUpdate, Finish, Stage, Install, DownloadFails,
         ClearRequest, vars

LEMMA HonestNext == TypeOK /\ NewestInv /\ HonestInv /\ [Next]_vars => HonestInv'
<1> SUFFICES ASSUME TypeOK, NewestInv, HonestInv, [Next]_vars, faults' = 0 PROVE HonestInv'
  BY DEF HonestInv
<1> USE DEF githubSide, volume, agent, fetched
<1>1. UNCHANGED faults \/ Fault
  BY DEF Next, GitHub, RunStarts, RunUploads, RunEnds, Expires, Poll, AskStatus, AskArtifact, WriteStamp,
         Unpack, Write, SyncFails, SetTarget, AgentStep, Check, NoUpdate, Finish, Stage, Install,
         DownloadFails, ClearRequest, vars
<1>2. faults = 0
  BY <1>1, Counted
<1>3. CASE AskArtifact
  BY <1>2, <1>3 DEF AskArtifact, Skip, HonestInv
<1>4. CASE WriteStamp \/ Unpack
  BY <1>4 DEF WriteStamp, Unpack, HonestInv
<1>5. CASE Write
  <2>1. want \in Artifacts /\ want = stamp
    BY <1>5, Marks DEF Write, TypeOK, NewestInv
  <2> QED BY <1>5, <2>1, Marks DEF Write, HonestInv
<1>6. ~SyncFails
  <2>1. faults \in Nat
    BY <1>2
  <2> QED BY <1>2, <2>1 DEF SyncFails, Fault
<1>7. CASE AskStatus \/ UNCHANGED <<msi, stamp, sync>>
  BY <1>2, <1>7 DEF AskStatus, HonestInv
<1> QED BY <1>3, <1>4, <1>5, <1>6, <1>7
     DEF Next, GitHub, RunStarts, RunUploads, RunEnds, Expires, Poll, SetTarget, AgentStep, Check,
         NoUpdate, Finish, Stage, Install, DownloadFails, ClearRequest, vars

\* NeverOlder: whatever expires, fails, is retried or killed, the whole MSI the
\* server offers is the newest it ever fetched, but for one fetched when the
\* stamp was left truncated and the newest one had gone from GitHub.
THEOREM NewestKept == Spec => []NeverOlder
<1>1. NewestInv => NeverOlder
  BY DEF NewestInv
<1> QED BY <1>1, TypeInit, TypeNext, VolumeInit, NewestNext, PTL DEF Spec

\* StampHonest: until a fetch fails, the stamp names the MSI beside it whenever
\* no fetch is under way.
THEOREM StampIsHonest == Spec => []StampHonest
<1>1. HonestInv => StampHonest
  BY DEF HonestInv, StampHonest
<1> QED BY <1>1, TypeInit, TypeNext, VolumeInit, NewestNext, HonestNext, PTL DEF Spec
=============================================================================
