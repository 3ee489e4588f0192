------------------------------ MODULE Enrolment ------------------------------
(***************************************************************************)
(* How an agent gets its identity: agent_enroll (main.py) mints its token  *)
(* and issues its client certificate (certs.py); Ensure-ClientCert         *)
(* (Agent-Collect.ps1) keeps both on disk and renews them.  One agent, its *)
(* processes and the server.                                               *)
(*                                                                         *)
(* Two agent processes may enrol at once, a request may outlive its        *)
(* sender, either side may be killed between two of its writes, and the    *)
(* certificates age.                                                       *)
(***************************************************************************)
EXTENDS Integers

CONSTANTS
  Passes,             \* the agent's processes
  Tokens,             \* per-agent tokens (bounds how many are about at once)
  MaxCAs,             \* bound on the CAs made
  Life,               \* CLIENT_CERT_DAYS, in half days
  Renewal,            \* RENEWAL_DAYS and -RenewDays, in days
  MaxTime,            \* bound on the half days that pass
  MaxElevated,        \* bound on the runs of the elevated task
  MaxFaults           \* bound on kills, lost answers and revocations

NoToken == 0
NoCA    == 0

ASSUME EnrolmentAssumption ==
  /\ Passes \subseteq {"routine", "elevated"}
  /\ Tokens \subseteq Nat \ {NoToken}
  /\ MaxCAs \in Nat /\ Life \in Nat /\ Renewal \in Nat
  /\ 2 * Renewal + 1 < Life
  /\ MaxTime \in Nat /\ MaxElevated \in Nat /\ MaxFaults \in Nat

\* A certificate: the CA that signed it, its expiry, whether the private key
\* kept with it is its own.
Cert   == [ca : 1 .. MaxCAs, until : 0 .. MaxTime + Life, mate : BOOLEAN]
NoCert == [ca |-> NoCA, until |-> 0, mate |-> FALSE]
Gone   == "gone"                      \* the sender no longer waits
Request == [from : Passes \cup {Gone}, at : {"sent", "authorized", "minted", "stored"},
            token : Tokens \cup {NoToken}]

VARIABLES
  now,                                \* half days
  caKey, caCrt, serverFor,            \* certs/: ca.key, ca.crt, the host of server.crt
  crt, keyFile,                       \* certs/clients/: this agent's two files
  token, revoked,                     \* its row in agents
  configured,                         \* setup has got past ensure_certs
  requests,                           \* enrolments being served
  pfx, tokenFile,                     \* agent disk: itk-agent.pfx, agent.token
  pc, answer,                         \* agent processes
  elevated, faults, upsets            \* history: what can part the copies

authority == <<caKey, caCrt, serverFor>>
client  == <<crt, keyFile>>
row     == <<token, revoked>>
disk    == <<pfx, tokenFile>>
agent   == <<disk, pc, answer>>
history == <<elevated, faults, upsets>>
vars == <<now, authority, client, row, configured, requests, agent, history>>

-----------------------------------------------------------------------------
(* Helpers.  Each operator named Faulty... is a plausible slip in the      *)
(* definition that follows it; no specification uses one.                  *)

Fault == faults < MaxFaults /\ faults' = faults + 1

\* Test-ClientCertExpiry: TotalDays, a fraction.
AgentExpiring(c) == c.until - now <= 2 * Renewal

FaultyServerExpiring(c) == c.until - now <= 0
\* _client_cert_expiring: whole days, rounded down.
ServerExpiring(c) == (c.until - now) \div 2 <= Renewal

InUse == {token, tokenFile} \cup {r.token : r \in requests} \cup {answer[p].token : p \in Passes}
FreshToken == {t \in Tokens \ InUse : \A u \in Tokens \ InUse : t <= u}

\* require_agent_token: the token the row has, or before it has one the fleet
\* token, which the agent sends while it has no token of its own (NoToken).
Accepted(t) == ~revoked /\ t = token

NoAnswer == [cert |-> NoCert, token |-> NoToken]

\* The writes of ensure_certs, in order: ca.key, ca.crt, server.key,
\* server.crt; a kill leaves the first n of them.
MakeCerts(host, n) ==
  /\ caKey < MaxCAs
  /\ caKey' = IF n >= 1 THEN caKey + 1 ELSE caKey
  /\ caCrt' = IF n >= 2 THEN caKey + 1 ELSE caCrt
  /\ serverFor' = IF n = 4 THEN host ELSE serverFor

\* The server is killed: its requests end, their senders get no answer.
Abort ==
  /\ requests' = {}
  /\ pc' = [p \in Passes |-> IF pc[p] = "asking" THEN "idle" ELSE pc[p]]
  /\ UNCHANGED <<now, row, disk, answer, elevated>>

\* Request r ends with answer a to its sender, if that still waits.
Reply(r, a) ==
  /\ requests' = requests \ {r}
  /\ IF r.from = Gone THEN UNCHANGED <<pc, answer>>
     ELSE /\ pc' = [pc EXCEPT ![r.from] = IF a = NoAnswer THEN "idle" ELSE "saving"]
          /\ answer' = [answer EXCEPT ![r.from] = a]

-----------------------------------------------------------------------------
(* Ensure-ClientCert, run by each process as it starts *)

Runs(p) == IF p = "routine" THEN UNCHANGED elevated
           ELSE elevated < MaxElevated /\ elevated' = elevated + 1

\* Near expiry, or no token: the certificate is removed first ...
DropPfx(p) ==
  /\ pc[p] = "idle" /\ Runs(p)
  /\ pfx # NoCert /\ (AgentExpiring(pfx) \/ tokenFile = NoToken)
  /\ pfx' = NoCert
  /\ pc' = [pc EXCEPT ![p] = "dropping"]
  /\ UNCHANGED <<now, authority, client, row, configured, requests, tokenFile, answer, faults, upsets>>

Ask(p) ==
  /\ requests' = requests \cup {[from |-> p, at |-> "sent", token |-> NoToken]}
  /\ pc' = [pc EXCEPT ![p] = "asking"]
  /\ UNCHANGED <<now, authority, client, row, configured, pfx, answer, faults, upsets>>

\* ... then the token, and the agent enrols again with the fleet token.
DropToken(p) ==
  /\ pc[p] = "dropping" /\ Ask(p)
  /\ tokenFile' = NoToken
  /\ UNCHANGED elevated

Enrol(p) ==
  /\ pc[p] = "idle" /\ Runs(p) /\ pfx = NoCert /\ Ask(p)
  /\ UNCHANGED tokenFile

SavePfx(p) ==
  /\ pc[p] = "saving"
  /\ pfx' = answer[p].cert
  /\ pc' = [pc EXCEPT ![p] = "saved"]
  /\ UNCHANGED <<now, authority, client, row, configured, requests, tokenFile, answer, history>>

SaveToken(p) ==
  /\ pc[p] = "saved"
  /\ tokenFile' = answer[p].token
  /\ pc' = [pc EXCEPT ![p] = "idle"]
  /\ answer' = [answer EXCEPT ![p] = NoAnswer]
  /\ UNCHANGED <<now, authority, client, row, configured, requests, pfx, history>>

\* The request times out, or the process is killed where it is.
GiveUp(p) ==
  /\ pc[p] # "idle" /\ Fault
  /\ pc' = [pc EXCEPT ![p] = "idle"]
  /\ answer' = [answer EXCEPT ![p] = NoAnswer]
  /\ requests' = {[r EXCEPT !.from = IF r.from = p THEN Gone ELSE r.from] : r \in requests}
  /\ UNCHANGED <<now, authority, client, row, configured, disk, elevated, upsets>>

-----------------------------------------------------------------------------
(* GET /api/agent/enroll *)

Advance(r, at, t) == requests' = (requests \ {r}) \cup {[from |-> r.from, at |-> at, token |-> t]}

\* The row is created or read (last_seen moves either way); a revoked agent
\* is refused, the fleet token is not.
Authorize(r) ==
  /\ r.at = "sent"
  /\ IF revoked THEN Reply(r, NoAnswer)
     ELSE Advance(r, "authorized", NoToken) /\ UNCHANGED <<pc, answer>>
  /\ UNCHANGED <<now, authority, client, row, configured, disk, history>>

\* issue_agent_token: the token the row has, or a new one ...
FaultyLookUp(r) ==
  /\ r.at = "authorized"
  /\ \E t \in FreshToken : Advance(r, "minted", t)
  /\ upsets' = upsets \cup (IF token = NoToken /\ \E q \in requests : q.at = "minted"
                          THEN {"raced"} ELSE {})
  /\ UNCHANGED <<now, authority, client, row, configured, agent, elevated, faults>>
LookUp(r) ==
  /\ r.at = "authorized"
  /\ IF token # NoToken THEN Advance(r, "stored", token)
     ELSE \E t \in FreshToken : Advance(r, "minted", t)
  /\ upsets' = upsets \cup (IF token = NoToken /\ \E q \in requests : q.at = "minted"
                          THEN {"raced"} ELSE {})
  /\ UNCHANGED <<now, authority, client, row, configured, agent, elevated, faults>>

\* ... saved by an UPDATE that does not look again.
Store(r) ==
  /\ r.at = "minted"
  /\ token' = r.token
  /\ Advance(r, "stored", r.token)
  /\ UNCHANGED <<now, authority, client, revoked, configured, agent, history>>

\* issue_client_cert serves the files it has while the certificate is fresh.
Fresh == crt # NoCert /\ ~ServerExpiring(crt)

FaultyToPfx == keyFile # "none"       \* bundles whatever key there is
\* The key file is read and _to_pfx bundles it; a key that is not there, or not
\* the certificate's own, raises.
ToPfx == keyFile = "its own"

\* Serve the two files.
ServeCert(r) ==
  /\ r.at = "stored" /\ Fresh
  /\ Reply(r, IF ToPfx
              THEN [cert |-> [crt EXCEPT !.mate = (keyFile = "its own")], token |-> r.token]
              ELSE NoAnswer)
  /\ UNCHANGED <<now, authority, client, row, configured, disk, history>>

FaultyNewCa == MakeCerts("localhost", 4)
\* ensure_ca, for an agent that comes before setup.
EnsureCa == IF caCrt # NoCA THEN UNCHANGED authority ELSE MakeCerts("localhost", 4)

\* Sign a new certificate and write its file, then its key's.
IssueCert(r) ==
  /\ r.at = "stored" /\ ~Fresh
  /\ EnsureCa
  /\ crt' = [ca |-> caKey', until |-> now + Life, mate |-> TRUE]
  /\ keyFile' = "its own"
  /\ Reply(r, [cert |-> crt', token |-> r.token])
  /\ upsets' = upsets \cup (IF caCrt = NoCA THEN {"early"} ELSE {})
  /\ UNCHANGED <<now, row, configured, disk, elevated, faults>>

\* Killed between the two writes.
IssueKilled(r) ==
  /\ r.at = "stored" /\ ~Fresh /\ Fault
  /\ EnsureCa
  /\ crt' = [ca |-> caKey', until |-> now + Life, mate |-> TRUE]
  /\ keyFile' = IF keyFile = "none" THEN "none" ELSE "another's"
  /\ upsets' = upsets \cup (IF caCrt = NoCA THEN {"early"} ELSE {})
  /\ Abort
  /\ UNCHANGED configured

-----------------------------------------------------------------------------
(* Setup, administrators, time *)

certsExist == caCrt # NoCA /\ serverFor # "none"

\* ensure_certs in run_setup.
SetupCerts ==
  /\ ~configured /\ configured' = TRUE
  /\ IF certsExist THEN UNCHANGED authority ELSE MakeCerts("host", 4)
  /\ UNCHANGED <<now, client, row, requests, agent, history>>

SetupKilled ==
  /\ ~configured /\ ~certsExist /\ Fault
  /\ \E n \in 0 .. 3 : /\ MakeCerts("host", n)
                       /\ upsets' = upsets \cup (IF n >= 2 THEN {"torn"} ELSE {})
  /\ Abort
  /\ UNCHANGED <<client, configured>>

Revoke ==
  /\ ~revoked /\ Fault /\ revoked' = TRUE
  /\ UNCHANGED <<now, authority, client, token, configured, requests, agent, elevated, upsets>>

Unrevoke ==
  /\ revoked /\ revoked' = FALSE
  /\ UNCHANGED <<now, authority, client, token, configured, requests, agent, history>>

Tick ==
  /\ now < MaxTime /\ now' = now + 1
  /\ UNCHANGED <<authority, client, row, configured, requests, agent, history>>

-----------------------------------------------------------------------------

Init ==
  /\ now = 0
  /\ caKey = NoCA /\ caCrt = NoCA /\ serverFor = "none"
  /\ crt = NoCert /\ keyFile = "none"
  /\ token = NoToken /\ revoked = FALSE /\ configured = FALSE
  /\ requests = {} /\ pfx = NoCert /\ tokenFile = NoToken
  /\ pc = [p \in Passes |-> "idle"] /\ answer = [p \in Passes |-> NoAnswer]
  /\ elevated = 0 /\ faults = 0 /\ upsets = {}

AgentStep(p) == DropPfx(p) \/ DropToken(p) \/ Enrol(p) \/ SavePfx(p) \/ SaveToken(p)
Serve == \E r \in requests :
  Authorize(r) \/ LookUp(r) \/ Store(r) \/ ServeCert(r) \/ IssueCert(r)

Next ==
  \/ \E p \in Passes : AgentStep(p) \/ GiveUp(p)
  \/ Serve
  \/ \E r \in requests : IssueKilled(r)
  \/ SetupCerts \/ SetupKilled \/ Revoke \/ Unrevoke \/ Tick

Spec == Init /\ [][Next]_vars

\* The server runs its handlers, a process that has started goes on, and the
\* scheduled task starts the routine process again and again; nothing starts
\* the elevated one.
FairSpec ==
  /\ Spec
  /\ WF_vars(Serve)
  /\ \A p \in Passes : WF_vars((p = "routine" \/ pc[p] # "idle") /\ AgentStep(p))

-----------------------------------------------------------------------------
(* Properties *)

TypeOK ==
  /\ now \in 0 .. MaxTime
  /\ caKey \in 0 .. MaxCAs /\ caCrt \in 0 .. caKey /\ serverFor \in {"none", "localhost", "host"}
  /\ crt \in Cert \cup {NoCert} /\ keyFile \in {"none", "its own", "another's"}
  /\ token \in Tokens \cup {NoToken} /\ revoked \in BOOLEAN /\ configured \in BOOLEAN
  /\ requests \subseteq Request
  /\ pfx \in Cert \cup {NoCert} /\ tokenFile \in Tokens \cup {NoToken}
  /\ pc \in [Passes -> {"idle", "dropping", "asking", "saving", "saved"}]
  /\ answer \in [Passes -> [cert : Cert \cup {NoCert}, token : Tokens \cup {NoToken}]]
  /\ elevated \in 0 .. MaxElevated /\ faults \in 0 .. MaxFaults
  /\ upsets \subseteq {"raced", "torn", "early"}

\* issue_agent_token (main.py): "Re-runs keep the existing token so the agent
\* doesn't get a new identity on every re-enroll".  Every token on the agent,
\* or on its way there, is the one the server expects, through renewals,
\* retries, kills and late handlers; only two first enrolments that both
\* found no token can part them.
TokenWorks ==
  "raced" \notin upsets =>
    {tokenFile} \cup {answer[p].token : p \in Passes} \subseteq {NoToken, token}

\* Every certificate the agent has or is sent carries its own key, whatever is
\* killed; it was signed by the CA the mTLS port trusts now, unless setup was
\* killed between a CA and its server certificate and makes another CA; and
\* after setup the server's certificate names its host, unless an agent
\* enrolled before.
CertsFit ==
  LET certs == ({pfx} \cup {answer[p].cert : p \in Passes}) \ {NoCert}
  IN  /\ \A c \in certs : c.mate
      /\ "torn" \notin upsets => \A c \in certs : c.ca = caCrt
      /\ configured /\ "early" \notin upsets => serverFor = "host"

\* "Near-expiry triggers a re-enroll so the agent never gets stranded": the
\* agent counts fractions of a day and the server whole days, and still no
\* renewal hands back a certificate the agent would at once throw away.
RenewalSticks ==
  [][\A p \in Passes : pc[p] = "asking" /\ pc'[p] = "saving" =>
       ~AgentExpiring(answer'[p].cert)]_vars

\* A fresh certificate without its key, until it nears expiry: every enrolment fails.
Wedged == Fresh /\ ~ToPfx

\* An agent that keeps running ends up with a certificate the mTLS port takes
\* and a token that works, also after the server was killed between a
\* certificate and its key, once that certificate nears its expiry; unless it
\* stays revoked, two first enrolments raced, or setup was killed between a CA
\* and its server certificate.
EventuallyEnrolled ==
  <>[](\/ revoked \/ Wedged \/ upsets \cap {"raced", "torn"} # {}
       \/ /\ pfx # NoCert /\ ~AgentExpiring(pfx) /\ pfx.ca = caCrt
          /\ tokenFile # NoToken /\ Accepted(tokenFile))
=============================================================================
