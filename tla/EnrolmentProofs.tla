-------------------------- MODULE EnrolmentProofs --------------------------
(***************************************************************************)
(* Proofs about Enrolment: the types, that the tokens and the certificates *)
(* of the two sides agree, and that a renewal lasts.                       *)
(***************************************************************************)
EXTENDS Enrolment, TLAPS

Answers == [cert : Cert \cup {NoCert}, token : Tokens \cup {NoToken}]

LEMMA Kinds ==
  /\ NoToken \notin Tokens /\ NoAnswer \in Answers /\ NoCert \notin Cert
  /\ FreshToken \subseteq Tokens
  /\ \A c \in Cert : c.ca \in 1 .. MaxCAs /\ c.until \in 0 .. MaxTime + Life /\ c.mate \in BOOLEAN
BY EnrolmentAssumption DEF NoToken, NoAnswer, Answers, NoCert, NoCA, Cert, FreshToken

LEMMA Bounds ==
  /\ MaxCAs \in Nat /\ Life \in Nat /\ Renewal \in Nat
  /\ MaxTime \in Nat /\ MaxElevated \in Nat /\ MaxFaults \in Nat
BY EnrolmentAssumption

LEMMA Lasting == 2 * Renewal + 1 < Life
BY EnrolmentAssumption

LEMMA Orphaned ==
  ASSUME NEW r \in Request, NEW p
  PROVE  LET q == [r EXCEPT !.from = IF r.from = p THEN Gone ELSE r.from]
         IN  q \in Request /\ q.at = r.at /\ q.token = r.token
BY DEF Request

-----------------------------------------------------------------------------
(* Type correctness *)

LEMMA TypeInit == Init => TypeOK
<1> SUFFICES ASSUME Init PROVE TypeOK
  OBVIOUS
<1>1. revoked \in BOOLEAN
  BY Zenon DEF Init
<1>2. configured \in BOOLEAN
  BY Zenon DEF Init
<1>3. answer \in [Passes -> Answers]
  BY Kinds DEF Init
<1> QED BY <1>1, <1>2, <1>3, Bounds DEF Init, TypeOK, Answers, NoCA

LEMMA TypeReply ==
  ASSUME TypeOK, NEW r \in requests, NEW a \in Answers, Reply(r, a)
  PROVE  /\ requests' \subseteq Request
         /\ pc' \in [Passes -> {"idle", "dropping", "asking", "saving", "saved"}]
         /\ answer' \in [Passes -> Answers]
<1>1. requests' \subseteq Request
  BY DEF Reply, TypeOK
<1>2. answer \in [Passes -> Answers]
  BY DEF TypeOK, Answers
<1>3. CASE r.from = Gone
  BY <1>1, <1>2, <1>3 DEF Reply, TypeOK
<1>4. CASE r.from # Gone
  <2>1. PICK x \in {"idle", "saving"} : pc' = [pc EXCEPT ![r.from] = x]
    BY <1>4 DEF Reply
  <2>2. answer' = [answer EXCEPT ![r.from] = a]
    BY <1>4 DEF Reply
  <2> QED BY <1>1, <1>2, <2>1, <2>2 DEF TypeOK
<1> QED BY <1>3, <1>4

LEMMA TypeAdvance ==
  ASSUME TypeOK, NEW r \in requests, NEW at \in {"sent", "authorized", "minted", "stored"},
         NEW t \in Tokens \cup {NoToken}, Advance(r, at, t)
  PROVE  requests' \subseteq Request
<1>1. r.from \in Passes \cup {Gone}
  BY DEF TypeOK, Request
<1>2. [from |-> r.from, at |-> at, token |-> t] \in Request
  BY <1>1 DEF Request
<1> QED BY <1>2 DEF Advance, TypeOK

LEMMA TypeAuthority ==
  ASSUME TypeOK, NEW h \in {"localhost", "host"}, NEW n \in 0 .. 4,
         MakeCerts(h, n) \/ UNCHANGED authority
  PROVE  /\ caKey' \in 0 .. MaxCAs /\ caCrt' \in 0 .. caKey'
         /\ serverFor' \in {"none", "localhost", "host"}
<1>1. /\ caKey \in 0 .. MaxCAs /\ caCrt \in 0 .. caKey /\ serverFor \in {"none", "localhost", "host"}
      /\ MaxCAs \in Nat
  BY Bounds DEF TypeOK
<1>2. CASE MakeCerts(h, n)
  BY <1>1, <1>2 DEF MakeCerts
<1>3. CASE UNCHANGED authority
  BY <1>1, <1>3 DEF authority
<1> QED BY <1>2, <1>3

\* A CA is there once ensure_ca has run.
LEMMA CaMade ==
  ASSUME TypeOK, EnsureCa
  PROVE  caKey' # NoCA
<1>1. caKey \in 0 .. MaxCAs /\ caCrt \in 0 .. caKey /\ MaxCAs \in Nat
  BY Bounds DEF TypeOK
<1>2. CASE caCrt # NoCA
  <2>1. caKey' = caKey
    BY <1>2 DEF EnsureCa, authority
  <2> QED BY <1>1, <1>2, <2>1 DEF NoCA
<1>3. CASE caCrt = NoCA
  <2>1. caKey' = caKey + 1
    BY <1>3 DEF EnsureCa, MakeCerts
  <2> QED BY <1>1, <2>1 DEF NoCA
<1> QED BY <1>2, <1>3

LEMMA Counted ==
  ASSUME TypeOK, UNCHANGED faults \/ Fault
  PROVE  faults' \in 0 .. MaxFaults
<1>1. faults \in 0 .. MaxFaults
  BY DEF TypeOK
<1>2. MaxFaults \in Nat
  BY Bounds
<1>3. faults' = faults \/ (faults < MaxFaults /\ faults' = faults + 1)
  BY DEF Fault
<1> QED BY <1>1, <1>2, <1>3

LEMMA TypeAgent ==
  ASSUME TypeOK, NEW p \in Passes, AgentStep(p) \/ GiveUp(p)
  PROVE  TypeOK'
<1> USE DEF authority, client, row, disk, agent, history
<1>1. elevated' \in 0 .. MaxElevated /\ faults' \in 0 .. MaxFaults
  <2>1. elevated' = elevated \/ (elevated < MaxElevated /\ elevated' = elevated + 1)
    BY DEF AgentStep, DropPfx, DropToken, Enrol, SavePfx, SaveToken, GiveUp, Ask, Runs
  <2>2. UNCHANGED faults \/ Fault
    BY DEF AgentStep, DropPfx, DropToken, Enrol, SavePfx, SaveToken, GiveUp, Ask
  <2>3. elevated \in 0 .. MaxElevated
    BY DEF TypeOK
  <2>4. MaxElevated \in Nat
    BY Bounds
  <2>5. elevated' \in 0 .. MaxElevated
    BY <2>1, <2>3, <2>4
  <2> QED BY <2>2, <2>5, Counted
<1>2. pc' \in [Passes -> {"idle", "dropping", "asking", "saving", "saved"}]
  BY DEF TypeOK, AgentStep, DropPfx, DropToken, Enrol, SavePfx, SaveToken, GiveUp, Ask
<1>3. answer' \in [Passes -> Answers]
  <2>1. answer \in [Passes -> Answers]
    BY DEF TypeOK, Answers
  <2>2. answer' = answer \/ answer' = [answer EXCEPT ![p] = NoAnswer]
    BY DEF AgentStep, DropPfx, DropToken, Enrol, SavePfx, SaveToken, GiveUp, Ask
  <2> QED BY <2>1, <2>2, Kinds
<1>4. requests' \subseteq Request
  <2>1. CASE GiveUp(p)
    <3>1. \A r \in requests : [r EXCEPT !.from = IF r.from = p THEN Gone ELSE r.from] \in Request
      BY Orphaned DEF TypeOK
    <3> QED BY <2>1, <3>1 DEF GiveUp
  <2>2. [from |-> p, at |-> "sent", token |-> NoToken] \in Request
    BY DEF Request
  <2>3. CASE DropToken(p) \/ Enrol(p)
    BY <2>2, <2>3 DEF DropToken, Enrol, Ask, TypeOK
  <2>4. CASE DropPfx(p) \/ SavePfx(p) \/ SaveToken(p)
    BY <2>4 DEF DropPfx, SavePfx, SaveToken, TypeOK
  <2> QED BY <2>1, <2>3, <2>4 DEF AgentStep
<1>5. pfx' \in Cert \cup {NoCert} /\ tokenFile' \in Tokens \cup {NoToken}
  BY DEF TypeOK, AgentStep, DropPfx, DropToken, Enrol, SavePfx, SaveToken, GiveUp, Ask
<1>6. UNCHANGED <<now, authority, client, row, configured, upsets>>
  BY DEF AgentStep, DropPfx, DropToken, Enrol, SavePfx, SaveToken, GiveUp, Ask
<1> QED BY <1>1, <1>2, <1>3, <1>4, <1>5, <1>6 DEF TypeOK, Answers

\* What issue_client_cert leaves on disk and answers is a certificate.
LEMMA Issued ==
  ASSUME TypeOK, EnsureCa, crt' = [ca |-> caKey', until |-> now + Life, mate |-> TRUE],
         caKey' # NoCA
  PROVE  crt' \in Cert
<1>1. caKey' \in 1 .. MaxCAs
  <2>1. MakeCerts("localhost", 4) \/ UNCHANGED authority
    BY DEF EnsureCa
  <2>2. caKey' \in 0 .. MaxCAs
    BY <2>1, TypeAuthority
  <2> QED BY <2>2, Bounds DEF NoCA
<1>2. now + Life \in 0 .. MaxTime + Life
  <2>1. now \in 0 .. MaxTime
    BY DEF TypeOK
  <2>2. MaxTime \in Nat /\ Life \in Nat
    BY Bounds
  <2> QED BY <2>1, <2>2
<1> QED BY <1>1, <1>2 DEF Cert

LEMMA Served ==
  ASSUME TypeOK, crt # NoCert
  PROVE  /\ [crt EXCEPT !.mate = (keyFile = "its own")] \in Cert
         /\ [crt EXCEPT !.mate = (keyFile = "its own")].ca = crt.ca
         /\ [crt EXCEPT !.mate = (keyFile = "its own")].until = crt.until
         /\ [crt EXCEPT !.mate = (keyFile = "its own")].mate = (keyFile = "its own")
<1>1. crt \in Cert
  BY DEF TypeOK
<1>2. (keyFile = "its own") \in BOOLEAN
  BY Zenon
<1> QED BY <1>1, <1>2 DEF Cert

\* What a served request ends with is an answer with its own token, or none.
LEMMA TypeAnswer ==
  ASSUME TypeOK, NEW r \in requests, ServeCert(r) \/ IssueCert(r)
  PROVE  \E a \in Answers :
           /\ Reply(r, a) /\ a.token \in {NoToken, r.token}
           /\ ServeCert(r) => \/ a = NoAnswer
                              \/ ToPfx /\ a.cert = [crt EXCEPT !.mate = (keyFile = "its own")]
           /\ IssueCert(r) => a.cert = crt'
<1>1. r.token \in Tokens \cup {NoToken}
  BY DEF TypeOK, Request
<1>2. CASE ServeCert(r)
  <2>1. [cert |-> [crt EXCEPT !.mate = (keyFile = "its own")], token |-> r.token] \in Answers
    BY <1>1, <1>2, Served DEF ServeCert, Fresh, Answers
  <2>2. ~IssueCert(r)
    BY <1>2 DEF ServeCert, IssueCert
  <2>3. NoAnswer.token = NoToken
    BY DEF NoAnswer
  <2>4. CASE ~ToPfx
    BY <1>2, <2>2, <2>3, <2>4, Kinds DEF ServeCert
  <2>5. CASE ToPfx
    BY <1>2, <2>1, <2>2, <2>5 DEF ServeCert
  <2> QED BY <2>4, <2>5
<1>3. CASE IssueCert(r)
  <2>1. crt' \in Cert
    BY <1>3, CaMade, Issued DEF IssueCert
  <2>2. [cert |-> crt', token |-> r.token] \in Answers
    BY <1>1, <2>1 DEF Answers
  <2>3. ~ServeCert(r)
    BY <1>3 DEF ServeCert, IssueCert
  <2> QED BY <1>3, <2>2, <2>3 DEF IssueCert
<1> QED BY <1>2, <1>3

LEMMA TypeServe ==
  ASSUME TypeOK, NEW r \in requests,
         Authorize(r) \/ LookUp(r) \/ Store(r) \/ ServeCert(r) \/ IssueCert(r)
  PROVE  TypeOK'
<1> USE DEF authority, client, row, disk, agent, history
<1>1. r.token \in Tokens \cup {NoToken}
  BY DEF TypeOK, Request
<1>2. CASE Authorize(r)
  <2>1. CASE revoked
    BY <1>2, <2>1, TypeReply, Kinds DEF Authorize, TypeOK, Answers
  <2>2. CASE ~revoked
    BY <1>2, <2>2, TypeAdvance DEF Authorize, TypeOK
  <2> QED BY <2>1, <2>2
<1>3. CASE LookUp(r)
  <2>1. PICK at \in {"stored", "minted"}, t \in Tokens \cup {NoToken} : Advance(r, at, t)
    BY <1>3, Kinds DEF LookUp, TypeOK
  <2>2. requests' \subseteq Request
    BY <2>1, TypeAdvance
  <2> QED BY <1>3, <2>2 DEF LookUp, TypeOK
<1>4. CASE Store(r)
  <2>1. requests' \subseteq Request
    BY <1>1, <1>4, TypeAdvance DEF Store
  <2> QED BY <1>1, <1>4, <2>1 DEF Store, TypeOK
<1>5. CASE ServeCert(r)
  <2>1. PICK a \in Answers : Reply(r, a)
    BY <1>5, TypeAnswer
  <2>2. /\ requests' \subseteq Request
        /\ pc' \in [Passes -> {"idle", "dropping", "asking", "saving", "saved"}]
        /\ answer' \in [Passes -> Answers]
    BY <2>1, TypeReply
  <2> QED BY <1>5, <2>2 DEF ServeCert, TypeOK, Answers
<1>6. CASE IssueCert(r)
  <2>1. MakeCerts("localhost", 4) \/ UNCHANGED authority
    BY <1>6 DEF IssueCert, EnsureCa
  <2>2. caKey' \in 0 .. MaxCAs /\ caCrt' \in 0 .. caKey' /\ serverFor' \in {"none", "localhost", "host"}
    BY <2>1, TypeAuthority
  <2>3. caKey' # NoCA
    BY <1>6, CaMade DEF IssueCert
  <2>4. crt' \in Cert
    BY <1>6, <2>3, Issued DEF IssueCert
  <2>5. [cert |-> crt', token |-> r.token] \in Answers
    BY <1>1, <2>4 DEF Answers
  <2>6. /\ requests' \subseteq Request
        /\ pc' \in [Passes -> {"idle", "dropping", "asking", "saving", "saved"}]
        /\ answer' \in [Passes -> Answers]
    BY <1>6, <2>5, TypeReply DEF IssueCert
  <2>7. upsets' \subseteq {"raced", "torn", "early"}
    BY <1>6 DEF IssueCert, TypeOK
  <2> QED BY <1>6, <2>2, <2>4, <2>6, <2>7 DEF IssueCert, TypeOK, Answers
<1> QED BY <1>2, <1>3, <1>4, <1>5, <1>6

LEMMA TypeKilled ==
  ASSUME TypeOK, (\E r \in requests : IssueKilled(r)) \/ SetupKilled
  PROVE  TypeOK'
<1> USE DEF authority, client, row, disk, agent, history
<1>1. /\ requests' = {} /\ UNCHANGED <<now, row, disk, answer, elevated, configured>>
      /\ pc' \in [Passes -> {"idle", "dropping", "asking", "saving", "saved"}]
  BY DEF IssueKilled, SetupKilled, Abort, TypeOK
<1>2. faults' \in 0 .. MaxFaults
  <2>1. Fault
    BY DEF IssueKilled, SetupKilled
  <2> QED BY <2>1, Counted
<1>3. CASE \E r \in requests : IssueKilled(r)
  <2>1. PICK r \in requests : IssueKilled(r)
    BY <1>3
  <2>2. MakeCerts("localhost", 4) \/ UNCHANGED authority
    BY <2>1 DEF IssueKilled, EnsureCa
  <2>3. caKey' \in 0 .. MaxCAs /\ caCrt' \in 0 .. caKey' /\ serverFor' \in {"none", "localhost", "host"}
    BY <2>2, TypeAuthority
  <2>4. caKey' # NoCA
    BY <2>1, CaMade DEF IssueKilled
  <2>5. crt' \in Cert
    BY <2>1, <2>4, Issued DEF IssueKilled
  <2>6. upsets' \subseteq {"raced", "torn", "early"} /\ keyFile' \in {"none", "its own", "another's"}
    BY <2>1 DEF IssueKilled, TypeOK
  <2> QED BY <1>1, <1>2, <2>3, <2>5, <2>6 DEF TypeOK
<1>4. CASE SetupKilled
  <2>1. PICK n \in 0 .. 3 : MakeCerts("host", n)
    BY <1>4 DEF SetupKilled
  <2>2. caKey' \in 0 .. MaxCAs /\ caCrt' \in 0 .. caKey' /\ serverFor' \in {"none", "localhost", "host"}
    BY <2>1, TypeAuthority
  <2>3. upsets' \subseteq {"raced", "torn", "early"}
    BY <1>4 DEF SetupKilled, TypeOK
  <2> QED BY <1>1, <1>2, <1>4, <2>2, <2>3 DEF TypeOK, SetupKilled
<1> QED BY <1>3, <1>4

LEMMA TypeNext == TypeOK /\ [Next]_vars => TypeOK'
<1> SUFFICES ASSUME TypeOK, [Next]_vars PROVE TypeOK'
  OBVIOUS
<1> USE DEF authority, client, row, disk, agent, history
<1>1. CASE SetupCerts
  <2>1. MakeCerts("host", 4) \/ UNCHANGED authority
    BY <1>1 DEF SetupCerts
  <2>2. caKey' \in 0 .. MaxCAs /\ caCrt' \in 0 .. caKey' /\ serverFor' \in {"none", "localhost", "host"}
    BY <2>1, TypeAuthority
  <2>3. configured' \in BOOLEAN
    BY <1>1, Zenon DEF SetupCerts
  <2> QED BY <1>1, <2>2, <2>3 DEF SetupCerts, TypeOK
<1>2. CASE Revoke
  <2>1. revoked' \in BOOLEAN
    BY <1>2, Zenon DEF Revoke
  <2>2. faults' \in 0 .. MaxFaults
    BY <1>2, Counted DEF Revoke
  <2> QED BY <1>2, <2>1, <2>2 DEF Revoke, TypeOK
<1>3. CASE Unrevoke
  <2>1. revoked' \in BOOLEAN
    BY <1>3, Zenon DEF Unrevoke
  <2> QED BY <1>3, <2>1 DEF Unrevoke, TypeOK
<1>4. CASE Tick
  <2>1. now' \in 0 .. MaxTime
    <3>1. now \in 0 .. MaxTime
      BY DEF TypeOK
    <3>2. MaxTime \in Nat
      BY Bounds
    <3> QED BY <1>4, <3>1, <3>2 DEF Tick
  <2> QED BY <1>4, <2>1 DEF Tick, TypeOK
<1>5. CASE UNCHANGED vars
  BY <1>5 DEF vars, TypeOK
<1> QED
  BY <1>1, <1>2, <1>3, <1>4, <1>5, TypeAgent, TypeServe, TypeKilled DEF Next, Serve

\* Enrolment keeps its types, whatever is killed, lost or revoked.
THEOREM TypeCorrect == Spec => []TypeOK
BY TypeInit, TypeNext, PTL DEF Spec

-----------------------------------------------------------------------------
(* The tokens *)

OnAgent == {tokenFile} \cup {answer[p].token : p \in Passes}

\* What is minted is minted before any token is stored, and but for a race it
\* is one token; what is stored is the row's.
TokenInv ==
  "raced" \notin upsets =>
    /\ OnAgent \subseteq {NoToken, token}
    /\ \A r \in requests :
         /\ r.at = "stored" => r.token = token /\ token # NoToken
         /\ r.at = "minted" => token = NoToken /\ r.token # NoToken
    /\ \A r, q \in requests : r.at = "minted" /\ q.at = "minted" => r = q

LEMMA TokenInit == Init => TokenInv
BY DEF Init, TokenInv, OnAgent, NoAnswer

\* A reply ends one request; who waits for it gets it, everyone else what they had.
LEMMA Replied ==
  ASSUME TypeOK, NEW r \in requests, NEW a \in Answers, Reply(r, a)
  PROVE  requests' = requests \ {r} /\ \A p \in Passes : answer'[p] \in {answer[p], a}
<1>1. CASE r.from = Gone
  BY <1>1 DEF Reply
<1>2. CASE r.from # Gone
  BY <1>2 DEF Reply, TypeOK
<1> QED BY <1>1, <1>2

LEMMA Advanced ==
  ASSUME NEW r \in requests, NEW at, NEW t, Advance(r, at, t)
  PROVE  \A q \in requests' :
           (q \in requests /\ q # r) \/ (q = [from |-> r.from, at |-> at, token |-> t]
                                         /\ q.at = at /\ q.token = t)
BY DEF Advance

LEMMA TokenAgent ==
  ASSUME TypeOK, TokenInv, NEW p \in Passes, AgentStep(p) \/ GiveUp(p)
  PROVE  TokenInv'
<1> USE DEF authority, client, row, disk, agent, history
<1> SUFFICES ASSUME "raced" \notin upsets' PROVE TokenInv'
  BY DEF TokenInv
<1>1. token' = token /\ upsets' = upsets
  BY DEF AgentStep, DropPfx, DropToken, Enrol, SavePfx, SaveToken, GiveUp, Ask
<1>2. OnAgent \subseteq {NoToken, token}
  BY <1>1 DEF TokenInv
<1>3. OnAgent' \subseteq {NoToken, token}
  <2>1. tokenFile' \in {tokenFile, NoToken, answer[p].token}
    BY DEF AgentStep, DropPfx, DropToken, Enrol, SavePfx, SaveToken, GiveUp, Ask
  <2>2. answer' = answer \/ answer' = [answer EXCEPT ![p] = NoAnswer]
    BY DEF AgentStep, DropPfx, DropToken, Enrol, SavePfx, SaveToken, GiveUp, Ask
  <2>3. \A q \in Passes : answer'[q] = answer[q] \/ answer'[q] = NoAnswer
    BY <2>2 DEF TypeOK
  <2>4. NoAnswer.token = NoToken
    BY DEF NoAnswer
  <2> QED BY <1>2, <2>1, <2>3, <2>4 DEF OnAgent
<1>4. CASE GiveUp(p)
  <2> DEFINE o(r) == [r EXCEPT !.from = IF r.from = p THEN Gone ELSE r.from]
  <2>1. \A r \in requests : o(r).at = r.at /\ o(r).token = r.token
    BY Orphaned DEF TypeOK
  <2>2. requests' = {o(r) : r \in requests}
    BY <1>4 DEF GiveUp
  <2> HIDE DEF o
  <2> QED BY <1>1, <1>3, <2>1, <2>2 DEF TokenInv
<1>5. CASE AgentStep(p)
  <2>1. \A r \in requests' : r \in requests \/ r.at = "sent"
    BY <1>5 DEF AgentStep, DropPfx, DropToken, Enrol, SavePfx, SaveToken, Ask
  <2> QED BY <1>1, <1>3, <2>1 DEF TokenInv
<1> QED BY <1>4, <1>5

LEMMA TokenServe ==
  ASSUME TypeOK, TokenInv, NEW r \in requests,
         Authorize(r) \/ LookUp(r) \/ Store(r) \/ ServeCert(r) \/ IssueCert(r)
  PROVE  TokenInv'
<1> USE DEF authority, client, row, disk, agent, history
<1> SUFFICES ASSUME "raced" \notin upsets' PROVE TokenInv'
  BY DEF TokenInv
<1>1. "raced" \notin upsets
  BY DEF Authorize, LookUp, Store, ServeCert, IssueCert
<1>2. r.token \in Tokens \cup {NoToken}
  BY DEF TypeOK, Request
<1>3. CASE Authorize(r)
  <2>1. CASE revoked
    <3>1. Reply(r, NoAnswer) /\ token' = token /\ tokenFile' = tokenFile
      BY <1>3, <2>1 DEF Authorize
    <3>2. requests' = requests \ {r} /\ \A p \in Passes : answer'[p] \in {answer[p], NoAnswer}
      BY <3>1, Kinds, Replied
    <3>3. OnAgent' \subseteq {NoToken, token}
      BY <1>1, <3>1, <3>2 DEF TokenInv, OnAgent, NoAnswer
    <3> QED BY <1>1, <3>1, <3>2, <3>3 DEF TokenInv
  <2>2. CASE ~revoked
    <3>1. Advance(r, "authorized", NoToken) /\ token' = token /\ OnAgent' = OnAgent
      BY <1>3, <2>2 DEF Authorize, OnAgent
    <3>2. \A q \in requests' : (q \in requests /\ q # r) \/ q.at = "authorized"
      BY <3>1, Advanced
    <3> QED BY <1>1, <3>1, <3>2 DEF TokenInv
  <2> QED BY <2>1, <2>2
<1>4. CASE LookUp(r)
  <2>1. token' = token /\ OnAgent' = OnAgent
    BY <1>4 DEF LookUp, OnAgent
  <2>2. CASE token # NoToken
    <3>1. Advance(r, "stored", token)
      BY <1>4, <2>2 DEF LookUp
    <3>2. \A q \in requests' : (q \in requests /\ q # r) \/ (q.at = "stored" /\ q.token = token)
      BY <3>1, Advanced
    <3> QED BY <1>1, <2>1, <2>2, <3>2 DEF TokenInv
  <2>3. CASE token = NoToken
    <3>1. PICK t \in Tokens : Advance(r, "minted", t)
      BY <1>4, <2>3, Kinds DEF LookUp
    <3>2. \A q \in requests : q.at # "minted"
      BY <1>4, <2>3 DEF LookUp
    <3>3. \A q \in requests' :
            \/ q \in requests
            \/ q = [from |-> r.from, at |-> "minted", token |-> t] /\ q.at = "minted" /\ q.token = t
      BY <3>1, Advanced
    <3> QED BY <1>1, <2>1, <2>3, <3>2, <3>3, Kinds DEF TokenInv
  <2> QED BY <2>2, <2>3
<1>5. CASE Store(r)
  <2>1. token = NoToken /\ r.token # NoToken /\ \A q \in requests : q.at = "minted" => q = r
    BY <1>1, <1>5 DEF Store, TokenInv
  <2>2. \A q \in requests : q.at # "stored"
    BY <1>1, <2>1 DEF TokenInv
  <2>3. token' = r.token /\ OnAgent' = OnAgent /\ Advance(r, "stored", r.token)
    BY <1>5 DEF Store, OnAgent
  <2>4. \A q \in requests' : (q \in requests /\ q # r) \/ (q.at = "stored" /\ q.token = r.token)
    BY <2>3, Advanced
  <2>5. OnAgent' \subseteq {NoToken}
    BY <1>1, <2>1, <2>3 DEF TokenInv
  <2> QED BY <2>1, <2>2, <2>3, <2>4, <2>5 DEF TokenInv
<1>6. CASE ServeCert(r) \/ IssueCert(r)
  <2>1. r.token = token /\ token' = token /\ tokenFile' = tokenFile
    BY <1>1, <1>6 DEF ServeCert, IssueCert, TokenInv
  <2>2. PICK a \in Answers : Reply(r, a) /\ a.token \in {NoToken, token}
    BY <1>2, <1>6, <2>1, TypeAnswer
  <2>3. requests' = requests \ {r} /\ \A p \in Passes : answer'[p] \in {answer[p], a}
    BY <2>2, Replied
  <2>4. OnAgent' \subseteq {NoToken, token}
    BY <1>1, <2>1, <2>2, <2>3 DEF TokenInv, OnAgent
  <2> QED BY <1>1, <2>1, <2>3, <2>4 DEF TokenInv
<1> QED BY <1>3, <1>4, <1>5, <1>6

LEMMA TokenNext == TypeOK /\ TokenInv /\ [Next]_vars => TokenInv'
<1> SUFFICES ASSUME TypeOK, TokenInv, [Next]_vars PROVE TokenInv'
  OBVIOUS
<1> USE DEF authority, client, row, disk, agent, history
<1>1. CASE SetupKilled \/ \E r \in requests : IssueKilled(r)
  <2>1. requests' = {} /\ token' = token /\ OnAgent' = OnAgent /\ upsets \subseteq upsets'
    BY <1>1 DEF SetupKilled, IssueKilled, Abort, OnAgent
  <2> QED BY <2>1 DEF TokenInv
<1>2. CASE SetupCerts \/ Revoke \/ Unrevoke \/ Tick \/ UNCHANGED vars
  <2>1. UNCHANGED <<requests, token, upsets>> /\ OnAgent' = OnAgent
    BY <1>2 DEF SetupCerts, Revoke, Unrevoke, Tick, vars, OnAgent
  <2> QED BY <2>1 DEF TokenInv
<1> QED BY <1>1, <1>2, TokenAgent, TokenServe DEF Next, Serve

\* TokenWorks: however renewals, retries, kills, late handlers and revocations
\* mix, every token the agent has or is being sent is the one the server wants.
THEOREM TokensAgree == Spec => []TokenWorks
<1>1. TokenInv => TokenWorks
  BY DEF TokenInv, TokenWorks, OnAgent
<1> QED BY <1>1, TypeInit, TypeNext, TokenInit, TokenNext, PTL DEF Spec

-----------------------------------------------------------------------------
(* The certificates *)

Fits(c) == c = NoCert \/ c.ca = caCrt
Held == {pfx} \cup {answer[p].cert : p \in Passes}

\* _to_pfx lets no certificate out without its own key.
MateInv == \A c \in Held : c = NoCert \/ c.mate

\* Without a kill between a CA and its server certificate the two are made
\* together and once, and all there is was signed by that CA.
CaInv ==
  "torn" \notin upsets =>
    /\ caKey = caCrt \/ caCrt = NoCA
    /\ caCrt = NoCA <=> serverFor = "none"
    /\ Fits(crt)
    /\ \A c \in Held : Fits(c)
    /\ caCrt = NoCA => crt = NoCert /\ Held = {NoCert}

\* A CA comes no later than a server certificate, and setup leaves both.
ServerInv ==
  /\ "early" \notin upsets => serverFor # "localhost"
  /\ configured => serverFor # "none"
  /\ serverFor # "none" => caCrt # NoCA

LEMMA CertInit == Init => MateInv /\ CaInv /\ ServerInv
BY DEF Init, MateInv, CaInv, ServerInv, Held, Fits, NoAnswer

LEMMA EnsuredCa ==
  ASSUME TypeOK, EnsureCa
  PROVE  /\ caCrt # NoCA => UNCHANGED <<caKey, caCrt, serverFor>>
         /\ caCrt = NoCA => caKey' = caCrt' /\ serverFor' = "localhost"
         /\ caKey' # NoCA
         /\ caCrt' # NoCA
<1>1. caKey' # NoCA
  BY CaMade
<1>2. CASE caCrt # NoCA
  BY <1>1, <1>2 DEF EnsureCa, authority
<1>3. CASE caCrt = NoCA
  BY <1>1, <1>3 DEF EnsureCa, MakeCerts
<1> QED BY <1>2, <1>3

LEMMA NextCa == TypeOK => caKey + 1 # NoCA
<1>1. TypeOK => caKey \in 0 .. MaxCAs
  BY DEF TypeOK
<1>2. MaxCAs \in Nat
  BY Bounds
<1> QED BY <1>1, <1>2 DEF NoCA

LEMMA CertAgent ==
  ASSUME TypeOK, MateInv, CaInv, ServerInv, NEW p \in Passes, AgentStep(p) \/ GiveUp(p)
  PROVE  MateInv' /\ CaInv' /\ ServerInv'
<1> USE DEF authority, client, row, disk, agent, history
<1>1. UNCHANGED <<caKey, caCrt, serverFor, crt, keyFile, configured, upsets>>
  BY DEF AgentStep, DropPfx, DropToken, Enrol, SavePfx, SaveToken, GiveUp, Ask
<1>2. Held' \subseteq Held \cup {NoCert}
  <2>1. pfx' \in {pfx, NoCert, answer[p].cert}
    BY DEF AgentStep, DropPfx, DropToken, Enrol, SavePfx, SaveToken, GiveUp, Ask
  <2>2. answer' = answer \/ answer' = [answer EXCEPT ![p] = NoAnswer]
    BY DEF AgentStep, DropPfx, DropToken, Enrol, SavePfx, SaveToken, GiveUp, Ask
  <2>3. \A q \in Passes : answer'[q] = answer[q] \/ answer'[q] = NoAnswer
    BY <2>2 DEF TypeOK
  <2>4. NoAnswer.cert = NoCert
    BY DEF NoAnswer
  <2> QED BY <2>1, <2>3, <2>4 DEF Held
<1>3. Held' # {}
  BY DEF Held
<1>4. ServerInv'
  BY <1>1 DEF ServerInv
<1>5. CaInv'
  BY <1>1, <1>2, <1>3 DEF CaInv, Fits
<1>6. MateInv'
  BY <1>2 DEF MateInv
<1> QED BY <1>4, <1>5, <1>6

\* What a served request leaves in the certificates' places.
LEMMA HeldServe ==
  ASSUME TypeOK, NEW r \in requests, NEW c, pfx' = pfx,
         UNCHANGED answer \/ \E a \in Answers : Reply(r, a) /\ a.cert = c
  PROVE  Held' \subseteq Held \cup {c} /\ Held' # {}
<1>1. CASE UNCHANGED answer
  BY <1>1 DEF Held
<1>2. CASE \E a \in Answers : Reply(r, a) /\ a.cert = c
  <2>1. PICK a \in Answers : Reply(r, a) /\ a.cert = c
    BY <1>2
  <2>2. \A p \in Passes : answer'[p] \in {answer[p], a}
    BY <2>1, Replied
  <2> QED BY <2>1, <2>2 DEF Held
<1> QED BY <1>1, <1>2

LEMMA CertServe ==
  ASSUME TypeOK, MateInv, CaInv, ServerInv, NEW r \in requests,
         Authorize(r) \/ LookUp(r) \/ Store(r) \/ ServeCert(r) \/ IssueCert(r)
  PROVE  MateInv' /\ CaInv' /\ ServerInv'
<1> USE DEF authority, client, row, disk, agent, history
<1>1. pfx' = pfx /\ configured' = configured
  BY DEF Authorize, LookUp, Store, ServeCert, IssueCert
<1>2. "torn" \in upsets' <=> "torn" \in upsets
  BY DEF Authorize, LookUp, Store, ServeCert, IssueCert
<1>3. CASE Authorize(r) \/ LookUp(r) \/ Store(r)
  <2>1. /\ UNCHANGED <<caKey, caCrt, serverFor, crt, keyFile>>
        /\ "early" \in upsets' <=> "early" \in upsets
    BY <1>3 DEF Authorize, LookUp, Store
  <2>2. UNCHANGED answer \/ (Reply(r, NoAnswer) /\ NoAnswer \in Answers /\ NoAnswer.cert = NoCert)
    BY <1>3, Kinds DEF Authorize, LookUp, Store, NoAnswer
  <2>3. Held' \subseteq Held \cup {NoCert} /\ Held' # {}
    BY <1>1, <2>2, HeldServe
  <2>4. ServerInv'
    BY <1>1, <2>1 DEF ServerInv
  <2>5. CaInv'
    BY <1>2, <2>1, <2>3 DEF CaInv, Fits
  <2>6. MateInv'
    BY <2>3 DEF MateInv
  <2> QED BY <2>4, <2>5, <2>6
<1>4. CASE ServeCert(r)
  <2>1. UNCHANGED <<caKey, caCrt, serverFor, crt, keyFile, upsets>> /\ crt # NoCert
    BY <1>4 DEF ServeCert, Fresh
  <2>2. PICK a \in Answers :
          /\ Reply(r, a)
          /\ a = NoAnswer \/ (ToPfx /\ a.cert = [crt EXCEPT !.mate = (keyFile = "its own")])
    BY <1>4, TypeAnswer
  <2>3. Held' \subseteq Held \cup {a.cert} /\ Held' # {}
    BY <1>1, <2>2, HeldServe
  <2>4. a.cert = NoCert \/ (a.cert.ca = crt.ca /\ a.cert.mate)
    <3>1. CASE a = NoAnswer
      BY <3>1 DEF NoAnswer
    <3>2. CASE ToPfx /\ a.cert = [crt EXCEPT !.mate = (keyFile = "its own")]
      BY <2>1, <3>2, Served DEF ToPfx
    <3> QED BY <2>2, <3>1, <3>2
  <2>5. ServerInv'
    BY <1>1, <2>1 DEF ServerInv
  <2>6. "torn" \notin upsets => Fits(a.cert)
    BY <2>1, <2>4 DEF CaInv, Fits
  <2>7. CaInv'
    BY <2>1, <2>3, <2>6 DEF CaInv, Fits
  <2>8. MateInv'
    BY <2>3, <2>4 DEF MateInv
  <2> QED BY <2>5, <2>7, <2>8
<1>5. CASE IssueCert(r)
  <2>1. EnsureCa
    BY <1>5 DEF IssueCert
  <2>2. /\ caCrt # NoCA => UNCHANGED <<caKey, caCrt, serverFor>>
        /\ caCrt = NoCA => caKey' = caCrt' /\ serverFor' = "localhost"
        /\ caKey' # NoCA /\ caCrt' # NoCA
    BY <2>1, EnsuredCa
  <2>3. /\ crt' = [ca |-> caKey', until |-> now + Life, mate |-> TRUE] /\ keyFile' = "its own"
        /\ upsets' = upsets \cup (IF caCrt = NoCA THEN {"early"} ELSE {})
    BY <1>5 DEF IssueCert
  <2>4. PICK a \in Answers : Reply(r, a) /\ a.cert = crt'
    BY <1>5, TypeAnswer
  <2>5. Held' \subseteq Held \cup {crt'} /\ Held' # {}
    BY <1>1, <2>4, HeldServe
  <2>6. crt'.ca = caKey' /\ crt'.mate = TRUE
    BY <2>3
  <2>7. ServerInv'
    BY <1>1, <2>2, <2>3 DEF ServerInv
  <2>m. MateInv'
    BY <2>5, <2>6 DEF MateInv
  <2> SUFFICES ASSUME "torn" \notin upsets PROVE CaInv'
    BY <1>2, <2>7, <2>m DEF CaInv
  <2>8. caKey' = caCrt' /\ Fits(crt)'
    BY <2>2, <2>6 DEF CaInv, Fits
  <2>9. \A c \in Held : c = NoCert \/ c.ca = caCrt'
    <3>1. CASE caCrt = NoCA
      BY <3>1 DEF CaInv
    <3>2. CASE caCrt # NoCA
      <4>1. caCrt' = caCrt
        BY <2>2, <3>2
      <4> QED BY <4>1 DEF CaInv, Fits
    <3> QED BY <3>1, <3>2
  <2>10. \A c \in Held' : Fits(c)'
    BY <2>5, <2>8, <2>9 DEF Fits
  <2>11. caCrt' = NoCA <=> serverFor' = "none"
    BY <2>2 DEF CaInv
  <2> QED BY <2>2, <2>3, <2>6, <2>8, <2>10, <2>11 DEF CaInv
<1> QED BY <1>3, <1>4, <1>5

LEMMA CertKilled ==
  ASSUME TypeOK, MateInv, CaInv, ServerInv, (\E r \in requests : IssueKilled(r)) \/ SetupKilled
  PROVE  MateInv' /\ CaInv' /\ ServerInv'
<1> USE DEF authority, client, row, disk, agent, history
<1>0. configured' = configured /\ Held' = Held
  BY DEF IssueKilled, SetupKilled, Abort, Held
<1>m. MateInv'
  BY <1>0 DEF MateInv
<1>1. CASE \E r \in requests : IssueKilled(r)
  <2>1. EnsureCa /\ upsets' = upsets \cup (IF caCrt = NoCA THEN {"early"} ELSE {})
        /\ crt' = [ca |-> caKey', until |-> now + Life, mate |-> TRUE]
    BY <1>1 DEF IssueKilled
  <2>2. /\ caCrt # NoCA => UNCHANGED <<caKey, caCrt, serverFor>>
        /\ caCrt = NoCA => caKey' = caCrt' /\ serverFor' = "localhost"
        /\ caKey' # NoCA /\ caCrt' # NoCA
    BY <2>1, EnsuredCa
  <2>3. ServerInv'
    BY <1>0, <2>1, <2>2 DEF ServerInv
  <2>4. ASSUME "torn" \notin upsets PROVE CaInv'
    <3>1. caKey' = caCrt' /\ Fits(crt)'
      BY <2>1, <2>2, <2>4 DEF CaInv, Fits
    <3>2. \A c \in Held : c = NoCert \/ c.ca = caCrt'
      BY <2>2, <2>4 DEF CaInv, Fits
    <3>3. serverFor' # "none"
      BY <2>2, <2>4 DEF CaInv
    <3> QED BY <1>0, <2>2, <3>1, <3>2, <3>3 DEF CaInv, Fits
  <2>5. "torn" \in upsets => "torn" \in upsets'
    BY <2>1
  <2> QED BY <1>m, <2>3, <2>4, <2>5 DEF CaInv
<1>2. CASE SetupKilled
  <2>1. ~configured /\ crt' = crt
    BY <1>2 DEF SetupKilled, client
  <2>2. PICK n \in 0 .. 3 : /\ MakeCerts("host", n)
                            /\ upsets' = upsets \cup (IF n >= 2 THEN {"torn"} ELSE {})
    BY <1>2 DEF SetupKilled
  <2>3. serverFor' = serverFor /\ caCrt' \in {caCrt, caKey + 1}
    BY <2>2 DEF MakeCerts
  <2>4. caKey + 1 # NoCA
    BY NextCa
  <2>5. ServerInv'
    BY <1>0, <2>1, <2>2, <2>3, <2>4 DEF ServerInv
  <2>6. CASE n >= 2
    BY <1>m, <2>2, <2>5, <2>6 DEF CaInv
  <2>7. CASE ~(n >= 2)
    <3>1. caCrt' = caCrt /\ upsets' = upsets
      BY <2>2, <2>7 DEF MakeCerts
    <3>2. ASSUME "torn" \notin upsets PROVE caCrt = NoCA
      BY <1>2, <3>2 DEF SetupKilled, certsExist, CaInv
    <3> QED BY <1>0, <1>m, <2>1, <2>3, <2>5, <3>1, <3>2 DEF CaInv, Fits
  <2> QED BY <2>6, <2>7
<1> QED BY <1>1, <1>2

LEMMA CertSetup ==
  ASSUME TypeOK, MateInv, CaInv, ServerInv, SetupCerts
  PROVE  MateInv' /\ CaInv' /\ ServerInv'
<1> USE DEF authority, client, row, disk, agent, history
<1>1. UNCHANGED <<crt, keyFile, upsets>> /\ Held' = Held
  BY DEF SetupCerts, Held
<1>m. MateInv'
  BY <1>1 DEF MateInv
<1>2. CASE certsExist
  <2>1. UNCHANGED <<caKey, caCrt, serverFor>>
    BY <1>2 DEF SetupCerts
  <2> QED BY <1>1, <1>2, <1>m, <2>1 DEF CaInv, ServerInv, Fits, certsExist
<1>3. CASE ~certsExist
  <2>1. caKey' = caKey + 1 /\ caCrt' = caKey + 1 /\ serverFor' = "host"
    BY <1>3 DEF SetupCerts, MakeCerts
  <2>2. caKey + 1 # NoCA
    BY NextCa
  <2>3. "torn" \notin upsets => caCrt = NoCA
    BY <1>3 DEF certsExist, CaInv
  <2> QED BY <1>1, <1>m, <2>1, <2>2, <2>3 DEF CaInv, ServerInv, Fits
<1> QED BY <1>2, <1>3

LEMMA CertNext ==
  TypeOK /\ MateInv /\ CaInv /\ ServerInv /\ [Next]_vars => MateInv' /\ CaInv' /\ ServerInv'
<1> SUFFICES ASSUME TypeOK, MateInv, CaInv, ServerInv, [Next]_vars
             PROVE  MateInv' /\ CaInv' /\ ServerInv'
  OBVIOUS
<1>1. CASE Revoke \/ Unrevoke \/ Tick \/ UNCHANGED vars
  <2>1. UNCHANGED <<caKey, caCrt, serverFor, crt, keyFile, configured, upsets>> /\ Held' = Held
    BY <1>1 DEF Revoke, Unrevoke, Tick, vars, authority, client, disk, agent, history, Held
  <2> QED BY <2>1 DEF MateInv, CaInv, ServerInv, Fits
<1> QED BY <1>1, CertAgent, CertServe, CertKilled, CertSetup DEF Next, Serve

\* CertsFit: whatever is killed, what the agent holds comes with its key; it is
\* signed by the CA the server trusts but for a kill of setup between a CA and
\* its server certificate; and after setup the server's certificate is for its
\* host but for an agent that came before.
THEOREM CertificatesFit == Spec => []CertsFit
<1>1. TypeOK /\ MateInv /\ CaInv /\ ServerInv => CertsFit
  BY DEF TypeOK, MateInv, CaInv, ServerInv, CertsFit, Held, Fits
<1> QED BY <1>1, TypeInit, TypeNext, CertInit, CertNext, PTL DEF Spec

-----------------------------------------------------------------------------
(* Renewal *)

\* What the server, counting whole days, still calls fresh is fresh to the agent.
LEMMA Finer ==
  ASSUME TypeOK, NEW c \in Cert, ~ServerExpiring(c)
  PROVE  ~AgentExpiring(c)
<1>1. now \in 0 .. MaxTime /\ MaxTime \in Nat /\ Life \in Nat /\ Renewal \in Nat
  BY Bounds DEF TypeOK
<1>2. c.until \in 0 .. MaxTime + Life
  BY Kinds
<1>3. c.until - now \in Int
  BY <1>1, <1>2
<1> DEFINE left == c.until - now
<1>4. left \in Int /\ ~(left \div 2 <= Renewal)
  BY <1>3 DEF ServerExpiring
<1> HIDE DEF left
<1>5. left > 2 * Renewal
  BY <1>1, <1>4
<1>6. ~(left <= 2 * Renewal)
  BY <1>1, <1>4, <1>5
<1> QED BY <1>6 DEF AgentExpiring, left

LEMMA NewLasts ==
  ASSUME TypeOK
  PROVE  \A c : c.until = now + Life => ~AgentExpiring(c)
<1>1. now \in 0 .. MaxTime /\ MaxTime \in Nat /\ Life \in Nat /\ Renewal \in Nat
  BY Bounds DEF TypeOK
<1>2. ~((now + Life) - now <= 2 * Renewal)
  BY <1>1, Lasting
<1> QED BY <1>2 DEF AgentExpiring

\* Only a served request moves a process from asking to saving.
LEMMA OnlyServed ==
  ASSUME TypeOK, [Next]_vars, NEW p \in Passes, pc[p] = "asking", pc'[p] = "saving"
  PROVE  \E r \in requests : ServeCert(r) \/ IssueCert(r)
<1> USE DEF authority, client, row, disk, agent, history
<1>1. ~(SetupKilled \/ \E r \in requests : IssueKilled(r))
  BY DEF SetupKilled, IssueKilled, Abort, TypeOK
<1>2. ~(SetupCerts \/ Revoke \/ Unrevoke \/ Tick \/ UNCHANGED vars)
  BY DEF SetupCerts, Revoke, Unrevoke, Tick, vars
<1>3. \A q \in Passes : ~(AgentStep(q) \/ GiveUp(q))
  BY DEF AgentStep, DropPfx, DropToken, Enrol, SavePfx, SaveToken, GiveUp, Ask, TypeOK
<1>4. \A r \in requests : ~(LookUp(r) \/ Store(r))
  BY DEF LookUp, Store
<1>5. \A r \in requests : ~Authorize(r)
  BY DEF Authorize, Reply, TypeOK
<1> QED BY <1>1, <1>2, <1>3, <1>4, <1>5 DEF Next, Serve

\* RenewalSticks: with a life longer than twice the margin, no certificate the
\* server answers with is one the agent would at once throw away, for any
\* margin and however fractions of a day fall.
THEOREM RenewalLasts == Spec => RenewalSticks
<1> DEFINE Lasts == \A p \in Passes : pc[p] = "asking" /\ pc'[p] = "saving" =>
                      ~AgentExpiring(answer'[p].cert)
<1>1. TypeOK /\ [Next]_vars => Lasts
  <2> SUFFICES ASSUME TypeOK, [Next]_vars, NEW p \in Passes, pc[p] = "asking", pc'[p] = "saving"
               PROVE  ~AgentExpiring(answer'[p].cert)
    OBVIOUS
  <2>1. PICK r \in requests : ServeCert(r) \/ IssueCert(r)
    BY OnlyServed
  <2>2. PICK a \in Answers :
          /\ Reply(r, a)
          /\ ServeCert(r) => \/ a = NoAnswer
                             \/ ToPfx /\ a.cert = [crt EXCEPT !.mate = (keyFile = "its own")]
          /\ IssueCert(r) => a.cert = crt'
    BY <2>1, TypeAnswer
  <2>3. a # NoAnswer /\ r.from = p
    BY <2>2 DEF Reply, TypeOK
  <2>4. answer'[p] = a
    BY <2>2, <2>3 DEF Reply, TypeOK
  <2>5. CASE ServeCert(r)
    <3>1. crt \in Cert /\ crt # NoCert /\ ~ServerExpiring(crt)
      BY <2>5 DEF ServeCert, Fresh, TypeOK
    <3>2. a.cert.until = crt.until
      BY <2>2, <2>3, <2>5, <3>1, Served
    <3>3. ~AgentExpiring(crt)
      BY <3>1, Finer
    <3> QED BY <2>4, <3>2, <3>3 DEF AgentExpiring
  <2>6. CASE IssueCert(r)
    <3>1. crt' = [ca |-> caKey', until |-> now + Life, mate |-> TRUE]
      BY <2>6 DEF IssueCert
    <3>2. crt'.until = now + Life
      BY <3>1
    <3>3. a.cert.until = now + Life
      BY <2>2, <2>6, <3>2
    <3> QED BY <2>4, <3>3, NewLasts
  <2> QED BY <2>1, <2>5, <2>6
<1>2. TypeOK /\ [Next]_vars => [Lasts]_vars
  BY <1>1
<1> QED BY <1>2, TypeInit, TypeNext, PTL DEF Spec, RenewalSticks
=============================================================================
