---------------------------- MODULE SetupProofs ----------------------------
(***************************************************************************)
(* Proofs about Setup: the types, that setup is all or nothing, that one   *)
(* key is left when it is done, and that nothing is sealed twice.          *)
(***************************************************************************)
EXTENDS Setup, TLAPS

Seals == [key : Keys \cup {NoKey}, smtp : Cipher \cup {Nothing}, github : Cipher \cup {Nothing}]

LEMMA FreshKey == Fresh \subseteq Keys
BY DEF Fresh

LEMMA Kinds ==
  /\ NoKey \notin Keys /\ None \notin Plain /\ Garbled \notin Plain
  /\ Nothing \notin Cipher /\ NoSeals \in Seals
  /\ \A c \in Cipher : c.key \in Keys /\ c.text \in Plain \cup {Garbled}
  /\ \A k \in Keys, t \in Plain : [key |-> k, text |-> t] \in Cipher
BY SetupAssumption DEF Plain, Cipher, Nothing, NoSeals, Seals, NoKey

-----------------------------------------------------------------------------
(* Type correctness *)

LEMMA TypeInit == Init => TypeOK
<1> SUFFICES ASSUME Init PROVE TypeOK
  OBVIOUS
<1>1. env \in EnvKeys /\ secret \in Keys /\ file \in Keys \cup {NoKey}
  BY SetupAssumption DEF Init
<1>2. held \in [Setups -> Seals] /\ pat \in [Builds -> Cipher \cup {Nothing}]
  BY Kinds DEF Init
<1>3. certs \in BOOLEAN
  BY Zenon DEF Init
<1>4. done \in BOOLEAN
  BY Zenon DEF Init
<1>5. /\ company \in Setups \cup {None} /\ smtp \in Cipher \cup {Nothing} /\ github \in Cipher \cup {Nothing}
      /\ admins \subseteq Usernames /\ stage \in [Setups -> Stages]
      /\ building \in [Builds -> {"idle", "read", "saving"}]
      /\ sessions \subseteq Keys /\ copies \subseteq Keys
      /\ upsets \subseteq {"disk", "overlap", "environment"} /\ faults \in 0 .. MaxFaults
  BY SetupAssumption DEF Init, Stages
<1>6. \A s \in Setups : stage[s] \in {"waiting", "open", "committed"} => held[s].key # NoKey
  BY DEF Init
<1> QED BY <1>1, <1>2, <1>3, <1>4, <1>5, <1>6 DEF TypeOK, Seals

\* The setups under way have minted a key.
Minted == \A s \in Setups : stage[s] \in {"waiting", "open", "committed"} => held[s].key # NoKey

\* What Prepare leaves in the handler of a setup it lets on.
LEMMA Sealing ==
  ASSUME TypeOK, NEW s \in Setups, NEW k, NEW c,
         held' = [held EXCEPT ![s].key = k, ![s].smtp = c]
  PROVE  /\ held'[s] = [key |-> k, smtp |-> c, github |-> held[s].github]
         /\ \A t \in Setups : t # s => held'[t] = held[t]
         /\ DOMAIN held' = Setups
         /\ k \in Keys /\ c \in Cipher \cup {Nothing} => held' \in [Setups -> Seals]
<1>1. held \in [Setups -> Seals]
  BY DEF TypeOK, Seals
<1>2. held[s] \in Seals
  BY <1>1
<1>3. held'[s] = [key |-> k, smtp |-> c, github |-> held[s].github]
  BY <1>1, <1>2 DEF Seals
<1>4. /\ \A t \in Setups : t # s => held'[t] = held[t]
      /\ DOMAIN held' = Setups /\ held' = [t \in Setups |-> held'[t]]
  BY <1>1
<1>5. k \in Keys /\ c \in Cipher \cup {Nothing} => [key |-> k, smtp |-> c, github |-> held[s].github] \in Seals
  BY <1>2 DEF Seals
<1> QED BY <1>1, <1>3, <1>4, <1>5

LEMMA Opening ==
  ASSUME TypeOK, NEW s \in Setups, NEW c \in Cipher \cup {Nothing},
         held' = [held EXCEPT ![s].github = c]
  PROVE  /\ held'[s] = [key |-> held[s].key, smtp |-> held[s].smtp, github |-> c]
         /\ \A t \in Setups : t # s => held'[t] = held[t]
         /\ held' \in [Setups -> Seals]
<1>1. held \in [Setups -> Seals]
  BY DEF TypeOK, Seals
<1>2. held[s] \in Seals
  BY <1>1
<1>3. held'[s] = [key |-> held[s].key, smtp |-> held[s].smtp, github |-> c]
  BY <1>1, <1>2 DEF Seals
<1>4. /\ \A t \in Setups : t # s => held'[t] = held[t]
      /\ DOMAIN held' = Setups /\ held' = [t \in Setups |-> held'[t]]
  BY <1>1
<1>5. [key |-> held[s].key, smtp |-> held[s].smtp, github |-> c] \in Seals
  BY <1>2 DEF Seals
<1> QED BY <1>1, <1>3, <1>4, <1>5

LEMMA TypePrepare == ASSUME TypeOK, NEW s \in Setups, Prepare(s) PROVE TypeOK'
<1>1. PICK k \in Fresh, written \in BOOLEAN, valid \in BOOLEAN :
        /\ IF written /\ valid THEN UNCHANGED faults ELSE Fault
        /\ Rotate(k, written) /\ EnsureCerts(written)
        /\ IF certs' /\ valid
             THEN /\ stage' = [stage EXCEPT ![s] = "waiting"]
                  /\ held' = [held EXCEPT ![s].key = k,
                       ![s].smtp = IF s \in WithSmtp THEN [key |-> k, text |-> s] ELSE Nothing]
             ELSE stage' = [stage EXCEPT ![s] = "refused"] /\ UNCHANGED held
  BY DEF Prepare
<1>2. k \in Keys
  BY FreshKey
<1>3. secret' \in Keys /\ file' \in Keys \cup {NoKey}
  BY <1>1, <1>2 DEF Rotate, TypeOK
<1>4. certs' \in BOOLEAN
  BY <1>1, Zenon DEF EnsureCerts, TypeOK
<1>5. stage' \in [Setups -> Stages]
  BY <1>1 DEF TypeOK, Stages
<1>6. held' \in [Setups -> Seals]
  <2>1. (IF s \in WithSmtp THEN [key |-> k, text |-> s] ELSE Nothing) \in Cipher \cup {Nothing}
    BY <1>2, Kinds DEF Plain
  <2>2. held \in [Setups -> Seals]
    BY DEF TypeOK, Seals
  <2> QED BY <1>1, <1>2, <2>1, <2>2, Sealing
<1>7. faults' \in 0 .. MaxFaults
  BY <1>1, SetupAssumption DEF Fault, TypeOK
<1>8. upsets' \subseteq {"disk", "overlap", "environment"}
  BY DEF Prepare, TypeOK
<1>9. Minted'
  <2>1. CASE certs' /\ valid
    <3>1. PICK c : /\ stage' = [stage EXCEPT ![s] = "waiting"]
                   /\ held' = [held EXCEPT ![s].key = k, ![s].smtp = c]
      BY <1>1, <2>1
    <3>2. held'[s].key = k /\ \A t \in Setups : t # s => held'[t] = held[t]
      <4>1. held'[s] = [key |-> k, smtp |-> c, github |-> held[s].github]
        BY <3>1, Sealing
      <4>2. \A t \in Setups : t # s => held'[t] = held[t]
        BY <3>1, Sealing
      <4> QED BY <4>1, <4>2
    <3>3. k # NoKey
      BY <1>2, Kinds
    <3> QED BY <3>1, <3>2, <3>3 DEF Minted, TypeOK
  <2>2. CASE ~(certs' /\ valid)
    BY <1>1, <2>2 DEF Minted, TypeOK
  <2> QED BY <2>1, <2>2
<1> QED
  BY <1>3, <1>4, <1>5, <1>6, <1>7, <1>8, <1>9
     DEF TypeOK, Prepare, Seals, Minted, settings, triggers, holders

LEMMA TypeSetup ==
  ASSUME TypeOK, NEW s \in Setups,
         Check(s) \/ Open(s) \/ Commit(s) \/ RollBack(s) \/ Answer(s) \/ Retry(s)
  PROVE  TypeOK'
<1> USE DEF process, settings, triggers, holders
<1>1. stage' \in [Setups -> Stages]
  BY DEF TypeOK, Stages, Check, Open, Commit, RollBack, Answer, Retry
<1>2. held' \in [Setups -> Seals]
  <2>1. held \in [Setups -> Seals]
    BY DEF TypeOK, Seals
  <2>2. CASE Open(s)
    <3>1. Encrypt(s) \in Cipher \cup {Nothing}
      BY Kinds DEF Encrypt, TypeOK, Plain
    <3> QED BY <2>2, <3>1, Opening DEF Open
  <2>3. CASE RollBack(s) \/ Answer(s)
    BY <2>1, <2>3, Kinds DEF RollBack, Answer
  <2>4. CASE Check(s) \/ Commit(s) \/ Retry(s)
    BY <2>1, <2>4 DEF Check, Commit, Retry
  <2> QED BY <2>2, <2>3, <2>4
<1>3. faults' \in 0 .. MaxFaults
  BY SetupAssumption DEF TypeOK, Fault, Check, Open, Commit, RollBack, Answer, Retry
<1>4. Minted'
  <2>1. CASE Open(s)
    <3>1. Encrypt(s) \in Cipher \cup {Nothing}
      BY Kinds DEF Encrypt, TypeOK, Plain
    <3>2. \A t \in Setups : held'[t].key = held[t].key
      BY <2>1, <3>1, Opening DEF Open
    <3> QED BY <2>1, <3>2 DEF Open, TypeOK, Minted
  <2>2. CASE ~Open(s)
    BY <2>2 DEF Check, Commit, RollBack, Answer, Retry, TypeOK, Minted
  <2> QED BY <2>1, <2>2
<1>5. CASE Check(s) \/ Open(s) \/ RollBack(s) \/ Retry(s)
  BY <1>1, <1>2, <1>3, <1>4, <1>5 DEF TypeOK, Seals, Minted, Check, Open, RollBack, Retry
<1>6. CASE Commit(s)
  <2>1. held[s].smtp \in Cipher \cup {Nothing} /\ held[s].github \in Cipher \cup {Nothing}
    BY DEF TypeOK
  <2>2. done' \in BOOLEAN
    BY <1>6, Zenon DEF Commit
  <2>3. /\ company' \in Setups \cup {None} /\ admins' \subseteq Usernames
        /\ smtp' \in Cipher \cup {Nothing} /\ github' \in Cipher \cup {Nothing}
    BY <1>6, <2>1 DEF Commit, TypeOK
  <2> QED BY <1>1, <1>2, <1>3, <1>4, <1>6, <2>2, <2>3 DEF TypeOK, Seals, Minted, Commit
<1>7. CASE Answer(s)
  <2>1. held[s].key \in Keys
    BY <1>7 DEF TypeOK, Answer
  <2> QED BY <1>1, <1>2, <1>3, <1>4, <1>7, <2>1 DEF TypeOK, Seals, Minted, Answer, SignIn
<1> QED BY <1>5, <1>6, <1>7

LEMMA TypeBuild ==
  ASSUME TypeOK, NEW b \in Builds, BuildStep(b)
  PROVE  TypeOK'
<1> USE DEF process, settings, setups, holders
<1>1. building' \in [Builds -> {"idle", "read", "saving"}]
  BY DEF TypeOK, BuildStep, ReadBuildSettings, Dispatch, Refuse, Save
<1>2. pat' \in [Builds -> Cipher \cup {Nothing}] /\ github' \in Cipher \cup {Nothing}
  <2>1. CASE Dispatch(b)
    <3>1. PICK t : Authorized(t) /\ pat' = [pat EXCEPT ![b] = Encrypt(t)]
      BY <2>1 DEF Dispatch
    <3>2. Encrypt(t) \in Cipher
      BY <3>1, Kinds DEF Authorized, Encrypt, TypeOK
    <3> QED BY <2>1, <3>1, <3>2 DEF Dispatch, TypeOK
  <2>2. CASE ReadBuildSettings(b) \/ Refuse(b) \/ Save(b)
    BY <2>2 DEF ReadBuildSettings, Refuse, Save, TypeOK
  <2> QED BY <2>1, <2>2 DEF BuildStep
<1> QED BY <1>1, <1>2 DEF TypeOK, BuildStep, ReadBuildSettings, Dispatch, Refuse, Save

LEMMA TypeRestart == ASSUME TypeOK, Restart PROVE TypeOK'
<1>1. secret' \in Keys /\ file' \in Keys \cup {NoKey}
  BY SetupAssumption, FreshKey DEF Restart, Resolve, TypeOK
<1>2. held' \in [Setups -> Seals] /\ pat' \in [Builds -> Cipher \cup {Nothing}]
  BY Kinds DEF Restart
<1>3. /\ stage' \in [Setups -> Stages]
      /\ \A s \in Setups : stage'[s] \notin {"waiting", "open", "committed"}
  BY DEF Restart, TypeOK, Stages
<1>4. upsets' \subseteq {"disk", "overlap", "environment"} /\ faults' \in 0 .. MaxFaults
  BY SetupAssumption DEF Restart, Fault, TypeOK
<1>5. building' \in [Builds -> {"idle", "read", "saving"}]
  BY DEF Restart
<1> QED BY <1>1, <1>2, <1>3, <1>4, <1>5 DEF TypeOK, Restart, Seals, settings, holders

LEMMA TypeNext == TypeOK /\ [Next]_vars => TypeOK'
<1> SUFFICES ASSUME TypeOK, [Next]_vars PROVE TypeOK'
  OBVIOUS
<1>1. CASE OperatorStep
  BY <1>1 DEF TypeOK, OperatorStep, Login, Download, Expire, SignIn, process, settings, setups, triggers
<1>2. CASE UNCHANGED vars
  BY <1>2 DEF TypeOK, vars, process, settings, setups, triggers, holders
<1> QED BY <1>1, <1>2, TypePrepare, TypeSetup, TypeBuild, TypeRestart DEF Next, SetupStep

\* Setup keeps its types, whatever overlaps, fails or restarts.
THEOREM TypeCorrect == Spec => []TypeOK
BY TypeInit, TypeNext, PTL DEF Spec

-----------------------------------------------------------------------------
(* Nothing is sealed twice *)

Typed(c) == c # Nothing => c.text \in Plain

\* Every ciphertext, stored or in a handler's hands, is of something typed.
TypedInv ==
  /\ Typed(smtp) /\ Typed(github)
  /\ \A s \in Setups : Typed(held[s].smtp) /\ Typed(held[s].github)
  /\ \A b \in Builds : Typed(pat[b])

LEMMA TypedInit == Init => TypedInv
BY DEF Init, TypedInv, Typed, NoSeals

LEMMA TypedSetup ==
  ASSUME TypeOK, TypedInv, NEW s \in Setups, SetupStep(s)
  PROVE  TypedInv'
<1> USE DEF process, settings, triggers, holders
<1>1. CASE Prepare(s)
  <2>1. PICK k, c : /\ c = Nothing \/ c = [key |-> k, text |-> s]
                    /\ UNCHANGED held \/ held' = [held EXCEPT ![s].key = k, ![s].smtp = c]
    BY <1>1 DEF Prepare
  <2>2. Typed(c)
    BY <2>1 DEF Typed, Plain
  <2>3. CASE UNCHANGED held
    BY <1>1, <2>3 DEF Prepare, TypedInv
  <2>4. CASE held' = [held EXCEPT ![s].key = k, ![s].smtp = c]
    <3>1. /\ held'[s].smtp = c /\ held'[s].github = held[s].github
          /\ \A t \in Setups : t # s => held'[t] = held[t]
      <4>1. held'[s] = [key |-> k, smtp |-> c, github |-> held[s].github]
        BY <2>4, Sealing
      <4>2. \A t \in Setups : t # s => held'[t] = held[t]
        BY <2>4, Sealing
      <4> QED BY <4>1, <4>2
    <3>2. \A t \in Setups : Typed(held'[t].smtp) /\ Typed(held'[t].github)
      BY <2>2, <3>1 DEF TypedInv
    <3> QED BY <1>1, <3>2 DEF Prepare, TypedInv, Typed
  <2> QED BY <2>1, <2>3, <2>4
<1>2. CASE Open(s)
  <2>1. Encrypt(s) \in Cipher \cup {Nothing} /\ Typed(Encrypt(s))
    BY Kinds DEF Encrypt, TypeOK, Typed, Plain
  <2>2. /\ held'[s].smtp = held[s].smtp /\ held'[s].github = Encrypt(s)
        /\ \A t \in Setups : t # s => held'[t] = held[t]
    <3>1. held'[s] = [key |-> held[s].key, smtp |-> held[s].smtp, github |-> Encrypt(s)]
      BY <1>2, <2>1, Opening DEF Open
    <3>2. \A t \in Setups : t # s => held'[t] = held[t]
      BY <1>2, <2>1, Opening DEF Open
    <3> QED BY <3>1, <3>2
  <2>3. \A t \in Setups : Typed(held'[t].smtp) /\ Typed(held'[t].github)
    BY <2>1, <2>2 DEF TypedInv
  <2> QED BY <1>2, <2>3 DEF Open, TypedInv, Typed
<1>3. CASE Commit(s)
  BY <1>3 DEF Commit, TypedInv, Typed
<1>4. CASE RollBack(s) \/ Answer(s)
  <2>1. \A t \in Setups : held'[t] = held[t] \/ held'[t] = NoSeals
    BY <1>4 DEF RollBack, Answer, TypeOK
  <2>2. Typed(NoSeals.smtp) /\ Typed(NoSeals.github)
    BY DEF NoSeals, Typed
  <2>3. \A t \in Setups : Typed(held'[t].smtp) /\ Typed(held'[t].github)
    BY <2>1, <2>2 DEF TypedInv
  <2> QED BY <1>4, <2>3 DEF RollBack, Answer, TypedInv, Typed
<1>5. CASE Check(s) \/ Retry(s)
  BY <1>5 DEF Check, Retry, TypedInv, Typed
<1> QED BY <1>1, <1>2, <1>3, <1>4, <1>5 DEF SetupStep

LEMMA TypedBuild ==
  ASSUME TypeOK, TypedInv, NEW b \in Builds, BuildStep(b)
  PROVE  TypedInv'
<1> USE DEF process, settings, setups, holders
<1>1. CASE Dispatch(b)
  <2>1. PICK t : Authorized(t) /\ pat' = [pat EXCEPT ![b] = Encrypt(t)]
    BY <1>1 DEF Dispatch
  <2>2. Typed(Encrypt(t))
    BY <2>1 DEF Authorized, Encrypt, Typed
  <2>3. \A x \in Builds : Typed(pat'[x])
    BY <2>1, <2>2 DEF TypedInv, TypeOK
  <2> QED BY <1>1, <2>3 DEF Dispatch, TypedInv, Typed
<1>2. CASE ReadBuildSettings(b) \/ Refuse(b) \/ Save(b)
  <2>1. \A x \in Builds : Typed(pat'[x])
    BY <1>2 DEF ReadBuildSettings, Refuse, Save, TypedInv, TypeOK, Typed
  <2>2. Typed(github')
    BY <1>2 DEF ReadBuildSettings, Refuse, Save, TypedInv, Typed
  <2> QED BY <1>2, <2>1, <2>2 DEF ReadBuildSettings, Refuse, Save, TypedInv, Typed
<1> QED BY <1>1, <1>2 DEF BuildStep

LEMMA TypedNext == TypeOK /\ TypedInv /\ [Next]_vars => TypedInv'
<1> SUFFICES ASSUME TypeOK, TypedInv, [Next]_vars PROVE TypedInv'
  OBVIOUS
<1>1. CASE Restart
  <2>1. Typed(NoSeals.smtp) /\ Typed(NoSeals.github) /\ Typed(Nothing)
    BY DEF NoSeals, Typed
  <2> QED BY <1>1, <2>1 DEF Restart, TypedInv, Typed, settings
<1>2. CASE OperatorStep \/ UNCHANGED vars
  BY <1>2 DEF TypedInv, Typed, OperatorStep, Login, Download, Expire, vars, settings, setups, triggers
<1> QED BY <1>1, <1>2, TypedSetup, TypedBuild DEF Next

\* vault.decrypt hands back what it cannot open, and yet no ciphertext is ever
\* sealed a second time.
THEOREM SealedOnce == Spec => []NeverSealedTwice
<1>1. Init => TypeOK /\ TypedInv
  BY TypeInit, TypedInit
<1>2. TypeOK /\ TypedInv /\ [Next]_vars => (TypeOK /\ TypedInv)'
  BY TypeNext, TypedNext
<1>3. TypedInv => NeverSealedTwice
  BY DEF TypedInv, Typed, NeverSealedTwice, Sealed
<1> QED BY <1>1, <1>2, <1>3, PTL DEF Spec

-----------------------------------------------------------------------------
(* All or nothing, and one key *)

Under(s) == stage[s] \in {"waiting", "open"}

SmtpOf(s) == IF s \in WithSmtp THEN [key |-> secret, text |-> s] ELSE Nothing

\* Nothing is stored, signed or under way before setup is done.
DoneInv ==
  /\ IF done THEN admins # {} /\ company # None
     ELSE /\ admins = {} /\ company = None /\ smtp = Nothing /\ github = Nothing
          /\ sessions = {} /\ copies = {}
  /\ \A b \in Builds : building[b] # "idle" => done
  /\ \A s \in Setups : stage[s] = "committed" => done

\* Unless two overlapped, one setup at a time is past its check, and none once
\* it is done.
SoleInv ==
  "overlap" \notin upsets =>
    /\ \A s, t \in Setups : Under(s) /\ Under(t) => s = t
    /\ done => \A s \in Setups : ~Under(s)
    /\ \A u, v \in admins : u = v

\* Unless something parted them, what is sealed or signed is under the key of
\* the process, and so is what a handler holds.
KeyInv ==
  upsets = {} =>
    /\ done => /\ file = secret /\ sessions \cup copies \subseteq {secret}
               /\ \A c \in Sealed : c.key = secret
               /\ smtp = SmtpOf(company)
    /\ \A s \in Setups : Under(s) \/ stage[s] = "committed" =>
         file = secret /\ held[s].key = secret
    /\ \A s \in Setups : Under(s) => held[s].smtp = SmtpOf(s)
    /\ \A s \in Setups : stage[s] = "open" => held[s].github.key = secret
    /\ \A b \in Builds : building[b] = "saving" => pat[b].key = secret

WholeInv == TypeOK /\ DoneInv /\ SoleInv /\ KeyInv

LEMMA WholeInit == Init => DoneInv /\ SoleInv /\ KeyInv
BY DEF Init, DoneInv, SoleInv, KeyInv, Under

LEMMA WholePrepare ==
  ASSUME WholeInv, NEW s \in Setups, Prepare(s)
  PROVE  DoneInv' /\ SoleInv' /\ KeyInv'
<1> USE DEF WholeInv, settings, triggers, holders
<1>1. PICK k \in Fresh, written \in BOOLEAN, valid \in BOOLEAN :
        /\ Rotate(k, written)
        /\ IF certs' /\ valid
             THEN /\ stage' = [stage EXCEPT ![s] = "waiting"]
                  /\ held' = [held EXCEPT ![s].key = k,
                       ![s].smtp = IF s \in WithSmtp THEN [key |-> k, text |-> s] ELSE Nothing]
             ELSE stage' = [stage EXCEPT ![s] = "refused"] /\ UNCHANGED held
        /\ upsets' = upsets \cup (IF written THEN {} ELSE {"disk"})
             \cup (IF done \/ \E t \in Setups : stage[t] \in {"waiting", "open"}
                   THEN {"overlap"} ELSE {})
  BY DEF Prepare
<1>2. \A t \in Setups : t # s => stage'[t] = stage[t]
  BY <1>1 DEF TypeOK
<1>3. stage'[s] \in {"waiting", "refused"}
  BY <1>1 DEF TypeOK
<1>4. DoneInv'
  BY <1>2, <1>3 DEF Prepare, DoneInv
<1>5. SoleInv'
  <2> SUFFICES ASSUME "overlap" \notin upsets'
      PROVE  /\ \A r, t \in Setups : Under(r)' /\ Under(t)' => r = t
             /\ ~done' /\ \A u, v \in admins' : u = v
    BY DEF SoleInv
  <2>1. "overlap" \notin upsets /\ ~done /\ \A t \in Setups : ~Under(t)
    BY <1>1 DEF Under
  <2>2. \A t \in Setups : Under(t)' => t = s
    BY <1>2, <2>1 DEF Under
  <2> QED BY <2>1, <2>2 DEF Prepare, SoleInv
<1>6. KeyInv'
  <2> SUFFICES ASSUME upsets' = {} PROVE KeyInv'
    BY DEF KeyInv
  <2>1. written /\ ~done /\ \A t \in Setups : ~Under(t)
    BY <1>1 DEF Under
  <2>2. secret' = k /\ file' = k /\ ~done'
    BY <1>1, <2>1 DEF Rotate, Prepare
  <2>3. \A t \in Setups : t # s => ~Under(t)' /\ stage'[t] # "committed"
    BY <1>2, <2>1 DEF Under, DoneInv
  <2>4. stage'[s] = "waiting" => held'[s].key = k /\ held'[s].smtp = SmtpOf(s)'
    <3> SUFFICES ASSUME stage'[s] = "waiting" PROVE held'[s].key = k /\ held'[s].smtp = SmtpOf(s)'
      OBVIOUS
    <3>1. PICK c : /\ held' = [held EXCEPT ![s].key = k, ![s].smtp = c]
                   /\ c = IF s \in WithSmtp THEN [key |-> k, text |-> s] ELSE Nothing
      BY <1>1 DEF TypeOK
    <3>2. held'[s] = [key |-> k, smtp |-> c, github |-> held[s].github]
      BY <3>1, Sealing
    <3> QED BY <2>2, <3>1, <3>2 DEF SmtpOf
  <2>5. \A b \in Builds : building'[b] = "idle"
    BY <2>1 DEF DoneInv, Prepare
  <2> QED BY <1>3, <2>2, <2>3, <2>4, <2>5 DEF KeyInv, Under
<1> QED BY <1>4, <1>5, <1>6

LEMMA WholeOpen ==
  ASSUME WholeInv, NEW s \in Setups, Open(s)
  PROVE  DoneInv' /\ SoleInv' /\ KeyInv'
<1> USE DEF WholeInv, process, settings, triggers, holders
<1>1. Encrypt(s) \in Cipher \cup {Nothing} /\ Encrypt(s).key = secret
  BY Kinds DEF Encrypt, TypeOK, Plain
<1>2. held'[s] = [key |-> held[s].key, smtp |-> held[s].smtp, github |-> Encrypt(s)]
  BY <1>1, Opening DEF Open
<1>3. \A t \in Setups : t # s => held'[t] = held[t]
  BY <1>1, Opening DEF Open
<1>4. /\ \A t \in Setups : t # s => stage'[t] = stage[t]
      /\ stage[s] = "waiting" /\ stage'[s] = "open"
  BY DEF Open, TypeOK
<1>5. \A t \in Setups : Under(t)' <=> Under(t)
  BY <1>4 DEF Under
<1>6. DoneInv'
  BY <1>4 DEF Open, DoneInv
<1>7. SoleInv'
  BY <1>5 DEF Open, SoleInv
<1>8. KeyInv'
  <2> SUFFICES ASSUME upsets = {} PROVE KeyInv'
    BY DEF KeyInv, Open
  <2>1. Under(s)
    BY <1>4 DEF Under
  <2>2. \A t \in Setups : /\ held'[t].key = held[t].key /\ held'[t].smtp = held[t].smtp
                          /\ stage'[t] = "committed" => stage[t] = "committed"
    BY <1>2, <1>3, <1>4
  <2>3. \A t \in Setups : stage'[t] = "open" => held'[t].github.key = secret
    BY <1>1, <1>2, <1>3, <1>4 DEF KeyInv
  <2> QED BY <1>5, <2>2, <2>3 DEF KeyInv, Open, SmtpOf, Sealed
<1> QED BY <1>6, <1>7, <1>8

LEMMA WholeCommit ==
  ASSUME WholeInv, NEW s \in Setups, Commit(s)
  PROVE  DoneInv' /\ SoleInv' /\ KeyInv'
<1> USE DEF WholeInv, process, settings, triggers, holders
<1>1. /\ \A t \in Setups : t # s => stage'[t] = stage[t]
      /\ stage[s] = "open" /\ stage'[s] = "committed" /\ Under(s)
  BY DEF Commit, TypeOK, Under
<1>2. PICK u \in Usernames : admins' = admins \cup {u}
  BY DEF Commit
<1>3. DoneInv'
  <2>1. done' /\ admins' # {} /\ company' # None
    BY <1>2, SetupAssumption DEF Commit
  <2> QED BY <2>1 DEF DoneInv
<1>4. "overlap" \notin upsets => /\ ~done /\ admins = {}
                                 /\ \A t \in Setups : Under(t) => t = s
  BY <1>1 DEF SoleInv, DoneInv
<1>5. SoleInv'
  <2> SUFFICES ASSUME "overlap" \notin upsets
      PROVE  (\A t \in Setups : ~Under(t)') /\ (\A x, y \in admins' : x = y)
    BY DEF SoleInv, Commit
  <2>1. \A t \in Setups : ~Under(t)'
    BY <1>1, <1>4 DEF Under
  <2> QED BY <1>2, <1>4, <2>1
<1>6. KeyInv'
  <2> SUFFICES ASSUME upsets = {} PROVE KeyInv'
    BY DEF KeyInv, Commit
  <2>1. /\ file = secret /\ held[s].key = secret /\ held[s].smtp = SmtpOf(s)
        /\ held[s].github.key = secret
    BY <1>1 DEF KeyInv
  <2>2. smtp = Nothing /\ sessions = {} /\ copies = {} /\ \A b \in Builds : building[b] = "idle"
    BY <1>4 DEF DoneInv
  <2>3. smtp' = SmtpOf(s)' /\ company' = s
    BY <2>1, <2>2 DEF Commit, SmtpOf
  <2>4. smtp' # Nothing => smtp'.key = secret
    BY <2>3 DEF SmtpOf, Commit
  <2>5. \A c \in Sealed' : c.key = secret'
    BY <2>1, <2>4 DEF Sealed, Commit
  <2>6. \A t \in Setups : Under(t)' \/ stage'[t] = "committed" => held'[t].key = secret'
    BY <1>1, <1>4, <2>1 DEF Under, Commit, KeyInv
  <2>7. \A t \in Setups : ~Under(t)' /\ stage'[t] # "open"
    BY <1>1, <1>4 DEF Under
  <2> QED BY <2>1, <2>2, <2>3, <2>5, <2>6, <2>7 DEF KeyInv, Commit
<1> QED BY <1>3, <1>5, <1>6

LEMMA WholeLeave ==
  ASSUME WholeInv, NEW s \in Setups, Check(s) \/ RollBack(s) \/ Retry(s) \/ Answer(s)
  PROVE  DoneInv' /\ SoleInv' /\ KeyInv'
<1> USE DEF WholeInv, process, settings, triggers, holders
<1>1. \A t \in Setups :
        \/ t = s /\ stage'[t] \in {"checked", "refused", "idle", "answered"}
        \/ stage'[t] = stage[t] /\ held'[t] = held[t]
  BY DEF Check, RollBack, Retry, Answer, TypeOK
<1>2. \A t \in Setups : Under(t)' => Under(t) /\ held'[t] = held[t] /\ stage'[t] = stage[t]
  BY <1>1 DEF Under
<1>3. \A t \in Setups : stage'[t] = "committed" => stage[t] = "committed" /\ held'[t] = held[t]
  BY <1>1
<1>4. UNCHANGED <<secret, file, done, company, smtp, github, admins, building, pat, upsets>>
  BY DEF Check, RollBack, Retry, Answer
<1>5. \/ sessions' \cup copies' = sessions \cup copies
      \/ done /\ (upsets = {} => sessions' \cup copies' = sessions \cup copies \cup {secret})
  <2>1. CASE Answer(s)
    BY <2>1 DEF Answer, SignIn, DoneInv, KeyInv
  <2>2. CASE Check(s) \/ RollBack(s) \/ Retry(s)
    BY <2>2 DEF Check, RollBack, Retry
  <2> QED BY <2>1, <2>2
<1>6. DoneInv'
  <2>1. ~done => sessions' = {} /\ copies' = {}
    BY <1>5 DEF DoneInv
  <2> QED BY <1>3, <1>4, <2>1 DEF DoneInv
<1>7. SoleInv'
  BY <1>2, <1>4 DEF SoleInv
<1>8. KeyInv'
  <2> SUFFICES ASSUME upsets = {} PROVE KeyInv'
    BY <1>4 DEF KeyInv
  <2>1. done => sessions' \cup copies' \subseteq {secret}
    BY <1>5 DEF KeyInv
  <2>2. \A t \in Setups : stage'[t] = "open" => held'[t].github.key = secret
    BY <1>2 DEF Under, KeyInv
  <2> QED BY <1>2, <1>3, <1>4, <2>1, <2>2 DEF KeyInv, SmtpOf, Sealed
<1> QED BY <1>6, <1>7, <1>8

LEMMA WholeBuild ==
  ASSUME WholeInv, NEW b \in Builds, BuildStep(b)
  PROVE  DoneInv' /\ SoleInv' /\ KeyInv'
<1> USE DEF WholeInv, process, settings, setups, holders
<1>1. UNCHANGED <<secret, file, done, company, smtp, admins, stage, held, sessions, copies, upsets>>
  BY DEF BuildStep, ReadBuildSettings, Dispatch, Refuse, Save
<1>2. done
  BY DEF BuildStep, ReadBuildSettings, Dispatch, Refuse, Save, Admitted, DoneInv
<1>3. \A x \in Builds : x # b => building'[x] = building[x] /\ pat'[x] = pat[x]
  BY DEF BuildStep, ReadBuildSettings, Dispatch, Refuse, Save, TypeOK
<1>4. building'[b] = "saving" => pat'[b].key = secret
  BY DEF BuildStep, ReadBuildSettings, Dispatch, Refuse, Save, TypeOK, Encrypt
<1>5. \/ github' = github
      \/ building[b] = "saving" /\ github' = pat[b]
  BY DEF BuildStep, ReadBuildSettings, Dispatch, Refuse, Save
<1>6. DoneInv' /\ SoleInv'
  BY <1>1, <1>2 DEF DoneInv, SoleInv, Under
<1>7. KeyInv'
  <2> SUFFICES ASSUME upsets = {} PROVE KeyInv'
    BY <1>1 DEF KeyInv
  <2>1. \A c \in Sealed' : c.key = secret
    BY <1>1, <1>2, <1>5 DEF KeyInv, Sealed
  <2>2. \A x \in Builds : building'[x] = "saving" => pat'[x].key = secret
    BY <1>3, <1>4 DEF KeyInv
  <2> QED BY <1>1, <2>1, <2>2 DEF KeyInv, Under, SmtpOf
<1> QED BY <1>6, <1>7

LEMMA WholeOperator ==
  ASSUME WholeInv, OperatorStep
  PROVE  DoneInv' /\ SoleInv' /\ KeyInv'
<1> USE DEF WholeInv, process, settings, setups, triggers
<1>1. UNCHANGED <<secret, file, done, company, smtp, github, admins, stage, held, building, pat, upsets>>
  BY DEF OperatorStep, Login, Download, Expire, SignIn
<1>2. ~done => sessions' = {} /\ copies' = {}
  BY DEF OperatorStep, Login, Download, Expire, Admitted, DoneInv
<1>3. sessions' \cup copies' \subseteq sessions \cup copies \cup {secret, file}
  BY DEF OperatorStep, Login, Download, Expire, SignIn
<1>4. DoneInv' /\ SoleInv'
  BY <1>1, <1>2 DEF DoneInv, SoleInv, Under
<1>5. KeyInv'
  BY <1>1, <1>3 DEF KeyInv, Under, SmtpOf, Sealed
<1> QED BY <1>4, <1>5

\* A restart reads the key back from the file, or from the environment.
LEMMA WholeRestart ==
  ASSUME WholeInv, Restart
  PROVE  DoneInv' /\ SoleInv' /\ KeyInv'
<1> USE DEF WholeInv, settings, holders
<1>1. \A s \in Setups : stage'[s] \in {"idle", "answered", "refused"}
  BY DEF Restart
<1>2. /\ UNCHANGED <<done, company, smtp, github, admins, sessions, copies>>
      /\ \A b \in Builds : building'[b] = "idle"
  BY DEF Restart
<1>3. /\ upsets \subseteq upsets'
      /\ (upsets' = {} => env = NoKey)
  BY DEF Restart
<1>4. DoneInv'
  BY <1>1, <1>2 DEF DoneInv
<1>5. SoleInv'
  BY <1>1, <1>2, <1>3 DEF SoleInv, Under
<1>6. KeyInv'
  <2> SUFFICES ASSUME upsets' = {} PROVE KeyInv'
    BY DEF KeyInv
  <2>1. upsets = {} /\ env = NoKey
    BY <1>3
  <2>2. done => file' = file /\ secret' = secret
    BY <2>1, Kinds DEF KeyInv, Restart, Resolve, TypeOK
  <2> QED BY <1>1, <1>2, <2>1, <2>2 DEF KeyInv, Under, SmtpOf, Sealed
<1> QED BY <1>4, <1>5, <1>6

LEMMA WholeNext == WholeInv /\ [Next]_vars => WholeInv'
<1> SUFFICES ASSUME WholeInv, [Next]_vars PROVE DoneInv' /\ SoleInv' /\ KeyInv'
  BY TypeNext DEF WholeInv
<1>1. CASE UNCHANGED vars
  BY <1>1 DEF WholeInv, DoneInv, SoleInv, KeyInv, Under, SmtpOf, Sealed,
              vars, process, settings, setups, triggers, holders
<1> QED
  BY <1>1, WholePrepare, WholeOpen, WholeCommit, WholeLeave, WholeBuild, WholeOperator, WholeRestart
     DEF Next, SetupStep

LEMMA WholeAlways == Spec => []WholeInv
<1>1. Init => WholeInv
  BY TypeInit, WholeInit DEF WholeInv
<1> QED BY <1>1, WholeNext, PTL DEF Spec

\* run_setup and _rotate_session_secret: once setup is done, process, file,
\* stored secrets, sessions and downloads share one key, unless setups
\* overlapped, the volume refused the key or the environment brought one.
THEOREM KeyIsOne == Spec => []OneKey
<1>1. WholeInv => OneKey
  BY DEF WholeInv, KeyInv, OneKey
<1> QED BY <1>1, WholeAlways, PTL

\* run_setup: all of a setup is stored or nothing, and once.
THEOREM SetupIsWhole == Spec => []CompleteIsWhole
<1>1. ASSUME WholeInv, done, upsets = {}
      PROVE  SmtpPassword = IF company \in WithSmtp THEN company ELSE None
  <2>1. smtp = SmtpOf(company)
    BY <1>1 DEF WholeInv, KeyInv
  <2> QED BY <2>1 DEF SmtpPassword, Decrypt, SmtpOf, Nothing
<1>2. WholeInv => CompleteIsWhole
  BY <1>1 DEF WholeInv, DoneInv, SoleInv, CompleteIsWhole, Sealed
<1> QED BY <1>2, WholeAlways, PTL
=============================================================================
