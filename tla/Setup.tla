-------------------------------- MODULE Setup --------------------------------
(***************************************************************************)
(* First-run setup and the key it mints: run_setup (main.py) rotates       *)
(* SESSION_SECRET (config.py), the key that seals the secrets of the       *)
(* settings table (vault.py) and signs sessions (auth.py).  The key lives  *)
(* in the process, in DATA_DIR and, on some installs, in the environment.  *)
(*                                                                         *)
(* Handlers run on one event loop: the code between two awaits is one      *)
(* action.  The process may be killed and restarted, the data volume may   *)
(* refuse a write, and operators may send several setups at once.          *)
(***************************************************************************)
EXTENDS Integers

CONSTANTS
  Setups,             \* the operators who may send POST /api/setup
  WithSmtp,           \* those whose payload has an SMTP account
  Builds,             \* those who may send POST /api/build/trigger
  Usernames,          \* the admin names a payload may ask for
  Keys,               \* the keys (bounds how many are in use at once)
  EnvKeys,            \* what SESSION_SECRET may be in the environment (NoKey: unset)
  None,               \* no value
  Garbled,            \* a ciphertext taken for a plaintext
  MaxFaults           \* bound on kills, refused writes and bad payloads

NoKey == 0

ASSUME SetupAssumption ==
  /\ WithSmtp \subseteq Setups
  /\ Keys \subseteq Nat \ {NoKey}
  /\ EnvKeys \subseteq Keys \cup {NoKey}
  /\ None \notin Setups \cup Builds
  /\ Garbled \notin Setups \cup Builds \cup {None}
  /\ MaxFaults \in Nat

Plain   == Setups \cup Builds         \* a secret is named by who typed it
Cipher  == [key : Keys, text : Plain \cup {Garbled}]
Nothing == [key |-> NoKey, text |-> None]
NoSeals == [key |-> NoKey, smtp |-> Nothing, github |-> Nothing]
Stages  == {"idle", "checked", "waiting", "open", "committed", "answered", "refused"}

VARIABLES
  env, file, secret, certs,           \* SESSION_SECRET: environment, DATA_DIR, config; the TLS files
  done, company, smtp, github,        \* settings: setup_complete, whose values, the sealed secrets
  admins,                             \* users
  stage, held,                        \* setups: where they are, the key minted and the secrets sealed
  building, pat,                      \* build triggers: where they are, the token read or sealed
  sessions, copies,                   \* operators: keys of their sessions, keys they downloaded
  upsets, faults                      \* history: what can part a secret from its key

settings == <<done, company, smtp, github, admins>>
process  == <<env, secret, file, certs>>
setups   == <<stage, held>>
triggers == <<building, pat>>
holders  == <<sessions, copies>>
vars == <<process, settings, setups, triggers, holders, upsets, faults>>

-----------------------------------------------------------------------------
(* Helpers.  Each operator named Faulty... is a plausible slip in the      *)
(* definition that follows it; no specification uses one.                  *)

Fault == faults < MaxFaults /\ faults' = faults + 1

InUse == {secret, file, smtp.key, github.key, env} \cup sessions \cup copies
           \cup UNION {{held[s].key, held[s].smtp.key, held[s].github.key} : s \in Setups}
           \cup {pat[b].key : b \in Builds}

\* A random key: one nobody has (the least, all being alike).
Fresh == {k \in Keys \ InUse : \A j \in Keys \ InUse : k <= j}

Encrypt(t) == [key |-> secret, text |-> t]

\* A value sealed under another key is returned as it is.
Decrypt(c) == IF c = Nothing \/ c.key = secret THEN c.text ELSE Garbled

\* rules.get_smtp_settings: what alerts log in to the mail server with.
SmtpPassword == Decrypt(smtp)

\* A session is accepted while the key that signed it is the process's.
Accepted == secret \in sessions

\* require_setup_done and require_session.
Admitted == done /\ Accepted

SignIn == sessions' = sessions \cup {secret}

\* config._resolve_secret: the environment, the file, a new key.
Resolve(written) ==
  IF env # NoKey THEN secret' = env /\ UNCHANGED file
  ELSE IF file # NoKey THEN secret' = file /\ UNCHANGED file
  ELSE \E k \in Fresh : secret' = k /\ file' = IF written THEN k ELSE NoKey

\* They are made once; making them fails where writing does.
EnsureCerts(written) == certs' = (certs \/ written)

FaultyRotate(k, written) == secret' = k /\ UNCHANGED file
Rotate(k, written) == secret' = k /\ file' = IF written THEN k ELSE file

-----------------------------------------------------------------------------
(* POST /api/setup *)

Check(s) ==
  /\ stage[s] = "idle"
  /\ stage' = [stage EXCEPT ![s] = IF done THEN "refused" ELSE "checked"]
  /\ UNCHANGED <<process, settings, held, triggers, holders, upsets, faults>>

\* Between two awaits: mint the key, make the certificates, validate the
\* payload and seal its SMTP password.  A volume that refuses writes goes
\* unnoticed for the key but not for certificates that must be made.
Prepare(s) ==
  /\ stage[s] = "checked"
  /\ \E k \in Fresh, written, valid \in BOOLEAN :
       /\ valid \/ s \in WithSmtp
       /\ IF written /\ valid THEN UNCHANGED faults ELSE Fault
       /\ Rotate(k, written)
       /\ EnsureCerts(written)
       /\ IF certs' /\ valid
            THEN /\ stage' = [stage EXCEPT ![s] = "waiting"]
                 /\ held' = [held EXCEPT ![s].key = k,
                      ![s].smtp = IF s \in WithSmtp THEN [key |-> k, text |-> s] ELSE Nothing]
            ELSE stage' = [stage EXCEPT ![s] = "refused"] /\ UNCHANGED held
       /\ upsets' = upsets \cup (IF written THEN {} ELSE {"disk"})
            \cup (IF done \/ \E t \in Setups : stage[t] \in {"waiting", "open"}
                  THEN {"overlap"} ELSE {})
  /\ UNCHANGED <<env, settings, triggers, holders>>

\* A connection is free: the transaction starts by sealing the GitHub token.
Open(s) ==
  /\ stage[s] = "waiting"
  /\ stage' = [stage EXCEPT ![s] = "open"]
  /\ held' = [held EXCEPT ![s].github = Encrypt(s)]
  /\ UNCHANGED <<process, settings, triggers, holders, upsets, faults>>

\* The transaction: every setting, setup_complete, the company, the admin.
\* Two of them are serial, for each first writes the row company_name.
Commit(s) ==
  /\ stage[s] = "open"
  /\ \E u \in Usernames \ admins : admins' = admins \cup {u}
  /\ done' = TRUE /\ company' = s
  /\ smtp' = IF s \in WithSmtp THEN held[s].smtp ELSE smtp
  /\ github' = held[s].github
  /\ stage' = [stage EXCEPT ![s] = "committed"]
  /\ UNCHANGED <<process, held, triggers, holders, upsets, faults>>

FaultyRollBack(s) ==
  /\ stage[s] = "open" /\ Fault
  /\ stage' = [stage EXCEPT ![s] = "refused"]
  /\ held' = [held EXCEPT ![s] = NoSeals]
  /\ done' = TRUE /\ UNCHANGED <<company, smtp, github, admins>>
  /\ UNCHANGED <<process, triggers, holders, upsets>>
\* The user name is taken, or the database fails: nothing of it is kept.
RollBack(s) ==
  /\ stage[s] = "open"
  /\ (admins # {} /\ UNCHANGED faults) \/ Fault
  /\ stage' = [stage EXCEPT ![s] = "refused"]
  /\ held' = [held EXCEPT ![s] = NoSeals]
  /\ UNCHANGED <<process, settings, triggers, holders, upsets>>

\* The answer: a session, and the key for the operator to download.
Answer(s) ==
  /\ stage[s] = "committed"
  /\ stage' = [stage EXCEPT ![s] = "answered"]
  /\ SignIn
  /\ copies' = copies \cup {held[s].key}
  /\ held' = [held EXCEPT ![s] = NoSeals]
  /\ UNCHANGED <<process, settings, triggers, upsets, faults>>

\* The wizard is sent again (the portal shows it until setup is done).
Retry(s) ==
  /\ stage[s] = "refused" /\ ~done
  /\ stage' = [stage EXCEPT ![s] = "idle"]
  /\ UNCHANGED <<process, settings, held, triggers, holders, upsets, faults>>

-----------------------------------------------------------------------------
(* POST /api/build/trigger *)

ReadBuildSettings(b) ==
  /\ building[b] = "idle" /\ Admitted
  /\ building' = [building EXCEPT ![b] = "read"]
  /\ pat' = [pat EXCEPT ![b] = github]
  /\ UNCHANGED <<process, settings, setups, holders, upsets, faults>>

FaultyAuthorized(t) == t # None
Authorized(t) == t \in Plain          \* github.validate: a real token

\* GitHub takes the token sent, or else the stored one, and it is sealed.
Dispatch(b) ==
  /\ building[b] = "read"
  /\ \E token \in {b, Decrypt(pat[b])} :
       Authorized(token) /\ pat' = [pat EXCEPT ![b] = Encrypt(token)]
  /\ building' = [building EXCEPT ![b] = "saving"]
  /\ UNCHANGED <<process, settings, setups, holders, upsets, faults>>

\* GitHub refuses, or no token is known: 400, nothing saved.
Refuse(b) ==
  /\ building[b] = "read"
  /\ building' = [building EXCEPT ![b] = "idle"]
  /\ pat' = [pat EXCEPT ![b] = Nothing]
  /\ UNCHANGED <<process, settings, setups, holders, upsets, faults>>

\* The last of three statements, each awaited.
Save(b) ==
  /\ building[b] = "saving"
  /\ building' = [building EXCEPT ![b] = "idle"]
  /\ github' = pat[b]
  /\ pat' = [pat EXCEPT ![b] = Nothing]
  /\ UNCHANGED <<process, done, company, smtp, admins, setups, holders, upsets, faults>>

-----------------------------------------------------------------------------
(* Operators, and the process's end *)

Login ==
  /\ done /\ SignIn
  /\ UNCHANGED <<process, settings, setups, triggers, copies, upsets, faults>>

\* A session runs out after twelve hours.
Expire(k) ==
  /\ sessions' = sessions \ {k}
  /\ UNCHANGED <<process, settings, setups, triggers, copies, upsets, faults>>

\* GET /api/session-secret serves the file.
Download ==
  /\ Admitted /\ file # NoKey
  /\ copies' = copies \cup {file}
  /\ UNCHANGED <<process, settings, setups, triggers, sessions, upsets, faults>>

\* The process is killed and starts again; an open transaction is undone.
Restart ==
  /\ Fault
  /\ \E written \in BOOLEAN : Resolve(written)
  /\ stage' = [s \in Setups |->
       IF stage[s] \in {"idle", "answered"} THEN stage[s] ELSE "refused"]
  /\ held' = [s \in Setups |-> NoSeals]
  /\ building' = [b \in Builds |-> "idle"]
  /\ pat' = [b \in Builds |-> Nothing]
  /\ upsets' = upsets \cup (IF env # NoKey THEN {"environment"} ELSE {})
  /\ UNCHANGED <<env, certs, settings, holders>>

-----------------------------------------------------------------------------

Init ==
  /\ \E k \in Keys, written \in BOOLEAN :
       /\ env \in EnvKeys
       /\ k # env /\ \A j \in Keys \ {env} : k <= j
       /\ secret = IF env = NoKey THEN k ELSE env
       /\ file = IF env = NoKey /\ written THEN k ELSE NoKey
  /\ certs = FALSE
  /\ done = FALSE /\ company = None /\ smtp = Nothing /\ github = Nothing /\ admins = {}
  /\ stage = [s \in Setups |-> "idle"] /\ held = [s \in Setups |-> NoSeals]
  /\ building = [b \in Builds |-> "idle"] /\ pat = [b \in Builds |-> Nothing]
  /\ sessions = {} /\ copies = {} /\ upsets = {} /\ faults = 0

SetupStep(s) == Check(s) \/ Prepare(s) \/ Open(s) \/ Commit(s) \/ RollBack(s) \/ Answer(s) \/ Retry(s)
BuildStep(b) == ReadBuildSettings(b) \/ Dispatch(b) \/ Refuse(b) \/ Save(b)
OperatorStep == Login \/ Download \/ \E k \in sessions : Expire(k)

Next ==
  \/ \E s \in Setups : SetupStep(s)
  \/ \E b \in Builds : BuildStep(b)
  \/ OperatorStep
  \/ Restart

Spec == Init /\ [][Next]_vars

\* Handlers run on, and an operator whose setup failed sends it again.
FairSpec == Spec /\ \A s \in Setups :
  /\ WF_vars(Check(s)) /\ WF_vars(Prepare(s)) /\ WF_vars(Open(s))
  /\ WF_vars(Commit(s)) /\ WF_vars(Retry(s))

-----------------------------------------------------------------------------
(* Properties *)

TypeOK ==
  /\ env \in EnvKeys /\ secret \in Keys /\ file \in Keys \cup {NoKey} /\ certs \in BOOLEAN
  /\ done \in BOOLEAN /\ company \in Setups \cup {None}
  /\ smtp \in Cipher \cup {Nothing} /\ github \in Cipher \cup {Nothing}
  /\ admins \subseteq Usernames
  /\ stage \in [Setups -> Stages]
  /\ held \in [Setups -> [key : Keys \cup {NoKey}, smtp : Cipher \cup {Nothing},
                           github : Cipher \cup {Nothing}]]
  /\ \A s \in Setups : stage[s] \in {"waiting", "open", "committed"} => held[s].key # NoKey
  /\ building \in [Builds -> {"idle", "read", "saving"}]
  /\ pat \in [Builds -> Cipher \cup {Nothing}]
  /\ sessions \subseteq Keys /\ copies \subseteq Keys
  /\ upsets \subseteq {"disk", "overlap", "environment"}
  /\ faults \in 0 .. MaxFaults

Sealed == {c \in {smtp, github} : c # Nothing}

\* run_setup rotates the key "BEFORE any vault.encrypt() ... so every stored
\* secret is encrypted under the new key" (main.py).  Once setup is done, the
\* process, the file a restart reads, every stored secret, every session and
\* every copy an operator downloaded share one key, whatever was refused,
\* retried or restarted on the way; only a setup that overlapped another, a
\* volume that refused the key or a key in the environment can part them.
OneKey ==
  done /\ upsets = {} =>
    file = secret /\ {c.key : c \in Sealed} \cup sessions \cup copies \subseteq {secret}

\* Setup is all or nothing (main.py: "a partial setup is never left behind"):
\* once it is done there is an admin to log in, and nothing is stored before.
\* Unless setups overlapped, it ran once: one admin; and unless something
\* parted them from the key, alerts are mailed with the password typed in the
\* wizard with the company.
CompleteIsWhole ==
  /\ IF done THEN admins # {} /\ company # None
             ELSE admins = {} /\ company = None /\ Sealed = {}
  /\ done /\ "overlap" \notin upsets => \A u, v \in admins : u = v
  /\ done /\ upsets = {} => SmtpPassword = IF company \in WithSmtp THEN company ELSE None

\* vault.decrypt answers a foreign ciphertext with itself, and build_trigger
\* saves again the token it read: what is sealed is still always a token or a
\* password somebody typed, never a ciphertext sealed a second time.
NeverSealedTwice == \A c \in Sealed : c.text \in Plain

\* A setup that fails can be sent again (main.py: "so setup can be retried"),
\* and no failure leaves the wizard shut before there is an admin: setup gets done.
SetupCompletes == <>(done /\ admins # {})
=============================================================================
