----------------------------- MODULE GoogleAuth -----------------------------
(***************************************************************************)
(* The Google accounts' credential files: the broker inside the router     *)
(* hands their credentials out and refreshes them under its mutex          *)
(* (antigravityauth/broker.go, oauth.go Refresh), while `auth add`, `auth  *)
(* login` and `auth use`, each a process of its own, log in and replace a  *)
(* file, or the whole registry, without any lock (app.go, oauth.go Login). *)
(* A login waits for the browser's redirect to a loopback port, which may  *)
(* be another login's, or for what the user pastes.                        *)
(*                                                                         *)
(* A grant is what a user consents to once: a job's own, or the one a      *)
(* profile had at first.  Tokens are named by their grant, a project by    *)
(* the account that owns it.                                               *)
(***************************************************************************)
EXTENDS Integers, FiniteSets

CONSTANTS
  Calls,         \* requests that need credentials
  Jobs,          \* processes of the command line
  Profiles,      \* Google profile ids
  Registered,    \* those registered, with a credential, at first
  Accounts,      \* Google accounts
  Home,          \* the account those belong to
  None,
  MaxExpiries, MaxTrouble   \* bounds on expiries, and on failures and deaths

Grants == Profiles \cup Jobs
Registry == [ids : SUBSET Profiles, active : Profiles \cup {None}]
Credential == [access : Grants, refresh : Grants, project : Accounts, expiring : BOOLEAN]

ASSUME AuthAssumption ==
  /\ Registered \subseteq Profiles /\ Home \in Accounts
  /\ None \notin Calls \cup Jobs \cup Profiles \cup Accounts \cup Credential
  /\ Jobs \cap Profiles = {}
  /\ {MaxExpiries, MaxTrouble} \subseteq Nat

VARIABLES
  registry,   \* the Google part of registry.json
  file,       \* the credential file of a profile
  owner,      \* the account that consented to a grant, if it has been
  mu,         \* who holds the broker's mutex
  call,       \* the requests
  job,        \* the processes
  port,       \* whose callback listener has the loopback port
  count       \* expiries and trouble so far

broker == <<mu, call>>
vars == <<registry, file, owner, broker, job, port, count>>

\* want is the profile whose credentials are asked for and left those still to ask
\* for; current is the file as credentialsFor read it, fresh what a refresh made of
\* it, out what was handed out.  overtaken: a login replaced the file since current
\* was read under the mutex (history).
Call == [pc : {"idle", "load", "lock", "refresh", "save", "done"},
         want : Profiles \cup {None}, left : SUBSET Profiles, force : BOOLEAN,
         current : Credential \cup {None}, fresh : Credential \cup {None},
         out : SUBSET [profile : Profiles, access : Grants, project : Accounts],
         overtaken : BOOLEAN]

\* callback is the listener's channel of one result and code the grant of the
\* authorization code taken; copy is the registry as read at the start.
Job == [pc : {"idle", "wait", "exchange", "save", "register", "use", "done"},
        profile : Profiles \cup {None}, add : BOOLEAN, copy : Registry,
        callback : {"empty", "code", "error"}, code : Jobs \cup {None},
        made : Credential \cup {None}]

NoRegistry == [ids |-> {}, active |-> None]
NoCall == [pc |-> "idle", want |-> None, left |-> {}, force |-> FALSE, current |-> None,
           fresh |-> None, out |-> {}, overtaken |-> FALSE]
NoJob == [pc |-> "idle", profile |-> None, add |-> FALSE, copy |-> NoRegistry,
          callback |-> "empty", code |-> None, made |-> None]

\* The types, that the mutex is with the call that refreshes and that the port is
\* with a login that waits.
TypeOK ==
  /\ registry \in Registry
  /\ file \in [Profiles -> Credential \cup {None}]
  /\ owner \in [Grants -> Accounts \cup {None}]
  /\ mu \in Calls \cup {None}
  /\ call \in [Calls -> Call]
  /\ \A c \in Calls : mu = c <=> call[c].pc \in {"refresh", "save"}
  /\ job \in [Jobs -> Job]
  /\ port \in Jobs \cup {None}
  /\ port # None => job[port].pc \in {"wait", "exchange", "save"}
  /\ count \in [expiry : 0..MaxExpiries, trouble : 0..MaxTrouble]

Complete(g, account) ==
  [access |-> g, refresh |-> g, project |-> account, expiring |-> FALSE]

Init ==
  /\ registry \in {[ids |-> Registered, active |-> p] :
                     p \in IF Registered = {} THEN {None} ELSE Registered}
  /\ file = [p \in Profiles |-> IF p \in Registered THEN Complete(p, Home) ELSE None]
  /\ owner = [g \in Grants |-> IF g \in Registered THEN Home ELSE None]
  /\ mu = None /\ port = None
  /\ call = [c \in Calls |-> NoCall] /\ job = [j \in Jobs |-> NoJob]
  /\ count = [expiry |-> 0, trouble |-> 0]

Trouble ==
  /\ count.trouble < MaxTrouble
  /\ count' = [count EXCEPT !.trouble = @ + 1]

-----------------------------------------------------------------------------
(* The broker                                                              *)

\* What a call does once it is through with the profile it wants: the next one.
Onward(q) ==
  LET over == [q EXCEPT !.want = None, !.current = None, !.fresh = None, !.overtaken = FALSE]
  IN IF q.left = {} THEN {[over EXCEPT !.pc = "done", !.force = FALSE]}
     ELSE {[over EXCEPT !.pc = "load", !.want = p, !.left = @ \ {p}] : p \in q.left}

\* toCredentials: token and project of the one credential that was read.
Handed(q, c) ==
  [q EXCEPT !.out = @ \cup {[profile |-> q.want, access |-> c.access, project |-> c.project]}]

Hand(c, q, credential) == \E next \in Onward(Handed(q, credential)) : call' = [call EXCEPT ![c] = next]

\* An error; CandidateCredentials skips the profile, the others have no other.
Fail(c) == \E next \in Onward(call[c]) : call' = [call EXCEPT ![c] = next]

\* Credentials of the active profile, CredentialsFor or ForceRefresh of one that is
\* registered, or CandidateCredentials of all but one.
Ask(c) ==
  /\ call[c].pc = "idle"
  /\ \E wanted \in SUBSET registry.ids, force \in BOOLEAN :
       /\ wanted # {}
       /\ Cardinality(wanted) # 1 => ~force /\ Cardinality(registry.ids \ wanted) <= 1
       /\ \E next \in Onward([NoCall EXCEPT !.left = wanted, !.force = force]) :
            call' = [call EXCEPT ![c] = next]
  /\ UNCHANGED <<registry, file, owner, mu, job, port, count>>

Usable(c, credential) == ~call[c].force /\ ~credential.expiring

\* credentialsFor before the mutex.
Load(c) ==
  LET p == call[c].want IN
  /\ call[c].pc = "load"
  /\ \/ file[p] = None /\ Fail(c)
     \/ file[p] # None /\ Usable(c, file[p]) /\ Hand(c, call[c], file[p])
     \/ /\ file[p] # None /\ ~Usable(c, file[p])
        /\ call' = [call EXCEPT ![c].pc = "lock", ![c].current = file[p]]
  /\ UNCHANGED <<registry, file, owner, mu, job, port, count>>

LoadedBefore(c) == call[c].current

\* The file is read again under the mutex.
LoadedAgain(c) == file[call[c].want]

Enter(c) ==
  /\ call[c].pc = "lock" /\ mu = None
  /\ IF Usable(c, LoadedAgain(c))
       THEN Hand(c, call[c], LoadedAgain(c)) /\ UNCHANGED mu
       ELSE /\ mu' = c
            /\ call' = [call EXCEPT ![c].pc = "refresh", ![c].current = LoadedAgain(c)]
  /\ UNCHANGED <<registry, file, owner, job, port, count>>

KeepMu == UNCHANGED mu

\* The deferred Unlock.
Unlock == mu' = None

\* Where the project cannot be discovered the old one stays.
ProjectInFile(c) == file[call[c].want].project

ProjectKept(c) == call[c].current.project

\* Google answers the refresh token with an access token, and names its project, or
\* fails to do either.
Refresh(c) ==
  LET old == call[c].current
      Made(project) == call' = [call EXCEPT ![c].pc = "save",
        ![c].fresh = [access |-> old.refresh, refresh |-> old.refresh, project |-> project,
                      expiring |-> FALSE]]
  IN /\ call[c].pc = "refresh"
     /\ \/ Made(owner[old.refresh]) /\ UNCHANGED <<mu, count>>
        \/ Trouble /\ Made(ProjectKept(c)) /\ UNCHANGED mu
        \/ Trouble /\ Fail(c) /\ Unlock
     /\ UNCHANGED <<registry, file, owner, job, port>>

Save(c) ==
  LET q == call[c] IN
  /\ q.pc = "save"
  /\ \/ /\ file' = [file EXCEPT ![q.want] = q.fresh]
        /\ Hand(c, q, q.fresh)
        /\ UNCHANGED count
     \/ Trouble /\ Fail(c) /\ UNCHANGED file
  /\ Unlock
  /\ UNCHANGED <<registry, owner, job, port>>

-----------------------------------------------------------------------------
(* Logins                                                                  *)

Over(j) == [job EXCEPT ![j] = [NoJob EXCEPT !.pc = "done", !.profile = job[j].profile]]

\* The process ends, and its listener with it.
Exit(j) ==
  /\ job' = Over(j)
  /\ port' = IF port = j THEN None ELSE port

\* auth add of a profile that is not registered, auth login of one that is; the
\* listener starts unless the port is taken, or in a container.
StartLogin(j) ==
  /\ job[j].pc = "idle"
  /\ \E p \in Profiles, listens \in BOOLEAN :
       /\ job' = [job EXCEPT ![j] = [NoJob EXCEPT !.pc = "wait", !.profile = p,
            !.add = p \notin registry.ids,
            !.copy = IF p \in registry.ids THEN NoRegistry ELSE registry]]
       /\ port' = IF listens /\ port = None THEN j ELSE port
  /\ UNCHANGED <<registry, file, owner, broker, count>>

\* The user consents with some account.
Consent(j) ==
  /\ job[j].pc = "wait" /\ owner[j] = None
  /\ \E a \in Accounts : owner' = [owner EXCEPT ![j] = a]
  /\ UNCHANGED <<registry, file, broker, job, port, count>>

\* The browser is sent to the port: whoever listens there checks the state of its
\* own login, and only the first result fits its channel.
Redirect(j) ==
  /\ owner[j] # None /\ port # None /\ job[port].callback = "empty"
  /\ job[port].pc = "wait"
  /\ job' = [job EXCEPT ![port].callback = IF port = j THEN "code" ELSE "error"]
  /\ UNCHANGED <<registry, file, owner, broker, port, count>>

Take(j, g) == job' = [job EXCEPT ![j].pc = "exchange", ![j].code = g, ![j].callback = "empty"]

\* waitForCode: the callback's result,
TakeCallback(j) ==
  /\ job[j].pc = "wait"
  /\ \/ job[j].callback = "code" /\ Take(j, j) /\ UNCHANGED port
     \/ job[j].callback = "error" /\ Exit(j)
  /\ UNCHANGED <<registry, file, owner, broker, count>>

\* or the user's line: the URL or the code of a login, or neither.  A URL must have
\* this login's state, a bare code is taken as it is.
Paste(j) ==
  /\ job[j].pc = "wait"
  /\ \/ \E g \in Jobs : owner[g] # None /\ Take(j, g) /\ UNCHANGED port
     \/ Exit(j)
  /\ UNCHANGED <<registry, file, owner, broker, count>>

\* exchange and discoverProject: Google takes a code only with the verifier of the
\* login it was made for, and may send no refresh token or find no project.
Exchange(j) ==
  /\ job[j].pc = "exchange"
  /\ \/ /\ job[j].code = j
        /\ job' = [job EXCEPT ![j].pc = "save", ![j].made = Complete(j, owner[j]),
                              ![j].code = None]
        /\ UNCHANGED <<port, count>>
     \/ job[j].code = j /\ Trouble /\ Exit(j)
     \/ job[j].code # j /\ Exit(j) /\ UNCHANGED count
  /\ UNCHANGED <<registry, file, owner, broker>>

\* Whoever refreshes the same profile at the moment has read the old file.
Overtake(p) ==
  call' = [c \in Calls |-> IF mu = c /\ call[c].want = p
                             THEN [call[c] EXCEPT !.overtaken = TRUE] ELSE call[c]]

SaveLogin(j) ==
  LET p == job[j].profile IN
  /\ job[j].pc = "save"
  /\ file' = [file EXCEPT ![p] = job[j].made]
  /\ Overtake(p)
  /\ port' = IF port = j THEN None ELSE port
  /\ job' = IF job[j].add
              THEN [job EXCEPT ![j].pc = "register", ![j].made = None] ELSE Over(j)
  /\ UNCHANGED <<registry, owner, mu, count>>

\* authAdd saves the registry as it was before the login, and the new profile.
Register(j) ==
  LET p == job[j].profile
      old == job[j].copy
  IN /\ job[j].pc = "register"
     /\ registry' = [ids |-> old.ids \cup {p},
                     active |-> IF old.active = None THEN p ELSE old.active]
     /\ job' = Over(j)
     /\ UNCHANGED <<file, owner, broker, port, count>>

-----------------------------------------------------------------------------
(* auth use, deaths and time                                               *)

StartUse(j) ==
  /\ job[j].pc = "idle" /\ registry.ids # {}
  /\ job' = [job EXCEPT ![j] = [NoJob EXCEPT !.pc = "use", !.copy = registry]]
  /\ UNCHANGED <<registry, file, owner, broker, port, count>>

Use(j) ==
  /\ job[j].pc = "use"
  /\ \E p \in job[j].copy.ids : registry' = [job[j].copy EXCEPT !.active = p]
  /\ job' = Over(j)
  /\ UNCHANGED <<file, owner, broker, port, count>>

\* A process of the command line is interrupted.
Die(j) ==
  /\ job[j].pc \notin {"idle", "done"} /\ Trouble
  /\ Exit(j)
  /\ UNCHANGED <<registry, file, owner, broker>>

\* An access token comes within a minute of its end.
Expire(p) ==
  /\ file[p] # None /\ ~file[p].expiring /\ count.expiry < MaxExpiries
  /\ file' = [file EXCEPT ![p].expiring = TRUE]
  /\ count' = [count EXCEPT !.expiry = @ + 1]
  /\ UNCHANGED <<registry, owner, broker, job, port>>

-----------------------------------------------------------------------------
Next ==
  \/ \E c \in Calls : Ask(c) \/ Load(c) \/ Enter(c) \/ Refresh(c) \/ Save(c)
  \/ \E j \in Jobs :
       \/ StartLogin(j) \/ Consent(j) \/ Redirect(j) \/ TakeCallback(j) \/ Paste(j)
       \/ Exchange(j) \/ SaveLogin(j) \/ Register(j)
       \/ StartUse(j) \/ Use(j) \/ Die(j)
  \/ \E p \in Profiles : Expire(p)

Spec == Init /\ [][Next]_vars

-----------------------------------------------------------------------------
(* Properties                                                              *)

\* A profile that is registered has a credential, and each credential, in a file or
\* handed to a request, is of one grant of that profile and has the project of its
\* account: whoever else logs in meanwhile with whichever account, dies, or fails to
\* find the project (README.md:233, docs/openai-compatible-api.md:94,
\* oauth.go:163-198).
OneSnapshot ==
  LET For(g, p) == IF g \in Jobs THEN job[g].profile = p ELSE g = p
      Whole(p, c) == For(c.access, p) /\ owner[c.access] = c.project
  IN /\ \A p \in registry.ids : file[p] # None
     /\ \A p \in Profiles :
          file[p] # None => Whole(p, file[p]) /\ file[p].refresh = file[p].access
     /\ \A c \in Calls : \A out \in call[c].out : Whole(out.profile, out)

\* A login's credential gives way to an older one only by a refresh that was under
\* way, with the mutex, when the login saved it (broker.go:119-144, oauth.go:146-157).
LoginKept ==
  [][\A p \in Profiles, j \in Jobs :
       /\ file[p] # None /\ file[p].refresh = j
       /\ file'[p].refresh # j
       => \/ \E k \in Jobs : job[k].pc = "save" /\ job[k].profile = p /\ file'[p] = job[k].made
          \/ \E c \in Calls : mu = c /\ call[c].overtaken]_vars

\* However many requests find a credential at its end, one of them refreshes it and
\* the others take what it got (broker.go:124-134).
RefreshedOnce ==
  \A c \in Calls :
    LET q == call[c] IN
    q.pc \in {"refresh", "save"} /\ ~q.force /\ ~q.overtaken => file[q.want].expiring
=============================================================================
