---------------------------- MODULE CodexGateway ----------------------------
(***************************************************************************)
(* A Codex request on its way through the gateway: the credentials of the  *)
(* active or pinned profile, refreshed under the profile's write lock when *)
(* they are about to expire (authbroker); one refresh and replay after a   *)
(* 401, and the failover to another profile after a confirmed usage limit, *)
(* which moves the active profile in the registry file (gateway RoundTrip, *)
(* authbroker Failover).  Whoever else rewrites that file, the             *)
(* administrator's login or the command line, is an editor; each rewrites  *)
(* the whole of what it read before, and so does a failover.               *)
(*                                                                         *)
(* A token set is a number: the authority honours the newest refresh token *)
(* of a profile only.  The upstream answers what it likes.                 *)
(***************************************************************************)
EXTENDS Integers, FiniteSets

CONSTANTS
  Requests,
  Profiles,     \* Codex profile ids, numbers so as to have their order
  Registered,   \* those in the registry at first
  LoggedIn,     \* those with an auth.json
  Editors,      \* other processes and goroutines that rewrite the registry
  Orphaned,     \* those whose write lock a process left that died long ago
  None, Dead,   \* nobody, and that process
  Hour,         \* suppression in ticks when the upstream names no reset time
  MaxClock, MaxExpiries, MaxFailures,  \* bounds on ticks, expiries and failures
  MaxDisturbed  \* and on all of them and the editors together

ASSUME GatewayAssumption ==
  /\ Profiles \subseteq Nat /\ IsFiniteSet(Profiles)
  /\ Registered \subseteq Profiles /\ LoggedIn \subseteq Profiles
  /\ Orphaned \subseteq Profiles
  /\ None \notin Profiles \cup Requests /\ Dead \notin Requests \cup {None}
  /\ None \notin [token : Nat, expiring : BOOLEAN]
  /\ Hour \in Nat \ {0} /\ {MaxClock, MaxExpiries, MaxFailures, MaxDisturbed} \subseteq Nat

VARIABLES
  registry,   \* registry.json
  exhausted,  \* until when the broker suppresses a profile
  routeMu,    \* who holds the broker's routing mutex
  wlock,      \* who made the directory .auth-write.lock of a profile, if it is there
  broken,     \* how often a waiter removed it for being stale (history)
  auth,       \* the auth.json of a profile
  authority,  \* the newest token the authority issued for a profile
  req,        \* the requests
  edit,       \* the editors
  clock,
  count       \* expiries and failures so far

route == <<exhausted, routeMu>>
tokens == <<wlock, broken, auth, authority>>
vars == <<registry, route, tokens, req, edit, clock, count>>

Registry == [ids : SUBSET Profiles, active : Profiles \cup {None}]
NoRegistry == [ids |-> {}, active |-> None]
Auth == [token : Nat, expiring : BOOLEAN]
Until == 0..(MaxClock + Hour)

\* want is the profile whose credentials the request asks for and why it does:
\* to start, to retry after a 401, or because failover tries the active profile
\* or a candidate; copy and left are failover's registry and candidates.
Request == [
  pc : {"idle", "lookup", "wait", "break", "refresh", "send", "route", "pick", "done"},
  pin : BOOLEAN, creds : Profiles \cup {None}, want : Profiles \cup {None},
  why : {"start", "retry", "active", "candidate"}, doc : Nat,
  attempted : SUBSET Profiles, refreshed : SUBSET Profiles,
  sent : [Profiles -> Nat], until : Until,
  copy : Registry, left : SUBSET Profiles]

\* Where a request is inside Failover, and so holds the routing mutex.
Routing(r) ==
  \/ req[r].pc = "pick"
  \/ /\ req[r].pc \in {"lookup", "wait", "break", "refresh"}
     /\ req[r].why \in {"active", "candidate"}

Writes(r, p) == req[r].pc = "refresh" /\ req[r].want = p

\* The types, that the mutex is held by whoever is where it is needed, and that no
\* request leaves a lock directory behind.
TypeOK ==
  /\ registry \in Registry
  /\ exhausted \in [Profiles -> Until]
  /\ routeMu \in Requests \cup {None}
  /\ wlock \in [Profiles -> Requests \cup {None, Dead}]
  /\ broken \in [Profiles -> Nat]
  /\ auth \in [Profiles -> Auth \cup {None}]
  /\ authority \in [Profiles -> Nat]
  /\ req \in [Requests -> Request]
  /\ edit \in [Editors -> [pc : {"idle", "loaded", "done"}, copy : Registry]]
  /\ \A r \in Requests : routeMu = r <=> Routing(r)
  /\ \A r \in Requests, p \in Profiles : wlock[p] = r => Writes(r, p)
  /\ clock \in 0..MaxClock
  /\ count \in [expiry : 0..MaxExpiries, failure : 0..MaxFailures]

NoRequest ==
  [pc |-> "idle", pin |-> FALSE, creds |-> None, want |-> None, why |-> "start",
   doc |-> 0, attempted |-> {}, refreshed |-> {}, sent |-> [p \in Profiles |-> 0],
   until |-> 0, copy |-> NoRegistry, left |-> {}]

\* The first of some profiles in the order of their ids.
First(ids) == {p \in ids : \A q \in ids : p <= q}

Init ==
  /\ \E a \in IF Registered = {} THEN {None} ELSE First(Registered) :
       registry = [ids |-> Registered, active |-> a]
  /\ exhausted = [p \in Profiles |-> 0] /\ routeMu = None
  /\ wlock = [p \in Profiles |-> IF p \in Orphaned THEN Dead ELSE None]
  /\ broken = [p \in Profiles |-> 0]
  /\ auth = [p \in Profiles |->
               IF p \in LoggedIn THEN [token |-> 0, expiring |-> FALSE] ELSE None]
  /\ authority = [p \in Profiles |-> 0]
  /\ req = [r \in Requests |-> NoRequest]
  /\ edit = [e \in Editors |-> [pc |-> "idle", copy |-> NoRegistry]]
  /\ clock = 0 /\ count = [expiry |-> 0, failure |-> 0]

-----------------------------------------------------------------------------
(* What becomes of a request                                               *)

\* What no longer matters is reset, so that equal futures are equal states.
Settled(q, pc) ==
  [q EXCEPT !.pc = pc, !.copy = NoRegistry, !.left = {}, !.until = 0, !.doc = 0,
            !.want = None, !.why = "start"]

\* An answer for the client, which answer it is does not matter here.
Ended == [NoRequest EXCEPT !.pc = "done"]

Sending(q) ==
  [Settled(q, "send") EXCEPT !.creds = q.want, !.attempted = @ \cup {q.want},
                             !.sent[q.want] = @ + 1]

KeepRouteMu(r) == UNCHANGED routeMu

\* The deferred Unlock, if failover is where r comes from.
Free(r) == routeMu' = IF routeMu = r THEN None ELSE routeMu

FallbackAgain(q) == Sending(q)

\* RoundTrip takes what failover returned, unless it has tried it before.
Fallback(q) ==
  IF q.want \in q.attempted THEN Ended ELSE Sending(q)

\* A candidate becomes active in the registry that failover read.
UseCandidate(q) == [q.copy EXCEPT !.active = q.want]

Undisturbed ==
  clock + count.expiry + count.failure
    + Cardinality({e \in Editors : edit[e].pc # "idle"}) < MaxDisturbed

Failure ==
  /\ count.failure < MaxFailures /\ Undisturbed
  /\ count' = [count EXCEPT !.failure = @ + 1]

\* A candidate's registry could not be saved: the client gets its 429.
Unsaved(r) ==
  /\ req[r].why = "candidate" /\ Failure
  /\ req' = [req EXCEPT ![r] = Ended]
  /\ Free(r) /\ UNCHANGED registry

\* r goes on with them, and failover has put its candidate into the registry.
Taken(r) ==
  LET q == req[r]
      next == CASE q.why = "start" -> Sending(q)
                [] q.why = "retry" -> [Sending(q) EXCEPT !.refreshed = @ \cup {q.want}]
                [] OTHER -> Fallback(q)
  IN /\ req' = [req EXCEPT ![r] = next]
     /\ Free(r)
     /\ IF q.why = "candidate"
          THEN registry' = UseCandidate(q)
          ELSE UNCHANGED registry
     /\ UNCHANGED count

\* The credentials r asked for are there.
Obtained(r) == Taken(r) \/ Unsaved(r)

\* They are not: failover goes on to the next candidate, the others give up.
Refused(r) ==
  LET q == req[r] IN
  /\ req' = [req EXCEPT ![r] =
       IF q.why \in {"start", "retry"} THEN Ended
       ELSE [q EXCEPT !.pc = "pick", !.want = None, !.why = "start", !.doc = 0]]
  /\ UNCHANGED <<registry, routeMu>>

-----------------------------------------------------------------------------
(* Credentials                                                             *)

\* ServeHTTP: the active profile, or the one an administrator's check pins.
Arrive(r) ==
  /\ req[r].pc = "idle"
  /\ \E p \in Profiles \cup {None}, pin \in BOOLEAN :
       /\ ~pin => p = registry.active
       /\ pin => p # None
       /\ req' = [req EXCEPT ![r] =
            IF p = None \/ (~pin /\ auth[p] = None) THEN Ended
            ELSE [@ EXCEPT !.pc = "lookup", !.pin = pin, !.want = p, !.why = "start"]]
  /\ UNCHANGED <<registry, route, tokens, edit, clock, count>>

NeedsRefresh(p) == auth[p].expiring

HasLogin(p) == p \in registry.ids /\ auth[p] # None

\* CredentialsForProfile up to the lock.
Lookup(r) ==
  LET p == req[r].want IN
  /\ req[r].pc = "lookup"
  /\ \/ ~HasLogin(p) /\ Refused(r) /\ UNCHANGED count
     \/ HasLogin(p) /\ ~NeedsRefresh(p) /\ Obtained(r)
     \/ /\ HasLogin(p) /\ NeedsRefresh(p)
        /\ req' = [req EXCEPT ![r].pc = "wait", ![r].doc = auth[p].token]
        /\ UNCHANGED <<registry, routeMu, count>>
  /\ UNCHANGED <<exhausted, tokens, edit, clock>>

DocBeforeLock(r) == req[r].doc

\* The token set is read again once the lock is there.
DocUnderLock(r) == auth[req[r].want].token

\* AcquireProfileWriteLock: the directory is made if it is not there.
TakeLock(r) ==
  LET p == req[r].want IN
  /\ req[r].pc = "wait" /\ wlock[p] = None
  /\ wlock' = [wlock EXCEPT ![p] = r]
  /\ req' = [req EXCEPT ![r].pc = "refresh", ![r].doc = DocUnderLock(r)]
  /\ UNCHANGED <<registry, route, broken, auth, authority, edit, clock, count>>

StaleWhenThere(p) == wlock[p] # None

StaleNever(p) == FALSE

\* Older than fifteen minutes: no request holds the lock so long.
Stale(p) == wlock[p] = Dead

SeeStale(r) ==
  /\ req[r].pc = "wait" /\ Stale(req[r].want)
  /\ req' = [req EXCEPT ![r].pc = "break"]
  /\ UNCHANGED <<registry, route, tokens, edit, clock, count>>

\* Whatever is there now is removed, and the loop goes round.
BreakLock(r) ==
  LET p == req[r].want IN
  /\ req[r].pc = "break"
  /\ wlock' = [wlock EXCEPT ![p] = None]
  /\ broken' = [broken EXCEPT ![p] = @ + 1]
  /\ req' = [req EXCEPT ![r].pc = "wait"]
  /\ UNCHANGED <<registry, route, auth, authority, edit, clock, count>>

\* The deferred release removes the directory, whoever made it.
Release(p) == wlock' = [wlock EXCEPT ![p] = None] /\ UNCHANGED broken

\* The request's context ends while another has the lock.
GiveUpLock(r) ==
  /\ req[r].pc = "wait" /\ wlock[req[r].want] # None
  /\ Failure
  /\ Refused(r)
  /\ UNCHANGED <<exhausted, tokens, edit, clock>>

\* ForceRefresh always asks the authority, CredentialsForProfile only if nobody
\* has refreshed in between.
MustRefresh(r) == req[r].why = "retry" \/ NeedsRefresh(req[r].want)

\* The authority rotates the token set and the file follows; or it does not; or it
\* does and its answer is lost.  A token set that is not the newest is rejected.
Refresh(r) ==
  LET p == req[r].want
      Rotated == authority' = [authority EXCEPT ![p] = @ + 1]
  IN /\ req[r].pc = "refresh" /\ MustRefresh(r)
     /\ Release(p)
     /\ \/ /\ req[r].doc = authority[p]
           /\ Rotated /\ auth' = [auth EXCEPT ![p] = [token |-> authority'[p],
                                                     expiring |-> FALSE]]
           /\ Obtained(r)
        \/ /\ Failure
           /\ \/ UNCHANGED authority
              \/ req[r].doc = authority[p] /\ Rotated
           /\ UNCHANGED auth
           /\ Refused(r)
        \/ /\ req[r].doc # authority[p]
           /\ Refused(r)
           /\ UNCHANGED <<auth, authority, count>>
     /\ UNCHANGED <<exhausted, edit, clock>>

Refreshed(r) ==
  /\ req[r].pc = "refresh" /\ ~MustRefresh(r)
  /\ Release(req[r].want)
  /\ Obtained(r)
  /\ UNCHANGED <<exhausted, auth, authority, edit, clock>>

-----------------------------------------------------------------------------
(* RoundTrip                                                               *)

\* An answer that ends the loop: a success, a failure, a generic 429.
Answer(r) ==
  /\ req[r].pc = "send"
  /\ req' = [req EXCEPT ![r] = Ended]
  /\ UNCHANGED <<registry, route, tokens, edit, clock, count>>

MayRefresh(r) == req[r].creds \notin req[r].refreshed

\* A 401: one refresh of the same profile for a request that may be replayed.
Unauthorized(r) ==
  /\ req[r].pc = "send"
  /\ \E safe \in BOOLEAN : req' = [req EXCEPT ![r] =
       IF ~safe \/ ~MayRefresh(r) \/ @.creds \notin registry.ids THEN Ended
       ELSE [@ EXCEPT !.pc = "wait", !.want = req[r].creds, !.why = "retry"]]
  /\ UNCHANGED <<registry, route, tokens, edit, clock, count>>

\* A 429 usage_limit_reached; until 0 stands for no reset time.
Limited(r) ==
  /\ req[r].pc = "send"
  /\ \E until \in 0..MaxClock : req' = [req EXCEPT ![r] =
       IF @.pin THEN Ended
       ELSE [@ EXCEPT !.pc = "route", !.until = until]]
  /\ UNCHANGED <<registry, route, tokens, edit, clock, count>>

-----------------------------------------------------------------------------
(* Failover                                                                *)

\* The suppressions once r's profile is one of them.
Suppressed(r) ==
  [p \in Profiles |->
     IF p = req[r].creds
       THEN IF req[r].until > clock THEN req[r].until ELSE clock + Hour
       ELSE IF exhausted[p] > clock THEN exhausted[p] ELSE 0]

\* The registered profiles are tried from the one after p on; the first of all is
\* taken for p if p is not registered any more.
Start(p, ids) == IF p \in ids THEN {p} ELSE First(ids)

\* The next of those left to try, when the round has started at p.
NextAfter(p, left) ==
  LET later == {q \in left : q > p} IN First(IF later = {} THEN left ELSE later)

StickToActiveNever(a, until) == FALSE

\* Somebody else has moved the active profile already.
StickToActive(a, until) == a # None /\ until[a] = 0

RouteMuFree == routeMu = None

\* The limit is noted, whatever comes of it: the registry may be unreadable.
Failover(r) ==
  LET until == Suppressed(r)
      a == registry.active
      candidates == {p \in registry.ids \ Start(req[r].creds, registry.ids) : until[p] = 0}
      q == [req[r] EXCEPT !.copy = registry, !.until = 0,
                          !.left = candidates]
  IN /\ req[r].pc = "route" /\ RouteMuFree
     /\ exhausted' = until
     /\ \/ /\ routeMu' = r
           /\ req' = [req EXCEPT ![r] =
                IF StickToActive(a, until)
                  THEN [q EXCEPT !.pc = "lookup", !.want = a, !.why = "active"]
                  ELSE [q EXCEPT !.pc = "pick"]]
           /\ UNCHANGED count
        \/ /\ Failure
           /\ req' = [req EXCEPT ![r] = Ended]
           /\ UNCHANGED routeMu
     /\ UNCHANGED <<registry, tokens, edit, clock>>

\* The next candidate, or nothing is left and the client gets the 429.
Pick(r) ==
  /\ req[r].pc = "pick"
  /\ \/ /\ req[r].left = {}
        /\ req' = [req EXCEPT ![r] = Ended] /\ Free(r)
     \/ /\ \E start \in Start(req[r].creds, req[r].copy.ids) :
           \E p \in NextAfter(start, req[r].left) :
             req' = [req EXCEPT ![r].pc = "lookup", ![r].why = "candidate",
                                ![r].want = p, ![r].left = @ \ {p}]
        /\ UNCHANGED routeMu
  /\ UNCHANGED <<registry, exhausted, tokens, edit, clock, count>>

-----------------------------------------------------------------------------
(* Editors, tokens and time                                                *)

\* registerNewProfile, removeNewProfile, auth use, auth add: the registry is read,
EditLoad(e) ==
  /\ edit[e].pc = "idle" /\ Undisturbed
  /\ edit' = [edit EXCEPT ![e] = [pc |-> "loaded", copy |-> registry]]
  /\ UNCHANGED <<registry, route, tokens, req, clock, count>>

Added(reg, p) ==
  [ids |-> reg.ids \cup {p}, active |-> IF reg.active = None THEN p ELSE reg.active]

\* The first profile left, in the order of registration, takes over.
Removals(reg, p) ==
  {[ids |-> reg.ids \ {p}, active |-> q] :
     q \in CASE reg.active # p -> {reg.active}
            [] reg.active = p /\ reg.ids = {p} -> {None}
            [] OTHER -> reg.ids \ {p}}

\* and written back with one change, or none to the Codex profiles.
EditSave(e) ==
  LET copy == edit[e].copy IN
  /\ edit[e].pc = "loaded"
  /\ \/ registry' = copy
     \/ \E p \in copy.ids : registry' = [copy EXCEPT !.active = p]
     \/ \E p \in Profiles \ copy.ids : registry' = Added(copy, p)
     \/ \E p \in copy.ids : registry' \in Removals(copy, p)
  /\ edit' = [edit EXCEPT ![e] = [pc |-> "done", copy |-> NoRegistry]]
  /\ UNCHANGED <<route, tokens, req, clock, count>>

\* An access token comes within five minutes of its end.
Expire(p) ==
  /\ auth[p] # None /\ ~auth[p].expiring /\ count.expiry < MaxExpiries
  /\ Undisturbed
  /\ auth' = [auth EXCEPT ![p].expiring = TRUE]
  /\ count' = [count EXCEPT !.expiry = @ + 1]
  /\ UNCHANGED <<registry, route, wlock, broken, authority, req, edit, clock>>

Tick ==
  /\ clock < MaxClock /\ Undisturbed
  /\ clock' = clock + 1
  /\ UNCHANGED <<registry, route, tokens, req, edit, count>>

-----------------------------------------------------------------------------
\* What the goroutine of a request does.
Step(r) ==
  \/ Lookup(r) \/ TakeLock(r) \/ SeeStale(r) \/ BreakLock(r) \/ GiveUpLock(r)
  \/ Refresh(r) \/ Refreshed(r)
  \/ Answer(r) \/ Unauthorized(r) \/ Limited(r) \/ Failover(r) \/ Pick(r)

Next ==
  \/ \E r \in Requests : Arrive(r) \/ Step(r)
  \/ \E e \in Editors : EditLoad(e) \/ EditSave(e)
  \/ \E p \in Profiles : Expire(p)
  \/ Tick

Spec == Init /\ [][Next]_vars

\* The upstream and the authority answer or time out, and one of the goroutines
\* that can run does.
FairSpec == Spec /\ WF_vars(\E r \in Requests : Step(r))

-----------------------------------------------------------------------------
(* Properties                                                              *)

\* Rotation is bounded: a request is sent with each profile at most once, and once
\* more after a refresh, however often suppressions expire and whoever moves the
\* active profile meanwhile; a pinned one is sent with its profile only
\* (gateway.go:368-439).
AttemptsBounded ==
  \A r \in Requests :
    /\ \A p \in Profiles :
         /\ req[r].sent[p] > 0 => p \in req[r].attempted
         /\ req[r].sent[p] <= IF p \in req[r].refreshed THEN 2 ELSE 1
    /\ req[r].pin => req[r].attempted \subseteq {req[r].creds}

\* Two requests write the same auth.json at once only if a stale lock was removed
\* twice, by two waiters that had both seen it: the second removes the lock of the
\* one that was faster (lock.go:16-20, lock.go:39-41).
WritersSerialized ==
  \A r, s \in Requests, p \in Profiles :
    r # s /\ Writes(r, p) /\ Writes(s, p) => broken[p] >= 2

\* Concurrent requests never present a refresh token the authority has replaced,
\* which would cost the profile its login, until something fails (an answer of the
\* authority is lost) or a lock is removed twice (broker.go:117-166).
RefreshSingleUse ==
  \A r \in Requests :
    LET p == req[r].want IN
    /\ req[r].pc = "refresh" /\ MustRefresh(r)
    /\ count.failure = 0 /\ broken[p] < 2
    => req[r].doc = authority[p]

\* Only a confirmed usage limit makes failover abandon the active profile, whatever
\* late 429s of other profiles arrive (README.md:269, broker.go:195-233).
RotatesOnlyOnLimit ==
  [][Editors = {} /\ registry'.active # registry.active
       => exhausted[registry.active] # 0]_vars

\* That much is so until something fails (a refresh, or the registry's load or save), a
\* lock is removed twice or somebody else rewrites the registry.
LeavesOnlyLimited ==
  [][ /\ count.failure = 0 /\ \A p \in Profiles : broken[p] < 2
      /\ \A e \in Editors : edit[e].pc = "idle"
      /\ registry'.active # registry.active
      => exhausted[registry.active] # 0]_vars

\* Registering a profile does not change the selected one
\* (docs/admin-account-management.md:122, service.go:424-436).
RegistrationKeepsActive ==
  [][\A e \in Editors :
       /\ edit[e].pc = "loaded" /\ edit'[e].pc = "done"
       /\ registry'.ids \ edit[e].copy.ids # {} /\ registry.active # None
       => registry'.active = registry.active]_vars

\* Every request comes to an end, and sooner or later all that have arrived have:
\* neither the routing mutex nor a write lock is kept, not even by a dead process,
\* and rotation stops (README.md:269, lock.go:39).
RequestEnds == []<>(\A r \in Requests : req[r].pc \in {"idle", "done"})
=============================================================================
