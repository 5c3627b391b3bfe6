------------------------- MODULE CodexGatewayProofs -------------------------
(***************************************************************************)
(* Theorems about CodexGateway for any requests, profiles and editors, and *)
(* any number of expiries, failures and ticks.                             *)
(***************************************************************************)
EXTENDS CodexGateway, TLAPS

Asking == {"lookup", "wait", "break", "refresh"}
Failing == {"active", "candidate"}

-----------------------------------------------------------------------------
(* The inductive invariant, part by part                                   *)

\* What a request knows about its own attempts: where it asks for credentials it is
\* with a profile that it may still be sent with, once.
AttemptsOf(q) ==
  /\ \A p \in Profiles :
       /\ q.sent[p] > 0 => p \in q.attempted
       /\ q.sent[p] <= IF p \in q.refreshed THEN 2 ELSE 1
  /\ q.pin => q.attempted \subseteq {q.creds} /\ q.why \notin Failing
  /\ q.pc = "idle" => q = NoRequest
  /\ q.pc \in Asking =>
       /\ q.want \in Profiles
       /\ q.why = "start" => q.attempted = {}
       /\ q.why = "retry" => q.want = q.creds /\ q.creds \notin q.refreshed
       /\ q.why # "start" => q.creds \in Profiles
  /\ q.pc \in {"send", "route", "pick"} => q.creds \in Profiles
  /\ q.pc \in {"route", "pick"} => ~q.pin

AttemptsInv == \A r \in Requests : AttemptsOf(req[r])

Breaks(r, p) == req[r].pc = "break" /\ req[r].want = p

\* The write lock of p is its writer's until it has been broken twice, and while it
\* has never been, whoever is about to break it is right.
LockInv ==
  \A p \in Profiles, r \in Requests :
    /\ broken[p] < 2 /\ Writes(r, p) => wlock[p] = r
    /\ broken[p] = 0 /\ Breaks(r, p) => wlock[p] = Dead

\* No answer was lost and no lock broken under its holder.
Calm(p) == count.failure = 0 /\ broken[p] < 2

\* auth.json is there while somebody relies on it, holds the newest token, and its
\* writer has read that one.
TokenInv ==
  /\ \A r \in Requests :
       /\ req[r].pc \in {"wait", "break", "refresh"} => auth[req[r].want] # None
       /\ req[r].creds # None => auth[req[r].creds] # None
  /\ \A p \in Profiles : Calm(p) =>
       /\ auth[p] # None => auth[p].token = authority[p]
       /\ \A r \in Requests : Writes(r, p) => req[r].doc = authority[p]

NoEditor == \A e \in Editors : edit[e].pc = "idle"

Asks(r, why) == req[r].pc \in Asking /\ req[r].why = why

\* While nobody else writes the registry, failover has what is in it; once it looks
\* for a candidate the active profile is suppressed.
RouteOf(r) ==
  /\ ~req[r].pin /\ req[r].pc \notin {"idle", "done"} => HasLogin(registry.active)
  /\ Routing(r) => req[r].copy = registry /\ req[r].left \subseteq registry.ids
  /\ Asks(r, "active") => req[r].want = registry.active
  /\ Asks(r, "candidate") => req[r].want \in registry.ids
  /\ (req[r].pc = "pick" \/ Asks(r, "candidate")) /\ (\A p \in Profiles : Calm(p))
       => exhausted[registry.active] # 0

RouteInv ==
  NoEditor =>
    /\ registry.active \in registry.ids \cup {None}
    /\ \A r \in Requests : RouteOf(r)

Inv == TypeOK /\ AttemptsInv /\ LockInv /\ TokenInv /\ RouteInv

-----------------------------------------------------------------------------
(* Where a step leaves its request                                         *)

\* Only r moves, and what it knows of its attempts stays right.
Moves(r) ==
  /\ req' \in [Requests -> Request]
  /\ AttemptsOf(req'[r])
  /\ \A s \in Requests \ {r} : req'[s] = req[s]

LEMMA MovesTo ==
  ASSUME TypeOK, NEW r \in Requests, NEW q \in Request,
         req' = [req EXCEPT ![r] = q], AttemptsOf(q)
  PROVE  Moves(r) /\ req'[r] = q
BY DEF TypeOK, Moves

LEMMA NothingYet == NoRequest \in Request /\ AttemptsOf(NoRequest)
<1>1. NoRegistry \in Registry
  BY DEF NoRegistry, Registry
<1>2. NoRequest \in Request
  BY <1>1, GatewayAssumption DEF NoRequest, Request, Until
<1>. QED BY <1>2 DEF AttemptsOf, NoRequest, Asking, Failing

\* An answer ends a request, and asks for nothing more.
LEMMA EndedMoves ==
  ASSUME TypeOK, NEW r \in Requests, req' = [req EXCEPT ![r] = Ended]
  PROVE  Moves(r) /\ req'[r].pc = "done" /\ req'[r].creds = None
<1>1. Ended \in Request
  BY NothingYet DEF Ended, Request
<1>2. Ended.pc = "done" /\ Ended.creds = None
  BY DEF Ended, NoRequest
<1>3. AttemptsOf(Ended)
  BY NothingYet DEF Ended, NoRequest, AttemptsOf, Asking, Failing
<1>. QED BY <1>1, <1>2, <1>3, MovesTo

LEMMA SendingFields ==
  ASSUME NEW q \in Request, q.want \in Profiles
  PROVE  /\ Sending(q) \in Request
         /\ Sending(q).pc = "send" /\ Sending(q).why = "start"
         /\ Sending(q).creds = q.want /\ Sending(q).pin = q.pin
         /\ Sending(q).attempted = q.attempted \cup {q.want}
         /\ Sending(q).refreshed = q.refreshed
         /\ Sending(q).sent = [q.sent EXCEPT ![q.want] = @ + 1]
<1>. DEFINE m == Settled(q, "send")
<1>1. NoRegistry \in Registry
  BY DEF NoRegistry, Registry
<1>2. /\ m \in Request /\ m.pc = "send" /\ m.why = "start" /\ m.pin = q.pin
      /\ m.attempted = q.attempted /\ m.refreshed = q.refreshed /\ m.sent = q.sent
  <2>1. 0 \in Until
    BY GatewayAssumption DEF Until
  <2>2. m \in Request
    BY <1>1, <2>1 DEF Settled, Request
  <2>. QED BY <2>2 DEF Settled, Request
<1>. DEFINE counted == [q.sent EXCEPT ![q.want] = @ + 1]
<1>. HIDE DEF m
<1>3. Sending(q) = [m EXCEPT !.creds = q.want, !.attempted = @ \cup {q.want},
                             !.sent = counted]
  BY <1>2 DEF Sending, m, Request
<1>4. counted \in [Profiles -> Nat]
  BY DEF Request
<1>. HIDE DEF counted
<1>5. Sending(q) \in Request
  <2>. DEFINE tried == m.attempted \cup {q.want}
  <2>1. tried \in SUBSET Profiles
    BY <1>2 DEF Request
  <2>2. Sending(q) = [m EXCEPT !.creds = q.want, !.attempted = tried,
                               !.sent = counted]
    BY <1>2, <1>3 DEF Request
  <2>. HIDE DEF tried
  <2>. QED BY <1>2, <2>1, <2>2, <1>4 DEF Request
<1>6. /\ Sending(q).creds = q.want
      /\ Sending(q).attempted = q.attempted \cup {q.want}
      /\ Sending(q).sent = counted
      /\ Sending(q).pin = m.pin /\ Sending(q).pc = m.pc /\ Sending(q).why = m.why
      /\ Sending(q).refreshed = m.refreshed
  BY <1>2, <1>3 DEF Request
<1>. QED BY <1>2, <1>5, <1>6 DEF counted

\* A request that may still be sent with the profile it wants is, and no more.
LEMMA SendingCounts ==
  ASSUME NEW q \in Request, AttemptsOf(q), q.pc \in Asking,
         q.why = "start" \/ (q.why \in Failing /\ q.want \notin q.attempted)
  PROVE  /\ Sending(q) \in Request /\ AttemptsOf(Sending(q))
         /\ Sending(q).pc = "send" /\ Sending(q).creds = q.want
         /\ Sending(q).pin = q.pin
<1>. DEFINE n == Sending(q)
<1>1. q.want \in Profiles /\ q.sent[q.want] = 0
  BY DEF AttemptsOf, Request, Asking
<1>2. n \in Request
  BY <1>1, SendingFields
<1>3. /\ n.pc = "send" /\ n.creds = q.want /\ n.pin = q.pin /\ n.why = "start"
      /\ n.attempted = q.attempted \cup {q.want} /\ n.refreshed = q.refreshed
      /\ n.sent = [q.sent EXCEPT ![q.want] = @ + 1]
  BY <1>1, SendingFields
<1>. HIDE DEF n
<1>4. \A p \in Profiles :
        /\ n.sent[p] > 0 => p \in n.attempted
        /\ n.sent[p] <= IF p \in n.refreshed THEN 2 ELSE 1
  BY <1>1, <1>3 DEF AttemptsOf, Request
<1>5. n.pin => n.attempted \subseteq {n.creds} /\ n.why \notin Failing
  BY <1>3 DEF AttemptsOf, Failing
<1>6. AttemptsOf(n)
  BY <1>1, <1>3, <1>4, <1>5 DEF AttemptsOf, Asking
<1>. QED BY <1>2, <1>3, <1>6 DEF n

\* After a refresh it is sent with the same profile a second time, the last.
LEMMA RetryCounts ==
  ASSUME NEW q \in Request, AttemptsOf(q), q.pc \in Asking, q.why = "retry",
         NEW n, n = [Sending(q) EXCEPT !.refreshed = @ \cup {q.want}]
  PROVE  /\ n \in Request /\ AttemptsOf(n)
         /\ n.pc = "send" /\ n.creds = q.want /\ n.pin = q.pin
<1>1. q.want \in Profiles /\ q.want = q.creds /\ q.want \notin q.refreshed
  BY DEF AttemptsOf
<1>2. q.sent[q.want] <= 1
  BY <1>1 DEF AttemptsOf
<1>3. n \in Request
  <2>. DEFINE m == Sending(q)
  <2>1. m \in Request /\ n = [m EXCEPT !.refreshed = m.refreshed \cup {q.want}]
    BY <1>1, SendingFields
  <2>. DEFINE asked == m.refreshed \cup {q.want}
  <2>2. asked \in SUBSET Profiles
    BY <1>1, <2>1 DEF Request
  <2>. HIDE DEF m, asked
  <2>3. n = [m EXCEPT !.refreshed = asked]
    BY <2>1 DEF asked
  <2>. QED BY <2>1, <2>2, <2>3 DEF Request
<1>4. /\ n.pc = "send" /\ n.creds = q.want /\ n.pin = q.pin /\ n.why = "start"
      /\ n.attempted = q.attempted \cup {q.want}
      /\ n.refreshed = q.refreshed \cup {q.want}
      /\ n.sent = [q.sent EXCEPT ![q.want] = @ + 1]
  <2>. DEFINE m == Sending(q)
  <2>1. /\ m \in Request /\ m.pc = "send" /\ m.why = "start"
        /\ m.creds = q.want /\ m.pin = q.pin
        /\ m.attempted = q.attempted \cup {q.want} /\ m.refreshed = q.refreshed
        /\ m.sent = [q.sent EXCEPT ![q.want] = @ + 1]
    BY <1>1, SendingFields
  <2>2. n = [m EXCEPT !.refreshed = @ \cup {q.want}]
    OBVIOUS
  <2>. HIDE DEF m
  <2>. QED BY <2>1, <2>2 DEF Request
<1>5. \A p \in Profiles :
        /\ n.sent[p] > 0 => p \in n.attempted
        /\ n.sent[p] <= IF p \in n.refreshed THEN 2 ELSE 1
  BY <1>1, <1>2, <1>4 DEF AttemptsOf, Request
<1>6. n.pin => n.attempted \subseteq {n.creds} /\ n.why \notin Failing
  BY <1>1, <1>4 DEF AttemptsOf, Failing
<1>7. AttemptsOf(n)
  BY <1>1, <1>4, <1>5, <1>6 DEF AttemptsOf, Asking
<1>. QED BY <1>3, <1>4, <1>7

\* What a request keeps through a step.
Carries(r) ==
  /\ req'[r].pin = req[r].pin /\ req'[r].creds = req[r].creds
  /\ req'[r].copy = req[r].copy /\ req'[r].left = req[r].left

LEMMA ObtainedMoves ==
  ASSUME TypeOK, AttemptsInv, NEW r \in Requests, req[r].pc \in Asking, Obtained(r)
  PROVE  /\ Moves(r) /\ req'[r].pc \in {"send", "done"}
         /\ req'[r].creds \in {None, req[r].want}
         /\ req'[r].pc = "send" => req'[r].pin = req[r].pin
<1>. DEFINE q == req[r]
<1>1. q \in Request /\ AttemptsOf(q) /\ q.pc \in Asking
  BY DEF TypeOK, AttemptsInv
<1>. HIDE DEF q
<1>2. CASE req' = [req EXCEPT ![r] = Ended]
  BY <1>2, EndedMoves DEF q
<1>3. CASE /\ q.why = "start" \/ (q.why \in Failing /\ q.want \notin q.attempted)
           /\ req' = [req EXCEPT ![r] = Sending(q)]
  <2>1. /\ Sending(q) \in Request /\ AttemptsOf(Sending(q))
        /\ Sending(q).pc = "send" /\ Sending(q).creds = q.want
        /\ Sending(q).pin = q.pin
    BY <1>1, <1>3, SendingCounts
  <2>2. Moves(r) /\ req'[r] = Sending(q)
    BY <1>3, <2>1, MovesTo
  <2>. QED BY <2>1, <2>2 DEF q
<1>4. CASE /\ q.why = "retry"
           /\ req' = [req EXCEPT ![r] = [Sending(q) EXCEPT !.refreshed = @ \cup {q.want}]]
  <2>. DEFINE n == [Sending(q) EXCEPT !.refreshed = @ \cup {q.want}]
  <2>1. /\ n \in Request /\ AttemptsOf(n)
        /\ n.pc = "send" /\ n.creds = q.want /\ n.pin = q.pin
    BY <1>1, <1>4, RetryCounts
  <2>. HIDE DEF n
  <2>2. Moves(r) /\ req'[r] = n
    BY <1>4, <2>1, MovesTo DEF n
  <2>. QED BY <2>1, <2>2 DEF q
<1>5. q.why \in {"start", "retry"} \cup Failing
  BY <1>1 DEF Request, Failing
<1>6. Unsaved(r) => req' = [req EXCEPT ![r] = Ended]
  BY DEF Unsaved
<1>7. Taken(r) =>
        /\ q.why = "start" => req' = [req EXCEPT ![r] = Sending(q)]
        /\ q.why = "retry" =>
             req' = [req EXCEPT ![r] = [Sending(q) EXCEPT !.refreshed = @ \cup {q.want}]]
        /\ q.why \in Failing => req' = [req EXCEPT ![r] = Fallback(q)]
  BY DEF Taken, q, Failing
<1>. QED BY <1>2, <1>3, <1>4, <1>5, <1>6, <1>7 DEF Fallback, Obtained

LEMMA RefusedMoves ==
  ASSUME TypeOK, AttemptsInv, NEW r \in Requests, req[r].pc \in Asking, Refused(r)
  PROVE  /\ Moves(r)
         /\ \/ req[r].why \notin Failing /\ req'[r].pc = "done" /\ req'[r].creds = None
            \/ req[r].why \in Failing /\ req'[r].pc = "pick" /\ Carries(r)
<1>. DEFINE n == [req[r] EXCEPT !.pc = "pick", !.want = None, !.why = "start", !.doc = 0]
<1>1. req[r] \in Request /\ AttemptsOf(req[r])
  BY DEF TypeOK, AttemptsInv
<1>2. CASE req[r].why \in {"start", "retry"}
  <2>1. req' = [req EXCEPT ![r] = Ended]
    BY <1>2 DEF Refused
  <2>. QED BY <1>2, <2>1, EndedMoves DEF Failing
<1>3. CASE req[r].why \in Failing
  <2>1. req' = [req EXCEPT ![r] = n]
    BY <1>3 DEF Refused, Failing
  <2>2. n \in Request
    BY <1>1 DEF Request
  <2>3. /\ n.pc = "pick" /\ n.why = "start" /\ n.pin = req[r].pin
        /\ n.creds = req[r].creds /\ n.copy = req[r].copy /\ n.left = req[r].left
        /\ n.sent = req[r].sent /\ n.attempted = req[r].attempted
        /\ n.refreshed = req[r].refreshed
    BY <1>1 DEF Request
  <2>. HIDE DEF n
  <2>4. AttemptsOf(n)
    BY <1>1, <1>3, <2>3 DEF AttemptsOf, Failing, Asking
  <2>5. Moves(r) /\ req'[r] = n
    BY <2>1, <2>2, <2>4, MovesTo
  <2>. QED BY <1>3, <2>3, <2>5 DEF Carries
<1>. QED BY <1>1, <1>2, <1>3 DEF Request, Failing

\* A request that goes on asking.
LEMMA AskingMoves ==
  ASSUME TypeOK, AttemptsInv, NEW r \in Requests, req[r].pc \in Asking,
         NEW pc \in Asking, NEW doc \in Nat,
         req' = [req EXCEPT ![r] = [req[r] EXCEPT !.pc = pc, !.doc = doc]]
  PROVE  /\ Moves(r) /\ Carries(r) /\ req'[r].pc = pc /\ req'[r].doc = doc
         /\ req'[r].want = req[r].want /\ req'[r].why = req[r].why
<1>. DEFINE n == [req[r] EXCEPT !.pc = pc, !.doc = doc]
<1>1. req[r] \in Request /\ AttemptsOf(req[r])
  BY DEF TypeOK, AttemptsInv
<1>2. n \in Request
  BY <1>1 DEF Request, Asking
<1>3. /\ n.pc = pc /\ n.doc = doc /\ n.why = req[r].why /\ n.pin = req[r].pin
      /\ n.creds = req[r].creds /\ n.copy = req[r].copy /\ n.left = req[r].left
      /\ n.sent = req[r].sent /\ n.attempted = req[r].attempted
      /\ n.refreshed = req[r].refreshed /\ n.want = req[r].want
  BY <1>1 DEF Request
<1>. HIDE DEF n
<1>4. AttemptsOf(n)
  BY <1>1, <1>3 DEF AttemptsOf, Failing, Asking
<1>5. Moves(r) /\ req'[r] = n
  BY <1>2, <1>4, MovesTo DEF n
<1>. QED BY <1>3, <1>5 DEF Carries

LEMMA ArriveMoves ==
  ASSUME TypeOK, AttemptsInv, NEW r \in Requests, Arrive(r)
  PROVE  /\ Moves(r) /\ req[r].pc = "idle" /\ req'[r].creds = None
         /\ \/ req'[r].pc = "done"
            \/ /\ req'[r].pc = "lookup" /\ req'[r].why = "start"
               /\ ~req'[r].pin => registry.active # None /\ auth[registry.active] # None
<1>1. req[r] = NoRequest
  BY DEF Arrive, AttemptsInv, AttemptsOf
<1>2. PICK p \in Profiles \cup {None}, pin \in BOOLEAN :
        /\ ~pin => p = registry.active
        /\ req' = [req EXCEPT ![r] =
             IF p = None \/ (~pin /\ auth[p] = None) THEN Ended
             ELSE [@ EXCEPT !.pc = "lookup", !.pin = pin, !.want = p, !.why = "start"]]
  BY DEF Arrive
<1>3. CASE p = None \/ (~pin /\ auth[p] = None)
  <2>1. req' = [req EXCEPT ![r] = Ended]
    BY <1>2, <1>3
  <2>. QED BY <2>1, EndedMoves DEF Arrive
<1>4. CASE ~(p = None \/ (~pin /\ auth[p] = None))
  <2>. DEFINE n == [NoRequest EXCEPT !.pc = "lookup", !.pin = pin, !.want = p,
                                     !.why = "start"]
  <2>1. req' = [req EXCEPT ![r] = n]
    BY <1>1, <1>2, <1>4 DEF TypeOK
  <2>2. n \in Request
    BY <1>4, NothingYet DEF Request
  <2>3. /\ n.pc = "lookup" /\ n.pin = pin /\ n.want = p /\ n.why = "start"
        /\ n.creds = None /\ n.attempted = {} /\ n.refreshed = {}
        /\ n.sent = [x \in Profiles |-> 0]
    BY DEF NoRequest
  <2>. HIDE DEF n
  <2>4. AttemptsOf(n)
    BY <1>4, <2>3 DEF AttemptsOf, Asking, Failing
  <2>5. Moves(r) /\ req'[r] = n
    BY <2>1, <2>2, <2>4, MovesTo
  <2>. QED BY <1>2, <1>4, <2>3, <2>5 DEF Arrive
<1>. QED BY <1>3, <1>4

LEMMA UnauthorizedMoves ==
  ASSUME TypeOK, AttemptsInv, NEW r \in Requests, Unauthorized(r)
  PROVE  /\ Moves(r) /\ req[r].pc = "send"
         /\ \/ req'[r].pc = "done" /\ req'[r].creds = None
            \/ /\ req'[r].pc = "wait" /\ req'[r].why = "retry" /\ Carries(r)
               /\ req'[r].want = req[r].creds
<1>1. req[r] \in Request /\ AttemptsOf(req[r]) /\ req[r].pc = "send"
  BY DEF TypeOK, AttemptsInv, Unauthorized
<1>2. \/ req' = [req EXCEPT ![r] = Ended]
      \/ /\ MayRefresh(r)
         /\ req' = [req EXCEPT ![r] =
              [req[r] EXCEPT !.pc = "wait", !.want = req[r].creds, !.why = "retry"]]
  BY DEF Unauthorized, TypeOK
<1>3. CASE req' = [req EXCEPT ![r] = Ended]
  BY <1>1, <1>3, EndedMoves
<1>4. CASE /\ MayRefresh(r)
           /\ req' = [req EXCEPT ![r] =
                [req[r] EXCEPT !.pc = "wait", !.want = req[r].creds, !.why = "retry"]]
  <2>. DEFINE n == [req[r] EXCEPT !.pc = "wait", !.want = req[r].creds, !.why = "retry"]
  <2>1. n \in Request
    BY <1>1 DEF Request
  <2>2. /\ n.pc = "wait" /\ n.why = "retry" /\ n.want = req[r].creds
        /\ n.creds = req[r].creds /\ n.copy = req[r].copy /\ n.left = req[r].left
        /\ n.pin = req[r].pin /\ n.sent = req[r].sent
        /\ n.attempted = req[r].attempted /\ n.refreshed = req[r].refreshed
    BY <1>1 DEF Request
  <2>3. req' = [req EXCEPT ![r] = n]
    BY <1>4
  <2>. HIDE DEF n
  <2>4. AttemptsOf(n)
    BY <1>1, <1>4, <2>2 DEF AttemptsOf, Asking, Failing, MayRefresh
  <2>5. Moves(r) /\ req'[r] = n
    BY <2>1, <2>3, <2>4, MovesTo
  <2>. QED BY <1>1, <2>2, <2>5 DEF Carries
<1>. QED BY <1>2, <1>3, <1>4

LEMMA LimitedMoves ==
  ASSUME TypeOK, AttemptsInv, NEW r \in Requests, Limited(r)
  PROVE  /\ Moves(r) /\ req[r].pc = "send"
         /\ \/ req'[r].pc = "done" /\ req'[r].creds = None
            \/ req'[r].pc = "route" /\ Carries(r)
<1>1. req[r] \in Request /\ AttemptsOf(req[r]) /\ req[r].pc = "send"
  BY DEF TypeOK, AttemptsInv, Limited
<1>2. PICK until \in 0..MaxClock : req' = [req EXCEPT ![r] =
        IF @.pin THEN Ended ELSE [@ EXCEPT !.pc = "route", !.until = until]]
  BY DEF Limited
<1>3. CASE req[r].pin
  <2>1. req' = [req EXCEPT ![r] = Ended]
    BY <1>2, <1>3 DEF TypeOK
  <2>. QED BY <1>1, <2>1, EndedMoves
<1>4. CASE ~req[r].pin
  <2>. DEFINE n == [req[r] EXCEPT !.pc = "route", !.until = until]
  <2>1. until \in Until
    BY GatewayAssumption DEF Until
  <2>2. n \in Request
    BY <1>1, <2>1 DEF Request
  <2>3. /\ n.pc = "route" /\ n.why = req[r].why /\ n.creds = req[r].creds
        /\ n.copy = req[r].copy /\ n.left = req[r].left
        /\ n.pin = req[r].pin /\ n.sent = req[r].sent
        /\ n.attempted = req[r].attempted /\ n.refreshed = req[r].refreshed
    BY <1>1 DEF Request
  <2>4. req' = [req EXCEPT ![r] = n]
    BY <1>2, <1>4 DEF TypeOK
  <2>. HIDE DEF n
  <2>5. AttemptsOf(n)
    BY <1>1, <1>4, <2>3 DEF AttemptsOf, Asking, Failing
  <2>6. Moves(r) /\ req'[r] = n
    BY <2>2, <2>4, <2>5, MovesTo
  <2>. QED BY <1>1, <2>3, <2>6 DEF Carries
<1>. QED BY <1>3, <1>4

\* A round over the profiles that r has not ruled out.
RoundBegins(r) ==
  /\ req'[r].pin = req[r].pin /\ req'[r].creds = req[r].creds
  /\ req'[r].copy = registry /\ req'[r].left \subseteq registry.ids
  /\ routeMu' = r /\ UNCHANGED count
  /\ \/ /\ req'[r].pc = "lookup" /\ req'[r].why = "active"
        /\ req'[r].want = registry.active
     \/ /\ req'[r].pc = "pick"
        /\ registry.active # None => exhausted'[registry.active] # 0

LEMMA FailoverMoves ==
  ASSUME TypeOK, AttemptsInv, NEW r \in Requests, Failover(r)
  PROVE  /\ Moves(r) /\ req[r].pc = "route" /\ ~req[r].pin
         /\ exhausted' = Suppressed(r)
         /\ \/ /\ req'[r].pc = "done" /\ req'[r].creds = None
               /\ Failure /\ routeMu' = routeMu
            \/ RoundBegins(r)
<1>. DEFINE left == {p \in registry.ids \ Start(req[r].creds, registry.ids) :
                       Suppressed(r)[p] = 0}
            q == [req[r] EXCEPT !.copy = registry, !.until = 0, !.left = left]
<1>1. /\ req[r] \in Request /\ AttemptsOf(req[r]) /\ req[r].pc = "route"
      /\ registry \in Registry
  BY DEF TypeOK, AttemptsInv, Failover
<1>2. ASSUME Failure, routeMu' = routeMu, req' = [req EXCEPT ![r] = Ended]
      PROVE  /\ Moves(r) /\ req'[r].pc = "done" /\ req'[r].creds = None
             /\ ~req[r].pin /\ exhausted' = Suppressed(r)
  BY <1>1, <1>2, EndedMoves DEF Failover, AttemptsOf
<1>. SUFFICES ASSUME routeMu' = r, UNCHANGED count,
                     req' = [req EXCEPT ![r] =
                       IF StickToActive(registry.active, Suppressed(r))
                         THEN [q EXCEPT !.pc = "lookup", !.want = registry.active,
                                        !.why = "active"]
                         ELSE [q EXCEPT !.pc = "pick"]]
              PROVE  /\ Moves(r) /\ ~req[r].pin /\ exhausted' = Suppressed(r)
                     /\ RoundBegins(r)
  BY <1>1, <1>2 DEF Failover
<1>3. /\ exhausted' = Suppressed(r)
      /\ req' = [req EXCEPT ![r] =
           IF StickToActive(registry.active, Suppressed(r))
             THEN [q EXCEPT !.pc = "lookup", !.want = registry.active, !.why = "active"]
             ELSE [q EXCEPT !.pc = "pick"]]
  BY DEF Failover
<1>4. left \subseteq registry.ids /\ left \subseteq Profiles
  BY <1>1 DEF Registry
<1>. HIDE DEF left
<1>5. q \in Request
  <2>1. 0 \in Until
    BY GatewayAssumption DEF Until
  <2>. QED BY <1>1, <1>4, <2>1 DEF Request
<1>6. /\ q.why = req[r].why /\ q.creds = req[r].creds /\ q.pin = req[r].pin
      /\ q.copy = registry /\ q.left = left /\ q.sent = req[r].sent
      /\ q.attempted = req[r].attempted /\ q.refreshed = req[r].refreshed
  BY <1>1 DEF Request
<1>. HIDE DEF q
<1>7. CASE StickToActive(registry.active, Suppressed(r))
  <2>. DEFINE n == [q EXCEPT !.pc = "lookup", !.want = registry.active, !.why = "active"]
  <2>0. registry.active \in Profiles
    BY <1>1, <1>7 DEF StickToActive, Registry
  <2>1. n \in Request
    BY <1>5, <2>0 DEF Request
  <2>2. /\ n.pc = "lookup" /\ n.why = "active" /\ n.want = registry.active
        /\ n.creds = q.creds /\ n.pin = q.pin /\ n.copy = q.copy /\ n.left = q.left
        /\ n.sent = q.sent /\ n.attempted = q.attempted /\ n.refreshed = q.refreshed
    BY <1>5 DEF Request
  <2>3. req' = [req EXCEPT ![r] = n]
    BY <1>3, <1>7
  <2>. HIDE DEF n
  <2>4. AttemptsOf(n)
    BY <1>1, <1>6, <2>0, <2>2 DEF AttemptsOf, Asking, Failing
  <2>5. Moves(r) /\ req'[r] = n
    BY <2>1, <2>3, <2>4, MovesTo
  <2>. QED BY <1>1, <1>3, <1>4, <1>6, <2>2, <2>5 DEF AttemptsOf, RoundBegins
<1>8. CASE ~StickToActive(registry.active, Suppressed(r))
  <2>. DEFINE n == [q EXCEPT !.pc = "pick"]
  <2>1. n \in Request
    BY <1>5 DEF Request
  <2>2. /\ n.pc = "pick" /\ n.why = q.why
        /\ n.creds = q.creds /\ n.pin = q.pin /\ n.copy = q.copy /\ n.left = q.left
        /\ n.sent = q.sent /\ n.attempted = q.attempted /\ n.refreshed = q.refreshed
    BY <1>5 DEF Request
  <2>3. req' = [req EXCEPT ![r] = n]
    BY <1>3, <1>8
  <2>. HIDE DEF n
  <2>4. AttemptsOf(n)
    BY <1>1, <1>6, <2>2 DEF AttemptsOf, Asking, Failing
  <2>5. Moves(r) /\ req'[r] = n
    BY <2>1, <2>3, <2>4, MovesTo
  <2>. QED BY <1>1, <1>3, <1>4, <1>6, <1>8, <2>2, <2>5 DEF AttemptsOf, StickToActive, RoundBegins
<1>. QED BY <1>7, <1>8

LEMMA PickMoves ==
  ASSUME TypeOK, AttemptsInv, NEW r \in Requests, Pick(r)
  PROVE  /\ Moves(r) /\ req[r].pc = "pick" /\ ~req[r].pin
         /\ \/ req'[r].pc = "done" /\ req'[r].creds = None /\ Free(r)
            \/ /\ req'[r].pc = "lookup" /\ req'[r].why = "candidate" /\ ~req'[r].pin
               /\ req'[r].creds = req[r].creds /\ req'[r].copy = req[r].copy
               /\ req'[r].want \in req[r].left /\ req'[r].left \subseteq req[r].left
               /\ routeMu' = routeMu
<1>1. /\ req[r] \in Request /\ AttemptsOf(req[r]) /\ req[r].pc = "pick" /\ ~req[r].pin
  BY DEF TypeOK, AttemptsInv, Pick, AttemptsOf
<1>2. CASE req' = [req EXCEPT ![r] = Ended] /\ Free(r)
  BY <1>1, <1>2, EndedMoves
<1>3. ASSUME NEW p \in req[r].left, routeMu' = routeMu,
             req' = [req EXCEPT ![r].pc = "lookup", ![r].why = "candidate",
                                ![r].want = p, ![r].left = @ \ {p}]
      PROVE  /\ Moves(r)
             /\ req'[r].pc = "lookup" /\ req'[r].why = "candidate" /\ ~req'[r].pin
             /\ req'[r].creds = req[r].creds /\ req'[r].copy = req[r].copy
             /\ req'[r].want \in req[r].left /\ req'[r].left \subseteq req[r].left
  <2>. DEFINE rest == req[r].left \ {p}
              n == [req[r] EXCEPT !.pc = "lookup", !.why = "candidate",
                                  !.want = p, !.left = rest]
  <2>1. req' = [req EXCEPT ![r] = n]
    BY <1>1, <1>3 DEF TypeOK, Request
  <2>2. rest \subseteq req[r].left /\ rest \in SUBSET Profiles /\ p \in Profiles
    BY <1>1 DEF Request
  <2>. HIDE DEF rest
  <2>3. n \in Request
    BY <1>1, <2>2 DEF Request
  <2>4. /\ n.pc = "lookup" /\ n.why = "candidate" /\ n.want = p /\ n.left = rest
        /\ n.creds = req[r].creds /\ n.pin = req[r].pin /\ n.copy = req[r].copy
        /\ n.sent = req[r].sent /\ n.attempted = req[r].attempted
        /\ n.refreshed = req[r].refreshed
    BY <1>1 DEF Request
  <2>. HIDE DEF n
  <2>5. AttemptsOf(n)
    BY <1>1, <2>2, <2>4 DEF AttemptsOf, Asking, Failing
  <2>6. Moves(r) /\ req'[r] = n
    BY <2>1, <2>3, <2>5, MovesTo
  <2>. QED BY <1>1, <2>2, <2>4, <2>6
<1>4. \/ req' = [req EXCEPT ![r] = Ended] /\ Free(r)
      \/ \E p \in req[r].left :
           /\ req' = [req EXCEPT ![r].pc = "lookup", ![r].why = "candidate",
                                 ![r].want = p, ![r].left = @ \ {p}]
           /\ routeMu' = routeMu
  BY DEF Pick, NextAfter, First
<1>. QED BY <1>1, <1>2, <1>3, <1>4

\* A request that goes on asking for the same credentials.
GoesOn(r, pc) ==
  /\ Moves(r) /\ Carries(r) /\ req'[r].pc = pc
  /\ req'[r].want = req[r].want /\ req'[r].why = req[r].why
  /\ UNCHANGED <<registry, routeMu>>

LEMMA LookupMoves ==
  ASSUME TypeOK, AttemptsInv, NEW r \in Requests, Lookup(r)
  PROVE  /\ req[r].pc = "lookup"
         /\ \/ ~HasLogin(req[r].want) /\ Refused(r) /\ UNCHANGED count
            \/ /\ HasLogin(req[r].want) /\ Obtained(r)
               /\ count' = count \/ Failure
            \/ HasLogin(req[r].want) /\ GoesOn(r, "wait") /\ UNCHANGED count
<1>. DEFINE p == req[r].want
<1>1. req[r].pc = "lookup" /\ p \in Profiles
  BY DEF Lookup, AttemptsInv, AttemptsOf, Asking
<1>2. \/ ~HasLogin(p) /\ Refused(r) /\ UNCHANGED count
      \/ HasLogin(p) /\ Obtained(r)
      \/ /\ HasLogin(p) /\ UNCHANGED <<registry, routeMu, count>>
         /\ req' = [req EXCEPT ![r].pc = "wait", ![r].doc = auth[p].token]
  BY DEF Lookup
<1>3. ASSUME HasLogin(p), UNCHANGED <<registry, routeMu>>,
             req' = [req EXCEPT ![r].pc = "wait", ![r].doc = auth[p].token]
      PROVE  GoesOn(r, "wait")
  <2>1. auth[p].token \in Nat
    BY <1>1, <1>3 DEF TypeOK, Auth, HasLogin
  <2>2. req' = [req EXCEPT ![r] = [req[r] EXCEPT !.pc = "wait", !.doc = auth[p].token]]
    BY <1>3 DEF TypeOK
  <2>. QED BY <1>1, <1>3, <2>1, <2>2, AskingMoves DEF GoesOn, Asking
<1>4. Obtained(r) => count' = count \/ Failure
  BY DEF Obtained, Taken, Unsaved
<1>. QED BY <1>1, <1>2, <1>3, <1>4

LEMMA TakeLockMoves ==
  ASSUME TypeOK, AttemptsInv, TokenInv, NEW r \in Requests, TakeLock(r)
  PROVE  /\ req[r].pc = "wait" /\ req[r].want \in Profiles /\ wlock[req[r].want] = None
         /\ GoesOn(r, "refresh") /\ req'[r].doc = auth[req[r].want].token
         /\ wlock' = [wlock EXCEPT ![req[r].want] = r]
         /\ UNCHANGED <<exhausted, broken, auth, authority, edit, clock, count>>
<1>1. req[r].pc = "wait" /\ req[r].want \in Profiles
  BY DEF TakeLock, AttemptsInv, AttemptsOf, Asking
<1>2. auth[req[r].want].token \in Nat
  BY <1>1 DEF TypeOK, Auth, TokenInv
<1>3. req' = [req EXCEPT ![r] = [req[r] EXCEPT !.pc = "refresh",
                                               !.doc = auth[req[r].want].token]]
  BY DEF TakeLock, TypeOK, DocUnderLock
<1>4. /\ Moves(r) /\ Carries(r) /\ req'[r].pc = "refresh"
      /\ req'[r].doc = auth[req[r].want].token
      /\ req'[r].want = req[r].want /\ req'[r].why = req[r].why
  BY <1>1, <1>2, <1>3, AskingMoves DEF Asking
<1>. QED BY <1>1, <1>4 DEF TakeLock, GoesOn, route

LEMMA PatientMoves ==
  ASSUME TypeOK, AttemptsInv, NEW r \in Requests, NEW pc \in Asking,
         req[r].pc \in Asking, req' = [req EXCEPT ![r].pc = pc],
         UNCHANGED <<registry, routeMu>>
  PROVE  GoesOn(r, pc)
<1>. DEFINE n == [req[r] EXCEPT !.pc = pc]
<1>1. req[r] \in Request /\ AttemptsOf(req[r])
  BY DEF TypeOK, AttemptsInv
<1>2. req' = [req EXCEPT ![r] = n]
  OBVIOUS
<1>3. n \in Request
  BY <1>1 DEF Request, Asking
<1>4. /\ n.pc = pc /\ n.doc = req[r].doc /\ n.why = req[r].why /\ n.pin = req[r].pin
      /\ n.creds = req[r].creds /\ n.copy = req[r].copy /\ n.left = req[r].left
      /\ n.sent = req[r].sent /\ n.attempted = req[r].attempted
      /\ n.refreshed = req[r].refreshed /\ n.want = req[r].want
  BY <1>1 DEF Request
<1>. HIDE DEF n
<1>5. AttemptsOf(n)
  BY <1>1, <1>4 DEF AttemptsOf, Failing, Asking
<1>6. Moves(r) /\ req'[r] = n
  BY <1>2, <1>3, <1>5, MovesTo
<1>. QED BY <1>4, <1>6 DEF GoesOn, Carries

LEMMA SeeStaleMoves ==
  ASSUME TypeOK, AttemptsInv, NEW r \in Requests, SeeStale(r)
  PROVE  /\ req[r].pc = "wait" /\ GoesOn(r, "break") /\ wlock[req[r].want] = Dead
         /\ UNCHANGED <<exhausted, tokens, edit, clock, count>>
BY PatientMoves DEF SeeStale, Asking, Stale, route

LEMMA BreakLockMoves ==
  ASSUME TypeOK, AttemptsInv, NEW r \in Requests, BreakLock(r)
  PROVE  /\ req[r].pc = "break" /\ req[r].want \in Profiles /\ GoesOn(r, "wait")
         /\ wlock' = [wlock EXCEPT ![req[r].want] = None]
         /\ broken' = [broken EXCEPT ![req[r].want] = @ + 1]
         /\ UNCHANGED <<exhausted, auth, authority, edit, clock, count>>
BY PatientMoves DEF BreakLock, Asking, route, AttemptsInv, AttemptsOf

\* The ways out of a refresh.
LEMMA RefreshMoves ==
  ASSUME TypeOK, AttemptsInv, NEW r \in Requests, Refresh(r) \/ Refreshed(r)
  PROVE  LET p == req[r].want IN
         /\ req[r].pc = "refresh" /\ p \in Profiles
         /\ wlock' = [wlock EXCEPT ![p] = None]
         /\ UNCHANGED <<broken, exhausted, edit, clock>>
         /\ \/ /\ Obtained(r) /\ (count' = count \/ Failure)
               /\ \/ UNCHANGED <<auth, authority>>
                  \/ /\ authority' = [authority EXCEPT ![p] = @ + 1]
                     /\ auth' = [auth EXCEPT ![p] =
                          [token |-> authority[p] + 1, expiring |-> FALSE]]
            \/ /\ Refused(r) /\ Failure /\ UNCHANGED auth
               /\ authority' \in {authority, [authority EXCEPT ![p] = @ + 1]}
            \/ Refused(r) /\ UNCHANGED <<auth, authority, count>> /\ req[r].doc # authority[p]
<1>. DEFINE p == req[r].want
<1>1. req[r].pc = "refresh" /\ p \in Profiles
  BY DEF Refresh, Refreshed, AttemptsInv, AttemptsOf, Asking
<1>2. authority' = [authority EXCEPT ![p] = @ + 1] => authority'[p] = authority[p] + 1
  BY <1>1 DEF TypeOK
<1>3. Obtained(r) => count' = count \/ Failure
  BY DEF Obtained, Taken, Unsaved
<1>. HIDE DEF p
<1>4. CASE Refresh(r)
  BY <1>1, <1>2, <1>3, <1>4 DEF Refresh, Release, p
<1>5. CASE Refreshed(r)
  BY <1>1, <1>3, <1>5 DEF Refreshed, Release, p
<1>. QED BY <1>4, <1>5

-----------------------------------------------------------------------------
(* Types, the routing mutex and who owns the write locks                   *)

LEMMA MutexKept ==
  ASSUME TypeOK, NEW r \in Requests, Moves(r),
         \/ routeMu' = routeMu /\ (Routing(r)' <=> Routing(r))
         \/ Free(r) /\ ~Routing(r)'
         \/ routeMu = None /\ routeMu' = r /\ Routing(r)'
  PROVE  routeMu' \in Requests \cup {None}
         /\ \A s \in Requests : routeMu' = s <=> Routing(s)'
<1>1. \A s \in Requests \ {r} : Routing(s)' <=> Routing(s)
  BY DEF Moves, Routing
<1>. QED BY <1>1, GatewayAssumption DEF TypeOK, Free

LEMMA OwnersKept ==
  ASSUME TypeOK, NEW r \in Requests, Moves(r), NEW p,
         \/ wlock' = wlock /\ req[r].pc # "refresh"
         \/ /\ wlock' = [wlock EXCEPT ![p] = r] /\ req[r].pc # "refresh"
            /\ req'[r].pc = "refresh" /\ req'[r].want = p
         \/ wlock' = [wlock EXCEPT ![p] = None] /\ (req[r].pc = "refresh" => req[r].want = p)
  PROVE  /\ wlock' \in [Profiles -> Requests \cup {None, Dead}]
         /\ \A s \in Requests, x \in Profiles : wlock'[x] = s => Writes(s, x)'
<1>1. \A s \in Requests \ {r}, x \in Profiles : Writes(s, x)' <=> Writes(s, x)
  BY DEF Moves, Writes
<1>2. /\ wlock' \in [Profiles -> Requests \cup {None, Dead}]
      /\ \A s \in Requests \ {r}, x \in Profiles : wlock'[x] = s => wlock[x] = s
  BY GatewayAssumption DEF TypeOK
<1>3. \A x \in Profiles : wlock'[x] = r => Writes(r, x)'
  <2>. TAKE x \in Profiles
  <2>1. wlock[x] = r => req[r].pc = "refresh" /\ req[r].want = x
    BY DEF TypeOK, Writes
  <2>. QED BY <2>1, GatewayAssumption DEF TypeOK, Writes
<1>. QED BY <1>1, <1>2, <1>3 DEF TypeOK

LEMMA TypesKept ==
  ASSUME TypeOK, NEW r \in Requests, Moves(r), registry' \in Registry,
         UNCHANGED <<edit, clock>>, count' = count \/ Failure,
         exhausted' \in [Profiles -> Until], broken' \in [Profiles -> Nat],
         auth' \in [Profiles -> Auth \cup {None}], authority' \in [Profiles -> Nat],
         wlock' \in [Profiles -> Requests \cup {None, Dead}],
         \A s \in Requests, p \in Profiles : wlock'[p] = s => Writes(s, p)',
         \/ routeMu' = routeMu /\ (Routing(r)' <=> Routing(r))
         \/ Free(r) /\ ~Routing(r)'
         \/ routeMu = None /\ routeMu' = r /\ Routing(r)'
  PROVE  TypeOK'
<1>1. /\ routeMu' \in Requests \cup {None}
      /\ \A s \in Requests : routeMu' = s <=> Routing(s)'
  BY MutexKept
<1>2. count' \in [expiry : 0..MaxExpiries, failure : 0..MaxFailures]
  BY GatewayAssumption DEF TypeOK, Failure
<1>3. /\ req' \in [Requests -> Request]
      /\ clock' \in 0..MaxClock
      /\ edit' \in [Editors -> [pc : {"idle", "loaded", "done"}, copy : Registry]]
  BY DEF TypeOK, Moves
<1>. QED BY <1>1, <1>2, <1>3 DEF TypeOK

\* Credentials obtained or refused, whatever has become of them.
LEMMA OutcomeTypes ==
  ASSUME TypeOK, AttemptsInv, NEW r \in Requests, req[r].pc \in Asking,
         Obtained(r) \/ Refused(r),
         UNCHANGED <<exhausted, broken, edit, clock>>, count' = count \/ Failure,
         auth' \in [Profiles -> Auth \cup {None}], authority' \in [Profiles -> Nat],
         wlock' = IF req[r].pc = "refresh" THEN [wlock EXCEPT ![req[r].want] = None]
                  ELSE wlock
  PROVE  TypeOK'
<1>1. Moves(r)
  BY ObtainedMoves, RefusedMoves
<1>2. registry' \in Registry
  <2>1. CASE Obtained(r)
    <3>1. req[r].want \in Profiles /\ req[r].copy \in Registry
      BY DEF AttemptsInv, AttemptsOf, TypeOK, Request
    <3>2. registry' \in {registry, UseCandidate(req[r])}
      BY <2>1 DEF Obtained, Taken, Unsaved
    <3>. QED BY <3>1, <3>2 DEF UseCandidate, Registry, TypeOK
  <2>2. CASE Refused(r)
    BY <2>2 DEF Refused, TypeOK
  <2>. QED BY <2>1, <2>2
<1>3. \/ routeMu' = routeMu /\ (Routing(r)' <=> Routing(r))
      \/ Free(r) /\ ~Routing(r)'
  <2>1. CASE Obtained(r)
    <3>1. req'[r].pc \in {"send", "done"} /\ Free(r)
      BY <2>1, ObtainedMoves DEF Obtained, Taken, Unsaved
    <3>. QED BY <3>1 DEF Routing
  <2>2. CASE Refused(r)
    <3>1. \/ req[r].why \notin Failing /\ req'[r].pc = "done"
          \/ req[r].why \in Failing /\ req'[r].pc = "pick"
      BY <2>2, RefusedMoves
    <3>2. routeMu' = routeMu
      BY <2>2 DEF Refused
    <3>. QED BY <3>1, <3>2 DEF Routing, Failing, Asking
  <2>. QED BY <2>1, <2>2
<1>4. /\ wlock' \in [Profiles -> Requests \cup {None, Dead}]
      /\ \A s \in Requests, x \in Profiles : wlock'[x] = s => Writes(s, x)'
  BY <1>1, OwnersKept
<1>5. exhausted' \in [Profiles -> Until] /\ broken' \in [Profiles -> Nat]
  BY DEF TypeOK
<1>. QED BY <1>1, <1>2, <1>3, <1>4, <1>5, TypesKept

LEMMA CredentialTypes ==
  ASSUME TypeOK, AttemptsInv, TokenInv, NEW r \in Requests,
         \/ Lookup(r) \/ TakeLock(r) \/ SeeStale(r) \/ BreakLock(r) \/ GiveUpLock(r)
         \/ Refresh(r) \/ Refreshed(r)
  PROVE  TypeOK'
<1>0. /\ exhausted \in [Profiles -> Until] /\ broken \in [Profiles -> Nat]
      /\ auth \in [Profiles -> Auth \cup {None}] /\ authority \in [Profiles -> Nat]
      /\ registry \in Registry
  BY DEF TypeOK
<1>1. CASE Lookup(r)
  <2>1. /\ req[r].pc = "lookup"
        /\ Refused(r) \/ Obtained(r) \/ GoesOn(r, "wait")
        /\ count' = count \/ Failure
    BY <1>1, LookupMoves
  <2>2. UNCHANGED <<exhausted, wlock, broken, auth, authority, edit, clock>>
    BY <1>1 DEF Lookup, tokens
  <2>3. CASE Refused(r) \/ Obtained(r)
    BY <1>0, <2>1, <2>2, <2>3, OutcomeTypes DEF Asking
  <2>4. CASE GoesOn(r, "wait")
    <3>1. Moves(r) /\ routeMu' = routeMu /\ (Routing(r)' <=> Routing(r))
      BY <2>1, <2>4 DEF GoesOn, Routing
    <3>2. /\ wlock' \in [Profiles -> Requests \cup {None, Dead}]
          /\ \A s \in Requests, x \in Profiles : wlock'[x] = s => Writes(s, x)'
      BY <2>1, <2>2, <3>1, OwnersKept
    <3>3. registry' \in Registry
      BY <1>0, <2>4 DEF GoesOn
    <3>. QED BY <1>0, <2>1, <2>2, <3>1, <3>2, <3>3, TypesKept
  <2>. QED BY <2>1, <2>3, <2>4
<1>2. CASE TakeLock(r)
  <2>1. /\ req[r].pc = "wait" /\ GoesOn(r, "refresh")
        /\ wlock' = [wlock EXCEPT ![req[r].want] = r]
        /\ UNCHANGED <<exhausted, broken, auth, authority, edit, clock, count>>
    BY <1>2, TakeLockMoves
  <2>2. Moves(r) /\ routeMu' = routeMu /\ (Routing(r)' <=> Routing(r)) /\ registry' \in Registry
    BY <1>0, <2>1 DEF GoesOn, Routing
  <2>3. /\ wlock' \in [Profiles -> Requests \cup {None, Dead}]
        /\ \A s \in Requests, x \in Profiles : wlock'[x] = s => Writes(s, x)'
    BY <2>1, <2>2, OwnersKept DEF GoesOn
  <2>. QED BY <1>0, <2>1, <2>2, <2>3, TypesKept
<1>3. CASE SeeStale(r)
  <2>1. /\ req[r].pc = "wait" /\ GoesOn(r, "break")
        /\ UNCHANGED <<exhausted, wlock, broken, auth, authority, edit, clock, count>>
    BY <1>3, SeeStaleMoves DEF tokens
  <2>2. Moves(r) /\ routeMu' = routeMu /\ (Routing(r)' <=> Routing(r)) /\ registry' \in Registry
    BY <1>0, <2>1 DEF GoesOn, Routing
  <2>3. /\ wlock' \in [Profiles -> Requests \cup {None, Dead}]
        /\ \A s \in Requests, x \in Profiles : wlock'[x] = s => Writes(s, x)'
    BY <2>1, <2>2, OwnersKept
  <2>. QED BY <1>0, <2>1, <2>2, <2>3, TypesKept
<1>4. CASE BreakLock(r)
  <2>1. /\ req[r].pc = "break" /\ req[r].want \in Profiles /\ GoesOn(r, "wait")
        /\ wlock' = [wlock EXCEPT ![req[r].want] = None]
        /\ broken' = [broken EXCEPT ![req[r].want] = @ + 1]
        /\ UNCHANGED <<exhausted, auth, authority, edit, clock, count>>
    BY <1>4, BreakLockMoves
  <2>2. Moves(r) /\ routeMu' = routeMu /\ (Routing(r)' <=> Routing(r)) /\ registry' \in Registry
    BY <1>0, <2>1 DEF GoesOn, Routing
  <2>3. /\ wlock' \in [Profiles -> Requests \cup {None, Dead}]
        /\ \A s \in Requests, x \in Profiles : wlock'[x] = s => Writes(s, x)'
    BY <2>1, <2>2, OwnersKept
  <2>4. broken' \in [Profiles -> Nat]
    BY <1>0, <2>1
  <2>. QED BY <1>0, <2>1, <2>2, <2>3, <2>4, TypesKept
<1>5. CASE GiveUpLock(r)
  <2>1. /\ req[r].pc = "wait" /\ Refused(r) /\ Failure
        /\ UNCHANGED <<exhausted, wlock, broken, auth, authority, edit, clock>>
    BY <1>5 DEF GiveUpLock, tokens
  <2>. QED BY <1>0, <2>1, OutcomeTypes DEF Asking
<1>6. CASE Refresh(r) \/ Refreshed(r)
  <2>1. /\ req[r].pc = "refresh" /\ req[r].want \in Profiles
        /\ wlock' = [wlock EXCEPT ![req[r].want] = None]
        /\ UNCHANGED <<broken, exhausted, edit, clock>>
        /\ Obtained(r) \/ Refused(r)
        /\ count' = count \/ Failure
        /\ \/ auth' = auth
           \/ auth' = [auth EXCEPT ![req[r].want] =
                [token |-> authority[req[r].want] + 1, expiring |-> FALSE]]
        /\ authority' \in {authority, [authority EXCEPT ![req[r].want] = @ + 1]}
    BY <1>6, RefreshMoves
  <2>2. authority' \in [Profiles -> Nat]
    BY <1>0, <2>1
  <2>3. [token |-> authority[req[r].want] + 1, expiring |-> FALSE] \in Auth
    BY <1>0, <2>1 DEF Auth
  <2>4. auth' \in [Profiles -> Auth \cup {None}]
    BY <1>0, <2>1, <2>3
  <2>. QED BY <2>1, <2>2, <2>4, OutcomeTypes DEF Asking
<1>. QED BY <1>1, <1>2, <1>3, <1>4, <1>5, <1>6

LEMMA AnswerMoves ==
  ASSUME TypeOK, NEW r \in Requests, Answer(r)
  PROVE  Moves(r) /\ req[r].pc = "send" /\ req'[r].pc = "done" /\ req'[r].creds = None
BY EndedMoves DEF Answer

LEMMA SuppressedTypes ==
  ASSUME TypeOK, NEW r \in Requests
  PROVE  Suppressed(r) \in [Profiles -> Until]
<1>1. /\ req[r].until \in Until /\ exhausted \in [Profiles -> Until]
      /\ clock \in 0..MaxClock
  BY DEF TypeOK, Request
<1>2. 0 \in Until /\ clock + Hour \in Until
  BY <1>1, GatewayAssumption DEF Until
<1>. QED BY <1>1, <1>2 DEF Suppressed

LEMMA RoundTripTypes ==
  ASSUME TypeOK, AttemptsInv, NEW r \in Requests,
         \/ Arrive(r) \/ Answer(r) \/ Unauthorized(r) \/ Limited(r)
         \/ Failover(r) \/ Pick(r)
  PROVE  TypeOK'
<1>1. CASE Arrive(r) \/ Answer(r) \/ Unauthorized(r) \/ Limited(r)
  <2>1. UNCHANGED <<registry, exhausted, routeMu, wlock, broken, auth, authority,
                    edit, clock, count>>
    BY <1>1 DEF Arrive, Answer, Unauthorized, Limited, route, tokens
  <2>2. /\ Moves(r) /\ req[r].pc \in {"idle", "send"}
        /\ \/ req'[r].pc \in {"done", "route"}
           \/ req'[r].pc \in {"lookup", "wait"} /\ req'[r].why \notin Failing
    BY <1>1, ArriveMoves, AnswerMoves, UnauthorizedMoves, LimitedMoves DEF Failing
  <2>3. Routing(r)' <=> Routing(r)
    BY <2>2 DEF Routing, Failing
  <2>4. /\ wlock' \in [Profiles -> Requests \cup {None, Dead}]
        /\ \A s \in Requests, x \in Profiles : wlock'[x] = s => Writes(s, x)'
    BY <2>1, <2>2, OwnersKept
  <2>. QED BY <2>1, <2>2, <2>3, <2>4, TypesKept DEF TypeOK
<1>2. CASE Failover(r)
  <2>1. /\ UNCHANGED <<registry, wlock, broken, auth, authority, edit, clock>>
        /\ routeMu = None
    BY <1>2 DEF Failover, tokens, RouteMuFree
  <2>2. /\ Moves(r) /\ req[r].pc = "route" /\ exhausted' = Suppressed(r)
        /\ \/ req'[r].pc = "done" /\ Failure /\ routeMu' = routeMu
           \/ /\ req'[r].pc = "lookup" /\ req'[r].why = "active"
              /\ routeMu' = r /\ count' = count
           \/ req'[r].pc = "pick" /\ routeMu' = r /\ count' = count
    BY <1>2, FailoverMoves DEF RoundBegins
  <2>3. \/ routeMu' = routeMu /\ (Routing(r)' <=> Routing(r))
        \/ routeMu' = r /\ Routing(r)'
    BY <2>2 DEF Routing
  <2>4. /\ wlock' \in [Profiles -> Requests \cup {None, Dead}]
        /\ \A s \in Requests, x \in Profiles : wlock'[x] = s => Writes(s, x)'
    BY <2>1, <2>2, OwnersKept
  <2>5. exhausted' \in [Profiles -> Until]
    BY <2>2, SuppressedTypes
  <2>. QED BY <2>1, <2>2, <2>3, <2>4, <2>5, TypesKept DEF TypeOK
<1>3. CASE Pick(r)
  <2>1. UNCHANGED <<registry, exhausted, wlock, broken, auth, authority,
                    edit, clock, count>>
    BY <1>3 DEF Pick, tokens
  <2>2. /\ Moves(r) /\ req[r].pc = "pick"
        /\ \/ req'[r].pc = "done" /\ Free(r)
           \/ /\ req'[r].pc = "lookup" /\ req'[r].why = "candidate"
              /\ routeMu' = routeMu
    BY <1>3, PickMoves
  <2>3. \/ routeMu' = routeMu /\ (Routing(r)' <=> Routing(r))
        \/ Free(r) /\ ~Routing(r)'
    BY <2>2 DEF Routing
  <2>4. /\ wlock' \in [Profiles -> Requests \cup {None, Dead}]
        /\ \A s \in Requests, x \in Profiles : wlock'[x] = s => Writes(s, x)'
    BY <2>1, <2>2, OwnersKept
  <2>. QED BY <2>1, <2>2, <2>3, <2>4, TypesKept DEF TypeOK
<1>. QED BY <1>1, <1>2, <1>3

\* Whoever else acts leaves the requests and their locks alone.
Bystander ==
  \/ \E e \in Editors : EditLoad(e) \/ EditSave(e)
  \/ \E p \in Profiles : Expire(p)
  \/ Tick

LEMMA EditTypes ==
  ASSUME TypeOK, NEW e \in Editors, EditSave(e)
  PROVE  registry' \in Registry
<1>. DEFINE copy == edit[e].copy
<1>1. copy \in Registry
  BY DEF TypeOK
<1>. HIDE DEF copy
<1>2. \/ registry' = copy
      \/ \E p \in copy.ids : registry' = [copy EXCEPT !.active = p]
      \/ \E p \in Profiles : registry' = Added(copy, p)
      \/ \E p \in copy.ids : registry' \in Removals(copy, p)
  BY DEF EditSave, copy
<1>3. ASSUME NEW p \in copy.ids PROVE [copy EXCEPT !.active = p] \in Registry
  BY <1>1 DEF Registry
<1>4. ASSUME NEW p \in Profiles PROVE Added(copy, p) \in Registry
  BY <1>1 DEF Registry, Added
<1>5. ASSUME NEW p \in copy.ids, NEW reg \in Removals(copy, p) PROVE reg \in Registry
  <2>1. PICK q : reg = [ids |-> copy.ids \ {p}, active |-> q]
                 /\ q \in CASE copy.active # p -> {copy.active}
                            [] copy.active = p /\ copy.ids = {p} -> {None}
                            [] OTHER -> copy.ids \ {p}
    BY DEF Removals
  <2>2. q \in Profiles \cup {None}
    BY <1>1, <2>1 DEF Registry
  <2>. QED BY <1>1, <2>1, <2>2 DEF Registry
<1>. QED BY <1>1, <1>2, <1>3, <1>4, <1>5

LEMMA BystanderTypes ==
  ASSUME TypeOK, Bystander
  PROVE  TypeOK' /\ UNCHANGED <<req, exhausted, routeMu, wlock, broken, authority>>
<1>1. UNCHANGED <<req, exhausted, routeMu, wlock, broken, authority>>
  BY DEF Bystander, EditLoad, EditSave, Expire, Tick, route, tokens
<1>2. /\ registry' \in Registry
      /\ auth' \in [Profiles -> Auth \cup {None}]
      /\ edit' \in [Editors -> [pc : {"idle", "loaded", "done"}, copy : Registry]]
      /\ clock' \in 0..MaxClock
      /\ count' \in [expiry : 0..MaxExpiries, failure : 0..MaxFailures]
  <2>1. ASSUME NEW e \in Editors, EditLoad(e) PROVE <1>2!:
    BY <2>1 DEF EditLoad, TypeOK, tokens
  <2>2. ASSUME NEW e \in Editors, EditSave(e) PROVE <1>2!:
    <3>1. NoRegistry \in Registry
      BY DEF NoRegistry, Registry
    <3>. QED BY <2>2, <3>1, EditTypes DEF EditSave, TypeOK, tokens
  <2>3. ASSUME NEW p \in Profiles, Expire(p) PROVE <1>2!:
    <3>1. auth[p] \in Auth
      BY <2>3 DEF Expire, TypeOK
    <3>2. [auth[p] EXCEPT !.expiring = TRUE] \in Auth
      BY <3>1 DEF Auth
    <3>3. auth' = [auth EXCEPT ![p] = [auth[p] EXCEPT !.expiring = TRUE]]
      BY <2>3 DEF Expire
    <3>4. auth' \in [Profiles -> Auth \cup {None}]
      BY <3>2, <3>3 DEF TypeOK
    <3>5. count' \in [expiry : 0..MaxExpiries, failure : 0..MaxFailures]
      BY <2>3, GatewayAssumption DEF Expire, TypeOK
    <3>. QED BY <2>3, <3>4, <3>5 DEF Expire, TypeOK
  <2>4. CASE Tick
    BY <2>4, GatewayAssumption DEF Tick, TypeOK, tokens
  <2>. QED BY <2>1, <2>2, <2>3, <2>4 DEF Bystander
<1>3. /\ \A r \in Requests : Routing(r)' <=> Routing(r)
      /\ \A r \in Requests, p \in Profiles : Writes(r, p)' <=> Writes(r, p)
  BY <1>1 DEF Routing, Writes
<1>. QED BY <1>1, <1>2, <1>3 DEF TypeOK

-----------------------------------------------------------------------------
(* Attempts and write locks                                                *)

LEMMA AttemptsKept ==
  ASSUME AttemptsInv, NEW r \in Requests, Moves(r)
  PROVE  AttemptsInv'
<1>. SUFFICES ASSUME NEW s \in Requests PROVE AttemptsOf(req'[s])
  BY DEF AttemptsInv, AttemptsOf, NoRequest, NoRegistry
<1>. QED BY DEF AttemptsInv, Moves

\* The lock of p while a request takes no lock and breaks none.
LEMMA LockKept ==
  ASSUME TypeOK, LockInv, NEW r \in Requests, Moves(r), UNCHANGED <<wlock, broken>>,
         req'[r].pc \notin {"refresh", "break"}
  PROVE  LockInv'
<1>1. \A s \in Requests, p \in Profiles :
        /\ Writes(s, p)' => Writes(s, p)
        /\ Breaks(s, p)' => Breaks(s, p)
  BY DEF Moves, Writes, Breaks
<1>. QED BY <1>1 DEF LockInv

\* The holder releases it, and nobody else had reason to rely on it.
LEMMA ReleaseKeeps ==
  ASSUME TypeOK, LockInv, NEW r \in Requests, Moves(r),
         req[r].pc = "refresh", req[r].want \in Profiles,
         req'[r].pc \notin {"refresh", "break"},
         wlock' = [wlock EXCEPT ![req[r].want] = None], broken' = broken
  PROVE  LockInv'
<1>1. SUFFICES ASSUME NEW p \in Profiles, NEW s \in Requests
               PROVE  /\ broken[p] < 2 /\ Writes(s, p)' => wlock'[p] = s
                      /\ broken[p] = 0 /\ Breaks(s, p)' => wlock'[p] = Dead
  BY DEF LockInv
<1>2. CASE s = r
  BY <1>2 DEF Writes, Breaks
<1>3. CASE s # r
  <2>1. (Writes(s, p)' <=> Writes(s, p)) /\ (Breaks(s, p)' <=> Breaks(s, p))
    BY <1>3 DEF Moves, Writes, Breaks
  <2>2. CASE p # req[r].want
    BY <2>1, <2>2 DEF LockInv, TypeOK
  <2>3. CASE p = req[r].want
    <3>1. broken[p] < 2 => wlock[p] = r
      BY <2>3 DEF LockInv, Writes
    <3>2. broken[p] \in Nat
      BY DEF TypeOK
    <3>3. Dead # r
      BY GatewayAssumption
    <3>. QED BY <1>3, <2>1, <3>1, <3>2, <3>3 DEF LockInv
  <2>. QED BY <2>2, <2>3
<1>. QED BY <1>2, <1>3

LEMMA CredentialLocks ==
  ASSUME TypeOK, AttemptsInv, LockInv, TokenInv, NEW r \in Requests,
         \/ Lookup(r) \/ TakeLock(r) \/ SeeStale(r) \/ BreakLock(r) \/ GiveUpLock(r)
         \/ Refresh(r) \/ Refreshed(r)
  PROVE  LockInv'
<1>1. CASE Lookup(r)
  <2>1. Refused(r) \/ Obtained(r) \/ GoesOn(r, "wait")
    BY <1>1, LookupMoves
  <2>2. Moves(r) /\ req'[r].pc \notin {"refresh", "break"}
    BY <1>1, <2>1, LookupMoves, ObtainedMoves, RefusedMoves DEF GoesOn, Asking
  <2>. QED BY <1>1, <2>2, LockKept DEF Lookup, tokens
<1>2. CASE TakeLock(r)
  <2>1. /\ req[r].want \in Profiles /\ wlock[req[r].want] = None
        /\ Moves(r) /\ req'[r].pc = "refresh" /\ req'[r].want = req[r].want
        /\ wlock' = [wlock EXCEPT ![req[r].want] = r] /\ broken' = broken
    BY <1>2, TakeLockMoves DEF GoesOn
  <2>2. SUFFICES ASSUME NEW p \in Profiles, NEW s \in Requests
                 PROVE  /\ broken[p] < 2 /\ Writes(s, p)' => wlock'[p] = s
                        /\ broken[p] = 0 /\ Breaks(s, p)' => wlock'[p] = Dead
    BY <2>1 DEF LockInv
  <2>3. CASE s = r
    BY <2>1, <2>3 DEF Writes, Breaks, TypeOK
  <2>4. CASE s # r
    <3>1. (Writes(s, p)' <=> Writes(s, p)) /\ (Breaks(s, p)' <=> Breaks(s, p))
      BY <2>1, <2>4 DEF Moves, Writes, Breaks
    <3>2. CASE p # req[r].want
      BY <2>1, <3>1, <3>2 DEF LockInv, TypeOK
    <3>3. CASE p = req[r].want
      <4>1. wlock[p] # s /\ wlock[p] # Dead
        BY <2>1, <3>3, GatewayAssumption
      <4>. QED BY <3>1, <4>1 DEF LockInv
    <3>. QED BY <3>2, <3>3
  <2>. QED BY <2>3, <2>4
<1>3. CASE SeeStale(r)
  <2>1. /\ Moves(r) /\ req'[r].pc = "break" /\ req'[r].want = req[r].want
        /\ wlock[req[r].want] = Dead /\ UNCHANGED <<wlock, broken>>
    BY <1>3, SeeStaleMoves DEF GoesOn, tokens
  <2>2. \A s \in Requests, p \in Profiles :
          /\ Writes(s, p)' => Writes(s, p)
          /\ Breaks(s, p)' => Breaks(s, p) \/ (s = r /\ p = req[r].want)
    BY <2>1 DEF Moves, Writes, Breaks
  <2>. QED BY <2>1, <2>2 DEF LockInv
<1>4. CASE BreakLock(r)
  <2>1. /\ req[r].want \in Profiles /\ req[r].pc = "break"
        /\ Moves(r) /\ req'[r].pc = "wait"
        /\ wlock' = [wlock EXCEPT ![req[r].want] = None]
        /\ broken' = [broken EXCEPT ![req[r].want] = @ + 1]
    BY <1>4, BreakLockMoves DEF GoesOn
  <2>2. SUFFICES ASSUME NEW p \in Profiles, NEW s \in Requests
                 PROVE  /\ broken'[p] < 2 /\ Writes(s, p)' => wlock'[p] = s
                        /\ broken'[p] = 0 /\ Breaks(s, p)' => wlock'[p] = Dead
    BY DEF LockInv
  <2>3. (Writes(s, p)' => Writes(s, p)) /\ (Breaks(s, p)' => Breaks(s, p))
    BY <2>1 DEF Moves, Writes, Breaks
  <2>4. CASE p # req[r].want
    BY <2>1, <2>3, <2>4 DEF LockInv, TypeOK
  <2>5. CASE p = req[r].want
    <3>1. broken[p] \in Nat /\ broken'[p] = broken[p] + 1
      BY <2>1, <2>5 DEF TypeOK
    <3>2. broken[p] = 0 => wlock[p] = Dead
      BY <2>1, <2>5 DEF LockInv, Breaks
    <3>3. broken[p] < 2 /\ Writes(s, p) => wlock[p] = s
      BY DEF LockInv
    <3>. QED BY <2>3, <3>1, <3>2, <3>3, GatewayAssumption
  <2>. QED BY <2>4, <2>5
<1>5. CASE GiveUpLock(r)
  <2>1. /\ Refused(r) /\ req[r].pc = "wait" /\ UNCHANGED <<wlock, broken>>
    BY <1>5 DEF GiveUpLock, tokens
  <2>2. Moves(r) /\ req'[r].pc \notin {"refresh", "break"}
    BY <2>1, RefusedMoves DEF Asking
  <2>. QED BY <2>1, <2>2, LockKept
<1>6. CASE Refresh(r) \/ Refreshed(r)
  <2>1. /\ req[r].pc = "refresh" /\ req[r].want \in Profiles
        /\ wlock' = [wlock EXCEPT ![req[r].want] = None] /\ broken' = broken
        /\ Obtained(r) \/ Refused(r)
    BY <1>6, RefreshMoves
  <2>2. Moves(r) /\ req'[r].pc \notin {"refresh", "break"}
    BY <2>1, ObtainedMoves, RefusedMoves DEF Asking
  <2>. QED BY <2>1, <2>2, ReleaseKeeps
<1>. QED BY <1>1, <1>2, <1>3, <1>4, <1>5, <1>6

-----------------------------------------------------------------------------
(* Tokens                                                                  *)

LEMMA TokenKept ==
  ASSUME TypeOK, AttemptsInv, TokenInv, NEW r \in Requests, Moves(r),
         \A p \in Profiles : auth[p] # None => auth'[p] # None,
         req'[r].pc \in {"wait", "break", "refresh"} => auth'[req'[r].want] # None,
         req'[r].creds # None => auth'[req'[r].creds] # None,
         \A p \in Profiles : Calm(p)' =>
           /\ auth'[p] # None => auth'[p].token = authority'[p]
           /\ \A s \in Requests \ {r} : Writes(s, p) => req[s].doc = authority'[p]
           /\ Writes(r, p)' => req'[r].doc = authority'[p]
  PROVE  TokenInv'
<1>1. ASSUME NEW s \in Requests
      PROVE  /\ req'[s].pc \in {"wait", "break", "refresh"} => auth'[req'[s].want] # None
             /\ req'[s].creds # None => auth'[req'[s].creds] # None
  <2>1. CASE s = r
    BY <2>1
  <2>2. CASE s # r
    <3>1. req'[s] = req[s] /\ req[s] \in Request /\ AttemptsOf(req[s])
      BY <2>2 DEF Moves, TypeOK, AttemptsInv
    <3>2. req[s].pc \in {"wait", "break", "refresh"} => req[s].want \in Profiles
      BY <3>1 DEF AttemptsOf, Asking
    <3>3. req[s].creds # None => req[s].creds \in Profiles
      BY <3>1 DEF Request
    <3>. QED BY <3>1, <3>2, <3>3 DEF TokenInv
  <2>. QED BY <2>1, <2>2
<1>2. ASSUME NEW p \in Profiles, Calm(p)'
      PROVE  /\ auth'[p] # None => auth'[p].token = authority'[p]
             /\ \A s \in Requests : Writes(s, p)' => req'[s].doc = authority'[p]
  BY <1>2 DEF Moves, Writes
<1>. QED BY <1>1, <1>2 DEF TokenInv

\* A step that leaves the token sets alone, and after which r does not write.
LEMMA TokensAlone ==
  ASSUME TypeOK, AttemptsInv, TokenInv, NEW r \in Requests, Moves(r),
         UNCHANGED <<auth, authority>>,
         \A p \in Profiles : Calm(p)' => Calm(p),
         req'[r].pc \in {"wait", "break"} => auth[req'[r].want] # None,
         req'[r].pc # "refresh",
         req'[r].creds # None => auth[req'[r].creds] # None
  PROVE  TokenInv'
<1>1. \A p \in Profiles : Calm(p)' =>
        /\ auth'[p] # None => auth'[p].token = authority'[p]
        /\ \A s \in Requests \ {r} : Writes(s, p) => req[s].doc = authority'[p]
        /\ Writes(r, p)' => req'[r].doc = authority'[p]
  BY DEF TokenInv, Writes
<1>. QED BY <1>1, TokenKept

\* A failure leaves no profile calm.
LEMMA FailureDisturbs ==
  ASSUME TypeOK, Failure, NEW p \in Profiles
  PROVE  ~Calm(p)'
BY DEF TypeOK, Failure, Calm

\* Credentials obtained or refused without a new token set.
LEMMA OutcomeTokens ==
  ASSUME TypeOK, AttemptsInv, TokenInv, NEW r \in Requests, req[r].pc \in Asking,
         Refused(r) \/ (Obtained(r) /\ auth[req[r].want] # None),
         UNCHANGED <<auth, authority, broken>>, count' = count \/ Failure
  PROVE  TokenInv'
<1>1. /\ Moves(r) /\ req'[r].pc \in {"send", "done", "pick"}
      /\ \/ req'[r].creds \in {None, req[r].creds}
         \/ req'[r].creds = req[r].want /\ auth[req[r].want] # None
  BY ObtainedMoves, RefusedMoves DEF Carries
<1>2. \A p \in Profiles : Calm(p)' => Calm(p)
  BY FailureDisturbs DEF Calm
<1>3. req'[r].creds # None => auth[req'[r].creds] # None
  BY <1>1 DEF TokenInv
<1>. QED BY <1>1, <1>2, <1>3, TokensAlone

LEMMA CredentialTokens ==
  ASSUME TypeOK, AttemptsInv, LockInv, TokenInv, NEW r \in Requests,
         \/ Lookup(r) \/ TakeLock(r) \/ SeeStale(r) \/ BreakLock(r) \/ GiveUpLock(r)
         \/ Refresh(r) \/ Refreshed(r)
  PROVE  TokenInv'
<1>0. /\ req[r].pc \in {"wait", "break", "refresh"} => auth[req[r].want] # None
      /\ req[r].creds # None => auth[req[r].creds] # None
  BY DEF TokenInv
<1>1. CASE Lookup(r)
  <2>1. UNCHANGED <<wlock, broken, auth, authority>> /\ req[r].pc = "lookup"
    BY <1>1 DEF Lookup, tokens
  <2>2. \/ Refused(r) /\ count' = count
        \/ auth[req[r].want] # None /\ Obtained(r) /\ (count' = count \/ Failure)
        \/ auth[req[r].want] # None /\ GoesOn(r, "wait") /\ count' = count
    BY <1>1, LookupMoves DEF HasLogin
  <2>3. CASE /\ Refused(r) \/ (Obtained(r) /\ auth[req[r].want] # None)
             /\ count' = count \/ Failure
    BY <2>1, <2>3, OutcomeTokens DEF Asking
  <2>4. CASE auth[req[r].want] # None /\ GoesOn(r, "wait") /\ count' = count
    BY <1>0, <2>1, <2>4, TokensAlone DEF GoesOn, Carries, Calm
  <2>. QED BY <2>2, <2>3, <2>4
<1>2. CASE TakeLock(r)
  <2>1. /\ req[r].pc = "wait" /\ req[r].want \in Profiles
        /\ Moves(r) /\ req'[r].creds = req[r].creds
        /\ req'[r].pc = "refresh" /\ req'[r].want = req[r].want
        /\ req'[r].doc = auth[req[r].want].token
        /\ UNCHANGED <<broken, auth, authority, count>>
    BY <1>2, TakeLockMoves DEF GoesOn, Carries
  <2>2. \A p \in Profiles : Calm(p)' =>
          /\ auth'[p] # None => auth'[p].token = authority'[p]
          /\ \A s \in Requests \ {r} : Writes(s, p) => req[s].doc = authority'[p]
          /\ Writes(r, p)' => req'[r].doc = authority'[p]
    BY <1>0, <2>1 DEF TokenInv, Writes, Calm
  <2>. QED BY <1>0, <2>1, <2>2, TokenKept
<1>3. CASE SeeStale(r)
  <2>1. /\ req[r].pc = "wait" /\ Moves(r) /\ req'[r].creds = req[r].creds
        /\ req'[r].pc = "break" /\ req'[r].want = req[r].want
        /\ UNCHANGED <<broken, auth, authority, count>>
    BY <1>3, SeeStaleMoves DEF GoesOn, Carries, tokens
  <2>. QED BY <1>0, <2>1, TokensAlone DEF Calm
<1>4. CASE BreakLock(r)
  <2>1. /\ req[r].pc = "break" /\ Moves(r) /\ req'[r].creds = req[r].creds
        /\ req'[r].pc = "wait" /\ req'[r].want = req[r].want
        /\ broken' = [broken EXCEPT ![req[r].want] = @ + 1]
        /\ UNCHANGED <<auth, authority, count>>
    BY <1>4, BreakLockMoves DEF GoesOn, Carries
  <2>2. \A p \in Profiles : Calm(p)' => Calm(p)
    BY <2>1 DEF Calm, TypeOK
  <2>. QED BY <1>0, <2>1, <2>2, TokensAlone
<1>5. CASE GiveUpLock(r)
  <2>1. /\ req[r].pc = "wait" /\ Refused(r) /\ Failure
        /\ UNCHANGED <<auth, authority, broken>>
    BY <1>5 DEF GiveUpLock, tokens
  <2>. QED BY <2>1, OutcomeTokens DEF Asking
<1>6. CASE Refresh(r) \/ Refreshed(r)
  <2>. DEFINE p == req[r].want
  <2>1. /\ req[r].pc = "refresh" /\ p \in Profiles /\ auth[p] # None
        /\ broken' = broken
        /\ \/ /\ Obtained(r) /\ (count' = count \/ Failure)
              /\ \/ UNCHANGED <<auth, authority>>
                 \/ /\ authority' = [authority EXCEPT ![p] = @ + 1]
                    /\ auth' = [auth EXCEPT ![p] =
                         [token |-> authority[p] + 1, expiring |-> FALSE]]
           \/ Refused(r) /\ Failure /\ UNCHANGED auth
           \/ Refused(r) /\ UNCHANGED <<auth, authority, count>>
    BY <1>0, <1>6, RefreshMoves
  <2>2. CASE /\ Obtained(r) \/ Refused(r)
             /\ UNCHANGED <<auth, authority>> /\ (count' = count \/ Failure)
    BY <2>1, <2>2, OutcomeTokens DEF Asking
  <2>3. CASE Refused(r) /\ Failure /\ UNCHANGED auth
    <3>1. /\ Moves(r) /\ req'[r].pc \in {"done", "pick"}
          /\ req'[r].creds \in {None, req[r].creds}
      BY <2>1, <2>3, RefusedMoves DEF Carries, Asking
    <3>2. \A x \in Profiles : ~Calm(x)'
      BY <2>3, FailureDisturbs
    <3>. QED BY <1>0, <2>3, <3>1, <3>2, TokenKept
  <2>4. CASE /\ Obtained(r) /\ (count' = count \/ Failure)
             /\ authority' = [authority EXCEPT ![p] = @ + 1]
             /\ auth' = [auth EXCEPT ![p] =
                  [token |-> authority[p] + 1, expiring |-> FALSE]]
    <3>1. /\ Moves(r) /\ req'[r].pc \in {"send", "done"}
          /\ req'[r].creds \in {None, p}
      BY <2>1, <2>4, ObtainedMoves DEF Asking
    <3>2. \A x \in Profiles : Calm(x)' => Calm(x)
      BY <2>1, <2>4, FailureDisturbs DEF Calm
    <3>3. \A x \in Profiles \ {p} : auth'[x] = auth[x] /\ authority'[x] = authority[x]
      BY <2>1, <2>4 DEF TypeOK
    <3>4. /\ auth'[p] = [token |-> authority[p] + 1, expiring |-> FALSE]
          /\ authority'[p] = authority[p] + 1
      BY <2>1, <2>4 DEF TypeOK
    <3>5. auth'[p] # None
      <4>1. authority[p] \in Nat
        BY <2>1 DEF TypeOK
      <4>2. auth'[p] \in [token : Nat, expiring : BOOLEAN]
        BY <3>4, <4>1
      <4>. QED BY <4>2, GatewayAssumption
    <3>6. \A s \in Requests \ {r} : Calm(p) => ~Writes(s, p)
      BY <2>1 DEF LockInv, Calm, Writes
    <3>7. \A x \in Profiles : Calm(x)' =>
            /\ auth'[x] # None => auth'[x].token = authority'[x]
            /\ \A s \in Requests \ {r} : Writes(s, x) => req[s].doc = authority'[x]
            /\ Writes(r, x)' => req'[r].doc = authority'[x]
      <4>. SUFFICES ASSUME NEW x \in Profiles, Calm(x)'
                    PROVE  /\ auth'[x] # None => auth'[x].token = authority'[x]
                           /\ \A s \in Requests \ {r} :
                                Writes(s, x) => req[s].doc = authority'[x]
        BY <3>1 DEF Writes
      <4>1. CASE x = p
        BY <3>2, <3>4, <3>6, <4>1
      <4>2. CASE x # p
        BY <3>2, <3>3, <4>2 DEF TokenInv
      <4>. QED BY <4>1, <4>2
    <3>8. \A x \in Profiles : auth[x] # None => auth'[x] # None
      BY <3>3, <3>5
    <3>. QED BY <3>1, <3>5, <3>7, <3>8, TokenKept
  <2>. QED BY <2>1, <2>2, <2>3, <2>4
<1>. QED BY <1>1, <1>2, <1>3, <1>4, <1>5, <1>6

LEMMA RoundTripTokens ==
  ASSUME TypeOK, AttemptsInv, TokenInv, NEW r \in Requests,
         \/ Arrive(r) \/ Answer(r) \/ Unauthorized(r) \/ Limited(r)
         \/ Failover(r) \/ Pick(r)
  PROVE  TokenInv'
<1>0. req[r].creds # None => auth[req[r].creds] # None
  BY DEF TokenInv
<1>1. UNCHANGED <<auth, authority, broken>> /\ (count' = count \/ Failure)
  BY DEF Arrive, Answer, Unauthorized, Limited, Failover, Pick, tokens
<1>2. \A p \in Profiles : Calm(p)' => Calm(p)
  BY <1>1, FailureDisturbs DEF Calm
<1>3. CASE Arrive(r)
  <2>1. Moves(r) /\ req'[r].creds = None /\ req'[r].pc \in {"done", "lookup"}
    BY <1>3, ArriveMoves
  <2>. QED BY <1>1, <1>2, <2>1, TokensAlone
<1>4. CASE Answer(r) \/ Limited(r)
  <2>1. /\ Moves(r) /\ req'[r].creds \in {None, req[r].creds}
        /\ req'[r].pc \in {"done", "route"}
    BY <1>4, AnswerMoves, LimitedMoves DEF Carries
  <2>. QED BY <1>0, <1>1, <1>2, <2>1, TokensAlone
<1>5. CASE Unauthorized(r)
  <2>1. /\ Moves(r) /\ req'[r].pc \in {"done", "wait"}
        /\ req'[r].creds \in {None, req[r].creds}
        /\ req'[r].pc = "wait" => req'[r].want = req[r].creds
    BY <1>5, UnauthorizedMoves DEF Carries
  <2>2. req[r].creds \in Profiles
    BY <1>5 DEF Unauthorized, AttemptsInv, AttemptsOf
  <2>3. auth[req[r].creds] # None
    BY <1>0, <2>2, GatewayAssumption
  <2>. QED BY <1>0, <1>1, <1>2, <2>1, <2>3, TokensAlone
<1>6. CASE Failover(r) \/ Pick(r)
  <2>1. /\ Moves(r) /\ req'[r].creds \in {None, req[r].creds}
        /\ req'[r].pc \in {"done", "lookup", "pick"}
    BY <1>6, FailoverMoves, PickMoves DEF RoundBegins
  <2>. QED BY <1>0, <1>1, <1>2, <2>1, TokensAlone
<1>. QED BY <1>3, <1>4, <1>5, <1>6

LEMMA BystanderTokens ==
  ASSUME TypeOK, AttemptsInv, LockInv, TokenInv, Bystander
  PROVE  /\ AttemptsInv' /\ LockInv' /\ TokenInv'
         /\ \A p \in Profiles : (Calm(p)' => Calm(p)) /\ (auth[p] # None => auth'[p] # None)
<1>1. UNCHANGED <<req, wlock, broken, authority>>
  BY BystanderTypes
<1>2. AttemptsInv' /\ LockInv'
  BY <1>1 DEF AttemptsInv, AttemptsOf, LockInv, Writes, Breaks, NoRequest, NoRegistry
<1>3. \A p \in Profiles : /\ auth[p] # None => auth'[p] # None
                          /\ auth'[p] # None => auth[p] # None /\ auth'[p].token = auth[p].token
  <2>1. CASE UNCHANGED auth
    BY <2>1
  <2>2. ASSUME NEW x \in Profiles, Expire(x)
        PROVE  <1>3!:
    <3>1. auth[x] \in Auth /\ auth' = [auth EXCEPT ![x] = [auth[x] EXCEPT !.expiring = TRUE]]
      BY <2>2 DEF Expire, TypeOK
    <3>2. /\ auth'[x] \in [token : Nat, expiring : BOOLEAN]
          /\ auth'[x].token = auth[x].token
      BY <3>1 DEF TypeOK, Auth
    <3>3. auth'[x] # None
      BY <3>2, GatewayAssumption
    <3>. QED BY <2>2, <3>1, <3>2, <3>3 DEF Expire, TypeOK
  <2>. QED BY <2>1, <2>2 DEF Bystander, EditLoad, EditSave, Tick, tokens
<1>4. \A p \in Profiles : Calm(p)' => Calm(p)
  BY <1>1, GatewayAssumption DEF Bystander, EditLoad, EditSave, Expire, Tick, Calm, TypeOK
<1>5. ASSUME NEW s \in Requests
      PROVE  /\ req[s].pc \in {"wait", "break", "refresh"} => auth'[req[s].want] # None
             /\ req[s].creds # None => auth'[req[s].creds] # None
  <2>1. req[s] \in Request /\ AttemptsOf(req[s])
    BY DEF TypeOK, AttemptsInv
  <2>2. req[s].pc \in {"wait", "break", "refresh"} => req[s].want \in Profiles
    BY <2>1 DEF AttemptsOf, Asking
  <2>3. req[s].creds # None => req[s].creds \in Profiles
    BY <2>1 DEF Request
  <2>4. /\ req[s].pc \in {"wait", "break", "refresh"} => auth[req[s].want] # None
        /\ req[s].creds # None => auth[req[s].creds] # None
    BY DEF TokenInv
  <2>. QED BY <1>3, <2>2, <2>3, <2>4
<1>6. ASSUME NEW p \in Profiles, Calm(p)'
      PROVE  /\ auth'[p] # None => auth'[p].token = authority'[p]
             /\ \A s \in Requests : Writes(s, p)' => req'[s].doc = authority'[p]
  <2>1. /\ auth[p] # None => auth[p].token = authority[p]
        /\ \A s \in Requests : Writes(s, p) => req[s].doc = authority[p]
    BY <1>4, <1>6 DEF TokenInv
  <2>2. \A s \in Requests : Writes(s, p)' <=> Writes(s, p)
    BY <1>1 DEF Writes
  <2>. QED BY <1>1, <1>3, <2>1, <2>2
<1>7. TokenInv'
  BY <1>1, <1>5, <1>6 DEF TokenInv
<1>. QED BY <1>2, <1>3, <1>4, <1>7

-----------------------------------------------------------------------------
(* Routing                                                                 *)

\* What every step but an editor's leaves of logins and disturbances.
Onwards ==
  /\ edit' = edit
  /\ \A p \in Profiles : (Calm(p)' => Calm(p)) /\ (auth[p] # None => auth'[p] # None)

\* A step after which the registry and the suppressions are what they were.
LEMMA RouteKept ==
  ASSUME TypeOK, RouteInv, NEW r \in Requests, Moves(r), Onwards,
         UNCHANGED <<registry, exhausted>>,
         NoEditor => RouteOf(r)'
  PROVE  RouteInv'
<1>. SUFFICES ASSUME NoEditor'
              PROVE  /\ registry.active \in registry.ids \cup {None}
                     /\ \A s \in Requests : RouteOf(s)'
  BY DEF RouteInv
<1>1. NoEditor
  BY DEF NoEditor, Onwards
<1>2. registry.ids \subseteq Profiles
  BY DEF TypeOK, Registry
<1>3. ASSUME NEW s \in Requests, s # r PROVE RouteOf(s)'
  <2>1. req'[s] = req[s] /\ RouteOf(s)
    BY <1>1, <1>3 DEF Moves, RouteInv
  <2>2. HasLogin(registry.active) => HasLogin(registry.active)'
    BY <1>2 DEF HasLogin, Onwards
  <2>3. (\A p \in Profiles : Calm(p)') => \A p \in Profiles : Calm(p)
    BY DEF Onwards
  <2>. QED BY <2>1, <2>2, <2>3 DEF RouteOf, Routing, Asks
<1>. QED BY <1>1, <1>3 DEF RouteInv

\* A step of the only request that may be inside Failover.
LEMMA RouteAlone ==
  ASSUME TypeOK, RouteInv, NEW r \in Requests, Moves(r), edit' = edit,
         \A s \in Requests \ {r} : ~Routing(s),
         NoEditor => /\ registry'.active \in registry'.ids \cup {None}
                     /\ HasLogin(registry.active) => HasLogin(registry.active)'
                     /\ RouteOf(r)'
  PROVE  RouteInv'
<1>. SUFFICES ASSUME NoEditor'
              PROVE  /\ registry'.active \in registry'.ids \cup {None}
                     /\ \A s \in Requests : RouteOf(s)'
  BY DEF RouteInv
<1>1. NoEditor
  BY DEF NoEditor
<1>2. ASSUME NEW s \in Requests, s # r PROVE RouteOf(s)'
  <2>1. req'[s] = req[s] /\ RouteOf(s) /\ ~Routing(s)
    BY <1>1, <1>2 DEF Moves, RouteInv
  <2>2. ~Asks(s, "active") /\ ~Asks(s, "candidate") /\ req[s].pc # "pick"
    BY <2>1 DEF Routing, Asks, Asking
  <2>. QED BY <1>1, <2>1, <2>2 DEF RouteOf, Routing, Asks
<1>. QED BY <1>1, <1>2

LEMMA RouteGoesOn ==
  ASSUME TypeOK, RouteInv, NEW r \in Requests, NEW pc \in Asking,
         req[r].pc \in Asking, GoesOn(r, pc), Onwards, exhausted' = exhausted
  PROVE  RouteInv'
<1>1. NoEditor => RouteOf(r)'
  <2>. SUFFICES ASSUME NoEditor PROVE RouteOf(r)'
    OBVIOUS
  <2>1. RouteOf(r) /\ registry.ids \subseteq Profiles
    BY DEF RouteInv, TypeOK, Registry
  <2>2. HasLogin(registry.active) => HasLogin(registry.active)'
    BY <2>1 DEF HasLogin, Onwards, GoesOn
  <2>3. (\A p \in Profiles : Calm(p)') => \A p \in Profiles : Calm(p)
    BY DEF Onwards
  <2>. QED BY <2>1, <2>2, <2>3 DEF RouteOf, Routing, Asks, GoesOn, Carries, Asking
<1>. QED BY <1>1, RouteKept DEF GoesOn

\* A failover puts the candidate into the registry that is still what it has read.
LEMMA RouteObtained ==
  ASSUME TypeOK, AttemptsInv, RouteInv, NEW r \in Requests, req[r].pc \in Asking,
         Obtained(r), auth'[req[r].want] # None, Onwards, exhausted' = exhausted
  PROVE  RouteInv'
<1>1. /\ Moves(r) /\ req'[r].pc \in {"send", "done"}
      /\ req'[r].pc = "send" => req'[r].pin = req[r].pin
  BY ObtainedMoves
<1>2. registry.ids \subseteq Profiles
  BY DEF TypeOK, Registry
<1>3. CASE req[r].why # "candidate" \/ Unsaved(r)
  <2>1. registry' = registry
    BY <1>3 DEF Obtained, Taken, Unsaved
  <2>2. NoEditor => RouteOf(r)'
    <3>. SUFFICES ASSUME NoEditor PROVE RouteOf(r)'
      OBVIOUS
    <3>1. RouteOf(r)
      BY DEF RouteInv
    <3>2. HasLogin(registry.active) => HasLogin(registry.active)'
      BY <1>2, <2>1 DEF HasLogin, Onwards
    <3>. QED BY <1>1, <3>1, <3>2 DEF RouteOf, Routing, Asks, Asking
  <2>. QED BY <1>1, <2>1, <2>2, RouteKept
<1>4. CASE req[r].why = "candidate" /\ Taken(r)
  <2>1. Routing(r) /\ \A s \in Requests \ {r} : ~Routing(s)
    BY <1>4, GatewayAssumption DEF Routing, TypeOK, Asking
  <2>2. registry' = [req[r].copy EXCEPT !.active = req[r].want]
    BY <1>4 DEF Taken, UseCandidate
  <2>3. NoEditor => /\ registry'.active \in registry'.ids \cup {None}
                    /\ HasLogin(registry.active)'
                    /\ RouteOf(r)'
    <3>. SUFFICES ASSUME NoEditor
                  PROVE  /\ registry'.active \in registry'.ids \cup {None}
                         /\ HasLogin(registry.active)'
                         /\ RouteOf(r)'
      OBVIOUS
    <3>1. req[r].copy = registry /\ req[r].want \in registry.ids
      BY <1>4, <2>1 DEF RouteInv, RouteOf, Asks
    <3>2. registry'.active = req[r].want /\ registry'.ids = registry.ids
      BY <2>2, <3>1 DEF TypeOK, Registry
    <3>3. HasLogin(registry.active)'
      BY <3>1, <3>2 DEF HasLogin
    <3>. QED BY <1>1, <3>1, <3>2, <3>3 DEF RouteOf, Routing, Asks, Asking
  <2>. QED BY <1>1, <2>1, <2>3, RouteAlone DEF Onwards
<1>. QED BY <1>3, <1>4 DEF Obtained

\* Failover gives up the active profile only if it is suppressed or all is not well.
LEMMA RouteRefused ==
  ASSUME TypeOK, AttemptsInv, RouteInv, NEW r \in Requests, req[r].pc \in Asking,
         Refused(r), Onwards, exhausted' = exhausted,
         NEW want, want = req[r].want, ~HasLogin(want) \/ ~Calm(want)'
  PROVE  RouteInv'
<1>1. /\ Moves(r) /\ registry' = registry
      /\ \/ req'[r].pc = "done"
         \/ req[r].why \in Failing /\ req'[r].pc = "pick" /\ Carries(r)
  BY RefusedMoves DEF Refused
<1>2. NoEditor => RouteOf(r)'
  <2>. SUFFICES ASSUME NoEditor PROVE RouteOf(r)'
    OBVIOUS
  <2>1. RouteOf(r) /\ registry.ids \subseteq Profiles
    BY DEF RouteInv, TypeOK, Registry
  <2>2. HasLogin(registry.active) => HasLogin(registry.active)'
    BY <1>1, <2>1 DEF HasLogin, Onwards
  <2>3. CASE req'[r].pc = "done"
    BY <2>3 DEF RouteOf, Routing, Asks, Asking
  <2>4. CASE req[r].why \in Failing /\ req'[r].pc = "pick" /\ Carries(r)
    <3>1. Routing(r) /\ req[r].pc \notin {"idle", "done"}
      BY <2>4 DEF Routing, Asking, Failing
    <3>2. req[r].copy = registry /\ req[r].left \subseteq registry.ids
      BY <2>1, <3>1 DEF RouteOf
    <3>3. ~req[r].pin => HasLogin(registry.active)
      BY <2>1, <3>1 DEF RouteOf
    <3>4. ASSUME \A p \in Profiles : Calm(p)' PROVE exhausted[registry.active] # 0
      <4>1. req[r].want \in Profiles /\ ~req[r].pin
        BY <2>4 DEF AttemptsInv, AttemptsOf
      <4>2. ~HasLogin(req[r].want)
        BY <3>4, <4>1
      <4>3. req[r].why = "candidate"
        BY <2>1, <2>4, <3>3, <4>1, <4>2 DEF RouteOf, Asks, Failing
      <4>4. \A p \in Profiles : Calm(p)
        BY <3>4 DEF Onwards
      <4>. QED BY <2>1, <4>3, <4>4 DEF RouteOf, Asks
    <3>. QED BY <1>1, <2>2, <2>4, <3>2, <3>3, <3>4
         DEF RouteOf, Routing, Asks, Asking, Carries
  <2>. QED BY <1>1, <2>3, <2>4
<1>. QED BY <1>1, <1>2, RouteKept

LEMMA CredentialRoutes ==
  ASSUME TypeOK, AttemptsInv, LockInv, TokenInv, RouteInv, NEW r \in Requests,
         \/ Lookup(r) \/ TakeLock(r) \/ SeeStale(r) \/ BreakLock(r) \/ GiveUpLock(r)
         \/ Refresh(r) \/ Refreshed(r)
  PROVE  RouteInv'
<1>1. CASE Lookup(r)
  <2>. DEFINE want == req[r].want
  <2>1. UNCHANGED <<exhausted, broken, auth, edit>> /\ req[r].pc = "lookup"
    BY <1>1 DEF Lookup, tokens
  <2>2. /\ \/ ~HasLogin(want) /\ Refused(r)
           \/ HasLogin(want) /\ (Obtained(r) \/ GoesOn(r, "wait"))
        /\ count' = count \/ Failure
    BY <1>1, LookupMoves
  <2>3. Onwards
    BY <2>1, <2>2, FailureDisturbs DEF Onwards, Calm
  <2>4. HasLogin(want) => auth'[want] # None
    BY <2>1 DEF HasLogin
  <2>. HIDE DEF want
  <2>5. CASE ~HasLogin(want) /\ Refused(r)
    BY <2>1, <2>3, <2>5, RouteRefused DEF Asking, want
  <2>6. CASE HasLogin(want) /\ Obtained(r)
    BY <2>1, <2>3, <2>4, <2>6, RouteObtained DEF Asking, want
  <2>7. CASE GoesOn(r, "wait")
    BY <2>1, <2>3, <2>7, RouteGoesOn DEF Asking
  <2>. QED BY <2>2, <2>5, <2>6, <2>7
<1>2. CASE TakeLock(r) \/ SeeStale(r) \/ BreakLock(r)
  <2>1. PICK pc \in {"refresh", "break", "wait"} : GoesOn(r, pc)
    BY <1>2, TakeLockMoves, SeeStaleMoves, BreakLockMoves
  <2>2. /\ req[r].pc \in {"wait", "break"} /\ UNCHANGED <<exhausted, auth, edit, count>>
        /\ \A p \in Profiles : broken'[p] \in {broken[p], broken[p] + 1}
    <3>1. CASE TakeLock(r)
      BY <3>1 DEF TakeLock, route
    <3>2. CASE SeeStale(r)
      BY <3>2 DEF SeeStale, route, tokens
    <3>3. CASE BreakLock(r)
      BY <3>3 DEF BreakLock, route, TypeOK
    <3>. QED BY <1>2, <3>1, <3>2, <3>3
  <2>3. Onwards
    BY <2>2 DEF Onwards, Calm, TypeOK
  <2>. QED BY <2>1, <2>2, <2>3, RouteGoesOn DEF Asking
<1>3. CASE GiveUpLock(r)
  <2>1. /\ req[r].pc = "wait" /\ Refused(r) /\ Failure
        /\ UNCHANGED <<exhausted, auth, edit>>
    BY <1>3 DEF GiveUpLock, tokens
  <2>2. req[r].want \in Profiles
    BY <2>1 DEF AttemptsInv, AttemptsOf, Asking
  <2>3. \A p \in Profiles : ~Calm(p)'
    BY <2>1, FailureDisturbs
  <2>4. Onwards
    BY <2>1, <2>3 DEF Onwards
  <2>. QED BY <2>1, <2>2, <2>3, <2>4, RouteRefused DEF Asking
<1>4. CASE Refresh(r) \/ Refreshed(r)
  <2>0. PICK p \in Profiles : p = req[r].want
    BY <1>4, RefreshMoves
  <2>1. /\ req[r].pc = "refresh" /\ p \in Profiles
        /\ UNCHANGED <<broken, exhausted, edit>>
        /\ \/ /\ Obtained(r) /\ (count' = count \/ Failure)
              /\ \/ UNCHANGED <<auth, authority>>
                 \/ auth' = [auth EXCEPT ![p] =
                               [token |-> authority[p] + 1, expiring |-> FALSE]]
           \/ Refused(r) /\ Failure /\ UNCHANGED auth
           \/ Refused(r) /\ UNCHANGED <<auth, authority, count>> /\ req[r].doc # authority[p]
    BY <1>4, <2>0, RefreshMoves
  <2>2. auth[p] # None
    BY <2>0, <2>1 DEF TokenInv
  <2>3. \A x \in Profiles : (Calm(x)' => Calm(x)) /\ (auth[x] # None => auth'[x] # None)
    <3>1. \A x \in Profiles : Calm(x)' => Calm(x)
      BY <2>1, FailureDisturbs DEF Calm
    <3>2. [token |-> authority[p] + 1, expiring |-> FALSE] # None
      <4>1. [token |-> authority[p] + 1, expiring |-> FALSE]
               \in [token : Nat, expiring : BOOLEAN]
        BY <2>1 DEF TypeOK
      <4>. QED BY <4>1, GatewayAssumption
    <3>. QED BY <2>1, <3>1, <3>2 DEF TypeOK
  <2>4. Onwards
    BY <2>1, <2>3 DEF Onwards
  <2>5. CASE Obtained(r)
    BY <2>0, <2>1, <2>2, <2>3, <2>4, <2>5, RouteObtained DEF Asking
  <2>6. CASE Refused(r)
    <3>1. CASE Failure
      <4>1. ~Calm(p)'
        BY <3>1, FailureDisturbs
      <4>. QED BY <2>0, <2>1, <2>4, <2>6, <4>1, RouteRefused DEF Asking
    <3>2. CASE req[r].doc # authority[p] /\ UNCHANGED count
      <4>1. ~Calm(p)
        BY <2>0, <2>1, <3>2 DEF TokenInv, Writes
      <4>2. ~Calm(p)'
        BY <2>1, <2>3, <4>1
      <4>. QED BY <2>0, <2>1, <2>4, <2>6, <4>2, RouteRefused DEF Asking
    <3>3. CASE Obtained(r)
      BY <2>5, <3>3
    <3>. QED BY <2>1, <3>1, <3>2, <3>3
  <2>. QED BY <2>1, <2>5, <2>6
<1>. QED BY <1>1, <1>2, <1>3, <1>4

LEMMA RoundTripRoutes ==
  ASSUME TypeOK, AttemptsInv, RouteInv, NEW r \in Requests,
         \/ Arrive(r) \/ Answer(r) \/ Unauthorized(r) \/ Limited(r)
         \/ Failover(r) \/ Pick(r)
  PROVE  RouteInv'
<1>1. UNCHANGED <<registry, auth, broken, edit>> /\ (count' = count \/ Failure)
  BY DEF Arrive, Answer, Unauthorized, Limited, Failover, Pick, tokens
<1>2. Onwards /\ (HasLogin(registry.active) => HasLogin(registry.active)')
  BY <1>1, FailureDisturbs DEF Onwards, Calm, HasLogin
<1>3. registry.ids \subseteq Profiles /\ None \notin Profiles
  BY GatewayAssumption DEF TypeOK, Registry
<1>4. CASE Arrive(r) \/ Answer(r) \/ Unauthorized(r) \/ Limited(r)
  <2>1. exhausted' = exhausted
    BY <1>4 DEF Arrive, Answer, Unauthorized, Limited, route
  <2>2. /\ Moves(r)
        /\ \/ req'[r].pc = "done"
           \/ /\ req[r].pc = "idle" /\ req'[r].pc = "lookup" /\ req'[r].why = "start"
              /\ ~req'[r].pin => registry.active # None /\ auth[registry.active] # None
           \/ /\ req[r].pc = "send" /\ req'[r].pin = req[r].pin
              /\ \/ req'[r].pc = "wait" /\ req'[r].why = "retry"
                 \/ req'[r].pc = "route"
    BY <1>4, ArriveMoves, AnswerMoves, UnauthorizedMoves, LimitedMoves DEF Carries
  <2>3. NoEditor => RouteOf(r)'
    <3>. SUFFICES ASSUME NoEditor PROVE RouteOf(r)'
      OBVIOUS
    <3>1. RouteOf(r) /\ registry.active \in registry.ids \cup {None}
      BY DEF RouteInv
    <3>2. ~Routing(r)' /\ ~Asks(r, "active")' /\ ~Asks(r, "candidate")'
          /\ req'[r].pc # "pick"
      BY <2>2 DEF Routing, Asks, Asking
    <3>3. ~req'[r].pin /\ req'[r].pc \notin {"idle", "done"} => HasLogin(registry.active)
      BY <2>2, <3>1 DEF RouteOf, HasLogin
    <3>. QED BY <1>2, <3>2, <3>3 DEF RouteOf
  <2>. QED BY <1>1, <1>2, <2>1, <2>2, <2>3, RouteKept
<1>5. CASE Failover(r)
  <2>1. \A s \in Requests : ~Routing(s)
    BY <1>5, GatewayAssumption DEF Failover, RouteMuFree, TypeOK
  <2>2. /\ Moves(r) /\ req[r].pc = "route" /\ ~req[r].pin
        /\ req'[r].pc = "done" \/ RoundBegins(r)
    BY <1>5, FailoverMoves
  <2>3. NoEditor => RouteOf(r)'
    <3>. SUFFICES ASSUME NoEditor PROVE RouteOf(r)'
      OBVIOUS
    <3>1. HasLogin(registry.active) /\ registry.active # None
      BY <1>3, <2>2 DEF RouteInv, RouteOf, HasLogin
    <3>2. CASE req'[r].pc = "done"
      BY <3>2 DEF RouteOf, Routing, Asks, Asking
    <3>3. CASE RoundBegins(r)
      BY <1>1, <1>2, <2>2, <3>1, <3>3 DEF RouteOf, Asks, Asking, RoundBegins
    <3>. QED BY <2>2, <3>2, <3>3
  <2>4. NoEditor => registry.active \in registry.ids \cup {None}
    BY DEF RouteInv
  <2>. QED BY <1>1, <1>2, <2>1, <2>2, <2>3, <2>4, RouteAlone
<1>6. CASE Pick(r)
  <2>1. exhausted' = exhausted
    BY <1>6 DEF Pick
  <2>2. /\ Moves(r) /\ req[r].pc = "pick" /\ ~req[r].pin
        /\ \/ req'[r].pc = "done"
           \/ /\ req'[r].pc = "lookup" /\ req'[r].why = "candidate" /\ ~req'[r].pin
              /\ req'[r].copy = req[r].copy
              /\ req'[r].want \in req[r].left /\ req'[r].left \subseteq req[r].left
    BY <1>6, PickMoves
  <2>3. NoEditor => RouteOf(r)'
    <3>. SUFFICES ASSUME NoEditor PROVE RouteOf(r)'
      OBVIOUS
    <3>1. /\ HasLogin(registry.active)
          /\ req[r].copy = registry /\ req[r].left \subseteq registry.ids
          /\ (\A p \in Profiles : Calm(p)) => exhausted[registry.active] # 0
      BY <2>2 DEF RouteInv, RouteOf, Routing
    <3>2. (\A p \in Profiles : Calm(p)') => \A p \in Profiles : Calm(p)
      BY <1>2 DEF Onwards
    <3>. QED BY <1>1, <1>2, <2>1, <2>2, <3>1, <3>2 DEF RouteOf, Routing, Asks, Asking
  <2>. QED BY <1>1, <1>2, <2>1, <2>2, <2>3, RouteKept
<1>. QED BY <1>4, <1>5, <1>6

LEMMA BystanderRoutes ==
  ASSUME TypeOK, AttemptsInv, LockInv, TokenInv, RouteInv, Bystander
  PROVE  RouteInv'
<1>1. CASE \E e \in Editors : EditLoad(e) \/ EditSave(e)
  <2>1. ~NoEditor'
    BY <1>1 DEF EditLoad, EditSave, NoEditor, TypeOK
  <2>. QED BY <2>1 DEF RouteInv
<1>2. CASE ~\E e \in Editors : EditLoad(e) \/ EditSave(e)
  <2>1. UNCHANGED <<registry, edit, req, exhausted>>
    BY <1>2, BystanderTypes DEF Bystander, Expire, Tick, route
  <2>2. \A p \in Profiles : (Calm(p)' => Calm(p)) /\ (auth[p] # None => auth'[p] # None)
    BY BystanderTokens
  <2>. SUFFICES ASSUME NoEditor'
                PROVE  /\ registry'.active \in registry'.ids \cup {None}
                       /\ \A r \in Requests : RouteOf(r)'
    BY DEF RouteInv
  <2>3. NoEditor /\ registry.ids \subseteq Profiles
    BY <2>1 DEF NoEditor, TypeOK, Registry
  <2>4. registry'.active \in registry'.ids \cup {None}
    BY <2>1, <2>3 DEF RouteInv
  <2>5. ASSUME NEW r \in Requests PROVE RouteOf(r)'
    <3>1. RouteOf(r)
      BY <2>3 DEF RouteInv
    <3>2. HasLogin(registry.active) => HasLogin(registry.active)'
      BY <2>1, <2>2, <2>3 DEF HasLogin
    <3>3. (\A p \in Profiles : Calm(p)') => \A p \in Profiles : Calm(p)
      BY <2>2
    <3>. QED BY <2>1, <3>1, <3>2, <3>3 DEF RouteOf, Routing, Asks
  <2>. QED BY <2>4, <2>5
<1>. QED BY <1>1, <1>2

-----------------------------------------------------------------------------
(* The invariant                                                           *)

LEMMA InitInv == Init => Inv
<1>. SUFFICES ASSUME Init PROVE Inv
  OBVIOUS
<1>1. registry \in Registry /\ registry.active \in registry.ids \cup {None}
  <2>1. PICK a \in (IF Registered = {} THEN {None} ELSE First(Registered)) :
          registry = [ids |-> Registered, active |-> a]
    BY DEF Init
  <2>2. a \in Registered \cup {None}
    BY <2>1 DEF First
  <2>. QED BY <2>1, <2>2, GatewayAssumption DEF Registry
<1>2. \A r \in Requests : req[r] = NoRequest
  BY DEF Init
<1>3. NoRequest.pc = "idle" /\ NoRequest.creds = None
  BY DEF NoRequest
<1>4. TypeOK
  <2>1. req \in [Requests -> Request]
    BY NothingYet DEF Init
  <2>2. /\ exhausted \in [Profiles -> Until] /\ clock \in 0..MaxClock
        /\ count \in [expiry : 0..MaxExpiries, failure : 0..MaxFailures]
    BY GatewayAssumption DEF Init, Until
  <2>3. /\ wlock \in [Profiles -> Requests \cup {None, Dead}]
        /\ \A r \in Requests, p \in Profiles : wlock[p] # r
    BY GatewayAssumption DEF Init
  <2>4. /\ broken \in [Profiles -> Nat] /\ authority \in [Profiles -> Nat]
        /\ auth \in [Profiles -> Auth \cup {None}]
    BY DEF Init, Auth
  <2>5. edit \in [Editors -> [pc : {"idle", "loaded", "done"}, copy : Registry]]
    BY DEF Init, NoRegistry, Registry
  <2>6. routeMu = None /\ \A r \in Requests : ~Routing(r)
    BY <1>2, <1>3 DEF Init, Routing
  <2>. QED BY <1>1, <2>1, <2>2, <2>3, <2>4, <2>5, <2>6, GatewayAssumption DEF TypeOK
<1>5. AttemptsInv
  BY <1>2, NothingYet DEF AttemptsInv
<1>6. LockInv
  BY <1>2, <1>3 DEF LockInv, Writes, Breaks
<1>7. TokenInv
  <2>1. \A p \in Profiles : auth[p] # None => auth[p].token = authority[p]
    BY DEF Init
  <2>. QED BY <1>2, <1>3, <2>1 DEF TokenInv, Writes
<1>8. RouteInv
  BY <1>1, <1>2, <1>3 DEF RouteInv, RouteOf, Routing, Asks, Asking
<1>. QED BY <1>4, <1>5, <1>6, <1>7, <1>8 DEF Inv

LEMMA NextInv == Inv /\ [Next]_vars => Inv'
<1>. SUFFICES ASSUME Inv, [Next]_vars PROVE Inv'
  OBVIOUS
<1>. USE DEF Inv
<1>1. ASSUME NEW r \in Requests,
             \/ Lookup(r) \/ TakeLock(r) \/ SeeStale(r) \/ BreakLock(r) \/ GiveUpLock(r)
             \/ Refresh(r) \/ Refreshed(r)
      PROVE  Inv'
  <2>1. Moves(r)
    BY <1>1, LookupMoves, TakeLockMoves, SeeStaleMoves, BreakLockMoves, RefreshMoves,
       ObtainedMoves, RefusedMoves DEF GoesOn, GiveUpLock, Asking
  <2>. QED BY <1>1, <2>1, CredentialTypes, AttemptsKept, CredentialLocks,
             CredentialTokens, CredentialRoutes
<1>2. ASSUME NEW r \in Requests,
             \/ Arrive(r) \/ Answer(r) \/ Unauthorized(r) \/ Limited(r)
             \/ Failover(r) \/ Pick(r)
      PROVE  Inv'
  <2>1. Moves(r) /\ req'[r].pc \notin {"refresh", "break"}
    BY <1>2, ArriveMoves, AnswerMoves, UnauthorizedMoves, LimitedMoves,
       FailoverMoves, PickMoves DEF RoundBegins
  <2>2. UNCHANGED <<wlock, broken>>
    BY <1>2 DEF Arrive, Answer, Unauthorized, Limited, Failover, Pick, tokens
  <2>. QED BY <1>2, <2>1, <2>2, RoundTripTypes, AttemptsKept, LockKept,
             RoundTripTokens, RoundTripRoutes
<1>3. CASE Bystander
  BY <1>3, BystanderTypes, BystanderTokens, BystanderRoutes
<1>4. CASE UNCHANGED vars
  BY <1>4 DEF vars, route, tokens, TypeOK, AttemptsInv, AttemptsOf, NoRequest, NoRegistry,
     LockInv, TokenInv, RouteInv, RouteOf, NoEditor, Calm, Asks, Writes, Breaks, Routing,
     HasLogin, Failing
<1>. QED BY <1>1, <1>2, <1>3, <1>4 DEF Next, Step, Bystander

\* The inductive invariant holds in every reachable state.
THEOREM GatewayInvariant == Spec => []Inv
BY InitInv, NextInv, PTL DEF Spec

\* Every reachable state is well-typed, the routing mutex is held by whoever is inside
\* Failover and by nobody else, and every write lock that a request has made is one it
\* still works under.
THEOREM TypeCorrect == Spec => []TypeOK
BY GatewayInvariant, PTL DEF Inv

\* A request is sent with each profile at most once, and once more after a refresh, and
\* a pinned one with its profile only: rotation is bounded (gateway.go:368-439).
THEOREM RotationBounded == Spec => []AttemptsBounded
<1>1. Inv => AttemptsBounded
  BY DEF Inv, AttemptsInv, AttemptsOf, AttemptsBounded
<1>. QED BY <1>1, GatewayInvariant, PTL

\* Two requests write one auth.json only once its lock was removed twice
\* (lock.go:16-41).
THEOREM Serialized == Spec => []WritersSerialized
<1>1. Inv => WritersSerialized
  <2>. SUFFICES ASSUME Inv, NEW r \in Requests, NEW s \in Requests, NEW p \in Profiles,
                       r # s, Writes(r, p), Writes(s, p)
                PROVE  broken[p] >= 2
    BY DEF WritersSerialized
  <2>1. broken[p] \in Nat
    BY DEF Inv, TypeOK
  <2>. QED BY <2>1 DEF Inv, LockInv
<1>. QED BY <1>1, GatewayInvariant, PTL

\* No request presents a refresh token that the authority has replaced, while nothing
\* has failed and no lock was removed twice (broker.go:117-166).
THEOREM SingleUse == Spec => []RefreshSingleUse
<1>1. Inv => RefreshSingleUse
  <2>. SUFFICES ASSUME Inv, NEW r \in Requests, req[r].pc = "refresh",
                       count.failure = 0, broken[req[r].want] < 2
                PROVE  req[r].doc = authority[req[r].want]
    BY DEF RefreshSingleUse
  <2>1. req[r].want \in Profiles
    BY DEF Inv, AttemptsInv, AttemptsOf, Asking
  <2>. QED BY <2>1 DEF Inv, TokenInv, Calm, Writes
<1>. QED BY <1>1, GatewayInvariant, PTL

\* Only failover, with a candidate, and the editors write the registry.
LEMMA RegistryWriters ==
  ASSUME Inv, [Next]_vars, registry' # registry
  PROVE  \/ \E r \in Requests : Asks(r, "candidate")
         \/ \E e \in Editors : EditSave(e)
<1>1. ASSUME NEW r \in Requests,
             \/ Lookup(r) \/ TakeLock(r) \/ SeeStale(r) \/ BreakLock(r) \/ GiveUpLock(r)
             \/ Refresh(r) \/ Refreshed(r)
      PROVE  Asks(r, "candidate")
  <2>1. Obtained(r) /\ req[r].pc \in Asking
    BY <1>1, LookupMoves, TakeLockMoves, SeeStaleMoves, BreakLockMoves, RefreshMoves
       DEF GoesOn, GiveUpLock, Refused, Asking, Inv
  <2>. QED BY <2>1 DEF Obtained, Taken, Unsaved, Asks
<1>2. ASSUME NEW r \in Requests,
             \/ Arrive(r) \/ Answer(r) \/ Unauthorized(r) \/ Limited(r)
             \/ Failover(r) \/ Pick(r)
      PROVE  FALSE
  BY <1>2 DEF Arrive, Answer, Unauthorized, Limited, Failover, Pick
<1>3. Bystander => \E e \in Editors : EditSave(e)
  BY DEF Bystander, EditLoad, Expire, Tick
<1>. QED BY <1>1, <1>2, <1>3 DEF Next, Step, Bystander, vars

\* While nobody else writes the registry, nothing has failed and no lock was removed
\* twice, failover abandons the active profile only once it is suppressed after a
\* confirmed usage limit (broker.go:195-233).
THEOREM LeavesLimited == Spec => LeavesOnlyLimited
<1>. DEFINE A == /\ count.failure = 0 /\ \A p \in Profiles : broken[p] < 2
                 /\ \A e \in Editors : edit[e].pc = "idle"
                 /\ registry'.active # registry.active
                 => exhausted[registry.active] # 0
<1>1. Inv /\ [Next]_vars => A
  <2>. SUFFICES ASSUME Inv, [Next]_vars, registry' # registry,
                       count.failure = 0, \A p \in Profiles : broken[p] < 2,
                       \A e \in Editors : edit[e].pc = "idle"
                PROVE  exhausted[registry.active] # 0
    OBVIOUS
  <2>1. PICK r \in Requests : Asks(r, "candidate")
    BY RegistryWriters DEF EditSave
  <2>2. RouteOf(r) /\ \A p \in Profiles : Calm(p)
    BY DEF Inv, RouteInv, NoEditor, Calm
  <2>. QED BY <2>1, <2>2 DEF RouteOf
<1>2. Inv /\ [Next]_vars => [A]_vars
  BY <1>1
<1>3. Spec => [][A]_vars
  BY <1>2, GatewayInvariant, PTL DEF Spec
<1>. QED BY <1>3 DEF LeavesOnlyLimited

=============================================================================
