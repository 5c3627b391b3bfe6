----------------------------- MODULE Continuity -----------------------------
(***************************************************************************)
(* Antigravity turns and the continuity of their conversations: the replay *)
(* cache (internal/antigravity/replay.go), which remembers the router's    *)
(* call handles and the account of each conversation across restarts, the  *)
(* resolution of a turn's session and wire model (session.go) and the turn *)
(* itself (client.go, accounts.go).  The account pool is what it promises, *)
(* SessionAffinity, which AccountPool implements.                          *)
(*                                                                         *)
(* A handle stands for a function call of the model with its name and      *)
(* arguments; a turn shows the handles its client has been given.  Every   *)
(* critical section of ReplayCache.mu is an action, but a turn's lookups,  *)
(* which follow each other at once, are one.                               *)
(***************************************************************************)
EXTENDS Integers, FiniteSets

CONSTANTS
  Requests,   \* goroutines serving turns, each over and over
  Sessions,   \* conversation identities
  Profiles,   \* account ids
  Models,     \* wire models
  Calls,      \* call handles, random and so used once
  None,
  Max,        \* ReplayCache.max
  TTL, Retention,   \* the sliding and the absolute lifetime
  MaxTime, MaxCrashes, MaxFaults,  \* bounds on the clock and the environment
  MaxTrouble   \* and on ticks, crashes and failed writes together

CONSTANT Family(_)   \* continuityModelFamily

Keys == Models \X Sessions
Time == 0..(MaxTime + TTL)
Call == [profile : Profiles, key : Keys, created : Time, expires : Time]
Bound == [profile : Profiles, created : Time, used : Time, expires : Time]
Route == [profile : Profiles, key : Keys, at : Time]

ASSUME ContinuityAssumption ==
  /\ None \notin Requests \cup Sessions \cup Profiles \cup Call \cup Bound \cup Route
  /\ Max \in Nat \ {0} /\ TTL \in Nat \ {0} /\ Retention \in Nat /\ TTL <= Retention
  /\ {MaxTime, MaxCrashes, MaxFaults, MaxTrouble} \subseteq Nat

VARIABLES
  now,
  mem,      \* ReplayCache.calls and .sessions
  disk,     \* continuity.json
  holder, account,   \* the pool: see SessionAffinity
  turn,     \* where each request stands
  made,     \* history: the route a handle was made on, and when
  count     \* crashes and failed writes so far

pool == <<holder, account>>
vars == <<now, mem, disk, pool, turn, made, count>>

Pool == INSTANCE SessionAffinity

Store == [call : [Calls -> Call \cup {None}], session : [Keys -> Bound \cup {None}]]

\* shown are the handles of function calls in the current turn; history says
\* whether there is any function call, be it of a completed turn.
Turn == [pc : {"idle", "acquiring", "leased", "preparing", "sending", "bound",
               "streaming", "calling", "leaving"},
         model : Models \cup {None}, session : Sessions \cup {None},
         shown : SUBSET Calls, history : BOOLEAN, explicit : BOOLEAN,
         profile : Profiles \cup {None}, attempted : BOOLEAN]

NoTurn == [pc |-> "idle", model |-> None, session |-> None, shown |-> {},
           history |-> FALSE, explicit |-> FALSE, profile |-> None,
           attempted |-> FALSE]

\* The types, and that a lease is held exactly while its turn needs it.
TypeOK ==
  /\ now \in 0..MaxTime
  /\ mem \in Store /\ disk \in Store
  /\ holder \in [Sessions -> Requests \cup {None}]
  /\ account \in [Sessions -> Profiles \cup {None}]
  /\ turn \in [Requests -> Turn]
  /\ made \in [Calls -> Route \cup {None}]
  /\ count \in [crash : 0..MaxCrashes, fault : 0..MaxFaults]
  /\ \A r \in Requests, s \in Sessions :
       holder[s] = r <=> turn[r].session = s /\ turn[r].pc \notin {"idle", "acquiring"}

Init ==
  /\ now = 0
  /\ mem = [call |-> [c \in Calls |-> None], session |-> [k \in Keys |-> None]]
  /\ disk = mem
  /\ Pool!Init
  /\ turn = [r \in Requests |-> NoTurn]
  /\ made = [c \in Calls |-> None]
  /\ count = [crash |-> 0, fault |-> 0]

-----------------------------------------------------------------------------
(* The replay cache                                                        *)

Earlier(a, b) == IF a < b THEN a ELSE b

ExtendExpiry(created) == Earlier(now + TTL, created + Retention)

Alive(record) == record # None /\ record.expires > now

CallsOf(st, k) == {c \in Calls : st.call[c] # None /\ st.call[c].key = k}

Without(st, gone, keys) ==
  [call |-> [c \in Calls |-> IF c \in gone THEN None ELSE st.call[c]],
   session |-> [k \in Keys |-> IF k \in keys THEN None ELSE st.session[k]]]

DeleteSessionOnly(st, keys) == Without(st, {}, keys)

\* deleteSessionLocked: a conversation goes with all its calls.
DeleteSessions(st, keys) == Without(st, UNION {CallsOf(st, k) : k \in keys}, keys)

Sweep(st) ==
  LET dead == {c \in Calls : ~Alive(st.call[c])}
  IN DeleteSessions(Without(st, dead, {}),
                    {k \in Keys : st.session[k] # None /\ ~Alive(st.session[k])})

EnsureCapacityByCall(st, k) ==
  LET held == {c \in Calls : st.call[c] # None}
      oldest == {c \in held : \A d \in held : st.call[c].created <= st.call[d].created}
  IN IF Cardinality(held) < Max THEN {st} ELSE {Without(st, {c}, {}) : c \in oldest}

\* ensureCapacityLocked, for the conversation k: at the limit the one used least
\* recently goes, if there is another.
EnsureCapacity(st, k) ==
  LET held == {c \in Calls : st.call[c] # None}
      others == {o \in Keys \ {k} : st.session[o] # None}
      oldest == {o \in others : \A q \in others :
                   st.session[o].used <= st.session[q].used}
  IN IF Cardinality(held) < Max \/ others = {} THEN {st}
     ELSE {DeleteSessions(st, {o}) : o \in oldest}

Touch(record) ==
  [record EXCEPT !.used = now, !.expires = ExtendExpiry(record.created)]

BindOnce(st, k, p) ==
  IF st.session[k] = None
    THEN [st EXCEPT !.session[k] = [profile |-> p, created |-> now, used |-> now,
                                    expires |-> ExtendExpiry(now)]]
    ELSE st

\* bindSessionLocked: another account's conversation is left alone.
Bind(st, k, p) ==
  IF st.session[k] = None
    THEN [st EXCEPT !.session[k] = [profile |-> p, created |-> now, used |-> now,
                                    expires |-> ExtendExpiry(now)]]
  ELSE IF st.session[k].profile = p THEN [st EXCEPT !.session[k] = Touch(@)]
  ELSE st

\* lookupCallIdentity of some handles: what has expired goes, what is found lives on.
LookUp(st, cs) ==
  LET found == {c \in cs : Alive(st.call[c])}
      kept == Without(st, cs \ found, {})
      keys == {st.call[c].key : c \in found}
  IN [call |-> [c \in Calls |->
        IF c \in found THEN [kept.call[c] EXCEPT !.expires = ExtendExpiry(kept.call[c].created)]
        ELSE kept.call[c]],
      session |-> [k \in Keys |->
        IF k \in keys /\ kept.session[k] # None THEN Touch(kept.session[k])
        ELSE kept.session[k]]]

Untroubled == now + count.fault + count.crash < MaxTrouble

\* persistLocked, whose error every caller ignores.
Persist(st) ==
  /\ mem' = st
  /\ \/ disk' = st /\ UNCHANGED count
     \/ /\ count.fault < MaxFaults /\ Untroubled
        /\ count' = [count EXCEPT !.fault = @ + 1]
        /\ UNCHANGED disk

-----------------------------------------------------------------------------
(* A turn                                                                  *)

Issued == {c \in Calls : made[c] # None}

\* An id nobody has had: what a random one is.
Fresh(s) ==
  /\ holder[s] = None /\ account[s] = None
  /\ \A k \in Keys : k[2] = s => mem.session[k] = None
  /\ \A c \in Issued : made[c].key[2] # s

\* The routes that resolveContinuity may find for a turn with tool history: that
\* of the handles shown, which must agree; or of a surviving older one; or what
\* the client says.
Routes(explicit, m, shown, old) ==
  LET Fits(c) == Alive(mem.call[c]) /\ explicit \in {None, mem.call[c].key[2]}
      shownKeys == {mem.call[c].key : c \in {c \in shown : Fits(c)}}
      oldKeys == {mem.call[c].key : c \in {c \in old : Fits(c)}}
      found == IF shown # {}
                 THEN IF (\A c \in shown : Fits(c)) /\ Cardinality(shownKeys) = 1
                        THEN shownKeys ELSE {}
               ELSE IF oldKeys # {} THEN oldKeys
               ELSE IF explicit # None THEN {<<m, explicit>>} ELSE {}
  IN {k \in found : Family(k[1]) = Family(m)}

\* The routes a turn may get: without history, the conversation the client says,
\* or a new one.
Openings(explicit, m, history, shown, old) ==
  IF history THEN Routes(explicit, m, shown, old)
  ELSE {m} \X (IF explicit # None THEN {explicit} ELSE {s \in Sessions : Fresh(s)})

Opened(k, shown, history) ==
  [NoTurn EXCEPT !.pc = "acquiring", !.model = k[1], !.session = k[2],
                 !.shown = shown, !.history = history]

\* ServeResponses up to the lease.  Only the lookups up to the one that decides
\* happen.
Resolve(r) ==
  /\ turn[r].pc = "idle"
  /\ \E explicit \in Sessions \cup {None}, m \in Models, history \in BOOLEAN,
        shown \in SUBSET Issued :
     \E old \in IF shown = {} THEN SUBSET Issued ELSE {{}} :
       /\ shown \cup old # {} => history
       /\ LET routes == Openings(explicit, m, history, shown, old)
          IN \E seen \in SUBSET (shown \cup old) :
               /\ routes # {} /\ shown # {} => seen = shown
               /\ mem' = LookUp(mem, seen)
               /\ IF routes = {} THEN UNCHANGED turn
                  ELSE \E k \in routes :
                    turn' = [turn EXCEPT ![r] = Opened(k, shown, history)]
  /\ UNCHANGED <<now, disk, pool, made, count>>

\* The pool's lease; or the client leaves, or the pool is full.
Acquire(r) ==
  /\ turn[r].pc = "acquiring"
  /\ \/ /\ Pool!Admit(r, turn[r].session)
        /\ turn' = [turn EXCEPT ![r].pc = "leased"]
     \/ turn' = [turn EXCEPT ![r] = NoTurn] /\ UNCHANGED pool
  /\ UNCHANGED <<now, mem, disk, made, count>>

KeyOf(r) == <<turn[r].model, turn[r].session>>

RefusedKeepsLease(r) == turn' = [turn EXCEPT ![r] = NoTurn]

\* The turn is over but for its lease.
Refused(r) ==
  turn' = [turn EXCEPT ![r] = [NoTurn EXCEPT !.pc = "leaving",
                                             !.session = turn[r].session]]

\* SessionProfile: an expired conversation goes.
Restored(k) ==
  IF mem.session[k] # None /\ ~Alive(mem.session[k]) THEN DeleteSessions(mem, {k}) ELSE mem

\* Selector, binding, and for a conversation without either any account.
Choices(bound, selector) ==
  IF selector # None THEN {selector} ELSE IF bound # None THEN {bound} ELSE Profiles

\* RestoreProfile with the persisted account, then Select, whose selector is as
\* good as any: it may also find the account gone.
Select(r) ==
  LET t == turn[r]
      s == t.session
      record == Restored(KeyOf(r)).session[KeyOf(r)]
      bound == IF record = None THEN account[s] ELSE record.profile
      conflict == account[s] \notin {None, bound}
      Lost(selector) == t.history /\ (bound = None \/ selector \notin {None, bound})
  IN /\ t.pc = "leased"
     /\ mem' = Restored(KeyOf(r))
     /\ \/ /\ Refused(r)
           /\ IF conflict THEN UNCHANGED pool ELSE Pool!Bind(s, bound)
        \/ /\ ~conflict
           /\ \E selector \in Profiles \cup {None} : \E p \in Choices(bound, selector) :
                /\ ~Lost(selector)
                /\ Pool!Bind(s, p)
                /\ turn' = [turn EXCEPT ![r].pc = "preparing", ![r].profile = p,
                                       ![r].explicit = (selector # None)]
     /\ UNCHANGED <<now, disk, made, count>>

\* The handles shown are this conversation's, on this account.
ValidIgnoringProfile(r) ==
  \A c \in turn[r].shown : Alive(mem.call[c]) /\ mem.call[c].key = KeyOf(r)

Valid(r) ==
  \A c \in turn[r].shown :
    /\ Alive(mem.call[c])
    /\ mem.call[c].key = KeyOf(r) /\ mem.call[c].profile = turn[r].profile

\* prepareRequestForWireModel, which looks at all handles once more, those of
\* completed turns too, and may find the request wanting.
Prepare(r) ==
  /\ turn[r].pc = "preparing"
  /\ \E old \in SUBSET Issued :
       /\ old # {} => turn[r].history
       /\ mem' = LookUp(mem, turn[r].shown \cup old)
  /\ \/ Refused(r)
     \/ Valid(r) /\ turn' = [turn EXCEPT ![r].pc = "sending"]
  /\ UNCHANGED <<now, disk, pool, made, count>>

\* 429, verified exhaustion, and an alternate verified usable.
Failover(r) ==
  LET t == turn[r] IN
  /\ t.pc = "sending" /\ ~t.history /\ ~t.explicit /\ ~t.attempted
  /\ \E p \in Profiles \ {t.profile} :
       turn' = [turn EXCEPT ![r].profile = p, ![r].attempted = TRUE]
  /\ UNCHANGED <<now, mem, disk, pool, made, count>>

\* What a turn is from its success on; the rest no longer matters.
Working(t, pc) ==
  [NoTurn EXCEPT !.pc = pc, !.model = t.model, !.session = t.session,
                 !.profile = t.profile]

\* 2xx: ObserveSuccess,
Succeed(r) ==
  /\ turn[r].pc = "sending"
  /\ Pool!Bind(turn[r].session, turn[r].profile)
  /\ turn' = [turn EXCEPT ![r] = [Working(@, "bound") EXCEPT !.attempted = turn[r].attempted]]
  /\ UNCHANGED <<now, mem, disk, made, count>>

\* and BindSession, which keeps its hands off a conversation that has calls with
\* another account.
BindSession(r) ==
  LET k == KeyOf(r)
      p == turn[r].profile
      swept == Sweep(mem)
      foreign == swept.session[k] # None /\ swept.session[k].profile # p
  IN /\ turn[r].pc = "bound"
     /\ turn' = [turn EXCEPT ![r] = Working(@, "streaming")]
     /\ IF foreign /\ CallsOf(swept, k) # {}
          THEN mem' = swept /\ UNCHANGED <<disk, count>>
          ELSE Persist(Bind(IF foreign THEN Without(swept, {}, {k}) ELSE swept, k, p))
     /\ UNCHANGED <<now, pool, made>>

\* A function call in the stream.  Its signature, if it has one, is remembered
\* on its own,
Remember(r) ==
  /\ turn[r].pc = "streaming"
  /\ turn' = [turn EXCEPT ![r].pc = "calling"]
  /\ \E st \in EnsureCapacity(Sweep(mem), KeyOf(r)) :
       Persist(Bind(st, KeyOf(r), turn[r].profile))
  /\ UNCHANGED <<now, pool, made>>

\* and then the call, whose handle goes to the client.
RememberCall(r) ==
  LET k == KeyOf(r)
      p == turn[r].profile
  IN /\ turn[r].pc \in {"streaming", "calling"} /\ Calls # Issued
     /\ turn' = [turn EXCEPT ![r].pc = "streaming"]
     /\ LET c == CHOOSE c \in Calls : made[c] = None
            call == [profile |-> p, key |-> k, created |-> now,
                     expires |-> ExtendExpiry(now)]
        IN /\ made' = [made EXCEPT ![c] = [profile |-> p, key |-> k, at |-> now]]
           /\ \E st \in EnsureCapacity(Sweep(mem), k) :
                Persist(Bind([st EXCEPT !.call[c] = call], k, p))
     /\ UNCHANGED <<now, pool>>

\* The end: of the stream, or of a turn that upstream or the router refused.
Release(r) ==
  /\ turn[r].pc \in {"sending", "streaming", "leaving"}
  /\ Pool!Leave(turn[r].session)
  /\ turn' = [turn EXCEPT ![r] = NoTurn]
  /\ UNCHANGED <<now, mem, disk, made, count>>

-----------------------------------------------------------------------------
(* The rest                                                                *)

\* The pool forgets conversations nobody works in.
Forget ==
  /\ \E S \in SUBSET Sessions : Pool!Forget(S)
  /\ UNCHANGED <<now, mem, disk, turn, made, count>>

Tick ==
  /\ now < MaxTime /\ Untroubled
  /\ now' = now + 1
  /\ UNCHANGED <<mem, disk, pool, turn, made, count>>

\* The process dies and comes back with what the file has.
Restart ==
  /\ count.crash < MaxCrashes /\ Untroubled
  /\ count' = [count EXCEPT !.crash = @ + 1]
  /\ mem' = Sweep(disk) /\ disk' = mem'
  /\ holder' = [s \in Sessions |-> None]
  /\ account' = [s \in Sessions |-> None]
  /\ turn' = [r \in Requests |-> NoTurn]
  /\ UNCHANGED <<now, made>>

Step(r) ==
  \/ Resolve(r) \/ Acquire(r) \/ Select(r) \/ Prepare(r) \/ Failover(r)
  \/ Succeed(r) \/ BindSession(r) \/ Remember(r) \/ RememberCall(r) \/ Release(r)

Next == (\E r \in Requests : Step(r)) \/ Forget \/ Tick \/ Restart

Spec == Init /\ [][Next]_vars

-----------------------------------------------------------------------------
(* Properties                                                              *)

\* A call of the current turn is only replayed to the account, on the wire model
\* and in the conversation that made it, whatever selectors, failovers, evictions
\* and restarts came in between (session.go:44-95, request.go:143-160).
ReplayedToItsMaker ==
  \A r \in Requests :
    turn[r].pc = "sending" =>
      \A c \in turn[r].shown :
        made[c] # None /\ made[c].profile = turn[r].profile /\ made[c].key = KeyOf(r)

\* What may be evicted for room is a conversation, so that every call must belong
\* to one: a call without would stay until it expires (replay.go:129-152, 344-377).
CallsHaveSession ==
  \A c \in Calls : mem.call[c] # None => mem.session[mem.call[c].key] # None

\* While the process lives, a conversation loses its unexpired calls together or
\* not at all (replay.go:361-362, docs/account-pool-architecture.md:43).
LostAsUnit ==
  [][\A c, d \in Calls :
       /\ count'.crash = count.crash
       /\ mem.call[c] # None /\ mem.call[d] # None
       /\ mem.call[c].key = mem.call[d].key
       /\ Alive(mem.call[c]) /\ mem'.call[c] = None
       => mem'.call[d] = None]_vars

\* What a lookup would use of the call's conversation: it is of the call's account and
\* has not expired.
Usable(c) ==
  LET call == mem.call[c]
      session == mem.session[call.key]
  IN Alive(call) /\ Alive(session) /\ session.profile = call.profile

\* As long as no write has failed, the file has a record of every call and conversation
\* that lives in memory, with its account; and a call that is usable and was made less
\* than an idle window ago is still there when a restart has swept what it loads, with
\* its conversation.  An older call may be gone: a lookup renews it in memory only
\* (replay.go:91-106, 187-190, 333-342, 482, docs/account-pool-architecture.md:24).
SurvivesRestart ==
  count.fault = 0 =>
    /\ \A c \in Calls : Alive(mem.call[c]) =>
         disk.call[c] # None /\ disk.call[c].profile = mem.call[c].profile
    /\ \A k \in Keys : Alive(mem.session[k]) =>
         disk.session[k] # None /\ disk.session[k].profile = mem.session[k].profile
    /\ LET loaded == Sweep(disk) IN
       \A c \in Calls : Usable(c) /\ now < mem.call[c].created + TTL =>
         /\ loaded.call[c] # None /\ loaded.call[c].profile = mem.call[c].profile
         /\ loaded.session[mem.call[c].key] # None

\* Promised by docs/account-pool-architecture.md:23: a successful alternate is
\* what the next turn of the conversation finds.
AlternatePersists ==
  [][\A r \in Requests :
       turn[r].pc = "bound" /\ turn'[r].pc = "streaming" /\ turn[r].attempted
         => mem'.session[KeyOf(r)].profile = turn[r].profile]_vars
=============================================================================
