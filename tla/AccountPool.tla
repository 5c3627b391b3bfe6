---------------------------- MODULE AccountPool ----------------------------
(***************************************************************************)
(* The account pool of internal/accountpool/pool.go and the way the        *)
(* Antigravity client drives it (internal/antigravity/accounts.go and      *)
(* client.go): a request acquires its conversation's lease, restores the   *)
(* persisted account, selects one, calls upstream, may switch once to an   *)
(* account it verified, and releases the lease when the stream ends.       *)
(*                                                                         *)
(* Every critical section of Pool.mu is one action; so is every operation  *)
(* on an entry's gate, a channel with one slot.  One provider is modelled: *)
(* the provider is a prefix of every key and keys never mix.               *)
(***************************************************************************)
EXTENDS Integers, FiniteSets

CONSTANTS
  Requests,     \* goroutines serving Antigravity requests, each over and over
  Sessions,     \* conversation identities
  Profiles,     \* account ids
  Models,       \* wire models, the scope of a quota observation
  Entries,      \* heap cells for *entry values
  None,         \* the empty string, the nil entry, the free gate slot
  Max,          \* Pool.max
  TTL,          \* Pool.ttl
  QuotaTTL,     \* the minute a quota observation lasts
  QuotaFactor,  \* the 4 of Pool.max*4, so that a small instance reaches it
  MaxTime       \* bound of the clock

ASSUME PoolAssumption ==
  /\ IsFiniteSet(Requests)
  /\ None \notin Requests \cup Profiles \cup Entries
  /\ Max \in Nat \ {0} /\ TTL \in Nat \ {0} /\ QuotaTTL \in Nat \ {0}
  /\ QuotaFactor \in Nat \ {0} /\ MaxTime \in Nat

VARIABLES
  now,      \* Pool.now()
  entries,  \* Pool.entries: the cell of each session, or None
  cell,     \* the entry values: refs, gate, profile, expires
  quota,    \* Pool.quota by <<model, profile>>: an observation, or None
  lease     \* each request's Lease and where its goroutine stands

vars == <<now, entries, cell, quota, lease>>

Quota == {"unknown", "usable", "exhausted"}

Stages == {"idle", "waiting", "draining", "leased", "restored", "selected",
           "probing", "done", "releasing", "leaving"}

\* The stages between the return of Acquire and the gate's release.
Leased == {"leased", "restored", "selected", "probing", "done", "releasing"}

Entry == [refs : Nat, gate : Requests \cup {None},
          profile : Profiles \cup {None}, expires : Nat]

\* verdict is a history variable: what this lease's probes have answered.
Lease == [stage : Stages, session : Sessions \cup {None},
          entry : Entries \cup {None}, model : Models \cup {None},
          explicit : BOOLEAN, history : BOOLEAN, attempted : BOOLEAN,
          account : Profiles \cup {None}, ids : SUBSET Profiles,
          cancelled : BOOLEAN, verdict : [Profiles -> Quota]]

Blank == [refs |-> 0, gate |-> None, profile |-> None, expires |-> 0]

NoLease == [stage |-> "idle", session |-> None, entry |-> None, model |-> None,
            explicit |-> FALSE, history |-> FALSE, attempted |-> FALSE,
            account |-> None, ids |-> {}, cancelled |-> FALSE,
            verdict |-> [p \in Profiles |-> "unknown"]]

TypeOK ==
  /\ now \in Nat
  /\ entries \in [Sessions -> Entries \cup {None}]
  /\ cell \in [Entries -> Entry]
  /\ quota \in [Models \X Profiles ->
                  [state : Quota, expires : Nat] \cup {None}]
  /\ lease \in [Requests -> Lease]

Init ==
  /\ now = 0
  /\ entries = [s \in Sessions |-> None]
  /\ cell = [e \in Entries |-> Blank]
  /\ quota = [k \in Models \X Profiles |-> None]
  /\ lease = [r \in Requests |-> NoLease]

Tick ==
  /\ now < MaxTime
  /\ now' = now + 1
  /\ UNCHANGED <<entries, cell, quota, lease>>

-----------------------------------------------------------------------------
(* Acquire                                                                 *)

IdleByGate(e) == cell[e].gate = None

IdleWhenExpired(e) == cell[e].expires <= now

\* An entry may be swept or evicted only while no request counts on it.
Idle(e) == cell[e].refs = 0

Present(m) == {s \in Sessions : m[s] # None}

\* Pool.entries after the expiry sweep at the head of every Acquire.
Swept == [s \in Sessions |->
            IF entries[s] # None /\ Idle(entries[s])
                 /\ cell[entries[s]].expires <= now
              THEN None ELSE entries[s]]

\* The idle entries no other idle entry is older than.
Oldest(m) ==
  LET idle == {s \in Present(m) : Idle(m[s])}
  IN {s \in idle :
        \A t \in idle : cell[m[s]].expires <= cell[m[t]].expires}

\* The cells after Pool.entries becomes m: an idle cell it no longer names is
\* garbage, and is blanked so that it can be allocated again.
Collect(m) ==
  [e \in Entries |->
     IF cell[e].refs = 0 /\ \A s \in Sessions : m[s] # e
       THEN Blank ELSE cell[e]]

\* Cells neither the map nor a request points at.
Free(m) ==
  {e \in Entries : /\ \A s \in Sessions : m[s] # e
                   /\ \A r \in Requests : lease[r].entry # e}

FullOffByOne(m) == Cardinality(Present(m)) > Max

Full(m) == Cardinality(Present(m)) >= Max

\* refs++ under the mutex; the request now stands before the gate.
Join(r, s, e, m, cells) ==
  /\ entries' = m
  /\ cell' = [cells EXCEPT ![e].refs = @ + 1]
  /\ lease' = [lease EXCEPT ![r].stage = "waiting",
                            ![r].session = s, ![r].entry = e]
  /\ UNCHANGED <<now, quota>>

AcquireKnown(r, s) ==
  /\ lease[r].stage = "idle"
  /\ Swept[s] # None
  /\ Join(r, s, Swept[s], Swept, Collect(Swept))

AcquireNew(r, s) ==
  /\ lease[r].stage = "idle"
  /\ Swept[s] = None
  /\ \E m \in {Swept} \cup {[Swept EXCEPT ![v] = None] : v \in Oldest(Swept)} :
       /\ (m # Swept) <=> Full(Swept)
       /\ Free(m) # {}
       /\ LET e == CHOOSE x \in Free(m) : TRUE
              m2 == [m EXCEPT ![s] = e]
          IN Join(r, s, e, m2, [Collect(m2) EXCEPT ![e] = Blank])

\* ErrCapacity: every entry is in use.  The sweep has already happened.
AcquireBusy(r, s) ==
  /\ lease[r].stage = "idle"
  /\ Swept[s] = None /\ Full(Swept) /\ Oldest(Swept) = {}
  /\ entries' = Swept
  /\ cell' = Collect(Swept)
  /\ UNCHANGED <<now, quota, lease>>

-----------------------------------------------------------------------------
(* The gate                                                                *)

Goto(r, stage) == lease' = [lease EXCEPT ![r].stage = stage]

\* The request's outcome is settled: what it chose no longer matters.  The
\* model stays with a request that was sent, whose answer is still passed on.
Finish(r) ==
  lease' = [lease EXCEPT
              ![r] = [NoLease EXCEPT !.stage = "done",
                                     !.session = lease[r].session,
                                     !.entry = lease[r].entry,
                                     !.model = lease[r].model,
                                     !.cancelled = lease[r].cancelled]]

\* r awaits the answer to what it sent, or passes on the answer's body.
AtUpstream(r) ==
  \/ lease[r].stage = "selected"
  \/ lease[r].stage = "done" /\ lease[r].model # None

\* The request's context ends while it waits for the gate or for upstream.
Cancel(r) ==
  /\ lease[r].stage = "waiting" \/ AtUpstream(r)
  /\ ~lease[r].cancelled
  /\ lease' = [lease EXCEPT ![r].cancelled = TRUE]
  /\ UNCHANGED <<now, entries, cell, quota>>

AfterGateKeepsSlot(r) == IF lease[r].cancelled THEN "leaving" ELSE "leased"

\* The slot was won; a context that ended meanwhile gives it back.
AfterGate(r) == IF lease[r].cancelled THEN "draining" ELSE "leased"

EnterGate(r) ==
  LET e == lease[r].entry IN
  /\ lease[r].stage = "waiting" /\ cell[e].gate = None
  /\ cell' = [cell EXCEPT ![e].gate = r]
  /\ lease' = [lease EXCEPT ![r].stage = AfterGate(r)]
  /\ UNCHANGED <<now, entries, quota>>

GiveUpTwice(r) ==
  /\ lease[r].stage = "waiting" /\ lease[r].cancelled
  /\ cell' = [cell EXCEPT ![lease[r].entry].refs = @ - 1]
  /\ Goto(r, "leaving")
  /\ UNCHANGED <<now, entries, quota>>

GiveUpLeaks(r) ==
  /\ lease[r].stage = "waiting" /\ lease[r].cancelled
  /\ lease' = [lease EXCEPT ![r] = NoLease]
  /\ UNCHANGED <<now, entries, cell, quota>>

\* case <-ctx.Done().
GiveUp(r) ==
  /\ lease[r].stage = "waiting" /\ lease[r].cancelled
  /\ Goto(r, "leaving")
  /\ UNCHANGED <<now, entries, cell, quota>>

LeaveGate(r) ==
  /\ lease[r].stage \in {"releasing", "draining"}
  /\ cell' = [cell EXCEPT ![lease[r].entry].gate = None]
  /\ Goto(r, "leaving")
  /\ UNCHANGED <<now, entries, quota>>

\* unref, and the return to the caller.
Unref(r) ==
  /\ lease[r].stage = "leaving"
  /\ cell' = [cell EXCEPT ![lease[r].entry].refs = @ - 1]
  /\ lease' = [lease EXCEPT ![r] = NoLease]
  /\ UNCHANGED <<now, entries, quota>>

\* Release starts: the entry lives for another TTL.
Release(r) ==
  /\ lease[r].stage = "done"
  /\ cell' = [cell EXCEPT ![lease[r].entry].expires = now + TTL]
  /\ Goto(r, "releasing")
  /\ UNCHANGED <<now, entries, quota>>

-----------------------------------------------------------------------------
(* Selection                                                               *)

Bound(r) == cell[lease[r].entry].profile

Rebind(r, p) == cell' = [cell EXCEPT ![lease[r].entry].profile = p]

\* RestoreProfile with the persisted account, if the replay cache has one:
\* a conflict with the live binding ends the request.
Restore(r) ==
  /\ lease[r].stage = "leased"
  /\ \E p \in Profiles \cup {None} :
       IF p # None /\ Bound(r) \notin {None, p}
         THEN Finish(r) /\ UNCHANGED cell
         ELSE /\ Goto(r, "restored")
              /\ IF p = None THEN UNCHANGED cell ELSE Rebind(r, p)
  /\ UNCHANGED <<now, entries, quota>>

KnownQuota(m, p) ==
  IF p = None \/ quota[<<m, p>>] = None THEN "unknown"
  ELSE IF quota[<<m, p>>].expires <= now THEN "unknown"
  ELSE quota[<<m, p>>].state

SelectorMayMoveHistory(bound, selector) == bound = None

\* A request that carries tool history and cannot stay where it was.
LosesContinuity(bound, selector) ==
  bound = None \/ selector \notin {None, bound}

\* Selector, binding, preferred account, first candidate, in that order.  The
\* registry's order is left open, so "first" is any candidate.
FirstChoice(bound, preferred, selector, ids) ==
  IF selector # None THEN {selector}
  ELSE IF bound # None THEN {bound}
  ELSE IF preferred # None THEN {preferred}
  ELSE IF ids # {} THEN ids ELSE {None}

\* A fresh conversation avoids an account in cooldown, for one known usable.
Choice(first, bound, selector, ids, m) ==
  LET usable == {p \in ids : KnownQuota(m, p) = "usable"} IN
  IF bound = None /\ selector = None /\ KnownQuota(m, first) = "exhausted"
    THEN IF usable = {} THEN {None} ELSE usable
    ELSE {first}

\* The Lease once Select has answered id.
Selected(l, m, history, selector, ids, id) ==
  [l EXCEPT !.stage = "selected", !.model = m, !.explicit = (selector # None),
            !.history = history, !.ids = ids, !.account = id]

Choose(r, m, history, selector, ids, id) ==
  IF (history /\ LosesContinuity(Bound(r), selector)) \/ id \notin ids
    THEN Finish(r) /\ UNCHANGED cell
    ELSE /\ Rebind(r, id)
         /\ lease' = [lease EXCEPT ![r] =
                        Selected(@, m, history, selector, ids, id)]

Select(r) ==
  /\ lease[r].stage = "restored"
  /\ \E m \in Models, history \in BOOLEAN, ids \in SUBSET Profiles,
        preferred \in Profiles \cup {None}, selector \in Profiles \cup {None} :
     \E first \in FirstChoice(Bound(r), preferred, selector, ids) :
     \E id \in Choice(first, Bound(r), selector, ids, m) :
       Choose(r, m, history, selector, ids, id)
  /\ UNCHANGED <<now, entries, quota>>

-----------------------------------------------------------------------------
(* Upstream, quota probes and the single failover                          *)

\* 2xx: ObserveSuccess, then the stream runs under the lease.
Succeed(r) ==
  /\ lease[r].stage = "selected"
  /\ Rebind(r, lease[r].account)
  /\ Finish(r)
  /\ UNCHANGED <<now, entries, quota>>

\* Any other answer, and a 429 that may not or does not fail over.
Fail(r) ==
  /\ lease[r].stage = "selected"
  /\ Finish(r)
  /\ UNCHANGED <<now, entries, cell, quota>>

ObserveQuota(m, p, q) ==
  LET live == [k \in Models \X Profiles |->
                 IF quota[k] # None /\ quota[k].expires <= now
                   THEN None ELSE quota[k]]
      held == {k \in Models \X Profiles : live[k] # None}
      oldest == {k \in held : \A j \in held : live[k].expires <= live[j].expires}
      full == live[<<m, p>>] = None /\ Cardinality(held) >= QuotaFactor * Max
  IN IF q = "unknown" THEN UNCHANGED quota
     ELSE \E victim \in IF full THEN oldest ELSE {<<m, p>>} :
            quota' = [live EXCEPT
                        ![victim] = None,
                        ![<<m, p>>] = [state |-> q, expires |-> now + QuotaTTL]]

MayProbeIgnoringHistory(l) == ~l.explicit /\ ~l.attempted

MayProbe(l) == ~l.history /\ ~l.explicit /\ ~l.attempted

\* Alternate sets off: every candidate but the bound account is left to probe.
Alternating(l, bound) ==
  [l EXCEPT !.stage = "probing", !.attempted = TRUE, !.ids = @ \ {bound},
            !.verdict = [@ EXCEPT ![l.account] = "exhausted"]]

\* The probe of candidate id has answered q; a usable one is tried upstream.
Probed(l, id, q) ==
  LET seen == [l EXCEPT !.ids = @ \ {id}, !.verdict = [@ EXCEPT ![id] = q]]
  IN IF q = "usable"
       THEN [seen EXCEPT !.stage = "selected", !.account = id] ELSE seen

\* 429: the current account is probed; only verified exhaustion goes on.
ProbeCurrent(r) ==
  /\ lease[r].stage = "selected" /\ MayProbe(lease[r])
  /\ \E q \in Quota :
       /\ ObserveQuota(lease[r].model, lease[r].account, q)
       /\ IF q # "exhausted" THEN Finish(r)
          ELSE lease' = [lease EXCEPT ![r] = Alternating(@, Bound(r))]
  /\ UNCHANGED <<now, entries, cell>>

ProbeAlternate(r) ==
  /\ lease[r].stage = "probing"
  /\ \E id \in lease[r].ids, q \in Quota :
       /\ ObserveQuota(lease[r].model, id, q)
       /\ lease' = [lease EXCEPT ![r] = Probed(@, id, q)]
  /\ UNCHANGED <<now, entries, cell>>

NoAlternate(r) ==
  /\ lease[r].stage = "probing" /\ lease[r].ids = {}
  /\ Finish(r)
  /\ UNCHANGED <<now, entries, cell, quota>>

-----------------------------------------------------------------------------
\* What a request's goroutine does once it has joined an entry.
Proceed(r) ==
  \/ GiveUp(r) \/ LeaveGate(r) \/ Unref(r) \/ Release(r)
  \/ Restore(r) \/ Select(r) \/ Succeed(r) \/ Fail(r)
  \/ ProbeCurrent(r) \/ ProbeAlternate(r) \/ NoAlternate(r)

Next ==
  \/ Tick
  \/ \E r \in Requests, s \in Sessions :
       AcquireKnown(r, s) \/ AcquireNew(r, s) \/ AcquireBusy(r, s)
  \/ \E r \in Requests : Cancel(r) \/ EnterGate(r) \/ Proceed(r)

Spec == Init /\ [][Next]_vars

\* A goroutine that can run does run; the channel's waiters are served in
\* arrival order, so that a waiter to whom the slot is offered again and again
\* gets it.  Nothing makes upstream answer, or a stream end, before the
\* request's own context does: the client of the inference calls has no timeout
\* (client.go:66-69, 236-258).  Probes and refreshes have one.
Fairness ==
  \A r \in Requests :
    /\ WF_vars(Proceed(r) /\ (AtUpstream(r) => lease[r].cancelled))
    /\ SF_vars(EnterGate(r))

FairSpec == Spec /\ Fairness

-----------------------------------------------------------------------------
(* Properties                                                              *)

\* The conversation in which r holds a lease.
Holds(r, s) == lease[r].stage \in Leased /\ lease[r].session = s

\* Two requests never work in one conversation at the same time, whatever is
\* swept, evicted and created between their Acquire calls (pool.go:67-108).
SessionExclusive ==
  \A q, r \in Requests, s \in Sessions : Holds(q, s) /\ Holds(r, s) => q = r

\* A request that waits for, holds or is leaving a lease finds its entry still
\* in the map: eviction and expiry (pool.go:71-90) never strand it, and the
\* entry's count says how many requests depend on it.
InUseNeverEvicted ==
  /\ \A r \in Requests :
       lease[r].stage # "idle" => entries[lease[r].session] = lease[r].entry
  /\ \A e \in Entries :
       cell[e].refs = Cardinality({r \in Requests : lease[r].entry = e})

\* A request with tool history is only ever sent to the account its
\* conversation is bound to, through selection, refresh, probes and failover.
HistoryPinned ==
  \A r \in Requests :
    lease[r].stage = "selected" /\ lease[r].history
      => /\ lease[r].account = Bound(r)
         /\ \A p \in Profiles : lease[r].verdict[p] = "unknown"

\* Both maps stay within their configured sizes (pool.go:78-90, 194-202).
Bounded ==
  /\ Cardinality(Present(entries)) <= Max
  /\ Cardinality({k \in Models \X Profiles : quota[k] # None})
       <= QuotaFactor * Max

\* The account a conversation is bound to.
AccountOf(s) == IF entries[s] = None THEN None ELSE cell[entries[s]].profile

\* r moves its conversation away from account p for a reason the design
\* allows: an exact selector, or a success on an alternate account r verified
\* usable after it verified p exhausted, without tool history.
MovesRightly(r, p) ==
  LET l == lease[r] IN
  \/ lease'[r].explicit /\ ~lease'[r].history
  \/ /\ l.stage = "selected" /\ ~l.history /\ ~l.explicit
     /\ l.verdict[p] = "exhausted" /\ l.verdict[l.account] = "usable"

\* A bound conversation changes account only in the hands of the request that
\* holds its lease, and only for one of those reasons.
AffinityStep ==
  \A s \in Sessions :
    LET before == AccountOf(s)
        after == AccountOf(s)'
    IN None \notin {before, after} /\ before # after
         => \E r \in Requests : Holds(r, s) /\ MovesRightly(r, before)

AffinityMovesOnlyVerified == [][AffinityStep]_vars

\* The pool implements the abstract promise.
HolderOf(s) ==
  IF \E r \in Requests : Holds(r, s) THEN CHOOSE r \in Requests : Holds(r, s)
  ELSE None

Affinity == INSTANCE SessionAffinity WITH
  holder  <- [s \in Sessions |-> HolderOf(s)],
  account <- [s \in Sessions |-> AccountOf(s)]

RefinesAffinity == Affinity!Spec

\* r holds its lease while upstream, or a client that does not read, keeps it.
Hangs(r) == AtUpstream(r) /\ ~lease[r].cancelled

\* A request whose client has gone always ends, at the gate or with the lease;
\* and a request can wait at a gate for ever only behind a holder that upstream
\* keeps for ever and whose client stays: no slot is lost when a cancelled
\* request wins it at the last moment (pool.go:96-107), or on any way out.
WaiterResolved ==
  \A r \in Requests :
    /\ lease[r].cancelled ~> lease[r].stage = "idle"
    /\ <>[](lease[r].stage = "waiting")
         => <>[](\E q \in Requests : Holds(q, lease[r].session) /\ Hangs(q))
=============================================================================
