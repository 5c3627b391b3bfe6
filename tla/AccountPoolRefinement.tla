----------------------- MODULE AccountPoolRefinement -----------------------
(***************************************************************************)
(* The account pool keeps a conversation on its account unless an          *)
(* alternate has been verified, and implements SessionAffinity: both for   *)
(* any requests, conversations, accounts, capacity and lifetimes.          *)
(***************************************************************************)
EXTENDS AccountPoolProofs

-----------------------------------------------------------------------------
(* An alternate account is earned                                          *)

Selecting == {"selected", "probing"}

\* What a Lease says of its request's way to upstream when its conversation is
\* bound to b: it is sent where the conversation is bound, or, by its one failover,
\* to an account it found usable after it had found b exhausted.
EarnedBy(l, b) ==
  /\ l.stage \notin Selecting => ~l.attempted
  /\ l.stage \in Selecting => l.account \in Profiles /\ b \in Profiles
  /\ l.stage = "selected" /\ l.account # b =>
       /\ l.attempted /\ ~l.history /\ ~l.explicit
       /\ l.verdict[b] = "exhausted" /\ l.verdict[l.account] = "usable"
  /\ l.stage = "probing" =>
       /\ l.attempted /\ ~l.history /\ ~l.explicit
       /\ l.verdict[b] = "exhausted" /\ b \notin l.ids

Earned == \A r \in Requests : EarnedBy(lease[r], Bound(r))

LEMMA SparedEarned ==
  ASSUME NEW q \in Requests, EarnedBy(lease[q], Bound(q)), Spared(q)
  PROVE  EarnedBy(lease[q], Bound(q))'
<1>1. lease'[q] = lease[q]
  BY DEF Spared
<1>2. CASE lease[q].stage \in Leased
  BY <1>1, <1>2 DEF Spared, EarnedBy
<1>3. CASE lease[q].stage \notin Leased
  BY <1>1, <1>3 DEF EarnedBy, Leased, Selecting
<1>. QED BY <1>2, <1>3

LEMMA FinishedEarned ==
  ASSUME TypeOK, NEW r \in Requests, Finish(r)
  PROVE  EarnedBy(lease[r], Bound(r))'
<1>1. lease'[r] = Finished(r)
  BY FinishUpdate DEF TypeOK
<1>2. Finished(r).stage = "done" /\ Finished(r).attempted = FALSE
  BY DEF Finished, NoLease
<1>. QED BY <1>1, <1>2 DEF EarnedBy, Selecting

LEMMA GotoEarned ==
  ASSUME TypeOK, NEW r \in Requests, EarnedBy(lease[r], Bound(r)),
         NEW stage, Goto(r, stage),
         lease[r].stage \notin Selecting, stage \notin Selecting
  PROVE  EarnedBy(lease[r], Bound(r))'
<1>. DEFINE l == [lease[r] EXCEPT !.stage = stage]
<1>1. lease'[r] = l
  BY DEF Goto, TypeOK
<1>2. l.stage = stage /\ l.attempted = lease[r].attempted
  BY DEF TypeOK, Lease
<1>. HIDE DEF l
<1>. QED BY <1>1, <1>2 DEF EarnedBy, Selecting

LEMMA OwnEarned ==
  ASSUME Inv, NEW r \in Requests, EarnedBy(lease[r], Bound(r)),
         Cancel(r) \/ EnterGate(r) \/ Proceed(r)
  PROVE  EarnedBy(lease[r], Bound(r))'
<1>. USE DEF Inv
<1>0. lease[r] \in Lease
  BY DEF TypeOK
<1>1. CASE Cancel(r)
  <2>. DEFINE l == [lease[r] EXCEPT !.cancelled = TRUE]
  <2>1. lease'[r] = l /\ cell' = cell
    BY <1>1 DEF Cancel, TypeOK
  <2>2. /\ l.stage = lease[r].stage /\ l.attempted = lease[r].attempted
        /\ l.account = lease[r].account /\ l.history = lease[r].history
        /\ l.explicit = lease[r].explicit /\ l.verdict = lease[r].verdict
        /\ l.ids = lease[r].ids /\ l.entry = lease[r].entry
    BY <1>0 DEF Lease
  <2>. HIDE DEF l
  <2>3. Bound(r)' = Bound(r)
    BY <2>1, <2>2 DEF Bound
  <2>. QED BY <2>1, <2>2, <2>3 DEF EarnedBy
<1>2. CASE EnterGate(r)
  <2>1. Goto(r, AfterGate(r)) /\ lease[r].stage = "waiting"
    BY <1>2 DEF EnterGate, Goto
  <2>2. AfterGate(r) \in {"draining", "leased"}
    BY DEF AfterGate
  <2>. QED BY <2>1, <2>2, GotoEarned DEF Selecting
<1>3. CASE GiveUp(r) \/ LeaveGate(r) \/ Release(r)
  BY <1>3, GotoEarned DEF GiveUp, LeaveGate, Release, Selecting
<1>4. CASE Unref(r)
  <2>1. lease'[r] = NoLease
    BY <1>4 DEF Unref, TypeOK
  <2>. QED BY <2>1 DEF NoLease, EarnedBy, Selecting
<1>5. CASE Restore(r)
  BY <1>5, GotoEarned, FinishedEarned DEF Restore, Selecting
<1>6. CASE Succeed(r) \/ Fail(r) \/ NoAlternate(r)
  BY <1>6, FinishedEarned DEF Succeed, Fail, NoAlternate
<1>7. CASE Select(r)
  <2>0. PICK m \in Models, history \in BOOLEAN, ids \in SUBSET Profiles,
             selector \in Profiles \cup {None} :
             \E id : Choose(r, m, history, selector, ids, id)
    BY <1>7 DEF Select
  <2>1. PICK id : Choose(r, m, history, selector, ids, id)
    BY <2>0
  <2>2. CASE Finish(r)
    BY <2>2, FinishedEarned
  <2>3. CASE /\ id \in ids /\ Rebind(r, id)
             /\ lease' = [lease EXCEPT ![r] =
                            Selected(@, m, history, selector, ids, id)]
    <3>. DEFINE l == Selected(lease[r], m, history, selector, ids, id)
    <3>1. /\ l.stage = "selected" /\ l.account = id /\ l.entry = lease[r].entry
      BY <1>0 DEF Selected, Lease
    <3>2. lease'[r] = l
      BY <2>3 DEF TypeOK
    <3>3. lease[r].entry \in Entries
      BY <1>7 DEF Select, MapInv
    <3>4. cell'[lease[r].entry].profile = id
      BY <2>3, <3>3 DEF Rebind, TypeOK, Entry
    <3>5. Bound(r)' = id /\ id \in Profiles
      BY <2>3, <3>1, <3>2, <3>4 DEF Bound
    <3>. HIDE DEF l
    <3>. QED BY <3>1, <3>2, <3>5 DEF EarnedBy, Selecting
  <2>. QED BY <2>1, <2>2, <2>3 DEF Choose
<1>8. CASE ProbeCurrent(r)
  <2>1. \/ Finish(r)
        \/ lease' = [lease EXCEPT ![r] = Alternating(lease[r], Bound(r))]
    BY <1>8 DEF ProbeCurrent, TypeOK
  <2>2. CASE lease' = [lease EXCEPT ![r] = Alternating(lease[r], Bound(r))]
    <3>. DEFINE l == Alternating(lease[r], Bound(r))
    <3>1. /\ lease[r].stage = "selected" /\ cell' = cell
          /\ ~lease[r].history /\ ~lease[r].explicit /\ ~lease[r].attempted
      BY <1>8 DEF ProbeCurrent, MayProbe
    <3>2. lease[r].account \in Profiles /\ lease[r].account = Bound(r)
      BY <3>1 DEF EarnedBy, Selecting
    <3>3. /\ l.stage = "probing" /\ l.attempted /\ ~l.history /\ ~l.explicit
          /\ l.account = lease[r].account /\ l.entry = lease[r].entry
          /\ l.verdict[Bound(r)] = "exhausted" /\ Bound(r) \notin l.ids
      BY <1>0, <3>1, <3>2 DEF Alternating, Lease
    <3>4. lease'[r] = l
      BY <2>2 DEF TypeOK
    <3>. HIDE DEF l
    <3>5. Bound(r)' = Bound(r)
      BY <3>1, <3>3, <3>4 DEF Bound
    <3>. QED BY <3>2, <3>3, <3>4, <3>5 DEF EarnedBy, Selecting
  <2>. QED BY <2>1, <2>2, FinishedEarned
<1>9. CASE ProbeAlternate(r)
  <2>1. PICK id \in lease[r].ids, q \in Quota :
          lease' = [lease EXCEPT ![r] = Probed(lease[r], id, q)]
    BY <1>9 DEF ProbeAlternate, TypeOK
  <2>. DEFINE l == Probed(lease[r], id, q)
  <2>2. lease[r].stage = "probing" /\ cell' = cell
    BY <1>9 DEF ProbeAlternate
  <2>3. /\ lease[r].attempted /\ ~lease[r].history /\ ~lease[r].explicit
        /\ lease[r].verdict[Bound(r)] = "exhausted" /\ Bound(r) \notin lease[r].ids
        /\ lease[r].account \in Profiles /\ Bound(r) \in Profiles
    BY <2>2 DEF EarnedBy, Selecting
  <2>4. id \in Profiles /\ id # Bound(r)
    BY <1>0, <2>3 DEF Lease
  <2>5. /\ l.attempted /\ ~l.history /\ ~l.explicit /\ l.entry = lease[r].entry
        /\ l.verdict[Bound(r)] = "exhausted" /\ Bound(r) \notin l.ids
    BY <1>0, <2>3, <2>4 DEF Probed, Lease
  <2>6. \/ l.stage = "probing" /\ l.account = lease[r].account
        \/ l.stage = "selected" /\ l.account = id /\ l.verdict[id] = "usable"
    BY <1>0, <2>2, <2>4 DEF Probed, Lease
  <2>7. lease'[r] = l
    BY <2>1 DEF TypeOK
  <2>. HIDE DEF l
  <2>8. Bound(r)' = Bound(r)
    BY <2>2, <2>5, <2>7 DEF Bound
  <2>. QED BY <2>3, <2>4, <2>5, <2>6, <2>7, <2>8 DEF EarnedBy, Selecting
<1>. QED BY <1>1, <1>2, <1>3, <1>4, <1>5, <1>6, <1>7, <1>8, <1>9 DEF Proceed

LEMMA JoinedEarned ==
  ASSUME Inv, NEW r \in Requests, NEW s \in Sessions,
         EarnedBy(lease[r], Bound(r)),
         AcquireKnown(r, s) \/ AcquireNew(r, s) \/ AcquireBusy(r, s)
  PROVE  EarnedBy(lease[r], Bound(r))'
<1>0. lease[r] \in Lease /\ lease[r].stage = "idle"
  BY DEF Inv, TypeOK, AcquireKnown, AcquireNew, AcquireBusy
<1>1. CASE lease' = lease
  BY <1>0, <1>1 DEF EarnedBy, Selecting
<1>2. CASE \E e : lease' = [lease EXCEPT ![r].stage = "waiting",
                                        ![r].session = s, ![r].entry = e]
  <2>1. PICK e : lease' = [lease EXCEPT ![r].stage = "waiting",
                                        ![r].session = s, ![r].entry = e]
    BY <1>2
  <2>. DEFINE l == [lease[r] EXCEPT !.stage = "waiting", !.session = s, !.entry = e]
  <2>2. lease'[r] = l
    BY <2>1 DEF Inv, TypeOK
  <2>3. l.stage = "waiting" /\ l.attempted = lease[r].attempted
    BY <1>0 DEF Lease
  <2>. HIDE DEF l
  <2>. QED BY <1>0, <2>2, <2>3 DEF EarnedBy, Selecting
<1>. QED BY <1>1, <1>2 DEF AcquireKnown, AcquireNew, AcquireBusy, Join

LEMMA EarnedInvariant == Spec => []Earned
<1>1. Init => Earned
  BY DEF Init, Earned, EarnedBy, Selecting, NoLease
<1>2. Inv /\ Earned /\ [Next]_vars => Earned'
  <2>. SUFFICES ASSUME Inv, Earned, [Next]_vars, NEW q \in Requests
                PROVE  EarnedBy(lease[q], Bound(q))'
    BY DEF Earned
  <2>0. EarnedBy(lease[q], Bound(q))
    BY DEF Earned
  <2>1. CASE Tick \/ UNCHANGED vars
    <3>1. lease' = lease /\ cell' = cell
      BY <2>1 DEF Tick, vars
    <3>. QED BY <2>0, <3>1, SparedEarned DEF Spared, Bound
  <2>2. ASSUME NEW r \in Requests, NEW s \in Sessions,
               AcquireKnown(r, s) \/ AcquireNew(r, s) \/ AcquireBusy(r, s)
        PROVE  EarnedBy(lease[q], Bound(q))'
    <3>1. CASE q = r
      BY <2>0, <2>2, <3>1, JoinedEarned
    <3>2. CASE q # r
      BY <2>0, <2>2, <3>2, AcquireSpares, SparedEarned
    <3>. QED BY <3>1, <3>2
  <2>3. ASSUME NEW r \in Requests, Cancel(r) \/ EnterGate(r) \/ Proceed(r)
        PROVE  EarnedBy(lease[q], Bound(q))'
    <3>1. CASE q = r
      BY <2>0, <2>3, <3>1, OwnEarned
    <3>2. CASE q # r
      BY <2>0, <2>3, <3>2, OthersSpared, SparedEarned
    <3>. QED BY <3>1, <3>2
  <2>. QED BY <2>1, <2>2, <2>3 DEF Next
<1>. QED BY <1>1, <1>2, PoolInvariant, PTL DEF Spec

-----------------------------------------------------------------------------
(* What the steps do to the accounts and the holders of conversations      *)

SameHolders ==
  \A r \in Requests, s \in Sessions : Holds(r, s)' <=> Holds(r, s)

SameAccounts == \A s \in Sessions : AccountOf(s)' = AccountOf(s)

\* A conversation's account changes by being forgotten while nobody holds it.
Forgets ==
  \A s \in Sessions :
    \/ AccountOf(s)' = AccountOf(s)
    \/ AccountOf(s)' = None /\ \A r \in Requests : ~Holds(r, s)

\* The conversation of r, and no other, is bound to p.
Binds(r, p) ==
  \A s \in Sessions :
    AccountOf(s)' = IF s = lease[r].session THEN p ELSE AccountOf(s)

LEMMA ProfilesSame ==
  ASSUME Inv, entries' = entries,
         \A e \in Entries : cell'[e].profile = cell[e].profile
  PROVE  SameAccounts
BY DEF SameAccounts, AccountOf, Inv, TypeOK

LEMMA RebindBinds ==
  ASSUME Inv, NEW r \in Requests, NEW p, Rebind(r, p),
         lease[r].stage # "idle", entries' = entries
  PROVE  Binds(r, p)
<1>. DEFINE e == lease[r].entry
<1>1. /\ lease[r].session \in Sessions /\ e \in Entries
      /\ entries[lease[r].session] = e /\ e # None
  BY PoolAssumption DEF Inv, MapInv, PoolAssumption
<1>2. /\ cell'[e].profile = p
      /\ \A x \in Entries : x # e => cell'[x] = cell[x]
  BY <1>1 DEF Rebind, Inv, TypeOK, Entry
<1>3. \A s \in Sessions : entries[s] = e => s = lease[r].session
  BY <1>1 DEF Inv, MapInv
<1>. QED BY <1>1, <1>2, <1>3 DEF Binds, AccountOf, Inv, TypeOK

\* A request that goes on to another stage and stays on the same side of the gate.
LEMMA HoldersSame ==
  ASSUME NEW r \in Requests, NEW l,
         lease'[r] = l,
         \A q \in Requests : q # r => lease'[q] = lease[q],
         \/ l.stage \notin Leased /\ lease[r].stage \notin Leased
         \/ /\ l.stage \in Leased /\ lease[r].stage \in Leased
            /\ l.session = lease[r].session
  PROVE  SameHolders
<1>. SUFFICES ASSUME NEW q \in Requests, NEW s \in Sessions
              PROVE  Holds(q, s)' <=> Holds(q, s)
  BY DEF SameHolders
<1>1. CASE q = r
  BY <1>1 DEF Holds
<1>2. CASE q # r
  BY <1>2 DEF Holds
<1>. QED BY <1>1, <1>2

\* The sweep, an eviction and a new entry make conversations forget, none that is
\* held: such an entry has a user.
LEMMA AcquireForgets ==
  ASSUME Inv, NEW r \in Requests, NEW s \in Sessions,
         AcquireKnown(r, s) \/ AcquireNew(r, s) \/ AcquireBusy(r, s)
  PROVE  SameHolders /\ Forgets
<1>. USE DEF Inv
<1>1. SameHolders
  <2>0. lease[r].stage = "idle"
    BY DEF AcquireKnown, AcquireNew, AcquireBusy
  <2>1. CASE lease' = lease
    BY <2>1 DEF SameHolders, Holds
  <2>2. ASSUME NEW e, lease' = [lease EXCEPT ![r].stage = "waiting",
                                          ![r].session = s, ![r].entry = e]
        PROVE  SameHolders
    <3>. DEFINE l == [lease[r] EXCEPT !.stage = "waiting", !.session = s, !.entry = e]
    <3>1. lease'[r] = l /\ \A q \in Requests : q # r => lease'[q] = lease[q]
      BY <2>2 DEF TypeOK
    <3>2. l.stage = "waiting"
      BY DEF TypeOK, Lease
    <3>. HIDE DEF l
    <3>. QED BY <2>0, <3>1, <3>2, HoldersSame DEF Leased
  <2>. QED BY <2>1, <2>2 DEF AcquireKnown, AcquireNew, AcquireBusy, Join
<1>2. \A t \in Sessions, q \in Requests :
        Holds(q, t) => /\ lease[q].entry \in Entries /\ entries[t] = lease[q].entry
                       /\ cell[entries[t]].refs # 0
  <2>. SUFFICES ASSUME NEW t \in Sessions, NEW q \in Requests, Holds(q, t)
                PROVE  /\ lease[q].entry \in Entries /\ entries[t] = lease[q].entry
                       /\ cell[entries[t]].refs # 0
    OBVIOUS
  <2>1. lease[q].entry \in Entries /\ entries[t] = lease[q].entry
    BY DEF Holds, Leased, MapInv
  <2>. QED BY <2>1, UserCounts
<1>3. ASSUME NEW m, Trimmed(m), NEW m2, NEW c \in [Entries -> Entry],
             entries' = m2, \A e \in Entries : cell'[e].profile = c[e].profile,
             \A t \in Sessions :
               \/ m2[t] \in Entries /\ m2[t] = m[t] /\ c[m2[t]] = cell[m2[t]]
               \/ m2[t] \in Entries /\ m[t] = None /\ c[m2[t]] = Blank
               \/ m2[t] = None /\ m[t] = None
      PROVE  Forgets
  <2>. SUFFICES ASSUME NEW t \in Sessions, AccountOf(t)' # AccountOf(t)
                PROVE  AccountOf(t)' = None /\ \A q \in Requests : ~Holds(q, t)
    BY DEF Forgets
  <2>0. None \notin Entries /\ Blank.profile = None
    BY PoolAssumption DEF PoolAssumption, Blank
  <2>1. CASE m2[t] \in Entries /\ m2[t] = m[t] /\ c[m2[t]] = cell[m2[t]]
    <3>1. entries[t] = m2[t] /\ entries'[t] = m2[t]
      BY <1>3, <2>0, <2>1 DEF Trimmed
    <3>. QED BY <1>3, <2>0, <2>1, <3>1 DEF AccountOf
  <2>2. CASE m[t] = None
    <3>1. AccountOf(t)' = None
      BY <1>3, <2>0, <2>2 DEF AccountOf
    <3>2. \A q \in Requests : ~Holds(q, t)
      BY <1>2, <1>3, <2>0, <2>2 DEF Trimmed
    <3>. QED BY <3>1, <3>2
  <2>. QED BY <1>3, <2>1, <2>2
<1>4. Trimmed(Swept)
  BY SweptTrimmed
\* A named cell keeps its value when garbage is collected.
<1>5. ASSUME NEW m, NEW t \in Sessions, m[t] \in Entries
      PROVE  Collect(m)[m[t]] = cell[m[t]]
  BY <1>5 DEF Collect
<1>6. CASE AcquireKnown(r, s)
  <2>1. /\ entries' = Swept
        /\ cell' = [Collect(Swept) EXCEPT ![Swept[s]].refs = @ + 1]
    BY <1>6 DEF AcquireKnown, Join
  <2>2. Collect(Swept) \in [Entries -> Entry]
    BY CollectKeeps
  <2>3. \A e \in Entries : cell'[e].profile = Collect(Swept)[e].profile
    BY <2>1, <2>2 DEF Entry
  <2>4. \A t \in Sessions :
          \/ Swept[t] \in Entries /\ Collect(Swept)[Swept[t]] = cell[Swept[t]]
          \/ Swept[t] = None
    BY <1>4, <1>5 DEF Trimmed
  <2>. QED BY <1>1, <1>3, <1>4, <2>1, <2>2, <2>3, <2>4
<1>7. CASE AcquireBusy(r, s)
  <2>1. entries' = Swept /\ cell' = Collect(Swept)
    BY <1>7 DEF AcquireBusy
  <2>2. Collect(Swept) \in [Entries -> Entry]
    BY CollectKeeps
  <2>4. \A t \in Sessions :
          \/ Swept[t] \in Entries /\ Collect(Swept)[Swept[t]] = cell[Swept[t]]
          \/ Swept[t] = None
    BY <1>4, <1>5 DEF Trimmed
  <2>. QED BY <1>1, <1>3, <1>4, <2>1, <2>2, <2>4
<1>8. CASE AcquireNew(r, s)
  <2>1. PICK m \in {Swept} \cup {[Swept EXCEPT ![v] = None] : v \in Oldest(Swept)} :
          /\ Free(m) # {}
          /\ LET e == CHOOSE x \in Free(m) : TRUE
                 m2 == [m EXCEPT ![s] = e]
             IN Join(r, s, e, m2, [Collect(m2) EXCEPT ![e] = Blank])
    BY <1>8 DEF AcquireNew
  <2>2. Trimmed(m)
    BY SweptTrimmed
  <2>3. m[s] = None
    BY <1>8, <2>1 DEF AcquireNew, Swept
  <2>4. PICK e \in Free(m) :
          Join(r, s, e, [m EXCEPT ![s] = e],
               [Collect([m EXCEPT ![s] = e]) EXCEPT ![e] = Blank])
    BY <2>1
  <2>. DEFINE m2 == [m EXCEPT ![s] = e]
              c == [Collect(m2) EXCEPT ![e] = Blank]
  <2>5. e \in Entries /\ \A t \in Sessions : m[t] # e
    BY DEF Free
  <2>6. Blank \in Entry
    BY DEF Blank, Entry
  <2>7. c \in [Entries -> Entry]
    BY <2>5, <2>6, CollectKeeps
  <2>8. entries' = m2 /\ \A x \in Entries : cell'[x].profile = c[x].profile
    <3>1. entries' = m2 /\ cell' = [c EXCEPT ![e].refs = @ + 1]
      BY <2>4 DEF Join
    <3>. HIDE DEF c, m2
    <3>. QED BY <2>7, <3>1 DEF Entry
  <2>9. \A t \in Sessions :
          \/ m2[t] \in Entries /\ m2[t] = m[t] /\ c[m2[t]] = cell[m2[t]]
          \/ m2[t] \in Entries /\ m[t] = None /\ c[m2[t]] = Blank
          \/ m2[t] = None /\ m[t] = None
    <3>. SUFFICES ASSUME NEW t \in Sessions
                  PROVE  \/ m2[t] \in Entries /\ m2[t] = m[t] /\ c[m2[t]] = cell[m2[t]]
                         \/ m2[t] \in Entries /\ m[t] = None /\ c[m2[t]] = Blank
                         \/ m2[t] = None /\ m[t] = None
      OBVIOUS
    <3>0. Collect(m2) \in [Entries -> Entry]
      BY CollectKeeps
    <3>1. CASE t = s
      BY <2>2, <2>3, <2>5, <3>0, <3>1 DEF Trimmed
    <3>2. CASE t # s /\ m[t] # None
      <4>1. m2[t] = m[t] /\ m[t] \in Entries /\ m[t] # e
        BY <2>2, <2>5, <3>2 DEF Trimmed
      <4>2. Collect(m2)[m2[t]] = cell[m2[t]]
        BY <1>5, <4>1
      <4>. QED BY <3>0, <4>1, <4>2
    <3>3. CASE t # s /\ m[t] = None
      BY <2>2, <3>3 DEF Trimmed
    <3>. QED BY <3>1, <3>2, <3>3
  <2>. HIDE DEF m2, c
  <2>. QED BY <1>1, <1>3, <2>2, <2>7, <2>8, <2>9
<1>. QED BY <1>1, <1>6, <1>7, <1>8

LEMMA CalmSteps ==
  ASSUME Inv, NEW r \in Requests,
         \/ Cancel(r) \/ GiveUp(r) \/ Unref(r) \/ Release(r) \/ Fail(r)
         \/ ProbeCurrent(r) \/ ProbeAlternate(r) \/ NoAlternate(r)
  PROVE  SameHolders /\ SameAccounts
<1>. USE DEF Inv, Leased
<1>0. lease[r] \in Lease
  BY DEF TypeOK
<1>1. SameAccounts
  <2>1. CASE Unref(r) \/ Release(r)
    <3>1. entries' = entries /\ \A e \in Entries : cell'[e].profile = cell[e].profile
      BY <2>1 DEF Unref, Release, TypeOK, Entry
    <3>. QED BY <3>1, ProfilesSame
  <2>2. CASE \/ Cancel(r) \/ GiveUp(r) \/ Fail(r)
             \/ ProbeCurrent(r) \/ ProbeAlternate(r) \/ NoAlternate(r)
    <3>1. entries' = entries /\ cell' = cell
      BY <2>2 DEF Cancel, GiveUp, Fail, ProbeCurrent, ProbeAlternate, NoAlternate
    <3>. QED BY <3>1, ProfilesSame
  <2>. QED BY <2>1, <2>2
<1>2. \A q \in Requests : q # r => lease'[q] = lease[q]
  <2>1. CASE Cancel(r) \/ GiveUp(r) \/ Unref(r) \/ Release(r) \/ Fail(r) \/ NoAlternate(r)
    BY <2>1 DEF Cancel, GiveUp, Unref, Release, Fail, NoAlternate, Goto, Finish, TypeOK
  <2>2. CASE ProbeCurrent(r)
    BY <2>2 DEF ProbeCurrent, Finish, TypeOK
  <2>3. CASE ProbeAlternate(r)
    BY <2>3 DEF ProbeAlternate, TypeOK
  <2>. QED BY <2>1, <2>2, <2>3
<1>3. ASSUME NEW stage, Goto(r, stage)
      PROVE  lease'[r].stage = stage /\ lease'[r].session = lease[r].session
  BY <1>0, <1>3 DEF Goto, TypeOK, Lease
<1>4. ASSUME Finish(r)
      PROVE  lease'[r].stage = "done" /\ lease'[r].session = lease[r].session
  BY <1>4, FinishUpdate DEF TypeOK
<1>5. CASE Cancel(r)
  <2>1. lease'[r].stage = lease[r].stage /\ lease'[r].session = lease[r].session
    BY <1>0, <1>5 DEF Cancel, TypeOK, Lease
  <2>. QED BY <1>1, <1>2, <2>1, HoldersSame
<1>6. CASE GiveUp(r)
  <2>1. lease'[r].stage = "leaving" /\ lease[r].stage = "waiting"
    BY <1>3, <1>6 DEF GiveUp
  <2>. QED BY <1>1, <1>2, <2>1, HoldersSame
<1>7. CASE Unref(r)
  <2>1. lease'[r].stage = "idle" /\ lease[r].stage = "leaving"
    BY <1>7 DEF Unref, TypeOK, NoLease
  <2>. QED BY <1>1, <1>2, <2>1, HoldersSame
<1>8. CASE Release(r)
  <2>1. /\ lease'[r].stage = "releasing" /\ lease[r].stage = "done"
        /\ lease'[r].session = lease[r].session
    BY <1>3, <1>8 DEF Release
  <2>. QED BY <1>1, <1>2, <2>1, HoldersSame
<1>9. CASE Fail(r) \/ NoAlternate(r)
  <2>1. /\ lease'[r].stage = "done" /\ lease[r].stage \in {"selected", "probing"}
        /\ lease'[r].session = lease[r].session
    BY <1>4, <1>9 DEF Fail, NoAlternate
  <2>. QED BY <1>1, <1>2, <2>1, HoldersSame
<1>10. CASE ProbeCurrent(r)
  <2>1. Finish(r) \/ lease'[r] = Alternating(lease[r], Bound(r))
    BY <1>10 DEF ProbeCurrent, TypeOK
  <2>2. /\ Alternating(lease[r], Bound(r)).stage = "probing"
        /\ Alternating(lease[r], Bound(r)).session = lease[r].session
    BY <1>0 DEF Alternating, Lease
  <2>3. lease[r].stage = "selected"
    BY <1>10 DEF ProbeCurrent
  <2>. QED BY <1>1, <1>2, <1>4, <2>1, <2>2, <2>3, HoldersSame
<1>11. CASE ProbeAlternate(r)
  <2>1. PICK id, q : lease'[r] = Probed(lease[r], id, q)
    BY <1>11 DEF ProbeAlternate, TypeOK
  <2>2. lease[r].stage = "probing"
    BY <1>11 DEF ProbeAlternate
  <2>3. /\ Probed(lease[r], id, q).stage \in {"probing", "selected"}
        /\ Probed(lease[r], id, q).session = lease[r].session
    BY <1>0, <2>2 DEF Probed, Lease
  <2>. QED BY <1>1, <1>2, <2>1, <2>2, <2>3, HoldersSame
<1>. QED BY <1>5, <1>6, <1>7, <1>8, <1>9, <1>10, <1>11

\* The steps that bind bind the holder's own conversation: for the first time, again
\* to the same account, or for a reason the design allows.
LEMMA BindingSteps ==
  ASSUME Inv, NEW r \in Requests, EarnedBy(lease[r], Bound(r)),
         Restore(r) \/ Select(r) \/ Succeed(r)
  PROVE  /\ SameHolders /\ lease[r].stage \in Leased
         /\ \/ SameAccounts
            \/ \E p \in Profiles :
                 /\ Binds(r, p)
                 /\ Bound(r) \in {None, p} \/ MovesRightly(r, Bound(r))
<1>. USE DEF Inv, Leased
<1>0. lease[r] \in Lease /\ entries' = entries
  BY DEF TypeOK, Restore, Select, Succeed
<1>1. \A q \in Requests : q # r => lease'[q] = lease[q]
  BY DEF Restore, Select, Choose, Succeed, Goto, Finish, TypeOK
<1>2. cell' = cell => SameAccounts
  BY <1>0, ProfilesSame
<1>3. ASSUME Finish(r), lease[r].stage \in Leased PROVE SameHolders
  <2>1. lease'[r].stage = "done" /\ lease'[r].session = lease[r].session
    BY <1>3, FinishUpdate DEF TypeOK
  <2>. QED BY <1>1, <1>3, <2>1, HoldersSame
<1>4. CASE Restore(r)
  <2>0. lease[r].stage = "leased"
    BY <1>4 DEF Restore
  <2>1. \/ Finish(r) /\ cell' = cell
        \/ Goto(r, "restored") /\ cell' = cell
        \/ \E p \in Profiles : /\ Goto(r, "restored") /\ Rebind(r, p)
                              /\ Bound(r) \in {None, p}
    BY <1>4 DEF Restore
  <2>2. ASSUME Goto(r, "restored") PROVE SameHolders
    <3>1. lease'[r].stage = "restored" /\ lease'[r].session = lease[r].session
      BY <1>0, <2>2 DEF Goto, TypeOK, Lease
    <3>. QED BY <1>1, <2>0, <3>1, HoldersSame
  <2>. QED BY <1>0, <1>2, <1>3, <2>0, <2>1, <2>2, RebindBinds
<1>5. CASE Select(r)
  <2>0. lease[r].stage = "restored"
    BY <1>5 DEF Select
  <2>1. PICK m \in Models, history \in BOOLEAN, ids \in SUBSET Profiles,
             preferred \in Profiles \cup {None}, selector \in Profiles \cup {None} :
             \E first \in FirstChoice(Bound(r), preferred, selector, ids) :
             \E id \in Choice(first, Bound(r), selector, ids, m) :
               Choose(r, m, history, selector, ids, id)
    BY <1>5 DEF Select
  <2>2. PICK first \in FirstChoice(Bound(r), preferred, selector, ids) :
             \E id \in Choice(first, Bound(r), selector, ids, m) :
               Choose(r, m, history, selector, ids, id)
    BY <2>1
  <2>3. PICK id \in Choice(first, Bound(r), selector, ids, m) :
               Choose(r, m, history, selector, ids, id)
    BY <2>2
  <2>4. CASE Finish(r) /\ UNCHANGED cell
    BY <1>2, <1>3, <2>0, <2>4
  <2>5. CASE /\ ~((history /\ LosesContinuity(Bound(r), selector)) \/ id \notin ids)
             /\ Rebind(r, id)
             /\ lease' = [lease EXCEPT ![r] =
                            Selected(@, m, history, selector, ids, id)]
    <3>. DEFINE l == Selected(lease[r], m, history, selector, ids, id)
    <3>1. /\ l.stage = "selected" /\ l.session = lease[r].session
          /\ l.explicit = (selector # None) /\ l.history = history
      BY <1>0 DEF Selected, Lease
    <3>2. lease'[r] = l
      BY <2>5 DEF TypeOK
    <3>. HIDE DEF l
    <3>3. SameHolders
      BY <1>1, <2>0, <3>1, <3>2, HoldersSame
    <3>4. Binds(r, id) /\ id \in Profiles
      BY <1>0, <2>0, <2>5, RebindBinds
    <3>5. ASSUME Bound(r) \notin {None, id}
          PROVE  selector # None /\ ~history
      <4>1. selector # None
        BY <2>3, <3>5 DEF FirstChoice, Choice
      <4>2. id = selector
        BY <2>3, <4>1 DEF FirstChoice, Choice
      <4>. QED BY <2>5, <3>5, <4>1, <4>2 DEF LosesContinuity
    <3>6. Bound(r) \in {None, id} \/ MovesRightly(r, Bound(r))
      BY <3>1, <3>2, <3>5 DEF MovesRightly
    <3>. QED BY <2>0, <3>3, <3>4, <3>6
  <2>. QED BY <2>3, <2>4, <2>5 DEF Choose
<1>6. CASE Succeed(r)
  <2>1. /\ lease[r].stage = "selected" /\ Rebind(r, lease[r].account) /\ Finish(r)
    BY <1>6 DEF Succeed
  <2>2. lease[r].account \in Profiles
    BY <2>1 DEF EarnedBy, Selecting
  <2>3. Binds(r, lease[r].account)
    BY <1>0, <2>1, RebindBinds
  <2>4. Bound(r) = lease[r].account \/ MovesRightly(r, Bound(r))
    BY <2>1 DEF EarnedBy, MovesRightly
  <2>. QED BY <1>3, <2>1, <2>2, <2>3, <2>4
<1>. QED BY <1>4, <1>5, <1>6

\* A conversation starts to be held when a request that still wants it gets the
\* slot, which is free then,
LEMMA Entering ==
  ASSUME Inv, NEW r \in Requests, EnterGate(r)
  PROVE  /\ SameAccounts
         /\ \/ SameHolders
            \/ \E s \in Sessions :
                 /\ \A q \in Requests : ~Holds(q, s)
                 /\ \A t \in Sessions : ~Holds(r, t)
                 /\ \A q \in Requests, t \in Sessions :
                      Holds(q, t)' <=> (Holds(q, t) \/ (q = r /\ t = s))
<1>. USE DEF Inv
<1>. DEFINE s == lease[r].session
<1>1. /\ lease[r].stage = "waiting" /\ cell[lease[r].entry].gate = None
      /\ entries' = entries /\ Goto(r, AfterGate(r))
  BY DEF EnterGate, Goto
<1>2. /\ lease'[r].stage = AfterGate(r)
      /\ \A q \in Requests : /\ lease'[q].session = lease[q].session
                             /\ q # r => lease'[q] = lease[q]
  BY <1>1, GotoFrame
<1>3. SameAccounts
  <2>1. \A e \in Entries : cell'[e].profile = cell[e].profile
    BY DEF EnterGate, TypeOK, Entry
  <2>. QED BY <1>1, <2>1, ProfilesSame
<1>4. CASE lease[r].cancelled
  <2>1. lease'[r].stage = "draining"
    BY <1>2, <1>4 DEF AfterGate
  <2>2. SameHolders
    BY <1>1, <1>2, <2>1, HoldersSame DEF Leased
  <2>. QED BY <1>3, <2>2
<1>5. CASE ~lease[r].cancelled
  <2>1. lease'[r].stage = "leased"
    BY <1>2, <1>5 DEF AfterGate
  <2>2. s \in Sessions /\ entries[s] = lease[r].entry /\ lease[r].entry \in Entries
    BY <1>1 DEF MapInv
  <2>3. \A q \in Requests : ~Holds(q, s)
    <3>. SUFFICES ASSUME NEW q \in Requests, Holds(q, s) PROVE FALSE
      OBVIOUS
    <3>1. lease[q].entry = entries[s] /\ cell[lease[q].entry].gate = q
      BY DEF Holds, Leased, MapInv, GateInv
    <3>. QED BY <1>1, <2>2, <3>1, PoolAssumption DEF PoolAssumption
  <2>4. \A t \in Sessions : ~Holds(r, t)
    BY <1>1 DEF Holds, Leased
  <2>5. \A q \in Requests, t \in Sessions :
          Holds(q, t)' <=> (Holds(q, t) \/ (q = r /\ t = s))
    <3>. SUFFICES ASSUME NEW q \in Requests, NEW t \in Sessions
                  PROVE  Holds(q, t)' <=> (Holds(q, t) \/ (q = r /\ t = s))
      OBVIOUS
    <3>1. CASE q = r
      BY <1>2, <2>1, <2>4, <3>1 DEF Holds, Leased
    <3>2. CASE q # r
      BY <1>2, <3>2 DEF Holds
    <3>. QED BY <3>1, <3>2
  <2>. QED BY <1>3, <2>2, <2>3, <2>4, <2>5
<1>. QED BY <1>4, <1>5

\* and stops being held when its holder gives the slot back.
LEMMA Leaving ==
  ASSUME Inv, NEW r \in Requests, LeaveGate(r)
  PROVE  /\ SameAccounts
         /\ \/ SameHolders
            \/ \E s \in Sessions :
                 /\ Holds(r, s)
                 /\ \A q \in Requests, t \in Sessions :
                      Holds(q, t)' <=> (Holds(q, t) /\ q # r)
<1>. USE DEF Inv
<1>1. /\ lease[r].stage \in {"releasing", "draining"}
      /\ entries' = entries /\ Goto(r, "leaving")
  BY DEF LeaveGate
<1>2. /\ lease'[r].stage = "leaving"
      /\ \A q \in Requests : q # r => lease'[q] = lease[q]
  BY <1>1, GotoFrame
<1>3. SameAccounts
  <2>1. \A e \in Entries : cell'[e].profile = cell[e].profile
    BY DEF LeaveGate, TypeOK, Entry
  <2>. QED BY <1>1, <2>1, ProfilesSame
<1>4. CASE lease[r].stage = "draining"
  <2>1. SameHolders
    BY <1>2, <1>4, HoldersSame DEF Leased
  <2>. QED BY <1>3, <2>1
<1>5. CASE lease[r].stage = "releasing"
  <2>1. lease[r].session \in Sessions /\ Holds(r, lease[r].session)
    BY <1>5 DEF MapInv, Holds, Leased
  <2>2. \A q \in Requests, t \in Sessions :
          Holds(q, t)' <=> (Holds(q, t) /\ q # r)
    BY <1>2 DEF Holds, Leased
  <2>. QED BY <1>3, <2>1, <2>2
<1>. QED BY <1>1, <1>4, <1>5

-----------------------------------------------------------------------------
(* A bound conversation moves only for a verified alternate                *)

\* A bound conversation changes account only in the hands of the request that holds
\* it, and only by an exact selector without tool history or by a success on an
\* alternate verified usable after its account was verified exhausted
\* (pool.go:120-176, client.go:190-243).
THEOREM AffinityKept == Spec => AffinityMovesOnlyVerified
<1>1. Inv /\ Earned /\ [Next]_vars => AffinityStep
  <2>. SUFFICES ASSUME Inv, Earned, [Next]_vars, NEW s \in Sessions,
                       None \notin {AccountOf(s), AccountOf(s)'},
                       AccountOf(s) # AccountOf(s)'
                PROVE  \E r \in Requests : Holds(r, s) /\ MovesRightly(r, AccountOf(s))
    BY DEF AffinityStep
  <2>0. ~SameAccounts /\ ~Forgets
    BY DEF SameAccounts, Forgets
  <2>1. CASE Tick \/ UNCHANGED vars
    BY <2>0, <2>1, ProfilesSame DEF Tick, vars
  <2>2. ASSUME NEW r \in Requests, NEW t \in Sessions,
               AcquireKnown(r, t) \/ AcquireNew(r, t) \/ AcquireBusy(r, t)
        PROVE  FALSE
    BY <2>0, <2>2, AcquireForgets
  <2>3. ASSUME NEW r \in Requests, Restore(r) \/ Select(r) \/ Succeed(r)
        PROVE  Holds(r, s) /\ MovesRightly(r, AccountOf(s))
    <3>1. EarnedBy(lease[r], Bound(r))
      BY DEF Earned
    <3>2. lease[r].stage \in Leased
      BY <2>3, <3>1, BindingSteps
    <3>3. PICK p \in Profiles :
            Binds(r, p) /\ (Bound(r) \in {None, p} \/ MovesRightly(r, Bound(r)))
      BY <2>0, <2>3, <3>1, BindingSteps
    <3>4. s = lease[r].session /\ AccountOf(s)' = p
      BY <3>3 DEF Binds
    <3>5. AccountOf(s) = Bound(r)
      BY <3>2, <3>4, PoolAssumption
         DEF AccountOf, Bound, Inv, MapInv, Leased, PoolAssumption
    <3>. QED BY <3>2, <3>3, <3>4, <3>5 DEF Holds
  <2>4. ASSUME NEW r \in Requests,
               \/ Cancel(r) \/ GiveUp(r) \/ Unref(r) \/ Release(r) \/ Fail(r)
               \/ ProbeCurrent(r) \/ ProbeAlternate(r) \/ NoAlternate(r)
               \/ EnterGate(r) \/ LeaveGate(r)
        PROVE  FALSE
    BY <2>0, <2>4, CalmSteps, Entering, Leaving
  <2>. QED BY <2>1, <2>2, <2>3, <2>4 DEF Next, Proceed
<1>. QED BY <1>1, PoolInvariant, EarnedInvariant, PTL DEF Spec, AffinityMovesOnlyVerified

-----------------------------------------------------------------------------
(* The refinement                                                          *)

LEMMA HolderIs ==
  ASSUME SessionExclusive, NEW s \in Sessions
  PROVE  /\ \A r \in Requests : Holds(r, s) => HolderOf(s) = r
         /\ (\A r \in Requests : ~Holds(r, s)) => HolderOf(s) = None
BY DEF HolderOf, SessionExclusive

\* Nobody is the holder of nothing.
LEMMA HolderHolds ==
  ASSUME SessionExclusive, NEW s \in Sessions, NEW r \in Requests, HolderOf(s) = r
  PROVE  Holds(r, s)
BY HolderIs, PoolAssumption DEF PoolAssumption

LEMMA HolderAfter ==
  ASSUME SessionExclusive', NEW s \in Sessions
  PROVE  /\ \A r \in Requests : Holds(r, s)' => HolderOf(s)' = r
         /\ (\A r \in Requests : ~Holds(r, s)') => HolderOf(s)' = None
BY DEF HolderOf, SessionExclusive

LEMMA HolderSame ==
  ASSUME SessionExclusive, SessionExclusive', NEW s \in Sessions,
         \A r \in Requests : Holds(r, s)' <=> Holds(r, s)
  PROVE  HolderOf(s)' = HolderOf(s)
<1>1. CASE \E r \in Requests : Holds(r, s)
  BY <1>1, HolderIs, HolderAfter
<1>2. CASE \A r \in Requests : ~Holds(r, s)
  BY <1>2, HolderIs, HolderAfter
<1>. QED BY <1>1, <1>2

Holders == [s \in Sessions |-> HolderOf(s)]
Accounts == [s \in Sessions |-> AccountOf(s)]

LEMMA HoldersFrame ==
  ASSUME SessionExclusive, SessionExclusive', SameHolders
  PROVE  Holders' = Holders
BY HolderSame DEF Holders, SameHolders

\* Each step of the pool is a step of the promise, or leaves holders and accounts as
\* they are.
LEMMA StepRefines ==
  ASSUME Inv, Earned, SessionExclusive, SessionExclusive', [Next]_vars
  PROVE  \/ Affinity!Next
         \/ Holders' = Holders /\ Accounts' = Accounts
<1>0. SameAccounts => Accounts' = Accounts
  BY DEF SameAccounts, Accounts
<1>1. CASE Tick \/ UNCHANGED vars
  <2>1. SameHolders /\ SameAccounts
    BY <1>1, ProfilesSame DEF Tick, vars, SameHolders, Holds
  <2>. QED BY <1>0, <2>1, HoldersFrame
<1>2. ASSUME NEW r \in Requests, NEW t \in Sessions,
             AcquireKnown(r, t) \/ AcquireNew(r, t) \/ AcquireBusy(r, t)
      PROVE  Affinity!Next
  <2>. DEFINE S == {s \in Sessions : AccountOf(s)' # AccountOf(s)}
  <2>1. Holders' = Holders /\ Forgets
    BY <1>2, AcquireForgets, HoldersFrame
  <2>2. \A s \in S : HolderOf(s) = None
    BY <2>1, HolderIs DEF Forgets
  <2>3. Accounts' = [s \in Sessions |-> IF s \in S THEN None ELSE AccountOf(s)]
    BY <2>1 DEF Forgets, Accounts
  <2>4. Affinity!Forget(S)
    BY <2>1, <2>2, <2>3 DEF Affinity!Forget, Holders, Accounts
  <2>. QED BY <2>4 DEF Affinity!Next
<1>3. ASSUME NEW r \in Requests, Restore(r) \/ Select(r) \/ Succeed(r)
      PROVE  Affinity!Next \/ (Holders' = Holders /\ Accounts' = Accounts)
  <2>1. EarnedBy(lease[r], Bound(r))
    BY DEF Earned
  <2>2. SameHolders /\ lease[r].stage \in Leased
    BY <1>3, <2>1, BindingSteps
  <2>3. Holders' = Holders
    BY <2>2, HoldersFrame
  <2>4. CASE SameAccounts
    BY <1>0, <2>3, <2>4
  <2>5. ASSUME NEW p \in Profiles, Binds(r, p) PROVE Affinity!Next
    <3>. DEFINE s == lease[r].session
    <3>1. s \in Sessions /\ Holds(r, s)
      BY <2>2 DEF Inv, MapInv, Leased, Holds
    <3>2. HolderOf(s) # None
      BY <3>1, HolderIs, PoolAssumption DEF PoolAssumption
    <3>3. Accounts' = [Accounts EXCEPT ![s] = p]
      BY <2>5, <3>1 DEF Binds, Accounts
    <3>4. Affinity!Bind(s, p)
      BY <2>3, <3>1, <3>2, <3>3 DEF Affinity!Bind, Holders, Accounts
    <3>. QED BY <3>1, <3>4 DEF Affinity!Next
  <2>. QED BY <1>3, <2>1, <2>4, <2>5, BindingSteps
<1>4. ASSUME NEW r \in Requests,
             \/ Cancel(r) \/ GiveUp(r) \/ Unref(r) \/ Release(r) \/ Fail(r)
             \/ ProbeCurrent(r) \/ ProbeAlternate(r) \/ NoAlternate(r)
      PROVE  Holders' = Holders /\ Accounts' = Accounts
  BY <1>0, <1>4, CalmSteps, HoldersFrame
<1>5. ASSUME NEW r \in Requests, EnterGate(r)
      PROVE  Affinity!Next \/ (Holders' = Holders /\ Accounts' = Accounts)
  <2>1. Accounts' = Accounts
    BY <1>0, <1>5, Entering
  <2>2. CASE SameHolders
    BY <2>1, <2>2, HoldersFrame
  <2>3. ASSUME NEW s \in Sessions,
               \A q \in Requests : ~Holds(q, s),
               \A t \in Sessions : ~Holds(r, t),
               \A q \in Requests, t \in Sessions :
                 Holds(q, t)' <=> (Holds(q, t) \/ (q = r /\ t = s))
        PROVE  Affinity!Next
    <3>1. HolderOf(s) = None
      BY <2>3, HolderIs
    <3>2. \A t \in Sessions : HolderOf(t) # r
      BY <2>3, HolderHolds
    <3>3. HolderOf(s)' = r
      BY <2>3, HolderAfter
    <3>4. \A t \in Sessions : t # s => HolderOf(t)' = HolderOf(t)
      BY <2>3, HolderSame
    <3>5. Holders' = [Holders EXCEPT ![s] = r]
      BY <3>3, <3>4 DEF Holders
    <3>6. Affinity!Admit(r, s)
      BY <2>1, <3>1, <3>2, <3>5 DEF Affinity!Admit, Holders, Accounts
    <3>. QED BY <3>6 DEF Affinity!Next
  <2>. QED BY <1>5, <2>2, <2>3, Entering
<1>6. ASSUME NEW r \in Requests, LeaveGate(r)
      PROVE  Affinity!Next \/ (Holders' = Holders /\ Accounts' = Accounts)
  <2>1. Accounts' = Accounts
    BY <1>0, <1>6, Leaving
  <2>2. CASE SameHolders
    BY <2>1, <2>2, HoldersFrame
  <2>3. ASSUME NEW s \in Sessions, Holds(r, s),
               \A q \in Requests, t \in Sessions :
                 Holds(q, t)' <=> (Holds(q, t) /\ q # r)
        PROVE  Affinity!Next
    <3>1. HolderOf(s) # None
      BY <2>3, HolderIs, PoolAssumption DEF PoolAssumption
    <3>2. \A q \in Requests : ~Holds(q, s)'
      BY <2>3 DEF SessionExclusive
    <3>3. HolderOf(s)' = None
      BY <3>2, HolderAfter
    <3>4. \A t \in Sessions : t # s => ~Holds(r, t)
      BY <2>3 DEF Holds
    <3>5. \A t \in Sessions : t # s => HolderOf(t)' = HolderOf(t)
      BY <2>3, <3>4, HolderSame
    <3>6. Holders' = [Holders EXCEPT ![s] = None]
      BY <3>3, <3>5 DEF Holders
    <3>7. Affinity!Leave(s)
      BY <2>1, <3>1, <3>6 DEF Affinity!Leave, Holders, Accounts
    <3>. QED BY <3>7 DEF Affinity!Next
  <2>. QED BY <1>6, <2>2, <2>3, Leaving
<1>. QED BY <1>1, <1>2, <1>3, <1>4, <1>5, <1>6 DEF Next, Proceed

\* The pool, with its entries, counts, gates, expiry and eviction, does what
\* SessionAffinity promises its callers and nothing else: one request at a time in a
\* conversation, which alone binds it; no binding is forgotten under its feet
\* (pool.go:67-231).
THEOREM Refines == Spec => RefinesAffinity
<1>1. Init => Affinity!Init
  <2>. SUFFICES ASSUME Init PROVE Affinity!Init
    OBVIOUS
  <2>1. \A r \in Requests, s \in Sessions : ~Holds(r, s)
    BY DEF Init, Holds, NoLease, Leased
  <2>2. \A s \in Sessions : HolderOf(s) = None /\ AccountOf(s) = None
    BY <2>1 DEF Init, HolderOf, AccountOf
  <2>. QED BY <2>2 DEF Affinity!Init
<1>2. /\ Inv /\ Earned /\ SessionExclusive /\ SessionExclusive' /\ [Next]_vars
      => [Affinity!Next]_(Affinity!affinityVars)
  BY StepRefines DEF Affinity!affinityVars, Holders, Accounts
<1>. QED BY <1>1, <1>2, PoolInvariant, EarnedInvariant, Exclusive, PTL
         DEF Spec, RefinesAffinity, Affinity!Spec

=============================================================================
