------------------------- MODULE AccountPoolProofs -------------------------
(***************************************************************************)
(* Theorems about AccountPool for any requests, conversations, accounts,   *)
(* capacity and lifetimes.                                                 *)
(***************************************************************************)
EXTENDS AccountPool, FiniteSetTheorems, TLAPS

\* The requests whose Lease points at a cell.
Users(e) == {r \in Requests : lease[r].entry = e}

\* Pool.entries and the leases agree.
MapInv ==
  /\ \A r \in Requests :
       IF lease[r].stage = "idle" THEN lease[r] = NoLease
       ELSE /\ lease[r].session \in Sessions /\ lease[r].entry \in Entries
            /\ entries[lease[r].session] = lease[r].entry
  /\ \A s, t \in Sessions :
       entries[s] # None /\ entries[s] = entries[t] => s = t

\* The reference counts count.
CountInv == \A e \in Entries : cell[e].refs = Cardinality(Users(e))

\* Whoever holds a lease, or is giving a slot back, has the slot.
GateInv ==
  \A r \in Requests :
    lease[r].stage \in Leased \cup {"draining"}
      => cell[lease[r].entry].gate = r

Inv == TypeOK /\ MapInv /\ CountInv /\ GateInv

-----------------------------------------------------------------------------
(* Sets of users                                                           *)

LEMMA UsersFinite ==
  ASSUME NEW e \in Entries
  PROVE  IsFiniteSet(Users(e)) /\ Cardinality(Users(e)) \in Nat
<1>1. IsFiniteSet(Users(e))
  BY FS_Subset, PoolAssumption DEF Users, PoolAssumption
<1>. QED BY <1>1, FS_CardinalityType

\* A referenced cell has a positive count.
LEMMA UserCounts ==
  ASSUME CountInv, NEW r \in Requests, lease[r].entry \in Entries
  PROVE  cell[lease[r].entry].refs # 0
<1>. DEFINE e == lease[r].entry
<1>1. r \in Users(e) BY DEF Users
<1>2. IsFiniteSet(Users(e)) BY UsersFinite
<1>3. Cardinality(Users(e)) # 0 BY <1>1, <1>2, FS_EmptySet
<1>. QED BY <1>3 DEF CountInv

-----------------------------------------------------------------------------
(* Steps that leave references and slots alone                             *)

Slotted == Leased \cup {"draining"}

SameReferences ==
  /\ entries' = entries
  /\ \A e \in Entries : /\ cell'[e].refs = cell[e].refs
                        /\ cell'[e].gate = cell[e].gate
  /\ \A r \in Requests :
       /\ lease'[r].entry = lease[r].entry
       /\ lease'[r].session = lease[r].session
       /\ lease[r].stage = "idle" => lease'[r] = lease[r]
       /\ lease'[r].stage = "idle" => lease[r].stage = "idle"
       /\ lease'[r].stage \in Slotted => lease[r].stage \in Slotted

LEMMA ReferencesFrame ==
  ASSUME TypeOK, MapInv, CountInv, GateInv, SameReferences
  PROVE  MapInv' /\ CountInv' /\ GateInv'
<1>1. MapInv'
  BY DEF MapInv, SameReferences
<1>2. \A e \in Entries : Users(e)' = Users(e)
  BY DEF Users, SameReferences
<1>3. CountInv'
  BY <1>2 DEF CountInv, SameReferences
<1>4. GateInv'
  <2>. SUFFICES ASSUME NEW r \in Requests, lease'[r].stage \in Slotted
                PROVE  cell'[lease'[r].entry].gate = r
    BY DEF GateInv, Slotted
  <2>1. lease[r].stage \in Slotted /\ lease[r].stage # "idle"
    BY DEF SameReferences, Slotted, Leased
  <2>2. lease[r].entry \in Entries
    BY <2>1 DEF MapInv
  <2>. QED BY <2>1, <2>2 DEF GateInv, SameReferences, Slotted
<1>. QED BY <1>1, <1>3, <1>4

\* A request that has joined an entry replaces its Lease by l, and no cell's
\* count or slot changes.
LEMMA QuietUpdate ==
  ASSUME TypeOK, NEW r \in Requests, NEW l,
         lease' = [lease EXCEPT ![r] = l],
         l.entry = lease[r].entry, l.session = lease[r].session,
         lease[r].stage # "idle", l.stage # "idle",
         l.stage \in Slotted => lease[r].stage \in Slotted,
         entries' = entries,
         \A e \in Entries : /\ cell'[e].refs = cell[e].refs
                            /\ cell'[e].gate = cell[e].gate
  PROVE  SameReferences
BY DEF TypeOK, SameReferences

LEMMA GotoUpdate ==
  ASSUME TypeOK, NEW r \in Requests, NEW stage, Goto(r, stage),
         lease[r].stage # "idle", stage # "idle",
         stage \in Slotted => lease[r].stage \in Slotted,
         entries' = entries,
         \A e \in Entries : /\ cell'[e].refs = cell[e].refs
                            /\ cell'[e].gate = cell[e].gate
  PROVE  SameReferences
<1>. DEFINE l == [lease[r] EXCEPT !.stage = stage]
<1>1. lease' = [lease EXCEPT ![r] = l]
  BY DEF TypeOK, Goto
<1>2. l.entry = lease[r].entry /\ l.session = lease[r].session /\ l.stage = stage
  BY DEF TypeOK, Lease
<1>. HIDE DEF l
<1>. QED BY <1>1, <1>2, QuietUpdate

\* What Finish leaves of a Lease.
Finished(r) == [NoLease EXCEPT !.stage = "done", !.session = lease[r].session,
                               !.entry = lease[r].entry, !.model = lease[r].model,
                               !.cancelled = lease[r].cancelled]

LEMMA FinishUpdate ==
  ASSUME TypeOK, NEW r \in Requests, Finish(r)
  PROVE  /\ lease' = [lease EXCEPT ![r] = Finished(r)]
         /\ Finished(r).entry = lease[r].entry
         /\ Finished(r).session = lease[r].session
         /\ Finished(r).stage = "done"
BY DEF TypeOK, Finish, Finished, NoLease

LEMMA RebindCells ==
  ASSUME TypeOK, NEW r \in Requests, NEW p, Rebind(r, p)
  PROVE  \A e \in Entries : /\ cell'[e].refs = cell[e].refs
                            /\ cell'[e].gate = cell[e].gate
BY DEF TypeOK, Rebind, Entry

\* The steps of a request between the gate and the release, and Cancel.
LEMMA QuietSteps ==
  ASSUME TypeOK, NEW r \in Requests,
         \/ Cancel(r) \/ GiveUp(r) \/ Release(r)
         \/ Restore(r) \/ Select(r) \/ Succeed(r) \/ Fail(r)
         \/ ProbeCurrent(r) \/ ProbeAlternate(r) \/ NoAlternate(r)
  PROVE  SameReferences
<1>. USE DEF Slotted, Leased
<1>1. CASE Cancel(r)
  <2>. DEFINE l == [lease[r] EXCEPT !.cancelled = TRUE]
  <2>1. lease' = [lease EXCEPT ![r] = l]
    BY <1>1 DEF Cancel, TypeOK
  <2>2. /\ lease[r] \in Lease /\ lease[r].stage \in {"waiting", "selected", "done"}
        /\ UNCHANGED <<entries, cell>>
    BY <1>1 DEF Cancel, AtUpstream, TypeOK
  <2>3. /\ l.entry = lease[r].entry /\ l.session = lease[r].session
        /\ l.stage = lease[r].stage
    BY <2>2 DEF Lease
  <2>. HIDE DEF l
  <2>. QED BY <2>1, <2>2, <2>3, QuietUpdate
<1>2. CASE GiveUp(r)
  BY <1>2, QuietUpdate, GotoUpdate DEF GiveUp
<1>3. CASE Release(r)
  <2>1. \A e \in Entries : /\ cell'[e].refs = cell[e].refs
                           /\ cell'[e].gate = cell[e].gate
    BY <1>3 DEF Release, TypeOK, Entry
  <2>. QED BY <1>3, <2>1, QuietUpdate, GotoUpdate DEF Release
<1>4. CASE Restore(r)
  <2>1. \/ Finish(r) /\ UNCHANGED cell
        \/ Goto(r, "restored") /\ UNCHANGED cell
        \/ \E p \in Profiles : Goto(r, "restored") /\ Rebind(r, p)
    BY <1>4 DEF Restore
  <2>2. lease[r].stage = "leased" /\ entries' = entries
    BY <1>4 DEF Restore
  <2>. QED BY <2>1, <2>2, QuietUpdate, FinishUpdate, GotoUpdate, RebindCells
<1>5. CASE Select(r)
  <2>0. PICK m \in Models, history \in BOOLEAN, ids \in SUBSET Profiles,
             selector \in Profiles \cup {None} :
             \E id : Choose(r, m, history, selector, ids, id)
    BY <1>5 DEF Select
  <2>1. PICK id : Choose(r, m, history, selector, ids, id)
    BY <2>0
  <2>2. lease[r].stage = "restored" /\ entries' = entries
    BY <1>5 DEF Select
  <2>3. CASE Finish(r) /\ UNCHANGED cell
    BY <2>2, <2>3, QuietUpdate, FinishUpdate
  <2>4. CASE /\ Rebind(r, id)
             /\ lease' = [lease EXCEPT ![r] =
                            Selected(@, m, history, selector, ids, id)]
    <3>. DEFINE l == Selected(lease[r], m, history, selector, ids, id)
    <3>1. /\ l.entry = lease[r].entry /\ l.session = lease[r].session
          /\ l.stage = "selected"
      BY DEF TypeOK, Lease, Selected
    <3>2. lease' = [lease EXCEPT ![r] = l]
      BY <2>4 DEF TypeOK
    <3>. HIDE DEF l
    <3>. QED BY <2>2, <2>4, <3>1, <3>2, QuietUpdate, RebindCells
  <2>. QED BY <2>1, <2>3, <2>4 DEF Choose
<1>6. CASE Succeed(r)
  BY <1>6, QuietUpdate, FinishUpdate, RebindCells DEF Succeed
<1>7. CASE Fail(r)
  BY <1>7, QuietUpdate, FinishUpdate DEF Fail
<1>8. CASE ProbeCurrent(r)
  <2>1. \/ Finish(r)
        \/ lease' = [lease EXCEPT ![r] = Alternating(lease[r], Bound(r))]
    BY <1>8 DEF ProbeCurrent, TypeOK
  <2>2. LET l == Alternating(lease[r], Bound(r))
        IN /\ l.entry = lease[r].entry /\ l.session = lease[r].session
           /\ l.stage = "probing"
    BY DEF TypeOK, Lease, Alternating
  <2>. QED BY <1>8, <2>1, <2>2, QuietUpdate, FinishUpdate DEF ProbeCurrent
<1>9. CASE ProbeAlternate(r)
  <2>1. PICK id \in lease[r].ids, q \in Quota :
          lease' = [lease EXCEPT ![r] = Probed(lease[r], id, q)]
    BY <1>9 DEF ProbeAlternate, TypeOK
  <2>2. lease[r].stage = "probing" /\ UNCHANGED <<entries, cell>>
    BY <1>9 DEF ProbeAlternate
  <2>3. LET l == Probed(lease[r], id, q)
        IN /\ l.entry = lease[r].entry /\ l.session = lease[r].session
           /\ l.stage \in {"probing", "selected"}
    BY <2>2 DEF TypeOK, Lease, Probed
  <2>. QED BY <2>1, <2>2, <2>3, QuietUpdate
<1>10. CASE NoAlternate(r)
  BY <1>10, QuietUpdate, FinishUpdate DEF NoAlternate
<1>. QED BY <1>1, <1>2, <1>3, <1>4, <1>5, <1>6, <1>7, <1>8, <1>9, <1>10

-----------------------------------------------------------------------------
(* Acquire                                                                 *)

\* A map of sessions to cells left by dropping idle entries only.
Trimmed(m) ==
  /\ m \in [Sessions -> Entries \cup {None}]
  /\ \A s \in Sessions :
       /\ m[s] \in {entries[s], None}
       /\ entries[s] # None /\ cell[entries[s]].refs # 0 => m[s] = entries[s]

LEMMA SweptTrimmed ==
  ASSUME TypeOK
  PROVE  /\ Trimmed(Swept)
         /\ \A v \in Oldest(Swept) : Trimmed([Swept EXCEPT ![v] = None])
<1>1. Trimmed(Swept)
  BY DEF TypeOK, Trimmed, Swept, Idle
<1>2. ASSUME NEW v \in Oldest(Swept)
      PROVE  Trimmed([Swept EXCEPT ![v] = None])
  <2>1. v \in Sessions /\ Swept[v] # None /\ cell[Swept[v]].refs = 0
    BY DEF Oldest, Present, Idle
  <2>. QED BY <1>1, <2>1 DEF Trimmed
<1>. QED BY <1>1, <1>2

\* Dropping idle entries strands no request.
LEMMA TrimmedKeeps ==
  ASSUME TypeOK, MapInv, CountInv, NEW m, Trimmed(m)
  PROVE  /\ \A r \in Requests : lease[r].stage # "idle"
                => m[lease[r].session] = lease[r].entry
         /\ \A s, t \in Sessions : m[s] # None /\ m[s] = m[t] => s = t
<1>1. ASSUME NEW r \in Requests, lease[r].stage # "idle"
      PROVE  m[lease[r].session] = lease[r].entry
  <2>1. /\ lease[r].session \in Sessions /\ lease[r].entry \in Entries
        /\ entries[lease[r].session] = lease[r].entry
    BY <1>1 DEF MapInv
  <2>2. cell[lease[r].entry].refs # 0
    BY <2>1, UserCounts
  <2>. QED BY <2>1, <2>2, PoolAssumption DEF Trimmed, PoolAssumption
<1>2. ASSUME NEW s \in Sessions, NEW t \in Sessions, m[s] # None, m[s] = m[t]
      PROVE  s = t
  BY <1>2 DEF Trimmed, MapInv
<1>. QED BY <1>1, <1>2

\* Collecting garbage changes no count, and no cell a request points at.
LEMMA CollectKeeps ==
  ASSUME TypeOK, CountInv, NEW m
  PROVE  /\ Collect(m) \in [Entries -> Entry]
         /\ \A e \in Entries : Collect(m)[e].refs = Cardinality(Users(e))
         /\ \A r \in Requests : lease[r].entry \in Entries
              => Collect(m)[lease[r].entry] = cell[lease[r].entry]
<1>1. Blank \in Entry
  BY DEF Blank, Entry
<1>2. Collect(m) \in [Entries -> Entry]
  BY <1>1 DEF TypeOK, Collect
<1>3. \A e \in Entries : Collect(m)[e].refs = cell[e].refs
  BY DEF Collect, Blank
<1>4. \A r \in Requests : lease[r].entry \in Entries
         => Collect(m)[lease[r].entry] = cell[lease[r].entry]
  BY UserCounts DEF Collect
<1>. QED BY <1>2, <1>3, <1>4 DEF CountInv

\* Joining an entry of a consistent map keeps the invariant.
LEMMA JoinKeeps ==
  ASSUME Inv, NEW r \in Requests, NEW s \in Sessions, NEW e \in Entries,
         NEW m \in [Sessions -> Entries \cup {None}],
         NEW cells \in [Entries -> Entry],
         lease[r].stage = "idle", m[s] = e,
         \A t, u \in Sessions : m[t] # None /\ m[t] = m[u] => t = u,
         \A q \in Requests : lease[q].stage # "idle"
            => m[lease[q].session] = lease[q].entry,
         \A x \in Entries : cells[x].refs = Cardinality(Users(x)),
         \A q \in Requests : lease[q].entry \in Entries
            => cells[lease[q].entry] = cell[lease[q].entry],
         Join(r, s, e, m, cells)
  PROVE  Inv'
<1>. USE DEF Inv
<1>. DEFINE l == [lease[r] EXCEPT !.stage = "waiting", !.session = s, !.entry = e]
<1>1. /\ lease' = [lease EXCEPT ![r] = l]
      /\ cell' = [cells EXCEPT ![e] = [cells[e] EXCEPT !.refs = @ + 1]]
      /\ entries' = m /\ UNCHANGED <<now, quota>>
  BY DEF TypeOK, Join
<1>2. l \in Lease /\ l.stage = "waiting" /\ l.session = s /\ l.entry = e
  <2>1. lease[r] \in Lease
    BY DEF TypeOK
  <2>2. "waiting" \in Stages
    BY DEF Stages
  <2>. QED BY <2>1, <2>2 DEF Lease
<1>. HIDE DEF l
<1>3. lease[r].entry \notin Entries /\ e # None
  BY PoolAssumption DEF MapInv, NoLease, PoolAssumption
<1>4. TypeOK'
  <2>1. [cells[e] EXCEPT !.refs = @ + 1] \in Entry
    BY DEF Entry
  <2>. QED BY <1>1, <1>2, <2>1 DEF TypeOK
<1>5. MapInv'
  <2>1. \A q \in Requests :
          IF lease'[q].stage = "idle" THEN lease'[q] = NoLease
          ELSE /\ lease'[q].session \in Sessions /\ lease'[q].entry \in Entries
               /\ entries'[lease'[q].session] = lease'[q].entry
    BY <1>1, <1>2 DEF TypeOK, MapInv
  <2>. QED BY <1>1, <2>1 DEF MapInv
<1>6. CountInv'
  <2>1. Users(e)' = Users(e) \cup {r} /\ r \notin Users(e)
    BY <1>1, <1>2, <1>3 DEF Users, TypeOK
  <2>2. \A x \in Entries \ {e} : Users(x)' = Users(x)
    BY <1>1, <1>2, <1>3 DEF Users, TypeOK
  <2>3. Cardinality(Users(e)') = Cardinality(Users(e)) + 1
    <3>1. IsFiniteSet(Users(e))
      BY UsersFinite
    <3>2. Cardinality(Users(e) \cup {r}) = Cardinality(Users(e)) + 1
      BY <2>1, <3>1, FS_AddElement
    <3>. QED BY <2>1, <3>2
  <2>4. cell'[e].refs = cells[e].refs + 1
    BY <1>1 DEF Entry
  <2>5. \A x \in Entries \ {e} : cell'[x].refs = cells[x].refs
    BY <1>1
  <2>. QED BY <2>2, <2>3, <2>4, <2>5 DEF CountInv
<1>7. GateInv'
  <2>. SUFFICES ASSUME NEW q \in Requests, lease'[q].stage \in Slotted
                PROVE  cell'[lease'[q].entry].gate = q
    BY DEF GateInv, Slotted
  <2>1. q # r
    BY <1>1, <1>2 DEF TypeOK, Slotted, Leased
  <2>2. lease'[q] = lease[q]
    BY <1>1, <2>1 DEF TypeOK
  <2>3. lease[q].entry \in Entries /\ cell[lease[q].entry].gate = q
    BY <2>2 DEF GateInv, MapInv, Slotted, Leased
  <2>4. \A x \in Entries : cell'[x].gate = cells[x].gate
    BY <1>1 DEF Entry
  <2>. QED BY <2>2, <2>3, <2>4
<1>. QED BY <1>4, <1>5, <1>6, <1>7

LEMMA AcquireKeeps ==
  ASSUME Inv, NEW r \in Requests, NEW s \in Sessions,
         AcquireKnown(r, s) \/ AcquireNew(r, s) \/ AcquireBusy(r, s)
  PROVE  Inv'
<1>. USE DEF Inv
<1>1. Trimmed(Swept)
  BY SweptTrimmed
<1>2. CASE AcquireKnown(r, s)
  <2>1. Swept[s] \in Entries /\ Swept \in [Sessions -> Entries \cup {None}]
    BY <1>1, <1>2 DEF AcquireKnown, Trimmed
  <2>2. /\ \A t, u \in Sessions : Swept[t] # None /\ Swept[t] = Swept[u] => t = u
        /\ \A q \in Requests : lease[q].stage # "idle"
             => Swept[lease[q].session] = lease[q].entry
    BY <1>1, TrimmedKeeps
  <2>3. /\ Collect(Swept) \in [Entries -> Entry]
        /\ \A x \in Entries : Collect(Swept)[x].refs = Cardinality(Users(x))
        /\ \A q \in Requests : lease[q].entry \in Entries
             => Collect(Swept)[lease[q].entry] = cell[lease[q].entry]
    BY CollectKeeps
  <2>4. /\ lease[r].stage = "idle"
        /\ Join(r, s, Swept[s], Swept, Collect(Swept))
    BY <1>2 DEF AcquireKnown
  <2>. QED BY <2>1, <2>2, <2>3, <2>4, JoinKeeps
<1>3. CASE AcquireNew(r, s)
  <2>1. PICK m \in {Swept} \cup {[Swept EXCEPT ![v] = None] : v \in Oldest(Swept)} :
          /\ Free(m) # {}
          /\ LET e == CHOOSE x \in Free(m) : TRUE
                 m2 == [m EXCEPT ![s] = e]
             IN Join(r, s, e, m2, [Collect(m2) EXCEPT ![e] = Blank])
    BY <1>3 DEF AcquireNew
  <2>. DEFINE e == CHOOSE x \in Free(m) : TRUE
              m2 == [m EXCEPT ![s] = e]
              cells == [Collect(m2) EXCEPT ![e] = Blank]
  <2>2. Join(r, s, e, m2, cells)
    BY <2>1
  <2>3. e \in Free(m)
    BY <2>1
  <2>. HIDE DEF e
  <2>4. /\ e \in Entries
        /\ \A t \in Sessions : m[t] # e
        /\ \A q \in Requests : lease[q].entry # e
    BY <2>3 DEF Free
  <2>5. Trimmed(m)
    <3>1. m = Swept \/ \E v \in Oldest(Swept) : m = [Swept EXCEPT ![v] = None]
      OBVIOUS
    <3>. QED BY <3>1, SweptTrimmed
  <2>6. m[s] = None
    BY <1>3, <2>1 DEF AcquireNew, Swept
  <2>7. /\ m2 \in [Sessions -> Entries \cup {None}] /\ m2[s] = e
        /\ \A t, u \in Sessions : m2[t] # None /\ m2[t] = m2[u] => t = u
        /\ \A q \in Requests : lease[q].stage # "idle"
             => m2[lease[q].session] = lease[q].entry
    <3>1. \A q \in Requests : lease[q].stage # "idle"
            => lease[q].session \in Sessions /\ lease[q].session # s
      BY <2>5, <2>6, TrimmedKeeps, PoolAssumption DEF MapInv, PoolAssumption
    <3>. QED BY <2>4, <2>5, <3>1, TrimmedKeeps DEF Trimmed
  <2>8. /\ cells \in [Entries -> Entry]
        /\ \A x \in Entries : cells[x].refs = Cardinality(Users(x))
        /\ \A q \in Requests : lease[q].entry \in Entries
             => cells[lease[q].entry] = cell[lease[q].entry]
    <3>1. Blank \in Entry /\ Blank.refs = 0
      BY DEF Blank, Entry
    <3>2. Users(e) = {} /\ Cardinality(Users(e)) = 0
      BY <2>4, FS_EmptySet DEF Users
    <3>. QED BY <2>4, <3>1, <3>2, CollectKeeps
  <2>9. lease[r].stage = "idle"
    BY <1>3 DEF AcquireNew
  <2>. HIDE DEF m2, cells
  <2>. QED BY <2>2, <2>4, <2>7, <2>8, <2>9, JoinKeeps
<1>4. CASE AcquireBusy(r, s)
  <2>1. /\ entries' = Swept /\ cell' = Collect(Swept)
        /\ UNCHANGED <<now, quota, lease>>
    BY <1>4 DEF AcquireBusy
  <2>2. TypeOK'
    BY <1>1, <2>1, CollectKeeps DEF TypeOK, Trimmed
  <2>3. MapInv'
    BY <1>1, <2>1, TrimmedKeeps DEF MapInv
  <2>4. CountInv'
    BY <2>1, CollectKeeps DEF CountInv, Users
  <2>5. GateInv'
    BY <2>1, CollectKeeps DEF GateInv, MapInv, Leased
  <2>. QED BY <2>2, <2>3, <2>4, <2>5
<1>. QED BY <1>2, <1>3, <1>4

-----------------------------------------------------------------------------
(* Types                                                                   *)

LEMMA StageTypes ==
  ASSUME TypeOK, NEW r \in Requests
  PROVE  /\ \A stage \in Stages : Goto(r, stage) => lease' \in [Requests -> Lease]
         /\ Finish(r) => lease' \in [Requests -> Lease]
         /\ \A l \in Lease : lease' = [lease EXCEPT ![r] = l]
              => lease' \in [Requests -> Lease]
<1>1. lease[r] \in Lease
  BY DEF TypeOK
<1>2. NoLease \in Lease
  BY DEF NoLease, Lease, Stages, Quota
<1>3. Finished(r) \in Lease
  BY <1>1, <1>2 DEF Finished, Lease, Stages
<1>4. ASSUME NEW l \in Lease, lease' = [lease EXCEPT ![r] = l]
      PROVE  lease' \in [Requests -> Lease]
  BY <1>4 DEF TypeOK
<1>5. ASSUME Finish(r) PROVE lease' \in [Requests -> Lease]
  BY <1>3, <1>4, <1>5, FinishUpdate
<1>6. ASSUME NEW stage \in Stages, Goto(r, stage)
      PROVE  lease' \in [Requests -> Lease]
  <2>1. [lease[r] EXCEPT !.stage = stage] \in Lease
    BY <1>1 DEF Lease
  <2>2. lease' = [lease EXCEPT ![r] = [lease[r] EXCEPT !.stage = stage]]
    BY <1>6 DEF TypeOK, Goto
  <2>. QED BY <1>4, <2>1, <2>2
<1>. QED BY <1>4, <1>5, <1>6

LEMMA RebindType ==
  ASSUME TypeOK, NEW r \in Requests, NEW p \in Profiles \cup {None}, Rebind(r, p)
  PROVE  cell' \in [Entries -> Entry]
BY DEF TypeOK, Rebind, Entry

LEMMA ObserveType ==
  ASSUME TypeOK, NEW m, NEW p, NEW q \in Quota, ObserveQuota(m, p, q)
  PROVE  quota' \in [Models \X Profiles -> [state : Quota, expires : Nat] \cup {None}]
<1>. DEFINE live == [k \in Models \X Profiles |->
                       IF quota[k] # None /\ quota[k].expires <= now
                         THEN None ELSE quota[k]]
            new == [state |-> q, expires |-> now + QuotaTTL]
<1>1. live \in [Models \X Profiles -> [state : Quota, expires : Nat] \cup {None}]
  BY DEF TypeOK
<1>2. new \in [state : Quota, expires : Nat]
  BY PoolAssumption DEF TypeOK, PoolAssumption
<1>3. \/ quota' = quota
      \/ \E victim : quota' = [live EXCEPT ![victim] = None, ![<<m, p>>] = new]
  BY Zenon DEF ObserveQuota
<1>. HIDE DEF live, new
<1>. QED BY <1>1, <1>2, <1>3 DEF TypeOK

LEMMA QuietTypes ==
  ASSUME TypeOK, NEW r \in Requests,
         \/ Cancel(r) \/ GiveUp(r) \/ Release(r)
         \/ Restore(r) \/ Select(r) \/ Succeed(r) \/ Fail(r)
         \/ ProbeCurrent(r) \/ ProbeAlternate(r) \/ NoAlternate(r)
  PROVE  TypeOK'
<1>0. lease[r] \in Lease /\ {"leaving", "releasing", "restored", "waiting",
                             "selected", "probing"} \subseteq Stages
  BY DEF TypeOK, Stages
<1>1. CASE Cancel(r)
  <2>1. lease' = [lease EXCEPT ![r] = [lease[r] EXCEPT !.cancelled = TRUE]]
    BY <1>1 DEF Cancel, TypeOK
  <2>2. [lease[r] EXCEPT !.cancelled = TRUE] \in Lease
    BY <1>0 DEF Lease
  <2>. QED BY <1>1, <2>1, <2>2, StageTypes DEF Cancel, TypeOK
<1>2. CASE GiveUp(r)
  BY <1>0, <1>2, StageTypes DEF GiveUp, TypeOK
<1>3. CASE Release(r)
  <2>1. now + TTL \in Nat
    BY PoolAssumption DEF TypeOK, PoolAssumption
  <2>2. cell' \in [Entries -> Entry]
    BY <1>3, <2>1 DEF Release, TypeOK, Entry
  <2>3. lease' \in [Requests -> Lease]
    BY <1>0, <1>3, StageTypes DEF Release
  <2>. QED BY <1>3, <2>2, <2>3 DEF Release, TypeOK
<1>4. CASE Restore(r)
  <2>1. \/ Finish(r) /\ UNCHANGED cell
        \/ Goto(r, "restored") /\ UNCHANGED cell
        \/ \E p \in Profiles : Goto(r, "restored") /\ Rebind(r, p)
    BY <1>4 DEF Restore
  <2>2. UNCHANGED <<now, entries, quota>>
    BY <1>4 DEF Restore
  <2>. QED BY <1>0, <2>1, <2>2, StageTypes, RebindType DEF TypeOK
<1>5. CASE Select(r)
  <2>0. PICK m \in Models, history \in BOOLEAN, ids \in SUBSET Profiles,
             selector \in Profiles \cup {None} :
             \E id : Choose(r, m, history, selector, ids, id)
    BY <1>5 DEF Select
  <2>1. PICK id : Choose(r, m, history, selector, ids, id)
    BY <2>0
  <2>2. UNCHANGED <<now, entries, quota>>
    BY <1>5 DEF Select
  <2>3. CASE Finish(r) /\ UNCHANGED cell
    BY <2>2, <2>3, StageTypes DEF TypeOK
  <2>4. CASE /\ id \in ids /\ Rebind(r, id)
             /\ lease' = [lease EXCEPT ![r] =
                            Selected(@, m, history, selector, ids, id)]
    <3>. DEFINE l == Selected(lease[r], m, history, selector, ids, id)
    <3>0. /\ m \in Models /\ history \in BOOLEAN /\ ids \in SUBSET Profiles
          /\ selector \in Profiles \cup {None} /\ id \in Profiles
      BY <2>0, <2>4
    <3>1. l \in Lease
      BY <1>0, <3>0 DEF Lease, Selected
    <3>2. lease' = [lease EXCEPT ![r] = l]
      BY <2>4 DEF TypeOK
    <3>. HIDE DEF l
    <3>. QED BY <2>2, <2>4, <3>1, <3>2, StageTypes, RebindType DEF TypeOK
  <2>. QED BY <2>1, <2>3, <2>4 DEF Choose
<1>6. CASE Succeed(r)
  <2>1. lease[r].account \in Profiles \cup {None}
    BY <1>0 DEF Lease
  <2>. QED BY <1>6, <2>1, StageTypes, RebindType DEF Succeed, TypeOK
<1>7. CASE Fail(r)
  BY <1>7, StageTypes DEF Fail, TypeOK
<1>8. CASE ProbeCurrent(r)
  <2>1. PICK q \in Quota :
          /\ ObserveQuota(lease[r].model, lease[r].account, q)
          /\ IF q # "exhausted" THEN Finish(r)
             ELSE lease' = [lease EXCEPT ![r] = Alternating(@, Bound(r))]
    BY <1>8 DEF ProbeCurrent
  <2>2. UNCHANGED <<now, entries, cell>>
    BY <1>8 DEF ProbeCurrent
  <2>3. Alternating(lease[r], Bound(r)) \in Lease
    BY <1>0 DEF Lease, Alternating, Quota
  <2>4. Finish(r) \/ lease' = [lease EXCEPT ![r] = Alternating(lease[r], Bound(r))]
    BY <2>1 DEF TypeOK
  <2>. QED BY <2>1, <2>2, <2>3, <2>4, StageTypes, ObserveType DEF TypeOK
<1>9. CASE ProbeAlternate(r)
  <2>1. PICK id \in lease[r].ids, q \in Quota :
          /\ ObserveQuota(lease[r].model, id, q)
          /\ lease' = [lease EXCEPT ![r] = Probed(@, id, q)]
    BY <1>9 DEF ProbeAlternate
  <2>2. UNCHANGED <<now, entries, cell>>
    BY <1>9 DEF ProbeAlternate
  <2>3. Probed(lease[r], id, q) \in Lease
    <3>1. id \in Profiles
      BY <1>0 DEF Lease
    <3>2. [lease[r] EXCEPT !.ids = @ \ {id}, !.verdict = [@ EXCEPT ![id] = q]] \in Lease
      BY <1>0 DEF Lease
    <3>. DEFINE seen == [lease[r] EXCEPT !.ids = @ \ {id},
                                         !.verdict = [@ EXCEPT ![id] = q]]
    <3>3. [seen EXCEPT !.stage = "selected", !.account = id] \in Lease
      BY <1>0, <3>1, <3>2 DEF Lease
    <3>4. \/ Probed(lease[r], id, q) = seen
          \/ Probed(lease[r], id, q)
               = [seen EXCEPT !.stage = "selected", !.account = id]
      BY Zenon DEF Probed
    <3>. HIDE DEF seen
    <3>. QED BY <3>2, <3>3, <3>4 DEF seen
  <2>4. lease' = [lease EXCEPT ![r] = Probed(lease[r], id, q)]
    BY <2>1 DEF TypeOK
  <2>. QED BY <2>1, <2>2, <2>3, <2>4, StageTypes, ObserveType DEF TypeOK
<1>10. CASE NoAlternate(r)
  BY <1>10, StageTypes DEF NoAlternate, TypeOK
<1>. QED BY <1>1, <1>2, <1>3, <1>4, <1>5, <1>6, <1>7, <1>8, <1>9, <1>10

-----------------------------------------------------------------------------
(* The slot and the count                                                  *)

LEMMA GotoFrame ==
  ASSUME TypeOK, NEW r \in Requests, NEW stage, Goto(r, stage)
  PROVE  /\ lease'[r].stage = stage
         /\ \A q \in Requests : /\ lease'[q].entry = lease[q].entry
                                /\ lease'[q].session = lease[q].session
                                /\ q # r => lease'[q] = lease[q]
<1>. DEFINE l == [lease[r] EXCEPT !.stage = stage]
<1>1. lease[r] \in Lease
  BY DEF TypeOK
<1>2. lease' = [lease EXCEPT ![r] = l]
  BY DEF TypeOK, Goto
<1>3. l.stage = stage /\ l.entry = lease[r].entry /\ l.session = lease[r].session
  BY <1>1 DEF Lease
<1>. HIDE DEF l
<1>. QED BY <1>2, <1>3 DEF TypeOK

LEMMA GateFrame ==
  ASSUME TypeOK, NEW e \in Entries, NEW g \in Requests \cup {None},
         cell' = [cell EXCEPT ![e].gate = g]
  PROVE  /\ cell' \in [Entries -> Entry]
         /\ cell'[e].gate = g
         /\ \A x \in Entries : /\ cell'[x].refs = cell[x].refs
                               /\ x # e => cell'[x] = cell[x]
<1>. DEFINE c == [cell[e] EXCEPT !.gate = g]
<1>1. cell[e] \in Entry
  BY DEF TypeOK
<1>2. cell' = [cell EXCEPT ![e] = c]
  BY DEF TypeOK
<1>3. c \in Entry /\ c.gate = g /\ c.refs = cell[e].refs
  BY <1>1 DEF Entry
<1>. HIDE DEF c
<1>. QED BY <1>2, <1>3 DEF TypeOK

\* Nobody's reference changes when a request moves on to a stage that is not
\* the first.
LEMMA GotoKeepsReferences ==
  ASSUME TypeOK, MapInv, CountInv, NEW r \in Requests, NEW stage,
         Goto(r, stage), stage # "idle", lease[r].stage # "idle",
         entries' = entries,
         \A x \in Entries : cell'[x].refs = cell[x].refs
  PROVE  MapInv' /\ CountInv'
<1>1. /\ lease'[r].stage = stage
      /\ \A q \in Requests : /\ lease'[q].entry = lease[q].entry
                             /\ lease'[q].session = lease[q].session
                             /\ q # r => lease'[q] = lease[q]
  BY GotoFrame
<1>2. MapInv'
  BY <1>1 DEF MapInv
<1>3. \A e \in Entries : Users(e)' = Users(e)
  BY <1>1 DEF Users
<1>4. CountInv'
  BY <1>3 DEF CountInv
<1>. QED BY <1>2, <1>4

LEMMA EnterGateKeeps ==
  ASSUME Inv, NEW r \in Requests, EnterGate(r)
  PROVE  Inv'
<1>. USE DEF Inv
<1>. DEFINE e == lease[r].entry
<1>1. /\ lease[r].stage = "waiting" /\ cell[e].gate = None
      /\ cell' = [cell EXCEPT ![e].gate = r]
      /\ Goto(r, AfterGate(r)) /\ UNCHANGED <<now, entries, quota>>
  BY DEF EnterGate, Goto
<1>2. AfterGate(r) \in {"draining", "leased"}
  BY DEF AfterGate
<1>3. e \in Entries
  BY <1>1 DEF MapInv
<1>4. /\ cell' \in [Entries -> Entry] /\ cell'[e].gate = r
      /\ \A x \in Entries : /\ cell'[x].refs = cell[x].refs
                            /\ x # e => cell'[x] = cell[x]
  BY <1>1, <1>3, GateFrame
<1>5. \A q \in Requests : /\ lease'[q].entry = lease[q].entry
                          /\ q # r => lease'[q] = lease[q]
  BY <1>1, GotoFrame
<1>6. TypeOK'
  <2>1. lease' \in [Requests -> Lease]
    BY <1>1, <1>2, StageTypes DEF Stages
  <2>. QED BY <1>1, <1>4, <2>1 DEF TypeOK
<1>7. MapInv' /\ CountInv'
  BY <1>1, <1>2, <1>4, GotoKeepsReferences
<1>8. GateInv'
  <2>. SUFFICES ASSUME NEW q \in Requests, lease'[q].stage \in Slotted
                PROVE  cell'[lease'[q].entry].gate = q
    BY DEF GateInv, Slotted
  <2>1. CASE q = r
    BY <1>4, <1>5, <2>1
  <2>2. CASE q # r
    <3>1. cell[lease[q].entry].gate = q /\ lease[q].entry \in Entries
      BY <1>5, <2>2 DEF GateInv, MapInv, Slotted, Leased
    <3>2. lease[q].entry # e
      BY <1>1, <3>1, PoolAssumption DEF PoolAssumption
    <3>. QED BY <1>4, <1>5, <3>1, <3>2
  <2>. QED BY <2>1, <2>2
<1>. QED BY <1>6, <1>7, <1>8

LEMMA LeaveGateKeeps ==
  ASSUME Inv, NEW r \in Requests, LeaveGate(r)
  PROVE  Inv'
<1>. USE DEF Inv
<1>. DEFINE e == lease[r].entry
<1>1. /\ lease[r].stage \in {"releasing", "draining"}
      /\ cell' = [cell EXCEPT ![e].gate = None]
      /\ Goto(r, "leaving") /\ UNCHANGED <<now, entries, quota>>
  BY DEF LeaveGate
<1>2. e \in Entries /\ cell[e].gate = r
  BY <1>1 DEF MapInv, GateInv, Leased
<1>3. /\ cell' \in [Entries -> Entry]
      /\ \A x \in Entries : /\ cell'[x].refs = cell[x].refs
                            /\ x # e => cell'[x] = cell[x]
  BY <1>1, <1>2, GateFrame
<1>4. /\ lease'[r].stage = "leaving"
      /\ \A q \in Requests : q # r => lease'[q] = lease[q]
  BY <1>1, GotoFrame
<1>5. TypeOK'
  <2>1. lease' \in [Requests -> Lease]
    BY <1>1, StageTypes DEF Stages
  <2>. QED BY <1>1, <1>3, <2>1 DEF TypeOK
<1>6. MapInv' /\ CountInv'
  BY <1>1, <1>3, GotoKeepsReferences
<1>7. GateInv'
  <2>. SUFFICES ASSUME NEW q \in Requests, lease'[q].stage \in Slotted
                PROVE  cell'[lease'[q].entry].gate = q
    BY DEF GateInv, Slotted
  <2>1. q # r
    BY <1>4 DEF Slotted, Leased
  <2>2. cell[lease[q].entry].gate = q /\ lease[q].entry \in Entries
    BY <1>4, <2>1 DEF GateInv, MapInv, Slotted, Leased
  <2>3. lease[q].entry # e
    BY <1>2, <2>1, <2>2
  <2>. QED BY <1>3, <1>4, <2>1, <2>2, <2>3
<1>. QED BY <1>5, <1>6, <1>7

LEMMA UnrefKeeps ==
  ASSUME Inv, NEW r \in Requests, Unref(r)
  PROVE  Inv'
<1>. USE DEF Inv
<1>0. PICK e : e = lease[r].entry
  OBVIOUS
<1>. DEFINE c == [cell[e] EXCEPT !.refs = @ - 1]
<1>1. /\ lease[r].stage = "leaving"
      /\ lease' = [lease EXCEPT ![r] = NoLease]
      /\ UNCHANGED <<now, entries, quota>>
  BY DEF Unref
<1>2. e \in Entries /\ r \in Users(e)
  BY <1>0, <1>1 DEF MapInv, Users
<1>3. cell' = [cell EXCEPT ![e] = c] /\ cell[e] \in Entry
  BY <1>0, <1>2 DEF Unref, TypeOK
<1>4. IsFiniteSet(Users(e)) /\ Cardinality(Users(e)) \in Nat
  BY <1>2, UsersFinite
<1>5. /\ IsFiniteSet(Users(e) \ {r})
      /\ Cardinality(Users(e) \ {r}) = Cardinality(Users(e)) - 1
  BY <1>2, <1>4, FS_RemoveElement
<1>6. cell[e].refs - 1 = Cardinality(Users(e) \ {r})
  BY <1>2, <1>5 DEF CountInv
<1>7. cell[e].refs - 1 \in Nat
  BY <1>5, <1>6, FS_CardinalityType
<1>8. c \in Entry /\ c.refs = cell[e].refs - 1 /\ c.gate = cell[e].gate
  BY <1>3, <1>7 DEF Entry
<1>9. NoLease.entry \notin Entries /\ NoLease.stage = "idle"
  BY PoolAssumption DEF NoLease, PoolAssumption
<1>10. /\ lease'[r] = NoLease
       /\ \A q \in Requests : q # r => lease'[q] = lease[q]
  BY <1>1 DEF TypeOK
<1>. HIDE DEF c
<1>11. TypeOK'
  <2>1. NoLease \in Lease
    BY DEF NoLease, Lease, Stages, Quota
  <2>. QED BY <1>1, <1>3, <1>8, <2>1 DEF TypeOK
<1>12. MapInv'
  BY <1>1, <1>9, <1>10 DEF MapInv
<1>13. CountInv'
  <2>1. Users(e)' = Users(e) \ {r}
    BY <1>2, <1>9, <1>10 DEF Users
  <2>2. \A x \in Entries \ {e} : Users(x)' = Users(x)
    BY <1>0, <1>9, <1>10 DEF Users
  <2>3. \A x \in Entries \ {e} : cell'[x] = cell[x]
    BY <1>3 DEF TypeOK
  <2>4. cell'[e].refs = Cardinality(Users(e)')
    BY <1>2, <1>3, <1>6, <1>8, <2>1 DEF TypeOK
  <2>. QED BY <2>2, <2>3, <2>4 DEF CountInv
<1>14. GateInv'
  <2>. SUFFICES ASSUME NEW q \in Requests, lease'[q].stage \in Slotted
                PROVE  cell'[lease'[q].entry].gate = q
    BY DEF GateInv, Slotted
  <2>1. q # r /\ lease'[q] = lease[q]
    BY <1>9, <1>10 DEF Slotted, Leased
  <2>2. cell[lease[q].entry].gate = q /\ lease[q].entry \in Entries
    BY <2>1 DEF GateInv, MapInv, Slotted, Leased
  <2>3. \A x \in Entries : cell'[x].gate = cell[x].gate
    BY <1>3, <1>8 DEF TypeOK
  <2>. QED BY <2>1, <2>2, <2>3
<1>. QED BY <1>11, <1>12, <1>13, <1>14

-----------------------------------------------------------------------------
(* The invariant and what follows from it                                  *)

LEMMA InitInv == Init => Inv
<1>. SUFFICES ASSUME Init PROVE Inv
  OBVIOUS
<1>1. NoLease \in Lease /\ NoLease.stage = "idle" /\ NoLease.entry \notin Entries
  BY PoolAssumption DEF NoLease, Lease, Stages, Quota, PoolAssumption
<1>2. Blank \in Entry /\ Blank.refs = 0
  BY DEF Blank, Entry
<1>3. TypeOK
  BY <1>1, <1>2 DEF Init, TypeOK
<1>4. MapInv
  BY <1>1 DEF Init, MapInv
<1>5. CountInv
  <2>1. \A e \in Entries : Users(e) = {}
    BY <1>1 DEF Init, Users
  <2>. QED BY <1>2, <2>1, FS_EmptySet DEF Init, CountInv
<1>6. GateInv
  BY <1>1 DEF Init, GateInv, Leased
<1>. QED BY <1>3, <1>4, <1>5, <1>6 DEF Inv

LEMMA NextInv == Inv /\ [Next]_vars => Inv'
<1>. SUFFICES ASSUME Inv, [Next]_vars PROVE Inv'
  OBVIOUS
<1>. DEFINE Quiet(r) ==
       \/ Cancel(r) \/ GiveUp(r) \/ Release(r)
       \/ Restore(r) \/ Select(r) \/ Succeed(r) \/ Fail(r)
       \/ ProbeCurrent(r) \/ ProbeAlternate(r) \/ NoAlternate(r)
<1>1. ASSUME NEW r \in Requests, Quiet(r) PROVE Inv'
  <2>1. SameReferences
    BY <1>1, QuietSteps DEF Inv
  <2>2. TypeOK'
    BY <1>1, QuietTypes DEF Inv
  <2>. QED BY <2>1, <2>2, ReferencesFrame DEF Inv
<1>2. CASE Tick
  BY <1>2 DEF Tick, Inv, TypeOK, MapInv, CountInv, GateInv, Users
<1>3. CASE UNCHANGED vars
  BY <1>3 DEF vars, Inv, TypeOK, MapInv, CountInv, GateInv, Users
<1>4. ASSUME NEW r \in Requests, NEW s \in Sessions,
             AcquireKnown(r, s) \/ AcquireNew(r, s) \/ AcquireBusy(r, s)
      PROVE  Inv'
  BY <1>4, AcquireKeeps
<1>5. ASSUME NEW r \in Requests, Cancel(r) \/ EnterGate(r) \/ Proceed(r)
      PROVE  Inv'
  BY <1>1, <1>5, EnterGateKeeps, LeaveGateKeeps, UnrefKeeps DEF Proceed
<1>. QED BY <1>2, <1>3, <1>4, <1>5 DEF Next

\* The map, the counts and the slots agree in every reachable state, for any
\* number of requests and conversations (pool.go:67-111, 225-231).
THEOREM PoolInvariant == Spec => []Inv
BY InitInv, NextInv, PTL DEF Spec

\* Every variable keeps its type; above all no count of references goes
\* negative, so that an entry is idle only when nobody uses it (pool.go:110).
THEOREM TypeCorrect == Spec => []TypeOK
<1>1. Inv => TypeOK
  BY DEF Inv
<1>. QED BY <1>1, PoolInvariant, PTL

\* An entry in use stays in the map and its count is the number of requests
\* that rely on it, whatever Acquire sweeps or evicts (pool.go:71-94).
THEOREM InUseStays == Spec => []InUseNeverEvicted
<1>1. Inv => InUseNeverEvicted
  BY DEF Inv, MapInv, CountInv, Users, InUseNeverEvicted
<1>. QED BY <1>1, PoolInvariant, PTL

\* At most one request at a time works in a conversation: the gate is one per
\* conversation because its entry is (pool.go:78-107).
THEOREM Exclusive == Spec => []SessionExclusive
<1>1. Inv => SessionExclusive
  <2>. SUFFICES ASSUME Inv, NEW q \in Requests, NEW r \in Requests,
                       NEW s \in Sessions, Holds(q, s), Holds(r, s)
                PROVE  q = r
    BY DEF SessionExclusive
  <2>1. lease[q].entry = entries[s] /\ lease[r].entry = entries[s]
    BY DEF Inv, MapInv, Holds, Leased
  <2>2. cell[lease[q].entry].gate = q /\ cell[lease[r].entry].gate = r
    BY DEF Inv, GateInv, Holds, Leased
  <2>. QED BY <2>1, <2>2
<1>. QED BY <1>1, PoolInvariant, PTL

-----------------------------------------------------------------------------
(* Tool history pins the account                                           *)

Unproven == [p \in Profiles |-> "unknown"]

\* Why a request with history stays put: it has none before it selects, may
\* not probe, and nobody else touches the binding of its conversation.
Pinned(r) ==
  /\ lease[r].stage \notin {"selected", "probing"}
       => ~lease[r].history /\ lease[r].verdict = Unproven
  /\ lease[r].stage = "probing" => ~lease[r].history
  /\ lease[r].stage = "selected" /\ lease[r].history
       => lease[r].account = Bound(r) /\ lease[r].verdict = Unproven

\* The Lease and the binding of q are left alone.
Spared(q) ==
  /\ lease'[q] = lease[q]
  /\ lease[q].stage \in Leased => Bound(q)' = Bound(q)

LEMMA SparedPinned ==
  ASSUME NEW q \in Requests, Pinned(q), Spared(q)
  PROVE  Pinned(q)'
<1>1. lease'[q] = lease[q]
  BY DEF Spared
<1>2. lease[q].stage \in Leased => Bound(q)' = Bound(q)
  BY DEF Spared
<1>3. Unproven' = Unproven
  BY DEF Unproven
<1>. QED BY <1>1, <1>2, <1>3 DEF Pinned, Leased

\* Only the holder of the slot may rebind, so nobody else's binding changes.
LEMMA RebindSpares ==
  ASSUME Inv, NEW r \in Requests, NEW q \in Requests, q # r, NEW p,
         lease[r].stage \in Leased, Rebind(r, p), lease'[q] = lease[q]
  PROVE  Spared(q)
<1>. SUFFICES ASSUME lease[q].stage \in Leased PROVE Bound(q)' = Bound(q)
  BY DEF Spared
<1>1. /\ cell[lease[r].entry].gate = r /\ cell[lease[q].entry].gate = q
      /\ lease[q].entry \in Entries
  BY DEF Inv, GateInv, MapInv, Leased
<1>2. lease[q].entry # lease[r].entry
  BY <1>1
<1>3. cell'[lease[q].entry] = cell[lease[q].entry]
  BY <1>1, <1>2 DEF Rebind, Inv, TypeOK
<1>. QED BY <1>3 DEF Bound

\* Acquire leaves the bindings of the requests already there alone.
LEMMA AcquireSpares ==
  ASSUME Inv, NEW r \in Requests, NEW s \in Sessions, NEW q \in Requests, q # r,
         AcquireKnown(r, s) \/ AcquireNew(r, s) \/ AcquireBusy(r, s)
  PROVE  Spared(q)
<1>. USE DEF Inv
<1>. SUFFICES /\ lease'[q] = lease[q]
              /\ lease[q].stage \in Leased
                   => cell'[lease[q].entry].profile = cell[lease[q].entry].profile
  BY DEF Spared, Bound
<1>1. \A m : lease[q].stage \in Leased
        => /\ lease[q].entry \in Entries
           /\ Collect(m) \in [Entries -> Entry]
           /\ Collect(m)[lease[q].entry] = cell[lease[q].entry]
  BY CollectKeeps DEF MapInv, Leased
<1>2. CASE AcquireBusy(r, s)
  BY <1>1, <1>2 DEF AcquireBusy
<1>3. ASSUME NEW e \in Entries, NEW m, NEW cells \in [Entries -> Entry],
             Join(r, s, e, m, cells),
             lease[q].stage \in Leased
               => cells[lease[q].entry] = cell[lease[q].entry]
      PROVE  /\ lease'[q] = lease[q]
             /\ lease[q].stage \in Leased
                  => cell'[lease[q].entry].profile = cell[lease[q].entry].profile
  <2>1. lease'[q] = lease[q]
    BY <1>3 DEF Join, TypeOK
  <2>2. \A x \in Entries : cell'[x].profile = cells[x].profile
    BY <1>3 DEF Join, Entry
  <2>. QED BY <1>1, <1>3, <2>1, <2>2
<1>4. CASE AcquireKnown(r, s)
  <2>1. Swept[s] \in Entries
    BY <1>4, SweptTrimmed DEF AcquireKnown, Trimmed
  <2>2. Collect(Swept) \in [Entries -> Entry]
    BY CollectKeeps
  <2>. QED BY <1>1, <1>3, <1>4, <2>1, <2>2 DEF AcquireKnown
<1>5. CASE AcquireNew(r, s)
  <2>1. PICK m : /\ Free(m) # {}
                 /\ LET e == CHOOSE x \in Free(m) : TRUE
                        m2 == [m EXCEPT ![s] = e]
                    IN Join(r, s, e, m2, [Collect(m2) EXCEPT ![e] = Blank])
    BY <1>5 DEF AcquireNew
  <2>2. PICK e \in Free(m) :
          Join(r, s, e, [m EXCEPT ![s] = e],
               [Collect([m EXCEPT ![s] = e]) EXCEPT ![e] = Blank])
    BY <2>1
  <2>. DEFINE m2 == [m EXCEPT ![s] = e]
              cells == [Collect(m2) EXCEPT ![e] = Blank]
  <2>3. e \in Entries /\ lease[q].entry # e
    BY DEF Free
  <2>4. Blank \in Entry
    BY DEF Blank, Entry
  <2>5. Collect(m2) \in [Entries -> Entry]
    BY CollectKeeps
  <2>6. cells \in [Entries -> Entry]
    BY <2>4, <2>5
  <2>7. lease[q].stage \in Leased => cells[lease[q].entry] = cell[lease[q].entry]
    BY <1>1, <2>3, <2>5
  <2>8. Join(r, s, e, m2, cells)
    BY <2>2
  <2>. HIDE DEF m2, cells
  <2>. QED BY <1>3, <2>3, <2>6, <2>7, <2>8
<1>. QED BY <1>2, <1>4, <1>5

\* Every other step of a request spares the others.
LEMMA OthersSpared ==
  ASSUME Inv, NEW r \in Requests, NEW q \in Requests, q # r,
         Cancel(r) \/ EnterGate(r) \/ Proceed(r)
  PROVE  Spared(q)
<1>. USE DEF Inv
<1>1. lease'[q] = lease[q]
  BY DEF Cancel, EnterGate, Proceed, GiveUp, LeaveGate, Unref, Release, Restore,
         Select, Choose, Succeed, Fail, ProbeCurrent, ProbeAlternate, NoAlternate,
         Goto, Finish, TypeOK
<1>2. lease[q].stage \in Leased => lease[q].entry \in Entries
  BY DEF MapInv, Leased
<1>3. CASE \A e \in Entries : cell'[e].profile = cell[e].profile
  BY <1>1, <1>2, <1>3 DEF Spared, Bound
<1>4. CASE lease[r].stage \in Leased /\ \E p : Rebind(r, p)
  BY <1>1, <1>4, RebindSpares
<1>5. CASE Cancel(r) \/ GiveUp(r) \/ Fail(r) \/ ProbeCurrent(r)
             \/ ProbeAlternate(r) \/ NoAlternate(r)
  BY <1>3, <1>5 DEF Cancel, GiveUp, Fail, ProbeCurrent, ProbeAlternate, NoAlternate
<1>6. CASE EnterGate(r)
  BY <1>3, <1>6 DEF EnterGate, TypeOK, Entry
<1>7. CASE LeaveGate(r)
  BY <1>3, <1>7 DEF LeaveGate, TypeOK, Entry
<1>8. CASE Unref(r)
  BY <1>3, <1>8 DEF Unref, TypeOK, Entry
<1>9. CASE Release(r)
  BY <1>3, <1>9 DEF Release, TypeOK, Entry
<1>10. CASE Restore(r)
  BY <1>3, <1>4, <1>10 DEF Restore, Leased
<1>11. CASE Select(r)
  BY <1>3, <1>4, <1>11 DEF Select, Choose, Leased
<1>12. CASE Succeed(r)
  BY <1>3, <1>4, <1>12 DEF Succeed, Leased
<1>. QED BY <1>5, <1>6, <1>7, <1>8, <1>9, <1>10, <1>11, <1>12 DEF Proceed

LEMMA FinishedPinned ==
  ASSUME TypeOK, NEW r \in Requests, Finish(r)
  PROVE  Pinned(r)'
<1>1. lease'[r] = Finished(r)
  BY FinishUpdate DEF TypeOK
<1>2. /\ Finished(r).stage = "done" /\ Finished(r).history = FALSE
      /\ Finished(r).verdict = Unproven
  BY DEF Finished, NoLease, Unproven
<1>3. Unproven' = Unproven
  BY DEF Unproven
<1>. QED BY <1>1, <1>2, <1>3 DEF Pinned

LEMMA GotoPinned ==
  ASSUME TypeOK, NEW r \in Requests, Pinned(r), NEW stage, Goto(r, stage),
         lease[r].stage \notin {"selected", "probing"},
         stage \notin {"selected", "probing"}
  PROVE  Pinned(r)'
<1>. DEFINE l == [lease[r] EXCEPT !.stage = stage]
<1>1. lease'[r] = l
  BY DEF Goto, TypeOK
<1>2. l.stage = stage /\ l.history = lease[r].history /\ l.verdict = lease[r].verdict
  BY DEF TypeOK, Lease
<1>3. Unproven' = Unproven
  BY DEF Unproven
<1>. HIDE DEF l
<1>. QED BY <1>1, <1>2, <1>3 DEF Pinned

LEMMA OwnPinned ==
  ASSUME Inv, NEW r \in Requests, Pinned(r),
         Cancel(r) \/ EnterGate(r) \/ Proceed(r)
  PROVE  Pinned(r)'
<1>. USE DEF Inv
<1>0. Unproven' = Unproven /\ lease[r] \in Lease
  BY DEF Unproven, TypeOK
<1>1. CASE Cancel(r)
  <2>. DEFINE l == [lease[r] EXCEPT !.cancelled = TRUE]
  <2>1. lease'[r] = l /\ cell' = cell
    BY <1>1 DEF Cancel, TypeOK
  <2>2. /\ l.stage = lease[r].stage /\ l.history = lease[r].history
        /\ l.verdict = lease[r].verdict /\ l.entry = lease[r].entry
        /\ l.account = lease[r].account
    BY <1>0 DEF Lease
  <2>. HIDE DEF l
  <2>. QED BY <1>0, <2>1, <2>2 DEF Pinned, Bound
<1>2. CASE EnterGate(r)
  <2>1. Goto(r, AfterGate(r)) /\ lease[r].stage = "waiting"
    BY <1>2 DEF EnterGate, Goto
  <2>2. AfterGate(r) \in {"draining", "leased"}
    BY DEF AfterGate
  <2>. QED BY <2>1, <2>2, GotoPinned
<1>3. CASE GiveUp(r) \/ LeaveGate(r) \/ Release(r)
  BY <1>3, GotoPinned DEF GiveUp, LeaveGate, Release
<1>4. CASE Unref(r)
  <2>1. lease'[r] = NoLease
    BY <1>4 DEF Unref, TypeOK
  <2>. QED BY <1>0, <2>1 DEF NoLease, Pinned, Unproven
<1>5. CASE Restore(r)
  BY <1>5, GotoPinned, FinishedPinned DEF Restore
<1>6. CASE Succeed(r) \/ Fail(r) \/ NoAlternate(r)
  BY <1>6, FinishedPinned DEF Succeed, Fail, NoAlternate
<1>7. CASE Select(r)
  <2>0. PICK m \in Models, history \in BOOLEAN, ids \in SUBSET Profiles,
             selector \in Profiles \cup {None} :
             \E id : Choose(r, m, history, selector, ids, id)
    BY <1>7 DEF Select
  <2>1. PICK id : Choose(r, m, history, selector, ids, id)
    BY <2>0
  <2>2. CASE Finish(r)
    BY <2>2, FinishedPinned
  <2>3. CASE /\ Rebind(r, id)
             /\ lease' = [lease EXCEPT ![r] =
                            Selected(@, m, history, selector, ids, id)]
    <3>. DEFINE l == Selected(lease[r], m, history, selector, ids, id)
    <3>1. /\ l.stage = "selected" /\ l.account = id
          /\ l.verdict = lease[r].verdict /\ l.entry = lease[r].entry
      BY <1>0 DEF Selected, Lease
    <3>2. lease'[r] = l
      BY <2>3 DEF TypeOK
    <3>3. lease[r].verdict = Unproven /\ lease[r].entry \in Entries
      BY <1>7 DEF Pinned, Select, MapInv
    <3>4. cell'[lease[r].entry].profile = id
      BY <2>3, <3>3 DEF Rebind, TypeOK, Entry
    <3>. HIDE DEF l
    <3>. QED BY <1>0, <3>1, <3>2, <3>3, <3>4 DEF Pinned, Bound
  <2>. QED BY <2>1, <2>2, <2>3 DEF Choose
<1>8. CASE ProbeCurrent(r)
  <2>1. \/ Finish(r)
        \/ lease'[r] = Alternating(lease[r], Bound(r))
    BY <1>8 DEF ProbeCurrent, TypeOK
  <2>2. ~lease[r].history
    BY <1>8 DEF ProbeCurrent, MayProbe
  <2>3. LET l == Alternating(lease[r], Bound(r))
        IN l.stage = "probing" /\ l.history = lease[r].history
    BY <1>0 DEF Alternating, Lease
  <2>. QED BY <1>0, <2>1, <2>2, <2>3, FinishedPinned DEF Pinned
<1>9. CASE ProbeAlternate(r)
  <2>1. PICK id \in lease[r].ids, q \in Quota :
          lease'[r] = Probed(lease[r], id, q)
    BY <1>9 DEF ProbeAlternate, TypeOK
  <2>2. lease[r].stage = "probing" /\ ~lease[r].history
    BY <1>9 DEF ProbeAlternate, Pinned
  <2>3. LET l == Probed(lease[r], id, q)
        IN l.stage \in {"probing", "selected"} /\ l.history = lease[r].history
    BY <1>0, <2>2 DEF Probed, Lease
  <2>. QED BY <2>1, <2>2, <2>3 DEF Pinned
<1>. QED BY <1>1, <1>2, <1>3, <1>4, <1>5, <1>6, <1>7, <1>8, <1>9 DEF Proceed

LEMMA JoinedPinned ==
  ASSUME Inv, NEW r \in Requests, NEW s \in Sessions, Pinned(r),
         AcquireKnown(r, s) \/ AcquireNew(r, s) \/ AcquireBusy(r, s)
  PROVE  Pinned(r)'
<1>0. Unproven' = Unproven /\ lease[r] \in Lease /\ lease[r].stage = "idle"
  BY DEF Unproven, Inv, TypeOK, AcquireKnown, AcquireNew, AcquireBusy
<1>1. CASE lease' = lease
  BY <1>0, <1>1 DEF Pinned
<1>2. CASE \E e : lease' = [lease EXCEPT ![r].stage = "waiting",
                                        ![r].session = s, ![r].entry = e]
  <2>1. PICK e : lease' = [lease EXCEPT ![r].stage = "waiting",
                                        ![r].session = s, ![r].entry = e]
    BY <1>2
  <2>. DEFINE l == [lease[r] EXCEPT !.stage = "waiting", !.session = s, !.entry = e]
  <2>2. lease'[r] = l
    BY <2>1 DEF Inv, TypeOK
  <2>3. /\ l.stage = "waiting" /\ l.history = lease[r].history
        /\ l.verdict = lease[r].verdict
    BY <1>0 DEF Lease
  <2>. HIDE DEF l
  <2>. QED BY <1>0, <2>2, <2>3 DEF Pinned
<1>. QED BY <1>1, <1>2 DEF AcquireKnown, AcquireNew, AcquireBusy, Join

\* A request that carries tool history is only ever sent to the account its
\* conversation is bound to: it never probes, never fails over, and nobody else
\* rebinds the conversation meanwhile (pool.go:123-125, 206; accounts.go:83-108).
THEOREM HistoryStays == Spec => []HistoryPinned
<1>. DEFINE AllPinned == \A r \in Requests : Pinned(r)
<1>1. Init => AllPinned
  BY DEF Init, Pinned, NoLease, Unproven
<1>2. Inv /\ AllPinned /\ [Next]_vars => AllPinned'
  <2>. SUFFICES ASSUME Inv, AllPinned, [Next]_vars, NEW q \in Requests
                PROVE  Pinned(q)'
    OBVIOUS
  <2>1. CASE Tick \/ UNCHANGED vars
    <3>1. lease' = lease /\ cell' = cell
      BY <2>1 DEF Tick, vars
    <3>. QED BY <3>1, SparedPinned DEF Spared, Bound
  <2>2. ASSUME NEW r \in Requests, NEW s \in Sessions,
               AcquireKnown(r, s) \/ AcquireNew(r, s) \/ AcquireBusy(r, s)
        PROVE  Pinned(q)'
    <3>1. CASE q = r
      BY <2>2, <3>1, JoinedPinned
    <3>2. CASE q # r
      BY <2>2, <3>2, AcquireSpares, SparedPinned
    <3>. QED BY <3>1, <3>2
  <2>3. ASSUME NEW r \in Requests, Cancel(r) \/ EnterGate(r) \/ Proceed(r)
        PROVE  Pinned(q)'
    <3>1. CASE q = r
      BY <2>3, <3>1, OwnPinned
    <3>2. CASE q # r
      BY <2>3, <3>2, OthersSpared, SparedPinned
    <3>. QED BY <3>1, <3>2
  <2>. QED BY <2>1, <2>2, <2>3 DEF Next
<1>3. AllPinned => HistoryPinned
  BY DEF Pinned, HistoryPinned, Unproven
<1>. QED BY <1>1, <1>2, <1>3, PoolInvariant, PTL DEF Spec

-----------------------------------------------------------------------------
(* Capacity                                                                *)

Known(q) == {k \in Models \X Profiles : q[k] # None}

Capacity == QuotaFactor * Max

\* The sets are finite although conversations, models and accounts may be
\* infinitely many.
CapacityInv ==
  /\ IsFiniteSet(Present(entries)) /\ Cardinality(Present(entries)) <= Max
  /\ IsFiniteSet(Known(quota)) /\ Cardinality(Known(quota)) <= Capacity

LEMMA SmallerSet ==
  ASSUME NEW S, IsFiniteSet(S), NEW n \in Int, Cardinality(S) <= n,
         NEW T \in SUBSET S
  PROVE  IsFiniteSet(T) /\ Cardinality(T) <= n
<1>1. /\ IsFiniteSet(T) /\ Cardinality(T) <= Cardinality(S)
      /\ Cardinality(T) \in Nat /\ Cardinality(S) \in Nat
  BY FS_Subset, FS_CardinalityType
<1>. QED BY <1>1

\* Room for one more, which was there before or takes a free place.
LEMMA OneMore ==
  ASSUME NEW S, IsFiniteSet(S), NEW n \in Int, NEW x,
         Cardinality(S) < n \/ (x \in S /\ Cardinality(S) <= n)
  PROVE  IsFiniteSet(S \cup {x}) /\ Cardinality(S \cup {x}) <= n
<1>1. Cardinality(S) \in Nat
  BY FS_CardinalityType
<1>2. CASE x \in S
  <2>1. S \cup {x} = S
    BY <1>2
  <2>. QED BY <1>1, <2>1
<1>3. CASE x \notin S
  <2>1. /\ IsFiniteSet(S \cup {x})
        /\ Cardinality(S \cup {x}) = Cardinality(S) + 1
    BY <1>3, FS_AddElement
  <2>. QED BY <1>1, <1>3, <2>1
<1>. QED BY <1>2, <1>3

LEMMA OneLess ==
  ASSUME NEW S, IsFiniteSet(S), NEW n \in Int, Cardinality(S) <= n, NEW x \in S
  PROVE  IsFiniteSet(S \ {x}) /\ Cardinality(S \ {x}) < n
<1>1. /\ IsFiniteSet(S \ {x}) /\ Cardinality(S \ {x}) = Cardinality(S) - 1
      /\ Cardinality(S) \in Nat
  BY FS_RemoveElement, FS_CardinalityType
<1>. QED BY <1>1

LEMMA AcquireBounded ==
  ASSUME Inv, CapacityInv, NEW r \in Requests, NEW s \in Sessions,
         AcquireKnown(r, s) \/ AcquireNew(r, s) \/ AcquireBusy(r, s)
  PROVE  /\ IsFiniteSet(Present(entries')) /\ Cardinality(Present(entries')) <= Max
         /\ quota' = quota
<1>0. Max \in Int
  BY PoolAssumption DEF PoolAssumption
<1>1. Present(Swept) \subseteq Present(entries)
  BY DEF Present, Swept
<1>2. IsFiniteSet(Present(Swept)) /\ Cardinality(Present(Swept)) <= Max
  BY <1>0, <1>1, SmallerSet DEF CapacityInv
<1>3. CASE AcquireKnown(r, s) \/ AcquireBusy(r, s)
  BY <1>2, <1>3 DEF AcquireKnown, AcquireBusy, Join
<1>4. CASE AcquireNew(r, s)
  <2>1. PICK m \in {Swept} \cup {[Swept EXCEPT ![v] = None] : v \in Oldest(Swept)} :
          /\ (m # Swept) <=> Full(Swept)
          /\ LET e == CHOOSE x \in Free(m) : TRUE
                 m2 == [m EXCEPT ![s] = e]
             IN Join(r, s, e, m2, [Collect(m2) EXCEPT ![e] = Blank])
    BY <1>4 DEF AcquireNew
  <2>2. PICK e : entries' = [m EXCEPT ![s] = e]
    BY <2>1 DEF Join
  <2>3. quota' = quota
    BY <2>1 DEF Join
  <2>4. DOMAIN m = Sessions
    BY DEF Swept
  <2>5. Present(entries') \subseteq Present(m) \cup {s}
    BY <2>2, <2>4 DEF Present
  <2>6. IsFiniteSet(Present(m)) /\ Cardinality(Present(m)) < Max
    <3>1. CASE m = Swept
      <4>1. ~(Cardinality(Present(Swept)) >= Max)
        BY <2>1, <3>1 DEF Full
      <4>. QED BY <1>0, <1>2, <3>1, <4>1, FS_CardinalityType
    <3>2. ASSUME NEW v \in Oldest(Swept), m = [Swept EXCEPT ![v] = None]
          PROVE  IsFiniteSet(Present(m)) /\ Cardinality(Present(m)) < Max
      <4>1. v \in Present(Swept)
        BY DEF Oldest
      <4>2. Present(m) = Present(Swept) \ {v}
        BY <3>2 DEF Present, Swept
      <4>. QED BY <1>0, <1>2, <4>1, <4>2, OneLess
    <3>. QED BY <3>1, <3>2
  <2>7. IsFiniteSet(Present(m) \cup {s}) /\ Cardinality(Present(m) \cup {s}) <= Max
    BY <1>0, <2>6, OneMore
  <2>. QED BY <1>0, <2>3, <2>5, <2>7, SmallerSet
<1>. QED BY <1>3, <1>4

LEMMA ObserveBounded ==
  ASSUME CapacityInv, NEW m, NEW p, NEW q \in Quota, ObserveQuota(m, p, q)
  PROVE  IsFiniteSet(Known(quota')) /\ Cardinality(Known(quota')) <= Capacity
<1>. DEFINE k == <<m, p>>
            live == [j \in Models \X Profiles |->
                       IF quota[j] # None /\ quota[j].expires <= now
                         THEN None ELSE quota[j]]
            held == {j \in Models \X Profiles : live[j] # None}
            full == live[k] = None /\ Cardinality(held) >= QuotaFactor * Max
<1>0. Capacity \in Int
  BY PoolAssumption DEF PoolAssumption, Capacity
<1>1. held \subseteq Known(quota)
  BY DEF Known
<1>2. IsFiniteSet(held) /\ Cardinality(held) <= Capacity /\ Cardinality(held) \in Nat
  BY <1>0, <1>1, SmallerSet, FS_CardinalityType DEF CapacityInv
<1>3. CASE q = "unknown"
  BY <1>3 DEF ObserveQuota, CapacityInv
<1>4. CASE q # "unknown"
  <2>1. PICK victim : /\ full => victim \in held
                      /\ ~full => victim = k
                      /\ quota' = [live EXCEPT ![victim] = None,
                                      ![k] = [state |-> q, expires |-> now + QuotaTTL]]
    BY <1>4 DEF ObserveQuota
  <2>2. CASE full
    <3>1. Known(quota') \subseteq (held \ {victim}) \cup {k}
      BY <2>1 DEF Known
    <3>2. IsFiniteSet(held \ {victim}) /\ Cardinality(held \ {victim}) < Capacity
      BY <1>0, <1>2, <2>1, <2>2, OneLess
    <3>3. /\ IsFiniteSet((held \ {victim}) \cup {k})
          /\ Cardinality((held \ {victim}) \cup {k}) <= Capacity
      BY <1>0, <3>2, OneMore
    <3>. QED BY <1>0, <3>1, <3>3, SmallerSet
  <2>3. CASE ~full /\ k \in Models \X Profiles
    <3>1. Known(quota') \subseteq held \cup {k}
      BY <2>1 DEF Known
    <3>2. Cardinality(held) < Capacity \/ k \in held
      BY <1>0, <1>2, <2>3 DEF Capacity
    <3>3. IsFiniteSet(held \cup {k}) /\ Cardinality(held \cup {k}) <= Capacity
      BY <1>0, <1>2, <3>2, OneMore
    <3>. QED BY <1>0, <3>1, <3>3, SmallerSet
  <2>4. CASE ~full /\ k \notin Models \X Profiles
    <3>1. Known(quota') \subseteq held
      BY <2>1, <2>4 DEF Known
    <3>. QED BY <1>0, <1>2, <3>1, SmallerSet
  <2>. QED BY <2>2, <2>3, <2>4
<1>. QED BY <1>3, <1>4

\* Both maps stay within their configured sizes, however many conversations and
\* accounts come by: nothing is added to a full map but in the place of something
\* else, and where no entry is idle the request is refused (pool.go:78-90, 194-202).
THEOREM SizesBounded == Spec => []Bounded
<1>1. Init => CapacityInv
  <2>. SUFFICES ASSUME Init PROVE CapacityInv
    OBVIOUS
  <2>1. Present(entries) = {} /\ Known(quota) = {}
    BY DEF Init, Present, Known
  <2>2. 0 <= Max /\ 0 <= Capacity
    BY PoolAssumption DEF PoolAssumption, Capacity
  <2>. QED BY <2>1, <2>2, FS_EmptySet DEF CapacityInv
<1>2. Inv /\ CapacityInv /\ [Next]_vars => CapacityInv'
  <2>. SUFFICES ASSUME Inv, CapacityInv, [Next]_vars PROVE CapacityInv'
    OBVIOUS
  <2>0. Max' = Max /\ Capacity' = Capacity
    BY DEF Capacity
  <2>1. CASE entries' = entries /\ quota' = quota
    BY <2>0, <2>1 DEF CapacityInv, Present, Known
  <2>2. ASSUME NEW r \in Requests, NEW s \in Sessions,
               AcquireKnown(r, s) \/ AcquireNew(r, s) \/ AcquireBusy(r, s)
        PROVE  CapacityInv'
    <3>1. /\ IsFiniteSet(Present(entries')) /\ Cardinality(Present(entries')) <= Max
          /\ quota' = quota
      BY <2>2, AcquireBounded
    <3>. QED BY <2>0, <3>1 DEF CapacityInv, Known, Present
  <2>3. ASSUME NEW r \in Requests, ProbeCurrent(r) \/ ProbeAlternate(r)
        PROVE  CapacityInv'
    <3>1. entries' = entries
      BY <2>3 DEF ProbeCurrent, ProbeAlternate
    <3>2. \E m, p : \E q \in Quota : ObserveQuota(m, p, q)
      BY <2>3 DEF ProbeCurrent, ProbeAlternate
    <3>3. IsFiniteSet(Known(quota')) /\ Cardinality(Known(quota')) <= Capacity
      BY <3>2, ObserveBounded
    <3>. QED BY <2>0, <3>1, <3>3 DEF CapacityInv, Present, Known
  <2>4. ASSUME NEW r \in Requests,
               \/ Cancel(r) \/ EnterGate(r) \/ GiveUp(r) \/ LeaveGate(r) \/ Unref(r)
               \/ Release(r) \/ Restore(r) \/ Select(r) \/ Succeed(r) \/ Fail(r)
               \/ NoAlternate(r)
        PROVE  entries' = entries /\ quota' = quota
    BY <2>4 DEF Cancel, EnterGate, GiveUp, LeaveGate, Unref, Release, Restore, Select,
                Succeed, Fail, NoAlternate
  <2>. QED BY <2>1, <2>2, <2>3, <2>4 DEF Next, Proceed, Tick, vars
<1>3. CapacityInv => Bounded
  BY DEF CapacityInv, Bounded, Known, Capacity
<1>. QED BY <1>1, <1>2, <1>3, PoolInvariant, PTL DEF Spec

=============================================================================
