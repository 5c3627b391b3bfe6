-------------------------- MODULE ContinuityProofs --------------------------
(***************************************************************************)
(* Theorems about Continuity for any requests, conversations, accounts,    *)
(* models, handles, capacity and lifetimes, and any number of crashes and  *)
(* failed writes.                                                          *)
(***************************************************************************)
EXTENDS Continuity, TLAPS

-----------------------------------------------------------------------------
(* The inductive invariant, part by part                                   *)

\* Every call has a conversation,
Covered(st) ==
  \A c \in Calls : st.call[c] # None => st.session[st.call[c].key] # None

\* and is what was handed out under its handle, and when; it ends in time.
Origin(call) == [profile |-> call.profile, key |-> call.key, at |-> call.created]

Capped(call) == call.expires <= call.created + Retention

Genuine(st) ==
  \A c \in Calls : st.call[c] # None =>
    made[c] = Origin(st.call[c]) /\ Capped(st.call[c])

StoresInv == Covered(mem) /\ Genuine(mem) /\ Covered(disk) /\ Genuine(disk)

\* st has no call or conversation that old has not, nor for another account, nor
\* from another time.
Within(st, old) ==
  /\ \A c \in Calls : st.call[c] # None =>
       /\ old.call[c] # None
       /\ st.call[c].profile = old.call[c].profile /\ st.call[c].key = old.call[c].key
       /\ st.call[c].created = old.call[c].created
  /\ \A k \in Keys : st.session[k] # None =>
       /\ old.session[k] # None
       /\ st.session[k].profile = old.session[k].profile
       /\ st.session[k].created = old.session[k].created

\* The file keeps up with the memory until a write fails, lookups aside.
DiskInv == count.fault = 0 => Within(mem, disk)

\* What a turn knows, and that it may only be sent with handles of its own route.
TurnOf(r) ==
  LET t == turn[r] IN
  /\ t.pc \notin {"idle", "leaving"} => t.model \in Models /\ t.session \in Sessions
  /\ t.pc = "leaving" => t.session \in Sessions
  /\ t.pc \in {"preparing", "sending", "bound", "streaming", "calling"}
       => t.profile \in Profiles
  /\ t.shown # {} => t.history
  /\ t.pc = "sending" =>
       \A c \in t.shown :
         made[c] # None /\ made[c].profile = t.profile /\ made[c].key = KeyOf(r)

TurnInv == \A r \in Requests : TurnOf(r)

Inv == TypeOK /\ StoresInv /\ DiskInv /\ TurnInv

-----------------------------------------------------------------------------
(* What the operations of the cache make of a store                        *)

\* A conversation's unexpired calls go together.
AsUnit(st, old) ==
  \A c, d \in Calls :
    /\ old.call[c] # None /\ old.call[d] # None
    /\ old.call[c].key = old.call[d].key
    /\ Alive(old.call[c]) /\ st.call[c] = None
    => st.call[d] = None

\* Records are deleted, and no other is changed.
Deletes(st, old) ==
  /\ st \in Store /\ Covered(st) /\ AsUnit(st, old)
  /\ \A c \in Calls : st.call[c] \in {None, old.call[c]}
  /\ \A k \in Keys : st.session[k] \in {None, old.session[k]}

LEMMA DeletesWithin ==
  ASSUME NEW st, NEW old, Deletes(st, old)
  PROVE  Within(st, old)
BY DEF Deletes, Within

LEMMA DeletesNothing ==
  ASSUME NEW st \in Store, Covered(st)
  PROVE  Deletes(st, st)
BY DEF Deletes, AsUnit

LEMMA DeletesTwice ==
  ASSUME NEW a, NEW b, NEW c, Deletes(b, a), Deletes(c, b)
  PROVE  Deletes(c, a)
<1>1. AsUnit(c, a)
  <2>. SUFFICES ASSUME NEW x \in Calls, NEW y \in Calls,
                       a.call[x] # None, a.call[y] # None,
                       a.call[x].key = a.call[y].key,
                       Alive(a.call[x]), c.call[x] = None
                PROVE  c.call[y] = None
    BY DEF AsUnit
  <2>1. CASE b.call[x] = None
    BY <2>1 DEF Deletes, AsUnit
  <2>2. CASE b.call[x] = a.call[x]
    BY <2>2 DEF Deletes, AsUnit
  <2>. QED BY <2>1, <2>2 DEF Deletes
<1>. QED BY <1>1 DEF Deletes

LEMMA WithoutStore ==
  ASSUME NEW st \in Store, NEW gone, NEW keys
  PROVE  /\ Without(st, gone, keys) \in Store
         /\ \A c \in Calls : Without(st, gone, keys).call[c] =
                               IF c \in gone THEN None ELSE st.call[c]
         /\ \A k \in Keys : Without(st, gone, keys).session[k] =
                              IF k \in keys THEN None ELSE st.session[k]
BY DEF Store, Without

\* What has expired goes alone, a conversation with all that is its.
LEMMA WithoutDeletes ==
  ASSUME NEW st \in Store, Covered(st), NEW gone, NEW keys,
         \A k \in keys : CallsOf(st, k) \subseteq gone,
         \A c \in gone \cap Calls :
           st.call[c] # None /\ Alive(st.call[c]) => CallsOf(st, st.call[c].key) \subseteq gone
  PROVE  Deletes(Without(st, gone, keys), st)
<1>. DEFINE n == Without(st, gone, keys)
<1>1. /\ n \in Store
      /\ \A c \in Calls : n.call[c] = IF c \in gone THEN None ELSE st.call[c]
      /\ \A k \in Keys : n.session[k] = IF k \in keys THEN None ELSE st.session[k]
  BY WithoutStore
<1>. HIDE DEF n
<1>2. Covered(n)
  <2>. SUFFICES ASSUME NEW c \in Calls, n.call[c] # None
                PROVE  n.session[n.call[c].key] # None
    BY DEF Covered
  <2>1. c \notin gone /\ n.call[c] = st.call[c]
    BY <1>1
  <2>2. st.call[c].key \in Keys
    BY <2>1 DEF Store, Call
  <2>3. st.call[c].key \notin keys
    BY <2>1 DEF CallsOf
  <2>. QED BY <1>1, <2>1, <2>2, <2>3 DEF Covered
<1>3. AsUnit(n, st)
  BY <1>1 DEF AsUnit, CallsOf
<1>. QED BY <1>1, <1>2, <1>3 DEF Deletes, n

LEMMA DeleteSessionsDeletes ==
  ASSUME NEW st \in Store, Covered(st), NEW keys
  PROVE  /\ Deletes(DeleteSessions(st, keys), st)
         /\ \A k \in Keys : DeleteSessions(st, keys).session[k] =
                              IF k \in keys THEN None ELSE st.session[k]
<1>. DEFINE gone == UNION {CallsOf(st, k) : k \in keys}
<1>1. \A k \in keys : CallsOf(st, k) \subseteq gone
  OBVIOUS
<1>2. \A c \in gone \cap Calls : CallsOf(st, st.call[c].key) \subseteq gone
  BY DEF CallsOf
<1>. HIDE DEF gone
<1>. QED BY <1>1, <1>2, WithoutDeletes, WithoutStore DEF DeleteSessions, gone

LEMMA SweepDeletes ==
  ASSUME NEW st \in Store, Covered(st)
  PROVE  Deletes(Sweep(st), st)
<1>. DEFINE dead == {c \in Calls : ~Alive(st.call[c])}
            kept == Without(st, dead, {})
            keys == {k \in Keys : st.session[k] # None /\ ~Alive(st.session[k])}
<1>1. Deletes(kept, st)
  BY WithoutDeletes
<1>. HIDE DEF kept, keys
<1>2. Deletes(DeleteSessions(kept, keys), kept)
  BY <1>1, DeleteSessionsDeletes DEF Deletes
<1>. QED BY <1>1, <1>2, DeletesTwice DEF Sweep, kept, keys

LEMMA RoomDeletes ==
  ASSUME NEW st \in Store, Covered(st), NEW k, NEW room \in EnsureCapacity(st, k)
  PROVE  Deletes(room, st)
<1>1. room = st \/ \E o : room = DeleteSessions(st, {o})
  BY DEF EnsureCapacity
<1>. QED BY <1>1, DeletesNothing, DeleteSessionsDeletes

LEMMA RestoredDeletes ==
  ASSUME mem \in Store, Covered(mem), NEW k
  PROVE  Deletes(Restored(k), mem)
BY DeletesNothing, DeleteSessionsDeletes DEF Restored

LEMMA ExtendType ==
  ASSUME now \in 0..MaxTime, NEW created \in Time
  PROVE  /\ ExtendExpiry(created) \in Time /\ now \in Time
         /\ ExtendExpiry(created) <= created + Retention
BY ContinuityAssumption DEF ExtendExpiry, Earlier, Time

LEMMA TouchType ==
  ASSUME now \in 0..MaxTime, NEW record \in Bound
  PROVE  /\ Touch(record) \in Bound /\ Touch(record) # None
         /\ Touch(record).profile = record.profile
         /\ Touch(record).created = record.created
         /\ Touch(record).expires = ExtendExpiry(record.created)
<1>. DEFINE e == ExtendExpiry(record.created)
<1>1. e \in Time /\ now \in Time
  BY ExtendType DEF Bound
<1>. HIDE DEF e
<1>2. Touch(record) = [record EXCEPT !.used = now, !.expires = e]
  BY DEF Touch, e
<1>3. /\ Touch(record) \in Bound /\ Touch(record).profile = record.profile
      /\ Touch(record).created = record.created /\ Touch(record).expires = e
  BY <1>1, <1>2 DEF Bound
<1>. QED BY <1>3, ContinuityAssumption DEF e

\* st has part of what old has, some of it renewed from now on.
Renews(st, old) ==
  /\ Within(st, old)
  /\ \A c \in Calls : st.call[c] # None =>
       st.call[c].expires \in {old.call[c].expires, ExtendExpiry(old.call[c].created)}
  /\ \A k \in Keys : st.session[k] # None =>
       st.session[k].expires \in
         {old.session[k].expires, ExtendExpiry(old.session[k].created)}

\* A lookup forgets what has expired of what it looks at, and no conversation; what
\* it renews still counts from its beginning.
LEMMA LookUpKeeps ==
  ASSUME now \in 0..MaxTime, NEW st \in Store, Covered(st), NEW cs,
         \A c \in Calls : st.call[c] # None => Capped(st.call[c])
  PROVE  /\ LookUp(st, cs) \in Store /\ Covered(LookUp(st, cs))
         /\ Renews(LookUp(st, cs), st) /\ AsUnit(LookUp(st, cs), st)
         /\ \A c \in Calls : Alive(st.call[c]) => LookUp(st, cs).call[c] # None
         /\ \A c \in Calls : LookUp(st, cs).call[c] # None =>
              Capped(LookUp(st, cs).call[c])
<1>. DEFINE found == {c \in cs : Alive(st.call[c])}
            kept == Without(st, cs \ found, {})
            keys == {st.call[c].key : c \in found}
            n == LookUp(st, cs)
            renewed(c) == [kept.call[c] EXCEPT !.expires =
                             ExtendExpiry(kept.call[c].created)]
<1>1. /\ kept \in Store
      /\ \A c \in Calls : kept.call[c] = IF c \in cs \ found THEN None ELSE st.call[c]
      /\ \A k \in Keys : kept.session[k] = st.session[k]
  BY WithoutStore
<1>2. \A c \in Calls : c \in found => kept.call[c] = st.call[c] /\ st.call[c] # None
  BY <1>1 DEF Alive
<1>3. \A c \in Calls : c \notin found => kept.call[c] = None \/ kept.call[c] = st.call[c]
  BY <1>1
<1>. HIDE DEF kept
<1>4. ASSUME NEW c \in Calls, c \in found
      PROVE  /\ renewed(c) \in Call /\ renewed(c) # None
             /\ renewed(c).profile = st.call[c].profile /\ renewed(c).key = st.call[c].key
             /\ renewed(c).created = st.call[c].created /\ Capped(renewed(c))
             /\ renewed(c).expires = ExtendExpiry(st.call[c].created)
  <2>. DEFINE e == ExtendExpiry(kept.call[c].created)
  <2>1. kept.call[c] \in Call
    BY <1>1, <1>2, <1>4 DEF Store
  <2>2. e \in Time /\ e <= kept.call[c].created + Retention
    BY <2>1, ExtendType DEF Call
  <2>. HIDE DEF e
  <2>3. [kept.call[c] EXCEPT !.expires = e] \in Call
    BY <2>1, <2>2 DEF Call
  <2>4. /\ [kept.call[c] EXCEPT !.expires = e].profile = kept.call[c].profile
        /\ [kept.call[c] EXCEPT !.expires = e].key = kept.call[c].key
        /\ [kept.call[c] EXCEPT !.expires = e].created = kept.call[c].created
        /\ [kept.call[c] EXCEPT !.expires = e].expires = e
    BY <2>1 DEF Call
  <2>5. renewed(c) = [kept.call[c] EXCEPT !.expires = e]
    BY DEF e
  <2>. HIDE DEF renewed
  <2>6. renewed(c).created = st.call[c].created /\ Capped(renewed(c))
    BY <1>2, <1>4, <2>2, <2>4, <2>5 DEF Capped
  <2>7. renewed(c).expires = ExtendExpiry(st.call[c].created)
    BY <1>2, <1>4, <2>4, <2>5 DEF e
  <2>. QED BY <1>2, <1>4, <2>3, <2>4, <2>5, <2>6, <2>7, ContinuityAssumption
<1>5. n = [call |-> [c \in Calls |-> IF c \in found THEN renewed(c) ELSE kept.call[c]],
           session |-> [k \in Keys |->
             IF k \in keys /\ kept.session[k] # None THEN Touch(kept.session[k])
             ELSE kept.session[k]]]
  BY DEF LookUp, kept
<1>. HIDE DEF renewed, keys, n
<1>6. /\ \A c \in Calls : n.call[c] = IF c \in found THEN renewed(c) ELSE kept.call[c]
      /\ \A k \in Keys : n.session[k] \in {kept.session[k], Touch(kept.session[k])}
      /\ \A k \in Keys : n.session[k] = Touch(kept.session[k])
           => n.session[k] = kept.session[k] \/ kept.session[k] # None
  BY <1>5
<1>7. \A k \in Keys : /\ n.session[k] \in Bound \cup {None}
                      /\ st.session[k] # None <=> n.session[k] # None
                      /\ n.session[k] # None =>
                           /\ n.session[k].profile = st.session[k].profile
                           /\ n.session[k].created = st.session[k].created
                           /\ n.session[k].expires \in
                                {st.session[k].expires,
                                 ExtendExpiry(st.session[k].created)}
  <2>. TAKE k \in Keys
  <2>1. CASE st.session[k] = None
    BY <1>1, <1>6, <2>1
  <2>2. CASE st.session[k] # None
    <3>1. st.session[k] \in Bound
      BY <2>2 DEF Store
    <3>. QED BY <1>1, <1>6, <2>2, <3>1, TouchType
  <2>. QED BY <2>1, <2>2
<1>8. \A c \in Calls : n.call[c] \in Call \cup {None}
  BY <1>1, <1>4, <1>6 DEF Store
<1>9. n \in Store
  BY <1>5, <1>6, <1>7, <1>8 DEF Store
<1>10. \A c \in Calls : n.call[c] # None =>
         /\ st.call[c] # None
         /\ n.call[c].profile = st.call[c].profile /\ n.call[c].key = st.call[c].key
         /\ n.call[c].created = st.call[c].created /\ Capped(n.call[c])
         /\ n.call[c].expires \in {st.call[c].expires, ExtendExpiry(st.call[c].created)}
  BY <1>2, <1>3, <1>4, <1>6
<1>11. Covered(n)
  <2>. SUFFICES ASSUME NEW c \in Calls, n.call[c] # None
                PROVE  n.session[n.call[c].key] # None
    BY DEF Covered
  <2>1. st.call[c] # None /\ n.call[c].key = st.call[c].key
    BY <1>10
  <2>2. st.call[c].key \in Keys
    BY <2>1 DEF Store, Call
  <2>. QED BY <1>7, <2>1, <2>2 DEF Covered
<1>12. \A c \in Calls : Alive(st.call[c]) => n.call[c] # None
  <2>. TAKE c \in Calls
  <2>1. CASE c \in found
    BY <1>4, <1>6, <2>1
  <2>2. CASE c \notin found
    BY <1>1, <1>6, <2>2 DEF Alive
  <2>. QED BY <2>1, <2>2
<1>13. Renews(n, st)
  BY <1>7, <1>10 DEF Renews, Within
<1>14. AsUnit(n, st)
  BY <1>12 DEF AsUnit
<1>. QED BY <1>9, <1>10, <1>11, <1>12, <1>13, <1>14 DEF n

LEMMA BindKeeps ==
  ASSUME now \in 0..MaxTime, NEW st \in Store, NEW k \in Keys, NEW p \in Profiles
  PROVE  /\ Bind(st, k, p) \in Store /\ Bind(st, k, p).call = st.call
         /\ Bind(st, k, p).session[k] # None
         /\ \A o \in Keys : st.session[o] # None =>
              /\ Bind(st, k, p).session[o] # None
              /\ Bind(st, k, p).session[o].profile = st.session[o].profile
         /\ \A o \in Keys : o # k => Bind(st, k, p).session[o] = st.session[o]
         /\ \/ /\ Bind(st, k, p).session[k].profile # p
               /\ Bind(st, k, p).session[k] = st.session[k]
            \/ /\ Bind(st, k, p).session[k].profile = p
               /\ Bind(st, k, p).session[k].expires =
                    ExtendExpiry(Bind(st, k, p).session[k].created)
<1>. DEFINE record == [profile |-> p, created |-> now, used |-> now,
                       expires |-> ExtendExpiry(now)]
<1>1. /\ record \in Bound /\ record # None
      /\ record.profile = p /\ record.expires = ExtendExpiry(record.created)
  <2>1. now \in Time
    BY ContinuityAssumption DEF Time
  <2>2. ExtendExpiry(now) \in Time
    BY <2>1, ExtendType
  <2>. QED BY <2>1, <2>2, ContinuityAssumption DEF Bound
<1>2. st.session[k] # None =>
        /\ Touch(st.session[k]) \in Bound /\ Touch(st.session[k]) # None
        /\ Touch(st.session[k]).profile = st.session[k].profile
        /\ Touch(st.session[k]).expires = ExtendExpiry(Touch(st.session[k]).created)
  BY TouchType DEF Store
<1>. HIDE DEF record
<1>3. CASE st.session[k] = None
  <2>1. Bind(st, k, p) = [st EXCEPT !.session[k] = record]
    BY <1>3 DEF Bind, record
  <2>. QED BY <1>1, <1>3, <2>1 DEF Store
<1>4. CASE st.session[k] # None /\ st.session[k].profile = p
  <2>. DEFINE t == Touch(st.session[k])
  <2>1. Bind(st, k, p) = [st EXCEPT !.session[k] = t]
    BY <1>4 DEF Bind, Store
  <2>. HIDE DEF t
  <2>2. /\ t \in Bound /\ t # None /\ t.profile = st.session[k].profile
        /\ t.expires = ExtendExpiry(t.created)
    BY <1>2, <1>4 DEF t
  <2>. QED BY <1>4, <2>1, <2>2 DEF Store
<1>5. CASE st.session[k] # None /\ st.session[k].profile # p
  BY <1>5 DEF Bind
<1>. QED BY <1>3, <1>4, <1>5

-----------------------------------------------------------------------------
(* Memory and file                                                         *)

\* A step that only deletes and renews, and writes nothing.
LEMMA StoresWithin ==
  ASSUME TypeOK, StoresInv, DiskInv,
         mem' \in Store, Covered(mem'), Within(mem', mem),
         \A c \in Calls : mem'.call[c] # None => Capped(mem'.call[c]),
         UNCHANGED <<disk, made>>, count'.fault = count.fault
  PROVE  disk' \in Store /\ StoresInv' /\ DiskInv'
<1>1. Genuine(mem)'
  BY DEF StoresInv, Genuine, Within, Origin
<1>2. Covered(mem)' /\ Covered(disk)' /\ Genuine(disk)'
  BY DEF StoresInv, Genuine, Covered
<1>3. DiskInv'
  <2>. SUFFICES ASSUME count.fault = 0 PROVE Within(mem, disk)'
    BY DEF DiskInv
  <2>1. Within(mem, disk)
    BY DEF DiskInv
  <2>. QED BY <2>1 DEF Within
<1>. QED BY <1>1, <1>2, <1>3 DEF StoresInv, TypeOK

\* What has been handed out stays so.
Extends == \A c \in Calls : made[c] # None => made'[c] = made[c]

LEMMA StoresPersist ==
  ASSUME TypeOK, StoresInv, DiskInv, Extends,
         NEW st \in Store, Covered(st), Persist(st),
         \A c \in Calls : st.call[c] # None =>
           made'[c] = Origin(st.call[c]) /\ Capped(st.call[c])
  PROVE  /\ mem' \in Store /\ disk' \in Store /\ StoresInv' /\ DiskInv'
         /\ count' \in [crash : 0..MaxCrashes, fault : 0..MaxFaults]
<1>1. /\ mem' = st
      /\ \/ disk' = st /\ UNCHANGED count
         \/ /\ disk' = disk /\ count.fault < MaxFaults
            /\ count' = [count EXCEPT !.fault = @ + 1]
  BY DEF Persist
<1>2. count' \in [crash : 0..MaxCrashes, fault : 0..MaxFaults]
  BY <1>1, ContinuityAssumption DEF TypeOK
<1>3. \A c \in Calls : disk.call[c] # None =>
        made'[c] = Origin(disk.call[c]) /\ Capped(disk.call[c])
  <2>. SUFFICES ASSUME NEW c \in Calls, disk.call[c] # None
                PROVE  made'[c] = Origin(disk.call[c]) /\ Capped(disk.call[c])
    OBVIOUS
  <2>1. disk.call[c] \in Call
    BY DEF TypeOK, Store
  <2>2. Origin(disk.call[c]) \in Route
    BY <2>1 DEF Call, Route, Origin
  <2>3. made[c] # None
    BY <2>2, ContinuityAssumption DEF StoresInv, Genuine
  <2>. QED BY <2>3 DEF Extends, StoresInv, Genuine
<1>4. Genuine(mem)' /\ Genuine(disk)'
  BY <1>1, <1>3 DEF Genuine
<1>5. Covered(mem)' /\ Covered(disk)'
  BY <1>1 DEF StoresInv, Covered
<1>6. DiskInv'
  BY <1>1 DEF DiskInv, Within, TypeOK
<1>. QED BY <1>1, <1>2, <1>4, <1>5, <1>6 DEF StoresInv, TypeOK

-----------------------------------------------------------------------------
(* Turns and their leases                                                  *)

Works(r, s) == turn[r].session = s /\ turn[r].pc \notin {"idle", "acquiring"}

\* Only r moves.
Moves(r) ==
  /\ turn' \in [Requests -> Turn] /\ TurnOf(r)'
  /\ \A q \in Requests \ {r} : turn'[q] = turn[q]

LEMMA MovesTo ==
  ASSUME TypeOK, NEW r \in Requests, NEW t \in Turn, turn' = [turn EXCEPT ![r] = t],
         t.pc \notin {"idle", "leaving"} => t.model \in Models /\ t.session \in Sessions,
         t.pc = "leaving" => t.session \in Sessions,
         t.pc \in {"preparing", "sending", "bound", "streaming", "calling"}
           => t.profile \in Profiles,
         t.shown # {} => t.history,
         t.pc = "sending" =>
           \A c \in t.shown : /\ made'[c] # None /\ made'[c].profile = t.profile
                              /\ made'[c].key = <<t.model, t.session>>
  PROVE  Moves(r) /\ turn'[r] = t
BY DEF TypeOK, Moves, TurnOf, KeyOf

LEMMA IdleMoves ==
  ASSUME TypeOK, NEW r \in Requests, turn' = [turn EXCEPT ![r] = NoTurn]
  PROVE  Moves(r) /\ turn'[r].pc = "idle"
<1>1. NoTurn \in Turn /\ NoTurn.pc = "idle" /\ NoTurn.shown = {}
  BY DEF NoTurn, Turn
<1>. QED BY <1>1, MovesTo

LEMMA TurnsKept ==
  ASSUME TypeOK, TurnInv, Extends, NEW r \in Requests, Moves(r)
  PROVE  TurnInv'
<1>. SUFFICES ASSUME NEW q \in Requests, q # r PROVE TurnOf(q)'
  BY DEF TurnInv, Moves
<1>1. TurnOf(q) /\ turn'[q] = turn[q] /\ turn[q] \in Turn
  BY DEF TurnInv, Moves, TypeOK
<1>2. ASSUME turn[q].pc = "sending", NEW c \in turn[q].shown
      PROVE  made'[c] = made[c]
  <2>1. c \in Calls /\ made[c] # None
    BY <1>1, <1>2 DEF Turn, TurnOf
  <2>. QED BY <2>1 DEF Extends
<1>. QED BY <1>1, <1>2 DEF TurnOf, KeyOf

LEMMA HoldersKept ==
  ASSUME TypeOK, NEW r \in Requests, Moves(r),
         \/ holder' = holder /\ \A s \in Sessions : Works(r, s)' <=> Works(r, s)
         \/ \E s \in Sessions :
              /\ holder[s] = None /\ holder' = [holder EXCEPT ![s] = r]
              /\ turn[r].pc \in {"idle", "acquiring"}
              /\ turn'[r].session = s /\ turn'[r].pc \notin {"idle", "acquiring"}
         \/ \E s \in Sessions :
              /\ turn[r].session = s /\ holder' = [holder EXCEPT ![s] = None]
              /\ holder[s] = r /\ turn'[r].pc \in {"idle", "acquiring"}
  PROVE  /\ holder' \in [Sessions -> Requests \cup {None}]
         /\ \A q \in Requests, s \in Sessions :
              holder'[s] = q <=> turn'[q].session = s
                                 /\ turn'[q].pc \notin {"idle", "acquiring"}
<1>. None \notin Requests
  BY ContinuityAssumption
<1>1. \A q \in Requests, s \in Sessions : holder[s] = q <=> Works(q, s)
  BY DEF TypeOK, Works
<1>2. \A q \in Requests \ {r}, s \in Sessions : Works(q, s)' <=> Works(q, s)
  BY DEF Moves, Works
<1>3. CASE holder' = holder /\ \A s \in Sessions : Works(r, s)' <=> Works(r, s)
  BY <1>1, <1>2, <1>3 DEF Works, TypeOK
<1>4. ASSUME NEW s \in Sessions,
             holder[s] = None, holder' = [holder EXCEPT ![s] = r],
             turn[r].pc \in {"idle", "acquiring"},
             turn'[r].session = s, turn'[r].pc \notin {"idle", "acquiring"}
      PROVE  /\ holder' \in [Sessions -> Requests \cup {None}]
             /\ \A q \in Requests, x \in Sessions : holder'[x] = q <=> Works(q, x)'
  <2>1. \A x \in Sessions : holder'[x] = IF x = s THEN r ELSE holder[x]
    BY <1>4 DEF TypeOK
  <2>2. \A x \in Sessions : (Works(r, x)' <=> x = s) /\ holder[x] # r
    BY <1>1, <1>4 DEF Works
  <2>3. \A q \in Requests \ {r} : ~Works(q, s)
    BY <1>1, <1>4
  <2>. QED BY <1>1, <1>2, <1>4, <2>1, <2>2, <2>3 DEF TypeOK
<1>5. ASSUME NEW s \in Sessions,
             turn[r].session = s, holder' = [holder EXCEPT ![s] = None],
             holder[s] = r, turn'[r].pc \in {"idle", "acquiring"}
      PROVE  /\ holder' \in [Sessions -> Requests \cup {None}]
             /\ \A q \in Requests, x \in Sessions : holder'[x] = q <=> Works(q, x)'
  <2>1. \A x \in Sessions : holder'[x] = IF x = s THEN None ELSE holder[x]
    BY <1>5 DEF TypeOK
  <2>2. \A x \in Sessions : ~Works(r, x)' /\ (holder[x] = r => x = s)
    BY <1>1, <1>5 DEF Works
  <2>3. \A q \in Requests \ {r} : ~Works(q, s)
    BY <1>1, <1>5
  <2>. QED BY <1>1, <1>2, <1>5, <2>1, <2>2, <2>3 DEF TypeOK
<1>. QED BY <1>3, <1>4, <1>5 DEF Works

\* What a step does to its turn and to the leases.
Turns(r) ==
  /\ Moves(r)
  /\ \/ holder' = holder /\ \A s \in Sessions : Works(r, s)' <=> Works(r, s)
     \/ \E s \in Sessions :
          /\ holder[s] = None /\ holder' = [holder EXCEPT ![s] = r]
          /\ turn[r].pc \in {"idle", "acquiring"}
          /\ turn'[r].session = s /\ turn'[r].pc \notin {"idle", "acquiring"}
     \/ \E s \in Sessions :
          /\ turn[r].session = s /\ holder' = [holder EXCEPT ![s] = None]
          /\ holder[s] = r /\ turn'[r].pc \in {"idle", "acquiring"}
  /\ account' \in [Sessions -> Profiles \cup {None}]
  /\ now' = now

\* Every route is one of the wire models and conversations there are.
LEMMA RoutesAreKeys ==
  ASSUME TypeOK, NEW explicit \in Sessions \cup {None}, NEW m \in Models,
         NEW shown \in SUBSET Issued, NEW old \in SUBSET Issued
  PROVE  Routes(explicit, m, shown, old) \subseteq Keys
<1>. DEFINE Fits(c) == Alive(mem.call[c]) /\ explicit \in {None, mem.call[c].key[2]}
            shownKeys == {mem.call[c].key : c \in {c \in shown : Fits(c)}}
            oldKeys == {mem.call[c].key : c \in {c \in old : Fits(c)}}
            own == IF explicit # None THEN {<<m, explicit>>} ELSE {}
<1>1. \A c \in Issued : Fits(c) => mem.call[c].key \in Keys
  BY DEF Issued, Alive, TypeOK, Store, Call
<1>2. shownKeys \subseteq Keys /\ oldKeys \subseteq Keys
  BY <1>1
<1>3. own \subseteq Keys
  BY DEF Keys
<1>4. \A k \in Routes(explicit, m, shown, old) : k \in shownKeys \cup oldKeys \cup own
  BY DEF Routes
<1>. QED BY <1>2, <1>3, <1>4

LEMMA ResolveTurns ==
  ASSUME TypeOK, TurnInv, NEW r \in Requests, Resolve(r)
  PROVE  Turns(r) /\ \E seen : mem' = LookUp(mem, seen)
<1>1. PICK explicit \in Sessions \cup {None}, m \in Models, history \in BOOLEAN,
           shown \in SUBSET Issued :
        \E old \in IF shown = {} THEN SUBSET Issued ELSE {{}} :
          /\ shown \cup old # {} => history
          /\ LET routes == Openings(explicit, m, history, shown, old)
             IN \E seen \in SUBSET (shown \cup old) :
                  /\ routes # {} /\ shown # {} => seen = shown
                  /\ mem' = LookUp(mem, seen)
                  /\ IF routes = {} THEN UNCHANGED turn
                     ELSE \E k \in routes :
                       turn' = [turn EXCEPT ![r] = Opened(k, shown, history)]
  BY DEF Resolve
<1>2. PICK old \in SUBSET Issued :
        /\ shown \cup old # {} => history
        /\ \E seen : mem' = LookUp(mem, seen)
        /\ \/ turn' = turn
           \/ \E k \in Openings(explicit, m, history, shown, old) :
                turn' = [turn EXCEPT ![r] = Opened(k, shown, history)]
  BY <1>1
<1>3. Openings(explicit, m, history, shown, old) \subseteq Keys
  <2>1. Routes(explicit, m, shown, old) \subseteq Keys
    BY RoutesAreKeys
  <2>. QED BY <2>1 DEF Openings, Keys
<1>4. UNCHANGED <<now, holder, account, made>> /\ turn[r].pc = "idle"
  BY DEF Resolve, pool
<1>5. CASE turn' = turn
  <2>1. TurnOf(r) /\ turn \in [Requests -> Turn]
        /\ account \in [Sessions -> Profiles \cup {None}]
    BY DEF TurnInv, TypeOK
  <2>2. TurnOf(r)'
    BY <1>4, <1>5, <2>1 DEF TurnOf, KeyOf
  <2>3. \A s \in Sessions : Works(r, s)' <=> Works(r, s)
    BY <1>5 DEF Works
  <2>4. Moves(r)
    BY <1>5, <2>1, <2>2 DEF Moves
  <2>5. holder' = holder /\ now' = now /\ account' = account
    BY <1>4
  <2>. QED BY <1>2, <2>1, <2>3, <2>4, <2>5 DEF Turns
<1>6. ASSUME NEW k \in Keys, turn' = [turn EXCEPT ![r] = Opened(k, shown, history)]
      PROVE  Turns(r)
  <2>. DEFINE t == Opened(k, shown, history)
  <2>1. k[1] \in Models /\ k[2] \in Sessions
    BY DEF Keys
  <2>2. shown \in SUBSET Calls
    BY DEF Issued
  <2>3. t \in Turn
    BY <2>1, <2>2 DEF Opened, NoTurn, Turn
  <2>4. /\ t.pc = "acquiring" /\ t.model = k[1] /\ t.session = k[2]
        /\ t.shown = shown /\ t.history = history
    BY DEF Opened, NoTurn
  <2>. HIDE DEF t
  <2>5. turn' = [turn EXCEPT ![r] = t]
    BY <1>6 DEF t
  <2>6. t.shown # {} => t.history
    BY <1>2, <2>4
  <2>7. Moves(r) /\ turn'[r] = t
    BY <2>1, <2>3, <2>4, <2>5, <2>6, MovesTo
  <2>. QED BY <1>4, <2>4, <2>7 DEF Turns, Works, TypeOK
<1>. QED BY <1>2, <1>3, <1>5, <1>6

\* A turn that goes on as it is.
LEMMA GoesOnTurns ==
  ASSUME TypeOK, TurnInv, NEW r \in Requests, NEW pc,
         pc \in {"leased", "sending", "streaming", "calling"},
         turn' = [turn EXCEPT ![r].pc = pc],
         turn[r].pc \notin {"idle", "leaving"},
         pc # "leased" => turn[r].profile \in Profiles,
         pc = "sending" => \A c \in turn[r].shown :
           /\ made'[c] # None
           /\ made'[c].profile = turn[r].profile /\ made'[c].key = KeyOf(r)
  PROVE  Moves(r) /\ turn'[r].pc = pc /\ turn'[r].session = turn[r].session
<1>. DEFINE t == [turn[r] EXCEPT !.pc = pc]
<1>1. turn[r] \in Turn /\ TurnOf(r)
  BY DEF TypeOK, TurnInv
<1>2. t \in Turn
  BY <1>1 DEF Turn
<1>3. /\ t.pc = pc /\ t.model = turn[r].model /\ t.session = turn[r].session
      /\ t.shown = turn[r].shown /\ t.history = turn[r].history
      /\ t.profile = turn[r].profile
  BY <1>1 DEF Turn
<1>4. turn' = [turn EXCEPT ![r] = t]
  OBVIOUS
<1>5. /\ t.pc # "leaving" /\ t.model \in Models /\ t.session \in Sessions
      /\ t.pc # "leased" => t.profile \in Profiles
      /\ t.shown # {} => t.history
  BY <1>1, <1>3 DEF TurnOf
<1>6. t.pc = "sending" =>
        \A c \in t.shown : /\ made'[c] # None /\ made'[c].profile = t.profile
                           /\ made'[c].key = <<t.model, t.session>>
  BY <1>3 DEF KeyOf
<1>. HIDE DEF t
<1>7. /\ t.pc \notin {"idle", "leaving"} => t.model \in Models /\ t.session \in Sessions
      /\ t.pc = "leaving" => t.session \in Sessions
      /\ t.pc \in {"preparing", "sending", "bound", "streaming", "calling"}
           => t.profile \in Profiles
  BY <1>5
<1>8. Moves(r) /\ turn'[r] = t
  BY <1>2, <1>4, <1>5, <1>6, <1>7, MovesTo
<1>. QED BY <1>3, <1>8

LEMMA AcquireTurns ==
  ASSUME TypeOK, TurnInv, NEW r \in Requests, Acquire(r)
  PROVE  Turns(r)
<1>1. turn[r].pc = "acquiring" /\ turn[r].session \in Sessions /\ now' = now
  BY DEF Acquire, TurnInv, TurnOf
<1>2. CASE /\ Pool!Admit(r, turn[r].session)
           /\ turn' = [turn EXCEPT ![r].pc = "leased"]
  <2>1. Moves(r) /\ turn'[r].pc = "leased" /\ turn'[r].session = turn[r].session
    BY <1>1, <1>2, GoesOnTurns
  <2>2. /\ holder[turn[r].session] = None /\ account' = account
        /\ holder' = [holder EXCEPT ![turn[r].session] = r]
    BY <1>2 DEF Pool!Admit
  <2>. QED BY <1>1, <2>1, <2>2 DEF Turns, TypeOK
<1>3. CASE turn' = [turn EXCEPT ![r] = NoTurn] /\ UNCHANGED pool
  <2>1. Moves(r) /\ turn'[r].pc = "idle"
    BY <1>3, IdleMoves
  <2>. QED BY <1>1, <1>3, <2>1 DEF Turns, Works, pool, TypeOK
<1>. QED BY <1>2, <1>3 DEF Acquire


\* A turn that keeps its lease.
LEMMA LeaseKept ==
  ASSUME TypeOK, NEW r \in Requests, Moves(r),
         turn[r].pc \notin {"idle", "acquiring"}, turn'[r].pc \notin {"idle", "acquiring"},
         turn'[r].session = turn[r].session,
         holder' = holder, now' = now,
         account' \in [Sessions -> Profiles \cup {None}]
  PROVE  Turns(r)
BY DEF Turns, Works

LEMMA PoolBinds ==
  ASSUME TypeOK, NEW s, NEW p \in Profiles \cup {None}, Pool!Bind(s, p)
  PROVE  holder' = holder /\ account' \in [Sessions -> Profiles \cup {None}]
BY DEF TypeOK, Pool!Bind

LEMMA RefusedMoves ==
  ASSUME TypeOK, TurnInv, NEW r \in Requests,
         turn[r].pc \notin {"idle", "leaving"}, Refused(r)
  PROVE  /\ Moves(r) /\ turn'[r].pc = "leaving"
         /\ turn'[r].session = turn[r].session
<1>. DEFINE t == [NoTurn EXCEPT !.pc = "leaving", !.session = turn[r].session]
<1>1. turn[r].session \in Sessions
  BY DEF TurnInv, TurnOf
<1>2. t \in Turn
  BY <1>1 DEF NoTurn, Turn
<1>3. t.pc = "leaving" /\ t.session = turn[r].session /\ t.shown = {}
  BY DEF NoTurn
<1>4. turn' = [turn EXCEPT ![r] = t]
  BY DEF Refused
<1>. HIDE DEF t
<1>5. Moves(r) /\ turn'[r] = t
  BY <1>1, <1>2, <1>3, <1>4, MovesTo
<1>. QED BY <1>3, <1>5

\* A turn that has succeeded.
LEMMA WorkingMoves ==
  ASSUME TypeOK, TurnInv, NEW r \in Requests,
         turn[r].pc \in {"sending", "bound"},
         NEW pc \in {"bound", "streaming"}, NEW t,
         \/ t = Working(turn[r], pc)
         \/ t = [Working(turn[r], pc) EXCEPT !.attempted = turn[r].attempted],
         turn' = [turn EXCEPT ![r] = t]
  PROVE  /\ Moves(r) /\ turn'[r].pc = pc
         /\ turn'[r].session = turn[r].session
<1>1. /\ turn[r].session \in Sessions /\ turn[r].model \in Models
      /\ turn[r].profile \in Profiles /\ turn[r].attempted \in BOOLEAN
  BY DEF TurnInv, TurnOf, TypeOK, Turn
<1>2. /\ t \in Turn /\ t.pc = pc /\ t.session = turn[r].session
      /\ t.model = turn[r].model /\ t.profile = turn[r].profile /\ t.shown = {}
  BY <1>1 DEF NoTurn, Turn, Working
<1>3. Moves(r) /\ turn'[r] = t
  BY <1>1, <1>2, MovesTo
<1>. QED BY <1>2, <1>3

LEMMA SelectTurns ==
  ASSUME TypeOK, TurnInv, StoresInv, NEW r \in Requests, Select(r)
  PROVE  Turns(r)
<1>. DEFINE s == turn[r].session
            record == Restored(KeyOf(r)).session[KeyOf(r)]
            bound == IF record = None THEN account[s] ELSE record.profile
<1>1. turn[r].pc = "leased" /\ now' = now
  BY DEF Select
<1>2. s \in Sessions /\ turn[r].model \in Models
  BY <1>1 DEF TurnInv, TurnOf
<1>3. bound \in Profiles \cup {None}
  <2>1. Restored(KeyOf(r)) \in Store
    BY RestoredDeletes DEF Deletes, StoresInv, TypeOK
  <2>2. KeyOf(r) \in Keys
    BY <1>2 DEF KeyOf, Keys
  <2>3. record \in Bound \cup {None}
    BY <2>1, <2>2 DEF Store
  <2>. QED BY <1>2, <2>3 DEF Bound, TypeOK
<1>. HIDE DEF bound
<1>4. \/ Refused(r) /\ (UNCHANGED pool \/ Pool!Bind(s, bound))
      \/ \E selector \in Profiles \cup {None} : \E p \in Choices(bound, selector) :
           /\ Pool!Bind(s, p)
           /\ turn' = [turn EXCEPT ![r].pc = "preparing", ![r].profile = p,
                                   ![r].explicit = (selector # None)]
  BY DEF Select, bound
<1>5. CASE Refused(r) /\ (UNCHANGED pool \/ Pool!Bind(s, bound))
  <2>1. holder' = holder /\ account' \in [Sessions -> Profiles \cup {None}]
    BY <1>3, <1>5, PoolBinds DEF pool, TypeOK
  <2>. QED BY <1>1, <1>5, <2>1, RefusedMoves, LeaseKept
<1>6. ASSUME NEW selector \in Profiles \cup {None}, NEW p \in Choices(bound, selector),
             Pool!Bind(s, p),
             turn' = [turn EXCEPT ![r].pc = "preparing", ![r].profile = p,
                                  ![r].explicit = (selector # None)]
      PROVE  Turns(r)
  <2>. DEFINE t == [turn[r] EXCEPT !.pc = "preparing", !.profile = p,
                                   !.explicit = (selector # None)]
  <2>1. p \in Profiles
    BY <1>3 DEF Choices
  <2>2. turn[r] \in Turn /\ TurnOf(r)
    BY DEF TypeOK, TurnInv
  <2>3. t \in Turn
    BY <2>1, <2>2 DEF Turn
  <2>4. /\ t.pc = "preparing" /\ t.model = turn[r].model /\ t.session = s
        /\ t.shown = turn[r].shown /\ t.history = turn[r].history /\ t.profile = p
    BY <2>2 DEF Turn
  <2>5. turn' = [turn EXCEPT ![r] = t]
    BY <1>6
  <2>6. t.shown # {} => t.history
    BY <2>2, <2>4 DEF TurnOf
  <2>. HIDE DEF t
  <2>7. Moves(r) /\ turn'[r] = t
    BY <1>2, <2>1, <2>3, <2>4, <2>5, <2>6, MovesTo
  <2>8. holder' = holder /\ account' \in [Sessions -> Profiles \cup {None}]
    BY <1>6, <2>1, PoolBinds
  <2>. QED BY <1>1, <2>4, <2>7, <2>8, LeaseKept
<1>. QED BY <1>4, <1>5, <1>6

\* What is valid is genuine: this is where a call meets its maker.
LEMMA PrepareTurns ==
  ASSUME TypeOK, TurnInv, StoresInv, NEW r \in Requests, Prepare(r)
  PROVE  Turns(r)
<1>1. /\ turn[r].pc = "preparing" /\ now' = now
      /\ holder' = holder /\ account' = account /\ made' = made
  BY DEF Prepare, pool
<1>2. account' \in [Sessions -> Profiles \cup {None}]
  BY <1>1 DEF TypeOK
<1>3. CASE Refused(r)
  BY <1>1, <1>2, <1>3, RefusedMoves, LeaseKept
<1>4. CASE Valid(r) /\ turn' = [turn EXCEPT ![r].pc = "sending"]
  <2>1. turn[r].profile \in Profiles
    BY <1>1 DEF TurnInv, TurnOf
  <2>2. ASSUME NEW c \in turn[r].shown
        PROVE  /\ made'[c] # None
               /\ made'[c].profile = turn[r].profile /\ made'[c].key = KeyOf(r)
    <3>1. c \in Calls
      BY DEF TypeOK, Turn
    <3>2. /\ mem.call[c] # None /\ mem.call[c].key = KeyOf(r)
          /\ mem.call[c].profile = turn[r].profile
      BY <1>4 DEF Valid, Alive
    <3>3. mem.call[c] \in Call /\ made[c] = Origin(mem.call[c])
      BY <3>1, <3>2 DEF StoresInv, Genuine, TypeOK, Store
    <3>4. Origin(mem.call[c]) \in Route
      BY <3>3 DEF Origin, Call, Route
    <3>. QED BY <1>1, <3>2, <3>3, <3>4, ContinuityAssumption DEF Origin
  <2>3. Moves(r) /\ turn'[r].pc = "sending" /\ turn'[r].session = turn[r].session
    BY <1>1, <1>4, <2>1, <2>2, GoesOnTurns
  <2>. QED BY <1>1, <1>2, <2>3, LeaseKept
<1>. QED BY <1>3, <1>4 DEF Prepare


\* Another account is only tried where there is nothing to replay.
LEMMA FailoverTurns ==
  ASSUME TypeOK, TurnInv, NEW r \in Requests, Failover(r)
  PROVE  Turns(r)
<1>1. /\ turn[r].pc = "sending" /\ ~turn[r].history /\ now' = now
      /\ holder' = holder /\ account' = account
  BY DEF Failover, pool
<1>2. PICK p \in Profiles :
        turn' = [turn EXCEPT ![r].profile = p, ![r].attempted = TRUE]
  BY DEF Failover
<1>. DEFINE t == [turn[r] EXCEPT !.profile = p, !.attempted = TRUE]
<1>3. turn[r] \in Turn /\ TurnOf(r)
  BY DEF TypeOK, TurnInv
<1>4. t \in Turn
  BY <1>3 DEF Turn
<1>5. /\ t.pc = turn[r].pc /\ t.session = turn[r].session /\ t.model = turn[r].model
      /\ t.profile = p /\ t.shown = turn[r].shown
  BY <1>3 DEF Turn
<1>6. turn' = [turn EXCEPT ![r] = t]
  BY <1>2
<1>7. t.shown = {} /\ t.session \in Sessions /\ t.model \in Models
  BY <1>1, <1>3, <1>5 DEF TurnOf
<1>. HIDE DEF t
<1>8. Moves(r) /\ turn'[r] = t
  BY <1>1, <1>4, <1>5, <1>6, <1>7, MovesTo
<1>. QED BY <1>1, <1>5, <1>8, LeaseKept DEF TypeOK

LEMMA SucceedTurns ==
  ASSUME TypeOK, TurnInv, NEW r \in Requests, Succeed(r)
  PROVE  Turns(r)
<1>1. /\ turn[r].pc = "sending" /\ now' = now
      /\ Pool!Bind(turn[r].session, turn[r].profile)
  BY DEF Succeed
<1>2. turn' = [turn EXCEPT ![r] =
                 [Working(turn[r], "bound") EXCEPT !.attempted = turn[r].attempted]]
  BY DEF Succeed, TypeOK
<1>3. turn[r].attempted \in BOOLEAN /\ turn[r].profile \in Profiles
  BY <1>1 DEF TypeOK, Turn, TurnInv, TurnOf
<1>4. Moves(r) /\ turn'[r].pc = "bound" /\ turn'[r].session = turn[r].session
  BY <1>1, <1>2, <1>3, WorkingMoves
<1>5. holder' = holder /\ account' \in [Sessions -> Profiles \cup {None}]
  BY <1>1, <1>3, PoolBinds
<1>. QED BY <1>1, <1>4, <1>5, LeaseKept

LEMMA BindSessionTurns ==
  ASSUME TypeOK, TurnInv, NEW r \in Requests, BindSession(r)
  PROVE  Turns(r)
<1>1. /\ turn[r].pc = "bound" /\ now' = now
      /\ holder' = holder /\ account' = account
  BY DEF BindSession, pool
<1>2. turn' = [turn EXCEPT ![r] = Working(turn[r], "streaming")]
  BY DEF BindSession, TypeOK
<1>3. Moves(r) /\ turn'[r].pc = "streaming" /\ turn'[r].session = turn[r].session
  BY <1>1, <1>2, WorkingMoves
<1>. QED BY <1>1, <1>3, LeaseKept DEF TypeOK

LEMMA RememberTurns ==
  ASSUME TypeOK, TurnInv, NEW r \in Requests, Remember(r) \/ RememberCall(r)
  PROVE  Turns(r)
<1>1. /\ turn[r].pc \in {"streaming", "calling"} /\ now' = now
      /\ holder' = holder /\ account' = account
      /\ \E pc \in {"streaming", "calling"} : turn' = [turn EXCEPT ![r].pc = pc]
  BY DEF Remember, RememberCall, pool
<1>2. turn[r].profile \in Profiles
  BY <1>1 DEF TurnInv, TurnOf
<1>3. PICK pc \in {"streaming", "calling"} : turn' = [turn EXCEPT ![r].pc = pc]
  BY <1>1
<1>4. Moves(r) /\ turn'[r].pc = pc /\ turn'[r].session = turn[r].session
  BY <1>1, <1>2, <1>3, GoesOnTurns
<1>. QED BY <1>1, <1>4, LeaseKept DEF TypeOK

LEMMA ReleaseTurns ==
  ASSUME TypeOK, TurnInv, NEW r \in Requests, Release(r)
  PROVE  Turns(r)
<1>1. /\ turn[r].pc \notin {"idle", "acquiring"} /\ turn[r].session \in Sessions
      /\ now' = now
  BY DEF Release, TurnInv, TurnOf
<1>2. holder[turn[r].session] = r
  BY <1>1 DEF TypeOK
<1>3. /\ holder' = [holder EXCEPT ![turn[r].session] = None] /\ account' = account
  BY DEF Release, Pool!Leave
<1>4. Moves(r) /\ turn'[r].pc = "idle"
  BY IdleMoves DEF Release
<1>. QED BY <1>1, <1>2, <1>3, <1>4 DEF Turns, TypeOK

LEMMA StepTurns ==
  ASSUME TypeOK, TurnInv, StoresInv, NEW r \in Requests, Step(r)
  PROVE  Turns(r)
BY ResolveTurns, AcquireTurns, SelectTurns, PrepareTurns, FailoverTurns, SucceedTurns,
   BindSessionTurns, RememberTurns, ReleaseTurns DEF Step

-----------------------------------------------------------------------------
(* The stores, step by step                                                *)

\* What a step does to memory and file.
Stores ==
  /\ mem' \in Store /\ disk' \in Store
  /\ count' \in [crash : 0..MaxCrashes, fault : 0..MaxFaults]
  /\ StoresInv' /\ DiskInv' /\ Extends /\ AsUnit(mem', mem)

LEMMA StoresAlone ==
  ASSUME TypeOK, StoresInv, DiskInv, UNCHANGED <<mem, disk, made, count>>
  PROVE  Stores
<1>1. Covered(mem)' /\ Genuine(mem)' /\ Covered(disk)' /\ Genuine(disk)'
  BY DEF StoresInv, Covered, Genuine
<1>2. DiskInv'
  BY DEF DiskInv, Within
<1>. QED BY <1>1, <1>2 DEF Stores, StoresInv, Extends, TypeOK, AsUnit

\* A step that only looks up.
LEMMA LookUpStores ==
  ASSUME TypeOK, StoresInv, DiskInv, NEW seen, mem' = LookUp(mem, seen),
         UNCHANGED <<disk, made, count>>
  PROVE  Stores
<1>1. /\ mem' \in Store /\ Covered(mem') /\ Within(mem', mem) /\ AsUnit(mem', mem)
      /\ \A c \in Calls : mem'.call[c] # None => Capped(mem'.call[c])
  BY LookUpKeeps DEF TypeOK, StoresInv, Genuine, Renews
<1>2. disk' \in Store /\ StoresInv' /\ DiskInv'
  BY <1>1, StoresWithin
<1>. QED BY <1>1, <1>2 DEF Stores, Extends, TypeOK

\* A step that only deletes.
LEMMA DeletesStores ==
  ASSUME TypeOK, StoresInv, DiskInv, Deletes(mem', mem),
         UNCHANGED <<disk, made, count>>
  PROVE  Stores
<1>1. /\ mem' \in Store /\ Covered(mem') /\ Within(mem', mem) /\ AsUnit(mem', mem)
      /\ \A c \in Calls : mem'.call[c] # None => Capped(mem'.call[c])
  BY DeletesWithin DEF Deletes, StoresInv, Genuine
<1>2. disk' \in Store /\ StoresInv' /\ DiskInv'
  BY <1>1, StoresWithin
<1>. QED BY <1>1, <1>2 DEF Stores, Extends, TypeOK


\* Binding the conversation of calls covers them.
LEMMA BindCovers ==
  ASSUME now \in 0..MaxTime, NEW st \in Store, NEW k \in Keys, NEW p \in Profiles,
         \A c \in Calls : st.call[c] # None =>
           st.call[c].key = k \/ st.session[st.call[c].key] # None
  PROVE  /\ Bind(st, k, p) \in Store /\ Bind(st, k, p).call = st.call
         /\ Covered(Bind(st, k, p))
<1>. DEFINE n == Bind(st, k, p)
<1>1. /\ n \in Store /\ n.call = st.call /\ n.session[k] # None
      /\ \A o \in Keys : st.session[o] # None => n.session[o] # None
  BY BindKeeps
<1>. HIDE DEF n
<1>2. Covered(n)
  <2>. SUFFICES ASSUME NEW c \in Calls, n.call[c] # None
                PROVE  n.session[n.call[c].key] # None
    BY DEF Covered
  <2>1. n.call[c] = st.call[c] /\ st.call[c].key \in Keys
    BY <1>1 DEF Store, Call
  <2>. QED BY <1>1, <2>1
<1>. QED BY <1>1, <1>2 DEF n

\* What is left of the memory is still genuine.
LEMMA DeletesGenuine ==
  ASSUME StoresInv, NEW st, Deletes(st, mem), NEW c \in Calls, st.call[c] # None
  PROVE  made[c] = Origin(st.call[c]) /\ Capped(st.call[c])
BY DEF StoresInv, Genuine, Deletes

LEMMA WorkingRoute ==
  ASSUME TypeOK, TurnInv, NEW r \in Requests,
         turn[r].pc \in {"bound", "streaming", "calling"}
  PROVE  KeyOf(r) \in Keys /\ turn[r].profile \in Profiles
BY DEF TurnInv, TurnOf, KeyOf, Keys

LEMMA SweptAndRoomy ==
  ASSUME TypeOK, StoresInv, NEW k, NEW st \in EnsureCapacity(Sweep(mem), k)
  PROVE  Deletes(st, mem)
<1>1. Deletes(Sweep(mem), mem)
  BY SweepDeletes DEF TypeOK, StoresInv
<1>2. Deletes(st, Sweep(mem))
  BY <1>1, RoomDeletes DEF Deletes
<1>. QED BY <1>1, <1>2, DeletesTwice

LEMMA BindSessionStores ==
  ASSUME TypeOK, TurnInv, StoresInv, DiskInv, NEW r \in Requests, BindSession(r)
  PROVE  Stores
<1>. DEFINE k == KeyOf(r)
            p == turn[r].profile
            swept == Sweep(mem)
            foreign == swept.session[k] # None /\ swept.session[k].profile # p
            base == IF foreign THEN Without(swept, {}, {k}) ELSE swept
<1>1. Deletes(swept, mem) /\ made' = made
  BY SweepDeletes DEF TypeOK, StoresInv, BindSession
<1>2. k \in Keys /\ p \in Profiles /\ now \in 0..MaxTime
  BY WorkingRoute DEF BindSession, TypeOK
<1>3. \/ mem' = swept /\ UNCHANGED <<disk, count>>
      \/ Persist(Bind(base, k, p))
  BY DEF BindSession
<1>4. CASE mem' = swept /\ UNCHANGED <<disk, count>>
  BY <1>1, <1>4, DeletesStores
<1>5. CASE Persist(Bind(base, k, p))
  <2>. DEFINE st == Bind(base, k, p)
  <2>. HIDE DEF k, p, swept, foreign
  <2>1. swept \in Store
    BY <1>1 DEF Deletes
  <2>2. /\ base \in Store
        /\ \A c \in Calls : base.call[c] = swept.call[c]
        /\ \A o \in Keys : o # k => base.session[o] = swept.session[o]
    BY <2>1, WithoutStore
  <2>. HIDE DEF base
  <2>3. ASSUME NEW c \in Calls, base.call[c] # None
        PROVE  base.call[c].key = k \/ base.session[base.call[c].key] # None
    <3>1. swept.session[base.call[c].key] # None
      BY <1>1, <2>2, <2>3 DEF Deletes, Covered
    <3>2. base.call[c].key \in Keys
      BY <2>2, <2>3 DEF Store, Call
    <3>. QED BY <2>2, <3>1, <3>2
  <2>4. st \in Store /\ st.call = base.call /\ Covered(st)
    BY <1>2, <2>2, <2>3, BindCovers
  <2>. HIDE DEF st
  <2>5. \A c \in Calls : st.call[c] = swept.call[c]
    BY <2>2, <2>4
  <2>6. \A c \in Calls : st.call[c] # None =>
          made'[c] = Origin(st.call[c]) /\ Capped(st.call[c])
    BY <1>1, <2>5, DeletesGenuine
  <2>7. Persist(st) /\ Extends
    BY <1>1, <1>5 DEF st, Extends
  <2>8. /\ mem' \in Store /\ disk' \in Store /\ StoresInv' /\ DiskInv'
        /\ count' \in [crash : 0..MaxCrashes, fault : 0..MaxFaults]
    BY <2>4, <2>6, <2>7, StoresPersist
  <2>9. AsUnit(mem', mem)
    BY <1>1, <2>5, <2>7 DEF Deletes, AsUnit, Persist
  <2>. QED BY <2>7, <2>8, <2>9 DEF Stores
<1>. QED BY <1>3, <1>4, <1>5


LEMMA RememberStores ==
  ASSUME TypeOK, TurnInv, StoresInv, DiskInv, NEW r \in Requests, Remember(r)
  PROVE  Stores
<1>. DEFINE k == KeyOf(r)
            p == turn[r].profile
<1>1. k \in Keys /\ p \in Profiles /\ now \in 0..MaxTime
  BY WorkingRoute DEF Remember, TypeOK
<1>2. PICK room \in EnsureCapacity(Sweep(mem), k) : Persist(Bind(room, k, p))
  BY DEF Remember
<1>3. Deletes(room, mem)
  BY SweptAndRoomy
<1>. DEFINE st == Bind(room, k, p)
<1>. HIDE DEF k, p
<1>4. st \in Store /\ st.call = room.call /\ Covered(st)
  BY <1>1, <1>3, BindCovers DEF Deletes, Covered
<1>. HIDE DEF st
<1>5. Persist(st) /\ Extends /\ made' = made
  BY <1>2 DEF st, Extends, Remember
<1>6. \A c \in Calls : st.call[c] # None =>
        made'[c] = Origin(st.call[c]) /\ Capped(st.call[c])
  BY <1>3, <1>4, <1>5, DeletesGenuine
<1>7. /\ mem' \in Store /\ disk' \in Store /\ StoresInv' /\ DiskInv'
      /\ count' \in [crash : 0..MaxCrashes, fault : 0..MaxFaults]
  BY <1>4, <1>5, <1>6, StoresPersist
<1>8. AsUnit(mem', mem)
  BY <1>3, <1>4, <1>5 DEF Deletes, AsUnit, Persist
<1>. QED BY <1>5, <1>7, <1>8 DEF Stores

LEMMA RememberCallStores ==
  ASSUME TypeOK, TurnInv, StoresInv, DiskInv, NEW r \in Requests, RememberCall(r)
  PROVE  Stores /\ made' \in [Calls -> Route \cup {None}]
<1>. DEFINE k == KeyOf(r)
            p == turn[r].profile
            c == CHOOSE c \in Calls : made[c] = None
            call == [profile |-> p, key |-> k, created |-> now,
                     expires |-> ExtendExpiry(now)]
<1>1. k \in Keys /\ p \in Profiles /\ now \in 0..MaxTime
  BY WorkingRoute DEF RememberCall, TypeOK
<1>2. c \in Calls /\ made[c] = None
  <2>1. \E d \in Calls : made[d] = None
    BY DEF RememberCall, Issued
  <2>. QED BY <2>1
<1>3. made' = [made EXCEPT ![c] = [profile |-> p, key |-> k, at |-> now]]
  BY DEF RememberCall
<1>4. PICK room \in EnsureCapacity(Sweep(mem), k) :
        Persist(Bind([room EXCEPT !.call[c] = call], k, p))
  BY DEF RememberCall
<1>5. Deletes(room, mem)
  BY SweptAndRoomy
<1>6. /\ call \in Call /\ call.key = k /\ now \in Time
      /\ Origin(call) = [profile |-> p, key |-> k, at |-> now] /\ Capped(call)
  <2>1. now \in Time
    BY <1>1, ContinuityAssumption DEF Time
  <2>2. ExtendExpiry(now) \in Time /\ ExtendExpiry(now) <= now + Retention
    BY <1>1, <2>1, ExtendType
  <2>. QED BY <1>1, <2>1, <2>2 DEF Call, Origin, Capped
<1>. DEFINE full == [room EXCEPT !.call[c] = call]
            st == Bind(full, k, p)
<1>. HIDE DEF k, p, c, call
<1>7. /\ full \in Store /\ full.call[c] = call /\ full.session = room.session
      /\ \A d \in Calls : d # c => full.call[d] = room.call[d]
  BY <1>2, <1>5, <1>6 DEF Deletes, Store
<1>8. [profile |-> p, key |-> k, at |-> now] \in Route
  BY <1>1, <1>6 DEF Route
<1>9. /\ made' \in [Calls -> Route \cup {None}]
      /\ made'[c] = [profile |-> p, key |-> k, at |-> now]
      /\ \A d \in Calls : d # c => made'[d] = made[d]
  BY <1>2, <1>3, <1>8 DEF TypeOK
<1>10. Extends
  BY <1>2, <1>9 DEF Extends
<1>. HIDE DEF full
<1>11. \A d \in Calls : full.call[d] # None =>
         full.call[d].key = k \/ full.session[full.call[d].key] # None
  BY <1>5, <1>6, <1>7 DEF Deletes, Covered
<1>12. st \in Store /\ st.call = full.call /\ Covered(st)
  BY <1>1, <1>7, <1>11, BindCovers
<1>. HIDE DEF st
<1>13. Persist(st)
  BY <1>4 DEF st, full
<1>14. ASSUME NEW d \in Calls, st.call[d] # None
       PROVE  made'[d] = Origin(st.call[d]) /\ Capped(st.call[d])
  <2>1. CASE d = c
    BY <1>6, <1>7, <1>9, <1>12, <2>1
  <2>2. CASE d # c
    <3>1. st.call[d] = room.call[d] /\ made'[d] = made[d]
      BY <1>7, <1>9, <1>12, <2>2
    <3>2. room.call[d] # None
      BY <1>14, <3>1
    <3>. QED BY <1>5, <3>1, <3>2, DeletesGenuine
  <2>. QED BY <2>1, <2>2
<1>15. /\ mem' \in Store /\ disk' \in Store /\ StoresInv' /\ DiskInv'
       /\ count' \in [crash : 0..MaxCrashes, fault : 0..MaxFaults]
  BY <1>10, <1>12, <1>13, <1>14, StoresPersist
\* The handle is new: none of the calls that went or stayed had it.
<1>16. mem.call[c] = None
  <2>1. SUFFICES ASSUME mem.call[c] # None PROVE FALSE
    OBVIOUS
  <2>2. mem.call[c] \in Call
    BY <1>2, <2>1 DEF TypeOK, Store
  <2>3. Origin(mem.call[c]) \in Route
    BY <2>2 DEF Call, Route, Origin
  <2>. QED BY <1>2, <2>1, <2>3, ContinuityAssumption DEF StoresInv, Genuine
<1>17. AsUnit(mem', mem)
  <2>1. mem' = st
    BY <1>13 DEF Persist
  <2>. QED BY <1>5, <1>7, <1>12, <1>16, <2>1 DEF Deletes, AsUnit
<1>. QED BY <1>9, <1>10, <1>15, <1>17 DEF Stores

LEMMA StepStores ==
  ASSUME TypeOK, TurnInv, StoresInv, DiskInv, NEW r \in Requests, Step(r)
  PROVE  Stores /\ made' \in [Calls -> Route \cup {None}]
<1>1. CASE Resolve(r)
  <2>1. UNCHANGED <<disk, made, count>>
    BY <1>1 DEF Resolve
  <2>. QED BY <1>1, <2>1, ResolveTurns, LookUpStores DEF TypeOK
<1>2. CASE Select(r)
  <2>1. mem' = Restored(KeyOf(r)) /\ UNCHANGED <<disk, made, count>>
    BY <1>2 DEF Select
  <2>2. Deletes(mem', mem)
    BY <2>1, RestoredDeletes DEF TypeOK, StoresInv
  <2>. QED BY <2>1, <2>2, DeletesStores DEF TypeOK
<1>3. CASE Prepare(r)
  <2>1. UNCHANGED <<disk, made, count>> /\ \E seen : mem' = LookUp(mem, seen)
    BY <1>3 DEF Prepare
  <2>. QED BY <2>1, LookUpStores DEF TypeOK
<1>4. CASE Acquire(r) \/ Failover(r) \/ Succeed(r) \/ Release(r)
  <2>1. UNCHANGED <<mem, disk, made, count>>
    BY <1>4 DEF Acquire, Failover, Succeed, Release
  <2>. QED BY <2>1, StoresAlone DEF TypeOK
<1>5. CASE BindSession(r)
  BY <1>5, BindSessionStores DEF BindSession, TypeOK
<1>6. CASE Remember(r)
  BY <1>6, RememberStores DEF Remember, TypeOK
<1>7. CASE RememberCall(r)
  BY <1>7, RememberCallStores
<1>. QED BY <1>1, <1>2, <1>3, <1>4, <1>5, <1>6, <1>7 DEF Step


-----------------------------------------------------------------------------
(* The invariant                                                           *)

LEMMA InitInv == Init => Inv
<1>. SUFFICES ASSUME Init PROVE Inv
  OBVIOUS
<1>1. mem \in Store /\ disk \in Store
  BY DEF Init, Store
<1>2. NoTurn \in Turn /\ NoTurn.pc = "idle" /\ NoTurn.shown = {}
  BY DEF NoTurn, Turn
<1>3. /\ holder = [s \in Sessions |-> None] /\ account = [s \in Sessions |-> None]
      /\ turn = [r \in Requests |-> NoTurn] /\ made = [c \in Calls |-> None]
      /\ now = 0 /\ count = [crash |-> 0, fault |-> 0]
  BY DEF Init, Pool!Init
<1>4. TypeOK
  BY <1>1, <1>2, <1>3, ContinuityAssumption DEF TypeOK
<1>5. \A c \in Calls : mem.call[c] = None /\ disk.call[c] = None
  BY DEF Init
<1>6. StoresInv /\ DiskInv
  BY <1>5 DEF Init, StoresInv, Covered, Genuine, DiskInv, Within
<1>7. TurnInv
  BY <1>2, <1>3 DEF TurnInv, TurnOf
<1>. QED BY <1>4, <1>6, <1>7 DEF Inv

LEMMA StepInv ==
  ASSUME Inv, NEW r \in Requests, Step(r)
  PROVE  Inv' /\ Stores
<1>1. Turns(r) /\ Moves(r)
  BY StepTurns DEF Inv, Turns
<1>2. Stores /\ made' \in [Calls -> Route \cup {None}]
  BY StepStores DEF Inv
<1>3. /\ holder' \in [Sessions -> Requests \cup {None}]
      /\ \A q \in Requests, s \in Sessions :
           holder'[s] = q <=> turn'[q].session = s
                              /\ turn'[q].pc \notin {"idle", "acquiring"}
  BY <1>1, HoldersKept DEF Inv, Turns
<1>4. TurnInv'
  BY <1>1, <1>2, TurnsKept DEF Inv, Stores
<1>5. TypeOK'
  BY <1>1, <1>2, <1>3 DEF TypeOK, Inv, Turns, Moves, Stores
<1>. QED BY <1>2, <1>4, <1>5 DEF Inv, Stores

LEMMA TurnsAlone ==
  ASSUME TurnInv, UNCHANGED <<turn, made>>
  PROVE  TurnInv'
BY DEF TurnInv, TurnOf, KeyOf

LEMMA ForgetInv ==
  ASSUME Inv, Forget
  PROVE  Inv'
<1>1. /\ UNCHANGED <<now, mem, disk, turn, made, count, holder>>
      /\ account' \in [Sessions -> Profiles \cup {None}]
  BY DEF Forget, Pool!Forget, Inv, TypeOK
<1>2. TypeOK'
  BY <1>1 DEF Inv, TypeOK
<1>3. StoresInv' /\ DiskInv'
  BY <1>1, StoresAlone DEF Inv, Stores
<1>. QED BY <1>1, <1>2, <1>3, TurnsAlone DEF Inv

LEMMA TickInv ==
  ASSUME Inv, Tick
  PROVE  Inv'
<1>1. UNCHANGED <<mem, disk, turn, made, count, holder, account>> /\ now' \in 0..MaxTime
  BY ContinuityAssumption DEF Tick, Inv, TypeOK, pool
<1>2. TypeOK'
  BY <1>1 DEF Inv, TypeOK
<1>3. StoresInv' /\ DiskInv'
  BY <1>1, StoresAlone DEF Inv, Stores
<1>. QED BY <1>1, <1>2, <1>3, TurnsAlone DEF Inv

\* The file has less than the memory had, and all of it is genuine.
LEMMA RestartInv ==
  ASSUME Inv, Restart
  PROVE  Inv'
<1>1. Deletes(Sweep(disk), disk)
  BY SweepDeletes DEF Inv, TypeOK, StoresInv
<1>2. mem' = Sweep(disk) /\ disk' = Sweep(disk) /\ made' = made
  BY DEF Restart
<1>. DEFINE n == Sweep(disk)
<1>. HIDE DEF n
<1>3. n \in Store /\ Covered(n)
  BY <1>1 DEF Deletes, n
<1>4. \A c \in Calls : n.call[c] # None =>
        made[c] = Origin(n.call[c]) /\ Capped(n.call[c])
  BY <1>1 DEF Deletes, n, Inv, StoresInv, Genuine
<1>5. mem' = n /\ disk' = n
  BY <1>2 DEF n
<1>6. StoresInv'
  BY <1>2, <1>3, <1>4, <1>5 DEF StoresInv, Covered, Genuine
<1>7. DiskInv'
  BY <1>5 DEF DiskInv, Within
<1>8. NoTurn \in Turn /\ NoTurn.pc = "idle" /\ NoTurn.shown = {}
  BY DEF NoTurn, Turn
<1>9. turn' = [r \in Requests |-> NoTurn]
  BY DEF Restart
<1>10. TurnInv'
  BY <1>8, <1>9 DEF TurnInv, TurnOf
<1>11. /\ holder' = [s \in Sessions |-> None] /\ account' = [s \in Sessions |-> None]
       /\ now' = now
  BY DEF Restart
<1>12. count' \in [crash : 0..MaxCrashes, fault : 0..MaxFaults]
  BY ContinuityAssumption DEF Restart, Inv, TypeOK
<1>13. TypeOK'
  BY <1>2, <1>3, <1>5, <1>8, <1>9, <1>11, <1>12, ContinuityAssumption DEF TypeOK, Inv
<1>. QED BY <1>6, <1>7, <1>10, <1>13 DEF Inv

LEMMA NextInv == Inv /\ [Next]_vars => Inv'
<1>. SUFFICES ASSUME Inv, [Next]_vars PROVE Inv'
  OBVIOUS
<1>1. CASE UNCHANGED vars
  <2>1. UNCHANGED <<now, mem, disk, holder, account, turn, made, count>>
    BY <1>1 DEF vars, pool
  <2>2. TypeOK'
    BY <2>1 DEF Inv, TypeOK
  <2>3. StoresInv' /\ DiskInv'
    BY <2>1, StoresAlone DEF Inv, Stores
  <2>. QED BY <2>1, <2>2, <2>3, TurnsAlone DEF Inv
<1>. QED BY <1>1, StepInv, ForgetInv, TickInv, RestartInv DEF Next

\* The stores are genuine and covered, the file keeps up with the memory, and every
\* turn about to be sent shows only handles of its own route, in every reachable state.
THEOREM ContinuityInvariant == Spec => []Inv
BY InitInv, NextInv, PTL DEF Spec

\* Turns and stores keep their types, and a lease is held exactly while its turn needs
\* it (client.go, accounts.go): none leaks and none is given back twice.
THEOREM TypeCorrect == Spec => []TypeOK
BY ContinuityInvariant, PTL DEF Inv

\* A call of the current turn is only replayed on the route that made it
\* (session.go:44-95, request.go:143-160).
THEOREM ReplayedToMaker == Spec => []ReplayedToItsMaker
<1>1. Inv => ReplayedToItsMaker
  BY DEF Inv, TurnInv, TurnOf, ReplayedToItsMaker
<1>. QED BY <1>1, ContinuityInvariant, PTL

\* Every call belongs to a conversation that eviction can find (replay.go:129-152).
THEOREM CallsCovered == Spec => []CallsHaveSession
<1>1. Inv => CallsHaveSession
  BY DEF Inv, StoresInv, Covered, CallsHaveSession
<1>. QED BY <1>1, ContinuityInvariant, PTL

\* However often its conversation goes on, and whatever restarts bring back, a call
\* is good for less than the absolute retention after it was made: renewals slide
\* the expiry, and the time they count from is the call's own (replay.go:397-404,
\* docs/openai-compatible-api.md:178).
EndsInRetention ==
  \A c \in Calls : Alive(mem.call[c]) => now < made[c].at + Retention

\* A call that is still good was made less than the absolute retention ago, as every
\* copy of it, renewed or read back, keeps its time and is capped by it
\* (replay.go:397-404).
THEOREM EndsInTime == Spec => []EndsInRetention
<1>1. Inv => EndsInRetention
  <2>. SUFFICES ASSUME Inv, NEW c \in Calls, Alive(mem.call[c])
                PROVE  now < made[c].at + Retention
    BY DEF EndsInRetention
  <2>1. mem.call[c] # None /\ mem.call[c].expires > now
    BY DEF Alive
  <2>2. mem.call[c] \in Call
    BY <2>1 DEF Inv, TypeOK, Store
  <2>3. made[c] = Origin(mem.call[c]) /\ Capped(mem.call[c])
    BY <2>1 DEF Inv, StoresInv, Genuine
  <2>4. made[c].at = mem.call[c].created
    BY <2>3 DEF Origin
  <2>5. /\ mem.call[c].expires \in Int /\ mem.call[c].created \in Int
        /\ now \in Int /\ Retention \in Int
    BY <2>2, ContinuityAssumption DEF Call, Time, Inv, TypeOK
  <2>. QED BY <2>1, <2>3, <2>4, <2>5 DEF Capped
<1>. QED BY <1>1, ContinuityInvariant, PTL

\* While the process lives, the unexpired calls of a conversation are lost together:
\* by expiry, eviction, lookup or a change of account (replay.go:361-362).
THEOREM AsOne == Spec => LostAsUnit
<1>. DEFINE A == \A c, d \in Calls :
                   /\ count'.crash = count.crash
                   /\ mem.call[c] # None /\ mem.call[d] # None
                   /\ mem.call[c].key = mem.call[d].key
                   /\ Alive(mem.call[c]) /\ mem'.call[c] = None
                   => mem'.call[d] = None
<1>1. Inv /\ [Next]_vars => A
  <2>. SUFFICES ASSUME Inv, [Next]_vars PROVE A
    OBVIOUS
  <2>1. ASSUME NEW r \in Requests, Step(r) PROVE A
    BY <2>1, StepInv DEF Stores, AsUnit
  <2>2. CASE mem' = mem
    BY <2>2
  <2>3. CASE Restart
    BY <2>3 DEF Restart, Inv, TypeOK
  <2>4. \/ \E r \in Requests : Step(r)
        \/ mem' = mem \/ Restart
    BY DEF Next, Forget, Tick, vars
  <2>. QED BY <2>1, <2>2, <2>3, <2>4
<1>2. Inv /\ [Next]_vars => [A]_vars
  BY <1>1
<1>3. Spec => [][A]_vars
  BY <1>2, ContinuityInvariant, PTL DEF Spec
<1>. QED BY <1>3 DEF LostAsUnit

-----------------------------------------------------------------------------
(* What a restart finds                                                    *)

\* A call is good for an idle window from when it was made,
Lasting(call, t) == call.created <= t /\ call.created + TTL <= call.expires

\* and so is its conversation if it is of the call's account, but for the absolute
\* retention.
Housed(call, session) ==
  session # None /\ session.profile = call.profile =>
    Earlier(call.created + TTL, session.created + Retention) <= session.expires

Aged(st, t) ==
  /\ \A c \in Calls : st.call[c] # None =>
       Lasting(st.call[c], t) /\ Housed(st.call[c], st.session[st.call[c].key])
  /\ \A k \in Keys : st.session[k] # None => Capped(st.session[k])

Ages == Aged(mem, now) /\ Aged(disk, now)

LEMMA DeletesRenews ==
  ASSUME NEW st, NEW old, Deletes(st, old)
  PROVE  Renews(st, old)
BY DEF Deletes, Renews, Within

\* What is renewed from now on lasts as long as what was made before now.
LEMMA RenewsAged ==
  ASSUME now \in 0..MaxTime, NEW st \in Store, NEW old \in Store,
         Renews(st, old), Aged(old, now)
  PROVE  Aged(st, now)
<1>. now \in Int /\ TTL \in Int /\ Retention \in Int /\ TTL <= Retention
  BY ContinuityAssumption
<1>1. ASSUME NEW c \in Calls, st.call[c] # None
      PROVE  /\ Lasting(st.call[c], now)
             /\ Housed(st.call[c], st.session[st.call[c].key])
  <2>. DEFINE a == st.call[c]
              b == old.call[c]
              k == a.key
              s == st.session[k]
              o == old.session[k]
  <2>1. /\ a \in Call /\ b \in Call /\ k \in Keys /\ b.key = k
        /\ a.profile = b.profile /\ a.created = b.created
        /\ a.expires \in {b.expires, ExtendExpiry(b.created)}
    BY <1>1 DEF Store, Call, Renews, Within
  <2>2. Lasting(b, now) /\ Housed(b, o)
    BY <1>1, <2>1 DEF Aged, Renews, Within
  <2>3. s # None =>
          /\ s \in Bound /\ o # None /\ o \in Bound
          /\ s.profile = o.profile /\ s.created = o.created
          /\ s.expires \in {o.expires, ExtendExpiry(o.created)}
    BY <2>1 DEF Store, Renews, Within
  <2>4. /\ a.created \in Int /\ b.expires \in Int /\ b.created \in Int
        /\ s # None => s.created \in Int /\ o.expires \in Int
    BY <2>1, <2>3 DEF Call, Bound, Time
  <2>. HIDE DEF a, b, k, s, o
  <2>5. Lasting(a, now)
    BY <2>1, <2>2, <2>4 DEF Lasting, ExtendExpiry, Earlier
  <2>6. Housed(a, s)
    <3>. SUFFICES ASSUME s # None, s.profile = a.profile
                  PROVE  Earlier(a.created + TTL, s.created + Retention) <= s.expires
      BY DEF Housed
    <3>1. CASE s.expires = o.expires
      BY <2>1, <2>2, <2>3, <3>1 DEF Housed
    <3>2. CASE s.expires = ExtendExpiry(o.created)
      BY <2>3, <2>4, <2>5, <3>2 DEF Lasting, ExtendExpiry, Earlier
    <3>. QED BY <2>3, <3>1, <3>2
  <2>. QED BY <2>5, <2>6 DEF a, s, k
<1>2. ASSUME NEW k \in Keys, st.session[k] # None
      PROVE  Capped(st.session[k])
  <2>. DEFINE s == st.session[k]
              o == old.session[k]
  <2>1. /\ o # None /\ o \in Bound /\ s.created = o.created
        /\ s.expires \in {o.expires, ExtendExpiry(o.created)}
    BY <1>2 DEF Store, Renews, Within
  <2>2. Capped(o)
    BY <2>1 DEF Aged
  <2>3. ExtendExpiry(o.created) <= o.created + Retention
    BY <2>1, ExtendType DEF Bound
  <2>. HIDE DEF s, o
  <2>4. Capped(s)
    BY <2>1, <2>2, <2>3 DEF Capped
  <2>. QED BY <2>4 DEF s
<1>. QED BY <1>1, <1>2 DEF Aged

\* Binding gives the conversation as long as the calls of its account have.
LEMMA BindAged ==
  ASSUME now \in 0..MaxTime, NEW st \in Store, NEW k \in Keys, NEW p \in Profiles,
         \A o \in Keys : st.session[o] # None => Capped(st.session[o]),
         \A c \in Calls : st.call[c] # None =>
           /\ Lasting(st.call[c], now)
           /\ \/ st.call[c].key = k /\ st.call[c].profile = p
              \/ Housed(st.call[c], st.session[st.call[c].key])
  PROVE  Aged(Bind(st, k, p), now)
<1>. DEFINE n == Bind(st, k, p)
<1>. now \in Int /\ TTL \in Int /\ Retention \in Int
  BY ContinuityAssumption
<1>1. /\ n \in Store /\ n.call = st.call /\ n.session[k] # None
      /\ \A o \in Keys : o # k => n.session[o] = st.session[o]
      /\ \/ n.session[k].profile # p /\ n.session[k] = st.session[k]
         \/ /\ n.session[k].profile = p
            /\ n.session[k].expires = ExtendExpiry(n.session[k].created)
  BY BindKeeps
<1>. HIDE DEF n
<1>2. n.session[k] \in Bound /\ n.session[k].created \in Time
  BY <1>1 DEF Store, Bound
<1>3. Capped(n.session[k])
  <2>1. ExtendExpiry(n.session[k].created) <= n.session[k].created + Retention
    BY <1>2, ExtendType
  <2>. QED BY <1>1, <2>1 DEF Capped
<1>4. ASSUME NEW c \in Calls, n.call[c] # None
      PROVE  /\ Lasting(n.call[c], now)
             /\ Housed(n.call[c], n.session[n.call[c].key])
  <2>1. n.call[c] = st.call[c] /\ st.call[c] \in Call /\ Lasting(n.call[c], now)
    BY <1>1, <1>4 DEF Store
  <2>2. CASE n.call[c].key # k
    BY <1>1, <1>4, <2>1, <2>2 DEF Call
  <2>3. CASE n.call[c].key = k /\ n.session[k].profile # p
    BY <1>1, <1>4, <2>1, <2>3 DEF Housed
  <2>4. CASE n.call[c].key = k /\ n.session[k].profile = p
    <3>1. n.session[k].expires = ExtendExpiry(n.session[k].created)
      BY <1>1, <2>4
    <3>2. /\ n.call[c].created \in Int /\ n.session[k].created \in Int
          /\ n.call[c].created <= now
      BY <1>2, <2>1 DEF Call, Time, Lasting
    <3>3. Earlier(n.call[c].created + TTL, n.session[k].created + Retention)
            <= ExtendExpiry(n.session[k].created)
      BY <3>2 DEF ExtendExpiry, Earlier
    <3>. QED BY <2>1, <2>4, <3>1, <3>3 DEF Housed
  <2>. QED BY <2>2, <2>3, <2>4
<1>5. \A o \in Keys : n.session[o] # None => Capped(n.session[o])
  BY <1>1, <1>3
<1>. QED BY <1>4, <1>5 DEF Aged, n

LEMMA PersistAges ==
  ASSUME Ages, now' = now, NEW st, Aged(st, now), Persist(st)
  PROVE  Ages'
<1>1. mem' = st /\ disk' \in {st, disk}
  BY DEF Persist
<1>. QED BY <1>1 DEF Ages, Aged, Lasting, Housed, Capped

LEMMA MemoryAges ==
  ASSUME Ages, now' = now, disk' = disk, Aged(mem', now)
  PROVE  Ages'
BY DEF Ages, Aged, Lasting, Housed, Capped

LEMMA LookUpAges ==
  ASSUME Inv, Ages, now' = now, disk' = disk, NEW seen, mem' = LookUp(mem, seen)
  PROVE  Ages'
<1>1. mem' \in Store /\ Renews(mem', mem)
  BY LookUpKeeps DEF Inv, TypeOK, StoresInv, Genuine
<1>. QED BY <1>1, RenewsAged, MemoryAges DEF Inv, TypeOK, Ages

\* What deletions leave of the memory.
LEMMA DeletesAged ==
  ASSUME Inv, Ages, NEW st, Deletes(st, mem)
  PROVE  st \in Store /\ Aged(st, now)
<1>1. st \in Store /\ Renews(st, mem)
  BY DeletesRenews DEF Deletes
<1>. QED BY <1>1, RenewsAged DEF Inv, TypeOK, Ages

LEMMA BindSessionAges ==
  ASSUME Inv, Ages, NEW r \in Requests, BindSession(r)
  PROVE  Ages'
<1>. DEFINE k == KeyOf(r)
            p == turn[r].profile
            swept == Sweep(mem)
            foreign == swept.session[k] # None /\ swept.session[k].profile # p
            base == IF foreign THEN Without(swept, {}, {k}) ELSE swept
<1>1. swept \in Store /\ Aged(swept, now)
  BY SweepDeletes, DeletesAged DEF Inv, TypeOK, StoresInv
<1>2. k \in Keys /\ p \in Profiles /\ now \in 0..MaxTime /\ now' = now
  BY WorkingRoute DEF BindSession, Inv, TypeOK
<1>3. \/ mem' = swept /\ disk' = disk
      \/ Persist(Bind(base, k, p))
  BY DEF BindSession
<1>4. CASE mem' = swept /\ disk' = disk
  BY <1>1, <1>2, <1>4, MemoryAges
<1>5. CASE Persist(Bind(base, k, p))
  <2>. HIDE DEF k, p, swept, foreign
  <2>1. /\ base \in Store
        /\ \A c \in Calls : base.call[c] = swept.call[c]
        /\ \A o \in Keys : base.session[o] \in {None, swept.session[o]}
    BY <1>1, WithoutStore
  <2>. HIDE DEF base
  <2>2. \A o \in Keys : base.session[o] # None => Capped(base.session[o])
    BY <1>1, <2>1 DEF Aged
  <2>3. ASSUME NEW c \in Calls, base.call[c] # None
        PROVE  /\ Lasting(base.call[c], now)
               /\ Housed(base.call[c], base.session[base.call[c].key])
    <3>1. base.call[c] = swept.call[c] /\ base.call[c].key \in Keys
      BY <2>1, <2>3 DEF Store, Call
    <3>2. /\ Lasting(base.call[c], now)
          /\ Housed(base.call[c], swept.session[base.call[c].key])
      BY <1>1, <2>3, <3>1 DEF Aged
    <3>. QED BY <2>1, <3>1, <3>2 DEF Housed
  <2>4. Aged(Bind(base, k, p), now)
    BY <1>2, <2>1, <2>2, <2>3, BindAged
  <2>. QED BY <1>2, <1>5, <2>4, PersistAges
<1>. QED BY <1>3, <1>4, <1>5

LEMMA RememberAges ==
  ASSUME Inv, Ages, NEW r \in Requests, Remember(r)
  PROVE  Ages'
<1>. DEFINE k == KeyOf(r)
            p == turn[r].profile
<1>1. k \in Keys /\ p \in Profiles /\ now \in 0..MaxTime /\ now' = now
  BY WorkingRoute DEF Remember, Inv, TypeOK
<1>2. PICK room \in EnsureCapacity(Sweep(mem), k) : Persist(Bind(room, k, p))
  BY DEF Remember
<1>3. Deletes(room, mem)
  BY SweptAndRoomy DEF Inv
<1>4. room \in Store /\ Aged(room, now)
  BY <1>3, DeletesAged
<1>. HIDE DEF k, p
<1>5. Aged(Bind(room, k, p), now)
  BY <1>1, <1>4, BindAged DEF Aged
<1>. QED BY <1>1, <1>2, <1>5, PersistAges

LEMMA RememberCallAges ==
  ASSUME Inv, Ages, NEW r \in Requests, RememberCall(r)
  PROVE  Ages'
<1>. DEFINE k == KeyOf(r)
            p == turn[r].profile
            c == CHOOSE c \in Calls : made[c] = None
            call == [profile |-> p, key |-> k, created |-> now,
                     expires |-> ExtendExpiry(now)]
<1>1. k \in Keys /\ p \in Profiles /\ now \in 0..MaxTime /\ now' = now
  BY WorkingRoute DEF RememberCall, Inv, TypeOK
<1>2. PICK room \in EnsureCapacity(Sweep(mem), k) :
        Persist(Bind([room EXCEPT !.call[c] = call], k, p))
  BY DEF RememberCall
<1>3. Deletes(room, mem)
  BY SweptAndRoomy DEF Inv
<1>4. room \in Store /\ Aged(room, now)
  BY <1>3, DeletesAged
<1>5. /\ call \in Call /\ call.key = k /\ call.profile = p /\ Lasting(call, now)
  <2>1. now \in Time
    BY <1>1, ContinuityAssumption DEF Time
  <2>2. ExtendExpiry(now) \in Time
    BY <1>1, <2>1, ExtendType
  <2>3. now + TTL <= ExtendExpiry(now) /\ now <= now
    BY <1>1, ContinuityAssumption DEF ExtendExpiry, Earlier
  <2>. QED BY <1>1, <2>1, <2>2, <2>3 DEF Call, Lasting
<1>. DEFINE full == [room EXCEPT !.call[c] = call]
<1>. HIDE DEF k, p, c, call
<1>6. /\ full \in Store /\ full.session = room.session
      /\ \A d \in Calls : full.call[d] = call \/ full.call[d] = room.call[d]
  BY <1>4, <1>5 DEF Store
<1>. HIDE DEF full
<1>7. \A o \in Keys : full.session[o] # None => Capped(full.session[o])
  BY <1>4, <1>6 DEF Aged
<1>8. ASSUME NEW d \in Calls, full.call[d] # None
      PROVE  /\ Lasting(full.call[d], now)
             /\ \/ full.call[d].key = k /\ full.call[d].profile = p
                \/ Housed(full.call[d], full.session[full.call[d].key])
  <2>1. CASE full.call[d] = call
    BY <1>5, <2>1
  <2>2. CASE full.call[d] = room.call[d]
    BY <1>4, <1>6, <1>8, <2>2 DEF Aged
  <2>. QED BY <1>6, <2>1, <2>2
<1>9. Aged(Bind(full, k, p), now)
  BY <1>1, <1>6, <1>7, <1>8, BindAged
<1>. QED BY <1>1, <1>2, <1>9, PersistAges DEF full

LEMMA StepAges ==
  ASSUME Inv, Ages, NEW r \in Requests, Step(r)
  PROVE  Ages'
<1>1. CASE Resolve(r)
  <2>1. \E seen : mem' = LookUp(mem, seen)
    BY <1>1, ResolveTurns DEF Inv
  <2>. QED BY <1>1, <2>1, LookUpAges DEF Resolve
<1>2. CASE Select(r)
  <2>1. Deletes(mem', mem) /\ disk' = disk /\ now' = now
    BY <1>2, RestoredDeletes DEF Select, Inv, TypeOK, StoresInv
  <2>. QED BY <2>1, DeletesAged, MemoryAges
<1>3. CASE Prepare(r)
  <2>1. \E seen : mem' = LookUp(mem, seen)
    BY <1>3 DEF Prepare
  <2>. QED BY <1>3, <2>1, LookUpAges DEF Prepare
<1>4. CASE Acquire(r) \/ Failover(r) \/ Succeed(r) \/ Release(r)
  <2>1. UNCHANGED <<now, mem, disk>>
    BY <1>4 DEF Acquire, Failover, Succeed, Release
  <2>. QED BY <2>1, MemoryAges DEF Ages
<1>. QED BY <1>1, <1>2, <1>3, <1>4, BindSessionAges, RememberAges, RememberCallAges DEF Step

LEMMA NextAges ==
  ASSUME Inv, Ages, [Next]_vars
  PROVE  Ages'
<1>1. CASE UNCHANGED <<now, mem, disk>>
  BY <1>1, MemoryAges DEF Ages
<1>2. CASE Tick
  <2>1. mem' = mem /\ disk' = disk /\ now' = now + 1 /\ now \in Int
    BY <1>2 DEF Tick, Inv, TypeOK
  <2>2. ASSUME NEW st \in Store, Aged(st, now) PROVE Aged(st, now')
    <3>1. \A c \in Calls : st.call[c] # None => st.call[c].created \in Int
      BY DEF Store, Call, Time
    <3>. QED BY <2>1, <2>2, <3>1 DEF Aged, Lasting
  <2>. QED BY <2>1, <2>2 DEF Ages, Inv, TypeOK
<1>3. CASE Restart
  <2>1. Deletes(Sweep(disk), disk)
    BY SweepDeletes DEF Inv, TypeOK, StoresInv
  <2>2. Aged(Sweep(disk), now)
    BY <2>1, DeletesRenews, RenewsAged DEF Deletes, Inv, TypeOK, Ages
  <2>3. mem' = Sweep(disk) /\ disk' = Sweep(disk) /\ now' = now
    BY <1>3 DEF Restart
  <2>. QED BY <2>2, <2>3 DEF Ages
<1>. QED BY <1>1, <1>2, <1>3, StepAges DEF Next, Forget, vars

\* What lives, and whose conversation does, is still there after a sweep.
LEMMA SweepKeeps ==
  ASSUME NEW st \in Store, NEW c \in Calls, Alive(st.call[c]),
         Alive(st.session[st.call[c].key])
  PROVE  /\ Sweep(st).call[c] = st.call[c]
         /\ Sweep(st).session[st.call[c].key] = st.session[st.call[c].key]
<1>. DEFINE dead == {d \in Calls : ~Alive(st.call[d])}
            kept == Without(st, dead, {})
            keys == {k \in Keys : st.session[k] # None /\ ~Alive(st.session[k])}
            gone == UNION {CallsOf(kept, k) : k \in keys}
            k == st.call[c].key
<1>1. st.call[c] # None /\ k \in Keys
  BY DEF Alive, Store, Call
<1>2. c \notin dead
  OBVIOUS
<1>. HIDE DEF dead, k
<1>3. /\ kept \in Store
      /\ \A d \in Calls : kept.call[d] = IF d \in dead THEN None ELSE st.call[d]
      /\ \A o \in Keys : kept.session[o] = IF o \in {} THEN None ELSE st.session[o]
  BY WithoutStore
<1>4. kept.session[k] = st.session[k] /\ kept.call[c] = st.call[c]
  BY <1>1, <1>2, <1>3
<1>5. k \notin keys
  BY DEF k
<1>. HIDE DEF keys, kept
<1>6. c \notin gone
  BY <1>4, <1>5 DEF CallsOf, k
<1>7. Sweep(st) = Without(kept, gone, keys)
  BY DEF Sweep, DeleteSessions, keys, kept, dead
<1>. HIDE DEF gone
<1>8. /\ \A d \in Calls : Sweep(st).call[d] = IF d \in gone THEN None ELSE kept.call[d]
      /\ \A o \in Keys : Sweep(st).session[o] =
                            IF o \in keys THEN None ELSE kept.session[o]
  BY <1>3, <1>7, WithoutStore
<1>. QED BY <1>1, <1>4, <1>5, <1>6, <1>8 DEF k

\* In memory and in the file a call lasts an idle window from its making, and its
\* conversation with it, as what is kept is renewed together (replay.go:333-342, 397-404).
THEOREM AgesInvariant == Spec => []Ages
<1>1. Init => Ages
  <2>1. Init => /\ \A c \in Calls : mem.call[c] = None
                /\ \A k \in Keys : mem.session[k] = None
                /\ disk = mem
    BY DEF Init
  <2>. QED BY <2>1 DEF Ages, Aged
<1>2. Inv /\ Ages /\ [Next]_vars => Ages'
  BY NextAges
<1>. QED BY <1>1, <1>2, ContinuityInvariant, PTL DEF Spec

\* Until a write fails, the file has a record of all that lives in memory; and a call that
\* is usable and younger than an idle window is there with its conversation when a
\* restart has swept what it loads, whatever was renewed in memory only
\* (replay.go:91-106, 333-342, 482, 486-545).
THEOREM Survives == Spec => []SurvivesRestart
<1>1. Inv /\ Ages => SurvivesRestart
  <2>. SUFFICES ASSUME Inv, Ages, count.fault = 0 PROVE SurvivesRestart
    BY DEF SurvivesRestart
  <2>1. Within(mem, disk) /\ mem \in Store /\ disk \in Store
    BY DEF Inv, DiskInv, TypeOK
  <2>2. ASSUME NEW c \in Calls, Usable(c), now < mem.call[c].created + TTL
        PROVE  /\ Sweep(disk).call[c] # None
               /\ Sweep(disk).call[c].profile = mem.call[c].profile
               /\ Sweep(disk).session[mem.call[c].key] # None
    <3>. DEFINE a == mem.call[c]
                k == a.key
                s == mem.session[k]
                b == disk.call[c]
                o == disk.session[k]
    <3>1. /\ a # None /\ s # None /\ s.expires > now /\ s.profile = a.profile
          /\ k \in Keys
      BY <2>1, <2>2 DEF Usable, Alive, Store, Call
    <3>2. /\ b # None /\ b.profile = a.profile /\ b.key = k /\ b.created = a.created
          /\ o # None /\ o.profile = s.profile /\ o.created = s.created
      BY <2>1, <3>1 DEF Within
    <3>3. b \in Call /\ o \in Bound /\ s \in Bound
      BY <2>1, <3>1, <3>2 DEF Store
    <3>4. Lasting(b, now) /\ Housed(b, o) /\ Capped(s)
      BY <3>1, <3>2 DEF Ages, Aged
    <3>5. /\ now \in Int /\ TTL \in Int /\ Retention \in Int
          /\ b.created \in Int /\ b.expires \in Int
          /\ o.created \in Int /\ o.expires \in Int /\ s.expires \in Int
      BY <3>3, ContinuityAssumption DEF Call, Bound, Time, Inv, TypeOK
    <3>6. now < b.created + TTL
      BY <2>2, <3>2
    <3>. HIDE DEF a, k, s, b, o
    <3>7. Alive(b)
      BY <3>2, <3>4, <3>5, <3>6 DEF Lasting, Alive
    <3>8. Alive(o)
      <4>1. now < o.created + Retention
        BY <3>1, <3>2, <3>4, <3>5 DEF Capped
      <4>2. Earlier(b.created + TTL, o.created + Retention) <= o.expires
        BY <3>1, <3>2, <3>4 DEF Housed
      <4>. QED BY <3>2, <3>5, <3>6, <4>1, <4>2 DEF Earlier, Alive
    <3>9. Sweep(disk).call[c] = b /\ Sweep(disk).session[k] = o
      BY <2>1, <3>2, <3>7, <3>8, SweepKeeps DEF b, o
    <3>. QED BY <3>2, <3>9 DEF a, k
  <2>3. /\ \A c \in Calls : Alive(mem.call[c]) =>
             disk.call[c] # None /\ disk.call[c].profile = mem.call[c].profile
        /\ \A k \in Keys : Alive(mem.session[k]) =>
             disk.session[k] # None /\ disk.session[k].profile = mem.session[k].profile
    BY <2>1 DEF Within, Alive
  <2>. QED BY <2>2, <2>3 DEF SurvivesRestart
<1>. QED BY <1>1, ContinuityInvariant, AgesInvariant, PTL

=============================================================================
