-------------------------- MODULE GoogleAuthProofs --------------------------
(***************************************************************************)
(* Theorems about GoogleAuth for any requests, processes, profiles and     *)
(* accounts, and any number of expiries and failures.                      *)
(***************************************************************************)
EXTENDS GoogleAuth, TLAPS

-----------------------------------------------------------------------------
(* The inductive invariant, part by part                                   *)

Inside == {"refresh", "save"}
Listening == {"wait", "exchange", "save"}

\* A token is of one grant of the profile and the project of that grant's account.
For(g, p) == IF g \in Jobs THEN job[g].profile = p ELSE g = p
Whole(p, c) == For(c.access, p) /\ owner[c.access] = c.project
Sound(p, c) == Whole(p, c) /\ c.refresh = c.access

FilesInv == \A p \in Profiles : file[p] # None => Sound(p, file[p])

\* What a registry lists, the copies of the processes too, has a credential.
Listed(ids) == \A p \in ids : file[p] # None
RegistryInv == Listed(registry.ids)

\* What a request knows.  Unless a login has overtaken it, the one under the mutex
\* knows the grant that the file is of, and has found it at its end.
Serves(q) ==
  /\ q.pc \in {"load", "lock"} \cup Inside => q.want \in Profiles
  /\ q.pc \in {"lock"} \cup Inside => /\ q.current # None /\ file[q.want] # None
                                      /\ Sound(q.want, q.current)
  /\ q.pc = "save" => /\ q.fresh # None /\ Sound(q.want, q.fresh)
                      /\ q.fresh.refresh = q.current.refresh
  /\ q.pc \in Inside /\ ~q.overtaken =>
       /\ file[q.want].refresh = q.current.refresh
       /\ q.force \/ file[q.want].expiring
  /\ \A out \in q.out : Whole(out.profile, out)

\* What a process knows; it has a profile once it has a grant.
Runs(j, r) ==
  /\ r.pc = "idle" => r.profile = None
  /\ r.pc \in Listening \cup {"register"} => r.profile \in Profiles
  /\ r.pc = "wait" /\ r.callback = "code" => owner[j] # None
  /\ r.pc = "exchange" => r.code \in Jobs /\ owner[r.code] # None
  /\ r.pc = "save" => owner[j] # None /\ r.made = Complete(j, owner[j])
  /\ r.pc = "register" => file[r.profile] # None
  /\ Listed(r.copy.ids)

Inv == /\ TypeOK /\ FilesInv /\ RegistryInv
       /\ \A c \in Calls : Serves(call[c])
       /\ \A j \in Jobs : Runs(j, job[j])

-----------------------------------------------------------------------------
(* What stays true                                                         *)

\* A process keeps its profile, and a grant its account.
Stays ==
  /\ \A g \in Jobs : job[g].profile # None => job'[g].profile = job[g].profile
  /\ \A g \in Grants : owner[g] # None => owner'[g] = owner[g]

LEMMA WholeStays ==
  ASSUME Stays, NEW p \in Profiles, NEW c, c.access \in Grants, c.project \in Accounts,
         Whole(p, c)
  PROVE  Whole(p, c)'
BY AuthAssumption DEF Stays, Whole, For

LEMMA SoundStays ==
  ASSUME Stays, NEW p \in Profiles, NEW c \in Credential, Sound(p, c)
  PROVE  Sound(p, c)'
BY WholeStays DEF Sound, Credential

\* A request that does nothing, while the files it may rely on are there and not
\* changed behind its back.
LEMMA ServesStays ==
  ASSUME Stays, NEW q \in Call, Serves(q),
         \A p \in Profiles : file[p] # None => file'[p] # None,
         q.pc \in Inside /\ ~q.overtaken =>
           /\ file'[q.want].refresh = file[q.want].refresh
           /\ file[q.want].expiring => file'[q.want].expiring
  PROVE  Serves(q)'
<1>1. /\ q.current \in Credential \cup {None} /\ q.fresh \in Credential \cup {None}
      /\ q.out \subseteq [profile : Profiles, access : Grants, project : Accounts]
  BY DEF Call
<1>2. \A out \in q.out : Whole(out.profile, out)'
  BY <1>1, WholeStays DEF Serves
<1>3. q.pc \in {"lock"} \cup Inside => Sound(q.want, q.current)'
  BY <1>1, SoundStays DEF Serves
<1>4. q.pc = "save" => Sound(q.want, q.fresh)'
  BY <1>1, SoundStays DEF Serves, Inside
<1>5. q.pc \in Inside /\ ~q.overtaken =>
        file'[q.want].refresh = q.current.refresh /\ (q.force \/ file'[q.want].expiring)
  BY DEF Serves
<1>6. q.pc \in {"lock"} \cup Inside => q.current # None /\ file'[q.want] # None
  BY DEF Serves
<1>. QED BY <1>2, <1>3, <1>4, <1>5, <1>6 DEF Serves

LEMMA RunsStays ==
  ASSUME Stays, NEW j \in Jobs, NEW r \in Job, Runs(j, r),
         \A p \in Profiles : file[p] # None => file'[p] # None
  PROVE  Runs(j, r)'
<1>1. r.copy.ids \subseteq Profiles
  BY DEF Job, Registry
<1>. QED BY <1>1, AuthAssumption DEF Stays, Runs, Listed, Grants, Listening

-----------------------------------------------------------------------------
(* The broker                                                              *)

LEMMA OnwardCall ==
  ASSUME NEW q \in Call, NEW next \in Onward(q)
  PROVE  /\ next \in Call /\ next.pc \in {"done", "load"} /\ next.out = q.out
         /\ next.pc = "load" => next.want \in Profiles
<1>. DEFINE over == [q EXCEPT !.want = None, !.current = None, !.fresh = None,
                              !.overtaken = FALSE]
<1>1. over \in Call /\ over.out = q.out /\ over.left = q.left
  BY DEF Call
<1>2. \/ next = [over EXCEPT !.pc = "done", !.force = FALSE]
      \/ \E p \in q.left : next = [over EXCEPT !.pc = "load", !.want = p, !.left = @ \ {p}]
  BY DEF Onward
<1>. HIDE DEF over
<1>3. q.left \subseteq Profiles
  BY DEF Call
<1>4. CASE next = [over EXCEPT !.pc = "done", !.force = FALSE]
  BY <1>1, <1>4 DEF Call
<1>5. ASSUME NEW p \in q.left,
             next = [over EXCEPT !.pc = "load", !.want = p, !.left = @ \ {p}]
      PROVE  /\ next \in Call /\ next.pc = "load" /\ next.out = q.out
             /\ next.want \in Profiles
  <2>1. p \in Profiles /\ over.left \ {p} \subseteq Profiles
    BY <1>1, <1>3
  <2>. QED BY <1>1, <1>5, <2>1 DEF Call
<1>. QED BY <1>2, <1>4, <1>5

LEMMA HandedCall ==
  ASSUME NEW q \in Call, q.want \in Profiles, NEW c \in Credential
  PROVE  /\ Handed(q, c) \in Call
         /\ Handed(q, c).out =
              q.out \cup {[profile |-> q.want, access |-> c.access, project |-> c.project]}
BY DEF Handed, Call, Credential

\* A request that moves on: nothing is left of what it knew but what it handed out.
LEMMA ServesOnward ==
  ASSUME NEW q \in Call, \A out \in q.out : Whole(out.profile, out), NEW next \in Onward(q)
  PROVE  Serves(next)
BY OnwardCall DEF Serves, Inside

LEMMA ServesHanded ==
  ASSUME NEW q \in Call, q.want \in Profiles, \A out \in q.out : Whole(out.profile, out),
         NEW c \in Credential, Whole(q.want, c), NEW next \in Onward(Handed(q, c))
  PROVE  next \in Call /\ next.pc \in {"done", "load"} /\ Serves(next)
<1>1. \A out \in Handed(q, c).out : Whole(out.profile, out)
  BY HandedCall DEF Whole
<1>. QED BY <1>1, HandedCall, OnwardCall, ServesOnward

\* The mutex goes with the request that is inside.
MuStep(c, next) ==
  \/ mu' = mu /\ (call[c].pc \in Inside <=> next.pc \in Inside)
  \/ mu = None /\ mu' = c /\ next.pc \in Inside
  \/ call[c].pc \in Inside /\ mu' = None /\ next.pc \notin Inside

\* A request becomes next, and may have saved what it got.
LEMMA CallInv ==
  ASSUME Inv, NEW c \in Calls, NEW next \in Call, call' = [call EXCEPT ![c] = next],
         UNCHANGED <<registry, owner, job, port>>, MuStep(c, next),
         count' \in [expiry : 0..MaxExpiries, trouble : 0..MaxTrouble],
         \/ file' = file
         \/ /\ call[c].pc = "save" /\ mu' = None
            /\ file' = [file EXCEPT ![call[c].want] = call[c].fresh],
         Serves(next)'
  PROVE  Inv'
<1>1. /\ TypeOK /\ FilesInv /\ RegistryInv /\ Serves(call[c])
      /\ \A d \in Calls : Serves(call[d])
      /\ \A j \in Jobs : Runs(j, job[j])
  BY DEF Inv
<1>2. Stays
  BY <1>1 DEF Stays
<1>3. /\ call' \in [Calls -> Call] /\ call'[c] = next
      /\ \A d \in Calls \ {c} : call'[d] = call[d]
  BY <1>1 DEF TypeOK
<1>4. /\ file' \in [Profiles -> Credential \cup {None}]
      /\ \A p \in Profiles : file[p] # None => file'[p] # None
      /\ \A p \in Profiles : file'[p] # file[p] =>
           call[c].pc = "save" /\ p = call[c].want /\ file'[p] = call[c].fresh
  <2>1. call[c].pc = "save" => /\ call[c].fresh \in Credential /\ call[c].fresh # None
                               /\ call[c].want \in Profiles
    BY <1>1 DEF TypeOK, Call, Serves, Inside
  <2>. QED BY <1>1, <2>1 DEF TypeOK
<1>5. mu' \in Calls \cup {None} /\ \A d \in Calls : mu' = d <=> call'[d].pc \in Inside
  <2>1. /\ mu \in Calls \cup {None} /\ None \notin Calls
        /\ \A d \in Calls : mu = d <=> call[d].pc \in Inside
    BY <1>1, AuthAssumption DEF TypeOK, Inside
  <2>. QED BY <1>3, <2>1 DEF MuStep
<1>6. TypeOK'
  BY <1>1, <1>3, <1>4, <1>5 DEF TypeOK, Inside
<1>7. FilesInv'
  <2>1. ASSUME NEW p \in Profiles, file'[p] # None, NEW a, a = file'[p] PROVE Sound(p, a)'
    <3>1. Sound(p, a) /\ a \in Credential
      BY <1>1, <1>4, <2>1 DEF FilesInv, Serves, TypeOK
    <3>. QED BY <1>2, <3>1, SoundStays
  <2>. QED BY <2>1 DEF FilesInv
<1>8. RegistryInv'
  BY <1>1, <1>4 DEF RegistryInv, Listed, TypeOK, Registry
<1>9. ASSUME NEW d \in Calls, NEW q, q = call'[d] PROVE Serves(q)'
  <2>1. CASE d = c
    BY <1>3, <1>9, <2>1
  <2>2. CASE d # c
    <3>1. q = call[d] /\ q \in Call /\ Serves(q)
      BY <1>1, <1>3, <1>9, <2>2 DEF TypeOK
    <3>2. q.pc \in Inside => call[c].pc # "save"
      BY <1>1, <2>2, <3>1 DEF TypeOK, Inside
    <3>3. q.pc \in Inside => q.want \in Profiles
      BY <3>1 DEF Serves
    <3>. QED BY <1>2, <1>4, <3>1, <3>2, <3>3, ServesStays
  <2>. QED BY <2>1, <2>2
<1>10. ASSUME NEW j \in Jobs, NEW r, r = job[j] PROVE Runs(j, r)'
  BY <1>1, <1>2, <1>4, <1>10, RunsStays DEF TypeOK
<1>. QED BY <1>6, <1>7, <1>8, <1>9, <1>10 DEF Inv

\* An unchanged world serves a request as before.
LEMMA ServesSame ==
  ASSUME NEW q, Serves(q), UNCHANGED <<file, owner, job>>
  PROVE  Serves(q)'
BY DEF Serves, Sound, Whole, For

\* A request that is handed a sound credential goes on, and so does one that fails.
LEMMA HandInv ==
  ASSUME Inv, NEW c \in Calls, NEW credential \in Credential, Hand(c, call[c], credential),
         call[c].want \in Profiles, Whole(call[c].want, credential),
         UNCHANGED <<registry, file, owner, mu, job, port, count>>,
         call[c].pc \notin Inside
  PROVE  Inv'
<1>1. PICK next \in Onward(Handed(call[c], credential)) : call' = [call EXCEPT ![c] = next]
  BY DEF Hand
<1>2. call[c] \in Call /\ \A out \in call[c].out : Whole(out.profile, out)
  BY DEF Inv, TypeOK, Serves
<1>3. next \in Call /\ next.pc \in {"done", "load"} /\ Serves(next)
  BY <1>1, <1>2, ServesHanded
<1>4. Serves(next)'
  BY <1>3, ServesSame
<1>5. MuStep(c, next)
  BY <1>3 DEF MuStep, Inside
<1>. QED BY <1>1, <1>3, <1>4, <1>5, CallInv DEF Inv, TypeOK

LEMMA FailInv ==
  ASSUME Inv, NEW c \in Calls, Fail(c), UNCHANGED <<registry, file, owner, job, port>>,
         \/ call[c].pc \in Inside /\ mu' = None
         \/ call[c].pc \notin Inside /\ mu' = mu,
         count' \in [expiry : 0..MaxExpiries, trouble : 0..MaxTrouble]
  PROVE  Inv'
<1>1. PICK next \in Onward(call[c]) : call' = [call EXCEPT ![c] = next]
  BY DEF Fail
<1>2. call[c] \in Call /\ \A out \in call[c].out : Whole(out.profile, out)
  BY DEF Inv, TypeOK, Serves
<1>3. next \in Call /\ next.pc \in {"done", "load"} /\ Serves(next)
  BY <1>1, <1>2, OnwardCall, ServesOnward
<1>4. Serves(next)'
  BY <1>3, ServesSame
<1>5. MuStep(c, next)
  BY <1>3 DEF MuStep, Inside
<1>. QED BY <1>1, <1>3, <1>4, <1>5, CallInv

LEMMA AskInv ==
  ASSUME Inv, NEW c \in Calls, Ask(c)
  PROVE  Inv'
<1>1. PICK wanted \in SUBSET registry.ids, force \in BOOLEAN :
        \E next \in Onward([NoCall EXCEPT !.left = wanted, !.force = force]) :
          call' = [call EXCEPT ![c] = next]
  BY DEF Ask
<1>. DEFINE q == [NoCall EXCEPT !.left = wanted, !.force = force]
<1>2. /\ call[c].pc = "idle" /\ UNCHANGED <<registry, file, owner, mu, job, port, count>>
      /\ wanted \subseteq Profiles
  BY DEF Ask, Inv, TypeOK, Registry
<1>3. q \in Call /\ q.out = {}
  BY <1>2 DEF NoCall, Call
<1>4. PICK next \in Onward(q) : call' = [call EXCEPT ![c] = next]
  BY <1>1
<1>. HIDE DEF q
<1>5. next \in Call /\ next.pc \in {"done", "load"} /\ Serves(next)
  BY <1>3, <1>4, OnwardCall, ServesOnward
<1>6. Serves(next)'
  BY <1>2, <1>5, ServesSame
<1>7. MuStep(c, next)
  BY <1>2, <1>5 DEF MuStep, Inside
<1>. QED BY <1>2, <1>4, <1>5, <1>6, <1>7, CallInv DEF Inv, TypeOK

LEMMA LoadInv ==
  ASSUME Inv, NEW c \in Calls, Load(c)
  PROVE  Inv'
<1>. DEFINE p == call[c].want
<1>1. /\ call[c].pc = "load" /\ call[c] \in Call /\ p \in Profiles
      /\ file[p] \in Credential \cup {None}
      /\ file[p] # None => Sound(p, file[p])
      /\ UNCHANGED <<registry, file, owner, mu, job, port, count>>
  BY DEF Load, Inv, TypeOK, Serves, FilesInv
<1>2. CASE file[p] = None
  BY <1>1, <1>2, FailInv DEF Load, Inside, Inv, TypeOK
<1>3. CASE file[p] # None /\ Usable(c, file[p])
  <2>1. Hand(c, call[c], file[p])
    BY <1>3 DEF Load
  <2>. QED BY <1>1, <1>3, <2>1, HandInv DEF Inside, Sound
<1>4. CASE file[p] # None /\ ~Usable(c, file[p])
  <2>1. PICK next : next = [call[c] EXCEPT !.pc = "lock", !.current = file[p]]
    OBVIOUS
  <2>2. /\ next \in Call /\ next.pc = "lock" /\ next.want = p /\ next.current = file[p]
        /\ next.out = call[c].out
    BY <1>1, <2>1 DEF Call
  <2>3. call' = [call EXCEPT ![c] = next]
    BY <1>1, <1>4, <2>1 DEF Load, Inv, TypeOK
  <2>4. Serves(next)
    BY <1>1, <1>4, <2>2 DEF Serves, Inside, Inv
  <2>5. Serves(next)'
    BY <1>1, <2>4, ServesSame
  <2>6. MuStep(c, next)
    BY <1>1, <2>2 DEF MuStep, Inside
  <2>. QED BY <1>1, <2>2, <2>3, <2>5, <2>6, CallInv DEF Inv, TypeOK
<1>. QED BY <1>2, <1>3, <1>4

LEMMA EnterInv ==
  ASSUME Inv, NEW c \in Calls, Enter(c)
  PROVE  Inv'
<1>. DEFINE p == call[c].want
<1>1. /\ call[c].pc = "lock" /\ mu = None /\ call[c] \in Call /\ p \in Profiles
      /\ file[p] \in Credential /\ file[p] # None /\ Sound(p, file[p])
      /\ UNCHANGED <<registry, file, owner, job, port, count>>
  BY DEF Enter, Inv, TypeOK, Serves, FilesInv
<1>2. CASE Usable(c, file[p])
  BY <1>1, <1>2, HandInv DEF Enter, LoadedAgain, Inside, Sound
<1>3. CASE ~Usable(c, file[p])
  <2>1. PICK next : next = [call[c] EXCEPT !.pc = "refresh", !.current = file[p]]
    OBVIOUS
  <2>2. /\ next \in Call /\ next.pc = "refresh" /\ next.want = p /\ next.current = file[p]
        /\ next.out = call[c].out /\ next.force = call[c].force
    BY <1>1, <2>1 DEF Call
  <2>3. call' = [call EXCEPT ![c] = next] /\ mu' = c
    BY <1>1, <1>3, <2>1 DEF Enter, LoadedAgain, Inv, TypeOK
  <2>4. Serves(next)
    BY <1>1, <1>3, <2>2 DEF Serves, Inside, Inv, Usable
  <2>5. Serves(next)'
    BY <1>1, <2>4, ServesSame
  <2>6. MuStep(c, next)
    BY <1>1, <2>2, <2>3 DEF MuStep, Inside
  <2>. QED BY <1>1, <2>2, <2>3, <2>5, <2>6, CallInv DEF Inv, TypeOK
<1>. QED BY <1>2, <1>3

LEMMA Troubled ==
  ASSUME TypeOK, Trouble
  PROVE  count' \in [expiry : 0..MaxExpiries, trouble : 0..MaxTrouble]
BY AuthAssumption DEF TypeOK, Trouble

LEMMA RefreshInv ==
  ASSUME Inv, NEW c \in Calls, Refresh(c)
  PROVE  Inv'
<1>. DEFINE q == call[c]
<1>1. /\ TypeOK /\ q.pc = "refresh" /\ q \in Call /\ Serves(q) /\ q.want \in Profiles
      /\ q.current \in Credential
      /\ UNCHANGED <<registry, file, owner, job, port>>
  BY DEF Refresh, Inv, TypeOK, Serves, Inside, Call
<1>2. ASSUME NEW project, project = q.current.project,
             call' = [call EXCEPT ![c].pc = "save",
               ![c].fresh = [access |-> q.current.refresh, refresh |-> q.current.refresh,
                             project |-> project, expiring |-> FALSE]],
             mu' = mu, count' = count \/ Trouble
      PROVE  Inv'
  <2>1. PICK fresh : fresh = [access |-> q.current.refresh, refresh |-> q.current.refresh,
                              project |-> project, expiring |-> FALSE]
    OBVIOUS
  <2>2. fresh \in Credential /\ fresh.refresh = q.current.refresh
        /\ fresh.access = q.current.refresh /\ fresh.project = q.current.project
    BY <1>1, <1>2, <2>1 DEF Credential
  <2>3. PICK next : next = [q EXCEPT !.pc = "save", !.fresh = fresh]
    OBVIOUS
  <2>4. /\ next \in Call /\ next.pc = "save" /\ next.want = q.want
        /\ next.current = q.current /\ next.fresh = fresh /\ next.out = q.out
        /\ next.force = q.force /\ next.overtaken = q.overtaken
    BY <1>1, <2>2, <2>3 DEF Call
  <2>5. call' = [call EXCEPT ![c] = next]
    BY <1>1, <1>2, <2>1, <2>3 DEF TypeOK
  <2>6. Sound(q.want, q.current)
    BY <1>1 DEF Serves, Inside
  <2>7. Sound(q.want, fresh) /\ fresh # None
    <3>1. fresh # None
      BY <2>2, AuthAssumption
    <3>. QED BY <2>2, <2>6, <3>1 DEF Sound, Whole
  <2>8. Serves(next)
    BY <1>1, <2>2, <2>4, <2>7 DEF Serves, Inside
  <2>9. Serves(next)'
    BY <1>1, <2>8, ServesSame
  <2>10. MuStep(c, next)
    BY <1>1, <1>2, <2>4 DEF MuStep, Inside
  <2>. QED BY <1>1, <1>2, <2>4, <2>5, <2>9, <2>10, CallInv, Troubled DEF TypeOK
<1>3. owner[q.current.refresh] = q.current.project
  BY <1>1 DEF Serves, Inside, Sound, Whole
<1>4. CASE Fail(c) /\ Unlock /\ Trouble
  BY <1>1, <1>4, FailInv, Troubled DEF Unlock, Inside
<1>. QED BY <1>2, <1>3, <1>4 DEF Refresh, ProjectKept

LEMMA SaveInv ==
  ASSUME Inv, NEW c \in Calls, Save(c)
  PROVE  Inv'
<1>. DEFINE q == call[c]
<1>1. /\ TypeOK /\ q.pc = "save" /\ q \in Call /\ Serves(q) /\ q.want \in Profiles
      /\ q.fresh \in Credential /\ Sound(q.want, q.fresh)
      /\ mu' = None /\ UNCHANGED <<registry, owner, job, port>>
  BY DEF Save, Inv, TypeOK, Serves, Inside, Call, Unlock
<1>2. CASE Trouble /\ Fail(c) /\ UNCHANGED file
  BY <1>1, <1>2, FailInv, Troubled DEF Inside
<1>3. CASE /\ file' = [file EXCEPT ![q.want] = q.fresh]
           /\ Hand(c, q, q.fresh) /\ UNCHANGED count
  <2>1. PICK next \in Onward(Handed(q, q.fresh)) : call' = [call EXCEPT ![c] = next]
    BY <1>3 DEF Hand
  <2>2. next \in Call /\ next.pc \in {"done", "load"} /\ Serves(next)
    BY <1>1, <2>1, ServesHanded DEF Serves, Sound
  <2>3. Serves(next)'
    BY <1>1, <2>2 DEF Serves, Whole, For, Inside
  <2>4. MuStep(c, next)
    BY <1>1, <2>2 DEF MuStep, Inside
  <2>. QED BY <1>1, <1>3, <2>1, <2>2, <2>3, <2>4, CallInv DEF TypeOK
<1>. QED BY <1>2, <1>3 DEF Save


-----------------------------------------------------------------------------
(* The processes                                                           *)

\* Who listens: the port is given up with the process.
PortStep(j, r) ==
  /\ port' \in {port, None} \/ (port = None /\ port' = j)
  /\ port' = j => r.pc \in Listening

\* A process becomes r; the port goes along.
LEMMA JobTypes ==
  ASSUME TypeOK, NEW j \in Jobs, NEW r \in Job, job' = [job EXCEPT ![j] = r],
         PortStep(j, r)
  PROVE  /\ job' \in [Jobs -> Job] /\ job'[j] = r
         /\ \A k \in Jobs \ {j} : job'[k] = job[k]
         /\ port' \in Jobs \cup {None}
         /\ port' # None => job'[port'].pc \in Listening
<1>1. /\ job' \in [Jobs -> Job] /\ job'[j] = r
      /\ \A k \in Jobs \ {j} : job'[k] = job[k]
  BY DEF TypeOK
<1>2. port \in Jobs \cup {None} /\ (port # None => job[port].pc \in Listening)
  BY DEF TypeOK, Listening
<1>. QED BY <1>1, <1>2 DEF PortStep

LEMMA JobInv ==
  ASSUME Inv, NEW j \in Jobs, NEW r \in Job, job' = [job EXCEPT ![j] = r],
         job[j].profile # None => r.profile = job[j].profile,
         PortStep(j, r), Runs(j, r)', UNCHANGED <<file, owner, mu, call>>,
         count' \in [expiry : 0..MaxExpiries, trouble : 0..MaxTrouble],
         registry' \in Registry, Listed(registry'.ids)
  PROVE  Inv'
<1>1. TypeOK /\ FilesInv /\ \A k \in Jobs : Runs(k, job[k])
  BY DEF Inv
<1>2. /\ job' \in [Jobs -> Job] /\ job'[j] = r
      /\ \A k \in Jobs \ {j} : job'[k] = job[k]
      /\ port' \in Jobs \cup {None}
      /\ port' # None => job'[port'].pc \in Listening
  BY <1>1, JobTypes
<1>3. Stays
  BY <1>2 DEF Stays
<1>4. TypeOK'
  BY <1>1, <1>2 DEF TypeOK, Listening
<1>5. FilesInv'
  <2>1. ASSUME NEW p \in Profiles, file[p] # None, NEW a, a = file[p] PROVE Sound(p, a)'
    BY <1>1, <1>3, <2>1, SoundStays DEF FilesInv, TypeOK
  <2>. QED BY <2>1 DEF FilesInv
<1>6. RegistryInv'
  BY DEF RegistryInv, Listed
<1>7. ASSUME NEW c \in Calls, NEW q, q = call[c] PROVE Serves(q)'
  BY <1>1, <1>3, <1>7, ServesStays DEF Inv, TypeOK
<1>8. ASSUME NEW k \in Jobs, NEW s, s = job'[k] PROVE Runs(k, s)'
  <2>1. CASE k = j
    BY <1>2, <1>8, <2>1
  <2>2. CASE k # j
    BY <1>1, <1>2, <1>3, <1>8, <2>2, RunsStays DEF TypeOK
  <2>. QED BY <2>1, <2>2
<1>. QED BY <1>4, <1>5, <1>6, <1>7, <1>8 DEF Inv

\* What a process knows changes with the files and the grants only.
LEMMA RunsSame ==
  ASSUME NEW j \in Jobs, NEW r, Runs(j, r), UNCHANGED <<file, owner>>
  PROVE  Runs(j, r)'
BY DEF Runs, Listed

LEMMA NoJobTyped == NoJob \in Job
BY DEF NoJob, Job, NoRegistry, Registry

\* A process that is over forgets all but its profile.
LEMMA OverRuns ==
  ASSUME TypeOK, NEW j \in Jobs
  PROVE  \E r \in Job : /\ Over(j) = [job EXCEPT ![j] = r] /\ Runs(j, r) /\ r.pc = "done"
                        /\ r.profile = job[j].profile
<1>. DEFINE r == [NoJob EXCEPT !.pc = "done", !.profile = job[j].profile]
<1>1. job[j].profile \in Profiles \cup {None}
  BY DEF TypeOK, Job
<1>2. r \in Job /\ r.pc = "done" /\ r.profile = job[j].profile /\ r.copy = NoRegistry
  BY <1>1, NoJobTyped DEF Job, NoJob
<1>3. Over(j) = [job EXCEPT ![j] = r]
  BY DEF Over
<1>. HIDE DEF r
<1>4. Runs(j, r)
  BY <1>2 DEF Runs, Listed, NoRegistry, Listening
<1>. QED BY <1>2, <1>3, <1>4

LEMMA ExitInv ==
  ASSUME Inv, NEW j \in Jobs, Exit(j), UNCHANGED <<registry, file, owner, mu, call>>,
         count' = count \/ Trouble
  PROVE  Inv'
<1>1. TypeOK /\ RegistryInv
  BY DEF Inv
<1>2. PICK r \in Job : /\ job' = [job EXCEPT ![j] = r] /\ Runs(j, r) /\ r.pc = "done"
                       /\ r.profile = job[j].profile
  BY <1>1, OverRuns DEF Exit
<1>3. Runs(j, r)'
  BY <1>2, RunsSame
<1>4. PortStep(j, r)
  BY <1>1, AuthAssumption DEF PortStep, Exit, TypeOK
<1>5. count' \in [expiry : 0..MaxExpiries, trouble : 0..MaxTrouble]
  BY <1>1, Troubled DEF TypeOK
<1>. QED BY <1>1, <1>2, <1>3, <1>4, <1>5, JobInv DEF TypeOK, RegistryInv

\* A process goes on to r without ending, which leaves all else alone but the port.
LEMMA GoesOnInv ==
  ASSUME Inv, NEW j \in Jobs, NEW r \in Job, job' = [job EXCEPT ![j] = r],
         job[j].profile # None => r.profile = job[j].profile, Runs(j, r),
         PortStep(j, r), UNCHANGED <<registry, file, owner, mu, call, count>>
  PROVE  Inv'
<1>1. TypeOK /\ RegistryInv
  BY DEF Inv
<1>2. Runs(j, r)'
  BY RunsSame
<1>. QED BY <1>1, <1>2, JobInv DEF TypeOK, RegistryInv

LEMMA StartLoginInv ==
  ASSUME Inv, NEW j \in Jobs, StartLogin(j)
  PROVE  Inv'
<1>1. /\ TypeOK /\ RegistryInv /\ job[j].pc = "idle" /\ Runs(j, job[j])
      /\ UNCHANGED <<registry, file, owner, mu, call, count>>
  BY DEF StartLogin, broker, Inv
<1>2. PICK p \in Profiles, listens \in BOOLEAN :
        /\ job' = [job EXCEPT ![j] = [NoJob EXCEPT !.pc = "wait", !.profile = p,
             !.add = p \notin registry.ids,
             !.copy = IF p \in registry.ids THEN NoRegistry ELSE registry]]
        /\ port' = IF listens /\ port = None THEN j ELSE port
  BY DEF StartLogin
<1>. DEFINE add == p \notin registry.ids
            copy == IF p \in registry.ids THEN NoRegistry ELSE registry
<1>3. add \in BOOLEAN /\ copy \in Registry /\ Listed(copy.ids)
  BY <1>1 DEF TypeOK, NoRegistry, Registry, RegistryInv, Listed
<1>. HIDE DEF add, copy
<1>. DEFINE r == [NoJob EXCEPT !.pc = "wait", !.profile = p, !.add = add, !.copy = copy]
<1>4. /\ r \in Job /\ r.pc = "wait" /\ r.profile = p /\ r.copy = copy
      /\ r.callback = "empty"
  BY <1>3, NoJobTyped DEF Job, NoJob
<1>5. job' = [job EXCEPT ![j] = r]
  BY <1>2 DEF add, copy
<1>. HIDE DEF r
<1>6. Runs(j, r)
  BY <1>3, <1>4 DEF Runs, Listening
<1>7. PortStep(j, r)
  BY <1>2, <1>4 DEF PortStep, Listening
<1>8. PICK s : s = r
  OBVIOUS
<1>. QED BY <1>1, <1>4, <1>5, <1>6, <1>7, <1>8, GoesOnInv DEF Runs

LEMMA ConsentInv ==
  ASSUME Inv, NEW j \in Jobs, Consent(j)
  PROVE  Inv'
<1>1. /\ TypeOK /\ FilesInv /\ RegistryInv /\ owner[j] = None
      /\ \E a \in Accounts : owner' = [owner EXCEPT ![j] = a]
      /\ UNCHANGED <<registry, file, mu, call, job, port, count>>
  BY DEF Consent, broker, Inv
<1>2. Stays
  BY <1>1 DEF Stays, TypeOK, Grants
<1>3. TypeOK'
  BY <1>1 DEF TypeOK, Grants
<1>4. FilesInv'
  <2>1. ASSUME NEW p \in Profiles, file[p] # None, NEW a, a = file[p] PROVE Sound(p, a)'
    BY <1>1, <1>2, <2>1, SoundStays DEF FilesInv, TypeOK
  <2>. QED BY <1>1, <2>1 DEF FilesInv
<1>5. ASSUME NEW c \in Calls, NEW q, q = call[c] PROVE Serves(q)'
  BY <1>1, <1>2, <1>5, ServesStays DEF Inv, TypeOK
<1>6. ASSUME NEW k \in Jobs, NEW r, r = job[k] PROVE Runs(k, r)'
  BY <1>1, <1>2, <1>6, RunsStays DEF Inv, TypeOK
<1>. QED BY <1>1, <1>3, <1>4, <1>5, <1>6 DEF Inv, RegistryInv, Listed

LEMMA RedirectInv ==
  ASSUME Inv, NEW j \in Jobs, Redirect(j)
  PROVE  Inv'
<1>1. /\ TypeOK /\ port \in Jobs /\ job[port].pc = "wait"
      /\ UNCHANGED <<registry, file, owner, mu, call, port, count>>
  BY DEF Redirect, broker, Inv, TypeOK
<1>2. PICK k \in Jobs : k = port
  BY <1>1
<1>3. PICK r : r = [job[k] EXCEPT !.callback = IF k = j THEN "code" ELSE "error"]
  OBVIOUS
<1>4. /\ r \in Job /\ r.pc = "wait" /\ r.profile = job[k].profile /\ r.copy = job[k].copy
      /\ r.callback = "code" => k = j
  BY <1>1, <1>2, <1>3 DEF TypeOK, Job
<1>5. job' = [job EXCEPT ![k] = r]
  BY <1>1, <1>2, <1>3 DEF Redirect, TypeOK
<1>6. Runs(k, r)
  BY <1>1, <1>2, <1>4 DEF Runs, Inv, Listening, Redirect
<1>7. PortStep(k, r)
  BY <1>1, <1>4 DEF PortStep, Listening
<1>. QED BY <1>1, <1>4, <1>5, <1>6, <1>7, GoesOnInv

LEMMA TakeInv ==
  ASSUME Inv, NEW j \in Jobs, job[j].pc = "wait", NEW g \in Jobs, owner[g] # None,
         Take(j, g), UNCHANGED <<registry, file, owner, mu, call, port, count>>
  PROVE  Inv'
<1>1. TypeOK /\ Runs(j, job[j])
  BY DEF Inv
<1>2. PICK r : r = [job[j] EXCEPT !.pc = "exchange", !.code = g, !.callback = "empty"]
  OBVIOUS
<1>3. /\ r \in Job /\ r.pc = "exchange" /\ r.profile = job[j].profile
      /\ r.copy = job[j].copy /\ r.code = g
  <2>1. job[j] \in Job
    BY <1>1 DEF TypeOK
  <2>. QED BY <1>2, <2>1 DEF Job
<1>4. job' = [job EXCEPT ![j] = r]
  BY <1>1, <1>2 DEF Take, TypeOK
<1>5. Runs(j, r)
  BY <1>1, <1>3 DEF Runs, Listening
<1>6. PortStep(j, r)
  BY <1>3 DEF PortStep, Listening
<1>. QED BY <1>3, <1>4, <1>5, <1>6, GoesOnInv


LEMMA TakeCallbackInv ==
  ASSUME Inv, NEW j \in Jobs, TakeCallback(j)
  PROVE  Inv'
<1>1. /\ job[j].pc = "wait" /\ Runs(j, job[j])
      /\ UNCHANGED <<registry, file, owner, mu, call, count>>
  BY DEF TakeCallback, broker, Inv
<1>2. CASE job[j].callback = "code" /\ Take(j, j) /\ UNCHANGED port
  BY <1>1, <1>2, TakeInv DEF Runs
<1>3. CASE Exit(j)
  BY <1>1, <1>3, ExitInv
<1>. QED BY <1>2, <1>3 DEF TakeCallback

LEMMA PasteInv ==
  ASSUME Inv, NEW j \in Jobs, Paste(j)
  PROVE  Inv'
<1>1. /\ job[j].pc = "wait" /\ UNCHANGED <<registry, file, owner, mu, call, count>>
  BY DEF Paste, broker
<1>2. ASSUME NEW g \in Jobs, owner[g] # None, Take(j, g), UNCHANGED port
      PROVE  Inv'
  BY <1>1, <1>2, TakeInv
<1>3. CASE Exit(j)
  BY <1>1, <1>3, ExitInv
<1>. QED BY <1>2, <1>3 DEF Paste

LEMMA ExchangeInv ==
  ASSUME Inv, NEW j \in Jobs, Exchange(j)
  PROVE  Inv'
<1>1. /\ TypeOK /\ job[j].pc = "exchange" /\ Runs(j, job[j])
      /\ UNCHANGED <<registry, file, owner, mu, call>>
  BY DEF Exchange, broker, Inv
<1>2. CASE /\ job[j].code = j
           /\ job' = [job EXCEPT ![j].pc = "save", ![j].made = Complete(j, owner[j]),
                                 ![j].code = None]
           /\ UNCHANGED <<port, count>>
  <2>1. owner[j] \in Accounts
    BY <1>1, <1>2 DEF Runs, TypeOK, Grants
  <2>. DEFINE made == Complete(j, owner[j])
  <2>2. made \in Credential
    BY <2>1 DEF Complete, Credential, Grants
  <2>. HIDE DEF made
  <2>3. PICK r : r = [job[j] EXCEPT !.pc = "save", !.made = made, !.code = None]
    OBVIOUS
  <2>4. /\ r \in Job /\ r.pc = "save" /\ r.profile = job[j].profile
        /\ r.copy = job[j].copy /\ r.made = made
    <3>1. job[j] \in Job
      BY <1>1 DEF TypeOK
    <3>2. r \in Job
      BY <2>2, <2>3, <3>1 DEF Job
    <3>3. /\ r.pc = "save" /\ r.profile = job[j].profile
          /\ r.copy = job[j].copy /\ r.made = made
      BY <2>3, <3>1 DEF Job
    <3>. QED BY <3>2, <3>3
  <2>5. job' = [job EXCEPT ![j] = r]
    BY <1>1, <1>2, <2>3 DEF TypeOK, made
  <2>6. owner[j] # None
    BY <2>1, AuthAssumption
  <2>7. Runs(j, r)
    BY <1>1, <2>4, <2>6 DEF Runs, Listening, made
  <2>8. PortStep(j, r)
    BY <1>2, <2>4 DEF PortStep, Listening
  <2>. QED BY <1>1, <1>2, <2>4, <2>5, <2>7, <2>8, GoesOnInv
<1>3. CASE Exit(j) /\ (count' = count \/ Trouble)
  BY <1>1, <1>3, ExitInv
<1>. QED BY <1>2, <1>3 DEF Exchange

LEMMA RegisterInv ==
  ASSUME Inv, NEW j \in Jobs, Register(j)
  PROVE  Inv'
<1>. DEFINE p == job[j].profile
            old == job[j].copy
<1>1. /\ TypeOK /\ job[j].pc = "register" /\ Runs(j, job[j]) /\ job' = Over(j)
      /\ UNCHANGED <<file, owner, mu, call, port, count>>
      /\ registry' = [ids |-> old.ids \cup {p},
                      active |-> IF old.active = None THEN p ELSE old.active]
  BY DEF Register, broker, Inv
<1>2. /\ p \in Profiles /\ file[p] # None /\ Listed(old.ids) /\ old \in Registry
  BY <1>1 DEF Runs, TypeOK, Job
<1>3. registry' \in Registry /\ registry'.ids = old.ids \cup {p}
  BY <1>1, <1>2 DEF Registry
<1>4. Listed(registry'.ids)
  BY <1>2, <1>3 DEF Listed
<1>5. PICK r \in Job : /\ job' = [job EXCEPT ![j] = r] /\ Runs(j, r) /\ r.pc = "done"
                       /\ r.profile = p
  BY <1>1, OverRuns
<1>6. Runs(j, r)'
  BY <1>1, <1>5, RunsSame
<1>7. PortStep(j, r)
  BY <1>1, AuthAssumption DEF PortStep, TypeOK
<1>. QED BY <1>1, <1>3, <1>4, <1>5, <1>6, <1>7, JobInv DEF TypeOK

LEMMA StartUseInv ==
  ASSUME Inv, NEW j \in Jobs, StartUse(j)
  PROVE  Inv'
<1>1. /\ TypeOK /\ RegistryInv /\ job[j].pc = "idle" /\ Runs(j, job[j])
      /\ job' = [job EXCEPT ![j] = [NoJob EXCEPT !.pc = "use", !.copy = registry]]
      /\ UNCHANGED <<registry, file, owner, mu, call, port, count>>
  BY DEF StartUse, broker, Inv
<1>2. PICK r : r = [NoJob EXCEPT !.pc = "use", !.copy = registry]
  OBVIOUS
<1>3. r \in Job /\ r.pc = "use" /\ r.copy = registry
  BY <1>1, <1>2, NoJobTyped DEF Job, NoJob, TypeOK
<1>4. Runs(j, r)
  BY <1>1, <1>3 DEF Runs, Listening, RegistryInv
<1>5. PortStep(j, r)
  BY <1>1, AuthAssumption DEF PortStep, TypeOK
<1>. QED BY <1>1, <1>2, <1>3, <1>4, <1>5, GoesOnInv DEF Runs

LEMMA UseInv ==
  ASSUME Inv, NEW j \in Jobs, Use(j)
  PROVE  Inv'
<1>1. /\ TypeOK /\ job[j].pc = "use" /\ Runs(j, job[j]) /\ job' = Over(j)
      /\ UNCHANGED <<file, owner, mu, call, port, count>>
  BY DEF Use, broker, Inv
<1>2. PICK p \in job[j].copy.ids : registry' = [job[j].copy EXCEPT !.active = p]
  BY DEF Use
<1>3. job[j].copy \in Registry
  BY <1>1 DEF TypeOK, Job
<1>4. registry' \in Registry /\ registry'.ids = job[j].copy.ids
  BY <1>2, <1>3 DEF Registry
<1>5. Listed(registry'.ids)
  BY <1>1, <1>4 DEF Runs
<1>6. PICK r \in Job : /\ job' = [job EXCEPT ![j] = r] /\ Runs(j, r) /\ r.pc = "done"
                       /\ r.profile = job[j].profile
  BY <1>1, OverRuns
<1>7. Runs(j, r)'
  BY <1>1, <1>6, RunsSame
<1>8. PortStep(j, r)
  BY <1>1, AuthAssumption DEF PortStep, TypeOK
<1>. QED BY <1>1, <1>4, <1>5, <1>6, <1>7, <1>8, JobInv DEF TypeOK

LEMMA DieInv ==
  ASSUME Inv, NEW j \in Jobs, Die(j)
  PROVE  Inv'
BY ExitInv DEF Die, broker

-----------------------------------------------------------------------------
(* Files that change while requests are under way                          *)

\* A login saves its credential: what a refresh of the profile relied on is overtaken.
LEMMA SaveLoginInv ==
  ASSUME Inv, NEW j \in Jobs, SaveLogin(j)
  PROVE  Inv'
<1>. DEFINE p == job[j].profile
            made == job[j].made
<1>1. /\ TypeOK /\ FilesInv /\ RegistryInv /\ job[j].pc = "save" /\ Runs(j, job[j])
      /\ file' = [file EXCEPT ![p] = made]
      /\ call' = [c \in Calls |-> IF mu = c /\ call[c].want = p
                                    THEN [call[c] EXCEPT !.overtaken = TRUE] ELSE call[c]]
      /\ port' = IF port = j THEN None ELSE port
      /\ UNCHANGED <<registry, owner, mu, count>>
  BY DEF SaveLogin, Overtake, Inv
<1>2. /\ p \in Profiles /\ owner[j] \in Accounts /\ made = Complete(j, owner[j])
  BY <1>1 DEF Runs, Listening, TypeOK, Grants
<1>3. made \in Credential /\ made # None /\ Sound(p, made)
  <2>1. /\ made \in Credential /\ made.access = j /\ made.refresh = j
        /\ made.project = owner[j]
    BY <1>2 DEF Complete, Credential, Grants
  <2>. QED BY <1>2, <2>1, AuthAssumption DEF Sound, Whole, For
<1>4. PICK r : r = IF job[j].add THEN [job[j] EXCEPT !.pc = "register", !.made = None]
                   ELSE [NoJob EXCEPT !.pc = "done", !.profile = job[j].profile]
  OBVIOUS
<1>5. job' = [job EXCEPT ![j] = r]
  BY <1>1, <1>4 DEF SaveLogin, Over, TypeOK
<1>6. /\ r \in Job /\ r.pc \in {"register", "done"} /\ r.profile = p
      /\ r.copy \in {job[j].copy, NoRegistry}
  <2>1. job[j] \in Job
    BY <1>1 DEF TypeOK
  <2>2. CASE job[j].add
    BY <1>4, <2>1, <2>2 DEF Job
  <2>3. CASE ~job[j].add
    BY <1>2, <1>4, <2>3, NoJobTyped DEF Job, NoJob
  <2>. QED BY <2>2, <2>3
<1>7. /\ file' \in [Profiles -> Credential \cup {None}] /\ file'[p] = made
      /\ \A q \in Profiles : file[q] # None => file'[q] # None
      /\ \A q \in Profiles \ {p} : file'[q] = file[q]
  BY <1>1, <1>2, <1>3 DEF TypeOK
<1>8. PortStep(j, r)
  BY <1>1, AuthAssumption DEF PortStep, TypeOK
<1>9. /\ job' \in [Jobs -> Job] /\ job'[j] = r
      /\ \A k \in Jobs \ {j} : job'[k] = job[k]
      /\ port' \in Jobs \cup {None}
      /\ port' # None => job'[port'].pc \in Listening
  BY <1>1, <1>5, <1>6, <1>8, JobTypes
<1>10. Stays
  BY <1>1, <1>6, <1>9 DEF Stays
<1>11. ASSUME NEW c \in Calls
       PROVE  /\ call'[c] \in Call /\ call'[c].pc = call[c].pc
              /\ call'[c] = call[c]
                   \/ call'[c] = [call[c] EXCEPT !.overtaken = TRUE]
              /\ mu = c /\ call[c].want = p => call'[c].overtaken
              /\ call'[c].want = call[c].want
  <2>. DEFINE late == [call[c] EXCEPT !.overtaken = TRUE]
  <2>1. call[c] \in Call
    BY <1>1 DEF TypeOK
  <2>2. late \in Call /\ late.pc = call[c].pc /\ late.overtaken /\ late.want = call[c].want
    BY <2>1 DEF Call
  <2>3. call'[c] = IF mu = c /\ call[c].want = p THEN late ELSE call[c]
    BY <1>1
  <2>. HIDE DEF late
  <2>4. call'[c] \in Call /\ call'[c].pc = call[c].pc /\ call'[c].want = call[c].want
    BY <2>1, <2>2, <2>3
  <2>5. call'[c] = call[c] \/ call'[c] = late
    BY <2>3
  <2>6. mu = c /\ call[c].want = p => call'[c].overtaken
    BY <2>2, <2>3
  <2>. QED BY <2>4, <2>5, <2>6 DEF late
<1>12. TypeOK'
  <2>1. call' \in [Calls -> Call]
    BY <1>1, <1>11
  <2>. QED BY <1>1, <1>7, <1>9, <1>11, <2>1 DEF TypeOK, Listening
<1>13. FilesInv'
  <2>1. ASSUME NEW q \in Profiles, file'[q] # None, NEW a, a = file'[q] PROVE Sound(q, a)'
    BY <1>1, <1>3, <1>7, <1>10, <2>1, SoundStays DEF FilesInv, TypeOK
  <2>. QED BY <2>1 DEF FilesInv
<1>14. RegistryInv'
  BY <1>1, <1>7 DEF RegistryInv, Listed, TypeOK, Registry
<1>15. ASSUME NEW c \in Calls, NEW q, q = call'[c] PROVE Serves(q)'
  <2>1. q \in Call /\ Serves(call[c]) /\ call[c] \in Call
    BY <1>1, <1>11, <1>15 DEF Inv, TypeOK
  <2>2. Serves(q)
    <3>1. /\ q.pc = call[c].pc /\ q.want = call[c].want /\ q.current = call[c].current
          /\ q.fresh = call[c].fresh /\ q.out = call[c].out /\ q.force = call[c].force
          /\ q.overtaken \/ ~call[c].overtaken
      BY <1>11, <1>15, <2>1 DEF Call
    <3>. QED BY <2>1, <3>1 DEF Serves
  <2>3. ASSUME q.pc \in Inside, ~q.overtaken PROVE file'[q.want] = file[q.want]
    <3>1. mu = c
      BY <1>1, <1>11, <1>15, <2>3 DEF TypeOK, Inside
    <3>2. q.want \in Profiles /\ q.want = call[c].want
      BY <1>11, <1>15, <2>2, <2>3 DEF Serves
    <3>. QED BY <1>7, <1>11, <1>15, <2>3, <3>1, <3>2
  <2>. QED BY <1>7, <1>10, <2>1, <2>2, <2>3, ServesStays
<1>16. ASSUME NEW k \in Jobs, NEW s, s = job'[k] PROVE Runs(k, s)'
  <2>1. CASE k = j
    <3>1. Listed(r.copy.ids)
      BY <1>1, <1>6 DEF Listed, NoRegistry, Runs
    <3>2. r.copy.ids \subseteq Profiles
      BY <1>6 DEF Job, Registry
    <3>3. Listed(r.copy.ids)'
      BY <1>7, <3>1, <3>2 DEF Listed
    <3>. QED BY <1>2, <1>3, <1>6, <1>7, <1>9, <1>16, <2>1, <3>3 DEF Runs, Listening
  <2>2. CASE k # j
    BY <1>1, <1>7, <1>9, <1>10, <1>16, <2>2, RunsStays DEF Inv, TypeOK
  <2>. QED BY <2>1, <2>2
<1>. QED BY <1>12, <1>13, <1>14, <1>15, <1>16 DEF Inv

\* An access token comes to its end.
LEMMA ExpireInv ==
  ASSUME Inv, NEW p \in Profiles, Expire(p)
  PROVE  Inv'
<1>1. /\ TypeOK /\ FilesInv /\ file[p] \in Credential /\ file[p] # None
      /\ file' = [file EXCEPT ![p].expiring = TRUE]
      /\ UNCHANGED <<registry, owner, mu, call, job, port>>
      /\ count' \in [expiry : 0..MaxExpiries, trouble : 0..MaxTrouble]
  BY AuthAssumption DEF Expire, broker, Inv, TypeOK
<1>. DEFINE new == [file[p] EXCEPT !.expiring = TRUE]
<1>2. /\ new \in Credential /\ new.expiring /\ new.access = file[p].access
      /\ new.refresh = file[p].refresh /\ new.project = file[p].project
  BY <1>1 DEF Credential
<1>3. file' = [file EXCEPT ![p] = new]
  BY <1>1
<1>. HIDE DEF new
<1>4. /\ file' \in [Profiles -> Credential \cup {None}] /\ file'[p] = new
      /\ \A q \in Profiles : file[q] # None => file'[q] # None
      /\ \A q \in Profiles \ {p} : file'[q] = file[q]
  <2>1. new # None
    BY <1>2, AuthAssumption
  <2>. QED BY <1>1, <1>2, <1>3, <2>1 DEF TypeOK
<1>5. Stays
  BY <1>1 DEF Stays
<1>6. TypeOK'
  BY <1>1, <1>4 DEF TypeOK
<1>7. FilesInv'
  <2>1. ASSUME NEW q \in Profiles, file'[q] # None, NEW a, a = file'[q] PROVE Sound(q, a)'
    <3>1. Sound(q, a) /\ a \in Credential
      BY <1>1, <1>2, <1>4, <2>1 DEF FilesInv, Sound, Whole, TypeOK
    <3>. QED BY <1>5, <3>1, SoundStays
  <2>. QED BY <2>1 DEF FilesInv
<1>8. RegistryInv'
  BY <1>1, <1>4 DEF Inv, RegistryInv, Listed, TypeOK, Registry
<1>9. ASSUME NEW c \in Calls, NEW q, q = call[c] PROVE Serves(q)'
  <2>1. q \in Call /\ Serves(q)
    BY <1>1, <1>9 DEF Inv, TypeOK
  <2>2. q.pc \in Inside => q.want \in Profiles
    BY <2>1 DEF Serves
  <2>. QED BY <1>2, <1>4, <1>5, <2>1, <2>2, ServesStays
<1>10. ASSUME NEW k \in Jobs, NEW r, r = job[k] PROVE Runs(k, r)'
  BY <1>1, <1>4, <1>5, <1>10, RunsStays DEF Inv, TypeOK
<1>. QED BY <1>1, <1>6, <1>7, <1>8, <1>9, <1>10 DEF Inv

-----------------------------------------------------------------------------
(* The theorems                                                            *)

LEMMA InitInv == Init => Inv
<1>. SUFFICES ASSUME Init PROVE Inv
  OBVIOUS
<1>1. /\ registry \in Registry /\ registry.ids = Registered
  BY AuthAssumption DEF Init, Registry
<1>2. \A p \in Profiles : /\ p \in Registered => file[p] = Complete(p, Home)
                          /\ p \notin Registered => file[p] = None
  BY DEF Init
<1>3. ASSUME NEW p \in Registered, NEW c, c = Complete(p, Home)
      PROVE  c \in Credential /\ Sound(p, c)
  <2>1. c \in Credential /\ c.access = p /\ c.refresh = p /\ c.project = Home
    BY <1>3, AuthAssumption DEF Complete, Credential, Grants
  <2>. QED BY <2>1, AuthAssumption DEF Init, Sound, Whole, For, Grants
<1>4. FilesInv
  BY <1>2, <1>3 DEF FilesInv
<1>5. file \in [Profiles -> Credential \cup {None}]
  BY <1>3 DEF Init
<1>6. NoCall \in Call /\ NoCall.pc = "idle" /\ NoCall.out = {}
  BY DEF NoCall, Call
<1>7. NoJob \in Job /\ NoJob.pc = "idle" /\ NoJob.profile = None /\ NoJob.copy.ids = {}
  BY NoJobTyped DEF NoJob, NoRegistry
<1>8. TypeOK
  BY <1>1, <1>5, <1>6, <1>7, AuthAssumption DEF Init, TypeOK, Grants
<1>9. RegistryInv
  BY <1>1, <1>2, <1>3, AuthAssumption DEF RegistryInv, Listed
<1>10. \A c \in Calls : Serves(call[c])
  BY <1>6 DEF Init, Serves, Inside
<1>11. \A j \in Jobs : Runs(j, job[j])
  BY <1>7 DEF Init, Runs, Listed, Listening
<1>. QED BY <1>4, <1>8, <1>9, <1>10, <1>11 DEF Inv

LEMMA NextInv == Inv /\ [Next]_vars => Inv'
<1>. SUFFICES ASSUME Inv, [Next]_vars PROVE Inv'
  OBVIOUS
<1>1. CASE UNCHANGED vars
  BY <1>1 DEF vars, broker, Inv, TypeOK, FilesInv, RegistryInv, Listed, Serves, Runs, Sound,
              Whole, For
<1>2. ASSUME NEW c \in Calls, Ask(c) \/ Load(c) \/ Enter(c) \/ Refresh(c) \/ Save(c)
      PROVE  Inv'
  BY <1>2, AskInv, LoadInv, EnterInv, RefreshInv, SaveInv
<1>3. ASSUME NEW j \in Jobs,
             StartLogin(j) \/ Consent(j) \/ Redirect(j) \/ TakeCallback(j) \/ Paste(j)
      PROVE  Inv'
  BY <1>3, StartLoginInv, ConsentInv, RedirectInv, TakeCallbackInv, PasteInv
<1>4. ASSUME NEW j \in Jobs,
             \/ Exchange(j) \/ SaveLogin(j) \/ Register(j) \/ StartUse(j) \/ Use(j)
             \/ Die(j)
      PROVE  Inv'
  BY <1>4, ExchangeInv, SaveLoginInv, RegisterInv, StartUseInv, UseInv, DieInv
<1>5. ASSUME NEW p \in Profiles, Expire(p) PROVE Inv'
  BY <1>5, ExpireInv
<1>. QED BY <1>1, <1>2, <1>3, <1>4, <1>5 DEF Next

\* The invariant holds in every behaviour of the Google accounts.
THEOREM GoogleInvariant == Spec => []Inv
BY InitInv, NextInv, PTL DEF Spec

\* Every variable keeps its type, the mutex is with the request that refreshes, and the
\* callback port with a login that waits.
THEOREM TypeCorrect == Spec => []TypeOK
<1>1. Inv => TypeOK
  BY DEF Inv
<1>. QED BY <1>1, GoogleInvariant, PTL

\* A registered profile has a credential, and whatever is in a file or was handed out is
\* of one grant of the profile and has that grant's project (oauth.go:163-198).
THEOREM Snapshots == Spec => []OneSnapshot
<1>1. Inv => OneSnapshot
  BY DEF Inv, OneSnapshot, FilesInv, RegistryInv, Listed, Serves, Sound, Whole, For
<1>. QED BY <1>1, GoogleInvariant, PTL

\* Under the mutex only a credential at its end is refreshed, unless the refresh was
\* asked for or a login has overtaken it (broker.go:124-134).
THEOREM Refreshes == Spec => []RefreshedOnce
<1>1. Inv => RefreshedOnce
  BY DEF Inv, RefreshedOnce, Serves, Inside
<1>. QED BY <1>1, GoogleInvariant, PTL

\* A login's credential gives way to an older one only by a refresh that was under way
\* when the login saved it (broker.go:119-144, oauth.go:146-157).
THEOREM KeepsLogin == Spec => LoginKept
<1>1. ASSUME Inv, [Next]_vars, NEW p \in Profiles, NEW j \in Jobs,
             file[p] # None, file[p].refresh = j, file'[p].refresh # j
      PROVE  \/ \E k \in Jobs :
                  job[k].pc = "save" /\ job[k].profile = p /\ file'[p] = job[k].made
             \/ \E c \in Calls : mu = c /\ call[c].overtaken
  <2>1. TypeOK
    BY <1>1 DEF Inv
  <2>2. ASSUME NEW c \in Calls, Save(c), file' # file
        PROVE  mu = c /\ call[c].overtaken
    <3>1. /\ call[c].pc = "save" /\ Serves(call[c]) /\ mu = c
          /\ file' = [file EXCEPT ![call[c].want] = call[c].fresh]
      BY <1>1, <2>1, <2>2 DEF Save, Inv, TypeOK
    <3>2. call[c].want = p /\ file'[p] = call[c].fresh
      BY <1>1, <2>1, <3>1 DEF TypeOK
    <3>3. call[c].overtaken \in BOOLEAN
      BY <2>1 DEF TypeOK, Call
    <3>. QED BY <1>1, <3>1, <3>2, <3>3 DEF Serves, Inside
  <2>3. ASSUME NEW k \in Jobs, SaveLogin(k)
        PROVE  job[k].pc = "save" /\ job[k].profile = p /\ file'[p] = job[k].made
    BY <1>1, <2>1, <2>3 DEF SaveLogin, TypeOK
  <2>4. ASSUME NEW q \in Profiles, Expire(q) PROVE FALSE
    <3>1. file[p] \in Credential /\ file[q] \in Credential
      BY <1>1, <2>1, <2>4 DEF Expire, TypeOK
    <3>2. file'[p] = file[p] \/ file'[p] = [file[p] EXCEPT !.expiring = TRUE]
      BY <2>1, <2>4 DEF Expire, TypeOK
    <3>. QED BY <1>1, <3>1, <3>2 DEF Credential
  <2>5. \/ file' = file
        \/ \E c \in Calls : Save(c)
        \/ \E k \in Jobs : SaveLogin(k)
        \/ \E q \in Profiles : Expire(q)
    BY <1>1 DEF Next, Ask, Load, Enter, Refresh, StartLogin, Consent, Redirect, TakeCallback,
                Paste, Exchange, Register, StartUse, Use, Die, vars
  <2>. QED BY <1>1, <2>2, <2>3, <2>4, <2>5
<1>2. Inv /\ [Next]_vars =>
        [\A p \in Profiles, j \in Jobs :
           /\ file[p] # None /\ file[p].refresh = j
           /\ file'[p].refresh # j
           => \/ \E k \in Jobs :
                   job[k].pc = "save" /\ job[k].profile = p /\ file'[p] = job[k].made
              \/ \E c \in Calls : mu = c /\ call[c].overtaken]_vars
  BY <1>1
<1>. QED BY <1>2, GoogleInvariant, PTL DEF Spec, LoginKept

=============================================================================
