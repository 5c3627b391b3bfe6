--------------------------- MODULE AdminLoginProofs ---------------------------
(***************************************************************************)
(* Theorems about AdminLogin for any profiles, jobs, accounts and tokens,  *)
(* and any number of crashes, faults and refreshes.                        *)
(***************************************************************************)
EXTENDS AdminLogin, TLAPS, FiniteSetTheorems, SequenceTheorems

-----------------------------------------------------------------------------
(* The inductive invariant, part by part                                   *)

\* Where a login holds the profile's lock,
Holding == {"backup", "starting", "approving", "written", "validating", "finalizing",
            "registering", "restoring"}

\* before it has one,
Early == {"created", "lock", "backup"}

\* where its outcome is open and its backup the only way back,
Open == {"starting", "approving", "written", "validating", "finalizing", "registering",
         "verifying", "succeeding", "rolling", "restoring"}

\* where it has been kept and its backup is still there,
Kept == {"recording", "clearing"}

\* and where auth.json is the one it has brought.
Changed == {"written", "validating", "finalizing", "registering", "verifying",
            "succeeding", "rolling"}

\* The job j of st is a login of the profile p, or forgotten.
LoginOf(st, j, p) ==
  /\ st.job[j] # Unborn
  /\ st.job[j] # None => st.job[j].type = "login" /\ st.job[j].profile = p

Over(st, j) == State(st, j) \in {"succeeded", None}

\* What a goroutine relies on.
RunOf(j) ==
  LET r == run[j]
      p == r.profile
  IN /\ r.pc # "idle" => phase = "serving" /\ p \in Profiles
     /\ r.pc \notin {"idle", "checking"} =>
          /\ LoginOf(mem, j, p) /\ LoginOf(disk, j, p)
          /\ mem.job[j] # None => mem.job[j].new = r.new
     /\ r.pc = "checking" =>
          mem.job[j] # Unborn /\ (mem.job[j] # None => mem.job[j].type = "check")
     /\ r.pc \in {"registering", "verifying", "succeeding"} => State(mem, j) = "finalizing"
     /\ r.pc \in Early => State(mem, j) # "succeeded" /\ State(disk, j) # "succeeded"
     /\ r.pc \in Open \cup Kept => backup[p] # None /\ backup[p].job = j
     /\ r.pc \in Open => /\ backup[p].prev = r.prev
                         /\ State(mem, j) # "succeeded" /\ State(disk, j) # "succeeded"
     /\ r.pc \in Kept => Over(mem, j) /\ Over(disk, j) /\ p \in owned
     /\ r.pc \in Holding => lock[p] = j
     /\ r.pc = "rolling" => r.late
     /\ r.late => r.pc \in {"rolling", "restoring", "unlocking", "finishing"}

\* While the process does not serve, memory and file agree, and recovery sees no job
\* under way.
PhaseInv ==
  /\ phase # "serving" => mem = disk
  /\ phase \in {"recovering", "failing"} => \A j \in Jobs : State(mem, j) \notin Active

\* A backup is of a login of its profile; what the file has forgotten so has the
\* memory; and a login that has succeeded in memory only still has its backup.
BackupInv ==
  /\ \A p \in Profiles : backup[p] # None =>
       LET j == backup[p].job IN
       /\ LoginOf(mem, j, p) /\ LoginOf(disk, j, p)
       /\ run[j].pc # "idle" => run[j].profile = p
  /\ \A j \in Jobs : disk.job[j] = None => mem.job[j] = None
  /\ \A j \in Jobs :
       State(mem, j) = "succeeded" /\ State(disk, j) # "succeeded"
         /\ mem.job[j].type = "login"
         => /\ backup[mem.job[j].profile] # None
            /\ backup[mem.job[j].profile].job = j

RefreshInv ==
  \A p \in Profiles : lock[p] = "refresh" =>
    phase = "serving" /\ auth[p] # None /\ count.refresh # 0

\* The backup of p is no longer needed and will never be restored.
Spent(p) ==
  LET j == backup[p].job IN
  Over(mem, j) /\ Over(disk, j) /\ run[j].pc \notin Open

\* Two views of an auth file: the file itself, and the account it belongs to.
File == [a \in Auth \cup {None} |-> a]
AccountOf == [a \in Auth \cup {None} |-> IF a = None THEN None ELSE a.account]

\* In the view f, what ought to survive is in place, or in a backup that may still be
\* restored.
Recoverable(p, f) ==
  /\ backup[p] = None => f[auth[p]] = f[good[p]]
  /\ backup[p] # None => \/ f[backup[p].prev] = f[good[p]]
                         \/ Spent(p) /\ f[auth[p]] = f[good[p]]
  /\ backup[p] # None
     /\ (State(disk, backup[p].job) = "succeeded" \/ run[backup[p].job].pc \in Kept)
       => Spent(p) /\ f[auth[p]] = f[good[p]]

RecoverInv ==
  /\ count.fault = 0 \/ count.refresh = 0 => \A p \in Profiles : Recoverable(p, File)
  /\ \A p \in Profiles : Recoverable(p, AccountOf)

\* Without faults: a backup belongs to a login under way, or recovery will see to it,
\* or its job is forgotten;
Attended(p) ==
  backup[p] # None /\ (phase = "serving" \/ (phase = "recovering" /\ p \notin todo))
    => LET j == backup[p].job IN
       run[j].pc \in Open \cup Kept \/ ~Exists(mem, j)

\* and a registration that ought not to stay can be taken back.
Revocable(p) ==
  p \in reg \ owned =>
    /\ backup[p] # None
    /\ LET j == backup[p].job IN
       /\ State(mem, j) # "succeeded"
       /\ mem.job[j] # None => mem.job[j].new
       /\ run[j].pc \in Open =>
            run[j].new /\ (run[j].pc \in {"verifying", "succeeding"} \/ run[j].late)

OutcomeInv ==
  count.fault = 0 =>
    /\ mem = disk /\ phase # "failing"
    /\ phase = "serving" => todo = {}
    /\ \A j \in Jobs : run[j].pc \in Changed =>
         auth[run[j].profile] \notin {None, good[run[j].profile]}
    /\ \A p \in Profiles : Attended(p) /\ Revocable(p)

Inv == /\ TypeOK /\ PhaseInv /\ BackupInv /\ RefreshInv /\ RecoverInv /\ OutcomeInv
       /\ \A j \in Jobs : RunOf(j)

-----------------------------------------------------------------------------
(* The store                                                               *)

LEMMA StateOf ==
  ASSUME NEW st \in Store, NEW j \in Jobs
  PROVE  /\ State(st, j) = None <=> st.job[j] \in {None, Unborn}
         /\ State(st, j) # None => st.job[j] \in Job /\ State(st, j) = st.job[j].state
         /\ State(st, j) \in Active \cup Terminal \cup {None}
         /\ Exists(st, j) <=> st.job[j] \notin {None, Unborn}
<1>1. None \notin Active \cup Terminal
  BY LoginAssumption
<1>. QED BY <1>1 DEF State, Exists, Store, Job

\* Only jobs that are over are forgotten.
LEMMA PrunedStore ==
  ASSUME NEW st \in Store
  PROVE  /\ Pruned(st) \in Store
         /\ \A i \in Jobs : \/ Pruned(st).job[i] = st.job[i]
                            \/ State(st, i) \in Terminal /\ Pruned(st).job[i] = None
<1>. DEFINE extra == Len(st.ended) - MaxRetained
            gone == {j \in Jobs : /\ State(st, j) \in Terminal
                                  /\ \E i \in 1..extra : st.ended[i] = j}
            job == [j \in Jobs |-> IF j \in gone THEN None ELSE st.job[j]]
            ended == IF extra > 0 THEN SubSeq(st.ended, extra + 1, Len(st.ended))
                     ELSE st.ended
<1>1. st.ended \in Seq(Jobs) /\ st.job \in [Jobs -> Job \cup {Unborn, None}]
  BY DEF Store
<1>2. ended \in Seq(Jobs)
  <2>. SUFFICES ASSUME extra > 0
                PROVE  SubSeq(st.ended, extra + 1, Len(st.ended)) \in Seq(Jobs)
    BY <1>1
  <2>1. Len(st.ended) \in Nat /\ extra + 1 \in Int /\ extra + 1 >= 1
    BY <1>1, LoginAssumption
  <2>2. \A i \in (extra + 1)..Len(st.ended) : st.ended[i] \in Jobs
    BY <1>1, <2>1
  <2>. QED BY <2>1, <2>2, SubSeqProperties
<1>3. job \in [Jobs -> Job \cup {Unborn, None}]
  BY <1>1
<1>4. \A i \in Jobs : \/ job[i] = st.job[i]
                      \/ State(st, i) \in Terminal /\ job[i] = None
  OBVIOUS
<1>5. Pruned(st) = [job |-> job, ended |-> ended]
  BY DEF Pruned
<1>. HIDE DEF job, ended
<1>. QED BY <1>2, <1>3, <1>4, <1>5 DEF Store

LEMMA PutStore ==
  ASSUME NEW st \in Store, NEW j \in Jobs, State(st, j) # None,
         NEW state \in Active \cup Terminal
  PROVE  /\ Put(st, j, state) \in Store
         /\ \A i \in Jobs \ {j} : Put(st, j, state).job[i] = st.job[i]
         /\ Put(st, j, state).job[j] \in Job
         /\ Put(st, j, state).job[j].state = state
         /\ Put(st, j, state).job[j].type = st.job[j].type
         /\ Put(st, j, state).job[j].profile = st.job[j].profile
         /\ Put(st, j, state).job[j].new = st.job[j].new
<1>. DEFINE record == [st.job[j] EXCEPT !.state = state]
            job == [st.job EXCEPT ![j] = record]
            ended == IF state \in Terminal THEN Append(st.ended, j) ELSE st.ended
<1>1. st.job[j] \in Job
  BY StateOf
<1>2. /\ record \in Job /\ record.state = state /\ record.type = st.job[j].type
      /\ record.profile = st.job[j].profile /\ record.new = st.job[j].new
  BY <1>1 DEF Job
<1>. HIDE DEF record
<1>3. ended \in Seq(Jobs)
  BY DEF Store
<1>4. /\ job \in [Jobs -> Job \cup {Unborn, None}] /\ job[j] = record
      /\ \A i \in Jobs \ {j} : job[i] = st.job[i]
  BY <1>2 DEF Store
<1>5. Put(st, j, state) = [job |-> job, ended |-> ended]
  BY DEF Put, record
<1>. HIDE DEF job, ended
<1>. QED BY <1>2, <1>3, <1>4, <1>5 DEF Store

\* What an action of the job j makes of the memory: the job is born, or goes on.
Advance(st, j) ==
  /\ st \in Store
  /\ \A i \in Jobs \ {j} : st.job[i] = mem.job[i]
  /\ \/ st.job[j] = mem.job[j]
     \/ /\ mem.job[j] = Unborn /\ disk.job[j] = Unborn
        /\ st.job[j] \in Job /\ st.job[j].state \in Active
     \/ /\ State(mem, j) \in Active /\ st.job[j] \in Job
        /\ st.job[j].type = mem.job[j].type /\ st.job[j].profile = mem.job[j].profile
        /\ st.job[j].new = mem.job[j].new
        /\ st.job[j].state = "succeeded" /\ st.job[j].type = "login"
             => run[j].pc = "succeeding"

LEMMA PutAdvances ==
  ASSUME TypeOK, NEW j \in Jobs, State(mem, j) \in Active,
         NEW state \in Active \cup Terminal,
         state = "succeeded" /\ mem.job[j].type = "login" => run[j].pc = "succeeding"
  PROVE  Advance(Put(mem, j, state), j)
<1>1. State(mem, j) # None
  BY LoginAssumption
<1>. QED BY <1>1, PutStore DEF Advance, TypeOK

LEMMA SameAdvances ==
  ASSUME TypeOK, NEW j \in Jobs
  PROVE  Advance(mem, j)
BY DEF Advance, TypeOK


LEMMA StoreFacts ==
  ASSUME TypeOK, NEW j \in Jobs, NEW st, Advance(st, j), Saved(st) \/ Unsaved(st)
  PROVE  /\ mem' \in Store /\ disk' \in Store
         /\ count' \in [crash : 0..MaxCrashes, fault : 0..MaxFaults,
                        refresh : 0..MaxRefreshes]
         /\ good' \in [Profiles -> Auth \cup {None}]
         /\ owned' \subseteq Profiles /\ owned \subseteq owned'
         /\ \/ disk' = mem' /\ count' = count
            \/ /\ disk' = disk /\ good' = good
               /\ count'.fault # 0 /\ count'.refresh = count.refresh
         /\ \A i \in Jobs : \/ mem'.job[i] = st.job[i]
                            \/ State(st, i) \in Terminal /\ mem'.job[i] = None
<1>1. /\ Pruned(st) \in Store
      /\ \A i \in Jobs : \/ Pruned(st).job[i] = st.job[i]
                         \/ State(st, i) \in Terminal /\ Pruned(st).job[i] = None
  BY PrunedStore DEF Advance
<1>2. mem' = Pruned(st)
  BY DEF Saved, Unsaved
<1>3. CASE Saved(st)
  <2>1. /\ disk' = mem' /\ count' = count
        /\ good' = [p \in Profiles |-> IF p \in Confirmed(st) THEN auth[p] ELSE good[p]]
        /\ owned' = owned \cup Confirmed(st)
    BY <1>3 DEF Saved
  <2>2. Confirmed(st) \subseteq Profiles
    BY StateOf, LoginAssumption DEF Confirmed, Advance, Job, Terminal
  <2>. QED BY <1>1, <1>2, <2>1, <2>2 DEF TypeOK
<1>4. CASE Unsaved(st)
  <2>1. /\ disk' = disk /\ good' = good /\ owned' = owned
        /\ count.fault < MaxFaults /\ count' = [count EXCEPT !.fault = @ + 1]
    BY <1>4 DEF Unsaved, Fault, ghosts
  <2>2. /\ count' \in [crash : 0..MaxCrashes, fault : 0..MaxFaults,
                       refresh : 0..MaxRefreshes]
        /\ count'.fault # 0 /\ count'.refresh = count.refresh
    BY <2>1, LoginAssumption DEF TypeOK
  <2>. QED BY <1>1, <1>2, <2>1, <2>2 DEF TypeOK
<1>. QED BY <1>3, <1>4

\* A job other than the one that acts stays what it is or is forgotten once over.
LEMMA OthersStay ==
  ASSUME TypeOK, NEW j \in Jobs, NEW st, Advance(st, j), Saved(st) \/ Unsaved(st),
         NEW i \in Jobs, i # j \/ st.job[j] = mem.job[j]
  PROVE  /\ mem'.job[i] = mem.job[i] \/ (State(mem, i) \in Terminal /\ mem'.job[i] = None)
         /\ State(mem', i) = State(mem, i)
              \/ (State(mem, i) \in Terminal /\ State(mem', i) = None)
<1>1. st.job[i] = mem.job[i] /\ st \in Store /\ mem \in Store /\ mem' \in Store
  BY StoreFacts DEF Advance, TypeOK
<1>2. State(st, i) = State(mem, i)
  BY <1>1 DEF State, Exists
<1>3. mem'.job[i] = mem.job[i] \/ (State(mem, i) \in Terminal /\ mem'.job[i] = None)
  BY <1>1, <1>2, StoreFacts
<1>. QED BY <1>3 DEF State, Exists

\* Whose login a job is stays so, and so does that it is over.
LEMMA LoginsStay ==
  ASSUME TypeOK, NEW j \in Jobs, NEW st, Advance(st, j), Saved(st) \/ Unsaved(st),
         NEW i \in Jobs, NEW p, LoginOf(mem, i, p), LoginOf(disk, i, p)
  PROVE  /\ LoginOf(mem', i, p) /\ LoginOf(disk', i, p)
         /\ Over(mem, i) => Over(mem', i)
         /\ Over(mem, i) /\ Over(disk, i) => Over(disk', i)
         /\ mem'.job[i] # None => mem.job[i] # None /\ mem'.job[i].new = mem.job[i].new
<1>1. mem \in Store /\ st \in Store /\ mem' \in Store
  BY StoreFacts DEF Advance, TypeOK
<1>2. /\ mem'.job[i] = st.job[i] \/ mem'.job[i] = None
      /\ disk' = mem' \/ disk' = disk
  BY StoreFacts
<1>3. /\ LoginOf(st, i, p)
      /\ st.job[i] # None => mem.job[i] # None /\ st.job[i].new = mem.job[i].new
  <2>1. State(mem, i) \in Active => mem.job[i] # None
    BY <1>1, StateOf, LoginAssumption
  <2>. QED BY <1>1, <2>1, LoginAssumption DEF LoginOf, Advance
<1>4. Over(mem, i) => st.job[i] = mem.job[i]
  <2>1. Over(mem, i) => State(mem, i) \notin Active
    BY LoginAssumption DEF Over, Active
  <2>. QED BY <2>1 DEF Advance, LoginOf
<1>5. Over(mem, i) => Over(mem', i)
  BY <1>2, <1>4 DEF Over, State, Exists
<1>6. LoginOf(mem', i, p)
  BY <1>2, <1>3, LoginAssumption DEF LoginOf
<1>. QED BY <1>2, <1>3, <1>5, <1>6

\* The logins that a save makes known to have succeeded: those that have in memory,
\* or the one that just does.
LEMMA ConfirmedLogins ==
  ASSUME TypeOK, BackupInv, \A i \in Jobs : RunOf(i),
         NEW j \in Jobs, NEW st, Advance(st, j), NEW p \in Confirmed(st)
  PROVE  /\ p \in Profiles /\ backup[p] # None /\ backup[p].job \in Jobs
         /\ State(st, backup[p].job) = "succeeded"
         /\ State(disk, backup[p].job) # "succeeded"
<1>1. PICK i \in Jobs : /\ State(st, i) = "succeeded" /\ State(disk, i) # "succeeded"
                        /\ st.job[i].type = "login" /\ st.job[i].profile = p
  BY DEF Confirmed
<1>2. st.job[i] \in Job /\ st.job[i].state = "succeeded"
  BY <1>1, StateOf, LoginAssumption DEF Advance, Terminal
<1>3. p \in Profiles
  BY <1>1, <1>2 DEF Job
<1>4. CASE st.job[i] = mem.job[i]
  <2>1. State(mem, i) = "succeeded" /\ mem.job[i].type = "login" /\ mem.job[i].profile = p
    BY <1>1, <1>4 DEF State, Exists
  <2>. QED BY <1>1, <1>3, <2>1 DEF BackupInv
<1>5. CASE st.job[i] # mem.job[i]
  <2>1. i = j /\ run[j].pc = "succeeding" /\ mem.job[j].profile = p /\ mem.job[j] # None
    <3>1. i = j
      BY <1>5 DEF Advance
    <3>2. "succeeded" \notin Active
      BY DEF Active
    <3>3. State(mem, j) \in Active => mem.job[j] # None
      BY StateOf, LoginAssumption DEF TypeOK
    <3>. QED BY <1>1, <1>2, <1>5, <3>1, <3>2, <3>3 DEF Advance
  <2>2. run[j].profile = p
    BY <2>1 DEF RunOf, LoginOf
  <2>3. backup[p] # None /\ backup[p].job = j
    BY <2>1, <2>2 DEF RunOf, Open
  <2>. QED BY <1>1, <1>3, <2>1, <2>3
<1>. QED BY <1>4, <1>5


-----------------------------------------------------------------------------
(* Steps in the job store                                                  *)

\* How such a step moves the goroutine of its job, if at all.
StoreMove(j) ==
  \/ run' = run
  \/ /\ \A i \in Jobs \ {j} : run'[i] = run[i]
     /\ run'[j].pc \in Open => /\ run[j].pc \in {"starting", "finalizing"}
                               /\ run'[j].profile = run[j].profile
     /\ run'[j].pc \in Changed => run[j].pc = "finalizing"
     /\ run[j].pc \in Open \cup Kept /\ count'.fault = 0 =>
          run'[j].pc \in Open \cup Kept
     /\ run'[j].pc # "idle" => \/ run[j].pc # "idle" /\ run'[j].profile = run[j].profile
                               \/ mem.job[j] = Unborn

StoreStep(j, st) ==
  /\ phase = "serving" /\ UNCHANGED <<auth, backup, lock, reg, phase, todo>>
  /\ Advance(st, j) /\ (Saved(st) \/ Unsaved(st)) /\ StoreMove(j)
  /\ State(st, j) = "succeeded" => run'[j].pc \notin Open
  /\ run'[j].pc \in Kept =>
       \/ run[j].pc \in Kept
       \/ /\ run[j].pc # "idle" /\ Saved(st)
          /\ State(st, j) = "succeeded" /\ run[j].profile \in Confirmed(st)

\* A goroutine that does not move relies on what it relied on.
LEMMA RunStays ==
  ASSUME NEW i \in Jobs, RunOf(i), run'[i] = run[i], phase' = phase,
         UNCHANGED <<mem, disk>>, owned \subseteq owned',
         run[i].pc \in Open \cup Kept => backup'[run[i].profile] = backup[run[i].profile],
         run[i].pc \in Holding => lock'[run[i].profile] = lock[run[i].profile]
  PROVE  RunOf(i)'
BY DEF RunOf, LoginOf, State, Exists, Over

LEMMA StoreStepRuns ==
  ASSUME TypeOK, NEW j \in Jobs, NEW st, StoreStep(j, st),
         NEW i \in Jobs, i # j, RunOf(i)
  PROVE  RunOf(i)'
<1>. DEFINE r == run[i]
            p == r.profile
<1>1. /\ Advance(st, j) /\ (Saved(st) \/ Unsaved(st))
      /\ UNCHANGED <<backup, lock, phase>> /\ run'[i] = r
  BY DEF StoreStep, StoreMove
<1>2. /\ mem'.job[i] = mem.job[i] \/ (State(mem, i) \in Terminal /\ mem'.job[i] = None)
      /\ \/ State(mem', i) = State(mem, i)
         \/ State(mem, i) \in Terminal /\ State(mem', i) = None
      /\ disk' = disk \/ disk' = mem'
      /\ owned \subseteq owned'
  BY <1>1, OthersStay, StoreFacts
<1>3. r.pc \notin {"idle", "checking"} =>
        /\ LoginOf(mem', i, p) /\ LoginOf(disk', i, p)
        /\ mem'.job[i] # None => mem'.job[i].new = r.new
        /\ Over(mem, i) /\ Over(disk, i) => Over(mem', i) /\ Over(disk', i)
  BY <1>1, LoginsStay DEF RunOf
<1>4. State(mem, i) = "finalizing" => State(mem', i) = "finalizing"
  BY <1>2 DEF Terminal
<1>5. State(mem, i) # "succeeded" => State(mem', i) # "succeeded"
  BY <1>2, LoginAssumption DEF Terminal
<1>6. State(mem, i) # "succeeded" /\ State(disk, i) # "succeeded"
        => State(disk', i) # "succeeded"
  BY <1>2, <1>5
<1>7. r.pc = "checking" =>
        mem'.job[i] # Unborn /\ (mem'.job[i] # None => mem'.job[i].type = "check")
  BY <1>2, LoginAssumption DEF RunOf
<1>8. r.pc \in Open \cup Kept => r.pc \notin {"idle", "checking"}
  BY DEF Open, Kept
<1>. HIDE DEF r, p
<1>9. RunOf(i)' <=>
        /\ r.pc # "idle" => phase = "serving" /\ p \in Profiles
        /\ r.pc \notin {"idle", "checking"} =>
             /\ LoginOf(mem', i, p) /\ LoginOf(disk', i, p)
             /\ mem'.job[i] # None => mem'.job[i].new = r.new
        /\ r.pc = "checking" =>
             mem'.job[i] # Unborn /\ (mem'.job[i] # None => mem'.job[i].type = "check")
        /\ r.pc \in {"registering", "verifying", "succeeding"}
             => State(mem', i) = "finalizing"
        /\ r.pc \in Early => State(mem', i) # "succeeded" /\ State(disk', i) # "succeeded"
        /\ r.pc \in Open \cup Kept => backup[p] # None /\ backup[p].job = i
        /\ r.pc \in Open => /\ backup[p].prev = r.prev
                            /\ State(mem', i) # "succeeded" /\ State(disk', i) # "succeeded"
        /\ r.pc \in Kept => Over(mem', i) /\ Over(disk', i) /\ p \in owned'
        /\ r.pc \in Holding => lock[p] = i
        /\ r.pc = "rolling" => r.late
        /\ r.late => r.pc \in {"rolling", "restoring", "unlocking", "finishing"}
  BY <1>1 DEF RunOf, LoginOf, State, Exists, Over, r, p
<1>. QED BY <1>2, <1>3, <1>4, <1>5, <1>6, <1>7, <1>8, <1>9 DEF RunOf, r, p

LEMMA StoreStepBackups ==
  ASSUME TypeOK, BackupInv, \A i \in Jobs : RunOf(i),
         NEW j \in Jobs, NEW st, StoreStep(j, st)
  PROVE  BackupInv'
<1>1. /\ Advance(st, j) /\ (Saved(st) \/ Unsaved(st)) /\ backup' = backup
      /\ disk' = disk \/ disk' = mem'
  BY StoreFacts DEF StoreStep
<1>2. ASSUME NEW p \in Profiles, backup[p] # None
      PROVE  /\ LoginOf(mem', backup[p].job, p) /\ LoginOf(disk', backup[p].job, p)
             /\ run'[backup[p].job].pc # "idle" => run'[backup[p].job].profile = p
  <2>1. backup[p].job \in Jobs
    BY <1>2 DEF TypeOK, Backup
  <2>2. LoginOf(mem', backup[p].job, p) /\ LoginOf(disk', backup[p].job, p)
    BY <1>1, <1>2, <2>1, LoginsStay DEF BackupInv
  <2>3. run'[backup[p].job].pc # "idle" => run'[backup[p].job].profile = p
    BY <1>2, <2>1 DEF BackupInv, LoginOf, StoreStep, StoreMove
  <2>. QED BY <2>2, <2>3
<1>3. ASSUME NEW i \in Jobs, disk'.job[i] = None PROVE mem'.job[i] = None
  <2>1. CASE disk' = mem'
    BY <1>3, <2>1
  <2>2. CASE disk' = disk
    <3>1. mem.job[i] = None /\ disk.job[i] = None
      BY <1>3, <2>2 DEF BackupInv
    <3>2. st.job[i] = None
      BY <1>1, <3>1, StateOf, LoginAssumption DEF Advance, TypeOK
    <3>. QED BY <1>1, <3>2, StoreFacts
  <2>. QED BY <1>1, <2>1, <2>2
<1>4. ASSUME NEW i \in Jobs, State(mem', i) = "succeeded", State(disk', i) # "succeeded",
             mem'.job[i].type = "login"
      PROVE  backup[mem'.job[i].profile] # None /\ backup[mem'.job[i].profile].job = i
  <2>1. disk' = disk /\ mem'.job[i] = st.job[i] /\ State(st, i) = "succeeded"
    <3>1. mem'.job[i] # None
      BY <1>4, LoginAssumption DEF State, Exists, Terminal
    <3>2. disk' = disk /\ mem'.job[i] = st.job[i]
      BY <1>1, <1>4, <3>1, StoreFacts
    <3>. QED BY <1>4, <3>2 DEF State, Exists
  <2>2. CASE st.job[i] = mem.job[i]
    BY <1>4, <2>1, <2>2 DEF BackupInv, State, Exists
  <2>3. CASE st.job[i] # mem.job[i]
    <3>1. i = j /\ st.job[j] \in Job /\ st.job[j].state = "succeeded"
      BY <1>1, <2>1, <2>3, StateOf, LoginAssumption DEF Advance, Terminal
    <3>2. /\ State(mem, j) \in Active /\ run[j].pc = "succeeding"
          /\ st.job[j].profile = mem.job[j].profile
      BY <1>1, <1>4, <2>1, <2>3, <3>1 DEF Advance, Active
    <3>3. mem.job[j] # None
      BY <3>2, StateOf, LoginAssumption DEF TypeOK
    <3>4. mem.job[j].profile = run[j].profile
      BY <3>2, <3>3 DEF RunOf, LoginOf
    <3>. QED BY <2>1, <3>1, <3>2, <3>4 DEF RunOf, Open
  <2>. QED BY <2>2, <2>3
<1>. QED BY <1>1, <1>2, <1>3, <1>4 DEF BackupInv, LoginOf, State, Exists


LEMMA StoreStepRecovers ==
  ASSUME TypeOK, BackupInv, \A i \in Jobs : RunOf(i),
         NEW j \in Jobs, NEW st, StoreStep(j, st),
         NEW f, NEW p \in Profiles, Recoverable(p, f)
  PROVE  Recoverable(p, f)'
<1>. DEFINE b == backup[p].job
<1>1. /\ Advance(st, j) /\ (Saved(st) \/ Unsaved(st)) /\ backup' = backup /\ auth' = auth
      /\ StoreMove(j) /\ (State(st, j) = "succeeded" => run'[j].pc \notin Open)
  BY DEF StoreStep
<1>2. \/ /\ disk' = mem'
         /\ good'[p] = IF p \in Confirmed(st) THEN auth[p] ELSE good[p]
      \/ disk' = disk /\ good'[p] = good[p]
  BY <1>1, StoreFacts DEF Saved, Unsaved, ghosts
<1>3. CASE backup[p] = None
  <2>1. p \notin Confirmed(st)
    BY <1>1, <1>3, ConfirmedLogins
  <2>. QED BY <1>1, <1>2, <1>3, <2>1 DEF Recoverable
<1>4. CASE backup[p] # None
  <2>1. b \in Jobs /\ LoginOf(mem, b, p) /\ LoginOf(disk, b, p)
    BY <1>4 DEF TypeOK, Backup, BackupInv
  <2>2. LoginOf(mem', b, p)
        /\ (Over(mem, b) /\ Over(disk, b) => Over(mem', b) /\ Over(disk', b))
    BY <1>1, <2>1, LoginsStay
  <2>3. run[b].pc \notin Open => run'[b].pc \notin Open
    BY <1>1, <2>1 DEF StoreMove, Open
  <2>4. Spent(p) => Spent(p)'
    BY <1>1, <2>2, <2>3 DEF Spent, Over, State, Exists
  <2>5. ASSUME disk' = mem', State(st, b) = "succeeded"
        PROVE  Spent(p)'
    <3>1. Over(mem', b) /\ Over(disk', b)
      BY <1>1, <2>1, <2>5, StoreFacts DEF Over, State, Exists
    <3>2. run'[b].pc \notin Open
      <4>1. CASE b = j
        BY <1>1, <2>5, <4>1
      <4>2. CASE b # j
        <5>1. State(mem, b) = "succeeded"
          BY <1>1, <2>1, <2>5, <4>2 DEF Advance, State, Exists
        <5>. QED BY <2>1, <2>3, <5>1 DEF RunOf
      <4>. QED BY <4>1, <4>2
    <3>. QED BY <1>1, <3>1, <3>2 DEF Spent, Over, State, Exists
  <2>6. State(mem', b) = "succeeded" => State(st, b) = "succeeded" /\ LoginOf(st, b, p)
                                        /\ st.job[b] # None
    <3>1. mem'.job[b] = st.job[b] \/ mem'.job[b] = None
      BY <1>1, <2>1, StoreFacts
    <3>. QED BY <2>2, <3>1, LoginAssumption DEF LoginOf, State, Exists, Terminal
  <2>7. ASSUME State(disk', b) = "succeeded" \/ run'[b].pc \in Kept
        PROVE  Spent(p)' /\ f[auth[p]] = f[good'[p]]
    <3>1. CASE State(disk, b) = "succeeded" \/ run[b].pc \in Kept
      <4>1. Spent(p) /\ f[auth[p]] = f[good[p]]
        BY <1>4, <3>1 DEF Recoverable
      <4>. QED BY <1>2, <2>4, <4>1
    <3>2. CASE State(disk, b) # "succeeded" /\ run[b].pc \notin Kept
                 /\ run'[b].pc \in Kept
      <4>1. b = j /\ Saved(st) /\ State(st, b) = "succeeded" /\ p \in Confirmed(st)
        BY <1>1, <1>4, <2>1, <3>2 DEF StoreStep, StoreMove, BackupInv
      <4>2. disk' = mem' /\ good'[p] = auth[p]
        BY <4>1 DEF Saved
      <4>. QED BY <2>5, <4>1, <4>2
    <3>3. CASE State(disk, b) # "succeeded" /\ run[b].pc \notin Kept
                 /\ run'[b].pc \notin Kept
      <4>1. disk' = mem' /\ State(st, b) = "succeeded" /\ LoginOf(st, b, p)
            /\ st.job[b] # None
        BY <1>2, <2>6, <2>7, <3>3
      <4>2. p \in Confirmed(st)
        BY <2>1, <3>3, <4>1 DEF Confirmed, LoginOf
      <4>3. good'[p] = auth[p]
        BY <1>1, <3>3, <4>1, <4>2, <1>2, <2>7
      <4>. QED BY <2>5, <4>1, <4>3
    <3>. QED BY <3>1, <3>2, <3>3
  <2>8. f[backup[p].prev] = f[good'[p]] \/ (Spent(p)' /\ f[auth[p]] = f[good'[p]])
    <3>1. CASE disk' = mem' /\ p \in Confirmed(st) /\ good'[p] = auth[p]
      BY <1>1, <2>5, <3>1, ConfirmedLogins
    <3>2. CASE good'[p] = good[p]
      BY <1>4, <2>4, <3>2 DEF Recoverable
    <3>. QED BY <1>2, <3>1, <3>2
  <2>. QED BY <1>1, <1>4, <2>7, <2>8 DEF Recoverable, State, Exists
<1>. QED BY <1>3, <1>4

LEMMA StoreStepOutcome ==
  ASSUME TypeOK, BackupInv, \A i \in Jobs : RunOf(i), OutcomeInv,
         NEW j \in Jobs, NEW st, StoreStep(j, st)
  PROVE  OutcomeInv'
<1>1. /\ Advance(st, j) /\ (Saved(st) \/ Unsaved(st))
      /\ UNCHANGED <<auth, backup, reg, phase, todo>>
      /\ StoreMove(j) /\ (State(st, j) = "succeeded" => run'[j].pc \notin Open)
  BY DEF StoreStep
<1>. SUFFICES ASSUME count'.fault = 0 PROVE OutcomeInv'
  BY DEF OutcomeInv
<1>2. /\ disk' = mem' /\ count.fault = 0
      /\ good' = [p \in Profiles |-> IF p \in Confirmed(st) THEN auth[p] ELSE good[p]]
      /\ owned' = owned \cup Confirmed(st)
  <2>1. ~Unsaved(st)
    BY LoginAssumption DEF Unsaved, Fault, TypeOK
  <2>. QED BY <1>1, <2>1 DEF Saved
<1>3. /\ mem = disk /\ phase # "failing" /\ (phase = "serving" => todo = {})
      /\ \A i \in Jobs : run[i].pc \in Changed =>
           auth[run[i].profile] \notin {None, good[run[i].profile]}
      /\ \A p \in Profiles : Attended(p) /\ Revocable(p)
  BY <1>2 DEF OutcomeInv
<1>4. ASSUME NEW i \in Jobs, run'[i].pc \in Changed
      PROVE  auth[run'[i].profile] \notin {None, good'[run'[i].profile]}
  <2>. DEFINE p == run[i].profile
  <2>1. run[i].pc \in Changed /\ run'[i].profile = p /\ run'[i].pc \in Open
    BY <1>1, <1>4 DEF StoreMove, Changed, Open
  <2>2. /\ run[i].pc \in Open /\ run[i].pc # "idle"
        /\ State(mem, i) # "succeeded" /\ backup[p] # None
        /\ backup[p].job = i /\ p \in Profiles
    BY <2>1 DEF Changed, Open, RunOf
  <2>3. p \notin Confirmed(st)
    <3>1. SUFFICES ASSUME p \in Confirmed(st) PROVE FALSE
      OBVIOUS
    <3>2. State(st, i) = "succeeded"
      BY <1>1, <2>2, <3>1, ConfirmedLogins
    <3>. QED BY <1>1, <2>1, <2>2, <3>2 DEF Advance, State, Exists
  <2>. QED BY <1>2, <1>3, <2>1, <2>2, <2>3
<1>5. ASSUME NEW p \in Profiles PROVE Attended(p)'
  <2>. DEFINE b == backup[p].job
  <2>. SUFFICES ASSUME backup[p] # None,
                       phase = "serving" \/ (phase = "recovering" /\ p \notin todo)
                PROVE  run'[b].pc \in Open \cup Kept \/ ~Exists(mem', b)
    BY <1>1 DEF Attended, Exists
  <2>1. b \in Jobs /\ LoginOf(mem, b, p) /\ LoginOf(disk, b, p)
    BY DEF TypeOK, Backup, BackupInv
  <2>2. CASE run[b].pc \in Open \cup Kept
    BY <1>1, <2>1, <2>2 DEF StoreMove
  <2>3. CASE ~Exists(mem, b)
    <3>1. mem.job[b] = None
      BY <2>1, <2>3 DEF Exists, LoginOf
    <3>2. mem'.job[b] = None
      BY <1>1, <2>1, <3>1, LoginsStay
    <3>. QED BY <3>2 DEF Exists
  <2>. QED BY <1>3, <2>2, <2>3 DEF Attended
<1>6. ASSUME NEW p \in Profiles PROVE Revocable(p)'
  <2>. DEFINE b == backup[p].job
  <2>. SUFFICES ASSUME p \in reg \ owned'
                PROVE  /\ backup[p] # None /\ State(mem', b) # "succeeded"
                       /\ mem'.job[b] # None => mem'.job[b].new
                       /\ run'[b].pc \in Open =>
                            run'[b].new
                            /\ (run'[b].pc \in {"verifying", "succeeding"} \/ run'[b].late)
    BY <1>1 DEF Revocable, State, Exists
  <2>1. /\ p \in reg \ owned /\ p \notin Confirmed(st)
    BY <1>2
  <2>2. /\ backup[p] # None /\ State(mem, b) # "succeeded"
        /\ mem.job[b] # None => mem.job[b].new
        /\ run[b].pc \in Open =>
             run[b].new /\ (run[b].pc \in {"verifying", "succeeding"} \/ run[b].late)
    BY <1>3, <2>1 DEF Revocable
  <2>3. b \in Jobs /\ LoginOf(mem, b, p) /\ LoginOf(disk, b, p)
    BY <2>2 DEF TypeOK, Backup, BackupInv
  <2>4. /\ LoginOf(mem', b, p)
        /\ mem'.job[b] # None => mem.job[b] # None /\ mem'.job[b].new = mem.job[b].new
    BY <1>1, <2>3, LoginsStay
  <2>5. State(mem', b) # "succeeded"
    <3>1. SUFFICES ASSUME State(mem', b) = "succeeded" PROVE FALSE
      OBVIOUS
    <3>2. mem'.job[b] # None /\ mem'.job[b] = st.job[b]
      <4>1. mem'.job[b] # None
        BY <3>1, LoginAssumption DEF State, Exists, Terminal
      <4>. QED BY <1>1, <2>3, <4>1, StoreFacts
    <3>3. State(st, b) = "succeeded" /\ st.job[b].type = "login" /\ st.job[b].profile = p
      BY <2>4, <3>1, <3>2 DEF State, Exists, LoginOf
    <3>4. State(disk, b) # "succeeded"
      BY <1>3, <2>2
    <3>. QED BY <2>1, <2>3, <3>3, <3>4 DEF Confirmed
  <2>6. run'[b].pc \in Open => run'[b] = run[b]
    <3>1. SUFFICES ASSUME run'[b].pc \in Open, run'[b] # run[b] PROVE FALSE
      OBVIOUS
    <3>2. run[b].pc \in {"starting", "finalizing"}
      BY <1>1, <2>3, <3>1 DEF StoreMove
    <3>. QED BY <2>2, <2>3, <3>2 DEF RunOf, Open
  <2>. QED BY <2>2, <2>4, <2>5, <2>6
<1>. QED BY <1>1, <1>2, <1>3, <1>4, <1>5, <1>6 DEF OutcomeInv


LEMMA StoreStepInv ==
  ASSUME Inv, NEW j \in Jobs, NEW st, StoreStep(j, st),
         run' \in [Jobs -> Run],
         asked' \subseteq [kind : {"check", "login"}, profile : Profiles,
                           exists : BOOLEAN],
         RunOf(j)'
  PROVE  Inv'
<1>1. /\ Advance(st, j) /\ (Saved(st) \/ Unsaved(st)) /\ phase = "serving"
      /\ UNCHANGED <<auth, backup, lock, reg, phase, todo>>
  BY DEF StoreStep
<1>2. TypeOK /\ BackupInv /\ RecoverInv /\ OutcomeInv /\ \A i \in Jobs : RunOf(i)
  BY DEF Inv
<1>3. TypeOK'
  BY <1>1, <1>2, StoreFacts DEF TypeOK
<1>4. PhaseInv' /\ RefreshInv'
  BY <1>1, <1>2, StoreFacts DEF Inv, PhaseInv, RefreshInv
<1>5. BackupInv' /\ OutcomeInv'
  BY <1>2, StoreStepBackups, StoreStepOutcome
<1>6. RecoverInv'
  <2>1. count'.fault = 0 \/ count'.refresh = 0 => count.fault = 0 \/ count.refresh = 0
    BY <1>1, <1>2, StoreFacts
  <2>. QED BY <1>2, <2>1, StoreStepRecovers DEF RecoverInv
<1>7. \A i \in Jobs : RunOf(i)'
  BY <1>2, StoreStepRuns
<1>. QED BY <1>3, <1>4, <1>5, <1>6, <1>7 DEF Inv


\* The goroutine of the step's own job relies on what it should, where it goes to a
\* place at which it relies on no more than it did.
LEMMA StoreStepOwnRun ==
  ASSUME Inv, NEW j \in Jobs, NEW st, StoreStep(j, st),
         run[j].pc \notin {"idle", "checking"}, run'[j].pc \notin {"idle", "checking"},
         UNCHANGED <<run[j].profile, run[j].new, run[j].prev, run[j].late>>,
         run'[j].pc \in {"registering", "verifying", "succeeding"}
           => State(mem', j) = "finalizing",
         run'[j].pc \in Early => run[j].pc \in Early,
         run'[j].pc \in Open => run[j].pc \in Open,
         run'[j].pc \in Early \cup Open => State(mem', j) # "succeeded",
         run'[j].pc \in Kept =>
           \/ run[j].pc \in Kept
           \/ /\ run[j].pc \in Open /\ Over(mem', j) /\ Over(disk', j)
              /\ run[j].profile \in owned',
         run'[j].pc \in Holding => run[j].pc \in Holding,
         run'[j].pc = "rolling" => run[j].late,
         run[j].late => run'[j].pc \in {"rolling", "restoring", "unlocking", "finishing"}
  PROVE  RunOf(j)'
<1>. DEFINE r == run[j]
            p == r.profile
            pc == run'[j].pc
<1>1. /\ Advance(st, j) /\ (Saved(st) \/ Unsaved(st)) /\ phase = "serving"
      /\ UNCHANGED <<backup, lock, phase>> /\ TypeOK /\ RunOf(j)
  BY DEF StoreStep, Inv
<1>2. /\ LoginOf(mem', j, p) /\ LoginOf(disk', j, p)
      /\ mem'.job[j] # None => mem'.job[j].new = r.new
      /\ Over(mem, j) /\ Over(disk, j) => Over(mem', j) /\ Over(disk', j)
  BY <1>1, LoginsStay DEF RunOf
<1>3. pc \in Early \cup Open => State(disk', j) # "succeeded"
  BY <1>1, StoreFacts DEF RunOf
<1>4. owned \subseteq owned'
  BY <1>1, StoreFacts
<1>5. pc \in Open \cup Kept => backup[p] # None /\ backup[p].job = j
  BY <1>1 DEF RunOf
<1>6. pc \in Kept => Over(mem', j) /\ Over(disk', j) /\ p \in owned'
  BY <1>1, <1>2, <1>4 DEF RunOf
<1>7. pc \in Open => backup[p].prev = r.prev
  BY <1>1 DEF RunOf
<1>8. pc \in Holding => lock[p] = j
  BY <1>1 DEF RunOf
<1>9. p \in Profiles
  BY <1>1 DEF RunOf
<1>. HIDE DEF r, p, pc
<1>10. RunOf(j)' <=>
        /\ pc # "idle" => phase = "serving" /\ p \in Profiles
        /\ pc \notin {"idle", "checking"} =>
             /\ LoginOf(mem', j, p) /\ LoginOf(disk', j, p)
             /\ mem'.job[j] # None => mem'.job[j].new = r.new
        /\ pc = "checking" =>
             mem'.job[j] # Unborn /\ (mem'.job[j] # None => mem'.job[j].type = "check")
        /\ pc \in {"registering", "verifying", "succeeding"}
             => State(mem', j) = "finalizing"
        /\ pc \in Early => State(mem', j) # "succeeded" /\ State(disk', j) # "succeeded"
        /\ pc \in Open \cup Kept => backup[p] # None /\ backup[p].job = j
        /\ pc \in Open => /\ backup[p].prev = r.prev
                          /\ State(mem', j) # "succeeded" /\ State(disk', j) # "succeeded"
        /\ pc \in Kept => Over(mem', j) /\ Over(disk', j) /\ p \in owned'
        /\ pc \in Holding => lock[p] = j
        /\ pc = "rolling" => r.late
        /\ r.late => pc \in {"rolling", "restoring", "unlocking", "finishing"}
  BY <1>1 DEF RunOf, LoginOf, State, Exists, Over, r, p, pc
<1>. QED BY <1>1, <1>2, <1>3, <1>5, <1>6, <1>7, <1>8, <1>9, <1>10 DEF r, p, pc

LEMMA IdleRun ==
  ASSUME NEW j \in Jobs, run'[j] = NoRun
  PROVE  RunOf(j)'
BY DEF RunOf, NoRun, Open, Kept, Holding, Early

\* Where Goto leaves the goroutine.
LEMMA GotoRun ==
  ASSUME run \in [Jobs -> Run], NEW j \in Jobs, NEW pc \in Points, Goto(j, pc)
  PROVE  /\ run' \in [Jobs -> Run]
         /\ \A i \in Jobs \ {j} : run'[i] = run[i]
         /\ pc = "idle" => run'[j] = NoRun
         /\ pc # "idle" =>
              /\ run'[j].pc = pc
              /\ UNCHANGED <<run[j].profile, run[j].new, run[j].prev, run[j].old,
                             run[j].late>>
<1>. DEFINE moved == [run[j] EXCEPT !.pc = pc]
<1>1. NoRun \in Run
  BY DEF NoRun, Run, Points
<1>2. /\ moved \in Run /\ moved.pc = pc /\ moved.profile = run[j].profile
      /\ moved.new = run[j].new /\ moved.prev = run[j].prev /\ moved.old = run[j].old
      /\ moved.late = run[j].late
  BY DEF Run
<1>. HIDE DEF moved
<1>3. run' = [run EXCEPT ![j] = IF pc = "idle" THEN NoRun ELSE moved]
  BY DEF Goto, moved
<1>. QED BY <1>1, <1>2, <1>3

\* A step that only looks into the store, or only passes a request's checks.
LEMMA AskedInv ==
  ASSUME Inv, UNCHANGED <<store, run, files, process, count, ghosts>>,
         asked' \subseteq [kind : {"check", "login"}, profile : Profiles,
                           exists : BOOLEAN]
  PROVE  Inv'
<1>1. UNCHANGED <<mem, disk, run, auth, backup, lock, reg, phase, todo, count, good, owned>>
  BY DEF store, files, process, ghosts
<1>2. /\ TypeOK' /\ PhaseInv' /\ RefreshInv'
  BY <1>1 DEF Inv, TypeOK, PhaseInv, RefreshInv, State, Exists
<1>3. BackupInv'
  BY <1>1 DEF Inv, BackupInv, LoginOf, State, Exists
<1>4. RecoverInv'
  BY <1>1 DEF Inv, RecoverInv, Recoverable, Spent, Over, State, Exists
<1>5. OutcomeInv'
  BY <1>1 DEF Inv, OutcomeInv, Attended, Revocable, State, Exists
<1>6. \A j \in Jobs : RunOf(j)'
  BY <1>1 DEF Inv, RunOf, LoginOf, Over, State, Exists
<1>. QED BY <1>2, <1>3, <1>4, <1>5, <1>6 DEF Inv


-----------------------------------------------------------------------------
(* Steps in a profile's files                                              *)

\* The login j moves, and what it does to the files of its profile.
FileStep(j) ==
  LET p == run[j].profile IN
  /\ run[j].pc # "idle"
  /\ UNCHANGED <<mem, disk, good, owned, phase, todo>>
  /\ \/ count' = count
     \/ count'.fault # 0 /\ count'.refresh = count.refresh
  /\ \A i \in Jobs \ {j} : run'[i] = run[i]
  /\ run'[j].pc # "idle" => run'[j].profile = p
  /\ \A q \in Profiles \ {p} :
       UNCHANGED <<auth[q], backup[q], lock[q]>> /\ (q \in reg' <=> q \in reg)
  /\ backup'[p] # backup[p] =>
       \/ /\ backup[p] = None /\ backup'[p].job = j
          /\ run[j].pc \notin {"idle", "checking"}
       \/ run[j].pc \in Open \cup Kept /\ backup'[p] = None
  /\ auth'[p] # auth[p] => run[j].pc \in Open /\ lock[p] = j
  /\ lock'[p] # lock[p] => lock[p] \in {None, "orphan", j} /\ lock'[p] \in {None, j}

\* What it owes to its profile.
Paid(j) ==
  \A p \in Profiles : p = run[j].profile =>
    /\ \A f : Recoverable(p, f) => Recoverable(p, f)'
    /\ count'.fault = 0 =>
         /\ run'[j].pc \in Changed => auth'[p] \notin {None, good[p]}
         /\ Attended(p)' /\ Revocable(p)'

LEMMA FileStepRuns ==
  ASSUME Inv, NEW j \in Jobs, FileStep(j), RunOf(j)',
         NEW i \in Jobs
  PROVE  RunOf(i)'
<1>. SUFFICES ASSUME i # j PROVE RunOf(i)'
  OBVIOUS
<1>1. RunOf(i) /\ RunOf(j) /\ run'[i] = run[i]
  BY DEF Inv, FileStep
<1>2. run[i].pc \in Open \cup Kept => backup'[run[i].profile] = backup[run[i].profile]
  <2>1. SUFFICES ASSUME run[i].pc \in Open \cup Kept
                 PROVE  backup'[run[i].profile] = backup[run[i].profile]
    OBVIOUS
  <2>2. /\ run[i].profile \in Profiles /\ backup[run[i].profile] # None
        /\ backup[run[i].profile].job = i
    BY <1>1, <2>1 DEF RunOf, Open, Kept
  <2>3. CASE run[i].profile = run[j].profile
    BY <1>1, <2>2, <2>3 DEF FileStep, RunOf
  <2>. QED BY <2>2, <2>3 DEF FileStep
<1>3. run[i].pc \in Holding => lock'[run[i].profile] = lock[run[i].profile]
  <2>1. SUFFICES ASSUME run[i].pc \in Holding
                 PROVE  lock'[run[i].profile] = lock[run[i].profile]
    OBVIOUS
  <2>2. run[i].profile \in Profiles /\ lock[run[i].profile] = i
    BY <1>1, <2>1 DEF RunOf, Holding
  <2>3. i \notin {None, "orphan", j}
    BY LoginAssumption
  <2>4. CASE run[i].profile = run[j].profile
    BY <1>1, <2>2, <2>3, <2>4 DEF FileStep
  <2>. QED BY <2>2, <2>4 DEF FileStep
<1>. QED BY <1>1, <1>2, <1>3, RunStays DEF FileStep

LEMMA FileStepBackups ==
  ASSUME Inv, NEW j \in Jobs, FileStep(j)
  PROVE  BackupInv'
<1>. DEFINE p == run[j].profile
<1>1. /\ RunOf(j) /\ BackupInv /\ TypeOK /\ UNCHANGED <<mem, disk>>
      /\ run[j].pc # "idle" /\ p \in Profiles
  BY DEF Inv, FileStep, RunOf
<1>2. ASSUME NEW q \in Profiles, backup'[q] # None
      PROVE  LET b == backup'[q].job IN
             /\ LoginOf(mem, b, q) /\ LoginOf(disk, b, q)
             /\ run'[b].pc # "idle" => run'[b].profile = q
  <2>1. CASE backup'[q] = backup[q]
    <3>1. backup[q].job \in Jobs
      BY <1>1, <1>2, <2>1 DEF TypeOK, Backup
    <3>. QED BY <1>1, <1>2, <2>1, <3>1 DEF BackupInv, FileStep
  <2>2. CASE backup'[q] # backup[q]
    <3>1. q = p /\ backup'[p].job = j /\ run[j].pc \notin {"idle", "checking"}
      BY <1>1, <1>2, <2>2 DEF FileStep
    <3>. QED BY <1>1, <3>1 DEF RunOf, FileStep
  <2>. QED BY <2>1, <2>2
<1>3. ASSUME NEW i \in Jobs, State(mem, i) = "succeeded", State(disk, i) # "succeeded",
             mem.job[i].type = "login"
      PROVE  backup'[mem.job[i].profile] # None /\ backup'[mem.job[i].profile].job = i
  <2>. DEFINE q == mem.job[i].profile
  <2>1. backup[q] # None /\ backup[q].job = i
    BY <1>1, <1>3 DEF BackupInv
  <2>2. q \in Profiles
    BY <1>1, <1>3, StateOf, LoginAssumption DEF TypeOK, Job, Terminal
  <2>3. CASE backup'[q] = backup[q]
    BY <2>1, <2>3
  <2>4. CASE backup'[q] # backup[q]
    <3>1. q = p /\ run[j].pc \in Open \cup Kept
      BY <1>1, <2>1, <2>2, <2>4 DEF FileStep
    <3>2. i = j
      BY <1>1, <2>1, <3>1 DEF RunOf
    <3>3. run[j].pc \in Kept
      BY <1>1, <1>3, <3>1, <3>2 DEF RunOf
    <3>4. disk.job[j] = None
      <4>1. State(disk, j) = None /\ disk.job[j] # Unborn
        BY <1>1, <1>3, <3>2, <3>3 DEF RunOf, Over, LoginOf, Kept
      <4>. QED BY <1>1, <4>1, StateOf DEF TypeOK
    <3>5. mem.job[j] = None
      BY <1>1, <3>4 DEF BackupInv
    <3>. QED BY <1>3, <3>2, <3>5, LoginAssumption DEF State, Exists, Terminal
  <2>. QED BY <2>3, <2>4
<1>. QED BY <1>1, <1>2, <1>3 DEF BackupInv, LoginOf, State, Exists

LEMMA FileStepInv ==
  ASSUME Inv, NEW j \in Jobs, FileStep(j), TypeOK', RunOf(j)', Paid(j)
  PROVE  Inv'
<1>. DEFINE p == run[j].profile
<1>1. /\ TypeOK /\ BackupInv /\ RunOf(j) /\ UNCHANGED <<mem, disk, good, owned, phase, todo>>
      /\ run[j].pc # "idle" /\ p \in Profiles /\ phase = "serving"
  BY DEF Inv, FileStep, RunOf
<1>2. PhaseInv'
  BY <1>1 DEF PhaseInv
<1>3. \A i \in Jobs : RunOf(i)'
  BY FileStepRuns
<1>4. BackupInv'
  BY FileStepBackups
<1>5. RefreshInv'
  <2>1. SUFFICES ASSUME NEW q \in Profiles, lock'[q] = "refresh"
                 PROVE  auth'[q] # None /\ count'.refresh # 0
    BY <1>1 DEF RefreshInv
  <2>2. lock[q] = "refresh"
    BY <2>1, LoginAssumption DEF FileStep
  <2>3. auth[q] # None /\ count.refresh # 0
    BY <2>2 DEF Inv, RefreshInv
  <2>4. auth'[q] = auth[q]
    BY <2>2, LoginAssumption DEF FileStep
  <2>. QED BY <2>3, <2>4 DEF FileStep
<1>6. ASSUME NEW q \in Profiles \ {p}, backup[q] # None
      PROVE  backup[q].job \in Jobs /\ run'[backup[q].job] = run[backup[q].job]
  BY <1>1, <1>6 DEF TypeOK, Backup, BackupInv, FileStep
<1>7. ASSUME NEW q \in Profiles, NEW f, Recoverable(q, f) PROVE Recoverable(q, f)'
  <2>1. CASE q = p
    BY <1>1, <1>7, <2>1 DEF Paid
  <2>2. CASE q # p
    BY <1>1, <1>6, <1>7, <2>2 DEF Recoverable, Spent, Over, State, Exists, FileStep
  <2>. QED BY <2>1, <2>2
<1>8. RecoverInv'
  <2>1. count'.fault = 0 \/ count'.refresh = 0 => count.fault = 0 \/ count.refresh = 0
    BY DEF FileStep
  <2>. QED BY <1>7, <2>1 DEF Inv, RecoverInv
<1>9. OutcomeInv'
  <2>1. SUFFICES ASSUME count'.fault = 0 PROVE OutcomeInv'
    BY DEF OutcomeInv
  <2>2. /\ count.fault = 0 /\ mem = disk /\ todo = {}
        /\ \A i \in Jobs : run[i].pc \in Changed =>
             auth[run[i].profile] \notin {None, good[run[i].profile]}
        /\ \A q \in Profiles : Attended(q) /\ Revocable(q)
    BY <1>1, <2>1 DEF Inv, OutcomeInv, FileStep
  <2>3. ASSUME NEW i \in Jobs, run'[i].pc \in Changed
        PROVE  auth'[run'[i].profile] \notin {None, good[run'[i].profile]}
    <3>1. CASE i = j
      BY <1>1, <2>1, <2>3, <3>1 DEF Paid, FileStep, Changed
    <3>2. CASE i # j
      <4>1. run'[i] = run[i]
        BY <3>2 DEF FileStep
      <4>2. RunOf(i) /\ run[i].pc \in Open
        BY <2>3, <4>1 DEF Inv, Changed, Open
      <4>3. run[i].profile \in Profiles /\ backup[run[i].profile].job = i
        BY <4>2 DEF RunOf, Open
      <4>4. auth'[run[i].profile] = auth[run[i].profile]
        BY <1>1, <3>2, <4>3 DEF FileStep, RunOf
      <4>. QED BY <2>2, <2>3, <4>1, <4>4
    <3>. QED BY <3>1, <3>2
  <2>4. ASSUME NEW q \in Profiles PROVE Attended(q)' /\ Revocable(q)'
    <3>1. CASE q = p
      BY <1>1, <2>1, <3>1 DEF Paid
    <3>2. CASE q # p
      BY <1>1, <1>6, <2>2, <3>2 DEF Attended, Revocable, State, Exists, FileStep
    <3>. QED BY <3>1, <3>2
  <2>. QED BY <1>1, <2>2, <2>3, <2>4 DEF OutcomeInv
<1>. QED BY <1>2, <1>3, <1>4, <1>5, <1>8, <1>9 DEF Inv


\* A step of the login j that leaves its profile's auth file and backup alone, and
\* registers the profile at most.
QuietStep(j) ==
  LET p == run[j].profile IN
  /\ run[j].pc # "idle"
  /\ UNCHANGED <<mem, disk, good, owned, asked, auth, backup, phase, todo>>
  /\ run' \in [Jobs -> Run] /\ \A i \in Jobs \ {j} : run'[i] = run[i]
  /\ count' \in [crash : 0..MaxCrashes, fault : 0..MaxFaults, refresh : 0..MaxRefreshes]
  /\ count' = count \/ (count'.fault # 0 /\ count'.refresh = count.refresh)
  /\ lock' \in [Profiles -> Jobs \cup {None, "orphan", "refresh"}]
  /\ \A q \in Profiles \ {p} : lock'[q] = lock[q]
  /\ lock'[p] # lock[p] => lock[p] \in {None, "orphan", j} /\ lock'[p] \in {None, j}
  /\ \/ reg' = reg
     \/ /\ reg' = reg \cup {p} /\ run[j].new
        /\ run[j].pc = "registering" /\ run'[j].pc = "verifying"

\* Where the goroutine may go in it.
QuietMove(j) ==
  LET r == run[j]
      pc == run'[j].pc
  IN \/ run'[j] = NoRun
     \/ /\ r.pc # "checking" /\ pc \notin {"idle", "checking"}
        /\ UNCHANGED <<r.profile, r.new, r.prev>>
        /\ pc \in {"registering", "verifying", "succeeding"}
             => r.pc \in {"registering", "verifying", "succeeding"}
        /\ pc \in Early => r.pc \in Early
        /\ pc \in Open => r.pc \in Open
        /\ pc \in Changed => r.pc \in Changed
        /\ pc \in Kept => r.pc \in Kept
        /\ pc \in Holding => lock'[r.profile] = j
        /\ pc = "rolling" => r.late'
        /\ r.late' => pc \in {"rolling", "restoring", "unlocking", "finishing"}
        /\ pc \in Open /\ (r.pc \in {"verifying", "succeeding"} \/ r.late)
             => pc \in {"verifying", "succeeding"} \/ r.late'

LEMMA QuietInv ==
  ASSUME Inv, NEW j \in Jobs, QuietStep(j), QuietMove(j),
         run[j].pc \in Open \cup Kept /\ count'.fault = 0 => run'[j].pc \in Open \cup Kept
  PROVE  Inv'
<1>1. PICK p : p = run[j].profile
  OBVIOUS
<1>2. /\ TypeOK /\ BackupInv /\ RunOf(j) /\ run[j].pc # "idle" /\ p \in Profiles
      /\ phase = "serving"
      /\ UNCHANGED <<mem, disk, good, owned, asked, auth, backup, phase, todo>>
  BY <1>1 DEF Inv, QuietStep, RunOf
<1>3. run'[j].pc # "idle" => run'[j].profile = p /\ run'[j].new = run[j].new
  BY <1>1 DEF QuietMove, NoRun
<1>4. FileStep(j)
  BY <1>1, <1>2, <1>3 DEF FileStep, QuietStep
<1>5. TypeOK'
  <2>1. reg' \subseteq Profiles
    BY <1>1, <1>2 DEF TypeOK, QuietStep
  <2>. QED BY <1>2, <2>1 DEF TypeOK, QuietStep
<1>6. RunOf(j)'
  <2>1. CASE run'[j] = NoRun
    BY <2>1, IdleRun
  <2>2. CASE run'[j] # NoRun
    <3>. DEFINE s == run'[j]
    <3>1. /\ run[j].pc # "checking" /\ s.pc \notin {"idle", "checking"}
          /\ s.profile = p /\ s.new = run[j].new /\ s.prev = run[j].prev
          /\ s.pc \in {"registering", "verifying", "succeeding"}
               => run[j].pc \in {"registering", "verifying", "succeeding"}
          /\ s.pc \in Early => run[j].pc \in Early
          /\ s.pc \in Open => run[j].pc \in Open
          /\ s.pc \in Kept => run[j].pc \in Kept
          /\ s.pc \in Holding => lock'[p] = j
          /\ s.pc = "rolling" => s.late
          /\ s.late => s.pc \in {"rolling", "restoring", "unlocking", "finishing"}
      BY <1>1, <2>2 DEF QuietMove
    <3>. HIDE DEF s
    <3>2. RunOf(j)' <=>
            /\ s.pc # "idle" => phase = "serving" /\ s.profile \in Profiles
            /\ s.pc \notin {"idle", "checking"} =>
                 /\ LoginOf(mem, j, s.profile) /\ LoginOf(disk, j, s.profile)
                 /\ mem.job[j] # None => mem.job[j].new = s.new
            /\ s.pc = "checking" =>
                 mem.job[j] # Unborn /\ (mem.job[j] # None => mem.job[j].type = "check")
            /\ s.pc \in {"registering", "verifying", "succeeding"}
                 => State(mem, j) = "finalizing"
            /\ s.pc \in Early => State(mem, j) # "succeeded" /\ State(disk, j) # "succeeded"
            /\ s.pc \in Open \cup Kept =>
                 backup[s.profile] # None /\ backup[s.profile].job = j
            /\ s.pc \in Open =>
                 /\ backup[s.profile].prev = s.prev
                 /\ State(mem, j) # "succeeded" /\ State(disk, j) # "succeeded"
            /\ s.pc \in Kept => Over(mem, j) /\ Over(disk, j) /\ s.profile \in owned
            /\ s.pc \in Holding => lock'[s.profile] = j
            /\ s.pc = "rolling" => s.late
            /\ s.late => s.pc \in {"rolling", "restoring", "unlocking", "finishing"}
      BY <1>2 DEF RunOf, LoginOf, State, Exists, Over, s
    <3>. QED BY <1>1, <1>2, <3>1, <3>2 DEF RunOf
  <2>. QED BY <2>1, <2>2
<1>7. ASSUME NEW f, Recoverable(p, f) PROVE Recoverable(p, f)'
  <2>1. CASE backup[p] = None
    BY <1>2, <1>7, <2>1 DEF Recoverable
  <2>2. CASE backup[p] # None
    <3>1. backup[p].job \in Jobs
      BY <1>2, <2>2 DEF TypeOK, Backup
    <3>2. /\ run'[backup[p].job].pc \in Open => run[backup[p].job].pc \in Open
          /\ run'[backup[p].job].pc \in Kept => run[backup[p].job].pc \in Kept
      BY <3>1 DEF QuietStep, QuietMove, NoRun, Open, Kept
    <3>3. Spent(p) => Spent(p)'
      BY <1>2, <3>2 DEF Spent, Over, State, Exists
    <3>. QED BY <1>2, <1>7, <3>2, <3>3 DEF Recoverable, State, Exists
  <2>. QED BY <2>1, <2>2
<1>8. ASSUME count'.fault = 0
      PROVE  /\ run'[j].pc \in Changed => auth'[p] \notin {None, good[p]}
             /\ Attended(p)' /\ Revocable(p)'
  <2>1. /\ count' = count /\ mem = disk /\ todo = {}
        /\ run[j].pc \in Changed => auth[p] \notin {None, good[p]}
        /\ Attended(p) /\ Revocable(p)
    BY <1>1, <1>2, <1>8 DEF Inv, OutcomeInv, QuietStep
  <2>2. run'[j].pc \in Changed => auth'[p] \notin {None, good[p]}
    BY <1>2, <2>1 DEF QuietMove, NoRun, Changed
  <2>3. Attended(p)'
    <3>1. SUFFICES ASSUME backup[p] # None
                   PROVE  \/ run'[backup[p].job].pc \in Open \cup Kept
                          \/ ~Exists(mem, backup[p].job)
      BY <1>2 DEF Attended, Exists
    <3>2. backup[p].job \in Jobs
      BY <1>2, <3>1 DEF TypeOK, Backup
    <3>. QED BY <1>2, <1>8, <2>1, <3>1, <3>2 DEF Attended, QuietStep
  <2>4. Revocable(p)'
    <3>. DEFINE b == backup[p].job
    <3>1. SUFFICES ASSUME p \in reg' \ owned
                   PROVE  /\ backup[p] # None /\ State(mem, b) # "succeeded"
                          /\ mem.job[b] # None => mem.job[b].new
                          /\ run'[b].pc \in Open =>
                               run'[b].new /\ (run'[b].pc \in {"verifying", "succeeding"}
                                               \/ run'[b].late)
      BY <1>2 DEF Revocable, State, Exists
    <3>2. CASE p \in reg
      <4>1. /\ backup[p] # None /\ State(mem, b) # "succeeded"
            /\ mem.job[b] # None => mem.job[b].new
            /\ run[b].pc \in Open =>
                 run[b].new /\ (run[b].pc \in {"verifying", "succeeding"} \/ run[b].late)
        BY <2>1, <3>1, <3>2 DEF Revocable
      <4>2. b \in Jobs
        BY <1>2, <4>1 DEF TypeOK, Backup
      <4>3. CASE b = j
        BY <4>1, <4>3 DEF QuietMove, NoRun, Open
      <4>4. CASE b # j
        BY <4>1, <4>2, <4>4 DEF QuietStep
      <4>. QED BY <4>1, <4>3, <4>4
    <3>3. CASE p \notin reg
      <4>1. run[j].new /\ run[j].pc = "registering" /\ run'[j].pc = "verifying"
        BY <3>1, <3>3 DEF QuietStep
      <4>2. /\ backup[p] # None /\ b = j /\ State(mem, j) = "finalizing"
            /\ mem.job[j] # None => mem.job[j].new
        BY <1>1, <1>2, <4>1 DEF RunOf, Open
      <4>. QED BY <1>3, <4>1, <4>2
    <3>. QED BY <3>2, <3>3
  <2>. QED BY <2>2, <2>3, <2>4
<1>9. Paid(j)
  BY <1>1, <1>7, <1>8 DEF Paid
<1>. QED BY <1>4, <1>5, <1>6, <1>9, FileStepInv


\* A goroutine that goes on and leaves everything but its run alone.
LEMMA GoesOn ==
  ASSUME Inv, NEW j \in Jobs, NEW pc \in Points, Goto(j, pc), run[j].pc # "idle",
         Stored, UNCHANGED <<asked, files, process>>,
         \/ pc = "idle"
         \/ /\ run[j].pc # "checking" /\ pc \notin {"idle", "checking"}
            /\ pc \in {"registering", "verifying", "succeeding"} => run[j].pc = "verifying"
            /\ pc \in Early => run[j].pc \in Early
            /\ pc \in Open => run[j].pc \in Open
            /\ pc \in Changed => run[j].pc \in Changed
            /\ pc \notin Kept /\ pc # "rolling"
            /\ pc \in Holding => run[j].pc \in Holding
            /\ run[j].late => pc \in {"restoring", "unlocking", "finishing"}
            /\ pc \in Open /\ run[j].pc \in {"verifying", "succeeding"}
                 => pc \in {"verifying", "succeeding"},
         run[j].pc \in Open \cup Kept => pc \in Open \cup Kept
  PROVE  Inv'
<1>1. TypeOK /\ RunOf(j) /\ run \in [Jobs -> Run]
  BY DEF Inv, TypeOK
<1>2. /\ UNCHANGED <<mem, disk, good, owned, count, asked, auth, backup, lock, reg,
                     phase, todo>>
  BY DEF Stored, store, ghosts, files, process
<1>3. /\ run' \in [Jobs -> Run]
      /\ \A i \in Jobs \ {j} : run'[i] = run[i]
      /\ pc = "idle" => run'[j] = NoRun
      /\ pc # "idle" =>
           /\ run'[j].pc = pc
           /\ UNCHANGED <<run[j].profile, run[j].new, run[j].prev, run[j].late>>
  BY <1>1, GotoRun
<1>4. QuietStep(j)
  BY <1>1, <1>2, <1>3 DEF QuietStep, TypeOK
<1>5. run[j].pc \in Holding => lock[run[j].profile] = j
  BY <1>1 DEF RunOf
<1>6. QuietMove(j)
  <2>1. CASE pc = "idle"
    BY <1>3, <2>1 DEF QuietMove
  <2>2. CASE pc # "idle"
    BY <1>2, <1>3, <1>5, <2>2 DEF QuietMove
  <2>. QED BY <2>1, <2>2
<1>7. run[j].pc \in Open \cup Kept => run'[j].pc \in Open \cup Kept
  BY <1>3 DEF Open, Kept
<1>. QED BY <1>4, <1>6, <1>7, QuietInv

LEMMA GoesOnInv ==
  ASSUME Inv, NEW j \in Jobs,
         Launch(j) \/ GiveUpLock(j) \/ LoginCompletes(j) \/ LoginFails(j) \/ Validate(j)
  PROVE  Inv'
<1>. USE DEF Is, Points, Open, Changed, Kept, Holding, Early
<1>1. RunOf(j)
  BY DEF Inv
<1>2. CASE Launch(j)
  BY <1>1, <1>2, GoesOn DEF Launch, RunOf
<1>3. CASE GiveUpLock(j)
  BY <1>1, <1>3, GoesOn DEF GiveUpLock, RunOf
<1>4. CASE LoginCompletes(j)
  BY <1>1, <1>4, GoesOn DEF LoginCompletes, RunOf
<1>5. CASE LoginFails(j)
  BY <1>1, <1>5, GoesOn DEF LoginFails, RunOf
<1>6. CASE Validate(j)
  <2>1. CASE Valid(j)
    BY <1>1, <1>6, <2>1, GoesOn DEF Validate, RunOf
  <2>2. CASE ~Valid(j)
    BY <1>1, <1>6, <2>2, GoesOn DEF Validate, RunOf
  <2>. QED BY <2>1, <2>2
<1>. QED BY <1>2, <1>3, <1>4, <1>5, <1>6

LEMMA VerifyInv ==
  ASSUME Inv, NEW j \in Jobs, Verify(j)
  PROVE  Inv'
<1>1. TypeOK /\ RunOf(j) /\ run \in [Jobs -> Run] /\ run[j].pc = "verifying"
  BY DEF Inv, TypeOK, Verify, Is
<1>2. CASE Goto(j, "succeeding")
  BY <1>1, <1>2, GoesOn DEF Verify, Points, Open, Changed, Kept, Holding, Early, RunOf
<1>3. CASE run' = [run EXCEPT ![j].pc = "rolling", ![j].late = TRUE]
  <2>. DEFINE moved == [run[j] EXCEPT !.pc = "rolling", !.late = TRUE]
  <2>1. /\ moved \in Run /\ moved.pc = "rolling" /\ moved.late
        /\ UNCHANGED <<run[j].profile, run[j].new, run[j].prev>>
        /\ run' = [run EXCEPT ![j] = moved]
    BY <1>1, <1>3 DEF Run, Points
  <2>. HIDE DEF moved
  <2>2. /\ run' \in [Jobs -> Run] /\ run'[j] = moved
        /\ \A i \in Jobs \ {j} : run'[i] = run[i]
    BY <1>1, <2>1
  <2>3. UNCHANGED <<mem, disk, good, owned, count, asked, auth, backup, lock, reg,
                    phase, todo>>
    BY DEF Verify, Stored, store, ghosts, files, process
  <2>4. QuietStep(j)
    BY <1>1, <2>2, <2>3 DEF QuietStep, TypeOK
  <2>5. QuietMove(j)
    BY <1>1, <2>1, <2>2 DEF QuietMove, Open, Changed, Kept, Holding, Early
  <2>6. run'[j].pc \in Open
    BY <2>1, <2>2 DEF Open
  <2>. QED BY <2>4, <2>5, <2>6, QuietInv
<1>. QED BY <1>2, <1>3 DEF Verify


\* A fault is counted.
LEMMA Faulty ==
  ASSUME TypeOK, Fault
  PROVE  /\ count' \in [crash : 0..MaxCrashes, fault : 0..MaxFaults,
                        refresh : 0..MaxRefreshes]
         /\ count'.fault # 0 /\ count'.refresh = count.refresh
BY LoginAssumption DEF TypeOK, Fault

LEMMA TakeLockInv ==
  ASSUME Inv, NEW j \in Jobs, TakeLock(j)
  PROVE  Inv'
<1>. DEFINE p == run[j].profile
<1>1. TypeOK /\ RunOf(j) /\ run \in [Jobs -> Run] /\ run[j].pc = "lock" /\ p \in Profiles
  BY DEF Inv, TypeOK, TakeLock, Is, RunOf
<1>2. /\ UNCHANGED <<mem, disk, good, owned, count, asked, auth, backup, reg, phase, todo>>
      /\ lock' = [lock EXCEPT ![p] = j] /\ lock[p] \in {None, "orphan"}
      /\ Goto(j, "backup")
  BY DEF TakeLock, Takeable, Stored, store, ghosts, process
<1>3. /\ run' \in [Jobs -> Run] /\ run'[j].pc = "backup"
      /\ \A i \in Jobs \ {j} : run'[i] = run[i]
      /\ UNCHANGED <<run[j].profile, run[j].new, run[j].prev, run[j].late>>
  BY <1>1, <1>2, GotoRun DEF Points
<1>4. /\ lock' \in [Profiles -> Jobs \cup {None, "orphan", "refresh"}] /\ lock'[p] = j
      /\ \A q \in Profiles \ {p} : lock'[q] = lock[q]
  BY <1>1, <1>2 DEF TypeOK
<1>5. QuietStep(j)
  BY <1>1, <1>2, <1>3, <1>4 DEF QuietStep, TypeOK
<1>6. QuietMove(j)
  BY <1>1, <1>3, <1>4 DEF QuietMove, RunOf, Open, Changed, Kept, Holding, Early
<1>. QED BY <1>1, <1>5, <1>6, QuietInv DEF Open, Kept

LEMMA UnlockInv ==
  ASSUME Inv, NEW j \in Jobs, Unlock(j)
  PROVE  Inv'
<1>. DEFINE p == run[j].profile
            pc == IF run[j].late THEN "finishing" ELSE "idle"
<1>1. TypeOK /\ RunOf(j) /\ run \in [Jobs -> Run] /\ run[j].pc = "unlocking" /\ p \in Profiles
  BY DEF Inv, TypeOK, Unlock, Is, RunOf
<1>2. /\ UNCHANGED <<mem, disk, good, owned, count, asked, auth, backup, reg, phase, todo>>
      /\ lock' = [lock EXCEPT ![p] = IF @ = j THEN None ELSE @] /\ Goto(j, pc)
  BY DEF Unlock, Stored, store, ghosts, process
<1>3. /\ run' \in [Jobs -> Run] /\ \A i \in Jobs \ {j} : run'[i] = run[i]
      /\ run[j].late =>
           /\ run'[j].pc = "finishing"
           /\ UNCHANGED <<run[j].profile, run[j].new, run[j].prev, run[j].late>>
      /\ ~run[j].late => run'[j] = NoRun
  BY <1>1, <1>2, GotoRun DEF Points
<1>4. /\ lock' \in [Profiles -> Jobs \cup {None, "orphan", "refresh"}]
      /\ lock'[p] # lock[p] => lock[p] = j /\ lock'[p] = None
      /\ \A q \in Profiles \ {p} : lock'[q] = lock[q]
  BY <1>1, <1>2 DEF TypeOK
<1>5. QuietStep(j)
  BY <1>1, <1>2, <1>3, <1>4 DEF QuietStep, TypeOK
<1>6. QuietMove(j)
  BY <1>1, <1>3, <1>4 DEF QuietMove, Open, Changed, Kept, Holding, Early
<1>. QED BY <1>1, <1>5, <1>6, QuietInv DEF Open, Kept

LEMMA RegisterInv ==
  ASSUME Inv, NEW j \in Jobs, Register(j)
  PROVE  Inv'
<1>. DEFINE p == run[j].profile
<1>1. /\ TypeOK /\ RunOf(j) /\ run \in [Jobs -> Run] /\ run[j].pc = "registering"
      /\ p \in Profiles /\ lock[p] = j /\ ~run[j].late
  BY DEF Inv, TypeOK, Register, Is, RunOf, Holding
<1>2. UNCHANGED <<mem, disk, good, owned, asked, auth, backup, phase, todo>>
  BY DEF Register, store, ghosts, process
<1>3. CASE /\ reg' = IF run[j].new THEN reg \cup {p} ELSE reg
           /\ lock' = [lock EXCEPT ![p] = None]
           /\ Goto(j, "verifying") /\ UNCHANGED count
  <2>1. /\ run' \in [Jobs -> Run] /\ run'[j].pc = "verifying"
        /\ \A i \in Jobs \ {j} : run'[i] = run[i]
        /\ UNCHANGED <<run[j].profile, run[j].new, run[j].prev, run[j].late>>
    BY <1>1, <1>3, GotoRun DEF Points
  <2>2. /\ lock' \in [Profiles -> Jobs \cup {None, "orphan", "refresh"}]
        /\ lock'[p] = None
        /\ \A q \in Profiles \ {p} : lock'[q] = lock[q]
    BY <1>1, <1>3 DEF TypeOK
  <2>3. QuietStep(j)
    BY <1>1, <1>2, <1>3, <2>1, <2>2 DEF QuietStep, TypeOK
  <2>4. QuietMove(j)
    BY <1>1, <2>1, <2>2 DEF QuietMove, Open, Changed, Kept, Holding, Early
  <2>. QED BY <2>1, <2>3, <2>4, QuietInv DEF Open
<1>4. CASE Fault /\ Goto(j, "restoring") /\ UNCHANGED <<lock, reg>>
  <2>1. /\ run' \in [Jobs -> Run] /\ run'[j].pc = "restoring"
        /\ \A i \in Jobs \ {j} : run'[i] = run[i]
        /\ UNCHANGED <<run[j].profile, run[j].new, run[j].prev, run[j].late>>
    BY <1>1, <1>4, GotoRun DEF Points
  <2>2. QuietStep(j)
    BY <1>1, <1>2, <1>4, <2>1, Faulty DEF QuietStep, TypeOK
  <2>3. QuietMove(j)
    BY <1>1, <1>4, <2>1 DEF QuietMove, Open, Changed, Kept, Holding, Early
  <2>. QED BY <2>1, <2>2, <2>3, QuietInv DEF Open
<1>. QED BY <1>3, <1>4 DEF Register

LEMMA RelockInv ==
  ASSUME Inv, NEW j \in Jobs, Relock(j)
  PROVE  Inv'
<1>. DEFINE p == run[j].profile
<1>1. /\ TypeOK /\ RunOf(j) /\ run \in [Jobs -> Run] /\ run[j].pc = "rolling"
      /\ p \in Profiles /\ run[j].late
  BY DEF Inv, TypeOK, Relock, Is, RunOf
<1>2. UNCHANGED <<mem, disk, good, owned, asked, auth, backup, reg, phase, todo>>
  BY DEF Relock, store, ghosts, process
<1>3. CASE Takeable(p) /\ lock' = [lock EXCEPT ![p] = j] /\ Goto(j, "restoring")
           /\ UNCHANGED count
  <2>1. /\ run' \in [Jobs -> Run] /\ run'[j].pc = "restoring"
        /\ \A i \in Jobs \ {j} : run'[i] = run[i]
        /\ UNCHANGED <<run[j].profile, run[j].new, run[j].prev, run[j].late>>
    BY <1>1, <1>3, GotoRun DEF Points
  <2>2. /\ lock' \in [Profiles -> Jobs \cup {None, "orphan", "refresh"}]
        /\ lock'[p] = j /\ lock[p] \in {None, "orphan"}
        /\ \A q \in Profiles \ {p} : lock'[q] = lock[q]
    BY <1>1, <1>3 DEF TypeOK, Takeable
  <2>3. QuietStep(j)
    BY <1>1, <1>2, <1>3, <2>1, <2>2 DEF QuietStep, TypeOK
  <2>4. QuietMove(j)
    BY <1>1, <2>1, <2>2 DEF QuietMove, Open, Changed, Kept, Holding, Early
  <2>. QED BY <2>1, <2>3, <2>4, QuietInv DEF Open
<1>4. CASE Fault /\ Goto(j, "finishing") /\ UNCHANGED lock
  <2>1. /\ run' \in [Jobs -> Run] /\ run'[j].pc = "finishing"
        /\ \A i \in Jobs \ {j} : run'[i] = run[i]
        /\ UNCHANGED <<run[j].profile, run[j].new, run[j].prev, run[j].late>>
    BY <1>1, <1>4, GotoRun DEF Points
  <2>2. QuietStep(j)
    BY <1>1, <1>2, <1>4, <2>1, Faulty DEF QuietStep, TypeOK
  <2>3. QuietMove(j)
    BY <1>1, <2>1 DEF QuietMove, Open, Changed, Kept, Holding, Early
  <2>. QED BY <1>1, <1>4, <2>2, <2>3, Faulty, QuietInv
<1>. QED BY <1>3, <1>4 DEF Relock


-----------------------------------------------------------------------------
(* The actions on the job store                                            *)

LEMMA PutFacts ==
  ASSUME TypeOK, NEW j \in Jobs, State(mem, j) \in Active,
         NEW state \in Active \cup Terminal
  PROVE  LET st == Put(mem, j, state) IN
         /\ State(st, j) = state
         /\ mem.job[j] \notin {None, Unborn} /\ st.job[j] \notin {None, Unborn}
         /\ st.job[j].type = mem.job[j].type /\ st.job[j].profile = mem.job[j].profile
         /\ st.job[j].new = mem.job[j].new
<1>1. mem \in Store /\ State(mem, j) # None
  BY LoginAssumption DEF TypeOK
<1>2. mem.job[j] \notin {None, Unborn}
  BY <1>1, StateOf
<1>. DEFINE st == Put(mem, j, state)
<1>3. /\ st.job[j] \in Job /\ st.job[j].state = state
      /\ st.job[j].type = mem.job[j].type /\ st.job[j].profile = mem.job[j].profile
      /\ st.job[j].new = mem.job[j].new
  BY <1>1, PutStore
<1>. HIDE DEF st
<1>4. st.job[j] \notin {None, Unborn}
  BY <1>3, LoginAssumption
<1>. QED BY <1>2, <1>3, <1>4 DEF State, Exists, st

LEMMA CancelInv ==
  ASSUME Inv, NEW j \in Jobs, CancelJob(j)
  PROVE  Inv'
<1>. DEFINE st == Put(mem, j, "canceled")
<1>1. /\ TypeOK /\ RunOf(j) /\ State(mem, j) \in {"checking", "logging_in"}
      /\ phase = "serving" /\ (Saved(st) \/ Unsaved(st))
      /\ UNCHANGED <<run, asked, auth, backup, lock, reg, phase, todo>>
  BY DEF Inv, CancelJob, Cancelable, Save, files, process
<1>2. Advance(st, j)
  BY <1>1, PutAdvances DEF Active, Terminal
<1>3. State(st, j) = "canceled"
  BY <1>1, PutFacts DEF Active, Terminal
<1>4. run[j].pc \notin Kept
  BY <1>1, LoginAssumption DEF RunOf, Over, Active
<1>5. StoreStep(j, st)
  BY <1>1, <1>2, <1>3, <1>4 DEF StoreStep, StoreMove
<1>6. State(mem', j) \in {"canceled", None}
  BY <1>1, <1>2, <1>3, StoreFacts DEF State, Exists
<1>7. RunOf(j)'
  <2>1. CASE run[j].pc = "idle"
    BY <1>1, <2>1 DEF RunOf, Open, Kept, Holding, Early
  <2>2. CASE run[j].pc = "checking"
    <3>1. mem.job[j] # None /\ mem.job[j].type = "check"
      BY <1>1, <2>2, PutFacts DEF RunOf, Active, Terminal
    <3>2. st.job[j] # Unborn /\ st.job[j].type = "check"
      BY <1>1, <3>1, PutFacts DEF Active, Terminal
    <3>3. mem'.job[j] # Unborn /\ (mem'.job[j] # None => mem'.job[j].type = "check")
      BY <1>1, <1>2, <3>2, StoreFacts, LoginAssumption
    <3>. QED BY <1>1, <2>2, <3>3 DEF RunOf, Open, Kept, Holding, Early
  <2>3. CASE run[j].pc \notin {"idle", "checking"}
    <3>1. State(mem', j) # "succeeded"
      BY <1>6, LoginAssumption DEF Terminal
    <3>2. run[j].pc \notin {"registering", "verifying", "succeeding"}
      BY <1>1 DEF RunOf
    <3>3. UNCHANGED <<run[j].profile, run[j].new, run[j].prev, run[j].late, run[j].pc>>
      BY <1>1
    <3>4. /\ run[j].pc = "rolling" => run[j].late
          /\ run[j].late => run[j].pc \in {"rolling", "restoring", "unlocking", "finishing"}
      BY <1>1 DEF RunOf
    <3>. QED BY <1>4, <1>5, <2>3, <3>1, <3>2, <3>3, <3>4, StoreStepOwnRun
  <2>. QED BY <2>1, <2>2, <2>3
<1>. QED BY <1>1, <1>5, <1>7, StoreStepInv DEF Inv, TypeOK

LEMMA CreateInv ==
  ASSUME Inv, NEW q \in asked, CreateJob(q)
  PROVE  Inv'
<1>1. /\ TypeOK /\ q \in [kind : {"check", "login"}, profile : Profiles, exists : BOOLEAN]
      /\ asked' \subseteq [kind : {"check", "login"}, profile : Profiles, exists : BOOLEAN]
      /\ phase = "serving" /\ UNCHANGED <<auth, backup, lock, reg, phase, todo>>
  BY DEF Inv, TypeOK, CreateJob, files, process
<1>2. CASE Stored /\ UNCHANGED run
  BY <1>1, <1>2, AskedInv DEF Stored, files, process
<1>3. ASSUME NEW j \in Jobs, Create(q, j) PROVE Inv'
  <2>. DEFINE job == [type |-> q.kind, profile |-> q.profile, new |-> ~q.exists,
                      state |-> InitialState(q.kind)]
              st == [mem EXCEPT !.job[j] = job]
              pc == IF q.kind = "check" THEN "checking" ELSE "created"
              started == [NoRun EXCEPT !.pc = pc, !.profile = q.profile, !.new = ~q.exists]
  <2>1. /\ mem.job[j] = Unborn /\ disk.job[j] = Unborn
        /\ \/ Saved(st) /\ run' = [run EXCEPT ![j] = started]
           \/ Unsaved(st) /\ UNCHANGED run
    BY <1>3 DEF Create
  <2>2. /\ started \in Run /\ started.pc = pc /\ started.profile = q.profile
        /\ started.new = ~q.exists /\ ~started.late
    BY <1>1 DEF NoRun, Run, Points
  <2>3. /\ job \in Job /\ job.state \in {"checking", "logging_in"} /\ job.type = q.kind
        /\ job.profile = q.profile /\ job.new = ~q.exists
    BY <1>1 DEF Job, InitialState, Active
  <2>4. st \in Store /\ st.job[j] = job /\ \A i \in Jobs \ {j} : st.job[i] = mem.job[i]
    <3>. HIDE DEF job
    <3>. QED BY <1>1, <2>3 DEF TypeOK, Store
  <2>. HIDE DEF job, started, st
  <2>5. Advance(st, j)
    BY <2>1, <2>3, <2>4 DEF Advance, Active
  <2>6. State(st, j) \in {"checking", "logging_in"}
    BY <2>3, <2>4, LoginAssumption DEF State, Exists
  <2>7. run[j].pc = "idle" /\ ~run[j].late
    BY <2>1 DEF Inv, RunOf, LoginOf
  <2>8. run' \in [Jobs -> Run] /\ StoreStep(j, st)
    <3>1. CASE Saved(st) /\ run' = [run EXCEPT ![j] = started]
      <4>1. run' \in [Jobs -> Run] /\ run'[j].pc \in {"checking", "created"}
            /\ \A i \in Jobs \ {j} : run'[i] = run[i]
        BY <1>1, <2>2, <3>1 DEF TypeOK
      <4>2. StoreMove(j)
        BY <2>1, <2>7, <4>1 DEF StoreMove, Open, Changed, Kept
      <4>. QED BY <1>1, <2>5, <2>6, <3>1, <4>1, <4>2 DEF StoreStep, Kept
    <3>2. CASE Unsaved(st) /\ UNCHANGED run
      BY <1>1, <2>5, <2>6, <2>7, <3>2 DEF StoreStep, StoreMove, TypeOK, Kept
    <3>. QED BY <2>1, <3>1, <3>2
  <2>9. RunOf(j)'
    <3>1. CASE Saved(st) /\ run' = [run EXCEPT ![j] = started]
      <4>1. run'[j] = started
        BY <1>1, <3>1 DEF TypeOK
      <4>2. mem'.job[j] = job /\ disk' = mem'
        BY <1>1, <2>4, <2>5, <2>6, <3>1, StoreFacts DEF Terminal, Saved
      <4>3. job # Unborn /\ job # None
        BY <2>3, LoginAssumption
      <4>4. (State(mem, j) # "succeeded")' /\ (State(disk, j) # "succeeded")'
        BY <2>3, <4>2, LoginAssumption DEF State, Exists, Terminal
      <4>. QED BY <1>1, <2>2, <2>3, <4>1, <4>2, <4>3, <4>4
               DEF RunOf, LoginOf, Open, Kept, Holding, Early
    <3>2. CASE Unsaved(st) /\ UNCHANGED run
      BY <2>7, <3>2 DEF RunOf, Open, Kept, Holding, Early
    <3>. QED BY <2>1, <3>1, <3>2
  <2>. QED BY <1>1, <2>8, <2>9, StoreStepInv
<1>. QED BY <1>2, <1>3 DEF CreateJob


LEMMA RunCheckInv ==
  ASSUME Inv, NEW j \in Jobs, RunCheck(j)
  PROVE  Inv'
<1>1. /\ TypeOK /\ RunOf(j) /\ run \in [Jobs -> Run] /\ run[j].pc = "checking"
      /\ phase = "serving" /\ UNCHANGED <<asked, auth, backup, lock, reg, phase, todo>>
      /\ Goto(j, "idle")
  BY DEF Inv, TypeOK, RunCheck, Is, files, process
<1>2. /\ run' \in [Jobs -> Run] /\ run'[j] = NoRun
      /\ \A i \in Jobs \ {j} : run'[i] = run[i]
  BY <1>1, GotoRun DEF Points
<1>3. CASE Stored
  BY <1>1, <1>3, GoesOn DEF Points, Open, Kept, files, process
<1>4. ASSUME State(mem, j) = "checking", NEW state \in {"succeeded", "failed"},
             Save(Put(mem, j, state))
      PROVE  Inv'
  <2>. DEFINE st == Put(mem, j, state)
  <2>1. mem.job[j].type = "check"
    BY <1>1, <1>4, PutFacts DEF RunOf, Active, Terminal
  <2>2. Advance(st, j)
    BY <1>1, <1>4, <2>1, PutAdvances DEF Active, Terminal
  <2>. HIDE DEF st
  <2>3. StoreStep(j, st)
    BY <1>1, <1>2, <1>4, <2>2 DEF StoreStep, StoreMove, Save, NoRun, Open, Kept, Changed, st
  <2>. QED BY <1>1, <1>2, <2>3, StoreStepInv, IdleRun DEF TypeOK
<1>. QED BY <1>3, <1>4 DEF RunCheck

LEMMA ChallengeInv ==
  ASSUME Inv, NEW j \in Jobs, Challenge(j)
  PROVE  Inv'
<1>1. /\ TypeOK /\ RunOf(j) /\ run \in [Jobs -> Run] /\ run[j].pc = "starting"
      /\ phase = "serving" /\ UNCHANGED <<asked, auth, backup, lock, reg, phase, todo>>
      /\ ~run[j].late
  BY DEF Inv, TypeOK, Challenge, Is, files, process, RunOf
<1>2. CASE Stored /\ Goto(j, "restoring")
  BY <1>1, <1>2, GoesOn DEF Points, Open, Changed, Kept, Holding, Early, files, process
<1>3. ASSUME State(mem, j) = "logging_in", NEW pc \in {"approving", "restoring"},
             Goto(j, pc), Saved(mem) \/ Unsaved(mem)
      PROVE  Inv'
  <2>1. /\ run' \in [Jobs -> Run] /\ run'[j].pc = pc
        /\ \A i \in Jobs \ {j} : run'[i] = run[i]
        /\ UNCHANGED <<run[j].profile, run[j].new, run[j].prev, run[j].late>>
    BY <1>1, <1>3, GotoRun DEF Points
  <2>2. Advance(mem, j)
    BY <1>1, SameAdvances
  <2>3. StoreStep(j, mem)
    BY <1>1, <1>3, <2>1, <2>2 DEF StoreStep, StoreMove, Open, Kept, Changed
  <2>4. State(mem', j) # "succeeded"
    BY <1>1, <1>3, <2>2, OthersStay DEF Terminal
  <2>5. RunOf(j)'
    BY <1>1, <1>3, <2>1, <2>3, <2>4, StoreStepOwnRun DEF Open, Kept, Holding, Early
  <2>. QED BY <1>1, <2>1, <2>3, <2>5, StoreStepInv DEF TypeOK
<1>. QED BY <1>2, <1>3 DEF Challenge

LEMMA FinalizeInv ==
  ASSUME Inv, NEW j \in Jobs, Finalize(j)
  PROVE  Inv'
<1>1. /\ TypeOK /\ RunOf(j) /\ run \in [Jobs -> Run] /\ run[j].pc = "finalizing"
      /\ phase = "serving" /\ UNCHANGED <<asked, auth, backup, lock, reg, phase, todo>>
      /\ ~run[j].late
  BY DEF Inv, TypeOK, Finalize, Is, files, process, RunOf
<1>2. CASE Stored /\ Goto(j, "restoring")
  BY <1>1, <1>2, GoesOn DEF Points, Open, Changed, Kept, Holding, Early, files, process
<1>. DEFINE st == Put(mem, j, "finalizing")
<1>3. ASSUME State(mem, j) = "logging_in", NEW pc \in {"registering", "restoring"},
             Goto(j, pc), Saved(st) \/ Unsaved(st)
      PROVE  Inv'
  <2>1. /\ run' \in [Jobs -> Run] /\ run'[j].pc = pc
        /\ \A i \in Jobs \ {j} : run'[i] = run[i]
        /\ UNCHANGED <<run[j].profile, run[j].new, run[j].prev, run[j].late>>
    BY <1>1, <1>3, GotoRun DEF Points
  <2>2. Advance(st, j) /\ State(st, j) = "finalizing"
    BY <1>1, <1>3, PutAdvances, PutFacts DEF Active, Terminal
  <2>. HIDE DEF st
  <2>3. StoreStep(j, st)
    BY <1>1, <1>3, <2>1, <2>2 DEF StoreStep, StoreMove, Open, Kept, Changed
  <2>4. State(mem', j) = "finalizing"
    BY <1>1, <1>3, <2>2, StoreFacts DEF Terminal, State, Exists
  <2>5. RunOf(j)'
    BY <1>1, <1>3, <2>1, <2>3, <2>4, StoreStepOwnRun DEF Open, Kept, Holding, Early
  <2>. QED BY <1>1, <2>1, <2>3, <2>5, StoreStepInv DEF TypeOK
<1>. QED BY <1>2, <1>3 DEF Finalize

LEMMA SucceedInv ==
  ASSUME Inv, NEW j \in Jobs, Succeed(j)
  PROVE  Inv'
<1>. DEFINE st == Put(mem, j, "succeeded")
            p == run[j].profile
<1>1. /\ TypeOK /\ RunOf(j) /\ run \in [Jobs -> Run] /\ run[j].pc = "succeeding"
      /\ phase = "serving" /\ UNCHANGED <<asked, auth, backup, lock, reg, phase, todo>>
      /\ ~run[j].late /\ State(mem, j) = "finalizing" /\ State(disk, j) # "succeeded"
      /\ LoginOf(mem, j, p)
  BY DEF Inv, TypeOK, Succeed, Is, files, process, RunOf, Open
<1>2. /\ Advance(st, j) /\ State(st, j) = "succeeded"
      /\ st.job[j].type = "login" /\ st.job[j].profile = p
  BY <1>1, PutAdvances, PutFacts DEF Active, Terminal, LoginOf
<1>. HIDE DEF st
<1>3. p \in Confirmed(st)
  BY <1>1, <1>2 DEF Confirmed
<1>4. CASE Saved(st) /\ Goto(j, "recording")
  <2>1. /\ run' \in [Jobs -> Run] /\ run'[j].pc = "recording"
        /\ \A i \in Jobs \ {j} : run'[i] = run[i]
        /\ UNCHANGED <<run[j].profile, run[j].new, run[j].prev, run[j].late>>
    BY <1>1, <1>4, GotoRun DEF Points
  <2>2. StoreStep(j, st)
    BY <1>1, <1>2, <1>3, <1>4, <2>1 DEF StoreStep, StoreMove, Open, Kept, Changed
  <2>3. /\ Over(mem', j) /\ Over(disk', j) /\ p \in owned'
    <3>1. disk' = mem' /\ p \in owned'
      BY <1>3, <1>4 DEF Saved
    <3>2. mem'.job[j] = st.job[j] \/ mem'.job[j] = None
      BY <1>1, <1>2, <1>4, StoreFacts
    <3>. QED BY <1>2, <3>1, <3>2 DEF Over, State, Exists
  <2>4. RunOf(j)'
    BY <1>1, <2>1, <2>2, <2>3, StoreStepOwnRun DEF Open, Kept, Holding, Early
  <2>. QED BY <1>1, <2>1, <2>2, <2>4, StoreStepInv DEF TypeOK
<1>5. CASE Unsaved(st) /\ Goto(j, "idle")
  <2>1. /\ run' \in [Jobs -> Run] /\ run'[j] = NoRun
        /\ \A i \in Jobs \ {j} : run'[i] = run[i]
    BY <1>1, <1>5, GotoRun DEF Points
  <2>2. count'.fault # 0
    BY <1>1, <1>5, Faulty DEF Unsaved
  <2>3. StoreStep(j, st)
    BY <1>1, <1>2, <1>5, <2>1, <2>2 DEF StoreStep, StoreMove, NoRun, Open, Kept, Changed
  <2>. QED BY <1>1, <2>1, <2>3, StoreStepInv, IdleRun DEF TypeOK
<1>. QED BY <1>4, <1>5 DEF Succeed, st

LEMMA RecordInv ==
  ASSUME Inv, NEW j \in Jobs, Record(j)
  PROVE  Inv'
<1>1. /\ TypeOK /\ RunOf(j) /\ run \in [Jobs -> Run] /\ run[j].pc = "recording"
      /\ phase = "serving" /\ UNCHANGED <<asked, auth, backup, lock, reg, phase, todo>>
      /\ ~run[j].late /\ (Saved(mem) \/ Unsaved(mem)) /\ Goto(j, "clearing")
  BY DEF Inv, TypeOK, Record, Save, Is, files, process, RunOf
<1>2. /\ run' \in [Jobs -> Run] /\ run'[j].pc = "clearing"
      /\ \A i \in Jobs \ {j} : run'[i] = run[i]
      /\ UNCHANGED <<run[j].profile, run[j].new, run[j].prev, run[j].late>>
  BY <1>1, GotoRun DEF Points
<1>3. StoreStep(j, mem)
  BY <1>1, <1>2, SameAdvances DEF StoreStep, StoreMove, Open, Kept, Changed
<1>4. RunOf(j)'
  BY <1>1, <1>2, <1>3, StoreStepOwnRun DEF Open, Kept, Holding, Early
<1>. QED BY <1>1, <1>2, <1>3, <1>4, StoreStepInv DEF TypeOK

LEMMA FailLoginInv ==
  ASSUME Inv, NEW j \in Jobs, FailLogin(j)
  PROVE  Inv'
<1>. DEFINE st == Put(mem, j, "failed")
            pc == IF run[j].pc = "failing" THEN "unlocking" ELSE "idle"
<1>1. /\ TypeOK /\ RunOf(j) /\ run \in [Jobs -> Run]
      /\ run[j].pc \in {"failing", "finishing"}
      /\ phase = "serving" /\ UNCHANGED <<asked, auth, backup, lock, reg, phase, todo>>
      /\ Goto(j, pc)
  BY DEF Inv, TypeOK, FailLogin, Is, files, process
<1>2. CASE Stored
  BY <1>1, <1>2, GoesOn DEF Points, Open, Changed, Kept, Holding, Early, files, process, RunOf
<1>3. CASE IsActive(j) /\ (Saved(st) \/ Unsaved(st))
  <2>1. Advance(st, j) /\ State(st, j) = "failed"
    BY <1>1, <1>3, PutAdvances, PutFacts DEF IsActive, Terminal
  <2>. HIDE DEF st
  <2>2. /\ run' \in [Jobs -> Run]
        /\ \A i \in Jobs \ {j} : run'[i] = run[i]
        /\ pc = "idle" => run'[j] = NoRun
        /\ pc # "idle" =>
             /\ run'[j].pc = pc
             /\ UNCHANGED <<run[j].profile, run[j].new, run[j].prev, run[j].late>>
    BY <1>1, GotoRun DEF Points
  <2>3. StoreStep(j, st)
    BY <1>1, <1>3, <2>1, <2>2 DEF StoreStep, StoreMove, NoRun, Open, Kept, Changed
  <2>4. RunOf(j)'
    <3>1. CASE pc = "idle"
      BY <2>2, <3>1, IdleRun
    <3>2. CASE pc = "unlocking"
      BY <1>1, <2>2, <2>3, <3>2, StoreStepOwnRun DEF Open, Kept, Holding, Early, RunOf
    <3>. QED BY <3>1, <3>2
  <2>. QED BY <1>1, <2>2, <2>3, <2>4, StoreStepInv DEF TypeOK
<1>. QED BY <1>2, <1>3 DEF FailLogin, Fail, Save


-----------------------------------------------------------------------------
(* The actions on the auth file and its backup                             *)

LEMMA WriteBackupInv ==
  ASSUME Inv, NEW j \in Jobs, WriteBackup(j)
  PROVE  Inv'
<1>1. PICK p \in Profiles : p = run[j].profile
  BY DEF Inv, WriteBackup, Is, RunOf
<1>2. /\ TypeOK /\ BackupInv /\ RunOf(j) /\ run \in [Jobs -> Run] /\ run[j] \in Run
      /\ run[j].pc = "backup"
      /\ ~run[j].late /\ phase = "serving" /\ lock[p] = j
      /\ UNCHANGED <<mem, disk, good, owned, asked, auth, lock, reg, phase, todo>>
  BY <1>1 DEF Inv, TypeOK, WriteBackup, Is, store, ghosts, process, RunOf, Holding
<1>3. CASE /\ ~Unresolved(p)
           /\ backup' = [backup EXCEPT ![p] = [job |-> j, prev |-> auth[p]]]
           /\ run' = [run EXCEPT ![j].pc = "starting", ![j].prev = auth[p],
                ![j].old = IF run[j].new \/ auth[p] = None \/ p \notin reg
                             THEN None ELSE auth[p].account]
           /\ UNCHANGED count
  <2>. DEFINE old == IF run[j].new \/ auth[p] = None \/ p \notin reg
                       THEN None ELSE auth[p].account
              s == [run[j] EXCEPT !.pc = "starting", !.prev = auth[p], !.old = old]
  <2>1. old \in Accounts \cup {None, Invalid}
    BY <1>2 DEF TypeOK, Auth
  <2>. HIDE DEF old
  <2>2. auth[p] \in Auth \cup {None}
    BY <1>2 DEF TypeOK
  <2>3. /\ s \in Run /\ s.pc = "starting" /\ s.profile = p /\ s.new = run[j].new
        /\ s.prev = auth[p] /\ ~s.late
    BY <1>1, <1>2, <2>1, <2>2 DEF Run, Points
  <2>4. run' = [run EXCEPT ![j] = s]
    BY <1>3 DEF old
  <2>. HIDE DEF s
  <2>5. /\ run' \in [Jobs -> Run] /\ run'[j] = s
        /\ \A i \in Jobs \ {j} : run'[i] = run[i]
    BY <1>2, <2>3, <2>4
  <2>6. /\ backup[p] = None /\ backup' \in [Profiles -> Backup \cup {None}]
        /\ backup'[p] # None /\ backup'[p].job = j /\ backup'[p].prev = auth[p]
        /\ \A q \in Profiles \ {p} : backup'[q] = backup[q]
    <3>. DEFINE b == [job |-> j, prev |-> auth[p]]
    <3>1. b \in Backup /\ b.job = j /\ b.prev = auth[p]
      BY <2>2 DEF Backup
    <3>. HIDE DEF b
    <3>2. b # None
      BY <3>1, LoginAssumption
    <3>3. backup' = [backup EXCEPT ![p] = b] /\ backup[p] = None
      BY <1>3 DEF b, Unresolved
    <3>. QED BY <1>2, <3>1, <3>2, <3>3 DEF TypeOK
  <2>7. TypeOK'
    BY <1>2, <1>3, <2>5, <2>6 DEF TypeOK
  <2>8. /\ LoginOf(mem, j, p) /\ LoginOf(disk, j, p)
        /\ mem.job[j] # None => mem.job[j].new = run[j].new
        /\ State(mem, j) # "succeeded" /\ State(disk, j) # "succeeded"
    BY <1>1, <1>2 DEF RunOf, Early
  <2>9. RunOf(j)'
    BY <1>2, <2>3, <2>5, <2>6, <2>8
       DEF RunOf, LoginOf, State, Exists, Open, Kept, Holding, Early
  <2>10. FileStep(j)
    BY <1>1, <1>2, <1>3, <2>3, <2>5, <2>6 DEF FileStep
  <2>11. ASSUME NEW f, Recoverable(p, f) PROVE Recoverable(p, f)'
    BY <1>2, <2>3, <2>5, <2>6, <2>8, <2>11 DEF Recoverable, State, Exists, Kept
  <2>12. ASSUME count'.fault = 0
         PROVE  /\ run'[j].pc \in Changed => auth'[p] \notin {None, good[p]}
                /\ Attended(p)' /\ Revocable(p)'
    <3>1. Revocable(p)
      BY <1>3, <2>12 DEF Inv, OutcomeInv
    <3>. QED BY <1>2, <2>3, <2>5, <2>6, <3>1 DEF Attended, Revocable, Changed, Open
  <2>13. Paid(j)
    BY <1>1, <2>11, <2>12 DEF Paid
  <2>. QED BY <2>7, <2>9, <2>10, <2>13, FileStepInv
<1>4. CASE /\ IF Unresolved(p) THEN UNCHANGED count ELSE Fault
           /\ Goto(j, "failing") /\ UNCHANGED backup
  <2>1. /\ run' \in [Jobs -> Run] /\ run'[j].pc = "failing"
        /\ \A i \in Jobs \ {j} : run'[i] = run[i]
        /\ UNCHANGED <<run[j].profile, run[j].new, run[j].prev, run[j].late>>
    BY <1>2, <1>4, GotoRun DEF Points
  <2>2. /\ count' \in [crash : 0..MaxCrashes, fault : 0..MaxFaults, refresh : 0..MaxRefreshes]
        /\ count' = count \/ (count'.fault # 0 /\ count'.refresh = count.refresh)
    BY <1>2, <1>4, Faulty DEF TypeOK
  <2>3. QuietStep(j)
    BY <1>2, <1>4, <2>1, <2>2 DEF QuietStep, TypeOK
  <2>4. QuietMove(j)
    BY <1>2, <2>1 DEF QuietMove, Open, Changed, Kept, Holding, Early
  <2>. QED BY <1>2, <2>3, <2>4, QuietInv DEF Open, Kept
<1>. QED BY <1>1, <1>3, <1>4 DEF WriteBackup

LEMMA AppServerInv ==
  ASSUME Inv, NEW j \in Jobs, AppServerWrites(j)
  PROVE  Inv'
<1>1. PICK p \in Profiles : p = run[j].profile
  BY DEF Inv, AppServerWrites, Is, RunOf
<1>2. /\ TypeOK /\ RunOf(j) /\ run \in [Jobs -> Run] /\ run[j].pc = "approving"
      /\ ~run[j].late /\ phase = "serving" /\ lock[p] = j
      /\ UNCHANGED <<mem, disk, good, owned, count, asked, backup, lock, reg, phase, todo>>
      /\ Goto(j, "written")
  BY <1>1 DEF Inv, TypeOK, AppServerWrites, Is, Stored, store, ghosts, process, RunOf, Holding
<1>3. PICK a \in Accounts \cup {Invalid}, t \in Tokens \ Live(p) :
        auth' = [auth EXCEPT ![p] = [token |-> t, account |-> a]]
  <2>1. /\ Tokens \ Live(p) # {}
        /\ \E a \in Accounts \cup {Invalid} :
             auth' = [auth EXCEPT
                        ![p] = [token |-> CHOOSE t \in Tokens \ Live(p) : TRUE,
                                account |-> a]]
    BY <1>1 DEF AppServerWrites
  <2>2. (CHOOSE t \in Tokens \ Live(p) : TRUE) \in Tokens \ Live(p)
    BY <2>1
  <2>. QED BY <2>1, <2>2
<1>4. /\ auth' \in [Profiles -> Auth \cup {None}] /\ auth'[p] \in Auth
      /\ auth'[p].token = t /\ \A q \in Profiles \ {p} : auth'[q] = auth[q]
  <2>. DEFINE new == [token |-> t, account |-> a]
  <2>1. new \in Auth /\ new.token = t
    BY DEF Auth
  <2>2. auth' = [auth EXCEPT ![p] = new]
    BY <1>3
  <2>. HIDE DEF new
  <2>. QED BY <1>2, <2>1, <2>2 DEF TypeOK
<1>5. auth'[p] # None /\ auth'[p] # good[p]
  <2>1. good[p] # None => good[p].token \in Live(p)
    BY DEF Live
  <2>. QED BY <1>4, <2>1, LoginAssumption
<1>6. /\ run' \in [Jobs -> Run] /\ run'[j].pc = "written"
      /\ \A i \in Jobs \ {j} : run'[i] = run[i]
      /\ UNCHANGED <<run[j].profile, run[j].new, run[j].prev, run[j].late>>
  BY <1>2, GotoRun DEF Points
<1>7. TypeOK'
  BY <1>2, <1>4, <1>6 DEF TypeOK
<1>8. /\ LoginOf(mem, j, p) /\ LoginOf(disk, j, p)
      /\ mem.job[j] # None => mem.job[j].new = run[j].new
      /\ State(mem, j) # "succeeded" /\ State(disk, j) # "succeeded"
      /\ backup[p] # None /\ backup[p].job = j /\ backup[p].prev = run[j].prev
  BY <1>1, <1>2 DEF RunOf, Open
<1>9. RunOf(j)'
  BY <1>1, <1>2, <1>6, <1>8 DEF RunOf, LoginOf, State, Exists, Open, Kept, Holding, Early
<1>10. FileStep(j)
  BY <1>1, <1>2, <1>4, <1>6 DEF FileStep, Open
<1>11. ASSUME NEW f, Recoverable(p, f) PROVE Recoverable(p, f)'
  <2>1. f[backup[p].prev] = f[good[p]]
    BY <1>2, <1>8, <1>11 DEF Recoverable, Spent, Open
  <2>. QED BY <1>2, <1>6, <1>8, <2>1 DEF Recoverable, State, Exists, Kept
<1>12. ASSUME count'.fault = 0
       PROVE  /\ run'[j].pc \in Changed => auth'[p] \notin {None, good[p]}
              /\ Attended(p)' /\ Revocable(p)'
  <2>1. Attended(p)'
    BY <1>2, <1>6, <1>8 DEF Attended, Open
  <2>2. p \notin reg \ owned
    <3>1. Revocable(p)
      BY <1>2, <1>12 DEF Inv, OutcomeInv
    <3>. QED BY <1>2, <1>8, <3>1 DEF Revocable, Open
  <2>. QED BY <1>2, <1>5, <2>1, <2>2 DEF Revocable
<1>13. Paid(j)
  BY <1>1, <1>11, <1>12 DEF Paid
<1>. QED BY <1>7, <1>9, <1>10, <1>13, FileStepInv


LEMMA ClearInv ==
  ASSUME Inv, NEW j \in Jobs, ClearBackup(j)
  PROVE  Inv'
<1>1. PICK p \in Profiles : p = run[j].profile
  BY DEF Inv, ClearBackup, Is, RunOf
<1>2. /\ TypeOK /\ RunOf(j) /\ run \in [Jobs -> Run] /\ run[j].pc = "clearing"
      /\ UNCHANGED <<mem, disk, good, owned, asked, auth, lock, reg, phase, todo>>
      /\ Goto(j, "idle")
  BY DEF Inv, TypeOK, ClearBackup, Is, store, ghosts, process
<1>3. /\ run' \in [Jobs -> Run] /\ run'[j] = NoRun
      /\ \A i \in Jobs \ {j} : run'[i] = run[i]
      /\ NoRun.pc = "idle"
  <2>1. NoRun.pc = "idle"
    BY DEF NoRun
  <2>. QED BY <1>2, <2>1, GotoRun DEF Points
<1>4. /\ backup[p] # None /\ backup[p].job = j /\ p \in owned
      /\ Over(mem, j) /\ Over(disk, j)
  BY <1>1, <1>2 DEF RunOf, Kept
<1>5. /\ \/ backup' = [backup EXCEPT ![p] = None] /\ count' = count
         \/ Fault /\ backup' = backup
  BY <1>1 DEF ClearBackup
<1>6. /\ backup' \in [Profiles -> Backup \cup {None}] /\ backup'[p] \in {None, backup[p]}
      /\ \A q \in Profiles \ {p} : backup'[q] = backup[q]
      /\ count' \in [crash : 0..MaxCrashes, fault : 0..MaxFaults, refresh : 0..MaxRefreshes]
      /\ \/ backup'[p] = None /\ count' = count
         \/ count'.fault # 0 /\ count'.refresh = count.refresh
  BY <1>2, <1>5, Faulty DEF TypeOK
<1>7. TypeOK'
  BY <1>2, <1>3, <1>6 DEF TypeOK
<1>8. FileStep(j)
  BY <1>1, <1>2, <1>3, <1>6 DEF FileStep, Kept
<1>9. ASSUME NEW f, Recoverable(p, f) PROVE Recoverable(p, f)'
  <2>1. f[auth[p]] = f[good[p]]
    BY <1>2, <1>4, <1>9 DEF Recoverable, Kept
  <2>2. backup'[p] = backup[p] => Spent(p)'
    BY <1>2, <1>3, <1>4 DEF Spent, Over, State, Exists, Open
  <2>. QED BY <1>2, <1>6, <2>1, <2>2 DEF Recoverable
<1>10. ASSUME count'.fault = 0
       PROVE  /\ run'[j].pc \in Changed => auth'[p] \notin {None, good[p]}
              /\ Attended(p)' /\ Revocable(p)'
  BY <1>2, <1>3, <1>4, <1>6, <1>10 DEF Attended, Revocable, Changed
<1>11. Paid(j)
  BY <1>1, <1>9, <1>10 DEF Paid
<1>. QED BY <1>3, <1>7, <1>8, <1>11, FileStepInv, IdleRun

LEMMA RestoreInv ==
  ASSUME Inv, NEW j \in Jobs, Restore(j)
  PROVE  Inv'
<1>1. PICK p \in Profiles : p = run[j].profile
  BY DEF Inv, Restore, Is, RunOf
<1>. DEFINE pc == IF run[j].late THEN "unlocking" ELSE "failing"
            unregister == run[j].late /\ run[j].new
<1>2. /\ TypeOK /\ RunOf(j) /\ run \in [Jobs -> Run] /\ run[j] \in Run
      /\ run[j].pc = "restoring" /\ phase = "serving"
      /\ UNCHANGED <<mem, disk, good, owned, asked, lock, phase, todo>>
      /\ Goto(j, pc)
  BY DEF Inv, TypeOK, Restore, Is, store, ghosts, process
<1>3. /\ run' \in [Jobs -> Run] /\ run'[j].pc = pc
      /\ \A i \in Jobs \ {j} : run'[i] = run[i]
      /\ UNCHANGED <<run[j].profile, run[j].new, run[j].prev, run[j].late>>
  BY <1>2, GotoRun DEF Points
<1>4. /\ backup[p] # None /\ backup[p].job = j /\ backup[p].prev = run[j].prev
      /\ lock[p] = j /\ LoginOf(mem, j, p) /\ LoginOf(disk, j, p)
      /\ mem.job[j] # None => mem.job[j].new = run[j].new
      /\ State(mem, j) # "succeeded" /\ State(disk, j) # "succeeded"
  BY <1>1, <1>2 DEF RunOf, Open, Holding
<1>5. /\ auth' = auth \/ auth' = [auth EXCEPT ![p] = run[j].prev]
      /\ reg' = reg \/ reg' = IF unregister THEN reg \ {p} ELSE reg
      /\ \/ /\ auth' = [auth EXCEPT ![p] = run[j].prev]
            /\ reg' = IF unregister THEN reg \ {p} ELSE reg
            /\ count' = count
            /\ backup' = [backup EXCEPT ![p] = None]
         \/ Fault /\ backup' = backup
  BY <1>1 DEF Restore, RestoreAll
<1>6. /\ auth' \in [Profiles -> Auth \cup {None}]
      /\ \A q \in Profiles \ {p} : auth'[q] = auth[q] /\ backup'[q] = backup[q]
      /\ backup' \in [Profiles -> Backup \cup {None}]
      /\ reg' \subseteq Profiles /\ \A q \in Profiles \ {p} : q \in reg' <=> q \in reg
      /\ count' \in [crash : 0..MaxCrashes, fault : 0..MaxFaults, refresh : 0..MaxRefreshes]
      /\ \/ /\ auth'[p] = run[j].prev /\ count' = count /\ backup'[p] = None
            /\ reg' = IF unregister THEN reg \ {p} ELSE reg
         \/ /\ backup'[p] = backup[p]
            /\ count'.fault # 0 /\ count'.refresh = count.refresh
  <2>1. run[j].prev \in Auth \cup {None}
    BY <1>2 DEF Run
  <2>. QED BY <1>2, <1>5, <2>1, Faulty DEF TypeOK
<1>. HIDE DEF unregister
<1>7. TypeOK'
  BY <1>2, <1>3, <1>6 DEF TypeOK
<1>8. RunOf(j)'
  BY <1>1, <1>2, <1>3, <1>4 DEF RunOf, LoginOf, State, Exists, Open, Kept, Holding, Early
<1>9. FileStep(j)
  BY <1>1, <1>2, <1>3, <1>4, <1>6 DEF FileStep, Open
<1>10. ASSUME NEW f, Recoverable(p, f) PROVE Recoverable(p, f)'
  <2>1. f[backup[p].prev] = f[good[p]]
    BY <1>2, <1>4, <1>10 DEF Recoverable, Spent, Open
  <2>. QED BY <1>2, <1>3, <1>4, <1>6, <2>1 DEF Recoverable, State, Exists, Kept
<1>11. ASSUME count'.fault = 0
       PROVE  /\ run'[j].pc \in Changed => auth'[p] \notin {None, good[p]}
              /\ Attended(p)' /\ Revocable(p)'
  <2>1. backup'[p] = None /\ reg' = IF unregister THEN reg \ {p} ELSE reg
    BY <1>6, <1>11
  <2>2. p \notin reg' \ owned
    <3>1. Revocable(p)
      BY <1>6, <1>11 DEF Inv, OutcomeInv
    <3>. QED BY <1>2, <1>4, <2>1, <3>1 DEF Revocable, Open, unregister
  <2>. QED BY <1>2, <1>3, <2>1, <2>2 DEF Attended, Revocable, Changed
<1>12. Paid(j)
  BY <1>1, <1>10, <1>11 DEF Paid
<1>. QED BY <1>7, <1>8, <1>9, <1>12, FileStepInv

LEMMA StepInv ==
  ASSUME Inv, NEW j \in Jobs, Step(j)
  PROVE  Inv'
BY GoesOnInv, VerifyInv, TakeLockInv, UnlockInv, RegisterInv, RelockInv, RunCheckInv,
   ChallengeInv, FinalizeInv, SucceedInv, RecordInv, FailLoginInv, WriteBackupInv,
   AppServerInv, ClearInv, RestoreInv DEF Step


-----------------------------------------------------------------------------
(* The gateway's refresh                                                   *)

LEMMA RefreshLockInv ==
  ASSUME Inv, NEW p \in Profiles, RefreshLock(p)
  PROVE  Inv'
<1>1. /\ TypeOK /\ phase = "serving" /\ auth[p] # None /\ lock[p] \in {None, "orphan"}
      /\ lock' = [lock EXCEPT ![p] = "refresh"] /\ count.refresh < MaxRefreshes
      /\ count' = [count EXCEPT !.refresh = @ + 1]
      /\ UNCHANGED <<mem, disk, good, owned, run, asked, auth, backup, reg, phase, todo>>
  BY DEF Inv, RefreshLock, Takeable, store, ghosts, process
<1>2. /\ count' \in [crash : 0..MaxCrashes, fault : 0..MaxFaults, refresh : 0..MaxRefreshes]
      /\ count'.fault = count.fault /\ count'.refresh # 0
  BY <1>1, LoginAssumption DEF TypeOK
<1>3. /\ lock' \in [Profiles -> Jobs \cup {None, "orphan", "refresh"}]
      /\ \A q \in Profiles \ {p} : lock'[q] = lock[q]
  BY <1>1 DEF TypeOK
<1>4. TypeOK' /\ PhaseInv'
  BY <1>1, <1>2, <1>3 DEF Inv, TypeOK, PhaseInv, State, Exists
<1>5. BackupInv'
  BY <1>1 DEF Inv, BackupInv, LoginOf, State, Exists
<1>6. RefreshInv'
  BY <1>1, <1>2, <1>3 DEF Inv, RefreshInv
<1>7. RecoverInv'
  BY <1>1, <1>2 DEF Inv, RecoverInv, Recoverable, Spent, Over, State, Exists
<1>8. OutcomeInv'
  BY <1>1, <1>2 DEF Inv, OutcomeInv, Attended, Revocable, State, Exists
<1>9. ASSUME NEW j \in Jobs PROVE RunOf(j)'
  <2>1. run[j].pc \in Holding => lock[run[j].profile] = j /\ run[j].profile \in Profiles
    BY DEF Inv, RunOf, Holding
  <2>2. run[j].pc \in Holding => lock'[run[j].profile] = lock[run[j].profile]
    BY <1>1, <1>3, <2>1, LoginAssumption
  <2>. QED BY <1>1, <2>2, RunStays DEF Inv
<1>. QED BY <1>4, <1>5, <1>6, <1>7, <1>8, <1>9 DEF Inv

\* A refresh replaces the tokens, and with them what ought to survive where the two are
\* one; it never meets an auth file that a login has written and not yet kept.
LEMMA RefreshDoneInv ==
  ASSUME Inv, NEW p \in Profiles, RefreshDone(p)
  PROVE  Inv'
<1>1. /\ TypeOK /\ phase = "serving" /\ lock[p] = "refresh" /\ auth[p] # None
      /\ count.refresh # 0 /\ lock' = [lock EXCEPT ![p] = None]
      /\ UNCHANGED <<mem, disk, run, asked, backup, reg, phase, todo, count, owned>>
  BY DEF Inv, RefreshDone, RefreshInv, store, process
<1>2. /\ lock' \in [Profiles -> Jobs \cup {None, "orphan", "refresh"}]
      /\ lock'[p] = None /\ \A q \in Profiles \ {p} : lock'[q] = lock[q]
  BY <1>1 DEF TypeOK
<1>3. /\ auth' \in [Profiles -> Auth \cup {None}] /\ good' \in [Profiles -> Auth \cup {None}]
      /\ \A q \in Profiles \ {p} : auth'[q] = auth[q] /\ good'[q] = good[q]
      /\ auth'[p] # None
      /\ \/ auth'[p] = auth[p] /\ good'[p] = good[p]
         \/ /\ auth'[p].account = auth[p].account
            /\ good'[p] = IF good[p] = auth[p] THEN auth'[p] ELSE good[p]
  <2>1. CASE UNCHANGED <<auth, good>>
    BY <1>1, <2>1 DEF TypeOK
  <2>2. CASE /\ Tokens \ Live(p) # {}
             /\ auth' = [auth EXCEPT ![p].token = CHOOSE t \in Tokens \ Live(p) : TRUE]
             /\ good' = [good EXCEPT ![p] = IF @ = auth[p] THEN auth'[p] ELSE @]
    <3>. DEFINE t == CHOOSE t \in Tokens \ Live(p) : TRUE
                new == [auth[p] EXCEPT !.token = t]
    <3>1. t \in Tokens
      BY <2>2
    <3>. HIDE DEF t
    <3>2. auth[p] \in Auth
      BY <1>1 DEF TypeOK
    <3>3. new \in Auth /\ new.account = auth[p].account
      BY <3>1, <3>2 DEF Auth
    <3>4. auth' = [auth EXCEPT ![p] = new]
      BY <2>2 DEF t
    <3>. HIDE DEF new
    <3>5. auth' \in [Profiles -> Auth \cup {None}] /\ auth'[p] = new
          /\ \A q \in Profiles \ {p} : auth'[q] = auth[q]
      BY <1>1, <3>3, <3>4 DEF TypeOK
    <3>6. /\ good' \in [Profiles -> Auth \cup {None}]
          /\ good'[p] = IF good[p] = auth[p] THEN auth'[p] ELSE good[p]
          /\ \A q \in Profiles \ {p} : good'[q] = good[q]
      <4>1. good' = [good EXCEPT ![p] = IF good[p] = auth[p] THEN auth'[p] ELSE good[p]]
        BY <2>2
      <4>2. (IF good[p] = auth[p] THEN auth'[p] ELSE good[p]) \in Auth \cup {None}
        BY <1>1, <3>5 DEF TypeOK
      <4>. QED BY <1>1, <4>1, <4>2 DEF TypeOK
    <3>7. new # None
      BY <3>3, LoginAssumption
    <3>. QED BY <3>3, <3>5, <3>6, <3>7
  <2>. QED BY <2>1, <2>2 DEF RefreshDone
<1>4. TypeOK' /\ PhaseInv'
  BY <1>1, <1>2, <1>3 DEF Inv, TypeOK, PhaseInv, State, Exists
<1>5. BackupInv'
  BY <1>1 DEF Inv, BackupInv, LoginOf, State, Exists
<1>6. RefreshInv'
  BY <1>1, <1>2, <1>3, LoginAssumption DEF Inv, RefreshInv
<1>7. ASSUME NEW j \in Jobs PROVE RunOf(j)'
  <2>1. run[j].pc \in Holding => lock[run[j].profile] = j /\ run[j].profile \in Profiles
    BY DEF Inv, RunOf, Holding
  <2>2. run[j].pc \in Holding => lock'[run[j].profile] = lock[run[j].profile]
    BY <1>1, <1>2, <2>1, LoginAssumption
  <2>. QED BY <1>1, <2>2, RunStays DEF Inv
\* Nobody in a login's critical section holds the lock.
<1>8. ASSUME NEW j \in Jobs, run[j].profile = p PROVE run[j].pc \notin Holding
  BY <1>1, <1>8, LoginAssumption DEF Inv, RunOf
<1>9. ASSUME count.fault = 0, auth'[p] # auth[p], backup[p] # None,
             run[backup[p].job].pc \in Open
      PROVE  auth[p] # good[p]
  <2>1. backup[p].job \in Jobs /\ run[backup[p].job].pc # "idle"
    BY <1>1, <1>9 DEF TypeOK, Backup, Open
  <2>2. run[backup[p].job].profile = p
    BY <1>9, <2>1 DEF Inv, BackupInv
  <2>3. run[backup[p].job].pc \in Changed
    BY <1>8, <1>9, <2>1, <2>2 DEF Open, Changed, Holding
  <2>. QED BY <1>9, <2>1, <2>2, <2>3 DEF Inv, OutcomeInv
<1>10. ASSUME count.fault = 0, Recoverable(p, File) PROVE Recoverable(p, File)'
  <2>1. \A a \in Auth \cup {None} : File[a] = a
    BY DEF File
  <2>2. /\ auth[p] \in Auth \cup {None} /\ good[p] \in Auth \cup {None}
        /\ auth'[p] \in Auth \cup {None} /\ good'[p] \in Auth \cup {None}
        /\ backup[p] # None => backup[p].prev \in Auth \cup {None}
    BY <1>1, <1>3 DEF TypeOK, Backup
  <2>3. Spent(p) => Spent(p)'
    BY <1>1 DEF Spent, Over, State, Exists
  <2>4. auth[p] = good[p] => auth'[p] = good'[p]
    BY <1>3
  <2>5. CASE backup[p] = None
    BY <1>1, <1>10, <2>1, <2>2, <2>4, <2>5 DEF Recoverable
  <2>6. CASE backup[p] # None
    <3>. DEFINE b == backup[p].job
    <3>1. State(disk, b) = "succeeded" \/ run[b].pc \in Kept
            => Spent(p) /\ auth[p] = good[p]
      BY <1>10, <2>1, <2>2, <2>6 DEF Recoverable
    <3>2. backup[p].prev = good[p] \/ (Spent(p) /\ auth[p] = good[p])
      BY <1>10, <2>1, <2>2, <2>6 DEF Recoverable
    <3>3. backup[p].prev = good'[p] \/ (Spent(p) /\ auth'[p] = good'[p])
      <4>1. CASE good'[p] = good[p]
        BY <2>4, <3>2, <4>1
      <4>2. CASE good'[p] # good[p]
        <5>1. auth[p] = good[p] /\ auth'[p] # auth[p]
          BY <1>3, <4>2
        <5>2. run[b].pc \notin Open
          BY <1>9, <1>10, <2>6, <5>1
        <5>3. b \in Jobs
          BY <1>1, <2>6 DEF TypeOK, Backup
        <5>4. run[b].pc \in Open \cup Kept \/ ~Exists(mem, b)
          BY <1>1, <1>10, <2>6 DEF Inv, OutcomeInv, Attended
        <5>5. CASE run[b].pc \in Kept
          BY <2>4, <3>1, <5>1, <5>5
        <5>6. CASE ~Exists(mem, b)
          <6>1. State(mem, b) = None /\ mem = disk
            BY <1>10, <5>6 DEF Inv, OutcomeInv, State
          <6>. QED BY <2>4, <5>1, <5>2, <6>1 DEF Spent, Over
        <5>. QED BY <5>2, <5>4, <5>5, <5>6
      <4>. QED BY <4>1, <4>2
    <3>. QED BY <1>1, <2>1, <2>2, <2>3, <2>4, <2>6, <3>1, <3>3
             DEF Recoverable, State, Exists
  <2>. QED BY <2>5, <2>6
<1>11. ASSUME Recoverable(p, AccountOf) PROVE Recoverable(p, AccountOf)'
  <2>1. /\ AccountOf[auth'[p]] = AccountOf[auth[p]]
        /\ AccountOf[good'[p]] = AccountOf[good[p]]
    <3>1. /\ auth[p] \in Auth \cup {None} /\ good[p] \in Auth \cup {None}
          /\ auth'[p] \in Auth \cup {None} /\ good'[p] \in Auth \cup {None}
      BY <1>1, <1>3 DEF TypeOK
    <3>2. \A a \in Auth \cup {None} : AccountOf[a] = IF a = None THEN None ELSE a.account
      BY DEF AccountOf
    <3>3. AccountOf[auth'[p]] = AccountOf[auth[p]]
      BY <1>1, <1>3, <3>1, <3>2
    <3>. QED BY <1>3, <3>3
  <2>2. Spent(p) => Spent(p)'
    BY <1>1 DEF Spent, Over, State, Exists
  <2>. QED BY <1>1, <1>11, <2>1, <2>2 DEF Recoverable, State, Exists
<1>12. ASSUME NEW q \in Profiles, q # p, NEW f, Recoverable(q, f) PROVE Recoverable(q, f)'
  BY <1>1, <1>3, <1>12 DEF Recoverable, Spent, Over, State, Exists
<1>13. RecoverInv'
  <2>1. count'.fault = 0 \/ count'.refresh = 0 => count.fault = 0
    BY <1>1
  <2>2. \A q \in Profiles : Recoverable(q, AccountOf)'
    BY <1>11, <1>12 DEF Inv, RecoverInv
  <2>3. count.fault = 0 => \A q \in Profiles : Recoverable(q, File)'
    BY <1>10, <1>12 DEF Inv, RecoverInv
  <2>. QED BY <2>1, <2>2, <2>3 DEF RecoverInv
<1>14. OutcomeInv'
  <2>1. SUFFICES ASSUME count.fault = 0 PROVE OutcomeInv'
    BY <1>1 DEF OutcomeInv
  <2>2. ASSUME NEW j \in Jobs, run[j].pc \in Changed
        PROVE  auth'[run[j].profile] \notin {None, good'[run[j].profile]}
    <3>1. auth[run[j].profile] \notin {None, good[run[j].profile]}
      BY <2>1, <2>2 DEF Inv, OutcomeInv
    <3>2. CASE run[j].profile # p
      <4>1. run[j].profile \in Profiles
        BY <2>2 DEF Inv, RunOf, Changed
      <4>. QED BY <1>3, <3>1, <3>2, <4>1
    <3>3. CASE run[j].profile = p
      <4>1. auth[p] # good[p] /\ good'[p] = good[p]
        BY <1>3, <3>1, <3>3
      <4>2. auth'[p] # good[p]
        <5>1. CASE auth'[p] = auth[p]
          BY <4>1, <5>1
        <5>2. CASE auth'[p] # auth[p]
          <6>1. Tokens \ Live(p) # {} /\ auth' = [auth EXCEPT ![p].token =
                                          CHOOSE t \in Tokens \ Live(p) : TRUE]
            BY <5>2 DEF RefreshDone
          <6>2. auth'[p].token \notin Live(p)
            <7>1. PICK t \in Tokens \ Live(p) : auth' = [auth EXCEPT ![p].token = t]
              BY <6>1
            <7>2. auth[p] \in Auth
              BY <1>1 DEF TypeOK
            <7>3. auth'[p] = [auth[p] EXCEPT !.token = t]
              BY <1>1, <7>1 DEF TypeOK
            <7>. QED BY <7>2, <7>3 DEF Auth
          <6>3. good[p] # None => good[p].token \in Live(p)
            BY DEF Live
          <6>. QED BY <1>3, <6>2, <6>3
        <5>. QED BY <5>1, <5>2
      <4>. QED BY <1>3, <3>3, <4>1, <4>2
    <3>. QED BY <3>2, <3>3
  <2>3. \A q \in Profiles : Attended(q)' /\ Revocable(q)'
    BY <1>1, <2>1 DEF Inv, OutcomeInv, Attended, Revocable, State, Exists
  <2>. QED BY <1>1, <2>1, <2>2, <2>3 DEF Inv, OutcomeInv
<1>. QED BY <1>4, <1>5, <1>6, <1>7, <1>13, <1>14 DEF Inv


-----------------------------------------------------------------------------
(* Crash and recovery                                                      *)

LEMMA CrashInv ==
  ASSUME Inv, Crash
  PROVE  Inv'
<1>1. /\ TypeOK /\ mem' = disk /\ run' = [j \in Jobs |-> NoRun] /\ asked' = {}
      /\ phase' = "down" /\ todo' = {} /\ count.crash < MaxCrashes
      /\ count' = [count EXCEPT !.crash = @ + 1]
      /\ lock' = [p \in Profiles |-> IF lock[p] = None THEN None ELSE "orphan"]
      /\ UNCHANGED <<disk, auth, backup, reg, good, owned>>
  BY DEF Inv, Crash, ghosts
<1>2. /\ count' \in [crash : 0..MaxCrashes, fault : 0..MaxFaults, refresh : 0..MaxRefreshes]
      /\ count'.fault = count.fault /\ count'.refresh = count.refresh
  BY <1>1, LoginAssumption DEF TypeOK
<1>3. /\ run' \in [Jobs -> Run]
      /\ \A j \in Jobs : run'[j] = NoRun /\ run'[j].pc = "idle"
  BY <1>1 DEF NoRun, Run, Points
<1>4. TypeOK' /\ PhaseInv' /\ RefreshInv'
  BY <1>1, <1>2, <1>3, LoginAssumption DEF TypeOK, PhaseInv, RefreshInv
<1>5. BackupInv'
  <2>1. ASSUME NEW p \in Profiles, backup[p] # None
        PROVE  LoginOf(disk, backup[p].job, p) /\ run'[backup[p].job].pc = "idle"
    BY <1>1, <1>3, <2>1 DEF Inv, BackupInv, TypeOK, Backup
  <2>. QED BY <1>1, <2>1 DEF BackupInv, LoginOf, State, Exists
<1>6. ASSUME NEW p \in Profiles, NEW f, Recoverable(p, f) PROVE Recoverable(p, f)'
  <2>1. backup[p] # None => run'[backup[p].job].pc = "idle"
    BY <1>1, <1>3 DEF TypeOK, Backup
  <2>. QED BY <1>1, <1>6, <2>1 DEF Recoverable, Spent, Over, State, Exists, Open, Kept
<1>7. RecoverInv'
  BY <1>2, <1>6 DEF Inv, RecoverInv
<1>8. OutcomeInv'
  <2>1. SUFFICES ASSUME count.fault = 0 PROVE OutcomeInv'
    BY <1>2 DEF OutcomeInv
  <2>2. mem = disk /\ \A p \in Profiles : Revocable(p)
    BY <2>1 DEF Inv, OutcomeInv
  <2>3. \A j \in Jobs : run'[j].pc \notin Changed \cup Open
    BY <1>3 DEF Changed, Open
  <2>4. ASSUME NEW p \in Profiles PROVE Attended(p)' /\ Revocable(p)'
    <3>1. backup[p] # None => run'[backup[p].job].pc \notin Open
      BY <1>1, <2>3 DEF TypeOK, Backup
    <3>. QED BY <1>1, <2>2, <3>1 DEF Attended, Revocable, State, Exists
  <2>. QED BY <1>1, <2>3, <2>4 DEF OutcomeInv
<1>9. \A j \in Jobs : RunOf(j)'
  BY <1>3, IdleRun
<1>. QED BY <1>4, <1>5, <1>7, <1>8, <1>9 DEF Inv

\* While the process does not serve, nobody works.
LEMMA NobodyRuns ==
  ASSUME Inv, phase # "serving"
  PROVE  \A j \in Jobs : run[j].pc = "idle" /\ ~run[j].late
BY DEF Inv, RunOf

LEMMA RunsRest ==
  ASSUME \A j \in Jobs : run[j].pc = "idle" /\ ~run[j].late, run' = run
  PROVE  \A j \in Jobs : RunOf(j)'
BY DEF RunOf, Open, Kept, Holding, Early

LEMMA BootInv ==
  ASSUME Inv, Boot
  PROVE  Inv'
<1>1. /\ TypeOK /\ mem = disk /\ phase = "down"
      /\ UNCHANGED <<run, asked, auth, backup, lock, reg>>
      /\ \A j \in Jobs : run[j].pc = "idle" /\ ~run[j].late
  BY NobodyRuns DEF Inv, PhaseInv, Boot, files
<1>. DEFINE cut == {j \in Jobs : State(disk, j) \in Active}
<1>2. PICK order \in Orders(cut) :
        \/ /\ Saved(Interrupted(disk, order))
           /\ phase' = "recovering" /\ todo' = Profiles
        \/ /\ order # <<>> /\ Fault
           /\ UNCHANGED <<store, ghosts, process>>
  BY DEF Boot
<1>3. \A j \in Jobs : RunOf(j)'
  BY <1>1, RunsRest
<1>4. CASE Fault /\ UNCHANGED <<store, ghosts, process>>
  <2>1. UNCHANGED <<mem, disk, good, owned, phase, todo>>
    BY <1>4 DEF store, ghosts, process
  <2>2. TypeOK' /\ count'.fault # 0 /\ count'.refresh = count.refresh
    BY <1>1, <1>4, <2>1, Faulty DEF TypeOK
  <2>3. PhaseInv' /\ RefreshInv' /\ OutcomeInv'
    BY <1>1, <2>1, <2>2 DEF Inv, PhaseInv, RefreshInv, OutcomeInv, State, Exists
  <2>4. BackupInv'
    BY <1>1, <2>1 DEF Inv, BackupInv, LoginOf, State, Exists
  <2>5. RecoverInv'
    BY <1>1, <2>1, <2>2 DEF Inv, RecoverInv, Recoverable, Spent, Over, State, Exists
  <2>. QED BY <1>3, <2>2, <2>3, <2>4, <2>5 DEF Inv
<1>5. CASE /\ Saved(Interrupted(disk, order))
           /\ phase' = "recovering" /\ todo' = Profiles
  <2>. DEFINE st == Interrupted(disk, order)
              job == [j \in Jobs |-> IF j \in cut THEN [disk.job[j] EXCEPT !.state = "failed"]
                                     ELSE disk.job[j]]
  <2>1. order \in Seq(Jobs)
    <3>1. IsFiniteSet(cut)
      BY LoginAssumption, FS_Subset
    <3>2. Cardinality(cut) \in Nat
      BY <3>1, FS_CardinalityType
    <3>3. order \in [1..Cardinality(cut) -> Jobs]
      BY DEF Orders
    <3>4. [1..Cardinality(cut) -> Jobs] \in {[1..n -> Jobs] : n \in Nat}
      BY <3>2
    <3>. QED BY <3>3, <3>4, SeqDef, Zenon
  <2>2. ASSUME NEW j \in Jobs
        PROVE  /\ job[j] \in Job \cup {Unborn, None}
               /\ j \in cut => /\ disk.job[j] \in Job /\ job[j] \in Job
                               /\ job[j].state = "failed"
                               /\ job[j].type = disk.job[j].type
                               /\ job[j].profile = disk.job[j].profile
                               /\ job[j].new = disk.job[j].new
    <3>1. disk.job[j] \in Job \cup {Unborn, None}
      BY <1>1 DEF TypeOK, Store
    <3>2. CASE j \in cut
      <4>. DEFINE failed == [disk.job[j] EXCEPT !.state = "failed"]
      <4>1. disk.job[j] \in Job
        BY <1>1, <3>2, StateOf, LoginAssumption DEF TypeOK
      <4>2. /\ failed \in Job /\ failed.state = "failed" /\ failed.type = disk.job[j].type
            /\ failed.profile = disk.job[j].profile /\ failed.new = disk.job[j].new
        BY <4>1 DEF Job, Terminal
      <4>3. job[j] = failed
        BY <3>2
      <4>. HIDE DEF failed, job
      <4>. QED BY <4>1, <4>2, <4>3
    <3>. QED BY <3>1, <3>2
  <2>3. \A j \in Jobs : j \notin cut => job[j] = disk.job[j]
    OBVIOUS
  <2>4. job \in [Jobs -> Job \cup {Unborn, None}]
    BY <2>2
  <2>5. st = [job |-> job, ended |-> disk.ended \o order]
    BY DEF Interrupted
  <2>6. disk.ended \o order \in Seq(Jobs)
    BY <1>1, <2>1 DEF TypeOK, Store
  <2>. HIDE DEF job, st
  <2>7. st \in Store /\ st.job = job
    BY <2>4, <2>5, <2>6 DEF Store
  <2>8. /\ Pruned(st) \in Store /\ mem' = Pruned(st) /\ disk' = Pruned(st) /\ count' = count
        /\ good' = [p \in Profiles |-> IF p \in Confirmed(st) THEN auth[p] ELSE good[p]]
        /\ owned' = owned \cup Confirmed(st)
    BY <1>5, <2>7, PrunedStore DEF Saved, st
  <2>9. \A j \in Jobs : \/ mem'.job[j] = job[j]
                        \/ State(st, j) \in Terminal /\ mem'.job[j] = None
    BY <2>7, <2>8, PrunedStore
  <2>10. ASSUME NEW j \in Jobs
         PROVE  /\ State(st, j) \notin Active
                /\ State(st, j) = "succeeded" => State(disk, j) = "succeeded"
                /\ State(mem', j) \notin Active
                /\ State(mem', j) = "succeeded" => State(disk, j) = "succeeded"
                /\ Over(disk, j) => Over(mem', j)
    <3>1. CASE j \in cut
      <4>1. State(st, j) = "failed" /\ State(disk, j) \in Active
        BY <2>2, <2>7, <3>1, LoginAssumption DEF State, Exists
      <4>2. State(mem', j) \in {"failed", None}
        BY <2>7, <2>9, <4>1 DEF State, Exists
      <4>. QED BY <4>1, <4>2, LoginAssumption DEF Active, Terminal, Over
    <3>2. CASE j \notin cut
      <4>1. State(st, j) = State(disk, j)
        BY <2>3, <2>7, <3>2 DEF State, Exists
      <4>2. State(mem', j) \in {State(disk, j), None}
        BY <2>7, <2>9, <4>1 DEF State, Exists
      <4>. QED BY <3>2, <4>1, <4>2, LoginAssumption DEF Active, Terminal, Over
    <3>. QED BY <3>1, <3>2
  <2>11. Confirmed(st) = {}
    BY <2>10 DEF Confirmed
  <2>12. good' = good /\ owned' = owned
    BY <1>1, <2>8, <2>11 DEF TypeOK
  <2>13. ASSUME NEW j \in Jobs, NEW p, LoginOf(disk, j, p)
         PROVE  /\ LoginOf(mem', j, p)
                /\ mem'.job[j] # None => /\ disk.job[j] # None
                                         /\ mem'.job[j].new = disk.job[j].new
    <3>1. mem'.job[j] = job[j] \/ mem'.job[j] = None
      BY <2>9
    <3>2. j \in cut => job[j] # Unborn /\ disk.job[j] # None
      BY <2>2, LoginAssumption
    <3>. QED BY <2>2, <2>3, <2>13, <3>1, <3>2, LoginAssumption DEF LoginOf
  <2>14. TypeOK'
    BY <1>1, <1>5, <2>8, <2>12 DEF TypeOK
  <2>15. PhaseInv' /\ RefreshInv'
    BY <1>1, <1>5, <2>8, <2>10 DEF Inv, PhaseInv, RefreshInv, State, Exists
  <2>16. BackupInv'
    <3>1. ASSUME NEW p \in Profiles, backup[p] # None
          PROVE  LoginOf(mem', backup[p].job, p) /\ run[backup[p].job].pc = "idle"
      BY <1>1, <2>13, <3>1 DEF Inv, BackupInv, TypeOK, Backup
    <3>. QED BY <1>1, <2>8, <3>1 DEF BackupInv, LoginOf, State, Exists
  <2>17. ASSUME NEW p \in Profiles, NEW f, Recoverable(p, f) PROVE Recoverable(p, f)'
    <3>1. CASE backup[p] = None
      BY <1>1, <2>12, <2>17, <3>1 DEF Recoverable
    <3>2. CASE backup[p] # None
      <4>1. backup[p].job \in Jobs /\ run[backup[p].job].pc = "idle"
        BY <1>1, <3>2 DEF TypeOK, Backup
      <4>2. Spent(p) => Spent(p)'
        BY <1>1, <2>8, <2>10, <4>1 DEF Spent, Over, State, Exists
      <4>3. State(mem', backup[p].job) = "succeeded" =>
              State(disk, backup[p].job) = "succeeded"
        BY <2>10, <4>1
      <4>. QED BY <1>1, <2>8, <2>12, <2>17, <3>2, <4>1, <4>2, <4>3
               DEF Recoverable, State, Exists, Kept
    <3>. QED BY <3>1, <3>2
  <2>18. RecoverInv'
    BY <2>8, <2>17 DEF Inv, RecoverInv
  <2>19. OutcomeInv'
    <3>1. SUFFICES ASSUME count.fault = 0 PROVE OutcomeInv'
      BY <2>8 DEF OutcomeInv
    <3>2. ASSUME NEW p \in Profiles PROVE Attended(p)' /\ Revocable(p)'
      <4>1. Attended(p)'
        BY <1>5, <3>2 DEF Attended
      <4>2. Revocable(p)'
        <5>1. SUFFICES ASSUME p \in reg \ owned PROVE Revocable(p)'
          BY <1>1, <2>12 DEF Revocable
        <5>2. /\ backup[p] # None /\ State(mem, backup[p].job) # "succeeded"
              /\ mem.job[backup[p].job] # None => mem.job[backup[p].job].new
          BY <3>1, <5>1 DEF Inv, OutcomeInv, Revocable
        <5>3. /\ backup[p].job \in Jobs /\ run[backup[p].job].pc = "idle"
              /\ LoginOf(disk, backup[p].job, p)
          BY <1>1, <5>2 DEF TypeOK, Backup, Inv, BackupInv
        <5>4. /\ State(mem', backup[p].job) # "succeeded"
              /\ mem'.job[backup[p].job] # None => mem'.job[backup[p].job].new
          BY <1>1, <2>10, <2>13, <5>2, <5>3
        <5>. QED BY <1>1, <2>12, <5>2, <5>3, <5>4 DEF Revocable, State, Exists, Open
      <4>. QED BY <4>1, <4>2
    <3>. QED BY <1>1, <1>5, <2>8, <3>2 DEF OutcomeInv, Changed
  <2>. QED BY <1>3, <2>14, <2>15, <2>16, <2>18, <2>19 DEF Inv
<1>. QED BY <1>2, <1>4, <1>5


\* What a restored profile has left; it is no business of the others.
LEMMA ReconcileInv ==
  ASSUME Inv, NEW p \in Profiles, Reconcile(p)
  PROVE  Inv'
<1>. DEFINE b == backup[p].job
<1>1. /\ TypeOK /\ mem = disk /\ phase \in {"recovering", "failing"} /\ p \in todo
      /\ todo' = todo \ {p} /\ UNCHANGED <<mem, disk, good, owned, run, asked>>
      /\ \A j \in Jobs : run[j].pc = "idle" /\ ~run[j].late
      /\ \A j \in Jobs : State(mem, j) \notin Active
      /\ \A q \in Profiles : lock[q] # "refresh"
  BY NobodyRuns DEF Inv, PhaseInv, RefreshInv, Reconcile, store, ghosts
<1>2. backup[p] # None => b \in Jobs /\ backup[p].prev \in Auth \cup {None}
  BY <1>1 DEF TypeOK, Backup
<1>3. \/ /\ TakesBack(p) /\ count' = count /\ phase' = phase
         /\ lock' = [lock EXCEPT ![p] = None]
         /\ auth' = [auth EXCEPT ![p] = backup[p].prev]
         /\ reg' = IF mem.job[b].new THEN reg \ {p} ELSE reg
         /\ backup' = [backup EXCEPT ![p] = None]
      \/ /\ ~TakesBack(p) /\ UNCHANGED <<auth, lock, reg, phase, count>>
         /\ backup' = IF backup[p] # None /\ State(mem, b) = "succeeded"
                        THEN [backup EXCEPT ![p] = None] ELSE backup
      \/ /\ phase' = "failing" /\ Fault /\ backup' = backup
         /\ lock' \in {lock, [lock EXCEPT ![p] = None]}
         /\ reg' \in {reg, reg \ {p}}
         /\ auth' = auth \/ (TakesBack(p) /\ auth' = [auth EXCEPT ![p] = backup[p].prev])
  BY DEF Reconcile, ReconcileFails
<1>4. TakesBack(p) =>
        backup[p] # None /\ ~Over(mem, b) /\ State(mem, b) \in {"failed", "canceled"}
  BY LoginAssumption DEF TakesBack, Over, Terminal
<1>5. /\ auth' \in [Profiles -> Auth \cup {None}]
      /\ backup' \in [Profiles -> Backup \cup {None}]
      /\ lock' \in [Profiles -> Jobs \cup {None, "orphan", "refresh"}]
      /\ \A q \in Profiles : lock'[q] # "refresh"
      /\ reg' \subseteq Profiles
      /\ \A q \in Profiles \ {p} : /\ auth'[q] = auth[q] /\ backup'[q] = backup[q]
                                   /\ q \in reg' <=> q \in reg
      /\ backup'[p] \in {None, backup[p]}
  <2>1. TakesBack(p) => backup[p].prev \in Auth \cup {None}
    BY <1>2, <1>4
  <2>. QED BY <1>1, <1>3, <2>1, LoginAssumption DEF TypeOK
<1>6. /\ count' \in [crash : 0..MaxCrashes, fault : 0..MaxFaults, refresh : 0..MaxRefreshes]
      /\ \/ count' = count /\ phase' = phase
         \/ count'.fault # 0 /\ count'.refresh = count.refresh /\ phase' = "failing"
  BY <1>1, <1>3, Faulty DEF TypeOK
<1>7. TypeOK'
  BY <1>1, <1>5, <1>6 DEF TypeOK
<1>8. PhaseInv' /\ RefreshInv'
  BY <1>1, <1>5, <1>6 DEF PhaseInv, RefreshInv, State, Exists
<1>9. BackupInv'
  <2>1. ASSUME NEW q \in Profiles, backup'[q] # None
        PROVE  /\ backup'[q] = backup[q] /\ LoginOf(disk, backup[q].job, q)
               /\ run[backup[q].job].pc = "idle"
    <3>1. backup'[q] = backup[q] /\ backup[q] # None
      BY <1>5, <2>1
    <3>. QED BY <1>1, <3>1 DEF Inv, BackupInv, TypeOK, Backup
  <2>. QED BY <1>1, <2>1 DEF BackupInv, LoginOf, State, Exists
<1>10. \A j \in Jobs : RunOf(j)'
  BY <1>1, RunsRest
<1>11. ASSUME NEW q \in Profiles, backup'[q] # None
       PROVE  backup'[q] = backup[q] /\ backup[q].job \in Jobs
  BY <1>1, <1>5, <1>11 DEF TypeOK, Backup
<1>12. ASSUME NEW q \in Profiles, NEW f, Recoverable(q, f) PROVE Recoverable(q, f)'
  <2>1. CASE q # p
    BY <1>1, <1>5, <1>12, <2>1 DEF Recoverable, Spent, Over, State, Exists
  <2>2. CASE q = p /\ TakesBack(p)
    <3>1. f[backup[p].prev] = f[good[p]]
      BY <1>4, <1>12, <2>2 DEF Recoverable, Spent
    <3>2. backup'[p] = None => auth'[p] = backup[p].prev
      BY <1>1, <1>3, <1>4, <2>2 DEF TypeOK
    <3>3. State(disk, b) # "succeeded" /\ run[b].pc \notin Kept
      BY <1>1, <1>2, <1>4, <2>2 DEF Kept
    <3>. QED BY <1>1, <1>5, <2>2, <3>1, <3>2, <3>3 DEF Recoverable, State, Exists
  <2>3. CASE q = p /\ ~TakesBack(p)
    <3>1. auth' = auth
      BY <1>3, <2>3
    <3>2. backup'[p] = backup[p] => (Spent(p) => Spent(p)')
      BY <1>1 DEF Spent, Over, State, Exists
    <3>3. backup[p] # None /\ backup'[p] = None => f[auth[p]] = f[good[p]]
      <4>1. SUFFICES ASSUME backup[p] # None, backup'[p] = None
                     PROVE  State(disk, b) = "succeeded"
        BY <1>12, <2>3 DEF Recoverable
      <4>. QED BY <1>1, <1>3, <2>3, <4>1
    <3>. QED BY <1>1, <1>5, <1>12, <2>3, <3>1, <3>2, <3>3 DEF Recoverable, State, Exists
  <2>. QED BY <2>1, <2>2, <2>3
<1>13. RecoverInv'
  BY <1>6, <1>12 DEF Inv, RecoverInv
<1>14. OutcomeInv'
  <2>1. SUFFICES ASSUME count'.fault = 0 PROVE OutcomeInv'
    BY DEF OutcomeInv
  <2>2. /\ count.fault = 0 /\ phase' = phase /\ phase = "recovering"
        /\ \A q \in Profiles : Attended(q) /\ Revocable(q)
    BY <1>1, <1>6, <2>1 DEF Inv, OutcomeInv
  <2>3. ASSUME NEW q \in Profiles PROVE Attended(q)'
    <3>1. SUFFICES ASSUME backup'[q] # None, q \notin todo'
                   PROVE  ~Exists(mem, backup'[q].job)
      BY <1>1, <2>2 DEF Attended, Exists
    <3>2. CASE q # p
      <4>1. backup[q] # None /\ q \notin todo
        BY <1>1, <1>11, <3>1, <3>2
      <4>2. run[backup[q].job].pc \notin Open \cup Kept
        BY <1>1, <1>11, <3>1 DEF Open, Kept
      <4>. QED BY <1>11, <2>2, <3>1, <4>1, <4>2 DEF Attended
    <3>3. CASE q = p
      <4>1. ~TakesBack(p) /\ State(mem, b) # "succeeded" /\ backup[p] # None
        BY <1>1, <1>3, <1>6, <1>11, <2>1, <2>2, <3>1, <3>3 DEF TypeOK
      <4>2. State(mem, b) \in Active \cup Terminal \cup {None}
        BY <1>1, <1>2, <4>1, StateOf DEF TypeOK
      <4>3. State(mem, b) = None
        BY <1>1, <1>2, <4>1, <4>2 DEF TakesBack, Terminal
      <4>. QED BY <1>1, <1>2, <1>11, <3>1, <3>3, <4>1, <4>3, StateOf DEF TypeOK
    <3>. QED BY <3>2, <3>3
  <2>4. ASSUME NEW q \in Profiles PROVE Revocable(q)'
    <3>1. SUFFICES ASSUME q \in reg' \ owned PROVE Revocable(q)'
      BY <1>1 DEF Revocable
    <3>2. q \in reg
      BY <1>3, <3>1
    <3>3. /\ backup[q] # None /\ State(mem, backup[q].job) # "succeeded"
          /\ mem.job[backup[q].job] # None => mem.job[backup[q].job].new
      BY <2>2, <3>1, <3>2 DEF Revocable
    <3>4. backup'[q] = backup[q]
      <4>1. CASE q # p
        BY <1>5, <4>1
      <4>2. CASE q = p
        <5>1. ~TakesBack(p)
          <6>1. SUFFICES ASSUME TakesBack(p) PROVE FALSE
            OBVIOUS
          <6>2. mem.job[b] # None
            BY <1>1, <1>2, <1>4, <6>1, StateOf, LoginAssumption DEF TypeOK, Terminal
          <6>3. reg' = reg \ {p}
            BY <1>3, <2>1, <2>2, <3>3, <4>2, <6>1, <6>2, <1>6, Faulty, <1>1
          <6>. QED BY <3>1, <4>2, <6>3
        <5>. QED BY <1>3, <3>3, <4>2, <5>1
      <4>. QED BY <4>1, <4>2
    <3>5. backup[q].job \in Jobs
      BY <1>1, <3>3 DEF TypeOK, Backup
    <3>. QED BY <1>1, <3>1, <3>3, <3>4, <3>5 DEF Revocable, State, Exists, Open
  <2>. QED BY <1>1, <2>2, <2>3, <2>4 DEF OutcomeInv, Changed
<1>. QED BY <1>7, <1>8, <1>9, <1>10, <1>13, <1>14 DEF Inv

LEMMA ServeInv ==
  ASSUME Inv, Serve
  PROVE  Inv'
<1>1. /\ TypeOK /\ mem = disk /\ phase \in {"recovering", "failing"} /\ todo = {}
      /\ phase' = IF phase = "failing" THEN "down" ELSE "serving"
      /\ UNCHANGED <<mem, disk, good, owned, count, run, asked, auth, backup, lock, reg, todo>>
      /\ \A j \in Jobs : run[j].pc = "idle" /\ ~run[j].late
      /\ \A q \in Profiles : lock[q] # "refresh"
  BY NobodyRuns DEF Inv, PhaseInv, RefreshInv, Serve, Stored, store, ghosts, files
<1>2. TypeOK' /\ PhaseInv' /\ RefreshInv'
  BY <1>1 DEF TypeOK, PhaseInv, RefreshInv
<1>3. BackupInv'
  BY <1>1 DEF Inv, BackupInv, LoginOf, State, Exists
<1>4. RecoverInv'
  BY <1>1 DEF Inv, RecoverInv, Recoverable, Spent, Over, State, Exists
<1>5. OutcomeInv'
  <2>1. SUFFICES ASSUME count.fault = 0 PROVE OutcomeInv'
    BY <1>1 DEF OutcomeInv
  <2>2. phase = "recovering" /\ \A p \in Profiles : Attended(p) /\ Revocable(p)
    BY <1>1, <2>1 DEF Inv, OutcomeInv
  <2>3. ASSUME NEW p \in Profiles PROVE Attended(p)' /\ Revocable(p)'
    BY <1>1, <2>2 DEF Attended, Revocable, State, Exists
  <2>. QED BY <1>1, <2>2, <2>3 DEF OutcomeInv, Changed
<1>6. \A j \in Jobs : RunOf(j)'
  BY <1>1, RunsRest
<1>. QED BY <1>2, <1>3, <1>4, <1>5, <1>6 DEF Inv


-----------------------------------------------------------------------------
(* The invariant, and what it says of the runs' properties                 *)

LEMMA InitInv == Init => Inv
<1>. SUFFICES ASSUME Init PROVE Inv
  OBVIOUS
<1>1. /\ mem = [job |-> [j \in Jobs |-> Unborn], ended |-> <<>>] /\ disk = mem
      /\ run = [j \in Jobs |-> NoRun] /\ asked = {}
      /\ backup = [p \in Profiles |-> None] /\ lock = [p \in Profiles |-> None]
      /\ reg = Registered /\ phase = "serving" /\ todo = {}
      /\ count = [crash |-> 0, fault |-> 0, refresh |-> 0]
      /\ good = auth /\ owned = reg
  BY DEF Init
<1>2. auth \in [Profiles -> Auth \cup {None}]
  <2>1. (CHOOSE t \in Tokens : TRUE) \in Tokens /\ (CHOOSE a \in Accounts : TRUE) \in Accounts
    BY LoginAssumption
  <2>2. [token |-> CHOOSE t \in Tokens : TRUE, account |-> CHOOSE a \in Accounts : TRUE]
          \in Auth
    BY <2>1 DEF Auth
  <2>. QED BY <2>2 DEF Init
<1>3. mem \in Store /\ \A j \in Jobs : mem.job[j] = Unborn
  <2>1. <<>> \in Seq(Jobs)
    OBVIOUS
  <2>. QED BY <1>1, <2>1 DEF Store
<1>4. /\ run \in [Jobs -> Run]
      /\ \A j \in Jobs : run[j].pc = "idle" /\ ~run[j].late
  BY <1>1 DEF NoRun, Run, Points
<1>5. TypeOK
  BY <1>1, <1>2, <1>3, <1>4, LoginAssumption DEF TypeOK
<1>6. \A j \in Jobs : State(mem, j) = None
  BY <1>3 DEF State, Exists
<1>7. PhaseInv /\ RefreshInv
  BY <1>1, LoginAssumption DEF PhaseInv, RefreshInv
<1>8. BackupInv
  BY <1>1, <1>6, LoginAssumption DEF BackupInv, Terminal
<1>9. RecoverInv
  BY <1>1 DEF RecoverInv, Recoverable
<1>10. OutcomeInv
  BY <1>1, <1>4 DEF OutcomeInv, Attended, Revocable, Changed
<1>11. \A j \in Jobs : RunOf(j)
  BY <1>4 DEF RunOf, Open, Kept, Holding, Early
<1>. QED BY <1>5, <1>7, <1>8, <1>9, <1>10, <1>11 DEF Inv

LEMMA AskInv ==
  ASSUME Inv, NEW p \in Profiles, AskCheck(p) \/ AskLogin(p)
  PROVE  Inv'
<1>1. asked \subseteq [kind : {"check", "login"}, profile : Profiles, exists : BOOLEAN]
  BY DEF Inv, TypeOK
<1>2. UNCHANGED <<store, run, files, process, count, ghosts>>
  BY DEF AskCheck, AskLogin, Stored
<1>3. asked' \subseteq [kind : {"check", "login"}, profile : Profiles, exists : BOOLEAN]
  <2>. DEFINE exists == p \in reg
              check == [kind |-> "check", profile |-> p, exists |-> TRUE]
              login == [kind |-> "login", profile |-> p, exists |-> exists]
  <2>1. exists \in BOOLEAN
    OBVIOUS
  <2>2. asked' = asked \cup {check} \/ asked' = asked \cup {login}
    BY DEF AskCheck, AskLogin
  <2>. HIDE DEF exists
  <2>3. /\ check \in [kind : {"check", "login"}, profile : Profiles, exists : BOOLEAN]
        /\ login \in [kind : {"check", "login"}, profile : Profiles, exists : BOOLEAN]
    BY <2>1
  <2>. HIDE DEF check, login
  <2>. QED BY <1>1, <2>2, <2>3
<1>. QED BY <1>2, <1>3, AskedInv

LEMMA NextInv == Inv /\ [Next]_vars => Inv'
<1>. SUFFICES ASSUME Inv, [Next]_vars PROVE Inv'
  OBVIOUS
<1>1. CASE UNCHANGED vars
  <2>1. UNCHANGED <<store, run, asked, files, process, count, ghosts>>
    BY <1>1 DEF vars
  <2>. QED BY <2>1, AskedInv DEF Inv, TypeOK
<1>2. ASSUME NEW p \in Profiles,
             AskCheck(p) \/ AskLogin(p) \/ RefreshLock(p) \/ RefreshDone(p) \/ Reconcile(p)
      PROVE  Inv'
  BY <1>2, AskInv, RefreshLockInv, RefreshDoneInv, ReconcileInv
<1>3. ASSUME NEW q \in asked, CreateJob(q) PROVE Inv'
  BY <1>3, CreateInv
<1>4. ASSUME NEW j \in Jobs, CancelJob(j) \/ Step(j) PROVE Inv'
  BY <1>4, CancelInv, StepInv
<1>5. CASE Crash \/ Boot \/ Serve
  BY <1>5, CrashInv, BootInv, ServeInv
<1>. QED BY <1>1, <1>2, <1>3, <1>4, <1>5 DEF Next

\* The invariant holds in every behaviour of the login jobs.
THEOREM AdminInvariant == Spec => []Inv
BY InitInv, NextInv, PTL DEF Spec

\* Every variable keeps its type, whatever the jobs, the gateway and the crashes do.
THEOREM TypeCorrect == Spec => []TypeOK
<1>1. Inv => TypeOK
  BY DEF Inv
<1>. QED BY <1>1, AdminInvariant, PTL

\* The auth file that ought to survive is in place or in the profile's backup, at every
\* point at which the process may die (service.go:302-317, 392-422).
THEOREM Survives == Spec => []AuthRecoverable
<1>1. Inv => AuthRecoverable
  <2>. SUFFICES ASSUME Inv, count.fault = 0 \/ count.refresh = 0, NEW p \in Profiles
                PROVE  auth[p] = good[p] \/ (backup[p] # None /\ backup[p].prev = good[p])
    BY DEF AuthRecoverable
  <2>1. Recoverable(p, File)
    BY DEF Inv, RecoverInv
  <2>2. \A a \in Auth \cup {None} : File[a] = a
    BY DEF File
  <2>3. /\ auth[p] \in Auth \cup {None} /\ good[p] \in Auth \cup {None}
        /\ backup[p] # None => backup[p].prev \in Auth \cup {None}
    BY DEF Inv, TypeOK, Backup
  <2>. QED BY <2>1, <2>2, <2>3 DEF Recoverable
<1>. QED BY <1>1, AdminInvariant, PTL

\* Without faults of the file system, a profile that nobody works on has its login kept
\* or undone without a trace (service.go:386-422, login_backup.go:155-207).
THEOREM Settles == Spec => []SettledOutcome
<1>1. Inv => SettledOutcome
  <2>. SUFFICES ASSUME Inv, count.fault = 0, NEW p \in Profiles, Settled(p)
                PROVE  auth[p] = good[p] /\ backup[p] = None /\ (p \in reg => p \in owned)
    BY DEF SettledOutcome
  <2>1. /\ Recoverable(p, File) /\ Attended(p) /\ Revocable(p) /\ phase = "serving"
    BY DEF Inv, RecoverInv, OutcomeInv, Settled
  <2>2. backup[p] = None
    <3>1. SUFFICES ASSUME backup[p] # None PROVE FALSE
      OBVIOUS
    <3>2. backup[p].job \in Jobs /\ Exists(mem, backup[p].job)
      BY <3>1 DEF Inv, TypeOK, Backup, Settled
    <3>3. run[backup[p].job].pc \in Open \cup Kept
      BY <2>1, <3>1, <3>2 DEF Attended
    <3>4. run[backup[p].job].profile = p
      BY <3>1, <3>2, <3>3 DEF Inv, BackupInv, Open, Kept
    <3>. QED BY <3>2, <3>4 DEF Settled
  <2>3. File[auth[p]] = auth[p] /\ File[good[p]] = good[p]
    BY DEF Inv, TypeOK, File
  <2>. QED BY <2>1, <2>2, <2>3 DEF Recoverable, Revocable
<1>. QED BY <1>1, AdminInvariant, PTL


-----------------------------------------------------------------------------
(* A re-login keeps the account                                            *)

\* Where a login may still succeed, and where its new auth file has been validated.
Hopeful == {"starting", "approving", "written", "validating", "finalizing",
            "registering", "verifying", "succeeding"}
Validated == {"finalizing", "registering", "verifying", "succeeding"}

\* A job that knew its profile remembers the account, unless there was none or the
\* profile is registered no more, in which case it cannot succeed; what has been
\* validated belongs to the account remembered.
AccountsOf(j) ==
  LET r == run[j]
      p == r.profile
  IN /\ r.pc \in Hopeful /\ ~r.new =>
          \/ r.prev = None \/ p \notin reg
          \/ r.old # None /\ r.old = AccountOf[r.prev]
     /\ r.pc \in Changed => auth[p] # None
     /\ r.pc \in Validated /\ r.old # None => AccountOf[auth[p]] = r.old
     /\ r.pc = "succeeding" => p \in reg

\* So does the one of a login that has succeeded in memory only.
UnsavedAccounts ==
  \A j \in Jobs :
    /\ State(mem, j) = "succeeded" /\ State(disk, j) # "succeeded"
    /\ mem.job[j].type = "login" /\ ~mem.job[j].new
    => LET p == mem.job[j].profile IN
       good[p] = None \/ AccountOf[auth[p]] = AccountOf[good[p]]

AccountInv == UnsavedAccounts /\ \A j \in Jobs : AccountsOf(j)


LEMMA AccountStays ==
  ASSUME NEW i \in Jobs, AccountsOf(i), run'[i] = run[i],
         run[i].pc \in Open =>
           /\ run[i].profile \in reg' <=> run[i].profile \in reg
           /\ AccountOf[auth'[run[i].profile]] = AccountOf[auth[run[i].profile]]
           /\ auth[run[i].profile] # None => auth'[run[i].profile] # None
  PROVE  AccountsOf(i)'
BY DEF AccountsOf, Open, Hopeful, Changed, Validated

\* A login that goes on in hope takes along what it remembers.
LEMMA AccountGoesOn ==
  ASSUME NEW j \in Jobs, AccountsOf(j), Inv, NEW pc \in Points, Goto(j, pc),
         pc \in Hopeful \cup Changed => run[j].pc \in Open,
         pc \in Hopeful => run[j].pc \in Hopeful,
         pc \in Changed => auth'[run[j].profile] # None,
         pc \in Validated => /\ auth' = auth
                             /\ \/ run[j].pc \in Validated
                                \/ Valid(j) /\ auth[run[j].profile] # None,
         pc = "succeeding" => run[j].profile \in reg',
         run[j].profile \in reg' /\ pc \in Hopeful =>
           run[j].profile \in reg \/ run[j].new
  PROVE  AccountsOf(j)'
<1>1. run \in [Jobs -> Run] /\ TypeOK
  BY DEF Inv, TypeOK
<1>2. CASE pc \in Hopeful \cup Changed
  <2>. DEFINE p == run[j].profile
              s == run'[j]
  <2>1. /\ s.pc = pc /\ s.profile = p /\ s.new = run[j].new /\ s.prev = run[j].prev
        /\ s.old = run[j].old
    BY <1>1, <1>2, GotoRun DEF Hopeful, Changed
  <2>. HIDE DEF s
  <2>2. pc \in Validated /\ run[j].old # None => AccountOf[auth[p]] = run[j].old
    <3>1. SUFFICES ASSUME pc \in Validated, run[j].old # None, run[j].pc \notin Validated
                   PROVE  AccountOf[auth[p]] = run[j].old
      BY DEF AccountsOf
    <3>2. Valid(j) /\ auth[p] # None
      BY <3>1
    <3>3. run[j].old = auth[p].account
      BY <3>1, <3>2 DEF Valid
    <3>4. p \in Profiles
      BY <1>2 DEF Inv, RunOf, Open
    <3>5. auth[p] \in Auth \cup {None}
      BY <1>1, <3>4 DEF TypeOK
    <3>. QED BY <3>2, <3>3, <3>5 DEF AccountOf
  <2>3. pc \in Hopeful /\ ~run[j].new =>
          \/ run[j].prev = None \/ p \notin reg'
          \/ run[j].old # None /\ run[j].old = AccountOf[run[j].prev]
    BY DEF AccountsOf
  <2>4. AccountsOf(j)' <=>
          /\ s.pc \in Hopeful /\ ~s.new =>
               \/ s.prev = None \/ s.profile \notin reg'
               \/ s.old # None /\ s.old = AccountOf[s.prev]
          /\ s.pc \in Changed => auth'[s.profile] # None
          /\ s.pc \in Validated /\ s.old # None => AccountOf[auth'[s.profile]] = s.old
          /\ s.pc = "succeeding" => s.profile \in reg'
    BY DEF AccountsOf, s
  <2>. QED BY <2>1, <2>2, <2>3, <2>4
<1>3. CASE pc \notin Hopeful \cup Changed
  <2>1. run'[j].pc \notin Hopeful \cup Changed
    <3>1. NoRun.pc = "idle"
      BY DEF NoRun
    <3>. QED BY <1>1, <1>3, <3>1, GotoRun DEF Hopeful, Changed
  <2>. QED BY <2>1 DEF AccountsOf, Hopeful, Changed, Validated
<1>. QED BY <1>2, <1>3


LEMMA OwnAccount ==
  ASSUME Inv, NEW j \in Jobs, AccountsOf(j), Step(j)
  PROVE  AccountsOf(j)'
<1>. USE DEF Points, Hopeful, Changed, Validated, Open, Is
<1>1. TypeOK /\ RunOf(j) /\ run \in [Jobs -> Run] /\ run[j] \in Run
  BY DEF Inv, TypeOK
<1>2. CASE Launch(j) \/ GiveUpLock(j) \/ LoginFails(j)
  BY <1>2, AccountGoesOn DEF Launch, GiveUpLock, LoginFails
<1>3. CASE RunCheck(j) \/ TakeLock(j) \/ Record(j) \/ ClearBackup(j)
  BY <1>3, AccountGoesOn DEF RunCheck, TakeLock, Record, ClearBackup
<1>4. CASE Succeed(j) \/ Relock(j)
  BY <1>4, AccountGoesOn DEF Succeed, Relock
<1>5. CASE Restore(j) \/ FailLogin(j) \/ Unlock(j)
  BY <1>5, AccountGoesOn DEF Restore, FailLogin, Unlock
<1>6. CASE WriteBackup(j)
  <2>. DEFINE p == run[j].profile
              old == IF run[j].new \/ auth[p] = None \/ p \notin reg
                       THEN None ELSE auth[p].account
  <2>1. CASE Goto(j, "failing")
    BY <2>1, AccountGoesOn
  <2>2. CASE run' = [run EXCEPT ![j].pc = "starting", ![j].prev = auth[p], ![j].old = old]
    <3>. DEFINE s == run'[j]
    <3>1. /\ s.pc = "starting" /\ s.profile = p /\ s.new = run[j].new
          /\ s.prev = auth[p] /\ s.old = old
      BY <1>1, <2>2 DEF Run
    <3>2. p \in Profiles /\ UNCHANGED reg
      BY <1>1, <1>6 DEF RunOf, WriteBackup
    <3>3. ~run[j].new /\ p \in reg /\ auth[p] # None
            => old # None /\ old = AccountOf[auth[p]]
      <4>1. auth[p] # None => auth[p] \in Auth
        BY <1>1, <3>2 DEF TypeOK
      <4>2. auth[p] # None => auth[p].account # None
        BY <4>1, LoginAssumption DEF Auth
      <4>. QED BY <4>1, <4>2 DEF AccountOf
    <3>. HIDE DEF s, old
    <3>4. AccountsOf(j)' <=>
            (~s.new => \/ s.prev = None \/ s.profile \notin reg'
                       \/ s.old # None /\ s.old = AccountOf[s.prev])
      BY <3>1 DEF AccountsOf, s
    <3>. QED BY <3>1, <3>2, <3>3, <3>4
  <2>. QED BY <1>6, <2>1, <2>2 DEF WriteBackup
<1>7. CASE Challenge(j)
  BY <1>7, AccountGoesOn DEF Challenge, files
<1>8. CASE AppServerWrites(j)
  <2>1. auth'[run[j].profile] # None /\ Goto(j, "written") /\ UNCHANGED reg
        /\ run[j].pc = "approving"
    <3>1. run[j].profile \in Profiles
      BY <1>1, <1>8 DEF RunOf, AppServerWrites
    <3>2. PICK a \in Accounts \cup {Invalid}, t \in Tokens :
            auth' = [auth EXCEPT ![run[j].profile] = [token |-> t, account |-> a]]
      <4>1. (CHOOSE t \in Tokens \ Live(run[j].profile) : TRUE)
              \in Tokens \ Live(run[j].profile)
        BY <1>8 DEF AppServerWrites
      <4>. QED BY <1>8, <4>1 DEF AppServerWrites
    <3>3. [token |-> t, account |-> a] \in Auth
      BY DEF Auth
    <3>4. auth'[run[j].profile] = [token |-> t, account |-> a]
      BY <1>1, <3>1, <3>2 DEF TypeOK
    <3>5. auth'[run[j].profile] # None
      <4>1. None \notin Auth
        BY LoginAssumption
      <4>2. auth'[run[j].profile] \in Auth
        BY <3>3, <3>4
      <4>. QED BY <4>1, <4>2
    <3>6. Goto(j, "written") /\ UNCHANGED reg /\ run[j].pc = "approving"
      BY <1>8 DEF AppServerWrites
    <3>. QED BY <3>5, <3>6
  <2>. QED BY <2>1, AccountGoesOn
<1>9. CASE LoginCompletes(j)
  <2>1. auth[run[j].profile] # None
    BY <1>9 DEF AccountsOf, LoginCompletes
  <2>. QED BY <1>9, <2>1, AccountGoesOn DEF LoginCompletes, files
<1>10. CASE Validate(j)
  <2>1. auth[run[j].profile] # None /\ run[j].pc = "validating" /\ UNCHANGED <<auth, reg>>
        /\ Goto(j, IF Valid(j) THEN "finalizing" ELSE "restoring")
    BY <1>10 DEF AccountsOf, Validate, files
  <2>2. CASE Valid(j)
    BY <2>1, <2>2, AccountGoesOn
  <2>3. CASE ~Valid(j)
    BY <2>1, <2>3, AccountGoesOn
  <2>. QED BY <2>2, <2>3
<1>11. CASE Finalize(j)
  <2>1. auth[run[j].profile] # None /\ run[j].pc = "finalizing" /\ UNCHANGED <<auth, reg>>
        /\ (Goto(j, "registering") \/ Goto(j, "restoring"))
    BY <1>11 DEF AccountsOf, Finalize, files
  <2>. QED BY <2>1, AccountGoesOn
<1>12. CASE Register(j)
  <2>1. /\ auth[run[j].profile] # None /\ run[j].pc = "registering" /\ UNCHANGED auth
        /\ \/ Goto(j, "verifying") /\ reg' = IF run[j].new THEN reg \cup {run[j].profile}
                                             ELSE reg
           \/ Goto(j, "restoring")
    BY <1>12 DEF AccountsOf, Register
  <2>. QED BY <2>1, AccountGoesOn
<1>13. CASE Verify(j)
  <2>1. auth[run[j].profile] # None /\ run[j].pc = "verifying" /\ UNCHANGED <<auth, reg>>
    BY <1>13 DEF AccountsOf, Verify, files
  <2>2. CASE run[j].profile \in reg /\ Goto(j, "succeeding")
    BY <2>1, <2>2, AccountGoesOn
  <2>3. CASE run' = [run EXCEPT ![j].pc = "rolling", ![j].late = TRUE]
    <3>1. run'[j].pc = "rolling" /\ run'[j].profile = run[j].profile
      BY <1>1, <2>3 DEF Run
    <3>. QED BY <2>1, <3>1 DEF AccountsOf
  <2>. QED BY <1>13, <2>2, <2>3 DEF Verify
<1>. QED BY <1>2, <1>3, <1>4, <1>5, <1>6, <1>7, <1>8, <1>9, <1>10, <1>11, <1>12, <1>13
         DEF Step

\* What the goroutine of one job leaves to the others.
LEMMA StepFrame ==
  ASSUME Inv, NEW j \in Jobs, Step(j)
  PROVE  /\ \A i \in Jobs \ {j} : run'[i] = run[i]
         /\ auth' # auth \/ reg' # reg => run[j].pc \in Open
         /\ \A q \in Profiles \ {run[j].profile} :
              auth'[q] = auth[q] /\ (q \in reg' <=> q \in reg)
<1>. USE DEF Is, Open, files
<1>1. TypeOK
  BY DEF Inv
<1>2. \A i \in Jobs \ {j} : run'[i] = run[i]
  <2>1. CASE \E pc : Goto(j, pc)
    BY <1>1, <2>1 DEF Goto, TypeOK
  <2>2. CASE WriteBackup(j) /\ ~Goto(j, "failing")
    BY <1>1, <2>2 DEF WriteBackup, TypeOK
  <2>3. CASE Verify(j) /\ ~Goto(j, "succeeding")
    BY <1>1, <2>3 DEF Verify, TypeOK
  <2>4. \/ \E pc : Goto(j, pc) \/ WriteBackup(j) \/ Verify(j)
    BY DEF Step, Launch, RunCheck, TakeLock, GiveUpLock, Challenge, AppServerWrites,
           LoginCompletes, LoginFails, Validate, Finalize, Register, Succeed, Record,
           ClearBackup, Relock, Restore, FailLogin, Unlock
  <2>. QED BY <2>1, <2>2, <2>3, <2>4
<1>3. CASE AppServerWrites(j)
  BY <1>1, <1>2, <1>3 DEF AppServerWrites, TypeOK
<1>4. CASE Register(j)
  BY <1>1, <1>2, <1>4 DEF Register, TypeOK
<1>5. CASE Restore(j)
  BY <1>1, <1>2, <1>5 DEF Restore, RestoreAll, TypeOK
<1>6. CASE UNCHANGED <<auth, reg>>
  BY <1>2, <1>6
<1>7. AppServerWrites(j) \/ Register(j) \/ Restore(j) \/ UNCHANGED <<auth, reg>>
  BY DEF Step, Launch, RunCheck, TakeLock, GiveUpLock, WriteBackup, Challenge,
         LoginCompletes, LoginFails, Validate, Finalize, Verify, Succeed, Record,
         ClearBackup, Relock, FailLogin, Unlock
<1>. QED BY <1>3, <1>4, <1>5, <1>6, <1>7

LEMMA StepAccounts ==
  ASSUME Inv, NEW j \in Jobs, Step(j), NEW i \in Jobs, AccountsOf(i)
  PROVE  AccountsOf(i)'
<1>1. CASE i = j
  BY <1>1, OwnAccount
<1>2. CASE i # j
  <2>1. SUFFICES ASSUME run[i].pc \in Open
                 PROVE  /\ run[i].profile \in reg' <=> run[i].profile \in reg
                        /\ auth'[run[i].profile] = auth[run[i].profile]
    BY <1>2, StepFrame, AccountStays
  <2>2. run[i].profile \in Profiles /\ backup[run[i].profile].job = i
    BY <2>1 DEF Inv, RunOf, Open
  <2>3. run[j].pc \in Open => backup[run[j].profile].job = j
    BY DEF Inv, RunOf
  <2>. QED BY <1>2, <2>2, <2>3, StepFrame
<1>. QED BY <1>1, <1>2


\* How a job's action treats the store.
InStore(j) ==
  \/ UNCHANGED <<mem, disk, good>>
  \/ UNCHANGED auth /\ \E st : Advance(st, j) /\ (Saved(st) \/ Unsaved(st))

LEMMA StepInStore ==
  ASSUME Inv, NEW j \in Jobs, Step(j) \/ CancelJob(j)
  PROVE  InStore(j)
<1>. USE DEF Active, Terminal, Save, files
<1>1. TypeOK /\ RunOf(j) /\ Advance(mem, j)
  BY SameAdvances DEF Inv
<1>2. ASSUME NEW state \in Active \cup Terminal, State(mem, j) \in Active, UNCHANGED auth,
             Save(Put(mem, j, state)),
             state = "succeeded" /\ mem.job[j].type = "login" => run[j].pc = "succeeding"
      PROVE  InStore(j)
  BY <1>1, <1>2, PutAdvances DEF InStore
<1>3. CASE CancelJob(j)
  BY <1>2, <1>3 DEF CancelJob, Cancelable
<1>4. CASE RunCheck(j)
  <2>1. CASE State(mem, j) = "checking"
    <3>1. mem.job[j].type = "check"
      BY <1>1, <1>4, <2>1, PutFacts DEF RunCheck, Is, RunOf
    <3>. QED BY <1>2, <1>4, <2>1, <3>1 DEF RunCheck
  <2>2. CASE State(mem, j) # "checking"
    BY <1>4, <2>2 DEF RunCheck, InStore, Stored, store, ghosts
  <2>. QED BY <2>1, <2>2
<1>5. CASE Challenge(j)
  BY <1>1, <1>5 DEF Challenge, InStore, Stored, store, ghosts
<1>6. CASE Finalize(j)
  BY <1>2, <1>6 DEF Finalize, InStore, Stored, store, ghosts
<1>7. CASE Succeed(j)
  <2>1. State(mem, j) = "finalizing" /\ run[j].pc = "succeeding"
    BY <1>1, <1>7 DEF Succeed, Is, RunOf
  <2>. QED BY <1>2, <1>7, <2>1 DEF Succeed
<1>8. CASE Record(j)
  BY <1>1, <1>8 DEF Record, InStore
<1>9. CASE FailLogin(j)
  BY <1>2, <1>9 DEF FailLogin, Fail, IsActive, InStore, Stored, store, ghosts
<1>10. CASE UNCHANGED <<mem, disk, good>>
  BY <1>10 DEF InStore
<1>11. \/ CancelJob(j) \/ RunCheck(j) \/ Challenge(j) \/ Finalize(j) \/ Succeed(j)
       \/ Record(j) \/ FailLogin(j) \/ UNCHANGED <<mem, disk, good>>
  BY DEF Step, Launch, TakeLock, GiveUpLock, WriteBackup, AppServerWrites, LoginCompletes,
         LoginFails, Validate, Register, Verify, ClearBackup, Relock, Restore, Unlock,
         Stored, store, ghosts
<1>. QED BY <1>3, <1>4, <1>5, <1>6, <1>7, <1>8, <1>9, <1>10, <1>11

\* What ought to survive when a login succeeds belongs to the account it belonged to,
\* unless the profile was new.
LEMMA SucceedsAccount ==
  ASSUME Inv, NEW j \in Jobs, AccountsOf(j), run[j].pc = "succeeding", ~run[j].new,
         NEW p, p = run[j].profile
  PROVE  good[p] = None \/ AccountOf[auth[p]] = AccountOf[good[p]]
<1>1. /\ p \in Profiles /\ backup[p] # None /\ backup[p].job = j
      /\ backup[p].prev = run[j].prev
  BY DEF Inv, RunOf, Open
<1>2. AccountOf[run[j].prev] = AccountOf[good[p]]
  <2>1. ~Spent(p)
    BY <1>1 DEF Spent, Open
  <2>. QED BY <1>1, <2>1 DEF Inv, RecoverInv, Recoverable
<1>3. ASSUME NEW a \in Auth \cup {None}
      PROVE  /\ AccountOf[a] = IF a = None THEN None ELSE a.account
             /\ a # None => AccountOf[a] # None
  <2>1. AccountOf[a] = IF a = None THEN None ELSE a.account
    BY DEF AccountOf
  <2>2. a # None => a.account \in Accounts \cup {Invalid}
    BY DEF Auth
  <2>. QED BY <2>1, <2>2, LoginAssumption
<1>4. good[p] \in Auth \cup {None} /\ None \in Auth \cup {None}
  BY <1>1 DEF Inv, TypeOK
<1>5. CASE run[j].prev = None
  <2>1. AccountOf[good[p]] = None
    BY <1>2, <1>3, <1>4, <1>5
  <2>. QED BY <1>3, <1>4, <2>1
<1>6. CASE run[j].old # None /\ run[j].old = AccountOf[run[j].prev]
  BY <1>2, <1>6 DEF AccountsOf, Validated
<1>7. p \in reg
  BY DEF AccountsOf
<1>. QED BY <1>5, <1>6, <1>7 DEF AccountsOf, Hopeful

LEMMA InStoreAccounts ==
  ASSUME Inv, AccountInv, NEW j \in Jobs, NEW st, Advance(st, j), Saved(st) \/ Unsaved(st),
         UNCHANGED auth
  PROVE  UnsavedAccounts'
<1>1. TypeOK /\ UnsavedAccounts /\ BackupInv /\ RunOf(j) /\ AccountsOf(j)
  BY DEF Inv, AccountInv
<1>. SUFFICES ASSUME NEW i \in Jobs, State(mem', i) = "succeeded",
                     State(disk', i) # "succeeded",
                     mem'.job[i].type = "login", ~mem'.job[i].new,
                     NEW p, p = mem'.job[i].profile
              PROVE  good'[p] = None \/ AccountOf[auth[p]] = AccountOf[good'[p]]
  BY DEF UnsavedAccounts, State, Exists
<1>2. disk' = disk /\ good' = good /\ mem'.job[i] = st.job[i] /\ State(st, i) = "succeeded"
  <2>1. disk' # mem'
    OBVIOUS
  <2>2. disk' = disk /\ good' = good
    BY <1>1, <2>1, StoreFacts
  <2>3. mem'.job[i] # None
    BY LoginAssumption DEF State, Exists, Terminal
  <2>4. mem'.job[i] = st.job[i]
    BY <1>1, <2>3, StoreFacts
  <2>. QED BY <2>2, <2>4 DEF State, Exists
<1>3. CASE st.job[i] = mem.job[i]
  BY <1>1, <1>2, <1>3 DEF UnsavedAccounts, State, Exists
<1>4. CASE st.job[i] # mem.job[i]
  <2>1. i = j /\ st.job[j] \in Job /\ st.job[j].state = "succeeded"
    BY <1>1, <1>2, <1>4, StateOf, LoginAssumption DEF Advance, Terminal
  <2>2. /\ State(mem, j) \in Active /\ run[j].pc = "succeeding"
        /\ st.job[j].profile = mem.job[j].profile /\ st.job[j].new = mem.job[j].new
    BY <1>1, <1>2, <1>4, <2>1 DEF Advance, Active
  <2>3. mem.job[j] # None
    BY <1>1, <2>2, StateOf, LoginAssumption DEF TypeOK
  <2>4. mem.job[j].profile = run[j].profile /\ mem.job[j].new = run[j].new
    BY <1>1, <2>2, <2>3 DEF RunOf, LoginOf
  <2>. QED BY <1>1, <1>2, <2>1, <2>2, <2>4, SucceedsAccount
<1>. QED BY <1>3, <1>4


LEMMA CreateInStore ==
  ASSUME Inv, NEW q \in asked, CreateJob(q)
  PROVE  /\ UNCHANGED auth
         /\ \/ UNCHANGED <<mem, disk, good, run>>
            \/ \E j \in Jobs : \E st :
                                   /\ Advance(st, j) /\ (Saved(st) \/ Unsaved(st))
                                   /\ \A i \in Jobs \ {j} : run'[i] = run[i]
                                   /\ run'[j] = run[j] \/ run'[j].pc \in {"checking", "created"}
<1>1. /\ TypeOK /\ UNCHANGED auth
      /\ q \in [kind : {"check", "login"}, profile : Profiles, exists : BOOLEAN]
  BY DEF Inv, TypeOK, CreateJob, files
<1>2. CASE Stored /\ UNCHANGED run
  BY <1>1, <1>2 DEF Stored, store, ghosts
<1>3. ASSUME NEW j \in Jobs, Create(q, j)
      PROVE  \E st : /\ Advance(st, j) /\ (Saved(st) \/ Unsaved(st))
                     /\ \A i \in Jobs \ {j} : run'[i] = run[i]
                     /\ run'[j] = run[j] \/ run'[j].pc \in {"checking", "created"}
  <2>. DEFINE job == [type |-> q.kind, profile |-> q.profile, new |-> ~q.exists,
                      state |-> InitialState(q.kind)]
              st == [mem EXCEPT !.job[j] = job]
              pc == IF q.kind = "check" THEN "checking" ELSE "created"
              started == [NoRun EXCEPT !.pc = pc, !.profile = q.profile, !.new = ~q.exists]
  <2>1. /\ mem.job[j] = Unborn /\ disk.job[j] = Unborn /\ (Saved(st) \/ Unsaved(st))
        /\ run' = [run EXCEPT ![j] = started] \/ UNCHANGED run
    BY <1>3 DEF Create
  <2>2. started.pc = pc
    BY DEF NoRun
  <2>3. job \in Job /\ job.state \in Active
    BY <1>1 DEF Job, InitialState, Active
  <2>. HIDE DEF job, started
  <2>4. st \in Store /\ st.job[j] = job /\ \A i \in Jobs \ {j} : st.job[i] = mem.job[i]
    BY <1>1, <2>3 DEF TypeOK, Store
  <2>5. Advance(st, j)
    <3>. HIDE DEF st
    <3>. QED BY <2>1, <2>3, <2>4 DEF Advance
  <2>6. /\ \A i \in Jobs \ {j} : run'[i] = run[i]
        /\ run'[j] = run[j] \/ run'[j].pc \in {"checking", "created"}
    BY <1>1, <2>1, <2>2 DEF TypeOK
  <2>. QED BY <2>1, <2>5, <2>6
<1>4. (Stored /\ UNCHANGED run) \/ \E j \in Jobs : Create(q, j)
  BY DEF CreateJob
<1>. QED BY <1>1, <1>2, <1>3, <1>4

\* A refresh keeps the account.
LEMMA RefreshAccounts ==
  ASSUME Inv, NEW p \in Profiles, RefreshDone(p), NEW q \in Profiles
  PROVE  /\ auth'[q] # auth[q] => auth[q] # None /\ auth'[q] # None
         /\ AccountOf[auth'[q]] = AccountOf[auth[q]]
         /\ AccountOf[good'[q]] = AccountOf[good[q]]
         /\ good'[q] # good[q] => good[q] \in Auth /\ good'[q] \in Auth
<1>1. TypeOK /\ auth[p] # None
  BY DEF Inv, RefreshDone, RefreshInv
<1>2. CASE UNCHANGED <<auth, good>>
  BY <1>2
<1>3. CASE ~UNCHANGED <<auth, good>>
  <2>1. PICK t \in Tokens : /\ auth' = [auth EXCEPT ![p].token = t]
                            /\ good' = [good EXCEPT ![p] = IF @ = auth[p] THEN auth'[p] ELSE @]
    <3>1. Tokens \ Live(p) # {}
      BY <1>3 DEF RefreshDone
    <3>2. (CHOOSE t \in Tokens \ Live(p) : TRUE) \in Tokens
      BY <3>1
    <3>. QED BY <1>3, <3>2 DEF RefreshDone
  <2>. DEFINE new == [auth[p] EXCEPT !.token = t]
  <2>2. auth[p] \in Auth
    BY <1>1 DEF TypeOK
  <2>3. new \in Auth /\ new.account = auth[p].account
    BY <2>2 DEF Auth
  <2>. HIDE DEF new
  <2>4. auth' = [auth EXCEPT ![p] = new]
    BY <2>1 DEF new
  <2>5. /\ auth'[p] = new /\ (good'[p] = good[p] \/ (good[p] = auth[p] /\ good'[p] = new))
        /\ q # p => auth'[q] = auth[q] /\ good'[q] = good[q]
    BY <1>1, <2>1, <2>4 DEF TypeOK
  <2>6. AccountOf[new] = AccountOf[auth[p]] /\ new # None
    BY <2>2, <2>3, LoginAssumption DEF AccountOf
  <2>. QED BY <1>1, <2>2, <2>3, <2>5, <2>6
<1>. QED BY <1>2, <1>3

LEMMA AccountNext ==
  ASSUME Inv, AccountInv, [Next]_vars, Inv'
  PROVE  AccountInv'
<1>. USE DEF AccountInv
<1>1. CASE phase' # "serving"
  <2>1. mem' = disk' /\ \A j \in Jobs : run'[j].pc = "idle"
    BY <1>1 DEF Inv, PhaseInv, RunOf
  <2>. QED BY <2>1 DEF UnsavedAccounts, AccountsOf, Hopeful, Changed, Validated, State, Exists
<1>2. CASE UNCHANGED <<mem, disk, run, auth, reg, good>>
  BY <1>2 DEF UnsavedAccounts, AccountsOf, State, Exists
<1>3. ASSUME NEW q \in asked, CreateJob(q) PROVE AccountInv'
  <2>1. UNCHANGED reg
    BY <1>3 DEF CreateJob, files
  <2>2. CASE UNCHANGED <<mem, disk, good, run, auth>>
    BY <1>2, <2>1, <2>2
  <2>3. ASSUME NEW j \in Jobs, NEW st, Advance(st, j), Saved(st) \/ Unsaved(st),
               UNCHANGED auth, \A i \in Jobs \ {j} : run'[i] = run[i],
               run'[j] = run[j] \/ run'[j].pc \in {"checking", "created"}
        PROVE  AccountInv'
    <3>1. UnsavedAccounts'
      BY <2>3, InStoreAccounts
    <3>2. ASSUME NEW i \in Jobs PROVE AccountsOf(i)'
      <4>1. CASE run'[i] = run[i]
        BY <2>1, <2>3, <4>1, AccountStays
      <4>2. CASE run'[i] # run[i]
        BY <2>3, <4>2 DEF AccountsOf, Hopeful, Changed, Validated
      <4>. QED BY <4>1, <4>2
    <3>. QED BY <3>1, <3>2
  <2>. QED BY <1>3, <2>2, <2>3, CreateInStore
<1>4. ASSUME NEW j \in Jobs, CancelJob(j) PROVE AccountInv'
  <2>1. UNCHANGED <<run, auth, reg>> /\ InStore(j)
    BY <1>4, StepInStore DEF CancelJob, files
  <2>2. CASE UNCHANGED <<mem, disk, good>>
    BY <1>2, <2>1, <2>2
  <2>3. CASE \E st : Advance(st, j) /\ (Saved(st) \/ Unsaved(st))
    BY <2>1, <2>3, InStoreAccounts DEF AccountsOf
  <2>. QED BY <2>1, <2>2, <2>3 DEF InStore
<1>5. ASSUME NEW j \in Jobs, Step(j) PROVE AccountInv'
  <2>1. \A i \in Jobs : AccountsOf(i)'
    BY <1>5, StepAccounts
  <2>2. CASE UNCHANGED <<mem, disk, good>>
    <3>. SUFFICES ASSUME NEW i \in Jobs, State(mem, i) = "succeeded",
                         State(disk, i) # "succeeded",
                         mem.job[i].type = "login", ~mem.job[i].new,
                         NEW p, p = mem.job[i].profile
                  PROVE  good[p] = None \/ AccountOf[auth'[p]] = AccountOf[good[p]]
      BY <2>1, <2>2 DEF UnsavedAccounts, State, Exists
    <3>1. good[p] = None \/ AccountOf[auth[p]] = AccountOf[good[p]]
      BY DEF UnsavedAccounts
    <3>2. backup[p].job = i /\ p \in Profiles
      <4>1. mem.job[i] \in Job
        BY StateOf, LoginAssumption DEF Inv, TypeOK, Terminal
      <4>. QED BY <4>1 DEF Inv, BackupInv, Job
    <3>3. auth'[p] = auth[p]
      <4>1. SUFFICES ASSUME auth'[p] # auth[p] PROVE FALSE
        OBVIOUS
      <4>2. run[j].pc \in Open /\ p = run[j].profile
        BY <1>5, <3>2, <4>1, StepFrame
      <4>. QED BY <3>2, <4>2 DEF Inv, RunOf
    <3>. QED BY <3>1, <3>3
  <2>3. CASE UNCHANGED auth /\ \E st : Advance(st, j) /\ (Saved(st) \/ Unsaved(st))
    BY <2>1, <2>3, InStoreAccounts
  <2>. QED BY <1>5, <2>2, <2>3, StepInStore DEF InStore
<1>6. ASSUME NEW p \in Profiles, RefreshDone(p) PROVE AccountInv'
  <2>1. UNCHANGED <<mem, disk, run, reg>>
    BY <1>6 DEF RefreshDone, store
  <2>2. ASSUME NEW i \in Jobs PROVE AccountsOf(i)'
    <3>1. run[i].pc \in Open => run[i].profile \in Profiles
      BY DEF Inv, RunOf, Open
    <3>. QED BY <1>6, <2>1, <3>1, AccountStays, RefreshAccounts
  <2>3. UnsavedAccounts'
    <3>. SUFFICES ASSUME NEW i \in Jobs, State(mem, i) = "succeeded",
                         State(disk, i) # "succeeded",
                         mem.job[i].type = "login", ~mem.job[i].new,
                         NEW q, q = mem.job[i].profile
                  PROVE  good'[q] = None \/ AccountOf[auth'[q]] = AccountOf[good'[q]]
      BY <2>1 DEF UnsavedAccounts, State, Exists
    <3>1. good[q] = None \/ AccountOf[auth[q]] = AccountOf[good[q]]
      BY DEF UnsavedAccounts
    <3>2. q \in Profiles
      <4>1. mem.job[i] \in Job
        BY StateOf, LoginAssumption DEF Inv, TypeOK, Terminal
      <4>. QED BY <4>1 DEF Job
    <3>. QED BY <1>6, <3>1, <3>2, LoginAssumption, RefreshAccounts
  <2>. QED BY <2>2, <2>3
<1>7. ASSUME phase' = "serving",
             \/ \E p \in Profiles : AskCheck(p) \/ AskLogin(p) \/ RefreshLock(p) \/ Reconcile(p)
             \/ Crash \/ Boot \/ Serve \/ UNCHANGED vars
      PROVE  AccountInv'
  <2>1. ASSUME NEW p \in Profiles,
               AskCheck(p) \/ AskLogin(p) \/ RefreshLock(p) \/ Reconcile(p)
        PROVE  AccountInv'
    <3>1. CASE AskCheck(p) \/ AskLogin(p)
      BY <1>2, <3>1 DEF AskCheck, AskLogin, Stored, store, files, ghosts
    <3>2. CASE RefreshLock(p)
      BY <1>2, <3>2 DEF RefreshLock, store, ghosts
    <3>3. CASE Reconcile(p)
      BY <1>7, <3>3 DEF Reconcile, ReconcileFails
    <3>. QED BY <2>1, <3>1, <3>2, <3>3
  <2>2. CASE Crash \/ Boot
    <3>1. CASE Crash
      BY <1>7, <3>1 DEF Crash
    <3>2. CASE Boot
      BY <1>7, <3>2 DEF Boot, process
    <3>. QED BY <2>2, <3>1, <3>2
  <2>3. CASE Serve \/ UNCHANGED vars
    BY <1>2, <2>3 DEF Serve, Stored, vars, store, files, ghosts
  <2>. QED BY <1>7, <2>1, <2>2, <2>3
<1>. QED BY <1>1, <1>3, <1>4, <1>5, <1>6, <1>7 DEF Next



LEMMA AccountInit == Init => AccountInv
<1>. SUFFICES ASSUME Init PROVE AccountInv
  OBVIOUS
<1>1. \A j \in Jobs : mem.job[j] = Unborn /\ run[j].pc = "idle"
  BY DEF Init, NoRun
<1>2. \A j \in Jobs : State(mem, j) # "succeeded"
  BY <1>1, LoginAssumption DEF State, Exists, Terminal
<1>. QED BY <1>1, <1>2 DEF AccountInv, UnsavedAccounts, AccountsOf, Hopeful, Changed,
                           Validated

LEMMA AccountInvariant == Spec => [](Inv /\ AccountInv)
<1>1. Init => Inv /\ AccountInv
  BY InitInv, AccountInit
<1>2. Inv /\ AccountInv /\ [Next]_vars => (Inv /\ AccountInv)'
  BY NextInv, AccountNext
<1>. QED BY <1>1, <1>2, PTL DEF Spec

\* What a job makes known to have succeeded belongs to the account it belonged to, or
\* its profile was new.
LEMMA SavedAccount ==
  ASSUME Inv, AccountInv, NEW j \in Jobs, NEW st, Advance(st, j), Saved(st) \/ Unsaved(st),
         NEW p \in Profiles, good[p] # None, good'[p] # good[p]
  PROVE  good'[p].account = good[p].account \/ \E i \in Jobs : NewLogin(i, p)
<1>1. TypeOK /\ UnsavedAccounts /\ RunOf(j) /\ AccountsOf(j)
  BY DEF Inv, AccountInv
<1>2. p \in Confirmed(st) /\ good'[p] = auth[p]
  BY <1>1 DEF Saved, Unsaved, ghosts
<1>3. PICK i \in Jobs : /\ State(st, i) = "succeeded" /\ State(disk, i) # "succeeded"
                        /\ st.job[i].type = "login" /\ st.job[i].profile = p
  BY <1>2 DEF Confirmed
<1>. SUFFICES ASSUME ~NewLogin(i, p)
              PROVE  good'[p].account = good[p].account
  OBVIOUS
<1>4. AccountOf[auth[p]] = AccountOf[good[p]]
  <2>1. CASE st.job[i] = mem.job[i]
    <3>1. State(mem, i) = "succeeded" /\ mem.job[i].type = "login" /\ mem.job[i].profile = p
      BY <1>3, <2>1 DEF State, Exists
    <3>. QED BY <1>1, <1>3, <3>1 DEF UnsavedAccounts, NewLogin
  <2>2. CASE st.job[i] # mem.job[i]
    <3>1. i = j /\ st.job[j] \in Job /\ st.job[j].state = "succeeded"
      BY <1>3, <2>2, StateOf, LoginAssumption DEF Advance, Terminal
    <3>2. /\ State(mem, j) \in Active /\ run[j].pc = "succeeding"
          /\ mem.job[j].type = "login" /\ mem.job[j].profile = p
      BY <1>3, <2>2, <3>1 DEF Advance, Active
    <3>3. mem.job[j] # None
      BY <1>1, <3>2, StateOf, LoginAssumption DEF TypeOK
    <3>4. run[j].profile = p /\ run[j].new = mem.job[j].new /\ State(mem, j) = "finalizing"
      BY <1>1, <3>2, <3>3 DEF RunOf, LoginOf
    <3>. QED BY <1>1, <1>3, <3>1, <3>2, <3>4, SucceedsAccount DEF NewLogin
  <2>. QED BY <2>1, <2>2
<1>5. good[p] \in Auth /\ auth[p] \in Auth \cup {None}
  BY <1>1 DEF TypeOK
<1>6. AccountOf[good[p]] = good[p].account /\ good[p].account # None
  BY <1>5, LoginAssumption DEF AccountOf, Auth
<1>7. auth[p] # None /\ AccountOf[auth[p]] = auth[p].account
  BY <1>4, <1>5, <1>6 DEF AccountOf
<1>. QED BY <1>2, <1>4, <1>6, <1>7

\* A restart confirms no login.
LEMMA BootConfirms ==
  ASSUME TypeOK, NEW order
  PROVE  Confirmed(Interrupted(disk, order)) = {}
<1>. DEFINE st == Interrupted(disk, order)
<1>1. SUFFICES ASSUME NEW j \in Jobs, State(st, j) = "succeeded",
                      State(disk, j) # "succeeded"
               PROVE  FALSE
  BY DEF Confirmed
<1>2. CASE State(disk, j) \in Active
  <2>1. st.job[j] = [disk.job[j] EXCEPT !.state = "failed"]
    BY <1>2 DEF Interrupted
  <2>2. disk.job[j] \in Job
    BY <1>2, StateOf, LoginAssumption DEF TypeOK
  <2>3. st.job[j].state = "failed"
    BY <2>1, <2>2 DEF Job
  <2>. HIDE DEF st
  <2>. QED BY <1>1, <2>3, LoginAssumption DEF State, Terminal
<1>3. CASE State(disk, j) \notin Active
  <2>1. st.job[j] = disk.job[j]
    BY <1>3 DEF Interrupted
  <2>. QED BY <1>1, <2>1 DEF State, Exists
<1>. QED BY <1>2, <1>3

\* A re-login that is kept belongs to the same account, as long as the job knew that
\* the profile existed (service.go:308-342).
THEOREM KeepsAccount == Spec => ReloginKeepsAccount
<1>1. ASSUME Inv, AccountInv, [Next]_vars, NEW p \in Profiles,
             good[p] # None, good'[p] # good[p]
      PROVE  good'[p].account = good[p].account \/ \E j \in Jobs : NewLogin(j, p)
  <2>1. TypeOK
    BY <1>1 DEF Inv
  <2>2. ASSUME NEW q \in Profiles, RefreshDone(q)
        PROVE  good'[p].account = good[p].account
    <3>1. /\ AccountOf[good'[p]] = AccountOf[good[p]]
          /\ good[p] \in Auth /\ good'[p] \in Auth
      BY <1>1, <2>2, RefreshAccounts
    <3>. QED BY <3>1, LoginAssumption DEF AccountOf
  <2>3. ASSUME NEW q \in asked, CreateJob(q)
        PROVE  \E j \in Jobs : \E st : Advance(st, j) /\ (Saved(st) \/ Unsaved(st))
    BY <1>1, <2>3, CreateInStore
  <2>4. ASSUME NEW j \in Jobs, CancelJob(j) \/ Step(j)
        PROVE  \E st : Advance(st, j) /\ (Saved(st) \/ Unsaved(st))
    BY <1>1, <2>4, StepInStore DEF InStore
  <2>5. ASSUME Boot PROVE good' = good
    <3>1. CASE UNCHANGED ghosts
      BY <3>1 DEF ghosts
    <3>2. CASE \E order : Saved(Interrupted(disk, order))
      <4>1. good' = [q \in Profiles |-> good[q]]
        BY <2>1, <3>2, BootConfirms DEF Saved
      <4>. QED BY <2>1, <4>1 DEF TypeOK
    <3>. QED BY <2>5, <3>1, <3>2 DEF Boot
  <2>6. ASSUME NEW q \in Profiles,
               AskCheck(q) \/ AskLogin(q) \/ RefreshLock(q) \/ Reconcile(q)
        PROVE  good' = good
    BY <2>6 DEF AskCheck, AskLogin, RefreshLock, Reconcile, Stored, ghosts
  <2>7. ASSUME Crash \/ Serve \/ UNCHANGED vars
        PROVE  good' = good
    BY <2>7 DEF Crash, Serve, Stored, vars, ghosts
  <2>. QED BY <1>1, <2>2, <2>3, <2>4, <2>5, <2>6, <2>7, SavedAccount DEF Next
<1>2. Inv /\ AccountInv /\ [Next]_vars =>
        [\A p \in Profiles : good[p] # None /\ good'[p] # good[p]
           => \/ good'[p].account = good[p].account
              \/ \E j \in Jobs : NewLogin(j, p)]_vars
  BY <1>1
<1>. QED BY <1>2, AccountInvariant, PTL DEF Spec, ReloginKeepsAccount

=============================================================================
