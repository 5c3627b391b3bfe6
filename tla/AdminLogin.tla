----------------------------- MODULE AdminLogin -----------------------------
(***************************************************************************)
(* The administrator's login and check jobs: the persisted job store       *)
(* (internal/adminapi/store.go), the goroutine that replaces a profile's   *)
(* auth.json under the profile's write lock and takes it back when the     *)
(* login does not work out (service.go, login_backup.go), and the recovery *)
(* a restart performs.  Token refresh by the gateway, which takes the same *)
(* lock (authbroker), is the other writer of auth.json.                    *)
(*                                                                         *)
(* The auth file is an opaque token and the account it belongs to.  What   *)
(* happens under the lock is one action where nobody can see in between.   *)
(* A lock that outlived its process is reclaimed by a waiter after fifteen *)
(* minutes; no living holder keeps it so long, a login being cut off after *)
(* ten.                                                                    *)
(***************************************************************************)
EXTENDS Integers, Sequences, FiniteSets

CONSTANTS
  Profiles,     \* Codex profile ids
  Registered,   \* those registered and logged in at first
  Jobs,         \* job ids, each used once
  Accounts,     \* ChatGPT accounts
  Tokens,       \* token sets, recycled once nothing remembers them
  None,         \* no file, no holder, no record
  Unborn,       \* the record of a job not created yet
  Invalid,      \* the account of an auth file that does not validate
  MaxRetained,  \* maxRetainedTerminalJobs
  MaxAsked,     \* bound on requests between their checks and their job
  MaxCrashes, MaxFaults, MaxRefreshes   \* bounds on what the environment does

Auth == [token : Tokens, account : Accounts \cup {Invalid}]
Backup == [job : Jobs, prev : Auth \cup {None}]
Active == {"checking", "logging_in", "finalizing"}
Terminal == {"succeeded", "failed", "canceled"}
Job == [type : {"check", "login"}, profile : Profiles, new : BOOLEAN,
        state : Active \cup Terminal]

ASSUME LoginAssumption ==
  /\ Registered \subseteq Profiles
  /\ IsFiniteSet(Jobs) /\ MaxRetained \in Nat \ {0}
  /\ Tokens # {} /\ Accounts # {} /\ Invalid \notin Accounts
  /\ None \notin Jobs \cup Profiles \cup Accounts \cup Tokens \cup Auth \cup Backup \cup Job
  /\ None # Invalid
  /\ None \notin Active \cup Terminal \cup {"orphan", "refresh"}
  /\ Unborn \notin Job \cup {None}
  /\ {"orphan", "refresh"} \cap Jobs = {}
  /\ MaxAsked \in Nat /\ MaxCrashes \in Nat /\ MaxFaults \in Nat
  /\ MaxRefreshes \in Nat

VARIABLES
  mem,      \* the store's jobs in memory, and the order they ended in
  disk,     \* the same, as admin-state.json has it
  run,      \* where each job's goroutine stands
  asked,    \* requests that have passed their checks and have no job yet
  auth,     \* auth.json of each profile
  backup,   \* .gcr-login-backup.json of each profile
  lock,     \* .auth-write.lock of each profile
  reg,      \* the registered profiles
  phase,    \* of the process: down, recovering, failing, serving
  todo,     \* profiles recovery has not looked at yet
  count,    \* crashes, faults and refreshes so far
  good,     \* history: the auth.json that ought to survive
  owned     \* history: the profiles that ought to be registered

store == <<mem, disk>>
files == <<auth, backup, lock, reg>>
process == <<phase, todo>>
ghosts == <<good, owned>>
vars == <<store, run, asked, files, process, count, ghosts>>

\* A job id not used yet is Unborn; that of a pruned job is None.
Store == [job : [Jobs -> Job \cup {Unborn, None}], ended : Seq(Jobs)]

Points == {"idle", "created", "lock", "backup", "starting", "approving",
           "written", "validating", "finalizing", "registering", "verifying",
           "succeeding", "recording", "clearing", "rolling", "restoring", "failing",
           "unlocking", "finishing", "checking"}

\* runLogin's job, previous and oldAccountID; late says that the lock was released
\* before the login failed.  Its context may end at any time, so that nothing need
\* remember whether a cancellation reached it.
Run == [pc : Points, profile : Profiles \cup {None}, new : BOOLEAN,
        prev : Auth \cup {None}, old : Accounts \cup {None, Invalid},
        late : BOOLEAN]

NoRun == [pc |-> "idle", profile |-> None, new |-> FALSE, prev |-> None,
          old |-> None, late |-> FALSE]

TypeOK ==
  /\ mem \in Store /\ disk \in Store
  /\ run \in [Jobs -> Run]
  /\ asked \subseteq [kind : {"check", "login"}, profile : Profiles, exists : BOOLEAN]
  /\ auth \in [Profiles -> Auth \cup {None}]
  /\ backup \in [Profiles -> Backup \cup {None}]
  /\ lock \in [Profiles -> Jobs \cup {None, "orphan", "refresh"}]
  /\ reg \subseteq Profiles /\ owned \subseteq Profiles /\ todo \subseteq Profiles
  /\ phase \in {"down", "recovering", "failing", "serving"}
  /\ count \in [crash : 0..MaxCrashes, fault : 0..MaxFaults, refresh : 0..MaxRefreshes]
  /\ good \in [Profiles -> Auth \cup {None}]

Init ==
  /\ mem = [job |-> [j \in Jobs |-> Unborn], ended |-> <<>>]
  /\ disk = mem
  /\ run = [j \in Jobs |-> NoRun]
  /\ asked = {}
  /\ auth = [p \in Profiles |->
               IF p \in Registered
                 THEN [token |-> CHOOSE t \in Tokens : TRUE,
                       account |-> CHOOSE a \in Accounts : TRUE]
                 ELSE None]
  /\ backup = [p \in Profiles |-> None]
  /\ lock = [p \in Profiles |-> None]
  /\ reg = Registered
  /\ phase = "serving" /\ todo = {}
  /\ count = [crash |-> 0, fault |-> 0, refresh |-> 0]
  /\ good = auth
  /\ owned = reg

-----------------------------------------------------------------------------
(* The job store                                                           *)

Exists(st, j) == st.job[j] \notin {Unborn, None}
State(st, j) == IF Exists(st, j) THEN st.job[j].state ELSE None
IsActive(j) == State(mem, j) \in Active
IsLogin(j) == Exists(mem, j) /\ mem.job[j].type = "login"

\* j, which is under way, changes to state; ended follows the order of UpdatedAt.
Put(st, j, state) ==
  [job |-> [st.job EXCEPT ![j].state = state],
   ended |-> IF state \in Terminal THEN Append(st.ended, j) ELSE st.ended]

\* pruneJobsLocked: only the newest terminal jobs are kept.
Pruned(st) ==
  LET extra == Len(st.ended) - MaxRetained
      gone == {j \in Jobs : /\ State(st, j) \in Terminal
                            /\ \E i \in 1..extra : st.ended[i] = j}
  IN [job |-> [j \in Jobs |-> IF j \in gone THEN None ELSE st.job[j]],
      ended |-> IF extra > 0 THEN SubSeq(st.ended, extra + 1, Len(st.ended)) ELSE st.ended]

Fault ==
  /\ count.fault < MaxFaults
  /\ count' = [count EXCEPT !.fault = @ + 1]

\* Profiles whose login the disk now knows to have succeeded.
Confirmed(st) ==
  {st.job[j].profile : j \in
     {j \in Jobs : /\ State(st, j) = "succeeded" /\ State(disk, j) # "succeeded"
                   /\ st.job[j].type = "login"}}

\* saveLocked goes through: memory and file agree.
Saved(st) ==
  /\ mem' = Pruned(st) /\ disk' = Pruned(st)
  /\ good' = [p \in Profiles |-> IF p \in Confirmed(st) THEN auth[p] ELSE good[p]]
  /\ owned' = owned \cup Confirmed(st)
  /\ UNCHANGED count

\* saveLocked fails: memory has changed, the file has not.
Unsaved(st) ==
  /\ mem' = Pruned(st)
  /\ Fault
  /\ UNCHANGED <<disk, ghosts>>

Save(st) == Saved(st) \/ Unsaved(st)

Stored == UNCHANGED <<store, count, ghosts>>

Is(j, pc) == phase = "serving" /\ run[j].pc = pc

\* j's goroutine goes on to pc, or ends.
Goto(j, pc) ==
  run' = [run EXCEPT ![j] = IF pc = "idle" THEN NoRun ELSE [@ EXCEPT !.pc = pc]]

\* Somebody may take p's lock: it is free, or nobody alive holds it.
Takeable(p) == lock[p] \in {None, "orphan"}

-----------------------------------------------------------------------------
(* Starting and canceling jobs                                             *)

\* StartCheck and StartLogin read the registry, and StartCheck the jobs, before
\* the job is created.
AskCheck(p) ==
  /\ phase = "serving" /\ Cardinality(asked) < MaxAsked
  /\ p \in reg
  /\ \A j \in Jobs : ~(IsActive(j) /\ mem.job[j].profile = p)
  /\ asked' = asked \cup {[kind |-> "check", profile |-> p, exists |-> TRUE]}
  /\ Stored /\ UNCHANGED <<run, files, process>>

AskLogin(p) ==
  /\ phase = "serving" /\ Cardinality(asked) < MaxAsked
  /\ asked' = asked \cup {[kind |-> "login", profile |-> p, exists |-> p \in reg]}
  /\ Stored /\ UNCHANGED <<run, files, process>>

\* One login at a time, and no other job for the profile meanwhile.
LoginConflict(p) ==
  \E j \in Jobs : IsActive(j) /\ (mem.job[j].profile = p \/ IsLogin(j))

InitialStateQueued(kind) == "queued"

InitialState(kind) == IF kind = "check" THEN "checking" ELSE "logging_in"

Create(q, j) ==
  LET job == [type |-> q.kind, profile |-> q.profile, new |-> ~q.exists,
              state |-> InitialState(q.kind)]
      st == [mem EXCEPT !.job[j] = job]
      started == [NoRun EXCEPT !.pc = IF q.kind = "check" THEN "checking" ELSE "created",
                               !.profile = q.profile, !.new = ~q.exists]
  IN /\ mem.job[j] = Unborn /\ disk.job[j] = Unborn
     /\ \/ Saved(st) /\ run' = [run EXCEPT ![j] = started]
        \/ Unsaved(st) /\ UNCHANGED run

\* CreateJob for a check, CreateLoginJob for a login.
CreateJob(q) ==
  /\ phase = "serving"
  /\ asked' = asked \ {q}
  /\ IF q.kind = "login" /\ LoginConflict(q.profile)
       THEN Stored /\ UNCHANGED run
       ELSE \E j \in Jobs : Create(q, j)
  /\ UNCHANGED <<files, process>>

\* setCancel, and the goroutine starts; that of a check has nothing to do before
\* the upstream answers.
Launch(j) ==
  /\ Is(j, "created")
  /\ Goto(j, "lock")
  /\ Stored /\ UNCHANGED <<asked, files, process>>

\* Finalization is past canceling, so that nobody else ends the job then.
Cancelable(j) == State(mem, j) \in {"checking", "logging_in"}

\* The job ends here; its goroutine notices at its next step in the store, or when
\* its context ends.
CancelJob(j) ==
  /\ phase = "serving" /\ Cancelable(j)
  /\ Save(Put(mem, j, "canceled"))
  /\ UNCHANGED <<run, asked, files, process>>

\* runCheck: the upstream's answer, a timeout, or a cancellation.
RunCheck(j) ==
  /\ Is(j, "checking")
  /\ Goto(j, "idle")
  /\ \/ State(mem, j) = "checking"
        /\ \E state \in {"succeeded", "failed"} : Save(Put(mem, j, state))
     \/ State(mem, j) # "checking" /\ Stored
  /\ UNCHANGED <<asked, files, process>>

-----------------------------------------------------------------------------
(* runLogin, up to the end of the device login                             *)

TakeLock(j) ==
  LET p == run[j].profile IN
  /\ Is(j, "lock") /\ Takeable(p)
  /\ lock' = [lock EXCEPT ![p] = j]
  /\ Goto(j, "backup")
  /\ Stored /\ UNCHANGED <<asked, auth, backup, reg, process>>

\* The context ends while the lock is another's.
GiveUpLock(j) ==
  /\ Is(j, "lock") /\ lock[run[j].profile] # None
  /\ Goto(j, "failing")
  /\ Stored /\ UNCHANGED <<asked, files, process>>

UnresolvedNever(p) == FALSE

\* A backup that nobody has resolved keeps its content.
Unresolved(p) == backup[p] # None

\* previous, oldAccountID, and the backup itself.
WriteBackup(j) ==
  LET p == run[j].profile IN
  /\ Is(j, "backup")
  /\ \/ /\ ~Unresolved(p)
        /\ backup' = [backup EXCEPT ![p] = [job |-> j, prev |-> auth[p]]]
        /\ run' = [run EXCEPT ![j].pc = "starting", ![j].prev = auth[p],
             ![j].old = IF run[j].new \/ auth[p] = None \/ p \notin reg
                          THEN None ELSE auth[p].account]
        /\ UNCHANGED count
     \/ /\ IF Unresolved(p) THEN UNCHANGED count ELSE Fault
        /\ Goto(j, "failing") /\ UNCHANGED backup
  /\ UNCHANGED <<store, ghosts, asked, auth, lock, reg, process>>

\* The app-server's challenge reaches the job, unless it is over.
Challenge(j) ==
  /\ Is(j, "starting")
  /\ IF State(mem, j) = "logging_in"
       THEN \/ Saved(mem) /\ Goto(j, "approving")
            \/ Unsaved(mem) /\ Goto(j, "restoring")
       ELSE Stored /\ Goto(j, "restoring")
  /\ UNCHANGED <<asked, files, process>>

Live(p) ==
  {a.token : a \in ({auth[p], good[p]} \cup {run[j].prev : j \in Jobs}
                      \cup {backup[q].prev : q \in {q \in Profiles : backup[q] # None}})
                   \ {None}}

\* The user approves: the app-server writes auth.json.
AppServerWrites(j) ==
  LET p == run[j].profile IN
  /\ Is(j, "approving")
  /\ Tokens \ Live(p) # {}
  /\ \E a \in Accounts \cup {Invalid} :
       auth' = [auth EXCEPT
                  ![p] = [token |-> CHOOSE t \in Tokens \ Live(p) : TRUE,
                          account |-> a]]
  /\ Goto(j, "written")
  /\ Stored /\ UNCHANGED <<asked, backup, lock, reg, process>>

\* Login returns nil once the app-server says so.
LoginCompletes(j) ==
  /\ Is(j, "written")
  /\ Goto(j, "validating")
  /\ Stored /\ UNCHANGED <<asked, files, process>>

\* Or an error: refused, canceled, timed out, the app-server gone.
LoginFails(j) ==
  /\ phase = "serving" /\ run[j].pc \in {"starting", "approving", "written"}
  /\ Goto(j, "restoring")
  /\ Stored /\ UNCHANGED <<asked, files, process>>

-----------------------------------------------------------------------------
(* runLogin, from the validation on                                        *)

ValidAnyAccount(j) == auth[run[j].profile].account # Invalid

\* The file validates and belongs to the account it belonged to.
Valid(j) ==
  LET account == auth[run[j].profile].account IN
  account # Invalid /\ run[j].old \in {None, account}

Validate(j) ==
  /\ Is(j, "validating")
  /\ Goto(j, IF Valid(j) THEN "finalizing" ELSE "restoring")
  /\ Stored /\ UNCHANGED <<asked, files, process>>

\* BeginLoginFinalization: from here on the job cannot be canceled.
Finalize(j) ==
  /\ Is(j, "finalizing")
  /\ IF State(mem, j) = "logging_in"
       THEN \/ Saved(Put(mem, j, "finalizing")) /\ Goto(j, "registering")
            \/ Unsaved(Put(mem, j, "finalizing")) /\ Goto(j, "restoring")
       ELSE Stored /\ Goto(j, "restoring")
  /\ UNCHANGED <<asked, files, process>>

\* registerNewProfile, then the lock is released before the upstream check.
Register(j) ==
  LET p == run[j].profile IN
  /\ Is(j, "registering")
  /\ \/ /\ reg' = IF run[j].new THEN reg \cup {p} ELSE reg
        /\ lock' = [lock EXCEPT ![p] = None]
        /\ Goto(j, "verifying")
        /\ UNCHANGED count
     \/ /\ run[j].new /\ Fault
        /\ Goto(j, "restoring")
        /\ UNCHANGED <<lock, reg>>
  /\ UNCHANGED <<store, ghosts, asked, auth, backup, process>>

\* The exact-profile check against the upstream.
Verify(j) ==
  /\ Is(j, "verifying")
  /\ \/ run[j].profile \in reg /\ Goto(j, "succeeding")
     \/ run' = [run EXCEPT ![j].pc = "rolling", ![j].late = TRUE]
  /\ Stored /\ UNCHANGED <<asked, files, process>>

\* FinishLogin(true); if it cannot be saved the goroutine just ends.
Succeed(j) ==
  /\ Is(j, "succeeding")
  /\ \/ Saved(Put(mem, j, "succeeded")) /\ Goto(j, "recording")
     \/ Unsaved(Put(mem, j, "succeeded")) /\ Goto(j, "idle")
  /\ UNCHANGED <<asked, files, process>>

\* RecordCheck writes the store once more, and nobody minds if it cannot.
Record(j) ==
  /\ Is(j, "recording")
  /\ Save(mem)
  /\ Goto(j, "clearing")
  /\ UNCHANGED <<asked, files, process>>

ClearBackup(j) ==
  LET p == run[j].profile IN
  /\ Is(j, "clearing")
  /\ Goto(j, "idle")
  /\ \/ /\ backup' = [backup EXCEPT ![p] = None]
        /\ UNCHANGED count
     \/ Fault /\ UNCHANGED backup
  /\ UNCHANGED <<store, ghosts, asked, auth, lock, reg, process>>

\* rollbackLogin takes the lock again; thirty seconds later it gives up.
Relock(j) ==
  LET p == run[j].profile IN
  /\ Is(j, "rolling")
  /\ \/ /\ Takeable(p)
        /\ lock' = [lock EXCEPT ![p] = j]
        /\ Goto(j, "restoring")
        /\ UNCHANGED count
     \/ lock[p] # None /\ Fault /\ Goto(j, "finishing") /\ UNCHANGED lock
  /\ UNCHANGED <<store, ghosts, asked, auth, backup, reg, process>>

RestoreKeepsBackup(j) ==
  LET p == run[j].profile IN
  /\ auth' = [auth EXCEPT ![p] = run[j].prev]
  /\ UNCHANGED <<reg, backup, count>>

\* restoreAuth, removeNewProfile after a registration, clearLoginBackup: each
\* may fail, and then the rest is not done.
RestoreAll(j) ==
  LET p == run[j].profile
      unregister == run[j].late /\ run[j].new
      restored == auth' = [auth EXCEPT ![p] = run[j].prev]
      removed == reg' = IF unregister THEN reg \ {p} ELSE reg
  IN \/ /\ restored /\ removed /\ UNCHANGED count
        /\ backup' = [backup EXCEPT ![p] = None]
     \/ /\ Fault /\ UNCHANGED backup
        /\ \/ UNCHANGED <<auth, reg>>
           \/ restored /\ UNCHANGED reg
           \/ restored /\ removed

Restore(j) ==
  /\ Is(j, "restoring")
  /\ RestoreAll(j)
  /\ Goto(j, IF run[j].late THEN "unlocking" ELSE "failing")
  /\ UNCHANGED <<store, ghosts, asked, lock, process>>

FailFinalizingOnly(j) ==
  IF State(mem, j) = "finalizing" THEN Save(Put(mem, j, "failed")) ELSE Stored

\* failLogin, or FinishLogin(false).
Fail(j) == IF IsActive(j) THEN Save(Put(mem, j, "failed")) ELSE Stored

FailLogin(j) ==
  /\ Is(j, "failing") \/ Is(j, "finishing")
  /\ Fail(j)
  /\ Goto(j, IF run[j].pc = "failing" THEN "unlocking" ELSE "idle")
  /\ UNCHANGED <<asked, files, process>>

\* The deferred release, if this goroutine is the holder.
Unlock(j) ==
  LET p == run[j].profile IN
  /\ Is(j, "unlocking")
  /\ lock' = [lock EXCEPT ![p] = IF @ = j THEN None ELSE @]
  /\ Goto(j, IF run[j].late THEN "finishing" ELSE "idle")
  /\ Stored /\ UNCHANGED <<asked, auth, backup, reg, process>>

-----------------------------------------------------------------------------
(* The gateway's refresh                                                   *)

RefreshLock(p) ==
  /\ phase = "serving" /\ p \in reg /\ auth[p] # None /\ Takeable(p)
  /\ count.refresh < MaxRefreshes
  /\ count' = [count EXCEPT !.refresh = @ + 1]
  /\ lock' = [lock EXCEPT ![p] = "refresh"]
  /\ UNCHANGED <<store, ghosts, run, asked, auth, backup, reg, process>>

\* The authority hands out a new token set and forgets the old one; or not.
RefreshDone(p) ==
  /\ phase = "serving" /\ lock[p] = "refresh"
  /\ lock' = [lock EXCEPT ![p] = None]
  /\ \/ UNCHANGED <<auth, good>>
     \/ /\ Tokens \ Live(p) # {}
        /\ auth' = [auth EXCEPT ![p].token = CHOOSE t \in Tokens \ Live(p) : TRUE]
        /\ good' = [good EXCEPT ![p] = IF @ = auth[p] THEN auth'[p] ELSE @]
  /\ UNCHANGED <<store, run, asked, backup, reg, process, count, owned>>

-----------------------------------------------------------------------------
(* Crash and restart                                                       *)

Crash ==
  /\ phase \in {"serving", "recovering"} /\ count.crash < MaxCrashes
  /\ count' = [count EXCEPT !.crash = @ + 1]
  /\ phase' = "down" /\ todo' = {}
  /\ mem' = disk
  /\ run' = [j \in Jobs |-> NoRun]
  /\ asked' = {}
  /\ lock' = [p \in Profiles |-> IF lock[p] = None THEN None ELSE "orphan"]
  /\ UNCHANGED <<disk, auth, backup, reg, ghosts>>

\* load: the jobs under way have failed, in some order.
Interrupted(st, order) ==
  LET cut == {j \in Jobs : State(st, j) \in Active}
  IN [job |-> [j \in Jobs |-> IF j \in cut THEN [st.job[j] EXCEPT !.state = "failed"]
                             ELSE st.job[j]],
      ended |-> st.ended \o order]

Orders(S) == {f \in [1..Cardinality(S) -> S] : {f[i] : i \in DOMAIN f} = S}

\* OpenStateStore; the service does not start if the result cannot be saved.
Boot ==
  /\ phase = "down"
  /\ \E order \in Orders({j \in Jobs : State(disk, j) \in Active}) :
       \/ /\ Saved(Interrupted(disk, order))
          /\ phase' = "recovering" /\ todo' = Profiles
       \/ /\ order # <<>> /\ Fault
          /\ UNCHANGED <<store, ghosts, process>>
  /\ UNCHANGED <<run, asked, files>>

ReconcileOnlyFailed(p) == backup[p] # None /\ State(mem, backup[p].job) = "failed"

\* The job is over and did not succeed: its profile goes back.
TakesBack(p) ==
  backup[p] # None /\ State(mem, backup[p].job) \in {"failed", "canceled"}

\* Recovery of p goes wrong somewhere: the service will not start.
ReconcileFails(p) ==
  /\ Fault /\ phase' = "failing"
  /\ UNCHANGED backup
  /\ IF ~TakesBack(p) THEN UNCHANGED <<auth, lock, reg>>
     ELSE /\ lock' = [lock EXCEPT ![p] = None]
          /\ \/ UNCHANGED <<auth, reg>>
             \/ /\ auth' = [auth EXCEPT ![p] = backup[p].prev]
                /\ \/ UNCHANGED reg
                   \/ reg' = IF mem.job[backup[p].job].new THEN reg \ {p} ELSE reg

\* One turn of ReconcileLoginBackups; a backup whose job the store does not know
\* stays where it is.
Reconcile(p) ==
  /\ phase \in {"recovering", "failing"} /\ p \in todo
  /\ todo' = todo \ {p}
  /\ \/ /\ TakesBack(p)
        /\ lock' = [lock EXCEPT ![p] = None]
        /\ auth' = [auth EXCEPT ![p] = backup[p].prev]
        /\ reg' = IF mem.job[backup[p].job].new THEN reg \ {p} ELSE reg
        /\ backup' = [backup EXCEPT ![p] = None]
        /\ UNCHANGED <<phase, count>>
     \/ /\ ~TakesBack(p)
        /\ backup' = IF backup[p] # None /\ State(mem, backup[p].job) = "succeeded"
                       THEN [backup EXCEPT ![p] = None] ELSE backup
        /\ UNCHANGED <<auth, lock, reg, phase, count>>
     \/ /\ backup[p] # None /\ Exists(mem, backup[p].job)
        /\ ReconcileFails(p)
  /\ UNCHANGED <<store, ghosts, run, asked>>

Serve ==
  /\ phase \in {"recovering", "failing"} /\ todo = {}
  /\ phase' = IF phase = "failing" THEN "down" ELSE "serving"
  /\ Stored /\ UNCHANGED <<run, asked, files, todo>>

-----------------------------------------------------------------------------
\* What a job's goroutine does.
Step(j) ==
  \/ Launch(j) \/ RunCheck(j) \/ TakeLock(j) \/ GiveUpLock(j) \/ WriteBackup(j)
  \/ Challenge(j) \/ AppServerWrites(j) \/ LoginCompletes(j) \/ LoginFails(j)
  \/ Validate(j) \/ Finalize(j) \/ Register(j) \/ Verify(j) \/ Succeed(j)
  \/ Record(j) \/ ClearBackup(j) \/ Relock(j) \/ Restore(j) \/ FailLogin(j) \/ Unlock(j)

Next ==
  \/ \E p \in Profiles : AskCheck(p) \/ AskLogin(p) \/ RefreshLock(p)
                          \/ RefreshDone(p) \/ Reconcile(p)
  \/ \E q \in asked : CreateJob(q)
  \/ \E j \in Jobs : CancelJob(j) \/ Step(j)
  \/ Crash \/ Boot \/ Serve

Spec == Init /\ [][Next]_vars

\* Goroutines run, requests and child processes end or time out, the operator
\* restarts the process, and a waiter that keeps finding the lock free gets it.
Fairness ==
  /\ \A j \in Jobs : WF_vars(Step(j)) /\ SF_vars(Relock(j))
  /\ \A p \in Profiles : WF_vars(RefreshDone(p)) /\ WF_vars(Reconcile(p))
  /\ WF_vars(Boot) /\ WF_vars(Serve)

FairSpec == Spec /\ Fairness

-----------------------------------------------------------------------------
(* Properties                                                              *)

\* Whatever happens, and whenever the process dies, the auth file that ought to
\* survive is in place or in the profile's backup (service.go:302-317, 392-422).
\* Only a refresh that meets a backup left over by a failed cleanup breaks this:
\* see ReconcileIdempotent.
AuthRecoverable ==
  count.fault = 0 \/ count.refresh = 0 =>
    \A p \in Profiles :
      \/ auth[p] = good[p]
      \/ backup[p] # None /\ backup[p].prev = good[p]

\* Nobody works on p any more, and recovery knows what to do about it.
Settled(p) ==
  /\ phase = "serving"
  /\ \A j \in Jobs : run[j].profile # p
  /\ backup[p] # None => Exists(mem, backup[p].job)

\* Once nobody works on a profile, its login has either succeeded and is kept or
\* left no trace: neither a file, nor a backup, nor a registration, and crashes
\* in between do not matter (service.go:386-422, login_backup.go:155-207).
SettledOutcome ==
  count.fault = 0 =>
    \A p \in Profiles :
      Settled(p) => auth[p] = good[p] /\ backup[p] = None /\ (p \in reg => p \in owned)

\* The login of a profile that its job took for new, not yet known to the file as
\* succeeded.
NewLogin(j, p) ==
  /\ State(mem, j) \in {"finalizing", "succeeded"} /\ State(disk, j) # "succeeded"
  /\ mem.job[j].type = "login" /\ mem.job[j].profile = p /\ mem.job[j].new

\* A re-login that is kept belongs to the same ChatGPT account, as long as the
\* job knew that the profile existed (service.go:308-342).
ReloginKeepsAccount ==
  [][\A p \in Profiles : good[p] # None /\ good'[p] # good[p]
       => \/ good'[p].account = good[p].account
          \/ \E j \in Jobs : NewLogin(j, p)]_vars

\* Promised by the comment at service.go:398: where the auth file is already the
\* one that ought to survive, reconciling a leftover backup changes nothing.
ReconcileIdempotent ==
  [][\A p \in Profiles :
       phase = "recovering" /\ p \in todo /\ auth[p] = good[p]
         => auth'[p] = auth[p]]_vars

\* Every login comes to an end, however the process dies in between, as long as
\* the job store can be written (service.go:287-390, store.go:47-84).
LoginSettles ==
  \A j \in Jobs : State(mem, j) \in {"logging_in", "finalizing"}
    ~> State(mem, j) \in Terminal \cup {None} \/ count.fault > 0

\* The transient recovery file does not outlive the login, even when the process
\* dies in between, unless the job was pruned first or a file operation failed
\* (login_backup.go:155-207).
BackupSettles ==
  \A p \in Profiles :
    backup[p] # None
      ~> \/ backup[p] = None \/ count.fault > 0
         \/ ~Exists(mem, backup[p].job)
=============================================================================
