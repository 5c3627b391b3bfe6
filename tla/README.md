# GPT Codex Router: a verification project

TLA+ models of `codex-account-pool` (GPT Codex Router), TLC configurations that
check them on small instances, and TLAPS proofs of their safety properties for
every instance. The reference is the Go source under `src/`; every definition that
models code is listed in `PROJECT.json` (`map`) with the lines it stands for.

## 1. The system

One process serves three HTTP surfaces on a loopback address: the Codex backend
(`/backend-api`), an OpenAI-compatible API (`/v1`) and an administrator page
(`/admin`). It owns several ChatGPT ("Codex") profiles and several Google
Antigravity profiles and decides which account serves a request. A command line
(`auth add`, `auth use`) works on the same state directory from other processes.

| Component | State | Operations | What is hard | What makes it correct |
|---|---|---|---|---|
| account pool (`accountpool`) | `entries` by conversation (account, gate, references, expiry), `quota` by model and account | `Acquire`, `RestoreProfile`, `Select`, `ObserveQuota`, `CanProbeFailover`, `Alternate`, `ObserveSuccess`, `Release` | goroutines at a gate, cancellation racing the gate, sweep and eviction between their steps | one request per conversation, no entry in use is lost, waiters resolve, tool history stays on its account, bounded maps |
| continuity cache (`antigravity/replay.go`, `session.go`) | calls and sessions in memory and in `continuity.json` | `RememberCall`, `LookupCall`, `Remember`, `BindSession`, `SessionProfile`, sweep, eviction, load | two memories of a conversation's account (pool and cache), capacity, expiry, restart, ignored write errors | a signed call goes back only to its maker; conversations are lost whole; restart brings back what was written |
| Google request (`antigravity/client.go`, `accounts.go`, `quota.go`) | the lease of a request | select, send, probe, one failover, stream | order of the lease's calls | as for the pool |
| Google response (`antigravity/response.go`) | the translator's flags | translate a chunk, fail, end | truncation, terminal chunks, parallel calls | only a completed stream completes |
| Google accounts (`antigravityauth`) | one credential file per profile, `mu`, a loopback port per login | refresh, candidates, login by OAuth callback or pasted code | refresh under a mutex over the network, logins of other processes without any lock, one port for all of them | a credential is one grant's: token and project of one account; one refresh for all who need it |
| profile registry (`profile`) | `registry.json` | `Load`, `Save`, `Add`, `Remove`, `Use` | read-modify-write by several goroutines and processes without a lock | the active profile changes only on purpose |
| auth broker (`authbroker`) | `auth.json` per profile, a lock directory per profile, `exhausted`, `routeMu` | `Credentials`, `CredentialsForProfile`, `ForceRefresh`, `Failover`, taking and breaking the lock | single-use refresh tokens, network calls under a mutex, late 429s, the lock of a dead process | one writer of `auth.json`; one presentation per refresh token; rotation only off a limited account |
| gateway (`gateway`) | the trace of a request | `serveHTTP`, `RoundTrip`, the observed body, the end event | retry after 401, rotation after 429, aborts | bounded attempts; an end event that tells the truth |
| OpenAI API (`openaiapi`) | `chatStreamWriter`, a capture | Chat Completions, Responses, model list | a stream translated piecemeal, write errors, several things that end it | both kinds of client are told the same, once |
| administrator jobs (`adminapi`) | `admin-state.json`, backups, running goroutines | check, login, cancel, finish, reconcile at start-up | crash at any step, write failures, cancel racing finish, pruning | the approved `auth.json` is never lost; jobs and backups settle |
| administrator and client keys (`adminauth`, `clientauth`) | key files, sessions with a TTL | login, check | nothing concurrent beyond a mutex | not modelled |
| Codex login child (`codexlogin`, `process`) | pipes of an app-server | JSON-RPC device login | blocked reader, exit racing the last message | only its effects are modelled |
| event log (`observability`, `app/report.go`) | a queue, a drop counter, rotating files, daily summaries | emit, write, rotate, flush, close; report | a full queue, close racing emit, rotation failing half way, midnight, a report that reads while files are renamed | each event told once; files in order; summaries add up; a report that does not warn is complete |
| context observation (`contextobs`) | a bounded tracker | analyse, compare | nothing depends on it | not modelled |
| command line and start-up (`app`) | none | serve, auth add/login/use/status, report | order of opening, reconciling, serving, closing; a registry saved long after it was read | its steps are actions of `AdminLogin`, `CodexGateway`, `GoogleAuth`, `EventLog` |

How they interact: a `/v1` request is routed to the gateway's Codex handler or to
the Google client. The Codex handler asks the auth broker for credentials and its
transport calls back into the broker (`ForceRefresh`, `Failover`), which rewrites
the registry. The Google client takes a lease of the account pool for the
conversation, asks the continuity cache for the conversation's account and calls,
and fills it from the translated stream. Administrator jobs and the broker share
`auth.json` under the profile's write lock, and the registry under none; the command
line shares the Google credential files and the registry with the router under no
lock at all. Every request emits events into the log, and `report`, a process of its
own, reads the files.

`PROJECT.json` lists the components with their status and the hazards, each with
its line and the properties that would catch it.

## 2. Modules

| Module | Models | State and steps |
|---|---|---|
| `SessionAffinity` | the abstract promise of the pool | who works in a conversation, and its account; admit, bind, leave, forget |
| `AccountPool` | `accountpool/pool.go` with the caller's order from `antigravity/accounts.go` and `client.go` | `entries` maps a conversation to a cell, `cell` is the `*entry` that a goroutine may still point at after the map has dropped it; a request's `lease` is its program counter. Each critical section of `Pool.mu`, each channel operation and each upstream answer is an action |
| `AccountPoolProofs`, `AccountPoolRefinement` | theorems about `AccountPool`; that it implements `SessionAffinity` | section 5 |
| `CodexGatewayProofs`, `ContinuityProofs`, `AdminLoginProofs`, `GoogleAuthProofs`, `EventLogProofs`, `ChatStreamProofs` | theorems about the module each is named for | section 5 |
| `Continuity` | `replay.go`, `session.go`, and a turn of `client.go` | memory and file of the cache; a turn resolves, acquires, selects, prepares, sends, perhaps fails over, binds, remembers and releases. It composes with `SessionAffinity` (its `pool` steps are `Pool!Admit`, `Pool!Bind`, ...), which `AccountPool` implements |
| `CodexGateway` | `RoundTrip`, the broker, the write lock (`lock.go`), the registry | requests with a program counter, the routing mutex, the lock directories with the two steps of breaking a stale one, token generations (a refresh presents the generation it read), suppressions, and editors of the registry |
| `AdminLogin` | jobs, state file, backups, recovery | memory and disk of the job store apart, a program counter per job, files per profile, the phases of the process; `good` and `owned` are history variables: the auth file and the registration that ought to survive |
| `ChatStream` | `chat.go`, `response.go`, the observed body and the end event of `gateway.go` | the events so far, the translator's flags, the writer with the chunks it has written, the trace, and the answer to a client that does not stream |
| `EventLog` | `logger.go`, `report.go`, `app/report.go`, start and shutdown in `app.go` | the queue, what is counted as dropped, the writer's goroutine with the lines it has still to write, the files as numbers of lines, the summary in memory and those on disk; each event a request emits, each system call of a rotation and each file a report opens is a step |
| `GoogleAuth` | `antigravityauth`, `auth add`, `auth login`, `auth use` | credential files named by the grant they come from; requests at the broker's mutex; logins as processes with a listener, its one-place channel and what the user pastes |

`MC*.tla` add symmetry sets and an instance of a constant operator; `ChatStream`,
`EventLog` and `GoogleAuth` need none and are run as they are. A definition whose name says what is wrong with it
(`FullOffByOne`, `RefusedKeepsLease`, ...) is no part of any specification: it is
the right-hand definition with one plausible bug, kept next to it so that one can
see each property fail (`PROJECT.json`, `mutants`).

### Abstractions worth knowing

* Time is a small counter; expiry compares with it as the code does, and the bound
  (`MaxTime`, `MaxClock`) is a constant.
* `AccountPool`: the provider is part of the conversation's key and so left out; a
  request's model, history, selector, candidates and preferred account are any.
  The order of the candidates is left open, so "first" is any of them.
* `CodexGateway`: profile ids are numbers because rotation goes by their order.
  A token is its generation; `Expire` makes one due. What the client is answered is
  left out. The registry's load in a failover and its save for a candidate may fail, in
  which case the client gets its 429. A write lock is old exactly if its process is dead: no living holder keeps
  it for fifteen minutes. Looking at the age and removing the directory are two steps,
  and both the breaker and the deferred release remove whatever is there by then.
* `AdminLogin`: an auth file is an account and a token set. What nobody can see in
  between, under the profile's lock, is one action; a crash may come before or
  after, and wherever the file system shows a step. An orphaned lock is reclaimed
  by a waiter; no living holder keeps it for the fifteen minutes that takes. A login
  whose profile had an unreadable auth file compares with that; the code has no account
  to compare with then (`service.go:305-313`), but no step of the model leaves such a
  file behind.
* `Continuity`: a turn's lookups follow each other at once and are one action. A
  handle that nobody issued fails like one that was forgotten. The signature table
  shares the fate of the calls and is left out. `InvalidateCall` and `ClearSession`
  are called by tests only.
* `ChatStream`: an item is its place in the output, its contents a number of
  deltas. A frame that comes in pieces counts when its last piece does; the one
  that is left in the buffer at the end is `tail`. Writes succeed until the client
  has left; the first one after that may be cut off after some of its chunks, and
  nothing gets through from then on.
* `EventLog`: a request emits the two events that matter to a report; the upgrade's
  start event is left out, as its accept stands for it. The window of a report
  (`report.go:114`) is a range of whole days, compared with the days of the lines. The drop counter is the set of
  dropped events, of which the code knows the size. Draining at shutdown needs no guard:
  it ends by itself or after five seconds with requests still running. A report finds
  out which files there are in one step, and opens and reads each in one. A failed
  `Remove` and the removal of old summaries are left out; a kind of failure happens
  once.
* `GoogleAuth`: a token is named by its grant and a project by its account. Requests to
  Google succeed, fail, or succeed without naming the project. A redirect goes to
  whoever has the port; the order of candidates is left open. Waiting for the mutex
  cannot be cancelled, as in the code.

## 3. Runs

| Run | Expected | Instance | What it shows |
|---|---|---|---|
| `pool` | pass | 2 requests, 3 conversations, 2 accounts, 1 model, `Max` 1, one tick, fair | `HistoryPinned`, `Bounded`, `SessionExclusive`, `InUseNeverEvicted`, `AffinityMovesOnlyVerified`, `WaiterResolved`, and the refinement `RefinesAffinity` |
| `login` | pass | 1 profile, 2 jobs, 1 job retained, one crash, one failed write, one refresh, fair | `AuthRecoverable`, `SettledOutcome`, `ReloginKeepsAccount`, `LoginSettles`, `BackupSettles` |
| `login_reconcile` | violation | 2 profiles | finding 1 |
| `codex` | pass | 2 requests, 3 profiles, one of them with a dead process's lock, and one of: a tick, an expiry, an editor, a failure (of a refresh, a wait for the lock, the registry's load or save); fair | `AttemptsBounded`, `WritersSerialized`, `RefreshSingleUse`, `LeavesOnlyLimited`, `RequestEnds` |
| `codex_rotate` | violation | no lock left behind, one expiry, one failed refresh | finding 2 |
| `codex_registry` | violation | one editor | finding 3 |
| `continuity` | pass | 1 request after another, 2 conversations, 2 accounts, 2 calls, room for 2, an idle window of 2 ticks, a retention of 3, and two of: two ticks, a restart, a failing write | `ReplayedToItsMaker`, `CallsHaveSession`, `LostAsUnit`, `SurvivesRestart` |
| `continuity_alternate` | violation | without a restart | finding 4 |
| `chat` | pass | 2 items of up to 2 deltas, both providers, streaming or not | `StreamMatchesAnswer`, `OneStream`, `OnlyCompletedAnswered`, `LoggedAsTold` |
| `chat_truncated` | violation | 1 item | finding 5 |
| `eventlog` | pass | a request and an upgrade, a queue of 1, 3 files of 1 line, 2 days, 2 runs, one failure or crash or report, which may meet the midnight | `EveryEventOnce`, `CloseTellsAll`, `SummaryAddsUp`, `RotationKeepsSuffix`, `ReportSound` |
| `googleauth` | pass | 2 requests, 2 command-line processes, 2 profiles, 2 accounts, one expiry, one failure or death | `OneSnapshot`, `RefreshedOnce`, `LoginKept` |

Every passing run also checks the module's type invariant. In `CodexGateway`,
`GoogleAuth` and the pool that invariant says who holds which mutex, too.

### Why the bounds are enough

* Pool: a conversation's entry is lost by expiry or by eviction. Three conversations
  over one place make a newcomer evict, or be refused while the entry is in use; two
  requests at one gate make every race of winning, cancelling and leaving. A further
  entry cell stands for the object a goroutine may still point at. One tick reaches
  expiry, since the TTL is one. Larger instances (three requests, two models) were run
  before without a violation, and the main invariants are proved for all.
* Login: the second job starts while the first runs, is refused or finds what
  the first left; one retained job makes pruning meet a backup. The crash, the
  fault and the refresh fall anywhere, and any two of them meet.
* Gateway: with three profiles a rotation can pass a suppressed candidate and
  come back to one tried before; two requests give late 429s and a contended
  refresh; one tick ends a suppression. The refreshes that a 401 forces need no budget,
  so that both requests meet at the dead process's lock, may both find it stale, and do
  write at once after two removals: `WritersSerialized`, `RefreshSingleUse` and
  `LeavesOnlyLimited` name that case, and their premises hold in most of the states. The
  disturbances come one at a time (`MaxDisturbed`); all of them together are too many
  states for the liveness property.
* Continuity: two calls belong to one conversation or to two, and fill the cache; the
  signature of a further call, remembered on its own, then evicts. An idle window of two ticks lets a lookup in
  between renew what it finds, which the file does not see; a retention of three cuts
  the renewal short. A write may fail, and the restart then brings back an older cache.
  Ticks, restart and failed write share a budget of two (`MaxTrouble`), so that any two
  of them meet. A third call was run by hand with
  a clock of one tick, as both would be too slow to keep; that no call
  outlives the retention is proved (`EndsInTime`). One request at a time is enough for
  a conversation, which the pool serialises; two requests in different conversations
  were run by hand with that clock, too.
* Chat: a message and a call, or two calls, in either order, interleaved; two deltas
  tell "lost", "doubled" and "attached elsewhere" apart.
* Event log: the queue of one place is full as soon as two events meet, and the
  start-up event is in it first. Three files make a rotation of two renames, any of
  which can fail. A file takes one line, so that a fourth line removes the oldest one,
  and every further line another: a start-up and two requests make more. (Files of two
  lines were run before; their six lines would not reach a removal.) A day changes
  between the stamp of an event and its record; the second run starts on the summary of
  the first. A report meets each step of a rotation, and its window is any whole number
  of days.
* Google accounts: two requests find one credential at its end; two processes log in to
  one profile or to two, share a port, swap codes, or overtake a refresh. One expiry is
  enough, because a forced refresh needs none.

### Fairness

* Pool: weak fairness for what a request's goroutine does next, and strong fairness for
  entering the gate, because Go serves the senders blocked on a channel in the order of
  their arrival. Upstream owes no answer: the client of the inference calls has no
  timeout and is bound by the request's context alone (`client.go:66-69`, `236-258`), so
  a request that awaits an answer or passes on a stream moves for certain only once it
  is cancelled, and cancelling is never forced. `WaiterResolved` claims no more than
  that allows: a cancelled request always ends, wherever it is, and a waiter that waits
  for ever does so behind a holder that upstream keeps for ever and whose client stays.
* Gateway: weak fairness for "one of the goroutines that can run does", which is less
  than fairness for each. Waiting for a lock is no step, so what is left is that the
  upstream and the authority answer or time out. For the upstream this is an assumption
  about the environment: its transport has no response-header timeout
  (`gateway.go:137`). A request that hung there would hold neither the routing mutex nor
  a write lock, for both are held only while the authority is asked. `RequestEnds` says
  that all requests are over infinitely often: a lock or a mutex that stays would
  prevent it.
* Login: weak fairness for a job's goroutine, for recovery, for the restart of the
  process and for the refresh that holds a lock; strong fairness for taking the lock
  again in a rollback, whose waiter looks every 100 ms for thirty seconds. That the
  operator restarts a dead process is an assumption about the deployment.
* No other specification is fair; their runs check safety.

## 4. Findings

Each is a passing piece of code and a line of documentation that do not go together;
the run shows the steps.

1. `login_reconcile`: a backup left behind by a failed cleanup is restored at the
   next start over an `auth.json` the gateway has refreshed since, whose
   predecessor the authority no longer accepts (`login_backup.go:176-205`;
   `service.go:398-399` calls reconciliation idempotent).
2. `codex_rotate` (`RotatesOnlyOnLimit`): a late 429 of one profile makes failover look at the active one;
   if its refresh fails, the candidates follow and one of them is saved as active
   (`broker.go:193-235`; `README.md:269` says refresh failures do not rotate).
3. `codex_registry`: registering a profile saves a registry read earlier and so
   takes back a change of the active profile (`service.go:424-436`;
   `docs/admin-account-management.md:122`).
4. `continuity_alternate`: after a successful alternate the persisted account of a
   conversation that has calls stays the old one (`replay.go:247-257`;
   `docs/account-pool-architecture.md:23`).
5. `chat_truncated`: a streaming client is sent `finish_reason: "stop"` and
   `[DONE]` for a stream that failed or was truncated, where a client that does not
   stream gets a 502 (`chat.go:540-553`, `chat.go:611-613`;
   `docs/openai-compatible-api.md:168`).

Met while modelling and kept as hazards; the property that comes nearest excludes the
case by name:

* `StartLogin` reads whether the profile exists before it creates the job
  (`service.go:272-277`), so that a login which overtakes the registration of the same
  profile counts as new and its account is not compared (`ReloginKeepsAccount`).
* Two waiters that both saw a stale lock remove it one after the other; the second
  removes the lock of the first, and two requests write one `auth.json`
  (`lock.go:39-41`; `WritersSerialized` from two removals on).
* A Google refresh under way saves over a login that came meanwhile
  (`oauth.go:194`; `LoginKept`).
* A login that did not get the loopback port sends its redirect to the login that did,
  which ends with a state mismatch (`oauth.go:350-361`); and the end of standard input
  ends a login that has a listener, too (`oauth.go:406-412`).
* `auth add` saves the registry as it was before the interactive login
  (`app.go:139-167`); finding 3 is the same shape.
* A lookup renews a call in memory only, and a restart sweeps by the older expiry in the
  file (`replay.go:187-190`, `333-342`, `482`): a call that is older than an idle window
  may be usable before a restart and gone after it, although no write failed. Nor does
  remembering a call renew a conversation that still belongs to another account, with
  which the call then goes. `SurvivesRestart` claims calls younger than an idle window
  whose conversation is of their account.
* A Google call that hangs keeps its conversation's lease, and everybody who waits for
  it, until its own client goes (`client.go:236-258`; `WaiterResolved` names the case).
* A log file that could not be closed or reopened takes no further line until the
  process starts again, and nobody is told (`logger.go:225-242`), while the daily
  summaries still add up. A summary that cannot be read is replaced by one that starts
  from nothing (`logger.go:514-521`; `SummaryAddsUp`). What a request that outlives
  shutdown drops after the writer's last look is told by nobody (`CloseTellsAll` speaks
  of requests that ended before). A health line is written when the next event is taken
  out, with that event's time: it may be rotated away before the events it stands for,
  and it may be dated before the window of a report that shows the beginning of a
  request whose end it counts as dropped (`logger.go:154`, `164-169`, `report.go:114`).
  A report that meets a rotation between two files may miss one. `ReportSound` names all
  three.

## 5. What is proved

The theorems hold for any number of requests, accounts, profiles, jobs, files and so
on, and for any bounds on time, failures and crashes. They rest on the assumption that
the module declares about its constants, and on nothing else: sets that a count ranges
over are finite, the value `None` stands for no element of the other sets, capacities
and lifetimes are positive. TLC evaluates each assumption in the passing runs.

| Module | Theorem | States | Run |
|---|---|---|---|
| `AccountPoolProofs` | `PoolInvariant` | `Spec => []Inv` | |
| | `TypeCorrect` | `[]TypeOK` | `pool` |
| | `InUseStays` | `[]InUseNeverEvicted` | `pool` |
| | `Exclusive` | `[]SessionExclusive` | `pool` |
| | `HistoryStays` | `[]HistoryPinned` | `pool` |
| | `SizesBounded` | `[]Bounded` | `pool` |
| `AccountPoolRefinement` | `AffinityKept` | `AffinityMovesOnlyVerified` | `pool` |
| | `Refines` | `RefinesAffinity` | `pool` |
| `CodexGatewayProofs` | `GatewayInvariant` | `Spec => []Inv` | |
| | `TypeCorrect` | `[]TypeOK` | `codex` |
| | `RotationBounded` | `[]AttemptsBounded` | `codex` |
| | `Serialized` | `[]WritersSerialized` | `codex` |
| | `SingleUse` | `[]RefreshSingleUse` | `codex` |
| | `LeavesLimited` | `LeavesOnlyLimited` | `codex` |
| `ContinuityProofs` | `ContinuityInvariant` | `Spec => []Inv` | |
| | `TypeCorrect` | `[]TypeOK` | `continuity` |
| | `ReplayedToMaker` | `[]ReplayedToItsMaker` | `continuity` |
| | `CallsCovered` | `[]CallsHaveSession` | `continuity` |
| | `Survives` | `[]SurvivesRestart` | `continuity` |
| | `AgesInvariant` | `Spec => []Ages` | |
| | `EndsInTime` | `[]EndsInRetention` (stated in the module) | |
| | `AsOne` | `LostAsUnit` | `continuity` |
| `AdminLoginProofs` | `AdminInvariant` | `Spec => []Inv` | |
| | `TypeCorrect` | `[]TypeOK` | `login` |
| | `Survives` | `[]AuthRecoverable` | `login` |
| | `Settles` | `[]SettledOutcome` | `login` |
| | `KeepsAccount` | `ReloginKeepsAccount` | `login` |
| `GoogleAuthProofs` | `GoogleInvariant` | `Spec => []Inv` | |
| | `TypeCorrect` | `[]TypeOK` | `googleauth` |
| | `Snapshots` | `[]OneSnapshot` | `googleauth` |
| | `Refreshes` | `[]RefreshedOnce` | `googleauth` |
| | `KeepsLogin` | `LoginKept` | `googleauth` |
| `EventLogProofs` | `EventLogInvariant` | `Spec => []Inv` | |
| | `TypeCorrect` | `[]TypeOK` | `eventlog` |
| | `EachOnce` | `[]EveryEventOnce` | `eventlog` |
| | `TellsAll` | `[]CloseTellsAll` | `eventlog` |
| | `AddsUp` | `[]SummaryAddsUp` | `eventlog` |
| | `KeepsSuffix` | `[]RotationKeepsSuffix` | `eventlog` |
| | `Sound` | `[]ReportSound` | `eventlog` |
| `ChatStreamProofs` | `ChatInvariant` | `Spec => []Inv` | |
| | `TypeCorrect` | `[]TypeOK` | `chat` |
| | `SameAnswer` | `[]StreamMatchesAnswer` | `chat` |
| | `SingleStream` | `[]OneStream` | `chat` |
| | `AnswersCompleted` | `[]OnlyCompletedAnswered` | `chat` |
| | `LogTruthful` | `[]LoggedAsTold` | `chat` |

Each module has one inductive invariant, `Inv`, a conjunction of named parts, which
was checked by TLC before it was proved. `InitInv` and `NextInv` say that it is
inductive; the latter has a lemma for each action, or for each kind of step where
several actions do the same to the parts.

### The account pool

`SessionExclusive` is not inductive: it says nothing about who has the slot of a
gate, nor whether two requests of one conversation point at the same cell. `Inv`
adds three parts to the types. `GateInv`: who holds a lease or is about to give a
slot back is the one recorded in its cell's gate. `MapInv`: who is not idle finds
its cell in the map under its conversation, and no cell is there twice. `CountInv`:
a cell's count is the number of requests that point at it; it is what keeps sweep
and eviction, which look only at counts, from taking a cell that `MapInv` needs.
Two requests in one conversation then share a cell, and a gate has one holder.

The steps fall into two kinds. Most leave references and slots alone: one frame
lemma (`ReferencesFrame`) carries the three parts over, and each action is shown to
be such a step (`QuietSteps`). `Acquire`, entering and leaving the gate, and
`unref` have a lemma each; counting is by the library's facts on cardinality.
`HistoryStays` needs more about the same request: that nobody else rebinds its cell
(from `Exclusive`) and that with history no verdict is recorded (`Alternate` is
never reached). `SizesBounded` has an invariant of its own (`CapacityInv`): sweeping
only shrinks a map, and where the map is full the newcomer takes the place of an entry
that has been removed in the same critical section.

`AffinityKept` is about a verdict that a request carries over several upstream answers.
`Earned` says at each of its stages what the request has found out about the account
the conversation is bound to and about the one it goes on with. Both theorems use that
the bound account cannot change meanwhile, as nobody else has the gate. `Refines` maps
a request to the conversation it works in and a conversation to its account; each step
of the pool is one of `Admit`, `Bind`, `Leave`, `Forget`, or a stutter, and it is
`Forget` only if no one works there, by `MapInv` and `CountInv`.

### The Codex gateway

`AttemptsInv` says, per program counter, which profiles a request has been sent with,
tried or refreshed, and that it asks for credentials only where it may still send.
`LockInv` is the argument about stale locks. The one who breaks a lock looks and
removes in two steps. As long as a profile's lock has never been removed, whoever is
about to remove it saw the dead process's; the first removal therefore takes that one.
A second breaker may then take a living lock, so the second removal is where
`WritersSerialized` ends, and the theorem says that it does not end before. `TokenInv`
builds on it: one writer at a time, and no answer lost, means that what the writer has
read is what the authority expects. `RouteInv` ties the copy of the registry under the
routing mutex to the registry, and needs the absence of editors for it.

### The continuity cache

`StoresInv` says of memory and of the file that every call has its conversation and is
what was handed out under its handle (`made`), with the time it counts from, and that it
expires within the absolute retention. `DiskInv` compares the two: the file has all that
the memory has until a write fails, with the same beginnings, lookups aside, which renew
only in memory; a restart may therefore bring back an older expiry, but not another
beginning, which is why `EndsInTime` needs both. `SurvivesRestart` needs more about
expiries. `Ages` says, of memory and file alike, that a call lasts at least an idle window
from its beginning, and that its conversation, if it is of the call's account, lasts as
long, but for the absolute retention; each operator of the cache `Renews` what it keeps or
leaves it as old as it was. A call younger than an idle window is therefore alive in the
file, too, and so is its conversation, whose own retention cannot have ended, since the
conversation lives in memory.
Three lemmas say what the operators of the
cache make of a store: sweep, eviction and forgetting only delete, and by whole
conversations. `TurnInv` carries it to the request: what it shows was made by the
account it is sent to, for the lease excludes the others of its conversation.

### Administrator jobs

`RunOf` says what a job's goroutine relies on at each program counter: the job in
memory and in the file, the lock, the backup. The recovery argument compares
the auth file with the one that ought to survive through two views, of the file and of its account
only: the first holds until a refresh meets a fault, the second always. `Recoverable`
says that the right one is in place or in a backup that may still be restored;
`Spent` that a backup is no longer needed, which has to be true before the success of
its login reaches the disk. `OutcomeInv` adds, for behaviours without faults, that each
backup is attended to by a job or by recovery, and that a registration that must not
stay can still be taken back. A step changes the job store, a profile's files or
neither (`StoreStep`, `FileStep`, `QuietStep`), and each of the parts is shown to be kept by each kind;
the actions are then instances. `KeepsAccount` adds `AccountInv`: past the validation of its
login a job that knew of the profile has brought an auth file of the same account.

The proof corrected the statement of `ReloginKeepsAccount`: its exception for a profile
that its job took for new, as it was written before, fails with three jobs, one more
than the run has; it now names the job itself (`NewLogin`).

### Google accounts

`Serves` and `Runs` say what a request and a login process hold at each program
counter: grants of one profile, with the project of the account. A request under the
mutex knows the grant that the file is of, unless a login has overtaken it; `overtaken`
is the exception that `RefreshedOnce` and `LoginKept` name. `Stays` is the fact about
steps that carries what one process knows over the steps of the others: a process keeps
its profile and a grant keeps its account.

### The event log

`Inv` has six parts besides the types. `PhaseInv` says where the process, the writer's
goroutine and the requests may stand together; in particular, once the writer has looked for
the last time, only requests that outlive the shutdown still drop events. `OnceInv` counts the places that
tell an event: lines in the log, with the writer, in the queue, and the events counted as
dropped; the count is 0 before the event is emitted and 1 afterwards. That some other
request may be told of in the same health line is why the events in `line.of` are counted
with it. `SummaryInv` adds to `SummaryAddsUp` that a summary which is not dirty is what
its file has, so that a new day or a start loses nothing.

`FilesInv` is the argument about rotation. The files are ordered whatever fails
(`Ordered`). As long as the log has not failed, they also hold the last lines without a gap
(`Suffix`), the writer has its current file open unless it rotates (`Placed`), and all files
are full except one, `Odd` (`Packed`): the current one or, between the renames of a
rotation, the empty place that travels from the oldest name to the current one.

For reports, `LinesInv` says that a request's end never comes before its beginning, in the
log, with the writer, or in the queue, nor across them, that all its lines are of one
run, and that their days go up. `ReportInv` compares what a report has read with what it will read: what it has is
sorted and older than all that it will find under the names it still has to read, wherever
a rotation moves it in the meantime (`ReadsOn`), and without a rotation both together have
no gap up to the last line (`NoGap`). `Sound` then goes by contradiction, for any window of
days. Suppose that the report shows a request as begun and not ended whose end is told by a
line up to the last it has, and not after the window. If that is the line of the end, it
lies between two lines that the report has, so it has it; and it lies in the window, since
its day is not before that of the beginning. If the end was dropped and the notice is
neither rotated away nor older than the window, the report knows it, and warns. If the
process died, the start-up line is known to it, and it calls the request interrupted.

Every action leaves most parts alone, and a frame lemma per part (`KeepsOnce`,
`SummaryFrame`, `FilesFrame`, `SameLines`, `ReportFrame`) says what that takes. The proof
changed two definitions so that they can be reasoned about, and nothing else: a report keeps the
set of names it has still to read and takes the oldest, and `RotationKeepsSuffix` speaks of
the files themselves where it used to speak of their concatenation.

### The chat stream

The writer of a streaming client is compared with an ideal one (`Ideal`), all of whose
writes succeed. `Good` says that the events are `WellFormed` (items added in order and
once, announced before anything is said of them, nothing after an end) and what the ideal
writer has made of them, told from the events alone (`Tracks`): each call has an index of
its own (`IndexTrack`), each call has its chunk and all arguments under its index
(`CallTrack`, `ArgsTrack`), there is a chunk per text delta (`TextTrack`), and a finish
reason and `[DONE]` come last and only after an end (`EndTrack`). `Fits` names the events
that may follow; each kind of event keeps `Good`, and every step of the proxy or the
translator adds events that fit.

`ChatInv` then relates the real writer to the ideal one. It is `InStep`, but for a frame
that has no newline yet; or a write has failed, and what is written is an initial part
(`Broken`); or it has `Finished`. Together with `AssembledIs`, which computes the answer of
a client that does not stream from well-formed events, this gives `SameAnswer`;
`RestMade` and `ClosedPrefix`, about the final chunk and `[DONE]`, give `SingleStream`.
`PhaseInv` says where the request stands and what has gone wrong until then, which is what
the other two theorems need.

What a writer has consumed is a recursive function over the events. The library's
induction theorems cannot be used (they take an operator), but a least number can: of the
lengths at which a fact fails there is a least one (`LeastNumber`, from the
well-foundedness of `<`), and there it would hold by the step before. In this way
`Consumed` is shown to exist and to unfold by one event (`ConsumedMore`), and from there on
one event at a time is enough. For this `Consumed` became a recursive function where
it used to be a fold, and a failing write moved out of it, to `Written`.

### Only model-checked

* Liveness (`WaiterResolved`, `LoginSettles`, `BackupSettles`, `RequestEnds`): fairness
  and `ENABLED` are out of the prover's reach.
* The properties of the runs that expect a violation: they are false.

## 6. Not modelled, and why

* The administrator's HTTP layer and page, key files, version discovery, the text of
  reports and the analysis of request bodies: sequential code or pure conversion.
* Translation of messages, tools, schemas and model names: pure functions on deep
  JSON, where a table of tests says more than a model of a few values.
* The Responses surface of `/v1`, which passes the events through unchanged.
* The tracker of context observation: one map under one mutex, whose answers nothing
  depends on.
* The login child's JSON-RPC (`appserver.go`): planned, see below.
* `Continuity` with several requests at a time, or with three calls: run by hand, too
  slow to keep; its safety is proved for all of them.

## 7. Plan

Done, in this order: `SessionAffinity`, `AccountPool` and its proofs; `AdminLogin`;
`CodexGateway`; `Continuity` on top of `SessionAffinity`; `ChatStream`.

Then the breaking of stale write locks, inside `CodexGateway` where its consequences
show; `EventLog`; `GoogleAuth`; failing writes in `Continuity`.

Next:

1. `CodexLogin`: the child's pipes, exit, cancel and the reader that blocks
   (`appserver.go:53-260`), as a refinement of the login step of `AdminLogin`.
2. The Responses surface in `ChatStream`.

Every safety property that a passing run checks, and the refinement, is proved. What
is added next should come with its proof.
