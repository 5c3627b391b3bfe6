------------------------------ MODULE EventLog ------------------------------
(***************************************************************************)
(* The asynchronous event log (observability) and the report that reads    *)
(* it.  Requests emit their events into a bounded queue, and what does not *)
(* fit is counted.  One goroutine, the writer, takes them out, appends a   *)
(* line to a log file that rotates and keeps the day's summary, which it   *)
(* saves now and then.  A process that is asked to stop closes the queue   *)
(* after five seconds whoever still emits; it may also crash, and it       *)
(* starts again.  A report, another process, opens the log files one after *)
(* the other whatever the writer does to them meanwhile.                   *)
(*                                                                         *)
(* The lines are numbered as they are made; a file is the numbers of its   *)
(* lines.  The counter of dropped events is the set of these events, of    *)
(* which the code knows the size only.                                     *)
(***************************************************************************)
EXTENDS Integers, Sequences, FiniteSets, SequencesExt

CONSTANTS
  Requests,
  Upgrades,    \* the requests that become a WebSocket
  None,
  QueueSize,   \* places in the queue
  PerFile,     \* lines that fit into a log file
  MaxFiles,    \* log files kept, the current one among them
  Days, MaxRuns, MaxSurprises   \* bounds on dates, starts and kinds of failure

ASSUME EventLogAssumption ==
  /\ IsFiniteSet(Requests) /\ Upgrades \subseteq Requests
  /\ None \notin Requests \cup Seq(Nat)
  /\ QueueSize \in Nat \ {0} /\ PerFile \in Nat \ {0} /\ MaxFiles \in Nat \ {0, 1}
  /\ Days \in Nat \ {0} /\ MaxRuns \in Nat /\ MaxSurprises \in Nat

VARIABLES
  phase,    \* of the process
  run,      \* which start of it this is
  today,
  req,      \* the requests
  queue, dropped,
  writer,   \* the goroutine: where it is, and the lines it has still to write
  handle,   \* the file of rotatingWriter: open, nil, or closed and not nil
  files,    \* events.jsonl is 0, events.jsonl.i is i
  log,      \* the lines made
  daily,    \* the summary in memory and the day it is about
  disk,     \* the summaries in the daily directory
  recorded, \* what was recorded for each day and not lost by a crash
  report,
  surprises \* the kinds of failure there have been, a midnight and a report under way

process == <<phase, run, today>>
queuing == <<queue, dropped>>
logging == <<handle, files, log>>
summing == <<daily, disk, recorded>>
vars == <<process, req, queuing, writer, logging, summing, report, surprises>>

Names == 0..(MaxFiles - 1)
LogFaults == {"write", "close", "rename", "open"}
DailyFaults == {"flush", "read", "list"}
Surprises == LogFaults \cup DailyFaults \cup {"crash", "midnight", "report"}

\* The events of a request in the order in which it emits them.
Events(r) == IF r \in Upgrades THEN <<"accept", "end">> ELSE <<"start", "end">>
Kinds == {"startup", "start", "accept", "end", "health"}

\* A health line counts dropped events, of.
Line == [kind : Kinds, req : Requests \cup {None}, run : 1..MaxRuns, day : 1..Days,
         of : SUBSET (Requests \X Kinds)]
Summary == [count : Nat, dropped : Nat]
NoSummary == [count |-> 0, dropped |-> 0]

Closed == phase \in {"closing", "stopped"}

\* The types; the writer keeps to the queue it was made for.
TypeOK ==
  /\ phase \in {"stopped", "serving", "closing"}
  /\ run \in 0..MaxRuns /\ today \in 1..Days
  /\ req \in [Requests -> [pc : {"idle", "stamp", "send", "count", "done", "late",
                                "panicked", "dead"},
                          next : 1..3, day : 0..Days]]
  /\ queue \in Seq(Line) /\ Len(queue) <= QueueSize
  /\ dropped \subseteq Requests \X Kinds
  /\ writer \in [pc : {"off", "select", "line", "rename", "open", "record", "flush", "done"},
                  todo : Seq(Line), slot : Names, last : BOOLEAN]
  /\ writer.last => Closed /\ queue = <<>>
  /\ handle \in {"open", "nil", "closed"}
  /\ files \in [Names -> Seq(1..Len(log)) \cup {None}]
  /\ log \in Seq(Line)
  /\ daily \in [day : 0..Days, sum : Summary, dirty : BOOLEAN]
  /\ disk \in [1..Days -> Summary] /\ recorded \in [1..Days -> Summary]
  /\ report \in [pc : {"idle", "read"}, left : SUBSET Names, got : Seq(1..Len(log)),
                  moved : BOOLEAN]
  /\ surprises \subseteq Surprises /\ Cardinality(surprises) <= MaxSurprises + 1

NoReport == [pc |-> "idle", left |-> {}, got |-> <<>>, moved |-> FALSE]
NoDay == [day |-> 0, sum |-> NoSummary, dirty |-> FALSE]
Off == [pc |-> "off", todo |-> <<>>, slot |-> 0, last |-> FALSE]

Init ==
  /\ phase = "stopped" /\ run = 0 /\ today = 1
  /\ req = [r \in Requests |-> [pc |-> "idle", next |-> 1, day |-> 0]]
  /\ queue = <<>> /\ dropped = {} /\ writer = Off
  /\ handle = "nil" /\ files = [i \in Names |-> None] /\ log = <<>>
  /\ daily = NoDay /\ disk = [d \in 1..Days |-> NoSummary] /\ recorded = disk
  /\ report = NoReport
  /\ surprises = {}

Surprise(kind) ==
  /\ kind \notin surprises /\ Cardinality(surprises) < MaxSurprises
  /\ surprises' = surprises \cup {kind}

\* Saving a summary may fail in the night too.
NightFault(kind) ==
  /\ kind \notin surprises /\ Cardinality(surprises \ {"midnight"}) < MaxSurprises
  /\ surprises' = surprises \cup {kind}

-----------------------------------------------------------------------------
(* Requests                                                                *)

LineOf(kind, r, day, of) ==
  [kind |-> kind, req |-> r, run |-> run, day |-> day, of |-> of]

Kind(r) == Events(r)[req[r].next]

\* The start event bears the time at which the request came.
Arrive(r) ==
  /\ phase = "serving" /\ req[r].pc = "idle"
  /\ req' = [req EXCEPT ![r].pc = "send", ![r].day = today]
  /\ UNCHANGED <<process, queuing, writer, logging, summing, report, surprises>>

Stamp(r) ==
  /\ req[r].pc = "stamp"
  /\ req' = [req EXCEPT ![r].pc = "send", ![r].day = today]
  /\ UNCHANGED <<process, queuing, writer, logging, summing, report, surprises>>

\* Emit has returned; too late is when the queue has been closed meanwhile.
Returned(r) ==
  [req[r] EXCEPT !.next = @ + 1, !.day = 0,
                 !.pc = IF Closed THEN "late"
                        ELSE IF req[r].next = Len(Events(r)) THEN "done" ELSE "stamp"]

QueueFullOffByOne == Len(queue) > QueueSize

QueueFull == Len(queue) = QueueSize

\* Sending to a closed queue panics, a full one makes select take its default.
Send(r) ==
  /\ req[r].pc = "send"
  /\ \/ /\ Closed
        /\ req' = [req EXCEPT ![r].pc = "panicked", ![r].day = 0]
        /\ UNCHANGED queue
     \/ /\ ~Closed /\ ~QueueFull
        /\ queue' = Append(queue, LineOf(Kind(r), r, req[r].day, {}))
        /\ req' = [req EXCEPT ![r] = Returned(r)]
     \/ /\ ~Closed /\ QueueFull
        /\ req' = [req EXCEPT ![r].pc = "count"]
        /\ UNCHANGED queue
  /\ UNCHANGED <<process, dropped, writer, logging, summing, report, surprises>>

\* Counting what was dropped is a step of its own.
Count(r) ==
  /\ req[r].pc = "count"
  /\ dropped' = dropped \cup {<<r, Kind(r)>>}
  /\ req' = [req EXCEPT ![r] = Returned(r)]
  /\ UNCHANGED <<process, queue, writer, logging, summing, report, surprises>>

-----------------------------------------------------------------------------
(* The writer                                                              *)

Loop(todo) ==
  [writer EXCEPT !.todo = todo,
                 !.pc = CASE todo # <<>> -> "line"
                          [] todo = <<>> /\ writer.last -> "flush"
                          [] OTHER -> "select"]

HealthForgotten(day) == <<>>

\* flushDropped: what was dropped is told before the next event, with its time.
Health(day) == IF dropped = {} THEN <<>> ELSE <<LineOf("health", None, day, dropped)>>

Receive ==
  /\ writer.pc = "select" /\ queue # <<>>
  /\ writer' = Loop(Health(Head(queue).day) \o <<Head(queue)>>)
  /\ queue' = Tail(queue) /\ dropped' = {}
  /\ UNCHANGED <<process, req, logging, summing, report, surprises>>

\* A closed queue is empty at last: what has been dropped since is told, and that is it.
ReceiveClosed ==
  /\ writer.pc = "select" /\ queue = <<>> /\ Closed
  /\ writer' = [writer EXCEPT !.todo = Health(today), !.last = TRUE,
                              !.pc = IF dropped = {} THEN "flush" ELSE "line"]
  /\ dropped' = {}
  /\ UNCHANGED <<process, req, queue, logging, summing, report, surprises>>

-----------------------------------------------------------------------------
(* The log file                                                            *)

\* Record ignores the other kinds of event.
Counts(line) == line.kind \notin {"startup", "start"}

Full == files[0] # <<>> /\ Len(files[0]) + 1 > PerFile

\* The line is made and tried: it is in the current file, or it is lost and nobody
\* hears of it.
Lost ==
  /\ log' = Append(log, writer.todo[1])
  /\ writer' = IF Counts(writer.todo[1]) THEN [writer EXCEPT !.pc = "record"]
                                        ELSE Loop(Tail(writer.todo))

Written(current) ==
  /\ Lost
  /\ \/ files' = [files EXCEPT ![0] = Append(current, Len(log) + 1)] /\ UNCHANGED surprises
     \/ files' = [files EXCEPT ![0] = current] /\ Surprise("write")

WriteLine ==
  /\ writer.pc = "line"
  /\ \/ handle = "open" /\ ~Full /\ Written(files[0])
     \/ handle # "open" /\ Lost /\ UNCHANGED <<files, surprises>>
  /\ UNCHANGED <<process, req, queuing, handle, summing, report>>

OldestOffByOne == MaxFiles - 2

Oldest == MaxFiles - 1

\* rotate closes the file and removes the oldest one.  A file that cannot be closed stays where it is and takes no more lines.
Rotate ==
  /\ writer.pc = "line" /\ handle = "open" /\ Full
  /\ \/ /\ handle' = "nil"
        /\ files' = [files EXCEPT ![Oldest] = None]
        /\ writer' = [writer EXCEPT !.pc = "rename", !.slot = Oldest]
        /\ report' = [report EXCEPT !.moved = report.pc = "read"]
        /\ UNCHANGED <<log, surprises>>
     \/ /\ handle' = "closed" /\ Surprise("close")
        /\ Lost
        /\ UNCHANGED <<files, report>>
  /\ UNCHANGED <<process, req, queuing, summing>>

Renamed(i) == [files EXCEPT ![i] = files[i - 1], ![i - 1] = None]

\* From the oldest to the current one, each takes the next name.
RenameNext ==
  LET i == writer.slot IN
  /\ writer.pc = "rename"
  /\ \/ files[i - 1] = None /\ UNCHANGED <<files, surprises>>
     \/ files[i - 1] # None /\ files' = Renamed(i) /\ UNCHANGED surprises
     \/ files[i - 1] # None /\ UNCHANGED files /\ Surprise("rename")
  /\ writer' = [writer EXCEPT !.slot = i - 1, !.pc = IF i = 1 THEN "open" ELSE @]
  /\ UNCHANGED <<process, req, queuing, handle, log, summing, report>>

\* Whatever the renames came to; an open that fails is never tried again.
Reopen ==
  /\ writer.pc = "open"
  /\ \/ handle' = "open" /\ Written(IF files[0] = None THEN <<>> ELSE files[0])
     \/ Lost /\ UNCHANGED <<handle, files>> /\ Surprise("open")
  /\ UNCHANGED <<process, req, queuing, summing, report>>

-----------------------------------------------------------------------------
(* The daily summaries                                                     *)

FlushedNever == disk

Flushed == IF daily.dirty THEN [disk EXCEPT ![daily.day] = daily.sum] ELSE disk

Counted(sum, line) ==
  IF line.kind = "health" THEN [sum EXCEPT !.dropped = @ + Cardinality(line.of)]
                          ELSE [sum EXCEPT !.count = @ + 1]

StoredIgnored(day) == NoSummary

\* ensureDate: what another day has is saved, and what this one has is read.
Stored(day) == disk'[day]

Recorded(line, sum) ==
  /\ daily' = [day |-> line.day, sum |-> Counted(sum, line), dirty |-> TRUE]
  /\ recorded' = [recorded EXCEPT ![line.day] = Counted(@, line)]

\* Record; an error before the count is one more event that the summary misses.
Record ==
  LET line == writer.todo[1] IN
  /\ writer.pc = "record"
  /\ writer' = Loop(Tail(writer.todo))
  /\ \/ /\ line.day = daily.day
        /\ Recorded(line, daily.sum)
        /\ UNCHANGED <<disk, surprises>>
     \/ /\ line.day # daily.day
        /\ \/ /\ disk' = Flushed
              /\ \/ Recorded(line, Stored(line.day)) /\ UNCHANGED surprises
                 \/ Recorded(line, NoSummary) /\ Surprise("read")
                 \/ /\ daily' = [day |-> line.day, sum |-> Stored(line.day), dirty |-> FALSE]
                    /\ UNCHANGED recorded /\ Surprise("list")
           \/ daily.dirty /\ UNCHANGED summing /\ NightFault("flush")
  /\ UNCHANGED <<process, req, queuing, logging, report>>

\* The summary replaces its file, or stays dirty.
Flush ==
  \/ disk' = Flushed /\ daily' = [daily EXCEPT !.dirty = FALSE] /\ UNCHANGED surprises
  \/ daily.dirty /\ UNCHANGED <<disk, daily>> /\ NightFault("flush")

\* Every thirty seconds,
FlushTick ==
  /\ writer.pc = "select" /\ daily.dirty
  /\ Flush
  /\ UNCHANGED <<process, req, queuing, writer, logging, recorded, report>>

\* and when the queue has come to its end.
FlushLast ==
  /\ writer.pc = "flush"
  /\ Flush
  /\ writer' = [writer EXCEPT !.pc = "done"]
  /\ UNCHANGED <<process, req, queuing, logging, recorded, report>>

-----------------------------------------------------------------------------
(* The process                                                             *)

\* executeServe opens the log and emits its first event before it serves.
Start ==
  /\ phase = "stopped" /\ run < MaxRuns
  /\ phase' = "serving" /\ run' = run + 1
  /\ queue' = <<[LineOf("startup", None, today, {}) EXCEPT !.run = run']>>
  /\ dropped' = {} /\ writer' = [Off EXCEPT !.pc = "select"]
  /\ handle' = "open"
  /\ files' = [files EXCEPT ![0] = IF @ = None THEN <<>> ELSE @]
  /\ daily' = NoDay /\ recorded' = disk
  /\ req' = [r \in Requests |-> IF req[r].pc = "idle" THEN req[r]
                                ELSE [pc |-> "dead", next |-> 1, day |-> 0]]
  /\ UNCHANGED <<today, log, disk, report, surprises>>

\* Shutdown lets requests under way come to their end, but for five seconds only;
\* then the deferred Close closes the queue.
CloseQueue ==
  /\ phase = "serving" /\ phase' = "closing"
  /\ UNCHANGED <<run, today, req, queuing, writer, logging, summing, report, surprises>>

\* A goroutine dies with its process.
Ended == [r \in Requests |-> IF req[r].pc \in {"stamp", "send", "count"}
                               THEN [req[r] EXCEPT !.pc = "dead", !.day = 0] ELSE req[r]]

\* Close has waited for the writer and the process exits.
Stop ==
  /\ phase = "closing" /\ writer.pc = "done"
  /\ phase' = "stopped" /\ handle' = "nil" /\ req' = Ended
  /\ UNCHANGED <<run, today, queuing, writer, files, log, summing, report, surprises>>

Crash ==
  /\ phase # "stopped"
  /\ phase' = "stopped" /\ Surprise("crash") /\ handle' = "nil" /\ req' = Ended
  /\ queue' = <<>> /\ dropped' = {} /\ writer' = Off /\ daily' = NoDay /\ recorded' = disk
  /\ UNCHANGED <<run, today, files, log, disk, report>>

Midnight ==
  /\ today < Days /\ today' = today + 1 /\ Surprise("midnight")
  /\ UNCHANGED <<phase, run, req, queuing, writer, logging, summing, report>>

-----------------------------------------------------------------------------
(* The report                                                              *)

\* defaultObservabilityLogPaths looks which files are there,
Paths == {i \in Names : files[i] # None}

\* A report that is asked for in the night, when nothing waits to be written.
Calm ==
  /\ writer.pc \in {"off", "select", "done"} /\ queue = <<>> /\ ~daily.dirty
  /\ \A r \in Requests : req[r].pc \notin {"stamp", "send", "count"}

ReportBegins ==
  /\ report.pc = "idle" /\ Paths # {}
  /\ Surprise("report") \/ (Calm /\ NightFault("report"))
  /\ report' = [NoReport EXCEPT !.pc = "read", !.left = Paths,
                                !.moved = writer.pc \in {"rename", "open"}]
  /\ UNCHANGED <<process, req, queuing, writer, logging, summing>>

\* and then each is opened and read, the oldest first.
Path == CHOOSE i \in report.left : \A j \in report.left : j <= i
Content == files[Path]

LastRead == report.pc = "read" /\ report.left = {Path} /\ Content # None

\* A file that has been renamed away in between ends the report.
ReportReads ==
  /\ report.pc = "read"
  /\ \/ /\ Content # None /\ ~LastRead
        /\ report' = [report EXCEPT !.got = @ \o Content, !.left = @ \ {Path}]
        /\ UNCHANGED surprises
     \/ /\ Content = None \/ LastRead
        /\ report' = NoReport /\ surprises' = surprises \ {"report"}
  /\ UNCHANGED <<process, req, queuing, writer, logging, summing>>

\* What the report knows when it has read its last file: the lines that bear a day of
\* the window it was asked for, which nothing that it does before depends on.
Got == report.got \o Content
Known(from, to) == {line \in {log[Got[i]] : i \in DOMAIN Got} : line.day \in from..to}
Seen(known, kind) == {line.req : line \in {l \in known : l.kind = kind}}
Upgraded(known) == Seen(known, "accept") \ Seen(known, "end")
Interrupted(known) ==
  {r \in Upgraded(known) :
     \E l, m \in known : l.req = r /\ m.kind = "startup" /\ l.run < m.run}
Unfinished(known) == (Seen(known, "start") \ Seen(known, "end")) \ Seen(known, "accept")
WarnsOfRequests(known) == Unfinished(known) # {} \/ Interrupted(known) # {}

Warns(known) ==
  Unfinished(known) # {} \/ Interrupted(known) # {} \/ Seen(known, "health") # {}

-----------------------------------------------------------------------------
\* What the writer's goroutine does.
Write ==
  \/ Receive \/ ReceiveClosed \/ WriteLine \/ Rotate \/ RenameNext \/ Reopen
  \/ Record \/ FlushTick \/ FlushLast

Next ==
  \/ \E r \in Requests : Arrive(r) \/ Stamp(r) \/ Send(r) \/ Count(r)
  \/ Write
  \/ Start \/ CloseQueue \/ Stop \/ Crash \/ Midnight
  \/ ReportBegins \/ ReportReads

Spec == Init /\ [][Next]_vars

-----------------------------------------------------------------------------
(* Properties                                                              *)

Made == {log[n] : n \in DOMAIN log}

\* The lines made, under way or waiting, and what is counted but not yet told.
Lines ==
  log \o (IF writer.pc = "record" THEN Tail(writer.todo) ELSE writer.todo) \o queue
      \o <<LineOf("health", None, today, dropped)>>

Emitted(r) == {Events(r)[i] : i \in 1..(req[r].next - 1)}
Tells(line, r, kind) == (line.req = r /\ line.kind = kind) \/ <<r, kind>> \in line.of

\* An event that was emitted is a line or is counted as dropped, once and in one
\* place, however the queue filled and whenever it was closed; only a crash can take
\* it away (logger.go:121-173, docs/observability.md:63).
EveryEventOnce ==
  phase # "stopped" \/ writer.pc = "done" =>
    LET lines == Lines IN
    \A r \in Requests : \A kind \in Emitted(r) :
      Cardinality({i \in DOMAIN lines : Tells(lines[i], r, kind)}) = 1

\* Close leaves nothing behind: the events of a request that ended before are lines
\* or told as dropped, and the summaries are saved, but for a failing directory
\* (logger.go:128-162).
CloseTellsAll ==
  phase = "stopped" /\ writer.pc = "done" =>
    /\ \A r \in Requests : req[r].pc = "done" =>
         \A kind \in Emitted(r) : \E line \in Made : Tells(line, r, kind)
    /\ surprises \cap {"flush", "read"} = {} => disk = recorded

\* Each day's summary counts what was recorded for it, once, whether its file or the
\* memory has it: over midnight with stamps that come late, restarts, and failures of
\* the log or of saving (logger.go:384-437, logger.go:504-523).
SummaryAddsUp ==
  "read" \notin surprises =>
    \A d \in 1..Days : recorded[d] = IF d = daily.day THEN daily.sum ELSE disk[d]

\* The numbers of the lines that the files still have.
Kept == UNION {Range(files[i]) : i \in Paths}

\* A file that takes no further line.
AtLimit(i) == files[i] # None /\ Len(files[i]) >= PerFile

\* The files hold the lines in their order, the older file the older ones, whatever
\* fails; if nothing does, they hold the last ones without a gap, in the middle of a
\* rotation too, and all files but one are full before anything is given up
\* (logger.go:224-263, docs/observability.md:60).
RotationKeepsSuffix ==
  /\ \A i, j \in Paths : \A a \in DOMAIN files[i], b \in DOMAIN files[j] :
       i > j \/ (i = j /\ a < b) => files[i][a] < files[j][b]
  /\ surprises \cap LogFaults = {} =>
       /\ \A n \in Kept : n..Len(log) \subseteq Kept
       /\ "crash" \notin surprises =>
            \/ 1..Len(log) \subseteq Kept
            \/ \A i, j \in Names : i # j => AtLimit(i) \/ AtLimit(j)

\* A line that tells how r ended: with an event, with one that was dropped, or with
\* its process.
EndOf(line, r) ==
  \/ line.req = r /\ line.kind = "end"
  \/ <<r, "end">> \in line.of
  \/ line.kind = "startup" /\ \E l \in Made : l.req = r /\ l.run < line.run

\* What the report of a window cannot show of line n: it came after the last line read,
\* or after the window; a notice of a drop or a restart has been rotated away; a notice of
\* a drop bears an older day, for it has the time of the event that was taken out next.
OutOfSight(n, from, to) ==
  \/ n > Last(Got)
  \/ log[n].day > to
  \/ log[n].kind \in {"health", "startup"} /\ n \notin Range(Got)
  \/ log[n].kind = "health" /\ log[n].day < from

\* A report reads no line twice and all in order, though files are renamed while it
\* reads.  If it gives no coverage warning, then whatever the window, the end of a request
\* that has its beginning and not its end there is out of the report's sight, unless a
\* rotation came between its reads or the log failed (docs/observability.md:63,
\* docs/observability.md:85, app/report.go:32-50, app/report.go:154-166,
\* report.go:96-199, report.go:269-336).
ReportSound ==
  LastRead =>
    /\ \A i \in 2..Len(Got) : Got[i - 1] < Got[i]
    /\ ~report.moved /\ surprises \cap LogFaults = {} =>
         \A from \in 1..Days : \A to \in from..Days :
           LET known == Known(from, to) IN
           ~Warns(known) =>
             \A r \in (Seen(known, "start") \cup Seen(known, "accept")) \ Seen(known, "end") :
               \A n \in DOMAIN log : EndOf(log[n], r) => OutOfSight(n, from, to)
=============================================================================
