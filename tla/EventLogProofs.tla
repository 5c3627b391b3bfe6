--------------------------- MODULE EventLogProofs ---------------------------
(***************************************************************************)
(* Proofs about EventLog for any number of requests, places, files, lines  *)
(* in a file, days, starts and failures.                                   *)
(*                                                                         *)
(* The inductive invariant has a part for each of the four things that go  *)
(* on: PhaseInv, where the process, the writer and the requests may stand  *)
(* together; OnceInv, in how many places each event is told; SummaryInv,   *)
(* what the summaries owe to their files; FilesInv, how the lines lie in   *)
(* the files, and where a rotation has its gap.  LinesInv and ReportInv    *)
(* are what a report needs besides: in which order, of which run and of    *)
(* which days the lines of a request are, and what it has read compared    *)
(* with what it has still to read.                                         *)
(***************************************************************************)
EXTENDS EventLog, FiniteSetTheorems, SequenceTheorems, WellFoundedInduction, TLAPS

\* The lines the writer has still to make.
Rest == IF writer.pc = "record" THEN Tail(writer.todo) ELSE writer.todo

-----------------------------------------------------------------------------
(* The invariant                                                           *)

Active(r) == req[r].pc \in {"stamp", "send", "count"}

PhaseInv ==
  /\ phase # "stopped" => run # 0 /\ writer.pc # "off"
  /\ phase = "stopped" => writer.pc \in {"off", "done"}
  /\ writer.todo = <<>> <=> writer.pc \in {"off", "select", "flush", "done"}
  /\ writer.pc \in {"flush", "done"} => writer.last
  /\ writer.pc \in {"off", "select"} => ~writer.last
  /\ writer.pc = "off" => queue = <<>> /\ dropped = {}
  /\ writer.pc = "rename" => writer.slot # 0
  /\ handle = "open" => files[0] # None /\ writer.pc \notin {"rename", "open"}
  /\ writer.last => \A x \in dropped : req[x[1]].pc = "late"
  /\ \A r \in Requests :
       /\ Active(r) => phase # "stopped" /\ req[r].next < 3
       /\ req[r].pc \in {"send", "count"} => req[r].day # 0
       /\ req[r].pc = "idle" => req[r].next = 1

\* The number of lines of s that tell the event, and of all places that have it.
Telling(s, r, kind) == Cardinality({i \in DOMAIN s : Tells(s[i], r, kind)})
Dropped(r, kind) == IF <<r, kind>> \in dropped THEN 1 ELSE 0
Total(r, kind) ==
  Telling(log, r, kind) + Telling(Rest, r, kind) + Telling(queue, r, kind) + Dropped(r, kind)

\* An event is told nowhere before it is emitted, and once afterwards.
OnceInv ==
  \A r \in Requests : \A i \in 1..2 :
    /\ req[r].pc # "dead" /\ req[r].next <= i => Total(r, Events(r)[i]) = 0
    /\ (phase # "stopped" \/ writer.pc = "done") /\ i < req[r].next
         => Total(r, Events(r)[i]) = 1

\* A summary that is not dirty is what its file has.
SummaryInv ==
  /\ SummaryAddsUp
  /\ daily.dirty => daily.day # 0
  /\ ~daily.dirty /\ daily.day # 0 => disk[daily.day] = daily.sum
  /\ writer.pc = "done" /\ daily.dirty => "flush" \in surprises

FaultFree == surprises \cap LogFaults = {}

\* The file that need not be full: the current one, or the gap of a rotation.
Odd == IF writer.pc = "rename" THEN writer.slot ELSE 0

Ordered ==
  \A i, j \in Paths : \A a \in DOMAIN files[i], b \in DOMAIN files[j] :
    i > j \/ (i = j /\ a < b) => files[i][a] < files[j][b]

\* A writer that writes has its file, and a rotation has its gap.
Placed ==
  /\ phase # "stopped" /\ writer.pc \notin {"rename", "open", "done"} => handle = "open"
  /\ writer.pc \in {"rename", "open"} => files[Odd] = None

Suffix == \A n \in Kept : n..Len(log) \subseteq Kept

\* The other files are full and lie without a gap.
Packed ==
  /\ \A i \in Paths \ {Odd} : AtLimit(i)
  /\ \A i \in Paths : \A j \in 0..i : j # Odd => j \in Paths
  /\ \/ 1..Len(log) \subseteq Kept
     \/ \A i \in Names \ {Odd} : AtLimit(i)

FilesInv ==
  /\ Ordered
  /\ FaultFree => Placed /\ Suffix /\ ("crash" \notin surprises => Packed)

Ends(line, r) == line.req = r /\ line.kind = "end"
Begins(line, r) == line.req = r /\ line.kind \in {"start", "accept"}

\* No line of T begins what one of S ends; and none after it in a sequence.
Before(S, T) == \A l \in S, m \in T, r \in Requests : ~(Ends(l, r) /\ Begins(m, r))
InOrder(s) ==
  \A a, b \in DOMAIN s : a < b => \A r \in Requests : ~(Ends(s[a], r) /\ Begins(s[b], r))

AllLines == Range(log) \cup Range(Rest) \cup Range(queue)

EndsLast ==
  /\ InOrder(log) /\ InOrder(Rest) /\ InOrder(queue)
  /\ Before(Range(log), Range(Rest) \cup Range(queue)) /\ Before(Range(Rest), Range(queue))

\* The lines of a request are of one run, of this one as long as it is under way.
Owned(lines) ==
  /\ \A l \in lines : /\ l.of # {} => l.kind = "health"
                      /\ l.req = None => l.kind \in {"startup", "health"}
  /\ \A l, m \in lines : l.req = m.req /\ l.req # None => l.run = m.run
  /\ \A l \in lines, r \in Requests : l.req = r =>
       req[r].pc # "idle" /\ (Active(r) => l.run = run)

\* A request has the day of the event that it emits,
Timed(r) == req[r].pc \in {"send", "count"}

\* and the days go up along its lines and from one start of the process to the next.
Dated(lines) ==
  /\ \A l \in lines : l.day <= today /\ l.run <= run
  /\ \A l, m \in lines : m.kind = "startup" /\ l.run < m.run => l.day <= m.day
  /\ \A l, m \in lines, r \in Requests : Ends(m, r) /\ Begins(l, r) => l.day <= m.day
  /\ \A r \in Requests : Timed(r) =>
       req[r].day <= today /\ \A l \in lines : l.req = r => l.day <= req[r].day

LinesInv == EndsLast /\ Owned(AllLines) /\ Dated(AllLines)

\* The numbers of the lines that the report has, or will have.
Reach == Range(report.got) \cup UNION {Range(files[i]) : i \in report.left \cap Paths}

\* They have no gap, and go up to the last line as long as the current file is to be read.
NoGap ==
  /\ \A x, y \in Reach : x..y \subseteq Reach
  /\ 0 \in report.left => 0 \in Paths /\ \A x \in Reach : x..Len(log) \subseteq Reach

GotSorted == \A a, b \in DOMAIN report.got : a < b => report.got[a] < report.got[b]

\* What it has still to read is younger, wherever it is renamed to.
ReadsOn ==
  \A a \in DOMAIN report.got : \A i \in report.left : \A j \in Paths \cap 0..i :
    \A b \in DOMAIN files[j] : report.got[a] < files[j][b]

ReportInv ==
  report.pc = "read" =>
    /\ report.left # {} /\ GotSorted /\ ReadsOn
    /\ ~report.moved => writer.pc \notin {"rename", "open"}
    /\ ~report.moved /\ FaultFree => NoGap

Inv ==
  TypeOK /\ PhaseInv /\ OnceInv /\ SummaryInv /\ FilesInv /\ LinesInv /\ ReportInv

-----------------------------------------------------------------------------
(* Types                                                                   *)

LEMMA FiniteTriple ==
  ASSUME NEW x, NEW y, NEW z
  PROVE  IsFiniteSet({x, y, z})
<1>1. IsFiniteSet({x} \cup {y})
  BY FS_Singleton, FS_AddElement
<1>2. IsFiniteSet(({x} \cup {y}) \cup {z})
  BY <1>1, FS_AddElement
<1>3. {x, y, z} = ({x} \cup {y}) \cup {z}
  OBVIOUS
<1>. QED BY <1>2, <1>3

LEMMA SurprisesFinite == IsFiniteSet(Surprises)
<1>1. IsFiniteSet(LogFaults)
  <2>1. IsFiniteSet({"write", "close", "rename"} \cup {"open"})
    BY FiniteTriple, FS_AddElement
  <2>2. LogFaults = {"write", "close", "rename"} \cup {"open"}
    BY DEF LogFaults
  <2>. QED BY <2>1, <2>2
<1>2. IsFiniteSet(DailyFaults)
  BY FiniteTriple DEF DailyFaults
<1>3. IsFiniteSet({"crash", "midnight", "report"})
  BY FiniteTriple
<1>4. IsFiniteSet(LogFaults \cup DailyFaults)
  BY <1>1, <1>2, FS_Union
<1>5. IsFiniteSet((LogFaults \cup DailyFaults) \cup {"crash", "midnight", "report"})
  BY <1>3, <1>4, FS_Union
<1>. QED BY <1>5 DEF Surprises

LEMMA SurpriseType ==
  ASSUME TypeOK, NEW kind \in Surprises, Surprise(kind) \/ NightFault(kind)
  PROVE  /\ surprises' = surprises \cup {kind} /\ kind \notin surprises
         /\ surprises' \subseteq Surprises /\ Cardinality(surprises') <= MaxSurprises + 1
<1>1. surprises' = surprises \cup {kind} /\ kind \notin surprises /\ surprises \subseteq Surprises
  BY DEF TypeOK, Surprise, NightFault
<1>2. IsFiniteSet(Surprises)
  BY SurprisesFinite
<1>3. IsFiniteSet(surprises)
  BY <1>1, <1>2, FS_Subset
<1>4. /\ Cardinality(surprises) \in Nat
      /\ Cardinality(surprises') = Cardinality(surprises) + 1
      /\ Cardinality(surprises \ {"midnight"}) \in Nat
      /\ Cardinality(surprises) <= Cardinality(surprises \ {"midnight"}) + 1
  BY <1>1, <1>3, FS_AddElement, FS_RemoveElement, FS_CardinalityType
<1>5. MaxSurprises \in Nat
  BY EventLogAssumption
<1>6. CASE Surprise(kind)
  BY <1>1, <1>4, <1>5, <1>6 DEF Surprise
<1>7. CASE NightFault(kind)
  BY <1>1, <1>4, <1>5, <1>7 DEF NightFault
<1>. QED BY <1>6, <1>7

LEMMA NumbersGrow ==
  ASSUME NEW n \in Nat, NEW s \in Seq(1..n)
  PROVE  s \in Seq(1..(n + 1))
<1>1. 1..n \subseteq 1..(n + 1)
  OBVIOUS
<1>. QED BY <1>1, SeqMonotonic

LEMMA LineType ==
  ASSUME TypeOK, run # 0, NEW kind \in Kinds, NEW q \in Requests \cup {None}, NEW day \in 1..Days,
         NEW of \in SUBSET (Requests \X Kinds)
  PROVE  LineOf(kind, q, day, of) \in Line
<1>1. run \in 1..MaxRuns
  BY EventLogAssumption DEF TypeOK
<1>. QED BY <1>1 DEF LineOf, Line

LEMMA KindType ==
  ASSUME TypeOK, NEW r \in Requests, req[r].next < 3
  PROVE  /\ Kind(r) \in Kinds \ {"health", "startup"} /\ req[r].next \in 1..2
         /\ Len(Events(r)) = 2
         /\ Events(r)[1] \in {"start", "accept"} /\ Events(r)[2] = "end"
<1>1. req[r].next \in 1..3
  BY DEF TypeOK
<1>2. req[r].next \in 1..2
  BY <1>1
<1>3. Events(r) \in {<<"accept", "end">>, <<"start", "end">>}
  BY DEF Events
<1>. QED BY <1>2, <1>3 DEF Kind, Kinds

\* A request that emits an event waits for nothing else.
LEMMA ReturnedType ==
  ASSUME TypeOK, NEW r \in Requests, req[r].next < 3
  PROVE  /\ [req EXCEPT ![r] = Returned(r)] \in
              [Requests -> [pc : {"idle", "stamp", "send", "count", "done", "late",
                                  "panicked", "dead"}, next : 1..3, day : 0..Days]]
         /\ Returned(r).next = req[r].next + 1
         /\ Returned(r).pc \in {"late", "done", "stamp"}
         /\ Returned(r).pc = "late" <=> Closed
         /\ Returned(r).pc = "stamp" => Returned(r).next < 3
<1>. PICK q : q = Returned(r)
  OBVIOUS
<1>1. req[r] \in [pc : {"idle", "stamp", "send", "count", "done", "late", "panicked", "dead"},
                  next : 1..3, day : 0..Days]
  BY DEF TypeOK
<1>2. Len(Events(r)) = 2 /\ 0 \in 0..Days
  BY KindType, EventLogAssumption
<1>3. /\ q.next = req[r].next + 1 /\ q.day = 0
      /\ q.pc = IF Closed THEN "late" ELSE IF req[r].next = 2 THEN "done" ELSE "stamp"
      /\ q \in [pc : {"idle", "stamp", "send", "count", "done", "late", "panicked", "dead"},
                next : 1..3, day : 0..Days]
  <2>1. q = [req[r] EXCEPT !.next = req[r].next + 1, !.day = 0,
                           !.pc = IF Closed THEN "late"
                                  ELSE IF req[r].next = 2 THEN "done" ELSE "stamp"]
    BY <1>2 DEF Returned
  <2>2. req[r].next + 1 \in 1..3
    BY <1>1
  <2>. QED BY <1>1, <1>2, <2>1, <2>2
<1>4. req[r].next \in 1..2
  BY <1>1
<1>5. [req EXCEPT ![r] = q] \in
        [Requests -> [pc : {"idle", "stamp", "send", "count", "done", "late",
                            "panicked", "dead"}, next : 1..3, day : 0..Days]]
  BY <1>3 DEF TypeOK
<1>. QED BY <1>3, <1>4, <1>5

RequestType == [pc : {"idle", "stamp", "send", "count", "done", "late", "panicked", "dead"},
                next : 1..3, day : 0..Days]
WriterType == [pc : {"off", "select", "line", "rename", "open", "record", "flush", "done"},
               todo : Seq(Line), slot : Names, last : BOOLEAN]

\* What the loop of run does with what it has still to write.
LEMMA LoopFacts ==
  ASSUME TypeOK, NEW todo \in Seq(Line), writer' = Loop(todo)
  PROVE  /\ writer' \in WriterType
         /\ writer'.todo = todo /\ writer'.slot = writer.slot /\ writer'.last = writer.last
         /\ writer'.pc \in {"line", "flush", "select"}
         /\ writer'.pc = "line" <=> todo # <<>>
         /\ writer'.pc = "flush" => writer.last
         /\ writer'.pc = "select" => ~writer.last
<1>1. writer \in WriterType
  BY DEF TypeOK, WriterType
<1>. DEFINE pc == CASE todo # <<>> -> "line"
                    [] todo = <<>> /\ writer.last -> "flush"
                    [] OTHER -> "select"
<1>2. /\ pc \in {"line", "flush", "select"}
      /\ pc = "line" <=> todo # <<>>
      /\ pc = "flush" => writer.last
      /\ pc = "select" => ~writer.last
  <2>1. CASE todo # <<>>
    BY <2>1
  <2>2. CASE todo = <<>> /\ writer.last
    BY <2>2
  <2>3. CASE todo = <<>> /\ ~writer.last
    BY <2>3
  <2>. QED BY <1>1, <2>1, <2>2, <2>3 DEF WriterType
<1>3. writer' = [writer EXCEPT !.todo = todo, !.pc = pc]
  BY DEF Loop
<1>. HIDE DEF pc
<1>. QED BY <1>1, <1>2, <1>3 DEF WriterType

\* A line has been made: it is in the log and the writer goes on to the next.
LEMMA LostFacts ==
  ASSUME TypeOK, writer.pc \in {"line", "open"}, writer.todo # <<>>, Lost
  PROVE  /\ Rest = writer.todo /\ Rest \in Seq(Line) /\ Rest # <<>> /\ Head(Rest) \in Line
         /\ log' = Append(log, Head(Rest)) /\ log' \in Seq(Line) /\ Len(log') = Len(log) + 1
         /\ Rest' = Tail(Rest)
         /\ writer' \in WriterType /\ writer'.last = writer.last
         /\ writer'.pc \in {"record", "line", "flush", "select"}
         /\ writer'.todo = <<>> <=> writer'.pc \in {"flush", "select"}
         /\ writer'.pc = "flush" => writer.last
         /\ writer'.pc = "select" => ~writer.last
<1>1. writer \in WriterType /\ writer.todo \in Seq(Line) /\ log \in Seq(Line)
  BY DEF TypeOK, WriterType
<1>2. Rest = writer.todo
  BY DEF Rest
<1>3. /\ writer.todo[1] = Head(writer.todo) /\ Head(writer.todo) \in Line
      /\ Tail(writer.todo) \in Seq(Line)
  BY <1>1, HeadTailProperties
<1>4. log' = Append(log, Head(Rest)) /\ log' \in Seq(Line) /\ Len(log') = Len(log) + 1
  BY <1>1, <1>2, <1>3, AppendProperties DEF Lost
<1>5. CASE writer' = [writer EXCEPT !.pc = "record"]
  <2>1. /\ writer' \in WriterType /\ writer'.pc = "record" /\ writer'.last = writer.last
        /\ writer'.todo = writer.todo
    BY <1>1, <1>5 DEF WriterType
  <2>. QED BY <1>1, <1>2, <1>3, <1>4, <2>1 DEF Rest
<1>6. CASE writer' = Loop(Tail(writer.todo))
  <2>1. /\ writer' \in WriterType /\ writer'.last = writer.last
        /\ writer'.pc \in {"line", "flush", "select"} /\ writer'.todo = Tail(writer.todo)
        /\ writer'.pc = "line" <=> Tail(writer.todo) # <<>>
        /\ writer'.pc = "flush" => writer.last
        /\ writer'.pc = "select" => ~writer.last
    BY <1>3, <1>6, LoopFacts
  <2>. QED BY <1>1, <1>2, <1>3, <1>4, <2>1 DEF Rest
<1>. QED BY <1>5, <1>6 DEF Lost

LEMMA NumbersNotNone ==
  ASSUME NEW n \in Nat, NEW s \in Seq(1..n)
  PROVE  s # None
<1>1. 1..n \subseteq Nat
  OBVIOUS
<1>2. s \in Seq(Nat)
  BY <1>1, SeqMonotonic
<1>. QED BY <1>2, EventLogAssumption

FilesType(n) == [Names -> Seq(1..n) \cup {None}]

LEMMA FilesGrow ==
  ASSUME TypeOK
  PROVE  /\ Len(log) \in Nat /\ 0 \in Names
         /\ files \in FilesType(Len(log)) /\ files \in FilesType(Len(log) + 1)
         /\ report.got \in Seq(1..Len(log)) /\ report.got \in Seq(1..(Len(log) + 1))
<1>1. log \in Seq(Line) /\ Len(log) \in Nat
  BY LenProperties DEF TypeOK
<1>2. 0 \in Names
  BY EventLogAssumption DEF Names
<1>3. files \in FilesType(Len(log)) /\ report.got \in Seq(1..Len(log))
  BY DEF TypeOK, FilesType
<1>4. ASSUME NEW s \in Seq(1..Len(log))
      PROVE  s \in Seq(1..(Len(log) + 1))
  BY <1>1, NumbersGrow
<1>5. files \in FilesType(Len(log) + 1)
  BY <1>3, <1>4 DEF FilesType
<1>. QED BY <1>1, <1>2, <1>3, <1>4, <1>5

LEMMA AppendRange ==
  ASSUME NEW s \in Seq(Nat), NEW n \in Nat
  PROVE  Range(Append(s, n)) = Range(s) \cup {n}
<1>0. PICK t : t = Append(s, n)
  OBVIOUS
<1>1. /\ t \in Seq(Nat) /\ Len(t) = Len(s) + 1 /\ t[Len(s) + 1] = n
      /\ \A i \in 1..Len(s) : t[i] = s[i]
  BY <1>0, AppendProperties
<1>2. Len(s) \in Nat /\ DOMAIN s = 1..Len(s) /\ DOMAIN t = DOMAIN s \cup {Len(s) + 1}
  BY <1>1, LenProperties
<1>3. Range(t) = Range(s) \cup {n}
  BY <1>1, <1>2 DEF Range
<1>. QED BY <1>0, <1>3

LEMMA Concatenated ==
  ASSUME NEW S, NEW s \in Seq(S), NEW t \in Seq(S)
  PROVE  /\ s \o t \in Seq(S) /\ DOMAIN (s \o t) = 1..(Len(s) + Len(t))
         /\ \A a \in DOMAIN s : a \in DOMAIN (s \o t) /\ (s \o t)[a] = s[a]
         /\ \A a \in DOMAIN (s \o t) : a \notin DOMAIN s =>
              a - Len(s) \in DOMAIN t /\ (s \o t)[a] = t[a - Len(s)]
         /\ \A b \in DOMAIN t : Len(s) + b \in DOMAIN (s \o t) /\ (s \o t)[Len(s) + b] = t[b]
<1>0. PICK u : u = s \o t
  OBVIOUS
<1>1. /\ u \in Seq(S) /\ Len(u) = Len(s) + Len(t)
      /\ \A i \in 1..(Len(s) + Len(t)) : u[i] = IF i <= Len(s) THEN s[i] ELSE t[i - Len(s)]
  BY <1>0, ConcatProperties
<1>2. /\ DOMAIN s = 1..Len(s) /\ Len(s) \in Nat /\ DOMAIN t = 1..Len(t) /\ Len(t) \in Nat
      /\ DOMAIN u = 1..(Len(s) + Len(t))
  BY <1>1, LenProperties
<1>3. \A a \in DOMAIN s : a \in DOMAIN u /\ u[a] = s[a]
  BY <1>1, <1>2
<1>4. ASSUME NEW a \in DOMAIN u, a \notin DOMAIN s
      PROVE  a - Len(s) \in DOMAIN t /\ u[a] = t[a - Len(s)]
  <2>1. a \in 1..(Len(s) + Len(t)) /\ ~(a <= Len(s)) /\ a - Len(s) \in 1..Len(t)
    BY <1>2, <1>4
  <2>. QED BY <1>1, <1>2, <2>1
<1>5. ASSUME NEW b \in DOMAIN t
      PROVE  Len(s) + b \in DOMAIN u /\ u[Len(s) + b] = t[b]
  <2>1. /\ Len(s) + b \in 1..(Len(s) + Len(t)) /\ ~(Len(s) + b <= Len(s))
        /\ (Len(s) + b) - Len(s) = b
    BY <1>2
  <2>. QED BY <1>1, <1>2, <2>1
<1>. QED BY <1>0, <1>1, <1>2, <1>3, <1>4, <1>5

\* The current file has the line, or what it had before.
LEMMA WrittenFacts ==
  ASSUME TypeOK, NEW current \in Seq(1..Len(log)), Written(current)
  PROVE  /\ files' \in FilesType(Len(log) + 1) /\ files'[0] # None
         /\ \A i \in Names \ {0} : files'[i] = files[i]
         /\ \/ files'[0] = Append(current, Len(log) + 1) /\ surprises' = surprises
            \/ files'[0] = current /\ Surprise("write")
<1>1. Len(log) \in Nat /\ 0 \in Names /\ files \in FilesType(Len(log) + 1)
  BY FilesGrow
<1>2. current \in Seq(1..(Len(log) + 1)) /\ Len(log) + 1 \in Nat
  BY <1>1, NumbersGrow
<1>3. Append(current, Len(log) + 1) \in Seq(1..(Len(log) + 1))
  BY <1>1, <1>2, AppendProperties
<1>4. \A s \in Seq(1..(Len(log) + 1)) : s # None
  BY <1>2, NumbersNotNone
<1>5. ASSUME NEW s \in Seq(1..(Len(log) + 1)), files' = [files EXCEPT ![0] = s]
      PROVE  /\ files' \in FilesType(Len(log) + 1) /\ files'[0] = s
             /\ \A i \in Names \ {0} : files'[i] = files[i]
  BY <1>1, <1>5 DEF FilesType
<1>. QED BY <1>2, <1>3, <1>4, <1>5 DEF Written

LEMMA CountedType ==
  ASSUME NEW sum \in Summary, NEW line \in Line
  PROVE  Counted(sum, line) \in Summary
<1>1. IsFiniteSet(Kinds)
  <2>1. IsFiniteSet(({"startup", "start", "accept"} \cup {"end"}) \cup {"health"})
    BY FiniteTriple, FS_AddElement
  <2>2. Kinds = ({"startup", "start", "accept"} \cup {"end"}) \cup {"health"}
    BY DEF Kinds
  <2>. QED BY <2>1, <2>2
<1>2. IsFiniteSet(Requests \X Kinds)
  BY <1>1, FS_Product, EventLogAssumption
<1>3. Cardinality(line.of) \in Nat
  BY <1>2, FS_Subset, FS_CardinalityType DEF Line
<1>. QED BY <1>3 DEF Counted, Summary

-----------------------------------------------------------------------------
(* Where everybody stands                                                  *)

Base == TypeOK /\ PhaseInv

\* A request goes on, and perhaps leaves a line or a count behind.
LEMMA RequestBase ==
  ASSUME Base, NEW r \in Requests, NEW q \in RequestType,
         req' = [req EXCEPT ![r] = q], req[r].pc # "late",
         q.pc \in {"stamp", "send", "count"} => phase # "stopped" /\ q.next < 3,
         q.pc \in {"send", "count"} => q.day # 0, q.pc # "idle",
         queue' \in Seq(Line), Len(queue') <= QueueSize, queue' # queue => ~Closed,
         dropped' \subseteq Requests \X Kinds,
         queue' # queue \/ dropped' # dropped => phase # "stopped",
         \A x \in dropped' : x \in dropped \/ (x[1] = r /\ (Closed => q.pc = "late")),
         UNCHANGED <<process, writer, logging, summing, report, surprises>>
  PROVE  Base'
<1>1. /\ TypeOK /\ PhaseInv
      /\ UNCHANGED <<phase, run, today, writer, handle, files, log, daily, disk, recorded,
                     report, surprises>>
  BY DEF Base, process, logging, summing
<1>2. /\ req' \in [Requests -> RequestType] /\ req'[r] = q
      /\ \A s \in Requests \ {r} : req'[s] = req[s]
  BY <1>1 DEF TypeOK, RequestType
<1>3. writer.last => queue' = <<>>
  BY <1>1 DEF TypeOK, Closed
<1>4. TypeOK'
  BY <1>1, <1>2, <1>3 DEF TypeOK, RequestType, Closed
<1>5. writer.last => \A x \in dropped' : req'[x[1]].pc = "late"
  BY <1>1, <1>2 DEF PhaseInv, TypeOK
<1>6. writer.pc = "off" => queue' = <<>> /\ dropped' = {}
  BY <1>1 DEF PhaseInv
<1>7. \A s \in Requests :
         /\ Active(s)' => phase # "stopped" /\ req'[s].next < 3
         /\ req'[s].pc \in {"send", "count"} => req'[s].day # 0
         /\ req'[s].pc = "idle" => req'[s].next = 1
  BY <1>1, <1>2 DEF PhaseInv, Active
<1>8. PhaseInv'
  BY <1>1, <1>5, <1>6, <1>7 DEF PhaseInv
<1>. QED BY <1>4, <1>8 DEF Base

LEMMA ArriveBase ==
  ASSUME Base, NEW r \in Requests, Arrive(r) \/ Stamp(r)
  PROVE  Base'
<1>0. PICK q : q = [req[r] EXCEPT !.pc = "send", !.day = today]
  OBVIOUS
<1>1. /\ TypeOK /\ PhaseInv /\ req[r] \in RequestType /\ req[r].pc \in {"idle", "stamp"}
      /\ today \in 1..Days /\ UNCHANGED <<queue, dropped>>
      /\ UNCHANGED <<process, writer, logging, summing, report, surprises>>
  BY DEF Base, TypeOK, RequestType, Arrive, Stamp, queuing
<1>2. /\ q \in RequestType /\ q.pc = "send" /\ q.day = today /\ q.next = req[r].next
  <2>1. today \in 0..Days
    BY <1>1, EventLogAssumption
  <2>. QED BY <1>0, <1>1, <2>1 DEF RequestType
<1>3. req' = [req EXCEPT ![r] = q]
  BY <1>0, <1>1 DEF Arrive, Stamp, TypeOK
<1>4. phase # "stopped" /\ q.next < 3 /\ q.day # 0
  BY <1>1, <1>2 DEF Arrive, Stamp, PhaseInv, Active
<1>5. queue \in Seq(Line) /\ Len(queue) <= QueueSize /\ dropped \subseteq Requests \X Kinds
  BY <1>1 DEF TypeOK
<1>. QED BY <1>1, <1>2, <1>3, <1>4, <1>5, RequestBase

LEMMA SendBase ==
  ASSUME Base, NEW r \in Requests, Send(r)
  PROVE  Base'
<1>1. /\ TypeOK /\ PhaseInv /\ req[r] \in RequestType /\ req[r].pc = "send"
      /\ UNCHANGED dropped
      /\ UNCHANGED <<process, writer, logging, summing, report, surprises>>
      /\ queue \in Seq(Line) /\ Len(queue) <= QueueSize /\ dropped \subseteq Requests \X Kinds
      /\ req \in [Requests -> RequestType]
  BY DEF Base, TypeOK, RequestType, Send
<1>2. phase # "stopped" /\ req[r].next < 3 /\ req[r].day \in 1..Days /\ run # 0
  BY <1>1 DEF PhaseInv, Active, RequestType
<1>3. CASE Closed /\ req' = [req EXCEPT ![r].pc = "panicked", ![r].day = 0] /\ UNCHANGED queue
  <2>0. PICK q : q = [req[r] EXCEPT !.pc = "panicked", !.day = 0]
    OBVIOUS
  <2>1. q \in RequestType /\ q.pc = "panicked"
    <3>1. 0 \in 0..Days
      BY EventLogAssumption
    <3>. QED BY <1>1, <2>0, <3>1 DEF RequestType
  <2>2. req' = [req EXCEPT ![r] = q]
    BY <1>1, <1>3, <2>0
  <2>. QED BY <1>1, <1>3, <2>1, <2>2, RequestBase
<1>4. CASE /\ ~Closed /\ ~QueueFull
           /\ queue' = Append(queue, LineOf(Kind(r), r, req[r].day, {}))
           /\ req' = [req EXCEPT ![r] = Returned(r)]
  <2>1. LineOf(Kind(r), r, req[r].day, {}) \in Line
    BY <1>1, <1>2, KindType, LineType
  <2>2. queue' \in Seq(Line) /\ Len(queue') = Len(queue) + 1 /\ Len(queue) \in Nat
    BY <1>1, <1>4, <2>1, AppendProperties, LenProperties
  <2>3. Len(queue') <= QueueSize
    BY <1>1, <1>4, <2>2, EventLogAssumption DEF QueueFull
  <2>0. PICK q : q = Returned(r)
    OBVIOUS
  <2>4. /\ [req EXCEPT ![r] = q] \in [Requests -> RequestType]
        /\ q.pc \in {"late", "done", "stamp"}
        /\ q.pc = "stamp" => q.next < 3
    BY <1>1, <1>2, <2>0, ReturnedType DEF RequestType
  <2>5. q \in RequestType
    <3>1. [req EXCEPT ![r] = q][r] \in RequestType
      BY <2>4
    <3>. QED BY <1>1, <3>1
  <2>6. req' = [req EXCEPT ![r] = q]
    BY <1>4, <2>0
  <2>. QED BY <1>1, <1>2, <1>4, <2>2, <2>3, <2>4, <2>5, <2>6, RequestBase
<1>5. CASE ~Closed /\ QueueFull /\ req' = [req EXCEPT ![r].pc = "count"] /\ UNCHANGED queue
  <2>0. PICK q : q = [req[r] EXCEPT !.pc = "count"]
    OBVIOUS
  <2>1. q \in RequestType /\ q.pc = "count" /\ q.next = req[r].next /\ q.day = req[r].day
    BY <1>1, <2>0 DEF RequestType
  <2>2. req' = [req EXCEPT ![r] = q]
    BY <1>1, <1>5, <2>0
  <2>3. /\ q.pc \in {"stamp", "send", "count"} => phase # "stopped" /\ q.next < 3
        /\ q.pc \in {"send", "count"} => q.day # 0
        /\ q.pc # "idle" /\ req[r].pc # "late"
    BY <1>1, <1>2, <2>1
  <2>4. queue' \in Seq(Line) /\ Len(queue') <= QueueSize /\ UNCHANGED <<queue, dropped>>
    BY <1>1, <1>5
  <2>5. \A x \in dropped' : x \in dropped
    BY <2>4
  <2>. QED BY <1>1, <2>1, <2>2, <2>3, <2>4, <2>5, RequestBase
<1>. QED BY <1>3, <1>4, <1>5 DEF Send

LEMMA CountBase ==
  ASSUME Base, NEW r \in Requests, Count(r)
  PROVE  Base'
<1>1. /\ TypeOK /\ PhaseInv /\ req[r] \in RequestType /\ req[r].pc = "count"
      /\ UNCHANGED queue
      /\ UNCHANGED <<process, writer, logging, summing, report, surprises>>
      /\ queue \in Seq(Line) /\ Len(queue) <= QueueSize /\ dropped \subseteq Requests \X Kinds
      /\ req \in [Requests -> RequestType]
  BY DEF Base, TypeOK, RequestType, Count
<1>2. phase # "stopped" /\ req[r].next < 3
  BY <1>1 DEF PhaseInv, Active
<1>3. dropped' = dropped \cup {<<r, Kind(r)>>} /\ dropped' \subseteq Requests \X Kinds
  BY <1>1, <1>2, KindType DEF Count
<1>0. PICK q : q = Returned(r)
  OBVIOUS
<1>4. /\ [req EXCEPT ![r] = q] \in [Requests -> RequestType]
      /\ q.pc \in {"late", "done", "stamp"}
      /\ q.pc = "stamp" => q.next < 3
      /\ Closed => q.pc = "late"
  BY <1>0, <1>1, <1>2, ReturnedType DEF RequestType
<1>5. q \in RequestType
  <2>1. [req EXCEPT ![r] = q][r] \in RequestType
    BY <1>4
  <2>. QED BY <1>1, <2>1
<1>6. req' = [req EXCEPT ![r] = q]
  BY <1>0 DEF Count
<1>. QED BY <1>1, <1>2, <1>3, <1>4, <1>5, <1>6, RequestBase

ReportType(n) ==
  [pc : {"idle", "read"}, left : SUBSET Names, got : Seq(1..n), moved : BOOLEAN]
SummaryType ==
  /\ daily \in [day : 0..Days, sum : Summary, dirty : BOOLEAN]
  /\ disk \in [1..Days -> Summary] /\ recorded \in [1..Days -> Summary]
SurprisesType == surprises \subseteq Surprises /\ Cardinality(surprises) <= MaxSurprises + 1

\* Whose the writer's record may be, besides its type.
Writing(w) ==
  /\ w \in WriterType /\ w.pc # "off"
  /\ w.todo = <<>> <=> w.pc \in {"select", "flush", "done"}
  /\ w.pc \in {"flush", "done"} => w.last
  /\ w.pc = "select" => ~w.last
  /\ w.pc = "rename" => w.slot # 0

LEMMA WriterFacts ==
  ASSUME Base, writer.pc \notin {"off", "done"}
  PROVE  /\ Writing(writer) /\ phase # "stopped" /\ run # 0
         /\ writer.last => Closed /\ queue = <<>>
         /\ SummaryType /\ SurprisesType
         /\ files \in FilesType(Len(log)) /\ report \in ReportType(Len(log))
         /\ queue \in Seq(Line) /\ Len(queue) <= QueueSize /\ log \in Seq(Line)
         /\ Len(log) \in Nat /\ dropped \subseteq Requests \X Kinds
         /\ run \in 0..MaxRuns /\ today \in 1..Days
         /\ handle = "open" => files[0] # None /\ writer.pc \notin {"rename", "open"}
         /\ handle \in {"open", "nil", "closed"}
<1>1. TypeOK /\ PhaseInv
  BY DEF Base
<1>2. Writing(writer)
  BY <1>1 DEF TypeOK, PhaseInv, Writing, WriterType
<1>. QED BY <1>1, <1>2, FilesGrow
  DEF TypeOK, PhaseInv, SummaryType, SurprisesType, ReportType, FilesType

\* The writer takes a step.
LEMMA WriterBase ==
  ASSUME Base, writer.pc \notin {"off", "done"}, UNCHANGED <<process, req>>,
         Writing(writer'), writer'.last => Closed /\ queue' = <<>>,
         queue' \in Seq(Line), Len(queue') <= QueueSize,
         dropped' \in {dropped, {}}, writer'.last /\ ~writer.last => dropped' = {},
         handle' \in {"open", "nil", "closed"},
         handle' = "open" => files'[0] # None /\ writer'.pc \notin {"rename", "open"},
         log' \in Seq(Line), files' \in FilesType(Len(log')),
         report' \in ReportType(Len(log')), SummaryType', SurprisesType'
  PROVE  Base'
<1>1. /\ TypeOK /\ PhaseInv /\ Writing(writer) /\ phase # "stopped"
      /\ UNCHANGED <<phase, run, today, req>>
  BY WriterFacts DEF Base, process
<1>2. dropped' \subseteq Requests \X Kinds /\ (\A x \in dropped' : x \in dropped)
  BY <1>1 DEF TypeOK
<1>3. TypeOK'
  BY <1>1, <1>2
  DEF TypeOK, Writing, WriterType, FilesType, ReportType, SummaryType, SurprisesType, Closed
<1>4. writer'.last => \A x \in dropped' : req'[x[1]].pc = "late"
  BY <1>1, <1>2 DEF PhaseInv, Writing, WriterType
<1>5. PhaseInv'
  BY <1>1, <1>4 DEF PhaseInv, Writing, Active
<1>. QED BY <1>3, <1>5 DEF Base

LEMMA HealthType ==
  ASSUME TypeOK, run # 0, NEW day \in 1..Days
  PROVE  Health(day) \in Seq(Line) /\ (Health(day) = <<>> <=> dropped = {})
<1>1. LineOf("health", None, day, dropped) \in Line
  BY LineType DEF TypeOK, Kinds
<1>. QED BY <1>1 DEF Health

\* A line for the counter, if there is something to count, and then the event.
LEMMA ReceiveFacts ==
  ASSUME Base, Receive
  PROVE  /\ Rest = <<>> /\ ~writer.last
         /\ Head(queue) \in Line /\ Tail(queue) \in Seq(Line) /\ Head(queue).day \in 1..Days
         /\ Len(Tail(queue)) = Len(queue) - 1
         /\ queue # <<>> /\ queue' = Tail(queue) /\ dropped' = {}
         /\ Health(Head(queue).day) \in Seq(Line)
         /\ Rest' = Health(Head(queue).day) \o <<Head(queue)>> /\ Rest' \in Seq(Line)
         /\ Rest' # <<>> /\ writer'.pc = "line" /\ writer' \in WriterType
         /\ writer'.todo = Rest' /\ ~writer'.last
<1>1. TypeOK /\ PhaseInv /\ writer.pc = "select" /\ writer \in WriterType /\ queue \in Seq(Line)
  BY DEF Base, TypeOK, Receive, WriterType
<1>2. /\ Rest = <<>> /\ ~writer.last /\ run # 0 /\ phase # "stopped"
      /\ queue # <<>> /\ queue' = Tail(queue) /\ dropped' = {}
  BY <1>1 DEF PhaseInv, Rest, Receive
<1>3. /\ Head(queue) \in Line /\ Tail(queue) \in Seq(Line)
      /\ Len(Tail(queue)) = Len(queue) - 1 /\ Head(queue).day \in 1..Days
  <2>1. /\ Head(queue) \in Line /\ Tail(queue) \in Seq(Line)
        /\ Len(Tail(queue)) = Len(queue) - 1
    BY <1>1, <1>2, HeadTailProperties
  <2>. QED BY <2>1 DEF Line
<1>. DEFINE health == Health(Head(queue).day)
            todo == health \o <<Head(queue)>>
<1>4. health \in Seq(Line)
  BY <1>1, <1>2, <1>3, HealthType
<1>. HIDE DEF health
<1>5. todo \in Seq(Line) /\ Len(todo) = Len(health) + 1 /\ Len(health) \in Nat
  BY <1>3, <1>4, ConcatProperties, LenProperties
<1>6. writer' = Loop(todo)
  BY DEF Receive, health
<1>. HIDE DEF todo
<1>7. todo # <<>>
  <2>1. Len(<<>>) = 0
    OBVIOUS
  <2>. QED BY <1>5, <2>1
<1>8. /\ writer' \in WriterType /\ writer'.pc = "line" /\ writer'.todo = todo
      /\ ~writer'.last
  BY <1>1, <1>2, <1>5, <1>6, <1>7, LoopFacts
<1>9. Rest' = todo
  BY <1>8 DEF Rest
<1>. QED BY <1>2, <1>3, <1>4, <1>5, <1>6, <1>8, <1>9 DEF health, todo

LEMMA ReceiveBase ==
  ASSUME Base, Receive
  PROVE  Base'
<1>1. /\ writer.pc = "select" /\ UNCHANGED <<process, req, handle, files, log, daily, disk,
                                             recorded, report, surprises>>
  BY DEF Receive, logging, summing
<1>2. Writing(writer') /\ ~writer'.last /\ writer'.pc = "line"
  BY ReceiveFacts DEF Writing
<1>3. /\ queue' \in Seq(Line) /\ Len(queue') = Len(queue) - 1 /\ dropped' = {}
  BY ReceiveFacts
<1>4. Len(queue) \in Nat /\ Len(queue) <= QueueSize /\ QueueSize \in Nat
  BY <1>1, WriterFacts, LenProperties, EventLogAssumption
<1>5. SummaryType' /\ SurprisesType'
  BY <1>1, WriterFacts DEF SummaryType, SurprisesType
<1>. QED BY <1>1, <1>2, <1>3, <1>4, <1>5, WriterFacts, WriterBase

LEMMA ReceiveClosedFacts ==
  ASSUME Base, ReceiveClosed
  PROVE  /\ Rest = <<>> /\ queue = <<>> /\ Closed /\ dropped' = {}
         /\ Rest' = Health(today) /\ Rest' \in Seq(Line)
         /\ Writing(writer') /\ writer'.last /\ writer'.pc \in {"line", "flush"}
         /\ today \in 1..Days /\ ~writer.last
<1>1. /\ TypeOK /\ PhaseInv /\ writer.pc = "select" /\ writer \in WriterType
      /\ today \in 1..Days
  BY DEF Base, TypeOK, ReceiveClosed, WriterType
<1>2. Rest = <<>> /\ ~writer.last /\ run # 0 /\ phase # "stopped" /\ writer.slot \in Names
  BY <1>1 DEF PhaseInv, Rest, WriterType
<1>. DEFINE health == Health(today)
            pc == IF dropped = {} THEN "flush" ELSE "line"
<1>3. health \in Seq(Line) /\ (health = <<>> <=> dropped = {})
  BY <1>1, <1>2, HealthType
<1>4. pc \in {"line", "flush"} /\ (pc = "flush" <=> dropped = {})
  OBVIOUS
<1>5. writer' = [writer EXCEPT !.todo = health, !.last = TRUE, !.pc = pc]
  BY DEF ReceiveClosed
<1>. HIDE DEF health, pc
<1>6. /\ writer' \in WriterType /\ writer'.todo = health /\ writer'.last /\ writer'.pc = pc
  BY <1>1, <1>3, <1>4, <1>5 DEF WriterType
<1>7. Writing(writer') /\ writer'.pc \in {"line", "flush"} /\ Rest' = health
  BY <1>3, <1>4, <1>6 DEF Writing, Rest
<1>. QED BY <1>1, <1>2, <1>3, <1>6, <1>7 DEF ReceiveClosed, health

LEMMA ReceiveClosedBase ==
  ASSUME Base, ReceiveClosed
  PROVE  Base'
<1>1. /\ writer.pc = "select" /\ UNCHANGED <<process, req, queue, handle, files, log, daily,
                                             disk, recorded, report, surprises>>
  BY DEF ReceiveClosed, logging, summing
<1>2. SummaryType' /\ SurprisesType'
  BY <1>1, WriterFacts DEF SummaryType, SurprisesType
<1>. QED BY <1>1, <1>2, ReceiveClosedFacts, WriterFacts, WriterBase

\* Steps that make a line: what they leave alone.
LEMMA LostBase ==
  ASSUME Base, writer.pc \in {"line", "open"}, Lost, UNCHANGED <<process, req, queuing, summing>>,
         handle' \in {"open", "nil", "closed"}, handle' = "open" => files'[0] # None,
         files' \in FilesType(Len(log) + 1), report' \in ReportType(Len(log) + 1),
         SurprisesType'
  PROVE  Base'
<1>1. TypeOK /\ Writing(writer) /\ writer.todo # <<>>
  BY WriterFacts DEF Base, Writing
<1>2. /\ log' \in Seq(Line) /\ Len(log') = Len(log) + 1
      /\ writer' \in WriterType /\ writer'.last = writer.last
      /\ writer'.pc \in {"record", "line", "flush", "select"}
      /\ writer'.todo = <<>> <=> writer'.pc \in {"flush", "select"}
      /\ writer'.pc = "flush" => writer.last
      /\ writer'.pc = "select" => ~writer.last
  BY <1>1, LostFacts
<1>3. Writing(writer')
  BY <1>2 DEF Writing
<1>4. UNCHANGED <<queue, dropped, daily, disk, recorded>>
  BY DEF queuing, summing
<1>5. SummaryType'
  BY <1>4, WriterFacts DEF SummaryType
<1>. QED BY <1>2, <1>3, <1>4, <1>5, WriterFacts, WriterBase

LEMMA ReportGrows ==
  ASSUME Base
  PROVE  report \in ReportType(Len(log)) /\ report \in ReportType(Len(log) + 1)
<1>1. report \in ReportType(Len(log))
  BY DEF Base, TypeOK, ReportType
<1>2. report.got \in Seq(1..(Len(log) + 1))
  BY FilesGrow DEF Base
<1>. QED BY <1>1, <1>2 DEF ReportType

LEMMA SurpriseBase ==
  ASSUME Base, surprises' = surprises \/ \E kind \in Surprises : Surprise(kind) \/ NightFault(kind)
  PROVE  SurprisesType' /\ surprises \subseteq surprises'
<1>1. TypeOK /\ SurprisesType
  BY DEF Base, TypeOK, SurprisesType
<1>. QED BY <1>1, SurpriseType DEF SurprisesType

LEMMA WriteLineBase ==
  ASSUME Base, WriteLine
  PROVE  Base'
<1>1. /\ TypeOK /\ writer.pc = "line" /\ handle \in {"open", "nil", "closed"}
      /\ UNCHANGED <<process, req, queuing, handle, summing, report>>
      /\ handle = "open" => files[0] # None
  BY WriterFacts DEF WriteLine, Base
<1>2. report' \in ReportType(Len(log) + 1) /\ files \in FilesType(Len(log) + 1)
  BY <1>1, ReportGrows, FilesGrow
<1>3. CASE handle = "open" /\ Written(files[0])
  <2>1. files[0] \in Seq(1..Len(log))
    BY <1>1, <1>3, FilesGrow DEF FilesType
  <2>2. /\ files' \in FilesType(Len(log) + 1) /\ files'[0] # None
        /\ surprises' = surprises \/ Surprise("write")
    BY <1>1, <1>3, <2>1, WrittenFacts
  <2>3. SurprisesType'
    BY <2>2, SurpriseBase DEF Surprises, LogFaults
  <2>. QED BY <1>1, <1>2, <1>3, <2>2, <2>3, LostBase DEF Written
<1>4. CASE handle # "open" /\ Lost /\ UNCHANGED <<files, surprises>>
  <2>1. SurprisesType'
    BY <1>4, SurpriseBase
  <2>. QED BY <1>1, <1>2, <1>4, <2>1, LostBase
<1>. QED BY <1>3, <1>4 DEF WriteLine

LEMMA RotateBase ==
  ASSUME Base, Rotate
  PROVE  Base'
<1>1. /\ TypeOK /\ writer.pc = "line" /\ UNCHANGED <<process, req, queuing, summing>>
      /\ writer \in WriterType /\ Oldest \in Names \ {0} /\ files \in FilesType(Len(log))
      /\ report \in ReportType(Len(log)) /\ SurprisesType
      /\ Writing(writer)
  <2>1. Oldest \in Names \ {0}
    BY EventLogAssumption DEF Oldest, Names
  <2>. QED BY <2>1, WriterFacts DEF Rotate, Base, Writing
<1>2. CASE /\ handle' = "nil"
           /\ files' = [files EXCEPT ![Oldest] = None]
           /\ writer' = [writer EXCEPT !.pc = "rename", !.slot = Oldest]
           /\ report' = [report EXCEPT !.moved = report.pc = "read"]
           /\ UNCHANGED <<log, surprises>>
  <2>1. writer' \in WriterType /\ writer'.pc = "rename" /\ writer'.slot # 0
        /\ writer'.last = writer.last /\ writer'.todo = writer.todo
    BY <1>1, <1>2 DEF WriterType
  <2>2. Writing(writer')
    BY <1>1, <2>1 DEF Writing
  <2>3. files' \in FilesType(Len(log'))
    BY <1>1, <1>2 DEF FilesType
  <2>4. report' \in ReportType(Len(log'))
    BY <1>1, <1>2 DEF ReportType
  <2>5. SummaryType' /\ SurprisesType' /\ UNCHANGED <<queue, dropped, log>>
    BY <1>1, <1>2, WriterFacts DEF SummaryType, SurprisesType, summing, queuing
  <2>. QED BY <1>1, <1>2, <2>1, <2>2, <2>3, <2>4, <2>5, WriterFacts, WriterBase
<1>3. CASE handle' = "closed" /\ Surprise("close") /\ Lost /\ UNCHANGED <<files, report>>
  <2>1. SurprisesType'
    BY <1>3, SurpriseBase DEF Surprises, LogFaults
  <2>2. report' \in ReportType(Len(log) + 1) /\ files' \in FilesType(Len(log) + 1)
    BY <1>1, <1>3, ReportGrows, FilesGrow
  <2>. QED BY <1>1, <1>3, <2>1, <2>2, LostBase
<1>. QED BY <1>2, <1>3 DEF Rotate

\* The numbers from which and to which a file is renamed.
LEMMA SlotFacts ==
  ASSUME Base, RenameNext
  PROVE  /\ writer.slot \in Nat \ {0} /\ writer.slot \in Names /\ writer.slot - 1 \in Names
         /\ Writing(writer') /\ writer'.slot = writer.slot - 1 /\ Rest' = Rest
         /\ writer'.pc = IF writer.slot = 1 THEN "open" ELSE "rename"
         /\ writer'.last = writer.last
<1>1. Writing(writer) /\ writer.pc = "rename" /\ writer \in WriterType
  BY WriterFacts DEF RenameNext, Writing
<1>2. writer.slot \in Nat \ {0} /\ writer.slot \in Names /\ writer.slot - 1 \in Names
  BY <1>1, EventLogAssumption DEF Writing, WriterType, Names
<1>3. PICK s, pc : s = writer.slot - 1 /\ pc = IF writer.slot = 1 THEN "open" ELSE "rename"
  OBVIOUS
<1>4. writer' = [writer EXCEPT !.slot = s, !.pc = pc]
  BY <1>1, <1>3 DEF RenameNext
<1>5. writer' \in WriterType /\ writer'.slot = s /\ writer'.pc = pc /\ writer'.todo = writer.todo
      /\ writer'.last = writer.last
  BY <1>1, <1>2, <1>3, <1>4 DEF WriterType
<1>6. pc = "rename" => s # 0
  BY <1>2, <1>3
<1>. QED BY <1>1, <1>2, <1>3, <1>5, <1>6 DEF Writing, Rest

LEMMA RenameBase ==
  ASSUME Base, RenameNext
  PROVE  Base'
<1>1. /\ UNCHANGED <<process, req, queuing, handle, log, summing, report>> /\ writer.pc = "rename"
      /\ files \in FilesType(Len(log)) /\ handle # "open" /\ report \in ReportType(Len(log))
  BY WriterFacts DEF RenameNext
<1>. PICK i : i = writer.slot
  OBVIOUS
<1>2. i \in Names /\ i - 1 \in Names
  BY SlotFacts
<1>3. files' \in FilesType(Len(log))
  <2>1. CASE files' = Renamed(i)
    BY <1>1, <1>2, <2>1 DEF FilesType, Renamed
  <2>2. CASE files' = files
    BY <1>1, <2>2
  <2>. QED BY <2>1, <2>2 DEF RenameNext
<1>4. SurprisesType'
  BY SurpriseBase DEF RenameNext, Surprises, LogFaults
<1>5. SummaryType' /\ UNCHANGED <<queue, dropped, handle, log, report>>
  BY <1>1, WriterFacts DEF SummaryType, summing, queuing
<1>. QED BY <1>1, <1>3, <1>4, <1>5, SlotFacts, WriterFacts, WriterBase

LEMMA ReopenBase ==
  ASSUME Base, Reopen
  PROVE  Base'
<1>1. /\ TypeOK /\ writer.pc = "open" /\ UNCHANGED <<process, req, queuing, summing, report>>
      /\ handle \in {"open", "nil", "closed"} /\ handle # "open"
  BY WriterFacts DEF Reopen, Base
<1>2. report' \in ReportType(Len(log) + 1) /\ files \in FilesType(Len(log) + 1)
  BY <1>1, ReportGrows, FilesGrow
<1>. PICK current : current = IF files[0] = None THEN <<>> ELSE files[0]
  OBVIOUS
<1>3. CASE handle' = "open" /\ Written(current)
  <2>1. current \in Seq(1..Len(log))
    <3>1. <<>> \in Seq(1..Len(log))
      BY EmptySeq
    <3>. QED BY <1>1, <3>1, FilesGrow DEF FilesType
  <2>2. /\ files' \in FilesType(Len(log) + 1) /\ files'[0] # None
        /\ surprises' = surprises \/ Surprise("write")
    BY <1>1, <1>3, <2>1, WrittenFacts
  <2>3. SurprisesType'
    BY <2>2, SurpriseBase DEF Surprises, LogFaults
  <2>. QED BY <1>1, <1>2, <1>3, <2>2, <2>3, LostBase DEF Written
<1>4. CASE Lost /\ UNCHANGED <<handle, files>> /\ Surprise("open")
  <2>1. SurprisesType'
    BY <1>4, SurpriseBase DEF Surprises, LogFaults
  <2>. QED BY <1>1, <1>2, <1>4, <2>1, LostBase
<1>. QED BY <1>3, <1>4 DEF Reopen

LEMMA RecordBase ==
  ASSUME Base, Record
  PROVE  Base'
<1>0. PICK line : line = writer.todo[1]
  OBVIOUS
<1>1. /\ writer.pc = "record" /\ Writing(writer) /\ writer.todo \in Seq(Line) /\ writer.todo # <<>>
      /\ UNCHANGED <<process, req, queue, dropped, handle, files, log, report>>
      /\ TypeOK
  BY WriterFacts DEF Record, Writing, WriterType, Base, queuing, logging
<1>2. line \in Line /\ line.day \in 1..Days /\ Tail(writer.todo) \in Seq(Line)
  <2>1. line \in Line /\ Tail(writer.todo) \in Seq(Line)
    <3>1. Head(writer.todo) = line
      BY <1>0
    <3>. QED BY <1>1, <3>1, HeadTailProperties
  <2>. QED BY <2>1 DEF Line
<1>3. Writing(writer') /\ writer'.last = writer.last /\ writer'.pc \in {"line", "flush", "select"}
  <2>1. /\ writer' \in WriterType /\ writer'.last = writer.last
        /\ writer'.todo = Tail(writer.todo)
        /\ writer'.pc \in {"line", "flush", "select"}
        /\ writer'.pc = "line" <=> Tail(writer.todo) # <<>>
        /\ writer'.pc = "flush" => writer.last
        /\ writer'.pc = "select" => ~writer.last
    BY <1>1, <1>2, LoopFacts DEF Record
  <2>. QED BY <2>1 DEF Writing
<1>4. SummaryType /\ SurprisesType /\ NoSummary \in Summary /\ line.day \in 0..Days
  BY <1>1, <1>2, WriterFacts, EventLogAssumption DEF NoSummary, Summary
<1>5. ASSUME NEW sum \in Summary, Recorded(line, sum)
      PROVE  daily' \in [day : 0..Days, sum : Summary, dirty : BOOLEAN]
             /\ recorded' \in [1..Days -> Summary]
  <2>1. Counted(sum, line) \in Summary /\ recorded[line.day] \in Summary
    BY <1>2, <1>4, CountedType DEF SummaryType
  <2>2. Counted(recorded[line.day], line) \in Summary
    BY <1>2, <2>1, CountedType
  <2>3. PICK a, b : a = Counted(sum, line) /\ b = Counted(recorded[line.day], line)
    OBVIOUS
  <2>4. daily' = [day |-> line.day, sum |-> a, dirty |-> TRUE]
        /\ recorded' = [recorded EXCEPT ![line.day] = b]
    BY <1>5, <2>3 DEF Recorded
  <2>. QED BY <1>4, <2>1, <2>2, <2>3, <2>4 DEF SummaryType
<1>6. daily.sum \in Summary /\ (daily.dirty => daily.day \in 0..Days)
  BY <1>4 DEF SummaryType
<1>7. ASSUME disk' = Flushed
      PROVE  disk' \in [1..Days -> Summary]
  BY <1>4, <1>7 DEF SummaryType, Flushed
<1>8. CASE line.day = daily.day /\ Recorded(line, daily.sum) /\ UNCHANGED <<disk, surprises>>
  <2>1. SummaryType' /\ SurprisesType'
    BY <1>4, <1>5, <1>6, <1>8 DEF SummaryType, SurprisesType
  <2>. QED BY <1>1, <1>3, <2>1, WriterFacts, WriterBase
<1>9. CASE /\ disk' = Flushed
           /\ \/ Recorded(line, Stored(line.day)) /\ UNCHANGED surprises
              \/ Recorded(line, NoSummary) /\ Surprise("read")
              \/ /\ daily' = [day |-> line.day, sum |-> Stored(line.day), dirty |-> FALSE]
                 /\ UNCHANGED recorded /\ Surprise("list")
  <2>1. Stored(line.day) \in Summary
    BY <1>2, <1>7, <1>9 DEF Stored
  <2>2. CASE Recorded(line, Stored(line.day)) /\ UNCHANGED surprises
    <3>1. SummaryType' /\ SurprisesType'
      BY <1>4, <1>5, <1>7, <1>9, <2>1, <2>2 DEF SummaryType, SurprisesType
    <3>. QED BY <1>1, <1>3, <3>1, WriterFacts, WriterBase
  <2>3. CASE Recorded(line, NoSummary) /\ Surprise("read")
    <3>1. SurprisesType'
      BY <2>3, SurpriseBase DEF Surprises, DailyFaults
    <3>2. SummaryType'
      BY <1>4, <1>5, <1>7, <1>9, <2>3 DEF SummaryType
    <3>. QED BY <1>1, <1>3, <3>1, <3>2, WriterFacts, WriterBase
  <2>4. CASE /\ daily' = [day |-> line.day, sum |-> Stored(line.day), dirty |-> FALSE]
             /\ UNCHANGED recorded /\ Surprise("list")
    <3>1. SurprisesType'
      BY <2>4, SurpriseBase DEF Surprises, DailyFaults
    <3>2. SummaryType'
      BY <1>4, <1>7, <1>9, <2>1, <2>4 DEF SummaryType
    <3>. QED BY <1>1, <1>3, <3>1, <3>2, WriterFacts, WriterBase
  <2>. QED BY <1>9, <2>2, <2>3, <2>4
<1>10. CASE daily.dirty /\ UNCHANGED summing /\ NightFault("flush")
  <2>1. SurprisesType'
    BY <1>10, SurpriseBase DEF Surprises, DailyFaults
  <2>2. SummaryType'
    BY <1>4, <1>10 DEF SummaryType, summing
  <2>. QED BY <1>1, <1>3, <2>1, <2>2, WriterFacts, WriterBase
<1>. QED BY <1>0, <1>8, <1>9, <1>10 DEF Record

\* Saving the summary, by the clock or at the end.
LEMMA FlushFacts ==
  ASSUME Base, Flush, UNCHANGED recorded, writer.pc \notin {"off", "done"}
  PROVE  SummaryType' /\ SurprisesType'
<1>1. SummaryType /\ SurprisesType
  BY WriterFacts
<1>2. CASE disk' = Flushed /\ daily' = [daily EXCEPT !.dirty = FALSE] /\ UNCHANGED surprises
  <2>1. disk' \in [1..Days -> Summary]
    BY <1>1, <1>2 DEF SummaryType, Flushed
  <2>. QED BY <1>1, <1>2, <2>1 DEF SummaryType, SurprisesType
<1>3. CASE daily.dirty /\ UNCHANGED <<disk, daily>> /\ NightFault("flush")
  <2>1. SurprisesType'
    BY <1>3, SurpriseBase DEF Surprises, DailyFaults
  <2>. QED BY <1>1, <1>3, <2>1 DEF SummaryType
<1>. QED BY <1>2, <1>3 DEF Flush

LEMMA FlushBase ==
  ASSUME Base, FlushTick \/ FlushLast
  PROVE  Base'
<1>1. /\ UNCHANGED <<process, req, queue, dropped, handle, files, log, report, recorded>>
      /\ writer.pc \notin {"off", "done"} /\ Flush
  BY DEF FlushTick, FlushLast, queuing, logging
<1>2. SummaryType' /\ SurprisesType'
  BY <1>1, FlushFacts
<1>3. Writing(writer)
  BY <1>1, WriterFacts
<1>4. Writing(writer') /\ writer'.last = writer.last
      /\ writer'.pc \in {"select", "done"}
  <2>1. CASE FlushTick
    BY <1>3, <2>1 DEF FlushTick
  <2>2. CASE FlushLast
    <3>1. writer' \in WriterType /\ writer'.pc = "done" /\ writer'.todo = writer.todo
          /\ writer'.last = writer.last
      BY <1>3, <2>2 DEF FlushLast, Writing, WriterType
    <3>. QED BY <1>3, <2>2, <3>1 DEF Writing, FlushLast
  <2>. QED BY <2>1, <2>2
<1>. QED BY <1>1, <1>2, <1>4, WriterFacts, WriterBase

LEMMA StartedRequests ==
  ASSUME Base, phase = "stopped", Start
  PROVE  /\ req' \in [Requests -> RequestType]
         /\ \A r \in Requests :
              /\ req'[r].pc \in {"idle", "dead"} /\ req'[r].next = 1
              /\ req'[r].pc = "idle" => req'[r] = req[r]
              /\ req[r].pc = "idle" => req'[r] = req[r]
<1>1. req \in [Requests -> RequestType] /\ 0 \in 0..Days
      /\ \A r \in Requests : req[r].pc = "idle" => req[r].next = 1
  BY EventLogAssumption DEF Base, TypeOK, RequestType, PhaseInv
<1>2. PICK dead : dead = [pc |-> "dead", next |-> 1, day |-> 0]
  OBVIOUS
<1>3. dead \in RequestType /\ dead.pc = "dead" /\ dead.next = 1
  BY <1>1, <1>2 DEF RequestType
<1>4. req' = [r \in Requests |-> IF req[r].pc = "idle" THEN req[r] ELSE dead]
  BY <1>2 DEF Start
<1>. QED BY <1>1, <1>3, <1>4

LEMMA StartBase ==
  ASSUME Base, Start
  PROVE  Base'
<1>1. /\ TypeOK /\ PhaseInv /\ phase = "stopped" /\ phase' = "serving" /\ run' = run + 1
      /\ UNCHANGED <<today, log, disk, report, surprises>> /\ run \in 0..MaxRuns
      /\ run < MaxRuns /\ dropped' = {} /\ handle' = "open" /\ today \in 1..Days
      /\ today' = today
  BY DEF Base, TypeOK, Start
<1>2. run' \in 1..MaxRuns
  BY <1>1, EventLogAssumption
<1>3. PICK line : line = [LineOf("startup", None, today, {}) EXCEPT !.run = run']
  OBVIOUS
<1>4. line \in Line
  BY <1>1, <1>2, <1>3 DEF LineOf, Line, Kinds
<1>5. queue' = <<line>> /\ queue' \in Seq(Line) /\ Len(queue') = 1 /\ queue' # <<>>
  BY <1>3, <1>4 DEF Start
<1>6. 0 \in Names /\ files \in FilesType(Len(log))
  BY <1>1, FilesGrow
<1>7. writer' = [Off EXCEPT !.pc = "select"]
  BY DEF Start
<1>8. writer' \in WriterType /\ writer'.pc = "select" /\ ~writer'.last /\ writer'.todo = <<>>
  <2>1. <<>> \in Seq(Line)
    BY EmptySeq
  <2>. QED BY <1>6, <1>7, <2>1 DEF Off, WriterType
<1>9. files' \in FilesType(Len(log)) /\ files'[0] # None
  <2>1. PICK f : f = IF files[0] = None THEN <<>> ELSE files[0]
    OBVIOUS
  <2>2. <<>> \in Seq(1..Len(log)) /\ <<>> \in Seq(Nat)
    BY EmptySeq
  <2>3. f \in Seq(1..Len(log)) /\ f # None
    BY <1>6, <2>1, <2>2, EventLogAssumption DEF FilesType
  <2>4. files' = [files EXCEPT ![0] = f]
    BY <2>1, <1>6 DEF Start, FilesType
  <2>. QED BY <1>6, <2>3, <2>4 DEF FilesType
<1>10. /\ daily' \in [day : 0..Days, sum : Summary, dirty : BOOLEAN]
       /\ disk' \in [1..Days -> Summary] /\ recorded' \in [1..Days -> Summary]
  <2>1. 0 \in 0..Days
    BY EventLogAssumption
  <2>2. disk \in [1..Days -> Summary] /\ daily' = NoDay /\ recorded' = disk
    BY <1>1 DEF TypeOK, Start
  <2>. QED BY <1>1, <2>1, <2>2 DEF NoDay, NoSummary, Summary
<1>11. req' \in [Requests -> RequestType] /\ \A r \in Requests :
         req'[r].pc \in {"idle", "dead"} /\ req'[r].next = 1
  BY <1>1, StartedRequests
<1>12. TypeOK'
  <2>1. Len(queue') <= QueueSize
    BY <1>5, EventLogAssumption
  <2>2. run' \in 0..MaxRuns
    BY <1>2
  <2>. QED BY <1>1, <1>5, <1>8, <1>9, <1>10, <1>11, <2>1, <2>2
       DEF TypeOK, RequestType, WriterType, FilesType
<1>13. PhaseInv'
  BY <1>1, <1>2, <1>5, <1>8, <1>9, <1>11 DEF PhaseInv, Active
<1>. QED BY <1>12, <1>13 DEF Base

LEMMA CloseBase ==
  ASSUME Base, CloseQueue
  PROVE  Base'
<1>1. /\ TypeOK /\ PhaseInv /\ phase = "serving" /\ phase' = "closing"
      /\ UNCHANGED <<run, today, req, queue, dropped, writer, handle, files, log, daily, disk,
                     recorded, report, surprises>>
  BY DEF Base, CloseQueue, queuing, logging, summing
<1>2. TypeOK'
  BY <1>1 DEF TypeOK, Closed
<1>3. PhaseInv'
  BY <1>1 DEF PhaseInv, Active
<1>. QED BY <1>2, <1>3 DEF Base

\* When the process ends, no request is under way any more.
LEMMA EndedFacts ==
  ASSUME Base, req' = Ended
  PROVE  /\ req' \in [Requests -> RequestType]
         /\ \A r \in Requests :
              /\ req'[r].pc \notin {"stamp", "send", "count"} /\ req'[r].next = req[r].next
              /\ req'[r].pc \in {"idle", "late", "done", "panicked"} => req'[r].pc = req[r].pc
              /\ req[r].pc = "late" => req'[r].pc = "late"
              /\ req[r].pc = "dead" => req'[r].pc = "dead"
<1>1. req \in [Requests -> RequestType] /\ 0 \in 0..Days
  BY EventLogAssumption DEF Base, TypeOK, RequestType
<1>2. ASSUME NEW r \in Requests
      PROVE  [req[r] EXCEPT !.pc = "dead", !.day = 0] \in RequestType
  BY <1>1 DEF RequestType
<1>3. ASSUME NEW r \in Requests
      PROVE  /\ [req[r] EXCEPT !.pc = "dead", !.day = 0].pc = "dead"
             /\ [req[r] EXCEPT !.pc = "dead", !.day = 0].next = req[r].next
  BY <1>1 DEF RequestType
<1>. QED BY <1>1, <1>2, <1>3 DEF Ended

LEMMA EndBase ==
  ASSUME Base, Stop \/ Crash
  PROVE  Base'
<1>1. /\ TypeOK /\ PhaseInv /\ phase' = "stopped" /\ req' = Ended /\ handle' = "nil"
      /\ UNCHANGED <<run, today, files, log, disk, report>>
  BY DEF Base, Stop, Crash, summing
<1>2. /\ req' \in [Requests -> RequestType]
      /\ \A r \in Requests :
           /\ req'[r].pc \notin {"stamp", "send", "count"} /\ req'[r].next = req[r].next
           /\ req'[r].pc \in {"idle", "late", "done", "panicked"} => req'[r].pc = req[r].pc
           /\ req[r].pc = "late" => req'[r].pc = "late"
  BY <1>1, EndedFacts DEF Base
<1>3. \A r \in Requests :
         /\ Active(r)' => phase' # "stopped" /\ req'[r].next < 3
         /\ req'[r].pc \in {"send", "count"} => req'[r].day # 0
         /\ req'[r].pc = "idle" => req'[r].next = 1
  BY <1>1, <1>2 DEF PhaseInv, Active
<1>4. CASE Stop
  <2>1. writer.pc = "done" /\ UNCHANGED <<queue, dropped, writer, daily, recorded, surprises>>
    BY <1>4 DEF Stop, queuing, summing
  <2>2. TypeOK'
    BY <1>1, <1>2, <2>1 DEF TypeOK, RequestType, Closed
  <2>3. writer'.last => \A x \in dropped' : req'[x[1]].pc = "late"
    BY <1>1, <1>2, <2>1 DEF PhaseInv, TypeOK
  <2>4. PhaseInv'
    BY <1>1, <1>3, <2>1, <2>3 DEF PhaseInv
  <2>. QED BY <2>2, <2>4 DEF Base
<1>5. CASE Crash
  <2>1. /\ queue' = <<>> /\ dropped' = {} /\ writer' = Off /\ daily' = NoDay /\ recorded' = disk
        /\ Surprise("crash")
    BY <1>5 DEF Crash
  <2>2. writer' \in WriterType /\ writer'.pc = "off" /\ ~writer'.last /\ writer'.todo = <<>>
    <3>1. <<>> \in Seq(Line) /\ 0 \in Names
      BY EmptySeq, <1>1, FilesGrow
    <3>. QED BY <2>1, <3>1 DEF Off, WriterType
  <2>3. /\ daily' \in [day : 0..Days, sum : Summary, dirty : BOOLEAN]
        /\ disk' \in [1..Days -> Summary] /\ recorded' \in [1..Days -> Summary]
    <3>1. 0 \in 0..Days
      BY EventLogAssumption
    <3>2. disk \in [1..Days -> Summary]
      BY <1>1 DEF TypeOK
    <3>. QED BY <1>1, <2>1, <3>1, <3>2 DEF NoDay, NoSummary, Summary
  <2>4. SurprisesType'
    BY <2>1, SurpriseBase DEF Surprises
  <2>5. queue' \in Seq(Line) /\ Len(queue') <= QueueSize
    <3>1. queue' \in Seq(Line) /\ Len(queue') = 0
      BY <2>1, EmptySeq
    <3>. QED BY <3>1, EventLogAssumption
  <2>6. TypeOK'
    BY <1>1, <1>2, <2>1, <2>2, <2>3, <2>4, <2>5
    DEF TypeOK, RequestType, WriterType, SurprisesType
  <2>7. PhaseInv'
    BY <1>1, <1>3, <2>1, <2>2 DEF PhaseInv
  <2>. QED BY <2>6, <2>7 DEF Base
<1>. QED BY <1>4, <1>5

LEMMA MidnightBase ==
  ASSUME Base, Midnight
  PROVE  Base'
<1>1. /\ TypeOK /\ PhaseInv /\ today' \in 1..Days /\ SurprisesType'
      /\ UNCHANGED <<phase, run, req, queue, dropped, writer, handle, files, log, daily, disk,
                     recorded, report>>
  <2>1. SurprisesType'
    BY SurpriseBase DEF Midnight, Surprises
  <2>2. today \in 1..Days /\ today < Days /\ today' = today + 1
    BY DEF Base, TypeOK, Midnight
  <2>. QED BY <2>1, <2>2, EventLogAssumption DEF Base, Midnight, queuing, logging, summing
<1>2. TypeOK'
  BY <1>1 DEF TypeOK, Closed, SurprisesType
<1>3. PhaseInv'
  BY <1>1 DEF PhaseInv, Active
<1>. QED BY <1>2, <1>3 DEF Base

-----------------------------------------------------------------------------
(* The report                                                              *)

LEMMA LeastNumber ==
  ASSUME NEW S \in SUBSET Nat, S # {}
  PROVE  \E i \in S : \A j \in S : i <= j
<1>. DEFINE R == {q \in Nat \X Nat : q[1] < q[2]}
<1>1. IsWellFoundedOn(R, Nat)
  <2>1. R = OpToRel(<, Nat)
    BY DEF OpToRel
  <2>. QED BY <2>1, NatLessThanWellFounded
<1>2. PICK i \in S : \A j \in S : <<j, i>> \notin R
  BY <1>1, WFMin
<1>3. ASSUME NEW j \in S
      PROVE  i <= j
  <2>1. <<j, i>> \in Nat \X Nat /\ <<j, i>> \notin R
    BY <1>2
  <2>2. ~(j < i)
    BY <2>1
  <2>. QED BY <2>2
<1>. QED BY <1>3

\* A report takes the oldest file first.
LEMMA PathFacts ==
  ASSUME report.left \in SUBSET Names, report.left # {}
  PROVE  Path \in report.left /\ \A j \in report.left : j <= Path
<1>. DEFINE S == {MaxFiles - 1 - i : i \in report.left}
<1>1. MaxFiles \in Nat /\ report.left \subseteq 0..(MaxFiles - 1)
  BY EventLogAssumption DEF Names
<1>2. S \in SUBSET Nat /\ S # {}
  BY <1>1
<1>3. PICK m \in S : \A j \in S : m <= j
  BY <1>2, LeastNumber
<1>4. PICK i \in report.left : m = MaxFiles - 1 - i
  OBVIOUS
<1>5. \A j \in report.left : j <= i
  <2>. TAKE j \in report.left
  <2>1. m <= MaxFiles - 1 - j
    BY <1>3
  <2>. QED BY <1>1, <1>4, <2>1
<1>. QED BY <1>4, <1>5 DEF Path

\* Where a report is at its last file, and where it goes on.
LEMMA ReportsBase ==
  ASSUME Base, ReportBegins \/ ReportReads, report.pc = "read" => report.left # {}
  PROVE  Base'
<1>1. /\ TypeOK /\ PhaseInv /\ UNCHANGED <<phase, run, today, req, queue, dropped, writer, handle,
                                           files, log, daily, disk, recorded>>
      /\ report \in ReportType(Len(log)) /\ files \in FilesType(Len(log))
  BY FilesGrow DEF Base, ReportBegins, ReportReads, process, queuing, logging, summing,
     TypeOK, ReportType
<1>2. NoReport \in ReportType(Len(log))
  BY EmptySeq DEF NoReport, ReportType
<1>3. report' \in ReportType(Len(log)) /\ SurprisesType'
  <2>1. CASE ReportBegins
    <3>1. PICK moved : moved = (writer.pc \in {"rename", "open"})
      OBVIOUS
    <3>2. PICK left : left = Paths
      OBVIOUS
    <3>3. report' = [pc |-> "read", left |-> left, got |-> <<>>, moved |-> moved]
      BY <2>1, <3>1, <3>2 DEF ReportBegins, NoReport
    <3>4. left \in SUBSET Names /\ moved \in BOOLEAN
      BY <3>1, <3>2 DEF Paths
    <3>5. report' \in ReportType(Len(log))
      <4>1. <<>> \in Seq(1..Len(log))
        BY EmptySeq
      <4>. QED BY <3>3, <3>4, <4>1 DEF ReportType
    <3>6. SurprisesType'
      <4>1. Surprise("report") \/ NightFault("report")
        BY <2>1 DEF ReportBegins
      <4>. QED BY <1>1, <4>1, SurpriseBase DEF Surprises
    <3>. QED BY <3>5, <3>6
  <2>2. CASE /\ report.pc = "read" /\ Content # None
             /\ report' = [report EXCEPT !.got = @ \o Content, !.left = @ \ {Path}]
             /\ UNCHANGED surprises
    <3>1. Path \in Names
      BY <1>1, <2>2, PathFacts DEF ReportType
    <3>2. Content \in Seq(1..Len(log))
      BY <1>1, <2>2, <3>1 DEF Content, FilesType
    <3>3. report.got \o Content \in Seq(1..Len(log))
      BY <1>1, <3>2, ConcatProperties DEF ReportType
    <3>4. PICK got, left : got = report.got \o Content /\ left = report.left \ {Path}
      OBVIOUS
    <3>5. report' = [report EXCEPT !.got = got, !.left = left]
      BY <1>1, <2>2, <3>4 DEF ReportType
    <3>6. report' \in ReportType(Len(log))
      BY <1>1, <3>3, <3>4, <3>5 DEF ReportType
    <3>7. SurprisesType'
      BY <1>1, <2>2 DEF TypeOK, SurprisesType
    <3>. QED BY <3>6, <3>7
  <2>3. CASE report' = NoReport /\ surprises' = surprises \ {"report"}
    <3>1. IsFiniteSet(surprises) /\ surprises \subseteq Surprises
          /\ Cardinality(surprises) <= MaxSurprises + 1
      BY <1>1, SurprisesFinite, FS_Subset DEF TypeOK
    <3>2. /\ Cardinality(surprises') <= Cardinality(surprises)
          /\ Cardinality(surprises') \in Nat /\ Cardinality(surprises) \in Nat
      BY <2>3, <3>1, FS_Subset, FS_CardinalityType
    <3>. QED BY <1>2, <2>3, <3>1, <3>2, EventLogAssumption DEF SurprisesType
  <2>. QED BY <2>1, <2>2, <2>3 DEF ReportReads
<1>4. TypeOK'
  BY <1>1, <1>3 DEF TypeOK, Closed, SurprisesType, ReportType
<1>5. PhaseInv'
  BY <1>1 DEF PhaseInv, Active
<1>. QED BY <1>4, <1>5 DEF Base

-----------------------------------------------------------------------------
(* The summaries                                                           *)


\* Steps that have nothing to do with summaries.
LEMMA SummaryFrame ==
  ASSUME SummaryInv, UNCHANGED summing, surprises \ {"report"} \subseteq surprises',
         writer'.pc = "done" => writer.pc = "done"
  PROVE  SummaryInv'
<1>1. UNCHANGED <<daily, disk, recorded>>
  BY DEF summing
<1>2. \A kind \in surprises : kind # "report" => kind \in surprises'
  OBVIOUS
<1>. QED BY <1>1, <1>2 DEF SummaryInv, SummaryAddsUp

\* Once it is saved, the summary of the day is like those of the other days.
LEMMA FlushedFacts ==
  ASSUME Base, SummaryInv, disk' = Flushed
  PROVE  /\ "read" \notin surprises => \A d \in 1..Days : recorded[d] = disk'[d]
         /\ daily.day # 0 => disk'[daily.day] = daily.sum
         /\ \A d \in 1..Days : d # daily.day => disk'[d] = disk[d]
<1>1. SummaryType
  BY DEF Base, TypeOK, SummaryType
<1>2. daily.day \in 0..Days /\ (daily.dirty => daily.day \in 1..Days)
  BY <1>1 DEF SummaryType, SummaryInv
<1>3. /\ daily.day # 0 => disk'[daily.day] = daily.sum
      /\ \A d \in 1..Days : d # daily.day => disk'[d] = disk[d]
  BY <1>1, <1>2 DEF SummaryType, SummaryInv, Flushed
<1>. QED BY <1>2, <1>3 DEF SummaryInv, SummaryAddsUp

LEMMA RecordSummary ==
  ASSUME Base, SummaryInv, Record
  PROVE  SummaryInv'
<1>0. PICK line : line = writer.todo[1]
  OBVIOUS
<1>1. /\ SummaryType /\ line.day \in 1..Days /\ writer'.pc # "done"
      /\ surprises \subseteq surprises'
  <2>1. writer.pc = "record" /\ writer.todo # <<>> /\ writer.todo \in Seq(Line) /\ TypeOK
    BY WriterFacts DEF Record, Writing, WriterType, Base
  <2>2. line \in Line /\ Tail(writer.todo) \in Seq(Line)
    <3>1. Head(writer.todo) = line
      BY <1>0
    <3>. QED BY <2>1, <3>1, HeadTailProperties
  <2>3. writer'.pc \in {"line", "flush", "select"}
    BY <2>1, <2>2, LoopFacts DEF Record
  <2>4. surprises \subseteq surprises'
    BY DEF Record, Surprise, NightFault
  <2>5. SummaryType
    BY <2>1 DEF TypeOK, SummaryType
  <2>. QED BY <2>2, <2>3, <2>4, <2>5 DEF Line
<1>2. ASSUME NEW sum, Recorded(line, sum),
             "read" \notin surprises' => recorded[line.day] = sum,
             "read" \notin surprises' =>
               \A d \in 1..Days \ {line.day} : recorded[d] = disk'[d]
      PROVE  SummaryInv'
  <2>1. PICK a, b : a = Counted(sum, line) /\ b = Counted(recorded[line.day], line)
    OBVIOUS
  <2>2. daily' = [day |-> line.day, sum |-> a, dirty |-> TRUE]
        /\ recorded' = [recorded EXCEPT ![line.day] = b]
    BY <1>2, <2>1 DEF Recorded
  <2>3. "read" \notin surprises' => a = b
    BY <1>2, <2>1
  <2>4. daily'.day = line.day /\ daily'.sum = a /\ daily'.dirty = TRUE
    BY <2>2
  <2>5. recorded'[line.day] = b /\ \A d \in 1..Days \ {line.day} : recorded'[d] = recorded[d]
    BY <1>1, <2>2 DEF SummaryType
  <2>. QED BY <1>1, <1>2, <2>3, <2>4, <2>5 DEF SummaryInv, SummaryAddsUp
<1>3. CASE line.day = daily.day /\ Recorded(line, daily.sum) /\ UNCHANGED <<disk, surprises>>
  BY <1>1, <1>2, <1>3 DEF SummaryInv, SummaryAddsUp
<1>4. CASE /\ disk' = Flushed
           /\ \/ Recorded(line, Stored(line.day)) /\ UNCHANGED surprises
              \/ Recorded(line, NoSummary) /\ Surprise("read")
              \/ /\ daily' = [day |-> line.day, sum |-> Stored(line.day), dirty |-> FALSE]
                 /\ UNCHANGED recorded /\ Surprise("list")
  <2>1. "read" \notin surprises => \A d \in 1..Days : recorded[d] = disk'[d]
    BY <1>4, FlushedFacts
  <2>2. CASE Recorded(line, Stored(line.day)) /\ UNCHANGED surprises
    BY <1>1, <1>2, <2>1, <2>2 DEF Stored
  <2>3. CASE Recorded(line, NoSummary) /\ Surprise("read")
    BY <1>2, <2>3 DEF Surprise
  <2>4. CASE /\ daily' = [day |-> line.day, sum |-> Stored(line.day), dirty |-> FALSE]
             /\ UNCHANGED recorded /\ Surprise("list")
    <3>1. daily'.day = line.day /\ daily'.sum = disk'[line.day] /\ daily'.dirty = FALSE
      BY <2>4 DEF Stored
    <3>2. "read" \in surprises => "read" \in surprises'
      BY <1>1
    <3>. QED BY <1>1, <2>1, <2>4, <3>1, <3>2 DEF SummaryInv, SummaryAddsUp
  <2>. QED BY <1>4, <2>2, <2>3, <2>4
<1>5. CASE daily.dirty /\ UNCHANGED summing /\ NightFault("flush")
  BY <1>1, <1>5, SummaryFrame
<1>. QED BY <1>0, <1>3, <1>4, <1>5 DEF Record

LEMMA FlushSummary ==
  ASSUME Base, SummaryInv, FlushTick \/ FlushLast
  PROVE  SummaryInv'
<1>1. SummaryType /\ Flush /\ UNCHANGED recorded
  BY DEF Base, TypeOK, SummaryType, FlushTick, FlushLast
<1>2. CASE disk' = Flushed /\ daily' = [daily EXCEPT !.dirty = FALSE] /\ UNCHANGED surprises
  <2>1. daily'.day = daily.day /\ daily'.sum = daily.sum /\ daily'.dirty = FALSE
    BY <1>1, <1>2 DEF SummaryType
  <2>2. /\ "read" \notin surprises => \A d \in 1..Days : recorded[d] = disk'[d]
        /\ daily.day # 0 => disk'[daily.day] = daily.sum
    BY <1>2, FlushedFacts
  <2>. QED BY <1>1, <1>2, <2>1, <2>2 DEF SummaryInv, SummaryAddsUp
<1>3. CASE daily.dirty /\ UNCHANGED <<disk, daily>> /\ NightFault("flush")
  <2>1. surprises' = surprises \cup {"flush"}
    BY <1>3 DEF NightFault
  <2>. QED BY <1>1, <1>3, <2>1 DEF SummaryInv, SummaryAddsUp
<1>. QED BY <1>1, <1>2, <1>3 DEF Flush

LEMMA BootSummary ==
  ASSUME Base, SummaryInv, Start \/ Crash
  PROVE  SummaryInv'
<1>1. /\ daily' = NoDay /\ recorded' = disk /\ disk' = disk
  BY DEF Start, Crash
<1>2. daily'.day = 0 /\ ~daily'.dirty
  BY <1>1 DEF NoDay
<1>3. writer'.pc # "done"
  BY DEF Start, Crash, Off
<1>. QED BY <1>1, <1>2, <1>3 DEF SummaryInv, SummaryAddsUp

LEMMA NextSummary ==
  ASSUME Base, SummaryInv, Next
  PROVE  SummaryInv'
<1>1. CASE Record
  BY <1>1, RecordSummary
<1>2. CASE FlushTick \/ FlushLast
  BY <1>2, FlushSummary
<1>3. CASE Start \/ Crash
  BY <1>3, BootSummary
<1>4. CASE Receive
  <2>1. writer'.pc = "line"
    BY <1>4, ReceiveFacts
  <2>. QED BY <1>4, <2>1, SummaryFrame DEF Receive
<1>5. CASE ReceiveClosed
  <2>1. writer'.pc \in {"line", "flush"}
    BY <1>5, ReceiveClosedFacts
  <2>. QED BY <1>5, <2>1, SummaryFrame DEF ReceiveClosed
<1>6. CASE WriteLine \/ Rotate \/ Reopen
  <2>1. UNCHANGED summing /\ surprises \subseteq surprises'
    BY <1>6 DEF WriteLine, Rotate, Reopen, Written, Surprise
  <2>2. writer.pc \in {"line", "open"} /\ writer.todo # <<>> /\ TypeOK /\ writer \in WriterType
    BY <1>6, WriterFacts DEF WriteLine, Rotate, Reopen, Writing, Base
  <2>3. writer'.pc # "done"
    <3>1. CASE Lost
      BY <2>2, <3>1, LostFacts
    <3>2. CASE writer' = [writer EXCEPT !.pc = "rename", !.slot = Oldest]
      BY <2>2, <3>2 DEF WriterType
    <3>. QED BY <1>6, <3>1, <3>2 DEF WriteLine, Rotate, Reopen, Written
  <2>. QED BY <2>1, <2>3, SummaryFrame
<1>7. CASE RenameNext
  <2>1. writer'.pc # "done"
    BY <1>7, SlotFacts
  <2>. QED BY <1>7, <2>1, SummaryFrame DEF RenameNext, Surprise
<1>8. CASE (\E r \in Requests : Arrive(r) \/ Stamp(r) \/ Send(r) \/ Count(r))
           \/ CloseQueue \/ Stop
  BY <1>8, SummaryFrame DEF Arrive, Stamp, Send, Count, CloseQueue, Stop
<1>9. CASE Midnight \/ ReportBegins \/ ReportReads
  BY <1>9, SummaryFrame DEF Midnight, ReportBegins, ReportReads, Surprise, NightFault
<1>. QED BY <1>1, <1>2, <1>3, <1>4, <1>5, <1>6, <1>7, <1>8, <1>9 DEF Next, Write

-----------------------------------------------------------------------------
(* The files                                                               *)

LEMMA PathsFacts ==
  ASSUME TypeOK
  PROVE  /\ Len(log) \in Nat /\ Names \subseteq Nat
         /\ \A i \in Names : i \in Paths <=> files[i] # None
         /\ \A i \in Paths : /\ i \in Names /\ i \in Nat
                             /\ files[i] \in Seq(1..Len(log)) /\ Len(files[i]) \in Nat
                             /\ DOMAIN files[i] = 1..Len(files[i])
                             /\ \A a \in DOMAIN files[i] : files[i][a] \in 1..Len(log)
         /\ \A n : n \in Kept <=> \E i \in Paths : \E a \in DOMAIN files[i] : n = files[i][a]
<1>1. files \in FilesType(Len(log)) /\ Len(log) \in Nat
  BY FilesGrow
<1>2. Names \subseteq Nat
  BY EventLogAssumption DEF Names
<1>3. ASSUME NEW i \in Paths
      PROVE  /\ i \in Names /\ files[i] \in Seq(1..Len(log)) /\ Len(files[i]) \in Nat
             /\ DOMAIN files[i] = 1..Len(files[i])
             /\ \A a \in DOMAIN files[i] : files[i][a] \in 1..Len(log)
  <2>1. i \in Names /\ files[i] \in Seq(1..Len(log))
    BY <1>1 DEF Paths, FilesType
  <2>. QED BY <2>1, LenProperties, ElementOfSeq
<1>4. ASSUME NEW n
      PROVE  n \in Kept <=> \E i \in Paths : \E a \in DOMAIN files[i] : n = files[i][a]
  BY DEF Kept, Range
<1>. QED BY <1>1, <1>2, <1>3, <1>4 DEF Paths

\* Nothing happens to the log.
LEMMA FilesFrame ==
  ASSUME Base, FilesInv, UNCHANGED <<files, log>>, Odd' = Odd,
         surprises \ {"report"} \subseteq surprises', "crash" \in surprises' => "crash" \in surprises,
         FaultFree' => Placed'
  PROVE  FilesInv'
<1>1. FaultFree' => FaultFree
  BY DEF FaultFree, LogFaults
<1>2. Ordered' /\ (FaultFree => Suffix')
  BY DEF FilesInv, Ordered, Suffix, Paths, Kept
<1>3. FaultFree /\ "crash" \notin surprises => Packed'
  BY DEF FilesInv, Packed, Paths, Kept, AtLimit
<1>. QED BY <1>1, <1>2, <1>3 DEF FilesInv

LEMMA CrashFiles ==
  ASSUME Base, FilesInv, Crash
  PROVE  FilesInv'
<1>1. /\ UNCHANGED <<files, log>> /\ surprises' = surprises \cup {"crash"} /\ phase' = "stopped"
      /\ writer'.pc = "off"
  BY DEF Crash, Surprise, Off
<1>2. Ordered' /\ (FaultFree => Suffix')
  BY <1>1 DEF FilesInv, Ordered, Suffix, Paths, Kept
<1>3. Placed' /\ (FaultFree' => FaultFree)
  BY <1>1 DEF Placed, FaultFree
<1>. QED BY <1>1, <1>2, <1>3 DEF FilesInv

\* A current file that is not there begins empty.
LEMMA StartFiles ==
  ASSUME Base, FilesInv, Start
  PROVE  FilesInv'
<1>1. /\ TypeOK /\ PhaseInv /\ phase = "stopped" /\ phase' = "serving" /\ handle' = "open"
      /\ UNCHANGED <<log, surprises>> /\ writer'.pc = "select" /\ 0 \in Names
      /\ files \in FilesType(Len(log)) /\ writer.pc \in {"off", "done"}
  BY FilesGrow DEF Base, Start, Off, PhaseInv
<1>2. /\ \A i \in Names \ {0} : files'[i] = files[i]
      /\ files'[0] = IF files[0] = None THEN <<>> ELSE files[0]
  BY <1>1 DEF Start, FilesType
<1>3. /\ \A i \in Names \ {0} : i \in Paths' <=> i \in Paths
      /\ 0 \in Paths => files'[0] = files[0] /\ 0 \in Paths'
      /\ 0 \notin Paths => files'[0] = <<>>
      /\ Paths \subseteq Names /\ Paths' \subseteq Names
  BY <1>1, <1>2 DEF Paths
<1>4. DOMAIN <<>> = {}
  OBVIOUS
<1>5. ASSUME NEW i \in Paths', NEW a \in DOMAIN files'[i]
      PROVE  i \in Paths /\ files'[i] = files[i]
  BY <1>2, <1>3, <1>4
<1>6. Kept' = Kept
  <2>1. \A i \in Paths : i \in Paths' /\ files'[i] = files[i]
    BY <1>2, <1>3
  <2>2. Kept' \subseteq Kept
    BY <1>5 DEF Kept, Range
  <2>3. Kept \subseteq Kept'
    BY <2>1 DEF Kept, Range
  <2>. QED BY <2>2, <2>3
<1>7. Ordered'
  BY <1>5 DEF FilesInv, Ordered
<1>8. Placed' /\ (FaultFree' <=> FaultFree) /\ Odd = 0 /\ Odd' = 0
  BY <1>1 DEF Placed, FaultFree, Odd
<1>9. \A i \in Names \ {0} : AtLimit(i)' <=> AtLimit(i)
  BY <1>2 DEF AtLimit
<1>10. Packed => Packed'
  BY <1>1, <1>3, <1>6, <1>8, <1>9 DEF Packed, Names
<1>11. Suffix => Suffix'
  BY <1>1, <1>6 DEF Suffix
<1>. QED BY <1>1, <1>7, <1>8, <1>10, <1>11 DEF FilesInv

\* The current file, which may just have been opened, gets the line or not.
LEMMA WrittenFiles ==
  ASSUME Base, FilesInv, writer.pc \in {"line", "open"}, handle' = "open",
         NEW current, current = IF files[0] = None THEN <<>> ELSE files[0], Written(current),
         handle = "open" \/ writer.pc = "open"
  PROVE  FilesInv'
<1>1. /\ TypeOK /\ writer.todo # <<>> /\ Odd = 0 /\ 0 \in Names
      /\ files \in FilesType(Len(log))
  BY WriterFacts, FilesGrow DEF Base, Writing, Odd
<1>2. /\ Len(log') = Len(log) + 1 /\ Len(log) \in Nat
      /\ writer'.pc \in {"record", "line", "flush", "select"} /\ Odd' = 0
  BY <1>1, LostFacts, FilesGrow DEF Written, Odd
<1>. PICK n : n = Len(log) + 1
  OBVIOUS
<1>3. current \in Seq(1..Len(log)) /\ (files[0] = None => current = <<>>)
      /\ (files[0] # None => current = files[0])
  BY <1>1, EmptySeq DEF FilesType
<1>4. /\ \A i \in Names \ {0} : files'[i] = files[i]
      /\ files'[0] # None
      /\ \/ files'[0] = Append(current, n) /\ surprises' = surprises
         \/ files'[0] = current /\ Surprise("write")
  BY <1>1, <1>3, WrittenFacts
<1>5. /\ \A i \in Names \ {0} : i \in Paths' <=> i \in Paths
      /\ 0 \in Paths' /\ Paths' \subseteq Names /\ Paths \subseteq Names /\ Names \subseteq Nat
  BY <1>1, <1>4, PathsFacts DEF Paths
<1>6. /\ Len(current) \in Nat /\ DOMAIN current = 1..Len(current)
      /\ \A a \in DOMAIN current : 0 \in Paths /\ current = files[0] /\ current[a] \in 1..Len(log)
  <2>1. Len(current) \in Nat /\ DOMAIN current = 1..Len(current)
        /\ \A a \in DOMAIN current : current[a] \in 1..Len(log)
    BY <1>3, LenProperties, ElementOfSeq
  <2>2. \A a \in DOMAIN current : current # <<>>
    OBVIOUS
  <2>3. \A a \in DOMAIN current : 0 \in Paths /\ current = files[0]
    BY <1>1, <1>3, <2>2 DEF Paths
  <2>. QED BY <2>1, <2>3
<1>7. CASE files'[0] = current /\ Surprise("write")
  <2>1. \A i \in Paths' : \A a \in DOMAIN files'[i] : i \in Paths /\ files'[i] = files[i]
    BY <1>4, <1>5, <1>6, <1>7
  <2>2. Ordered'
    BY <2>1 DEF FilesInv, Ordered
  <2>3. ~FaultFree'
    BY <1>7 DEF FaultFree, Surprise, LogFaults
  <2>. QED BY <2>2, <2>3 DEF FilesInv
<1>8. CASE files'[0] = Append(current, n) /\ surprises' = surprises
  <2>1. /\ Len(files'[0]) = Len(current) + 1 /\ DOMAIN files'[0] = 1..(Len(current) + 1)
        /\ \A a \in 1..Len(current) : files'[0][a] = current[a]
        /\ files'[0][Len(current) + 1] = n
    <3>1. current \in Seq(Nat) /\ n \in Nat
      <4>1. 1..Len(log) \subseteq Nat
        OBVIOUS
      <4>. QED BY <1>2, <1>3, <4>1, SeqMonotonic
    <3>2. Append(current, n) \in Seq(Nat)
      BY <3>1, AppendProperties
    <3>3. DOMAIN Append(current, n) = 1..Len(Append(current, n))
      BY <3>2, LenProperties
    <3>. QED BY <1>8, <3>1, <3>3, AppendProperties
  <2>2. ASSUME NEW i \in Paths', NEW a \in DOMAIN files'[i]
        PROVE  \/ i = 0 /\ a = Len(current) + 1 /\ files'[i][a] = n
               \/ /\ i \in Paths /\ a \in DOMAIN files[i] /\ files'[i][a] = files[i][a]
                  /\ files[i][a] \in 1..Len(log)
                  /\ i = 0 => a \in 1..Len(current)
    <3>1. CASE i = 0
      <4>1. a \in 1..(Len(current) + 1)
        BY <2>1, <3>1
      <4>2. CASE a = Len(current) + 1
        BY <2>1, <3>1, <4>2
      <4>3. CASE a \in 1..Len(current)
        BY <1>6, <2>1, <3>1, <4>3
      <4>. QED BY <1>6, <4>1, <4>2, <4>3
    <3>2. CASE i # 0
      <4>1. i \in Paths /\ files'[i] = files[i]
        BY <1>4, <1>5, <3>2
      <4>. QED BY <1>1, <3>2, <4>1, PathsFacts
    <3>. QED BY <3>1, <3>2
  <2>3. Ordered'
    <3>. SUFFICES ASSUME NEW i \in Paths', NEW j \in Paths', NEW a \in DOMAIN files'[i],
                         NEW b \in DOMAIN files'[j], i > j \/ (i = j /\ a < b)
                  PROVE  files'[i][a] < files'[j][b]
      BY DEF Ordered
    <3>1. CASE j = 0 /\ b = Len(current) + 1 /\ files'[j][b] = n
      <4>1. ~(i = 0 /\ a = Len(current) + 1)
        BY <1>6, <3>1
      <4>2. files'[i][a] \in 1..Len(log)
        BY <2>2, <4>1
      <4>. QED BY <1>2, <3>1, <4>2
    <3>2. CASE /\ j \in Paths /\ b \in DOMAIN files[j] /\ files'[j][b] = files[j][b]
               /\ j = 0 => b \in 1..Len(current)
      <4>1. CASE i = 0 /\ a = Len(current) + 1
        <5>1. j \in Nat
          BY <1>5
        <5>2. j = 0 /\ a < b
          BY <4>1, <5>1
        <5>. QED BY <1>6, <3>2, <4>1, <5>2
      <4>2. CASE i \in Paths /\ a \in DOMAIN files[i] /\ files'[i][a] = files[i][a]
        BY <3>2, <4>2 DEF FilesInv, Ordered
      <4>. QED BY <2>2, <4>1, <4>2
    <3>. QED BY <2>2, <3>1, <3>2
  <2>4. Kept' = Kept \cup {n}
    <3>1. Kept' \subseteq Kept \cup {n}
      <4>. SUFFICES ASSUME NEW m \in Kept' PROVE m \in Kept \cup {n}
        OBVIOUS
      <4>1. \E i \in Paths' : \E a \in DOMAIN files'[i] : m = files'[i][a]
        BY DEF Kept, Range
      <4>. QED BY <2>2, <4>1 DEF Kept, Range
    <3>2. n \in Kept'
      <4>1. Len(current) + 1 \in DOMAIN files'[0] /\ files'[0][Len(current) + 1] = n
        BY <1>6, <2>1
      <4>. QED BY <1>5, <4>1 DEF Kept, Range
    <3>3. Kept \subseteq Kept'
      <4>. SUFFICES ASSUME NEW m \in Kept PROVE m \in Kept'
        OBVIOUS
      <4>0. PICK i \in Paths : \E a \in DOMAIN files[i] : m = files[i][a]
        BY DEF Kept, Range
      <4>1. PICK a \in DOMAIN files[i] : m = files[i][a]
        BY <4>0
      <4>2. i \in Paths' /\ a \in DOMAIN files'[i] /\ files'[i][a] = m
        <5>1. CASE i = 0
          <6>1. current = files[0] /\ a \in 1..Len(current)
            BY <1>3, <1>6, <4>1, <5>1 DEF Paths
          <6>. QED BY <1>5, <1>6, <2>1, <4>1, <5>1, <6>1
        <5>2. CASE i # 0
          BY <1>4, <1>5, <4>1, <5>2
        <5>. QED BY <5>1, <5>2
      <4>. QED BY <4>2 DEF Kept, Range
    <3>. QED BY <3>1, <3>2, <3>3
  <2>5. Placed'
    BY <1>2 DEF Placed
  <2>6. FaultFree' <=> FaultFree
    BY <1>8 DEF FaultFree
  <2>7. Suffix => Suffix'
    <3>. SUFFICES ASSUME Suffix, NEW m \in Kept', NEW k \in m..(Len(log) + 1)
                  PROVE  k \in Kept'
      BY <1>2 DEF Suffix
    <3>1. m \in 1..n
      BY <1>1, <1>2, <2>4, PathsFacts
    <3>2. CASE k = n
      BY <2>4, <3>2
    <3>3. CASE k # n
      <4>1. k \in m..Len(log) /\ m # n
        BY <1>2, <3>1, <3>3
      <4>. QED BY <2>4, <4>1 DEF Suffix
    <3>. QED BY <3>2, <3>3
  <2>8. Packed => Packed'
    <3>. SUFFICES ASSUME Packed PROVE Packed'
      OBVIOUS
    <3>1. \A i \in Names \ {0} : AtLimit(i)' <=> AtLimit(i)
      BY <1>4 DEF AtLimit
    <3>2. 1..Len(log) \subseteq Kept => 1..Len(log') \subseteq Kept'
      BY <1>2, <2>4
    <3>3. ASSUME NEW i \in Paths', NEW j \in 0..i, j # 0
          PROVE  j \in Paths'
      <4>1. i \in 0..(MaxFiles - 1) /\ MaxFiles \in Nat
        BY <1>5, EventLogAssumption DEF Names
      <4>2. i # 0 /\ j \in Names
        BY <3>3, <4>1 DEF Names
      <4>. QED BY <1>1, <1>5, <3>3, <4>2 DEF Packed
    <3>. QED BY <1>1, <1>2, <1>5, <3>1, <3>2, <3>3 DEF Packed
  <2>. QED BY <1>8, <2>3, <2>5, <2>6, <2>7, <2>8 DEF FilesInv
<1>. QED BY <1>4, <1>7, <1>8

\* The writer lost a line, or a line was written, and no file but the current changed.
LEMMA WriteLineFiles ==
  ASSUME Base, FilesInv, WriteLine
  PROVE  FilesInv'
<1>1. /\ TypeOK /\ PhaseInv /\ writer.pc = "line" /\ writer.todo # <<>> /\ handle' = handle
      /\ phase # "stopped" /\ (handle = "open" => files[0] # None)
  BY WriterFacts DEF Base, WriteLine, Writing
<1>2. CASE handle = "open" /\ Written(files[0])
  BY <1>1, <1>2, WrittenFiles
<1>3. CASE handle # "open" /\ Lost /\ UNCHANGED <<files, surprises>>
  <2>1. ~FaultFree
    BY <1>1, <1>3 DEF FilesInv, Placed
  <2>2. ~FaultFree' /\ Ordered'
    BY <1>3, <2>1 DEF FaultFree, FilesInv, Ordered, Paths
  <2>. QED BY <2>2 DEF FilesInv
<1>. QED BY <1>2, <1>3 DEF WriteLine

LEMMA ReopenFiles ==
  ASSUME Base, FilesInv, Reopen
  PROVE  FilesInv'
<1>1. CASE handle' = "open" /\ Written(IF files[0] = None THEN <<>> ELSE files[0])
  BY <1>1, WrittenFiles DEF Reopen
<1>2. CASE Lost /\ UNCHANGED <<handle, files>> /\ Surprise("open")
  <2>1. ~FaultFree' /\ Ordered'
    BY <1>2 DEF FaultFree, Surprise, LogFaults, FilesInv, Ordered, Paths
  <2>. QED BY <2>1 DEF FilesInv
<1>. QED BY <1>1, <1>2 DEF Reopen

\* The oldest file is given up.
LEMMA RotateFiles ==
  ASSUME Base, FilesInv, Rotate
  PROVE  FilesInv'
<1>1. /\ TypeOK /\ writer.pc = "line" /\ handle = "open" /\ Full /\ writer \in WriterType
      /\ Oldest \in Names \ {0} /\ files[0] # None /\ files \in FilesType(Len(log))
      /\ 0 \in Names /\ Odd = 0
  <2>1. Oldest \in Names \ {0}
    BY EventLogAssumption DEF Oldest, Names
  <2>. QED BY <2>1, WriterFacts, FilesGrow DEF Rotate, Base, Writing, Odd
<1>2. CASE handle' = "closed" /\ Surprise("close") /\ UNCHANGED files
  <2>1. ~FaultFree' /\ Ordered'
    BY <1>2 DEF FaultFree, Surprise, LogFaults, FilesInv, Ordered, Paths
  <2>. QED BY <2>1 DEF FilesInv
<1>3. CASE /\ handle' = "nil"
           /\ files' = [files EXCEPT ![Oldest] = None]
           /\ writer' = [writer EXCEPT !.pc = "rename", !.slot = Oldest]
           /\ UNCHANGED <<log, surprises>>
  <2>1. /\ \A i \in Names \ {Oldest} : files'[i] = files[i]
        /\ files'[Oldest] = None
        /\ writer'.pc = "rename" /\ Odd' = Oldest
    BY <1>1, <1>3 DEF FilesType, WriterType, Odd
  <2>2. Paths' = Paths \ {Oldest} /\ Paths \subseteq Names /\ 0 \in Paths /\ Oldest # 0
    BY <1>1, <2>1 DEF Paths
  <2>3. \A i \in Paths' : i \in Paths /\ files'[i] = files[i]
    BY <2>1, <2>2
  <2>4. Ordered'
    BY <2>3 DEF FilesInv, Ordered
  <2>5. Kept' \subseteq Kept /\ (Oldest \notin Paths => Kept' = Kept)
    <3>1. Kept' \subseteq Kept
      BY <2>3 DEF Kept, Range
    <3>2. Oldest \notin Paths => \A i \in Paths : i \in Paths' /\ files'[i] = files[i]
      BY <2>1, <2>2
    <3>. QED BY <3>1, <3>2 DEF Kept, Range
  <2>6. Placed' /\ (FaultFree' <=> FaultFree) /\ ("crash" \in surprises' <=> "crash" \in surprises)
    BY <1>3, <2>1 DEF Placed, FaultFree
  <2>7. Ordered /\ Suffix => Suffix'
    <3>. SUFFICES ASSUME Ordered, Suffix, NEW m \in Kept', NEW k \in m..Len(log)
                  PROVE  k \in Kept'
      BY <1>3 DEF Suffix
    <3>0. PICK i \in Paths' : \E a \in DOMAIN files[i] : m = files[i][a]
      <4>1. \E i \in Paths' : \E a \in DOMAIN files'[i] : m = files'[i][a]
        BY DEF Kept, Range
      <4>. QED BY <2>3, <4>1
    <3>1. PICK a \in DOMAIN files[i] : m = files[i][a]
      BY <3>0
    <3>2. k \in Kept
      BY <2>5 DEF Suffix
    <3>3. PICK j \in Paths : \E b \in DOMAIN files[j] : k = files[j][b]
      BY <3>2 DEF Kept, Range
    <3>4. PICK b \in DOMAIN files[j] : k = files[j][b]
      BY <3>3
    <3>5. CASE j = Oldest
      <4>1. Oldest > i /\ i \in Paths
        <5>1. i \in Names /\ i # Oldest
          BY <2>2
        <5>. QED BY <2>2, <5>1, EventLogAssumption DEF Names, Oldest
      <4>2. k < m
        BY <3>1, <3>4, <3>5, <4>1 DEF Ordered
      <4>3. m \in 1..Len(log) /\ Len(log) \in Nat
        BY <1>1, <3>1, <4>1, PathsFacts
      <4>. QED BY <4>2, <4>3
    <3>6. CASE j # Oldest
      <4>1. j \in Paths' /\ files'[j] = files[j]
        BY <2>2, <2>3, <3>6
      <4>. QED BY <3>4, <4>1 DEF Kept, Range
    <3>. QED BY <3>5, <3>6
  <2>8. Packed => Packed'
    <3>. SUFFICES ASSUME Packed PROVE Packed'
      OBVIOUS
    <3>1. AtLimit(0)
      <4>1. Len(files[0]) \in Nat /\ Len(files[0]) + 1 > PerFile
        BY <1>1, <2>2, PathsFacts DEF Full
      <4>. QED BY <1>1, <4>1, EventLogAssumption DEF AtLimit
    <3>2. \A i \in Names \ {Oldest} : AtLimit(i)' <=> AtLimit(i)
      BY <2>1 DEF AtLimit
    <3>3. \A i \in Paths : AtLimit(i)
      BY <1>1, <3>1 DEF Packed
    <3>4. ASSUME NEW i \in Paths, NEW j \in 0..i
          PROVE  j \in Paths
      BY <1>1, <2>2 DEF Packed
    <3>5. Oldest \in Paths => \A i \in Names : i \in Paths
      <4>1. ASSUME NEW i \in Names PROVE i \in 0..Oldest
        BY EventLogAssumption DEF Names, Oldest
      <4>. QED BY <3>4, <4>1
    <3>6. \/ 1..Len(log) \subseteq Kept /\ Kept' = Kept
          \/ \A i \in Names \ {Oldest} : AtLimit(i)
      <4>1. CASE Oldest \in Paths
        BY <3>3, <3>5, <4>1
      <4>2. CASE Oldest \notin Paths
        BY <1>1, <2>5, <3>1, <4>2 DEF Packed
      <4>. QED BY <4>1, <4>2
    <3>7. \A i \in Paths' \ {Odd'} : AtLimit(i)'
      BY <2>1, <2>2, <3>2, <3>3
    <3>8. \A i \in Paths' : \A j \in 0..i : j # Odd' => j \in Paths'
      BY <2>1, <2>2, <3>4
    <3>9. \/ 1..Len(log') \subseteq Kept'
          \/ \A i \in Names \ {Odd'} : AtLimit(i)'
      BY <1>3, <2>1, <3>2, <3>6
    <3>. QED BY <3>7, <3>8, <3>9 DEF Packed
  <2>. QED BY <2>4, <2>6, <2>7, <2>8 DEF FilesInv
<1>. QED BY <1>2, <1>3 DEF Rotate

\* A file takes the next name; the gap moves on.
LEMMA RenameFiles ==
  ASSUME Base, FilesInv, RenameNext
  PROVE  FilesInv'
<1>0. PICK i : i = writer.slot
  OBVIOUS
<1>1. /\ TypeOK /\ writer.pc = "rename" /\ i \in Nat \ {0} /\ i \in Names /\ i - 1 \in Names
      /\ writer'.pc = (IF i = 1 THEN "open" ELSE "rename") /\ writer'.slot = i - 1
      /\ log' = log /\ files \in FilesType(Len(log)) /\ Odd = i /\ Odd' = i - 1
      /\ writer'.pc \in {"rename", "open"} /\ phase # "stopped"
  <2>1. Odd' = i - 1
    BY <1>0, SlotFacts DEF Odd
  <2>. QED BY <1>0, <2>1, SlotFacts, WriterFacts, FilesGrow DEF RenameNext, Base, Odd
<1>2. CASE files[i - 1] = None /\ UNCHANGED <<files, surprises>>
  <2>1. /\ FaultFree' <=> FaultFree
        /\ "crash" \in surprises' <=> "crash" \in surprises
        /\ Placed' /\ Ordered' /\ (Suffix => Suffix')
    BY <1>1, <1>2 DEF FaultFree, Placed, FilesInv, Ordered, Suffix, Paths, Kept
  <2>2. FaultFree /\ Packed => Packed'
    <3>. SUFFICES ASSUME FaultFree, Packed PROVE Packed'
      OBVIOUS
    <3>1. files[i] = None
      BY <1>1 DEF FilesInv, Placed
    <3>2. i \notin Paths /\ i - 1 \notin Paths /\ Paths' = Paths /\ Kept' = Kept
      BY <1>1, <1>2, <3>1 DEF Paths, Kept
    <3>3. \A k \in Names : AtLimit(k)' <=> AtLimit(k)
      BY <1>2 DEF AtLimit
    <3>4. ~AtLimit(i - 1)
      BY <1>2 DEF AtLimit
    <3>5. ASSUME NEW k \in Paths, NEW j \in 0..k, j # i - 1
          PROVE  j \in Paths
      <4>1. CASE j = i
        <5>1. k \in Nat /\ i - 1 \in 0..k /\ i - 1 # i
          <6>1. k \in Nat
            BY <1>1, PathsFacts
          <6>. QED BY <1>1, <4>1, <6>1
        <5>2. i - 1 \in Paths
          BY <1>1, <5>1 DEF Packed
        <5>. QED BY <3>2, <5>2
      <4>2. CASE j # i
        BY <1>1, <4>2 DEF Packed
      <4>. QED BY <4>1, <4>2
    <3>6. 1..Len(log) \subseteq Kept
      <4>1. i - 1 \in Names \ {i}
        BY <1>1
      <4>. QED BY <1>1, <3>4, <4>1 DEF Packed
    <3>7. \A k \in Paths' \ {Odd'} : AtLimit(k)'
      <4>1. \A k \in Paths : k \in Names /\ k # i /\ AtLimit(k)
        BY <1>1, <3>2 DEF Packed, Paths
      <4>. QED BY <3>2, <3>3, <4>1
    <3>. QED BY <1>1, <3>2, <3>5, <3>6, <3>7 DEF Packed
  <2>. QED BY <2>1, <2>2 DEF FilesInv
<1>3. CASE files[i - 1] # None /\ files' = Renamed(i) /\ UNCHANGED surprises
  <2>1. /\ files'[i] = files[i - 1] /\ files'[i - 1] = None
        /\ \A k \in Names \ {i, i - 1} : files'[k] = files[k]
    <3>1. i # i - 1
      BY <1>1
    <3>. QED BY <1>1, <1>3, <3>1 DEF Renamed, FilesType
  <2>2. /\ i \in Paths' /\ i - 1 \in Paths /\ i - 1 \notin Paths'
        /\ \A k \in Names \ {i, i - 1} : k \in Paths' <=> k \in Paths
        /\ Paths \subseteq Names /\ Paths' \subseteq Names
    BY <1>1, <1>3, <2>1 DEF Paths
  <2>3. ASSUME NEW k \in Paths'
        PROVE  \/ k = i /\ files'[k] = files[i - 1]
               \/ k # i /\ k # i - 1 /\ k \in Paths /\ files'[k] = files[k]
    BY <2>1, <2>2
  <2>4. Ordered'
    <3>. SUFFICES ASSUME NEW k \in Paths', NEW j \in Paths', NEW a \in DOMAIN files'[k],
                         NEW b \in DOMAIN files'[j], k > j \/ (k = j /\ a < b)
                  PROVE  files'[k][a] < files'[j][b]
      BY DEF Ordered
    <3>0. k \in Nat /\ j \in Nat
      BY <1>1, <2>2, PathsFacts
    <3>1. PICK m \in Paths : files'[k] = files[m] /\ m = IF k = i THEN i - 1 ELSE k
      BY <2>2, <2>3
    <3>2. PICK n \in Paths : files'[j] = files[n] /\ n = IF j = i THEN i - 1 ELSE j
      BY <2>2, <2>3
    <3>3. m > n \/ (m = n /\ a < b)
      <4>1. k # i - 1 /\ j # i - 1 /\ i \in Nat
        BY <1>1, <2>3
      <4>2. CASE k = j
        <5>1. ~(k > j)
          BY <3>0, <4>2
        <5>. QED BY <3>1, <3>2, <4>2, <5>1
      <4>3. CASE k > j
        <5>1. m > n
          BY <3>0, <3>1, <3>2, <4>1, <4>3
        <5>. QED BY <5>1
      <4>. QED BY <4>2, <4>3
    <3>. QED BY <3>1, <3>2, <3>3 DEF FilesInv, Ordered
  <2>5. /\ FaultFree' <=> FaultFree
        /\ "crash" \in surprises' <=> "crash" \in surprises
        /\ Placed'
    BY <1>1, <1>3, <2>1 DEF FaultFree, Placed
  <2>6. files[i] = None => Kept' = Kept
    <3>1. Kept' \subseteq Kept
      <4>. SUFFICES ASSUME NEW n \in Kept' PROVE n \in Kept
        OBVIOUS
      <4>1. PICK k \in Paths' : n \in Range(files'[k])
        BY DEF Kept
      <4>. QED BY <2>2, <2>3, <4>1 DEF Kept
    <3>2. ASSUME files[i] = None, NEW n \in Kept
          PROVE  n \in Kept'
      <4>1. PICK k \in Paths : n \in Range(files[k])
        BY DEF Kept
      <4>2. k # i
        BY <3>2 DEF Paths
      <4>3. CASE k = i - 1
        BY <2>1, <2>2, <4>1, <4>3 DEF Kept
      <4>4. CASE k # i - 1
        BY <2>1, <2>2, <4>1, <4>2, <4>4 DEF Kept
      <4>. QED BY <4>3, <4>4
    <3>. QED BY <3>1, <3>2
  <2>7. FaultFree => files[i] = None
    BY <1>1 DEF FilesInv, Placed
  <2>8. FaultFree /\ Suffix => Suffix'
    BY <1>1, <2>6, <2>7 DEF Suffix
  <2>9. FaultFree /\ Packed => Packed'
    <3>. SUFFICES ASSUME FaultFree, Packed PROVE Packed'
      OBVIOUS
    <3>1. i \notin Paths /\ Kept' = Kept
      BY <2>6, <2>7 DEF Paths
    <3>2. AtLimit(i)' <=> AtLimit(i - 1)
      BY <2>1 DEF AtLimit
    <3>3. \A k \in Names \ {i, i - 1} : AtLimit(k)' <=> AtLimit(k)
      BY <2>1 DEF AtLimit
    <3>4. \A k \in Paths : AtLimit(k)
      BY <1>1, <3>1 DEF Packed
    <3>5. \A k \in Paths' : AtLimit(k)'
      <4>. TAKE k \in Paths'
      <4>1. CASE k = i
        BY <2>2, <3>2, <3>4, <4>1
      <4>2. CASE k # i
        BY <2>2, <2>3, <3>3, <3>4, <4>2
      <4>. QED BY <4>1, <4>2
    <3>6. ASSUME NEW k \in Paths', NEW j \in 0..k, j # i - 1
          PROVE  j \in Paths'
      <4>0. k \in Nat /\ k \in Names
        BY <1>1, <2>2, PathsFacts
      <4>1. CASE j = i
        BY <2>2, <4>1
      <4>2. CASE j # i /\ k = i
        <5>1. j \in 0..(i - 1) /\ j \in Names
          BY <1>1, <4>0, <4>2, EventLogAssumption DEF Names
        <5>2. j \in Paths
          BY <1>1, <2>2, <4>2, <5>1 DEF Packed
        <5>. QED BY <2>2, <3>6, <4>2, <5>1, <5>2
      <4>3. CASE j # i /\ k # i
        <5>1. k \in Paths
          BY <2>3, <4>3
        <5>2. j \in Paths
          BY <1>1, <4>3, <5>1 DEF Packed
        <5>. QED BY <2>2, <3>6, <4>3, <5>2
      <4>. QED BY <4>1, <4>2, <4>3
    <3>7. \/ 1..Len(log') \subseteq Kept'
          \/ \A k \in Names \ {i - 1} : AtLimit(k)'
      <4>1. CASE 1..Len(log) \subseteq Kept
        BY <1>1, <3>1, <4>1
      <4>2. CASE \A k \in Names \ {i} : AtLimit(k)
        <5>1. i - 1 # i
          BY <1>1
        <5>. QED BY <1>1, <3>2, <3>3, <4>2, <5>1
      <4>. QED BY <1>1, <4>1, <4>2 DEF Packed
    <3>. QED BY <1>1, <3>5, <3>6, <3>7 DEF Packed
  <2>. QED BY <2>4, <2>5, <2>8, <2>9 DEF FilesInv
<1>4. CASE UNCHANGED files /\ Surprise("rename")
  <2>1. ~FaultFree' /\ Ordered'
    BY <1>4 DEF FaultFree, Surprise, LogFaults, FilesInv, Ordered, Paths
  <2>. QED BY <2>1 DEF FilesInv
<1>. QED BY <1>0, <1>2, <1>3, <1>4 DEF RenameNext

LEMMA NextFiles ==
  ASSUME Base, FilesInv, Next
  PROVE  FilesInv'
<1>1. CASE Start
  BY <1>1, StartFiles
<1>2. CASE Crash
  BY <1>2, CrashFiles
<1>3. CASE WriteLine \/ Rotate \/ RenameNext \/ Reopen
  BY <1>3, WriteLineFiles, RotateFiles, RenameFiles, ReopenFiles
<1>4. CASE Receive \/ ReceiveClosed
  <2>1. /\ UNCHANGED <<phase, handle, files, log, surprises>> /\ writer.pc = "select"
        /\ phase # "stopped"
    BY <1>4, WriterFacts DEF Receive, ReceiveClosed, process, logging
  <2>2. writer'.pc \in {"line", "flush"}
    BY <1>4, ReceiveFacts, ReceiveClosedFacts
  <2>3. Odd = 0 /\ Odd' = 0
    BY <2>1, <2>2 DEF Odd
  <2>4. FaultFree' => Placed'
    BY <2>1, <2>2 DEF FaultFree, FilesInv, Placed
  <2>. QED BY <2>1, <2>3, <2>4, FilesFrame
<1>5. CASE Record \/ FlushTick \/ FlushLast
  <2>1. /\ UNCHANGED <<phase, handle, files, log>> /\ phase # "stopped" /\ TypeOK
        /\ writer.pc \in {"record", "select", "flush"} /\ Writing(writer)
    BY <1>5, WriterFacts DEF Record, FlushTick, FlushLast, process, logging, Base
  <2>2. /\ surprises \subseteq surprises' /\ (FaultFree' => FaultFree)
        /\ "crash" \in surprises' => "crash" \in surprises
    BY <1>5 DEF Record, FlushTick, FlushLast, Flush, FaultFree, Surprise, NightFault
  <2>3. writer'.pc \in {"line", "flush", "select", "done"}
    <3>1. CASE Record
      <4>1. Tail(writer.todo) \in Seq(Line)
        BY <2>1, <3>1, HeadTailProperties DEF Record, Writing, WriterType
      <4>. QED BY <2>1, <3>1, <4>1, LoopFacts DEF Record
    <3>2. CASE FlushTick
      BY <2>1, <3>2 DEF FlushTick
    <3>3. CASE FlushLast
      BY <2>1, <3>3 DEF FlushLast, Writing, WriterType
    <3>. QED BY <1>5, <3>1, <3>2, <3>3
  <2>4. Odd = 0 /\ Odd' = 0
    BY <2>1, <2>3 DEF Odd
  <2>5. FaultFree' => Placed'
    BY <2>1, <2>2, <2>3 DEF FilesInv, Placed
  <2>6. surprises \ {"report"} \subseteq surprises'
    BY <2>2
  <2>. QED BY <2>1, <2>2, <2>4, <2>5, <2>6, FilesFrame
<1>6. CASE Stop
  <2>1. UNCHANGED <<writer, files, log, surprises>> /\ phase' = "stopped" /\ writer.pc = "done"
    BY <1>6 DEF Stop
  <2>2. Placed' /\ Odd' = Odd
    BY <2>1 DEF Placed, Odd
  <2>. QED BY <2>1, <2>2, FilesFrame
<1>7. CASE CloseQueue
  <2>1. UNCHANGED <<writer, handle, files, log, surprises>> /\ phase = "serving"
    BY <1>7 DEF CloseQueue, logging
  <2>2. Odd' = Odd /\ (FaultFree' => Placed')
    BY <2>1 DEF FilesInv, FaultFree, Placed, Odd
  <2>. QED BY <2>1, <2>2, FilesFrame
<1>8. CASE \/ \E r \in Requests : Arrive(r) \/ Stamp(r) \/ Send(r) \/ Count(r)
           \/ Midnight \/ ReportBegins \/ ReportReads
  <2>1. UNCHANGED <<phase, writer, handle, files, log>>
    BY <1>8
    DEF Arrive, Stamp, Send, Count, Midnight, ReportBegins, ReportReads, logging, process
  <2>2. /\ surprises \ {"report"} \subseteq surprises' /\ (FaultFree' => FaultFree)
        /\ "crash" \in surprises' => "crash" \in surprises
    BY <1>8 DEF Arrive, Stamp, Send, Count, Midnight, ReportBegins, ReportReads, FaultFree,
       Surprise, NightFault, LogFaults
  <2>3. Odd' = Odd /\ (FaultFree' => Placed')
    BY <2>1, <2>2 DEF FilesInv, Placed, Odd
  <2>. QED BY <2>1, <2>2, <2>3, FilesFrame
<1>. QED BY <1>1, <1>2, <1>3, <1>4, <1>5, <1>6, <1>7, <1>8 DEF Next, Write

-----------------------------------------------------------------------------
(* In how many places an event is told                                     *)

One(line, r, kind) == IF Tells(line, r, kind) THEN 1 ELSE 0

LEMMA TellingType ==
  ASSUME NEW S, NEW s \in Seq(S), NEW r, NEW kind
  PROVE  /\ IsFiniteSet({i \in DOMAIN s : Tells(s[i], r, kind)})
         /\ Telling(s, r, kind) \in Nat
<1>1. DOMAIN s = 1..Len(s) /\ Len(s) \in Nat
  BY LenProperties
<1>2. IsFiniteSet(1..Len(s))
  BY <1>1, FS_Interval
<1>. QED BY <1>1, <1>2, FS_Subset, FS_CardinalityType DEF Telling

LEMMA TellingConcat ==
  ASSUME NEW S, NEW s \in Seq(S), NEW t \in Seq(S), NEW r, NEW kind
  PROVE  Telling(s \o t, r, kind) = Telling(s, r, kind) + Telling(t, r, kind)
<1>. DEFINE A == {i \in DOMAIN s : Tells(s[i], r, kind)}
            B == {i \in DOMAIN t : Tells(t[i], r, kind)}
            C == {i \in DOMAIN (s \o t) : Tells((s \o t)[i], r, kind)}
            D == {Len(s) + i : i \in B}
<1>1. /\ Len(s) \in Nat /\ Len(t) \in Nat /\ DOMAIN s = 1..Len(s) /\ DOMAIN t = 1..Len(t)
      /\ IsFiniteSet(A) /\ IsFiniteSet(B)
  BY LenProperties, TellingType
<1>2. /\ DOMAIN (s \o t) = 1..(Len(s) + Len(t))
      /\ \A i \in 1..Len(s) : (s \o t)[i] = s[i]
      /\ \A i \in 1..Len(t) : (s \o t)[Len(s) + i] = t[i]
  <2>1. /\ s \o t \in Seq(S) /\ Len(s \o t) = Len(s) + Len(t)
        /\ \A i \in 1..(Len(s) + Len(t)) : (s \o t)[i] = IF i <= Len(s) THEN s[i] ELSE t[i - Len(s)]
    BY ConcatProperties
  <2>2. DOMAIN (s \o t) = 1..Len(s \o t)
    BY <2>1, LenProperties
  <2>3. ASSUME NEW i \in 1..Len(s) PROVE (s \o t)[i] = s[i]
    BY <1>1, <2>1
  <2>4. ASSUME NEW i \in 1..Len(t) PROVE (s \o t)[Len(s) + i] = t[i]
    <3>1. Len(s) + i \in 1..(Len(s) + Len(t)) /\ ~(Len(s) + i <= Len(s)) /\ (Len(s) + i) - Len(s) = i
      BY <1>1
    <3>. QED BY <2>1, <3>1
  <2>. QED BY <2>1, <2>2, <2>3, <2>4
<1>3. A \cap D = {}
  BY <1>1
<1>4. C = A \cup D
  <2>1. ASSUME NEW i \in C PROVE i \in A \cup D
    <3>1. CASE i <= Len(s)
      BY <1>1, <1>2, <3>1
    <3>2. CASE i > Len(s)
      <4>1. i - Len(s) \in 1..Len(t) /\ i = Len(s) + (i - Len(s))
        BY <1>1, <1>2, <3>2
      <4>2. i - Len(s) \in B
        BY <1>1, <1>2, <4>1
      <4>. QED BY <4>1, <4>2
    <3>. QED BY <1>1, <1>2, <3>1, <3>2
  <2>2. ASSUME NEW i \in A PROVE i \in C
    BY <1>1, <1>2
  <2>3. ASSUME NEW i \in B PROVE Len(s) + i \in C
    BY <1>1, <1>2
  <2>. QED BY <2>1, <2>2, <2>3
<1>5. IsFiniteSet(D) /\ Cardinality(D) = Cardinality(B)
  <2>. DEFINE f == [i \in B |-> Len(s) + i]
  <2>1. f \in Bijection(B, D)
    <3>1. f \in [B -> D] /\ \A j \in D : \E i \in B : f[i] = j
      OBVIOUS
    <3>2. \A i, j \in B : f[i] = f[j] => i = j
      BY <1>1
    <3>3. DOMAIN f = B
      OBVIOUS
    <3>. HIDE DEF f, B, D
    <3>4. f \in Injection(B, D)
      BY <3>1, <3>2, <3>3 DEF Injection, IsInjective
    <3>5. f \in Surjection(B, D)
      BY <3>1 DEF Surjection
    <3>. QED BY <3>4, <3>5 DEF Bijection
  <2>. QED BY <1>1, <2>1, FS_Bijection DEF ExistsBijection
<1>6. Cardinality(C) = Cardinality(A) + Cardinality(B)
  <2>. HIDE DEF A, B, C, D
  <2>1. Cardinality(A \cup D) = Cardinality(A) + Cardinality(D) - Cardinality(A \cap D)
    BY <1>1, <1>5, FS_Union
  <2>2. Cardinality(A) \in Nat /\ Cardinality(D) \in Nat
    BY <1>1, <1>5, FS_CardinalityType
  <2>3. Cardinality(A \cap D) = 0
    BY <1>3, FS_EmptySet
  <2>. QED BY <1>4, <1>5, <2>1, <2>2, <2>3
<1>. QED BY <1>6 DEF Telling

LEMMA TellingOne ==
  ASSUME NEW line, NEW r, NEW kind
  PROVE  /\ Telling(<<line>>, r, kind) = One(line, r, kind)
         /\ Telling(<<>>, r, kind) = 0
<1>1. {i \in DOMAIN <<line>> : Tells(<<line>>[i], r, kind)} =
        IF Tells(line, r, kind) THEN {1} ELSE {}
  OBVIOUS
<1>2. {i \in DOMAIN <<>> : Tells(<<>>[i], r, kind)} = {}
  OBVIOUS
<1>. QED BY <1>1, <1>2, FS_EmptySet, FS_Singleton DEF Telling, One

LEMMA TellingAppend ==
  ASSUME NEW S, NEW s \in Seq(S), NEW line \in S, NEW r, NEW kind
  PROVE  Telling(Append(s, line), r, kind) = Telling(s, r, kind) + One(line, r, kind)
<1>0. PICK t : t = <<line>>
  OBVIOUS
<1>1. Append(s, line) = s \o t /\ t \in Seq(S)
  BY <1>0, AppendIsConcat
<1>2. Telling(s \o t, r, kind) = Telling(s, r, kind) + Telling(t, r, kind)
  BY <1>1, TellingConcat
<1>3. Telling(t, r, kind) = One(line, r, kind)
  BY <1>0, TellingOne
<1>. QED BY <1>1, <1>2, <1>3

LEMMA TellingTail ==
  ASSUME NEW S, NEW s \in Seq(S), s # <<>>, NEW r, NEW kind
  PROVE  Telling(s, r, kind) = One(Head(s), r, kind) + Telling(Tail(s), r, kind)
<1>1. Head(s) \in S /\ Tail(s) \in Seq(S) /\ Len(s) \in Nat /\ Len(s) # 0
  BY HeadTailProperties, EmptySeq
<1>2. <<Head(s)>> \in Seq(S)
  BY <1>1
<1>3. s = <<Head(s)>> \o Tail(s)
  <2>1. /\ <<Head(s)>> \o Tail(s) \in Seq(S) /\ Len(<<Head(s)>> \o Tail(s)) = 1 + Len(Tail(s))
        /\ \A i \in 1..(1 + Len(Tail(s))) : (<<Head(s)>> \o Tail(s))[i] =
             IF i <= 1 THEN <<Head(s)>>[i] ELSE Tail(s)[i - 1]
    BY <1>1, <1>2, ConcatProperties
  <2>2. Len(Tail(s)) = Len(s) - 1 /\ \A i \in 1..Len(Tail(s)) : Tail(s)[i] = s[i + 1]
    BY HeadTailProperties
  <2>3. ASSUME NEW i \in 1..Len(s)
        PROVE  (<<Head(s)>> \o Tail(s))[i] = s[i]
    <3>1. CASE i = 1
      BY <1>1, <2>1, <2>2, <3>1
    <3>2. CASE i # 1
      <4>1. i - 1 \in 1..Len(Tail(s)) /\ (i - 1) + 1 = i /\ ~(i <= 1)
        BY <1>1, <2>2, <3>2
      <4>. QED BY <1>1, <2>1, <2>2, <4>1
    <3>. QED BY <3>1, <3>2
  <2>4. s \in Seq(S) /\ Len(<<Head(s)>> \o Tail(s)) = Len(s)
    BY <1>1, <2>1, <2>2
  <2>. QED BY <2>1, <2>3, <2>4, SeqEqual
<1>4. PICK t : t = <<Head(s)>>
  OBVIOUS
<1>5. t \in Seq(S)
  BY <1>2, <1>4
<1>6. ASSUME NEW u \in Seq(S)
      PROVE  Telling(t \o u, r, kind) = Telling(t, r, kind) + Telling(u, r, kind)
  BY <1>5, TellingConcat
<1>7. Telling(t, r, kind) = One(Head(s), r, kind)
  BY <1>4, TellingOne
<1>8. Telling(t \o Tail(s), r, kind) = Telling(t, r, kind) + Telling(Tail(s), r, kind)
  BY <1>1, <1>6
<1>9. t \o Tail(s) = s
  BY <1>3, <1>4
<1>. QED BY <1>7, <1>8, <1>9

\* The places of an event are numbers.
LEMMA TotalType ==
  ASSUME Base, NEW r \in Requests, NEW kind
  PROVE  /\ Rest \in Seq(Line) /\ log \in Seq(Line) /\ queue \in Seq(Line)
         /\ Telling(log, r, kind) \in Nat /\ Telling(Rest, r, kind) \in Nat
         /\ Telling(queue, r, kind) \in Nat /\ Dropped(r, kind) \in {0, 1}
         /\ Total(r, kind) \in Nat
<1>1. Rest \in Seq(Line) /\ log \in Seq(Line) /\ queue \in Seq(Line)
  <2>1. writer.todo \in Seq(Line) /\ log \in Seq(Line) /\ queue \in Seq(Line)
    BY DEF Base, TypeOK
  <2>2. writer.pc = "record" => writer.todo # <<>>
    BY DEF Base, PhaseInv
  <2>. QED BY <2>1, <2>2, HeadTailProperties DEF Rest
<1>2. /\ Telling(log, r, kind) \in Nat /\ Telling(Rest, r, kind) \in Nat
      /\ Telling(queue, r, kind) \in Nat
  BY <1>1, TellingType
<1>. QED BY <1>1, <1>2 DEF Total, Dropped

LEMMA NowhereTold ==
  ASSUME Base, NEW r \in Requests, NEW kind, Total(r, kind) = 0
  PROVE  /\ Telling(log, r, kind) = 0 /\ Telling(Rest, r, kind) = 0
         /\ Telling(queue, r, kind) = 0 /\ Dropped(r, kind) = 0
<1>1. /\ Telling(log, r, kind) \in Nat /\ Telling(Rest, r, kind) \in Nat
      /\ Telling(queue, r, kind) \in Nat /\ Dropped(r, kind) \in {0, 1}
  BY TotalType
<1>2. Total(r, kind) = Telling(log, r, kind) + Telling(Rest, r, kind) + Telling(queue, r, kind)
                         + Dropped(r, kind)
  BY DEF Total
<1>. QED BY <1>1, <1>2

\* What the code calls a health line tells what has been dropped.
LEMMA HealthTells ==
  ASSUME Base, run # 0, NEW r \in Requests, NEW kind, NEW day \in 1..Days
  PROVE  Telling(Health(day), r, kind) = Dropped(r, kind)
<1>1. PICK line : line = LineOf("health", None, day, dropped)
  OBVIOUS
<1>2. line.req = None /\ line.of = dropped /\ r # None
  BY <1>1, EventLogAssumption DEF LineOf
<1>3. One(line, r, kind) = Dropped(r, kind)
  BY <1>2 DEF One, Tells, Dropped
<1>4. CASE dropped = {}
  BY <1>4, TellingOne DEF Health, Dropped
<1>5. CASE dropped # {}
  BY <1>1, <1>3, <1>5, TellingOne DEF Health
<1>. QED BY <1>4, <1>5

LEMMA LostTotal ==
  ASSUME Base, writer.pc \in {"line", "open"}, Lost, UNCHANGED <<queue, dropped>>,
         NEW r \in Requests, NEW kind
  PROVE  Total(r, kind)' = Total(r, kind)
<1>1. /\ Rest \in Seq(Line) /\ Rest # <<>> /\ Head(Rest) \in Line /\ log \in Seq(Line)
      /\ log' = Append(log, Head(Rest)) /\ Rest' = Tail(Rest) /\ Tail(Rest) \in Seq(Line)
  BY WriterFacts, LostFacts, HeadTailProperties DEF Base, Writing
<1>2. Telling(Append(log, Head(Rest)), r, kind) = Telling(log, r, kind) + One(Head(Rest), r, kind)
  BY <1>1, TellingAppend
<1>3. Telling(Rest, r, kind) = One(Head(Rest), r, kind) + Telling(Tail(Rest), r, kind)
  BY <1>1, TellingTail
<1>4. /\ Telling(log', r, kind) = Telling(log, r, kind) + One(Head(Rest), r, kind)
      /\ Telling(Rest', r, kind) = Telling(Tail(Rest), r, kind)
      /\ Telling(queue', r, kind) = Telling(queue, r, kind)
      /\ Dropped(r, kind)' = Dropped(r, kind)
  BY <1>1, <1>2 DEF Dropped
<1>5. Telling(Tail(Rest), r, kind) \in Nat /\ One(Head(Rest), r, kind) \in {0, 1}
  BY <1>1, TellingType DEF One
<1>6. Total(r, kind)' = Telling(log', r, kind) + Telling(Rest', r, kind) + Telling(queue', r, kind)
                          + Dropped(r, kind)'
  BY DEF Total
<1>7. Total(r, kind) = Telling(log, r, kind) + Telling(Rest, r, kind) + Telling(queue, r, kind)
                          + Dropped(r, kind)
  BY DEF Total
<1>. QED BY <1>3, <1>4, <1>5, <1>6, <1>7, TotalType

LEMMA ReceiveTotal ==
  ASSUME Base, Receive, NEW r \in Requests, NEW kind
  PROVE  Total(r, kind)' = Total(r, kind)
<1>1. /\ Rest = <<>> /\ queue \in Seq(Line) /\ queue # <<>> /\ queue' = Tail(queue)
      /\ Head(queue) \in Line /\ Tail(queue) \in Seq(Line) /\ Head(queue).day \in 1..Days
      /\ dropped' = {} /\ log' = log /\ run # 0
      /\ Health(Head(queue).day) \in Seq(Line)
  BY ReceiveFacts, WriterFacts DEF Receive, logging
<1>2. PICK health, rest : health = Health(Head(queue).day) /\ rest = health \o <<Head(queue)>>
  OBVIOUS
<1>3. health \in Seq(Line) /\ Rest' = rest
  BY <1>1, <1>2, ReceiveFacts
<1>4. Telling(health, r, kind) = Dropped(r, kind)
  BY <1>1, <1>2, HealthTells
<1>5. Telling(rest, r, kind) = Telling(health, r, kind) + One(Head(queue), r, kind)
  <2>1. rest = Append(health, Head(queue))
    BY <1>1, <1>2, <1>3, AppendIsConcat
  <2>. QED BY <1>1, <1>3, <2>1, TellingAppend
<1>6. Telling(queue, r, kind) = One(Head(queue), r, kind) + Telling(Tail(queue), r, kind)
  BY <1>1, TellingTail
<1>7. Telling(Tail(queue), r, kind) \in Nat /\ One(Head(queue), r, kind) \in {0, 1}
  BY <1>1, TellingType DEF One
<1>8. /\ Telling(log', r, kind) = Telling(log, r, kind)
      /\ Telling(Rest', r, kind) = Dropped(r, kind) + One(Head(queue), r, kind)
      /\ Telling(queue', r, kind) = Telling(Tail(queue), r, kind)
      /\ Dropped(r, kind)' = 0 /\ Telling(Rest, r, kind) = 0
  <2>1. Dropped(r, kind)' = 0
    BY <1>1 DEF Dropped
  <2>2. Telling(Rest, r, kind) = 0
    BY <1>1, TellingOne
  <2>. QED BY <1>1, <1>3, <1>4, <1>5, <2>1, <2>2
<1>9. Total(r, kind)' = Telling(log', r, kind) + Telling(Rest', r, kind) + Telling(queue', r, kind)
                          + Dropped(r, kind)'
  BY DEF Total
<1>10. Total(r, kind) = Telling(log, r, kind) + Telling(Rest, r, kind) + Telling(queue, r, kind)
                          + Dropped(r, kind)
  BY DEF Total
<1>11. /\ Telling(log, r, kind) \in Nat /\ Telling(Rest, r, kind) \in Nat
       /\ Telling(queue, r, kind) \in Nat /\ Dropped(r, kind) \in {0, 1}
  BY TotalType
<1>. QED BY <1>6, <1>7, <1>8, <1>9, <1>10, <1>11

LEMMA ReceiveClosedTotal ==
  ASSUME Base, ReceiveClosed, NEW r \in Requests, NEW kind
  PROVE  Total(r, kind)' = Total(r, kind)
<1>1. /\ Rest = <<>> /\ Rest' = Health(today) /\ dropped' = {} /\ log' = log /\ queue' = queue
      /\ run # 0 /\ today \in 1..Days
  BY ReceiveClosedFacts, WriterFacts DEF ReceiveClosed, logging
<1>2. Telling(Health(today), r, kind) = Dropped(r, kind)
  BY <1>1, HealthTells
<1>3. Dropped(r, kind)' = 0 /\ Telling(Rest, r, kind) = 0
  BY <1>1, TellingOne DEF Dropped
<1>4. Total(r, kind)' = Telling(log', r, kind) + Telling(Rest', r, kind) + Telling(queue', r, kind)
                          + Dropped(r, kind)'
  BY DEF Total
<1>5. Total(r, kind) = Telling(log, r, kind) + Telling(Rest, r, kind) + Telling(queue, r, kind)
                          + Dropped(r, kind)
  BY DEF Total
<1>6. /\ Telling(log', r, kind) = Telling(log, r, kind)
      /\ Telling(queue', r, kind) = Telling(queue, r, kind)
      /\ Telling(Rest', r, kind) = Dropped(r, kind)
  BY <1>1, <1>2
<1>. QED BY <1>3, <1>4, <1>5, <1>6, TotalType

\* Steps that leave the lines and the counter.
LEMMA SameTotal ==
  ASSUME UNCHANGED <<log, queue, dropped>>, Rest' = Rest, NEW r, NEW kind
  PROVE  Total(r, kind)' = Total(r, kind)
<1>1. Telling(log', r, kind) = Telling(log, r, kind)
  OBVIOUS
<1>2. Telling(Rest', r, kind) = Telling(Rest, r, kind)
  OBVIOUS
<1>3. Telling(queue', r, kind) = Telling(queue, r, kind)
  OBVIOUS
<1>4. Dropped(r, kind)' = Dropped(r, kind)
  BY DEF Dropped
<1>5. Total(r, kind)' = Telling(log', r, kind) + Telling(Rest', r, kind) + Telling(queue', r, kind)
                          + Dropped(r, kind)'
  BY DEF Total
<1>. QED BY <1>1, <1>2, <1>3, <1>4, <1>5 DEF Total

\* An event that is emitted has one place more, and no other has.
LEMMA SendTotal ==
  ASSUME Base, NEW q \in Requests, req[q].pc = "send", ~Closed,
         queue' = Append(queue, LineOf(Kind(q), q, req[q].day, {})),
         UNCHANGED <<log, dropped, writer>>, NEW r \in Requests, NEW kind
  PROVE  Total(r, kind)' = Total(r, kind) + IF r = q /\ kind = Kind(q) THEN 1 ELSE 0
<1>1. PICK line : line = LineOf(Kind(q), q, req[q].day, {})
  OBVIOUS
<1>2. line \in Line /\ line.req = q /\ line.kind = Kind(q) /\ line.of = {}
  <2>1. req[q].next < 3 /\ req[q].day \in 1..Days /\ run # 0 /\ TypeOK
    <3>1. TypeOK /\ PhaseInv /\ req[q] \in RequestType
      BY DEF Base, TypeOK, RequestType
    <3>. QED BY <3>1 DEF PhaseInv, Active, RequestType
  <2>2. Kind(q) \in Kinds /\ q \in Requests \cup {None} /\ {} \in SUBSET (Requests \X Kinds)
    BY <2>1, KindType
  <2>3. line \in Line
    BY <1>1, <2>1, <2>2, LineType
  <2>. QED BY <1>1, <2>3 DEF LineOf
<1>3. One(line, r, kind) = IF r = q /\ kind = Kind(q) THEN 1 ELSE 0
  BY <1>2 DEF One, Tells
<1>4. /\ queue' = Append(queue, line) /\ queue \in Seq(Line) /\ Rest' = Rest /\ log' = log
      /\ dropped' = dropped
  BY <1>1, TotalType DEF Rest
<1>5. Telling(Append(queue, line), r, kind) = Telling(queue, r, kind) + One(line, r, kind)
  BY <1>2, <1>4, TellingAppend
<1>6. /\ Telling(log', r, kind) = Telling(log, r, kind)
      /\ Telling(queue', r, kind) = Telling(queue, r, kind) + One(line, r, kind)
      /\ Telling(Rest', r, kind) = Telling(Rest, r, kind)
      /\ Dropped(r, kind)' = Dropped(r, kind)
  BY <1>4, <1>5 DEF Dropped
<1>7. Total(r, kind)' = Telling(log', r, kind) + Telling(Rest', r, kind) + Telling(queue', r, kind)
                          + Dropped(r, kind)'
  BY DEF Total
<1>8. Total(r, kind) = Telling(log, r, kind) + Telling(Rest, r, kind) + Telling(queue, r, kind)
                          + Dropped(r, kind)
  BY DEF Total
<1>9. /\ Telling(log, r, kind) \in Nat /\ Telling(Rest, r, kind) \in Nat
      /\ Telling(queue, r, kind) \in Nat /\ Dropped(r, kind) \in {0, 1}
  BY TotalType
<1>. QED BY <1>3, <1>6, <1>7, <1>8, <1>9

LEMMA CountTotal ==
  ASSUME Base, NEW q \in Requests, dropped' = dropped \cup {<<q, Kind(q)>>},
         UNCHANGED <<log, queue, writer>>, NEW r \in Requests, NEW kind,
         <<q, Kind(q)>> \notin dropped
  PROVE  Total(r, kind)' = Total(r, kind) + IF r = q /\ kind = Kind(q) THEN 1 ELSE 0
<1>1. Dropped(r, kind)' = Dropped(r, kind) + IF r = q /\ kind = Kind(q) THEN 1 ELSE 0
  BY DEF Dropped
<1>2. log' = log /\ queue' = queue /\ Rest' = Rest
  BY DEF Rest
<1>3. /\ Telling(log', r, kind) = Telling(log, r, kind)
      /\ Telling(queue', r, kind) = Telling(queue, r, kind)
      /\ Telling(Rest', r, kind) = Telling(Rest, r, kind)
  BY <1>2
<1>4. Total(r, kind)' = Telling(log', r, kind) + Telling(Rest', r, kind) + Telling(queue', r, kind)
                          + Dropped(r, kind)'
  BY DEF Total
<1>5. Total(r, kind) = Telling(log, r, kind) + Telling(Rest, r, kind) + Telling(queue, r, kind)
                          + Dropped(r, kind)
  BY DEF Total
<1>6. /\ Telling(log, r, kind) \in Nat /\ Telling(Rest, r, kind) \in Nat
      /\ Telling(queue, r, kind) \in Nat /\ Dropped(r, kind) \in {0, 1}
  BY TotalType
<1>. QED BY <1>1, <1>3, <1>4, <1>5, <1>6

LEMMA KeepsOnce ==
  ASSUME OnceInv, \A r \in Requests : \A kind : Total(r, kind)' = Total(r, kind),
         \A r \in Requests : /\ req'[r].next = req[r].next
                             /\ req[r].pc = "dead" => req'[r].pc = "dead",
         phase' # "stopped" \/ writer'.pc = "done" => phase # "stopped" \/ writer.pc = "done"
  PROVE  OnceInv'
<1>. SUFFICES ASSUME NEW r \in Requests, NEW i \in 1..2
              PROVE  /\ req'[r].pc # "dead" /\ req'[r].next <= i => Total(r, Events(r)[i])' = 0
                     /\ (phase' # "stopped" \/ writer'.pc = "done") /\ i < req'[r].next
                          => Total(r, Events(r)[i])' = 1
  BY DEF OnceInv
<1>1. Total(r, Events(r)[i])' = Total(r, Events(r)[i])
  OBVIOUS
<1>. QED BY <1>1 DEF OnceInv

LEMMA EmitsOnce ==
  ASSUME Base, OnceInv, NEW q \in Requests, req[q].pc \in {"send", "count"},
         req' = [req EXCEPT ![q] = Returned(q)], UNCHANGED <<phase, writer>>,
         \A r \in Requests : \A kind :
            Total(r, kind)' = Total(r, kind) + IF r = q /\ kind = Kind(q) THEN 1 ELSE 0
  PROVE  OnceInv'
<1>1. /\ TypeOK /\ req[q].next \in 1..2 /\ Kind(q) = Events(q)[req[q].next]
      /\ Events(q)[1] # Events(q)[2]
  <2>1. TypeOK /\ req[q].next < 3
    BY DEF Base, PhaseInv, Active
  <2>. QED BY <2>1, KindType DEF Kind
<1>2. req'[q].next = req[q].next + 1 /\ \A r \in Requests \ {q} : req'[r] = req[r]
  BY <1>1, ReturnedType DEF TypeOK
<1>. SUFFICES ASSUME NEW r \in Requests, NEW i \in 1..2
              PROVE  /\ req'[r].pc # "dead" /\ req'[r].next <= i => Total(r, Events(r)[i])' = 0
                     /\ (phase' # "stopped" \/ writer'.pc = "done") /\ i < req'[r].next
                          => Total(r, Events(r)[i])' = 1
  BY DEF OnceInv
<1>3. /\ req[r].pc # "dead" /\ req[r].next <= i => Total(r, Events(r)[i]) = 0
      /\ (phase # "stopped" \/ writer.pc = "done") /\ i < req[r].next => Total(r, Events(r)[i]) = 1
      /\ Total(r, Events(r)[i]) \in Nat
  BY TotalType DEF OnceInv
<1>4. CASE r # q
  <2>1. Total(r, Events(r)[i])' = Total(r, Events(r)[i])
    BY <1>3, <1>4
  <2>2. req'[r] = req[r]
    BY <1>2, <1>4
  <2>. QED BY <1>3, <2>1, <2>2
<1>5. CASE r = q
  <2>1. Total(r, Events(r)[i])' = Total(r, Events(r)[i]) + IF i = req[q].next THEN 1 ELSE 0
    <3>1. Events(q)[i] = Kind(q) <=> i = req[q].next
      BY <1>1
    <3>. QED BY <1>5, <3>1
  <2>2. CASE i = req[q].next
    BY <1>1, <1>2, <1>3, <1>5, <2>1, <2>2
  <2>3. CASE i # req[q].next
    BY <1>1, <1>2, <1>3, <1>5, <2>1, <2>3
  <2>. QED BY <2>2, <2>3
<1>. QED BY <1>4, <1>5

LEMMA RecordRest ==
  ASSUME Base, Record
  PROVE  Rest' = Rest /\ writer.pc = "record" /\ writer'.pc \in {"line", "flush", "select"}
<1>1. writer.pc = "record" /\ Writing(writer) /\ TypeOK
  BY WriterFacts DEF Record, Base
<1>2. Tail(writer.todo) \in Seq(Line)
  BY <1>1, HeadTailProperties DEF Writing, WriterType
<1>3. writer'.todo = Tail(writer.todo) /\ writer'.pc \in {"line", "flush", "select"}
  BY <1>1, <1>2, LoopFacts DEF Record
<1>. QED BY <1>1, <1>3 DEF Rest

LEMMA FlushRest ==
  ASSUME Base, FlushTick \/ FlushLast
  PROVE  Rest' = Rest /\ phase # "stopped" /\ writer'.pc \in {"select", "done"}
<1>1. writer.pc \in {"select", "flush"}
  BY DEF FlushTick, FlushLast
<1>2. Writing(writer) /\ phase # "stopped"
  BY <1>1, WriterFacts
<1>3. writer'.todo = writer.todo /\ writer'.pc \in {"select", "done"}
  BY <1>1, <1>2 DEF FlushTick, FlushLast, Writing, WriterType
<1>. QED BY <1>1, <1>2, <1>3 DEF Rest

LEMMA NextOnce ==
  ASSUME Base, OnceInv, Next
  PROVE  OnceInv'
<1>1. CASE Receive \/ ReceiveClosed
  <2>1. \A r \in Requests : \A kind : Total(r, kind)' = Total(r, kind)
    BY <1>1, ReceiveTotal, ReceiveClosedTotal
  <2>2. /\ UNCHANGED <<req, phase>> /\ writer'.pc # "done"
    BY <1>1, ReceiveFacts, ReceiveClosedFacts DEF Receive, ReceiveClosed, process
  <2>. QED BY <2>1, <2>2, KeepsOnce
<1>2. CASE Lost /\ UNCHANGED <<process, req, queuing>> /\ writer.pc \in {"line", "open"}
  <2>1. \A r \in Requests : \A kind : Total(r, kind)' = Total(r, kind)
    BY <1>2, LostTotal DEF queuing
  <2>2. UNCHANGED <<req, phase>> /\ phase # "stopped"
    BY <1>2, WriterFacts DEF process
  <2>. QED BY <2>1, <2>2, KeepsOnce
<1>3. CASE UNCHANGED <<phase, log, queue, dropped>> /\ Rest' = Rest
           /\ (\A r \in Requests : /\ req'[r].next = req[r].next
                                   /\ req[r].pc = "dead" => req'[r].pc = "dead")
           /\ (writer'.pc = "done" => phase # "stopped" \/ writer.pc = "done")
  <2>1. \A r \in Requests : \A kind : Total(r, kind)' = Total(r, kind)
    BY <1>3, SameTotal
  <2>. QED BY <1>3, <2>1, KeepsOnce
<1>4. CASE WriteLine \/ Reopen
  <2>1. Lost /\ UNCHANGED <<process, req, queuing>> /\ writer.pc \in {"line", "open"}
    BY <1>4 DEF WriteLine, Reopen, Written
  <2>. QED BY <1>2, <2>1
<1>5. CASE Rotate
  <2>1. UNCHANGED <<process, req, queuing>> /\ writer.pc = "line" /\ writer \in WriterType
    BY <1>5, WriterFacts DEF Rotate, Writing
  <2>2. CASE writer' = [writer EXCEPT !.pc = "rename", !.slot = Oldest] /\ UNCHANGED log
    <3>1. writer'.pc = "rename" /\ writer'.todo = writer.todo
      BY <2>1, <2>2 DEF WriterType
    <3>2. Rest' = Rest
      BY <2>1, <3>1 DEF Rest
    <3>. QED BY <1>3, <2>1, <2>2, <3>1, <3>2 DEF process, queuing
  <2>3. CASE Lost
    BY <1>2, <2>1, <2>3
  <2>. QED BY <1>5, <2>2, <2>3 DEF Rotate
<1>6. CASE RenameNext
  <2>1. UNCHANGED <<process, req, queuing, log>> /\ Rest' = Rest /\ writer'.pc \in {"open", "rename"}
    BY <1>6, SlotFacts DEF RenameNext
  <2>. QED BY <1>3, <2>1 DEF process, queuing
<1>7. CASE Record
  <2>1. UNCHANGED <<process, req, queuing, logging>>
    BY <1>7 DEF Record
  <2>. QED BY <1>3, <1>7, <2>1, RecordRest DEF process, queuing, logging
<1>8. CASE FlushTick \/ FlushLast
  <2>1. UNCHANGED <<process, req, queuing, logging>>
    BY <1>8 DEF FlushTick, FlushLast
  <2>. QED BY <1>3, <1>8, <2>1, FlushRest DEF process, queuing, logging
<1>9. CASE CloseQueue \/ Midnight \/ ReportBegins \/ ReportReads
  <2>1. UNCHANGED <<req, queue, dropped, writer, log>> /\ Rest' = Rest
    BY <1>9 DEF CloseQueue, Midnight, ReportBegins, ReportReads, queuing, logging, Rest
  <2>2. \A r \in Requests : \A kind : Total(r, kind)' = Total(r, kind)
    BY <2>1, SameTotal
  <2>3. phase' # "stopped" \/ writer'.pc = "done" => phase # "stopped" \/ writer.pc = "done"
    BY <1>9 DEF CloseQueue, Midnight, ReportBegins, ReportReads, process
  <2>4. req' = req
    BY <2>1
  <2>. QED BY <2>2, <2>3, <2>4, KeepsOnce
<1>10. CASE \E r \in Requests : Arrive(r) \/ Stamp(r)
  <2>0. PICK q \in Requests : Arrive(q) \/ Stamp(q)
    BY <1>10
  <2>1. UNCHANGED <<process, queuing, writer, logging>> /\ req \in [Requests -> RequestType]
        /\ req[q].pc # "dead" /\ req' = [req EXCEPT ![q].pc = "send", ![q].day = today]
    BY <2>0 DEF Arrive, Stamp, Base, TypeOK, RequestType
  <2>2. \A r \in Requests : /\ req'[r].next = req[r].next
                            /\ req[r].pc = "dead" => req'[r].pc = "dead"
    BY <2>1 DEF RequestType
  <2>. QED BY <1>3, <2>1, <2>2 DEF process, queuing, logging, Rest
<1>11. CASE \E r \in Requests : Send(r)
  <2>0. PICK q \in Requests : Send(q)
    BY <1>11
  <2>1. /\ UNCHANGED <<phase, dropped, writer, log>> /\ Rest' = Rest
        /\ req \in [Requests -> RequestType] /\ req[q].pc = "send"
    BY <2>0 DEF Send, process, logging, Base, TypeOK, RequestType, Rest
  <2>2. CASE /\ ~Closed /\ queue' = Append(queue, LineOf(Kind(q), q, req[q].day, {}))
             /\ req' = [req EXCEPT ![q] = Returned(q)]
    BY <2>1, <2>2, SendTotal, EmitsOnce
  <2>3. CASE /\ UNCHANGED queue
             /\ req' \in {[req EXCEPT ![q].pc = "panicked", ![q].day = 0],
                          [req EXCEPT ![q].pc = "count"]}
    <3>1. \A r \in Requests : /\ req'[r].next = req[r].next
                              /\ req[r].pc = "dead" => req'[r].pc = "dead"
      BY <2>1, <2>3 DEF RequestType
    <3>. QED BY <1>3, <2>1, <2>3, <3>1
  <2>. QED BY <2>0, <2>2, <2>3 DEF Send
<1>12. CASE \E r \in Requests : Count(r)
  <2>0. PICK q \in Requests : Count(q)
    BY <1>12
  <2>1. /\ UNCHANGED <<phase, queue, writer, log>> /\ req[q].pc = "count"
        /\ dropped' = dropped \cup {<<q, Kind(q)>>} /\ req' = [req EXCEPT ![q] = Returned(q)]
    BY <2>0 DEF Count, process, logging
  <2>2. <<q, Kind(q)>> \notin dropped
    <3>1. TypeOK /\ req[q].next < 3
      BY <2>1 DEF Base, PhaseInv, Active
    <3>2. req[q].next \in 1..2 /\ Kind(q) = Events(q)[req[q].next]
      BY <3>1, KindType DEF Kind
    <3>3. Total(q, Kind(q)) = 0
      BY <2>1, <3>2 DEF OnceInv
    <3>4. Dropped(q, Kind(q)) = 0
      BY <3>3, NowhereTold
    <3>. QED BY <3>4 DEF Dropped
  <2>3. \A r \in Requests : \A kind :
           Total(r, kind)' = Total(r, kind) + IF r = q /\ kind = Kind(q) THEN 1 ELSE 0
    BY <2>1, <2>2, CountTotal
  <2>. QED BY <2>1, <2>3, EmitsOnce
<1>13. CASE Start
  <2>1. \A r \in Requests : /\ req'[r].pc \in {"idle", "dead"} /\ req'[r].next = 1
                            /\ req'[r].pc = "idle" => req'[r] = req[r]
    BY <1>13, StartedRequests DEF Start
  <2>0. PICK line : line = [LineOf("startup", None, today, {}) EXCEPT !.run = run']
    OBVIOUS
  <2>2. /\ queue' = <<line>> /\ dropped' = {} /\ log' = log /\ Rest' = <<>>
        /\ line.kind = "startup" /\ line.req = None /\ line.of = {}
    BY <1>13, <2>0 DEF Start, Rest, Off, LineOf
  <2>3. ASSUME NEW r \in Requests, NEW kind
        PROVE  Total(r, kind)' = Telling(log, r, kind) /\ Telling(log, r, kind) \in Nat
    <3>1. One(line, r, kind) = 0
      BY <2>2, EventLogAssumption DEF One, Tells
    <3>2. /\ Telling(log', r, kind) = Telling(log, r, kind) /\ Telling(Rest', r, kind) = 0
          /\ Telling(queue', r, kind) = 0 /\ Dropped(r, kind)' = 0
      BY <2>2, <3>1, TellingOne DEF Dropped
    <3>3. Telling(log, r, kind) \in Nat
      BY TotalType
    <3>4. Total(r, kind)' = Telling(log', r, kind) + Telling(Rest', r, kind)
                              + Telling(queue', r, kind) + Dropped(r, kind)'
      BY DEF Total
    <3>. QED BY <3>2, <3>3, <3>4
  <2>4. ASSUME NEW r \in Requests, NEW i \in 1..2, req'[r].pc # "dead"
        PROVE  Total(r, Events(r)[i])' = 0
    <3>1. Total(r, Events(r)[i]) = 0
      BY <2>1, <2>4 DEF OnceInv
    <3>2. Telling(log, r, Events(r)[i]) = 0
      BY <3>1, NowhereTold
    <3>. QED BY <2>3, <3>2
  <2>. QED BY <2>1, <2>4 DEF OnceInv
<1>14. CASE Crash
  <2>1. /\ phase' = "stopped" /\ queue' = <<>> /\ dropped' = {} /\ log' = log /\ Rest' = <<>>
        /\ writer'.pc = "off" /\ req' = Ended
    BY <1>14 DEF Crash, Rest, Off
  <2>2. \A r \in Requests : req'[r].next = req[r].next /\ (req[r].pc = "dead" => req'[r].pc = "dead")
    BY <2>1, EndedFacts
  <2>3. ASSUME NEW r \in Requests, NEW kind, Total(r, kind) = 0
        PROVE  Total(r, kind)' = 0
    <3>1. Telling(log, r, kind) = 0
      BY <2>3, NowhereTold
    <3>2. /\ Telling(log', r, kind) = 0 /\ Telling(Rest', r, kind) = 0
          /\ Telling(queue', r, kind) = 0 /\ Dropped(r, kind)' = 0
      BY <2>1, <3>1, TellingOne DEF Dropped
    <3>3. Total(r, kind)' = Telling(log', r, kind) + Telling(Rest', r, kind)
                              + Telling(queue', r, kind) + Dropped(r, kind)'
      BY DEF Total
    <3>. QED BY <3>2, <3>3
  <2>4. ASSUME NEW r \in Requests, NEW i \in 1..2, req'[r].pc # "dead", req'[r].next <= i
        PROVE  Total(r, Events(r)[i])' = 0
    <3>1. Total(r, Events(r)[i]) = 0
      BY <2>2, <2>4 DEF OnceInv
    <3>. QED BY <2>3, <3>1
  <2>. QED BY <2>1, <2>4 DEF OnceInv
<1>15. CASE Stop
  <2>1. /\ UNCHANGED <<queue, dropped, writer, log>> /\ Rest' = Rest /\ writer.pc = "done"
        /\ req' = Ended
    BY <1>15 DEF Stop, queuing, Rest
  <2>2. \A r \in Requests : req'[r].next = req[r].next /\ (req[r].pc = "dead" => req'[r].pc = "dead")
    BY <2>1, EndedFacts
  <2>3. \A r \in Requests : \A kind : Total(r, kind)' = Total(r, kind)
    BY <2>1, SameTotal
  <2>. QED BY <2>1, <2>2, <2>3, KeepsOnce
<1>. QED
  BY <1>1, <1>4, <1>5, <1>6, <1>7, <1>8, <1>9, <1>10, <1>11, <1>12, <1>13, <1>14, <1>15
  DEF Next, Write

-----------------------------------------------------------------------------
(* The lines of a request                                                  *)

LEMMA AppendOrder ==
  ASSUME NEW S, NEW s \in Seq(S), NEW line \in S
  PROVE  /\ Range(Append(s, line)) = Range(s) \cup {line}
         /\ InOrder(s) /\ Before(Range(s), {line}) => InOrder(Append(s, line))
<1>0. PICK t : t = Append(s, line)
  OBVIOUS
<1>1. /\ t \in Seq(S) /\ Len(t) = Len(s) + 1 /\ t[Len(s) + 1] = line
      /\ \A i \in 1..Len(s) : t[i] = s[i]
  BY <1>0, AppendProperties
<1>2. Len(s) \in Nat /\ DOMAIN s = 1..Len(s) /\ DOMAIN t = 1..(Len(s) + 1)
  BY <1>1, LenProperties
<1>3. Range(t) = Range(s) \cup {line}
  <2>1. ASSUME NEW i \in DOMAIN t PROVE t[i] \in Range(s) \cup {line}
    <3>1. CASE i = Len(s) + 1
      BY <1>1, <3>1
    <3>2. CASE i # Len(s) + 1
      <4>1. i \in DOMAIN s
        BY <1>2, <3>2
      <4>. QED BY <1>1, <1>2, <4>1 DEF Range
    <3>. QED BY <3>1, <3>2
  <2>2. ASSUME NEW i \in DOMAIN s PROVE s[i] \in Range(t)
    <3>1. i \in DOMAIN t /\ t[i] = s[i]
      BY <1>1, <1>2
    <3>. QED BY <3>1 DEF Range
  <2>3. line \in Range(t)
    <3>1. Len(s) + 1 \in DOMAIN t
      BY <1>2
    <3>. QED BY <1>1, <3>1 DEF Range
  <2>. QED BY <2>1, <2>2, <2>3 DEF Range
<1>4. ASSUME InOrder(s), Before(Range(s), {line})
      PROVE  InOrder(t)
  <2>. SUFFICES ASSUME NEW a \in DOMAIN t, NEW b \in DOMAIN t, a < b, NEW r \in Requests
                PROVE  ~(Ends(t[a], r) /\ Begins(t[b], r))
    BY DEF InOrder
  <2>1. a \in DOMAIN s /\ t[a] = s[a] /\ s[a] \in Range(s)
    <3>1. a \in DOMAIN s
      BY <1>2
    <3>. QED BY <1>1, <1>2, <3>1 DEF Range
  <2>2. CASE b = Len(s) + 1
    BY <1>1, <1>4, <2>1, <2>2 DEF Before
  <2>3. CASE b # Len(s) + 1
    <3>1. b \in DOMAIN s /\ t[b] = s[b]
      BY <1>1, <1>2, <2>3
    <3>. QED BY <1>4, <2>1, <3>1 DEF InOrder
  <2>. QED BY <2>2, <2>3
<1>. QED BY <1>0, <1>3, <1>4

LEMMA TailOrder ==
  ASSUME NEW S, NEW s \in Seq(S), s # <<>>
  PROVE  /\ Range(s) = {Head(s)} \cup Range(Tail(s))
         /\ InOrder(s) => InOrder(Tail(s)) /\ Before({Head(s)}, Range(Tail(s)))
<1>0. PICK t : t = Tail(s)
  OBVIOUS
<1>1. /\ t \in Seq(S) /\ Len(t) = Len(s) - 1 /\ Head(s) = s[1]
      /\ \A i \in 1..Len(t) : t[i] = s[i + 1]
  BY <1>0, HeadTailProperties
<1>2. Len(s) \in Nat \ {0} /\ DOMAIN s = 1..Len(s) /\ DOMAIN t = 1..(Len(s) - 1)
  <2>1. Len(s) # 0
    BY EmptySeq
  <2>. QED BY <1>1, <2>1, LenProperties
<1>3. \A i \in DOMAIN t : i + 1 \in DOMAIN s /\ t[i] = s[i + 1] /\ 1 < i + 1
  BY <1>1, <1>2
<1>4. Range(s) = {Head(s)} \cup Range(t)
  <2>1. ASSUME NEW i \in DOMAIN s PROVE s[i] \in {Head(s)} \cup Range(t)
    <3>1. CASE i = 1
      BY <1>1, <3>1
    <3>2. CASE i # 1
      <4>1. i - 1 \in DOMAIN t /\ (i - 1) + 1 = i
        BY <1>2, <3>2
      <4>. QED BY <1>3, <4>1 DEF Range
    <3>. QED BY <3>1, <3>2
  <2>2. 1 \in DOMAIN s
    BY <1>2
  <2>. QED BY <1>1, <1>3, <2>1, <2>2 DEF Range
<1>5. ASSUME InOrder(s) PROVE InOrder(t) /\ Before({Head(s)}, Range(t))
  <2>1. Before({Head(s)}, Range(t))
    <3>1. 1 \in DOMAIN s
      BY <1>2
    <3>. QED BY <1>1, <1>3, <1>5, <3>1 DEF InOrder, Before, Range
  <2>2. ASSUME NEW a \in DOMAIN t, NEW b \in DOMAIN t, a < b, NEW r \in Requests
        PROVE  ~(Ends(t[a], r) /\ Begins(t[b], r))
    <3>1. a + 1 < b + 1
      BY <1>2, <2>2
    <3>. QED BY <1>3, <1>5, <3>1 DEF InOrder
  <2>. QED BY <2>1, <2>2 DEF InOrder
<1>. QED BY <1>0, <1>4, <1>5

LEMMA OneOrder ==
  ASSUME NEW line
  PROVE  /\ InOrder(<<line>>) /\ Range(<<line>>) = {line}
         /\ InOrder(<<>>) /\ Range(<<>>) = {}
BY DEF InOrder, Range

\* An event that is told nowhere has no line.
LEMMA NoneTells ==
  ASSUME NEW S, NEW s \in Seq(S), NEW r, NEW kind, Telling(s, r, kind) = 0
  PROVE  \A l \in Range(s) : ~Tells(l, r, kind)
<1>. DEFINE T == {i \in DOMAIN s : Tells(s[i], r, kind)}
<1>1. IsFiniteSet(T) /\ Cardinality(T) = 0
  BY TellingType DEF Telling
<1>. HIDE DEF T
<1>2. T = {}
  BY <1>1, FS_EmptySet
<1>. QED BY <1>2 DEF T, Range

\* What is of this run stays so, and no request becomes idle.
LEMMA OwnedFrame ==
  ASSUME Owned(AllLines), AllLines' \subseteq AllLines,
         \A r \in Requests : /\ req'[r].pc = "idle" => req[r].pc = "idle"
                             /\ Active(r)' => req[r].pc = "idle" \/ (Active(r) /\ run' = run)
  PROVE  Owned(AllLines)'
BY DEF Owned

LEMMA LinesType ==
  ASSUME Base
  PROVE  /\ today \in Nat /\ run \in Nat
         /\ \A r \in Requests : req[r].day \in Nat
         /\ \A l \in AllLines : l.day \in Nat /\ l.run \in Nat
<1>1. TypeOK /\ log \in Seq(Line) /\ Rest \in Seq(Line) /\ queue \in Seq(Line)
  <2>1. writer.todo \in Seq(Line) /\ log \in Seq(Line) /\ queue \in Seq(Line) /\ TypeOK
    BY DEF Base, TypeOK
  <2>2. writer.pc = "record" => writer.todo # <<>>
    BY DEF Base, PhaseInv
  <2>. QED BY <2>1, <2>2, HeadTailProperties DEF Rest
<1>2. \A l \in AllLines : l \in Line
  BY <1>1, ElementOfSeq DEF AllLines, Range
<1>3. \A l \in AllLines : l.day \in Nat /\ l.run \in Nat
  BY <1>2 DEF Line
<1>4. \A r \in Requests : req[r].day \in 0..Days
  BY <1>1 DEF TypeOK
<1>. QED BY <1>1, <1>3, <1>4, EventLogAssumption DEF TypeOK

\* Nothing is older than it was, and a request takes the day it is.
LEMMA DatedFrame ==
  ASSUME Base, Dated(AllLines), AllLines' \subseteq AllLines, run' = run,
         today' \in Nat, today <= today',
         \A r \in Requests : Timed(r)' =>
           req'[r].day = today' \/ (Timed(r) /\ req'[r].day = req[r].day)
  PROVE  Dated(AllLines)'
<1>1. /\ today \in Nat /\ run \in Nat /\ \A r \in Requests : req[r].day \in Nat
      /\ \A l \in AllLines : l.day \in Nat /\ l.run \in Nat
  BY LinesType
<1>2. \A l \in AllLines' : l.day <= today' /\ l.run <= run'
  BY <1>1 DEF Dated
<1>3. \A l, m \in AllLines' : m.kind = "startup" /\ l.run < m.run => l.day <= m.day
  BY DEF Dated
<1>4. \A l, m \in AllLines', r \in Requests : Ends(m, r) /\ Begins(l, r) => l.day <= m.day
  BY DEF Dated
<1>5. ASSUME NEW r \in Requests, Timed(r)'
      PROVE  req'[r].day <= today' /\ \A l \in AllLines' : l.req = r => l.day <= req'[r].day
  BY <1>1, <1>2, <1>5 DEF Dated
<1>. QED BY <1>2, <1>3, <1>4, <1>5 DEF Dated

LEMMA LostLines ==
  ASSUME Base, LinesInv, writer.pc \in {"line", "open"}, Lost, UNCHANGED <<process, req, queuing>>
  PROVE  LinesInv'
<1>1. /\ Rest \in Seq(Line) /\ Rest # <<>> /\ Head(Rest) \in Line /\ log \in Seq(Line)
      /\ log' = Append(log, Head(Rest)) /\ Rest' = Tail(Rest) /\ queue' = queue
      /\ UNCHANGED <<req, run, today>>
  <2>1. TypeOK /\ writer.todo # <<>> /\ log \in Seq(Line)
    BY WriterFacts DEF Base, Writing
  <2>2. /\ Rest \in Seq(Line) /\ Rest # <<>> /\ Head(Rest) \in Line
        /\ log' = Append(log, Head(Rest)) /\ Rest' = Tail(Rest)
    BY <2>1, LostFacts
  <2>3. queue' = queue /\ UNCHANGED <<req, run, today>>
    BY DEF process, queuing
  <2>. QED BY <2>1, <2>2, <2>3
<1>2. /\ Range(log') = Range(log) \cup {Head(Rest)}
      /\ InOrder(log) /\ Before(Range(log), {Head(Rest)}) => InOrder(log')
  BY <1>1, AppendOrder
<1>3. /\ Range(Rest) = {Head(Rest)} \cup Range(Rest')
      /\ InOrder(Rest) => InOrder(Rest') /\ Before({Head(Rest)}, Range(Rest'))
  BY <1>1, TailOrder
<1>4. EndsLast'
  <2>1. InOrder(log') /\ InOrder(Rest') /\ InOrder(queue')
    BY <1>1, <1>2, <1>3 DEF LinesInv, EndsLast, Before
  <2>2. Before(Range(log'), Range(Rest') \cup Range(queue')) /\ Before(Range(Rest'), Range(queue'))
    BY <1>1, <1>2, <1>3 DEF LinesInv, EndsLast, Before
  <2>. QED BY <2>1, <2>2 DEF EndsLast
<1>5. AllLines' = AllLines
  BY <1>1, <1>2, <1>3 DEF AllLines
<1>6. \A r \in Requests : /\ req'[r].pc = "idle" => req[r].pc = "idle"
                          /\ Active(r)' => Active(r) /\ run' = run
  BY <1>1 DEF Active
<1>7. Owned(AllLines)'
  BY <1>5, <1>6, OwnedFrame DEF LinesInv
<1>8. Dated(AllLines)'
  <2>1. today' \in Nat /\ today <= today' /\ run' = run
    BY <1>1, LinesType
  <2>2. \A r \in Requests : Timed(r)' => Timed(r) /\ req'[r].day = req[r].day
    BY <1>1 DEF Timed
  <2>. QED BY <1>5, <2>1, <2>2, DatedFrame DEF LinesInv
<1>. QED BY <1>4, <1>7, <1>8 DEF LinesInv

\* A line about what was dropped is no request's.
LEMMA ToldLines ==
  ASSUME Base, LinesInv, run # 0, Rest = <<>>, NEW day \in 1..Days, day <= today,
         UNCHANGED <<req, run, today, log>>,
         \/ Rest' = Health(day) /\ queue' = queue
         \/ /\ queue # <<>> /\ queue' = Tail(queue)
            /\ Rest' = Health(day) \o <<Head(queue)>>
  PROVE  LinesInv'
<1>0. PICK line : line = LineOf("health", None, day, dropped)
  OBVIOUS
<1>1. line.req = None /\ line.kind = "health" /\ line.day = day /\ line.run = run /\ \A r \in Requests : line.req # r
  BY <1>0, EventLogAssumption DEF LineOf
<1>2. Health(day) \in {<<>>, <<line>>} /\ Health(day) \in Seq(Line) /\ queue \in Seq(Line)
  BY <1>0, HealthType DEF Health, Base, TypeOK
<1>3. InOrder(Health(day)) /\ Range(Health(day)) \subseteq {line}
  BY <1>2, OneOrder
<1>4. EndsLast' /\ AllLines' \subseteq AllLines \cup {line}
  <2>0. Range(Rest) = {} /\ Before(Range(log), Range(queue)) /\ InOrder(log) /\ InOrder(queue)
    BY OneOrder DEF LinesInv, EndsLast, Before
  <2>1. CASE Rest' = Health(day) /\ queue' = queue
    BY <1>1, <1>3, <2>0, <2>1 DEF EndsLast, Before, Ends, Begins, AllLines
  <2>2. CASE queue # <<>> /\ queue' = Tail(queue) /\ Rest' = Health(day) \o <<Head(queue)>>
    <3>1. Head(queue) \in Line /\ Tail(queue) \in Seq(Line)
      BY <1>2, <2>2, HeadTailProperties
    <3>2. Health(day) \o <<Head(queue)>> = Append(Health(day), Head(queue))
      BY <1>2, <3>1, AppendIsConcat
    <3>3. Rest' = Append(Health(day), Head(queue))
      BY <2>2, <3>2
    <3>4. Before(Range(Health(day)), {Head(queue)})
      BY <1>1, <1>3 DEF Before, Ends
    <3>5. Range(Rest') = Range(Health(day)) \cup {Head(queue)} /\ InOrder(Rest')
      BY <1>2, <1>3, <3>1, <3>3, <3>4, AppendOrder
    <3>6. /\ Range(queue) = {Head(queue)} \cup Range(queue')
          /\ InOrder(queue') /\ Before({Head(queue)}, Range(queue'))
      BY <1>2, <2>0, <2>2, TailOrder
    <3>7. Before(Range(log), Range(Rest') \cup Range(queue'))
      BY <1>1, <1>3, <2>0, <3>5, <3>6 DEF Before, Begins
    <3>8. Before(Range(Rest'), Range(queue'))
      BY <1>1, <1>3, <3>5, <3>6 DEF Before, Ends
    <3>9. AllLines' \subseteq AllLines \cup {line}
      BY <1>3, <3>5, <3>6 DEF AllLines
    <3>. QED BY <2>0, <3>5, <3>6, <3>7, <3>8, <3>9 DEF EndsLast
  <2>. QED BY <2>1, <2>2
<1>5. Owned(AllLines)'
  BY <1>1, <1>4 DEF LinesInv, Owned, Active
<1>6. Dated(AllLines)'
  <2>1. /\ line.day <= today /\ line.run <= run /\ run \in Nat
        /\ \A l \in AllLines : l.day \in Nat /\ l.run \in Nat
    BY <1>1, LinesType
  <2>2. \A l \in AllLines' : l.day <= today /\ l.run <= run
    BY <1>4, <2>1 DEF LinesInv, Dated
  <2>3. \A l, m \in AllLines' : m.kind = "startup" /\ l.run < m.run => l.day <= m.day
    BY <1>1, <1>4, <2>1, <2>2 DEF LinesInv, Dated
  <2>4. \A l, m \in AllLines', r \in Requests : Ends(m, r) /\ Begins(l, r) => l.day <= m.day
    BY <1>1, <1>4 DEF LinesInv, Dated, Ends, Begins
  <2>5. \A r \in Requests : Timed(r) =>
          req[r].day <= today /\ \A l \in AllLines' : l.req = r => l.day <= req[r].day
    BY <1>1, <1>4 DEF LinesInv, Dated
  <2>. QED BY <2>2, <2>3, <2>4, <2>5 DEF Dated, Timed
<1>. QED BY <1>4, <1>5, <1>6 DEF LinesInv

\* Steps that leave the lines.
LEMMA SameLines ==
  ASSUME Base, LinesInv, UNCHANGED <<log, queue, run>>, Rest' = Rest,
         today' \in Nat, today <= today',
         \A r \in Requests : /\ req'[r].pc = "idle" => req[r].pc = "idle"
                             /\ Active(r)' => req[r].pc = "idle" \/ Active(r)
                             /\ Timed(r)' => \/ req'[r].day = today'
                                             \/ Timed(r) /\ req'[r].day = req[r].day
  PROVE  LinesInv'
<1>1. EndsLast' /\ AllLines' = AllLines
  BY DEF LinesInv, EndsLast, AllLines
<1>2. Owned(AllLines)'
  BY <1>1, OwnedFrame DEF LinesInv
<1>3. Dated(AllLines)'
  BY <1>1, DatedFrame DEF LinesInv
<1>. QED BY <1>1, <1>2, <1>3 DEF LinesInv

LEMMA SendLines ==
  ASSUME Base, OnceInv, LinesInv, NEW q \in Requests, req[q].pc = "send", ~Closed,
         queue' = Append(queue, LineOf(Kind(q), q, req[q].day, {})),
         req' = [req EXCEPT ![q] = Returned(q)], UNCHANGED <<process, log, writer>>
  PROVE  LinesInv'
<1>0. PICK line : line = LineOf(Kind(q), q, req[q].day, {})
  OBVIOUS
<1>1. /\ TypeOK /\ req[q].next \in 1..2 /\ req[q].day \in 1..Days /\ run # 0 /\ Active(q)
      /\ Kind(q) \in Kinds /\ Kind(q) = Events(q)[req[q].next]
      /\ Events(q)[1] # "end" /\ Events(q)[2] = "end"
  <2>1. TypeOK /\ PhaseInv /\ req[q] \in RequestType
    BY DEF Base, TypeOK, RequestType
  <2>2. req[q].day \in 1..Days /\ run # 0 /\ Active(q) /\ req[q].next < 3
    BY <2>1 DEF PhaseInv, Active, RequestType
  <2>. QED BY <2>1, <2>2, KindType DEF Kind
<1>2. /\ line \in Line /\ line.req = q /\ line.kind = Kind(q) /\ line.of = {} /\ line.run = run
      /\ q # None /\ line.day = req[q].day
  <2>1. q \in Requests \cup {None} /\ {} \in SUBSET (Requests \X Kinds)
    OBVIOUS
  <2>2. line \in Line
    BY <1>0, <1>1, <2>1, LineType
  <2>. QED BY <1>0, <2>2, EventLogAssumption DEF LineOf
<1>3. ASSUME NEW l \in AllLines, NEW r \in Requests PROVE ~(Ends(l, r) /\ Begins(line, r))
  <2>. SUFFICES ASSUME Ends(l, q), Begins(line, q), r = q PROVE FALSE
    BY <1>2 DEF Begins
  <2>1. req[q].next = 1
    BY <1>1, <1>2 DEF Begins
  <2>2. Total(q, "end") = 0
    <3>1. 2 \in 1..2 /\ req[q].pc # "dead" /\ req[q].next <= 2
      BY <2>1
    <3>. QED BY <1>1, <3>1 DEF OnceInv
  <2>3. Telling(log, q, "end") = 0 /\ Telling(Rest, q, "end") = 0 /\ Telling(queue, q, "end") = 0
    BY <2>2, NowhereTold
  <2>4. log \in Seq(Line) /\ Rest \in Seq(Line) /\ queue \in Seq(Line)
    BY TotalType
  <2>5. ~Tells(l, q, "end")
    BY <2>3, <2>4, NoneTells DEF AllLines
  <2>. QED BY <2>5 DEF Tells, Ends
<1>4. /\ log' = log /\ Rest' = Rest /\ run' = run /\ queue' = Append(queue, line)
      /\ Range(queue') = Range(queue) \cup {line}
      /\ InOrder(queue) /\ Before(Range(queue), {line}) => InOrder(queue')
  <2>1. queue \in Seq(Line) /\ queue' = Append(queue, line)
    BY <1>0, TotalType
  <2>2. /\ Range(Append(queue, line)) = Range(queue) \cup {line}
        /\ InOrder(queue) /\ Before(Range(queue), {line}) => InOrder(Append(queue, line))
    BY <1>2, <2>1, AppendOrder
  <2>. QED BY <2>1, <2>2 DEF Rest, process
<1>5. Before(AllLines, {line})
  BY <1>3 DEF Before
<1>6. EndsLast'
  <2>1. Before(Range(log), {line}) /\ Before(Range(Rest), {line}) /\ Before(Range(queue), {line})
    BY <1>5 DEF Before, AllLines
  <2>2. InOrder(log') /\ InOrder(Rest') /\ InOrder(queue')
    BY <1>4, <2>1 DEF LinesInv, EndsLast
  <2>3. Before(Range(log'), Range(Rest') \cup Range(queue')) /\ Before(Range(Rest'), Range(queue'))
    BY <1>4, <2>1 DEF LinesInv, EndsLast, Before
  <2>. QED BY <2>2, <2>3 DEF EndsLast
<1>7. AllLines' = AllLines \cup {line}
  BY <1>4 DEF AllLines
<1>8. /\ req'[q].pc \in {"late", "done", "stamp"} /\ \A r \in Requests \ {q} : req'[r] = req[r]
  BY <1>1, ReturnedType DEF TypeOK
<1>9. Owned(AllLines)'
  <2>1. \A l \in AllLines : l.req = q => l.run = run
    BY <1>1 DEF LinesInv, Owned
  <2>2. \A l \in AllLines' : /\ l.of # {} => l.kind = "health"
                             /\ l.req = None => l.kind \in {"startup", "health"}
    <3>1. \A l \in AllLines : /\ l.of # {} => l.kind = "health"
                              /\ l.req = None => l.kind \in {"startup", "health"}
      BY DEF LinesInv, Owned
    <3>. QED BY <1>2, <1>7, <3>1
  <2>3. \A l, m \in AllLines' : l.req = m.req /\ l.req # None => l.run = m.run
    BY <1>2, <1>7, <2>1 DEF LinesInv, Owned
  <2>4. ASSUME NEW l \in AllLines', NEW r \in Requests, l.req = r
        PROVE  req'[r].pc # "idle" /\ (Active(r)' => l.run = run')
    <3>1. CASE r = q
      BY <1>2, <1>4, <1>7, <1>8, <2>1, <2>4, <3>1
    <3>2. CASE r # q
      <4>1. l \in AllLines /\ req'[r] = req[r]
        BY <1>2, <1>7, <1>8, <2>4, <3>2
      <4>. QED BY <1>4, <2>4, <4>1 DEF LinesInv, Owned, Active
    <3>. QED BY <3>1, <3>2
  <2>. QED BY <2>2, <2>3, <2>4 DEF Owned
<1>10. Dated(AllLines)'
  <2>0. /\ UNCHANGED <<run, today>> /\ run \in Nat /\ today \in Nat
        /\ \A l \in AllLines : l.day \in Nat /\ l.run \in Nat
    BY LinesType DEF process
  <2>1. /\ line.day <= today /\ line.kind # "startup"
        /\ \A l \in AllLines : l.req = q => l.day <= line.day
    <3>1. Timed(q) /\ Dated(AllLines)
      BY DEF Timed, LinesInv
    <3>2. line.kind # "startup"
      BY <1>1, <1>2 DEF Events
    <3>. QED BY <1>2, <3>1, <3>2 DEF Dated
  <2>2. \A l \in AllLines' : l.day <= today /\ l.run <= run
    BY <1>2, <1>7, <2>0, <2>1 DEF LinesInv, Dated
  <2>3. \A l, m \in AllLines' : m.kind = "startup" /\ l.run < m.run => l.day <= m.day
    BY <1>2, <1>7, <2>0, <2>1, <2>2 DEF LinesInv, Dated
  <2>4. ASSUME NEW l \in AllLines', NEW m \in AllLines', NEW r \in Requests,
               Ends(m, r), Begins(l, r)
        PROVE  l.day <= m.day
    <3>1. CASE m = line
      <4>1. l # line
        BY <2>4, <3>1 DEF Ends, Begins
      <4>2. l \in AllLines /\ l.req = q
        BY <1>2, <1>7, <2>4, <3>1, <4>1 DEF Ends, Begins
      <4>. QED BY <2>1, <3>1, <4>2
    <3>2. CASE m # line
      <4>1. m \in AllLines /\ l # line
        BY <1>3, <1>7, <2>4, <3>2
      <4>2. l \in AllLines
        BY <1>7, <4>1
      <4>. QED BY <2>4, <4>1, <4>2 DEF LinesInv, Dated
    <3>. QED BY <3>1, <3>2
  <2>5. ASSUME NEW r \in Requests, Timed(r)'
        PROVE  req'[r].day <= today /\ \A l \in AllLines' : l.req = r => l.day <= req'[r].day
    <3>1. r # q
      BY <1>8, <2>5 DEF Timed
    <3>2. Timed(r) /\ req'[r] = req[r] /\ \A l \in AllLines' : l.req = r => l \in AllLines
      BY <1>2, <1>7, <1>8, <2>5, <3>1 DEF Timed
    <3>. QED BY <3>2 DEF LinesInv, Dated
  <2>. QED BY <2>0, <2>2, <2>3, <2>4, <2>5 DEF Dated
<1>. QED BY <1>6, <1>9, <1>10 DEF LinesInv

LEMMA NextLines ==
  ASSUME Base, OnceInv, LinesInv, Next
  PROVE  LinesInv'
<1>0. /\ today \in Nat /\ run \in Nat /\ \A r \in Requests : req[r].day \in Nat
      /\ \A l \in AllLines : l.day \in Nat /\ l.run \in Nat
  BY LinesType
<1>1. CASE Receive \/ ReceiveClosed
  <2>1. UNCHANGED <<req, run, today, log>> /\ Rest = <<>> /\ run # 0
    BY <1>1, ReceiveFacts, ReceiveClosedFacts, WriterFacts
       DEF Receive, ReceiveClosed, process, logging
  <2>2. CASE Receive
    <3>1. Head(queue) \in AllLines
      <4>1. queue \in Seq(Line) /\ queue # <<>>
        BY <2>2, ReceiveFacts DEF Base, TypeOK
      <4>2. 1 \in DOMAIN queue /\ Head(queue) = queue[1]
        BY <4>1, LenProperties
      <4>. QED BY <4>2 DEF AllLines, Range
    <3>2. Head(queue).day <= today
      BY <3>1 DEF LinesInv, Dated
    <3>. QED BY <2>1, <2>2, <3>2, ReceiveFacts, ToldLines
  <2>3. CASE ReceiveClosed
    <3>1. today <= today
      BY <1>0
    <3>. QED BY <2>1, <2>3, <3>1, ReceiveClosedFacts, ToldLines DEF ReceiveClosed
  <2>. QED BY <1>1, <2>2, <2>3
<1>2. CASE Lost /\ UNCHANGED <<process, req, queuing>> /\ writer.pc \in {"line", "open"}
  BY <1>2, LostLines
<1>3. CASE UNCHANGED <<req, log, queue, run>> /\ Rest' = Rest /\ today' \in {today, today + 1}
  <2>1. today' \in Nat /\ today <= today'
    BY <1>0, <1>3
  <2>2. \A r \in Requests : /\ req'[r].pc = "idle" => req[r].pc = "idle"
                            /\ Active(r)' => Active(r)
                            /\ Timed(r)' => Timed(r) /\ req'[r].day = req[r].day
    BY <1>3 DEF Active, Timed
  <2>. QED BY <1>3, <2>1, <2>2, SameLines
<1>4. CASE WriteLine \/ Reopen
  <2>1. Lost /\ UNCHANGED <<process, req, queuing>> /\ writer.pc \in {"line", "open"}
    BY <1>4 DEF WriteLine, Reopen, Written
  <2>. QED BY <1>2, <2>1
<1>5. CASE Rotate
  <2>1. UNCHANGED <<process, req, queuing>> /\ writer.pc = "line" /\ writer \in WriterType
    BY <1>5, WriterFacts DEF Rotate, Writing
  <2>2. CASE writer' = [writer EXCEPT !.pc = "rename", !.slot = Oldest] /\ UNCHANGED log
    <3>1. writer'.pc = "rename" /\ writer'.todo = writer.todo
      BY <2>1, <2>2 DEF WriterType
    <3>2. Rest' = Rest
      BY <2>1, <3>1 DEF Rest
    <3>. QED BY <1>3, <2>1, <2>2, <3>2 DEF process, queuing
  <2>3. CASE Lost
    BY <1>2, <2>1, <2>3
  <2>. QED BY <1>5, <2>2, <2>3 DEF Rotate
<1>6. CASE RenameNext
  <2>1. UNCHANGED <<process, req, queuing, log>> /\ Rest' = Rest
    BY <1>6, SlotFacts DEF RenameNext
  <2>. QED BY <1>3, <2>1 DEF process, queuing
<1>7. CASE Record
  <2>1. UNCHANGED <<process, req, queuing, logging>> /\ Rest' = Rest
    BY <1>7, RecordRest DEF Record
  <2>. QED BY <1>3, <2>1 DEF process, queuing, logging
<1>8. CASE FlushTick \/ FlushLast
  <2>1. UNCHANGED <<process, req, queuing, logging>> /\ Rest' = Rest
    BY <1>8, FlushRest DEF FlushTick, FlushLast
  <2>. QED BY <1>3, <2>1 DEF process, queuing, logging
<1>9. CASE CloseQueue \/ Midnight \/ ReportBegins \/ ReportReads
  <2>1. UNCHANGED <<req, run, queue, log>> /\ Rest' = Rest /\ today' \in {today, today + 1}
    BY <1>9 DEF CloseQueue, Midnight, ReportBegins, ReportReads, process, queuing, logging, Rest
  <2>. QED BY <1>3, <2>1
<1>10. CASE \E r \in Requests : Arrive(r) \/ Stamp(r) \/ Count(r)
  <2>0. PICK q \in Requests : Arrive(q) \/ Stamp(q) \/ Count(q)
    BY <1>10
  <2>1. UNCHANGED <<log, queue, run, today>> /\ Rest' = Rest
    BY <2>0 DEF Arrive, Stamp, Count, process, queuing, logging, Rest
  <2>2. \A r \in Requests \ {q} : req'[r] = req[r]
    BY <2>0 DEF Arrive, Stamp, Count, Base, TypeOK
  <2>3. req'[q].pc # "idle" /\ (req[q].pc = "idle" \/ Active(q))
    <3>1. CASE Arrive(q) \/ Stamp(q)
      BY <3>1 DEF Arrive, Stamp, Active, Base, TypeOK
    <3>2. CASE Count(q)
      <4>1. req[q].next < 3 /\ TypeOK /\ Active(q)
        BY <3>2 DEF Count, Active, Base, PhaseInv
      <4>2. req'[q].pc \in {"late", "done", "stamp"}
        BY <3>2, <4>1, ReturnedType DEF Count, TypeOK
      <4>. QED BY <4>1, <4>2
    <3>. QED BY <2>0, <3>1, <3>2
  <2>4. \A r \in Requests : /\ req'[r].pc = "idle" => req[r].pc = "idle"
                            /\ Active(r)' => req[r].pc = "idle" \/ Active(r)
    BY <2>2, <2>3 DEF Active
  <2>5. Timed(q)' => req'[q].day = today' \/ (Timed(q) /\ req'[q].day = req[q].day)
    <3>1. CASE Arrive(q) \/ Stamp(q)
      BY <3>1 DEF Arrive, Stamp, process, Base, TypeOK
    <3>2. CASE Count(q)
      <4>1. req[q].next < 3 /\ TypeOK
        BY <3>2 DEF Count, Active, Base, PhaseInv
      <4>2. req'[q].pc \in {"late", "done", "stamp"}
        BY <3>2, <4>1, ReturnedType DEF Count, TypeOK
      <4>. QED BY <4>2 DEF Timed
    <3>. QED BY <2>0, <3>1, <3>2
  <2>6. \A r \in Requests : Timed(r)' => \/ req'[r].day = today'
                                         \/ Timed(r) /\ req'[r].day = req[r].day
    BY <2>2, <2>5 DEF Timed
  <2>. QED BY <1>0, <2>1, <2>4, <2>6, SameLines
<1>11. CASE \E r \in Requests : Send(r)
  <2>0. PICK q \in Requests : Send(q)
    BY <1>11
  <2>1. /\ UNCHANGED <<process, dropped, writer, log>> /\ Rest' = Rest
        /\ req \in [Requests -> RequestType] /\ req[q].pc = "send"
    BY <2>0 DEF Send, logging, Base, TypeOK, RequestType, Rest
  <2>2. CASE /\ ~Closed /\ queue' = Append(queue, LineOf(Kind(q), q, req[q].day, {}))
             /\ req' = [req EXCEPT ![q] = Returned(q)]
    BY <2>1, <2>2, SendLines
  <2>3. CASE /\ UNCHANGED queue
             /\ req' \in {[req EXCEPT ![q].pc = "panicked", ![q].day = 0],
                          [req EXCEPT ![q].pc = "count"]}
    <3>1. \A r \in Requests : /\ req'[r].pc = "idle" => req[r].pc = "idle"
                              /\ Active(r)' => Active(r)
      BY <2>1, <2>3 DEF RequestType, Active
    <3>2. \A r \in Requests : Timed(r)' => Timed(r) /\ req'[r].day = req[r].day
      BY <2>1, <2>3 DEF RequestType, Timed
    <3>3. UNCHANGED <<run, today>>
      BY <2>1 DEF process
    <3>. QED BY <1>0, <2>1, <2>3, <3>1, <3>2, <3>3, SameLines
  <2>. QED BY <2>0, <2>2, <2>3 DEF Send
<1>12. CASE Start
  <2>1. \A r \in Requests : /\ req'[r].pc \in {"idle", "dead"}
                            /\ req'[r].pc = "idle" => req'[r] = req[r]
    BY <1>12, StartedRequests DEF Start
  <2>0. PICK line : line = [LineOf("startup", None, today, {}) EXCEPT !.run = run']
    OBVIOUS
  <2>2. /\ queue' = <<line>> /\ log' = log /\ Rest' = <<>>
        /\ line.kind = "startup" /\ line.req = None /\ line.of = {}
        /\ line.day = today /\ line.run = run' /\ run' = run + 1 /\ today' = today
    BY <1>12, <2>0 DEF Start, Rest, Off, LineOf
  <2>3. Range(queue') = {line} /\ Range(Rest') = {} /\ InOrder(queue') /\ InOrder(Rest')
    BY <2>2, OneOrder
  <2>4. EndsLast'
    BY <2>2, <2>3 DEF LinesInv, EndsLast, Before, Begins
  <2>5. AllLines' \subseteq AllLines \cup {line}
    BY <2>2, <2>3 DEF AllLines
  <2>6. line.req \notin Requests
    BY <2>2, EventLogAssumption
  <2>7. \A r \in Requests : ~Active(r)'
    BY <2>1 DEF Active
  <2>8. Owned(AllLines)'
    BY <2>1, <2>2, <2>5, <2>6, <2>7 DEF LinesInv, Owned
  <2>9. Dated(AllLines)'
    <3>1. \A l \in AllLines' : l.day <= today' /\ l.run <= run'
      BY <1>0, <2>2, <2>5 DEF LinesInv, Dated
    <3>2. \A l, m \in AllLines' : m.kind = "startup" /\ l.run < m.run => l.day <= m.day
      <4>1. \A l \in AllLines : l.run <= run /\ l.day <= today
        BY DEF LinesInv, Dated
      <4>. QED BY <1>0, <2>2, <2>5, <4>1 DEF LinesInv, Dated
    <3>3. \A l, m \in AllLines', r \in Requests : Ends(m, r) /\ Begins(l, r) => l.day <= m.day
      BY <2>2, <2>5 DEF LinesInv, Dated, Ends, Begins
    <3>4. \A r \in Requests : ~Timed(r)'
      BY <2>1 DEF Timed
    <3>. QED BY <3>1, <3>2, <3>3, <3>4 DEF Dated
  <2>. QED BY <2>4, <2>8, <2>9 DEF LinesInv
<1>13. CASE Crash \/ Stop
  <2>1. log' = log /\ run' = run /\ req' = Ended /\ today' = today
    BY <1>13 DEF Crash, Stop
  <2>2. \A r \in Requests : ~Active(r)' /\ (req'[r].pc = "idle" => req[r].pc = "idle")
    BY <2>1, EndedFacts DEF Active
  <2>5. today' \in Nat /\ today <= today' /\ \A r \in Requests : ~Timed(r)'
    BY <1>0, <2>1, EndedFacts DEF Timed
  <2>3. CASE Crash
    <3>1. queue' = <<>> /\ Rest' = <<>>
      BY <2>3 DEF Crash, Rest, Off
    <3>2. EndsLast' /\ AllLines' \subseteq AllLines
      BY <2>1, <3>1, OneOrder DEF LinesInv, EndsLast, Before, AllLines
    <3>3. Owned(AllLines)'
      BY <2>2, <3>2, OwnedFrame DEF LinesInv
    <3>4. Dated(AllLines)'
      BY <2>1, <2>5, <3>2, DatedFrame DEF LinesInv
    <3>. QED BY <3>2, <3>3, <3>4 DEF LinesInv
  <2>4. CASE Stop
    <3>1. queue' = queue /\ Rest' = Rest
      BY <2>4 DEF Stop, queuing, Rest
    <3>. QED BY <2>1, <2>2, <2>5, <3>1, SameLines
  <2>. QED BY <1>13, <2>3, <2>4
<1>. QED
  BY <1>1, <1>4, <1>5, <1>6, <1>7, <1>8, <1>9, <1>10, <1>11, <1>12, <1>13 DEF Next, Write

-----------------------------------------------------------------------------
(* What a report has read, and what it will read                           *)

LEMMA ReachFacts ==
  ASSUME TypeOK
  PROVE  /\ report.left \subseteq Names /\ report.got \in Seq(1..Len(log)) /\ Len(log) \in Nat
         /\ \A a \in DOMAIN report.got : report.got[a] \in 1..Len(log)
         /\ \A x : x \in Reach <=>
              \/ \E a \in DOMAIN report.got : x = report.got[a]
              \/ \E i \in report.left \cap Paths : \E b \in DOMAIN files[i] : x = files[i][b]
         /\ \A x \in Reach : x \in 1..Len(log)
<1>1. /\ report.left \subseteq Names /\ report.got \in Seq(1..Len(log)) /\ log \in Seq(Line)
  BY DEF TypeOK
<1>2. Len(log) \in Nat /\ \A a \in DOMAIN report.got : report.got[a] \in 1..Len(log)
  BY <1>1, LenProperties, ElementOfSeq
<1>3. \A x : x \in Reach <=>
        \/ \E a \in DOMAIN report.got : x = report.got[a]
        \/ \E i \in report.left \cap Paths : \E b \in DOMAIN files[i] : x = files[i][b]
  BY DEF Reach, Range
<1>4. \A x \in Reach : x \in 1..Len(log)
  BY <1>2, <1>3, PathsFacts
<1>. QED BY <1>1, <1>2, <1>3, <1>4

\* Steps that leave the files and what has been read.
LEMMA ReportFrame ==
  ASSUME ReportInv, UNCHANGED <<files, report>>, Len(log') = Len(log), FaultFree' => FaultFree,
         writer'.pc \in {"rename", "open"} => writer.pc \in {"rename", "open"}
  PROVE  ReportInv'
<1>1. Paths' = Paths /\ Reach' = Reach
  BY DEF Paths, Reach
<1>2. (GotSorted => GotSorted') /\ (ReadsOn => ReadsOn') /\ (NoGap => NoGap')
  BY <1>1 DEF GotSorted, ReadsOn, NoGap
<1>. QED BY <1>2 DEF ReportInv

\* A number in a file was there before, or in a younger file, or it is a new one.
FromBelow ==
  \A j \in Paths' : \A b \in DOMAIN files'[j] :
    \/ files'[j][b] = Len(log) + 1
    \/ \E k \in Paths \cap 0..j : \E c \in DOMAIN files[k] : files'[j][b] = files[k][c]

LEMMA KeepsReading ==
  ASSUME Base, ReportInv, report.pc = "read", FromBelow, Paths' \subseteq Names,
         report'.got = report.got, report'.left = report.left
  PROVE  report'.left # {} /\ GotSorted' /\ ReadsOn'
<1>1. /\ TypeOK /\ GotSorted /\ ReadsOn /\ report.left # {} /\ report.left \subseteq Names
      /\ Names \subseteq Nat /\ Len(log) \in Nat
      /\ \A a \in DOMAIN report.got : report.got[a] \in 1..Len(log)
  BY ReachFacts, PathsFacts DEF Base, ReportInv
<1>2. GotSorted'
  BY <1>1 DEF GotSorted
<1>3. ASSUME NEW a \in DOMAIN report.got, NEW i \in report.left, NEW j \in Paths' \cap 0..i,
             NEW b \in DOMAIN files'[j]
      PROVE  report.got[a] < files'[j][b]
  <2>1. CASE files'[j][b] = Len(log) + 1
    BY <1>1, <2>1
  <2>2. CASE \E k \in Paths \cap 0..j : \E c \in DOMAIN files[k] : files'[j][b] = files[k][c]
    <3>1. PICK k \in Paths \cap 0..j : \E c \in DOMAIN files[k] : files'[j][b] = files[k][c]
      BY <2>2
    <3>2. i \in Nat
      BY <1>1
    <3>3. j \in 0..i /\ k \in 0..j
      BY <3>1
    <3>4. k \in Paths \cap 0..i
      BY <3>1, <3>2, <3>3
    <3>. QED BY <1>1, <3>1, <3>4 DEF ReadsOn
  <2>. QED BY <2>1, <2>2 DEF FromBelow
<1>. QED BY <1>1, <1>2, <1>3 DEF ReadsOn

LEMMA WrittenFromBelow ==
  ASSUME TypeOK, NEW current, current = IF files[0] = None THEN <<>> ELSE files[0], Written(current)
  PROVE  FromBelow /\ Paths' \subseteq Names
<1>1. /\ 0 \in Names /\ files \in FilesType(Len(log)) /\ Len(log) \in Nat /\ Names \subseteq Nat
  BY FilesGrow, PathsFacts
<1>. PICK n : n = Len(log) + 1
  OBVIOUS
<1>2. current \in Seq(1..Len(log)) /\ (files[0] = None => current = <<>>)
      /\ (files[0] # None => current = files[0])
  BY <1>1, EmptySeq DEF FilesType
<1>3. /\ \A i \in Names \ {0} : files'[i] = files[i]
      /\ files'[0] = Append(current, n) \/ files'[0] = current
  BY <1>2, WrittenFacts
<1>4. current \in Seq(Nat) /\ n \in Nat
  BY <1>1, <1>2, SeqMonotonic
<1>5. Range(Append(current, n)) = Range(current) \cup {n}
  BY <1>4, AppendRange
<1>6. \A b \in DOMAIN files'[0] :
         files'[0][b] = n \/ \E c \in DOMAIN current : files'[0][b] = current[c]
  <2>1. \A b \in DOMAIN files'[0] : files'[0][b] \in Range(current) \cup {n}
    BY <1>3, <1>5 DEF Range
  <2>. QED BY <2>1 DEF Range
<1>7. \A c \in DOMAIN current : 0 \in Paths /\ current = files[0]
  BY <1>1, <1>2 DEF Paths
<1>8. ASSUME NEW j \in Paths', NEW b \in DOMAIN files'[j]
      PROVE  \/ files'[j][b] = n
             \/ \E k \in Paths \cap 0..j : \E c \in DOMAIN files[k] : files'[j][b] = files[k][c]
  <2>1. j \in Names /\ j \in 0..j
    BY <1>1 DEF Paths
  <2>2. CASE j = 0
    BY <1>6, <1>7, <2>1, <2>2
  <2>3. CASE j # 0
    <3>1. files'[j] = files[j] /\ j \in Paths
      BY <1>3, <2>1, <2>3 DEF Paths
    <3>. QED BY <2>1, <3>1
  <2>. QED BY <2>2, <2>3
<1>9. FromBelow
  BY <1>8 DEF FromBelow
<1>. QED BY <1>9 DEF Paths

\* The line is the last one, and it is in the current file.
LEMMA WriteLineReport ==
  ASSUME Base, FilesInv, ReportInv, WriteLine
  PROVE  ReportInv'
<1>. SUFFICES ASSUME report.pc = "read" PROVE ReportInv'
  BY DEF ReportInv, WriteLine
<1>1. /\ TypeOK /\ writer.pc = "line" /\ writer.todo # <<>> /\ report' = report /\ 0 \in Names
      /\ files \in FilesType(Len(log)) /\ Len(log) \in Nat /\ phase # "stopped" /\ Lost
      /\ handle = "open" => files[0] # None
  BY WriterFacts, FilesGrow DEF Base, WriteLine, Writing, Written
<1>2. Len(log') = Len(log) + 1 /\ writer'.pc \in {"record", "line", "flush", "select"}
  BY <1>1, LostFacts
<1>. PICK n : n = Len(log) + 1
  OBVIOUS
<1>3. CASE handle # "open" /\ UNCHANGED <<files, surprises>>
  <2>1. ~FaultFree'
    BY <1>1, <1>3 DEF FilesInv, Placed, FaultFree
  <2>2. FromBelow /\ Paths' \subseteq Names
    <3>1. Paths' = Paths /\ files' = files /\ Paths \subseteq Names /\ Names \subseteq Nat
      BY <1>1, <1>3, PathsFacts DEF Paths
    <3>2. \A j \in Paths : j \in Paths \cap 0..j
      BY <3>1
    <3>. QED BY <3>1, <3>2 DEF FromBelow
  <2>3. report'.left # {} /\ GotSorted' /\ ReadsOn'
    BY <1>1, <2>2, KeepsReading
  <2>. QED BY <1>2, <2>1, <2>3 DEF ReportInv
<1>4. CASE handle = "open" /\ Written(files[0])
  <2>0. files[0] \in Seq(1..Len(log)) /\ files[0] # None
    BY <1>1, <1>4 DEF FilesType
  <2>1. /\ \A i \in Names \ {0} : files'[i] = files[i]
        /\ files'[0] # None
        /\ \/ files'[0] = Append(files[0], n) /\ surprises' = surprises
           \/ files'[0] = files[0] /\ Surprise("write")
    BY <1>1, <1>4, <2>0, WrittenFacts
  <2>2. Paths' = Paths /\ 0 \in Paths /\ Paths \subseteq Names /\ Names \subseteq Nat
    BY <1>1, <2>0, <2>1, PathsFacts DEF Paths
  <2>3. Range(Append(files[0], n)) = Range(files[0]) \cup {n}
    <3>1. files[0] \in Seq(Nat) /\ n \in Nat
      BY <1>1, <2>0, SeqMonotonic
    <3>. QED BY <3>1, AppendRange
  <2>4. FromBelow
    BY <1>4, <2>0, WrittenFromBelow DEF Base
  <2>5. report'.left # {} /\ GotSorted' /\ ReadsOn'
    BY <1>1, <2>2, <2>4, KeepsReading
  <2>6. ASSUME ~report.moved, FaultFree' PROVE NoGap'
    <3>1. FaultFree /\ NoGap /\ files'[0] = Append(files[0], n)
      BY <2>1, <2>6 DEF ReportInv, FaultFree, Surprise, LogFaults
    <3>2. \A x \in Reach : x \in 1..Len(log)
      BY <1>1, ReachFacts
    <3>3. CASE 0 \notin report.left
      <4>1. \A i \in report.left \cap Paths : files'[i] = files[i]
        BY <2>1, <2>2, <3>3
      <4>2. Reach' = Reach
        BY <1>1, <2>2, <4>1 DEF Reach
      <4>. QED BY <1>1, <3>1, <3>3, <4>2 DEF NoGap
    <3>4. CASE 0 \in report.left
      <4>1. Range(files'[0]) = Range(files[0]) \cup {n}
        BY <2>3, <3>1
      <4>2. Reach' = Reach \cup {n}
        <5>1. \A i \in (report.left \cap Paths) \ {0} : Range(files'[i]) = Range(files[i])
          BY <2>1, <2>2
        <5>2. 0 \in report.left \cap Paths
          BY <2>2, <3>4
        <5>. QED BY <1>1, <2>2, <4>1, <5>1, <5>2 DEF Reach
      <4>3. \A x \in Reach : x..Len(log) \subseteq Reach
        BY <3>1, <3>4 DEF NoGap
      <4>4. ASSUME NEW x \in Reach', NEW z \in x..n PROVE z \in Reach'
        BY <1>1, <3>2, <4>2, <4>3, <4>4
      <4>5. \A y \in Reach' : y \in 1..n
        BY <1>1, <3>2, <4>2
      <4>6. \A x, y \in Reach' : x..y \subseteq x..n
        BY <1>1, <4>5
      <4>7. \A x, y \in Reach' : x..y \subseteq Reach'
        BY <4>4, <4>6
      <4>. QED BY <1>2, <2>2, <4>4, <4>7 DEF NoGap
    <3>. QED BY <3>3, <3>4
  <2>. QED BY <1>1, <1>2, <2>5, <2>6 DEF ReportInv
<1>. QED BY <1>3, <1>4 DEF WriteLine

\* The files have what they had, or are gone.
LEMMA FewerFromBelow ==
  ASSUME TypeOK, Paths' \subseteq Paths, \A j \in Paths' : files'[j] = files[j]
  PROVE  FromBelow /\ Paths' \subseteq Names
<1>1. \A j \in Paths' : j \in Paths \cap 0..j /\ files'[j] = files[j]
  BY PathsFacts
<1>. QED BY <1>1 DEF FromBelow, Paths

LEMMA ReopenReport ==
  ASSUME Base, ReportInv, Reopen
  PROVE  ReportInv'
<1>. SUFFICES ASSUME report.pc = "read" PROVE ReportInv'
  BY DEF ReportInv, Reopen
<1>1. report.moved /\ report' = report /\ TypeOK
  BY DEF ReportInv, Reopen, Base
<1>2. FromBelow /\ Paths' \subseteq Names
  <2>1. CASE Written(IF files[0] = None THEN <<>> ELSE files[0])
    BY <1>1, <2>1, WrittenFromBelow
  <2>2. CASE UNCHANGED files
    BY <1>1, <2>2, FewerFromBelow DEF Paths
  <2>. QED BY <2>1, <2>2 DEF Reopen
<1>3. report'.left # {} /\ GotSorted' /\ ReadsOn'
  BY <1>1, <1>2, KeepsReading
<1>. QED BY <1>1, <1>3 DEF ReportInv

LEMMA RotateReport ==
  ASSUME Base, ReportInv, Rotate
  PROVE  ReportInv'
<1>1. /\ TypeOK /\ writer.pc = "line" /\ writer.todo # <<>> /\ report \in ReportType(Len(log))
      /\ files \in FilesType(Len(log))
  BY WriterFacts, FilesGrow DEF Rotate, Base, Writing
<1>2. CASE /\ files' = [files EXCEPT ![Oldest] = None]
           /\ report' = [report EXCEPT !.moved = report.pc = "read"]
  <2>0. PICK moved : moved = (report.pc = "read")
    OBVIOUS
  <2>1. report' = [report EXCEPT !.moved = moved]
    BY <1>2, <2>0
  <2>2. /\ report'.pc = report.pc /\ report'.got = report.got /\ report'.left = report.left
        /\ report'.moved = moved
    BY <1>1, <2>1 DEF ReportType
  <2>3. Paths' \subseteq Paths /\ \A j \in Paths' : files'[j] = files[j]
    BY <1>1, <1>2 DEF FilesType, Paths
  <2>4. FromBelow /\ Paths' \subseteq Names
    BY <1>1, <2>3, FewerFromBelow
  <2>5. report.pc = "read" => report'.left # {} /\ GotSorted' /\ ReadsOn'
    BY <2>2, <2>4, KeepsReading
  <2>. QED BY <2>0, <2>2, <2>5 DEF ReportInv
<1>3. CASE Surprise("close") /\ Lost /\ UNCHANGED <<files, report>>
  <2>1. ~FaultFree' /\ writer'.pc \in {"record", "line", "flush", "select"}
    BY <1>1, <1>3, LostFacts DEF FaultFree, Surprise, LogFaults
  <2>2. FromBelow /\ Paths' \subseteq Names
    BY <1>1, <1>3, FewerFromBelow DEF Paths
  <2>3. report.pc = "read" => report'.left # {} /\ GotSorted' /\ ReadsOn'
    BY <1>3, <2>2, KeepsReading
  <2>. QED BY <1>3, <2>1, <2>3 DEF ReportInv
<1>. QED BY <1>2, <1>3 DEF Rotate

LEMMA RenameReport ==
  ASSUME Base, ReportInv, RenameNext
  PROVE  ReportInv'
<1>. SUFFICES ASSUME report.pc = "read" PROVE ReportInv'
  BY DEF ReportInv, RenameNext
<1>1. report.moved /\ report' = report /\ TypeOK /\ files \in FilesType(Len(log))
  BY FilesGrow DEF ReportInv, RenameNext, Base
<1>2. FromBelow /\ Paths' \subseteq Names
  <2>1. CASE UNCHANGED files
    BY <1>1, <2>1, FewerFromBelow DEF Paths
  <2>2. CASE \E i \in {writer.slot} : files' = Renamed(i)
    <3>0. PICK i : i = writer.slot
      OBVIOUS
    <3>1. i \in Nat \ {0} /\ i \in Names /\ i - 1 \in Names
      BY <3>0, SlotFacts
    <3>2. files' = [files EXCEPT ![i] = files[i - 1], ![i - 1] = None]
      BY <2>2, <3>0 DEF Renamed
    <3>3. /\ files'[i] = files[i - 1] /\ files'[i - 1] = None
          /\ \A j \in Names \ {i, i - 1} : files'[j] = files[j]
      BY <1>1, <3>1, <3>2 DEF FilesType
    <3>4. ASSUME NEW j \in Paths'
          PROVE  \E k \in Paths \cap 0..j : files'[j] = files[k]
      <4>0. j \in Names /\ j \in Nat /\ files'[j] # None
        BY <1>1, PathsFacts DEF Paths
      <4>1. CASE j = i
        <5>1. i - 1 \in 0..j
          BY <3>1, <4>1
        <5>2. i - 1 \in Paths
          BY <3>1, <3>3, <4>0, <4>1 DEF Paths
        <5>. QED BY <3>3, <4>1, <5>1, <5>2
      <4>2. CASE j # i
        <5>1. files'[j] = files[j]
          BY <3>3, <4>0, <4>2
        <5>2. j \in Paths \cap 0..j
          BY <4>0, <5>1 DEF Paths
        <5>. QED BY <5>1, <5>2
      <4>. QED BY <4>1, <4>2
    <3>5. Paths' \subseteq Names
      BY DEF Paths
    <3>. QED BY <3>4, <3>5 DEF FromBelow
  <2>. QED BY <2>1, <2>2 DEF RenameNext
<1>3. report'.left # {} /\ GotSorted' /\ ReadsOn'
  BY <1>1, <1>2, KeepsReading
<1>. QED BY <1>1, <1>3 DEF ReportInv

LEMMA StartReport ==
  ASSUME Base, ReportInv, Start
  PROVE  ReportInv'
<1>. SUFFICES ASSUME report.pc = "read" PROVE ReportInv'
  BY DEF ReportInv, Start
<1>1. /\ TypeOK /\ report' = report /\ log' = log /\ surprises' = surprises
      /\ files \in FilesType(Len(log)) /\ 0 \in Names /\ writer'.pc = "select"
      /\ Names \subseteq Nat
  BY FilesGrow, PathsFacts DEF Start, Off, Base
<1>2. /\ files'[0] # None /\ files'[0] = (IF files[0] = None THEN <<>> ELSE files[0])
      /\ \A j \in Names \ {0} : files'[j] = files[j]
  <2>0. PICK f : f = IF files[0] = None THEN <<>> ELSE files[0]
    OBVIOUS
  <2>1. files' = [files EXCEPT ![0] = f]
    BY <1>1, <2>0 DEF Start, FilesType
  <2>2. <<>> # None
    <3>1. <<>> \in Seq(1..0)
      BY EmptySeq
    <3>. QED BY <3>1, NumbersNotNone
  <2>. QED BY <1>1, <2>0, <2>1, <2>2 DEF FilesType
<1>3. \A j \in Paths' : \A b \in DOMAIN files'[j] : j \in Paths /\ files'[j] = files[j]
  BY <1>1, <1>2 DEF Paths
<1>4. Paths \subseteq Paths' /\ \A j \in Paths : files'[j] = files[j]
  BY <1>1, <1>2 DEF Paths
<1>5. FromBelow /\ Paths' \subseteq Names
  <2>1. Paths' \subseteq Names
    BY DEF Paths
  <2>2. \A j \in Paths' : j \in 0..j
    BY <1>1, <2>1
  <2>. QED BY <1>3, <2>1, <2>2 DEF FromBelow
<1>6. report'.left # {} /\ GotSorted' /\ ReadsOn'
  BY <1>1, <1>5, KeepsReading
<1>7. NoGap => NoGap'
  <2>1. \A x : x \in Reach' <=> x \in Reach
    BY <1>1, <1>3, <1>4 DEF Reach, Range
  <2>. QED BY <1>1, <1>4, <2>1 DEF NoGap
<1>8. FaultFree' = FaultFree
  BY <1>1 DEF FaultFree
<1>. QED BY <1>1, <1>6, <1>7, <1>8 DEF ReportInv

LEMMA BeginsReport ==
  ASSUME Base, FilesInv, ReportBegins
  PROVE  ReportInv'
<1>1. PICK left, moved : left = Paths /\ moved = (writer.pc \in {"rename", "open"})
  OBVIOUS
<1>2. report' = [pc |-> "read", left |-> left, got |-> <<>>, moved |-> moved]
  BY <1>1 DEF ReportBegins, NoReport
<1>3. /\ UNCHANGED <<files, log, writer>> /\ (FaultFree' => FaultFree) /\ left # {} /\ TypeOK
  BY <1>1 DEF ReportBegins, logging, FaultFree, Surprise, NightFault, Base
<1>4. report'.left = Paths /\ report'.got = <<>> /\ Paths' = Paths /\ report'.moved = moved
  BY <1>1, <1>2, <1>3 DEF Paths
<1>5. GotSorted' /\ ReadsOn'
  BY <1>4 DEF GotSorted, ReadsOn
<1>6. FaultFree => NoGap'
  <2>1. \A x : x \in Reach' <=> x \in Kept
    <3>1. Range(report'.got) = {}
      BY <1>4, OneOrder
    <3>2. Reach' = Range(report'.got) \cup UNION {Range(files[i]) : i \in Paths \cap Paths}
      BY <1>3, <1>4 DEF Reach
    <3>3. Kept = UNION {Range(files[i]) : i \in Paths}
      BY DEF Kept
    <3>. QED BY <3>1, <3>2, <3>3
  <2>2. \A y \in Kept : y \in 1..Len(log)
    BY <1>3, PathsFacts
  <2>3. ASSUME FaultFree, NEW x \in Kept PROVE x..Len(log) \subseteq Kept
    BY <2>3 DEF FilesInv, Suffix
  <2>4. ASSUME FaultFree, NEW x \in Kept, NEW y \in Kept PROVE x..y \subseteq Kept
    <3>1. x..y \subseteq x..Len(log)
      BY <1>3, <2>2, PathsFacts
    <3>. QED BY <2>3, <2>4, <3>1
  <2>. QED BY <1>3, <1>4, <2>1, <2>3, <2>4 DEF NoGap
<1>. QED BY <1>1, <1>2, <1>3, <1>4, <1>5, <1>6 DEF ReportInv

\* The next file is younger than what has been read.
LEMMA GotFacts ==
  ASSUME Base, FilesInv, ReportInv, report.pc = "read", Content # None
  PROVE  /\ Path \in report.left /\ Path \in Paths /\ \A i \in report.left : i <= Path
         /\ \A a \in DOMAIN Got :
              \/ \E c \in DOMAIN report.got : Got[a] = report.got[c]
              \/ \E b \in DOMAIN Content : Got[a] = Content[b]
         /\ \A a \in DOMAIN report.got : \E c \in DOMAIN Got : report.got[a] = Got[c]
         /\ \A b \in DOMAIN Content : \E c \in DOMAIN Got : Content[b] = Got[c]
         /\ \A a, b \in DOMAIN Got : a < b => Got[a] < Got[b]
         /\ Got \in Seq(1..Len(log))
<1>1. /\ TypeOK /\ report.left # {} /\ GotSorted /\ ReadsOn /\ report.left \subseteq Names
      /\ report.got \in Seq(1..Len(log)) /\ Len(log) \in Nat /\ Names \subseteq Nat
  BY ReachFacts, PathsFacts DEF ReportInv, Base
<1>0. PICK path, content, got : path = Path /\ content = files[path] /\ got = report.got \o content
  OBVIOUS
<1>2. /\ path \in report.left /\ \A i \in report.left : i <= path
      /\ content = Content /\ got = Got /\ path \in Paths /\ path \in Nat
  BY <1>0, <1>1, PathFacts DEF Content, Got, Paths
<1>3. /\ DOMAIN content = 1..Len(content) /\ Len(content) \in Nat
      /\ content \in Seq(1..Len(log))
  BY <1>0, <1>1, <1>2, PathsFacts
<1>4. DOMAIN report.got = 1..Len(report.got) /\ Len(report.got) \in Nat
  BY <1>1, LenProperties
<1>5. /\ got \in Seq(1..Len(log))
      /\ DOMAIN got = 1..(Len(report.got) + Len(content))
      /\ \A a \in DOMAIN report.got : a \in DOMAIN got /\ got[a] = report.got[a]
      /\ \A a \in DOMAIN got : a \notin DOMAIN report.got =>
           a - Len(report.got) \in DOMAIN content /\ got[a] = content[a - Len(report.got)]
      /\ \A b \in DOMAIN content :
           Len(report.got) + b \in DOMAIN got /\ got[Len(report.got) + b] = content[b]
  <2>1. PICK N : N = 1..Len(log)
    OBVIOUS
  <2>2. content \in Seq(N) /\ report.got \in Seq(N)
    BY <1>1, <1>3, <2>1
  <2>3. /\ report.got \o content \in Seq(N)
        /\ DOMAIN (report.got \o content) = 1..(Len(report.got) + Len(content))
        /\ \A a \in DOMAIN report.got :
             a \in DOMAIN (report.got \o content) /\ (report.got \o content)[a] = report.got[a]
        /\ \A a \in DOMAIN (report.got \o content) : a \notin DOMAIN report.got =>
             /\ a - Len(report.got) \in DOMAIN content
             /\ (report.got \o content)[a] = content[a - Len(report.got)]
        /\ \A b \in DOMAIN content :
             /\ Len(report.got) + b \in DOMAIN (report.got \o content)
             /\ (report.got \o content)[Len(report.got) + b] = content[b]
    BY <2>2, Concatenated
  <2>. QED BY <1>0, <2>1, <2>3
<1>6. \A a, b \in DOMAIN content : a < b => content[a] < content[b]
  BY <1>0, <1>2 DEF FilesInv, Ordered
<1>7. \A a \in DOMAIN report.got, b \in DOMAIN content : report.got[a] < content[b]
  <2>1. path \in Paths \cap 0..path
    BY <1>2
  <2>. QED BY <1>0, <1>1, <1>2, <2>1 DEF ReadsOn
<1>8. ASSUME NEW a \in DOMAIN got, NEW b \in DOMAIN got, a < b
      PROVE  got[a] < got[b]
  <2>1. CASE b \in DOMAIN report.got
    <3>1. a \in DOMAIN report.got
      BY <1>4, <1>5, <1>8, <2>1
    <3>. QED BY <1>1, <1>5, <1>8, <2>1, <3>1 DEF GotSorted
  <2>2. CASE a \in DOMAIN report.got /\ b \notin DOMAIN report.got
    BY <1>5, <1>7, <2>2
  <2>3. CASE a \notin DOMAIN report.got /\ b \notin DOMAIN report.got
    <3>1. a - Len(report.got) < b - Len(report.got)
      BY <1>3, <1>4, <1>5, <1>8
    <3>. QED BY <1>5, <1>6, <2>3, <3>1
  <2>. QED BY <2>1, <2>2, <2>3
<1>9. \A a \in DOMAIN got : \/ \E c \in DOMAIN report.got : got[a] = report.got[c]
                           \/ \E b \in DOMAIN content : got[a] = content[b]
  BY <1>5
<1>10. /\ \A a \in DOMAIN report.got : \E c \in DOMAIN got : report.got[a] = got[c]
       /\ \A b \in DOMAIN content : \E c \in DOMAIN got : content[b] = got[c]
  BY <1>5
<1>11. Path = path /\ Content = content /\ Got = got
  BY <1>0, <1>2
<1>12. got \in Seq(1..Len(log))
  BY <1>5
<1>. QED BY <1>2, <1>8, <1>9, <1>10, <1>11, <1>12

LEMMA ReadsReport ==
  ASSUME Base, FilesInv, ReportInv, ReportReads
  PROVE  ReportInv'
<1>1. CASE report' = NoReport
  BY <1>1 DEF ReportInv, NoReport
<1>2. CASE /\ Content # None /\ ~LastRead
           /\ report' = [report EXCEPT !.got = @ \o Content, !.left = @ \ {Path}]
           /\ UNCHANGED surprises
  <2>1. /\ TypeOK /\ report.pc = "read" /\ report.left # {} /\ ReadsOn
        /\ report \in ReportType(Len(log)) /\ report.left \subseteq Names
        /\ UNCHANGED <<files, log, writer>> /\ Names \subseteq Nat
        /\ ~report.moved => writer.pc \notin {"rename", "open"}
        /\ ~report.moved /\ FaultFree => NoGap
    BY ReportGrows, PathsFacts DEF ReportReads, ReportInv, Base, TypeOK, logging
  <2>2. PICK path, content, got, left :
           path = Path /\ content = Content /\ got = Got /\ left = report.left \ {path}
    OBVIOUS
  <2>3. /\ path \in report.left /\ path \in Paths /\ \A i \in report.left : i <= path
        /\ content = files[path]
        /\ \A a \in DOMAIN got : \/ \E c \in DOMAIN report.got : got[a] = report.got[c]
                                 \/ \E b \in DOMAIN content : got[a] = content[b]
        /\ \A a \in DOMAIN report.got : \E c \in DOMAIN got : report.got[a] = got[c]
        /\ \A b \in DOMAIN content : \E c \in DOMAIN got : content[b] = got[c]
        /\ \A a, b \in DOMAIN got : a < b => got[a] < got[b]
    BY <1>2, <2>1, <2>2, GotFacts DEF Content
  <2>4. /\ report'.pc = "read" /\ report'.got = got /\ report'.left = left
        /\ report'.moved = report.moved
    <3>1. report' = [report EXCEPT !.got = report.got \o Content, !.left = report.left \ {Path}]
      BY <1>2, <2>1 DEF ReportType
    <3>2. report' = [report EXCEPT !.got = got, !.left = left]
      BY <2>2, <3>1 DEF Got
    <3>. QED BY <2>1, <3>2 DEF ReportType
  <2>5. GotSorted'
    BY <2>3, <2>4 DEF GotSorted
  <2>6. ReadsOn'
    <3>1. ASSUME NEW a \in DOMAIN got, NEW i \in left, NEW j \in Paths \cap 0..i,
                 NEW b \in DOMAIN files[j]
          PROVE  got[a] < files[j][b]
      <4>1. i \in report.left /\ j < path
        <5>1. i \in report.left /\ i <= path /\ i # path /\ i \in Nat /\ path \in Nat
          BY <2>1, <2>2, <2>3
        <5>. QED BY <5>1
      <4>2. CASE \E c \in DOMAIN report.got : got[a] = report.got[c]
        BY <2>1, <4>1, <4>2 DEF ReadsOn
      <4>3. CASE \E c \in DOMAIN content : got[a] = content[c]
        BY <2>3, <4>1, <4>3 DEF FilesInv, Ordered
      <4>. QED BY <2>3, <4>2, <4>3
    <3>2. Paths' = Paths
      BY <2>1 DEF Paths
    <3>. QED BY <2>1, <2>4, <3>1, <3>2 DEF ReadsOn
  <2>7. left # {}
    BY <1>2, <2>1, <2>2, <2>3 DEF LastRead
  <2>8. NoGap => NoGap'
    <3>1. ASSUME NEW x PROVE x \in Reach' <=> x \in Reach
      <4>1. x \in Reach' <=> \/ \E a \in DOMAIN got : x = got[a]
                             \/ \E i \in left \cap Paths : \E b \in DOMAIN files[i] : x = files[i][b]
        BY <2>1, <2>4 DEF Reach, Range, Paths
      <4>2. x \in Reach <=>
              \/ \E a \in DOMAIN report.got : x = report.got[a]
              \/ \E i \in report.left \cap Paths : \E b \in DOMAIN files[i] : x = files[i][b]
        BY <2>1, ReachFacts
      <4>3. (\E i \in report.left \cap Paths : \E b \in DOMAIN files[i] : x = files[i][b]) <=>
              \/ \E b \in DOMAIN content : x = content[b]
              \/ \E i \in left \cap Paths : \E b \in DOMAIN files[i] : x = files[i][b]
        BY <2>2, <2>3
      <4>4. (\E a \in DOMAIN got : x = got[a]) <=>
              (\E a \in DOMAIN report.got : x = report.got[a]) \/ \E b \in DOMAIN content : x = content[b]
        BY <2>3
      <4>. QED BY <4>1, <4>2, <4>3, <4>4
    <3>2. 0 \in left => 0 \in report.left
      BY <2>2
    <3>. QED BY <2>1, <2>4, <3>1, <3>2 DEF NoGap, Paths
  <2>9. FaultFree' = FaultFree
    BY <1>2 DEF FaultFree
  <2>. QED BY <2>1, <2>4, <2>5, <2>6, <2>7, <2>8, <2>9 DEF ReportInv
<1>. QED BY <1>1, <1>2 DEF ReportReads

LEMMA NextReport ==
  ASSUME Base, FilesInv, ReportInv, Next
  PROVE  ReportInv'
<1>1. CASE ReportBegins \/ ReportReads
  BY <1>1, BeginsReport, ReadsReport
<1>2. CASE WriteLine \/ Reopen \/ Rotate \/ RenameNext \/ Start
  BY <1>2, WriteLineReport, ReopenReport, RotateReport, RenameReport, StartReport
<1>3. CASE UNCHANGED <<files, report, log>> /\ (FaultFree' => FaultFree)
           /\ (writer'.pc \in {"rename", "open"} => writer.pc \in {"rename", "open"})
  BY <1>3, ReportFrame
<1>4. CASE Receive \/ ReceiveClosed
  <2>1. writer'.pc \in {"line", "flush"}
    BY <1>4, ReceiveFacts, ReceiveClosedFacts
  <2>. QED BY <1>3, <1>4, <2>1 DEF Receive, ReceiveClosed, logging, FaultFree
<1>5. CASE Record \/ FlushTick \/ FlushLast
  <2>1. writer'.pc \in {"line", "flush", "select", "done"}
    BY <1>5, RecordRest, FlushRest
  <2>2. UNCHANGED <<files, report, log>> /\ (FaultFree' => FaultFree)
    BY <1>5 DEF Record, FlushTick, FlushLast, Flush, logging, FaultFree, Surprise, NightFault
  <2>. QED BY <1>3, <2>1, <2>2
<1>6. CASE \/ \E r \in Requests : Arrive(r) \/ Stamp(r) \/ Send(r) \/ Count(r)
           \/ CloseQueue \/ Midnight \/ Stop \/ Crash
  <2>1. UNCHANGED <<files, report, log>> /\ (FaultFree' => FaultFree)
    BY <1>6 DEF Arrive, Stamp, Send, Count, CloseQueue, Midnight, Stop, Crash, logging, FaultFree,
       Surprise
  <2>2. writer' = writer \/ writer' = Off
    BY <1>6 DEF Arrive, Stamp, Send, Count, CloseQueue, Midnight, Stop, Crash
  <2>. QED BY <1>3, <2>1, <2>2 DEF Off
<1>. QED BY <1>1, <1>2, <1>4, <1>5, <1>6 DEF Next, Write

-----------------------------------------------------------------------------
(* The invariant holds                                                     *)

LEMMA NextBase ==
  ASSUME Base, Next, report.pc = "read" => report.left # {}
  PROVE  Base'
BY ArriveBase, SendBase, CountBase, ReceiveBase, ReceiveClosedBase, WriteLineBase, RotateBase,
   RenameBase, ReopenBase, RecordBase, FlushBase, StartBase, CloseBase, EndBase, MidnightBase,
   ReportsBase
DEF Next, Write

LEMMA InitBase == Init => Base
<1>. SUFFICES ASSUME Init PROVE Base
  OBVIOUS
<1>1. /\ 0 \in 0..MaxRuns /\ 1 \in 1..Days /\ 0 \in 0..Days /\ QueueSize >= 0 /\ MaxSurprises >= 0
      /\ 0 \in Names /\ <<>> \in Seq(Line) /\ Len(<<>>) = 0 /\ Cardinality({}) = 0
  BY EventLogAssumption, EmptySeq, FS_EmptySet DEF Names
<1>2. req \in [Requests -> RequestType] /\ \A r \in Requests : req[r].pc = "idle" /\ req[r].next = 1
  BY <1>1 DEF Init, RequestType
<1>3. writer \in WriterType /\ ~writer.last /\ writer.todo = <<>> /\ writer.pc = "off"
  BY <1>1 DEF Init, Off, WriterType
<1>4. files \in FilesType(Len(log)) /\ report \in ReportType(Len(log))
  <2>1. <<>> \in Seq(1..Len(log))
    BY EmptySeq
  <2>. QED BY <2>1 DEF Init, FilesType, ReportType, NoReport
<1>5. SummaryType
  BY <1>1 DEF Init, SummaryType, NoDay, NoSummary, Summary
<1>6. TypeOK
  BY <1>1, <1>2, <1>3, <1>4, <1>5
  DEF Init, TypeOK, RequestType, WriterType, FilesType, ReportType, SummaryType
<1>7. PhaseInv
  BY <1>2, <1>3 DEF Init, PhaseInv, Active
<1>. QED BY <1>6, <1>7 DEF Base

LEMMA InitInv == Init => Inv
<1>. SUFFICES ASSUME Init PROVE Inv
  OBVIOUS
<1>1. Base
  BY InitBase
<1>2. /\ Rest = <<>> /\ log = <<>> /\ queue = <<>> /\ dropped = {} /\ Paths = {}
      /\ Len(log) = 0 /\ report.pc = "idle"
  BY DEF Init, Rest, Off, Paths, NoReport
<1>3. OnceInv
  <2>1. \A r \in Requests : req[r].next = 1
    BY DEF Init
  <2>2. ASSUME NEW r, NEW kind PROVE Total(r, kind) = 0
    <3>1. Telling(log, r, kind) = 0 /\ Telling(Rest, r, kind) = 0 /\ Telling(queue, r, kind) = 0
      BY <1>2, TellingOne
    <3>. QED BY <1>2, <3>1 DEF Total, Dropped
  <2>. QED BY <2>1, <2>2 DEF OnceInv
<1>4. SummaryInv
  BY DEF Init, SummaryInv, SummaryAddsUp, NoDay, Off
<1>5. FilesInv
  <2>1. Placed
    BY DEF Init, Placed, Off
  <2>2. Ordered /\ Suffix
    BY <1>2 DEF Ordered, Suffix, Kept
  <2>3. Packed
    BY <1>2 DEF Packed
  <2>. QED BY <2>1, <2>2, <2>3 DEF FilesInv
<1>6. LinesInv
  <2>1. AllLines = {} /\ \A r \in Requests : ~Timed(r)
    BY <1>2, OneOrder DEF Init, AllLines, Timed
  <2>. QED BY <1>2, <2>1, OneOrder DEF LinesInv, EndsLast, Before, Owned, Dated
<1>7. ReportInv
  BY <1>2 DEF ReportInv
<1>. QED BY <1>1, <1>3, <1>4, <1>5, <1>6, <1>7 DEF Inv, Base

LEMMA NextInv == Inv /\ [Next]_vars => Inv'
<1>. SUFFICES ASSUME Inv, [Next]_vars PROVE Inv'
  OBVIOUS
<1>1. Base /\ OnceInv /\ SummaryInv /\ FilesInv /\ LinesInv /\ ReportInv
  BY DEF Inv, Base
<1>2. CASE Next
  <2>1. Base'
    BY <1>1, <1>2, NextBase DEF ReportInv
  <2>2. OnceInv' /\ SummaryInv' /\ FilesInv' /\ LinesInv' /\ ReportInv'
    BY <1>1, <1>2, NextOnce, NextSummary, NextFiles, NextLines, NextReport
  <2>. QED BY <2>1, <2>2 DEF Inv, Base
<1>3. CASE UNCHANGED vars
  <2>1. /\ UNCHANGED <<phase, run, today, req, queue, dropped, writer, handle, files, log>>
        /\ UNCHANGED <<daily, disk, recorded, report, surprises>>
    BY <1>3 DEF vars, process, queuing, logging, summing
  <2>2. TypeOK' /\ PhaseInv'
    BY <1>1, <2>1 DEF Base, TypeOK, PhaseInv, Closed, Active
  <2>3. Rest' = Rest
    BY <2>1 DEF Rest
  <2>4. OnceInv'
    <3>1. \A r \in Requests : \A kind : Total(r, kind)' = Total(r, kind)
      BY <2>1, <2>3, SameTotal
    <3>. QED BY <1>1, <2>1, <3>1, KeepsOnce
  <2>5. SummaryInv'
    BY <1>1, <2>1, SummaryFrame DEF summing
  <2>6. FilesInv'
    <3>1. Odd' = Odd /\ (FaultFree' => Placed')
      BY <1>1, <2>1 DEF FilesInv, FaultFree, Placed, Odd
    <3>. QED BY <1>1, <2>1, <3>1, FilesFrame
  <2>7. LinesInv'
    <3>1. today' \in Nat /\ today <= today'
      BY <1>1, <2>1, LinesType
    <3>. QED BY <1>1, <2>1, <2>3, <3>1, SameLines DEF Active, Timed
  <2>8. ReportInv'
    BY <1>1, <2>1, ReportFrame DEF FaultFree
  <2>. QED BY <2>2, <2>4, <2>5, <2>6, <2>7, <2>8 DEF Inv
<1>. QED BY <1>2, <1>3

\* Whatever the requests, the writer, the failures and the reports do, the six parts of
\* the invariant hold besides the types.
THEOREM EventLogInvariant == Spec => []Inv
<1>. QED BY InitInv, NextInv, PTL DEF Spec

\* The variables keep their types, and the writer to the queue it was made for.
THEOREM TypeCorrect == Spec => []TypeOK
<1>1. Inv => TypeOK
  BY DEF Inv
<1>. QED BY <1>1, EventLogInvariant, PTL

-----------------------------------------------------------------------------
(* Events                                                                  *)

LEMMA EmittedFacts ==
  ASSUME Base, NEW r \in Requests, NEW kind \in Emitted(r)
  PROVE  \E i \in 1..2 : i < req[r].next /\ kind = Events(r)[i]
<1>1. req[r].next \in 1..3
  BY DEF Base, TypeOK
<1>2. PICK i \in 1..(req[r].next - 1) : kind = Events(r)[i]
  BY DEF Emitted
<1>3. i \in 1..2 /\ i < req[r].next
  BY <1>1, <1>2
<1>. QED BY <1>2, <1>3

\* The lines and the counter in one sequence: an event is told in it as often as it has places.
LEMMA LinesTelling ==
  ASSUME Base, NEW r \in Requests, NEW kind
  PROVE  Telling(Lines, r, kind) = Total(r, kind)
<1>1. PICK health : health = LineOf("health", None, today, dropped)
  OBVIOUS
<1>2. PICK S : S = Line \cup {health}
  OBVIOUS
<1>3. PICK last : last = <<health>>
  OBVIOUS
<1>4. log \in Seq(S) /\ Rest \in Seq(S) /\ queue \in Seq(S) /\ last \in Seq(S)
  <2>1. log \in Seq(Line) /\ Rest \in Seq(Line) /\ queue \in Seq(Line)
    BY TotalType
  <2>2. Line \subseteq S /\ health \in S
    BY <1>2
  <2>3. Seq(Line) \subseteq Seq(S)
    BY <2>2, SeqMonotonic
  <2>. QED BY <1>3, <2>1, <2>2, <2>3
<1>5. One(health, r, kind) = Dropped(r, kind)
  BY <1>1, EventLogAssumption DEF One, Tells, Dropped, LineOf
<1>6. PICK a, b : a = log \o Rest /\ b = a \o queue
  OBVIOUS
<1>7. a \in Seq(S) /\ b \in Seq(S)
  BY <1>4, <1>6, ConcatProperties
<1>8. Telling(a, r, kind) = Telling(log, r, kind) + Telling(Rest, r, kind)
  BY <1>4, <1>6, TellingConcat
<1>9. Telling(b, r, kind) = Telling(a, r, kind) + Telling(queue, r, kind)
  <2>1. Telling(a \o queue, r, kind) = Telling(a, r, kind) + Telling(queue, r, kind)
    BY <1>4, <1>7, TellingConcat
  <2>. QED BY <1>6, <2>1
<1>10. Telling(b \o last, r, kind) = Telling(b, r, kind) + Telling(last, r, kind)
  BY <1>4, <1>7, TellingConcat
<1>11. Telling(last, r, kind) = Dropped(r, kind)
  BY <1>3, <1>5, TellingOne
<1>12. Lines = b \o last
  BY <1>1, <1>3, <1>6 DEF Lines, Rest
<1>. QED BY <1>8, <1>9, <1>10, <1>11, <1>12 DEF Total

\* An event that was emitted is in one place, however the queue filled and was closed.
THEOREM EachOnce == Spec => []EveryEventOnce
<1>1. Inv => EveryEventOnce
  <2>. SUFFICES ASSUME Inv, phase # "stopped" \/ writer.pc = "done",
                       NEW r \in Requests, NEW kind \in Emitted(r)
                PROVE  Cardinality({i \in DOMAIN Lines : Tells(Lines[i], r, kind)}) = 1
    BY DEF EveryEventOnce
  <2>1. Base /\ OnceInv
    BY DEF Inv, Base
  <2>2. PICK i \in 1..2 : i < req[r].next /\ kind = Events(r)[i]
    BY <2>1, EmittedFacts
  <2>3. Total(r, kind) = 1
    BY <2>1, <2>2 DEF OnceInv
  <2>4. Telling(Lines, r, kind) = 1
    BY <2>1, <2>3, LinesTelling
  <2>. QED BY <2>4 DEF Telling
<1>. QED BY <1>1, EventLogInvariant, PTL

\* What ended before Close is told when Close has returned, and what was recorded is saved.
THEOREM TellsAll == Spec => []CloseTellsAll
<1>1. Inv => CloseTellsAll
  <2>. SUFFICES ASSUME Inv, phase = "stopped", writer.pc = "done" PROVE
         /\ \A r \in Requests : req[r].pc = "done" =>
              \A kind \in Emitted(r) : \E line \in Made : Tells(line, r, kind)
         /\ surprises \cap {"flush", "read"} = {} => disk = recorded
    BY DEF CloseTellsAll
  <2>1. Base /\ OnceInv /\ SummaryInv
    BY DEF Inv, Base
  <2>2. queue = <<>> /\ Rest = <<>> /\ \A x \in dropped : req[x[1]].pc = "late"
    BY <2>1 DEF Base, TypeOK, PhaseInv, Rest
  <2>3. ASSUME NEW r \in Requests, req[r].pc = "done", NEW kind \in Emitted(r)
        PROVE  \E line \in Made : Tells(line, r, kind)
    <3>1. PICK i \in 1..2 : i < req[r].next /\ kind = Events(r)[i]
      BY <2>1, EmittedFacts
    <3>2. Total(r, kind) = 1
      BY <2>1, <3>1 DEF OnceInv
    <3>3. <<r, kind>> \notin dropped
      BY <2>2, <2>3
    <3>4. Telling(queue, r, kind) = 0 /\ Telling(Rest, r, kind) = 0 /\ Dropped(r, kind) = 0
      BY <2>2, <3>3, TellingOne DEF Dropped
    <3>5. Telling(log, r, kind) \in Nat
      BY <2>1, TotalType
    <3>6. Telling(log, r, kind) = 1
      BY <3>2, <3>4, <3>5 DEF Total
    <3>7. {n \in DOMAIN log : Tells(log[n], r, kind)} # {}
      BY <3>6, FS_EmptySet DEF Telling
    <3>. QED BY <3>7 DEF Made
  <2>4. ASSUME surprises \cap {"flush", "read"} = {}
        PROVE  disk = recorded
    <3>1. disk \in [1..Days -> Summary] /\ recorded \in [1..Days -> Summary]
      BY <2>1 DEF Base, TypeOK
    <3>2. "read" \notin surprises /\ ~daily.dirty
      BY <2>1, <2>4 DEF SummaryInv
    <3>3. ASSUME NEW d \in 1..Days PROVE recorded[d] = disk[d]
      <4>1. recorded[d] = IF d = daily.day THEN daily.sum ELSE disk[d]
        BY <2>1, <3>2 DEF SummaryInv, SummaryAddsUp
      <4>2. d = daily.day => disk[d] = daily.sum
        BY <2>1, <3>2 DEF SummaryInv
      <4>. QED BY <4>1, <4>2
    <3>4. disk = [d \in 1..Days |-> disk[d]] /\ recorded = [d \in 1..Days |-> recorded[d]]
      BY <3>1
    <3>5. [d \in 1..Days |-> disk[d]] = [d \in 1..Days |-> recorded[d]]
      BY <3>3
    <3>. QED BY <3>4, <3>5
  <2>. QED BY <2>3, <2>4
<1>. QED BY <1>1, EventLogInvariant, PTL

\* A day's summary counts what was recorded for it, in memory or in its file.
THEOREM AddsUp == Spec => []SummaryAddsUp
<1>1. Inv => SummaryAddsUp
  BY DEF Inv, SummaryInv
<1>. QED BY <1>1, EventLogInvariant, PTL

-----------------------------------------------------------------------------
(* Files and reports                                                       *)

\* The files keep the last lines, in their order and without a gap.
THEOREM KeepsSuffix == Spec => []RotationKeepsSuffix
<1>1. Inv => RotationKeepsSuffix
  <2>. SUFFICES ASSUME Inv PROVE RotationKeepsSuffix
    OBVIOUS
  <2>1. FilesInv
    BY DEF Inv
  <2>2. ASSUME NEW i \in Names, NEW j \in Names, i # j, \A k \in Names \ {Odd} : AtLimit(k)
        PROVE  AtLimit(i) \/ AtLimit(j)
    <3>1. i # Odd \/ j # Odd
      BY <2>2
    <3>. QED BY <2>2, <3>1
  <2>3. FaultFree /\ "crash" \notin surprises =>
          \/ 1..Len(log) \subseteq Kept
          \/ \A i, j \in Names : i # j => AtLimit(i) \/ AtLimit(j)
    BY <2>1, <2>2 DEF FilesInv, Packed
  <2>. QED BY <2>1, <2>3 DEF RotationKeepsSuffix, FilesInv, Ordered, Suffix, FaultFree
<1>. QED BY <1>1, EventLogInvariant, PTL

\* What is asked of the report of one window.
SoundFor(known, from, to) ==
  ~Warns(known) =>
    \A r \in (Seen(known, "start") \cup Seen(known, "accept")) \ Seen(known, "end") :
      \A n \in DOMAIN log : EndOf(log[n], r) => OutOfSight(n, from, to)

\* A report without a warning has the end of every request that it has the beginning of, or
\* that end is out of its sight, for every window: unless a rotation came between its reads
\* or the log failed.
THEOREM Sound == Spec => []ReportSound
<1>1. Inv => ReportSound
  <2>. SUFFICES ASSUME Inv, LastRead
                PROVE  /\ \A i \in 2..Len(Got) : Got[i - 1] < Got[i]
                       /\ ~report.moved /\ surprises \cap LogFaults = {} =>
                            \A from \in 1..Days : \A to \in from..Days :
                              SoundFor(Known(from, to), from, to)
    BY DEF ReportSound, SoundFor
  <2>1. /\ Base /\ FilesInv /\ LinesInv /\ ReportInv /\ TypeOK /\ report.pc = "read"
        /\ report.left = {Path} /\ Content # None
    BY DEF Inv, Base, LastRead
  <2>2. /\ Path \in Paths /\ \A a, b \in DOMAIN Got : a < b => Got[a] < Got[b]
        /\ Got \in Seq(1..Len(log))
    BY <2>1, GotFacts
  <2>3. /\ DOMAIN Got = 1..Len(Got) /\ Len(Got) \in Nat /\ log \in Seq(Line)
        /\ DOMAIN log = 1..Len(log) /\ Len(log) \in Nat
        /\ \A a \in DOMAIN Got : Got[a] \in DOMAIN log
    <3>1. log \in Seq(Line) /\ Len(log) \in Nat /\ DOMAIN log = 1..Len(log)
      BY <2>1, LenProperties DEF TypeOK
    <3>2. DOMAIN Got = 1..Len(Got) /\ Len(Got) \in Nat /\ \A a \in DOMAIN Got : Got[a] \in 1..Len(log)
      BY <2>2, LenProperties, ElementOfSeq
    <3>. QED BY <3>1, <3>2
  <2>4. \A i \in 2..Len(Got) : Got[i - 1] < Got[i]
    <3>1. \A i \in 2..Len(Got) : i - 1 \in DOMAIN Got /\ i \in DOMAIN Got /\ i - 1 < i
      BY <2>3
    <3>. QED BY <2>2, <3>1
  <2>5. \A x : x \in Reach <=> \E a \in DOMAIN Got : x = Got[a]
    <3>1. \A x : x \in Reach <=> \/ \E a \in DOMAIN report.got : x = report.got[a]
                                 \/ \E b \in DOMAIN Content : x = Content[b]
      <4>1. report.left \cap Paths = {Path}
        BY <2>1, <2>2
      <4>. QED BY <2>1, <4>1, ReachFacts DEF Content
    <3>. QED BY <2>1, <3>1, GotFacts
  <2>6. ASSUME ~report.moved, surprises \cap LogFaults = {},
               NEW from \in 1..Days, NEW to \in from..Days,
               NEW known, known = Known(from, to), ~Warns(known),
               NEW r \in (Seen(known, "start") \cup Seen(known, "accept")) \ Seen(known, "end"),
               NEW n \in DOMAIN log, EndOf(log[n], r), ~OutOfSight(n, from, to)
        PROVE  FALSE
    <3>0. /\ NoGap /\ Unfinished(known) = {} /\ Interrupted(known) = {}
          /\ Seen(known, "health") = {}
      BY <2>1, <2>6 DEF ReportInv, FaultFree, Warns
    <3>1. /\ ~(n > Last(Got)) /\ ~(log[n].day > to)
          /\ log[n].kind \in {"health", "startup"} => n \in Range(Got)
          /\ log[n].kind = "health" => ~(log[n].day < from)
      BY <2>6 DEF OutOfSight
    <3>2. r \in Upgraded(known)
      BY <2>6, <3>0 DEF Unfinished, Upgraded
    <3>3. PICK a \in DOMAIN Got : /\ log[Got[a]].req = r /\ log[Got[a]].kind = "accept"
                                  /\ log[Got[a]] \in known /\ from <= log[Got[a]].day
      <4>1. PICK line \in known : line.req = r /\ line.kind = "accept"
        BY <3>2 DEF Upgraded, Seen
      <4>2. line \in {log[Got[i]] : i \in DOMAIN Got} /\ line.day \in from..to
        BY <2>6, <4>1 DEF Known
      <4>. QED BY <4>1, <4>2
    <3>4. /\ log[Got[a]] \in AllLines /\ log[n] \in AllLines /\ log[n] \in Made
          /\ log[Got[a]] \in Line /\ log[n] \in Line
      <4>1. Got[a] \in DOMAIN log
        BY <2>3, <3>3
      <4>2. log[Got[a]] \in Line /\ log[n] \in Line
        BY <2>3, <2>6, <4>1, ElementOfSeq
      <4>. QED BY <2>3, <2>6, <4>1, <4>2 DEF AllLines, Range, Made
    <3>5. /\ log[n].day \in Nat /\ log[Got[a]].day \in Nat /\ from \in Nat /\ to \in Nat
          /\ from <= to
      <4>1. log[n].day \in 1..Days /\ log[Got[a]].day \in 1..Days
        BY <3>4 DEF Line
      <4>. QED BY <2>6, <4>1, EventLogAssumption
    <3>6. r \in Requests /\ r # None
      <4>1. r # None
        BY <2>1, <3>3, <3>4 DEF LinesInv, Owned
      <4>. QED BY <3>3, <3>4, <4>1 DEF Line
    <3>7. ASSUME n \in Range(Got), log[n].day >= from
          PROVE  log[n] \in known
      <4>1. log[n].day \in from..to
        BY <3>1, <3>5, <3>7
      <4>. QED BY <2>6, <3>7, <4>1 DEF Known, Range
    <3>8. ASSUME log[n].req = r, log[n].kind = "end"
          PROVE  FALSE
      <4>0. Ends(log[n], r) /\ Begins(log[Got[a]], r)
        BY <3>3, <3>8 DEF Ends, Begins
      <4>1. Got[a] < n
        <5>1. ~(n < Got[a])
          BY <2>1, <2>3, <2>6, <3>3, <3>6, <4>0 DEF LinesInv, EndsLast, InOrder
        <5>2. n # Got[a]
          BY <3>3, <3>8
        <5>. QED BY <2>3, <2>6, <5>1, <5>2
      <4>2. Last(Got) \in Reach /\ Last(Got) \in DOMAIN log /\ Got[a] \in Reach
        <5>1. Len(Got) \in DOMAIN Got /\ Last(Got) = Got[Len(Got)]
          BY <2>3, <3>3 DEF Last
        <5>. QED BY <2>3, <2>5, <3>3, <5>1
      <4>3. n \in Reach
        <5>1. n \in Got[a]..Last(Got)
          BY <2>3, <2>6, <3>1, <4>1, <4>2
        <5>. QED BY <3>0, <4>2, <5>1 DEF NoGap
      <4>4. n \in Range(Got)
        BY <2>5, <4>3 DEF Range
      <4>5. log[Got[a]].day <= log[n].day
        BY <2>1, <3>4, <3>6, <4>0 DEF LinesInv, Dated
      <4>6. log[n] \in known
        BY <3>3, <3>5, <3>7, <4>4, <4>5
      <4>7. r \in Seen(known, "end")
        BY <3>8, <4>6 DEF Seen
      <4>. QED BY <2>6, <4>7
    <3>9. ASSUME <<r, "end">> \in log[n].of
          PROVE  FALSE
      <4>1. log[n].kind = "health"
        BY <2>1, <3>4, <3>9 DEF LinesInv, Owned
      <4>2. log[n] \in known
        BY <3>1, <3>5, <3>7, <4>1
      <4>3. log[n].req \in Seen(known, "health")
        BY <4>1, <4>2 DEF Seen
      <4>. QED BY <3>0, <4>3
    <3>10. ASSUME log[n].kind = "startup", NEW l \in Made, l.req = r, l.run < log[n].run
           PROVE  FALSE
      <4>1. l.run = log[Got[a]].run
        <5>1. l \in AllLines
          BY <3>10 DEF Made, AllLines, Range
        <5>. QED BY <2>1, <3>3, <3>4, <3>6, <3>10, <5>1 DEF LinesInv, Owned
      <4>2. log[Got[a]].day <= log[n].day
        BY <2>1, <3>4, <3>10, <4>1 DEF LinesInv, Dated
      <4>3. log[n] \in known
        BY <3>1, <3>3, <3>5, <3>7, <3>10, <4>2
      <4>4. r \in Interrupted(known)
        BY <3>2, <3>3, <3>10, <4>1, <4>3 DEF Interrupted
      <4>. QED BY <3>0, <4>4
    <3>. QED BY <2>6, <3>8, <3>9, <3>10 DEF EndOf
  <2>7. ASSUME ~report.moved, surprises \cap LogFaults = {},
               NEW from \in 1..Days, NEW to \in from..Days
        PROVE  SoundFor(Known(from, to), from, to)
    <3>1. PICK known : known = Known(from, to)
      OBVIOUS
    <3>2. SoundFor(known, from, to)
      BY <2>6, <2>7, <3>1 DEF SoundFor
    <3>. QED BY <3>1, <3>2
  <2>. QED BY <2>4, <2>7
<1>. QED BY <1>1, EventLogInvariant, PTL
=============================================================================
